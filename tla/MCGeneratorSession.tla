-------------------------- MODULE MCGeneratorSession --------------------------
(***************************************************************************)
(* Small instance of a session: three trees, two texts of patches, two     *)
(* checks, and turns enough for a recovery and a second edit.              *)
(***************************************************************************)
EXTENDS GeneratorSession

CONSTANTS clean, a, b, x, y, c, d
=============================================================================
