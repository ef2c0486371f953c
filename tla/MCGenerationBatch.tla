------------------------- MODULE MCGenerationBatch -------------------------
(* Two cases, the run directory of one of them unmovable; three attempts,   *)
(* two to an invocation and case, and one edit of the code that may be put  *)
(* back, both at any time.                                                  *)
EXTENDS GenerationBatch, TLC

CONSTANTS moved, stuck

MCCases   == {moved, stuck}
MCForeign == {stuck}
=============================================================================
