--------------------------- MODULE MCFrontierSearch ---------------------------
(***************************************************************************)
(* Small instances of the search: one target that may fail, pass, or pass  *)
(* with a weak oracle, two regions that suggest different mechanisms.      *)
(***************************************************************************)
EXTENDS FrontierSearch

CONSTANTS t, u, ch, p, q, r, cell

MCMechanismOf == [x \in Regions |-> IF x = 1 THEN "guard" ELSE "return"]
MCVerdicts == [x \in Checks |-> IF x = t THEN {"FAIL", "WEAK", "PASS"}
                                ELSE IF x = u THEN {"WEAK", "UNKNOWN", "FAIL"} ELSE {"FAIL"}]
=============================================================================
