---------------------- MODULE MCTransactionalSearch ----------------------
(* A hard public target, a soft target and two preservation checks, with   *)
(* room for one locked replay: the second lock is beyond the limit.        *)
EXTENDS TransactionalSearch

MCCell == {"t1", "t2", "p1", "p2"}
MCTarget == {"t1", "t2"}
MCHard == {"t1"}
MCTrusted == {"t1", "p1", "p2"}
MCPublic == {"t1", "p1", "p2"}
MCImpacted == {"p2"}
MCRank == [c \in MCCell |-> CASE c = "t1" -> 1 [] c = "t2" -> 2 [] c = "p1" -> 3 [] c = "p2" -> 4]
MCOutcomes ==
  [c \in MCCell |-> CASE c = "t1" -> {"PASS", "NEAR", "IMPORT", "UNSTABLE"}
                      [] c = "t2" -> {"PASS", "RUNTIME"}
                      [] c = "p1" -> {"PASS", "UNSTABLE"}
                      [] c = "p2" -> {"PASS", "FAR"}]
=============================================================================
