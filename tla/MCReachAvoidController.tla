----------------------- MODULE MCReachAvoidController -----------------------
(***************************************************************************)
(* Small instances of the controller: a hard target t, a preservation      *)
(* check p, a generated challenge c1, patches a, b, d, one warning-level    *)
(* blocker name, and a few things an execution may show.                   *)
(***************************************************************************)
EXTENDS ReachAvoidController, TLC

CONSTANTS t, p, c1, a, b, d, name, goal

MCAuthority == [x \in Checks |-> 2]
MCGoalOf == [x \in Targets |-> goal]
MCSizeOf == [x \in Patches \cup {Blank} |->
               CASE x = Blank -> 0 [] x = a -> 2 [] OTHER -> 1]

OnlyBIsBlocked == [x \in Patches \cup {Blank} |-> IF x = b THEN {name} ELSE {}]

Pass   == ExecutionOf([verdict |-> "MATCH", error |-> "OTHER", entered |-> TRUE],
                      {1}, NoDistance, 0)
Fail   == ExecutionOf([verdict |-> "MISMATCH", error |-> "OTHER", entered |-> TRUE],
                      {1}, NoDistance, 1)

PassOrFail     == {Pass, Fail}
=============================================================================
