-------------------------- MODULE MCTrialJudgement --------------------------
(***************************************************************************)
(* Evaluates the transition table on every pair of a parent and a trial    *)
(* over small check sets.                                                  *)
(***************************************************************************)
EXTENDS TrialJudgement, TLC

CONSTANTS t1, t2, p1, c1, goal, soft, syntax, name, api

MCAuthority == [c \in Checks |-> IF c = t2 THEN 3 ELSE 2]
MCGoalOf == [t \in Targets |-> IF t = t1 THEN goal ELSE soft]

\* The executions a check of each role may show in this instance.
Pass(frames)  == ExecutionOf([verdict |-> "MATCH", error |-> "OTHER", entered |-> TRUE],
                             frames, NoDistance, 0)
Fail(frames, n) == ExecutionOf([verdict |-> "MISMATCH", error |-> "OTHER",
                                entered |-> frames # {}], frames, NoDistance, n)
ImportError   == ExecutionOf([verdict |-> "MISMATCH", error |-> "IMPORT", entered |-> FALSE],
                             {}, NoDistance, 1)
Unknown       == ExecutionOf([verdict |-> "INCONCLUSIVE", error |-> "OTHER", entered |-> FALSE],
                             {}, NoDistance, 0)

HardTargetExecutions == {Pass({1}), Pass({}), Fail({1}, 1), Fail({1}, 2), ImportError, Unknown}
SoftTargetExecutions == {Pass({1}), Fail({1}, 1), Unknown}
OtherExecutions      == {Pass({1}), Fail({1}, 1)}

Results ==
  {(t1 :> h) @@ (t2 :> s) @@ (p1 :> p) @@ (c1 :> c) :
     h \in HardTargetExecutions, s \in SoftTargetExecutions,
     p \in OtherExecutions, c \in OtherExecutions}

MCParentSides ==
  [patch : {1}, mech : {{}, {name}, {name, api}}, results : Results]
MCTrialSides ==
  [patch : {2}, mech : {{}, {name}, {api}, {syntax}}, results : Results]
MCLockSets == {{}, {t1}, {t2}, {t1, t2}, {t2, p1}, {c1}}
=============================================================================
