-------------------------- MODULE TransitionTable --------------------------
(***************************************************************************)
(* The execution-only transition table of ReachPatch, from                 *)
(* reach_avoid/execution_transition.py: the ordered failure ladder, the    *)
(* comparison of two executions of one check (atomic progress), the        *)
(* comparison of two mechanical results, the Reach condition, and the      *)
(* decision taken on a trial checkpoint.                                   *)
(*                                                                         *)
(* Everything here is a pure operator.  A check execution is a record of   *)
(* what the table reads of it:                                             *)
(*   status    "PASS" or "FAIL" of a stable pair of runs, or "UNKNOWN" for *)
(*             everything else (unstable, timed out, blocked);             *)
(*   stage     its rung on the failure ladder, NoStage when UNKNOWN;       *)
(*   frames    the target frames it entered, {} when it missed the target; *)
(*   distance  the distance to the contract, NoDistance when undefined;    *)
(*   failures  the number of failed assertions in its output, 0 for none.  *)
(* A mechanical result is the set of its blockers.                         *)
(***************************************************************************)
EXTENDS Integers, FiniteSets

CONSTANTS
  Targets, Preservations, Challenges, \* check ids by role
  Authority,        \* check -> 3, 2, 1 for the trusted authorities A, B, C
  GoalOf,           \* target check -> the goal it was recovered for
  HardGoals,        \* goals that must be met
  Blockers,         \* mechanical blockers
  SyntaxBlockers,   \* those that stop the tree from parsing or the patch from applying
  ForbiddenEdits,   \* those that edit a forbidden path
  UndefinedNames    \* those that are definite undefined-name findings

Checks == Targets \cup Preservations \cup Challenges

ASSUME RolesAreDisjoint ==
  /\ Targets \cap Preservations = {}
  /\ Targets \cap Challenges = {}
  /\ Preservations \cap Challenges = {}

\* Only checks of a trusted authority ever enter the controller's check lists.
ASSUME ChecksAreTrusted == Authority \in [Checks -> 1..3]

ASSUME BlockersAreFinite ==
  /\ IsFiniteSet(Blockers)
  /\ SyntaxBlockers \subseteq Blockers
  /\ ForbiddenEdits \subseteq Blockers
  /\ UndefinedNames \subseteq Blockers

-----------------------------------------------------------------------------
(* The ordered failure ladder (models/execution.py, FailureStage).          *)

PatchOrSyntax  == 0
ImportOrName   == 1
PreTarget      == 2
TargetContract == 3
TargetPass     == 4
NoStage        == -1
NoDistance     == -1

Decisions == {"REJECT_TRIAL", "KEEP_REPAIRING", "ADVANCE_SAFE", "REACHED"}

\* What two runs of a check showed: whether they agreed on a verdict, what
\* kind of error text they printed and whether they entered project code.
Observations ==
  [verdict : {"MATCH", "MISMATCH", "INCONCLUSIVE"},
   error   : {"SYNTAX", "IMPORT", "OTHER"},
   entered : BOOLEAN]

\* classify_failure_stage for a check run on its own, without a mechanical
\* result: inconclusive runs have no stage, and an oracle match wins over the
\* error text, because an expected exception is a pass.
ClassifyFailureStage(o) ==
  CASE o.verdict = "INCONCLUSIVE" -> NoStage
    [] o.verdict = "MATCH"        -> TargetPass
    [] o.verdict = "MISMATCH" /\ o.error = "SYNTAX" -> PatchOrSyntax
    [] o.verdict = "MISMATCH" /\ o.error = "IMPORT" -> ImportOrName
    [] o.verdict = "MISMATCH" /\ o.error = "OTHER" /\ ~o.entered -> PreTarget
    [] OTHER -> TargetContract

\* execute_check: the record kept of a pair of runs.
ExecutionOf(o, frames, distance, failures) ==
  [status   |-> CASE o.verdict = "MATCH" -> "PASS"
                  [] o.verdict = "MISMATCH" -> "FAIL"
                  [] OTHER -> "UNKNOWN",
   stage    |-> ClassifyFailureStage(o),
   frames   |-> frames,
   distance |-> IF o.verdict = "INCONCLUSIVE" THEN NoDistance ELSE distance,
   failures |-> IF o.verdict = "MISMATCH" THEN failures ELSE 0]

NotRun == [status |-> "NONE", stage |-> NoStage, frames |-> {},
           distance |-> NoDistance, failures |-> 0]

Conclusive(e) == e.status \in {"PASS", "FAIL"}
Ran(results)  == {c \in Checks : results[c] # NotRun}
Passing(results, checks) == {c \in checks : results[c].status = "PASS"}
Failing(results, checks) == {c \in checks : results[c].status = "FAIL"}

-----------------------------------------------------------------------------
(* Atomic progress of one check from parent execution p to trial execution t. *)

\* A bug to compare with: any two runs are comparable.
ComparableIfRun(p, t) == p # NotRun /\ t # NotRun

Comparable(p, t) == Conclusive(p) /\ Conclusive(t)

\* A bug to compare with: the trial need not enter the target.
SharesPath(p, t) == p.frames # {} => p.frames \cap t.frames # {}

\* _same_or_deeper_target_path: a trial that no longer enters the target, or
\* enters it through frames the parent never executed, shows nothing.
SameOrDeeperPath(p, t) ==
  /\ t.frames # {}
  /\ p.frames # {} => p.frames \cap t.frames # {}

StrictProgress(p, t) ==
  p.status = "FAIL" /\ t.status = "PASS" /\ SameOrDeeperPath(p, t)

StageAdvanced(p, t) ==
  /\ Comparable(p, t)
  /\ t.stage > p.stage
  /\ SameOrDeeperPath(p, t)
  /\ t.stage \notin {PatchOrSyntax, ImportOrName}

\* The number of failed assertions stands in for the contract distance only
\* when neither run has one.
DistanceImproved(p, t) ==
  /\ Comparable(p, t)
  /\ SameOrDeeperPath(p, t)
  /\ \/ /\ p.distance # NoDistance
        /\ t.distance # NoDistance
        /\ t.distance < p.distance
     \/ /\ p.distance = NoDistance
        /\ t.distance = NoDistance
        /\ t.failures > 0
        /\ t.failures < p.failures

BlockerRemoved(p, t) ==
  /\ Comparable(p, t)
  /\ SameOrDeeperPath(p, t)
  /\ p.stage \in {PatchOrSyntax, ImportOrName}
  /\ t.stage > p.stage

PartialProgress(p, t) ==
  StageAdvanced(p, t) \/ DistanceImproved(p, t) \/ BlockerRemoved(p, t)

Regression(p, t) ==
  /\ Comparable(p, t)
  /\ \/ p.status = "PASS" /\ t.status = "FAIL"
     \/ t.stage < p.stage

-----------------------------------------------------------------------------
(* Mechanical results.                                                       *)

\* controller._applicable and the forbidden_path_changed field.
Applicable(mech) == mech \cap (SyntaxBlockers \cup ForbiddenEdits) = {}

\* compute_mechanical_atomic_progress: a blocker of the parent is gone.
MechanicalProgress(before, after) == before \ after # {}

\* decide_transition counts an undefined name twice: once as a finding and
\* once as a failure reason.
BlockerCount(mech) == Cardinality(mech) + Cardinality(mech \cap UndefinedNames)

-----------------------------------------------------------------------------
(* all_reach_conditions_pass.                                                *)

AllReachConditions(mech, results) ==
  LET ran == Ran(results)
      hard == {t \in Targets \cap ran : GoalOf[t] \in HardGoals}
      passed == Passing(results, Targets)
  IN  /\ mech = {}
      /\ \E t \in passed : results[t].frames # {}
      /\ \A c \in ran \cap (Preservations \cup Challenges) :
            results[c].status = "PASS"
      /\ \A t \in hard : results[t].status = "PASS"
      /\ HardGoals \subseteq {GoalOf[t] : t \in passed}

-----------------------------------------------------------------------------
(* decide_transition.  A side is [patch, mech, results]; locked is the set   *)
(* of checks the parent checkpoint has locked.                               *)

Paired(parent, trial) == Ran(parent.results) \cap Ran(trial.results)

Regressed(parent, trial) ==
  {c \in Paired(parent, trial) : Regression(parent.results[c], trial.results[c])}

Gained(parent, trial) ==
  {c \in Paired(parent, trial) : StrictProgress(parent.results[c], trial.results[c])}

HasProgress(parent, trial) ==
  \/ Gained(parent, trial) # {}
  \/ \E c \in Paired(parent, trial) :
        PartialProgress(parent.results[c], trial.results[c])
  \/ MechanicalProgress(parent.mech, trial.mech)

LostLocks(parent, trial, locked) == Regressed(parent, trial) \cap locked
LostTargetLocks(parent, trial, locked) ==
  LostLocks(parent, trial, locked) \cap Targets

\* A lost target lock is tolerated only against a strict gain of an authority
\* above every lock that was lost.
HigherAuthorityGain(parent, trial, locked) ==
  \E g \in Gained(parent, trial) \ locked :
     \A l \in LostTargetLocks(parent, trial, locked) : Authority[g] > Authority[l]

\* A bug to compare with: the targets of soft goals may get worse.
HardTargetRegression(parent, trial) ==
  \E t \in Regressed(parent, trial) \cap Targets : GoalOf[t] \in HardGoals

PreservationRegression(trial) == Failing(trial.results, Preservations) # {}
TargetRegression(parent, trial) == Regressed(parent, trial) \cap Targets # {}

DecideTransition(parent, trial, locked) ==
  LET preserved == ~PreservationRegression(trial)
      lost      == LostLocks(parent, trial, locked) # {}
      worse     == TargetRegression(parent, trial)
      before    == BlockerCount(parent.mech)
      after     == BlockerCount(trial.mech)
  IN  IF ~Applicable(trial.mech) \/ trial.patch = parent.patch
        THEN "REJECT_TRIAL"
      ELSE IF AllReachConditions(trial.mech, trial.results)
        THEN "REACHED"
      ELSE IF /\ LostTargetLocks(parent, trial, locked) # {}
              /\ ~HigherAuthorityGain(parent, trial, locked)
        THEN "REJECT_TRIAL"
      ELSE IF HasProgress(parent, trial)
        THEN IF preserved /\ trial.mech = {} /\ ~lost /\ ~worse
               THEN "ADVANCE_SAFE" ELSE "KEEP_REPAIRING"
      ELSE IF lost \/ worse \/ after > before
        THEN "REJECT_TRIAL"
      ELSE IF after < before /\ preserved
        THEN "ADVANCE_SAFE"
      ELSE "KEEP_REPAIRING"
=============================================================================
