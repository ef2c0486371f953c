--------------------------- MODULE TrialJudgement ---------------------------
(***************************************************************************)
(* One judgement: a trial is compared with the checkpoint it was grown     *)
(* from, and decide_transition gives its verdict.  ParentSides and         *)
(* TrialSides are the evaluations the two may show, LockSets the lock sets *)
(* a parent may have.                                                      *)
(***************************************************************************)
EXTENDS TransitionTable

CONSTANTS ParentSides, TrialSides, LockSets, AnyPatch

\* What execute_check can leave in a result: a verdict has a rung of its own.
Execution ==
  [status : {"PASS", "FAIL", "UNKNOWN", "NONE"}, stage : -1..4,
   frames : SUBSET Nat, distance : Int, failures : Int]

WellFormed(e) ==
  /\ e \in Execution
  /\ e.status = "PASS" <=> e.stage = TargetPass
  /\ e.status = "FAIL" <=> e.stage \in 0..3

Evaluation == [patch : AnyPatch, mech : SUBSET Blockers, results : [Checks -> Execution]]

ASSUME SidesAreWellFormed ==
  /\ ParentSides \subseteq Evaluation /\ TrialSides \subseteq Evaluation
  /\ \A s \in ParentSides \cup TrialSides, c \in Checks : WellFormed(s.results[c])

ASSUME LocksAreChecks == LockSets \subseteq SUBSET Checks

VARIABLES parentSide, trialSide, lockSet, decided
judgementVars == <<parentSide, trialSide, lockSet, decided>>

JudgementInit ==
  /\ parentSide \in ParentSides
  /\ lockSet \in LockSets
  /\ trialSide = parentSide
  /\ decided = "NONE"

\* The trial may turn out to be the parent itself.
Decide ==
  /\ decided = "NONE"
  /\ trialSide' \in TrialSides \cup {parentSide}
  /\ decided' = DecideTransition(parentSide, trialSide', lockSet)
  /\ UNCHANGED <<parentSide, lockSet>>

JudgementSpec == JudgementInit /\ [][Decide]_judgementVars

\* The shape of the state.
JudgementTypeOK ==
  /\ parentSide \in ParentSides /\ trialSide \in TrialSides \cup {parentSide}
  /\ lockSet \in LockSets
  /\ decided \in Decisions \cup {"NONE"}

-----------------------------------------------------------------------------
Worse(c) == parentSide.results[c].status = "PASS" /\ trialSide.results[c].status = "FAIL"

\* A trial is promoted to the safe candidate only if it is mechanically
\* clean, fails no preservation check, and no target or locked check of the
\* parent that passed fails in it: the last, unguarded ADVANCE_SAFE of
\* decide_transition must never let a blocked or regressed trial through.
AdvanceSafeIsHarmless ==
  decided = "ADVANCE_SAFE" =>
    /\ trialSide.mech = {}
    /\ \A p \in Preservations : trialSide.results[p].status # "FAIL"
    /\ \A c \in Targets \cup lockSet : ~Worse(c)

\* Unknown evidence cannot justify a rollback or a promotion: a new, applicable
\* patch whose targets are all inconclusive, and which changes nothing else,
\* stays in the search as it is.
UnknownEvidenceIsNeutral ==
  /\ decided # "NONE"
  /\ trialSide.patch # parentSide.patch /\ Applicable(trialSide.mech)
  /\ trialSide.mech = parentSide.mech
  /\ \A t \in Targets : trialSide.results[t].status = "UNKNOWN"
  /\ \A c \in Checks \ Targets : trialSide.results[c] = parentSide.results[c]
  => decided = "KEEP_REPAIRING"

\* A rejection always has a reason the evidence supports: the patch cannot be
\* applied or is the parent's, or some target or locked check got stably
\* worse, or there are more mechanical blockers than before.
RejectionIsJustified ==
  decided = "REJECT_TRIAL" =>
    \/ ~Applicable(trialSide.mech) \/ trialSide.patch = parentSide.patch
    \/ \E c \in Targets \cup lockSet :
          /\ Conclusive(trialSide.results[c])
          /\ trialSide.results[c].stage < parentSide.results[c].stage
    \/ BlockerCount(trialSide.mech) > BlockerCount(parentSide.mech)

\* A verified target gain is never undone by a second promotion: when a trial
\* advanced because a target went from FAIL to PASS, the table does not
\* promote the old patch over it, whatever is locked by then.
TargetGainIsOneWay ==
  decided = "ADVANCE_SAFE" /\ Gained(parentSide, trialSide) \cap Targets # {} =>
    \A l \in LockSets : DecideTransition(trialSide, parentSide, l) # "ADVANCE_SAFE"

\* A lost target lock is only ever traded for a strict gain on a check of a
\* higher authority: it is never kept in exchange for partial progress, a
\* mechanical gain or a check of the same authority.
LostLockIsTraded ==
  decided \in {"KEEP_REPAIRING", "ADVANCE_SAFE"} =>
    \A l \in lockSet \cap Targets : Worse(l) =>
      \E g \in Checks \ lockSet :
        /\ Authority[g] > Authority[l]
        /\ parentSide.results[g].status = "FAIL" /\ trialSide.results[g].status = "PASS"

\* A bypass is not a fix: a hard target that passes only because the trial no
\* longer enters the target is not counted as progress, so with nothing else
\* gained the trial is not promoted.
BypassIsNotProgress ==
  /\ decided = "ADVANCE_SAFE"
  /\ trialSide.mech = parentSide.mech
  => \E c \in Checks :
        /\ trialSide.results[c].frames # {}
        /\ trialSide.results[c].stage > parentSide.results[c].stage
           \/ trialSide.results[c].failures < parentSide.results[c].failures
           \/ trialSide.results[c].distance < parentSide.results[c].distance

\* A promotion is sound: it harms nothing, trades no lock away for less, and is
\* not earned by avoiding the target.
PromotionIsSound ==
  /\ JudgementTypeOK /\ AdvanceSafeIsHarmless
  /\ LostLockIsTraded /\ BypassIsNotProgress

\* A rejection is sound: it has a reason in conclusive evidence, and evidence
\* that says nothing decides nothing.
RejectionIsSound == RejectionIsJustified /\ UnknownEvidenceIsNeutral
=============================================================================
