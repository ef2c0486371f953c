---------------------- MODULE TransactionalSearchProofs ----------------------
(***************************************************************************)
(* The transactional engine, for any cells, roles, outcomes and limits:    *)
(* whatever an interrupted decision leaves half applied, the driver        *)
(* resumes on a state of one patch, a gate never gives away what a lock or *)
(* a preservation check holds, and what was gained stays gained.           *)
(***************************************************************************)
EXTENDS TransactionalSearch, FiniteSetTheorems, TLAPS

\* Every status and every piece of evidence in s is what the patch of s does.
OfOnePatch(s) ==
  /\ \A c \in DOMAIN s.seen : s.seen[c].outcome = s.patch[c]
  /\ \A c \in DOMAIN s.atomic : s.atomic[c] = s.patch[c]

\* Only between a decision and the resumption do the live state and the
\* checkpoint differ.
CheckpointIsLive == phase # "raised" => saved = state

\* What an evaluation has measured, as the decision needs it: the graphs of
\* the batch, for the patch of the trial.
TrialIsMeasured ==
  phase = "evaluated" =>
    /\ trial.source = state /\ trial.kind # "NONE"
    /\ trial.kind = "MEASURED" =>
         /\ trial.patch \in Behaviour /\ trial.batch \subseteq Cell
         /\ trial.seen \in SeenOf(trial.batch)
         /\ \A c \in trial.batch : trial.seen[c].outcome = trial.patch[c]

\* The checkpoint the driver is about to resume on owes this to the state the
\* trial started from.
CheckpointKeepsGains ==
  phase = "raised" =>
    /\ trial.kind # "NONE"
    /\ state.locked \subseteq saved.locked
    /\ trial.source.mech => saved.mech
    /\ trial.decision = "REJECT_TRIAL" => saved = trial.source

IInv ==
  /\ TypeOK /\ OfOnePatch(saved)
  /\ CheckpointIsLive /\ TrialIsMeasured /\ CheckpointKeepsGains
  /\ LossIsCompensated /\ SafeKeepsPreservation

USE CellAssumption, OutcomesAssumption

-----------------------------------------------------------------------------
(* Batches.                                                                *)

\* A part that fits is taken whole.
LEMMA FirstOfAll ==
  ASSUME NEW S \in SUBSET Cell, NEW n \in Nat, Cardinality(S) <= n
  PROVE  FirstOf(S, n) = S
<1> SUFFICES ASSUME NEW c \in S
             PROVE  Cardinality({d \in S : \/ d \notin Target /\ c \in Target
                                           \/ (d \in Target <=> c \in Target) /\ Rank[d] < Rank[c]}) < n
  BY DEF FirstOf
<1> DEFINE before == {d \in S : \/ d \notin Target /\ c \in Target
                                \/ (d \in Target <=> c \in Target) /\ Rank[d] < Rank[c]}
<1>1. IsFiniteSet(S)
  BY FS_Subset
<1>2. before \subseteq S \ {c}
  <2>1. Rank[c] \in Nat
    OBVIOUS
  <2>2. ~(Rank[c] < Rank[c])
    BY <2>1
  <2> QED
    BY <2>2
<1>3. IsFiniteSet(S \ {c}) /\ Cardinality(S \ {c}) = Cardinality(S) - 1
  BY <1>1, FS_RemoveElement
<1>4. Cardinality(before) <= Cardinality(S \ {c})
  BY <1>2, <1>3, FS_Subset
<1>5. IsFiniteSet(before)
  BY <1>2, <1>3, FS_Subset
<1>6. Cardinality(before) \in Nat /\ Cardinality(S) \in Nat
  BY <1>1, <1>5, FS_CardinalityType
<1> HIDE DEF before
<1>7. Cardinality(before) < n
  BY <1>3, <1>4, <1>6
<1> QED
  BY <1>7 DEF before

\* A batch is of cells, and holds every lock as long as the locks fit.
LEMMA BatchHoldsLocks ==
  ASSUME NEW s, s.locked \subseteq Cell, NEW f, NEW batch \in Batches(s, f)
  PROVE  /\ batch \subseteq Cell
         /\ Cardinality(s.locked) <= ReplayLimit => s.locked \subseteq batch
<1>1. PICK S \in PrimaryScenarios(f), I \in ImpactReplays :
        batch = S \cup HardReplays(s, S) \cup LockedReplays(s) \cup I
  BY DEF Batches
<1>2. S \subseteq Cell /\ I \subseteq Cell
  BY DEF PrimaryScenarios, ImpactReplays
<1>3. HardReplays(s, S) \subseteq Cell /\ LockedReplays(s) \subseteq Cell
  BY DEF HardReplays, LockedReplays, FirstOf
<1>4. Cardinality(s.locked) <= ReplayLimit => LockedReplays(s) = s.locked
  BY FirstOfAll DEF LockedReplays
<1> QED
  BY <1>1, <1>2, <1>3, <1>4

-----------------------------------------------------------------------------
(* Decisions.                                                              *)

\* Losing a PASS is a regression whatever replaces it.
LEMMA LossRegresses ==
  ASSUME NEW before, NEW after, Status(before) = "PASS", Status(after) # "PASS"
  PROVE  Class(before, after) = "REGRESSED"
BY DEF Class

\* A trial that is kept without reaching has lost no lock of its batch, or has
\* gained something.
LEMMA KeptTrialProgresses ==
  ASSUME NEW t, Decision(t) \in {"ADVANCE_SAFE", "KEEP_REPAIRING"}, Lost(t) # {}
  PROVE  Progress(t)
<1>1. Reach(Virtual(t)) => Decision(t) = "REACHED"
  BY DEF Decision
<1>2. ~ Reach(Virtual(t)) /\ Lost(t) # {} /\ ~ Progress(t) => Decision(t) = "REJECT_TRIAL"
  BY DEF Decision
<1> QED
  BY <1>1, <1>2

\* A trial that is safe breaks no preservation check of its batch.
LEMMA SafeTrialPreserves ==
  ASSUME NEW t, Decision(t) = "ADVANCE_SAFE"
  PROVE  PreservationLost(t) = {}
BY DEF Decision

LEMMA DecisionType ==
  ASSUME NEW t
  PROVE  Decision(t) \in {"REACHED", "ADVANCE_SAFE", "KEEP_REPAIRING", "REJECT_TRIAL"}
BY DEF Decision

\* The graphs of a trial hold a status for every cell of its batch, which is
\* what its patch does.
LEMMA SeenIsOfTrial ==
  ASSUME NEW t, t.patch \in Behaviour, t.batch \subseteq Cell
  PROVE  /\ Seen(t) \in SeenOf(t.batch)
         /\ \A c \in t.batch : Seen(t)[c].outcome = t.patch[c]
<1>1. \A c \in t.batch : After(t, c) \in Outcome
  BY DEF After, Behaviour
<1>2. \A c \in t.batch :
        ClassIn(t, c) \in {"PRESERVED", "FIXED", "REGRESSED", "STILL_FAILING", "UNKNOWN"}
  BY DEF ClassIn, Class
<1> QED
  BY <1>1, <1>2 DEF Seen, SeenOf, After

-----------------------------------------------------------------------------
(* Steps.                                                                  *)

\* A state from its fields.
StateOf(patch, mech, seen, atomic, locked) ==
  [patch |-> patch, mech |-> mech, seen |-> seen, atomic |-> atomic, locked |-> locked]

LEMMA StateOfFields ==
  ASSUME NEW p \in Behaviour, NEW m \in BOOLEAN, NEW L \in SUBSET (Public \cap Trusted),
         NEW g, DOMAIN g \subseteq Cell, g \in SeenOf(DOMAIN g),
         NEW a, DOMAIN a \subseteq Cell, a \in [DOMAIN a -> Outcome]
  PROVE  IsState(StateOf(p, m, g, a, L))
<1> DEFINE s == StateOf(p, m, g, a, L)
<1>1. s.patch = p /\ s.mech = m /\ s.seen = g /\ s.atomic = a /\ s.locked = L
  BY DEF StateOf
<1>2. s = [patch |-> s.patch, mech |-> s.mech, seen |-> s.seen, atomic |-> s.atomic,
           locked |-> s.locked]
  BY <1>1 DEF StateOf
<1> HIDE DEF s
<1>3. IsState(s)
  BY <1>1, <1>2 DEF IsState
<1> QED
  BY <1>3 DEF s

\* A state is made of its fields, and so is what an EXCEPT makes of it.
LEMMA FieldsOfState ==
  ASSUME NEW s, IsState(s)
  PROVE  /\ s = StateOf(s.patch, s.mech, s.seen, s.atomic, s.locked)
         /\ s.patch \in Behaviour /\ s.mech \in BOOLEAN
         /\ s.locked \in SUBSET (Public \cap Trusted)
         /\ DOMAIN s.seen \subseteq Cell /\ s.seen \in SeenOf(DOMAIN s.seen)
         /\ DOMAIN s.atomic \subseteq Cell /\ s.atomic \in [DOMAIN s.atomic -> Outcome]
BY DEF IsState, StateOf

LEMMA FieldsMakeState ==
  ASSUME NEW x, DOMAIN x = {"patch", "mech", "seen", "atomic", "locked"},
         x = [k \in DOMAIN x |-> x[k]]
  PROVE  x = StateOf(x.patch, x.mech, x.seen, x.atomic, x.locked)
BY DEF StateOf

\* The states an accepted trial leads to, sound or broken.
LEMMA StateWithEvidence ==
  ASSUME NEW s, IsState(s), NEW m \in BOOLEAN, NEW L \in SUBSET (Public \cap Trusted),
         NEW a, DOMAIN a \subseteq Cell, a \in [DOMAIN a -> Outcome]
  PROVE  IsState([s EXCEPT !.mech = m, !.locked = L, !.atomic = a])
<1> DEFINE x == [s EXCEPT !.mech = m, !.locked = L, !.atomic = a]
<1>1. PICK q, n, h, e, M : s = StateOf(q, n, h, e, M)
  BY FieldsOfState
<1>2. /\ DOMAIN x = {"patch", "mech", "seen", "atomic", "locked"}
      /\ x = [k \in DOMAIN x |-> x[k]]
      /\ x.patch = s.patch /\ x.mech = m /\ x.seen = s.seen /\ x.atomic = a /\ x.locked = L
  BY ONLY <1>1 DEF StateOf
<1>3. x = StateOf(s.patch, m, s.seen, a, L)
  BY ONLY <1>2, FieldsMakeState
<1> QED
  BY <1>3, FieldsOfState, StateOfFields

LEMMA StateBroken ==
  ASSUME NEW s, IsState(s), NEW m \in BOOLEAN,
         NEW a, DOMAIN a \subseteq Cell, a \in [DOMAIN a -> Outcome]
  PROVE  IsState([s EXCEPT !.mech = m, !.atomic = a])
<1> DEFINE x == [s EXCEPT !.mech = m, !.atomic = a]
<1>1. PICK q, n, h, e, M : s = StateOf(q, n, h, e, M)
  BY FieldsOfState
<1>2. /\ DOMAIN x = {"patch", "mech", "seen", "atomic", "locked"}
      /\ x = [k \in DOMAIN x |-> x[k]]
      /\ x.patch = s.patch /\ x.mech = m /\ x.seen = s.seen /\ x.atomic = a
      /\ x.locked = s.locked
  BY ONLY <1>1 DEF StateOf
<1>3. x = StateOf(s.patch, m, s.seen, a, s.locked)
  BY ONLY <1>2, FieldsMakeState
<1> QED
  BY <1>3, FieldsOfState, StateOfFields

LEMMA StateWithGraphs ==
  ASSUME NEW s, IsState(s), NEW p \in Behaviour,
         NEW g, DOMAIN g \subseteq Cell, g \in SeenOf(DOMAIN g)
  PROVE  IsState([s EXCEPT !.patch = p, !.seen = g])
<1> DEFINE x == [s EXCEPT !.patch = p, !.seen = g]
<1>1. PICK q, n, h, e, M : s = StateOf(q, n, h, e, M)
  BY FieldsOfState
<1>2. /\ DOMAIN x = {"patch", "mech", "seen", "atomic", "locked"}
      /\ x = [k \in DOMAIN x |-> x[k]]
      /\ x.patch = p /\ x.mech = s.mech /\ x.seen = g /\ x.atomic = s.atomic
      /\ x.locked = s.locked
  BY ONLY <1>1 DEF StateOf
<1>3. x = StateOf(p, s.mech, g, s.atomic, s.locked)
  BY ONLY <1>2, FieldsMakeState
<1> QED
  BY <1>3, FieldsOfState, StateOfFields

\* Before the first run there are graphs and evidence without a cell.
LEMMA NothingIsSeen ==
  /\ {} \in SUBSET Cell
  /\ NothingSeen \in [{} -> Outcome] /\ NothingSeen \in SeenOf({})
  /\ DOMAIN NothingSeen = {}
BY DEF NothingSeen, SeenOf

LEMMA IInvInit == Init => IInv
<1> SUFFICES ASSUME Init PROVE IInv
  OBVIOUS
<1>1. IsState(state)
  BY NothingIsSeen DEF Init, IsState
<1>2. OfOnePatch(saved)
  BY NothingIsSeen DEF Init, OfOnePatch
<1>3. TypeOK
  BY <1>1 DEF Init, TypeOK
<1> QED
  BY <1>2, <1>3 DEF Init, IInv, CheckpointIsLive, TrialIsMeasured, CheckpointKeepsGains,
                    LossIsCompensated, SafeKeepsPreservation

\* An evaluation sets the trial only.
LEMMA MeasuredStep ==
  ASSUME IInv, EvaluateMeasured
  PROVE  IInv'
<1> DEFINE f == Primary(state)
<1>1. PICK patch \in Behaviour, batch \in Batches(state, f), aligned \in BOOLEAN :
        LET t == [kind |-> "MEASURED", source |-> state, patch |-> patch, mech |-> TRUE,
                  batch |-> batch, frontier |-> f, aligned |-> aligned]
        IN  trial' = [kind |-> "MEASURED", source |-> state, patch |-> patch,
                      batch |-> batch, seen |-> Seen(t), progress |-> Progress(t),
                      decision |-> Decision(t)]
  BY DEF EvaluateMeasured
<1> DEFINE t == [kind |-> "MEASURED", source |-> state, patch |-> patch, mech |-> TRUE,
                 batch |-> batch, frontier |-> f, aligned |-> aligned]
<1>2. /\ t.source = state /\ t.patch = patch /\ t.batch = batch
  OBVIOUS
<1>3. state.locked \subseteq Cell
  BY DEF IInv, TypeOK, IsState
<1>4. /\ batch \subseteq Cell
      /\ Cardinality(state.locked) <= ReplayLimit => state.locked \subseteq batch
  <2> HIDE DEF f
  <2> QED
    BY <1>3, BatchHoldsLocks
<1>5. /\ Seen(t) \in SeenOf(batch)
      /\ \A c \in batch : Seen(t)[c].outcome = patch[c]
  BY <1>2, <1>4, SeenIsOfTrial
<1>6. Decision(t) \in {"REACHED", "ADVANCE_SAFE", "KEEP_REPAIRING", "REJECT_TRIAL"}
  BY DecisionType
<1>7. trial' = [kind |-> "MEASURED", source |-> state, patch |-> patch,
                batch |-> batch, seen |-> Seen(t), progress |-> Progress(t),
                decision |-> Decision(t)]
  BY <1>1
<1>8. ASSUME Cardinality(state.locked) <= ReplayLimit,
             NEW c \in state.locked,
             Status(state.patch[c]) = "PASS", Status(patch[c]) # "PASS"
      PROVE  c \in batch /\ ClassIn(t, c) = "REGRESSED"
  BY <1>2, <1>4, <1>8, LossRegresses DEF ClassIn, Before, After
<1>9. ASSUME Decision(t) \in {"ADVANCE_SAFE", "KEEP_REPAIRING"},
             Cardinality(state.locked) <= ReplayLimit,
             NEW c \in state.locked,
             Status(state.patch[c]) = "PASS", Status(patch[c]) # "PASS"
      PROVE  Progress(t)
  <2>1. c \in Lost(t)
    BY <1>2, <1>8, <1>9 DEF Lost
  <2> QED
    BY <1>9, <2>1, KeptTrialProgresses
<1>10. ASSUME Decision(t) = "ADVANCE_SAFE",
              Cardinality(state.locked) <= ReplayLimit,
              NEW c \in state.locked \ Target, Status(state.patch[c]) = "PASS"
       PROVE  Status(patch[c]) = "PASS"
  <2>1. SUFFICES ASSUME Status(patch[c]) # "PASS" PROVE FALSE
    OBVIOUS
  <2>2. c \in PreservationLost(t)
    BY <1>2, <1>8, <1>10, <2>1 DEF PreservationLost
  <2> QED
    BY <1>10, <2>2, SafeTrialPreserves
<1> HIDE DEF t, f
<1>11. phase = "idle" /\ phase' = "evaluated" /\ state' = state /\ saved' = saved
  BY DEF EvaluateMeasured
<1>12. /\ trial'.kind = "MEASURED" /\ trial'.source = state /\ trial'.patch = patch
       /\ trial'.batch = batch /\ trial'.seen = Seen(t) /\ trial'.progress = Progress(t)
       /\ trial'.decision = Decision(t)
  BY <1>7
<1>13. trial' # NoTrial
  BY <1>12 DEF NoTrial
<1>14. TypeOK'
  BY <1>6, <1>11, <1>12, <1>13 DEF IInv, TypeOK, IsState
<1>15. TrialIsMeasured'
  BY <1>4, <1>5, <1>11, <1>12 DEF TrialIsMeasured
<1>16. LossIsCompensated'
  BY <1>9, <1>11, <1>12 DEF LossIsCompensated
<1>17. SafeKeepsPreservation'
  BY <1>10, <1>11, <1>12 DEF SafeKeepsPreservation
<1> QED
  BY <1>11, <1>14, <1>15, <1>16, <1>17
     DEF IInv, OfOnePatch, CheckpointIsLive, CheckpointKeepsGains

\* So does one that measures nothing.
LEMMA UnmeasuredStep ==
  ASSUME IInv, phase = "idle", phase' = "evaluated", UNCHANGED <<state, saved>>,
         NEW kind \in {"INAPPLICABLE", "DUPLICATE", "BROKEN"},
         NEW decision \in {"REJECT_TRIAL", "KEEP_REPAIRING"},
         trial' = Unmeasured(kind, decision)
  PROVE  IInv'
<1>1. trial'.kind = kind /\ trial'.source = state /\ trial'.decision = decision
  BY DEF Unmeasured
<1>2. trial' # NoTrial
  BY <1>1 DEF NoTrial
<1>3. TypeOK'
  BY <1>1, <1>2 DEF IInv, TypeOK, IsState
<1> QED
  BY <1>1, <1>3 DEF IInv, OfOnePatch, CheckpointIsLive, TrialIsMeasured,
                    CheckpointKeepsGains, LossIsCompensated, SafeKeepsPreservation

\* An accepted trial is captured whole, although the live state is left with
\* its evidence and the patch of its source.
LEMMA AcceptStep ==
  ASSUME IInv, Accept
  PROVE  IInv'
<1>1. /\ phase = "evaluated" /\ phase' = "raised" /\ trial' = trial
      /\ trial.kind = "MEASURED" /\ trial.decision # "REJECT_TRIAL"
      /\ state' = [state EXCEPT !.mech = TRUE,
                                !.locked = state.locked \cup Passing(trial),
                                !.atomic = [c \in trial.batch |-> trial.patch[c]]]
      /\ saved' = [state' EXCEPT !.patch = trial.patch, !.seen = trial.seen]
  BY DEF Accept, Captured
<1>2. /\ trial.source = state /\ trial.patch \in Behaviour /\ trial.batch \subseteq Cell
      /\ trial.seen \in SeenOf(trial.batch)
      /\ \A c \in trial.batch : trial.seen[c].outcome = trial.patch[c]
  BY <1>1 DEF IInv, TrialIsMeasured
<1>3. /\ [c \in trial.batch |-> trial.patch[c]] \in [trial.batch -> Outcome]
      /\ DOMAIN trial.seen = trial.batch
  BY <1>2 DEF Behaviour, SeenOf
<1>4. /\ IsState(state)
      /\ state.locked \cup Passing(trial) \subseteq Public \cap Trusted
  BY DEF IInv, TypeOK, IsState, Passing
<1>5. IsState(state')
  BY <1>1, <1>2, <1>3, <1>4, StateWithEvidence
<1>6. IsState(saved')
  BY <1>1, <1>2, <1>3, <1>5, StateWithGraphs
<1>7. state = [patch |-> state.patch, mech |-> state.mech, seen |-> state.seen,
               atomic |-> state.atomic, locked |-> state.locked]
  BY <1>4 DEF IsState
<1>8. /\ saved'.patch = trial.patch /\ saved'.seen = trial.seen /\ saved'.mech = TRUE
      /\ saved'.atomic = [c \in trial.batch |-> trial.patch[c]]
      /\ saved'.locked = state.locked \cup Passing(trial)
      /\ state'.locked = state.locked \cup Passing(trial)
  BY <1>1, <1>7
<1>9. OfOnePatch(saved')
  BY <1>2, <1>8 DEF OfOnePatch, SeenOf
<1>10. TypeOK'
  BY <1>1, <1>5, <1>6 DEF IInv, TypeOK
<1>11. CheckpointKeepsGains'
  BY <1>1, <1>8 DEF CheckpointKeepsGains
<1> QED
  BY <1>1, <1>9, <1>10, <1>11
     DEF IInv, OfOnePatch, CheckpointIsLive, TrialIsMeasured, LossIsCompensated,
         SafeKeepsPreservation

\* A trial that failed its mechanical checks does not reach the checkpoint.
LEMMA AcceptBrokenStep ==
  ASSUME IInv, AcceptBroken
  PROVE  IInv'
<1>1. /\ phase = "evaluated" /\ phase' = "raised" /\ trial' = trial
      /\ trial.kind # "MEASURED" /\ trial.decision # "REJECT_TRIAL"
      /\ state' = [state EXCEPT !.mech = FALSE, !.atomic = NothingSeen]
      /\ saved' = saved
  BY DEF AcceptBroken, Loads
<1>2. trial.source = state /\ trial.kind # "NONE" /\ saved = state
  BY <1>1 DEF IInv, TrialIsMeasured, CheckpointIsLive
<1>3. IsState(state) /\ IsState(saved)
  BY DEF IInv, TypeOK
<1>4. IsState(state')
  <2>1. state.locked \in SUBSET (Public \cap Trusted) /\ state.patch \in Behaviour
    BY <1>3 DEF IsState
  <2> QED
    BY <1>1, <1>3, <2>1, NothingIsSeen, StateBroken
<1>5. state'.locked = state.locked
  BY <1>1, <1>3 DEF IsState
<1>6. TypeOK'
  BY <1>1, <1>3, <1>4 DEF IInv, TypeOK
<1>7. CheckpointKeepsGains'
  BY <1>1, <1>2, <1>5 DEF CheckpointKeepsGains
<1> QED
  BY <1>1, <1>6, <1>7
     DEF IInv, OfOnePatch, CheckpointIsLive, TrialIsMeasured, LossIsCompensated,
         SafeKeepsPreservation

\* A rejected trial leaves the checkpoint of its source.
LEMMA RejectStep ==
  ASSUME IInv, Reject
  PROVE  IInv'
<1>1. /\ phase = "evaluated" /\ phase' = "raised" /\ trial' = trial
      /\ state' = [trial.source EXCEPT !.locked = state.locked]
      /\ saved' = state'
  BY DEF Reject, Restored
<1>2. trial.source = state /\ trial.kind # "NONE" /\ saved = state
  BY <1>1 DEF IInv, TrialIsMeasured, CheckpointIsLive
<1>3. IsState(state) /\ OfOnePatch(state)
  BY <1>2 DEF IInv, TypeOK
<1>4. state' = state
  BY <1>1, <1>2, <1>3 DEF IsState
<1>5. TypeOK'
  BY <1>1, <1>3, <1>4 DEF IInv, TypeOK
<1>6. CheckpointKeepsGains'
  BY <1>1, <1>2, <1>4 DEF CheckpointKeepsGains
<1>7. OfOnePatch(saved')
  BY <1>1, <1>3, <1>4
<1> QED
  BY <1>1, <1>5, <1>6, <1>7
     DEF IInv, OfOnePatch, CheckpointIsLive, TrialIsMeasured, LossIsCompensated,
         SafeKeepsPreservation

\* Every step keeps the invariant.
LEMMA IInvStep == IInv /\ [Next]_vars => IInv'
<1> SUFFICES ASSUME IInv, [Next]_vars PROVE IInv'
  OBVIOUS
<1>1. CASE Seal \/ GiveUp
  BY <1>1 DEF Seal, GiveUp, IInv, TypeOK, IsState, OfOnePatch, CheckpointIsLive,
              TrialIsMeasured, CheckpointKeepsGains, LossIsCompensated, SafeKeepsPreservation
<1>2. CASE EvaluateUnusable
  BY <1>2, UnmeasuredStep DEF EvaluateUnusable
<1>3. CASE EvaluateBroken
  BY <1>3, UnmeasuredStep DEF EvaluateBroken
<1>4. CASE Resume
  BY <1>4 DEF Resume, NoTrial, IInv, TypeOK, IsState, OfOnePatch, CheckpointIsLive,
              TrialIsMeasured, CheckpointKeepsGains, LossIsCompensated, SafeKeepsPreservation
<1>5. CASE UNCHANGED vars
  BY <1>5 DEF vars, IInv, TypeOK, IsState, OfOnePatch, CheckpointIsLive,
              TrialIsMeasured, CheckpointKeepsGains, LossIsCompensated, SafeKeepsPreservation
<1> QED
  BY <1>1, <1>2, <1>3, <1>4, <1>5, MeasuredStep, AcceptStep, AcceptBrokenStep, RejectStep
     DEF Next

LEMMA Inductive == Spec => []IInv
BY IInvInit, IInvStep, PTL DEF Spec

-----------------------------------------------------------------------------
(* What follows.                                                           *)

\* The state the driver resumes on is of one patch: its statuses and its
\* evidence are what that patch does, whichever decision was half applied.
THEOREM ResumesOnOnePatch == Spec => []StateIsOfOnePatch
<1>1. IInv => StateIsOfOnePatch
  BY DEF IInv, CheckpointIsLive, OfOnePatch, StateIsOfOnePatch, Coherent
<1> QED
  BY <1>1, Inductive, PTL

\* A sealed patch that reaches passes every hard trusted target and every lock
\* itself; while the locks fit into a batch, a trial that loses one without
\* reaching has gained something, and a safe one breaks no locked preservation
\* check.
THEOREM GatesAreHeld == Spec => []GatesHold
<1>1. IInv => SealIsTested
  <2> SUFFICES ASSUME IInv, phase = "sealed", Reach(state),
                      NEW c \in HardTargets \cup state.locked
               PROVE  StablePass(state.patch[c])
    BY DEF SealIsTested
  <2>1. OfOnePatch(state)
    BY DEF IInv, CheckpointIsLive
  <2>2. CASE c \in HardTargets
    <3>1. TargetPasses(state, c)
      BY <2>2 DEF Reach
    <3> QED
      BY <2>1, <3>1 DEF TargetPasses, OfOnePatch
  <2>3. CASE c \in state.locked
    <3>1. LockPasses(state, c)
      BY <2>3 DEF Reach
    <3> QED
      BY <2>1, <3>1 DEF LockPasses, OfOnePatch
  <2> QED
    BY <2>2, <2>3
<1>2. IInv => GatesHold
  BY <1>1 DEF IInv, GatesHold
<1> QED
  BY <1>2, Inductive, PTL

\* No step of the driver takes back the mechanical checks or a lock, and a
\* rejection leads back to the state the trial started from.
THEOREM GainsAreKept == Spec => ProgressIsKept
<1>1. IInv /\ [Next]_vars =>
        [phase' = "idle" /\ phase = "raised" /\ trial.source.mech => state'.mech]_vars
  BY DEF IInv, CheckpointKeepsGains, Next, vars, Seal, GiveUp, EvaluateUnusable,
         EvaluateBroken, EvaluateMeasured, Accept, AcceptBroken, Reject, Resume
<1>2. IInv /\ [Next]_vars =>
        [phase = "raised" /\ trial.decision = "REJECT_TRIAL" => state' = trial.source]_vars
  BY DEF IInv, CheckpointKeepsGains, Next, vars, Seal, GiveUp, EvaluateUnusable,
         EvaluateBroken, EvaluateMeasured, Accept, AcceptBroken, Reject, Resume
<1>3. IInv /\ [Next]_vars => [state.locked \subseteq state'.locked]_vars
  <2> SUFFICES ASSUME IInv, Next PROVE state.locked \subseteq state'.locked
    BY DEF vars
  <2>1. IsState(state)
    BY DEF IInv, TypeOK
  <2>2. CASE Accept
    BY <2>1, <2>2 DEF Accept, IsState
  <2>3. CASE AcceptBroken
    BY <2>1, <2>3 DEF AcceptBroken, IsState
  <2>4. CASE Reject
    <3>1. trial.source = state
      BY <2>4 DEF Reject, IInv, TrialIsMeasured
    <3> QED
      BY <2>1, <2>4, <3>1 DEF Reject, Restored, IsState
  <2>5. CASE Resume
    BY <2>5 DEF Resume, IInv, CheckpointKeepsGains
  <2> QED
    BY <2>2, <2>3, <2>4, <2>5
       DEF Next, Seal, GiveUp, EvaluateUnusable, EvaluateBroken, EvaluateMeasured
<1> QED
  BY <1>1, <1>2, <1>3, Inductive, PTL
     DEF Spec, ProgressIsKept, MechanicsNeverRegress, RejectionRestores, LocksOnlyGrow
=============================================================================
