------------------------ MODULE TransactionalSearch ------------------------
(***************************************************************************)
(* The transactional engine that the dynamic search replaced and that the  *)
(* package still ships: reach_avoid/transition.py evaluates one trial      *)
(* patch against the working patch and decides, gates.py says when the     *)
(* working patch is good enough to seal, frontier.py and scheduler.py say  *)
(* what to repair next, persistence.py and checkpoint.py apply a decision  *)
(* and capture the state.                                                  *)
(*                                                                         *)
(* A cell is one executable obligation: a challenge cell of its own        *)
(* requirement.  What a patch does is what it does on the cells: a         *)
(* function from cells to outcomes.  The driver of the engine is not in    *)
(* the repository any more.  Here it asks the scheduler, evaluates one     *)
(* trial, applies the decision, and, because apply_transition_decision     *)
(* now always raises while it builds its certificate, restores the newest  *)
(* checkpoint that loads.                                                  *)
(***************************************************************************)
EXTENDS Integers, FiniteSets

CONSTANTS
  Cell,         \* the challenge cells
  Target,       \* the cells whose obligation has role TARGET
  Hard,         \* the cells of hard requirements
  Trusted,      \* the cells whose oracle has authority A, B or C
  Public,       \* the replays of public checks: what can be locked
  Impacted,     \* the cells the impact cone reaches
  Confirmed,    \* the cells whose binding an execution has confirmed
  Rank,         \* the order of the semantic keys of the cells
  Outcomes,     \* the outcomes a patch may have on each cell
  ReplayLimit,  \* locked checks replayed in one batch (4)
  ImpactLimit   \* impact checks replayed in one batch (2)

ASSUME CellAssumption ==
  /\ IsFiniteSet(Cell)
  /\ Target \subseteq Cell /\ Hard \subseteq Cell /\ Trusted \subseteq Cell
  /\ Public \subseteq Cell /\ Impacted \subseteq Cell /\ Confirmed \subseteq Cell
  /\ Rank \in [Cell -> Nat] /\ ReplayLimit \in Nat /\ ImpactLimit \in Nat

Outcome == {"PASS", "BYPASS", "NEAR", "FAR", "RUNTIME", "IMPORT", "UNSTABLE", "BLOCKED"}

ASSUME OutcomesAssumption == Outcomes \in [Cell -> SUBSET Outcome]

HardTargets == Target \cap Hard \cap Trusted
Behaviour == {b \in [Cell -> Outcome] : \A c \in Cell : b[c] \in Outcomes[c]}

VARIABLES
  state,   \* the live ReachAvoidState
  trial,   \* the TrialTransition at hand, or NoTrial
  saved,   \* the newest checkpoint on disk that loads
  phase    \* where the driver stands

vars == <<state, trial, saved, phase>>

NoTrial == [kind |-> "NONE"]

-----------------------------------------------------------------------------
(* One observation of a cell.  NEAR and FAR are failures of the contract   *)
(* at two distances from it; BYPASS passes without entering the project;   *)
(* UNSTABLE differs between the two runs, with a last value NEAR.          *)

Status(o) ==
  CASE o \in {"PASS", "BYPASS"} -> "PASS"
    [] o \in {"NEAR", "FAR", "RUNTIME", "IMPORT"} -> "FAIL"
    [] o = "UNSTABLE" -> "UNKNOWN"
    [] o = "BLOCKED" -> "BLOCKED"

Stage(o) ==
  CASE Status(o) = "PASS" -> 4
    [] o \in {"NEAR", "FAR"} -> 3
    [] o = "RUNTIME" -> 2
    [] o = "IMPORT" -> 1
    [] OTHER -> -1

Stable(o) == o # "UNSTABLE"
Entered(o) == o \in {"PASS", "NEAR", "FAR", "UNSTABLE"}
StablePass(o) == Status(o) = "PASS"

Closer(before, after) ==
  \/ before = "FAR" /\ after \in {"NEAR", "UNSTABLE", "PASS"}
  \/ before \in {"NEAR", "UNSTABLE"} /\ after = "PASS"

\* Mutant of Class: only a failure is a regression.
OnlyFailureRegresses(before, after) ==
  CASE Status(after) = "PASS" -> IF Status(before) = "PASS" THEN "PRESERVED" ELSE "FIXED"
    [] Status(before) = "PASS" /\ Status(after) = "FAIL" -> "REGRESSED"
    [] Status(before) # "PASS" /\ Status(after) = "FAIL" -> "STILL_FAILING"
    [] OTHER -> "UNKNOWN"

\* The class of one paired observation: losing a PASS is a regression
\* whatever replaces it, an unstable or a blocked run included.
Class(before, after) ==
  CASE Status(after) = "PASS" -> IF Status(before) = "PASS" THEN "PRESERVED" ELSE "FIXED"
    [] Status(before) = "PASS" /\ Status(after) # "PASS" -> "REGRESSED"
    [] Status(before) # "PASS" /\ Status(after) = "FAIL" -> "STILL_FAILING"
    [] OTHER -> "UNKNOWN"

-----------------------------------------------------------------------------
(* What is left to repair.                                                 *)

Frontier(kind, cells) == {[kind |-> kind, cell |-> c] : c \in cells}

MechanicalFrontiers(s) ==
  IF s.mech THEN {} ELSE {[kind |-> "MECHANICAL_FAILURE", cell |-> "NONE"]}

StillFailing(s) == {c \in DOMAIN s.seen \cap Target : s.seen[c].class = "STILL_FAILING"}
ConfirmedRegressions(s) ==
  {c \in (DOMAIN s.seen \ Target) \cap Trusted :
     s.seen[c].class = "REGRESSED" /\ Status(s.seen[c].outcome) = "FAIL"}
WithoutTrustedPass(s) ==
  {c \in Target \cap Hard :
     /\ ~ (c \in DOMAIN s.seen \cap Trusted /\ StablePass(s.seen[c].outcome))
     /\ ~ (c \in DOMAIN s.atomic \cap Trusted /\ StablePass(s.atomic[c]))}

Frontiers(s) ==
  UNION {MechanicalFrontiers(s),
         Frontier("BEHAVIOR_FAILURE", {c \in StillFailing(s) : Entered(s.seen[c].outcome)}),
         Frontier("LOCALIZATION_FAILURE", {c \in StillFailing(s) : ~ Entered(s.seen[c].outcome)}),
         Frontier("ISSUE_DIFF_MISMATCH", WithoutTrustedPass(s)),
         Frontier("PRESERVATION_REGRESSION", ConfirmedRegressions(s))}

KindRank(f) ==
  CASE f.kind = "MECHANICAL_FAILURE" -> 0
    [] f.kind = "BEHAVIOR_FAILURE" -> IF f.cell \in Trusted THEN 1 ELSE 6
    [] f.kind = "LOCALIZATION_FAILURE" -> 2
    [] f.kind = "ISSUE_DIFF_MISMATCH" -> 4
    [] f.kind = "PRESERVATION_REGRESSION" -> 5

Precedes(f, g) ==
  \/ KindRank(f) < KindRank(g)
  \/ KindRank(f) = KindRank(g) /\ f.cell \in Hard /\ g.cell \notin Hard
  \/ /\ KindRank(f) = KindRank(g) /\ (f.cell \in Hard <=> g.cell \in Hard)
     /\ f.cell # "NONE" /\ Rank[f.cell] < Rank[g.cell]

Primary(s) == CHOOSE f \in Frontiers(s) : ~ \E g \in Frontiers(s) : Precedes(g, f)

-----------------------------------------------------------------------------
(* The batch of one transition.                                            *)

\* The first n of the cells of S, preservation checks before the others.
FirstOf(S, n) ==
  {c \in S :
     Cardinality({d \in S : \/ d \notin Target /\ c \in Target
                            \/ (d \in Target <=> c \in Target) /\ Rank[d] < Rank[c]}) < n}

\* The primary scenarios: the frontier's own cell and, by identifiers that
\* are hashes of the patch, some other cell.
PrimaryScenarios(f) ==
  {S \in SUBSET Cell : /\ Cardinality(S) = IF Cardinality(Cell) < 2 THEN Cardinality(Cell) ELSE 2
                       /\ f.cell \in Cell => f.cell \in S}

\* Locked targets fill the batch up to two hard targets; the target of a
\* behaviour frontier is a primary scenario already.
HardReplays(s, S) ==
  FirstOf((HardTargets \cap Public \cap s.locked) \ S, 2 - Cardinality(S \cap HardTargets))

LockedReplays(s) == FirstOf(s.locked, ReplayLimit)

\* Preservation checks first; among equals the hunks of the patch decide.
ImpactReplays ==
  {I \in SUBSET Impacted :
     /\ Cardinality(I) = IF Cardinality(Impacted) < ImpactLimit THEN Cardinality(Impacted) ELSE ImpactLimit
     /\ I \cap Target # {} => Impacted \ Target \subseteq I}

Batches(s, f) ==
  {S \cup HardReplays(s, S) \cup LockedReplays(s) \cup I :
     S \in PrimaryScenarios(f), I \in ImpactReplays}

-----------------------------------------------------------------------------
(* The evidence of a measured trial t: the same cells on the source patch  *)
(* and on the trial patch.                                                 *)

Before(t, c) == t.source.patch[c]
After(t, c) == t.patch[c]
ClassIn(t, c) == Class(Before(t, c), After(t, c))

Lost(t) == {c \in t.batch \cap t.source.locked : ClassIn(t, c) = "REGRESSED"}
PreservationLost(t) == {c \in t.batch \ Target : ClassIn(t, c) = "REGRESSED"}
StablyBroken(t) ==
  {c \in t.batch : Status(Before(t, c)) = "PASS" /\ Status(After(t, c)) = "FAIL"}
TrustedFixed(t) ==
  {c \in t.batch \cap Trusted : Status(Before(t, c)) = "FAIL" /\ Status(After(t, c)) = "PASS"}

MechanicallyFixed(t) == ~ t.source.mech /\ t.mech

StrictProgress(t) ==
  \/ TrustedFixed(t) # {}
  \/ MechanicallyFixed(t)
  \/ \E c \in t.batch :
       Status(Before(t, c)) = "FAIL" /\ Status(After(t, c)) = "PASS" /\ Entered(After(t, c))

\* A blocked run is stable and stands below every stage of the ladder; the
\* distance is compared whether or not the runs agreed.
StageAdvanced(before, after) ==
  Stable(before) /\ Stable(after) /\ Entered(after) /\ Stage(after) > Stage(before)

BlockerRemoved(before, after) == Stage(before) \in {0, 1} /\ Stage(after) > Stage(before)

BlockerIntroduced(before, after) == Stage(after) \in {1, 2} /\ Stage(before) \notin {1, 2}

\* What the selected frontier alone gains; t.aligned: the edit touches its
\* source slice.
MaterialProgress(t) ==
  LET f == t.frontier
      fixed == f.cell \in TrustedFixed(t)
  IN  CASE f.kind = "MECHANICAL_FAILURE" -> MechanicallyFixed(t)
        [] f.kind \in {"BEHAVIOR_FAILURE", "PRESERVATION_REGRESSION"} -> fixed
        [] f.kind = "LOCALIZATION_FAILURE" -> t.aligned /\ Entered(After(t, f.cell))
        [] f.kind = "ISSUE_DIFF_MISMATCH" ->
             \/ fixed
             \/ Entered(After(t, f.cell)) /\ ~ Entered(Before(t, f.cell))
             \/ Stable(After(t, f.cell)) /\ (t.aligned \/ ~ Stable(Before(t, f.cell)))

PartialProgress(t) ==
  \/ MaterialProgress(t)
  \/ \E c \in t.batch :
       \/ StageAdvanced(Before(t, c), After(t, c))
       \/ Closer(Before(t, c), After(t, c))
       \/ BlockerRemoved(Before(t, c), After(t, c))

Progress(t) == StrictProgress(t) \/ PartialProgress(t)

Introduced(t) == {c \in t.batch : BlockerIntroduced(Before(t, c), After(t, c))}

Unknown(t) ==
  \/ \E c \in t.batch \cap Target : Status(After(t, c)) \in {"UNKNOWN", "BLOCKED"}
  \/ \E c \in t.batch : ClassIn(t, c) = "UNKNOWN"

-----------------------------------------------------------------------------
(* The Reach gate.                                                         *)

\* What makes a checkpoint carry confirmed_regressions.
FailingEvidence(atomic) ==
  {c \in DOMAIN atomic \cap Trusted :
     (c \in Hard \/ c \notin Target) /\ Status(atomic[c]) = "FAIL"}

TargetPasses(s, c) ==
  IF c \in DOMAIN s.atomic
  THEN StablePass(s.atomic[c])
  ELSE c \in DOMAIN s.seen /\ StablePass(s.seen[c].outcome) /\ c \in Confirmed

LockPasses(s, c) ==
  \/ c \in DOMAIN s.seen /\ StablePass(s.seen[c].outcome)
  \/ c \in DOMAIN s.atomic \cap Trusted /\ StablePass(s.atomic[c])

Reach(s) ==
  /\ s.mech
  /\ FailingEvidence(s.atomic) = {}
  /\ HardTargets # {}
  /\ \A c \in HardTargets : TargetPasses(s, c)
  /\ \A c \in s.locked : LockPasses(s, c)
  /\ \A c \in DOMAIN s.atomic \cap Hard \cap Trusted : StablePass(s.atomic[c])

\* Mutant of Seen: cells that did not run keep their status of the source.
SeenCarriedOver(t) ==
  [c \in t.batch \cup DOMAIN t.source.seen |->
     IF c \in t.batch THEN [outcome |-> After(t, c), class |-> ClassIn(t, c)]
     ELSE t.source.seen[c]]

\* The graphs of a trial once its triplet is applied: every cell is new with
\* the patch, and only the batch has run.
Seen(t) == [c \in t.batch |-> [outcome |-> After(t, c), class |-> ClassIn(t, c)]]

\* The state on which the gate judges a trial: its graphs and its mechanical
\* result, but the atomic evidence of the source.
Virtual(t) == [t.source EXCEPT !.patch = t.patch, !.mech = t.mech, !.seen = Seen(t)]

-----------------------------------------------------------------------------
(* decide_reach_avoid_transition for a measured trial.                     *)

Decision(t) ==
  CASE Reach(Virtual(t)) -> "REACHED"
    [] ~ Reach(Virtual(t)) /\ Lost(t) # {} /\ ~ Progress(t) -> "REJECT_TRIAL"
    [] ~ Reach(Virtual(t)) /\ Progress(t) ->
         IF PreservationLost(t) # {} \/ Introduced(t) # {}
         THEN "KEEP_REPAIRING" ELSE "ADVANCE_SAFE"
    [] OTHER ->
         IF PreservationLost(t) = {} /\ ~ Unknown(t) /\ (Introduced(t) # {} \/ StablyBroken(t) # {})
         THEN "REJECT_TRIAL" ELSE "KEEP_REPAIRING"

-----------------------------------------------------------------------------
NothingSeen == [c \in {} |-> "NONE"]

Init ==
  /\ state \in [patch : Behaviour, mech : BOOLEAN, seen : {NothingSeen},
                atomic : {NothingSeen}, locked : {{}}]
  /\ saved = state
  /\ trial = NoTrial
  /\ phase = "idle"

\* The scheduler: seal a working patch that reaches, or that leaves nothing
\* to repair.
Sealable == Reach(state) \/ Frontiers(state) = {}

Seal ==
  /\ phase = "idle" /\ Sealable
  /\ phase' = "sealed"
  /\ UNCHANGED <<state, trial, saved>>

\* It also seals a primary frontier that two edits without effect and two
\* recoveries did not move.
GiveUp ==
  /\ phase = "idle" /\ ~ Sealable
  /\ phase' = "sealed"
  /\ UNCHANGED <<state, trial, saved>>

Unmeasured(kind, decision) ==
  [kind |-> kind, source |-> state, decision |-> decision]

\* The edit does not apply, or changes nothing.
EvaluateUnusable ==
  /\ phase = "idle" /\ ~ Sealable
  /\ \E kind \in {"INAPPLICABLE", "DUPLICATE"} : trial' = Unmeasured(kind, "REJECT_TRIAL")
  /\ phase' = "evaluated"
  /\ UNCHANGED <<state, saved>>

\* The mechanical checks fail: no check is run, the trial keeps the graphs
\* of its source, and only a syntax error or a failed apply rejects it.
EvaluateBroken ==
  /\ phase = "idle" /\ ~ Sealable
  /\ \E syntax \in BOOLEAN :
       trial' = Unmeasured("BROKEN", IF syntax THEN "REJECT_TRIAL" ELSE "KEEP_REPAIRING")
  /\ phase' = "evaluated"
  /\ UNCHANGED <<state, saved>>

EvaluateMeasured ==
  /\ phase = "idle" /\ ~ Sealable
  /\ LET f == Primary(state)
     IN  \E patch \in Behaviour, batch \in Batches(state, f), aligned \in BOOLEAN :
           LET t == [kind |-> "MEASURED", source |-> state, patch |-> patch, mech |-> TRUE,
                     batch |-> batch, frontier |-> f, aligned |-> aligned]
           IN  trial' = [kind |-> "MEASURED", source |-> state, patch |-> patch,
                         batch |-> batch, seen |-> Seen(t), progress |-> Progress(t),
                         decision |-> Decision(t)]
  /\ phase' = "evaluated"
  /\ UNCHANGED <<state, saved>>

Passing(t) == {c \in t.batch \cap Trusted \cap Public : StablePass(t.patch[c])}

\* The checkpoint of an accepted trial: the trial's patch and graphs beside
\* the locks and the evidence that just entered the state s.
Captured(s, t) == [s EXCEPT !.patch = t.patch, !.seen = t.seen]

\* An accepted trial: what it locked and its evidence enter the live state,
\* the checkpoint is captured, and building the certificate raises before
\* the working checkpoint and the graphs follow.
Accept ==
  /\ phase = "evaluated" /\ trial.kind = "MEASURED" /\ trial.decision # "REJECT_TRIAL"
  /\ state' = [state EXCEPT !.mech = TRUE,
                            !.locked = @ \cup Passing(trial),
                            !.atomic = [c \in trial.batch |-> trial.patch[c]]]
  /\ saved' = Captured(state', trial)
  /\ phase' = "raised"
  /\ UNCHANGED trial

\* Mutant of Loads: a checkpoint is not checked against its graphs.
AlwaysLoads(t) == TRUE

\* A checkpoint whose graphs are of the patch it holds validates.
Loads(t) == t.kind = "MEASURED"

\* An accepted trial that failed its mechanical checks: the checkpoint pairs
\* the trial's patch with the source's graphs, and does not validate.
AcceptBroken ==
  /\ phase = "evaluated" /\ trial.kind # "MEASURED" /\ trial.decision # "REJECT_TRIAL"
  /\ state' = [state EXCEPT !.mech = FALSE, !.atomic = NothingSeen]
  /\ saved' = IF Loads(trial) THEN state' ELSE saved
  /\ phase' = "raised"
  /\ UNCHANGED trial

\* A rejected trial: the source's checkpoint is restored, what was locked is
\* kept, the result is captured, and building the certificate raises.
Restored(t) == [t.source EXCEPT !.locked = state.locked]

Reject ==
  /\ phase = "evaluated" /\ trial.decision = "REJECT_TRIAL"
  /\ state' = Restored(trial)
  /\ saved' = state'
  /\ phase' = "raised"
  /\ UNCHANGED trial

\* The driver restores the newest checkpoint that loads.
Resume ==
  /\ phase = "raised"
  /\ state' = saved
  /\ trial' = NoTrial
  /\ phase' = "idle"
  /\ UNCHANGED saved

Next ==
  \/ Seal \/ GiveUp \/ EvaluateUnusable \/ EvaluateBroken \/ EvaluateMeasured
  \/ Accept \/ AcceptBroken \/ Reject \/ Resume

Spec == Init /\ [][Next]_vars

-----------------------------------------------------------------------------
(* Properties.                                                             *)

SeenOf(S) == [S -> [outcome : Outcome,
                    class : {"PRESERVED", "FIXED", "REGRESSED", "STILL_FAILING", "UNKNOWN"}]]

IsState(s) ==
  /\ s = [patch |-> s.patch, mech |-> s.mech, seen |-> s.seen, atomic |-> s.atomic,
           locked |-> s.locked]
  /\ s.patch \in Behaviour /\ s.mech \in BOOLEAN
  /\ DOMAIN s.seen \subseteq Cell /\ s.seen \in SeenOf(DOMAIN s.seen)
  /\ DOMAIN s.atomic \subseteq Cell /\ s.atomic \in [DOMAIN s.atomic -> Outcome]
  /\ s.locked \subseteq Public \cap Trusted

\* The live state and the checkpoint are states of the engine, and there is
\* a trial exactly between an evaluation and the resumption after it
\* (ReachAvoidState, TrialTransition).
TypeOK ==
  /\ IsState(state) /\ IsState(saved)
  /\ phase \in {"idle", "evaluated", "raised", "sealed"}
  /\ trial = NoTrial <=> phase \in {"idle", "sealed"}
  /\ trial # NoTrial =>
       /\ trial.decision \in {"REACHED", "ADVANCE_SAFE", "KEEP_REPAIRING", "REJECT_TRIAL"}
       /\ trial.source = state \/ phase = "raised"

\* Whatever was half applied when the certificate raised, the state the
\* driver resumes on is of one patch: every status in its graphs and every
\* piece of atomic evidence is what that patch does
\* (materialize.py update_challenge_graph_after_diff, capture_checkpoint).
Coherent ==
  phase \in {"idle", "sealed"} =>
    /\ \A c \in DOMAIN state.seen : state.seen[c].outcome = state.patch[c]
    /\ \A c \in DOMAIN state.atomic : state.atomic[c] = state.patch[c]

\* A working patch that is sealed because it reaches passes every hard
\* trusted target and every check ever locked (evaluate_reach).
SealIsTested ==
  phase = "sealed" /\ Reach(state) =>
    \A c \in HardTargets \cup state.locked : StablePass(state.patch[c])

\* While the locks fit into the replays of one batch, an accepted trial that
\* loses one of them gained something in the same batch: only the Reach gate
\* may overrule the lock (build_transition_validation_batch,
\* decide_reach_avoid_transition).
LossIsCompensated ==
  /\ phase = "evaluated" /\ trial.kind = "MEASURED"
  /\ trial.decision \in {"ADVANCE_SAFE", "KEEP_REPAIRING"}
  /\ Cardinality(trial.source.locked) <= ReplayLimit
  /\ \E c \in trial.source.locked :
       Status(trial.source.patch[c]) = "PASS" /\ Status(trial.patch[c]) # "PASS"
  => trial.progress

\* While the locks fit, a trial that advances the safe checkpoint breaks no
\* locked preservation check, whatever it gained elsewhere.
SafeKeepsPreservation ==
  /\ phase = "evaluated" /\ trial.decision = "ADVANCE_SAFE"
  /\ Cardinality(trial.source.locked) <= ReplayLimit
  => \A c \in trial.source.locked \ Target :
       Status(trial.source.patch[c]) = "PASS" => Status(trial.patch[c]) = "PASS"

\* Once the mechanical checks have passed on a working patch, the driver
\* never resumes on one that fails them, although such a trial is accepted
\* to be repaired (checkpoint.py capture_checkpoint validates what it wrote).
MechanicsNeverRegress ==
  [][phase' = "idle" /\ phase = "raised" /\ trial.source.mech => state'.mech]_vars

\* A rejected trial leaves no trace but its locks: the driver resumes on the
\* patch, the graphs and the evidence the trial started from
\* (apply_transition_decision, its rollback branch).
RejectionRestores ==
  [][phase = "raised" /\ trial.decision = "REJECT_TRIAL" => state' = trial.source]_vars

\* A check that is locked once stays locked through acceptance, rejection
\* and the restoration of a checkpoint (record_locked_passes).
LocksOnlyGrow == [][state.locked \subseteq state'.locked]_vars

\* The driver always resumes on a state that is of one patch.
StateIsOfOnePatch == TypeOK /\ Coherent

\* The gates keep what was gained: a seal, an accepted trial and a safe one.
GatesHold == SealIsTested /\ LossIsCompensated /\ SafeKeepsPreservation

\* A step of the driver, half applied as it always is, takes back neither the
\* mechanical checks nor a lock, and a rejection takes back everything else.
ProgressIsKept == MechanicsNeverRegress /\ RejectionRestores /\ LocksOnlyGrow
=============================================================================
