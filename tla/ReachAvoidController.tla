------------------------ MODULE ReachAvoidController ------------------------
(***************************************************************************)
(* The production search loop of ReachPatch: ReachAvoidController in       *)
(* reach_avoid/controller.py (_run_execution_driven and run_case) with the *)
(* checkpoint pointers of reach_avoid/execution_checkpoint.py.             *)
(*                                                                         *)
(* One case is a single thread that generates an initial patch P0, then    *)
(* repeatedly picks a checkpoint of the search graph, executes its checks, *)
(* and either certifies it, recovers evidence, or asks the generator for a *)
(* child patch that is evaluated and judged by the transition table.  The  *)
(* environment is everything the loop does not control: what the checks    *)
(* show each time they run, what the generator returns, which checks       *)
(* recovery finds, when the clock or the case budget runs out.             *)
(*                                                                         *)
(* store is the metadata persisted by ExecutionCheckpointStore and, for    *)
(* every id but BootId, also state.checkpoint_history: the controller      *)
(* always updates the two together.  working, safe, best and certified are *)
(* COPIES of records, as in the code (StateCheckpoint is frozen and passed *)
(* by value): a later store update does not reach them by itself.          *)
(***************************************************************************)
EXTENDS TransitionTable, Sequences

CONSTANTS
  Patches,           \* non-empty cumulative diffs the generator may produce
  Blank,             \* the empty diff of the bootstrap checkpoint
  NoCheckpoint,      \* None, for a pointer that is not set
  MechanicalOf,      \* patch -> its blockers; run_mechanical_checks is static
  SizeOf,            \* patch -> length of its canonical diff
  Executions,        \* what one execution of a check may show
  Reductions,        \* contract-distance reductions an evaluation may measure
  InitialAttempts,   \* initial_generator_attempts
  RecoveryAttempts,  \* target_recovery_attempts
  MaxRevisions,      \* min(max_real_patch_revisions, max_evaluated_patch_nodes)
  MaxDepth           \* search_budget.max_depth

ASSUME CountsAreNatural ==
  /\ InitialAttempts \in Nat \ {0}
  /\ RecoveryAttempts \in Nat
  /\ MaxRevisions \in Nat \ {0}
  /\ MaxDepth \in Nat

ASSUME PatchesAreReal ==
  /\ Blank \notin Patches
  /\ MechanicalOf \in [Patches \cup {Blank} -> SUBSET Blockers]
  /\ SizeOf \in [Patches \cup {Blank} -> Nat]

ASSUME ExecutionsHappened == NotRun \notin Executions
ASSUME ChecksAreFinite == IsFiniteSet(Checks)
ASSUME ReductionsAreNatural == Reductions \subseteq Nat

-----------------------------------------------------------------------------
(* Checkpoint identifiers.  The code hashes (patch, revision, status,        *)
(* parent); the revision alone tells the trials of one case apart.           *)

BootId == 0
P0Id == 1
TrialId(rev) == rev + 1
CertificateId == MaxRevisions + 2
Ids == 0..CertificateId

Results == [Checks -> Executions \cup {NotRun}]
Score == [1..10 -> Int]

Checkpoint ==
  [id : Ids, parent : Ids, patch : Patches \cup {Blank},
   status : {"BOOTSTRAP", "P0", "TRIAL", "REJECTED", "CERTIFIED"},
   revision : 0..MaxRevisions, results : Results, locks : SUBSET Checks,
   score : Score, eligible : BOOLEAN, certified : BOOLEAN, regressed : BOOLEAN]

\* None is no record, neither a whole checkpoint nor its place in the lineage.
ASSUME NoCheckpointIsNone ==
  /\ NoCheckpoint \notin Checkpoint
  /\ NoCheckpoint \notin [parent : Ids, patch : Patches \cup {Blank}]

GraphStatus ==
  {"ABSENT", "OPEN", "EXPANDED", "EVALUATING", "TRIAL", "REJECTED",
   "KEEP_REPAIRING", "ADVANCE_SAFE", "REACHED", "CERTIFIED"}

Flag(b) == IF b THEN 1 ELSE 0

\* SearchScore.key, most significant first.
ScoreOf(patch, results, locked, reduction) ==
  LET mech == MechanicalOf[patch]
  IN << Flag(Applicable(mech)), Flag(mech = {}),
        Cardinality(Passing(results, Targets \cap locked)),
        Cardinality(Passing(results, Targets)),
        Cardinality({tk \in Targets \X (0..3) : tk[2] < results[tk[1]].stage}),
        reduction,
        Cardinality(Passing(results, Challenges)),
        -Cardinality(Failing(results, Preservations)),
        Cardinality({c \in Challenges : Conclusive(results[c])}),
        -SizeOf[patch] >>

\* Python's order on tuples of equal length.
Less(a, b) ==
  \E i \in DOMAIN a : a[i] < b[i] /\ \A j \in 1..(i - 1) : a[j] = b[j]

\* confirmed_preservation_regression.
IsRegressed(results) == Failing(results, Preservations) # {}

VARIABLES
  pc,          \* where the controller is
  store,       \* id -> persisted checkpoint record
  graph,       \* id -> status and depth of its node in the search graph
  working, safe, best, certified,
  locks,       \* state.locked_checks
  known,       \* target, preservation and challenge checks in the state
  distinct,    \* distinct_patch_hashes
  rejected,    \* rejected_patch_hashes
  revision,    \* revision_count
  attempts,    \* calls of the initial generator
  rounds,      \* recovery_rounds
  generation,  \* generation_allowed of this iteration
  trial,       \* the patch under evaluation and the parent results it is paired with
  expired,     \* the wall clock of the case has run out
  outcome      \* how the case ended

pointers == <<working, safe, best, certified>>
counters == <<revision, attempts, rounds>>
vars == <<pc, store, graph, pointers, locks, known, distinct, rejected,
          counters, generation, trial, expired, outcome>>

NoResults == [c \in Checks |-> NotRun]
NoTrial == [patch |-> Blank, paired |-> NoResults]

Running == "RUNNING"
Phases == {"initial", "recovery", "select", "probe", "execute", "diagnose",
           "repair", "evaluate", "judge", "finish", "done"}

\* A run of the given checks, each showing anything an execution may show.
RunsOf(ran) ==
  {[c \in Checks |-> IF c \in ran THEN f[c] ELSE NotRun] : f \in [ran -> Executions]}

\* The record written by _checkpoint and by _refresh_evaluated_checkpoint.
Evaluated(c, results, locked, reduction) ==
  [c EXCEPT !.results = results,
            !.score = ScoreOf(c.patch, results, locked, reduction),
            !.regressed = IsRegressed(results)]

NewCheckpoint(id, parent, patch, status, results, locked, reduction) ==
  [id |-> id, parent |-> parent, patch |-> patch, status |-> status,
   revision |-> revision, results |-> results, locks |-> locked,
   score |-> ScoreOf(patch, results, locked, reduction),
   eligible |-> status = "CERTIFIED", certified |-> status = "CERTIFIED",
   regressed |-> IsRegressed(results)]

Boot ==
  [id |-> BootId, parent |-> BootId, patch |-> Blank, status |-> "BOOTSTRAP",
   revision |-> 0, results |-> NoResults, locks |-> {},
   score |-> [i \in 1..10 |-> 0], eligible |-> FALSE, certified |-> FALSE,
   regressed |-> FALSE]

History == {i \in Ids \ {BootId} : store[i] # NoCheckpoint}

\* update_best_checkpoint: the incumbent stays unless it is strictly worse.
BestKey(c) == c.score \o << Flag(c.certified), Flag(c.eligible), c.revision >>
BetterOf(incumbent, c) ==
  IF incumbent = NoCheckpoint THEN c
  ELSE IF Less(BestKey(incumbent), BestKey(c)) THEN c ELSE incumbent

\* A bug to compare with: the locks are rebuilt from the latest run.
RelockedFrom(locked, results, checks) == Passing(results, checks)

\* _updated_locks: a trusted stable pass is locked; nothing is ever unlocked.
WithLocks(locked, results, checks) == locked \cup Passing(results, checks)

\* ExecutionCheckpointStore.replace_metadata: the record is written again in
\* place, with everything but the patch.
ReplaceMetadata(c) == [store EXCEPT ![c.id] = c]

\* record_transition: the node of the trial takes the decision as its status.
RecordTransition(decision) ==
  [graph EXCEPT ![TrialId(revision)].status =
     IF decision = "REJECT_TRIAL" THEN "REJECTED" ELSE decision]

-----------------------------------------------------------------------------
Init ==
  /\ pc = "initial"
  /\ store = [i \in Ids |-> IF i = BootId THEN Boot ELSE NoCheckpoint]
  /\ graph = [i \in Ids |-> [status |-> "ABSENT", depth |-> 0]]
  /\ working = Boot
  /\ safe = NoCheckpoint /\ best = NoCheckpoint /\ certified = NoCheckpoint
  /\ locks = {}
  /\ known \in SUBSET (Targets \cup Preservations)
  /\ distinct = {Blank} /\ rejected = {}
  /\ revision = 0 /\ attempts = 0 /\ rounds = 0
  /\ generation = FALSE
  /\ trial = NoTrial
  /\ expired = FALSE
  /\ outcome = [status |-> Running, final |-> BootId, cause |-> "NONE"]

\* _output: the store refuses a copy that is not the persisted record, and
\* validate_evidence looks the checkpoint up in the search graph.
OutputOf(c, claim) ==
  IF c # store[c.id]
    THEN [status |-> "CRASHED", final |-> c.id, cause |-> "METADATA_MISMATCH"]
  ELSE IF graph[c.id].status = "ABSENT"
    THEN [status |-> "CRASHED", final |-> c.id, cause |-> "NO_GRAPH_NODE"]
  ELSE [status |-> "SEALED", final |-> c.id, cause |-> claim]

-----------------------------------------------------------------------------
(* Initial generation and recovery, before the loop.                         *)

\* A response without a usable diff; the last one allowed ends the case with
\* the bootstrap checkpoint.
InitialGenerationEmpty ==
  /\ pc = "initial"
  /\ attempts' = attempts + 1
  /\ IF attempts' < InitialAttempts
       THEN UNCHANGED <<pc, outcome>>
       ELSE /\ pc' = "done"
            /\ outcome' = OutputOf(working, "GENERATOR_BLOCKED_EXTERNAL")
  /\ UNCHANGED <<store, graph, pointers, locks, known, distinct, rejected,
                 revision, rounds, generation, trial, expired>>

\* P0 becomes working, safe and best unevaluated.  Its patch hash is not added
\* to distinct_patch_hashes.
InitialGeneration(p) ==
  /\ pc = "initial"
  /\ attempts' = attempts + 1
  /\ LET p0 == NewCheckpoint(P0Id, BootId, p, "P0", NoResults, locks, 0)
     IN /\ store' = [store EXCEPT ![P0Id] = p0]
        /\ working' = p0 /\ safe' = p0 /\ best' = p0
  /\ graph' = [graph EXCEPT ![P0Id] = [status |-> "OPEN", depth |-> 0]]
  /\ pc' = "recovery"
  /\ UNCHANGED <<certified, locks, known, distinct, rejected, revision, rounds,
                 generation, trial, expired, outcome>>

\* Stage B of target recovery adds checks; it never drops one.
TargetRecovery ==
  /\ pc = "recovery"
  /\ \E found \in SUBSET (Targets \cup Preservations) : known' = known \cup found
  /\ pc' = "select"
  /\ UNCHANGED <<store, graph, pointers, locks, distinct, rejected, counters,
                 generation, trial, expired, outcome>>

-----------------------------------------------------------------------------
(* One iteration of the loop: select, execute, diagnose.                     *)

\* derive_frontier_actions wants a patch from an executed checkpoint with
\* mechanical blockers or a stable failure.
WantsPatch(c) ==
  /\ Ran(c.results) # {}
  /\ MechanicalOf[c.patch] # {} \/ Failing(c.results, Checks) # {}

\* The other actions validate a checkpoint (one that was never executed, or
\* that may owe a check found since), recover evidence, or review it.  Neither
\* generation_allowed nor the depth bound applies to them.
OwesValidation(c) == ~(known \subseteq Ran(c.results)) \/ Ran(c.results) = {}

\* generation_allowed also turns false when the case is close to its deadline.
GenerationMayBe(allowed) == allowed => revision < MaxRevisions

\* Bugs to compare with: the locks of the former working checkpoint are kept;
\* the clock is not read.
SwitchKeepsLocks(i) ==
  /\ pc = "select" /\ ~expired
  /\ i \in History
  /\ graph[i].status \notin {"REJECTED", "CERTIFIED", "EVALUATING"}
  /\ working' = store[i]
  /\ locks' = locks

SwitchUntimed(i) ==
  /\ pc = "select"
  /\ i \in History
  /\ graph[i].status \notin {"REJECTED", "CERTIFIED", "EVALUATING"}
  /\ working' = store[i]
  /\ locks' = IF i = working.id THEN locks ELSE store[i].locks

\* Every selection switches the working checkpoint to the selected one and
\* takes over its locks.
Switch(i) ==
  /\ pc = "select" /\ ~expired
  /\ i \in History
  /\ graph[i].status \notin {"REJECTED", "CERTIFIED", "EVALUATING"}
  /\ working' = store[i]
  /\ locks' = IF i = working.id THEN locks ELSE store[i].locks

RepairableAt(i, allowed) ==
  WantsPatch(store[i]) /\ allowed /\ graph[i].depth < MaxDepth

SelectToExecute(i) ==
  /\ Switch(i)
  /\ \E allowed \in BOOLEAN :
       /\ GenerationMayBe(allowed)
       /\ \/ ~WantsPatch(store[i])
          \/ OwesValidation(store[i])
          \/ RepairableAt(i, allowed) /\ graph[i].status # "EXPANDED"
       /\ generation' = allowed
  /\ pc' = "execute"
  /\ UNCHANGED <<store, graph, safe, best, certified, known, distinct, rejected,
                 counters, trial, expired, outcome>>

\* EXPAND_GRAPH reopens an EXPANDED node when the expansion found new source.
SelectToExpand(i) ==
  /\ Switch(i)
  /\ graph[i].status = "EXPANDED"
  /\ RepairableAt(i, TRUE) /\ GenerationMayBe(TRUE)
  /\ \E s \in {"OPEN", "EXPANDED"} : graph' = [graph EXCEPT ![i].status = s]
  /\ UNCHANGED <<pc, store, safe, best, certified, known, distinct, rejected,
                 counters, generation, trial, expired, outcome>>

\* RUN_PROBE, on a checkpoint that has observations.
SelectToProbe(i) ==
  /\ Switch(i)
  /\ Ran(store[i].results) # {}
  /\ pc' = "probe"
  /\ UNCHANGED <<store, graph, safe, best, certified, known, distinct, rejected,
                 counters, generation, trial, expired, outcome>>

\* execute_sibling_probes records exploratory observations only.
ProbeDone ==
  /\ pc = "probe"
  /\ pc' = "select"
  /\ UNCHANGED <<store, graph, pointers, locks, known, distinct, rejected,
                 counters, generation, trial, expired, outcome>>

\* derive_validation_obligations: challenges may be scoped to other checkpoints,
\* so any of them may be left out, except the locked ones and those of the queue
\* that the checkpoint is compared with.
MaySkip(ran) == Challenges \ (locks \cup ran)

\* The parent's checks are executed, together with the challenges they bring
\* to light; then its record is refreshed and its new passes are locked.
ExecuteParent ==
  /\ pc = "execute"
  /\ \E new \in SUBSET Challenges : known' = known \cup new
  /\ \E skipped \in SUBSET MaySkip({}), reduction \in Reductions :
     \E results \in RunsOf(known' \ skipped) :
       LET fresh  == Evaluated(working, results, locks, reduction)
           locked == WithLocks(locks, results, Targets \cup Preservations)
           synced == [fresh EXCEPT !.locks = locked]
       IN /\ working' = synced
          /\ store' = ReplaceMetadata(synced)
          /\ best' = BetterOf(best, fresh)
          /\ locks' = locked
  /\ pc' = "diagnose"
  /\ UNCHANGED <<graph, safe, certified, distinct, rejected, counters,
                 generation, trial, expired, outcome>>

\* compile_contract_obligations and evaluate_validation_closure: every hard
\* goal has a target check, and each of them passed inside the target.
Closed(results) ==
  \A g \in HardGoals :
    LET bound == {t \in Targets \cap known : GoalOf[t] = g}
    IN /\ bound # {}
       /\ \A t \in bound : results[t].status = "PASS" /\ results[t].frames # {}

\* A bug to compare with: the closure of the targets is taken for the Reach
\* condition.
CertifyOnTargets ==
  /\ pc = "diagnose"
  /\ Closed(working.results)
  /\ \E reduction \in Reductions :
       LET c == NewCheckpoint(CertificateId, working.id, working.patch, "CERTIFIED",
                              working.results, locks, reduction)
       IN /\ store' = [store EXCEPT ![CertificateId] = c]
          /\ working' = c /\ safe' = c /\ certified' = c
          /\ best' = BetterOf(best, c)
  /\ graph' = [graph EXCEPT ![CertificateId] =
                 [status |-> "CERTIFIED", depth |-> graph[working.id].depth + 1]]
  /\ pc' = "done"
  /\ outcome' = [status |-> "SEALED", final |-> CertificateId, cause |-> "REACHED"]
  /\ UNCHANGED <<locks, known, distinct, rejected, counters, generation, trial,
                 expired>>

\* The working checkpoint is saved again as the certificate and sealed.  The
\* oracle audit may still refuse, so this step is never forced.
Certify ==
  /\ pc = "diagnose"
  /\ AllReachConditions(MechanicalOf[working.patch], working.results)
  /\ Closed(working.results)
  /\ \E reduction \in Reductions :
       LET c == NewCheckpoint(CertificateId, working.id, working.patch, "CERTIFIED",
                              working.results, locks, reduction)
       IN /\ store' = [store EXCEPT ![CertificateId] = c]
          /\ working' = c /\ safe' = c /\ certified' = c
          /\ best' = BetterOf(best, c)
  /\ graph' = [graph EXCEPT ![CertificateId] =
                 [status |-> "CERTIFIED", depth |-> graph[working.id].depth + 1]]
  /\ pc' = "done"
  /\ outcome' = [status |-> "SEALED", final |-> CertificateId, cause |-> "REACHED"]
  /\ UNCHANGED <<locks, known, distinct, rejected, counters, generation, trial,
                 expired>>

\* select_frontier_action_from_graph, then select_active_failure: a failure of
\* a preservation check alone, with nothing passing or locked to preserve,
\* calls for evidence and not for a patch.
ActiveFailure ==
  LET r == working.results
  IN \/ MechanicalOf[working.patch] # {}
     \/ Failing(r, Targets) # {}
     \/ /\ Failing(r, Preservations) # {}
        /\ \/ Passing(r, Targets) # {}
           \/ Failing(r, Preservations \cap locks) # {}
     \/ Failing(r, Challenges) # {} /\ Ran(r) \cap Targets # {}

\* No failure to repair: recover more evidence while rounds are left, else
\* exhaust the action.
RecoverEvidence ==
  /\ pc = "diagnose"
  /\ ~ActiveFailure
  /\ \/ /\ rounds < RecoveryAttempts
        /\ rounds' = rounds + 1
        /\ \E found \in SUBSET (Targets \cup Preservations) : known' = known \cup found
     \/ UNCHANGED <<rounds, known>>
  /\ pc' = "select"
  /\ UNCHANGED <<store, graph, pointers, locks, distinct, rejected, revision,
                 attempts, generation, trial, expired, outcome>>

\* A failure, but no budget for a patch, or no hypothesis left for it: the
\* action is exhausted, and in the second case the node is marked EXPANDED.
ExhaustAction ==
  /\ pc = "diagnose"
  /\ ActiveFailure
  /\ \/ ~generation /\ UNCHANGED <<graph, known>>
     \/ /\ generation
        /\ graph' = [graph EXCEPT ![working.id].status = "EXPANDED"]
        /\ \E new \in SUBSET Challenges : known' = known \cup new
     \/ generation /\ UNCHANGED <<graph, known>>  \* HYPOTHESIS_NO_LONGER_APPLICABLE
  /\ pc' = "select"
  /\ UNCHANGED <<store, pointers, locks, distinct, rejected, counters,
                 generation, trial, expired, outcome>>

\* A hypothesis is chosen.  When the failure materialised new challenges the
\* parent queue is run again.  The record is refreshed a second time, now
\* scored against the new locks and the clean run, but the locks themselves are
\* not synchronised again.
PrepareRepair ==
  /\ pc = "diagnose"
  /\ ActiveFailure /\ generation
  /\ \E new \in SUBSET (Challenges \ known), reduction \in Reductions :
       /\ known' = known \cup new
       /\ \E results \in IF new = {} THEN {working.results} ELSE RunsOf(known') :
            LET fresh == Evaluated(working, results, locks, reduction)
            IN /\ working' = fresh
               /\ store' = ReplaceMetadata(fresh)
               /\ best' = BetterOf(best, fresh)
  /\ pc' = "repair"
  /\ UNCHANGED <<graph, safe, certified, locks, distinct, rejected, counters,
                 generation, trial, expired, outcome>>

-----------------------------------------------------------------------------
(* Generation, evaluation and judgement of a child patch.                    *)

\* The generator failed or returned no new diff.  The node may have run out of
\* mechanisms, and an unavailable API ends the loop.
RepairFails ==
  /\ pc = "repair"
  /\ \/ pc' = "select" /\ UNCHANGED graph
     \/ pc' = "select" /\ graph' = [graph EXCEPT ![working.id].status = "EXPANDED"]
     \/ pc' = "finish" /\ UNCHANGED graph
  /\ UNCHANGED <<store, pointers, locks, known, distinct, rejected, counters,
                 generation, trial, expired, outcome>>

\* The diff is one that was evaluated before: a transposition, not a revision.
RepairRepeatsPatch ==
  /\ pc = "repair"
  /\ distinct \ {Blank, working.patch} # {}
  /\ pc' = "select"
  /\ UNCHANGED <<store, graph, pointers, locks, known, distinct, rejected,
                 counters, generation, trial, expired, outcome>>

IsEvaluated(p) == p \in distinct

\* The diff is one of distinct_patch_hashes, or the tool session refuses it
\* because it is the parent's.
IsRepetition(p) == p \in distinct \cup {working.patch}

\* A real revision.  Its node is EVALUATING until it has been saved.
Repair(p) ==
  /\ pc = "repair"
  /\ ~IsRepetition(p)
  /\ revision' = revision + 1
  /\ distinct' = distinct \cup {p}
  /\ graph' = [graph EXCEPT ![TrialId(revision')] =
                 [status |-> "EVALUATING", depth |-> graph[working.id].depth + 1]]
  /\ trial' = [trial EXCEPT !.patch = p]
  /\ pc' = "evaluate"
  /\ UNCHANGED <<store, pointers, locks, known, rejected, attempts, rounds,
                 generation, expired, outcome>>

\* A bug to compare with: the parent is not run on what the child brought up.
OwedByParentLate(checks) == (checks \cap known) \ Ran(working.results)

\* The checks of the trial queue the parent has not been run on.
OwedByParent(checks) == checks \ Ran(working.results)

\* Child and parent are executed on the same checks, the child's new
\* challenges included; the parent's extra results are not stored.  The child
\* is saved with everything it passes locked, before it is judged.
EvaluateTrial ==
  /\ pc = "evaluate"
  /\ \E new \in SUBSET Challenges : known' = known \cup new
  /\ \E skipped \in SUBSET MaySkip(Ran(working.results)) :
     \E extra \in RunsOf(OwedByParent(known' \ skipped)),
        results \in RunsOf(known' \ skipped), reduction \in Reductions :
       LET paired == [c \in Checks |-> IF working.results[c] # NotRun
                                       THEN working.results[c] ELSE extra[c]]
           id == TrialId(revision)
           c == NewCheckpoint(id, working.id, trial.patch, "TRIAL", results,
                              WithLocks(locks, results, Checks), reduction)
       IN /\ store' = [store EXCEPT ![id] = c]
          /\ graph' = [graph EXCEPT ![id].status = "TRIAL"]
          /\ trial' = [trial EXCEPT !.paired = paired]
  /\ pc' = "judge"
  /\ UNCHANGED <<pointers, locks, distinct, rejected, counters, generation,
                 expired, outcome>>

Side(c, results) ==
  [patch |-> c.patch, mech |-> MechanicalOf[c.patch], results |-> results]

\* The verdict on the trial that has just been saved.  The oracle audit or an
\* open validation closure turns REACHED into KEEP_REPAIRING.
Verdicts ==
  LET c == store[TrialId(revision)]
      decision == DecideTransition(Side(working, trial.paired), Side(c, c.results),
                                   working.locks)
  IN IF decision # "REACHED" THEN {decision}
     ELSE {"KEEP_REPAIRING"} \cup (IF Closed(c.results) THEN {"REACHED"} ELSE {})

\* The trial is discarded, its hash is barred, and the parent stays working.
Reject ==
  /\ pc = "judge"
  /\ "REJECT_TRIAL" \in Verdicts
  /\ LET id == TrialId(revision)
     IN /\ store' = ReplaceMetadata([store[id] EXCEPT !.status = "REJECTED",
                                                     !.eligible = FALSE])
        /\ rejected' = rejected \cup {trial.patch}
  /\ graph' = RecordTransition("REJECT_TRIAL")
  /\ locks' = working.locks
  /\ trial' = NoTrial
  /\ pc' = "select"
  /\ UNCHANGED <<pointers, known, distinct, counters, generation, expired, outcome>>

\* A bug to compare with: rejected siblings compete as well.
AllSiblings(records) ==
  {i \in Ids \ {BootId} :
     /\ records[i] # NoCheckpoint
     /\ records[i].parent = working.id
     /\ Applicable(MechanicalOf[records[i].patch])}

\* The children of the same parent that compete to become the incumbent.
Siblings(records) ==
  {i \in Ids \ {BootId} :
     /\ records[i] # NoCheckpoint
     /\ records[i].parent = working.id
     /\ records[i].patch \notin rejected
     /\ Applicable(MechanicalOf[records[i].patch])}

SiblingKey(c) == c.score \o << c.revision, c.id >>

\* The trial is kept, but the next parent is the best of all its siblings.
Accept(decision) ==
  /\ pc = "judge"
  /\ decision \in Verdicts
  /\ LET id == TrialId(revision)
         accepted == [store[id] EXCEPT !.eligible = decision = "ADVANCE_SAFE"]
         records == ReplaceMetadata(accepted)
     IN /\ store' = records
        /\ graph' = RecordTransition(decision)
        /\ best' = BetterOf(best, accepted)
        /\ \E i \in Siblings(records) :
             /\ \A j \in Siblings(records) \ {i} :
                  Less(SiblingKey(records[j]), SiblingKey(records[i]))
             /\ working' = records[i]
             /\ locks' = records[i].locks
             /\ safe' = IF records[i].eligible THEN records[i] ELSE safe
  /\ trial' = NoTrial
  /\ pc' = "select"
  /\ UNCHANGED <<certified, known, distinct, rejected, counters, generation,
                 expired, outcome>>

\* The trial is certified and sealed at once.
Reach ==
  /\ pc = "judge"
  /\ "REACHED" \in Verdicts
  /\ LET id == TrialId(revision)
         reached == [store[id] EXCEPT !.eligible = TRUE, !.certified = TRUE]
     IN /\ store' = ReplaceMetadata(reached)
        /\ graph' = RecordTransition("REACHED")
        /\ best' = BetterOf(best, reached)
        /\ working' = reached /\ safe' = reached /\ certified' = reached
        /\ locks' = reached.locks
        /\ outcome' = [status |-> "SEALED", final |-> id, cause |-> "REACHED"]
  /\ trial' = NoTrial
  /\ pc' = "done"
  /\ UNCHANGED <<known, distinct, rejected, counters, generation, expired>>

-----------------------------------------------------------------------------
(* The end of the case.                                                      *)

\* The wall clock of the case; it is read at the top of each iteration.
ClockExpires ==
  /\ pc # "done" /\ ~expired
  /\ expired' = TRUE
  /\ UNCHANGED <<pc, store, graph, pointers, locks, known, distinct, rejected,
                 counters, generation, trial, outcome>>

\* The clock has run out, or no frontier action is left.
LeaveLoop ==
  /\ pc = "select"
  /\ pc' = "finish"
  /\ UNCHANGED <<store, graph, pointers, locks, known, distinct, rejected,
                 counters, generation, trial, expired, outcome>>

\* CaseBudgetExhausted is raised by a model call or by a charged execution and
\* caught in run_case, which seals whatever the state holds at that point.
BudgetExhausted ==
  /\ pc \in {"initial", "recovery", "probe", "execute", "diagnose", "repair",
             "evaluate", "judge"}
  /\ pc' = "finish"
  /\ UNCHANGED <<store, graph, pointers, locks, known, distinct, rejected,
                 counters, generation, trial, expired, outcome>>

\* The filter of select_final_checkpoint, applied to each copy separately.
MayBeFinal(c) ==
  /\ c # NoCheckpoint
  /\ Applicable(MechanicalOf[c.patch])
  /\ ~c.regressed
  /\ c.status # "REJECTED"
  /\ c.patch \notin rejected

\* The copies of one checkpoint that survive the filter, the one the
\* dictionary keeps being the last in this order: working, then the history,
\* then safe, then best.
FinalCopy(i) ==
  IF working.id = i /\ MayBeFinal(working) THEN working
  ELSE IF i # BootId /\ MayBeFinal(store[i]) THEN store[i]
  ELSE IF safe # NoCheckpoint /\ safe.id = i /\ MayBeFinal(safe) THEN safe
  ELSE IF best # NoCheckpoint /\ best.id = i /\ MayBeFinal(best) THEN best
  ELSE NoCheckpoint

FinalKey(c) == << Flag(c.certified) >> \o c.score \o << c.revision, c.id >>

FinalCandidates == {FinalCopy(i) : i \in Ids} \ {NoCheckpoint}

Seal ==
  /\ pc = "finish"
  /\ \E c \in IF certified # NoCheckpoint THEN {certified}
              ELSE IF FinalCandidates = {} THEN {working}
              ELSE {d \in FinalCandidates : \A e \in FinalCandidates \ {d} :
                                              Less(FinalKey(e), FinalKey(d))} :
       outcome' = OutputOf(c, "BEST_EFFORT")
  /\ pc' = "done"
  /\ UNCHANGED <<store, graph, pointers, locks, known, distinct, rejected,
                 counters, generation, trial, expired>>

\* The case has ended; nothing moves any more.
Finished == pc = "done" /\ UNCHANGED vars

-----------------------------------------------------------------------------
Next ==
  \/ InitialGenerationEmpty
  \/ \E p \in Patches : InitialGeneration(p) \/ Repair(p)
  \/ TargetRecovery
  \/ \E i \in Ids : SelectToExecute(i) \/ SelectToExpand(i) \/ SelectToProbe(i)
  \/ ProbeDone \/ ExecuteParent \/ Certify \/ RecoverEvidence \/ ExhaustAction
  \/ PrepareRepair \/ RepairFails \/ RepairRepeatsPatch \/ EvaluateTrial
  \/ Reject \/ Accept("KEEP_REPAIRING") \/ Accept("ADVANCE_SAFE")
  \/ Reach \/ ClockExpires \/ LeaveLoop \/ BudgetExhausted \/ Seal
  \/ Finished

Spec == Init /\ [][Next]_vars

\* The wall clock always advances, and no call blocks for ever: model calls and
\* check executions run under timeouts.
FairSpec == Spec /\ WF_vars(Next) /\ WF_vars(ClockExpires)

-----------------------------------------------------------------------------
(* Properties.                                                               *)

MaybeCheckpoint == Checkpoint \cup {NoCheckpoint}

\* The shape of the state, with every counter within its configured bound.
TypeOK ==
  /\ pc \in Phases
  /\ store \in [Ids -> MaybeCheckpoint]
  /\ graph \in [Ids -> [status : GraphStatus, depth : Nat]]
  /\ working \in Checkpoint
  /\ safe \in MaybeCheckpoint /\ best \in MaybeCheckpoint
  /\ certified \in MaybeCheckpoint
  /\ locks \in SUBSET Checks /\ known \in SUBSET Checks
  /\ distinct \in SUBSET (Patches \cup {Blank}) /\ rejected \in SUBSET Patches
  /\ revision \in 0..MaxRevisions
  /\ attempts \in 0..InitialAttempts /\ rounds \in 0..RecoveryAttempts
  /\ generation \in BOOLEAN /\ expired \in BOOLEAN
  /\ trial \in [patch : Patches \cup {Blank}, paired : Results]
  /\ outcome \in [status : {Running, "SEALED", "CRASHED"}, final : Ids,
                  cause : {"NONE", "GENERATOR_BLOCKED_EXTERNAL", "REACHED",
                           "BEST_EFFORT", "METADATA_MISMATCH", "NO_GRAPH_NODE"}]

\* The working copy is always the persisted record, field by field, through
\* refreshes, lock synchronisation, switches, rejections and acceptances: the
\* validate() at the top of every iteration never finds a metadata mismatch.
WorkingIsStored == working = store[working.id]

\* state.locked_checks is always the lock set of the working checkpoint, so a
\* trial is judged (with parent.locked_checks) against the same locks it was
\* evaluated and scored with.
LocksFollowWorking == locks = working.locks

\* A rejected checkpoint is out of the lineage for good: no pointer refers to
\* it, no checkpoint has it as parent and it is never sealed.
RejectedStaysDead ==
  \A i \in Ids : store[i] # NoCheckpoint /\ store[i].status = "REJECTED" =>
    /\ \A c \in {working, safe, best, certified} \ {NoCheckpoint} : c.id # i
    /\ \A j \in Ids : store[j] # NoCheckpoint => store[j].parent # i
    /\ outcome.status = "SEALED" => outcome.final # i

\* The search graph and the store agree on which checkpoints exist and on
\* which were rejected, except for the one trial under evaluation, which has a
\* node before it has a record.  Only that newest trial can be on record without
\* a verdict, and only when it was never judged.
GraphMirrorsStore ==
  \A i \in Ids \ {BootId} :
    /\ graph[i].status = "ABSENT" => store[i] = NoCheckpoint
    /\ store[i] = NoCheckpoint =>
         \/ graph[i].status = "ABSENT"
         \/ graph[i].status = "EVALUATING" /\ i = TrialId(revision)
              /\ pc \in {"evaluate", "finish", "done"}
    /\ store[i] # NoCheckpoint =>
         /\ store[i].status = "REJECTED" <=> graph[i].status = "REJECTED"
         /\ graph[i].status = "TRIAL" =>
              i = TrialId(revision) /\ pc \in {"judge", "finish", "done"}

\* Every revision that counts against the budget evaluated a patch of its own:
\* no patch is evaluated twice as a trial, however the parents alternate.
RevisionsAreDistinct ==
  /\ Cardinality(distinct \ {Blank}) = revision
  /\ \A i, j \in Ids \ {P0Id, CertificateId} :
       i # j /\ store[i] # NoCheckpoint /\ store[j] # NoCheckpoint
         => store[i].patch # store[j].patch

\* A case that ends as REACHED sealed a record whose own persisted evidence
\* meets the Reach condition and closes the validation of every hard goal, and
\* every pointer to the result agrees with that record.
ReachedIsEvidenced ==
  outcome.cause = "REACHED" =>
    LET c == store[outcome.final]
    IN /\ c.certified /\ c.eligible
       /\ working = c /\ safe = c /\ certified = c
       /\ AllReachConditions(MechanicalOf[c.patch], c.results)
       /\ Closed(c.results)

\* A best-effort result with a confirmed preservation regression, or with a
\* patch that does not apply, is sealed only when every checkpoint on record is
\* ruled out the same way.
FallbackIsLastResort ==
  outcome.status = "SEALED" /\ outcome.cause = "BEST_EFFORT" =>
    \/ MayBeFinal(store[outcome.final])
    \/ \A i \in History : ~MayBeFinal(store[i])

\* Locks only grow: no step removes a lock from a persisted checkpoint, and a
\* new checkpoint starts from all the locks of its parent.
LocksOnlyGrow ==
  [][\A i \in Ids : store'[i] # NoCheckpoint =>
        IF store[i] # NoCheckpoint THEN store[i].locks \subseteq store'[i].locks
        ELSE store'[i].parent # BootId
               => store[store'[i].parent].locks \subseteq store'[i].locks]_vars

\* A lock is never carried along unexamined: whenever a checkpoint has evidence,
\* that evidence covers each of its locks, so a lost lock cannot hide from the
\* transition table behind a check that was not run.
LocksAreReexamined ==
  \A i \in History : Ran(store[i].results) # {} => store[i].locks \subseteq Ran(store[i].results)

\* Trial and parent are compared on every check of the trial queue, those that
\* only the child brought up included.
JudgedOnSameChecks ==
  pc = "judge" => Ran(store[TrialId(revision)].results) \subseteq Ran(trial.paired)

\* The controller implements the abstract lineage: checkpoints never change
\* parent or patch, children grow from the working checkpoint only, rejected
\* ones disappear from the game, and the case ends once.
Lineage == INSTANCE PatchLineage WITH
  Nodes <- Ids, Root <- BootId, Absent <- NoCheckpoint,
  lineage <- [i \in Ids |-> IF store[i] = NoCheckpoint THEN NoCheckpoint
                            ELSE [parent |-> store[i].parent, patch |-> store[i].patch]],
  discarded <- {i \in Ids : store[i] # NoCheckpoint /\ store[i].status = "REJECTED"},
  incumbent <- working.id,
  result <- CASE outcome.status = Running   -> [status |-> "UNDECIDED", node |-> BootId]
              [] outcome.status = "CRASHED" -> [status |-> "FAILED", node |-> BootId]
              [] OTHER -> [status |-> "ENDED", node |-> outcome.final]

ImplementsLineage == Lineage!LineageSpec

\* The loop ends: whatever the checks show and the generator returns, the case
\* is sealed or fails, because every iteration looks at the clock first.
CaseEnds == <>(pc = "done")

\* The copies the loop works on agree with what is on disk, whatever path led
\* there: the working record with the store, the locks with the working record.
WorkingIsCoherent == TypeOK /\ WorkingIsStored /\ LocksFollowWorking

\* A trial is compared like with like: on the checks of both sides, and with
\* every lock run again.
TrialsAreComparable == LocksAreReexamined /\ JudgedOnSameChecks

\* What the case reports at its end is what its records support, certified or
\* best effort.
OutcomeIsEarned == ReachedIsEvidenced /\ FallbackIsLastResort

\* The search remembers what it has tried: no patch is judged twice, and what
\* was rejected stays out of the graph, the store, the pointers and the result.
SearchRemembers == GraphMirrorsStore /\ RejectedStaysDead /\ RevisionsAreDistinct
=============================================================================
