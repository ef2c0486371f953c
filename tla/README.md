# Verification of ReachPatch

TLA+ models of ReachPatch (`src/Code/reachpatch`) and of its batch driver
(`src/Code/experiments`), the TLC runs that check them on small instances, and
TLAPS proofs of their main properties for every value of the constants. Paths below
are relative to `src/Code/reachpatch` unless they start with `src/`; line numbers
refer to this commit.

    tlc -workers 2 -config <run>.cfg <Module>     # one run
    tlapm <Module>Proofs.tla                      # one proof module

Contents: 1 the system; 2 the modules and how they correspond to the code; 3 the
runs, bounds and fairness; 4 the proofs; 5 where code and documentation disagree;
6 what is not modelled; 7 the plan.

## 1. The system

ReachPatch repairs one repository for one issue text. A *case* (one process, one
thread, `run_case`, `reach_avoid/controller.py:1916-1976`) compiles the issue into
goals, recovers executable checks for them, lets a model write a first cumulative
patch P0, and then plays a reach-avoid search over immutable *checkpoints* (a patch on
the pristine base tree): it picks a checkpoint, executes the trusted checks on it, and
certifies it, looks for more evidence, or asks the model for a child patch, which is
evaluated on the same checks as its parent and accepted or rejected by a table that
reads execution evidence only. There are no threads in the case: what is hard is
exceptions at arbitrary points, copies of records that go stale, evidence that changes
between runs, budgets, termination, trees rebuilt from diffs, and what a crash leaves
on disk. Concurrency exists one level up, where the batch runner starts cases as
processes and may be killed at any moment.

Only about half of the package is reachable from the command line. The rest
(`binding_graph`, `challenge_graph`, `oracle`, `program_graph`,
`reach_avoid/{transition,checkpoint,frontier,gates,persistence,...}`) belongs to an
earlier transactional search that is kept for old artifacts and tests marked legacy.

### Inventory

| Component | State | Operations | Interacts with | Hard behaviour | Correct when |
|---|---|---|---|---|---|
| Transition table (`reach_avoid/execution_transition.py`, ladder in `models/execution.py`) | none | stage of a failure, atomic progress of a check, mechanical progress, Reach condition, `decide_transition` | called by the controller on (parent, trial, locks) | about ten early returns over unstable evidence | a promotion never hides a regression or a lost lock; a rejection has a reason; promotions do not undo each other |
| Case controller (`reach_avoid/controller.py`) | working / safe / best / certified checkpoint, locks, check lists, patch-hash sets, counters, history | initial generation, recovery, select, execute, certify, repair, evaluate, judge, finish | everything below | exhaustion between any two steps; record copies beside store and graph; siblings as next parent | pointers, locks, store and graph agree; rejected patches stay dead; REACHED is backed by persisted evidence; the case ends |
| Checkpoint store and pointers (`reach_avoid/execution_checkpoint.py`) | one directory per checkpoint, in-place metadata, state file | save, replace_metadata, validate, recover_snapshot, update_best/safe/certified, select_final | controller, graph | a partial write, a crash between two files | a checkpoint that validates is what was saved |
| Case budget (`execution/case_budget.py`) | call, token and second counters, event log | reserve and settle a model call, charge an execution | compiler, recovery, generator, validation | exhaustion swallowed by callers; reservation kept after a failed call | no budget is exceeded by more than the call in flight |
| Active failure (`reach_avoid/active_failure.py`) | none | choose the failure to repair | controller, frontier | a regression alone needs evidence, not a patch | see controller |
| Frontier policy (`reach_avoid/graph_policy.py`) | none (reads the graph) | derive actions, priorities, validation closure | controller, graph | actions exhausted by id, depth bound on one kind only | the search repeats nothing for ever and stops for true reasons |
| Search graph (`reach_avoid/dynamic_reach_avoid_graph.py`) | files, symbols, versions, calls; checkpoints, obligations, observations, cuts, hypotheses; node budgets | initialise, refresh, expand, update from execution / diff / transition / recovery | controller, policy, store, generator | refresh by file hash, backtracking, budgets | the live source is that of the tree at hand; evidence keeps the source it was made on |
| Check execution (`execution/checks.py`, `trace.py`, `validation_cache.py`) | opt-in cache | run a check twice under a tracer, classify | controller, recovery | unstable runs | unstable evidence is UNKNOWN |
| Mechanical checks (`execution/mechanical.py`) | none | parse, undefined names, removed definitions, forbidden paths | controller | scopes, moves | no lost definition is missed, no bound name blamed |
| Oracle audit (`execution/oracle_audit.py`) | verdicts in the graph | mutate a return oracle, rerun | controller | repeated audits | a survivor blocks for good |
| Target recovery (`execution/target_recovery.py`) | rounds, probes, contracts | static candidates, restricted agent, execution on clean, classification | controller, budget | merged and truncated lists, restricted tools | every target check failed on the clean tree |
| Generator session (`reach_avoid/repair_player.py`, `repair/*.py`) | staging tree, results, turn and failure counters | tool loop, edits, finish, hand-over | model API, budget, worktree | provider failures, exhausted budgets, seven ways to end | what is handed over is validated as it stands |
| Goal compiler (`requirement_graph/compiler.py`, `facets.py`) | attempts, goals | scan the issue, ask, validate, merge | budget | faulty answers, swallowed exhaustion | hard goals are grounded in the issue; merging loses no quote |
| Worktrees (`execution/worktree.py`) | temporary trees | copy, diff, apply, restore | generator, store, checks | guessed kinds of patches, write failures | what is stored and replayed is what was executed |
| Sibling probes (`execution/discriminating_probes.py`) | none | execute a probe on two siblings | controller | can exhaust the budget between save and judgement | exploratory only |
| Transactional search (legacy) | state, trial, checkpoint | evaluate, decide, apply, restore | its graphs | half-applied decisions | the state is of one patch; what was gained is kept |
| Experiments runner (`src/Code/experiments/reachavoid_51/runner.py`) | run directories, results, archive, manifest, seals | generate, seal, evaluate, report | one process per case | kills, retries, changed code | attempts are separate; what is evaluated together belongs together |
| Predictions and semantics, record types, CLI and reports | none | AST comparison, serialisation, output | - | - | - |

`PROJECT.json` lists the components with what is modelled of each, and every hazard
at its line with the properties that would notice it going wrong.

## 2. Modules

```
TransitionTable ── TrialJudgement ── MCTrialJudgement, ReachAvoidControllerProofs
      └──── ReachAvoidController ──── MCReachAvoidController, ReachAvoidControllerProofs
                └ INSTANCE PatchLineage   (what a case promises)
CaseBudget
    │     IssueText
    └───────┴── GoalCompiler ── MCGoalCompiler, GoalCompilerProofs
CheckpointStore ──────────────────────────── CheckpointProofs
      └ INSTANCE AtomicStore              (what a checkpoint store promises)
FrontierSearch ── MCFrontierSearch, FrontierSearchProofs
GeneratorSession ── MCGeneratorSession, GenerationProofs
TargetRecovery ── EvidenceLedger ── MCEvidenceLedger, EvidenceLedgerProofs
SourceGraph ── MCSourceGraph, SourceGraphProofs
Worktree ── MechanicalChecks ── PatchedTree ── MCPatchedTree, CheckpointProofs
GenerationBatch ── MCGenerationBatch, GenerationProofs
TransactionalSearch ── MCTransactionalSearch, TransactionalSearchProofs
```

The modules also hold operators introduced as "a bug to compare with" or "mutant":
variants of the definition after them with a plausible mistake, used to confirm that a
property notices it. No specification uses them. A property that a run checks is often
the conjunction of several named parts; each part was seen to fail, alone, with a
mistake of its own in the code it is about.

**TransitionTable** is the pure algorithm shared by the judgement and the controller. A
check execution is the record of what the table reads of it (verdict of a stable pair,
rung of the ladder, target frames, contract distance, failed assertions); a mechanical
result is its set of blockers. The operators follow `execution_transition.py` one by
one, with the early returns of `decide_transition` in their order. Its corruption and
contamination inputs are left out: no production caller sets them. **TrialJudgement**
evaluates the table once on a parent, a trial and a lock set.

**ReachAvoidController** is `_run_execution_driven` and `run_case`:

| Model | Code |
|---|---|
| `InitialGenerationEmpty`, `InitialGeneration` | the initial generator loop, P0 saved unevaluated, working, safe and best |
| `TargetRecovery`, `RecoverEvidence` | recovery before the loop and inside it |
| `SelectToExecute`, `SelectToExpand`, `SelectToProbe` | top of the loop: clock, store validation, selected action, switch of the working checkpoint and its locks |
| `ExecuteParent` | the parent queue, `_refresh_evaluated_checkpoint`, `_updated_locks`, best update |
| `Certify` | Reach condition, closure and audit on the working checkpoint; the certificate is a new record |
| `ExhaustAction`, `PrepareRepair` | no budget / no hypothesis / a hypothesis chosen; materialised challenges re-run the queue |
| `RepairFails`, `RepairRepeatsPatch`, `Repair` | result of the generator session; transpositions; a real revision |
| `EvaluateTrial` | child queue, the checks the parent still owes, save with new locks, before judgement |
| `Reject`, `Accept`, `Reach` | the verdict and everything it updates, siblings included |
| `LeaveLoop`, `BudgetExhausted`, `ClockExpires`, `Seal` | exits, `select_final_checkpoint`, `_output` with its two validations |

`store[i]` is the persisted metadata of checkpoint `i` and, for every id but the
bootstrap, its entry in `checkpoint_history`. `working`, `safe`, `best`, `certified` are
*copies*, as in the code, where `StateCheckpoint` is a frozen dataclass. `graph[i]` is
status and depth of its node. The search score is the tuple `SearchScore.key`. Left to
free choice: what a check shows each time it runs, which checks recovery finds, which
challenges appear and are scoped away, which action is chosen, what the generator
returns, refusals by the audit, when clock or budget run out. **PatchLineage** is the
abstract specification: immutable patches grow below the incumbent, leaves may be
discarded for good, the incumbent moves to a live patch, the case ends once.

**FrontierSearch** is what the controller leaves open: `derive_frontier_actions` and
`select_frontier_action` of `graph_policy.py` (kinds, identities, budgets), the
hypotheses of a failure and its causal cuts, `_same_mechanism_elsewhere`, exhaustion by
identity, reopening, expansion of the source, probes, recovery rounds, and the
counters of API failures and empty answers. Verdicts are drawn when a check first runs
on a patch and stay, except for `Flaky` patches. Checkpoints are reduced to what the
frontier reads.

**GeneratorSession** is one call of `DeepSeekAgent.revise` through `RepairToolExecutor`:
turns, validation between turns, provider failures with the one recovery that raises
the turn limit and the deadline, truncated answers, prose with and without a diff, tool
calls, forced edits, rejected and repeated patches, the drain of pending checks, and the
seven ways to return or raise. `late` (the deadline) and `spent` (exhausted budgets) may come at
any step.

**TargetRecovery** and **EvidenceLedger** follow a check from its candidate to the
certificate: `recover_target_checks` with its restricted agent (`Offered` is the forced
tool choice), the lists of the case and their truncation, obligation nodes and
`_graph_checks`, observation nodes of every execution and the results persisted with a
checkpoint (`Executions`, `Overwritten`, `Persisted`), trials, challenges, the audit
(`audits`), certification and `validate_evidence` on sealing. `at` is the place in the
loop; a step is what happens between two places at which the case can end. A check is
its id with a command, a goal (hard, soft or none) and an authority, and a check is
not its id: when every hard goal is covered, the call after P0 takes the targets for
public checks (`PublicAgain`, `Representatives`), which are made anew with the default
comparator and a goal of their own (`Rebuilt`, given) under the same id, and the lists
are dictionaries by id whose later value wins in the earlier place (`ById`, `Placed`).
Results, handles and observations are by id, audits by check. Targets of soft goals are
recovered like any other and may stay open in a certificate (`MayStayOpen`).

**SourceGraph** is the source layer of the search graph: `Seeded` is `seed_dynamic_graph`,
`Refreshed` is `refresh_checkpoint_source`, `Expanded` is `expand_dynamic_graph_frontier`,
`Observed` the trace edges of `update_graph_from_execution`; the steps are the loop of the
controller that calls them (`controller.py:1318-1828`). `Spans` are texts of definitions, a file
is a sequence of definitions, and a tree maps files to contents. Versions are nodes whose `of` is
the node they replaced. Each loop of the code is a fold whose step is an operator of its own
(`RefreshFile`, `ReadNext`, `Link`, `ExpandFile`, `SeedFile`, `Admit`), and a deadline cuts the
sequence it folds over. The seed reads hinted files, and another one only when it
defines or calls what the issue names (`SeedFile`).

**Worktree**, **MechanicalChecks**, **PatchedTree**: a tree maps paths to files, a file is
a sequence of lines (each a block of text longer than a hunk's context) whose last one
may lack its newline. `CanonicalDiff`, `Applies` and `ApplyUnifiedDiff` are the diff as
`worktree.py` writes and applies it, headers included; `PatchedTree` edits a staging tree
(`ApplyPatch`: structured, incremental or cumulative), finishes or ends a session,
evaluates what was handed over where `execute_check` runs it (with or without the image's
own copy), stores it, loses and rebuilds snapshots. `MechanicalChecks` gives the verdict
on each stored tree, from the lines a diff removes and adds, counted (`Removed`); `Code`
says what a statement binds, loads and defines.

**CaseBudget** is `execution/case_budget.py` with its callers split into those that let
`CaseBudgetExhausted` propagate and those that swallow it. Time is in ticks; a call may
outlast its timeout by `Overrun`, an answer may exceed its reservation by `Excess`.
**IssueText** is the deterministic reading of an issue, a fold over its lines (`Scanned`),
each a record of what the patterns find in it. **GoalCompiler** puts the compiler in front
of the budget: three attempts with their faulty answers (`IsFaulty`), what is accepted as
hard, fallbacks, direct goals from claims, scripts and public checks, deduplication
(`Merged`) and the removal of markers, up to the goals the rest of the case starts with.

**CheckpointStore** is what a case leaves on disk: the files of
`ExecutionCheckpointStore`, the certificate and sidecar of a judged trial, the files of
`_output`, and the reading of all of them by `reachpatch verify` (`cli/main.py`). A file is
absent, partly written or whole; a tree may also be lost or damaged. `Killed` may come at
any step, `Fault` damages a tree from outside, `Verify` runs at any time. The text of a
patch is not its file: what `verify` reads of `final.patch` is the diff it compares it
with only if that has no carriage return (`WithReturns`, `PatchReadsBack`). A killed case is
never resumed. **AtomicStore** is its abstract specification: a checkpoint is on record as
a whole or not at all, is amended but never removed, and nothing moves after sealing.

**GenerationBatch** is `runner.py`: `Coordinator` and `Worker` are the two processes of
`generate`, `Environment` kills either, edits the code and puts it back, and damages results;
`Evaluation` and `Harness` are the two stages over the sealed predictions. An attempt is a
number that names its run directory and its patches. The hash of the code is taken where
`runner.py` takes it: by every look at a result (`TakeCase`, twice at the end of an attempt in
`Judge` and `Reject`, once a row in `CollectRow`) and by the seal itself (`SealP0`); an edit may
come between any two of them and may lead back to an earlier hash.

**TransactionalSearch** is the retired engine: `build_transition_validation_batch` (locks
replayed up to a limit), paired classes, gates, `decide_reach_avoid_transition`,
`apply_transition_decision`, `capture_checkpoint` and the scheduler. Its driver is no
longer in the repository; here it does what the tests do, and resumes from the newest
checkpoint that loads, because applying a decision always raises.

## 3. Runs

| Run | Question | Bounds |
|---|---|---|
| `judgement` | are promotions and rejections sound, and gains one-way? | two targets (a hard and a soft goal), a preservation check, a challenge, three blockers; every stage, bypass and inconclusive outcome; six lock sets |
| `budget` | accounts of the budget under the compiler; grounded goals; no lost quote | three reports (in order; saying little; steps, fence and expected line out of order), eight answers of the model, budgets of a few units so that each runs out alone and together |
| `store` | wholeness after a kill, the meaning of VALID, trees only damaged from outside, refinement of `AtomicStore` | bootstrap and two checkpoints, the diff of one with carriage returns, two rewrites of each, two outside events |
| `controller_base` | coherent working checkpoint, fair comparison, earned outcome, growing locks | a target, a preservation check, a challenge, two patches (one blocked), one revision, no recovery round |
| `controller_siblings` | rejected children stay dead, distinct revisions, refinement of `PatchLineage`, termination | two revisions over three patches, depth 2, one recovery round |
| `search` | bounded repetition, true reasons for stopping, depth, termination without the clock | one target (fails, passes, passes with a weak oracle), two regions with different mechanisms, two patches, three revisions, depth 2, a cell, one expansion, one recovery round |
| `session` | results of this tree, sound hand-over, termination | three trees, two patch texts, two checks, two turns and three after a recovery |
| `evidence` | grounded targets, persisted evidence, fail-to-pass certificates, survivors | two hard goals and a soft one, a facet of the soft goal that comes back rebuilt for a hard one, three recoveries, P0 and one trial, three probes, four agent turns |
| `batch` | separate attempts, comparable results, termination | two cases (one whose directory cannot be moved), two retries, three attempts, two edits over two versions of the code (so that it may be put back) |
| `transactional` | one patch per state, gates, progress kept | four cells, replay limit 1, impact limit 2 |
| `source_graph` | live source of this tree, evidence on its source | three files of which two fit, four trees (clean, edited, moved, broken), seven symbols and edges, two expansions |
| `patched_tree` | exact replay, right mechanical verdict, edits change named files only | four paths, eleven responses of every kind, two clean trees, three edits a session, three revisions |

A run's state space is between 120,000 and 1.6 million states. One revision is enough for
every relation between a parent and a trial; two give a child of P0 competing with its
sibling, a child of a child, a revert to P0 and a second rejection; three let an idea come
back after two checkpoints. `MaxRevisions`, `MaxDepth`, `InitialAttempts`,
`RecoveryAttempts`, `MaxTurns`, `CaseRetries` and the node budgets are configuration values
of the code, so bounding them bounds the case and not the model. Limits that are large in the
code (turns of a session, nodes of the graph) are small here so that they are reached together.

Larger or other instances, checked by hand with the same properties: `controller_base`
with inconclusive executions (966,744 states) and with two targets of one hard goal that
may pass without entering the target (292,196); `FrontierSearch` with flaky patches, a
challenge and a blocked patch (654,000, liveness included) and with three revisions of
flaky patches (7.1 million, safety only); `SourceGraph` with one expansion and three files and eight symbols
(131,539), three rounds (890,770) or two observations (783,108), and without expansions with
twelve symbols and three rounds (173,584); `IssueText` against its reference operators
`Fenced`, `InSteps`, `LatestOf` and `Quotable` on every sequence of at most four lines over
eight kinds.

Deadlock is checked except where the system may stop: the judgement is one step long; the
batch is idle when nobody starts a command; the evidence case, the transactional driver,
the source graph and the patched trees stop at their bound of revisions or when the case
is sealed.

Fairness. `ReachAvoidController!FairSpec` assumes that some step is taken while one is
possible and that the clock advances: one thread, every model call and execution under a
timeout (`execution/case_budget.py:80-100`), and a loop condition that reads the clock.
`FrontierSearch!FairSpec` and `GeneratorSession!FairSpec` assume only the former: their
termination does not rest on the clock. `SearchEnds` excepts a check that keeps changing
its signature: every change renews the actions, and only the clock ends that.
`GenerationBatch!FairBatchSpec` assumes that coordinator, worker and evaluation go on while they
can; nothing obliges anyone to start a command or a harness to be killed. No fairness is
assumed of the model, the checks or the choice among actions.

## 4. Proofs

All proofs hold for every value of the constants under the named assumptions of the
modules (disjoint roles, authorities 1..3, finite sets of checks, cells and blockers, positive
budgets and retries, `None` outside the cases, an absent record that is no record
(`NoCheckpointIsNone`), check lists that are lists of checks (`RecoveryLists`), rebuilt checks that
keep id, command and authority (`RecoveryRebuilds`), hard goals that are no soft ones (`RecoveryGoals`),
a bootstrap whose diff is empty (`ReturnsAreOfEdits`)); TLC evaluates
the assumptions in the runs. Each inductive invariant was an invariant of a run before it was
proved.

* **GoalCompilerProofs**, for the budget: `BudgetIsKept` and `ReserveIsKept`. `IInv` joins the
  bounds with "nothing is reserved unless a model call is in flight": without it a settlement could
  not be related to its reservation.
  For the compiler: `GoalsAreGrounded` and `ProvenanceIsKept`. `CompilerInv` says that the goals are
  what compiling an accepted answer, the marker or nothing gives (`IsAnswered`), that the answer of a
  case with a readable one is not empty, and that the ladder of attempts starts with an issue nobody
  has read. That a goal compiled from such an answer is grounded (`GroundedOver`), and
  that the goals quote all that was asked for, is a fact about the folds over lines, items and
  goals: each step keeps the goals it does not replace, or hands their quotes on to the one that
  replaces them. Every step of the compiler is a step of the budget or leaves it alone
  (`CompilerSpendsTheBudget`), so the two budget invariants also hold under the specification the run
  checks. Assumed are lines whose quotes, if they are normative and not fenced, state expected
  behaviour (`QuotesAreRead`) and answers that are lists (`AnswersAreLists`).
* **CheckpointProofs**, first part: `CheckpointsAreWhole`, `VerifyIsRight`, `ContentIsKept` and the
  refinement `ImplementsAtomicStore`. `IInv` adds where each operation stands:
  `SaveProgress` (what the temporary directory holds at each step of a save, and that its
  id is still unsaved), `OutputProgress` (the files before the current one are whole; the
  terminal record is whole only in a case that has returned), `EvidenceProgress`. Without
  them the rename could publish a partial tree, and a complete terminal record would say
  nothing of the other files. `Quiet` is a second invariant, inductive relative to the
  first: undisturbed trees are whole and evidence is complete unless it is being written;
  with it a case that returned is readable, and valid exactly if its diff has no carriage
  return.
  Second part, of `PatchedTree`: `ReplayIsExact`, `MechanicalVerdictIsRight` and
  `OnlyNamedFilesChange`. `TreesInv` says of every checkpoint what it was made of
  (`IsOfOneTree`: hash, diff, executed files and verdict are those of one tree, which a stored
  snapshot is a copy of, and what is marked finished replays) and of the session what
  `finish_revision` has verified (`SessionIsOpen`). Under it lie lemmas on the operations
  themselves: a copy changes no diff (`CopyFacts`), a diff applied to any tree writes what it
  lists (`DiffEffect`), a hunk leaves lines of the program (`ApplyHunkType`, and over a list of
  hunks, a recursive function, `UpdatedLines` by a least counterexample), and where the visitor
  finds no binding but Python has one, the scope holds a form the visitor skips
  (`UnboundIsUnseen`). Assumed are trees and responses as the tools produce them
  (`TreesAndPatches`) and that only functions and lambdas have parameters (`ScopesAreOfPython`).
* **ReachAvoidControllerProofs**, for the judgement: `PromotionIsSound`, `RejectionIsSound`,
  `TargetGainIsOneWay`. There is no induction over steps: `JudgementRecorded` says that the decision
  is the table's. The work is in the table: `BlockersOnlyAccumulate`, `AdvanceIsGuarded`,
  `UnguardedAdvanceIsDead` (the last, unguarded `ADVANCE_SAFE` needs a shrinking blocker count, which
  is mechanical progress and was taken by an earlier branch; cardinality of finite sets).
  For the controller: all its safety and action properties.
  `WorkingIsCoherent` needs `IInv`: `StoreIsKeyed` (a record sits at its own id), `BudgetIsLeft`
  (repair is entered only with a revision left) and `TrialIsNewest` (the trial under evaluation
  has an id above every other record and is not the working one): a write to one id must not
  touch the working record. On top of it, each inductive relative to those before it:
  `SearchInv` for the verdicts (`NamesAreRecorded`: what a pointer or a parent names is on
  record; `TrialIsALeaf`; `RejectedAreBarred`: the hash sets know every rejected patch) and
  `CountInv` (`PatchesAreCounted`: a trial's patch is in the set of evaluated ones, which is
  what keeps two revisions distinct), together `SearchRemembers`; `EvidenceInv`
  (`ChecksAreKnown`: nothing was run that the case does not know) for `TrialsAreComparable`;
  `OutcomeIsEarned` is inductive relative to the first two. `LocksOnlyGrow` and the refinement
  `ImplementsLineage` follow from these step by step: initial states map to initial states, and
  each action is an action of `PatchLineage` or a stutter.
* **FrontierSearchProofs**: `RepetitionIsBounded`, `StopIsEarned` and
  `DepthYieldsOnlyToNewEvidence`. A search that stops for external reasons must have counted
  right (`CallsAreCounted`: every failed call was for a hypothesis of its own, so the failures
  are at most the attempts) and must have missed nothing (`SiblingsRemain`: what is still viable
  for the failure under repair is in the set `remaining` that the code computed before the
  call). A search that stops limited by evidence must have a gap that no step will close:
  `CannotClose` says why it stays open (no target is known, or a known check fails, is unknown
  or weak on that patch, for good), and `OpenCaseIsHonest` carries it to the end of the case.
  `ActionIsApt` carries the depth from the selection of an action to the repair it leads to.
* **GenerationProofs**, for a session: `ResultsAreOfThisTree` and `HandoverIsSound`. `IInv` adds that
  finish is only offered for the tree the model is asked about (`OfferIsCurrent`), that a
  finished session holds an edit with nothing left to run (`FinishIsEarned`), and that the
  result is set once, from the tree as it is (`ResultIsEarned`).
  For the batch: `AttemptsAreSeparate` and `ResultsAreComparable`. `BatchInv` adds
  `CaseAtHand` (a command that is running a case has one), `RunIsMoved` (between the two
  moves of an archive the run directory is on its way, not lost), `GatheredIsOfItsTime`
  (what the coordinator has collected so far, and the hash it will seal with, are of code
  that was there since the first row) and `FirstStageIsSealed` (between the two stages the
  first one holds what is sealed).
* **EvidenceLedgerProofs**: `RecoveryIsGrounded`, `EvidenceIsKept`, `ReachedIsFailToPass` and
  `SurvivorBlocksForGood`. Two layers: `RecoveryInv` for a call of the recovery (what is queued,
  found and kept is grounded in what the snapshot showed, not only what the case has taken over),
  and `Inv` for the case. The list of targets is merged and cut while handles refer to its
  members: `HandlesAreKept` says that nothing is executed before the list is cut to its length
  for good, `CallsAreCounted` that the place in the loop tells how many recoveries there were.
  What merging does (`ByIdProperties`: every id keeps its first place and has its last check, none
  twice; `RecoveredProperties` for what the case takes over) is shown by a least counterexample in
  the naturals (`LeastNatural`), which needs no induction scheme. Since a check may be replaced
  under its id, a target is grounded in what the snapshot showed of it as it is now, and a
  certificate says of what failed on the patch no more than that it is a target of soft goals.
* **TransactionalSearchProofs**: `StateIsOfOnePatch`, `GatesHold` and `ProgressIsKept`. A decision
  leaves the live state with the evidence of one patch and the graphs of another, so the invariant
  is about the checkpoint: it is always of one patch (`OfOnePatch`), it is the live state except
  between a decision and the resumption (`CheckpointIsLive`), and there it owes its locks, its
  mechanics and, after a rejection, everything to the state the trial started from
  (`CheckpointKeepsGains`). The gates rest on a fact about batches, `BatchHoldsLocks`: as long as
  the locks fit into the limit, every one of them is replayed.

* **SourceGraphProofs**: `SourceIsOfThisTree` and `EvidenceKeepsItsSource`. The invariant `LayerInv`
  is in terms of what the graph has read and not of the tree at hand. `IsTrue` says that a live text
  or active call is of the content whose hash the graph holds, or of the clean tree (`IsSound`; a
  retired caller, which a later refresh may revive, calls only what its clean text does), and that
  each definition of a file that was read is live unless the graph recorded that it has no room
  (`IsWhole`). `IsSynced` says that what was read of a file of the tree is what the tree has. The
  first is needed because the controller changes trees before the source is read again, and a
  refresh passes over files whose hash did not change; both hold only while every refresh came to
  its last file (`looked`). For the action property there are two relations between a graph and a
  later one: `Carries` (an observation leads to the same text, perhaps in a version: refresh and
  runs) and `Evolves` (a text changes only to one of the trees just read: seed and expansion).
  Assumed are trees as the parser gives them (`TreesAreGiven`: `NoSpan` is no source text, `NoHash`
  no content) and budgets that are natural numbers.

The loops of the compiler and of the source layer are folds. The library's theorems about folds are
induction schemes with an operator as parameter, which the provers cannot instantiate; both modules
prove instead, once, that the library's fold runs through a sequence in order (`FoldExists`,
`FoldIsRun`, from a function as the step) and state it for each operator they fold with (`AddIfSteps`,
`RefreshSteps`, ...), so that an invariant of the step is an invariant of the loop.

Every safety invariant and every action property of the runs is a theorem. Only model-checked is what
the prover cannot do: liveness under fairness (`CaseEnds`, `SearchEnds`, `SessionEnds`, `BatchEnds`)
and anything that mentions ENABLED. Two corrections of the model came out of these proofs: with a
second expansion an observation may lead to text of the clean tree, which `Kept` now admits for
expansions alone; and a seed that stops because it has all the files it may have does not record
`TIME_BUDGET`, whatever the clock says.

## 5. Where the code and its documentation disagree

Each of these was seen as a counterexample of a property that states the quoted text, or by
running the functions concerned; the runs above are about what does hold.

Controller and store

1. `reach_avoid/controller.py:1197` seals the bootstrap after the last empty answer;
   `validate_evidence` (`execution_checkpoint.py:211`) looks it up in the graph, where it never
   was, and the case dies with a KeyError. `src/Code/ARCHITECTURE_REPORT.md:18-21`: "a second
   empty response seals the unchanged bootstrap as `GENERATOR_BLOCKED_EXTERNAL`". The same
   happens when the budget runs out before P0 (`controller.py:1963`; its comment at 1962: "No
   patch checkpoint exists to seal.").
2. `execution_checkpoint.py:321` filters every copy of a checkpoint by itself. When the
   refreshed record of P0 shows a regression, the unrefreshed copies in `safe_checkpoint` and
   `best_checkpoint` pass; one is selected and `store.validate` raises "execution checkpoint
   metadata mismatch". `controller.py:1204-1206`: P0 "remains eligible as a final fallback".
3. `controller.py:1753`: the hash of P0 is not in `distinct_patch_hashes`; a child that reverts
   to P0 is evaluated as new, and its rejection puts the hash of P0 among the rejected ones.
4. `execution_transition.py:337`: the Reach condition is tested before the locks and skips the
   targets of soft goals, so a certificate can lose a lock.
   `src/Code/docs/evidence_guided_search_design.md:93`: "All target, lock and trusted preservation
   checks remain required to certify".
5. `controller.py:1388`: an expansion exhausts its action before the new source is tried, although
   1619-1622 say that new source reopens the search.
6. A trial saved but not yet judged when the budget runs out can be sealed (`controller.py:1838`,
   1963), though `ARCHITECTURE_REPORT.md:11-12` says the final output is the accepted diff; and
   the child with verified progress is not always the next parent (1904-1906): the sibling with
   the best score is.
7. `SEARCH_DEPTH_EXHAUSTED` (`controller.py:1342`) cannot be reported. Target checks are cut to
   `max_probes` at 1290 and 1506, contract records, facets and agent checks are not counted.

Goal compiler

8. A normative sentence under an "Actual behavior:" heading becomes a hard target goal: only the
   heading itself is skipped; the comment at `requirement_graph/compiler.py:962-964` says it "must
   never become an oracle". "Expected:" inside a fence opens the section; an unclosed fence hides
   the rest of the report.
9. `_deduplicate_redundant_goals` (286-312) prefers by source hints, which are empty at that
   point: a private or dotted soft goal replaces a hard one with the same oracle and a fifth of
   the words in common. A named goal of any kind removes the unresolved marker, also one that is
   not grounded (203-206).
10. After a failed call the previous answer is sent again with errors that are not its own
   (378-399); of several tool calls only the first is answered; with no readable answer and only
   preservation lines the goal list is empty, against "never a dead-end empty claim list"; a
   public check of untrusted authority is hard (202).

Generator and trees

11. `repair/execution_tools.py:209-232`: an incremental response to another region of a changed file
   is taken as cumulative and the earlier edit is lost, though the prompt
   (`repair/deepseek_agent.py:338-339`, 395) asks for incremental edits; the RuntimeError about an
   already applied cumulative patch is swallowed by its own handler.
12. Canonical diffs carry no header for new and deleted files: a revision that adds a file cannot
   pass `finish_revision` or `recover_snapshot`, and a deletion leaves an empty `dev/null`. A last
   line without newline corrupts the patch; adding or deleting an empty file is invisible. Binary
   edits share one diff text. The backup of a refused edit drops excluded directories.
13. After a prose diff the generator is told that the tree was restored (`deepseek_agent.py:718`);
   it was not if the diff applied. A BLOCKED result does not prevent the hand-over, although the
   prompt says "UNKNOWN or BLOCKED is not progress". The branch at 862 is dead.
14. `execution/mechanical.py:205-222`: parameters of a lambda, captures of a pattern, a `global`
   assigned in a function and `__file__` are blamed as undefined; class attributes seen in methods
   are missed; a comment-only file makes a patch of several files a no-op; one of two definitions
   of a name cannot be deleted; blocker ids hold line numbers.

Search graph

15. `controller.py:1581` expands from the clean tree after the refresh: symbols of the parent get
   clean text under the parent's hash, so later refreshes skip them and the generator is shown
   clean text (`dynamic_reach_avoid_graph.py:527-532` promises the checkpoint's).
16. A file created by a sibling keeps its live nodes after backtracking; calls from unchanged files
   into a refreshed one are withdrawn for good; calls to a name with versions are ambiguous; an
   edge of dynamic calls to a version is reused by later observations; a file that does not parse
   leaves its old source live; the symbol budget counts history and leaves known definitions
   below it retired. `NoForeignSource`, `EditedFilesAreWhole`, `CallsAreOfThisTree` and `Kept` are
   stated around these.

Batch and legacy

17. `src/Code/experiments/reachavoid_51/runner.py:806-868`: the report joins the results of the last
   summary with the last evaluation, whichever patches it evaluated. A result written by an
   attempt during which the code changed stays and is reused by the next invocation (619).
18. `reach_avoid/certificates.py:56` raises AttributeError for every decision (`Decision.ROLLBACK`
   is gone), so that applying one always fails half way. `transition.py`: stage numbers {1,2} of an
   older ladder at 1430; PASS to UNKNOWN is a regression (comment near 281 says otherwise); a
   BLOCKED parent counts as stage -1 (86-89); reached is decided on cells that did not run.
   Forbidden edits never stop a trial, since `evaluate_avoid` is not read.
19. A batch may seal results of several versions of the code: each row is compared with the hash of
   the moment (531, called at 647-652), so that with code edited, or put back, between two rows
   results of two versions pass, and the seal carries a hash taken once more at 684, after the rows. A batch whose code stood
   still while it was collected is of one version, the one the seal names (`SealIsOfItsTime`).

Recovery and verify

20. With every hard goal covered before P0, the second recovery (`controller.py:1235-1260`) passes the
   targets on as public checks. `_execution_check_from_public` (`target_recovery.py:1086-1141`) gives
   them the comparator EXIT_ZERO, or that of a goal that raises, and `_goal_for_check` (1144-1156) a
   goal by shared symbols; under the same id the result takes the place of the original (1263-1267,
   1295), also of a facet, whose own contract is lost with that. The comment at 1241-1245 says the
   call is to "Reclassify that exact command". What still holds: the check failed on the clean snapshot
   as it is now. A return mutation the rebuilt check let survive no longer blocks when a later
   round puts the original back.
21. A certificate may come with a failing target of a soft goal, as the comment at
   `execution_transition.py:279-282` says, against the sentence quoted in 4.
22. `verify` reads `final.patch` with universal newlines (`cli/main.py:154`) and compares it with the
   diff of `terminal.json`, which keeps carriage returns (`worktree.py:175`, written at
   `controller.py:958`): the finished, undisturbed run of a repository with CRLF files is reported as
   invalid.

## 6. Not modelled

* AST comparison for feedback to the generator (`mechanism_predictions.py`, `semantics.py`), record
  types and serialisation (`models/*`), prompts, argument parsing, report tables: no state of their
  own.
* Recognition of a line by regular expressions, search of symbols in the repository, the probe
  texts of the agent, generation of oracle mutants: each is a given property of a model value.
* Subprocesses, the tracer and the validation cache (opt-in): an execution is its classified result.
* Binary files, modes, symbolic links, invalid UTF-8, configured mechanical commands.
* The builders of the legacy binding, program and oracle graphs, which are static analysis, with
  probes, coverage gaps and counterexamples of the legacy engine (the latter always empty).
* The diagnostic mode of the batch runner and its checks of the environment.
* Of the search graph: data-flow inside a function, boundary details, rendering; of recovery:
  `entered_target` and goals with an unresolved reason; what `discover` finds in the working tree is
  taken to be the same in every call.
* The alignment of a diff: a line that moves in a file counts as removed and added. A write that
  fails in the middle of an edit: its files are put back in the same step.
* The edge budget of the source layer need not stop the collection of calls (616): when the edges are
  full, nothing is added, nothing that is there changes, and their number never falls.

The modules around the controller are checked one by one and not composed with it: what one of them
promises (a tree handed over validated, evidence that is whole, a frontier that ends) is a free choice
or an assumption of the controller, so its runs cover more than the composition would reach.

## 7. Plan

Done: the table and its judgement; budget; controller and lineage; store; frontier; generator session;
recovery and evidence; batch; transactional engine; source layer; trees, diffs and mechanical checks;
compiler; the proofs of section 4, of every invariant and action property. Left, most important first:

1. A controller whose trials come from `PatchedTree` instead of a constant, so that a tree that cannot
   be replayed meets the selection of the final checkpoint.
2. Outcomes of sibling probes; the validation cache.
3. The frontier, the session and the ledger composed with the controller, whose refinement would let
   the theorems of each speak of a whole case.
