-------------------------- MODULE GenerationBatch --------------------------
(***************************************************************************)
(* The batch of experiments/reachavoid_51/runner.py: a coordinator that    *)
(* runs every case in a sandboxed worker, archives what failed attempts    *)
(* leave, retries, and seals the patches of a complete batch; the harness  *)
(* that evaluates the sealed predictions; the report that joins the two.   *)
(*                                                                         *)
(* An attempt is a number: it names the run directory it made and the two  *)
(* patches in it.  A hash of patches is the patches themselves.  Every     *)
(* file is written by a rename, so a kill falls between two writes.  Left  *)
(* out: the diagnostic mode, which seals the selected cases only.          *)
(***************************************************************************)
EXTENDS Integers, FiniteSets

CONSTANTS
    Cases,        \* the public instances
    None,         \* no case
    Foreign,      \* those whose run directory an older worker left unmovable
    CaseRetries,  \* REACHPATCH_CASE_RETRIES
    MaxAttempts,  \* bound: attempts of all invocations
    MaxVersions,  \* bound: versions of the implementation
    MaxEdits      \* bound: how often it is exchanged

ASSUME BatchAssumption ==
    /\ Cases # {} /\ Foreign \subseteq Cases /\ None \notin Cases
    /\ CaseRetries \in Nat \ {0}
    /\ MaxAttempts \in Nat
    /\ MaxVersions \in Nat \ {0}
    /\ MaxEdits \in Nat

VARIABLES
    impl,       \* the code: _implementation_hash(), taken anew by every check
    edits,      \* how often it has been exchanged
    manifest,   \* the implementation in GENERATION_MANIFEST, 0 if there is none
    attempts,   \* attempts made so far
    at,         \* the attempt in RUN_ROOT/<case>, 0 if none
    side,       \* attempts in suffixed run directories
    archived,   \* attempts moved to failed_attempts
    case_results,  \* RESULT_ROOT/<case>.json: [run, impl], or no result
    lost,       \* cases whose result names patches that are not there, or are
                \* not those it hashed
    point, todo, cur, retry, failures,   \* the coordinator
    changed,    \* the source tree of the case changed during the attempt
    gathered,   \* all_results: the results found valid, row by row
    stamp,      \* the implementation hash of the seal that is being made
    during,     \* the versions the code has had since the first row was
                \* collected (only to state what a seal may mix)
    predicted,  \* sealed_p0/sealed_final_predictions.jsonl
    sealed,     \* SEALED_MANIFEST: the attempts sealed, their stamps, its own
                \* hash, and the versions the code had while it was made
    summary,    \* the results in generation_summary.json
    evaluated   \* harness_summary.json: the predictions of the two stages

files    == <<manifest, attempts, at, side, archived, case_results, lost>>
products == <<predicted, sealed, summary, evaluated>>
collecting == <<gathered, stamp, during>>
locals   == <<todo, cur, retry, failures, changed, collecting>>
batch_vars == <<impl, edits, files, products, point, locals>>

Attempts == 1..MaxAttempts
Versions == 1..MaxVersions
NoCaseResult == [run |-> 0, impl |-> 0]
Nothing  == [c \in {} |-> 0]   \* no batch
Batches  == UNION {[S -> Attempts] : S \in SUBSET Cases}
CaseResults == [run : Attempts, impl : Versions]
Gatherings  == UNION {[S -> CaseResults] : S \in SUBSET Cases}
Points   ==
    {"idle", "case", "archive_run", "archive_result", "start", "work", "wrote",
     "returned", "failed", "rejected", "collect", "seal_p0", "seal_final",
     "seal_manifest", "stage_p0", "stage_final"}
Stages   == {"p0", "final"}

(* Mutant: The validity of a result forgets the implementation.            *)
ValidOfAnyCode(c) ==
    /\ case_results[c] # NoCaseResult
    /\ c \notin lost

(* _generation_result_valid: the implementation is the present one, and    *)
(* the patches are where the result says, unchanged.                       *)
IsValid(c) ==
    /\ case_results[c] # NoCaseResult
    /\ case_results[c].impl = impl
    /\ c \notin lost

(* The result of a case is moved away or deleted.                          *)
Discard(c) ==
    /\ case_results' = [case_results EXCEPT ![c] = NoCaseResult]
    /\ lost' = lost \ {c}

RunExists(c) == c \in Foreign \/ at[c] # 0

BatchInit ==
    /\ impl = 1 /\ edits = 0
    /\ manifest = 0 /\ attempts = 0
    /\ at = [c \in Cases |-> 0]
    /\ side = {} /\ archived = {} /\ lost = {}
    /\ case_results = [c \in Cases |-> NoCaseResult]
    /\ point = "idle" /\ todo = {} /\ failures = {} /\ cur = None
    /\ retry = 1 /\ changed = FALSE
    /\ gathered = Nothing /\ stamp = 0 /\ during = {}
    /\ predicted = [s \in Stages |-> Nothing]
    /\ sealed = [runs |-> Nothing, impls |-> {}, impl |-> 0, during |-> {0}]
    /\ summary = Nothing
    /\ evaluated = [s \in Stages |-> Nothing]

(* The process ends, and its locals with it.                               *)
Exit ==
    /\ point' = "idle" /\ todo' = {} /\ failures' = {} /\ cur' = None
    /\ retry' = 1 /\ changed' = FALSE
    /\ gathered' = Nothing /\ stamp' = 0 /\ during' = {}

-----------------------------------------------------------------------------
(* generate                                                                *)

(* The preflight refuses a source tree with modifications, and a manifest  *)
(* of another method run; a missing manifest is written.                   *)
Generate(selected) ==
    /\ point = "idle"
    /\ selected # {}
    /\ manifest \in {0, impl}
    /\ manifest' = impl
    /\ todo' = selected /\ failures' = {}
    /\ point' = "case"
    /\ UNCHANGED <<impl, edits, attempts, at, side, archived, case_results, lost,
                   products, cur, retry, changed, collecting>>

(* The head of the loop: a valid result is reused, leftovers are archived. *)
TakeCase(c) ==
    /\ point = "case" /\ c \in todo
    /\ todo' = todo \ {c} /\ cur' = c /\ retry' = 1
    /\ \/ IsValid(c) /\ point' = "case"
       \/ /\ ~IsValid(c)
          /\ point' = IF case_results[c] # NoCaseResult \/ RunExists(c)
                   THEN "archive_run" ELSE "start"
    /\ UNCHANGED <<impl, edits, files, products, failures, changed, collecting>>

(* Mutant: The failed run is removed where it should be moved.             *)
ArchiveRunDeletes ==
    /\ point = "archive_run"
    /\ at' = [at EXCEPT ![cur] = 0] /\ archived' = archived
    /\ point' = "archive_result"
    /\ UNCHANGED <<impl, edits, manifest, attempts, side, case_results, lost,
                   products, locals>>

(* _archive_failed_attempt: first the run directory, which stays where it  *)
(* is when it cannot be moved, then the result.                            *)
ArchiveRun ==
    /\ point = "archive_run"
    /\ archived' = archived \cup ({at[cur]} \ {0})
    /\ at' = [at EXCEPT ![cur] = 0]
    /\ lost' = IF at[cur] # 0 /\ case_results[cur].run = at[cur] THEN lost \cup {cur} ELSE lost
    /\ point' = "archive_result"
    /\ UNCHANGED <<impl, edits, manifest, attempts, side, case_results, products, locals>>

ArchiveResult ==
    /\ point = "archive_result"
    /\ Discard(cur)
    /\ point' = "start"
    /\ UNCHANGED <<impl, edits, manifest, attempts, at, side, archived,
                   products, locals>>

(* generate_case refuses when something is left at its paths, which        *)
(* AttemptStartsClean excludes; a directory it cannot write to is passed   *)
(* by, and the attempt gets a suffixed one.                                *)
WorkerStarts ==
    /\ point = "start" /\ attempts < MaxAttempts
    /\ attempts' = attempts + 1
    /\ IF cur \in Foreign
       THEN side' = side \cup {attempts + 1} /\ at' = at
       ELSE at' = [at EXCEPT ![cur] = attempts + 1] /\ side' = side
    /\ point' = "work"
    /\ UNCHANGED <<impl, edits, manifest, archived, case_results, lost, products,
                   locals>>

(* The case ends with its two patches and its evidence in order; the       *)
(* result is stamped with the implementation of that moment.               *)
WorkerSucceeds ==
    /\ point = "work"
    /\ lost' = lost \ {cur}
    /\ case_results' = [case_results EXCEPT ![cur] = [run |-> attempts, impl |-> impl]]
    /\ point' = "wrote"
    /\ UNCHANGED <<impl, edits, manifest, attempts, at, side, archived, products,
                   locals>>

(* A blocked or failing case, an empty patch, inconsistent artifacts, no   *)
(* key (before there is a directory): the worker ends with an error.  It   *)
(* may also die when its result is already written.                        *)
WorkerFails ==
    /\ point \in {"start", "work", "wrote"}
    /\ point' = "failed"
    /\ UNCHANGED <<impl, edits, files, products, locals>>

WorkerReturns ==
    /\ point = "wrote"
    /\ point' = "returned"
    /\ UNCHANGED <<impl, edits, files, products, locals>>

(* The end of an attempt: a changed source tree ends the batch; a result   *)
(* that is valid now is the case's.                                        *)
Judge ==
    /\ point \in {"returned", "failed"}
    /\ LET good == point = "returned" /\ IsValid(cur)
       IN \/ changed /\ Exit
          \/ ~changed /\ good /\ point' = "case" /\ UNCHANGED locals
          \/ ~changed /\ ~good /\ point' = "rejected" /\ UNCHANGED locals
    /\ UNCHANGED <<impl, edits, files, products>>

(* Mutant: The retry counter stays.                                        *)
RejectForever ==
    /\ point = "rejected"
    /\ point' = "archive_run"
    /\ UNCHANGED <<impl, edits, files, products, locals>>

(* Before the result is deleted its validity is asked for a second time;   *)
(* it may be valid by now.  The last retry is a failure.                   *)
Reject ==
    /\ point = "rejected"
    /\ \/ IsValid(cur) /\ UNCHANGED <<case_results, lost>>
       \/ ~IsValid(cur) /\ Discard(cur)
    /\ \/ /\ retry < CaseRetries
          /\ point' = "archive_run" /\ retry' = retry + 1 /\ UNCHANGED failures
       \/ /\ retry = CaseRetries
          /\ point' = "case" /\ failures' = failures \cup {cur} /\ UNCHANGED retry
    /\ UNCHANGED <<impl, edits, manifest, attempts, at, side, archived, products, todo, cur,
                   changed, collecting>>

(* After the loop, every valid result of the experiment is collected, also *)
(* those of earlier invocations, row by row: each row against the code as  *)
(* it is when the row is looked at.                                        *)
StartCollecting ==
    /\ point = "case" /\ todo = {}
    /\ point' = "collect" /\ todo' = Cases
    /\ UNCHANGED <<impl, edits, files, products, cur, retry, failures, changed, collecting>>

CollectRow(c) ==
    /\ point = "collect" /\ c \in todo
    /\ todo' = todo \ {c}
    /\ during' = during \cup {impl}
    /\ gathered' = IF IsValid(c)
                 THEN [k \in DOMAIN gathered \cup {c} |->
                         IF k = c THEN case_results[c] ELSE gathered[k]]
                 ELSE gathered
    /\ UNCHANGED <<impl, edits, files, products, point, cur, retry, failures, changed, stamp>>

(* The summary is written; a failure or a gap ends without a seal.         *)
Summarise ==
    /\ point = "collect" /\ todo = {}
    /\ summary' = [c \in DOMAIN gathered |-> gathered[c].run]
    /\ \/ failures = {} /\ DOMAIN gathered = Cases /\ point' = "seal_p0" /\ UNCHANGED locals
       \/ (failures # {} \/ DOMAIN gathered # Cases) /\ Exit
    /\ UNCHANGED <<impl, edits, files, predicted, sealed, evaluated>>

(* _seal_predictions, for the initial and then for the final patches.     *)
SealPredictions(stage) ==
    /\ predicted' = [predicted EXCEPT ![stage] = summary]
    /\ UNCHANGED <<impl, edits, files, sealed, summary, evaluated, todo, cur, retry, failures,
                   changed, gathered, during>>

(* The seal names the code of this moment, not that of the results.        *)
SealP0 ==
    /\ point = "seal_p0" /\ point' = "seal_final"
    /\ stamp' = impl
    /\ SealPredictions("p0")

SealFinal ==
    /\ point = "seal_final" /\ point' = "seal_manifest"
    /\ SealPredictions("final")
    /\ UNCHANGED stamp

SealManifest ==
    /\ point = "seal_manifest"
    /\ sealed' = [runs |-> summary, impls |-> {gathered[c].impl : c \in Cases},
                  impl |-> stamp, during |-> during]
    /\ Exit
    /\ UNCHANGED <<impl, edits, files, predicted, summary, evaluated>>

-----------------------------------------------------------------------------
(* harness and report                                                      *)

Harness ==
    /\ point = "idle"
    /\ DOMAIN sealed.runs = Cases
    /\ point' = "stage_p0"
    /\ UNCHANGED <<impl, edits, files, products, locals>>

(* _run_harness_stage: predictions other than the sealed ones are refused. *)
(* The summary is written after both stages, so a failure leaves the old.  *)
StageFails ==
    /\ point \in {"stage_p0", "stage_final"}
    /\ Exit
    /\ UNCHANGED <<impl, edits, files, products>>

StageP0 ==
    /\ point = "stage_p0"
    /\ predicted["p0"] = sealed.runs
    /\ point' = "stage_final"
    /\ UNCHANGED <<impl, edits, files, products, locals>>

StageFinal ==
    /\ point = "stage_final"
    /\ predicted["final"] = sealed.runs
    /\ evaluated' = predicted
    /\ Exit
    /\ UNCHANGED <<impl, edits, files, predicted, sealed, summary>>

-----------------------------------------------------------------------------
(* What happens around it                                                  *)

Kill ==
    /\ point # "idle"
    /\ Exit
    /\ UNCHANGED <<impl, edits, files, products>>

(* The code is edited at any time, and may be put back: the hash is one of *)
(* contents, which returns with them.                                      *)
EditImplementation ==
    /\ edits < MaxEdits
    /\ edits' = edits + 1
    /\ \E version \in Versions \ {impl} :
         /\ impl' = version
         /\ during' = IF during = {} THEN {} ELSE during \cup {version}
    /\ UNCHANGED <<files, products, point, todo, cur, retry, failures, changed,
                   gathered, stamp>>

TreeChanges ==
    /\ point \in {"work", "wrote"}
    /\ changed' = TRUE
    /\ UNCHANGED <<impl, edits, files, products, point, todo, cur, retry, failures, collecting>>

(* A result is taken away to have the case generated again, or the patch   *)
(* files of a run are damaged.                                             *)
Invalidate(c) ==
    /\ point = "idle" /\ IsValid(c)
    /\ \/ Discard(c)
       \/ lost' = lost \cup {c} /\ UNCHANGED case_results
    /\ UNCHANGED <<impl, edits, manifest, attempts, at, side, archived, products, point, locals>>

Coordinator ==
    \/ \E c \in Cases : TakeCase(c)
    \/ ArchiveRun \/ ArchiveResult \/ Judge \/ Reject
    \/ StartCollecting \/ (\E c \in Cases : CollectRow(c)) \/ Summarise
    \/ SealP0 \/ SealFinal \/ SealManifest

Worker == WorkerStarts \/ WorkerSucceeds \/ WorkerFails \/ WorkerReturns

Evaluation == StageFails \/ StageP0 \/ StageFinal

Environment ==
    \/ Kill \/ EditImplementation \/ TreeChanges
    \/ \E c \in Cases : Invalidate(c)

BatchNext ==
    \/ \E selected \in SUBSET Cases : Generate(selected)
    \/ Coordinator \/ Worker
    \/ Evaluation \/ Harness
    \/ Environment

BatchSpec == BatchInit /\ [][BatchNext]_batch_vars

(* The coordinator goes on when its worker or its harness returns, which   *)
(* is the case budget's affair; nothing obliges anyone to start a command. *)
FairBatchSpec ==
    /\ BatchSpec
    /\ WF_batch_vars(Coordinator) /\ WF_batch_vars(Worker) /\ WF_batch_vars(Evaluation)
-----------------------------------------------------------------------------
(* Properties                                                              *)

BatchOK ==
    /\ impl \in Versions /\ edits \in 0..MaxEdits /\ changed \in BOOLEAN
    /\ manifest \in 0..MaxVersions /\ attempts \in 0..MaxAttempts
    /\ at \in [Cases -> 0..MaxAttempts]
    /\ side \subseteq Attempts /\ archived \subseteq Attempts /\ lost \subseteq Cases
    /\ case_results \in [Cases -> {NoCaseResult} \cup CaseResults]
    /\ todo \subseteq Cases /\ failures \subseteq Cases /\ cur \in Cases \cup {None}
    /\ retry \in 1..CaseRetries /\ point \in Points
    /\ predicted \in [Stages -> Batches] /\ evaluated \in [Stages -> Batches]
    /\ summary \in Batches
    /\ gathered \in Gatherings
    /\ stamp \in 0..MaxVersions /\ during \subseteq Versions
    /\ sealed \in [runs : Batches, impls : SUBSET Versions, impl : 0..MaxVersions,
                   during : SUBSET (0..MaxVersions)]

(* Whatever a kill, a failed attempt or a directory that cannot be moved   *)
(* has left behind, the coordinator starts a worker only when nothing is   *)
(* left at its paths, so that it never refuses with "refusing to overwrite *)
(* generation artifact".                                                   *)
AttemptStartsClean ==
    point = "start" => case_results[cur] = NoCaseResult /\ at[cur] = 0

(* No attempt is overwritten or lost: every run directory is in its place, *)
(* under its suffixed name, or in the archive, however the archiving was   *)
(* interrupted.                                                            *)
EveryAttemptIsKept ==
    \A n \in 1..attempts : n \in side \cup archived \/ \E c \in Cases : at[c] = n

(* The evaluation compares initial and final patches of the same attempts, *)
(* also when a later sealing was interrupted between its files.            *)
StagesAreComparable == evaluated["p0"] = evaluated["final"]

(* Whatever happens to the code while the rows are checked one by one and  *)
(* the files of the seal are written, a seal holds no result of a code     *)
(* that was not there meanwhile, and names none itself.  If the code stood *)
(* still, all its results are of the code it names; if it was edited, they *)
(* may be of several, and the seal may name yet another (generate,         *)
(* _generation_result_valid).                                              *)
SealIsOfItsTime == sealed.impls \cup {sealed.impl} \subseteq sealed.during

(* A command that was started ends: the retries of a case are bounded.     *)
BatchEnds == point # "idle" ~> point = "idle"

(* Attempts do not get in each other's way: each starts on a clean path    *)
(* and stays on record.                                                    *)
AttemptsAreSeparate == BatchOK /\ AttemptStartsClean /\ EveryAttemptIsKept

(* What is sealed and evaluated together belongs together: no code but of  *)
(* the time of the seal, and the same attempts in both stages.             *)
ResultsAreComparable == StagesAreComparable /\ SealIsOfItsTime
=============================================================================
