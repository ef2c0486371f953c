--------------------------- MODULE GenerationProofs ---------------------------
(***************************************************************************)
(* The generation of patches, of one and of a batch.  What a session of    *)
(* the generator promises, for all trees, checks and limits: validation    *)
(* speaks of the tree as it is, and what is handed to the controller was   *)
(* validated as it stands.  Then safety of the batch for any cases,        *)
(* retries, attempts and versions of the implementation: a worker starts   *)
(* on clean ground, no attempt is lost, the two stages of an evaluation    *)
(* compare the same attempts, and a seal holds and names no code but of    *)
(* its own time.                                                           *)
(***************************************************************************)
EXTENDS GeneratorSession, GenerationBatch, TLAPS

-----------------------------------------------------------------------------
(* The batch.                                                              *)

Busy == {"archive_run", "archive_result", "start", "work", "wrote", "returned", "failed",
         "rejected"}

\* A case is at hand while its attempts are prepared, run and judged.
CaseAtHand ==
  /\ point \in Busy => cur \in Cases
  /\ point = "work" => attempts \in Attempts

\* Between the two renames of the archive the run directory is gone.
RunIsMoved == point = "archive_result" => at[cur] = 0

\* What has been gathered is of code that was there since the first row, as is the
\* present code and, once it is taken, the stamp of the seal.
GatheredIsOfItsTime ==
  /\ \A c \in DOMAIN gathered : gathered[c].impl \in during
  /\ during # {} => impl \in during
  /\ point = "collect" /\ todo # Cases => during # {}
  /\ point \in {"seal_p0", "seal_final", "seal_manifest"} =>
       DOMAIN gathered = Cases /\ during # {}
  /\ point \in {"seal_final", "seal_manifest"} => stamp \in during

\* The second stage follows a first one that evaluated the sealed predictions.
FirstStageIsSealed == point = "stage_final" => predicted["p0"] = sealed.runs

BatchInv ==
  /\ BatchOK
  /\ CaseAtHand
  /\ RunIsMoved
  /\ AttemptStartsClean
  /\ EveryAttemptIsKept
  /\ GatheredIsOfItsTime
  /\ SealIsOfItsTime
  /\ FirstStageIsSealed
  /\ StagesAreComparable

\* The empty batch is a batch, and so are the runs of any set of results.
LEMMA BatchesAreFunctions ==
  /\ Nothing \in Batches
  /\ \A S \in SUBSET Cases : \A f \in [S -> Attempts] : f \in Batches
<1>1. \A S \in SUBSET Cases : \A f \in [S -> Attempts] : f \in Batches
  BY DEF Batches
<1>2. Nothing \in [{} -> Attempts]
  BY DEF Nothing
<1>. QED
  BY <1>1, <1>2

\* Nothing gathered is a gathering, and a valid result can be added to one.
LEMMA GatheringsAreFunctions ==
  /\ Nothing \in Gatherings
  /\ \A S \in SUBSET Cases : \A f \in [S -> CaseResults] : f \in Gatherings
  /\ \A f \in Gatherings : DOMAIN f \subseteq Cases /\ f \in [DOMAIN f -> CaseResults]
<1>1. \A S \in SUBSET Cases : \A f \in [S -> CaseResults] : f \in Gatherings
  BY DEF Gatherings
<1>2. Nothing \in [{} -> CaseResults]
  BY DEF Nothing
<1>3. \A f \in Gatherings : DOMAIN f \subseteq Cases /\ f \in [DOMAIN f -> CaseResults]
  BY DEF Gatherings
<1>. QED
  BY <1>1, <1>2, <1>3

LEMMA BatchInvInit == BatchInit => BatchInv
<1> SUFFICES ASSUME BatchInit PROVE BatchInv
  OBVIOUS
<1> USE BatchAssumption DEF BatchInit
<1>1. BatchOK
  <2>1. predicted \in [Stages -> Batches] /\ evaluated \in [Stages -> Batches]
    BY BatchesAreFunctions
  <2>2. /\ sealed \in [runs : Batches, impls : SUBSET Versions, impl : 0..MaxVersions,
                       during : SUBSET (0..MaxVersions)]
        /\ summary \in Batches
    <3>1. 0 \in 0..MaxVersions
      OBVIOUS
    <3>. QED
      BY <3>1, BatchesAreFunctions
  <2>3. point \in Points
    BY DEF Points
  <2>4. at \in [Cases -> 0..MaxAttempts]
    BY DEF Attempts
  <2>5. case_results \in [Cases -> {NoCaseResult} \cup CaseResults]
    OBVIOUS
  <2>6. retry \in 1..CaseRetries /\ impl \in Versions /\ manifest \in 0..MaxVersions
        /\ attempts \in 0..MaxAttempts /\ stamp \in 0..MaxVersions /\ edits \in 0..MaxEdits
    BY DEF Versions
  <2>7. /\ side \subseteq Attempts /\ archived \subseteq Attempts /\ lost \subseteq Cases
        /\ todo \subseteq Cases /\ failures \subseteq Cases /\ cur \in Cases \cup {None}
        /\ changed \in BOOLEAN /\ during \subseteq Versions
    OBVIOUS
  <2>8. gathered \in Gatherings
    BY GatheringsAreFunctions
  <2>. QED
    BY <2>1, <2>2, <2>3, <2>4, <2>5, <2>6, <2>7, <2>8 DEF BatchOK
<1>2. CaseAtHand /\ RunIsMoved /\ AttemptStartsClean /\ EveryAttemptIsKept
  BY DEF CaseAtHand, RunIsMoved, AttemptStartsClean, EveryAttemptIsKept, Busy
<1>3. GatheredIsOfItsTime /\ SealIsOfItsTime /\ FirstStageIsSealed /\ StagesAreComparable
  BY DEF Nothing, GatheredIsOfItsTime, SealIsOfItsTime, FirstStageIsSealed, StagesAreComparable, Stages
<1>. QED
  BY <1>1, <1>2, <1>3 DEF BatchInv

\* The locals of a process that ends.
LEMMA ExitTypes ==
  ASSUME Exit
  PROVE  /\ point' = "idle" /\ todo' \subseteq Cases /\ failures' \subseteq Cases
         /\ cur' \in Cases \cup {None} /\ retry' \in 1..CaseRetries /\ changed' \in BOOLEAN
         /\ gathered' \in Gatherings /\ stamp' \in 0..MaxVersions /\ during' \subseteq Versions
<1>1. retry' \in 1..CaseRetries
  BY BatchAssumption DEF Exit
<1>2. gathered' \in Gatherings /\ stamp' \in 0..MaxVersions
  BY BatchAssumption, GatheringsAreFunctions DEF Exit
<1>. QED
  BY <1>1, <1>2 DEF Exit

\* Every step keeps the types; a case is at hand where one is needed.
LEMMA BatchOKStep == BatchInv /\ [BatchNext]_batch_vars => (BatchOK /\ CaseAtHand)'
<1> SUFFICES ASSUME BatchInv, [BatchNext]_batch_vars PROVE (BatchOK /\ CaseAtHand)'
  OBVIOUS
<1> USE BatchAssumption DEF BatchInv, BatchOK, CaseAtHand, Busy, Points, batch_vars, files,
                            products, locals, collecting, Discard
<1>1. ASSUME NEW S \in SUBSET Cases, Generate(S)
      PROVE  (BatchOK /\ CaseAtHand)'
  BY <1>1 DEF Generate, Versions
<1>2. ASSUME NEW c \in Cases, TakeCase(c)
      PROVE  (BatchOK /\ CaseAtHand)'
  BY <1>2 DEF TakeCase
<1>3. CASE ArchiveRun
  <2>1. at[cur] # 0 => at[cur] \in Attempts
    <3>1. at[cur] \in 0..MaxAttempts
      BY <1>3 DEF ArchiveRun
    <3>. QED
      BY ONLY <3>1, BatchAssumption DEF Attempts
  <2>2. archived' \subseteq Attempts
    BY <1>3, <2>1 DEF ArchiveRun
  <2>3. at' \in [Cases -> 0..MaxAttempts] /\ lost' \subseteq Cases
    BY <1>3 DEF ArchiveRun
  <2>. QED
    BY <1>3, <2>2, <2>3 DEF ArchiveRun
<1>4. CASE ArchiveResult
  BY <1>4 DEF ArchiveResult
<1>5. CASE Judge
  <2>1. CASE changed /\ Exit
    BY <1>5, <2>1, ExitTypes DEF Judge
  <2>2. CASE point' \in {"case", "rejected"} /\ UNCHANGED locals
    <3>1. point' \in Points /\ (point' \in Busy => cur' \in Cases) /\ point' # "work"
      BY <1>5, <2>2 DEF Judge
    <3>2. UNCHANGED <<impl, edits, files, products>>
      BY <1>5 DEF Judge
    <3>. QED
      BY <2>2, <3>1, <3>2
  <2>. QED
    BY <1>5, <2>1, <2>2 DEF Judge
<1>51. CASE Reject
  <2>1. CASE point' = "archive_run" /\ retry < CaseRetries /\ retry' = retry + 1
    BY <1>51, <2>1 DEF Reject
  <2>2. CASE point' = "case" /\ failures' = failures \cup {cur}
    BY <1>51, <2>2 DEF Reject
  <2>. QED
    BY <1>51, <2>1, <2>2 DEF Reject
<1>61. CASE StartCollecting
  BY <1>61 DEF StartCollecting
<1>62. ASSUME NEW c \in Cases, CollectRow(c)
      PROVE  (BatchOK /\ CaseAtHand)'
  <2>1. gathered' \in Gatherings
    <3>1. CASE IsValid(c)
      <4> DEFINE S == DOMAIN gathered \cup {c}
      <4>1. case_results[c] \in CaseResults
        BY <3>1 DEF IsValid, CaseResults
      <4>2. /\ DOMAIN gathered \subseteq Cases
            /\ \A k \in DOMAIN gathered : gathered[k] \in CaseResults
        BY GatheringsAreFunctions
      <4>3. gathered' = [k \in S |-> IF k = c THEN case_results[c] ELSE gathered[k]]
        BY <1>62, <3>1 DEF CollectRow
      <4>4. gathered' \in [S -> CaseResults]
        BY <4>1, <4>2, <4>3
      <4>5. S \subseteq Cases
        BY <4>2
      <4>. QED
        BY <4>4, <4>5, GatheringsAreFunctions
    <3>2. CASE ~IsValid(c)
      BY <1>62, <3>2 DEF CollectRow
    <3>. QED
      BY <3>1, <3>2
  <2>. QED
    BY <1>62, <2>1 DEF CollectRow
<1>6. CASE Summarise
  <2>1. summary' \in Batches
    <3> DEFINE S == DOMAIN gathered
    <3>1. S \subseteq Cases /\ \A c \in S : gathered[c].run \in Attempts
      BY GatheringsAreFunctions DEF CaseResults
    <3>2. [c \in S |-> gathered[c].run] \in [S -> Attempts]
      BY <3>1
    <3>3. summary' = [c \in S |-> gathered[c].run]
      BY <1>6 DEF Summarise
    <3>. QED
      BY <3>1, <3>2, <3>3, BatchesAreFunctions
  <2>2. CASE Exit
    BY <1>6, <2>1, <2>2, ExitTypes DEF Summarise
  <2>3. CASE point' = "seal_p0" /\ UNCHANGED locals
    BY <1>6, <2>1, <2>3 DEF Summarise
  <2>. QED
    BY <1>6, <2>2, <2>3 DEF Summarise
<1>7. CASE SealP0
  <2>1. stamp' \in 0..MaxVersions
    BY <1>7 DEF SealP0, Versions
  <2>2. predicted' \in [Stages -> Batches]
    BY <1>7 DEF SealP0, SealPredictions
  <2>. QED
    BY <1>7, <2>1, <2>2 DEF SealP0, SealPredictions
<1>8. CASE SealFinal
  BY <1>8 DEF SealFinal, SealPredictions
<1>9. CASE SealManifest
  <2>1. {gathered[c].impl : c \in Cases} \subseteq Versions
    <3>1. DOMAIN gathered = Cases
      BY <1>9 DEF SealManifest, GatheredIsOfItsTime
    <3>. QED
      BY <3>1, GatheringsAreFunctions DEF CaseResults
  <2>2. sealed' \in [runs : Batches, impls : SUBSET Versions, impl : 0..MaxVersions,
                     during : SUBSET (0..MaxVersions)]
    BY <1>9, <2>1 DEF SealManifest, Versions
  <2>. QED
    BY <1>9, <2>2, ExitTypes DEF SealManifest
<1>10. CASE WorkerStarts
  <2>1. attempts + 1 \in Attempts
    BY <1>10 DEF WorkerStarts, Attempts
  <2>2. side' \subseteq Attempts
    BY <1>10, <2>1 DEF WorkerStarts
  <2>3. at' \in [Cases -> 0..MaxAttempts]
    <3>1. attempts + 1 \in 0..MaxAttempts
      BY ONLY <2>1, BatchAssumption DEF Attempts
    <3>. QED
      BY <1>10, <3>1 DEF WorkerStarts
  <2>4. attempts' \in 0..MaxAttempts
    BY <1>10 DEF WorkerStarts
  <2>. QED
    BY <1>10, <2>1, <2>2, <2>3, <2>4 DEF WorkerStarts
<1>11. CASE WorkerSucceeds
  <2>1. [run |-> attempts, impl |-> impl] \in CaseResults
    BY <1>11 DEF WorkerSucceeds, CaseResults
  <2>2. case_results' \in [Cases -> {NoCaseResult} \cup CaseResults]
    BY <1>11, <2>1 DEF WorkerSucceeds
  <2>. QED
    BY <1>11, <2>2 DEF WorkerSucceeds
<1>12. CASE WorkerFails
  BY <1>12 DEF WorkerFails
<1>13. CASE WorkerReturns
  BY <1>13 DEF WorkerReturns
<1>14. CASE Harness
  BY <1>14 DEF Harness
<1>15. CASE StageFails
  BY <1>15, ExitTypes DEF StageFails
<1>16. CASE StageP0
  BY <1>16 DEF StageP0
<1>17. CASE StageFinal
  <2>1. evaluated' \in [Stages -> Batches]
    BY <1>17 DEF StageFinal
  <2>. QED
    BY <1>17, <2>1, ExitTypes DEF StageFinal
<1>18. CASE Kill
  BY <1>18, ExitTypes DEF Kill
<1>19. CASE EditImplementation
  BY <1>19 DEF EditImplementation
<1>20. CASE TreeChanges
  BY <1>20 DEF TreeChanges
<1>21. ASSUME NEW c \in Cases, Invalidate(c)
      PROVE  (BatchOK /\ CaseAtHand)'
  BY <1>21 DEF Invalidate
<1>22. CASE UNCHANGED batch_vars
  BY <1>22 DEF batch_vars
<1>. QED
  BY <1>1, <1>2, <1>3, <1>4, <1>5, <1>51, <1>6, <1>61, <1>62, <1>7, <1>8, <1>9, <1>10, <1>11,
     <1>12, <1>13, <1>14, <1>15, <1>16, <1>17, <1>18, <1>19, <1>20, <1>21, <1>22
  DEF BatchNext, Coordinator, Worker, Evaluation, Environment

\* The ground on which a worker starts, and the attempts that are kept.
LEMMA GroundStep ==
  BatchInv /\ [BatchNext]_batch_vars => (RunIsMoved /\ AttemptStartsClean /\ EveryAttemptIsKept)'
<1> SUFFICES ASSUME BatchInv, [BatchNext]_batch_vars
             PROVE (RunIsMoved /\ AttemptStartsClean /\ EveryAttemptIsKept)'
  OBVIOUS
<1> USE BatchAssumption DEF BatchInv, BatchOK, CaseAtHand, Busy, RunIsMoved, AttemptStartsClean,
                            EveryAttemptIsKept, batch_vars, files, products, locals, collecting,
                            Discard, RunExists
<1>1. ASSUME NEW S \in SUBSET Cases, Generate(S)
      PROVE  (RunIsMoved /\ AttemptStartsClean /\ EveryAttemptIsKept)'
  BY <1>1 DEF Generate
<1>2. ASSUME NEW c \in Cases, TakeCase(c)
      PROVE  (RunIsMoved /\ AttemptStartsClean /\ EveryAttemptIsKept)'
  BY <1>2 DEF TakeCase
<1>3. CASE ArchiveRun
  BY <1>3 DEF ArchiveRun
<1>4. CASE ArchiveResult
  BY <1>4 DEF ArchiveResult
<1>5. CASE Judge
  <2>1. CASE Exit
    BY <1>5, <2>1 DEF Judge, Exit
  <2>2. CASE point' \in {"case", "rejected"} /\ UNCHANGED locals
    BY <1>5, <2>2 DEF Judge
  <2>. QED
    BY <1>5, <2>1, <2>2 DEF Judge
<1>51. CASE Reject
  BY <1>51 DEF Reject
<1>61. CASE StartCollecting
  BY <1>61 DEF StartCollecting
<1>62. ASSUME NEW c \in Cases, CollectRow(c)
      PROVE  (RunIsMoved /\ AttemptStartsClean /\ EveryAttemptIsKept)'
  BY <1>62 DEF CollectRow
<1>6. CASE Summarise
  <2>1. CASE Exit
    BY <1>6, <2>1 DEF Summarise, Exit
  <2>2. CASE point' = "seal_p0" /\ UNCHANGED locals
    BY <1>6, <2>2 DEF Summarise
  <2>. QED
    BY <1>6, <2>1, <2>2 DEF Summarise
<1>7. CASE SealP0
  BY <1>7 DEF SealP0, SealPredictions
<1>8. CASE SealFinal
  BY <1>8 DEF SealFinal, SealPredictions
<1>9. CASE SealManifest
  BY <1>9 DEF SealManifest, Exit
<1>10. CASE WorkerStarts
  BY <1>10 DEF WorkerStarts
<1>11. CASE WorkerSucceeds
  BY <1>11 DEF WorkerSucceeds
<1>12. CASE WorkerFails
  BY <1>12 DEF WorkerFails
<1>13. CASE WorkerReturns
  BY <1>13 DEF WorkerReturns
<1>14. CASE Harness
  BY <1>14 DEF Harness
<1>15. CASE StageFails
  BY <1>15 DEF StageFails, Exit
<1>16. CASE StageP0
  BY <1>16 DEF StageP0
<1>17. CASE StageFinal
  BY <1>17 DEF StageFinal, Exit
<1>18. CASE Kill
  BY <1>18 DEF Kill, Exit
<1>19. CASE EditImplementation
  BY <1>19 DEF EditImplementation
<1>20. CASE TreeChanges
  BY <1>20 DEF TreeChanges
<1>21. ASSUME NEW c \in Cases, Invalidate(c)
      PROVE  (RunIsMoved /\ AttemptStartsClean /\ EveryAttemptIsKept)'
  BY <1>21 DEF Invalidate
<1>22. CASE UNCHANGED batch_vars
  BY <1>22 DEF batch_vars
<1>. QED
  BY <1>1, <1>2, <1>3, <1>4, <1>5, <1>51, <1>6, <1>61, <1>62, <1>7, <1>8, <1>9, <1>10, <1>11,
     <1>12, <1>13, <1>14, <1>15, <1>16, <1>17, <1>18, <1>19, <1>20, <1>21, <1>22
  DEF BatchNext, Coordinator, Worker, Evaluation, Environment

\* What is collected, sealed and evaluated.
LEMMA SealStep ==
  BatchInv /\ [BatchNext]_batch_vars
    => (GatheredIsOfItsTime /\ SealIsOfItsTime /\ FirstStageIsSealed /\ StagesAreComparable)'
<1> SUFFICES ASSUME BatchInv, [BatchNext]_batch_vars
             PROVE (GatheredIsOfItsTime /\ SealIsOfItsTime /\ FirstStageIsSealed
                      /\ StagesAreComparable)'
  OBVIOUS
<1> USE BatchAssumption DEF BatchInv, BatchOK, Busy, GatheredIsOfItsTime, SealIsOfItsTime,
                            FirstStageIsSealed, StagesAreComparable, batch_vars, files, products,
                            locals, collecting, Discard, IsValid, Stages
<1>1. ASSUME NEW S \in SUBSET Cases, Generate(S)
      PROVE  (GatheredIsOfItsTime /\ SealIsOfItsTime /\ FirstStageIsSealed /\ StagesAreComparable)'
  BY <1>1 DEF Generate
<1>2. ASSUME NEW c \in Cases, TakeCase(c)
      PROVE  (GatheredIsOfItsTime /\ SealIsOfItsTime /\ FirstStageIsSealed /\ StagesAreComparable)'
  BY <1>2 DEF TakeCase
<1>3. CASE ArchiveRun
  BY <1>3 DEF ArchiveRun
<1>4. CASE ArchiveResult
  BY <1>4 DEF ArchiveResult
<1>5. CASE Judge
  <2>1. CASE Exit
    BY <1>5, <2>1 DEF Judge, Exit, Nothing
  <2>2. CASE point' \in {"case", "rejected"} /\ UNCHANGED locals
    BY <1>5, <2>2 DEF Judge
  <2>. QED
    BY <1>5, <2>1, <2>2 DEF Judge
<1>51. CASE Reject
  BY <1>51 DEF Reject
<1>61. CASE StartCollecting
  BY <1>61 DEF StartCollecting
<1>62. ASSUME NEW c \in Cases, CollectRow(c)
      PROVE  (GatheredIsOfItsTime /\ SealIsOfItsTime /\ FirstStageIsSealed /\ StagesAreComparable)'
  BY <1>62 DEF CollectRow
<1>6. CASE Summarise
  <2>1. CASE Exit
    BY <1>6, <2>1 DEF Summarise, Exit, Nothing
  <2>2. CASE DOMAIN gathered = Cases /\ point' = "seal_p0" /\ UNCHANGED locals
    <3>1. during # {}
      BY <1>6 DEF Summarise
    <3>. QED
      BY <1>6, <2>2, <3>1 DEF Summarise
  <2>. QED
    BY <1>6, <2>1, <2>2 DEF Summarise
<1>7. CASE SealP0
  BY <1>7 DEF SealP0, SealPredictions
<1>8. CASE SealFinal
  BY <1>8 DEF SealFinal, SealPredictions
<1>9. CASE SealManifest
  BY <1>9 DEF SealManifest, Exit, Nothing
<1>10. CASE WorkerStarts
  BY <1>10 DEF WorkerStarts
<1>11. CASE WorkerSucceeds
  BY <1>11 DEF WorkerSucceeds
<1>12. CASE WorkerFails
  BY <1>12 DEF WorkerFails
<1>13. CASE WorkerReturns
  BY <1>13 DEF WorkerReturns
<1>14. CASE Harness
  BY <1>14 DEF Harness
<1>15. CASE StageFails
  BY <1>15 DEF StageFails, Exit, Nothing
<1>16. CASE StageP0
  BY <1>16 DEF StageP0
<1>17. CASE StageFinal
  BY <1>17 DEF StageFinal, Exit, Nothing
<1>18. CASE Kill
  BY <1>18 DEF Kill, Exit, Nothing
<1>19. CASE EditImplementation
  BY <1>19 DEF EditImplementation
<1>20. CASE TreeChanges
  BY <1>20 DEF TreeChanges
<1>21. ASSUME NEW c \in Cases, Invalidate(c)
      PROVE  (GatheredIsOfItsTime /\ SealIsOfItsTime /\ FirstStageIsSealed /\ StagesAreComparable)'
  BY <1>21 DEF Invalidate
<1>22. CASE UNCHANGED batch_vars
  BY <1>22 DEF batch_vars
<1>. QED
  BY <1>1, <1>2, <1>3, <1>4, <1>5, <1>51, <1>6, <1>61, <1>62, <1>7, <1>8, <1>9, <1>10, <1>11,
     <1>12, <1>13, <1>14, <1>15, <1>16, <1>17, <1>18, <1>19, <1>20, <1>21, <1>22
  DEF BatchNext, Coordinator, Worker, Evaluation, Environment

LEMMA BatchInductive == BatchSpec => []BatchInv
<1>1. BatchInv /\ [BatchNext]_batch_vars => BatchInv'
  BY BatchOKStep, GroundStep, SealStep DEF BatchInv
<1>. QED
  BY <1>1, BatchInvInit, PTL DEF BatchSpec

\* The batch keeps its shape, every counter its bound.
THEOREM TypeCorrect == BatchSpec => []BatchOK
<1>1. BatchInv => BatchOK
  BY DEF BatchInv
<1>. QED
  BY <1>1, BatchInductive, PTL

\* No worker finds something left at its paths, after any kill.
THEOREM WorkersStartClean == BatchSpec => []AttemptStartsClean
<1>1. BatchInv => AttemptStartsClean
  BY DEF BatchInv
<1>. QED
  BY <1>1, BatchInductive, PTL

\* No attempt is overwritten or lost.
THEOREM AttemptsAreKept == BatchSpec => []EveryAttemptIsKept
<1>1. BatchInv => EveryAttemptIsKept
  BY DEF BatchInv
<1>. QED
  BY <1>1, BatchInductive, PTL

\* The two stages of an evaluation are of the same attempts.
THEOREM EvaluationsCompare == BatchSpec => []StagesAreComparable
<1>1. BatchInv => StagesAreComparable
  BY DEF BatchInv
<1>. QED
  BY <1>1, BatchInductive, PTL

\* A seal holds no result of, and names no code that was not there while it was made.
THEOREM SealsAreOfTheirTime == BatchSpec => []SealIsOfItsTime
<1>1. BatchInv => SealIsOfItsTime
  BY DEF BatchInv
<1>. QED
  BY <1>1, BatchInductive, PTL

\* No attempt of a case starts in the remains of another one, and no attempt is
\* lost.
THEOREM AttemptsStaySeparate == BatchSpec => []AttemptsAreSeparate
BY TypeCorrect, WorkersStartClean, AttemptsAreKept, PTL DEF AttemptsAreSeparate

\* Whatever is edited while the rows are checked and the seal is written, what is
\* sealed is of the code of that time, as is the hash the seal names; and both stages
\* of an evaluation are of the same attempts.
THEOREM ResultsStayComparable == BatchSpec => []ResultsAreComparable
BY EvaluationsCompare, SealsAreOfTheirTime, PTL DEF ResultsAreComparable

-----------------------------------------------------------------------------
(* A session.                                                              *)

\* A session that goes on has not used up its repetitions.
RepetitionsAreLeft ==
  pc # "done" => duplicates < DuplicateLimit /\ no_ops < NoOpLimit

\* finish_revision is only offered for the tree the model is asked about:
\* nothing touches the tree between the offer and the answer.
OfferIsCurrent == pc = "model" /\ "finish_revision" \in offered => FinishAllowed

\* A finished session is on its way out, with an edit that has no check left
\* to run; prose is finished only when there is no check at all.
FinishIsEarned ==
  finished =>
    /\ pc \in {"drain", "done"} /\ Committable
    /\ required = {} \/ (Ready /\ tree \notin rejected)

\* The result is set once, from the tree as it is.
ResultIsEarned ==
  /\ pc # "done" => result = NoResult
  /\ result.edited => result.tree = tree /\ (finished \/ Retained)

\* The inductive invariant of a session.
IInv ==
  /\ TypeOK /\ ResultsAreOfThisTree
  /\ RepetitionsAreLeft /\ OfferIsCurrent /\ FinishIsEarned /\ ResultIsEarned
  /\ LastEditIsKept

USE SessionBounds

-----------------------------------------------------------------------------
(* How the steps touch the tree and its results.                           *)

\* Running a check on the tree as it is keeps every result of that tree.
LEMMA ExecuteKeepsResults ==
  ASSUME TypeOK, ResultsAreOfThisTree, NEW c \in Checks, Execute(c), UNCHANGED tree
  PROVE  /\ results' \in [Checks -> [status : Statuses \cup {"NOT_RUN"}, tree : Trees]]
         /\ ResultsAreOfThisTree'
BY DEF TypeOK, ResultsAreOfThisTree, Execute, Statuses

\* An edit starts without results.
LEMMA EditForgetsResults ==
  ASSUME TypeOK, NEW t \in Trees, Edit(t)
  PROVE  /\ results' \in [Checks -> [status : Statuses \cup {"NOT_RUN"}, tree : Trees]]
         /\ tree' \in Trees
         /\ ResultsAreOfThisTree'
BY DEF TypeOK, ResultsAreOfThisTree, Edit, NotRun

\* Counting a call stays within the limit.
LEMMA RepeatCounts ==
  ASSUME TypeOK, NEW call, Repeat(call)
  PROVE  repeated'.times \in 0..RepeatLimit
BY DEF TypeOK, Repeat

\* A recovery raises the turn limit to one of the two configured ones.
LEMMA RecoverKeepsLimits ==
  ASSUME TypeOK, NEW extended, Recover(extended)
  PROVE  turn_limit' \in {MaxTurns, RecoveryTurns} /\ turn' \in 0..turn_limit'
BY DEF TypeOK, Recover

-----------------------------------------------------------------------------
\* A session starts with it.
LEMMA InitIInv == Init => IInv
<1> SUFFICES ASSUME Init PROVE IInv
  OBVIOUS
<1>1. TypeOK
  <2>1. required \subseteq Checks
    BY DEF Init, ChecksOf
  <2>2. initial \in BOOLEAN /\ {parent, tree} \subseteq Trees
    BY DEF Init
  <2>3. results \in [Checks -> [status : Statuses \cup {"NOT_RUN"}, tree : Trees]]
    BY DEF Init, NotRun
  <2>4. rejected_patches \subseteq Edits
    BY DEF Init
  <2>5. /\ turn \in 0..turn_limit /\ turn_limit \in {MaxTurns, RecoveryTurns}
        /\ duplicates \in 0..DuplicateLimit /\ no_ops \in 0..NoOpLimit
        /\ repeated.times \in 0..RepeatLimit
    BY DEF Init
  <2> QED BY <2>1, <2>2, <2>3, <2>4, <2>5 DEF Init, TypeOK
<1>2. ResultsAreOfThisTree
  BY DEF Init, ResultsAreOfThisTree, NotRun
<1>3. RepetitionsAreLeft /\ OfferIsCurrent /\ FinishIsEarned
  BY DEF Init, RepetitionsAreLeft, OfferIsCurrent, FinishIsEarned
<1>4. ResultIsEarned /\ LastEditIsKept
  BY DEF Init, ResultIsEarned, LastEditIsKept, NoResult
<1> QED BY <1>1, <1>2, <1>3, <1>4 DEF IInv

-----------------------------------------------------------------------------
(* What a step does besides.                                               *)

\* What is said of the tree only depends on the tree and its results.
LEMMA SameTree ==
  ASSUME UNCHANGED <<inputs, tree, results>>
  PROVE  /\ Committable' = Committable /\ Pending' = Pending /\ Ready' = Ready
         /\ FinishAllowed' = FinishAllowed /\ Retained' = Retained
         /\ ResultsAreOfThisTree' = ResultsAreOfThisTree
<1>1. Committable' = Committable
  BY DEF Committable, inputs
<1>2. Pending' = Pending
  BY DEF Pending, inputs
<1>3. \A set : WithStatus(set)' = WithStatus(set)
  BY DEF WithStatus, inputs
<1>4. Ready' = Ready
  BY <1>2, <1>3 DEF Ready
<1>5. FinishAllowed' = FinishAllowed
  BY <1>1, <1>4 DEF FinishAllowed, inputs
<1>6. Retained' = Retained
  BY <1>1, <1>2, <1>3 DEF Retained, inputs
<1>7. ResultsAreOfThisTree' = ResultsAreOfThisTree
  BY DEF ResultsAreOfThisTree
<1> QED BY <1>1, <1>2, <1>4, <1>5, <1>6, <1>7

\* A session that goes on has no result yet.
LEMMA GoesOn ==
  ASSUME IInv, pc # "done", pc' # "done", UNCHANGED result
  PROVE  ResultIsEarned' /\ LastEditIsKept'
BY DEF IInv, ResultIsEarned, LastEditIsKept, NoResult

\* A session that ends with an error hands nothing over.
LEMMA EndsEmptyHanded ==
  ASSUME NEW error, error \notin {"NONE", "TURN_LIMIT"}, Raise(error) \/ Return(error)
  PROVE  /\ pc' = "done"
         /\ RepetitionsAreLeft' /\ OfferIsCurrent' /\ ResultIsEarned' /\ LastEditIsKept'
<1>1. pc' = "done"
  BY DEF Raise, Return
<1>2. result'.error = error /\ result'.edited = FALSE
  <2>1. CASE Raise(error)
    BY <2>1 DEF Raise
  <2>2. CASE Return(error)
    <3> DEFINE edited == error = "NONE" /\ tree # parent
    <3>1. edited = FALSE
      OBVIOUS
    <3>2. result'.error = error /\ result'.edited = edited
      BY <2>2 DEF Return
    <3> HIDE DEF edited
    <3> QED BY <3>1, <3>2
  <2> QED BY <2>1, <2>2
<1> QED BY <1>1, <1>2 DEF RepetitionsAreLeft, OfferIsCurrent, ResultIsEarned, LastEditIsKept


-----------------------------------------------------------------------------
(* Every step keeps the invariant.                                         *)

\* Every step of a session keeps it.
LEMMA StepIInv == IInv /\ [Next]_vars => IInv'
<1> SUFFICES ASSUME IInv, [Next]_vars PROVE IInv'
  OBVIOUS
<1> USE DEF inputs, limits, memory, clock
<1>0. TypeOK /\ ResultsAreOfThisTree /\ RepetitionsAreLeft /\ OfferIsCurrent /\ FinishIsEarned
  BY DEF IInv
\* While the model works, the session is not finished.
<1>m. pc \in {"loop", "model"} => ~finished
  BY <1>0 DEF FinishIsEarned
<1>1. ASSUME Tick PROVE IInv'
  <2>1. TypeOK'
    BY <1>1, <1>0 DEF TypeOK, Tick
  <2>2. pc # "done" /\ pc' # "done" /\ UNCHANGED result
    BY <1>1 DEF Tick
  <2>3. RepetitionsAreLeft' /\ OfferIsCurrent' /\ FinishIsEarned' /\ ResultsAreOfThisTree'
    BY <1>1, <1>0, <1>m, SameTree DEF Tick, RepetitionsAreLeft, OfferIsCurrent, FinishIsEarned
  <2> QED BY <2>1, <2>2, <2>3, GoesOn DEF IInv
<1>2. ASSUME NEW part \in {"model", "execution"}, Spend(part) PROVE IInv'
  <2>1. TypeOK'
    BY <1>2, <1>0 DEF TypeOK, Spend
  <2>2. pc # "done" /\ pc' # "done" /\ UNCHANGED result
    BY <1>2 DEF Spend
  <2>3. RepetitionsAreLeft' /\ OfferIsCurrent' /\ FinishIsEarned' /\ ResultsAreOfThisTree'
    BY <1>2, <1>0, <1>m, SameTree DEF Spend, RepetitionsAreLeft, OfferIsCurrent, FinishIsEarned
  <2> QED BY <2>1, <2>2, <2>3, GoesOn DEF IInv
<1>3. ASSUME BeginTurn PROVE IInv'
  <2>1. TypeOK'
    BY <1>3, <1>0 DEF TypeOK, BeginTurn, Running, Tools, Diagnostics
  <2>2. pc # "done" /\ pc' # "done" /\ UNCHANGED result
    BY <1>3 DEF BeginTurn, Running, Tools, Diagnostics
  <2>3. RepetitionsAreLeft' /\ OfferIsCurrent' /\ FinishIsEarned' /\ ResultsAreOfThisTree'
    BY <1>3, <1>0, <1>m, SameTree
       DEF BeginTurn, Running, Tools, Diagnostics, RepetitionsAreLeft, OfferIsCurrent, FinishIsEarned
  <2> QED BY <2>1, <2>2, <2>3, GoesOn DEF IInv
<1>4. ASSUME LeaveLoop PROVE IInv'
  <2>1. TypeOK'
    BY <1>4, <1>0 DEF TypeOK, LeaveLoop
  <2>2. pc # "done" /\ pc' # "done" /\ UNCHANGED result
    BY <1>4 DEF LeaveLoop
  <2>3. RepetitionsAreLeft' /\ OfferIsCurrent' /\ FinishIsEarned' /\ ResultsAreOfThisTree'
    BY <1>4, <1>0, <1>m, SameTree DEF LeaveLoop, RepetitionsAreLeft, OfferIsCurrent, FinishIsEarned
  <2> QED BY <2>1, <2>2, <2>3, GoesOn DEF IInv
<1>5. ASSUME Truncated PROVE IInv'
  <2>1. TypeOK'
    BY <1>5, <1>0, RecoverKeepsLimits DEF TypeOK, Truncated
  <2>2. pc # "done" /\ pc' # "done" /\ UNCHANGED result
    BY <1>5 DEF Truncated, Answers, Asked, Recover
  <2>3. RepetitionsAreLeft' /\ OfferIsCurrent' /\ FinishIsEarned' /\ ResultsAreOfThisTree'
    BY <1>5, <1>0, <1>m, SameTree
       DEF Truncated, Answers, Asked, Recover, RepetitionsAreLeft, OfferIsCurrent, FinishIsEarned
  <2> QED BY <2>1, <2>2, <2>3, GoesOn DEF IInv
<1>6. ASSUME Prose PROVE IInv'
  <2>1. TypeOK'
    BY <1>6, <1>0, RecoverKeepsLimits DEF TypeOK, Prose
  <2>2. pc # "done" /\ pc' # "done" /\ UNCHANGED result
    BY <1>6 DEF Prose, Answers, Asked, Recover
  <2>3. RepetitionsAreLeft' /\ OfferIsCurrent' /\ FinishIsEarned' /\ ResultsAreOfThisTree'
    BY <1>6, <1>0, <1>m, SameTree
       DEF Prose, Answers, Asked, Recover, RepetitionsAreLeft, OfferIsCurrent, FinishIsEarned
  <2> QED BY <2>1, <2>2, <2>3, GoesOn DEF IInv
<1>7. ASSUME NEW tool \in Tools, CallFails(tool) PROVE IInv'
  <2>1. TypeOK'
    BY <1>7, <1>0, RepeatCounts DEF TypeOK, CallFails
  <2>2. pc # "done" /\ pc' # "done" /\ UNCHANGED result
    BY <1>7 DEF CallFails, Answers, Asked
  <2>3. RepetitionsAreLeft' /\ OfferIsCurrent' /\ FinishIsEarned' /\ ResultsAreOfThisTree'
    BY <1>7, <1>0, <1>m, SameTree
       DEF CallFails, Answers, Asked, RepetitionsAreLeft, OfferIsCurrent, FinishIsEarned
  <2> QED BY <2>1, <2>2, <2>3, GoesOn DEF IInv
<1>8. ASSUME ReadFile PROVE IInv'
  <2>1. TypeOK'
    BY <1>8, <1>0, RepeatCounts DEF TypeOK, ReadFile
  <2>2. pc # "done" /\ pc' # "done" /\ UNCHANGED result
    BY <1>8 DEF ReadFile, Answers, Asked
  <2>3. RepetitionsAreLeft' /\ OfferIsCurrent' /\ FinishIsEarned' /\ ResultsAreOfThisTree'
    BY <1>8, <1>0, <1>m, SameTree
       DEF ReadFile, Answers, Asked, RepetitionsAreLeft, OfferIsCurrent, FinishIsEarned
  <2> QED BY <2>1, <2>2, <2>3, GoesOn DEF IInv
<1>9. ASSUME Search PROVE IInv'
  <2>1. TypeOK'
    BY <1>9, <1>0, RepeatCounts DEF TypeOK, Search
  <2>2. pc # "done" /\ pc' # "done" /\ UNCHANGED result
    BY <1>9 DEF Search, Answers, Asked
  <2>3. RepetitionsAreLeft' /\ OfferIsCurrent' /\ FinishIsEarned' /\ ResultsAreOfThisTree'
    BY <1>9, <1>0, <1>m, SameTree
       DEF Search, Answers, Asked, RepetitionsAreLeft, OfferIsCurrent, FinishIsEarned
  <2> QED BY <2>1, <2>2, <2>3, GoesOn DEF IInv
<1>10. ASSUME NEW c \in required, RunCheck(c) PROVE IInv'
  <2>1. c \in Checks /\ Execute(c) /\ UNCHANGED tree
    BY <1>10, <1>0 DEF TypeOK, RunCheck
  <2>2. TypeOK' /\ ResultsAreOfThisTree'
    BY <1>10, <1>0, <2>1, ExecuteKeepsResults, RepeatCounts DEF TypeOK, RunCheck
  <2>3. pc # "done" /\ pc' = "loop" /\ UNCHANGED <<result, finished, duplicates, no_ops>>
    BY <1>10 DEF RunCheck, Answers, Asked
  <2>4. RepetitionsAreLeft' /\ OfferIsCurrent' /\ FinishIsEarned'
    BY <1>10, <1>0, <1>m, <2>3 DEF RunCheck, Answers, Asked, RepetitionsAreLeft, OfferIsCurrent,
                                   FinishIsEarned
  <2> QED BY <2>2, <2>3, <2>4, GoesOn DEF IInv
<1>11. ASSUME ValidateEdit PROVE IInv'
  <2>0. ~finished
    BY <1>11, <1>0, <1>m DEF ValidateEdit, Running, FinishIsEarned, Ready, Pending
  <2> PICK c \in Pending : IF "execution" \in spent
                             THEN Raise("CaseBudgetExhausted") /\ UNCHANGED results
                           ELSE Execute(c) /\ UNCHANGED <<pc, result>>
    BY <1>11 DEF ValidateEdit
  <2>1. c \in Checks /\ UNCHANGED <<inputs, tree, finished, limits, memory, offered, clock>>
    BY <1>11, <1>0 DEF ValidateEdit, Pending, TypeOK
  <2>2. CASE "execution" \in spent
    <3>1. Raise("CaseBudgetExhausted") /\ UNCHANGED results
      BY <2>2
    <3>2. pc' = "done" /\ RepetitionsAreLeft' /\ OfferIsCurrent' /\ ResultIsEarned' /\ LastEditIsKept'
      BY <3>1, EndsEmptyHanded
    <3>3. TypeOK'
      BY <1>0, <2>1, <3>1, <3>2 DEF TypeOK
    <3>4. FinishIsEarned' /\ ResultsAreOfThisTree'
      BY <1>0, <2>0, <2>1, <3>1, SameTree DEF FinishIsEarned
    <3> QED BY <3>2, <3>3, <3>4 DEF IInv
  <2>3. CASE "execution" \notin spent
    <3>1. Execute(c) /\ UNCHANGED <<pc, result>>
      BY <2>3
    <3>2. TypeOK' /\ ResultsAreOfThisTree'
      BY <1>0, <2>1, <3>1, ExecuteKeepsResults DEF TypeOK
    <3>3. pc \in {"loop", "drain"} /\ pc' = pc
      BY <1>11, <3>1 DEF ValidateEdit, Running
    <3>4. RepetitionsAreLeft' /\ OfferIsCurrent' /\ FinishIsEarned'
      BY <1>0, <2>0, <2>1, <3>3 DEF RepetitionsAreLeft, OfferIsCurrent, FinishIsEarned
    <3> QED BY <3>1, <3>2, <3>3, <3>4, GoesOn DEF IInv
  <2> QED BY <2>2, <2>3
<1>12. ASSUME Drain PROVE IInv'
  <2>0. ~finished
    BY <1>12, <1>0, <1>m DEF Drain, MustDrain, FinishIsEarned, Ready, Pending
  <2> PICK c \in Pending : IF "execution" \in spent
                             THEN Raise("CaseBudgetExhausted") /\ UNCHANGED results
                           ELSE Execute(c) /\ UNCHANGED <<pc, result>>
    BY <1>12 DEF Drain
  <2>1. c \in Checks /\ UNCHANGED <<inputs, tree, finished, limits, memory, offered, clock>>
    BY <1>12, <1>0 DEF Drain, Pending, TypeOK
  <2>2. CASE "execution" \in spent
    <3>1. Raise("CaseBudgetExhausted") /\ UNCHANGED results
      BY <2>2
    <3>2. pc' = "done" /\ RepetitionsAreLeft' /\ OfferIsCurrent' /\ ResultIsEarned' /\ LastEditIsKept'
      BY <3>1, EndsEmptyHanded
    <3>3. TypeOK'
      BY <1>0, <2>1, <3>1, <3>2 DEF TypeOK
    <3>4. FinishIsEarned' /\ ResultsAreOfThisTree'
      BY <1>0, <2>0, <2>1, <3>1, SameTree DEF FinishIsEarned
    <3> QED BY <3>2, <3>3, <3>4 DEF IInv
  <2>3. CASE "execution" \notin spent
    <3>1. Execute(c) /\ UNCHANGED <<pc, result>>
      BY <2>3
    <3>2. TypeOK' /\ ResultsAreOfThisTree'
      BY <1>0, <2>1, <3>1, ExecuteKeepsResults DEF TypeOK
    <3>3. pc \in {"loop", "drain"} /\ pc' = pc
      BY <1>12, <3>1 DEF Drain, Running
    <3>4. RepetitionsAreLeft' /\ OfferIsCurrent' /\ FinishIsEarned'
      BY <1>0, <2>0, <2>1, <3>3 DEF RepetitionsAreLeft, OfferIsCurrent, FinishIsEarned
    <3> QED BY <3>1, <3>2, <3>3, <3>4, GoesOn DEF IInv
  <2> QED BY <2>2, <2>3
<1>13. ASSUME NEW e \in Edits, ApplyPatch(e) PROVE IInv'
  <2> PICK t \in Applied : Edit(t)
    BY <1>13 DEF ApplyPatch
  <2>1. TypeOK' /\ ResultsAreOfThisTree'
    BY <1>13, <1>0, EditForgetsResults, RepeatCounts DEF TypeOK, ApplyPatch, Applied
  <2>2. pc = "model" /\ pc' = "loop" /\ UNCHANGED <<result, finished, duplicates, no_ops>>
    BY <1>13 DEF ApplyPatch, Answers, Asked
  <2>3. RepetitionsAreLeft' /\ OfferIsCurrent' /\ FinishIsEarned'
    BY <1>0, <1>m, <2>2 DEF RepetitionsAreLeft, OfferIsCurrent, FinishIsEarned
  <2> QED BY <2>1, <2>2, <2>3, GoesOn DEF IInv
<1>14. ASSUME NEW e \in Edits, ProseDiff(e) PROVE IInv'
  <2>1. /\ pc = "model" /\ pc' \in {"loop", "drain"}
        /\ UNCHANGED <<inputs, limits, duplicates, no_ops, repeated, sources, offered, clock, result>>
        /\ rejected_patches' \in {rejected_patches, rejected_patches \cup {e}}
    BY <1>14 DEF ProseDiff, Answers, Asked
  <2>2. RepetitionsAreLeft' /\ OfferIsCurrent'
    BY <1>0, <2>1 DEF RepetitionsAreLeft, OfferIsCurrent
  <2>3. CASE UNCHANGED <<tree, results, finished>>
    <3>1. TypeOK'
      BY <1>0, <2>1, <2>3 DEF TypeOK
    <3>2. FinishIsEarned' /\ ResultsAreOfThisTree'
      BY <1>0, <1>m, <2>1, <2>3, SameTree DEF FinishIsEarned
    <3> QED BY <2>1, <2>2, <3>1, <3>2, GoesOn DEF IInv
  <2>4. ASSUME NEW t \in Applied, Edit(t),
               IF t # parent /\ t # Clean /\ required = {}
                 THEN finished' = TRUE /\ pc' = "drain"
               ELSE pc' = "loop" /\ UNCHANGED finished
        PROVE  IInv'
    <3>1. TypeOK' /\ ResultsAreOfThisTree'
      BY <1>0, <2>1, <2>4, EditForgetsResults DEF TypeOK, Applied
    <3>2. FinishIsEarned'
      BY <1>m, <2>1, <2>4 DEF FinishIsEarned, Edit, Committable
    <3> QED BY <2>1, <2>2, <3>1, <3>2, GoesOn DEF IInv
  <2> QED BY <1>14, <2>3, <2>4 DEF ProseDiff
<1>15. ASSUME RequestFails PROVE IInv'
  <2>1. pc = "model" /\ UNCHANGED <<inputs, tree, results, finished>>
    BY <1>15 DEF RequestFails, Answers, Asked
  <2>2. TypeOK'
    BY <1>15, <1>0, RecoverKeepsLimits DEF TypeOK, RequestFails, Return
  <2>3. FinishIsEarned' /\ ResultsAreOfThisTree'
    BY <1>0, <1>m, <2>1, SameTree DEF FinishIsEarned
  <2>4. RepetitionsAreLeft' /\ OfferIsCurrent' /\ ResultIsEarned' /\ LastEditIsKept'
    <3>1. CASE Return("TRANSPORT")
      BY <3>1, EndsEmptyHanded
    <3>2. CASE pc' = "loop" /\ UNCHANGED result
      <4>1. RepetitionsAreLeft' /\ OfferIsCurrent'
        BY <1>15, <1>0, <2>1, <3>2
           DEF RequestFails, Return, RepetitionsAreLeft, OfferIsCurrent, TypeOK
      <4> QED BY <2>1, <3>2, <4>1, GoesOn
    <3> QED BY <1>15, <3>1, <3>2 DEF RequestFails
  <2> QED BY <2>2, <2>3, <2>4 DEF IInv
<1>16. ASSUME NEW e \in Edits, PatchRepeated(e) PROVE IInv'
  <2>1. pc = "model" /\ UNCHANGED <<inputs, tree, results, finished>>
    BY <1>16 DEF PatchRepeated, Answers, Asked
  <2>2. TypeOK'
    BY <1>16, <1>0, RepeatCounts
       DEF TypeOK, PatchRepeated, RepetitionsAreLeft, Answers, Asked, Return
  <2>3. FinishIsEarned' /\ ResultsAreOfThisTree'
    BY <1>0, <1>m, <2>1, SameTree DEF FinishIsEarned
  <2>4. RepetitionsAreLeft' /\ OfferIsCurrent' /\ ResultIsEarned' /\ LastEditIsKept'
    <3>1. CASE Return("REPEATED_REJECTED_PATCH")
      BY <3>1, EndsEmptyHanded
    <3>2. CASE pc' = "loop" /\ UNCHANGED result
      <4>1. RepetitionsAreLeft' /\ OfferIsCurrent'
        BY <1>16, <1>0, <2>1, <3>2
           DEF PatchRepeated, Return, RepetitionsAreLeft, OfferIsCurrent, TypeOK
      <4> QED BY <2>1, <3>2, <4>1, GoesOn
    <3> QED BY <1>16, <3>1, <3>2 DEF PatchRepeated
  <2> QED BY <2>2, <2>3, <2>4 DEF IInv
<1>17. ASSUME NEW e \in Edits, NEW no_op \in BOOLEAN, PatchFails(e, no_op) PROVE IInv'
  <2>1. pc = "model" /\ UNCHANGED <<inputs, tree, results, finished>>
    BY <1>17 DEF PatchFails, Answers, Asked
  <2>2. TypeOK'
    BY <1>17, <1>0, RepeatCounts DEF TypeOK, PatchFails, RepetitionsAreLeft, Answers, Asked, Return
  <2>3. FinishIsEarned' /\ ResultsAreOfThisTree'
    BY <1>0, <1>m, <2>1, SameTree DEF FinishIsEarned
  <2>4. RepetitionsAreLeft' /\ OfferIsCurrent' /\ ResultIsEarned' /\ LastEditIsKept'
    <3>1. CASE Return("REPEATED_NOOP_PATCH")
      BY <3>1, EndsEmptyHanded
    <3>2. CASE pc' = "loop" /\ UNCHANGED result
      <4>1. RepetitionsAreLeft' /\ OfferIsCurrent'
        BY <1>17, <1>0, <2>1, <3>2
           DEF PatchFails, Return, RepetitionsAreLeft, OfferIsCurrent, TypeOK
      <4> QED BY <2>1, <3>2, <4>1, GoesOn
    <3> QED BY <1>17, <3>1, <3>2 DEF PatchFails
  <2> QED BY <2>2, <2>3, <2>4 DEF IInv
<1>18. ASSUME RequestRaises PROVE IInv'
  <2>1. pc = "model" /\ UNCHANGED <<inputs, tree, results, finished, limits, memory, offered, clock>>
    BY <1>18 DEF RequestRaises, Asked
  <2>2. pc' = "done" /\ RepetitionsAreLeft' /\ OfferIsCurrent' /\ ResultIsEarned' /\ LastEditIsKept'
    BY <1>18, EndsEmptyHanded DEF RequestRaises
  <2>3. TypeOK'
    BY <1>0, <2>1, <2>2 DEF TypeOK
  <2>4. FinishIsEarned' /\ ResultsAreOfThisTree'
    BY <1>0, <1>m, <2>1, SameTree DEF FinishIsEarned
  <2> QED BY <2>2, <2>3, <2>4 DEF IInv
<1>19. ASSUME FinishRevision PROVE IInv'
  <2>1. /\ pc = "model" /\ pc' \in {"loop", "drain"} /\ FinishAllowed
        /\ UNCHANGED <<inputs, tree, results, duplicates, no_ops, result>>
        /\ (pc' = "drain" /\ finished' = TRUE) \/ (pc' = "loop" /\ finished' = FALSE)
    BY <1>19, <1>0 DEF FinishRevision, Answers, Asked, OfferIsCurrent
  <2>2. TypeOK'
    BY <1>19, <1>0, RepeatCounts DEF TypeOK, FinishRevision
  <2>3. FinishIsEarned'
    BY <2>1, SameTree DEF FinishIsEarned, FinishAllowed
  <2>4. RepetitionsAreLeft' /\ OfferIsCurrent' /\ ResultsAreOfThisTree'
    BY <1>0, <2>1, SameTree DEF RepetitionsAreLeft, OfferIsCurrent
  <2> QED BY <2>1, <2>2, <2>3, <2>4, GoesOn DEF IInv
\* The way out: nothing is left to run, so that whatever is kept was observed.
<1>20. ASSUME Conclude PROVE IInv'
  <2>1. /\ pc = "drain" /\ pc' = "done"
        /\ UNCHANGED <<inputs, tree, results, finished, limits, memory, offered, clock>>
    BY <1>20 DEF Conclude, Return
  <2>2. TypeOK'
    BY <1>0, <2>1 DEF TypeOK
  <2>3. RepetitionsAreLeft' /\ OfferIsCurrent' /\ FinishIsEarned' /\ ResultsAreOfThisTree'
    BY <1>0, <2>1, SameTree DEF RepetitionsAreLeft, OfferIsCurrent, FinishIsEarned
  <2>4. CASE finished \/ Retained
    <3>1. Return("NONE")
      BY <1>20, <2>4 DEF Conclude
    <3>2. result'.error = "NONE" /\ result'.tree = IF tree # parent THEN tree ELSE Clean
      BY <3>1 DEF Return
    <3>3. Committable
      BY <1>0, <2>4 DEF FinishIsEarned, Retained
    <3>4. ResultIsEarned'
      BY <2>1, <2>4, <3>2, <3>3, SameTree DEF ResultIsEarned, Committable
    <3>5. LastEditIsKept'
      BY <3>2 DEF LastEditIsKept
    <3> QED BY <2>2, <2>3, <3>4, <3>5 DEF IInv
  <2>5. CASE ~(finished \/ Retained)
    <3>1. Return("TURN_LIMIT")
      BY <1>20, <2>5 DEF Conclude
    <3>2. result'.error = "TURN_LIMIT" /\ result'.edited = FALSE
      <4> DEFINE edited == "TURN_LIMIT" = "NONE" /\ tree # parent
      <4>1. edited = FALSE
        OBVIOUS
      <4>2. result'.error = "TURN_LIMIT" /\ result'.edited = edited
        BY <3>1 DEF Return
      <4> HIDE DEF edited
      <4> QED BY <4>1, <4>2
    <3>3. ResultIsEarned'
      BY <2>1, <3>2 DEF ResultIsEarned
    <3>4. LastEditIsKept
      BY DEF IInv
    <3>5. \/ ~Committable \/ tree \in rejected
          \/ Pending = {} /\ WithStatus({"UNKNOWN"}) # {}
      BY <1>20, <2>5 DEF Conclude, MustDrain, Retained
    <3>6. WithStatus({"UNKNOWN"})' = WithStatus({"UNKNOWN"})
      BY <2>1 DEF WithStatus
    <3>7. LastEditIsKept'
      BY <2>1, <3>5, <3>6, SameTree DEF LastEditIsKept
    <3> QED BY <2>2, <2>3, <3>3, <3>7 DEF IInv
  <2> QED BY <2>4, <2>5
<1>21. ASSUME UNCHANGED vars PROVE IInv'
  BY <1>21, SameTree DEF vars, IInv, TypeOK, RepetitionsAreLeft, OfferIsCurrent, FinishIsEarned,
                         ResultIsEarned, LastEditIsKept, WithStatus
<1> QED
  BY <1>1, <1>2, <1>3, <1>4, <1>5, <1>6, <1>7, <1>8, <1>9, <1>10, <1>11, <1>12, <1>13, <1>14,
     <1>15, <1>16, <1>17, <1>18, <1>19, <1>20, <1>21 DEF Next, Session, Done

-----------------------------------------------------------------------------
(* Theorems.                                                               *)

\* It holds in every reachable state.
LEMMA Inductive == Spec => []IInv
BY InitIInv, StepIInv, PTL DEF Spec

\* Whatever the session has seen of its checks, it has seen on the tree as it
\* is now: after every edit, failed edit and prose diff, for any number of
\* turns.
THEOREM ValidationIsOfThisTree == Spec => []ResultsAreOfThisTree
<1>1. IInv => ResultsAreOfThisTree
  BY DEF IInv
<1> QED BY <1>1, Inductive, PTL

\* An edit reaches the controller with every required check executed on that
\* very tree and none inconclusive; a tree that was rejected before comes back
\* only as prose without any check; and an edit that could be judged is not
\* lost when the turns run out.
THEOREM HandoverHolds == Spec => []HandoverIsSound
<1>1. IInv => HandedOverValidated
  <2> SUFFICES ASSUME IInv, result.edited PROVE HandedOverValidated
    BY DEF HandedOverValidated
  <2>1. result.tree = tree /\ (finished \/ Retained)
    BY DEF IInv, ResultIsEarned
  <2>2. Committable /\ Pending = {} /\ WithStatus({"UNKNOWN"}) = {}
    <3>1. CASE finished
      BY <3>1 DEF IInv, FinishIsEarned, Ready, Pending, WithStatus
    <3>2. CASE Retained
      BY <3>2 DEF Retained
    <3> QED BY <2>1, <3>1, <3>2
  <2>3. \A c \in required : results[c].status \notin {"NOT_RUN", "UNKNOWN"}
    BY <2>2 DEF Pending, WithStatus
  <2>4. \A c \in required : results[c].tree = tree
    BY <2>3 DEF IInv, TypeOK, ResultsAreOfThisTree
  <2> QED BY <2>1, <2>2, <2>3, <2>4 DEF HandedOverValidated, Committable
<1>2. IInv => RejectedNotHandedOver
  BY DEF IInv, ResultIsEarned, FinishIsEarned, Retained, RejectedNotHandedOver
<1>3. IInv => HandoverIsSound
  BY <1>1, <1>2 DEF IInv, HandoverIsSound
<1> QED BY <1>3, Inductive, PTL
=============================================================================
