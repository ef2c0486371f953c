--------------------- MODULE ReachAvoidControllerProofs ---------------------
(***************************************************************************)
(* Proofs about the controller, and first about the one judgement it rests *)
(* on: what the transition table promises holds for every set of checks,   *)
(* every authority, every evidence and every lock set.                     *)
(***************************************************************************)
EXTENDS ReachAvoidController, TrialJudgement, FiniteSetTheorems, TLAPS

-----------------------------------------------------------------------------
(* The verdict of the transition table.                                      *)

Evidence(s) == s \in Evaluation /\ \A c \in Checks : WellFormed(s.results[c])

LEMMA BlockerCountIsInt ==
  ASSUME NEW mech \in SUBSET Blockers
  PROVE  BlockerCount(mech) \in Int
<1>1. \A S \in SUBSET Blockers : Cardinality(S) \in Nat
  BY BlockersAreFinite, FS_Subset, FS_CardinalityType
<1>2. mech \cap UndefinedNames \in SUBSET Blockers
  OBVIOUS
<1> QED  BY <1>1, <1>2 DEF BlockerCount

\* Blockers of the trial include those of the parent unless one was removed,
\* and then there are at least as many.
LEMMA BlockersOnlyAccumulate ==
  ASSUME NEW before \in SUBSET Blockers, NEW after \in SUBSET Blockers,
         ~MechanicalProgress(before, after)
  PROVE  BlockerCount(before) <= BlockerCount(after)
<1>1. before \subseteq after  BY DEF MechanicalProgress
<1>2. IsFiniteSet(after)  BY BlockersAreFinite, FS_Subset
<1>3. /\ IsFiniteSet(before) /\ Cardinality(before) <= Cardinality(after)
      /\ Cardinality(before) \in Nat /\ Cardinality(after) \in Nat
  BY <1>1, <1>2, FS_Subset, FS_CardinalityType
<1>4. /\ Cardinality(before \cap UndefinedNames) <= Cardinality(after \cap UndefinedNames)
      /\ Cardinality(before \cap UndefinedNames) \in Nat
      /\ Cardinality(after \cap UndefinedNames) \in Nat
  <2>1. IsFiniteSet(after \cap UndefinedNames)  BY <1>2, FS_Subset
  <2>2. before \cap UndefinedNames \subseteq after \cap UndefinedNames  BY <1>1
  <2>3. IsFiniteSet(before \cap UndefinedNames)
        /\ Cardinality(before \cap UndefinedNames) <= Cardinality(after \cap UndefinedNames)
    BY <2>1, <2>2, FS_Subset
  <2> QED  BY <2>1, <2>3, FS_CardinalityType
<1> QED  BY <1>3, <1>4 DEF BlockerCount

\* The last ADVANCE_SAFE of decide_transition, the one that looks neither at
\* locks nor at regressions, is never taken: a trial with fewer blockers has
\* removed one and was handled as progress.
LEMMA UnguardedAdvanceIsDead ==
  ASSUME NEW p, Evidence(p), NEW t, Evidence(t),
         ~HasProgress(p, t)
  PROVE  ~(BlockerCount(t.mech) < BlockerCount(p.mech))
<1>1. p.mech \in SUBSET Blockers /\ t.mech \in SUBSET Blockers
  BY DEF Evidence, Evaluation
<1>2. ~MechanicalProgress(p.mech, t.mech)  BY DEF HasProgress
<1>3. BlockerCount(p.mech) <= BlockerCount(t.mech)
  BY <1>1, <1>2, BlockersOnlyAccumulate
<1>4. BlockerCount(p.mech) \in Int /\ BlockerCount(t.mech) \in Int
  BY <1>1, BlockerCountIsInt
<1> QED  BY <1>3, <1>4

\* A promotion always comes from the guarded branch.
LEMMA AdvanceIsGuarded ==
  ASSUME NEW p, Evidence(p), NEW t, Evidence(t), NEW l \in SUBSET Checks,
         DecideTransition(p, t, l) = "ADVANCE_SAFE"
  PROVE  /\ HasProgress(p, t)
         /\ ~PreservationRegression(t) /\ t.mech = {}
         /\ LostLocks(p, t, l) = {} /\ ~TargetRegression(p, t)
BY UnguardedAdvanceIsDead DEF DecideTransition

\* A check that passed in the parent and fails in the trial counts as regressed.
LEMMA WorseIsRegressed ==
  ASSUME NEW p, Evidence(p), NEW t, Evidence(t), NEW c \in Checks,
         p.results[c].status = "PASS", t.results[c].status = "FAIL"
  PROVE  c \in Regressed(p, t)
<1>1. p.results[c] # NotRun /\ t.results[c] # NotRun  BY DEF NotRun
<1>2. Regression(p.results[c], t.results[c])
  BY DEF Regression, Comparable, Conclusive
<1> QED  BY <1>1, <1>2 DEF Regressed, Paired, Ran

-----------------------------------------------------------------------------
JInv ==
  /\ JudgementTypeOK
  /\ decided # "NONE" => decided = DecideTransition(parentSide, trialSide, lockSet)

\* The verdict on record is the one of the table.
LEMMA JudgementRecorded == JudgementSpec => []JInv
<1>1. JudgementInit => JInv  BY DEF JudgementInit, JInv, JudgementTypeOK, Decisions
<1>2. JInv /\ [Decide]_judgementVars => JInv'
  <2> SUFFICES ASSUME JInv, [Decide]_judgementVars PROVE JInv'
    OBVIOUS
  <2>1. CASE Decide
    <3>1. DecideTransition(parentSide, trialSide', lockSet) \in Decisions
      BY DEF DecideTransition, Decisions
    <3> QED  BY <2>1, <3>1 DEF Decide, JInv, JudgementTypeOK
  <2>2. CASE UNCHANGED judgementVars
    BY <2>2 DEF judgementVars, JInv, JudgementTypeOK
  <2> QED  BY <2>1, <2>2
<1> QED  BY <1>1, <1>2, PTL DEF JudgementSpec

LEMMA JudgedEvidence ==
  ASSUME JInv
  PROVE  Evidence(parentSide) /\ Evidence(trialSide) /\ lockSet \in SUBSET Checks
BY SidesAreWellFormed, LocksAreChecks DEF JInv, JudgementTypeOK, Evidence

\* No promotion lets a blocked, a regressed or a lock-losing trial through.
THEOREM AdvanceIsHarmless == JudgementSpec => []AdvanceSafeIsHarmless
<1>1. JInv => AdvanceSafeIsHarmless
  <2> SUFFICES ASSUME JInv, decided = "ADVANCE_SAFE"
               PROVE  AdvanceSafeIsHarmless
    BY DEF AdvanceSafeIsHarmless
  <2>1. Evidence(parentSide) /\ Evidence(trialSide) /\ lockSet \in SUBSET Checks
    BY JudgedEvidence
  <2>2. /\ ~PreservationRegression(trialSide) /\ trialSide.mech = {}
        /\ LostLocks(parentSide, trialSide, lockSet) = {} /\ ~TargetRegression(parentSide, trialSide)
    BY <2>1, AdvanceIsGuarded DEF JInv
  <2>3. \A q \in Preservations : trialSide.results[q].status # "FAIL"
    BY <2>2 DEF PreservationRegression, Failing
  <2>4. ASSUME NEW c \in Targets \cup lockSet, Worse(c) PROVE FALSE
    <3>1. c \in Checks  BY <2>1 DEF Checks
    <3>2. c \in Regressed(parentSide, trialSide)
      BY <2>1, <2>4, <3>1, WorseIsRegressed DEF Worse
    <3> QED  BY <2>2, <3>2 DEF LostLocks, TargetRegression
  <2> QED  BY <2>2, <2>3, <2>4 DEF AdvanceSafeIsHarmless
<1> QED  BY <1>1, JudgementRecorded, PTL

\* The table rejects nothing without a reason in the evidence.
THEOREM RejectionsAreJustified == JudgementSpec => []RejectionIsJustified
<1>1. JInv => RejectionIsJustified
  <2> SUFFICES ASSUME JInv, decided = "REJECT_TRIAL",
                      Applicable(trialSide.mech), trialSide.patch # parentSide.patch,
                      ~(BlockerCount(trialSide.mech) > BlockerCount(parentSide.mech))
               PROVE  \E c \in Targets \cup lockSet :
                        /\ Conclusive(trialSide.results[c])
                        /\ trialSide.results[c].stage < parentSide.results[c].stage
    BY DEF RejectionIsJustified
  <2>1. Evidence(parentSide) /\ Evidence(trialSide) /\ lockSet \in SUBSET Checks
    BY JudgedEvidence
  <2>2. \/ LostTargetLocks(parentSide, trialSide, lockSet) # {}
        \/ LostLocks(parentSide, trialSide, lockSet) # {}
        \/ TargetRegression(parentSide, trialSide)
    BY DEF JInv, DecideTransition
  <2>3. \E c \in Targets \cup lockSet : c \in Regressed(parentSide, trialSide)
    BY <2>2 DEF LostTargetLocks, LostLocks, TargetRegression
  <2>4. PICK c \in Targets \cup lockSet : c \in Regressed(parentSide, trialSide)
    BY <2>3
  <2>5. c \in Checks /\ Regression(parentSide.results[c], trialSide.results[c])
    BY <2>4 DEF Regressed, Paired, Ran
  <2>6. /\ WellFormed(parentSide.results[c]) /\ WellFormed(trialSide.results[c])
        /\ Conclusive(trialSide.results[c])
    BY <2>1, <2>5 DEF Evidence, Regression, Comparable
  <2>7. trialSide.results[c].stage < parentSide.results[c].stage
    <3>1. CASE parentSide.results[c].status = "PASS" /\ trialSide.results[c].status = "FAIL"
      BY <3>1, <2>6 DEF WellFormed, TargetPass
    <3>2. CASE trialSide.results[c].stage < parentSide.results[c].stage
      BY <3>2
    <3> QED  BY <2>5, <3>1, <3>2 DEF Regression
  <2> QED  BY <2>6, <2>7
<1> QED  BY <1>1, JudgementRecorded, PTL

\* Two promotions never undo each other.
THEOREM TargetGainsAreOneWay == JudgementSpec => []TargetGainIsOneWay
<1>1. JInv => TargetGainIsOneWay
  <2> SUFFICES ASSUME JInv, NEW c \in Gained(parentSide, trialSide) \cap Targets,
                      NEW l \in LockSets,
                      DecideTransition(trialSide, parentSide, l) = "ADVANCE_SAFE"
               PROVE  FALSE
    BY DEF TargetGainIsOneWay
  <2>1. Evidence(parentSide) /\ Evidence(trialSide) /\ l \in SUBSET Checks
    BY JudgedEvidence, LocksAreChecks
  <2>2. ~TargetRegression(trialSide, parentSide)
    BY <2>1, AdvanceIsGuarded
  <2>3. /\ c \in Checks
        /\ parentSide.results[c].status = "FAIL" /\ trialSide.results[c].status = "PASS"
    BY DEF Gained, Paired, Ran, StrictProgress
  <2>4. c \in Regressed(trialSide, parentSide)
    BY <2>1, <2>3, WorseIsRegressed
  <2> QED  BY <2>2, <2>4 DEF TargetRegression
<1> QED  BY <1>1, JudgementRecorded, PTL

\* A lost target lock is always paid for by a check of a higher authority.
THEOREM LostLocksAreTraded == JudgementSpec => []LostLockIsTraded
<1>1. JInv => LostLockIsTraded
  <2> SUFFICES ASSUME JInv, decided \in {"KEEP_REPAIRING", "ADVANCE_SAFE"},
                      NEW l \in lockSet \cap Targets, Worse(l)
               PROVE  \E g \in Checks \ lockSet :
                        /\ Authority[g] > Authority[l]
                        /\ parentSide.results[g].status = "FAIL"
                        /\ trialSide.results[g].status = "PASS"
    BY DEF LostLockIsTraded
  <2>1. Evidence(parentSide) /\ Evidence(trialSide) /\ lockSet \in SUBSET Checks
    BY JudgedEvidence
  <2>2. l \in Regressed(parentSide, trialSide)
    BY <2>1, WorseIsRegressed DEF Worse, Checks
  <2>3. l \in LostTargetLocks(parentSide, trialSide, lockSet)
    BY <2>2 DEF LostTargetLocks, LostLocks
  <2>4. HigherAuthorityGain(parentSide, trialSide, lockSet)
    BY <2>3 DEF JInv, DecideTransition
  <2>5. PICK g \in Gained(parentSide, trialSide) \ lockSet : Authority[g] > Authority[l]
    BY <2>3, <2>4 DEF HigherAuthorityGain
  <2> QED  BY <2>5 DEF Gained, Paired, Ran, StrictProgress
<1> QED  BY <1>1, JudgementRecorded, PTL

\* Inconclusive targets change no verdict.
THEOREM UnknownIsNeutral == JudgementSpec => []UnknownEvidenceIsNeutral
<1>1. JInv => UnknownEvidenceIsNeutral
  <2> SUFFICES ASSUME JInv, decided # "NONE",
                      trialSide.patch # parentSide.patch, Applicable(trialSide.mech),
                      trialSide.mech = parentSide.mech,
                      \A t \in Targets : trialSide.results[t].status = "UNKNOWN",
                      \A c \in Checks \ Targets : trialSide.results[c] = parentSide.results[c]
               PROVE  decided = "KEEP_REPAIRING"
    BY DEF UnknownEvidenceIsNeutral
  <2>1. Evidence(parentSide) /\ Evidence(trialSide) /\ lockSet \in SUBSET Checks
    BY JudgedEvidence
  <2>2. ~AllReachConditions(trialSide.mech, trialSide.results)
    BY DEF AllReachConditions, Passing
  <2>3. ASSUME NEW c \in Checks
        PROVE  /\ ~Regression(parentSide.results[c], trialSide.results[c])
               /\ ~StrictProgress(parentSide.results[c], trialSide.results[c])
               /\ ~PartialProgress(parentSide.results[c], trialSide.results[c])
    <3>1. CASE c \in Targets
      <4>1. ~Comparable(parentSide.results[c], trialSide.results[c])
        BY <3>1 DEF Comparable, Conclusive
      <4>2. trialSide.results[c].status # "PASS"  BY <3>1
      <4> QED
        BY <4>1, <4>2 DEF Regression, StrictProgress, PartialProgress, StageAdvanced,
                          DistanceImproved, BlockerRemoved
    <3>2. CASE c \notin Targets
      <4>1. trialSide.results[c] = parentSide.results[c]  BY <3>2
      <4>2. /\ parentSide.results[c].stage \in Int /\ parentSide.results[c].distance \in Int
            /\ parentSide.results[c].failures \in Int
        BY <2>1 DEF Evidence, WellFormed, Execution
      <4> QED
        BY <4>1, <4>2 DEF Regression, StrictProgress, PartialProgress, StageAdvanced,
                          DistanceImproved, BlockerRemoved
    <3> QED  BY <3>1, <3>2
  <2>4. Regressed(parentSide, trialSide) = {} /\ Gained(parentSide, trialSide) = {}
    BY <2>3 DEF Regressed, Gained, Paired, Ran
  <2>5. ~HasProgress(parentSide, trialSide)
    BY <2>3, <2>4 DEF HasProgress, MechanicalProgress, Paired, Ran
  <2>6. /\ LostLocks(parentSide, trialSide, lockSet) = {}
        /\ LostTargetLocks(parentSide, trialSide, lockSet) = {}
        /\ ~TargetRegression(parentSide, trialSide)
    BY <2>4 DEF LostLocks, LostTargetLocks, TargetRegression
  <2>7. ~(BlockerCount(trialSide.mech) < BlockerCount(parentSide.mech))
    BY <2>1, <2>5, UnguardedAdvanceIsDead
  <2>8. ~(BlockerCount(trialSide.mech) > BlockerCount(parentSide.mech))
    <3>1. trialSide.mech \in SUBSET Blockers  BY <2>1 DEF Evidence, Evaluation
    <3> QED  BY <3>1, BlockerCountIsInt
  <2> QED  BY <2>2, <2>5, <2>6, <2>7, <2>8 DEF JInv, DecideTransition
<1> QED  BY <1>1, JudgementRecorded, PTL

\* With the same blockers, a promotion needs a check that runs through the
\* target and got measurably better.
THEOREM BypassesAreNotProgress == JudgementSpec => []BypassIsNotProgress
<1>1. JInv => BypassIsNotProgress
  <2> SUFFICES ASSUME JInv, decided = "ADVANCE_SAFE", trialSide.mech = parentSide.mech
               PROVE  \E c \in Checks :
                        /\ trialSide.results[c].frames # {}
                        /\ \/ trialSide.results[c].stage > parentSide.results[c].stage
                           \/ trialSide.results[c].failures < parentSide.results[c].failures
                           \/ trialSide.results[c].distance < parentSide.results[c].distance
    BY DEF BypassIsNotProgress
  <2>1. Evidence(parentSide) /\ Evidence(trialSide) /\ lockSet \in SUBSET Checks
    BY JudgedEvidence
  <2>2. HasProgress(parentSide, trialSide) /\ ~MechanicalProgress(parentSide.mech, trialSide.mech)
    BY <2>1, AdvanceIsGuarded DEF JInv, MechanicalProgress
  <2>3. PICK c \in Checks : \/ StrictProgress(parentSide.results[c], trialSide.results[c])
                            \/ PartialProgress(parentSide.results[c], trialSide.results[c])
    BY <2>2 DEF HasProgress, Gained, Paired, Ran
  <2>4. WellFormed(parentSide.results[c]) /\ WellFormed(trialSide.results[c])
    BY <2>1 DEF Evidence
  <2>5. CASE StrictProgress(parentSide.results[c], trialSide.results[c])
    BY <2>4, <2>5 DEF StrictProgress, SameOrDeeperPath, WellFormed, Execution, TargetPass
  <2>6. CASE PartialProgress(parentSide.results[c], trialSide.results[c])
    BY <2>4, <2>6 DEF PartialProgress, StageAdvanced, DistanceImproved, BlockerRemoved,
                      SameOrDeeperPath, WellFormed, Execution
  <2> QED  BY <2>3, <2>5, <2>6
<1> QED  BY <1>1, JudgementRecorded, PTL

\* The two evidences and the verdict keep their shape.
THEOREM JudgementTypeCorrect == JudgementSpec => []JudgementTypeOK
<1>1. JInv => JudgementTypeOK  BY DEF JInv
<1> QED  BY <1>1, JudgementRecorded, PTL

\* A promotion harms nothing, trades no lock away for less, and is not earned
\* by avoiding the target.
THEOREM PromotionsAreSound == JudgementSpec => []PromotionIsSound
BY JudgementTypeCorrect, AdvanceIsHarmless, LostLocksAreTraded, BypassesAreNotProgress, PTL
   DEF PromotionIsSound

\* A rejection has a reason in conclusive evidence; evidence that says nothing
\* decides nothing.
THEOREM RejectionsAreSound == JudgementSpec => []RejectionIsSound
BY RejectionsAreJustified, UnknownIsNeutral, PTL DEF RejectionIsSound

-----------------------------------------------------------------------------
(* What the builders of checkpoint records return.                           *)

\* A run of some checks gives a result for each check.
LEMMA RunsAreResults ==
  ASSUME NEW ran \in SUBSET Checks
  PROVE  RunsOf(ran) \subseteq Results
BY DEF RunsOf, Results

\* Part of a finite set of checks has a size.
LEMMA ChecksCount ==
  ASSUME NEW S \in SUBSET Checks
  PROVE  Cardinality(S) \in Nat
BY ChecksAreFinite, FS_Subset, FS_CardinalityType

\* The score of an evaluation is a tuple of ten integers.
LEMMA ScoreIsTuple ==
  ASSUME NEW patch \in Patches \cup {Blank}, NEW results, NEW locked,
         NEW reduction \in Nat
  PROVE  ScoreOf(patch, results, locked, reduction) \in Score
<1>1. Targets \subseteq Checks /\ Challenges \subseteq Checks /\ Preservations \subseteq Checks
  BY DEF Checks
<1>2. /\ Passing(results, Targets \cap locked) \in SUBSET Checks
      /\ Passing(results, Targets) \in SUBSET Checks
      /\ Passing(results, Challenges) \in SUBSET Checks
      /\ Failing(results, Preservations) \in SUBSET Checks
      /\ {x \in Challenges : Conclusive(results[x])} \in SUBSET Checks
  BY <1>1 DEF Passing, Failing
<1>3. /\ Cardinality(Passing(results, Targets \cap locked)) \in Int
      /\ Cardinality(Passing(results, Targets)) \in Int
      /\ Cardinality(Passing(results, Challenges)) \in Int
      /\ -Cardinality(Failing(results, Preservations)) \in Int
      /\ Cardinality({x \in Challenges : Conclusive(results[x])}) \in Int
  BY <1>2, ChecksCount
<1> DEFINE rungs == {tk \in Targets \X (0..3) : tk[2] < results[tk[1]].stage}
<1>4. Cardinality(rungs) \in Int
  <2>1. IsFiniteSet(Targets)
    BY <1>1, ChecksAreFinite, FS_Subset
  <2>2. IsFiniteSet(0..3)
    <3>1. 0 \in Int /\ 3 \in Int
      OBVIOUS
    <3> QED BY ONLY <3>1, FS_Interval, Zenon
  <2>3. IsFiniteSet(Targets \X (0..3))
    BY <2>1, <2>2, FS_Product
  <2>4. IsFiniteSet(rungs)
    BY <2>3, FS_Subset
  <2> QED BY <2>4, FS_CardinalityType
<1>5. -SizeOf[patch] \in Int
  BY PatchesAreReal
<1>7. Flag(Applicable(MechanicalOf[patch])) \in Int /\ Flag(MechanicalOf[patch] = {}) \in Int
  BY DEF Flag
<1> QED BY <1>3, <1>4, <1>5, <1>7 DEF ScoreOf, Score

\* An evaluated checkpoint is a checkpoint with the same identity and locks.
LEMMA EvaluatedIsCheckpoint ==
  ASSUME NEW x \in Checkpoint, NEW results \in Results, NEW locked,
         NEW reduction \in Nat
  PROVE  /\ Evaluated(x, results, locked, reduction) \in Checkpoint
         /\ Evaluated(x, results, locked, reduction).id = x.id
         /\ Evaluated(x, results, locked, reduction).locks = x.locks
<1>1. x.patch \in Patches \cup {Blank}
  BY DEF Checkpoint
<1>2. ScoreOf(x.patch, results, locked, reduction) \in Score
  BY <1>1, ScoreIsTuple
<1>3. IsRegressed(results) \in BOOLEAN
  BY DEF IsRegressed
<1> QED BY <1>2, <1>3 DEF Evaluated, Checkpoint

\* A new checkpoint is a checkpoint with the identity and locks it is given.
LEMMA NewIsCheckpoint ==
  ASSUME NEW id \in Ids, NEW parent \in Ids, NEW patch \in Patches \cup {Blank},
         NEW status \in {"P0", "TRIAL", "CERTIFIED"}, NEW results \in Results,
         NEW locked \in SUBSET Checks, NEW reduction \in Nat,
         revision \in 0..MaxRevisions
  PROVE  LET x == NewCheckpoint(id, parent, patch, status, results, locked, reduction)
         IN x \in Checkpoint /\ x.id = id /\ x.locks = locked
<1>1. ScoreOf(patch, results, locked, reduction) \in Score
  BY ScoreIsTuple
<1>2. IsRegressed(results) \in BOOLEAN
  BY DEF IsRegressed
<1> QED BY <1>1, <1>2 DEF NewCheckpoint, Checkpoint

\* The best checkpoint is the incumbent or the newcomer.
LEMMA BetterIsCheckpoint ==
  ASSUME NEW incumbent \in MaybeCheckpoint, NEW x \in Checkpoint
  PROVE  BetterOf(incumbent, x) \in Checkpoint
BY DEF BetterOf, MaybeCheckpoint

\* Replacing metadata rewrites the record of one checkpoint.
LEMMA ReplacedIsStored ==
  ASSUME store \in [Ids -> MaybeCheckpoint], NEW x \in Checkpoint
  PROVE  /\ ReplaceMetadata(x) \in [Ids -> MaybeCheckpoint]
         /\ ReplaceMetadata(x)[x.id] = x
         /\ \A i \in Ids : i # x.id => ReplaceMetadata(x)[i] = store[i]
<1>1. x.id \in Ids
  BY DEF Checkpoint
<1> QED BY <1>1 DEF ReplaceMetadata, MaybeCheckpoint

\* Nodes of the search graph.
Node == [status : GraphStatus, depth : Nat]

\* The status of a node can be changed on its own.
LEMMA StatusIsChanged ==
  ASSUME graph \in [Ids -> Node], NEW i \in Ids, NEW s \in GraphStatus
  PROVE  [graph EXCEPT ![i].status = s] \in [Ids -> Node]
BY DEF Node

\* A decision on the trial is recorded in its node.
LEMMA TransitionIsRecorded ==
  ASSUME graph \in [Ids -> Node], TrialId(revision) \in Ids,
         NEW d \in {"REJECT_TRIAL", "KEEP_REPAIRING", "ADVANCE_SAFE", "REACHED"}
  PROVE  RecordTransition(d) \in [Ids -> Node]
<1>1. (IF d = "REJECT_TRIAL" THEN "REJECTED" ELSE d) \in GraphStatus
  BY DEF GraphStatus
<1> QED BY <1>1, StatusIsChanged DEF RecordTransition

\* The identifiers of P0, of the trials and of the certificate.
LEMMA IdsAreKnown ==
  /\ BootId \in Ids /\ P0Id \in Ids /\ CertificateId \in Ids
  /\ \A r \in 0..MaxRevisions : TrialId(r) \in Ids /\ TrialId(r) # CertificateId
  /\ \A i \in Ids : i \in Int
BY CountsAreNatural DEF BootId, P0Id, CertificateId, Ids, TrialId

\* An output is sealed or has crashed, and names the checkpoint.
LEMMA OutputIsTyped ==
  ASSUME NEW x \in Checkpoint,
         NEW claim \in {"GENERATOR_BLOCKED_EXTERNAL", "BEST_EFFORT"}
  PROVE  OutputOf(x, claim) \in
           [status : {Running, "SEALED", "CRASHED"}, final : Ids,
            cause : {"NONE", "GENERATOR_BLOCKED_EXTERNAL", "REACHED",
                     "BEST_EFFORT", "METADATA_MISMATCH", "NO_GRAPH_NODE"}]
<1>1. x.id \in Ids
  BY DEF Checkpoint
<1> QED BY <1>1 DEF OutputOf

-----------------------------------------------------------------------------
(* The inductive invariant.                                                  *)

\* Every record is stored under its own identifier.
StoreIsKeyed == \A i \in Ids : store[i] # NoCheckpoint => store[i].id = i

\* The counters have room for what the next step counts.
BudgetIsLeft ==
  /\ pc = "initial" => attempts < InitialAttempts
  /\ pc \in {"execute", "diagnose"} /\ generation => revision < MaxRevisions
  /\ pc = "repair" => revision < MaxRevisions

\* No checkpoint is newer than the current trial, which is not its own parent.
TrialIsNewest ==
  /\ pc # "done" => \A i \in Ids : store[i] # NoCheckpoint => i <= TrialId(revision)
  /\ pc \in {"evaluate", "judge"} =>
       trial.patch \in Patches /\ working.id # TrialId(revision)
  /\ pc = "judge" => store[TrialId(revision)] # NoCheckpoint

\* The first inductive invariant: types, working checkpoint, budget.
IInv ==
  /\ TypeOK /\ WorkingIsStored /\ LocksFollowWorking
  /\ StoreIsKeyed /\ BudgetIsLeft /\ TrialIsNewest

\* The bootstrap checkpoint satisfies the invariant.
LEMMA IInvInit == Init => IInv
<1> SUFFICES ASSUME Init PROVE IInv
  OBVIOUS
<1>1. Boot \in Checkpoint /\ Boot.id = BootId /\ Boot.locks = {}
  <2>1. NoResults \in Results
    BY DEF NoResults, Results
  <2>2. BootId \in Ids /\ 0 \in 0..MaxRevisions /\ {} \in SUBSET Checks
    BY IdsAreKnown, CountsAreNatural
  <2>3. [i \in 1..10 |-> 0] \in Score
    BY DEF Score
  <2> QED BY <2>1, <2>2, <2>3 DEF Boot, Checkpoint
<1>2. TypeOK
  <2>1. NoTrial \in [patch : Patches \cup {Blank}, paired : Results]
    BY DEF NoTrial, NoResults, Results
  <2>2. graph \in [Ids -> [status : GraphStatus, depth : Nat]]
    BY DEF Init, GraphStatus
  <2>3. store \in [Ids -> MaybeCheckpoint]
    BY <1>1 DEF Init, MaybeCheckpoint
  <2>4. known \in SUBSET Checks
    BY DEF Init, Checks
  <2>5. outcome \in [status : {Running, "SEALED", "CRASHED"}, final : Ids,
                  cause : {"NONE", "GENERATOR_BLOCKED_EXTERNAL", "REACHED",
                           "BEST_EFFORT", "METADATA_MISMATCH", "NO_GRAPH_NODE"}]
    BY IdsAreKnown DEF Init
  <2>6. /\ pc \in Phases
        /\ locks \in SUBSET Checks
        /\ distinct \in SUBSET (Patches \cup {Blank}) /\ rejected \in SUBSET Patches
        /\ generation \in BOOLEAN /\ expired \in BOOLEAN
    BY DEF Init, Phases
  <2>7. /\ revision \in 0..MaxRevisions
        /\ attempts \in 0..InitialAttempts /\ rounds \in 0..RecoveryAttempts
    BY CountsAreNatural DEF Init
  <2>8. /\ working \in Checkpoint
        /\ safe \in MaybeCheckpoint /\ best \in MaybeCheckpoint
        /\ certified \in MaybeCheckpoint
    BY <1>1 DEF Init, MaybeCheckpoint
  <2>9. trial \in [patch : Patches \cup {Blank}, paired : Results]
    BY <2>1 DEF Init
  <2> QED BY <2>2, <2>3, <2>4, <2>5, <2>6, <2>7, <2>8, <2>9 DEF TypeOK
<1>3. \A i \in Ids : store[i] # NoCheckpoint => i = BootId /\ store[i] = Boot
  BY DEF Init
<1>4. store[BootId] = Boot
  BY IdsAreKnown DEF Init
<1>5. WorkingIsStored /\ LocksFollowWorking /\ StoreIsKeyed
  BY <1>1, <1>3, <1>4 DEF Init, WorkingIsStored, LocksFollowWorking, StoreIsKeyed
<1>6. BudgetIsLeft /\ TrialIsNewest
  BY <1>3, CountsAreNatural DEF Init, BudgetIsLeft, TrialIsNewest, TrialId, BootId
<1> QED BY <1>2, <1>5, <1>6 DEF IInv

\* A step that leaves the checkpoints alone keeps what is known of them.
LEMMA CheckpointsAreKept ==
  ASSUME IInv, UNCHANGED <<store, working, locks>>
  PROVE  WorkingIsStored' /\ LocksFollowWorking' /\ StoreIsKeyed'
BY DEF IInv, WorkingIsStored, LocksFollowWorking, StoreIsKeyed

\* Switching to a recorded checkpoint takes over its record and its locks.
LEMMA SwitchIsSafe ==
  ASSUME IInv, NEW i \in Ids, Switch(i), UNCHANGED store
  PROVE  /\ working' \in Checkpoint /\ locks' \in SUBSET Checks
         /\ WorkingIsStored' /\ LocksFollowWorking' /\ StoreIsKeyed'
<1>1. store[i] \in Checkpoint /\ store[i].id = i
  BY DEF IInv, TypeOK, MaybeCheckpoint, StoreIsKeyed, Switch, History
<1>2. locks' = store[i].locks
  BY DEF IInv, WorkingIsStored, LocksFollowWorking, Switch
<1>3. store[i].locks \in SUBSET Checks
  BY <1>1 DEF Checkpoint
<1> QED BY <1>1, <1>2, <1>3
     DEF IInv, Switch, WorkingIsStored, LocksFollowWorking, StoreIsKeyed

\* A refresh rewrites the working record and its copy together.
LEMMA RefreshIsSafe ==
  ASSUME IInv, NEW x \in Checkpoint, x.id = working.id,
         working' = x, store' = ReplaceMetadata(x), locks' = x.locks
  PROVE  /\ store' \in [Ids -> MaybeCheckpoint] /\ locks' \in SUBSET Checks
         /\ WorkingIsStored' /\ LocksFollowWorking' /\ StoreIsKeyed'
         /\ \A i \in Ids : store'[i] # NoCheckpoint => i = working.id \/ store[i] # NoCheckpoint
<1>1. store \in [Ids -> MaybeCheckpoint]
  BY DEF IInv, TypeOK
<1>2. x.locks \in SUBSET Checks
  BY DEF Checkpoint
<1>3. /\ store' \in [Ids -> MaybeCheckpoint] /\ store'[x.id] = x
      /\ \A i \in Ids : i # x.id => store'[i] = store[i]
  BY <1>1, ReplacedIsStored
<1> QED BY <1>2, <1>3
     DEF IInv, WorkingIsStored, LocksFollowWorking, StoreIsKeyed

\* Every step keeps the invariant.
LEMMA IInvStep == IInv /\ [Next]_vars => IInv'
<1> SUFFICES ASSUME IInv, [Next]_vars PROVE IInv'
  OBVIOUS
<1>0. /\ store \in [Ids -> MaybeCheckpoint] /\ graph \in [Ids -> Node]
      /\ working \in Checkpoint /\ working.id \in Ids
      /\ working.patch \in Patches \cup {Blank} /\ working.results \in Results
      /\ working = store[working.id] /\ locks = working.locks
      /\ locks \in SUBSET Checks /\ known \in SUBSET Checks
      /\ revision \in 0..MaxRevisions
      /\ safe \in MaybeCheckpoint /\ best \in MaybeCheckpoint
  BY DEF IInv, TypeOK, Node, Checkpoint, WorkingIsStored, LocksFollowWorking
<1> Targets \subseteq Checks /\ Preservations \subseteq Checks /\ Challenges \subseteq Checks
  BY DEF Checks
<1>1. CASE InitialGenerationEmpty
  <2>1. outcome' \in [status : {Running, "SEALED", "CRASHED"}, final : Ids,
            cause : {"NONE", "GENERATOR_BLOCKED_EXTERNAL", "REACHED",
                     "BEST_EFFORT", "METADATA_MISMATCH", "NO_GRAPH_NODE"}]
    BY <1>1, <1>0, OutputIsTyped DEF InitialGenerationEmpty, IInv, TypeOK
  <2>2. attempts' \in 0..InitialAttempts /\ (pc' = "initial" => attempts' < InitialAttempts)
    BY <1>1, CountsAreNatural DEF InitialGenerationEmpty, IInv, TypeOK, BudgetIsLeft
  <2>3. TypeOK'
    BY <1>1, <2>1, <2>2 DEF InitialGenerationEmpty, IInv, TypeOK, pointers, Phases
  <2>4. BudgetIsLeft' /\ TrialIsNewest'
    BY <1>1, <2>2 DEF InitialGenerationEmpty, IInv, BudgetIsLeft, TrialIsNewest, pointers
  <2> QED BY <1>1, <2>3, <2>4, CheckpointsAreKept DEF InitialGenerationEmpty, IInv, pointers
<1>2. ASSUME NEW p \in Patches, InitialGeneration(p) PROVE IInv'
  <2> DEFINE p0 == NewCheckpoint(P0Id, BootId, p, "P0", NoResults, locks, 0)
  <2>1. p0 \in Checkpoint /\ p0.id = P0Id /\ p0.locks = locks
    BY <1>0, IdsAreKnown, NewIsCheckpoint DEF NoResults, Results
  <2> HIDE DEF p0
  <2>2. /\ store' = [store EXCEPT ![P0Id] = p0]
        /\ working' = p0 /\ safe' = p0 /\ best' = p0 /\ locks' = locks
    BY <1>2 DEF InitialGeneration, p0
  <2>3. graph' \in [Ids -> [status : GraphStatus, depth : Nat]]
    <3>1. [status |-> "OPEN", depth |-> 0] \in Node
      BY DEF Node, GraphStatus
    <3> QED BY <3>1, <1>0, <1>2 DEF InitialGeneration, Node
  <2>4. store' \in [Ids -> MaybeCheckpoint] /\ working' \in Checkpoint
        /\ safe' \in MaybeCheckpoint /\ best' \in MaybeCheckpoint
    BY <1>0, <2>1, <2>2 DEF MaybeCheckpoint
  <2>5. attempts' \in 0..InitialAttempts
    BY <1>2, CountsAreNatural DEF InitialGeneration, IInv, TypeOK, BudgetIsLeft
  <2>6. TypeOK'
    BY <1>2, <2>2, <2>3, <2>4, <2>5 DEF InitialGeneration, IInv, TypeOK, Phases
  <2>7. WorkingIsStored' /\ LocksFollowWorking' /\ StoreIsKeyed'
    BY <1>0, <2>1, <2>2, IdsAreKnown
       DEF IInv, WorkingIsStored, LocksFollowWorking, StoreIsKeyed
  <2>8. BudgetIsLeft' /\ TrialIsNewest'
    BY <1>0, <1>2, <2>2 DEF InitialGeneration, IInv, BudgetIsLeft, TrialIsNewest, P0Id, TrialId
  <2> QED BY <2>6, <2>7, <2>8 DEF IInv
<1>3. CASE TargetRecovery
  <2>1. TypeOK'
    BY <1>0, <1>3 DEF TargetRecovery, IInv, TypeOK, pointers, counters, Phases
  <2>2. BudgetIsLeft' /\ TrialIsNewest'
    BY <1>3 DEF TargetRecovery, IInv, BudgetIsLeft, TrialIsNewest, pointers, counters
  <2> QED BY <1>3, <2>1, <2>2, CheckpointsAreKept DEF TargetRecovery, IInv, pointers
<1>4. ASSUME NEW i \in Ids, SelectToExecute(i) PROVE IInv'
  <2>1. Switch(i) /\ UNCHANGED store
    BY <1>4 DEF SelectToExecute
  <2>2. generation' \in BOOLEAN /\ (generation' => revision < MaxRevisions)
    BY <1>4 DEF SelectToExecute, GenerationMayBe
  <2>3. TypeOK'
    BY <1>4, <2>1, <2>2, SwitchIsSafe DEF SelectToExecute, IInv, TypeOK, counters, Phases
  <2>4. BudgetIsLeft' /\ TrialIsNewest'
    BY <1>4, <2>1, <2>2 DEF SelectToExecute, Switch, IInv, BudgetIsLeft, TrialIsNewest, counters
  <2> QED BY <2>1, <2>3, <2>4, SwitchIsSafe DEF IInv
<1>5. ASSUME NEW i \in Ids, SelectToExpand(i) PROVE IInv'
  <2>1. Switch(i) /\ UNCHANGED store
    BY <1>5 DEF SelectToExpand
  <2>2. graph' \in [Ids -> Node]
    <3>1. PICK s \in {"OPEN", "EXPANDED"} : graph' = [graph EXCEPT ![i].status = s]
      BY <1>5 DEF SelectToExpand
    <3> QED BY <3>1, <1>0, StatusIsChanged DEF GraphStatus
  <2>3. TypeOK'
    BY <1>5, <2>1, <2>2, SwitchIsSafe DEF SelectToExpand, IInv, TypeOK, counters, Node
  <2>4. BudgetIsLeft' /\ TrialIsNewest'
    BY <1>5, <2>1 DEF SelectToExpand, Switch, IInv, BudgetIsLeft, TrialIsNewest, counters
  <2> QED BY <2>1, <2>3, <2>4, SwitchIsSafe DEF IInv
<1>6. ASSUME NEW i \in Ids, SelectToProbe(i) PROVE IInv'
  <2>1. Switch(i) /\ UNCHANGED store
    BY <1>6 DEF SelectToProbe
  <2>3. TypeOK'
    BY <1>6, <2>1, SwitchIsSafe DEF SelectToProbe, IInv, TypeOK, counters, Phases
  <2>4. BudgetIsLeft' /\ TrialIsNewest'
    BY <1>6, <2>1 DEF SelectToProbe, Switch, IInv, BudgetIsLeft, TrialIsNewest, counters
  <2> QED BY <2>1, <2>3, <2>4, SwitchIsSafe DEF IInv
<1>7. CASE ProbeDone
  <2>1. TypeOK'
    BY <1>7 DEF ProbeDone, IInv, TypeOK, pointers, counters, Phases
  <2>2. BudgetIsLeft' /\ TrialIsNewest'
    BY <1>7 DEF ProbeDone, IInv, BudgetIsLeft, TrialIsNewest, pointers, counters
  <2> QED BY <1>7, <2>1, <2>2, CheckpointsAreKept DEF ProbeDone, IInv, pointers
<1>8. CASE ExecuteParent
  <2>1. PICK new \in SUBSET Challenges : known' = known \cup new
    BY <1>8 DEF ExecuteParent
  <2>2. known' \in SUBSET Checks
    BY <1>0, <2>1
  <2>3. PICK skipped \in SUBSET MaySkip({}), reduction \in Reductions :
        \E results \in RunsOf(known' \ skipped) :
          LET fresh  == Evaluated(working, results, locks, reduction)
              locked == WithLocks(locks, results, Targets \cup Preservations)
              synced == [fresh EXCEPT !.locks = locked]
          IN /\ working' = synced
             /\ store' = ReplaceMetadata(synced)
             /\ best' = BetterOf(best, fresh)
             /\ locks' = locked
    BY <1>8 DEF ExecuteParent
  <2>4. PICK results \in RunsOf(known' \ skipped) :
          LET fresh  == Evaluated(working, results, locks, reduction)
              locked == WithLocks(locks, results, Targets \cup Preservations)
              synced == [fresh EXCEPT !.locks = locked]
          IN /\ working' = synced
             /\ store' = ReplaceMetadata(synced)
             /\ best' = BetterOf(best, fresh)
             /\ locks' = locked
    BY <2>3
  <2> DEFINE fresh  == Evaluated(working, results, locks, reduction)
             locked == WithLocks(locks, results, Targets \cup Preservations)
             synced == [fresh EXCEPT !.locks = locked]
  <2>5. fresh \in Checkpoint /\ fresh.id = working.id
    <3>1. results \in Results
      BY <2>2, RunsAreResults
    <3>2. reduction \in Nat
      BY ReductionsAreNatural
    <3> QED BY <1>0, <3>1, <3>2, EvaluatedIsCheckpoint
  <2>6. locked \in SUBSET Checks
    BY <1>0 DEF WithLocks, Passing
  <2>7. /\ working' = synced /\ store' = ReplaceMetadata(synced)
        /\ best' = BetterOf(best, fresh) /\ locks' = locked
    BY <2>4
  <2> HIDE DEF fresh, locked
  <2>8. synced \in Checkpoint /\ synced.id = working.id /\ synced.locks = locked
    BY <2>5, <2>6 DEF Checkpoint
  <2> HIDE DEF synced
  <2>9. best' \in MaybeCheckpoint
    BY <1>0, <2>5, <2>7, BetterIsCheckpoint DEF MaybeCheckpoint
  <2>10. /\ store' \in [Ids -> MaybeCheckpoint] /\ locks' \in SUBSET Checks
         /\ WorkingIsStored' /\ LocksFollowWorking' /\ StoreIsKeyed'
         /\ \A i \in Ids : store'[i] # NoCheckpoint => i = working.id \/ store[i] # NoCheckpoint
    BY <2>7, <2>8, RefreshIsSafe
  <2>11. TypeOK'
    BY <1>8, <2>2, <2>7, <2>8, <2>9, <2>10 DEF ExecuteParent, IInv, TypeOK, counters, Phases
  <2>12. BudgetIsLeft' /\ TrialIsNewest'
    BY <1>0, <1>8, <2>10, NoCheckpointIsNone
       DEF ExecuteParent, IInv, BudgetIsLeft, TrialIsNewest, counters
  <2> QED BY <2>10, <2>11, <2>12 DEF IInv
<1>9. CASE Certify
  <2>1. PICK reduction \in Reductions :
        LET x == NewCheckpoint(CertificateId, working.id, working.patch, "CERTIFIED",
                               working.results, locks, reduction)
        IN /\ store' = [store EXCEPT ![CertificateId] = x]
           /\ working' = x /\ safe' = x /\ certified' = x
           /\ best' = BetterOf(best, x)
    BY <1>9 DEF Certify
  <2> DEFINE x == NewCheckpoint(CertificateId, working.id, working.patch, "CERTIFIED",
                                working.results, locks, reduction)
  <2>2. x \in Checkpoint /\ x.id = CertificateId /\ x.locks = locks
    BY <1>0, IdsAreKnown, ReductionsAreNatural, NewIsCheckpoint
  <2>3. /\ store' = [store EXCEPT ![CertificateId] = x]
        /\ working' = x /\ safe' = x /\ certified' = x
        /\ best' = BetterOf(best, x)
    BY <2>1
  <2> HIDE DEF x
  <2>4. /\ store' \in [Ids -> MaybeCheckpoint] /\ working' \in Checkpoint
        /\ safe' \in MaybeCheckpoint /\ certified' \in MaybeCheckpoint
        /\ best' \in MaybeCheckpoint
    BY <1>0, <2>2, <2>3, BetterIsCheckpoint DEF MaybeCheckpoint
  <2>5. graph' \in [Ids -> [status : GraphStatus, depth : Nat]]
    <3>1. graph[working.id].depth + 1 \in Nat
      BY <1>0 DEF Node
    <3>2. [status |-> "CERTIFIED", depth |-> graph[working.id].depth + 1] \in Node
      BY <3>1 DEF Node, GraphStatus
    <3> QED BY <1>0, <1>9, <3>2 DEF Certify, Node
  <2>6. outcome' \in [status : {Running, "SEALED", "CRASHED"}, final : Ids,
            cause : {"NONE", "GENERATOR_BLOCKED_EXTERNAL", "REACHED",
                     "BEST_EFFORT", "METADATA_MISMATCH", "NO_GRAPH_NODE"}]
    BY <1>9, IdsAreKnown DEF Certify
  <2>7. TypeOK'
    BY <1>9, <2>4, <2>5, <2>6 DEF Certify, IInv, TypeOK, counters, Phases
  <2>8. WorkingIsStored' /\ LocksFollowWorking' /\ StoreIsKeyed'
    BY <1>0, <1>9, <2>2, <2>3, IdsAreKnown
       DEF Certify, IInv, WorkingIsStored, LocksFollowWorking, StoreIsKeyed
  <2>9. BudgetIsLeft' /\ TrialIsNewest'
    BY <1>9 DEF Certify, BudgetIsLeft, TrialIsNewest
  <2> QED BY <2>7, <2>8, <2>9 DEF IInv
<1>10. CASE RecoverEvidence
  <2>1. known' \in SUBSET Checks /\ rounds' \in 0..RecoveryAttempts
    BY <1>0, <1>10, CountsAreNatural DEF RecoverEvidence, IInv, TypeOK
  <2>2. TypeOK'
    BY <1>10, <2>1 DEF RecoverEvidence, IInv, TypeOK, pointers, Phases
  <2>3. BudgetIsLeft' /\ TrialIsNewest'
    BY <1>10 DEF RecoverEvidence, IInv, BudgetIsLeft, TrialIsNewest, pointers
  <2> QED BY <1>10, <2>2, <2>3, CheckpointsAreKept DEF RecoverEvidence, IInv, pointers
<1>11. CASE ExhaustAction
  <2>1. known' \in SUBSET Checks
    BY <1>0, <1>11 DEF ExhaustAction
  <2>2. graph' \in [Ids -> Node]
    <3>1. CASE graph' = [graph EXCEPT ![working.id].status = "EXPANDED"]
      BY <1>0, <3>1, StatusIsChanged DEF GraphStatus
    <3> QED BY <1>0, <1>11, <3>1 DEF ExhaustAction
  <2>3. TypeOK'
    BY <1>11, <2>1, <2>2 DEF ExhaustAction, IInv, TypeOK, pointers, counters, Phases, Node
  <2>4. BudgetIsLeft' /\ TrialIsNewest'
    BY <1>11 DEF ExhaustAction, IInv, BudgetIsLeft, TrialIsNewest, pointers, counters
  <2> QED BY <1>11, <2>3, <2>4, CheckpointsAreKept DEF ExhaustAction, IInv, pointers
<1>12. CASE PrepareRepair
  <2>1. PICK new \in SUBSET (Challenges \ known), reduction \in Reductions :
        /\ known' = known \cup new
        /\ \E results \in IF new = {} THEN {working.results} ELSE RunsOf(known') :
             LET fresh == Evaluated(working, results, locks, reduction)
             IN /\ working' = fresh
                /\ store' = ReplaceMetadata(fresh)
                /\ best' = BetterOf(best, fresh)
    BY <1>12 DEF PrepareRepair
  <2>2. known' \in SUBSET Checks
    BY <1>0, <2>1
  <2>3. PICK results \in IF new = {} THEN {working.results} ELSE RunsOf(known') :
             LET fresh == Evaluated(working, results, locks, reduction)
             IN /\ working' = fresh
                /\ store' = ReplaceMetadata(fresh)
                /\ best' = BetterOf(best, fresh)
    BY <2>1
  <2> DEFINE fresh == Evaluated(working, results, locks, reduction)
  <2>4. fresh \in Checkpoint /\ fresh.id = working.id /\ fresh.locks = locks
    <3>1. results \in Results
      BY <1>0, <2>2, <2>3, RunsAreResults
    <3>2. reduction \in Nat
      BY ReductionsAreNatural
    <3> QED BY <1>0, <3>1, <3>2, EvaluatedIsCheckpoint
  <2>5. /\ working' = fresh /\ store' = ReplaceMetadata(fresh)
        /\ best' = BetterOf(best, fresh) /\ locks' = fresh.locks
    BY <1>12, <2>3, <2>4 DEF PrepareRepair
  <2> HIDE DEF fresh
  <2>6. best' \in MaybeCheckpoint
    BY <1>0, <2>4, <2>5, BetterIsCheckpoint DEF MaybeCheckpoint
  <2>7. /\ store' \in [Ids -> MaybeCheckpoint] /\ locks' \in SUBSET Checks
        /\ WorkingIsStored' /\ LocksFollowWorking' /\ StoreIsKeyed'
        /\ \A i \in Ids : store'[i] # NoCheckpoint => i = working.id \/ store[i] # NoCheckpoint
    BY <2>4, <2>5, RefreshIsSafe
  <2>8. TypeOK'
    BY <1>12, <2>2, <2>4, <2>5, <2>6, <2>7 DEF PrepareRepair, IInv, TypeOK, counters, Phases
  <2>9. BudgetIsLeft' /\ TrialIsNewest'
    BY <1>0, <1>12, <2>7, NoCheckpointIsNone
       DEF PrepareRepair, IInv, BudgetIsLeft, TrialIsNewest, counters
  <2> QED BY <2>7, <2>8, <2>9 DEF IInv
<1>13. CASE RepairFails
  <2>1. graph' \in [Ids -> Node]
    <3>1. CASE graph' = [graph EXCEPT ![working.id].status = "EXPANDED"]
      BY <1>0, <3>1, StatusIsChanged DEF GraphStatus
    <3> QED BY <1>0, <1>13, <3>1 DEF RepairFails
  <2>2. TypeOK'
    BY <1>13, <2>1 DEF RepairFails, IInv, TypeOK, pointers, counters, Phases, Node
  <2>3. BudgetIsLeft' /\ TrialIsNewest'
    BY <1>13 DEF RepairFails, IInv, BudgetIsLeft, TrialIsNewest, pointers, counters
  <2> QED BY <1>13, <2>2, <2>3, CheckpointsAreKept DEF RepairFails, IInv, pointers
<1>14. CASE RepairRepeatsPatch
  <2>1. TypeOK'
    BY <1>14 DEF RepairRepeatsPatch, IInv, TypeOK, pointers, counters, Phases
  <2>2. BudgetIsLeft' /\ TrialIsNewest'
    BY <1>14 DEF RepairRepeatsPatch, IInv, BudgetIsLeft, TrialIsNewest, pointers, counters
  <2> QED BY <1>14, <2>1, <2>2, CheckpointsAreKept DEF RepairRepeatsPatch, IInv, pointers
<1>15. ASSUME NEW p \in Patches, Repair(p) PROVE IInv'
  <2>1. revision' \in 0..MaxRevisions /\ revision' = revision + 1
    BY <1>0, <1>15, CountsAreNatural DEF Repair, IInv, BudgetIsLeft
  <2>2. graph' \in [Ids -> Node]
    <3>1. graph[working.id].depth + 1 \in Nat
      BY <1>0 DEF Node
    <3>2. [status |-> "EVALUATING", depth |-> graph[working.id].depth + 1] \in Node
      BY <3>1 DEF Node, GraphStatus
    <3> QED BY <1>0, <1>15, <3>2 DEF Repair
  <2>3. trial' \in [patch : Patches \cup {Blank}, paired : Results] /\ trial'.patch = p
    BY <1>15 DEF Repair, IInv, TypeOK
  <2>4. TypeOK'
    BY <1>15, <2>1, <2>2, <2>3 DEF Repair, IInv, TypeOK, pointers, Phases, Node
  <2>5. /\ UNCHANGED <<store, working, locks>>
        /\ pc = "repair" /\ pc' = "evaluate"
    BY <1>15 DEF Repair, pointers
  <2>6. \A i \in Ids : store[i] # NoCheckpoint => i <= TrialId(revision)
    BY <2>5 DEF IInv, TrialIsNewest
  <2>7. working.id <= TrialId(revision)
    BY <1>0, <2>6, NoCheckpointIsNone
  <2>8. BudgetIsLeft' /\ TrialIsNewest'
    BY <1>0, <2>1, <2>3, <2>5, <2>6, <2>7, IdsAreKnown DEF BudgetIsLeft, TrialIsNewest, TrialId
  <2> QED BY <2>4, <2>5, <2>8, CheckpointsAreKept DEF IInv
<1>16. CASE EvaluateTrial
  <2> DEFINE id == TrialId(revision)
  <2>1. PICK new \in SUBSET Challenges : known' = known \cup new
    BY <1>16 DEF EvaluateTrial
  <2>2. known' \in SUBSET Checks
    BY <1>0, <2>1
  <2>3. PICK skipped \in SUBSET MaySkip(Ran(working.results)) :
        \E extra \in RunsOf(OwedByParent(known' \ skipped)),
           results \in RunsOf(known' \ skipped), reduction \in Reductions :
          LET paired == [y \in Checks |-> IF working.results[y] # NotRun
                                          THEN working.results[y] ELSE extra[y]]
              x == NewCheckpoint(TrialId(revision), working.id, trial.patch, "TRIAL", results,
                                 WithLocks(locks, results, Checks), reduction)
          IN /\ store' = [store EXCEPT ![TrialId(revision)] = x]
             /\ graph' = [graph EXCEPT ![TrialId(revision)].status = "TRIAL"]
             /\ trial' = [trial EXCEPT !.paired = paired]
    BY <1>16 DEF EvaluateTrial
  <2>4. PICK extra \in RunsOf(OwedByParent(known' \ skipped)),
             results \in RunsOf(known' \ skipped), reduction \in Reductions :
          LET paired == [y \in Checks |-> IF working.results[y] # NotRun
                                          THEN working.results[y] ELSE extra[y]]
              x == NewCheckpoint(TrialId(revision), working.id, trial.patch, "TRIAL", results,
                                 WithLocks(locks, results, Checks), reduction)
          IN /\ store' = [store EXCEPT ![TrialId(revision)] = x]
             /\ graph' = [graph EXCEPT ![TrialId(revision)].status = "TRIAL"]
             /\ trial' = [trial EXCEPT !.paired = paired]
    BY <2>3
  <2> DEFINE paired == [y \in Checks |-> IF working.results[y] # NotRun
                                         THEN working.results[y] ELSE extra[y]]
             x == NewCheckpoint(id, working.id, trial.patch, "TRIAL", results,
                                WithLocks(locks, results, Checks), reduction)
  <2>5. results \in Results /\ extra \in Results
    BY <2>2, RunsAreResults DEF OwedByParent
  <2>6. WithLocks(locks, results, Checks) \in SUBSET Checks
    BY <1>0 DEF WithLocks, Passing
  <2>7. id \in Ids /\ trial.patch \in Patches \cup {Blank} /\ reduction \in Nat
    BY <1>0, IdsAreKnown, ReductionsAreNatural DEF IInv, TypeOK
  <2>8. x \in Checkpoint /\ x.id = id
    <3>1. working.id \in Ids /\ revision \in 0..MaxRevisions
      BY <1>0
    <3> DEFINE locked == WithLocks(locks, results, Checks)
               patch == trial.patch
               parent == working.id
    <3>2. /\ locked \in SUBSET Checks /\ patch \in Patches \cup {Blank} /\ parent \in Ids
          /\ id \in Ids /\ results \in Results /\ reduction \in Nat
      BY <2>5, <2>6, <2>7, <3>1
    <3> HIDE DEF locked, patch, parent, id
    <3>3. LET y == NewCheckpoint(id, parent, patch, "TRIAL", results, locked, reduction)
          IN y \in Checkpoint /\ y.id = id
      BY <3>1, <3>2, NewIsCheckpoint
    <3> QED BY <3>3 DEF locked, patch, parent, x
  <2>9. paired \in Results
    <3>1. \A y \in Checks : /\ working.results[y] \in Executions \cup {NotRun}
                            /\ extra[y] \in Executions \cup {NotRun}
      BY <1>0, <2>5 DEF Results
    <3>2. \A y \in Checks : paired[y] \in Executions \cup {NotRun}
      BY <3>1
    <3> QED BY <3>2 DEF Results
  <2>10. /\ store' = [store EXCEPT ![id] = x]
         /\ graph' = [graph EXCEPT ![id].status = "TRIAL"]
         /\ trial' = [trial EXCEPT !.paired = paired]
    BY <2>4
  <2> HIDE DEF x, paired
  <2>11. store' \in [Ids -> MaybeCheckpoint] /\ graph' \in [Ids -> Node]
    BY <1>0, <2>7, <2>8, <2>10, StatusIsChanged DEF MaybeCheckpoint, GraphStatus
  <2>12. trial' \in [patch : Patches \cup {Blank}, paired : Results] /\ trial'.patch = trial.patch
    BY <2>9, <2>10 DEF IInv, TypeOK
  <2>13. TypeOK'
    BY <1>16, <2>2, <2>11, <2>12 DEF EvaluateTrial, IInv, TypeOK, pointers, counters, Phases, Node
  <2>14. working.id # id /\ trial.patch \in Patches
    BY <1>16 DEF EvaluateTrial, IInv, TrialIsNewest
  <2>15. UNCHANGED <<working, locks, revision>> /\ pc' = "judge" /\ pc = "evaluate"
    BY <1>16 DEF EvaluateTrial, pointers, counters
  <2>16. WorkingIsStored' /\ LocksFollowWorking' /\ StoreIsKeyed'
    BY <1>0, <2>7, <2>8, <2>10, <2>14, <2>15
       DEF IInv, WorkingIsStored, LocksFollowWorking, StoreIsKeyed
  <2>17. \A i \in Ids : store[i] # NoCheckpoint => i <= TrialId(revision)
    BY <2>15 DEF IInv, TrialIsNewest
  <2>18. store'[id] # NoCheckpoint
    BY <1>0, <2>7, <2>8, <2>10, NoCheckpointIsNone
  <2>19. BudgetIsLeft' /\ TrialIsNewest'
    BY <1>0, <2>7, <2>10, <2>12, <2>14, <2>15, <2>17, <2>18, IdsAreKnown
       DEF BudgetIsLeft, TrialIsNewest, TrialId
  <2> QED BY <2>13, <2>16, <2>19 DEF IInv
<1>17. ASSUME pc = "judge"
       PROVE  /\ TrialId(revision) \in Ids
              /\ store[TrialId(revision)] \in Checkpoint
              /\ store[TrialId(revision)].id = TrialId(revision)
              /\ working.id # TrialId(revision) /\ trial.patch \in Patches
              /\ \A i \in Ids : store[i] # NoCheckpoint => i <= TrialId(revision)
              /\ NoTrial \in [patch : Patches \cup {Blank}, paired : Results]
  <2>1. NoTrial \in [patch : Patches \cup {Blank}, paired : Results]
    BY DEF NoTrial, NoResults, Results
  <2> QED BY <1>0, <1>17, <2>1, IdsAreKnown DEF IInv, MaybeCheckpoint, StoreIsKeyed, TrialIsNewest
<1>18. CASE Reject
  <2> DEFINE id == TrialId(revision)
             x == [store[id] EXCEPT !.status = "REJECTED", !.eligible = FALSE]
  <2>1. pc = "judge" /\ pc' = "select" /\ store' = ReplaceMetadata(x)
        /\ rejected' = rejected \cup {trial.patch} /\ locks' = working.locks
        /\ graph' = RecordTransition("REJECT_TRIAL") /\ trial' = NoTrial
        /\ UNCHANGED <<working, revision>>
    BY <1>18 DEF Reject, pointers, counters
  <2>2. x \in Checkpoint /\ x.id = id
    BY <1>17, <2>1 DEF Checkpoint
  <2> HIDE DEF x
  <2>3. /\ store' \in [Ids -> MaybeCheckpoint] /\ store'[id] = x
        /\ \A i \in Ids : i # id => store'[i] = store[i]
    BY <1>0, <2>1, <2>2, ReplacedIsStored
  <2>4. graph' \in [Ids -> Node]
    BY <1>0, <1>17, <2>1, TransitionIsRecorded
  <2>5. rejected' \in SUBSET Patches
    BY <1>17, <2>1 DEF IInv, TypeOK
  <2>6. TypeOK'
    BY <1>0, <1>17, <1>18, <2>1, <2>3, <2>4, <2>5
       DEF Reject, IInv, TypeOK, pointers, counters, Phases, Node
  <2>7. WorkingIsStored' /\ LocksFollowWorking' /\ StoreIsKeyed'
    BY <1>0, <1>17, <2>1, <2>2, <2>3
       DEF IInv, WorkingIsStored, LocksFollowWorking, StoreIsKeyed
  <2>8. BudgetIsLeft' /\ TrialIsNewest'
    BY <1>0, <1>17, <2>1, <2>3 DEF BudgetIsLeft, TrialIsNewest, TrialId
  <2> QED BY <2>6, <2>7, <2>8 DEF IInv
<1>19. ASSUME NEW d \in {"KEEP_REPAIRING", "ADVANCE_SAFE"}, Accept(d) PROVE IInv'
  <2> DEFINE id == TrialId(revision)
             x == [store[id] EXCEPT !.eligible = d = "ADVANCE_SAFE"]
  <2>1. pc = "judge" /\ pc' = "select" /\ store' = ReplaceMetadata(x)
        /\ graph' = RecordTransition(d) /\ trial' = NoTrial
        /\ best' = BetterOf(best, x) /\ UNCHANGED revision
    BY <1>19 DEF Accept, counters
  <2>2. x \in Checkpoint /\ x.id = id
    <3>1. (d = "ADVANCE_SAFE") \in BOOLEAN
      OBVIOUS
    <3> QED BY <1>17, <2>1, <3>1 DEF Checkpoint
  <2>3. PICK i \in Siblings(ReplaceMetadata(x)) :
        /\ working' = ReplaceMetadata(x)[i]
        /\ locks' = ReplaceMetadata(x)[i].locks
        /\ safe' = IF ReplaceMetadata(x)[i].eligible THEN ReplaceMetadata(x)[i] ELSE safe
    BY <1>19 DEF Accept
  <2> HIDE DEF x
  <2>4. /\ store' \in [Ids -> MaybeCheckpoint] /\ store'[id] = x
        /\ \A j \in Ids : j # id => store'[j] = store[j]
    BY <1>0, <2>1, <2>2, ReplacedIsStored
  <2>5. i \in Ids /\ store'[i] # NoCheckpoint
    BY <2>1, <2>3 DEF Siblings
  <2>6. store'[i] \in Checkpoint /\ store'[i].id = i /\ store'[i].locks \in SUBSET Checks
    <3>1. store'[i] \in Checkpoint
      BY <2>4, <2>5 DEF MaybeCheckpoint
    <3>2. store'[i].id = i
      BY <2>2, <2>4, <2>5 DEF IInv, StoreIsKeyed
    <3> QED BY <3>1, <3>2 DEF Checkpoint
  <2>7. working' = store'[i] /\ locks' = store'[i].locks
        /\ safe' = IF store'[i].eligible THEN store'[i] ELSE safe
    BY <2>1, <2>3
  <2>8. working' \in Checkpoint /\ locks' \in SUBSET Checks
        /\ safe' \in MaybeCheckpoint /\ best' \in MaybeCheckpoint
    BY <1>0, <2>1, <2>2, <2>6, <2>7, BetterIsCheckpoint DEF MaybeCheckpoint
  <2>9. graph' \in [Ids -> Node]
    BY <1>0, <1>17, <2>1, TransitionIsRecorded
  <2>10. TypeOK'
    BY <1>17, <1>19, <2>1, <2>4, <2>8, <2>9
       DEF Accept, IInv, TypeOK, counters, Phases, Node
  <2>11. WorkingIsStored' /\ LocksFollowWorking' /\ StoreIsKeyed'
    BY <2>2, <2>4, <2>6, <2>7 DEF IInv, WorkingIsStored, LocksFollowWorking, StoreIsKeyed
  <2>12. BudgetIsLeft' /\ TrialIsNewest'
    BY <1>0, <1>17, <2>1, <2>4 DEF BudgetIsLeft, TrialIsNewest, TrialId
  <2> QED BY <2>10, <2>11, <2>12 DEF IInv
<1>20. CASE Reach
  <2> DEFINE id == TrialId(revision)
             x == [store[id] EXCEPT !.eligible = TRUE, !.certified = TRUE]
  <2>1. pc = "judge" /\ pc' = "done" /\ store' = ReplaceMetadata(x)
        /\ graph' = RecordTransition("REACHED") /\ trial' = NoTrial
        /\ best' = BetterOf(best, x) /\ working' = x /\ safe' = x /\ certified' = x
        /\ locks' = x.locks
        /\ outcome' = [status |-> "SEALED", final |-> id, cause |-> "REACHED"]
    BY <1>20 DEF Reach
  <2>2. x \in Checkpoint /\ x.id = id /\ x.locks \in SUBSET Checks
    BY <1>17, <2>1 DEF Checkpoint
  <2> HIDE DEF x
  <2>3. /\ store' \in [Ids -> MaybeCheckpoint] /\ store'[id] = x
        /\ \A i \in Ids : i # id => store'[i] = store[i]
    BY <1>0, <2>1, <2>2, ReplacedIsStored
  <2>4. graph' \in [Ids -> Node]
    BY <1>0, <1>17, <2>1, TransitionIsRecorded
  <2>5. /\ safe' \in MaybeCheckpoint /\ certified' \in MaybeCheckpoint
        /\ best' \in MaybeCheckpoint
    BY <1>0, <2>1, <2>2, BetterIsCheckpoint DEF MaybeCheckpoint
  <2>6. outcome' \in [status : {Running, "SEALED", "CRASHED"}, final : Ids,
            cause : {"NONE", "GENERATOR_BLOCKED_EXTERNAL", "REACHED",
                     "BEST_EFFORT", "METADATA_MISMATCH", "NO_GRAPH_NODE"}]
    BY <1>17, <2>1
  <2>7. TypeOK'
    BY <1>17, <1>20, <2>1, <2>2, <2>3, <2>4, <2>5, <2>6
       DEF Reach, IInv, TypeOK, counters, Phases, Node
  <2>8. WorkingIsStored' /\ LocksFollowWorking' /\ StoreIsKeyed'
    BY <2>1, <2>2, <2>3 DEF IInv, WorkingIsStored, LocksFollowWorking, StoreIsKeyed
  <2>9. BudgetIsLeft' /\ TrialIsNewest'
    BY <2>1 DEF BudgetIsLeft, TrialIsNewest
  <2> QED BY <2>7, <2>8, <2>9 DEF IInv
<1>21. CASE ClockExpires
  <2>1. TypeOK'
    BY <1>21 DEF ClockExpires, IInv, TypeOK, pointers, counters
  <2>2. BudgetIsLeft' /\ TrialIsNewest'
    BY <1>21 DEF ClockExpires, IInv, BudgetIsLeft, TrialIsNewest, pointers, counters
  <2> QED BY <1>21, <2>1, <2>2, CheckpointsAreKept DEF ClockExpires, IInv, pointers
<1>22. CASE LeaveLoop \/ BudgetExhausted
  <2>1. /\ pc' = "finish"
        /\ UNCHANGED <<store, graph, pointers, locks, known, distinct, rejected, counters,
                       generation, trial, expired, outcome>>
        /\ pc # "done"
    BY <1>22 DEF LeaveLoop, BudgetExhausted
  <2>2. TypeOK'
    BY <2>1 DEF IInv, TypeOK, pointers, counters, Phases
  <2>3. BudgetIsLeft' /\ TrialIsNewest'
    BY <2>1 DEF IInv, BudgetIsLeft, TrialIsNewest, pointers, counters
  <2> QED BY <2>1, <2>2, <2>3, CheckpointsAreKept DEF IInv, pointers
<1>23. CASE Seal
  <2>1. PICK x \in IF certified # NoCheckpoint THEN {certified}
                   ELSE IF FinalCandidates = {} THEN {working}
                   ELSE {d \in FinalCandidates : \A e \in FinalCandidates \ {d} :
                                                   Less(FinalKey(e), FinalKey(d))} :
        outcome' = OutputOf(x, "BEST_EFFORT")
    BY <1>23 DEF Seal
  <2>2. \A i \in Ids : FinalCopy(i) \in MaybeCheckpoint
    BY <1>0 DEF FinalCopy, MaybeCheckpoint
  <2>3. FinalCandidates \subseteq Checkpoint
    BY <2>2 DEF FinalCandidates, MaybeCheckpoint
  <2>4. x \in Checkpoint
    BY <1>0, <2>1, <2>3 DEF IInv, TypeOK, MaybeCheckpoint
  <2>5. TypeOK'
    BY <1>23, <2>1, <2>4, OutputIsTyped DEF Seal, IInv, TypeOK, pointers, counters, Phases
  <2>6. BudgetIsLeft' /\ TrialIsNewest'
    BY <1>23 DEF Seal, BudgetIsLeft, TrialIsNewest
  <2> QED BY <1>23, <2>5, <2>6, CheckpointsAreKept DEF Seal, IInv, pointers
<1>24. CASE Finished \/ UNCHANGED vars
  <2>1. UNCHANGED vars
    BY <1>24 DEF Finished
  <2>2. TypeOK'
    BY <2>1 DEF vars, IInv, TypeOK, pointers, counters
  <2>3. BudgetIsLeft' /\ TrialIsNewest'
    BY <2>1 DEF vars, IInv, BudgetIsLeft, TrialIsNewest, pointers, counters
  <2> QED BY <2>1, <2>2, <2>3, CheckpointsAreKept DEF vars, IInv, pointers
<1> QED
  BY <1>1, <1>2, <1>3, <1>4, <1>5, <1>6, <1>7, <1>8, <1>9, <1>10, <1>11, <1>12,
     <1>13, <1>14, <1>15, <1>16, <1>18, <1>19, <1>20, <1>21, <1>22, <1>23, <1>24
  DEF Next

\* The invariant holds in every reachable state.
LEMMA IInvHolds == Spec => []IInv
BY IInvInit, IInvStep, PTL DEF Spec

-----------------------------------------------------------------------------
\* The state keeps its shape and every counter its configured bound, whatever
\* the checks show and the generator returns.
THEOREM TypeCorrect == Spec => []TypeOK
BY IInvHolds, PTL DEF IInv

\* The working copy never drifts from its persisted record: neither a refresh,
\* a lock synchronisation, a switch of the frontier, a rejection nor an
\* acceptance can make store.validate fail at the top of an iteration.
THEOREM WorkingCopyIsStored == Spec => []WorkingIsStored
BY IInvHolds, PTL DEF IInv

\* state.locked_checks is the lock set of the working checkpoint at every step.
THEOREM LocksAreOfWorking == Spec => []LocksFollowWorking
BY IInvHolds, PTL DEF IInv

\* The working copy of a checkpoint is the stored one, and the locks of the case
\* are its locks.
THEOREM WorkingStaysCoherent == Spec => []WorkingIsCoherent
BY TypeCorrect, WorkingCopyIsStored, LocksAreOfWorking, PTL DEF WorkingIsCoherent

-----------------------------------------------------------------------------
(* What the steps do to the records, in the terms the theorems need.         *)

\* What the first invariant says of the state.
LEMMA StateFacts ==
  ASSUME IInv
  PROVE  /\ store \in [Ids -> MaybeCheckpoint] /\ graph \in [Ids -> Node]
         /\ working \in Checkpoint /\ working.id \in Ids /\ working = store[working.id]
         /\ working # NoCheckpoint
         /\ working.parent \in Ids /\ working.patch \in Patches \cup {Blank}
         /\ working.results \in Results /\ locks = working.locks
         /\ locks \in SUBSET Checks /\ known \in SUBSET Checks
         /\ revision \in 0..MaxRevisions
         /\ safe \in MaybeCheckpoint /\ best \in MaybeCheckpoint /\ certified \in MaybeCheckpoint
         /\ \A i \in Ids : store[i] # NoCheckpoint => store[i] \in Checkpoint /\ store[i].id = i
BY NoCheckpointIsNone
   DEF IInv, TypeOK, Node, Checkpoint, WorkingIsStored, LocksFollowWorking, StoreIsKeyed,
       MaybeCheckpoint

\* A run of some checks covers these checks and no others.
LEMMA RunCovers ==
  ASSUME NEW ran \in SUBSET Checks, NEW results \in RunsOf(ran)
  PROVE  results \in Results /\ Ran(results) = ran
<1>1. PICK f \in [ran -> Executions] :
        results = [c \in Checks |-> IF c \in ran THEN f[c] ELSE NotRun]
  BY DEF RunsOf
<1>2. \A c \in Checks : results[c] # NotRun <=> c \in ran
  BY <1>1, ExecutionsHappened
<1>3. results \in Results
  BY <1>1 DEF Results
<1> QED BY <1>2, <1>3 DEF Ran

\* What passes was run.
LEMMA PassingRan ==
  ASSUME NEW results, NEW checks \in SUBSET Checks
  PROVE  Passing(results, checks) \subseteq Ran(results)
BY DEF Passing, Ran, NotRun

\* The better of two checkpoints is one of them.
LEMMA BetterIsEither ==
  ASSUME NEW incumbent, NEW x
  PROVE  \/ BetterOf(incumbent, x) = x
         \/ BetterOf(incumbent, x) = incumbent /\ incumbent # NoCheckpoint
BY DEF BetterOf

\* The working record is evaluated again in place: with a run of every lock, or
\* with the results it had.
Refreshes(results) ==
  /\ working' \in Checkpoint /\ working'.id = working.id
  /\ working'.parent = working.parent /\ working'.patch = working.patch
  /\ working'.status = working.status /\ working'.results = results
  /\ locks \subseteq working'.locks /\ working'.locks \subseteq locks \cup Passing(results, Checks)
  /\ results = working.results \/ (locks \subseteq known => locks \subseteq Ran(results))
  /\ Ran(results) \subseteq Ran(working.results) \cup known'
  /\ store' = [store EXCEPT ![working.id] = working']
  /\ best' # NoCheckpoint /\ (best' = best \/ best'.id = working.id)
  /\ known \subseteq known' /\ locks' = working'.locks
  /\ UNCHANGED <<graph, safe, certified, distinct, rejected, counters, generation, trial,
                 expired, outcome>>

\* An evaluation keeps identity, lineage and locks of a record.
LEMMA EvaluatedKeeps ==
  ASSUME NEW x \in Checkpoint, NEW results \in Results, NEW locked, NEW reduction \in Nat
  PROVE  LET fresh == Evaluated(x, results, locked, reduction)
         IN /\ fresh \in Checkpoint /\ fresh.id = x.id /\ fresh.parent = x.parent
            /\ fresh.patch = x.patch /\ fresh.status = x.status /\ fresh.locks = x.locks
            /\ fresh.results = results
<1>1. Evaluated(x, results, locked, reduction) \in Checkpoint
  BY EvaluatedIsCheckpoint
<1> QED BY <1>1 DEF Evaluated, Checkpoint

\* The run of the parent is a refresh.
LEMMA ExecuteParentRefreshes ==
  ASSUME IInv, ExecuteParent
  PROVE  \E results \in Results : Refreshes(results)
<1>0. Targets \cup Preservations \subseteq Checks /\ Challenges \subseteq Checks
  BY DEF Checks
<1>1. PICK new \in SUBSET Challenges : known' = known \cup new
  BY DEF ExecuteParent
<1>2. known' \in SUBSET Checks
  BY <1>0, <1>1, StateFacts
<1>3. PICK skipped \in SUBSET MaySkip({}), reduction \in Reductions :
        \E results \in RunsOf(known' \ skipped) :
          LET fresh  == Evaluated(working, results, locks, reduction)
              locked == WithLocks(locks, results, Targets \cup Preservations)
              synced == [fresh EXCEPT !.locks = locked]
          IN /\ working' = synced
             /\ store' = ReplaceMetadata(synced)
             /\ best' = BetterOf(best, fresh)
             /\ locks' = locked
  BY DEF ExecuteParent
<1>4. PICK results \in RunsOf(known' \ skipped) :
          LET fresh  == Evaluated(working, results, locks, reduction)
              locked == WithLocks(locks, results, Targets \cup Preservations)
              synced == [fresh EXCEPT !.locks = locked]
          IN /\ working' = synced
             /\ store' = ReplaceMetadata(synced)
             /\ best' = BetterOf(best, fresh)
             /\ locks' = locked
  BY <1>3
<1> DEFINE fresh  == Evaluated(working, results, locks, reduction)
           locked == WithLocks(locks, results, Targets \cup Preservations)
           synced == [fresh EXCEPT !.locks = locked]
<1>5. results \in Results /\ Ran(results) = known' \ skipped
  BY <1>2, RunCovers
<1>6. reduction \in Nat
  BY ReductionsAreNatural
<1>7. /\ fresh \in Checkpoint /\ fresh.id = working.id /\ fresh.parent = working.parent
      /\ fresh.patch = working.patch /\ fresh.status = working.status
      /\ fresh.results = results
  BY <1>5, <1>6, StateFacts, EvaluatedKeeps
<1>8. /\ working' = synced /\ store' = ReplaceMetadata(synced)
      /\ best' = BetterOf(best, fresh) /\ locks' = locked
  BY <1>4
<1>9. /\ locked \in SUBSET Checks /\ locks \subseteq locked
      /\ locked \subseteq locks \cup Passing(results, Checks)
  BY <1>0, StateFacts DEF WithLocks, Passing
<1>10. locks \subseteq known => locks \subseteq Ran(results)
  BY <1>1, <1>3, <1>5 DEF MaySkip
<1> HIDE DEF fresh, locked
<1>11. /\ synced \in Checkpoint /\ synced.id = working.id /\ synced.parent = working.parent
       /\ synced.patch = working.patch /\ synced.status = working.status
       /\ synced.results = results /\ synced.locks = locked
  BY <1>7, <1>9 DEF Checkpoint
<1>12. best' # NoCheckpoint /\ (best' = best \/ best'.id = working.id)
  BY <1>7, <1>8, BetterIsEither, NoCheckpointIsNone
<1> HIDE DEF synced
<1>13. store' = [store EXCEPT ![working.id] = working']
  BY <1>8, <1>11 DEF ReplaceMetadata
<1> QED
  BY <1>1, <1>5, <1>8, <1>9, <1>10, <1>11, <1>12, <1>13 DEF Refreshes, ExecuteParent

\* So is the second look at it, before a repair.
LEMMA PrepareRepairRefreshes ==
  ASSUME IInv, PrepareRepair
  PROVE  \E results \in Results : Refreshes(results)
<1>0. Challenges \subseteq Checks
  BY DEF Checks
<1>1. PICK new \in SUBSET (Challenges \ known), reduction \in Reductions :
        /\ known' = known \cup new
        /\ \E results \in IF new = {} THEN {working.results} ELSE RunsOf(known') :
             LET fresh == Evaluated(working, results, locks, reduction)
             IN /\ working' = fresh
                /\ store' = ReplaceMetadata(fresh)
                /\ best' = BetterOf(best, fresh)
  BY DEF PrepareRepair
<1>2. known' \in SUBSET Checks
  BY <1>0, <1>1, StateFacts
<1>3. PICK results \in IF new = {} THEN {working.results} ELSE RunsOf(known') :
             LET fresh == Evaluated(working, results, locks, reduction)
             IN /\ working' = fresh
                /\ store' = ReplaceMetadata(fresh)
                /\ best' = BetterOf(best, fresh)
  BY <1>1
<1> DEFINE fresh == Evaluated(working, results, locks, reduction)
<1>4. results \in Results /\ (results = working.results \/ Ran(results) = known')
  BY <1>2, <1>3, StateFacts, RunCovers
<1>5. reduction \in Nat
  BY ReductionsAreNatural
<1>6. /\ fresh \in Checkpoint /\ fresh.id = working.id /\ fresh.parent = working.parent
      /\ fresh.patch = working.patch /\ fresh.status = working.status
      /\ fresh.results = results /\ fresh.locks = working.locks
  BY <1>4, <1>5, StateFacts, EvaluatedKeeps
<1>7. working' = fresh /\ store' = ReplaceMetadata(fresh) /\ best' = BetterOf(best, fresh)
  BY <1>3
<1> HIDE DEF fresh
<1>8. best' # NoCheckpoint /\ (best' = best \/ best'.id = working.id)
  BY <1>6, <1>7, BetterIsEither, NoCheckpointIsNone
<1>9. store' = [store EXCEPT ![working.id] = working']
  BY <1>6, <1>7 DEF ReplaceMetadata
<1> QED
  BY <1>1, <1>4, <1>6, <1>7, <1>8, <1>9, StateFacts DEF Refreshes, PrepareRepair

\* A new record is a checkpoint with the content it is given.
LEMMA NewKeeps ==
  ASSUME IInv, NEW id \in Ids, NEW parent \in Ids, NEW patch \in Patches \cup {Blank},
         NEW status \in {"P0", "TRIAL", "CERTIFIED"}, NEW results \in Results,
         NEW locked \in SUBSET Checks, NEW reduction \in Nat
  PROVE  LET x == NewCheckpoint(id, parent, patch, status, results, locked, reduction)
         IN /\ x \in Checkpoint /\ x.id = id /\ x.parent = parent /\ x.patch = patch
            /\ x.status = status /\ x.results = results /\ x.locks = locked
            /\ x.eligible = (status = "CERTIFIED") /\ x.certified = (status = "CERTIFIED")
<1>1. NewCheckpoint(id, parent, patch, status, results, locked, reduction) \in Checkpoint
  BY StateFacts, NewIsCheckpoint
<1> QED BY <1>1 DEF NewCheckpoint

\* Before P0 there are no locks yet and no record but the bootstrap.
LEMMA InitialGenerationRecords ==
  ASSUME IInv, NEW p \in Patches, InitialGeneration(p)
  PROVE  \E x \in Checkpoint :
           /\ x.id = P0Id /\ x.parent = BootId /\ x.patch = p /\ x.status = "P0"
           /\ x.results = NoResults /\ x.locks = locks
           /\ store' = [store EXCEPT ![P0Id] = x]
           /\ working' = x /\ safe' = x /\ best' = x
<1> DEFINE x == NewCheckpoint(P0Id, BootId, p, "P0", NoResults, locks, 0)
<1>1. /\ x \in Checkpoint /\ x.id = P0Id /\ x.parent = BootId /\ x.patch = p
      /\ x.status = "P0" /\ x.results = NoResults /\ x.locks = locks
  <2>1. NoResults \in Results
    BY DEF NoResults, Results
  <2> QED BY <2>1, StateFacts, IdsAreKnown, NewKeeps
<1>2. /\ store' = [store EXCEPT ![P0Id] = x]
      /\ working' = x /\ safe' = x /\ best' = x
  BY DEF InitialGeneration
<1> HIDE DEF x
<1> QED BY <1>1, <1>2

\* The certificate is a copy of the working record.
LEMMA CertifyRecords ==
  ASSUME IInv, Certify
  PROVE  \E x \in Checkpoint :
           /\ x.id = CertificateId /\ x.parent = working.id /\ x.patch = working.patch
           /\ x.status = "CERTIFIED" /\ x.results = working.results /\ x.locks = locks
           /\ x.eligible = TRUE /\ x.certified = TRUE
           /\ store' = [store EXCEPT ![CertificateId] = x]
           /\ working' = x /\ safe' = x /\ certified' = x
           /\ best' # NoCheckpoint /\ (best' = best \/ best' = x)
<1>1. PICK reduction \in Reductions :
        LET x == NewCheckpoint(CertificateId, working.id, working.patch, "CERTIFIED",
                               working.results, locks, reduction)
        IN /\ store' = [store EXCEPT ![CertificateId] = x]
           /\ working' = x /\ safe' = x /\ certified' = x
           /\ best' = BetterOf(best, x)
  BY DEF Certify
<1> DEFINE x == NewCheckpoint(CertificateId, working.id, working.patch, "CERTIFIED",
                              working.results, locks, reduction)
<1>2. /\ x \in Checkpoint /\ x.id = CertificateId /\ x.parent = working.id
      /\ x.patch = working.patch /\ x.status = "CERTIFIED" /\ x.results = working.results
      /\ x.locks = locks /\ x.eligible = TRUE /\ x.certified = TRUE
  <2>1. /\ CertificateId \in Ids /\ working.id \in Ids /\ working.patch \in Patches \cup {Blank}
        /\ working.results \in Results /\ locks \in SUBSET Checks /\ reduction \in Nat
    BY StateFacts, IdsAreKnown, ReductionsAreNatural
  <2> DEFINE parent == working.id
             patch == working.patch
             results == working.results
  <2> HIDE DEF parent, patch, results
  <2>2. LET y == NewCheckpoint(CertificateId, parent, patch, "CERTIFIED", results, locks, reduction)
        IN /\ y \in Checkpoint /\ y.id = CertificateId /\ y.parent = parent /\ y.patch = patch
           /\ y.status = "CERTIFIED" /\ y.results = results /\ y.locks = locks
           /\ y.eligible = ("CERTIFIED" = "CERTIFIED") /\ y.certified = ("CERTIFIED" = "CERTIFIED")
    BY <2>1, NewKeeps DEF parent, patch, results
  <2> QED BY <2>2 DEF parent, patch, results
<1>3. /\ store' = [store EXCEPT ![CertificateId] = x]
      /\ working' = x /\ safe' = x /\ certified' = x
      /\ best' = BetterOf(best, x)
  BY <1>1
<1> HIDE DEF x
<1>4. best' # NoCheckpoint /\ (best' = best \/ best' = x)
  BY <1>2, <1>3, BetterIsEither, NoCheckpointIsNone
<1> QED BY <1>2, <1>3, <1>4

\* A trial is recorded with a run of all its locks, and paired with results of
\* the parent for everything it was run on.
LEMMA EvaluateTrialRecords ==
  ASSUME IInv, EvaluateTrial
  PROVE  \E x \in Checkpoint :
           /\ x.id = TrialId(revision) /\ x.parent = working.id /\ x.patch = trial.patch
           /\ x.status = "TRIAL" /\ locks \subseteq x.locks
           /\ x.locks \subseteq locks \cup Ran(x.results)
           /\ locks \subseteq known => locks \subseteq Ran(x.results)
           /\ Ran(x.results) \subseteq known'
           /\ Ran(x.results) \subseteq Ran(trial'.paired)
           /\ store' = [store EXCEPT ![TrialId(revision)] = x]
           /\ trial'.patch = trial.patch /\ known \subseteq known'
<1> DEFINE id == TrialId(revision)
<1>0. Challenges \subseteq Checks
  BY DEF Checks
<1>1. PICK new \in SUBSET Challenges : known' = known \cup new
  BY DEF EvaluateTrial
<1>2. known' \in SUBSET Checks
  BY <1>0, <1>1, StateFacts
<1>3. PICK skipped \in SUBSET MaySkip(Ran(working.results)) :
      \E extra \in RunsOf(OwedByParent(known' \ skipped)),
         results \in RunsOf(known' \ skipped), reduction \in Reductions :
        LET paired == [y \in Checks |-> IF working.results[y] # NotRun
                                        THEN working.results[y] ELSE extra[y]]
            x == NewCheckpoint(TrialId(revision), working.id, trial.patch, "TRIAL", results,
                               WithLocks(locks, results, Checks), reduction)
        IN /\ store' = [store EXCEPT ![TrialId(revision)] = x]
           /\ graph' = [graph EXCEPT ![TrialId(revision)].status = "TRIAL"]
           /\ trial' = [trial EXCEPT !.paired = paired]
  BY DEF EvaluateTrial
<1>4. PICK extra \in RunsOf(OwedByParent(known' \ skipped)),
           results \in RunsOf(known' \ skipped), reduction \in Reductions :
        LET paired == [y \in Checks |-> IF working.results[y] # NotRun
                                        THEN working.results[y] ELSE extra[y]]
            x == NewCheckpoint(TrialId(revision), working.id, trial.patch, "TRIAL", results,
                               WithLocks(locks, results, Checks), reduction)
        IN /\ store' = [store EXCEPT ![TrialId(revision)] = x]
           /\ graph' = [graph EXCEPT ![TrialId(revision)].status = "TRIAL"]
           /\ trial' = [trial EXCEPT !.paired = paired]
  BY <1>3
<1> DEFINE paired == [y \in Checks |-> IF working.results[y] # NotRun
                                       THEN working.results[y] ELSE extra[y]]
           locked == WithLocks(locks, results, Checks)
           patch  == trial.patch
           parent == working.id
           x      == NewCheckpoint(id, parent, patch, "TRIAL", results, locked, reduction)
<1>5. results \in Results /\ Ran(results) = known' \ skipped
  BY <1>2, RunCovers
<1>6. Ran(extra) = (known' \ skipped) \ Ran(working.results)
  BY <1>2, RunCovers DEF OwedByParent
<1>7. /\ locked \in SUBSET Checks /\ locks \subseteq locked
      /\ locked \subseteq locks \cup Ran(results)
  BY StateFacts, PassingRan DEF WithLocks, Passing
<1>8. id \in Ids /\ parent \in Ids /\ patch \in Patches \cup {Blank} /\ reduction \in Nat
  BY StateFacts, IdsAreKnown, ReductionsAreNatural DEF IInv, TypeOK
<1>9. locks \subseteq known => locks \subseteq Ran(results)
  BY <1>1, <1>3, <1>5 DEF MaySkip
<1>10. Ran(results) \subseteq Ran(paired)
  BY <1>5, <1>6 DEF Ran
<1>11. /\ store' = [store EXCEPT ![id] = x]
       /\ trial' = [trial EXCEPT !.paired = paired]
  BY <1>4
<1> HIDE DEF id, parent, patch, locked, paired
<1>12. /\ x \in Checkpoint /\ x.id = id /\ x.parent = parent /\ x.patch = patch
       /\ x.status = "TRIAL" /\ x.results = results /\ x.locks = locked
  BY <1>5, <1>7, <1>8, NewKeeps
<1> HIDE DEF x
<1>13. trial'.patch = trial.patch /\ trial'.paired = paired
  BY <1>11 DEF IInv, TypeOK
<1> QED
  BY <1>1, <1>5, <1>7, <1>9, <1>10, <1>11, <1>12, <1>13 DEF id, parent, patch

\* A verdict rewrites the record of the trial and nothing of its content.
Judges(x) ==
  /\ x \in Checkpoint /\ x.id = TrialId(revision)
  /\ LET c == store[TrialId(revision)]
     IN /\ x.parent = c.parent /\ x.patch = c.patch /\ x.results = c.results
        /\ x.locks = c.locks
  /\ store' = [store EXCEPT ![TrialId(revision)] = x]

\* A trial that is judged is on record.
LEMMA TrialOnRecord ==
  ASSUME IInv, pc = "judge"
  PROVE  /\ TrialId(revision) \in Ids /\ store[TrialId(revision)] # NoCheckpoint
         /\ store[TrialId(revision)] \in Checkpoint
         /\ store[TrialId(revision)].id = TrialId(revision)
         /\ working.id # TrialId(revision) /\ trial.patch \in Patches
BY StateFacts, IdsAreKnown DEF IInv, TrialIsNewest

\* A rejection rewrites status and eligibility only.
LEMMA RejectRewrites ==
  ASSUME IInv, Reject
  PROVE  \E x : Judges(x) /\ x.status = "REJECTED"
<1> DEFINE id == TrialId(revision)
           x == [store[id] EXCEPT !.status = "REJECTED", !.eligible = FALSE]
<1>1. pc = "judge" /\ store' = ReplaceMetadata(x)
  BY DEF Reject
<1>2. store[id] \in Checkpoint /\ store[id].id = id
  BY <1>1, TrialOnRecord
<1>3. /\ x \in Checkpoint /\ x.id = id /\ x.status = "REJECTED"
      /\ x.parent = store[id].parent /\ x.patch = store[id].patch
      /\ x.results = store[id].results /\ x.locks = store[id].locks
  BY <1>2 DEF Checkpoint
<1> HIDE DEF x
<1>4. store' = [store EXCEPT ![id] = x]
  BY <1>1, <1>3 DEF ReplaceMetadata
<1> QED BY <1>3, <1>4 DEF Judges

\* An acceptance rewrites the eligibility, and moves to a child of the parent
\* that was not rejected.
LEMMA AcceptRewrites ==
  ASSUME IInv, NEW d \in {"KEEP_REPAIRING", "ADVANCE_SAFE"}, Accept(d)
  PROVE  \E x : /\ Judges(x) /\ x.status = store[TrialId(revision)].status
                /\ best' # NoCheckpoint /\ (best' = best \/ best' = x)
                /\ \E i \in Ids \ {BootId} :
                     /\ store'[i] # NoCheckpoint /\ store'[i].parent = working.id
                     /\ store'[i].patch \notin rejected
                     /\ working' = store'[i] /\ locks' = store'[i].locks
                     /\ safe' = safe \/ safe' = store'[i]
<1> DEFINE id == TrialId(revision)
           x == [store[id] EXCEPT !.eligible = d = "ADVANCE_SAFE"]
<1>1. pc = "judge" /\ store' = ReplaceMetadata(x) /\ best' = BetterOf(best, x)
  BY DEF Accept
<1>2. store[id] \in Checkpoint /\ store[id].id = id
  BY <1>1, TrialOnRecord
<1>3. /\ x \in Checkpoint /\ x.id = id /\ x.status = store[id].status
      /\ x.parent = store[id].parent /\ x.patch = store[id].patch
      /\ x.results = store[id].results /\ x.locks = store[id].locks
  <2>1. (d = "ADVANCE_SAFE") \in BOOLEAN
    OBVIOUS
  <2> QED BY <1>2, <2>1 DEF Checkpoint
<1>4. PICK i \in Siblings(ReplaceMetadata(x)) :
        /\ working' = ReplaceMetadata(x)[i]
        /\ locks' = ReplaceMetadata(x)[i].locks
        /\ safe' = IF ReplaceMetadata(x)[i].eligible THEN ReplaceMetadata(x)[i] ELSE safe
  BY DEF Accept
<1> HIDE DEF x
<1>5. store' = [store EXCEPT ![id] = x]
  BY <1>1, <1>3 DEF ReplaceMetadata
<1>6. /\ i \in Ids \ {BootId} /\ store'[i] # NoCheckpoint /\ store'[i].parent = working.id
      /\ store'[i].patch \notin rejected
      /\ working' = store'[i] /\ locks' = store'[i].locks
      /\ safe' = safe \/ safe' = store'[i]
  BY <1>1, <1>4 DEF Siblings
<1>7. best' # NoCheckpoint /\ (best' = best \/ best' = x)
  BY <1>1, <1>3, BetterIsEither, NoCheckpointIsNone
<1> QED BY <1>3, <1>5, <1>6, <1>7 DEF Judges

\* A certification in place points everything at the record of the trial.
LEMMA ReachRewrites ==
  ASSUME IInv, Reach
  PROVE  \E x : /\ Judges(x) /\ x.status = store[TrialId(revision)].status
                /\ x.eligible = TRUE /\ x.certified = TRUE
                /\ best' # NoCheckpoint /\ (best' = best \/ best' = x)
                /\ working' = x /\ safe' = x /\ certified' = x
<1> DEFINE id == TrialId(revision)
           x == [store[id] EXCEPT !.eligible = TRUE, !.certified = TRUE]
<1>1. /\ pc = "judge" /\ store' = ReplaceMetadata(x) /\ best' = BetterOf(best, x)
      /\ working' = x /\ safe' = x /\ certified' = x
  BY DEF Reach
<1>2. store[id] \in Checkpoint /\ store[id].id = id
  BY <1>1, TrialOnRecord
<1>3. /\ x \in Checkpoint /\ x.id = id /\ x.status = store[id].status
      /\ x.parent = store[id].parent /\ x.patch = store[id].patch
      /\ x.results = store[id].results /\ x.locks = store[id].locks
      /\ x.eligible = TRUE /\ x.certified = TRUE
  BY <1>2 DEF Checkpoint
<1> HIDE DEF x
<1>4. store' = [store EXCEPT ![id] = x]
  BY <1>1, <1>3 DEF ReplaceMetadata
<1>5. best' # NoCheckpoint /\ (best' = best \/ best' = x)
  BY <1>1, <1>3, BetterIsEither, NoCheckpointIsNone
<1> QED BY <1>1, <1>3, <1>4, <1>5 DEF Judges

-----------------------------------------------------------------------------
(* The records of a case: a second invariant, on top of the first.           *)

\* A case that has not ended has no result and no certificate; before P0 there
\* is nothing but the bootstrap, and the loop never works on the bootstrap.
CaseIsOpen ==
  /\ pc # "done" =>
       /\ outcome = [status |-> Running, final |-> BootId, cause |-> "NONE"]
       /\ certified = NoCheckpoint
  /\ pc = "initial" =>
       working.id = BootId /\ \A i \in Ids \ {BootId} : store[i] = NoCheckpoint
  /\ pc \notin {"initial", "finish", "done"} => working.id # BootId

\* Pointers and parents are checkpoints on record.
NamesAreRecorded ==
  /\ \A x \in {safe, best, certified} \ {NoCheckpoint} : store[x.id] # NoCheckpoint
  /\ \A i \in Ids : store[i] # NoCheckpoint => store[store[i].parent] # NoCheckpoint

\* The trial at hand is a child of the working checkpoint that nothing refers
\* to, and it has no verdict yet.
TrialIsALeaf ==
  /\ pc \in {"evaluate", "judge"} =>
       /\ \A x \in {safe, best} \ {NoCheckpoint} : x.id # TrialId(revision)
       /\ \A i \in Ids : store[i] # NoCheckpoint => store[i].parent # TrialId(revision)
  /\ pc = "evaluate" =>
       store[TrialId(revision)] = NoCheckpoint /\ graph[TrialId(revision)].status = "EVALUATING"
  /\ pc = "judge" =>
       LET c == store[TrialId(revision)]
       IN /\ c.status = "TRIAL" /\ c.parent = working.id /\ c.patch = trial.patch
          /\ graph[TrialId(revision)].status = "TRIAL"

\* A rejected checkpoint is recognised by its patch.
RejectedAreBarred ==
  \A i \in Ids : store[i] # NoCheckpoint /\ store[i].status = "REJECTED"
                   => store[i].patch \in rejected

\* distinct holds the patch of every trial, the one at hand included.
PatchesAreCounted ==
  /\ IsFiniteSet(distinct) /\ Blank \in distinct
  /\ \A i \in Ids \ {P0Id, CertificateId} :
       store[i] # NoCheckpoint =>
         /\ store[i].patch \in distinct
         /\ pc = "evaluate" => store[i].patch # trial.patch
  /\ pc = "evaluate" => trial.patch \in distinct /\ trial.patch # working.patch

\* The second: the memory of the search, relative to the first.
SearchInv ==
  /\ CaseIsOpen /\ NamesAreRecorded /\ TrialIsALeaf /\ RejectedAreBarred
  /\ GraphMirrorsStore /\ RejectedStaysDead

\* A recorded checkpoint that is not rejected has a node that is not rejected,
\* and the working checkpoint is one.
LEMMA WorkingNode ==
  ASSUME IInv, SearchInv
  PROVE  /\ working.status # "REJECTED"
         /\ working.id # BootId => graph[working.id].status \notin {"ABSENT", "REJECTED"}
<1>1. working.status # "REJECTED"
  BY StateFacts, NoCheckpointIsNone DEF SearchInv, RejectedStaysDead
<1> QED BY <1>1, StateFacts DEF SearchInv, GraphMirrorsStore

\* The search moves on to a checkpoint that is not rejected, or stays with the
\* one it has; its node may be opened or marked as expanded.
LEMMA MovesOn ==
  ASSUME IInv, SearchInv,
         UNCHANGED <<store, safe, best, certified, rejected, trial, revision, outcome>>,
         pc \in {"recovery", "select", "probe", "diagnose", "repair"},
         pc' \in {"select", "probe", "execute", "finish"},
         NEW i \in Ids \ {BootId}, store[i] # NoCheckpoint, graph[i].status # "REJECTED",
         working' = store[i],
         graph' = graph \/ \E s \in {"OPEN", "EXPANDED"} : graph' = [graph EXCEPT ![i].status = s]
  PROVE  SearchInv'
<1>1. store[i].id = i /\ store[i].status # "REJECTED"
  BY StateFacts DEF SearchInv, GraphMirrorsStore
<1>2. CaseIsOpen'
  BY <1>1 DEF SearchInv, CaseIsOpen
<1>3. NamesAreRecorded' /\ TrialIsALeaf' /\ RejectedAreBarred'
  BY DEF SearchInv, NamesAreRecorded, TrialIsALeaf, RejectedAreBarred
<1>4. \A j \in Ids \ {BootId} : j # i => graph'[j] = graph[j]
  BY StateFacts
<1>5. graph'[i].status = graph[i].status \/ graph'[i].status \in {"OPEN", "EXPANDED"}
  BY StateFacts DEF Node
<1>6. GraphMirrorsStore'
  <2> SUFFICES ASSUME NEW j \in Ids \ {BootId}
               PROVE  /\ graph'[j].status = "ABSENT" => store[j] = NoCheckpoint
                      /\ store[j] = NoCheckpoint => graph'[j].status = "ABSENT"
                      /\ store[j] # NoCheckpoint =>
                           /\ store[j].status = "REJECTED" <=> graph'[j].status = "REJECTED"
                           /\ graph'[j].status # "TRIAL"
    BY DEF GraphMirrorsStore
  <2>1. CASE j # i
    BY <1>4, <2>1 DEF SearchInv, GraphMirrorsStore
  <2>2. CASE j = i
    BY <1>1, <1>5, <2>2 DEF SearchInv, GraphMirrorsStore
  <2> QED BY <2>1, <2>2
<1>7. RejectedStaysDead'
  BY <1>1 DEF SearchInv, RejectedStaysDead
<1> QED BY <1>2, <1>3, <1>6, <1>7 DEF SearchInv

\* A step that only leaves the loop, or does not concern the records at all.
LEMMA StaysPut ==
  ASSUME IInv, SearchInv,
         UNCHANGED <<store, graph, pointers, rejected, trial, revision, outcome>>,
         pc' = pc \/ (pc # "done" /\ pc' = "finish")
  PROVE  SearchInv'
<1>1. CaseIsOpen' /\ NamesAreRecorded' /\ TrialIsALeaf' /\ RejectedAreBarred'
  BY DEF SearchInv, CaseIsOpen, NamesAreRecorded, TrialIsALeaf, RejectedAreBarred, pointers
<1>2. GraphMirrorsStore'
  BY DEF SearchInv, GraphMirrorsStore
<1>3. RejectedStaysDead'
  BY DEF SearchInv, RejectedStaysDead, pointers
<1> QED BY <1>1, <1>2, <1>3 DEF SearchInv

\* The case ends with a checkpoint that is not rejected, or fails.
LEMMA EndsWell ==
  ASSUME IInv, SearchInv, UNCHANGED <<store, graph, pointers, rejected, trial, revision>>,
         pc # "done", pc' = "done",
         NEW x \in Checkpoint, store[x.id] # NoCheckpoint, store[x.id].status # "REJECTED",
         outcome'.status = "SEALED" => outcome'.final = x.id
  PROVE  SearchInv'
<1>1. CaseIsOpen' /\ NamesAreRecorded' /\ TrialIsALeaf' /\ RejectedAreBarred'
  BY DEF SearchInv, CaseIsOpen, NamesAreRecorded, TrialIsALeaf, RejectedAreBarred, pointers
<1>2. GraphMirrorsStore'
  BY DEF SearchInv, GraphMirrorsStore
<1>3. RejectedStaysDead'
  BY DEF SearchInv, RejectedStaysDead, pointers
<1> QED BY <1>1, <1>2, <1>3 DEF SearchInv

\* A checkpoint that may be final was not rejected.
LEMMA FinalIsAlive ==
  ASSUME IInv, SearchInv, pc = "finish", Seal
  PROVE  \E x \in Checkpoint :
           /\ outcome' = OutputOf(x, "BEST_EFFORT")
           /\ store[x.id] # NoCheckpoint /\ store[x.id].status # "REJECTED"
<1>1. PICK x \in IF certified # NoCheckpoint THEN {certified}
                 ELSE IF FinalCandidates = {} THEN {working}
                 ELSE {d \in FinalCandidates : \A e \in FinalCandidates \ {d} :
                                                 Less(FinalKey(e), FinalKey(d))} :
        outcome' = OutputOf(x, "BEST_EFFORT")
  BY DEF Seal
<1>2. \/ x \in {working, safe, best, certified} \ {NoCheckpoint}
      \/ \E i \in Ids : x = store[i] /\ x # NoCheckpoint /\ MayBeFinal(store[i])
  <2>1. CASE x \in FinalCandidates
    <3>1. PICK i \in Ids : x = FinalCopy(i) /\ x # NoCheckpoint
      BY <2>1 DEF FinalCandidates
    <3> QED BY <3>1 DEF FinalCopy
  <2>2. CASE x \in {working, certified} \ {NoCheckpoint}
    BY <2>2
  <2> QED BY <1>1, <2>1, <2>2, StateFacts
<1>3. CASE x \in {working, safe, best, certified} \ {NoCheckpoint}
  <2>1. x \in Checkpoint /\ x.id \in Ids
    BY <1>3, StateFacts DEF MaybeCheckpoint, Checkpoint
  <2>2. store[x.id] # NoCheckpoint
    BY <1>3, StateFacts DEF SearchInv, NamesAreRecorded
  <2>3. store[x.id].status # "REJECTED"
    BY <1>3, <2>1, <2>2 DEF SearchInv, RejectedStaysDead
  <2> QED BY <1>1, <2>1, <2>2, <2>3
<1>4. ASSUME NEW i \in Ids, x = store[i], x # NoCheckpoint, MayBeFinal(store[i])
      PROVE  /\ x \in Checkpoint
             /\ store[x.id] # NoCheckpoint /\ store[x.id].status # "REJECTED"
  BY <1>4, StateFacts DEF MayBeFinal
<1> QED BY <1>1, <1>2, <1>3, <1>4

\* A refresh changes nothing that the search goes by.
LEMMA RefreshStep ==
  ASSUME IInv, SearchInv, NEW results, Refreshes(results),
         pc \in {"execute", "diagnose"}, pc' \in {"diagnose", "repair"}
  PROVE  SearchInv'
<1>0. store[working.id] = working /\ working # NoCheckpoint /\ working.id \in Ids
  BY StateFacts
<1>1. \A i \in Ids : /\ store'[i] = NoCheckpoint <=> store[i] = NoCheckpoint
                     /\ store'[i].parent = store[i].parent /\ store'[i].patch = store[i].patch
                     /\ store'[i].status = store[i].status
  BY <1>0, StateFacts, NoCheckpointIsNone DEF Refreshes
<1>2. /\ working'.id = working.id /\ graph' = graph /\ rejected' = rejected
      /\ safe' = safe /\ certified' = certified /\ outcome' = outcome
      /\ best' # NoCheckpoint /\ (best' = best \/ best'.id = working.id)
  BY DEF Refreshes
<1>3. CaseIsOpen'
  BY <1>0, <1>2 DEF SearchInv, CaseIsOpen
<1>4. NamesAreRecorded'
  <2>1. \A x \in {safe, best, certified}' \ {NoCheckpoint} : x.id \in Ids
    BY StateFacts, <1>0, <1>2 DEF MaybeCheckpoint, Checkpoint
  <2>2. \A i \in Ids : store[i] # NoCheckpoint => store[i].parent \in Ids
    BY StateFacts DEF Checkpoint
  <2> QED BY <1>0, <1>1, <1>2, <2>1, <2>2 DEF SearchInv, NamesAreRecorded
<1>5. TrialIsALeaf' /\ RejectedAreBarred'
  BY <1>1, <1>2 DEF SearchInv, TrialIsALeaf, RejectedAreBarred
<1>6. GraphMirrorsStore'
  <2>1. revision' = revision
    BY DEF Refreshes, counters
  <2> QED BY <1>1, <1>2, <2>1 DEF SearchInv, GraphMirrorsStore
<1>7. RejectedStaysDead'
  BY <1>0, <1>1, <1>2 DEF SearchInv, RejectedStaysDead
<1> QED BY <1>3, <1>4, <1>5, <1>6, <1>7 DEF SearchInv

\* P0 is the first record after the bootstrap.
LEMMA InitialGenerationStep ==
  ASSUME IInv, SearchInv, NEW p \in Patches, InitialGeneration(p)
  PROVE  SearchInv'
<1>0. P0Id \in Ids /\ BootId \in Ids /\ P0Id # BootId
  BY IdsAreKnown DEF P0Id, BootId
<1>1. PICK x \in Checkpoint :
        /\ x.id = P0Id /\ x.parent = BootId /\ x.patch = p /\ x.status = "P0"
        /\ store' = [store EXCEPT ![P0Id] = x]
        /\ working' = x /\ safe' = x /\ best' = x
  BY InitialGenerationRecords
<1>2. /\ pc = "initial" /\ pc' = "recovery"
      /\ graph' = [graph EXCEPT ![P0Id] = [status |-> "OPEN", depth |-> 0]]
      /\ UNCHANGED <<certified, rejected, revision, outcome>>
  BY DEF InitialGeneration
<1>3. /\ working.id = BootId /\ store[BootId] # NoCheckpoint
      /\ \A i \in Ids \ {BootId} : store[i] = NoCheckpoint
      /\ certified = NoCheckpoint
  BY <1>2, StateFacts DEF SearchInv, CaseIsOpen
<1>4. /\ store'[P0Id] = x /\ x # NoCheckpoint
      /\ \A i \in Ids \ {P0Id} : store'[i] = store[i]
  BY <1>0, <1>1, StateFacts, NoCheckpointIsNone
<1>5. CaseIsOpen'
  BY <1>0, <1>1, <1>2 DEF SearchInv, CaseIsOpen
<1>6. store[BootId].parent = BootId
  BY <1>0, <1>2, <1>3, StateFacts DEF SearchInv, NamesAreRecorded, Checkpoint
<1>7. NamesAreRecorded' /\ TrialIsALeaf'
  BY <1>0, <1>1, <1>2, <1>3, <1>4, <1>6 DEF NamesAreRecorded, TrialIsALeaf
<1>8. \A i \in Ids : store'[i] # NoCheckpoint => store'[i].status # "REJECTED"
  <2>1. store[BootId].status # "REJECTED"
    BY <1>3, StateFacts, WorkingNode
  <2> QED BY <1>0, <1>1, <1>3, <1>4, <2>1
<1>9. RejectedAreBarred' /\ RejectedStaysDead'
  BY <1>8 DEF RejectedAreBarred, RejectedStaysDead
<1>10. GraphMirrorsStore'
  <2>1. /\ graph'[P0Id].status = "OPEN"
        /\ \A i \in Ids \ {P0Id} : graph'[i] = graph[i]
    BY <1>0, <1>2, StateFacts
  <2> QED BY <1>1, <1>2, <1>3, <1>4, <2>1 DEF SearchInv, GraphMirrorsStore
<1> QED BY <1>5, <1>7, <1>9, <1>10 DEF SearchInv

\* The certificate is issued once.
LEMMA CertificateIsFree ==
  ASSUME IInv, pc # "done"
  PROVE  CertificateId \in Ids /\ CertificateId # BootId /\ store[CertificateId] = NoCheckpoint
<1>1. \A i \in Ids : store[i] # NoCheckpoint => i <= TrialId(revision)
  BY DEF IInv, TrialIsNewest
<1>2. revision \in 0..MaxRevisions
  BY StateFacts
<1> QED BY <1>1, <1>2, IdsAreKnown, CountsAreNatural DEF CertificateId, TrialId, BootId

\* The certificate is a new record below the one it certifies.
LEMMA CertifyStep ==
  ASSUME IInv, SearchInv, Certify
  PROVE  SearchInv'
<1>0. CertificateId \in Ids /\ CertificateId # BootId /\ store[CertificateId] = NoCheckpoint
  BY CertificateIsFree DEF Certify
<1>1. PICK x \in Checkpoint :
        /\ x.id = CertificateId /\ x.parent = working.id /\ x.status = "CERTIFIED"
        /\ store' = [store EXCEPT ![CertificateId] = x]
        /\ working' = x /\ safe' = x /\ certified' = x
        /\ best' # NoCheckpoint /\ (best' = best \/ best' = x)
  BY CertifyRecords
<1>2. /\ pc = "diagnose" /\ pc' = "done"
      /\ graph' = [graph EXCEPT ![CertificateId] =
                     [status |-> "CERTIFIED", depth |-> graph[working.id].depth + 1]]
      /\ outcome' = [status |-> "SEALED", final |-> CertificateId, cause |-> "REACHED"]
      /\ UNCHANGED <<rejected, revision>>
  BY DEF Certify, counters
<1>3. /\ store'[CertificateId] = x /\ x # NoCheckpoint
      /\ \A i \in Ids \ {CertificateId} : store'[i] = store[i]
  BY <1>0, <1>1, StateFacts, NoCheckpointIsNone
<1>4. CaseIsOpen' /\ TrialIsALeaf'
  BY <1>2 DEF CaseIsOpen, TrialIsALeaf
<1>5. NamesAreRecorded'
  BY <1>0, <1>1, <1>3, StateFacts DEF SearchInv, NamesAreRecorded
<1>6. RejectedAreBarred'
  BY <1>1, <1>2, <1>3 DEF SearchInv, RejectedAreBarred
<1>7. GraphMirrorsStore'
  <2>1. /\ graph'[CertificateId].status = "CERTIFIED"
        /\ \A i \in Ids \ {CertificateId} : graph'[i] = graph[i]
    BY <1>0, <1>2, StateFacts
  <2>2. \A i \in Ids \ {BootId, CertificateId} :
          /\ graph'[i].status = "ABSENT" => store'[i] = NoCheckpoint
          /\ store'[i] = NoCheckpoint => graph'[i].status = "ABSENT"
          /\ store'[i] # NoCheckpoint =>
               /\ store'[i].status = "REJECTED" <=> graph'[i].status = "REJECTED"
               /\ graph'[i].status # "TRIAL"
    BY <1>2, <1>3, <2>1 DEF SearchInv, GraphMirrorsStore
  <2> QED BY <1>1, <1>3, <2>1, <2>2 DEF GraphMirrorsStore
<1>8. RejectedStaysDead'
  <2>1. \A i \in Ids : store'[i] # NoCheckpoint /\ store'[i].status = "REJECTED" =>
          /\ i # CertificateId /\ i # working.id
          /\ store[i] # NoCheckpoint /\ store[i].status = "REJECTED"
    BY <1>1, <1>3, StateFacts, WorkingNode
  <2> QED BY <1>1, <1>2, <1>3, <2>1 DEF SearchInv, RejectedStaysDead
<1> QED BY <1>4, <1>5, <1>6, <1>7, <1>8 DEF SearchInv

\* A revision opens a node of a name nothing refers to.
LEMMA RepairStep ==
  ASSUME IInv, SearchInv, NEW p \in Patches, Repair(p)
  PROVE  SearchInv'
<1>1. /\ pc = "repair" /\ pc' = "evaluate" /\ revision' = revision + 1
      /\ graph' = [graph EXCEPT ![TrialId(revision')] =
                     [status |-> "EVALUATING", depth |-> graph[working.id].depth + 1]]
      /\ UNCHANGED <<store, working, safe, best, certified, rejected, outcome>>
  BY DEF Repair, pointers
<1> DEFINE new == TrialId(revision')
<1>2. revision \in 0..MaxRevisions /\ revision < MaxRevisions
  BY <1>1, StateFacts DEF IInv, BudgetIsLeft
<1>3. new \in Ids /\ new # BootId
  BY <1>1, <1>2, CountsAreNatural, IdsAreKnown DEF TrialId, BootId
<1>4. \A i \in Ids : store[i] # NoCheckpoint => i # new
  <2>1. \A i \in Ids : store[i] # NoCheckpoint => i <= TrialId(revision)
    BY <1>1 DEF IInv, TrialIsNewest
  <2> QED BY <1>1, <1>2, <1>3, <2>1, IdsAreKnown DEF TrialId
<1>5. \A x \in {safe, best} \ {NoCheckpoint} : x.id \in Ids
  BY StateFacts DEF MaybeCheckpoint, Checkpoint
<1>6. \A i \in Ids : store[i] # NoCheckpoint => store[i].parent \in Ids
  BY StateFacts DEF Checkpoint
<1> HIDE DEF new
<1>7. graph'[new].status = "EVALUATING" /\ \A i \in Ids \ {new} : graph'[i] = graph[i]
  BY <1>1, <1>3, StateFacts DEF new
<1>8. CaseIsOpen' /\ NamesAreRecorded' /\ RejectedAreBarred' /\ RejectedStaysDead'
  BY <1>1 DEF SearchInv, CaseIsOpen, NamesAreRecorded, RejectedAreBarred, RejectedStaysDead
<1>9. TrialIsALeaf'
  <2>1. \A x \in {safe, best} \ {NoCheckpoint} : x.id # new
    BY <1>4, <1>5 DEF SearchInv, NamesAreRecorded
  <2>2. \A i \in Ids : store[i] # NoCheckpoint => store[i].parent # new
    BY <1>4, <1>6 DEF SearchInv, NamesAreRecorded
  <2> QED BY <1>1, <1>3, <1>4, <1>7, <2>1, <2>2 DEF TrialIsALeaf, new
<1>10. GraphMirrorsStore'
  <2>1. \A i \in Ids \ {BootId, new} :
          /\ graph'[i].status = "ABSENT" => store'[i] = NoCheckpoint
          /\ store'[i] = NoCheckpoint => graph'[i].status = "ABSENT"
          /\ store'[i] # NoCheckpoint =>
               /\ store'[i].status = "REJECTED" <=> graph'[i].status = "REJECTED"
               /\ graph'[i].status # "TRIAL"
    BY <1>1, <1>7 DEF SearchInv, GraphMirrorsStore
  <2> QED BY <1>1, <1>3, <1>4, <1>7, <2>1 DEF GraphMirrorsStore, new
<1> QED BY <1>8, <1>9, <1>10 DEF SearchInv

\* The trial is recorded below the working checkpoint.
LEMMA EvaluateTrialStep ==
  ASSUME IInv, SearchInv, EvaluateTrial
  PROVE  SearchInv'
<1> DEFINE id == TrialId(revision)
<1>1. /\ pc = "evaluate" /\ pc' = "judge"
      /\ graph' = [graph EXCEPT ![id].status = "TRIAL"]
      /\ UNCHANGED <<working, safe, best, certified, rejected, revision, outcome>>
  BY DEF EvaluateTrial, pointers, counters
<1>2. /\ id \in Ids /\ store[id] = NoCheckpoint /\ working.id # id /\ id # BootId
      /\ \A x \in {safe, best} \ {NoCheckpoint} : x.id # id
      /\ \A i \in Ids : store[i] # NoCheckpoint => store[i].parent # id
  <2>1. id # BootId
    BY StateFacts DEF TrialId, BootId
  <2> QED BY <1>1, <2>1, StateFacts, IdsAreKnown DEF SearchInv, TrialIsALeaf
<1>3. PICK x \in Checkpoint :
        /\ x.id = id /\ x.parent = working.id /\ x.patch = trial.patch /\ x.status = "TRIAL"
        /\ store' = [store EXCEPT ![id] = x]
        /\ trial'.patch = trial.patch
  BY EvaluateTrialRecords
<1> HIDE DEF id
<1>4. /\ store'[id] = x /\ x # NoCheckpoint
      /\ \A i \in Ids \ {id} : store'[i] = store[i]
  BY <1>2, <1>3, StateFacts, NoCheckpointIsNone
<1>5. graph'[id].status = "TRIAL" /\ \A i \in Ids \ {id} : graph'[i] = graph[i]
  BY <1>1, <1>2, StateFacts DEF Node
<1>6. CaseIsOpen'
  BY <1>1 DEF SearchInv, CaseIsOpen
<1>7. NamesAreRecorded'
  <2>1. \A y \in {safe, best, certified} \ {NoCheckpoint} : y.id \in Ids
    BY StateFacts DEF MaybeCheckpoint, Checkpoint
  <2>2. \A i \in Ids : store[i] # NoCheckpoint => store[i].parent \in Ids
    BY StateFacts DEF Checkpoint
  <2> QED BY <1>1, <1>2, <1>3, <1>4, <2>1, <2>2, StateFacts DEF SearchInv, NamesAreRecorded
<1>8. TrialIsALeaf'
  BY <1>1, <1>2, <1>3, <1>4, <1>5 DEF TrialIsALeaf, id
<1>9. RejectedAreBarred'
  BY <1>1, <1>3, <1>4 DEF SearchInv, RejectedAreBarred
<1>10. GraphMirrorsStore'
  <2>1. \A i \in Ids \ {BootId, id} :
          /\ graph'[i].status = "ABSENT" => store'[i] = NoCheckpoint
          /\ store'[i] = NoCheckpoint => graph'[i].status = "ABSENT"
          /\ store'[i] # NoCheckpoint =>
               /\ store'[i].status = "REJECTED" <=> graph'[i].status = "REJECTED"
               /\ graph'[i].status # "TRIAL"
    BY <1>1, <1>4, <1>5 DEF SearchInv, GraphMirrorsStore, id
  <2> QED BY <1>1, <1>2, <1>3, <1>4, <1>5, <2>1 DEF GraphMirrorsStore, id
<1>11. RejectedStaysDead'
  <2>1. \A i \in Ids : store'[i] # NoCheckpoint /\ store'[i].status = "REJECTED" =>
          /\ i # id /\ i # working.id
          /\ store[i] # NoCheckpoint /\ store[i].status = "REJECTED"
    BY <1>2, <1>3, <1>4, StateFacts, WorkingNode
  <2> QED BY <1>1, <1>3, <1>4, <2>1 DEF SearchInv, RejectedStaysDead
<1> QED BY <1>6, <1>7, <1>8, <1>9, <1>10, <1>11 DEF SearchInv

\* What a verdict leaves as it is, whatever it is.
LEMMA VerdictStep ==
  ASSUME IInv, SearchInv, pc = "judge", NEW x, Judges(x),
         NEW s \in {"REJECTED", "KEEP_REPAIRING", "ADVANCE_SAFE", "REACHED"},
         graph' = [graph EXCEPT ![TrialId(revision)].status = s],
         (x.status = "REJECTED") = (s = "REJECTED"),
         UNCHANGED revision
  PROVE  /\ GraphMirrorsStore'
         /\ \A i \in Ids : /\ store'[i] = NoCheckpoint <=> store[i] = NoCheckpoint
                           /\ store'[i].parent = store[i].parent
                           /\ store'[i].patch = store[i].patch
                           /\ store'[i].locks = store[i].locks
                           /\ store'[i].results = store[i].results
                           /\ i # TrialId(revision) => store'[i] = store[i]
         /\ store'[TrialId(revision)] = x /\ x # NoCheckpoint
         /\ TrialId(revision) \in Ids \ {BootId}
<1> DEFINE id == TrialId(revision)
<1>1. id \in Ids /\ id # BootId /\ store[id] # NoCheckpoint /\ x # NoCheckpoint
  <2>1. id # BootId
    BY StateFacts DEF TrialId, BootId
  <2> QED BY <2>1, TrialOnRecord, NoCheckpointIsNone DEF Judges
<1>2. store'[id] = x /\ \A i \in Ids \ {id} : store'[i] = store[i]
  BY <1>1, StateFacts DEF Judges
<1>3. graph'[id].status = s /\ \A i \in Ids \ {id} : graph'[i] = graph[i]
  BY <1>1, StateFacts DEF Node
<1>4. /\ x.parent = store[id].parent /\ x.patch = store[id].patch
      /\ x.locks = store[id].locks /\ x.results = store[id].results
  BY DEF Judges
<1> HIDE DEF id
<1>5. \A i \in Ids \ {BootId, id} :
        /\ graph'[i].status = "ABSENT" => store'[i] = NoCheckpoint
        /\ store'[i] = NoCheckpoint => graph'[i].status = "ABSENT"
        /\ store'[i] # NoCheckpoint =>
             /\ store'[i].status = "REJECTED" <=> graph'[i].status = "REJECTED"
             /\ graph'[i].status # "TRIAL"
  BY <1>2, <1>3 DEF SearchInv, GraphMirrorsStore, id
<1>6. GraphMirrorsStore'
  BY <1>1, <1>2, <1>3, <1>5 DEF GraphMirrorsStore, id
<1> QED BY <1>1, <1>2, <1>4, <1>6 DEF id

\* The trial has no verdict yet: its record is neither rejected nor referred to.
LEMMA TrialIsOpen ==
  ASSUME IInv, SearchInv, pc = "judge"
  PROVE  /\ store[TrialId(revision)].status = "TRIAL"
         /\ store[TrialId(revision)].parent = working.id
         /\ store[TrialId(revision)].patch = trial.patch
         /\ working.id # TrialId(revision) /\ working.id # BootId
         /\ certified = NoCheckpoint
         /\ \A x \in {safe, best} \ {NoCheckpoint} : x.id # TrialId(revision)
         /\ \A i \in Ids : store[i] # NoCheckpoint => store[i].parent # TrialId(revision)
         /\ outcome = [status |-> Running, final |-> BootId, cause |-> "NONE"]
BY TrialOnRecord DEF SearchInv, TrialIsALeaf, CaseIsOpen

\* A rejected trial was a leaf that nothing pointed to.
LEMMA RejectStep ==
  ASSUME IInv, SearchInv, Reject
  PROVE  SearchInv'
<1> DEFINE id == TrialId(revision)
<1>1. PICK x : Judges(x) /\ x.status = "REJECTED"
  BY RejectRewrites
<1>2. /\ pc = "judge" /\ pc' = "select"
      /\ graph' = [graph EXCEPT ![id].status = "REJECTED"]
      /\ rejected' = rejected \cup {trial.patch}
      /\ UNCHANGED <<working, safe, best, certified, revision, outcome>>
  BY DEF Reject, RecordTransition, pointers, counters
<1>3. /\ GraphMirrorsStore'
      /\ \A i \in Ids : /\ store'[i] = NoCheckpoint <=> store[i] = NoCheckpoint
                        /\ store'[i].parent = store[i].parent
                        /\ store'[i].patch = store[i].patch
                        /\ i # id => store'[i] = store[i]
      /\ store'[id] = x /\ x # NoCheckpoint /\ id \in Ids \ {BootId}
  BY <1>1, <1>2, VerdictStep
<1>4. /\ store[id].patch = trial.patch /\ working.id # id /\ working.id # BootId
      /\ certified = NoCheckpoint
      /\ \A y \in {safe, best} \ {NoCheckpoint} : y.id # id
      /\ \A i \in Ids : store[i] # NoCheckpoint => store[i].parent # id
      /\ outcome = [status |-> Running, final |-> BootId, cause |-> "NONE"]
  BY <1>2, TrialIsOpen
<1> HIDE DEF id
<1>5. CaseIsOpen' /\ TrialIsALeaf'
  BY <1>2, <1>4 DEF CaseIsOpen, TrialIsALeaf
<1>6. NamesAreRecorded'
  <2>1. \A y \in {safe, best, certified} \ {NoCheckpoint} : y.id \in Ids
    BY StateFacts DEF MaybeCheckpoint, Checkpoint
  <2>2. \A i \in Ids : store[i] # NoCheckpoint => store[i].parent \in Ids
    BY StateFacts DEF Checkpoint
  <2> QED BY <1>2, <1>3, <2>1, <2>2 DEF SearchInv, NamesAreRecorded
<1>7. RejectedAreBarred'
  BY <1>2, <1>3, <1>4 DEF SearchInv, RejectedAreBarred
<1>8. RejectedStaysDead'
  BY <1>2, <1>3, <1>4 DEF SearchInv, RejectedStaysDead, Running
<1> QED BY <1>3, <1>5, <1>6, <1>7, <1>8 DEF SearchInv

\* The sibling that wins is not rejected.
LEMMA AcceptStep ==
  ASSUME IInv, SearchInv, NEW d \in {"KEEP_REPAIRING", "ADVANCE_SAFE"}, Accept(d)
  PROVE  SearchInv'
<1> DEFINE id == TrialId(revision)
<1>1. PICK x : /\ Judges(x) /\ x.status = store[id].status
               /\ best' # NoCheckpoint /\ (best' = best \/ best' = x)
               /\ \E i \in Ids \ {BootId} :
                    /\ store'[i] # NoCheckpoint /\ store'[i].parent = working.id
                    /\ store'[i].patch \notin rejected
                    /\ working' = store'[i] /\ locks' = store'[i].locks
                    /\ safe' = safe \/ safe' = store'[i]
  BY AcceptRewrites
<1>i. PICK i \in Ids \ {BootId} :
        /\ store'[i] # NoCheckpoint /\ store'[i].patch \notin rejected
        /\ working' = store'[i] /\ (safe' = safe \/ safe' = store'[i])
  BY <1>1
<1>2. /\ pc = "judge" /\ pc' = "select"
      /\ graph' = [graph EXCEPT ![id].status = d]
      /\ UNCHANGED <<certified, rejected, revision, outcome>>
  BY DEF Accept, RecordTransition, counters
<1>4. /\ store[id].status = "TRIAL" /\ certified = NoCheckpoint
      /\ outcome = [status |-> Running, final |-> BootId, cause |-> "NONE"]
  BY <1>2, TrialIsOpen
<1>3. /\ GraphMirrorsStore'
      /\ \A j \in Ids : /\ store'[j] = NoCheckpoint <=> store[j] = NoCheckpoint
                        /\ store'[j].parent = store[j].parent
                        /\ store'[j].patch = store[j].patch
                        /\ j # id => store'[j] = store[j]
      /\ store'[id] = x /\ x # NoCheckpoint /\ id \in Ids \ {BootId}
  BY <1>1, <1>2, <1>4, VerdictStep
<1>5. store'[i].id = i /\ x.id = id
  <2>1. \A j \in Ids : store[j] # NoCheckpoint => store[j].id = j
    BY StateFacts
  <2> QED BY <1>1, <1>3, <1>i, <2>1 DEF Judges
<1> HIDE DEF id
<1>6. CaseIsOpen' /\ TrialIsALeaf'
  BY <1>2, <1>4, <1>5, <1>i DEF CaseIsOpen, TrialIsALeaf
<1>7. NamesAreRecorded'
  <2>1. \A y \in {safe, best, certified} \ {NoCheckpoint} : y.id \in Ids
    BY StateFacts DEF MaybeCheckpoint, Checkpoint
  <2>2. \A j \in Ids : store[j] # NoCheckpoint => store[j].parent \in Ids
    BY StateFacts DEF Checkpoint
  <2> QED BY <1>1, <1>2, <1>3, <1>5, <1>i, <2>1, <2>2 DEF SearchInv, NamesAreRecorded
<1>8. \A j \in Ids : store'[j] # NoCheckpoint /\ store'[j].status = "REJECTED" =>
        /\ j # id /\ store[j] # NoCheckpoint /\ store[j].status = "REJECTED"
        /\ store'[j].patch \in rejected
  BY <1>1, <1>3, <1>4 DEF SearchInv, RejectedAreBarred, id
<1>9. RejectedAreBarred'
  BY <1>2, <1>8 DEF RejectedAreBarred
<1>10. RejectedStaysDead'
  BY <1>1, <1>2, <1>3, <1>4, <1>5, <1>8, <1>i DEF SearchInv, RejectedStaysDead, Running
<1> QED BY <1>3, <1>6, <1>7, <1>9, <1>10 DEF SearchInv

\* A reached trial was not rejected.
LEMMA ReachStep ==
  ASSUME IInv, SearchInv, Reach
  PROVE  SearchInv'
<1> DEFINE id == TrialId(revision)
<1>1. PICK x : /\ Judges(x) /\ x.status = store[id].status
               /\ best' # NoCheckpoint /\ (best' = best \/ best' = x)
               /\ working' = x /\ safe' = x /\ certified' = x
  BY ReachRewrites
<1>2. /\ pc = "judge" /\ pc' = "done"
      /\ graph' = [graph EXCEPT ![id].status = "REACHED"]
      /\ outcome' = [status |-> "SEALED", final |-> id, cause |-> "REACHED"]
      /\ UNCHANGED <<rejected, revision>>
  BY DEF Reach, RecordTransition, counters
<1>4. store[id].status = "TRIAL"
      /\ \A i \in Ids : store[i] # NoCheckpoint => store[i].parent # id
  BY <1>2, TrialIsOpen
<1>3. /\ GraphMirrorsStore'
      /\ \A j \in Ids : /\ store'[j] = NoCheckpoint <=> store[j] = NoCheckpoint
                        /\ store'[j].parent = store[j].parent
                        /\ store'[j].patch = store[j].patch
                        /\ j # id => store'[j] = store[j]
      /\ store'[id] = x /\ x # NoCheckpoint /\ id \in Ids \ {BootId}
  BY <1>1, <1>2, <1>4, VerdictStep
<1>5. x.id = id
  BY <1>1 DEF Judges
<1> HIDE DEF id
<1>6. CaseIsOpen' /\ TrialIsALeaf'
  BY <1>2 DEF CaseIsOpen, TrialIsALeaf
<1>7. NamesAreRecorded'
  <2>1. \A y \in {safe, best, certified} \ {NoCheckpoint} : y.id \in Ids
    BY StateFacts DEF MaybeCheckpoint, Checkpoint
  <2>2. \A j \in Ids : store[j] # NoCheckpoint => store[j].parent \in Ids
    BY StateFacts DEF Checkpoint
  <2> QED BY <1>1, <1>2, <1>3, <1>5, <2>1, <2>2 DEF SearchInv, NamesAreRecorded
<1>8. \A j \in Ids : store'[j] # NoCheckpoint /\ store'[j].status = "REJECTED" =>
        /\ j # id /\ store[j] # NoCheckpoint /\ store[j].status = "REJECTED"
        /\ store'[j].patch \in rejected
  BY <1>1, <1>3, <1>4 DEF SearchInv, RejectedAreBarred, id
<1>9. RejectedAreBarred'
  BY <1>2, <1>8 DEF RejectedAreBarred
<1>10. RejectedStaysDead'
  BY <1>1, <1>2, <1>3, <1>5, <1>8 DEF SearchInv, RejectedStaysDead
<1> QED BY <1>3, <1>6, <1>7, <1>9, <1>10 DEF SearchInv

\* The bootstrap satisfies the second invariant.
LEMMA SearchInit == Init => SearchInv
<1> SUFFICES ASSUME Init PROVE SearchInv
  OBVIOUS
<1>0. BootId \in Ids /\ Boot # NoCheckpoint
  <2>1. working = Boot /\ working # NoCheckpoint
    BY IInvInit, StateFacts DEF Init
  <2> QED BY <2>1, IdsAreKnown
<1>1. \A i \in Ids : store[i] # NoCheckpoint => i = BootId /\ store[i] = Boot
  BY DEF Init
<1>2. Boot.id = BootId /\ Boot.parent = BootId /\ Boot.status = "BOOTSTRAP"
  BY DEF Boot
<1>3. CaseIsOpen
  BY <1>1, <1>2 DEF Init, CaseIsOpen
<1>4. NamesAreRecorded /\ TrialIsALeaf /\ RejectedAreBarred /\ RejectedStaysDead
  BY <1>0, <1>1, <1>2
     DEF Init, NamesAreRecorded, TrialIsALeaf, RejectedAreBarred, RejectedStaysDead
<1>5. GraphMirrorsStore
  BY <1>1 DEF Init, GraphMirrorsStore
<1> QED BY <1>3, <1>4, <1>5 DEF SearchInv

\* Every step keeps the second invariant.
LEMMA SearchStep == IInv /\ SearchInv /\ [Next]_vars => SearchInv'
<1> SUFFICES ASSUME IInv, SearchInv, [Next]_vars PROVE SearchInv'
  OBVIOUS
<1>0. /\ working.id \in Ids /\ working = store[working.id] /\ working # NoCheckpoint
      /\ working.status # "REJECTED"
      /\ working.id # BootId => graph[working.id].status # "REJECTED"
      /\ pc \notin {"initial", "finish", "done"} => working.id # BootId
  BY StateFacts, WorkingNode DEF SearchInv, CaseIsOpen
<1>1. CASE InitialGenerationEmpty
  <2>1. CASE UNCHANGED <<pc, outcome>>
    BY <1>1, <2>1, StaysPut DEF InitialGenerationEmpty
  <2>2. CASE pc' = "done" /\ outcome' = OutputOf(working, "GENERATOR_BLOCKED_EXTERNAL")
    <3>1. /\ UNCHANGED <<store, graph, pointers, rejected, trial, revision>> /\ pc # "done"
          /\ outcome'.status = "SEALED" => outcome'.final = working.id
      BY <1>1, <2>2 DEF InitialGenerationEmpty, OutputOf
    <3> QED BY <1>0, <2>2, <3>1, StateFacts, EndsWell
  <2> QED BY <1>1, <2>1, <2>2 DEF InitialGenerationEmpty
<1>2. ASSUME NEW p \in Patches, InitialGeneration(p) \/ Repair(p) PROVE SearchInv'
  BY <1>2, InitialGenerationStep, RepairStep
<1>3. CASE TargetRecovery \/ ProbeDone \/ RecoverEvidence \/ RepairRepeatsPatch
  <2>1. /\ UNCHANGED <<store, graph, pointers, rejected, trial, revision, outcome>>
        /\ pc \in {"recovery", "probe", "diagnose", "repair"} /\ pc' = "select"
    BY <1>3 DEF TargetRecovery, ProbeDone, RecoverEvidence, RepairRepeatsPatch, counters
  <2> QED BY <1>0, <2>1, MovesOn DEF pointers
<1>4. CASE ExhaustAction \/ RepairFails
  <2>1. /\ UNCHANGED <<store, pointers, rejected, trial, revision, outcome>>
        /\ pc \in {"diagnose", "repair"} /\ pc' \in {"select", "finish"}
        /\ graph' = graph \/ graph' = [graph EXCEPT ![working.id].status = "EXPANDED"]
    BY <1>4 DEF ExhaustAction, RepairFails, counters
  <2> QED BY <1>0, <2>1, MovesOn DEF pointers
<1>5. ASSUME NEW i \in Ids, SelectToExecute(i) \/ SelectToExpand(i) \/ SelectToProbe(i)
      PROVE  SearchInv'
  <2>1. /\ UNCHANGED <<store, safe, best, certified, rejected, trial, revision, outcome>>
        /\ pc = "select" /\ pc' \in {"select", "probe", "execute"}
        /\ i \in Ids \ {BootId} /\ store[i] # NoCheckpoint /\ graph[i].status # "REJECTED"
        /\ working' = store[i]
        /\ graph' = graph \/ \E s \in {"OPEN", "EXPANDED"} : graph' = [graph EXCEPT ![i].status = s]
    BY <1>5 DEF SelectToExecute, SelectToExpand, SelectToProbe, Switch, History, counters
  <2> QED BY <2>1, MovesOn
<1>6. CASE ExecuteParent \/ PrepareRepair
  <2>1. pc \in {"execute", "diagnose"} /\ pc' \in {"diagnose", "repair"}
    BY <1>6 DEF ExecuteParent, PrepareRepair
  <2>2. \E results : Refreshes(results)
    BY <1>6, ExecuteParentRefreshes, PrepareRepairRefreshes
  <2> QED BY <2>1, <2>2, RefreshStep
<1>7. CASE ClockExpires \/ LeaveLoop \/ BudgetExhausted \/ UNCHANGED vars
  <2>1. /\ UNCHANGED <<store, graph, pointers, rejected, trial, revision, outcome>>
        /\ pc' = pc \/ (pc # "done" /\ pc' = "finish")
    BY <1>7 DEF ClockExpires, LeaveLoop, BudgetExhausted, vars, counters
  <2> QED BY <2>1, StaysPut
<1>8. CASE Seal
  <2>1. /\ pc = "finish" /\ pc' = "done"
        /\ UNCHANGED <<store, graph, pointers, rejected, trial, revision>>
    BY <1>8 DEF Seal, counters
  <2>2. PICK x \in Checkpoint :
          /\ outcome' = OutputOf(x, "BEST_EFFORT")
          /\ store[x.id] # NoCheckpoint /\ store[x.id].status # "REJECTED"
    BY <1>8, <2>1, FinalIsAlive
  <2>3. outcome'.status = "SEALED" => outcome'.final = x.id
    BY <2>2 DEF OutputOf
  <2> QED BY <2>1, <2>2, <2>3, EndsWell
<1> QED
  BY <1>1, <1>2, <1>3, <1>4, <1>5, <1>6, <1>7, <1>8, CertifyStep, EvaluateTrialStep,
     RejectStep, AcceptStep, ReachStep
  DEF Next, Finished

\* The second invariant holds in every reachable state.
LEMMA SearchHolds == Spec => []SearchInv
BY IInvHolds, SearchInit, SearchStep, PTL DEF Spec

-----------------------------------------------------------------------------
(* No patch is evaluated twice.                                              *)

\* The third: patches and revisions are counted, relative to the first two.
CountInv == PatchesAreCounted /\ RevisionsAreDistinct

\* A step that records no trial and counts no patch.
LEMMA CountKept ==
  ASSUME IInv, CountInv, UNCHANGED <<distinct, revision>>,
         store' = store \/ \A i \in Ids \ {P0Id, CertificateId} :
                             /\ store'[i] = NoCheckpoint <=> store[i] = NoCheckpoint
                             /\ store'[i].patch = store[i].patch,
         pc' = "evaluate" => pc = "evaluate" /\ UNCHANGED <<trial, working>>
  PROVE  CountInv'
<1>1. \A i \in Ids \ {P0Id, CertificateId} :
        /\ store'[i] = NoCheckpoint <=> store[i] = NoCheckpoint
        /\ store'[i].patch = store[i].patch
  OBVIOUS
<1>2. PatchesAreCounted'
  BY <1>1 DEF CountInv, PatchesAreCounted
<1>3. RevisionsAreDistinct'
  BY <1>1 DEF CountInv, RevisionsAreDistinct
<1> QED BY <1>2, <1>3 DEF CountInv

\* A real revision is counted once, with a patch that was not seen before.
LEMMA CountRepair ==
  ASSUME IInv, CountInv, NEW p \in Patches, Repair(p)
  PROVE  CountInv'
<1>1. /\ pc' = "evaluate" /\ revision' = revision + 1 /\ distinct' = distinct \cup {p}
      /\ p \notin distinct /\ p # working.patch /\ trial' = [trial EXCEPT !.patch = p]
      /\ UNCHANGED <<store, working>>
  BY DEF Repair, IsRepetition, pointers
<1>2. trial'.patch = p
  BY <1>1 DEF IInv, TypeOK
<1>3. IsFiniteSet(distinct')
  BY <1>1, FS_AddElement DEF CountInv, PatchesAreCounted
<1>4. PatchesAreCounted'
  BY <1>1, <1>2, <1>3 DEF CountInv, PatchesAreCounted
<1>5. Cardinality(distinct' \ {Blank}) = revision'
  <2>1. p # Blank
    BY PatchesAreReal
  <2>2. IsFiniteSet(distinct \ {Blank}) /\ Cardinality(distinct \ {Blank}) = revision
    BY FS_Difference, FS_Subset DEF CountInv, PatchesAreCounted, RevisionsAreDistinct
  <2>3. distinct' \ {Blank} = (distinct \ {Blank}) \cup {p}
    BY <1>1, <2>1
  <2>4. p \notin distinct \ {Blank}
    BY <1>1
  <2> QED BY <1>1, <2>2, <2>3, <2>4, FS_AddElement
<1>6. RevisionsAreDistinct'
  BY <1>1, <1>5 DEF CountInv, RevisionsAreDistinct
<1> QED BY <1>4, <1>6 DEF CountInv

\* The trial is recorded with the patch that was counted for it.
LEMMA CountTrial ==
  ASSUME IInv, SearchInv, CountInv, EvaluateTrial
  PROVE  CountInv'
<1> DEFINE id == TrialId(revision)
<1>1. pc = "evaluate" /\ pc' = "judge" /\ UNCHANGED <<distinct, revision>>
  BY DEF EvaluateTrial, counters
<1>2. PICK x \in Checkpoint : x.patch = trial.patch /\ store' = [store EXCEPT ![id] = x]
  BY EvaluateTrialRecords
<1>3. id \in Ids
  BY StateFacts, IdsAreKnown
<1> HIDE DEF id
<1>4. store'[id] = x /\ \A i \in Ids \ {id} : store'[i] = store[i]
  BY <1>2, <1>3, StateFacts
<1>5. /\ trial.patch \in distinct
      /\ \A i \in Ids \ {P0Id, CertificateId} :
           store[i] # NoCheckpoint => store[i].patch # trial.patch
  BY <1>1 DEF CountInv, PatchesAreCounted
<1>6. PatchesAreCounted'
  BY <1>1, <1>2, <1>4, <1>5 DEF CountInv, PatchesAreCounted
<1>7. RevisionsAreDistinct'
  BY <1>1, <1>2, <1>4, <1>5 DEF CountInv, RevisionsAreDistinct
<1> QED BY <1>6, <1>7 DEF CountInv

\* The bootstrap counts as the empty patch.
LEMMA CountInit == Init => CountInv
<1> SUFFICES ASSUME Init PROVE CountInv
  OBVIOUS
<1>1. \A i \in Ids : store[i] # NoCheckpoint => i = BootId /\ store[i] = Boot
  BY DEF Init
<1>2. distinct = {Blank} /\ revision = 0 /\ pc = "initial" /\ Boot.patch = Blank
  BY DEF Init, Boot
<1>3. IsFiniteSet({Blank}) /\ Cardinality({}) = 0 /\ distinct \ {Blank} = {}
  BY <1>2, FS_Singleton, FS_EmptySet
<1> QED BY <1>1, <1>2, <1>3 DEF CountInv, PatchesAreCounted, RevisionsAreDistinct

\* What a verdict does to the records.
LEMMA VerdictRewrites ==
  ASSUME IInv, Reject \/ Accept("KEEP_REPAIRING") \/ Accept("ADVANCE_SAFE") \/ Reach
  PROVE  /\ pc = "judge" /\ pc' \in {"select", "done"}
         /\ UNCHANGED <<known, distinct, revision>>
         /\ \A i \in Ids : /\ store'[i] = NoCheckpoint <=> store[i] = NoCheckpoint
                           /\ store'[i].parent = store[i].parent
                           /\ store'[i].patch = store[i].patch
                           /\ store'[i].locks = store[i].locks
                           /\ store'[i].results = store[i].results
<1>1. /\ pc = "judge" /\ pc' \in {"select", "done"}
      /\ UNCHANGED <<known, distinct, revision>>
  BY DEF Reject, Accept, Reach, counters
<1>2. PICK x : Judges(x)
  BY RejectRewrites, AcceptRewrites, ReachRewrites
<1>3. TrialId(revision) \in Ids /\ store[TrialId(revision)] # NoCheckpoint
  BY <1>1, TrialOnRecord
<1>4. /\ store'[TrialId(revision)] = x /\ x # NoCheckpoint
      /\ \A i \in Ids \ {TrialId(revision)} : store'[i] = store[i]
  BY <1>2, <1>3, StateFacts, NoCheckpointIsNone DEF Judges
<1> QED BY <1>1, <1>2, <1>3, <1>4 DEF Judges

\* A refresh rewrites the record of the working checkpoint only.
LEMMA RefreshRewrites ==
  ASSUME IInv, NEW results, Refreshes(results)
  PROVE  \A i \in Ids : /\ store'[i] = NoCheckpoint <=> store[i] = NoCheckpoint
                        /\ store'[i].parent = store[i].parent
                        /\ store'[i].patch = store[i].patch
                        /\ store'[i].status = store[i].status
                        /\ i # working.id => store'[i] = store[i]
BY StateFacts, NoCheckpointIsNone DEF Refreshes

\* Every step keeps the count.
LEMMA CountStep == IInv /\ SearchInv /\ CountInv /\ [Next]_vars => CountInv'
<1> SUFFICES ASSUME IInv, SearchInv, CountInv, [Next]_vars PROVE CountInv'
  OBVIOUS
<1>1. CASE \/ InitialGenerationEmpty \/ TargetRecovery \/ ProbeDone \/ RecoverEvidence
           \/ ExhaustAction \/ RepairFails \/ RepairRepeatsPatch \/ LeaveLoop
           \/ BudgetExhausted \/ Seal
  <2>1. /\ UNCHANGED <<store, distinct, revision>> /\ pc' # "evaluate"
    BY <1>1 DEF InitialGenerationEmpty, TargetRecovery, ProbeDone, RecoverEvidence, ExhaustAction,
                RepairFails, RepairRepeatsPatch, LeaveLoop, BudgetExhausted, Seal, counters
  <2> QED BY <2>1, CountKept
<1>2. ASSUME NEW i \in Ids, SelectToExecute(i) \/ SelectToExpand(i) \/ SelectToProbe(i)
      PROVE  CountInv'
  <2>1. /\ UNCHANGED <<store, distinct, revision>> /\ pc' # "evaluate"
    BY <1>2 DEF SelectToExecute, SelectToExpand, SelectToProbe, Switch, counters
  <2> QED BY <2>1, CountKept
<1>3. CASE ClockExpires \/ UNCHANGED vars
  <2>1. UNCHANGED <<store, distinct, revision, pc, trial, working>>
    BY <1>3 DEF ClockExpires, vars, counters, pointers
  <2> QED BY <2>1, CountKept
<1>4. ASSUME NEW p \in Patches, InitialGeneration(p) PROVE CountInv'
  <2>1. /\ UNCHANGED <<distinct, revision>> /\ pc' # "evaluate"
        /\ \A i \in Ids \ {P0Id} : store'[i] = store[i]
    BY <1>4, StateFacts DEF InitialGeneration
  <2> QED BY <2>1, CountKept
<1>5. CASE Certify
  <2>1. UNCHANGED <<distinct, revision>> /\ pc' # "evaluate"
    BY <1>5 DEF Certify, counters
  <2>2. PICK x : store' = [store EXCEPT ![CertificateId] = x]
    BY <1>5, CertifyRecords
  <2>3. \A i \in Ids \ {CertificateId} : store'[i] = store[i]
    BY <2>2, StateFacts
  <2> QED BY <2>1, <2>3, CountKept
<1>6. CASE ExecuteParent \/ PrepareRepair
  <2>1. pc' # "evaluate"
    BY <1>6 DEF ExecuteParent, PrepareRepair
  <2>2. PICK results : Refreshes(results)
    BY <1>6, ExecuteParentRefreshes, PrepareRepairRefreshes
  <2>3. UNCHANGED <<distinct, revision>>
    BY <2>2 DEF Refreshes, counters
  <2> QED BY <2>1, <2>2, <2>3, RefreshRewrites, CountKept
<1>7. CASE Reject \/ Accept("KEEP_REPAIRING") \/ Accept("ADVANCE_SAFE") \/ Reach
  BY <1>7, VerdictRewrites, CountKept
<1> QED
  BY <1>1, <1>2, <1>3, <1>4, <1>5, <1>6, <1>7, CountRepair, CountTrial DEF Next, Finished

\* A patch is evaluated at most once as a trial, however the parents alternate;
\* and what the transition table rejected never comes back: it is no parent, no
\* pointer refers to it, it is not sealed, and graph and store agree on it.
THEOREM SearchKeepsItsMemory == Spec => []SearchRemembers
<1>1. IInv /\ SearchInv /\ [Next]_vars /\ CountInv => CountInv'
  BY CountStep
<1>2. Spec => []CountInv
  BY <1>1, IInvHolds, SearchHolds, CountInit, PTL DEF Spec
<1>3. SearchInv /\ CountInv => SearchRemembers
  BY DEF SearchInv, CountInv, SearchRemembers
<1> QED BY <1>2, <1>3, SearchHolds, PTL

-----------------------------------------------------------------------------
(* A trial is compared like with like.                                       *)

\* Only known checks are run or locked, so that a queue of all known checks
\* runs every lock again.
ChecksAreKnown ==
  \A i \in Ids :
    store[i] # NoCheckpoint => store[i].locks \cup Ran(store[i].results) \subseteq known

\* The fourth: what was run and locked, relative to the first two.
EvidenceInv == ChecksAreKnown /\ LocksAreReexamined /\ JudgedOnSameChecks

\* A step that leaves the evidence of every record alone.
LEMMA EvidenceKept ==
  ASSUME IInv, EvidenceInv, known \subseteq known',
         \/ store' = store
         \/ \A i \in Ids : /\ store'[i] = NoCheckpoint <=> store[i] = NoCheckpoint
                           /\ store'[i].locks = store[i].locks
                           /\ store'[i].results = store[i].results,
         pc' = "judge" => pc = "judge" /\ UNCHANGED <<store, revision, trial>>
  PROVE  EvidenceInv'
<1>1. \A i \in Ids : /\ store'[i] = NoCheckpoint <=> store[i] = NoCheckpoint
                     /\ store'[i].locks = store[i].locks
                     /\ store'[i].results = store[i].results
  OBVIOUS
<1>2. ChecksAreKnown'
  BY <1>1 DEF EvidenceInv, ChecksAreKnown
<1>3. LocksAreReexamined'
  BY <1>1 DEF EvidenceInv, LocksAreReexamined, History
<1>4. JudgedOnSameChecks'
  BY DEF EvidenceInv, JudgedOnSameChecks
<1> QED BY <1>2, <1>3, <1>4 DEF EvidenceInv

\* A step that writes one record, whose locks were all run and are all known.
LEMMA EvidenceWritten ==
  ASSUME IInv, EvidenceInv, known \subseteq known', pc' # "judge",
         NEW i \in Ids, NEW x, store' = [store EXCEPT ![i] = x],
         x.locks \cup Ran(x.results) \subseteq known',
         Ran(x.results) # {} => x.locks \subseteq Ran(x.results)
  PROVE  EvidenceInv'
<1>1. store'[i] = x /\ \A j \in Ids \ {i} : store'[j] = store[j]
  BY StateFacts
<1>2. ChecksAreKnown'
  BY <1>1 DEF EvidenceInv, ChecksAreKnown
<1>3. LocksAreReexamined'
  BY <1>1 DEF EvidenceInv, LocksAreReexamined, History
<1>4. JudgedOnSameChecks'
  BY DEF JudgedOnSameChecks
<1> QED BY <1>2, <1>3, <1>4 DEF EvidenceInv

\* What the working record, once in the loop, shows of its locks.
LEMMA WorkingEvidence ==
  ASSUME IInv, SearchInv, EvidenceInv
  PROVE  /\ locks \cup Ran(working.results) \subseteq known
         /\ pc \notin {"initial", "finish", "done"} /\ Ran(working.results) # {}
              => locks \subseteq Ran(working.results)
<1>1. /\ working.id \in Ids /\ working = store[working.id] /\ working # NoCheckpoint
      /\ locks = working.locks
  BY StateFacts
<1>2. pc \notin {"initial", "finish", "done"} => working.id \in History
  BY <1>1 DEF SearchInv, CaseIsOpen, History
<1> QED BY <1>1, <1>2 DEF EvidenceInv, ChecksAreKnown, LocksAreReexamined

\* A refresh runs every lock again or changes neither results nor locks.
LEMMA EvidenceRefreshed ==
  ASSUME IInv, SearchInv, EvidenceInv, NEW results, Refreshes(results),
         pc \in {"execute", "diagnose"}, pc' # "judge"
  PROVE  EvidenceInv'
<1>1. /\ locks \cup Ran(working.results) \subseteq known
      /\ Ran(working.results) # {} => locks \subseteq Ran(working.results)
  BY WorkingEvidence
<1>2. /\ working'.results = results
      /\ working'.locks \subseteq locks \cup Passing(results, Checks)
      /\ results = working.results \/ (locks \subseteq known => locks \subseteq Ran(results))
      /\ Ran(results) \subseteq Ran(working.results) \cup known'
      /\ store' = [store EXCEPT ![working.id] = working']
      /\ known \subseteq known'
  BY DEF Refreshes
<1>3. Passing(results, Checks) \subseteq Ran(results)
  BY PassingRan
<1>4. /\ working'.locks \cup Ran(results) \subseteq known'
      /\ Ran(results) # {} => working'.locks \subseteq Ran(results)
  BY <1>1, <1>2, <1>3
<1> QED BY <1>2, <1>4, StateFacts, EvidenceWritten

\* The trial is run on all its locks, on known checks, and on none its parent
\* is not run on.
LEMMA EvidenceOfTrial ==
  ASSUME IInv, SearchInv, EvidenceInv, EvaluateTrial
  PROVE  EvidenceInv'
<1> DEFINE id == TrialId(revision)
<1>1. pc = "evaluate" /\ pc' = "judge" /\ revision' = revision
  BY DEF EvaluateTrial, counters
<1>2. PICK x \in Checkpoint :
        /\ locks \subseteq x.locks /\ x.locks \subseteq locks \cup Ran(x.results)
        /\ locks \subseteq known => locks \subseteq Ran(x.results)
        /\ Ran(x.results) \subseteq known'
        /\ Ran(x.results) \subseteq Ran(trial'.paired)
        /\ store' = [store EXCEPT ![id] = x]
        /\ known \subseteq known'
  BY EvaluateTrialRecords
<1>3. id \in Ids
  BY StateFacts, IdsAreKnown
<1>4. locks \subseteq known
  BY WorkingEvidence
<1> HIDE DEF id
<1>5. store'[id] = x /\ \A j \in Ids \ {id} : store'[j] = store[j]
  BY <1>2, <1>3, StateFacts
<1>6. ChecksAreKnown'
  BY <1>2, <1>4, <1>5 DEF EvidenceInv, ChecksAreKnown
<1>7. LocksAreReexamined'
  BY <1>2, <1>4, <1>5 DEF EvidenceInv, LocksAreReexamined, History
<1>8. JudgedOnSameChecks'
  BY <1>1, <1>2, <1>5 DEF JudgedOnSameChecks, id
<1> QED BY <1>6, <1>7, <1>8 DEF EvidenceInv

\* The bootstrap has neither locks nor evidence.
LEMMA EvidenceInit == Init => EvidenceInv
<1> SUFFICES ASSUME Init PROVE EvidenceInv
  OBVIOUS
<1>1. \A i \in Ids : store[i] # NoCheckpoint => i = BootId /\ store[i] = Boot
  BY DEF Init
<1>2. Boot.locks = {} /\ Ran(Boot.results) = {}
  BY DEF Boot, Ran, NoResults
<1>3. pc = "initial"
  BY DEF Init
<1> QED BY <1>1, <1>2, <1>3
  DEF EvidenceInv, ChecksAreKnown, LocksAreReexamined, JudgedOnSameChecks, History

\* Every step keeps the evidence comparable.
LEMMA EvidenceStep == IInv /\ SearchInv /\ EvidenceInv /\ [Next]_vars => EvidenceInv'
<1> SUFFICES ASSUME IInv, SearchInv, EvidenceInv, [Next]_vars PROVE EvidenceInv'
  OBVIOUS
<1>1. CASE \/ InitialGenerationEmpty \/ TargetRecovery \/ ProbeDone \/ RecoverEvidence
           \/ ExhaustAction \/ RepairFails \/ RepairRepeatsPatch \/ LeaveLoop
           \/ BudgetExhausted \/ Seal
  <2>1. store' = store /\ known \subseteq known' /\ (pc' # "judge")
    BY <1>1 DEF InitialGenerationEmpty, TargetRecovery, ProbeDone, RecoverEvidence, ExhaustAction,
                RepairFails, RepairRepeatsPatch, LeaveLoop, BudgetExhausted, Seal
  <2> QED BY <2>1, EvidenceKept
<1>2. ASSUME NEW i \in Ids, SelectToExecute(i) \/ SelectToExpand(i) \/ SelectToProbe(i)
      PROVE  EvidenceInv'
  <2>1. UNCHANGED <<store, known>> /\ pc' # "judge"
    BY <1>2 DEF SelectToExecute, SelectToExpand, SelectToProbe, Switch
  <2> QED BY <2>1, EvidenceKept
<1>3. ASSUME NEW p \in Patches, Repair(p) PROVE EvidenceInv'
  <2>1. UNCHANGED <<store, known>> /\ pc' # "judge"
    BY <1>3 DEF Repair
  <2> QED BY <2>1, EvidenceKept
<1>4. CASE ClockExpires \/ UNCHANGED vars
  <2>1. UNCHANGED <<store, known, revision, pc, trial>>
    BY <1>4 DEF ClockExpires, vars, counters, pointers
  <2> QED BY <2>1, EvidenceKept
<1>5. ASSUME NEW p \in Patches, InitialGeneration(p) PROVE EvidenceInv'
  <2>1. PICK x : /\ x.results = NoResults /\ x.locks = locks
                 /\ store' = [store EXCEPT ![P0Id] = x]
    BY <1>5, InitialGenerationRecords
  <2>2. known' = known /\ pc' # "judge"
    BY <1>5 DEF InitialGeneration
  <2>3. Ran(NoResults) = {}
    BY DEF Ran, NoResults
  <2> QED BY <2>1, <2>2, <2>3, WorkingEvidence, IdsAreKnown, EvidenceWritten
<1>6. CASE Certify
  <2>1. PICK x : /\ x.results = working.results /\ x.locks = locks
                 /\ store' = [store EXCEPT ![CertificateId] = x]
    BY <1>6, CertifyRecords
  <2>2. known' = known /\ pc' # "judge" /\ pc = "diagnose"
    BY <1>6 DEF Certify
  <2> QED BY <2>1, <2>2, WorkingEvidence, IdsAreKnown, EvidenceWritten
<1>7. CASE ExecuteParent \/ PrepareRepair
  <2>1. pc \in {"execute", "diagnose"} /\ pc' # "judge"
    BY <1>7 DEF ExecuteParent, PrepareRepair
  <2>2. PICK results : Refreshes(results)
    BY <1>7, ExecuteParentRefreshes, PrepareRepairRefreshes
  <2> QED BY <2>1, <2>2, EvidenceRefreshed
<1>8. CASE Reject \/ Accept("KEEP_REPAIRING") \/ Accept("ADVANCE_SAFE") \/ Reach
  BY <1>8, VerdictRewrites, EvidenceKept
<1> QED
  BY <1>1, <1>2, <1>3, <1>4, <1>5, <1>6, <1>7, <1>8, EvidenceOfTrial DEF Next, Finished

\* Trial and parent are judged on the same checks, and a record with evidence
\* has evidence on each of its locks: a lock that was lost cannot be carried
\* along behind a check that was not run.
THEOREM TrialsAreJudgedAlike == Spec => []TrialsAreComparable
<1>1. IInv /\ SearchInv /\ [Next]_vars /\ EvidenceInv => EvidenceInv'
  BY EvidenceStep
<1>2. Spec => []EvidenceInv
  BY <1>1, IInvHolds, SearchHolds, EvidenceInit, PTL DEF Spec
<1>3. EvidenceInv => TrialsAreComparable
  BY DEF EvidenceInv, TrialsAreComparable
<1> QED BY <1>2, <1>3, PTL

-----------------------------------------------------------------------------
(* The end of a case.                                                        *)

\* The transition table reaches only when the Reach condition holds.
LEMMA ReachIsConditional ==
  ASSUME NEW parent, NEW child, NEW locked,
         DecideTransition(parent, child, locked) = "REACHED"
  PROVE  AllReachConditions(child.mech, child.results)
BY DEF DecideTransition

\* A final candidate passed the filter, and a record that passes it has a
\* candidate of its name.
LEMMA FinalIsFiltered ==
  /\ \A x \in FinalCandidates : MayBeFinal(x)
  /\ \A i \in History : MayBeFinal(store[i]) => FinalCandidates # {}
<1>1. \A i : FinalCopy(i) # NoCheckpoint => MayBeFinal(FinalCopy(i))
  BY DEF FinalCopy
<1>2. ASSUME NEW i \in History, MayBeFinal(store[i]) PROVE FinalCandidates # {}
  <2>1. i \in Ids /\ i # BootId /\ store[i] # NoCheckpoint
    BY DEF History
  <2>2. FinalCopy(i) # NoCheckpoint
    BY <1>2, <2>1 DEF FinalCopy, MayBeFinal
  <2> QED BY <2>1, <2>2 DEF FinalCandidates
<1> QED BY <1>1, <1>2 DEF FinalCandidates

\* A case begins without an outcome.
LEMMA OutcomeInit == Init => OutcomeIsEarned
BY DEF Init, OutcomeIsEarned, ReachedIsEvidenced, FallbackIsLastResort, Running

\* The certificate is a copy of a record that meets the Reach condition.
LEMMA OutcomeCertified ==
  ASSUME IInv, SearchInv, Certify
  PROVE  OutcomeIsEarned'
<1>1. PICK x \in Checkpoint :
        /\ x.id = CertificateId /\ x.patch = working.patch /\ x.results = working.results
        /\ x.eligible = TRUE /\ x.certified = TRUE
        /\ store' = [store EXCEPT ![CertificateId] = x]
        /\ working' = x /\ safe' = x /\ certified' = x
  BY CertifyRecords
<1>2. /\ AllReachConditions(MechanicalOf[working.patch], working.results)
      /\ Closed(working.results) /\ known' = known
      /\ outcome' = [status |-> "SEALED", final |-> CertificateId, cause |-> "REACHED"]
  BY DEF Certify
<1>3. store'[CertificateId] = x
  BY <1>1, StateFacts, IdsAreKnown
<1>4. AllReachConditions(MechanicalOf[x.patch], x.results) /\ Closed(x.results)'
  BY <1>1, <1>2 DEF Closed
<1>5. ReachedIsEvidenced'
  BY <1>1, <1>2, <1>3, <1>4 DEF ReachedIsEvidenced
<1>6. FallbackIsLastResort'
  BY <1>2 DEF FallbackIsLastResort
<1> QED BY <1>5, <1>6 DEF OutcomeIsEarned

\* The table says REACHED of a trial only on its own evidence.
LEMMA OutcomeReached ==
  ASSUME IInv, SearchInv, Reach
  PROVE  OutcomeIsEarned'
<1> DEFINE id == TrialId(revision)
<1>1. /\ pc = "judge" /\ "REACHED" \in Verdicts /\ known' = known
      /\ outcome' = [status |-> "SEALED", final |-> id, cause |-> "REACHED"]
  BY DEF Reach
<1>2. PICK x : /\ Judges(x) /\ x.eligible = TRUE /\ x.certified = TRUE
               /\ working' = x /\ safe' = x /\ certified' = x
  BY ReachRewrites
<1>3. /\ store'[id] = x /\ x.patch = store[id].patch /\ x.results = store[id].results
  BY <1>1, <1>2, StateFacts, TrialOnRecord DEF Judges
<1>4. /\ AllReachConditions(MechanicalOf[store[id].patch], store[id].results)
      /\ Closed(store[id].results)
  <2> DEFINE parent == Side(working, trial.paired)
             child  == Side(store[id], store[id].results)
  <2>1. /\ DecideTransition(parent, child, working.locks) = "REACHED"
        /\ Closed(store[id].results)
    BY <1>1 DEF Verdicts
  <2>2. child.mech = MechanicalOf[store[id].patch] /\ child.results = store[id].results
    BY DEF Side
  <2> HIDE DEF parent, child
  <2>3. AllReachConditions(child.mech, child.results)
    BY <2>1, ReachIsConditional
  <2> QED BY <2>1, <2>2, <2>3
<1> HIDE DEF id
<1>5. AllReachConditions(MechanicalOf[x.patch], x.results) /\ Closed(x.results)'
  BY <1>1, <1>3, <1>4 DEF Closed
<1>6. ReachedIsEvidenced'
  BY <1>1, <1>2, <1>3, <1>5 DEF ReachedIsEvidenced
<1>7. FallbackIsLastResort'
  BY <1>1 DEF FallbackIsLastResort
<1> QED BY <1>6, <1>7 DEF OutcomeIsEarned

\* The seal takes a candidate while there is one.
LEMMA OutcomeSealed ==
  ASSUME IInv, SearchInv, Seal
  PROVE  OutcomeIsEarned'
<1>1. /\ pc = "finish" /\ certified = NoCheckpoint
      /\ UNCHANGED <<store, rejected>>
  BY DEF Seal, SearchInv, CaseIsOpen
<1>2. PICK x : /\ x \in FinalCandidates \/ FinalCandidates = {}
               /\ outcome' = OutputOf(x, "BEST_EFFORT")
  BY <1>1 DEF Seal
<1>3. outcome'.cause # "REACHED"
      /\ (outcome'.cause = "BEST_EFFORT" => outcome'.final = x.id /\ x = store[x.id])
  BY <1>2 DEF OutputOf
<1>4. CASE x \in FinalCandidates
  <2>1. outcome'.cause = "BEST_EFFORT" => MayBeFinal(store[outcome'.final])
    BY <1>3, <1>4, FinalIsFiltered
  <2> QED BY <1>1, <1>3, <2>1
      DEF OutcomeIsEarned, ReachedIsEvidenced, FallbackIsLastResort, MayBeFinal
<1>5. CASE FinalCandidates = {}
  <2>1. \A i \in History : ~MayBeFinal(store[i])
    BY <1>5, FinalIsFiltered
  <2> QED BY <1>1, <1>3, <2>1
      DEF OutcomeIsEarned, ReachedIsEvidenced, FallbackIsLastResort, MayBeFinal, History
<1> QED BY <1>2, <1>4, <1>5

\* An outcome is earned when it is written, and nothing moves after it.
LEMMA OutcomeStep == IInv /\ SearchInv /\ SearchInv' /\ OutcomeIsEarned /\ [Next]_vars
                       => OutcomeIsEarned'
<1> SUFFICES ASSUME IInv, SearchInv, SearchInv', OutcomeIsEarned, [Next]_vars
             PROVE  OutcomeIsEarned'
  OBVIOUS
<1>1. CASE pc' # "done"
  <2>1. outcome' = [status |-> Running, final |-> BootId, cause |-> "NONE"]
    BY <1>1 DEF SearchInv, CaseIsOpen
  <2> QED BY <2>1 DEF OutcomeIsEarned, ReachedIsEvidenced, FallbackIsLastResort, Running
<1>2. CASE UNCHANGED vars
  BY <1>2 DEF vars, pointers, OutcomeIsEarned, ReachedIsEvidenced, FallbackIsLastResort,
              MayBeFinal, History, Closed
<1>3. CASE InitialGenerationEmpty /\ pc' = "done"
  <2>1. outcome' = OutputOf(working, "GENERATOR_BLOCKED_EXTERNAL") \/ pc = "done"
    BY <1>3 DEF InitialGenerationEmpty
  <2>2. outcome'.cause \notin {"REACHED", "BEST_EFFORT"}
    BY <1>3, <2>1 DEF InitialGenerationEmpty, OutputOf
  <2> QED BY <2>2 DEF OutcomeIsEarned, ReachedIsEvidenced, FallbackIsLastResort
<1>4. CASE \/ TargetRecovery \/ ProbeDone \/ RecoverEvidence \/ ExhaustAction \/ RepairFails
           \/ RepairRepeatsPatch \/ LeaveLoop \/ BudgetExhausted \/ EvaluateTrial \/ Reject
           \/ Accept("KEEP_REPAIRING") \/ Accept("ADVANCE_SAFE") \/ ExecuteParent \/ PrepareRepair
           \/ ClockExpires
  <2>1. pc' # "done"
    BY <1>4 DEF TargetRecovery, ProbeDone, RecoverEvidence, ExhaustAction, RepairFails,
                RepairRepeatsPatch, LeaveLoop, BudgetExhausted, EvaluateTrial, Reject, Accept,
                ExecuteParent, PrepareRepair, ClockExpires
  <2> QED BY <1>1, <2>1
<1>5. ASSUME NEW p \in Patches, InitialGeneration(p) \/ Repair(p) PROVE OutcomeIsEarned'
  <2>1. pc' # "done"
    BY <1>5 DEF InitialGeneration, Repair
  <2> QED BY <1>1, <2>1
<1>6. ASSUME NEW i \in Ids, SelectToExecute(i) \/ SelectToExpand(i) \/ SelectToProbe(i)
      PROVE  OutcomeIsEarned'
  <2>1. pc' # "done"
    BY <1>6 DEF SelectToExecute, SelectToExpand, SelectToProbe, Switch
  <2> QED BY <1>1, <2>1
<1> QED
  BY <1>1, <1>2, <1>3, <1>4, <1>5, <1>6, OutcomeCertified, OutcomeReached, OutcomeSealed
  DEF Next, Finished

\* A case that ends as REACHED sealed a record whose own evidence meets the
\* Reach condition; a best-effort result is regressed, inapplicable or rejected
\* only when every checkpoint on record is.
THEOREM OutcomesAreEarned == Spec => []OutcomeIsEarned
<1>1. IInv /\ SearchInv /\ SearchInv' /\ [Next]_vars /\ OutcomeIsEarned => OutcomeIsEarned'
  BY OutcomeStep
<1> QED BY <1>1, IInvHolds, SearchHolds, OutcomeInit, PTL DEF Spec

-----------------------------------------------------------------------------
(* Locks only grow.                                                          *)

\* No record loses a lock in this step, and a new one has those of its parent.
LocksGrow ==
  \A i \in Ids : store'[i] # NoCheckpoint =>
    IF store[i] # NoCheckpoint THEN store[i].locks \subseteq store'[i].locks
    ELSE store'[i].parent # BootId
           => store[store'[i].parent].locks \subseteq store'[i].locks

\* A step that writes one record, over one with fewer locks or below one with
\* fewer locks.
LEMMA LocksWritten ==
  ASSUME IInv, NEW i \in Ids, NEW x, store' = [store EXCEPT ![i] = x],
         IF store[i] # NoCheckpoint THEN store[i].locks \subseteq x.locks
         ELSE x.parent # BootId => store[x.parent].locks \subseteq x.locks
  PROVE  LocksGrow
<1>1. store'[i] = x /\ \A j \in Ids \ {i} : store'[j] = store[j]
  BY StateFacts
<1> QED BY <1>1 DEF LocksGrow

\* Every step keeps the locks of every record.
LEMMA LocksStep == IInv /\ SearchInv /\ [Next]_vars => LocksGrow
<1> SUFFICES ASSUME IInv, SearchInv, [Next]_vars PROVE LocksGrow
  OBVIOUS
<1>0. /\ working.id \in Ids /\ working = store[working.id] /\ working # NoCheckpoint
      /\ locks = working.locks
  BY StateFacts
<1>1. CASE store' = store
  BY <1>1 DEF LocksGrow
<1>2. CASE \/ InitialGenerationEmpty \/ TargetRecovery \/ ProbeDone \/ RecoverEvidence
           \/ ExhaustAction \/ RepairFails \/ RepairRepeatsPatch \/ LeaveLoop
           \/ BudgetExhausted \/ Seal \/ ClockExpires \/ UNCHANGED vars
  <2>1. store' = store
    BY <1>2 DEF InitialGenerationEmpty, TargetRecovery, ProbeDone, RecoverEvidence, ExhaustAction,
                RepairFails, RepairRepeatsPatch, LeaveLoop, BudgetExhausted, Seal,
                ClockExpires, vars
  <2> QED BY <1>1, <2>1
<1>3. ASSUME NEW i \in Ids, SelectToExecute(i) \/ SelectToExpand(i) \/ SelectToProbe(i)
      PROVE  LocksGrow
  BY <1>1, <1>3 DEF SelectToExecute, SelectToExpand, SelectToProbe
<1>4. ASSUME NEW p \in Patches, Repair(p) PROVE LocksGrow
  BY <1>1, <1>4 DEF Repair
<1>5. ASSUME NEW p \in Patches, InitialGeneration(p) PROVE LocksGrow
  <2>1. PICK x : x.parent = BootId /\ store' = [store EXCEPT ![P0Id] = x]
    BY <1>5, InitialGenerationRecords
  <2>2. P0Id \in Ids /\ store[P0Id] = NoCheckpoint
    BY <1>5, IdsAreKnown DEF InitialGeneration, SearchInv, CaseIsOpen, P0Id, BootId
  <2> QED BY <2>1, <2>2, LocksWritten
<1>6. CASE Certify
  <2>1. PICK x : /\ x.parent = working.id /\ x.locks = locks
                 /\ store' = [store EXCEPT ![CertificateId] = x]
    BY <1>6, CertifyRecords
  <2>2. CertificateId \in Ids /\ store[CertificateId] = NoCheckpoint
    BY <1>6, CertificateIsFree DEF Certify
  <2> QED BY <1>0, <2>1, <2>2, LocksWritten
<1>7. CASE EvaluateTrial
  <2>1. PICK x : /\ x.parent = working.id /\ locks \subseteq x.locks
                 /\ store' = [store EXCEPT ![TrialId(revision)] = x]
    BY <1>7, EvaluateTrialRecords
  <2>2. TrialId(revision) \in Ids /\ store[TrialId(revision)] = NoCheckpoint
    BY <1>7, StateFacts, IdsAreKnown DEF EvaluateTrial, SearchInv, TrialIsALeaf
  <2> QED BY <1>0, <2>1, <2>2, LocksWritten
<1>8. CASE ExecuteParent \/ PrepareRepair
  <2>1. PICK results : Refreshes(results)
    BY <1>8, ExecuteParentRefreshes, PrepareRepairRefreshes
  <2>2. locks \subseteq working'.locks /\ store' = [store EXCEPT ![working.id] = working']
    BY <2>1 DEF Refreshes
  <2> QED BY <1>0, <2>2, LocksWritten
<1>9. CASE Reject \/ Accept("KEEP_REPAIRING") \/ Accept("ADVANCE_SAFE") \/ Reach
  BY <1>9, VerdictRewrites DEF LocksGrow
<1> QED
  BY <1>2, <1>3, <1>4, <1>5, <1>6, <1>7, <1>8, <1>9 DEF Next, Finished

\* A lock is never taken back: no refresh, verdict or switch removes one from a
\* record, and every child starts from the locks of its parent.
THEOREM LocksAreNeverDropped == Spec => LocksOnlyGrow
<1>1. IInv /\ SearchInv /\ [Next]_vars => [LocksGrow]_vars
  BY LocksStep
<1> QED BY <1>1, IInvHolds, SearchHolds, PTL DEF Spec, LocksOnlyGrow, LocksGrow

-----------------------------------------------------------------------------
(* Refinement of PatchLineage.                                               *)

\* The nodes of the lineage are the records, without those rejected.
LEMMA PresentIsStored ==
  ASSUME IInv, NEW n \in Ids
  PROVE  /\ Lineage!Present(n) <=> store[n] # NoCheckpoint
         /\ Lineage!Alive(n) <=> store[n] # NoCheckpoint /\ store[n].status # "REJECTED"
<1>1. store[n] # NoCheckpoint =>
        [parent |-> store[n].parent, patch |-> store[n].patch] # NoCheckpoint
  BY StateFacts, NoCheckpointIsNone DEF Checkpoint
<1>2. Lineage!Present(n) <=> store[n] # NoCheckpoint
  BY <1>1 DEF Lineage!Present
<1> QED BY <1>2 DEF Lineage!Alive

\* The lineage as the records have it.
Lines == [i \in Ids |-> IF store[i] = NoCheckpoint THEN NoCheckpoint
                        ELSE [parent |-> store[i].parent, patch |-> store[i].patch]]
\* What the lineage has ruled out, and how it ended.
RuledOut == {i \in Ids : store[i] # NoCheckpoint /\ store[i].status = "REJECTED"}
Ending == CASE outcome.status = Running   -> [status |-> "UNDECIDED", node |-> BootId]
            [] outcome.status = "CRASHED" -> [status |-> "FAILED", node |-> BootId]
            [] OTHER -> [status |-> "ENDED", node |-> outcome.final]

\* Records that keep parent and patch keep the lineage.
LEMMA LinesKept ==
  ASSUME \A i \in Ids : /\ store'[i] = NoCheckpoint <=> store[i] = NoCheckpoint
                        /\ store'[i].parent = store[i].parent
                        /\ store'[i].patch = store[i].patch
  PROVE  Lines' = Lines
BY DEF Lines

\* Records that keep their status are ruled out as before.
LEMMA RuledOutKept ==
  ASSUME \A i \in Ids : /\ store'[i] = NoCheckpoint <=> store[i] = NoCheckpoint
                        /\ store'[i].status = store[i].status
  PROVE  RuledOut' = RuledOut
BY DEF RuledOut

\* A new record is a new line, and is not ruled out.
LEMMA LineAdded ==
  ASSUME IInv, NEW n \in Ids, store[n] = NoCheckpoint,
         NEW x \in Checkpoint, store' = [store EXCEPT ![n] = x],
         x.parent = working.id, x.status # "REJECTED"
  PROVE  /\ Lines[n] = NoCheckpoint
         /\ Lines' = [Lines EXCEPT ![n] = [parent |-> working.id, patch |-> x.patch]]
         /\ RuledOut' = RuledOut
<1>1. store'[n] = x /\ x # NoCheckpoint /\ \A j \in Ids \ {n} : store'[j] = store[j]
  BY StateFacts, NoCheckpointIsNone
<1> QED BY <1>1 DEF Lines, RuledOut

\* A case that has not ended has no result.
LEMMA Unended ==
  ASSUME SearchInv, pc # "done"
  PROVE  Ending = [status |-> "UNDECIDED", node |-> BootId]
BY DEF SearchInv, CaseIsOpen, Ending, Running

\* A step that does not concern the lineage.
LEMMA LineageStutters ==
  ASSUME UNCHANGED outcome, working'.id = working.id,
         store' = store \/ (Lines' = Lines /\ RuledOut' = RuledOut)
  PROVE  UNCHANGED Lineage!lineageVars
<1>1. Lines' = Lines /\ RuledOut' = RuledOut /\ Ending' = Ending
  BY DEF Lines, RuledOut, Ending
<1> QED BY <1>1 DEF Lineage!lineageVars, Lines, RuledOut, Ending

\* The search moves to a checkpoint that is not rejected.
LEMMA LineageMoves ==
  ASSUME IInv, SearchInv, pc # "done", UNCHANGED outcome, NEW i \in Ids \ {BootId},
         store[i] # NoCheckpoint, store[i].status # "REJECTED", working'.id = i,
         store' = store \/ (Lines' = Lines /\ RuledOut' = RuledOut)
  PROVE  Lineage!Move(i)
<1>1. Lines' = Lines /\ RuledOut' = RuledOut /\ Ending' = Ending
  BY DEF Lines, RuledOut, Ending
<1>2. Lineage!Alive(i)
  BY PresentIsStored
<1> QED BY <1>1, <1>2, Unended DEF Lineage!Move, Lineage!Undecided, Lines, RuledOut, Ending

\* The case ends with a checkpoint on record, or fails.
LEMMA LineageEnds ==
  ASSUME IInv, SearchInv, pc # "done", UNCHANGED <<store, working>>,
         NEW x \in Checkpoint, store[x.id] # NoCheckpoint, store[x.id].status # "REJECTED",
         NEW claim, outcome' = OutputOf(x, claim)
  PROVE  Lineage!LineageNext
<1>1. x.id \in Ids /\ Lineage!Alive(x.id)
  BY PresentIsStored DEF Checkpoint
<1>2. Lines' = Lines /\ RuledOut' = RuledOut
  BY DEF Lines, RuledOut
<1>3. CASE outcome'.status = "CRASHED"
  <2>1. Ending' = [status |-> "FAILED", node |-> BootId]
    BY <1>3 DEF Ending, Running
  <2>2. Lineage!Fail
    BY <1>2, <2>1, Unended DEF Lineage!Fail, Lineage!Undecided, Lines, RuledOut, Ending
  <2> QED BY <2>2 DEF Lineage!LineageNext
<1>4. CASE outcome'.status = "SEALED" /\ outcome'.final = x.id
  <2>1. Ending' = [status |-> "ENDED", node |-> x.id]
    BY <1>4 DEF Ending, Running
  <2>2. Lineage!End(x.id)
    BY <1>1, <1>2, <2>1, Unended
       DEF Lineage!End, Lineage!EndedWith, Lineage!Undecided, Lines, RuledOut, Ending
  <2> QED BY <1>1, <2>2 DEF Lineage!LineageNext
<1>5. outcome'.status = "CRASHED" \/ (outcome'.status = "SEALED" /\ outcome'.final = x.id)
  BY DEF OutputOf
<1> QED BY <1>3, <1>4, <1>5

\* Every step of the case is a step of the lineage or leaves it alone.
LEMMA LineageStep ==
  IInv /\ SearchInv /\ CountInv /\ SearchInv' /\ [Next]_vars
    => [Lineage!LineageNext]_Lineage!lineageVars
<1> SUFFICES ASSUME IInv, SearchInv, CountInv, SearchInv', [Next]_vars
             PROVE  Lineage!LineageNext \/ UNCHANGED Lineage!lineageVars
  OBVIOUS
<1>0. /\ working.id \in Ids /\ working = store[working.id] /\ working # NoCheckpoint
      /\ working.status # "REJECTED"
  BY StateFacts, WorkingNode
<1>1. CASE InitialGenerationEmpty
  <2>1. CASE outcome' = outcome
    BY <1>1, <2>1, LineageStutters DEF InitialGenerationEmpty, pointers
  <2>2. CASE outcome' = OutputOf(working, "GENERATOR_BLOCKED_EXTERNAL")
    <3>1. pc # "done" /\ UNCHANGED <<store, working>>
      BY <1>1 DEF InitialGenerationEmpty, pointers
    <3> QED BY <1>0, <2>2, <3>1, StateFacts, LineageEnds
  <2> QED BY <1>1, <2>1, <2>2 DEF InitialGenerationEmpty
<1>2. ASSUME NEW p \in Patches, InitialGeneration(p)
      PROVE  Lineage!LineageNext
  <2>1. PICK x \in Checkpoint :
          /\ x.id = P0Id /\ x.parent = BootId /\ x.patch = p /\ x.status = "P0"
          /\ store' = [store EXCEPT ![P0Id] = x] /\ working' = x
    BY <1>2, InitialGenerationRecords
  <2>2. /\ pc = "initial" /\ outcome' = outcome /\ P0Id \in Ids
        /\ working.id = BootId /\ store[P0Id] = NoCheckpoint
    BY <1>2, IdsAreKnown DEF InitialGeneration, SearchInv, CaseIsOpen, P0Id, BootId
  <2>3. /\ Lines[P0Id] = NoCheckpoint
        /\ Lines' = [Lines EXCEPT ![P0Id] = [parent |-> BootId, patch |-> p]]
        /\ RuledOut' = RuledOut
    BY <2>1, <2>2, LineAdded, ZenonT(60)
  <2>4. Ending = [status |-> "UNDECIDED", node |-> BootId] /\ Ending' = Ending
    BY <2>2, Unended DEF Ending
  <2>5. Lineage!Found(P0Id, p)
    BY <2>1, <2>2, <2>3, <2>4
       DEF Lineage!Found, Lineage!Child, Lineage!Undecided, Lines, RuledOut, Ending
  <2> QED BY <2>2, <2>5 DEF Lineage!LineageNext
<1>3. CASE \/ TargetRecovery \/ ProbeDone \/ RecoverEvidence \/ ExhaustAction \/ RepairFails
           \/ RepairRepeatsPatch \/ LeaveLoop \/ BudgetExhausted \/ ClockExpires
           \/ UNCHANGED vars
  <2>1. UNCHANGED <<store, working, outcome>>
    BY <1>3 DEF TargetRecovery, ProbeDone, RecoverEvidence, ExhaustAction, RepairFails,
                RepairRepeatsPatch, LeaveLoop, BudgetExhausted, ClockExpires, vars, pointers
  <2> QED BY <2>1, LineageStutters
<1>4. ASSUME NEW p \in Patches, Repair(p) PROVE UNCHANGED Lineage!lineageVars
  <2>1. UNCHANGED <<store, working, outcome>>
    BY <1>4 DEF Repair, pointers
  <2> QED BY <2>1, LineageStutters
<1>5. ASSUME NEW i \in Ids, SelectToExecute(i) \/ SelectToExpand(i) \/ SelectToProbe(i)
      PROVE  Lineage!LineageNext
  <2>1. /\ UNCHANGED <<store, outcome>> /\ pc = "select"
        /\ i \in Ids \ {BootId} /\ store[i] # NoCheckpoint /\ graph[i].status # "REJECTED"
        /\ working' = store[i]
    BY <1>5 DEF SelectToExecute, SelectToExpand, SelectToProbe, Switch, History
  <2>2. store[i].status # "REJECTED" /\ store[i].id = i
    BY <2>1, StateFacts DEF SearchInv, GraphMirrorsStore
  <2>3. Lineage!Move(i)
    BY <2>1, <2>2, LineageMoves
  <2> QED BY <2>1, <2>3 DEF Lineage!LineageNext
<1>6. CASE ExecuteParent \/ PrepareRepair
  <2>1. PICK results : Refreshes(results)
    BY <1>6, ExecuteParentRefreshes, PrepareRepairRefreshes
  <2>2. Lines' = Lines /\ RuledOut' = RuledOut
    BY <2>1, RefreshRewrites, LinesKept, RuledOutKept
  <2>3. working'.id = working.id /\ outcome' = outcome
    BY <2>1 DEF Refreshes
  <2> QED BY <2>2, <2>3, LineageStutters
<1>7. CASE Certify
  <2>1. PICK x \in Checkpoint :
          /\ x.id = CertificateId /\ x.parent = working.id /\ x.patch = working.patch
          /\ x.status = "CERTIFIED"
          /\ store' = [store EXCEPT ![CertificateId] = x] /\ working' = x
    BY <1>7, CertifyRecords
  <2>2. /\ pc = "diagnose" /\ working.id # BootId
        /\ outcome' = [status |-> "SEALED", final |-> CertificateId, cause |-> "REACHED"]
    BY <1>7 DEF Certify, SearchInv, CaseIsOpen
  <2>3. CertificateId \in Ids /\ store[CertificateId] = NoCheckpoint
    BY <2>2, CertificateIsFree
  <2>4. /\ Lines[CertificateId] = NoCheckpoint
        /\ Lines' = [Lines EXCEPT ![CertificateId] =
                       [parent |-> working.id, patch |-> Lines[working.id].patch]]
        /\ RuledOut' = RuledOut
    <3>1. Lines[working.id].patch = working.patch
      BY <1>0 DEF Lines
    <3>2. /\ Lines[CertificateId] = NoCheckpoint
          /\ Lines' = [Lines EXCEPT ![CertificateId] = [parent |-> working.id, patch |-> x.patch]]
          /\ RuledOut' = RuledOut
      BY <2>1, <2>3, LineAdded
    <3> QED BY <2>1, <3>1, <3>2
  <2>5. /\ Ending = [status |-> "UNDECIDED", node |-> BootId]
        /\ Ending' = [status |-> "ENDED", node |-> CertificateId]
    BY <2>2, Unended DEF Ending, Running
  <2>6. Lineage!CertifyCopy(CertificateId)
    BY <2>1, <2>2, <2>4, <2>5
       DEF Lineage!CertifyCopy, Lineage!Child, Lineage!Undecided, Lineage!EndedWith,
           Lines, RuledOut, Ending
  <2> QED BY <2>3, <2>6 DEF Lineage!LineageNext
<1>8. CASE EvaluateTrial
  <2>id. PICK id \in Ids : id = TrialId(revision)
    BY StateFacts, IdsAreKnown
  <2>patch. PICK p : p = trial.patch
    OBVIOUS
  <2>1. PICK x \in Checkpoint :
          /\ x.parent = working.id /\ x.patch = p /\ x.status = "TRIAL"
          /\ store' = [store EXCEPT ![id] = x]
    BY <1>8, <2>id, <2>patch, EvaluateTrialRecords
  <2>2. /\ pc = "evaluate" /\ UNCHANGED <<working, outcome>> /\ working.id # BootId
        /\ store[id] = NoCheckpoint /\ p \in Patches /\ p # working.patch
    BY <1>8, <2>id, <2>patch
       DEF EvaluateTrial, pointers, SearchInv, CaseIsOpen, TrialIsALeaf, CountInv,
           PatchesAreCounted, IInv, TrialIsNewest
  <2>3. /\ Lines[id] = NoCheckpoint
        /\ Lines' = [Lines EXCEPT ![id] = [parent |-> working.id, patch |-> p]]
        /\ RuledOut' = RuledOut
    BY <2>1, <2>2, LineAdded
  <2>4. Ending = [status |-> "UNDECIDED", node |-> BootId] /\ Ending' = Ending
    BY <2>2, Unended DEF Ending
  <2>5. Lines[working.id].patch = working.patch
    BY <1>0 DEF Lines
  <2>6. Lineage!Grow(id, p)
    BY <2>2, <2>3, <2>4, <2>5
       DEF Lineage!Grow, Lineage!Child, Lineage!Undecided, Lines, RuledOut, Ending
  <2> QED BY <2>2, <2>6 DEF Lineage!LineageNext
<1>9. ASSUME pc = "judge"
      PROVE  /\ TrialId(revision) \in Ids \ {BootId}
             /\ store[TrialId(revision)] # NoCheckpoint
             /\ store[TrialId(revision)].status = "TRIAL"
             /\ Lines[TrialId(revision)].parent = working.id
             /\ working.id # TrialId(revision)
             /\ \A i \in Ids : store[i] # NoCheckpoint => Lines[i].parent # TrialId(revision)
  <2>1. TrialId(revision) # BootId
    BY StateFacts DEF TrialId, BootId
  <2> QED BY <1>9, <2>1, TrialOnRecord, TrialIsOpen DEF Lines
<1>10. CASE Reject
  <2>0. PICK id \in Ids : id = TrialId(revision)
    BY StateFacts, IdsAreKnown
  <2>1. PICK x : Judges(x) /\ x.status = "REJECTED"
    BY <1>10, RejectRewrites
  <2>2. pc = "judge" /\ UNCHANGED <<working, outcome>>
    BY <1>10 DEF Reject, pointers
  <2>3. Lines' = Lines
    BY <1>10, VerdictRewrites, LinesKept
  <2>4. x # NoCheckpoint /\ store' = [store EXCEPT ![id] = x]
    BY <2>0, <2>1, NoCheckpointIsNone DEF Judges
  <2>5. /\ id # BootId /\ store[id] # NoCheckpoint /\ store[id].status = "TRIAL"
        /\ working.id # id
        /\ \A i \in Ids : store[i] # NoCheckpoint => Lines[i].parent # id
    BY <1>9, <2>0, <2>2
  <2>6. store'[id] = x /\ \A i \in Ids \ {id} : store'[i] = store[i]
    BY <2>4, <2>5, StateFacts
  <2>7. RuledOut' = RuledOut \cup {id}
    BY <2>1, <2>4, <2>5, <2>6 DEF RuledOut
  <2>8. Ending = [status |-> "UNDECIDED", node |-> BootId] /\ Ending' = Ending
    BY <2>2, Unended DEF Ending
  <2>9. Lineage!Alive(id) /\ \A m \in Ids : Lineage!Present(m) => Lines[m].parent # id
    BY <2>5, PresentIsStored
  <2>10. Lineage!Discard(id)
    BY <2>2, <2>3, <2>5, <2>7, <2>8, <2>9
       DEF Lineage!Discard, Lineage!Undecided, Lines, RuledOut, Ending
  <2> QED BY <2>5, <2>10 DEF Lineage!LineageNext
<1>11. ASSUME NEW x, Judges(x), pc = "judge", x.status = store[TrialId(revision)].status
       PROVE  RuledOut' = RuledOut
  <2>1. /\ store'[TrialId(revision)] = x /\ x # NoCheckpoint
        /\ \A i \in Ids \ {TrialId(revision)} : store'[i] = store[i]
    BY <1>9, <1>11, StateFacts, NoCheckpointIsNone DEF Judges
  <2> QED BY <1>9, <1>11, <2>1 DEF RuledOut
<1>12. ASSUME NEW d \in {"KEEP_REPAIRING", "ADVANCE_SAFE"}, Accept(d)
       PROVE  Lineage!LineageNext
  <2>1. PICK x : /\ Judges(x) /\ x.status = store[TrialId(revision)].status
                 /\ \E i \in Ids \ {BootId} : store'[i] # NoCheckpoint /\ working' = store'[i]
    BY <1>12, AcceptRewrites
  <2>i. PICK i \in Ids \ {BootId} : store'[i] # NoCheckpoint /\ working' = store'[i]
    BY <2>1
  <2>2. pc = "judge" /\ outcome' = outcome
    BY <1>12 DEF Accept
  <2>3. Lines' = Lines /\ RuledOut' = RuledOut
    BY <1>11, <1>12, <2>1, <2>2, VerdictRewrites, LinesKept
  <2>4. /\ store'[TrialId(revision)] = x
        /\ \A j \in Ids \ {TrialId(revision)} : store'[j] = store[j]
    BY <1>9, <2>1, <2>2, StateFacts DEF Judges
  <2>5. store'[i].id = i /\ store[i] # NoCheckpoint
    BY <1>9, <2>1, <2>i, <2>2, <2>4, StateFacts DEF Judges
  <2>6. store[i].status # "REJECTED"
    <3>1. store'[i].status # "REJECTED"
      BY <2>i, <2>5 DEF SearchInv, RejectedStaysDead
    <3> QED BY <1>9, <2>2, <2>4, <3>1
  <2>7. Lineage!Move(i)
    BY <2>i, <2>2, <2>3, <2>5, <2>6, LineageMoves
  <2> QED BY <2>7 DEF Lineage!LineageNext
<1>13. CASE Reach
  <2>0. PICK id \in Ids : id = TrialId(revision)
    BY StateFacts, IdsAreKnown
  <2>1. PICK x : /\ Judges(x) /\ x.status = store[id].status /\ working' = x
    BY <1>13, <2>0, ReachRewrites
  <2>2. /\ pc = "judge" /\ x.id = id
        /\ outcome' = [status |-> "SEALED", final |-> id, cause |-> "REACHED"]
    BY <1>13, <2>0, <2>1 DEF Reach, Judges
  <2>3. Lines' = Lines /\ RuledOut' = RuledOut
    BY <1>11, <1>13, <2>0, <2>1, <2>2, VerdictRewrites, LinesKept
  <2>4. /\ id # BootId /\ store[id] # NoCheckpoint /\ store[id].status = "TRIAL"
        /\ Lines[id].parent = working.id
    BY <1>9, <2>0, <2>2
  <2>5. /\ Ending = [status |-> "UNDECIDED", node |-> BootId]
        /\ Ending' = [status |-> "ENDED", node |-> id]
    BY <2>2, Unended DEF Ending, Running
  <2>6. Lineage!Alive(id)
    BY <2>4, PresentIsStored
  <2>7. Lineage!CertifyChild(id)
    BY <2>1, <2>2, <2>3, <2>4, <2>5, <2>6
       DEF Lineage!CertifyChild, Lineage!Undecided, Lineage!EndedWith, Lines, RuledOut, Ending
  <2> QED BY <2>4, <2>7 DEF Lineage!LineageNext
<1>14. CASE Seal
  <2>1. pc = "finish" /\ UNCHANGED <<store, working>>
    BY <1>14 DEF Seal, pointers
  <2>2. PICK x \in Checkpoint :
          /\ outcome' = OutputOf(x, "BEST_EFFORT")
          /\ store[x.id] # NoCheckpoint /\ store[x.id].status # "REJECTED"
    BY <1>14, <2>1, FinalIsAlive
  <2> QED BY <2>1, <2>2, LineageEnds
<1> QED
  BY <1>1, <1>2, <1>3, <1>4, <1>5, <1>6, <1>7, <1>8, <1>10, <1>12, <1>13, <1>14
  DEF Next, Finished

\* The bootstrap is the root of the lineage.
LEMMA LineageBegins == Init => Lineage!LineageInit
<1> SUFFICES ASSUME Init PROVE Lineage!LineageInit
  OBVIOUS
<1>1. BootId \in Ids /\ Boot # NoCheckpoint
  <2>1. working = Boot /\ working # NoCheckpoint
    BY IInvInit, StateFacts DEF Init
  <2> QED BY <2>1, IdsAreKnown
<1>2. /\ Boot.parent = BootId /\ Boot.patch = Blank /\ Boot.status = "BOOTSTRAP"
      /\ Boot.id = BootId
  BY DEF Boot
<1>3. \A i \in Ids : store[i] = IF i = BootId THEN Boot ELSE NoCheckpoint
  BY DEF Init
<1>4. Lines = [i \in Ids |-> IF i = BootId THEN [parent |-> BootId, patch |-> Blank]
                             ELSE NoCheckpoint]
  BY <1>1, <1>2, <1>3 DEF Lines
<1>5. RuledOut = {}
  BY <1>2, <1>3 DEF RuledOut
<1>6. Ending = [status |-> "UNDECIDED", node |-> BootId] /\ working.id = BootId
  BY <1>2 DEF Init, Ending, Running
<1> QED BY <1>4, <1>5, <1>6 DEF Lineage!LineageInit, Lineage!Undecided, Lines, RuledOut, Ending

\* The search loop, with its refreshes, switches, siblings and verdicts,
\* implements the lineage: patches and parents never change, children grow from
\* the incumbent only, a rejected patch leaves the game while it is a leaf, and
\* the case ends once, with a patch that was not rejected or with a failure.
THEOREM SearchIsALineage == Spec => ImplementsLineage
<1>1. IInv /\ SearchInv /\ [Next]_vars /\ CountInv => CountInv'
  BY CountStep
<1>2. Spec => []CountInv
  BY <1>1, IInvHolds, SearchHolds, CountInit, PTL DEF Spec
<1>3. IInv /\ SearchInv /\ CountInv /\ SearchInv' /\ [Next]_vars
        => [Lineage!LineageNext]_Lineage!lineageVars
  BY LineageStep
<1> QED
  BY <1>2, <1>3, IInvHolds, SearchHolds, LineageBegins, PTL
  DEF Spec, ImplementsLineage, Lineage!LineageSpec
=============================================================================
