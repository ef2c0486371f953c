---------------------------- MODULE EvidenceLedger ----------------------------
(***************************************************************************)
(* The evidence of a case (reach_avoid/controller.py): checks recovered by *)
(* TargetRecovery, the obligations the search graph derives from them, the *)
(* observations the executions leave in the graph, the results persisted   *)
(* with every checkpoint, the audit of return oracles                      *)
(* (execution/oracle_audit.py), certification, and the comparison of       *)
(* record and graph when the case is sealed (execution_checkpoint.py).     *)
(*                                                                         *)
(* An observation node is named by patch, phase, check and signature: the  *)
(* same result seen again replaces the node with a record that differs in  *)
(* its duration.  A persisted result is held while its node is the one it  *)
(* came with.  A signature is reduced to the status of the check.          *)
(* Nodes and results go by the id of a check, the audits by all of it.     *)
(***************************************************************************)
EXTENDS TargetRecovery

CONSTANTS
  Challenges,    \* challenge checks the graph may derive
  Owner,         \* challenge -> the one checkpoint it can be derived for
  Trials,        \* names of the checkpoints after P0
  P0,
  Direct,        \* checks that state their goal itself, or only exceptions and exits
  Mutable,       \* checks an audit can mutate: of a goal that some return
                 \* value contradicts, with a target it finds
  MayBe          \* id -> statuses a run on a patched tree may end with

Checkpoints == Trials \cup {P0}

CaseChecks == AllChecks \cup Challenges

Ids == IdsOf(CaseChecks)

Statuses == {"PASS", "FAIL", "UNKNOWN"}

ASSUME LedgerBounds ==
  /\ P0 \notin Trials
  /\ Owner \in [Challenges -> Checkpoints]
  /\ IdsOf(Challenges) \cap IdsOf(AllChecks) = {}
  /\ Direct \subseteq AllChecks /\ Mutable \subseteq AllChecks
  /\ MayBe \in [Ids -> SUBSET Statuses]

VARIABLES
  at,               \* where the loop of the case is
  working,          \* the working checkpoint
  status,           \* checkpoint -> status of its node
  challengeChecks,
  results,          \* parent_results: id -> phase and status
  record,           \* checkpoint -> persisted results, with whether they are held
  audits,           \* checkpoint -> check -> status of the audit node
  final             \* the sealed checkpoint

caseVars == <<at, working, status, challengeChecks, results, record, audits, final>>
vars == <<recoveryVars, caseVars>>

NotRun == [phase |-> "none", status |-> "UNKNOWN", held |-> TRUE]
NoResults == [id \in Ids |-> NotRun]
WasRun(result) == result.phase # "none"

-----------------------------------------------------------------------------
\* _checks: what the state has handles for.
StateChecks == AllIn(targetChecks) \cup preservationChecks \cup challengeChecks

\* Every obligation with a handle, once the checks of the state are registered.
Registered(checks) == executable \cup IdsOf(checks)

\* A node whose check the state has lost is a KeyError.
Resolves(checks) == Registered(checks) \subseteq IdsOf(checks)

\* The challenges of another checkpoint are left out unless they are locked; which
\* ones are is left open.
Foreign(p) == IdsOf({c \in Challenges : Owner[c] # p})
Queues(checks, p) ==
  {Registered(checks) \ (Foreign(p) \ locked) : locked \in SUBSET (IdsOf(checks) \cap Foreign(p))}

SameNode(result, phase, s) == result.phase = phase /\ result.status = s

\* The nodes of an execution replace those of equal results.
Overwritten(old, new) ==
  [id \in Ids |->
     IF WasRun(new[id]) /\ SameNode(old[id], new[id].phase, new[id].status)
       THEN [old[id] EXCEPT !.held = FALSE] ELSE old[id]]

\* All results a queue of checks may end with.
Executions(queued, phase) ==
  {[id \in Ids |-> IF id \in queued
                     THEN [phase |-> phase, status |-> s[id], held |-> TRUE] ELSE NotRun] :
     s \in {t \in [queued -> Statuses] : \A id \in queued : t[id] \in MayBe[id]}}

Passes(run, id) == WasRun(run[id]) /\ run[id].status = "PASS"

\* A target of a soft goal may stay unresolved; a result counts for every list
\* its id is in.
MayStayOpen ==
  IdsOf({c \in AllIn(targetChecks) : c.goal \notin HardGoals}) \ IdsOf(preservationChecks)

PassesHardGoals(run) ==
  /\ \E c \in AllIn(targetChecks) : Passes(run, c.id)
  /\ HardGoals \subseteq GoalsOf({c \in AllIn(targetChecks) : Passes(run, c.id)})

\* As if the targets decided alone.
PotentiallyReachedByTargets(run) == PassesHardGoals(run)

\* all_reach_conditions_pass, mechanics aside.
PotentiallyReached(run) ==
  /\ \A id \in Ids \ MayStayOpen : WasRun(run[id]) => Passes(run, id)
  /\ PassesHardGoals(run)

\* evaluate_validation_closure: every hard goal has target checks, and they pass.
Closed(run) ==
  /\ HardGoals \subseteq GoalsOf(AllIn(targetChecks))
  /\ \A c \in AllIn(targetChecks) : c.goal \in HardGoals => Passes(run, c.id)

TypeOKLedger ==
  /\ TypeOK
  /\ at \in {"pre", "p0", "head", "parent", "again", "refreshed", "open", "audited",
             "certified", "exhausted", "sealed", "refused", "lost", "crashed"}
  /\ working \in Checkpoints /\ final \in Checkpoints
  /\ status \in [Checkpoints -> {"none", "OPEN", "REJECTED", "CERTIFIED"}]
  /\ challengeChecks \subseteq Challenges
  /\ \A id \in Ids : results[id].status \in Statuses
  /\ \A p \in Checkpoints, id \in Ids :
       record[p][id].phase \in {"none", "PARENT", "PARENT_CHALLENGE", "TRIAL"}
  /\ \A p \in Checkpoints, c \in AllChecks :
       audits[p][c] \in {"none", "SURVIVOR", "DISCRIMINATES"}

-----------------------------------------------------------------------------
Init ==
  /\ InitRecovery
  /\ at = "pre" /\ working = P0 /\ final = P0
  /\ status = [p \in Checkpoints |-> "none"]
  /\ challengeChecks = {}
  /\ results = NoResults
  /\ record = [p \in Checkpoints |-> NoResults]
  /\ audits = [p \in Checkpoints |-> [c \in AllChecks |-> "none"]]

Idle == stage = "idle"

PreRecovery == at = "pre" /\ BeginPreRecovery /\ UNCHANGED caseVars

\* P0 is saved with no results before the second recovery.
SaveP0 ==
  /\ at = "pre" /\ Idle /\ recovered = 1
  /\ at' = "p0" /\ status' = [status EXCEPT ![P0] = "OPEN"]
  /\ UNCHANGED <<recoveryVars, working, challengeChecks, results, record, audits, final>>

PostRecovery == at = "p0" /\ BeginPostRecovery /\ UNCHANGED caseVars

EnterLoop ==
  /\ at = "p0" /\ Idle /\ recovered = 2
  /\ at' = "head"
  /\ UNCHANGED <<recoveryVars, working, status, challengeChecks, results, record, audits, final>>

\* Any checkpoint that was not rejected may be selected as the parent.
Switch ==
  /\ at = "head" /\ Idle
  /\ \E p \in Checkpoints \ {working} : status[p] = "OPEN" /\ working' = p
  /\ UNCHANGED <<recoveryVars, at, status, challengeChecks, results, record, audits, final>>

\* Register the checks of the state, derive the queue and run it on the working
\* tree.  The nodes are written when the whole queue has run.
Execute(phase, next) ==
  /\ executable' = Registered(StateChecks)
  /\ IF Resolves(StateChecks)
       THEN \E queued \in Queues(StateChecks, working) : \E run \in Executions(queued, phase) :
              /\ results' = run
              /\ record' = [record EXCEPT ![working] = Overwritten(@, run)]
              /\ at' = next
       ELSE at' = "crashed" /\ UNCHANGED <<results, record>>
  /\ UNCHANGED <<stage, recovered, call, agent, baseline, lists, working, status,
                 challengeChecks, audits, final>>

ExecuteParent == at = "head" /\ Idle /\ Execute("PARENT", "parent")

DeriveChallenges ==
  /\ at = "parent"
  /\ \E new \in SUBSET {c \in Challenges \ challengeChecks : Owner[c] = working} \ {{}} :
       challengeChecks' = challengeChecks \cup new
  /\ at' = "again"
  /\ UNCHANGED <<recoveryVars, working, status, results, record, audits, final>>

ExecuteAgain == at = "again" /\ Execute("PARENT_CHALLENGE", "refreshed")

\* As if a result that is persisted already were not written again.
PersistedIfNew(old, new) ==
  [id \in Ids |-> IF SameNode(old[id], new[id].phase, new[id].status) THEN old[id] ELSE new[id]]

\* _refresh_evaluated_checkpoint persists the results and puts them in the node.
Persisted(old, new) == new

Refresh ==
  /\ at \in {"parent", "refreshed"}
  /\ record' = [record EXCEPT ![working] = Persisted(@, results)]
  /\ results' = NoResults
  /\ at' = "open"
  /\ UNCHANGED <<recoveryVars, working, status, challengeChecks, audits, final>>

-----------------------------------------------------------------------------
\* The audit of a checkpoint whose checks all pass.  Survivors and killed
\* mutants are kept in the graph; an inconclusive audit is repeated.

Verdicts == {"SURVIVOR", "DISCRIMINATES", "INCONCLUSIVE"}

\* As if only killed mutants were kept.
CachedIfKilled(p, c) == audits[p][c] = "DISCRIMINATES"

Cached(p, c) == audits[p][c] # "none"

AuditOf(p, c) ==
  IF c \notin Mutable THEN {"INCONCLUSIVE"} ELSE IF Cached(p, c) THEN {audits[p][c]} ELSE Verdicts

\* An audit that says nothing blocks unless the check states the goal itself.
Blocks(verdict, c) == verdict = "SURVIVOR" \/ (verdict = "INCONCLUSIVE" /\ c \notin Direct)

Audited(run) == {c \in AllIn(targetChecks) : c.goal \in HardGoals /\ Passes(run, c.id)}

\* Whether p, with the results of run, is certified, and what is left to do.
AuditAndDecide(p, run, otherwise) ==
  \E verdict \in {v \in [Audited(run) -> Verdicts] : \A c \in Audited(run) : v[c] \in AuditOf(p, c)} :
    LET gaps == {c \in Audited(run) : Blocks(verdict[c], c)}
    IN /\ audits' = [audits EXCEPT ![p] =
                       [c \in AllChecks |->
                          IF c \in Audited(run) /\ verdict[c] # "INCONCLUSIVE" THEN verdict[c] ELSE @[c]]]
       /\ at' = IF gaps = {} /\ Closed(run) THEN "certified" ELSE otherwise

Certify ==
  /\ at = "open"
  /\ PotentiallyReached(record[working])
  /\ AuditAndDecide(working, record[working], "audited")
  /\ status' = [status EXCEPT ![working] = IF at' = "certified" THEN "CERTIFIED" ELSE @]
  /\ final' = IF at' = "certified" THEN working ELSE final
  /\ UNCHANGED <<recoveryVars, working, challengeChecks, results, record>>

Uncertified == at = "audited" \/ (at = "open" /\ ~PotentiallyReached(record[working]))

Unresolved ==
  \/ at = "audited" \/ targetChecks = <<>> \/ ~Closed(record[working])
  \/ \E id \in Ids : WasRun(record[working][id]) /\ record[working][id].status = "UNKNOWN"
  \/ \E c \in challengeChecks : Owner[c] = working /\ ~Passes(record[working], c.id)

RecoverEvidence ==
  /\ Uncertified /\ Unresolved
  /\ \E reviewed \in BOOLEAN : (reviewed => at = "audited") /\ BeginRound(reviewed)
  /\ at' = "head"
  /\ UNCHANGED <<working, status, challengeChecks, results, record, audits, final>>

\* A frontier action that does nothing to the evidence.
NextIteration ==
  /\ Uncertified
  /\ at' = "head"
  /\ UNCHANGED <<recoveryVars, working, status, challengeChecks, results, record, audits, final>>

Judge(p, run) ==
  /\ record' = [record EXCEPT ![p] = run]
  /\ \/ /\ ~PotentiallyReached(run)
        /\ at' = "head" /\ UNCHANGED <<audits, final>>
        /\ \E verdict \in {"OPEN", "REJECTED"} : status' = [status EXCEPT ![p] = verdict]
        /\ working' = IF status'[p] = "OPEN" THEN p ELSE working
     \/ /\ PotentiallyReached(run)
        /\ AuditAndDecide(p, run, "head")
        /\ status' = [status EXCEPT ![p] = IF at' = "certified" THEN "CERTIFIED" ELSE "OPEN"]
        /\ working' = p
        /\ final' = IF at' = "certified" THEN p ELSE final

\* A child is run on the parent's checks and those it brings up itself; it is
\* saved with its results and then retained, rejected or certified.
Trial(p) ==
  /\ Uncertified /\ status[p] = "none"
  /\ \E new \in SUBSET {c \in Challenges \ challengeChecks : Owner[c] = p} :
       challengeChecks' = challengeChecks \cup new
  /\ LET checks == StateChecks \cup challengeChecks'
     IN /\ executable' = Registered(checks)
        /\ IF Resolves(checks)
             THEN \E ofParent \in Queues(checks, working), ofTrial \in Queues(checks, p) :
                    \E run \in Executions(ofParent \cup ofTrial, "TRIAL") : Judge(p, run)
             ELSE at' = "crashed" /\ UNCHANGED <<status, working, record, audits, final>>
  /\ UNCHANGED <<stage, recovered, call, agent, baseline, lists, results>>

\* An execution, an audit or a model call finds the case budget exhausted.
Exhaust ==
  /\ at \in {"head", "again", "open", "audited"} /\ Idle
  /\ at' = "exhausted"
  /\ UNCHANGED <<recoveryVars, working, status, challengeChecks, results, record, audits, final>>

\* Nothing can be sealed before the state of the case exists, or before P0.
ExhaustInRecovery ==
  /\ stage = "exhausted" /\ at \in {"pre", "p0", "head"}
  /\ at' = IF status[P0] = "none" THEN "lost" ELSE "exhausted"
  /\ UNCHANGED <<recoveryVars, working, status, challengeChecks, results, record, audits, final>>

\* validate_evidence: every persisted result is the one of its observation.
EvidenceHolds(p) == \A id \in Ids : record[p][id].held

Seal ==
  /\ at = "exhausted" \/ (at = "head" /\ Idle)
  /\ \E p \in Checkpoints :
       /\ status[p] = "OPEN" /\ final' = p
       /\ at' = IF EvidenceHolds(p) THEN "sealed" ELSE "refused"
  /\ UNCHANGED <<recoveryVars, working, status, challengeChecks, results, record, audits>>

Next ==
  \/ RecoveryStep /\ UNCHANGED caseVars
  \/ PreRecovery \/ SaveP0 \/ PostRecovery \/ EnterLoop
  \/ Switch \/ ExecuteParent \/ DeriveChallenges \/ ExecuteAgain \/ Refresh
  \/ Certify \/ RecoverEvidence \/ NextIteration
  \/ \E p \in Trials : Trial(p)
  \/ Exhaust \/ ExhaustInRecovery \/ Seal

Spec == Init /\ [][Next]_vars

-----------------------------------------------------------------------------
\* No legal sequence of recoveries, truncated lists and executions leaves the graph
\* with an executable obligation whose check the case has lost, which
\* _graph_checks answers with a KeyError that ends the case.
HandlesResolve == at # "crashed"

\* At every point where the loop may seal the case by itself, what every checkpoint
\* persisted is what the graph observed; between an execution and the next refresh
\* only the working checkpoint may differ (validate_evidence would refuse it).
EvidenceIsWhole ==
  /\ \A p \in Checkpoints \ {working} : EvidenceHolds(p)
  /\ at \notin {"parent", "again", "refreshed", "exhausted", "sealed", "refused"} => EvidenceHolds(working)

\* A surviving return mutation of a patch is never forgotten: the audit is not
\* drawn again until it is lucky, and no certificate of this patch follows while
\* the case has the check it survived, even if later rounds recover more checks
\* (audit_return_oracles).
SurvivorBlocksForGood ==
  [][\A p \in Checkpoints, c \in AllChecks :
       audits[p][c] = "SURVIVOR" =>
         /\ audits'[p][c] = "SURVIVOR"
         /\ ~(at # "certified" /\ at' = "certified" /\ final' = p /\ c \in AllIn(targetChecks))]_vars

\* A certified patch passes, for every hard goal, a check that the clean snapshot
\* failed, and what failed or stayed unknown on it is at most a target of soft
\* goals, never a check that the clean snapshot passes (all_reach_conditions_pass).
ReachedIsFailToPass ==
  at = "certified" =>
    /\ \A g \in HardGoals : \E c \in AllIn(targetChecks) :
         c.goal = g /\ Grounds(c) \cap baseline # {} /\ Passes(record[final], c.id)
    /\ \A id \in Ids :
         WasRun(record[final][id]) /\ ~Passes(record[final], id) =>
           /\ \A c \in AllIn(targetChecks) : c.id = id => c.goal \in SoftGoals
           /\ id \in IdsOf(AllIn(targetChecks)) \ IdsOf(preservationChecks)

\* Recovery adds only checks the clean snapshot fails, and its agent is never
\* forced to call a tool that would be refused.
RecoveryIsGrounded == ChecksAreGrounded /\ ForcedToolIsUsable

\* The ledger, the checks of the case and the observations in the graph stay
\* one: no check without its node, no record without its observation.
EvidenceIsKept == TypeOKLedger /\ HandlesResolve /\ EvidenceIsWhole
=============================================================================
