---------------------------- MODULE TargetRecovery ----------------------------
(***************************************************************************)
(* Recovery of executable checks: recover_target_checks and its restricted *)
(* agent (execution/target_recovery.py), with what the controller makes of *)
(* the result (reach_avoid/controller.py): the target and preservation     *)
(* checks of the case, and the obligation nodes of the search graph.       *)
(*                                                                         *)
(* A case recovers before P0 on the clean snapshot, again after P0, and    *)
(* then once per round of missing evidence.  Candidates, their goals and   *)
(* authority are given; what a run shows and what the model answers is     *)
(* chosen freely.                                                          *)
(***************************************************************************)
EXTENDS Integers, Sequences, FiniteSets

CONSTANTS
  IssueWitnesses,     \* scripts of the issue, in order
  PublicCandidates,   \* public checks, without duplicates and sorted
  ContractRecords,    \* executable API and baseline contracts
  Facets,             \* name of a witness -> its facet checks
  AgentChecks,        \* checks a probe may become
  RebuiltChecks,      \* checks a target may come back as
  Rebuilt,            \* check -> what is made of it when it is taken for a public check
  ProbeNames,         \* names of the probes, in the order they are written
  HardGoals, SoftGoals, NoGoal,
  Shows,              \* check -> what a pair of runs on the clean tree may show
  MaxProbes, CandidateAllowance, StabilityRuns, ExtraAttempts,
  MaxTurns, ReadLimit, RepeatLimit,
  TargetRecoveryAttempts

AllIn(seq) == {seq[i] : i \in DOMAIN seq}

FacetChecks == UNION {AllIn(Facets[n]) : n \in DOMAIN Facets}

AllChecks == AllIn(IssueWitnesses) \cup AllIn(PublicCandidates) \cup AllIn(ContractRecords)
               \cup FacetChecks \cup AgentChecks \cup RebuiltChecks

IdsOf(checks) == {c.id : c \in checks}

\* "FAIL" and "PASS" are stable and, for a failure, in target code.
Outcomes == {"FAIL", "ELSEWHERE", "PASS", "UNSTABLE", "BLOCKED"}

ASSUME RecoveryBounds ==
  /\ {MaxProbes, StabilityRuns, ExtraAttempts, MaxTurns} \subseteq Nat \ {0}
  /\ {CandidateAllowance, ReadLimit, RepeatLimit, TargetRecoveryAttempts} \subseteq Nat

Goals == HardGoals \cup SoftGoals

ASSUME RecoveryGoals == HardGoals \cap SoftGoals = {} /\ NoGoal \notin Goals

ASSUME RecoveryChecks ==
  /\ \A c \in AllChecks : c.goal \in Goals \cup {NoGoal} /\ c.trusted \in BOOLEAN
  /\ \A c \in AgentChecks : c.goal \in HardGoals /\ c.trusted
  /\ \A c \in FacetChecks : c.goal \in Goals /\ c.trusted
  /\ \A c \in AllIn(ContractRecords) : c.trusted
  /\ Shows \in [AllChecks -> SUBSET Outcomes]

\* A check rebuilt from the record of a target keeps its name, its command and
\* its authority; comparator, goal and what it shows may be others.
ASSUME RecoveryRebuilds ==
  /\ Rebuilt \in [AllChecks -> AllChecks]
  /\ \A c \in AllChecks :
       LET b == Rebuilt[c] IN b.id = c.id /\ b.command = c.command /\ b.trusted = c.trusted

\* The candidates come in lists; a witness has a list of facets, and any probe
\* may become a check of any hard goal.
ASSUME RecoveryLists ==
  /\ {IssueWitnesses, PublicCandidates, ContractRecords} \subseteq Seq(AllChecks)
  /\ Facets \in [DOMAIN Facets -> Seq(AllChecks)]
  /\ \A c \in AllIn(IssueWitnesses) : c.name \in DOMAIN Facets
  /\ \A i \in 1 .. MaxProbes, g \in HardGoals :
       \E c \in AgentChecks : c.name = ProbeNames[i] /\ c.goal = g

VARIABLES
  stage,         \* "idle", or how far the call has come, or "exhausted"
  recovered,     \* recovery calls completed
  quota,         \* max_probes of the call
  transport,     \* the call may use the agent
  review,        \* oracle_review is not empty
  queue,         \* candidates to be classified, each with the list it is from
  seen,          \* commands run in this call
  found, kept,   \* targets and preservation checks of this call
  probes, turns, reads, repeats,
  promoting,     \* the probe to be promoted next
  baseline,      \* what the runs on the clean snapshot have shown so far
  targetChecks, preservationChecks,   \* of the state of the case
  executable     \* ids of the checks whose obligation node carries an executable handle

call == <<quota, transport, review, queue, seen, found, kept>>
agent == <<probes, turns, reads, repeats, promoting>>
lists == <<targetChecks, preservationChecks>>
recoveryVars == <<stage, recovered, call, agent, baseline, lists, executable>>

-----------------------------------------------------------------------------
\* A dictionary of checks by id: the first position, the last value.
Placed(seq, c) ==
  IF c.id \in IdsOf(AllIn(seq))
    THEN [i \in DOMAIN seq |-> IF seq[i].id = c.id THEN c ELSE seq[i]]
    ELSE Append(seq, c)

ById(seq) ==
  LET built[i \in 0 .. Len(seq)] == IF i = 0 THEN <<>> ELSE Placed(built[i - 1], seq[i])
  IN built[Len(seq)]

MergeSets(old, new) == {c \in old : c.id \notin IdsOf(new)} \cup new

FirstOf(seq, n) == SubSeq(seq, 1, IF Len(seq) <= n THEN Len(seq) ELSE n)

GoalsOf(checks) == {c.goal : c \in checks} \ {NoGoal}

From(list, seq) == [i \in DOMAIN seq |-> [list |-> list, check |-> seq[i]]]

Contracts == HardGoals \cup {"none", "invented"}

NewProbe == [contract |-> "none", clean |-> <<>>, working |-> 0,
             cleanTries |-> 0, workingTries |-> 0]

AttemptLimit == StabilityRuns + ExtraAttempts

TypeOK ==
  /\ stage \in {"idle", "classify", "agent", "promote", "exhausted"}
  /\ recovered \in 0 .. 2 + TargetRecoveryAttempts
  /\ quota \in 1 .. MaxProbes /\ transport \in BOOLEAN /\ review \in BOOLEAN
  /\ \A i \in DOMAIN queue :
       queue[i].check \in AllChecks /\ queue[i].list \in {"witness", "facet", "public", "contract"}
  /\ AllIn(found) \subseteq AllChecks /\ kept \subseteq AllChecks
  /\ Len(probes) <= MaxProbes
  /\ \A i \in DOMAIN probes :
       /\ probes[i].contract \in Contracts
       /\ Len(probes[i].clean) <= StabilityRuns /\ probes[i].working <= StabilityRuns
       /\ probes[i].cleanTries <= AttemptLimit /\ probes[i].workingTries <= AttemptLimit
  /\ turns \in 0 .. MaxTurns
  /\ baseline \subseteq AllChecks \X Outcomes
  /\ AllIn(targetChecks) \subseteq AllChecks /\ preservationChecks \subseteq AllChecks

-----------------------------------------------------------------------------
InitRecovery ==
  /\ stage = "idle" /\ recovered = 0
  /\ quota = MaxProbes /\ transport = FALSE /\ review = FALSE
  /\ queue = <<>> /\ seen = {} /\ found = <<>> /\ kept = {}
  /\ probes = <<>> /\ turns = 0 /\ reads = 0 /\ repeats = 0 /\ promoting = 1
  /\ baseline = {}
  /\ targetChecks = <<>> /\ preservationChecks = {}
  /\ executable = {}

Begin(limit, allowance, public, withAgent, reviewed) ==
  /\ stage = "idle"
  /\ stage' = "classify"
  /\ quota' = limit /\ transport' = withAgent /\ review' = reviewed
  /\ queue' = From("witness", IssueWitnesses)
                \o From("public", FirstOf(public, limit + allowance))
                \o From("contract", ContractRecords)
  /\ UNCHANGED <<recovered, seen, found, kept, agent, baseline, lists, executable>>

BeginPreRecovery ==
  /\ recovered = 0
  /\ Begin(MaxProbes, CandidateAllowance, PublicCandidates, TRUE, FALSE)

\* With every hard goal covered by the first call, the second one only
\* classifies a representative candidate again, without the agent.
CoveredByPreRecovery ==
  /\ targetChecks # <<>>
  /\ HardGoals \subseteq GoalsOf(AllIn(targetChecks))

\* The targets join the public checks and are rebuilt as if they were public; a
\* target that is the public check of its id is replaced by it, and a command
\* is taken from a target first.
PublicAgain ==
  LET public == AllIn(PublicCandidates)
      rebuilt == {Rebuilt[c] : c \in {t \in AllIn(targetChecks) : t.id \notin IdsOf(public)}}
  IN rebuilt \cup {c \in public : c.command \notin {b.command : b \in rebuilt}}

\* One with a goal comes first.
Representatives ==
  LET aimed == {c \in PublicAgain : c.goal # NoGoal}
  IN IF aimed = {} THEN PublicAgain ELSE aimed

BeginPostRecovery ==
  /\ recovered = 1
  /\ IF CoveredByPreRecovery
       THEN \E c \in Representatives : Begin(1, 0, <<c>>, FALSE, FALSE)
       ELSE Begin(MaxProbes, CandidateAllowance, PublicCandidates, TRUE, FALSE)

BeginRound(reviewed) ==
  /\ recovered >= 2 /\ recovered < 2 + TargetRecoveryAttempts
  /\ Begin(MaxProbes, CandidateAllowance, PublicCandidates, TRUE, reviewed)

-----------------------------------------------------------------------------
\* Classification of the candidates by two runs on the clean snapshot.

Rest == Tail(queue)

WithinQuota == Len(found) < quota

\* A witness needs authority and a goal before it is run; a command is run once;
\* the facets of a witness are run while there is room for targets.
NeedsNoRun(item) ==
  \/ item.list = "facet" /\ ~WithinQuota
  \/ item.list # "facet" /\ item.check.command \in seen
  \/ item.list = "witness" /\ (~item.check.trusted \/ item.check.goal = NoGoal)

\* As if any stable failure would do, wherever it is raised.
IsTargetAnywhere(item, outcome) ==
  item.check.trusted /\ item.check.goal # NoGoal /\ outcome \in {"FAIL", "ELSEWHERE"}

\* Contract records are not counted against the quota.
IsTarget(item, outcome) ==
  /\ item.check.trusted /\ item.check.goal # NoGoal
  /\ \/ item.list = "contract" /\ outcome = "FAIL"
     \/ item.list \in {"witness", "public"} /\ outcome = "FAIL" /\ WithinQuota
     \/ item.list = "facet" /\ outcome \in {"FAIL", "PASS"}

IsPreservation(item, outcome) ==
  item.list # "facet" /\ item.check.trusted /\ outcome = "PASS"

Skip ==
  /\ stage = "classify" /\ queue # <<>> /\ NeedsNoRun(Head(queue))
  /\ queue' = Rest
  /\ UNCHANGED <<stage, recovered, quota, transport, review, seen, found, kept, agent, baseline,
                 lists, executable>>

Classify ==
  /\ stage = "classify" /\ queue # <<>> /\ ~NeedsNoRun(Head(queue))
  /\ LET item == Head(queue)
         c == item.check
     IN \E outcome \in Shows[c] :
          /\ baseline' = baseline \cup {<<c, outcome>>}
          /\ seen' = IF item.list = "facet" THEN seen ELSE seen \cup {c.command}
          /\ found' = IF IsTarget(item, outcome) THEN Append(found, c) ELSE found
          /\ kept' = IF IsPreservation(item, outcome) THEN kept \cup {c} ELSE kept
          /\ queue' = IF item.list = "witness" /\ IsTarget(item, outcome)
                        THEN From("facet", Facets[c.name]) \o Rest
                        ELSE Rest
  /\ UNCHANGED <<stage, recovered, quota, transport, review, agent, lists, executable>>

\* No execution of the classification catches an exhausted budget.
ExhaustInClassification ==
  /\ stage = "classify" /\ queue # <<>> /\ ~NeedsNoRun(Head(queue))
  /\ stage' = "exhausted"
  /\ UNCHANGED <<recovered, call, agent, baseline, lists, executable>>

MissingGoals == HardGoals \ GoalsOf(AllIn(found))

AskAgent == transport /\ (found = <<>> \/ review \/ MissingGoals # {})

EndClassification ==
  /\ stage = "classify" /\ queue = <<>>
  /\ stage' = IF AskAgent THEN "agent" ELSE "promote"
  /\ UNCHANGED <<recovered, call, agent, baseline, lists, executable>>

-----------------------------------------------------------------------------
\* The conversation with the agent: one tool call per turn.

HasContract(p) == p.contract # "none"

NeedsContract(p) ==
  ~HasContract(p) /\ p.cleanTries < AttemptLimit /\ p.workingTries < AttemptLimit

NeedsCleanRun(p) ==
  HasContract(p) /\ Len(p.clean) < StabilityRuns /\ p.cleanTries < AttemptLimit

NeedsWorkingRun(p) ==
  /\ HasContract(p) /\ Len(p.clean) >= StabilityRuns
  /\ p.working < StabilityRuns /\ p.workingTries < AttemptLimit

Complete(p) == HasContract(p) /\ Len(p.clean) >= StabilityRuns /\ p.working >= StabilityRuns

Tools == {"search_source", "read_source", "write_probe", "run_probe_on_clean",
          "run_probe_on_working", "register_observation_contract", "finish_target_recovery"}

Reading == {"search_source", "read_source"}

\* Once there is a probe, each turn offers the one tool that takes it further.
Offered ==
  IF probes # <<>>
    THEN IF \E p \in AllIn(probes) : NeedsContract(p) THEN {"register_observation_contract"}
         ELSE IF \E p \in AllIn(probes) : NeedsCleanRun(p) THEN {"run_probe_on_clean"}
         ELSE IF \E p \in AllIn(probes) : NeedsWorkingRun(p) THEN {"run_probe_on_working"}
         ELSE IF Len(probes) >= quota \/ \E p \in AllIn(probes) : Complete(p) THEN {"finish_target_recovery"}
         ELSE {"write_probe"}
    ELSE IF repeats >= RepeatLimit \/ reads >= ReadLimit THEN {"write_probe"} ELSE Tools

InTurn(tool) == stage = "agent" /\ turns < MaxTurns /\ tool \in Offered

Turn == turns' = turns + 1

unchangedByTurn == <<recovered, call, promoting, baseline, lists, executable>>

\* The repetitions and the reads count until the first probe is written.
Repeated(new) == repeats' = IF new THEN 1 ELSE repeats + 1

\* An answer without a tool call, or with one that is refused before it counts.
SilentTurn ==
  /\ stage = "agent" /\ turns < MaxTurns /\ Turn
  /\ UNCHANGED <<stage, probes, reads, repeats, unchangedByTurn>>

\* A call that fails, or reads.
IdleTurn ==
  /\ \E tool \in Tools : InTurn(tool) /\ reads' = IF tool \in Reading THEN reads + 1 ELSE reads
  /\ probes = <<>> /\ Turn
  /\ \E new \in BOOLEAN : (repeats = 0 => new) /\ Repeated(new)
  /\ UNCHANGED <<stage, probes, unchangedByTurn>>

WriteProbe ==
  /\ InTurn("write_probe") /\ Turn
  /\ Len(probes) < quota
  /\ probes' = Append(probes, NewProbe)
  /\ UNCHANGED <<stage, reads, repeats, unchangedByTurn>>

\* The model may name any probe, also one that has a contract and runs already;
\* whatever authority it asks for, the contract stays provisional.
RegisterContract ==
  /\ InTurn("register_observation_contract") /\ Turn
  /\ \E i \in DOMAIN probes, contract \in Contracts \ {"none"} :
       probes' = [probes EXCEPT ![i].contract = contract]
  /\ UNCHANGED <<stage, reads, repeats, unchangedByTurn>>

MayRun(runs, tries) == runs < StabilityRuns /\ tries < AttemptLimit

\* A run that passes or fails is a sample; a blocked one, or one refused by the
\* case budget, is an attempt only.
RunProbeOnClean ==
  /\ InTurn("run_probe_on_clean") /\ Turn
  /\ \E i \in DOMAIN probes :
       /\ MayRun(Len(probes[i].clean), probes[i].cleanTries)
       /\ \E sample \in {<<>>, <<"violates">>, <<"meets">>} :
            probes' = [probes EXCEPT ![i].cleanTries = @ + 1, ![i].clean = @ \o sample]
  /\ UNCHANGED <<stage, reads, repeats, unchangedByTurn>>

RunProbeOnWorking ==
  /\ InTurn("run_probe_on_working") /\ Turn
  /\ \E i \in DOMAIN probes :
       /\ MayRun(probes[i].working, probes[i].workingTries)
       /\ \E sample \in {0, 1} :
            probes' = [probes EXCEPT ![i].workingTries = @ + 1, ![i].working = @ + sample]
  /\ UNCHANGED <<stage, reads, repeats, unchangedByTurn>>

FinishTool == InTurn("finish_target_recovery") /\ Turn

\* The agent finishes, runs out of turns or time, or its transport fails.
EndConversation ==
  /\ stage = "agent"
  /\ FinishTool \/ UNCHANGED turns
  /\ stage' = "promote"
  /\ UNCHANGED <<probes, reads, repeats, unchangedByTurn>>

-----------------------------------------------------------------------------
\* Promotion of the probes, in the order they were written.

\* The contract is that of a grounded goal, and two equal runs violate it.
Promotable(p) ==
  /\ p.contract \in HardGoals
  /\ Len(p.clean) >= StabilityRuns
  /\ \A i \in DOMAIN p.clean : p.clean[i] = "violates"

TargetOfProbe(i) ==
  CHOOSE c \in AgentChecks : c.name = ProbeNames[i] /\ c.goal = probes[i].contract

PassOver ==
  /\ stage = "promote" /\ promoting \in DOMAIN probes /\ ~Promotable(probes[promoting])
  /\ promoting' = promoting + 1
  /\ UNCHANGED <<stage, recovered, call, probes, turns, reads, repeats, baseline, lists, executable>>

Promote ==
  /\ stage = "promote" /\ promoting \in DOMAIN probes /\ Promotable(probes[promoting])
  /\ LET c == TargetOfProbe(promoting)
     IN \E outcome \in Shows[c] :
          /\ baseline' = baseline \cup {<<c, outcome>>}
          /\ found' = IF outcome = "FAIL" THEN Append(found, c) ELSE found
  /\ promoting' = promoting + 1
  /\ UNCHANGED <<stage, recovered, quota, transport, review, queue, seen, kept, probes, turns,
                 reads, repeats, lists, executable>>

\* An exception, an exhausted budget among them, ends the promotion.
PromotionFails ==
  /\ stage = "promote" /\ promoting \in DOMAIN probes /\ Promotable(probes[promoting])
  /\ promoting' = Len(probes) + 1
  /\ UNCHANGED <<stage, recovered, call, probes, turns, reads, repeats, baseline, lists, executable>>

-----------------------------------------------------------------------------
\* The result of the first call is taken as it is; later ones are merged by id, so
\* that a check may take the place of another, and the targets cut to the
\* configured number.
Recovered(old, new) ==
  IF recovered = 0 THEN new ELSE FirstOf(ById(old \o new), MaxProbes)

\* The obligation of every recovered check is written anew, without a handle.
EndRecovery ==
  /\ stage = "promote" /\ promoting \notin DOMAIN probes
  /\ stage' = "idle" /\ recovered' = recovered + 1
  /\ quota' = MaxProbes /\ transport' = FALSE /\ review' = FALSE
  /\ seen' = {} /\ found' = <<>> /\ kept' = {}
  /\ probes' = <<>> /\ turns' = 0 /\ reads' = 0 /\ repeats' = 0 /\ promoting' = 1
  /\ targetChecks' = Recovered(targetChecks, found)
  /\ preservationChecks' = MergeSets(preservationChecks, kept)
  /\ executable' = executable \ IdsOf(AllIn(found) \cup kept)
  /\ UNCHANGED <<queue, baseline>>

RecoveryStep ==
  \/ Skip \/ Classify \/ ExhaustInClassification \/ EndClassification
  \/ SilentTurn \/ IdleTurn \/ WriteProbe \/ RegisterContract
  \/ RunProbeOnClean \/ RunProbeOnWorking \/ EndConversation
  \/ PassOver \/ Promote \/ PromotionFails \/ EndRecovery

-----------------------------------------------------------------------------
Grounds(c) ==
  {<<c, "FAIL">>} \cup {<<w, "FAIL">> : w \in {v \in AllIn(IssueWitnesses) : c \in AllIn(Facets[v.name])}}

\* A patch can be judged by a check only if the clean snapshot disagrees with it:
\* every target check of the case, whatever it was recovered from or rebuilt as and
\* however its lists were merged and cut, states a goal and failed in target code
\* on the clean snapshot with the comparator it has now, itself or the script it is
\* a facet of; every preservation check passed there (recover_target_checks).
ChecksAreGrounded ==
  /\ \A c \in AllIn(targetChecks) : c.trusted /\ c.goal \in Goals /\ Grounds(c) \cap baseline # {}
  /\ \A c \in preservationChecks : c.trusted /\ <<c, "PASS">> \in baseline

Usable(tool) ==
  CASE tool = "write_probe" -> Len(probes) < quota
    [] tool = "register_observation_contract" -> probes # <<>>
    [] tool = "run_probe_on_clean" ->
         \E i \in DOMAIN probes : MayRun(Len(probes[i].clean), probes[i].cleanTries)
    [] tool = "run_probe_on_working" ->
         \E i \in DOMAIN probes : MayRun(probes[i].working, probes[i].workingTries)
    [] OTHER -> TRUE

\* The agent is never forced to a tool that can only refuse: the tool a turn is
\* restricted to (recover) has a call the executor of the tools accepts, whatever
\* runs were blocked and whatever contracts were registered again.
ForcedToolIsUsable == stage = "agent" => \E tool \in Offered : Usable(tool)
=============================================================================
