---------------------------- MODULE FrontierSearch ----------------------------
(***************************************************************************)
(* The choice of the next action over the search graph: the frontier of    *)
(* reach_avoid/graph_policy.py, the hypotheses of                          *)
(* reach_avoid/dynamic_reach_avoid_graph.py and the part of the loop of    *)
(* reach_avoid/controller.py that exhausts actions, tries hypotheses,      *)
(* expands the source graph and counts failures of the generator.          *)
(* ReachAvoidController leaves that choice open and models checkpoints,    *)
(* locks and judgement in full; here these are reduced to what the         *)
(* frontier reads of them.                                                 *)
(*                                                                         *)
(* The verdict of a check on a patch is drawn when it first runs and stays *)
(* (deterministic evidence), except for Flaky patches, whose semantic      *)
(* signature may change from run to run.  Identifiers of actions are the   *)
(* tuples the code hashes.                                                 *)
(***************************************************************************)
EXTENDS Integers, FiniteSets

CONSTANTS
  Patches,          \* the diffs the generator may return
  Blocked,          \* those with a mechanical blocker
  Flaky,            \* those whose checks change their signature between runs
  NoPatch,
  Targets,          \* target checks that may be bound to the goal
  Challenges,       \* challenge checks a diff may bring up
  Verdicts,         \* check -> what it may show
  Regions,          \* source regions, numbered by their rank as causal cuts
  MechanismOf,      \* region -> the repair mechanism its source suggests
  Cells,            \* exploratory challenge cells with a command
  BranchFactor,     \* search_budget.branch_factor
  MaxDepth,         \* search_budget.max_depth
  MaxRevisions,     \* min(max_real_patch_revisions, max_evaluated_patch_nodes)
  MaxExpansions,    \* graph.budget.max_expansion_depth
  MaxProbes,        \* max_exploratory_probes_per_checkpoint
  RecoveryAttempts, \* target_recovery_attempts
  MaxFailures       \* max_no_progress_generator_attempts

Checks == Targets \cup Challenges
Results == {"PASS", "WEAK", "FAIL", "UNKNOWN"}

ASSUME BoundsAreNatural ==
  /\ {BranchFactor, MaxRevisions, MaxFailures} \subseteq Nat \ {0}
  /\ {MaxDepth, MaxExpansions, MaxProbes, RecoveryAttempts} \subseteq Nat
ASSUME PatchesAndVerdicts ==
  /\ NoPatch \notin Patches /\ Blocked \cup Flaky \subseteq Patches
  /\ Verdicts \in [Checks -> SUBSET Results]
  /\ \A c \in Checks : Verdicts[c] # {}
ASSUME RolesAreDisjoint == Targets \cap Challenges = {}
ASSUME RegionsAreRanked ==
  /\ Regions \subseteq Nat \ {0} /\ IsFiniteSet(Regions)
  /\ DOMAIN MechanismOf = Regions

-----------------------------------------------------------------------------
Ids == 0..MaxRevisions
P0 == 0

Mechanical == "mechanical"
\* A hypothesis belongs to a checkpoint, a failure and a causal cut; the one
\* for a mechanical blocker has no cut.
Hypotheses == [node : Ids, failure : Checks \cup {Mechanical}, cut : Regions \cup {0}]
NoHypothesis == [node |-> -1, failure |-> Mechanical, cut |-> 0]

NoFailure == [hyp |-> NoHypothesis, remaining |-> {}]

NotSeen == "NOT_SEEN"
Unseen == [c \in Checks |-> NotSeen]
Missing == "missing"   \* the missing-contract obligation of a goal without checks

VARIABLES
  pc, action,
  nodes,      \* id -> the checkpoint node
  truth,      \* patch -> check -> its verdict, once drawn
  known,      \* checks in the state; the targets among them
  facets,     \* targets with a CONTRACT_FACET obligation in the graph
  source,     \* regions in the graph
  expansions, \* graph.metrics graph_expansion_count
  tried,      \* attempted_hypotheses
  cells,      \* exploratory cells that have been observed
  distinct, revision, rounds,
  allowed,    \* generation_allowed of this iteration
  failure,    \* the active failure under repair
  api, empty, \* api_failures, empty_attempts
  terminal,   \* terminal_status
  clock,      \* early, within the final reserve, or over
  flicker     \* toggles when a flaky signature changes

search == <<nodes, truth, known, facets, source, expansions, tried, cells>>
counts == <<distinct, revision, rounds, allowed, failure, api, empty>>
vars == <<pc, action, search, counts, terminal, clock, flicker>>

NewNode(patch, parent, depth, status) ==
  [patch |-> patch, parent |-> parent, depth |-> depth, status |-> status,
   results |-> Unseen, sig |-> 0, owed |-> {}, locks |-> {}, gaps |-> {},
   registered |-> {}, expanded |-> {}, exhausted |-> {}, rounds |-> 0, probes |-> 0]

Live == {n \in Ids : nodes[n].status # "ABSENT"}

\* A node with the given exhausted actions, whose identifiers are of many kinds.
NodeType(exhausted) ==
  [patch : Patches \cup {NoPatch}, parent : Ids, depth : 0..(MaxRevisions + 1),
   status : {"ABSENT", "OPEN", "EXPANDED", "REJECTED", "ACCEPTED",
             "CERTIFIED"},
   results : [Checks -> Results \cup {NotSeen}], sig : 0..1, owed : SUBSET Checks,
   locks : SUBSET Checks, gaps : SUBSET (Checks \cup {Missing}),
   registered : SUBSET Hypotheses, expanded : SUBSET Hypotheses,
   exhausted : {exhausted}, rounds : 0..MaxExpansions, probes : 0..MaxProbes]

-----------------------------------------------------------------------------
(* The frontier (derive_frontier_actions, select_next_action).               *)

Seen(results) == {c \in Checks : results[c] # NotSeen}
Failing(results) == {c \in Checks : results[c] = "FAIL"}
Executed(c) == Seen(c.results) # {}

\* What identifies an action besides its checkpoint: the evidence it acts on
\* and, for an expansion, the rounds made before it.
Version(c, made) ==
  [results |-> c.results, sig |-> c.sig, facets |-> facets, made |-> made]

\* What the evidence of a checkpoint calls for, most urgent first.
KindOf(c) ==
  CASE ~Executed(c) \/ c.owed # {}        -> "VALIDATE_CHECKPOINT"
    [] c.patch \in Blocked                -> "FIX_MECHANICAL"
    [] Failing(c.results) # {}            -> "GENERATE_PATCH"
    [] Seen(c.results) \cap Targets = {}
       \/ c.gaps # {}             -> "RECOVER_EVIDENCE"
    [] OTHER                              -> "FINAL_REVIEW"

PriorityOf(c, kind) ==
  CASE kind = "FIX_MECHANICAL"      -> 0
    [] kind = "VALIDATE_CHECKPOINT" -> 1
    [] kind = "FINAL_REVIEW"        -> 2
    [] kind = "RECOVER_EVIDENCE"    -> 3
    [] kind = "GENERATE_PATCH"      -> IF Failing(c.results) \cap c.locks # {} THEN 1 ELSE 4

Action(id, kind, n, hyp, priority) ==
  [id |-> id, kind |-> kind, node |-> n, hyp |-> hyp, priority |-> priority]

NoAction == Action(<<"NONE">>, "NONE", P0, NoHypothesis, 0)

Untried(c) == c.registered \ c.expanded

ProbeActions(n) ==
  {Action(<<"RUN_PROBE", n, cell>>, "RUN_PROBE", n, NoHypothesis, 2) :
     cell \in {x \in Cells \ cells : Executed(nodes[n]) /\ nodes[n].probes < MaxProbes}}

MayExpand(c) == c.rounds < MaxExpansions

\* A bug to compare with: a checkpoint at the limit is repaired.
MayRepairAtLimit(c) == c.depth <= MaxDepth

MayRepair(c) == c.depth < MaxDepth

\* Repairs stop at the depth limit and when no patch may be generated.  An
\* EXPANDED checkpoint gets a bounded number of source expansions, another one
\* an action per untried hypothesis, or one general action.
RepairActions(n, c, kind) ==
  IF c.status = "EXPANDED"
    THEN IF ~MayExpand(c) THEN {}
         ELSE {Action(<<"EXPAND_GRAPH", n, Version(c, c.rounds)>>, "EXPAND_GRAPH", n,
                      NoHypothesis, 5)}
  ELSE IF Untried(c) # {}
    THEN {Action(<<"TRY", n, h>>, kind, n, h, PriorityOf(c, kind)) : h \in Untried(c)}
  ELSE {Action(<<kind, n, Version(c, 0)>>, kind, n, NoHypothesis, PriorityOf(c, kind))}

EvidenceActions(n, c, kind) ==
  IF kind = "RECOVER_EVIDENCE" /\ c.gaps # {}
    THEN {Action(<<"RECOVER", n, Version(c, 0), gap>>, kind, n, NoHypothesis, 3) :
            gap \in c.gaps}
  ELSE {Action(<<kind, n, Version(c, 0)>>, kind, n, NoHypothesis, PriorityOf(c, kind))}

ActionsAt(n, generate) ==
  LET c == nodes[n]
      kind == KindOf(c)
      own == IF kind \notin {"FIX_MECHANICAL", "GENERATE_PATCH"}
               THEN EvidenceActions(n, c, kind)
             ELSE IF generate /\ MayRepair(c) THEN RepairActions(n, c, kind) ELSE {}
  IN IF c.status \in {"ABSENT", "REJECTED", "CERTIFIED"} THEN {}
     ELSE {a \in ProbeActions(n) \cup own : a.id \notin c.exhausted}

Frontier(generate) == UNION {ActionsAt(n, generate) : n \in Ids}

\* select_next_action; scores, visits and costs only order equal priorities.
Best(actions) == {a \in actions : \A b \in actions : a.priority <= b.priority}

\* No patch is generated once the revisions are used up, nor within the time
\* reserved for the final validation.
GenerationAllowed == revision < MaxRevisions /\ clock = "early"

\* A bug to compare with: an action can be selected again.
ForgetIn(ns, a) == ns

\* exhaust_action.
ExhaustIn(ns, a) == [ns EXCEPT ![a.node].exhausted = @ \cup {a.id}]

-----------------------------------------------------------------------------
(* Evidence of a checkpoint.                                                 *)

\* Verdicts of the patch for the checks of one run: what was drawn before
\* stays, the others are drawn now.
RunsOf(patch, run) ==
  {t \in [Checks -> Results \cup {NotSeen}] :
     \A c \in Checks :
       IF c \notin run THEN t[c] = NotSeen
       ELSE IF truth[patch][c] # NotSeen THEN t[c] = truth[patch][c]
       ELSE t[c] \in Verdicts[c]}

Drawn(patch, results) ==
  [truth EXCEPT ![patch] = [c \in Checks |-> IF results[c] # NotSeen THEN results[c] ELSE @[c]]]

Passing(results) == {c \in Checks : results[c] \in {"PASS", "WEAK"}}

\* all_reach_conditions_pass, before the audit of the oracles: WEAK is a pass
\* whose oracle the audit finds insufficient.
PotentiallyReached(patch, results) ==
  /\ patch \notin Blocked
  /\ Seen(results) \cap Targets # {}
  /\ Seen(results) = Passing(results)

\* evaluate_validation_closure over the obligations of the bound targets and
\* the challenges of the checkpoint; the audit runs only before certification.
GapsOf(patch, results) ==
  (IF Seen(results) \cap Targets = {} THEN {Missing} ELSE {})
  \cup (Seen(results) \ Passing(results))
  \cup (IF PotentiallyReached(patch, results)
          THEN {c \in Checks : results[c] = "WEAK"} ELSE {})

FacetsOf(checks) == IF checks \cap Targets = {} THEN {Missing} ELSE checks \cap Targets

Signature(patch, old) == IF patch \in Flaky THEN {0, 1} ELSE {old}

-----------------------------------------------------------------------------
(* Hypotheses.                                                               *)

\* rank_causal_cuts: the best ranked regions of the current source.
TopCuts(regions) ==
  {r \in regions : Cardinality({q \in regions : q < r}) < BranchFactor}

\* build_distinct_repair_hypotheses: one per mechanism, of the best cut.
HypothesesFor(n, f, regions) ==
  {[node |-> n, failure |-> f, cut |-> r] :
     r \in {r \in TopCuts(regions) :
              \A q \in TopCuts(regions) : MechanismOf[q] = MechanismOf[r] => r <= q}}

\* A bug to compare with: only the checkpoint itself is asked.
TriedElsewhereNever(h) == 0

\* At how many checkpoints the same failure, cut and mechanism were expanded.
TriedElsewhere(h) ==
  Cardinality({n \in Ids : [h EXCEPT !.node = n] \in nodes[n].expanded})

ViableAt(n, offered) ==
  {h \in offered : h \notin tried /\ h \notin nodes[n].expanded /\ TriedElsewhere(h) < 2}

\* expand_dynamic_graph_frontier, bounded over the whole case; it may find
\* nothing, and may return before it counts as an expansion.
Expansions ==
  {[regions |-> source, count |-> expansions]} \cup
  IF expansions >= MaxExpansions THEN {}
  ELSE {[regions |-> source \cup found, count |-> expansions + 1] :
          found \in SUBSET (Regions \ source)}

-----------------------------------------------------------------------------
Init ==
  /\ pc = "select"
  /\ action = NoAction
  /\ \E p \in Patches :
       nodes = [n \in Ids |-> IF n = P0 THEN NewNode(p, P0, 0, "OPEN")
                             ELSE NewNode(NoPatch, P0, 0, "ABSENT")]
  /\ truth = [p \in Patches |-> Unseen]
  /\ known \in SUBSET Targets
  /\ facets = FacetsOf(known)
  /\ source \in SUBSET Regions
  /\ expansions = 0 /\ tried = {} /\ cells = {}
  /\ distinct = {} /\ revision = 0 /\ rounds = 0 /\ allowed = FALSE
  /\ failure = NoFailure
  /\ api = 0 /\ empty = 0
  /\ terminal = "BEST_EFFORT_REVISION_LIMIT"
  /\ clock = "early" /\ flicker = 0

\* The next iteration starts without an action, a failure or a hypothesis.
Reselect ==
  /\ pc' = "select" /\ action' = NoAction
  /\ failure' = NoFailure /\ allowed' = FALSE

\* After the loop a case without targets is reported as limited by evidence.
Finish(status) ==
  /\ pc' = "done"
  /\ terminal' = IF known \cap Targets = {} THEN "EVIDENCE_LIMITED" ELSE status

Tick ==
  /\ pc # "done"
  /\ clock' = IF clock = "early" THEN "late" ELSE "over"
  /\ clock # "over"
  /\ UNCHANGED <<pc, action, search, counts, terminal, flicker>>

TimeIsUp ==
  /\ pc = "select" /\ clock = "over"
  /\ Finish(terminal)
  /\ UNCHANGED <<action, search, counts, clock, flicker>>

FrontierExhausted ==
  /\ pc = "select" /\ clock # "over"
  /\ Frontier(GenerationAllowed) = {}
  /\ Finish(IF terminal = "EVIDENCE_LIMITED" THEN terminal
            ELSE "GLOBAL_FRONTIER_EXHAUSTED")
  /\ UNCHANGED <<action, search, counts, clock, flicker>>

\* A probe records exploratory observations, or is not executed at all.
RunProbe(a) ==
  /\ a.kind = "RUN_PROBE"
  /\ nodes' = ExhaustIn([nodes EXCEPT ![a.node].probes = @ + 1], a)
  /\ cells' \in {cells, cells \cup {a.id[3]}}
  /\ UNCHANGED <<pc, action, truth, known, facets, source, expansions, tried, counts,
                 terminal, clock, flicker>>

\* A checkpoint is reopened by an expansion that found new source.
ExpansionRound(ns, n, found) ==
  [ns EXCEPT ![n].rounds = @ + 1, ![n].status = IF found THEN "OPEN" ELSE @]

ExpandGraph(a) ==
  /\ a.kind = "EXPAND_GRAPH"
  /\ \E e \in Expansions :
       /\ source' = e.regions /\ expansions' = e.count
       /\ nodes' = ExhaustIn(ExpansionRound(nodes, a.node, e.regions # source), a)
  /\ UNCHANGED <<pc, action, truth, known, facets, tried, cells, counts, terminal,
                 clock, flicker>>

\* The checks of the state, and challenges the current source brings up, run
\* on the selected checkpoint; it is certified if they leave no gap.
Evaluate(a) ==
  /\ a.kind \notin {"RUN_PROBE", "EXPAND_GRAPH"}
  /\ \E found \in SUBSET (Challenges \ known) :
     LET c == nodes[a.node]
         run == known \cup found
     IN \E results \in RunsOf(c.patch, run) : \E sig \in Signature(c.patch, c.sig) :
          /\ known' = run
          /\ truth' = Drawn(c.patch, results)
          /\ nodes' = [nodes EXCEPT ![a.node].results = results, ![a.node].sig = sig,
                         ![a.node].owed = {}, ![a.node].gaps = GapsOf(c.patch, results),
                         ![a.node].locks = @ \cup (Passing(results) \cap Targets)]
          /\ facets' = facets \cup FacetsOf(run)
          /\ flicker' = IF Executed(c) /\ sig # c.sig THEN 1 - flicker ELSE flicker
          /\ IF PotentiallyReached(c.patch, results) /\ GapsOf(c.patch, results) = {}
               THEN pc' = "done" /\ terminal' = "REACHED"
               ELSE pc' = "diagnose" /\ UNCHANGED terminal
  /\ action' = a /\ allowed' = GenerationAllowed
  /\ UNCHANGED <<source, expansions, tried, cells, distinct, revision, rounds, failure,
                 api, empty, clock>>

Select ==
  /\ pc = "select" /\ clock # "over"
  /\ \E a \in Best(Frontier(GenerationAllowed)) :
       RunProbe(a) \/ ExpandGraph(a) \/ Evaluate(a)

-----------------------------------------------------------------------------
(* Diagnosis of the evaluated checkpoint.                                    *)

\* The failure that select_frontier_action_from_graph and
\* select_active_failure pick, if any.
ActiveFailures(c) ==
  IF c.patch \in Blocked THEN {Mechanical}
  ELSE IF Failing(c.results) \cap Targets # {} THEN Failing(c.results) \cap Targets
  ELSE IF Seen(c.results) \cap Targets = {} THEN {}
  ELSE Failing(c.results)

Diagnosed == pc = "diagnose"

\* Recovery may add checks, up to target_recovery_max_probes; the action is
\* selected again afterwards.
RecoverEvidence ==
  /\ Diagnosed /\ ActiveFailures(nodes[action.node]) = {}
  /\ nodes[action.node].gaps # {} /\ rounds < RecoveryAttempts
  /\ \E found \in SUBSET Targets : known' = known \cup found
  /\ rounds' = rounds + 1
  /\ Reselect
  /\ UNCHANGED <<nodes, truth, facets, source, expansions, tried, cells,
                 distinct, revision, api, empty, terminal, clock, flicker>>

RecoveryIsOver(gaps) == gaps = {} \/ rounds >= RecoveryAttempts

GiveUpEvidence ==
  /\ Diagnosed /\ ActiveFailures(nodes[action.node]) = {}
  /\ RecoveryIsOver(nodes[action.node].gaps)
  /\ terminal' = IF nodes[action.node].gaps # {} THEN "EVIDENCE_LIMITED"
                 ELSE "MECHANISM_EXHAUSTED"
  /\ nodes' = ExhaustIn(nodes, action)
  /\ Reselect
  /\ UNCHANGED <<truth, known, facets, source, expansions, tried, cells,
                 distinct, revision, rounds, api, empty, clock, flicker>>

\* A failure met while validating or reviewing, when no patch may be generated.
NoGeneration ==
  /\ Diagnosed /\ ActiveFailures(nodes[action.node]) # {}
  /\ ~allowed
  /\ nodes' = ExhaustIn(nodes, action)
  /\ Reselect
  /\ UNCHANGED <<truth, known, facets, source, expansions, tried, cells,
                 distinct, revision, rounds, api, empty, terminal, clock, flicker>>

\* The hypotheses offered for the active failure, and the source they come
\* from: with fewer than two cuts the source is expanded first.
Offers(n, f) ==
  IF f = Mechanical
    THEN {[from |-> [regions |-> source, count |-> expansions],
           offered |-> {[node |-> n, failure |-> f, cut |-> 0]},
           viable |-> {[node |-> n, failure |-> f, cut |-> 0]} \ tried]}
  ELSE {[from |-> e, offered |-> HypothesesFor(n, f, e.regions),
         viable |-> ViableAt(n, HypothesesFor(n, f, e.regions))] :
          e \in IF Cardinality(TopCuts(source)) < 2 /\ BranchFactor > 1
                  THEN Expansions ELSE {[regions |-> source, count |-> expansions]}}

\* The hypothesis of the action, or the best ranked one.
Chosen(viable, hyp) ==
  IF hyp # NoHypothesis THEN viable \cap {hyp}
  ELSE {h \in viable : \A g \in viable : h.cut <= g.cut}

\* Challenges that the diff brings up run at once; they are recorded with the
\* checkpoint only if a hypothesis is submitted, and are owed otherwise.
\* Without a hypothesis the checkpoint is EXPANDED; a stale hypothesis is
\* given up alone.
PrepareRepair ==
  /\ Diagnosed /\ allowed
  /\ \E f \in ActiveFailures(nodes[action.node]) :
     \E o \in Offers(action.node, f) :
     \E found \in SUBSET (IF f = Mechanical THEN {} ELSE Challenges \ known) :
     LET n == action.node
         c == nodes[n]
         pick == Chosen(o.viable, action.hyp)
         registered == [nodes EXCEPT ![n].registered = @ \cup o.offered]
     IN \E results \in RunsOf(c.patch, Seen(c.results) \cup found) :
          /\ source' = o.from.regions /\ expansions' = o.from.count
          /\ known' = known \cup found
          /\ truth' = Drawn(c.patch, results)
          /\ IF pick # {}
               THEN \E h \in pick :
                      /\ nodes' = [registered EXCEPT ![n].expanded = @ \cup {h},
                                                     ![n].results = results]
                      /\ tried' = tried \cup {h}
                      /\ failure' = [hyp |-> h, remaining |-> o.viable \ {h}]
                      /\ pc' = "repair" /\ UNCHANGED <<action, allowed>>
             ELSE /\ nodes' = [ExhaustIn(registered, action) EXCEPT
                                 ![n].owed = @ \cup found,
                                 ![n].status = IF o.viable = {} THEN "EXPANDED" ELSE @]
                  /\ Reselect /\ UNCHANGED tried
  /\ UNCHANGED <<facets, cells, distinct, revision, rounds, api, empty, terminal, clock,
                 flicker>>

-----------------------------------------------------------------------------
(* The generator and the evaluation of its patch.                            *)

Repairing == pc = "repair"

MechanismExhausted ==
  /\ nodes' = ExhaustIn([nodes EXCEPT ![action.node].status = "EXPANDED"], action)
  /\ terminal' = "MECHANISM_EXHAUSTED"
  /\ Reselect

Continue == Reselect /\ UNCHANGED <<nodes, terminal>>

Unavailable ==
  /\ Finish("EXTERNAL_API_UNAVAILABLE")
  /\ UNCHANGED <<nodes, action, failure, allowed>>

\* A bug to compare with: siblings that were not tried do not count.
ApiFailsAtOnce ==
  /\ Repairing
  /\ api' = api + 1
  /\ IF api' < MaxFailures THEN Continue
     ELSE Unavailable
  /\ UNCHANGED <<truth, known, facets, source, expansions, tried, cells, distinct,
                 revision, rounds, empty, clock, flicker>>

\* A call that fails from outside ends the case only when the limit is reached
\* and no sibling hypothesis remains.
ApiFails ==
  /\ Repairing
  /\ api' = api + 1
  /\ IF api' < MaxFailures \/ failure.remaining # {} THEN Continue
     ELSE Unavailable
  /\ UNCHANGED <<truth, known, facets, source, expansions, tried, cells, distinct,
                 revision, rounds, empty, clock, flicker>>

MechanismFails ==
  /\ Repairing
  /\ empty' = empty + 1
  /\ IF empty' < MaxFailures \/ failure.remaining # {} THEN Continue
     ELSE MechanismExhausted
  /\ UNCHANGED <<truth, known, facets, source, expansions, tried, cells, distinct,
                 revision, rounds, api, clock, flicker>>

\* A session that returns no new diff.
ReturnsNothing ==
  /\ Repairing
  /\ api' = 0
  /\ empty' = IF empty + 1 >= MaxFailures /\ failure.remaining # {} THEN 0 ELSE empty + 1
  /\ IF empty + 1 < MaxFailures \/ failure.remaining # {} THEN Continue
     ELSE MechanismExhausted
  /\ UNCHANGED <<truth, known, facets, source, expansions, tried, cells, distinct,
                 revision, rounds, clock, flicker>>

\* record_patch_transposition: the patch was evaluated before.
ReturnsKnownPatch ==
  /\ Repairing /\ distinct # {}
  /\ api' = 0 /\ empty' = 0
  /\ nodes' = ExhaustIn(nodes, action)
  /\ Reselect
  /\ UNCHANGED <<truth, known, facets, source, expansions, tried, cells, distinct,
                 revision, rounds, terminal, clock, flicker>>

\* The child is evaluated with the checks of its parent and those it brings
\* up, and judged.  The transition table is in TransitionTable; here a child
\* that passes everything is reached unless the audit leaves a gap, which is
\* recorded, and any other child may be rejected or accepted: promoted or kept
\* for repair, which is the same to the frontier.
Decided(patch, results) ==
  IF ~PotentiallyReached(patch, results)
    THEN {"REJECTED", "ACCEPTED"}
  ELSE IF GapsOf(patch, results) = {} THEN {"CERTIFIED"} ELSE {"ACCEPTED"}

ReturnsPatch(p) ==
  /\ Repairing /\ p \notin distinct
  /\ api' = 0 /\ empty' = 0
  /\ revision' = revision + 1 /\ distinct' = distinct \cup {p}
  /\ \E found \in SUBSET (Challenges \ known) :
     \E results \in RunsOf(p, known \cup found) : \E decision \in Decided(p, results) :
     LET parent == nodes[action.node]
         judged == PotentiallyReached(p, results)
     IN /\ known' = known \cup found
        /\ truth' = Drawn(p, results)
        /\ nodes' = [nodes EXCEPT ![revision + 1] =
             [NewNode(p, action.node, parent.depth + 1, decision) EXCEPT
                !.results = results,
                !.locks = parent.locks \cup Passing(results),
                !.gaps = IF judged THEN GapsOf(p, results) ELSE {}]]
        /\ facets' = IF judged THEN facets \cup FacetsOf(known') ELSE facets
        /\ IF decision = "CERTIFIED"
             THEN /\ pc' = "done" /\ terminal' = "REACHED"
                  /\ UNCHANGED <<action, failure, allowed>>
           ELSE Reselect /\ UNCHANGED terminal
  /\ UNCHANGED <<source, expansions, tried, cells, rounds, clock, flicker>>

Generator ==
  \/ ApiFails \/ MechanismFails \/ ReturnsNothing \/ ReturnsKnownPatch
  \/ \E p \in Patches : ReturnsPatch(p)

Loop ==
  \/ FrontierExhausted \/ Select \/ TimeIsUp
  \/ RecoverEvidence \/ GiveUpEvidence \/ NoGeneration \/ PrepareRepair
  \/ Generator

Done == pc = "done" /\ UNCHANGED vars

Next == Loop \/ Tick \/ Done

Spec == Init /\ [][Next]_vars

\* The loop is one thread that keeps running; calls of the generator and runs
\* of checks have timeouts and return.
FairSpec == Spec /\ WF_vars(Loop)

-----------------------------------------------------------------------------
(* Properties.                                                               *)

NodeOK(c) ==
  /\ c \in NodeType(c.exhausted)
  /\ c.expanded \subseteq c.registered

\* Type invariant of the search state; every counter within its bound.
TypeOK ==
  /\ pc \in {"select", "diagnose", "repair", "done"}
  /\ action.node \in Ids /\ action.hyp \in Hypotheses \cup {NoHypothesis}
  /\ DOMAIN nodes = Ids /\ \A n \in Ids : NodeOK(nodes[n])
  /\ truth \in [Patches -> [Checks -> Results \cup {NotSeen}]]
  /\ known \subseteq Checks /\ facets \subseteq Targets \cup {Missing}
  /\ source \subseteq Regions /\ expansions \in 0..MaxExpansions
  /\ tried \subseteq Hypotheses /\ cells \subseteq Cells
  /\ distinct \subseteq Patches /\ revision \in 0..MaxRevisions
  /\ rounds \in 0..RecoveryAttempts /\ allowed \in BOOLEAN
  /\ failure.hyp \in Hypotheses \cup {NoHypothesis} /\ failure.remaining \subseteq Hypotheses
  /\ api \in Nat /\ empty \in Nat
  /\ clock \in {"early", "late", "over"} /\ flicker \in 0..1

\* The same repair idea for the same failure is submitted at two checkpoints at
\* most, whatever path the search takes through siblings, reopened checkpoints
\* and new source (controller.py:1604).
MechanismAtMostTwice ==
  \A f \in Checks, r \in Regions :
    Cardinality({n \in Ids : [node |-> n, failure |-> f, cut |-> r] \in nodes[n].expanded}) <= 2

\* The unavailability of the generator ends the case only after as many
\* submissions as the limit asks for, and with nothing left to try for the
\* failure at hand (controller.py:1700).
UnavailableIsEarned ==
  terminal = "EXTERNAL_API_UNAVAILABLE" =>
    /\ Cardinality(tried) >= MaxFailures
    /\ failure.hyp.failure # Mechanical =>
         ViableAt(action.node, HypothesesFor(action.node, failure.hyp.failure, source)) = {}

\* A case reported as limited by evidence has used up its recovery rounds and
\* has a checkpoint with an open obligation, or has no target at all
\* (controller.py:1510, 1935).
EvidenceLimitedIsTrue ==
  pc = "done" /\ terminal = "EVIDENCE_LIMITED" =>
    \/ known \cap Targets = {}
    \/ rounds = RecoveryAttempts /\ \E n \in Live : nodes[n].gaps # {}

\* Repairs stop at the depth limit, except of a checkpoint at the limit whose
\* failure was not on record when it was selected: only new evidence takes the
\* search deeper (graph_policy.py:171, controller.py:1517).
DepthYieldsOnlyToNewEvidence ==
  [][pc = "diagnose" /\ pc' = "repair" /\ nodes[action.node].depth >= MaxDepth =>
       action.kind \in {"VALIDATE_CHECKPOINT", "RECOVER_EVIDENCE", "FINAL_REVIEW"}]_vars

\* Without the help of the clock the search ends: whatever it repeats is
\* exhausted in the end, unless a flaky check keeps changing its signature
\* (controller.py:1318).
SearchEnds == <>(pc = "done") \/ []<><<flicker' # flicker>>_vars

\* No counter of the search leaves its bound, and no idea is tried again and
\* again under another checkpoint.
RepetitionIsBounded == TypeOK /\ MechanismAtMostTwice

\* The reasons the search gives for stopping short are true.
StopIsEarned == UnavailableIsEarned /\ EvidenceLimitedIsTrue
=============================================================================
