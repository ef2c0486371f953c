------------------------ MODULE FrontierSearchProofs ------------------------
(***************************************************************************)
(* What holds of the search for every set of patches, checks, regions and  *)
(* every bound (FrontierSearch): no counter leaves its bound, no repair    *)
(* idea is submitted at more than two checkpoints, and the reasons given   *)
(* for stopping short are true.                                            *)
(***************************************************************************)
EXTENDS FrontierSearch, FiniteSetTheorems, TLAPS

-----------------------------------------------------------------------------
(* The inductive invariant.                                                *)

\* Nodes are made in the order of the revisions, each deeper by one than some
\* earlier one.
NodesAreInOrder ==
  \A n \in Ids :
    /\ nodes[n].depth <= n
    /\ nodes[n].status # "ABSENT" => nodes[n].patch \in Patches /\ n <= revision

\* The action at hand acts on a node, which is below the depth limit unless the
\* action asked for evidence; a repair was allowed when it was selected.
ActionIsApt ==
  pc \in {"diagnose", "repair"} =>
    /\ nodes[action.node].status # "ABSENT"
    /\ allowed => revision < MaxRevisions
    /\ pc = "repair" => allowed
    /\ \/ action.kind \in {"VALIDATE_CHECKPOINT", "RECOVER_EVIDENCE", "FINAL_REVIEW"}
       \/ nodes[action.node].depth < MaxDepth

\* A diagnosis is of the results just drawn, of all checks known so far.
EvidenceIsFresh ==
  pc = "diagnose" =>
    LET c == nodes[action.node]
    IN /\ Seen(c.results) = known
       /\ \A k \in known : truth[c.patch][k] = c.results[k]
       /\ c.gaps = GapsOf(c.patch, c.results)

\* Every call that fails from outside is for a hypothesis of its own.
CallsAreCounted ==
  /\ IsFiniteSet(tried) /\ api <= Cardinality(tried)
  /\ pc = "repair" => api < Cardinality(tried)

\* What is still viable for the failure under repair is counted as remaining.
SiblingsRemain ==
  pc = "repair" /\ failure.hyp.failure # Mechanical =>
    ViableAt(action.node, HypothesesFor(action.node, failure.hyp.failure, source))
      \subseteq failure.remaining

\* Why the gap of a node stays open: there is no target, or a check that the patch
\* does not pass stays known.
CannotClose(n) ==
  /\ nodes[n].status # "ABSENT" /\ nodes[n].gaps # {} /\ nodes[n].patch \notin Blocked
  /\ \/ known \cap Targets = {}
     \/ \E c \in known : truth[nodes[n].patch][c] \in {"FAIL", "UNKNOWN", "WEAK"}

\* A case that goes on has a live generator; if it gave up on evidence, recovery is
\* over and some gap can never be closed.
OpenCaseIsHonest ==
  pc # "done" =>
    /\ terminal # "EXTERNAL_API_UNAVAILABLE"
    /\ terminal = "EVIDENCE_LIMITED" => rounds = RecoveryAttempts /\ \E n \in Ids : CannotClose(n)

\* What StopIsEarned and the bounds rest on.
IInv ==
  /\ TypeOK /\ NodesAreInOrder /\ ActionIsApt /\ EvidenceIsFresh
  /\ MechanismAtMostTwice /\ CallsAreCounted /\ SiblingsRemain
  /\ OpenCaseIsHonest /\ StopIsEarned

-----------------------------------------------------------------------------
(* What a step does to a node.                                             *)

\* Only the node n changes; it stays a node of the same patch at its depth.
Touched(n) ==
  /\ DOMAIN nodes' = Ids /\ \A m \in Ids \ {n} : nodes'[m] = nodes[m]
  /\ NodeOK(nodes'[n])
  /\ nodes'[n].patch = nodes[n].patch /\ nodes'[n].depth = nodes[n].depth
  /\ nodes'[n].status = "ABSENT" <=> nodes[n].status = "ABSENT"

\* And what was submitted there and what is missing there stays.
Kept(n) ==
  Touched(n) /\ nodes'[n].expanded = nodes[n].expanded /\ nodes'[n].gaps = nodes[n].gaps

\* An exhausted action leaves its identifier and nothing else.
LEMMA ExhaustKeeps ==
  ASSUME TypeOK, NEW a, a.node \in Ids, nodes' = ExhaustIn(nodes, a)
  PROVE  Kept(a.node)
<1>1. DOMAIN nodes = Ids /\ NodeOK(nodes[a.node])
  BY DEF TypeOK
<1> QED BY <1>1 DEF ExhaustIn, Kept, Touched, NodeOK, NodeType

\* A probe is counted within its bound.
LEMMA ProbeKeeps ==
  ASSUME TypeOK, NEW a, a.node \in Ids, nodes[a.node].probes < MaxProbes,
         nodes' = ExhaustIn([nodes EXCEPT ![a.node].probes = @ + 1], a)
  PROVE  Kept(a.node)
<1>1. DOMAIN nodes = Ids /\ NodeOK(nodes[a.node])
  BY DEF TypeOK
<1>2. nodes[a.node].probes \in 0..MaxProbes /\ nodes[a.node].probes + 1 \in 0..MaxProbes
  BY <1>1, BoundsAreNatural DEF NodeOK, NodeType
<1> QED BY <1>1, <1>2, ZenonT(60) DEF ExhaustIn, Kept, Touched, NodeOK, NodeType

\* So is a round of expansion; a node that is reopened was there before.
LEMMA ExpansionKeeps ==
  ASSUME TypeOK, NEW a, a.node \in Ids, nodes[a.node].rounds < MaxExpansions,
         nodes[a.node].status # "ABSENT", NEW found \in BOOLEAN,
         nodes' = ExhaustIn(ExpansionRound(nodes, a.node, found), a)
  PROVE  Kept(a.node)
<1>1. DOMAIN nodes = Ids /\ NodeOK(nodes[a.node])
  BY DEF TypeOK
<1>2. nodes[a.node].rounds \in 0..MaxExpansions /\ nodes[a.node].rounds + 1 \in 0..MaxExpansions
  BY <1>1, BoundsAreNatural DEF NodeOK, NodeType
<1> QED BY <1>1, <1>2, ZenonT(60) DEF ExhaustIn, ExpansionRound, Kept, Touched, NodeOK, NodeType

\* A mechanism is given up at a node that is there.
LEMMA GiveUpKeeps ==
  ASSUME TypeOK, NEW a, a.node \in Ids, nodes[a.node].status # "ABSENT",
         nodes' = ExhaustIn([nodes EXCEPT ![a.node].status = "EXPANDED"], a)
  PROVE  Kept(a.node)
<1>1. DOMAIN nodes = Ids /\ NodeOK(nodes[a.node])
  BY DEF TypeOK
<1> QED BY <1>1, ZenonT(60) DEF ExhaustIn, Kept, Touched, NodeOK, NodeType

\* Hypotheses are registered and none is submitted.
LEMMA NoHypothesisKeeps ==
  ASSUME TypeOK, NEW a, a.node \in Ids, nodes[a.node].status # "ABSENT",
         NEW offered \in SUBSET Hypotheses, NEW found \in SUBSET Checks, NEW over \in BOOLEAN,
         nodes' = [ExhaustIn([nodes EXCEPT ![a.node].registered = @ \cup offered], a) EXCEPT
                     ![a.node].owed = @ \cup found,
                     ![a.node].status = IF over THEN "EXPANDED" ELSE @]
  PROVE  Kept(a.node)
<1> DEFINE c == nodes[a.node]
           d == nodes'[a.node]
<1>1. DOMAIN nodes = Ids /\ NodeOK(nodes[a.node])
  BY DEF TypeOK
<1>2. DOMAIN nodes' = Ids /\ \A m \in Ids \ {a.node} : nodes'[m] = nodes[m]
  BY <1>1 DEF ExhaustIn
<1>3. nodes'[a.node] = [[[[c EXCEPT !.registered = @ \cup offered] EXCEPT !.exhausted = @ \cup {a.id}]
                          EXCEPT !.owed = @ \cup found] EXCEPT !.status = IF over THEN "EXPANDED" ELSE @]
  BY <1>1 DEF ExhaustIn
<1>4. d = [c EXCEPT !.registered = c.registered \cup offered, !.exhausted = c.exhausted \cup {a.id},
             !.owed = c.owed \cup found, !.status = IF over THEN "EXPANDED" ELSE c.status]
  BY <1>1, <1>3 DEF NodeOK, NodeType
<1>5. PICK status : status = IF over THEN "EXPANDED" ELSE c.status
  OBVIOUS
<1>6. PICK e : e = c.exhausted \cup {a.id}
  OBVIOUS
<1>7. status \in {"OPEN", "EXPANDED", "REJECTED", "ACCEPTED", "CERTIFIED"}
  BY <1>1, <1>5, SMTT(30) DEF NodeOK, NodeType
<1>8. d = [c EXCEPT !.registered = c.registered \cup offered, !.exhausted = e,
             !.owed = c.owed \cup found, !.status = status]
  BY <1>4, <1>5, <1>6
<1>9. c \in NodeType(c.exhausted) /\ c.expanded \subseteq c.registered /\ c.status # "ABSENT"
  BY <1>1 DEF NodeOK
<1> HIDE DEF c, d
<1>10. d \in NodeType(e) /\ d.exhausted = e /\ d.status = status
  BY <1>7, <1>8, <1>9 DEF NodeType
<1>11. d.registered = c.registered \cup offered /\ d.expanded = c.expanded
  BY <1>8, <1>9 DEF NodeType
<1>12. d.patch = c.patch /\ d.depth = c.depth /\ d.gaps = c.gaps
  BY <1>8, <1>9 DEF NodeType
<1>13. NodeOK(d)
  BY <1>9, <1>10, <1>11 DEF NodeOK
<1> QED BY <1>2, <1>7, <1>9, <1>10, <1>11, <1>12, <1>13 DEF Kept, Touched, c, d

\* One is submitted, with the results of new challenges.
LEMMA SubmissionTouches ==
  ASSUME TypeOK, NEW n \in Ids, NEW offered \in SUBSET Hypotheses, NEW h \in offered,
         NEW results \in [Checks -> Results \cup {NotSeen}],
         nodes' = [[nodes EXCEPT ![n].registered = @ \cup offered] EXCEPT
                     ![n].expanded = @ \cup {h}, ![n].results = results]
  PROVE  /\ Touched(n) /\ nodes'[n].gaps = nodes[n].gaps
         /\ nodes'[n].expanded = nodes[n].expanded \cup {h}
<1> DEFINE c == nodes[n]
           d == nodes'[n]
<1>1. DOMAIN nodes = Ids /\ NodeOK(nodes[n])
  BY DEF TypeOK
<1>2. DOMAIN nodes' = Ids /\ \A m \in Ids \ {n} : nodes'[m] = nodes[m]
  BY <1>1
<1>3. nodes'[n] = [[[c EXCEPT !.registered = @ \cup offered] EXCEPT !.expanded = @ \cup {h}]
                     EXCEPT !.results = results]
  BY <1>1
<1>4. d = [c EXCEPT !.registered = c.registered \cup offered, !.expanded = c.expanded \cup {h},
             !.results = results]
  BY <1>1, <1>3 DEF NodeOK, NodeType
<1>5. c \in NodeType(c.exhausted) /\ c.expanded \subseteq c.registered
  BY <1>1 DEF NodeOK
<1> HIDE DEF c, d
<1>6. d \in NodeType(c.exhausted) /\ d.exhausted = c.exhausted /\ d.status = c.status
  BY <1>4, <1>5 DEF NodeType
<1>7. d.registered = c.registered \cup offered /\ d.expanded = c.expanded \cup {h}
  BY <1>4, <1>5 DEF NodeType
<1>8. d.patch = c.patch /\ d.depth = c.depth /\ d.gaps = c.gaps
  BY <1>4, <1>5 DEF NodeType
<1>9. NodeOK(d)
  BY <1>5, <1>6, <1>7 DEF NodeOK
<1> QED BY <1>2, <1>6, <1>7, <1>8, <1>9 DEF Touched, c, d

-----------------------------------------------------------------------------
(* What the frontier offers.                                               *)

\* The kinds of action that ask for evidence, and those that ask for a patch.
Asking == {"VALIDATE_CHECKPOINT", "RECOVER_EVIDENCE", "FINAL_REVIEW"}
Fixing == {"FIX_MECHANICAL", "GENERATE_PATCH"}

\* An action of the frontier belongs to a node that is there, keeps to the bounds
\* of the node, and repairs only above the depth limit.
LEMMA FrontierActions ==
  ASSUME TypeOK, NEW generate \in BOOLEAN, NEW a \in Frontier(generate)
  PROVE  /\ a.node \in Ids /\ nodes[a.node].status # "ABSENT"
         /\ a.hyp \in Hypotheses \cup {NoHypothesis}
         /\ a.kind \in Asking \cup Fixing \cup {"RUN_PROBE", "EXPAND_GRAPH"}
         /\ a.kind = "RUN_PROBE" => nodes[a.node].probes < MaxProbes /\ a.id[3] \in Cells
         /\ a.kind = "EXPAND_GRAPH" => nodes[a.node].rounds < MaxExpansions
         /\ a.kind \in Fixing => nodes[a.node].depth < MaxDepth
<1>1. PICK n \in Ids : a \in ActionsAt(n, generate)
  BY DEF Frontier
<1> DEFINE c == nodes[n]
           kind == KindOf(c)
<1>2. c.status # "ABSENT" /\ NodeOK(c)
  BY <1>1 DEF ActionsAt, TypeOK
<1>3. kind \in Asking \cup Fixing
  BY DEF KindOf, Asking, Fixing
<1>4. \/ a \in ProbeActions(n)
      \/ kind \in Asking /\ a \in EvidenceActions(n, c, kind)
      \/ kind \in Fixing /\ MayRepair(c) /\ a \in RepairActions(n, c, kind)
  BY <1>1, <1>3 DEF ActionsAt, Asking, Fixing
<1>5. CASE a \in ProbeActions(n)
  BY <1>2, <1>5 DEF ProbeActions, Action, Asking, Fixing
<1>6. CASE kind \in Asking /\ a \in EvidenceActions(n, c, kind)
  <2>1. a.node = n /\ a.kind = kind /\ a.hyp = NoHypothesis
    BY <1>6 DEF EvidenceActions, Action
  <2> QED BY <1>2, <1>6, <2>1 DEF Asking, Fixing
<1>7. CASE kind \in Fixing /\ MayRepair(c) /\ a \in RepairActions(n, c, kind)
  <2>1. CASE c.status = "EXPANDED"
    <3>1. a.node = n /\ a.kind = "EXPAND_GRAPH" /\ a.hyp = NoHypothesis /\ MayExpand(c)
      BY <1>7, <2>1 DEF RepairActions, Action
    <3> QED BY <1>2, <3>1 DEF Asking, Fixing, MayExpand
  <2>2. CASE c.status # "EXPANDED"
    <3>1. a.node = n /\ a.kind = kind /\ a.hyp \in Untried(c) \cup {NoHypothesis}
      BY <1>7, <2>2 DEF RepairActions, Action
    <3>2. Untried(c) \subseteq Hypotheses
      BY <1>2 DEF Untried, NodeOK, NodeType
    <3> QED BY <1>2, <1>7, <3>1, <3>2 DEF Asking, Fixing, MayRepair
  <2> QED BY <2>1, <2>2
<1> QED BY <1>4, <1>5, <1>6, <1>7

-----------------------------------------------------------------------------
(* Verdicts and gaps.                                                      *)

\* What is drawn has a type, covers what was run, and is added to the truth.
LEMMA RunsAreTrue ==
  ASSUME TypeOK, NEW patch \in Patches, NEW run \in SUBSET Checks, NEW results \in RunsOf(patch, run)
  PROVE  /\ results \in [Checks -> Results \cup {NotSeen}]
         /\ Seen(results) = run
         /\ \A c \in run : truth[patch][c] # NotSeen => results[c] = truth[patch][c]
         /\ Drawn(patch, results) \in [Patches -> [Checks -> Results \cup {NotSeen}]]
         /\ \A p \in Patches, c \in Checks :
              truth[p][c] # NotSeen => Drawn(patch, results)[p][c] = truth[p][c]
         /\ \A c \in run : Drawn(patch, results)[patch][c] = results[c]
<1>1. /\ results \in [Checks -> Results \cup {NotSeen}]
      /\ \A c \in Checks :
           IF c \notin run THEN results[c] = NotSeen
           ELSE IF truth[patch][c] # NotSeen THEN results[c] = truth[patch][c]
           ELSE results[c] \in Verdicts[c]
  BY DEF RunsOf
<1>2. NotSeen \notin Results
  BY DEF NotSeen, Results
<1>3. \A c \in Checks : Verdicts[c] \subseteq Results
  BY PatchesAndVerdicts
<1>4. Seen(results) = run
  BY <1>1, <1>2, <1>3 DEF Seen
<1>5. truth \in [Patches -> [Checks -> Results \cup {NotSeen}]]
  BY DEF TypeOK
<1> DEFINE row == [c \in Checks |-> IF results[c] # NotSeen THEN results[c] ELSE truth[patch][c]]
<1>6. Drawn(patch, results) = [truth EXCEPT ![patch] = row]
  BY DEF Drawn
<1>7. row \in [Checks -> Results \cup {NotSeen}]
  BY <1>1, <1>5
<1>8. \A c \in Checks : truth[patch][c] # NotSeen => row[c] = truth[patch][c]
  BY <1>1
<1>9. \A c \in run : row[c] = results[c]
  BY <1>4 DEF Seen
<1> HIDE DEF row
<1>10. /\ Drawn(patch, results) \in [Patches -> [Checks -> Results \cup {NotSeen}]]
       /\ Drawn(patch, results)[patch] = row
       /\ \A p \in Patches \ {patch} : Drawn(patch, results)[p] = truth[p]
  BY <1>5, <1>6, <1>7
<1> QED BY <1>1, <1>4, <1>8, <1>9, <1>10

\* Gaps are checks, or the missing contract.
LEMMA GapsType ==
  ASSUME NEW patch, NEW results
  PROVE  GapsOf(patch, results) \in SUBSET (Checks \cup {Missing})
BY DEF GapsOf, Seen

\* No target, or a check the patch does not pass, leaves a gap.
LEMMA GapsRemain ==
  ASSUME NEW patch, patch \notin Blocked, NEW results \in [Checks -> Results \cup {NotSeen}],
         \/ Seen(results) \cap Targets = {}
         \/ \E c \in Seen(results) : results[c] \in {"FAIL", "UNKNOWN", "WEAK"}
  PROVE  GapsOf(patch, results) # {}
<1>1. CASE Seen(results) \cap Targets = {}
  BY <1>1 DEF GapsOf
<1>2. CASE Seen(results) \ Passing(results) # {}
  BY <1>2 DEF GapsOf
<1>3. CASE Seen(results) \cap Targets # {} /\ Seen(results) \ Passing(results) = {}
  <2>1. PICK c \in Seen(results) : results[c] \in {"FAIL", "UNKNOWN", "WEAK"}
    BY <1>3
  <2>2. c \in Checks /\ results[c] = "WEAK"
    BY <2>1, <1>3 DEF Passing, Seen
  <2>3. Passing(results) \subseteq Seen(results)
    BY DEF Passing, Seen, NotSeen
  <2>4. PotentiallyReached(patch, results)
    BY <1>3, <2>3 DEF PotentiallyReached
  <2> QED BY <2>2, <2>4 DEF GapsOf
<1> QED BY <1>1, <1>2, <1>3

\* Conversely every gap of a fresh diagnosis has such a reason.
LEMMA GapsHaveReasons ==
  ASSUME NEW patch, NEW results \in [Checks -> Results \cup {NotSeen}],
         GapsOf(patch, results) # {}
  PROVE  \/ Seen(results) \cap Targets = {}
         \/ \E c \in Seen(results) : results[c] \in {"FAIL", "UNKNOWN", "WEAK"}
<1>1. CASE Seen(results) \cap Targets = {}
  BY <1>1
<1>2. CASE \E c \in Seen(results) : c \notin Passing(results)
  <2>1. PICK c \in Seen(results) : c \notin Passing(results)
    BY <1>2
  <2>2. c \in Checks /\ results[c] \in Results \ {"PASS", "WEAK"}
    BY <2>1 DEF Seen, Passing
  <2> QED BY <2>1, <2>2 DEF Results
<1>3. CASE \E c \in Checks : results[c] = "WEAK"
  BY <1>3 DEF Seen, NotSeen
<1> QED BY <1>1, <1>2, <1>3 DEF GapsOf

-----------------------------------------------------------------------------
(* What survives a step that knows more than before.                       *)

\* More checks may be known, none of them a target, and more of the truth.
Learned ==
  /\ known \subseteq known' /\ known' \subseteq Checks /\ known' \cap Targets \subseteq known
  /\ truth' \in [Patches -> [Checks -> Results \cup {NotSeen}]]
  /\ \A p \in Patches, c \in Checks : truth[p][c] # NotSeen => truth'[p][c] = truth[p][c]

\* A gap that cannot be closed stays one.
LEMMA CannotCloseStands ==
  ASSUME TypeOK, NodesAreInOrder, Learned, NEW n \in Ids, CannotClose(n),
         nodes'[n].patch = nodes[n].patch, nodes'[n].status # "ABSENT", nodes'[n].gaps # {}
  PROVE  CannotClose(n)'
<1>1. nodes[n].patch \in Patches /\ nodes[n].patch \notin Blocked
  BY DEF CannotClose, NodesAreInOrder
<1>2. CASE known \cap Targets = {}
  BY <1>1, <1>2 DEF CannotClose, Learned
<1>3. CASE \E c \in known : truth[nodes[n].patch][c] \in {"FAIL", "UNKNOWN", "WEAK"}
  <2>1. PICK c \in known : truth[nodes[n].patch][c] \in {"FAIL", "UNKNOWN", "WEAK"}
    BY <1>3
  <2>2. truth'[nodes[n].patch][c] = truth[nodes[n].patch][c] /\ c \in known'
    BY <1>1, <2>1 DEF Learned, TypeOK, NotSeen
  <2> QED BY <1>1, <2>1, <2>2 DEF CannotClose
<1> QED BY <1>2, <1>3 DEF CannotClose

\* What the search knows of its end stays true while the gaps do.
LEMMA OpenCaseStands ==
  ASSUME TypeOK, NodesAreInOrder, OpenCaseIsHonest, pc # "done", Learned,
         rounds' = rounds, terminal' \in {terminal, "MECHANISM_EXHAUSTED"},
         \A n \in Ids : CannotClose(n) =>
           /\ nodes'[n].patch = nodes[n].patch /\ nodes'[n].status # "ABSENT"
           /\ nodes'[n].gaps # {}
  PROVE  OpenCaseIsHonest'
<1>1. \A n \in Ids : CannotClose(n) => CannotClose(n)'
  BY CannotCloseStands
<1>2. terminal' # "EXTERNAL_API_UNAVAILABLE"
  BY DEF OpenCaseIsHonest
<1>3. ASSUME terminal' = "EVIDENCE_LIMITED"
      PROVE  rounds' = RecoveryAttempts /\ (\E n \in Ids : CannotClose(n))'
  BY <1>1, <1>3 DEF OpenCaseIsHonest
<1> QED BY <1>2, <1>3 DEF OpenCaseIsHonest

\* The identifiers of the checkpoints are finitely many.
LEMMA IdsAreFinite ==
  /\ MaxRevisions \in Nat /\ Ids = 0..MaxRevisions
  /\ \A S \in SUBSET Ids : IsFiniteSet(S) /\ Cardinality(S) \in Nat
  /\ \A S, T : T \in SUBSET Ids /\ S \in SUBSET T => Cardinality(S) <= Cardinality(T)
<1>1. MaxRevisions \in Nat
  BY BoundsAreNatural
<1>2. IsFiniteSet(Ids)
  BY <1>1, FS_Interval DEF Ids
<1> QED BY <1>1, <1>2, FS_Subset, FS_CardinalityType DEF Ids

\* The checkpoints at which a repair idea was submitted for a failure.
Submitted(ns, f, r) == {n \in Ids : [node |-> n, failure |-> f, cut |-> r] \in ns[n].expanded}

\* While nothing is submitted nothing is submitted too often.
LEMMA IdeasStand ==
  ASSUME MechanismAtMostTwice, \A n \in Ids : nodes'[n].expanded \subseteq nodes[n].expanded
  PROVE  MechanismAtMostTwice'
<1> SUFFICES ASSUME NEW f \in Checks, NEW r \in Regions
             PROVE  Cardinality(Submitted(nodes', f, r)) <= 2
  BY DEF MechanismAtMostTwice, Submitted
<1>1. Cardinality(Submitted(nodes, f, r)) <= 2
  BY DEF MechanismAtMostTwice, Submitted
<1>2. Submitted(nodes', f, r) \in SUBSET Submitted(nodes, f, r)
  BY DEF Submitted
<1>3. Submitted(nodes, f, r) \in SUBSET Ids
  BY DEF Submitted
<1>4. /\ Cardinality(Submitted(nodes', f, r)) <= Cardinality(Submitted(nodes, f, r))
      /\ Cardinality(Submitted(nodes, f, r)) \in Nat /\ Cardinality(Submitted(nodes', f, r)) \in Nat
  BY <1>2, <1>3, IdsAreFinite
<1> QED BY <1>1, <1>4

\* The order of the nodes does not depend on what is done to one of them.
LEMMA OrderStands ==
  ASSUME NodesAreInOrder, NEW n \in Ids, Touched(n), revision' = revision
  PROVE  NodesAreInOrder'
<1> SUFFICES ASSUME NEW m \in Ids
             PROVE  /\ nodes'[m].depth <= m
                    /\ nodes'[m].status # "ABSENT" => nodes'[m].patch \in Patches /\ m <= revision
  BY DEF NodesAreInOrder
<1>1. CASE m = n
  BY <1>1 DEF NodesAreInOrder, Touched
<1>2. CASE m # n
  BY <1>2 DEF NodesAreInOrder, Touched
<1> QED BY <1>1, <1>2

-----------------------------------------------------------------------------
(* Every step keeps the invariant.                                         *)

\* Touching one node leaves all of them nodes.
LEMMA NodesStand ==
  ASSUME TypeOK, NEW n \in Ids, Touched(n)
  PROVE  DOMAIN nodes' = Ids /\ \A m \in Ids : NodeOK(nodes'[m])
<1> SUFFICES ASSUME NEW m \in Ids PROVE NodeOK(nodes'[m])
  BY DEF Touched
<1>1. CASE m = n
  BY <1>1 DEF Touched
<1>2. CASE m # n
  BY <1>2 DEF Touched, TypeOK
<1> QED BY <1>1, <1>2

\* Going on with the selection, after a step that touched at most one node.
LEMMA SelectingKeeps ==
  ASSUME IInv, pc' = "select", NEW n \in Ids, Kept(n), Learned, OpenCaseIsHonest',
         action'.node \in Ids, action'.hyp \in Hypotheses \cup {NoHypothesis},
         failure'.hyp \in Hypotheses \cup {NoHypothesis}, failure'.remaining \subseteq Hypotheses,
         allowed' \in BOOLEAN, source' \subseteq Regions, expansions' \in 0..MaxExpansions,
         cells' \subseteq Cells, UNCHANGED <<facets, tried, distinct, revision, rounds, clock, flicker>>,
         api' \in Nat, api' <= Cardinality(tried), empty' \in Nat
  PROVE  IInv'
<1> USE DEF IInv
<1>1. DOMAIN nodes' = Ids /\ \A m \in Ids : NodeOK(nodes'[m])
  BY NodesStand DEF Kept
<1>2. TypeOK'
  BY <1>1 DEF TypeOK, NodeOK, Learned
<1>3. NodesAreInOrder'
  BY OrderStands DEF Kept
<1>4. ActionIsApt' /\ EvidenceIsFresh' /\ SiblingsRemain'
  BY DEF ActionIsApt, EvidenceIsFresh, SiblingsRemain
<1>5. MechanismAtMostTwice'
  <2>1. \A m \in Ids : nodes'[m].expanded \subseteq nodes[m].expanded
    BY DEF Kept, Touched
  <2> QED BY <2>1, IdeasStand
<1>6. CallsAreCounted'
  BY DEF CallsAreCounted
<1>7. StopIsEarned'
  BY DEF StopIsEarned, UnavailableIsEarned, EvidenceLimitedIsTrue, OpenCaseIsHonest
<1> QED BY <1>2, <1>3, <1>4, <1>5, <1>6, <1>7

\* The end of the case, for a reason that is true.
LEMMA FinishKeeps ==
  ASSUME IInv, pc # "done", NEW stop, Finish(stop), UnavailableIsEarned',
         stop = "EVIDENCE_LIMITED" => terminal = "EVIDENCE_LIMITED",
         UNCHANGED <<action, search, distinct, revision, rounds, allowed, failure, clock, flicker>>,
         api' \in Nat, api' <= Cardinality(tried), empty' \in Nat
  PROVE  IInv'
<1> USE DEF IInv, search
<1>1. TypeOK' /\ NodesAreInOrder'
  BY DEF TypeOK, NodesAreInOrder, Finish
<1>2. ActionIsApt' /\ EvidenceIsFresh' /\ SiblingsRemain' /\ OpenCaseIsHonest'
  BY DEF ActionIsApt, EvidenceIsFresh, SiblingsRemain, OpenCaseIsHonest, Finish
<1>3. MechanismAtMostTwice' /\ CallsAreCounted'
  BY DEF MechanismAtMostTwice, CallsAreCounted, Finish
<1>4. EvidenceLimitedIsTrue'
  <2> SUFFICES ASSUME terminal' = "EVIDENCE_LIMITED", known \cap Targets # {}
               PROVE  rounds = RecoveryAttempts /\ \E n \in Live : nodes[n].gaps # {}
    BY DEF EvidenceLimitedIsTrue, Live
  <2>1. terminal = "EVIDENCE_LIMITED"
    BY DEF Finish
  <2>2. rounds = RecoveryAttempts /\ \E n \in Ids : CannotClose(n)
    BY <2>1 DEF OpenCaseIsHonest
  <2> QED BY <2>2 DEF CannotClose, Live
<1> QED BY <1>1, <1>2, <1>3, <1>4 DEF StopIsEarned

\* The clock runs out, or nothing is left to do.
LEMMA StopKeeps ==
  ASSUME IInv, TimeIsUp \/ FrontierExhausted PROVE IInv'
<1>1. pc = "select" /\ terminal # "EXTERNAL_API_UNAVAILABLE"
  BY DEF IInv, OpenCaseIsHonest, TimeIsUp, FrontierExhausted
<1>2. api' \in Nat /\ api' <= Cardinality(tried) /\ empty' \in Nat
  BY DEF IInv, CallsAreCounted, TypeOK, TimeIsUp, FrontierExhausted, counts
<1>3. UNCHANGED <<action, search, distinct, revision, rounds, allowed, failure, clock, flicker>>
  BY DEF TimeIsUp, FrontierExhausted, counts
<1>4. PICK stop : Finish(stop) /\ stop \in {terminal, "GLOBAL_FRONTIER_EXHAUSTED"}
  BY DEF TimeIsUp, FrontierExhausted
<1>5. UnavailableIsEarned'
  BY <1>1, <1>4 DEF Finish, UnavailableIsEarned
<1> QED BY <1>1, <1>2, <1>3, <1>4, <1>5, FinishKeeps

\* A probe and an expansion of a node go back to the selection.
LEMMA ProbingKeeps ==
  ASSUME IInv, pc = "select", NEW a \in Frontier(GenerationAllowed), RunProbe(a) \/ ExpandGraph(a)
  PROVE  IInv'
<1> USE DEF IInv
<1>1. /\ a.node \in Ids /\ nodes[a.node].status # "ABSENT"
      /\ a.kind = "RUN_PROBE" => nodes[a.node].probes < MaxProbes /\ a.id[3] \in Cells
      /\ a.kind = "EXPAND_GRAPH" => nodes[a.node].rounds < MaxExpansions
  BY FrontierActions DEF GenerationAllowed
<1>2. CASE RunProbe(a)
  <2>1. Kept(a.node)
    BY <1>1, <1>2, ProbeKeeps DEF RunProbe
  <2>2. Learned
    BY <1>2 DEF RunProbe, Learned, TypeOK
  <2>3. OpenCaseIsHonest'
    <3>1. \A n \in Ids : nodes'[n].patch = nodes[n].patch /\ nodes'[n].gaps = nodes[n].gaps
                           /\ (nodes'[n].status = "ABSENT" <=> nodes[n].status = "ABSENT")
      BY <2>1 DEF Kept, Touched
    <3> QED BY <3>1, <2>2, <1>2, OpenCaseStands DEF RunProbe, counts, CannotClose
  <2>4. cells' \subseteq Cells
    BY <1>1, <1>2 DEF RunProbe, TypeOK
  <2> QED BY <1>1, <1>2, <2>1, <2>2, <2>3, <2>4, SelectingKeeps
        DEF RunProbe, counts, TypeOK, CallsAreCounted
<1>3. CASE ExpandGraph(a)
  <2>1. PICK e \in Expansions :
          /\ source' = e.regions /\ expansions' = e.count
          /\ nodes' = ExhaustIn(ExpansionRound(nodes, a.node, e.regions # source), a)
    BY <1>3 DEF ExpandGraph
  <2>2. Kept(a.node)
    <3>1. (e.regions # source) \in BOOLEAN
      OBVIOUS
    <3> QED BY <3>1, <1>1, <1>3, <2>1, ExpansionKeeps DEF ExpandGraph
  <2>3. Learned
    BY <1>3 DEF ExpandGraph, Learned, TypeOK
  <2>4. OpenCaseIsHonest'
    <3>1. \A n \in Ids : nodes'[n].patch = nodes[n].patch /\ nodes'[n].gaps = nodes[n].gaps
                           /\ (nodes'[n].status = "ABSENT" <=> nodes[n].status = "ABSENT")
      BY <2>2 DEF Kept, Touched
    <3> QED BY <3>1, <2>3, <1>3, OpenCaseStands DEF ExpandGraph, counts, CannotClose
  <2>5. source' \subseteq Regions /\ expansions' \in 0..MaxExpansions
    BY <2>1, BoundsAreNatural DEF Expansions, TypeOK
  <2> QED BY <1>1, <1>3, <2>2, <2>3, <2>4, <2>5, SelectingKeeps
        DEF ExpandGraph, counts, TypeOK, CallsAreCounted
<1> QED BY <1>2, <1>3

\* The selected checkpoint is evaluated anew: its gaps can shrink only where they
\* could be closed, and a certificate ends the case.
LEMMA EvaluateKeeps ==
  ASSUME IInv, pc = "select", NEW a \in Frontier(GenerationAllowed), Evaluate(a)
  PROVE  IInv'
<1> USE DEF IInv
<1> DEFINE n == a.node
           c == nodes[n]
<1>1. /\ n \in Ids /\ c.status # "ABSENT" /\ a.hyp \in Hypotheses \cup {NoHypothesis}
      /\ \/ a.kind \in {"VALIDATE_CHECKPOINT", "RECOVER_EVIDENCE", "FINAL_REVIEW"}
         \/ c.depth < MaxDepth
  BY FrontierActions DEF GenerationAllowed, Evaluate, Asking
<1>2. c.patch \in Patches /\ n <= revision /\ NodeOK(c)
  BY <1>1 DEF NodesAreInOrder, TypeOK
<1>3. PICK found, results, sig :
        /\ found \in SUBSET (Challenges \ known)
        /\ results \in RunsOf(c.patch, known \cup found) /\ sig \in Signature(c.patch, c.sig)
        /\ known' = known \cup found
        /\ truth' = Drawn(c.patch, results)
        /\ nodes' = [nodes EXCEPT ![a.node].results = results, ![a.node].sig = sig,
                       ![a.node].owed = {}, ![a.node].gaps = GapsOf(c.patch, results),
                       ![a.node].locks = @ \cup (Passing(results) \cap Targets)]
        /\ facets' = facets \cup FacetsOf(known \cup found)
        /\ flicker' = IF Executed(c) /\ sig # c.sig THEN 1 - flicker ELSE flicker
        /\ IF PotentiallyReached(c.patch, results) /\ GapsOf(c.patch, results) = {}
             THEN pc' = "done" /\ terminal' = "REACHED"
             ELSE pc' = "diagnose" /\ UNCHANGED terminal
  <2>1. Evaluate(a)
    OBVIOUS
  <2> QED BY ONLY <2>1, ZenonT(60) DEF Evaluate
<1>4. /\ action' = a /\ allowed' = GenerationAllowed
      /\ UNCHANGED <<source, expansions, tried, cells, distinct, revision, rounds, failure,
                     api, empty, clock>>
  BY DEF Evaluate
<1>5. known \cup found \in SUBSET Checks /\ known' \cap Targets \subseteq known
  BY <1>3, RolesAreDisjoint DEF TypeOK, Checks
<1>6. /\ results \in [Checks -> Results \cup {NotSeen}]
      /\ Seen(results) = known \cup found
      /\ \A k \in known \cup found : truth[c.patch][k] # NotSeen => results[k] = truth[c.patch][k]
      /\ truth' \in [Patches -> [Checks -> Results \cup {NotSeen}]]
      /\ \A p \in Patches, k \in Checks : truth[p][k] # NotSeen => truth'[p][k] = truth[p][k]
      /\ \A k \in known \cup found : truth'[c.patch][k] = results[k]
  <2> DEFINE run == known \cup found
  <2>1. run \in SUBSET Checks /\ results \in RunsOf(c.patch, run) /\ truth' = Drawn(c.patch, results)
        /\ c.patch \in Patches
    BY <1>2, <1>3, <1>5
  <2> HIDE DEF run, n, c
  <2>2. TypeOK
    OBVIOUS
  <2>3. /\ results \in [Checks -> Results \cup {NotSeen}]
        /\ Seen(results) = run
        /\ \A k \in run : truth[c.patch][k] # NotSeen => results[k] = truth[c.patch][k]
        /\ Drawn(c.patch, results) \in [Patches -> [Checks -> Results \cup {NotSeen}]]
        /\ \A p \in Patches, k \in Checks :
             truth[p][k] # NotSeen => Drawn(c.patch, results)[p][k] = truth[p][k]
        /\ \A k \in run : Drawn(c.patch, results)[c.patch][k] = results[k]
    BY <2>1, <2>2, RunsAreTrue
  <2> QED BY <2>1, <2>3 DEF run
<1>7. Learned
  BY <1>3, <1>5, <1>6 DEF Learned
<1>8. /\ Touched(n) /\ nodes'[n].expanded = c.expanded
      /\ nodes'[n].gaps = GapsOf(c.patch, results) /\ nodes'[n].results = results
  <2>1. sig \in 0..1
    BY <1>2, <1>3 DEF Signature, NodeOK, NodeType
  <2>2. Passing(results) \cap Targets \in SUBSET Checks
    BY DEF Passing
  <2>3. GapsOf(c.patch, results) \in SUBSET (Checks \cup {Missing})
    BY GapsType
  <2>4. PICK locks, gaps : locks = Passing(results) \cap Targets /\ gaps = GapsOf(c.patch, results)
    OBVIOUS
  <2>5. nodes' = [nodes EXCEPT ![n].results = results, ![n].sig = sig,
                    ![n].owed = {}, ![n].gaps = gaps, ![n].locks = @ \cup locks]
    BY <1>3, <2>4
  <2>6. PICK m : m = n
    OBVIOUS
  <2> HIDE DEF n, c
  <2>7. Touched(m) /\ nodes'[m].expanded = nodes[m].expanded
        /\ nodes'[m].gaps = gaps /\ nodes'[m].results = results
    <3>1. /\ DOMAIN nodes = Ids /\ NodeOK(nodes[m]) /\ m \in Ids /\ sig \in 0..1
          /\ gaps \in SUBSET (Checks \cup {Missing}) /\ locks \in SUBSET Checks
          /\ results \in [Checks -> Results \cup {NotSeen}]
      BY <1>1, <1>6, <2>1, <2>2, <2>3, <2>4, <2>6 DEF TypeOK
    <3>2. nodes' = [nodes EXCEPT ![m].results = results, ![m].sig = sig,
                    ![m].owed = {}, ![m].gaps = gaps, ![m].locks = @ \cup locks]
      BY <2>5, <2>6
    <3> QED BY ONLY <3>1, <3>2, ZenonT(60) DEF Touched, NodeOK, NodeType
  <2> QED BY <2>4, <2>6, <2>7 DEF c
<1>9. TypeOK'
  <2>1. DOMAIN nodes' = Ids /\ \A m \in Ids : NodeOK(nodes'[m])
    BY <1>1, <1>8, NodesStand
  <2>2. facets' \subseteq Targets \cup {Missing} /\ flicker' \in 0..1 /\ allowed' \in BOOLEAN
    BY <1>3, <1>4 DEF TypeOK, FacetsOf, GenerationAllowed
  <2>3. pc' \in {"select", "diagnose", "repair", "done"}
    BY <1>3
  <2> QED BY <1>1, <1>4, <1>7, <2>1, <2>2, <2>3 DEF TypeOK, Learned
<1>10. NodesAreInOrder'
  BY <1>1, <1>4, <1>8, OrderStands
<1>11. ActionIsApt' /\ SiblingsRemain'
  <2>1. pc' # "repair" /\ action'.node = n
    BY <1>3, <1>4
  <2>2. nodes'[n].status # "ABSENT" /\ nodes'[n].depth = c.depth
    BY <1>1, <1>8 DEF Touched
  <2>3. allowed' => revision' < MaxRevisions
    BY <1>4 DEF GenerationAllowed
  <2> QED BY <1>1, <1>4, <2>1, <2>2, <2>3 DEF ActionIsApt, SiblingsRemain
<1>12. EvidenceIsFresh'
  <2>1. nodes'[n].patch = c.patch
    BY <1>8 DEF Touched
  <2>2. /\ action'.node = n
        /\ Seen(nodes'[n].results) = known'
        /\ \A k \in known' : truth'[nodes'[n].patch][k] = nodes'[n].results[k]
        /\ nodes'[n].gaps = GapsOf(nodes'[n].patch, nodes'[n].results)
    BY <1>3, <1>4, <1>6, <1>8, <2>1
  <2> QED BY <2>2 DEF EvidenceIsFresh
<1>13. MechanismAtMostTwice'
  <2>1. \A m \in Ids : nodes'[m].expanded \subseteq nodes[m].expanded
    BY <1>8 DEF Touched
  <2> QED BY <2>1, IdeasStand
<1>14. CallsAreCounted'
  BY <1>3, <1>4 DEF CallsAreCounted
<1>15. StopIsEarned'
  BY <1>3 DEF StopIsEarned, UnavailableIsEarned, EvidenceLimitedIsTrue, OpenCaseIsHonest
<1>16. OpenCaseIsHonest'
  <2> SUFFICES ASSUME pc' # "done" PROVE OpenCaseIsHonest'
    BY DEF OpenCaseIsHonest
  <2>1. terminal' = terminal /\ rounds' = rounds
    BY <1>3, <1>4
  <2>2. \A m \in Ids : CannotClose(m) =>
          /\ nodes'[m].patch = nodes[m].patch /\ nodes'[m].status # "ABSENT"
          /\ nodes'[m].gaps # {}
    <3> TAKE m \in Ids
    <3> HAVE CannotClose(m)
    <3>1. CASE m # n
      BY <1>8, <3>1 DEF Touched, CannotClose
    <3>2. CASE m = n
      <4>1. c.patch \notin Blocked
        BY <3>2 DEF CannotClose
      <4>2. CASE known \cap Targets = {}
        <5>1. Seen(results) \cap Targets = {}
          BY <1>3, <1>5, <1>6, <4>2
        <5> QED BY <1>6, <1>8, <3>2, <4>1, <5>1, GapsRemain, SMTT(30) DEF Touched, CannotClose
      <4>3. CASE \E k \in known : truth[c.patch][k] \in {"FAIL", "UNKNOWN", "WEAK"}
        <5>1. PICK k \in known : truth[c.patch][k] \in {"FAIL", "UNKNOWN", "WEAK"}
          BY <4>3
        <5>2. k \in Seen(results) /\ results[k] \in {"FAIL", "UNKNOWN", "WEAK"}
          BY <1>6, <5>1 DEF NotSeen
        <5> QED BY <1>6, <1>8, <3>2, <4>1, <5>2, GapsRemain DEF Touched, CannotClose
      <4> QED BY <3>2, <4>2, <4>3 DEF CannotClose
    <3> QED BY <3>1, <3>2
  <2> QED BY <1>7, <2>1, <2>2, OpenCaseStands
<1> QED BY <1>9, <1>10, <1>11, <1>12, <1>13, <1>14, <1>15, <1>16

\* Selection in all its forms.
LEMMA SelectKeeps ==
  ASSUME IInv, Select PROVE IInv'
<1>1. PICK a \in Best(Frontier(GenerationAllowed)) : RunProbe(a) \/ ExpandGraph(a) \/ Evaluate(a)
  BY DEF Select
<1>2. pc = "select" /\ a \in Frontier(GenerationAllowed)
  BY DEF Select, Best
<1> QED BY <1>1, <1>2, ProbingKeeps, EvaluateKeeps

\* With the loop back at the selection, no action and no failure are at hand.
LEMMA ReselectKeeps ==
  ASSUME IInv, Reselect, NEW n \in Ids, Kept(n), Learned, OpenCaseIsHonest',
         source' \subseteq Regions, expansions' \in 0..MaxExpansions,
         UNCHANGED <<cells, facets, tried, distinct, revision, rounds, clock, flicker>>,
         api' \in Nat, api' <= Cardinality(tried), empty' \in Nat
  PROVE  IInv'
<1>1. P0 \in Ids /\ MaxRevisions \in Nat
  BY BoundsAreNatural DEF P0, Ids
<1>2. /\ pc' = "select" /\ action'.node = P0 /\ action'.hyp = NoHypothesis
      /\ failure'.hyp = NoHypothesis /\ failure'.remaining = {} /\ allowed' \in BOOLEAN
  BY DEF Reselect, NoAction, Action, NoFailure
<1>3. cells' \subseteq Cells
  BY DEF IInv, TypeOK
<1> QED BY <1>1, <1>2, <1>3, SelectingKeeps

\* What is kept at every node keeps the case honest.
LEMMA HonestWhileKept ==
  ASSUME TypeOK, NodesAreInOrder, OpenCaseIsHonest, pc # "done", Learned,
         rounds' = rounds, terminal' \in {terminal, "MECHANISM_EXHAUSTED"},
         NEW n \in Ids, Touched(n), nodes'[n].gaps = nodes[n].gaps
  PROVE  OpenCaseIsHonest'
<1>1. \A m \in Ids : nodes'[m].patch = nodes[m].patch /\ nodes'[m].gaps = nodes[m].gaps
                       /\ (nodes'[m].status = "ABSENT" <=> nodes[m].status = "ABSENT")
  BY DEF Touched
<1> QED BY <1>1, OpenCaseStands DEF CannotClose

\* Recovery rounds are left only while the case does not report that they are not.
LEMMA RecoverEvidenceKeeps ==
  ASSUME IInv, RecoverEvidence PROVE IInv'
<1> USE DEF IInv, RecoverEvidence
<1>1. rounds < RecoveryAttempts /\ rounds \in Nat /\ rounds' = rounds + 1 /\ RecoveryAttempts \in Nat
  BY BoundsAreNatural DEF TypeOK
<1>2. terminal # "EVIDENCE_LIMITED" /\ terminal # "EXTERNAL_API_UNAVAILABLE" /\ terminal' = terminal
  BY <1>1 DEF OpenCaseIsHonest, Diagnosed
<1>3. P0 \in Ids /\ MaxRevisions \in Nat
  BY BoundsAreNatural DEF P0, Ids
<1>4. /\ pc' = "select" /\ action'.node = P0 /\ action'.hyp = NoHypothesis
      /\ failure'.hyp = NoHypothesis /\ failure'.remaining = {} /\ allowed' \in BOOLEAN
  BY DEF Reselect, NoAction, Action, NoFailure
<1>5. known' \subseteq Checks /\ rounds' \in 0..RecoveryAttempts
  BY <1>1 DEF TypeOK, Checks
<1>6. TypeOK'
  BY <1>3, <1>4, <1>5 DEF TypeOK
<1>7. NodesAreInOrder' /\ MechanismAtMostTwice' /\ CallsAreCounted'
  BY <1>4 DEF NodesAreInOrder, MechanismAtMostTwice, CallsAreCounted
<1>8. ActionIsApt' /\ EvidenceIsFresh' /\ SiblingsRemain'
  BY <1>4 DEF ActionIsApt, EvidenceIsFresh, SiblingsRemain
<1>9. OpenCaseIsHonest' /\ StopIsEarned'
  BY <1>2, <1>4 DEF OpenCaseIsHonest, StopIsEarned, UnavailableIsEarned, EvidenceLimitedIsTrue
<1> QED BY <1>6, <1>7, <1>8, <1>9

\* Evidence is given up for a gap that can never be closed.
LEMMA GiveUpEvidenceKeeps ==
  ASSUME IInv, GiveUpEvidence PROVE IInv'
<1> USE DEF IInv
<1> DEFINE n == action.node
           c == nodes[n]
<1>1. /\ pc = "diagnose" /\ ActiveFailures(c) = {} /\ RecoveryIsOver(c.gaps)
      /\ terminal' = IF c.gaps # {} THEN "EVIDENCE_LIMITED" ELSE "MECHANISM_EXHAUSTED"
      /\ nodes' = ExhaustIn(nodes, action) /\ Reselect
      /\ UNCHANGED <<truth, known, facets, source, expansions, tried, cells,
                     distinct, revision, rounds, api, empty, clock, flicker>>
  BY DEF GiveUpEvidence, Diagnosed
<1>2. n \in Ids /\ NodeOK(c)
  BY DEF TypeOK
<1>3. Kept(n)
  BY <1>1, <1>2, ExhaustKeeps
<1>4. Learned
  BY <1>1 DEF Learned, TypeOK
<1>5. OpenCaseIsHonest'
  <2>1. CASE c.gaps = {}
    BY <1>1, <1>2, <1>3, <1>4, <2>1, HonestWhileKept DEF Kept
  <2>2. CASE c.gaps # {}
    <3>1. rounds' = RecoveryAttempts
      BY <1>1, <2>2, BoundsAreNatural DEF RecoveryIsOver, TypeOK
    <3>2. c.status # "ABSENT" /\ c.patch \in Patches
      BY <1>1, <1>2 DEF ActionIsApt, NodesAreInOrder
    <3>3. c.patch \notin Blocked
      BY <1>1 DEF ActiveFailures
    <3>4. /\ Seen(c.results) = known /\ \A k \in known : truth[c.patch][k] = c.results[k]
          /\ c.gaps = GapsOf(c.patch, c.results)
      BY <1>1 DEF EvidenceIsFresh
    <3>5. \/ known \cap Targets = {}
          \/ \E k \in known : truth[c.patch][k] \in {"FAIL", "UNKNOWN", "WEAK"}
      <4>1. c.results \in [Checks -> Results \cup {NotSeen}]
        BY <1>2 DEF NodeOK, NodeType
      <4> HIDE DEF c
      <4>2. GapsOf(c.patch, c.results) # {}
        BY <2>2, <3>4
      <4>3. \/ Seen(c.results) \cap Targets = {}
            \/ \E k \in Seen(c.results) : c.results[k] \in {"FAIL", "UNKNOWN", "WEAK"}
        BY <4>1, <4>2, GapsHaveReasons
      <4> QED BY <3>4, <4>3
    <3>6. PICK m \in Ids : m = n /\ CannotClose(m)
      BY <1>2, <2>2, <3>2, <3>3, <3>5 DEF CannotClose
    <3>7. nodes'[m].patch = nodes[m].patch /\ nodes'[m].status # "ABSENT" /\ nodes'[m].gaps # {}
      BY <1>3, <2>2, <3>2, <3>6 DEF Kept, Touched
    <3>8. \E k \in Ids : CannotClose(k)'
      BY <1>4, <3>6, <3>7, CannotCloseStands
    <3> QED BY <1>1, <2>2, <3>1, <3>8 DEF OpenCaseIsHonest
  <2> QED BY <2>1, <2>2
<1>6. /\ source' \subseteq Regions /\ expansions' \in 0..MaxExpansions
      /\ api' \in Nat /\ api' <= Cardinality(tried) /\ empty' \in Nat
  BY <1>1 DEF TypeOK, CallsAreCounted
<1> QED BY <1>1, <1>2, <1>3, <1>4, <1>5, <1>6, ReselectKeeps

\* Without a patch to generate the action is over.
LEMMA NoGenerationKeeps ==
  ASSUME IInv, NoGeneration PROVE IInv'
<1> USE DEF IInv
<1>1. /\ pc = "diagnose" /\ nodes' = ExhaustIn(nodes, action) /\ Reselect
      /\ UNCHANGED <<truth, known, facets, source, expansions, tried, cells,
                     distinct, revision, rounds, api, empty, terminal, clock, flicker>>
  BY DEF NoGeneration, Diagnosed
<1>2. action.node \in Ids
  BY DEF TypeOK
<1>3. Kept(action.node)
  BY <1>1, <1>2, ExhaustKeeps
<1>4. Learned
  BY <1>1 DEF Learned, TypeOK
<1>5. OpenCaseIsHonest'
  BY <1>1, <1>2, <1>3, <1>4, HonestWhileKept DEF Kept
<1>6. /\ source' \subseteq Regions /\ expansions' \in 0..MaxExpansions
      /\ api' \in Nat /\ api' <= Cardinality(tried) /\ empty' \in Nat
  BY <1>1 DEF TypeOK, CallsAreCounted
<1> QED BY <1>1, <1>2, <1>3, <1>4, <1>5, <1>6, ReselectKeeps

-----------------------------------------------------------------------------
(* A repair is prepared.                                                   *)

\* What is offered: hypotheses of this checkpoint for this failure; the viable
\* ones are new, and of an idea that was submitted at one other checkpoint at most.
LEMMA OffersAreViable ==
  ASSUME TypeOK, NEW n \in Ids, NEW f \in Checks \cup {Mechanical}, NEW o \in Offers(n, f)
  PROVE  /\ o.from.regions \subseteq Regions /\ o.from.count \in 0..MaxExpansions
         /\ o.offered \subseteq Hypotheses /\ o.viable \subseteq o.offered
         /\ \A h \in o.viable : /\ h.node = n /\ h.failure = f /\ h \notin tried
                                /\ h.cut \in Regions => TriedElsewhere(h) < 2
         /\ f # Mechanical => o.viable = ViableAt(n, HypothesesFor(n, f, o.from.regions))
<1>1. 0 \notin Regions
  BY RegionsAreRanked
<1>2. source \subseteq Regions /\ expansions \in 0..MaxExpansions /\ MaxExpansions \in Nat
  BY BoundsAreNatural DEF TypeOK
<1>3. CASE f = Mechanical
  <2> DEFINE h == [node |-> n, failure |-> f, cut |-> 0]
  <2>1. h \in Hypotheses
    BY DEF Hypotheses
  <2>2. o = [from |-> [regions |-> source, count |-> expansions],
             offered |-> {h}, viable |-> {h} \ tried]
    BY <1>3 DEF Offers
  <2> QED BY <1>1, <1>2, <1>3, <2>1, <2>2
<1>4. CASE f # Mechanical
  <2>1. PICK e \in Expansions \cup {[regions |-> source, count |-> expansions]} :
          o = [from |-> e, offered |-> HypothesesFor(n, f, e.regions),
               viable |-> ViableAt(n, HypothesesFor(n, f, e.regions))]
    BY <1>4 DEF Offers
  <2>2. e.regions \subseteq Regions /\ e.count \in 0..MaxExpansions
    <3>1. CASE e = [regions |-> source, count |-> expansions]
      BY <1>2, <3>1
    <3>2. CASE e # [regions |-> source, count |-> expansions]
      <4>1. expansions < MaxExpansions
            /\ \E found \in SUBSET (Regions \ source) :
                 e = [regions |-> source \cup found, count |-> expansions + 1]
        <5>1. ~(expansions >= MaxExpansions)
          BY <3>2 DEF Expansions
        <5> QED BY <1>2, <3>2, <5>1 DEF Expansions
      <4> QED BY <1>2, <4>1
    <3> QED BY <3>1, <3>2
  <2>3. \A h \in HypothesesFor(n, f, e.regions) : h \in Hypotheses /\ h.node = n /\ h.failure = f
    <3> TAKE h \in HypothesesFor(n, f, e.regions)
    <3>1. PICK r \in TopCuts(e.regions) : h = [node |-> n, failure |-> f, cut |-> r]
      BY DEF HypothesesFor
    <3>2. r \in Regions
      BY <2>2 DEF TopCuts
    <3> QED BY <3>1, <3>2 DEF Hypotheses
  <2>4. \A h \in ViableAt(n, HypothesesFor(n, f, e.regions)) :
          h \in HypothesesFor(n, f, e.regions) /\ h \notin tried /\ TriedElsewhere(h) < 2
    BY DEF ViableAt
  <2>5. /\ o.from = e /\ o.offered = HypothesesFor(n, f, e.regions)
        /\ o.viable = ViableAt(n, HypothesesFor(n, f, e.regions))
    BY <2>1
  <2> HIDE <2>1
  <2> QED BY <2>2, <2>3, <2>4, <2>5
<1> QED BY <1>3, <1>4

\* A submission is the second of its idea at most.
LEMMA SubmissionIsRare ==
  ASSUME MechanismAtMostTwice, NEW n \in Ids, NEW h \in Hypotheses, h.node = n,
         h.cut \in Regions => TriedElsewhere(h) < 2,
         Touched(n), nodes'[n].expanded = nodes[n].expanded \cup {h}
  PROVE  MechanismAtMostTwice'
<1> SUFFICES ASSUME NEW f \in Checks, NEW r \in Regions
             PROVE  Cardinality(Submitted(nodes', f, r)) <= 2
  BY DEF MechanismAtMostTwice, Submitted
<1> DEFINE S == Submitted(nodes, f, r)
           T == Submitted(nodes', f, r)
<1>1. S \in SUBSET Ids /\ T \in SUBSET Ids /\ Cardinality(S) <= 2
  BY DEF MechanismAtMostTwice, Submitted
<1>2. IsFiniteSet(S) /\ Cardinality(S) \in Nat /\ Cardinality(T) \in Nat
  BY <1>1, IdsAreFinite
<1>3. \A m \in Ids \ {n} : m \in T <=> m \in S
  BY DEF Submitted, Touched
<1>4. CASE h = [node |-> n, failure |-> f, cut |-> r]
  <2>1. \A m \in Ids : [h EXCEPT !.node = m] = [node |-> m, failure |-> f, cut |-> r]
    BY <1>4
  <2>2. TriedElsewhere(h) = Cardinality(S)
    BY <2>1 DEF TriedElsewhere, Submitted
  <2>3. h.cut = r
    BY <1>4
  <2>4. Cardinality(S) < 2
    BY <2>2, <2>3
  <2>5. T \in SUBSET (S \cup {n}) /\ S \cup {n} \in SUBSET Ids
    BY <1>1, <1>3
  <2>6. Cardinality(T) <= Cardinality(S \cup {n})
    BY <2>5, IdsAreFinite
  <2>7. /\ Cardinality(S \cup {n}) = IF n \in S THEN Cardinality(S) ELSE Cardinality(S) + 1
    BY <1>2, FS_AddElement
  <2> HIDE DEF S, T
  <2>8. Cardinality(T) <= 2
    BY <1>2, <2>4, <2>6, <2>7
  <2> QED BY <2>8 DEF T
<1>5. CASE h # [node |-> n, failure |-> f, cut |-> r]
  <2>1. T \in SUBSET S
    BY <1>3, <1>5 DEF Submitted
  <2>2. Cardinality(T) <= Cardinality(S)
    BY <1>1, <2>1, IdsAreFinite
  <2> HIDE DEF S, T
  <2>3. Cardinality(T) <= 2
    BY <1>1, <1>2, <2>2
  <2> QED BY <2>3 DEF T
<1> QED BY <1>4, <1>5

\* After it nothing is viable that was not before, and the one submitted is not.
LEMMA ViableShrinks ==
  ASSUME TypeOK, NEW n \in Ids, NEW h \in Hypotheses, NEW offered,
         Touched(n), nodes'[n].expanded = nodes[n].expanded \cup {h}, tried' = tried \cup {h}
  PROVE  {g \in offered : g \notin tried' /\ g \notin nodes'[n].expanded
             /\ Cardinality({m \in Ids : [g EXCEPT !.node = m] \in nodes'[m].expanded}) < 2}
           \subseteq ViableAt(n, offered) \ {h}
<1> SUFFICES ASSUME NEW g \in offered, g \notin tried', g \notin nodes'[n].expanded,
               Cardinality({m \in Ids : [g EXCEPT !.node = m] \in nodes'[m].expanded}) < 2
             PROVE  g \in ViableAt(n, offered) /\ g # h
  OBVIOUS
<1> DEFINE S == {m \in Ids : [g EXCEPT !.node = m] \in nodes[m].expanded}
           T == {m \in Ids : [g EXCEPT !.node = m] \in nodes'[m].expanded}
<1>1. \A m \in Ids : nodes[m].expanded \subseteq nodes'[m].expanded
  BY DEF Touched
<1>2. S \in SUBSET T /\ T \in SUBSET Ids /\ S \in SUBSET Ids
  BY <1>1
<1>3. Cardinality(S) <= Cardinality(T) /\ Cardinality(S) \in Nat /\ Cardinality(T) \in Nat
  BY <1>2, IdsAreFinite
<1>4. TriedElsewhere(g) = Cardinality(S) /\ Cardinality(T) < 2
  BY DEF TriedElsewhere
<1>5. TriedElsewhere(g) < 2
  <2> HIDE DEF S, T
  <2> QED BY <1>3, <1>4
<1> QED BY <1>1, <1>5 DEF ViableAt

\* A hypothesis goes to the generator.
LEMMA SubmissionKeeps ==
  ASSUME IInv, pc = "diagnose", allowed, Learned, NEW n \in Ids, n = action.node,
         NEW f \in Checks \cup {Mechanical}, NEW o \in Offers(n, f), NEW h \in o.viable,
         NEW results \in [Checks -> Results \cup {NotSeen}],
         nodes' = [[nodes EXCEPT ![n].registered = @ \cup o.offered] EXCEPT
                     ![n].expanded = @ \cup {h}, ![n].results = results],
         tried' = tried \cup {h}, failure' = [hyp |-> h, remaining |-> o.viable \ {h}],
         source' = o.from.regions, expansions' = o.from.count, pc' = "repair",
         UNCHANGED <<action, allowed, facets, cells, distinct, revision, rounds, api, empty,
                     terminal, clock, flicker>>
  PROVE  IInv'
<1> USE DEF IInv
<1>1. /\ o.from.regions \subseteq Regions /\ o.from.count \in 0..MaxExpansions
      /\ o.offered \subseteq Hypotheses /\ o.viable \subseteq o.offered
      /\ \A g \in o.viable : /\ g.node = n /\ g.failure = f /\ g \notin tried
                             /\ g.cut \in Regions => TriedElsewhere(g) < 2
      /\ f # Mechanical => o.viable = ViableAt(n, HypothesesFor(n, f, o.from.regions))
  BY OffersAreViable
<1>2. h \in Hypotheses /\ h \notin tried /\ h.node = n /\ h.failure = f
      /\ (h.cut \in Regions => TriedElsewhere(h) < 2)
  BY <1>1
<1>3. PICK offered : offered = o.offered
  OBVIOUS
<1>4. offered \in SUBSET Hypotheses /\ h \in offered
  BY <1>1, <1>3
<1>5. /\ Touched(n) /\ nodes'[n].gaps = nodes[n].gaps
      /\ nodes'[n].expanded = nodes[n].expanded \cup {h}
  BY <1>3, <1>4, SubmissionTouches
<1>6. TypeOK'
  <2>1. DOMAIN nodes' = Ids /\ \A m \in Ids : NodeOK(nodes'[m])
    BY <1>5, NodesStand
  <2>2. failure'.hyp = h /\ failure'.remaining \subseteq Hypotheses
    BY <1>1
  <2> QED BY <1>1, <1>2, <2>1, <2>2 DEF TypeOK, Learned
<1>7. NodesAreInOrder'
  BY <1>5, OrderStands
<1>8. ActionIsApt'
  <2>1. nodes'[n].status # "ABSENT" /\ nodes'[n].depth = nodes[n].depth
    BY <1>5 DEF ActionIsApt, Touched
  <2> QED BY <2>1 DEF ActionIsApt
<1>9. EvidenceIsFresh'
  BY DEF EvidenceIsFresh
<1>10. MechanismAtMostTwice'
  BY <1>2, <1>5, SubmissionIsRare
<1>11. CallsAreCounted'
  <2>1. /\ IsFiniteSet(tried \cup {h}) /\ Cardinality(tried \cup {h}) = Cardinality(tried) + 1
        /\ Cardinality(tried) \in Nat
    BY <1>2, FS_AddElement, FS_CardinalityType DEF CallsAreCounted
  <2>2. api <= Cardinality(tried) /\ api' = api /\ api \in Nat
    BY DEF CallsAreCounted, TypeOK
  <2>3. api' < Cardinality(tried')
    BY <2>1, <2>2
  <2>4. api' <= Cardinality(tried')
    BY <2>1, <2>2, SMTT(30)
  <2> QED BY <2>1, <2>3, <2>4 DEF CallsAreCounted
<1>12. SiblingsRemain'
  <2> SUFFICES ASSUME f # Mechanical
               PROVE  {g \in HypothesesFor(n, f, o.from.regions) :
                         g \notin tried' /\ g \notin nodes'[n].expanded
                         /\ Cardinality({m \in Ids : [g EXCEPT !.node = m] \in nodes'[m].expanded}) < 2}
                        \subseteq o.viable \ {h}
    BY <1>2 DEF SiblingsRemain, ViableAt, TriedElsewhere
  <2>1. o.viable = ViableAt(n, HypothesesFor(n, f, o.from.regions))
    BY <1>1
  <2> QED BY <1>2, <1>5, <2>1, ViableShrinks
<1>13. OpenCaseIsHonest'
  BY <1>5, HonestWhileKept
<1>14. StopIsEarned'
  BY DEF StopIsEarned, UnavailableIsEarned, EvidenceLimitedIsTrue, OpenCaseIsHonest
<1> QED BY <1>6, <1>7, <1>8, <1>9, <1>10, <1>11, <1>12, <1>13, <1>14

\* A repair is prepared, or the action is over because nothing viable is left.
LEMMA PrepareRepairKeeps ==
  ASSUME IInv, PrepareRepair PROVE IInv'
<1> USE DEF IInv
<1>1. PICK n \in Ids : n = action.node
  BY DEF TypeOK
<1>2. PICK f \in ActiveFailures(nodes[action.node]) :
        \E o \in Offers(action.node, f) :
        \E found \in SUBSET (IF f = Mechanical THEN {} ELSE Challenges \ known) :
        \E results \in RunsOf(nodes[action.node].patch,
                              Seen(nodes[action.node].results) \cup found) :
          /\ source' = o.from.regions /\ expansions' = o.from.count
          /\ known' = known \cup found
          /\ truth' = Drawn(nodes[action.node].patch, results)
          /\ IF Chosen(o.viable, action.hyp) # {}
               THEN \E h \in Chosen(o.viable, action.hyp) :
                      /\ nodes' = [[nodes EXCEPT ![action.node].registered = @ \cup o.offered] EXCEPT
                                     ![action.node].expanded = @ \cup {h},
                                     ![action.node].results = results]
                      /\ tried' = tried \cup {h}
                      /\ failure' = [hyp |-> h, remaining |-> o.viable \ {h}]
                      /\ pc' = "repair" /\ UNCHANGED <<action, allowed>>
             ELSE /\ nodes' = [ExhaustIn([nodes EXCEPT ![action.node].registered = @ \cup o.offered],
                                         action) EXCEPT
                                 ![action.node].owed = @ \cup found,
                                 ![action.node].status = IF o.viable = {} THEN "EXPANDED" ELSE @]
                  /\ Reselect /\ UNCHANGED tried
  BY Zenon DEF PrepareRepair
<1>3. PICK o, found, results :
        /\ o \in Offers(action.node, f) /\ found \in SUBSET (Challenges \ known)
        /\ results \in RunsOf(nodes[action.node].patch, Seen(nodes[action.node].results) \cup found)
        /\ source' = o.from.regions /\ expansions' = o.from.count
        /\ known' = known \cup found
        /\ truth' = Drawn(nodes[action.node].patch, results)
        /\ IF Chosen(o.viable, action.hyp) # {}
             THEN \E h \in Chosen(o.viable, action.hyp) :
                    /\ nodes' = [[nodes EXCEPT ![action.node].registered = @ \cup o.offered] EXCEPT
                                   ![action.node].expanded = @ \cup {h},
                                   ![action.node].results = results]
                    /\ tried' = tried \cup {h}
                    /\ failure' = [hyp |-> h, remaining |-> o.viable \ {h}]
                    /\ pc' = "repair" /\ UNCHANGED <<action, allowed>>
           ELSE /\ nodes' = [ExhaustIn([nodes EXCEPT ![action.node].registered = @ \cup o.offered],
                                       action) EXCEPT
                               ![action.node].owed = @ \cup found,
                               ![action.node].status = IF o.viable = {} THEN "EXPANDED" ELSE @]
                /\ Reselect /\ UNCHANGED tried
  <2>1. (IF f = Mechanical THEN {} ELSE Challenges \ known) \subseteq Challenges \ known
    OBVIOUS
  <2> QED BY <1>2, <2>1, ZenonT(60)
<1>4. /\ f \in ActiveFailures(nodes[action.node]) /\ o \in Offers(action.node, f)
       /\ found \in SUBSET (Challenges \ known)
       /\ results \in RunsOf(nodes[action.node].patch, Seen(nodes[action.node].results) \cup found)
       /\ source' = o.from.regions /\ expansions' = o.from.count
       /\ known' = known \cup found
       /\ truth' = Drawn(nodes[action.node].patch, results)
  BY <1>2, <1>3, Zenon
<1>5. /\ f \in ActiveFailures(nodes[n]) /\ o \in Offers(n, f)
       /\ results \in RunsOf(nodes[n].patch, Seen(nodes[n].results) \cup found)
       /\ truth' = Drawn(nodes[n].patch, results)
  BY ONLY <1>1, <1>4
<1>6. /\ pc = "diagnose" /\ allowed
      /\ UNCHANGED <<facets, cells, distinct, revision, rounds, api, empty, terminal, clock,
                     flicker>>
  BY DEF PrepareRepair, Diagnosed
<1>7. /\ nodes[n].patch \in Patches /\ nodes[n].status # "ABSENT"
      /\ nodes[n].results \in [Checks -> Results \cup {NotSeen}]
  BY <1>1, <1>6 DEF ActionIsApt, NodesAreInOrder, TypeOK, NodeOK, NodeType
<1>8. f \in Checks \cup {Mechanical}
  BY <1>5 DEF ActiveFailures, Failing
<1>9. Seen(nodes[n].results) \cup found \in SUBSET Checks
  BY <1>4 DEF Seen, Checks
<1>10. /\ results \in [Checks -> Results \cup {NotSeen}]
      /\ truth' \in [Patches -> [Checks -> Results \cup {NotSeen}]]
      /\ \A p \in Patches, k \in Checks : truth[p][k] # NotSeen => truth'[p][k] = truth[p][k]
  <2>1. PICK patch \in Patches, run \in SUBSET Checks :
          patch = nodes[n].patch /\ run = Seen(nodes[n].results) \cup found
    BY <1>7, <1>9
  <2>2. results \in RunsOf(patch, run) /\ truth' = Drawn(patch, results)
    BY ONLY <1>5, <2>1
  <2> QED BY <2>2, RunsAreTrue
<1>11. Learned
  <2>1. known' \subseteq Checks /\ known' \cap Targets \subseteq known /\ known \subseteq known'
    BY <1>4, RolesAreDisjoint DEF TypeOK, Checks
  <2> QED BY <1>10, <2>1 DEF Learned
<1>12. CASE Chosen(o.viable, action.hyp) # {}
  <2>1. PICK h \in Chosen(o.viable, action.hyp) :
          /\ nodes' = [[nodes EXCEPT ![action.node].registered = @ \cup o.offered] EXCEPT
                         ![action.node].expanded = @ \cup {h},
                         ![action.node].results = results]
          /\ tried' = tried \cup {h}
          /\ failure' = [hyp |-> h, remaining |-> o.viable \ {h}]
          /\ pc' = "repair" /\ UNCHANGED <<action, allowed>>
    BY <1>3, <1>12, Zenon
  <2>2. nodes' = [[nodes EXCEPT ![n].registered = @ \cup o.offered] EXCEPT
                    ![n].expanded = @ \cup {h}, ![n].results = results]
    BY ONLY <1>1, <2>1
  <2>3. h \in o.viable
    BY DEF Chosen
  <2> QED BY <1>1, <1>6, <1>8, <1>10, <1>11, <1>4, <1>5, <2>1, <2>2, <2>3, SubmissionKeeps
<1>13. CASE Chosen(o.viable, action.hyp) = {}
  <2>1. /\ nodes' = [ExhaustIn([nodes EXCEPT ![action.node].registered = @ \cup o.offered], action)
                       EXCEPT ![action.node].owed = @ \cup found,
                              ![action.node].status = IF o.viable = {} THEN "EXPANDED" ELSE @]
        /\ Reselect /\ UNCHANGED tried
    BY <1>3, <1>13, Zenon
  <2>2. /\ o.from.regions \subseteq Regions /\ o.from.count \in 0..MaxExpansions
        /\ o.offered \subseteq Hypotheses
    BY <1>8, <1>5, OffersAreViable
  <2>3. PICK offered, over : offered = o.offered /\ over = (o.viable = {})
    OBVIOUS
  <2>4. Kept(n)
    <3>1. /\ nodes' = [ExhaustIn([nodes EXCEPT ![action.node].registered = @ \cup offered], action)
                       EXCEPT ![action.node].owed = @ \cup found,
                              ![action.node].status = IF over THEN "EXPANDED" ELSE @]
          /\ offered \in SUBSET Hypotheses /\ over \in BOOLEAN
      BY <1>1, <2>1, <2>2, <2>3
    <3>2. found \in SUBSET Checks
      BY <1>4, SMTT(30) DEF Checks
    <3>3. Kept(action.node)
      BY <1>1, <1>7, <3>1, <3>2, NoHypothesisKeeps
    <3> QED BY <1>1, <3>3, SMTT(30)
  <2>5. OpenCaseIsHonest'
    BY <1>6, <1>11, <2>4, HonestWhileKept DEF Kept
  <2>6. /\ source' \subseteq Regions /\ expansions' \in 0..MaxExpansions
        /\ api' \in Nat /\ api' <= Cardinality(tried) /\ empty' \in Nat
    BY <1>4, <1>6, <2>2 DEF TypeOK, CallsAreCounted
  <2>7. UNCHANGED <<cells, facets, tried, distinct, revision, rounds, clock, flicker>>
    BY <1>6, <2>1
  <2> QED BY <1>11, <2>1, <2>4, <2>5, <2>6, <2>7, ReselectKeeps
<1> QED BY <1>12, <1>13

-----------------------------------------------------------------------------
(* The generator answers.                                                  *)

\* What every answer finds.
LEMMA AtRepair ==
  ASSUME IInv, pc = "repair"
  PROVE  /\ action.node \in Ids /\ nodes[action.node].status # "ABSENT"
         /\ revision < MaxRevisions /\ api \in Nat /\ empty \in Nat
         /\ api + 1 <= Cardinality(tried) /\ Cardinality(tried) \in Nat
         /\ source \subseteq Regions /\ expansions \in 0..MaxExpansions
BY FS_CardinalityType DEF IInv, TypeOK, ActionIsApt, CallsAreCounted

\* The mechanism failed, or is given up: nothing was learned.
LEMMA MovingOnKeeps ==
  ASSUME IInv, pc = "repair",
         Continue \/ MechanismExhausted \/ (nodes' = ExhaustIn(nodes, action) /\ Reselect /\ terminal' = terminal),
         UNCHANGED <<truth, known, facets, source, expansions, tried, cells, distinct,
                     revision, rounds, clock, flicker>>,
         api' \in {0, api, api + 1}, empty' \in Nat
  PROVE  IInv'
<1> USE DEF IInv
<1>1. /\ action.node \in Ids /\ nodes[action.node].status # "ABSENT"
      /\ api \in Nat /\ api + 1 <= Cardinality(tried) /\ Cardinality(tried) \in Nat
      /\ source' \subseteq Regions /\ expansions' \in 0..MaxExpansions
  BY AtRepair
<1>2. Kept(action.node)
  <2>1. CASE nodes' = nodes
    BY <1>1, <2>1 DEF Kept, Touched, TypeOK
  <2>2. CASE nodes' = ExhaustIn(nodes, action)
    BY <1>1, <2>2, ExhaustKeeps
  <2>3. CASE nodes' = ExhaustIn([nodes EXCEPT ![action.node].status = "EXPANDED"], action)
    BY <1>1, <2>3, GiveUpKeeps
  <2> QED BY <2>1, <2>2, <2>3 DEF Continue, MechanismExhausted
<1>3. Learned
  BY DEF Learned, TypeOK
<1>4. Reselect /\ terminal' \in {terminal, "MECHANISM_EXHAUSTED"}
  BY DEF Continue, MechanismExhausted
<1>5. OpenCaseIsHonest'
  BY <1>1, <1>2, <1>3, <1>4, HonestWhileKept DEF Kept
<1>6. api' \in Nat /\ api' <= Cardinality(tried)
  BY <1>1
<1> QED BY <1>1, <1>2, <1>3, <1>4, <1>5, <1>6, ReselectKeeps

\* The generator is reported unavailable only with its calls spent and no sibling left.
LEMMA ApiFailsKeeps ==
  ASSUME IInv, ApiFails PROVE IInv'
<1> USE DEF IInv
<1>1. /\ pc = "repair" /\ api' = api + 1 /\ empty' = empty
      /\ UNCHANGED <<truth, known, facets, source, expansions, tried, cells, distinct,
                     revision, rounds, clock, flicker>>
  BY DEF ApiFails, Repairing
<1>2. api \in Nat /\ empty \in Nat /\ api + 1 <= Cardinality(tried) /\ Cardinality(tried) \in Nat
  BY <1>1, AtRepair
<1>3. CASE Continue
  BY <1>1, <1>2, <1>3, MovingOnKeeps
<1>4. CASE api' >= MaxFailures /\ failure.remaining = {} /\ Unavailable
  <2>1. Finish("EXTERNAL_API_UNAVAILABLE") /\ UNCHANGED <<nodes, action, failure, allowed>>
    BY <1>4 DEF Unavailable
  <2>2. UnavailableIsEarned'
    <3>1. Cardinality(tried) >= MaxFailures
      BY <1>1, <1>2, <1>4, BoundsAreNatural
    <3>2. failure.hyp.failure # Mechanical =>
            ViableAt(action.node, HypothesesFor(action.node, failure.hyp.failure, source)) = {}
      BY <1>1, <1>4 DEF SiblingsRemain
    <3> QED BY <1>1, <2>1, <3>1, <3>2
          DEF UnavailableIsEarned, ViableAt, TriedElsewhere
  <2> QED BY <1>1, <1>2, <2>1, <2>2, FinishKeeps DEF search
<1>5. Continue \/ (api' >= MaxFailures /\ failure.remaining = {} /\ Unavailable)
  <2>1. IF api' < MaxFailures \/ failure.remaining # {} THEN Continue ELSE Unavailable
    BY DEF ApiFails
  <2> QED BY <1>1, <1>2, <2>1, BoundsAreNatural
<1> QED BY <1>3, <1>4, <1>5

\* The other answers without a new patch.
LEMMA NoPatchKeeps ==
  ASSUME IInv, MechanismFails \/ ReturnsNothing \/ ReturnsKnownPatch PROVE IInv'
<1>1. pc = "repair"
  BY DEF MechanismFails, ReturnsNothing, ReturnsKnownPatch, Repairing
<1>2. UNCHANGED <<truth, known, facets, source, expansions, tried, cells, distinct,
                  revision, rounds, clock, flicker>>
  BY DEF MechanismFails, ReturnsNothing, ReturnsKnownPatch
<1>3. \/ Continue \/ MechanismExhausted
      \/ nodes' = ExhaustIn(nodes, action) /\ Reselect /\ terminal' = terminal
  BY DEF MechanismFails, ReturnsNothing, ReturnsKnownPatch
<1>4. api' \in {0, api, api + 1} /\ empty' \in Nat
  BY <1>1, AtRepair DEF MechanismFails, ReturnsNothing, ReturnsKnownPatch
<1> QED BY <1>1, <1>2, <1>3, <1>4, MovingOnKeeps

\* A new patch takes the next identifier, where there was no node.
LEMMA ReturnsPatchKeeps ==
  ASSUME IInv, NEW p \in Patches, ReturnsPatch(p) PROVE IInv'
<1> USE DEF IInv
<1>1. PICK n, parent : n = action.node /\ parent = nodes[n]
  OBVIOUS
<1>2. PICK found, results, decision :
        /\ found \in SUBSET (Challenges \ known) /\ results \in RunsOf(p, known \cup found)
        /\ decision \in Decided(p, results)
        /\ known' = known \cup found
        /\ truth' = Drawn(p, results)
        /\ nodes' = [nodes EXCEPT ![revision + 1] =
             [NewNode(p, action.node, nodes[action.node].depth + 1, decision) EXCEPT
                !.results = results,
                !.locks = nodes[action.node].locks \cup Passing(results),
                !.gaps = IF PotentiallyReached(p, results) THEN GapsOf(p, results) ELSE {}]]
        /\ facets' = IF PotentiallyReached(p, results) THEN facets \cup FacetsOf(known') ELSE facets
        /\ IF decision = "CERTIFIED"
             THEN /\ pc' = "done" /\ terminal' = "REACHED"
                  /\ UNCHANGED <<action, failure, allowed>>
           ELSE Reselect /\ UNCHANGED terminal
  BY DEF ReturnsPatch
<1>3. /\ pc = "repair" /\ api' = 0 /\ empty' = 0
      /\ revision' = revision + 1 /\ distinct' = distinct \cup {p}
      /\ UNCHANGED <<source, expansions, tried, cells, rounds, clock, flicker>>
  BY DEF ReturnsPatch, Repairing
<1>4. /\ n \in Ids /\ parent.status # "ABSENT" /\ revision < MaxRevisions
      /\ Cardinality(tried) \in Nat
  BY <1>1, <1>3, AtRepair
<1>5. PICK k : k = revision + 1
  OBVIOUS
<1>6. MaxRevisions \in Nat /\ revision \in 0..MaxRevisions
  BY BoundsAreNatural DEF TypeOK
<1>7. k \in Ids /\ nodes[k].status = "ABSENT"
  BY <1>4, <1>5, <1>6 DEF Ids, NodesAreInOrder
<1>8. parent.depth <= n /\ n <= revision /\ parent.depth \in Nat /\ parent.locks \subseteq Checks
  BY <1>1, <1>4 DEF NodesAreInOrder, TypeOK, NodeOK, NodeType
<1>9. known \cup found \in SUBSET Checks /\ known' \cap Targets \subseteq known
  BY <1>2, RolesAreDisjoint DEF TypeOK, Checks
<1>10. /\ results \in [Checks -> Results \cup {NotSeen}]
       /\ truth' \in [Patches -> [Checks -> Results \cup {NotSeen}]]
       /\ \A q \in Patches, c \in Checks : truth[q][c] # NotSeen => truth'[q][c] = truth[q][c]
  <2>1. PICK run \in SUBSET Checks : run = known \cup found
    BY <1>9
  <2>2. results \in RunsOf(p, run) /\ truth' = Drawn(p, results)
    BY <1>2, <2>1
  <2> HIDE <1>2
  <2> QED BY <2>2, RunsAreTrue
<1>11. Learned
  BY <1>2, <1>9, <1>10 DEF Learned
<1>12. decision \in {"REJECTED", "ACCEPTED", "CERTIFIED"}
  BY <1>2 DEF Decided
<1>13. PICK locks, gaps :
         /\ locks = nodes[action.node].locks \cup Passing(results)
         /\ gaps = IF PotentiallyReached(p, results) THEN GapsOf(p, results) ELSE {}
  OBVIOUS
<1>14. locks \in SUBSET Checks /\ gaps \in SUBSET (Checks \cup {Missing})
  BY <1>1, <1>8, <1>13, GapsType DEF Passing
<1>15. /\ DOMAIN nodes' = Ids /\ \A m \in Ids \ {k} : nodes'[m] = nodes[m]
       /\ nodes'[k] = [NewNode(p, n, parent.depth + 1, decision) EXCEPT
                         !.results = results, !.locks = locks, !.gaps = gaps]
  <2>1. nodes' = [nodes EXCEPT ![k] =
                    [NewNode(p, n, parent.depth + 1, decision) EXCEPT
                       !.results = results, !.locks = locks, !.gaps = gaps]]
    BY <1>1, <1>2, <1>5, <1>13
  <2>2. DOMAIN nodes = Ids
    BY DEF TypeOK
  <2>3. PICK x : x = [NewNode(p, n, parent.depth + 1, decision) EXCEPT
                        !.results = results, !.locks = locks, !.gaps = gaps]
    OBVIOUS
  <2>4. nodes' = [nodes EXCEPT ![k] = x]
    BY ONLY <2>1, <2>3
  <2>5. DOMAIN nodes' = Ids /\ (\A m \in Ids \ {k} : nodes'[m] = nodes[m]) /\ nodes'[k] = x
    BY ONLY <1>7, <2>2, <2>4
  <2> QED BY ONLY <2>3, <2>5, Zenon
<1>16. PICK depth \in 0..(MaxRevisions + 1) : depth = parent.depth + 1 /\ depth <= k
  BY <1>4, <1>5, <1>6, <1>8 DEF Ids
<1>17. /\ NodeOK(nodes'[k]) /\ nodes'[k].depth = depth /\ nodes'[k].patch = p
       /\ nodes'[k].expanded = {}
  <2>1. nodes'[k] = [NewNode(p, n, depth, decision) EXCEPT
                       !.results = results, !.locks = locks, !.gaps = gaps]
    BY <1>15, <1>16
  <2>2. n \in Ids /\ MaxProbes \in Nat /\ MaxExpansions \in Nat
    BY <1>4, BoundsAreNatural
  <2>3. nodes'[k] = [patch |-> p, parent |-> n, depth |-> depth, status |-> decision,
                     results |-> results, sig |-> 0, owed |-> {}, locks |-> locks, gaps |-> gaps,
                     registered |-> {}, expanded |-> {}, exhausted |-> {}, rounds |-> 0,
                     probes |-> 0]
    BY ONLY <2>1, ZenonT(60) DEF NewNode
  <2>4. PICK d : d = nodes'[k]
    OBVIOUS
  <2>5. p \in Patches
    OBVIOUS
  <2>6. d \in NodeType({}) /\ d.exhausted = {} /\ d.expanded = {} /\ d.registered = {}
        /\ d.depth = depth /\ d.patch = p
    BY ONLY <1>10, <1>12, <1>14, <1>16, <2>2, <2>3, <2>4, <2>5 DEF NodeType
  <2> QED BY ONLY <2>4, <2>6 DEF NodeOK
<1>18. NodesAreInOrder'
  <2>1. \A m \in Ids : nodes'[m].depth <= m
    BY <1>15, <1>16, <1>17 DEF NodesAreInOrder
  <2>2. nodes'[k].patch \in Patches /\ k <= revision'
    BY <1>3, <1>5, <1>6, <1>17
  <2>3. \A m \in Ids \ {k} : nodes'[m].status # "ABSENT" => nodes'[m].patch \in Patches /\ m <= revision'
    BY <1>3, <1>6, <1>15 DEF NodesAreInOrder, Ids
  <2> QED BY <2>1, <2>2, <2>3 DEF NodesAreInOrder
<1>19. MechanismAtMostTwice'
  <2>1. \A m \in Ids : nodes'[m].expanded \subseteq nodes[m].expanded
    BY <1>15, <1>17
  <2> QED BY <2>1, IdeasStand
<1>20. CallsAreCounted' /\ pc' # "repair" /\ pc' # "diagnose"
  BY <1>2, <1>3, <1>4 DEF CallsAreCounted, Reselect
<1>21. ActionIsApt' /\ EvidenceIsFresh' /\ SiblingsRemain'
  BY <1>20 DEF ActionIsApt, EvidenceIsFresh, SiblingsRemain
<1>22. TypeOK'
  <2>1. DOMAIN nodes' = Ids /\ \A m \in Ids : NodeOK(nodes'[m])
    BY <1>15, <1>17 DEF TypeOK
  <2>2. facets' \subseteq Targets \cup {Missing}
    BY <1>2 DEF TypeOK, FacetsOf
  <2>3. /\ action'.node \in Ids /\ action'.hyp \in Hypotheses \cup {NoHypothesis}
        /\ failure'.hyp \in Hypotheses \cup {NoHypothesis} /\ failure'.remaining \subseteq Hypotheses
        /\ allowed' \in BOOLEAN /\ pc' \in {"select", "done"}
    <3>1. P0 \in Ids
      BY <1>6 DEF P0, Ids
    <3>2. CASE UNCHANGED <<action, failure, allowed>> /\ pc' = "done"
      BY <3>2 DEF TypeOK
    <3>3. CASE Reselect
      BY <3>1, <3>3 DEF Reselect, NoAction, Action, NoFailure
    <3> QED BY <1>2, <3>2, <3>3, Zenon
  <2>4. revision' \in 0..MaxRevisions /\ api' \in Nat /\ empty' \in Nat /\ distinct' \subseteq Patches
    BY <1>3, <1>4, <1>6 DEF TypeOK
  <2> QED BY <1>3, <1>11, <2>1, <2>2, <2>3, <2>4 DEF TypeOK, Learned
<1>23. OpenCaseIsHonest' /\ StopIsEarned'
  <2>1. CASE decision = "CERTIFIED"
    BY <1>2, <2>1 DEF OpenCaseIsHonest, StopIsEarned, UnavailableIsEarned, EvidenceLimitedIsTrue
  <2>2. CASE decision # "CERTIFIED"
    <3>1. terminal' = terminal /\ rounds' = rounds /\ pc' # "done"
      BY <1>2, <1>3, <2>2 DEF Reselect
    <3>2. \A m \in Ids : CannotClose(m) =>
            /\ nodes'[m].patch = nodes[m].patch /\ nodes'[m].status # "ABSENT"
            /\ nodes'[m].gaps # {}
      BY <1>7, <1>15 DEF CannotClose
    <3>3. OpenCaseIsHonest'
      BY <1>3, <1>11, <3>1, <3>2, OpenCaseStands
    <3> QED BY <3>1, <3>3
          DEF OpenCaseIsHonest, StopIsEarned, UnavailableIsEarned, EvidenceLimitedIsTrue
  <2> QED BY <2>1, <2>2
<1> QED BY <1>18, <1>19, <1>20, <1>21, <1>22, <1>23

-----------------------------------------------------------------------------
(* The theorems.                                                           *)

\* The clock and the stuttering steps do not touch the search.
LEMMA ClockKeeps ==
  ASSUME IInv, Tick \/ UNCHANGED vars PROVE IInv'
<1>1. UNCHANGED <<pc, action, search, counts, terminal, flicker>>
  BY DEF Tick, vars
<1>2. clock' \in {"early", "late", "over"}
  BY DEF Tick, vars, IInv, TypeOK
<1> USE <1>1 DEF IInv, search, counts
<1>3. TypeOK'
  BY <1>2 DEF TypeOK
<1>4. NodesAreInOrder' /\ ActionIsApt' /\ EvidenceIsFresh' /\ MechanismAtMostTwice'
  BY DEF NodesAreInOrder, ActionIsApt, EvidenceIsFresh, MechanismAtMostTwice
<1>5. CallsAreCounted' /\ SiblingsRemain' /\ OpenCaseIsHonest'
  BY DEF CallsAreCounted, SiblingsRemain, ViableAt, TriedElsewhere, OpenCaseIsHonest, CannotClose
<1>6. StopIsEarned'
  BY DEF StopIsEarned, UnavailableIsEarned, EvidenceLimitedIsTrue, ViableAt, TriedElsewhere, Live
<1> QED BY <1>3, <1>4, <1>5, <1>6

\* One case per action.
LEMMA NextKeeps ==
  ASSUME IInv, [Next]_vars PROVE IInv'
<1>1. CASE FrontierExhausted \/ TimeIsUp
  BY <1>1, StopKeeps
<1>2. CASE Select
  BY <1>2, SelectKeeps
<1>3. CASE RecoverEvidence
  BY <1>3, RecoverEvidenceKeeps
<1>4. CASE GiveUpEvidence
  BY <1>4, GiveUpEvidenceKeeps
<1>5. CASE NoGeneration
  BY <1>5, NoGenerationKeeps
<1>6. CASE PrepareRepair
  BY <1>6, PrepareRepairKeeps
<1>7. CASE ApiFails
  BY <1>7, ApiFailsKeeps
<1>8. CASE MechanismFails \/ ReturnsNothing \/ ReturnsKnownPatch
  BY <1>8, NoPatchKeeps
<1>9. CASE \E p \in Patches : ReturnsPatch(p)
  BY <1>9, ReturnsPatchKeeps
<1>10. CASE Tick \/ UNCHANGED vars
  BY <1>10, ClockKeeps
<1> QED BY <1>1, <1>2, <1>3, <1>4, <1>5, <1>6, <1>7, <1>8, <1>9, <1>10
      DEF Next, Loop, Generator, Done

\* Nothing is known, submitted or promised at the start.
LEMMA InitHolds == Init => IInv
<1> SUFFICES ASSUME Init PROVE IInv
  OBVIOUS
<1>1. PICK p \in Patches :
        nodes = [n \in Ids |-> IF n = P0 THEN NewNode(p, P0, 0, "OPEN")
                               ELSE NewNode(NoPatch, P0, 0, "ABSENT")]
  BY DEF Init
<1>2. /\ MaxRevisions \in Nat /\ MaxExpansions \in Nat /\ MaxProbes \in Nat
      /\ RecoveryAttempts \in Nat /\ P0 \in Ids
  BY BoundsAreNatural DEF P0, Ids
<1>3. DOMAIN nodes = Ids /\ \A n \in Ids : NodeOK(nodes[n]) /\ nodes[n].expanded = {}
  <2> SUFFICES ASSUME NEW n \in Ids, NEW patch \in Patches \cup {NoPatch},
                      NEW status \in {"OPEN", "ABSENT"}
               PROVE  NodeOK(NewNode(patch, P0, 0, status)) /\ NewNode(patch, P0, 0, status).expanded = {}
    BY <1>1, <1>2
  <2>1. Unseen \in [Checks -> Results \cup {NotSeen}]
    BY DEF Unseen
  <2> QED BY <1>2, <2>1 DEF NodeOK, NodeType, NewNode
<1>4. TypeOK
  <2>1. action.node \in Ids /\ action.hyp = NoHypothesis
    BY <1>2 DEF Init, NoAction, Action
  <2>2. failure.hyp = NoHypothesis /\ failure.remaining = {}
    BY DEF Init, NoFailure
  <2>3. truth \in [Patches -> [Checks -> Results \cup {NotSeen}]]
    BY DEF Init, Unseen
  <2>4. known \subseteq Checks /\ facets \subseteq Targets \cup {Missing}
    BY DEF Init, FacetsOf, Checks
  <2>5. expansions \in 0..MaxExpansions /\ revision \in 0..MaxRevisions /\ rounds \in 0..RecoveryAttempts
    BY <1>2 DEF Init
  <2>6. /\ pc = "select" /\ source \subseteq Regions /\ tried = {} /\ cells = {} /\ distinct = {}
        /\ allowed = FALSE /\ api = 0 /\ empty = 0 /\ clock = "early" /\ flicker = 0
    BY DEF Init
  <2>7. /\ pc \in {"select", "diagnose", "repair", "done"} /\ clock \in {"early", "late", "over"}
        /\ tried \subseteq Hypotheses /\ cells \subseteq Cells /\ distinct \subseteq Patches
        /\ source \subseteq Regions
        /\ failure.remaining \subseteq Hypotheses /\ failure.hyp \in Hypotheses \cup {NoHypothesis}
        /\ action.hyp \in Hypotheses \cup {NoHypothesis}
        /\ api \in Nat /\ empty \in Nat /\ flicker \in 0..1
    BY ONLY <2>1, <2>2, <2>6
  <2>8. allowed \in BOOLEAN
    BY ONLY <2>6, Zenon
  <2> QED BY ONLY <1>3, <2>1, <2>3, <2>4, <2>5, <2>7, <2>8 DEF TypeOK
<1>5. NodesAreInOrder
  <2> SUFFICES ASSUME NEW n \in Ids
               PROVE  /\ nodes[n].depth <= n
                      /\ nodes[n].status # "ABSENT" => nodes[n].patch \in Patches /\ n <= revision
    BY DEF NodesAreInOrder
  <2>1. n >= 0 /\ revision = 0
    BY <1>2 DEF Ids, Init
  <2>2. CASE n = P0
    BY <1>1, <2>1, <2>2 DEF NewNode, P0
  <2>3. CASE n # P0
    BY <1>1, <2>1, <2>3 DEF NewNode
  <2> QED BY <2>2, <2>3
<1>6. ActionIsApt /\ EvidenceIsFresh /\ SiblingsRemain /\ OpenCaseIsHonest
  BY DEF Init, ActionIsApt, EvidenceIsFresh, SiblingsRemain, OpenCaseIsHonest
<1>7. MechanismAtMostTwice
  <2> SUFFICES ASSUME NEW f \in Checks, NEW r \in Regions
               PROVE  Cardinality({n \in Ids : [node |-> n, failure |-> f, cut |-> r]
                                                 \in nodes[n].expanded}) <= 2
    BY DEF MechanismAtMostTwice
  <2>1. {n \in Ids : [node |-> n, failure |-> f, cut |-> r] \in nodes[n].expanded} = {}
    BY <1>3
  <2>2. Cardinality({}) <= 2
    BY FS_EmptySet
  <2> QED BY ONLY <2>1, <2>2
<1>8. CallsAreCounted
  BY FS_EmptySet DEF Init, CallsAreCounted
<1>9. StopIsEarned
  BY DEF Init, StopIsEarned, UnavailableIsEarned, EvidenceLimitedIsTrue
<1> QED BY <1>4, <1>5, <1>6, <1>7, <1>8, <1>9 DEF IInv

\* The invariant holds throughout.
THEOREM SearchInvariance == Spec => []IInv
BY InitHolds, NextKeeps, PTL DEF Spec

\* No counter of the search leaves its bound, whatever the sizes, and no repair
\* idea for a failure is submitted at a third checkpoint.
THEOREM RepetitionEnds == Spec => []RepetitionIsBounded
<1>1. IInv => RepetitionIsBounded
  BY DEF IInv, RepetitionIsBounded
<1> QED BY <1>1, SearchInvariance, PTL

\* A case that ends because the generator is unavailable has made as many
\* submissions as the limit asks for and has nothing left to try for the failure
\* at hand; one that ends limited by evidence has no target, or an open gap and
\* no recovery round left.
THEOREM StoppingIsEarned == Spec => []StopIsEarned
<1>1. IInv => StopIsEarned
  BY DEF IInv
<1> QED BY <1>1, SearchInvariance, PTL

\* A checkpoint at the depth limit is repaired only by an action that was
\* selected for its evidence.
THEOREM DepthIsRespected == Spec => DepthYieldsOnlyToNewEvidence
<1>1. ASSUME IInv, [Next]_vars
      PROVE  [pc = "diagnose" /\ pc' = "repair" /\ nodes[action.node].depth >= MaxDepth =>
                action.kind \in {"VALIDATE_CHECKPOINT", "RECOVER_EVIDENCE", "FINAL_REVIEW"}]_vars
  <2> SUFFICES ASSUME pc = "diagnose", nodes[action.node].depth >= MaxDepth
               PROVE  action.kind \in {"VALIDATE_CHECKPOINT", "RECOVER_EVIDENCE", "FINAL_REVIEW"}
    OBVIOUS
  <2>1. nodes[action.node].depth \in Int /\ MaxDepth \in Int
    <3>1. NodeOK(nodes[action.node])
      BY <1>1 DEF IInv, TypeOK
    <3> QED BY <3>1, BoundsAreNatural DEF NodeOK, NodeType
  <2> QED BY <1>1, <2>1 DEF IInv, ActionIsApt
<1> QED BY <1>1, SearchInvariance, PTL DEF Spec, DepthYieldsOnlyToNewEvidence

=============================================================================
