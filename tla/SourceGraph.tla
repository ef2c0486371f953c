----------------------------- MODULE SourceGraph -----------------------------
(* The source layer of the dynamic reach-avoid graph: which functions of which *)
(* files are in it, in which version, and what was observed on them.           *)
(*                                                                             *)
(* The graph is seeded from the clean tree, and afterwards follows the search: *)
(* when a checkpoint is selected or a trial evaluated, the edited files are    *)
(* read again from its tree, older versions are kept as history, and what was  *)
(* observed stays with the version it was observed on.  Failing runs add       *)
(* dynamic edges, expansions add the functions around a boundary.  The         *)
(* expressions inside a function belong to its source text here.               *)
EXTENDS Integers, Sequences, FiniteSets, SequencesExt, FiniteSetsExt

CONSTANTS
  Paths,           \* the python files of the case, in alphabetical order
  Names,           \* names of top-level functions
  Spans,           \* source texts of functions
  Trees, Clean,    \* snapshots of the repository, and the unpatched one
  Content,         \* Content[t][p]: the content of file p in tree t
  Gone, Broken,    \* a file that does not exist, one that does not parse
  NoHash,          \* a file never read by a refresh
  Defs,            \* the functions a content defines, from top to bottom
  Calls,           \* the names a source text calls, in order
  Hints, Wanted,   \* files hinted or named by a public check, names the issue mentions
  MaxFiles, MaxSymbols, MaxEdges,  \* graph.budget
  MaxExpansions,                   \* graph.budget.max_expansion_depth
  MaxRounds,                       \* bound: selections of a parent
  MaxObservations                  \* bound: failing executions recorded

Files == Range(Paths)
Contents == {Content[t][p] : t \in Trees, p \in Files} \ {Gone, Broken}
NoSpan == "NO_TEXT"

ASSUME TreesAreGiven ==
  /\ Paths \in Seq(Range(Paths))
  /\ Clean \in Trees /\ Hints \subseteq Files /\ Wanted \subseteq Names
  /\ \A c \in Contents : Defs[c] \in Seq([name : Names, span : Spans, line : Nat])
  /\ Calls \in [Spans -> Seq(Names)]
  /\ NoSpan \notin Spans /\ NoHash \notin Contents
ASSUME LimitsAreNatural ==
  {MaxFiles, MaxSymbols, MaxEdges, MaxExpansions, MaxRounds, MaxObservations}
    \subseteq Nat

VARIABLES
  graph,      \* the source layer
  tree,       \* the snapshot the graph was last refreshed for
  looked,     \* whether every refresh came to its last file in time
  phase,      \* where the controller is in its loop
  evaluated,  \* the trees of the checkpoints a parent can be selected from
  rounds      \* selections made

vars == <<graph, tree, looked, phase, evaluated, rounds>>

Reasons == {"FILE_BUDGET", "SYMBOL_BUDGET", "EDGE_BUDGET", "TIME_BUDGET"}

Old == {"RETIRED_SOURCE", "HISTORICAL_SOURCE"}
Live(node) == node.status \notin Old

-----------------------------------------------------------------------------
(* The graph: nodes in the order they were added, edges by their identity.    *)

Nodes(g) == DOMAIN g.nodes
\* The first of some nodes in the order of insertion, 0 if there is none.
First(nodes) == IF nodes = {} THEN 0 ELSE Min(nodes)

WithFrontier(g, reason) == [g EXCEPT !.frontiers = @ \cup {reason}]
WithNode(g, node) == [g EXCEPT !.nodes = Append(@, node)]

\* An edge that exists stays as it is, withdrawn or led to another version; a
\* new one needs room.
Edge(kind, from, to) == [kind |-> kind, from |-> from, to |-> to]
AddEdge(g, e) ==
  CASE e \in DOMAIN g.edges -> g
    [] e \notin DOMAIN g.edges /\ Cardinality(DOMAIN g.edges) >= MaxEdges ->
         WithFrontier(g, "EDGE_BUDGET")
    [] OTHER ->
         [g EXCEPT !.edges = [x \in DOMAIN g.edges \cup {e} |->
            IF x = e THEN [to |-> e.to, active |-> TRUE] ELSE g.edges[x]]]

Admit(g, p) ==
  IF Cardinality(g.files) >= MaxFiles /\ p \notin g.files
    THEN WithFrontier(g, "FILE_BUDGET") ELSE [g EXCEPT !.files = @ \cup {p}]

\* Old versions and traced functions count as well.
Room(g) == IF Len(g.nodes) < MaxSymbols THEN MaxSymbols - Len(g.nodes) ELSE 0

\* The node of a definition: its identity is the file and the name.  A traced
\* function that was unknown got a node of its own, without text.
SourceNode(g, p, name) ==
  First({i \in Nodes(g) : /\ g.nodes[i].file = p /\ g.nodes[i].name = name
                          /\ g.nodes[i].of = 0 /\ g.nodes[i].span # NoSpan})

\* What a trace or a call by name resolves to.
Named(g, p, name) == First({i \in Nodes(g) : g.nodes[i].file = p /\ g.nodes[i].name = name})
Called(g, name) == First({i \in Nodes(g) : g.nodes[i].name = name})

\* The files of a set, in order.
AddIf(S, seq, p) == IF p \in S THEN Append(seq, p) ELSE seq
InOrder(S) == FoldLeft(LAMBDA seq, p : AddIf(S, seq, p), <<>>, Paths)

-----------------------------------------------------------------------------
(* Reading the definitions of a file: for a refresh, for the seed or for an   *)
(* expansion.                                                                 *)

\* A definition is added, or its node brought up to date.
ReadDefinition(g, p, def, status) ==
  LET i == SourceNode(g, p, def.name)
  IN IF i = 0
       THEN WithNode(g, [file |-> p, name |-> def.name, span |-> def.span,
                         line |-> def.line, status |-> status, of |-> 0])
     ELSE [g EXCEPT !.nodes = [j \in Nodes(g) |->
            IF j = i THEN [g.nodes[j] EXCEPT !.span = def.span, !.line = def.line,
                                             !.status = IF status = "NO_STATUS" THEN @ ELSE status]
            ELSE g.nodes[j]]]

\* The one function a call by name can mean: the only one of the file, or else
\* the only one of the graph, history included.
Callee(g, p, name) ==
  LET targets == {i \in Nodes(g) : g.nodes[i].name = name
                                   /\ g.nodes[i].status # "RETIRED_SOURCE"}
      local == {i \in targets : g.nodes[i].file = p}
      known == IF local # {} THEN local ELSE targets
  IN IF Cardinality(known) = 1 THEN First(known) ELSE 0

\* A refresh makes the edge of a call active again; elsewhere a call by name
\* leads to the first function of that name.
Link(how, g, call) ==
  LET caller == SourceNode(g, call.file, call.caller)
      callee == IF how = "REFRESH" THEN Callee(g, call.file, call.callee)
                ELSE Called(g, call.callee)
      e      == Edge("STATIC_CALLS", caller, callee)
  IN IF callee = 0 \/ (how = "EXPAND" /\ callee = caller) THEN g
     ELSE IF how = "REFRESH" /\ e \in DOMAIN g.edges
       THEN [g EXCEPT !.edges[e].active = TRUE]
     ELSE AddEdge(g, e)
Linked(how, g, calls) == FoldLeft(LAMBDA h, call : Link(how, h, call), g, calls)

CallsOf(p, def) ==
  [j \in DOMAIN Calls[def.span] |->
     [file |-> p, caller |-> def.name, callee |-> Calls[def.span][j]]]

\* A refresh stops at the first new definition that finds no room, the others
\* even at a known one.  Only an expansion links what a definition calls before
\* it reads the next.
ReadNext(how, p, wanted, s, def) ==
  LET full == Room(s.graph) = 0
              /\ (how = "REFRESH" => SourceNode(s.graph, p, def.name) = 0)
      known == ReadDefinition(s.graph, p, def,
                              IF how = "REFRESH" THEN "CURRENT_SOURCE" ELSE "NO_STATUS")
  IN CASE s.full \/ def \notin wanted -> s
       [] ~s.full /\ def \in wanted /\ full ->
            [s EXCEPT !.graph = WithFrontier(@, "SYMBOL_BUDGET"), !.full = TRUE]
       [] OTHER ->
            IF how = "EXPAND"
              THEN [s EXCEPT !.graph = Linked(how, known, CallsOf(p, def))]
            ELSE [s EXCEPT !.graph = known, !.calls = @ \o CallsOf(p, def)]
Reading(how, p, wanted, g, defs) ==
  FoldLeft(LAMBDA s, def : ReadNext(how, p, wanted, s, def),
           [graph |-> g, calls |-> <<>>, full |-> FALSE], defs)

-----------------------------------------------------------------------------
(* Reading a changed file again (refresh_checkpoint_source).                  *)

Affected(g, p) == {i \in Nodes(g) : g.nodes[i].file = p /\ Live(g.nodes[i])}

IsVersion(g, v, i) ==
  g.nodes[v].of = i /\ g.nodes[v].span = g.nodes[i].span

\* The nodes with a version of each text among some nodes, added in some order.
Keep(g, affected) ==
  LET new == SetToSeq({i \in affected : ~\E v \in Nodes(g) : IsVersion(g, v, i)})
  IN [g EXCEPT !.nodes = @ \o [j \in DOMAIN new |->
        [g.nodes[new[j]] EXCEPT !.status = "HISTORICAL_SOURCE", !.of = new[j]]]]

WithRetired(g, affected) ==
  [g EXCEPT !.nodes = [i \in DOMAIN g.nodes |->
     IF i \in affected THEN [g.nodes[i] EXCEPT !.status = "RETIRED_SOURCE"]
     ELSE g.nodes[i]]]

\* A bug to compare with: the observations stay with the node.
RetireInPlace(g, affected) == WithRetired(Keep(g, affected), affected)

\* What was observed on a retired node moves to the version of its text.
Retire(g, affected) ==
  LET kept == Keep(g, affected)
      version(i) == CHOOSE v \in Nodes(kept) : IsVersion(kept, v, i)
  IN [WithRetired(kept, affected) EXCEPT
        !.edges = [e \in DOMAIN g.edges |->
          IF e.kind # "STATIC_CALLS" /\ g.edges[e].to \in affected
            THEN [g.edges[e] EXCEPT !.to = version(g.edges[e].to)]
          ELSE g.edges[e]]]

\* A bug to compare with: only the calls of the file itself are withdrawn.
WithdrawCallers(g, touched) ==
  [g EXCEPT !.edges = [e \in DOMAIN g.edges |->
     IF e.kind = "STATIC_CALLS" /\ e.to \in touched
       THEN [g.edges[e] EXCEPT !.active = FALSE]
     ELSE g.edges[e]]]

Withdraw(g, touched) ==
  [g EXCEPT !.edges = [e \in DOMAIN g.edges |->
     IF e.kind = "STATIC_CALLS" /\ {e.from, e.to} \cap touched # {}
       THEN [g.edges[e] EXCEPT !.active = FALSE]
     ELSE g.edges[e]]]

\* The calls are linked when all that fit are read; the definitions below the
\* first that does not stay retired.
Reread(g, p, content) ==
  LET bare == [Withdraw(Retire(g, Affected(g, p)), Affected(g, p)) EXCEPT
                 !.hash[p] = content]
      read == Reading("REFRESH", p, Range(Defs[content]), bare, Defs[content])
  IN Linked("REFRESH", read.graph, read.calls)

\* A file that is gone, unchanged or does not parse leaves its nodes alone.
RefreshFile(g, t, p) ==
  LET content  == Content[t][p]
      admitted == IF content = Gone THEN g ELSE Admit(g, p)
  IN IF content \in {Gone, Broken, g.hash[p]} \/ p \notin admitted.files
       THEN admitted
     ELSE Reread(admitted, p, content)

Changed(t) == {p \in Files : Content[t][p] # Content[Clean][p] /\ Content[t][p] # Gone}

\* The files of the diff and those read by an earlier refresh.
ToRefresh(g, t) ==
  InOrder({p \in Files : p \in Changed(t) \/ (p \in g.files /\ g.hash[p] # NoHash)})

RefreshAll(g, t, paths) == FoldLeft(LAMBDA h, p : RefreshFile(h, t, p), g, paths)

\* The first k files are read before the deadline.
Refreshed(g, t, k) ==
  LET paths == ToRefresh(g, t)
      read  == RefreshAll(g, t, SubSeq(paths, 1, k))
  IN IF k < Len(paths) THEN WithFrontier(read, "TIME_BUDGET") ELSE read

-----------------------------------------------------------------------------
(* The seed (seed_dynamic_graph).                                             *)

Empty ==
  [files |-> {}, hash |-> [p \in Files |-> NoHash], nodes |-> <<>>,
   edges |-> [e \in {} |-> [to |-> 0, active |-> FALSE]],
   frontiers |-> {}, expansions |-> 0]

\* The definitions the issue asks for, all of them if it names nothing, those
\* they call and those that call them.
Related(content) ==
  LET defs == Range(Defs[content])
      asked == {d \in defs : Wanted = {} \/ d.name \in Wanted}
  IN {d \in defs : \/ d \in asked
                   \/ \E a \in asked : d.name \in Range(Calls[a.span])
                   \/ Range(Calls[d.span]) \cap Wanted # {}}

\* Hinted files come first, then those that define what the issue asks for.
SeedOrder ==
  LET Defining == {p \in Files : Content[Clean][p] \in Contents
                    /\ \E d \in Range(Defs[Content[Clean][p]]) : d.name \in Wanted}
  IN InOrder(Hints) \o InOrder(Defining \ Hints) \o InOrder(Files \ (Defining \cup Hints))

\* Files are read until the graph has as many as it may; a file that is not hinted
\* must define or call what the issue names, and is passed over if it names nothing.
SeedFile(s, p) ==
  LET content == Content[Clean][p]
      known   == Admit(s.graph, p)
      read    == Reading("SEED", p, Related(content), known, Defs[content])
      full    == Cardinality(known.files) >= MaxFiles
  IN IF \/ s.full
        \/ content \in {Gone, Broken}
        \/ p \notin Hints /\ (Wanted = {} \/ Related(content) = {})
       THEN s
     ELSE IF p \notin known.files THEN [s EXCEPT !.graph = known]
     ELSE [graph |-> IF full THEN WithFrontier(read.graph, "FILE_BUDGET") ELSE read.graph,
           calls |-> s.calls \o read.calls, full  |-> full]

\* The first k candidates are read before the deadline; calls are linked last.
Seeded(k) ==
  LET hinted == FoldLeft(Admit, Empty, InOrder(Hints))
      read   == FoldLeft(SeedFile, [graph |-> hinted, calls |-> <<>>, full |-> FALSE],
                         SubSeq(SeedOrder, 1, k))
      whole  == IF k < Len(SeedOrder) /\ ~read.full THEN WithFrontier(read.graph, "TIME_BUDGET")
                ELSE read.graph
  IN Linked("SEED", whole, read.calls)

-----------------------------------------------------------------------------
(* Expansion around a boundary (expand_dynamic_graph_frontier).               *)

\* The names around the boundary: its own, and what it calls in this tree if its
\* definition is still at its line.
Around(g, t, i) ==
  LET node    == g.nodes[i]
      content == Content[t][node.file]
      owners  == IF content \in {Gone, Broken} THEN {}
                 ELSE {d \in Range(Defs[content]) : d.name = node.name
                                                    /\ d.line = node.line}
  IN IF content \in {Gone, Broken} THEN {}
     ELSE {node.name} \cup UNION {Range(Calls[d.span]) : d \in owners}

Unreadable(g, t, i) == Content[t][g.nodes[i].file] \in {Gone, Broken}

\* A function is met by its name or by what it calls.
Meets(d, around) == d.name \in around \/ Range(Calls[d.span]) \cap around # {}

Calling(t, around) ==
  InOrder({p \in Files : Content[t][p] \notin {Gone, Broken}
                         /\ \E d \in Range(Defs[Content[t][p]]) : Meets(d, around)})

\* The text of a known function is replaced; its status and the status of its
\* calls stay.
ExpandFile(t, around, g, p) ==
  LET known == Admit(g, p)
      defs  == Defs[Content[t][p]]
  IN IF p \notin known.files THEN known
     ELSE Reading("EXPAND", p, {d \in Range(defs) : Meets(d, around)}, known, defs).graph

ExpandAll(t, around, g, paths) ==
  FoldLeft(LAMBDA h, p : ExpandFile(t, around, h, p), g, paths)

\* Expansion of tree t around the nodes of the sequence boundary; the deadline
\* passes after the first k of them, or after the first k files found.
Expanded(g, t, boundary, asked, k) ==
  LET around == UNION {Around(g, t, boundary[j]) : j \in 1..asked}
      cut    == asked < Len(boundary) \/ \E j \in 1..asked : Unreadable(g, t, boundary[j])
      met    == IF cut THEN WithFrontier(g, "TIME_BUDGET") ELSE g
      found  == Calling(t, around)
      read   == ExpandAll(t, around, met, SubSeq(found, 1, k))
      whole  == IF k < Len(found) THEN WithFrontier(read, "TIME_BUDGET") ELSE read
  IN CASE g.expansions >= MaxExpansions -> WithFrontier(g, "TIME_BUDGET")
       [] g.expansions < MaxExpansions /\ around = {} -> WithFrontier(met, "SYMBOL_BUDGET")
       [] OTHER -> [whole EXCEPT !.expansions = @ + 1]

-----------------------------------------------------------------------------
(* A failing run (update_graph_from_execution).                               *)

\* The node a traced function is found at, or a new one, whatever the budget.
Traced(g, p, def) ==
  IF Named(g, p, def.name) # 0 THEN g
  ELSE WithNode(g, [file |-> p, name |-> def.name, span |-> NoSpan, line |-> def.line,
                    status |-> "NO_STATUS", of |-> 0])

\* Observation n reaches a function, called from the node caller if not 0.
Seen(g, n, caller, f) ==
  LET known == Traced(g, f.file, f.def)
      here  == Named(known, f.file, f.def.name)
      seen  == AddEdge(known, Edge("TRACE_REACHES", n, here))
  IN IF caller \in {0, here} THEN seen
     ELSE AddEdge(seen, Edge("DYNAMIC_CALLS", caller, here))

\* Observation n of a run through a function and perhaps one that it calls.
Observed(g, n, run) ==
  LET first == Seen(g, n, 0, run[1])
  IN IF Len(run) = 1 THEN first
     ELSE Seen(first, n, Named(first, run[1].file, run[1].def.name), run[2])

Observations(g) == {e.from : e \in {x \in DOMAIN g.edges : x.kind = "TRACE_REACHES"}}

Functions(t) ==
  UNION {{[file |-> p, def |-> d] : d \in Range(Defs[Content[t][p]])} :
         p \in {q \in Files : Content[t][q] \in Contents}}

Runs(t) ==
  {<<f>> : f \in Functions(t)}
  \cup {run \in Functions(t) \X Functions(t) :
           run[2].def.name \in Range(Calls[run[1].def.span])}

-----------------------------------------------------------------------------
(* The loop of the controller.                                                *)

Init ==
  /\ \E k \in 0..Len(SeedOrder) : graph = Seeded(k)
  /\ tree = Clean
  /\ looked = TRUE
  /\ phase = "top"
  /\ \E p0 \in Trees : evaluated = {p0}
  /\ rounds = 0

Refresh(t) ==
  \E k \in 0..Len(ToRefresh(graph, t)) :
    /\ graph' = Refreshed(graph, t, k)
    /\ tree' = t
    /\ looked' = (looked /\ k = Len(ToRefresh(graph, t)))

\* A parent is selected and its source read.
Select ==
  /\ phase = "top" /\ rounds < MaxRounds
  /\ \E t \in evaluated : Refresh(t)
  /\ phase' = "parent"
  /\ rounds' = rounds + 1
  /\ UNCHANGED evaluated

Expand(t, boundary) ==
  \E asked \in 0..Len(boundary) :
    LET found == Calling(t, UNION {Around(graph, t, boundary[j]) : j \in 1..asked})
    IN \E k \in 0..Len(found) : graph' = Expanded(graph, t, boundary, asked, k)

AllNodes == [i \in 1..Min({Len(graph.nodes), 32}) |-> i]

\* EXPAND_GRAPH: the parent's tree around everything known.
ExpandParent ==
  /\ phase = "parent"
  /\ Expand(tree, AllNodes)
  /\ phase' = "top"
  /\ UNCHANGED <<tree, looked, evaluated, rounds>>

\* The active failure of the parent is attached to what it went through.
Observe ==
  /\ phase = "parent"
  /\ Cardinality(Observations(graph)) < MaxObservations
  /\ \E run \in Runs(tree) :
       graph' = Observed(graph, Cardinality(Observations(graph)) + 1, run)
  /\ phase' = "failing"
  /\ UNCHANGED <<tree, looked, evaluated, rounds>>

\* With fewer causal cuts than wanted the clean tree is expanded, around the
\* function of the one cut if there is one.
ExpandClean ==
  /\ phase = "failing"
  /\ \/ Expand(Clean, AllNodes)
     \/ \E i \in Nodes(graph) :
          /\ Live(graph.nodes[i]) /\ graph.nodes[i].span # NoSpan
          /\ Expand(Clean, <<i>>)
  /\ phase' = "cut"
  /\ UNCHANGED <<tree, looked, evaluated, rounds>>

\* The generator's patch: its source is read before the checks of the trial are
\* derived.
DeriveTrial ==
  /\ phase \in {"parent", "failing", "cut"}
  /\ \E t \in Trees \ evaluated :
       /\ Refresh(t)
       /\ evaluated' = evaluated \cup {t}
  /\ phase' = "trial"
  /\ UNCHANGED rounds

\* After its checks the trial is registered and its source read once more.
RegisterTrial ==
  /\ phase = "trial"
  /\ Refresh(tree)
  /\ phase' = "top"
  /\ UNCHANGED <<evaluated, rounds>>

\* The trial is not made, or the iteration ends without one.
Abandon ==
  /\ phase \in {"parent", "failing", "cut"}
  /\ phase' = "top"
  /\ UNCHANGED <<graph, tree, looked, evaluated, rounds>>

Next ==
  \/ Select \/ ExpandParent \/ Observe \/ ExpandClean
  \/ DeriveTrial \/ RegisterTrial \/ Abandon

Spec == Init /\ [][Next]_vars

-----------------------------------------------------------------------------
(* Properties.                                                                *)

Versions == Nodes(graph)
NodeType ==
  [file : Files, name : Names, span : Spans \cup {NoSpan}, line : Nat,
   status : {"NO_STATUS", "CURRENT_SOURCE"} \cup Old, of : Nat]

\* The graph stays well formed and within its budgets: edges lead to nodes that
\* exist, a version belongs to a retired or live node of the same function
\* (add_edge, _admit_file, refresh_checkpoint_source).
TypeOK ==
  /\ graph.files \subseteq Files /\ Cardinality(graph.files) <= MaxFiles
  /\ graph.hash \in [Files -> Contents \cup {NoHash}]
  /\ \A i \in Versions :
       /\ graph.nodes[i] \in NodeType
       /\ LET of == graph.nodes[i].of
          IN of # 0 => of \in 1..(i - 1) /\ graph.nodes[of].name = graph.nodes[i].name
  /\ Cardinality(DOMAIN graph.edges) <= MaxEdges
  /\ \A e \in DOMAIN graph.edges :
       /\ {e.to, graph.edges[e].to} \subseteq Versions
       /\ e.kind # "TRACE_REACHES" => e.from \in Versions
  /\ graph.frontiers \subseteq Reasons
  /\ graph.expansions \in 0..MaxExpansions
  /\ tree \in Trees /\ evaluated \subseteq Trees /\ looked \in BOOLEAN
  /\ phase \in {"top", "parent", "failing", "cut", "trial"}

\* What the definition of a function says in a tree.
TextsIn(t, p, name) ==
  IF Content[t][p] \in {Gone, Broken} THEN {}
  ELSE {d.span : d \in {x \in Range(Defs[Content[t][p]]) : x.name = name}}

IsThere(p) == Content[tree][p] \notin {Gone, Broken}

\* No source of another candidate: while no refresh has run out of time, a live
\* function of a file of the tree has the text it has in this tree, or, read by
\* an expansion, in the clean one.  Backtracking from a rejected sibling must
\* not show the generator that sibling's code.
NoForeignSource ==
  looked => \A i \in Versions :
    LET node == graph.nodes[i]
    IN Live(node) /\ node.span # NoSpan /\ IsThere(node.file)
         => node.span \in TextsIn(tree, node.file, node.name)
                          \cup TextsIn(Clean, node.file, node.name)

\* Nothing of an edited file is missing without a word: each of its functions is
\* live, or the graph has recorded that it had no room for symbols.
EditedFilesAreWhole ==
  looked => \A p \in graph.files :
    IsThere(p) /\ graph.hash[p] # NoHash /\ "SYMBOL_BUDGET" \notin graph.frontiers =>
      \A d \in Range(Defs[Content[tree][p]]) :
        \E i \in Versions : /\ Live(graph.nodes[i])
                            /\ graph.nodes[i].file = p /\ graph.nodes[i].name = d.name
                            /\ graph.nodes[i].span # NoSpan

\* No stale dependency: an active call between live functions is made by the
\* caller's text in this tree or in the clean one.
CallsAreOfThisTree ==
  looked => \A e \in DOMAIN graph.edges :
    LET caller == graph.nodes[e.from]
        callee == graph.nodes[e.to]
    IN e.kind = "STATIC_CALLS" /\ graph.edges[e].active
       /\ Live(caller) /\ Live(callee) /\ IsThere(caller.file) /\ IsThere(callee.file)
       => \E s \in TextsIn(tree, caller.file, caller.name)
                   \cup TextsIn(Clean, caller.file, caller.name) :
            callee.name \in Range(Calls[s])

\* What was observed on a live function or on an old version keeps its text:
\* no refresh, after an edit or after backtracking, and no execution moves an
\* observation to source it was not made on.  Only an expansion swaps a text in
\* place, for the one of the tree at hand or of the clean tree.
Kept(e) ==
  LET before == graph.nodes[graph.edges[e].to]
      after  == graph'.nodes[graph'.edges[e].to]
  IN e.kind # "STATIC_CALLS" /\ before.status # "RETIRED_SOURCE" =>
       \/ after.span = before.span
       \/ /\ graph'.expansions > graph.expansions
          /\ after.span \in TextsIn(tree, after.file, after.name)
                             \cup TextsIn(Clean, after.file, after.name)
EvidenceKeepsItsSource == [][\A e \in DOMAIN graph.edges : Kept(e)]_vars

\* The live source layer is the source of the tree at hand: nothing foreign,
\* nothing missing without a word, no call it does not make.
SourceIsOfThisTree == TypeOK /\ NoForeignSource /\ EditedFilesAreWhole /\ CallsAreOfThisTree
=============================================================================
