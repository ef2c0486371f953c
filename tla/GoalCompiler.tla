----------------------------- MODULE GoalCompiler -----------------------------
(***************************************************************************)
(* Compilation of an issue to goals (requirement_graph/compiler.py and     *)
(* facets.py): up to three calls of the model through the budget of the    *)
(* case, the validation of what it submits, the deterministic fallback,    *)
(* and the merging of goals from the model, the issue, its scripts and the *)
(* public checks.                                                          *)
(*                                                                         *)
(* Compilation is the first thing a case spends its budget on, so this     *)
(* module is the case budget with the compiler in front of it.  An issue   *)
(* is its lines as IssueText reads them, with the hints from the source,   *)
(* the scripts found in the issue and the public checks.                   *)
(***************************************************************************)
EXTENDS CaseBudget, IssueText

CONSTANTS
  Issues,      \* [title, lines, hints, examples, scripts, checks] a case may be about
  Answers,     \* lists of items the model may submit
  Expecting,   \* quotes of the issue that state expected behaviour
  Narrating,   \* quotes that are examples, traces or code
  Words,       \* name or quote -> the words in it
  Weight,      \* operation -> how private or dotted it is
  FacetsIn     \* quote -> the facets it spells out, with the kinds of goals they add to

\* The words that make a quote one of expected behaviour are also what the fallback
\* looks for in the lines of the report, and what is looked for in the lines above
\* a script.
ASSUME QuotesAreRead ==
  \A i \in Issues :
    /\ i.lines \in Seq(ToSet(i.lines)) /\ i.scripts \in Seq(ToSet(i.scripts))
    /\ i.checks \in Seq(ToSet(i.checks))
    /\ \A line \in ToSet(i.lines) :
         line.normative /\ line.quote \in Quotable(i.lines) => line.quote \in Expecting
    /\ \A s \in ToSet(i.scripts) : s.trusted => s.spans \subseteq Expecting

ASSUME AnswersAreLists ==
  \A answer \in Answers :
    answer \in Seq(ToSet(answer)) /\ \A item \in ToSet(answer) : item.hard \in BOOLEAN

\* Comparators a goal can be run with as it stands.
Executable == {"EXIT_ZERO", "NOT_RAISES", "EQUALS", "RAISES"}

MaxAttempts == 3
MaxMalformed == 2

VARIABLES
  issue,
  step,       \* "ask", "called" or "compiled"
  attempt,    \* calls of the model that are over
  malformed,  \* those without a readable answer
  parsed,     \* some answer was readable
  direct,     \* the goals of the answer that was accepted, or the marker
  goals       \* the goals of the case

compilerVars == <<issue, step, attempt, malformed, parsed, direct, goals>>
budgetVars == vars
allVars == <<compilerVars, budgetVars>>

-----------------------------------------------------------------------------
(* What a goal is made of.                                                   *)

Goal(op, symbols, oracle, spans, trusted, hard, from) ==
  [op |-> op, symbols |-> symbols, oracle |-> oracle, spans |-> spans,
   trusted |-> trusted, hard |-> hard, from |-> from, facet |-> FALSE]

UnresolvedGoal == Goal(Unresolved, {}, NoOracle, {}, FALSE, FALSE, "model")

\* The quoted text is normative and nothing in it is narration.
StatesExpectation(spans) == spans \cap Expecting # {} /\ spans \cap Narrating = {}

\* A bug to compare with: authority and symbols alone make a hard target.
IsFaultyWithoutText(item) ==
  \/ ~item.complete \/ item.misquoted
  \/ item.hard /\ (~item.trusted \/ item.symbols = {} \/ ~item.supported)

\* The validation of one submitted item: supported stands for the symbols and
\* the operation being found in the quotes, the hints or the public checks.
IsFaulty(item) ==
  \/ ~item.complete \/ item.misquoted
  \/ item.hard /\ (\/ item.spans = {} \/ ~StatesExpectation(item.spans)
                   \/ ~item.trusted \/ item.symbols = {} \/ ~item.supported)
  \/ item.op = Unresolved /\ (item.hard \/ item.symbols # {} \/ ~item.reasoned)

Accepted(answer) == answer # <<>> /\ \A i \in DOMAIN answer : ~IsFaulty(answer[i])

GoalsOfAnswer(answer) ==
  [i \in DOMAIN answer |->
     LET item == answer[i]
     IN Goal(item.op, item.symbols, item.oracle, item.spans, item.trusted, item.hard, "model")]

\* _goal_from_claim, for a claim of the fallback.
GoalOfClaim(claim) ==
  LET demanded == claim.role \in {"TARGET", "EXCEPTION", "COMPATIBILITY"}
  IN Goal(claim.op, {claim.op}, claim.oracle, claim.spans, claim.spans # {},
          demanded /\ claim.spans # {} /\ claim.op # Unresolved, "claim")

IsGoal(claim) == claim.role \in {"TARGET", "EXCEPTION", "COMPATIBILITY"} \/ claim.op = Unresolved

AddClaim(gs, claim) == IF IsGoal(claim) THEN Append(gs, GoalOfClaim(claim)) ELSE gs

GoalOfScript(script) ==
  Goal(script.op, {script.op}, script.oracle, script.spans, TRUE, script.spans # {}, "script")

GoalOfCheck(check) ==
  Goal(check.name, check.symbols, check.oracle, {}, check.trusted, TRUE, "check")

Grounded(g) == g.op # Unresolved /\ g.hard

Some(gs, Holds(_)) == \E i \in DOMAIN gs : Holds(gs[i])

-----------------------------------------------------------------------------
(* compile_goal_contracts: from the answer of the model to the goals.        *)

\* The fallback joins in when the model names no grounded goal.
WithFallback(answered, claims) ==
  IF Some(answered, Grounded) THEN answered ELSE FoldLeft(AddClaim, answered, claims)

\* A trusted script adds its operation unless an executable goal has it.
AddScript(gs, script) ==
  LET Has(g) == g.op = script.op /\ g.oracle.kind \in Executable
  IN IF ~script.trusted \/ Some(gs, Has) THEN gs
     ELSE Append(gs, GoalOfScript(script))

\* A public check adds itself unless it names a symbol of a grounded goal.
AddCheck(gs, check) ==
  LET Names(g) == Grounded(g) /\ g.symbols \cap check.symbols # {}
  IN IF ~check.target \/ Some(gs, Names) THEN gs
     ELSE Append(gs, GoalOfCheck(check))

\* The markers go as soon as anything else has a name.
IsNamed(g) == g.op # Unresolved
AddNamed(gs, g) == IF IsNamed(g) THEN Append(gs, g) ELSE gs

WithoutMarkers(gs) == IF Some(gs, IsNamed) THEN FoldLeft(AddNamed, <<>>, gs) ELSE gs

Terms(g) == UNION {Words[x] : x \in {g.op} \cup g.symbols \cup g.spans}

\* The same oracle, and the same operation or a fifth of the words in common.
Alike(g, h) ==
  /\ g.op # Unresolved /\ h.op # Unresolved /\ g.oracle = h.oracle
  /\ \/ g.op = h.op
     \/ 5 * Cardinality(Terms(g) \cap Terms(h)) >= Cardinality(Terms(g) \cup Terms(h))

\* A private or dotted name first, then a hard goal; the alphabet, which decides
\* the rest, is left to the weights.
Preferred(g, h) ==
  IF Weight[g.op] > Weight[h.op] \/ (Weight[g.op] = Weight[h.op] /\ g.hard /\ ~h.hard) THEN g ELSE h

\* A bug to compare with: the goal that is not preferred is dropped whole.
MergedByPreference(g, h) == Preferred(g, h)

Merged(g, h) == [Preferred(g, h) EXCEPT !.spans = g.spans \cup h.spans]

\* _deduplicate_redundant_goals, one goal at a time.
Insert(gs, g) ==
  LET alike == {i \in DOMAIN gs : Alike(gs[i], g)}
  IN IF alike = {} THEN Append(gs, g)
     ELSE [gs EXCEPT ![Least(alike)] = Merged(g, @)]

\* decompose_required_facets: a hard goal with quotes brings the facets they spell.
FacetsOf(g) ==
  IF g.hard /\ g.spans # {}
    THEN {[g EXCEPT !.oracle = f.oracle, !.facet = TRUE] :
            f \in {e \in UNION {FacetsIn[q] : q \in g.spans} : g.oracle.kind \in e.of}}
    ELSE {}

Collected(answered) ==
  FoldLeft(AddCheck, FoldLeft(AddScript, WithFallback(answered, Claims(issue)), issue.scripts),
           issue.checks)

Compiled(answered) ==
  LET merged == ToSet(FoldLeft(Insert, <<>>, WithoutMarkers(Collected(answered))))
  IN merged \cup UNION {FacetsOf(g) : g \in merged}

-----------------------------------------------------------------------------
(* The calls of the model.                                                   *)

CompilerInit ==
  /\ Init
  /\ issue \in Issues
  /\ step = "ask" /\ attempt = 0 /\ malformed = 0 /\ parsed = FALSE
  /\ direct = <<>> /\ goals = {}

Compile(answered) ==
  /\ step' = "compiled" /\ attempt' = 0 /\ malformed' = 0
  /\ direct' = answered /\ goals' = Compiled(answered)

\* After the last attempt, or the second malformed one, an answer that could at
\* least be read leaves a marker; otherwise the fallback has the issue to itself.
NextAttempt(tried, unreadable, readable) ==
  IF tried = MaxAttempts \/ unreadable = MaxMalformed
    THEN Compile(IF readable THEN <<UnresolvedGoal>> ELSE <<>>)
    ELSE /\ step' = "ask" /\ attempt' = tried /\ malformed' = unreadable
         /\ UNCHANGED <<direct, goals>>

\* No call, a failed one, no tool call in the answer, or arguments that are not an
\* object: all exceptions are the same to the compiler, an exhausted budget too.
Unreadable ==
  /\ NextAttempt(attempt + 1, malformed + 1, parsed)
  /\ UNCHANGED <<issue, parsed>>

CompileOffline ==
  /\ step = "ask" /\ attempt = 0 /\ Ready
  /\ Compile(<<>>)
  /\ UNCHANGED <<issue, parsed, budgetVars>>

Ask ==
  /\ step = "ask"
  /\ \E input \in Inputs, limit \in OutputLimits, timeout \in Timeouts :
       StartModelCall(input, limit, timeout)
  /\ step' = "called"
  /\ UNCHANGED <<issue, attempt, malformed, parsed, direct, goals>>

AskInVain ==
  /\ step = "ask"
  /\ \E input \in Inputs, limit \in OutputLimits : RefuseModelCall("goal_compiler", input, limit)
  /\ Unreadable

UnreadableAnswer ==
  /\ step = "called" /\ (ModelCallEnds \/ ModelCallFails)
  /\ Unreadable

\* One faulty item, and the whole answer is sent back with the errors.
ReadableAnswer ==
  /\ step = "called" /\ ModelCallEnds
  /\ \E answer \in Answers :
       IF Accepted(answer) THEN Compile(GoalsOfAnswer(answer))
                           ELSE NextAttempt(attempt + 1, malformed, TRUE)
  /\ parsed' = TRUE
  /\ UNCHANGED issue

TimePasses == Tick /\ UNCHANGED compilerVars

\* With its goals compiled the case spends what is left of the budget.
RestOfCase == step = "compiled" /\ Next /\ UNCHANGED compilerVars

CompilerNext ==
  \/ CompileOffline \/ Ask \/ AskInVain \/ UnreadableAnswer \/ ReadableAnswer
  \/ TimePasses \/ RestOfCase

CompilerSpec == CompilerInit /\ [][CompilerNext]_allVars

-----------------------------------------------------------------------------
(* Properties.                                                               *)

TypeOKCompiler ==
  /\ issue \in Issues /\ step \in {"ask", "called", "compiled"}
  /\ attempt \in 0 .. MaxAttempts - 1 /\ malformed \in 0 .. MaxMalformed - 1
  /\ parsed \in BOOLEAN
  /\ \A g \in goals : g.hard \in BOOLEAN /\ g.from \in {"model", "claim", "script", "check"}

\* Whoever named it, and whatever it was merged with, a goal the patch must reach
\* is asked for by a quote of the issue that states expected behaviour, with the
\* authority of the issue, or by a public check that is to pass: not by the model
\* alone, nor by an example, a trace or a script that happens to run.
HardGoalsAreGrounded ==
  \A g \in goals : g.hard => g.from = "check" \/ (g.trusted /\ g.spans \cap Expecting # {})

\* The fallback quotes no line of a fence, of the steps to reproduce or of the
\* discussion below the report, in whatever order the sections come.
ClaimsAreOfTheReport ==
  \A i \in DOMAIN Claims(issue) : Claims(issue)[i].spans \subseteq Quotable(issue.lines)

SpansOf(gs) == UNION {g.spans : g \in gs}

\* Merging goals that say the same loses no quote of the issue, and a readable
\* answer of the model, however often it was faulty, leaves the case with a goal.
ProvenanceIsKept ==
  step = "compiled" =>
    /\ SpansOf(ToSet(WithoutMarkers(Collected(direct)))) = SpansOf(goals)
    /\ parsed => goals # {}

\* Every hard goal goes back to a sentence of the report that may be quoted, or
\* to a public check.
GoalsAreGrounded == TypeOKCompiler /\ HardGoalsAreGrounded /\ ClaimsAreOfTheReport
=============================================================================
