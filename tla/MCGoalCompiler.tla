--------------------------- MODULE MCGoalCompiler ---------------------------
(* An issue with one line of expected behaviour and one example, about one    *)
(* function under its plain and its dotted name.                              *)
EXTENDS GoalCompiler

ExitZero == [kind |-> "EXIT_ZERO", value |-> "0"]
Equals3 == [kind |-> "EQUALS", value |-> "3"]

Line(label, names, quote) ==
  [label |-> label, quote |-> quote, normative |-> names # <<>>, indented |-> FALSE,
   source |-> FALSE, quoted |-> names, following |-> FALSE, subject |-> <<>>, phrase |-> <<>>,
   loose |-> <<>>, near |-> <<>>, words |-> {}, value |-> "3", oracle |-> NoOracle,
   preserves |-> FALSE]

Heading(label) == Line(label, <<>>, "heading")
Script(op, spans, trusted) == [op |-> op, oracle |-> ExitZero, spans |-> spans, trusted |-> trusted]
Check(name, symbols, target) ==
  [name |-> name, symbols |-> symbols, oracle |-> ExitZero, trusted |-> TRUE, target |-> target]
Item(op, spans, hard) ==
  [op |-> op, symbols |-> IF op = Unresolved THEN {} ELSE {op}, oracle |-> Equals3,
   spans |-> spans, hard |-> hard, trusted |-> hard, complete |-> TRUE, misquoted |-> FALSE,
   supported |-> TRUE, reasoned |-> TRUE]

\* A report in order, one that says little, and one whose only line of expected
\* behaviour comes after steps and a fence, under a title that names the function.
MCIssues == {
  [title |-> Unresolved, hints |-> <<>>, examples |-> <<>>, scripts |-> <<>>, checks |-> <<>>,
   lines |-> <<Line("prose", <<"parse">>, "line"), Heading("fence"),
               Line("prose", <<"parse">>, "example"), Heading("fence"), Heading("discussion"),
               Line("prose", <<"main">>, "comment")>>],
  [title |-> Unresolved, hints |-> <<"parse">>, examples |-> <<>>,
   lines |-> <<[Line("prose", <<"main">>, "line") EXCEPT !.preserves = TRUE]>>,
   scripts |-> <<Script("Parser.parse", {}, TRUE), Script("main", {"line"}, FALSE)>>,
   checks |-> <<Check("test", {"parse"}, TRUE)>>],
  [title |-> "parse", hints |-> <<>>, examples |-> <<>>,
   lines |-> <<Heading("steps"), Heading("prose"), Line("prose", <<"main">>, "example"),
               Heading("expected"),
               [Line("prose", <<>>, "line") EXCEPT !.normative = TRUE, !.source = TRUE]>>,
   scripts |-> <<Script("main", {"line"}, TRUE)>>,
   checks |-> <<Check("test", {"main"}, TRUE), Check("smoke", {"parse"}, FALSE)>>]}

MCAnswers == {
  <<>>,
  <<Item("parse", {"line"}, TRUE)>>,
  <<Item("parse", {"line"}, TRUE), Item("Parser.parse", {}, FALSE)>>,
  <<Item("Parser.parse", {"example"}, FALSE)>>,
  <<Item("parse", {"line", "example"}, TRUE)>>,
  <<Item("parse", {"example"}, TRUE)>>,
  <<Item(Unresolved, {}, FALSE)>>,
  <<[Item("parse", {"line"}, TRUE) EXCEPT !.misquoted = TRUE], Item("main", {"line"}, TRUE)>>}

MCWords == [x \in {"parse", "Parser.parse", "main", "test", "smoke", "line", "example"} |->
  CASE x = "Parser.parse" -> {"parser", "parse"}
    [] x = "line" -> {"parse", "three"}
    [] OTHER -> {x}]

MCWeight == [x \in {"parse", "Parser.parse", "main", "test", "smoke"} |->
  IF x = "Parser.parse" THEN 2 ELSE 0]

MCFacetsIn == [q \in {"line", "example"} |->
  IF q = "line" THEN {[oracle |-> ExitZero, of |-> {"EQUALS", "RELATION_HOLDS"}]} ELSE {}]
=============================================================================
