------------------------------ MODULE IssueText ------------------------------
(***************************************************************************)
(* The deterministic reading of an issue (requirement_graph/compiler.py,   *)
(* _fallback and _fallback_symbol): one pass over the lines of the report  *)
(* that keeps track of fences, reproduction steps and the expected section *)
(* and makes a claim of each line that states expected behaviour.          *)
(*                                                                         *)
(* A line is a record of what the patterns find in it:                     *)
(*   label      its heading or opening words, "prose" for none             *)
(*   indented   it starts with a blank                                     *)
(*   source     it reads as code or as a traceback                         *)
(*   normative  its text, without illustrations, says must, returns, ...   *)
(*   quoted     names in backticks or followed by a parenthesis            *)
(*   following  it says "the following"                                    *)
(*   subject    names before must or should                                *)
(*   phrase     names after call to, method, class, ...                    *)
(*   loose      dotted and capitalised names                               *)
(*   near       hints that share words with it, most first                 *)
(*   words      the words of the line                                      *)
(*   value      the value it says is returned, "none" for none             *)
(*   oracle     the comparator its verbs suggest                           *)
(*   preserves  it says preserve, remain or continue                       *)
(***************************************************************************)
EXTENDS Naturals, Sequences, SequencesExt, FiniteSets, FiniteSetsExt

CONSTANT Usable  \* names that are neither generic words nor exceptions

Unresolved == "UNRESOLVED_TARGET"

NoOracle == [kind |-> "RELATION_HOLDS", value |-> "none"]

-----------------------------------------------------------------------------
(* The operation a line is about.                                            *)

FirstUsable(names) ==
  LET usable == SelectSeq(names, LAMBDA n : n \in Usable)
  IN IF usable = <<>> THEN Unresolved ELSE usable[1]

\* What the line names itself comes before what can be guessed for it: the only
\* script of the issue, a hint whose symbol occurs in the line, any script.
SymbolOf(line, witnesses, hints) ==
  LET only == IF Len(witnesses) = 1 THEN witnesses ELSE <<>>
  IN IF line.source THEN Unresolved
     ELSE FirstUsable(line.quoted \o (IF line.following THEN only ELSE <<>>) \o line.subject
                      \o SelectSeq(hints, LAMBDA n : n \in line.words)
                      \o line.phrase \o only \o line.loose \o line.near \o witnesses)

\* Under the expected heading the operation of the title stands in for a line
\* that does not name its own.
OperationOf(line, expected, title, witnesses, hints) ==
  LET symbol == SymbolOf(line, witnesses, hints)
  IN IF /\ expected /\ title # Unresolved
        /\ symbol = Unresolved \/ (line.quoted = <<>> /\ line.subject = <<>>)
       THEN title ELSE symbol

-----------------------------------------------------------------------------
(* One line.                                                                 *)

OracleOf(line, op, scripts, hints) ==
  LET runs == SelectSeq(scripts, LAMBDA s : s.op = op)
  IN CASE op = Unresolved -> NoOracle
       [] line.value # "none" -> [kind |-> "EQUALS", value |-> line.value]
       [] line.value = "none" /\ runs # <<>> /\ Last(runs).oracle.kind \in {"EXIT_ZERO", "CONTAINS"}
            -> Last(runs).oracle
       [] OTHER -> IF line.oracle = NoOracle /\ hints # <<>>
                     THEN [NoOracle EXCEPT !.value = "true"] ELSE line.oracle

ClaimOf(line, op, scripts, hints) ==
  [role |-> IF line.preserves THEN "PRESERVATION" ELSE "TARGET", op |-> op,
   oracle |-> OracleOf(line, op, scripts, hints), spans |-> {line.quote}]

\* Which sections a line leaves the scan in.  A fence hides a line from nothing
\* but the claims: headings inside it count.
Sections(scan, line) ==
  [scan EXCEPT
     !.fence = IF line.label = "fence" THEN ~@ ELSE @,
     !.steps = (@ /\ line.label \notin {"expected", "expects", "actual"}) \/ line.label = "steps",
     !.expected = (@ /\ line.label \notin {"actual", "notes"}) \/ line.label \in {"expected", "expects"}]

\* expected is the bare heading, expects the heading with the text behind it,
\* ours a line that starts with I or we; a line of chat is passed over.
Speaks(scan, line) ==
  /\ line.label \in {"prose", "ours", "expects", "notes"} /\ line.normative
  /\ ~line.indented \/ line.label = "expects"
  /\ ~scan.fence /\ (~scan.steps \/ line.label = "expects")

Scanned(issue, witnesses, scan, line) ==
  LET next == Sections(scan, line)
      op == OperationOf(line, next.expected, issue.title, witnesses, issue.hints)
  IN IF Speaks(next, line) /\ (op = Unresolved => ~next.expected /\ line.label # "ours")
       THEN [next EXCEPT !.claims = Append(@, ClaimOf(line, op, issue.scripts, issue.hints))]
       ELSE next

\* The report ends where the discussion starts.
Body(lines) ==
  LET talk == {i \in DOMAIN lines : lines[i].label = "discussion"}
  IN IF talk = {} THEN lines ELSE SubSeq(lines, 1, Min(talk) - 1)

NothingRead == [fence |-> FALSE, steps |-> FALSE, expected |-> FALSE, claims |-> <<>>]

MarkerClaim == [role |-> "CONTEXT", op |-> Unresolved, oracle |-> NoOracle, spans |-> {}]

\* The scripts of the issue are its witnesses, else the calls given as examples.
Witnesses(issue) ==
  IF issue.scripts = <<>> THEN issue.examples
                          ELSE [i \in DOMAIN issue.scripts |-> issue.scripts[i].op]

Claims(issue) ==
  LET Read(scan, line) == Scanned(issue, Witnesses(issue), scan, line)
      claims == FoldLeft(Read, NothingRead, Body(issue.lines)).claims
  IN IF claims = <<>> THEN <<MarkerClaim>> ELSE claims

-----------------------------------------------------------------------------
(* The report without a scan: what may be quoted, line by line.              *)

LatestOf(lines, i, labels) == Max({0} \cup {j \in 1 .. i : lines[j].label \in labels})

Fenced(lines, i) == Cardinality({j \in 1 .. i : lines[j].label = "fence"}) % 2 = 1

InSteps(lines, i) ==
  LatestOf(lines, i, {"steps"}) > LatestOf(lines, i, {"expected", "expects", "actual"})

Quotable(lines) ==
  {lines[i].quote : i \in {j \in DOMAIN lines :
     /\ ~Fenced(lines, j) /\ ~InSteps(lines, j)
     /\ LatestOf(lines, j, {"discussion"}) = 0}}
=============================================================================
