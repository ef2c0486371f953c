-------------------------- MODULE MechanicalChecks --------------------------
(***************************************************************************)
(* run_mechanical_checks (execution/mechanical.py) on the difference of a  *)
(* tree from the clean one: forbidden paths, syntax, changes without       *)
(* effect, names introduced without a binding, public definitions taken    *)
(* away.  The commands it can run and the oracle paths are left out: the   *)
(* controller passes none.                                                 *)
(*                                                                         *)
(* A line of a Python file stands for a statement of its module; Code      *)
(* gives what the analysis reads of it, and for every name it loads the    *)
(* scopes around the use, the outermost first.                             *)
(***************************************************************************)
EXTENDS Worktree

CONSTANTS
  Code,          \* line -> [parses, ast, binds, exports, star, defines, uses]
  PythonPaths,   \* paths of Python files
  Forbidden,     \* paths below tests/, artifacts/, generated/
  Builtins

LinesOf(file) == ToSet(file.lines)
Parses(file) == \A line \in LinesOf(file) : Code[line].parses

\* ast.dump: comments and blank lines leave nothing.
Ast(file) ==
  SelectSeq([i \in DOMAIN file.lines |-> Code[file.lines[i]].ast], LAMBDA ast : ast # "none")

ModuleBindings(file) == UNION {Code[line].binds : line \in LinesOf(file)}
StarImport(file) == \E line \in LinesOf(file) : Code[line].star
Uses(lines) == UNION {Code[line].uses : line \in lines}
OriginalLoads(file) == {use.name : use \in Uses(LinesOf(file))}
Added(old, new) == LinesOf(new) \ LinesOf(old)

\* The names the visitor takes to be bound by a scope: the parameters of a
\* function but not those of a lambda, and no name a pattern captures.
Bindings(scope) == scope.assigned \cup (IF scope.kind = "def" THEN scope.params ELSE {})

\* The first scope from outside that declares the name global or binds it decides.
IsBound(use, file) ==
  LET Settles(i) ==
        \/ use.name \in use.scopes[i].globals
        \/ use.name \in Bindings(use.scopes[i]) \ use.scopes[i].nonlocals
      settling == {i \in DOMAIN use.scopes : Settles(i)}
      outermost == CHOOSE i \in settling : \A j \in settling : i <= j
  IN IF settling # {} /\ use.name \notin use.scopes[outermost].globals THEN TRUE
     ELSE use.name \in ModuleBindings(file)

IntroducedUndefined(old, new) ==
  {use \in Uses(Added(old, new)) :
     use.name \notin Builtins \cup OriginalLoads(old) /\ ~IsBound(use, new)}

Reason(kind) == [kind |-> kind]

\* A changed Python file is parsed; it is compared only if both sides parse.
FileReasons(path, old, new) ==
  IF path \notin PythonPaths \/ ~new.there THEN {}
  ELSE IF ~Parses(new) THEN {[kind |-> "syntax_error", path |-> path]}
  ELSE IF ~old.there \/ ~Parses(old) THEN {}
  ELSE (IF Ast(old) = Ast(new) THEN {[kind |-> "no_AST_change", path |-> path]} ELSE {})
       \cup {[kind |-> "undefined_name", path |-> path, use |-> use] :
               use \in IF StarImport(new) THEN {} ELSE IntroducedUndefined(old, new)}

Defines(lines) == UNION {Code[line].defines : line \in lines}

\* What the hunks of a file take away for good; a line that only moves is among the
\* removed and the added ones.
Occurrences(line, file) == Cardinality({i \in DOMAIN file.lines : file.lines[i] = line})
Removed(old, new) == {line \in LinesOf(old) : Occurrences(line, new) < Occurrences(line, old)}

\* Mutant: deleted files are passed over.
RemovedFromFiles(diff) ==
  UNION {Defines(Removed(diff[p].old, diff[p].new)) : p \in {q \in DOMAIN diff : diff[q].new.there}}

RemovedPublic(diff) == UNION {Defines(Removed(diff[p].old, diff[p].new)) : p \in DOMAIN diff}
AddedPublic(diff) == UNION {Defines(Removed(diff[p].new, diff[p].old)) : p \in DOMAIN diff}

\* The reasons for which a tree is refused; it passes without any.
MechanicalReasons(diff) ==
  (UNION {FileReasons(p, diff[p].old, diff[p].new) : p \in DOMAIN diff})
  \cup (IF DOMAIN diff \cap Forbidden # {} THEN {Reason("forbidden_edit")} ELSE {})
  \cup (IF RemovedPublic(diff) \ AddedPublic(diff) # {} THEN {Reason("public_definition_deleted")}
        ELSE {})

-----------------------------------------------------------------------------
(* The rules of Python, for comparison.                                     *)

Locals(scope) ==
  (scope.assigned \cup scope.params \cup scope.captured) \ (scope.globals \cup scope.nonlocals)

\* A name is looked up from the inside, past the classes around a function, and
\* last among the names of the module, where functions may assign globals too.
BoundInPython(use, file) ==
  LET Decides(i) ==
        /\ use.scopes[i].kind # "class" \/ i = Len(use.scopes)
        /\ use.name \in Locals(use.scopes[i]) \cup use.scopes[i].globals
      deciding == {i \in DOMAIN use.scopes : Decides(i)}
      innermost == CHOOSE i \in deciding : \A j \in deciding : i >= j
  IN IF deciding # {} /\ use.name \notin use.scopes[innermost].globals THEN TRUE
     ELSE use.name \in ModuleBindings(file)
                        \cup UNION {Code[line].exports : line \in LinesOf(file)}
=============================================================================
