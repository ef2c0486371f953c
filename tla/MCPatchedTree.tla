---------------------------- MODULE MCPatchedTree ----------------------------
(***************************************************************************)
(* A small instance of PatchedTree: two Python files, one that may be      *)
(* added and one below an excluded directory, and responses that change,   *)
(* add and delete them.                                                    *)
(***************************************************************************)
EXTENDS PatchedTree

Order == <<"a.py", "b.py", "build/g.py", "n.py">>
Python == {"a.py", "b.py", "build/g.py", "n.py"}

Scope(kind, params, assigned) ==
  [kind |-> kind, params |-> params, assigned |-> assigned, captured |-> {}, globals |-> {},
   nonlocals |-> {}]
Use(name, scopes) == [name |-> name, scopes |-> scopes]

Statement(ast, binds, defines, uses) ==
  [parses |-> TRUE, ast |-> ast, binds |-> binds, exports |-> {}, star |-> FALSE,
   defines |-> defines, uses |-> uses]

Statements ==
  [ blank    |-> Statement("none", {}, {}, {}),
    comment  |-> Statement("none", {}, {}, {}),
    broken   |-> [Statement("broken", {}, {}, {}) EXCEPT !.parses = FALSE],
    import   |-> Statement("import", {"helper"}, {}, {}),
    star     |-> [Statement("star", {}, {}, {}) EXCEPT !.star = TRUE],
    \* def f(p): return p
    f        |-> Statement("f", {"f"}, {"f"}, {Use("p", <<Scope("def", {"p"}, {})>>)}),
    \* def f(p): return helper(p)
    f_helper |-> Statement("f_helper", {"f"}, {"f"},
                   {Use("p", <<Scope("def", {"p"}, {})>>),
                    Use("helper", <<Scope("def", {"p"}, {})>>)}),
    \* f(key=lambda q: q)
    lambda   |-> Statement("lambda", {}, {},
                   {Use("f", <<>>), Use("q", <<Scope("lambda", {"q"}, {})>>)}),
    \* class C: k = 1; def m(self): return k
    class    |-> Statement("class", {"C"}, {"C"},
                   {Use("k", <<Scope("class", {}, {"k", "m"}), Scope("def", {"self"}, {})>>)}),
    \* def g(): global z; z = 1; return [i for i in z]
    g        |-> [Statement("g", {"g"}, {"g"},
                   LET def == [Scope("def", {}, {"z"}) EXCEPT !.globals = {"z"}]
                   IN {Use("z", <<def>>), Use("i", <<def, Scope("comp", {}, {"i"})>>)})
                  EXCEPT !.exports = {"z"}],
    \* def h(): return z
    h        |-> Statement("h", {"h"}, {"h"}, {Use("z", <<Scope("def", {}, {})>>)}),
    \* def o(): u = 1; def w(): nonlocal u; return u
    o        |-> Statement("o", {"o"}, {"o"},
                   {Use("u", <<Scope("def", {}, {"u", "w"}),
                               [Scope("def", {}, {}) EXCEPT !.nonlocals = {"u"}]>>)}),
    \* match f: case [c]: c
    match    |-> Statement("match", {}, {},
                   {Use("c", <<[Scope("def", {}, {}) EXCEPT !.captured = {"c"}]>>)}) ]

Nothing == [p \in Paths |-> Absent]

CleanTrees ==
  { [Nothing EXCEPT !["a.py"] = File(<<"f", "blank">>, TRUE), !["b.py"] = File(<<"h">>, TRUE),
                    !["n.py"] = Empty],
    [Nothing EXCEPT !["b.py"] = File(<<"import", "f_helper">>, FALSE)] }

Update(path, old, new) ==
  [op |-> "Update", path |-> path, hunks |-> <<[old |-> <<old>>, new |-> new]>>]
Add(path, lines) == [op |-> "Add", path |-> path, lines |-> lines]
Delete(path) == [op |-> "Delete", path |-> path]

Responses ==
  { <<Update("a.py", "blank", <<"lambda", "match">>)>>,
    <<Update("a.py", "f_helper", <<"f">>), Add("build/g.py", <<"g">>)>>,
    <<Update("a.py", "f", <<"f", "class">>), Update("b.py", "h", <<"g", "h">>)>>,
    <<Update("b.py", "import", <<"o", "import">>)>>,
    <<Update("a.py", "f", <<"f_helper">>), Delete("n.py")>>,
    <<Update("b.py", "h", <<>>)>>,
    <<Update("b.py", "import", <<"star">>), Add("n.py", <<"h">>)>>,
    <<[op |-> "Update", path |-> "b.py",
       hunks |-> <<[old |-> <<"import">>, new |-> <<"comment">>],
                   [old |-> <<"f_helper">>, new |-> <<"f_helper", "broken">>]>>]>>,
    <<Delete("b.py")>>,
    <<Delete("b.py"), Add("n.py", <<"f_helper">>)>>,
    <<Add("a.py", <<"f">>), Delete("b.py")>> }
=============================================================================
