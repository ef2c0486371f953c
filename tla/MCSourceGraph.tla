---------------------------- MODULE MCSourceGraph ----------------------------
(* Three files, of which one is new in a patch; one patch edits a function and *)
(* drops another, one moves it to another file, one does not parse.            *)
EXTENDS SourceGraph, TLC

CONSTANTS clean, edit, move, broken

MCPaths == <<"f", "g", "n">>
MCNames == {"h", "k", "m"}
MCTrees == {clean, edit, move, broken}
MCContent ==
  clean  :> ("f" :> "f0" @@ "g" :> "g0" @@ "n" :> Gone) @@
  edit   :> ("f" :> "f1" @@ "g" :> "g0" @@ "n" :> "n1") @@
  move   :> ("f" :> "f2" @@ "g" :> "g2" @@ "n" :> Gone) @@
  broken :> ("f" :> Broken @@ "g" :> "g0" @@ "n" :> Gone)
Def(name, span, line) == [name |-> name, span |-> span, line |-> line]
MCDefs ==
  "f0" :> <<Def("h", "h0", 1), Def("k", "k0", 5)>> @@
  "f1" :> <<Def("h", "h1", 1)>> @@
  "f2" :> <<Def("h", "h0", 1)>> @@
  "g0" :> <<Def("m", "m0", 1)>> @@
  "g2" :> <<Def("k", "k2", 1), Def("m", "m0", 5)>> @@
  "n1" :> <<Def("k", "k0", 1)>>
MCSpans == {"h0", "h1", "k0", "k2", "m0"}
MCCalls ==
  "h0" :> <<"k">> @@ "h1" :> <<"m">> @@ "k0" :> <<>> @@ "k2" :> <<>> @@ "m0" :> <<"h">>
MCHints == {"f"}
MCWanted == {"h"}
=============================================================================
