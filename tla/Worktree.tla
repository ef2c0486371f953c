------------------------------ MODULE Worktree ------------------------------
(***************************************************************************)
(* Source trees, their diffs and the patches applied to them               *)
(* (execution/worktree.py).  A tree maps every path to a file; a file is a *)
(* sequence of lines, each standing for a block of text longer than the    *)
(* context of a hunk, whose last line may lack its newline.  Contents that *)
(* are binary or not UTF-8, file modes and symbolic links are left out.    *)
(***************************************************************************)
EXTENDS Integers, Sequences, FiniteSets, SequencesExt

CONSTANTS
  PathOrder,   \* the paths of the program in the order a diff lists them
  DevNull,     \* the path dev/null inside a tree
  Excluded,    \* paths below a directory of _EXCLUDES (build, dist, ...)
  Blank        \* the line without a character

Paths == ToSet(PathOrder) \cup {DevNull}

Absent == [there |-> FALSE, lines |-> <<>>, ended |-> TRUE]
Empty == [there |-> TRUE, lines |-> <<>>, ended |-> TRUE]
File(lines, ended) == [there |-> TRUE, lines |-> lines, ended |-> ended]

\* What a copy of the tree holds.
Copied(tree) == [p \in Paths |-> IF p \in Excluded THEN Absent ELSE tree[p]]

\* A hash of every file a copy would hold, the empty ones included.
TreeHash(tree) == Copied(tree)

\* _text gives a missing file and an empty one the same lines.
Text(file) == <<file.lines, file.ended>>

Changed(before, after) ==
  {p \in Paths \ Excluded : Text(before[p]) # Text(after[p])}

\* The canonical diff; its hash is the patch hash.  A side that is not there is
\* called /dev/null in the header of the file.
DiffBetween(before, after) ==
  [p \in Changed(before, after) |-> [old |-> before[p], new |-> after[p]]]

-----------------------------------------------------------------------------
\* A hunk reaches the end of a text without a final newline.  The diff carries no
\* marker for it, so git finds its lines run together.
Torn(entry) ==
  LET End(file) == <<{file.lines[i] : i \in DOMAIN file.lines \cap {Len(file.lines)}}, file.ended>>
  IN ~(entry.old.ended /\ entry.new.ended) /\ End(entry.old) # End(entry.new)

Adds(diff) == {p \in DOMAIN diff : ~diff[p].old.there}
Deletes(diff) == {p \in DOMAIN diff : ~diff[p].new.there}

IsBefore(p, q) ==
  \E i, j \in DOMAIN PathOrder : i < j /\ PathOrder[i] = p /\ PathOrder[j] = q

\* git apply of a canonical diff on the tree it was taken from.  The headers name
\* no new or deleted file, so git takes /dev/null for the file dev/null of the
\* tree: a deletion renames the file to it and an addition starts from it.
Applies(tree, diff) ==
  /\ \A p \in DOMAIN diff : ~Torn(diff[p])
  /\ \A p \in Adds(diff) : tree[DevNull].there \/ \E q \in Deletes(diff) : IsBefore(q, p)

ApplyUnifiedDiff(tree, diff) ==
  [p \in Paths |->
     IF p \in DOMAIN diff /\ diff[p].new.there THEN diff[p].new
     ELSE IF p = DevNull /\ Deletes(diff) # {} THEN Empty
     ELSE IF p \in Deletes(diff) \/ (p = DevNull /\ Adds(diff) # {}) THEN Absent
     ELSE tree[p]]

-----------------------------------------------------------------------------
(* A patch of the model is a sequence of file actions.  A diff it writes is *)
(* located by its context in the same way.                                  *)

\* The places after the cursor where the old text of a hunk stands.
Places(lines, old, cursor) ==
  {i \in cursor..(Len(lines) - Len(old)) : SubSeq(lines, i + 1, i + Len(old)) = old}

\* The old text must stand at one place; the next hunk is looked for behind it.
ApplyHunk(state, hunk) ==
  LET places == Places(state.lines, hunk.old, state.cursor)
  IN IF ~state.ok \/ hunk.old = <<>> \/ Cardinality(places) # 1
       THEN [state EXCEPT !.ok = FALSE]
     ELSE LET i == CHOOSE place \in places : TRUE
          IN [ok |-> TRUE, cursor |-> i + Len(hunk.new),
              lines |-> SubSeq(state.lines, 1, i) \o hunk.new
                          \o SubSeq(state.lines, i + Len(hunk.old) + 1, Len(state.lines))]

Updated(file, hunks) ==
  LET After[n \in 0..Len(hunks)] ==
        IF n = 0 THEN [ok |-> TRUE, lines |-> file.lines, cursor |-> 0]
        ELSE ApplyHunk(After[n - 1], hunks[n])
  IN After[Len(hunks)]

\* A text that loses all its lines keeps its final newline: a blank line.
Rendered(lines, ended) ==
  IF lines # <<>> THEN File(lines, ended)
  ELSE IF ended THEN File(<<Blank>>, TRUE) ELSE Empty

IsRefused(tree, action) ==
  CASE action.op = "Update" ->
         \/ ~tree[action.path].there
         \/ ~Updated(tree[action.path], action.hunks).ok
         \/ \A i \in DOMAIN action.hunks : action.hunks[i].old = action.hunks[i].new
    [] action.op = "Add" -> tree[action.path].there
    [] action.op = "Delete" -> ~tree[action.path].there

Named(patch) == {patch[i].path : i \in DOMAIN patch}

\* Every action is read against the tree before the first file is written.
PatchRefused(tree, patch) ==
  \/ patch = <<>>
  \/ Cardinality(Named(patch)) # Len(patch)
  \/ \E i \in DOMAIN patch : IsRefused(tree, patch[i])

Written(tree, action) ==
  LET file == tree[action.path]
  IN CASE action.op = "Update" -> Rendered(Updated(file, action.hunks).lines, file.ended)
       [] action.op = "Add" -> Rendered(action.lines, TRUE)
       [] action.op = "Delete" -> Absent

ApplyPatchAction(tree, patch) ==
  [p \in Paths |-> IF p \in Named(patch)
                     THEN Written(tree, patch[CHOOSE i \in DOMAIN patch : patch[i].path = p])
                   ELSE tree[p]]
=============================================================================
