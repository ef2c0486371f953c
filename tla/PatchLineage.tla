---------------------------- MODULE PatchLineage ----------------------------
(***************************************************************************)
(* What one ReachPatch case promises about its patches, without saying how *)
(* patches are generated, executed or judged.                              *)
(*                                                                         *)
(* A case grows a lineage of immutable cumulative patches below the empty  *)
(* root.  Every new patch is a child of the current incumbent.  A patch    *)
(* may be discarded while it has no children and is not the incumbent, and *)
(* is then out of the game.  The case ends once, either with one patch of  *)
(* the lineage that was not discarded, or with a failure; when it ends as  *)
(* certified, the result is the incumbent.                                 *)
(***************************************************************************)
CONSTANTS
  Nodes, Root,     \* names of the places in the lineage
  Patches, Blank,  \* the patches, and the empty one
  Absent           \* no patch has this name yet

VARIABLES
  lineage,    \* node -> its parent and its patch
  discarded,  \* the nodes ruled out
  incumbent,  \* the node new patches start from
  result      \* "UNDECIDED", "FAILED" or the patch the case ended with

lineageVars == <<lineage, discarded, incumbent, result>>

Undecided == [status |-> "UNDECIDED", node |-> Root]
EndedWith(n) == [status |-> "ENDED", node |-> n]

Present(n) == n \in Nodes /\ lineage[n] # Absent
Alive(n) == Present(n) /\ n \notin discarded

Child(n, p) ==
  /\ lineage[n] = Absent
  /\ lineage' = [lineage EXCEPT ![n] = [parent |-> incumbent, patch |-> p]]

LineageInit ==
  /\ lineage = [n \in Nodes |-> IF n = Root THEN [parent |-> Root, patch |-> Blank]
                                ELSE Absent]
  /\ discarded = {}
  /\ incumbent = Root
  /\ result = Undecided

\* The first patch replaces the root.
Found(n, p) ==
  /\ result = Undecided /\ incumbent = Root
  /\ Child(n, p) /\ incumbent' = n
  /\ UNCHANGED <<discarded, result>>

\* A revision of the incumbent, which it does not replace yet.
Grow(n, p) ==
  /\ result = Undecided /\ incumbent # Root
  /\ p # lineage[incumbent].patch
  /\ Child(n, p)
  /\ UNCHANGED <<discarded, incumbent, result>>

Discard(n) ==
  /\ result = Undecided
  /\ Alive(n) /\ n \notin {Root, incumbent}
  /\ \A m \in Nodes : Present(m) => lineage[m].parent # n
  /\ discarded' = discarded \cup {n}
  /\ UNCHANGED <<lineage, incumbent, result>>

\* The search moves to another patch that was not discarded.
Move(n) ==
  /\ result = Undecided
  /\ Alive(n) /\ n # Root
  /\ incumbent' = n
  /\ UNCHANGED <<lineage, discarded, result>>

\* The case ends as certified, with a copy of the incumbent or with a child of
\* it that becomes the incumbent.
CertifyCopy(n) ==
  /\ result = Undecided /\ incumbent # Root
  /\ Child(n, lineage[incumbent].patch)
  /\ incumbent' = n /\ result' = EndedWith(n)
  /\ UNCHANGED discarded

CertifyChild(n) ==
  /\ result = Undecided
  /\ Alive(n) /\ lineage[n].parent = incumbent
  /\ incumbent' = n /\ result' = EndedWith(n)
  /\ UNCHANGED <<lineage, discarded>>

End(n) ==
  /\ result = Undecided
  /\ Alive(n)
  /\ result' = EndedWith(n)
  /\ UNCHANGED <<lineage, discarded, incumbent>>

Fail ==
  /\ result = Undecided
  /\ result' = [status |-> "FAILED", node |-> Root]
  /\ UNCHANGED <<lineage, discarded, incumbent>>

LineageNext ==
  \/ \E n \in Nodes :
       \/ \E p \in Patches : Found(n, p) \/ Grow(n, p)
       \/ Discard(n) \/ Move(n) \/ CertifyCopy(n) \/ CertifyChild(n) \/ End(n)
  \/ Fail

LineageSpec == LineageInit /\ [][LineageNext]_lineageVars
=============================================================================
