----------------------------- MODULE PatchedTree -----------------------------
(***************************************************************************)
(* The trees of a case and the patches between them: RepairPlayer gives a  *)
(* session a staging copy of a parent, RepairToolExecutor edits it and     *)
(* finishes the revision (repair/execution_tools.py), the controller runs  *)
(* the checks on what it gets back, inspects it mechanically and stores it *)
(* as a checkpoint, and a checkpoint whose snapshot is gone is rebuilt     *)
(* from the clean tree and its diff (reach_avoid/execution_checkpoint.py). *)
(* Any checkpoint may be the next parent: the verdicts are in              *)
(* ReachAvoidController, the turns of a session in GeneratorSession.       *)
(***************************************************************************)
EXTENDS MechanicalChecks

CONSTANTS
  Cleans,        \* trees a case may start from
  Patches,       \* patches the model may send
  MaxEdits,      \* edits of a case
  MaxRevisions   \* checkpoints after the bootstrap

ASSUME PatchedTreeBounds == MaxEdits \in Nat /\ MaxRevisions \in Nat

Lines == DOMAIN Code

\* A file as a tree holds it; a text without lines ends.
Files ==
  {file \in [there : BOOLEAN, lines : Seq(Lines), ended : BOOLEAN] :
     file.lines = <<>> => file.ended}

Hunk == [old : Seq(Lines), new : Seq(Lines)]
FileActions ==
  [op : {"Update"}, path : ToSet(PathOrder), hunks : Seq(Hunk)]
    \cup [op : {"Add"}, path : ToSet(PathOrder), lines : Seq(Lines)]
    \cup [op : {"Delete"}, path : ToSet(PathOrder)]

\* A case starts from a copy, and neither a repository nor a response has a file
\* dev/null.
ASSUME TreesAndPatches ==
  /\ DevNull \notin ToSet(PathOrder) /\ Blank \in Lines
  /\ Patches \subseteq Seq(FileActions)
  /\ Cleans \subseteq [Paths -> Files]
  /\ \A tree \in Cleans : Copied(tree) = tree /\ tree[DevNull] = Absent

\* Only functions and lambdas have parameters.
ASSUME ScopesAreOfPython ==
  \A line \in Lines : \A use \in Code[line].uses :
    /\ use.scopes \in Seq({use.scopes[i] : i \in DOMAIN use.scopes})
    /\ \A i \in DOMAIN use.scopes :
         use.scopes[i].params # {} => use.scopes[i].kind \in {"def", "lambda"}

VARIABLES
  clean,      \* the clean snapshot
  in_image,   \* checks run in an image of the base commit, not on the host
  saved,      \* the checkpoints of the case; the first is the bootstrap
  pc, parent,
  staging,
  edits,      \* edits so far
  finished,   \* finish_revision has verified the staging tree
  last        \* what became of the last edit, and the files it named

trees == <<clean, in_image, saved, pc, parent, staging, edits, finished, last>>

NoEdit == [result |-> "none", named |-> {}]

\* The tree a check runs on: a copy of the given tree, or the base commit with the
\* files of its diff laid over it.
Executed(tree) ==
  IF in_image
    THEN [p \in Paths |-> IF p \in Changed(clean, tree) THEN tree[p] ELSE clean[p]]
  ELSE Copied(tree)

Checkpoint(tree, verified) ==
  [tree |-> Copied(tree), hash |-> TreeHash(tree), diff |-> DiffBetween(clean, tree),
   executed |-> Executed(tree), mechanical |-> MechanicalReasons(DiffBetween(clean, tree)),
   present |-> TRUE, finished |-> verified]

TreesInit ==
  /\ clean \in Cleans /\ in_image \in BOOLEAN
  /\ saved = <<[tree |-> clean, hash |-> TreeHash(clean), diff |-> <<>>, executed |-> clean,
                mechanical |-> {}, present |-> TRUE, finished |-> FALSE]>>
  /\ pc = "idle" /\ parent = 1
  /\ staging = clean /\ edits = 0 /\ finished = FALSE /\ last = NoEdit

\* A session starts on a copy of its parent, whose tree must match its patch.
Revise(i) ==
  /\ pc = "idle" /\ Len(saved) <= MaxRevisions
  /\ saved[i].present
  /\ DiffBetween(clean, saved[i].tree) = saved[i].diff
  /\ pc' = "session" /\ parent' = i
  /\ staging' = Copied(saved[i].tree)
  /\ finished' = FALSE /\ last' = NoEdit
  /\ UNCHANGED <<clean, in_image, saved, edits>>

\* A response is taken for a cumulative patch when it applies to the clean tree too
\* and touches every file changed so far.
Expected(patch) == ApplyPatchAction(clean, patch)

\* Mutant: a response need not touch every file changed so far.
IsCumulativeIfApplies(patch) ==
  /\ Changed(clean, staging) # {}
  /\ ~PatchRefused(clean, patch)
  /\ Changed(staging, Expected(patch)) # {}
  /\ Applies(staging, DiffBetween(staging, Expected(patch)))

IsCumulative(patch) ==
  LET current == Changed(clean, staging)
  IN /\ current # {}
     /\ ~PatchRefused(clean, patch)
     /\ current \subseteq Changed(clean, Expected(patch))
     /\ Changed(staging, Expected(patch)) # {}
     /\ Applies(staging, DiffBetween(staging, Expected(patch)))

\* What an edit makes of the staging tree, if it is not refused.
Edited(patch) ==
  IF IsCumulative(patch)
    THEN [result |-> "normalized",
          tree |-> ApplyUnifiedDiff(staging, DiffBetween(staging, Expected(patch)))]
  ELSE IF PatchRefused(staging, patch) THEN [result |-> "refused", tree |-> staging]
  ELSE [result |-> "applied", tree |-> ApplyPatchAction(staging, patch)]

\* An edit that the diff against the clean tree does not show is refused, as one that
\* cannot be written.  After any exception the staging tree is put back from a copy.
ApplyPatch(patch) ==
  /\ pc = "session" /\ edits < MaxEdits
  /\ edits' = edits + 1
  /\ \/ /\ staging' = Copied(staging)
        /\ last' = [result |-> "refused", named |-> Named(patch)]
     \/ LET edited == Edited(patch)
        IN /\ edited.result # "refused"
           /\ DiffBetween(clean, edited.tree) # DiffBetween(clean, staging)
           /\ staging' = edited.tree
           /\ last' = [result |-> edited.result, named |-> Named(patch)]
  /\ UNCHANGED <<clean, in_image, saved, pc, parent, finished>>

IsEdited == Changed(saved[parent].tree, staging) # {} /\ Changed(clean, staging) # {}

\* The diff of the staging tree must rebuild a tree with the same diff.
Replays(diff) ==
  Applies(clean, diff) /\ DiffBetween(clean, ApplyUnifiedDiff(clean, diff)) = diff

FinishRevision ==
  /\ pc = "session" /\ IsEdited /\ Replays(DiffBetween(clean, staging))
  /\ pc' = "returned" /\ finished' = TRUE /\ last' = NoEdit
  /\ UNCHANGED <<clean, in_image, saved, parent, staging, edits>>

\* A session that ends otherwise hands over an edit as it is.
EndSession ==
  /\ pc = "session"
  /\ pc' = IF IsEdited THEN "returned" ELSE "idle"
  /\ UNCHANGED <<clean, in_image, saved, parent, staging, edits, finished>> /\ last' = NoEdit

\* distinct_patch_hashes: the empty patch and the patches of the trials after P0.
Seen == {<<>>} \cup {saved[i].diff : i \in 3..Len(saved)}

\* The staging tree is judged and stored; a patch seen before is dropped.
Evaluate ==
  /\ pc = "returned"
  /\ saved' = IF Len(saved) > 1 /\ DiffBetween(clean, staging) \in Seen THEN saved
              ELSE Append(saved, Checkpoint(staging, finished))
  /\ pc' = "idle" /\ parent' = 1
  /\ staging' = clean /\ finished' = FALSE
  /\ UNCHANGED <<clean, in_image, edits, last>>

\* The snapshot of a checkpoint disappears from the disk; one at a time is gone.
LoseSnapshot(i) ==
  /\ pc = "idle" /\ \A j \in DOMAIN saved : saved[j].present
  /\ saved' = [saved EXCEPT ![i].present = FALSE]
  /\ UNCHANGED <<clean, in_image, pc, parent, staging, edits, finished, last>>

\* Mutant: the tree hash is not compared.
RecoverByPatch(i) ==
  /\ pc = "idle" /\ ~saved[i].present
  /\ LET rebuilt == ApplyUnifiedDiff(clean, saved[i].diff)
     IN IF Replays(saved[i].diff)
          THEN saved' = [saved EXCEPT ![i].present = TRUE, ![i].tree = rebuilt] /\ pc' = pc
        ELSE saved' = saved /\ pc' = "failed"
  /\ UNCHANGED <<clean, in_image, parent, staging, edits, finished, last>>

\* It is rebuilt when the checkpoint is validated, with the same diff and the same
\* tree hash, or the case fails.
RecoverSnapshot(i) ==
  /\ pc = "idle" /\ ~saved[i].present
  /\ LET rebuilt == ApplyUnifiedDiff(clean, saved[i].diff)
     IN IF Replays(saved[i].diff) /\ TreeHash(rebuilt) = saved[i].hash
          THEN saved' = [saved EXCEPT ![i].present = TRUE, ![i].tree = rebuilt] /\ pc' = pc
        ELSE saved' = saved /\ pc' = "failed"
  /\ UNCHANGED <<clean, in_image, parent, staging, edits, finished, last>>

TreesNext ==
  \/ \E i \in DOMAIN saved : Revise(i) \/ LoseSnapshot(i) \/ RecoverSnapshot(i)
  \/ \E patch \in Patches : ApplyPatch(patch)
  \/ FinishRevision \/ EndSession \/ Evaluate

TreesSpec == TreesInit /\ [][TreesNext]_trees

-----------------------------------------------------------------------------
\* The hash of a checkpoint is that of a copy, and no diff shows an excluded path.
TreesOK ==
  /\ clean \in Cleans /\ in_image \in BOOLEAN
  /\ pc \in {"idle", "session", "returned", "failed"}
  /\ parent \in DOMAIN saved /\ Len(saved) <= MaxRevisions + 1
  /\ staging \in [Paths -> Files]
  /\ edits \in 0..MaxEdits /\ finished \in BOOLEAN
  /\ last.result \in {"none", "refused", "normalized", "applied"} /\ last.named \subseteq Paths
  /\ \A i \in DOMAIN saved :
       /\ TreeHash(saved[i].hash) = saved[i].hash
       /\ DOMAIN saved[i].diff \subseteq Paths \ Excluded

\* The tree a checkpoint stores, rebuilt or not, is one on which a check runs as it
\* ran on the trial: execute_check on the staging tree against recover_snapshot.
StoredIsExecuted ==
  \A i \in DOMAIN saved : saved[i].present => Executed(saved[i].tree) = saved[i].executed

\* A patch that only changes files in place, away from an end without a newline, can
\* be applied to the clean tree and gives what was executed, file for file.
InPlaceEditsReplay ==
  \A i \in DOMAIN saved :
    LET diff == saved[i].diff
    IN (\A p \in DOMAIN diff : diff[p].old.there /\ diff[p].new.there /\ ~Torn(diff[p]))
         => /\ Applies(clean, diff)
            /\ \A p \in Paths : Text(ApplyUnifiedDiff(clean, diff)[p])
                                  = Text(saved[i].executed[p])

\* A revision that was finished, not merely handed over, has a patch that gives what
\* was executed, up to empty files: finish_revision against execute_check.
FinishedReplays ==
  \A i \in DOMAIN saved :
    saved[i].finished =>
      /\ Applies(clean, saved[i].diff)
      /\ \A p \in Paths : Text(ApplyUnifiedDiff(clean, saved[i].diff)[p])
                            = Text(saved[i].executed[p])

\* Whether it is taken for an incremental or a cumulative patch, an edit changes no
\* file that the response does not name.
OnlyNamedFilesChange ==
  [][edits' = edits + 1 =>
       \A p \in Paths \ (Excluded \cup last'.named) : Text(staging'[p]) = Text(staging[p])]_trees

DefinitionsOf(tree) == Defines(UNION {LinesOf(tree[p]) : p \in Paths})

\* A public definition of the clean tree that no file of a trial has any more is
\* noticed, over any sequence of edits.
LostDefinitionIsSeen ==
  \A i \in DOMAIN saved :
    DefinitionsOf(clean) \subseteq DefinitionsOf(saved[i].hash)
      \/ Reason("public_definition_deleted") \in saved[i].mechanical

\* A name the mechanical checks refuse is bound nowhere around its use, unless the
\* visitor does not see the binding: a parameter of a lambda, a capture of a pattern,
\* an assignment to a global from a function.
NamesBlamedAreUnbound ==
  \A i \in DOMAIN saved : \A reason \in saved[i].mechanical :
    (reason.kind = "undefined_name" /\ BoundInPython(reason.use, saved[i].hash[reason.path]))
      => \/ \E j \in DOMAIN reason.use.scopes :
              LET scope == reason.use.scopes[j]
              IN reason.use.name \in scope.captured \cup scope.globals
                   \cup (IF scope.kind = "lambda" THEN scope.params ELSE {})
         \/ \E line \in LinesOf(saved[i].hash[reason.path]) : reason.use.name \in Code[line].exports

\* What is stored or replayed is what was executed.
ReplayIsExact == TreesOK /\ StoredIsExecuted /\ InPlaceEditsReplay /\ FinishedReplays

\* The mechanical checks neither miss a lost definition nor, where they see the
\* binding, blame a name that is bound.
MechanicalVerdictIsRight == LostDefinitionIsSeen /\ NamesBlamedAreUnbound
=============================================================================
