-------------------------- MODULE CheckpointStore --------------------------
(***************************************************************************)
(* The files of one case: ExecutionCheckpointStore                         *)
(* (reach_avoid/execution_checkpoint.py), the transition evidence and the  *)
(* final output written by the controller, and what `reachpatch verify`    *)
(* (cli/main.py) makes of them afterwards.                                 *)
(*                                                                         *)
(* The case writes file by file and may be killed or fail between any two  *)
(* steps; it never continues in an existing run directory.  From outside,  *)
(* the tree of a checkpoint or the clean snapshot may be lost or damaged   *)
(* at any time.  Only a file written through _atomic_json, and a directory *)
(* that is renamed into place, appears in one step.                        *)
(***************************************************************************)
EXTENDS Naturals, Sequences

CONSTANTS
  Ids,          \* checkpoint ids
  Boot,         \* that of the bootstrap checkpoint, the first one saved
  WithReturns,  \* ids whose cumulative diff contains a carriage return
  None,         \* no file, no record, no checkpoint
  MaxVersion,   \* bound on how often one record is rewritten
  MaxFaults     \* bound on outside events

ASSUME BootIsId == Boot \in Ids
\* The diff of the bootstrap checkpoint, the untouched tree, is empty.
ASSUME ReturnsAreOfEdits == WithReturns \subseteq Ids \ {Boot}
ASSUME NoneIsNothing == None \notin Ids /\ None \notin Nat
ASSUME BoundsAreNatural == MaxVersion \in Nat /\ MaxFaults \in Nat

\* What _output leaves behind, in this order: final.patch, the evidence
\* manifest, the summaries and exported graphs, terminal.json.  The state file
\* is written between the manifest and the summaries.
Patch == "final.patch"
Manifest == "evidence_manifest.json"
Reports == "execution_summary.json"
Terminal == "terminal.json"

\* A bug to compare with: the terminal record is written before the summaries.
OutputOrderSwapped == <<Patch, Manifest, Terminal, Reports>>

OutputOrder == <<Patch, Manifest, Reports, Terminal>>
OutputFiles == {Patch, Manifest, Reports, Terminal}

VARIABLES
  meta,     \* id -> version in checkpoint.json of its final directory, or None
  tree,     \* id -> its working_tree
  snapshot, \* the clean snapshot
  temp,     \* the temporary directory of a save, if there is one
  held,     \* id -> version of the record the controller holds, or None
  state,    \* execution_state.json has been written
  evidence, \* certificate files: trial -> state of certificate and sidecar
  output,   \* output file -> its state
  op,       \* the operation of the case that is under way, its step and checkpoint
  run,      \* the case process
  faults,   \* outside events so far
  verdict   \* what verify said when it was last run

vars == <<meta, tree, snapshot, temp, held, state, evidence, output, op, run,
          faults, verdict>>

FileStates == {"NONE", "PARTIAL", "WHOLE"}
TreeStates == {"NONE", "PARTIAL", "WHOLE", "LOST", "DAMAGED"}
NoTemp == [id |-> None, tree |-> "NONE", meta |-> None]
NoEvidence == [certificate |-> "NONE", sidecar |-> "NONE", parent |-> None]
Idle == [kind |-> "IDLE", at |-> 0, id |-> None]

Saved(c) == meta[c] # None
Ready == run = "RUNNING" /\ op = Idle
At(kind, n) == run = "RUNNING" /\ op.kind = kind /\ op.at = n
GoesOn == op' = [op EXCEPT !.at = op.at + 1]
Starts(kind, c) == op' = [kind |-> kind, at |-> 1, id |-> c]

Init ==
  /\ meta = [c \in Ids |-> None]
  /\ tree = [c \in Ids |-> "NONE"]
  /\ snapshot = "WHOLE"
  /\ temp = NoTemp
  /\ held = [c \in Ids |-> None]
  /\ state = FALSE
  /\ evidence = [c \in Ids |-> NoEvidence]
  /\ output = [f \in OutputFiles |-> "NONE"]
  /\ op = Idle
  /\ run = "RUNNING"
  /\ faults = 0
  /\ verdict = "NONE"

-----------------------------------------------------------------------------
(* save: copy the tree into a temporary directory and make it read-only,     *)
(* write the metadata beside it, rename the directory.                       *)

\* A bug to compare with: a checkpoint that is there already is saved again.
SaveBeginsAgain(c) ==
  /\ Ready
  /\ c # Boot => state
  /\ temp' = [id |-> c, tree |-> "PARTIAL", meta |-> None]
  /\ Starts("SAVE", c)
  /\ UNCHANGED <<meta, tree, snapshot, held, state, evidence, output, run, faults, verdict>>

SaveBegins(c) ==
  /\ Ready /\ ~Saved(c)
  /\ c # Boot => state
  /\ temp' = [id |-> c, tree |-> "PARTIAL", meta |-> None]
  /\ Starts("SAVE", c)
  /\ UNCHANGED <<meta, tree, snapshot, held, state, evidence, output, run, faults, verdict>>

\* A checkpoint that is there already is loaded, and validated without a clean
\* snapshot to rebuild it from.
SaveFindsExisting(c) ==
  /\ Ready /\ Saved(c)
  /\ held' = [held EXCEPT ![c] = meta[c]]
  /\ run' = IF tree[c] = "WHOLE" THEN run ELSE "RAISED"
  /\ UNCHANGED <<meta, tree, snapshot, temp, state, evidence, output, op, faults, verdict>>

SaveCopies ==
  /\ At("SAVE", 1)
  /\ temp' = [temp EXCEPT !.tree = "WHOLE"]
  /\ GoesOn
  /\ UNCHANGED <<meta, tree, snapshot, held, state, evidence, output, run, faults, verdict>>

SaveDescribes ==
  /\ At("SAVE", 2)
  /\ temp' = [temp EXCEPT !.meta = 0]
  /\ GoesOn
  /\ UNCHANGED <<meta, tree, snapshot, held, state, evidence, output, run, faults, verdict>>

\* A bug to compare with: the directory is renamed as soon as its metadata is
\* there, before the tree has been copied to the end.
SaveRenamesEarly ==
  /\ run = "RUNNING" /\ op.kind = "SAVE"
  /\ meta' = [meta EXCEPT ![op.id] = 0]
  /\ tree' = [tree EXCEPT ![op.id] = temp.tree]
  /\ held' = [held EXCEPT ![op.id] = 0]
  /\ temp' = NoTemp /\ op' = Idle
  /\ UNCHANGED <<snapshot, state, evidence, output, run, faults, verdict>>

SaveRenames ==
  /\ At("SAVE", 3)
  /\ meta' = [meta EXCEPT ![op.id] = temp.meta]
  /\ tree' = [tree EXCEPT ![op.id] = temp.tree]
  /\ held' = [held EXCEPT ![op.id] = temp.meta]
  /\ temp' = NoTemp /\ op' = Idle
  /\ UNCHANGED <<snapshot, state, evidence, output, run, faults, verdict>>

\* An exception during save removes the temporary directory and ends the case.
SaveFails ==
  /\ run = "RUNNING" /\ op.kind = "SAVE"
  /\ temp' = NoTemp /\ op' = Idle
  /\ run' = "RAISED"
  /\ UNCHANGED <<meta, tree, snapshot, held, state, evidence, output, faults, verdict>>

\* replace_metadata: the record is written again in one step, whatever has
\* happened to the tree.
ReplaceMetadata(c) ==
  /\ Ready /\ Saved(c) /\ c # Boot
  /\ meta[c] < MaxVersion
  /\ meta' = [meta EXCEPT ![c] = meta[c] + 1]
  /\ held' = [held EXCEPT ![c] = meta[c] + 1]
  /\ UNCHANGED <<tree, snapshot, temp, state, evidence, output, op, run, faults, verdict>>

\* write_state, first right after the bootstrap has been saved.
WriteState ==
  /\ Ready /\ Saved(Boot)
  /\ state' = TRUE
  /\ UNCHANGED <<meta, tree, snapshot, temp, held, evidence, output, op, run, faults, verdict>>

-----------------------------------------------------------------------------
(* validate and recover_snapshot.                                            *)

\* A bug to compare with: the rebuilt tree is not hashed.
RecoveredUnhashed(c) == IF snapshot = "WHOLE" THEN "WHOLE" ELSE "DAMAGED"

\* recover_snapshot rebuilds a lost tree from the clean snapshot and the
\* cumulative diff, compares its hashes and renames it into place; from a
\* damaged clean snapshot it raises and leaves the tree lost.
Recovered(c) == IF snapshot = "WHOLE" THEN "WHOLE" ELSE "LOST"

AfterRecovery(c) == IF tree[c] = "LOST" THEN Recovered(c) ELSE tree[c]

\* The record on disk is the one the controller holds, the tree is there or can
\* be rebuilt, and its difference from the clean snapshot is the recorded diff.
Validates(c, record) ==
  /\ Saved(c) /\ meta[c] = record
  /\ AfterRecovery(c) = "WHOLE" /\ snapshot = "WHOLE"

\* validate at the top of an iteration, on a switch and on a rollback.
Validate(c) ==
  /\ Ready /\ Saved(c)
  /\ tree' = [tree EXCEPT ![c] = AfterRecovery(c)]
  /\ run' = IF Validates(c, held[c]) THEN run ELSE "RAISED"
  /\ UNCHANGED <<meta, snapshot, temp, held, state, evidence, output, op, faults, verdict>>

-----------------------------------------------------------------------------
(* _persist_transition_evidence and _output.                                 *)

\* The certificate of a judged trial, then the sidecar with its observations;
\* both are written in place.
EvidenceBegins(parent, trial) ==
  /\ Ready
  /\ Saved(parent) /\ Saved(trial) /\ Boot \notin {parent, trial} /\ parent # trial
  /\ evidence[trial] = NoEvidence
  /\ evidence' = [evidence EXCEPT ![trial] =
                    [certificate |-> "PARTIAL", sidecar |-> "NONE", parent |-> parent]]
  /\ Starts("EVIDENCE", trial)
  /\ UNCHANGED <<meta, tree, snapshot, temp, held, state, output, run, faults, verdict>>

CertificateWritten ==
  /\ At("EVIDENCE", 1)
  /\ evidence' = [evidence EXCEPT ![op.id].certificate = "WHOLE",
                                  ![op.id].sidecar = "PARTIAL"]
  /\ GoesOn
  /\ UNCHANGED <<meta, tree, snapshot, temp, held, state, output, run, faults, verdict>>

SidecarWritten ==
  /\ At("EVIDENCE", 2)
  /\ evidence' = [evidence EXCEPT ![op.id].sidecar = "WHOLE"]
  /\ op' = Idle
  /\ UNCHANGED <<meta, tree, snapshot, temp, held, state, output, run, faults, verdict>>

\* _output validates the selected checkpoint first and writes nothing if that
\* fails, or if validate_evidence finds its evidence out of date.
OutputBegins(c) ==
  /\ Ready /\ Saved(c) /\ state
  /\ tree' = [tree EXCEPT ![c] = AfterRecovery(c)]
  /\ \/ Validates(c, held[c]) /\ Starts("OUTPUT", c) /\ UNCHANGED run
     \/ run' = "RAISED" /\ UNCHANGED op
  /\ UNCHANGED <<meta, snapshot, temp, held, state, evidence, output, faults, verdict>>

\* The files are opened and written one after the other; the case is over when
\* the last one is closed.
OutputWrites ==
  /\ run = "RUNNING" /\ op.kind = "OUTPUT"
  /\ LET file == OutputOrder[op.at]
     IN IF output[file] = "NONE"
          THEN output' = [output EXCEPT ![file] = "PARTIAL"] /\ UNCHANGED <<op, run>>
          ELSE /\ output' = [output EXCEPT ![file] = "WHOLE"]
               /\ IF op.at < Len(OutputOrder) THEN GoesOn /\ UNCHANGED run
                  ELSE run' = "RETURNED" /\ UNCHANGED op
  /\ UNCHANGED <<meta, tree, snapshot, temp, held, state, evidence, faults, verdict>>

-----------------------------------------------------------------------------
(* Outside events, and verify.                                               *)

Killed ==
  /\ run = "RUNNING"
  /\ run' = "KILLED"
  /\ UNCHANGED <<meta, tree, snapshot, temp, held, state, evidence, output, op, faults, verdict>>

Fault ==
  /\ faults < MaxFaults
  /\ faults' = faults + 1
  /\ \/ snapshot' = "DAMAGED" /\ UNCHANGED tree
     \/ \E c \in Ids, damage \in {"LOST", "DAMAGED"} :
          Saved(c) /\ tree' = [tree EXCEPT ![c] = damage] /\ UNCHANGED snapshot
  /\ UNCHANGED <<meta, temp, held, state, evidence, output, op, run, verdict>>

\* _verify fails on the first thing it cannot read or that does not fit: a
\* temporary directory left behind, which it takes for a checkpoint, a
\* checkpoint that does not validate against its own record, a certificate
\* without its sidecar, a terminal record that is missing or cut off.
Readable ==
  /\ state
  /\ temp = NoTemp
  /\ \A c \in Ids : Saved(c) => Validates(c, meta[c])
  /\ \A c \in Ids : evidence[c] # NoEvidence =>
       /\ evidence[c].certificate = "WHOLE" /\ evidence[c].sidecar = "WHOLE"
       /\ Saved(c) /\ Saved(evidence[c].parent)
  /\ output[Terminal] = "WHOLE"

\* verify compares final.patch with the diff of the terminal record.  The diff
\* is written as it is and read with universal newlines: what comes back equals
\* it only if it has no carriage return, which diffs of such files keep.
PatchReadsBack == output[Patch] = "WHOLE" /\ op.id \notin WithReturns

VerdictNow ==
  IF ~Readable THEN "ERROR"
  ELSE IF Saved(op.id) /\ PatchReadsBack THEN "VALID"
  ELSE "INVALID"

\* While it validates, verify rebuilds lost trees, up to the one it fails on.
Verify ==
  /\ verdict' = VerdictNow
  /\ \E done \in SUBSET {c \in Ids : tree[c] = "LOST"} :
       /\ Readable => done = {c \in Ids : tree[c] = "LOST"}
       /\ tree' = [c \in Ids |-> IF c \in done THEN Recovered(c) ELSE tree[c]]
  /\ UNCHANGED <<meta, snapshot, temp, held, state, evidence, output, op, run, faults>>

-----------------------------------------------------------------------------
Next ==
  \/ \E c \in Ids :
       \/ SaveBegins(c) \/ SaveFindsExisting(c) \/ ReplaceMetadata(c)
       \/ Validate(c) \/ OutputBegins(c)
  \/ \E parent, trial \in Ids : EvidenceBegins(parent, trial)
  \/ SaveCopies \/ SaveDescribes \/ SaveRenames \/ SaveFails \/ WriteState
  \/ CertificateWritten \/ SidecarWritten \/ OutputWrites
  \/ Killed \/ Fault \/ Verify

Spec == Init /\ [][Next]_vars

-----------------------------------------------------------------------------
(* Properties.                                                               *)

Version == 0..MaxVersion

\* The shape of the state; a temporary directory belongs to a save that is under
\* way, or that was killed.
TypeOK ==
  /\ meta \in [Ids -> Version \cup {None}] /\ held \in [Ids -> Version \cup {None}]
  /\ tree \in [Ids -> TreeStates] /\ snapshot \in {"WHOLE", "DAMAGED"}
  /\ temp \in [id : Ids \cup {None}, tree : FileStates, meta : {0, None}]
  /\ temp # NoTemp <=> op.kind = "SAVE"
  /\ state \in BOOLEAN
  /\ evidence \in [Ids -> [certificate : FileStates, sidecar : FileStates,
                           parent : Ids \cup {None}]]
  /\ output \in [OutputFiles -> FileStates]
  /\ op \in [kind : {"IDLE", "SAVE", "EVIDENCE", "OUTPUT"}, at : 0..4,
             id : Ids \cup {None}]
  /\ run \in {"RUNNING", "RAISED", "KILLED", "RETURNED"}
  /\ faults \in 0..MaxFaults
  /\ verdict \in {"NONE", "ERROR", "INVALID", "VALID"}

\* Wherever the case is killed, a directory under the id of a checkpoint holds
\* its whole record, and a tree that was copied to the end.
WholeOrAbsent ==
  \A c \in Ids :
    /\ tree[c] # "PARTIAL"
    /\ Saved(c) <=> tree[c] # "NONE"

\* A run that verify calls valid has ended by itself and has left every output
\* file, all of them complete: a kill between two files of _output never passes
\* for a finished case.
ValidRunIsComplete ==
  verdict = "VALID" => run = "RETURNED" /\ \A f \in OutputFiles : output[f] = "WHOLE"

\* A finished case that nothing from outside disturbed can be read by verify: no
\* temporary directory is left, every record matches its tree and every
\* certificate has its sidecar and its checkpoints.  It is called valid, unless
\* its diff has a carriage return: such a case, however complete, is invalid.
FinishedRunIsValid ==
  run = "RETURNED" /\ faults = 0 =>
    VerdictNow = IF op.id \in WithReturns THEN "INVALID" ELSE "VALID"

\* Only an outside event damages a tree: neither the case nor the recovery of a
\* lost tree, by the case or by verify, ever puts a wrong one in place.
ContentIsKept ==
  [][\A c \in Ids : tree[c] # "DAMAGED" /\ tree'[c] = "DAMAGED" => faults' # faults]_vars

\* The store of a case implements the abstract one.
Store == INSTANCE AtomicStore WITH
  Keys <- Ids, Nothing <- None, records <- meta,
  sealed <- IF run = "RETURNED" THEN op.id ELSE None

ImplementsAtomicStore == Store!StoreSpec

\* What a kill leaves of the checkpoints can be read back: each is there whole
\* or not at all.
CheckpointsAreWhole == TypeOK /\ WholeOrAbsent

\* verify calls no interrupted case valid and finds every undisturbed finished one
\* readable; carriage returns in the selected diff alone decide its verdict.
VerifyIsRight == ValidRunIsComplete /\ FinishedRunIsValid
=============================================================================
