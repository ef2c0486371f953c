--------------------------- MODULE CheckpointProofs ---------------------------
(***************************************************************************)
(* What a case keeps on disk.  The first part is the checkpoint store, for *)
(* any set of checkpoints, any number of rewrites and of outside events:   *)
(* type correctness, wholeness of what is renamed into place, the meaning  *)
(* of a valid verdict, and the refinement of AtomicStore.  The second is   *)
(* what the checkpoints hold, for any clean trees, patches and Python      *)
(* statements: a stored tree is the one its checks ran on, and the         *)
(* mechanical verdict on it is right.  The two share no variable.          *)
(***************************************************************************)
EXTENDS CheckpointStore, PatchedTree, FiniteSetTheorems, SequenceTheorems,
        WellFoundedInduction, TLAPS

\* How far a save has come is what its temporary directory holds.
SaveProgress ==
  op.kind = "SAVE" =>
    /\ op.id \in Ids /\ ~Saved(op.id)
    /\ op.at \in 1..3
    /\ temp.id = op.id
    /\ op.at >= 2 => temp.tree = "WHOLE"
    /\ op.at = 3 => temp.meta = 0

\* The output files before the current one are complete, and terminal.json is
\* complete only once the case has returned with all of them.
OutputProgress ==
  /\ op.kind = "OUTPUT" =>
       /\ op.id \in Ids /\ Saved(op.id)
       /\ op.at \in 1..4
       /\ \A j \in 1..4 : j < op.at => output[OutputOrder[j]] = "WHOLE"
  /\ run = "RETURNED" => op.kind = "OUTPUT" /\ \A f \in OutputFiles : output[f] = "WHOLE"
  /\ output[Terminal] = "WHOLE" => run = "RETURNED"

EvidenceProgress ==
  op.kind = "EVIDENCE" => op.id \in Ids /\ op.at \in 1..2

IInv ==
  /\ TypeOK
  /\ WholeOrAbsent
  /\ SaveProgress
  /\ OutputProgress
  /\ EvidenceProgress
  /\ ValidRunIsComplete

\* The four output files are the range of OutputOrder, terminal.json last.
LEMMA OutputIsOrdered ==
  /\ Len(OutputOrder) = 4
  /\ OutputOrder[1] = Patch /\ OutputOrder[2] = Manifest
  /\ OutputOrder[3] = Reports /\ OutputOrder[4] = Terminal
  /\ Patch # Terminal /\ Manifest # Terminal /\ Reports # Terminal
  /\ \A j \in 1..4 : OutputOrder[j] \in OutputFiles
BY DEF OutputOrder, OutputFiles, Patch, Manifest, Reports, Terminal

\* An empty run directory satisfies the invariant.
LEMMA IInvInit == Init => IInv
<1> SUFFICES ASSUME Init PROVE IInv
  OBVIOUS
<1> USE BootIsId, NoneIsNothing, BoundsAreNatural DEF Init, Idle, NoTemp, NoEvidence
<1>1. TypeOK
  <2>1. evidence \in [Ids -> [certificate : FileStates, sidecar : FileStates,
                             parent : Ids \cup {None}]]
    BY DEF FileStates
  <2>2. output \in [OutputFiles -> FileStates]  BY DEF FileStates
  <2>3. temp # NoTemp <=> op.kind = "SAVE"  OBVIOUS
  <2>4. temp \in [id : Ids \cup {None}, tree : FileStates, meta : {0, None}]
    BY DEF FileStates
  <2>5. op \in [kind : {"IDLE", "SAVE", "EVIDENCE", "OUTPUT"}, at : 0..4,
              id : Ids \cup {None}]
    OBVIOUS
  <2>6. /\ meta \in [Ids -> Version \cup {None}] /\ held \in [Ids -> Version \cup {None}]
        /\ tree \in [Ids -> TreeStates]
    BY DEF TreeStates
  <2>7. state \in BOOLEAN  BY Zenon
  <2>8. /\ snapshot \in {"WHOLE", "DAMAGED"}
        /\ run \in {"RUNNING", "RAISED", "KILLED", "RETURNED"}
        /\ faults \in 0..MaxFaults
        /\ verdict \in {"NONE", "ERROR", "INVALID", "VALID"}
    OBVIOUS
  <2> HIDE DEF Init, Idle, NoTemp, NoEvidence
  <2> QED  BY <2>1, <2>2, <2>3, <2>4, <2>5, <2>6, <2>7, <2>8 DEF TypeOK
<1>2. WholeOrAbsent
  BY DEF WholeOrAbsent, Saved
<1>3. SaveProgress /\ EvidenceProgress /\ ValidRunIsComplete
  BY DEF SaveProgress, EvidenceProgress, ValidRunIsComplete
<1>4. OutputProgress
  BY DEF OutputProgress, OutputFiles, Terminal
<1> QED  BY <1>1, <1>2, <1>3, <1>4 DEF IInv

\* Recovery never leaves a tree half copied and never removes one.
LEMMA RecoveryIsWhole ==
  ASSUME NEW c \in Ids, TypeOK
  PROVE  /\ Recovered(c) \in {"WHOLE", "LOST"}
         /\ AfterRecovery(c) \in TreeStates
         /\ tree[c] # "PARTIAL" => AfterRecovery(c) # "PARTIAL"
         /\ AfterRecovery(c) = "NONE" <=> tree[c] = "NONE"
         /\ AfterRecovery(c) = "DAMAGED" => tree[c] = "DAMAGED"
BY DEF Recovered, AfterRecovery, TypeOK, TreeStates

\* Every step preserves the invariant.
LEMMA IInvStep == IInv /\ [Next]_vars => IInv'
<1> SUFFICES ASSUME IInv, [Next]_vars PROVE IInv'
  OBVIOUS
<1> USE BootIsId, NoneIsNothing, BoundsAreNatural
<1>1. ASSUME NEW c \in Ids, SaveBegins(c) PROVE IInv'
  <2> USE <1>1 DEF SaveBegins, Ready, Starts, Idle
  <2>1. TypeOK'  BY DEF IInv, TypeOK, FileStates, NoTemp
  <2>2. WholeOrAbsent'  BY DEF IInv, WholeOrAbsent, Saved
  <2>3. (SaveProgress /\ EvidenceProgress /\ ValidRunIsComplete)'
    BY DEF IInv, SaveProgress, EvidenceProgress, ValidRunIsComplete, Saved
  <2>4. OutputProgress'  BY DEF IInv, OutputProgress
  <2> QED  BY <2>1, <2>2, <2>3, <2>4 DEF IInv
<1>2. CASE SaveCopies
  <2> USE <1>2 DEF SaveCopies, At, GoesOn
  <2>1. TypeOK'  BY DEF IInv, TypeOK, FileStates, NoTemp, SaveProgress
  <2>2. WholeOrAbsent'  BY DEF IInv, WholeOrAbsent, Saved
  <2>3. (SaveProgress /\ EvidenceProgress /\ ValidRunIsComplete)'
    BY DEF IInv, SaveProgress, EvidenceProgress, ValidRunIsComplete, Saved, TypeOK
  <2>4. OutputProgress'  BY DEF IInv, OutputProgress, TypeOK
  <2> QED  BY <2>1, <2>2, <2>3, <2>4 DEF IInv
<1>3. CASE SaveDescribes
  <2> USE <1>3 DEF SaveDescribes, At, GoesOn
  <2>1. TypeOK'  BY DEF IInv, TypeOK, FileStates, NoTemp, SaveProgress
  <2>2. WholeOrAbsent'  BY DEF IInv, WholeOrAbsent, Saved
  <2>3. (SaveProgress /\ EvidenceProgress /\ ValidRunIsComplete)'
    BY DEF IInv, SaveProgress, EvidenceProgress, ValidRunIsComplete, Saved, TypeOK
  <2>4. OutputProgress'  BY DEF IInv, OutputProgress, TypeOK
  <2> QED  BY <2>1, <2>2, <2>3, <2>4 DEF IInv
<1>4. CASE SaveRenames
  <2> USE <1>4 DEF SaveRenames, At, Idle
  <2>0. op.id \in Ids /\ temp.meta = 0 /\ temp.tree = "WHOLE" /\ ~Saved(op.id)
    BY DEF IInv, SaveProgress
  <2>1. TypeOK'
    BY <2>0 DEF IInv, TypeOK, FileStates, TreeStates, NoTemp, Version
  <2>2. WholeOrAbsent'  BY <2>0 DEF IInv, WholeOrAbsent, Saved, TypeOK
  <2>3. (SaveProgress /\ EvidenceProgress /\ ValidRunIsComplete)'
    BY DEF IInv, SaveProgress, EvidenceProgress, ValidRunIsComplete
  <2>4. OutputProgress'  BY DEF IInv, OutputProgress
  <2> QED  BY <2>1, <2>2, <2>3, <2>4 DEF IInv
<1>5. CASE SaveFails
  <2> USE <1>5 DEF SaveFails, Idle
  <2>1. TypeOK'  BY DEF IInv, TypeOK, FileStates, NoTemp
  <2>2. WholeOrAbsent'  BY DEF IInv, WholeOrAbsent, Saved
  <2>3. (SaveProgress /\ EvidenceProgress /\ ValidRunIsComplete)'
    BY DEF IInv, SaveProgress, EvidenceProgress, ValidRunIsComplete, OutputProgress
  <2>4. OutputProgress'  BY DEF IInv, OutputProgress
  <2> QED  BY <2>1, <2>2, <2>3, <2>4 DEF IInv
<1>6. ASSUME NEW c \in Ids, SaveFindsExisting(c) PROVE IInv'
  <2> USE <1>6 DEF SaveFindsExisting, Ready, Idle
  <2>1. TypeOK'  BY DEF IInv, TypeOK
  <2>2. WholeOrAbsent'  BY DEF IInv, WholeOrAbsent, Saved
  <2>3. (SaveProgress /\ EvidenceProgress /\ ValidRunIsComplete)'
    BY DEF IInv, SaveProgress, EvidenceProgress, ValidRunIsComplete
  <2>4. OutputProgress'  BY DEF IInv, OutputProgress
  <2> QED  BY <2>1, <2>2, <2>3, <2>4 DEF IInv
<1>7. ASSUME NEW c \in Ids, ReplaceMetadata(c) PROVE IInv'
  <2> USE <1>7 DEF ReplaceMetadata, Ready, Idle
  <2>0. meta[c] \in 0..MaxVersion /\ meta[c] + 1 \in 0..MaxVersion
    BY DEF IInv, TypeOK, Version, Saved
  <2>1. TypeOK'  BY <2>0 DEF IInv, TypeOK, Version
  <2>2. WholeOrAbsent'  BY <2>0 DEF IInv, WholeOrAbsent, Saved, TypeOK
  <2>3. (SaveProgress /\ EvidenceProgress /\ ValidRunIsComplete)'
    BY DEF IInv, SaveProgress, EvidenceProgress, ValidRunIsComplete
  <2>4. OutputProgress'  BY DEF IInv, OutputProgress
  <2> QED  BY <2>1, <2>2, <2>3, <2>4 DEF IInv
<1>8. CASE WriteState
  <2> USE <1>8 DEF WriteState, Ready
  <2>1. TypeOK'  BY DEF IInv, TypeOK
  <2>2. (WholeOrAbsent /\ SaveProgress /\ EvidenceProgress /\ ValidRunIsComplete)'
    BY DEF IInv, WholeOrAbsent, SaveProgress, EvidenceProgress, ValidRunIsComplete, Saved
  <2>4. OutputProgress'  BY DEF IInv, OutputProgress, Saved
  <2> QED  BY <2>1, <2>2, <2>4 DEF IInv
<1>9. ASSUME NEW c \in Ids, Validate(c) PROVE IInv'
  <2> USE <1>9 DEF Validate, Ready, Idle
  <2>1. TypeOK'  BY RecoveryIsWhole DEF IInv, TypeOK
  <2>2. WholeOrAbsent'  BY RecoveryIsWhole DEF IInv, WholeOrAbsent, Saved, TypeOK
  <2>3. (SaveProgress /\ EvidenceProgress /\ ValidRunIsComplete)'
    BY DEF IInv, SaveProgress, EvidenceProgress, ValidRunIsComplete
  <2>4. OutputProgress'  BY DEF IInv, OutputProgress
  <2> QED  BY <2>1, <2>2, <2>3, <2>4 DEF IInv
<1>10. ASSUME NEW source \in Ids, NEW trial \in Ids, EvidenceBegins(source, trial)
       PROVE  IInv'
  <2> USE <1>10 DEF EvidenceBegins, Ready, Starts, Idle
  <2>1. TypeOK'  BY DEF IInv, TypeOK, FileStates
  <2>2. WholeOrAbsent'  BY DEF IInv, WholeOrAbsent, Saved
  <2>3. (SaveProgress /\ EvidenceProgress /\ ValidRunIsComplete)'
    BY DEF IInv, SaveProgress, EvidenceProgress, ValidRunIsComplete
  <2>4. OutputProgress'  BY DEF IInv, OutputProgress
  <2> QED  BY <2>1, <2>2, <2>3, <2>4 DEF IInv
<1>11. CASE CertificateWritten
  <2> USE <1>11 DEF CertificateWritten, At, GoesOn
  <2>1. TypeOK'  BY DEF IInv, TypeOK, FileStates, EvidenceProgress
  <2>2. WholeOrAbsent'  BY DEF IInv, WholeOrAbsent, Saved
  <2>3. (SaveProgress /\ EvidenceProgress /\ ValidRunIsComplete)'
    BY DEF IInv, SaveProgress, EvidenceProgress, ValidRunIsComplete, TypeOK
  <2>4. OutputProgress'  BY DEF IInv, OutputProgress, TypeOK
  <2> QED  BY <2>1, <2>2, <2>3, <2>4 DEF IInv
<1>12. CASE SidecarWritten
  <2> USE <1>12 DEF SidecarWritten, At, Idle
  <2>1. TypeOK'  BY DEF IInv, TypeOK, FileStates, EvidenceProgress
  <2>2. WholeOrAbsent'  BY DEF IInv, WholeOrAbsent, Saved
  <2>3. (SaveProgress /\ EvidenceProgress /\ ValidRunIsComplete)'
    BY DEF IInv, SaveProgress, EvidenceProgress, ValidRunIsComplete
  <2>4. OutputProgress'  BY DEF IInv, OutputProgress
  <2> QED  BY <2>1, <2>2, <2>3, <2>4 DEF IInv
<1>13. ASSUME NEW c \in Ids, OutputBegins(c) PROVE IInv'
  <2> USE <1>13 DEF OutputBegins, Ready, Starts, Idle
  <2>1. TypeOK'  BY RecoveryIsWhole DEF IInv, TypeOK
  <2>2. WholeOrAbsent'  BY RecoveryIsWhole DEF IInv, WholeOrAbsent, Saved, TypeOK
  <2>3. (SaveProgress /\ EvidenceProgress /\ ValidRunIsComplete)'
    BY DEF IInv, SaveProgress, EvidenceProgress, ValidRunIsComplete
  <2>4. OutputProgress'  BY DEF IInv, OutputProgress, Saved
  <2> QED  BY <2>1, <2>2, <2>3, <2>4 DEF IInv
<1>14. CASE OutputWrites
  <2> DEFINE file == OutputOrder[op.at]
  <2> USE <1>14
  <2>0. /\ op.kind = "OUTPUT" /\ op.at \in 1..4 /\ op.id \in Ids
        /\ op \in [kind : {"IDLE", "SAVE", "EVIDENCE", "OUTPUT"}, at : 0..4,
                   id : Ids \cup {None}]
        /\ output \in [OutputFiles -> FileStates]
        /\ run = "RUNNING"
    BY DEF IInv, OutputProgress, OutputWrites, TypeOK
  <2>1. file \in OutputFiles  BY <2>0, OutputIsOrdered
  <2>2. output' \in [OutputFiles -> FileStates]
    BY <2>0, <2>1 DEF OutputWrites, FileStates
  <2>3. /\ op' \in [kind : {"IDLE", "SAVE", "EVIDENCE", "OUTPUT"}, at : 0..4,
                    id : Ids \cup {None}]
        /\ op'.kind = op.kind /\ op'.id = op.id /\ op'.at \in 1..4
        /\ op'.at = op.at \/ op'.at = op.at + 1
        /\ run' \in {"RUNNING", "RETURNED"}
    BY <2>0, OutputIsOrdered DEF OutputWrites, GoesOn
  <2>4. TypeOK'
    BY <2>2, <2>3, <2>0 DEF IInv, TypeOK, OutputWrites
  <2>5. WholeOrAbsent'  BY DEF IInv, WholeOrAbsent, Saved, OutputWrites
  <2>6. OutputProgress'
    <3>1. output[file] # "NONE" => output'[file] = "WHOLE"
      BY <2>0, <2>1 DEF OutputWrites
    <3>2. \A f \in OutputFiles : f # file => output'[f] = output[f]
      BY <2>0, <2>1 DEF OutputWrites
    <3>3. output[file] = "NONE" => op' = op /\ run' = run /\ output'[file] = "PARTIAL"
      BY <2>0, <2>1 DEF OutputWrites
    <3>4. op'.at = op.at + 1 => output'[file] = "WHOLE"
      BY <2>0, <3>1, <3>3
    <3>5. \A j \in 1..4 : j < op'.at => output'[OutputOrder[j]] = "WHOLE"
      <4> SUFFICES ASSUME NEW j \in 1..4, j < op'.at PROVE output'[OutputOrder[j]] = "WHOLE"
        OBVIOUS
      <4>1. CASE j = op.at  BY <4>1, <2>3, <2>0, <3>4
      <4>2. CASE j < op.at
        <5>1. output[OutputOrder[j]] = "WHOLE"  BY <4>2, <2>0 DEF IInv, OutputProgress
        <5> QED  BY <5>1, <3>1, <3>2, OutputIsOrdered
      <4> QED  BY <4>1, <4>2, <2>3, <2>0
    <3>6. run' = "RETURNED" => op.at = 4 /\ output[file] # "NONE"
      BY <2>0, <3>3, OutputIsOrdered DEF OutputWrites
    <3>7. run' = "RETURNED" => \A f \in OutputFiles : output'[f] = "WHOLE"
      <4> SUFFICES ASSUME run' = "RETURNED", NEW f \in OutputFiles PROVE output'[f] = "WHOLE"
        OBVIOUS
      <4>1. PICK j \in 1..4 : f = OutputOrder[j]
        BY OutputIsOrdered DEF OutputFiles
      <4>2. CASE j = 4  BY <4>1, <4>2, <3>6, <3>1
      <4>3. CASE j < 4
        <5>1. output[f] = "WHOLE"
          BY <4>1, <4>3, <3>6, <2>0 DEF IInv, OutputProgress
        <5> QED  BY <5>1, <3>1, <3>2
      <4> QED  BY <4>2, <4>3
    <3>8. output'[Terminal] = "WHOLE" => run' = "RETURNED"
      <4>1. SUFFICES ASSUME output'[Terminal] = "WHOLE" PROVE run' = "RETURNED"
        OBVIOUS
      <4>2. output[Terminal] # "WHOLE"  BY <2>0 DEF IInv, OutputProgress
      <4>3. file = Terminal
        BY <4>1, <4>2, <3>2 DEF OutputFiles
      <4>4. op.at = 4
        BY <4>3, <2>0, OutputIsOrdered
      <4>5. output[file] # "NONE"  BY <4>1, <4>3, <3>3
      <4> QED  BY <4>4, <4>5, <2>0, OutputIsOrdered DEF OutputWrites
    <3> QED
      BY <2>0, <2>3, <3>5, <3>7, <3>8 DEF OutputProgress, IInv, OutputWrites, Saved
  <2>7. (SaveProgress /\ EvidenceProgress)'
    BY <2>0, <2>3 DEF SaveProgress, EvidenceProgress
  <2>8. ValidRunIsComplete'
    BY <2>0 DEF IInv, ValidRunIsComplete, OutputWrites
  <2> QED  BY <2>4, <2>5, <2>6, <2>7, <2>8 DEF IInv
<1>15. CASE Killed
  <2> USE <1>15 DEF Killed
  <2>1. TypeOK'  BY DEF IInv, TypeOK
  <2>2. (WholeOrAbsent /\ SaveProgress /\ EvidenceProgress /\ ValidRunIsComplete)'
    BY DEF IInv, WholeOrAbsent, SaveProgress, EvidenceProgress, ValidRunIsComplete, Saved
  <2>3. OutputProgress'  BY DEF IInv, OutputProgress, Saved
  <2> QED  BY <2>1, <2>2, <2>3 DEF IInv
<1>16. CASE Fault
  <2> USE <1>16 DEF Fault
  <2>1. TypeOK'  BY DEF IInv, TypeOK, TreeStates
  <2>2. WholeOrAbsent'  BY DEF IInv, WholeOrAbsent, Saved, TypeOK
  <2>3. (SaveProgress /\ EvidenceProgress /\ ValidRunIsComplete)'
    BY DEF IInv, SaveProgress, EvidenceProgress, ValidRunIsComplete, Saved
  <2>4. OutputProgress'  BY DEF IInv, OutputProgress, Saved
  <2> QED  BY <2>1, <2>2, <2>3, <2>4 DEF IInv
<1>17. CASE Verify
  <2> USE <1>17 DEF Verify
  <2>0. verdict' \in {"ERROR", "INVALID", "VALID"}
    BY DEF VerdictNow
  <2>1. TypeOK'
    BY RecoveryIsWhole, <2>0 DEF IInv, TypeOK, TreeStates
  <2>2. WholeOrAbsent'  BY RecoveryIsWhole DEF IInv, WholeOrAbsent, Saved
  <2>3. (SaveProgress /\ EvidenceProgress /\ OutputProgress)'
    BY DEF IInv, SaveProgress, EvidenceProgress, OutputProgress, Saved
  <2>4. ValidRunIsComplete'
    BY DEF IInv, ValidRunIsComplete, OutputProgress, VerdictNow, Readable
  <2> QED  BY <2>1, <2>2, <2>3, <2>4 DEF IInv
<1>18. CASE UNCHANGED vars
  BY <1>18 DEF vars, IInv, TypeOK, WholeOrAbsent, SaveProgress, OutputProgress,
               EvidenceProgress, ValidRunIsComplete, Saved
<1> QED
  BY <1>1, <1>2, <1>3, <1>4, <1>5, <1>6, <1>7, <1>8, <1>9, <1>10, <1>11, <1>12, <1>13,
     <1>14, <1>15, <1>16, <1>17, <1>18 DEF Next

-----------------------------------------------------------------------------
\* The invariant holds in every reachable state.
LEMMA IInvHolds == Spec => []IInv
<1>1. IInv /\ [Next]_vars => IInv'
  BY IInvStep
<1> QED  BY IInvInit, <1>1, PTL DEF Spec

\* The files, records and operations of a case keep their shape, and a
\* temporary directory exists only inside a save.
THEOREM TypeCorrect == Spec => []TypeOK
<1>1. IInv => TypeOK
  BY DEF IInv
<1> QED  BY IInvHolds, <1>1, PTL

\* However the case is interrupted, a checkpoint directory is whole or absent:
\* save renames only what it has copied and described to the end.
THEOREM WholeOrAbsentHolds == Spec => []WholeOrAbsent
<1>1. IInv => WholeOrAbsent
  BY DEF IInv
<1> QED  BY IInvHolds, <1>1, PTL

\* verify calls only a run valid that ended by itself with all its output.
THEOREM ValidMeansComplete == Spec => []ValidRunIsComplete
<1>1. IInv => ValidRunIsComplete
  BY DEF IInv
<1> QED  BY IInvHolds, <1>1, PTL

-----------------------------------------------------------------------------
(* What verify finds of a case that ended by itself.                         *)

\* As long as nothing from outside happens the trees are whole; evidence is
\* complete unless it is being written, and about checkpoints that are there.
Quiet ==
  /\ faults = 0 => snapshot = "WHOLE" /\ \A c \in Ids : Saved(c) => tree[c] = "WHOLE"
  /\ op.kind = "OUTPUT" => state
  /\ \A c \in Ids : evidence[c] # NoEvidence =>
       /\ Saved(c) /\ evidence[c].parent \in Ids /\ Saved(evidence[c].parent)
       /\ ~(op.kind = "EVIDENCE" /\ op.id = c) =>
            evidence[c].certificate = "WHOLE" /\ evidence[c].sidecar = "WHOLE"
  /\ op.kind = "EVIDENCE" =>
       evidence[op.id] # NoEvidence /\ (op.at = 2 => evidence[op.id].certificate = "WHOLE")

\* Nothing has happened from outside when the case starts.
LEMMA QuietInit == Init => Quiet
BY DEF Init, Quiet, Saved, Idle

\* Saved checkpoints stay saved, and keep or regain a whole tree.
LEMMA QuietStep == IInv /\ Quiet /\ [Next]_vars => Quiet'
<1> SUFFICES ASSUME IInv, Quiet, [Next]_vars PROVE Quiet'
  OBVIOUS
<1> USE BootIsId, NoneIsNothing, BoundsAreNatural
<1>1. ASSUME NEW c \in Ids, SaveBegins(c) PROVE Quiet'
  BY <1>1 DEF SaveBegins, Ready, Starts, Idle, Quiet, Saved
<1>2. CASE SaveCopies \/ SaveDescribes
  BY <1>2 DEF SaveCopies, SaveDescribes, At, GoesOn, Quiet, Saved, IInv, TypeOK
<1>3. CASE SaveRenames
  <2>1. op.id \in Ids /\ temp.meta = 0 /\ temp.tree = "WHOLE" /\ op.kind = "SAVE"
    BY <1>3 DEF SaveRenames, At, IInv, SaveProgress
  <2>2. meta' = [meta EXCEPT ![op.id] = 0] /\ tree' = [tree EXCEPT ![op.id] = "WHOLE"]
    BY <1>3, <2>1 DEF SaveRenames
  <2>3. \A c \in Ids : (Saved(c) => Saved(c)') /\ (tree[c] = "WHOLE" => tree'[c] = "WHOLE")
    BY <2>1, <2>2 DEF Saved, IInv, TypeOK
  <2>4. \A c \in Ids : Saved(c)' => Saved(c) \/ tree'[c] = "WHOLE"
    BY <2>1, <2>2 DEF Saved, IInv, TypeOK
  <2> QED  BY <1>3, <2>1, <2>3, <2>4 DEF SaveRenames, Idle, Quiet
<1>4. CASE SaveFails
  BY <1>4 DEF SaveFails, Idle, Quiet, Saved
<1>5. ASSUME NEW c \in Ids, SaveFindsExisting(c) PROVE Quiet'
  BY <1>5 DEF SaveFindsExisting, Quiet, Saved
<1>6. ASSUME NEW c \in Ids, ReplaceMetadata(c) PROVE Quiet'
  <2>1. meta[c] + 1 # None
    BY <1>6 DEF ReplaceMetadata, IInv, TypeOK, Version, Saved
  <2>2. \A d \in Ids : Saved(d)' <=> Saved(d)
    BY <1>6, <2>1 DEF ReplaceMetadata, IInv, TypeOK, Saved
  <2> QED  BY <1>6, <2>2 DEF ReplaceMetadata, Quiet
<1>7. CASE WriteState \/ Killed
  BY <1>7 DEF WriteState, Killed, Quiet, Saved
<1>8. ASSUME NEW c \in Ids, tree' = [tree EXCEPT ![c] = AfterRecovery(c)],
             UNCHANGED <<meta, snapshot, faults>>
      PROVE  faults' = 0 => snapshot' = "WHOLE" /\ \A d \in Ids : Saved(d)' => tree'[d] = "WHOLE"
  BY <1>8 DEF Quiet, Saved, AfterRecovery, IInv, TypeOK
<1>9. ASSUME NEW c \in Ids, Validate(c) PROVE Quiet'
  BY <1>9, <1>8 DEF Validate, Quiet, Saved
<1>10. ASSUME NEW c \in Ids, OutputBegins(c) PROVE Quiet'
  <2>1. /\ Ready /\ state /\ tree' = [tree EXCEPT ![c] = AfterRecovery(c)]
        /\ Starts("OUTPUT", c) \/ op' = op
        /\ UNCHANGED <<meta, snapshot, state, evidence, faults>>
    BY <1>10 DEF OutputBegins
  <2>2. faults' = 0 => snapshot' = "WHOLE" /\ \A d \in Ids : Saved(d)' => tree'[d] = "WHOLE"
    BY <2>1, <1>8
  <2>3. op'.kind # "EVIDENCE" /\ op.kind # "EVIDENCE"
    BY <2>1 DEF Ready, Starts, Idle
  <2> QED  BY <2>1, <2>2, <2>3 DEF Quiet, Saved
<1>11. ASSUME NEW source \in Ids, NEW trial \in Ids, EvidenceBegins(source, trial)
       PROVE  Quiet'
  BY <1>11 DEF EvidenceBegins, Ready, Starts, Idle, Quiet, Saved, NoEvidence, IInv, TypeOK
<1>12. CASE CertificateWritten \/ SidecarWritten
  <2>1. op.id \in Ids /\ op.kind = "EVIDENCE" /\ evidence[op.id] # NoEvidence
    BY <1>12 DEF CertificateWritten, SidecarWritten, At, IInv, EvidenceProgress, Quiet
  <2>2. \A c \in Ids : /\ c # op.id => evidence'[c] = evidence[c]
                       /\ evidence'[c].parent = evidence[c].parent
    BY <1>12, <2>1 DEF CertificateWritten, SidecarWritten, IInv, TypeOK
  <2>3. CASE CertificateWritten
    BY <2>1, <2>2, <2>3 DEF CertificateWritten, At, GoesOn, Quiet, Saved, NoEvidence, IInv, TypeOK
  <2>4. CASE SidecarWritten
    BY <2>1, <2>2, <2>4 DEF SidecarWritten, At, Idle, Quiet, Saved, NoEvidence, IInv, TypeOK
  <2> QED  BY <1>12, <2>3, <2>4
<1>13. CASE OutputWrites
  BY <1>13 DEF OutputWrites, GoesOn, Quiet, Saved, IInv, TypeOK
<1>14. CASE Fault
  BY <1>14 DEF Fault, Quiet, Saved, IInv, TypeOK
<1>15. CASE Verify
  BY <1>15 DEF Verify, Recovered, Quiet, Saved, IInv, TypeOK
<1>16. CASE UNCHANGED vars
  BY <1>16 DEF vars, Quiet, Saved
<1> QED
  BY <1>1, <1>2, <1>3, <1>4, <1>5, <1>6, <1>7, <1>9, <1>10, <1>11, <1>12, <1>13, <1>14,
     <1>15, <1>16 DEF Next

\* Without outside events nothing is lost or damaged.
LEMMA QuietHolds == Spec => []Quiet
BY IInvHolds, QuietInit, QuietStep, PTL DEF Spec

\* A case that returned and was not disturbed can be read by verify, and is valid
\* for it unless its diff has a carriage return.
THEOREM FinishedMeansValid == Spec => []FinishedRunIsValid
<1>1. IInv /\ Quiet => FinishedRunIsValid
  <2> SUFFICES ASSUME IInv, Quiet, run = "RETURNED", faults = 0
               PROVE  VerdictNow = IF op.id \in WithReturns THEN "INVALID" ELSE "VALID"
    BY DEF FinishedRunIsValid
  <2>1. op.kind = "OUTPUT" /\ \A f \in OutputFiles : output[f] = "WHOLE"
    BY DEF IInv, OutputProgress
  <2>2. output[Patch] = "WHOLE" /\ output[Terminal] = "WHOLE"
    BY <2>1 DEF OutputFiles
  <2>3. state /\ temp = NoTemp
    BY <2>1 DEF Quiet, IInv, TypeOK
  <2>4. \A c \in Ids : Saved(c) => Validates(c, meta[c])
    BY DEF Quiet, Validates, AfterRecovery
  <2>5. \A c \in Ids : evidence[c] # NoEvidence =>
          /\ evidence[c].certificate = "WHOLE" /\ evidence[c].sidecar = "WHOLE"
          /\ Saved(c) /\ Saved(evidence[c].parent)
    BY <2>1 DEF Quiet
  <2>6. Saved(op.id)
    BY <2>1 DEF IInv, OutputProgress
  <2>7. Readable
    BY <2>2, <2>3, <2>4, <2>5 DEF Readable
  <2> QED  BY <2>2, <2>6, <2>7 DEF VerdictNow, PatchReadsBack
<1> QED  BY IInvHolds, QuietHolds, <1>1, PTL

\* What a kill leaves of the checkpoints can be read back.
THEOREM CheckpointsStayWhole == Spec => []CheckpointsAreWhole
BY TypeCorrect, WholeOrAbsentHolds, PTL DEF CheckpointsAreWhole

\* verify calls no interrupted case valid, and reads every undisturbed finished one;
\* that one is valid exactly if its diff has no carriage return.
THEOREM VerifyTellsApart == Spec => []VerifyIsRight
BY ValidMeansComplete, FinishedMeansValid, PTL DEF VerifyIsRight

\* No step of the case or of verify puts a damaged tree in place: the recovery
\* rebuilds the recorded tree or none.
THEOREM ContentStays == Spec => ContentIsKept
<1> DEFINE A == \A c \in Ids : tree[c] # "DAMAGED" /\ tree'[c] = "DAMAGED" => faults' # faults
<1>1. IInv /\ [Next]_vars => [A]_vars
  <2> SUFFICES ASSUME IInv, [Next]_vars, NEW c \in Ids,
                      tree[c] # "DAMAGED", tree'[c] = "DAMAGED"
               PROVE  faults' # faults
    OBVIOUS
  <2> USE DEF IInv, TypeOK
  <2>1. ASSUME tree' = tree PROVE FALSE
    BY <2>1
  <2>2. ASSUME NEW d \in Ids, tree' = [tree EXCEPT ![d] = AfterRecovery(d)] PROVE FALSE
    BY <2>2, RecoveryIsWhole
  <2>3. CASE SaveRenames
    <3>1. temp.tree = "WHOLE" /\ op.id \in Ids
      BY <2>3 DEF SaveRenames, At, SaveProgress
    <3> QED  BY <3>1, <2>3 DEF SaveRenames
  <2>4. CASE Fault
    BY <2>4, BoundsAreNatural DEF Fault
  <2>5. CASE Verify
    BY <2>5, RecoveryIsWhole DEF Verify
  <2>6. CASE \E d \in Ids : Validate(d) \/ OutputBegins(d)
    BY <2>6, <2>2 DEF Validate, OutputBegins
  <2>7. CASE UNCHANGED vars
    BY <2>7, <2>1 DEF vars
  <2>8. CASE \E d \in Ids : SaveBegins(d) \/ SaveFindsExisting(d) \/ ReplaceMetadata(d)
    BY <2>8, <2>1 DEF SaveBegins, SaveFindsExisting, ReplaceMetadata
  <2>9. CASE SaveCopies \/ SaveDescribes \/ SaveFails \/ WriteState \/ Killed
    BY <2>9, <2>1 DEF SaveCopies, SaveDescribes, SaveFails, WriteState, Killed
  <2>10. CASE CertificateWritten \/ SidecarWritten \/ OutputWrites
    BY <2>10, <2>1 DEF CertificateWritten, SidecarWritten, OutputWrites
  <2>11. CASE \E source, trial \in Ids : EvidenceBegins(source, trial)
    BY <2>11, <2>1 DEF EvidenceBegins
  <2> QED
    BY <2>3, <2>4, <2>5, <2>6, <2>7, <2>8, <2>9, <2>10, <2>11 DEF Next
<1> QED  BY IInvHolds, <1>1, PTL DEF Spec, ContentIsKept

-----------------------------------------------------------------------------
(* Refinement of AtomicStore.                                                *)

\* A step that touches no record and neither starts nor ends a returned run is a
\* stutter of the abstract store.
LEMMA Stutters ==
  ASSUME IInv, meta' = meta,
         (run' # "RETURNED" /\ run # "RETURNED") \/ UNCHANGED <<run, op>>
  PROVE  UNCHANGED Store!storeVars
BY DEF Store!storeVars

\* The steps of the case map to Put, Amend, SealWith or a stutter.
LEMMA StoreStep == IInv /\ [Next]_vars => [Store!StoreNext]_Store!storeVars
<1> SUFFICES ASSUME IInv, [Next]_vars PROVE [Store!StoreNext]_Store!storeVars
  OBVIOUS
<1> USE NoneIsNothing, BoundsAreNatural
<1>1. CASE SaveRenames
  <2>1. /\ op.id \in Ids /\ ~Saved(op.id) /\ temp.meta = 0 /\ run = "RUNNING"
        /\ meta' = [meta EXCEPT ![op.id] = 0] /\ run' = run
    BY <1>1 DEF SaveRenames, At, IInv, SaveProgress
  <2>2. Store!Put(op.id)
    BY <2>1 DEF Store!Put, Saved
  <2> QED  BY <2>1, <2>2 DEF Store!StoreNext
<1>2. ASSUME NEW c \in Ids, ReplaceMetadata(c) PROVE Store!Amend(c)
  BY <1>2 DEF ReplaceMetadata, Ready, Saved, Store!Amend
<1>3. CASE OutputWrites
  <2>1. CASE run' = "RETURNED"
    <3>1. /\ op.id \in Ids /\ Saved(op.id) /\ run = "RUNNING" /\ meta' = meta
          /\ op.kind = "OUTPUT"
      BY <1>3 DEF OutputWrites, IInv, OutputProgress
    <3>2. op' = op
      BY <1>3, <2>1, <3>1 DEF OutputWrites
    <3>3. op.id # None  BY <3>1
    <3>4. Store!SealWith(op.id)
      BY <3>1, <3>2, <3>3, <2>1 DEF Store!SealWith, Saved
    <3> QED  BY <3>1, <3>4 DEF Store!StoreNext
  <2>2. CASE run' # "RETURNED"
    BY <1>3, <2>2, Stutters DEF OutputWrites
  <2> QED  BY <2>1, <2>2
<1>4. CASE \E c \in Ids : \/ SaveBegins(c) \/ SaveFindsExisting(c) \/ Validate(c)
                           \/ OutputBegins(c)
  BY <1>4, Stutters DEF SaveBegins, SaveFindsExisting, Validate, OutputBegins, Ready
<1>5. CASE \E source, trial \in Ids : EvidenceBegins(source, trial)
  BY <1>5, Stutters DEF EvidenceBegins, Ready
<1>6. CASE SaveCopies \/ SaveDescribes \/ SaveFails \/ WriteState \/ Killed
  BY <1>6, Stutters DEF SaveCopies, SaveDescribes, SaveFails, WriteState, Killed, At, Ready
<1>7. CASE CertificateWritten \/ SidecarWritten
  BY <1>7, Stutters DEF CertificateWritten, SidecarWritten, At
<1>8. CASE Fault \/ Verify \/ UNCHANGED vars
  BY <1>8, Stutters DEF Fault, Verify, vars
<1> QED
  BY <1>1, <1>2, <1>3, <1>4, <1>5, <1>6, <1>7, <1>8 DEF Next, Store!StoreNext

\* The store of a case, with its temporary directories, in-place files, kills
\* and outside damage, implements the store that holds a checkpoint whole or not
\* at all.
THEOREM StoreIsAtomic == Spec => ImplementsAtomicStore
<1>1. Init => Store!StoreInit
  BY DEF Init, Store!StoreInit
<1> QED
  BY IInvHolds, <1>1, StoreStep, PTL DEF Spec, ImplementsAtomicStore, Store!StoreSpec

-----------------------------------------------------------------------------
(* The trees of a case: sets of naturals have least elements.              *)

Less == {pair \in Nat \X Nat : pair[1] < pair[2]}

\* A set of naturals that is not empty has a least element.
LEMMA LeastNatural ==
  ASSUME NEW T \in SUBSET Nat, T # {}
  PROVE  \E n \in T : \A m \in T : n <= m
<1>1. IsWellFoundedOn(Less, Nat)
  BY NatLessThanWellFounded DEF OpToRel, Less
<1>2. PICK n \in T : \A m \in T : <<m, n>> \notin Less
  BY <1>1, WFMin
<1>3. \A m \in T : ~ (m < n)
  BY <1>2 DEF Less
<1> QED BY <1>3

-----------------------------------------------------------------------------
(* What a copy keeps.                                                      *)

\* dev/null is a path of every tree, and no file of the program is called so.
LEMMA PathFacts ==
  /\ DevNull \in Paths /\ ToSet(PathOrder) \subseteq Paths
  /\ DevNull \notin ToSet(PathOrder)
BY TreesAndPatches DEF Paths

\* A copy loses the excluded files and nothing else.
LEMMA CopyFacts ==
  ASSUME NEW t
  PROVE  /\ \A p \in Paths : Copied(t)[p] = IF p \in Excluded THEN Absent ELSE t[p]
         /\ Copied(Copied(t)) = Copied(t)
         /\ \A b : Changed(b, Copied(t)) = Changed(b, t)
         /\ \A b : DiffBetween(b, Copied(t)) = DiffBetween(b, t)
<1>1. \A p \in Paths : Copied(t)[p] = IF p \in Excluded THEN Absent ELSE t[p]
  BY DEF Copied
<1>2. Copied(Copied(t)) = Copied(t)
  BY <1>1 DEF Copied
<1>3. ASSUME NEW b PROVE Changed(b, Copied(t)) = Changed(b, t)
  BY <1>1 DEF Changed
<1>4. ASSUME NEW b PROVE DiffBetween(b, Copied(t)) = DiffBetween(b, t)
  <2>1. \A p \in Changed(b, t) : Copied(t)[p] = t[p]
    BY <1>1 DEF Changed
  <2> QED BY <1>3, <2>1 DEF DiffBetween
<1> QED BY <1>1, <1>2, <1>3, <1>4

\* A check runs on a copy as it runs on the tree.
LEMMA ExecutedOfCopy ==
  ASSUME NEW t
  PROVE  Executed(Copied(t)) = Executed(t)
<1>1. \A p \in Changed(clean, t) : Copied(t)[p] = t[p]
  BY CopyFacts DEF Changed
<1> QED BY <1>1, CopyFacts DEF Executed

\* What a check runs on, file by file.
LEMMA ExecutedFile ==
  ASSUME NEW t, NEW p \in Paths
  PROVE  /\ p \in Changed(clean, t) => Executed(t)[p] = t[p]
         /\ p \notin Changed(clean, t) /\ p \notin Excluded => Text(Executed(t)[p]) = Text(clean[p])
         /\ p \in Excluded /\ clean[p] = Absent => Executed(t)[p] = Absent
<1>1. p \in Changed(clean, t) => p \notin Excluded
  BY DEF Changed
<1>2. p \notin Changed(clean, t) /\ p \notin Excluded => Text(t[p]) = Text(clean[p])
  BY DEF Changed
<1> QED BY <1>1, <1>2 DEF Executed, Copied

\* The files of a tree, and no file dev/null among them.
IsTree(t) ==
  /\ t \in [Paths -> Files]
  /\ Text(t[DevNull]) = Text(Absent)

\* A file that is not there and an empty one have the same text.
LEMMA AbsentIsFile == Absent \in Files /\ Empty \in Files /\ Text(Empty) = Text(Absent)
<1>1. <<>> \in Seq(Lines)
  OBVIOUS
<1> QED BY <1>1 DEF Files, Absent, Empty, Text

\* copy_tree gives a tree.
LEMMA CopyIsTree ==
  ASSUME NEW t, IsTree(t)
  PROVE  IsTree(Copied(t)) /\ DOMAIN Copied(t) = Paths
<1>1. Copied(t) = [p \in Paths |-> Copied(t)[p]]
  BY DEF Copied
<1>2. \A p \in Paths : Copied(t)[p] \in Files
  BY CopyFacts, AbsentIsFile DEF IsTree
<1>3. Text(Copied(t)[DevNull]) = Text(Absent)
  BY CopyFacts, PathFacts DEF IsTree
<1> HIDE DEF IsTree
<1>4. Copied(t) \in [Paths -> Files]
  BY <1>1, <1>2
<1> QED BY <1>3, <1>4 DEF IsTree

\* A clean tree is a copy of itself and has no excluded file.
LEMMA CleanIsTree ==
  ASSUME NEW c \in Cleans
  PROVE  /\ IsTree(c) /\ Copied(c) = c /\ DOMAIN c = Paths
         /\ \A p \in Paths \cap Excluded : c[p] = Absent
<1>1. Copied(c) = c /\ c[DevNull] = Absent /\ c \in [Paths -> Files]
  BY TreesAndPatches
<1>2. DOMAIN Copied(c) = Paths
  BY DEF Copied
<1> QED BY <1>1, <1>2, CopyFacts DEF IsTree

-----------------------------------------------------------------------------
(* What an edit makes of a file.                                           *)

\* Where a file stands while its hunks are applied.
Progress == [ok : BOOLEAN, lines : Seq(Lines), cursor : Nat]

\* A hunk applied, or refused, leaves lines and a cursor behind.
LEMMA ApplyHunkType ==
  ASSUME NEW s \in Progress, NEW hunk \in Hunk
  PROVE  ApplyHunk(s, hunk) \in Progress
<1> DEFINE places == Places(s.lines, hunk.old, s.cursor)
<1>1. CASE ~s.ok \/ hunk.old = <<>> \/ Cardinality(places) # 1
  BY <1>1 DEF ApplyHunk, Progress
<1>2. CASE ~(~s.ok \/ hunk.old = <<>> \/ Cardinality(places) # 1)
  <2> DEFINE i == CHOOSE place \in places : TRUE
             lines == SubSeq(s.lines, 1, i) \o hunk.new
                        \o SubSeq(s.lines, i + Len(hunk.old) + 1, Len(s.lines))
  <2>1. places # {}
    <3> HIDE DEF places
    <3>1. Cardinality(places) = 1
      BY <1>2
    <3> QED BY <3>1, FS_EmptySet
  <2>2. i \in places
    BY <2>1
  <2> HIDE DEF i
  <2>3. /\ s.lines \in Seq(Lines) /\ s.cursor \in Nat
        /\ hunk.old \in Seq(Lines) /\ hunk.new \in Seq(Lines)
    BY DEF Progress, Hunk
  <2>4. i \in Nat /\ i + Len(hunk.old) <= Len(s.lines)
    <3>1. Len(s.lines) \in Nat /\ Len(hunk.old) \in Nat
      BY <2>3
    <3>2. i \in s.cursor .. (Len(s.lines) - Len(hunk.old))
      BY <2>2 DEF Places
    <3> QED BY <2>3, <3>1, <3>2
  <2>5. \A k \in 1 .. Len(s.lines) : s.lines[k] \in Lines
    BY <2>3, ElementOfSeq
  <2>head. SubSeq(s.lines, 1, i) \in Seq(Lines)
    <3>1. \A k \in 1 .. i : s.lines[k] \in Lines
      BY <2>3, <2>4, <2>5
    <3> QED BY <3>1, <2>4, SubSeqProperties
  <2>tail. SubSeq(s.lines, i + Len(hunk.old) + 1, Len(s.lines)) \in Seq(Lines)
    <3>1. i + Len(hunk.old) + 1 \in Int /\ Len(s.lines) \in Int
      BY <2>3, <2>4
    <3>2. \A k \in i + Len(hunk.old) + 1 .. Len(s.lines) : s.lines[k] \in Lines
      BY <2>3, <2>4, <2>5
    <3> QED BY <3>1, <3>2, SubSeqProperties
  <2>7. lines \in Seq(Lines)
    BY <2>3, <2>head, <2>tail, ConcatProperties
  <2>8. i + Len(hunk.new) \in Nat
    BY <2>3, <2>4, LenProperties
  <2> HIDE DEF places
  <2>9. ApplyHunk(s, hunk) = [ok |-> TRUE, cursor |-> i + Len(hunk.new), lines |-> lines]
    BY <1>2 DEF ApplyHunk, i, places
  <2> QED BY <2>7, <2>8, <2>9 DEF Progress
<1> QED BY <1>1, <1>2

\* The states that Updated passes through exist.
LEMMA UpdatedExists ==
  ASSUME NEW start \in Progress, NEW hunks \in Seq(Hunk)
  PROVE  \E g \in [0 .. Len(hunks) -> Progress] :
           g[0] = start /\ \A i \in 1 .. Len(hunks) : g[i] = ApplyHunk(g[i - 1], hunks[i])
<1> DEFINE N == Len(hunks)
           IsRun(g, n) == /\ g \in [0 .. n -> Progress] /\ g[0] = start
                          /\ \A i \in 1 .. n : g[i] = ApplyHunk(g[i - 1], hunks[i])
           T == {n \in 0 .. N : ~ \E g : IsRun(g, n)}
<1>1. N \in Nat /\ \A i \in 1 .. N : hunks[i] \in Hunk
  BY ElementOfSeq
<1>2. T = {}
  <2> SUFFICES ASSUME T # {} PROVE FALSE
    OBVIOUS
  <2>1. PICK n \in T : \A m \in T : n <= m
    <3>1. T \in SUBSET Nat
      BY <1>1
    <3> HIDE DEF T
    <3> QED BY <3>1, LeastNatural
  <2>2. n \in 0 .. N /\ ~ \E g : IsRun(g, n)
    BY <2>1
  <2>3. n # 0
    <3> DEFINE h == [i \in 0 .. 0 |-> start]
    <3>1. h \in [0 .. 0 -> Progress] /\ h[0] = start /\ 1 .. 0 = {}
      OBVIOUS
    <3>2. IsRun(h, 0)
      BY <3>1
    <3> QED BY <3>2, <2>2
  <2>4. n - 1 \in 0 .. N /\ n - 1 \notin T
    <3>1. n - 1 \in 0 .. N /\ ~ (n <= n - 1)
      BY <1>1, <2>2, <2>3
    <3> HIDE DEF T
    <3> QED BY <3>1, <2>1
  <2>5. PICK g : IsRun(g, n - 1)
    BY <2>4
  <2> DEFINE h == [i \in 0 .. n |-> IF i = n THEN ApplyHunk(g[n - 1], hunks[n]) ELSE g[i]]
  <2>6. n \in 1 .. N /\ n - 1 \in 0 .. n - 1 /\ n \in 0 .. n /\ n - 1 \in 0 .. n
    BY <1>1, <2>2, <2>3
  <2>7. g[n - 1] \in Progress /\ hunks[n] \in Hunk
    BY <1>1, <2>5, <2>6
  <2>8. ApplyHunk(g[n - 1], hunks[n]) \in Progress
    BY <2>7, ApplyHunkType
  <2>9. h \in [0 .. n -> Progress] /\ h[0] = start
    <3>1. \A i \in 0 .. n : i = n \/ i \in 0 .. n - 1
      BY <2>6
    <3>2. 0 \in 0 .. n - 1 /\ 0 # n
      BY <2>6
    <3> QED BY <3>1, <3>2, <2>5, <2>6, <2>8
  <2>10. ASSUME NEW i \in 1 .. n PROVE h[i] = ApplyHunk(h[i - 1], hunks[i])
    <3>1. i \in 0 .. n /\ i - 1 \in 0 .. n /\ i - 1 # n
      BY <2>6
    <3>2. h[i - 1] = g[i - 1]
      BY <3>1
    <3>3. CASE i = n
      BY <3>2, <3>3, <3>1
    <3>4. CASE i # n
      <4>1. i \in 1 .. n - 1
        BY <3>4, <2>6
      <4> QED BY <4>1, <3>1, <3>2, <3>4, <2>5
    <3> QED BY <3>3, <3>4
  <2>11. IsRun(h, n)
    BY <2>9, <2>10
  <2> QED BY <2>11, <2>2
<1>3. N \in 0 .. N
  BY <1>1
<1>4. PICK g : IsRun(g, N)
  BY <1>2, <1>3
<1> QED BY <1>4

\* The hunks of an update leave lines of the program.
LEMMA UpdatedLines ==
  ASSUME NEW file, file.lines \in Seq(Lines), NEW hunks \in Seq(Hunk)
  PROVE  Updated(file, hunks).lines \in Seq(Lines)
<1> DEFINE N == Len(hunks)
           start == [ok |-> TRUE, lines |-> file.lines, cursor |-> 0]
           Body(g) == [n \in 0 .. N |-> IF n = 0 THEN start ELSE ApplyHunk(g[n - 1], hunks[n])]
           steps == CHOOSE g : g = Body(g)
           T == {n \in 0 .. N : steps[n] \notin Progress}
<1>1. N \in Nat /\ \A i \in 1 .. N : hunks[i] \in Hunk
  BY ElementOfSeq
<1>2. start \in Progress
  BY DEF Progress
<1>3. \E g : g = Body(g)
  <2> HIDE DEF start
  <2>1. PICK g \in [0 .. N -> Progress] :
          g[0] = start /\ \A i \in 1 .. N : g[i] = ApplyHunk(g[i - 1], hunks[i])
    BY <1>2, UpdatedExists
  <2>2. \A i \in 0 .. N : g[i] = IF i = 0 THEN start ELSE ApplyHunk(g[i - 1], hunks[i])
    BY <2>1, <1>1
  <2>3. g = [i \in 0 .. N |-> g[i]]
    BY <2>1
  <2> QED BY <2>2, <2>3
<1>4. steps = Body(steps)
  BY <1>3
<1>5. Updated(file, hunks) = steps[N]
  BY DEF Updated
<1> HIDE DEF steps, start
<1>6. \A n \in 0 .. N : steps[n] = IF n = 0 THEN start ELSE ApplyHunk(steps[n - 1], hunks[n])
  BY <1>4
<1>7. T = {}
  <2> SUFFICES ASSUME T # {} PROVE FALSE
    OBVIOUS
  <2>1. PICK n \in T : \A m \in T : n <= m
    <3>1. T \in SUBSET Nat
      BY <1>1
    <3> HIDE DEF T
    <3> QED BY <3>1, LeastNatural
  <2>2. n \in 0 .. N /\ steps[n] \notin Progress
    BY <2>1
  <2>3. n # 0
    BY <1>2, <1>6, <2>2
  <2>4. n - 1 \in 0 .. N /\ n - 1 \notin T /\ n \in 1 .. N
    <3>1. n - 1 \in 0 .. N /\ ~ (n <= n - 1) /\ n \in 1 .. N
      BY <1>1, <2>2, <2>3
    <3> HIDE DEF T
    <3> QED BY <3>1, <2>1
  <2>5. steps[n - 1] \in Progress /\ hunks[n] \in Hunk
    BY <1>1, <2>4
  <2>6. steps[n] = ApplyHunk(steps[n - 1], hunks[n])
    BY <1>6, <2>2, <2>3
  <2> QED BY <2>2, <2>5, <2>6, ApplyHunkType
<1>8. steps[N] \in Progress
  BY <1>1, <1>7
<1> QED BY <1>5, <1>8 DEF Progress

\* What an edit writes is a file again.
LEMMA RenderedIsFile ==
  ASSUME NEW lines \in Seq(Lines), NEW ended \in BOOLEAN
  PROVE  Rendered(lines, ended) \in Files
<1>1. CASE lines # <<>>
  BY <1>1 DEF Files, Rendered, File
<1>2. CASE lines = <<>> /\ ended
  <2>1. <<Blank>> \in Seq(Lines) /\ <<Blank>> # <<>>
    BY TreesAndPatches
  <2> QED BY <1>2, <2>1 DEF Files, Rendered, File
<1>3. CASE lines = <<>> /\ ~ended
  BY <1>3, AbsentIsFile DEF Rendered
<1> QED BY <1>1, <1>2, <1>3

\* Whatever an action writes is a file.
LEMMA WrittenIsFile ==
  ASSUME NEW t, NEW action \in FileActions, t[action.path] \in Files
  PROVE  Written(t, action) \in Files
<1>1. t[action.path].lines \in Seq(Lines) /\ t[action.path].ended \in BOOLEAN
  BY DEF Files
<1>2. CASE action \in [op : {"Update"}, path : ToSet(PathOrder), hunks : Seq(Hunk)]
  <2>1. action.op = "Update" /\ action.hunks \in Seq(Hunk)
    BY <1>2
  <2>2. Written(t, action)
          = Rendered(Updated(t[action.path], action.hunks).lines, t[action.path].ended)
    BY <2>1 DEF Written
  <2> QED BY <1>1, <2>1, <2>2, UpdatedLines, RenderedIsFile
<1>3. CASE action \in [op : {"Add"}, path : ToSet(PathOrder), lines : Seq(Lines)]
  <2>1. action.op = "Add" /\ action.lines \in Seq(Lines)
    BY <1>3
  <2>2. Written(t, action) = Rendered(action.lines, TRUE)
    BY <2>1 DEF Written
  <2> QED BY <2>1, <2>2, RenderedIsFile
<1>4. CASE action \in [op : {"Delete"}, path : ToSet(PathOrder)]
  <2>1. Written(t, action) = Absent
    BY <1>4 DEF Written
  <2> QED BY <2>1, AbsentIsFile
<1> QED BY <1>2, <1>3, <1>4 DEF FileActions

\* A patch names files of the program and changes no other.
LEMMA PatchEffect ==
  ASSUME NEW t, IsTree(t), NEW patch \in Patches
  PROVE  /\ IsTree(ApplyPatchAction(t, patch)) /\ DOMAIN ApplyPatchAction(t, patch) = Paths
         /\ Named(patch) \subseteq ToSet(PathOrder)
         /\ \A p \in Paths \ Named(patch) : ApplyPatchAction(t, patch)[p] = t[p]
<1>1. \A i \in DOMAIN patch : patch[i] \in FileActions
  BY TreesAndPatches, ElementOfSeq
<1>2. \A action \in FileActions : action.path \in ToSet(PathOrder)
  BY DEF FileActions
<1>3. Named(patch) \subseteq ToSet(PathOrder)
  BY <1>1, <1>2 DEF Named
<1>4. \A p \in Paths \ Named(patch) : ApplyPatchAction(t, patch)[p] = t[p]
  BY DEF ApplyPatchAction
<1>5. ASSUME NEW p \in Named(patch) PROVE ApplyPatchAction(t, patch)[p] \in Files
  <2> DEFINE i == CHOOSE j \in DOMAIN patch : patch[j].path = p
  <2>1. i \in DOMAIN patch /\ patch[i].path = p
    BY <1>5 DEF Named
  <2>2. ApplyPatchAction(t, patch)[p] = Written(t, patch[i]) /\ p \in Paths
    BY <1>3, PathFacts DEF ApplyPatchAction
  <2> HIDE DEF i
  <2>3. t[p] \in Files
    BY <2>2 DEF IsTree
  <2> QED BY <1>1, <2>1, <2>2, <2>3, WrittenIsFile
<1>6. ApplyPatchAction(t, patch) = [p \in Paths |-> ApplyPatchAction(t, patch)[p]]
  BY DEF ApplyPatchAction
<1>7. \A p \in Paths : ApplyPatchAction(t, patch)[p] \in Files
  BY <1>4, <1>5 DEF IsTree
<1>8. ApplyPatchAction(t, patch) \in [Paths -> Files]
  BY <1>6, <1>7
<1>9. Text(ApplyPatchAction(t, patch)[DevNull]) = Text(Absent)
  BY <1>3, <1>4, PathFacts DEF IsTree
<1> QED BY <1>3, <1>4, <1>8, <1>9 DEF IsTree

\* The diff of two trees holds their files, and none is dev/null.
LEMMA DiffFacts ==
  ASSUME NEW before, NEW after
  PROVE  /\ DOMAIN DiffBetween(before, after) = Changed(before, after)
         /\ \A p \in Changed(before, after) :
              /\ DiffBetween(before, after)[p].old = before[p]
              /\ DiffBetween(before, after)[p].new = after[p]
         /\ Changed(before, after) \subseteq Paths \ Excluded
         /\ IsTree(before) /\ IsTree(after) => DevNull \notin Changed(before, after)
BY DEF DiffBetween, Changed, IsTree

\* Applying the diff of two trees to a third writes the files of the second.
LEMMA DiffEffect ==
  ASSUME NEW t, IsTree(t), NEW before, IsTree(before), NEW after, IsTree(after)
  PROVE  LET diff == DiffBetween(before, after)
             out  == ApplyUnifiedDiff(t, diff)
         IN /\ IsTree(out) /\ DOMAIN out = Paths
            /\ \A p \in Changed(before, after) : after[p].there => out[p] = after[p]
            /\ \A p \in Changed(before, after) : ~after[p].there => out[p] = Absent
            /\ \A p \in Paths \ Changed(before, after) : Text(out[p]) = Text(t[p])
<1> DEFINE diff == DiffBetween(before, after)
           out == ApplyUnifiedDiff(t, diff)
<1>1. /\ DOMAIN diff = Changed(before, after) /\ DevNull \notin DOMAIN diff
      /\ \A p \in DOMAIN diff : diff[p].new = after[p]
      /\ DOMAIN diff \subseteq Paths
  BY DiffFacts
<1> HIDE DEF diff
<1>2. out = [p \in Paths |-> out[p]]
  BY DEF ApplyUnifiedDiff
<1>3. \A p \in DOMAIN diff : out[p] = IF after[p].there THEN after[p] ELSE Absent
  BY <1>1 DEF ApplyUnifiedDiff, Deletes
<1>4. out[DevNull] \in {Empty, Absent, t[DevNull]}
  BY <1>1, PathFacts DEF ApplyUnifiedDiff
<1>5. \A p \in Paths \ (DOMAIN diff \cup {DevNull}) : out[p] = t[p]
  BY <1>1 DEF ApplyUnifiedDiff, Deletes
<1> HIDE DEF out
<1>6. Text(out[DevNull]) = Text(t[DevNull]) /\ out[DevNull] \in Files
  BY <1>4, AbsentIsFile, PathFacts DEF IsTree
<1>7. IsTree(out) /\ DOMAIN out = Paths
  <2>1. \A p \in Paths : out[p] \in Files
    BY <1>1, <1>3, <1>5, <1>6, AbsentIsFile DEF IsTree
  <2>2. out \in [Paths -> Files]
    BY <1>2, <2>1
  <2> QED BY <1>6, <2>2 DEF IsTree
<1> QED BY <1>1, <1>2, <1>3, <1>5, <1>6, <1>7 DEF out, diff

-----------------------------------------------------------------------------
(* The inductive invariant.                                                *)

\* A checkpoint is of one tree: its hash is the copy, its diff, verdict and the
\* files its checks ran on belong to it, and a finished one replays.
IsOfOneTree(c) ==
  /\ DOMAIN c = {"tree", "hash", "diff", "executed", "mechanical", "present", "finished"}
  /\ IsTree(c.hash) /\ Copied(c.hash) = c.hash
  /\ c.diff = DiffBetween(clean, c.hash)
  /\ c.executed = Executed(c.hash)
  /\ c.mechanical = MechanicalReasons(c.diff)
  /\ c.present => Copied(c.tree) = c.hash
  /\ c.finished => Replays(c.diff)

\* The case has room for the revision under way, and a session that finished has
\* verified the tree it hands over.
SessionIsOpen ==
  /\ pc \in {"session", "returned"} => Len(saved) <= MaxRevisions
  /\ finished => pc = "returned" /\ Replays(DiffBetween(clean, staging))

TreesInv ==
  /\ TreesOK
  /\ \E S : saved \in Seq(S)
  /\ \A i \in DOMAIN saved : IsOfOneTree(saved[i])
  /\ IsTree(staging)
  /\ SessionIsOpen

\* The checkpoints are a sequence, and the clean tree is its own copy.
LEMMA SavedIsSeq ==
  ASSUME TreesInv
  PROVE  /\ Len(saved) \in Nat /\ DOMAIN saved = 1 .. Len(saved)
         /\ IsTree(clean) /\ Copied(clean) = clean /\ DOMAIN clean = Paths
<1>1. PICK S : saved \in Seq(S)
  BY DEF TreesInv
<1>2. Len(saved) \in Nat /\ DOMAIN saved = 1 .. Len(saved)
  BY <1>1, LenProperties
<1> QED BY <1>2, CleanIsTree DEF TreesInv, TreesOK

\* What TreesOK asks of a checkpoint.
LEMMA OneTreeIsTyped ==
  ASSUME NEW c, IsOfOneTree(c)
  PROVE  TreeHash(c.hash) = c.hash /\ DOMAIN c.diff \subseteq Paths \ Excluded
BY DiffFacts DEF IsOfOneTree, TreeHash

\* The case starts with the bootstrap checkpoint, the clean tree.
LEMMA TreesInvInit == TreesInit => TreesInv
<1> SUFFICES ASSUME TreesInit PROVE TreesInv
  OBVIOUS
<1> DEFINE c == [tree |-> clean, hash |-> TreeHash(clean), diff |-> <<>>, executed |-> clean,
                 mechanical |-> {}, present |-> TRUE, finished |-> FALSE]
<1>1. clean \in Cleans /\ saved = <<c>>
  BY DEF TreesInit
<1>2. IsTree(clean) /\ Copied(clean) = clean /\ DOMAIN clean = Paths /\ TreeHash(clean) = clean
  BY <1>1, CleanIsTree DEF TreeHash
<1>3. DiffBetween(clean, clean) = <<>>
  <2>1. Changed(clean, clean) = {}
    BY DEF Changed
  <2> QED BY <2>1 DEF DiffBetween
<1>4. Executed(clean) = clean
  <2>1. Changed(clean, clean) = {}
    BY DEF Changed
  <2>2. clean = [p \in Paths |-> clean[p]]
    <3>1. Copied(clean) = [p \in Paths |-> Copied(clean)[p]]
      BY DEF Copied
    <3> QED BY <3>1, <1>2
  <2> QED BY <1>2, <2>1, <2>2 DEF Executed
<1>5. MechanicalReasons(<<>>) = {}
  BY DEF MechanicalReasons, RemovedPublic, AddedPublic, Defines
<1>6. IsOfOneTree(c)
  BY <1>2, <1>3, <1>4, <1>5 DEF IsOfOneTree
<1> HIDE DEF c
<1>7. saved \in Seq({c}) /\ Len(saved) = 1 /\ DOMAIN saved = 1 .. 1 /\ saved[1] = c
  BY <1>1
<1>8. \A i \in DOMAIN saved : IsOfOneTree(saved[i])
  BY <1>6, <1>7
<1>9. \A i \in DOMAIN saved : /\ TreeHash(saved[i].hash) = saved[i].hash
                              /\ DOMAIN saved[i].diff \subseteq Paths \ Excluded
  BY <1>8, OneTreeIsTyped
<1>10. TreesOK
  <2>1. /\ clean \in Cleans /\ in_image \in BOOLEAN /\ pc = "idle" /\ parent = 1
        /\ staging = clean /\ edits = 0 /\ finished = FALSE
    BY DEF TreesInit
  <2>2. last.result = "none" /\ last.named = {}
    BY DEF TreesInit, NoEdit
  <2>3. clean \in [Paths -> Files]
    BY <1>2 DEF IsTree
  <2>4. parent \in DOMAIN saved /\ Len(saved) <= MaxRevisions + 1 /\ edits \in 0 .. MaxEdits
    BY <1>7, <2>1, PatchedTreeBounds
  <2> QED BY <1>9, <2>1, <2>2, <2>3, <2>4 DEF TreesOK
<1>11. SessionIsOpen
  BY DEF TreesInit, SessionIsOpen
<1> QED BY <1>2, <1>7, <1>8, <1>10, <1>11 DEF TreesInv, TreesInit

\* The evaluated staging tree makes a checkpoint of one tree.
LEMMA CheckpointIsOfOneTree ==
  ASSUME NEW t, IsTree(t), NEW verified \in BOOLEAN, verified => Replays(DiffBetween(clean, t))
  PROVE  IsOfOneTree(Checkpoint(t, verified))
<1>1. IsTree(Copied(t))
  BY CopyIsTree
<1>2. /\ Copied(Copied(t)) = Copied(t)
      /\ DiffBetween(clean, Copied(t)) = DiffBetween(clean, t)
      /\ Executed(Copied(t)) = Executed(t)
  BY CopyFacts, ExecutedOfCopy
<1> QED BY <1>1, <1>2 DEF IsOfOneTree, Checkpoint, TreeHash

\* A checkpoint that loses its snapshot, or gets one with its hash, is of one tree.
LEMMA AmendedIsOfOneTree ==
  ASSUME NEW c, IsOfOneTree(c), NEW t
  PROVE  /\ IsOfOneTree([c EXCEPT !.present = FALSE])
         /\ Copied(t) = c.hash => IsOfOneTree([[c EXCEPT !.present = TRUE] EXCEPT !.tree = t])
<1> DEFINE d == [c EXCEPT !.present = FALSE]
           e == [[c EXCEPT !.present = TRUE] EXCEPT !.tree = t]
<1>0. DOMAIN c = {"tree", "hash", "diff", "executed", "mechanical", "present", "finished"}
  BY DEF IsOfOneTree
<1>1. /\ DOMAIN d = DOMAIN c /\ d.hash = c.hash /\ d.diff = c.diff /\ d.executed = c.executed
      /\ d.mechanical = c.mechanical /\ d.finished = c.finished /\ d.present = FALSE
  BY <1>0
<1>2. /\ DOMAIN e = DOMAIN c /\ e.hash = c.hash /\ e.diff = c.diff /\ e.executed = c.executed
      /\ e.mechanical = c.mechanical /\ e.finished = c.finished /\ e.tree = t
  BY <1>0
<1> HIDE DEF d, e
<1> QED BY <1>1, <1>2 DEF IsOfOneTree, d, e

-----------------------------------------------------------------------------
(* Every step keeps it.                                                    *)

\* A session starts on the copy of a parent.
LEMMA ReviseKeeps ==
  ASSUME TreesInv, NEW i \in DOMAIN saved, Revise(i)
  PROVE  TreesInv'
<1>1. /\ saved[i].present /\ Len(saved) <= MaxRevisions
      /\ pc' = "session" /\ parent' = i /\ staging' = Copied(saved[i].tree)
      /\ finished' = FALSE /\ last' = NoEdit
      /\ UNCHANGED <<clean, in_image, saved, edits>>
  BY DEF Revise
<1>2. staging' = saved[i].hash /\ IsTree(staging')
  BY <1>1 DEF TreesInv, IsOfOneTree
<1>4. TreesOK'
  BY <1>1, <1>2 DEF TreesInv, TreesOK, NoEdit, IsTree
<1>5. \A j \in DOMAIN saved' : IsOfOneTree(saved[j])'
  BY <1>1 DEF TreesInv, IsOfOneTree, Executed, Replays
<1>6. SessionIsOpen'
  BY <1>1 DEF SessionIsOpen
<1> QED BY <1>1, <1>2, <1>4, <1>5, <1>6 DEF TreesInv

\* An edit leaves a tree and names files of the program.
LEMMA EditLeavesTree ==
  ASSUME TreesInv, NEW patch \in Patches
  PROVE  /\ IsTree(Edited(patch).tree) /\ DOMAIN Edited(patch).tree = Paths
         /\ Edited(patch).result \in {"refused", "normalized", "applied"}
         /\ Named(patch) \subseteq Paths
<1>1. IsTree(staging) /\ IsTree(clean) /\ DOMAIN staging = Paths
  BY SavedIsSeq DEF TreesInv, TreesOK
<1>2. IsTree(Expected(patch)) /\ Named(patch) \subseteq Paths
  BY <1>1, PatchEffect, PathFacts DEF Expected
<1>3. CASE IsCumulative(patch)
  <2> DEFINE out == ApplyUnifiedDiff(staging, DiffBetween(staging, Expected(patch)))
  <2>1. IsTree(out) /\ DOMAIN out = Paths
    BY <1>1, <1>2, DiffEffect
  <2>2. Edited(patch) = [result |-> "normalized", tree |-> out]
    BY <1>3 DEF Edited
  <2> QED BY <1>2, <2>1, <2>2
<1>4. CASE ~IsCumulative(patch) /\ PatchRefused(staging, patch)
  <2>1. Edited(patch) = [result |-> "refused", tree |-> staging]
    BY <1>4 DEF Edited
  <2> QED BY <1>1, <1>2, <2>1
<1>5. CASE ~IsCumulative(patch) /\ ~PatchRefused(staging, patch)
  <2>1. Edited(patch) = [result |-> "applied", tree |-> ApplyPatchAction(staging, patch)]
    BY <1>5 DEF Edited
  <2> QED BY <1>1, <1>2, <2>1, PatchEffect
<1> QED BY <1>3, <1>4, <1>5

\* An edit, refused or not, leaves a tree in the staging directory.
LEMMA ApplyPatchKeeps ==
  ASSUME TreesInv, NEW patch \in Patches, ApplyPatch(patch)
  PROVE  TreesInv'
<1>1. /\ pc = "session" /\ edits < MaxEdits /\ edits' = edits + 1
      /\ UNCHANGED <<clean, in_image, saved, pc, parent, finished>>
  BY DEF ApplyPatch
<1>2. IsTree(staging') /\ DOMAIN staging' = Paths
  BY EditLeavesTree, CopyIsTree DEF ApplyPatch, TreesInv
<1>3. last'.result \in {"none", "refused", "normalized", "applied"} /\ last'.named \subseteq Paths
  <2>1. CASE last' = [result |-> "refused", named |-> Named(patch)]
    BY <2>1, EditLeavesTree
  <2>2. CASE last' = [result |-> Edited(patch).result, named |-> Named(patch)]
    BY <2>2, EditLeavesTree
  <2> QED BY <2>1, <2>2 DEF ApplyPatch
<1>4. edits' \in 0 .. MaxEdits
  BY <1>1, PatchedTreeBounds DEF TreesInv, TreesOK
<1>5. TreesOK'
  BY <1>1, <1>2, <1>3, <1>4 DEF TreesInv, TreesOK, IsTree
<1>6. \A j \in DOMAIN saved' : IsOfOneTree(saved[j])'
  BY <1>1 DEF TreesInv, IsOfOneTree, Executed, Replays
<1>7. SessionIsOpen'
  BY <1>1 DEF TreesInv, SessionIsOpen
<1> QED BY <1>1, <1>2, <1>5, <1>6, <1>7 DEF TreesInv

\* A session hands over its tree, verified or not.
LEMMA EndKeeps ==
  ASSUME TreesInv, FinishRevision \/ EndSession
  PROVE  TreesInv'
<1>1. /\ pc = "session" /\ pc' \in {"returned", "idle"} /\ last' = NoEdit
      /\ UNCHANGED <<clean, in_image, saved, parent, staging, edits>>
      /\ \/ finished' = finished
         \/ finished' = TRUE /\ pc' = "returned" /\ Replays(DiffBetween(clean, staging))
  BY DEF FinishRevision, EndSession
<1>2. finished = FALSE /\ finished' \in BOOLEAN
  BY <1>1 DEF TreesInv, SessionIsOpen, TreesOK
<1>3. TreesOK'
  BY <1>1, <1>2 DEF TreesInv, TreesOK, NoEdit
<1>4. \A j \in DOMAIN saved' : IsOfOneTree(saved[j])'
  BY <1>1 DEF TreesInv, IsOfOneTree, Executed, Replays
<1>5. SessionIsOpen'
  BY <1>1, <1>2 DEF TreesInv, SessionIsOpen, Replays
<1> QED BY <1>1, <1>3, <1>4, <1>5 DEF TreesInv, IsTree

\* The tree that is handed over is stored with the verdict on it.
LEMMA EvaluateKeeps ==
  ASSUME TreesInv, Evaluate
  PROVE  TreesInv'
<1> DEFINE c == Checkpoint(staging, finished)
<1>1. /\ pc = "returned" /\ pc' = "idle" /\ parent' = 1 /\ staging' = clean /\ finished' = FALSE
      /\ UNCHANGED <<clean, in_image, edits, last>>
      /\ saved' = saved \/ saved' = Append(saved, c)
  BY DEF Evaluate
<1>2. /\ Len(saved) \in Nat /\ DOMAIN saved = 1 .. Len(saved) /\ Len(saved) <= MaxRevisions
      /\ IsTree(clean) /\ DOMAIN clean = Paths /\ 1 \in DOMAIN saved
  <2>1. parent \in 1 .. Len(saved)
    BY SavedIsSeq DEF TreesInv, TreesOK
  <2> QED BY <1>1, <2>1, SavedIsSeq DEF TreesInv, SessionIsOpen
<1>3. IsOfOneTree(c)
  BY CheckpointIsOfOneTree DEF TreesInv, SessionIsOpen, TreesOK
<1> HIDE DEF c
<1>4. /\ \E S : saved' \in Seq(S)
      /\ Len(saved') \in Nat /\ DOMAIN saved' = 1 .. Len(saved') /\ 1 <= Len(saved')
      /\ Len(saved') <= MaxRevisions + 1
      /\ \A j \in DOMAIN saved' : IsOfOneTree(saved'[j])
  <2>1. CASE saved' = saved
    BY <1>2, <2>1, PatchedTreeBounds DEF TreesInv
  <2>2. CASE saved' = Append(saved, c)
    <3>1. PICK S : saved \in Seq(S)
      BY DEF TreesInv
    <3>2. saved \in Seq(S \cup {c}) /\ c \in S \cup {c}
      BY <3>1
    <3>3. /\ saved' \in Seq(S \cup {c}) /\ Len(saved') = Len(saved) + 1
          /\ \A j \in 1 .. Len(saved) : saved'[j] = saved[j]
          /\ saved'[Len(saved) + 1] = c
      BY <2>2, <3>2, AppendProperties
    <3>4. DOMAIN saved' = 1 .. Len(saved')
      BY <3>3
    <3>5. ASSUME NEW j \in DOMAIN saved' PROVE IsOfOneTree(saved'[j])
      <4>1. j \in 1 .. Len(saved) \/ j = Len(saved) + 1
        BY <1>2, <3>3, <3>4, SMTT(30)
      <4> QED BY <1>2, <1>3, <3>3, <4>1 DEF TreesInv
    <3> QED BY <1>2, <3>3, <3>4, <3>5, PatchedTreeBounds
  <2> QED BY <1>1, <2>1, <2>2
<1>5. \A j \in DOMAIN saved' : IsOfOneTree(saved[j])'
  BY <1>1, <1>4, ZenonT(60) DEF IsOfOneTree, Executed, Replays
<1>6. \A j \in DOMAIN saved' : /\ TreeHash(saved'[j].hash) = saved'[j].hash
                               /\ DOMAIN saved'[j].diff \subseteq Paths \ Excluded
  BY <1>4, OneTreeIsTyped
<1>7. TreesOK'
  <2>1. /\ clean' \in Cleans /\ in_image' \in BOOLEAN /\ edits' \in 0 .. MaxEdits
        /\ last'.result \in {"none", "refused", "normalized", "applied"}
        /\ last'.named \subseteq Paths
    BY <1>1 DEF TreesInv, TreesOK
  <2>2. staging' \in [Paths -> Files]
    BY <1>1, <1>2, SMTT(30) DEF IsTree
  <2>3. PICK size \in Nat : size = Len(saved') /\ DOMAIN saved' = 1 .. size /\ 1 <= size
    BY ONLY <1>4
  <2>4. parent' \in DOMAIN saved'
    <3>1. 1 \in DOMAIN saved'
      BY ONLY <2>3
    <3>2. parent' = 1
      BY <1>1
    <3> QED BY ONLY <3>1, <3>2
  <2> QED BY <1>1, <1>4, <1>6, <2>1, <2>2, <2>4 DEF TreesOK
<1>8. SessionIsOpen'
  BY <1>1 DEF SessionIsOpen
<1> QED BY <1>1, <1>2, <1>4, <1>5, <1>7, <1>8 DEF TreesInv

\* A checkpoint on disk is amended in its place.
LEMMA AmendKeeps ==
  ASSUME TreesInv, NEW i \in DOMAIN saved, NEW c, IsOfOneTree(c),
         saved' = [saved EXCEPT ![i] = c], pc = "idle", pc' \in {"idle", "failed"},
         UNCHANGED <<clean, in_image, parent, staging, edits, finished, last>>
  PROVE  TreesInv'
<1>1. PICK S : saved \in Seq(S)
  BY DEF TreesInv
<1>2. saved \in Seq(S \cup {c}) /\ i \in 1 .. Len(saved)
  BY <1>1, SavedIsSeq
<1>3. saved' \in Seq(S \cup {c}) /\ Len(saved') = Len(saved) /\ DOMAIN saved' = DOMAIN saved
  BY <1>2, ExceptSeq
<1>4. \A j \in DOMAIN saved' : IsOfOneTree(saved'[j])
  BY <1>3 DEF TreesInv
<1>5. \A j \in DOMAIN saved' : IsOfOneTree(saved[j])'
  BY <1>4 DEF IsOfOneTree, Executed, Replays
<1>6. \A j \in DOMAIN saved' : /\ TreeHash(saved'[j].hash) = saved'[j].hash
                               /\ DOMAIN saved'[j].diff \subseteq Paths \ Excluded
  BY <1>4, OneTreeIsTyped
<1>7. TreesOK'
  BY <1>3, <1>6 DEF TreesInv, TreesOK
<1>8. SessionIsOpen'
  BY DEF TreesInv, SessionIsOpen
<1> QED BY <1>3, <1>5, <1>7, <1>8 DEF TreesInv, IsTree

\* A checkpoint without its snapshot keeps its diff and its hash.
LEMMA LoseSnapshotKeeps ==
  ASSUME TreesInv, NEW i \in DOMAIN saved, LoseSnapshot(i)
  PROVE  TreesInv'
<1>1. saved' = [saved EXCEPT ![i] = [saved[i] EXCEPT !.present = FALSE]]
  BY DEF LoseSnapshot
<1>2. IsOfOneTree([saved[i] EXCEPT !.present = FALSE])
  BY AmendedIsOfOneTree DEF TreesInv
<1> QED BY <1>1, <1>2, AmendKeeps DEF LoseSnapshot

\* A snapshot is put back only under its hash.
LEMMA RecoverSnapshotKeeps ==
  ASSUME TreesInv, NEW i \in DOMAIN saved, RecoverSnapshot(i)
  PROVE  TreesInv'
<1> DEFINE t == ApplyUnifiedDiff(clean, saved[i].diff)
           c == [[saved[i] EXCEPT !.present = TRUE] EXCEPT !.tree = t]
<1>1. /\ pc = "idle" /\ pc' \in {"idle", "failed"}
      /\ UNCHANGED <<clean, in_image, parent, staging, edits, finished, last>>
  BY DEF RecoverSnapshot
<1>2. CASE saved' = saved
  <2>1. \A j \in DOMAIN saved' : IsOfOneTree(saved[j])'
    BY <1>1, <1>2 DEF TreesInv, IsOfOneTree, Executed, Replays
  <2>2. TreesOK'
    BY <1>1, <1>2 DEF TreesInv, TreesOK
  <2>3. SessionIsOpen'
    BY <1>1, <1>2 DEF TreesInv, SessionIsOpen
  <2> QED BY <1>1, <1>2, <2>1, <2>2, <2>3 DEF TreesInv, IsTree
<1>3. CASE saved' # saved
  <2>1. TreeHash(t) = saved[i].hash /\ saved' = [saved EXCEPT ![i].present = TRUE, ![i].tree = t]
    BY <1>3 DEF RecoverSnapshot
  <2>2. saved' = [saved EXCEPT ![i] = c]
    BY <2>1
  <2>3. IsOfOneTree(c)
    BY <2>1, AmendedIsOfOneTree DEF TreesInv, TreeHash
  <2> HIDE DEF c
  <2> QED BY <1>1, <2>2, <2>3, AmendKeeps
<1> QED BY <1>2, <1>3

\* No step breaks the invariant.
LEMMA TreesInvStep == TreesInv /\ [TreesNext]_trees => TreesInv'
<1> SUFFICES ASSUME TreesInv, [TreesNext]_trees PROVE TreesInv'
  OBVIOUS
<1>1. CASE UNCHANGED trees
  BY <1>1 DEF TreesInv, TreesOK, IsOfOneTree, Executed, Replays, SessionIsOpen, IsTree, trees
<1> QED
  BY <1>1, ReviseKeeps, LoseSnapshotKeeps, RecoverSnapshotKeeps, ApplyPatchKeeps, EndKeeps,
     EvaluateKeeps
  DEF TreesNext

\* It holds in every state of a case.
LEMMA Invariance == TreesSpec => []TreesInv
BY TreesInvInit, TreesInvStep, PTL DEF TreesSpec

-----------------------------------------------------------------------------
(* What is stored, replayed or left behind is what was executed.           *)

\* A check of a stored tree runs on what it ran on when the trial was judged.
LEMMA StoredHolds == TreesInv => StoredIsExecuted
<1> SUFFICES ASSUME TreesInv, NEW i \in DOMAIN saved, saved[i].present
             PROVE  Executed(saved[i].tree) = saved[i].executed
  BY DEF StoredIsExecuted
<1>1. Copied(saved[i].tree) = saved[i].hash /\ saved[i].executed = Executed(saved[i].hash)
  BY DEF TreesInv, IsOfOneTree
<1> QED BY <1>1, ExecutedOfCopy

\* Where a diff of the clean tree can be applied to it, the result is what was
\* executed, if it changes the same files.
LEMMA InPlaceHolds == TreesInv => InPlaceEditsReplay
<1> SUFFICES ASSUME TreesInv, NEW i \in DOMAIN saved,
                    \A p \in DOMAIN saved[i].diff :
                      /\ saved[i].diff[p].old.there /\ saved[i].diff[p].new.there
                      /\ ~Torn(saved[i].diff[p])
             PROVE  /\ Applies(clean, saved[i].diff)
                    /\ \A p \in Paths : Text(ApplyUnifiedDiff(clean, saved[i].diff)[p])
                                          = Text(saved[i].executed[p])
  BY DEF InPlaceEditsReplay
<1> DEFINE t == saved[i].hash
           diff == saved[i].diff
<1>1. /\ IsTree(t) /\ diff = DiffBetween(clean, t) /\ saved[i].executed = Executed(t)
      /\ IsTree(clean) /\ \A p \in Paths \cap Excluded : clean[p] = Absent
  BY SavedIsSeq, CleanIsTree DEF TreesInv, TreesOK, IsOfOneTree
<1>2. /\ DOMAIN diff = Changed(clean, t) /\ \A p \in Changed(clean, t) : diff[p].new = t[p]
  BY <1>1, DiffFacts
<1>3. Adds(diff) = {} /\ Deletes(diff) = {}
  BY DEF Adds, Deletes
<1>4. Applies(clean, diff)
  BY <1>3 DEF Applies
<1>5. ASSUME NEW p \in Paths PROVE Text(ApplyUnifiedDiff(clean, diff)[p]) = Text(Executed(t)[p])
  <2>1. CASE p \in Changed(clean, t)
    <3>1. ApplyUnifiedDiff(clean, diff)[p] = t[p]
      BY <1>2, <2>1 DEF ApplyUnifiedDiff
    <3> QED BY <3>1, <2>1, ExecutedFile
  <2>2. CASE p \notin Changed(clean, t)
    <3>1. ApplyUnifiedDiff(clean, diff)[p] = clean[p]
      BY <1>2, <1>3, <2>2 DEF ApplyUnifiedDiff
    <3>2. p \in Excluded => Executed(t)[p] = Absent /\ clean[p] = Absent
      BY <1>1, ExecutedFile
    <3> QED BY <3>1, <3>2, <2>2, ExecutedFile
  <2> QED BY <2>1, <2>2
<1> QED BY <1>1, <1>4, <1>5

\* The verification of finish_revision carries over to the executed tree.
LEMMA FinishedHolds == TreesInv => FinishedReplays
<1> SUFFICES ASSUME TreesInv, NEW i \in DOMAIN saved, saved[i].finished
             PROVE  /\ Applies(clean, saved[i].diff)
                    /\ \A p \in Paths : Text(ApplyUnifiedDiff(clean, saved[i].diff)[p])
                                          = Text(saved[i].executed[p])
  BY DEF FinishedReplays
<1> DEFINE t == saved[i].hash
           diff == saved[i].diff
           out == ApplyUnifiedDiff(clean, diff)
<1>1. /\ IsTree(t) /\ diff = DiffBetween(clean, t) /\ saved[i].executed = Executed(t)
      /\ IsTree(clean) /\ \A p \in Paths \cap Excluded : clean[p] = Absent
      /\ Applies(clean, diff) /\ DiffBetween(clean, out) = diff
  BY SavedIsSeq, CleanIsTree DEF TreesInv, TreesOK, IsOfOneTree, Replays
<1>2. /\ Changed(clean, out) = Changed(clean, t)
      /\ \A p \in Changed(clean, t) : out[p] = t[p]
  BY <1>1, DiffFacts
<1>3. \A p \in Paths \ Changed(clean, t) : Text(out[p]) = Text(clean[p])
  BY <1>1, DiffEffect
<1> HIDE DEF out, diff
<1>4. ASSUME NEW p \in Paths PROVE Text(out[p]) = Text(Executed(t)[p])
  <2>1. CASE p \in Changed(clean, t)
    BY <2>1, <1>2, ExecutedFile
  <2>2. CASE p \notin Changed(clean, t)
    <3>1. p \in Excluded => Executed(t)[p] = Absent /\ clean[p] = Absent
      BY <1>1, ExecutedFile
    <3> QED BY <3>1, <1>3, <2>2, ExecutedFile
  <2> QED BY <2>1, <2>2
<1> QED BY <1>1, <1>4 DEF out, diff

\* Over any sequence of edits, hand-overs and lost snapshots: a stored tree is the one
\* its checks ran on, a patch that changes files in place or was finished gives it
\* when applied to the clean tree (apply_unified_diff, finish_revision,
\* recover_snapshot).
THEOREM ReplaysAreExact == TreesSpec => []ReplayIsExact
<1>1. TreesInv => ReplayIsExact
  BY StoredHolds, InPlaceHolds, FinishedHolds DEF TreesInv, ReplayIsExact
<1> QED BY <1>1, Invariance, PTL

-----------------------------------------------------------------------------
(* The mechanical checks.                                                  *)

\* A line is counted as often as it stands in a file.
LEMMA OccurrencesOfLine ==
  ASSUME NEW file, NEW line
  PROVE  /\ line \notin LinesOf(file) => Occurrences(line, file) = 0
         /\ file \in Files /\ line \in LinesOf(file) => Occurrences(line, file) \in Nat \ {0}
<1> DEFINE places == {i \in DOMAIN file.lines : file.lines[i] = line}
<1>1. ASSUME line \notin LinesOf(file) PROVE Occurrences(line, file) = 0
  <2>1. places = {}
    BY <1>1 DEF LinesOf, ToSet
  <2> QED BY <2>1, FS_EmptySet DEF Occurrences
<1>2. ASSUME file \in Files, line \in LinesOf(file)
      PROVE  Occurrences(line, file) \in Nat \ {0}
  <2>1. file.lines \in Seq(Lines) /\ Len(file.lines) \in Nat
        /\ DOMAIN file.lines = 1 .. Len(file.lines)
    BY <1>2, LenProperties DEF Files
  <2>2. IsFiniteSet(1 .. Len(file.lines))
    BY <2>1, FS_Interval
  <2>3. IsFiniteSet(places) /\ places # {}
    BY <1>2, <2>1, <2>2, FS_Subset DEF LinesOf, ToSet
  <2> HIDE DEF places
  <2>4. Cardinality(places) \in Nat /\ Cardinality(places) # 0
    BY <2>3, FS_CardinalityType, FS_EmptySet
  <2> QED BY <2>4 DEF Occurrences, places
<1> QED BY <1>1, <1>2

\* The last file that lost a definition shows it among its removed lines.
LEMMA LostDefinitionHolds == TreesInv => LostDefinitionIsSeen
<1> SUFFICES ASSUME TreesInv, NEW i \in DOMAIN saved, NEW d \in DefinitionsOf(clean),
                    d \notin DefinitionsOf(saved[i].hash)
             PROVE  Reason("public_definition_deleted") \in saved[i].mechanical
  BY DEF LostDefinitionIsSeen
<1> DEFINE t == saved[i].hash
           diff == saved[i].diff
<1>1. /\ diff = DiffBetween(clean, t) /\ saved[i].mechanical = MechanicalReasons(diff)
      /\ \A p \in Paths \cap Excluded : clean[p] = Absent
  BY SavedIsSeq, CleanIsTree DEF TreesInv, TreesOK, IsOfOneTree
<1>2. /\ DOMAIN diff = Changed(clean, t) /\ Changed(clean, t) \subseteq Paths
      /\ \A p \in Changed(clean, t) : diff[p].old = clean[p] /\ diff[p].new = t[p]
  BY <1>1, DiffFacts
<1>3. PICK p \in Paths : \E l \in LinesOf(clean[p]) : d \in Code[l].defines
  BY DEF DefinitionsOf, Defines
<1>line. PICK line \in LinesOf(clean[p]) : d \in Code[line].defines
  BY <1>3
<1>4. \A q \in Paths : \A l \in LinesOf(t[q]) : d \notin Code[l].defines
  BY DEF DefinitionsOf, Defines
<1>5. line \notin LinesOf(t[p])
  BY <1>line, <1>4
<1>6. p \in Changed(clean, t)
  <2>1. p \notin Excluded
    BY <1>1, <1>line DEF LinesOf, ToSet, Absent
  <2>2. clean[p].lines # t[p].lines
    BY <1>line, <1>5 DEF LinesOf
  <2> QED BY <2>1, <2>2 DEF Changed, Text
<1>count. /\ line \notin LinesOf(t[p]) => Occurrences(line, t[p]) = 0
          /\ line \in LinesOf(clean[p]) => Occurrences(line, clean[p]) \in Nat \ {0}
  BY CleanIsTree, OccurrencesOfLine DEF TreesInv, TreesOK, IsTree
<1> HIDE DEF diff
<1>7. d \in RemovedPublic(diff)
  <2>1. Occurrences(line, t[p]) = 0 /\ Occurrences(line, clean[p]) \in Nat \ {0}
    BY <1>line, <1>5, <1>count
  <2>2. line \in Removed(diff[p].old, diff[p].new)
    BY <1>2, <1>line, <1>6, <2>1 DEF Removed
  <2> QED BY <1>2, <1>line, <1>6, <2>2 DEF RemovedPublic, Defines
<1>8. d \notin AddedPublic(diff)
  <2>1. \A q \in DOMAIN diff : \A l \in Removed(diff[q].new, diff[q].old) : d \notin Code[l].defines
    BY <1>2, <1>4 DEF Removed
  <2> QED BY <2>1 DEF AddedPublic, Defines
<1>9. Reason("public_definition_deleted") \in MechanicalReasons(diff)
  <2>1. RemovedPublic(diff) \ AddedPublic(diff) # {}
    BY <1>7, <1>8
  <2> QED BY ONLY <2>1 DEF MechanicalReasons
<1> QED BY <1>1, <1>9 DEF diff

\* A scope the visitor does not see the binding in.
Unseen(use) ==
  \E j \in DOMAIN use.scopes :
    LET scope == use.scopes[j]
    IN use.name \in scope.captured \cup scope.globals
         \cup (IF scope.kind = "lambda" THEN scope.params ELSE {})

\* Where IsBound finds no binding and Python has one, the visitor cannot see it.
LEMMA UnboundIsUnseen ==
  ASSUME NEW file, NEW use,
         use.scopes \in Seq({use.scopes[k] : k \in DOMAIN use.scopes}),
         \A k \in DOMAIN use.scopes :
           use.scopes[k].params # {} => use.scopes[k].kind \in {"def", "lambda"},
         ~IsBound(use, file), BoundInPython(use, file)
  PROVE  \/ Unseen(use)
         \/ \E line \in LinesOf(file) : use.name \in Code[line].exports
<1> DEFINE Settles(k) == \/ use.name \in use.scopes[k].globals
                         \/ use.name \in Bindings(use.scopes[k]) \ use.scopes[k].nonlocals
           settling == {k \in DOMAIN use.scopes : Settles(k)}
           outermost == CHOOSE k \in settling : \A j \in settling : k <= j
           Decides(k) == /\ use.scopes[k].kind # "class" \/ k = Len(use.scopes)
                         /\ use.name \in Locals(use.scopes[k]) \cup use.scopes[k].globals
           deciding == {k \in DOMAIN use.scopes : Decides(k)}
           innermost == CHOOSE k \in deciding : \A j \in deciding : k >= j
<1>1. DOMAIN use.scopes = 1 .. Len(use.scopes) /\ Len(use.scopes) \in Nat
  BY LenProperties
<1>2. /\ ~(settling # {} /\ use.name \notin use.scopes[outermost].globals)
      /\ use.name \notin ModuleBindings(file)
  BY DEF IsBound
<1>3. \/ deciding # {}
      \/ use.name \in ModuleBindings(file) \cup UNION {Code[line].exports : line \in LinesOf(file)}
  BY SMTT(30) DEF BoundInPython
<1>4. CASE settling # {}
  <2>1. settling \in SUBSET Nat
    BY <1>1
  <2>2. outermost \in settling
    <3> HIDE DEF settling
    <3>1. \E k \in settling : \A j \in settling : k <= j
      BY <1>4, <2>1, LeastNatural
    <3> QED BY <3>1
  <2>3. outermost \in DOMAIN use.scopes /\ use.name \in use.scopes[outermost].globals
    BY <1>2, <1>4, <2>2
  <2> QED BY <2>3 DEF Unseen
<1>5. CASE settling = {} /\ deciding # {}
  <2>1. PICK k \in DOMAIN use.scopes : Decides(k)
    BY <1>5
  <2>2. ~Settles(k)
    BY <1>5, <2>1
  <2>3. CASE use.name \in use.scopes[k].captured
    BY <2>3 DEF Unseen
  <2>4. CASE use.name \in use.scopes[k].params
    <3>1. use.scopes[k].kind \in {"def", "lambda"}
      BY <2>4
    <3>2. use.name \notin use.scopes[k].nonlocals
      BY <2>1, <2>2 DEF Locals
    <3>3. use.scopes[k].kind = "lambda"
      BY <2>2, <2>4, <3>1, <3>2, SMTT(30) DEF Bindings
    <3> QED BY <2>4, <3>3 DEF Unseen
  <2> QED BY <2>1, <2>2, <2>3, <2>4 DEF Locals, Bindings
<1>6. CASE settling = {} /\ deciding = {}
  BY <1>2, <1>3, <1>6
<1> QED BY <1>4, <1>5, <1>6

\* A blamed name is used by a line that was added, in the tree that was judged.
LEMMA BlameHolds == TreesInv => NamesBlamedAreUnbound
<1> SUFFICES ASSUME TreesInv, NEW i \in DOMAIN saved, NEW reason \in saved[i].mechanical,
                    reason.kind = "undefined_name",
                    BoundInPython(reason.use, saved[i].hash[reason.path])
             PROVE  \/ Unseen(reason.use)
                    \/ \E line \in LinesOf(saved[i].hash[reason.path]) :
                         reason.use.name \in Code[line].exports
  BY DEF NamesBlamedAreUnbound, Unseen
<1> DEFINE t == saved[i].hash
           diff == saved[i].diff
<1>1. /\ diff = DiffBetween(clean, t) /\ reason \in MechanicalReasons(diff) /\ IsTree(t)
  BY DEF TreesInv, IsOfOneTree
<1>2. /\ DOMAIN diff = Changed(clean, t) /\ Changed(clean, t) \subseteq Paths
      /\ \A p \in Changed(clean, t) : diff[p].new = t[p]
  BY <1>1, DiffFacts
<1> HIDE DEF diff
<1>3. reason # Reason("forbidden_edit") /\ reason # Reason("public_definition_deleted")
  BY DEF Reason
<1>4. PICK p \in DOMAIN diff : reason \in FileReasons(p, diff[p].old, diff[p].new)
  BY <1>1, <1>3 DEF MechanicalReasons
<1>5. PICK use \in IntroducedUndefined(diff[p].old, diff[p].new) :
        reason = [kind |-> "undefined_name", path |-> p, use |-> use]
  BY <1>4 DEF FileReasons
<1>6. reason.path = p /\ reason.use = use /\ diff[p].new = t[p] /\ p \in Paths
  BY <1>2, <1>4, <1>5
<1>7. PICK line \in LinesOf(t[p]) : use \in Code[line].uses
  BY <1>5, <1>6 DEF IntroducedUndefined, Uses, Added
<1>8. line \in Lines
  <2>1. t[p].lines \in Seq(Lines)
    BY <1>1, <1>6 DEF IsTree, Files
  <2> QED BY <1>7, <2>1 DEF LinesOf, ToSet
<1>9. ~IsBound(use, t[p])
  BY <1>5, <1>6 DEF IntroducedUndefined
<1> QED BY <1>6, <1>7, <1>8, <1>9, ScopesAreOfPython, UnboundIsUnseen

\* The mechanical checks notice every public definition of the clean tree that no file
\* of the trial has, and blame no name that is bound where the visitor looks.
THEOREM VerdictsAreRight == TreesSpec => []MechanicalVerdictIsRight
<1>1. TreesInv => MechanicalVerdictIsRight
  BY LostDefinitionHolds, BlameHolds DEF MechanicalVerdictIsRight
<1> QED BY <1>1, Invariance, PTL

-----------------------------------------------------------------------------
(* An edit changes what it names.                                          *)

\* An edit of either kind leaves the files it does not name.
LEMMA EditKeepsTheRest ==
  ASSUME TreesInv, NEW patch \in Patches, NEW p \in Paths \ (Excluded \cup Named(patch))
  PROVE  Text(Edited(patch).tree[p]) = Text(staging[p])
<1>1. IsTree(staging) /\ IsTree(clean)
  BY SavedIsSeq DEF TreesInv
<1>2. CASE IsCumulative(patch)
  <2> DEFINE out == ApplyUnifiedDiff(staging, DiffBetween(staging, Expected(patch)))
  <2>1. IsTree(Expected(patch)) /\ Expected(patch)[p] = clean[p]
    BY <1>1, PatchEffect DEF Expected
  <2>2. p \notin Changed(clean, Expected(patch))
    BY <2>1 DEF Changed
  <2>3. p \notin Changed(clean, staging)
    BY <1>2, <2>2 DEF IsCumulative
  <2>4. p \notin Changed(staging, Expected(patch))
    BY <2>1, <2>3 DEF Changed
  <2>5. Text(out[p]) = Text(staging[p])
    BY <1>1, <2>1, <2>4, DiffEffect
  <2>6. Edited(patch).tree = out
    BY <1>2 DEF Edited
  <2> QED BY <2>5, <2>6
<1>3. CASE ~IsCumulative(patch)
  BY <1>1, <1>3, PatchEffect DEF Edited
<1> QED BY <1>2, <1>3

\* Whether it is taken for an incremental or a cumulative patch, no edit changes a file
\* its response does not name (RepairToolExecutor.apply_patch).
THEOREM EditsStayInTheirFiles == TreesSpec => OnlyNamedFilesChange
<1> DEFINE Stays ==
             \A p \in Paths \ (Excluded \cup last'.named) : Text(staging'[p]) = Text(staging[p])
<1>1. ASSUME TreesInv, [TreesNext]_trees, edits' = edits + 1 PROVE Stays
  <2>1. edits' # edits
    BY <1>1 DEF TreesInv, TreesOK
  <2>2. PICK patch \in Patches : ApplyPatch(patch)
    BY <1>1, <2>1 DEF TreesNext, trees, Revise, LoseSnapshot, RecoverSnapshot, FinishRevision,
                      EndSession, Evaluate
  <2>3. last'.named = Named(patch)
    BY <2>2 DEF ApplyPatch
  <2>4. CASE staging' = Copied(staging)
    BY <2>4, CopyFacts
  <2>5. CASE staging' = Edited(patch).tree
    BY <1>1, <2>3, <2>5, EditKeepsTheRest
  <2> QED BY <2>2, <2>4, <2>5 DEF ApplyPatch
<1>2. TreesInv /\ [TreesNext]_trees => [edits' = edits + 1 => Stays]_trees
  BY <1>1
<1> QED BY <1>2, Invariance, PTL DEF TreesSpec, OnlyNamedFilesChange

=============================================================================
