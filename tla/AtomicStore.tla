---------------------------- MODULE AtomicStore ----------------------------
(***************************************************************************)
(* What the checkpoint store of a case promises: a checkpoint is on record *)
(* as a whole or not at all, its record may be amended but never removed,  *)
(* and once the case is sealed with one of the checkpoints nothing in the  *)
(* store moves any more.                                                   *)
(***************************************************************************)
EXTENDS Naturals

CONSTANTS Keys, Nothing

VARIABLES
  records,  \* key -> how often its record was amended, or Nothing
  sealed    \* the key the case was sealed with, or Nothing

storeVars == <<records, sealed>>

StoreInit ==
  /\ records = [k \in Keys |-> Nothing]
  /\ sealed = Nothing

Put(k) ==
  /\ sealed = Nothing
  /\ records[k] = Nothing
  /\ records' = [records EXCEPT ![k] = 0]
  /\ UNCHANGED sealed

Amend(k) ==
  /\ sealed = Nothing
  /\ records[k] # Nothing
  /\ records' = [records EXCEPT ![k] = records[k] + 1]
  /\ UNCHANGED sealed

SealWith(k) ==
  /\ sealed = Nothing
  /\ records[k] # Nothing
  /\ sealed' = k
  /\ UNCHANGED records

StoreNext == \E k \in Keys : Put(k) \/ Amend(k) \/ SealWith(k)

StoreSpec == StoreInit /\ [][StoreNext]_storeVars
=============================================================================
