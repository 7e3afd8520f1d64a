----------------------------- MODULE RecordQueue -----------------------------
(***************************************************************************)
(* What the delivery of AVL records promises, whatever happens to packets,  *)
(* connections and processes: records are stored one by one, in any order;  *)
(* the device deletes them in their own order, and only what is stored or   *)
(* was never to be stored; nothing stored is ever lost, and a record that   *)
(* the device has deleted is settled for good.                              *)
(***************************************************************************)
EXTENDS Naturals

CONSTANTS N,        \* records of the device
          Storable  \* the ones to be stored

VARIABLES stored,   \* records in the database
          deleted   \* the device has deleted records 1..deleted

queueVars == <<stored, deleted>>

QueueInit == stored = {} /\ deleted = 0

Store(r) ==
    /\ r > deleted
    /\ stored' = stored \cup {r}
    /\ UNCHANGED deleted

Delete(k) ==
    /\ k > deleted
    /\ \A r \in Storable : (deleted < r /\ r <= k) => r \in stored
    /\ deleted' = k
    /\ UNCHANGED stored

QueueNext == \/ \E r \in Storable : Store(r)
             \/ \E k \in 1..N : Delete(k)

QueueSpec == QueueInit /\ [][QueueNext]_queueVars
=============================================================================
