------------------------ MODULE SequentialInvariant ------------------------
(***************************************************************************)
(* The inductive invariant of SequentialFilter: who holds the mutex, and   *)
(* what the scans of a call have shown of the table.                       *)
(***************************************************************************)
EXTENDS SequentialFilter, LockedTableInvariant

TypeOK == TableTypeOK /\ mtx \in Thread \cup {NoOwner}

(* The mutex is held by the thread between its lock and the return of its
   call, and by nobody else: none of the returns forgets to unlock. *)
Exclusive == \A t \in Thread : mtx = t <=> pc[t] \notin {"idle", "lock"}

LockInv == TableInv /\ TypeOK /\ Exclusive

(* The scans of a call have been in vain so far, and the slot it has selected is
   still as it was. *)
ScanOK(t) ==
  /\ frame[t].fingerprint # Empty
  /\ pc[t] = "lock" => frame[t].round = 1
  /\ frame[t].round = 2 => \A s \in Slot : hash_table[hash1(call[t].key), s] # Sought(t)
  /\ pc[t] = "apply" => hash_table[Target(t)] = Sought(t)
  /\ pc[t] = "swap" => hash_table[Target(t)] # Empty

IInv == LockInv /\ PlacedInv /\ \A t \in Thread : pc[t] # "idle" => ScanOK(t)
=============================================================================
