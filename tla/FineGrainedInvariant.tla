------------------------ MODULE FineGrainedInvariant ------------------------
(***************************************************************************)
(* The inductive invariant of FineGrainedFilter: who holds which mutex,    *)
(* what a thread that has selected a slot still knows of it, and which     *)
(* items a search has left behind.                                         *)
(***************************************************************************)
EXTENDS FineGrainedHistory, LockedTableInvariant

TypeOK ==
  /\ TableTypeOK
  /\ writer \in [Mutex -> SUBSET Thread]
  /\ readers \in [Mutex -> SUBSET Thread]
  /\ status \in {"running", "overtaken", "undefined"}

(* A mutex is held by the threads that scan or change a bucket of its group,
   and by nobody else: no return and no step to the next bucket forgets to
   unlock.  A writer is alone. *)
MutexesExclude ==
  \A m \in Mutex :
    /\ \A t \in Thread :
         LET inside == pc[t] \in {"scan", "apply"} /\ mutex_of(frame[t].bucket) = m IN
         /\ t \in writer[m] <=> inside /\ ~Shares(t)
         /\ t \in readers[m] <=> inside /\ Shares(t)
    /\ \A t \in writer[m] : writer[m] = {t} /\ readers[m] = {}

LockInv == TableInv /\ TypeOK /\ MutexesExclude

(* Until a swap overtakes another thread, every hand is full, and the slot that
   a thread has selected is still as it was. *)
SlotOK(t) ==
  /\ frame[t].fingerprint # Empty
  /\ pc[t] = "apply" => hash_table[Target(t)] = Sought(t)

IInv == LockInv /\ (status = "running" => \A t \in Thread : pc[t] # "idle" => SlotOK(t))

(* Only a find or a remove has a history; an item that has stayed is in one of
   its buckets, and not in the one that it has scanned. *)
StayedOK(t) ==
  /\ stayed[t] # {} => pc[t] # "idle" /\ call[t].op # "insert"
  /\ \A l \in stayed[t] :
       /\ hash_table[l] = fingerprint(t)
       /\ l[1] \in {hash1(call[t].key), hash2(call[t].key)}
       /\ frame[t].round = 2 => l[1] # hash1(call[t].key)

SearchInv ==
  /\ stayed \in [Thread -> SUBSET Location]
  /\ \A t \in Thread : StayedOK(t)
=============================================================================
