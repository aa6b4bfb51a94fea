-------------------------- MODULE FineGrainedFilter --------------------------
(***************************************************************************)
(* FineGrainedFilter (fine_grained_locked_filter.cpp): every bucket has    *)
(* one of a few mutexes.  A scan holds the mutex of its bucket, exclusively *)
(* or, in find, shared; between two scans a thread holds none.  The swap   *)
(* of a replacement is done without any mutex.                             *)
(***************************************************************************)
EXTENDS LockedTable

CONSTANT NumMutexes  \* 8 in the code

ASSUME NumMutexesAssumption == NumMutexes \in Nat \ {0}

VARIABLES
  writer,   \* [Mutex -> SUBSET Thread]: the thread that has locked it, if any
  readers,  \* [Mutex -> SUBSET Thread]: the threads that share it
  status    \* "running", "overtaken" or "undefined"

vars == <<hash_table, local, writer, readers, status>>

Mutex == 0 .. NumMutexes - 1
mutex_of(b) == b % NumMutexes

Shares(t) == call[t].op = "find"

Call(t) ==
  /\ \E op \in Op, k \in Key : Begin(t, op, k, "lock")
  /\ UNCHANGED <<writer, readers, status>>

Excluded_never(m) == FALSE  \* mutant: writers exclude nobody
Excluded(m) == writer[m] # {}

(* Who waits: everybody for a writer, a writer for the readers, too. *)
Waits(t, m) == Excluded(m) \/ (~Shares(t) /\ readers[m] # {})

Lock(t) ==
  LET m == mutex_of(frame[t].bucket) IN
  /\ pc[t] = "lock"
  /\ ~Waits(t, m)
  /\ IF Shares(t) THEN /\ readers' = [readers EXCEPT ![m] = @ \cup {t}]
                       /\ UNCHANGED writer
                  ELSE /\ writer' = [writer EXCEPT ![m] = {t}]
                       /\ UNCHANGED readers
  /\ Goto(t, "scan", frame[t])
  /\ UNCHANGED <<hash_table, call, result, ncalls, status>>

Unlock_forgotten(t) == UNCHANGED <<writer, readers>>  \* mutant: as it says
Unlock(t) ==
  /\ writer' = [m \in Mutex |-> writer[m] \ {t}]
  /\ readers' = [m \in Mutex |-> readers[m] \ {t}]

(* The first bucket is released before the second is locked. *)
ReleaseFirst(t) == SecondBucket(t, "lock") /\ Unlock(t)

(* The steps under a mutex, and those that release it. *)
Locked(t)   == Select(t) /\ UNCHANGED <<writer, readers>>
Released(t) == (Found(t) \/ Apply(t) \/ GiveUp(t) \/ Pick(t)) /\ Unlock(t)

-----------------------------------------------------------------------------
(* The swap of a replacement, without a mutex. *)

(* It comes between the scan of another thread and the change that the other
   makes to the slot, or the slot has been cleared since it was seen full. *)
Overtakes(t) ==
  \/ hash_table[Target(t)] = Empty
  \/ \E u \in Thread : pc[u] = "apply" /\ Target(u) = Target(t)

SwapUnlocked(t) ==
  /\ Swap(t, "lock")
  /\ status' = IF Overtakes(t) THEN "overtaken" ELSE status
  /\ UNCHANGED <<writer, readers>>

(* Another thread reads or writes the string in the slot at the same time. *)
Conflicts(t) ==
  \E u \in Thread \ {t} :
    \/ pc[u] = "scan" /\ frame[u].bucket = frame[t].bucket
    \/ pc[u] \in {"apply", "swap"} /\ Target(u) = Target(t)

(* Then the behaviour is undefined, and the model ends. *)
DataRace(t) ==
  /\ pc[t] = "swap"
  /\ Conflicts(t)
  /\ status' = "undefined"
  /\ UNCHANGED <<hash_table, local, writer, readers>>

Step(t) ==
  /\ status # "undefined"
  /\ \/ Lock(t) \/ SwapUnlocked(t) \/ DataRace(t)
     \/ (Locked(t) \/ ReleaseFirst(t) \/ Released(t)) /\ UNCHANGED status

Init ==
  /\ TableInit
  /\ writer = [m \in Mutex |-> {}]
  /\ readers = [m \in Mutex |-> {}]
  /\ status = "running"
Next == \E t \in Thread : (status # "undefined" /\ Call(t)) \/ Step(t)
Spec == Init /\ [][Next]_vars /\ \A t \in Thread : WF_vars(Step(t))

-----------------------------------------------------------------------------
Abstract == INSTANCE AbstractFilter
  WITH items <- Items, result <- Results, Initially <- InitItems,
       Misses <- TRUE

(* As long as no replacement has overtaken another thread, the filter is a bag
   with atomic operations, but for two things that its header denies: find and
   remove may miss an item, one that an insert has in its hands for example
   (fine_grained_locked_filter.h:61), and an insert that has replaced other items
   may answer false although its own is stored, and lose the last one it has
   taken out (fine_grained_locked_filter.h:55).  Beyond that two inserts never
   take the same slot, nor two removes the same item. *)
BagUntilOvertaken ==
  /\ Abstract!Init
  /\ [][status' = "running" =>
         Abstract!Next \/ \E t \in Thread : Abstract!Drop(t)]_(Abstract!vars)

(* Every call returns: no thread waits for ever for a mutex. *)
CallsReturn ==
  \A t \in Thread : pc[t] # "idle" ~> (pc[t] = "idle" \/ status = "undefined")
=============================================================================
