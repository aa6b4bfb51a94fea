-------------------------- MODULE SequentialFilter --------------------------
(***************************************************************************)
(* SequentialFilter (seq_filter.cpp), the coarse-grained locked filter:    *)
(* every operation holds the one mutex from its beginning to its end, and  *)
(* unlocks it by hand before each return.                                  *)
(***************************************************************************)
EXTENDS LockedTable

CONSTANT NoOwner

ASSUME NoOwnerAssumption == NoOwner \notin Thread

VARIABLE mtx  \* the thread that holds the mutex, or NoOwner

vars == <<hash_table, local, mtx>>

MutexFree_ignored == TRUE  \* mutant: the mutex excludes nobody
MutexFree == mtx = NoOwner

Call(t) ==
  /\ \E op \in Op, k \in Key : Begin(t, op, k, "lock")
  /\ UNCHANGED mtx

Lock(t) ==
  /\ pc[t] = "lock"
  /\ MutexFree
  /\ mtx' = t
  /\ Goto(t, "scan", frame[t])
  /\ UNCHANGED <<hash_table, call, result, ncalls>>

(* The steps that keep the mutex, and those that end the call. *)
Inside(t) ==
  /\ Select(t) \/ SecondBucket(t, "scan") \/ Pick(t) \/ Swap(t, "scan")
  /\ UNCHANGED mtx
Success(t) == (Found(t) \/ Apply(t)) /\ mtx' = NoOwner
Failure(t) == GiveUp(t) /\ mtx' = NoOwner

Step(t) == Lock(t) \/ Inside(t) \/ Success(t) \/ Failure(t)

(* The clients are done. *)
Done == (\A t \in Thread : pc[t] = "idle") /\ UNCHANGED vars

Init == TableInit /\ mtx = NoOwner
Next == Done \/ \E t \in Thread : Call(t) \/ Step(t)
Spec == Init /\ [][Next]_vars /\ \A t \in Thread : WF_vars(Step(t))

-----------------------------------------------------------------------------
Abstract == INSTANCE AbstractFilter
  WITH items <- Items, result <- Results, Initially <- InitItems,
       Misses <- FALSE

(* The filter is a bag with atomic operations: insert answers true when it has
   stored its item, and false when it has changed nothing (seq_filter.h:50). *)
ImplementsAbstract == Abstract!Spec

(* Under its mutex the filter is such a bag but for one kind of step, which
   seq_filter.h:50 denies: an insert that has replaced NUM_MAX_KICKS items
   answers false although its own item is stored, and the last one it has taken
   out is gone.  Beyond that no item is missed, doubled or lost. *)
BagButForFailures ==
  /\ Abstract!Init
  /\ [][Abstract!Next \/ \E t \in Thread : Abstract!Drop(t)]_(Abstract!vars)

(* Every call returns and leaves the mutex to the next. *)
CallsReturn == \A t \in Thread : pc[t] # "idle" ~> pc[t] = "idle"
=============================================================================
