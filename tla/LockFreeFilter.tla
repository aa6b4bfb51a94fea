--------------------------- MODULE LockFreeFilter ---------------------------
(***************************************************************************)
(* LockFreeCuckooFilter as a whole (lock_free_filter.cpp): several threads *)
(* that call insert, find and remove in any order and interleaving, and a  *)
(* client that resets or destroys the filter when no call is running.      *)
(***************************************************************************)
EXTENDS Insert, FindRemove, Relocate, HelpRelocate

(***************************************************************************)
(* reset and the destructor.  Both delete what the table points to, and    *)
(* drop the retired pointers without deleting them.                        *)
(***************************************************************************)
AllIdle == \A t \in Thread : pc[t] = "idle"
Stored  == {hash_table[l].real : l \in Location} \ {NULL}
Retired == UNION {Range(retired_ptrs[t]) : t \in Thread}

EmptyTable_kept == hash_table  \* mutant: the table is not cleared
EmptyTable == [l \in Location |-> empty_slot]

DeleteAll ==
  /\ AllIdle
  /\ heap' = [a \in Address |-> IF a \in Stored THEN Free ELSE heap[a]]
  /\ hash_table' = EmptyTable
  /\ hazard_ptrs' = [t \in Thread |-> NoHazard]
  /\ retired_ptrs' = [t \in Thread |-> <<>>]
  /\ leaked' = (leaked \cup Retired) \ Stored

(* With the capacity and number of threads the filter already has. *)
Reset ==
  /\ resets < MaxResets
  /\ DeleteAll
  /\ resets' = resets + 1
  /\ UNCHANGED <<status, pc, callers, hlp>>

Destroy ==
  /\ DeleteAll
  /\ status' = "destroyed"
  /\ UNCHANGED <<resets, pc, callers, hlp>>

-----------------------------------------------------------------------------
Init ==
  /\ hash_table = InitTable
  /\ heap = InitHeap
  /\ hazard_ptrs = [t \in Thread |-> NoHazard]
  /\ retired_ptrs = [t \in Thread |-> <<>>]
  /\ leaked = {}
  /\ status = "running"
  /\ resets = 0
  /\ pc = [t \in Thread |-> "idle"]
  /\ call = [t \in Thread |-> NoCall]
  /\ result = [t \in Thread |-> "none"]
  /\ ncalls = [t \in Thread |-> 0]
  /\ ins = [t \in Thread |-> NoIns]
  /\ fnd = [t \in Thread |-> NoFnd]
  /\ rem = [t \in Thread |-> NoRem]
  /\ rel = [t \in Thread |-> NoRel]
  /\ hlp = [t \in Thread |-> NoHlp]

NewCall(t) ==
  \E k \in Key : InsertCall(t, k) \/ FindCall(t, k) \/ RemoveCall(t, k)

(* A step of the operation thread t is in. *)
Step(t) ==
  /\ status = "running"
  /\ InsertStep(t) \/ FindStep(t) \/ RemCas(t) \/ RelocateStep(t) \/ HelpStep(t)

(* After abort() or the destructor nothing happens. *)
Halted == status # "running" /\ UNCHANGED vars

Next ==
  \/ status = "running" /\ (Reset \/ Destroy \/ \E t \in Thread : NewCall(t))
  \/ \E t \in Thread : Step(t)
  \/ Halted

Spec == Init /\ [][Next]_vars

(* Every thread that is in an operation gets to run. *)
FairSpec == Spec /\ \A t \in Thread : WF_vars(Step(t))
=============================================================================
