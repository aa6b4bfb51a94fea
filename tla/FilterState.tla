----------------------------- MODULE FilterState -----------------------------
(***************************************************************************)
(* The state of LockFreeCuckooFilter (lock_free_filter.h): the table, the  *)
(* HashEntry objects, the hazard and retired pointers; and, per thread,    *)
(* where it is and the local variables it holds.                           *)
(*                                                                         *)
(* The table is read with plain loads and changed with compare-and-swap    *)
(* only.  One action of the modules that extend this one is one access to  *)
(* the shared table, or one announcement of a hazard pointer, with the     *)
(* local computation that follows it up to the next of these.  (That a     *)
(* thread withdraws its announcements goes with the step before: it puts   *)
(* no entry under protection.)  What an action leaves for later is in the  *)
(* frame of the procedure the thread is in: ins, fnd, rem, rel and hlp are *)
(* the local variables of insert, find, remove, relocate and               *)
(* help_relocate.  A frame that is not in use has its empty value.         *)
(***************************************************************************)
EXTENDS PartialKey, TablePointer, Sequences, Functions

CONSTANTS
  Thread,     \* the thread ids
  Free,       \* content of an address that holds no HashEntry
  Calls,      \* [Thread -> SUBSET [op : Op, key : Key]]: what a thread may call
  MaxCalls,   \* bound: calls made by one thread
  MaxResets,  \* bound: calls of reset
  InitTable,  \* the table the threads start with
  InitHeap    \* the entries that table points to

VARIABLES
  hash_table,    \* [Location -> table_pointer]
  heap,          \* [Address -> Fingerprint \cup {Free}]: the HashEntry objects
  hazard_ptrs,   \* [Thread -> [HazardIndex -> AddressOrNull]]
  retired_ptrs,  \* [Thread -> Seq(Address)]
  leaked,        \* ghost: addresses nothing refers to any more
  status,        \* "running", "aborted" or "destroyed"
  resets,        \* number of resets, for its bound
  pc,            \* per thread: the step it takes next, "idle" outside a call
  call, result, ncalls,    \* per thread: its current or last call
  ins, fnd, rem, rel, hlp  \* per thread: frames of the procedures

(* Groups of variables an action leaves alone together. *)
others  == <<heap, retired_ptrs, leaked, status, resets>>
shared  == <<hash_table, others>>
calls   == <<call, result, ncalls>>
callers == <<calls, ins, fnd, rem, rel>>  \* what help_relocate leaves alone
vars    == <<shared, hazard_ptrs, pc, callers, hlp>>

Op == {"insert", "find", "remove"}
HazardIndex == {0, 1}       \* MAX_HAZARD_POINTER_COUNT is 2
Level == 0 .. NUM_MAX_KICKS - 1
NotFound == NUM_ITEMS_PER_ENTRY * 2
AddressOrNull == Address \cup {NULL}

(* A table as the clients may find it: nothing is being relocated, no entry
   is stored twice, each is where an operation on its key looks, and no
   entry is anywhere else. *)
AtRest(table, entries) ==
  /\ \A l \in Location : ~table[l].marked
  /\ \A l, m \in Location : table[l].real # NULL =>
       /\ entries[table[l].real] # Free
       /\ Examined(entries[table[l].real], l[1])
       /\ table[l].real = table[m].real => l = m
  /\ \A a \in Address : entries[a] # Free => \E l \in Location : table[l].real = a

ASSUME FilterAssumption ==
  /\ Free \notin Fingerprint
  /\ NULL \notin Key
  /\ Calls \in [Thread -> SUBSET [op : Op, key : Key]]
  /\ MaxCalls \in Nat
  /\ MaxResets \in Nat
  /\ InitTable \in [Location -> table_pointer]
  /\ InitHeap \in [Address -> Fingerprint \cup {Free}]
  /\ AtRest(InitTable, InitHeap)

-----------------------------------------------------------------------------
NoCall   == [op |-> "none", key |-> NULL]
NoHazard == [j \in HazardIndex |-> NULL]
NoIns == [entry |-> NULL, pos |-> 0, found_empty |-> FALSE,
          ptr1 |-> empty_slot, untried |-> {}]
NoFnd == [slot |-> 0, ptr |-> empty_slot, ts1 |-> 0, ts2 |-> 0, ts1x |-> 0]
NoRem == [location |-> 0, ptr1 |-> empty_slot]
NoRel == [idx |-> 0, slot |-> 0, route |-> [d \in Level |-> 0], depth |-> 0,
          left |-> 0, ptr |-> empty_slot, source |-> NULL]
NoHlp == [idx |-> 0, slot |-> 0, initiator |-> FALSE, ptr1 |-> empty_slot,
          ptr2 |-> empty_slot, ret |-> "idle"]

Goto(t, label) == pc' = [pc EXCEPT ![t] = label]

(* Mutant: every pointer takes the first hazard pointer of the thread. *)
MarkHazard_first(t, j, p) == hazard_ptrs' = [hazard_ptrs EXCEPT ![t][0] = p]

(* mark_hazard and clear_hazard *)
MarkHazard(t, j, p) == hazard_ptrs' = [hazard_ptrs EXCEPT ![t][j] = p]
ClearHazard(t)      == hazard_ptrs' = [hazard_ptrs EXCEPT ![t] = NoHazard]

(* __sync_bool_compare_and_swap: it succeeds when Holds(l, old); CAS also
   covers its failure where the caller does not look at the outcome. *)
Holds_blind(l, old) == TRUE  \* mutant: the swap always succeeds
Holds(l, old) == hash_table[l] = old
Store(l, new) == hash_table' = [hash_table EXCEPT ![l] = new]
CAS_blind(l, old, new) == Store(l, new)  \* mutant: a plain store
CAS(l, old, new) ==
  hash_table' = IF Holds(l, old) THEN [hash_table EXCEPT ![l] = new]
                                 ELSE hash_table

(* Fingerprint of the key a thread works on. *)
fingerprint(t) == md5_fingerprint[call[t].key]

(* The beginning of a public operation. *)
Begin(t, op, k, label) ==
  /\ pc[t] = "idle"
  /\ [op |-> op, key |-> k] \in Calls[t]
  /\ ncalls[t] < MaxCalls
  /\ call' = [call EXCEPT ![t] = [op |-> op, key |-> k]]
  /\ result' = [result EXCEPT ![t] = "none"]
  /\ ncalls' = [ncalls EXCEPT ![t] = @ + 1]
  /\ ClearHazard(t)
  /\ Goto(t, label)

(* The end of a public operation: the frames of the thread are gone. *)
Return(t, value) ==
  /\ Goto(t, "idle")
  /\ result' = [result EXCEPT ![t] = value]
  /\ ins' = [ins EXCEPT ![t] = NoIns]
  /\ fnd' = [fnd EXCEPT ![t] = NoFnd]
  /\ rem' = [rem EXCEPT ![t] = NoRem]
  /\ UNCHANGED <<rel, hlp, call, ncalls>>

(* find and relocate call help_relocate and go on at ret after it. *)
CallHelp(t, idx, slot, initiator, ret) ==
  /\ Goto(t, "hlp_load")
  /\ ClearHazard(t)
  /\ hlp' = [hlp EXCEPT ![t] = [NoHlp EXCEPT !.idx = idx, !.slot = slot,
                                  !.initiator = initiator, !.ret = ret]]
=============================================================================
