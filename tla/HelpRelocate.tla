---------------------------- MODULE HelpRelocate ----------------------------
(***************************************************************************)
(* help_relocate: move the item of one slot to its other bucket.  The      *)
(* initiator marks the slot; whoever meets a marked slot helps.            *)
(***************************************************************************)
EXTENDS FilterState

HlpReturn(t) ==
  /\ Goto(t, hlp[t].ret)
  /\ hlp' = [hlp EXCEPT ![t] = NoHlp]

HlpSource(t) == <<hlp[t].idx, hlp[t].slot>>

(* Mutant: the item goes to a bucket next to its own, as in linear probing. *)
HlpDest_neighbour(t) ==
  <<(hlp[t].idx + TableSize - 1) % TableSize, hlp[t].slot>>

HlpDest(t) ==
  <<get_next_hash_index(hlp[t].idx, heap[hlp[t].ptr1.real]), hlp[t].slot>>

(* Load the source slot, again after each attempt to mark it; then announce
   what it held. *)
HlpLoad(t) ==
  /\ pc[t] = "hlp_load"
  /\ hlp' = [hlp EXCEPT ![t].ptr1 = hash_table[HlpSource(t)]]
  /\ Goto(t, "hlp_hold1")
  /\ UNCHANGED <<shared, hazard_ptrs, callers>>

HlpHold1(t) ==
  LET p == hlp[t].ptr1 IN
  /\ pc[t] = "hlp_hold1"
  /\ MarkHazard(t, 0, p.real)
  /\ \/ /\ ~p.marked
        /\ p.real = NULL \/ ~hlp[t].initiator
        /\ HlpReturn(t)
     \/ /\ ~p.marked
        /\ p.real # NULL /\ hlp[t].initiator
        /\ Goto(t, "hlp_mark")
        /\ UNCHANGED hlp
     \/ /\ p.marked
        /\ Goto(t, "hlp_dst")
        /\ UNCHANGED hlp
  /\ UNCHANGED <<shared, callers>>

HlpMark(t) ==
  /\ pc[t] = "hlp_mark"
  /\ CAS(HlpSource(t), hlp[t].ptr1, get_new_mark(hlp[t].ptr1, TRUE))
  /\ hlp' = [hlp EXCEPT ![t].ptr1 = empty_slot]
  /\ Goto(t, "hlp_load")
  /\ UNCHANGED <<others, hazard_ptrs, callers>>

(* Load the destination slot, which takes the fingerprint of the entry. *)
HlpDst(t) ==
  /\ pc[t] = "hlp_dst"
  /\ hlp' = [hlp EXCEPT ![t].ptr2 = hash_table[HlpDest(t)]]
  /\ Goto(t, "hlp_hold2")
  /\ UNCHANGED <<shared, hazard_ptrs, callers>>

HlpHold2(t) ==
  LET p == hlp[t].ptr2 IN
  /\ pc[t] = "hlp_hold2"
  /\ MarkHazard(t, 1, p.real)
  /\ \/ p.real = NULL /\ Goto(t, "hlp_check")
     \/ p.real = hlp[t].ptr1.real /\ Goto(t, "hlp_done")
     \/ p.real \notin {NULL, hlp[t].ptr1.real} /\ Goto(t, "hlp_busy")
  /\ UNCHANGED <<shared, callers, hlp>>

(* Make sure the source has not changed before moving its item. *)
HlpCheck(t) ==
  /\ pc[t] = "hlp_check"
  /\ \/ /\ ~Holds(HlpSource(t), hlp[t].ptr1)
        /\ hlp' = [hlp EXCEPT ![t] = [@ EXCEPT !.ptr1 = empty_slot,
                                               !.ptr2 = empty_slot]]
        /\ Goto(t, "hlp_load")
     \/ /\ Holds(HlpSource(t), hlp[t].ptr1)
        /\ Goto(t, "hlp_move")
        /\ UNCHANGED hlp
  /\ UNCHANGED <<shared, hazard_ptrs, callers>>

(* Mutants: the counter of one of the two slots is ignored. *)
MovedCounter_of_source(c1, c2) == c1 + 1
MovedCounter_of_target(c1, c2) == c2 + 1

(* The counter of a moved item exceeds the counters of both slots. *)
MovedCounter(c1, c2) == IF c1 > c2 THEN c1 + 1 ELSE c2 + 1

(* create_pointer aborts the process on a counter that does not fit. *)
Abort == status' = "aborted" /\ UNCHANGED <<hash_table, pc, hlp>>

HlpMove(t) ==
  LET n == MovedCounter(hlp[t].ptr1.counter, hlp[t].ptr2.counter) IN
  /\ pc[t] = "hlp_move"
  /\ \/ ~CounterFits(n) /\ Abort
     \/ /\ CounterFits(n)
        /\ Holds(HlpDest(t), hlp[t].ptr2)
        /\ Store(HlpDest(t), create_pointer(n, hlp[t].ptr1.real, FALSE))
        /\ Goto(t, "hlp_clear")
        /\ UNCHANGED <<status, hlp>>
     \/ /\ CounterFits(n)
        /\ ~Holds(HlpDest(t), hlp[t].ptr2)
        /\ Goto(t, "hlp_busy")
        /\ UNCHANGED <<hash_table, status, hlp>>
  /\ UNCHANGED <<heap, retired_ptrs, leaked, resets, hazard_ptrs, callers>>

(* Mutant: the source keeps its counter when it is cleared. *)
Vacated_same_counter(p) == create_pointer(p.counter, NULL, FALSE)

Vacated(p) == create_pointer(p.counter + 1, NULL, FALSE)

(* Mutant: the source is left as it is. *)
HlpClear_forgotten(t) ==
  pc[t] = "hlp_clear" /\ HlpReturn(t) /\ UNCHANGED <<shared, hazard_ptrs, callers>>

HlpClear(t) ==
  /\ pc[t] = "hlp_clear"
  /\ CAS(HlpSource(t), hlp[t].ptr1, Vacated(hlp[t].ptr1))
  /\ HlpReturn(t)
  /\ UNCHANGED <<others, hazard_ptrs, callers>>

(* The last two exits swap the destination, not the source, against ptr1. *)
DestCas(t, new) ==
  /\ \/ ~CounterFits(new.counter) /\ Abort
     \/ /\ CounterFits(new.counter)
        /\ CAS(HlpDest(t), hlp[t].ptr1, new)
        /\ HlpReturn(t)
        /\ UNCHANGED status
  /\ UNCHANGED <<heap, retired_ptrs, leaked, resets, hazard_ptrs, callers>>

(* The destination already holds the item. *)
HlpDone(t) ==
  /\ pc[t] = "hlp_done"
  /\ DestCas(t, Vacated(hlp[t].ptr1))

(* The destination was taken by another item. *)
HlpBusy(t) ==
  /\ pc[t] = "hlp_busy"
  /\ DestCas(t, create_pointer(hlp[t].ptr1.counter + 1, hlp[t].ptr1.real, TRUE))

HelpStep(t) ==
  \/ HlpLoad(t) \/ HlpHold1(t) \/ HlpMark(t) \/ HlpDst(t) \/ HlpHold2(t) \/ HlpCheck(t)
  \/ HlpMove(t) \/ HlpClear(t) \/ HlpDone(t) \/ HlpBusy(t)
=============================================================================
