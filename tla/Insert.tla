------------------------------- MODULE Insert -------------------------------
(***************************************************************************)
(* insert: put a new entry in an empty slot of one of the key's two        *)
(* buckets, after relocating other items when there is none.               *)
(***************************************************************************)
EXTENDS FilterState

FreeAddress == {a \in Address : heap[a] = Free}
NewAddress  == CHOOSE a \in FreeAddress : TRUE

InsertCall(t, k) ==
  /\ FreeAddress # {}
  /\ Begin(t, "insert", k, "ins_read")
  /\ heap' = [heap EXCEPT ![NewAddress] = md5_fingerprint[k]]
  /\ ins' = [ins EXCEPT ![t] = [NoIns EXCEPT !.entry = NewAddress]]
  /\ UNCHANGED <<hash_table, retired_ptrs, leaked, status, resets, fnd, rem,
                 rel, hlp>>

(* The scan alternates between the two buckets: probe n looks at slot n \div 2
   of the first bucket when n is even, of the second when it is odd. *)
LastProbe == 2 * NUM_ITEMS_PER_ENTRY - 1
Probed(t) ==
  <<IF ins[t].pos % 2 = 0 THEN hash1(call[t].key) ELSE hash2(call[t].key),
    ins[t].pos \div 2>>

(* On to the next probe; after the last one scan again if an empty slot was
   seen, or start kicking items out of the first bucket. *)
NextProbe(t, found_empty) ==
  LET i    == ins[t]
      last == i.pos = LastProbe
      kick == last /\ ~found_empty
  IN
  /\ ins' = [ins EXCEPT ![t] =
               [entry |-> i.entry, pos |-> IF last THEN 0 ELSE i.pos + 1,
                found_empty |-> ~last /\ found_empty, ptr1 |-> empty_slot,
                untried |-> IF kick THEN Slot ELSE {}]]
  /\ Goto(t, IF kick THEN "ins_kick" ELSE "ins_read")

InsRead(t) ==
  LET p == hash_table[Probed(t)] IN
  /\ pc[t] = "ins_read"
  /\ \/ /\ p.real = NULL
        /\ ins' = [ins EXCEPT ![t] = [@ EXCEPT !.ptr1 = p,
                                               !.found_empty = TRUE]]
        /\ Goto(t, "ins_cas")
     \/ /\ p.real # NULL
        /\ NextProbe(t, ins[t].found_empty)
  /\ UNCHANGED <<shared, hazard_ptrs, calls, fnd, rem, rel, hlp>>

InsCas(t) ==
  LET p == ins[t].ptr1 IN
  /\ pc[t] = "ins_cas"
  /\ \/ /\ Holds(Probed(t), p)
        /\ Store(Probed(t), create_pointer(p.counter, ins[t].entry, FALSE))
        /\ Return(t, "true")
     \/ /\ ~Holds(Probed(t), p)
        /\ NextProbe(t, TRUE)
        /\ UNCHANGED <<hash_table, calls, fnd, rem, rel, hlp>>
  /\ UNCHANGED <<others, hazard_ptrs>>

(* The shuffled order of the slots: any slot not tried yet comes next. *)
InsKick(t) ==
  /\ pc[t] = "ins_kick"
  /\ \E s \in ins[t].untried :
       /\ ins' = [ins EXCEPT ![t].untried = @ \ {s}]
       /\ rel' = [rel EXCEPT ![t] = [NoRel EXCEPT !.idx = hash1(call[t].key),
                                                  !.slot = s]]
  /\ Goto(t, "rel_probe")
  /\ UNCHANGED <<shared, hazard_ptrs, calls, fnd, rem, hlp>>

(* No item could be moved: insert gives up and drops its new entry. *)
InsFail(t) ==
  /\ pc[t] = "ins_kick"
  /\ ins[t].untried = {}
  /\ leaked' = leaked \cup {ins[t].entry}
  /\ Return(t, "false")
  /\ UNCHANGED <<hash_table, heap, retired_ptrs, status, resets, hazard_ptrs>>

InsertStep(t) == InsRead(t) \/ InsCas(t) \/ InsKick(t) \/ InsFail(t)
=============================================================================
