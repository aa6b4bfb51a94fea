----------------------------- MODULE FindRemove -----------------------------
(***************************************************************************)
(* find, which reads the two slots of a key level by level and rereads     *)
(* their counters, and remove, which swaps out what find has found.        *)
(***************************************************************************)
EXTENDS FilterState

FindCall(t, k) ==
  /\ Begin(t, "find", k, "fnd_first")
  /\ UNCHANGED <<shared, ins, fnd, rem, rel, hlp>>

RemoveCall(t, k) ==
  /\ Begin(t, "remove", k, "fnd_first")
  /\ UNCHANGED <<shared, ins, fnd, rem, rel, hlp>>

(* find returns to the client or, called by remove, to remove. *)
FindReturn(t, location, p) ==
  \/ /\ call[t].op = "find"
     /\ Return(t, IF location = NotFound THEN "false" ELSE "true")
  \/ /\ call[t].op = "remove"
     /\ location = NotFound
     /\ Return(t, "false")
  \/ /\ call[t].op = "remove"
     /\ location # NotFound
     /\ rem' = [rem EXCEPT ![t] = [location |-> location, ptr1 |-> p]]
     /\ fnd' = [fnd EXCEPT ![t] = NoFnd]
     /\ Goto(t, "rem_cas")
     /\ UNCHANGED <<calls, ins, rel, hlp>>

(* The two slots that a search looks at next. *)
FirstSlot(t)  == <<hash1(call[t].key), fnd[t].slot>>
SecondSlot(t) == <<hash2(call[t].key), fnd[t].slot>>

(* The first round has read fnd[t].ptr from a slot of bucket b, the j-th of the
   two, and announces it without reading the slot again.  It goes on at next
   with the counter in frame unless the search ends here. *)
FirstRound(t, j, b, frame, next) ==
  LET s     == fnd[t].slot
      p     == fnd[t].ptr
      match == p.real # NULL /\ heap[p.real] = fingerprint(t)
  IN
  \/ /\ p.real # NULL
     /\ p.marked
     /\ CallHelp(t, b, s, FALSE, "fnd_first")
     /\ fnd' = [fnd EXCEPT ![t] = [NoFnd EXCEPT !.slot = s]]
     /\ UNCHANGED <<calls, ins, rem, rel>>
  \/ /\ ~p.marked
     /\ match
     /\ MarkHazard(t, j, p.real)
     /\ FindReturn(t, s + j * NUM_ITEMS_PER_ENTRY, p)
  \/ /\ p.real = NULL \/ (~p.marked /\ ~match)
     /\ MarkHazard(t, j, p.real)
     /\ fnd' = [fnd EXCEPT ![t] = frame]
     /\ Goto(t, next)
     /\ UNCHANGED <<calls, ins, rem, rel, hlp>>

FndFirst(t) ==
  /\ pc[t] = "fnd_first"
  /\ fnd' = [fnd EXCEPT ![t].ptr = hash_table[FirstSlot(t)]]
  /\ Goto(t, "fnd_hold1")
  /\ UNCHANGED <<shared, hazard_ptrs, calls, ins, rem, rel, hlp>>

FndHold1(t) ==
  LET f == fnd[t] IN
  /\ pc[t] = "fnd_hold1"
  /\ FirstRound(t, 0, hash1(call[t].key),
                [f EXCEPT !.ptr = empty_slot, !.ts1 = f.ptr.counter], "fnd_second")
  /\ UNCHANGED shared

FndSecond(t) ==
  /\ pc[t] = "fnd_second"
  /\ fnd' = [fnd EXCEPT ![t].ptr = hash_table[SecondSlot(t)]]
  /\ Goto(t, "fnd_hold2")
  /\ UNCHANGED <<shared, hazard_ptrs, calls, ins, rem, rel, hlp>>

FndHold2(t) ==
  LET f == fnd[t] IN
  /\ pc[t] = "fnd_hold2"
  /\ FirstRound(t, 1, hash2(call[t].key),
                [f EXCEPT !.ptr = empty_slot, !.ts2 = f.ptr.counter], "fnd_recheck1")
  /\ UNCHANGED shared

(* The second round reads the two counters again, not the entries. *)
FndRecheck1(t) ==
  /\ pc[t] = "fnd_recheck1"
  /\ fnd' = [fnd EXCEPT ![t].ts1x = hash_table[FirstSlot(t)].counter]
  /\ Goto(t, "fnd_recheck2")
  /\ UNCHANGED <<shared, hazard_ptrs, calls, ins, rem, rel, hlp>>

check_counter(ts1, ts2, ts1x, ts2x) ==
  /\ ts1x >= ts1 + 2
  /\ ts2x >= ts2 + 2
  /\ ts2x >= ts1 + 3

(* Mutant: the loop over the slots skips the last one. *)
MoreSlots_one_less(t) == fnd[t].slot + 2 < NUM_ITEMS_PER_ENTRY

MoreSlots(t) == fnd[t].slot + 1 < NUM_ITEMS_PER_ENTRY

(* Search this slot again, search the next one, or give up. *)
FndRecheck2(t) ==
  LET f     == fnd[t]
      ts2x  == hash_table[SecondSlot(t)].counter
      again == check_counter(f.ts1, f.ts2, f.ts1x, ts2x)
  IN
  /\ pc[t] = "fnd_recheck2"
  /\ \/ /\ again \/ MoreSlots(t)
        /\ fnd' = [fnd EXCEPT ![t] =
                     [NoFnd EXCEPT !.slot = IF again THEN f.slot ELSE f.slot + 1]]
        /\ Goto(t, "fnd_first")
        /\ UNCHANGED <<calls, ins, rem, rel, hlp>>
     \/ /\ ~again /\ ~MoreSlots(t)
        /\ FindReturn(t, NotFound, empty_slot)
  /\ UNCHANGED <<shared, hazard_ptrs>>

FindStep(t) ==
  \/ FndFirst(t) \/ FndHold1(t) \/ FndSecond(t) \/ FndHold2(t)
  \/ FndRecheck1(t) \/ FndRecheck2(t)

-----------------------------------------------------------------------------
RemLocation(t) ==
  <<IF rem[t].location < NUM_ITEMS_PER_ENTRY THEN hash1(call[t].key)
                                             ELSE hash2(call[t].key),
    rem[t].location % NUM_ITEMS_PER_ENTRY>>

(* Mutant: the entry is deleted at once. *)
retire_key_deletes(t, p) ==
  heap' = [heap EXCEPT ![p.real] = Free] /\ UNCHANGED retired_ptrs

retire_key(t, p) ==
  /\ retired_ptrs' = [retired_ptrs EXCEPT ![t] = Append(@, p.real)]
  /\ UNCHANGED heap

(* Mutant: the swap that failed is tried again without another find. *)
RemRetry_stale(t) == UNCHANGED <<rem, pc, hazard_ptrs>>

(* Mutant: the swap is tried again with what the slot holds now. *)
RemRetry_reload(t) ==
  /\ rem' = [rem EXCEPT ![t].ptr1 = hash_table[RemLocation(t)]]
  /\ UNCHANGED <<pc, hazard_ptrs>>

RemRetry(t) ==
  /\ rem' = [rem EXCEPT ![t] = NoRem]
  /\ Goto(t, "fnd_first")
  /\ ClearHazard(t)

RemCas(t) ==
  LET p == rem[t].ptr1 IN
  /\ pc[t] = "rem_cas"
  /\ \/ /\ Holds(RemLocation(t), p)
        /\ Store(RemLocation(t), create_pointer(p.counter, NULL, FALSE))
        /\ retire_key(t, p)
        /\ Return(t, "true")
        /\ UNCHANGED hazard_ptrs
     \/ /\ ~Holds(RemLocation(t), p)
        /\ RemRetry(t)
        /\ UNCHANGED <<hash_table, heap, retired_ptrs, calls, ins, fnd, rel, hlp>>
  /\ UNCHANGED <<leaked, status, resets>>
=============================================================================
