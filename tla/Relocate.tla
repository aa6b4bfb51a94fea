------------------------------ MODULE Relocate ------------------------------
(***************************************************************************)
(* relocate, which insert calls to empty slot rel.slot of bucket rel.idx.  *)
(* Path discovery follows the items from bucket to bucket until it meets   *)
(* an empty slot; then the path is traversed in reverse order.             *)
(*                                                                         *)
(* During path discovery rel.depth is the level reached; after it, the     *)
(* number of items on the path.  rel.left is the number of rounds the      *)
(* traversal has to make (i + 1 in the source).                            *)
(***************************************************************************)
EXTENDS FilterState

(* Back to insert: scan the two buckets again, or try the next slot. *)
RelReturn(t, found) ==
  /\ rel' = [rel EXCEPT ![t] = NoRel]
  /\ \/ /\ found
        /\ ins' = [ins EXCEPT ![t] = [NoIns EXCEPT !.entry = ins[t].entry]]
        /\ Goto(t, "ins_read")
     \/ /\ ~found
        /\ Goto(t, "ins_kick")
        /\ UNCHANGED ins

(* Mutant: path discovery gives up one level too early. *)
MayGoDeeper_one_less(t) == rel[t].depth + 2 < NUM_MAX_KICKS

MayGoDeeper(t) == rel[t].depth + 1 < NUM_MAX_KICKS

(* One level of path discovery, p being the content of the current slot. *)
PathStep(t, p) ==
  LET r == rel[t] IN
  \/ /\ p.marked
     /\ CallHelp(t, r.idx, r.slot, FALSE, "rel_reload")
     /\ rel' = [rel EXCEPT ![t].ptr = empty_slot]
     /\ UNCHANGED ins
  \/ /\ ~p.marked /\ p.real # NULL
     /\ MayGoDeeper(t)
     /\ rel' = [rel EXCEPT ![t] =
                  [@ EXCEPT !.ptr = empty_slot,
                            !.route[r.depth] = r.idx,
                            !.idx = get_next_hash_index(r.idx, heap[p.real]),
                            !.depth = r.depth + 1]]
     /\ Goto(t, "rel_probe")
     /\ UNCHANGED <<ins, hlp>>
  \/ /\ ~p.marked /\ p.real # NULL
     /\ ~MayGoDeeper(t)
     /\ RelReturn(t, FALSE)
     /\ UNCHANGED hlp
  \/ /\ ~p.marked /\ p.real = NULL
     /\ rel' = [rel EXCEPT ![t] = [@ EXCEPT !.ptr = empty_slot,
                                            !.left = r.depth]]
     /\ Goto(t, "rel_src")
     /\ UNCHANGED <<ins, hlp>>

RelProbe(t) ==
  /\ pc[t] = "rel_probe"
  /\ rel' = [rel EXCEPT ![t].ptr = hash_table[rel[t].idx, rel[t].slot]]
  /\ Goto(t, "rel_hold1")
  /\ UNCHANGED <<shared, hazard_ptrs, calls, ins, fnd, rem, hlp>>

RelHold1(t) ==
  LET p == rel[t].ptr IN
  /\ pc[t] = "rel_hold1"
  /\ PathStep(t, p)
  /\ ~p.marked => MarkHazard(t, 0, p.real)
  /\ UNCHANGED <<shared, calls, fnd, rem>>

(* What is read after the help is not announced. *)
RelReload(t) ==
  LET p == hash_table[rel[t].idx, rel[t].slot] IN
  /\ pc[t] = "rel_reload"
  /\ PathStep(t, p)
  /\ ~p.marked => UNCHANGED hazard_ptrs
  /\ UNCHANGED <<shared, calls, fnd, rem>>

-----------------------------------------------------------------------------
(* The source of every round is the last bucket of the path. *)
SourceIdx(t) == rel[t].route[rel[t].depth - 1]

(* An item that has gone meanwhile needs no move. *)
SourceStep(t, p) ==
  \/ /\ p.real = NULL
     /\ rel' = [rel EXCEPT ![t].left = @ - 1]
     /\ Goto(t, "rel_src")
  \/ /\ p.real # NULL
     /\ rel' = [rel EXCEPT ![t].source = p.real]
     /\ Goto(t, "rel_dst")

RelSrc(t) ==
  LET p == hash_table[SourceIdx(t), rel[t].slot] IN
  /\ pc[t] = "rel_src"
  /\ rel[t].left > 0
  /\ \/ /\ p.marked
        /\ CallHelp(t, SourceIdx(t), rel[t].slot, FALSE, "rel_reload_src")
        /\ UNCHANGED rel
     \/ /\ ~p.marked
        /\ SourceStep(t, p)
        /\ UNCHANGED <<hazard_ptrs, hlp>>
  /\ UNCHANGED <<shared, calls, ins, fnd, rem>>

RelReloadSrc(t) ==
  /\ pc[t] = "rel_reload_src"
  /\ SourceStep(t, hash_table[SourceIdx(t), rel[t].slot])
  /\ UNCHANGED <<shared, hazard_ptrs, calls, ins, fnd, rem, hlp>>

(* Load the destination of the item just read ... *)
RelDst(t) ==
  LET dest == get_next_hash_index(SourceIdx(t), heap[rel[t].source]) IN
  /\ pc[t] = "rel_dst"
  /\ rel' = [rel EXCEPT ![t] = [@ EXCEPT !.ptr = hash_table[dest, rel[t].slot],
                                         !.source = NULL]]
  /\ Goto(t, "rel_hold2")
  /\ UNCHANGED <<shared, hazard_ptrs, calls, ins, fnd, rem, hlp>>

(* ... which must be empty, or path discovery starts again, at level left and
   from the bucket it had arrived at. *)
RelHold2(t) ==
  LET r == rel[t] IN
  /\ pc[t] = "rel_hold2"
  /\ \/ /\ r.ptr.real # NULL
        /\ MarkHazard(t, 1, r.ptr.real)
        /\ rel' = [rel EXCEPT ![t] = [NoRel EXCEPT !.idx = r.idx,
                                        !.slot = r.slot, !.depth = r.left]]
        /\ Goto(t, "rel_probe")
        /\ UNCHANGED hlp
     \/ /\ r.ptr.real = NULL
        /\ rel' = [rel EXCEPT ![t] = [@ EXCEPT !.left = r.left - 1,
                                               !.ptr = empty_slot]]
        /\ CallHelp(t, SourceIdx(t), r.slot, TRUE, "rel_src")
  /\ UNCHANGED <<shared, calls, ins, fnd, rem>>

(* The end of the traversal. *)
RelEnd(t) ==
  /\ pc[t] = "rel_src"
  /\ rel[t].left = 0
  /\ RelReturn(t, TRUE)
  /\ UNCHANGED <<shared, hazard_ptrs, calls, fnd, rem, hlp>>

RelocateStep(t) ==
  \/ RelProbe(t) \/ RelHold1(t) \/ RelReload(t) \/ RelSrc(t) \/ RelReloadSrc(t)
  \/ RelDst(t) \/ RelHold2(t) \/ RelEnd(t)
=============================================================================
