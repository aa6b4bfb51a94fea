---------------------------- MODULE MoveInvariant ----------------------------
(***************************************************************************)
(* The inductive invariant of a move: what the threads in help_relocate    *)
(* know of the two slots of an item while others move, insert and remove.  *)
(***************************************************************************)
EXTENDS FilterInvariant

(* The labels at which help_relocate has announced the marked word of its source. *)
MoveLabels == HelpLabels \ {"hlp_load", "hlp_hold1", "hlp_mark"}

(* The location that the item of location l would move to. *)
Other(l, a) == <<get_next_hash_index(l[1], heap[a]), l[2]>>

(* Thread t has read entry a in location l, or it is there now. *)
HoldsAt(t, a, l) == hlp[t].ptr1.real = a /\ HlpSource(t) = l
KnownAt(a, l) == hash_table[l].real = a \/ \E t \in Thread : HoldsAt(t, a, l)

(* All that is known of an entry is in two locations. *)
InTwoPlaces ==
  \A a \in Address, l, m \in Location :
    KnownAt(a, l) /\ KnownAt(a, m) => m \in {l, Other(l, a)}

(* Nobody else knows the entry that a running insert has allocated. *)
Fresh(t) ==
  LET a == ins[t].entry IN
  a # NULL => /\ \A l \in Location : hash_table[l].real # a
              /\ \A u \in Thread : hlp[u].ptr1.real # a /\ (ins[u].entry = a => u = t)

(* The words that the swaps compare with: only those of a move are marked, and
   insert and the first swap of a move expect an empty slot. *)
SwapWords(t) ==
  /\ pc[t] = "ins_cas" => ins[t].ptr1.real = NULL
  /\ pc[t] = "rem_cas" => ~rem[t].ptr1.marked
  /\ pc[t] = "hlp_mark" => ~hlp[t].ptr1.marked
  /\ pc[t] \in MoveLabels => hlp[t].ptr1.marked
  /\ pc[t] \in {"hlp_check", "hlp_move"} => hlp[t].ptr2.real = NULL

(* The word that t has read from its source is a marked one. *)
MeetsMark(t) == pc[t] \in MoveLabels \/ (pc[t] = "hlp_hold1" /\ hlp[t].ptr1.marked)

(* t has read its destination and found it empty. *)
FoundEmpty(t) ==
  pc[t] \in {"hlp_check", "hlp_move"} \/ (pc[t] = "hlp_hold2" /\ hlp[t].ptr2.real = NULL)

SourceHeld(t)    == Holds(HlpSource(t), hlp[t].ptr1)
SourceHasItem(t) == hash_table[HlpSource(t)].real = hlp[t].ptr1.real
TargetHasItem(t) == hash_table[HlpDest(t)].real = hlp[t].ptr1.real
TargetAbove(t, c) == hash_table[HlpDest(t)].counter > c

(* Once the source has lost the word that t has read, it never has it again,
   and the counter of the destination has passed it. *)
SourceOK(t) ==
  MeetsMark(t) =>
    \/ SourceHeld(t)
    \/ /\ hash_table[HlpSource(t)].counter > hlp[t].ptr1.counter
       /\ TargetAbove(t, hlp[t].ptr1.counter)

(* When t has found the destination empty, no one can bring the item there, or
   to the source, without passing the counter that t has read in it. *)
TargetOK(t) ==
  /\ FoundEmpty(t) /\ TargetHasItem(t) =>
       TargetAbove(t, hlp[t].ptr2.counter)
  /\ pc[t] = "hlp_move" =>
       SourceHeld(t) \/ ~SourceHasItem(t) \/ TargetAbove(t, hlp[t].ptr2.counter)

(* Of two threads about to move an item in opposite directions, one is late. *)
Opposite(t, u) ==
  /\ pc[t] = "hlp_move" /\ pc[u] = "hlp_move"
  /\ hlp[t].ptr1.real = hlp[u].ptr1.real
  /\ HlpSource(t) = HlpDest(u) /\ HlpSource(u) = HlpDest(t)
OppositeOK(t, u) ==
  Opposite(t, u) =>
    TargetAbove(t, hlp[t].ptr2.counter) \/ TargetAbove(u, hlp[u].ptr2.counter)

(* After the first swap the destination is ahead of the source, and the item is
   there, or it was removed from there. *)
MovedOK(t) ==
  pc[t] = "hlp_clear" =>
    /\ TargetAbove(t, hlp[t].ptr1.counter)
    /\ SourceHeld(t) => TargetHasItem(t) \/ hlp[t].ptr1.real \in Retired

(* Two slots with the same entry have different counters, and a mover. *)
CopiesOK ==
  \A l, m \in Location :
    l # m /\ hash_table[l].real = hash_table[m].real /\ hash_table[l].real # NULL
      => /\ hash_table[l].counter # hash_table[m].counter
         /\ \E t \in Thread : Moving(t) /\ {HlpSource(t), HlpDest(t)} = {l, m}

MoveOK(t) == Fresh(t) /\ SwapWords(t) /\ SourceOK(t) /\ TargetOK(t) /\ MovedOK(t)

(* What every step keeps if hashing is an involution that leads to another
   bucket.  No move loses or doubles an item: a thread that is late finds that
   the counter of the destination has passed what it has read. *)
MoveInv ==
  /\ InTwoPlaces
  /\ CopiesOK
  /\ NoLostEntry
  /\ \A t \in Thread : MoveOK(t)
  /\ \A t, u \in Thread : OppositeOK(t, u)
=============================================================================
