----------------------------- MODULE TableWords -----------------------------
(***************************************************************************)
(* The words of the filter as the machine has them: what LockFreeFilter    *)
(* keeps as a record is one integer, which the compare-and-swaps compare.  *)
(***************************************************************************)
EXTENDS FilterProperties

CONSTANTS
  PointerSpan,  \* see PointerWord
  address_of    \* [AddressOrNull -> Nat]: the addresses as numbers

(* Objects have even addresses below PointerSpan, as pointer_utils.h says of
   x64, and different objects have different ones. *)
ASSUME AddressAssumption ==
  /\ PointerSpan \in Nat \ {0}
  /\ PointerSpan % 2 = 0
  /\ address_of \in [AddressOrNull -> 0 .. PointerSpan - 1]
  /\ \A a, b \in AddressOrNull : address_of[a] = address_of[b] => a = b
  /\ \A a \in AddressOrNull : address_of[a] % 2 = 0
  /\ address_of[NULL] = 0

Machine == INSTANCE PointerWord

word_of(p) == Machine!create_pointer(p.counter, address_of[p.real], p.marked)

(* The words in the table and in the hands of the threads. *)
WordsInUse ==
  {hash_table[l] : l \in Location}
    \cup UNION {{ins[t].ptr1, fnd[t].ptr, rem[t].ptr1, rel[t].ptr,
                 hlp[t].ptr1, hlp[t].ptr2} : t \in Thread}

(* What the filter does with records it would do with words: the getters give
   back what was packed, whatever the other fields hold; setting one field
   leaves the others alone; and a compare-and-swap, which compares words,
   succeeds exactly when counter, address and mark are those read before. *)
WordsFaithful ==
  \A p \in WordsInUse :
    LET w == word_of(p) IN
    /\ w \in Machine!Word
    /\ Machine!get_counter(w) = p.counter
    /\ Machine!get_real_pointer(w) = address_of[p.real]
    /\ Machine!get_marked(w) = p.marked
    /\ Machine!get_new_mark(w, TRUE) = word_of(get_new_mark(p, TRUE))
    /\ \A q \in WordsInUse :
         /\ w = word_of(q) <=> p = q
         /\ Machine!get_new_counter(w, q.counter)
              = word_of(create_pointer(q.counter, p.real, p.marked))
         /\ Machine!get_new_real_pointer(w, address_of[q.real])
              = word_of(create_pointer(p.counter, q.real, p.marked))
=============================================================================
