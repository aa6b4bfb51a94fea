---------------------------- MODULE BagInvariant ----------------------------
(***************************************************************************)
(* What is known of the entries outside the table, for the proof that      *)
(* LockFreeFilter is a bag until a retired entry comes back.               *)
(***************************************************************************)
EXTENDS MoveInvariant, FilterRefinement

(* A call has no answer as long as it runs.  The entry an insert will store and
   the one a remove is about to swap out are of its key; no one has given up the
   first, nor the item that help_relocate moves. *)
HandsOK(t) ==
  /\ IF pc[t] = "idle" THEN call[t] = NoCall \/ result[t] # "none"
                       ELSE result[t] = "none"
  /\ ins[t].entry # NULL =>
       /\ call[t].op = "insert"
       /\ heap[ins[t].entry] = fingerprint(t)
       /\ ins[t].entry \notin Retired \cup leaked
  /\ rem[t].ptr1.real # NULL =>
       /\ call[t].op = "remove"
       /\ heap[rem[t].ptr1.real] = fingerprint(t)
  /\ hlp[t].ptr1.real \notin leaked

(* Only DeleteAll frees entries, and it forgets those that it has freed; what is
   in the table has never been given up. *)
BagInv ==
  /\ Retired \cup leaked \subseteq Allocated
  /\ \A l \in Location : hash_table[l].real \notin leaked
  /\ \A t \in Thread : HandsOK(t)
=============================================================================
