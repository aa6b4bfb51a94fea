-------------------------- MODULE FilterRefinement --------------------------
(***************************************************************************)
(* LockFreeFilter as an implementation of AbstractFilter.  The bag holds   *)
(* the fingerprints of the entries in the table.  An entry that is in two  *)
(* slots while it moves counts once, and one that has been retired in its  *)
(* new slot does not count although the old one is still to be cleared.    *)
(* A find takes effect when it loads the word of what it is looking for.   *)
(***************************************************************************)
EXTENDS FilterProperties, FiniteSets

Items ==
  [f \in Fingerprint |-> Cardinality({a \in Stored \ Retired : heap[a] = f})]

InitItems ==
  [f \in Fingerprint |->
     Cardinality({l \in Location : /\ InitTable[l].real # NULL
                                   /\ InitHeap[InitTable[l].real] = f})]

(* Thread t has read what its find is asked for, and will say so. *)
Seen(t) ==
  /\ pc[t] \in {"fnd_hold1", "fnd_hold2"}
  /\ call[t].op = "find"
  /\ fnd[t].ptr.real # NULL /\ ~fnd[t].ptr.marked
  /\ heap[fnd[t].ptr.real] = fingerprint(t)

Results == [t \in Thread |-> IF Seen(t) THEN "seen" ELSE result[t]]

Abstract == INSTANCE AbstractFilter
  WITH items <- Items,
       result <- Results,
       Misses <- Cardinality(Thread) > 1,
       Initially <- InitItems

(* The filter is a bag with atomic operations: an insert that returns true has
   added one item, one that returns false none; a remove that returns true has
   taken one away; what find sees is there; and relocation is invisible.  With
   one thread find and remove never miss an item.  With several threads it
   holds as long as no item is removed while it moves (see RetiredIsGone). *)
ImplementsAbstract == Abstract!Spec

-----------------------------------------------------------------------------
(* A helper has brought back what remove has retired, and find sees it. *)
Revived == \E l \in Location : hash_table[l].real \in Retired /\ ~hash_table[l].marked

Bag == INSTANCE AbstractFilter
  WITH items <- Items, result <- Results, Misses <- TRUE, Initially <- InitItems

(* As long as no retired entry has come back, the filter is a bag with atomic
   operations in which find and remove may miss an item, also when removals
   overlap relocations: no insert or remove counts twice or not at all, what
   find sees is there, and no move changes the bag. *)
BagUntilRevived ==
  /\ Bag!Init
  /\ [][~Revived => Bag!Next]_(Bag!vars)
=============================================================================
