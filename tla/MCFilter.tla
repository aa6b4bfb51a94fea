------------------------------ MODULE MCFilter ------------------------------
(***************************************************************************)
(* Instances of LockFreeFilter for TLC.  Keys and digests are strings,     *)
(* addresses are numbers.  The fingerprint of key "x" is "fx".  In a table *)
(* of 2^n buckets an item of fingerprint f is in bucket b or in bucket     *)
(* b ^ jenkins_hash[f].                                                    *)
(***************************************************************************)
EXTENDS FilterInvariant, FilterRefinement, TableWords, Bitwise

MCXor(a, b) == a ^^ b

KeyNames   == {"p", "q", "x", "y"}
PrintNames == {"fp", "fq", "fx", "fy"}
PrintOf    == [p |-> "fp", q |-> "fq", x |-> "fx", y |-> "fy"]

Thread1 == {"t1"}
Threads2 == {"t1", "t2"}
Threads3 == {"t1", "t2", "t3"}
Addresses5 == 1 .. 5
Addresses9 == 1 .. 9
AddressNumbers == [a \in AddressOrNull |-> IF a = NULL THEN 0 ELSE 2 * a]

(* A table that holds entry a at location placed[a], with counter 0. *)
TableOf(placed) ==
  [l \in Location |->
     IF \E a \in DOMAIN placed : placed[a] = l
     THEN create_pointer(0, CHOOSE a \in DOMAIN placed : placed[a] = l, FALSE)
     ELSE empty_slot]
HeapOf(content) ==
  [a \in Address |-> IF a \in DOMAIN content THEN content[a] ELSE Free]

CallsTo(op, keys) == {[op |-> op, key |-> k] : k \in keys}

-----------------------------------------------------------------------------
(* Two buckets of two slots, with room for every insert. *)
RoomyHash  == [p |-> 0, q |-> 1, x |-> 0, y |-> 1,
               fp |-> 1, fq |-> 1, fx |-> 1, fy |-> 1]
RoomyTable == TableOf(<< <<1, 1>>, <<0, 0>> >>)
RoomyHeap  == HeapOf(<<"fp", "fy">>)

(* Four buckets of one slot: p may be in bucket 0 or 2, q in 1 or 3, x in 0
   or 1, y in 2 or 3.  At the start p and q are in their second buckets, and
   an insert of y has to move p (path of one item). *)
TightHash  == [p |-> 0, q |-> 1, x |-> 0, y |-> 2,
               fp |-> 2, fq |-> 2, fx |-> 1, fy |-> 1]
TightTable == TableOf(<< <<2, 0>>, <<3, 0>> >>)
TightHeap  == HeapOf(<<"fp", "fq">>)

(* The same buckets with two slots each.  Both buckets of x are full; an
   insert of x moves p in slot 1 at once, but in slot 0 only after y. *)
WideTable == TableOf(<< <<0, 0>>, <<0, 1>>, <<1, 0>>, <<1, 1>>, <<2, 0>> >>)
WideHeap  == HeapOf(<<"fp", "fp", "fq", "fx", "fy">>)

(* Both buckets of y are full, and of the items in its first one p in slot 0 can
   be moved, the other y in slot 1 cannot. *)
FullTable == TableOf(<< <<2, 0>>, <<2, 1>>, <<3, 0>>, <<3, 1>> >>)
FullHeap  == HeapOf(<<"fp", "fy", "fq", "fy">>)

(* Three buckets of one slot, which is no power of two.  p is for buckets 2
   and 0, but from bucket 0 it would move to bucket 1. *)
OddHash  == [p |-> 2, q |-> 2, x |-> 0, y |-> 1,
             fp |-> 1, fq |-> 2, fx |-> 2, fy |-> 1]
OddTable == TableOf(<< <<0, 0>>, <<2, 0>> >>)
OddHeap  == HeapOf(<<"fp", "fq">>)

(* Key x has bucket 2 only: the hash of fingerprint fx is a multiple of
   the number of buckets. *)
LoopHash  == [TightHash EXCEPT !.x = 2, !.fx = 4]
LoopTable == TightTable
LoopHeap  == TightHeap

-----------------------------------------------------------------------------
(* Who calls what. *)
Contention ==
  [t1 |-> CallsTo("insert", {"y"}),
   t2 |-> CallsTo("find", {"p"}) \cup CallsTo("remove", {"q"}) \cup CallsTo("insert", {"q"}),
   t3 |-> CallsTo("find", {"p", "y"}) \cup CallsTo("remove", {"q"})]
Rivals ==
  [t1 |-> CallsTo("insert", {"y"}), t2 |-> CallsTo("insert", {"x", "y"})]
Removal ==
  [t1 |-> CallsTo("insert", {"x", "y"}),
   t2 |-> CallsTo("remove", {"p"}) \cup CallsTo("insert", {"x"})]
Helpers ==
  [t1 |-> CallsTo("insert", {"y"}), t2 |-> CallsTo("find", {"p"}),
   t3 |-> CallsTo("find", {"p", "y"})]
Resurrection ==
  [t1 |-> CallsTo("insert", {"y"}),
   t2 |-> CallsTo("remove", {"p"}), t3 |-> CallsTo("find", {"p"})]
Replacement ==
  [t1 |-> CallsTo("insert", {"y"}),
   t2 |-> CallsTo("remove", {"p"}) \cup CallsTo("insert", {"x"})]
OneThread == [t1 |-> UNION {CallsTo(op, {"p", "x", "y"}) : op \in Op}]
OneInserter == [t1 |-> CallsTo("insert", {"x"})]
=============================================================================
