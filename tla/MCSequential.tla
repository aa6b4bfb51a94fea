---------------------------- MODULE MCSequential ----------------------------
(***************************************************************************)
(* An instance of SequentialFilter for TLC: two threads, four buckets of   *)
(* one slot, three of them occupied, so that inserts replace and fail.     *)
(***************************************************************************)
EXTENDS SequentialInvariant, Bitwise

MCXor(a, b) == a ^^ b

KeyNames   == {"p", "q", "x", "y"}
PrintNames == {"fp", "fq", "fx"}
PrintOf    == [p |-> "fp", q |-> "fq", x |-> "fx", y |-> "fp"]

(* p may be in bucket 0 or 2, q in 1 or 3, x in 0 or 1.  The fingerprint of y
   collides with that of p, and their buckets are the same in reverse order. *)
HashOf == [p |-> 0, q |-> 1, x |-> 0, y |-> 2, fp |-> 2, fq |-> 2, fx |-> 1]

Threads == {"t1", "t2"}

CrowdedTable ==
  [l \in Location |-> CASE l[1] = 0 -> "fp" [] l[1] = 1 -> "fx"
                        [] l[1] = 2 -> "fp" [] OTHER -> Empty]

AnyCall ==
  [t1 |-> [op : {"insert", "remove"}, key : {"p", "x"}],
   t2 |-> [op : Op, key : {"x", "q", "y"}]]

(* What the proofs assume of the hashes. *)
ASSUME HashesAssumption == Involutive /\ Unambiguous
=============================================================================
