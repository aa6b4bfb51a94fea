---------------------------- MODULE MCFineGrained ----------------------------
(***************************************************************************)
(* An instance of FineGrainedFilter for TLC: four buckets of one slot and  *)
(* two mutexes.  p may be in bucket 0 or 2, which share a mutex, q in 1 or *)
(* 3, x in 0 or 1, which do not, y in 1 or 0.                              *)
(***************************************************************************)
EXTENDS FineGrainedInvariant, Bitwise

MCXor(a, b) == a ^^ b

KeyNames   == {"p", "q", "x", "y"}
PrintNames == {"fp", "fq", "fx", "fy"}
PrintOf    == [p |-> "fp", q |-> "fq", x |-> "fx", y |-> "fy"]
HashOf     == [p |-> 0, q |-> 1, x |-> 0, y |-> 1,
               fp |-> 2, fq |-> 2, fx |-> 1, fy |-> 1]

Threads == {"t1", "t2", "t3"}

(* One slot is free, so that a second insert has to replace. *)
CrowdedTable ==
  [l \in Location |-> CASE l[1] = 0 -> "fp" [] l[1] = 1 -> "fy"
                        [] l[1] = 3 -> "fq" [] OTHER -> Empty]

AnyCall ==
  [t1 |-> [op : {"insert"}, key : {"p", "x"}],
   t2 |-> [op : {"insert", "remove"}, key : {"p", "y"}],
   t3 |-> [op : {"find", "remove"}, key : {"x", "q"}]]

(* What the theorems suppose of the hashes. *)
ASSUME HashesAssumption == Involutive /\ Unambiguous
=============================================================================
