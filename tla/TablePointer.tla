---------------------------- MODULE TablePointer ----------------------------
(***************************************************************************)
(* The word held by a slot of the lock-free table: a 16-bit relocation     *)
(* counter, the address of a HashEntry (or null) and a one-bit mark.  The  *)
(* packing of the three fields into 64 bits is abstracted to a record;     *)
(* what remains of it is the width of the counter.                         *)
(***************************************************************************)
EXTENDS Naturals

CONSTANTS
  Address,      \* the addresses operator new may return
  NULL,         \* the null pointer
  UINT16_MAX    \* the largest counter value (65535)

ASSUME TablePointerAssumption ==
  /\ NULL \notin Address
  /\ UINT16_MAX \in Nat

table_pointer ==
  [counter : 0 .. UINT16_MAX, real : Address \cup {NULL}, marked : BOOLEAN]

(* create_pointer, whose caller must have CounterFits(c). *)
create_pointer(c, p, m) == [counter |-> c, real |-> p, marked |-> m]

(* Mutants: the limit is off by one, either way. *)
CounterFits_one_more(c) == c <= UINT16_MAX + 1
CounterFits_one_less(c) == c < UINT16_MAX

(* create_pointer calls abort() when this fails. *)
CounterFits(c) == c <= UINT16_MAX

get_new_mark(tp, m) == [tp EXCEPT !.marked = m]

(* The zero word, the value-initialised content of a slot. *)
empty_slot == create_pointer(0, NULL, FALSE)
=============================================================================
