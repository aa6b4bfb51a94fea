---------------------------- MODULE PointerWord ----------------------------
(***************************************************************************)
(* The functions of pointer_utils.cpp on the word itself: the mark is bit  *)
(* 0, the address takes the bits above it up to PointerSpan, the counter   *)
(* those from PointerSpan on.  A mask is a remainder, a shift a product;   *)
(* clearing a field takes its value away, and or-ing a value into a field  *)
(* that is zero adds it.  Each function covers its in-place form, too.     *)
(***************************************************************************)
EXTENDS Naturals

CONSTANTS
  PointerSpan,  \* 2^48: the weight of the counter's lowest bit
  UINT16_MAX    \* the largest counter value

Word == 0 .. (UINT16_MAX + 1) * PointerSpan - 1

get_counter(w) == w \div PointerSpan
get_marked(w)  == w % 2 = 1

(* Mutant: real_pointer_mask ends in F, so the mark counts as address. *)
get_real_pointer_unmasked(w) == w % PointerSpan

get_real_pointer(w) == (w % PointerSpan) - (w % 2)

MarkBit(marked) == IF marked THEN 1 ELSE 0

(* Mutant: the counter is shifted one bit too little. *)
create_pointer_overlapping(counter, real, marked) ==
  counter * (PointerSpan \div 2) + real + MarkBit(marked)

(* Like TablePointer, for callers who have checked that the counter fits. *)
create_pointer(counter, real, marked) ==
  counter * PointerSpan + real + MarkBit(marked)

get_new_counter(w, counter)   == (w % PointerSpan) + counter * PointerSpan
get_new_real_pointer(w, real) == w - get_real_pointer(w) + real
get_new_mark(w, marked)       == w - (w % 2) + MarkBit(marked)
=============================================================================
