----------------------------- MODULE MCHistory -----------------------------
(***************************************************************************)
(* The instances of MCFilter with the history of FilterHistory.            *)
(***************************************************************************)
EXTENDS MCFilter, FilterHistory, BagInvariant

(* What the theorems about moves and searches suppose of the hashes. *)
ASSUME HashesAssumption == Involutive /\ TwoBuckets /\ Unambiguous
=============================================================================
