--------------------------- MODULE MCReclamation ---------------------------
(***************************************************************************)
(* An instance of MCFilter with free_hazard_pointers: one thread looks for *)
(* what the other removes and deletes.                                     *)
(***************************************************************************)
EXTENDS MCFilter, Reclamation

Tids == <<"t1", "t2">>

FindAndRemove ==
  [t1 |-> CallsTo("find", {"p"}), t2 |-> CallsTo("remove", {"p"})]
=============================================================================
