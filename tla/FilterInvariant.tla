--------------------------- MODULE FilterInvariant ---------------------------
(***************************************************************************)
(* The inductive invariant of LockFreeFilter: its types, the table words,  *)
(* and what the frame of a thread holds at each of its labels.             *)
(***************************************************************************)
EXTENDS FilterProperties

(* Where the threads are: in help_relocate, in insert with relocate, in find
   with the swap of remove. *)
HelpLabels == {"hlp_load", "hlp_hold1", "hlp_mark", "hlp_dst", "hlp_hold2",
               "hlp_check", "hlp_move", "hlp_clear", "hlp_done", "hlp_busy"}
InInsert   == {"ins_read", "ins_cas", "ins_kick", "rel_probe", "rel_hold1",
               "rel_reload", "rel_src", "rel_reload_src", "rel_dst", "rel_hold2"}
InFind     == {"fnd_first", "fnd_hold1", "fnd_second", "fnd_hold2",
               "fnd_recheck1", "fnd_recheck2", "rem_cas"}

(* Where a thread is, or will be after help_relocate. *)
Where(t) == IF pc[t] \in HelpLabels THEN hlp[t].ret ELSE pc[t]

(* A pointer that can be followed, if it is one. *)
Alive(a) == a # NULL => heap[a] # Free

(* The table holds no pointer to a deleted entry, and no mark without one. *)
TableOK ==
  \A l \in Location : /\ Alive(hash_table[l].real)
                      /\ hash_table[l].marked => hash_table[l].real # NULL

(* A running operation has its arguments. *)
CallOK(t) == pc[t] # "idle" => call[t] \in [op : Op, key : Key]

(* insert owns a new entry as long as it runs, helping included. *)
InsOK(t) ==
  /\ ins[t].entry # NULL <=> Where(t) \in InInsert
  /\ Alive(ins[t].entry)

(* find holds a word only between a load and the announcement. *)
FndOK(t) ==
  /\ fnd[t].ptr.real # NULL => pc[t] \in {"fnd_hold1", "fnd_hold2"}
  /\ Alive(fnd[t].ptr.real)

(* remove is about to swap an entry out exactly when find has found one. *)
RemOK(t) ==
  /\ rem[t].ptr1.real # NULL <=> pc[t] = "rem_cas"
  /\ rem[t].location # NotFound
  /\ Alive(rem[t].ptr1.real)

(* relocate has a source entry between the loads of source and destination, and
   a word only between a load and what follows it; it makes at most as many
   rounds as there are items on the path, and waits for a source only in a
   round. *)
RelOK(t) ==
  /\ rel[t].source # NULL <=> pc[t] = "rel_dst"
  /\ Alive(rel[t].source)
  /\ rel[t].ptr.real # NULL => pc[t] \in {"rel_hold1", "rel_hold2"}
  /\ Alive(rel[t].ptr.real)
  /\ rel[t].left <= rel[t].depth
  /\ Where(t) \in {"rel_reload_src", "rel_dst", "rel_hold2"} => rel[t].left > 0

(* help_relocate returns to find or relocate; it holds the source word from its
   load on, and goes on after the announcement only if that has an entry; when
   it clears the source, the counter it moved the entry with has shown that the
   source's next counter fits. *)
HlpOK(t) ==
  /\ pc[t] \in HelpLabels =>
       hlp[t].ret \in {"fnd_first", "rel_reload", "rel_src", "rel_reload_src"}
  /\ hlp[t].ptr1.real # NULL => pc[t] \in HelpLabels \ {"hlp_load"}
  /\ pc[t] \in HelpLabels \ {"hlp_load", "hlp_hold1"} => hlp[t].ptr1.real # NULL
  /\ hlp[t].ptr1.marked => hlp[t].ptr1.real # NULL
  /\ Alive(hlp[t].ptr1.real)
  /\ pc[t] = "hlp_clear" => CounterFits(hlp[t].ptr1.counter + 1)

FrameOK(t) == CallOK(t) /\ InsOK(t) /\ FndOK(t) /\ RemOK(t) /\ RelOK(t) /\ HlpOK(t)

(* What every step keeps: TypeOK alone is not inductive, because a step may
   follow a pointer, index a path or add to a counter that an earlier step has
   checked. *)
IInv == TypeOK /\ TableOK /\ \A t \in Thread : FrameOK(t)
=============================================================================
