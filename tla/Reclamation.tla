---------------------------- MODULE Reclamation ----------------------------
(***************************************************************************)
(* LockFreeFilter with free_hazard_pointers, which nothing in the          *)
(* repository calls: here a thread that has retired entries may call it    *)
(* between two of its operations, while the other threads go on.  Each     *)
(* read of a hazard pointer and each deletion is a step of its own.        *)
(* thread_count is the number of threads, as reset sets it.                *)
(***************************************************************************)
EXTENDS FilterProperties

CONSTANT tids  \* the threads in the order of their numbers, a sequence

VARIABLE fre  \* per thread: the frame of free_hazard_pointers

(* read counts the hazard pointers that have been read, two for each thread, and
   hazard_record has those found; pos is the number of retired pointers dealt
   with, kept are those still used. *)
NoFre == [read |-> 0, hazard_record |-> {}, pos |-> 0, kept |-> <<>>]

FreeCall(t) ==
  /\ pc[t] = "idle"
  /\ retired_ptrs[t] # <<>>
  /\ Goto(t, "fre_read")
  /\ UNCHANGED <<shared, hazard_ptrs, callers, hlp, fre>>

FreeRead(t) ==
  LET n == fre[t].read
      p == hazard_ptrs[tids[n \div 2 + 1]][n % 2]
  IN
  /\ pc[t] = "fre_read"
  /\ fre' = [fre EXCEPT ![t].read = n + 1,
                        ![t].hazard_record = (@ \cup {p}) \ {NULL}]
  /\ Goto(t, IF n + 1 = 2 * Len(tids) THEN "fre_delete" ELSE "fre_read")
  /\ UNCHANGED <<shared, hazard_ptrs, callers, hlp>>

FreeDelete(t) ==
  LET n == fre[t].pos + 1
      a == retired_ptrs[t][n]
  IN
  /\ pc[t] = "fre_delete"
  /\ n <= Len(retired_ptrs[t])
  /\ \/ /\ a \in fre[t].hazard_record
        /\ fre' = [fre EXCEPT ![t].pos = n, ![t].kept = Append(@, a)]
        /\ UNCHANGED heap
     \/ /\ a \notin fre[t].hazard_record
        /\ fre' = [fre EXCEPT ![t].pos = n]
        /\ heap' = [heap EXCEPT ![a] = Free]
  /\ UNCHANGED <<hash_table, retired_ptrs, leaked, status, resets, hazard_ptrs,
                 pc, callers, hlp>>

(* Those that are still used are kept for the next time. *)
FreeReturn(t) ==
  /\ pc[t] = "fre_delete"
  /\ fre[t].pos = Len(retired_ptrs[t])
  /\ retired_ptrs' = [retired_ptrs EXCEPT ![t] = fre[t].kept]
  /\ fre' = [fre EXCEPT ![t] = NoFre]
  /\ Goto(t, "idle")
  /\ UNCHANGED <<hash_table, heap, leaked, status, resets, hazard_ptrs, callers, hlp>>

FreeStep(t) == FreeCall(t) \/ FreeRead(t) \/ FreeDelete(t) \/ FreeReturn(t)

ReclaimingInit == Init /\ fre = [t \in Thread |-> NoFre]
ReclaimingNext ==
  \/ Next /\ UNCHANGED fre
  \/ status = "running" /\ \E t \in Thread : FreeStep(t)
ReclaimingSpec == ReclaimingInit /\ [][ReclaimingNext]_<<vars, fre>>
=============================================================================
