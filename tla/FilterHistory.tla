--------------------------- MODULE FilterHistory ---------------------------
(***************************************************************************)
(* LockFreeFilter with a history variable: for each running find or        *)
(* remove, the slots that have held an item of its key since it was called. *)
(***************************************************************************)
EXTENDS FilterProperties

VARIABLE stayed  \* [Thread -> SUBSET Location]

HoldersOf(f) == {l \in Location : hash_table[l].real # NULL /\ heap[hash_table[l].real] = f}

Recorded(t) ==
  IF pc'[t] = "idle" \/ call'[t].op = "insert" THEN {}
  ELSE IF pc[t] = "idle" THEN HoldersOf(md5_fingerprint[call'[t].key])
  ELSE {l \in stayed[t] : hash_table'[l].real = hash_table[l].real}

HistoryInit == Init /\ stayed = [t \in Thread |-> {}]
HistoryNext == Next /\ stayed' = [t \in Thread |-> Recorded(t)]

HistorySpec == HistoryInit /\ [][HistoryNext]_<<vars, stayed>>
FairHistorySpec == HistorySpec /\ \A t \in Thread : WF_vars(Step(t))

(* find and remove answer "false" only if no item of the key has stayed in one
   slot for the whole of the call: an item that is only marked, or that other
   threads relocate items around, is not missed. *)
StayingIsFound ==
  [][\A t \in Thread :
       pc[t] # "idle" /\ pc'[t] = "idle" /\ result'[t] = "false" /\ call[t].op # "insert"
         => stayed[t] = {}]_<<vars, stayed>>

-----------------------------------------------------------------------------
(* Only a find or a remove has a history; an item that has stayed is of its key,
   in a slot that the search has not passed. *)
StayedOK(t) ==
  /\ stayed[t] \subseteq Location
  /\ stayed[t] # {} => pc[t] # "idle" /\ call[t].op # "insert"
  /\ \A l \in stayed[t] :
       /\ hash_table[l].real # NULL
       /\ heap[hash_table[l].real] = fingerprint(t)
       /\ l[1] \in {hash1(call[t].key), hash2(call[t].key)}
       /\ l[2] >= fnd[t].slot

(* Thread t has read what is still in location l, if that has held it all the time. *)
HasRead(t, l) == l \in stayed[t] => fnd[t].ptr.real = hash_table[l].real

(* Where a search begins, what it has seen of its two slots, and that only insert
   has an entry of its own. *)
SearchOK(t) ==
  /\ pc[t] = "idle" => fnd[t].slot = 0
  /\ pc[t] = "fnd_hold1" => HasRead(t, FirstSlot(t))
  /\ pc[t] = "fnd_hold2" => HasRead(t, SecondSlot(t))
  /\ pc[t] \in {"fnd_second", "fnd_hold2"} => FirstSlot(t) \notin stayed[t]
  /\ pc[t] \in {"fnd_recheck1", "fnd_recheck2"} =>
       FirstSlot(t) \notin stayed[t] /\ SecondSlot(t) \notin stayed[t]
  /\ ins[t].entry # NULL => call[t].op = "insert"

(* The inductive invariant of a search: no slot that it has passed has held an
   item of its key since the call began. *)
SearchInv ==
  /\ stayed \in [Thread -> SUBSET Location]
  /\ \A t \in Thread : StayedOK(t) /\ SearchOK(t)
=============================================================================
