------------------------- MODULE FineGrainedHistory -------------------------
(***************************************************************************)
(* FineGrainedFilter with a history variable: for each running find or     *)
(* remove, the slots that have held its fingerprint since it was called.   *)
(***************************************************************************)
EXTENDS FineGrainedFilter

VARIABLE stayed  \* [Thread -> SUBSET Location]

Recorded(t) ==
  IF pc'[t] = "idle" \/ call'[t].op = "insert" THEN {}
  ELSE IF pc[t] = "idle"
  THEN {l \in Location : hash_table[l] = md5_fingerprint[call'[t].key]}
  ELSE {l \in stayed[t] : hash_table'[l] = hash_table[l]}

HistoryInit == Init /\ stayed = [t \in Thread |-> {}]
HistoryNext == Next /\ stayed' = [t \in Thread |-> Recorded(t)]
HistorySpec ==
  /\ HistoryInit
  /\ [][HistoryNext]_<<vars, stayed>>
  /\ \A t \in Thread : WF_vars(Step(t))

(* find and remove hold no lock between their two scans, and a replaced item
   is in no bucket for a while; but an item that stays in its slot for the
   whole of the call is seen, even when swaps overtake other threads. *)
StayingIsFound ==
  [][\A t \in Thread :
       pc[t] # "idle" /\ pc'[t] = "idle" /\ result'[t] = "false" /\ call[t].op # "insert"
         => stayed[t] = {}]_<<vars, stayed>>
=============================================================================
