--------------------------- MODULE AbstractFilter ---------------------------
(***************************************************************************)
(* What a filter promises to its clients: it is a bag of fingerprints, and *)
(* each call takes effect at once, when it returns or before: an insert    *)
(* may store its item, and a find see one, some time before it says so.    *)
(***************************************************************************)
EXTENDS Naturals

CONSTANTS
  Thread, Key, Fingerprint,
  md5_fingerprint,  \* [Key -> Fingerprint]
  NoCall,           \* the call of a thread that has not made any
  Initially,        \* the bag the clients start with
  Misses            \* find and remove may answer "false" for an item that is there

VARIABLES
  items,   \* [Fingerprint -> Nat]
  call,    \* per thread: its current or last call ...
  result   \* ... and its answer, or "none", "stored" or "seen"

vars == <<items, call, result>>

Op == {"insert", "find", "remove"}

Running(t) == call[t] # NoCall /\ result[t] \in {"none", "stored", "seen"}
Before(t, op) == call[t] # NoCall /\ call[t].op = op /\ result[t] = "none"
Asked(t)   == md5_fingerprint[call[t].key]
Answer(t, value) == result' = [result EXCEPT ![t] = value] /\ UNCHANGED call

Invoke(t) ==
  /\ ~Running(t)
  /\ \E op \in Op, k \in Key : call' = [call EXCEPT ![t] = [op |-> op, key |-> k]]
  /\ result' = [result EXCEPT ![t] = "none"]
  /\ UNCHANGED items

Add(f)  == items' = [items EXCEPT ![f] = @ + 1]
Take(f) == items[f] > 0 /\ items' = [items EXCEPT ![f] = @ - 1]

Insert(t) ==
  /\ Before(t, "insert")
  /\ \/ \E value \in {"true", "stored"} : Answer(t, value) /\ Add(Asked(t))
     \/ Answer(t, "false") /\ UNCHANGED items

(* What find and remove are looking for is not there, or goes unnoticed. *)
Missing(t) == Misses \/ items[Asked(t)] = 0

Find(t) ==
  /\ Before(t, "find")
  /\ \/ items[Asked(t)] > 0 /\ \E value \in {"true", "seen"} : Answer(t, value)
     \/ Missing(t) /\ Answer(t, "false")
  /\ UNCHANGED items

Remove(t) ==
  /\ Before(t, "remove")
  /\ \/ Answer(t, "true") /\ Take(Asked(t))
     \/ Missing(t) /\ Answer(t, "false") /\ UNCHANGED items

(* What has taken effect is answered with "true", and changes nothing more. *)
Confirm(t) ==
  /\ result[t] \in {"stored", "seen"}
  /\ Answer(t, "true")
  /\ UNCHANGED items

(* No promise, and no part of Next: an insert that has stored its item says that
   it has failed, and some item is gone. *)
Drop(t) ==
  /\ result[t] = "stored"
  /\ Answer(t, "false")
  /\ \E f \in Fingerprint : Take(f)

Clear ==
  /\ \A t \in Thread : ~Running(t)
  /\ items' = [f \in Fingerprint |-> 0]
  /\ UNCHANGED <<call, result>>

Init ==
  /\ items = Initially
  /\ call = [t \in Thread |-> NoCall]
  /\ result = [t \in Thread |-> "none"]

Next ==
  \/ Clear
  \/ \E t \in Thread : Invoke(t) \/ Insert(t) \/ Find(t) \/ Remove(t) \/ Confirm(t)

Spec == Init /\ [][Next]_vars
=============================================================================
