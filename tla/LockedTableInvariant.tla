------------------------ MODULE LockedTableInvariant ------------------------
(***************************************************************************)
(* What every step of a filter with locks keeps, whatever the locks        *)
(* exclude: types, how far a call is, and the buckets of the items.        *)
(***************************************************************************)
EXTENDS LockedTable

Content == Fingerprint \cup {Empty}
Frame   == [bucket : Bucket, slot : Slot, round : 0 .. LastRound, fingerprint : Content]

TableTypeOK ==
  /\ hash_table \in [Location -> Content]
  /\ pc \in [Thread -> {"idle", "lock", "scan", "apply", "swap"}]
  /\ call \in [Thread -> [op : Op, key : Key] \cup {NoCall}]
  /\ result \in [Thread -> {"none", "true", "false"}]
  /\ ncalls \in [Thread -> Nat]
  /\ frame \in [Thread -> Frame]

(* What a call looks for. *)
Sought(t) == IF call[t].op = "insert" THEN Empty ELSE fingerprint(t)

(* A call has its arguments and no answer as long as it runs. *)
CallOK(t) ==
  IF pc[t] = "idle" THEN call[t] = NoCall \/ result[t] # "none"
                    ELSE call[t] # NoCall /\ result[t] = "none"

(* How far it is: it goes from the first bucket of its key to the second with
   its own item, and only insert goes on, with the items it replaces. *)
RoundOK(t) ==
  /\ frame[t].round \in 1 .. LastRound
  /\ frame[t].round <= 2 => frame[t].fingerprint = fingerprint(t)
  /\ frame[t].round = 1 => frame[t].bucket = hash1(call[t].key)
  /\ frame[t].round = 2 /\ pc[t] # "swap" => frame[t].bucket = hash2(call[t].key)
  /\ call[t].op # "insert" => frame[t].round <= 2
  /\ pc[t] = "apply" => call[t].op # "find"
  /\ pc[t] = "swap" => call[t].op = "insert" /\ frame[t].round \in 2 .. LastRound - 1

CallerOK(t) == CallOK(t) /\ (pc[t] # "idle" => RoundOK(t))

TableInv == TableTypeOK /\ IsFiniteSet(Replacing) /\ \A t \in Thread : CallerOK(t)

(* An item in the table is in a bucket where it is looked for, and one in a hand
   is on its way to such a bucket. *)
PlacedInv ==
  /\ \A l \in Location : hash_table[l] # Empty => Examined(hash_table[l], l[1])
  /\ \A t \in Thread :
       pc[t] # "idle" /\ frame[t].fingerprint # Empty =>
         Examined(frame[t].fingerprint, frame[t].bucket)
=============================================================================
