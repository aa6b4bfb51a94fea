---------------------------- MODULE LockedTable ----------------------------
(***************************************************************************)
(* The table of the two filters that use locks, and the steps their        *)
(* operations are made of.  SequentialFilter and FineGrainedFilter run the *)
(* same code under different locks: insert, find and remove scan one       *)
(* bucket of the key, then the other; an insert that finds no empty slot   *)
(* replaces items.                                                         *)
(***************************************************************************)
EXTENDS PartialKey, FiniteSets

CONSTANTS
  Thread,     \* the thread ids
  Empty,      \* the empty string, content of a slot that holds no fingerprint
  Calls,      \* [Thread -> SUBSET [op : Op, key : Key]]: what a thread may call
  MaxCalls,   \* bound: calls made by one thread
  InitTable   \* the table the threads start with

VARIABLES
  hash_table,            \* [Location -> Fingerprint \cup {Empty}]
  pc,                    \* per thread: its next step, "idle" outside a call
  call, result, ncalls,  \* per thread: its current or last call
  frame                  \* per thread: local variables of the call

local == <<pc, call, result, ncalls, frame>>

Op == {"insert", "find", "remove"}

ASSUME LockedTableAssumption ==
  /\ Empty \notin Fingerprint
  /\ Calls \in [Thread -> SUBSET [op : Op, key : Key]]
  /\ MaxCalls \in Nat
  /\ InitTable \in [Location -> Fingerprint \cup {Empty}]
  /\ \A l \in Location : InitTable[l] # Empty => Examined(InitTable[l], l[1])

NoCall  == [op |-> "none", key |-> Empty]
NoFrame == [bucket |-> 0, slot |-> 0, round |-> 0, fingerprint |-> Empty]

(* Rounds of a call: it scans the first bucket of the key in round 1 and the
   second in round 2; an insert scans after its n-th replacement in round n + 2. *)
LastRound == NUM_MAX_KICKS + 2

Target(t) == <<frame[t].bucket, frame[t].slot>>
fingerprint(t) == md5_fingerprint[call[t].key]

Goto(t, label, f) ==
  /\ pc' = [pc EXCEPT ![t] = label]
  /\ frame' = [frame EXCEPT ![t] = f]

Begin(t, op, k, label) ==
  /\ pc[t] = "idle"
  /\ [op |-> op, key |-> k] \in Calls[t]
  /\ ncalls[t] < MaxCalls
  /\ call' = [call EXCEPT ![t] = [op |-> op, key |-> k]]
  /\ result' = [result EXCEPT ![t] = "none"]
  /\ ncalls' = [ncalls EXCEPT ![t] = @ + 1]
  /\ Goto(t, label, [NoFrame EXCEPT !.bucket = hash1(k), !.round = 1,
                       !.fingerprint = md5_fingerprint[k]])
  /\ UNCHANGED hash_table

Return(t, value) ==
  /\ Goto(t, "idle", NoFrame)
  /\ result' = [result EXCEPT ![t] = value]
  /\ UNCHANGED <<call, ncalls>>

-----------------------------------------------------------------------------
(* The slots that end the scan of the bucket a thread is at. *)
Wanted(t) ==
  LET content == IF call[t].op = "insert" THEN Empty ELSE fingerprint(t) IN
  {s \in Slot : hash_table[frame[t].bucket, s] = content}

Found(t) ==
  /\ pc[t] = "scan"
  /\ call[t].op = "find"
  /\ Wanted(t) # {}
  /\ Return(t, "true")
  /\ UNCHANGED hash_table

(* insert and remove take the first slot ... *)
Select(t) ==
  /\ pc[t] = "scan"
  /\ call[t].op # "find"
  /\ \E s \in Wanted(t) :
       /\ \A r \in Wanted(t) : s <= r
       /\ Goto(t, "apply", [frame[t] EXCEPT !.slot = s])
  /\ UNCHANGED <<hash_table, call, result, ncalls>>

(* ... and store the fingerprint in it, or clear it. *)
Apply(t) ==
  /\ pc[t] = "apply"
  /\ hash_table' =
       [hash_table EXCEPT ![Target(t)] =
          IF call[t].op = "insert" THEN frame[t].fingerprint ELSE Empty]
  /\ Return(t, "true")

NotHere(t, round) ==
  pc[t] = "scan" /\ Wanted(t) = {} /\ frame[t].round = round

SecondBucket(t, label) ==
  /\ NotHere(t, 1)
  /\ Goto(t, label, [frame[t] EXCEPT !.bucket = hash2(call[t].key), !.round = 2])
  /\ UNCHANGED <<hash_table, call, result, ncalls>>

(* The last scan of find and remove, or of insert, was in vain. *)
GiveUp(t) ==
  /\ NotHere(t, IF call[t].op = "insert" THEN LastRound ELSE 2)
  /\ Return(t, "false")
  /\ UNCHANGED hash_table

-----------------------------------------------------------------------------
(* Any slot of either bucket may be the first to be replaced, then any slot
   of the bucket that was scanned last. *)
Pick(t) ==
  LET f       == frame[t]
      buckets == IF f.round = 2 THEN {hash1(call[t].key), hash2(call[t].key)}
                                ELSE {f.bucket}
  IN
  /\ call[t].op = "insert"
  /\ f.round \in 2 .. LastRound - 1 /\ NotHere(t, f.round)
  /\ \E b \in buckets, s \in Slot :
       Goto(t, "swap", [f EXCEPT !.bucket = b, !.slot = s])
  /\ UNCHANGED <<hash_table, call, result, ncalls>>

(* Mutant: the next bucket, as in linear probing. *)
NextBucket_neighbour(b, f) == (b + 1) % TableSize

(* The other bucket of what has been taken out; the empty string has hash 0. *)
NextBucket(b, f) == IF f = Empty THEN b ELSE get_next_hash_index(b, f)

NextRound_forgotten(r) == r  \* mutant: the loop does not count its rounds
NextRound(r) == r + 1

(* The fingerprint in hand and the slot are swapped, and the bucket to scan is
   the other one of what was in the slot. *)
Swap(t, label) ==
  LET f     == frame[t]
      taken == hash_table[Target(t)]
  IN
  /\ pc[t] = "swap"
  /\ hash_table' = [hash_table EXCEPT ![Target(t)] = f.fingerprint]
  /\ Goto(t, label, [bucket |-> NextBucket(f.bucket, taken), slot |-> 0,
                     round |-> NextRound(f.round), fingerprint |-> taken])
  /\ UNCHANGED <<call, result, ncalls>>

-----------------------------------------------------------------------------
TableInit ==
  /\ hash_table = InitTable
  /\ pc = [t \in Thread |-> "idle"]
  /\ call = [t \in Thread |-> NoCall]
  /\ result = [t \in Thread |-> "none"]
  /\ ncalls = [t \in Thread |-> 0]
  /\ frame = [t \in Thread |-> NoFrame]

(* How often a fingerprint is in the table. *)
Count(f) == Cardinality({l \in Location : hash_table[l] = f})

(* The inserts that have begun to replace: their item is in the table, and in
   their hands is the last one they have replaced. *)
Replacing == {t \in Thread : pc[t] # "idle" /\ call[t].op = "insert" /\ frame[t].round > 2}

(* The bag of items: what is in the table and in hands. *)
Items ==
  [f \in Fingerprint |->
     Count(f) + Cardinality({t \in Replacing : frame[t].fingerprint = f})]
Results == [t \in Thread |-> IF t \in Replacing THEN "stored" ELSE result[t]]

InitItems ==
  [f \in Fingerprint |-> Cardinality({l \in Location : InitTable[l] = f})]
=============================================================================
