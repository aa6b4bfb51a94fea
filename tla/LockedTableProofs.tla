------------------------- MODULE LockedTableProofs --------------------------
(***************************************************************************)
(* Lemmas about the table of the two filters with locks: what every step   *)
(* keeps whatever the locks exclude, and what it does to the bag of items. *)
(***************************************************************************)
EXTENDS LockedTableInvariant, FiniteSetTheorems, TLAPS

(***************************************************************************)
(* Types                                                                   *)
(***************************************************************************)
(* Bucket numbers computed from a fingerprint or a key are in the table. *)
LEMMA HashTypes ==
  /\ \A i \in Bucket, f \in Fingerprint : get_next_hash_index(i, f) \in Bucket
  /\ \A k \in Key : md5_fingerprint[k] \in Fingerprint /\ hash1(k) \in Bucket
                     /\ hash2(k) \in Bucket
  /\ 0 \in Bucket /\ 0 \in Slot
<1>1. \A n \in Nat : n % TableSize \in Bucket
  BY PartialKeyAssumption DEF Bucket
<1>2. \A f \in Fingerprint : jenkins_hash[f] % TableSize \in Bucket
  BY <1>1, PartialKeyAssumption
<1>3. \A i \in Bucket, f \in Fingerprint : get_next_hash_index(i, f) \in Bucket
  BY <1>1, <1>2, PartialKeyAssumption DEF get_next_hash_index
<1>4. \A k \in Key : md5_fingerprint[k] \in Fingerprint /\ hash1(k) \in Bucket
  BY <1>1, PartialKeyAssumption DEF hash1
<1>5. 0 \in Bucket /\ 0 \in Slot
  BY PartialKeyAssumption DEF Bucket, Slot
<1> QED BY <1>3, <1>4, <1>5 DEF hash2

LEMMA EmptyTypes ==
  /\ NoFrame \in Frame
  /\ NoCall.op = "none" /\ NoCall \notin [op : Op, key : Key]
  /\ LastRound \in Nat /\ LastRound > 2 /\ {1, 2} \subseteq 0 .. LastRound
BY HashTypes, PartialKeyAssumption DEF NoFrame, Frame, Content, LastRound, NoCall, Op

(* A call, once made, has an operation and a key. *)
LEMMA CallTypes ==
  ASSUME NEW t \in Thread, TableTypeOK, call[t] # NoCall
  PROVE  /\ call[t] \in [op : Op, key : Key]
         /\ call[t].op \in Op /\ call[t].key \in Key
         /\ fingerprint(t) \in Fingerprint
         /\ hash1(call[t].key) \in Bucket /\ hash2(call[t].key) \in Bucket
<1>1. call[t] \in [op : Op, key : Key]
  BY DEF TableTypeOK
<1> QED BY <1>1, HashTypes DEF fingerprint

(* The slot a thread is at is a location of the table. *)
LEMMA TargetTypes ==
  ASSUME TableTypeOK, NEW t \in Thread
  PROVE  /\ frame[t] \in Frame
         /\ Target(t) \in Location /\ Target(t)[1] = frame[t].bucket
         /\ hash_table \in [Location -> Content] /\ hash_table[Target(t)] \in Content
<1>1. frame[t] \in Frame /\ hash_table \in [Location -> Content]
  BY DEF TableTypeOK
<1>2. Target(t) \in Location /\ Target(t)[1] = frame[t].bucket
  BY <1>1 DEF Target, Location, Frame
<1> QED BY <1>1, <1>2

(* An item is looked for in both buckets of its key, and moving it from one
   leads to the other if hashing is an involution. *)
LEMMA ExaminedBuckets ==
  /\ \A k \in Key : /\ Examined(md5_fingerprint[k], hash1(k))
                    /\ Examined(md5_fingerprint[k], hash2(k))
  /\ Involutive => \A f \in Fingerprint, b \in Bucket :
       Examined(f, b) => Examined(f, get_next_hash_index(b, f))
<1>1. ASSUME Involutive, NEW f \in Fingerprint, NEW b \in Bucket, Examined(f, b)
      PROVE  Examined(f, get_next_hash_index(b, f))
  <2>1. PICK k \in Key : md5_fingerprint[k] = f /\ b \in {hash1(k), hash2(k)}
    BY <1>1 DEF Examined
  <2>2. hash2(k) = get_next_hash_index(hash1(k), f) /\ hash1(k) \in Bucket
    BY <2>1, HashTypes DEF hash2
  <2>3. get_next_hash_index(b, f) \in {hash1(k), hash2(k)}
    BY <1>1, <2>1, <2>2 DEF Involutive
  <2> QED BY <2>1, <2>3 DEF Examined
<1> QED BY <1>1 DEF Examined

(* A scan that was in vain has shown that no slot of the bucket is sought. *)
LEMMA InVain ==
  ASSUME NEW t \in Thread, Wanted(t) = {}
  PROVE  \A s \in Slot : hash_table[frame[t].bucket, s] # Sought(t)
BY DEF Wanted, Sought

-----------------------------------------------------------------------------
(***************************************************************************)
(* The steps of the two filters, without their locks                       *)
(***************************************************************************)
Begins(t)      == \E op \in Op, k \in Key : Begin(t, op, k, "lock")
Takes(t)       == /\ pc[t] = "lock" /\ Goto(t, "scan", frame[t])
                  /\ UNCHANGED <<hash_table, call, result, ncalls>>
Looks(t, next) == Takes(t) \/ Select(t) \/ SecondBucket(t, next) \/ Pick(t)
Ends(t)        == Found(t) \/ Apply(t) \/ GiveUp(t)

TableStep(t, next) == Begins(t) \/ Looks(t, next) \/ Swap(t, next) \/ Ends(t)

Unchanged(u) ==
  /\ pc'[u] = pc[u] /\ frame'[u] = frame[u]
  /\ call'[u] = call[u] /\ result'[u] = result[u]

(* The beginning of a call: it is at the first bucket of its key. *)
LEMMA BeginsActs ==
  ASSUME TableTypeOK, NEW t \in Thread, Begins(t)
  PROVE  /\ pc[t] = "idle" /\ pc'[t] = "lock" /\ result'[t] = "none"
         /\ UNCHANGED hash_table
         /\ \E op \in Op, k \in Key : call' = [call EXCEPT ![t] = [op |-> op, key |-> k]]
         /\ call'[t] # NoCall /\ call'[t].key \in Key
         /\ frame'[t].bucket = hash1(call'[t].key)
         /\ frame'[t].round = 1 /\ frame'[t].fingerprint = fingerprint(t)'
         /\ \A u \in Thread \ {t} : Unchanged(u)
         /\ TableTypeOK'
<1>1. PICK op \in Op, k \in Key : Begin(t, op, k, "lock")
  BY DEF Begins
<1> DEFINE f == [NoFrame EXCEPT !.bucket = hash1(k), !.round = 1,
                   !.fingerprint = md5_fingerprint[k]]
<1>2. /\ pc[t] = "idle" /\ pc' = [pc EXCEPT ![t] = "lock"] /\ frame' = [frame EXCEPT ![t] = f]
      /\ result' = [result EXCEPT ![t] = "none"] /\ ncalls' = [ncalls EXCEPT ![t] = @ + 1]
      /\ call' = [call EXCEPT ![t] = [op |-> op, key |-> k]] /\ UNCHANGED hash_table
  BY <1>1 DEF Begin, Goto
<1>3. /\ f.bucket = hash1(k) /\ f.round = 1 /\ f.fingerprint = md5_fingerprint[k]
      /\ f \in Frame
  BY EmptyTypes, HashTypes DEF Frame, Content, NoFrame
<1> HIDE DEF f
<1>4. TableTypeOK'
  BY <1>2, <1>3 DEF TableTypeOK
<1>5. call'[t] = [op |-> op, key |-> k] /\ call'[t] # NoCall /\ frame'[t] = f
  BY <1>2, EmptyTypes DEF TableTypeOK
<1>6. \A u \in Thread \ {t} : Unchanged(u)
  BY <1>2 DEF TableTypeOK, Unchanged
<1>7. pc'[t] = "lock" /\ result'[t] = "none"
  BY <1>2 DEF TableTypeOK
<1>8. \E o \in Op, j \in Key : call' = [call EXCEPT ![t] = [op |-> o, key |-> j]]
  BY <1>2
<1>9. call'[t].key = k /\ fingerprint(t)' = md5_fingerprint[k]
  BY <1>5 DEF fingerprint
<1> QED BY <1>2, <1>3, <1>4, <1>5, <1>6, <1>7, <1>8, <1>9

(* A step to the next scan, or to the slot to take, or to replace. *)
LEMMA LooksActs ==
  ASSUME TableInv, NEW t \in Thread, NEW next \in {"lock", "scan"}, Looks(t, next)
  PROVE  /\ pc[t] \in {"lock", "scan"} /\ pc'[t] # "idle"
         /\ UNCHANGED <<hash_table, call, result>>
         /\ frame'[t].fingerprint = frame[t].fingerprint
         /\ frame'[t].round > 2 <=> frame[t].round > 2
         /\ \/ frame'[t].bucket = frame[t].bucket
            \/ frame[t].round <= 2 /\ frame'[t].bucket \in {hash1(call[t].key), hash2(call[t].key)}
         /\ \A u \in Thread \ {t} : Unchanged(u)
         /\ TableTypeOK' /\ RoundOK(t)'
<1>1. TableTypeOK /\ frame[t] \in Frame
  BY TargetTypes DEF TableInv
<1>2. ASSUME NEW f \in Frame, NEW label \in {"lock", "scan", "apply", "swap"}, Goto(t, label, f),
             UNCHANGED <<hash_table, call, result, ncalls>>
      PROVE  /\ TableTypeOK' /\ \A u \in Thread \ {t} : Unchanged(u)
             /\ pc'[t] = label /\ frame'[t] = f
  BY <1>1, <1>2 DEF Goto, TableTypeOK, Unchanged
<1>3. ASSUME pc[t] # "idle" PROVE RoundOK(t) /\ call[t] # NoCall
  BY <1>3 DEF TableInv, CallerOK, CallOK
<1>4. CASE Takes(t)
  <2>1. Goto(t, "scan", frame[t]) /\ UNCHANGED <<hash_table, call, result, ncalls>>
        /\ pc[t] = "lock"
    BY <1>4 DEF Takes
  <2>2. /\ TableTypeOK' /\ \A u \in Thread \ {t} : Unchanged(u)
        /\ pc'[t] = "scan" /\ frame'[t] = frame[t]
    BY <1>1, <1>2, <2>1
  <2>3. RoundOK(t)'
    BY <1>3, <2>1, <2>2 DEF RoundOK, fingerprint
  <2> QED BY <2>1, <2>2, <2>3
<1>5. CASE Select(t)
  <2>1. PICK s \in Slot : Goto(t, "apply", [frame[t] EXCEPT !.slot = s])
    BY <1>5 DEF Select, Wanted
  <2>2. [frame[t] EXCEPT !.slot = s] \in Frame
    BY <1>1 DEF Frame
  <2>3. /\ pc[t] = "scan" /\ call[t].op # "find"
        /\ UNCHANGED <<hash_table, call, result, ncalls>>
    BY <1>5 DEF Select
  <2>4. /\ TableTypeOK' /\ \A u \in Thread \ {t} : Unchanged(u)
        /\ pc'[t] = "apply" /\ frame'[t] = [frame[t] EXCEPT !.slot = s]
    BY <1>2, <2>1, <2>2, <2>3
  <2>5. /\ frame'[t].bucket = frame[t].bucket /\ frame'[t].round = frame[t].round
        /\ frame'[t].fingerprint = frame[t].fingerprint
    BY <1>1, <2>4 DEF Frame
  <2>6. RoundOK(t)'
    BY <1>3, <2>3, <2>4, <2>5 DEF RoundOK, fingerprint
  <2> QED BY <2>3, <2>4, <2>5, <2>6
<1>6. CASE SecondBucket(t, next)
  <2> DEFINE f == [frame[t] EXCEPT !.bucket = hash2(call[t].key), !.round = 2]
  <2>1. /\ pc[t] = "scan" /\ frame[t].round = 1 /\ Goto(t, next, f)
        /\ UNCHANGED <<hash_table, call, result, ncalls>>
    BY <1>6 DEF SecondBucket, NotHere
  <2>2. hash2(call[t].key) \in Bucket
    BY <1>1, <1>3, <2>1, CallTypes
  <2>3. /\ f \in Frame /\ f.bucket = hash2(call[t].key) /\ f.round = 2
        /\ f.fingerprint = frame[t].fingerprint
    BY <1>1, <2>2, EmptyTypes DEF Frame
  <2> HIDE DEF f
  <2>4. /\ TableTypeOK' /\ \A u \in Thread \ {t} : Unchanged(u)
        /\ pc'[t] = next /\ frame'[t] = f
    BY <1>2, <2>1, <2>3
  <2>5. RoundOK(t)'
    BY <1>3, <2>1, <2>3, <2>4, EmptyTypes DEF RoundOK, fingerprint
  <2> QED BY <2>1, <2>3, <2>4, <2>5
<1>7. CASE Pick(t)
  <2>1. PICK b \in {hash1(call[t].key), hash2(call[t].key), frame[t].bucket}, s \in Slot :
          /\ Goto(t, "swap", [frame[t] EXCEPT !.bucket = b, !.slot = s])
          /\ b = frame[t].bucket \/ frame[t].round = 2
    BY <1>7 DEF Pick
  <2> DEFINE f == [frame[t] EXCEPT !.bucket = b, !.slot = s]
  <2>2. /\ pc[t] = "scan" /\ call[t].op = "insert" /\ frame[t].round \in 2 .. LastRound - 1
        /\ Goto(t, "swap", f) /\ UNCHANGED <<hash_table, call, result, ncalls>>
    BY <1>7, <2>1 DEF Pick, NotHere
  <2>3. b \in Bucket
    BY <1>1, <1>3, <2>2, CallTypes DEF Frame
  <2>4. /\ f \in Frame /\ f.round = frame[t].round /\ f.bucket = b
        /\ f.fingerprint = frame[t].fingerprint
    BY <1>1, <2>3 DEF Frame
  <2> HIDE DEF f
  <2>5. /\ TableTypeOK' /\ \A u \in Thread \ {t} : Unchanged(u)
        /\ pc'[t] = "swap" /\ frame'[t] = f
    BY <1>2, <2>2, <2>4
  <2>6. frame[t].round # 1 /\ frame[t].round \in 1 .. LastRound
    BY <2>2, EmptyTypes
  <2>7. RoundOK(t)'
    BY <1>3, <2>2, <2>4, <2>5, <2>6 DEF RoundOK, fingerprint
  <2>8. \/ frame'[t].bucket = frame[t].bucket
        \/ frame[t].round <= 2 /\ frame'[t].bucket \in {hash1(call[t].key), hash2(call[t].key)}
    BY <2>1, <2>4, <2>5
  <2> QED BY <2>2, <2>4, <2>5, <2>7, <2>8
<1> QED BY <1>4, <1>5, <1>6, <1>7 DEF Looks

(* A replacement: what was in the slot is in the hand. *)
LEMMA SwapActs ==
  ASSUME TableInv, NEW t \in Thread, NEW next \in {"lock", "scan"}, Swap(t, next)
  PROVE  /\ pc[t] = "swap" /\ pc'[t] = next /\ UNCHANGED <<call, result>>
         /\ call[t].op = "insert"
         /\ hash_table' = [hash_table EXCEPT ![Target(t)] = frame[t].fingerprint]
         /\ frame'[t].fingerprint = hash_table[Target(t)]
         /\ frame'[t].bucket = NextBucket(frame[t].bucket, hash_table[Target(t)])
         /\ frame[t].round \in 2 .. LastRound - 1 /\ frame'[t].round = frame[t].round + 1
         /\ \A u \in Thread \ {t} : Unchanged(u)
         /\ TableTypeOK' /\ RoundOK(t)'
<1> DEFINE taken == hash_table[Target(t)]
           g == [bucket |-> NextBucket(frame[t].bucket, taken), slot |-> 0,
                 round |-> NextRound(frame[t].round), fingerprint |-> taken]
<1>1. /\ pc[t] = "swap" /\ Goto(t, next, g) /\ UNCHANGED <<call, result, ncalls>>
      /\ hash_table' = [hash_table EXCEPT ![Target(t)] = frame[t].fingerprint]
  BY DEF Swap
<1>2. /\ TableTypeOK /\ frame[t] \in Frame /\ Target(t) \in Location /\ taken \in Content
  BY TargetTypes DEF TableInv
<1>3. call[t].op = "insert" /\ frame[t].round \in 2 .. LastRound - 1
  BY <1>1 DEF TableInv, CallerOK, RoundOK
<1>4. NextBucket(frame[t].bucket, taken) \in Bucket
  BY <1>2, HashTypes DEF NextBucket, Frame, Content
<1>5. /\ NextRound(frame[t].round) = frame[t].round + 1
      /\ NextRound(frame[t].round) \in 3 .. LastRound
  BY <1>3, EmptyTypes DEF NextRound
<1>6. g \in Frame
  BY <1>2, <1>4, <1>5, HashTypes DEF Frame
<1>7. g.fingerprint = taken /\ g.bucket = NextBucket(frame[t].bucket, taken)
      /\ g.round = frame[t].round + 1 /\ g.round \in 3 .. LastRound
  BY <1>5
<1> HIDE DEF g, taken
<1>8. frame[t].fingerprint \in Content
  BY <1>2 DEF Frame
<1>9. hash_table' \in [Location -> Content]
  BY <1>1, <1>2, <1>8 DEF TableTypeOK
<1>10. /\ TableTypeOK' /\ pc'[t] = next /\ frame'[t] = g
       /\ \A u \in Thread \ {t} : Unchanged(u)
  BY <1>1, <1>2, <1>6, <1>9 DEF Goto, TableTypeOK, Unchanged
<1>11. g.round \in 1 .. LastRound /\ ~(g.round <= 2) /\ g.round # 1 /\ g.round # 2
  BY <1>7, EmptyTypes
<1>12. RoundOK(t)'
  BY <1>1, <1>3, <1>10, <1>11 DEF RoundOK
<1> QED BY <1>1, <1>3, <1>7, <1>10, <1>12 DEF taken

(* The end of a call. *)
LEMMA EndsActs ==
  ASSUME TableTypeOK, NEW t \in Thread, Ends(t)
  PROVE  /\ pc[t] \in {"scan", "apply"} /\ pc'[t] = "idle" /\ UNCHANGED call
         /\ result'[t] \in {"true", "false"}
         /\ Found(t) \/ Apply(t) => result'[t] = "true"
         /\ GiveUp(t) => result'[t] = "false"
         /\ ~Apply(t) => UNCHANGED hash_table
         /\ \E x \in {frame[t].fingerprint, Empty} :
              hash_table' \in {hash_table, [hash_table EXCEPT ![Target(t)] = x]}
         /\ \A u \in Thread \ {t} : Unchanged(u)
         /\ TableTypeOK'
<1>1. PICK value \in {"true", "false"} : Return(t, value)
  BY DEF Ends, Found, Apply, GiveUp
<1>2. /\ pc'[t] = "idle" /\ result'[t] = value /\ \A u \in Thread \ {t} : Unchanged(u)
      /\ result' \in [Thread -> {"none", "true", "false"}]
      /\ pc' \in [Thread -> {"idle", "lock", "scan", "apply", "swap"}]
      /\ frame' \in [Thread -> Frame] /\ UNCHANGED <<call, ncalls>>
  BY <1>1, EmptyTypes DEF Return, Goto, TableTypeOK, Unchanged
<1>3. pc[t] \in {"scan", "apply"}
  BY DEF Ends, Found, Apply, GiveUp, NotHere
<1>4. /\ Found(t) \/ Apply(t) => result'[t] = "true"
      /\ GiveUp(t) => result'[t] = "false"
  BY DEF Found, Apply, GiveUp, NotHere, Return, TableTypeOK
<1>5. ~Apply(t) => UNCHANGED hash_table
  BY DEF Ends, Found, GiveUp
<1>6. \E x \in {frame[t].fingerprint, Empty} :
        hash_table' \in {hash_table, [hash_table EXCEPT ![Target(t)] = x]}
  BY <1>5 DEF Apply
<1>7. hash_table' \in [Location -> Content]
  <2>1. frame[t].fingerprint \in Content /\ Empty \in Content
    BY TargetTypes DEF Frame, Content
  <2> QED BY <1>6, <2>1 DEF TableTypeOK
<1> QED BY <1>2, <1>3, <1>4, <1>5, <1>6, <1>7 DEF TableTypeOK

(* A step of t leaves the other threads alone. *)
LEMMA OtherThreads ==
  ASSUME TableInv, NEW t \in Thread, NEW next \in {"lock", "scan"}, TableStep(t, next)
  PROVE  \A u \in Thread \ {t} : Unchanged(u)
BY BeginsActs, LooksActs, SwapActs, EndsActs DEF TableStep, TableInv

(* Every step keeps the types, and how far the calls are. *)
LEMMA TableStepInv ==
  ASSUME TableInv, NEW t \in Thread, NEW next \in {"lock", "scan"}, TableStep(t, next)
  PROVE  TableInv'
<1>1. TableTypeOK
  BY DEF TableInv
<1>2. TableTypeOK'
  BY <1>1, BeginsActs, LooksActs, SwapActs, EndsActs DEF TableStep
<1>3. CallerOK(t)'
  <2>1. CASE Begins(t)
    <3>1. CallOK(t)'
      BY <1>1, <2>1, BeginsActs DEF CallOK
    <3>2. RoundOK(t)'
      BY <1>1, <2>1, BeginsActs, EmptyTypes DEF RoundOK
    <3> QED BY <3>1, <3>2 DEF CallerOK
  <2>2. CASE Looks(t, next)
    <3>1. RoundOK(t)' /\ pc[t] # "idle" /\ pc'[t] # "idle" /\ UNCHANGED <<call, result>>
      BY <2>2, LooksActs
    <3> QED BY <3>1 DEF CallerOK, CallOK, TableInv
  <2>3. CASE Swap(t, next)
    <3>1. RoundOK(t)' /\ pc[t] # "idle" /\ pc'[t] # "idle" /\ UNCHANGED <<call, result>>
      BY <2>3, SwapActs
    <3> QED BY <3>1 DEF CallerOK, CallOK, TableInv
  <2>4. CASE Ends(t)
    BY <1>1, <2>4, EndsActs DEF CallerOK, CallOK
  <2> QED BY <2>1, <2>2, <2>3, <2>4 DEF TableStep
<1>4. ASSUME NEW u \in Thread \ {t} PROVE CallerOK(u)' /\ (u \in Replacing' <=> u \in Replacing)
  <2>1. Unchanged(u) /\ CallerOK(u)
    BY OtherThreads DEF TableInv
  <2>2. u \in Replacing' <=> u \in Replacing
    BY <2>1 DEF Unchanged, Replacing
  <2> QED BY <2>1, <2>2 DEF Unchanged, CallerOK, CallOK, RoundOK, fingerprint
<1>5. IsFiniteSet(Replacing')
  <2>1. Replacing' \subseteq Replacing \cup {t} /\ IsFiniteSet(Replacing)
    BY <1>4 DEF Replacing, TableInv
  <2>2. IsFiniteSet(Replacing \cup {t})
    BY <2>1, FS_AddElement
  <2> QED BY <2>1, <2>2, FS_Subset
<1> QED BY <1>2, <1>3, <1>4, <1>5 DEF TableInv

LEMMA InitTableInv == TableInit => TableInv
<1> SUFFICES ASSUME TableInit PROVE TableInv
  OBVIOUS
<1>1. TableTypeOK
  BY EmptyTypes, LockedTableAssumption DEF TableInit, TableTypeOK, Content
<1>2. \A t \in Thread : CallerOK(t)
  BY DEF TableInit, CallerOK, CallOK
<1>3. Replacing = {}
  BY DEF TableInit, Replacing
<1> QED BY <1>1, <1>2, <1>3, FS_EmptySet DEF TableInv

(* Items stay in the buckets where they are looked for. *)
LEMMA PlacedStep ==
  ASSUME Involutive, TableInv, PlacedInv, NEW t \in Thread, NEW next \in {"lock", "scan"},
         TableStep(t, next)
  PROVE  PlacedInv'
<1> DEFINE f == frame[t].fingerprint
           b == frame[t].bucket
           taken == hash_table[Target(t)]
<1>1. /\ TableTypeOK /\ b \in Bucket /\ f \in Content /\ Target(t) \in Location
      /\ Target(t)[1] = b /\ hash_table \in [Location -> Content] /\ taken \in Content
  BY TargetTypes DEF TableInv, Frame
<1>2. pc[t] # "idle" => /\ f # Empty => Examined(f, b)
                        /\ RoundOK(t) /\ call[t].key \in Key
  BY <1>1, CallTypes DEF PlacedInv, TableInv, CallerOK, CallOK
<1>3. \A l \in Location : hash_table[l] # Empty => Examined(hash_table[l], l[1])
  BY DEF PlacedInv
<1>4. ASSUME NEW x \in {f, Empty}, pc[t] # "idle",
             hash_table' \in {hash_table, [hash_table EXCEPT ![Target(t)] = x]}
      PROVE  \A l \in Location : hash_table'[l] # Empty => Examined(hash_table'[l], l[1])
  BY <1>1, <1>2, <1>3, <1>4
<1>5. \A l \in Location : hash_table'[l] # Empty => Examined(hash_table'[l], l[1])
  <2>1. CASE Begins(t) \/ Looks(t, next)
    BY <1>1, <1>3, <2>1, BeginsActs, LooksActs
  <2>2. CASE Swap(t, next)
    <3>1. pc[t] # "idle" /\ hash_table' = [hash_table EXCEPT ![Target(t)] = f]
      BY <2>2, SwapActs
    <3> QED BY <1>4, <3>1
  <2>3. CASE Ends(t)
    <3>1. pc[t] # "idle" /\ \E x \in {f, Empty} :
            hash_table' \in {hash_table, [hash_table EXCEPT ![Target(t)] = x]}
      BY <1>1, <2>3, EndsActs
    <3> QED BY <1>4, <3>1
  <2> QED BY <2>1, <2>2, <2>3 DEF TableStep
<1>6. pc'[t] # "idle" /\ frame'[t].fingerprint # Empty =>
        Examined(frame'[t].fingerprint, frame'[t].bucket)
  <2>1. CASE Begins(t)
    BY <1>1, <2>1, BeginsActs, ExaminedBuckets DEF fingerprint
  <2>2. CASE Looks(t, next)
    <3>1. /\ pc[t] # "idle" /\ frame'[t].fingerprint = f
          /\ \/ frame'[t].bucket = b
             \/ frame[t].round <= 2 /\ frame'[t].bucket \in {hash1(call[t].key), hash2(call[t].key)}
      BY <2>2, LooksActs
    <3>2. frame[t].round <= 2 => f = md5_fingerprint[call[t].key]
      BY <1>2, <3>1 DEF RoundOK, fingerprint
    <3> QED BY <1>2, <3>1, <3>2, ExaminedBuckets
  <2>3. CASE Swap(t, next)
    <3>1. frame'[t].fingerprint = taken /\ frame'[t].bucket = NextBucket(b, taken)
      BY <2>3, SwapActs
    <3>2. taken # Empty => Examined(taken, b) /\ taken \in Fingerprint
      BY <1>1, <1>3 DEF Content
    <3>3. taken # Empty => Examined(taken, NextBucket(b, taken))
      BY <1>1, <3>2, ExaminedBuckets DEF NextBucket
    <3> QED BY <3>1, <3>3
  <2>4. CASE Ends(t)
    BY <1>1, <2>4, EndsActs
  <2> QED BY <2>1, <2>2, <2>3, <2>4 DEF TableStep
<1>7. \A u \in Thread \ {t} : pc'[u] # "idle" /\ frame'[u].fingerprint # Empty =>
        Examined(frame'[u].fingerprint, frame'[u].bucket)
  BY OtherThreads DEF Unchanged, PlacedInv
<1> QED BY <1>5, <1>6, <1>7 DEF PlacedInv

LEMMA InitPlaced == TableInit => PlacedInv
BY LockedTableAssumption DEF TableInit, PlacedInv

-----------------------------------------------------------------------------
(***************************************************************************)
(* Counting                                                                *)
(***************************************************************************)
Holders(table, f)   == {l \in Location : table[l] = f}
Stored(table, l, x) == [table EXCEPT ![l] = x]

(* Storing x where y was makes one more x and one less y. *)
LEMMA StoreCounts ==
  ASSUME NEW table \in [Location -> Content], NEW l \in Location, NEW x, NEW f
  PROVE  /\ Cardinality(Holders(table, f)) \in Nat
         /\ Cardinality(Holders(Stored(table, l, x), f)) \in Nat
         /\ table[l] = f => Cardinality(Holders(table, f)) > 0
         /\ x = f /\ table[l] # f =>
              Cardinality(Holders(Stored(table, l, x), f)) = Cardinality(Holders(table, f)) + 1
         /\ x # f /\ table[l] = f =>
              Cardinality(Holders(Stored(table, l, x), f)) = Cardinality(Holders(table, f)) - 1
         /\ (x = f <=> table[l] = f) =>
              Cardinality(Holders(Stored(table, l, x), f)) = Cardinality(Holders(table, f))
<1> DEFINE H == Holders(table, f)
           G == Holders(Stored(table, l, x), f)
<1>1. IsFiniteSet(Location)
  <2>1. IsFiniteSet(Bucket) /\ IsFiniteSet(Slot)
    BY PartialKeyAssumption, FS_Interval DEF Bucket, Slot
  <2> QED BY <2>1, FS_Product DEF Location
<1>2. IsFiniteSet(H) /\ IsFiniteSet(G)
  <2>1. H \in SUBSET Location /\ G \in SUBSET Location
    BY DEF Holders, Stored
  <2> QED BY <1>1, <2>1, FS_Subset
<1>3. Cardinality(H) \in Nat /\ Cardinality(G) \in Nat
  BY <1>2, FS_CardinalityType
<1>4. ASSUME table[l] = f PROVE Cardinality(H) > 0
  <2>1. H # {}
    BY <1>4 DEF Holders, Stored
  <2> HIDE DEF H
  <2> QED BY <1>2, <1>3, <2>1, FS_EmptySet
<1>5. ASSUME x = f, table[l] # f PROVE Cardinality(G) = Cardinality(H) + 1
  <2>1. G = H \cup {l} /\ l \notin H
    BY <1>5 DEF Holders, Stored
  <2> HIDE DEF H, G
  <2> QED BY <1>2, <1>3, <1>5, <2>1, FS_AddElement
<1>6. ASSUME x # f, table[l] = f PROVE Cardinality(G) = Cardinality(H) - 1
  <2>1. G = H \ {l} /\ l \in H
    BY <1>6 DEF Holders, Stored
  <2> HIDE DEF H, G
  <2> QED BY <1>2, <1>3, <1>4, <1>6, <2>1, FS_RemoveElement
<1>7. ASSUME x = f <=> table[l] = f PROVE Cardinality(G) = Cardinality(H)
  <2>1. G = H
    BY <1>7 DEF Holders, Stored
  <2> HIDE DEF H, G
  <2> QED BY <2>1
<1> QED BY <1>3, <1>4, <1>5, <1>6, <1>7

Carrying(hands, in_hand, f) == {u \in hands : in_hand[u].fingerprint = f}

(* The copies of f in the hands of t. *)
InHand(t, f) == IF t \in Replacing /\ frame[t].fingerprint = f THEN 1 ELSE 0

(* The hands of one thread can be counted apart. *)
LEMMA OneHand ==
  ASSUME NEW t, NEW hands, IsFiniteSet(hands), NEW f, NEW in_hand
  PROVE  /\ Cardinality(Carrying(hands \ {t}, in_hand, f)) \in Nat
         /\ Cardinality(Carrying(hands, in_hand, f))
              = Cardinality(Carrying(hands \ {t}, in_hand, f))
                + (IF t \in hands /\ in_hand[t].fingerprint = f THEN 1 ELSE 0)
<1> DEFINE rest == Carrying(hands \ {t}, in_hand, f)
           all  == Carrying(hands, in_hand, f)
<1>1. rest \subseteq hands /\ t \notin rest
  BY DEF Carrying
<1>2. IsFiniteSet(rest) /\ Cardinality(rest) \in Nat
  BY <1>1, FS_Subset, FS_CardinalityType
<1>3. ASSUME t \in hands, in_hand[t].fingerprint = f
      PROVE  Cardinality(all) = Cardinality(rest) + 1
  <2>1. all = rest \cup {t}
    BY <1>3 DEF Carrying
  <2> HIDE DEF rest, all
  <2> QED BY <1>1, <1>2, <2>1, FS_AddElement
<1>4. ASSUME ~(t \in hands /\ in_hand[t].fingerprint = f)
      PROVE  Cardinality(all) = Cardinality(rest)
  <2>1. all = rest
    BY <1>4 DEF Carrying
  <2> HIDE DEF rest, all
  <2> QED BY <2>1
<1> QED BY <1>2, <1>3, <1>4

(* What a step of t does to the hands and answers that clients can see. *)
LEMMA OtherHands ==
  ASSUME TableInv, NEW t \in Thread, NEW next \in {"lock", "scan"}, TableStep(t, next)
  PROVE  /\ \A u \in Thread \ {t} : /\ u \in Replacing' <=> u \in Replacing
                                    /\ frame'[u] = frame[u]
         /\ Results' = [Results EXCEPT ![t] =
                          IF t \in Replacing' THEN "stored" ELSE result'[t]]
<1>1. \A u \in Thread \ {t} : /\ u \in Replacing' <=> u \in Replacing
                              /\ frame'[u] = frame[u] /\ result'[u] = result[u]
  BY OtherThreads DEF Unchanged, Replacing
<1> QED BY <1>1 DEF Results

(* The bag before and after a step of t: what the table holds, what the other
   threads have in their hands, and what t has. *)
LEMMA StepItems ==
  ASSUME TableInv, NEW t \in Thread, NEW next \in {"lock", "scan"}, TableStep(t, next),
         NEW f \in Fingerprint
  PROVE  \E n \in Nat : /\ Items[f] = Count(f) + (n + InHand(t, f))
                        /\ Items'[f] = Count(f)' + (n + InHand(t, f)')
<1>1. Carrying(Replacing' \ {t}, frame', f) = Carrying(Replacing \ {t}, frame, f)
  BY OtherHands DEF Carrying, Replacing
<1>2. IsFiniteSet(Replacing) /\ IsFiniteSet(Replacing')
  BY TableStepInv DEF TableInv
<1>3. /\ Items[f] = Count(f) + Cardinality(Carrying(Replacing, frame, f))
      /\ Items'[f] = Count(f)' + Cardinality(Carrying(Replacing', frame', f))
  BY DEF Items, Carrying
<1>4. /\ Cardinality(Carrying(Replacing \ {t}, frame, f)) \in Nat
      /\ Cardinality(Carrying(Replacing, frame, f))
           = Cardinality(Carrying(Replacing \ {t}, frame, f)) + InHand(t, f)
  BY <1>2, OneHand DEF InHand
<1>5. Cardinality(Carrying(Replacing', frame', f))
        = Cardinality(Carrying(Replacing \ {t}, frame, f)) + InHand(t, f)'
  BY <1>1, <1>2, OneHand DEF InHand
<1> QED BY <1>3, <1>4, <1>5

(* Count after a step that stores x in the slot of t. *)
LEMMA TargetCounts ==
  ASSUME TableInv, NEW t \in Thread, NEW f, NEW x,
         hash_table' = [hash_table EXCEPT ![Target(t)] = x]
  PROVE  /\ Count(f) \in Nat /\ Count(f)' \in Nat
         /\ hash_table[Target(t)] = f => Count(f) > 0
         /\ x = f /\ hash_table[Target(t)] # f => Count(f)' = Count(f) + 1
         /\ x # f /\ hash_table[Target(t)] = f => Count(f)' = Count(f) - 1
         /\ (x = f <=> hash_table[Target(t)] = f) => Count(f)' = Count(f)
<1>1. hash_table \in [Location -> Content] /\ Target(t) \in Location
  BY TargetTypes DEF TableInv
<1>2. /\ Count(f) = Cardinality(Holders(hash_table, f))
      /\ Count(f)' = Cardinality(Holders(Stored(hash_table, Target(t), x), f))
  BY DEF Count, Holders, Stored
<1> QED BY <1>1, <1>2, StoreCounts

(* There are as many items of a fingerprint as there are, and at least one if one
   is in the table. *)
LEMMA CountTypes ==
  ASSUME TableInv, NEW f
  PROVE  Count(f) \in Nat /\ ((\E l \in Location : hash_table[l] = f) => Count(f) > 0)
<1>1. hash_table \in [Location -> Content] /\ <<0, 0>> \in Location
  BY HashTypes DEF TableInv, TableTypeOK, Location
<1>2. Count(f) = Cardinality(Holders(hash_table, f))
  BY DEF Count, Holders
<1> QED BY <1>1, <1>2, StoreCounts

-----------------------------------------------------------------------------
(***************************************************************************)
(* What the steps do to the bag, and to the answers                        *)
(***************************************************************************)
Answers(t, value) == Results' = [Results EXCEPT ![t] = value] /\ UNCHANGED call
OneMore(f) == Items' = [Items EXCEPT ![f] = @ + 1]
OneLess(f) == Items[f] > 0 /\ Items' = [Items EXCEPT ![f] = @ - 1]

LEMMA ChangeOne ==
  ASSUME NEW f \in Fingerprint, \A g \in Fingerprint \ {f} : Items'[g] = Items[g]
  PROVE  /\ Items'[f] = Items[f] => Items' = Items
         /\ Items'[f] = Items[f] + 1 => OneMore(f)
         /\ Items[f] > 0 /\ Items'[f] = Items[f] - 1 => OneLess(f)
<1>1. /\ Items = [g \in Fingerprint |-> Items[g]]
      /\ Items' = [g \in Fingerprint |-> Items'[g]]
  BY DEF Items
<1> QED BY <1>1 DEF OneMore, OneLess

LEMMA SameBag ==
  ASSUME \A g \in Fingerprint : Items'[g] = Items[g]
  PROVE  Items' = Items
<1>1. /\ Items = [g \in Fingerprint |-> Items[g]]
      /\ Items' = [g \in Fingerprint |-> Items'[g]]
  BY DEF Items
<1> QED BY <1>1

(* A step that leaves the table and the hands alone leaves the bag alone. *)
LEMMA SameItems ==
  ASSUME TableInv, NEW t \in Thread, NEW next \in {"lock", "scan"}, TableStep(t, next),
         UNCHANGED hash_table,
         t \in Replacing' <=> t \in Replacing,
         t \in Replacing => frame'[t].fingerprint = frame[t].fingerprint
  PROVE  Items' = Items
<1>1. \A f : {u \in Replacing' : frame'[u].fingerprint = f}
               = {u \in Replacing : frame[u].fingerprint = f}
  BY OtherHands DEF Replacing
<1> QED BY <1>1 DEF Items, Count

(* A call that has not replaced has no answer yet; one that has, has stored. *)
LEMMA Asks ==
  ASSUME TableInv, NEW t \in Thread, pc[t] # "idle"
  PROVE  /\ call[t] # NoCall /\ result[t] = "none" /\ call[t].op \in Op
         /\ call[t].key \in Key /\ fingerprint(t) \in Fingerprint
         /\ t \notin Replacing => Results[t] = "none"
         /\ t \in Replacing => call[t].op = "insert" /\ Results[t] = "stored"
<1>1. call[t] # NoCall /\ result[t] = "none" /\ TableTypeOK
  BY DEF TableInv, CallerOK, CallOK
<1> QED BY <1>1, CallTypes DEF Results, Replacing

(* A call begins: it is not the call of a thread that has one. *)
LEMMA BeginsBag ==
  ASSUME TableInv, NEW t \in Thread, Begins(t)
  PROVE  /\ call[t] = NoCall \/ Results[t] \in {"true", "false"}
         /\ \E op \in Op, k \in Key : call' = [call EXCEPT ![t] = [op |-> op, key |-> k]]
         /\ Results' = [Results EXCEPT ![t] = "none"] /\ UNCHANGED Items
<1>1. TableStep(t, "lock") /\ TableTypeOK
  BY DEF TableStep, TableInv
<1>2. t \notin Replacing /\ t \notin Replacing'
  BY <1>1, BeginsActs DEF Replacing
<1>3. call[t] = NoCall \/ Results[t] \in {"true", "false"}
  BY <1>1, <1>2, BeginsActs DEF TableInv, TableTypeOK, CallerOK, CallOK, Results
<1>4. Items' = Items
  BY <1>1, <1>2, BeginsActs, SameItems
<1>5. Results' = [Results EXCEPT ![t] = "none"]
  BY <1>1, <1>2, BeginsActs, OtherHands
<1> QED BY <1>1, <1>3, <1>4, <1>5, BeginsActs

(* The client sees nothing of the locks, of the scans, and of the choice of an
   item to replace. *)
LEMMA LooksBag ==
  ASSUME TableInv, NEW t \in Thread, NEW next \in {"lock", "scan"}, Looks(t, next)
  PROVE  UNCHANGED <<Items, call, Results>>
<1>1. TableStep(t, next)
  BY DEF TableStep
<1>2. t \in Replacing' <=> t \in Replacing
  BY LooksActs DEF Replacing
<1>3. Items' = Items
  BY <1>1, <1>2, LooksActs, SameItems
<1>4. Results' = Results
  BY <1>1, <1>2, LooksActs, OtherHands DEF Results
<1> QED BY <1>3, <1>4, LooksActs

(* The first replacement stores the item of the call; a later one moves an
   item of the table into the hand and the one in the hand to the table. *)
LEMMA SwapBag ==
  ASSUME TableInv, NEW t \in Thread, NEW next \in {"lock", "scan"}, Swap(t, next)
  PROVE  \/ t \in Replacing /\ UNCHANGED <<Items, call, Results>>
         \/ t \notin Replacing /\ Answers(t, "stored") /\ OneMore(fingerprint(t))
<1> DEFINE f == frame[t].fingerprint
           taken == hash_table[Target(t)]
<1>1. /\ pc[t] = "swap" /\ pc'[t] # "idle" /\ UNCHANGED <<call, result>>
      /\ call[t].op = "insert" /\ hash_table' = [hash_table EXCEPT ![Target(t)] = f]
      /\ frame'[t].fingerprint = taken
      /\ frame[t].round \in 2 .. LastRound - 1 /\ frame'[t].round = frame[t].round + 1
  BY SwapActs
<1>2. TableStep(t, next)
  BY DEF TableStep
<1>3. /\ t \in Replacing'
      /\ t \in Replacing <=> ~(frame[t].round <= 2)
  BY <1>1, EmptyTypes DEF Replacing
<1>4. frame[t].round <= 2 => f = fingerprint(t)
  BY <1>1 DEF TableInv, CallerOK, RoundOK
<1>5. fingerprint(t) \in Fingerprint
  BY <1>1, Asks
<1> HIDE DEF f, taken
<1>6. \A g \in Fingerprint :
        /\ Count(g) \in Nat /\ Count(g)' \in Nat
        /\ f = g /\ taken # g => Count(g)' = Count(g) + 1
        /\ f # g /\ taken = g => Count(g)' = Count(g) - 1
        /\ (f = g <=> taken = g) => Count(g)' = Count(g)
  BY <1>1, TargetCounts DEF taken
<1>7. \A g \in Fingerprint : \E n \in Nat :
        /\ Items[g] = Count(g) + (n + (IF t \in Replacing /\ f = g THEN 1 ELSE 0))
        /\ Items'[g] = Count(g)' + (n + (IF taken = g THEN 1 ELSE 0))
  BY <1>1, <1>2, <1>3, StepItems DEF InHand, f
<1>8. Answers(t, "stored")
  BY <1>1, <1>2, <1>3, OtherHands DEF Answers
<1>9. CASE t \in Replacing
  <2>1. Items' = Items
    <3>1. ASSUME NEW g \in Fingerprint PROVE Items'[g] = Items[g]
      BY <1>6, <1>7, <1>9
    <3> QED BY <3>1, SameBag
  <2>2. Results' = Results
    BY <1>8, <1>9 DEF Answers, Results
  <2> QED BY <1>1, <1>9, <2>1, <2>2
<1>10. CASE t \notin Replacing
  <2>1. f \in Fingerprint /\ f = fingerprint(t)
    BY <1>3, <1>4, <1>5, <1>10
  <2>2. ASSUME NEW g \in Fingerprint \ {f} PROVE Items'[g] = Items[g]
    BY <1>6, <1>7, <1>10
  <2>3. Items'[f] = Items[f] + 1
    BY <1>6, <1>7, <1>10, <2>1
  <2> QED BY <1>8, <1>10, <2>1, <2>2, <2>3, ChangeOne
<1> QED BY <1>9, <1>10

(* A call that has selected a slot, which is still as it was, returns: the bag
   has its item, or the last one it has replaced, or has lost the one it removes. *)
LEMMA ApplyBag ==
  ASSUME TableInv, NEW t \in Thread, Apply(t), hash_table[Target(t)] = Sought(t)
  PROVE  /\ Answers(t, "true")
         /\ \/ t \in Replacing /\ UNCHANGED Items
            \/ t \notin Replacing /\ call[t].op = "insert" /\ OneMore(fingerprint(t))
            \/ t \notin Replacing /\ call[t].op = "remove" /\ OneLess(fingerprint(t))
<1> DEFINE f == frame[t].fingerprint
           x == IF call[t].op = "insert" THEN f ELSE Empty
           taken == hash_table[Target(t)]
<1>1. /\ pc[t] = "apply" /\ pc'[t] = "idle" /\ UNCHANGED call /\ result'[t] = "true"
      /\ hash_table' = [hash_table EXCEPT ![Target(t)] = x]
      /\ TableStep(t, "lock")
  BY EndsActs DEF Apply, Ends, TableStep, TableInv
<1>2. /\ call[t].op \in {"insert", "remove"} /\ taken = Sought(t)
      /\ frame[t].round \in 1 .. LastRound
      /\ frame[t].round <= 2 => f = fingerprint(t)
      /\ fingerprint(t) \in Fingerprint
  BY <1>1, Asks DEF TableInv, CallerOK, RoundOK, Op
<1>3. /\ t \notin Replacing'
      /\ t \in Replacing => call[t].op = "insert"
      /\ t \notin Replacing /\ call[t].op = "insert" => frame[t].round <= 2
  BY <1>1, <1>2, EmptyTypes DEF Replacing
<1> HIDE DEF f, x, taken
<1>4. \A g \in Fingerprint :
        /\ Count(g) \in Nat /\ Count(g)' \in Nat
        /\ taken = g => Count(g) > 0
        /\ x = g /\ taken # g => Count(g)' = Count(g) + 1
        /\ x # g /\ taken = g => Count(g)' = Count(g) - 1
        /\ (x = g <=> taken = g) => Count(g)' = Count(g)
  BY <1>1, TargetCounts DEF taken
<1>5. \A g \in Fingerprint : \E n \in Nat :
        /\ Items[g] = Count(g) + (n + (IF t \in Replacing /\ f = g THEN 1 ELSE 0))
        /\ Items'[g] = Count(g)' + n
  <2>1. ASSUME NEW g \in Fingerprint
        PROVE  \E n \in Nat :
                 /\ Items[g] = Count(g) + (n + (IF t \in Replacing /\ f = g THEN 1 ELSE 0))
                 /\ Items'[g] = Count(g)' + (n + 0)
    BY <1>1, <1>3, StepItems DEF InHand, f
  <2> QED BY <2>1
<1>6. Answers(t, "true")
  BY <1>1, <1>3, OtherHands DEF Answers
<1>7. Empty \notin Fingerprint
  BY LockedTableAssumption
<1>8. CASE t \in Replacing
  <2>1. x = f /\ taken = Empty
    BY <1>2, <1>3, <1>8 DEF x, Sought
  <2>2. ASSUME NEW g \in Fingerprint PROVE Items'[g] = Items[g]
    BY <1>4, <1>5, <1>7, <1>8, <2>1
  <2> QED BY <1>6, <1>8, <2>2, SameBag
<1>9. CASE t \notin Replacing /\ call[t].op = "insert"
  <2>1. x = f /\ taken = Empty /\ f = fingerprint(t) /\ f \in Fingerprint
    BY <1>2, <1>3, <1>9 DEF x, Sought
  <2>2. ASSUME NEW g \in Fingerprint \ {f} PROVE Items'[g] = Items[g]
    BY <1>4, <1>5, <1>7, <1>9, <2>1
  <2>3. Items'[f] = Items[f] + 1
    BY <1>4, <1>5, <1>7, <1>9, <2>1
  <2> QED BY <1>6, <1>9, <2>1, <2>2, <2>3, ChangeOne
<1>10. CASE call[t].op = "remove"
  <2>1. x = Empty /\ taken = fingerprint(t) /\ taken \in Fingerprint /\ t \notin Replacing
    BY <1>2, <1>3, <1>10 DEF x, Sought
  <2>2. ASSUME NEW g \in Fingerprint \ {taken} PROVE Items'[g] = Items[g]
    BY <1>4, <1>5, <1>7, <2>1
  <2>3. Items[taken] > 0 /\ Items'[taken] = Items[taken] - 1
    BY <1>4, <1>5, <1>7, <2>1
  <2> QED BY <1>6, <1>10, <2>1, <2>2, <2>3, ChangeOne
<1> QED BY <1>2, <1>8, <1>9, <1>10

(* What find has seen is in the bag. *)
LEMMA FoundBag ==
  ASSUME TableInv, NEW t \in Thread, Found(t)
  PROVE  /\ Answers(t, "true") /\ UNCHANGED Items /\ call[t].op = "find"
         /\ t \notin Replacing /\ Items[fingerprint(t)] > 0
<1>1. /\ pc[t] = "scan" /\ pc'[t] = "idle" /\ UNCHANGED <<hash_table, call>>
      /\ result'[t] = "true" /\ call[t].op = "find" /\ TableStep(t, "lock")
  BY EndsActs DEF Found, Ends, TableStep, TableInv
<1>2. t \notin Replacing /\ t \notin Replacing'
  BY <1>1 DEF Replacing
<1>3. Items[fingerprint(t)] > 0
  <2> DEFINE f == fingerprint(t)
  <2>1. PICK s \in Slot : hash_table[frame[t].bucket, s] = f
    BY <1>1 DEF Found, Wanted
  <2>2. <<frame[t].bucket, s>> \in Location
    BY TargetTypes DEF TableInv, Frame, Location
  <2>3. Count(f) \in Nat /\ Count(f) > 0
    BY <2>1, <2>2, CountTypes
  <2>4. f \in Fingerprint
    BY <1>1, Asks
  <2>5. \E n \in Nat : Items[f] = Count(f) + (n + 0)
    BY <1>1, <1>2, <2>4, StepItems DEF InHand
  <2> QED BY <2>3, <2>5
<1>4. Items' = Items
  BY <1>1, <1>2, SameItems
<1> QED BY <1>1, <1>2, <1>3, <1>4, OtherHands DEF Answers

(* A call gives up: an insert loses the item in its hands, if there is one. *)
LEMMA GiveUpBag ==
  ASSUME TableInv, NEW t \in Thread, GiveUp(t)
  PROVE  /\ Answers(t, "false")
         /\ \/ /\ t \in Replacing
               /\ frame[t].fingerprint # Empty =>
                    frame[t].fingerprint \in Fingerprint /\ OneLess(frame[t].fingerprint)
            \/ t \notin Replacing /\ call[t].op \in {"find", "remove"} /\ UNCHANGED Items
<1> DEFINE f == frame[t].fingerprint
<1>1. /\ pc[t] = "scan" /\ pc'[t] = "idle" /\ UNCHANGED <<hash_table, call>>
      /\ result'[t] = "false" /\ TableStep(t, "lock")
  <2>1. Ends(t) /\ TableTypeOK /\ UNCHANGED hash_table /\ pc[t] = "scan"
    BY DEF GiveUp, NotHere, Ends, TableInv
  <2> QED BY <2>1, EndsActs DEF TableStep
<1>2. t \notin Replacing'
  BY <1>1 DEF Replacing
<1>3. Answers(t, "false")
  BY <1>1, <1>2, OtherHands DEF Answers
<1>4. CASE call[t].op = "insert"
  <2>1. frame[t].round = LastRound /\ frame[t].round > 2
    BY <1>4, EmptyTypes DEF GiveUp, NotHere
  <2>2. t \in Replacing
    BY <1>1, <1>4, <2>1 DEF Replacing
  <2>3. ASSUME f # Empty PROVE f \in Fingerprint /\ OneLess(f)
    <3>1. f \in Fingerprint
      BY <2>3, TargetTypes DEF TableInv, Frame, Content
    <3>2. ASSUME NEW g \in Fingerprint
          PROVE  /\ Count(g) \in Nat /\ Count(g)' = Count(g)
                 /\ \E n \in Nat : /\ Items[g] = Count(g) + (n + InHand(t, g))
                                   /\ Items'[g] = Count(g)' + (n + InHand(t, g)')
      BY <1>1, CountTypes, StepItems DEF Count
    <3>3. \A g \in Fingerprint : /\ InHand(t, g)' = 0
                                 /\ InHand(t, g) = IF f = g THEN 1 ELSE 0
      BY <1>2, <2>2 DEF InHand
    <3> HIDE DEF f
    <3>4. ASSUME NEW g \in Fingerprint \ {f} PROVE Items'[g] = Items[g]
      BY <3>2, <3>3
    <3>5. Items[f] > 0 /\ Items'[f] = Items[f] - 1
      BY <3>1, <3>2, <3>3
    <3> QED BY <3>1, <3>4, <3>5, ChangeOne
  <2> QED BY <1>3, <2>2, <2>3
<1>5. CASE call[t].op # "insert"
  <2>1. t \notin Replacing
    BY <1>5 DEF Replacing
  <2>2. Items' = Items
    BY <1>1, <1>2, <2>1, SameItems
  <2>3. call[t].op \in {"find", "remove"}
    BY <1>1, <1>5, Asks DEF Op
  <2> QED BY <1>3, <2>1, <2>2, <2>3
<1> QED BY <1>4, <1>5

(* The bag that the threads start with. *)
LEMMA InitBag ==
  TableInit => /\ Items = InitItems /\ call = [t \in Thread |-> NoCall]
               /\ Results = [t \in Thread |-> "none"]
<1> SUFFICES ASSUME TableInit
             PROVE  Items = InitItems /\ Results = [t \in Thread |-> "none"]
  BY DEF TableInit
<1>1. hash_table = InitTable /\ Replacing = {} /\ result = [t \in Thread |-> "none"]
  BY DEF TableInit, Replacing
<1>2. ASSUME NEW f \in Fingerprint PROVE Items[f] = InitItems[f]
  <2>1. Cardinality(Carrying(Replacing, frame, f)) = 0
    <3>1. Carrying(Replacing, frame, f) = {}
      BY <1>1 DEF Carrying
    <3> QED BY <3>1, FS_EmptySet
  <2>2. Count(f) \in Nat
    BY InitTableInv, CountTypes
  <2>3. Items[f] = Count(f) + Cardinality(Carrying(Replacing, frame, f))
    BY DEF Items, Carrying
  <2>4. InitItems[f] = Count(f)
    BY <1>1 DEF InitItems, Count
  <2> QED BY <2>1, <2>2, <2>3, <2>4
<1>3. Items = InitItems
  <2>1. /\ Items = [f \in Fingerprint |-> Items[f]]
        /\ InitItems = [f \in Fingerprint |-> InitItems[f]]
    BY DEF Items, InitItems
  <2> QED BY <1>2, <2>1
<1> QED BY <1>1, <1>3 DEF Results
=============================================================================
