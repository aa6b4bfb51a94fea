------------------------- MODULE SequentialProofs ---------------------------
(***************************************************************************)
(* SequentialFilter: mutual exclusion, its invariant, and that it          *)
(* implements the abstract bag with atomic operations.                     *)
(***************************************************************************)
EXTENDS SequentialInvariant, LockedTableProofs

(***************************************************************************)
(* The mutex                                                               *)
(***************************************************************************)
(* Every action of the filter is a step of the table. *)
LEMMA StepTable ==
  ASSUME NEW t \in Thread, Call(t) \/ Step(t)
  PROVE  TableStep(t, "scan")
BY DEF Call, Step, Lock, Inside, Success, Failure, TableStep, Begins, Looks, Takes, Ends

(* It takes the mutex if it is free, keeps it inside a call, and gives it back
   exactly when it returns. *)
LEMMA StepMutex ==
  ASSUME LockInv, NEW t \in Thread, Call(t) \/ Step(t)
  PROVE  \/ pc[t] = "idle" /\ pc'[t] = "lock" /\ mtx' = mtx
         \/ pc[t] = "lock" /\ pc'[t] = "scan" /\ mtx = NoOwner /\ mtx' = t
         \/ pc[t] \notin {"idle", "lock"} /\ pc'[t] \notin {"idle", "lock"} /\ mtx' = mtx
         \/ pc[t] \notin {"idle", "lock"} /\ pc'[t] = "idle" /\ mtx' = NoOwner
<1> USE DEF LockInv, TableInv
<1>1. CASE Call(t)
  <2>1. Begins(t) /\ mtx' = mtx
    BY <1>1 DEF Call, Begins
  <2> QED BY <2>1, BeginsActs
<1>2. CASE Lock(t)
  BY <1>2 DEF Lock, MutexFree, Goto, TableTypeOK
<1>3. CASE Inside(t)
  <2>1. mtx' = mtx /\ pc[t] \in {"scan", "swap"}
    BY <1>3 DEF Inside, Select, SecondBucket, Pick, NotHere, Swap
  <2>2. pc'[t] \in {"scan", "apply", "swap"}
    BY <1>3 DEF Inside, Select, SecondBucket, Pick, Swap, Goto, TableTypeOK
  <2> QED BY <2>1, <2>2
<1>4. CASE Success(t) \/ Failure(t)
  <2>1. Ends(t) /\ mtx' = NoOwner
    BY <1>4 DEF Success, Failure, Ends
  <2> QED BY <2>1, EndsActs
<1> QED BY <1>1, <1>2, <1>3, <1>4 DEF Step

LEMMA InitLockInv == Init => LockInv
BY InitTableInv, NoOwnerAssumption DEF Init, TableInit, LockInv, TypeOK, TableInv, Exclusive

LEMMA StepLockInv == LockInv /\ [Next]_vars => LockInv'
<1> SUFFICES ASSUME LockInv, [Next]_vars PROVE LockInv'
  OBVIOUS
<1>1. CASE UNCHANGED vars
  BY <1>1 DEF vars, local, LockInv, TableInv, TypeOK, TableTypeOK, Replacing, CallerOK, CallOK,
     RoundOK, fingerprint, Exclusive
<1>2. ASSUME NEW t \in Thread, Call(t) \/ Step(t) PROVE LockInv'
  <2>1. TableInv'
    BY <1>2, StepTable, TableStepInv DEF LockInv
  <2>2. \A u \in Thread \ {t} : pc'[u] = pc[u]
    BY <1>2, StepTable, OtherThreads DEF LockInv, Unchanged
  <2>3. TypeOK' /\ Exclusive'
    BY <1>2, <2>1, <2>2, StepMutex, NoOwnerAssumption DEF LockInv, TypeOK, TableInv, Exclusive
  <2> QED BY <2>1, <2>3 DEF LockInv
<1> QED BY <1>1, <1>2 DEF Next, Done

LEMMA LockInvariance == Spec => []LockInv
<1> QED BY InitLockInv, StepLockInv, PTL DEF Spec

(* The mutex of the coarse-grained filter excludes: at most one thread is
   between its lock and its return, and a thread that has returned, on
   whichever of the paths of its operation, does not hold it any more. *)
THEOREM MutualExclusion == Spec => []Exclusive
<1>1. LockInv => Exclusive
  BY DEF LockInv
<1> QED BY <1>1, LockInvariance, PTL

-----------------------------------------------------------------------------
(***************************************************************************)
(* What the scans have shown                                               *)
(***************************************************************************)
LEMMA InitIInv == Init => IInv
BY InitLockInv, InitPlaced DEF Init, TableInit, IInv

(* A thread that does not hold the mutex knows nothing of the table, and the
   table changes only in the hands of the one that does. *)
LEMMA OthersScanOK ==
  ASSUME IInv, NEW t \in Thread, Call(t) \/ Step(t), NEW u \in Thread \ {t}, pc'[u] # "idle"
  PROVE  ScanOK(u)'
<1>1. Unchanged(u) /\ pc[u] # "idle" /\ ScanOK(u)
  BY StepTable, OtherThreads DEF IInv, LockInv, Unchanged
<1>2. CASE pc[u] = "lock"
  <2>1. /\ frame'[u].round = 1 /\ frame'[u].fingerprint # Empty
        /\ pc'[u] = "lock"
    BY <1>1, <1>2 DEF Unchanged, ScanOK
  <2> QED BY <2>1 DEF ScanOK
<1>3. CASE pc[u] # "lock"
  <2>1. mtx = u
    BY <1>1, <1>3 DEF IInv, LockInv, Exclusive
  <2>2. pc[t] \in {"idle", "lock"}
    BY <2>1 DEF IInv, LockInv, Exclusive
  <2>3. UNCHANGED hash_table
    <3>1. CASE Call(t)
      BY <3>1 DEF Call, Begin
    <3>2. CASE Step(t)
      <4>1. ~Inside(t) /\ ~Success(t) /\ ~Failure(t)
        BY <2>2 DEF Inside, Select, SecondBucket, Pick, NotHere, Swap, Success, Failure, Found,
           Apply, GiveUp
      <4> QED BY <3>2, <4>1 DEF Step, Lock
    <3> QED BY <3>1, <3>2
  <2> QED BY <1>1, <2>3 DEF Unchanged, ScanOK, Sought, fingerprint, Target
<1> QED BY <1>2, <1>3

(* What an action establishes for the thread itself. *)
LEMMA OwnScanOK ==
  ASSUME IInv, NEW t \in Thread, Call(t) \/ Step(t), pc'[t] # "idle"
  PROVE  ScanOK(t)'
<1>1. TableInv /\ TableTypeOK /\ (pc[t] # "idle" => RoundOK(t) /\ ScanOK(t))
  BY DEF IInv, LockInv, TableInv, CallerOK
<1>2. CASE Call(t)
  <2>1. Begins(t)
    BY <1>2 DEF Call, Begins
  <2>2. /\ pc'[t] = "lock" /\ frame'[t].round = 1 /\ frame'[t].fingerprint = fingerprint(t)'
        /\ call'[t].key \in Key
    BY <1>1, <2>1, BeginsActs
  <2>3. frame'[t].fingerprint # Empty
    BY <2>2, HashTypes, LockedTableAssumption DEF fingerprint
  <2> QED BY <2>2, <2>3 DEF ScanOK
<1>3. CASE Lock(t)
  <2>1. /\ pc[t] = "lock" /\ pc'[t] = "scan" /\ frame'[t] = frame[t]
        /\ UNCHANGED <<hash_table, call>>
    BY <1>1, <1>3 DEF Lock, Goto, TableTypeOK
  <2> QED BY <1>1, <2>1 DEF ScanOK, Sought, fingerprint, Target
<1>4. CASE Select(t)
  <2>1. PICK s \in Wanted(t) : Goto(t, "apply", [frame[t] EXCEPT !.slot = s])
    BY <1>4 DEF Select
  <2>2. /\ pc[t] = "scan" /\ pc'[t] = "apply" /\ frame'[t] = [frame[t] EXCEPT !.slot = s]
        /\ UNCHANGED <<hash_table, call>>
    BY <1>1, <1>4, <2>1 DEF Select, Goto, TableTypeOK
  <2>3. hash_table[frame[t].bucket, s] = Sought(t)
    BY <2>1 DEF Wanted, Sought
  <2>4. /\ frame'[t].bucket = frame[t].bucket /\ frame'[t].round = frame[t].round
        /\ frame'[t].fingerprint = frame[t].fingerprint /\ frame'[t].slot = s
    BY <1>1, <2>2 DEF TableTypeOK, Frame
  <2> QED BY <1>1, <2>2, <2>3, <2>4 DEF ScanOK, fingerprint, Sought, Target
<1>5. CASE SecondBucket(t, "scan")
  <2>1. /\ pc[t] = "scan" /\ Wanted(t) = {} /\ frame[t].round = 1 /\ pc'[t] = "scan"
        /\ frame'[t] = [frame[t] EXCEPT !.bucket = hash2(call[t].key), !.round = 2]
        /\ UNCHANGED <<hash_table, call>>
    BY <1>1, <1>5 DEF SecondBucket, NotHere, Goto, TableTypeOK
  <2>2. frame'[t].fingerprint = frame[t].fingerprint
    BY <1>1, <2>1 DEF TableTypeOK, Frame
  <2>3. \A s \in Slot : hash_table[hash1(call[t].key), s] # Sought(t)
    BY <1>1, <2>1, InVain DEF RoundOK
  <2> QED BY <1>1, <2>1, <2>2, <2>3 DEF ScanOK, fingerprint, Sought
<1>6. CASE Pick(t)
  <2> DEFINE buckets == IF frame[t].round = 2 THEN {hash1(call[t].key), hash2(call[t].key)}
                                              ELSE {frame[t].bucket}
  <2>1. PICK b \in buckets, s \in Slot :
          Goto(t, "swap", [frame[t] EXCEPT !.bucket = b, !.slot = s])
    BY <1>6 DEF Pick
  <2>2. /\ pc[t] = "scan" /\ call[t].op = "insert" /\ Wanted(t) = {}
        /\ pc'[t] = "swap" /\ frame'[t] = [frame[t] EXCEPT !.bucket = b, !.slot = s]
        /\ UNCHANGED <<hash_table, call>>
    BY <1>1, <1>6, <2>1 DEF Pick, NotHere, Goto, TableTypeOK
  <2>3. /\ frame'[t].bucket = b /\ frame'[t].round = frame[t].round
        /\ frame'[t].fingerprint = frame[t].fingerprint /\ frame'[t].slot = s
    BY <1>1, <2>2 DEF TableTypeOK, Frame
  <2>4. Sought(t) = Empty /\ \A r \in Slot : hash_table[frame[t].bucket, r] # Empty
    BY <2>2, InVain DEF Sought
  <2>5. hash_table[b, s] # Empty
    <3>1. CASE b = frame[t].bucket
      BY <2>4, <3>1
    <3>2. CASE b # frame[t].bucket
      BY <1>1, <2>2, <2>4, <3>2 DEF RoundOK, ScanOK
    <3> QED BY <3>1, <3>2
  <2> QED BY <1>1, <2>2, <2>3, <2>4, <2>5 DEF ScanOK, fingerprint, Sought, Target
<1>7. CASE Swap(t, "scan")
  <2>1. /\ pc'[t] = "scan" /\ frame'[t].fingerprint = hash_table[Target(t)]
        /\ frame[t].round \in 2 .. LastRound - 1 /\ frame'[t].round = frame[t].round + 1
    BY <1>1, <1>7, SwapActs
  <2>2. hash_table[Target(t)] # Empty
    BY <1>1, <1>7 DEF Swap, ScanOK
  <2>3. frame'[t].round # 2
    BY <2>1, EmptyTypes
  <2> QED BY <2>1, <2>2, <2>3 DEF ScanOK
<1>8. CASE Success(t) \/ Failure(t)
  <2>1. Ends(t)
    BY <1>8 DEF Success, Failure, Ends
  <2> QED BY <1>1, <2>1, EndsActs
<1> QED BY <1>2, <1>3, <1>4, <1>5, <1>6, <1>7, <1>8 DEF Step, Inside

LEMMA StepIInv == Involutive /\ IInv /\ [Next]_vars => IInv'
<1> SUFFICES ASSUME Involutive, IInv, [Next]_vars
             PROVE  PlacedInv' /\ \A t \in Thread : pc'[t] # "idle" => ScanOK(t)'
  BY StepLockInv DEF IInv
<1>1. CASE UNCHANGED vars
  BY <1>1 DEF vars, local, IInv, PlacedInv, ScanOK, fingerprint, Sought, Target
<1>2. ASSUME NEW t \in Thread, Call(t) \/ Step(t)
      PROVE  PlacedInv' /\ \A u \in Thread : pc'[u] # "idle" => ScanOK(u)'
  <2>1. PlacedInv'
    BY <1>2, StepTable, PlacedStep DEF IInv, LockInv
  <2> QED BY <1>2, <2>1, OthersScanOK, OwnScanOK
<1> QED BY <1>1, <1>2 DEF Next, Done

(* If hashing is an involution, every item is in a bucket where it is looked
   for, and a call knows what its scans have shown: nothing it has seen of the
   table can change before it returns. *)
THEOREM SequentialInvariance == ASSUME Involutive PROVE Spec => []IInv
<1>1. IInv /\ [Next]_vars => IInv'
  BY StepIInv
<1> QED BY <1>1, InitIInv, PTL DEF Spec

-----------------------------------------------------------------------------
(***************************************************************************)
(* The abstract bag                                                        *)
(***************************************************************************)
(* What find and remove have not found in the two buckets of the key is nowhere
   else: this takes keys that share a fingerprint to share their buckets. *)
LEMMA MissedIsMissing ==
  ASSUME Unambiguous, IInv, NEW t \in Thread, GiveUp(t), call[t].op # "insert"
  PROVE  Items[fingerprint(t)] = 0
<1> DEFINE f == fingerprint(t)
           k == call[t].key
<1>1. /\ pc[t] = "scan" /\ Wanted(t) = {} /\ frame[t].round = 2 /\ TableInv
      /\ ScanOK(t) /\ RoundOK(t)
  BY DEF GiveUp, NotHere, IInv, LockInv, TableInv, CallerOK
<1>2. k \in Key /\ f \in Fingerprint /\ f = md5_fingerprint[k] /\ Sought(t) = f
  BY <1>1, Asks DEF fingerprint, Sought
<1>3. \A b \in {hash1(k), hash2(k)}, s \in Slot : hash_table[b, s] # f
  <2>1. \A s \in Slot : hash_table[hash1(k), s] # f
    BY <1>1, <1>2 DEF ScanOK
  <2>2. frame[t].bucket = hash2(k)
    BY <1>1 DEF RoundOK
  <2> QED BY <1>1, <1>2, <2>1, <2>2, InVain
<1>4. Holders(hash_table, f) = {}
  <2>1. ASSUME NEW l \in Location, hash_table[l] = f PROVE FALSE
    <3>1. f # Empty
      BY <1>2, LockedTableAssumption
    <3>2. PICK j \in Key : md5_fingerprint[j] = f /\ l[1] \in {hash1(j), hash2(j)}
      BY <2>1, <3>1 DEF IInv, PlacedInv, Examined
    <3>3. l[1] \in {hash1(k), hash2(k)}
      BY <1>2, <3>2 DEF Unambiguous
    <3>4. l = <<l[1], l[2]>> /\ l[2] \in Slot
      BY DEF Location
    <3> QED BY <1>3, <2>1, <3>3, <3>4
  <2> QED BY <2>1 DEF Holders
<1>5. Count(f) = 0
  BY <1>4, FS_EmptySet DEF Count, Holders
<1>6. Carrying(Replacing, frame, f) = {}
  <2>1. ASSUME NEW u \in Replacing PROVE FALSE
    <3>1. u \in Thread /\ pc[u] # "idle" /\ frame[u].round > 2 /\ call[u].op = "insert"
      BY <2>1 DEF Replacing
    <3>2. pc[u] = "lock" /\ ScanOK(u)
      <4>1. u # t /\ mtx = t
        BY <1>1, <3>1 DEF IInv, LockInv, Exclusive
      <4> QED BY <3>1, <4>1 DEF IInv, LockInv, Exclusive
    <3>3. frame[u].round = 1
      BY <3>1, <3>2 DEF ScanOK
    <3> QED BY <3>1, <3>3
  <2> QED BY <2>1 DEF Carrying
<1>7. Items[f] = Count(f) + Cardinality(Carrying(Replacing, frame, f))
  BY <1>2 DEF Items, Carrying
<1> QED BY <1>5, <1>6, <1>7, FS_EmptySet

(* A step of the bag, or the failure of an insert that has replaced items. *)
BagStep == Abstract!Next \/ \E t \in Thread : Abstract!Drop(t)

(* A step that the clients see is such a step. *)
LEMMA StepRefines ==
  Unambiguous /\ IInv /\ [Next]_vars => [BagStep]_(Abstract!vars)
<1> SUFFICES ASSUME Unambiguous, IInv, [Next]_vars
             PROVE  [BagStep]_(Abstract!vars)
  OBVIOUS
<1>1. TableInv
  BY DEF IInv, LockInv
<1>2. CASE UNCHANGED vars
  BY <1>2 DEF vars, local, Abstract!vars, Items, Results, Replacing, Count
<1>3. ASSUME NEW t \in Thread, Call(t) PROVE BagStep
  <2>1. Begins(t)
    BY <1>3 DEF Call, Begins
  <2>2. Abstract!Invoke(t)
    BY <1>1, <2>1, BeginsBag DEF Abstract!Invoke, Abstract!Running, Op, Abstract!Op
  <2> QED BY <2>2 DEF Abstract!Next, BagStep
<1>4. ASSUME NEW t \in Thread, Step(t) PROVE BagStep \/ UNCHANGED Abstract!vars
  <2>0. /\ pc[t] # "idle" => /\ Abstract!Asked(t) = fingerprint(t)
                             /\ fingerprint(t) \in Fingerprint
                             /\ t \notin Replacing => Abstract!Before(t, call[t].op)
                             /\ t \in Replacing => Results[t] = "stored"
                             /\ frame[t].fingerprint # Empty
    BY <1>1, Asks DEF Abstract!Asked, fingerprint, Abstract!Before, IInv, ScanOK
  <2>1. CASE Lock(t) \/ Select(t) \/ SecondBucket(t, "scan") \/ Pick(t)
    <3>1. Looks(t, "scan")
      BY <2>1 DEF Looks, Takes, Lock
    <3> QED BY <1>1, <3>1, LooksBag DEF Abstract!vars
  <2>2. CASE Swap(t, "scan")
    <3>1. pc[t] = "swap" /\ call[t].op = "insert"
      BY <1>1, <2>2, SwapActs
    <3>2. CASE t \notin Replacing
      <4>1. Abstract!Insert(t)
        BY <1>1, <2>0, <2>2, <3>1, <3>2, SwapBag DEF Answers, OneMore,
           Abstract!Insert, Abstract!Answer, Abstract!Add
      <4> QED BY <4>1 DEF Abstract!Next, BagStep
    <3> QED BY <1>1, <2>2, <3>2, SwapBag DEF Abstract!vars
  <2>3. CASE Apply(t)
    <3>1. pc[t] = "apply" /\ hash_table[Target(t)] = Sought(t)
      BY <2>3 DEF Apply, IInv, ScanOK
    <3>2. Abstract!Answer(t, "true")
      BY <1>1, <2>3, <3>1, ApplyBag DEF Answers, Abstract!Answer
    <3>3. CASE t \in Replacing
      BY <1>1, <2>0, <2>3, <3>1, <3>2, <3>3, ApplyBag DEF Abstract!Confirm, Abstract!Next,
         BagStep
    <3>4. CASE t \notin Replacing /\ call[t].op = "insert"
      BY <1>1, <2>0, <2>3, <3>1, <3>2, <3>4, ApplyBag DEF OneMore, Abstract!Add, Abstract!Insert,
         Abstract!Next, BagStep
    <3>5. CASE t \notin Replacing /\ call[t].op = "remove"
      BY <1>1, <2>0, <2>3, <3>1, <3>2, <3>5, ApplyBag DEF OneLess, Abstract!Take, Abstract!Remove,
         Abstract!Next, BagStep
    <3> QED BY <1>1, <2>3, <3>1, <3>3, <3>4, <3>5, ApplyBag
  <2>4. CASE Found(t)
    <3>1. pc[t] = "scan"
      BY <2>4 DEF Found
    <3>2. Abstract!Find(t)
      BY <1>1, <2>0, <2>4, <3>1, FoundBag DEF Answers, Abstract!Answer, Abstract!Find
    <3> QED BY <3>2 DEF Abstract!Next, BagStep
  <2>5. CASE GiveUp(t)
    <3>1. pc[t] = "scan"
      BY <2>5 DEF GiveUp, NotHere
    <3>2. Abstract!Answer(t, "false")
      BY <1>1, <2>5, GiveUpBag DEF Answers, Abstract!Answer
    <3>3. CASE t \in Replacing
      BY <1>1, <2>0, <2>5, <3>1, <3>2, <3>3, GiveUpBag DEF OneLess, Abstract!Take, Abstract!Drop,
         BagStep
    <3>4. CASE t \notin Replacing
      <4>1. call[t].op \in {"find", "remove"} /\ UNCHANGED Items
        BY <1>1, <2>5, <3>4, GiveUpBag
      <4>2. Items[Abstract!Asked(t)] = 0
        BY <2>0, <2>5, <3>1, <4>1, MissedIsMissing
      <4> QED BY <2>0, <3>1, <3>2, <3>4, <4>1, <4>2 DEF Abstract!Missing, Abstract!Find,
           Abstract!Remove, Abstract!Next, BagStep
    <3> QED BY <3>3, <3>4
  <2> QED BY <1>4, <2>1, <2>2, <2>3, <2>4, <2>5 DEF Step, Inside, Success, Failure
<1> QED BY <1>2, <1>3, <1>4 DEF Next, Done

(* With one mutex the filter is a bag with atomic operations that misses no item,
   whatever the table, the threads and their calls, if hashing is an involution
   and keys of equal fingerprint have the same buckets.  The one step that is not
   the bag's is an insert that answers false after it has replaced items: its own
   stays, and the last one it has taken out is gone. *)
THEOREM SequentialRefines ==
  ASSUME Involutive, Unambiguous PROVE Spec => BagButForFailures
<1>1. IInv /\ [Next]_vars =>
        [Abstract!Next \/ \E t \in Thread : Abstract!Drop(t)]_(Abstract!vars)
  BY StepRefines DEF BagStep
<1>2. Init => Abstract!Init
  BY InitBag DEF Init, Abstract!Init
<1> QED BY <1>1, <1>2, SequentialInvariance, PTL DEF Spec, BagButForFailures
=============================================================================
