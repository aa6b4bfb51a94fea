------------------------- MODULE FineGrainedProofs --------------------------
(***************************************************************************)
(* FineGrainedFilter: its mutexes exclude, it implements the bag until a   *)
(* swap overtakes another thread, and no search overlooks an item that     *)
(* stays in its slot.                                                      *)
(***************************************************************************)
EXTENDS FineGrainedInvariant, LockedTableProofs

(***************************************************************************)
(* The mutexes                                                             *)
(***************************************************************************)
(* Every action but a data race is a step of the table. *)
LEMMA StepTable ==
  ASSUME NEW t \in Thread, Call(t) \/ Step(t)
  PROVE  \/ TableStep(t, "lock")
         \/ DataRace(t)
BY DEF Call, Step, Lock, Locked, ReleaseFirst, Released, SwapUnlocked, TableStep, Begins, Looks,
   Takes, Ends

Inside(t) == pc[t] \in {"scan", "apply"}

(* It takes the mutex of its bucket when nobody stands in its way, keeps it as
   long as it is inside, and gives it back when it leaves. *)
LEMMA StepMutex ==
  ASSUME LockInv, NEW t \in Thread, Call(t) \/ Step(t)
  PROVE  \/ ~Inside(t) /\ ~Inside(t)' /\ UNCHANGED <<writer, readers>>
         \/ /\ ~Inside(t) /\ Inside(t)' /\ call'[t] = call[t]
            /\ frame'[t].bucket = frame[t].bucket
            /\ LET m == mutex_of(frame[t].bucket) IN
               /\ ~Waits(t, m)
               /\ \/ /\ Shares(t) /\ UNCHANGED writer
                     /\ readers' = [readers EXCEPT ![m] = @ \cup {t}]
                  \/ /\ ~Shares(t) /\ UNCHANGED readers
                     /\ writer' = [writer EXCEPT ![m] = {t}]
         \/ /\ Inside(t) /\ Inside(t)' /\ call'[t] = call[t]
            /\ frame'[t].bucket = frame[t].bucket /\ UNCHANGED <<writer, readers>>
         \/ Inside(t) /\ ~Inside(t)' /\ Unlock(t)
<1> USE DEF LockInv, TableInv
<1>1. CASE Call(t)
  <2>1. Begins(t) /\ UNCHANGED <<writer, readers>>
    BY <1>1 DEF Call, Begins
  <2> QED BY <2>1, BeginsActs DEF Inside
<1>2. CASE Lock(t)
  <2>1. pc[t] = "lock" /\ pc'[t] = "scan" /\ frame'[t] = frame[t] /\ call'[t] = call[t]
    BY <1>2 DEF Lock, Goto, TableTypeOK
  <2> QED BY <1>2, <2>1 DEF Lock, Inside
<1>3. CASE SwapUnlocked(t)
  <2>1. Swap(t, "lock") /\ UNCHANGED <<writer, readers>>
    BY <1>3 DEF SwapUnlocked
  <2> QED BY <2>1, SwapActs DEF Inside
<1>4. CASE DataRace(t)
  BY <1>4 DEF DataRace, local, Inside
<1>5. CASE Locked(t)
  <2>1. PICK s \in Slot : Goto(t, "apply", [frame[t] EXCEPT !.slot = s])
    BY <1>5 DEF Locked, Select, Wanted
  <2>2. pc[t] = "scan" /\ UNCHANGED <<call, writer, readers>>
    BY <1>5 DEF Locked, Select
  <2>3. pc'[t] = "apply" /\ frame'[t].bucket = frame[t].bucket
    BY <2>1 DEF Goto, TableTypeOK, Frame
  <2> QED BY <2>2, <2>3 DEF Inside
<1>6. CASE ReleaseFirst(t)
  BY <1>6 DEF ReleaseFirst, SecondBucket, NotHere, Goto, TableTypeOK, Inside
<1>7. CASE Released(t)
  <2>1. Unlock(t) /\ (Pick(t) \/ Ends(t))
    BY <1>7 DEF Released, Ends
  <2>2. CASE Pick(t)
    BY <2>1, <2>2 DEF Pick, NotHere, Goto, TableTypeOK, Inside
  <2>3. CASE Ends(t)
    BY <2>1, <2>3, EndsActs DEF Inside
  <2> QED BY <2>1, <2>2, <2>3
<1> QED BY <1>1, <1>2, <1>3, <1>4, <1>5, <1>6, <1>7 DEF Step

(* What a mutex is held for. *)
LEMMA MutexTypes ==
  ASSUME TableTypeOK, NEW t \in Thread
  PROVE  mutex_of(frame[t].bucket) \in Mutex
<1>1. frame[t].bucket \in Nat
  BY TargetTypes DEF Frame, Bucket
<1> QED BY <1>1, NumMutexesAssumption DEF mutex_of, Mutex

LEMMA StepOthers ==
  ASSUME LockInv, NEW t \in Thread, Call(t) \/ Step(t)
  PROVE  \A u \in Thread \ {t} : Unchanged(u)
<1>1. DataRace(t) => \A u \in Thread \ {t} : Unchanged(u)
  BY DEF DataRace, local, Unchanged
<1> QED BY <1>1, StepTable, OtherThreads DEF LockInv

(* Every step leaves the mutexes with those that are inside. *)
LEMMA StepExcludes ==
  ASSUME LockInv, NEW t \in Thread, Call(t) \/ Step(t), TableTypeOK'
  PROVE  /\ writer' \in [Mutex -> SUBSET Thread] /\ readers' \in [Mutex -> SUBSET Thread]
         /\ MutexesExclude'
<1> DEFINE m0 == mutex_of(frame[t].bucket)
           Holds(v, m) == Inside(v) /\ mutex_of(frame[v].bucket) = m
<1>1. /\ writer \in [Mutex -> SUBSET Thread] /\ readers \in [Mutex -> SUBSET Thread]
      /\ m0 \in Mutex
  BY MutexTypes DEF LockInv, TypeOK
<1>2. \A m \in Mutex, v \in Thread : /\ v \in writer[m] <=> Holds(v, m) /\ ~Shares(v)
                                     /\ v \in readers[m] <=> Holds(v, m) /\ Shares(v)
  BY DEF LockInv, MutexesExclude, Inside
<1>3. \A m \in Mutex : \A v \in writer[m] : writer[m] = {v} /\ readers[m] = {}
  BY DEF LockInv, MutexesExclude
<1>4. \A v \in Thread \ {t}, m \in Mutex : /\ Holds(v, m)' <=> Holds(v, m)
                                           /\ Shares(v)' <=> Shares(v)
  BY StepOthers DEF Unchanged, Inside, Shares
<1> SUFFICES /\ writer' \in [Mutex -> SUBSET Thread] /\ readers' \in [Mutex -> SUBSET Thread]
             /\ \A m \in Mutex, v \in Thread : /\ v \in writer'[m] <=> Holds(v, m)' /\ ~Shares(v)'
                                               /\ v \in readers'[m] <=> Holds(v, m)' /\ Shares(v)'
             /\ \A m \in Mutex : \A v \in writer'[m] : writer'[m] = {v} /\ readers'[m] = {}
  BY DEF MutexesExclude, Inside
<1>5. CASE /\ ~Inside(t) /\ ~Inside(t)' /\ UNCHANGED <<writer, readers>>
  BY <1>1, <1>2, <1>3, <1>4, <1>5
<1>6. CASE /\ Inside(t) /\ Inside(t)' /\ call'[t] = call[t]
           /\ frame'[t].bucket = frame[t].bucket /\ UNCHANGED <<writer, readers>>
  <2>1. \A m \in Mutex : (Holds(t, m)' <=> Holds(t, m)) /\ (Shares(t)' <=> Shares(t))
    BY <1>6 DEF Shares
  <2> QED BY <1>1, <1>2, <1>3, <1>4, <1>6, <2>1
<1>7. CASE Inside(t) /\ ~Inside(t)' /\ Unlock(t)
  <2>1. \A m \in Mutex : writer'[m] = writer[m] \ {t} /\ readers'[m] = readers[m] \ {t}
    BY <1>7 DEF Unlock
  <2>2. writer' \in [Mutex -> SUBSET Thread] /\ readers' \in [Mutex -> SUBSET Thread]
    BY <1>1, <1>7 DEF Unlock
  <2>3. \A m \in Mutex : \A v \in writer'[m] : writer'[m] = {v} /\ readers'[m] = {}
    BY <1>3, <2>1
  <2> QED BY <1>2, <1>4, <1>7, <2>1, <2>2, <2>3
<1>8. CASE /\ ~Inside(t) /\ Inside(t)' /\ call'[t] = call[t]
           /\ frame'[t].bucket = frame[t].bucket /\ ~Waits(t, m0)
           /\ \/ /\ Shares(t) /\ UNCHANGED writer
                 /\ readers' = [readers EXCEPT ![m0] = @ \cup {t}]
              \/ /\ ~Shares(t) /\ UNCHANGED readers
                 /\ writer' = [writer EXCEPT ![m0] = {t}]
  <2>1. /\ \A m \in Mutex : ~Holds(t, m) /\ (Holds(t, m)' <=> m = m0)
        /\ Shares(t)' <=> Shares(t)
    BY <1>8 DEF Shares
  <2>2. writer[m0] = {} /\ (~Shares(t) => readers[m0] = {})
    BY <1>8 DEF Waits, Excluded
  <2>3. CASE Shares(t)
    BY <1>1, <1>2, <1>3, <1>4, <1>8, <2>1, <2>2, <2>3
  <2>4. CASE ~Shares(t)
    BY <1>1, <1>2, <1>3, <1>4, <1>8, <2>1, <2>2, <2>4
  <2> QED BY <2>3, <2>4
<1> QED BY <1>5, <1>6, <1>7, <1>8, StepMutex

LEMMA InitLockInv == Init => LockInv
<1> SUFFICES ASSUME Init PROVE LockInv
  OBVIOUS
<1>1. TableInv
  BY InitTableInv DEF Init
<1>2. TypeOK
  BY <1>1 DEF Init, TypeOK, TableInv
<1>3. MutexesExclude
  BY DEF Init, TableInit, MutexesExclude
<1> QED BY <1>1, <1>2, <1>3 DEF LockInv

LEMMA StepLockInv == LockInv /\ [Next]_vars => LockInv'
<1> SUFFICES ASSUME LockInv, [Next]_vars PROVE LockInv'
  OBVIOUS
<1>1. ASSUME UNCHANGED <<hash_table, local>> PROVE TableInv'
  BY <1>1 DEF local, LockInv, TableInv, TableTypeOK, Replacing, CallerOK, CallOK, RoundOK,
     fingerprint
<1>2. CASE UNCHANGED vars
  <2>1. TableInv' /\ MutexesExclude'
    BY <1>1, <1>2 DEF vars, local, LockInv, MutexesExclude, Shares
  <2> QED BY <1>2, <2>1 DEF vars, LockInv, TypeOK, TableInv
<1>3. ASSUME NEW t \in Thread, Call(t) \/ Step(t) PROVE LockInv'
  <2>1. TableInv'
    <3>1. DataRace(t) => TableInv'
      BY <1>1 DEF DataRace
    <3> QED BY <1>3, <3>1, StepTable, TableStepInv DEF LockInv
  <2>2. status' \in {"running", "overtaken", "undefined"}
    BY <1>3 DEF Call, Step, Lock, SwapUnlocked, DataRace, LockInv, TypeOK
  <2>3. TypeOK' /\ MutexesExclude'
    BY <1>3, <2>1, <2>2, StepExcludes DEF TypeOK, TableInv
  <2> QED BY <2>1, <2>3 DEF LockInv
<1> QED BY <1>2, <1>3 DEF Next

LEMMA LockInvariance == Spec => []LockInv
<1> QED BY InitLockInv, StepLockInv, PTL DEF Spec

(* Every mutex is held by exactly the threads that scan or change a bucket of
   its group, one of them if it is an insert or a remove: two never change the
   same bucket at a time, but for the swaps, which take no mutex. *)
THEOREM FineGrainedExclusion == Spec => []MutexesExclude
<1>1. LockInv => MutexesExclude
  BY DEF LockInv
<1> QED BY <1>1, LockInvariance, PTL

-----------------------------------------------------------------------------
(***************************************************************************)
(* The selected slots                                                      *)
(***************************************************************************)
LEMMA InitIInv == Init => IInv
BY InitLockInv DEF Init, TableInit, IInv

(* Two threads are never about to change the same slot under its mutex. *)
LEMMA OneApplies ==
  ASSUME LockInv, NEW t \in Thread, NEW u \in Thread, pc[t] = "apply", pc[u] = "apply",
         Target(t) = Target(u)
  PROVE  t = u
<1> DEFINE m == mutex_of(frame[t].bucket)
<1>1. m \in Mutex /\ m = mutex_of(frame[u].bucket)
  BY MutexTypes DEF LockInv, TypeOK, Target
<1>2. ~Shares(t) /\ ~Shares(u)
  BY DEF LockInv, TableInv, CallerOK, RoundOK, Shares
<1>3. t \in writer[m] /\ u \in writer[m]
  BY <1>1, <1>2 DEF LockInv, MutexesExclude
<1> QED BY <1>1, <1>3 DEF LockInv, MutexesExclude

(* As long as no swap overtakes it, a thread finds its slot as it has seen it. *)
LEMMA StepSlots ==
  ASSUME IInv, NEW t \in Thread, Call(t) \/ Step(t), status' = "running",
         NEW u \in Thread, pc'[u] # "idle"
  PROVE  SlotOK(u)'
<1>1. TableInv /\ TableTypeOK /\ LockInv
  BY DEF IInv, LockInv, TableInv
<1>2. status = "running" /\ ~DataRace(t) /\ (SwapUnlocked(t) => ~Overtakes(t))
  BY DEF Call, Step, Lock, SwapUnlocked, DataRace
<1>3. TableStep(t, "lock")
  BY <1>2, StepTable
<1>4. pc[u] # "idle" => SlotOK(u)
  BY <1>2 DEF IInv
<1>5. CASE u # t
  <2>1. Unchanged(u) /\ SlotOK(u)
    BY <1>4, <1>5, StepOthers, <1>1 DEF Unchanged
  <2>2. CASE pc[u] = "apply"
    <3>1. CASE Swap(t, "lock")
      <4>1. Target(u) # Target(t)
        <5>1. SwapUnlocked(t)
          BY <3>1, <1>2 DEF Call, Begin, Step, Lock, Locked, Select, ReleaseFirst, SecondBucket,
             Released, Found, Apply, GiveUp, Pick, NotHere, Swap
        <5> QED BY <1>2, <2>2, <5>1 DEF Overtakes
      <4>2. hash_table'[Target(u)] = hash_table[Target(u)]
        BY <1>1, <3>1, <4>1, SwapActs, TargetTypes
      <4> QED BY <2>1, <2>2, <4>2 DEF SlotOK, Unchanged, Sought, fingerprint, Target
    <3>2. CASE Apply(t)
      <4>1. Target(u) # Target(t)
        BY <1>1, <1>5, <2>2, <3>2, OneApplies DEF Apply
      <4>2. hash_table'[Target(u)] = hash_table[Target(u)]
        BY <1>1, <3>2, <4>1, TargetTypes DEF Apply
      <4> QED BY <2>1, <2>2, <4>2 DEF SlotOK, Unchanged, Sought, fingerprint, Target
    <3>3. CASE ~Swap(t, "lock") /\ ~Apply(t)
      <4>1. UNCHANGED hash_table
        BY <1>1, <1>3, <3>3, BeginsActs, LooksActs, EndsActs DEF TableStep
      <4> QED BY <2>1, <2>2, <4>1 DEF SlotOK, Unchanged, Sought, fingerprint, Target
    <3> QED BY <3>1, <3>2, <3>3
  <2>3. CASE pc[u] # "apply"
    BY <2>1, <2>3 DEF SlotOK, Unchanged
  <2> QED BY <2>2, <2>3
<1>6. CASE u = t
  <2>1. CASE Begins(t)
    <3>1. /\ pc'[t] = "lock" /\ frame'[t].fingerprint = md5_fingerprint[call'[t].key]
          /\ call'[t].key \in Key
      BY <1>1, <2>1, BeginsActs DEF fingerprint
    <3> QED BY <1>6, <3>1, HashTypes, LockedTableAssumption DEF SlotOK
  <2>2. CASE Looks(t, "lock")
    <3>1. /\ pc[t] \in {"lock", "scan"} /\ UNCHANGED <<hash_table, call>>
          /\ frame'[t].fingerprint = frame[t].fingerprint
      BY <1>1, <2>2, LooksActs
    <3>2. ASSUME pc'[t] = "apply" PROVE hash_table[Target(t)'] = Sought(t)
      <4>1. Select(t)
        BY <1>1, <2>2, <3>2 DEF Looks, Takes, SecondBucket, Pick, Goto, TableTypeOK
      <4>2. PICK s \in Wanted(t) : Goto(t, "apply", [frame[t] EXCEPT !.slot = s])
        BY <4>1 DEF Select
      <4>3. frame'[t].bucket = frame[t].bucket /\ frame'[t].slot = s
        BY <1>1, <4>2 DEF Goto, TableTypeOK, Frame
      <4> QED BY <4>2, <4>3 DEF Wanted, Sought, Target
    <3>3. frame[t].fingerprint # Empty
      BY <1>4, <1>6, <3>1 DEF SlotOK
    <3> QED BY <1>6, <3>1, <3>2, <3>3 DEF SlotOK, Sought, fingerprint
  <2>3. CASE Swap(t, "lock")
    <3>1. SwapUnlocked(t)
      BY <2>3, <1>2 DEF Call, Begin, Step, Lock, Locked, Select, ReleaseFirst, SecondBucket,
         Released, Found, Apply, GiveUp, Pick, NotHere, Swap
    <3>2. hash_table[Target(t)] # Empty
      BY <1>2, <3>1 DEF Overtakes
    <3> QED BY <1>1, <1>6, <2>3, <3>2, SwapActs DEF SlotOK
  <2>4. CASE Ends(t)
    BY <1>1, <1>6, <2>4, EndsActs
  <2> QED BY <1>3, <2>1, <2>2, <2>3, <2>4 DEF TableStep
<1> QED BY <1>5, <1>6

LEMMA StepIInv == IInv /\ [Next]_vars => IInv'
<1> SUFFICES ASSUME IInv, [Next]_vars, status' = "running", NEW u \in Thread, pc'[u] # "idle"
             PROVE  SlotOK(u)'
  BY StepLockInv DEF IInv
<1>1. CASE UNCHANGED vars
  BY <1>1 DEF vars, local, IInv, SlotOK, Sought, fingerprint, Target
<1> QED BY <1>1, StepSlots DEF Next

(* Until a swap overtakes it, the slot that a thread has selected under the mutex
   stays as it was until the thread changes it. *)
THEOREM FineGrainedInvariance == Spec => []IInv
<1> QED BY InitIInv, StepIInv, PTL DEF Spec

-----------------------------------------------------------------------------
(***************************************************************************)
(* The abstract bag                                                        *)
(***************************************************************************)
(* A step of the bag, or the failure of an insert that has replaced items. *)
BagStep == Abstract!Next \/ \E t \in Thread : Abstract!Drop(t)

(* A step that the clients see is such a step, unless it overtakes. *)
LEMMA StepRefines ==
  IInv /\ [Next]_vars => [status' = "running" => BagStep]_(Abstract!vars)
<1> SUFFICES ASSUME IInv, [Next]_vars, status' = "running"
             PROVE  BagStep \/ UNCHANGED Abstract!vars
  OBVIOUS
<1>1. TableInv
  BY DEF IInv, LockInv
<1>2. CASE UNCHANGED vars
  BY <1>2 DEF vars, local, Abstract!vars, Items, Results, Replacing, Count
<1>3. ASSUME NEW t \in Thread, Call(t) \/ Step(t) PROVE BagStep \/ UNCHANGED Abstract!vars
  <2>1. status = "running" /\ ~DataRace(t)
    BY <1>3 DEF Call, Step, Lock, SwapUnlocked, DataRace
  <2>2. TableStep(t, "lock")
    BY <1>3, <2>1, StepTable
  <2>3. pc[t] # "idle" => /\ Abstract!Asked(t) = fingerprint(t)
                          /\ fingerprint(t) \in Fingerprint
                          /\ t \notin Replacing => Abstract!Before(t, call[t].op)
                          /\ t \in Replacing => Results[t] = "stored"
                          /\ SlotOK(t)
    BY <1>1, <2>1, Asks DEF Abstract!Asked, fingerprint, Abstract!Before, IInv
  <2>4. CASE Begins(t)
    <3>1. Abstract!Invoke(t)
      BY <1>1, <2>4, BeginsBag DEF Abstract!Invoke, Abstract!Running, Op, Abstract!Op
    <3> QED BY <3>1 DEF Abstract!Next, BagStep
  <2>5. CASE Looks(t, "lock")
    BY <1>1, <2>5, LooksBag DEF Abstract!vars
  <2>6. CASE Swap(t, "lock")
    <3>1. pc[t] = "swap" /\ call[t].op = "insert"
      BY <1>1, <2>6, SwapActs
    <3>2. CASE t \notin Replacing
      <4>1. Abstract!Insert(t)
        BY <1>1, <2>3, <2>6, <3>1, <3>2, SwapBag DEF Answers, OneMore,
           Abstract!Insert, Abstract!Answer, Abstract!Add
      <4> QED BY <4>1 DEF Abstract!Next, BagStep
    <3> QED BY <1>1, <2>6, <3>2, SwapBag DEF Abstract!vars
  <2>7. CASE Apply(t)
    <3>1. pc[t] = "apply" /\ hash_table[Target(t)] = Sought(t)
      BY <2>3, <2>7 DEF Apply, SlotOK
    <3>2. Abstract!Answer(t, "true")
      BY <1>1, <2>7, <3>1, ApplyBag DEF Answers, Abstract!Answer
    <3>3. CASE t \in Replacing
      BY <1>1, <2>3, <2>7, <3>1, <3>2, <3>3, ApplyBag DEF Abstract!Confirm, Abstract!Next,
         BagStep
    <3>4. CASE t \notin Replacing /\ call[t].op = "insert"
      BY <1>1, <2>3, <2>7, <3>1, <3>2, <3>4, ApplyBag DEF OneMore, Abstract!Add,
         Abstract!Insert, Abstract!Next, BagStep
    <3>5. CASE t \notin Replacing /\ call[t].op = "remove"
      BY <1>1, <2>3, <2>7, <3>1, <3>2, <3>5, ApplyBag DEF OneLess, Abstract!Take,
         Abstract!Remove, Abstract!Next, BagStep
    <3> QED BY <1>1, <2>7, <3>1, <3>3, <3>4, <3>5, ApplyBag
  <2>8. CASE Found(t)
    <3>1. pc[t] = "scan"
      BY <2>8 DEF Found
    <3>2. Abstract!Find(t)
      BY <1>1, <2>3, <2>8, <3>1, FoundBag DEF Answers, Abstract!Answer, Abstract!Find
    <3> QED BY <3>2 DEF Abstract!Next, BagStep
  <2>9. CASE GiveUp(t)
    <3>1. pc[t] = "scan" /\ frame[t].fingerprint # Empty
      BY <2>3, <2>9 DEF GiveUp, NotHere, SlotOK
    <3>2. Abstract!Answer(t, "false")
      BY <1>1, <2>9, GiveUpBag DEF Answers, Abstract!Answer
    <3>3. CASE t \in Replacing
      BY <1>1, <2>3, <2>9, <3>1, <3>2, <3>3, GiveUpBag DEF OneLess, Abstract!Take,
         Abstract!Drop, BagStep
    <3>4. CASE t \notin Replacing
      <4>1. call[t].op \in {"find", "remove"} /\ UNCHANGED Items
        BY <1>1, <2>9, <3>4, GiveUpBag
      <4> QED BY <2>3, <3>1, <3>2, <3>4, <4>1 DEF Abstract!Missing, Abstract!Find,
           Abstract!Remove, Abstract!Next, BagStep
    <3> QED BY <3>3, <3>4
  <2> QED BY <2>2, <2>4, <2>5, <2>6, <2>7, <2>8, <2>9 DEF TableStep, Ends
<1> QED BY <1>2, <1>3 DEF Next

(* Until a swap overtakes another thread, the fine-grained filter is a bag with
   atomic operations that may miss an item: two inserts never take the same slot,
   nor two removes the same item, and no item is lost but the one that an insert
   drops when it fails, its own being stored.  Nothing is assumed of the hashes. *)
THEOREM FineGrainedRefines == Spec => BagUntilOvertaken
<1>1. Init => Abstract!Init
  BY InitBag DEF Init, Abstract!Init
<1>2. IInv /\ [Next]_vars =>
        [status' = "running" =>
           Abstract!Next \/ \E t \in Thread : Abstract!Drop(t)]_(Abstract!vars)
  BY StepRefines DEF BagStep
<1> QED BY <1>1, <1>2, FineGrainedInvariance, PTL DEF Spec, BagUntilOvertaken

-----------------------------------------------------------------------------
(***************************************************************************)
(* The searches                                                            *)
(***************************************************************************)
(* Every item is where a call on its key looks, whatever the swaps overtake. *)
LEMMA NextPlaced == Involutive /\ LockInv /\ PlacedInv /\ [Next]_vars => PlacedInv'
<1> SUFFICES ASSUME Involutive, LockInv, PlacedInv, [Next]_vars PROVE PlacedInv'
  OBVIOUS
<1>1. ASSUME UNCHANGED <<hash_table, local>> PROVE PlacedInv'
  BY <1>1 DEF local, PlacedInv
<1>2. ASSUME NEW t \in Thread, Call(t) \/ Step(t) PROVE PlacedInv'
  <2>1. DataRace(t) => PlacedInv'
    BY <1>1 DEF DataRace
  <2> QED BY <1>2, <2>1, StepTable, PlacedStep DEF LockInv
<1> QED BY <1>1, <1>2 DEF Next, vars

(* The history of a search only loses slots once the search has begun. *)
LEMMA HistoryShrinks ==
  ASSUME NEW u \in Thread, stayed' = [v \in Thread |-> Recorded(v)], pc[u] # "idle"
  PROVE  /\ \A l \in stayed'[u] : l \in stayed[u] /\ hash_table'[l] = hash_table[l]
         /\ stayed'[u] # {} => pc'[u] # "idle" /\ call'[u].op # "insert"
BY DEF Recorded

(* It begins with the slots of the items, which are in the two buckets of the key. *)
LEMMA HistoryBegins ==
  ASSUME Unambiguous, LockInv, PlacedInv, NEW t \in Thread, Begins(t),
         stayed' = [v \in Thread |-> Recorded(v)]
  PROVE  StayedOK(t)' /\ stayed'[t] \subseteq Location
<1>1. /\ pc[t] = "idle" /\ pc'[t] = "lock" /\ UNCHANGED hash_table
      /\ call'[t].key \in Key /\ frame'[t].round = 1
  BY BeginsActs DEF LockInv, TableInv
<1> DEFINE k == call'[t].key
<1>2. CASE call'[t].op = "insert"
  <2>1. stayed'[t] = {}
    BY <1>2 DEF Recorded
  <2> QED BY <2>1 DEF StayedOK
<1>3. CASE call'[t].op # "insert"
  <2>1. stayed'[t] = {l \in Location : hash_table[l] = md5_fingerprint[k]}
    BY <1>1, <1>3 DEF Recorded
  <2>2. ASSUME NEW l \in stayed'[t] PROVE l[1] \in {hash1(k), hash2(k)}
    <3>1. hash_table[l] # Empty /\ hash_table[l] = md5_fingerprint[k] /\ l \in Location
      BY <1>1, <2>1, <2>2, HashTypes, LockedTableAssumption
    <3>2. PICK j \in Key : /\ md5_fingerprint[j] = md5_fingerprint[k]
                           /\ l[1] \in {hash1(j), hash2(j)}
      BY <3>1 DEF PlacedInv, Examined
    <3> QED BY <1>1, <3>2 DEF Unambiguous
  <2> QED BY <1>1, <1>3, <2>1, <2>2 DEF StayedOK, fingerprint
<1> QED BY <1>2, <1>3

(* A search goes to the second bucket when its item is not in the first. *)
LEMMA SearchGoesOn ==
  ASSUME LockInv, NEW t \in Thread, pc[t] # "idle", StayedOK(t), Step(t),
         NEW l \in stayed[t], frame'[t].round = 2, call[t].op # "insert", pc'[t] # "idle",
         l \in Location
  PROVE  l[1] # hash1(call[t].key)
<1>1. TableInv
  BY DEF LockInv
<1>2. CASE frame[t].round = 2
  BY <1>2 DEF StayedOK
<1>3. CASE frame[t].round # 2
  <2>1. Looks(t, "lock")
    <3>1. ~DataRace(t)
      BY <1>3 DEF DataRace, local
    <3>2. ~Begins(t) /\ ~Swap(t, "lock") /\ ~Ends(t)
      BY <1>1, BeginsActs, SwapActs, EndsActs DEF TableInv
    <3> QED BY <3>1, <3>2, StepTable DEF TableStep
  <2>2. SecondBucket(t, "lock")
    <3>1. CASE Pick(t)
      BY <3>1 DEF Pick
    <3>2. ~Takes(t)
      BY <1>1, <1>3 DEF Takes, Goto, TableInv, TableTypeOK
    <3>3. ASSUME Select(t) PROVE FALSE
      <4>1. PICK s \in Wanted(t) : Goto(t, "apply", [frame[t] EXCEPT !.slot = s])
        BY <3>3 DEF Select
      <4> QED BY <1>1, <1>3, <4>1 DEF Goto, TableInv, TableTypeOK, Frame
    <3> QED BY <2>1, <3>1, <3>2, <3>3 DEF Looks
  <2>3. Wanted(t) = {} /\ frame[t].round = 1
    BY <2>2 DEF SecondBucket, NotHere
  <2>4. frame[t].bucket = hash1(call[t].key)
    BY <1>1, <2>3 DEF TableInv, CallerOK, RoundOK
  <2>5. \A s \in Slot : hash_table[hash1(call[t].key), s] # fingerprint(t)
    BY <2>3, <2>4, InVain DEF Sought
  <2>6. l = <<l[1], l[2]>> /\ l[2] \in Slot /\ hash_table[l] = fingerprint(t)
    BY DEF Location, StayedOK
  <2> QED BY <2>5, <2>6
<1> QED BY <1>2, <1>3

LEMMA StepSearchInv ==
  ASSUME Unambiguous, LockInv, PlacedInv, SearchInv, NEW t \in Thread, Call(t) \/ Step(t),
         stayed' = [v \in Thread |-> Recorded(v)]
  PROVE  SearchInv'
<1>1. \A u \in Thread : StayedOK(u) /\ stayed[u] \subseteq Location
  BY DEF SearchInv
<1>2. ASSUME NEW u \in Thread PROVE StayedOK(u)' /\ stayed'[u] \subseteq Location
  <2>1. CASE pc[u] = "idle" /\ pc'[u] = "idle"
    <3>1. stayed'[u] = {}
      BY <2>1 DEF Recorded
    <3> QED BY <3>1 DEF StayedOK
  <2>2. CASE pc[u] = "idle" /\ pc'[u] # "idle"
    <3>1. u = t
      BY <2>2, StepOthers DEF Unchanged
    <3>2. Begins(t)
      BY <2>2, <3>1, StepTable, LooksActs, SwapActs, EndsActs
         DEF TableStep, DataRace, local, LockInv, TableInv
    <3> QED BY <3>1, <3>2, HistoryBegins
  <2>3. CASE pc[u] # "idle"
    <3>1. /\ \A l \in stayed'[u] : l \in stayed[u] /\ hash_table'[l] = hash_table[l]
          /\ stayed'[u] # {} => pc'[u] # "idle" /\ call'[u].op # "insert"
      BY <2>3, HistoryShrinks
    <3>2. call'[u] = call[u]
      <4>1. CASE u # t
        BY <4>1, StepOthers DEF Unchanged
      <4>2. CASE u = t
        BY <2>3, <4>2, StepTable, BeginsActs, LooksActs, SwapActs, EndsActs
           DEF TableStep, DataRace, local, LockInv, TableInv
      <4> QED BY <4>1, <4>2
    <3>3. ASSUME NEW l \in stayed'[u], frame'[u].round = 2 PROVE l[1] # hash1(call[u].key)
      <4>1. CASE u # t
        BY <1>1, <3>1, <3>3, <4>1, StepOthers DEF Unchanged, StayedOK
      <4>2. CASE u = t
        <5>1. Step(t)
          BY <2>3, <4>2 DEF Call, Begin
        <5>2. pc'[t] # "idle" /\ call[t].op # "insert"
          BY <3>1, <3>2, <3>3, <4>2
        <5>3. l \in stayed[t] /\ l \in Location
          BY <1>1, <3>1, <3>3, <4>2
        <5> QED BY <1>1, <2>3, <3>3, <4>2, <5>1, <5>2, <5>3, SearchGoesOn
      <4> QED BY <4>1, <4>2
    <3>4. \A l \in stayed'[u] : /\ hash_table'[l] = fingerprint(u)
                                /\ l[1] \in {hash1(call[u].key), hash2(call[u].key)}
      BY <1>1, <3>1 DEF StayedOK
    <3>5. fingerprint(u)' = fingerprint(u)
      BY <3>2 DEF fingerprint
    <3> QED BY <1>1, <3>1, <3>2, <3>3, <3>4, <3>5 DEF StayedOK
  <2> QED BY <2>1, <2>2, <2>3
<1>3. stayed' \in [Thread -> SUBSET Location]
  BY <1>2
<1> QED BY <1>2, <1>3 DEF SearchInv

LEMMA InitSearchInv == HistoryInit => SearchInv
BY DEF HistoryInit, Init, TableInit, SearchInv, StayedOK

LEMMA NextSearchInv ==
  Unambiguous /\ LockInv /\ PlacedInv /\ SearchInv /\ [HistoryNext]_<<vars, stayed>> => SearchInv'
<1> SUFFICES ASSUME Unambiguous, LockInv, PlacedInv, SearchInv, [HistoryNext]_<<vars, stayed>>
             PROVE  SearchInv'
  OBVIOUS
<1>1. CASE HistoryNext
  BY <1>1, StepSearchInv DEF HistoryNext, Next
<1>2. CASE UNCHANGED <<vars, stayed>>
  BY <1>2 DEF vars, local, SearchInv, StayedOK, fingerprint
<1> QED BY <1>1, <1>2

(* The history variable only watches: its behaviours are those of the filter. *)
LEMMA HistoryIsSpec == HistorySpec => Spec
<1>1. HistoryInit => Init
  BY DEF HistoryInit
<1>2. [HistoryNext]_<<vars, stayed>> => [Next]_vars
  BY DEF HistoryNext
<1> QED BY <1>1, <1>2, PTL DEF HistorySpec, Spec

LEMMA InitPlacedInv == Init => PlacedInv
BY InitPlaced DEF Init

(* No item of the key has stayed in the bucket that a search has left behind. *)
THEOREM FineGrainedSearch == ASSUME Involutive, Unambiguous PROVE HistorySpec => []SearchInv
<1>1. LockInv /\ PlacedInv /\ [Next]_vars => PlacedInv'
  BY NextPlaced
<1>2. Spec => []PlacedInv
  BY <1>1, InitPlacedInv, LockInvariance, PTL DEF Spec
<1>3. LockInv /\ PlacedInv /\ SearchInv /\ [HistoryNext]_<<vars, stayed>> => SearchInv'
  BY NextSearchInv
<1> QED BY <1>2, <1>3, InitSearchInv, HistoryIsSpec, LockInvariance, PTL DEF HistorySpec

(* find and remove answer "false" only if no item of the key has stayed in its slot
   for the whole of the call, even after a swap has overtaken another thread. *)
THEOREM FineGrainedFindsStaying ==
  ASSUME Involutive, Unambiguous PROVE HistorySpec => StayingIsFound
<1>1. ASSUME LockInv, SearchInv, [HistoryNext]_<<vars, stayed>>, NEW t \in Thread,
             pc[t] # "idle", pc'[t] = "idle", result'[t] = "false", call[t].op # "insert"
      PROVE  stayed[t] = {}
  <2>1. TableInv /\ StayedOK(t) /\ stayed[t] \subseteq Location
    BY <1>1 DEF LockInv, SearchInv
  <2>2. PICK u \in Thread : Call(u) \/ Step(u)
    BY <1>1 DEF HistoryNext, Next, vars, local
  <2>3. u = t
    BY <1>1, <2>2, StepOthers DEF Unchanged
  <2>4. GiveUp(t)
    BY <1>1, <2>1, <2>2, <2>3, StepTable, BeginsActs, LooksActs, SwapActs, EndsActs
       DEF TableStep, Ends, DataRace, local, TableInv
  <2>5. Wanted(t) = {} /\ frame[t].round = 2 /\ pc[t] = "scan"
    BY <1>1, <2>4 DEF GiveUp, NotHere
  <2>6. frame[t].bucket = hash2(call[t].key)
    BY <2>1, <2>5 DEF TableInv, CallerOK, RoundOK
  <2>7. \A s \in Slot : hash_table[hash2(call[t].key), s] # fingerprint(t)
    BY <1>1, <2>5, <2>6, InVain DEF Sought
  <2> SUFFICES ASSUME NEW l \in stayed[t] PROVE FALSE
    OBVIOUS
  <2>8. l = <<hash2(call[t].key), l[2]>> /\ l[2] \in Slot /\ hash_table[l] = fingerprint(t)
    BY <2>1, <2>5 DEF Location, StayedOK
  <2> QED BY <2>7, <2>8
<1>2. LockInv /\ SearchInv /\ [HistoryNext]_<<vars, stayed>> =>
        [\A t \in Thread :
           pc[t] # "idle" /\ pc'[t] = "idle" /\ result'[t] = "false" /\ call[t].op # "insert"
             => stayed[t] = {}]_<<vars, stayed>>
  BY <1>1
<1> QED BY <1>2, HistoryIsSpec, LockInvariance, FineGrainedSearch, PTL
         DEF HistorySpec, StayingIsFound
=============================================================================
