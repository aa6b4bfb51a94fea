------------------------ MODULE LockFreeFilterProofs -------------------------
(***************************************************************************)
(* Theorems about LockFreeFilter: the invariant, type correctness, no      *)
(* dangling pointer, counters that never go back, entries in the buckets   *)
(* of their keys, hazard pointers that cover what is about to be swapped,  *)
(* a process that is given up only when a counter is used up, and packed   *)
(* words that behave as the records of the model.                          *)
(***************************************************************************)
EXTENDS OperationProofs, TableWords

(***************************************************************************)
(* Calls, reset and destructor                                             *)
(***************************************************************************)
(* A thread that is in no operation holds no entry and no word with one. *)
LEMMA IdleFrames ==
  ASSUME IInv, NEW t \in Thread, pc[t] = "idle"
  PROVE  /\ ins[t].entry = NULL
         /\ fnd[t].ptr.real = NULL
         /\ rem[t].ptr1.real = NULL /\ rem[t].location # NotFound
         /\ rel[t].source = NULL /\ rel[t].ptr.real = NULL /\ rel[t].left <= rel[t].depth
         /\ hlp[t].ptr1.real = NULL /\ ~hlp[t].ptr1.marked
BY FrameTypes DEF InsOK, FndOK, RemOK, RelOK, HlpOK, Where, HelpLabels, InInsert

(* The beginning of an operation at label l, with the frame i of insert. *)
LEMMA BeginInv ==
  ASSUME IInv, NEW t \in Thread, NEW op \in Op, NEW k \in Key, NEW l,
         Begin(t, op, k, l),
         NEW i \in InsFrame, ins' = [ins EXCEPT ![t] = i],
         \/ l = "ins_read" /\ i.entry # NULL
         \/ l = "fnd_first" /\ i.entry = NULL,
         i.entry # NULL => heap'[i.entry] # Free,
         heap' \in [Address -> Fingerprint \cup {Free}],
         \A a \in Address : heap[a] # Free => heap'[a] # Free,
         UNCHANGED <<hash_table, retired_ptrs, leaked, status, resets, fnd, rem, rel, hlp>>
  PROVE  IInv'
<1>1. /\ pc[t] = "idle" /\ ncalls[t] < MaxCalls
      /\ pc' = [pc EXCEPT ![t] = l]
      /\ call' = [call EXCEPT ![t] = [op |-> op, key |-> k]]
      /\ result' = [result EXCEPT ![t] = "none"]
      /\ ncalls' = [ncalls EXCEPT ![t] = ncalls[t] + 1]
      /\ ClearHazard(t)
  BY DEF Begin, Goto, IInv, TypeOK
<1>2. hazard_ptrs' \in [Thread -> [HazardIndex -> AddressOrNull]]
  BY <1>1, HazardTypes
<1>3. l \in Label
  BY DEF Label
<1>4. ncalls' \in [Thread -> 0 .. MaxCalls]
  <2>1. ncalls \in [Thread -> 0 .. MaxCalls]
    BY DEF IInv, TypeOK
  <2>2. ncalls[t] + 1 \in 0 .. MaxCalls
    BY <1>1, <2>1, FilterAssumption
  <2> QED BY <1>1, <2>1, <2>2
<1>5. call' \in [Thread -> [op : Op, key : Key] \cup {NoCall}]
  BY <1>1 DEF IInv, TypeOK
<1>6. TypeOK'
  BY <1>1, <1>2, <1>3, <1>4, <1>5 DEF IInv, TypeOK
<1>7. TableOK'
  <2>1. ASSUME NEW x \in Location
        PROVE  /\ hash_table'[x].real # NULL => heap'[hash_table'[x].real] # Free
               /\ hash_table'[x].marked => hash_table'[x].real # NULL
    <3>1. hash_table[x].real \in AddressOrNull /\ Alive(hash_table[x].real)
          /\ (hash_table[x].marked => hash_table[x].real # NULL)
      BY ReadTypes
    <3> QED BY <3>1 DEF Alive, AddressOrNull
  <2> QED BY <2>1 DEF TableOK, Alive
<1>8. OthersKeep(t)
  BY <1>1 DEF OthersKeep, IInv, TypeOK
<1>9. /\ pc'[t] = l /\ ins'[t] = i /\ call'[t] = [op |-> op, key |-> k]
      /\ fnd'[t] = fnd[t] /\ rem'[t] = rem[t] /\ rel'[t] = rel[t] /\ hlp'[t] = hlp[t]
  BY <1>1 DEF IInv, TypeOK
<1>10. CallOK(t)'
  BY <1>9 DEF CallOK
<1>11. InsOK(t)'
  BY <1>9 DEF InsOK, Where, HelpLabels, InInsert, Alive
<1>12. FndOK(t)' /\ RemOK(t)' /\ RelOK(t)' /\ HlpOK(t)'
  BY <1>1, <1>9, IdleFrames DEF FndOK, RemOK, RelOK, HlpOK, HelpLabels, Where, Alive
<1> QED BY <1>6, <1>7, <1>8, <1>10, <1>11, <1>12, ThreadInv

(* A client calls insert, find or remove. *)
LEMMA NewCallInv == ASSUME IInv, NEW t \in Thread, NewCall(t) PROVE IInv'
<1>1. PICK k \in Key : InsertCall(t, k) \/ FindCall(t, k) \/ RemoveCall(t, k)
  BY DEF NewCall
<1>2. heap \in [Address -> Fingerprint \cup {Free}] /\ ins \in [Thread -> InsFrame]
  BY DEF IInv, TypeOK
<1>3. CASE InsertCall(t, k)
  <2>0. PICK a : a = NewAddress
    OBVIOUS
  <2> DEFINE i == [NoIns EXCEPT !.entry = a]
  <2>1. /\ Begin(t, "insert", k, "ins_read")
        /\ heap' = [heap EXCEPT ![a] = md5_fingerprint[k]]
        /\ ins' = [ins EXCEPT ![t] = i]
        /\ UNCHANGED <<hash_table, retired_ptrs, leaked, status, resets, fnd, rem, rel, hlp>>
    BY <1>3, <2>0 DEF InsertCall
  <2>2. a \in Address /\ a # NULL /\ a \in AddressOrNull
    BY <1>3, <2>0, EmptyTypes DEF InsertCall, NewAddress, FreeAddress, AddressOrNull
  <2>3. md5_fingerprint[k] \in Fingerprint /\ md5_fingerprint[k] # Free
    BY HashTypes, FilterAssumption
  <2>4. heap' \in [Address -> Fingerprint \cup {Free}] /\ heap'[a] # Free
        /\ \A x \in Address : heap[x] # Free => heap'[x] # Free
    BY <1>2, <2>1, <2>2, <2>3
  <2>5. i \in InsFrame /\ i.entry = a
    BY <2>2, NoFrameTypes DEF InsFrame
  <2> HIDE DEF i
  <2>6. heap'[i.entry] # Free
    BY <2>4, <2>5
  <2>7. "insert" \in Op
    BY DEF Op
  <2> QED BY <2>1, <2>2, <2>4, <2>5, <2>6, <2>7, BeginInv
<1>4. ASSUME NEW op \in {"find", "remove"}, Begin(t, op, k, "fnd_first"),
             UNCHANGED <<shared, ins, fnd, rem, rel, hlp>>
      PROVE  IInv'
  <2>1. ins' = [ins EXCEPT ![t] = ins[t]] /\ ins[t] \in InsFrame
    BY <1>2, <1>4
  <2>2. ins[t].entry = NULL
    BY <1>4, FrameTypes DEF InsOK, Where, Begin, HelpLabels, InInsert
  <2>3. /\ UNCHANGED <<hash_table, heap, retired_ptrs, leaked, status, resets>>
        /\ op \in Op
    BY <1>4 DEF shared, others, Op
  <2>4. heap' \in [Address -> Fingerprint \cup {Free}]
        /\ \A x \in Address : heap[x] # Free => heap'[x] # Free
    BY <1>2, <2>3
  <2> QED BY <1>4, <2>1, <2>2, <2>3, <2>4, BeginInv
<1> QED BY <1>1, <1>3, <1>4 DEF FindCall, RemoveCall

(* reset and the destructor delete entries while no frame holds one. *)
LEMMA DeleteAllInv ==
  ASSUME IInv, DeleteAll, UNCHANGED <<pc, callers, hlp>>,
         status' \in {"running", "aborted", "destroyed"}, resets' \in 0 .. MaxResets
  PROVE  IInv'
<1>1. /\ \A u \in Thread : pc[u] = "idle"
      /\ hash_table' = [l \in Location |-> empty_slot]
      /\ hazard_ptrs' = [u \in Thread |-> NoHazard]
      /\ retired_ptrs' = [u \in Thread |-> <<>>]
      /\ heap' = [a \in Address |-> IF a \in Stored THEN Free ELSE heap[a]]
      /\ leaked' = (leaked \cup Retired) \ Stored
  BY DEF DeleteAll, AllIdle, EmptyTable
<1>2. hash_table' \in [Location -> table_pointer] /\ TableOK'
  BY <1>1, EmptyTypes DEF TableOK, Alive
<1>3. hazard_ptrs' \in [Thread -> [HazardIndex -> AddressOrNull]]
  BY <1>1 DEF NoHazard, AddressOrNull
<1>4. heap' \in [Address -> Fingerprint \cup {Free}]
  BY <1>1 DEF IInv, TypeOK
<1>5. leaked' \subseteq Address
  <2>1. ASSUME NEW u \in Thread PROVE Range(retired_ptrs[u]) \subseteq Address
    <3>1. retired_ptrs[u] \in Seq(Address)
      BY DEF IInv, TypeOK
    <3> QED BY <3>1 DEF Range
  <2>2. Retired \subseteq Address
    BY <2>1 DEF Retired
  <2> QED BY <1>1, <2>2 DEF IInv, TypeOK
<1>6. retired_ptrs' \in [Thread -> Seq(Address)]
  BY <1>1
<1>7. TypeOK'
  BY <1>2, <1>3, <1>4, <1>5, <1>6 DEF IInv, TypeOK, callers, calls
<1>8. ASSUME NEW u \in Thread PROVE FrameOK(u)'
  <2>1. /\ pc'[u] = "idle" /\ ins'[u] = ins[u] /\ fnd'[u] = fnd[u] /\ rem'[u] = rem[u]
        /\ rel'[u] = rel[u] /\ hlp'[u] = hlp[u] /\ pc[u] = "idle"
    BY <1>1 DEF callers, calls
  <2> QED BY <2>1, IdleFrames
          DEF FrameOK, CallOK, InsOK, FndOK, RemOK, RelOK, HlpOK, Where, HelpLabels, InInsert,
              Alive
<1> QED BY <1>2, <1>7, <1>8 DEF IInv

-----------------------------------------------------------------------------
(***************************************************************************)
(* The theorems                                                            *)
(***************************************************************************)
(* The invariant holds at the start. *)
LEMMA InitInv == Init => IInv
<1> SUFFICES ASSUME Init PROVE IInv
  OBVIOUS
<1>1. hash_table = InitTable /\ heap = InitHeap
  BY DEF Init
<1>2. /\ InitTable \in [Location -> table_pointer]
      /\ InitHeap \in [Address -> Fingerprint \cup {Free}]
      /\ AtRest(InitTable, InitHeap)
  BY FilterAssumption
<1>3. TypeOK
  <2>1. /\ hazard_ptrs \in [Thread -> [HazardIndex -> AddressOrNull]]
        /\ retired_ptrs \in [Thread -> Seq(Address)]
    BY DEF Init, NoHazard, AddressOrNull
  <2>2. resets \in 0 .. MaxResets /\ ncalls \in [Thread -> 0 .. MaxCalls]
    BY FilterAssumption DEF Init
  <2>3. pc \in [Thread -> Label] /\ leaked \subseteq Address
        /\ result \in [Thread -> {"none", "true", "false"}]
        /\ status \in {"running", "aborted", "destroyed"}
        /\ call \in [Thread -> [op : Op, key : Key] \cup {NoCall}]
    BY DEF Init, Label
  <2>4. /\ ins \in [Thread -> InsFrame] /\ fnd \in [Thread -> FndFrame]
        /\ rem \in [Thread -> RemFrame] /\ rel \in [Thread -> RelFrame]
        /\ hlp \in [Thread -> HlpFrame]
    BY NoFrameTypes DEF Init
  <2> QED BY <1>1, <1>2, <2>1, <2>2, <2>3, <2>4 DEF TypeOK
<1>4. TableOK
  <2>1. ASSUME NEW l \in Location
        PROVE  /\ hash_table[l].real # NULL => heap[hash_table[l].real] # Free
               /\ ~hash_table[l].marked
    BY <1>1, <1>2 DEF AtRest
  <2> QED BY <2>1 DEF TableOK, Alive
<1>5. ASSUME NEW t \in Thread PROVE FrameOK(t)
  <2>1. /\ pc[t] = "idle" /\ ins[t] = NoIns /\ fnd[t] = NoFnd /\ rem[t] = NoRem
        /\ rel[t] = NoRel /\ hlp[t] = NoHlp
    BY DEF Init
  <2>2. NoRel.left <= NoRel.depth
    BY NoFrameTypes
  <2> QED BY <2>1, <2>2, NoFrameTypes
          DEF FrameOK, CallOK, InsOK, FndOK, RemOK, RelOK, HlpOK, Where, HelpLabels, InInsert,
              Alive
<1> QED BY <1>3, <1>4, <1>5 DEF IInv

(* A step of an operation preserves the invariant. *)
LEMMA StepInv == ASSUME IInv, NEW t \in Thread, Step(t) PROVE IInv'
<1>1. CASE InsertStep(t)
  BY <1>1, InsReadInv, InsCasInv, InsKickInv, InsFailInv DEF InsertStep
<1>2. CASE FindStep(t)
  BY <1>2, FndFirstInv, FndHold1Inv, FndSecondInv, FndHold2Inv, FndRecheck1Inv,
     FndRecheck2Inv DEF FindStep
<1>3. CASE RemCas(t)
  BY <1>3, RemCasInv
<1>4. CASE RelocateStep(t)
  BY <1>4, RelProbeInv, RelHold1Inv, RelReloadInv, RelSrcInv, RelReloadSrcInv, RelDstInv,
     RelHold2Inv, RelEndInv DEF RelocateStep
<1>5. CASE HelpStep(t)
  BY <1>5, HlpLoadInv, HlpHold1Inv, HlpMarkInv, HlpDstInv, HlpHold2Inv, HlpCheckInv,
     HlpMoveInv, HlpClearInv, HlpDoneInv, HlpBusyInv DEF HelpStep
<1> QED BY <1>1, <1>2, <1>3, <1>4, <1>5 DEF Step

(* Every step preserves the invariant. *)
LEMMA NextInv == IInv /\ [Next]_vars => IInv'
<1> SUFFICES ASSUME IInv, [Next]_vars PROVE IInv'
  OBVIOUS
<1>1. CASE Reset
  <2>1. DeleteAll /\ resets' = resets + 1 /\ resets < MaxResets
        /\ UNCHANGED <<status, pc, callers, hlp>>
    BY <1>1 DEF Reset
  <2>2. status' \in {"running", "aborted", "destroyed"} /\ resets \in 0 .. MaxResets
    BY <2>1 DEF IInv, TypeOK
  <2>3. resets' \in 0 .. MaxResets
    BY <2>1, <2>2, FilterAssumption
  <2> QED BY <2>1, <2>2, <2>3, DeleteAllInv
<1>2. CASE Destroy
  <2>1. DeleteAll /\ status' = "destroyed" /\ UNCHANGED <<resets, pc, callers, hlp>>
    BY <1>2 DEF Destroy
  <2>2. resets' \in 0 .. MaxResets
    BY <2>1 DEF IInv, TypeOK
  <2> QED BY <2>1, <2>2, DeleteAllInv
<1>3. CASE \E t \in Thread : NewCall(t)
  BY <1>3, NewCallInv
<1>4. CASE \E t \in Thread : Step(t)
  BY <1>4, StepInv
<1>5. CASE UNCHANGED vars
  <2>1. UNCHANGED <<hash_table, heap, retired_ptrs, leaked, status, resets, hazard_ptrs,
                    pc, call, result, ncalls, ins, fnd, rem, rel, hlp>>
    BY <1>5 DEF vars, shared, others, callers, calls
  <2>2. TypeOK'
    BY <2>1 DEF IInv, TypeOK
  <2>3. TableOK'
    BY <2>1, SameTable
  <2>4. \A u \in Thread : FrameOK(u)'
    BY <2>1, OtherThread
  <2> QED BY <2>2, <2>3, <2>4 DEF IInv
<1> QED BY <1>1, <1>2, <1>3, <1>4, <1>5 DEF Next, Halted

(* The inductive invariant holds in every reachable state. *)
THEOREM Invariance == Spec => []IInv
  BY InitInv, NextInv, PTL DEF Spec

(* Type correctness: no operation ever indexes a bucket, slot or level that
   does not exist, and no counter outgrows its field (checked by relocation
   on a small instance). *)
THEOREM TypeCorrect == Spec => []TypeOK
<1>1. IInv => TypeOK
  BY DEF IInv
<1> QED BY <1>1, Invariance, PTL

(* No thread ever follows a pointer to a deleted HashEntry, whatever is
   inserted, removed, relocated or reset: remove deletes nothing, and reset and
   the destructor run when no thread holds a pointer. *)
THEOREM NeverDangling == Spec => []NoDangling
<1>1. IInv => NoDangling
  <2> SUFFICES ASSUME IInv, NEW a \in Stored \cup Borrowed PROVE a \in Allocated
    BY DEF NoDangling
  <2>1. a \in AddressOrNull /\ a # NULL /\ Alive(a)
    <3>1. CASE a \in Stored
      BY <3>1, ReadTypes DEF Stored
    <3>2. CASE a \in Borrowed
      <4>1. PICK t \in Thread : a \in {ins[t].entry, fnd[t].ptr.real, rem[t].ptr1.real,
                                       rel[t].source, rel[t].ptr.real, hlp[t].ptr1.real, NULL}
        BY <3>2 DEF Borrowed
      <4>2. /\ Alive(ins[t].entry) /\ Alive(fnd[t].ptr.real) /\ Alive(rem[t].ptr1.real)
            /\ Alive(rel[t].source) /\ Alive(rel[t].ptr.real) /\ Alive(hlp[t].ptr1.real)
        BY FrameTypes DEF InsOK, FndOK, RelOK, RemOK, HlpOK
      <4>3. {ins[t].entry, fnd[t].ptr.real, rem[t].ptr1.real,
             rel[t].source, rel[t].ptr.real, hlp[t].ptr1.real} \subseteq AddressOrNull
        BY FrameTypes DEF InsFrame, FndFrame, RelFrame, RemFrame, HlpFrame, table_pointer,
           AddressOrNull
      <4>4. a # NULL
        BY <3>2 DEF Borrowed
      <4> QED BY <4>1, <4>2, <4>3, <4>4
    <3> QED BY <3>1, <3>2
  <2> QED BY <2>1 DEF Alive, AddressOrNull, Allocated
<1> QED BY <1>1, Invariance, PTL

-----------------------------------------------------------------------------
(* A swap whose new word has a counter as large as the old one's takes no
   counter back. *)
LEMMA SwapMonotonic ==
  ASSUME IInv, NEW l \in Location, NEW old, NEW w, CAS(l, old, w),
         w.counter >= old.counter
  PROVE  \A m \in Location : hash_table'[m].counter >= hash_table[m].counter
<1>1. hash_table \in [Location -> table_pointer]
  BY DEF IInv, TypeOK
<1>2. \A m \in Location : hash_table[m].counter \in Counter
  BY ReadTypes
<1>3. \A n \in Counter : n >= n
  BY TablePointerAssumption DEF Counter
<1>4. CASE Holds(l, old)
  <2>1. hash_table' = [hash_table EXCEPT ![l] = w]
    BY <1>4 DEF CAS
  <2>2. hash_table[l] = old
    BY <1>4 DEF Holds
  <2> QED BY <1>1, <1>2, <1>3, <2>1, <2>2
<1>5. CASE ~Holds(l, old)
  <2>1. hash_table' = hash_table
    BY <1>5 DEF CAS
  <2> QED BY <1>2, <1>3, <2>1
<1> QED BY <1>4, <1>5

(* No step of an operation takes a counter back: a swap either keeps the counter
   of the word it replaces or exceeds it. *)
LEMMA StepMonotonic ==
  ASSUME IInv, NEW t \in Thread, Step(t)
  PROVE  \A m \in Location : hash_table'[m].counter >= hash_table[m].counter
<1>1. \A m \in Location : hash_table[m].counter \in Counter
  BY ReadTypes
<1>2. ASSUME UNCHANGED hash_table
      PROVE  \A m \in Location : hash_table'[m].counter >= hash_table[m].counter
  BY <1>1, <1>2, TablePointerAssumption DEF Counter
<1>3. ASSUME NEW n \in Counter PROVE n >= n /\ n + 1 >= n
  BY <1>3, TablePointerAssumption DEF Counter
<1>4. CASE InsCas(t)
  <2>1. pc[t] = "ins_cas"
    BY <1>4 DEF InsCas
  <2>2. Probed(t) \in Location
    BY <2>1, ProbedTypes DEF InInsert
  <2>3. ins[t].ptr1.counter \in Counter
    BY FrameTypes DEF InsFrame, table_pointer, Counter
  <2> DEFINE w == create_pointer(ins[t].ptr1.counter, ins[t].entry, FALSE)
  <2>4. w.counter = ins[t].ptr1.counter
    BY DEF create_pointer
  <2>5. UNCHANGED hash_table \/ CAS(Probed(t), ins[t].ptr1, w)
    BY <1>4 DEF InsCas, CAS, Store
  <2> HIDE DEF w
  <2> QED BY <1>2, <1>3, <2>2, <2>3, <2>4, <2>5, SwapMonotonic
<1>5. CASE RemCas(t)
  <2>1. pc[t] = "rem_cas"
    BY <1>5 DEF RemCas
  <2>2. RemLocation(t) \in Location
    BY <2>1, RemLocationTypes
  <2>3. rem[t].ptr1.counter \in Counter
    BY FrameTypes DEF RemFrame, table_pointer, Counter
  <2> DEFINE w == create_pointer(rem[t].ptr1.counter, NULL, FALSE)
  <2>4. w.counter = rem[t].ptr1.counter
    BY DEF create_pointer
  <2>5. UNCHANGED hash_table \/ CAS(RemLocation(t), rem[t].ptr1, w)
    BY <1>5 DEF RemCas, CAS, Store
  <2> HIDE DEF w
  <2> QED BY <1>2, <1>3, <2>2, <2>3, <2>4, <2>5, SwapMonotonic
<1>6. CASE HelpStep(t)
  <2>1. pc[t] \in HelpLabels
    BY <1>6 DEF HelpStep, HlpLoad, HlpHold1, HlpMark, HlpDst, HlpHold2, HlpCheck, HlpMove,
                HlpClear, HlpDone, HlpBusy, HelpLabels
  <2>2. HlpSource(t) \in Location
    BY <2>1, HelpLocations
  <2>3. /\ hlp[t].ptr1 \in table_pointer
        /\ hlp[t].ptr1.counter \in Counter /\ hlp[t].ptr2.counter \in Counter
    BY FrameTypes DEF HlpFrame, table_pointer, Counter
  <2>4. CASE HlpMark(t)
    <3> DEFINE w == get_new_mark(hlp[t].ptr1, TRUE)
    <3>1. w.counter = hlp[t].ptr1.counter
      BY <2>3, MarkTypes
    <3>2. CAS(HlpSource(t), hlp[t].ptr1, w)
      BY <2>4 DEF HlpMark
    <3> HIDE DEF w
    <3> QED BY <1>3, <2>2, <2>3, <3>1, <3>2, SwapMonotonic
  <2>5. CASE HlpMove(t)
    <3> DEFINE n == MovedCounter(hlp[t].ptr1.counter, hlp[t].ptr2.counter)
               w == create_pointer(n, hlp[t].ptr1.real, FALSE)
    <3>1. n >= hlp[t].ptr2.counter
      BY <2>3, TablePointerAssumption DEF MovedCounter, Counter
    <3>2. w.counter = n
      BY DEF create_pointer
    <3>3. UNCHANGED hash_table \/ CAS(HlpDest(t), hlp[t].ptr2, w)
      BY <2>5 DEF HlpMove, Abort, CAS, Store
    <3>4. HlpDest(t) \in Location
      BY <2>1, <2>5, HelpLocations DEF HlpMove
    <3> HIDE DEF w, n
    <3> QED BY <1>2, <3>1, <3>2, <3>3, <3>4, SwapMonotonic
  <2>6. CASE HlpClear(t)
    <3>1. Vacated(hlp[t].ptr1).counter = hlp[t].ptr1.counter + 1
      BY DEF Vacated, create_pointer
    <3>2. CAS(HlpSource(t), hlp[t].ptr1, Vacated(hlp[t].ptr1))
      BY <2>6 DEF HlpClear
    <3> QED BY <1>3, <2>2, <2>3, <3>1, <3>2, SwapMonotonic
  <2>7. CASE HlpDone(t) \/ HlpBusy(t)
    <3>1. PICK w : DestCas(t, w) /\ w.counter = hlp[t].ptr1.counter + 1
      BY <2>7 DEF HlpDone, HlpBusy, Vacated, create_pointer
    <3>2. HlpDest(t) \in Location
      BY <2>1, <2>7, HelpLocations DEF HlpDone, HlpBusy
    <3>3. UNCHANGED hash_table \/ CAS(HlpDest(t), hlp[t].ptr1, w)
      BY <3>1 DEF DestCas, Abort
    <3> QED BY <1>2, <1>3, <2>3, <3>1, <3>2, <3>3, SwapMonotonic
  <2>8. CASE HlpLoad(t) \/ HlpHold1(t) \/ HlpDst(t) \/ HlpHold2(t) \/ HlpCheck(t)
    BY <1>2, <2>8 DEF HlpLoad, HlpHold1, HlpDst, HlpHold2, HlpCheck, shared
  <2> QED BY <1>6, <2>4, <2>5, <2>6, <2>7, <2>8 DEF HelpStep
<1>7. CASE InsRead(t) \/ InsKick(t) \/ InsFail(t) \/ FindStep(t) \/ RelocateStep(t)
  BY <1>2, <1>7
  DEF InsRead, InsKick, InsFail, FindStep, FndFirst, FndHold1, FndSecond, FndHold2,
      FndRecheck1, FndRecheck2, RelocateStep, RelProbe, RelHold1, RelReload, RelSrc,
      RelReloadSrc, RelDst, RelHold2, RelEnd, shared
<1> QED BY <1>4, <1>5, <1>6, <1>7 DEF Step, InsertStep

(* The counter of a slot never goes back while the filter runs, so that a word
   that was replaced after a relocation never reappears under an older counter
   (the ABA case check_counter and the swaps of insert and remove rely on). *)
THEOREM CountersNeverGoBack == Spec => CounterMonotonic
<1>1. ASSUME IInv, [Next]_vars
      PROVE  \/ \A l \in Location : hash_table'[l].counter >= hash_table[l].counter
             \/ Dropped
             \/ UNCHANGED vars
  <2>1. CASE \E t \in Thread : Step(t)
    BY <1>1, <2>1, StepMonotonic
  <2>2. CASE Reset
    <3>1. resets' = resets + 1 /\ resets \in Nat
      BY <1>1, <2>2 DEF Reset, IInv, TypeOK
    <3> QED BY <3>1 DEF Dropped
  <2>3. CASE Destroy
    BY <2>3 DEF Destroy, Dropped
  <2>4. CASE \E t \in Thread : NewCall(t)
    <3>1. UNCHANGED hash_table
      BY <2>4 DEF NewCall, InsertCall, FindCall, RemoveCall, shared
    <3>2. \A l \in Location : hash_table[l].counter \in Counter
      BY <1>1, ReadTypes
    <3> QED BY <3>1, <3>2, TablePointerAssumption DEF Counter
  <2> QED BY <1>1, <2>1, <2>2, <2>3, <2>4 DEF Next, Halted
<1> QED BY <1>1, Invariance, PTL DEF Spec, CounterMonotonic

-----------------------------------------------------------------------------
(***************************************************************************)
(* What a step changes                                                     *)
(***************************************************************************)
Untouched(u) ==
  /\ pc'[u] = pc[u] /\ call'[u] = call[u] /\ ins'[u] = ins[u] /\ rem'[u] = rem[u]
  /\ hlp'[u] = hlp[u] /\ hazard_ptrs'[u] = hazard_ptrs[u]

(* A step of t in an operation leaves the entries, the arguments of the calls
   and the other threads alone; insert keeps its entry or is over. *)
ActsFor(t) ==
  /\ UNCHANGED <<heap, call>>
  /\ \A u \in Thread \ {t} : Untouched(u)
  /\ ins'[t].entry \in {ins[t].entry, NULL}

LEMMA HazardOthers ==
  ASSUME IInv, NEW t \in Thread, NEW u \in Thread \ {t},
         \/ ClearHazard(t) \/ UNCHANGED hazard_ptrs
         \/ \E j \in HazardIndex : \E a : MarkHazard(t, j, a)
  PROVE  hazard_ptrs'[u] = hazard_ptrs[u]
BY DEF ClearHazard, MarkHazard, IInv, TypeOK

LEMMA StepActsFor == ASSUME IInv, NEW t \in Thread, Step(t) PROVE ActsFor(t)
<1>1. TypeOK /\ NoIns.entry = NULL
  BY DEF IInv, NoIns
<1>2. CASE InsertStep(t)
  <2>1. ASSUME NextProbe(t, TRUE) \/ NextProbe(t, ins[t].found_empty)
        PROVE  /\ \A u \in Thread \ {t} : pc'[u] = pc[u] /\ ins'[u] = ins[u]
               /\ ins'[t].entry = ins[t].entry
    BY <1>1, <2>1 DEF NextProbe, Goto, TypeOK
  <2>2. ASSUME NEW v, Return(t, v)
        PROVE  /\ \A u \in Thread \ {t} : pc'[u] = pc[u] /\ ins'[u] = ins[u] /\ rem'[u] = rem[u]
               /\ ins'[t].entry = NULL /\ UNCHANGED <<call, hlp>>
    BY <1>1, <2>2 DEF Return, Goto, TypeOK
  <2>3. CASE InsRead(t)
    <3>1. UNCHANGED <<heap, hazard_ptrs, calls, rem, hlp>>
      BY <2>3 DEF InsRead, shared, others
    <3>2. ASSUME NEW p, Goto(t, "ins_cas"),
                 ins' = [ins EXCEPT ![t] = [@ EXCEPT !.ptr1 = p, !.found_empty = TRUE]]
          PROVE  /\ \A u \in Thread \ {t} : pc'[u] = pc[u] /\ ins'[u] = ins[u]
                 /\ ins'[t].entry = ins[t].entry
      BY <1>1, <3>2 DEF Goto, TypeOK, InsFrame
    <3>3. /\ \A u \in Thread \ {t} : pc'[u] = pc[u] /\ ins'[u] = ins[u]
          /\ ins'[t].entry = ins[t].entry
      BY <2>1, <2>3, <3>2 DEF InsRead
    <3> QED BY <3>1, <3>3 DEF ActsFor, Untouched, calls
  <2>4. CASE InsCas(t)
    <3>1. UNCHANGED <<heap, hazard_ptrs>>
      BY <2>4 DEF InsCas, others
    <3>2. CASE Return(t, "true")
      BY <2>2, <3>1, <3>2 DEF ActsFor, Untouched
    <3>3. CASE NextProbe(t, TRUE) /\ UNCHANGED <<calls, rem, hlp>>
      BY <2>1, <3>1, <3>3 DEF ActsFor, Untouched, calls
    <3> QED BY <2>4, <3>2, <3>3 DEF InsCas
  <2>5. CASE InsKick(t)
    BY <1>1, <2>5 DEF InsKick, Goto, ActsFor, Untouched, TypeOK, shared, others, calls, InsFrame
  <2>6. CASE InsFail(t)
    BY <1>1, <2>2, <2>6 DEF InsFail, ActsFor, Untouched
  <2> QED BY <1>2, <2>3, <2>4, <2>5, <2>6 DEF InsertStep
<1>3. CASE HelpStep(t)
  <2>1. \A u \in Thread \ {t} : hazard_ptrs'[u] = hazard_ptrs[u]
    BY <1>3, HazardOthers DEF HelpStep, HlpLoad, HlpHold1, HlpMark, HlpDst, HlpHold2, HlpCheck,
       HlpMove, HlpClear, HlpDone, HlpBusy, DestCas, HazardIndex
  <2> QED
    BY <1>1, <1>3, <2>1 DEF HelpStep, HlpLoad, HlpHold1, HlpMark, HlpDst, HlpHold2, HlpCheck,
       HlpMove, HlpClear, HlpDone, HlpBusy, DestCas, Abort, HlpReturn, Goto, ActsFor, Untouched,
          TypeOK,
       shared, others, callers, calls
<1>4. CASE RelocateStep(t)
  <2>1. \A u \in Thread \ {t} : hazard_ptrs'[u] = hazard_ptrs[u]
    BY <1>4, HazardOthers DEF RelocateStep, RelProbe, RelHold1, RelReload, RelSrc, RelReloadSrc,
       RelDst, RelHold2, RelEnd, PathStep, CallHelp, HazardIndex
  <2>2. ASSUME NEW found \in BOOLEAN, RelReturn(t, found)
        PROVE  /\ \A u \in Thread \ {t} : pc'[u] = pc[u] /\ ins'[u] = ins[u]
               /\ ins'[t].entry = ins[t].entry
    <3>1. [NoIns EXCEPT !.entry = ins[t].entry].entry = ins[t].entry
      BY DEF NoIns
    <3> QED BY <1>1, <2>2, <3>1 DEF RelReturn, Goto, TypeOK
  <2>3. CASE RelHold1(t) \/ RelReload(t)
    <3>1. PICK p : PathStep(t, p)
      BY <2>3 DEF RelHold1, RelReload
    <3>2. /\ \A u \in Thread \ {t} : pc'[u] = pc[u] /\ ins'[u] = ins[u] /\ hlp'[u] = hlp[u]
          /\ ins'[t].entry = ins[t].entry
      BY <1>1, <2>2, <3>1 DEF PathStep, CallHelp, Goto, TypeOK
    <3> QED BY <2>1, <2>3, <3>2 DEF RelHold1, RelReload, ActsFor, Untouched, shared, others, calls
  <2>4. CASE RelProbe(t) \/ RelSrc(t) \/ RelReloadSrc(t) \/ RelDst(t) \/ RelHold2(t)
    BY <1>1, <2>1, <2>4 DEF RelProbe, RelSrc, RelReloadSrc, RelDst, RelHold2, SourceStep,
       CallHelp, Goto, ActsFor, Untouched, TypeOK, shared, others, calls
  <2>5. CASE RelEnd(t)
    BY <2>1, <2>2, <2>5 DEF RelEnd, ActsFor, Untouched, shared, others, calls
  <2> QED BY <1>4, <2>3, <2>4, <2>5 DEF RelocateStep
<1>5. CASE FindStep(t) \/ RemCas(t)
  <2>1. \A u \in Thread \ {t} : hazard_ptrs'[u] = hazard_ptrs[u]
    BY <1>5, HazardOthers DEF FindStep, FndFirst, FndHold1, FndSecond, FndHold2, FndRecheck1,
       FndRecheck2, FirstRound, CallHelp, RemCas, RemRetry, HazardIndex
  <2> QED
    BY <1>1, <1>5, <2>1 DEF FindStep, FndFirst, FndHold1, FndSecond, FndHold2, FndRecheck1,
       FndRecheck2, FirstRound, FindReturn, Return, CallHelp, RemCas, RemRetry, retire_key, Goto,
          ActsFor, Untouched,
       TypeOK, shared, others, calls
<1> QED BY <1>2, <1>3, <1>4, <1>5 DEF Step

(* help_relocate has announced the source, which has an entry. *)
CoveredHelp == HelpLabels \ {"hlp_load", "hlp_hold1"}

(* The table after a step: a slot keeps its entry or loses it, or it is where
   insert puts its own or where help_relocate moves one. *)
StoresOf(t) ==
  \A l \in Location :
    \/ hash_table'[l].real \in {hash_table[l].real, NULL}
    \/ pc[t] = "ins_cas" /\ l = Probed(t) /\ hash_table'[l].real = ins[t].entry
    \/ /\ pc[t] \in CoveredHelp /\ l = HlpDest(t)
       /\ hash_table'[l].real = hlp[t].ptr1.real

LEMMA StepStores == ASSUME IInv, NEW t \in Thread, Step(t) PROVE StoresOf(t)
<1>1. hash_table \in [Location -> table_pointer]
  BY DEF IInv, TypeOK
<1>2. ASSUME UNCHANGED hash_table PROVE StoresOf(t)
  BY <1>2 DEF StoresOf
<1>3. ASSUME NEW l, NEW old, NEW w, CAS(l, old, w) \/ Store(l, w)
      PROVE  \A m \in Location : \/ hash_table'[m] = hash_table[m]
                                 \/ m = l /\ hash_table'[m] = w
  BY <1>1, <1>3 DEF CAS, Store
<1>4. CASE InsCas(t)
  <2>1. create_pointer(ins[t].ptr1.counter, ins[t].entry, FALSE).real = ins[t].entry
    BY DEF create_pointer
  <2> QED BY <1>2, <1>3, <1>4, <2>1 DEF InsCas, StoresOf
<1>5. CASE RemCas(t)
  <2>1. create_pointer(rem[t].ptr1.counter, NULL, FALSE).real = NULL
    BY DEF create_pointer
  <2> QED BY <1>2, <1>3, <1>5, <2>1 DEF RemCas, StoresOf
<1>6. CASE HlpMark(t)
  <2>1. hlp[t].ptr1 \in table_pointer
    BY FrameTypes DEF HlpFrame
  <2>2. get_new_mark(hlp[t].ptr1, TRUE).real = hlp[t].ptr1.real
    BY <2>1, MarkTypes
  <2>3. CASE Holds(HlpSource(t), hlp[t].ptr1)
    BY <1>3, <1>6, <2>2, <2>3 DEF HlpMark, StoresOf, Holds
  <2>4. CASE ~Holds(HlpSource(t), hlp[t].ptr1)
    BY <1>2, <1>6, <2>4 DEF HlpMark, CAS
  <2> QED BY <2>3, <2>4
<1>7. CASE HlpMove(t)
  <2>1. \A n : create_pointer(n, hlp[t].ptr1.real, FALSE).real = hlp[t].ptr1.real
    BY DEF create_pointer
  <2> QED BY <1>2, <1>3, <1>7, <2>1 DEF HlpMove, Abort, StoresOf, CoveredHelp, HelpLabels
<1>8. CASE HlpClear(t)
  <2>1. Vacated(hlp[t].ptr1).real = NULL
    BY DEF Vacated, create_pointer
  <2> QED BY <1>3, <1>8, <2>1 DEF HlpClear, StoresOf
<1>9. CASE HlpDone(t) \/ HlpBusy(t)
  <2>1. PICK w : DestCas(t, w) /\ w.real \in {NULL, hlp[t].ptr1.real}
    BY <1>9 DEF HlpDone, HlpBusy, Vacated, create_pointer
  <2>2. UNCHANGED hash_table \/ CAS(HlpDest(t), hlp[t].ptr1, w)
    BY <2>1 DEF DestCas, Abort
  <2>3. pc[t] \in CoveredHelp
    BY <1>9 DEF HlpDone, HlpBusy, CoveredHelp, HelpLabels
  <2> QED BY <1>2, <1>3, <2>1, <2>2, <2>3 DEF StoresOf
<1>10. CASE \/ HlpLoad(t) \/ HlpHold1(t) \/ HlpDst(t) \/ HlpHold2(t) \/ HlpCheck(t)
            \/ InsRead(t) \/ InsKick(t) \/ InsFail(t) \/ FindStep(t) \/ RelocateStep(t)
  BY <1>2, <1>10
  DEF HlpLoad, HlpHold1, HlpDst, HlpHold2, HlpCheck, InsRead, InsKick, InsFail, FindStep,
      FndFirst, FndHold1, FndSecond, FndHold2, FndRecheck1, FndRecheck2, RelocateStep, RelProbe,
      RelHold1, RelReload, RelSrc, RelReloadSrc, RelDst, RelHold2, RelEnd, shared
<1> QED BY <1>4, <1>5, <1>6, <1>7, <1>8, <1>9, <1>10 DEF Step, InsertStep, HelpStep

(* The frame of help_relocate after a step: it holds no entry, it still has the
   word it had, or it has just loaded it. *)
HelpFrameOf(t) ==
  \/ pc'[t] \notin HelpLabels \ {"hlp_load"} /\ hlp'[t].ptr1.real = NULL
  \/ /\ pc[t] \in HelpLabels \ {"hlp_load", "hlp_mark"}
     /\ pc'[t] \in CoveredHelp
     /\ hlp'[t].idx = hlp[t].idx /\ hlp'[t].slot = hlp[t].slot /\ hlp'[t].ptr1 = hlp[t].ptr1
     /\ hazard_ptrs'[t][0] = IF pc[t] = "hlp_hold1" THEN hlp[t].ptr1.real
                                                    ELSE hazard_ptrs[t][0]
     /\ pc[t] = "hlp_hold1" => pc'[t] \in {"hlp_mark", "hlp_dst"}
     /\ pc[t] = "hlp_dst" => hlp'[t].ptr2 = hash_table[HlpDest(t)]
     /\ pc[t] # "hlp_dst" => hlp'[t].ptr2 = hlp[t].ptr2
     /\ pc'[t] = "hlp_mark" => pc[t] = "hlp_hold1"
     /\ pc'[t] = "hlp_hold2" => pc[t] = "hlp_dst"
     /\ pc'[t] = "hlp_check" => pc[t] = "hlp_hold2"
     /\ pc'[t] = "hlp_move" => pc[t] \in {"hlp_check", "hlp_move"}
  \/ /\ pc[t] = "hlp_load" /\ pc'[t] = "hlp_hold1"
     /\ hlp'[t].idx = hlp[t].idx /\ hlp'[t].slot = hlp[t].slot
     /\ hlp'[t].ptr1 = hash_table[HlpSource(t)] /\ UNCHANGED hash_table

LEMMA StepHelpFrame == ASSUME IInv, NEW t \in Thread, Step(t) PROVE HelpFrameOf(t)
<1>1. TypeOK /\ TypeOK' /\ HlpOK(t)'
  BY StepInv DEF IInv, FrameOK
<1>2. ASSUME pc'[t] \notin HelpLabels \ {"hlp_load"} PROVE HelpFrameOf(t)
  BY <1>1, <1>2 DEF HlpOK, HelpFrameOf
<1>3. /\ hlp[t] \in HlpFrame /\ hlp \in [Thread -> HlpFrame]
      /\ hazard_ptrs \in [Thread -> [HazardIndex -> AddressOrNull]] /\ 0 \in HazardIndex
      /\ pc \in [Thread -> Label]
  BY <1>1 DEF TypeOK, HazardIndex
<1>4. CASE InsertStep(t)
  <2>1. pc'[t] \in {"idle", "ins_read", "ins_cas", "ins_kick", "rel_probe"}
    BY <1>3, <1>4 DEF InsertStep, InsRead, InsCas, InsKick, InsFail, NextProbe, Return, Goto
  <2> QED BY <1>2, <2>1 DEF HelpLabels, InFind
<1>5. CASE FindStep(t) \/ RemCas(t)
  <2>1. pc'[t] \in {"idle", "hlp_load"} \cup InFind
    BY <1>3, <1>5 DEF FindStep, FndFirst, FndHold1, FndSecond, FndHold2, FndRecheck1, FndRecheck2,
       FirstRound, FindReturn, Return, CallHelp, RemCas, RemRetry, Goto, InFind
  <2> QED BY <1>2, <2>1 DEF HelpLabels, InFind
<1>6. CASE RelocateStep(t)
  <2>1. pc'[t] \in {"hlp_load"} \cup InInsert
    BY <1>3, <1>6 DEF RelocateStep, RelProbe, RelHold1, RelReload, RelSrc, RelReloadSrc, RelDst,
       RelHold2, RelEnd, PathStep, SourceStep, RelReturn, CallHelp, Goto, InInsert
  <2> QED BY <1>2, <2>1 DEF HelpLabels, InInsert
<1>7. CASE HlpLoad(t)
  <2>1. pc'[t] = "hlp_hold1" /\ hlp'[t].ptr1 = hash_table[HlpSource(t)]
        /\ hlp'[t].idx = hlp[t].idx /\ hlp'[t].slot = hlp[t].slot
    BY <1>3, <1>7 DEF HlpLoad, Goto, HlpFrame
  <2> QED BY <1>7, <2>1 DEF HlpLoad, HelpFrameOf, shared
<1>14. CASE HlpHold1(t)
  <2>1. ASSUME HlpReturn(t) PROVE HelpFrameOf(t)
    <3>1. pc'[t] \in {"fnd_first", "rel_reload", "rel_src", "rel_reload_src"}
      BY <1>3, <1>14, <2>1, FrameTypes DEF HlpReturn, Goto, HlpOK, HlpHold1, HelpLabels
    <3> QED BY <1>2, <3>1 DEF HelpLabels
  <2>2. hazard_ptrs'[t][0] = hlp[t].ptr1.real
    BY <1>3, <1>14 DEF HlpHold1, MarkHazard
  <2>3. ASSUME NEW l \in {"hlp_mark", "hlp_dst"}, Goto(t, l), UNCHANGED hlp
        PROVE  HelpFrameOf(t)
    <3>1. pc'[t] = l /\ pc[t] = "hlp_hold1"
      BY <1>3, <1>14, <2>3 DEF Goto, HlpHold1
    <3> QED BY <2>2, <2>3, <3>1 DEF HelpFrameOf, CoveredHelp, HelpLabels
  <2> QED BY <1>14, <2>1, <2>3 DEF HlpHold1
<1>8. CASE HlpMark(t)
  <2>1. pc'[t] = "hlp_load"
    BY <1>3, <1>8 DEF HlpMark, Goto
  <2> QED BY <1>2, <2>1
<1>9. CASE HlpDst(t)
  <2>1. hlp'[t].idx = hlp[t].idx /\ hlp'[t].slot = hlp[t].slot /\ hlp'[t].ptr1 = hlp[t].ptr1
        /\ hlp'[t].ptr2 = hash_table[HlpDest(t)]
    BY <1>3, <1>9 DEF HlpDst, HlpFrame
  <2>2. hazard_ptrs' = hazard_ptrs /\ pc'[t] = "hlp_hold2" /\ pc[t] = "hlp_dst"
    BY <1>3, <1>9 DEF HlpDst, Goto
  <2> QED BY <2>1, <2>2 DEF HelpFrameOf, CoveredHelp, HelpLabels
<1>15. CASE HlpHold2(t)
  <2>1. hazard_ptrs'[t][0] = hazard_ptrs[t][0] /\ UNCHANGED hlp
    BY <1>3, <1>15 DEF HlpHold2, MarkHazard
  <2>2. pc'[t] \in {"hlp_check", "hlp_done", "hlp_busy"} /\ pc[t] = "hlp_hold2"
    BY <1>3, <1>15 DEF HlpHold2, Goto
  <2> QED BY <2>1, <2>2 DEF HelpFrameOf, CoveredHelp, HelpLabels
<1>10. CASE HlpCheck(t)
  <2>1. CASE pc'[t] = "hlp_load"
    BY <1>2, <2>1
  <2>2. CASE pc'[t] # "hlp_load"
    <3>1. pc'[t] = "hlp_move" /\ hlp' = hlp /\ hazard_ptrs' = hazard_ptrs /\ pc[t] = "hlp_check"
      BY <1>3, <1>10, <2>2 DEF HlpCheck, Goto
    <3> QED BY <3>1 DEF HelpFrameOf, CoveredHelp, HelpLabels
  <2> QED BY <2>1, <2>2
<1>11. CASE HlpMove(t)
  <2>1. /\ hlp' = hlp /\ hazard_ptrs' = hazard_ptrs /\ pc[t] = "hlp_move"
        /\ pc'[t] \in {"hlp_move", "hlp_clear", "hlp_busy"}
    BY <1>3, <1>11 DEF HlpMove, Abort, Goto
  <2> QED BY <2>1 DEF HelpFrameOf, CoveredHelp, HelpLabels
<1>12. CASE HlpClear(t)
  <2>1. pc'[t] \in {"fnd_first", "rel_reload", "rel_src", "rel_reload_src"}
    BY <1>3, <1>12, FrameTypes DEF HlpClear, HlpReturn, Goto, HlpOK, HelpLabels
  <2> QED BY <1>2, <2>1 DEF HelpLabels
<1>13. CASE HlpDone(t) \/ HlpBusy(t)
  <2>1. PICK w : DestCas(t, w)
    BY <1>13 DEF HlpDone, HlpBusy
  <2>2. pc[t] \in {"hlp_done", "hlp_busy"}
    BY <1>13 DEF HlpDone, HlpBusy
  <2>3. CASE Abort
    BY <2>1, <2>2, <2>3 DEF Abort, DestCas, HelpFrameOf, CoveredHelp, HelpLabels
  <2>4. CASE HlpReturn(t)
    <3>1. pc'[t] \in {"fnd_first", "rel_reload", "rel_src", "rel_reload_src"}
      BY <1>3, <2>2, <2>4, FrameTypes DEF HlpReturn, Goto, HlpOK, HelpLabels
    <3> QED BY <1>2, <3>1 DEF HelpLabels
  <2> QED BY <2>1, <2>3, <2>4 DEF DestCas
<1> QED BY <1>4, <1>5, <1>6, <1>7, <1>8, <1>9, <1>10, <1>11, <1>12, <1>13, <1>14, <1>15
   DEF Step, HelpStep

(* A call that begins leaves the table and the other threads alone, and deletes
   no entry. *)
LEMMA NewCallActs ==
  ASSUME IInv, NEW t \in Thread, NewCall(t)
  PROVE  /\ pc[t] = "idle" /\ pc'[t] \in {"ins_read", "fnd_first"}
         /\ UNCHANGED <<hash_table, status, hlp>>
         /\ \A u \in Thread \ {t} : Untouched(u)
         /\ \A a \in AddressOrNull : a # NULL /\ Alive(a) => heap'[a] = heap[a]
         /\ ins'[t].entry # NULL => heap'[ins'[t].entry] = fingerprint(t)'
<1>1. PICK k \in Key : InsertCall(t, k) \/ FindCall(t, k) \/ RemoveCall(t, k)
  BY DEF NewCall
<1>2. TypeOK
  BY DEF IInv
<1>3. ASSUME NEW op, NEW l, Begin(t, op, k, l)
      PROVE  /\ pc[t] = "idle" /\ pc'[t] = l /\ call'[t].key = k
             /\ \A u \in Thread \ {t} : /\ pc'[u] = pc[u] /\ call'[u] = call[u]
                                       /\ hazard_ptrs'[u] = hazard_ptrs[u]
  BY <1>2, <1>3 DEF Begin, Goto, ClearHazard, TypeOK
<1>4. CASE InsertCall(t, k)
  <2>1. NewAddress \in Address /\ heap[NewAddress] = Free
    BY <1>4 DEF InsertCall, NewAddress, FreeAddress
  <2>2. [NoIns EXCEPT !.entry = NewAddress].entry = NewAddress
    BY DEF NoIns
  <2>3. /\ heap' = [heap EXCEPT ![NewAddress] = md5_fingerprint[k]]
        /\ ins' = [ins EXCEPT ![t] = [NoIns EXCEPT !.entry = NewAddress]]
        /\ Begin(t, "insert", k, "ins_read") /\ UNCHANGED <<hash_table, status, hlp, rem>>
    BY <1>4 DEF InsertCall
  <2>4. ins'[t].entry = NewAddress /\ \A u \in Thread \ {t} : ins'[u] = ins[u]
    BY <1>2, <2>2, <2>3 DEF TypeOK
  <2>5. heap'[NewAddress] = md5_fingerprint[k] /\ fingerprint(t)' = md5_fingerprint[k]
    BY <1>2, <1>3, <2>1, <2>3 DEF TypeOK, fingerprint
  <2>6. \A a \in AddressOrNull : a # NULL /\ Alive(a) => heap'[a] = heap[a]
    BY <1>2, <2>1, <2>3 DEF TypeOK, Alive, AddressOrNull
  <2> QED BY <1>3, <2>3, <2>4, <2>5, <2>6 DEF Untouched
<1>5. CASE FindCall(t, k) \/ RemoveCall(t, k)
  <2>1. /\ UNCHANGED <<hash_table, heap, status, hlp, ins, rem>>
        /\ \E op : Begin(t, op, k, "fnd_first")
    BY <1>5 DEF FindCall, RemoveCall, shared, others
  <2>2. pc[t] = "idle"
    BY <1>3, <2>1
  <2>3. ins[t].entry = NULL
    BY <2>2, FrameTypes DEF InsOK, Where, HelpLabels, InInsert
  <2> QED BY <1>3, <2>1, <2>3 DEF Untouched
<1> QED BY <1>1, <1>4, <1>5

(* reset and the destructor run when no call does, and leave an empty table. *)
LEMMA DeleteAllActs ==
  ASSUME IInv, Reset \/ Destroy
  PROVE  /\ \A t \in Thread : /\ pc[t] = "idle" /\ pc'[t] = "idle"
                              /\ ins'[t].entry = NULL /\ hlp'[t].ptr1.real = NULL
         /\ \A l \in Location : hash_table'[l].real = NULL
         /\ UNCHANGED status \/ status' = "destroyed"
<1>1. AllIdle /\ hash_table' = EmptyTable /\ UNCHANGED <<pc, ins, hlp>>
      /\ (UNCHANGED status \/ status' = "destroyed")
  BY DEF Reset, Destroy, DeleteAll, callers
<1>2. \A l \in Location : hash_table'[l].real = NULL
  BY <1>1, EmptyTypes DEF EmptyTable
<1> QED BY <1>1, <1>2, IdleFrames DEF AllIdle

-----------------------------------------------------------------------------
(***************************************************************************)
(* Placement                                                               *)
(***************************************************************************)
(* Moving an item from one of the buckets of a key leads to the other, if
   hashing is an involution. *)
LEMMA OtherBucket ==
  ASSUME Involutive, NEW f \in Fingerprint, NEW b \in Bucket, Examined(f, b)
  PROVE  Examined(f, get_next_hash_index(b, f))
<1>1. PICK k \in Key : md5_fingerprint[k] = f /\ b \in {hash1(k), hash2(k)}
  BY DEF Examined
<1>2. hash2(k) = get_next_hash_index(hash1(k), f) /\ hash1(k) \in Bucket
  BY <1>1, HashTypes DEF hash2
<1>3. get_next_hash_index(b, f) \in {hash1(k), hash2(k)}
  BY <1>1, <1>2 DEF Involutive
<1> QED BY <1>1, <1>3 DEF Examined

(* What the threads hold is theirs or in place. *)
HoldsPlaced(t) ==
  /\ ins[t].entry # NULL => heap[ins[t].entry] = fingerprint(t)
  /\ hlp[t].ptr1.real # NULL => Examined(heap[hlp[t].ptr1.real], hlp[t].idx)

PlacementInv == Placement /\ \A t \in Thread : HoldsPlaced(t)

LEMMA StepPlacement ==
  ASSUME Involutive, IInv, PlacementInv, NEW t \in Thread, Step(t)
  PROVE  PlacementInv'
<1>1. ActsFor(t) /\ StoresOf(t) /\ HelpFrameOf(t)
  BY StepActsFor, StepStores, StepHelpFrame
<1>2. UNCHANGED <<heap, call>> /\ Placement /\ HoldsPlaced(t)
  BY <1>1 DEF ActsFor, PlacementInv
<1>3. Placement'
  <2> SUFFICES ASSUME NEW l \in Location, hash_table'[l].real # NULL
               PROVE  Examined(heap[hash_table'[l].real], l[1])
    BY <1>2 DEF Placement
  <2>1. CASE hash_table'[l].real \in {hash_table[l].real, NULL}
    BY <1>2, <2>1 DEF Placement
  <2>2. CASE pc[t] = "ins_cas" /\ l = Probed(t) /\ hash_table'[l].real = ins[t].entry
    <3>1. call[t].key \in Key
      BY <2>2, FrameTypes DEF CallOK
    <3>2. l[1] \in {hash1(call[t].key), hash2(call[t].key)}
      BY <2>2 DEF Probed
    <3>3. heap[ins[t].entry] = md5_fingerprint[call[t].key]
      BY <1>2, <2>2 DEF HoldsPlaced, fingerprint
    <3> QED BY <2>2, <3>1, <3>2, <3>3 DEF Examined
  <2>3. CASE /\ pc[t] \in CoveredHelp /\ l = HlpDest(t)
             /\ hash_table'[l].real = hlp[t].ptr1.real
    <3> DEFINE f == heap[hlp[t].ptr1.real]
    <3>1. f \in Fingerprint /\ hlp[t].idx \in Bucket
      BY <2>3, FrameTypes, AliveFingerprint
      DEF HlpOK, HlpFrame, table_pointer, AddressOrNull, CoveredHelp
    <3>2. l[1] = get_next_hash_index(hlp[t].idx, f)
      BY <2>3 DEF HlpDest
    <3>3. Examined(f, hlp[t].idx)
      BY <1>2, <2>3 DEF HoldsPlaced
    <3> QED BY <2>3, <3>1, <3>2, <3>3, OtherBucket
  <2> QED BY <1>1, <2>1, <2>2, <2>3 DEF StoresOf
<1>4. ASSUME NEW u \in Thread \ {t} PROVE HoldsPlaced(u)'
  <2>1. Untouched(u) /\ HoldsPlaced(u)
    BY <1>1 DEF ActsFor, PlacementInv
  <2> QED BY <1>2, <2>1 DEF Untouched, HoldsPlaced, fingerprint
<1>5. HoldsPlaced(t)'
  <2>1. ins'[t].entry # NULL => heap'[ins'[t].entry] = fingerprint(t)'
    BY <1>1, <1>2 DEF ActsFor, HoldsPlaced, fingerprint
  <2>2. ASSUME hlp'[t].ptr1.real # NULL
        PROVE  Examined(heap[hlp'[t].ptr1.real], hlp'[t].idx)
    <3>1. CASE hlp'[t].ptr1 = hlp[t].ptr1 /\ hlp'[t].idx = hlp[t].idx
      BY <1>2, <2>2, <3>1 DEF HoldsPlaced
    <3>2. CASE /\ hlp'[t].ptr1 = hash_table[HlpSource(t)] /\ hlp'[t].idx = hlp[t].idx
               /\ pc[t] = "hlp_load"
      <4>1. HlpSource(t) \in Location /\ HlpSource(t)[1] = hlp[t].idx
        BY <3>2, HelpLocations DEF HelpLabels, HlpSource
      <4> QED BY <1>2, <2>2, <3>2, <4>1 DEF Placement
    <3> QED BY <1>1, <2>2, <3>1, <3>2 DEF HelpFrameOf
  <2> QED BY <1>2, <2>1, <2>2 DEF HoldsPlaced
<1> QED BY <1>3, <1>4, <1>5 DEF PlacementInv

LEMMA NextPlacement == Involutive /\ IInv /\ PlacementInv /\ [Next]_vars => PlacementInv'
<1> SUFFICES ASSUME Involutive, IInv, PlacementInv, [Next]_vars PROVE PlacementInv'
  OBVIOUS
<1>1. ASSUME NEW t \in Thread, NewCall(t) PROVE PlacementInv'
  <2>1. /\ pc[t] = "idle" /\ UNCHANGED <<hash_table, hlp>>
        /\ \A u \in Thread \ {t} : Untouched(u)
        /\ \A a \in AddressOrNull : a # NULL /\ Alive(a) => heap'[a] = heap[a]
        /\ ins'[t].entry # NULL => heap'[ins'[t].entry] = fingerprint(t)'
    BY <1>1, NewCallActs
  <2>2. Placement'
    BY <2>1, ReadTypes DEF Placement, PlacementInv
  <2>3. HoldsPlaced(t)'
    BY <2>1, IdleFrames DEF HoldsPlaced
  <2>4. ASSUME NEW u \in Thread \ {t} PROVE HoldsPlaced(u)'
    <3>1. /\ ins[u].entry \in AddressOrNull /\ Alive(ins[u].entry)
          /\ hlp[u].ptr1.real \in AddressOrNull /\ Alive(hlp[u].ptr1.real)
      BY FrameTypes DEF InsFrame, HlpFrame, table_pointer, AddressOrNull, InsOK, HlpOK
    <3> QED BY <2>1, <3>1 DEF Untouched, HoldsPlaced, fingerprint, PlacementInv
  <2> QED BY <2>2, <2>3, <2>4 DEF PlacementInv
<1>2. CASE Reset \/ Destroy
  BY <1>2, DeleteAllActs DEF PlacementInv, Placement, HoldsPlaced
<1>3. CASE UNCHANGED vars
  BY <1>3 DEF vars, shared, others, callers, calls, PlacementInv, Placement, HoldsPlaced,
     fingerprint
<1> QED BY <1>1, <1>2, <1>3, StepPlacement DEF Next, Halted

LEMMA InitPlacement == Init => PlacementInv
<1> SUFFICES ASSUME Init PROVE PlacementInv
  OBVIOUS
<1>1. Placement
  BY FilterAssumption DEF Init, AtRest, Placement
<1>2. \A t \in Thread : HoldsPlaced(t)
  BY NoFrameTypes DEF Init, HoldsPlaced
<1> QED BY <1>1, <1>2 DEF PlacementInv

(* If hashing is an involution no interleaving of inserts, relocations, helpers
   and removals takes an entry out of the two buckets of its key. *)
THEOREM EntriesInPlace == ASSUME Involutive PROVE Spec => []Placement
<1>1. IInv /\ PlacementInv /\ [Next]_vars => PlacementInv'
  BY NextPlacement
<1>2. PlacementInv => Placement
  BY DEF PlacementInv
<1> QED BY <1>1, <1>2, InitPlacement, Invariance, PTL DEF Spec
-----------------------------------------------------------------------------
(***************************************************************************)
(* Hazard pointers                                                         *)
(***************************************************************************)
(* find hands to remove an entry it has announced. *)
LEMMA RemoveAnnounced ==
  ASSUME IInv, NEW t \in Thread, Step(t), pc'[t] = "rem_cas"
  PROVE  \/ \E j \in HazardIndex : hazard_ptrs'[t][j] = rem'[t].ptr1.real
         \/ pc[t] = "rem_cas" /\ UNCHANGED <<hazard_ptrs, rem>>
<1>1. /\ pc \in [Thread -> Label] /\ rem \in [Thread -> RemFrame] /\ hlp \in [Thread -> HlpFrame]
      /\ hazard_ptrs \in [Thread -> [HazardIndex -> AddressOrNull]] /\ HazardIndex = {0, 1}
  BY DEF IInv, TypeOK, HazardIndex
<1>2. ASSUME NEW location, NEW p, FindReturn(t, location, p)
      PROVE  rem'[t].ptr1 = p /\ location # NotFound
  BY <1>1, <1>2 DEF FindReturn, Return, Goto
<1>3. ASSUME NEW j \in {0, 1}, NEW b, NEW frame, NEW next \in {"fnd_second", "fnd_recheck1"},
             FirstRound(t, j, b, frame, next)
      PROVE  hazard_ptrs'[t][j] = rem'[t].ptr1.real
  <2> DEFINE p == fnd[t].ptr
  <2>1. MarkHazard(t, j, p.real) /\ FindReturn(t, fnd[t].slot + j * NUM_ITEMS_PER_ENTRY, p)
    BY <1>1, <1>3 DEF FirstRound, CallHelp, Goto
  <2>2. hazard_ptrs'[t][j] = p.real
    BY <1>1, <2>1 DEF MarkHazard
  <2> QED BY <1>2, <2>1, <2>2
<1>4. CASE FndHold1(t)
  BY <1>1, <1>3, <1>4 DEF FndHold1
<1>5. CASE FndHold2(t)
  BY <1>1, <1>3, <1>5 DEF FndHold2
<1>6. CASE FndFirst(t) \/ FndSecond(t) \/ FndRecheck1(t) \/ FndRecheck2(t)
  BY <1>1, <1>2, <1>6 DEF FndFirst, FndSecond, FndRecheck1, FndRecheck2, Goto
<1>7. CASE RemCas(t)
  BY <1>1, <1>7 DEF RemCas, RemRetry, Return, Goto
<1>8. CASE InsertStep(t)
  BY <1>1, <1>8 DEF InsertStep, InsRead, InsCas, InsKick, InsFail, NextProbe, Return, Goto
<1>9. CASE RelocateStep(t)
  BY <1>1, <1>9 DEF RelocateStep, RelProbe, RelHold1, RelReload, RelSrc, RelReloadSrc, RelDst,
     RelHold2, RelEnd, PathStep, SourceStep, RelReturn, CallHelp, Goto
<1>10. CASE HelpStep(t)
  <2>1. pc[t] \in HelpLabels
    BY <1>10 DEF HelpStep, HlpLoad, HlpHold1, HlpMark, HlpDst, HlpHold2, HlpCheck, HlpMove,
       HlpClear, HlpDone, HlpBusy, HelpLabels
  <2>2. hlp[t].ret # "rem_cas"
    BY <2>1, FrameTypes DEF HlpOK
  <2> QED BY <1>1, <1>10, <2>2 DEF HelpStep, HlpLoad, HlpHold1, HlpMark, HlpDst, HlpHold2,
       HlpCheck, HlpMove, HlpClear, HlpDone, HlpBusy, DestCas, Abort, HlpReturn, Goto
<1> QED BY <1>4, <1>5, <1>6, <1>7, <1>8, <1>9, <1>10 DEF Step, FindStep

Covered(t) ==
  /\ pc[t] \in CoveredHelp => hazard_ptrs[t][0] = hlp[t].ptr1.real
  /\ pc[t] = "rem_cas" => \E j \in HazardIndex : hazard_ptrs[t][j] = rem[t].ptr1.real

LEMMA HazardCoversAll == HazardCovers <=> \A t \in Thread : Covered(t)
BY DEF HazardCovers, Covered, CoveredHelp, HelpLabels

LEMMA NextCovered == IInv /\ HazardCovers /\ [Next]_vars => HazardCovers'
<1> SUFFICES ASSUME IInv, \A t \in Thread : Covered(t), [Next]_vars
             PROVE  \A t \in Thread : Covered(t)'
  BY HazardCoversAll DEF HazardCovers, Covered, CoveredHelp, HelpLabels
<1>1. ASSUME NEW t \in Thread, Step(t) PROVE \A u \in Thread : Covered(u)'
  <2>1. ActsFor(t) /\ HelpFrameOf(t)
    BY <1>1, StepActsFor, StepHelpFrame
  <2>2. ASSUME NEW u \in Thread \ {t} PROVE Covered(u)'
    BY <2>1 DEF ActsFor, Untouched, Covered
  <2>3. pc'[t] \in CoveredHelp => hazard_ptrs'[t][0] = hlp'[t].ptr1.real
    BY <2>1 DEF HelpFrameOf, Covered, CoveredHelp, HelpLabels
  <2>4. pc'[t] = "rem_cas" => \E j \in HazardIndex : hazard_ptrs'[t][j] = rem'[t].ptr1.real
    BY <1>1, RemoveAnnounced DEF Covered
  <2> QED BY <2>2, <2>3, <2>4 DEF Covered
<1>2. ASSUME NEW t \in Thread, NewCall(t) PROVE \A u \in Thread : Covered(u)'
  BY <1>2, NewCallActs DEF Covered, Untouched, CoveredHelp, HelpLabels
<1>3. CASE Reset \/ Destroy
  BY <1>3, DeleteAllActs DEF Covered, CoveredHelp, HelpLabels
<1>4. CASE UNCHANGED vars
  BY <1>4 DEF vars, shared, others, callers, calls, Covered
<1> QED BY <1>1, <1>2, <1>3, <1>4 DEF Next, Halted

LEMMA InitCovered == Init => HazardCovers
BY DEF Init, HazardCovers

(* Whatever help_relocate or remove is going to swap is among the hazard
   pointers of the thread, from its announcement to the swap. *)
THEOREM HazardsAlwaysCover == Spec => []HazardCovers
BY InitCovered, NextCovered, Invariance, PTL DEF Spec

-----------------------------------------------------------------------------
(***************************************************************************)
(* The end of the counters                                                 *)
(***************************************************************************)
(* The counters that help_relocate has read are those of slots, or of the past
   of slots, whose counters never go back. *)
ReadCounters(t) ==
  /\ hlp[t].ptr1.real # NULL => hlp[t].ptr1.counter <= hash_table[HlpSource(t)].counter
  /\ pc[t] \in {"hlp_hold2", "hlp_check", "hlp_move"} =>
       hlp[t].ptr2.counter <= hash_table[HlpDest(t)].counter

CounterInv == AbortsAtTheLimit /\ \A t \in Thread : ReadCounters(t)

(* A counter that does not fit follows one that is at the limit. *)
LEMMA AtTheLimit ==
  ASSUME NEW c \in Counter, NEW d \in Counter, c <= d, ~CounterFits(c + 1)
  PROVE  d = UINT16_MAX
BY TablePointerAssumption DEF CounterFits, Counter

LEMMA AbortCounters ==
  ASSUME IInv, NEW t \in Thread, ReadCounters(t), Step(t), status' # status
  PROVE  AbortsAtTheLimit'
<1>1. CASE HlpMove(t)
  <2>1. /\ ~CounterFits(MovedCounter(hlp[t].ptr1.counter, hlp[t].ptr2.counter))
        /\ UNCHANGED hash_table /\ pc[t] = "hlp_move"
    BY <1>1 DEF HlpMove, Abort
  <2>2. /\ hlp[t].ptr1.counter \in Counter /\ hlp[t].ptr2.counter \in Counter
        /\ hlp[t].ptr1.real # NULL
    BY <2>1, FrameTypes DEF HlpFrame, table_pointer, Counter, HlpOK, HelpLabels
  <2>3. HlpSource(t) \in Location /\ HlpDest(t) \in Location
    BY <2>1, HelpLocations DEF HelpLabels
  <2>4. \/ ~CounterFits(hlp[t].ptr1.counter + 1) \/ ~CounterFits(hlp[t].ptr2.counter + 1)
    BY <2>1 DEF MovedCounter
  <2>5. \E l \in Location : hash_table[l].counter = UINT16_MAX
    BY <2>1, <2>2, <2>3, <2>4, ReadTypes, AtTheLimit DEF ReadCounters
  <2> QED BY <2>1, <2>5 DEF AbortsAtTheLimit
<1>2. CASE HlpDone(t) \/ HlpBusy(t)
  <2>1. PICK w : DestCas(t, w) /\ w.counter = hlp[t].ptr1.counter + 1
    BY <1>2 DEF HlpDone, HlpBusy, Vacated, create_pointer
  <2>2. /\ ~CounterFits(hlp[t].ptr1.counter + 1) /\ UNCHANGED hash_table
        /\ pc[t] \in {"hlp_done", "hlp_busy"}
    BY <1>2, <2>1 DEF DestCas, Abort, HlpDone, HlpBusy
  <2>3. hlp[t].ptr1.counter \in Counter /\ hlp[t].ptr1.real # NULL
    BY <2>2, FrameTypes DEF HlpFrame, table_pointer, Counter, HlpOK, HelpLabels
  <2>4. HlpSource(t) \in Location
    BY <2>2, HelpLocations DEF HelpLabels
  <2>5. hash_table[HlpSource(t)].counter = UINT16_MAX
    BY <2>2, <2>3, <2>4, ReadTypes, AtTheLimit DEF ReadCounters
  <2> QED BY <2>2, <2>4, <2>5 DEF AbortsAtTheLimit
<1>3. CASE \/ HlpLoad(t) \/ HlpHold1(t) \/ HlpMark(t) \/ HlpDst(t) \/ HlpHold2(t)
           \/ HlpCheck(t) \/ HlpClear(t)
           \/ InsertStep(t) \/ FindStep(t) \/ RemCas(t) \/ RelocateStep(t)
  <2>1. UNCHANGED status
    BY <1>3 DEF HlpLoad, HlpHold1, HlpMark, HlpDst, HlpHold2, HlpCheck, HlpClear, InsertStep,
       InsRead, InsCas, InsKick, InsFail, FindStep, FndFirst, FndHold1, FndSecond, FndHold2,
       FndRecheck1, FndRecheck2, RemCas, RelocateStep, RelProbe, RelHold1, RelReload, RelSrc,
       RelReloadSrc, RelDst, RelHold2, RelEnd, shared, others
  <2> QED BY <2>1
<1> QED BY <1>1, <1>2, <1>3 DEF Step, HelpStep

LEMMA StepCounters ==
  ASSUME IInv, CounterInv, NEW t \in Thread, Step(t)
  PROVE  CounterInv'
<1>1. ActsFor(t) /\ HelpFrameOf(t) /\ UNCHANGED heap /\ status = "running"
  BY StepActsFor, StepHelpFrame DEF ActsFor, Step
<1>2. \A l \in Location : /\ hash_table[l].counter \in Counter
                          /\ hash_table'[l].counter \in Counter
                          /\ hash_table'[l].counter >= hash_table[l].counter
  BY StepMonotonic, StepInv, ReadTypes DEF IInv, TypeOK, table_pointer, Counter
<1>3. \A x, y, z \in Counter : x <= y /\ z >= y => x <= z
  BY TablePointerAssumption DEF Counter
<1>4. ASSUME NEW u \in Thread, hlp'[u].idx = hlp[u].idx, hlp'[u].slot = hlp[u].slot,
             hlp'[u].ptr1 = hlp[u].ptr1
      PROVE  HlpSource(u)' = HlpSource(u) /\ HlpDest(u)' = HlpDest(u)
  BY <1>1, <1>4 DEF HlpSource, HlpDest
<1>5. \A u \in Thread : /\ hlp[u].ptr1.counter \in Counter /\ hlp[u].ptr2.counter \in Counter
                        /\ hlp[u].ptr1.real # NULL => HlpSource(u) \in Location
                        /\ pc[u] \in CoveredHelp => HlpDest(u) \in Location
  BY FrameTypes, HelpLocations DEF HlpFrame, table_pointer, Counter, HlpOK, HelpLabels, CoveredHelp
<1>6. ASSUME NEW u \in Thread \ {t} PROVE ReadCounters(u)'
  <2>1. Untouched(u) /\ ReadCounters(u)
    BY <1>1 DEF ActsFor, CounterInv
  <2>2. HlpSource(u)' = HlpSource(u) /\ HlpDest(u)' = HlpDest(u)
    BY <1>4, <2>1 DEF Untouched
  <2>3. hlp[u].ptr1.real # NULL => hlp[u].ptr1.counter <= hash_table'[HlpSource(u)].counter
    BY <1>2, <1>3, <1>5, <2>1 DEF ReadCounters
  <2>4. pc[u] \in {"hlp_hold2", "hlp_check", "hlp_move"} =>
          hlp[u].ptr2.counter <= hash_table'[HlpDest(u)].counter
    BY <1>2, <1>3, <1>5, <2>1 DEF ReadCounters, CoveredHelp, HelpLabels
  <2> QED BY <2>1, <2>2, <2>3, <2>4 DEF Untouched, ReadCounters
<1>7. ReadCounters(t)'
  <2>1. CASE pc'[t] \notin HelpLabels \ {"hlp_load"} /\ hlp'[t].ptr1.real = NULL
    BY <2>1 DEF ReadCounters, HelpLabels
  <2>2. CASE /\ pc[t] \in HelpLabels \ {"hlp_load", "hlp_mark"}
             /\ hlp'[t].idx = hlp[t].idx /\ hlp'[t].slot = hlp[t].slot
             /\ hlp'[t].ptr1 = hlp[t].ptr1
             /\ pc[t] = "hlp_dst" => hlp'[t].ptr2 = hash_table[HlpDest(t)]
             /\ pc[t] # "hlp_dst" => hlp'[t].ptr2 = hlp[t].ptr2
             /\ pc[t] = "hlp_hold1" => pc'[t] \in {"hlp_mark", "hlp_dst"}
             /\ pc'[t] = "hlp_hold2" => pc[t] = "hlp_dst"
             /\ pc'[t] = "hlp_check" => pc[t] = "hlp_hold2"
             /\ pc'[t] = "hlp_move" => pc[t] \in {"hlp_check", "hlp_move"}
    <3>1. HlpSource(t)' = HlpSource(t) /\ HlpDest(t)' = HlpDest(t) /\ ReadCounters(t)
      BY <1>4, <2>2 DEF CounterInv
    <3>2. hlp[t].ptr1.real # NULL => hlp[t].ptr1.counter <= hash_table'[HlpSource(t)].counter
      BY <1>2, <1>3, <1>5, <3>1 DEF ReadCounters
    <3>3. CASE pc[t] = "hlp_dst"
      <4>1. hlp'[t].ptr2.counter <= hash_table'[HlpDest(t)].counter
        BY <1>2, <1>5, <2>2, <3>1, <3>3, TablePointerAssumption DEF Counter, CoveredHelp, HelpLabels
      <4> QED BY <2>2, <3>1, <3>2, <4>1 DEF ReadCounters
    <3>4. CASE pc[t] # "hlp_dst"
      <4>1. pc'[t] \in {"hlp_hold2", "hlp_check", "hlp_move"} =>
              hlp[t].ptr2.counter <= hash_table'[HlpDest(t)].counter
        BY <1>2, <1>3, <1>5, <2>2, <3>1, <3>4 DEF ReadCounters, CoveredHelp, HelpLabels
      <4> QED BY <2>2, <3>1, <3>2, <3>4, <4>1 DEF ReadCounters
    <3> QED BY <3>3, <3>4
  <2>3. CASE /\ pc[t] = "hlp_load" /\ pc'[t] = "hlp_hold1"
             /\ hlp'[t].idx = hlp[t].idx /\ hlp'[t].slot = hlp[t].slot
             /\ hlp'[t].ptr1 = hash_table[HlpSource(t)] /\ UNCHANGED hash_table
    <3>1. HlpSource(t)' = HlpSource(t) /\ HlpSource(t) \in Location
      BY <2>3, HelpLocations DEF HlpSource, HelpLabels
    <3>2. hlp'[t].ptr1.counter <= hash_table'[HlpSource(t)].counter
      BY <1>2, <2>3, <3>1, TablePointerAssumption DEF Counter
    <3> QED BY <2>3, <3>1, <3>2 DEF ReadCounters
  <2> QED BY <1>1, <2>1, <2>2, <2>3 DEF HelpFrameOf, CoveredHelp
<1>8. AbortsAtTheLimit'
  <2>1. CASE status' # status
    BY <2>1, AbortCounters DEF CounterInv
  <2>2. CASE status' = status
    BY <1>1, <2>2 DEF AbortsAtTheLimit
  <2> QED BY <2>1, <2>2
<1> QED BY <1>6, <1>7, <1>8 DEF CounterInv

LEMMA NextCounters == IInv /\ CounterInv /\ [Next]_vars => CounterInv'
<1> SUFFICES ASSUME IInv, CounterInv, [Next]_vars PROVE CounterInv'
  OBVIOUS
<1>1. ASSUME NEW t \in Thread, status = "running", NewCall(t) PROVE CounterInv'
  <2>1. /\ pc[t] = "idle" /\ pc'[t] \in {"ins_read", "fnd_first"}
        /\ UNCHANGED <<hash_table, status, hlp>>
        /\ \A u \in Thread \ {t} : Untouched(u)
        /\ \A a \in AddressOrNull : a # NULL /\ Alive(a) => heap'[a] = heap[a]
    BY <1>1, NewCallActs
  <2>2. ASSUME NEW u \in Thread \ {t} PROVE ReadCounters(u)'
    <3>1. hlp[u].ptr1.real \in AddressOrNull /\ Alive(hlp[u].ptr1.real)
          /\ (pc[u] \in {"hlp_hold2", "hlp_check", "hlp_move"} => hlp[u].ptr1.real # NULL)
      BY FrameTypes DEF HlpFrame, table_pointer, AddressOrNull, HlpOK, HelpLabels
    <3>2. hlp[u].ptr1.real # NULL => HlpDest(u)' = HlpDest(u)
      BY <2>1, <3>1 DEF HlpDest
    <3>3. HlpSource(u)' = HlpSource(u) /\ ReadCounters(u) /\ pc'[u] = pc[u]
      BY <2>1 DEF HlpSource, CounterInv, Untouched
    <3> QED BY <2>1, <3>1, <3>2, <3>3 DEF ReadCounters
  <2>3. ReadCounters(t)'
    BY <2>1, IdleFrames DEF ReadCounters
  <2>4. AbortsAtTheLimit'
    BY <1>1, <2>1 DEF AbortsAtTheLimit
  <2> QED BY <2>2, <2>3, <2>4 DEF CounterInv
<1>2. CASE status = "running" /\ (Reset \/ Destroy)
  <2>1. \A t \in Thread : pc'[t] = "idle" /\ hlp'[t].ptr1.real = NULL
    BY <1>2, DeleteAllActs
  <2>2. status' # "aborted"
    BY <1>2, DeleteAllActs
  <2> QED BY <2>1, <2>2 DEF CounterInv, ReadCounters, AbortsAtTheLimit
<1>3. CASE UNCHANGED vars
  BY <1>3 DEF vars, shared, others, callers, calls, CounterInv, ReadCounters, AbortsAtTheLimit,
     HlpSource, HlpDest
<1> QED BY <1>1, <1>2, <1>3, StepCounters DEF Next, Halted

LEMMA InitCounters == Init => CounterInv
BY NoFrameTypes DEF Init, CounterInv, ReadCounters, AbortsAtTheLimit

(* create_pointer aborts the process only when a slot has used up its counter,
   for any width of the counter: the counters a late helper holds are never
   ahead of the table. *)
THEOREM OnlyAbortsAtTheLimit == Spec => []AbortsAtTheLimit
<1>1. CounterInv => AbortsAtTheLimit
  BY DEF CounterInv
<1> QED BY <1>1, InitCounters, NextCounters, Invariance, PTL DEF Spec

-----------------------------------------------------------------------------
(***************************************************************************)
(* Table words: packing and unpacking lose nothing, for every width of the *)
(* counter and of the address.                                             *)
(***************************************************************************)
(* Quotient and remainder of a number in two digits. *)
LEMMA TwoDigits ==
  ASSUME NEW S \in Nat \ {0}, NEW q \in Nat, NEW r \in 0 .. S - 1
  PROVE  (q * S + r) \div S = q /\ (q * S + r) % S = r
  OBVIOUS

LEMMA Parity ==
  ASSUME NEW x \in Nat, NEW m \in 0 .. 1
  PROVE  (2 * x + m) % 2 = m
  OBVIOUS

LEMMA Half ==
  ASSUME NEW x \in Nat, x % 2 = 0
  PROVE  \E h \in Nat : x = 2 * h
<1>1. x \div 2 \in Nat /\ x = 2 * (x \div 2)
  OBVIOUS
<1> QED BY <1>1

(* The three fields of a word do not overlap: the span is even and so is the
   address, so the mark fits below the counter. *)
LEMMA Fields ==
  ASSUME NEW c \in Nat, NEW a \in AddressOrNull, NEW m \in 0 .. 1
  PROVE  LET w == c * PointerSpan + address_of[a] + m IN
         /\ w \in Nat
         /\ w \div PointerSpan = c
         /\ w % PointerSpan = address_of[a] + m
         /\ w % 2 = m
<1> DEFINE S == PointerSpan
           d == address_of[a]
<1>1. S \in Nat \ {0} /\ S % 2 = 0 /\ d \in 0 .. S - 1 /\ d % 2 = 0
  BY AddressAssumption
<1>2. PICK h \in Nat : S = 2 * h
  BY <1>1, Half
<1>3. PICK k \in Nat : d = 2 * k
  BY <1>1, Half
<1>4. d + m \in 0 .. S - 1
  BY <1>1, <1>2, <1>3
<1>5. c * S \in Nat /\ c * S = 2 * (c * h) /\ c * h \in Nat
  BY <1>1, <1>2
<1>6. (c * S + (d + m)) \div S = c /\ (c * S + (d + m)) % S = d + m
  BY <1>1, <1>4, TwoDigits
<1>7. c * S + d + m = 2 * (c * h + k) + m /\ c * h + k \in Nat
  BY <1>3, <1>5
<1>8. (c * S + d + m) % 2 = m
  BY <1>7, Parity
<1>9. c * S + d + m = c * S + (d + m) /\ c * S + d + m \in Nat
  BY <1>1, <1>5
<1> QED BY <1>6, <1>8, <1>9

(* A table pointer is packed into a word and unpacked again. *)
LEMMA Unpacked ==
  ASSUME NEW p \in table_pointer
  PROVE  LET w == word_of(p) IN
         /\ w \in Machine!Word
         /\ Machine!get_counter(w) = p.counter
         /\ Machine!get_real_pointer(w) = address_of[p.real]
         /\ Machine!get_marked(w) = p.marked
         /\ w % PointerSpan = address_of[p.real] + Machine!MarkBit(p.marked)
         /\ w % 2 = Machine!MarkBit(p.marked)
<1> DEFINE w == word_of(p)
           d == address_of[p.real]
           m == Machine!MarkBit(p.marked)
<1>1. /\ p.counter \in 0 .. UINT16_MAX /\ p.counter \in Nat
      /\ p.real \in AddressOrNull /\ p.marked \in BOOLEAN /\ UINT16_MAX \in Nat
  BY TablePointerAssumption DEF table_pointer, AddressOrNull
<1>2. m \in 0 .. 1 /\ (p.marked <=> m = 1)
  BY <1>1 DEF Machine!MarkBit
<1>3. w = p.counter * PointerSpan + d + m
  BY DEF word_of, Machine!create_pointer
<1>4. /\ w \in Nat /\ w \div PointerSpan = p.counter
      /\ w % PointerSpan = d + m /\ w % 2 = m
  BY <1>1, <1>2, <1>3, Fields
<1>5. w \in Machine!Word
  <2> DEFINE S == PointerSpan
             c == p.counter
             U == UINT16_MAX
  <2>1. S \in Nat \ {0} /\ c \in 0 .. U /\ U \in Nat /\ d + m \in 0 .. S - 1
    <3>1. (w % PointerSpan) \in 0 .. PointerSpan - 1
      BY <1>4, AddressAssumption
    <3> QED BY <1>1, <1>4, <3>1, AddressAssumption
  <2>2. c * S <= U * S
    <3>1. (U - c) * S >= 0 /\ (U - c) * S = U * S - c * S
      BY <2>1
    <3> QED BY <2>1, <3>1
  <2>3. (U + 1) * S = U * S + S /\ U * S \in Nat /\ c * S \in Nat
    BY <2>1
  <2>4. w = c * S + d + m /\ d \in Nat
    BY <1>1, <1>3, AddressAssumption
  <2>5. w <= (U + 1) * S - 1
    BY <1>2, <2>1, <2>2, <2>3, <2>4
  <2> QED BY <1>4, <2>3, <2>5, <2>1 DEF Machine!Word
<1>6. Machine!get_real_pointer(w) = d
  <2>1. d \in Nat
    BY <1>1, AddressAssumption
  <2> QED BY <1>2, <1>4, <2>1 DEF Machine!get_real_pointer
<1>7. Machine!get_marked(w) = p.marked
  <2>1. Machine!get_marked(w) <=> m = 1
    BY <1>4 DEF Machine!get_marked
  <2>2. Machine!get_marked(w) \in BOOLEAN
    BY DEF Machine!get_marked
  <2> QED BY <1>1, <1>2, <2>1, <2>2
<1> QED BY <1>4, <1>5, <1>6, <1>7 DEF Machine!get_counter

(* Two words are the same number exactly when all three fields agree. *)
LEMMA Packed ==
  ASSUME NEW p \in table_pointer, NEW q \in table_pointer
  PROVE  word_of(p) = word_of(q) <=> p = q
<1> SUFFICES ASSUME word_of(p) = word_of(q) PROVE p = q
  OBVIOUS
<1>1. /\ p.counter = q.counter /\ p.marked = q.marked
      /\ address_of[p.real] = address_of[q.real]
  BY Unpacked
<1>2. p.real \in AddressOrNull /\ q.real \in AddressOrNull
  BY DEF table_pointer, AddressOrNull
<1>3. p.real = q.real
  BY <1>1, <1>2, AddressAssumption
<1> QED BY <1>1, <1>3 DEF table_pointer

(* Setting one field of a word leaves the other two alone. *)
LEMMA Updated ==
  ASSUME NEW p \in table_pointer, NEW q \in table_pointer
  PROVE  LET w == word_of(p) IN
         /\ Machine!get_new_mark(w, TRUE) = word_of(get_new_mark(p, TRUE))
         /\ Machine!get_new_counter(w, q.counter)
              = word_of(create_pointer(q.counter, p.real, p.marked))
         /\ Machine!get_new_real_pointer(w, address_of[q.real])
              = word_of(create_pointer(p.counter, q.real, p.marked))
<1> DEFINE w == word_of(p)
           m == Machine!MarkBit(p.marked)
<1>1. /\ p.counter * PointerSpan \in Nat /\ q.counter * PointerSpan \in Nat
      /\ address_of[p.real] \in Nat /\ address_of[q.real] \in Nat /\ m \in Nat
  <2>1. /\ p.counter \in Nat /\ q.counter \in Nat
        /\ p.real \in AddressOrNull /\ q.real \in AddressOrNull
    BY TablePointerAssumption DEF table_pointer, AddressOrNull
  <2>2. PointerSpan \in Nat
    BY AddressAssumption
  <2>3. address_of[p.real] \in Nat /\ address_of[q.real] \in Nat
    BY <2>1, AddressAssumption
  <2> QED BY <2>1, <2>2, <2>3 DEF Machine!MarkBit
<1>2. w = p.counter * PointerSpan + address_of[p.real] + m
  BY DEF word_of, Machine!create_pointer
<1>3. w % 2 = m /\ w % PointerSpan = address_of[p.real] + m
      /\ Machine!get_real_pointer(w) = address_of[p.real]
  BY Unpacked
<1>4. Machine!get_new_mark(w, TRUE) = word_of(get_new_mark(p, TRUE))
  <2>1. word_of(get_new_mark(p, TRUE))
          = p.counter * PointerSpan + address_of[p.real] + Machine!MarkBit(TRUE)
    BY DEF word_of, Machine!create_pointer, get_new_mark, table_pointer
  <2>2. Machine!get_new_mark(w, TRUE) = (w - m) + Machine!MarkBit(TRUE)
    BY <1>3 DEF Machine!get_new_mark
  <2> HIDE DEF w, m
  <2>3. w - m = p.counter * PointerSpan + address_of[p.real]
    BY <1>1, <1>2
  <2> QED BY <2>1, <2>2, <2>3
<1>5. Machine!get_new_counter(w, q.counter)
        = word_of(create_pointer(q.counter, p.real, p.marked))
  BY <1>1, <1>3 DEF word_of, create_pointer, Machine!create_pointer, Machine!get_new_counter
<1>6. Machine!get_new_real_pointer(w, address_of[q.real])
        = word_of(create_pointer(p.counter, q.real, p.marked))
  BY <1>1, <1>2, <1>3 DEF word_of, create_pointer, Machine!create_pointer,
     Machine!get_new_real_pointer
<1> QED BY <1>4, <1>5, <1>6

(* Whatever the threads do, the words they read, compare and store mean the
   records of the model: the mark bit and the counter of pointer_utils.h never
   reach into the address, and a compare-and-swap cannot take one word for
   another. *)
THEOREM WordsAlwaysFaithful == Spec => []WordsFaithful
<1>1. IInv => WordsFaithful
  <2> SUFFICES ASSUME IInv PROVE WordsFaithful
    OBVIOUS
  <2>1. WordsInUse \subseteq table_pointer
    BY DEF WordsInUse, IInv, TypeOK, InsFrame, FndFrame, RemFrame, RelFrame, HlpFrame
  <2> QED BY <2>1, Unpacked, Packed, Updated DEF WordsFaithful
<1> QED BY <1>1, Invariance, PTL
=============================================================================
