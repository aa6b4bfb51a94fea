------------------------------ MODULE BagProofs ------------------------------
(***************************************************************************)
(* Theorems about LockFreeFilter as long as no helper brings back an entry *)
(* that remove has retired: it is a bag with atomic operations.            *)
(***************************************************************************)
EXTENDS BagInvariant, MoveProofs, FiniteSetTheorems

(***************************************************************************)
(* What a step does to the answers and to the entries in hand              *)
(***************************************************************************)
(* The entry that counts as an item in the bag. *)
Live == Stored \ Retired

Answers(t, value) == result' = [result EXCEPT ![t] = value] /\ pc'[t] = "idle"

(* The word p is of an item of the key that t searches for. *)
Match(t, p) == p.real # NULL /\ ~p.marked /\ heap[p.real] = fingerprint(t)

(* Where a find has read what it is asked for, if it has. *)
Sights == {"fnd_hold1", "fnd_hold2"}

(* The operation goes on: it swaps at most for a move. *)
GoesOn(t) ==
  /\ UNCHANGED <<result, retired_ptrs, leaked>>
  /\ pc'[t] # "idle" /\ ins'[t].entry = ins[t].entry
  /\ pc[t] \in {"ins_cas", "rem_cas"} => UNCHANGED hash_table
  /\ rem'[t].ptr1.real # NULL => call[t].op = "remove" /\ Match(t, rem'[t].ptr1)
  /\ ~Seen(t) /\ ~Seen(t)'

(* find reads the word of an item of its key. *)
Spots(t) ==
  /\ UNCHANGED <<hash_table, result, retired_ptrs, leaked>>
  /\ pc'[t] # "idle" /\ ins'[t].entry = ins[t].entry /\ rem'[t].ptr1.real = NULL
  /\ ~Seen(t) /\ Seen(t)'
  /\ \E l \in Location : fnd'[t].ptr = hash_table[l]

Sees(t) ==
  /\ Seen(t) /\ Answers(t, "true")
  /\ UNCHANGED <<hash_table, retired_ptrs, leaked>>

Overlooks(t) ==
  /\ call[t].op \in {"find", "remove"} /\ ~Seen(t) /\ Answers(t, "false")
  /\ UNCHANGED <<hash_table, retired_ptrs, leaked>>

Puts(t) ==
  /\ pc[t] = "ins_cas" /\ Answers(t, "true")
  /\ hash_table'[Probed(t)].real = ins[t].entry
  /\ UNCHANGED <<retired_ptrs, leaked>>

Drops(t) ==
  /\ pc[t] = "ins_kick" /\ Answers(t, "false")
  /\ leaked' = leaked \cup {ins[t].entry}
  /\ UNCHANGED <<hash_table, retired_ptrs>>

TakesOut(t) ==
  /\ pc[t] = "rem_cas" /\ Answers(t, "true")
  /\ hash_table[RemLocation(t)] = rem[t].ptr1
  /\ retired_ptrs' = [retired_ptrs EXCEPT ![t] = Append(@, rem[t].ptr1.real)]
  /\ Retired' = Retired \cup {rem[t].ptr1.real}
  /\ UNCHANGED leaked

(* After an answer the frames of the call are empty. *)
Outcome(t) ==
  \/ GoesOn(t) \/ Spots(t)
  \/ /\ Sees(t) \/ Overlooks(t) \/ Puts(t) \/ Drops(t) \/ TakesOut(t)
     /\ ins'[t].entry = NULL /\ rem'[t].ptr1.real = NULL

LEMMA ReturnAnswers ==
  ASSUME IInv, NEW t \in Thread, NEW v, Return(t, v)
  PROVE  Answers(t, v) /\ ins'[t].entry = NULL /\ rem'[t].ptr1.real = NULL
<1>1. /\ pc \in [Thread -> Label] /\ ins \in [Thread -> InsFrame] /\ rem \in [Thread -> RemFrame]
      /\ NoIns.entry = NULL /\ NoRem.ptr1.real = NULL
  BY DEF IInv, TypeOK, NoIns, NoRem, empty_slot, create_pointer
<1> QED BY <1>1 DEF Return, Goto, Answers

(* What find has found is in a slot that is not marked. *)
LEMMA FindOutcome ==
  ASSUME IInv, NEW t \in Thread, pc[t] \in InFind \ {"rem_cas"},
         NEW location, NEW p \in table_pointer, FindReturn(t, location, p),
         location # NotFound => Match(t, p) /\ pc[t] \in Sights /\ p = fnd[t].ptr,
         location = NotFound => pc[t] \notin Sights, UNCHANGED shared
  PROVE  Outcome(t)
<1>1. call[t].op \in Op /\ ins[t].entry = NULL
  BY FrameTypes DEF CallOK, InsOK, Where, InInsert, InFind, HelpLabels
<1>2. UNCHANGED <<hash_table, retired_ptrs, leaked>>
  BY DEF shared, others
<1>3. CASE call[t].op = "find" /\ Return(t, IF location = NotFound THEN "false" ELSE "true")
  <2>1. location # NotFound <=> Seen(t)
    BY <1>3 DEF Seen, Match, Sights
  <2> QED BY <1>2, <1>3, <2>1, ReturnAnswers DEF Outcome, Sees, Overlooks
<1>4. CASE call[t].op = "remove" /\ Return(t, "false")
  BY <1>2, <1>4, ReturnAnswers DEF Outcome, Overlooks, Seen
<1>5. CASE /\ call[t].op = "remove" /\ location # NotFound
           /\ rem' = [rem EXCEPT ![t] = [location |-> location, ptr1 |-> p]]
           /\ Goto(t, "rem_cas") /\ UNCHANGED <<calls, ins>>
  <2>1. rem'[t].ptr1 = p /\ pc'[t] = "rem_cas"
    BY <1>5 DEF Goto, IInv, TypeOK
  <2>2. ~Seen(t) /\ ~Seen(t)'
    BY <1>5, <2>1 DEF Seen
  <2> QED BY <1>2, <1>5, <2>1, <2>2 DEF Outcome, GoesOn, calls
<1> QED BY <1>3, <1>4, <1>5 DEF FindReturn

(* What find does with a word it has loaded. *)
LEMMA FirstRoundOutcome ==
  ASSUME IInv, NEW t \in Thread, pc[t] \in Sights,
         NEW j \in {0, 1}, NEW b, NEW frame,
         NEW next \in {"fnd_second", "fnd_recheck1"},
         FirstRound(t, j, b, frame, next), UNCHANGED shared
  PROVE  Outcome(t)
<1> DEFINE p == fnd[t].ptr
<1>1. pc[t] \in InFind \ {"rem_cas"} /\ p \in table_pointer /\ fnd[t].slot \in Slot
  BY DEF Sights, InFind, IInv, TypeOK, FndFrame
<1>2. rem[t].ptr1.real = NULL
  BY FrameTypes DEF RemOK, Sights
<1>3. ASSUME pc'[t] \notin {"idle"} \cup Sights, UNCHANGED <<result, ins, rem>>, ~Match(t, p)
      PROVE  Outcome(t)
  BY <1>2, <1>3 DEF Outcome, GoesOn, shared, others, Seen, Match, Sights
<1>4. CASE /\ p.marked
           /\ CallHelp(t, b, fnd[t].slot, FALSE, "fnd_first") /\ UNCHANGED <<calls, ins, rem>>
  <2>1. pc'[t] = "hlp_load"
    BY <1>4 DEF CallHelp, Goto, IInv, TypeOK
  <2> QED BY <1>3, <1>4, <2>1 DEF calls, Sights, Match
<1>5. CASE /\ ~p.marked /\ p.real # NULL /\ heap[p.real] = fingerprint(t)
           /\ FindReturn(t, fnd[t].slot + j * NUM_ITEMS_PER_ENTRY, p)
  <2>1. Match(t, p)
    BY <1>5 DEF Match
  <2>2. fnd[t].slot + j * NUM_ITEMS_PER_ENTRY # NotFound
    BY <1>1, PartialKeyAssumption DEF Slot, NotFound
  <2> QED BY <1>1, <1>5, <2>1, <2>2, FindOutcome
<1>6. CASE /\ p.real = NULL \/ heap[p.real] # fingerprint(t)
           /\ Goto(t, next) /\ UNCHANGED <<calls, ins, rem>>
  <2>1. pc'[t] = next
    BY <1>6 DEF Goto, IInv, TypeOK
  <2> QED BY <1>3, <1>6, <2>1 DEF calls, Sights, Match
<1> QED BY <1>4, <1>5, <1>6 DEF FirstRound

(* find reads a word in l. *)
LEMMA LoadOutcome ==
  ASSUME IInv, NEW t \in Thread, pc[t] \in {"fnd_first", "fnd_second"},
         NEW l \in Location, fnd' = [fnd EXCEPT ![t].ptr = hash_table[l]],
         NEW next \in Sights, Goto(t, next), UNCHANGED <<shared, calls, ins, rem>>
  PROVE  Outcome(t)
<1>1. pc'[t] \in Sights /\ fnd'[t].ptr = hash_table[l] /\ rem[t].ptr1.real = NULL
  BY FrameTypes DEF Goto, IInv, TypeOK, FndFrame, RemOK
<1>2. ~Seen(t) /\ UNCHANGED <<hash_table, retired_ptrs, leaked, result>>
  BY DEF Seen, shared, others, calls
<1> QED BY <1>1, <1>2 DEF Outcome, GoesOn, Spots, Sights

(* An entry that remove has swapped out is retired, and no other is. *)
LEMMA RetireOne ==
  ASSUME IInv, NEW t \in Thread, NEW a \in Address,
         retired_ptrs' = [retired_ptrs EXCEPT ![t] = Append(@, a)]
  PROVE  Retired' = Retired \cup {a}
<1>1. retired_ptrs \in [Thread -> Seq(Address)]
  BY DEF IInv, TypeOK
<1>2. /\ retired_ptrs'[t] = Append(retired_ptrs[t], a)
      /\ \A u \in Thread \ {t} : retired_ptrs'[u] = retired_ptrs[u]
  BY <1>1
<1>3. Range(Append(retired_ptrs[t], a)) = Range(retired_ptrs[t]) \cup {a}
  <2>1. retired_ptrs[t] \in Seq(Address)
    BY <1>1
  <2>2. /\ DOMAIN Append(retired_ptrs[t], a) =
              DOMAIN retired_ptrs[t] \cup {Len(retired_ptrs[t]) + 1}
        /\ \A i \in DOMAIN retired_ptrs[t] : Append(retired_ptrs[t], a)[i] = retired_ptrs[t][i]
        /\ Append(retired_ptrs[t], a)[Len(retired_ptrs[t]) + 1] = a
    BY <2>1
  <2> QED BY <2>2 DEF Range
<1> QED BY <1>2, <1>3 DEF Retired

(* Every step of an operation goes on or ends it in one of these ways. *)
LEMMA StepOutcome == ASSUME IInv, NEW t \in Thread, Step(t) PROVE Outcome(t)
<1>1. /\ pc \in [Thread -> Label] /\ ins \in [Thread -> InsFrame] /\ rem \in [Thread -> RemFrame]
      /\ hash_table \in [Location -> table_pointer]
      /\ call[t].op \in Op \/ pc[t] = "idle"
      /\ pc[t] # "rem_cas" => rem[t].ptr1.real = NULL
  BY FrameTypes DEF IInv, TypeOK, CallOK, RemOK
<1>2. ASSUME pc'[t] \notin {"idle"} \cup Sights, pc[t] \notin {"rem_cas"} \cup Sights,
             UNCHANGED <<shared, calls, rem>>, ins'[t].entry = ins[t].entry
      PROVE  Outcome(t)
  BY <1>1, <1>2 DEF Outcome, GoesOn, shared, others, calls, Seen, Sights
<1>3. CASE InsertStep(t)
  <2>1. ASSUME NEW found, NextProbe(t, found) 
        PROVE  ins'[t].entry = ins[t].entry /\ pc'[t] \notin {"idle"} \cup Sights
    BY <1>1, <2>1 DEF NextProbe, Goto, Sights
  <2>2. CASE InsRead(t)
    <3>1. ASSUME NEW p, ins' = [ins EXCEPT ![t] = [@ EXCEPT !.ptr1 = p, !.found_empty = TRUE]]
          PROVE  ins'[t].entry = ins[t].entry
      BY <1>1, <3>1 DEF InsFrame
    <3>2. ins'[t].entry = ins[t].entry /\ pc'[t] \notin {"idle"} \cup Sights
      BY <1>1, <2>1, <2>2, <3>1 DEF InsRead, Goto, Sights
    <3> QED BY <1>2, <2>2, <3>2 DEF InsRead, Sights
  <2>3. CASE InsKick(t)
    <3>1. ins'[t].entry = ins[t].entry /\ pc'[t] \notin {"idle"} \cup Sights
      BY <1>1, <2>3 DEF InsKick, Goto, InsFrame, Sights
    <3> QED BY <1>2, <2>3, <3>1 DEF InsKick, Sights
  <2>4. CASE InsFail(t)
    BY <2>4, ReturnAnswers DEF InsFail, Outcome, Drops
  <2>5. CASE InsCas(t)
    <3>1. pc[t] = "ins_cas" /\ UNCHANGED <<retired_ptrs, leaked>> /\ Probed(t) \in Location
      BY <2>5, ProbedTypes DEF InsCas, others, InInsert
    <3>2. CASE NextProbe(t, TRUE) /\ UNCHANGED <<hash_table, calls, rem>>
      BY <1>1, <2>1, <3>1, <3>2 DEF Outcome, GoesOn, calls, Seen, Sights
    <3>3. CASE /\ Store(Probed(t), create_pointer(ins[t].ptr1.counter, ins[t].entry, FALSE))
               /\ Return(t, "true")
      <4>1. hash_table'[Probed(t)].real = ins[t].entry
        BY <1>1, <3>1, <3>3 DEF Store, create_pointer
      <4> QED BY <3>1, <3>3, <4>1, ReturnAnswers DEF Outcome, Puts
    <3> QED BY <2>5, <3>2, <3>3 DEF InsCas
  <2> QED BY <1>3, <2>2, <2>3, <2>4, <2>5 DEF InsertStep
<1>4. CASE FindStep(t)
  <2>1. UNCHANGED shared /\ pc[t] \in InFind \ {"rem_cas"}
    BY <1>4 DEF FindStep, FndFirst, FndHold1, FndSecond, FndHold2, FndRecheck1, FndRecheck2, InFind
  <2>2. FirstSlot(t) \in Location /\ SecondSlot(t) \in Location
    <3>1. hash1(call[t].key) \in Bucket /\ hash2(call[t].key) \in Bucket /\ fnd[t].slot \in Slot
      BY <2>1, FindingFrames
    <3> QED BY <3>1 DEF FirstSlot, SecondSlot, Location
  <2>3. CASE FndFirst(t) \/ FndSecond(t)
    BY <2>2, <2>3, LoadOutcome DEF FndFirst, FndSecond, Sights
  <2>4. CASE FndHold1(t) \/ FndHold2(t)
    BY <2>4, FirstRoundOutcome DEF FndHold1, FndHold2, Sights
  <2>5. CASE FndRecheck1(t)
    BY <1>1, <1>2, <2>5 DEF FndRecheck1, Goto, Sights
  <2>6. CASE FndRecheck2(t)
    <3>1. CASE Goto(t, "fnd_first") /\ UNCHANGED <<calls, ins, rem>>
      BY <1>1, <1>2, <2>1, <2>6, <3>1 DEF FndRecheck2, Goto, Sights
    <3>2. CASE FindReturn(t, NotFound, empty_slot)
      BY <2>1, <2>6, <3>2, EmptyTypes, FindOutcome DEF FndRecheck2, Sights
    <3> QED BY <2>6, <3>1, <3>2 DEF FndRecheck2
  <2> QED BY <1>4, <2>3, <2>4, <2>5, <2>6 DEF FindStep
<1>5. CASE RemCas(t)
  <2>1. pc[t] = "rem_cas" /\ UNCHANGED leaked
    BY <1>5 DEF RemCas
  <2>2. CASE /\ Holds(RemLocation(t), rem[t].ptr1) /\ retire_key(t, rem[t].ptr1)
             /\ Return(t, "true")
    <3>1. rem[t].ptr1.real \in Address
      BY <2>1, FrameTypes DEF RemOK, RemFrame, table_pointer
    <3>2. Retired' = Retired \cup {rem[t].ptr1.real}
      BY <2>2, <3>1, RetireOne DEF retire_key
    <3> QED BY <2>1, <2>2, <3>2, ReturnAnswers DEF Outcome, TakesOut, Holds, retire_key
  <2>3. CASE RemRetry(t) /\ UNCHANGED <<hash_table, retired_ptrs, calls, ins>>
    <3>1. pc'[t] = "fnd_first" /\ rem'[t].ptr1.real = NULL
      BY <1>1, <2>3, EmptyTypes DEF RemRetry, Goto, NoRem
    <3> QED BY <2>1, <2>3, <3>1 DEF Outcome, GoesOn, calls, Seen
  <2> QED BY <1>5, <2>2, <2>3 DEF RemCas
<1>6. CASE RelocateStep(t)
  <2>1. pc[t] \notin {"rem_cas"} \cup Sights /\ UNCHANGED <<shared, calls, rem>>
    BY <1>6 DEF RelocateStep, RelProbe, RelHold1, RelReload, RelSrc, RelReloadSrc, RelDst,
       RelHold2, RelEnd, Sights
  <2>2. pc'[t] \notin {"idle"} \cup Sights
    BY <1>1, <1>6 DEF RelocateStep, RelProbe, RelHold1, RelReload, RelSrc, RelReloadSrc, RelDst,
       RelHold2, RelEnd, PathStep, SourceStep, RelReturn, CallHelp, Goto, Sights
  <2>3. ASSUME NEW found, RelReturn(t, found) PROVE ins'[t].entry = ins[t].entry
    <3>1. [NoIns EXCEPT !.entry = ins[t].entry].entry = ins[t].entry
      BY DEF NoIns
    <3> QED BY <1>1, <2>3, <3>1 DEF RelReturn
  <2>4. ins'[t].entry = ins[t].entry
    BY <1>6, <2>3 DEF RelocateStep, RelProbe, RelHold1, RelReload, RelSrc, RelReloadSrc, RelDst,
       RelHold2, RelEnd, PathStep, SourceStep
  <2> QED BY <1>2, <2>1, <2>2, <2>4
<1>7. CASE HelpStep(t)
  <2>1. UNCHANGED <<retired_ptrs, leaked, callers>> /\ pc[t] \in HelpLabels
    BY <1>7 DEF HelpStep, HlpLoad, HlpHold1, HlpMark, HlpDst, HlpHold2, HlpCheck, HlpMove,
       HlpClear, HlpDone, HlpBusy, DestCas, shared, others, HelpLabels
  <2>2. hlp[t].ret \notin {"idle"} \cup Sights
    BY <2>1, FrameTypes DEF HlpOK, Sights
  <2>3. pc'[t] \notin {"idle"} \cup Sights
    BY <1>1, <1>7, <2>1, <2>2 DEF HelpStep, HlpLoad, HlpHold1, HlpMark, HlpDst, HlpHold2, HlpCheck,
       HlpMove, HlpClear, HlpDone, HlpBusy, DestCas, Abort, HlpReturn, Goto, HelpLabels, Sights
  <2> QED BY <1>1, <2>1, <2>3 DEF Outcome, GoesOn, callers, calls, HelpLabels, Seen, Sights
<1> QED BY <1>3, <1>4, <1>5, <1>6, <1>7 DEF Step

-----------------------------------------------------------------------------
(***************************************************************************)
(* The entries outside the table                                           *)
(***************************************************************************)
(* What a thread holds is an address. *)
LEMMA HandTypes ==
  ASSUME IInv, NEW t \in Thread
  PROVE  /\ ins[t].entry \in AddressOrNull /\ Alive(ins[t].entry)
         /\ rem[t].ptr1.real \in AddressOrNull /\ Alive(rem[t].ptr1.real)
         /\ hlp[t].ptr1.real \in AddressOrNull /\ Alive(hlp[t].ptr1.real)
         /\ NULL \notin Address
BY FrameTypes, TablePointerAssumption
   DEF InsFrame, RemFrame, HlpFrame, table_pointer, AddressOrNull, InsOK, RemOK, HlpOK

(* At most one entry more is out of use: the one that t had in hand, of an insert
   that fails or of a remove that has found it in a slot. *)
LEMMA StepOutOfUse ==
  ASSUME IInv, NEW t \in Thread, Outcome(t)
  PROVE  /\ leaked' \subseteq leaked \cup {ins[t].entry}
         /\ leaked' # leaked => UNCHANGED hash_table /\ ins[t].entry # NULL
         /\ \/ Retired' = Retired
            \/ /\ pc[t] = "rem_cas" /\ Retired' = Retired \cup {rem[t].ptr1.real}
               /\ rem[t].ptr1.real # NULL
               /\ \E l \in Location : hash_table[l].real = rem[t].ptr1.real
<1>1. UNCHANGED retired_ptrs => Retired' = Retired
  BY DEF Retired
<1>2. CASE TakesOut(t)
  <2>1. RemLocation(t) \in Location
    BY <1>2, RemLocationTypes DEF TakesOut
  <2>2. rem[t].ptr1.real # NULL
    BY <1>2, FrameTypes DEF TakesOut, RemOK
  <2> QED BY <1>2, <2>1, <2>2 DEF TakesOut
<1>3. CASE Drops(t)
  <2>1. ins[t].entry # NULL
    BY <1>3, FrameTypes DEF Drops, InsOK, Where, InInsert, HelpLabels
  <2> QED BY <1>1, <1>3, <2>1 DEF Drops
<1>4. CASE GoesOn(t) \/ Spots(t) \/ Sees(t) \/ Overlooks(t) \/ Puts(t)
  BY <1>1, <1>4 DEF GoesOn, Spots, Sees, Overlooks, Puts
<1> QED BY <1>2, <1>3, <1>4 DEF Outcome

(* Only a running call makes steps. *)
LEMMA StepIsActive == ASSUME IInv, NEW t \in Thread, Step(t) PROVE pc[t] # "idle"
BY DEF Step, InsertStep, InsRead, InsCas, InsKick, InsFail, FindStep, FndFirst, FndHold1,
   FndSecond, FndHold2, FndRecheck1, FndRecheck2, RemCas, RelocateStep, RelProbe, RelHold1,
   RelReload, RelSrc, RelReloadSrc, RelDst, RelHold2, RelEnd, HelpStep, HlpLoad, HlpHold1, HlpMark,
   HlpDst, HlpHold2, HlpCheck, HlpMove, HlpClear, HlpDone, HlpBusy

(* What t has in hand after a step. *)
LEMMA StepOwnHands ==
  ASSUME IInv, MoveInv, BagInv, NEW t \in Thread, Step(t), StepOf(t), Outcome(t)
  PROVE  HandsOK(t)'
<1>1. pc[t] # "idle" /\ UNCHANGED <<heap, call>> /\ fingerprint(t)' = fingerprint(t)
  BY StepIsActive, StepActsFor DEF ActsFor, fingerprint
<1>2. HandsOK(t) /\ result[t] = "none" /\ result \in [Thread -> {"none", "true", "false"}]
  BY <1>1 DEF BagInv, HandsOK, IInv, TypeOK
<1>3. IF pc'[t] = "idle" THEN result'[t] # "none" ELSE result'[t] = "none"
  BY <1>1, <1>2 DEF Outcome, GoesOn, Spots, Sees, Overlooks, Puts, Drops, TakesOut, Answers
<1>4. ins'[t].entry # NULL =>
        /\ ins'[t].entry = ins[t].entry /\ UNCHANGED <<retired_ptrs, leaked>> /\ Retired' = Retired
  BY DEF Outcome, GoesOn, Spots, Retired
<1>5. rem'[t].ptr1.real # NULL =>
        call[t].op = "remove" /\ heap[rem'[t].ptr1.real] = fingerprint(t)
  BY DEF Outcome, GoesOn, Spots, Match
<1>6. hlp'[t].ptr1.real \notin leaked'
  <2>1. \/ hlp'[t].ptr1.real = NULL
        \/ hlp'[t].ptr1.real = hlp[t].ptr1.real
        \/ \E l \in Location : hlp'[t].ptr1.real = hash_table[l].real
    <3>1. pc[t] = "hlp_load" => HlpSource(t) \in Location
      BY HelpLocations DEF HelpLabels
    <3> QED BY <3>1 DEF StepOf, HelpFrameOf
  <2>2. NULL \notin leaked'
    BY HandTypes, StepInv DEF IInv, TypeOK
  <2>3. leaked' \subseteq leaked \cup {ins[t].entry} /\ (leaked' # leaked => ins[t].entry # NULL)
    BY StepOutOfUse
  <2>4. /\ hlp[t].ptr1.real \notin leaked
        /\ \A l \in Location : hash_table[l].real \notin leaked
    BY <1>2 DEF BagInv, HandsOK
  <2>5. Fresh(t)
    BY DEF MoveInv, MoveOK
  <2> QED BY <2>1, <2>2, <2>3, <2>4, <2>5 DEF Fresh
<1> QED BY <1>1, <1>2, <1>3, <1>4, <1>5, <1>6 DEF HandsOK

(* What the others have in hand is not what t puts out of use. *)
LEMMA StepOtherHands ==
  ASSUME IInv, MoveInv, BagInv, NEW t \in Thread, Step(t), StepOf(t), Outcome(t),
         NEW u \in Thread \ {t}
  PROVE  HandsOK(u)'
<1>1. /\ UNCHANGED <<heap, call>> /\ fingerprint(u)' = fingerprint(u)
      /\ pc'[u] = pc[u] /\ ins'[u] = ins[u] /\ rem'[u] = rem[u] /\ hlp'[u] = hlp[u]
  BY StepActsFor DEF ActsFor, Untouched, fingerprint
<1>2. result'[u] = result[u]
  BY DEF Outcome, GoesOn, Spots, Sees, Overlooks, Puts, Drops, TakesOut, Answers, IInv, TypeOK
<1>3. HandsOK(u) /\ Fresh(u) /\ Fresh(t)
  BY DEF BagInv, MoveInv, MoveOK
<1>4. hlp[u].ptr1.real \notin leaked'
  BY <1>3, StepOutOfUse DEF HandsOK, Fresh
<1>5. ins[u].entry # NULL => ins[u].entry \notin Retired' \cup leaked'
  BY <1>3, StepOutOfUse DEF HandsOK, Fresh
<1> QED BY <1>1, <1>2, <1>3, <1>4, <1>5 DEF HandsOK

(* A step of an operation preserves the invariant. *)
LEMMA StepBagInv ==
  ASSUME Involutive, TwoBuckets, IInv, MoveInv, BagInv, NEW t \in Thread, Step(t)
  PROVE  BagInv'
<1>1. StepOf(t) /\ Outcome(t) /\ UNCHANGED heap
  BY StepIs, StepOutcome DEF StepOf
<1>2. (Retired \cup leaked \subseteq Allocated)'
  <2>1. /\ ins[t].entry # NULL => ins[t].entry \in Allocated
        /\ rem[t].ptr1.real # NULL => rem[t].ptr1.real \in Allocated
    BY HandTypes DEF Alive, AddressOrNull, Allocated
  <2>2. Allocated' = Allocated /\ Retired \cup leaked \subseteq Allocated
    BY <1>1 DEF Allocated, BagInv
  <2> QED BY <1>1, <2>1, <2>2, StepOutOfUse
<1>3. ASSUME NEW l \in Location PROVE hash_table'[l].real \notin leaked'
  <2>1. NULL \notin leaked'
    BY HandTypes, StepInv DEF IInv, TypeOK
  <2>2. leaked' \subseteq leaked \cup {ins[t].entry}
        /\ (leaked' # leaked => UNCHANGED hash_table /\ ins[t].entry # NULL)
    BY <1>1, StepOutOfUse
  <2>3. hash_table[l].real \notin leaked /\ HandsOK(t) /\ Fresh(t)
    BY DEF BagInv, MoveInv, MoveOK
  <2>4. CASE UNCHANGED hash_table
    BY <2>1, <2>2, <2>3, <2>4 DEF Fresh
  <2>5. CASE leaked' = leaked
    <3>1. \/ hash_table'[l].real \in {hash_table[l].real, NULL, hlp[t].ptr1.real}
          \/ pc[t] = "ins_cas" /\ hash_table'[l].real = ins[t].entry
      BY <1>1 DEF StepOf, StoresOf
    <3>2. pc[t] = "ins_cas" => ins[t].entry # NULL
      BY FrameTypes DEF InsOK, Where, InInsert, HelpLabels
    <3> QED BY <2>1, <2>3, <2>5, <3>1, <3>2 DEF HandsOK
  <2> QED BY <2>2, <2>4, <2>5
<1>4. ASSUME NEW u \in Thread PROVE HandsOK(u)'
  BY <1>1, StepOwnHands, StepOtherHands
<1> QED BY <1>2, <1>3, <1>4 DEF BagInv

(* A call begins: the entry it allocates has not been given up. *)
LEMMA NewCallBagInv ==
  ASSUME IInv, BagInv, NEW t \in Thread, NewCall(t)
  PROVE  BagInv'
<1>1. PICK k \in Key : InsertCall(t, k) \/ FindCall(t, k) \/ RemoveCall(t, k)
  BY DEF NewCall
<1>2. /\ pc[t] = "idle" /\ pc'[t] # "idle" /\ UNCHANGED <<hash_table, hlp, retired_ptrs, leaked>>
      /\ \A u \in Thread \ {t} : Untouched(u)
      /\ \A a \in AddressOrNull : a # NULL /\ Alive(a) => heap'[a] = heap[a]
      /\ ins'[t].entry # NULL => heap'[ins'[t].entry] = fingerprint(t)'
      /\ ins'[t].entry # NULL => heap[ins'[t].entry] = Free
  BY NewCallActs, NewCallEntry
<1>3. /\ result'[t] = "none" /\ \A u \in Thread \ {t} : result'[u] = result[u]
      /\ UNCHANGED rem
      /\ ins'[t].entry # NULL => call'[t].op = "insert"
  <2>1. ins[t].entry = NULL
    BY <1>2, IdleFrames
  <2> QED BY <1>1, <2>1 DEF InsertCall, FindCall, RemoveCall, Begin, shared, IInv, TypeOK
<1>4. Retired' = Retired /\ leaked' = leaked
  BY <1>2 DEF Retired
<1>5. (Retired \cup leaked \subseteq Allocated)'
  <2>1. \A a \in Allocated : heap'[a] = heap[a]
    BY <1>2, TablePointerAssumption DEF Allocated, Alive, AddressOrNull
  <2> QED BY <1>4, <2>1 DEF BagInv, Allocated
<1>6. ASSUME NEW u \in Thread PROVE HandsOK(u)'
  <2>1. HandsOK(u)
    BY DEF BagInv
  <2>2. CASE u = t
    <3>1. rem'[t].ptr1.real = NULL
      BY <1>2, <1>3, FrameTypes DEF RemOK
    <3>2. ins'[t].entry \notin Allocated \/ ins'[t].entry = NULL
      BY <1>2 DEF Allocated
    <3> QED BY <1>2, <1>3, <1>4, <2>1, <2>2, <3>1, <3>2 DEF HandsOK, BagInv
  <2>3. CASE u # t
    <3>1. fingerprint(u)' = fingerprint(u)
      BY <1>2, <2>3 DEF Untouched, fingerprint
    <3>2. /\ ins[u].entry # NULL => heap'[ins[u].entry] = heap[ins[u].entry]
          /\ rem[u].ptr1.real # NULL => heap'[rem[u].ptr1.real] = heap[rem[u].ptr1.real]
      BY <1>2, HandTypes
    <3> QED BY <1>2, <1>3, <1>4, <2>1, <2>3, <3>1, <3>2 DEF HandsOK, Untouched
  <2> QED BY <2>2, <2>3
<1> QED BY <1>2, <1>5, <1>6 DEF BagInv

(* reset and the destructor give up what was retired and not deleted. *)
LEMMA DeleteAllBagInv ==
  ASSUME IInv, BagInv, Reset \/ Destroy
  PROVE  BagInv'
<1>1. /\ \A t \in Thread : /\ pc[t] = "idle" /\ pc'[t] = "idle"
                           /\ ins'[t].entry = NULL /\ hlp'[t].ptr1.real = NULL
      /\ \A l \in Location : hash_table'[l].real = NULL
  BY DeleteAllActs
<1>2. /\ heap' = [a \in Address |-> IF a \in Stored THEN Free ELSE heap[a]]
      /\ retired_ptrs' = [t \in Thread |-> <<>>]
      /\ leaked' = (leaked \cup Retired) \ Stored
      /\ UNCHANGED <<call, result, rem>>
  BY DEF Reset, Destroy, DeleteAll, callers, calls
<1>3. Retired' = {}
  BY <1>2 DEF Retired, Range
<1>4. (Retired \cup leaked \subseteq Allocated)'
  BY <1>2, <1>3 DEF BagInv, Allocated
<1>5. NULL \notin leaked'
  BY <1>4, TablePointerAssumption DEF Allocated
<1>6. ASSUME NEW t \in Thread PROVE HandsOK(t)'
  <2>1. HandsOK(t) /\ rem[t].ptr1.real = NULL
    BY <1>1, FrameTypes DEF BagInv, RemOK
  <2> QED BY <1>1, <1>2, <1>5, <2>1 DEF HandsOK
<1> QED BY <1>1, <1>4, <1>5, <1>6 DEF BagInv

(* A step that changes nothing. *)
LEMMA StutterBagInv == BagInv /\ UNCHANGED vars => BagInv'
BY DEF BagInv, HandsOK, fingerprint, Retired, Allocated, vars, shared, others, callers, calls

(* Nothing is out of use in a new filter. *)
LEMMA InitBagInv == Init => BagInv
<1> SUFFICES ASSUME Init PROVE BagInv
  OBVIOUS
<1>1. Retired = {} /\ leaked = {}
  BY DEF Init, Retired, Range
<1>2. \A t \in Thread : /\ pc[t] = "idle" /\ call[t] = NoCall /\ ins[t].entry = NULL
                        /\ rem[t].ptr1.real = NULL
  BY NoFrameTypes DEF Init, NoRem, NoIns, empty_slot, create_pointer
<1> QED BY <1>1, <1>2 DEF BagInv, HandsOK

(* Every step preserves the invariant. *)
LEMMA NextBagInv ==
  Involutive /\ TwoBuckets /\ IInv /\ MoveInv /\ BagInv /\ [Next]_vars => BagInv'
BY StepBagInv, NewCallBagInv, DeleteAllBagInv, StutterBagInv DEF Next, Halted

-----------------------------------------------------------------------------
(***************************************************************************)
(* Counting                                                                *)
(***************************************************************************)
Holding(f) == {a \in Live : heap[a] = f}

(* There are finitely many items. *)
LEMMA LiveTypes ==
  ASSUME IInv
  PROVE  /\ Live \subseteq Address /\ \A a \in Live : Alive(a) /\ heap[a] \in Fingerprint
         /\ \A f : /\ IsFiniteSet(Holding(f)) /\ Cardinality(Holding(f)) \in Nat
                   /\ Holding(f) # {} => Cardinality(Holding(f)) > 0
<1>1. IsFiniteSet(Location)
  <2>1. IsFiniteSet(Bucket) /\ IsFiniteSet(Slot)
    BY PartialKeyAssumption, FS_Interval DEF Bucket, Slot
  <2> QED BY <2>1, FS_Product DEF Location
<1>2. IsFiniteSet({hash_table[l].real : l \in Location})
  <2> DEFINE f == [l \in Location |-> hash_table[l].real]
             T == {hash_table[l].real : l \in Location}
  <2>1. f \in Surjection(Location, T)
    BY DEF Surjection
  <2> QED BY <1>1, <2>1, FS_Surjection
<1>3. /\ Live \subseteq Address /\ \A a \in Live : Alive(a) /\ heap[a] \in Fingerprint
      /\ Live \subseteq {hash_table[l].real : l \in Location}
  BY ReadTypes, AliveFingerprint DEF Live, Stored
<1>4. ASSUME NEW f
      PROVE  /\ IsFiniteSet(Holding(f)) /\ Cardinality(Holding(f)) \in Nat
             /\ Holding(f) # {} => Cardinality(Holding(f)) > 0
  <2>1. Holding(f) \in SUBSET {hash_table[l].real : l \in Location}
    BY <1>3 DEF Holding
  <2>2. IsFiniteSet(Holding(f))
    BY <1>2, <2>1, FS_Subset
  <2> QED BY <2>2, FS_CardinalityType, FS_EmptySet
<1> QED BY <1>3, <1>4

(* The bag, before and after a step. *)
LEMMA ItemsAre ==
  /\ Items = [f \in Fingerprint |-> Cardinality(Holding(f))]
  /\ Items' = [f \in Fingerprint |-> Cardinality(Holding(f)')]
BY DEF Items, Holding, Live

(* The bag is as before when the same entries are live, with the same contents. *)
LEMMA SameBag ==
  ASSUME Live' = Live, \A a \in Live : heap'[a] = heap[a]
  PROVE  Items' = Items
<1>1. \A f : Holding(f)' = Holding(f)
  BY DEF Holding
<1> QED BY <1>1, ItemsAre

(* One entry more is one item more. *)
LEMMA OneMore ==
  ASSUME IInv, UNCHANGED heap, NEW a \in Address, a \notin Live, Live' = Live \cup {a},
         NEW f \in Fingerprint, heap[a] = f
  PROVE  Items' = [Items EXCEPT ![f] = @ + 1]
<1>1. Holding(f)' = Holding(f) \cup {a} /\ a \notin Holding(f)
  BY DEF Holding
<1>2. Cardinality(Holding(f)') = Cardinality(Holding(f)) + 1
  BY <1>1, LiveTypes, FS_AddElement
<1>3. ASSUME NEW g \in Fingerprint \ {f} PROVE Holding(g)' = Holding(g)
  BY <1>3 DEF Holding
<1> QED BY <1>2, <1>3, ItemsAre

(* One entry less is one item less. *)
LEMMA OneLess ==
  ASSUME IInv, UNCHANGED heap, NEW a \in Live, Live' = Live \ {a},
         NEW f \in Fingerprint, heap[a] = f
  PROVE  Items[f] > 0 /\ Items' = [Items EXCEPT ![f] = @ - 1]
<1>1. Holding(f)' = Holding(f) \ {a} /\ a \in Holding(f)
  BY DEF Holding
<1>2. Cardinality(Holding(f)') = Cardinality(Holding(f)) - 1 /\ Cardinality(Holding(f)) > 0
  BY <1>1, LiveTypes, FS_RemoveElement
<1>3. ASSUME NEW g \in Fingerprint \ {f} PROVE Holding(g)' = Holding(g)
  BY <1>3 DEF Holding
<1> QED BY <1>2, <1>3, ItemsAre

(* At the start there is one item for each slot with an entry. *)
LEMMA InitItemsAre == ASSUME Init, IInv PROVE Items = InitItems
<1>1. Retired = {} /\ hash_table = InitTable /\ heap = InitHeap
  BY DEF Init, Retired, Range
<1>2. ASSUME NEW f \in Fingerprint
      PROVE  Cardinality(Holding(f))
               = Cardinality({l \in Location : /\ InitTable[l].real # NULL
                                               /\ InitHeap[InitTable[l].real] = f})
  <2> DEFINE S == {l \in Location : /\ InitTable[l].real # NULL
                                    /\ InitHeap[InitTable[l].real] = f}
             T == Holding(f)
             g == [l \in S |-> InitTable[l].real]
  <2>1. T = {InitTable[l].real : l \in S}
    BY <1>1 DEF Holding, Live, Stored
  <2>2. \A l, m \in S : InitTable[l].real = InitTable[m].real => l = m
    BY FilterAssumption DEF AtRest
  <2>3. g \in Bijection(S, T)
    BY <2>1, <2>2 DEF Bijection, Injection, Surjection, IsInjective
  <2>4. g \in Injection(S, T) /\ g \in Surjection(S, T) /\ IsFiniteSet(T)
    BY <2>3, LiveTypes DEF Bijection
  <2>5. Cardinality(S) = Cardinality(T)
    BY <2>4, FS_Injection
  <2> QED BY <2>5
<1> QED BY <1>2, ItemsAre DEF InitItems

-----------------------------------------------------------------------------
(***************************************************************************)
(* The steps and the bag                                                   *)
(***************************************************************************)
(* An entry that help_relocate brings to its destination, and that no remove has
   retired, is still in the table. *)
LEMMA MovedIsStored ==
  ASSUME Involutive, TwoBuckets, IInv, MoveInv, BagInv, NEW t \in Thread, pc[t] = "hlp_move",
         hash_table[HlpDest(t)] = hlp[t].ptr2, hlp[t].ptr1.real \notin Retired
  PROVE  hlp[t].ptr1.real \in Stored
<1> DEFINE a == hlp[t].ptr1.real
<1>1. a # NULL /\ pc[t] \in MoveLabels
  BY FrameTypes DEF HlpOK, HelpLabels, MoveLabels
<1>2. HlpSource(t) \in Location /\ a \in Address /\ hlp[t].ptr2.counter \in Counter
  BY <1>1, MovePlaces
<1>3. CASE SourceHasItem(t) \/ SourceHeld(t)
  BY <1>1, <1>2, <1>3 DEF SourceHasItem, SourceHeld, Holds, Stored
<1>4. CASE ~SourceHasItem(t) /\ ~SourceHeld(t)
  <2>1. a \in Stored \cup Pending \cup Retired \cup leaked
    BY <1>1, <1>2, HandTypes DEF MoveInv, NoLostEntry, Allocated, Alive
  <2>2. a \notin Pending
    BY <1>1 DEF MoveInv, MoveOK, Fresh, Pending
  <2>3. a \notin leaked
    BY DEF BagInv, HandsOK
  <2> QED BY <2>1, <2>2, <2>3
<1> QED BY <1>3, <1>4

(* A move changes the slots of an entry, but not what is in the bag: the entry is
   copied while it is in the table, and the first slot is cleared when the entry
   is in the second, or was removed from there. *)
LEMMA SameEntries ==
  ASSUME Involutive, TwoBuckets, IInv, MoveInv, BagInv, NEW t \in Thread, StepOf(t),
         pc[t] \in {"ins_cas", "rem_cas"} => UNCHANGED hash_table, Retired' = Retired
  PROVE  Live' = Live
<1>1. ASSUME NEW a, a \in Live' PROVE a \in Live
  <2>1. PICK l \in Location : hash_table'[l].real = a
    BY <1>1 DEF Live, Stored
  <2>2. a # NULL /\ a \notin Retired
    BY <1>1 DEF Live, Stored
  <2>3. Change(t, l)
    BY DEF StepOf
  <2>4. CASE hash_table[l].real = a
    BY <2>2, <2>4 DEF Live, Stored
  <2>5. CASE hash_table[l].real # a
    <3>1. pc[t] = "hlp_move" /\ l = HlpDest(t) /\ hash_table[l] = hlp[t].ptr2
          /\ hlp[t].ptr1.real = a
      BY <2>1, <2>2, <2>3, <2>5 DEF Change
    <3> QED BY <2>2, <3>1, MovedIsStored DEF Live
  <2> QED BY <2>4, <2>5
<1>2. ASSUME NEW a, a \in Live PROVE a \in Live'
  <2>1. PICK l \in Location : hash_table[l].real = a
    BY <1>2 DEF Live, Stored
  <2>2. a # NULL /\ a \notin Retired
    BY <1>2 DEF Live, Stored
  <2>3. ASSUME NEW m \in Location, hash_table'[m].real = a PROVE a \in Live'
    BY <2>2, <2>3 DEF Live, Stored
  <2>4. CASE hash_table'[l].real = a
    BY <2>3, <2>4
  <2>5. CASE hash_table'[l].real # a
    <3>1. pc[t] = "hlp_clear" /\ l = HlpSource(t) /\ hash_table[l] = hlp[t].ptr1
      BY <2>1, <2>2, <2>5 DEF StepOf, Change
    <3>2. hlp[t].ptr1.real = a /\ TargetHasItem(t)
      BY <2>1, <2>2, <3>1 DEF MoveInv, MoveOK, MovedOK, SourceHeld, Holds
    <3>3. HlpDest(t) \in Location /\ HlpDest(t) # l
      BY <2>2, <3>1, <3>2, MovePlaces
    <3>4. hash_table'[HlpDest(t)] = hash_table[HlpDest(t)]
      BY <3>1, <3>3 DEF StepOf, Change
    <3> QED BY <2>3, <3>2, <3>3, <3>4 DEF TargetHasItem
  <2> QED BY <2>4, <2>5
<1> QED BY <1>1, <1>2

(* The call of a step, as the bag sees it. *)
LEMMA Asks ==
  ASSUME IInv, BagInv, NEW t \in Thread, pc[t] # "idle"
  PROVE  /\ Bag!Asked(t) = fingerprint(t) /\ fingerprint(t) \in Fingerprint
         /\ ~Seen(t) => Bag!Before(t, call[t].op)
<1>1. call[t] \in [op : Op, key : Key] /\ result[t] = "none"
  BY FrameTypes DEF CallOK, BagInv, HandsOK
<1>2. NoCall \notin [op : Op, key : Key]
  BY FilterAssumption DEF NoCall, Op
<1>3. ~Seen(t) => Results[t] = "none"
  BY <1>1 DEF Results
<1> QED BY <1>1, <1>2, <1>3, PartialKeyAssumption DEF Bag!Asked, Bag!Before, fingerprint

(* A step of an operation leaves the frames of the other searches alone. *)
LEMMA StepOtherSearches ==
  ASSUME IInv, NEW t \in Thread, Step(t), NEW u \in Thread \ {t}
  PROVE  fnd'[u] = fnd[u]
<1>1. fnd \in [Thread -> FndFrame]
  BY DEF IInv, TypeOK
<1>2. ASSUME \/ UNCHANGED fnd \/ \E f : fnd' = [fnd EXCEPT ![t] = f]
             \/ \E p : fnd' = [fnd EXCEPT ![t].ptr = p]
             \/ \E n : fnd' = [fnd EXCEPT ![t].ts1x = n]
      PROVE  fnd'[u] = fnd[u]
  BY <1>1, <1>2
<1>3. CASE InsertStep(t) \/ RemCas(t)
  BY <1>2, <1>3 DEF InsertStep, InsRead, InsCas, InsKick, InsFail, RemCas, Return
<1>4. CASE RelocateStep(t) \/ HelpStep(t)
  BY <1>2, <1>4 DEF RelocateStep, RelProbe, RelHold1, RelReload, RelSrc, RelReloadSrc, RelDst,
     RelHold2, RelEnd, HelpStep, HlpLoad, HlpHold1, HlpMark, HlpDst, HlpHold2, HlpCheck, HlpMove,
     HlpClear, HlpDone, HlpBusy, DestCas, callers
<1>5. CASE FindStep(t)
  BY <1>2, <1>5 DEF FindStep, FndFirst, FndHold1, FndSecond, FndHold2, FndRecheck1, FndRecheck2,
     FirstRound, FindReturn, Return
<1> QED BY <1>3, <1>4, <1>5 DEF Step

(* What the clients are told, or will be, changes for one thread at a time. *)
LEMMA ResultsAre ==
  ASSUME NEW t \in Thread,
         \A u \in Thread \ {t} : (Seen(u)' <=> Seen(u)) /\ result'[u] = result[u]
  PROVE  Results' = [Results EXCEPT ![t] = IF Seen(t)' THEN "seen" ELSE result'[t]]
BY DEF Results

LEMMA StepResults ==
  ASSUME IInv, NEW t \in Thread, Step(t), Outcome(t)
  PROVE  Results' = [Results EXCEPT ![t] = IF Seen(t)' THEN "seen" ELSE result'[t]]
<1>1. ASSUME NEW u \in Thread \ {t} PROVE (Seen(u)' <=> Seen(u)) /\ result'[u] = result[u]
  <2>1. result'[u] = result[u]
    BY DEF Outcome, GoesOn, Spots, Sees, Overlooks, Puts, Drops, TakesOut, Answers, IInv, TypeOK
  <2>2. pc'[u] = pc[u] /\ UNCHANGED <<heap, call>> /\ fnd'[u] = fnd[u]
    BY StepActsFor, StepOtherSearches DEF ActsFor, Untouched
  <2> QED BY <2>1, <2>2 DEF Seen, fingerprint
<1> QED BY <1>1, ResultsAre

(* The answer at the end of an operation, as the bag sees it. *)
LEMMA AnswersBag ==
  ASSUME IInv, NEW t \in Thread, NEW v, Step(t), Outcome(t), Answers(t, v), UNCHANGED call
  PROVE  Bag!Answer(t, v)
<1>1. ~Seen(t)' /\ result'[t] = v
  BY DEF Answers, Seen, IInv, TypeOK
<1> QED BY <1>1, StepResults DEF Bag!Answer

(* What find reads is in the bag, unless it was brought back. *)
LEMMA SpotsBag ==
  ASSUME IInv, BagInv, ~Revived, NEW t \in Thread, pc[t] # "idle", Step(t), Outcome(t),
         Spots(t), UNCHANGED <<heap, call>>
  PROVE  Bag!Find(t)
<1>1. PICK l \in Location : fnd'[t].ptr = hash_table[l]
  BY DEF Spots
<1>2. Match(t, hash_table[l]) /\ call[t].op = "find"
  BY <1>1 DEF Spots, Seen, Match, fingerprint
<1>3. hash_table[l].real \in Holding(fingerprint(t))
  BY <1>2 DEF Match, Revived, Live, Stored, Holding
<1>4. Items[fingerprint(t)] > 0
  BY <1>3, Asks, LiveTypes, ItemsAre
<1>5. Items' = Items
  <2>1. Live' = Live
    BY DEF Spots, Live, Stored, Retired
  <2> QED BY <2>1, SameBag
<1>6. Bag!Answer(t, "seen")
  BY StepResults DEF Spots, Bag!Answer
<1> QED BY <1>2, <1>4, <1>5, <1>6, Asks DEF Spots, Bag!Find

(* What find has read it says. *)
LEMMA SeesBag ==
  ASSUME IInv, NEW t \in Thread, Step(t), Outcome(t), Sees(t), UNCHANGED <<heap, call>>
  PROVE  Bag!Confirm(t)
<1>1. Items' = Items
  <2>1. Live' = Live
    BY DEF Sees, Live, Stored, Retired
  <2> QED BY <2>1, SameBag
<1>2. Results[t] = "seen"
  BY DEF Sees, Results
<1> QED BY <1>1, <1>2, AnswersBag DEF Sees, Bag!Confirm

LEMMA OverlooksBag ==
  ASSUME IInv, BagInv, NEW t \in Thread, pc[t] # "idle", Step(t), Outcome(t), Overlooks(t),
         UNCHANGED <<heap, call>>
  PROVE  Bag!Find(t) \/ Bag!Remove(t)
<1>1. Items' = Items
  <2>1. Live' = Live
    BY DEF Overlooks, Live, Stored, Retired
  <2> QED BY <2>1, SameBag
<1> QED BY <1>1, Asks, AnswersBag DEF Overlooks, Bag!Find, Bag!Remove, Bag!Missing

(* insert adds an entry that was not in the table and not retired. *)
LEMMA PutsBag ==
  ASSUME IInv, MoveInv, BagInv, NEW t \in Thread, Step(t), Outcome(t), Puts(t), StepOf(t),
         UNCHANGED <<heap, call>>
  PROVE  Bag!Insert(t)
<1> DEFINE a == ins[t].entry
<1>1. Probed(t) \in Location /\ a \in Address
  BY ProbedTypes, FrameTypes
     DEF Puts, InInsert, InsOK, InsFrame, Where, HelpLabels, AddressOrNull
<1>2. a # NULL /\ HandsOK(t) /\ Fresh(t) /\ pc[t] = "ins_cas"
  BY <1>1, TablePointerAssumption DEF BagInv, MoveInv, MoveOK, Puts
<1>3. a \notin Live /\ a \notin Retired
  BY <1>2 DEF Fresh, Live, Stored, HandsOK
<1>4. Live' = Live \cup {a}
  <2>1. Retired' = Retired
    BY DEF Puts, Retired
  <2>2. hash_table'[Probed(t)].real = a /\ hash_table[Probed(t)].real \in {NULL, a}
    BY <1>1, <1>2 DEF Puts, StepOf, Change
  <2>3. \A l \in Location \ {Probed(t)} : hash_table'[l].real = hash_table[l].real
    BY <1>2 DEF StepOf, Change
  <2> QED BY <1>1, <1>2, <1>3, <2>1, <2>2, <2>3 DEF Live, Stored
<1>5. Items' = [Items EXCEPT ![fingerprint(t)] = @ + 1]
  BY <1>1, <1>2, <1>3, <1>4, Asks, OneMore DEF HandsOK
<1> QED BY <1>2, <1>5, Asks, AnswersBag DEF Puts, HandsOK, Seen, Bag!Insert, Bag!Add

LEMMA DropsBag ==
  ASSUME IInv, BagInv, NEW t \in Thread, Step(t), Outcome(t), Drops(t), UNCHANGED <<heap, call>>
  PROVE  Bag!Insert(t)
<1>1. Items' = Items
  <2>1. Live' = Live
    BY DEF Drops, Live, Stored, Retired
  <2> QED BY <2>1, SameBag
<1>2. call[t].op = "insert"
  <2>1. ins[t].entry # NULL
    BY FrameTypes DEF Drops, InsOK, Where, InInsert, HelpLabels
  <2> QED BY <2>1 DEF BagInv, HandsOK
<1> QED BY <1>1, <1>2, Asks, AnswersBag DEF Drops, Seen, Bag!Insert

(* remove takes away an entry that had not been retired before. *)
LEMMA TakesOutBag ==
  ASSUME IInv, MoveInv, BagInv, ~Revived, NEW t \in Thread, Step(t), Outcome(t), TakesOut(t),
         StepOf(t), UNCHANGED <<heap, call>>
  PROVE  Bag!Remove(t)
<1> DEFINE a == rem[t].ptr1.real
<1>1. /\ RemLocation(t) \in Location /\ a # NULL /\ pc[t] = "rem_cas"
      /\ hash_table[RemLocation(t)] = rem[t].ptr1
  BY RemLocationTypes, FrameTypes DEF TakesOut, RemOK
<1>2. HandsOK(t) /\ ~rem[t].ptr1.marked
  BY <1>1 DEF BagInv, MoveInv, MoveOK, SwapWords
<1>3. a \in Live
  BY <1>1, <1>2 DEF Revived, Live, Stored
<1>4. Live' = Live \ {a}
  <2>1. Retired' = Retired \cup {a}
    BY DEF TakesOut
  <2>2. \A l \in Location : hash_table[l].real # a => hash_table'[l].real = hash_table[l].real
    BY <1>1 DEF StepOf, Change
  <2>3. \A l \in Location : hash_table'[l].real \in {hash_table[l].real, NULL}
    BY <1>1 DEF StepOf, Change
  <2> QED BY <1>1, <2>1, <2>2, <2>3 DEF Live, Stored
<1>5. Items[fingerprint(t)] > 0 /\ Items' = [Items EXCEPT ![fingerprint(t)] = @ - 1]
  BY <1>1, <1>2, <1>3, <1>4, Asks, OneLess DEF HandsOK
<1> QED BY <1>1, <1>2, <1>5, Asks, AnswersBag DEF TakesOut, HandsOK, Seen, Bag!Remove, Bag!Take

(* A step of an operation is a step of the bag, or leaves it alone. *)
LEMMA StepBag ==
  ASSUME Involutive, TwoBuckets, IInv, MoveInv, BagInv, ~Revived, NEW t \in Thread, Step(t)
  PROVE  Bag!Next \/ UNCHANGED Bag!vars
<1>1. StepOf(t) /\ Outcome(t) /\ UNCHANGED <<heap, call>> /\ pc[t] # "idle"
  BY StepIs, StepOutcome, StepActsFor, StepIsActive DEF ActsFor
<1>2. CASE GoesOn(t)
  <2>1. Live' = Live
    BY <1>1, <1>2, SameEntries DEF GoesOn, Retired
  <2>2. Items' = Items
    BY <1>1, <2>1, SameBag
  <2>3. Results' = Results
    <3>1. Results[t] = result[t] /\ result'[t] = result[t] /\ ~Seen(t)'
      BY <1>2 DEF GoesOn, Results
    <3> QED BY <1>1, <3>1, StepResults DEF Results
  <2> QED BY <1>1, <2>2, <2>3 DEF Bag!vars
<1>3. CASE Spots(t) \/ Sees(t) \/ Overlooks(t) \/ Puts(t) \/ Drops(t) \/ TakesOut(t)
  <2>1. Bag!Find(t) \/ Bag!Confirm(t) \/ Bag!Insert(t) \/ Bag!Remove(t)
    BY <1>1, <1>3, SpotsBag, SeesBag, OverlooksBag, PutsBag, DropsBag, TakesOutBag
  <2> QED BY <2>1 DEF Bag!Next
<1> QED BY <1>1, <1>2, <1>3 DEF Outcome

(* A thread with no running call makes one. *)
LEMMA NewCallBag ==
  ASSUME IInv, BagInv, NEW t \in Thread, NewCall(t)
  PROVE  Bag!Next
<1>1. PICK k \in Key : InsertCall(t, k) \/ FindCall(t, k) \/ RemoveCall(t, k)
  BY DEF NewCall
<1>2. /\ pc[t] = "idle" /\ UNCHANGED <<hash_table, retired_ptrs>>
      /\ \A a \in AddressOrNull : a # NULL /\ Alive(a) => heap'[a] = heap[a]
  BY NewCallActs, NewCallEntry
<1>3. Items' = Items
  <2>1. Live' = Live
    BY <1>2 DEF Live, Stored, Retired
  <2>2. \A a \in Live : heap'[a] = heap[a]
    BY <1>2, LiveTypes DEF AddressOrNull, Live, Stored
  <2> QED BY <2>1, <2>2, SameBag
<1>4. ~Bag!Running(t)
  BY <1>2, FrameTypes DEF BagInv, HandsOK, Bag!Running, Results, Seen
<1>5. /\ \E op \in Op : call' = [call EXCEPT ![t] = [op |-> op, key |-> k]]
      /\ result' = [result EXCEPT ![t] = "none"] /\ UNCHANGED fnd
  BY <1>1 DEF InsertCall, FindCall, RemoveCall, Begin, Op
<1>7. Results' = [Results EXCEPT ![t] = "none"]
  <2>1. ASSUME NEW u \in Thread \ {t} PROVE (Seen(u)' <=> Seen(u)) /\ result'[u] = result[u]
    <3>1. pc'[u] = pc[u] /\ fingerprint(u)' = fingerprint(u) /\ call'[u] = call[u]
      BY NewCallActs DEF Untouched, fingerprint
    <3>2. fnd[u].ptr.real # NULL => heap'[fnd[u].ptr.real] = heap[fnd[u].ptr.real]
      <4>1. fnd[u].ptr.real \in AddressOrNull /\ Alive(fnd[u].ptr.real)
        BY FrameTypes DEF FndOK, FndFrame, table_pointer, AddressOrNull
      <4> QED BY <1>2, <4>1
    <3> QED BY <1>5, <3>1, <3>2 DEF Seen, IInv, TypeOK
  <2>2. ~Seen(t)' /\ result'[t] = "none"
    BY <1>5, NewCallActs DEF Seen, IInv, TypeOK
  <2> QED BY <2>1, <2>2, ResultsAre
<1>6. Bag!Invoke(t)
  BY <1>3, <1>4, <1>5, <1>7 DEF Bag!Invoke, Bag!Op, Op
<1> QED BY <1>6 DEF Bag!Next

(* reset and the destructor leave an empty bag. *)
LEMMA DeleteAllBag ==
  ASSUME IInv, BagInv, Reset \/ Destroy
  PROVE  Bag!Next
<1>1. (\A t \in Thread : pc[t] = "idle") /\ \A l \in Location : hash_table'[l].real = NULL
  BY DeleteAllActs
<1>2. Items' = [f \in Fingerprint |-> 0]
  <2>1. \A f : Holding(f)' = {}
    BY <1>1 DEF Holding, Live, Stored
  <2> QED BY <2>1, ItemsAre, FS_EmptySet
<1>3. \A t \in Thread : ~Bag!Running(t)
  BY <1>1, FrameTypes DEF BagInv, HandsOK, Bag!Running, Results, Seen
<1>4. UNCHANGED <<call, Results>>
  <2>1. UNCHANGED <<pc, call, result>>
    BY DEF Reset, Destroy, callers, calls
  <2> QED BY <1>1, <2>1 DEF Results, Seen
<1> QED BY <1>2, <1>3, <1>4 DEF Bag!Clear, Bag!Next

(* Every step is a step of the bag, or leaves it alone. *)
LEMMA NextBag ==
  ASSUME Involutive, TwoBuckets, IInv, MoveInv, BagInv, [Next]_vars
  PROVE  [~Revived => Bag!Next]_(Bag!vars)
<1> SUFFICES ASSUME ~Revived PROVE Bag!Next \/ UNCHANGED Bag!vars
  OBVIOUS
<1>1. CASE UNCHANGED vars
  BY <1>1 DEF vars, shared, others, callers, calls, Bag!vars, Items, Stored, Retired, Results,
     Seen, fingerprint
<1> QED BY <1>1, StepBag, NewCallBag, DeleteAllBag DEF Next, Halted

-----------------------------------------------------------------------------
(***************************************************************************)
(* The theorems                                                            *)
(***************************************************************************)
(* What is in the table, or in the hands of an insert or of help_relocate, has
   never been given up; remove is about to swap out an entry of its own key. *)
THEOREM HandsKeepTrack == ASSUME Involutive, TwoBuckets PROVE Spec => []BagInv
<1>1. IInv /\ MoveInv /\ BagInv /\ [Next]_vars => BagInv'
  BY NextBagInv
<1> QED BY <1>1, InitBagInv, Invariance, MovesKeepTrack, PTL DEF Spec

(* Until a helper brings back an entry that remove has retired, the filter
   is a bag with atomic operations in which find and remove may miss an item,
   however many threads insert, remove and relocate: every insert and remove that
   returns true counts once, and no move changes the bag. *)
THEOREM LockFreeRefines == ASSUME Involutive, TwoBuckets PROVE Spec => BagUntilRevived
<1>1. Init => Bag!Init
  <2> SUFFICES ASSUME Init PROVE Bag!Init
    OBVIOUS
  <2>1. Results = result
    BY DEF Init, Results, Seen
  <2> QED BY <2>1, InitInv, InitItemsAre DEF Init, Bag!Init
<1>2. IInv /\ MoveInv /\ BagInv /\ [Next]_vars => [~Revived => Bag!Next]_(Bag!vars)
  BY NextBag
<1> QED BY <1>1, <1>2, Invariance, MovesKeepTrack, HandsKeepTrack, PTL DEF Spec, BagUntilRevived
=============================================================================
