---------------------------- MODULE HistoryProofs ----------------------------
(***************************************************************************)
(* A theorem about the answers of LockFreeFilter: a find or a remove that  *)
(* answers "false" has not overlooked an item that stayed in one slot.     *)
(***************************************************************************)
EXTENDS FilterHistory, LockFreeFilterProofs

(***************************************************************************)
(* What a step does to a search                                            *)
(***************************************************************************)
(* A search loads the word of a slot. *)
LoadsFrom(t, l) ==
  /\ UNCHANGED hash_table /\ fnd'[t].slot = fnd[t].slot
  /\ fnd'[t].ptr = hash_table[l]

(* The word that a search has loaded is not of an item of its key. *)
NoMatch(t) ==
  /\ UNCHANGED hash_table /\ fnd'[t].slot = fnd[t].slot
  /\ fnd[t].ptr.real = NULL \/ heap[fnd[t].ptr.real] # fingerprint(t)

(* Within a level of the table. *)
Searching == {"fnd_hold1", "fnd_second", "fnd_hold2", "fnd_recheck1", "fnd_recheck2"}

(* The search goes on in the same slot or in the next one, after it has seen both
   slots of this level, or it is over; insert and help_relocate leave it alone. *)
SearchOf(t) ==
  \/ pc'[t] \in {"idle", "rem_cas"} /\ fnd'[t].slot = 0
  \/ /\ pc'[t] \notin {"idle"} \cup Searching
     /\ fnd'[t].slot = fnd[t].slot
  \/ pc[t] = "fnd_first" /\ pc'[t] = "fnd_hold1" /\ LoadsFrom(t, FirstSlot(t))
  \/ pc[t] = "fnd_hold1" /\ pc'[t] = "fnd_second" /\ NoMatch(t)
  \/ pc[t] = "fnd_second" /\ pc'[t] = "fnd_hold2" /\ LoadsFrom(t, SecondSlot(t))
  \/ pc[t] = "fnd_hold2" /\ pc'[t] = "fnd_recheck1" /\ NoMatch(t)
  \/ /\ pc[t] = "fnd_recheck1" /\ pc'[t] = "fnd_recheck2"
     /\ fnd'[t].slot = fnd[t].slot
  \/ /\ pc[t] = "fnd_recheck2" /\ pc'[t] = "fnd_first"
     /\ fnd'[t].slot = fnd[t].slot + 1

(* The answer is "false" only after the last slots, or when insert fails. *)
AnswersOf(t) ==
  pc'[t] = "idle" /\ result'[t] = "false" =>
    \/ ins[t].entry # NULL
    \/ pc[t] = "fnd_recheck2" /\ ~MoreSlots(t)

(* FindReturn answers, or goes on to the swap of remove. *)
LEMMA FindReturns ==
  ASSUME IInv, NEW t \in Thread, NEW location, NEW p, FindReturn(t, location, p)
  PROVE  /\ pc'[t] \in {"idle", "rem_cas"} /\ fnd'[t].slot = 0
         /\ \A u \in Thread \ {t} : fnd'[u] = fnd[u]
         /\ pc'[t] = "idle" /\ result'[t] = "false" => location = NotFound
<1>1. /\ pc \in [Thread -> Label] /\ fnd \in [Thread -> FndFrame]
      /\ result \in [Thread -> {"none", "true", "false"}] /\ NoFnd.slot = 0
  BY DEF IInv, TypeOK, NoFnd
<1>2. ASSUME NEW v, Return(t, v)
      PROVE  pc'[t] = "idle" /\ result'[t] = v /\ fnd' = [fnd EXCEPT ![t] = NoFnd]
  BY <1>1, <1>2 DEF Return, Goto
<1>3. ASSUME fnd' = [fnd EXCEPT ![t] = NoFnd]
      PROVE  fnd'[t].slot = 0 /\ \A u \in Thread \ {t} : fnd'[u] = fnd[u]
  BY <1>1, <1>3
<1>4. CASE call[t].op = "find" /\ Return(t, IF location = NotFound THEN "false" ELSE "true")
  BY <1>2, <1>3, <1>4
<1>5. CASE location = NotFound /\ Return(t, "false")
  BY <1>2, <1>3, <1>5
<1>6. CASE fnd' = [fnd EXCEPT ![t] = NoFnd] /\ Goto(t, "rem_cas")
  <2>1. pc'[t] = "rem_cas"
    BY <1>1, <1>6 DEF Goto
  <2> QED BY <1>3, <1>6, <2>1
<1> QED BY <1>4, <1>5, <1>6 DEF FindReturn

(* The search goes on only if the word it has loaded is not of its key. *)
LEMMA FirstRounds ==
  ASSUME IInv, NEW t \in Thread, NEW j \in {0, 1}, NEW b, NEW frame,
         NEW next \in {"fnd_second", "fnd_recheck1"},
         FirstRound(t, j, b, frame, next), frame.slot = fnd[t].slot
  PROVE  /\ \A u \in Thread \ {t} : fnd'[u] = fnd[u]
         /\ \/ pc'[t] \in {"idle", "rem_cas"} /\ fnd'[t].slot = 0
            \/ pc'[t] = "hlp_load" /\ fnd'[t].slot = fnd[t].slot
            \/ /\ pc'[t] = next /\ fnd'[t].slot = fnd[t].slot
               /\ fnd[t].ptr.real = NULL \/ heap[fnd[t].ptr.real] # fingerprint(t)
         /\ ~(pc'[t] = "idle" /\ result'[t] = "false")
<1> DEFINE p == fnd[t].ptr
<1>1. pc \in [Thread -> Label] /\ fnd \in [Thread -> FndFrame]
  BY DEF IInv, TypeOK
<1>2. CASE /\ CallHelp(t, b, fnd[t].slot, FALSE, "fnd_first")
           /\ fnd' = [fnd EXCEPT ![t] = [NoFnd EXCEPT !.slot = fnd[t].slot]]
  <2>1. [NoFnd EXCEPT !.slot = fnd[t].slot].slot = fnd[t].slot
    BY DEF NoFnd
  <2>2. pc'[t] = "hlp_load" /\ fnd'[t].slot = fnd[t].slot
        /\ \A u \in Thread \ {t} : fnd'[u] = fnd[u]
    BY <1>1, <1>2, <2>1 DEF CallHelp, Goto
  <2> QED BY <2>2
<1>3. CASE FindReturn(t, fnd[t].slot + j * NUM_ITEMS_PER_ENTRY, p)
  <2>1. fnd[t].slot + j * NUM_ITEMS_PER_ENTRY # NotFound
    <3>1. fnd[t].slot \in Slot
      BY <1>1 DEF FndFrame
    <3> QED BY <3>1, PartialKeyAssumption DEF Slot, NotFound
  <2> QED BY <1>3, <2>1, FindReturns
<1>4. CASE /\ p.real = NULL \/ heap[p.real] # fingerprint(t)
           /\ fnd' = [fnd EXCEPT ![t] = frame] /\ Goto(t, next)
  <2>1. pc'[t] = next /\ fnd'[t].slot = fnd[t].slot
        /\ \A u \in Thread \ {t} : fnd'[u] = fnd[u]
    BY <1>1, <1>4 DEF Goto
  <2> QED BY <1>4, <2>1
<1> QED BY <1>2, <1>3, <1>4 DEF FirstRound

(* Every step does that to a search. *)
LEMMA StepSearch ==
  ASSUME IInv, NEW t \in Thread, Step(t)
  PROVE  /\ pc[t] # "idle" /\ SearchOf(t) /\ AnswersOf(t)
         /\ \A u \in Thread \ {t} : fnd'[u] = fnd[u]
<1>1. /\ pc \in [Thread -> Label] /\ fnd \in [Thread -> FndFrame] /\ hlp[t] \in HlpFrame
      /\ fnd[t].slot \in Slot /\ NoFnd.slot = 0
      /\ result \in [Thread -> {"none", "true", "false"}]
  BY DEF IInv, TypeOK, FndFrame, NoFnd
<1>2. ASSUME NEW v, Return(t, v)
      PROVE  /\ pc'[t] = "idle" /\ fnd'[t].slot = 0 /\ result'[t] = v
             /\ \A u \in Thread \ {t} : fnd'[u] = fnd[u]
  BY <1>1, <1>2 DEF Return, Goto
<1>3. CASE InsertStep(t)
  <2>1. pc[t] \in {"ins_read", "ins_cas", "ins_kick"}
    BY <1>3 DEF InsertStep, InsRead, InsCas, InsKick, InsFail
  <2>2. ins[t].entry # NULL
    BY <2>1, FrameTypes DEF InsOK, Where, InInsert, HelpLabels
  <2>3. CASE UNCHANGED fnd /\ pc'[t] \in {"ins_read", "ins_cas", "ins_kick", "rel_probe"}
    BY <2>1, <2>2, <2>3 DEF SearchOf, AnswersOf, Searching
  <2>4. CASE \E v : Return(t, v)
    BY <1>2, <2>1, <2>2, <2>4 DEF SearchOf, AnswersOf, Searching
  <2> QED BY <1>1, <1>3, <2>3, <2>4 DEF InsertStep, InsRead, InsCas, InsKick, InsFail, NextProbe,
     Goto
<1>4. CASE FndFirst(t) \/ FndSecond(t)
  <2>1. ASSUME NEW w, fnd' = [fnd EXCEPT ![t].ptr = w]
        PROVE  /\ fnd'[t].ptr = w /\ fnd'[t].slot = fnd[t].slot
               /\ \A u \in Thread \ {t} : fnd'[u] = fnd[u]
    BY <1>1, <2>1 DEF FndFrame
  <2>2. CASE FndFirst(t)
    <3>1. pc[t] = "fnd_first" /\ pc'[t] = "fnd_hold1" /\ UNCHANGED hash_table
      BY <1>1, <2>2 DEF FndFirst, Goto, shared
    <3> QED BY <2>1, <2>2, <3>1 DEF FndFirst, SearchOf, AnswersOf, LoadsFrom
  <2>3. CASE FndSecond(t)
    <3>1. pc[t] = "fnd_second" /\ pc'[t] = "fnd_hold2" /\ UNCHANGED hash_table
      BY <1>1, <2>3 DEF FndSecond, Goto, shared
    <3> QED BY <2>1, <2>3, <3>1 DEF FndSecond, SearchOf, AnswersOf, LoadsFrom
  <2> QED BY <1>4, <2>2, <2>3
<1>5. CASE FndHold1(t) \/ FndHold2(t)
  <2>1. CASE FndHold1(t)
    <3> DEFINE f == [fnd[t] EXCEPT !.ptr = empty_slot, !.ts1 = fnd[t].ptr.counter]
    <3>1. pc[t] = "fnd_hold1" /\ FirstRound(t, 0, hash1(call[t].key), f, "fnd_second")
          /\ UNCHANGED hash_table
      BY <2>1 DEF FndHold1, shared
    <3>2. f.slot = fnd[t].slot
      BY <1>1 DEF FndFrame
    <3> HIDE DEF f
    <3> QED BY <3>1, <3>2, FirstRounds DEF SearchOf, AnswersOf, NoMatch, Searching
  <2>2. CASE FndHold2(t)
    <3> DEFINE f == [fnd[t] EXCEPT !.ptr = empty_slot, !.ts2 = fnd[t].ptr.counter]
    <3>1. pc[t] = "fnd_hold2" /\ FirstRound(t, 1, hash2(call[t].key), f, "fnd_recheck1")
          /\ UNCHANGED hash_table
      BY <2>2 DEF FndHold2, shared
    <3>2. f.slot = fnd[t].slot
      BY <1>1 DEF FndFrame
    <3> HIDE DEF f
    <3> QED BY <3>1, <3>2, FirstRounds DEF SearchOf, AnswersOf, NoMatch, Searching
  <2> QED BY <1>5, <2>1, <2>2
<1>6. CASE FndRecheck1(t)
  <2>1. /\ pc[t] = "fnd_recheck1" /\ pc'[t] = "fnd_recheck2"
        /\ fnd'[t].slot = fnd[t].slot /\ \A u \in Thread \ {t} : fnd'[u] = fnd[u]
    BY <1>1, <1>6 DEF FndRecheck1, Goto, FndFrame
  <2> QED BY <2>1 DEF SearchOf, AnswersOf, Searching
<1>7. CASE FndRecheck2(t)
  <2>1. pc[t] = "fnd_recheck2"
    BY <1>7 DEF FndRecheck2
  <2>2. ASSUME NEW s, fnd' = [fnd EXCEPT ![t] = [NoFnd EXCEPT !.slot = s]]
        PROVE  fnd'[t].slot = s /\ \A u \in Thread \ {t} : fnd'[u] = fnd[u]
    <3>1. [NoFnd EXCEPT !.slot = s].slot = s
      BY DEF NoFnd
    <3> QED BY <1>1, <2>2, <3>1
  <2>3. CASE Goto(t, "fnd_first")
    <3>1. pc'[t] = "fnd_first"
      BY <1>1, <2>3 DEF Goto
    <3>2. CASE fnd' = [fnd EXCEPT ![t] = [NoFnd EXCEPT !.slot = fnd[t].slot]]
      BY <2>1, <2>2, <3>1, <3>2 DEF SearchOf, AnswersOf, Searching
    <3>3. CASE fnd' = [fnd EXCEPT ![t] = [NoFnd EXCEPT !.slot = fnd[t].slot + 1]]
      BY <2>1, <2>2, <3>1, <3>3 DEF SearchOf, AnswersOf, Searching
    <3>4. \/ fnd' = [fnd EXCEPT ![t] = [NoFnd EXCEPT !.slot = fnd[t].slot]]
          \/ fnd' = [fnd EXCEPT ![t] = [NoFnd EXCEPT !.slot = fnd[t].slot + 1]]
          \/ FindReturn(t, NotFound, empty_slot)
      BY <1>7 DEF FndRecheck2
    <3> QED BY <3>1, <3>2, <3>3, <3>4, FindReturns
  <2>4. CASE ~MoreSlots(t) /\ FindReturn(t, NotFound, empty_slot)
    BY <2>1, <2>4, FindReturns DEF SearchOf, AnswersOf, Searching
  <2> QED BY <1>7, <2>3, <2>4 DEF FndRecheck2
<1>8. CASE RemCas(t)
  <2>1. pc[t] = "rem_cas"
    BY <1>8 DEF RemCas
  <2>2. CASE Return(t, "true")
    BY <1>2, <2>1, <2>2 DEF SearchOf, AnswersOf, Searching
  <2>3. CASE RemRetry(t) /\ UNCHANGED fnd
    <3>1. pc'[t] = "fnd_first"
      BY <1>1, <2>3 DEF RemRetry, Goto
    <3> QED BY <2>1, <2>3, <3>1 DEF SearchOf, AnswersOf, Searching
  <2> QED BY <1>8, <2>2, <2>3 DEF RemCas
<1>9. CASE RelocateStep(t)
  <2>1. pc[t] \in InInsert /\ UNCHANGED fnd
    BY <1>9 DEF RelocateStep, RelProbe, RelHold1, RelReload, RelSrc, RelReloadSrc, RelDst,
       RelHold2, RelEnd, InInsert
  <2>2. pc'[t] \in {"hlp_load"} \cup InInsert
    BY <1>1, <1>9 DEF RelocateStep, RelProbe, RelHold1, RelReload, RelSrc, RelReloadSrc, RelDst,
       RelHold2, RelEnd, PathStep, SourceStep, RelReturn, CallHelp, Goto, InInsert
  <2> QED BY <2>1, <2>2 DEF SearchOf, AnswersOf, Searching, InInsert
<1>10. CASE HelpStep(t)
  <2>1. pc[t] \in HelpLabels /\ UNCHANGED fnd
    BY <1>10 DEF HelpStep, HlpLoad, HlpHold1, HlpMark, HlpDst, HlpHold2, HlpCheck, HlpMove,
       HlpClear, HlpDone, HlpBusy, DestCas, HelpLabels, callers
  <2>2. hlp[t].ret \in {"fnd_first", "rel_reload", "rel_src", "rel_reload_src"}
    BY <2>1, FrameTypes DEF HlpOK
  <2>3. pc'[t] \in HelpLabels \cup {hlp[t].ret}
    BY <1>1, <1>10, <2>1 DEF HelpStep, HlpLoad, HlpHold1, HlpMark, HlpDst, HlpHold2, HlpCheck,
       HlpMove, HlpClear, HlpDone, HlpBusy, DestCas, Abort, HlpReturn, Goto, HelpLabels
  <2> QED BY <2>1, <2>2, <2>3 DEF SearchOf, AnswersOf, Searching, HelpLabels
<1> QED BY <1>3, <1>4, <1>5, <1>6, <1>7, <1>8, <1>9, <1>10 DEF Step, FindStep

-----------------------------------------------------------------------------
(***************************************************************************)
(* The invariant                                                           *)
(***************************************************************************)
(* Unless it begins in this step, a search keeps of the slots that have stayed at
   most those that hold the same entry still. *)
LEMMA RecordedIs ==
  ASSUME NEW t \in Thread, ~(pc[t] = "idle" /\ pc'[t] # "idle")
  PROVE  /\ Recorded(t) \subseteq {l \in stayed[t] : hash_table'[l].real = hash_table[l].real}
         /\ Recorded(t) # {} => pc'[t] # "idle" /\ call'[t].op # "insert"
<1>1. CASE pc'[t] = "idle" \/ call'[t].op = "insert"
  BY <1>1 DEF Recorded
<1>2. CASE ~(pc'[t] = "idle" \/ call'[t].op = "insert")
  BY <1>2 DEF Recorded
<1> QED BY <1>1, <1>2

(* When a search begins, the slots that hold an item of its key are in the two
   buckets of the key. *)
LEMMA RecordedFirst ==
  ASSUME Unambiguous, IInv, Placement, NEW t \in Thread, pc[t] = "idle", pc'[t] # "idle",
         call'[t].op # "insert", call'[t].key \in Key
  PROVE  /\ Recorded(t) = HoldersOf(md5_fingerprint[call'[t].key])
         /\ \A l \in Recorded(t) : /\ l \in Location /\ l[2] >= 0
                                   /\ l[1] \in {hash1(call'[t].key), hash2(call'[t].key)}
<1> DEFINE k == call'[t].key
<1>1. Recorded(t) = HoldersOf(md5_fingerprint[k])
  BY DEF Recorded
<1>2. ASSUME NEW l \in Recorded(t)
      PROVE  l \in Location /\ l[2] >= 0 /\ l[1] \in {hash1(k), hash2(k)}
  <2>1. /\ l \in Location /\ hash_table[l].real # NULL
        /\ heap[hash_table[l].real] = md5_fingerprint[k]
    BY <1>1 DEF HoldersOf
  <2>2. Examined(md5_fingerprint[k], l[1])
    BY <2>1 DEF Placement
  <2>3. PICK j \in Key : md5_fingerprint[j] = md5_fingerprint[k] /\ l[1] \in {hash1(j), hash2(j)}
    BY <2>2 DEF Examined
  <2>4. {hash1(j), hash2(j)} = {hash1(k), hash2(k)}
    BY <2>3 DEF Unambiguous
  <2>5. l[2] >= 0
    BY <2>1, PartialKeyAssumption DEF Location, Slot
  <2> QED BY <2>1, <2>3, <2>4, <2>5
<1> QED BY <1>1, <1>2

(* Thread t goes on, or another one does: what has stayed is in the slots that are
   still ahead. *)
LEMMA StepSearchInv ==
  ASSUME IInv, SearchInv, NEW t \in Thread, Step(t),
         stayed' = [u \in Thread |-> Recorded(u)]
  PROVE  SearchInv'
<1>1. ActsFor(t) /\ SearchOf(t) /\ pc[t] # "idle" /\ \A u \in Thread \ {t} : fnd'[u] = fnd[u]
  BY StepActsFor, StepSearch
<1>2. ASSUME NEW u \in Thread
      PROVE  /\ stayed'[u] \subseteq {l \in stayed[u] : hash_table'[l].real = hash_table[l].real}
             /\ stayed'[u] # {} => pc'[u] # "idle" /\ call'[u].op # "insert"
             /\ StayedOK(u) /\ SearchOK(u) /\ stayed[u] \subseteq Location
             /\ fnd[u].slot \in Slot
  <2>1. ~(pc[u] = "idle" /\ pc'[u] # "idle")
    BY <1>1 DEF ActsFor, Untouched
  <2>2. fnd[u] \in FndFrame
    BY DEF IInv, TypeOK
  <2> QED BY <2>1, <2>2, RecordedIs DEF SearchInv, FndFrame
<1>3. ASSUME NEW u \in Thread, NEW l \in stayed'[u]
      PROVE  /\ l \in Location /\ l \in stayed[u] /\ hash_table'[l].real # NULL
             /\ heap'[hash_table'[l].real] = fingerprint(u)'
             /\ l[1] \in {hash1(call'[u].key), hash2(call'[u].key)}
             /\ l[2] >= fnd[u].slot
  <2>1. UNCHANGED <<heap, call>>
    BY <1>1 DEF ActsFor
  <2> QED BY <1>2, <1>3, <2>1 DEF StayedOK, fingerprint
<1>4. ASSUME NEW u \in Thread PROVE StayedOK(u)'
  <2> SUFFICES ASSUME NEW l \in stayed'[u] PROVE l[2] >= fnd'[u].slot
    BY <1>2, <1>3 DEF StayedOK
  <2>1. l[2] >= fnd[u].slot /\ l \in Location /\ l[2] \in Slot
    BY <1>3 DEF Location
  <2>2. CASE u # t \/ fnd'[u].slot = fnd[u].slot
    BY <1>1, <2>1, <2>2
  <2>3. CASE u = t /\ fnd'[t].slot = 0
    BY <2>1, <2>3, PartialKeyAssumption DEF Slot
  <2>4. CASE u = t /\ pc[t] = "fnd_recheck2" /\ fnd'[t].slot = fnd[t].slot + 1
    <3>1. /\ l # FirstSlot(t) /\ l # SecondSlot(t)
          /\ l[1] \in {hash1(call[t].key), hash2(call[t].key)}
      BY <1>2, <1>3, <2>4 DEF SearchOK, StayedOK
    <3>2. l[2] # fnd[t].slot
      BY <2>1, <3>1 DEF Location, FirstSlot, SecondSlot
    <3>3. fnd[t].slot \in Slot
      BY <1>2
    <3> QED BY <2>1, <2>4, <3>2, <3>3, PartialKeyAssumption DEF Slot
  <2> QED BY <1>1, <2>2, <2>3, <2>4 DEF SearchOf, LoadsFrom, NoMatch
<1>5. ASSUME NEW u \in Thread PROVE SearchOK(u)'
  <2>1. ins'[u].entry # NULL => call'[u].op = "insert"
    BY <1>1, <1>2 DEF ActsFor, Untouched, SearchOK
  <2>2. CASE u # t
    <3>1. /\ pc'[u] = pc[u] /\ fnd'[u] = fnd[u]
          /\ FirstSlot(u)' = FirstSlot(u) /\ SecondSlot(u)' = SecondSlot(u)
      BY <1>1, <2>2 DEF ActsFor, Untouched, FirstSlot, SecondSlot
    <3>2. \A l : HasRead(u, l) => HasRead(u, l)'
      BY <1>2, <3>1 DEF HasRead
    <3> QED BY <1>2, <2>1, <3>1, <3>2 DEF SearchOK
  <2>3. CASE u = t /\ pc'[t] \notin Searching
    BY <1>1, <2>1, <2>3 DEF SearchOf, SearchOK, LoadsFrom, NoMatch, Searching
  <2>4. CASE u = t /\ pc'[t] \in Searching
    <3>1. UNCHANGED call /\ fnd'[t].slot = fnd[t].slot
      BY <1>1, <2>4 DEF SearchOf, LoadsFrom, NoMatch, ActsFor, Searching
    <3>2. FirstSlot(t)' = FirstSlot(t) /\ SecondSlot(t)' = SecondSlot(t)
      BY <3>1 DEF FirstSlot, SecondSlot
    <3>3. stayed'[t] \subseteq stayed[t] /\ SearchOK(t)
      BY <1>2
    <3>4. ASSUME NEW l, HasRead(t, l), NoMatch(t) PROVE l \notin stayed'[t]
      BY <1>2, <3>4 DEF StayedOK, HasRead, NoMatch
    <3>5. ASSUME NEW l, LoadsFrom(t, l) PROVE HasRead(t, l)'
      BY <3>5 DEF LoadsFrom, HasRead
    <3>6. CASE pc'[t] = "fnd_hold1"
      <4>1. LoadsFrom(t, FirstSlot(t))
        BY <1>1, <3>6 DEF SearchOf, Searching
      <4> QED BY <2>1, <2>4, <3>2, <3>5, <3>6, <4>1 DEF SearchOK
    <3>7. CASE pc'[t] = "fnd_second"
      <4>1. NoMatch(t) /\ pc[t] = "fnd_hold1"
        BY <1>1, <3>7 DEF SearchOf, Searching
      <4> QED BY <2>1, <2>4, <3>2, <3>3, <3>4, <3>7, <4>1 DEF SearchOK
    <3>8. CASE pc'[t] = "fnd_hold2"
      <4>1. LoadsFrom(t, SecondSlot(t)) /\ pc[t] = "fnd_second"
        BY <1>1, <3>8 DEF SearchOf, Searching
      <4> QED BY <2>1, <2>4, <3>2, <3>3, <3>5, <3>8, <4>1 DEF SearchOK
    <3>9. CASE pc'[t] = "fnd_recheck1"
      <4>1. NoMatch(t) /\ pc[t] = "fnd_hold2"
        BY <1>1, <3>9 DEF SearchOf, Searching
      <4> QED BY <2>1, <2>4, <3>2, <3>3, <3>4, <3>9, <4>1 DEF SearchOK
    <3>10. CASE pc'[t] = "fnd_recheck2"
      <4>1. pc[t] = "fnd_recheck1"
        BY <1>1, <3>10 DEF SearchOf, Searching
      <4> QED BY <2>1, <2>4, <3>2, <3>3, <3>10, <4>1 DEF SearchOK
    <3> QED BY <2>4, <3>6, <3>7, <3>8, <3>9, <3>10 DEF Searching
  <2> QED BY <2>2, <2>3, <2>4
<1>6. stayed' \in [Thread -> SUBSET Location]
  BY <1>2
<1> QED BY <1>4, <1>5, <1>6 DEF SearchInv

(* What a call that begins leaves alone. *)
LEMMA NewCallSearch ==
  ASSUME IInv, NEW t \in Thread, NewCall(t)
  PROVE  /\ UNCHANGED fnd /\ call'[t].key \in Key
         /\ call'[t].op # "insert" => UNCHANGED heap /\ ins'[t].entry = NULL
<1>1. PICK k \in Key : InsertCall(t, k) \/ FindCall(t, k) \/ RemoveCall(t, k)
  BY DEF NewCall
<1>2. call \in [Thread -> [op : Op, key : Key] \cup {NoCall}]
  BY DEF IInv, TypeOK
<1>3. ASSUME NEW op, NEW l, Begin(t, op, k, l)
      PROVE  call'[t].key = k /\ call'[t].op = op /\ pc[t] = "idle"
  BY <1>2, <1>3 DEF Begin
<1>4. CASE InsertCall(t, k)
  BY <1>3, <1>4 DEF InsertCall
<1>5. CASE FindCall(t, k) \/ RemoveCall(t, k)
  <2>1. call'[t].key = k /\ pc[t] = "idle" /\ UNCHANGED <<fnd, heap, ins>>
    BY <1>3, <1>5 DEF FindCall, RemoveCall, shared, others
  <2> QED BY <2>1, IdleFrames
<1> QED BY <1>1, <1>4, <1>5

(* The history of a call begins with the slots that hold its key: all of them
   are in the two buckets of the key, and none has been passed. *)
LEMMA NewCallSearchInv ==
  ASSUME Unambiguous, IInv, Placement, SearchInv, NEW t \in Thread, NewCall(t),
         stayed' = [u \in Thread |-> Recorded(u)]
  PROVE  SearchInv'
<1>1. /\ pc[t] = "idle" /\ pc'[t] \in {"ins_read", "fnd_first"}
      /\ UNCHANGED <<hash_table, fnd>> /\ call'[t].key \in Key
      /\ \A u \in Thread \ {t} : Untouched(u)
      /\ \A a \in AddressOrNull : a # NULL /\ Alive(a) => heap'[a] = heap[a]
      /\ call'[t].op # "insert" => UNCHANGED heap /\ ins'[t].entry = NULL
  BY NewCallActs, NewCallSearch
<1>2. \A u \in Thread : StayedOK(u) /\ SearchOK(u) /\ stayed[u] \subseteq Location
  BY DEF SearchInv
<1>3. ASSUME NEW u \in Thread, u # t
      PROVE  StayedOK(u)' /\ SearchOK(u)' /\ stayed'[u] \subseteq Location
  <2>1. /\ stayed'[u] \subseteq stayed[u]
        /\ stayed'[u] # {} => pc'[u] # "idle" /\ call'[u].op # "insert"
    BY <1>1, <1>3, RecordedIs DEF Untouched
  <2>2. /\ pc'[u] = pc[u] /\ call'[u] = call[u] /\ ins'[u] = ins[u] /\ fnd'[u] = fnd[u]
        /\ fingerprint(u)' = fingerprint(u)
    BY <1>1, <1>3 DEF Untouched, fingerprint
  <2>3. \A l \in stayed'[u] : heap'[hash_table[l].real] = heap[hash_table[l].real]
    BY <1>1, <1>2, <2>1, ReadTypes DEF StayedOK
  <2>4. StayedOK(u)'
    BY <1>1, <1>2, <2>1, <2>2, <2>3 DEF StayedOK
  <2>5. SearchOK(u)'
    BY <1>1, <1>2, <2>1, <2>2 DEF SearchOK, HasRead, FirstSlot, SecondSlot
  <2> QED BY <1>2, <2>1, <2>4, <2>5
<1>4. fnd[t].slot = 0
  BY <1>1, <1>2 DEF SearchOK
<1>5. StayedOK(t)' /\ SearchOK(t)' /\ stayed'[t] \subseteq Location
  <2>1. SearchOK(t)'
    BY <1>1 DEF SearchOK
  <2>2. CASE call'[t].op = "insert"
    <3>1. stayed'[t] = {}
      BY <2>2 DEF Recorded
    <3>2. StayedOK(t)'
      BY <3>1 DEF StayedOK
    <3> QED BY <2>1, <3>1, <3>2
  <2>3. CASE call'[t].op # "insert"
    <3>1. /\ stayed'[t] = HoldersOf(md5_fingerprint[call'[t].key])
          /\ \A l \in stayed'[t] : /\ l \in Location /\ l[2] >= 0
                                   /\ l[1] \in {hash1(call'[t].key), hash2(call'[t].key)}
      BY <1>1, <2>3, RecordedFirst
    <3>2. \A l \in stayed'[t] : /\ hash_table'[l].real # NULL
                                /\ heap'[hash_table'[l].real] = fingerprint(t)'
      BY <1>1, <2>3, <3>1 DEF HoldersOf, fingerprint
    <3> QED BY <1>1, <1>4, <2>1, <2>3, <3>1, <3>2 DEF StayedOK
  <2> QED BY <2>2, <2>3
<1>6. stayed' \in [Thread -> SUBSET Location]
  BY <1>3, <1>5
<1> QED BY <1>3, <1>5, <1>6 DEF SearchInv

(* No search has begun, or none goes on. *)
LEMMA RestSearchInv ==
  ASSUME IInv, SearchInv, stayed' = [u \in Thread |-> Recorded(u)],
         Reset \/ Destroy \/ UNCHANGED vars
  PROVE  SearchInv'
<1>1. UNCHANGED <<pc, call, ins, fnd>>
  BY DEF Reset, Destroy, vars, callers, calls
<1>2. ASSUME NEW u \in Thread
      PROVE  /\ stayed'[u] \subseteq stayed[u] /\ stayed'[u] \subseteq Location
             /\ stayed'[u] # {} => pc'[u] # "idle" /\ call'[u].op # "insert"
             /\ StayedOK(u) /\ SearchOK(u)
  BY <1>1, RecordedIs DEF SearchInv
<1>3. ASSUME NEW u \in Thread PROVE StayedOK(u)'
  <2>1. CASE stayed'[u] = {}
    BY <2>1 DEF StayedOK
  <2>2. CASE stayed'[u] # {}
    <3>1. ~AllIdle
      BY <1>1, <1>2, <2>2 DEF AllIdle
    <3>2. UNCHANGED <<hash_table, heap>>
      BY <3>1 DEF Reset, Destroy, DeleteAll, vars, shared, others
    <3> QED BY <1>1, <1>2, <3>2 DEF StayedOK, fingerprint
  <2> QED BY <2>1, <2>2
<1>4. ASSUME NEW u \in Thread PROVE SearchOK(u)'
  <2>1. CASE pc[u] = "idle"
    BY <1>1, <1>2, <2>1 DEF SearchOK
  <2>2. CASE pc[u] # "idle"
    <3>4. ~AllIdle
      BY <2>2 DEF AllIdle
    <3>1. UNCHANGED hash_table
      BY <3>4 DEF Reset, Destroy, DeleteAll, vars, shared, others
    <3>2. /\ FirstSlot(u)' = FirstSlot(u) /\ SecondSlot(u)' = SecondSlot(u)
          /\ \A l : HasRead(u, l) => HasRead(u, l)'
      BY <1>1, <1>2, <3>1 DEF FirstSlot, SecondSlot, HasRead
    <3> QED BY <1>1, <1>2, <3>2 DEF SearchOK
  <2> QED BY <2>1, <2>2
<1> QED BY <1>2, <1>3, <1>4 DEF SearchInv

(* No search has begun. *)
LEMMA InitSearchInv == HistoryInit => SearchInv
<1> SUFFICES ASSUME HistoryInit PROVE SearchInv
  OBVIOUS
<1>1. \A t \in Thread : /\ pc[t] = "idle" /\ fnd[t].slot = 0 /\ stayed[t] = {}
                        /\ ins[t].entry = NULL
  BY NoFrameTypes DEF HistoryInit, Init, NoFnd
<1>2. stayed \in [Thread -> SUBSET Location]
  BY DEF HistoryInit
<1> QED BY <1>1, <1>2 DEF SearchInv, StayedOK, SearchOK

(* Every step preserves the invariant. *)
LEMMA NextSearchInv ==
  Unambiguous /\ IInv /\ Placement /\ SearchInv /\ [HistoryNext]_<<vars, stayed>> => SearchInv'
<1> SUFFICES ASSUME Unambiguous, IInv, Placement, SearchInv, [HistoryNext]_<<vars, stayed>>
             PROVE  SearchInv'
  OBVIOUS
<1>1. CASE HistoryNext
  BY <1>1, StepSearchInv, NewCallSearchInv, RestSearchInv DEF HistoryNext, Next, Halted
<1>2. CASE UNCHANGED <<vars, stayed>>
  BY <1>2 DEF vars, shared, others, callers, calls, SearchInv, StayedOK, SearchOK, HasRead,
     FirstSlot, SecondSlot, fingerprint
<1> QED BY <1>1, <1>2

-----------------------------------------------------------------------------
(***************************************************************************)
(* The theorems                                                            *)
(***************************************************************************)
(* The history variable only watches: its behaviours are those of the filter. *)
LEMMA HistoryIsSpec == HistorySpec => Spec
<1>1. HistoryInit => Init
  BY DEF HistoryInit
<1>2. [HistoryNext]_<<vars, stayed>> => [Next]_vars
  BY DEF HistoryNext
<1> QED BY <1>1, <1>2, PTL DEF HistorySpec, Spec

(* No slot that a search has passed has held an item of its key all the time. *)
THEOREM SearchKeepsTrack == ASSUME Involutive, Unambiguous PROVE HistorySpec => []SearchInv
<1>1. IInv /\ Placement /\ SearchInv /\ [HistoryNext]_<<vars, stayed>> => SearchInv'
  BY NextSearchInv
<1> QED BY <1>1, InitSearchInv, HistoryIsSpec, Invariance, EntriesInPlace, PTL DEF HistorySpec

(* find and remove answer "false" only if no item of the key has stayed in one slot
   for the whole of the call, however many threads insert, remove and relocate. *)
THEOREM StayingItemIsFound == ASSUME Involutive, Unambiguous PROVE HistorySpec => StayingIsFound
<1>1. ASSUME IInv, SearchInv, [HistoryNext]_<<vars, stayed>>, NEW t \in Thread,
             pc[t] # "idle", pc'[t] = "idle", result'[t] = "false", call[t].op # "insert"
      PROVE  stayed[t] = {}
  <2>1. Step(t)
    <3>1. Next
      BY <1>1 DEF HistoryNext, vars
    <3>2. ASSUME NEW u \in Thread, NewCall(u) \/ (Step(u) /\ u # t) PROVE FALSE
      BY <1>1, <3>2, NewCallActs, StepActsFor DEF ActsFor, Untouched
    <3>3. ~(Reset \/ Destroy) /\ ~Halted
      BY <1>1 DEF Reset, Destroy, Halted, vars
    <3> QED BY <3>1, <3>2, <3>3 DEF Next
  <2>2. pc[t] = "fnd_recheck2" /\ ~MoreSlots(t)
    BY <1>1, <2>1, StepSearch DEF AnswersOf, SearchInv, SearchOK
  <2> SUFFICES ASSUME NEW l \in stayed[t] PROVE FALSE
    OBVIOUS
  <2>3. /\ l \in Location /\ l # FirstSlot(t) /\ l # SecondSlot(t)
        /\ l[1] \in {hash1(call[t].key), hash2(call[t].key)} /\ l[2] >= fnd[t].slot
    BY <1>1, <2>2 DEF SearchInv, StayedOK, SearchOK
  <2>4. l[2] # fnd[t].slot /\ l[2] \in Slot
    BY <2>3 DEF Location, FirstSlot, SecondSlot
  <2>5. fnd[t].slot \in Slot
    BY <1>1 DEF IInv, TypeOK, FndFrame
  <2> QED BY <2>2, <2>3, <2>4, <2>5, PartialKeyAssumption DEF MoreSlots, Slot
<1>2. IInv /\ SearchInv /\ [HistoryNext]_<<vars, stayed>> =>
        [\A t \in Thread :
           pc[t] # "idle" /\ pc'[t] = "idle" /\ result'[t] = "false" /\ call[t].op # "insert"
             => stayed[t] = {}]_<<vars, stayed>>
  BY <1>1
<1> QED BY <1>2, HistoryIsSpec, Invariance, SearchKeepsTrack, PTL DEF HistorySpec, StayingIsFound
=============================================================================
