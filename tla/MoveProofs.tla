----------------------------- MODULE MoveProofs -----------------------------
(***************************************************************************)
(* Theorems about the moves of LockFreeFilter: no entry is lost or left in *)
(* two slots, a marked slot is only cleared, and the late exits of         *)
(* help_relocate change nothing.                                           *)
(***************************************************************************)
EXTENDS MoveInvariant, LockFreeFilterProofs

(***************************************************************************)
(* What a step does to the table and to the frame of help_relocate         *)
(***************************************************************************)
(* A swap leaves w in l. *)
Writes(l, w) ==
  /\ l \in Location /\ hash_table'[l] = w
  /\ \A m \in Location \ {l} : hash_table'[m] = hash_table[m]

(* The thread is out of a move, or still holds what it has read. *)
Left(t) == pc'[t] \notin HelpLabels \ {"hlp_load"} /\ hlp'[t].ptr1.real = NULL
Kept(t) ==
  hlp'[t].idx = hlp[t].idx /\ hlp'[t].slot = hlp[t].slot /\ hlp'[t].ptr1 = hlp[t].ptr1

(* No swap, and nothing of a move in hand. *)
Pauses(t) ==
  /\ UNCHANGED hash_table /\ Left(t)
  /\ pc[t] = "hlp_clear" => ~SourceHeld(t)

Loads(t) ==
  /\ pc[t] = "hlp_load" /\ UNCHANGED hash_table
  /\ hlp'[t].idx = hlp[t].idx /\ hlp'[t].slot = hlp[t].slot
  /\ hlp'[t].ptr1 = hash_table[HlpSource(t)]
  /\ pc'[t] = "hlp_hold1"

(* The source turns out to be marked, or not. *)
Meets(t) ==
  /\ pc[t] = "hlp_hold1" /\ UNCHANGED <<hash_table, hlp>>
  /\ pc'[t] = IF hlp[t].ptr1.marked THEN "hlp_dst" ELSE "hlp_mark"

Looks(t) ==
  /\ pc[t] = "hlp_dst" /\ UNCHANGED hash_table /\ Kept(t)
  /\ hlp'[t].ptr2 = hash_table[HlpDest(t)]
  /\ pc'[t] = "hlp_hold2"

(* The destination turns out to be empty, to have the item, or to be taken. *)
Finds(t) ==
  /\ pc[t] = "hlp_hold2" /\ UNCHANGED <<hash_table, hlp>>
  /\ \/ pc'[t] = "hlp_check" /\ hlp[t].ptr2.real = NULL
     \/ pc'[t] \in {"hlp_done", "hlp_busy"}

Checks(t) ==
  /\ pc[t] = "hlp_check" /\ SourceHeld(t) /\ pc'[t] = "hlp_move"
  /\ UNCHANGED <<hash_table, hlp>>

(* The swap to the destination fails, or the process aborts. *)
Waits(t) ==
  /\ pc[t] \in {"hlp_move", "hlp_done", "hlp_busy"} /\ pc'[t] \in {pc[t], "hlp_busy"}
  /\ UNCHANGED <<hash_table, hlp>>

Moves(t) ==
  /\ pc[t] = "hlp_move" /\ pc'[t] = "hlp_clear" /\ UNCHANGED hlp
  /\ Holds(HlpDest(t), hlp[t].ptr2)
  /\ Writes(HlpDest(t),
            create_pointer(MovedCounter(hlp[t].ptr1.counter, hlp[t].ptr2.counter),
                           hlp[t].ptr1.real, FALSE))

Marks(t) ==
  /\ pc[t] = "hlp_mark" /\ SourceHeld(t) /\ Left(t)
  /\ Writes(HlpSource(t), get_new_mark(hlp[t].ptr1, TRUE))

Clears(t) ==
  /\ pc[t] = "hlp_clear" /\ SourceHeld(t) /\ Left(t)
  /\ Writes(HlpSource(t), Vacated(hlp[t].ptr1))

Inserts(t) ==
  /\ pc[t] = "ins_cas" /\ Holds(Probed(t), ins[t].ptr1) /\ Left(t) /\ ins'[t].entry = NULL
  /\ Writes(Probed(t), create_pointer(ins[t].ptr1.counter, ins[t].entry, FALSE))

Removes(t) ==
  /\ pc[t] = "rem_cas" /\ Holds(RemLocation(t), rem[t].ptr1) /\ Left(t)
  /\ Writes(RemLocation(t), create_pointer(rem[t].ptr1.counter, NULL, FALSE))

(* What a step may do to the table. *)
Effect(t) ==
  \/ Pauses(t) \/ Loads(t) \/ Meets(t) \/ Looks(t) \/ Finds(t) \/ Checks(t) \/ Waits(t)
  \/ Moves(t) \/ Marks(t) \/ Clears(t) \/ Inserts(t) \/ Removes(t)

(* A swap that succeeds writes one location. *)
LEMMA SwapWrites ==
  ASSUME IInv, NEW l \in Location, NEW w, hash_table' = [hash_table EXCEPT ![l] = w]
  PROVE  Writes(l, w)
BY DEF Writes, IInv, TypeOK

(* A step does one of these twelve things to the words of the table: the late exits
   of help_relocate, which would be a thirteenth, never swap. *)
LEMMA StepEffect ==
  ASSUME IInv, LateExitsHarmless, NEW t \in Thread, Step(t)
  PROVE  Effect(t)
<1>1. TypeOK /\ TypeOK' /\ HlpOK(t)'
  BY StepInv DEF IInv, FrameOK
<1>2. ASSUME pc'[t] \notin HelpLabels \ {"hlp_load"} PROVE Left(t)
  BY <1>1, <1>2 DEF HlpOK, Left
<1>3. hlp[t] \in HlpFrame /\ hlp \in [Thread -> HlpFrame] /\ pc \in [Thread -> Label]
  BY <1>1 DEF TypeOK
<1>4. pc[t] \in HelpLabels =>
        /\ hlp[t].ret \in {"fnd_first", "rel_reload", "rel_src", "rel_reload_src"}
        /\ HlpSource(t) \in Location
        /\ pc[t] \notin {"hlp_load", "hlp_hold1"} => HlpDest(t) \in Location
  BY FrameTypes, HelpLocations DEF HlpOK
<1>5. ASSUME HlpReturn(t), pc[t] \in HelpLabels PROVE Left(t)
  <2>1. pc'[t] = hlp[t].ret
    BY <1>3, <1>5 DEF HlpReturn, Goto
  <2> QED BY <1>2, <1>4, <1>5, <2>1 DEF HelpLabels
<1>6. CASE InsertStep(t)
  <2>1. pc'[t] \in {"idle", "ins_read", "ins_cas", "ins_kick", "rel_probe"}
    BY <1>3, <1>6 DEF InsertStep, InsRead, InsCas, InsKick, InsFail, NextProbe, Return, Goto
  <2>2. Left(t)
    BY <1>2, <2>1 DEF HelpLabels
  <2>3. CASE InsCas(t)
    <3>1. pc[t] = "ins_cas" /\ Probed(t) \in Location
      BY <2>3, ProbedTypes DEF InsCas, InInsert
    <3>2. Return(t, "true") => ins'[t].entry = NULL
      BY <1>1, NoFrameTypes DEF Return, TypeOK
    <3> QED BY <2>2, <2>3, <3>1, <3>2, SwapWrites DEF InsCas, Store, Effect, Inserts, Pauses
  <2>4. CASE InsRead(t) \/ InsKick(t) \/ InsFail(t)
    BY <2>2, <2>4 DEF InsRead, InsKick, InsFail, shared, Effect, Pauses
  <2> QED BY <1>6, <2>3, <2>4 DEF InsertStep
<1>7. CASE FindStep(t) \/ RemCas(t)
  <2>1. pc'[t] \in {"idle", "hlp_load"} \cup InFind
    BY <1>3, <1>7 DEF FindStep, FndFirst, FndHold1, FndSecond, FndHold2, FndRecheck1, FndRecheck2,
       FirstRound, FindReturn, Return, CallHelp, RemCas, RemRetry, Goto, InFind
  <2>2. Left(t)
    BY <1>2, <2>1 DEF HelpLabels, InFind
  <2>3. CASE RemCas(t)
    <3>1. pc[t] = "rem_cas" /\ RemLocation(t) \in Location
      BY <2>3, RemLocationTypes DEF RemCas
    <3> QED BY <2>2, <2>3, <3>1, SwapWrites DEF RemCas, Store, Effect, Removes, Pauses
  <2>4. CASE FindStep(t)
    BY <2>2, <2>4 DEF FindStep, FndFirst, FndHold1, FndSecond, FndHold2, FndRecheck1, FndRecheck2,
       shared, Effect, Pauses
  <2> QED BY <1>7, <2>3, <2>4
<1>8. CASE RelocateStep(t)
  <2>1. pc'[t] \in {"hlp_load"} \cup InInsert
    BY <1>3, <1>8 DEF RelocateStep, RelProbe, RelHold1, RelReload, RelSrc, RelReloadSrc, RelDst,
       RelHold2, RelEnd, PathStep, SourceStep, RelReturn, CallHelp, Goto, InInsert
  <2>2. Left(t)
    BY <1>2, <2>1 DEF HelpLabels, InInsert
  <2> QED BY <1>8, <2>2 DEF RelocateStep, RelProbe, RelHold1, RelReload, RelSrc, RelReloadSrc,
       RelDst, RelHold2, RelEnd, shared, Effect, Pauses
<1>9. CASE HlpLoad(t)
  <2>1. /\ pc'[t] = "hlp_hold1" /\ hlp'[t].ptr1 = hash_table[HlpSource(t)]
        /\ hlp'[t].idx = hlp[t].idx /\ hlp'[t].slot = hlp[t].slot
    BY <1>3, <1>9 DEF HlpLoad, Goto, HlpFrame
  <2> QED BY <1>9, <2>1 DEF HlpLoad, shared, Effect, Loads
<1>16. CASE HlpHold1(t)
  <2>1. CASE HlpReturn(t)
    BY <1>5, <1>16, <2>1 DEF HlpHold1, HelpLabels, shared, Effect, Pauses
  <2>2. CASE ~HlpReturn(t)
    <3>1. UNCHANGED hlp /\ pc'[t] = IF hlp[t].ptr1.marked THEN "hlp_dst" ELSE "hlp_mark"
      BY <1>3, <1>16, <2>2 DEF HlpHold1, Goto
    <3> QED BY <1>16, <3>1 DEF HlpHold1, shared, Effect, Meets
  <2> QED BY <2>1, <2>2
<1>10. CASE HlpMark(t)
  <2>1. pc'[t] = "hlp_load" /\ pc[t] = "hlp_mark"
    BY <1>3, <1>10 DEF HlpMark, Goto
  <2>2. Left(t) /\ HlpSource(t) \in Location
    BY <1>2, <1>4, <2>1 DEF HelpLabels
  <2> QED BY <1>10, <2>1, <2>2, SwapWrites DEF HlpMark, CAS, SourceHeld, Effect, Marks, Pauses
<1>11. CASE HlpDst(t)
  <2>1. Kept(t) /\ hlp'[t].ptr2 = hash_table[HlpDest(t)]
    BY <1>3, <1>11 DEF HlpDst, HlpFrame, Kept
  <2>2. pc'[t] = "hlp_hold2"
    BY <1>3, <1>11 DEF HlpDst, Goto
  <2> QED BY <1>11, <2>1, <2>2 DEF HlpDst, shared, Effect, Looks
<1>17. CASE HlpHold2(t)
  <2>1. \/ pc'[t] = "hlp_check" /\ hlp[t].ptr2.real = NULL
        \/ pc'[t] \in {"hlp_done", "hlp_busy"}
    BY <1>3, <1>17 DEF HlpHold2, Goto
  <2> QED BY <1>17, <2>1 DEF HlpHold2, shared, Effect, Finds
<1>12. CASE HlpCheck(t)
  <2>1. CASE pc'[t] = "hlp_load"
    BY <1>2, <1>12, <2>1 DEF HlpCheck, shared, Effect, Pauses
  <2>2. CASE pc'[t] # "hlp_load"
    <3>1. pc'[t] = "hlp_move" /\ hlp' = hlp /\ SourceHeld(t)
      BY <1>3, <1>12, <2>2 DEF HlpCheck, Goto, SourceHeld
    <3> QED BY <1>12, <3>1 DEF HlpCheck, shared, Effect, Checks
  <2> QED BY <2>1, <2>2
<1>13. CASE HlpMove(t)
  <2>1. pc[t] = "hlp_move" /\ HlpDest(t) \in Location
    BY <1>4, <1>13 DEF HlpMove, HelpLabels
  <2>2. CASE Abort
    BY <2>1, <2>2 DEF Abort, Effect, Waits
  <2>3. CASE ~Abort /\ ~Holds(HlpDest(t), hlp[t].ptr2)
    <3>1. pc'[t] = "hlp_busy" /\ UNCHANGED <<hash_table, hlp>>
      BY <1>3, <1>13, <2>3 DEF HlpMove, Goto
    <3> QED BY <2>1, <3>1 DEF Effect, Waits
  <2>4. CASE ~Abort /\ Holds(HlpDest(t), hlp[t].ptr2)
    <3>1. pc'[t] = "hlp_clear" /\ UNCHANGED hlp
      BY <1>3, <1>13, <2>4 DEF HlpMove, Goto
    <3>2. Store(HlpDest(t),
                create_pointer(MovedCounter(hlp[t].ptr1.counter, hlp[t].ptr2.counter),
                               hlp[t].ptr1.real, FALSE))
      BY <1>13, <2>4 DEF HlpMove
    <3> QED BY <2>1, <2>4, <3>1, <3>2, SwapWrites DEF Store, Effect, Moves
  <2> QED BY <2>2, <2>3, <2>4
<1>14. CASE HlpClear(t)
  <2>1. pc[t] = "hlp_clear" /\ Left(t) /\ HlpSource(t) \in Location
    BY <1>4, <1>5, <1>14 DEF HlpClear, HelpLabels
  <2> QED BY <1>14, <2>1, SwapWrites DEF HlpClear, CAS, SourceHeld, Effect, Clears, Pauses
<1>15. CASE HlpDone(t) \/ HlpBusy(t)
  <2>1. PICK w : DestCas(t, w)
    BY <1>15 DEF HlpDone, HlpBusy
  <2>2. pc[t] \in {"hlp_done", "hlp_busy"}
    BY <1>15 DEF HlpDone, HlpBusy
  <2>3. ~Holds(HlpDest(t), hlp[t].ptr1)
    BY <2>2 DEF LateExitsHarmless
  <2>4. CASE Abort
    BY <2>2, <2>4 DEF Abort, Effect, Waits
  <2>5. CASE ~Abort
    <3>1. UNCHANGED hash_table /\ HlpReturn(t)
      BY <2>1, <2>3, <2>5 DEF DestCas, CAS
    <3> QED BY <1>5, <2>2, <3>1 DEF HelpLabels, Effect, Pauses
  <2> QED BY <2>4, <2>5
<1> QED BY <1>6, <1>7, <1>8, <1>9, <1>10, <1>11, <1>12, <1>13, <1>14, <1>15,
          <1>16, <1>17 DEF Step, HelpStep
-----------------------------------------------------------------------------
(***************************************************************************)
(* The two places of an entry                                              *)
(***************************************************************************)
(* The source and the destination of a move are two slots, each other's. *)
LEMMA MovePlaces ==
  ASSUME Involutive, TwoBuckets, IInv, NEW t \in Thread, hlp[t].ptr1.real # NULL
  PROVE  /\ HlpSource(t) \in Location /\ HlpDest(t) \in Location
         /\ HlpDest(t) = Other(HlpSource(t), hlp[t].ptr1.real)
         /\ HlpSource(t) = Other(HlpDest(t), hlp[t].ptr1.real)
         /\ HlpSource(t) # HlpDest(t)
         /\ hlp[t].ptr1 \in table_pointer /\ hlp[t].ptr1.real \in Address
         /\ hlp[t].ptr1.counter \in Counter /\ hlp[t].ptr2.counter \in Counter
<1>1. pc[t] \in HelpLabels
  BY FrameTypes DEF HlpOK
<1>2. /\ hlp[t].idx \in Bucket /\ hlp[t].slot \in Slot
      /\ hlp[t].ptr1 \in table_pointer /\ hlp[t].ptr1.real \in AddressOrNull
      /\ hlp[t].ptr1.counter \in Counter /\ hlp[t].ptr2.counter \in Counter
      /\ Alive(hlp[t].ptr1.real)
  BY FrameTypes DEF HlpFrame, table_pointer, Counter, AddressOrNull, HlpOK
<1>3. hlp[t].ptr1.real \in Address /\ heap[hlp[t].ptr1.real] \in Fingerprint
  BY <1>2, AliveFingerprint
<1>4. /\ get_next_hash_index(get_next_hash_index(hlp[t].idx, heap[hlp[t].ptr1.real]),
                             heap[hlp[t].ptr1.real]) = hlp[t].idx
      /\ get_next_hash_index(hlp[t].idx, heap[hlp[t].ptr1.real]) # hlp[t].idx
  BY <1>2, <1>3 DEF Involutive, TwoBuckets
<1>5. HlpSource(t) \in Location /\ HlpDest(t) \in Location
  BY <1>2, <1>3, HashTypes DEF HlpSource, HlpDest, Location
<1> QED BY <1>2, <1>3, <1>4, <1>5 DEF HlpSource, HlpDest, Other

(* Whoever knows the entry that t moves knows it in one of these two slots. *)
LEMMA SamePlaces ==
  ASSUME Involutive, TwoBuckets, IInv, InTwoPlaces, NEW t \in Thread, hlp[t].ptr1.real # NULL
  PROVE  /\ \A l \in Location :
              hash_table[l].real = hlp[t].ptr1.real => l \in {HlpSource(t), HlpDest(t)}
         /\ \A u \in Thread :
              hlp[u].ptr1.real = hlp[t].ptr1.real =>
                \/ HlpSource(u) = HlpSource(t) /\ HlpDest(u) = HlpDest(t)
                \/ HlpSource(u) = HlpDest(t) /\ HlpDest(u) = HlpSource(t)
<1> DEFINE a == hlp[t].ptr1.real
<1>1. a \in Address /\ HlpSource(t) \in Location /\ HlpDest(t) = Other(HlpSource(t), a)
      /\ HlpSource(t) = Other(HlpDest(t), a)
  BY MovePlaces
<1>2. KnownAt(a, HlpSource(t))
  BY DEF KnownAt, HoldsAt
<1>3. \A l \in Location : KnownAt(a, l) => l \in {HlpSource(t), HlpDest(t)}
  BY <1>1, <1>2 DEF InTwoPlaces
<1>4. ASSUME NEW u \in Thread, hlp[u].ptr1.real = a
      PROVE  /\ HlpSource(u) \in {HlpSource(t), HlpDest(t)}
             /\ HlpDest(u) = Other(HlpSource(u), a)
  <2>1. HlpSource(u) \in Location /\ HlpDest(u) = Other(HlpSource(u), a)
    BY <1>4, MovePlaces
  <2>2. KnownAt(a, HlpSource(u))
    BY <1>4 DEF KnownAt, HoldsAt
  <2> QED BY <1>3, <2>1, <2>2
<1> QED BY <1>1, <1>3, <1>4 DEF KnownAt

(* A frame that is kept has the same source and destination. *)
LEMMA SameMove ==
  ASSUME UNCHANGED heap, NEW u, hlp'[u].idx = hlp[u].idx, hlp'[u].slot = hlp[u].slot,
         hlp'[u].ptr1 = hlp[u].ptr1
  PROVE  HlpSource(u)' = HlpSource(u) /\ HlpDest(u)' = HlpDest(u)
BY DEF HlpSource, HlpDest

-----------------------------------------------------------------------------
(***************************************************************************)
(* What becomes of the word of one slot                                    *)
(***************************************************************************)
Change(t, l) ==
  \/ hash_table'[l] = hash_table[l]
  \/ /\ pc[t] = "hlp_mark" /\ ~hash_table[l].marked
     /\ hash_table'[l].real = hash_table[l].real
     /\ hash_table'[l].counter = hash_table[l].counter
  \/ /\ pc[t] = "hlp_clear" /\ l = HlpSource(t) /\ hash_table[l] = hlp[t].ptr1
     /\ hash_table'[l] = Vacated(hash_table[l])
     /\ hash_table'[l].real = NULL /\ hash_table'[l].counter = hash_table[l].counter + 1
  \/ /\ pc[t] = "ins_cas" /\ l = Probed(t) /\ hash_table[l].real = NULL
     /\ hash_table'[l].real = ins[t].entry /\ ins'[t].entry = NULL
  \/ /\ pc[t] = "rem_cas" /\ l = RemLocation(t) /\ hash_table[l] = rem[t].ptr1
     /\ ~hash_table[l].marked /\ hash_table'[l].real = NULL
  \/ /\ pc[t] = "hlp_move" /\ l = HlpDest(t) /\ hash_table[l] = hlp[t].ptr2
     /\ pc'[t] = "hlp_clear" /\ hlp' = hlp
     /\ hash_table[l].real = NULL /\ hash_table'[l].real = hlp[t].ptr1.real
     /\ hash_table'[l].counter > hlp[t].ptr1.counter
     /\ hash_table'[l].counter > hash_table[l].counter

(* The word of one slot changes in one of the ways of Change. *)
LEMMA EffectChanges ==
  ASSUME IInv, NEW t \in Thread, SwapWords(t), Effect(t), NEW l \in Location
  PROVE  Change(t, l)
<1>1. CASE Pauses(t) \/ Loads(t) \/ Meets(t) \/ Looks(t) \/ Finds(t) \/ Checks(t) \/ Waits(t)
  BY <1>1 DEF Pauses, Loads, Meets, Looks, Finds, Checks, Waits, Change
<1>2. CASE Moves(t)
  <2> DEFINE n == MovedCounter(hlp[t].ptr1.counter, hlp[t].ptr2.counter)
             w == create_pointer(n, hlp[t].ptr1.real, FALSE)
  <2>1. n > hlp[t].ptr1.counter /\ n > hlp[t].ptr2.counter
    <3>1. hlp[t].ptr1.counter \in Counter /\ hlp[t].ptr2.counter \in Counter
      BY FrameTypes DEF HlpFrame, table_pointer, Counter
    <3> QED BY <3>1, TablePointerAssumption DEF MovedCounter, Counter
  <2>2. w.counter = n /\ w.real = hlp[t].ptr1.real
    BY DEF create_pointer
  <2>3. Writes(HlpDest(t), w)
    BY <1>2 DEF Moves
  <2> HIDE DEF n, w
  <2> QED BY <1>2, <2>1, <2>2, <2>3 DEF Moves, Writes, Holds, SwapWords, Change
<1>3. CASE Marks(t)
  <2>1. hlp[t].ptr1 \in table_pointer
    BY FrameTypes DEF HlpFrame
  <2>2. /\ get_new_mark(hlp[t].ptr1, TRUE).real = hlp[t].ptr1.real
        /\ get_new_mark(hlp[t].ptr1, TRUE).counter = hlp[t].ptr1.counter
    BY <2>1, MarkTypes
  <2> QED BY <1>3, <2>2 DEF Marks, Writes, SourceHeld, Holds, SwapWords, Change
<1>4. CASE Clears(t)
  <2>1. /\ Vacated(hlp[t].ptr1).real = NULL
        /\ Vacated(hlp[t].ptr1).counter = hlp[t].ptr1.counter + 1
    BY DEF Vacated, create_pointer
  <2> QED BY <1>4, <2>1 DEF Clears, Writes, SourceHeld, Holds, Change
<1>5. CASE Inserts(t)
  <2>1. create_pointer(ins[t].ptr1.counter, ins[t].entry, FALSE).real = ins[t].entry
    BY DEF create_pointer
  <2> QED BY <1>5, <2>1 DEF Inserts, Writes, Holds, SwapWords, Change
<1>6. CASE Removes(t)
  <2>1. create_pointer(rem[t].ptr1.counter, NULL, FALSE).real = NULL
    BY DEF create_pointer
  <2> QED BY <1>6, <2>1 DEF Removes, Writes, Holds, SwapWords, Change
<1> QED BY <1>1, <1>2, <1>3, <1>4, <1>5, <1>6 DEF Effect

-----------------------------------------------------------------------------
(***************************************************************************)
(* What the invariant implies                                              *)
(***************************************************************************)
(* The late exits of help_relocate find their expected word gone. *)
LEMMA LateExits == Involutive /\ TwoBuckets /\ IInv /\ MoveInv => LateExitsHarmless
<1> SUFFICES ASSUME Involutive, TwoBuckets, IInv, MoveInv, NEW t \in Thread,
                    pc[t] \in {"hlp_done", "hlp_busy"}, Holds(HlpDest(t), hlp[t].ptr1)
             PROVE  FALSE
  BY DEF LateExitsHarmless
<1>1. hlp[t].ptr1.real # NULL /\ pc[t] \in MoveLabels
  BY FrameTypes DEF HlpOK, HelpLabels, MoveLabels
<1>2. /\ HlpSource(t) \in Location /\ HlpDest(t) \in Location
      /\ HlpSource(t) # HlpDest(t) /\ hlp[t].ptr1.counter \in Counter
  BY <1>1, MovePlaces
<1>3. hash_table[HlpDest(t)] = hlp[t].ptr1
  BY DEF Holds
<1>4. CASE SourceHeld(t)
  <2>1. hash_table[HlpSource(t)] = hlp[t].ptr1
    BY <1>4 DEF SourceHeld, Holds
  <2> QED BY <1>1, <1>2, <1>3, <2>1 DEF MoveInv, CopiesOK
<1>5. CASE ~SourceHeld(t)
  <2>1. TargetAbove(t, hlp[t].ptr1.counter)
    BY <1>1, <1>5 DEF MoveInv, MoveOK, SourceOK, MeetsMark
  <2> QED BY <1>2, <1>3, <2>1, TablePointerAssumption DEF TargetAbove, Counter
<1> QED BY <1>4, <1>5

(* The second half of CopiesOK is the property of the runs. *)
LEMMA CopiesHaveMover == CopiesOK => DuplicateHasMover
BY DEF CopiesOK, DuplicateHasMover

(***************************************************************************)
(* A step of thread t: what it changes, and what it does not.              *)
(***************************************************************************)
StepOf(t) ==
  /\ UNCHANGED heap
  /\ Effect(t) /\ StoresOf(t) /\ HelpFrameOf(t)
  /\ \A l \in Location :
       /\ Change(t, l)
       /\ hash_table[l].counter \in Counter /\ hash_table'[l].counter \in Counter
       /\ hash_table'[l].counter >= hash_table[l].counter
  /\ ins'[t].entry \in {ins[t].entry, NULL}
  /\ \A u \in Thread \ {t} :
       /\ pc'[u] = pc[u] /\ ins'[u] = ins[u] /\ rem'[u] = rem[u] /\ hlp'[u] = hlp[u]
       /\ HlpSource(u)' = HlpSource(u) /\ HlpDest(u)' = HlpDest(u)

(* Every step of thread t is one of these. *)
LEMMA StepIs ==
  ASSUME Involutive, TwoBuckets, IInv, MoveInv, NEW t \in Thread, Step(t)
  PROVE  StepOf(t)
<1>1. Effect(t)
  BY LateExits, StepEffect
<1>2. ActsFor(t) /\ StoresOf(t) /\ HelpFrameOf(t)
  BY StepActsFor, StepStores, StepHelpFrame
<1>3. ASSUME NEW l \in Location
      PROVE  /\ Change(t, l)
             /\ hash_table[l].counter \in Counter /\ hash_table'[l].counter \in Counter
             /\ hash_table'[l].counter >= hash_table[l].counter
  <2>1. Change(t, l)
    BY <1>1, EffectChanges DEF MoveInv, MoveOK
  <2>2. hash_table \in [Location -> table_pointer] /\ hash_table' \in [Location -> table_pointer]
    BY StepInv DEF IInv, TypeOK
  <2>3. hash_table[l].counter \in Counter /\ hash_table'[l].counter \in Counter
    BY <2>2 DEF table_pointer, Counter
  <2> QED BY <2>1, <2>3, StepMonotonic
<1>4. ASSUME NEW u \in Thread \ {t}
      PROVE  /\ pc'[u] = pc[u] /\ ins'[u] = ins[u] /\ rem'[u] = rem[u] /\ hlp'[u] = hlp[u]
             /\ HlpSource(u)' = HlpSource(u) /\ HlpDest(u)' = HlpDest(u)
  <2>1. /\ pc'[u] = pc[u] /\ ins'[u] = ins[u] /\ rem'[u] = rem[u] /\ hlp'[u] = hlp[u]
        /\ UNCHANGED heap
    BY <1>2 DEF ActsFor, Untouched
  <2> QED BY <2>1, SameMove
<1> QED BY <1>1, <1>2, <1>3, <1>4 DEF StepOf, ActsFor

(* A counter that has been passed stays behind. *)
LEMMA AboveStays ==
  ASSUME Involutive, TwoBuckets, IInv, NEW t \in Thread, StepOf(t),
         NEW u \in Thread, hlp[u].ptr1.real # NULL, HlpDest(u)' = HlpDest(u),
         NEW c \in Counter, TargetAbove(u, c)
  PROVE  TargetAbove(u, c)'
<1>1. HlpDest(u) \in Location
  BY MovePlaces
<1>2. \A x, y \in Counter : x > c /\ y >= x => y > c
  BY TablePointerAssumption DEF Counter
<1> QED BY <1>1, <1>2 DEF StepOf, TargetAbove

-----------------------------------------------------------------------------
(***************************************************************************)
(* The steps of the operations preserve the invariant                      *)
(***************************************************************************)
(* A known place of an entry was known before, or it is where a fresh entry is
   inserted, or where the item of a known place is moved. *)
LEMMA KnownBefore ==
  ASSUME Involutive, TwoBuckets, IInv, MoveInv, NEW t \in Thread, StepOf(t),
         NEW a \in Address, NEW l \in Location, KnownAt(a, l)'
  PROVE  \/ KnownAt(a, l)
         \/ pc[t] = "ins_cas" /\ a = ins[t].entry /\ l = Probed(t)
         \/ hlp[t].ptr1.real = a /\ l = HlpDest(t)
<1>0. a # NULL
  BY TablePointerAssumption
<1>1. CASE hash_table'[l].real = a
  BY <1>0, <1>1 DEF StepOf, StoresOf, KnownAt
<1>2. CASE \E u \in Thread : HoldsAt(u, a, l)'
  <2>1. PICK u \in Thread : HoldsAt(u, a, l)'
    BY <1>2
  <2>2. hlp'[u].ptr1.real = a /\ HlpSource(u)' = l
    BY <2>1 DEF HoldsAt
  <2>3. CASE u # t
    BY <2>2, <2>3 DEF StepOf, KnownAt, HoldsAt
  <2>4. CASE u = t
    <3>1. CASE hlp'[t].idx = hlp[t].idx /\ hlp'[t].slot = hlp[t].slot /\ hlp'[t].ptr1 = hlp[t].ptr1
      <4>1. HlpSource(t)' = HlpSource(t)
        BY <3>1, SameMove DEF StepOf
      <4> QED BY <2>2, <2>4, <3>1, <4>1 DEF KnownAt, HoldsAt
    <3>2. CASE /\ hlp'[t].idx = hlp[t].idx /\ hlp'[t].slot = hlp[t].slot
               /\ hlp'[t].ptr1 = hash_table[HlpSource(t)]
      <4>1. HlpSource(t)' = HlpSource(t)
        BY <3>2 DEF HlpSource
      <4> QED BY <2>2, <2>4, <3>2, <4>1 DEF KnownAt
    <3> QED BY <1>0, <2>2, <2>4, <3>1, <3>2 DEF StepOf, HelpFrameOf
  <2> QED BY <2>3, <2>4
<1> QED BY <1>1, <1>2 DEF KnownAt

(* An entry becomes known in a new slot only as the other one of its item. *)
LEMMA StepTwoPlaces ==
  ASSUME Involutive, TwoBuckets, IInv, MoveInv, NEW t \in Thread, StepOf(t)
  PROVE  InTwoPlaces'
<1> SUFFICES ASSUME NEW a \in Address, NEW l \in Location, NEW m \in Location,
                    KnownAt(a, l)', KnownAt(a, m)'
             PROVE  m \in {l, Other(l, a)}
  BY DEF InTwoPlaces, StepOf, Other
<1>1. InTwoPlaces
  BY DEF MoveInv
<1>2. CASE pc[t] = "ins_cas" /\ a = ins[t].entry
  <2>1. \A x \in Location : ~KnownAt(a, x)
    BY <1>2, FrameTypes, TablePointerAssumption DEF KnownAt, HoldsAt, MoveInv, MoveOK, Fresh
  <2>2. hlp[t].ptr1.real = NULL
    BY <1>2, FrameTypes DEF HlpOK, HelpLabels
  <2>3. a # NULL
    BY TablePointerAssumption
  <2> QED BY <2>1, <2>2, <2>3, KnownBefore
<1>3. CASE hlp[t].ptr1.real = a /\ ~(pc[t] = "ins_cas" /\ a = ins[t].entry)
  <2>1. /\ HlpSource(t) \in Location /\ HlpDest(t) = Other(HlpSource(t), a)
        /\ HlpSource(t) = Other(HlpDest(t), a) /\ KnownAt(a, HlpSource(t))
    BY <1>3, MovePlaces, TablePointerAssumption DEF KnownAt, HoldsAt
  <2>2. l \in {HlpSource(t), HlpDest(t)} /\ m \in {HlpSource(t), HlpDest(t)}
    BY <1>1, <1>3, <2>1, KnownBefore DEF InTwoPlaces
  <2> QED BY <2>1, <2>2
<1>4. CASE hlp[t].ptr1.real # a /\ ~(pc[t] = "ins_cas" /\ a = ins[t].entry)
  BY <1>1, <1>4, KnownBefore DEF InTwoPlaces
<1> QED BY <1>2, <1>3, <1>4

(* An entry not inserted yet stays unknown to all but its insert. *)
LEMMA StepFresh ==
  ASSUME Involutive, TwoBuckets, IInv, MoveInv, NEW t \in Thread, StepOf(t),
         NEW u \in Thread
  PROVE  Fresh(u)'
<1> DEFINE a == ins'[u].entry
<1> SUFFICES ASSUME a # NULL
             PROVE  /\ \A l \in Location : hash_table'[l].real # a
                    /\ \A v \in Thread : hlp'[v].ptr1.real # a /\ (ins'[v].entry = a => v = u)
  BY DEF Fresh
<1>1. a = ins[u].entry /\ ins[u] \in InsFrame
  BY FrameTypes DEF StepOf
<1>2. /\ \A l \in Location : hash_table[l].real # a
      /\ \A v \in Thread : hlp[v].ptr1.real # a /\ (ins[v].entry = a => v = u)
  BY <1>1 DEF MoveInv, MoveOK, Fresh
<1>3. \A v \in Thread : ins'[v].entry = a => v = u
  BY <1>2 DEF StepOf
<1>4. \A v \in Thread : hlp'[v].ptr1.real # a
  <2>1. hlp'[t].ptr1.real # a
    <3>1. pc[t] = "hlp_load" => HlpSource(t) \in Location
      BY HelpLocations DEF HelpLabels
    <3> QED BY <1>2, <3>1 DEF StepOf, HelpFrameOf
  <2> QED BY <1>2, <2>1 DEF StepOf
<1>5. ASSUME NEW l \in Location PROVE hash_table'[l].real # a
  <2>1. hash_table[l].real # a /\ hlp[t].ptr1.real # a /\ (ins[t].entry = a => t = u)
    BY <1>2
  <2>2. Change(t, l)
    BY DEF StepOf
  <2> QED BY <2>1, <2>2 DEF Change
<1> QED BY <1>3, <1>4, <1>5

(* insert expects an empty slot, and remove has found one that is not marked. *)
LEMMA SwapReads ==
  ASSUME IInv, NEW t \in Thread, Step(t), SwapWords(t)
  PROVE  /\ pc'[t] = "ins_cas" => ins'[t].ptr1.real = NULL
         /\ pc'[t] = "rem_cas" => ~rem'[t].ptr1.marked
<1>1. /\ pc \in [Thread -> Label] /\ ins \in [Thread -> InsFrame] /\ rem \in [Thread -> RemFrame]
      /\ hlp \in [Thread -> HlpFrame]
  BY DEF IInv, TypeOK
<1>2. CASE InsertStep(t)
  <2>1. ASSUME NEW p, p.real = NULL,
               ins' = [ins EXCEPT ![t] = [@ EXCEPT !.ptr1 = p, !.found_empty = TRUE]]
        PROVE  ins'[t].ptr1.real = NULL
    BY <1>1, <2>1 DEF InsFrame
  <2> QED
    BY <1>1, <1>2, <2>1 DEF InsertStep, InsRead, InsCas, InsKick, InsFail, NextProbe, Return, Goto
<1>3. CASE FindStep(t)
  <2>1. ASSUME NEW location, NEW p, FindReturn(t, location, p), pc'[t] = "rem_cas"
        PROVE  rem'[t].ptr1 = p /\ location # NotFound
    BY <1>1, <2>1 DEF FindReturn, Return, Goto
  <2>2. ASSUME NEW j \in {0, 1}, NEW b, NEW frame, NEW next \in {"fnd_second", "fnd_recheck1"},
               FirstRound(t, j, b, frame, next), pc'[t] = "rem_cas"
        PROVE  ~rem'[t].ptr1.marked
    <3>1. /\ ~fnd[t].ptr.marked
          /\ FindReturn(t, fnd[t].slot + j * NUM_ITEMS_PER_ENTRY, fnd[t].ptr)
      BY <1>1, <2>2 DEF FirstRound, CallHelp, Goto
    <3> QED BY <2>1, <2>2, <3>1
  <2>3. pc'[t] # "ins_cas"
    BY <1>1, <1>3 DEF FindStep, FndFirst, FndHold1, FndSecond, FndHold2, FndRecheck1, FndRecheck2,
       FirstRound, FindReturn, Return, CallHelp, Goto
  <2>4. CASE FndHold1(t)
    BY <1>1, <2>2, <2>3, <2>4 DEF FndHold1
  <2>5. CASE FndHold2(t)
    BY <1>1, <2>2, <2>3, <2>5 DEF FndHold2
  <2>7. CASE FndFirst(t) \/ FndSecond(t)
    BY <1>1, <2>3, <2>7 DEF FndFirst, FndSecond, Goto
  <2>6. CASE FndRecheck1(t) \/ FndRecheck2(t)
    BY <1>1, <2>1, <2>3, <2>6 DEF FndRecheck1, FndRecheck2, Goto
  <2> QED BY <1>3, <2>4, <2>5, <2>6, <2>7 DEF FindStep
<1>4. CASE RemCas(t)
  BY <1>1, <1>4 DEF RemCas, RemRetry, Return, Goto
<1>5. CASE RelocateStep(t)
  BY <1>1, <1>5 DEF RelocateStep, RelProbe, RelHold1, RelReload, RelSrc, RelReloadSrc, RelDst,
     RelHold2, RelEnd, PathStep, SourceStep, RelReturn, CallHelp, Goto
<1>6. CASE HelpStep(t)
  <2>1. pc[t] \in HelpLabels
    BY <1>6 DEF HelpStep, HlpLoad, HlpHold1, HlpMark, HlpDst, HlpHold2, HlpCheck, HlpMove,
       HlpClear, HlpDone, HlpBusy, HelpLabels
  <2>2. hlp[t].ret \notin {"rem_cas", "ins_cas"}
    BY <2>1, FrameTypes DEF HlpOK
  <2> QED BY <1>1, <1>6, <2>1, <2>2 DEF HelpStep, HlpLoad, HlpHold1, HlpMark, HlpDst, HlpHold2,
       HlpCheck, HlpMove, HlpClear, HlpDone, HlpBusy, DestCas, Abort, HlpReturn, Goto, HelpLabels
<1> QED BY <1>2, <1>3, <1>4, <1>5, <1>6 DEF Step

(* Threads go on to their swaps with the words that SwapWords says. *)
LEMMA StepSwapWords ==
  ASSUME IInv, MoveInv, NEW t \in Thread, StepOf(t), Step(t), NEW u \in Thread
  PROVE  SwapWords(u)'
<1>1. SwapWords(u)
  BY DEF MoveInv, MoveOK
<1>2. CASE u # t
  BY <1>1, <1>2 DEF StepOf, SwapWords
<1>3. CASE u = t
  <2>1. /\ pc'[t] = "ins_cas" => ins'[t].ptr1.real = NULL
        /\ pc'[t] = "rem_cas" => ~rem'[t].ptr1.marked
    BY <1>1, <1>3, SwapReads
  <2>2. /\ pc'[t] = "hlp_mark" => ~hlp'[t].ptr1.marked
        /\ pc'[t] \in MoveLabels => hlp'[t].ptr1.marked
        /\ pc'[t] \in {"hlp_check", "hlp_move"} => hlp'[t].ptr2.real = NULL
    <3>1. Effect(t)
      BY DEF StepOf
    <3>2. CASE Left(t)
      BY <3>2 DEF Left, HelpLabels, MoveLabels
    <3>3. CASE Loads(t) \/ Meets(t)
      BY <3>3 DEF Loads, Meets, MoveLabels, HelpLabels
    <3>4. CASE Looks(t)
      BY <1>1, <1>3, <3>4 DEF Looks, Kept, SwapWords, MoveLabels, HelpLabels
    <3>5. CASE Finds(t) \/ Checks(t) \/ Waits(t) \/ Moves(t)
      BY <1>1, <1>3, <3>5 DEF Finds, Checks, Waits, Moves, SwapWords, MoveLabels, HelpLabels
    <3> QED BY <3>1, <3>2, <3>3, <3>4, <3>5 DEF Effect, Pauses, Marks, Clears, Inserts, Removes
  <2> QED BY <1>3, <2>1, <2>2 DEF SwapWords
<1> QED BY <1>2, <1>3

(* A step of another thread takes the word that u holds from its source only by
   the last swap of the same move, which is behind the first. *)
LEMMA StepSource ==
  ASSUME Involutive, TwoBuckets, IInv, MoveInv, NEW t \in Thread, StepOf(t), NEW u \in Thread
  PROVE  SourceOK(u)'
<1> SUFFICES ASSUME MeetsMark(u)'
             PROVE  \/ SourceHeld(u)'
                    \/ /\ (hash_table[HlpSource(u)].counter > hlp[u].ptr1.counter)'
                       /\ TargetAbove(u, hlp[u].ptr1.counter)'
  BY DEF SourceOK
<1>1. CASE u # t
  <2>1. /\ MeetsMark(u) /\ hlp'[u] = hlp[u]
        /\ HlpSource(u)' = HlpSource(u) /\ HlpDest(u)' = HlpDest(u)
    BY <1>1 DEF StepOf, MeetsMark
  <2>2. hlp[u].ptr1.real # NULL
    BY <2>1, FrameTypes DEF HlpOK, HelpLabels, MoveLabels, MeetsMark
  <2>3. /\ HlpSource(u) \in Location /\ HlpDest(u) \in Location
        /\ HlpSource(u) # HlpDest(u) /\ hlp[u].ptr1.counter \in Counter
    BY <2>2, MovePlaces
  <2>4. SourceOK(u) /\ SwapWords(u) /\ SwapWords(t) /\ MovedOK(t)
    BY DEF MoveInv, MoveOK
  <2>5. CASE ~SourceHeld(u)
    <3>1. /\ hash_table[HlpSource(u)].counter > hlp[u].ptr1.counter
          /\ TargetAbove(u, hlp[u].ptr1.counter)
      BY <2>1, <2>4, <2>5 DEF SourceOK
    <3>2. TargetAbove(u, hlp[u].ptr1.counter)'
      BY <2>1, <2>2, <2>3, <3>1, AboveStays DEF TargetAbove
    <3>3. hash_table'[HlpSource(u)].counter > hlp[u].ptr1.counter
      <4>1. \A x, y, c \in Counter : x > c /\ y >= x => y > c
        BY TablePointerAssumption DEF Counter
      <4> QED BY <2>3, <3>1, <4>1 DEF StepOf
    <3> QED BY <2>1, <3>2, <3>3
  <2>6. CASE SourceHeld(u) /\ hash_table'[HlpSource(u)] = hash_table[HlpSource(u)]
    BY <2>1, <2>6 DEF SourceHeld, Holds
  <2>7. CASE SourceHeld(u) /\ hash_table'[HlpSource(u)] # hash_table[HlpSource(u)]
    <3>1. /\ hash_table[HlpSource(u)] = hlp[u].ptr1 /\ hlp[u].ptr1.marked
          /\ hash_table[HlpSource(u)].real # NULL
      BY <2>1, <2>2, <2>4, <2>7 DEF SourceHeld, Holds, SwapWords, MeetsMark
    <3>2. /\ pc[t] = "hlp_clear" /\ HlpSource(u) = HlpSource(t) /\ hlp[u].ptr1 = hlp[t].ptr1
          /\ hash_table'[HlpSource(u)].counter = hlp[u].ptr1.counter + 1
      BY <2>3, <2>7, <3>1 DEF StepOf, Change
    <3>3. HlpDest(u) = HlpDest(t)
      BY <2>2, <3>2, MovePlaces
    <3>4. TargetAbove(u, hlp[u].ptr1.counter)
      BY <2>4, <3>2, <3>3 DEF MovedOK, TargetAbove
    <3>5. TargetAbove(u, hlp[u].ptr1.counter)'
      BY <2>1, <2>2, <2>3, <3>4, AboveStays DEF TargetAbove
    <3>6. hlp[u].ptr1.counter + 1 > hlp[u].ptr1.counter
      BY <2>3, TablePointerAssumption DEF Counter
    <3> QED BY <2>1, <3>2, <3>5, <3>6
  <2> QED BY <2>5, <2>6, <2>7
<1>2. CASE u = t
  <2>1. Effect(t)
    BY DEF StepOf
  <2>2. CASE Loads(t)
    <3>1. HlpSource(t)' = HlpSource(t)
      BY <2>2 DEF Loads, HlpSource
    <3> QED BY <1>2, <2>2, <3>1 DEF Loads, SourceHeld, Holds
  <2>3. CASE Meets(t) \/ Looks(t) \/ Finds(t) \/ Checks(t) \/ Waits(t)
    <3>1. /\ MeetsMark(t) /\ UNCHANGED hash_table /\ hlp'[t].ptr1 = hlp[t].ptr1
          /\ hlp'[t].idx = hlp[t].idx /\ hlp'[t].slot = hlp[t].slot
      BY <1>2, <2>3 DEF Meets, Looks, Finds, Kept, Checks, Waits, MeetsMark, MoveLabels, HelpLabels
    <3>2. HlpSource(t)' = HlpSource(t) /\ HlpDest(t)' = HlpDest(t)
      BY <3>1, SameMove DEF StepOf
    <3>3. SourceOK(t)
      BY DEF MoveInv, MoveOK
    <3> QED BY <1>2, <3>1, <3>2, <3>3 DEF SourceOK, SourceHeld, Holds, TargetAbove
  <2>4. CASE Moves(t)
    <3>1. /\ MeetsMark(t) /\ pc[t] \in MoveLabels /\ hlp' = hlp /\ HlpSource(t)' = HlpSource(t)
          /\ HlpDest(t)' = HlpDest(t)
      BY <2>4, SameMove DEF Moves, MeetsMark, MoveLabels, HelpLabels, StepOf
    <3>2. hlp[t].ptr1.real # NULL
      BY <3>1, FrameTypes DEF HlpOK, HelpLabels, MoveLabels
    <3>3. /\ HlpSource(t) \in Location /\ HlpSource(t) # HlpDest(t)
          /\ hlp[t].ptr1.counter \in Counter
      BY <3>2, MovePlaces
    <3>4. hash_table'[HlpSource(t)] = hash_table[HlpSource(t)]
      BY <2>4, <3>3 DEF Moves, Writes
    <3>5. SourceOK(t)
      BY DEF MoveInv, MoveOK
    <3>6. TargetAbove(t, hlp[t].ptr1.counter) => TargetAbove(t, hlp[t].ptr1.counter)'
      BY <3>1, <3>2, <3>3, AboveStays DEF TargetAbove
    <3> QED BY <1>2, <3>1, <3>4, <3>5, <3>6 DEF SourceOK, SourceHeld, Holds
  <2>5. ~Left(t)
    BY <1>2 DEF Left, MeetsMark, MoveLabels, HelpLabels
  <2> QED BY <2>1, <2>2, <2>3, <2>4, <2>5 DEF Effect, Pauses, Marks, Clears, Inserts, Removes
<1> QED BY <1>1, <1>2

(* The mover's own view of another thread's item: nothing but a move brings the
   item to a slot, so what thread u has read in its destination is passed. *)
LEMMA StepTargetOther ==
  ASSUME Involutive, TwoBuckets, IInv, CounterInv, MoveInv, NEW t \in Thread, StepOf(t),
         NEW u \in Thread \ {t}
  PROVE  TargetOK(u)'
<1> DEFINE d == hlp[u].ptr2.counter
<1>1. /\ pc'[u] = pc[u] /\ hlp'[u] = hlp[u]
      /\ HlpSource(u)' = HlpSource(u) /\ HlpDest(u)' = HlpDest(u)
  BY DEF StepOf
<1> SUFFICES ASSUME FoundEmpty(u)
             PROVE  TargetOK(u)'
  BY <1>1 DEF TargetOK, FoundEmpty
<1>2. hlp[u].ptr1.real # NULL
  BY FrameTypes DEF HlpOK, HelpLabels, FoundEmpty
<1>3. /\ HlpSource(u) \in Location /\ HlpDest(u) \in Location
      /\ HlpSource(u) # HlpDest(u) /\ d \in Counter
  BY <1>2, MovePlaces
<1>4. /\ TargetOK(u) /\ SwapWords(u) /\ OppositeOK(t, u)
      /\ hlp[u].ptr1.real # ins[t].entry
  BY <1>2 DEF MoveInv, MoveOK, Fresh
<1>5. d <= hash_table[HlpDest(u)].counter
  BY DEF CounterInv, ReadCounters, FoundEmpty
<1>6. TargetAbove(u, d) => TargetAbove(u, d)'
  BY <1>1, <1>2, <1>3, AboveStays DEF TargetAbove
<1>7. ASSUME TargetHasItem(u)' PROVE TargetAbove(u, d)'
  <2>1. hash_table'[HlpDest(u)].real = hlp[u].ptr1.real
    BY <1>1, <1>7 DEF TargetHasItem
  <2>2. CASE TargetHasItem(u)
    BY <1>4, <1>6, <2>2 DEF TargetOK
  <2>3. CASE ~TargetHasItem(u)
    <3>1. Change(t, HlpDest(u)) /\ hash_table[HlpDest(u)].real # hlp[u].ptr1.real
      BY <1>3, <2>3 DEF StepOf, TargetHasItem
    <3>2. hash_table'[HlpDest(u)].counter > hash_table[HlpDest(u)].counter
      BY <1>2, <1>4, <2>1, <3>1 DEF Change
    <3>3. /\ hash_table[HlpDest(u)].counter \in Counter
          /\ hash_table'[HlpDest(u)].counter \in Counter
      BY <1>3 DEF StepOf
    <3>4. hash_table'[HlpDest(u)].counter > d
      BY <1>3, <1>5, <3>2, <3>3, TablePointerAssumption DEF Counter
    <3> QED BY <1>1, <3>4 DEF TargetAbove
  <2> QED BY <2>2, <2>3
<1>8. ASSUME pc[u] = "hlp_move", ~TargetAbove(u, d), SourceHasItem(u)'
      PROVE  SourceHeld(u)'
  <2>1. hash_table'[HlpSource(u)].real = hlp[u].ptr1.real
    BY <1>1, <1>8 DEF SourceHasItem
  <2>2. SourceHeld(u) \/ hash_table[HlpSource(u)].real # hlp[u].ptr1.real
    BY <1>4, <1>8 DEF TargetOK, SourceHasItem
  <2>3. SourceHeld(u) => hash_table[HlpSource(u)] = hlp[u].ptr1 /\ hlp[u].ptr1.marked
    BY <1>4, <1>8 DEF SourceHeld, Holds, SwapWords, MoveLabels, HelpLabels
  <2>4. Change(t, HlpSource(u))
    BY <1>3 DEF StepOf
  <2>5. CASE hash_table'[HlpSource(u)] = hash_table[HlpSource(u)]
    BY <1>1, <2>1, <2>2, <2>5 DEF SourceHeld, Holds
  <2>6. CASE hash_table'[HlpSource(u)] # hash_table[HlpSource(u)]
    <3>1. /\ pc[t] = "hlp_move" /\ HlpSource(u) = HlpDest(t)
          /\ hash_table[HlpDest(t)] = hlp[t].ptr2 /\ hlp[t].ptr1.real = hlp[u].ptr1.real
      BY <1>2, <1>4, <2>1, <2>2, <2>3, <2>4, <2>6 DEF Change
    <3>2. HlpSource(t) = HlpDest(u)
      BY <1>2, <1>3, <3>1, SamePlaces DEF MoveInv
    <3>3. TargetAbove(t, hlp[t].ptr2.counter)
      BY <1>4, <1>8, <3>1, <3>2 DEF OppositeOK, Opposite
    <3>4. hash_table[HlpSource(u)].counter \in Counter
      BY <1>3 DEF StepOf
    <3> QED BY <3>1, <3>3, <3>4, TablePointerAssumption DEF TargetAbove, Counter
  <2> QED BY <2>5, <2>6
<1>9. pc[u] = "hlp_move" => (SourceHeld(u) \/ ~SourceHasItem(u))' \/ TargetAbove(u, d)'
  BY <1>6, <1>8
<1> QED BY <1>1, <1>7, <1>9 DEF TargetOK, TargetAbove, FoundEmpty

(* Thread t itself has just found the destination empty, or the source as it
   was when it looked there. *)
LEMMA StepTarget ==
  ASSUME Involutive, TwoBuckets, IInv, CounterInv, MoveInv, NEW t \in Thread, StepOf(t),
         NEW u \in Thread
  PROVE  TargetOK(u)'
<1>1. CASE u # t
  BY <1>1, StepTargetOther
<1>2. CASE u = t
  <2>1. Effect(t) /\ TargetOK(t)
    BY DEF StepOf, MoveInv, MoveOK
  <2>2. CASE Looks(t)
    <3>1. HlpDest(t)' = HlpDest(t) /\ hlp'[t].ptr1.real = hlp[t].ptr1.real
      BY <2>2, SameMove DEF Looks, Kept, StepOf
    <3>2. hlp[t].ptr1.real # NULL
      BY <2>2, FrameTypes DEF Looks, HlpOK, HelpLabels
    <3> QED BY <1>2, <2>2, <3>1, <3>2 DEF Looks, TargetOK, TargetHasItem, FoundEmpty
  <2>3. CASE Finds(t) \/ Checks(t) \/ Waits(t)
    <3>1. /\ UNCHANGED <<hash_table, hlp>>
          /\ pc'[t] = "hlp_move" => pc[t] = "hlp_move" \/ SourceHeld(t)
          /\ FoundEmpty(t)' => FoundEmpty(t)
      BY <2>3 DEF Finds, Checks, Waits, FoundEmpty
    <3>2. HlpSource(t)' = HlpSource(t) /\ HlpDest(t)' = HlpDest(t)
      BY <3>1, SameMove DEF StepOf
    <3> QED BY <1>2, <2>1, <3>1, <3>2
            DEF TargetOK, TargetHasItem, TargetAbove, SourceHeld, SourceHasItem, Holds
  <2>4. CASE Loads(t) \/ Meets(t) \/ Moves(t) \/ Left(t)
    BY <1>2, <2>4 DEF Loads, Meets, Moves, Left, TargetOK, FoundEmpty, HelpLabels
  <2> QED BY <2>1, <2>2, <2>3, <2>4 DEF Effect, Pauses, Marks, Clears, Inserts, Removes
<1> QED BY <1>1, <1>2

(* Two threads are about to move the same item in opposite directions only if
   one of them has found the source unchanged after the other had it moved. *)
LEMMA StepOpposite ==
  ASSUME Involutive, TwoBuckets, IInv, MoveInv, NEW t \in Thread, StepOf(t),
         NEW u \in Thread, NEW v \in Thread
  PROVE  OppositeOK(u, v)'
<1> SUFFICES ASSUME Opposite(u, v)'
             PROVE  \/ TargetAbove(u, hlp[u].ptr2.counter)'
                    \/ TargetAbove(v, hlp[v].ptr2.counter)'
  BY DEF OppositeOK
<1>1. /\ pc'[u] = "hlp_move" /\ pc'[v] = "hlp_move" /\ hlp'[u].ptr1.real = hlp'[v].ptr1.real
      /\ HlpSource(u)' = HlpDest(v)' /\ HlpSource(v)' = HlpDest(u)'
  BY DEF Opposite
<1>2. ASSUME NEW w \in Thread, pc'[w] = "hlp_move"
      PROVE  /\ hlp'[w] = hlp[w] /\ HlpSource(w)' = HlpSource(w) /\ HlpDest(w)' = HlpDest(w)
             /\ \/ pc[w] = "hlp_move"
                \/ w = t /\ pc[w] = "hlp_check" /\ SourceHeld(w)
  <2>1. CASE w # t
    BY <1>2, <2>1 DEF StepOf
  <2>2. CASE w = t
    <3>1. Checks(t) \/ Waits(t)
      BY <1>2, <2>2 DEF StepOf, Effect, Pauses, Loads, Meets, Looks, Finds, Moves, Marks,
         Clears, Inserts, Removes, Left, HelpLabels
    <3>2. hlp' = hlp
      BY <3>1 DEF Checks, Waits
    <3> QED BY <1>2, <2>2, <3>1, <3>2, SameMove DEF Checks, Waits, StepOf
  <2> QED BY <2>1, <2>2
<1>3. ASSUME NEW w \in Thread, pc'[w] = "hlp_move", TargetAbove(w, hlp[w].ptr2.counter)
      PROVE  TargetAbove(w, hlp[w].ptr2.counter)'
  <2>1. hlp[w].ptr1.real # NULL
    BY <1>2, <1>3, FrameTypes DEF HlpOK, HelpLabels
  <2> QED BY <1>2, <1>3, <2>1, MovePlaces, AboveStays DEF TargetAbove
<1>4. ASSUME NEW w \in Thread, NEW x \in Thread, pc[w] = "hlp_check", SourceHeld(w),
             pc'[x] = "hlp_move", hlp[x].ptr1.real = hlp[w].ptr1.real,
             HlpSource(w) = HlpDest(x), pc[x] \in {"hlp_check", "hlp_move"}
      PROVE  TargetAbove(x, hlp[x].ptr2.counter)
  <2>1. TargetHasItem(x)
    BY <1>4 DEF SourceHeld, Holds, TargetHasItem
  <2> QED BY <1>4, <2>1 DEF MoveInv, MoveOK, TargetOK, FoundEmpty
<1>5. CASE pc[u] = "hlp_move" /\ pc[v] = "hlp_move"
  <2>1. Opposite(u, v) /\ OppositeOK(u, v)
    BY <1>1, <1>2, <1>5 DEF Opposite, MoveInv
  <2> QED BY <1>1, <1>3, <2>1 DEF OppositeOK
<1>6. CASE pc[u] # "hlp_move"
  <2>1. TargetAbove(v, hlp[v].ptr2.counter)
    BY <1>1, <1>2, <1>4, <1>6
  <2> QED BY <1>1, <1>3, <2>1
<1>7. CASE pc[v] # "hlp_move"
  <2>1. TargetAbove(u, hlp[u].ptr2.counter)
    BY <1>1, <1>2, <1>4, <1>7
  <2> QED BY <1>1, <1>3, <2>1
<1> QED BY <1>5, <1>6, <1>7

(* What a step does to the entries that are in no slot: none is forgotten, the
   one that insert has in hand is stored or given up, and the one that remove
   takes out of a slot is retired. *)
AccountsOf(t) ==
  /\ Retired \subseteq Retired' /\ leaked \subseteq leaked'
  /\ ins'[t].entry # ins[t].entry => ins[t].entry \in {NULL} \cup Stored' \cup leaked'
  /\ pc[t] = "rem_cas" /\ hash_table' # hash_table => rem[t].ptr1.real \in Retired'

(* Every step keeps account of its entry. *)
LEMMA StepAccounts == ASSUME IInv, NEW t \in Thread, Step(t) PROVE AccountsOf(t)
<1>1. /\ ins \in [Thread -> InsFrame] /\ hash_table \in [Location -> table_pointer]
      /\ retired_ptrs \in [Thread -> Seq(Address)]
  BY DEF IInv, TypeOK
<1>2. ASSUME UNCHANGED retired_ptrs PROVE Retired \subseteq Retired'
  BY <1>2 DEF Retired
<1>3. CASE RemCas(t)
  <2>1. pc[t] = "rem_cas" /\ UNCHANGED leaked
    BY <1>3 DEF RemCas
  <2>2. ins[t].entry = NULL
    BY <2>1, FrameTypes DEF InsOK, Where, InInsert, HelpLabels
  <2>3. CASE UNCHANGED <<hash_table, retired_ptrs>>
    BY <1>2, <2>1, <2>2, <2>3 DEF AccountsOf
  <2>4. CASE retired_ptrs' = [retired_ptrs EXCEPT ![t] = Append(@, rem[t].ptr1.real)]
    <3> DEFINE a == rem[t].ptr1.real
    <3>1. /\ retired_ptrs'[t] = Append(retired_ptrs[t], a)
          /\ \A u \in Thread \ {t} : retired_ptrs'[u] = retired_ptrs[u]
      BY <1>1, <2>4
    <3>2. a \in Address
      BY <2>1, FrameTypes DEF RemOK, RemFrame, table_pointer
    <3>3. /\ Range(retired_ptrs[t]) \subseteq Range(Append(retired_ptrs[t], a))
          /\ a \in Range(Append(retired_ptrs[t], a))
      <4>1. retired_ptrs[t] \in Seq(Address)
        BY <1>1
      <4>2. /\ DOMAIN retired_ptrs[t] \subseteq DOMAIN Append(retired_ptrs[t], a)
            /\ \A i \in DOMAIN retired_ptrs[t] :
                 Append(retired_ptrs[t], a)[i] = retired_ptrs[t][i]
            /\ Len(retired_ptrs[t]) + 1 \in DOMAIN Append(retired_ptrs[t], a)
            /\ Append(retired_ptrs[t], a)[Len(retired_ptrs[t]) + 1] = a
        BY <3>2, <4>1
      <4> QED BY <4>2 DEF Range
    <3>4. \A u \in Thread : Range(retired_ptrs[u]) \subseteq Range(retired_ptrs'[u])
      BY <3>1, <3>3
    <3>5. a \in Range(retired_ptrs'[t])
      BY <3>1, <3>3
    <3> QED BY <2>1, <2>2, <3>4, <3>5 DEF AccountsOf, Retired
  <2> QED BY <1>3, <2>3, <2>4 DEF RemCas, retire_key
<1>4. CASE InsCas(t)
  <2>1. pc[t] = "ins_cas" /\ UNCHANGED <<retired_ptrs, leaked>>
    BY <1>4 DEF InsCas, others
  <2>2. CASE NextProbe(t, TRUE)
    <3>1. ins'[t].entry = ins[t].entry
      BY <1>1, <2>2 DEF NextProbe
    <3> QED BY <1>2, <2>1, <3>1 DEF AccountsOf
  <2>3. CASE Store(Probed(t), create_pointer(ins[t].ptr1.counter, ins[t].entry, FALSE))
    <3>1. Probed(t) \in Location
      BY <2>1, ProbedTypes DEF InInsert
    <3>2. hash_table'[Probed(t)].real = ins[t].entry
      BY <1>1, <2>3, <3>1 DEF Store, create_pointer
    <3>3. ins[t].entry \in {NULL} \cup Stored'
      BY <3>1, <3>2 DEF Stored
    <3> QED BY <1>2, <2>1, <3>3 DEF AccountsOf
  <2> QED BY <1>4, <2>2, <2>3 DEF InsCas
<1>5. CASE InsFail(t)
  BY <1>2, <1>5 DEF InsFail, AccountsOf
<1>6. CASE InsRead(t) \/ InsKick(t) \/ RelocateStep(t)
  <2>1. UNCHANGED <<retired_ptrs, leaked, hash_table>>
    BY <1>6 DEF InsRead, InsKick, RelocateStep, RelProbe, RelHold1, RelReload, RelSrc,
       RelReloadSrc, RelDst, RelHold2, RelEnd, shared, others
  <2>2. CASE InsRead(t) \/ InsKick(t)
    <3>1. ASSUME NEW p, ins' = [ins EXCEPT ![t] = [@ EXCEPT !.ptr1 = p, !.found_empty = TRUE]]
          PROVE  ins'[t].entry = ins[t].entry
      BY <1>1, <3>1 DEF InsFrame
    <3>2. ASSUME NextProbe(t, ins[t].found_empty) PROVE ins'[t].entry = ins[t].entry
      BY <1>1, <3>2 DEF NextProbe
    <3>3. CASE InsRead(t)
      BY <1>2, <2>1, <3>1, <3>2, <3>3 DEF InsRead, AccountsOf
    <3>4. CASE InsKick(t)
      <4>1. ins'[t].entry = ins[t].entry
        BY <1>1, <3>4 DEF InsKick, InsFrame
      <4> QED BY <1>2, <2>1, <4>1 DEF AccountsOf
    <3> QED BY <2>2, <3>3, <3>4
  <2>3. CASE RelocateStep(t)
    <3>1. [NoIns EXCEPT !.entry = ins[t].entry].entry = ins[t].entry
      BY DEF NoIns
    <3>2. ASSUME NEW found \in BOOLEAN, RelReturn(t, found) PROVE ins'[t].entry = ins[t].entry
      BY <1>1, <3>1, <3>2 DEF RelReturn
    <3>3. CASE RelHold1(t) \/ RelReload(t)
      <4>1. PICK p : PathStep(t, p)
        BY <3>3 DEF RelHold1, RelReload
      <4> QED BY <1>2, <2>1, <3>2, <4>1 DEF PathStep, AccountsOf
    <3>4. CASE RelEnd(t)
      BY <1>2, <2>1, <3>2, <3>4 DEF RelEnd, AccountsOf
    <3>5. CASE RelProbe(t) \/ RelSrc(t) \/ RelReloadSrc(t) \/ RelDst(t) \/ RelHold2(t)
      <4>1. UNCHANGED ins
        BY <3>5 DEF RelProbe, RelSrc, RelReloadSrc, RelDst, RelHold2, SourceStep
      <4> QED BY <1>2, <2>1, <4>1 DEF AccountsOf
    <3> QED BY <2>3, <3>3, <3>4, <3>5 DEF RelocateStep
  <2> QED BY <1>6, <2>2, <2>3
<1>7. CASE FindStep(t)
  <2>1. /\ UNCHANGED shared
        /\ pc[t] \in InFind
    BY <1>7 DEF FindStep, FndFirst, FndHold1, FndSecond, FndHold2, FndRecheck1, FndRecheck2, InFind
  <2>2. ins[t].entry = NULL
    BY <2>1, FrameTypes DEF InsOK, Where, InInsert, InFind, HelpLabels
  <2> QED BY <1>2, <2>1, <2>2 DEF AccountsOf, shared, others
<1>8. CASE HelpStep(t)
  <2>1. UNCHANGED <<retired_ptrs, leaked, ins>> /\ pc[t] # "rem_cas"
    BY <1>8 DEF HelpStep, HlpLoad, HlpHold1, HlpMark, HlpDst, HlpHold2, HlpCheck, HlpMove,
       HlpClear, HlpDone, HlpBusy, DestCas, shared, others, callers
  <2> QED BY <1>2, <2>1 DEF AccountsOf
<1> QED BY <1>3, <1>4, <1>5, <1>6, <1>7, <1>8 DEF Step, InsertStep

(* Between its two swaps a mover finds the item in the destination, unless it was
   removed from there: no one moves it back as long as the source is marked. *)
LEMMA StepMoved ==
  ASSUME Involutive, TwoBuckets, IInv, MoveInv, NEW t \in Thread, StepOf(t), AccountsOf(t),
         NEW u \in Thread
  PROVE  MovedOK(u)'
<1> SUFFICES ASSUME pc'[u] = "hlp_clear"
             PROVE  /\ TargetAbove(u, hlp[u].ptr1.counter)'
                    /\ SourceHeld(u)' => (TargetHasItem(u) \/ hlp[u].ptr1.real \in Retired)'
  BY DEF MovedOK
<1>1. CASE u # t
  <2> DEFINE a == hlp[u].ptr1.real
  <2>1. /\ pc[u] = "hlp_clear" /\ hlp'[u] = hlp[u]
        /\ HlpSource(u)' = HlpSource(u) /\ HlpDest(u)' = HlpDest(u)
    BY <1>1 DEF StepOf
  <2>2. a # NULL
    BY <2>1, FrameTypes DEF HlpOK, HelpLabels
  <2>3. /\ HlpSource(u) \in Location /\ HlpDest(u) \in Location
        /\ HlpSource(u) # HlpDest(u) /\ hlp[u].ptr1.counter \in Counter
    BY <2>2, MovePlaces
  <2>4. MovedOK(u) /\ SourceOK(u) /\ MovedOK(t) /\ pc[u] \in MoveLabels
    BY <2>1 DEF MoveInv, MoveOK, MoveLabels, HelpLabels
  <2>5. TargetAbove(u, hlp[u].ptr1.counter)'
    BY <2>1, <2>2, <2>3, <2>4, AboveStays DEF TargetAbove, MovedOK
  <2>6. ASSUME SourceHeld(u)' PROVE TargetHasItem(u)' \/ a \in Retired'
    <3>1. hash_table'[HlpSource(u)] = hlp[u].ptr1
      BY <2>1, <2>6 DEF SourceHeld, Holds
    <3>2. SourceHeld(u)
      <4>1. /\ hash_table[HlpSource(u)].counter \in Counter
            /\ hash_table[HlpSource(u)].counter <= hlp[u].ptr1.counter
        BY <2>3, <3>1, TablePointerAssumption DEF StepOf, Counter
      <4>2. ~(hash_table[HlpSource(u)].counter > hlp[u].ptr1.counter)
        BY <2>3, <4>1, TablePointerAssumption DEF Counter
      <4> QED BY <2>4, <4>2 DEF SourceOK, MeetsMark
    <3>3. hash_table[HlpDest(u)].real = a \/ a \in Retired
      BY <2>1, <2>4, <3>2 DEF MovedOK, TargetHasItem
    <3>4. CASE a \in Retired
      BY <3>4 DEF AccountsOf
    <3>5. CASE hash_table[HlpDest(u)].real = a /\ hash_table'[HlpDest(u)].real = a
      BY <2>1, <3>5 DEF TargetHasItem
    <3>6. CASE hash_table[HlpDest(u)].real = a /\ hash_table'[HlpDest(u)].real # a
      <4>1. Change(t, HlpDest(u))
        BY <2>3 DEF StepOf
      <4>2. \/ pc[t] = "hlp_clear" /\ HlpDest(u) = HlpSource(t)
               /\ hash_table[HlpDest(u)] = hlp[t].ptr1
            \/ pc[t] = "rem_cas" /\ a = rem[t].ptr1.real
        BY <2>2, <3>6, <4>1 DEF Change
      <4>3. CASE pc[t] = "rem_cas" /\ a = rem[t].ptr1.real
        BY <3>6, <4>3 DEF AccountsOf
      <4>4. CASE pc[t] = "hlp_clear" /\ HlpDest(u) = HlpSource(t)
                 /\ hash_table[HlpDest(u)] = hlp[t].ptr1
        <5>1. HlpDest(t) = HlpSource(u)
          BY <2>2, <2>3, <3>6, <4>4, SamePlaces DEF MoveInv
        <5>2. hash_table[HlpSource(u)].counter > hash_table[HlpDest(u)].counter
          BY <2>4, <4>4, <5>1 DEF MovedOK, TargetAbove
        <5>3. hash_table[HlpDest(u)].counter > hash_table[HlpSource(u)].counter
          BY <2>1, <2>4, <3>2 DEF MovedOK, TargetAbove, SourceHeld, Holds
        <5>4. /\ hash_table[HlpSource(u)].counter \in Counter
              /\ hash_table[HlpDest(u)].counter \in Counter
          BY <2>3 DEF StepOf
        <5> QED BY <5>2, <5>3, <5>4, TablePointerAssumption DEF Counter
      <4> QED BY <4>2, <4>3, <4>4
    <3> QED BY <3>3, <3>4, <3>5, <3>6
  <2> QED BY <2>1, <2>5, <2>6
<1>2. CASE u = t
  <2>1. Moves(t)
    BY <1>2 DEF StepOf, Effect, Pauses, Loads, Meets, Looks, Finds, Checks, Waits, Marks, Clears,
       Inserts, Removes, Left, HelpLabels
  <2>2. hlp[t].ptr1.real # NULL
    BY <2>1, FrameTypes DEF Moves, HlpOK, HelpLabels
  <2>3. HlpDest(t) \in Location /\ HlpDest(t)' = HlpDest(t) /\ UNCHANGED hlp
    BY <2>1, <2>2, MovePlaces, SameMove DEF Moves, StepOf
  <2>4. hash_table'[HlpDest(t)].real = hlp[t].ptr1.real /\ hash_table[HlpDest(t)].real = NULL
    BY <2>1 DEF Moves, Writes, create_pointer, Holds, SwapWords, MoveInv, MoveOK
  <2>5. hash_table'[HlpDest(t)].counter > hlp[t].ptr1.counter
    BY <2>1, <2>2, <2>3, <2>4 DEF StepOf, Change, Moves
  <2> QED BY <1>2, <2>3, <2>4, <2>5 DEF TargetAbove, TargetHasItem
<1> QED BY <1>1, <1>2

(* An entry comes to a second slot only by the first swap of a move whose mark
   is still in the first one; as long as it is in both, that move is not over. *)
LEMMA StepCopies ==
  ASSUME Involutive, TwoBuckets, IInv, MoveInv, NEW t \in Thread, StepOf(t)
  PROVE  CopiesOK'
<1> DEFINE Copies(l, m) ==
             /\ hash_table'[l].counter # hash_table'[m].counter
             /\ \E v \in Thread : Moving(v)' /\ {HlpSource(v)', HlpDest(v)'} = {l, m}
<1>1. ASSUME NEW l \in Location, NEW m \in Location, l # m, hash_table'[l].real # NULL,
             hash_table'[m].real = hash_table'[l].real,
             hash_table[l].real = hash_table'[l].real, hash_table[m].real = hash_table'[m].real
      PROVE  Copies(l, m)
  <2>1. Change(t, l) /\ Change(t, m)
    BY DEF StepOf
  <2>2. /\ hash_table[l].counter # hash_table[m].counter
        /\ \E v \in Thread : Moving(v) /\ {HlpSource(v), HlpDest(v)} = {l, m}
    BY <1>1 DEF MoveInv, CopiesOK
  <2>3. /\ hash_table'[l].counter = hash_table[l].counter
        /\ hash_table'[m].counter = hash_table[m].counter
    BY <1>1, <2>1 DEF Change
  <2>4. PICK v \in Thread : Moving(v) /\ {HlpSource(v), HlpDest(v)} = {l, m}
    BY <2>2
  <2>5. /\ pc[v] = "hlp_clear" /\ SourceHeld(v) /\ HlpSource(v) \in {l, m}
        /\ hash_table[HlpSource(v)] = hlp[v].ptr1 /\ hlp[v].ptr1.marked
    BY <2>4 DEF Moving, SourceHeld, Holds, MoveInv, MoveOK, SwapWords, MoveLabels, HelpLabels
  <2>6. v # t
    <3>1. ASSUME Clears(t), v = t PROVE FALSE
      BY <1>1, <2>5, <3>1 DEF Clears, Writes, Vacated, create_pointer
    <3> QED BY <2>5, <3>1 DEF StepOf, Effect, Pauses, Loads, Meets, Looks, Finds, Checks, Waits,
               Moves, Marks, Inserts, Removes
  <2>7. hash_table'[HlpSource(v)] = hash_table[HlpSource(v)]
    BY <1>1, <2>1, <2>5 DEF Change
  <2>8. /\ pc'[v] = "hlp_clear" /\ hlp'[v] = hlp[v]
        /\ HlpSource(v)' = HlpSource(v) /\ HlpDest(v)' = HlpDest(v)
    BY <2>5, <2>6 DEF StepOf
  <2>9. Moving(v)'
    BY <2>5, <2>7, <2>8 DEF Moving, Holds
  <2> QED BY <2>2, <2>3, <2>4, <2>8, <2>9
<1>2. ASSUME NEW l \in Location, NEW m \in Location, l # m, hash_table'[l].real # NULL,
             hash_table'[m].real = hash_table'[l].real,
             hash_table[l].real # hash_table'[l].real
      PROVE  Copies(l, m)
  <2> DEFINE a == hash_table'[l].real
  <2>1. Change(t, l) /\ Change(t, m) /\ Fresh(t)
    BY DEF StepOf, MoveInv, MoveOK
  <2>2. ~(pc[t] = "ins_cas" /\ a = ins[t].entry /\ l = Probed(t))
    BY <1>2, <2>1 DEF Change, Fresh
  <2>3. /\ pc[t] = "hlp_move" /\ l = HlpDest(t) /\ hash_table[l] = hlp[t].ptr2
        /\ pc'[t] = "hlp_clear" /\ UNCHANGED hlp /\ hlp[t].ptr1.real = a
        /\ hash_table'[l].counter > hlp[t].ptr1.counter
    BY <1>2, <2>1, <2>2 DEF Change
  <2>4. /\ HlpSource(t) \in Location /\ HlpSource(t) # l /\ hlp[t].ptr1.counter \in Counter
        /\ hlp[t].ptr2.counter \in Counter
    BY <1>2, <2>3, MovePlaces
  <2>5. hash_table'[m] = hash_table[m]
    BY <1>2, <2>1, <2>3 DEF Change
  <2>6. m = HlpSource(t)
    BY <1>2, <2>3, <2>5, SamePlaces DEF MoveInv
  <2>7. SourceHeld(t)
    BY <1>2, <2>3, <2>4, <2>5, <2>6, TablePointerAssumption
    DEF MoveInv, MoveOK, TargetOK, SourceHasItem, TargetAbove, Counter
  <2>8. hash_table'[m] = hlp[t].ptr1
    BY <2>5, <2>6, <2>7 DEF SourceHeld, Holds
  <2>9. HlpSource(t)' = m /\ HlpDest(t)' = l
    BY <2>3, <2>6, SameMove DEF StepOf
  <2>10. Moving(t)'
    BY <2>3, <2>8, <2>9 DEF Moving, Holds
  <2>11. hash_table'[l].counter \in Counter
    BY DEF StepOf
  <2>12. hash_table'[l].counter # hash_table'[m].counter
    BY <2>3, <2>4, <2>8, <2>11, TablePointerAssumption DEF Counter
  <2> QED BY <2>9, <2>10, <2>12
<1>3. ASSUME NEW l \in Location, NEW m \in Location, l # m, hash_table'[l].real # NULL,
             hash_table'[m].real = hash_table'[l].real
      PROVE  Copies(l, m)
  <2>1. CASE hash_table[l].real # hash_table'[l].real
    BY <1>2, <1>3, <2>1
  <2>2. CASE hash_table[m].real # hash_table'[m].real
    <3>1. Copies(m, l)
      BY <1>2, <1>3, <2>2
    <3>2. {l, m} = {m, l}
      OBVIOUS
    <3> QED BY <3>1, <3>2
  <2> QED BY <1>1, <1>3, <2>1, <2>2
<1> QED BY <1>3 DEF CopiesOK

(* An entry leaves a slot only when remove retires it, or when it is in the
   destination of its move, or has been removed from there. *)
LEMMA StepNoLost ==
  ASSUME Involutive, TwoBuckets, IInv, MoveInv, NEW t \in Thread, StepOf(t), AccountsOf(t)
  PROVE  NoLostEntry'
<1> SUFFICES ASSUME NEW a \in Address, heap[a] # Free
             PROVE  a \in Stored' \cup Pending' \cup Retired' \cup leaked'
  BY DEF NoLostEntry, Allocated, StepOf
<1>1. a \in Stored \cup Pending \cup Retired \cup leaked /\ a # NULL
  BY TablePointerAssumption DEF MoveInv, NoLostEntry, Allocated
<1>2. CASE a \in Retired \cup leaked
  BY <1>2 DEF AccountsOf
<1>3. CASE a \in Pending
  <2>1. PICK u \in Thread : ins[u].entry = a
    BY <1>3 DEF Pending
  <2>2. CASE u # t
    BY <1>1, <2>1, <2>2 DEF StepOf, Pending
  <2>3. CASE u = t
    BY <1>1, <2>1, <2>3 DEF AccountsOf, Pending
  <2> QED BY <2>2, <2>3
<1>4. CASE a \in Stored
  <2>1. PICK l \in Location : hash_table[l].real = a
    BY <1>4 DEF Stored
  <2>2. ASSUME NEW m \in Location, hash_table'[m].real = a PROVE a \in Stored'
    BY <1>1, <2>2 DEF Stored
  <2>3. CASE hash_table'[l].real = a
    BY <2>2, <2>3
  <2>4. CASE hash_table'[l].real # a
    <3>1. \/ pc[t] = "hlp_clear" /\ l = HlpSource(t) /\ hash_table[l] = hlp[t].ptr1
          \/ pc[t] = "rem_cas" /\ rem[t].ptr1.real = a
      BY <1>1, <2>1, <2>4 DEF StepOf, Change
    <3>2. CASE pc[t] = "rem_cas" /\ rem[t].ptr1.real = a
      BY <2>1, <2>4, <3>2 DEF AccountsOf
    <3>3. CASE pc[t] = "hlp_clear" /\ l = HlpSource(t) /\ hash_table[l] = hlp[t].ptr1
      <4>1. hlp[t].ptr1.real = a /\ SourceHeld(t)
        BY <2>1, <3>3 DEF SourceHeld, Holds
      <4>2. TargetHasItem(t) \/ a \in Retired
        BY <3>3, <4>1 DEF MoveInv, MoveOK, MovedOK
      <4>3. HlpDest(t) \in Location /\ HlpDest(t) # l
        BY <1>1, <3>3, <4>1, MovePlaces
      <4>4. hash_table'[HlpDest(t)] = hash_table[HlpDest(t)]
        BY <3>3, <4>3 DEF StepOf, Change
      <4> QED BY <2>2, <4>1, <4>2, <4>3, <4>4 DEF TargetHasItem, AccountsOf
    <3> QED BY <3>1, <3>2, <3>3
  <2> QED BY <2>3, <2>4
<1> QED BY <1>1, <1>2, <1>3, <1>4

(* A step of an operation preserves the invariant. *)
LEMMA StepMoveInv ==
  ASSUME Involutive, TwoBuckets, IInv, CounterInv, MoveInv, NEW t \in Thread, Step(t)
  PROVE  MoveInv'
<1>1. StepOf(t) /\ AccountsOf(t)
  BY StepIs, StepAccounts
<1>2. InTwoPlaces' /\ CopiesOK' /\ NoLostEntry'
  BY <1>1, StepTwoPlaces, StepCopies, StepNoLost
<1>3. ASSUME NEW u \in Thread PROVE MoveOK(u)'
  BY <1>1, StepFresh, StepSwapWords, StepSource, StepTarget, StepMoved DEF MoveOK
<1>4. ASSUME NEW u \in Thread, NEW v \in Thread PROVE OppositeOK(u, v)'
  BY <1>1, StepOpposite
<1> QED BY <1>2, <1>3, <1>4 DEF MoveInv

-----------------------------------------------------------------------------
(***************************************************************************)
(* The other steps preserve the invariant                                  *)
(***************************************************************************)
(* A call that begins allocates at most the entry of its own insert, at an
   address that was free. *)
LEMMA NewCallEntry ==
  ASSUME IInv, NEW t \in Thread, NewCall(t)
  PROVE  /\ UNCHANGED <<retired_ptrs, leaked>>
         /\ ins'[t].entry # NULL => heap[ins'[t].entry] = Free
         /\ \A a \in Address : heap'[a] # heap[a] => a = ins'[t].entry
<1>1. PICK k \in Key : InsertCall(t, k) \/ FindCall(t, k) \/ RemoveCall(t, k)
  BY DEF NewCall
<1>2. heap \in [Address -> Fingerprint \cup {Free}] /\ ins \in [Thread -> InsFrame]
  BY DEF IInv, TypeOK
<1>3. CASE InsertCall(t, k)
  <2>1. NewAddress \in Address /\ heap[NewAddress] = Free
    BY <1>3 DEF InsertCall, NewAddress, FreeAddress
  <2>2. [NoIns EXCEPT !.entry = NewAddress].entry = NewAddress
    BY DEF NoIns
  <2>3. ins'[t].entry = NewAddress /\ heap' = [heap EXCEPT ![NewAddress] = md5_fingerprint[k]]
        /\ UNCHANGED <<retired_ptrs, leaked>>
    BY <1>2, <1>3, <2>2 DEF InsertCall
  <2> QED BY <1>2, <2>1, <2>3
<1>4. CASE FindCall(t, k) \/ RemoveCall(t, k)
  <2>1. pc[t] = "idle" /\ UNCHANGED <<ins, heap, retired_ptrs, leaked>>
    BY <1>4 DEF FindCall, RemoveCall, Begin, shared, others
  <2> QED BY <2>1, IdleFrames
<1> QED BY <1>1, <1>3, <1>4

(* A call begins: insert allocates an entry that nobody knows. *)
LEMMA NewCallMoveInv ==
  ASSUME Involutive, TwoBuckets, IInv, MoveInv, NEW t \in Thread, NewCall(t)
  PROVE  MoveInv'
<1>1. /\ pc[t] = "idle" /\ pc'[t] \in {"ins_read", "fnd_first"}
      /\ UNCHANGED <<hash_table, hlp, retired_ptrs, leaked>>
      /\ \A u \in Thread \ {t} : Untouched(u)
      /\ \A a \in AddressOrNull : a # NULL /\ Alive(a) => heap'[a] = heap[a]
  BY NewCallActs, NewCallEntry
<1>2. hlp[t].ptr1.real = NULL /\ ins[t].entry = NULL
  BY <1>1, IdleFrames
<1>3. /\ \A l \in Location : hash_table[l].real \in AddressOrNull /\ Alive(hash_table[l].real)
      /\ \A u \in Thread : /\ hlp[u].ptr1.real \in AddressOrNull /\ Alive(hlp[u].ptr1.real)
                           /\ ins[u].entry \in AddressOrNull /\ Alive(ins[u].entry)
  BY ReadTypes, FrameTypes DEF HlpFrame, InsFrame, table_pointer, AddressOrNull, HlpOK, InsOK
<1>4. \A u \in Thread : HlpSource(u)' = HlpSource(u)
  BY <1>1 DEF HlpSource
<1>5. \A u \in Thread : hlp[u].ptr1.real # NULL => HlpDest(u)' = HlpDest(u)
  BY <1>1, <1>3 DEF HlpDest
<1>6. \A u \in Thread : pc'[u] \in HelpLabels => pc[u] = pc'[u]
  BY <1>1 DEF Untouched, HelpLabels
<1>7. \A u \in Thread : (MeetsMark(u)' \/ FoundEmpty(u)') => hlp[u].ptr1.real # NULL
  BY <1>1, <1>6, FrameTypes DEF HlpOK, MeetsMark, FoundEmpty, MoveLabels, HelpLabels
<1>8. InTwoPlaces'
  <2> SUFFICES ASSUME NEW a \in Address, NEW l \in Location, NEW m \in Location,
                      KnownAt(a, l)', KnownAt(a, m)'
               PROVE  m \in {l, Other(l, a)'}
    BY DEF InTwoPlaces
  <2>1. KnownAt(a, l) /\ KnownAt(a, m)
    BY <1>1, <1>4 DEF KnownAt, HoldsAt
  <2>2. a # NULL /\ Alive(a) /\ a \in AddressOrNull
    BY <1>3, <2>1, TablePointerAssumption DEF KnownAt, HoldsAt, AddressOrNull
  <2>3. Other(l, a)' = Other(l, a)
    BY <1>1, <2>2 DEF Other
  <2> QED BY <2>1, <2>3 DEF MoveInv, InTwoPlaces
<1>9. CopiesOK'
  <2>1. ASSUME NEW u \in Thread, Moving(u)
        PROVE  Moving(u)' /\ HlpSource(u)' = HlpSource(u) /\ HlpDest(u)' = HlpDest(u)
    <3>1. u # t /\ pc[u] = "hlp_clear"
      BY <1>1, <2>1 DEF Moving
    <3>2. hlp[u].ptr1.real # NULL
      BY <3>1, FrameTypes DEF HlpOK, HelpLabels
    <3> QED BY <1>1, <1>4, <1>5, <2>1, <3>1, <3>2 DEF Moving, Holds, Untouched
  <2> QED BY <1>1, <2>1 DEF MoveInv, CopiesOK
<1>10. NoLostEntry'
  <2> SUFFICES ASSUME NEW a \in Address, heap'[a] # Free
               PROVE  a \in Stored' \cup Pending' \cup Retired' \cup leaked'
    BY DEF NoLostEntry, Allocated
  <2>1. a # NULL
    BY TablePointerAssumption
  <2>2. CASE heap[a] # Free
    <3>1. a \in Stored \cup Pending \cup Retired \cup leaked
      BY <2>2 DEF MoveInv, NoLostEntry, Allocated
    <3>2. a \in Pending => a \in Pending'
      BY <1>1, <1>2 DEF Pending, Untouched
    <3> QED BY <1>1, <3>1, <3>2 DEF Stored, Retired
  <2>3. CASE heap[a] = Free
    BY <2>1, <2>3, NewCallEntry DEF Pending
  <2> QED BY <2>2, <2>3
<1>11. ASSUME NEW u \in Thread PROVE MoveOK(u)'
  <2>1. MoveOK(u)
    BY DEF MoveInv
  <2>2. Fresh(u)'
    <3> SUFFICES ASSUME ins'[u].entry # NULL
                 PROVE  /\ \A l \in Location : hash_table[l].real # ins'[u].entry
                        /\ \A v \in Thread : /\ hlp[v].ptr1.real # ins'[u].entry
                                             /\ ins'[v].entry = ins'[u].entry => v = u
      BY <1>1 DEF Fresh
    <3>1. ins'[t].entry # NULL => ~Alive(ins'[t].entry)
      BY NewCallEntry DEF Alive
    <3>2. CASE u = t
      BY <1>1, <1>3, <3>1, <3>2 DEF Untouched
    <3>3. CASE u # t
      <4>1. ins'[u] = ins[u]
        BY <1>1, <3>3 DEF Untouched
      <4>2. ins'[t].entry # ins[u].entry
        BY <1>3, <3>1, <4>1
      <4> QED BY <1>1, <2>1, <4>1, <4>2 DEF MoveOK, Fresh, Untouched
    <3> QED BY <3>2, <3>3
  <2>3. SwapWords(u)'
    BY <1>1, <2>1 DEF MoveOK, SwapWords, Untouched, MoveLabels, HelpLabels
  <2>4. SourceOK(u)' /\ TargetOK(u)' /\ MovedOK(u)'
    <3>1. CASE MeetsMark(u)' \/ FoundEmpty(u)'
      <4>1. /\ pc'[u] = pc[u] /\ UNCHANGED <<hash_table, hlp>>
            /\ HlpSource(u)' = HlpSource(u) /\ HlpDest(u)' = HlpDest(u)
            /\ Retired' = Retired
        BY <1>1, <1>4, <1>5, <1>6, <1>7, <3>1
        DEF Retired, MeetsMark, FoundEmpty, MoveLabels, HelpLabels
      <4>2. SourceOK(u) /\ TargetOK(u) /\ MovedOK(u)
        BY <2>1 DEF MoveOK
      <4> QED BY <4>1, <4>2 DEF SourceOK, TargetOK, MovedOK, SourceHeld, SourceHasItem,
                                TargetHasItem, TargetAbove, MeetsMark, FoundEmpty, Holds
    <3>2. CASE ~(MeetsMark(u)' \/ FoundEmpty(u)')
      BY <3>2 DEF SourceOK, TargetOK, MovedOK, MeetsMark, FoundEmpty, MoveLabels, HelpLabels
    <3> QED BY <3>1, <3>2
  <2> QED BY <2>2, <2>3, <2>4 DEF MoveOK
<1>12. ASSUME NEW u \in Thread, NEW v \in Thread PROVE OppositeOK(u, v)'
  <2> SUFFICES ASSUME Opposite(u, v)' PROVE OppositeOK(u, v)'
    BY DEF OppositeOK
  <2>1. pc'[u] = "hlp_move" /\ pc'[v] = "hlp_move"
    BY DEF Opposite
  <2>2. /\ pc[u] = "hlp_move" /\ pc[v] = "hlp_move" /\ UNCHANGED <<hash_table, hlp>>
        /\ HlpSource(u)' = HlpSource(u) /\ HlpDest(u)' = HlpDest(u)
        /\ HlpSource(v)' = HlpSource(v) /\ HlpDest(v)' = HlpDest(v)
    BY <1>1, <1>4, <1>5, <1>6, <1>7, <2>1 DEF FoundEmpty, HelpLabels
  <2>3. OppositeOK(u, v)
    BY DEF MoveInv
  <2> QED BY <2>2, <2>3 DEF OppositeOK, Opposite, TargetAbove
<1> QED BY <1>8, <1>9, <1>10, <1>11, <1>12 DEF MoveInv

(* Nothing is known of any entry, and no move is going on: the state of an empty
   filter between calls. *)
LEMMA DeleteAllMoveInv ==
  ASSUME IInv, MoveInv, Reset \/ Destroy
  PROVE  MoveInv'
<1>1. /\ \A t \in Thread : /\ pc[t] = "idle" /\ pc'[t] = "idle"
                           /\ ins'[t].entry = NULL /\ hlp'[t].ptr1.real = NULL
      /\ \A l \in Location : hash_table'[l].real = NULL
  BY DeleteAllActs
<1>2. NULL \notin Address
  BY TablePointerAssumption
<1>3. InTwoPlaces' /\ CopiesOK'
  BY <1>1, <1>2 DEF InTwoPlaces, CopiesOK, KnownAt, HoldsAt
<1>4. \A t, u \in Thread : MoveOK(t)' /\ OppositeOK(t, u)'
  BY <1>1 DEF MoveOK, Fresh, SwapWords, SourceOK, TargetOK, MovedOK, OppositeOK, Opposite,
     MeetsMark, FoundEmpty, MoveLabels, HelpLabels
<1>5. NoLostEntry'
  <2>1. /\ heap' = [a \in Address |-> IF a \in Stored THEN Free ELSE heap[a]]
        /\ leaked' = (leaked \cup Retired) \ Stored
    BY DEF Reset, Destroy, DeleteAll
  <2>2. Pending = {}
    BY <1>1, IdleFrames DEF Pending
  <2> QED BY <2>1, <2>2 DEF MoveInv, NoLostEntry, Allocated
<1> QED BY <1>3, <1>4, <1>5 DEF MoveInv

(* In an empty filter there is nothing to keep track of. *)
LEMMA InitMoveInv == Init => MoveInv
<1> SUFFICES ASSUME Init PROVE MoveInv
  OBVIOUS
<1>1. \A t \in Thread : pc[t] = "idle" /\ ins[t].entry = NULL /\ hlp[t].ptr1.real = NULL
  BY NoFrameTypes DEF Init
<1>2. /\ \A l, m \in Location :
           hash_table[l].real # NULL /\ hash_table[l].real = hash_table[m].real => l = m
      /\ \A a \in Address : heap[a] # Free => \E l \in Location : hash_table[l].real = a
      /\ NULL \notin Address
  BY FilterAssumption, TablePointerAssumption DEF Init, AtRest
<1>3. InTwoPlaces
  BY <1>1, <1>2 DEF InTwoPlaces, KnownAt, HoldsAt
<1>4. CopiesOK
  BY <1>2 DEF CopiesOK
<1>5. NoLostEntry
  BY <1>2 DEF NoLostEntry, Allocated, Stored
<1>6. \A t, u \in Thread : MoveOK(t) /\ OppositeOK(t, u)
  BY <1>1 DEF MoveOK, Fresh, SwapWords, SourceOK, TargetOK, MovedOK, OppositeOK, Opposite,
     MeetsMark, FoundEmpty, MoveLabels, HelpLabels
<1> QED BY <1>3, <1>4, <1>5, <1>6 DEF MoveInv

(* A step that changes nothing. *)
LEMMA StutterMoveInv == MoveInv /\ UNCHANGED vars => MoveInv'
<1> SUFFICES ASSUME MoveInv, UNCHANGED vars PROVE MoveInv'
  OBVIOUS
<1>1. UNCHANGED <<hash_table, heap, retired_ptrs, leaked, pc, ins, rem, hlp>>
  BY DEF vars, shared, others, callers
<1>2. \A t \in Thread : HlpSource(t)' = HlpSource(t) /\ HlpDest(t)' = HlpDest(t)
  BY <1>1 DEF HlpSource, HlpDest
<1>3. /\ \A a, l : KnownAt(a, l)' = KnownAt(a, l) /\ Other(l, a)' = Other(l, a)
      /\ Stored' = Stored /\ Pending' = Pending /\ Retired' = Retired
  BY <1>1, <1>2 DEF KnownAt, HoldsAt, Other, Stored, Pending, Retired
<1>4. InTwoPlaces'
  BY <1>3 DEF MoveInv, InTwoPlaces
<1>5. CopiesOK'
  BY <1>1, <1>2 DEF MoveInv, CopiesOK, Moving, Holds
<1>6. NoLostEntry'
  BY <1>1, <1>3 DEF MoveInv, NoLostEntry, Allocated
<1>7. ASSUME NEW t \in Thread PROVE MoveOK(t)'
  <2>1. MoveOK(t)
    BY DEF MoveInv
  <2>2. Fresh(t)' /\ SwapWords(t)'
    BY <1>1, <2>1 DEF MoveOK, Fresh, SwapWords
  <2>3. SourceOK(t)' /\ TargetOK(t)' /\ MovedOK(t)'
    BY <1>1, <1>2, <1>3, <2>1 DEF MoveOK, SourceOK, TargetOK, MovedOK, SourceHeld,
       SourceHasItem, TargetHasItem, TargetAbove, MeetsMark, FoundEmpty, Holds
  <2> QED BY <2>2, <2>3 DEF MoveOK
<1>8. ASSUME NEW t \in Thread, NEW u \in Thread PROVE OppositeOK(t, u)'
  BY <1>1, <1>2 DEF MoveInv, OppositeOK, Opposite, TargetAbove
<1> QED BY <1>4, <1>5, <1>6, <1>7, <1>8 DEF MoveInv

(* Every step preserves the invariant. *)
LEMMA NextMoveInv ==
  Involutive /\ TwoBuckets /\ IInv /\ CounterInv /\ MoveInv /\ [Next]_vars => MoveInv'
BY StepMoveInv, NewCallMoveInv, DeleteAllMoveInv, StutterMoveInv DEF Next, Halted

-----------------------------------------------------------------------------
(***************************************************************************)
(* The theorems                                                            *)
(***************************************************************************)
(* What the threads in help_relocate know of the two slots of an item holds
   whatever the others do: no helper, however late, brings an item back to a
   slot that it was moved from or moves it twice. *)
THEOREM MovesKeepTrack == ASSUME Involutive, TwoBuckets PROVE Spec => []MoveInv
<1>1. IInv /\ CounterInv /\ MoveInv /\ [Next]_vars => MoveInv'
  BY NextMoveInv
<1> QED BY <1>1, InitMoveInv, InitCounters, NextCounters, Invariance, PTL DEF Spec

(* No entry gets lost: relocation, helped or not, takes an entry out of a slot
   only when it is in the other one or was removed from there. *)
THEOREM EntriesAreNeverLost == ASSUME Involutive, TwoBuckets PROVE Spec => []NoLostEntry
<1>1. MoveInv => NoLostEntry
  BY DEF MoveInv
<1> QED BY <1>1, MovesKeepTrack, PTL

(* An entry is in two slots only between the two swaps of its move, so that every
   entry is in one slot when all calls have returned. *)
THEOREM CopiesAreMoving == ASSUME Involutive, TwoBuckets PROVE Spec => []DuplicateHasMover
<1>1. MoveInv => DuplicateHasMover
  BY CopiesHaveMover DEF MoveInv
<1> QED BY <1>1, MovesKeepTrack, PTL

(* The last two exits of help_relocate never change the table: a destination that
   holds the word read from the source would be a copy with the same counter. *)
THEOREM LateExitsNeverSwap == ASSUME Involutive, TwoBuckets PROVE Spec => []LateExitsHarmless
<1>1. IInv /\ MoveInv => LateExitsHarmless
  BY LateExits
<1> QED BY <1>1, Invariance, MovesKeepTrack, PTL

(* A marked slot is left alone by insert and remove, and only cleared by the move
   it was marked for. *)
THEOREM MarkedStaysFrozen == ASSUME Involutive, TwoBuckets PROVE Spec => MarkedIsFrozen
<1>1. ASSUME IInv, MoveInv, [Next]_vars
      PROVE  \/ \A l \in Location :
                  LET p == hash_table[l] IN
                  p.marked => \/ hash_table'[l] \in {p, create_pointer(p.counter + 1, NULL, FALSE)}
                              \/ Dropped
             \/ UNCHANGED vars
  <2>1. ASSUME NEW t \in Thread, Step(t), NEW l \in Location, hash_table[l].marked
        PROVE  hash_table'[l] \in {hash_table[l],
                                   create_pointer(hash_table[l].counter + 1, NULL, FALSE)}
    <3>1. hash_table[l].real # NULL
      BY <1>1, <2>1 DEF IInv, TableOK
    <3>2. Change(t, l)
      BY <1>1, <2>1, StepIs DEF StepOf
    <3>3. hash_table'[l] \in {hash_table[l], Vacated(hash_table[l])}
      BY <2>1, <3>1, <3>2 DEF Change
    <3> QED BY <3>3 DEF Vacated
  <2>2. CASE Reset
    <3>1. resets' = resets + 1 /\ resets \in Nat
      BY <1>1, <2>2 DEF Reset, IInv, TypeOK
    <3>2. Dropped
      BY <3>1 DEF Dropped
    <3> QED BY <3>2
  <2>3. CASE Destroy
    BY <2>3 DEF Destroy, Dropped
  <2>4. CASE \E t \in Thread : NewCall(t)
    BY <1>1, <2>4, NewCallActs
  <2> QED BY <1>1, <2>1, <2>2, <2>3, <2>4 DEF Next, Halted
<1> QED BY <1>1, Invariance, MovesKeepTrack, PTL DEF Spec, MarkedIsFrozen
=============================================================================
