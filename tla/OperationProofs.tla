-------------------------- MODULE OperationProofs ---------------------------
(***************************************************************************)
(* Every step of an operation of LockFreeFilter preserves IInv: lemmas     *)
(* about the operators of the model and about parts of steps, and then one *)
(* lemma per action.                                                       *)
(***************************************************************************)
EXTENDS FilterInvariant, TLAPS

(***************************************************************************)
(* Operators                                                               *)
(***************************************************************************)
(* Bucket numbers computed from a fingerprint or a key are in the table. *)
LEMMA HashTypes ==
  /\ \A i \in Bucket, f \in Fingerprint : get_next_hash_index(i, f) \in Bucket
  /\ \A k \in Key : md5_fingerprint[k] \in Fingerprint /\ hash1(k) \in Bucket
                     /\ hash2(k) \in Bucket
  /\ 0 \in Bucket
<1>1. \A n \in Nat : n % TableSize \in Bucket
  BY PartialKeyAssumption DEF Bucket
<1>2. \A f \in Fingerprint : jenkins_hash[f] % TableSize \in Bucket
  BY <1>1, PartialKeyAssumption
<1>3. \A i \in Bucket, f \in Fingerprint : get_next_hash_index(i, f) \in Bucket
  BY <1>1, <1>2, PartialKeyAssumption DEF get_next_hash_index
<1>4. \A k \in Key : md5_fingerprint[k] \in Fingerprint /\ hash1(k) \in Bucket
  BY <1>1, PartialKeyAssumption DEF hash1
<1>5. 0 \in Bucket
  BY PartialKeyAssumption DEF Bucket
<1> QED BY <1>3, <1>4, <1>5 DEF hash2

(* Marking a word changes nothing else of it. *)
LEMMA MarkTypes ==
  \A w \in table_pointer : /\ get_new_mark(w, TRUE) \in table_pointer
                           /\ get_new_mark(w, TRUE).real = w.real
                           /\ get_new_mark(w, TRUE).counter = w.counter
  BY DEF get_new_mark, table_pointer

(* The zero word is a table pointer without entry or mark. *)
LEMMA EmptyTypes ==
  /\ empty_slot \in table_pointer /\ empty_slot.real = NULL /\ ~empty_slot.marked
  /\ NULL \notin Address
  BY TablePointerAssumption DEF empty_slot, table_pointer, create_pointer

(* The frames that are not in use have the types of frames. *)
LEMMA NoFrameTypes ==
  /\ NoIns \in InsFrame /\ NoIns.entry = NULL
  /\ NoFnd \in FndFrame /\ NoFnd.ptr.real = NULL
  /\ NoRem \in RemFrame /\ NoRem.ptr1.real = NULL /\ NoRem.location # NotFound
  /\ NoRel \in RelFrame /\ NoRel.source = NULL /\ NoRel.left = 0 /\ NoRel.depth = 0
     /\ NoRel.ptr.real = NULL
  /\ NoHlp \in HlpFrame /\ NoHlp.ptr1.real = NULL /\ ~NoHlp.ptr1.marked
  /\ 0 \in Slot /\ 0 \in Level /\ 0 \in Counter
<1>1. 0 \in Slot /\ 0 \in Level /\ 0 \in Counter /\ 0 \in Bucket /\ 0 # NotFound
      /\ 0 \in 0 .. LastProbe /\ 0 \in 0 .. NotFound
  BY PartialKeyAssumption, TablePointerAssumption, HashTypes
  DEF Slot, Level, Counter, LastProbe, NotFound
<1>2. NoIns \in InsFrame /\ NoIns.entry = NULL
  BY <1>1, EmptyTypes DEF NoIns, InsFrame, AddressOrNull
<1>3. NoFnd \in FndFrame /\ NoFnd.ptr.real = NULL
  BY <1>1, EmptyTypes DEF NoFnd, FndFrame
<1>4. NoRem \in RemFrame /\ NoRem.ptr1.real = NULL /\ NoRem.location # NotFound
  BY <1>1, EmptyTypes DEF NoRem, RemFrame
<1>5. /\ NoRel \in RelFrame /\ NoRel.source = NULL /\ NoRel.left = 0 /\ NoRel.depth = 0
      /\ NoRel.ptr.real = NULL
  BY <1>1, EmptyTypes DEF NoRel, RelFrame, AddressOrNull
<1>6. NoHlp \in HlpFrame /\ NoHlp.ptr1.real = NULL /\ ~NoHlp.ptr1.marked
  BY <1>1, EmptyTypes DEF NoHlp, HlpFrame, Label
<1> QED BY <1>1, <1>2, <1>3, <1>4, <1>5, <1>6

-----------------------------------------------------------------------------
(***************************************************************************)
(* Parts of steps                                                          *)
(***************************************************************************)
(* A write of a good word keeps the table good. *)
LEMMA StoreTable ==
  ASSUME IInv, NEW l \in Location, NEW w \in table_pointer, NEW old,
         Alive(w.real), w.marked => w.real # NULL, UNCHANGED heap,
         Store(l, w) \/ CAS(l, old, w)
  PROVE  hash_table' \in [Location -> table_pointer] /\ TableOK'
<1>1. hash_table' = hash_table \/ hash_table' = [hash_table EXCEPT ![l] = w]
  BY DEF Store, CAS
<1>2. hash_table \in [Location -> table_pointer]
  BY DEF IInv, TypeOK
<1> QED BY <1>1, <1>2 DEF IInv, TableOK, Alive

(* A step that leaves table and heap alone keeps the table good. *)
LEMMA SameTable ==
  ASSUME IInv, UNCHANGED <<hash_table, heap>>
  PROVE  hash_table' \in [Location -> table_pointer] /\ TableOK'
  BY DEF IInv, TypeOK, TableOK, Alive

(* A step of another thread that deletes no entry keeps the frames of u. *)
LEMMA OtherThread ==
  ASSUME IInv, NEW u \in Thread,
         pc'[u] = pc[u], call'[u] = call[u], ins'[u] = ins[u], fnd'[u] = fnd[u],
         rem'[u] = rem[u], rel'[u] = rel[u], hlp'[u] = hlp[u],
         \A a \in Address : heap[a] # Free => heap'[a] # Free
  PROVE  FrameOK(u)'
<1>1. FrameOK(u)
  BY DEF IInv
<1>2. Where(u)' = Where(u)
  BY DEF Where
<1>3. /\ ins[u].entry \in AddressOrNull
      /\ fnd[u].ptr.real \in AddressOrNull
      /\ rem[u].ptr1.real \in AddressOrNull
      /\ rel[u].source \in AddressOrNull
      /\ rel[u].ptr.real \in AddressOrNull
      /\ hlp[u].ptr1.real \in AddressOrNull
  BY DEF IInv, TypeOK, InsFrame, FndFrame, RemFrame, RelFrame, HlpFrame, table_pointer,
     AddressOrNull
<1>4. \A a \in AddressOrNull : Alive(a) => Alive(a)'
  BY DEF Alive, AddressOrNull
<1>5. CallOK(u)'
  BY <1>1 DEF FrameOK, CallOK
<1>6. InsOK(u)'
  BY <1>1, <1>2, <1>3, <1>4 DEF FrameOK, InsOK
<1>7. RemOK(u)'
  BY <1>1, <1>3, <1>4 DEF FrameOK, RemOK
<1>8. RelOK(u)'
  BY <1>1, <1>2, <1>3, <1>4 DEF FrameOK, RelOK
<1>9. HlpOK(u)'
  BY <1>1, <1>3, <1>4 DEF FrameOK, HlpOK
<1>10. FndOK(u)'
  BY <1>1, <1>3, <1>4 DEF FrameOK, FndOK
<1> QED BY <1>5, <1>6, <1>7, <1>8, <1>9, <1>10 DEF FrameOK

(* The types of the frame of thread t, and what is known of the others. *)
LEMMA FrameTypes ==
  ASSUME IInv, NEW t \in Thread
  PROVE  /\ pc[t] \in Label /\ ins[t] \in InsFrame /\ fnd[t] \in FndFrame
         /\ rem[t] \in RemFrame /\ rel[t] \in RelFrame /\ hlp[t] \in HlpFrame
         /\ CallOK(t) /\ InsOK(t) /\ FndOK(t) /\ RemOK(t) /\ RelOK(t) /\ HlpOK(t)
         /\ hash_table \in [Location -> table_pointer]
         /\ heap \in [Address -> Fingerprint \cup {Free}]
         /\ result[t] \in {"none", "true", "false"}
         /\ TableOK
  BY DEF IInv, TypeOK, FrameOK

(* The fingerprint of an entry that is alive. *)
LEMMA AliveFingerprint ==
  ASSUME IInv, NEW a \in AddressOrNull, Alive(a), a # NULL
  PROVE  a \in Address /\ heap[a] \in Fingerprint
  BY DEF IInv, TypeOK, Alive, AddressOrNull

(* A thread's hazard pointers hold addresses. *)
LEMMA HazardTypes ==
  ASSUME IInv, NEW t \in Thread
  PROVE  /\ \A j \in HazardIndex, a \in AddressOrNull : MarkHazard(t, j, a) =>
              hazard_ptrs' \in [Thread -> [HazardIndex -> AddressOrNull]]
         /\ ClearHazard(t) => hazard_ptrs' \in [Thread -> [HazardIndex -> AddressOrNull]]
         /\ UNCHANGED hazard_ptrs => hazard_ptrs' \in [Thread -> [HazardIndex -> AddressOrNull]]
<1>1. hazard_ptrs \in [Thread -> [HazardIndex -> AddressOrNull]]
  BY DEF IInv, TypeOK
<1>2. NoHazard \in [HazardIndex -> AddressOrNull]
  BY DEF NoHazard, AddressOrNull
<1>3. ASSUME NEW j \in HazardIndex, NEW a \in AddressOrNull, MarkHazard(t, j, a)
      PROVE  hazard_ptrs' \in [Thread -> [HazardIndex -> AddressOrNull]]
  <2>1. hazard_ptrs' = [hazard_ptrs EXCEPT ![t] = [hazard_ptrs[t] EXCEPT ![j] = a]]
    BY <1>1, <1>3 DEF MarkHazard
  <2>2. [hazard_ptrs[t] EXCEPT ![j] = a] \in [HazardIndex -> AddressOrNull]
    BY <1>1
  <2> QED BY <1>1, <2>1, <2>2
<1>4. ClearHazard(t) => hazard_ptrs' \in [Thread -> [HazardIndex -> AddressOrNull]]
  BY <1>1, <1>2 DEF ClearHazard
<1> QED BY <1>1, <1>3, <1>4

(* A word of the table: its type, and its entry is alive. *)
LEMMA ReadTypes ==
  ASSUME IInv, NEW l \in Location
  PROVE  /\ hash_table[l] \in table_pointer /\ hash_table[l].real \in AddressOrNull
         /\ hash_table[l].counter \in Counter
         /\ Alive(hash_table[l].real)
         /\ hash_table[l].marked => hash_table[l].real # NULL
  BY DEF IInv, TypeOK, TableOK, table_pointer, AddressOrNull, Counter

(* A step of thread t leaves the control and the frames of the others alone. *)
OthersKeep(t) ==
  \A u \in Thread \ {t} :
    /\ pc'[u] = pc[u] /\ call'[u] = call[u] /\ ins'[u] = ins[u]
    /\ fnd'[u] = fnd[u] /\ rem'[u] = rem[u] /\ rel'[u] = rel[u] /\ hlp'[u] = hlp[u]

(* Such a step keeps the invariant when it keeps types, table and the frames
   of t. *)
LEMMA ThreadInv ==
  ASSUME IInv, NEW t \in Thread, TypeOK', TableOK', OthersKeep(t),
         \A a \in Address : heap[a] # Free => heap'[a] # Free,
         CallOK(t)', InsOK(t)', FndOK(t)', RemOK(t)', RelOK(t)', HlpOK(t)'
  PROVE  IInv'
<1>1. ASSUME NEW u \in Thread PROVE FrameOK(u)'
  <2>1. CASE u = t
    BY <2>1 DEF FrameOK
  <2>2. CASE u # t
    BY <2>2, OtherThread DEF OthersKeep
  <2> QED BY <2>1, <2>2
<1> QED BY <1>1 DEF IInv

(* What a caller passes to help_relocate is a frame of it. *)
LEMMA CallHelpTypes ==
  ASSUME IInv, NEW t \in Thread, NEW b \in Bucket, NEW s \in Slot, NEW ret \in Label,
         CallHelp(t, b, s, TRUE, ret) \/ CallHelp(t, b, s, FALSE, ret)
  PROVE  /\ pc' = [pc EXCEPT ![t] = "hlp_load"]
         /\ hazard_ptrs' \in [Thread -> [HazardIndex -> AddressOrNull]]
         /\ hlp'[t] \in HlpFrame /\ hlp' = [hlp EXCEPT ![t] = hlp'[t]]
         /\ hlp'[t].ptr1.real = NULL /\ ~hlp'[t].ptr1.marked /\ hlp'[t].ret = ret
<1> DEFINE h(i) == [NoHlp EXCEPT !.idx = b, !.slot = s, !.initiator = i, !.ret = ret]
<1>1. ASSUME NEW i \in BOOLEAN
      PROVE  h(i) \in HlpFrame /\ h(i).ptr1 = NoHlp.ptr1 /\ h(i).ret = ret
  <2>1. h(i) \in HlpFrame
    BY NoFrameTypes DEF HlpFrame
  <2>2. h(i).ptr1 = NoHlp.ptr1 /\ h(i).ret = ret
    BY NoFrameTypes DEF HlpFrame
  <2> QED BY <2>1, <2>2
<1>2. PICK i \in BOOLEAN : hlp' = [hlp EXCEPT ![t] = h(i)]
  BY DEF CallHelp
<1>3. pc' = [pc EXCEPT ![t] = "hlp_load"] /\ ClearHazard(t)
  BY DEF CallHelp, Goto
<1> HIDE DEF h
<1>4. hlp'[t] = h(i)
  BY <1>2 DEF IInv, TypeOK
<1>5. hlp'[t] \in HlpFrame /\ hlp'[t].ptr1.real = NULL /\ ~hlp'[t].ptr1.marked /\ hlp'[t].ret = ret
  BY <1>1, <1>4, NoFrameTypes
<1> QED BY <1>2, <1>3, <1>4, <1>5, HazardTypes
-----------------------------------------------------------------------------
(***************************************************************************)
(* help_relocate                                                           *)
(***************************************************************************)
(* A step of help_relocate either stays in it, with the frame its next label
   needs, or returns to its caller. *)
LEMMA HelpInv ==
  ASSUME IInv, NEW t \in Thread, pc[t] \in HelpLabels,
         hash_table' \in [Location -> table_pointer], TableOK',
         hazard_ptrs' \in [Thread -> [HazardIndex -> AddressOrNull]],
         status' \in {"running", "aborted", "destroyed"},
         UNCHANGED <<heap, retired_ptrs, leaked, resets, callers>>,
         NEW l, pc' = [pc EXCEPT ![t] = l],
         NEW h \in HlpFrame, hlp' = [hlp EXCEPT ![t] = h],
         \/ l = hlp[t].ret /\ h = NoHlp
         \/ /\ l \in HelpLabels
            /\ h.ret = hlp[t].ret
            /\ h.ptr1.real # NULL => l # "hlp_load"
            /\ l \notin {"hlp_load", "hlp_hold1"} => h.ptr1.real # NULL
            /\ h.ptr1.marked => h.ptr1.real # NULL
            /\ Alive(h.ptr1.real)
            /\ l = "hlp_clear" => CounterFits(h.ptr1.counter + 1)
  PROVE  IInv'
<1>1. /\ hlp[t].ret \in {"fnd_first", "rel_reload", "rel_src", "rel_reload_src"}
      /\ l \in Label
  BY FrameTypes DEF HlpOK, HelpLabels, Label
<1>2. /\ ins' = [ins EXCEPT ![t] = ins[t]] /\ fnd' = [fnd EXCEPT ![t] = fnd[t]]
      /\ rem' = [rem EXCEPT ![t] = rem[t]] /\ rel' = [rel EXCEPT ![t] = rel[t]]
      /\ result' = [result EXCEPT ![t] = result[t]]
      /\ UNCHANGED <<call, ncalls>>
  BY DEF callers, calls, IInv, TypeOK
<1>3. /\ heap' \in [Address -> Fingerprint \cup {Free}]
      /\ retired_ptrs' \in [Thread -> Seq(Address)] /\ leaked' \subseteq Address
  BY DEF IInv, TypeOK
<1>4. /\ TypeOK' 
      /\ pc'[t] = l /\ hlp'[t] = h /\ ins'[t] = ins[t] /\ fnd'[t] = fnd[t]
      /\ rem'[t] = rem[t] /\ rel'[t] = rel[t]
  <2>1. /\ ins[t] \in InsFrame /\ fnd[t] \in FndFrame /\ rem[t] \in RemFrame
        /\ rel[t] \in RelFrame /\ result[t] \in {"none", "true", "false"}
    BY FrameTypes
  <2> QED BY <1>1, <1>2, <1>3, <2>1 DEF IInv, TypeOK
<1>5. Where(t)' = Where(t) /\ call'[t] = call[t]
  <2>1. Where(t) = hlp[t].ret
    BY DEF Where
  <2>2. l \in HelpLabels => h.ret = hlp[t].ret
    BY <1>1 DEF HelpLabels
  <2>3. l \notin HelpLabels => l = hlp[t].ret
    OBVIOUS
  <2> QED BY <1>2, <1>4, <2>1, <2>2, <2>3 DEF Where
<1>6. \A a : Alive(a)' <=> Alive(a)
  BY DEF Alive
<1>7. CallOK(t)' /\ InsOK(t)'
  BY <1>4, <1>5, <1>6, FrameTypes DEF CallOK, InsOK, HelpLabels
<1>8. RemOK(t)'
  BY <1>1, <1>4, <1>6, FrameTypes DEF RemOK, HelpLabels
<1>9. RelOK(t)'
  BY <1>1, <1>4, <1>5, <1>6, FrameTypes DEF RelOK, HelpLabels
<1>10. HlpOK(t)'
  BY <1>1, <1>4, <1>6, NoFrameTypes, FrameTypes DEF HlpOK, HelpLabels, Alive
<1>11. FndOK(t)'
  BY <1>4, <1>6, FrameTypes DEF FndOK, HelpLabels
<1>12. ASSUME NEW u \in Thread PROVE FrameOK(u)'
  <2>1. CASE u = t
    BY <2>1, <1>7, <1>8, <1>9, <1>10, <1>11 DEF FrameOK
  <2>2. CASE u # t
    <3>1. pc'[u] = pc[u] /\ hlp'[u] = hlp[u]
      BY <2>2 DEF IInv, TypeOK
    <3> QED BY <3>1, OtherThread DEF callers, calls
  <2> QED BY <2>1, <2>2
<1> QED BY <1>4, <1>12 DEF IInv

(* The slots that help_relocate works on are in the table. *)
LEMMA HelpLocations ==
  ASSUME IInv, NEW t \in Thread, pc[t] \in HelpLabels
  PROVE  /\ HlpSource(t) \in Location
         /\ pc[t] \notin {"hlp_load", "hlp_hold1"} => HlpDest(t) \in Location
<1>1. hlp[t].idx \in Bucket /\ hlp[t].slot \in Slot /\ hlp[t].ptr1.real \in AddressOrNull
  BY FrameTypes DEF HlpFrame, table_pointer, AddressOrNull
<1>2. HlpSource(t) \in Location
  BY <1>1 DEF HlpSource, Location
<1>3. ASSUME pc[t] \notin {"hlp_load", "hlp_hold1"} PROVE HlpDest(t) \in Location
  <2>1. heap[hlp[t].ptr1.real] \in Fingerprint
    BY <1>1, <1>3, FrameTypes, AliveFingerprint DEF HlpOK
  <2> QED BY <1>1, <2>1, HashTypes DEF HlpDest, Location
<1> QED BY <1>2, <1>3

(* A step of help_relocate that changes nothing but its own frame. *)
LEMMA HelpStays ==
  ASSUME IInv, NEW t \in Thread, pc[t] \in HelpLabels, UNCHANGED <<shared, callers>>,
         hazard_ptrs' \in [Thread -> [HazardIndex -> AddressOrNull]],
         NEW l \in HelpLabels \ {"hlp_clear"}, pc' = [pc EXCEPT ![t] = l],
         NEW h \in HlpFrame, hlp' = [hlp EXCEPT ![t] = h], h.ret = hlp[t].ret,
         h.ptr1.real # NULL => l # "hlp_load",
         l \notin {"hlp_load", "hlp_hold1"} => h.ptr1.real # NULL,
         h.ptr1.marked => h.ptr1.real # NULL, Alive(h.ptr1.real)
  PROVE  IInv'
<1>1. /\ hash_table' \in [Location -> table_pointer] /\ TableOK'
      /\ status' \in {"running", "aborted", "destroyed"}
      /\ UNCHANGED <<heap, retired_ptrs, leaked, resets, callers>>
  BY SameTable DEF shared, others, IInv, TypeOK
<1>2. l \in HelpLabels /\ l # "hlp_clear"
  OBVIOUS
<1> QED BY <1>1, <1>2, HelpInv

(* The source is loaded. *)
LEMMA HlpLoadInv == ASSUME IInv, NEW t \in Thread, HlpLoad(t) PROVE IInv'
<1> DEFINE p == hash_table[HlpSource(t)]
           h == [hlp[t] EXCEPT !.ptr1 = p]
<1>1. pc[t] = "hlp_load" /\ pc[t] \in HelpLabels
  BY DEF HlpLoad, HelpLabels
<1>2. HlpSource(t) \in Location
  BY <1>1, HelpLocations
<1>3. /\ p \in table_pointer /\ Alive(p.real)
      /\ p.marked => p.real # NULL
  BY <1>2, ReadTypes
<1>4. /\ UNCHANGED <<shared, hazard_ptrs, callers>>
      /\ pc' = [pc EXCEPT ![t] = "hlp_hold1"] /\ hlp' = [hlp EXCEPT ![t].ptr1 = p]
  BY DEF HlpLoad, Goto
<1>5. hazard_ptrs' \in [Thread -> [HazardIndex -> AddressOrNull]]
  BY <1>4, HazardTypes
<1> HIDE DEF p
<1>6. h \in HlpFrame /\ h.ret = hlp[t].ret /\ h.ptr1 = p /\ hlp' = [hlp EXCEPT ![t] = h]
  BY <1>3, <1>4, FrameTypes DEF HlpFrame
<1> HIDE DEF h
<1>7. "hlp_hold1" \in HelpLabels \ {"hlp_clear"} /\ "hlp_hold1" # "hlp_load"
  BY DEF HelpLabels
<1> QED BY <1>1, <1>3, <1>4, <1>5, <1>6, <1>7, HelpStays

(* The source is announced: return, try to mark it, or go on to the destination. *)
LEMMA HlpHold1Inv == ASSUME IInv, NEW t \in Thread, HlpHold1(t) PROVE IInv'
<1> DEFINE p == hlp[t].ptr1
<1>1. pc[t] = "hlp_hold1" /\ pc[t] \in HelpLabels
  BY DEF HlpHold1, HelpLabels
<1>2. /\ hlp[t] \in HlpFrame /\ p.real \in AddressOrNull /\ Alive(p.real)
      /\ p.marked => p.real # NULL
  BY FrameTypes DEF HlpFrame, HlpOK, table_pointer, AddressOrNull
<1>3. MarkHazard(t, 0, p.real) /\ UNCHANGED <<shared, callers>>
  BY DEF HlpHold1
<1>4. hazard_ptrs' \in [Thread -> [HazardIndex -> AddressOrNull]]
  BY <1>2, <1>3, HazardTypes DEF HazardIndex
<1>5. /\ hash_table' \in [Location -> table_pointer] /\ TableOK'
      /\ status' \in {"running", "aborted", "destroyed"}
      /\ UNCHANGED <<heap, retired_ptrs, leaked, resets, callers>>
  BY <1>3, SameTable DEF shared, others, IInv, TypeOK
<1>6. CASE HlpReturn(t)
  <2>1. pc' = [pc EXCEPT ![t] = hlp[t].ret] /\ hlp' = [hlp EXCEPT ![t] = NoHlp]
    BY <1>6 DEF HlpReturn, Goto
  <2> QED BY <1>1, <1>4, <1>5, <2>1, NoFrameTypes, HelpInv
<1>7. ASSUME NEW l \in {"hlp_mark", "hlp_dst"}, p.real # NULL, Goto(t, l), UNCHANGED hlp
      PROVE  IInv'
  <2>1. pc' = [pc EXCEPT ![t] = l] /\ hlp' = [hlp EXCEPT ![t] = hlp[t]]
    BY <1>7 DEF Goto, IInv, TypeOK
  <2>2. l \in HelpLabels \ {"hlp_clear"} /\ l # "hlp_load"
    BY DEF HelpLabels
  <2> QED BY <1>1, <1>2, <1>3, <1>4, <1>7, <2>1, <2>2, HelpStays
<1> QED BY <1>2, <1>6, <1>7 DEF HlpHold1

(* The initiator tries to mark the source. *)
LEMMA HlpMarkInv == ASSUME IInv, NEW t \in Thread, HlpMark(t) PROVE IInv'
<1> DEFINE w == get_new_mark(hlp[t].ptr1, TRUE)
           h == [hlp[t] EXCEPT !.ptr1 = empty_slot]
<1>1. pc[t] = "hlp_mark" /\ pc[t] \in HelpLabels
  BY DEF HlpMark, HelpLabels
<1>2. HlpSource(t) \in Location
  BY <1>1, HelpLocations
<1>3. hlp[t] \in HlpFrame /\ hlp[t].ptr1 \in table_pointer /\ hlp[t].ptr1.real # NULL
      /\ Alive(hlp[t].ptr1.real)
  BY <1>1, FrameTypes DEF HlpOK, HlpFrame, HelpLabels
<1>4. w \in table_pointer /\ w.real = hlp[t].ptr1.real
  BY <1>3, MarkTypes
<1>5. UNCHANGED <<heap, retired_ptrs, leaked, resets, callers, hazard_ptrs, status>>
      /\ CAS(HlpSource(t), hlp[t].ptr1, w)
      /\ hlp' = [hlp EXCEPT ![t].ptr1 = empty_slot]
      /\ pc' = [pc EXCEPT ![t] = "hlp_load"]
  BY DEF HlpMark, others, Goto
<1>6. hazard_ptrs' \in [Thread -> [HazardIndex -> AddressOrNull]]
      /\ status' \in {"running", "aborted", "destroyed"}
  BY <1>5 DEF IInv, TypeOK
<1> HIDE DEF w
<1>7. hash_table' \in [Location -> table_pointer] /\ TableOK'
  BY <1>2, <1>3, <1>4, <1>5, StoreTable
<1>8. h \in HlpFrame /\ h.ret = hlp[t].ret /\ h.ptr1.real = NULL /\ Alive(h.ptr1.real)
      /\ ~h.ptr1.marked /\ hlp' = [hlp EXCEPT ![t] = h]
  BY <1>3, <1>5, EmptyTypes DEF HlpFrame, Alive
<1> HIDE DEF h
<1>9. "hlp_load" \in HelpLabels /\ "hlp_load" # "hlp_clear"
  BY DEF HelpLabels
<1> QED BY <1>1, <1>5, <1>6, <1>7, <1>8, <1>9, HelpInv

(* The destination is loaded. *)
LEMMA HlpDstInv == ASSUME IInv, NEW t \in Thread, HlpDst(t) PROVE IInv'
<1> DEFINE p == hash_table[HlpDest(t)]
           h == [hlp[t] EXCEPT !.ptr2 = p]
<1>1. pc[t] = "hlp_dst" /\ pc[t] \in HelpLabels
  BY DEF HlpDst, HelpLabels
<1>2. p \in table_pointer
  BY <1>1, HelpLocations, ReadTypes
<1>3. hlp[t] \in HlpFrame /\ hlp[t].ptr1.real # NULL /\ Alive(hlp[t].ptr1.real)
  BY <1>1, FrameTypes DEF HlpOK, HelpLabels
<1>4. /\ UNCHANGED <<shared, hazard_ptrs, callers>>
      /\ pc' = [pc EXCEPT ![t] = "hlp_hold2"] /\ hlp' = [hlp EXCEPT ![t].ptr2 = p]
  BY DEF HlpDst, Goto
<1>5. hazard_ptrs' \in [Thread -> [HazardIndex -> AddressOrNull]]
  BY <1>4, HazardTypes
<1> HIDE DEF p
<1>6. h \in HlpFrame /\ h.ret = hlp[t].ret /\ h.ptr1 = hlp[t].ptr1
      /\ hlp' = [hlp EXCEPT ![t] = h]
  BY <1>2, <1>3, <1>4 DEF HlpFrame
<1> HIDE DEF h
<1>7. "hlp_hold2" \in HelpLabels \ {"hlp_clear"} /\ "hlp_hold2" # "hlp_load"
  BY DEF HelpLabels
<1> QED BY <1>1, <1>3, <1>4, <1>5, <1>6, <1>7, HelpStays

(* The destination is announced. *)
LEMMA HlpHold2Inv == ASSUME IInv, NEW t \in Thread, HlpHold2(t) PROVE IInv'
<1> DEFINE p == hlp[t].ptr2
<1>1. pc[t] = "hlp_hold2" /\ pc[t] \in HelpLabels
  BY DEF HlpHold2, HelpLabels
<1>2. /\ hlp[t] \in HlpFrame /\ hlp[t].ptr1.real # NULL /\ Alive(hlp[t].ptr1.real)
      /\ p.real \in AddressOrNull
  BY <1>1, FrameTypes DEF HlpOK, HelpLabels, HlpFrame, table_pointer, AddressOrNull
<1>3. MarkHazard(t, 1, p.real) /\ UNCHANGED <<shared, callers, hlp>>
      /\ \E l \in {"hlp_check", "hlp_done", "hlp_busy"} : pc' = [pc EXCEPT ![t] = l]
  BY DEF HlpHold2, Goto
<1>4. hazard_ptrs' \in [Thread -> [HazardIndex -> AddressOrNull]]
  BY <1>2, <1>3, HazardTypes DEF HazardIndex
<1>5. hlp' = [hlp EXCEPT ![t] = hlp[t]]
  BY <1>3 DEF IInv, TypeOK
<1>6. PICK l \in {"hlp_check", "hlp_done", "hlp_busy"} : pc' = [pc EXCEPT ![t] = l]
  BY <1>3
<1>7. l \in HelpLabels \ {"hlp_clear"} /\ l # "hlp_load"
  BY DEF HelpLabels
<1> QED BY <1>1, <1>2, <1>3, <1>4, <1>5, <1>6, <1>7, HelpStays

(* The source is loaded again before the item moves. *)
LEMMA HlpCheckInv == ASSUME IInv, NEW t \in Thread, HlpCheck(t) PROVE IInv'
<1>1. pc[t] = "hlp_check" /\ pc[t] \in HelpLabels
  BY DEF HlpCheck, HelpLabels
<1>2. hlp[t] \in HlpFrame /\ hlp[t].ptr1.real # NULL /\ Alive(hlp[t].ptr1.real)
  BY <1>1, FrameTypes DEF HlpOK, HelpLabels
<1>3. UNCHANGED <<shared, hazard_ptrs, callers>>
  BY DEF HlpCheck
<1>4. hazard_ptrs' \in [Thread -> [HazardIndex -> AddressOrNull]]
  BY <1>3, HazardTypes
<1>5. CASE Holds(HlpSource(t), hlp[t].ptr1)
  <2>1. pc' = [pc EXCEPT ![t] = "hlp_move"] /\ hlp' = [hlp EXCEPT ![t] = hlp[t]]
    BY <1>5 DEF HlpCheck, Goto, IInv, TypeOK
  <2>2. "hlp_move" \in HelpLabels \ {"hlp_clear"} /\ "hlp_move" # "hlp_load"
    BY DEF HelpLabels
  <2> QED BY <1>1, <1>2, <1>3, <1>4, <2>1, <2>2, HelpStays
<1>6. CASE ~Holds(HlpSource(t), hlp[t].ptr1)
  <2> DEFINE h == [hlp[t] EXCEPT !.ptr1 = empty_slot, !.ptr2 = empty_slot]
  <2>1. pc' = [pc EXCEPT ![t] = "hlp_load"] /\ hlp' = [hlp EXCEPT ![t] = h]
    BY <1>6 DEF HlpCheck, Goto
  <2>2. h \in HlpFrame /\ h.ret = hlp[t].ret /\ h.ptr1.real = NULL /\ Alive(h.ptr1.real)
        /\ ~h.ptr1.marked
    BY <1>2, EmptyTypes DEF HlpFrame, Alive
  <2> HIDE DEF h
  <2>3. "hlp_load" \in HelpLabels \ {"hlp_clear"}
    BY DEF HelpLabels
  <2> QED BY <1>1, <1>3, <1>4, <2>1, <2>2, <2>3, HelpStays
<1> QED BY <1>5, <1>6

(* abort() stops the process: nothing but the status changes. *)
LEMMA AbortInv ==
  ASSUME IInv, NEW t \in Thread, Abort,
         UNCHANGED <<heap, retired_ptrs, leaked, resets, hazard_ptrs, callers>>
  PROVE  IInv'
<1>1. TypeOK'
  BY DEF IInv, TypeOK, Abort, callers, calls
<1>2. TableOK'
  BY SameTable DEF Abort
<1>3. \A u \in Thread : FrameOK(u)'
  BY OtherThread DEF Abort, callers, calls
<1> QED BY <1>1, <1>2, <1>3 DEF IInv

(* The item is swapped into its destination. *)
LEMMA HlpMoveInv == ASSUME IInv, NEW t \in Thread, HlpMove(t) PROVE IInv'
<1> DEFINE n == MovedCounter(hlp[t].ptr1.counter, hlp[t].ptr2.counter)
           w == create_pointer(n, hlp[t].ptr1.real, FALSE)
<1>1. pc[t] = "hlp_move" /\ pc[t] \in HelpLabels
  BY DEF HlpMove, HelpLabels
<1>2. /\ hlp[t] \in HlpFrame /\ hlp[t].ptr1.real # NULL /\ Alive(hlp[t].ptr1.real)
      /\ hlp[t].ptr1.real \in AddressOrNull
      /\ hlp[t].ptr1.counter \in Counter /\ hlp[t].ptr2.counter \in Counter
  BY <1>1, FrameTypes DEF HlpOK, HelpLabels, HlpFrame, table_pointer, AddressOrNull, Counter
<1>3. n \in Nat /\ n >= hlp[t].ptr1.counter + 1
  BY <1>2, TablePointerAssumption DEF MovedCounter, Counter
<1>4. UNCHANGED <<heap, retired_ptrs, leaked, resets, hazard_ptrs, callers>>
  BY DEF HlpMove
<1>5. hazard_ptrs' \in [Thread -> [HazardIndex -> AddressOrNull]]
  BY <1>4, HazardTypes
<1>6. CASE ~CounterFits(n)
  BY <1>4, <1>6, AbortInv DEF HlpMove
<1>7. CASE CounterFits(n) /\ Holds(HlpDest(t), hlp[t].ptr2)
  <2>1. Store(HlpDest(t), w) /\ pc' = [pc EXCEPT ![t] = "hlp_clear"] /\ UNCHANGED <<status, hlp>>
    BY <1>7 DEF HlpMove, Goto
  <2>2. w \in table_pointer /\ w.real = hlp[t].ptr1.real /\ ~w.marked
    BY <1>2, <1>3, <1>7, TablePointerAssumption
    DEF CounterFits, Counter, create_pointer, table_pointer, AddressOrNull
  <2>3. HlpDest(t) \in Location
    BY <1>1, HelpLocations
  <2> HIDE DEF w
  <2>4. hash_table' \in [Location -> table_pointer] /\ TableOK'
    BY <1>2, <1>4, <2>1, <2>2, <2>3, StoreTable
  <2>5. CounterFits(hlp[t].ptr1.counter + 1)
    BY <1>2, <1>3, <1>7, TablePointerAssumption DEF CounterFits, Counter
  <2>6. "hlp_clear" \in HelpLabels /\ "hlp_clear" # "hlp_load"
    BY DEF HelpLabels
  <2>7. hlp' = [hlp EXCEPT ![t] = hlp[t]] /\ status' \in {"running", "aborted", "destroyed"}
    BY <2>1 DEF IInv, TypeOK
  <2> QED BY <1>1, <1>2, <1>4, <1>5, <2>1, <2>4, <2>5, <2>6, <2>7, HelpInv
<1>8. CASE CounterFits(n) /\ ~Holds(HlpDest(t), hlp[t].ptr2)
  <2>1. pc' = [pc EXCEPT ![t] = "hlp_busy"] /\ UNCHANGED <<hash_table, status, hlp>>
    BY <1>8 DEF HlpMove, Goto
  <2>2. hash_table' \in [Location -> table_pointer] /\ TableOK'
    BY <1>4, <2>1, SameTable
  <2>3. "hlp_busy" \in HelpLabels /\ "hlp_busy" # "hlp_load" /\ "hlp_busy" # "hlp_clear"
    BY DEF HelpLabels
  <2>4. hlp' = [hlp EXCEPT ![t] = hlp[t]] /\ status' \in {"running", "aborted", "destroyed"}
    BY <2>1 DEF IInv, TypeOK
  <2> QED BY <1>1, <1>2, <1>4, <1>5, <2>1, <2>2, <2>3, <2>4, HelpInv
<1> QED BY <1>6, <1>7, <1>8

(* A swap of help_relocate on its way out. *)
LEMMA HelpExit ==
  ASSUME IInv, NEW t \in Thread, pc[t] \in HelpLabels, HlpReturn(t),
         NEW l \in Location, NEW old, NEW w \in table_pointer, CAS(l, old, w),
         Alive(w.real), w.marked => w.real # NULL,
         UNCHANGED <<heap, retired_ptrs, leaked, resets, status, hazard_ptrs, callers>>
  PROVE  IInv'
<1>1. hash_table' \in [Location -> table_pointer] /\ TableOK'
  BY StoreTable
<1>2. pc' = [pc EXCEPT ![t] = hlp[t].ret] /\ hlp' = [hlp EXCEPT ![t] = NoHlp]
  BY DEF HlpReturn, Goto
<1>3. hazard_ptrs' \in [Thread -> [HazardIndex -> AddressOrNull]]
      /\ status' \in {"running", "aborted", "destroyed"}
  BY DEF IInv, TypeOK
<1> QED BY <1>1, <1>2, <1>3, NoFrameTypes, HelpInv

(* The word that empties a slot, when its counter fits. *)
LEMMA VacatedTypes ==
  ASSUME NEW p \in table_pointer, CounterFits(p.counter + 1), IInv
  PROVE  /\ Vacated(p) \in table_pointer /\ Vacated(p).real = NULL /\ ~Vacated(p).marked
         /\ Vacated(p).counter = p.counter + 1
<1>1. p.counter + 1 \in Counter
  BY TablePointerAssumption DEF table_pointer, CounterFits, Counter
<1> QED BY <1>1 DEF Vacated, create_pointer, table_pointer, Counter

(* The source is cleared. *)
LEMMA HlpClearInv == ASSUME IInv, NEW t \in Thread, HlpClear(t) PROVE IInv'
<1>1. pc[t] = "hlp_clear" /\ pc[t] \in HelpLabels
  BY DEF HlpClear, HelpLabels
<1>2. hlp[t].ptr1 \in table_pointer /\ CounterFits(hlp[t].ptr1.counter + 1)
  BY <1>1, FrameTypes DEF HlpOK, HlpFrame
<1>3. HlpSource(t) \in Location
  BY <1>1, HelpLocations
<1>4. Alive(Vacated(hlp[t].ptr1).real)
  BY <1>2, VacatedTypes DEF Alive
<1>5. CAS(HlpSource(t), hlp[t].ptr1, Vacated(hlp[t].ptr1)) /\ HlpReturn(t)
      /\ UNCHANGED <<heap, retired_ptrs, leaked, resets, status, hazard_ptrs, callers>>
  BY DEF HlpClear, others
<1> QED BY <1>1, <1>2, <1>3, <1>4, <1>5, VacatedTypes, HelpExit

(* The last two exits. *)
LEMMA DestCasInv ==
  ASSUME IInv, NEW t \in Thread, pc[t] \in HelpLabels \ {"hlp_load", "hlp_hold1"},
         NEW w, DestCas(t, w), CounterFits(w.counter) => w \in table_pointer,
         Alive(w.real), w.marked => w.real # NULL
  PROVE  IInv'
<1>1. HlpDest(t) \in Location
  BY HelpLocations
<1>2. UNCHANGED <<heap, retired_ptrs, leaked, resets, hazard_ptrs, callers>>
  BY DEF DestCas
<1>3. CASE ~CounterFits(w.counter)
  BY <1>2, <1>3, AbortInv DEF DestCas
<1>4. CASE CounterFits(w.counter)
  <2>1. CAS(HlpDest(t), hlp[t].ptr1, w) /\ HlpReturn(t) /\ UNCHANGED status
    BY <1>4 DEF DestCas
  <2> QED BY <1>1, <1>2, <1>4, <2>1, HelpExit
<1> QED BY <1>3, <1>4

(* The exit for a destination that holds the item already. *)
LEMMA HlpDoneInv == ASSUME IInv, NEW t \in Thread, HlpDone(t) PROVE IInv'
<1>1. pc[t] = "hlp_done" /\ pc[t] \in HelpLabels \ {"hlp_load", "hlp_hold1"}
      /\ DestCas(t, Vacated(hlp[t].ptr1))
  BY DEF HlpDone, HelpLabels
<1>2. hlp[t].ptr1 \in table_pointer
  BY FrameTypes DEF HlpFrame
<1>3. LET w == Vacated(hlp[t].ptr1) IN
      w.real = NULL /\ ~w.marked /\ w.counter = hlp[t].ptr1.counter + 1
  BY DEF Vacated, create_pointer
<1>4. Alive(Vacated(hlp[t].ptr1).real)
  BY <1>3 DEF Alive
<1> QED BY <1>1, <1>2, <1>3, <1>4, VacatedTypes, DestCasInv

(* The exit for a destination that was taken by another item. *)
LEMMA HlpBusyInv == ASSUME IInv, NEW t \in Thread, HlpBusy(t) PROVE IInv'
<1> DEFINE w == create_pointer(hlp[t].ptr1.counter + 1, hlp[t].ptr1.real, TRUE)
<1>1. pc[t] = "hlp_busy" /\ pc[t] \in HelpLabels \ {"hlp_load", "hlp_hold1"} /\ DestCas(t, w)
  BY DEF HlpBusy, HelpLabels
<1>2. /\ hlp[t].ptr1.real # NULL /\ Alive(hlp[t].ptr1.real)
      /\ hlp[t].ptr1.real \in AddressOrNull /\ hlp[t].ptr1.counter \in Counter
  BY <1>1, FrameTypes DEF HlpOK, HlpFrame, table_pointer, AddressOrNull, Counter
<1>3. w.real = hlp[t].ptr1.real /\ w.counter = hlp[t].ptr1.counter + 1
  BY DEF create_pointer
<1>4. CounterFits(w.counter) => w \in table_pointer
  BY <1>2, <1>3, TablePointerAssumption
  DEF CounterFits, Counter, create_pointer, table_pointer, AddressOrNull
<1> HIDE DEF w
<1> QED BY <1>1, <1>2, <1>3, <1>4, DestCasInv
-----------------------------------------------------------------------------
(***************************************************************************)
(* Parts of steps of insert, relocate, find and remove                     *)
(***************************************************************************)
(* A step of insert or relocate that leaves the table alone: thread t goes to
   l with the frames i, e and h. *)
StayInserting(t, l, i, e, h) ==
  /\ pc[t] \in InInsert
  /\ UNCHANGED <<shared, calls, fnd, rem>>
  /\ hazard_ptrs' \in [Thread -> [HazardIndex -> AddressOrNull]]
  /\ pc' = [pc EXCEPT ![t] = l]
  /\ i \in InsFrame /\ ins' = [ins EXCEPT ![t] = i]
  /\ e \in RelFrame /\ rel' = [rel EXCEPT ![t] = e]
  /\ h \in HlpFrame /\ hlp' = [hlp EXCEPT ![t] = h]
  /\ i.entry = ins[t].entry
  /\ e.source # NULL <=> l = "rel_dst"
  /\ Alive(e.source)
  /\ e.ptr.real # NULL => l \in {"rel_hold1", "rel_hold2"}
  /\ Alive(e.ptr.real)
  /\ e.left <= e.depth
  /\ h.ptr1.real = NULL /\ ~h.ptr1.marked
  /\ \/ /\ l \in InInsert
        /\ l \in {"rel_reload_src", "rel_dst", "rel_hold2"} => e.left > 0
     \/ /\ l = "hlp_load"
        /\ h.ret \in {"rel_reload", "rel_src", "rel_reload_src"}
        /\ h.ret = "rel_reload_src" => e.left > 0

(* Such a step preserves the invariant. *)
LEMMA InsertingInv ==
  ASSUME IInv, NEW t \in Thread, NEW l, NEW i, NEW e, NEW h,
         StayInserting(t, l, i, e, h)
  PROVE  IInv'
<1> USE DEF StayInserting
<1>1. l \in Label
  BY DEF InInsert, Label
<1>2. TypeOK'
  BY <1>1 DEF IInv, TypeOK, shared, others, calls
<1>3. /\ pc'[t] = l /\ ins'[t] = i /\ rel'[t] = e /\ hlp'[t] = h
      /\ fnd'[t] = fnd[t] /\ rem'[t] = rem[t] /\ call'[t] = call[t]
  BY DEF IInv, TypeOK, calls
<1>4. OthersKeep(t)
  BY DEF OthersKeep, IInv, TypeOK, calls
<1>5. TableOK'
  BY SameTable DEF shared, others
<1>6. \A a : Alive(a)' <=> Alive(a)
  BY DEF Alive, shared, others
<1>7. /\ Where(t) \in InInsert /\ Where(t)' \in InInsert
      /\ Where(t)' \in {"rel_reload_src", "rel_dst", "rel_hold2"} => e.left > 0
  BY <1>3 DEF Where, InInsert, HelpLabels
<1>8. CallOK(t)' /\ InsOK(t)'
  BY <1>3, <1>6, <1>7, FrameTypes DEF CallOK, InsOK, InInsert
<1>9. RemOK(t)'
  BY <1>3, <1>6, FrameTypes DEF RemOK, InInsert
<1>10. RelOK(t)'
  BY <1>3, <1>6, <1>7 DEF RelOK
<1>11. HlpOK(t)'
  BY <1>3, <1>6 DEF HlpOK, HelpLabels, InInsert, Alive
<1>12. FndOK(t)'
  BY <1>3, <1>6, FrameTypes DEF FndOK, InInsert
<1> QED BY <1>2, <1>4, <1>5, <1>8, <1>9, <1>10, <1>11, <1>12, ThreadInv DEF shared, others

(* A step of find or remove that leaves the table alone and stays inside:
   thread t goes to l with the frames f, m and h. *)
StayFinding(t, l, f, m, h) ==
  /\ pc[t] \in InFind
  /\ UNCHANGED <<shared, calls, ins, rel>>
  /\ hazard_ptrs' \in [Thread -> [HazardIndex -> AddressOrNull]]
  /\ pc' = [pc EXCEPT ![t] = l]
  /\ f \in FndFrame /\ fnd' = [fnd EXCEPT ![t] = f]
  /\ f.ptr.real # NULL => l \in {"fnd_hold1", "fnd_hold2"}
  /\ Alive(f.ptr.real)
  /\ m \in RemFrame /\ rem' = [rem EXCEPT ![t] = m]
  /\ h \in HlpFrame /\ hlp' = [hlp EXCEPT ![t] = h]
  /\ m.ptr1.real # NULL <=> l = "rem_cas"
  /\ m.location # NotFound
  /\ Alive(m.ptr1.real)
  /\ h.ptr1.real = NULL /\ ~h.ptr1.marked
  /\ l \in InFind \/ (l = "hlp_load" /\ h.ret = "fnd_first")

(* Such a step preserves the invariant. *)
LEMMA FindingInv ==
  ASSUME IInv, NEW t \in Thread, NEW l, NEW f, NEW m, NEW h,
         StayFinding(t, l, f, m, h)
  PROVE  IInv'
<1> USE DEF StayFinding
<1>1. l \in Label
  BY DEF InFind, Label
<1>2. TypeOK'
  BY <1>1 DEF IInv, TypeOK, shared, others, calls
<1>3. /\ pc'[t] = l /\ fnd'[t] = f /\ rem'[t] = m /\ hlp'[t] = h
      /\ ins'[t] = ins[t] /\ rel'[t] = rel[t] /\ call'[t] = call[t]
  BY DEF IInv, TypeOK, calls
<1>4. OthersKeep(t)
  BY DEF OthersKeep, IInv, TypeOK, calls
<1>5. TableOK'
  BY SameTable DEF shared, others
<1>6. \A a : Alive(a)' <=> Alive(a)
  BY DEF Alive, shared, others
<1>7. Where(t) \in InFind /\ Where(t)' \in InFind
  BY <1>3 DEF Where, InFind, HelpLabels
<1>8. CallOK(t)' /\ InsOK(t)'
  BY <1>3, <1>6, <1>7, FrameTypes DEF CallOK, InsOK, InFind, InInsert
<1>9. RemOK(t)'
  BY <1>3, <1>6 DEF RemOK
<1>10. RelOK(t)'
  BY <1>3, <1>6, <1>7, FrameTypes DEF RelOK, InFind
<1>11. HlpOK(t)'
  BY <1>3, <1>6 DEF HlpOK, HelpLabels, InFind, Alive
<1>12. FndOK(t)'
  BY <1>3, <1>6 DEF FndOK
<1> QED BY <1>2, <1>4, <1>5, <1>8, <1>9, <1>10, <1>11, <1>12, ThreadInv DEF shared, others

(* The end of an operation. *)
LEMMA ReturnInv ==
  ASSUME IInv, NEW t \in Thread, pc[t] \in InFind \cup {"ins_cas", "ins_kick"},
         NEW v \in {"true", "false"}, Return(t, v),
         hash_table' \in [Location -> table_pointer], TableOK',
         hazard_ptrs' \in [Thread -> [HazardIndex -> AddressOrNull]],
         retired_ptrs' \in [Thread -> Seq(Address)], leaked' \subseteq Address,
         UNCHANGED <<heap, status, resets>>
  PROVE  IInv'
<1>1. /\ pc' = [pc EXCEPT ![t] = "idle"] /\ result' = [result EXCEPT ![t] = v]
      /\ ins' = [ins EXCEPT ![t] = NoIns] /\ fnd' = [fnd EXCEPT ![t] = NoFnd]
      /\ rem' = [rem EXCEPT ![t] = NoRem] /\ UNCHANGED <<rel, hlp, call, ncalls>>
  BY DEF Return, Goto
<1>2. TypeOK'
  BY <1>1, NoFrameTypes DEF IInv, TypeOK, Label
<1>3. /\ pc'[t] = "idle" /\ ins'[t] = NoIns /\ fnd'[t] = NoFnd /\ rem'[t] = NoRem
      /\ rel'[t] = rel[t] /\ hlp'[t] = hlp[t]
  BY <1>1 DEF IInv, TypeOK
<1>4. OthersKeep(t)
  BY <1>1 DEF OthersKeep, IInv, TypeOK
<1>5. \A a : Alive(a)' <=> Alive(a)
  BY DEF Alive
<1>6. CallOK(t)' /\ InsOK(t)'
  BY <1>3, NoFrameTypes DEF CallOK, InsOK, Where, HelpLabels, InInsert, Alive
<1>7. RemOK(t)'
  BY <1>3, NoFrameTypes DEF RemOK, Alive
<1>8. RelOK(t)'
  BY <1>3, <1>5, FrameTypes DEF RelOK, InFind, Where, HelpLabels
<1>9. HlpOK(t)'
  BY <1>3, <1>5, FrameTypes DEF HlpOK, HelpLabels, InFind
<1>10. FndOK(t)'
  BY <1>3, NoFrameTypes DEF FndOK, Alive
<1> QED BY <1>2, <1>4, <1>6, <1>7, <1>8, <1>9, <1>10, ThreadInv

-----------------------------------------------------------------------------
(***************************************************************************)
(* insert and relocate                                                     *)
(***************************************************************************)
(* One level of path discovery. *)
LEMMA PathStepInv ==
  ASSUME IInv, NEW t \in Thread, pc[t] \in {"rel_hold1", "rel_reload"},
         NEW p \in table_pointer, Alive(p.real), PathStep(t, p),
         ~p.marked => hazard_ptrs' \in [Thread -> [HazardIndex -> AddressOrNull]],
         UNCHANGED <<shared, calls, fnd, rem>>
  PROVE  IInv'
<1> DEFINE r == rel[t]
<1>1. r \in RelFrame /\ ins[t] \in InsFrame /\ hlp[t] \in HlpFrame /\ pc[t] \in InInsert
  BY FrameTypes DEF InInsert
<1>2. r.source = NULL /\ r.left <= r.depth /\ hlp[t].ptr1.real = NULL
      /\ ~hlp[t].ptr1.marked
  BY FrameTypes DEF RelOK, HlpOK, HelpLabels
<1>3. /\ r.idx \in Bucket /\ r.slot \in Slot /\ r.route \in [Level -> Bucket]
      /\ r.depth \in Level /\ r.left \in Level
  BY <1>1 DEF RelFrame
<1>4. /\ ins = [ins EXCEPT ![t] = ins[t]] /\ rel = [rel EXCEPT ![t] = rel[t]]
      /\ hlp = [hlp EXCEPT ![t] = hlp[t]]
  BY DEF IInv, TypeOK
<1>5. Alive(NULL) /\ (p.real # NULL => p.real \in AddressOrNull)
  BY DEF Alive, table_pointer, AddressOrNull
<1>6. CASE p.marked
  <2> DEFINE e == [r EXCEPT !.ptr = empty_slot]
  <2>1. CallHelp(t, r.idx, r.slot, FALSE, "rel_reload") /\ UNCHANGED ins
        /\ rel' = [rel EXCEPT ![t] = e]
    BY <1>6 DEF PathStep
  <2>2. "rel_reload" \in Label
    BY DEF Label
  <2>3. /\ pc' = [pc EXCEPT ![t] = "hlp_load"]
        /\ hazard_ptrs' \in [Thread -> [HazardIndex -> AddressOrNull]]
        /\ hlp'[t] \in HlpFrame /\ hlp' = [hlp EXCEPT ![t] = hlp'[t]]
        /\ hlp'[t].ptr1.real = NULL /\ ~hlp'[t].ptr1.marked /\ hlp'[t].ret = "rel_reload"
    BY <1>3, <2>1, <2>2, CallHelpTypes
  <2>4. e \in RelFrame /\ e.source = NULL /\ e.left = r.left /\ e.depth = r.depth
        /\ e.ptr.real = NULL
    BY <1>1, <1>2, EmptyTypes DEF RelFrame
  <2> HIDE DEF e
  <2>5. StayInserting(t, "hlp_load", ins[t], e, hlp'[t])
    BY <1>1, <1>2, <1>4, <1>5, <2>1, <2>3, <2>4 DEF StayInserting
  <2> QED BY <2>5, InsertingInv
<1>7. CASE ~p.marked /\ p.real # NULL /\ MayGoDeeper(t)
  <2> DEFINE b == get_next_hash_index(r.idx, heap[p.real])
             e == [r EXCEPT !.ptr = empty_slot, !.route[r.depth] = r.idx, !.idx = b,
                            !.depth = r.depth + 1]
  <2>1. rel' = [rel EXCEPT ![t] = e] /\ pc' = [pc EXCEPT ![t] = "rel_probe"]
        /\ UNCHANGED <<ins, hlp>>
    BY <1>7 DEF PathStep, Goto
  <2>2. b \in Bucket
    BY <1>3, <1>5, <1>7, AliveFingerprint, HashTypes
  <2>3. MayGoDeeper(t)
    BY <1>7
  <2>4. r.depth + 1 \in Level /\ r.left <= r.depth + 1
    <3>1. r.depth \in Level /\ r.left \in Level /\ r.left <= r.depth
      BY <1>2, <1>3
    <3>2. rel[t].depth + 1 < NUM_MAX_KICKS
      BY <2>3 DEF MayGoDeeper
    <3> QED BY <3>1, <3>2, PartialKeyAssumption DEF Level
  <2>5. [r.route EXCEPT ![r.depth] = r.idx] \in [Level -> Bucket]
    BY <1>3
  <2> HIDE DEF b
  <2>6. e \in RelFrame /\ e.source = NULL /\ e.left = r.left /\ e.depth = r.depth + 1
        /\ e.ptr.real = NULL
    BY <1>1, <1>2, <2>2, <2>4, <2>5, EmptyTypes DEF RelFrame
  <2> HIDE DEF e
  <2>7. StayInserting(t, "rel_probe", ins[t], e, hlp[t])
    BY <1>1, <1>2, <1>4, <1>5, <1>7, <2>1, <2>4, <2>6 DEF StayInserting, InInsert
  <2> QED BY <2>7, InsertingInv
<1>8. CASE ~p.marked /\ p.real # NULL /\ ~MayGoDeeper(t)
  <2>1. rel' = [rel EXCEPT ![t] = NoRel] /\ pc' = [pc EXCEPT ![t] = "ins_kick"]
        /\ UNCHANGED <<ins, hlp>>
    BY <1>8 DEF PathStep, RelReturn, Goto
  <2>2. StayInserting(t, "ins_kick", ins[t], NoRel, hlp[t])
    BY <1>1, <1>2, <1>4, <1>5, <1>8, <2>1, NoFrameTypes DEF StayInserting, InInsert
  <2> QED BY <2>2, InsertingInv
<1>9. CASE ~p.marked /\ p.real = NULL
  <2> DEFINE e == [r EXCEPT !.ptr = empty_slot, !.left = r.depth]
  <2>1. rel' = [rel EXCEPT ![t] = e] /\ pc' = [pc EXCEPT ![t] = "rel_src"]
        /\ UNCHANGED <<ins, hlp>>
    BY <1>9 DEF PathStep, Goto
  <2>2. e \in RelFrame /\ e.source = NULL /\ e.left = r.depth /\ e.depth = r.depth
        /\ e.ptr.real = NULL
    BY <1>1, <1>2, <1>3, EmptyTypes DEF RelFrame
  <2> HIDE DEF e
  <2>3. e.left <= e.depth
    BY <1>3, <2>2 DEF Level
  <2>4. StayInserting(t, "rel_src", ins[t], e, hlp[t])
    BY <1>1, <1>2, <1>4, <1>5, <1>9, <2>1, <2>2, <2>3 DEF StayInserting, InInsert
  <2> QED BY <2>4, InsertingInv
<1> QED BY <1>6, <1>7, <1>8, <1>9 DEF PathStep

(* The frames of a thread that is in insert or relocate. *)
LEMMA InsertingFrames ==
  ASSUME IInv, NEW t \in Thread, pc[t] \in InInsert
  PROVE  /\ ins[t] \in InsFrame /\ rel[t] \in RelFrame /\ hlp[t] \in HlpFrame
         /\ rel[t].idx \in Bucket /\ rel[t].slot \in Slot
         /\ rel[t].depth \in Level /\ rel[t].left \in Level
         /\ rel[t].left <= rel[t].depth
         /\ pc[t] \notin {"rel_hold1", "rel_hold2"} => rel[t].ptr.real = NULL
         /\ hlp[t].ptr1.real = NULL /\ ~hlp[t].ptr1.marked
         /\ pc[t] # "rel_dst" => rel[t].source = NULL
         /\ Alive(NULL)
         /\ ins = [ins EXCEPT ![t] = ins[t]] /\ rel = [rel EXCEPT ![t] = rel[t]]
         /\ hlp = [hlp EXCEPT ![t] = hlp[t]]
<1>1. ins[t] \in InsFrame /\ rel[t] \in RelFrame /\ hlp[t] \in HlpFrame
  BY FrameTypes
<1>2. /\ rel[t].left <= rel[t].depth
      /\ pc[t] \notin {"rel_hold1", "rel_hold2"} => rel[t].ptr.real = NULL
      /\ hlp[t].ptr1.real = NULL /\ ~hlp[t].ptr1.marked
      /\ pc[t] # "rel_dst" => rel[t].source = NULL
  BY FrameTypes DEF RelOK, HlpOK, HelpLabels, InInsert
<1>3. /\ rel[t].idx \in Bucket /\ rel[t].slot \in Slot
      /\ rel[t].depth \in Level /\ rel[t].left \in Level
  BY <1>1 DEF RelFrame
<1>4. /\ ins = [ins EXCEPT ![t] = ins[t]] /\ rel = [rel EXCEPT ![t] = rel[t]]
      /\ hlp = [hlp EXCEPT ![t] = hlp[t]]
  BY DEF IInv, TypeOK
<1> QED BY <1>1, <1>2, <1>3, <1>4 DEF Alive

(* The load of a level of path discovery. *)
LEMMA RelProbeInv == ASSUME IInv, NEW t \in Thread, RelProbe(t) PROVE IInv'
<1> DEFINE p == hash_table[rel[t].idx, rel[t].slot]
           e == [rel[t] EXCEPT !.ptr = p]
<1>1. /\ pc[t] = "rel_probe" /\ pc[t] \in InInsert
      /\ rel' = [rel EXCEPT ![t] = e] /\ pc' = [pc EXCEPT ![t] = "rel_hold1"]
      /\ UNCHANGED <<shared, hazard_ptrs, calls, ins, fnd, rem, hlp>>
  BY DEF RelProbe, InInsert, Goto
<1>2. <<rel[t].idx, rel[t].slot>> \in Location
  BY FrameTypes DEF RelFrame, Location
<1>3. p \in table_pointer /\ Alive(p.real)
  BY <1>2, ReadTypes
<1> HIDE DEF p
<1>4. e \in RelFrame /\ e.source = NULL /\ e.left = rel[t].left /\ e.depth = rel[t].depth
      /\ e.ptr = p
  BY <1>1, <1>3, InsertingFrames DEF RelFrame
<1> HIDE DEF e
<1>5. hazard_ptrs' \in [Thread -> [HazardIndex -> AddressOrNull]]
  BY <1>1, HazardTypes
<1>6. StayInserting(t, "rel_hold1", ins[t], e, hlp[t])
  BY <1>1, <1>3, <1>4, <1>5, InsertingFrames DEF StayInserting, InInsert
<1> QED BY <1>6, InsertingInv

(* What was loaded is announced. *)
LEMMA RelHold1Inv == ASSUME IInv, NEW t \in Thread, RelHold1(t) PROVE IInv'
<1> DEFINE p == rel[t].ptr
<1>1. p \in table_pointer /\ Alive(p.real) /\ p.real \in AddressOrNull
  BY FrameTypes DEF RelFrame, RelOK, table_pointer, AddressOrNull
<1>2. pc[t] = "rel_hold1" /\ PathStep(t, p) /\ (~p.marked => MarkHazard(t, 0, p.real))
      /\ UNCHANGED <<shared, calls, fnd, rem>>
  BY DEF RelHold1
<1> HIDE DEF p
<1>3. ~p.marked => hazard_ptrs' \in [Thread -> [HazardIndex -> AddressOrNull]]
  BY <1>1, <1>2, HazardTypes DEF HazardIndex
<1> QED BY <1>1, <1>2, <1>3, PathStepInv

(* The load after a helped relocation, on the same level. *)
LEMMA RelReloadInv == ASSUME IInv, NEW t \in Thread, RelReload(t) PROVE IInv'
<1> DEFINE p == hash_table[rel[t].idx, rel[t].slot]
<1>1. <<rel[t].idx, rel[t].slot>> \in Location
  BY FrameTypes DEF RelFrame, Location
<1>2. p \in table_pointer /\ Alive(p.real) /\ p.real \in AddressOrNull
  BY <1>1, ReadTypes
<1>3. pc[t] = "rel_reload" /\ PathStep(t, p) /\ (~p.marked => UNCHANGED hazard_ptrs)
      /\ UNCHANGED <<shared, calls, fnd, rem>>
  BY DEF RelReload
<1> HIDE DEF p
<1>4. ~p.marked => hazard_ptrs' \in [Thread -> [HazardIndex -> AddressOrNull]]
  BY <1>3, HazardTypes
<1> QED BY <1>2, <1>3, <1>4, PathStepInv

(* While rounds of the traversal are left the path has a last bucket. *)
LEMMA SourceIdxTypes ==
  ASSUME IInv, NEW t \in Thread, rel[t].left > 0
  PROVE  SourceIdx(t) \in Bucket /\ rel[t].left - 1 \in Level
<1>1. rel[t].route \in [Level -> Bucket] /\ rel[t].depth \in Level /\ rel[t].left \in Level
  BY FrameTypes DEF RelFrame
<1>2. rel[t].left <= rel[t].depth
  BY FrameTypes DEF RelOK
<1>3. ASSUME NEW d \in Level, NEW n \in Level, n <= d, n > 0
      PROVE  d - 1 \in Level /\ n - 1 \in Level
  BY <1>3, PartialKeyAssumption DEF Level
<1>4. rel[t].depth - 1 \in Level /\ rel[t].left - 1 \in Level
  BY <1>1, <1>2, <1>3
<1> QED BY <1>1, <1>4 DEF SourceIdx

(* The source of a round was read. *)
LEMMA SourceStepInv ==
  ASSUME IInv, NEW t \in Thread, pc[t] \in {"rel_src", "rel_reload_src"},
         rel[t].left > 0, NEW p \in table_pointer, Alive(p.real), SourceStep(t, p),
         UNCHANGED <<shared, calls, ins, fnd, rem, hlp, hazard_ptrs>>
  PROVE  IInv'
<1>1. pc[t] \in InInsert /\ pc[t] # "rel_dst"
  BY DEF InInsert
<1>2. hazard_ptrs' \in [Thread -> [HazardIndex -> AddressOrNull]]
  BY HazardTypes
<1>3. rel[t].left - 1 \in Level
  BY SourceIdxTypes
<1>4. CASE p.real = NULL
  <2> DEFINE e == [rel[t] EXCEPT !.left = rel[t].left - 1]
  <2>1. rel' = [rel EXCEPT ![t] = e] /\ pc' = [pc EXCEPT ![t] = "rel_src"]
    BY <1>4 DEF SourceStep, Goto
  <2>2. e \in RelFrame /\ e.left = rel[t].left - 1 /\ e.depth = rel[t].depth
        /\ e.source = NULL /\ e.ptr = rel[t].ptr
    BY <1>1, <1>3, InsertingFrames DEF RelFrame
  <2> HIDE DEF e
  <2>3. rel[t].left \in Level /\ rel[t].depth \in Level /\ rel[t].left <= rel[t].depth
    BY <1>1, InsertingFrames
  <2>4. e.left <= e.depth
    BY <2>2, <2>3 DEF Level
  <2>5. StayInserting(t, "rel_src", ins[t], e, hlp[t])
    BY <1>1, <1>2, <2>1, <2>2, <2>4, InsertingFrames DEF StayInserting, InInsert
  <2> QED BY <2>5, InsertingInv
<1>5. CASE p.real # NULL
  <2> DEFINE e == [rel[t] EXCEPT !.source = p.real]
  <2>1. rel' = [rel EXCEPT ![t] = e] /\ pc' = [pc EXCEPT ![t] = "rel_dst"]
    BY <1>5 DEF SourceStep, Goto
  <2>2. p.real \in AddressOrNull
    BY DEF table_pointer, AddressOrNull
  <2>3. e \in RelFrame /\ e.left = rel[t].left /\ e.depth = rel[t].depth
        /\ e.source = p.real /\ e.ptr = rel[t].ptr
    BY <1>1, <2>2, InsertingFrames DEF RelFrame
  <2> HIDE DEF e
  <2>4. StayInserting(t, "rel_dst", ins[t], e, hlp[t])
    BY <1>1, <1>2, <1>5, <2>1, <2>3, InsertingFrames DEF StayInserting, InInsert
  <2> QED BY <2>4, InsertingInv
<1> QED BY <1>4, <1>5

(* A round of the traversal begins: its source is read, or helped first. *)
LEMMA RelSrcInv == ASSUME IInv, NEW t \in Thread, RelSrc(t) PROVE IInv'
<1> DEFINE p == hash_table[SourceIdx(t), rel[t].slot]
<1>1. pc[t] = "rel_src" /\ pc[t] \in InInsert /\ rel[t].left > 0
      /\ UNCHANGED <<shared, calls, ins, fnd, rem>>
  BY DEF RelSrc, InInsert
<1>2. SourceIdx(t) \in Bucket /\ rel[t].slot \in Slot
  BY <1>1, SourceIdxTypes, InsertingFrames
<1>3. <<SourceIdx(t), rel[t].slot>> \in Location
  BY <1>2 DEF Location
<1>4. p \in table_pointer /\ Alive(p.real)
  BY <1>3, ReadTypes
<1>5. CASE ~p.marked
  <2>1. SourceStep(t, p) /\ UNCHANGED <<hazard_ptrs, hlp>>
    BY <1>5 DEF RelSrc
  <2> HIDE DEF p
  <2> QED BY <1>1, <1>4, <2>1, SourceStepInv
<1>6. CASE p.marked
  <2>1. CallHelp(t, SourceIdx(t), rel[t].slot, FALSE, "rel_reload_src") /\ UNCHANGED rel
    BY <1>6 DEF RelSrc
  <2>2. "rel_reload_src" \in Label
    BY DEF Label
  <2>3. /\ pc' = [pc EXCEPT ![t] = "hlp_load"]
        /\ hazard_ptrs' \in [Thread -> [HazardIndex -> AddressOrNull]]
        /\ hlp'[t] \in HlpFrame /\ hlp' = [hlp EXCEPT ![t] = hlp'[t]]
        /\ hlp'[t].ptr1.real = NULL /\ ~hlp'[t].ptr1.marked /\ hlp'[t].ret = "rel_reload_src"
    BY <1>2, <2>1, <2>2, CallHelpTypes
  <2>4. StayInserting(t, "hlp_load", ins[t], rel[t], hlp'[t])
    BY <1>1, <2>1, <2>3, InsertingFrames DEF StayInserting
  <2> QED BY <2>4, InsertingInv
<1> QED BY <1>5, <1>6

(* The source is read again after a helped relocation. *)
LEMMA RelReloadSrcInv == ASSUME IInv, NEW t \in Thread, RelReloadSrc(t) PROVE IInv'
<1> DEFINE p == hash_table[SourceIdx(t), rel[t].slot]
<1>1. pc[t] = "rel_reload_src" /\ pc[t] \in InInsert /\ SourceStep(t, p)
      /\ UNCHANGED <<shared, hazard_ptrs, calls, ins, fnd, rem, hlp>>
  BY DEF RelReloadSrc, InInsert
<1>2. rel[t].left > 0
  BY <1>1, FrameTypes DEF RelOK, Where, HelpLabels
<1>3. SourceIdx(t) \in Bucket /\ rel[t].slot \in Slot
  BY <1>1, <1>2, SourceIdxTypes, InsertingFrames
<1>4. <<SourceIdx(t), rel[t].slot>> \in Location
  BY <1>3 DEF Location
<1>5. p \in table_pointer /\ Alive(p.real)
  BY <1>4, ReadTypes
<1> HIDE DEF p
<1> QED BY <1>1, <1>2, <1>5, SourceStepInv

(* The destination of a round is loaded. *)
LEMMA RelDstInv == ASSUME IInv, NEW t \in Thread, RelDst(t) PROVE IInv'
<1> DEFINE r    == rel[t]
           dest == get_next_hash_index(SourceIdx(t), heap[r.source])
           p    == hash_table[dest, r.slot]
           e    == [r EXCEPT !.ptr = p, !.source = NULL]
<1>1. /\ pc[t] = "rel_dst" /\ pc[t] \in InInsert
      /\ rel' = [rel EXCEPT ![t] = e] /\ pc' = [pc EXCEPT ![t] = "rel_hold2"]
      /\ UNCHANGED <<shared, hazard_ptrs, calls, ins, fnd, rem, hlp>>
  BY DEF RelDst, InInsert, Goto
<1>2. r.left > 0 /\ r.source # NULL /\ Alive(r.source)
  BY <1>1, FrameTypes DEF RelOK, Where, HelpLabels
<1>3. r \in RelFrame /\ r.source \in AddressOrNull
  BY FrameTypes DEF RelFrame
<1>4. SourceIdx(t) \in Bucket /\ r.slot \in Slot
  BY <1>1, <1>2, SourceIdxTypes, InsertingFrames
<1>5. heap[r.source] \in Fingerprint
  BY <1>2, <1>3, AliveFingerprint
<1>6. dest \in Bucket
  BY <1>4, <1>5, HashTypes
<1>7. <<dest, r.slot>> \in Location
  BY <1>4, <1>6 DEF Location
<1>8. p \in table_pointer /\ Alive(p.real) /\ NULL \in AddressOrNull
  BY <1>7, ReadTypes DEF AddressOrNull
<1> HIDE DEF p
<1>9. e \in RelFrame /\ e.source = NULL /\ e.left = r.left /\ e.depth = r.depth /\ e.ptr = p
  BY <1>3, <1>8 DEF RelFrame
<1> HIDE DEF e
<1>10. hazard_ptrs' \in [Thread -> [HazardIndex -> AddressOrNull]]
  BY <1>1, HazardTypes
<1>11. r.left <= r.depth
  BY <1>1, InsertingFrames
<1>12. StayInserting(t, "rel_hold2", ins[t], e, hlp[t])
  BY <1>1, <1>2, <1>8, <1>9, <1>10, <1>11, InsertingFrames DEF StayInserting, InInsert
<1> QED BY <1>12, InsertingInv

(* The destination is looked at: move the item there, or start over. *)
LEMMA RelHold2Inv == ASSUME IInv, NEW t \in Thread, RelHold2(t) PROVE IInv'
<1> DEFINE r == rel[t]
           p == r.ptr
<1>1. pc[t] = "rel_hold2" /\ pc[t] \in InInsert /\ UNCHANGED <<shared, calls, ins, fnd, rem>>
  BY DEF RelHold2, InInsert
<1>2. r.left > 0 /\ r.source = NULL
  BY <1>1, FrameTypes DEF RelOK, Where, HelpLabels
<1>3. r \in RelFrame /\ p \in table_pointer /\ p.real \in AddressOrNull
  BY FrameTypes DEF RelFrame, table_pointer, AddressOrNull
<1>4. SourceIdx(t) \in Bucket /\ r.slot \in Slot /\ r.left - 1 \in Level
  BY <1>1, <1>2, SourceIdxTypes, InsertingFrames
<1>5. CASE p.real # NULL
  <2> DEFINE e == [NoRel EXCEPT !.idx = r.idx, !.slot = r.slot, !.depth = r.left]
  <2>1. /\ rel' = [rel EXCEPT ![t] = e] /\ pc' = [pc EXCEPT ![t] = "rel_probe"]
        /\ MarkHazard(t, 1, p.real) /\ UNCHANGED hlp
    BY <1>5 DEF RelHold2, Goto
  <2> HIDE DEF p
  <2>2. hazard_ptrs' \in [Thread -> [HazardIndex -> AddressOrNull]]
    BY <1>3, <2>1, HazardTypes DEF HazardIndex
  <2>3. r.idx \in Bucket /\ r.slot \in Slot /\ r.left \in Level
    BY <1>1, InsertingFrames
  <2> HIDE DEF r
  <2>4. e \in RelFrame /\ e.source = NULL /\ e.left = 0 /\ e.depth = r.left
        /\ e.ptr.real = NULL
    BY <2>3, NoFrameTypes DEF RelFrame
  <2> HIDE DEF e
  <2>5. e.left <= e.depth
    BY <2>3, <2>4 DEF Level
  <2>6. StayInserting(t, "rel_probe", ins[t], e, hlp[t])
    BY <1>1, <2>1, <2>2, <2>4, <2>5, InsertingFrames DEF StayInserting, InInsert
  <2> QED BY <2>6, InsertingInv
<1>6. CASE p.real = NULL
  <2> DEFINE e == [r EXCEPT !.left = r.left - 1, !.ptr = empty_slot]
  <2>1. /\ rel' = [rel EXCEPT ![t] = e]
        /\ CallHelp(t, SourceIdx(t), r.slot, TRUE, "rel_src")
    BY <1>6 DEF RelHold2
  <2>2. "rel_src" \in Label
    BY DEF Label
  <2>3. /\ pc' = [pc EXCEPT ![t] = "hlp_load"]
        /\ hazard_ptrs' \in [Thread -> [HazardIndex -> AddressOrNull]]
        /\ hlp'[t] \in HlpFrame /\ hlp' = [hlp EXCEPT ![t] = hlp'[t]]
        /\ hlp'[t].ptr1.real = NULL /\ ~hlp'[t].ptr1.marked /\ hlp'[t].ret = "rel_src"
    BY <1>4, <2>1, <2>2, CallHelpTypes
  <2>4. e \in RelFrame /\ e.source = NULL /\ e.left = r.left - 1 /\ e.depth = r.depth
        /\ e.ptr.real = NULL
    BY <1>2, <1>3, <1>4, EmptyTypes DEF RelFrame
  <2> HIDE DEF e
  <2>5. r.left \in Level /\ r.depth \in Level /\ r.left <= r.depth
    BY <1>1, InsertingFrames
  <2> HIDE DEF r
  <2>6. e.left <= e.depth
    BY <2>4, <2>5 DEF Level
  <2>7. StayInserting(t, "hlp_load", ins[t], e, hlp'[t])
    BY <1>1, <2>1, <2>3, <2>4, <2>6, InsertingFrames DEF StayInserting
  <2> QED BY <2>7, InsertingInv
<1> QED BY <1>5, <1>6

(* The traversal is over. *)
LEMMA RelEndInv == ASSUME IInv, NEW t \in Thread, RelEnd(t) PROVE IInv'
<1> DEFINE i == [NoIns EXCEPT !.entry = ins[t].entry]
<1>1. /\ pc[t] = "rel_src" /\ pc[t] \in InInsert
      /\ UNCHANGED <<shared, hazard_ptrs, calls, fnd, rem, hlp>>
      /\ rel' = [rel EXCEPT ![t] = NoRel] /\ ins' = [ins EXCEPT ![t] = i]
      /\ pc' = [pc EXCEPT ![t] = "ins_read"]
  BY DEF RelEnd, RelReturn, Goto, InInsert
<1>2. ins[t].entry \in AddressOrNull
  BY FrameTypes DEF InsFrame
<1>3. i \in InsFrame /\ i.entry = ins[t].entry
  BY <1>2, NoFrameTypes DEF InsFrame
<1> HIDE DEF i
<1>4. hazard_ptrs' \in [Thread -> [HazardIndex -> AddressOrNull]]
  BY <1>1, HazardTypes
<1>5. StayInserting(t, "ins_read", i, NoRel, hlp[t])
  BY <1>1, <1>3, <1>4, InsertingFrames, NoFrameTypes DEF StayInserting, InInsert
<1> QED BY <1>5, InsertingInv

(* The slot that insert looks at is in the table. *)
LEMMA ProbedTypes ==
  ASSUME IInv, NEW t \in Thread, pc[t] \in InInsert
  PROVE  Probed(t) \in Location
<1>1. call[t].key \in Key
  BY FrameTypes DEF CallOK, InInsert
<1>2. hash1(call[t].key) \in Bucket /\ hash2(call[t].key) \in Bucket
  BY <1>1, HashTypes
<1>3. ins[t].pos \in 0 .. LastProbe
  BY FrameTypes DEF InsFrame
<1>4. ASSUME NEW n \in 0 .. LastProbe PROVE n \div 2 \in Slot
  BY PartialKeyAssumption DEF LastProbe, Slot
<1>5. ins[t].pos \div 2 \in Slot
  BY <1>3, <1>4
<1> QED BY <1>2, <1>5 DEF Probed, Location

(* A step of insert alone. *)
LEMMA InsertAloneInv ==
  ASSUME IInv, NEW t \in Thread, pc[t] \in {"ins_read", "ins_cas"},
         UNCHANGED <<shared, hazard_ptrs, calls, fnd, rem, rel, hlp>>,
         NEW l \in {"ins_read", "ins_cas", "ins_kick"},
         pc' = [pc EXCEPT ![t] = l],
         NEW i \in InsFrame, ins' = [ins EXCEPT ![t] = i], i.entry = ins[t].entry
  PROVE  IInv'
<1>1. hazard_ptrs' \in [Thread -> [HazardIndex -> AddressOrNull]]
  BY HazardTypes
<1>2. StayInserting(t, l, i, rel[t], hlp[t])
  BY <1>1, InsertingFrames DEF StayInserting, InInsert
<1> QED BY <1>2, InsertingInv

(* On to the next probe, or to kicking items out. *)
LEMMA NextProbeInv ==
  ASSUME IInv, NEW t \in Thread, pc[t] \in {"ins_read", "ins_cas"},
         UNCHANGED <<shared, hazard_ptrs, calls, fnd, rem, rel, hlp>>,
         NEW found \in BOOLEAN, NextProbe(t, found)
  PROVE  IInv'
<1> DEFINE last    == ins[t].pos = LastProbe
           kick    == last /\ ~found
           pos     == IF last THEN 0 ELSE ins[t].pos + 1
           again   == ~last /\ found
           untried == IF kick THEN Slot ELSE {}
           i == [entry |-> ins[t].entry, pos |-> pos, found_empty |-> again,
                 ptr1 |-> empty_slot, untried |-> untried]
           l == IF kick THEN "ins_kick" ELSE "ins_read"
<1>1. ins' = [ins EXCEPT ![t] = i] /\ pc' = [pc EXCEPT ![t] = l]
  BY DEF NextProbe, Goto
<1>2. l \in {"ins_read", "ins_cas", "ins_kick"}
  OBVIOUS
<1>3. ins[t].entry \in AddressOrNull /\ ins[t].pos \in 0 .. LastProbe
  BY FrameTypes DEF InsFrame
<1>4. pos \in 0 .. LastProbe
  <2>1. ASSUME NEW n \in 0 .. LastProbe
        PROVE  (IF n = LastProbe THEN 0 ELSE n + 1) \in 0 .. LastProbe
    BY PartialKeyAssumption DEF LastProbe
  <2> QED BY <1>3, <2>1
<1>5. again \in BOOLEAN
  OBVIOUS
<1>6. untried \in SUBSET Slot
  OBVIOUS
<1> HIDE DEF pos, again, untried, l
<1>7. i \in InsFrame
  BY <1>3, <1>4, <1>5, <1>6, EmptyTypes DEF InsFrame
<1>8. i.entry = ins[t].entry
  OBVIOUS
<1> HIDE DEF i
<1> QED BY <1>1, <1>2, <1>7, <1>8, InsertAloneInv

(* insert reads a slot. *)
LEMMA InsReadInv == ASSUME IInv, NEW t \in Thread, InsRead(t) PROVE IInv'
<1> DEFINE p == hash_table[Probed(t)]
<1>1. /\ pc[t] = "ins_read" /\ pc[t] \in InInsert
      /\ UNCHANGED <<shared, hazard_ptrs, calls, fnd, rem, rel, hlp>>
  BY DEF InsRead, InInsert
<1>2. p \in table_pointer
  BY <1>1, ProbedTypes, ReadTypes
<1>3. ins[t] \in InsFrame
  BY FrameTypes
<1>4. CASE p.real = NULL
  <2> DEFINE i == [ins[t] EXCEPT !.ptr1 = p, !.found_empty = TRUE]
  <2>1. ins' = [ins EXCEPT ![t] = i] /\ pc' = [pc EXCEPT ![t] = "ins_cas"]
    BY <1>4 DEF InsRead, Goto
  <2> HIDE DEF p
  <2>2. i \in InsFrame
    BY <1>2, <1>3 DEF InsFrame
  <2>3. i.entry = ins[t].entry
    BY <1>3 DEF InsFrame
  <2> HIDE DEF i
  <2> QED BY <1>1, <2>1, <2>2, <2>3, InsertAloneInv
<1>5. CASE p.real # NULL
  <2>1. NextProbe(t, ins[t].found_empty)
    BY <1>5 DEF InsRead
  <2>2. ins[t].found_empty \in BOOLEAN
    BY <1>3 DEF InsFrame
  <2> QED BY <1>1, <2>1, <2>2, NextProbeInv
<1> QED BY <1>4, <1>5

(* insert swaps its entry in. *)
LEMMA InsCasInv == ASSUME IInv, NEW t \in Thread, InsCas(t) PROVE IInv'
<1> DEFINE p == ins[t].ptr1
           w == create_pointer(p.counter, ins[t].entry, FALSE)
<1>1. pc[t] = "ins_cas" /\ UNCHANGED <<others, hazard_ptrs>>
  BY DEF InsCas
<1>2. CASE Holds(Probed(t), p)
  <2>1. Store(Probed(t), w) /\ Return(t, "true")
    BY <1>2 DEF InsCas
  <2>2. ins[t] \in InsFrame /\ ins[t].entry \in AddressOrNull /\ p \in table_pointer
    BY FrameTypes DEF InsFrame
  <2>3. Alive(ins[t].entry)
    BY FrameTypes DEF InsOK
  <2>4. w \in table_pointer /\ w.real = ins[t].entry /\ w.marked = FALSE
    BY <2>2 DEF create_pointer, table_pointer, AddressOrNull
  <2>5. Probed(t) \in Location
    BY <1>1, ProbedTypes DEF InInsert
  <2> HIDE DEF w
  <2>6. hash_table' \in [Location -> table_pointer] /\ TableOK'
    BY <1>1, <2>1, <2>3, <2>4, <2>5, StoreTable DEF others
  <2>7. /\ hazard_ptrs' \in [Thread -> [HazardIndex -> AddressOrNull]]
        /\ retired_ptrs' \in [Thread -> Seq(Address)] /\ leaked' \subseteq Address
        /\ UNCHANGED <<heap, status, resets>>
    BY <1>1 DEF IInv, TypeOK, others
  <2> QED BY <1>1, <2>1, <2>6, <2>7, ReturnInv
<1>3. CASE ~Holds(Probed(t), p)
  <2>1. /\ NextProbe(t, TRUE)
        /\ UNCHANGED <<shared, hazard_ptrs, calls, fnd, rem, rel, hlp>>
    BY <1>3 DEF InsCas, shared
  <2> QED BY <1>1, <2>1, NextProbeInv
<1> QED BY <1>2, <1>3

(* insert calls relocate for a slot of the first bucket. *)
LEMMA InsKickInv == ASSUME IInv, NEW t \in Thread, InsKick(t) PROVE IInv'
<1>1. /\ pc[t] = "ins_kick" /\ pc[t] \in InInsert
      /\ UNCHANGED <<shared, hazard_ptrs, calls, fnd, rem, hlp>>
      /\ pc' = [pc EXCEPT ![t] = "rel_probe"]
  BY DEF InsKick, InInsert, Goto
<1>2. PICK s \in ins[t].untried :
        /\ ins' = [ins EXCEPT ![t].untried = @ \ {s}]
        /\ rel' = [rel EXCEPT ![t] = [NoRel EXCEPT !.idx = hash1(call[t].key), !.slot = s]]
  BY DEF InsKick
<1> DEFINE i == [ins[t] EXCEPT !.untried = ins[t].untried \ {s}]
           b == hash1(call[t].key)
           e == [NoRel EXCEPT !.idx = b, !.slot = s]
<1>3. ins' = [ins EXCEPT ![t] = i] /\ rel' = [rel EXCEPT ![t] = e]
  BY <1>2 DEF IInv, TypeOK
<1>4. ins[t] \in InsFrame /\ ins[t].untried \in SUBSET Slot /\ s \in Slot
  BY FrameTypes DEF InsFrame
<1>5. i \in InsFrame /\ i.entry = ins[t].entry
  BY <1>4 DEF InsFrame
<1>6. call[t].key \in Key
  BY <1>1, FrameTypes DEF CallOK
<1>7. b \in Bucket
  BY <1>6, HashTypes
<1> HIDE DEF b, i
<1>8. e \in RelFrame /\ e.source = NULL /\ e.left = NoRel.left /\ e.depth = NoRel.depth
      /\ e.ptr.real = NULL
  BY <1>4, <1>7, NoFrameTypes DEF RelFrame
<1> HIDE DEF e
<1>9. e.left <= e.depth
  BY <1>8, NoFrameTypes
<1>10. hazard_ptrs' \in [Thread -> [HazardIndex -> AddressOrNull]]
  BY <1>1, HazardTypes
<1>11. StayInserting(t, "rel_probe", i, e, hlp[t])
  BY <1>1, <1>3, <1>5, <1>8, <1>9, <1>10, InsertingFrames DEF StayInserting, InInsert
<1> QED BY <1>11, InsertingInv

(* insert gives up. *)
LEMMA InsFailInv == ASSUME IInv, NEW t \in Thread, InsFail(t) PROVE IInv'
<1>1. /\ pc[t] = "ins_kick" /\ leaked' = leaked \cup {ins[t].entry} /\ Return(t, "false")
      /\ UNCHANGED <<hash_table, heap, retired_ptrs, status, resets, hazard_ptrs>>
  BY DEF InsFail
<1>2. ins[t].entry \in Address
  <2>1. ins[t].entry \in AddressOrNull
    BY FrameTypes DEF InsFrame
  <2>2. ins[t].entry # NULL
    BY <1>1, FrameTypes DEF InsOK, Where, InInsert, HelpLabels
  <2> QED BY <2>1, <2>2 DEF AddressOrNull
<1>3. /\ hazard_ptrs' \in [Thread -> [HazardIndex -> AddressOrNull]]
      /\ retired_ptrs' \in [Thread -> Seq(Address)] /\ leaked' \subseteq Address
  BY <1>1, <1>2 DEF IInv, TypeOK
<1>4. hash_table' \in [Location -> table_pointer] /\ TableOK'
  BY <1>1, SameTable
<1> QED BY <1>1, <1>3, <1>4, ReturnInv

-----------------------------------------------------------------------------
(***************************************************************************)
(* find and remove                                                         *)
(***************************************************************************)
(* The frames of a thread that is in find or remove. *)
LEMMA FindingFrames ==
  ASSUME IInv, NEW t \in Thread, pc[t] \in InFind
  PROVE  /\ fnd[t] \in FndFrame /\ rem[t] \in RemFrame /\ hlp[t] \in HlpFrame
         /\ fnd[t].slot \in Slot
         /\ pc[t] \notin {"fnd_hold1", "fnd_hold2"} => fnd[t].ptr.real = NULL
         /\ hash1(call[t].key) \in Bucket /\ hash2(call[t].key) \in Bucket
         /\ hlp[t].ptr1.real = NULL /\ ~hlp[t].ptr1.marked
         /\ pc[t] # "rem_cas" => rem[t].ptr1.real = NULL
         /\ rem[t].location # NotFound
         /\ Alive(NULL)
         /\ fnd = [fnd EXCEPT ![t] = fnd[t]] /\ rem = [rem EXCEPT ![t] = rem[t]]
         /\ hlp = [hlp EXCEPT ![t] = hlp[t]]
<1>1. fnd[t] \in FndFrame /\ rem[t] \in RemFrame /\ hlp[t] \in HlpFrame
  BY FrameTypes
<1>2. fnd[t].slot \in Slot
  BY <1>1 DEF FndFrame
<1>3. hlp[t].ptr1.real = NULL /\ ~hlp[t].ptr1.marked /\ rem[t].location # NotFound
      /\ (pc[t] # "rem_cas" => rem[t].ptr1.real = NULL)
      /\ (pc[t] \notin {"fnd_hold1", "fnd_hold2"} => fnd[t].ptr.real = NULL)
  BY FrameTypes DEF HlpOK, RemOK, FndOK, HelpLabels, InFind
<1>4. call[t].key \in Key
  BY FrameTypes DEF CallOK, InFind
<1>5. hash1(call[t].key) \in Bucket /\ hash2(call[t].key) \in Bucket
  BY <1>4, HashTypes
<1>6. /\ fnd = [fnd EXCEPT ![t] = fnd[t]] /\ rem = [rem EXCEPT ![t] = rem[t]]
      /\ hlp = [hlp EXCEPT ![t] = hlp[t]]
  BY DEF IInv, TypeOK
<1> QED BY <1>1, <1>2, <1>3, <1>5, <1>6 DEF Alive

(* find is over: for remove, the entry it found is the one to swap out. *)
LEMMA FindReturnInv ==
  ASSUME IInv, NEW t \in Thread, pc[t] \in InFind \ {"rem_cas"},
         NEW location \in 0 .. NotFound, NEW p \in table_pointer, Alive(p.real),
         location # NotFound => p.real # NULL,
         FindReturn(t, location, p), UNCHANGED shared,
         hazard_ptrs' \in [Thread -> [HazardIndex -> AddressOrNull]]
  PROVE  IInv'
<1>1. pc[t] \in InFind
  BY DEF InFind
<1>2. ASSUME NEW v \in {"true", "false"}, Return(t, v) PROVE IInv'
  <2>1. hash_table' \in [Location -> table_pointer] /\ TableOK'
    BY SameTable DEF shared, others
  <2>2. /\ retired_ptrs' \in [Thread -> Seq(Address)] /\ leaked' \subseteq Address
        /\ UNCHANGED <<heap, status, resets>>
    BY DEF shared, others, IInv, TypeOK
  <2> QED BY <1>1, <1>2, <2>1, <2>2, ReturnInv
<1>3. ASSUME location # NotFound, UNCHANGED <<calls, ins, rel, hlp>>, Goto(t, "rem_cas"),
             rem' = [rem EXCEPT ![t] = [location |-> location, ptr1 |-> p]],
             fnd' = [fnd EXCEPT ![t] = NoFnd]
      PROVE  IInv'
  <2> DEFINE m == [location |-> location, ptr1 |-> p]
  <2>1. m \in RemFrame /\ m.ptr1 = p /\ m.location = location
    BY DEF RemFrame
  <2>2. rem' = [rem EXCEPT ![t] = m] /\ pc' = [pc EXCEPT ![t] = "rem_cas"]
    BY <1>3 DEF Goto
  <2> HIDE DEF m
  <2>3. StayFinding(t, "rem_cas", NoFnd, m, hlp[t])
    BY <1>1, <1>3, <2>1, <2>2, FindingFrames, NoFrameTypes DEF StayFinding, InFind
  <2> QED BY <2>3, FindingInv
<1> QED BY <1>2, <1>3 DEF FindReturn

(* What find returns is one of the NotFound locations of a key. *)
LEMMA LocationTypes ==
  ASSUME NEW n \in Slot, NEW j \in {0, 1}
  PROVE  n + j * NUM_ITEMS_PER_ENTRY \in 0 .. NotFound
<1>1. CASE j = 0
  BY <1>1, PartialKeyAssumption DEF Slot, NotFound
<1>2. CASE j = 1
  BY <1>2, PartialKeyAssumption DEF Slot, NotFound
<1> QED BY <1>1, <1>2

(* find looks at what it has loaded in the first round. *)
LEMMA FirstRoundInv ==
  ASSUME IInv, NEW t \in Thread, pc[t] \in {"fnd_hold1", "fnd_hold2"},
         NEW j \in {0, 1}, NEW b \in Bucket,
         NEW frame \in FndFrame, frame.ptr.real = NULL,
         NEW next \in {"fnd_second", "fnd_recheck1"},
         FirstRound(t, j, b, frame, next), UNCHANGED shared
  PROVE  IInv'
<1> DEFINE s == fnd[t].slot
           p == fnd[t].ptr
<1>1. pc[t] \in InFind \ {"rem_cas"} /\ pc[t] \in InFind
  BY DEF InFind
<1>2. s \in Slot
  BY <1>1, FindingFrames
<1>4. p \in table_pointer /\ Alive(p.real) /\ p.real \in AddressOrNull
  BY FrameTypes DEF FndFrame, FndOK, table_pointer, AddressOrNull
<1>5. MarkHazard(t, j, p.real)
        => hazard_ptrs' \in [Thread -> [HazardIndex -> AddressOrNull]]
  BY <1>4, HazardTypes DEF HazardIndex
<1>6. s + j * NUM_ITEMS_PER_ENTRY \in 0 .. NotFound
  BY <1>2, LocationTypes
<1> HIDE DEF p, s
<1>7. \/ CallHelp(t, b, s, FALSE, "fnd_first")
         /\ fnd' = [fnd EXCEPT ![t] = [NoFnd EXCEPT !.slot = s]]
         /\ UNCHANGED <<calls, ins, rem, rel>>
      \/ p.real # NULL /\ MarkHazard(t, j, p.real)
         /\ FindReturn(t, s + j * NUM_ITEMS_PER_ENTRY, p)
      \/ MarkHazard(t, j, p.real)
         /\ fnd' = [fnd EXCEPT ![t] = frame] /\ pc' = [pc EXCEPT ![t] = next]
         /\ UNCHANGED <<calls, ins, rem, rel, hlp>>
  BY DEF FirstRound, Goto, p, s
<1>8. ASSUME CallHelp(t, b, s, FALSE, "fnd_first"),
             fnd' = [fnd EXCEPT ![t] = [NoFnd EXCEPT !.slot = s]],
             UNCHANGED <<calls, ins, rem, rel>>
      PROVE  IInv'
  <2> DEFINE f == [NoFnd EXCEPT !.slot = s]
  <2>1. f \in FndFrame /\ f.ptr.real = NULL
    BY <1>2, NoFrameTypes DEF FndFrame
  <2>2. fnd' = [fnd EXCEPT ![t] = f]
    BY <1>8
  <2> HIDE DEF f
  <2>3. "fnd_first" \in Label
    BY DEF Label
  <2>4. /\ pc' = [pc EXCEPT ![t] = "hlp_load"]
        /\ hazard_ptrs' \in [Thread -> [HazardIndex -> AddressOrNull]]
        /\ hlp'[t] \in HlpFrame /\ hlp' = [hlp EXCEPT ![t] = hlp'[t]]
        /\ hlp'[t].ptr1.real = NULL /\ ~hlp'[t].ptr1.marked /\ hlp'[t].ret = "fnd_first"
    BY <1>2, <1>8, <2>3, CallHelpTypes
  <2>5. StayFinding(t, "hlp_load", f, rem[t], hlp'[t])
    BY <1>1, <1>8, <2>1, <2>2, <2>4, FindingFrames DEF StayFinding
  <2> QED BY <2>5, FindingInv
<1>9. ASSUME p.real # NULL, MarkHazard(t, j, p.real),
             FindReturn(t, s + j * NUM_ITEMS_PER_ENTRY, p)
      PROVE  IInv'
  BY <1>1, <1>4, <1>5, <1>6, <1>9, FindReturnInv
<1>10. ASSUME MarkHazard(t, j, p.real), fnd' = [fnd EXCEPT ![t] = frame],
              pc' = [pc EXCEPT ![t] = next], UNCHANGED <<calls, ins, rem, rel, hlp>>
       PROVE  IInv'
  <2>1. StayFinding(t, next, frame, rem[t], hlp[t])
    BY <1>1, <1>5, <1>10, FindingFrames DEF StayFinding, InFind
  <2> QED BY <2>1, FindingInv
<1> QED BY <1>7, <1>8, <1>9, <1>10

(* find loads one of its two slots. *)
LEMMA FndLoadInv ==
  ASSUME IInv, NEW t \in Thread, pc[t] \in {"fnd_first", "fnd_second"},
         NEW l \in Location, NEW next \in {"fnd_hold1", "fnd_hold2"},
         fnd' = [fnd EXCEPT ![t].ptr = hash_table[l]], Goto(t, next),
         UNCHANGED <<shared, hazard_ptrs, calls, ins, rem, rel, hlp>>
  PROVE  IInv'
<1> DEFINE p == hash_table[l]
           f == [fnd[t] EXCEPT !.ptr = p]
<1>1. /\ pc[t] \in InFind \ {"rem_cas"} /\ fnd' = [fnd EXCEPT ![t] = f]
      /\ pc' = [pc EXCEPT ![t] = next]
  BY DEF InFind, Goto
<1>2. p \in table_pointer /\ Alive(p.real)
  BY ReadTypes
<1> HIDE DEF p
<1>3. f \in FndFrame /\ f.ptr = p
  BY <1>2, FrameTypes DEF FndFrame
<1> HIDE DEF f
<1>4. hazard_ptrs' \in [Thread -> [HazardIndex -> AddressOrNull]]
  BY HazardTypes
<1>5. StayFinding(t, next, f, rem[t], hlp[t])
  BY <1>1, <1>2, <1>3, <1>4, FindingFrames DEF StayFinding, InFind
<1> QED BY <1>5, FindingInv

(* The two slots of a search are in the table. *)
LEMMA SlotTypes ==
  ASSUME IInv, NEW t \in Thread, pc[t] \in InFind
  PROVE  FirstSlot(t) \in Location /\ SecondSlot(t) \in Location
  BY FindingFrames DEF FirstSlot, SecondSlot, Location

(* find loads the slot of the first bucket ... *)
LEMMA FndFirstInv == ASSUME IInv, NEW t \in Thread, FndFirst(t) PROVE IInv'
<1>1. pc[t] = "fnd_first" /\ FirstSlot(t) \in Location
  BY SlotTypes DEF FndFirst, InFind
<1> QED BY <1>1, FndLoadInv DEF FndFirst

(* ... and looks at it; *)
LEMMA FndHold1Inv == ASSUME IInv, NEW t \in Thread, FndHold1(t) PROVE IInv'
<1> DEFINE b     == hash1(call[t].key)
           frame == [fnd[t] EXCEPT !.ptr = empty_slot, !.ts1 = fnd[t].ptr.counter]
<1>1. pc[t] = "fnd_hold1" /\ pc[t] \in InFind /\ UNCHANGED shared
      /\ FirstRound(t, 0, b, frame, "fnd_second")
  BY DEF FndHold1, InFind
<1>2. b \in Bucket
  BY <1>1, FindingFrames
<1>3. fnd[t] \in FndFrame /\ fnd[t].ptr.counter \in Counter
  BY FrameTypes DEF FndFrame, table_pointer, Counter
<1>4. frame \in FndFrame /\ frame.ptr.real = NULL
  BY <1>3, EmptyTypes DEF FndFrame
<1> HIDE DEF b, frame
<1> QED BY <1>1, <1>2, <1>4, FirstRoundInv

(* it loads the slot of the second bucket ... *)
LEMMA FndSecondInv == ASSUME IInv, NEW t \in Thread, FndSecond(t) PROVE IInv'
<1>1. pc[t] = "fnd_second" /\ SecondSlot(t) \in Location
  BY SlotTypes DEF FndSecond, InFind
<1> QED BY <1>1, FndLoadInv DEF FndSecond

(* ... and looks at it. *)
LEMMA FndHold2Inv == ASSUME IInv, NEW t \in Thread, FndHold2(t) PROVE IInv'
<1> DEFINE b     == hash2(call[t].key)
           frame == [fnd[t] EXCEPT !.ptr = empty_slot, !.ts2 = fnd[t].ptr.counter]
<1>1. pc[t] = "fnd_hold2" /\ pc[t] \in InFind /\ UNCHANGED shared
      /\ FirstRound(t, 1, b, frame, "fnd_recheck1")
  BY DEF FndHold2, InFind
<1>2. b \in Bucket
  BY <1>1, FindingFrames
<1>3. fnd[t] \in FndFrame /\ fnd[t].ptr.counter \in Counter
  BY FrameTypes DEF FndFrame, table_pointer, Counter
<1>4. frame \in FndFrame /\ frame.ptr.real = NULL
  BY <1>3, EmptyTypes DEF FndFrame
<1> HIDE DEF b, frame
<1> QED BY <1>1, <1>2, <1>4, FirstRoundInv

(* find reads the counter of the first slot again. *)
LEMMA FndRecheck1Inv == ASSUME IInv, NEW t \in Thread, FndRecheck1(t) PROVE IInv'
<1> DEFINE c == hash_table[FirstSlot(t)].counter
           f == [fnd[t] EXCEPT !.ts1x = c]
<1>1. /\ pc[t] = "fnd_recheck1" /\ pc[t] \in InFind
      /\ fnd' = [fnd EXCEPT ![t] = f] /\ pc' = [pc EXCEPT ![t] = "fnd_recheck2"]
      /\ UNCHANGED <<shared, hazard_ptrs, calls, ins, rem, rel, hlp>>
  BY DEF FndRecheck1, Goto, InFind
<1>2. FirstSlot(t) \in Location
  BY <1>1, SlotTypes
<1>3. c \in Counter
  BY <1>2, ReadTypes
<1> HIDE DEF c
<1>4. fnd[t] \in FndFrame
  BY FrameTypes
<1>5. f \in FndFrame /\ f.ptr = fnd[t].ptr
  BY <1>3, <1>4 DEF FndFrame
<1> HIDE DEF f
<1>6. hazard_ptrs' \in [Thread -> [HazardIndex -> AddressOrNull]]
  BY <1>1, HazardTypes
<1>7. StayFinding(t, "fnd_recheck2", f, rem[t], hlp[t])
  BY <1>1, <1>5, <1>6, FindingFrames DEF StayFinding, InFind
<1> QED BY <1>7, FindingInv

(* find reads the counter of the second slot again and searches on, or gives up. *)
LEMMA FndRecheck2Inv == ASSUME IInv, NEW t \in Thread, FndRecheck2(t) PROVE IInv'
<1>1. /\ pc[t] = "fnd_recheck2" /\ pc[t] \in InFind /\ pc[t] \in InFind \ {"rem_cas"}
      /\ UNCHANGED shared
      /\ hazard_ptrs' \in [Thread -> [HazardIndex -> AddressOrNull]]
  BY HazardTypes DEF FndRecheck2, InFind
<1>2. fnd[t].slot \in Slot
  BY <1>1, FindingFrames
<1>3. CASE FindReturn(t, NotFound, empty_slot)
  <2>1. empty_slot \in table_pointer /\ Alive(empty_slot.real)
    BY EmptyTypes DEF Alive
  <2>2. NotFound \in 0 .. NotFound
    BY PartialKeyAssumption DEF NotFound
  <2> QED BY <1>1, <1>3, <2>1, <2>2, FindReturnInv
<1>4. ASSUME NEW n \in {fnd[t].slot, fnd[t].slot + 1},
             n = fnd[t].slot + 1 => MoreSlots(t),
             fnd' = [fnd EXCEPT ![t] = [NoFnd EXCEPT !.slot = n]],
             Goto(t, "fnd_first"), UNCHANGED <<calls, ins, rem, rel, hlp>>
      PROVE  IInv'
  <2> DEFINE f == [NoFnd EXCEPT !.slot = n]
  <2>1. n \in Slot
    <3>1. fnd[t].slot + 1 < NUM_ITEMS_PER_ENTRY => fnd[t].slot + 1 \in Slot
      BY <1>2, PartialKeyAssumption DEF Slot
    <3> QED BY <1>2, <1>4, <3>1 DEF MoreSlots
  <2>2. f \in FndFrame /\ f.ptr.real = NULL
    BY <2>1, NoFrameTypes DEF FndFrame
  <2>3. fnd' = [fnd EXCEPT ![t] = f] /\ pc' = [pc EXCEPT ![t] = "fnd_first"]
    BY <1>4 DEF Goto
  <2> HIDE DEF f
  <2>4. StayFinding(t, "fnd_first", f, rem[t], hlp[t])
    BY <1>1, <1>4, <2>2, <2>3, FindingFrames DEF StayFinding, InFind
  <2> QED BY <2>4, FindingInv
<1> DEFINE again == check_counter(fnd[t].ts1, fnd[t].ts2, fnd[t].ts1x,
                      hash_table[SecondSlot(t)].counter)
<1>5. \/ /\ again \/ MoreSlots(t)
         /\ fnd' = [fnd EXCEPT ![t] = [NoFnd EXCEPT
                      !.slot = IF again THEN fnd[t].slot ELSE fnd[t].slot + 1]]
         /\ Goto(t, "fnd_first") /\ UNCHANGED <<calls, ins, rem, rel, hlp>>
      \/ FindReturn(t, NotFound, empty_slot)
  BY DEF FndRecheck2
<1> HIDE DEF again
<1>6. fnd[t].slot # fnd[t].slot + 1
  BY <1>2 DEF Slot
<1> QED BY <1>3, <1>4, <1>5, <1>6

(* The slot that remove swaps is in the table. *)
LEMMA RemLocationTypes ==
  ASSUME IInv, NEW t \in Thread, pc[t] = "rem_cas"
  PROVE  RemLocation(t) \in Location
<1>1. ASSUME NEW n \in 0 .. NotFound PROVE n % NUM_ITEMS_PER_ENTRY \in Slot
  BY PartialKeyAssumption DEF NotFound, Slot
<1>2. rem[t].location % NUM_ITEMS_PER_ENTRY \in Slot
  BY <1>1, FrameTypes DEF RemFrame
<1> QED BY <1>2, FindingFrames DEF RemLocation, Location, InFind

(* remove swaps out the entry it has found, or searches again. *)
LEMMA RemCasInv == ASSUME IInv, NEW t \in Thread, RemCas(t) PROVE IInv'
<1> DEFINE p == rem[t].ptr1
           w == create_pointer(p.counter, NULL, FALSE)
<1>1. pc[t] = "rem_cas" /\ pc[t] \in InFind /\ UNCHANGED <<leaked, status, resets>>
  BY DEF RemCas, InFind
<1>2. p \in table_pointer /\ p.real # NULL /\ rem[t].location \in 0 .. NotFound
      /\ rem[t].location # NotFound
  BY <1>1, FrameTypes DEF RemFrame, RemOK
<1>3. CASE Holds(RemLocation(t), p)
  <2>1. /\ Store(RemLocation(t), w) /\ retire_key(t, p) /\ Return(t, "true")
        /\ UNCHANGED hazard_ptrs
    BY <1>3 DEF RemCas
  <2>2. UNCHANGED heap /\ retired_ptrs' = [retired_ptrs EXCEPT ![t] = Append(@, p.real)]
    BY <2>1 DEF retire_key
  <2>3. RemLocation(t) \in Location
    BY <1>1, RemLocationTypes
  <2>4. w \in table_pointer /\ w.real = NULL /\ w.marked = FALSE
    BY <1>2 DEF create_pointer, table_pointer
  <2> HIDE DEF w
  <2>5. hash_table' \in [Location -> table_pointer] /\ TableOK'
    BY <2>1, <2>2, <2>3, <2>4, StoreTable DEF Alive
  <2>6. p.real \in Address
    BY <1>2 DEF table_pointer
  <2>7. retired_ptrs' \in [Thread -> Seq(Address)]
    <3>1. retired_ptrs \in [Thread -> Seq(Address)]
      BY DEF IInv, TypeOK
    <3>2. Append(retired_ptrs[t], p.real) \in Seq(Address)
      BY <2>6, <3>1
    <3> QED BY <2>2, <3>1, <3>2
  <2>8. /\ hazard_ptrs' \in [Thread -> [HazardIndex -> AddressOrNull]]
        /\ leaked' \subseteq Address
    BY <1>1, <2>1 DEF IInv, TypeOK
  <2> QED BY <1>1, <2>1, <2>2, <2>5, <2>7, <2>8, ReturnInv
<1>4. CASE ~Holds(RemLocation(t), p)
  <2>1. /\ rem' = [rem EXCEPT ![t] = NoRem] /\ pc' = [pc EXCEPT ![t] = "fnd_first"]
        /\ ClearHazard(t)
        /\ UNCHANGED <<shared, calls, ins, fnd, rel, hlp>>
    BY <1>1, <1>4 DEF RemCas, RemRetry, Goto, shared, others
  <2>2. hazard_ptrs' \in [Thread -> [HazardIndex -> AddressOrNull]]
    BY <2>1, HazardTypes
  <2>3. StayFinding(t, "fnd_first", fnd[t], NoRem, hlp[t])
    BY <1>1, <2>1, <2>2, FindingFrames, NoFrameTypes DEF StayFinding, InFind
  <2> QED BY <2>3, FindingInv
<1> QED BY <1>3, <1>4
=============================================================================
