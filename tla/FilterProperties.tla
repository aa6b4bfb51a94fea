-------------------------- MODULE FilterProperties --------------------------
(***************************************************************************)
(* What LockFreeFilter promises: type correctness, the safety of the       *)
(* entries and of the table words, the answers of the calls, and progress. *)
(***************************************************************************)
EXTENDS LockFreeFilter

Label == {"idle", "ins_read", "ins_cas", "ins_kick",
          "fnd_first", "fnd_hold1", "fnd_second", "fnd_hold2",
          "fnd_recheck1", "fnd_recheck2", "rem_cas",
          "rel_probe", "rel_hold1", "rel_reload", "rel_src", "rel_reload_src",
          "rel_dst", "rel_hold2",
          "hlp_load", "hlp_hold1", "hlp_mark", "hlp_dst", "hlp_hold2",
          "hlp_check", "hlp_move", "hlp_clear", "hlp_done", "hlp_busy"}

Counter == 0 .. UINT16_MAX

InsFrame == [entry : AddressOrNull, pos : 0 .. LastProbe,
             found_empty : BOOLEAN, ptr1 : table_pointer, untried : SUBSET Slot]
FndFrame == [slot : Slot, ptr : table_pointer,
             ts1 : Counter, ts2 : Counter, ts1x : Counter]
RemFrame == [location : 0 .. NotFound, ptr1 : table_pointer]
RelFrame == [idx : Bucket, slot : Slot, route : [Level -> Bucket],
             depth : Level, left : Level, ptr : table_pointer,
             source : AddressOrNull]
HlpFrame == [idx : Bucket, slot : Slot, initiator : BOOLEAN,
             ptr1 : table_pointer, ptr2 : table_pointer, ret : Label]

(* The types of the state: every bucket, slot, level and counter a thread
   holds indexes inside its array (no access out of bounds, no counter wider
   than its 16 bits). *)
TypeOK ==
  /\ hash_table \in [Location -> table_pointer]
  /\ heap \in [Address -> Fingerprint \cup {Free}]
  /\ hazard_ptrs \in [Thread -> [HazardIndex -> AddressOrNull]]
  /\ retired_ptrs \in [Thread -> Seq(Address)]
  /\ leaked \subseteq Address
  /\ status \in {"running", "aborted", "destroyed"}
  /\ resets \in 0 .. MaxResets
  /\ pc \in [Thread -> Label]
  /\ call \in [Thread -> [op : Op, key : Key] \cup {NoCall}]
  /\ result \in [Thread -> {"none", "true", "false"}]
  /\ ncalls \in [Thread -> 0 .. MaxCalls]
  /\ ins \in [Thread -> InsFrame]
  /\ fnd \in [Thread -> FndFrame]
  /\ rem \in [Thread -> RemFrame]
  /\ rel \in [Thread -> RelFrame]
  /\ hlp \in [Thread -> HlpFrame]

-----------------------------------------------------------------------------
(* Entries *)

Allocated == {a \in Address : heap[a] # Free}
Pending   == {ins[t].entry : t \in Thread} \ {NULL}

(* The entries a thread will dereference, store in the table or compare with it;
   the word that relocate has read from a destination is only tested. *)
Borrowed ==
  (UNION {{ins[t].entry, fnd[t].ptr.real, rem[t].ptr1.real, rel[t].source,
           IF pc[t] = "rel_hold1" THEN rel[t].ptr.real ELSE NULL,
           hlp[t].ptr1.real} : t \in Thread}) \ {NULL}

(* No thread ever follows a pointer to a deleted HashEntry, and the table
   holds none: whatever find, relocate and help_relocate dereference, also when
   they have read it but not yet announced it, is allocated. *)
NoDangling == Stored \cup Borrowed \subseteq Allocated

(* No entry gets lost: each one that insert allocated is in the table, is in
   the hands of a running insert, was retired by remove, or was dropped by a
   failed insert or by reset (relocation moves an entry through two swaps that
   other threads see half done). *)
NoLostEntry == Allocated \subseteq Stored \cup Pending \cup Retired \cup leaked

Moving(t) ==
  /\ pc[t] = "hlp_clear"
  /\ Holds(HlpSource(t), hlp[t].ptr1)

(* An entry is in two slots only while a thread is between the two swaps of
   help_relocate on these slots: once the calls have returned every entry has
   one slot, which is the one find examines and reset deletes it from. *)
DuplicateHasMover ==
  \A l, m \in Location :
    l # m /\ hash_table[l].real = hash_table[m].real /\ hash_table[l].real # NULL
      => \E t \in Thread : Moving(t) /\ {HlpSource(t), HlpDest(t)} = {l, m}

(* What remove has retired is gone: it is in no slot that find would accept,
   and it was retired once (free_hazard_pointers deletes it for each time). *)
RetiredIsGone ==
  /\ \A l \in Location : hash_table[l].real \in Retired => hash_table[l].marked
  /\ \A t, u \in Thread :
       \A i \in DOMAIN retired_ptrs[t], j \in DOMAIN retired_ptrs[u] :
         retired_ptrs[t][i] = retired_ptrs[u][j] => t = u /\ i = j

(* Relocation never takes an entry out of the two buckets of its key, so that
   find, which knows the key only, can see it. *)
Placement ==
  \A l \in Location :
    hash_table[l].real # NULL => Examined(heap[hash_table[l].real], l[1])

-----------------------------------------------------------------------------
(* Table words *)

(* reset and the destructor drop the whole table. *)
Dropped == resets' # resets \/ status' = "destroyed"

(* The counter of a slot never goes back while the filter runs: neither
   insert, remove nor a late helper lets an old word reappear under a smaller
   counter, which check_counter relies on. *)
CounterMonotonic ==
  [][\/ \A l \in Location : hash_table'[l].counter >= hash_table[l].counter
     \/ Dropped]_vars

(* A marked slot belongs to its relocation: nobody inserts in it or removes
   from it; it is only cleared, with the next counter. *)
MarkedIsFrozen ==
  [][\A l \in Location :
       LET p == hash_table[l] IN
       p.marked => \/ hash_table'[l] \in {p, create_pointer(p.counter + 1, NULL, FALSE)}
                   \/ Dropped]_vars

(* The swaps on the last two exits of help_relocate compare the destination
   with the word read from the source: they never succeed, so no exit but the
   regular one changes the table. *)
LateExitsHarmless ==
  \A t \in Thread :
    pc[t] \in {"hlp_done", "hlp_busy"} => ~Holds(HlpDest(t), hlp[t].ptr1)

(* From its announcement to its last swap help_relocate keeps the source entry
   among the hazard pointers of the thread, and find leaves what it has found
   there for the swap of remove.  (Between the load and the announcement nothing
   does: see Reclamation.) *)
HazardCovers ==
  \A t \in Thread :
    /\ pc[t] \in {"hlp_mark", "hlp_dst", "hlp_hold2", "hlp_check", "hlp_move",
                  "hlp_clear", "hlp_done", "hlp_busy"}
         => hazard_ptrs[t][0] = hlp[t].ptr1.real
    /\ pc[t] = "rem_cas" => \E j \in HazardIndex : hazard_ptrs[t][j] = rem[t].ptr1.real

-----------------------------------------------------------------------------
(* Answers *)

(* The keys that were stored at the start and that no thread removes. *)
Permanent ==
  {k \in Key :
     /\ \E l \in Location :
          InitTable[l].real # NULL /\ InitHeap[InitTable[l].real] = md5_fingerprint[k]
     /\ \A c \in UNION {Calls[u] : u \in Thread} :
          c.op = "remove" => md5_fingerprint[c.key] # md5_fingerprint[k]}

(* A key that is in the filter for the whole of a find is found. *)
NoFalseMiss ==
  \A t \in Thread :
    pc[t] = "idle" /\ call[t].op = "find" /\ result[t] = "false" /\ resets = 0
      => call[t].key \notin Permanent

(* The bucket that the item in slot s of bucket b would move to. *)
AlternateBucket(b, s) ==
  LET p == hash_table[b, s] IN
  IF p.real = NULL THEN b ELSE get_next_hash_index(b, heap[p.real])

(* The NUM_MAX_KICKS slots of a replacement path are all occupied. *)
PathIsFull(b, s) ==
  LET path[n \in Level] == IF n = 0 THEN b ELSE AlternateBucket(path[n - 1], s)
  IN  \A n \in Level : hash_table[path[n], s].real # NULL

(* With one thread insert fails only when there is no room: both buckets are
   full and every replacement path of NUM_MAX_KICKS slots is. *)
InsertFailsWhenFull ==
  [][\A t \in Thread : InsFail(t) =>
       LET k == call[t].key IN
       \A s \in Slot :
         /\ hash_table[hash1(k), s].real # NULL
         /\ hash_table[hash2(k), s].real # NULL
         /\ PathIsFull(hash1(k), s)]_vars

(* The process is only given up when some slot has used up its counter. *)
AbortsAtTheLimit ==
  status = "aborted" => \E l \in Location : hash_table[l].counter = UINT16_MAX

(* Every call returns, however the threads interleave, unless create_pointer
   aborts the process. *)
CallsReturn == \A t \in Thread : pc[t] # "idle" ~> pc[t] = "idle" \/ status = "aborted"
=============================================================================
