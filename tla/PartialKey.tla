----------------------------- MODULE PartialKey -----------------------------
(***************************************************************************)
(* Partial-key cuckoo hashing, shared by the three filters of the library. *)
(*                                                                         *)
(* A key is stored as its MD5 fingerprint only.  The first bucket comes    *)
(* from the Jenkins hash of the key; the other one from the current bucket *)
(* and the Jenkins hash of the fingerprint, so that an item can be moved   *)
(* without its key.  The digests themselves are abstracted to two constant *)
(* functions: the filters only compare fingerprints and index buckets.     *)
(***************************************************************************)
EXTENDS Naturals

CONSTANTS
  Key,                  \* the strings the clients pass in
  Fingerprint,          \* the digests of those strings
  TableSize,            \* table_size, the number of buckets
  NUM_ITEMS_PER_ENTRY,  \* slots of a bucket (4 in common.h)
  NUM_MAX_KICKS,        \* bound on replacements of one insert (10 in common.h)
  md5_fingerprint,      \* [Key -> Fingerprint]
  jenkins_hash,         \* [Key \cup Fingerprint -> Nat]
  BitXor(_, _)             \* the ^ operator of C++ on unsigned integers

Bucket == 0 .. TableSize - 1
Slot   == 0 .. NUM_ITEMS_PER_ENTRY - 1

(* The whole table: slot s of bucket b is location <<b, s>>. *)
Location == Bucket \X Slot

ASSUME PartialKeyAssumption ==
  /\ TableSize \in Nat \ {0}
  /\ NUM_ITEMS_PER_ENTRY \in Nat \ {0}
  /\ NUM_MAX_KICKS \in Nat \ {0}
  /\ md5_fingerprint \in [Key -> Fingerprint]
  /\ jenkins_hash \in [Key \cup Fingerprint -> Nat]
  /\ \A a, b \in Bucket : BitXor(a, b) \in Nat

-----------------------------------------------------------------------------
(* The bucket an item of fingerprint f that is in bucket i can move to. *)
get_next_hash_index(i, f) == BitXor(i, jenkins_hash[f] % TableSize) % TableSize

(* The two buckets every operation on key k computes first. *)
hash1(k) == jenkins_hash[k] % TableSize
hash2(k) == get_next_hash_index(hash1(k), md5_fingerprint[k])

-----------------------------------------------------------------------------
(***************************************************************************)
(* Moving an item twice brings it back to the bucket it started from.  It  *)
(* holds when TableSize is a power of two; the constructors accept any     *)
(* positive capacity.                                                      *)
(***************************************************************************)
Involutive ==
  \A i \in Bucket, f \in Fingerprint :
    get_next_hash_index(get_next_hash_index(i, f), f) = i

(* The two buckets of an item differ, unless the hash of its fingerprint is a
   multiple of TableSize. *)
TwoBuckets ==
  \A i \in Bucket, f \in Fingerprint : get_next_hash_index(i, f) # i

(* Bucket b is one of the two that an operation on a key of fingerprint f
   looks into. *)
Examined(f, b) ==
  \E k \in Key : md5_fingerprint[k] = f /\ b \in {hash1(k), hash2(k)}

(* Keys of equal fingerprint, a collision of the digests, have the same two
   buckets.  No hash function promises it: where it fails, an operation on one
   key can overlook the item that a call on the other has stored. *)
Unambiguous ==
  \A j, k \in Key :
    md5_fingerprint[j] = md5_fingerprint[k] =>
      {hash1(j), hash2(j)} = {hash1(k), hash2(k)}
=============================================================================
