--------------------------------- MODULE KV ---------------------------------
(***************************************************************************)
(* What one call on the metadata store does to its contents                *)
(* (store/store.go, store/memory.go).  The contents are a total function   *)
(* from keys to entries; a key the Go map does not hold is mapped to       *)
(* Absent, whose version 0 is the version of Go's zero entry and the       *)
(* value the interface reserves for "must not exist".  Every mutation of   *)
(* Memory holds the write lock from compare to swap, so a call is one      *)
(* step of whichever module uses these operators.                          *)
(***************************************************************************)
EXTENDS Integers

Absent == [version |-> 0]

Holds(kv, k) == kv[k].version # 0

\* The compare of Put.  Its three mismatch cases (required absent and found
\* present, required a version and found nothing, a different version) are
\* together "the version held, 0 when absent, is not ifVersion".
PutMatches(kv, k, ifVersion) == kv[k].version = ifVersion

\* Mutant: the version starts over.
PutVersionOne(kv, k, v) ==
    [kv EXCEPT ![k] = [val |-> v, version |-> 1]]

\* The swap of Put: a fresh key lands on version 1.
Put(kv, k, v) ==
    [kv EXCEPT ![k] = [val |-> v, version |-> kv[k].version + 1]]

\* The compare of Delete: absent is ErrNotFound, ifVersion 0 deletes whatever
\* is there.
DeleteMatches(kv, k, ifVersion) ==
    Holds(kv, k) /\ ifVersion \in {0, kv[k].version}

Delete(kv, k) == [kv EXCEPT ![k] = Absent]

\* Reset removes every key under a prefix, given here as the set of keys that
\* have it.
Reset(kv, prefixed) ==
    [k \in DOMAIN kv |-> IF k \in prefixed THEN Absent ELSE kv[k]]
=============================================================================
