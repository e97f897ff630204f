------------------------------- MODULE Memory -------------------------------
(***************************************************************************)
(* store.Memory (store/memory.go): a versioned compare-and-swap map with a *)
(* sorted key index that List pages through.  Clients read an entry and    *)
(* later write or delete at the version they read; a lister walks a prefix *)
(* page by page, each page one call; and snapshots replace the contents.   *)
(* All of them interleave, one store call per step.                        *)
(*                                                                         *)
(* Keys are naturals in string order.  The strings that share a prefix are *)
(* an interval of that order whose least element is the prefix itself, so  *)
(* a prefix is a pair <<lo, hi>>.                                          *)
(***************************************************************************)
EXTENDS KV, Sequences, SequencesExt

CONSTANTS Keys,        \* the keys clients use
          Values,      \* the values they store
          Clients,     \* goroutines that read, then compare-and-swap
          KeyPrefixes, \* prefixes given to List and Reset
          Limits,      \* scan budgets given to List; 0 is no limit
          MaxVersion,  \* bound on the version a key reaches
          MaxLife      \* bound on how often keys are removed or replaced

ASSUME KeysAssumption == Keys \subseteq Nat
ASSUME PrefixAssumption ==
    /\ KeyPrefixes \subseteq Nat \X Nat
    /\ \A p \in KeyPrefixes : p[1] <= p[2]
ASSUME LimitAssumption == Limits \subseteq Nat
ASSUME BoundAssumption == MaxVersion \in Nat /\ MaxLife \in Nat

VARIABLES m,      \* the map
          keys,   \* the sorted key index
          life,   \* ghost: how often each key was removed or replaced whole
          held,   \* what each client last read: key, entry, life; or NotRead
          snap,   \* the last Snapshot taken: map and index; or NoSnapshot
          walk    \* the lister: prefix, limit, page token, keys returned

vars == <<m, keys, life, held, snap, walk>>

Entries == [val : Values, version : Nat \ {0}] \cup {Absent}
NotRead == [key |-> -1]
NoSnapshot == [none |-> TRUE]

HasPrefix(k, p) == p[1] <= k /\ k <= p[2]
Present == {k \in Keys : Holds(m, k)}

StrictlySorted(s) == \A i, j \in 1..Len(s) : i < j => s[i] < s[j]

\* sort.SearchStrings on a sorted index: the first position holding x or more.
Search(s, x) ==
    CHOOSE i \in 1..(Len(s) + 1) :
        /\ \A j \in 1..(i - 1) : s[j] < x
        /\ i <= Len(s) => s[i] >= x

\* Mutant: the key is appended.
insertKeyLast(s, k) == Append(s, k)

insertKey(s, k) ==
    LET i == Search(s, k)
    IN  SubSeq(s, 1, i - 1) \o <<k>> \o SubSeq(s, i, Len(s))

removeKey(s, k) ==
    LET i == Search(s, k)
    IN  IF i <= Len(s) /\ s[i] = k
        THEN SubSeq(s, 1, i - 1) \o SubSeq(s, i + 1, Len(s))
        ELSE s

\* What Reset keeps of the index: all but the run of keys under the prefix.
keysOutside(s, p) ==
    SubSeq(s, 1, Search(s, p[1]) - 1) \o SubSeq(s, Search(s, p[2] + 1), Len(s))

\* sort.Strings
Sorted(s) ==
    CHOOSE t \in [1..Len(s) -> ToSet(s)] : StrictlySorted(t) /\ ToSet(t) = ToSet(s)

Init ==
    /\ m = [k \in Keys |-> Absent]
    /\ keys = <<>>
    /\ life = [k \in Keys |-> 0]
    /\ held = [c \in Clients |-> NotRead]
    /\ snap = NoSnapshot
    /\ walk = [on |-> FALSE]

-----------------------------------------------------------------------------
\* Ghost bookkeeping of a removal: the walk may miss a key that is not there
\* all along, and a key that goes starts a new life.
Removed(gone) ==
    /\ \A k \in gone : life[k] < MaxLife
    /\ life' = [k \in Keys |-> IF k \in gone THEN life[k] + 1 ELSE life[k]]
    /\ walk' = IF walk.on THEN [walk EXCEPT !.must = @ \ gone] ELSE walk

Get(c, k) ==
    /\ held' = [held EXCEPT ![c] = [key |-> k, entry |-> m[k], life |-> life[k]]]
    /\ UNCHANGED <<m, keys, life, snap, walk>>

\* Put at the version the client read; 0 when it found nothing.
PutHeld(c, v) ==
    /\ held[c] # NotRead
    /\ LET k == held[c].key
       IN  IF PutMatches(m, k, held[c].entry.version)
           THEN /\ m[k].version < MaxVersion
                /\ m' = Put(m, k, v)
                /\ keys' = IF Holds(m, k) THEN keys ELSE insertKey(keys, k)
           ELSE UNCHANGED <<m, keys>>       \* ErrVersionMismatch
    /\ held' = [held EXCEPT ![c] = NotRead]
    /\ UNCHANGED <<life, snap, walk>>

\* Delete unconditionally, or at the version the client read.
DeleteHeld(c, ifVersion) ==
    /\ held[c] # NotRead
    /\ ifVersion \in {0, held[c].entry.version}
    /\ LET k == held[c].key
       IN  IF DeleteMatches(m, k, ifVersion)
           THEN /\ m' = Delete(m, k)
                /\ keys' = removeKey(keys, k)
                /\ Removed({k})
           ELSE UNCHANGED <<m, keys, life, walk>>  \* ErrNotFound, ErrVersionMismatch
    /\ held' = [held EXCEPT ![c] = NotRead]
    /\ UNCHANGED snap

ResetPrefix(p) ==
    /\ m' = Reset(m, {k \in Keys : HasPrefix(k, p)})
    /\ keys' = keysOutside(keys, p)
    /\ Removed({k \in Keys : HasPrefix(k, p) /\ Holds(m, k)})
    /\ UNCHANGED <<held, snap>>

TakeSnapshot ==
    /\ snap' = [m |-> m, keys |-> keys]
    /\ UNCHANGED <<m, keys, life, held, walk>>

\* Restore replaces the contents with a snapshot's entries, versions included,
\* and sorts the index it rebuilt from them.
Restore ==
    /\ snap # NoSnapshot
    /\ m' = snap.m
    /\ keys' = Sorted(snap.keys)
    /\ Removed(Keys)
    /\ UNCHANGED <<held, snap>>

StartWalk(p, limit) ==
    /\ walk' = [on |-> TRUE, prefix |-> p, limit |-> limit, paged |-> FALSE,
                token |-> p[1], returned |-> <<>>, done |-> FALSE,
                must |-> {k \in Present : HasPrefix(k, p)}]
    /\ UNCHANGED <<m, keys, life, held, snap>>

\* Mutant: a page skips a key although the one its token names is gone.
FirstIndexSkips(s, w) == IF w.paged THEN Search(s, w.token) + 1 ELSE Search(s, w.token)

\* One List call.  Without a page token the scan starts at the prefix; with
\* one it starts after the token, which is the last key of the page before.
\* It stops at the first key outside the prefix, or when the page is full and
\* a further key follows, which is the only case that returns a token.
FirstIndex(s, w) ==
    LET i == Search(s, w.token)
    IN  IF w.paged /\ i <= Len(s) /\ s[i] = w.token THEN i + 1 ELSE i

PrefixEnd(s, w) == Search(s, w.prefix[2] + 1) - 1

PageFull(s, w) ==
    w.limit > 0 /\ PrefixEnd(s, w) - FirstIndex(s, w) + 1 > w.limit

Page(s, w) ==
    SubSeq(s, FirstIndex(s, w),
           IF PageFull(s, w) THEN FirstIndex(s, w) + w.limit - 1 ELSE PrefixEnd(s, w))

ListPage ==
    /\ walk.on /\ ~walk.done
    /\ LET page == Page(keys, walk)
       IN  walk' = [walk EXCEPT
               !.returned = @ \o page,
               !.token = IF PageFull(keys, walk) THEN page[Len(page)] ELSE @,
               !.paged = IF PageFull(keys, walk) THEN TRUE ELSE @,
               !.done = ~PageFull(keys, walk)]
    /\ UNCHANGED <<m, keys, life, held, snap>>

Next ==
    \/ \E c \in Clients, k \in Keys : Get(c, k)
    \/ \E c \in Clients, v \in Values : PutHeld(c, v)
    \/ \E c \in Clients, n \in 0..MaxVersion : DeleteHeld(c, n)
    \/ \E p \in KeyPrefixes : ResetPrefix(p)
    \/ TakeSnapshot
    \/ Restore
    \/ \E p \in KeyPrefixes, n \in Limits : StartWalk(p, n)
    \/ ListPage

Spec == Init /\ [][Next]_vars

-----------------------------------------------------------------------------
Walks ==
    [on : {FALSE}] \cup
    [on : {TRUE}, prefix : KeyPrefixes, limit : Limits, paged : BOOLEAN, token : Nat,
     returned : Seq(Keys), done : BOOLEAN, must : SUBSET Keys]

\* The shapes of the store's state and of what its callers hold.
TypeOK ==
    /\ m \in [Keys -> Entries]
    /\ keys \in Seq(Keys)
    /\ life \in [Keys -> Nat]
    /\ held \in [Clients -> [key : Keys, entry : Entries, life : Nat] \cup {NotRead}]
    /\ snap \in [m : [Keys -> Entries], keys : Seq(Keys)] \cup {NoSnapshot}
    /\ walk \in Walks

IndexOf(map, s) == StrictlySorted(s) /\ ToSet(s) = {k \in Keys : Holds(map, k)}

\* The sorted index List scans names exactly the keys the map holds, in order
\* and without duplicates, whatever order Put, Delete, Reset and Restore came
\* in; List never looks at a key the index misses.
IndexMatchesMap == IndexOf(m, keys)

\* A compare-and-swap that matches replaces the very entry its caller read, as
\* long as the key was not deleted, reset or restored in between: within one
\* life of a key a version is never given to two values.
VersionNamesOneEntry ==
    \A c \in Clients :
        held[c] # NotRead =>
            LET k == held[c].key
            IN  /\ held[c].life = life[k]
                /\ held[c].entry.version = m[k].version
                => held[c].entry = m[k]

\* Paging never returns a key twice or out of order, although writers insert
\* and remove keys between the pages, and a finished walk returned every key
\* under its prefix that was there from the first page to the last: a page token
\* names a position, and stays valid when the key it names is deleted.
WalkExact ==
    walk.on => /\ StrictlySorted(walk.returned)
               /\ walk.done => walk.must \subseteq ToSet(walk.returned)
=============================================================================
