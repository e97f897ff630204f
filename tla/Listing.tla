------------------------------- MODULE Listing -------------------------------
(***************************************************************************)
(* A client that lists a bucket page by page (services/storage/list.go)    *)
(* while others create, overwrite and delete objects.  A page is put       *)
(* together from chunks of live pointers; each pointer is then resolved in *)
(* a read of its own, so the bucket changes between the two.  A name is a  *)
(* sequence of characters.                                                 *)
(***************************************************************************)
EXTENDS Integers, Sequences, FiniteSets, SequencesExt, FiniteSetsExt

CONSTANTS ObjectNames,   \* the names objects may have
          Prefix,        \* the prefix the client lists
          Delimiter,     \* the character names are rolled up at
          PageSizes,     \* the maxResults clients ask for
          ScanChunk,     \* scanChunk, 512 in the code
          MaxChanges     \* bound on changes to the bucket

VARIABLES pointer,   \* pointer[n]: the generation the live pointer of n names, 0 for none
          page,      \* the listing request under way
          counts,    \* counts[n]: times the client was given object n
          rolled,    \* the rollups the client was given
          steady,    \* ghost: objects unchanged since the listing began
          changes

vars == <<pointer, page, counts, rolled, steady, changes>>

\* Key order: the first character that differs decides, a prefix is first.
Precedes(a, b) ==
    LET differ == {i \in 1..Min({Len(a), Len(b)}) : a[i] # b[i]}
    IN IF differ = {} THEN Len(a) < Len(b) ELSE a[Min(differ)] < b[Min(differ)]

Start == << >>    \* the empty page token; no object has an empty name
NewPage(token, limit) ==
    [at |-> "scan", token |-> token, limit |-> limit, entries |-> << >>,
     exhausted |-> FALSE, held |-> 0, seen |-> {}]

Init ==
    /\ pointer \in [ObjectNames -> {0, 1}]
    /\ page \in {NewPage(Start, limit) : limit \in PageSizes}
    /\ counts = [n \in ObjectNames |-> 0] /\ rolled = {}
    /\ steady = {n \in ObjectNames : pointer[n] # 0} /\ changes = 0

-----------------------------------------------------------------------------
\* Only the part of a name after the prefix is rolled up.  << >> is no rollup.
rollupOf(name) ==
    LET cuts == {i \in Len(Prefix) + 1..Len(name) : name[i] = Delimiter}
    IN IF cuts = {} THEN << >> ELSE SubSeq(name, 1, Min(cuts))

\* kv.List: the keys after the token, as many as a chunk holds, in order.
ListChunk ==
    LET rest == SetToSortSeq({n \in ObjectNames : /\ pointer[n] # 0 /\ IsPrefix(Prefix, n)
                                                  /\ Precedes(page.token, n)}, Precedes)
        chunk == SubSeq(rest, 1, Min({Len(rest), ScanChunk}))
        more == Len(rest) > ScanChunk
    IN /\ page.at = "scan"
       /\ page' = IF page.exhausted
                  THEN [page EXCEPT !.at = "last page"]
                  ELSE [page EXCEPT !.entries = [i \in DOMAIN chunk |-> [name |-> chunk[i], gen |-> pointer[chunk[i]]]],
                                    !.at = "entries", !.exhausted = ~more,
                                    !.token = IF more THEN Last(chunk) ELSE Start]
       /\ UNCHANGED <<pointer, counts, rolled, steady, changes>>

Entry == Head(page.entries)

\* What follows an entry: the page is full and its token names the entry, or the
\* next entry, or the next chunk.
\* Mutant: the token of the store's page is handed on.
AfterEntryStoreToken(grown, seen) ==
    LET held == page.held + grown
        read == [page EXCEPT !.held = held, !.seen = seen, !.entries = Tail(page.entries)]
    IN page' = IF grown = 1 /\ held >= page.limit THEN [read EXCEPT !.at = "page"] ELSE read

AfterEntry(grown, seen) ==
    LET held == page.held + grown
        read == [page EXCEPT !.held = held, !.seen = seen, !.entries = Tail(page.entries)]
    IN page' = IF grown = 1 /\ held >= page.limit
               THEN [read EXCEPT !.at = "page", !.token = Entry.name]
               ELSE read

EntriesDone ==
    /\ page.at = "entries" /\ page.entries = << >>
    /\ page' = [page EXCEPT !.at = "scan"]
    /\ UNCHANGED <<pointer, counts, rolled, steady, changes>>

\* A name that rolls up is given once a page, and costs no read.
TakeRollup ==
    LET rollup == rollupOf(Entry.name) IN
    /\ page.at = "entries" /\ page.entries # << >> /\ rollup # << >>
    /\ rolled' = rolled \cup {rollup}
    /\ AfterEntry(IF rollup \in page.seen THEN 0 ELSE 1, page.seen \cup {rollup})
    /\ UNCHANGED <<pointer, counts, steady, changes>>

\* objectFor: a generation that was superseded or deleted since is skipped.
TakeObject ==
    /\ page.at = "entries" /\ page.entries # << >> /\ rollupOf(Entry.name) = << >>
    /\ IF pointer[Entry.name] = Entry.gen
       THEN counts' = [counts EXCEPT ![Entry.name] = @ + 1] /\ AfterEntry(1, page.seen)
       ELSE UNCHANGED counts /\ AfterEntry(0, page.seen)
    /\ UNCHANGED <<pointer, rolled, steady, changes>>

\* The client asks for the page the token names.
NextPage ==
    /\ page.at = "page"
    /\ page' = NewPage(page.token, page.limit)
    /\ UNCHANGED <<pointer, counts, rolled, steady, changes>>

\* Another client writes or deletes an object.
Change(n) ==
    /\ changes < MaxChanges /\ page.at # "last page"
    /\ changes' = changes + 1
    /\ \/ pointer' = [pointer EXCEPT ![n] = changes + 2]
       \/ pointer[n] # 0 /\ pointer' = [pointer EXCEPT ![n] = 0]
    /\ steady' = steady \ {n}
    /\ UNCHANGED <<page, counts, rolled>>

Next ==
    \/ ListChunk \/ EntriesDone \/ TakeRollup \/ TakeObject \/ NextPage
    \/ \E n \in ObjectNames : Change(n)

Spec == Init /\ [][Next]_vars

-----------------------------------------------------------------------------
\* Paging to the end gives every object that was left alone exactly once, or
\* its rollup, whatever else happened to the bucket between the pages, and no
\* object twice; no page holds more than maxResults objects and rollups.
ListingComplete ==
    /\ page.held <= page.limit
    /\ \A n \in ObjectNames : counts[n] <= 1
    /\ page.at = "last page" =>
         \A n \in steady : IsPrefix(Prefix, n) =>
            IF rollupOf(n) = << >> THEN counts[n] = 1 ELSE rollupOf(n) \in rolled
=============================================================================
