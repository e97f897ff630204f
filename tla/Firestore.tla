------------------------------ MODULE Firestore ------------------------------
(***************************************************************************)
(* Firestore's writes and transactions (services/firestore/commit.go,      *)
(* transaction.go, read.go).  A document is a counter and the time of its  *)
(* last update; what masks, transforms and queries do to fields is module  *)
(* FirestoreValues.  Commit and BatchWrite hold Service.mu; they store one *)
(* document after the other, and reads do not take the lock.  The writes   *)
(* of a batch are on different documents.                                  *)
(***************************************************************************)
EXTENDS Integers, Sequences, FiniteSets

CONSTANTS Docs,      \* document names
          Batches,   \* the batches clients commit: sequences of writes
          Lists,     \* the lists of writes clients send to BatchWrite
          NoDoc,     \* an absent document
          Committers,  \* concurrent requests
          Handles,   \* transaction handles that may be given out
          NoHandle,  \* a commit outside a transaction
          MaxOpen,   \* MaxOpenTransactions
          TTL,       \* TransactionTTL
          MaxTime,   \* bound on time
          MaxRequests  \* bound on commits and batch writes

VARIABLES docs,       \* docs[d]: [n, at], or NoDoc
          committing, \* committing[c]: what a request has still to do
          commitLock, \* the request that holds Service.mu, or NoHandle
          tx,         \* tx[h]: the state of a handle and when it was opened
          seen,       \* seen[c]: the document c read last, or NoDoc
          time,
          requests    \* commits and batch writes received

vars == <<docs, committing, commitLock, tx, seen, time, requests>>

Idle == [at |-> "idle"]

Init ==
    /\ docs = [d \in Docs |-> NoDoc]
    /\ committing = [c \in Committers |-> Idle] /\ commitLock = NoHandle
    /\ tx = [h \in Handles |-> [state |-> "new", since |-> 0]]
    /\ seen = [c \in Committers |-> NoDoc] /\ time = 0 /\ requests = 0

Value(doc) == IF doc = NoDoc THEN NoDoc ELSE doc.n

\* The writes on d the commit that holds the lock has still to apply ...
Left(d) ==
    IF commitLock # NoHandle /\ committing[commitLock].at = "apply"
    THEN {i \in committing[commitLock].i..Len(committing[commitLock].batch) :
              committing[commitLock].batch[i].doc = d}
    ELSE {}

\* ... and what the documents are once it has applied them.
Settled ==
    [d \in Docs |-> IF Left(d) = {} THEN Value(docs[d])
                    ELSE Value(committing[commitLock].staged[CHOOSE i \in Left(d) : TRUE])]

Atomic == INSTANCE AtomicDocuments WITH docs <- Settled

Goes(c, next) == committing' = [committing EXCEPT ![c] = next]
Unlocks(c) == Goes(c, Idle) /\ commitLock' = NoHandle

-----------------------------------------------------------------------------
\* checkPrecondition: the existence guards, and the update time equal to the one
\* the client read.
checkPrecondition(c, w) ==
    /\ Atomic!Allowed(w, Value(docs[w.doc]))
    /\ w.pre = "unchanged" => docs[w.doc] # NoDoc /\ seen[c] # NoDoc /\ docs[w.doc].at = seen[c].at

\* stage: the document a write produces, against what is stored now.
stage(w, now) ==
    LET n == Atomic!Result(w, Value(docs[w.doc]))
    IN IF n = NoDoc THEN NoDoc ELSE [n |-> n, at |-> now]

\* Commit and BatchWrite take the time before they take the lock.
Receive(c, batch, kind, h) ==
    /\ committing[c].at = "idle"
    /\ requests < MaxRequests
    /\ requests' = requests + 1
    /\ Goes(c, [at |-> kind, batch |-> batch, now |-> time, tx |-> h])
    /\ UNCHANGED <<docs, commitLock, tx, seen, time>>

\* closeTransaction: a handle that is not open is refused, and an open one is
\* used up whether or not the commit succeeds.
closeTransaction(h) ==
    IF h = NoHandle THEN tx ELSE [tx EXCEPT ![h].state = "closed"]

Known(h) == h = NoHandle \/ tx[h].state = "open"

\* Mutant: writes are staged as they are applied, so a failing one leaves the
\* ones before it.
CommitUnchecked(c) ==
    LET r == committing[c] IN
    /\ r.at = "commit" /\ commitLock = NoHandle
    /\ IF ~Known(r.tx)
       THEN Goes(c, Idle) /\ UNCHANGED <<commitLock, tx>>
       ELSE /\ commitLock' = c /\ tx' = closeTransaction(r.tx)
            /\ Goes(c, [at |-> "each", batch |-> r.batch, now |-> r.now, i |-> 1])
    /\ UNCHANGED <<docs, seen, time, requests>>

\* Commit stages every write before it applies any.
Commit(c) ==
    LET r == committing[c] IN
    /\ r.at = "commit" /\ commitLock = NoHandle
    /\ IF ~Known(r.tx)
       THEN Goes(c, Idle) /\ UNCHANGED <<commitLock, tx>>
       ELSE /\ tx' = closeTransaction(r.tx)
            /\ IF \A i \in DOMAIN r.batch : checkPrecondition(c, r.batch[i])
               THEN /\ commitLock' = c
                    /\ Goes(c, [at |-> "apply", batch |-> r.batch, i |-> 1,
                                staged |-> [i \in DOMAIN r.batch |-> stage(r.batch[i], r.now)]])
               ELSE Goes(c, Idle) /\ UNCHANGED commitLock
    /\ UNCHANGED <<docs, seen, time, requests>>

\* Applying or skipping one write leads to the next, or releases the lock.
Advances(c) ==
    IF committing[c].i = Len(committing[c].batch)
    THEN Unlocks(c)
    ELSE Goes(c, [committing[c] EXCEPT !.i = @ + 1]) /\ UNCHANGED commitLock

apply(c) ==
    LET r == committing[c] IN
    /\ r.at = "apply"
    /\ docs' = [docs EXCEPT ![r.batch[r.i].doc] = r.staged[r.i]]
    /\ Advances(c)
    /\ UNCHANGED <<tx, seen, time, requests>>

\* BatchWrite stages and applies its writes one by one.
BatchWrite(c) ==
    LET r == committing[c] IN
    /\ r.at = "batch" /\ commitLock = NoHandle
    /\ commitLock' = c
    /\ Goes(c, [at |-> "each", batch |-> r.batch, now |-> r.now, i |-> 1])
    /\ UNCHANGED <<docs, tx, seen, time, requests>>

BatchWriteNext(c) ==
    LET r == committing[c]  w == r.batch[r.i] IN
    /\ r.at = "each"
    /\ docs' = IF checkPrecondition(c, w) THEN [docs EXCEPT ![w.doc] = stage(w, r.now)] ELSE docs
    /\ Advances(c)
    /\ UNCHANGED <<tx, seen, time, requests>>

\* BatchGetDocuments reads a document, without the lock.
Get(c, d) ==
    /\ committing[c].at = "idle"
    /\ seen' = [seen EXCEPT ![c] = docs[d]]
    /\ UNCHANGED <<docs, committing, commitLock, tx, time, requests>>

-----------------------------------------------------------------------------
Open(t) == {h \in Handles : t[h].state = "open"}

\* Handles opened more than TTL ago are forgotten.
expireTransactions ==
    [h \in Handles |-> IF tx[h].state = "open" /\ tx[h].since < time - TTL
                       THEN [tx[h] EXCEPT !.state = "closed"] ELSE tx[h]]

BeginTransaction(h) ==
    LET kept == expireTransactions IN
    /\ commitLock = NoHandle /\ tx[h].state = "new"
    /\ tx' = IF Cardinality(Open(kept)) >= MaxOpen THEN kept
             ELSE [kept EXCEPT ![h] = [state |-> "open", since |-> time]]
    /\ UNCHANGED <<docs, committing, commitLock, seen, time, requests>>

Rollback(h) ==
    /\ commitLock = NoHandle /\ tx[h].state = "open"
    /\ tx' = [tx EXCEPT ![h].state = "closed"]
    /\ UNCHANGED <<docs, committing, commitLock, seen, time, requests>>

Tick ==
    /\ time < MaxTime
    /\ time' = time + 1
    /\ UNCHANGED <<docs, committing, commitLock, tx, seen, requests>>

Next ==
    \/ \E c \in Committers :
          \/ \E batch \in Batches, h \in Handles \cup {NoHandle} : Receive(c, batch, "commit", h)
          \/ \E list \in Lists : Receive(c, list, "batch", NoHandle)
          \/ Commit(c) \/ apply(c) \/ BatchWrite(c) \/ BatchWriteNext(c)
          \/ \E d \in Docs : Get(c, d)
    \/ \E h \in Handles : BeginTransaction(h) \/ Rollback(h)
    \/ Tick

Spec == Init /\ [][Next]_vars

-----------------------------------------------------------------------------
\* "a commit applies as a unit and one commit at a time" (transaction.go): the
\* store, read as what it is once the commit under way is through, changes by
\* whole batches whose preconditions all hold, and by single writes of BatchWrite.
Implements == Atomic!Spec
=============================================================================
