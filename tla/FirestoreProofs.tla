--------------------------- MODULE FirestoreProofs ---------------------------
(***************************************************************************)
(* For any documents, batches and number of requests: Firestore's commits, *)
(* which store one document after the other, implement the commits of      *)
(* AtomicDocuments, which change all of them in one step.                  *)
(***************************************************************************)
EXTENDS Firestore, TLAPS

\* What the proof needs of the constants: the lock's holders can be told from
\* its absence and documents from theirs, a batch or list has a write, writes
\* are on documents, and those of a batch on different ones.
Sound ==
    /\ NoHandle \notin Committers
    /\ \A n, t : [n |-> n, at |-> t] # NoDoc
    /\ \A b \in Batches \cup Lists :
          /\ DOMAIN b = 1..Len(b) /\ Len(b) \in Nat \ {0}
          /\ \A i \in DOMAIN b : b[i].doc \in Docs
    /\ \A b \in Batches : \A i, j \in DOMAIN b : b[i].doc = b[j].doc => i = j

Steps(c, at) == committing[c].at = at
InLock(c) == Steps(c, "apply") \/ Steps(c, "each")

Inv ==
    /\ docs = [d \in Docs |-> docs[d]]
    /\ committing = [c \in Committers |-> committing[c]]
    /\ commitLock \in Committers \cup {NoHandle}
    /\ \A c \in Committers :
          /\ InLock(c) <=> commitLock = c
          /\ Steps(c, "commit") \/ Steps(c, "apply") => committing[c].batch \in Batches
          /\ Steps(c, "batch") \/ Steps(c, "each") => committing[c].batch \in Lists
          /\ InLock(c) => committing[c].i \in 1..Len(committing[c].batch)

-----------------------------------------------------------------------------
LEMMA InitInv == ASSUME Sound PROVE Init => Inv
BY DEF Sound, Init, Inv, InLock, Steps, Idle

LEMMA OneMoves ==
    ASSUME Inv, NEW c \in Committers, NEW r, Goes(c, r)
    PROVE  /\ committing' = [d \in Committers |-> committing'[d]] /\ committing'[c] = r
           /\ \A d \in Committers \ {c} : committing'[d] = committing[d]
BY DEF Inv, Goes

\* A request outside the lock goes to another step outside it.
LEMMA OutsideInv ==
    ASSUME Sound, Inv, NEW c \in Committers, NEW r, Goes(c, r), ~InLock(c),
           r.at \in {"idle", "commit", "batch"},
           r.at = "commit" => r.batch \in Batches, r.at = "batch" => r.batch \in Lists,
           UNCHANGED <<docs, commitLock>>
    PROVE  Inv'
<1>1. /\ committing' = [d \in Committers |-> committing'[d]] /\ committing'[c] = r
      /\ \A d \in Committers \ {c} : committing'[d] = committing[d]
    BY OneMoves
<1> QED BY <1>1 DEF Inv, InLock, Steps

\* It takes the free lock.
LEMMA LockInv ==
    ASSUME Sound, Inv, NEW c \in Committers, NEW r, Goes(c, r), commitLock = NoHandle,
           commitLock' = c, r.i = 1,
           (r.at = "apply" /\ r.batch \in Batches) \/ (r.at = "each" /\ r.batch \in Lists),
           UNCHANGED docs
    PROVE  Inv'
<1>1. /\ committing' = [d \in Committers |-> committing'[d]] /\ committing'[c] = r
      /\ \A d \in Committers \ {c} : committing'[d] = committing[d]
    BY OneMoves
<1>2. 1 \in 1..Len(r.batch) BY DEF Sound
<1>3. \A d \in Committers : ~InLock(d) BY DEF Inv, Sound
<1> QED BY <1>1, <1>2, <1>3 DEF Inv, InLock, Steps

\* Applying or skipping a write.
LEMMA AdvanceInv ==
    ASSUME Sound, Inv, NEW c \in Committers, InLock(c), Advances(c),
           docs' = [d \in Docs |-> docs'[d]]
    PROVE  Inv'
<1>1. commitLock = c /\ committing[c].i \in 1..Len(committing[c].batch) BY DEF Inv
<1>2. Len(committing[c].batch) \in Nat BY DEF Inv, InLock, Sound
<1>3. CASE committing[c].i = Len(committing[c].batch)
  <2>1. Goes(c, Idle) /\ commitLock' = NoHandle BY <1>3 DEF Advances, Unlocks
  <2>2. /\ committing' = [d \in Committers |-> committing'[d]] /\ committing'[c] = Idle
        /\ \A d \in Committers \ {c} : committing'[d] = committing[d]
      BY <2>1, OneMoves
  <2> QED BY <1>1, <2>1, <2>2 DEF Inv, InLock, Steps, Idle, Sound
<1>4. CASE committing[c].i # Len(committing[c].batch)
  <2> DEFINE r == [committing[c] EXCEPT !.i = @ + 1]
  <2>1. Goes(c, r) /\ commitLock' = commitLock BY <1>4 DEF Advances
  <2>2. r.at = committing[c].at /\ r.batch = committing[c].batch /\ r.i = committing[c].i + 1
      BY DEF InLock, Steps
  <2> HIDE DEF r
  <2>3. /\ committing' = [d \in Committers |-> committing'[d]] /\ committing'[c] = r
        /\ \A d \in Committers \ {c} : committing'[d] = committing[d]
      BY <2>1, OneMoves
  <2>4. r.i \in 1..Len(r.batch) BY <1>1, <1>2, <1>4, <2>2
  <2> QED BY <1>1, <2>1, <2>2, <2>3, <2>4 DEF Inv, InLock, Steps
<1> QED BY <1>3, <1>4

-----------------------------------------------------------------------------
\* With no commit under way the documents are settled as they are.
Plain == [d \in Docs |-> Value(docs[d])]

LEMMA NothingLeft ==
    commitLock = NoHandle \/ committing[commitLock].at # "apply" => Settled = Plain
BY DEF Settled, Plain, Left

\* A document with a write left is settled as that write makes it, any other as
\* it is.
Lefts ==
    \A c \in Committers : Steps(c, "apply") =>
        LET left == committing[c].i..Len(committing[c].batch) IN
        /\ \A i \in left :
              Settled[committing[c].batch[i].doc] = Value(committing[c].staged[i])
        /\ \A d \in Docs : (\A i \in left : committing[c].batch[i].doc # d) =>
              Settled[d] = Value(docs[d])

LEMMA LeftsHold == Sound /\ Inv => Lefts
<1> SUFFICES ASSUME Sound, Inv, NEW c \in Committers, Steps(c, "apply")
             PROVE  LET left == committing[c].i..Len(committing[c].batch) IN
                    /\ \A i \in left :
                          Settled[committing[c].batch[i].doc] = Value(committing[c].staged[i])
                    /\ \A d \in Docs : (\A i \in left : committing[c].batch[i].doc # d) =>
                          Settled[d] = Value(docs[d])
    BY DEF Lefts
<1> DEFINE batch == committing[c].batch
           left == committing[c].i..Len(batch)
<1>1. commitLock = c /\ c # NoHandle BY DEF Inv, InLock, Sound
<1>2. batch \in Batches /\ committing[c].i \in 1..Len(batch) BY DEF Inv, InLock
<1>3. Len(batch) \in Nat /\ DOMAIN batch = 1..Len(batch) BY <1>2 DEF Sound
<1>4. left \subseteq DOMAIN batch BY <1>2, <1>3
<1>5. ASSUME NEW i \in left PROVE Settled[batch[i].doc] = Value(committing[c].staged[i])
  <2>1. \A j \in left : batch[j].doc = batch[i].doc => j = i BY <1>2, <1>4 DEF Sound
  <2>2. Left(batch[i].doc) = {i} BY <1>1, <2>1 DEF Left, Steps
  <2>3. (CHOOSE j \in {i} : TRUE) = i OBVIOUS
  <2>4. batch[i].doc \in Docs BY <1>2, <1>4 DEF Sound
  <2> QED BY <1>1, <2>2, <2>3, <2>4 DEF Settled
<1>6. ASSUME NEW d \in Docs, \A i \in left : batch[i].doc # d PROVE Settled[d] = Value(docs[d])
  <2>1. Left(d) = {} BY <1>1, <1>6 DEF Left
  <2> QED BY <2>1 DEF Settled
<1> QED BY <1>5, <1>6

LEMMA StageValue ==
    ASSUME Sound, NEW w, NEW now
    PROVE  Value(stage(w, now)) = Atomic!Result(w, Value(docs[w.doc]))
<1> DEFINE n == Atomic!Result(w, Value(docs[w.doc]))
<1> HIDE DEF n
<1>1. stage(w, now) = IF n = NoDoc THEN NoDoc ELSE [n |-> n, at |-> now] BY DEF stage, n
<1>2. [n |-> n, at |-> now] # NoDoc BY DEF Sound
<1>3. Value(stage(w, now)) = n BY <1>1, <1>2 DEF Value
<1> QED BY <1>3 DEF n

-----------------------------------------------------------------------------
\* Where nothing is stored and the lock's holder stays where it is, nothing is
\* settled otherwise than before.
LEMMA Stutters ==
    ASSUME UNCHANGED <<docs, commitLock>>,
           commitLock = NoHandle \/ committing'[commitLock] = committing[commitLock]
    PROVE  Settled' = Settled
<1>1. ASSUME NEW d \in Docs PROVE Left(d)' = Left(d) BY DEF Left
<1>2. ASSUME NEW d \in Docs PROVE Settled'[d] = Settled[d]
  <2>1. CASE Left(d) = {} BY <1>1, <2>1 DEF Settled
  <2>2. CASE Left(d) # {}
    <3>1. commitLock # NoHandle BY <2>2 DEF Left
    <3>2. (CHOOSE i \in Left(d)' : TRUE) = (CHOOSE i \in Left(d) : TRUE) BY <1>1, Zenon
    <3> DEFINE k == CHOOSE i \in Left(d) : TRUE
    <3>3. Settled[d] = Value(committing[commitLock].staged[k]) BY <2>2 DEF Settled
    <3>4. Settled'[d] = Value(committing'[commitLock'].staged[CHOOSE i \in Left(d)' : TRUE])
        BY <1>1, <2>2 DEF Settled
    <3> QED BY <3>1, <3>2, <3>3, <3>4
  <2> QED BY <2>1, <2>2
<1> QED BY <1>2 DEF Settled

\* Commit is the step at which the whole batch happens.
LEMMA CommitStep ==
    ASSUME Sound, Inv, NEW c \in Committers, Commit(c) PROVE Inv' /\ [Atomic!Next]_Settled
<1> DEFINE r == committing[c]
           batch == r.batch
           staged == [i \in DOMAIN batch |-> stage(batch[i], r.now)]
           next == [at |-> "apply", batch |-> batch, i |-> 1, staged |-> staged]
<1>0. /\ Steps(c, "commit") /\ commitLock = NoHandle /\ UNCHANGED docs /\ batch \in Batches /\ ~InLock(c)
      /\ c # NoHandle
    BY DEF Commit, Inv, Steps, InLock, Sound
<1>1. CASE Goes(c, Idle) /\ UNCHANGED commitLock
  <2>1. Inv' BY <1>0, <1>1, OutsideInv DEF Idle
  <2>2. Settled' = Settled BY <1>0, <1>1, Stutters
  <2> QED BY <2>1, <2>2
<1>2. CASE /\ \A i \in DOMAIN batch : checkPrecondition(c, batch[i])
           /\ commitLock' = c /\ Goes(c, next)
  <2> HIDE DEF next, staged
  <2>n. next.at = "apply" /\ next.batch = batch /\ next.i = 1 /\ next.staged = staged BY DEF next
  <2>1. Inv' BY <1>0, <1>2, <2>n, LockInv
  <2>2. committing'[c] = next BY <1>2, OneMoves
  <2>3. Settled = Plain BY <1>0, NothingLeft
  <2>4. DOMAIN batch = 1..Len(batch) /\ \A i \in DOMAIN batch : batch[i].doc \in Docs BY <1>0 DEF Sound
  <2>5. \A i \in DOMAIN batch : Atomic!Allowed(batch[i], Settled[batch[i].doc])
      BY <1>2, <2>3, <2>4 DEF checkPrecondition, Plain
  <2>6. Lefts' BY <2>1, LeftsHold, PTL
  <2>7. /\ \A i \in DOMAIN batch : Settled'[batch[i].doc] = Value(staged[i])
        /\ \A d \in Docs : (\A i \in DOMAIN batch : batch[i].doc # d) => Settled'[d] = Value(docs[d])
      BY <1>0, <2>n, <2>2, <2>4, <2>6 DEF Lefts, Steps
  <2>8. ASSUME NEW d \in Docs PROVE Settled'[d] = Atomic!Applied(batch, Settled)[d]
    <3>1. CASE \E i \in DOMAIN batch : batch[i].doc = d
      <4> DEFINE k == CHOOSE i \in DOMAIN batch : batch[i].doc = d
      <4>1. k \in DOMAIN batch /\ batch[k].doc = d BY <3>1
      <4>2. Atomic!Applied(batch, Settled)[d] = Atomic!Result(batch[k], Settled[d])
          BY <3>1 DEF Atomic!Applied
      <4> HIDE DEF k
      <4>3. Settled'[d] = Value(staged[k]) BY <2>7, <4>1
      <4>4. Value(staged[k]) = Atomic!Result(batch[k], Value(docs[batch[k].doc]))
          BY <4>1, StageValue DEF staged
      <4> QED BY <2>3, <4>1, <4>2, <4>3, <4>4 DEF Plain
    <3>2. CASE \A i \in DOMAIN batch : batch[i].doc # d
      <4>1. Atomic!Applied(batch, Settled)[d] = Settled[d] BY <3>2 DEF Atomic!Applied
      <4> QED BY <2>3, <2>7, <3>2, <4>1 DEF Plain
    <3> QED BY <3>1, <3>2
  <2>9. Settled' = Atomic!Applied(batch, Settled)
    <3>1. Settled' = [d \in Docs |-> Settled'[d]] BY DEF Settled
    <3>2. Atomic!Applied(batch, Settled) = [d \in Docs |-> Atomic!Applied(batch, Settled)[d]]
        BY DEF Atomic!Applied
    <3> QED BY <2>8, <3>1, <3>2
  <2>10. Atomic!CommitAll(batch) BY <2>5, <2>9 DEF Atomic!CommitAll
  <2> QED BY <1>0, <2>1, <2>10 DEF Atomic!Next
<1> QED BY <1>1, <1>2 DEF Commit

\* Each write of a commit is stored as it was settled to be.
LEMMA ApplyStep ==
    ASSUME Sound, Inv, NEW c \in Committers, apply(c) PROVE Inv' /\ UNCHANGED Settled
<1> DEFINE r == committing[c]
           batch == r.batch
           e == batch[r.i].doc
<1>1. /\ Steps(c, "apply") /\ InLock(c) /\ Advances(c) /\ docs' = [docs EXCEPT ![e] = r.staged[r.i]]
    BY DEF apply, Steps, InLock
<1>2. /\ batch \in Batches /\ r.i \in 1..Len(batch) /\ commitLock = c /\ c # NoHandle
    BY <1>1 DEF Inv, Sound
<1>3. Len(batch) \in Nat /\ DOMAIN batch = 1..Len(batch) /\ e \in Docs BY <1>2 DEF Sound
<1>4. docs'[e] = r.staged[r.i] /\ (\A d \in Docs \ {e} : docs'[d] = docs[d])
      /\ docs' = [d \in Docs |-> docs'[d]]
    BY <1>1, <1>3 DEF Inv
<1>5. Inv' BY <1>1, <1>4, AdvanceInv
<1>6. Lefts BY LeftsHold
<1>7. /\ \A i \in r.i..Len(batch) : Settled[batch[i].doc] = Value(r.staged[i])
      /\ \A d \in Docs : (\A i \in r.i..Len(batch) : batch[i].doc # d) => Settled[d] = Value(docs[d])
    BY <1>1, <1>6 DEF Lefts
<1>8. Settled[e] = Value(docs'[e]) BY <1>2, <1>3, <1>4, <1>7
<1>9. ASSUME NEW d \in Docs PROVE Settled'[d] = Settled[d]
  <2>1. CASE r.i = Len(batch)
    <3>1. commitLock' = NoHandle BY <1>1, <2>1 DEF Advances, Unlocks
    <3>2. Settled'[d] = Value(docs'[d]) BY <3>1 DEF Settled, Left
    <3>3. d # e => Settled[d] = Value(docs[d]) BY <1>2, <1>3, <1>7, <2>1
    <3> QED BY <1>4, <1>8, <3>2, <3>3
  <2>2. CASE r.i # Len(batch)
    <3> DEFINE next == [committing[c] EXCEPT !.i = @ + 1]
    <3>n. /\ next.at = "apply" /\ next.batch = batch /\ next.i = r.i + 1 /\ next.staged = r.staged
        BY <1>1 DEF Steps
    <3>1. Goes(c, next) BY <1>1, <2>2 DEF Advances
    <3> HIDE DEF next
    <3>2. /\ committing'[c].at = "apply" /\ committing'[c].batch = batch
          /\ committing'[c].i = r.i + 1 /\ committing'[c].staged = r.staged
        BY <3>n, <3>1, OneMoves
    <3>3. Lefts' BY <1>5, LeftsHold, PTL
    <3>4. /\ \A i \in (r.i + 1)..Len(batch) : Settled'[batch[i].doc] = Value(r.staged[i])
          /\ (\A i \in (r.i + 1)..Len(batch) : batch[i].doc # d) => Settled'[d] = Value(docs'[d])
        BY <3>2, <3>3 DEF Lefts, Steps
    <3>5. CASE \E i \in (r.i + 1)..Len(batch) : batch[i].doc = d
        BY <1>2, <1>3, <1>7, <3>4, <3>5
    <3>6. CASE \A i \in (r.i + 1)..Len(batch) : batch[i].doc # d
      <4>1. d # e => \A i \in r.i..Len(batch) : batch[i].doc # d BY <1>2, <1>3, <3>6
      <4> QED BY <1>4, <1>7, <1>8, <3>4, <3>6, <4>1
    <3> QED BY <3>5, <3>6
  <2> QED BY <2>1, <2>2
<1>10. Settled' = Settled BY <1>9 DEF Settled
<1> QED BY <1>5, <1>10

\* Each write of a BatchWrite happens as it is stored, or is refused.
LEMMA BatchStep ==
    ASSUME Sound, Inv, NEW c \in Committers, BatchWriteNext(c) PROVE Inv' /\ [Atomic!Next]_Settled
<1> DEFINE r == committing[c]
           w == r.batch[r.i]
<1>1. /\ Steps(c, "each") /\ InLock(c) /\ Advances(c)
      /\ docs' = IF checkPrecondition(c, w) THEN [docs EXCEPT ![w.doc] = stage(w, r.now)] ELSE docs
    BY DEF BatchWriteNext, Steps, InLock
<1>2. r.batch \in Lists /\ r.i \in DOMAIN r.batch /\ w.doc \in Docs /\ commitLock = c
    BY <1>1 DEF Inv, Sound
<1>3. docs' = [d \in Docs |-> docs'[d]] BY <1>1, <1>2 DEF Inv
<1>4. Inv' BY <1>1, <1>3, AdvanceInv
<1>5. Settled = Plain BY <1>1, <1>2, NothingLeft DEF Steps
<1>6. commitLock' = NoHandle \/ (commitLock' = c /\ committing'[c].at = "each")
  <2> DEFINE next == [committing[c] EXCEPT !.i = @ + 1]
  <2>1. next.at = "each" BY <1>1 DEF Steps
  <2>2. commitLock' = NoHandle \/ (Goes(c, next) /\ commitLock' = commitLock)
      BY <1>1 DEF Advances, Unlocks
  <2> HIDE DEF next
  <2> QED BY <1>2, <2>1, <2>2, OneMoves
<1>7. Settled' = Plain' BY <1>6 DEF Settled, Plain, Left
<1>8. CASE checkPrecondition(c, w)
  <2>1. Atomic!Allowed(w, Settled[w.doc]) BY <1>2, <1>5, <1>8 DEF checkPrecondition, Plain
  <2>2. docs' = [docs EXCEPT ![w.doc] = stage(w, r.now)] BY <1>1, <1>8
  <2>3. ASSUME NEW d \in Docs
        PROVE  Plain'[d] = [Plain EXCEPT ![w.doc] = Atomic!Result(w, Plain[w.doc])][d]
    <3>1. CASE d = w.doc
      <4>1. Plain'[d] = Value(stage(w, r.now)) BY <1>2, <2>2, <3>1 DEF Plain, Inv
      <4>2. Plain'[d] = Atomic!Result(w, Value(docs[w.doc])) BY <4>1, StageValue
      <4>3. Value(docs[w.doc]) = Plain[w.doc] BY <1>2 DEF Plain
      <4>4. Plain = [x \in Docs |-> Plain[x]] BY DEF Plain
      <4> HIDE DEF w
      <4> QED BY <1>2, <3>1, <4>2, <4>3, <4>4
    <3>2. CASE d # w.doc
      <4>1. Plain'[d] = Plain[d] BY <1>2, <2>2, <3>2 DEF Plain, Inv
      <4>2. Plain = [x \in Docs |-> Plain[x]] BY DEF Plain
      <4> HIDE DEF w
      <4> QED BY <3>2, <4>1, <4>2
    <3> QED BY <3>1, <3>2
  <2>4. Plain' = [Plain EXCEPT ![w.doc] = Atomic!Result(w, Plain[w.doc])] BY <2>3 DEF Plain
  <2>5. Atomic!WriteOne(w) BY <1>5, <1>7, <2>1, <2>4 DEF Atomic!WriteOne
  <2> QED BY <1>2, <1>4, <2>5 DEF Atomic!Next
<1>9. CASE ~checkPrecondition(c, w)
  <2>1. Plain' = Plain BY <1>1, <1>9 DEF Plain
  <2> QED BY <1>4, <1>5, <1>7, <2>1
<1> QED BY <1>8, <1>9

\* A request arrives, and a BatchWrite takes the lock.
LEMMA ReceiveStep ==
    ASSUME Sound, Inv, NEW c \in Committers,
           \/ \E batch \in Batches, h \in Handles \cup {NoHandle} : Receive(c, batch, "commit", h)
           \/ \E list \in Lists : Receive(c, list, "batch", NoHandle)
    PROVE  Inv' /\ UNCHANGED Settled
<1>1. PICK r : /\ Goes(c, r) /\ r.at \in {"commit", "batch"}
               /\ (r.at = "commit" => r.batch \in Batches) /\ (r.at = "batch" => r.batch \in Lists)
               /\ committing[c].at = "idle" /\ UNCHANGED <<docs, commitLock>>
    BY DEF Receive
<1>2. ~InLock(c) BY <1>1 DEF InLock, Steps
<1>3. Inv' BY <1>1, <1>2, OutsideInv
<1>4. commitLock = NoHandle \/ committing'[commitLock] = committing[commitLock]
    BY <1>1, <1>2, OneMoves DEF Inv
<1> QED BY <1>1, <1>3, <1>4, Stutters

LEMMA BatchWriteStep ==
    ASSUME Sound, Inv, NEW c \in Committers, BatchWrite(c) PROVE Inv' /\ UNCHANGED Settled
<1> DEFINE next == [at |-> "each", batch |-> committing[c].batch, now |-> committing[c].now, i |-> 1]
<1>1. /\ Steps(c, "batch") /\ commitLock = NoHandle /\ commitLock' = c /\ Goes(c, next) /\ UNCHANGED docs
    BY DEF BatchWrite, Steps
<1>2. next.at = "each" /\ next.batch \in Lists /\ next.i = 1 BY <1>1 DEF Inv
<1> HIDE DEF next
<1>3. Inv' BY <1>1, <1>2, LockInv
<1>4. committing'[c].at # "apply" BY <1>1, <1>2, OneMoves
<1>5. Settled = Plain BY <1>1, NothingLeft
<1>6. Settled' = Plain' BY <1>1, <1>4 DEF Settled, Plain, Left
<1>7. Plain' = Plain BY <1>1 DEF Plain
<1> QED BY <1>3, <1>5, <1>6, <1>7

\* Every step keeps the invariant, and is a step of the atomic documents or none.
LEMMA NextStep == ASSUME Sound, Inv, [Next]_vars PROVE Inv' /\ [Atomic!Next]_Settled
<1>1. CASE UNCHANGED <<docs, committing, commitLock>>
  <2>1. Inv' BY <1>1 DEF Inv, InLock, Steps
  <2>2. Settled' = Settled BY <1>1, Stutters
  <2> QED BY <2>1, <2>2
<1>2. CASE UNCHANGED vars BY <1>1, <1>2 DEF vars
<1>3. CASE \/ \E c \in Committers : \E d \in Docs : Get(c, d)
           \/ \E h \in Handles : BeginTransaction(h) \/ Rollback(h)
           \/ Tick
    BY <1>1, <1>3 DEF Get, BeginTransaction, Rollback, Tick
<1> QED BY <1>2, <1>3, CommitStep, ApplyStep, BatchStep, ReceiveStep, BatchWriteStep DEF Next

\* Commits that store one document after the other, under a lock reads do not
\* take, implement commits that happen in one step (commit.go Commit, apply and
\* BatchWrite).
THEOREM CommitsAreAtomic == ASSUME Sound PROVE Spec => Implements
<1>1. Init => Inv /\ Atomic!Init
  <2>1. Init => Settled = Plain BY NothingLeft DEF Init
  <2>2. Init => Plain = [d \in Docs |-> NoDoc] BY DEF Init, Plain, Value
  <2> QED BY <2>1, <2>2, InitInv DEF Atomic!Init
<1>2. Inv /\ [Next]_vars => Inv' /\ [Atomic!Next]_Settled BY NextStep
<1> QED BY <1>1, <1>2, PTL DEF Spec, Implements, Atomic!Spec
=============================================================================
