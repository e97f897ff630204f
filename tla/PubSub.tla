------------------------------- MODULE PubSub -------------------------------
(***************************************************************************)
(* Cloud Pub/Sub (services/pubsub): topics and subscriptions in the store, *)
(* and in memory, under one mutex, each subscription's backlog and its     *)
(* leases.  A lease is a delivered message with a timer that takes it      *)
(* back.  Requests read the store before they take the mutex, timers fire  *)
(* before their callback gets it, and streams sleep on a channel of their  *)
(* own: those are the places where steps interleave.                       *)
(*                                                                         *)
(* A message is its id.  A request that carries several messages or ack    *)
(* ids is as many requests here.                                           *)
(***************************************************************************)
EXTENDS Integers, Sequences, FiniteSets

CONSTANTS Topics, Subs,
          Procs,          \* unary requests in flight at once
          Streams,        \* streaming pulls
          Mixes,          \* sets of what clients do besides publishing, pulling and settling
          AckDeadline,    \* deadlineOf, the same for every subscription
          Extensions,     \* deadlines ModifyAckDeadline asks for
          MaxMessages, MaxDeliveries, MaxNow,  \* bounds on seq, deliveries and the clock
          None            \* no topic, no snapshot

ASSUME PubSubInputs ==
    /\ Mixes \subseteq SUBSET {"stream", "delete", "snapshot"}
    /\ AckDeadline \in Nat \ {0} /\ Extensions \subseteq Nat \ {0}
    /\ {MaxMessages, MaxDeliveries, MaxNow} \subseteq Nat
    /\ None \notin Topics

VARIABLES mix,         \* what clients do in this behaviour
          topics,      \* stored topics
          subs,        \* subs[s]: the topic stored with s, or None
          backlog,     \* backlog[s]: message ids waiting
          outstanding, \* outstanding[s]: leases by ack id
          timers,      \* ack deadline timers the clock holds
          firing,      \* expire callbacks that wait for the mutex
          seq, deliveries,
          stream,      \* stream[c]: a streaming pull and its wake-up channel
          req,         \* req[p]: what a request read before it takes the mutex
          snap,        \* the last snapshot written
          now,
          owed,        \* ghost: owed[s]: published to s and not acknowledged
          given        \* ghost: ack ids ever handed out

mailbox == <<backlog, outstanding, timers, firing>>
stored == <<topics, subs>>
ghosts == <<owed, given>>
vars == <<mix, topics, subs, backlog, outstanding, timers, firing, seq, deliveries,
          stream, req, snap, now, owed, given>>

Messages == 1..MaxMessages
AckIDs == Messages \X (1..MaxDeliveries)
EmptyMap == [a \in {} |-> 0]
Idle == [at |-> "idle", sub |-> None, topic |-> None, subs |-> {}]

Closed == [at |-> "closed", sub |-> None, token |-> FALSE]

ToSet(s) == {s[i] : i \in DOMAIN s}
Without(f, S) == [a \in DOMAIN f \ S |-> f[a]]
Leased(s) == {outstanding[s][a].msg : a \in DOMAIN outstanding[s]}
Held(s) == ToSet(backlog[s]) \cup Leased(s)

Init ==
    /\ mix \in Mixes
    /\ topics = {} /\ subs = [s \in Subs |-> None]
    /\ backlog = [s \in Subs |-> <<>>]
    /\ outstanding = [s \in Subs |-> EmptyMap]
    /\ timers = {} /\ firing = {}
    /\ seq = 0 /\ deliveries = 0
    /\ stream = [c \in Streams |-> Closed]
    /\ req = [p \in Procs |-> Idle]
    /\ snap = None
    /\ now = 0
    /\ owed = [s \in Subs |-> {}] /\ given = {}

-----------------------------------------------------------------------------
At(p, step) == req[p].at = step
Goes(p, r) == req' = [req EXCEPT ![p] = r]
Ends(p) == Goes(p, Idle)

\* One buffered token per stream: a signal means "look again".  S is the set of
\* subscriptions signalled.
signal(S) ==
    stream' = [c \in Streams |->
                 IF stream[c].sub \in S THEN [stream[c] EXCEPT !.token = TRUE] ELSE stream[c]]

CreateTopic(t) ==
    /\ t \notin topics
    /\ topics' = topics \cup {t}
    /\ UNCHANGED <<subs, mailbox, seq, deliveries, stream, req, snap, now, ghosts>>

DeleteTopic(t) ==
    /\ t \in topics
    /\ topics' = topics \ {t}
    /\ UNCHANGED <<subs, mailbox, seq, deliveries, stream, req, snap, now, ghosts>>

\* Publish and CreateSubscription begin with the topic.
GetTopic(p, t, r) ==
    /\ At(p, "idle")
    /\ t \in topics
    /\ Goes(p, r)
    /\ UNCHANGED <<stored, mailbox, seq, deliveries, stream, snap, now, ghosts>>

BeginPublish(p, t) == GetTopic(p, t, [Idle EXCEPT !.at = "list", !.topic = t])
BeginCreate(p, s, t) ==
    GetTopic(p, t, [Idle EXCEPT !.at = "create", !.topic = t, !.sub = s])

subscriptionsFor(p) ==
    /\ At(p, "list")
    /\ Goes(p, [req[p] EXCEPT !.at = "publish", !.subs = {s \in Subs : subs[s] = req[p].topic}])
    /\ UNCHANGED <<stored, mailbox, seq, deliveries, stream, snap, now, ghosts>>

Fans(p, m) ==
    /\ seq' = m
    /\ backlog' = [s \in Subs |-> IF s \in req[p].subs THEN Append(backlog[s], m) ELSE backlog[s]]
    /\ owed' = [s \in Subs |-> IF s \in req[p].subs THEN owed[s] \cup {m} ELSE owed[s]]

\* Mutant: a subscription's streams are not told.
PublishUnsignalled(p) ==
    /\ At(p, "publish") /\ seq < MaxMessages
    /\ Fans(p, seq + 1)
    /\ Ends(p)
    /\ UNCHANGED <<stored, outstanding, timers, firing, deliveries, stream, snap, now, given>>

Publish(p) ==
    /\ At(p, "publish") /\ seq < MaxMessages
    /\ Fans(p, seq + 1)
    /\ signal(req[p].subs)
    /\ Ends(p)
    /\ UNCHANGED <<stored, outstanding, timers, firing, deliveries, snap, now, given>>

\* Put at version 0: a subscription that exists stays as it is.
CreateSubscription(p) ==
    /\ At(p, "create")
    /\ subs' = [subs EXCEPT ![req[p].sub] = IF @ = None THEN req[p].topic ELSE @]
    /\ Ends(p)
    /\ UNCHANGED <<topics, mailbox, seq, deliveries, stream, snap, now, ghosts>>

\* The store first, the mailbox afterwards.  Timers of dropped leases run on.
DeleteSubscription(p, s) ==
    /\ "delete" \in mix /\ At(p, "idle") /\ subs[s] # None
    /\ subs' = [subs EXCEPT ![s] = None]
    /\ owed' = [owed EXCEPT ![s] = {}]
    /\ Goes(p, [Idle EXCEPT !.at = "drop", !.sub = s])
    /\ UNCHANGED <<topics, mailbox, seq, deliveries, stream, snap, now, given>>

DropMailbox(p) ==
    /\ At(p, "drop")
    /\ backlog' = [backlog EXCEPT ![req[p].sub] = <<>>]
    /\ outstanding' = [outstanding EXCEPT ![req[p].sub] = EmptyMap]
    /\ Ends(p)
    /\ UNCHANGED <<stored, timers, firing, seq, deliveries, stream, snap, now, ghosts>>

-----------------------------------------------------------------------------
Lease(m, at) == [msg |-> m, at |-> at]
TimerOf(s, a, at) == [sub |-> s, ack |-> a, at |-> at]

\* n messages off the front of the backlog, each under a new ack id.
take(s, n, deadline) ==
    LET taken == SubSeq(backlog[s], 1, n)
        ack(i) == <<taken[i], deliveries + i>>
        acks == {ack(i) : i \in 1..n}
    IN /\ n \in 1..(MaxDeliveries - deliveries) /\ now + deadline <= MaxNow
       /\ backlog' = [backlog EXCEPT ![s] = SubSeq(@, n + 1, Len(@))]
       /\ outstanding' = [outstanding EXCEPT ![s] =
            [a \in DOMAIN @ \cup acks |-> IF a \in acks THEN Lease(a[1], now + deadline) ELSE @[a]]]
       /\ timers' = timers \cup {TimerOf(s, a, now + deadline) : a \in acks}
       /\ deliveries' = deliveries + n
       /\ given' = given \cup acks

BeginPull(p, s) ==
    /\ At(p, "idle") /\ subs[s] # None
    /\ Goes(p, [Idle EXCEPT !.at = "take", !.sub = s])
    /\ UNCHANGED <<stored, mailbox, seq, deliveries, stream, snap, now, ghosts>>

\* The client asks for one message, or for as many as there are.
Pull(p) ==
    LET s == req[p].sub IN
    /\ At(p, "take")
    /\ IF backlog[s] = <<>>
       THEN UNCHANGED <<backlog, outstanding, timers, deliveries, given>>
       ELSE \E n \in {1, Len(backlog[s])} : take(s, n, AckDeadline)
    /\ Ends(p)
    /\ UNCHANGED <<stored, firing, seq, stream, snap, now, owed>>

-----------------------------------------------------------------------------
Armed(s, a) == TimerOf(s, a, outstanding[s][a].at) \in timers
StopTimer(s, a) == timers' = timers \ {TimerOf(s, a, outstanding[s][a].at)}

\* The lease ends and its message goes to the front of the backlog.
Returns(s, a, queue) ==
    /\ a \in DOMAIN outstanding[s]
    /\ StopTimer(s, a)
    /\ outstanding' = [outstanding EXCEPT ![s] = Without(@, {a})]
    /\ backlog' = [backlog EXCEPT ![s] = queue]
    /\ signal({s})

\* Mutant: the message is forgotten.
redeliverForgets(s, a) == Returns(s, a, backlog[s])

redeliver(s, a) == Returns(s, a, <<outstanding[s][a].msg>> \o backlog[s])

\* The clock fires a timer: from here on Stop reports false.
TimerFires(t) ==
    /\ t \in timers /\ t.at <= now
    /\ timers' = timers \ {t}
    /\ firing' = firing \cup {<<t.sub, t.ack>>}
    /\ UNCHANGED <<stored, backlog, outstanding, seq, deliveries, stream, req, snap, now, ghosts>>

\* Its callback gets the mutex, and looks whether the lease is still there.
expire(x) ==
    /\ x \in firing
    /\ firing' = firing \ {x}
    /\ \/ redeliver(x[1], x[2])
       \/ /\ x[2] \notin DOMAIN outstanding[x[1]]
          /\ UNCHANGED <<backlog, outstanding, timers, stream>>
    /\ UNCHANGED <<stored, seq, deliveries, req, snap, now, ghosts>>

\* An ack of a lease; of anything else it changes nothing.
Acknowledge(s, a) ==
    /\ a \in DOMAIN outstanding[s]
    /\ StopTimer(s, a)
    /\ outstanding' = [outstanding EXCEPT ![s] = Without(@, {a})]
    /\ owed' = [owed EXCEPT ![s] = @ \ {outstanding[s][a].msg}]
    /\ UNCHANGED <<stored, backlog, firing, seq, deliveries, stream, req, snap, now, given>>

\* ModifyAckDeadline with zero seconds.
Nack(s, a) ==
    /\ redeliver(s, a)
    /\ UNCHANGED <<stored, firing, seq, deliveries, req, snap, now, ghosts>>

\* Mutants: no new timer is started; the old timer is left running.
ModifyAckDeadlineStops(s, a, extend) ==
    /\ a \in DOMAIN outstanding[s] /\ now + extend <= MaxNow
    /\ Armed(s, a)
    /\ StopTimer(s, a)
    /\ UNCHANGED <<stored, backlog, outstanding, firing, seq, deliveries, stream, req, snap, now, ghosts>>
ModifyAckDeadlineKeepsTimer(s, a, extend) ==
    /\ a \in DOMAIN outstanding[s] /\ now + extend <= MaxNow
    /\ timers' = timers \cup {TimerOf(s, a, now + extend)}
    /\ outstanding' = [outstanding EXCEPT ![s][a].at = now + extend]
    /\ UNCHANGED <<stored, backlog, firing, seq, deliveries, stream, req, snap, now, ghosts>>

\* A timer that has fired already cannot be stopped, and its lease is left alone.
ModifyAckDeadline(s, a, extend) ==
    /\ a \in DOMAIN outstanding[s] /\ now + extend <= MaxNow
    /\ Armed(s, a)
    /\ timers' = (timers \ {TimerOf(s, a, outstanding[s][a].at)}) \cup {TimerOf(s, a, now + extend)}
    /\ outstanding' = [outstanding EXCEPT ![s][a].at = now + extend]
    /\ UNCHANGED <<stored, backlog, firing, seq, deliveries, stream, req, snap, now, ghosts>>

-----------------------------------------------------------------------------
\* A stream registers its channel before its first look at the backlog.
OpenStream(c, s) ==
    /\ "stream" \in mix /\ stream[c].at = "closed" /\ subs[s] # None
    /\ stream' = [stream EXCEPT ![c] = [at |-> "take", sub |-> s, token |-> FALSE]]
    /\ UNCHANGED <<stored, mailbox, seq, deliveries, req, snap, now, ghosts>>

\* Everything there is, sent at once; a failed send ends the stream.  With
\* nothing there, the stream waits.
StreamTake(c) ==
    LET s == stream[c].sub IN
    /\ stream[c].at = "take"
    /\ IF backlog[s] = <<>>
       THEN /\ stream' = [stream EXCEPT ![c].at = "wait"]
            /\ UNCHANGED <<backlog, outstanding, timers, deliveries, given>>
       ELSE /\ take(s, Len(backlog[s]), AckDeadline)
            /\ stream' \in {stream, [stream EXCEPT ![c] = Closed]}
    /\ UNCHANGED <<stored, firing, seq, req, snap, now, owed>>

StreamWakes(c) ==
    /\ stream[c].at = "wait" /\ stream[c].token
    /\ stream' = [stream EXCEPT ![c].at = "take", ![c].token = FALSE]
    /\ UNCHANGED <<stored, mailbox, seq, deliveries, req, snap, now, ghosts>>

\* The client ends the stream.
CloseStream(c) ==
    /\ stream[c].at = "wait"
    /\ stream' = [stream EXCEPT ![c] = Closed]
    /\ UNCHANGED <<stored, mailbox, seq, deliveries, req, snap, now, ghosts>>

-----------------------------------------------------------------------------
\* The leased messages of s in the order of their ids.
LeasedInOrder(s) ==
    CHOOSE l \in [1..Cardinality(Leased(s)) -> Leased(s)] :
        \A i, j \in DOMAIN l : i < j => l[i] < l[j]

\* The messages are captured first, leased ones before waiting ones, ...
Pending(p) ==
    /\ "snapshot" \in mix /\ At(p, "idle")
    /\ snap' = [seq |-> seq, msgs |-> [s \in Subs |-> LeasedInOrder(s) \o backlog[s]],
                topics |-> topics, subs |-> subs, owed |-> owed]
    /\ Goes(p, [Idle EXCEPT !.at = "snapshot"])
    /\ UNCHANGED <<stored, mailbox, seq, deliveries, stream, now, ghosts>>

\* ... and then the store.
WriteSnapshot(p) ==
    /\ At(p, "snapshot")
    /\ snap' = [snap EXCEPT !.topics = topics, !.subs = subs]
    /\ Ends(p)
    /\ UNCHANGED <<stored, mailbox, seq, deliveries, stream, now, ghosts>>

\* The store comes back first, ...
ReadSnapshot(p) ==
    /\ At(p, "idle") /\ snap # None /\ \A r \in Procs : ~At(r, "snapshot")
    /\ topics' = snap.topics /\ subs' = snap.subs
    /\ Goes(p, [Idle EXCEPT !.at = "live"])
    /\ UNCHANGED <<mailbox, seq, deliveries, stream, snap, now, ghosts>>

\* ... then the subscriptions that have messages are looked up in it, ...
LiveSubscriptions(p) ==
    /\ At(p, "live")
    /\ Goes(p, [Idle EXCEPT !.at = "restore", !.subs = {s \in Subs : subs[s] # None}])
    /\ UNCHANGED <<stored, mailbox, seq, deliveries, stream, snap, now, ghosts>>

LeaseTimers ==
    UNION {{TimerOf(s, a, outstanding[s][a].at) : a \in DOMAIN outstanding[s]} : s \in Subs}

Restores(p) ==
    /\ timers' = timers \ LeaseTimers
    /\ outstanding' = [s \in Subs |-> EmptyMap]
    /\ backlog' = [s \in Subs |-> IF s \in req[p].subs THEN snap.msgs[s] ELSE <<>>]
    /\ signal({s \in req[p].subs : snap.msgs[s] # <<>>})
    /\ seq' = snap.seq
    /\ owed' = [s \in Subs |-> IF s \in req[p].subs THEN snap.owed[s] ELSE {}]
    /\ Ends(p)

\* Mutant: ack ids are numbered afresh.
RestorePendingRenumbers(p) ==
    /\ At(p, "restore")
    /\ Restores(p)
    /\ deliveries' = 0
    /\ UNCHANGED <<stored, firing, snap, now, given>>

\* ... and the mailboxes are replaced.
RestorePending(p) ==
    /\ At(p, "restore")
    /\ Restores(p)
    /\ UNCHANGED <<stored, firing, deliveries, snap, now, given>>

Tick ==
    /\ now < MaxNow
    /\ now' = now + 1
    /\ UNCHANGED <<stored, mailbox, seq, deliveries, stream, req, snap, ghosts>>

Step ==
    \/ \E t \in Topics : CreateTopic(t) \/ DeleteTopic(t)
    \/ \E p \in Procs : \/ \E t \in Topics : BeginPublish(p, t)
                        \/ \E s \in Subs, t \in Topics : BeginCreate(p, s, t)
                        \/ subscriptionsFor(p)
                        \/ Publish(p)
                        \/ CreateSubscription(p)
                        \/ \E s \in Subs : DeleteSubscription(p, s)
                        \/ DropMailbox(p)
                        \/ \E s \in Subs : BeginPull(p, s)
                        \/ Pull(p)
                        \/ Pending(p) \/ WriteSnapshot(p)
                        \/ ReadSnapshot(p) \/ LiveSubscriptions(p) \/ RestorePending(p)
    \/ \E s \in Subs : \E a \in DOMAIN outstanding[s] :
          \/ Acknowledge(s, a)
          \/ Nack(s, a)
          \/ \E d \in Extensions : ModifyAckDeadline(s, a, d)
    \/ \E t \in timers : TimerFires(t)
    \/ \E x \in firing : expire(x)
    \/ \E c \in Streams : \/ \E s \in Subs : OpenStream(c, s)
                          \/ StreamTake(c)
                          \/ StreamWakes(c)
                          \/ CloseStream(c)
    \/ Tick

Next == Step /\ UNCHANGED mix

Spec == Init /\ [][Next]_vars

\* Time passes, the clock fires what is due, and a callback gets the mutex.
FairSpec ==
    /\ Spec
    /\ WF_vars(Tick /\ UNCHANGED mix)
    /\ WF_vars((\E t \in timers : TimerFires(t)) /\ UNCHANGED mix)
    /\ WF_vars((\E x \in firing : expire(x)) /\ UNCHANGED mix)

-----------------------------------------------------------------------------
\* Types, and every lease is of the message its ack id names.
TypeOK ==
    /\ topics \subseteq Topics /\ subs \in [Subs -> Topics \cup {None}]
    /\ \A s \in Subs : /\ backlog[s] \in Seq(Messages)
                       /\ DOMAIN outstanding[s] \subseteq given
                       /\ \A a \in DOMAIN outstanding[s] : outstanding[s][a].msg = a[1]
    /\ timers \subseteq [sub : Subs, ack : given, at : 0..MaxNow]
    /\ firing \subseteq Subs \X given
    /\ seq \in 0..MaxMessages /\ deliveries \in 0..MaxDeliveries
    /\ given \subseteq AckIDs
    /\ \A c \in Streams : stream[c].at = "closed" <=> stream[c].sub = None

\* "backlog holds messages a subscription has not acknowledged" (pubsub.go), and
\* outstanding those that are delivered: every message published to a subscription
\* and not acknowledged waits in its backlog or is leased.
OwedIsHeld == \A s \in Subs : subs[s] # None => owed[s] \subseteq Held(s)

\* take, redeliver, expire and a restore lose no message, as long as subscriptions
\* are not deleted.
NothingLost == "delete" \notin mix => OwedIsHeld

\* A subscription holds a message once: in the backlog or under one lease,
\* however acks, nacks, extensions and expiries race.
HeldOnce ==
    \A s \in Subs :
        /\ \A i, j \in DOMAIN backlog[s] : backlog[s][i] = backlog[s][j] => i = j
        /\ \A a, b \in DOMAIN outstanding[s] :
              outstanding[s][a].msg = outstanding[s][b].msg => a = b
        /\ ToSet(backlog[s]) \cap Leased(s) = {}

\* What a subscription is owed it holds, and holds once.
HeldAsOwed == NothingLost /\ HeldOnce

\* "A subscriber that never acks must not hold a message forever": every lease
\* has a timer that will fire or a callback on its way, and it is taken back
\* only when the deadline it was last given has passed.
LeaseOnTime ==
    /\ \A s \in Subs : \A a \in DOMAIN outstanding[s] : Armed(s, a) \/ <<s, a>> \in firing
    /\ \A x \in firing :
          x[2] \in DOMAIN outstanding[x[1]] => outstanding[x[1]][x[2]].at <= now

\* A stream does not sleep through a message: while it waits without a token,
\* there is nothing in the backlog.
NoLostWakeup ==
    \A c \in Streams :
        stream[c].at = "wait" /\ ~stream[c].token => backlog[stream[c].sub] = <<>>

\* No delivery gets the ack id of an earlier one, across restores too, so an
\* old ack settles nothing but the delivery it came with.
AckIDsFresh ==
    [][\A s \in Subs :
         (DOMAIN outstanding'[s] \ DOMAIN outstanding[s]) \cap given = {}]_vars

\* Every lease ends: by an ack, or by going back to the backlog.
LeasesEnd ==
    \A s \in Subs : \A a \in AckIDs :
        a \in DOMAIN outstanding[s] ~> a \notin DOMAIN outstanding[s]

\* "a returned message is the oldest thing waiting, not the newest": a backlog
\* is in the order of publication.
OldestFirst ==
    \A s \in Subs : \A i, j \in DOMAIN backlog[s] : i < j => backlog[s][i] < backlog[s][j]
=============================================================================
