---------------------------- MODULE PubSubProofs ----------------------------
(***************************************************************************)
(* For any topics, subscriptions, requests, streams and bounds: a lease    *)
(* ends on time whatever acks, nacks, extensions, expiries and restores    *)
(* race, an ack id names one delivery, and no stream sleeps through a      *)
(* message.                                                                *)
(***************************************************************************)
EXTENDS PubSub, TLAPS

\* A lease is a record of its message and its deadline.
Shaped(l) == l = Lease(l.msg, l.at) /\ l.at \in Nat

\* Ack ids are numbered by the deliveries, and timers, callbacks and leases are
\* of deliveries that were made.
Known ==
    /\ deliveries \in Nat /\ now \in Nat
    /\ outstanding = [s \in Subs |-> outstanding[s]]
    /\ \A a \in given : a[2] \in Nat /\ a[2] <= deliveries
    /\ \A s \in Subs : DOMAIN outstanding[s] \subseteq given
    /\ \A s \in Subs : \A a \in DOMAIN outstanding[s] : Shaped(outstanding[s][a])
    /\ \A t \in timers : t.sub \in Subs /\ t.ack \in given
    /\ \A x \in firing : x = <<x[1], x[2]>> /\ x[1] \in Subs /\ x[2] \in given

\* A lease has the timer that was last set for it and no other, or its callback
\* waits for the mutex, and then its deadline has passed.
Timed(s, a) ==
    /\ \A t \in timers : t.sub = s /\ t.ack = a => t = TimerOf(s, a, outstanding[s][a].at)
    /\ Armed(s, a) <=> <<s, a>> \notin firing
    /\ <<s, a>> \in firing => outstanding[s][a].at <= now

LeaseInv == Known /\ \A s \in Subs : \A a \in DOMAIN outstanding[s] : Timed(s, a)

-----------------------------------------------------------------------------
LEMMA LeaseInit == Init => LeaseInv
BY DEF Init, LeaseInv, Known, EmptyMap

\* Leases go, and the timers and callbacks of those that stay stay with them.
LEMMA LeasesGo ==
    ASSUME LeaseInv, UNCHANGED <<deliveries, now, given>>,
           outstanding' = [s \in Subs |-> outstanding'[s]],
           timers' \subseteq timers, firing' \subseteq firing,
           \A s \in Subs : DOMAIN outstanding'[s] \subseteq DOMAIN outstanding[s],
           \A s \in Subs : \A a \in DOMAIN outstanding'[s] :
              /\ outstanding'[s][a] = outstanding[s][a]
              /\ TimerOf(s, a, outstanding[s][a].at) \in timers => TimerOf(s, a, outstanding[s][a].at) \in timers'
              /\ <<s, a>> \in firing => <<s, a>> \in firing'
    PROVE  LeaseInv'
<1>1. Known' BY DEF LeaseInv, Known
<1>2. ASSUME NEW s \in Subs, NEW a \in DOMAIN outstanding'[s] PROVE Timed(s, a)'
  <2>1. Timed(s, a) BY DEF LeaseInv
  <2>2. Armed(s, a)' <=> Armed(s, a) BY DEF Armed
  <2>3. <<s, a>> \in firing' <=> <<s, a>> \in firing OBVIOUS
  <2> QED BY <2>1, <2>2, <2>3 DEF Timed
<1> QED BY <1>1, <1>2 DEF LeaseInv

\* A lease that is acknowledged, or whose message goes back.
LEMMA OneGoes ==
    ASSUME LeaseInv, NEW s \in Subs, NEW a \in DOMAIN outstanding[s], StopTimer(s, a),
           outstanding' = [outstanding EXCEPT ![s] = Without(@, {a})],
           firing' = firing \/ firing' = firing \ {<<s, a>>},
           UNCHANGED <<deliveries, now, given>>
    PROVE  LeaseInv'
<1> DEFINE w == Without(outstanding[s], {a})
<1>0. DOMAIN w = DOMAIN outstanding[s] \ {a} /\ \A b \in DOMAIN w : w[b] = outstanding[s][b] BY DEF Without
<1> HIDE DEF w
<1>1. /\ outstanding' = [r \in Subs |-> outstanding'[r]] /\ outstanding'[s] = w
      /\ \A r \in Subs \ {s} : outstanding'[r] = outstanding[r]
    BY DEF LeaseInv, Known, w
<1>2. timers' = timers \ {TimerOf(s, a, outstanding[s][a].at)} BY DEF StopTimer
<1>3. ASSUME NEW r \in Subs, NEW b \in DOMAIN outstanding'[r]
      PROVE  /\ b \in DOMAIN outstanding[r] /\ outstanding'[r][b] = outstanding[r][b]
             /\ <<r, b>> # <<s, a>>
             /\ TimerOf(r, b, outstanding[r][b].at) # TimerOf(s, a, outstanding[s][a].at)
  <2>1. CASE r = s
    <3>1. b \in DOMAIN w BY <1>1, <2>1
    <3> QED BY <1>0, <1>1, <2>1, <3>1 DEF TimerOf
  <2>2. CASE r # s BY <1>1, <2>2 DEF TimerOf
  <2> QED BY <2>1, <2>2
<1> QED BY <1>1, <1>2, <1>3, LeasesGo

\* Deliveries are numbered on, so their ack ids are new.
LEMMA TakeInv ==
    ASSUME LeaseInv, NEW s \in Subs, NEW n, NEW deadline \in Nat, take(s, n, deadline), UNCHANGED <<firing, now>>
    PROVE  LeaseInv' /\ \A r \in Subs : (DOMAIN outstanding'[r] \ DOMAIN outstanding[r]) \cap given = {}
<1> DEFINE taken == SubSeq(backlog[s], 1, n)
           acks == {<<taken[i], deliveries + i>> : i \in 1..n}
           o == outstanding[s]
           fresh == [a \in DOMAIN o \cup acks |-> IF a \in acks THEN Lease(a[1], now + deadline) ELSE o[a]]
<1>1. /\ n \in 1..(MaxDeliveries - deliveries) /\ deliveries \in Nat /\ MaxDeliveries \in Nat
    BY PubSubInputs DEF LeaseInv, Known, take
<1>2. /\ outstanding' = [outstanding EXCEPT ![s] = fresh]
      /\ timers' = timers \cup {TimerOf(s, a, now + deadline) : a \in acks}
      /\ deliveries' = deliveries + n /\ given' = given \cup acks
    BY DEF take
<1>3. \A a \in acks : a[2] \in Nat /\ a[2] > deliveries /\ a[2] <= deliveries + n BY <1>1
<1> HIDE DEF taken, acks
<1>4. \A a \in acks : a \notin given BY <1>1, <1>3 DEF LeaseInv, Known
<1>5. /\ DOMAIN fresh = DOMAIN o \cup acks
      /\ \A a \in acks : fresh[a].at = now + deadline /\ Shaped(fresh[a])
      /\ \A a \in DOMAIN o : fresh[a] = o[a]
  <2>1. \A a \in DOMAIN o : a \notin acks BY <1>4 DEF LeaseInv, Known
  <2>2. now + deadline \in Nat BY DEF LeaseInv, Known
  <2> QED BY <2>1, <2>2 DEF Lease, Shaped
<1> HIDE DEF fresh
<1>6. /\ outstanding' = [r \in Subs |-> outstanding'[r]] /\ outstanding'[s] = fresh
      /\ \A r \in Subs \ {s} : outstanding'[r] = outstanding[r]
    BY <1>2 DEF LeaseInv, Known
<1>7. Known'
  <2>1. \A a \in given' : a[2] \in Nat /\ a[2] <= deliveries'
      BY <1>1, <1>2, <1>3 DEF LeaseInv, Known
  <2>2. deliveries' \in Nat /\ now' \in Nat BY <1>1, <1>2 DEF LeaseInv, Known
  <2>3. \A r \in Subs : DOMAIN outstanding'[r] \subseteq given' BY <1>2, <1>5, <1>6 DEF LeaseInv, Known
  <2>4. \A t \in timers' : t.sub \in Subs /\ t.ack \in given' BY <1>2 DEF LeaseInv, Known, TimerOf
  <2>5. \A r \in Subs : \A b \in DOMAIN outstanding'[r] : Shaped(outstanding'[r][b])
      BY <1>5, <1>6 DEF LeaseInv, Known
  <2>6. \A x \in firing' : x = <<x[1], x[2]>> /\ x[1] \in Subs /\ x[2] \in given'
      BY <1>2 DEF LeaseInv, Known
  <2> QED BY <1>6, <2>1, <2>2, <2>3, <2>4, <2>5, <2>6 DEF Known, Shaped
<1>8. ASSUME NEW r \in Subs, NEW b \in DOMAIN outstanding'[r] PROVE Timed(r, b)'
  <2>1. CASE r = s /\ b \in acks
    <3>1. outstanding'[r][b].at = now + deadline BY <1>5, <1>6, <2>1
    <3>2. \A t \in timers' : t.sub = s /\ t.ack = b => t = TimerOf(s, b, now + deadline)
        BY <1>2, <1>4, <2>1 DEF LeaseInv, Known, TimerOf
    <3>3. TimerOf(s, b, now + deadline) \in timers' BY <1>2, <2>1
    <3>4. <<s, b>> \notin firing BY <1>4, <2>1 DEF LeaseInv, Known
    <3> QED BY <2>1, <3>1, <3>2, <3>3, <3>4 DEF Timed, Armed
  <2>2. CASE b \in DOMAIN outstanding[r]
    <3>1. outstanding'[r][b] = outstanding[r][b] BY <1>5, <1>6, <2>2
    <3>2. b \notin acks BY <1>4, <2>2 DEF LeaseInv, Known
    <3>3. \A t \in timers' : t.ack = b => t \in timers BY <1>2, <3>2 DEF TimerOf
    <3>4. Timed(r, b) BY <2>2 DEF LeaseInv
    <3>5. TimerOf(r, b, outstanding[r][b].at) \in timers' <=> TimerOf(r, b, outstanding[r][b].at) \in timers
        BY <1>2, <3>3 DEF TimerOf
    <3> QED BY <3>1, <3>3, <3>4, <3>5 DEF Timed, Armed
  <2> QED BY <1>5, <1>6, <2>1, <2>2
<1>9. ASSUME NEW r \in Subs PROVE (DOMAIN outstanding'[r] \ DOMAIN outstanding[r]) \cap given = {}
    BY <1>4, <1>5, <1>6
<1> QED BY <1>7, <1>8, <1>9 DEF LeaseInv

\* The clock hands a timer over to its callback.
LEMMA FiresInv == ASSUME LeaseInv, NEW t \in timers, TimerFires(t) PROVE LeaseInv'
<1>1. /\ t.at <= now /\ timers' = timers \ {t} /\ firing' = firing \cup {<<t.sub, t.ack>>}
      /\ UNCHANGED <<outstanding, deliveries, now, given>>
    BY DEF TimerFires, ghosts
<1>2. Known' BY <1>1 DEF LeaseInv, Known
<1>3. ASSUME NEW s \in Subs, NEW a \in DOMAIN outstanding'[s] PROVE Timed(s, a)'
  <2>1. Timed(s, a) BY <1>1 DEF LeaseInv
  <2>2. CASE t.sub = s /\ t.ack = a
    <3>1. t = TimerOf(s, a, outstanding[s][a].at) BY <2>1, <2>2 DEF Timed
    <3>2. t.at = outstanding[s][a].at BY <3>1 DEF TimerOf
    <3> QED BY <1>1, <2>1, <2>2, <3>1, <3>2 DEF Timed, Armed
  <2>3. CASE ~(t.sub = s /\ t.ack = a)
    <3>1. t # TimerOf(s, a, outstanding[s][a].at) BY <2>3 DEF TimerOf
    <3>2. <<s, a>> # <<t.sub, t.ack>> BY <2>3
    <3> QED BY <1>1, <2>1, <3>1, <3>2 DEF Timed, Armed
  <2> QED BY <2>2, <2>3
<1> QED BY <1>2, <1>3 DEF LeaseInv

\* A new deadline replaces the timer that has not fired.
LEMMA ExtendInv ==
    ASSUME LeaseInv, NEW s \in Subs, NEW a, NEW d \in Nat, ModifyAckDeadline(s, a, d)
    PROVE  LeaseInv' /\ \A r \in Subs : DOMAIN outstanding'[r] = DOMAIN outstanding[r]
<1> DEFINE new == [outstanding[s] EXCEPT ![a].at = now + d]
<1>1. /\ a \in DOMAIN outstanding[s] /\ Armed(s, a)
      /\ timers' = (timers \ {TimerOf(s, a, outstanding[s][a].at)}) \cup {TimerOf(s, a, now + d)}
      /\ UNCHANGED <<firing, deliveries, now, given>>
    BY DEF ModifyAckDeadline, ghosts
<1>2. outstanding' = [outstanding EXCEPT ![s] = new]
    BY DEF ModifyAckDeadline, LeaseInv, Known
<1>3. /\ DOMAIN new = DOMAIN outstanding[s]
      /\ \A b \in DOMAIN outstanding[s] \ {a} : new[b] = outstanding[s][b]
    BY <1>1
<1>4. outstanding'[s][a].at = now + d
    BY <1>1 DEF ModifyAckDeadline, LeaseInv, Known, Shaped
<1> HIDE DEF new
<1>5. /\ outstanding' = [r \in Subs |-> outstanding'[r]] /\ outstanding'[s] = new
      /\ \A r \in Subs \ {s} : outstanding'[r] = outstanding[r]
    BY <1>2 DEF LeaseInv, Known
<1>6. Known'
  <2>1. \A t \in timers' : t.sub \in Subs /\ t.ack \in given'
      BY <1>1 DEF LeaseInv, Known, TimerOf
  <2>2. \A r \in Subs : DOMAIN outstanding'[r] \subseteq given' BY <1>1, <1>3, <1>5 DEF LeaseInv, Known
  <2>3. Shaped(new[a]) BY <1>1 DEF LeaseInv, Known, Shaped, Lease, new
  <2>4. \A r \in Subs : \A b \in DOMAIN outstanding'[r] : Shaped(outstanding'[r][b])
      BY <1>3, <1>5, <2>3 DEF LeaseInv, Known
  <2> QED BY <1>1, <1>5, <2>1, <2>2, <2>4 DEF LeaseInv, Known, Shaped
<1>7. ASSUME NEW r \in Subs, NEW b \in DOMAIN outstanding'[r] PROVE Timed(r, b)'
  <2>0. b \in DOMAIN outstanding[r] /\ Timed(r, b) BY <1>3, <1>5 DEF LeaseInv
  <2>1. CASE r = s /\ b = a
    <3>1. <<s, a>> \notin firing BY <1>1, <2>0, <2>1 DEF Timed
    <3>2. \A t \in timers' : t.sub = s /\ t.ack = a => t = TimerOf(s, a, now + d)
        BY <1>1, <2>0, <2>1 DEF Timed
    <3> QED BY <1>1, <1>4, <2>1, <3>1, <3>2 DEF Timed, Armed
  <2>2. CASE ~(r = s /\ b = a)
    <3>1. outstanding'[r][b] = outstanding[r][b] BY <1>3, <1>5, <2>0, <2>2
    <3>2. \A t : t = TimerOf(s, a, now + d) \/ t = TimerOf(s, a, outstanding[s][a].at) => ~(t.sub = r /\ t.ack = b)
        BY <2>2 DEF TimerOf
    <3>3. \A t : t.sub = r /\ t.ack = b => (t \in timers' <=> t \in timers) BY <1>1, <3>2
    <3>4. Armed(r, b)' <=> Armed(r, b) BY <3>1, <3>3 DEF Armed, TimerOf
    <3> QED BY <1>1, <2>0, <3>1, <3>3, <3>4 DEF Timed
  <2> QED BY <2>1, <2>2
<1> QED BY <1>3, <1>5, <1>6, <1>7 DEF LeaseInv

-----------------------------------------------------------------------------
\* Requests and streams are at subscriptions of the model.
Request(q) ==
    /\ "at" \in DOMAIN q
    /\ q.at \in {"take", "drop"} => q.sub \in Subs

Pulling(q) ==
    /\ "at" \in DOMAIN q /\ "token" \in DOMAIN q
    /\ q.at \in {"take", "wait"} => q.sub \in Subs

Actors ==
    /\ backlog = [s \in Subs |-> backlog[s]]
    /\ req = [p \in Procs |-> req[p]] /\ \A p \in Procs : Request(req[p])
    /\ stream = [c \in Streams |-> stream[c]] /\ \A c \in Streams : Pulling(stream[c])

Inv == LeaseInv /\ Actors /\ NoLostWakeup

LEMMA InvInit == Init => Inv
<1>1. Init => Actors
  <2> SUFFICES ASSUME Init PROVE Actors OBVIOUS
  <2>1. backlog = [s \in Subs |-> backlog[s]] /\ req = [p \in Procs |-> req[p]] /\ stream = [c \in Streams |-> stream[c]]
      BY DEF Init
  <2>2. \A p \in Procs : req[p] = Idle BY DEF Init
  <2>3. \A c \in Streams : stream[c] = Closed BY DEF Init
  <2> QED BY <2>1, <2>2, <2>3 DEF Actors, Request, Pulling, Idle, Closed
<1>2. Init => NoLostWakeup BY DEF Init, NoLostWakeup, Closed
<1> QED BY <1>1, <1>2, LeaseInit DEF Inv

-----------------------------------------------------------------------------
\* A lease a step adds has an ack id that was never handed out.
NoReuse == \A s \in Subs : (DOMAIN outstanding'[s] \ DOMAIN outstanding[s]) \cap given = {}

LEMMA LeaseStep ==
    ASSUME Inv, Step PROVE LeaseInv' /\ NoReuse
<1> USE DEF Inv
<1>1. ASSUME UNCHANGED <<outstanding, timers, firing, deliveries, given>>, now' = now \/ (now' = now + 1)
      PROVE  LeaseInv' /\ NoReuse
  <2>1. now \in Nat /\ now' \in Nat /\ now <= now' BY <1>1 DEF LeaseInv, Known
  <2>2. Known' BY <1>1, <2>1 DEF LeaseInv, Known, Shaped
  <2>3. ASSUME NEW s \in Subs, NEW a \in DOMAIN outstanding'[s] PROVE Timed(s, a)'
    <3>1. Timed(s, a) BY <1>1 DEF LeaseInv
    <3>2. outstanding[s][a].at \in Nat BY <1>1 DEF LeaseInv, Known, Shaped
    <3> QED BY <1>1, <2>1, <3>1, <3>2 DEF Timed, Armed
  <2> QED BY <1>1, <2>2, <2>3 DEF LeaseInv, NoReuse
<1>2. ASSUME NEW s \in Subs, NEW a \in DOMAIN outstanding[s], StopTimer(s, a),
             outstanding' = [outstanding EXCEPT ![s] = Without(@, {a})],
             firing' = firing \/ firing' = firing \ {<<s, a>>},
             UNCHANGED <<deliveries, now, given>>
      PROVE  LeaseInv' /\ NoReuse
  <2>1. LeaseInv' BY <1>2, OneGoes
  <2>2. \A r \in Subs : DOMAIN outstanding'[r] \subseteq DOMAIN outstanding[r]
      BY <1>2 DEF Without, LeaseInv, Known
  <2> QED BY <2>1, <2>2 DEF NoReuse
<1>3. ASSUME NEW s \in Subs, NEW n, take(s, n, AckDeadline), UNCHANGED <<firing, now>>
      PROVE  LeaseInv' /\ NoReuse
    BY <1>3, TakeInv, PubSubInputs DEF NoReuse
<1>4. ASSUME UNCHANGED <<deliveries, now, given, firing>>, timers' \subseteq timers,
             outstanding' = [s \in Subs |-> outstanding'[s]],
             \A s \in Subs : \/ DOMAIN outstanding'[s] = {}
                             \/ timers' = timers /\ outstanding'[s] = outstanding[s]
      PROVE  LeaseInv' /\ NoReuse
  <2>1. LeaseInv' BY <1>4, LeasesGo
  <2> QED BY <1>4, <2>1 DEF NoReuse
<1>5. ASSUME NEW p \in Procs, Pull(p) PROVE LeaseInv' /\ NoReuse
  <2>1. req[p].sub \in Subs /\ UNCHANGED <<firing, now>> BY <1>5 DEF Pull, Actors, Request, At
  <2>2. \/ UNCHANGED <<outstanding, timers, deliveries, given>>
        \/ \E n : take(req[p].sub, n, AckDeadline)
      BY <1>5 DEF Pull
  <2> QED BY <1>1, <1>3, <2>1, <2>2
<1>6. ASSUME NEW c \in Streams, StreamTake(c) PROVE LeaseInv' /\ NoReuse
  <2>1. stream[c].sub \in Subs /\ UNCHANGED <<firing, now>> BY <1>6 DEF StreamTake, Actors, Pulling
  <2>2. \/ UNCHANGED <<outstanding, timers, deliveries, given>>
        \/ \E n : take(stream[c].sub, n, AckDeadline)
      BY <1>6 DEF StreamTake
  <2> QED BY <1>1, <1>3, <2>1, <2>2
<1>7. ASSUME NEW p \in Procs, DropMailbox(p) PROVE LeaseInv' /\ NoReuse
  <2>1. req[p].sub \in Subs BY <1>7 DEF DropMailbox, Actors, Request, At
  <2>2. /\ outstanding' = [outstanding EXCEPT ![req[p].sub] = EmptyMap]
        /\ UNCHANGED <<deliveries, now, given, firing, timers>>
      BY <1>7 DEF DropMailbox, ghosts
  <2>3. DOMAIN EmptyMap = {} BY DEF EmptyMap
  <2>4. /\ outstanding' = [s \in Subs |-> outstanding'[s]]
        /\ \A s \in Subs : outstanding'[s] = EmptyMap \/ outstanding'[s] = outstanding[s]
      BY <2>1, <2>2 DEF LeaseInv, Known
  <2> QED BY <1>4, <2>2, <2>3, <2>4
<1>8. ASSUME NEW p \in Procs, RestorePending(p) PROVE LeaseInv' /\ NoReuse
  <2>1. /\ outstanding' = [s \in Subs |-> EmptyMap] /\ timers' \subseteq timers
        /\ UNCHANGED <<deliveries, now, given, firing>>
      BY <1>8 DEF RestorePending, Restores
  <2>2. DOMAIN EmptyMap = {} BY DEF EmptyMap
  <2> QED BY <1>4, <2>1, <2>2
<1>9. ASSUME NEW s \in Subs, NEW a \in DOMAIN outstanding[s], Acknowledge(s, a) \/ Nack(s, a)
      PROVE  LeaseInv' /\ NoReuse
  <2>1. /\ StopTimer(s, a) /\ outstanding' = [outstanding EXCEPT ![s] = Without(@, {a})]
        /\ UNCHANGED <<firing, deliveries, now, given>>
      BY <1>9 DEF Acknowledge, Nack, redeliver, Returns, ghosts
  <2> QED BY <1>2, <2>1
<1>10. ASSUME NEW s \in Subs, NEW a, NEW d \in Extensions, ModifyAckDeadline(s, a, d)
       PROVE  LeaseInv' /\ NoReuse
  <2>1. d \in Nat BY PubSubInputs
  <2> QED BY <1>10, <2>1, ExtendInv DEF NoReuse
<1>11. ASSUME NEW t \in timers, TimerFires(t) PROVE LeaseInv' /\ NoReuse
  <2>1. UNCHANGED outstanding BY <1>11 DEF TimerFires
  <2> QED BY <1>11, <2>1, FiresInv DEF NoReuse
<1>12. ASSUME NEW x \in firing, expire(x) PROVE LeaseInv' /\ NoReuse
  <2>1. x = <<x[1], x[2]>> /\ x[1] \in Subs BY DEF LeaseInv, Known
  <2>2. firing' = firing \ {<<x[1], x[2]>>} /\ UNCHANGED <<deliveries, now, given>>
      BY <1>12, <2>1 DEF expire, ghosts
  <2>3. CASE redeliver(x[1], x[2])
      BY <1>2, <2>1, <2>2, <2>3 DEF redeliver, Returns
  <2>4. CASE x[2] \notin DOMAIN outstanding[x[1]] /\ UNCHANGED <<outstanding, timers>>
    <3>1. outstanding' = [s \in Subs |-> outstanding'[s]] BY <2>4 DEF LeaseInv, Known
    <3>2. ASSUME NEW s \in Subs, NEW a \in DOMAIN outstanding[s] PROVE <<s, a>> # <<x[1], x[2]>>
        BY <2>4
    <3>3. LeaseInv' BY <2>2, <2>4, <3>1, <3>2, LeasesGo
    <3> QED BY <2>4, <3>3 DEF NoReuse
  <2> QED BY <1>12, <2>3, <2>4 DEF expire
<1>13. ASSUME NEW p \in Procs,
              \/ \E t \in Topics : BeginPublish(p, t)
              \/ \E s \in Subs, t \in Topics : BeginCreate(p, s, t)
              \/ subscriptionsFor(p) \/ Publish(p) \/ CreateSubscription(p)
              \/ \E s \in Subs : DeleteSubscription(p, s)
              \/ \E s \in Subs : BeginPull(p, s)
              \/ Pending(p) \/ WriteSnapshot(p) \/ ReadSnapshot(p) \/ LiveSubscriptions(p)
       PROVE  LeaseInv' /\ NoReuse
  <2>1. UNCHANGED <<outstanding, timers, firing, deliveries, given, now>>
      BY <1>13 DEF BeginPublish, BeginCreate, GetTopic, subscriptionsFor, Publish, CreateSubscription,
                  DeleteSubscription, BeginPull, Pending, WriteSnapshot, ReadSnapshot, LiveSubscriptions,
                  mailbox, ghosts
  <2> QED BY <1>1, <2>1
<1>14. ASSUME \/ \E t \in Topics : CreateTopic(t) \/ DeleteTopic(t)
              \/ \E c \in Streams : (\E s \in Subs : OpenStream(c, s)) \/ StreamWakes(c) \/ CloseStream(c)
              \/ Tick
       PROVE  LeaseInv' /\ NoReuse
  <2>1. UNCHANGED <<outstanding, timers, firing, deliveries, given>> /\ (now' = now \/ now' = now + 1)
      BY <1>14 DEF CreateTopic, DeleteTopic, OpenStream, StreamWakes, CloseStream, Tick, mailbox, ghosts
  <2> QED BY <1>1, <2>1
<1> QED BY <1>5, <1>6, <1>7, <1>8, <1>9, <1>10, <1>11, <1>12, <1>13, <1>14 DEF Step

-----------------------------------------------------------------------------
LEMMA RequestStep ==
    ASSUME Inv, Step
    PROVE  req' = [p \in Procs |-> req'[p]] /\ \A p \in Procs : Request(req'[p])
<1>1. req = [p \in Procs |-> req[p]] /\ \A p \in Procs : Request(req[p]) BY DEF Inv, Actors
<1>2. ASSUME NEW p \in Procs, NEW q, Goes(p, q), Request(q)
      PROVE  req' = [r \in Procs |-> req'[r]] /\ \A r \in Procs : Request(req'[r])
    BY <1>1, <1>2 DEF Goes
<1>3. ASSUME UNCHANGED req
      PROVE  req' = [r \in Procs |-> req'[r]] /\ \A r \in Procs : Request(req'[r])
    BY <1>1, <1>3 DEF Request
<1>4. Request(Idle) BY DEF Request, Idle
<1>5. ASSUME NEW p \in Procs, NEW t \in Topics, BeginPublish(p, t) PROVE \E q : Goes(p, q) /\ Request(q)
  <2> DEFINE q == [Idle EXCEPT !.at = "list", !.topic = t]
  <2>1. Request(q) BY DEF Request, Idle
  <2> QED BY <1>5, <2>1 DEF BeginPublish, GetTopic
<1>6. ASSUME NEW p \in Procs, NEW s \in Subs, NEW t \in Topics, BeginCreate(p, s, t)
      PROVE  \E q : Goes(p, q) /\ Request(q)
  <2> DEFINE q == [Idle EXCEPT !.at = "create", !.topic = t, !.sub = s]
  <2>1. Request(q) BY DEF Request, Idle
  <2> QED BY <1>6, <2>1 DEF BeginCreate, GetTopic
<1>7. ASSUME NEW p \in Procs, subscriptionsFor(p) PROVE \E q : Goes(p, q) /\ Request(q)
  <2> DEFINE q == [req[p] EXCEPT !.at = "publish", !.subs = {s \in Subs : subs[s] = req[p].topic}]
  <2>1. Request(q) BY <1>1 DEF Request
  <2> QED BY <1>7, <2>1 DEF subscriptionsFor
<1>8. ASSUME NEW p \in Procs, NEW s \in Subs, DeleteSubscription(p, s) \/ BeginPull(p, s)
      PROVE  \E q : Goes(p, q) /\ Request(q)
  <2>1. Request([Idle EXCEPT !.at = "drop", !.sub = s]) BY DEF Request, Idle
  <2>2. Request([Idle EXCEPT !.at = "take", !.sub = s]) BY DEF Request, Idle
  <2> QED BY <1>8, <2>1, <2>2 DEF DeleteSubscription, BeginPull
<1>9. ASSUME NEW p \in Procs, Pending(p) \/ ReadSnapshot(p) PROVE \E q : Goes(p, q) /\ Request(q)
  <2>1. Request([Idle EXCEPT !.at = "snapshot"]) BY DEF Request, Idle
  <2>2. Request([Idle EXCEPT !.at = "live"]) BY DEF Request, Idle
  <2> QED BY <1>9, <2>1, <2>2 DEF Pending, ReadSnapshot
<1>10. ASSUME NEW p \in Procs, LiveSubscriptions(p) PROVE \E q : Goes(p, q) /\ Request(q)
  <2> DEFINE q == [Idle EXCEPT !.at = "restore", !.subs = {s \in Subs : subs[s] # None}]
  <2>1. Request(q) BY DEF Request, Idle
  <2> QED BY <1>10, <2>1 DEF LiveSubscriptions
<1>11. ASSUME NEW p \in Procs,
              \/ Publish(p) \/ CreateSubscription(p) \/ DropMailbox(p) \/ Pull(p)
              \/ WriteSnapshot(p) \/ RestorePending(p)
       PROVE  \E q : Goes(p, q) /\ Request(q)
    BY <1>4, <1>11 DEF Publish, CreateSubscription, DropMailbox, Pull, WriteSnapshot, RestorePending, Restores, Ends
<1>12. ASSUME \/ \E t \in Topics : CreateTopic(t) \/ DeleteTopic(t)
              \/ \E s \in Subs : \E a \in DOMAIN outstanding[s] :
                    \/ Acknowledge(s, a) \/ Nack(s, a)
                    \/ \E d \in Extensions : ModifyAckDeadline(s, a, d)
              \/ \E t \in timers : TimerFires(t)
              \/ \E x \in firing : expire(x)
              \/ \E c \in Streams : \/ \E s \in Subs : OpenStream(c, s)
                                    \/ StreamTake(c) \/ StreamWakes(c) \/ CloseStream(c)
              \/ Tick
       PROVE  UNCHANGED req
    BY <1>12 DEF CreateTopic, DeleteTopic, Acknowledge, Nack, ModifyAckDeadline, TimerFires, expire,
                 OpenStream, StreamTake, StreamWakes, CloseStream, Tick
<1>13. (\E p \in Procs : \E q : Goes(p, q) /\ Request(q)) \/ UNCHANGED req
    BY <1>5, <1>6, <1>7, <1>8, <1>9, <1>10, <1>11, <1>12 DEF Step
<1> QED BY <1>2, <1>3, <1>13

-----------------------------------------------------------------------------
\* The streams and the backlogs after a step.
Awake ==
    /\ backlog = [s \in Subs |-> backlog[s]]
    /\ stream = [c \in Streams |-> stream[c]] /\ \A c \in Streams : Pulling(stream[c])
    /\ NoLostWakeup

\* A backlog that gets messages has its streams signalled.
LEMMA Signalled ==
    ASSUME Awake, NEW S, signal(S), backlog' = [s \in Subs |-> backlog'[s]],
           \A s \in Subs \ S : backlog'[s] = backlog[s] \/ backlog'[s] = <<>>
    PROVE  Awake'
<1>1. ASSUME NEW c \in Streams
      PROVE  /\ Pulling(stream'[c])
             /\ stream'[c].at = "wait" /\ ~stream'[c].token => backlog'[stream'[c].sub] = <<>>
  <2>1. Pulling(stream[c]) BY DEF Awake
  <2>2. CASE stream[c].sub \in S
    <3>1. stream'[c] = [stream[c] EXCEPT !.token = TRUE] BY <2>2 DEF signal
    <3> QED BY <2>1, <3>1 DEF Pulling
  <2>3. CASE stream[c].sub \notin S
    <3>1. stream'[c] = stream[c] BY <2>3 DEF signal
    <3>2. stream[c].at = "wait" => stream[c].sub \in Subs \ S BY <2>1, <2>3 DEF Pulling
    <3> QED BY <2>1, <3>1, <3>2 DEF Awake, NoLostWakeup
  <2> QED BY <2>2, <2>3
<1>2. stream' = [c \in Streams |-> stream'[c]] BY DEF signal
<1> QED BY <1>1, <1>2 DEF Awake, NoLostWakeup, Pulling

\* One stream moves, and may not fall asleep over a message.
LEMMA StreamMoves ==
    ASSUME Awake, NEW c \in Streams, NEW q, stream' = [stream EXCEPT ![c] = q], UNCHANGED backlog,
           Pulling(q), q.at = "wait" /\ ~q.token => backlog[q.sub] = <<>>
    PROVE  Awake'
<1>1. stream'[c] = q /\ \A d \in Streams \ {c} : stream'[d] = stream[d] BY DEF Awake
<1>2. stream' = [d \in Streams |-> stream'[d]] BY DEF Awake
<1>3. \A d \in Streams : Pulling(stream'[d]) BY <1>1 DEF Awake
<1>4. NoLostWakeup' BY <1>1 DEF Awake, NoLostWakeup
<1> QED BY <1>2, <1>3, <1>4 DEF Awake, Pulling

\* Messages are taken from a backlog that has some, over which no stream sleeps.
LEMMA TakeWakes ==
    ASSUME Awake, NEW s \in Subs, NEW n, NEW d, backlog[s] # <<>>, take(s, n, d), UNCHANGED stream
    PROVE  Awake'
<1>1. /\ backlog' = [r \in Subs |-> backlog'[r]]
      /\ \A r \in Subs \ {s} : backlog'[r] = backlog[r]
    BY DEF take, Awake
<1>2. NoLostWakeup'
  <2> SUFFICES ASSUME NEW c \in Streams, stream[c].at = "wait", ~stream[c].token
               PROVE  backlog'[stream[c].sub] = <<>>
      BY DEF NoLostWakeup
  <2>1. backlog[stream[c].sub] = <<>> /\ stream[c].sub \in Subs BY DEF Awake, NoLostWakeup, Pulling
  <2> QED BY <1>1, <2>1
<1> QED BY <1>1, <1>2 DEF Awake, Pulling

LEMMA AwakeStep == ASSUME Inv, Step PROVE Awake'
<1>0. Awake BY DEF Inv, Actors, Awake
<1>1. ASSUME UNCHANGED <<backlog, stream>> PROVE Awake' BY <1>0, <1>1 DEF Awake, Pulling, NoLostWakeup
<1>2. ASSUME NEW p \in Procs, Publish(p) PROVE Awake'
  <2>1. /\ signal(req[p].subs)
        /\ backlog' = [s \in Subs |-> IF s \in req[p].subs THEN Append(backlog[s], seq + 1) ELSE backlog[s]]
      BY <1>2 DEF Publish, Fans
  <2>2. /\ backlog' = [s \in Subs |-> backlog'[s]]
        /\ \A s \in Subs \ req[p].subs : backlog'[s] = backlog[s]
      BY <2>1
  <2> QED BY <1>0, <2>1, <2>2, Signalled
<1>3. ASSUME NEW s \in Subs, NEW a, redeliver(s, a) PROVE Awake'
  <2>1. /\ signal({s}) /\ backlog' = [backlog EXCEPT ![s] = <<outstanding[s][a].msg>> \o backlog[s]]
      BY <1>3 DEF redeliver, Returns
  <2>2. /\ backlog' = [r \in Subs |-> backlog'[r]] /\ \A r \in Subs \ {s} : backlog'[r] = backlog[r]
      BY <1>0, <2>1 DEF Awake
  <2> QED BY <1>0, <2>1, <2>2, Signalled
<1>4. ASSUME NEW p \in Procs, DropMailbox(p) PROVE Awake'
  <2>1. UNCHANGED stream /\ backlog' = [backlog EXCEPT ![req[p].sub] = <<>>] BY <1>4 DEF DropMailbox
  <2>2. /\ backlog' = [r \in Subs |-> backlog'[r]]
        /\ \A r \in Subs : backlog'[r] = <<>> \/ backlog'[r] = backlog[r]
      BY <1>0, <2>1 DEF Awake
  <2>3. NoLostWakeup' BY <1>0, <2>1, <2>2 DEF Awake, NoLostWakeup, Pulling
  <2> QED BY <1>0, <2>1, <2>2, <2>3 DEF Awake, Pulling
<1>5. ASSUME NEW p \in Procs, RestorePending(p) PROVE Awake'
  <2> DEFINE S == {s \in req[p].subs : snap.msgs[s] # <<>>}
  <2>1. /\ signal(S)
        /\ backlog' = [s \in Subs |-> IF s \in req[p].subs THEN snap.msgs[s] ELSE <<>>]
      BY <1>5 DEF RestorePending, Restores
  <2>2. /\ backlog' = [r \in Subs |-> backlog'[r]] /\ \A r \in Subs \ S : backlog'[r] = <<>>
      BY <2>1
  <2> HIDE DEF S
  <2> QED BY <1>0, <2>1, <2>2, Signalled
<1>6. ASSUME NEW p \in Procs, Pull(p) PROVE Awake'
  <2>1. req[p].sub \in Subs /\ UNCHANGED stream BY <1>6 DEF Pull, Inv, Actors, Request, At
  <2>2. \/ UNCHANGED backlog
        \/ backlog[req[p].sub] # <<>> /\ \E n : take(req[p].sub, n, AckDeadline)
      BY <1>6 DEF Pull
  <2> QED BY <1>0, <1>1, <2>1, <2>2, TakeWakes
<1>7. ASSUME NEW c \in Streams, StreamTake(c) PROVE Awake'
  <2>1. stream[c].sub \in Subs /\ Pulling(stream[c]) /\ stream[c].at = "take"
      BY <1>7 DEF StreamTake, Inv, Actors, Pulling
  <2>2. CASE backlog[stream[c].sub] = <<>>
    <3> DEFINE q == [stream[c] EXCEPT !.at = "wait"]
    <3>1. stream' = [stream EXCEPT ![c] = q] /\ UNCHANGED backlog BY <1>7, <2>2 DEF StreamTake
    <3>2. Pulling(q) /\ q.sub = stream[c].sub BY <2>1 DEF Pulling
    <3> HIDE DEF q
    <3> QED BY <1>0, <2>2, <3>1, <3>2, StreamMoves
  <2>3. CASE backlog[stream[c].sub] # <<>>
    <3>1. /\ take(stream[c].sub, Len(backlog[stream[c].sub]), AckDeadline)
          /\ stream' = stream \/ stream' = [stream EXCEPT ![c] = Closed]
        BY <1>7, <2>3 DEF StreamTake
    <3>2. CASE stream' = stream BY <1>0, <2>1, <2>3, <3>1, <3>2, TakeWakes
    <3>3. CASE stream' = [stream EXCEPT ![c] = Closed]
      <4>1. /\ backlog' = [r \in Subs |-> backlog'[r]]
            /\ \A r \in Subs \ {stream[c].sub} : backlog'[r] = backlog[r]
          BY <1>0, <3>1 DEF take, Awake
      <4>2. /\ stream' = [d \in Streams |-> stream'[d]] /\ stream'[c] = Closed
            /\ \A d \in Streams \ {c} : stream'[d] = stream[d]
          BY <1>0, <3>3 DEF Awake
      <4>3. Pulling(Closed) /\ Closed.at # "wait" BY DEF Pulling, Closed
      <4>4. \A d \in Streams : Pulling(stream'[d]) BY <1>0, <4>2, <4>3 DEF Awake
      <4>5. NoLostWakeup'
        <5> SUFFICES ASSUME NEW d \in Streams, stream'[d].at = "wait", ~stream'[d].token
                     PROVE  backlog'[stream'[d].sub] = <<>>
            BY DEF NoLostWakeup
        <5>1. stream'[d] = stream[d] BY <4>2, <4>3
        <5>2. backlog[stream[d].sub] = <<>> /\ stream[d].sub \in Subs BY <1>0, <5>1 DEF Awake, NoLostWakeup, Pulling
        <5> QED BY <2>3, <4>1, <5>1, <5>2
      <4> QED BY <4>1, <4>2, <4>4, <4>5 DEF Awake, Pulling
    <3> QED BY <3>1, <3>2, <3>3
  <2> QED BY <2>2, <2>3
<1>8. ASSUME NEW c \in Streams, NEW s \in Subs, OpenStream(c, s) PROVE Awake'
  <2> DEFINE q == [at |-> "take", sub |-> s, token |-> FALSE]
  <2>1. stream' = [stream EXCEPT ![c] = q] /\ UNCHANGED backlog BY <1>8 DEF OpenStream, mailbox
  <2>2. Pulling(q) /\ q.at # "wait" BY DEF Pulling
  <2> HIDE DEF q
  <2> QED BY <1>0, <2>1, <2>2, StreamMoves
<1>9. ASSUME NEW c \in Streams, StreamWakes(c) PROVE Awake'
  <2> DEFINE q == [stream[c] EXCEPT !.at = "take", !.token = FALSE]
  <2>1. Pulling(stream[c]) /\ stream[c].at = "wait" BY <1>0, <1>9 DEF StreamWakes, Awake
  <2>2. stream' = [stream EXCEPT ![c] = q] /\ UNCHANGED backlog BY <1>0, <1>9 DEF StreamWakes, mailbox, Awake
  <2>3. Pulling(q) /\ q.at # "wait" BY <2>1 DEF Pulling
  <2> HIDE DEF q
  <2> QED BY <1>0, <2>2, <2>3, StreamMoves
<1>10. ASSUME NEW c \in Streams, CloseStream(c) PROVE Awake'
  <2>1. stream' = [stream EXCEPT ![c] = Closed] /\ UNCHANGED backlog BY <1>10 DEF CloseStream, mailbox
  <2>2. Pulling(Closed) /\ Closed.at # "wait" BY DEF Pulling, Closed
  <2> QED BY <1>0, <2>1, <2>2, StreamMoves
<1>11. ASSUME NEW x \in firing, expire(x) PROVE Awake'
  <2>1. x[1] \in Subs BY DEF Inv, LeaseInv, Known
  <2> QED BY <1>1, <1>3, <1>11, <2>1 DEF expire
<1>12. ASSUME NEW s \in Subs, NEW a, Nack(s, a) PROVE Awake' BY <1>3, <1>12 DEF Nack
<1>13. ASSUME \/ \E t \in Topics : CreateTopic(t) \/ DeleteTopic(t)
              \/ \E p \in Procs : \/ \E t \in Topics : BeginPublish(p, t)
                                  \/ \E s \in Subs, t \in Topics : BeginCreate(p, s, t)
                                  \/ subscriptionsFor(p) \/ CreateSubscription(p)
                                  \/ \E s \in Subs : DeleteSubscription(p, s)
                                  \/ \E s \in Subs : BeginPull(p, s)
                                  \/ Pending(p) \/ WriteSnapshot(p) \/ ReadSnapshot(p) \/ LiveSubscriptions(p)
              \/ \E s \in Subs : \E a \in DOMAIN outstanding[s] :
                    Acknowledge(s, a) \/ \E d \in Extensions : ModifyAckDeadline(s, a, d)
              \/ \E t \in timers : TimerFires(t)
              \/ Tick
       PROVE  UNCHANGED <<backlog, stream>>
    BY <1>13 DEF CreateTopic, DeleteTopic, BeginPublish, BeginCreate, GetTopic, subscriptionsFor,
                 CreateSubscription, DeleteSubscription, BeginPull, Pending, WriteSnapshot, ReadSnapshot,
                 LiveSubscriptions, Acknowledge, ModifyAckDeadline, TimerFires, Tick, mailbox
<1> QED BY <1>1, <1>2, <1>4, <1>5, <1>6, <1>7, <1>8, <1>9, <1>10, <1>11, <1>12, <1>13 DEF Step

-----------------------------------------------------------------------------
LEMMA InvStep == Inv /\ [Next]_vars => Inv' /\ (NoReuse \/ UNCHANGED vars)
<1> SUFFICES ASSUME Inv, [Next]_vars PROVE Inv' /\ (NoReuse \/ UNCHANGED vars) OBVIOUS
<1>1. CASE Step
  <2>1. LeaseInv' /\ NoReuse BY <1>1, LeaseStep
  <2>2. Awake' BY <1>1, AwakeStep
  <2>3. req' = [p \in Procs |-> req'[p]] /\ \A p \in Procs : Request(req'[p]) BY <1>1, RequestStep
  <2>4. Actors' BY <2>2, <2>3 DEF Actors, Awake, Request
  <2> QED BY <2>1, <2>2, <2>4 DEF Inv, Awake
<1>2. CASE UNCHANGED vars
  <2>1. LeaseInv' BY <1>2 DEF vars, Inv, LeaseInv, Known, Timed, Armed, Shaped
  <2>2. Actors' BY <1>2 DEF vars, Inv, Actors, Request, Pulling
  <2>3. NoLostWakeup' BY <1>2 DEF vars, Inv, NoLostWakeup
  <2> QED BY <1>2, <2>1, <2>2, <2>3 DEF Inv
<1> QED BY <1>1, <1>2 DEF Next

LEMMA InvAlways == Spec => []Inv
<1>1. Inv /\ [Next]_vars => Inv' BY InvStep
<1> QED BY <1>1, InvInit, PTL DEF Spec

\* Whatever acks, nacks, extensions, expiries, deletions and restores race, a
\* lease has its timer or a callback on its way, and is taken back only when
\* its last deadline has passed (redeliver, expire and ModifyAckDeadline).
THEOREM LeasesOnTime == Spec => []LeaseOnTime
<1>1. Inv => LeaseOnTime
  <2> SUFFICES ASSUME Inv PROVE LeaseOnTime OBVIOUS
  <2>1. ASSUME NEW s \in Subs, NEW a \in DOMAIN outstanding[s] PROVE Armed(s, a) \/ <<s, a>> \in firing
      BY DEF Inv, LeaseInv, Timed
  <2>2. ASSUME NEW x \in firing, x[2] \in DOMAIN outstanding[x[1]] PROVE outstanding[x[1]][x[2]].at <= now
    <3>1. x = <<x[1], x[2]>> /\ x[1] \in Subs BY DEF Inv, LeaseInv, Known
    <3>2. Timed(x[1], x[2]) BY <2>2, <3>1 DEF Inv, LeaseInv
    <3>3. <<x[1], x[2]>> \in firing BY <3>1
    <3> QED BY <3>2, <3>3 DEF Timed
  <2> QED BY <2>1, <2>2 DEF LeaseOnTime
<1> QED BY <1>1, InvAlways, PTL

\* take numbers the deliveries of the whole process, and a restore does not
\* start the numbers again: no lease gets an ack id handed out before.
THEOREM AckIDsAreFresh == Spec => AckIDsFresh
<1>1. Inv /\ [Next]_vars => [NoReuse]_vars BY InvStep
<1>2. Spec => [][NoReuse]_vars BY <1>1, InvAlways, PTL DEF Spec
<1> QED BY <1>2 DEF AckIDsFresh, NoReuse

\* Every step that fills a backlog signals its streams under the same mutex, and
\* a stream looks once more after each token: none sleeps through a message.
THEOREM NoWakeupLost == Spec => []NoLostWakeup
<1>1. Inv => NoLostWakeup BY DEF Inv
<1> QED BY <1>1, InvAlways, PTL
=============================================================================
