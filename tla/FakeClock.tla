----------------------------- MODULE FakeClock -----------------------------
(***************************************************************************)
(* The virtual clock (core/clock/fake.go): time stands still until a       *)
(* client moves it, and moving it runs the timers that come due, in the    *)
(* order of their deadlines.  The mutex is dropped around each callback,   *)
(* so anything may happen between two of them: a step here is what one     *)
(* call does while it holds the mutex.                                     *)
(*                                                                         *)
(* The queue is sorted by (when, seq) on every insert, so it is the set of *)
(* its timers under that order.  A timer is its deadline and its sequence  *)
(* number, which no two share.  Callbacks never move the clock themselves; *)
(* what else they do to it, they do as any caller of AfterFunc and Stop.   *)
(***************************************************************************)
EXTENDS Integers, FiniteSets

CONSTANTS Clients,       \* those who move the clock
          Durations,     \* what they advance by
          Delays,        \* delays given to AfterFunc
          RestoreTimes,  \* times a snapshot sets the clock to
          RestoreAhead,  \* whether those may be later than the clock
          MaxNow,        \* bound on the clock
          MaxTimers,     \* bound on the timers ever scheduled
          None           \* no advance under way, or no timer

ASSUME ClockInputs ==
    /\ Durations \subseteq Nat /\ Delays \subseteq Int /\ RestoreTimes \subseteq Nat
    /\ MaxNow \in Nat /\ MaxTimers \in Nat /\ RestoreAhead \in BOOLEAN
    /\ None \notin [by : Clients, target : Int, timer : [when : Int, seq : Nat]]
    /\ None \notin [when : Int, seq : Nat]

\* The inputs of a run of one emulator: no timer is set in the past, and a
\* restored snapshot is not later than the clock.
ForwardInputs == Delays \subseteq Nat /\ ~RestoreAhead

VARIABLES now,      \* c.now
          q,        \* c.q, as a set
          seq,      \* c.seq
          run,      \* the advance under way, in a callback: c.in is run # None
          answer,   \* answer[p]: how p's last travel ended
          last      \* ghost: the timer fired last since the clock was last set

vars == <<now, q, seq, run, answer, last>>

Timer == [when : Int, seq : Nat]

before(t, u) == IF t.when = u.when THEN t.seq < u.seq ELSE t.when < u.when

Init ==
    /\ now = 0 /\ q = {} /\ seq = 0
    /\ run = None
    /\ answer = [p \in Clients |-> "none"]
    /\ last = None

-----------------------------------------------------------------------------
\* A new timer goes after the ones with its deadline.
AfterFunc(d) ==
    /\ seq < MaxTimers
    /\ q' = q \cup {[when |-> now + d, seq |-> seq]}
    /\ seq' = seq + 1
    /\ UNCHANGED <<now, run, answer, last>>

\* A timer that is no longer queued has fired or is stopped, and Stop reports
\* false.
Stop(t) ==
    /\ t \in q
    /\ q' = q \ {t}
    /\ UNCHANGED <<now, seq, run, answer, last>>

\* Mutants: timers due at the target itself are left; of the timers with one
\* deadline the latest goes first.
DueBefore(target) == {t \in q : t.when < target}
FirstReversed(s) ==
    CHOOSE t \in s : \A u \in s \ {t} : t.when < u.when \/ (t.when = u.when /\ u.seq < t.seq)

Due(target) == {t \in q : t.when <= target}
First(s) == CHOOSE t \in s : \A u \in s \ {t} : before(t, u)

\* The loop of runTo up to its next callback, or to its end.
NextTimer(p, target, due, t) ==
    IF due = {}
    THEN /\ now' = target
         /\ run' = None
         /\ answer' = [answer EXCEPT ![p] = "reached"]
         /\ UNCHANGED <<q, last>>
    ELSE /\ q' = q \ {t}
         /\ now' = t.when
         /\ run' = [by |-> p, target |-> target, timer |-> t]
         /\ last' = t
         /\ UNCHANGED answer

\* Mutant: callbacks see the target instead of their own deadline.
LoopAhead(p, target) ==
    LET t == First(Due(target)) IN
    IF Due(target) = {}
    THEN NextTimer(p, target, {}, t)
    ELSE /\ q' = q \ {t}
         /\ now' = target
         /\ run' = [by |-> p, target |-> target, timer |-> t]
         /\ last' = t
         /\ UNCHANGED answer

Loop(p, target) == NextTimer(p, target, Due(target), First(Due(target)))

\* A travel while another is in a callback panics, and changes nothing.
runTo(p, target) ==
    IF run # None
    THEN /\ answer' = [answer EXCEPT ![p] = "panic"]
         /\ UNCHANGED <<now, q, run, last>>
    ELSE Loop(p, target)

Waits(p) == run # None /\ run.by = p

Advance(p, d) ==
    /\ ~Waits(p)
    /\ now + d <= MaxNow
    /\ runTo(p, now + d)
    /\ UNCHANGED seq

AdvanceTo(p, target) ==
    /\ ~Waits(p)
    /\ IF target > now
       THEN runTo(p, target)
       ELSE /\ answer' = [answer EXCEPT ![p] = IF target < now THEN "unreachable" ELSE "reached"]
            /\ UNCHANGED <<now, q, run, last>>
    /\ UNCHANGED seq

\* The callback returns, and runTo goes on.
CallbackReturns(p) ==
    /\ Waits(p)
    /\ Loop(p, run.target)
    /\ UNCHANGED seq

\* A restored snapshot sets the clock, and fires nothing.
SetNow(t) ==
    /\ RestoreAhead \/ t <= now
    /\ now' = t
    /\ last' = None
    /\ UNCHANGED <<q, seq, run, answer>>

Next ==
    \/ \E d \in Delays : AfterFunc(d)
    \/ \E t \in q : Stop(t)
    \/ \E p \in Clients : \E d \in Durations : Advance(p, d)
    \/ \E p \in Clients : \E t \in 0..MaxNow : AdvanceTo(p, t)
    \/ \E p \in Clients : CallbackReturns(p)
    \/ \E t \in RestoreTimes : SetNow(t)

Spec == Init /\ [][Next]_vars

-----------------------------------------------------------------------------
\* Types, and no two timers share a sequence number, which is what makes the
\* order of the queue total.
Answers == {"none", "reached", "unreachable", "panic"}
TypeOK ==
    /\ now \in Int
    /\ q \subseteq Timer
    /\ seq \in Nat
    /\ run = None \/ run \in [by : Clients, target : Int, timer : Timer]
    /\ answer \in [Clients -> Answers]
    /\ last = None \/ last \in Timer
    /\ \A t \in q : t.seq < seq
    /\ \A t, u \in q : t.seq = u.seq => t = u

\* No queued timer is behind the clock: AfterFunc and runTo leave nothing
\* overdue, so no deadline is missed however calls and callbacks interleave.
NothingOverdue == \A t \in q : now <= t.when

\* Travel moves the clock forward only, callback by callback: "a chain sees a
\* monotonic clock".
TravelMovesForward == [][run' # run \/ answer' # answer => now <= now']_vars

\* Callbacks run in the order of their deadlines, those of one deadline in the
\* order they were scheduled, including the ones scheduled by a callback.
FiredInOrder ==
    [][last # None /\ last' \notin {None, last} => before(last, last')]_vars

\* An advance ends at its target with nothing due left behind, even what its
\* own callbacks scheduled.
TravelDrains ==
    [][run # None /\ run' = None => now' = run.target /\ \A t \in q' : now' < t.when]_vars

\* "concurrent absolute travel converges on the latest target": a client that
\* travels while another does is never refused with a panic.
ConcurrentTravelConverges == \A p \in Clients : answer[p] # "panic"
=============================================================================
