-------------------------- MODULE FakeClockProofs --------------------------
(***************************************************************************)
(* For all clients, durations, delays and bounds: timers run at their      *)
(* deadlines, in order, and none is missed, however travel, scheduling and *)
(* callbacks interleave, as long as no timer is set in the past and no     *)
(* snapshot from the future is restored (ForwardInputs).                   *)
(***************************************************************************)
EXTENDS FakeClock, WellFoundedInduction, TLAPS

\* A nonempty set of naturals has a least element.
LEMMA LeastNatural ==
    ASSUME NEW T, T \subseteq Nat, T # {}
    PROVE  \E i \in T : \A j \in T : i <= j
<1>1. \E i \in T : \A j \in T : <<j, i>> \notin OpToRel(<, Nat)
    BY NatLessThanWellFounded, WFMin
<1>2. PICK i \in T : \A j \in T : <<j, i>> \notin OpToRel(<, Nat)
    BY <1>1
<1>3. \A j \in T : ~(j < i)
    BY <1>2 DEF OpToRel
<1> QED
    BY <1>3

NatTimer == [when : Nat, seq : Nat]

\* The first of a nonempty set of timers is one of them and comes before the
\* others: runTo's q[0].
LEMMA FirstIsEarliest ==
    ASSUME NEW s, s \subseteq NatTimer, s # {},
           \A t, u \in s : t.seq = u.seq => t = u
    PROVE  /\ First(s) \in s
           /\ \A u \in s \ {First(s)} : before(First(s), u)
<1> DEFINE W == {t.when : t \in s}
<1>1. W \subseteq Nat /\ W # {}
    BY DEF NatTimer
<1>2. PICK w \in W : \A j \in W : w <= j
    <2> HIDE DEF W
    <2> QED BY <1>1, LeastNatural
<1> DEFINE Q == {t.seq : t \in {u \in s : u.when = w}}
<1>3. Q \subseteq Nat /\ Q # {}
    BY <1>2 DEF NatTimer
<1>4. PICK i \in Q : \A j \in Q : i <= j
    <2> HIDE DEF Q
    <2> QED BY <1>3, LeastNatural
<1>5. PICK t \in s : t.when = w /\ t.seq = i
    BY <1>4
<1>6. \A u \in s \ {t} : before(t, u)
    <2> SUFFICES ASSUME NEW u \in s, u # t
                 PROVE  before(t, u)
        OBVIOUS
    <2>1. w <= u.when /\ (u.when = w => i <= u.seq) /\ u.seq # i
        BY <1>2, <1>4, <1>5
    <2>2. w \in Nat /\ i \in Nat /\ u.when \in Nat /\ u.seq \in Nat
        BY <1>1, <1>2, <1>3, <1>4 DEF NatTimer
    <2> QED
        BY <1>5, <2>1, <2>2 DEF before
<1> HIDE DEF W, Q
<1> QED
    BY <1>5, <1>6 DEF First

-----------------------------------------------------------------------------
\* The parts of the inductive invariant.  Deadlines are not in the past, an
\* advance in a callback has its target ahead, and the timer that fired last is
\* behind the clock and before everything queued.
NatTimes == now \in Nat /\ q \subseteq NatTimer
TargetAhead == run # None => run.target \in Nat /\ now <= run.target
LastBehind ==
    last # None => /\ last \in NatTimer
                   /\ last.when <= now /\ last.seq < seq
                   /\ \A t \in q : before(last, t)
IInv == TypeOK /\ NatTimes /\ NothingOverdue /\ TargetAhead /\ LastBehind

LEMMA InitIInv == Init => IInv
    BY DEF Init, IInv, TypeOK, NatTimes, NothingOverdue, TargetAhead, LastBehind, Answers

\* What one turn of runTo's loop does: it ends at the target, with nothing due,
\* or it fires the first timer due.
LEMMA LoopStep ==
    ASSUME IInv, NEW p \in Clients, NEW target \in Nat, now <= target,
           Loop(p, target), seq' = seq
    PROVE  /\ IInv'
           /\ now <= now'
           /\ last' = last \/ (last # None => before(last, last'))
           /\ run' = None => now' = target /\ \A t \in q' : now' < t.when
<1> DEFINE D == Due(target)
           f == First(D)
<1>1. D \subseteq q /\ D \subseteq NatTimer /\ \A t, u \in D : t.seq = u.seq => t = u
    BY DEF Due, IInv, NatTimes, TypeOK
<1>2. CASE D = {}
    <2>1. /\ now' = target /\ run' = None /\ q' = q /\ last' = last
          /\ answer' = [answer EXCEPT ![p] = "reached"]
        BY <1>2 DEF Loop, NextTimer
    <2>2. \A t \in q : target < t.when
        BY <1>2 DEF Due, IInv, NatTimes, NatTimer
    <2>3. TypeOK' /\ NatTimes'
        BY <2>1 DEF IInv, TypeOK, NatTimes, Answers
    <2>4. NothingOverdue' /\ TargetAhead'
        BY <2>1, <2>2 DEF IInv, NothingOverdue, TargetAhead, NatTimes, NatTimer
    <2>5. LastBehind'
        BY <2>1 DEF IInv, LastBehind, NatTimes, NatTimer
    <2> QED
        BY <2>1, <2>2, <2>3, <2>4, <2>5 DEF IInv
<1>3. CASE D # {}
    <2>1. f \in D /\ \A u \in D \ {f} : before(f, u)
        <3> HIDE DEF D
        <3> QED BY <1>1, <1>3, FirstIsEarliest
    <2>2. /\ q' = q \ {f} /\ now' = f.when /\ last' = f
          /\ run' = [by |-> p, target |-> target, timer |-> f]
          /\ answer' = answer
        BY <1>3 DEF Loop, NextTimer
    <2>3. f \in q /\ f \in NatTimer /\ f.when <= target /\ now <= f.when
        BY <1>1, <2>1 DEF Due, IInv, NothingOverdue
    <2>4. \A u \in q \ {f} : before(f, u)
        <3> SUFFICES ASSUME NEW u \in q, u # f PROVE before(f, u)
            OBVIOUS
        <3>1. u \in NatTimer
            BY DEF IInv, NatTimes
        <3>2. CASE u \in D
            BY <2>1, <3>2
        <3>3. CASE u \notin D
            <4>1. target < u.when
                BY <3>1, <3>3 DEF Due, NatTimer
            <4> QED
                BY <2>3, <3>1, <4>1 DEF before, NatTimer
        <3> QED BY <3>2, <3>3
    <2> HIDE DEF D, f
    <2>5. run' # None
        BY <2>2, <2>3, ClockInputs DEF NatTimer
    <2>6. TypeOK'
        BY <2>2, <2>3 DEF IInv, TypeOK, NatTimer, Timer
    <2>7. NatTimes' /\ TargetAhead'
        BY <2>2, <2>3 DEF IInv, NatTimes, NatTimer, TargetAhead
    <2>8. NothingOverdue'
        BY <2>2, <2>3, <2>4 DEF IInv, NatTimes, NothingOverdue, before, NatTimer
    <2>9. LastBehind'
        BY <2>2, <2>3, <2>4 DEF LastBehind, IInv, TypeOK, NatTimer
    <2>10. last # None => before(last, f)
        BY <2>3 DEF IInv, LastBehind
    <2> QED
        BY <2>2, <2>3, <2>5, <2>6, <2>7, <2>8, <2>9, <2>10 DEF IInv, NatTimes, NatTimer
<1> HIDE DEF D
<1> QED
    BY <1>2, <1>3

\* A step that leaves the clock, the queue and the advance alone.
LEMMA QuietStep ==
    ASSUME IInv, UNCHANGED <<now, q, seq, run, last>>,
           answer' \in [Clients -> Answers]
    PROVE  IInv'
    BY DEF IInv, TypeOK, NatTimes, NothingOverdue, TargetAhead, LastBehind

\* What every travel step keeps: the invariant, the direction of time, the
\* order of callbacks and a complete drain.
Travels ==
    /\ IInv'
    /\ now <= now'
    /\ last' = last \/ (last # None => before(last, last'))
    /\ run # None /\ run' = None => now' = run.target /\ \A t \in q' : now' < t.when

LEMMA RunToStep ==
    ASSUME IInv, NEW p \in Clients, NEW target \in Nat, now <= target,
           runTo(p, target), seq' = seq
    PROVE  Travels
<1>1. CASE run = None
    <2>1. Loop(p, target)
        BY <1>1 DEF runTo
    <2> QED
        BY <1>1, <2>1, LoopStep DEF Travels
<1>2. CASE run # None
    <2>1. /\ UNCHANGED <<now, q, run, last>>
          /\ answer' = [answer EXCEPT ![p] = "panic"]
        BY <1>2 DEF runTo
    <2>2. answer' \in [Clients -> Answers]
        BY <2>1 DEF IInv, TypeOK, Answers
    <2>3. IInv' /\ now \in Nat
        BY <2>1, <2>2, QuietStep DEF IInv, NatTimes
    <2> QED
        BY <1>2, <2>1, <2>3 DEF Travels
<1> QED
    BY <1>1, <1>2

\* The three travel actions.
LEMMA TravelStep ==
    ASSUME IInv, NEW p \in Clients,
           \/ \E d \in Durations : Advance(p, d)
           \/ \E t \in 0..MaxNow : AdvanceTo(p, t)
           \/ CallbackReturns(p)
    PROVE  Travels
<1>0. now \in Nat /\ MaxNow \in Nat
    BY ClockInputs DEF IInv, NatTimes
<1>1. CASE \E d \in Durations : Advance(p, d)
    <2>1. PICK d \in Durations : Advance(p, d)
        BY <1>1
    <2>2. now + d \in Nat /\ now <= now + d
        BY <1>0, ClockInputs
    <2>3. runTo(p, now + d) /\ seq' = seq
        BY <2>1 DEF Advance
    <2> QED
        BY <2>2, <2>3, RunToStep
<1>2. CASE \E t \in 0..MaxNow : AdvanceTo(p, t)
    <2>1. PICK t \in 0..MaxNow : AdvanceTo(p, t)
        BY <1>2
    <2>2. t \in Nat /\ seq' = seq
        BY <1>0, <2>1 DEF AdvanceTo
    <2>3. CASE t > now
        <3>1. runTo(p, t) /\ now <= t
            BY <1>0, <2>1, <2>2, <2>3 DEF AdvanceTo
        <3> QED
            BY <2>2, <3>1, RunToStep
    <2>4. CASE ~(t > now)
        <3>1. /\ UNCHANGED <<now, q, run, last>>
              /\ answer' = [answer EXCEPT ![p] = IF t < now THEN "unreachable" ELSE "reached"]
            BY <2>1, <2>4 DEF AdvanceTo
        <3>2. answer' \in [Clients -> Answers]
            BY <3>1 DEF IInv, TypeOK, Answers
        <3>3. IInv'
            BY <2>2, <3>1, <3>2, QuietStep
        <3> QED
            BY <1>0, <3>1, <3>3 DEF Travels
    <2> QED
        BY <2>3, <2>4
<1>3. CASE CallbackReturns(p)
    <2>1. run # None /\ Loop(p, run.target) /\ seq' = seq
        BY <1>3 DEF CallbackReturns, Waits
    <2>2. run.target \in Nat /\ now <= run.target
        BY <2>1 DEF IInv, TargetAhead
    <2> QED
        BY <2>1, <2>2, LoopStep DEF Travels
<1> QED
    BY <1>1, <1>2, <1>3

\* Every step keeps the invariant, and every step but SetNow is as good as a
\* travel step.
LEMMA NextIInv ==
    ASSUME ForwardInputs, IInv, [Next]_vars
    PROVE  /\ IInv'
           /\ Travels \/ (last' = None /\ run' = run /\ answer' = answer)
<1>0. now \in Nat
    BY DEF IInv, NatTimes
<1>1. CASE \E d \in Delays : AfterFunc(d)
    <2>1. PICK d \in Delays : AfterFunc(d)
        BY <1>1
    <2> DEFINE t == [when |-> now + d, seq |-> seq]
    <2>2. d \in Nat /\ t \in NatTimer /\ t \in Timer /\ now <= t.when
        BY <1>0 DEF ForwardInputs, NatTimer, Timer, IInv, TypeOK
    <2>3. /\ q' = q \cup {t} /\ seq' = seq + 1
          /\ UNCHANGED <<now, run, answer, last>>
        BY <2>1 DEF AfterFunc
    <2>4. TypeOK'
        <3>1. seq' \in Nat /\ \A u \in q : u.seq < seq /\ u.seq # seq /\ u.seq < seq + 1
            BY <2>3 DEF IInv, TypeOK, Timer
        <3> QED
            BY <2>2, <2>3, <3>1 DEF IInv, TypeOK
    <2>5. NatTimes' /\ NothingOverdue' /\ TargetAhead'
        BY <2>2, <2>3 DEF IInv, NatTimes, NothingOverdue, TargetAhead
    <2>6. LastBehind'
        <3>1. last # None => before(last, t)
            BY <2>2 DEF IInv, LastBehind, before, NatTimer, TypeOK
        <3> QED
            BY <2>3, <3>1 DEF IInv, LastBehind, TypeOK, NatTimer
    <2> QED
        BY <1>0, <2>3, <2>4, <2>5, <2>6 DEF IInv, Travels
<1>2. CASE \E t \in q : Stop(t)
    <2>1. q' \subseteq q /\ UNCHANGED <<now, seq, run, answer, last>>
        BY <1>2 DEF Stop
    <2>2. TypeOK' /\ NatTimes'
        BY <2>1 DEF IInv, TypeOK, NatTimes
    <2>3. NothingOverdue' /\ TargetAhead' /\ LastBehind'
        BY <2>1 DEF IInv, NothingOverdue, TargetAhead, LastBehind
    <2> QED
        BY <1>0, <2>1, <2>2, <2>3 DEF IInv, Travels
<1>3. CASE \E p \in Clients : \/ \E d \in Durations : Advance(p, d)
                              \/ \E t \in 0..MaxNow : AdvanceTo(p, t)
                              \/ CallbackReturns(p)
    <2>1. Travels
        BY <1>3, TravelStep
    <2> QED
        BY <2>1 DEF Travels
<1>4. CASE \E t \in RestoreTimes : SetNow(t)
    <2>1. /\ now' \in Nat /\ now' <= now /\ last' = None
          /\ UNCHANGED <<q, seq, run, answer>>
        BY <1>4, ClockInputs DEF SetNow, ForwardInputs
    <2>2. TypeOK' /\ NatTimes' /\ LastBehind'
        BY <2>1 DEF IInv, TypeOK, NatTimes, LastBehind
    <2>3. NothingOverdue' /\ TargetAhead'
        BY <1>0, <2>1 DEF IInv, NatTimes, NatTimer, NothingOverdue, TargetAhead
    <2> QED
        BY <2>1, <2>2, <2>3 DEF IInv
<1>5. CASE UNCHANGED vars
    <2>1. IInv'
        BY <1>5, QuietStep DEF vars, IInv, TypeOK
    <2> QED
        BY <1>0, <1>5, <2>1 DEF Travels, vars
<1> QED
    BY <1>1, <1>2, <1>3, <1>4, <1>5 DEF Next

-----------------------------------------------------------------------------
\* The invariant holds of every behaviour of a clock with forward inputs.
LEMMA Invariant ==
    ASSUME ForwardInputs
    PROVE  Spec => []IInv
<1>1. IInv /\ [Next]_vars => IInv'
    BY NextIInv
<1> QED
    BY InitIInv, <1>1, PTL DEF Spec

\* The types of the clock hold, and timers have distinct sequence numbers.
THEOREM TypeCorrect ==
    ASSUME ForwardInputs
    PROVE  Spec => []TypeOK
    BY Invariant, PTL DEF IInv

\* No queued timer is ever behind the clock: runTo misses no deadline.
THEOREM NoDeadlineMissed ==
    ASSUME ForwardInputs
    PROVE  Spec => []NothingOverdue
    BY Invariant, PTL DEF IInv

\* Travel never moves the clock back.
THEOREM TimeMovesForward ==
    ASSUME ForwardInputs
    PROVE  Spec => TravelMovesForward
<1>1. IInv /\ [Next]_vars => [run' # run \/ answer' # answer => now <= now']_vars
    BY NextIInv DEF Travels
<1> QED
    BY <1>1, Invariant, PTL DEF Spec, TravelMovesForward

\* Callbacks run in the order of the queue, whatever they schedule themselves.
THEOREM CallbacksInOrder ==
    ASSUME ForwardInputs
    PROVE  Spec => FiredInOrder
<1>1. IInv /\ [Next]_vars =>
        [last # None /\ last' \notin {None, last} => before(last, last')]_vars
    BY NextIInv DEF Travels
<1> QED
    BY <1>1, Invariant, PTL DEF Spec, FiredInOrder

\* An advance ends at its target and leaves nothing due.
THEOREM AdvanceDrains ==
    ASSUME ForwardInputs
    PROVE  Spec => TravelDrains
<1>1. IInv /\ [Next]_vars =>
        [run # None /\ run' = None => now' = run.target /\ \A t \in q' : now' < t.when]_vars
    BY NextIInv DEF Travels
<1> QED
    BY <1>1, Invariant, PTL DEF Spec, TravelDrains
=============================================================================
