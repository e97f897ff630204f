------------------------------- MODULE Drain --------------------------------
(***************************************************************************)
(* Waiting out a jump of the virtual clock: drainAsync (cloudrig.go) as     *)
(* transport/clock.go calls it after Advance, over the asynchronous work of *)
(* the scheduler, the event bus (core/events) and the task queues.  Each    *)
(* of the three counts the work it ever started and can be waited on; work  *)
(* of one may start work of another, a trigger's delivery that failed waits *)
(* on the clock for its next attempt, and clients the jump knows nothing of *)
(* start work too.  drainAsync reads one counter or waits for one           *)
(* subsystem at a time.                                                    *)
(***************************************************************************)
EXTENDS Integers, Sequences, FiniteSets, SequencesExt

CONSTANTS MaxWork,      \* bound on work ever started
          MaxPasses,    \* drainAsync's cap: 100 in the code
          MaxAttempts,  \* MaxDeliveryAttempts of a trigger
          MaxJumps      \* bound on clock jumps of the client

VARIABLES work,   \* work ever started: [stage, at, attempt, ofJump]
          drain,  \* the clock handler: [at, next, before, after, pass]
          jumps   \* clock jumps the client has made

vars == <<work, drain, jumps>>

\* drainAsync's order.
Stages == <<"cs", "bus", "ct">>
Idle == [at |-> "idle", next |-> 1, before |-> 0, after |-> 0, pass |-> 0]

Started(stage) == Cardinality({i \in DOMAIN work : work[i].stage = stage})
Busy(stage) == \E i \in DOMAIN work : work[i].stage = stage /\ work[i].at # "done"

Init == work = <<>> /\ drain = Idle /\ jumps = 0

NewWork(stage, ofJump) == [stage |-> stage, at |-> "running", attempt |-> 1, ofJump |-> ofJump]

-----------------------------------------------------------------------------
\* A request of another client: an upload, a published message, a created task.
Publish(stage) ==
    /\ Len(work) < MaxWork
    /\ work' = Append(work, NewWork(stage, FALSE))
    /\ UNCHANGED <<drain, jumps>>

\* A handler of running work publishes, enqueues or fires further work.
Spawn(i, stage) ==
    /\ work[i].at = "running"
    /\ Len(work) < MaxWork
    /\ work' = Append(work, NewWork(stage, work[i].ofJump))
    /\ UNCHANGED <<drain, jumps>>

Finish(i) ==
    /\ work[i].at = "running"
    /\ work' = [work EXCEPT ![i].at = "done"]
    /\ UNCHANGED <<drain, jumps>>

\* deliverWithRetry: the function answered an error, and the delivery's
\* goroutine waits on the clock for its next attempt.
FailDelivery(i) ==
    /\ work[i].at = "running" /\ work[i].stage = "bus"
    /\ work[i].attempt < MaxAttempts
    /\ work' = [work EXCEPT ![i].at = "waiting"]
    /\ UNCHANGED <<drain, jumps>>

\* The timers that a clock jump fires: waiting deliveries try again, and what
\* was scheduled starts.
Fired(new, ofJump) ==
    [i \in DOMAIN work |->
        IF work[i].at = "waiting"
        THEN [work[i] EXCEPT !.at = "running", !.attempt = @ + 1, !.ofJump = @ \/ ofJump]
        ELSE work[i]] \o [k \in DOMAIN new |-> NewWork(new[k], TRUE)]

\* Another client's jump; its own drain is not followed.
AdvanceElsewhere ==
    /\ \E i \in DOMAIN work : work[i].at = "waiting"
    /\ work' = Fired(<<>>, FALSE)
    /\ UNCHANGED <<drain, jumps>>

\* clockAdvance, clockGoto: the jump, and then drainDue.
clockAdvance(new) ==
    /\ drain.at \in {"idle", "returned", "capped"}
    /\ Len(work) + Len(new) <= MaxWork
    /\ jumps < MaxJumps
    /\ jumps' = jumps + 1
    /\ work' = Fired(new, TRUE)
    /\ drain' = [Idle EXCEPT !.at = "before"]

-----------------------------------------------------------------------------
Last3 == drain.next = Len(Stages)
Step(at) == [drain EXCEPT !.at = IF Last3 THEN at ELSE @, !.next = IF Last3 THEN 1 ELSE @ + 1]

\* before := cs.Started() + bus.Started() + ct.Started()
ReadBefore ==
    /\ drain.at = "before"
    /\ drain' = [Step("sync") EXCEPT !.before = @ + Started(Stages[drain.next])]
    /\ UNCHANGED <<work, jumps>>

Sync ==
    /\ drain.at = "sync"
    /\ ~Busy(Stages[drain.next])
    /\ drain' = Step("after")
    /\ UNCHANGED <<work, jumps>>


\* A pass that started nothing ends the drain; so does the last pass.
ReadAfter ==
    /\ drain.at = "after"
    /\ LET sum == drain.after + Started(Stages[drain.next])
       IN  drain' = IF ~Last3 THEN [Step("after") EXCEPT !.after = sum]
                    ELSE IF sum = drain.before THEN [Step("returned") EXCEPT !.after = sum]
                    ELSE IF drain.pass + 1 = MaxPasses THEN [Step("capped") EXCEPT !.after = sum]
                    ELSE [Idle EXCEPT !.at = "before", !.pass = drain.pass + 1]
    /\ UNCHANGED <<work, jumps>>

drainAsync == ReadBefore \/ Sync \/ ReadAfter

Next ==
    \/ \E s \in ToSet(Stages) : Publish(s)
    \/ \E i \in DOMAIN work :
           \/ \E s \in ToSet(Stages) : Spawn(i, s)
           \/ Finish(i) \/ FailDelivery(i)
    \/ AdvanceElsewhere
    \/ \E new \in BoundedSeq(ToSet(Stages), 2) : clockAdvance(new)
    \/ drainAsync

Spec == Init /\ [][Next]_vars

\* The drainer's goroutine runs, and every handler returns.
FairSpec ==
    /\ Spec
    /\ WF_vars(drainAsync)
    /\ \A i \in 1..MaxWork : WF_vars(i \in DOMAIN work /\ (Finish(i) \/ FailDelivery(i)))

-----------------------------------------------------------------------------
\* The shapes of the work and of the drain.
TypeOK ==
    /\ \A i \in DOMAIN work : work[i].stage \in ToSet(Stages) /\ work[i].at \in {"running", "waiting", "done"}
    /\ drain.at \in {"idle", "before", "sync", "after", "returned", "capped"}
    /\ drain.next \in 1..3


\* "Capped so a workload that perpetually reschedules cannot hang the caller"
\* (drainAsync): a clock jump returns to its caller.  It need not: a trigger
\* whose function answers an error waits for its next attempt on the very clock
\* the caller would have to advance, inside the delivery that bus.Sync waits
\* for, and the cap counts passes, not a wait inside one.
AdvanceReturns == drain.at = "before" ~> drain.at \in {"returned", "capped"}
=============================================================================
