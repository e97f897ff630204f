----------------------------- MODULE CloudTasks -----------------------------
(***************************************************************************)
(* Cloud Tasks (services/cloudtasks): one queue, its stored tasks, and the *)
(* timers and goroutines that dispatch them.  A dispatch takes the mutex   *)
(* twice, before and after its HTTP request, and anything can happen to    *)
(* the task and the queue in between.                                      *)
(*                                                                         *)
(* A task is its attempts so far and its schedule time; born tells a task  *)
(* from an earlier one of the same name.  Timers carry an arbitrary number *)
(* that tells them apart; dispatches are a bag.                            *)
(***************************************************************************)
EXTENDS Integers, FiniteSets, Bags

CONSTANTS Tasks,        \* task names
          Mixes,        \* what clients may do and the attempts their queue allows
          Delays,       \* how far ahead clients schedule
          MinBackoff, MaxBackoff,  \* the rest of the queue's retry policy
          WordBits,     \* width of a duration, 64 in the code
          MaxNow,       \* bound on schedule times
          None          \* no task, no live queue, no timer

ASSUME TasksInputs ==
    /\ Delays \subseteq Nat
    /\ {MinBackoff, MaxBackoff} \subseteq Nat \ {0}
    /\ \A x \in Mixes : x.attempts \in Nat \ {0} /\ x.requests \in Nat
    /\ WordBits \in Nat \ {0, 1} /\ MaxNow \in Nat

VARIABLES mix,       \* asks: what clients do besides creating the queue and tasks;
                     \* attempts: the queue's limit; requests: bound on what they do
          queue,     \* the stored queue: "absent", "running" or "paused"
          live,      \* s.queues: None, or its paused flag and its timers by task
          task,      \* task[n]: the stored task, or None
          armed,     \* timers the clock holds
          sending,   \* bag of the dispatches under way
          snap,      \* the store of the last snapshot
          now,
          left,      \* requests clients may still make
          births     \* ghost: tasks ever created

vars == <<mix, queue, live, task, armed, sending, snap, now, left, births>>

NoTimers == [n \in Tasks |-> None]
newQueue == [paused |-> FALSE, timers |-> NoTimers]

Init ==
    /\ mix \in Mixes
    /\ queue = "absent" /\ live = None
    /\ task = [n \in Tasks |-> None]
    /\ armed = {} /\ sending = EmptyBag /\ snap = None
    /\ now = 0 /\ left = mix.requests /\ births = 0

-----------------------------------------------------------------------------
Stored(store) == {n \in Tasks : store[n] # None}

\* The queue in memory, made from its record when it has no entry yet.
liveQueue ==
    IF live # None \/ queue = "absent" THEN live
    ELSE [newQueue EXCEPT !.paused = queue = "paused"]

\* A number no timer or map entry of n has.
Fresh(n) ==
    LET taken == {t.id : t \in {t \in armed : t.name = n}}
                     \cup (IF live = None THEN {} ELSE {live.timers[n]})
    IN CHOOSE k \in 1..(Cardinality(taken) + 1) : k \notin taken /\ 1..(k - 1) \subseteq taken

Dispatch(n) == [name |-> n, at |-> "start", copy |-> None]
Begin(ds, S) == ds (+) SetToBag({Dispatch(n) : n \in S})
End(d) == sending (-) SetToBag({d})
Requested(d) == End(d) (+) SetToBag({[d EXCEPT !.at = "request", !.copy = task[d.name]]})

\* schedule for the tasks S of store, on queue q, once the timers and
\* dispatches of other steps are ts and ds: a due task is dispatched at once, on
\* a goroutine of its own, the others get a timer, and the map forgets the
\* timer it had.
schedule(q, S, store, ts, ds) ==
    LET go == q # None /\ ~q.paused
        due == {n \in S : go /\ store[n].when <= now}
        later == {n \in S : go /\ store[n].when > now}
    IN /\ sending' = Begin(ds, due)
       /\ armed' = ts \cup {[id |-> Fresh(n), name |-> n, at |-> store[n].when] : n \in later}
       /\ live' = IF q = None THEN None
                  ELSE [q EXCEPT !.timers = [n \in Tasks |-> IF n \in later THEN Fresh(n) ELSE @[n]]]

\* The timers the live queue knows of for the tasks S.
TimersOf(S) ==
    {t \in armed : live # None /\ t.name \in S /\ live.timers[t.name] = t.id}
Forget(S) ==
    IF live = None THEN None
    ELSE [live EXCEPT !.timers = [n \in Tasks |-> IF n \in S THEN None ELSE @[n]]]

Asks(r) == left > 0 /\ r \in mix.asks \cup {"create"} /\ left' = left - 1

CreateQueue ==
    /\ queue = "absent" /\ Asks("create")
    /\ queue' = "running" /\ live' = newQueue
    /\ UNCHANGED <<task, armed, sending, snap, now, births>>

\* Cancels the queue's timers and drops its tasks.
stopQueue ==
    /\ armed' = armed \ TimersOf(Tasks)
    /\ task' = [n \in Tasks |-> None]

DeleteQueue ==
    /\ queue # "absent" /\ Asks("deleteQueue")
    /\ queue' = "absent" /\ live' = None
    /\ stopQueue
    /\ UNCHANGED <<sending, snap, now, births>>

PurgeQueue ==
    /\ queue # "absent" /\ Asks("purge")
    /\ live' = newQueue
    /\ stopQueue
    /\ UNCHANGED <<queue, sending, snap, now, births>>

LiveOrNew == IF live = None THEN newQueue ELSE live

PauseQueue ==
    /\ queue # "absent" /\ Asks("pause")
    /\ queue' = "paused"
    /\ live' = [LiveOrNew EXCEPT !.paused = TRUE, !.timers = NoTimers]
    /\ armed' = armed \ TimersOf(Tasks)
    /\ UNCHANGED <<task, sending, snap, now, births>>

\* Mutant: nothing is re-armed.
ResumeQueueOnly ==
    /\ queue # "absent" /\ Asks("resume")
    /\ queue' = "running"
    /\ live' = [LiveOrNew EXCEPT !.paused = FALSE]
    /\ UNCHANGED <<task, armed, sending, snap, now, births>>

\* Resuming schedules every stored task, whether it has a timer or not.
ResumeQueue ==
    /\ queue # "absent" /\ Asks("resume")
    /\ queue' = "running"
    /\ schedule([LiveOrNew EXCEPT !.paused = FALSE], Stored(task), task, armed, sending)
    /\ UNCHANGED <<task, snap, now, births>>

\* putTask writes at the version it has just read, so a task that exists is
\* replaced.
CreateTask(n, d) ==
    LET store == [task EXCEPT ![n] = [count |-> 0, when |-> now + d, born |-> births + 1]] IN
    /\ queue # "absent" /\ Asks("create") /\ now + d <= MaxNow
    /\ task' = store
    /\ births' = births + 1
    /\ schedule(liveQueue, {n}, store, armed, sending)
    /\ UNCHANGED <<queue, snap, now>>

DeleteTask(n) ==
    /\ task[n] # None /\ Asks("delete")
    /\ task' = [task EXCEPT ![n] = None]
    /\ armed' = armed \ TimersOf({n})
    /\ live' = Forget({n})
    /\ UNCHANGED <<queue, sending, snap, now, births>>

\* The task's timer is stopped and a dispatch begins.
RunTask(n) ==
    /\ task[n] # None /\ Asks("run")
    /\ armed' = armed \ TimersOf({n})
    /\ live' = Forget({n})
    /\ sending' = Begin(sending, {n})
    /\ UNCHANGED <<queue, task, snap, now, births>>

-----------------------------------------------------------------------------
\* A timer comes due and runs dispatch.
TimerFires(t) ==
    /\ t \in armed /\ t.at <= now
    /\ armed' = armed \ {t}
    /\ sending' = Begin(sending, {t.name})
    /\ UNCHANGED <<queue, live, task, snap, now, left, births>>


\* dispatch up to its request.  The map forgets whatever timer the task has.
dispatch(d) ==
    /\ BagIn(d, sending) /\ d.at = "start"
    /\ IF live = None \/ live.paused
       THEN sending' = End(d) /\ UNCHANGED live
       ELSE /\ live' = Forget({d.name})
            /\ sending' = IF task[d.name] = None THEN End(d) ELSE Requested(d)
    /\ UNCHANGED <<queue, task, armed, snap, now, left, births>>

\* Doubling per attempt in a signed word of WordBits bits, capped.
Shifted(n) == (MinBackoff * 2^n) % 2^WordBits
Signed(w) == IF w >= 2^(WordBits - 1) THEN w - 2^WordBits ELSE w
\* Mutant: no cap.
backoffUncapped(count) == Signed(Shifted(count - 1))

backoff(count) ==
    LET b == Signed(Shifted(count - 1)) IN IF b > MaxBackoff THEN MaxBackoff ELSE b

\* Mutant: a failed task is stored and not scheduled.
RetryForgotten(d, c) ==
    /\ task' = [task EXCEPT ![d.name] = [d.copy EXCEPT !.count = c, !.when = now + backoff(c)]]
    /\ sending' = End(d)
    /\ UNCHANGED <<live, armed>>

\* The task goes back to the store as it was read before the request, with one
\* more attempt and its next time.
Retry(d, c) ==
    LET store == [task EXCEPT ![d.name] = [d.copy EXCEPT !.count = c, !.when = now + backoff(c)]] IN
    /\ task' = store
    /\ schedule(liveQueue, {d.name}, store, armed, End(d))

\* The request is answered.
Answered(d, ok) ==
    LET c == d.copy.count + 1 IN
    /\ BagIn(d, sending) /\ d.at = "request"
    /\ IF task[d.name] # None /\ ~ok /\ c < mix.attempts
       THEN Retry(d, c)
       ELSE /\ task' = [task EXCEPT ![d.name] = None]
            /\ sending' = End(d)
            /\ UNCHANGED <<live, armed>>
    /\ UNCHANGED <<queue, snap, now, left, births>>

-----------------------------------------------------------------------------
\* The emulator restarts over its store: recover schedules every stored task.
Restart ==
    LET q == IF queue = "absent" \/ Stored(task) = {} THEN None
             ELSE [newQueue EXCEPT !.paused = queue = "paused"]
    IN /\ Asks("restart")
       /\ schedule(q, Stored(task), task, {}, EmptyBag)
       /\ UNCHANGED <<queue, task, snap, now, births>>

WriteSnapshot ==
    /\ Asks("snapshot")
    /\ snap' = [queue |-> queue, task |-> task]
    /\ UNCHANGED <<queue, live, task, armed, sending, now, births>>

\* A snapshot replaces the store and, of this service, nothing else (the clock is
\* the wall clock, which a restore does not set).
ReadSnapshot ==
    /\ snap # None /\ Asks("snapshot")
    /\ queue' = snap.queue /\ task' = snap.task
    /\ UNCHANGED <<live, armed, sending, snap, now, births>>

\* Time passes up to the last timer.  Timers come due on time; the dispatch they
\* start may be late.
Tick ==
    /\ armed # {} /\ \A t \in armed : t.at > now
    /\ now' = now + 1
    /\ UNCHANGED <<queue, live, task, armed, sending, snap, left, births>>

Step ==
    \/ CreateQueue \/ DeleteQueue \/ PurgeQueue \/ PauseQueue \/ ResumeQueue
    \/ \E n \in Tasks : \/ \E d \in Delays : CreateTask(n, d)
                        \/ DeleteTask(n)
                        \/ RunTask(n)
    \/ \E t \in armed : TimerFires(t)
    \/ \E d \in BagToSet(sending) : dispatch(d) \/ \E ok \in BOOLEAN : Answered(d, ok)
    \/ Restart \/ WriteSnapshot \/ ReadSnapshot
    \/ Tick

Next == Step /\ UNCHANGED mix

Spec == Init /\ [][Next]_vars

\* Time passes, due timers fire, goroutines run and servers answer.
FairSpec ==
    /\ Spec
    /\ WF_vars(Tick /\ UNCHANGED mix)
    /\ WF_vars((\E t \in armed : TimerFires(t)) /\ UNCHANGED mix)
    /\ WF_vars(/\ \E d \in BagToSet(sending) : dispatch(d) \/ \E ok \in BOOLEAN : Answered(d, ok)
               /\ UNCHANGED mix)

-----------------------------------------------------------------------------
\* Types, and dispatches that send hold the task they read.
TypeOK ==
    /\ queue \in {"absent", "running", "paused"}
    /\ live = None \/ (live.paused \in BOOLEAN /\ DOMAIN live.timers = Tasks)
    /\ \A n \in Stored(task) : task[n].count \in 0..(mix.attempts - 1) /\ task[n].born \in 1..births
    /\ \A t \in armed : t.name \in Tasks /\ t.at \in Int
    /\ \A d \in BagToSet(sending) : d.name \in Tasks /\ (d.at = "request" <=> d.copy # None)

\* "keeps dispatching" (recover, in dispatch.go): a timer or a dispatch is on its
\* way to every task of a running queue.
OnTheirWay ==
    queue = "running" =>
        \A n \in Stored(task) : \E t \in armed \cup BagToSet(sending) : t.name = n

\* No task of a running queue is forgotten, whatever pauses, resumes, runs, purges
\* and restarts came before, as long as no snapshot is restored.
NeverStuck == "snapshot" \notin mix.asks => OnTheirWay

PausedSendsNothing ==
    \A d \in BagToSet(sending') :
        d.at = "request" /\ CopiesIn(d, sending') > CopiesIn(d, sending) => queue # "paused"


\* Purging a queue leaves it paused ("keep it live, just emptied"): it sends
\* nothing new until it is resumed.
PurgeKeepsPause == [][PausedSendsNothing]_vars

\* "Doubling per attempt, capped": a retry waits at least the smallest and at
\* most the largest backoff.
RetryWaits ==
    [][\A n \in Tasks :
         sending' # sending /\ task[n] # None /\ task'[n] # None
             /\ task'[n].born = task[n].born /\ task'[n].count > task[n].count =>
           task'[n].when - now \in MinBackoff..MaxBackoff]_vars

\* A task of a running queue is sent until it succeeds or has used its attempts,
\* and then it is gone.
TasksFinish ==
    \A n \in Tasks :
        task[n] # None /\ queue = "running" ~> task[n] = None \/ queue = "paused"

\* "if so, leave it gone": an answer changes the task that was sent, not one of
\* the same name created since.
AnswersItsOwnTask ==
    [][\A d \in BagToSet(sending) :
         d.at = "request" /\ CopiesIn(d, sending') < CopiesIn(d, sending) /\ task[d.name] # None 
             /\ task'[d.name] # task[d.name] =>
           task[d.name].born = d.copy.born]_vars

\* A task's one entry in the queue's timers is all there is on the clock.
OneTimerPerTask == \A t, u \in armed : t.name = u.name => t = u

\* "Task already exists": creating a task leaves one of that name alone.
CreateKeepsExisting ==
    [][\A n \in Tasks :
         task[n] # None /\ task'[n] # None => task'[n].born = task[n].born]_vars
=============================================================================
