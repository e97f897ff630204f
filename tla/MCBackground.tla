---------------------------- MODULE MCBackground ----------------------------
(***************************************************************************)
(* Instances of the components whose work goes on behind the requests:     *)
(* the store's flushes, the scheduler's timers, the ack deadlines of       *)
(* Pub/Sub and the dispatches of Cloud Tasks.  A behaviour is a behaviour  *)
(* of one of them, chosen at the start as its scene.                       *)
(***************************************************************************)
EXTENDS Integers, FiniteSets, Bags

CONSTANTS None, Writers, Callbacks, Jobs, Topics, Subs, Procs, Tasks

VARIABLES scene,
          writes, mem, disk, pending, armed, closed, writer, flush, closing, captured, restarts,
          jobMix, job, jobTimers, jobArmed, jobFiring, jobNow, jobLeft, fires,
          mix, topics, subs, backlog, outstanding, timers, firing, seq, deliveries, stream,
          req, snap, now, owed, given,
          taskMix, queue, live, task, taskArmed, sending, taskSnap, taskNow, taskLeft, births

storeVars == <<writes, mem, disk, pending, armed, closed, writer, flush, closing, captured,
               restarts>>
schedulerVars == <<jobMix, job, jobTimers, jobArmed, jobFiring, jobNow, jobLeft, fires>>
mailboxVars == <<mix, topics, subs, backlog, outstanding, timers, firing, seq, deliveries,
                 stream, req, snap, now, owed, given>>
queueVars == <<taskMix, queue, live, task, taskArmed, sending, taskSnap, taskNow, taskLeft,
               births>>
vars == <<scene, storeVars, schedulerVars, mailboxVars, queueVars>>

-----------------------------------------------------------------------------
PS == INSTANCE Persistent WITH MaxWrites <- 3, MaxRestarts <- 1

RunAndRestart == {"run", "restart"}
CS == INSTANCE CloudScheduler
        WITH mix <- jobMix, timers <- jobTimers, armed <- jobArmed, firing <- jobFiring,
             now <- jobNow, left <- jobLeft,
             Periods <- {2, 3}, MaxRequests <- 7, MaxNow <- 6,
             Mixes <- {{"update", "delete", "enabled", "paused", "restart"}, RunAndRestart}

\* Publishing, pulling and settling alone.
MB == INSTANCE PubSub
        WITH Streams <- {}, Mixes <- {{}}, AckDeadline <- 1, Extensions <- {2},
             MaxMessages <- 2, MaxDeliveries <- 2, MaxNow <- 3

TQ == INSTANCE CloudTasks
        WITH mix <- taskMix, armed <- taskArmed, snap <- taskSnap, now <- taskNow,
             left <- taskLeft,
             Mixes <- {[asks |-> {"pause", "resume", "run"}, attempts |-> 2, requests |-> 4]},
             Delays <- {1}, MinBackoff <- 1, MaxBackoff <- 1, WordBits <- 8, MaxNow <- 4

\* A step of one component leaves the others alone.
StoreStep(A) ==
    scene = "store" /\ A /\ UNCHANGED <<scene, schedulerVars, mailboxVars, queueVars>>
SchedulerStep(A) ==
    scene = "scheduler" /\ A /\ UNCHANGED <<scene, storeVars, mailboxVars, queueVars>>
MailboxStep(A) ==
    scene = "mailbox" /\ A /\ UNCHANGED <<scene, storeVars, schedulerVars, queueVars>>
QueueStep(A) ==
    scene = "queue" /\ A /\ UNCHANGED <<scene, storeVars, schedulerVars, mailboxVars>>

Init ==
    /\ scene \in {"store", "scheduler", "mailbox", "queue"}
    /\ PS!Init /\ CS!Init /\ MB!Init /\ TQ!Init
    /\ scene # "scheduler" => jobMix = RunAndRestart

Next ==
    \/ StoreStep(PS!Next)
    \/ SchedulerStep(CS!Next)
    \/ MailboxStep(MB!Next)
    \/ QueueStep(TQ!Next)

\* A goroutine that can run does, and an armed timer goes off.
StoreFairness ==
    /\ \A w \in Writers : WF_vars(StoreStep(PS!touch(w)))
    /\ WF_vars(StoreStep(\E f \in Callbacks : PS!Fire(f)))
    /\ \A f \in Callbacks :
          /\ WF_vars(StoreStep(PS!Unset(f)))
          /\ WF_vars(StoreStep(PS!Snapshot(f)))
          /\ WF_vars(StoreStep(PS!Rename(f)))
    /\ WF_vars(StoreStep(PS!CloseSnapshot)) /\ WF_vars(StoreStep(PS!CloseRename))

\* Time passes, the clock fires what is due, and a callback gets the mutex.
MailboxFairness ==
    /\ WF_vars(MailboxStep(MB!Tick /\ UNCHANGED mix))
    /\ WF_vars(MailboxStep((\E t \in timers : MB!TimerFires(t)) /\ UNCHANGED mix))
    /\ WF_vars(MailboxStep((\E e \in firing : MB!expire(e)) /\ UNCHANGED mix))

\* Time passes, due timers fire, goroutines run and servers answer.
QueueFairness ==
    /\ WF_vars(QueueStep(TQ!Tick /\ UNCHANGED taskMix))
    /\ WF_vars(QueueStep((\E t \in taskArmed : TQ!TimerFires(t)) /\ UNCHANGED taskMix))
    /\ WF_vars(QueueStep(/\ \E d \in BagToSet(sending) :
                               TQ!dispatch(d) \/ \E ok \in BOOLEAN : TQ!Answered(d, ok)
                         /\ UNCHANGED taskMix))

Spec == Init /\ [][Next]_vars /\ StoreFairness /\ MailboxFairness /\ QueueFairness

-----------------------------------------------------------------------------
\* Every write is copied in the end (Persistent).
WritesAreCopied == PS!WritesAreCopied

\* An enabled job has a timer for the next time of its schedule, and manual runs
\* and restarts add no scheduled fire (CloudScheduler).
FiresEachTime == CS!FiresEachTime

\* Every lease ends (PubSub).
LeasesEnd == MB!LeasesEnd

\* Every task of a running queue ends (CloudTasks).
TasksFinish == TQ!TasksFinish
=============================================================================
