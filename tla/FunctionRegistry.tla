------------------------------ MODULE FunctionRegistry ------------------------------
(***************************************************************************)
(* The functions registry for one function name (functions/registry.go,    *)
(* run.go, watch.go, trigger.go): deploys, deletes, the watcher that       *)
(* redeploys a changed source and the event trigger.  Nothing orders two   *)
(* deploys of one name but the registry's lock, which each holds for the   *)
(* map access alone; what follows (stopping the incumbent, subscribing,    *)
(* watching) is unlocked.  Versions are numbered as they are started.      *)
(***************************************************************************)
EXTENDS Integers, FiniteSets

CONSTANTS Tasks,        \* goroutines: requests, and timers that found a change
          MaxVersions,  \* bound on versions started
          MaxEvents,    \* bound on events published
          MaxAttempts   \* MaxDeliveryAttempts, 5 in the code

VARIABLES entry,       \* the version r.entries names, 0 for none
          process,     \* process[v]: "none", "running" or "stopped"
          subscribed,  \* versions with a handler on the bus
          canDrop,     \* versions whose entry.unsubscribe is set
          watched,     \* versions whose watcher polls
          canStop,     \* versions whose entry.stopWatch is set
          task,        \* task[t]: [at, v, old]
          events,      \* events published so far
          deliveries   \* deliveries[v]: attempts left, 0 when there is none under way

vars == <<entry, process, subscribed, canDrop, watched, canStop, task, events, deliveries>>

Versions == 1..MaxVersions
Idle == [at |-> "idle", v |-> 0, old |-> 0]

Init ==
    /\ entry = 0 /\ process = [v \in Versions |-> "none"]
    /\ subscribed = {} /\ canDrop = {} /\ watched = {} /\ canStop = {}
    /\ task = [t \in Tasks |-> Idle]
    /\ events = 0 /\ deliveries = [v \in Versions |-> 0]

Goes(t, next) == task' = [task EXCEPT ![t] = next]

-----------------------------------------------------------------------------
\* A deploy request arrives, or a watcher's timer finds the source changed: it
\* reschedules itself, and then calls redeploy whether or not it was stopped since.
Deploy(t) ==
    /\ task[t] = Idle
    /\ Goes(t, [task[t] EXCEPT !.at = "start"])
    /\ UNCHANGED <<entry, process, subscribed, canDrop, watched, canStop, events, deliveries>>

tick(t, v) ==
    /\ task[t] = Idle /\ v \in watched
    /\ Goes(t, [task[t] EXCEPT !.at = "start"])
    /\ UNCHANGED <<entry, process, subscribed, canDrop, watched, canStop, events, deliveries>>

\* Start builds and launches a version, or fails and leaves nothing.
Start(t) ==
    /\ task[t].at = "start"
    /\ \/ \E v \in Versions :
             /\ \A w \in Versions : (w < v) <=> process[w] # "none"
             /\ process' = [process EXCEPT ![v] = "running"]
             /\ Goes(t, [at |-> "swap", v |-> v, old |-> 0])
       \/ Goes(t, Idle) /\ UNCHANGED process
    /\ UNCHANGED <<entry, subscribed, canDrop, watched, canStop, events, deliveries>>

\* The version takes the name, under the lock.
Swap(t) ==
    /\ task[t].at = "swap"
    /\ entry' = task[t].v
    /\ Goes(t, [task[t] EXCEPT !.at = IF entry = 0 THEN "subscribe" ELSE "stop watch", !.old = entry])
    /\ UNCHANGED <<process, subscribed, canDrop, watched, canStop, events, deliveries>>

\* The version that was replaced or deleted: its watcher, its subscription, its
\* process.  The first two are stopped if the entry's fields are set by now.
StopOldWatch(t) ==
    /\ task[t].at = "stop watch"
    /\ watched' = IF task[t].old \in canStop THEN watched \ {task[t].old} ELSE watched
    /\ Goes(t, [task[t] EXCEPT !.at = "unsubscribe"])
    /\ UNCHANGED <<entry, process, subscribed, canDrop, canStop, events, deliveries>>

UnsubscribeOld(t) ==
    /\ task[t].at = "unsubscribe"
    /\ subscribed' = IF task[t].old \in canDrop THEN subscribed \ {task[t].old} ELSE subscribed
    /\ Goes(t, [task[t] EXCEPT !.at = "stop"])
    /\ UNCHANGED <<entry, process, canDrop, watched, canStop, events, deliveries>>

\* Mutant: the process is left to its own devices.
StopNot(t) ==
    /\ task[t].at = "stop"
    /\ Goes(t, IF task[t].v = 0 THEN Idle ELSE [task[t] EXCEPT !.at = "subscribe"])
    /\ UNCHANGED <<entry, process, subscribed, canDrop, watched, canStop, events, deliveries>>

Stop(t) ==
    /\ task[t].at = "stop"
    /\ process' = [process EXCEPT ![task[t].old] = "stopped"]
    /\ Goes(t, IF task[t].v = 0 THEN Idle ELSE [task[t] EXCEPT !.at = "subscribe"])
    /\ UNCHANGED <<entry, subscribed, canDrop, watched, canStop, events, deliveries>>

\* The new version's trigger and watcher, whatever became of its entry since.
subscribe(t) ==
    /\ task[t].at = "subscribe"
    /\ subscribed' = subscribed \cup {task[t].v}
    /\ canDrop' = canDrop \cup {task[t].v}
    /\ Goes(t, [task[t] EXCEPT !.at = "watch"])
    /\ UNCHANGED <<entry, process, watched, canStop, events, deliveries>>

watch(t) ==
    /\ task[t].at = "watch"
    /\ watched' = watched \cup {task[t].v}
    /\ canStop' = canStop \cup {task[t].v}
    /\ Goes(t, Idle)
    /\ UNCHANGED <<entry, process, subscribed, canDrop, events, deliveries>>

\* Delete takes the entry out under the lock ...
Delete(t) ==
    /\ task[t] = Idle /\ entry # 0
    /\ entry' = 0
    /\ Goes(t, [at |-> "stop watch", v |-> 0, old |-> entry])
    /\ UNCHANGED <<process, subscribed, canDrop, watched, canStop, events, deliveries>>

\* ... and so does StopAll, at shutdown and on a reset, for every name.
StopAll(t) == Delete(t)

-----------------------------------------------------------------------------
\* Publish starts a delivery to every handler on the bus.
Publish ==
    /\ events < MaxEvents /\ \A v \in Versions : deliveries[v] = 0
    /\ events' = events + 1
    /\ deliveries' = [v \in Versions |-> IF v \in subscribed THEN MaxAttempts ELSE 0]
    /\ UNCHANGED <<entry, process, subscribed, canDrop, watched, canStop, task>>

\* An attempt reaches the version subscribed when the event was published; a
\* stopped one answers with an error, and so may a running one.
deliverWithRetry(v) ==
    /\ deliveries[v] > 0
    /\ \/ process[v] = "running" /\ deliveries' = [deliveries EXCEPT ![v] = 0]
       \/ deliveries' = [deliveries EXCEPT ![v] = @ - 1]
    /\ UNCHANGED <<entry, process, subscribed, canDrop, watched, canStop, task, events>>

Next ==
    \/ \E t \in Tasks :
          \/ Deploy(t) \/ Start(t) \/ Swap(t) \/ StopOldWatch(t) \/ UnsubscribeOld(t) \/ Stop(t)
          \/ subscribe(t) \/ watch(t) \/ Delete(t) \/ StopAll(t)
          \/ \E v \in Versions : tick(t, v)
    \/ Publish \/ \E v \in Versions : deliverWithRetry(v)

Spec == Init /\ [][Next]_vars

-----------------------------------------------------------------------------
AllIdle == \A t \in Tasks : task[t] = Idle
Running == {v \in Versions : process[v] = "running"}
Coming == {task[t].v : t \in {x \in Tasks : task[x].at = "swap"}}
Going == {task[t].old : t \in Tasks}

TaskStates ==
    [at : {"idle", "start", "swap", "stop watch", "unsubscribe", "stop", "subscribe", "watch"},
     v : 0..MaxVersions, old : 0..MaxVersions]

\* The types of the registry's state and its goroutines'.
TypeOK ==
    /\ entry \in 0..MaxVersions
    /\ process \in [Versions -> {"none", "running", "stopped"}]
    /\ subscribed \cup canDrop \cup watched \cup canStop \subseteq Versions
    /\ task \in [Tasks -> TaskStates]
    /\ deliveries \in [Versions -> 0..MaxAttempts]

\* "The replacement is started before the old one is stopped" (registry.go):
\* at every moment the registered version is running, and every other running
\* process is one a deploy is about to register or somebody is about to stop,
\* so that none is left behind however deploys, deletes and redeploys overlap.
ServesOneVersion ==
    /\ entry # 0 => process[entry] = "running"
    /\ Running \subseteq {entry} \cup Coming \cup Going

\* "a redeploy does not leave two watchers racing to rebuild the same source"
\* (registry.go): once nothing is under way at most one watcher polls.  A version
\* replaced between taking the name and setting stopWatch starts its watcher
\* after the one that replaced it looked for it.
OneWatcher == AllIdle => Cardinality(watched) <= 1
=============================================================================
