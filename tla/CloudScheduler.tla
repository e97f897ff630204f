--------------------------- MODULE CloudScheduler ---------------------------
(***************************************************************************)
(* Cloud Scheduler (services/cloudscheduler): stored jobs, the timer of    *)
(* each job's next fire, and the fires that wait for the mutex after their *)
(* timer went off.  A cron schedule is a period: the job is due at its     *)
(* multiples.  Timers carry an arbitrary number that tells them apart.     *)
(***************************************************************************)
EXTENDS Integers, FiniteSets, Bags

CONSTANTS Jobs,         \* job names
          Periods,      \* schedules
          Mixes,        \* sets of requests, from one of which all clients' requests come
          MaxRequests,  \* bound on the requests of clients
          MaxNow,       \* bound on time
          None          \* no job, no timer

VARIABLES mix,      \* what clients do besides creating jobs
          job,      \* job[n]: the stored job, or None
          timers,   \* s.timers: job name -> its next fire, or None
          armed,    \* timers the clock holds
          firing,   \* bag of fires that wait for the mutex
          now,
          left,     \* requests clients may still make
          fires     \* ghost: how often each job fired off a timer at this moment

vars == <<mix, job, timers, armed, firing, now, left, fires>>

NoJobs == [n \in Jobs |-> None]

Init ==
    /\ mix \in Mixes
    /\ job = NoJobs /\ timers = NoJobs
    /\ armed = {} /\ firing = EmptyBag
    /\ now = 0 /\ left = MaxRequests /\ fires = [n \in Jobs |-> 0]

-----------------------------------------------------------------------------
\* The first time a schedule is due after from.
NextTime(p, from) == (from \div p + 1) * p

Enabled(store, n) == store[n] # None /\ store[n].state = "enabled"

\* A number no timer of n has.
Fresh(n) ==
    LET taken == {t.id : t \in {t \in armed : t.name = n}} \cup {timers[n]}
    IN CHOOSE k \in 1..(Cardinality(taken) + 1) : k \notin taken /\ 1..(k - 1) \subseteq taken

\* arm for the jobs S of store, once the clock holds ts and the map is tm.
arm(S, store, ts, tm) ==
    LET on == {n \in S : Enabled(store, n)} IN
    /\ armed' = ts \cup {[id |-> Fresh(n), name |-> n, at |-> NextTime(store[n].period, now)] : n \in on}
    /\ timers' = [n \in Jobs |-> IF n \in on THEN Fresh(n) ELSE tm[n]]

\* What is left of the clock and of the map when n's timer is stopped.
Unstopped(n) == {t \in armed : t.name # n \/ t.id # timers[n]}
Forgotten(n) == [timers EXCEPT ![n] = None]

Asks(r) == left > 0 /\ r \in mix \cup {"create"} /\ left' = left - 1

CreateJob(n, p) ==
    LET store == [job EXCEPT ![n] = [state |-> "enabled", period |-> p]] IN
    /\ job[n] = None /\ Asks("create")
    /\ job' = store
    /\ arm({n}, store, armed, timers)
    /\ UNCHANGED <<firing, now, fires>>

DeleteJob(n) ==
    /\ job[n] # None /\ Asks("delete")
    /\ job' = [job EXCEPT ![n] = None]
    /\ armed' = Unstopped(n) /\ timers' = Forgotten(n)
    /\ UNCHANGED <<firing, now, fires>>

\* PauseJob and ResumeJob.
setState(n, state) ==
    LET store == [job EXCEPT ![n].state = state] IN
    /\ job[n] # None /\ Asks(state)
    /\ job' = store
    /\ arm({n}, store, Unstopped(n), Forgotten(n))
    /\ UNCHANGED <<firing, now, fires>>

\* Mutant: the timer of the old schedule stays.
UpdateJobOnly(n, p) ==
    /\ job[n] # None /\ Asks("update")
    /\ job' = [job EXCEPT ![n].period = p]
    /\ UNCHANGED <<timers, armed, firing, now, fires>>

UpdateJob(n, p) ==
    LET store == [job EXCEPT ![n].period = p] IN
    /\ job[n] # None /\ Asks("update")
    /\ job' = store
    /\ arm({n}, store, Unstopped(n), Forgotten(n))
    /\ UNCHANGED <<firing, now, fires>>

\* The job is delivered and its timer left alone.
RunJob(n) ==
    /\ job[n] # None /\ Asks("run")
    /\ UNCHANGED <<job, timers, armed, firing, now, fires>>

-----------------------------------------------------------------------------
\* A timer comes due and starts a fire.
TimerFires(t) ==
    /\ t \in armed /\ t.at <= now
    /\ armed' = armed \ {t}
    /\ firing' = firing (+) SetToBag({t.name})
    /\ UNCHANGED <<job, timers, now, left, fires>>

\* fire: the job, if there is one and it is not paused, is armed for its next
\* time and delivered.
fire(n) ==
    /\ BagIn(n, firing)
    /\ firing' = firing (-) SetToBag({n})
    /\ arm({n}, job, armed, timers)
    /\ fires' = IF Enabled(job, n) THEN [fires EXCEPT ![n] = @ + 1] ELSE fires
    /\ UNCHANGED <<job, now, left>>

\* The emulator restarts over its store: recover arms every stored job.
Restart ==
    /\ Asks("restart")
    /\ arm(Jobs, job, {}, NoJobs)
    /\ firing' = EmptyBag
    /\ UNCHANGED <<job, now, fires>>

\* Time passes.  Timers come due on time; the fire they start may be late.
Tick ==
    /\ now < MaxNow /\ \A t \in armed : t.at > now
    /\ now' = now + 1
    /\ fires' = [n \in Jobs |-> 0]
    /\ UNCHANGED <<job, timers, armed, firing, left>>

Step ==
    \/ \E n \in Jobs : \/ \E p \in Periods : CreateJob(n, p) \/ UpdateJob(n, p)
                       \/ DeleteJob(n) \/ RunJob(n) \/ fire(n)
                       \/ \E state \in {"enabled", "paused"} : setState(n, state)
    \/ \E t \in armed : TimerFires(t)
    \/ Restart \/ Tick

Next == Step /\ UNCHANGED mix

Spec == Init /\ [][Next]_vars

-----------------------------------------------------------------------------
\* Types, and no timer is overdue.
TypeOK ==
    /\ \A n \in Jobs : job[n] = None \/ (job[n].state \in {"enabled", "paused"} /\ job[n].period \in Periods)
    /\ \A t \in armed : t.name \in Jobs /\ t.at >= now
    /\ BagToSet(firing) \subseteq Jobs
    /\ now \in 0..MaxNow /\ left \in 0..MaxRequests

\* An enabled job fires next at the next time of the schedule it has now, unless
\* a fire of it is under way: whatever updates, pauses and restarts came before,
\* it has a timer and the timer is neither early nor late.
FiresOnSchedule ==
    \A n \in Jobs :
        Enabled(job, n) /\ ~BagIn(n, firing) =>
            \E t \in armed :
                /\ t.name = n /\ t.id = timers[n]
                /\ t.at % job[n].period = 0
                /\ t.at \in now..NextTime(job[n].period, now)

\* "a daily job fires once per advanced day": at no moment does a job fire twice.
FiresOnce == \A n \in Jobs : fires[n] <= 1

\* The same while jobs are only run by hand and the emulator restarted.
OncePerSlot == mix \subseteq {"run", "restart"} => FiresOnce

\* A job fires at each time of its schedule, and once.
FiresEachTime == FiresOnSchedule /\ OncePerSlot
=============================================================================
