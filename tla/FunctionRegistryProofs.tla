----------------------- MODULE FunctionRegistryProofs -----------------------
(***************************************************************************)
(* For any number of versions and of goroutines: the registered version of *)
(* a function is running, and no other is left running behind.             *)
(***************************************************************************)
EXTENDS FunctionRegistry, TLAPS

\* A goroutine that is about to register the version it started, and one that is
\* about to stop the version that was registered.
Swapping(t) == task[t].at = "swap"
Stopping(t) == task[t].at \in {"stop watch", "unsubscribe", "stop"}

Shape ==
    /\ entry \in 0..MaxVersions /\ process \in [Versions -> {"none", "running", "stopped"}]
    /\ task \in [Tasks -> TaskStates]

\* A version on its way in runs, is nobody else's, and nobody stops it.
OwnVersion ==
    \A t \in Tasks : Swapping(t) =>
        /\ task[t].v \in Versions /\ process[task[t].v] = "running" /\ task[t].v # entry
        /\ \A u \in Tasks \ {t} : Swapping(u) => task[u].v # task[t].v
        /\ \A u \in Tasks : Stopping(u) => task[u].old # task[t].v

\* A version on its way out was started and is not the registered one.
OutOfUse ==
    \A t \in Tasks : Stopping(t) =>
        /\ task[t].old \in Versions /\ task[t].old # entry /\ process[task[t].old] # "none"

NoneLeft ==
    \A v \in Versions : process[v] = "running" =>
        \/ v = entry
        \/ \E t \in Tasks : Swapping(t) /\ task[t].v = v
        \/ \E t \in Tasks : Stopping(t) /\ task[t].old = v

Serving == entry # 0 => process[entry] = "running"

Inv == Shape /\ OwnVersion /\ OutOfUse /\ NoneLeft /\ Serving

-----------------------------------------------------------------------------
LEMMA VersionNumbers ==
    ASSUME MaxVersions \in Nat PROVE 0 \in 0..MaxVersions /\ Versions = (0..MaxVersions) \ {0}
BY DEF Versions

LEMMA IdleStep == Idle.at = "idle"
BY DEF Idle

LEMMA InitInv == ASSUME MaxVersions \in Nat PROVE Init => Inv
<1> SUFFICES ASSUME Init PROVE Inv OBVIOUS
<1>1. Shape BY DEF Init, Shape, TaskStates, Idle
<1>2. \A t \in Tasks : task[t].at = "idle" BY DEF Init, Idle
<1> QED BY <1>1, <1>2 DEF Init, Inv, OwnVersion, OutOfUse, NoneLeft, Serving, Swapping, Stopping

LEMMA OneMoves ==
    ASSUME Shape, NEW t \in Tasks, NEW r \in TaskStates, Goes(t, r)
    PROVE  /\ task' \in [Tasks -> TaskStates] /\ task'[t] = r
           /\ \A u \in Tasks \ {t} : task'[u] = task[u]
BY DEF Shape, Goes

\* A step of a goroutine that keeps what it is to stop, if anything, and has no
\* version to register.
LEMMA KeepsInv ==
    ASSUME Inv, NEW t \in Tasks, NEW r \in TaskStates, Goes(t, r), UNCHANGED <<entry, process>>,
           ~Swapping(t), r.at # "swap",
           \/ ~Stopping(t) /\ r.at \notin {"stop watch", "unsubscribe", "stop"}
           \/ Stopping(t) /\ r.at \in {"stop watch", "unsubscribe", "stop"} /\ r.old = task[t].old
    PROVE  Inv'
<1>1. /\ task' \in [Tasks -> TaskStates] /\ task'[t] = r
      /\ \A u \in Tasks \ {t} : task'[u] = task[u]
    BY OneMoves DEF Inv
<1>2. \A u \in Tasks : Swapping(u)' <=> Swapping(u) BY <1>1 DEF Swapping
<1>3. \A u \in Tasks : Stopping(u)' <=> Stopping(u) BY <1>1 DEF Stopping
<1>4. \A u \in Tasks : Swapping(u) => task'[u] = task[u] BY <1>1
<1>5. \A u \in Tasks : Stopping(u) => task'[u].old = task[u].old BY <1>1
<1>6. Shape' BY <1>1 DEF Inv, Shape
<1>7. OwnVersion'
  <2> SUFFICES ASSUME NEW u \in Tasks, Swapping(u)'
               PROVE  /\ task'[u].v \in Versions /\ process'[task'[u].v] = "running" /\ task'[u].v # entry'
                      /\ \A w \in Tasks \ {u} : Swapping(w)' => task'[w].v # task'[u].v
                      /\ \A w \in Tasks : Stopping(w)' => task'[w].old # task'[u].v
      BY DEF OwnVersion
  <2>1. Swapping(u) /\ task'[u] = task[u] BY <1>2, <1>4
  <2>2. /\ task[u].v \in Versions /\ process[task[u].v] = "running" /\ task[u].v # entry
        /\ \A w \in Tasks \ {u} : Swapping(w) => task[w].v # task[u].v
        /\ \A w \in Tasks : Stopping(w) => task[w].old # task[u].v
      BY <2>1 DEF Inv, OwnVersion
  <2> QED BY <1>2, <1>3, <1>4, <1>5, <2>1, <2>2
<1>8. OutOfUse' BY <1>3, <1>5 DEF Inv, OutOfUse
<1>9. NoneLeft'
  <2> SUFFICES ASSUME NEW v \in Versions, process'[v] = "running", v # entry'
               PROVE  \/ \E u \in Tasks : Swapping(u)' /\ task'[u].v = v
                      \/ \E u \in Tasks : Stopping(u)' /\ task'[u].old = v
      BY DEF NoneLeft
  <2>1. \/ \E u \in Tasks : Swapping(u) /\ task[u].v = v
        \/ \E u \in Tasks : Stopping(u) /\ task[u].old = v
      BY DEF Inv, NoneLeft
  <2> QED BY <1>2, <1>3, <1>4, <1>5, <2>1
<1> QED BY <1>6, <1>7, <1>8, <1>9 DEF Inv, Serving

LEMMA KeepSteps ==
    ASSUME MaxVersions \in Nat, Inv, NEW t \in Tasks,
           \/ Deploy(t) \/ \E v \in Versions : tick(t, v)
           \/ StopOldWatch(t) \/ UnsubscribeOld(t) \/ subscribe(t) \/ watch(t)
    PROVE  Inv'
<1>0. task[t] \in TaskStates /\ Idle \in TaskStates
  <2>1. task[t] \in TaskStates BY DEF Inv, Shape
  <2>2. Idle \in TaskStates BY DEF Idle, TaskStates
  <2> QED BY <2>1, <2>2
<1>1. \A at \in {"start", "unsubscribe", "stop", "watch"} :
         /\ [task[t] EXCEPT !.at = at] \in TaskStates /\ [task[t] EXCEPT !.at = at].at = at
         /\ [task[t] EXCEPT !.at = at].old = task[t].old
    BY <1>0 DEF TaskStates
<1>2. CASE Deploy(t) \/ \E v \in Versions : tick(t, v)
  <2>1. /\ Goes(t, [task[t] EXCEPT !.at = "start"]) /\ task[t].at = "idle"
        /\ UNCHANGED <<entry, process>>
      BY <1>2 DEF Deploy, tick, Idle
  <2> QED BY <1>1, <2>1, KeepsInv DEF Swapping, Stopping
<1>3. CASE StopOldWatch(t) BY <1>1, <1>3, KeepsInv DEF StopOldWatch, Swapping, Stopping
<1>4. CASE UnsubscribeOld(t) BY <1>1, <1>4, KeepsInv DEF UnsubscribeOld, Swapping, Stopping
<1>5. CASE subscribe(t) BY <1>1, <1>5, KeepsInv DEF subscribe, Swapping, Stopping
<1>6. CASE watch(t) BY <1>0, <1>6, KeepsInv DEF watch, Idle, Swapping, Stopping
<1> QED BY <1>2, <1>3, <1>4, <1>5, <1>6

\* A version started is a new one.
LEMMA StartInv == ASSUME MaxVersions \in Nat, Inv, NEW t \in Tasks, Start(t) PROVE Inv'
<1>0. task[t].at = "start" /\ entry' = entry /\ ~Swapping(t) /\ ~Stopping(t)
    BY DEF Start, Swapping, Stopping
<1>1. CASE Goes(t, Idle) /\ UNCHANGED process
  <2>1. Idle \in TaskStates /\ Idle.at = "idle" BY DEF Idle, TaskStates
  <2> QED BY <1>0, <1>1, <2>1, KeepsInv
<1>2. ASSUME NEW v \in Versions, \A w \in Versions : (w < v) <=> process[w] # "none",
             process' = [process EXCEPT ![v] = "running"],
             Goes(t, [at |-> "swap", v |-> v, old |-> 0])
      PROVE  Inv'
  <2> DEFINE r == [at |-> "swap", v |-> v, old |-> 0]
  <2>1. r \in TaskStates /\ r.at = "swap" /\ r.v = v BY DEF TaskStates, Versions
  <2>2. process[v] = "none" BY <1>2 DEF Versions
  <2> HIDE DEF r
  <2>3. /\ task' \in [Tasks -> TaskStates] /\ task'[t] = r
        /\ \A u \in Tasks \ {t} : task'[u] = task[u]
      BY <1>2, <2>1, OneMoves DEF Inv, r
  <2>4. process'[v] = "running" /\ \A w \in Versions \ {v} : process'[w] = process[w]
      BY <1>2 DEF Inv, Shape
  <2>5. \A u \in Tasks : Stopping(u)' => Stopping(u) /\ task'[u] = task[u]
      BY <2>1, <2>3 DEF Stopping
  <2>6. \A u \in Tasks \ {t} : Swapping(u)' => Swapping(u) /\ task'[u] = task[u]
      BY <2>3 DEF Swapping
  <2>7. Shape' BY <1>0, <1>2, <2>3 DEF Inv, Shape
  <2>8. v # entry BY <2>2 DEF Inv, Serving, Versions
  <2>9. \A u \in Tasks : Stopping(u) => task[u].old \in Versions \ {v} BY <2>2 DEF Inv, OutOfUse
  <2>10. \A u \in Tasks : Swapping(u) => task[u].v \in Versions \ {v} BY <2>2 DEF Inv, OwnVersion
  <2>11. OwnVersion'
    <3> SUFFICES ASSUME NEW u \in Tasks, Swapping(u)'
                 PROVE  /\ task'[u].v \in Versions /\ process'[task'[u].v] = "running" /\ task'[u].v # entry'
                        /\ \A w \in Tasks \ {u} : Swapping(w)' => task'[w].v # task'[u].v
                        /\ \A w \in Tasks : Stopping(w)' => task'[w].old # task'[u].v
        BY DEF OwnVersion
    <3>1. CASE u = t BY <1>0, <2>1, <2>3, <2>4, <2>5, <2>6, <2>8, <2>9, <2>10, <3>1
    <3>2. CASE u # t
      <4>1. Swapping(u) /\ task'[u] = task[u] BY <2>6, <3>2
      <4>2. /\ task[u].v \in Versions /\ process[task[u].v] = "running" /\ task[u].v # entry
            /\ \A w \in Tasks \ {u} : Swapping(w) => task[w].v # task[u].v
            /\ \A w \in Tasks : Stopping(w) => task[w].old # task[u].v
          BY <4>1 DEF Inv, OwnVersion
      <4>3. \A w \in Tasks \ {u} : Swapping(w)' => task'[w].v # task'[u].v
          BY <2>1, <2>3, <2>6, <2>10, <4>1, <4>2
      <4> QED BY <1>0, <2>4, <2>5, <2>10, <4>1, <4>2, <4>3
    <3> QED BY <3>1, <3>2
  <2>12. OutOfUse' BY <1>0, <2>4, <2>5, <2>9 DEF Inv, OutOfUse
  <2>13. NoneLeft'
    <3> SUFFICES ASSUME NEW w \in Versions, process'[w] = "running", w # entry'
                 PROVE  \/ \E u \in Tasks : Swapping(u)' /\ task'[u].v = w
                        \/ \E u \in Tasks : Stopping(u)' /\ task'[u].old = w
        BY DEF NoneLeft
    <3>1. CASE w = v BY <2>1, <2>3, <3>1 DEF Swapping
    <3>2. CASE w # v
      <4>1. \/ \E u \in Tasks : Swapping(u) /\ task[u].v = w
            \/ \E u \in Tasks : Stopping(u) /\ task[u].old = w
          BY <1>0, <2>4, <3>2 DEF Inv, NoneLeft
      <4> QED BY <1>0, <2>3, <4>1 DEF Swapping, Stopping
    <3> QED BY <3>1, <3>2
  <2>14. Serving' BY <1>0, <2>4, <2>8 DEF Inv, Shape, Serving, Versions
  <2> QED BY <2>7, <2>11, <2>12, <2>13, <2>14 DEF Inv
<1> QED BY <1>1, <1>2 DEF Start

\* The version that was registered becomes the goroutine's to stop.
LEMMA HandOverInv ==
    ASSUME MaxVersions \in Nat, Inv, NEW t \in Tasks, NEW r \in TaskStates, Goes(t, r), UNCHANGED process,
           r.at # "swap", entry # 0 => r.at = "stop watch" /\ r.old = entry,
           entry = 0 => r.at \notin {"stop watch", "unsubscribe", "stop"},
           \/ Swapping(t) /\ entry' = task[t].v
           \/ ~Swapping(t) /\ ~Stopping(t) /\ entry' = 0
    PROVE  Inv'
<1>1. /\ task' \in [Tasks -> TaskStates] /\ task'[t] = r
      /\ \A u \in Tasks \ {t} : task'[u] = task[u]
    BY OneMoves DEF Inv
<1>2. \A u \in Tasks : Swapping(u)' => u # t /\ Swapping(u) /\ task'[u] = task[u] BY <1>1 DEF Swapping
<1>3. \A u \in Tasks \ {t} : (Stopping(u)' <=> Stopping(u)) /\ task'[u] = task[u] BY <1>1 DEF Stopping
<1>4. Stopping(t)' => entry # 0 /\ task'[t].old = entry BY <1>1 DEF Stopping
<1>5. entry # 0 => entry \in Versions /\ process[entry] = "running" /\ Stopping(t)'
  <2>1. entry # 0 => entry \in Versions BY VersionNumbers DEF Inv, Shape
  <2>2. entry # 0 => Stopping(t)' BY <1>1 DEF Stopping
  <2> QED BY <2>1, <2>2 DEF Inv, Serving
<1>6. 0 \notin Versions /\ (Swapping(t) => task[t].v \in Versions /\ process[task[t].v] = "running" /\ task[t].v # entry)
  <2>1. 0 \notin Versions BY VersionNumbers
  <2> QED BY <2>1 DEF Inv, OwnVersion
<1>7. Shape'
  <2>1. entry' \in 0..MaxVersions
    <3>1. entry \in 0..MaxVersions BY DEF Inv, Shape
    <3> QED BY <1>6, <3>1, VersionNumbers
  <2> QED BY <1>1, <2>1 DEF Inv, Shape
<1>8. OwnVersion'
  <2> SUFFICES ASSUME NEW u \in Tasks, Swapping(u)'
               PROVE  /\ task'[u].v \in Versions /\ process'[task'[u].v] = "running" /\ task'[u].v # entry'
                      /\ \A w \in Tasks \ {u} : Swapping(w)' => task'[w].v # task'[u].v
                      /\ \A w \in Tasks : Stopping(w)' => task'[w].old # task'[u].v
      BY DEF OwnVersion
  <2>1. u # t /\ Swapping(u) /\ task'[u] = task[u] BY <1>2
  <2>2. /\ task[u].v \in Versions /\ process[task[u].v] = "running" /\ task[u].v # entry
        /\ \A w \in Tasks \ {u} : Swapping(w) => task[w].v # task[u].v
        /\ \A w \in Tasks : Stopping(w) => task[w].old # task[u].v
      BY <2>1 DEF Inv, OwnVersion
  <2>3. task[u].v # entry' BY <1>6, <2>1, <2>2
  <2>4. \A w \in Tasks : Stopping(w)' => task'[w].old # task[u].v BY <1>3, <1>4, <2>2
  <2> QED BY <1>2, <2>1, <2>2, <2>3, <2>4
<1>9. OutOfUse'
  <2> SUFFICES ASSUME NEW u \in Tasks, Stopping(u)'
               PROVE  /\ task'[u].old \in Versions /\ task'[u].old # entry' /\ process'[task'[u].old] # "none"
      BY DEF OutOfUse
  <2>1. CASE u = t BY <1>4, <1>5, <1>6, <2>1
  <2>2. CASE u # t
    <3>1. Stopping(u) /\ task'[u] = task[u] BY <1>3, <2>2
    <3>2. Swapping(t) => task[u].old # task[t].v BY <3>1 DEF Inv, OwnVersion
    <3> QED BY <1>6, <3>1, <3>2 DEF Inv, OutOfUse
  <2> QED BY <2>1, <2>2
<1>10. NoneLeft'
  <2> SUFFICES ASSUME NEW w \in Versions, process'[w] = "running", w # entry'
               PROVE  \/ \E u \in Tasks : Swapping(u)' /\ task'[u].v = w
                      \/ \E u \in Tasks : Stopping(u)' /\ task'[u].old = w
      BY DEF NoneLeft
  <2>1. CASE w = entry BY <1>4, <1>5, <1>6, <2>1
  <2>2. ASSUME NEW u \in Tasks, Swapping(u), task[u].v = w PROVE u # t /\ Swapping(u)' /\ task'[u].v = w
      BY <1>1, <2>2 DEF Swapping
  <2>3. ASSUME NEW u \in Tasks, Stopping(u), task[u].old = w PROVE Stopping(u)' /\ task'[u].old = w
    <3>1. ~Stopping(t) BY DEF Swapping, Stopping
    <3> QED BY <1>3, <2>3, <3>1
  <2> QED BY <2>1, <2>2, <2>3 DEF Inv, NoneLeft
<1>11. Serving' BY <1>6 DEF Serving
<1> QED BY <1>7, <1>8, <1>9, <1>10, <1>11 DEF Inv

LEMMA SwapInv == ASSUME MaxVersions \in Nat, Inv, NEW t \in Tasks, Swap(t) PROVE Inv'
<1> DEFINE at == IF entry = 0 THEN "subscribe" ELSE "stop watch"
           r == [task[t] EXCEPT !.at = at, !.old = entry]
<1>1. task[t] \in TaskStates /\ entry \in 0..MaxVersions BY DEF Inv, Shape
<1>2. at \in {"subscribe", "stop watch"} OBVIOUS
<1> HIDE DEF at
<1>3. r \in TaskStates /\ r.at = at /\ r.old = entry BY <1>1, <1>2 DEF TaskStates
<1>4. Swapping(t) /\ Goes(t, r) /\ entry' = task[t].v /\ UNCHANGED process
    BY DEF Swap, Swapping, at
<1> HIDE DEF r
<1> QED BY <1>3, <1>4, HandOverInv DEF at

LEMMA DeleteInv == ASSUME MaxVersions \in Nat, Inv, NEW t \in Tasks, Delete(t) PROVE Inv'
<1> DEFINE r == [at |-> "stop watch", v |-> 0, old |-> entry]
<1>1. entry \in 0..MaxVersions BY DEF Inv, Shape
<1>2. r \in TaskStates /\ r.at = "stop watch" /\ r.old = entry BY <1>1 DEF TaskStates
<1>3. /\ task[t].at = "idle" /\ entry # 0 /\ Goes(t, r) /\ entry' = 0 /\ UNCHANGED process
  <2>1. task[t] = Idle /\ entry # 0 /\ Goes(t, r) /\ entry' = 0 /\ UNCHANGED process BY DEF Delete
  <2> QED BY <2>1, IdleStep
<1> HIDE DEF r
<1> QED BY <1>2, <1>3, HandOverInv DEF Swapping, Stopping

\* The version stopped is out of use.
LEMMA StopInv == ASSUME MaxVersions \in Nat, Inv, NEW t \in Tasks, Stop(t) PROVE Inv'
<1> DEFINE r == IF task[t].v = 0 THEN Idle ELSE [task[t] EXCEPT !.at = "subscribe"]
           old == task[t].old
<1>1. task[t] \in TaskStates BY DEF Inv, Shape
<1>2. r \in TaskStates /\ r.at \in {"idle", "subscribe"}
  <2>1. Idle \in TaskStates /\ Idle.at = "idle" BY DEF Idle, TaskStates
  <2>2. [task[t] EXCEPT !.at = "subscribe"] \in TaskStates /\ [task[t] EXCEPT !.at = "subscribe"].at = "subscribe"
      BY <1>1 DEF TaskStates
  <2> QED BY <2>1, <2>2
<1>3. /\ Stopping(t) /\ Goes(t, r) /\ entry' = entry /\ process' = [process EXCEPT ![old] = "stopped"]
    BY DEF Stop, Stopping
<1> HIDE DEF r
<1>4. /\ task' \in [Tasks -> TaskStates] /\ task'[t] = r
      /\ \A u \in Tasks \ {t} : task'[u] = task[u]
    BY <1>2, <1>3, OneMoves DEF Inv
<1>5. old \in Versions /\ old # entry BY <1>3 DEF Inv, OutOfUse
<1>6. process'[old] = "stopped" /\ \A w \in Versions \ {old} : process'[w] = process[w]
    BY <1>3, <1>5 DEF Inv, Shape
<1>7. \A u \in Tasks : Swapping(u)' => Swapping(u) /\ task'[u] = task[u] BY <1>2, <1>4 DEF Swapping
<1>8. \A u \in Tasks : Stopping(u)' => Stopping(u) /\ task'[u] = task[u] BY <1>2, <1>4 DEF Stopping
<1>9. \A u \in Tasks : Swapping(u) => task[u].v # old BY <1>3 DEF Inv, OwnVersion
<1>10. Shape' BY <1>3, <1>4, <1>5 DEF Inv, Shape
<1>11. OwnVersion'
  <2> SUFFICES ASSUME NEW u \in Tasks, Swapping(u)'
               PROVE  /\ task'[u].v \in Versions /\ process'[task'[u].v] = "running" /\ task'[u].v # entry'
                      /\ \A w \in Tasks \ {u} : Swapping(w)' => task'[w].v # task'[u].v
                      /\ \A w \in Tasks : Stopping(w)' => task'[w].old # task'[u].v
      BY DEF OwnVersion
  <2>1. Swapping(u) /\ task'[u] = task[u] BY <1>7
  <2>2. /\ task[u].v \in Versions /\ process[task[u].v] = "running" /\ task[u].v # entry
        /\ \A w \in Tasks \ {u} : Swapping(w) => task[w].v # task[u].v
        /\ \A w \in Tasks : Stopping(w) => task[w].old # task[u].v
      BY <2>1 DEF Inv, OwnVersion
  <2> QED BY <1>3, <1>6, <1>7, <1>8, <1>9, <2>1, <2>2
<1>12. OutOfUse' BY <1>3, <1>6, <1>8 DEF Inv, OutOfUse
<1>13. NoneLeft'
  <2> SUFFICES ASSUME NEW w \in Versions, process'[w] = "running", w # entry'
               PROVE  \/ \E u \in Tasks : Swapping(u)' /\ task'[u].v = w
                      \/ \E u \in Tasks : Stopping(u)' /\ task'[u].old = w
      BY DEF NoneLeft
  <2>1. w # old /\ process[w] = "running" /\ w # entry BY <1>3, <1>6
  <2>2. ASSUME NEW u \in Tasks, Swapping(u), task[u].v = w PROVE Swapping(u)' /\ task'[u].v = w
    <3>1. u # t BY <1>3, <2>2 DEF Swapping, Stopping
    <3> QED BY <1>4, <2>2, <3>1 DEF Swapping
  <2>3. ASSUME NEW u \in Tasks, Stopping(u), task[u].old = w PROVE Stopping(u)' /\ task'[u].old = w
    <3>1. u # t BY <2>1, <2>3
    <3> QED BY <1>4, <2>3, <3>1 DEF Stopping
  <2> QED BY <2>1, <2>2, <2>3 DEF Inv, NoneLeft
<1>14. Serving'
  <2>1. entry # 0 => entry \in Versions \ {old} BY <1>5 DEF Inv, Shape, Versions
  <2> QED BY <1>3, <1>6, <2>1 DEF Inv, Serving
<1> QED BY <1>10, <1>11, <1>12, <1>13, <1>14 DEF Inv

LEMMA NextInv == ASSUME MaxVersions \in Nat, Inv, [Next]_vars PROVE Inv'
<1>1. CASE UNCHANGED <<entry, process, task>>
  <2>1. \A t \in Tasks : (Swapping(t)' <=> Swapping(t)) /\ (Stopping(t)' <=> Stopping(t))
      BY <1>1 DEF Swapping, Stopping
  <2>2. Shape' BY <1>1 DEF Inv, Shape
  <2>3. OwnVersion' /\ OutOfUse' BY <1>1, <2>1 DEF Inv, OwnVersion, OutOfUse
  <2>4. NoneLeft' BY <1>1, <2>1 DEF Inv, NoneLeft
  <2> QED BY <1>1, <2>2, <2>3, <2>4 DEF Inv, Serving
<1>2. CASE UNCHANGED vars \/ Publish \/ \E v \in Versions : deliverWithRetry(v)
  <2>1. UNCHANGED <<entry, process, task>> BY <1>2 DEF vars, Publish, deliverWithRetry
  <2> QED BY <1>1, <2>1
<1> QED BY <1>2, KeepSteps, StartInv, SwapInv, StopInv, DeleteInv DEF Next, StopAll

\* The registered version of a function runs, and every other that runs is about
\* to be registered or about to be stopped (registry.go Deploy, Delete, StopAll).
THEOREM OneVersionServes == ASSUME MaxVersions \in Nat PROVE Spec => []ServesOneVersion
<1>1. Inv => ServesOneVersion
  <2> SUFFICES ASSUME Inv, NEW v \in Versions, process[v] = "running"
               PROVE  v \in {entry} \cup Coming \cup Going
      BY DEF Inv, Serving, ServesOneVersion, Running
  <2> QED BY DEF Inv, NoneLeft, Coming, Going, Swapping
<1>2. Init => Inv BY InitInv
<1>3. Inv /\ [Next]_vars => Inv' BY NextInv
<1> QED BY <1>1, <1>2, <1>3, PTL DEF Spec
=============================================================================
