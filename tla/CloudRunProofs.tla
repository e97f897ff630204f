--------------------------- MODULE CloudRunProofs ---------------------------
(***************************************************************************)
(* For any number of requests and of containers: one revision of a service *)
(* serves, whatever deploys, deletes and shutdowns are under way.          *)
(***************************************************************************)
EXTENDS CloudRun, TLAPS

\* The steps a deploy takes inside the gate, and those at which a request has a
\* container of its own to bring up or to stop.
InGate == {"create", "await", "commit", "retire"}
Bringing(c) == caller[c].at \in {"await", "commit"}
Stopping(c) == caller[c].at \in {"retire", "stop"}

\* The gate has the holder it names, who alone knows the next generation.
GateHeld ==
    \A c \in Callers :
        /\ caller[c].at \in InGate <=> gate = c
        /\ caller[c].at \in {"create", "await", "commit"} => caller[c].gen = generation + 1

\* A container being brought up is up, is of the generation its deploy will
\* commit, and is neither serving nor being stopped.
OwnContainer ==
    \A c \in Callers : Bringing(c) =>
        /\ caller[c].new \in Containers /\ caller[c].new # services
        /\ containers[caller[c].new] = [state |-> "up", gen |-> caller[c].gen]
        /\ \A d \in Callers : Stopping(d) => caller[d].old # caller[c].new

\* A container being stopped was started, and is not the one that serves.
StoppedElsewhere ==
    \A c \in Callers : Stopping(c) =>
        /\ caller[c].old \in Containers /\ caller[c].old # services
        /\ containers[caller[c].old].state # "none"

Serving ==
    /\ (services = 0) <=> (deployed = 0)
    /\ services # 0 => /\ services \in Containers
                       /\ containers[services] = [state |-> "up", gen |-> deployed]

NoneLeft ==
    \A i \in Containers : containers[i].state = "up" =>
        \/ i = services
        \/ \E c \in Callers : Bringing(c) /\ caller[c].new = i
        \/ \E c \in Callers : Stopping(c) /\ caller[c].old = i

ReleasedOnce ==
    /\ \A i \in DOMAIN released : released[i] <= generation
    /\ \A i, j \in DOMAIN released : i < j => released[i] < released[j]

Inv == TypeOK /\ GateHeld /\ OwnContainer /\ StoppedElsewhere /\ Serving /\ NoneLeft /\ ReleasedOnce

\* The gate can be told from its holders, and the bound is one.
Sound == Nobody \notin Callers /\ MaxContainers \in Nat

-----------------------------------------------------------------------------
LEMMA InitInv == ASSUME Sound PROVE Init => Inv
<1> SUFFICES ASSUME Init PROVE Inv OBVIOUS
<1>1. TypeOK BY DEF Init, TypeOK, Requests, Idle, NoContainer
<1>2. \A c \in Callers : caller[c].at = "idle" BY DEF Init, Idle
<1>3. GateHeld BY <1>2 DEF Init, Sound, GateHeld, InGate
<1>4. OwnContainer /\ StoppedElsewhere BY <1>2 DEF OwnContainer, StoppedElsewhere, Bringing, Stopping
<1>5. NoneLeft BY DEF Init, NoneLeft, NoContainer
<1>6. Serving /\ ReleasedOnce BY DEF Init, Serving, ReleasedOnce
<1> QED BY <1>1, <1>3, <1>4, <1>5, <1>6 DEF Inv

\* What a step of one request leaves alone.
LEMMA OneMoves ==
    ASSUME TypeOK, NEW c \in Callers, NEW r \in Requests, Goes(c, r)
    PROVE  /\ caller' \in [Callers -> Requests] /\ caller'[c] = r
           /\ \A d \in Callers \ {c} : caller'[d] = caller[d]
BY DEF TypeOK, Goes

\* A request outside the gate goes to wait for it.
LEMMA WaitInv == ASSUME Sound, Inv, NEW c \in Callers, createKnative(c) \/ replaceKnative(c) PROVE Inv'
<1> DEFINE r == [caller[c] EXCEPT !.at = "gate"]
<1>0. caller[c] \in Requests /\ generation + 1 \in Nat /\ services \in Nat BY DEF Inv, TypeOK
<1>1. r \in Requests /\ r.at = "gate" BY <1>0 DEF Requests
<1>2. /\ caller[c].at = "idle" /\ Goes(c, r)
      /\ UNCHANGED <<services, deployed, generation, gate, containers, released>>
    BY DEF createKnative, replaceKnative, Idle
<1> HIDE DEF r
<1>3. /\ caller' \in [Callers -> Requests] /\ caller'[c] = r
      /\ \A d \in Callers \ {c} : caller'[d] = caller[d]
    BY <1>0, <1>1, <1>2, OneMoves DEF Inv
<1>4. TypeOK' BY <1>1, <1>2, <1>3 DEF Inv, TypeOK
<1>5. GateHeld' BY <1>1, <1>2, <1>3 DEF Inv, GateHeld, InGate, Sound
<1>6. OwnContainer' BY <1>1, <1>2, <1>3 DEF Inv, OwnContainer, Bringing, Stopping
<1>7. StoppedElsewhere' BY <1>1, <1>2, <1>3 DEF Inv, StoppedElsewhere, Stopping
<1>8. NoneLeft' BY <1>1, <1>2, <1>3 DEF Inv, NoneLeft, Bringing, Stopping
<1>9. Serving' BY <1>1, <1>2, <1>3 DEF Inv, Serving
<1>10. ReleasedOnce' BY <1>1, <1>2, <1>3 DEF Inv, ReleasedOnce
<1> QED BY <1>4, <1>5, <1>6, <1>7, <1>8, <1>9, <1>10 DEF Inv

\* The gate is free, so no other deploy is inside.
LEMMA DeployInv == ASSUME Sound, Inv, NEW c \in Callers, Deploy(c) PROVE Inv'
<1> DEFINE r == [caller[c] EXCEPT !.at = "create", !.gen = generation + 1]
<1>0. caller[c] \in Requests /\ generation + 1 \in Nat /\ services \in Nat BY DEF Inv, TypeOK
<1>1. r \in Requests /\ r.at = "create" /\ r.gen = generation + 1 BY <1>0 DEF Requests
<1>2. /\ caller[c].at = "gate" /\ Goes(c, r) /\ gate = Nobody /\ gate' = c
      /\ UNCHANGED <<services, deployed, generation, containers, released>>
    BY DEF Deploy
<1> HIDE DEF r
<1>3. /\ caller' \in [Callers -> Requests] /\ caller'[c] = r
      /\ \A d \in Callers \ {c} : caller'[d] = caller[d]
    BY <1>0, <1>1, <1>2, OneMoves DEF Inv
<1>4. TypeOK' BY <1>1, <1>2, <1>3 DEF Inv, TypeOK
<1>5. GateHeld' BY <1>1, <1>2, <1>3 DEF Inv, GateHeld, InGate, Sound
<1>6. OwnContainer' BY <1>1, <1>2, <1>3 DEF Inv, OwnContainer, Bringing, Stopping
<1>7. StoppedElsewhere' BY <1>1, <1>2, <1>3 DEF Inv, StoppedElsewhere, Stopping
<1>8. NoneLeft' BY <1>1, <1>2, <1>3 DEF Inv, NoneLeft, Bringing, Stopping
<1>9. Serving' BY <1>1, <1>2, <1>3 DEF Inv, Serving
<1>10. ReleasedOnce' BY <1>1, <1>2, <1>3 DEF Inv, ReleasedOnce
<1> QED BY <1>4, <1>5, <1>6, <1>7, <1>8, <1>9, <1>10 DEF Inv

\* A container removed is down, and no other changes.
LEMMA OneRemoved ==
    ASSUME TypeOK, NEW i \in Containers, containers' = Removed(i)
    PROVE  /\ containers' \in [Containers -> [state : {"none", "up", "removed"}, gen : Nat]]
           /\ containers'[i].state = "removed"
           /\ \A j \in Containers \ {i} : containers'[j] = containers[j]
BY DEF TypeOK, Removed

\* A deploy whose container does not start leaves things as they were.
LEMMA StartFailsInv ==
    ASSUME Sound, Inv, NEW c \in Callers, caller[c].at = "create", Fails(c),
           UNCHANGED <<containers, services, deployed, generation, released>>
    PROVE  Inv'
<1> DEFINE r == Idle
<1>0. caller[c] \in Requests /\ generation + 1 \in Nat /\ services \in Nat BY DEF Inv, TypeOK
<1>1. r \in Requests /\ r.at = "idle" BY <1>0 DEF Requests, Idle
<1>2. /\ caller[c].at = "create" /\ Goes(c, r) /\ gate = c /\ gate' = Nobody
      /\ UNCHANGED <<containers, services, deployed, generation, released>>
    BY DEF Inv, GateHeld, InGate, Fails
<1> HIDE DEF r
<1>3. /\ caller' \in [Callers -> Requests] /\ caller'[c] = r
      /\ \A d \in Callers \ {c} : caller'[d] = caller[d]
    BY <1>0, <1>1, <1>2, OneMoves DEF Inv
<1>4. TypeOK' BY <1>1, <1>2, <1>3 DEF Inv, TypeOK
<1>5. GateHeld' BY <1>1, <1>2, <1>3 DEF Inv, GateHeld, InGate, Sound
<1>6. OwnContainer' BY <1>1, <1>2, <1>3 DEF Inv, OwnContainer, Bringing, Stopping
<1>7. StoppedElsewhere' BY <1>1, <1>2, <1>3 DEF Inv, StoppedElsewhere, Stopping
<1>8. NoneLeft' BY <1>1, <1>2, <1>3 DEF Inv, NoneLeft, Bringing, Stopping
<1>9. Serving' BY <1>1, <1>2, <1>3 DEF Inv, Serving
<1>10. ReleasedOnce' BY <1>1, <1>2, <1>3 DEF Inv, ReleasedOnce
<1> QED BY <1>4, <1>5, <1>6, <1>7, <1>8, <1>9, <1>10 DEF Inv

\* The container started is a new one.
LEMMA StartsInv ==
    ASSUME Sound, Inv, NEW c \in Callers, caller[c].at = "create", NEW i \in Containers, containers[i] = NoContainer,
           containers' = [containers EXCEPT ![i] = [state |-> "up", gen |-> caller[c].gen]],
           Goes(c, [caller[c] EXCEPT !.at = "await", !.new = i]),
           UNCHANGED <<gate, services, deployed, generation, released>>
    PROVE  Inv'
<1> DEFINE r == [caller[c] EXCEPT !.at = "await", !.new = i]
<1>0. caller[c] \in Requests /\ generation + 1 \in Nat /\ services \in Nat BY DEF Inv, TypeOK
<1>i. i \in Nat BY DEF Containers, Sound
<1>1. r \in Requests /\ r.at = "await" /\ r.new = i /\ r.gen = caller[c].gen BY <1>0, <1>i DEF Requests
<1>2. /\ caller[c].at = "create" /\ Goes(c, r) /\ gate = c /\ caller[c].gen = generation + 1
      /\ UNCHANGED <<gate, services, deployed, generation, released>>
    BY DEF Inv, GateHeld, InGate
<1> HIDE DEF r
<1>3. /\ caller' \in [Callers -> Requests] /\ caller'[c] = r
      /\ \A d \in Callers \ {c} : caller'[d] = caller[d]
    BY <1>0, <1>1, <1>2, OneMoves DEF Inv
<1>s. /\ containers' \in [Containers -> [state : {"none", "up", "removed"}, gen : Nat]]
      /\ containers'[i] = [state |-> "up", gen |-> caller[c].gen]
      /\ containers[i].state = "none"
      /\ \A j \in Containers \ {i} : containers'[j] = containers[j]
    BY <1>0 DEF Inv, TypeOK, Requests, NoContainer
<1>4. TypeOK' BY <1>1, <1>2, <1>3, <1>s DEF Inv, TypeOK
<1>5. GateHeld' BY <1>1, <1>2, <1>3, <1>s DEF Inv, GateHeld, InGate, Sound
<1>6. OwnContainer'
  <2> SUFFICES ASSUME NEW d \in Callers, Bringing(d)'
               PROVE  /\ caller'[d].new \in Containers /\ caller'[d].new # services'
                      /\ containers'[caller'[d].new] = [state |-> "up", gen |-> caller'[d].gen]
                      /\ \A e \in Callers : Stopping(e)' => caller'[e].old # caller'[d].new
      BY DEF OwnContainer
  <2>1. d = c BY <1>1, <1>2, <1>3 DEF Inv, GateHeld, Bringing, InGate
  <2>2. i # services BY <1>s DEF Inv, Serving, Containers
  <2>3. \A e \in Callers : Stopping(e)' => caller'[e] = caller[e] /\ Stopping(e)
      BY <1>1, <1>3 DEF Stopping
  <2>4. \A e \in Callers : Stopping(e)' => caller'[e].old # i
      BY <2>3, <1>s DEF Inv, StoppedElsewhere
  <2> QED BY <1>1, <1>2, <1>3, <1>s, <2>1, <2>2, <2>4
<1>7. StoppedElsewhere' BY <1>1, <1>2, <1>3, <1>s DEF Inv, StoppedElsewhere, Stopping
<1>8. NoneLeft' BY <1>1, <1>2, <1>3, <1>s DEF Inv, NoneLeft, Bringing, Stopping
<1>9. Serving' BY <1>1, <1>2, <1>3, <1>s DEF Inv, Serving
<1>10. ReleasedOnce' BY <1>1, <1>2, <1>3, <1>s DEF Inv, ReleasedOnce
<1> QED BY <1>4, <1>5, <1>6, <1>7, <1>8, <1>9, <1>10 DEF Inv

LEMMA ListensInv ==
    ASSUME Sound, Inv, NEW c \in Callers, caller[c].at = "await", Goes(c, [caller[c] EXCEPT !.at = "commit"]),
           UNCHANGED <<gate, containers, services, deployed, generation, released>>
    PROVE  Inv'
<1> DEFINE r == [caller[c] EXCEPT !.at = "commit"]
<1>0. caller[c] \in Requests /\ generation + 1 \in Nat /\ services \in Nat BY DEF Inv, TypeOK
<1>1. r \in Requests /\ r.at = "commit" /\ r.new = caller[c].new /\ r.gen = caller[c].gen BY <1>0 DEF Requests
<1>2. /\ caller[c].at = "await" /\ Goes(c, r) /\ gate = c
      /\ UNCHANGED <<gate, containers, services, deployed, generation, released>>
    BY DEF Inv, GateHeld, InGate
<1> HIDE DEF r
<1>3. /\ caller' \in [Callers -> Requests] /\ caller'[c] = r
      /\ \A d \in Callers \ {c} : caller'[d] = caller[d]
    BY <1>0, <1>1, <1>2, OneMoves DEF Inv
<1>4. TypeOK' BY <1>1, <1>2, <1>3 DEF Inv, TypeOK
<1>5. GateHeld' BY <1>1, <1>2, <1>3 DEF Inv, GateHeld, InGate, Sound
<1>6. OwnContainer' BY <1>1, <1>2, <1>3 DEF Inv, OwnContainer, Bringing, Stopping
<1>7. StoppedElsewhere' BY <1>1, <1>2, <1>3 DEF Inv, StoppedElsewhere, Stopping
<1>8. NoneLeft' BY <1>1, <1>2, <1>3 DEF Inv, NoneLeft, Bringing, Stopping
<1>9. Serving' BY <1>1, <1>2, <1>3 DEF Inv, Serving
<1>10. ReleasedOnce' BY <1>1, <1>2, <1>3 DEF Inv, ReleasedOnce
<1> QED BY <1>4, <1>5, <1>6, <1>7, <1>8, <1>9, <1>10 DEF Inv

\* The container given up is the deploy's own.
LEMMA GivenUpInv ==
    ASSUME Sound, Inv, NEW c \in Callers, caller[c].at = "await", Fails(c),
           containers' = Removed(caller[c].new), UNCHANGED <<services, deployed, generation, released>>
    PROVE  Inv'
<1> DEFINE r == Idle
<1>0. caller[c] \in Requests /\ generation + 1 \in Nat /\ services \in Nat BY DEF Inv, TypeOK
<1>1. r \in Requests /\ r.at = "idle" BY <1>0 DEF Requests, Idle
<1>2. /\ caller[c].at = "await" /\ Goes(c, r) /\ gate = c /\ gate' = Nobody
      /\ containers' = Removed(caller[c].new) /\ UNCHANGED <<services, deployed, generation, released>>
    BY DEF Inv, GateHeld, InGate, Fails
<1> HIDE DEF r
<1>3. /\ caller' \in [Callers -> Requests] /\ caller'[c] = r
      /\ \A d \in Callers \ {c} : caller'[d] = caller[d]
    BY <1>0, <1>1, <1>2, OneMoves DEF Inv
<1>s. caller[c].new \in Containers /\ caller[c].new # services
    BY <1>2 DEF Inv, OwnContainer, StoppedElsewhere, Bringing, Stopping
<1>t. /\ containers' \in [Containers -> [state : {"none", "up", "removed"}, gen : Nat]]
      /\ containers'[caller[c].new].state = "removed"
      /\ \A j \in Containers \ {caller[c].new} : containers'[j] = containers[j]
    BY <1>2, <1>s, OneRemoved DEF Inv
<1>4. TypeOK' BY <1>1, <1>2, <1>3, <1>s, <1>t DEF Inv, TypeOK
<1>5. GateHeld' BY <1>1, <1>2, <1>3, <1>s, <1>t DEF Inv, GateHeld, InGate, Sound
<1>6. OwnContainer' BY <1>1, <1>2, <1>3, <1>s, <1>t DEF Inv, OwnContainer, Bringing, Stopping, GateHeld, InGate
<1>7. StoppedElsewhere' BY <1>1, <1>2, <1>3, <1>s, <1>t DEF Inv, StoppedElsewhere, Stopping
<1>8. NoneLeft' BY <1>1, <1>2, <1>3, <1>s, <1>t DEF Inv, NoneLeft, Bringing, Stopping
<1>9. Serving' BY <1>1, <1>2, <1>3, <1>s, <1>t DEF Inv, Serving
<1>10. ReleasedOnce' BY <1>1, <1>2, <1>3, <1>s, <1>t DEF Inv, ReleasedOnce
<1> QED BY <1>4, <1>5, <1>6, <1>7, <1>8, <1>9, <1>10 DEF Inv

LEMMA StopPreviousInv ==
    ASSUME Sound, Inv, NEW c \in Callers, StopPrevious(c)
    PROVE  Inv'
<1> DEFINE r == Idle
<1>0. caller[c] \in Requests /\ generation + 1 \in Nat /\ services \in Nat BY DEF Inv, TypeOK
<1>1. r \in Requests /\ r.at = "idle" BY <1>0 DEF Requests, Idle
<1>2. /\ caller[c].at = "retire" /\ Goes(c, r) /\ gate = c /\ gate' = Nobody
      /\ containers' = Removed(caller[c].old) /\ UNCHANGED <<services, deployed, generation, released>>
    BY DEF Inv, GateHeld, InGate, Fails, StopPrevious
<1> HIDE DEF r
<1>3. /\ caller' \in [Callers -> Requests] /\ caller'[c] = r
      /\ \A d \in Callers \ {c} : caller'[d] = caller[d]
    BY <1>0, <1>1, <1>2, OneMoves DEF Inv
<1>s. caller[c].old \in Containers /\ caller[c].old # services
    BY <1>2 DEF Inv, OwnContainer, StoppedElsewhere, Bringing, Stopping
<1>t. /\ containers' \in [Containers -> [state : {"none", "up", "removed"}, gen : Nat]]
      /\ containers'[caller[c].old].state = "removed"
      /\ \A j \in Containers \ {caller[c].old} : containers'[j] = containers[j]
    BY <1>2, <1>s, OneRemoved DEF Inv
<1>4. TypeOK' BY <1>1, <1>2, <1>3, <1>s, <1>t DEF Inv, TypeOK
<1>5. GateHeld' BY <1>1, <1>2, <1>3, <1>s, <1>t DEF Inv, GateHeld, InGate, Sound
<1>6. OwnContainer'
  <2> SUFFICES ASSUME NEW d \in Callers, Bringing(d)'
               PROVE  /\ caller'[d].new \in Containers /\ caller'[d].new # services'
                      /\ containers'[caller'[d].new] = [state |-> "up", gen |-> caller'[d].gen]
                      /\ \A e \in Callers : Stopping(e)' => caller'[e].old # caller'[d].new
      BY DEF OwnContainer
  <2>1. d # c /\ caller'[d] = caller[d] /\ Bringing(d) BY <1>1, <1>3 DEF Bringing
  <2>2. caller[d].new \in Containers \ {caller[c].old}
      BY <1>2, <2>1 DEF Inv, OwnContainer, Stopping
  <2> QED BY <1>1, <1>2, <1>3, <1>t, <2>1, <2>2 DEF Inv, OwnContainer, Stopping
<1>7. StoppedElsewhere' BY <1>1, <1>2, <1>3, <1>s, <1>t DEF Inv, StoppedElsewhere, Stopping
<1>8. NoneLeft' BY <1>1, <1>2, <1>3, <1>s, <1>t DEF Inv, NoneLeft, Bringing, Stopping
<1>9. Serving' BY <1>1, <1>2, <1>3, <1>s, <1>t DEF Inv, Serving
<1>10. ReleasedOnce' BY <1>1, <1>2, <1>3, <1>s, <1>t DEF Inv, ReleasedOnce
<1> QED BY <1>4, <1>5, <1>6, <1>7, <1>8, <1>9, <1>10 DEF Inv

LEMMA StopInv ==
    ASSUME Sound, Inv, NEW c \in Callers, Stop(c)
    PROVE  Inv'
<1> DEFINE r == Idle
<1>0. caller[c] \in Requests /\ generation + 1 \in Nat /\ services \in Nat BY DEF Inv, TypeOK
<1>1. r \in Requests /\ r.at = "idle" BY <1>0 DEF Requests, Idle
<1>2. /\ caller[c].at = "stop" /\ Goes(c, r) /\ gate # c
      /\ containers' = Removed(caller[c].old) /\ UNCHANGED <<services, deployed, generation, gate, released>>
    BY DEF Inv, GateHeld, InGate, Stop
<1> HIDE DEF r
<1>3. /\ caller' \in [Callers -> Requests] /\ caller'[c] = r
      /\ \A d \in Callers \ {c} : caller'[d] = caller[d]
    BY <1>0, <1>1, <1>2, OneMoves DEF Inv
<1>s. caller[c].old \in Containers /\ caller[c].old # services
    BY <1>2 DEF Inv, OwnContainer, StoppedElsewhere, Bringing, Stopping
<1>t. /\ containers' \in [Containers -> [state : {"none", "up", "removed"}, gen : Nat]]
      /\ containers'[caller[c].old].state = "removed"
      /\ \A j \in Containers \ {caller[c].old} : containers'[j] = containers[j]
    BY <1>2, <1>s, OneRemoved DEF Inv
<1>4. TypeOK' BY <1>1, <1>2, <1>3, <1>s, <1>t DEF Inv, TypeOK
<1>5. GateHeld' BY <1>1, <1>2, <1>3, <1>s, <1>t DEF Inv, GateHeld, InGate, Sound
<1>6. OwnContainer'
  <2> SUFFICES ASSUME NEW d \in Callers, Bringing(d)'
               PROVE  /\ caller'[d].new \in Containers /\ caller'[d].new # services'
                      /\ containers'[caller'[d].new] = [state |-> "up", gen |-> caller'[d].gen]
                      /\ \A e \in Callers : Stopping(e)' => caller'[e].old # caller'[d].new
      BY DEF OwnContainer
  <2>1. d # c /\ caller'[d] = caller[d] /\ Bringing(d) BY <1>1, <1>3 DEF Bringing
  <2>2. caller[d].new \in Containers \ {caller[c].old}
      BY <1>2, <2>1 DEF Inv, OwnContainer, Stopping
  <2> QED BY <1>1, <1>2, <1>3, <1>t, <2>1, <2>2 DEF Inv, OwnContainer, Stopping
<1>7. StoppedElsewhere' BY <1>1, <1>2, <1>3, <1>s, <1>t DEF Inv, StoppedElsewhere, Stopping
<1>8. NoneLeft' BY <1>1, <1>2, <1>3, <1>s, <1>t DEF Inv, NoneLeft, Bringing, Stopping
<1>9. Serving' BY <1>1, <1>2, <1>3, <1>s, <1>t DEF Inv, Serving
<1>10. ReleasedOnce' BY <1>1, <1>2, <1>3, <1>s, <1>t DEF Inv, ReleasedOnce
<1> QED BY <1>4, <1>5, <1>6, <1>7, <1>8, <1>9, <1>10 DEF Inv

\* A delete takes over the container that served.
LEMMA DeleteInv ==
    ASSUME Sound, Inv, NEW c \in Callers, Delete(c)
    PROVE  Inv'
<1> DEFINE r == [caller[c] EXCEPT !.at = "stop", !.old = services]
<1>0. caller[c] \in Requests /\ generation + 1 \in Nat /\ services \in Nat BY DEF Inv, TypeOK
<1>1. r \in Requests /\ r.at = "stop" /\ r.old = services BY <1>0 DEF Requests
<1>2. /\ caller[c].at = "idle" /\ Goes(c, r) /\ gate # c /\ services # 0 /\ services' = 0 /\ deployed' = 0
      /\ UNCHANGED <<generation, gate, containers, released>>
    BY DEF Inv, GateHeld, InGate, Delete, Idle
<1> HIDE DEF r
<1>3. /\ caller' \in [Callers -> Requests] /\ caller'[c] = r
      /\ \A d \in Callers \ {c} : caller'[d] = caller[d]
    BY <1>0, <1>1, <1>2, OneMoves DEF Inv
<1>s. services \in Containers /\ containers[services].state = "up" /\ 0 \notin Containers
    BY <1>2 DEF Inv, Serving, Containers
<1>4. TypeOK' BY <1>1, <1>2, <1>3, <1>s DEF Inv, TypeOK
<1>5. GateHeld' BY <1>1, <1>2, <1>3, <1>s DEF Inv, GateHeld, InGate, Sound
<1>6. OwnContainer' BY <1>1, <1>2, <1>3, <1>s DEF Inv, OwnContainer, Bringing, Stopping
<1>7. StoppedElsewhere' BY <1>1, <1>2, <1>3, <1>s DEF Inv, StoppedElsewhere, Stopping
<1>8. NoneLeft' BY <1>1, <1>2, <1>3, <1>s DEF Inv, NoneLeft, Bringing, Stopping
<1>9. Serving' BY <1>1, <1>2, <1>3, <1>s DEF Inv, Serving
<1>10. ReleasedOnce' BY <1>1, <1>2, <1>3, <1>s DEF Inv, ReleasedOnce
<1> QED BY <1>4, <1>5, <1>6, <1>7, <1>8, <1>9, <1>10 DEF Inv

\* A commit with nothing to retire.
LEMMA FirstCommitInv ==
    ASSUME Sound, Inv, NEW c \in Callers, Commit(c), services = 0
    PROVE  Inv'
<1> DEFINE r == Idle
<1>0. caller[c] \in Requests /\ generation + 1 \in Nat /\ services \in Nat BY DEF Inv, TypeOK
<1>1. r \in Requests /\ r.at = "idle" BY <1>0 DEF Requests, Idle
<1>2. /\ caller[c].at = "commit" /\ caller[c].gen = generation + 1 /\ gate = c
      /\ Goes(c, r) /\ gate' = Nobody /\ services = 0
      /\ services' = caller[c].new /\ deployed' = caller[c].gen /\ generation' = caller[c].gen
      /\ released' = Append(released, caller[c].gen) /\ UNCHANGED containers
    BY DEF Inv, GateHeld, InGate, Commit, Fails
<1> HIDE DEF r
<1>3. /\ caller' \in [Callers -> Requests] /\ caller'[c] = r
      /\ \A d \in Callers \ {c} : caller'[d] = caller[d]
    BY <1>0, <1>1, <1>2, OneMoves DEF Inv
<1>s. /\ caller[c].new \in Containers /\ caller[c].new # services /\ caller[c].new # 0
      /\ containers[caller[c].new] = [state |-> "up", gen |-> caller[c].gen]
      /\ \A d \in Callers : Stopping(d) => caller[d].old # caller[c].new
    BY <1>2 DEF Inv, OwnContainer, Bringing, Containers
<1>t. \A d \in Callers : ~Bringing(d)'
    BY <1>1, <1>2, <1>3 DEF Inv, GateHeld, InGate, Bringing
<1>4. TypeOK'
  <2>1. caller[c].new \in Nat /\ caller[c].gen \in Nat BY <1>0 DEF Requests
  <2> QED BY <1>1, <1>2, <1>3, <2>1 DEF Inv, TypeOK
<1>5. GateHeld'
  <2>1. \A d \in Callers \ {c} : caller[d].at \notin InGate BY <1>2 DEF Inv, GateHeld
  <2> QED BY <1>1, <1>2, <1>3, <2>1 DEF Sound, GateHeld, InGate
<1>6. OwnContainer'
    BY <1>t DEF OwnContainer
<1>7. StoppedElsewhere' BY <1>1, <1>2, <1>3, <1>s, <1>t DEF Inv, StoppedElsewhere, Stopping
<1>8. NoneLeft'
  <2>1. \A d \in Callers : Bringing(d) => d = c BY <1>2 DEF Inv, GateHeld, InGate, Bringing
  <2>2. \A d \in Callers : Stopping(d) => Stopping(d)' /\ caller'[d].old = caller[d].old
      BY <1>2, <1>3 DEF Stopping
  <2>3. services \notin Containers \/ (Stopping(c)' /\ caller'[c].old = services)
      BY <1>1, <1>2, <1>3 DEF Stopping, Containers
  <2> QED BY <1>2, <2>1, <2>2, <2>3 DEF Inv, NoneLeft
<1>9. Serving'
  <2>1. generation \in Nat BY DEF Inv, TypeOK
  <2> QED BY <1>2, <1>s, <2>1 DEF Serving
<1>10. ReleasedOnce'
  <2>1. released \in Seq(Nat) /\ generation \in Nat BY DEF Inv, TypeOK
  <2>2. \A k \in DOMAIN released : released[k] \in Nat /\ released[k] <= generation
      BY <2>1 DEF Inv, ReleasedOnce
  <2>3. /\ DOMAIN released' = 1..(Len(released) + 1) /\ DOMAIN released = 1..Len(released)
        /\ \A k \in 1..Len(released) : released'[k] = released[k]
        /\ released'[Len(released) + 1] = generation + 1 /\ Len(released) \in Nat
      BY <1>0, <1>2, <2>1 DEF Requests
  <2>4. \A j, k \in DOMAIN released : j < k => released[j] < released[k] BY DEF Inv, ReleasedOnce
  <2> QED BY <1>2, <2>1, <2>2, <2>3, <2>4 DEF ReleasedOnce
<1> QED BY <1>4, <1>5, <1>6, <1>7, <1>8, <1>9, <1>10 DEF Inv

\* A commit that takes over from another container.
LEMMA NextCommitInv ==
    ASSUME Sound, Inv, NEW c \in Callers, Commit(c), services # 0
    PROVE  Inv'
<1> DEFINE r == [caller[c] EXCEPT !.at = "retire", !.old = services]
<1>0. caller[c] \in Requests /\ generation + 1 \in Nat /\ services \in Nat BY DEF Inv, TypeOK
<1>1. r \in Requests /\ r.at = "retire" /\ r.old = services BY <1>0 DEF Requests
<1>2. /\ caller[c].at = "commit" /\ caller[c].gen = generation + 1 /\ gate = c
      /\ Goes(c, r) /\ gate' = gate /\ services # 0
      /\ services' = caller[c].new /\ deployed' = caller[c].gen /\ generation' = caller[c].gen
      /\ released' = Append(released, caller[c].gen) /\ UNCHANGED containers
    BY DEF Inv, GateHeld, InGate, Commit
<1> HIDE DEF r
<1>3. /\ caller' \in [Callers -> Requests] /\ caller'[c] = r
      /\ \A d \in Callers \ {c} : caller'[d] = caller[d]
    BY <1>0, <1>1, <1>2, OneMoves DEF Inv
<1>s. /\ caller[c].new \in Containers /\ caller[c].new # services /\ caller[c].new # 0
      /\ containers[caller[c].new] = [state |-> "up", gen |-> caller[c].gen]
      /\ \A d \in Callers : Stopping(d) => caller[d].old # caller[c].new
    BY <1>2 DEF Inv, OwnContainer, Bringing, Containers
<1>t. \A d \in Callers : ~Bringing(d)'
    BY <1>1, <1>2, <1>3 DEF Inv, GateHeld, InGate, Bringing
<1>u. services \in Containers /\ containers[services].state = "up"
    BY <1>2 DEF Inv, Serving
<1>4. TypeOK'
  <2>1. caller[c].new \in Nat /\ caller[c].gen \in Nat BY <1>0 DEF Requests
  <2> QED BY <1>1, <1>2, <1>3, <2>1 DEF Inv, TypeOK
<1>5. GateHeld'
  <2>1. \A d \in Callers \ {c} : caller[d].at \notin InGate BY <1>2 DEF Inv, GateHeld
  <2> QED BY <1>1, <1>2, <1>3, <2>1 DEF Sound, GateHeld, InGate
<1>6. OwnContainer'
    BY <1>t DEF OwnContainer
<1>7. StoppedElsewhere' BY <1>1, <1>2, <1>3, <1>s, <1>t, <1>u DEF Inv, StoppedElsewhere, Stopping
<1>8. NoneLeft'
  <2>1. \A d \in Callers : Bringing(d) => d = c BY <1>2 DEF Inv, GateHeld, InGate, Bringing
  <2>2. \A d \in Callers : Stopping(d) => Stopping(d)' /\ caller'[d].old = caller[d].old
      BY <1>2, <1>3 DEF Stopping
  <2>3. services \notin Containers \/ (Stopping(c)' /\ caller'[c].old = services)
      BY <1>1, <1>2, <1>3 DEF Stopping, Containers
  <2> QED BY <1>2, <2>1, <2>2, <2>3 DEF Inv, NoneLeft
<1>9. Serving'
  <2>1. generation \in Nat BY DEF Inv, TypeOK
  <2> QED BY <1>2, <1>s, <2>1 DEF Serving
<1>10. ReleasedOnce'
  <2>1. released \in Seq(Nat) /\ generation \in Nat BY DEF Inv, TypeOK
  <2>2. \A k \in DOMAIN released : released[k] \in Nat /\ released[k] <= generation
      BY <2>1 DEF Inv, ReleasedOnce
  <2>3. /\ DOMAIN released' = 1..(Len(released) + 1) /\ DOMAIN released = 1..Len(released)
        /\ \A k \in 1..Len(released) : released'[k] = released[k]
        /\ released'[Len(released) + 1] = generation + 1 /\ Len(released) \in Nat
      BY <1>0, <1>2, <2>1 DEF Requests
  <2>4. \A j, k \in DOMAIN released : j < k => released[j] < released[k] BY DEF Inv, ReleasedOnce
  <2> QED BY <1>2, <2>1, <2>2, <2>3, <2>4 DEF ReleasedOnce
<1> QED BY <1>4, <1>5, <1>6, <1>7, <1>8, <1>9, <1>10 DEF Inv

LEMMA NextInv == ASSUME Sound, Inv, [Next]_vars PROVE Inv'
<1>1. CASE UNCHANGED vars
    BY <1>1 DEF vars, Inv, TypeOK, GateHeld, OwnContainer, StoppedElsewhere, Serving, NoneLeft,
                ReleasedOnce, Bringing, Stopping
<1>2. ASSUME NEW c \in Callers, startContainer(c) PROVE Inv'
  <2>1. CASE Fails(c) /\ UNCHANGED containers BY <1>2, <2>1, StartFailsInv DEF startContainer
  <2>2. ASSUME NEW i \in Containers,
               \A j \in Containers : (j < i) <=> containers[j] # NoContainer,
               containers' = [containers EXCEPT ![i] = [state |-> "up", gen |-> caller[c].gen]],
               Goes(c, [caller[c] EXCEPT !.at = "await", !.new = i]), UNCHANGED gate
        PROVE  Inv'
    <3>1. containers[i] = NoContainer BY <2>2 DEF Containers, Sound
    <3> QED BY <1>2, <2>2, <3>1, StartsInv DEF startContainer
  <2> QED BY <1>2, <2>1, <2>2 DEF startContainer
<1>3. ASSUME NEW c \in Callers, awaitListen(c) PROVE Inv'
    BY <1>3, ListensInv, GivenUpInv DEF awaitListen
<1>4. ASSUME NEW c \in Callers, Commit(c) PROVE Inv'
    BY <1>4, FirstCommitInv, NextCommitInv
<1> QED BY <1>1, <1>2, <1>3, <1>4, WaitInv, DeployInv, StopPreviousInv, DeleteInv, StopInv
        DEF Next, start, StopAll

\* One revision serves: no revision number is committed twice, what the API
\* reports is what an up container serves, and no other container is left up
\* that no request answers for (registry.go Deploy, Delete, StopAll).
THEOREM OneRevision == ASSUME Sound PROVE Spec => []OneRevisionServes
<1>1. Inv => OneRevisionServes
  <2> SUFFICES ASSUME Inv PROVE OneRevisionServes OBVIOUS
  <2>1. Up \subseteq {services} \cup {caller[c].new : c \in Callers} \cup {caller[c].old : c \in Callers}
      BY DEF Inv, NoneLeft, Up
  <2>2. services # 0 => services \in Up /\ containers[services].gen = deployed
      BY DEF Inv, Serving, Up
  <2> QED BY <2>1, <2>2 DEF Inv, Serving, ReleasedOnce, OneRevisionServes
<1>2. Init => Inv BY InitInv
<1>3. Inv /\ [Next]_vars => Inv' BY NextInv
<1> QED BY <1>1, <1>2, <1>3, PTL DEF Spec
=============================================================================
