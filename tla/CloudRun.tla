------------------------------ MODULE CloudRun ------------------------------
(***************************************************************************)
(* The Cloud Run registry for one service (services/cloudrun/registry.go,  *)
(* runner.go, docker.go, api.go): deploys that build and start a container *)
(* outside the registry's lock but inside the service's gate, deletes that *)
(* do not take the gate, and the shutdown.  Containers are numbered as     *)
(* they are created; a process run from source is one too.                 *)
(***************************************************************************)
EXTENDS Integers, Sequences, FiniteSets

CONSTANTS Callers,        \* concurrent requests
          MaxContainers,  \* bound on containers created
          Nobody          \* no holder of the gate

VARIABLES services,    \* the container r.services names, 0 for none
          deployed,    \* the generation r.deployed reports, 0 for none
          generation,  \* r.generation
          gate,        \* the holder of the service's deploying mutex
          containers,  \* containers[i]: [state, gen]
          caller,      \* caller[c]: [at, gen, new, old]
          released     \* ghost: the generations committed, in order

vars == <<services, deployed, generation, gate, containers, caller, released>>

Containers == 1..MaxContainers
NoContainer == [state |-> "none", gen |-> 0]
Idle == [at |-> "idle", gen |-> 0, new |-> 0, old |-> 0]

Init ==
    /\ services = 0 /\ deployed = 0 /\ generation = 0 /\ gate = Nobody
    /\ containers = [i \in Containers |-> NoContainer]
    /\ caller = [c \in Callers |-> Idle] /\ released = << >>

Goes(c, request) == caller' = [caller EXCEPT ![c] = request]

-----------------------------------------------------------------------------
\* createKnative looks for the service first, replaceKnative does not; the
\* look is not repeated under the gate.
createKnative(c) ==
    /\ caller[c] = Idle /\ deployed = 0
    /\ Goes(c, [caller[c] EXCEPT !.at = "gate"])
    /\ UNCHANGED <<services, deployed, generation, gate, containers, released>>

replaceKnative(c) ==
    /\ caller[c] = Idle
    /\ Goes(c, [caller[c] EXCEPT !.at = "gate"])
    /\ UNCHANGED <<services, deployed, generation, gate, containers, released>>

\* Mutant: deploys of one service are not kept apart.
DeployUngated(c) ==
    /\ caller[c].at = "gate"
    /\ Goes(c, [caller[c] EXCEPT !.at = "create", !.gen = generation + 1])
    /\ UNCHANGED <<services, deployed, generation, gate, containers, released>>

\* Deploy waits for the gate and reads the next generation.
Deploy(c) ==
    /\ caller[c].at = "gate" /\ gate = Nobody
    /\ gate' = c
    /\ Goes(c, [caller[c] EXCEPT !.at = "create", !.gen = generation + 1])
    /\ UNCHANGED <<services, deployed, generation, containers, released>>

\* A failed deploy releases the gate and changes nothing.
Fails(c) == Goes(c, Idle) /\ gate' = Nobody

\* startContainer: no daemon, no image, or a container created and started ...
startContainer(c) ==
    /\ caller[c].at = "create"
    /\ \/ Fails(c) /\ UNCHANGED containers
       \/ \E i \in Containers :
             /\ \A j \in Containers : (j < i) <=> containers[j] # NoContainer
             /\ containers' = [containers EXCEPT ![i] = [state |-> "up", gen |-> caller[c].gen]]
             /\ Goes(c, [caller[c] EXCEPT !.at = "await", !.new = i])
             /\ UNCHANGED gate
    /\ UNCHANGED <<services, deployed, generation, released>>

\* A service deployed from source: its build fails, or its process starts.
start(c) == startContainer(c)

Removed(i) == [containers EXCEPT ![i].state = "removed"]

\* ... which listens in time, or exits, times out or is given up, and is removed.
awaitListen(c) ==
    /\ caller[c].at = "await"
    /\ \/ Goes(c, [caller[c] EXCEPT !.at = "commit"]) /\ UNCHANGED <<gate, containers>>
       \/ Fails(c) /\ containers' = Removed(caller[c].new)
    /\ UNCHANGED <<services, deployed, generation, released>>

\* The new container takes the service under the registry's lock; with nothing
\* to retire the gate is released at once.
Commit(c) ==
    /\ caller[c].at = "commit"
    /\ services' = caller[c].new /\ deployed' = caller[c].gen /\ generation' = caller[c].gen
    /\ released' = Append(released, caller[c].gen)
    /\ IF services = 0
       THEN Fails(c)
       ELSE Goes(c, [caller[c] EXCEPT !.at = "retire", !.old = services]) /\ UNCHANGED gate
    /\ UNCHANGED containers

\* The gate is held until the previous container has gone.
StopPrevious(c) ==
    /\ caller[c].at = "retire"
    /\ containers' = Removed(caller[c].old)
    /\ Fails(c)
    /\ UNCHANGED <<services, deployed, generation, released>>

\* Delete, and StopAll for every service, forget it and then stop it.  The
\* generation is kept.
Delete(c) ==
    /\ caller[c] = Idle /\ services # 0
    /\ services' = 0 /\ deployed' = 0
    /\ Goes(c, [caller[c] EXCEPT !.at = "stop", !.old = services])
    /\ UNCHANGED <<generation, gate, containers, released>>

StopAll(c) == Delete(c)

Stop(c) ==
    /\ caller[c].at = "stop"
    /\ containers' = Removed(caller[c].old)
    /\ Goes(c, Idle)
    /\ UNCHANGED <<services, deployed, generation, gate, released>>

Next ==
    \E c \in Callers :
        \/ createKnative(c) \/ replaceKnative(c) \/ Deploy(c)
        \/ startContainer(c) \/ start(c) \/ awaitListen(c) \/ Commit(c) \/ StopPrevious(c) \/ Delete(c) \/ StopAll(c) \/ Stop(c)

Spec == Init /\ [][Next]_vars

-----------------------------------------------------------------------------
Requests == [at : {"idle", "gate", "create", "await", "commit", "retire", "stop"},
             gen : Nat, new : Nat, old : Nat]

\* The types of the registry's state and of its requests.
TypeOK ==
    /\ services \in Nat /\ deployed \in Nat /\ generation \in Nat
    /\ gate \in Callers \cup {Nobody}
    /\ containers \in [Containers -> [state : {"none", "up", "removed"}, gen : Nat]]
    /\ caller \in [Callers -> Requests]
    /\ released \in Seq(Nat)

Up == {i \in Containers : containers[i].state = "up"}

\* What the gate is for (registry.go: "two deploys of the same service racing
\* would claim one revision number and each stop the other's container"), and
\* that "a deploy that the API reports cannot be one that nothing is serving":
\* no revision number is committed twice, what Describe reports is the revision
\* of the container that serves and that container is up, and every other
\* container up is one a request is bringing up or about to stop.
OneRevisionServes ==
    /\ \A i, j \in DOMAIN released : i < j => released[i] < released[j]
    /\ (services = 0) <=> (deployed = 0)
    /\ services # 0 => services \in Up /\ containers[services].gen = deployed
    /\ Up \subseteq {services} \cup {caller[c].new : c \in Callers} \cup {caller[c].old : c \in Callers}
=============================================================================
