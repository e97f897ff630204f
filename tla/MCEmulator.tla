----------------------------- MODULE MCEmulator -----------------------------
(***************************************************************************)
(* Instances of the emulator's own machinery: the virtual clock and what   *)
(* waits for it, routing and injected faults, and the processes,           *)
(* containers and clusters it runs with their output.  A behaviour is a    *)
(* behaviour of one of them, chosen at the start as its scene.             *)
(***************************************************************************)
EXTENDS FakeClock, Sequences

CONSTANTS Goroutines, Callers, Nobody, c1, c2, p1, p2, Admin, Readers, Tokens, Reuse

VARIABLES scene,
          deployed, routed, deploys,
          rules, request, history,
          work, drain, jumps,
          entry, process, subscribed, canDrop, watched, canStop, task, events, deliveries,
          services, revision, generation, gate, containers, caller, released,
          status, physical, up, op, boots,
          lines, ended, reader, lost, buf, emitted, written, writes,
          seen, archive, tree, serving, staging, uploads, used, closed

routeVars == <<deployed, routed, deploys>>
faultVars == <<rules, request, history>>
drainVars == <<work, drain, jumps>>
functionVars == <<entry, process, subscribed, canDrop, watched, canStop, task, events, deliveries>>
serviceVars == <<services, revision, generation, gate, containers, caller, released>>
clusterVars == <<status, physical, up, op, boots>>
logVars == <<lines, ended, reader, lost, buf, emitted, written, writes>>
sourceVars == <<seen, archive, tree, serving, staging, uploads, used, closed>>

-----------------------------------------------------------------------------
\* A function and a service of one name, a function of another project, and
\* one that is called like a mount.
Deployed(kind, project, name) ==
    [kind |-> kind, location |-> <<"us", "central1">>, project |-> project, name |-> name]
RT == INSTANCE Routing
        WITH answer <- routed, MaxDeploys <- 2,
             Values <- {<<"hello">>, <<"us", "central1", "local">>, <<"us", "central1", "a", "b">>},
             Deployable <- {Deployed("function", <<"local">>, <<"hello">>),
                            Deployed("service", <<"local">>, <<"hello">>),
                            Deployed("function", <<"a", "b">>, <<"hello">>),
                            Deployed("function", <<"local">>, <<"v1">>)}

\* Rules with a rate, with a count, slow and failing ones.
Rule(paths, code, latency, count, num, den) ==
    [paths |-> paths, status |-> code, latency |-> latency, count |-> count, num |-> num,
     den |-> den]
FA == INSTANCE Faults
        WITH MaxRequests <- 4, MaxArmed <- 2, Paths <- {p1, p2},
             Rules <- {Rule({p1}, 503, FALSE, 0, 1, 2), Rule({p1, p2}, 0, FALSE, 2, 0, 1),
                       Rule({p1}, 0, TRUE, 1, 2, 3), Rule({p2}, 500, TRUE, 2, 1, 2)}

DR == INSTANCE Drain WITH MaxWork <- 3, MaxPasses <- 3, MaxAttempts <- 2, MaxJumps <- 1

FN == INSTANCE FunctionRegistry
        WITH Tasks <- Goroutines, MaxVersions <- 3, MaxEvents <- 1, MaxAttempts <- 2

CR == INSTANCE CloudRun WITH deployed <- revision, MaxContainers <- 4

\* Clients wait for an operation on a cluster before they start another on it.
GK == INSTANCE Clusters
        WITH ClusterNames <- {c1, c2}, MaxOps <- 4, MaxRestarts <- 1, Overlap <- FALSE

PL == INSTANCE ProcessLogs
        WITH Chunks <- {<<1>>, <<5>>, <<1, 0>>, <<0, 2, 1>>}, MaxWrites <- 4, RingLines <- 2,
             ChannelLines <- 2, MaxLineBytes <- 2

\* One name in two projects, and archives of two files.
SO == INSTANCE FunctionSources
        WITH request <- staging, Functions <- {<<"p", "f">>, <<"q", "f">>}, Entries <- 2,
             Clients <- Callers, MaxUploads <- 3

-----------------------------------------------------------------------------
controlVars == <<vars, routeVars, faultVars, drainVars>>
runnerVars == <<functionVars, serviceVars, clusterVars, logVars, sourceVars>>
sceneVars == <<scene, controlVars, runnerVars>>

SceneInit ==
    /\ scene \in {"clock", "routes", "faults", "drain", "functions", "services", "clusters",
                  "logs", "sources"}
    /\ Init /\ RT!Init /\ FA!Init /\ DR!Init /\ FN!Init /\ CR!Init /\ GK!Init /\ PL!Init /\ SO!Init

SceneNext ==
    \/ /\ scene = "clock" /\ Next
       /\ UNCHANGED <<scene, routeVars, faultVars, drainVars, runnerVars>>
    \/ /\ scene = "routes" /\ RT!Next
       /\ UNCHANGED <<scene, vars, faultVars, drainVars, runnerVars>>
    \/ /\ scene = "faults" /\ FA!Next
       /\ UNCHANGED <<scene, vars, routeVars, drainVars, runnerVars>>
    \/ /\ scene = "drain" /\ DR!Next
       /\ UNCHANGED <<scene, vars, routeVars, faultVars, runnerVars>>
    \/ /\ scene = "functions" /\ FN!Next
       /\ UNCHANGED <<scene, controlVars, serviceVars, clusterVars, logVars, sourceVars>>
    \/ /\ scene = "services" /\ CR!Next
       /\ UNCHANGED <<scene, controlVars, functionVars, clusterVars, logVars, sourceVars>>
    \/ /\ scene = "clusters" /\ GK!Next
       /\ UNCHANGED <<scene, controlVars, functionVars, serviceVars, logVars, sourceVars>>
    \/ /\ scene = "logs" /\ PL!Next
       /\ UNCHANGED <<scene, controlVars, functionVars, serviceVars, clusterVars, sourceVars>>
    \/ /\ scene = "sources" /\ SO!Next
       /\ UNCHANGED <<scene, controlVars, functionVars, serviceVars, clusterVars, logVars>>

SceneSpec == SceneInit /\ [][SceneNext]_sceneVars

-----------------------------------------------------------------------------
\* A request made for a route reaches it (Routing).
EachRouteReached == scene = "routes" => RT!EachRouteReached



\* A name serves one version, and what it served before is stopped (FunctionRegistry).
ServesOneVersion == scene = "functions" => FN!ServesOneVersion

\* A service's revisions go forward and one container serves (CloudRun).
OneRevisionServes == scene = "services" => CR!OneRevisionServes


\* A follower is shown every line it had room for, and no byte is dropped
\* (ProcessLogs).
NoOutputLost == scene = "logs" => PL!NoOutputLost

\* A function runs from the tree of the archive it was deployed from
\* (FunctionSources).
ServesItsUpload == scene = "sources" => SO!ServesItsUpload
=============================================================================
