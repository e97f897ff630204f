------------------------------ MODULE Clusters ------------------------------
(***************************************************************************)
(* GKE clusters (services/gke/rpc.go, gke.go, runner.go): a record in the  *)
(* store, the name of the local Kubernetes cluster behind it, and the      *)
(* operations whose goroutines create and delete that cluster outside the  *)
(* service's lock.  Records survive a restart; operations do not.  All     *)
(* names hash to one candidate, so physical names are told apart by their  *)
(* suffix alone.                                                           *)
(***************************************************************************)
EXTENDS Integers, FiniteSets

CONSTANTS ClusterNames,  \* the clusters of a project
          MaxOps,        \* bound on operations
          MaxRestarts,   \* bound on restarts
          Overlap        \* whether clients start an operation on a cluster
                         \* before the last one on it is done

VARIABLES status,     \* status[c]: the record's status, "none" without one
          physical,   \* physical[c]: the backend name recorded, 0 without one
          up,         \* the local clusters that exist
          op,         \* op[o]: [kind, c, phys, at]
          boots

vars == <<status, physical, up, op, boots>>

Ops == 1..MaxOps
NoOp == [kind |-> "none", c |-> "none", phys |-> 0, at |-> "new"]

Init ==
    /\ status = [c \in ClusterNames |-> "none"] /\ physical = [c \in ClusterNames |-> 0]
    /\ up = {} /\ op = [o \in Ops |-> NoOp] /\ boots = 0

\* What a client polling GetOperation still waits for: an operation that is
\* neither done nor gone with the process.
InFlight(c) == \E o \in Ops : op[o].c = c /\ op[o].at \in {"runner", "succeeded", "failed", "finish"}

\* newOperation: a sequence number makes it new.
newOperation(kind, c, p) ==
    \E o \in Ops :
        /\ \A x \in Ops : (x < o) <=> op[x] # NoOp
        /\ op' = [op EXCEPT ![o] = [kind |-> kind, c |-> c, phys |-> p, at |-> "runner"]]


\* assignPhysical: the first candidate no record has.
assignPhysical(c) ==
    LET used == {physical[d] : d \in ClusterNames}
    IN CHOOSE p \in 1..Cardinality(ClusterNames) + 1 :
          p \notin used /\ \A q \in 1..p - 1 : q \in used

CreateCluster(c) ==
    LET p == assignPhysical(c) IN
    /\ status[c] = "none" /\ (Overlap \/ ~InFlight(c))
    /\ status' = [status EXCEPT ![c] = "PROVISIONING"]
    /\ physical' = [physical EXCEPT ![c] = p]
    /\ newOperation("create", c, p)
    /\ UNCHANGED <<up, boots>>

DeleteCluster(c) ==
    /\ status[c] # "none" /\ (Overlap \/ ~InFlight(c))
    /\ status' = [status EXCEPT ![c] = "STOPPING"]
    /\ newOperation("delete", c, physical[c])
    /\ UNCHANGED <<physical, up, boots>>

Goes(o, step) == op' = [op EXCEPT ![o].at = step]

\* The runner, outside the lock: a name that is taken, or any other failure, is
\* an error; deleting what does not exist is none.
RunnerCreate(o) ==
    /\ op[o].kind = "create" /\ op[o].at = "runner"
    /\ \/ op[o].phys \notin up /\ up' = up \cup {op[o].phys} /\ Goes(o, "succeeded")
       \/ UNCHANGED up /\ Goes(o, "failed")
    /\ UNCHANGED <<status, physical, boots>>

RunnerDelete(o) ==
    /\ op[o].kind = "delete" /\ op[o].at = "runner"
    /\ \/ up' = up \ {op[o].phys} /\ Goes(o, "succeeded")
       \/ UNCHANGED up /\ Goes(o, "failed")
    /\ UNCHANGED <<status, physical, boots>>

\* The goroutine's second half, under the lock: the record as it is by now gets
\* the outcome, if there is one ...
Created(o) ==
    LET c == op[o].c IN
    /\ op[o].kind = "create" /\ op[o].at \in {"succeeded", "failed"}
    /\ status' = IF status[c] = "none" THEN status
                 ELSE [status EXCEPT ![c] = IF op[o].at = "succeeded" THEN "RUNNING" ELSE "ERROR"]
    /\ Goes(o, "finish")
    /\ UNCHANGED <<physical, up, boots>>

\* ... and a delete removes it, unless the runner failed.
Deleted(o) ==
    LET c == op[o].c IN
    /\ op[o].kind = "delete" /\ op[o].at \in {"succeeded", "failed"}
    /\ IF op[o].at = "succeeded"
       THEN status' = [status EXCEPT ![c] = "none"] /\ physical' = [physical EXCEPT ![c] = 0]
       ELSE /\ status' = IF status[c] = "none" THEN status ELSE [status EXCEPT ![c] = "ERROR"]
            /\ UNCHANGED physical
    /\ Goes(o, "finish")
    /\ UNCHANGED <<up, boots>>

finish(o) ==
    /\ op[o].at = "finish"
    /\ Goes(o, "DONE")
    /\ UNCHANGED <<status, physical, up, boots>>

\* The process restarts on a persistent store: the operations and their
\* goroutines are gone, the records stay as they were.
Restart ==
    /\ boots < MaxRestarts
    /\ boots' = boots + 1
    /\ op' = [o \in Ops |-> IF op[o] = NoOp THEN NoOp ELSE [op[o] EXCEPT !.at = "forgotten"]]
    /\ UNCHANGED <<status, physical, up>>

Next ==
    \/ \E c \in ClusterNames : CreateCluster(c) \/ DeleteCluster(c)
    \/ \E o \in Ops : RunnerCreate(o) \/ RunnerDelete(o) \/ Created(o) \/ Deleted(o) \/ finish(o)
    \/ Restart

Spec == Init /\ [][Next]_vars

-----------------------------------------------------------------------------
\* Statuses, names and operations have the shapes the code gives them.
TypeOK ==
    /\ status \in [ClusterNames -> {"none", "PROVISIONING", "RUNNING", "STOPPING", "ERROR"}]
    /\ physical \in [ClusterNames -> 0..Cardinality(ClusterNames)]
    /\ up \subseteq 1..Cardinality(ClusterNames)
    /\ \A o \in Ops : op[o] = NoOp \/ op[o].c \in ClusterNames

=============================================================================
