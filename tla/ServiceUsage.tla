---------------------------- MODULE ServiceUsage ----------------------------
(***************************************************************************)
(* Service Usage (services/serviceusage/serviceusage.go): which APIs a     *)
(* project has enabled, one key of the metadata store for each.  A change  *)
(* reads the key's version and puts the new value under the service's      *)
(* mutex, in two store calls.  A reset of a project takes the mutex too; a *)
(* reset of everything (resetAll in cloudrig.go) goes on to empty the      *)
(* store without it, and so does the restore of a snapshot.                *)
(***************************************************************************)
EXTENDS KV, Sequences, FiniteSets

CONSTANTS Projects,   \* project names
          Services,   \* API names
          Callers,    \* concurrent requests
          Batches,    \* the lists of APIs batchEnable is asked for
          Nobody,     \* no holder of the mutex
          MaxChanges  \* bound on requests that change something

VARIABLES kv,       \* kv[<<p, s>>]: the entry of su/p/s
          mu,       \* the request that holds Service.mu
          call,     \* call[c]: what a request has still to do
          saved,    \* the keys as a snapshot holds them
          changes,  \* requests made
          last,     \* ghost: last[k], whether k was last asked to be enabled
          emptied   \* ghost: the store was replaced under a holder of the mutex

vars == <<kv, mu, call, saved, changes, last, emptied>>

Keys == Projects \X Services
Idle == [at |-> "idle"]

\* enabled of a value: "a service nobody has touched is treated as on".
On(entries, k) == Holds(entries, k) => entries[k].val # "DISABLED"
enabled(k) == On(kv, k)

Init ==
    /\ kv = [k \in Keys |-> Absent] /\ saved = kv
    /\ mu = Nobody /\ call = [c \in Callers |-> Idle] /\ changes = 0
    /\ last = [k \in Keys |-> TRUE] /\ emptied = FALSE

Goes(c, next) == call' = [call EXCEPT ![c] = next]
Asks(c) == call[c] = Idle /\ changes < MaxChanges /\ changes' = changes + 1

-----------------------------------------------------------------------------
\* :enable and :disable set one API, batchEnable several, one after the other.
serviceVerb(c, p, s, on) ==
    /\ Asks(c) /\ Goes(c, [at |-> "lock", p |-> p, todo |-> <<s>>, on |-> on])
    /\ UNCHANGED <<kv, mu, saved, last, emptied>>

batchEnable(c, p, ids) ==
    /\ Asks(c) /\ Goes(c, [at |-> "lock", p |-> p, todo |-> ids, on |-> TRUE])
    /\ UNCHANGED <<kv, mu, saved, last, emptied>>

KeyOf(c) == <<call[c].p, Head(call[c].todo)>>

\* Mutant: the mutex is not taken.
setStateUnlocked(c) ==
    /\ call[c].at = "lock"
    /\ Goes(c, [at |-> "put", p |-> call[c].p, todo |-> call[c].todo, on |-> call[c].on,
                version |-> kv[KeyOf(c)].version])
    /\ UNCHANGED <<kv, mu, saved, changes, last, emptied>>

\* setState takes the mutex and reads the key's version, 0 when absent ...
setState(c) ==
    /\ call[c].at = "lock" /\ mu = Nobody /\ mu' = c
    /\ Goes(c, [at |-> "put", p |-> call[c].p, todo |-> call[c].todo, on |-> call[c].on,
                version |-> kv[KeyOf(c)].version])
    /\ UNCHANGED <<kv, saved, changes, last, emptied>>

\* ... and puts the value at that version.  Both callers drop the error of a put
\* that fails and answer that the operation is done.
PutState(c) ==
    LET k == KeyOf(c)  rest == Tail(call[c].todo)  on == call[c].on IN
    /\ call[c].at = "put" /\ mu' = Nobody
    /\ kv' = IF PutMatches(kv, k, call[c].version)
             THEN Put(kv, k, IF on THEN "ENABLED" ELSE "DISABLED") ELSE kv
    /\ last' = [last EXCEPT ![k] = on]
    /\ Goes(c, IF rest = <<>> THEN Idle
               ELSE [at |-> "lock", p |-> call[c].p, todo |-> rest, on |-> on])
    /\ UNCHANGED <<saved, changes, emptied>>

-----------------------------------------------------------------------------
\* The listing of a project keeps the APIs whose stored state the filter wants ...
list(c, p, filter) ==
    /\ call[c] = Idle
    /\ LET found == {s \in Services : Holds(kv, <<p, s>>) /\ On(kv, <<p, s>>) \in filter}
       IN  found # {} /\ Goes(c, [at |-> "list", p |-> p, filter |-> filter,
                                  todo |-> found, shown |-> {}])
    /\ UNCHANGED <<kv, mu, saved, changes, last, emptied>>

\* ... and reads the state of each again to show it.
serviceState(c) ==
    /\ call[c].at = "list"
    /\ IF call[c].todo = {} THEN Goes(c, Idle)
       ELSE \E s \in call[c].todo :
               Goes(c, [call[c] EXCEPT !.todo = @ \ {s},
                                       !.shown = @ \cup {enabled(<<call[c].p, s>>)}])
    /\ UNCHANGED <<kv, mu, saved, changes, last, emptied>>

-----------------------------------------------------------------------------
\* The store's contents are replaced at once; a change between its read and its
\* put may then be lost.
Replaced(entries) ==
    /\ kv' = entries
    /\ last' = [k \in Keys |-> On(entries, k)]
    /\ emptied' = (emptied \/ mu # Nobody)

\* Reset of a project's keys, or of all of them, under the mutex; a reset of
\* everything goes on to the storage tree, which is the whole store.
ResetKeys(c, projects) ==
    /\ Asks(c) /\ mu = Nobody
    /\ Replaced(Reset(kv, projects \X Services))
    /\ Goes(c, IF projects = Projects THEN [at |-> "empty"] ELSE Idle)
    /\ UNCHANGED <<mu, saved>>

resetAll(c) ==
    /\ call[c].at = "empty"
    /\ Replaced(Reset(kv, Keys)) /\ Goes(c, Idle)
    /\ UNCHANGED <<mu, saved, changes>>

WriteSnapshot ==
    /\ saved' = kv
    /\ UNCHANGED <<kv, mu, call, changes, last, emptied>>

ReadSnapshot(c) ==
    /\ Asks(c) /\ Replaced(saved)
    /\ UNCHANGED <<mu, call, saved>>

Next ==
    \/ \E c \in Callers :
          \/ \E p \in Projects :
                \/ \E s \in Services, on \in BOOLEAN : serviceVerb(c, p, s, on)
                \/ \E ids \in Batches : batchEnable(c, p, ids)
                \/ \E filter \in {{TRUE}, {FALSE}, BOOLEAN} : list(c, p, filter)
                \/ ResetKeys(c, {p})
          \/ setState(c) \/ PutState(c) \/ serviceState(c)
          \/ ResetKeys(c, Projects) \/ resetAll(c) \/ ReadSnapshot(c)
    \/ WriteSnapshot

Spec == Init /\ [][Next]_vars

-----------------------------------------------------------------------------
\* The stored values, and that a request between its two store calls holds the
\* mutex.
TypeOK ==
    /\ \A k \in Keys : Holds(kv, k) => kv[k].val \in {"ENABLED", "DISABLED"}
    /\ changes \in 0..MaxChanges
    /\ \A c \in Callers : call[c].at = "put" <=> mu = c

\* "no two calls interleave ... the change is durable before the response, so
\* DONE is the truth": an API is in the state it was last asked to be in, by the
\* order of the puts, and one never asked for is enabled.
ChangesStand == \A k \in Keys : enabled(k) = last[k]

\* The same until the store is replaced between a change's read and its put.
DoneIsTheTruth == emptied \/ ChangesStand

\* A listing shows what its filter asked for.  An API changed between the
\* listing and the second read is shown in the state the filter left out.
ListsAsFiltered == \A c \in Callers : call[c].at = "list" => call[c].shown \subseteq call[c].filter
=============================================================================
