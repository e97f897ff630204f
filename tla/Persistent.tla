----------------------------- MODULE Persistent -----------------------------
(***************************************************************************)
(* store.Persistent (store/persist.go): a Memory whose contents are        *)
(* rewritten to one file a debounce interval after a write, and once more  *)
(* by Close.  Writers, the timer's callbacks and Close are goroutines; each *)
(* step here is what one of them does under one lock or in one system      *)
(* call.  The process can stop between any two steps and start again from  *)
(* the file.                                                               *)
(*                                                                         *)
(* The contents are identified by the number of the last mutation applied; *)
(* what a Put, Delete or Reset does to them is module Memory's.            *)
(***************************************************************************)
EXTENDS Integers

CONSTANTS Writers,      \* goroutines that mutate the store
          Callbacks,    \* timer callbacks that can be running at once
          MaxWrites,    \* bound on mutations
          MaxRestarts   \* bound on restarts

VARIABLES writes,    \* mutations ever made
          mem,       \* the mutation the memory contents end with
          disk,      \* the mutation the snapshot file ends with
          pending,   \* p.pending # nil
          armed,     \* the pending timer has neither fired nor been stopped
          closed,    \* p.closed
          writer,    \* writer[w]: "idle", or "touch" between mutation and touch
          flush,     \* flush[f]: step and image of a callback's Flush
          closing,   \* step and image of Close
          captured,  \* ghost: the newest contents any Flush has copied
          restarts

vars == <<writes, mem, disk, pending, armed, closed, writer, flush, closing,
          captured, restarts>>

Idle == [at |-> "idle", image |-> 0]
NotClosing == [at |-> "open", image |-> 0, upTo |-> 0]

\* No goroutine is inside the store and no flush is pending.
AtRest == [w \in Writers |-> "idle"]
NoFlush == [f \in Callbacks |-> Idle]

\* OpenPersistent finds no file: the store is empty.
Init ==
    /\ writes = 0 /\ restarts = 0
    /\ mem = 0 /\ disk = 0 /\ captured = 0
    /\ pending = FALSE /\ armed = FALSE /\ closed = FALSE
    /\ writer = AtRest /\ flush = NoFlush /\ closing = NotClosing

Newer(a, b) == IF a > b THEN a ELSE b

-----------------------------------------------------------------------------
\* Memory.Put, Delete or Reset succeeded; touch follows in its own step.
Write(w) ==
    /\ writer[w] = "idle"
    /\ writes < MaxWrites
    /\ writes' = writes + 1
    /\ mem' = writes + 1
    /\ writer' = [writer EXCEPT ![w] = "touch"]
    /\ UNCHANGED <<disk, pending, armed, closed, flush, closing, captured, restarts>>

touch(w) ==
    /\ writer[w] = "touch"
    /\ IF closed \/ pending
       THEN UNCHANGED <<pending, armed>>
       ELSE pending' = TRUE /\ armed' = TRUE
    /\ writer' = [writer EXCEPT ![w] = "idle"]
    /\ UNCHANGED <<writes, mem, disk, closed, flush, closing, captured, restarts>>

\* The debounce interval passes and the timer starts its callback.
Fire(f) ==
    /\ armed
    /\ flush[f].at = "idle"
    /\ armed' = FALSE
    /\ flush' = [flush EXCEPT ![f].at = "unset"]
    /\ UNCHANGED <<writes, mem, disk, pending, closed, writer, closing, captured, restarts>>

\* Mutant: p.pending is not cleared.
UnsetForgotten(f) ==
    /\ flush[f].at = "unset"
    /\ flush' = [flush EXCEPT ![f].at = "snapshot"]
    /\ UNCHANGED <<writes, mem, disk, pending, armed, closed, writer, closing, captured, restarts>>

\* The callback clears p.pending before it flushes ...
Unset(f) ==
    /\ flush[f].at = "unset"
    /\ pending' = FALSE
    /\ flush' = [flush EXCEPT ![f].at = "snapshot"]
    /\ UNCHANGED <<writes, mem, disk, armed, closed, writer, closing, captured, restarts>>

\* ... Flush copies the contents and stages them in a temporary file ...
Snapshot(f) ==
    /\ flush[f].at = "snapshot"
    /\ flush' = [flush EXCEPT ![f] = [at |-> "rename", image |-> mem]]
    /\ captured' = Newer(mem, captured)
    /\ UNCHANGED <<writes, mem, disk, pending, armed, closed, writer, closing, restarts>>

\* ... and renames it over the snapshot, unless staging or renaming failed;
\* the callback ignores Flush's error.
Rename(f) ==
    /\ flush[f].at = "rename"
    /\ disk' \in {flush[f].image, disk}
    /\ flush' = [flush EXCEPT ![f] = Idle]
    /\ UNCHANGED <<writes, mem, pending, armed, closed, writer, closing, captured, restarts>>

\* Close cancels the pending flush under the lock, then flushes outside it.
Close ==
    /\ ~closed
    /\ closed' = TRUE
    /\ pending' = FALSE
    /\ armed' = FALSE
    /\ closing' = [at |-> "snapshot", image |-> 0, upTo |-> mem]
    /\ UNCHANGED <<writes, mem, disk, writer, flush, captured, restarts>>

CloseSnapshot ==
    /\ closing.at = "snapshot"
    /\ closing' = [closing EXCEPT !.at = "rename", !.image = mem]
    /\ captured' = Newer(mem, captured)
    /\ UNCHANGED <<writes, mem, disk, pending, armed, closed, writer, flush, restarts>>

\* Close reports Flush's outcome to its caller: nil, or the error.
CloseRename ==
    /\ closing.at = "rename"
    /\ \/ disk' = closing.image /\ closing' = [closing EXCEPT !.at = "returned nil"]
       \/ disk' = disk /\ closing' = [closing EXCEPT !.at = "returned error"]
    /\ UNCHANGED <<writes, mem, pending, armed, closed, writer, flush, captured, restarts>>

\* The process stops, at any point, and OpenPersistent reads the contents back
\* from the file.
Restart ==
    /\ restarts < MaxRestarts
    /\ restarts' = restarts + 1
    /\ mem' = disk /\ captured' = disk
    /\ pending' = FALSE /\ armed' = FALSE /\ closed' = FALSE
    /\ writer' = AtRest /\ flush' = NoFlush /\ closing' = NotClosing
    /\ UNCHANGED <<writes, disk>>

Next ==
    \/ \E w \in Writers : Write(w) \/ touch(w)
    \/ \E f \in Callbacks : Fire(f) \/ Unset(f) \/ Snapshot(f) \/ Rename(f)
    \/ Close \/ CloseSnapshot \/ CloseRename
    \/ Restart

\* A goroutine that can run does, and an armed timer goes off.
Fairness ==
    /\ \A w \in Writers : WF_vars(touch(w))
    /\ WF_vars(\E f \in Callbacks : Fire(f))
    /\ \A f \in Callbacks : WF_vars(Unset(f)) /\ WF_vars(Snapshot(f)) /\ WF_vars(Rename(f))
    /\ WF_vars(CloseSnapshot) /\ WF_vars(CloseRename)

Spec == Init /\ [][Next]_vars /\ Fairness

-----------------------------------------------------------------------------
FlushSteps == {"idle", "unset", "snapshot", "rename"}
CloseSteps == {"open", "snapshot", "rename", "returned nil", "returned error"}

\* The shapes of the store's state and of its goroutines.
TypeOK ==
    /\ writes \in Nat /\ restarts \in Nat
    /\ mem \in Nat /\ disk \in Nat /\ captured \in Nat
    /\ pending \in BOOLEAN /\ armed \in BOOLEAN /\ closed \in BOOLEAN
    /\ writer \in [Writers -> {"idle", "touch"}]
    /\ flush \in [Callbacks -> [at : FlushSteps, image : Nat]]
    /\ closing \in [at : CloseSteps, image : Nat, upTo : Nat]

\* While the store is open a write no Flush has copied yet has a Flush coming
\* that will copy it: its writer is about to call touch, or a timer is armed,
\* or a callback has yet to take its snapshot.  Coalescing with a timer that is
\* already going off forgets no write, because the callback clears p.pending
\* before it copies the contents.
NoWriteForgotten ==
    ~closed /\ captured < mem =>
        \/ \E w \in Writers : writer[w] = "touch"
        \/ armed
        \/ \E f \in Callbacks : flush[f].at \in {"unset", "snapshot"}

\* Every write is copied by some Flush in the end, unless the store is closed
\* first or the process stops.
WritesAreCopied == []<>(captured >= mem \/ closed)

\* "Close cancels any pending flush and writes a final snapshot"
\* (store/persist.go): once Close has returned nil the file holds every write
\* made before it was called.  A callback that copied the contents earlier and
\* renames its file after Close does replaces the final snapshot by an older one.
FinalSnapshot == closing.at = "returned nil" => disk >= closing.upTo
=============================================================================
