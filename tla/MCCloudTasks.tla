---------------------------- MODULE MCCloudTasks ----------------------------
(* What clients do in small instances of CloudTasks. *)
EXTENDS CloudTasks

Mix(asks, attempts, requests) == [asks |-> asks, attempts |-> attempts, requests |-> requests]

\* Everything but purges and snapshots; purges; snapshots, with more retries; and
\* retries alone, enough of them to double the backoff and then to cap it.
TaskMixes ==
    {Mix({"pause", "resume", "run", "delete", "restart", "deleteQueue"}, 2, 5),
     Mix({"pause", "resume", "purge", "restart"}, 2, 5),
     Mix({"run", "snapshot"}, 3, 4),
     Mix({}, 4, 2)}

\* Each of the others is what one question needs.
BackoffMixes == {Mix({}, 5, 2)}
ExistsMixes == {Mix({}, 2, 5)}
FinishMixes == {Mix({"pause", "resume", "run"}, 2, 5)}
PurgeMixes == {Mix({"pause", "purge"}, 2, 5)}
RestoreMixes == {Mix({"snapshot"}, 2, 5)}
ResumeMixes == {Mix({"resume"}, 2, 5)}
ReuseMixes == {Mix({"delete"}, 2, 5)}
=============================================================================
