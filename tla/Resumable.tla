------------------------------ MODULE Resumable ------------------------------
(***************************************************************************)
(* One resumable upload (services/storage/resumable.go): chunks appended   *)
(* to a session's temporary file, which becomes an object when the last    *)
(* one lands.  The client holds Size bytes; a byte is its position, and a  *)
(* chunk that starts at s carries the bytes after s.  Requests overlap,    *)
(* are repeated and come late, a connection can break inside a chunk, and  *)
(* the total is given with any request or with none.                       *)
(***************************************************************************)
EXTENDS Integers, Sequences

CONSTANTS Size,      \* bytes of the upload
          Uploads,   \* requests in flight at once
          MaxUploads \* bound on requests

VARIABLES session,  \* [offset, total, done, known]: known is being in sessions.m
          file,     \* the bytes in the temporary file, or << >> once removed
          upload,   \* upload[u]: what a request carries and has got to
          object,   \* the content WriteObject stored, or << >>
          stored,   \* ghost: how many objects were written
          asked     \* requests so far

vars == <<session, file, upload, object, stored, asked>>

Undeclared == -1
NoUpload == [at |-> "idle"]

\* startResumable has checked the bucket and opened the session.
Init ==
    /\ session = [offset |-> 0, total |-> Undeclared, done |-> FALSE, known |-> TRUE]
    /\ file = << >> /\ object = << >> /\ stored = 0 /\ asked = 0
    /\ upload = [u \in Uploads |-> NoUpload]

Bytes(from, to) == [i \in 1..(to - from) |-> from + i]
Goes(u, step) == upload' = [upload EXCEPT ![u].at = step]

\* What parseContentRange makes of the headers clients send: a chunk, a query,
\* or no header at all, which is the whole content from zero and no total.
parseContentRange ==
    [query : {FALSE}, start : 0..Size - 1, end : 1..Size, total : {Undeclared, Size}]
        \cup [query : {TRUE}, start : {0}, end : {Undeclared}, total : {Undeclared, Size}]
        \cup {[query |-> FALSE, start |-> 0, end |-> Undeclared, total |-> Undeclared]}

\* sessions.get: a request for a closed session is refused at once.
get(u, r) ==
    /\ upload[u].at \in {"idle", "incomplete", "done", "refused"}
    /\ asked < MaxUploads /\ asked' = asked + 1
    /\ r.end = Undeclared \/ r.start < r.end
    /\ upload' = [upload EXCEPT ![u] = [at |-> IF session.known THEN "chunk" ELSE "refused", r |-> r]]
    /\ UNCHANGED <<session, file, object, stored>>

Declare(r) == IF r.total >= 0 THEN r.total ELSE session.total

resumableQuery(u) ==
    LET r == upload[u].r  total == Declare(r) IN
    /\ upload[u].at = "chunk" /\ r.query
    /\ session' = [session EXCEPT !.total = total]
    /\ Goes(u, IF total >= 0 /\ session.offset >= total THEN "finalize" ELSE "incomplete")
    /\ UNCHANGED <<file, object, stored, asked>>

\* Mutant: the chunk is taken wherever it starts.
resumableChunkAnywhere(u) ==
    LET r == upload[u].r
        end == IF r.end = Undeclared THEN Size ELSE r.end
        total == Declare(r)
        offset == session.offset + (end - r.start)
    IN /\ upload[u].at = "chunk" /\ ~r.query /\ ~session.done
       /\ file' = file \o Bytes(r.start, end)
       /\ session' = [session EXCEPT !.total = total, !.offset = offset]
       /\ Goes(u, IF total >= 0 /\ offset >= total THEN "finalize" ELSE "incomplete")
       /\ UNCHANGED <<object, stored, asked>>

\* The chunk is appended if it starts where the file ends.  Whatever arrives of a
\* broken one is kept, and the request fails.
resumableChunk(u) ==
    LET r == upload[u].r
        end == IF r.end = Undeclared THEN Size ELSE r.end
        total == Declare(r)
    IN /\ upload[u].at = "chunk" /\ ~r.query
       /\ IF r.start # session.offset
          THEN /\ session' = [session EXCEPT !.total = total]
               /\ Goes(u, "incomplete") /\ UNCHANGED file
          ELSE \E offset \in r.start..end :
               /\ file' = file \o Bytes(r.start, offset)
               /\ session' = [session EXCEPT !.total = total, !.offset = offset]
               /\ Goes(u, IF offset < end THEN "refused"
                          ELSE IF total < 0 \/ offset < total THEN "incomplete" ELSE "finalize")
       /\ UNCHANGED <<object, stored, asked>>

\* Only the first request to get here finalises the session.
finalizeResumable(u) ==
    /\ upload[u].at = "finalize"
    /\ session' = [session EXCEPT !.done = TRUE]
    /\ Goes(u, IF session.done THEN "refused" ELSE "write")
    /\ UNCHANGED <<file, object, stored, asked>>

\* WriteObject reads the file from its start, outside the session's lock; it may
\* fail, on a precondition for one.
WriteObject(u) ==
    /\ upload[u].at = "write"
    /\ \/ object' = file /\ stored' = stored + 1 /\ Goes(u, "close")
       \/ UNCHANGED <<object, stored>> /\ Goes(u, "close failed")
    /\ UNCHANGED <<session, file, asked>>

close(u) ==
    /\ upload[u].at \in {"close", "close failed"}
    /\ session' = [session EXCEPT !.known = FALSE] /\ file' = << >>
    /\ Goes(u, IF upload[u].at = "close" THEN "done" ELSE "refused")
    /\ UNCHANGED <<object, stored, asked>>

Next ==
    \E u \in Uploads :
        \/ \E r \in parseContentRange : get(u, r)
        \/ resumableQuery(u) \/ resumableChunk(u) \/ finalizeResumable(u)
        \/ WriteObject(u) \/ close(u)

Spec == Init /\ [][Next]_vars

-----------------------------------------------------------------------------
\* "an interrupted upload leaves nothing half-written" (resumable.go): however
\* chunks are repeated, reordered, broken off and finalised by several requests
\* at once, at most one object is written and it holds the client's bytes, each
\* once and in order.
UploadExact ==
    /\ stored <= 1
    /\ stored = 1 => object = Bytes(0, Size)

\* "No range at all: the whole object in one request" (resumable.go): such a
\* request is not answered with "send the rest".  It declares no total, and
\* resumableChunk finalises only what has one.
WholeInOneRequest ==
    \A u \in Uploads : upload[u].at = "incomplete" /\ session.offset = Size =>
        upload[u].r.query \/ upload[u].r.end # Undeclared
=============================================================================
