----------------------------- MODULE MCObjects -----------------------------
(* Requests for small instances of Objects: one or two names, a few contents. *)
EXTENDS Objects, TLC

CONSTANTS x, y,           \* names
          w1, w2, w3      \* processes

\* Contents are interchangeable: requests offer each of them alike.
ContentSymmetry == Permutations(Contents)

Always == <<>>
IfGeneration(g) == [c \in {GenMatch} |-> g]
IfMeta(g) == [c \in {MetaMatch} |-> g]
IfNot(g) == [c \in {GenNotMatch} |-> g]
IfNotMeta(g) == [c \in {MetaNotMatch} |-> g]

ARequest(op, n, to, h, pre) == [op |-> op, name |-> n, content |-> h, pre |-> pre, to |-> to]
Uploads(n, pres) == {ARequest("write", n, None, h, pre) : h \in Contents, pre \in pres}
Updates(n, pres) == {ARequest("update", n, None, None, pre) : pre \in pres}
Deletes(n, pres) == {ARequest("delete", n, None, None, pre) : pre \in pres}
Reads(n, pres) == {ARequest("read", n, None, None, pre) : pre \in pres}
Copies(n, to) == {ARequest("copy", n, to, None, Always)}

\* Writers of one name with and without conditions, and an updater.
WriteRequests(p, v) ==
    CASE p = w1 -> Uploads(x, {Always, IfGeneration(0)})
      [] p = w2 -> Uploads(x, {Always, IfGeneration(1), IfMeta(1)}) \cup Updates(x, {Always})
      [] OTHER -> Updates(x, {Always, IfMeta(2), IfNotMeta(1)})

\* In a versioned bucket everybody writes, copies and deletes; in another
\* there are a conditional writer and a process that deletes and reads.
DeleteRequests(p, v) ==
    CASE v -> Uploads(x, {IfGeneration(0), IfGeneration(1)}) \cup Deletes(x, {Always})
                  \cup Copies(x, y)
      [] ~v /\ p = w1 -> Uploads(x, {IfGeneration(0), IfGeneration(1), IfMeta(1)})
      [] OTHER -> Deletes(x, {Always, IfGeneration(1)}) \cup Reads(x, {Always, IfNot(2)})

\* Unconditional writers of one name.
RacingRequests(p, v) == Uploads(x, {Always})

\* A client that writes, deletes and writes again.
ReplaceRequests(p, v) == Uploads(x, {Always}) \cup Deletes(x, {Always})

\* A conditional writer, while another client replaces the object.
StaleMatchRequests(p, v) ==
    IF p = w1 THEN Uploads(x, {IfGeneration(1)}) ELSE ReplaceRequests(p, v)

\* A writer and two clients that delete.
DanglingRequests(p, v) == IF p = w1 THEN Uploads(x, {Always}) ELSE Deletes(x, {Always})
=============================================================================
