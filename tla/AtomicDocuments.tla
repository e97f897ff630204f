--------------------------- MODULE AtomicDocuments ---------------------------
(***************************************************************************)
(* What Firestore's Commit promises (services/firestore/transaction.go:    *)
(* "a commit applies as a unit and one commit at a time"): documents       *)
(* change by whole batches.  A batch is applied when every one of its      *)
(* preconditions holds, and each of its writes then acts on the document   *)
(* as it is.                                                               *)
(***************************************************************************)
EXTENDS Integers, Sequences

CONSTANTS Docs,     \* document names
          Batches,  \* the batches clients commit: sequences of writes
          Lists,    \* the lists of writes clients send to BatchWrite
          NoDoc     \* an absent document

VARIABLE docs       \* docs[d]: a document's content, or NoDoc

\* The guards "exists" and "absent" of a write's precondition.
Allowed(w, current) ==
    CASE w.pre = "exists" -> current # NoDoc
      [] w.pre = "absent" -> current = NoDoc
      [] OTHER -> TRUE

\* What a write makes of a document: a set replaces it, an increment adds to
\* what is stored and starts from zero, a delete removes it.
Result(w, current) ==
    CASE w.op = "set" -> w.val
      [] w.op = "increment" -> IF current = NoDoc THEN w.val ELSE current + w.val
      [] w.op = "delete" -> NoDoc

Init == docs = [d \in Docs |-> NoDoc]

\* The effect of a batch whose writes are on different documents.
Applied(batch, ds) ==
    [d \in Docs |-> IF \E i \in DOMAIN batch : batch[i].doc = d
                    THEN Result(batch[CHOOSE i \in DOMAIN batch : batch[i].doc = d], ds[d])
                    ELSE ds[d]]

CommitAll(batch) ==
    /\ \A i \in DOMAIN batch : Allowed(batch[i], docs[batch[i].doc])
    /\ docs' = Applied(batch, docs)

\* BatchWrite promises each write by itself.
WriteOne(w) ==
    /\ Allowed(w, docs[w.doc])
    /\ docs' = [docs EXCEPT ![w.doc] = Result(w, docs[w.doc])]

Next ==
    \/ \E batch \in Batches : CommitAll(batch)
    \/ \E list \in Lists : \E i \in DOMAIN list : WriteOne(list[i])

Spec == Init /\ [][Next]_docs
=============================================================================
