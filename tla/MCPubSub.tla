------------------------------ MODULE MCPubSub ------------------------------
(* Small instances of PubSub: requests are interchangeable, and so are streams. *)
EXTENDS PubSub, TLC

RequestSymmetry == Permutations(Procs) \cup Permutations(Streams)

\* Clients do one thing at a time besides publishing, pulling and settling.
AllMixes == {{}, {"stream"}, {"delete"}, {"snapshot"}}

\* Bounds: beside streams one request is in flight at a time, and with snapshots
\* there is one message and less time.
Small ==
    /\ "stream" \in mix => Cardinality({p \in Procs : req'[p].at # "idle"}) <= 1
    /\ "snapshot" \in mix => seq' <= 1 /\ now' <= 2

MCSpec == Init /\ [][Next /\ Small]_vars
=============================================================================
