-------------------------- MODULE ResourceUpdates --------------------------
(***************************************************************************)
(* Masked updates of Pub/Sub topics and subscriptions                      *)
(* (services/pubsub/update.go) against their creation and deletion: an     *)
(* update reads the resource and its version in one store call and puts    *)
(* the resource with the masked fields replaced at that version in a       *)
(* second.  What a delivery does with a subscription is PubSub's.          *)
(***************************************************************************)
EXTENDS KV, Sequences, SequencesExt

CONSTANTS Resources,    \* topics and subscriptions
          Fields,       \* Fields[r]: the fields of its message
          Callers,      \* concurrent requests
          Masks,        \* masks that requests carry: sequences of field names
          Sources,      \* Sources[r]: resources that requests carry
          MaxUpdates,   \* bound on update requests
          MaxLives      \* bound on creations

VARIABLES kv,         \* kv[r]: the stored entry
          call,       \* call[c]: an update between its two store calls
          updates,    \* update requests made
          lives,      \* creations
          recreated   \* ghost: a resource was created under an update that read the one before

vars == <<kv, call, updates, lives, recreated>>

Idle == [at |-> "idle"]

Init ==
    /\ kv = [r \in Resources |-> Absent] /\ call = [c \in Callers |-> Idle]
    /\ updates = 0 /\ lives = 0 /\ recreated = FALSE

\* A subscription is the message with a topic.
IsSubscription(r) == "topic" \in Fields[r]

\* "name", and for a subscription "topic", cannot change.
Immutable(r) == IF IsSubscription(r) THEN {"name", "topic"} ELSE {"name"}

\* An empty mask, an immutable field and an unknown one are refused.
MaskRefused(r, mask) ==
    mask = <<>> \/ \E f \in ToSet(mask) : f \in Immutable(r) \/ f \notin Fields[r]

\* The named fields move, and one the request leaves unset is cleared.
applyMask(dst, src, mask) == [f \in DOMAIN dst |-> IF f \in ToSet(mask) THEN src[f] ELSE dst[f]]

-----------------------------------------------------------------------------
\* CreateTopic and CreateSubscription put at version 0.
Create(r, val) ==
    /\ lives < MaxLives /\ PutMatches(kv, r, 0)
    /\ kv' = Put(kv, r, val) /\ lives' = lives + 1
    /\ recreated' = (recreated \/ \E c \in Callers : call[c].at = "put" /\ call[c].r = r)
    /\ UNCHANGED <<call, updates>>

\* DeleteTopic and DeleteSubscription, whatever the version.
DeleteResource(r) ==
    /\ DeleteMatches(kv, r, 0) /\ kv' = Delete(kv, r)
    /\ UNCHANGED <<call, updates, lives, recreated>>

\* An update reads the resource and its version, and masks what it read ...
Update(c, r, mask, src) ==
    /\ call[c] = Idle /\ updates < MaxUpdates /\ Holds(kv, r) /\ ~MaskRefused(r, mask)
    /\ updates' = updates + 1
    /\ call' = [call EXCEPT ![c] =
                  [at |-> "put", r |-> r, mask |-> mask, src |-> src, version |-> kv[r].version,
                   val |-> applyMask(kv[r].val, src, mask)]]
    /\ UNCHANGED <<kv, lives, recreated>>

UpdateTopic(c, r, mask, src) == ~IsSubscription(r) /\ Update(c, r, mask, src)
UpdateSubscription(c, r, mask, src) == IsSubscription(r) /\ Update(c, r, mask, src)

\* Mutant: the version read is not required.
PutUpdateBlind(c) ==
    /\ call[c].at = "put"
    /\ kv' = IF Holds(kv, call[c].r) THEN Put(kv, call[c].r, call[c].val) ELSE kv
    /\ call' = [call EXCEPT ![c] = Idle]
    /\ UNCHANGED <<updates, lives, recreated>>

\* ... and puts it at that version, or is aborted.
PutUpdate(c) ==
    /\ call[c].at = "put"
    /\ kv' = IF PutMatches(kv, call[c].r, call[c].version) THEN Put(kv, call[c].r, call[c].val) ELSE kv
    /\ call' = [call EXCEPT ![c] = Idle]
    /\ UNCHANGED <<updates, lives, recreated>>

Next ==
    \/ \E r \in Resources : DeleteResource(r) \/ \E val \in Sources[r] : Create(r, val)
    \/ \E c \in Callers :
          \/ \E r \in Resources, mask \in Masks : \E src \in Sources[r] :
                UpdateTopic(c, r, mask, src) \/ UpdateSubscription(c, r, mask, src)
          \/ PutUpdate(c)

Spec == Init /\ [][Next]_vars

-----------------------------------------------------------------------------
\* Stored resources have every field.
TypeOK ==
    /\ \A r \in Resources : Holds(kv, r) => DOMAIN kv[r].val = Fields[r]
    /\ updates \in 0..MaxUpdates /\ lives \in 0..MaxLives

\* The resource as an update has to leave it: the fields it named as it
\* gave them, every other one as it was when the update took effect.
Merged(was, is, u) ==
    \A f \in DOMAIN was : is[f] = IF f \in ToSet(u.mask) THEN u.src[f] ELSE was[f]

MergesHere ==
    \A r \in Resources :
        Holds(kv, r) /\ Holds(kv, r)' /\ kv'[r] # kv[r] =>
            /\ \A f \in Immutable(r) : kv'[r].val[f] = kv[r].val[f]
            /\ \E c \in Callers :
                  call[c].at = "put" /\ call[c].r = r /\ Merged(kv[r].val, kv'[r].val, call[c])

\* "At the version just read, so a concurrent update cannot be lost", and "only
\* the named fields move": whatever other updates took effect since it read the
\* resource, an update that takes effect changes the fields it named and no other.
UpdatesMerge == [][MergesHere]_vars

\* The same until a resource is created again under an update of the one before
\* it: it starts at the same store version, and the update is written over it.
MaskedMerge == [][recreated \/ MergesHere]_vars
=============================================================================
