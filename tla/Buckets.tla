------------------------------- MODULE Buckets -------------------------------
(***************************************************************************)
(* Buckets and their IAM policies (services/storage/bucket.go, iam.go and  *)
(* Service.Reset), for one bucket name that several projects want.  A      *)
(* bucket is two keys: the global claim bx/name, which names a project,    *)
(* and the metadata p/project/b/name.  No lock covers the two; every store *)
(* call of a request is a step.                                            *)
(*                                                                         *)
(* The store version of the metadata and its metageneration both start at  *)
(* 1 and grow by 1 with every patch, so one number stands for the two.     *)
(***************************************************************************)
EXTENDS Integers

CONSTANTS Projects,     \* projects that use the name
          Clients,      \* concurrent requests
          BucketVerbs,  \* the requests clients make
          Policies,     \* IAM policies: the number of members of each binding
          MaxPatches,   \* bound on the metageneration
          MaxPolicies,  \* bound on the writes of a policy
          None          \* no project, no policy

VARIABLES claim,   \* the project that holds the name, or None
          meta,    \* meta[p]: metageneration of p's bucket, 0 when it has none
          live,    \* live[p]: an object is live in p's bucket
          policy,  \* policy[p]: store version and content of the bucket's policy
          request, \* request[c]: what a request has still to do
          reset    \* ghost: the store has been reset under the requests

vars == <<claim, meta, live, policy, request, reset>>

Idle == [at |-> "idle"]
NoPolicy == [version |-> 0, content |-> None]

Init ==
    /\ claim = None
    /\ meta = [p \in Projects |-> 0]
    /\ live = [p \in Projects |-> FALSE]
    /\ policy = [p \in Projects |-> NoPolicy]
    /\ request = [c \in Clients |-> Idle]
    /\ reset = FALSE

Goes(c, at, p) == request' = [request EXCEPT ![c] = [at |-> at, p |-> p]]
Returns(c) == request' = [request EXCEPT ![c] = Idle]
At(c, at) == request[c].at = at
Accepts(c, verb) == At(c, "idle") /\ verb \in BucketVerbs

-----------------------------------------------------------------------------
\* CreateBucket claims the name, at version 0 ...
CreateBucket(c, p) ==
    /\ Accepts(c, "create")
    /\ claim = None
    /\ claim' = p
    /\ Goes(c, "store", p)
    /\ UNCHANGED <<meta, live, policy, reset>>

\* ... and stores the metadata, at version 0, or goes on to give the claim up.
StoreMetadata(c) ==
    LET p == request[c].p IN
    /\ At(c, "store")
    /\ IF meta[p] = 0
       THEN meta' = [meta EXCEPT ![p] = 1] /\ Returns(c)
       ELSE meta' = meta /\ Goes(c, "release", p)
    /\ UNCHANGED <<claim, live, policy, reset>>

\* Delete of the claim, the last step of a deletion and of a failed creation.
ReleaseClaim(c) ==
    /\ At(c, "release")
    /\ claim' = None
    /\ Returns(c)
    /\ UNCHANGED <<meta, live, policy, reset>>

-----------------------------------------------------------------------------
\* ProjectOf: a request that names only the bucket asks the claim for its project.
ProjectOf(c, verb) ==
    /\ Accepts(c, verb)
    /\ claim # None
    /\ Goes(c, verb, claim)
    /\ UNCHANGED <<claim, meta, live, policy, reset>>

\* DeleteBucket reads the metadata ...
DeleteRead(c) ==
    LET p == request[c].p IN
    /\ At(c, "delete")
    /\ IF meta[p] # 0 THEN Goes(c, "scan", p) ELSE Returns(c)
    /\ UNCHANGED <<claim, meta, live, policy, reset>>

\* ... looks for one live object ...
DeleteScan(c) ==
    LET p == request[c].p IN
    /\ At(c, "scan")
    /\ IF live[p] THEN Returns(c) ELSE Goes(c, "unstore", p)
    /\ UNCHANGED <<claim, meta, live, policy, reset>>

\* Mutant: a bucket that is gone is not an error, so its name is released too.
DeleteMetadataAnyway(c) ==
    LET p == request[c].p IN
    /\ At(c, "unstore")
    /\ meta' = [meta EXCEPT ![p] = 0]
    /\ Goes(c, "release", p)
    /\ UNCHANGED <<claim, live, policy, reset>>

\* ... deletes the metadata, whatever its version, and then the claim.
DeleteMetadata(c) ==
    LET p == request[c].p IN
    /\ At(c, "unstore")
    /\ meta' = [meta EXCEPT ![p] = 0]
    /\ IF meta[p] # 0 THEN Goes(c, "release", p) ELSE Returns(c)
    /\ UNCHANGED <<claim, live, policy, reset>>

-----------------------------------------------------------------------------
\* UpdateBucket reads the metadata and checks the metageneration it was told to
\* expect, if it was told one ...
UpdateBucket(c) ==
    LET p == request[c].p IN
    /\ At(c, "patch")
    /\ \/ meta[p] \in 1..(MaxPatches - 1)
          /\ request' = [request EXCEPT ![c] = [at |-> "patched", p |-> p, read |-> meta[p]]]
       \/ Returns(c)
    /\ UNCHANGED <<claim, meta, live, policy, reset>>

\* ... and writes at the version it read.
UpdatePut(c) ==
    LET p == request[c].p IN
    /\ At(c, "patched")
    /\ meta' = IF meta[p] = request[c].read THEN [meta EXCEPT ![p] = @ + 1] ELSE meta
    /\ Returns(c)
    /\ UNCHANGED <<claim, live, policy, reset>>

\* A write of an object (module Objects) checks the bucket ...
WriteObject(c) ==
    LET p == request[c].p IN
    /\ At(c, "write")
    /\ IF meta[p] # 0 THEN Goes(c, "point", p) ELSE Returns(c)
    /\ UNCHANGED <<claim, meta, live, policy, reset>>

\* ... and moves the live pointer.
PutLive(c) ==
    /\ At(c, "point")
    /\ live' = [live EXCEPT ![request[c].p] = TRUE]
    /\ Returns(c)
    /\ UNCHANGED <<claim, meta, policy, reset>>

\* The last live object of the bucket is deleted.
DeleteLast(p) ==
    /\ "write" \in BucketVerbs /\ live[p]
    /\ live' = [live EXCEPT ![p] = FALSE]
    /\ UNCHANGED <<claim, meta, policy, request, reset>>

-----------------------------------------------------------------------------
\* SetIAMPolicy checks the bucket ...
SetIAMPolicy(c, content) ==
    LET p == request[c].p IN
    /\ At(c, "policy")
    /\ IF meta[p] # 0
       THEN request' = [request EXCEPT ![c] = [at |-> "read policy", p |-> p, content |-> content]]
       ELSE Returns(c)
    /\ UNCHANGED <<claim, meta, live, policy, reset>>

\* ... reads the version of the stored policy, 0 when there is none ...
ReadPolicy(c) ==
    /\ At(c, "read policy")
    /\ policy[request[c].p].version < MaxPolicies
    /\ request' = [request EXCEPT ![c] =
                     [at |-> "put policy", p |-> @.p, content |-> @.content, read |-> policy[@.p].version]]
    /\ UNCHANGED <<claim, meta, live, policy, reset>>

\* ... and writes at it.
PutPolicy(c) ==
    LET p == request[c].p  r == request[c] IN
    /\ At(c, "put policy")
    /\ policy' = IF policy[p].version = r.read
                 THEN [policy EXCEPT ![p] = [version |-> r.read + 1, content |-> r.content]]
                 ELSE policy
    /\ Returns(c)
    /\ UNCHANGED <<claim, meta, live, reset>>

-----------------------------------------------------------------------------
\* Reset of one project: its tree goes in one store call ...
ResetProject(c, p) ==
    /\ Accepts(c, "reset")
    /\ meta' = [meta EXCEPT ![p] = 0] /\ live' = [live EXCEPT ![p] = FALSE]
    /\ policy' = [policy EXCEPT ![p] = NoPolicy]
    /\ Goes(c, "claims", p)
    /\ reset' = TRUE /\ UNCHANGED claim

\* ... then dropBucketClaims lists the claims and deletes the project's.
dropBucketClaims(c) ==
    LET p == request[c].p IN
    /\ At(c, "claims")
    /\ IF claim = p THEN Goes(c, "release", p) ELSE Returns(c)
    /\ UNCHANGED <<claim, meta, live, policy, reset>>

\* Reset of everything is one store call.
ResetAll ==
    /\ "reset all" \in BucketVerbs
    /\ claim' = None
    /\ meta' = [p \in Projects |-> 0] /\ live' = [p \in Projects |-> FALSE]
    /\ policy' = [p \in Projects |-> NoPolicy]
    /\ reset' = TRUE /\ UNCHANGED request

ProjectVerbs == {"delete", "patch", "write", "policy"}

Next ==
    \/ \E c \in Clients :
          \/ \E p \in Projects : CreateBucket(c, p) \/ ResetProject(c, p)
          \/ StoreMetadata(c) \/ ReleaseClaim(c)
          \/ \E verb \in ProjectVerbs : ProjectOf(c, verb)
          \/ DeleteRead(c) \/ DeleteScan(c) \/ DeleteMetadata(c)
          \/ UpdateBucket(c) \/ UpdatePut(c)
          \/ WriteObject(c) \/ PutLive(c)
          \/ \E content \in Policies : SetIAMPolicy(c, content)
          \/ ReadPolicy(c) \/ PutPolicy(c)
          \/ dropBucketClaims(c)
    \/ \E p \in Projects : DeleteLast(p)
    \/ ResetAll

Spec == Init /\ [][Next]_vars

-----------------------------------------------------------------------------
\* The shapes of the two keys and of the policies.
TypeOK ==
    /\ claim \in Projects \cup {None}
    /\ meta \in [Projects -> 0..MaxPatches] /\ live \in [Projects -> BOOLEAN]
    /\ \A p \in Projects : policy[p].version \in 0..MaxPolicies

\* "while the metadata exists the claim must stand, or a concurrent create could
\* take a name still in use": a bucket's project holds the claim on its name, so
\* no two projects have a bucket of that name, however creations, deletions and
\* patches interleave, several deletions of one bucket included.
Claimed == \A p \in Projects : meta[p] # 0 => claim = p

\* The same until the store is reset under requests that are under way.
ClaimStands == reset \/ Claimed

\* "DeleteBucket removes an empty bucket" (bucket.go): a bucket with a live
\* object keeps its metadata.  An object written between the look and the delete
\* is in a bucket that goes all the same.
OnlyEmptyDeleted ==
    [][\A p \in Projects : meta[p] # 0 /\ meta'[p] = 0 => ~live[p]]_vars
=============================================================================
