---------------------------- MODULE BucketsProofs ----------------------------
(***************************************************************************)
(* For any number of projects and of requests: until the store is reset    *)
(* under them, a bucket's project holds the claim on the bucket's name.    *)
(***************************************************************************)
EXTENDS Buckets, TLAPS

Shape ==
    /\ claim \in Projects \cup {None} /\ meta \in [Projects -> Nat]
    /\ request = [c \in Clients |-> request[c]]
    /\ \A c \in Clients :
          /\ ~At(c, "idle") => request[c].p \in Projects
          /\ At(c, "patched") => request[c].read \in Nat \ {0}

\* A request that has claimed the name and not yet stored the metadata, or has
\* removed the metadata and not yet released the name, is the only one; it
\* holds the claim and there is no bucket.
Holds(c) == At(c, "store") \/ At(c, "release")

ClaimHeld ==
    /\ \A c \in Clients : Holds(c) => claim = request[c].p /\ meta[request[c].p] = 0
    /\ \A c, d \in Clients : Holds(c) /\ Holds(d) => c = d
    /\ \A c \in Clients : ~At(c, "claims")

Inv == Shape /\ (reset \/ (Claimed /\ ClaimHeld))

\* No project is mistaken for the absence of one, and the bound is one.
Sound == None \notin Projects /\ MaxPatches \in Nat

-----------------------------------------------------------------------------
LEMMA InitInv == Init => Inv
BY DEF Init, Inv, Shape, Claimed, ClaimHeld, Holds, At, Idle

LEMMA OneMoves ==
    ASSUME Shape, NEW c \in Clients, NEW r, request' = [request EXCEPT ![c] = r]
    PROVE  /\ request' = [d \in Clients |-> request'[d]] /\ request'[c] = r
           /\ \A d \in Clients \ {c} : request'[d] = request[d]
BY DEF Shape

\* A step that leaves the two keys alone, and its request outside the steps that
\* hold the claim.
LEMMA LooksOnly ==
    ASSUME Inv, NEW c \in Clients, NEW r, request' = [request EXCEPT ![c] = r],
           ~Holds(c), UNCHANGED <<claim, meta, reset>>,
           r.at \notin {"store", "release", "claims"},
           r.at # "idle" => r.p \in Projects, r.at = "patched" => r.read \in Nat \ {0}
    PROVE  Inv'
<1>1. /\ request' = [d \in Clients |-> request'[d]] /\ request'[c] = r
      /\ \A d \in Clients \ {c} : request'[d] = request[d]
    BY OneMoves DEF Inv
<1>2. Shape' BY <1>1 DEF Inv, Shape, At
<1>3. Claimed => Claimed' BY DEF Claimed
<1>4. ClaimHeld => ClaimHeld' BY <1>1 DEF ClaimHeld, Holds, At
<1> QED BY <1>2, <1>3, <1>4 DEF Inv

LEMMA CreateInv ==
    ASSUME Sound, Inv, NEW c \in Clients, NEW p \in Projects, CreateBucket(c, p) PROVE Inv'
<1>1. /\ At(c, "idle") /\ claim = None /\ claim' = p /\ UNCHANGED <<meta, reset>>
      /\ request' = [request EXCEPT ![c] = [at |-> "store", p |-> p]]
    BY DEF CreateBucket, Accepts, Goes
<1>2. /\ request' = [d \in Clients |-> request'[d]] /\ request'[c] = [at |-> "store", p |-> p]
      /\ \A d \in Clients \ {c} : request'[d] = request[d]
    BY <1>1, OneMoves DEF Inv
<1>3. Shape' BY <1>1, <1>2 DEF Inv, Shape, At
<1>4. ASSUME Claimed, ClaimHeld PROVE Claimed' /\ ClaimHeld'
  <2>1. \A q \in Projects : meta[q] = 0 BY <1>1, <1>4 DEF Claimed, Sound
  <2>2. \A d \in Clients : ~Holds(d)
      BY <1>1, <1>4 DEF Inv, Shape, ClaimHeld, Holds, At, Sound
  <2> QED BY <1>1, <1>2, <1>4, <2>1, <2>2 DEF Claimed, ClaimHeld, Holds, At
<1> QED BY <1>1, <1>3, <1>4 DEF Inv

\* Only the holder of the claim stores the metadata, and finds none.
LEMMA StoreInv == ASSUME Sound, Inv, NEW c \in Clients, StoreMetadata(c) PROVE Inv'
<1> DEFINE p == request[c].p
<1>1. At(c, "store") /\ p \in Projects /\ UNCHANGED <<claim, reset>>
    BY DEF StoreMetadata, Inv, Shape, At
<1>2. CASE meta[p] = 0
  <2>1. meta' = [meta EXCEPT ![p] = 1] /\ request' = [request EXCEPT ![c] = Idle]
      BY <1>2 DEF StoreMetadata, Returns
  <2>2. /\ request' = [d \in Clients |-> request'[d]] /\ request'[c] = Idle
        /\ \A d \in Clients \ {c} : request'[d] = request[d]
      BY <2>1, OneMoves DEF Inv
  <2>3. Shape' BY <1>1, <2>1, <2>2 DEF Inv, Shape, At, Idle
  <2>4. ASSUME Claimed, ClaimHeld PROVE Claimed' /\ ClaimHeld'
    <3>1. claim = p /\ \A d \in Clients \ {c} : ~Holds(d) BY <1>1, <2>4 DEF ClaimHeld, Holds
    <3>2. Claimed' BY <1>1, <2>1, <2>4, <3>1 DEF Claimed, Inv, Shape
    <3>3. ClaimHeld' BY <2>2, <2>4, <3>1 DEF ClaimHeld, Holds, At, Idle
    <3> QED BY <3>2, <3>3
  <2> QED BY <1>1, <2>3, <2>4 DEF Inv
<1>3. CASE meta[p] # 0
  <2>1. meta' = meta /\ request' = [request EXCEPT ![c] = [at |-> "release", p |-> p]]
      BY <1>3 DEF StoreMetadata, Goes
  <2>2. /\ request' = [d \in Clients |-> request'[d]] /\ request'[c] = [at |-> "release", p |-> p]
        /\ \A d \in Clients \ {c} : request'[d] = request[d]
      BY <2>1, OneMoves DEF Inv
  <2>3. Shape' BY <1>1, <2>1, <2>2 DEF Inv, Shape, At
  <2>4. ~ClaimHeld BY <1>1, <1>3 DEF ClaimHeld, Holds
  <2> QED BY <1>1, <2>3, <2>4 DEF Inv
<1> QED BY <1>2, <1>3

LEMMA ReleaseInv == ASSUME Sound, Inv, NEW c \in Clients, ReleaseClaim(c) PROVE Inv'
<1>1. /\ At(c, "release") /\ claim' = None /\ UNCHANGED <<meta, reset>>
      /\ request' = [request EXCEPT ![c] = Idle]
    BY DEF ReleaseClaim, Returns
<1>2. /\ request' = [d \in Clients |-> request'[d]] /\ request'[c] = Idle
      /\ \A d \in Clients \ {c} : request'[d] = request[d]
    BY <1>1, OneMoves DEF Inv
<1>3. Shape' BY <1>1, <1>2 DEF Inv, Shape, At, Idle
<1>4. ASSUME Claimed, ClaimHeld PROVE Claimed' /\ ClaimHeld'
  <2>1. \A q \in Projects : meta[q] = 0
      BY <1>1, <1>4 DEF Inv, Shape, Claimed, ClaimHeld, Holds, At
  <2>2. \A d \in Clients \ {c} : ~Holds(d) BY <1>1, <1>4 DEF ClaimHeld, Holds
  <2> QED BY <1>1, <1>2, <1>4, <2>1, <2>2 DEF Claimed, ClaimHeld, Holds, At, Idle
<1> QED BY <1>1, <1>3, <1>4 DEF Inv

\* The deletion that finds the metadata takes over the claim; any other finds
\* none and returns.
LEMMA DeleteInv == ASSUME Sound, Inv, NEW c \in Clients, DeleteMetadata(c) PROVE Inv'
<1> DEFINE p == request[c].p
<1>1. At(c, "unstore") /\ p \in Projects /\ UNCHANGED <<claim, reset>> /\ meta' = [meta EXCEPT ![p] = 0]
    BY DEF DeleteMetadata, Inv, Shape, At
<1>2. CASE meta[p] # 0
  <2>1. request' = [request EXCEPT ![c] = [at |-> "release", p |-> p]]
      BY <1>2 DEF DeleteMetadata, Goes
  <2>2. /\ request' = [d \in Clients |-> request'[d]] /\ request'[c] = [at |-> "release", p |-> p]
        /\ \A d \in Clients \ {c} : request'[d] = request[d]
      BY <2>1, OneMoves DEF Inv
  <2>3. Shape' BY <1>1, <2>2 DEF Inv, Shape, At
  <2>4. ASSUME Claimed, ClaimHeld PROVE Claimed' /\ ClaimHeld'
    <3>1. claim = p BY <1>1, <1>2, <2>4 DEF Claimed
    <3>2. \A d \in Clients : ~Holds(d) BY <1>2, <2>4, <3>1 DEF ClaimHeld
    <3>3. meta' [p] = 0 /\ \A q \in Projects \ {p} : meta'[q] = meta[q] BY <1>1 DEF Inv, Shape
    <3>4. Claimed' BY <1>1, <2>4, <3>1, <3>3 DEF Claimed
    <3>5. ClaimHeld' BY <1>1, <2>2, <2>4, <3>1, <3>2, <3>3 DEF ClaimHeld, Holds, At
    <3> QED BY <3>4, <3>5
  <2> QED BY <1>1, <2>3, <2>4 DEF Inv
<1>3. CASE meta[p] = 0
  <2>1. meta' = meta BY <1>1, <1>3 DEF Inv, Shape
  <2>2. request' = [request EXCEPT ![c] = Idle] BY <1>3 DEF DeleteMetadata, Returns
  <2> QED BY <1>1, <2>1, <2>2, LooksOnly DEF Idle, Holds, At
<1> QED BY <1>2, <1>3

\* A patch that finds the version it read finds a bucket.
LEMMA PatchInv == ASSUME Sound, Inv, NEW c \in Clients, UpdatePut(c) PROVE Inv'
<1> DEFINE p == request[c].p
<1>1. /\ At(c, "patched") /\ p \in Projects /\ request[c].read \in Nat \ {0}
      /\ UNCHANGED <<claim, reset>> /\ request' = [request EXCEPT ![c] = Idle]
    BY DEF UpdatePut, Returns, Inv, Shape, At
<1>2. CASE meta[p] = request[c].read
  <2>1. meta' = [meta EXCEPT ![p] = @ + 1] BY <1>2 DEF UpdatePut
  <2>2. /\ request' = [d \in Clients |-> request'[d]] /\ request'[c] = Idle
        /\ \A d \in Clients \ {c} : request'[d] = request[d]
      BY <1>1, OneMoves DEF Inv
  <2>3. Shape' BY <1>1, <2>1, <2>2 DEF Inv, Shape, At, Idle
  <2>4. ASSUME Claimed, ClaimHeld PROVE Claimed' /\ ClaimHeld'
    <3>1. meta[p] # 0 /\ claim = p BY <1>1, <1>2, <2>4 DEF Claimed
    <3>2. \A d \in Clients : ~Holds(d) BY <2>4, <3>1 DEF ClaimHeld
    <3>3. \A q \in Projects \ {p} : meta'[q] = meta[q] BY <2>1 DEF Inv, Shape
    <3>4. Claimed' BY <1>1, <2>4, <3>1, <3>3 DEF Claimed
    <3>5. ClaimHeld' BY <2>2, <2>4, <3>2 DEF ClaimHeld, Holds, At, Idle
    <3> QED BY <3>4, <3>5
  <2> QED BY <1>1, <2>3, <2>4 DEF Inv
<1>3. CASE meta[p] # request[c].read
  <2>1. meta' = meta BY <1>3 DEF UpdatePut
  <2> QED BY <1>1, <2>1, LooksOnly DEF Idle, Holds, At
<1> QED BY <1>2, <1>3

\* Every other step of a request reads the two keys, or neither.
LEMMA LookInv ==
    ASSUME Sound, Inv, NEW c \in Clients,
           \/ \E verb \in ProjectVerbs : ProjectOf(c, verb)
           \/ DeleteRead(c) \/ DeleteScan(c) \/ UpdateBucket(c)
           \/ WriteObject(c) \/ PutLive(c)
           \/ \E content \in Policies : SetIAMPolicy(c, content)
           \/ ReadPolicy(c) \/ PutPolicy(c)
    PROVE  Inv'
<1> DEFINE p == request[c].p
<1> USE DEF At
<1>0. ~At(c, "idle") => p \in Projects BY DEF Inv, Shape
<1>1. CASE \E verb \in ProjectVerbs : ProjectOf(c, verb)
  <2>1. PICK verb \in ProjectVerbs : ProjectOf(c, verb) BY <1>1
  <2>2. claim \in Projects BY <2>1 DEF ProjectOf, Inv, Shape
  <2> QED BY <2>1, <2>2, LooksOnly DEF ProjectOf, Accepts, Goes, Holds, ProjectVerbs
<1>2. CASE DeleteRead(c) BY <1>0, <1>2, LooksOnly DEF DeleteRead, Goes, Returns, Idle, Holds
<1>3. CASE DeleteScan(c) BY <1>0, <1>3, LooksOnly DEF DeleteScan, Goes, Returns, Idle, Holds
<1>4. CASE UpdateBucket(c)
  <2>1. CASE request' = [request EXCEPT ![c] = Idle]
      BY <1>4, <2>1, LooksOnly DEF UpdateBucket, Idle, Holds
  <2>2. CASE /\ meta[p] \in 1..(MaxPatches - 1)
             /\ request' = [request EXCEPT ![c] = [at |-> "patched", p |-> p, read |-> meta[p]]]
    <3>1. meta[p] \in Nat \ {0} BY <2>2 DEF Sound
    <3> QED BY <1>0, <1>4, <2>2, <3>1, LooksOnly DEF UpdateBucket, Holds
  <2> QED BY <1>4, <2>1, <2>2 DEF UpdateBucket, Returns
<1>5. CASE WriteObject(c) BY <1>0, <1>5, LooksOnly DEF WriteObject, Goes, Returns, Idle, Holds
<1>6. CASE PutLive(c) BY <1>6, LooksOnly DEF PutLive, Returns, Idle, Holds
<1>7. CASE \E content \in Policies : SetIAMPolicy(c, content)
  <2>1. PICK content \in Policies : SetIAMPolicy(c, content) BY <1>7
  <2> QED BY <1>0, <2>1, LooksOnly DEF SetIAMPolicy, Returns, Idle, Holds
<1>8. CASE ReadPolicy(c) BY <1>0, <1>8, LooksOnly DEF ReadPolicy, Holds
<1>9. CASE PutPolicy(c) BY <1>9, LooksOnly DEF PutPolicy, Returns, Idle, Holds
<1> QED BY <1>1, <1>2, <1>3, <1>4, <1>5, <1>6, <1>7, <1>8, <1>9

\* From a reset on only the shapes are kept.
LEMMA ResetInv ==
    ASSUME Sound, Inv,
           \/ \E c \in Clients : \E p \in Projects : ResetProject(c, p)
           \/ \E c \in Clients : dropBucketClaims(c)
           \/ ResetAll
    PROVE  Inv'
<1>1. ASSUME NEW c \in Clients, NEW p \in Projects, ResetProject(c, p) PROVE Inv'
  <2>1. /\ request' = [request EXCEPT ![c] = [at |-> "claims", p |-> p]] /\ reset'
        /\ claim' = claim /\ meta' = [meta EXCEPT ![p] = 0]
      BY <1>1 DEF ResetProject, Goes
  <2>2. /\ request' = [d \in Clients |-> request'[d]] /\ request'[c] = [at |-> "claims", p |-> p]
        /\ \A d \in Clients \ {c} : request'[d] = request[d]
      BY <2>1, OneMoves DEF Inv
  <2> QED BY <2>1, <2>2 DEF Inv, Shape, At
<1>2. ASSUME NEW c \in Clients, dropBucketClaims(c) PROVE Inv'
  <2> DEFINE p == request[c].p
  <2>1. At(c, "claims") /\ p \in Projects /\ UNCHANGED <<claim, meta, reset>>
      BY <1>2 DEF dropBucketClaims, Inv, Shape, At
  <2>2. reset BY <2>1 DEF Inv, ClaimHeld
  <2>3. PICK r \in {Idle, [at |-> "release", p |-> p]} : request' = [request EXCEPT ![c] = r]
      BY <1>2 DEF dropBucketClaims, Goes, Returns
  <2>4. /\ request' = [d \in Clients |-> request'[d]] /\ request'[c] = r
        /\ \A d \in Clients \ {c} : request'[d] = request[d]
      BY <2>3, OneMoves DEF Inv
  <2>5. Shape' BY <2>1, <2>3, <2>4 DEF Inv, Shape, At, Idle
  <2> QED BY <2>1, <2>2, <2>5 DEF Inv
<1>3. CASE ResetAll BY <1>3 DEF ResetAll, Inv, Shape, At
<1> QED BY <1>1, <1>2, <1>3

LEMMA NextInv == ASSUME Sound, Inv, [Next]_vars PROVE Inv'
<1>1. CASE UNCHANGED <<claim, meta, request, reset>>
    BY <1>1 DEF Inv, Shape, Claimed, ClaimHeld, Holds, At
<1>2. CASE UNCHANGED vars \/ \E p \in Projects : DeleteLast(p) BY <1>1, <1>2 DEF vars, DeleteLast
<1> QED BY <1>2, CreateInv, StoreInv, ReleaseInv, DeleteInv, PatchInv, LookInv, ResetInv DEF Next

\* A bucket's project holds the claim on the bucket's name, so no two projects
\* have a bucket of that name (bucket.go CreateBucket and DeleteBucket).
THEOREM NameIsClaimed == ASSUME Sound PROVE Spec => []ClaimStands
<1>1. Inv => ClaimStands BY DEF Inv, ClaimStands
<1>2. Init => Inv BY InitInv
<1>3. Inv /\ [Next]_vars => Inv' BY NextInv
<1> QED BY <1>1, <1>2, <1>3, PTL DEF Spec
=============================================================================
