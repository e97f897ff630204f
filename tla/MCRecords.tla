------------------------------ MODULE MCRecords ------------------------------
(***************************************************************************)
(* Instances of the services that keep records in the store and in the     *)
(* blob tree.  They share no key, so a behaviour is a behaviour of one of  *)
(* them, chosen at the start as its scene; Firestore's writes, of which    *)
(* there is a proof, keep their own names.                                 *)
(***************************************************************************)
EXTENDS Firestore, TLC

CONSTANTS None, Nobody, Callers, Clients, Projects, Secrets,
          Uploads, x, y, z, n1, n2, a1, a2, UsageProjects

VARIABLES scene,
          secret, versions, mu, call, lives, home, updates, emptied,
          claim, meta, live, policy, request, reset,
          coll, edits, last,
          session, file, upload, object, stored, asked,
          pointer, page, counts, rolled, steady, changes,
          entries, now, seq, answer,
          named, files, writing, walk, image, carried, removed, copy, writes,
          usage, usageLock, usageCall, usageSaved, usageChanges, usageLast, usageEmptied,
          resources, updating, masked, created, recreated

secretVars == <<secret, versions, mu, call, lives, home, updates, emptied>>
bucketVars == <<claim, meta, live, policy, request, reset>>
valueVars == <<coll, edits, last>>
uploadVars == <<session, file, upload, object, stored, asked>>
listingVars == <<pointer, page, counts, rolled, steady, changes>>
logVars == <<entries, now, seq, answer>>
snapshotVars == <<named, files, writing, walk, image, carried, removed, copy, writes>>
usageVars == <<usage, usageLock, usageCall, usageSaved, usageChanges, usageLast, usageEmptied>>
resourceVars == <<resources, updating, masked, created, recreated>>

-----------------------------------------------------------------------------
SecretVerbs == {"create", "delete", "add", "disable", "enable", "destroy", "update", "reset"}
MaxAdds == 3
MaxLives == 2
MaxUpdates == 1

SM == INSTANCE SecretManager

BucketVerbs == {"create", "delete", "patch", "write", "policy", "reset", "reset all"}
Policies == {<<1>>}
MaxPatches == 2
MaxPolicies == 1

BK == INSTANCE Buckets

\* Two documents: an increment and a conditional create against a delete and a
\* conditional overwrite, and a list of independent writes.
SmallDocs == {x, y}
W(d, op, v, p) == [doc |-> d, op |-> op, val |-> v, pre |-> p]
SmallBatches == {<<W(x, "increment", 1, "any"), W(y, "set", 1, "absent")>>,
                 <<W(y, "delete", 0, "exists"), W(x, "set", 0, "unchanged")>>}
SmallLists == {<<W(x, "set", 2, "absent"), W(y, "delete", 0, "exists")>>}

\* Values of several types at two fields and inside one of them, and queries
\* that order and filter by them.
I(n) == [t |-> "int", v |-> n]
D(n) == [t |-> "double", v |-> n]
NaN == [t |-> "nan"]
Null == [t |-> "null"]
A(s) == [t |-> "array", v |-> s]
f == <<"f">>
g == <<"g">>
fg == <<"f", "g">>
Set(p, v) == [path |-> p, value |-> v]
Transform(p, op, arg) == [path |-> p, op |-> op, arg |-> arg]
MaskedWrites == {Set(f, NaN), Set(f, Null), Set(g, D(1)), Set(<<"f", "h">>, I(2)), Set(fg, NaN)}
FieldTransforms ==
    {Transform(f, "increment", I(1)), Transform(fg, "union", <<I(1), NaN>>),
     Transform(f, "remove", <<D(1)>>), Transform(g, "maximum", I(2)),
     Transform(g, "minimum", NaN)}
By(p, desc) == [path |-> p, desc |-> desc]
Query(w, o) == [where |-> w, orderBy |-> o]
Everything == [kind |-> "all"]
Field(p, op, w) == [kind |-> "field", path |-> p, op |-> op, want |-> w]
Unary(p, op) == [kind |-> "unary", path |-> p, op |-> op]
Composite(op, s) == [kind |-> "composite", op |-> op, subs |-> s]
DocumentQueries ==
    {Query(Everything, <<By(g, FALSE)>>),
     Query(Everything, <<By(g, TRUE), By(f, FALSE)>>),
     Query(Composite("or", <<Field(f, "<=", I(1)), Unary(f, "nan"),
                             Field(fg, "contains", D(1))>>),
           <<By(<<"__name__">>, TRUE)>>),
     Query(Composite("and", <<Field(g, "in", A(<<I(1), I(2)>>)), Unary(g, "not null")>>), <<>>)}

FV == INSTANCE FirestoreValues
        WITH Names <- 1..3, Writes <- MaskedWrites, Transforms <- FieldTransforms,
             Queries <- DocumentQueries, MaxEdits <- 3

RU == INSTANCE Resumable WITH Size <- 2, MaxUploads <- 4

\* Names are sequences of characters; 0 is the delimiter.
LS == INSTANCE Listing
        WITH ObjectNames <- {<<1, 1>>, <<1, 2, 0, 1>>, <<1, 2, 0, 2>>, <<1, 3>>, <<2>>},
             Prefix <- <<1>>, Delimiter <- 0, PageSizes <- {1, 2}, ScanChunk <- 2,
             MaxChanges <- 2

\* Filters that only precedence, negation or nesting tells apart.
Is(fd, o, v) == [is |-> "cmp", field |-> fd, op |-> o, value |-> v]
Or(a, b) == [is |-> "or", left |-> a, right |-> b]
And(a, b, explicit) == [is |-> "and", left |-> a, right |-> b, explicit |-> explicit]
Not(a) == [is |-> "not", of |-> a, minus |-> FALSE]
Minus(a) == [is |-> "not", of |-> a, minus |-> TRUE]
severe == Is("severity", ">=", 500)
text == Is("textPayload", "=", "a")
old == Is("timestamp", "<", 2)
Filters ==
    {severe, Not(severe), And(Or(severe, text), old, FALSE), And(old, Or(text, severe), TRUE),
     Or(text, And(severe, old, FALSE)), Not(Or(severe, old)), Or(Minus(text), old),
     And(Not(And(text, old, TRUE)), severe, FALSE), Not(Not(Minus(severe))),
     Or(Or(text, severe), old)}
Entry(s, t, at) == [severity |-> s, text |-> t, time |-> at]

CL == INSTANCE CloudLogging
        WITH Projects <- {"p", "q"}, Logs <- {"l"}, Queries <- Filters,
             Batches <- {<<Entry(0, "a", 0)>>, <<Entry(500, "b", 1)>>,
                         <<Entry(500, "a", 0), Entry(0, "b", 1)>>},
             MaxEntries <- 2, MaxFilterDepth <- 3, MaxWrites <- 3, MaxTime <- 2

\* Three contents in two directories of the tree.
SN == INSTANCE Snapshots
        WITH meta <- named, request <- writing, Names <- {n1, n2}, Contents <- {x, y, z},
             Dirs <- <<"00", "ff">>, DirOf <- x :> "00" @@ y :> "00" @@ z :> "ff",
             MaxWrites <- 3

SU == INSTANCE ServiceUsage
        WITH kv <- usage, mu <- usageLock, call <- usageCall, saved <- usageSaved,
             changes <- usageChanges, last <- usageLast, emptied <- usageEmptied,
             Services <- {a1, a2}, Batches <- {<<a1, a2>>}, Callers <- Clients, MaxChanges <- 3,
             Projects <- UsageProjects

\* A topic and a subscription, masks of two fields or one, empty and refused.
Topic(labels, retention) == [name |-> 1, labels |-> labels, retention |-> retention]
Subscription(topic, labels, deadline) ==
    [name |-> 1, topic |-> topic, labels |-> labels, deadline |-> deadline]
UP == INSTANCE ResourceUpdates
        WITH kv <- resources, call <- updating, updates <- masked, lives <- created,
             Callers <- Clients, Resources <- {"t", "s"},
             Fields <- [t |-> DOMAIN Topic(0, 0), s |-> DOMAIN Subscription(0, 0, 0)],
             Masks <- {<<"labels">>, <<"deadline">>, <<"retention", "labels">>, <<"topic">>, <<>>},
             Sources <- [t |-> {Topic(1, None), Topic(2, 1)},
                         s |-> {Subscription(1, 1, None), Subscription(2, 2, 1)}],
             MaxUpdates <- 3, MaxLives <- 2

\* Requests at buckets, at Service Usage and at Pub/Sub resources are alike.
Symmetry == Permutations(Clients)

-----------------------------------------------------------------------------
storageVars == <<bucketVars, uploadVars, listingVars, snapshotVars>>
databaseVars == <<vars, valueVars>>
keptVars == <<usageVars, resourceVars>>
otherVars == <<secretVars, logVars, keptVars>>
sceneVars == <<scene, storageVars, databaseVars, otherVars>>

SceneInit ==
    /\ scene \in {"secrets", "buckets", "documents", "values", "uploads", "listing",
                  "logging", "snapshots", "usage", "resources"}
    /\ SM!Init /\ BK!Init /\ Init /\ FV!Init /\ RU!Init /\ LS!Init /\ CL!Init /\ SN!Init
    /\ SU!Init /\ UP!Init
    /\ scene # "listing" => page = LS!NewPage(LS!Start, 1) /\ \A n \in DOMAIN pointer : pointer[n] = 0

SceneNext ==
    \/ /\ scene = "secrets" /\ SM!Next
       /\ UNCHANGED <<scene, storageVars, databaseVars, logVars, keptVars>>
    \/ /\ scene = "logging" /\ CL!Next
       /\ UNCHANGED <<scene, storageVars, databaseVars, secretVars, keptVars>>
    \/ /\ scene = "documents" /\ Next
       /\ UNCHANGED <<scene, storageVars, valueVars, otherVars>>
    \/ /\ scene = "values" /\ FV!Next
       /\ UNCHANGED <<scene, storageVars, vars, otherVars>>
    \/ /\ scene = "buckets" /\ BK!Next
       /\ UNCHANGED <<scene, uploadVars, listingVars, snapshotVars, databaseVars, otherVars>>
    \/ /\ scene = "uploads" /\ RU!Next
       /\ UNCHANGED <<scene, bucketVars, listingVars, snapshotVars, databaseVars, otherVars>>
    \/ /\ scene = "listing" /\ LS!Next
       /\ UNCHANGED <<scene, bucketVars, uploadVars, snapshotVars, databaseVars, otherVars>>
    \/ /\ scene = "snapshots" /\ SN!Next
       /\ UNCHANGED <<scene, bucketVars, uploadVars, listingVars, databaseVars, otherVars>>
    \/ /\ scene = "usage" /\ SU!Next
       /\ UNCHANGED <<scene, storageVars, databaseVars, secretVars, logVars, resourceVars>>
    \/ /\ scene = "resources" /\ UP!Next
       /\ UNCHANGED <<scene, storageVars, databaseVars, secretVars, logVars, usageVars>>

SceneSpec == SceneInit /\ [][SceneNext]_sceneVars

-----------------------------------------------------------------------------
\* A version's name means the bytes added under it (SecretManager).
VersionMeansBytes == scene = "secrets" => SM!VersionMeansBytes

\* A bucket's project holds the claim on its name (Buckets).
ClaimStands == scene = "buckets" => BK!ClaimStands


\* A finished resumable upload is the bytes sent, once (Resumable).
UploadExact == scene = "uploads" => RU!UploadExact

\* A listing returns every object that was there throughout, once (Listing).
ListingComplete == scene = "listing" => LS!ListingComplete

\* A log query returns the newest entries its filter means (CloudLogging).
ListsWhatIsMeant == scene = "logging" => CL!ListsWhatIsMeant

\* What a restored snapshot names and nobody removed meanwhile, it carries
\* (Snapshots).
RestoredReadable == scene = "snapshots" => SN!RestoredReadable

\* An API is in the state it was last asked to be in (ServiceUsage).
DoneIsTheTruth == scene = "usage" => SU!DoneIsTheTruth

\* An update changes the fields it named and no other (ResourceUpdates).
MaskedMerge == UP!MaskedMerge

-----------------------------------------------------------------------------
\* A request with the whole object and no range finishes the upload (Resumable).
WholeInOneRequest == RU!WholeInOneRequest

\* An empty bucket alone is deleted, and a write at a path changes nothing
\* beside it (Buckets, FirestoreValues).
OnlyEmptyDeleted == BK!OnlyEmptyDeleted
WritesOnlyItsPath == FV!WritesOnlyItsPath

\* A number names one version of a secret of that name, and an update changes
\* the secret it read (SecretManager).
NumbersNeverReused == scene = "secrets" => SM!NumbersNeverReused
UpdatesItsOwnSecret == scene = "secrets" => SM!UpdatesItsOwnSecret

\* The two above without their conditions, and a listing shows what its filter
\* asked for (ServiceUsage, ResourceUpdates).
ChangesStand == SU!ChangesStand
ListsAsFiltered == SU!ListsAsFiltered
UpdatesMerge == UP!UpdatesMerge
=============================================================================
