------------------------------ MODULE Objects ------------------------------
(***************************************************************************)
(* Cloud Storage objects of one bucket (services/storage/object.go,        *)
(* blobref.go, copy.go): requests of several clients that read, claim and  *)
(* compare-and-swap metadata in the versioned store, and count references  *)
(* to content-addressed files.  A request is a little program; each step   *)
(* here is one call it makes on the store or on the blob tree, so requests *)
(* interleave wherever the code's do.                                      *)
(*                                                                         *)
(* An object's metadata is reduced to its content and metageneration.  The *)
(* live pointer's two fields always hold the same number, so it is one     *)
(* generation.                                                             *)
(***************************************************************************)
EXTENDS KV, FiniteSets

CONSTANTS Procs,            \* requests in flight at once
          Names,            \* object names
          Contents,         \* what uploads store, by hash
          Versionings,      \* whether buckets keep superseded generations, do not, or either
          FreshUploads,     \* every upload brings content not stored before
          Requests(_, _),   \* the requests of a process to a versioned bucket or another
          MaxRequests,      \* bound on the requests of each process
          MaxNow,           \* bound on the clock
          MaxGeneration,    \* bound on generations
          MaxWriteAttempts, \* maxWriteAttempts, 64 in the code
          MaxResolveAttempts, \* maxResolveAttempts, 8 in the code
          None              \* no object, or an argument a request does not have

ASSUME ObjectBounds ==
    /\ Versionings \subseteq BOOLEAN /\ FreshUploads \in BOOLEAN
    /\ {MaxRequests, MaxNow, MaxGeneration} \subseteq Nat
    /\ {MaxWriteAttempts, MaxResolveAttempts} \subseteq Nat \ {0}

VARIABLES versioning, \* the bucket's setting
          kv,       \* live pointers, generations and reference counts
          files,    \* contents the blob tree holds
          now,      \* the clock, in microseconds
          req,      \* req[p]: what p's request has got to
          left,     \* left[p]: requests p may still make
          used,     \* ghost: contents ever uploaded
          kept,     \* ghost: generations published and not dropped since
          everLive  \* ghost: generations the live pointer ever named

vars == <<versioning, kv, files, now, req, left, used, kept, everLive>>

Generations == 1..MaxGeneration

\* resource.Live, resource.Object and resource.BlobRefs.
Live(n) == <<"live", n>>
Generation(n, g) == <<"object", n, g>>
BlobRefs(h) == <<"refs", h>>
StoreKeys ==
    {Live(n) : n \in Names} \cup {Generation(n, g) : n \in Names, g \in Generations}
        \cup {BlobRefs(h) : h \in Contents}

Count(h) == IF Holds(kv, BlobRefs(h)) THEN kv[BlobRefs(h)].val ELSE 0

\* Preconditions are a function on the conditions given.
GenMatch == "ifGenerationMatch"
GenNotMatch == "ifGenerationNotMatch"
MetaMatch == "ifMetagenerationMatch"
MetaNotMatch == "ifMetagenerationNotMatch"

\* o is the object there, or None.
checkPreconditions(pre, o) ==
    /\ GenMatch \in DOMAIN pre =>
         IF pre[GenMatch] = 0 THEN o = None ELSE o # None /\ o.gen = pre[GenMatch]
    /\ GenNotMatch \in DOMAIN pre =>
         IF o = None THEN pre[GenNotMatch] # 0 ELSE o.gen # pre[GenNotMatch]
    /\ MetaMatch \in DOMAIN pre => o # None /\ o.meta = pre[MetaMatch]
    /\ MetaNotMatch \in DOMAIN pre => o = None \/ o.meta # pre[MetaNotMatch]

\* Mutant: the clock alone.
nextGenerationOfClock(highest) == now

nextGeneration(highest) == IF highest >= now THEN highest + 1 ELSE now

NoRequest == [op |-> "none", name |-> None, content |-> None, pre |-> <<>>, to |-> None]

\* What a request remembers: its arguments, the step it is at, the live pointer
\* it read (version, existing), the generation it is claiming, and the change of
\* a reference count it is making (blob, delta, count, refs) before it goes on
\* to step after.
Request(q, at) ==
    [op |-> q.op, name |-> q.name, content |-> q.content, pre |-> q.pre, to |-> q.to,
     at |-> at, attempt |-> 1, version |-> 0, existing |-> None, gen |-> 0,
     blob |-> None, delta |-> 0, count |-> 0, refs |-> 0, after |-> "idle",
     result |-> "none"]

Idle(result) == [Request(NoRequest, "idle") EXCEPT !.result = result]

Init ==
    /\ versioning \in Versionings
    /\ kv = [k \in StoreKeys |-> Absent]
    /\ files = {}
    /\ now = 1
    /\ req = [p \in Procs |-> Idle("none")]
    /\ left = [p \in Procs |-> MaxRequests]
    /\ used = {} /\ kept = {} /\ everLive = {}

-----------------------------------------------------------------------------
At(p, step) == req[p].at = step
Goes(p, r) == req' = [req EXCEPT ![p] = r]
Ends(p, result) == Goes(p, Idle(result))
OnlyRequest == UNCHANGED <<kv, files, now, left, used, kept, everLive>>
OnlyStore == UNCHANGED <<files, now, left, used, kept, everLive>>

\* The live pointer of the name a request works on, and the object it names.
LiveOf(p) == kv[Live(req[p].name)]
ObjectAt(n, g) ==
    IF Holds(kv, Generation(n, g))
    THEN [gen |-> g, blob |-> kv[Generation(n, g)].val.blob,
          meta |-> kv[Generation(n, g)].val.meta]
    ELSE None

\* A request arrives.  A write first stores its payload; the others start from
\* the live pointer.
Begin(p, q) ==
    /\ At(p, "idle")
    /\ left[p] > 0
    /\ q.op = "write" /\ FreshUploads => q.content \notin used
    /\ left' = [left EXCEPT ![p] = @ - 1]
    /\ used' = IF q.op = "write" THEN used \cup {q.content} ELSE used
    /\ Goes(p, Request(q, CASE q.op = "write" -> "blobs.Put"
                            [] q.op = "update" -> "readLive"
                            [] OTHER -> "resolveLive"))
    /\ UNCHANGED <<kv, files, now, kept, everLive>>

\* Content that is already stored is a hit; otherwise it is renamed into place.
PutBlob(p) ==
    /\ At(p, "blobs.Put")
    /\ files' = files \cup {req[p].content}
    /\ Goes(p, [req[p] EXCEPT !.at = "readLive"])
    /\ UNCHANGED <<kv, now, left, used, kept, everLive>>

\* A publish found o under the pointer at the version it read: its
\* preconditions are checked, and it goes for the next generation.
Publishes(p, o, highest, version) ==
    IF checkPreconditions(req[p].pre, o)
    THEN Goes(p, [req[p] EXCEPT !.at = "claimGeneration", !.version = version,
                                !.existing = o, !.gen = nextGeneration(highest)])
    ELSE Ends(p, "precondition failed")

\* The pointer moved between read and write: a conditional write fails, an
\* unconditional one starts over.
conditional(pre) == {GenMatch, MetaMatch} \cap DOMAIN pre # {}
AfterRace(r) ==
    IF conditional(r.pre) THEN Idle("precondition failed")
    ELSE IF r.attempt >= MaxWriteAttempts THEN Idle("aborted")
    ELSE [Request(r, "readLive") EXCEPT !.attempt = r.attempt + 1]

\* readLive, as publish and UpdateObject call it.
ReadLive(p) ==
    /\ At(p, "readLive")
    /\ IF LiveOf(p) = Absent
       THEN IF req[p].op = "update" THEN Ends(p, "not found") ELSE Publishes(p, None, 0, 0)
       ELSE Goes(p, [req[p] EXCEPT !.at = "readGeneration", !.gen = LiveOf(p).val,
                                   !.version = LiveOf(p).version])
    /\ OnlyRequest

\* readGeneration for a publish: metadata that is gone went with a pointer that
\* moved.
ReadGeneration(p) ==
    /\ At(p, "readGeneration")
    /\ req[p].op # "update"
    /\ LET o == ObjectAt(req[p].name, req[p].gen)
       IN  IF o = None THEN Goes(p, AfterRace(req[p]))
           ELSE Publishes(p, o, req[p].gen, req[p].version)
    /\ OnlyRequest

\* claimGeneration: the metadata goes under the first free generation.
ClaimGeneration(p) ==
    /\ At(p, "claimGeneration")
    /\ req[p].gen <= MaxGeneration
    /\ LET k == Generation(req[p].name, req[p].gen)
       IN  IF PutMatches(kv, k, 0)
           THEN /\ kv' = Put(kv, k, [blob |-> req[p].content, meta |-> 1])
                /\ Goes(p, [req[p] EXCEPT !.at = "refs.Get", !.blob = req[p].content,
                                          !.delta = 1, !.after = "casLive"])
           ELSE kv' = kv /\ Goes(p, [req[p] EXCEPT !.gen = @ + 1])
    /\ OnlyStore

\* A request with reference count work done goes on to its next step.
GoesOn(p) ==
    Goes(p, CASE req[p].after = "casLive" -> [req[p] EXCEPT !.at = "casLive"]
              [] req[p].after = "race lost" -> AfterRace(req[p])
              [] OTHER -> Idle("ok"))

\* adjustRefs reads the count ...
RefsGet(p) ==
    /\ At(p, "refs.Get")
    /\ LET h == req[p].blob
           c == Count(h) + req[p].delta
           v == kv[BlobRefs(h)].version
       IN  Goes(p, [req[p] EXCEPT !.count = c, !.refs = v,
                                  !.at = CASE c > 0 -> "refs.Put"
                                           [] c <= 0 /\ v # 0 -> "refs.Delete"
                                           [] OTHER -> "blobs.Delete"])
    /\ OnlyRequest

\* ... and writes it back at the version it read, or starts over.
RefsPut(p) ==
    /\ At(p, "refs.Put")
    /\ LET k == BlobRefs(req[p].blob)
       IN  IF PutMatches(kv, k, req[p].refs)
           THEN kv' = Put(kv, k, req[p].count) /\ GoesOn(p)
           ELSE kv' = kv /\ Goes(p, [req[p] EXCEPT !.at = "refs.Get"])
    /\ OnlyStore

\* At zero the count goes first; one that is gone already is as good ...
RefsDelete(p) ==
    /\ At(p, "refs.Delete")
    /\ LET k == BlobRefs(req[p].blob)
       IN  IF Holds(kv, k) /\ ~DeleteMatches(kv, k, req[p].refs)
           THEN kv' = kv /\ Goes(p, [req[p] EXCEPT !.at = "refs.Get"])
           ELSE kv' = Delete(kv, k) /\ Goes(p, [req[p] EXCEPT !.at = "blobs.Delete"])
    /\ OnlyStore

\* ... then the content.
DeleteBlob(p) ==
    /\ At(p, "blobs.Delete")
    /\ files' = files \ {req[p].blob}
    /\ GoesOn(p)
    /\ UNCHANGED <<kv, now, left, used, kept, everLive>>

Releases(p, h, after) ==
    Goes(p, [req[p] EXCEPT !.at = "refs.Get", !.blob = h, !.delta = -1, !.after = after])

\* Ghost bookkeeping of a pointer that moves.
Publish(n, g) ==
    /\ everLive' = everLive \cup {<<n, g>>}
    /\ kept' = kept \cup {<<n, g>>}

\* Mutants: the pointer moves whatever its version is; the old generation is
\* dropped although the bucket is versioned.
CasLiveBlind(p) ==
    /\ At(p, "casLive")
    /\ kv' = Put(kv, Live(req[p].name), req[p].gen)
    /\ Publish(req[p].name, req[p].gen)
    /\ IF versioning \/ req[p].existing = None
       THEN Ends(p, "ok")
       ELSE Goes(p, [req[p] EXCEPT !.at = "dropGeneration"])
    /\ UNCHANGED <<files, now, left, used>>
CasLiveDropsAlways(p) ==
    /\ At(p, "casLive")
    /\ PutMatches(kv, Live(req[p].name), req[p].version)
    /\ kv' = Put(kv, Live(req[p].name), req[p].gen)
    /\ Publish(req[p].name, req[p].gen)
    /\ IF req[p].existing = None
       THEN Ends(p, "ok")
       ELSE Goes(p, [req[p] EXCEPT !.at = "dropGeneration"])
    /\ UNCHANGED <<files, now, left, used>>

\* casLive moves the pointer, or undoes the reference.
CasLive(p) ==
    /\ At(p, "casLive")
    /\ LET n == req[p].name
           g == req[p].gen
       IN  IF PutMatches(kv, Live(n), req[p].version)
           THEN /\ kv' = Put(kv, Live(n), g)
                /\ Publish(n, g)
                /\ IF versioning \/ req[p].existing = None
                   THEN Ends(p, "ok")
                   ELSE Goes(p, [req[p] EXCEPT !.at = "dropGeneration"])
           ELSE /\ Releases(p, req[p].content, "race lost")
                /\ UNCHANGED <<kv, kept, everLive>>
    /\ UNCHANGED <<files, now, left, used>>

\* Mutant: the content is not released.
DropGenerationLeaks(p) ==
    /\ At(p, "dropGeneration")
    /\ kv' = Delete(kv, Generation(req[p].name, req[p].existing.gen))
    /\ kept' = kept \ {<<req[p].name, req[p].existing.gen>>}
    /\ Ends(p, "ok")
    /\ UNCHANGED <<files, now, left, used, everLive>>

\* dropGeneration removes what the pointer named before.
DropGeneration(p) ==
    /\ At(p, "dropGeneration")
    /\ kv' = Delete(kv, Generation(req[p].name, req[p].existing.gen))
    /\ kept' = kept \ {<<req[p].name, req[p].existing.gen>>}
    /\ Releases(p, req[p].existing.blob, "idle")
    /\ UNCHANGED <<files, now, left, used, everLive>>

\* resolveLive, as reads, copies and deletes call it: pointer, then metadata,
\* until both are there.
ResolveLive(p) ==
    /\ At(p, "resolveLive")
    /\ IF LiveOf(p) = Absent
       THEN Ends(p, "not found")
       ELSE Goes(p, [req[p] EXCEPT !.at = "resolveGeneration", !.gen = LiveOf(p).val,
                                   !.version = LiveOf(p).version])
    /\ OnlyRequest

\* A read goes on to open the content, a copy to publish it under another name,
\* a delete to remove the pointer.
ResolveGeneration(p) ==
    /\ At(p, "resolveGeneration")
    /\ LET o == ObjectAt(req[p].name, req[p].gen)
           r == req[p]
       IN  IF o = None
           THEN IF r.attempt >= MaxResolveAttempts THEN Ends(p, "aborted")
                ELSE Goes(p, [r EXCEPT !.at = "resolveLive", !.attempt = @ + 1])
           ELSE IF r.op = "copy"
           THEN Goes(p, Request([r EXCEPT !.name = r.to, !.content = o.blob], "readLive"))
           ELSE IF ~checkPreconditions(r.pre, o) THEN Ends(p, "precondition failed")
           ELSE Goes(p, [r EXCEPT !.at = IF r.op = "read" THEN "blobs.Open" ELSE "deleteLive",
                                  !.blob = o.blob, !.existing = o])
    /\ OnlyRequest

OpenBlob(p) ==
    /\ At(p, "blobs.Open")
    /\ Ends(p, IF req[p].blob \in files THEN "ok" ELSE "internal")
    /\ OnlyRequest

\* DeleteObject removes the pointer at the version it resolved.
DeleteLive(p) ==
    /\ At(p, "deleteLive")
    /\ LET k == Live(req[p].name)
       IN  CASE ~Holds(kv, k) -> kv' = kv /\ Ends(p, "internal")
             [] Holds(kv, k) /\ ~DeleteMatches(kv, k, req[p].version) ->
                  kv' = kv /\ Ends(p, "precondition failed")
             [] OTHER ->
                  /\ kv' = Delete(kv, k)
                  /\ IF versioning THEN Ends(p, "ok")
                     ELSE Goes(p, [req[p] EXCEPT !.at = "dropGeneration"])
    /\ OnlyStore

\* UpdateObject reads the metadata with its version ...
ReadForUpdate(p) ==
    /\ At(p, "readGeneration")
    /\ req[p].op = "update"
    /\ LET o == ObjectAt(req[p].name, req[p].gen)
       IN  IF o = None \/ ~checkPreconditions(req[p].pre, o)
           THEN Ends(p, "precondition failed")
           ELSE Goes(p, [req[p] EXCEPT !.at = "putMetadata", !.existing = o,
                           !.version = kv[Generation(req[p].name, req[p].gen)].version])
    /\ OnlyRequest

\* Mutant: the metadata is written whatever its version is.
PutMetadataBlind(p) ==
    /\ At(p, "putMetadata")
    /\ LET o == req[p].existing
       IN  kv' = Put(kv, Generation(req[p].name, req[p].gen),
                     [blob |-> o.blob, meta |-> o.meta + 1])
    /\ Ends(p, "ok")
    /\ OnlyStore

\* ... and writes it back with the next metageneration.
PutMetadata(p) ==
    /\ At(p, "putMetadata")
    /\ LET k == Generation(req[p].name, req[p].gen)
           o == req[p].existing
       IN  IF PutMatches(kv, k, req[p].version)
           THEN kv' = Put(kv, k, [blob |-> o.blob, meta |-> o.meta + 1]) /\ Ends(p, "ok")
           ELSE kv' = kv /\ Ends(p, "precondition failed")
    /\ OnlyStore

Tick ==
    /\ now < MaxNow
    /\ now' = now + 1
    /\ UNCHANGED <<kv, files, req, left, used, kept, everLive>>

Step(p) ==
    \/ \E q \in Requests(p, versioning) : Begin(p, q)
    \/ PutBlob(p) \/ ReadLive(p) \/ ReadGeneration(p) \/ ClaimGeneration(p)
    \/ RefsGet(p) \/ RefsPut(p) \/ RefsDelete(p) \/ DeleteBlob(p)
    \/ CasLive(p) \/ DropGeneration(p)
    \/ ResolveLive(p) \/ ResolveGeneration(p) \/ OpenBlob(p) \/ DeleteLive(p)
    \/ ReadForUpdate(p) \/ PutMetadata(p)

Next == ((\E p \in Procs : Step(p)) \/ Tick) /\ UNCHANGED versioning

Spec == Init /\ [][Next]_vars

-----------------------------------------------------------------------------
Steps == {"idle", "blobs.Put", "readLive", "readGeneration", "claimGeneration", "refs.Get",
          "refs.Put", "refs.Delete", "blobs.Delete", "casLive", "dropGeneration",
          "resolveLive", "resolveGeneration", "blobs.Open", "deleteLive", "putMetadata"}
Results == {"none", "ok", "not found", "precondition failed", "aborted", "internal"}

\* The shapes of the store's entries and of the requests in flight.
TypeOK ==
    /\ \A n \in Names : kv[Live(n)] # Absent => kv[Live(n)].val \in Generations
    /\ \A n \in Names, g \in Generations :
         Holds(kv, Generation(n, g)) =>
             kv[Generation(n, g)].val \in [blob : Contents, meta : Nat \ {0}]
    /\ \A h \in Contents : Holds(kv, BlobRefs(h)) => kv[BlobRefs(h)].val \in Nat \ {0}
    /\ files \subseteq Contents
    /\ \A p \in Procs : req[p].at \in Steps /\ req[p].result \in Results

\* What holds a reference to content h: the generations published and not
\* dropped, the writers between retainBlob and casLive, and the releases under
\* way.
Keeping(h) ==
    {x \in kept : LET k == Generation(x[1], x[2]) IN Holds(kv, k) /\ kv[k].val.blob = h}
Retaining(h) == {p \in Procs : At(p, "casLive") /\ req[p].content = h}
Releasing(h) ==
    {p \in Procs : /\ req[p].at \in {"refs.Get", "refs.Put", "refs.Delete"}
                   /\ req[p].delta = -1 /\ req[p].blob = h}

\* The count of every content is the number of its references: adjustRefs loses
\* no update, and every reference is taken and dropped once.
RefsExact ==
    \A h \in Contents :
        Count(h) = Cardinality(Keeping(h)) + Cardinality(Retaining(h))
                     + Cardinality(Releasing(h))

\* "an orphaned file is harmless where a count naming a missing file is not"
\* (blobref.go): content with a count has its file.
CountNamesFile == \A h \in Contents : Count(h) > 0 => h \in files

\* Content is counted exactly and kept as long as it is counted.
ContentCounted == RefsExact /\ CountNamesFile

\* "a live pointer never names a generation whose metadata is missing"
\* (publish in object.go).
LiveNamesMetadata ==
    \A n \in Names : Holds(kv, Live(n)) => Holds(kv, Generation(n, kv[Live(n)].val))

\* The generation an existing pointer names only goes up: a slow writer that
\* claimed a lower one cannot publish it over a newer object.
GenerationsIncrease ==
    [][\A n \in Names : Holds(kv, Live(n)) /\ Holds(kv, Live(n))' =>
            kv'[Live(n)].val >= kv[Live(n)].val]_vars

\* "nextGeneration keeps generations unique and increasing", and Highest makes a
\* write produce "a generation above any that came before": a generation newly
\* published under a name is above every one that was published under it.
NewGenerationIsHighest ==
    [][\A n \in Names : kv'[Live(n)] # kv[Live(n)] /\ Holds(kv, Live(n))' =>
            \A g \in Generations : <<n, g>> \in everLive => g < kv'[Live(n)].val]_vars

\* A write with ifGenerationMatch that moves the pointer moves it from the very
\* generation its caller required, or from nothing when that is 0: "the state
\* the caller required is no longer current" is always noticed.
ConditionalWriteIsAtomic ==
    [][\A p \in Procs :
          /\ At(p, "casLive") /\ GenMatch \in DOMAIN req[p].pre
          /\ kv'[Live(req[p].name)] # kv[Live(req[p].name)] /\ req'[p] # req[p]
          => IF req[p].pre[GenMatch] = 0 THEN LiveOf(p) = Absent
             ELSE LiveOf(p) # Absent /\ LiveOf(p).val = req[p].pre[GenMatch]]_vars

\* "two concurrent metadata updates cannot both bump metageneration to the same
\* number", and an update leaves the content alone: the metadata of the live
\* generation changes only by one more metageneration.
UpdatesAreSerial ==
    [][\A n \in Names :
          LET k == Generation(n, kv[Live(n)].val)
          IN  Holds(kv, Live(n)) /\ kv'[k] # kv[k] /\ kv'[Live(n)] = kv[Live(n)] =>
                /\ kv'[k].val.blob = kv[k].val.blob
                /\ kv'[k].val.meta = kv[k].val.meta + 1]_vars

\* "Archived: a read by explicit generation still resolves" (DeleteObject): in a
\* versioned bucket a generation that was ever live keeps its metadata, and a
\* reference to its content is counted.
ArchivedReadable ==
    versioning => \A x \in everLive :
        LET k == Generation(x[1], x[2])
        IN  Holds(kv, k) /\ Count(kv[k].val.blob) > 0

\* A generation that a pointer or, in a versioned bucket, a reader can name is
\* there to be read.
NamedIsReadable == LiveNamesMetadata /\ ArchivedReadable

\* "The pointer never moved, so this generation is unreachable" (publish): when
\* no request is under way, every generation a read can name was published.
LosersUnreachable ==
    (\A p \in Procs : At(p, "idle")) =>
        \A n \in Names, g \in Generations :
            Holds(kv, Generation(n, g)) => <<n, g>> \in kept
=============================================================================
