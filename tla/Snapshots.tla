------------------------------ MODULE Snapshots ------------------------------
(***************************************************************************)
(* Snapshots and forks (cloudrig.go, state/state.go, store/blob): the store *)
(* is copied at one instant, then the tree of content files is walked, file *)
(* by file, while requests go on writing and deleting objects; the archive  *)
(* is read back into another emulator the same way round.  A fork walks the *)
(* tree to link the files, an archive to copy them.                        *)
(*                                                                         *)
(* An object's metadata is reduced to the content it names.  A walk lists a *)
(* directory when it enters it and then visits what it listed.             *)
(***************************************************************************)
EXTENDS Integers, Sequences, FiniteSets, SequencesExt

CONSTANTS Names, Contents, None,
          Dirs,          \* the directories of the tree, in the walk's order
          DirOf,         \* DirOf[h]: the directory of content h
          MaxWrites      \* bound on uploads and deletes

VARIABLES meta,     \* meta[n]: the content object n names, or None
          files,    \* the contents the tree holds
          request,  \* the write in progress: [at, name, content, old]
          walk,     \* [at, dir, listed]
          image,    \* the store's copy: [Names -> Contents \cup {None}]
          carried,  \* the contents in the archive or the fork
          removed,  \* ghost: contents removed from the tree since the snapshot began
          copy,     \* the emulator restored into: [at, meta, files]
          writes

vars == <<meta, files, request, walk, image, carried, removed, copy, writes>>

Empty == [n \in Names |-> None]
NoRequest == [at |-> "idle", name |-> None, content |-> None, old |-> None]
NoWalk == [at |-> "idle", step |-> 1, dir |-> 1, listed |-> {}]

Init ==
    /\ meta = Empty /\ files = {} /\ request = NoRequest
    /\ walk = NoWalk /\ image = Empty /\ carried = {} /\ removed = {}
    /\ copy = [at |-> "empty", meta |-> Empty, files |-> {}]
    /\ writes = 0

snapshotVars == <<walk, image, carried, copy>>

-----------------------------------------------------------------------------
\* WriteObject: the content is in the tree first ...
PutBlob(n, h) ==
    /\ request.at = "idle"
    /\ writes < MaxWrites
    /\ writes' = writes + 1
    /\ files' = files \cup {h}
    /\ request' = [at |-> "publish", name |-> n, content |-> h, old |-> None]
    /\ UNCHANGED <<meta, removed>> /\ UNCHANGED snapshotVars

\* ... then the metadata names it ...
Publish ==
    /\ request.at = "publish"
    /\ meta' = [meta EXCEPT ![request.name] = request.content]
    /\ request' = [request EXCEPT !.at = "release", !.old = meta[request.name]]
    /\ UNCHANGED <<files, removed, writes>> /\ UNCHANGED snapshotVars

\* ... and what it named before is released.  DeleteObject starts here.
DeleteObject(n) ==
    /\ request.at = "idle"
    /\ writes < MaxWrites
    /\ meta[n] # None
    /\ writes' = writes + 1
    /\ meta' = [meta EXCEPT ![n] = None]
    /\ request' = [at |-> "release", name |-> n, content |-> None, old |-> meta[n]]
    /\ UNCHANGED <<files, removed>> /\ UNCHANGED snapshotVars

\* The last reference to a content takes its file along.
releaseBlob ==
    /\ request.at = "release"
    /\ IF request.old # None /\ \A n \in Names : meta[n] # request.old
       THEN /\ files' = files \ {request.old}
            /\ removed' = IF walk.at = "idle" THEN removed ELSE removed \cup {request.old}
       ELSE UNCHANGED <<files, removed>>
    /\ request' = NoRequest
    /\ UNCHANGED <<meta, writes>> /\ UNCHANGED snapshotVars

-----------------------------------------------------------------------------
\* Mutant: the tree is walked before the store is copied.
WriteSnapshotTreeFirst == <<"tree", "store">>

\* WriteSnapshot and Fork take the store's copy, then walk the tree.
WriteSnapshot == <<"store", "tree">>

requestVars == <<meta, files, request, writes>>

Begin ==
    /\ walk.at = "idle" /\ copy.at = "empty"
    /\ walk' = [NoWalk EXCEPT !.at = "next"]
    /\ UNCHANGED <<image, carried, removed, copy>> /\ UNCHANGED requestVars

\* The next part of the snapshot.
NextPart ==
    /\ walk.at = "next" /\ walk.step <= Len(WriteSnapshot)
    /\ IF WriteSnapshot[walk.step] = "store"
       THEN image' = meta /\ walk' = [walk EXCEPT !.step = @ + 1]
       ELSE walk' = [walk EXCEPT !.at = "enter", !.dir = 1] /\ UNCHANGED image
    /\ UNCHANGED <<carried, removed, copy>> /\ UNCHANGED requestVars

\* filepath.WalkDir lists the next directory.
EnterDir ==
    /\ walk.at = "enter"
    /\ walk' = IF walk.dir > Len(Dirs)
               THEN [walk EXCEPT !.at = "next", !.step = @ + 1]
               ELSE [walk EXCEPT !.at = "visit",
                                 !.listed = {h \in files : DirOf[h] = Dirs[walk.dir]}]
    /\ UNCHANGED <<image, carried, removed, copy>> /\ UNCHANGED requestVars

\* Each and Fork open or link the files listed.  When one is gone the callback's
\* error ends the walk, and since it says that the file does not exist Each and
\* Fork report success.
Visit ==
    /\ walk.at = "visit"
    /\ \/ /\ walk.listed = {}
          /\ walk' = [walk EXCEPT !.at = "enter", !.dir = @ + 1]
          /\ UNCHANGED carried
       \/ \E h \in walk.listed \cap files :
              /\ walk' = [walk EXCEPT !.listed = @ \ {h}]
              /\ carried' = carried \cup {h}
       \/ /\ \E h \in walk.listed : h \notin files
          /\ walk' = [walk EXCEPT !.at = "next", !.step = @ + 1, !.listed = {}]
          /\ UNCHANGED carried
    /\ UNCHANGED <<image, removed, copy>> /\ UNCHANGED requestVars

Complete == walk.at = "next" /\ walk.step > Len(WriteSnapshot)

\* state.Read: the manifest replaces the store, then the contents follow one by
\* one; a read that fails part way leaves what it has done.
ReadManifest ==
    /\ Complete /\ copy.at = "empty"
    /\ copy' = [copy EXCEPT !.at = "reading", !.meta = image]
    /\ UNCHANGED <<walk, image, carried, removed>> /\ UNCHANGED requestVars

ReadBlob ==
    /\ copy.at = "reading"
    /\ \/ \E h \in carried \ copy.files : copy' = [copy EXCEPT !.files = @ \cup {h}]
       \/ carried = copy.files /\ copy' = [copy EXCEPT !.at = "restored"]
       \/ carried # copy.files /\ copy' = [copy EXCEPT !.at = "failed"]
    /\ UNCHANGED <<walk, image, carried, removed>> /\ UNCHANGED requestVars

Next ==
    \/ \E n \in Names : DeleteObject(n) \/ \E h \in Contents : PutBlob(n, h)
    \/ Publish \/ releaseBlob
    \/ Begin \/ NextPart \/ EnterDir \/ Visit
    \/ ReadManifest \/ ReadBlob

Spec == Init /\ [][Next]_vars

-----------------------------------------------------------------------------
\* The shapes of the two emulators and of the walk.
TypeOK ==
    /\ meta \in [Names -> Contents \cup {None}] /\ image \in [Names -> Contents \cup {None}]
    /\ files \subseteq Contents /\ carried \subseteq Contents
    /\ walk.at \in {"idle", "next", "enter", "visit"}
    /\ copy.at \in {"empty", "reading", "restored", "failed"}

\* Uploads may go on while a snapshot is taken: as long as no content is removed
\* meanwhile, every object of a snapshot that was read back whole can be read.
RestoredReadable ==
    copy.at = "restored" /\ removed = {} =>
        \A n \in Names : copy.meta[n] # None => copy.meta[n] \in copy.files

\* "the parent releases a blob when its last reference goes, and a fork still
\* pointing at it must not lose the bytes" (cloudrig.go): an object whose own
\* content was never removed can be read in the copy.  It need not be: one file
\* removed between its listing and its visit ends the walk without an error,
\* and every file not yet visited stays behind.
UntouchedSurvive ==
    copy.at = "restored" =>
        \A n \in Names : copy.meta[n] \notin removed \cup {None} => copy.meta[n] \in copy.files
=============================================================================
