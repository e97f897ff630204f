--------------------------- MODULE FunctionSources ---------------------------
(***************************************************************************)
(* Deploys through the Cloud Functions API (services/cloudfunctions:       *)
(* upload.go, deploy.go, source.go, cloudfunctions.go): a client asks for  *)
(* an upload URL, sends an archive to it and deploys a function from it.   *)
(* The archive is a file for each token; a deploy extracts it, entry by    *)
(* entry, into a directory for each function name and token, and starts    *)
(* the function from there.  Contents are the numbers of the uploads they  *)
(* came with, 0 for a file that is absent or cut short.  How a started     *)
(* function replaces the one before it is FunctionRegistry's.              *)
(***************************************************************************)
EXTENDS Integers, FiniteSets

CONSTANTS Tokens,     \* upload tokens, as many as are issued
          Functions,  \* <<project, name>> of functions
          Entries,    \* number of files in an archive
          Clients,    \* concurrent requests
          MaxUploads, \* bound on uploads begun
          Reuse       \* whether clients use a URL again that has served its purpose

VARIABLES seen,     \* tokens issued
          archive,  \* archive[t]: [upload, whole], the file of a token
          tree,     \* tree[d]: the files of a source directory
          serving,  \* serving[f]: the directory and upload of the function that runs
          request,  \* request[c]: an upload or a deploy under way
          uploads,  \* uploads begun
          used,     \* tokens deployed from or being deployed from
          closed    \* the service has been closed

vars == <<seen, archive, tree, serving, request, uploads, used, closed>>

Idle == [at |-> "idle"]
NoArchive == [upload |-> 0, whole |-> FALSE]
NotServing == [upload |-> 0]
Empty == [i \in 1..Entries |-> 0]

\* Mutant: a directory for each function.
dirOfName(f, t) == <<f[2], "source">>

\* "A directory per upload": it is named after the function and the token, not
\* the project.
dirOf(f, t) == <<f[2], t>>

Dirs == {dirOf(f, t) : f \in Functions, t \in Tokens}

Init ==
    /\ seen = {} /\ archive = [t \in Tokens |-> NoArchive] /\ tree = [d \in Dirs |-> Empty]
    /\ serving = [f \in Functions |-> NotServing] /\ request = [c \in Clients |-> Idle]
    /\ uploads = 0 /\ used = {} /\ closed = FALSE

Goes(c, r) == request' = [request EXCEPT ![c] = r]
At(c, place) == request[c].at = place

-----------------------------------------------------------------------------
generateUploadURL ==
    /\ ~closed
    /\ \E t \in Tokens \ seen : seen' = seen \cup {t}
    /\ UNCHANGED <<archive, tree, serving, request, uploads, used, closed>>

\* receiveUpload creates the token's file, or cuts it to nothing ...
receiveUpload(c, t) ==
    /\ ~closed /\ request[c] = Idle /\ t \in seen /\ uploads < MaxUploads
    /\ Reuse \/ (~archive[t].whole /\ \A o \in Clients : ~(At(o, "receive") /\ request[o].t = t))
    /\ uploads' = uploads + 1
    /\ archive' = [archive EXCEPT ![t] = [upload |-> uploads + 1, whole |-> FALSE]]
    /\ Goes(c, [at |-> "receive", t |-> t, upload |-> uploads + 1])
    /\ UNCHANGED <<seen, tree, serving, used, closed>>

\* ... and copies the body to it, whole or up to where the connection breaks.
\* One that another upload has cut to nothing may spoil what that one wrote.
StoreArchive(c) ==
    LET t == request[c].t IN
    /\ At(c, "receive")
    /\ \E whole \in IF archive[t].upload = request[c].upload THEN BOOLEAN ELSE {FALSE, archive[t].whole} :
          archive' = [archive EXCEPT ![t].whole = whole]
    /\ Goes(c, Idle)
    /\ UNCHANGED <<seen, tree, serving, uploads, used, closed>>

-----------------------------------------------------------------------------
\* materialize makes the directory and opens the archive, whose table of
\* contents is at its end; a token never issued and a file cut short are refused.
deployFunction(c, f, t) ==
    /\ ~closed /\ request[c] = Idle /\ t \in seen /\ archive[t].whole
    /\ Reuse \/ t \notin used
    /\ used' = used \cup {t}
    /\ Goes(c, [at |-> "extract", f |-> f, t |-> t, upload |-> archive[t].upload, next |-> 1])
    /\ UNCHANGED <<seen, archive, tree, serving, uploads, closed>>

\* A deploy that fails may be tried again from the same upload.
Fails(c) == Goes(c, Idle) /\ used' = used \ {request[c].t}

\* Extraction makes the next file, or cuts it to nothing, or cannot open it ...
copyEntry(c) ==
    LET r == request[c]  d == dirOf(r.f, r.t) IN
    /\ At(c, "extract")
    /\ \/ /\ r.next <= Entries
          /\ tree' = [tree EXCEPT ![d][r.next] = 0]
          /\ Goes(c, [r EXCEPT !.at = "copy"]) /\ UNCHANGED used
       \/ /\ r.next > Entries
          /\ Goes(c, [r EXCEPT !.at = "start"]) /\ UNCHANGED <<tree, used>>
       \/ r.next <= Entries /\ Fails(c) /\ UNCHANGED tree
    /\ UNCHANGED <<seen, archive, serving, uploads, closed>>

\* ... and copies the entry to it, which fails when the archive is written to
\* meanwhile or the disk is full; what was extracted stays.
CopyBytes(c) ==
    LET r == request[c]  d == dirOf(r.f, r.t) IN
    /\ At(c, "copy")
    /\ \/ /\ archive[r.t] = [upload |-> r.upload, whole |-> TRUE]
          /\ tree' = [tree EXCEPT ![d][r.next] = r.upload]
          /\ Goes(c, [r EXCEPT !.at = "extract", !.next = @ + 1]) /\ UNCHANGED used
       \/ Fails(c) /\ UNCHANGED tree
    /\ UNCHANGED <<seen, archive, serving, uploads, closed>>

\* The dependencies are installed and the registry builds and starts what the
\* directory holds; either may fail, and then the function before goes on.
Deploy(c) ==
    LET r == request[c] IN
    /\ At(c, "start")
    /\ \/ /\ serving' = [serving EXCEPT ![r.f] = [upload |-> r.upload, dir |-> dirOf(r.f, r.t)]]
          /\ Goes(c, Idle) /\ UNCHANGED used
       \/ Fails(c) /\ UNCHANGED serving
    /\ UNCHANGED <<seen, archive, tree, uploads, closed>>

deleteFunction(f) ==
    /\ ~closed /\ serving[f] # NotServing
    /\ serving' = [serving EXCEPT ![f] = NotServing]
    /\ UNCHANGED <<seen, archive, tree, request, uploads, used, closed>>

\* The server has waited for its requests and the registry has stopped every
\* function; Close removes the archives and the sources.
Close ==
    /\ ~closed /\ \A c \in Clients : request[c] = Idle
    /\ closed' = TRUE
    /\ serving' = [f \in Functions |-> NotServing]
    /\ archive' = [t \in Tokens |-> NoArchive] /\ tree' = [d \in Dirs |-> Empty]
    /\ UNCHANGED <<seen, request, uploads, used>>

Next ==
    \/ generateUploadURL \/ Close
    \/ \E f \in Functions : deleteFunction(f)
    \/ \E c \in Clients :
          \/ \E t \in Tokens : receiveUpload(c, t) \/ \E f \in Functions : deployFunction(c, f, t)
          \/ StoreArchive(c) \/ copyEntry(c) \/ CopyBytes(c) \/ Deploy(c)

Spec == Init /\ [][Next]_vars

-----------------------------------------------------------------------------
\* Files hold uploads that were begun, and archives those of issued tokens.
TypeOK ==
    /\ \A t \in Tokens : archive[t].upload \in 0..uploads /\ (archive[t] # NoArchive => t \in seen)
    /\ \A d \in DOMAIN tree : \A i \in 1..Entries : tree[d][i] \in 0..uploads
    /\ uploads \in 0..MaxUploads

\* "A directory per upload, so a redeploy never extracts over a tree the previous
\* version is still serving from": however uploads and deploys of a function
\* interleave and fail, the directory a running function was started from holds
\* the archive it was deployed from, every file of it, and nobody writes to it.
\* Clients that ask for a new URL once a deploy from the last succeeded see this;
\* with Reuse a second deploy from the URL, or one of that name in another
\* project, extracts over the tree.
ServesItsUpload ==
    \A f \in Functions :
        serving[f] # NotServing =>
            \A i \in 1..Entries : tree[serving[f].dir][i] = serving[f].upload
=============================================================================
