------------------------------ MODULE Routing ------------------------------
(***************************************************************************)
(* Which handler answers a request (transport/transport.go ServeHTTP,      *)
(* transport/router.go, routeV1 and newHandler of cloudrig.go, the route    *)
(* table of every service, functions/route.go, cloudrun Registry.Route).   *)
(*                                                                         *)
(* A path is the sequence of its segments.  A segment is the sequence of    *)
(* its hyphen-separated parts, since /{location}-{project}/{name} has to be *)
(* taken apart at its hyphens; a pattern's segment is the literal's only    *)
(* part, or Capture.  Escapes are left out: a capture is unescaped after    *)
(* the split, so it is one value whatever it holds.                         *)
(***************************************************************************)
EXTENDS Integers, Sequences, FiniteSets, SequencesExt

CONSTANTS Deployable,   \* functions and services: kind, location, project, name
          Values,       \* segments a request may give for a capture
          MaxDeploys    \* bound on deploys and deletes

VARIABLES deployed,     \* what is deployed
          answer,       \* the last request and what answered it
          deploys

Capture == "{}"
DefaultLocation == <<"us", "central1">>
DefaultProject == <<"local">>
NoAnswer == [by |-> <<"nothing">>]

Init == deployed = {} /\ answer = NoAnswer /\ deploys = 0

-----------------------------------------------------------------------------
\* Router.Handle for a list of methods, patterns and handlers of one service.
Handle(service, routes) ==
    [i \in 1..Len(routes) |->
        [method |-> routes[i][1], segs |-> routes[i][2], h |-> <<service, routes[i][3]>>]]

V1 == <<"v1", "projects", Capture>>
V1Located == V1 \o <<"locations", Capture>>
V2Located == <<"v2", "projects", Capture, "locations", Capture>>

ServiceUsageRoutes ==
    LET services == Append(V1, "services") IN
    Handle("serviceusage", <<
        <<"GET", services, "list">>,
        <<"GET", Append(services, Capture), "get">>,
        <<"POST", Append(services, Capture), "serviceVerb">>,
        <<"POST", Append(V1, "services:batchEnable"), "batchEnable">> >>)

PubSubRoutes ==
    LET topics == Append(V1, "topics")
        subs == Append(V1, "subscriptions")
    IN  Handle("pubsub", <<
        <<"PUT", Append(topics, Capture), "createTopic">>,
        <<"GET", Append(topics, Capture), "getTopic">>,
        <<"PATCH", Append(topics, Capture), "updateTopic">>,
        <<"DELETE", Append(topics, Capture), "deleteTopic">>,
        <<"GET", topics, "listTopics">>,
        <<"POST", Append(topics, Capture), "topicVerb">>,
        <<"PUT", Append(subs, Capture), "createSubscription">>,
        <<"GET", Append(subs, Capture), "getSubscription">>,
        <<"PATCH", Append(subs, Capture), "updateSubscription">>,
        <<"DELETE", Append(subs, Capture), "deleteSubscription">>,
        <<"GET", subs, "listSubscriptions">>,
        <<"POST", Append(subs, Capture), "subscriptionVerb">> >>)

CloudRunRoutes ==
    LET base == <<"apis", "serving.knative.dev", "v1", "namespaces", Capture>>
        knative == Append(base, "services")
        revisions == Append(base, "revisions")
        global == Append(V1Located, "services")
    IN  Handle("cloudrun", <<
        <<"GET", knative, "listKnative">>,
        <<"POST", knative, "createKnative">>,
        <<"GET", Append(knative, Capture), "getKnative">>,
        <<"PUT", Append(knative, Capture), "replaceKnative">>,
        <<"DELETE", Append(knative, Capture), "deleteKnative">>,
        <<"GET", revisions, "listRevisions">>,
        <<"GET", Append(revisions, Capture), "getRevision">>,
        <<"GET", global, "listGlobal">>,
        <<"GET", Append(global, Capture), "getGlobal">>,
        <<"DELETE", Append(global, Capture), "deleteGlobal">>,
        <<"POST", Append(global, Capture), "serviceVerb">> >>)

SecretManagerRoutes ==
    LET secrets == Append(V1, "secrets")
        versions == secrets \o <<Capture, "versions">>
    IN  Handle("secretmanager", <<
        <<"GET", secrets, "listSecrets">>,
        <<"POST", secrets, "createSecret">>,
        <<"GET", Append(secrets, Capture), "getSecret">>,
        <<"POST", Append(secrets, Capture), "secretVerb">>,
        <<"PATCH", Append(secrets, Capture), "updateSecret">>,
        <<"DELETE", Append(secrets, Capture), "deleteSecret">>,
        <<"GET", versions, "listVersions">>,
        <<"GET", Append(versions, Capture), "getVersion">>,
        <<"POST", Append(versions, Capture), "versionVerb">> >>)

SchedulerRoutes ==
    LET jobs == Append(V1Located, "jobs") IN
    Handle("cloudscheduler", <<
        <<"GET", jobs, "listJobs">>,
        <<"POST", jobs, "createJob">>,
        <<"GET", Append(jobs, Capture), "getJob">>,
        <<"PATCH", Append(jobs, Capture), "updateJob">>,
        <<"POST", Append(jobs, Capture), "jobVerb">>,
        <<"DELETE", Append(jobs, Capture), "deleteJob">> >>)

ClusterRoutes ==
    LET clusters == Append(V1Located, "clusters") IN
    Handle("gke", <<
        <<"GET", clusters, "listClusters">>,
        <<"POST", clusters, "createCluster">>,
        <<"GET", Append(clusters, Capture), "getCluster">>,
        <<"DELETE", Append(clusters, Capture), "deleteCluster">>,
        <<"GET", V1Located \o <<"operations", Capture>>, "getOperation">> >>)

TaskRoutes ==
    LET queues == Append(V2Located, "queues")
        tasks == queues \o <<Capture, "tasks">>
    IN  Handle("cloudtasks", <<
        <<"GET", queues, "listQueues">>,
        <<"POST", queues, "createQueue">>,
        <<"GET", Append(queues, Capture), "getQueue">>,
        <<"POST", Append(queues, Capture), "queueVerb">>,
        <<"DELETE", Append(queues, Capture), "deleteQueue">>,
        <<"GET", tasks, "listTasks">>,
        <<"POST", tasks, "createTask">>,
        <<"GET", Append(tasks, Capture), "getTask">>,
        <<"POST", Append(tasks, Capture), "taskVerb">>,
        <<"DELETE", Append(tasks, Capture), "deleteTask">> >>)

LoggingRoutes ==
    LET logs == <<"v2", "projects", Capture, "logs">> IN
    Handle("cloudlogging", <<
        <<"POST", <<"v2", "entries:write">>, "write">>,
        <<"POST", <<"v2", "entries:list">>, "list">>,
        <<"GET", logs, "listLogs">>,
        <<"DELETE", Append(logs, Capture), "deleteLog">> >>)

FunctionRoutes ==
    LET fns == Append(V1Located, "functions")
        v2fns == Append(V2Located, "functions")
        upload == <<"_emu", "upload", Capture>>
    IN  Handle("cloudfunctions", <<
        <<"GET", fns, "listFunctions">>,
        <<"POST", fns, "deployFunction">>,
        <<"GET", Append(fns, Capture), "getFunction">>,
        <<"POST", Append(fns, Capture), "postFunction">>,
        <<"PATCH", Append(fns, Capture), "deployFunction">>,
        <<"DELETE", Append(fns, Capture), "deleteFunction">>,
        <<"POST", Append(V1Located, "functions:generateUploadUrl"), "generateUploadURL">>,
        <<"GET", Append(V1, "locations"), "listLocations">>,
        <<"GET", v2fns, "listFunctionsV2">>,
        <<"GET", Append(v2fns, Capture), "getFunctionV2">>,
        <<"PUT", upload, "receiveUpload">>,
        <<"POST", upload, "receiveUpload">>,
        <<"GET", V1, "getProject">>,
        <<"POST", V1, "testProjectPermissions">>,
        <<"GET", Append(V1Located, "defaultServiceAccount"), "defaultServiceAccount">>,
        <<"GET", <<"v1", "operations", Capture>>, "getOperation">>,
        <<"GET", Append(V2Located, "runtimes"), "listRuntimes">> >>)

StorageRoutes ==
    LET buckets == <<"storage", "v1", "b">>
        bucket == Append(buckets, Capture)
        object == bucket \o <<"o", Capture>>
        upload == <<"upload", "storage", "v1", "b", Capture, "o">>
        media == <<Capture, Capture>>
    IN  Handle("storage", <<
        <<"POST", buckets, "createBucket">>,
        <<"GET", buckets, "listBuckets">>,
        <<"GET", bucket, "getBucket">>,
        <<"PATCH", bucket, "patchBucket">>,
        <<"PUT", bucket, "patchBucket">>,
        <<"DELETE", bucket, "deleteBucket">>,
        <<"GET", Append(bucket, "storageLayout"), "storageLayout">>,
        <<"GET", Append(bucket, "managedFolders"), "listManagedFolders">>,
        <<"GET", Append(bucket, "iam"), "getBucketIAM">>,
        <<"PUT", Append(bucket, "iam"), "setBucketIAM">>,
        <<"GET", bucket \o <<"iam", "testPermissions">>, "testIAMPermissions">>,
        <<"GET", Append(object, "iam"), "getObjectIAM">>,
        <<"PUT", Append(object, "iam"), "setObjectIAM">>,
        <<"GET", Append(bucket, "o"), "listObjects">>,
        <<"GET", object, "getObject">>,
        <<"GET", <<"download">> \o object, "getObject">>,
        <<"PATCH", object, "patchObject">>,
        <<"PUT", object, "patchObject">>,
        <<"DELETE", object, "deleteObject">>,
        <<"POST", object \o <<"copyTo", "b", Capture, "o", Capture>>, "copyObject">>,
        <<"POST", object \o <<"rewriteTo", "b", Capture, "o", Capture>>, "rewriteObject">>,
        <<"POST", Append(object, "compose"), "composeObject">>,
        <<"POST", upload, "upload">>,
        <<"PUT", upload, "upload">>,
        <<"GET", media, "downloadMedia">>,
        <<"HEAD", media, "downloadMedia">>,
        <<"PUT", media, "uploadSigned">>,
        <<"DELETE", media, "deleteSigned">> >>)

\* The emulator's own endpoints, with a clock, faults and snapshots configured.
EmulatorRoutes ==
    Handle("emulator", <<
        <<"GET", <<"_emu", "health">>, "health">>,
        <<"POST", <<"_emu", "reset">>, "handleReset">>,
        <<"GET", <<"_emu", "clock">>, "clockStatus">>,
        <<"POST", <<"_emu", "clock", "advance">>, "clockAdvance">>,
        <<"POST", <<"_emu", "clock", "goto">>, "clockGoto">>,
        <<"POST", <<"_emu", "faults">>, "handleFaults">>,
        <<"GET", <<"_emu", "faults">>, "handleFaults">>,
        <<"DELETE", <<"_emu", "faults">>, "handleFaults">>,
        <<"GET", <<"_emu", "snapshot">>, "handleSnapshot">>,
        <<"POST", <<"_emu", "snapshot">>, "handleSnapshot">> >>)

-----------------------------------------------------------------------------
\* Mutant: a pattern also matches a longer path.
matchPathPrefix(segs, path) ==
    /\ Len(path) >= Len(segs)
    /\ \A i \in DOMAIN segs : segs[i] = Capture \/ <<segs[i]>> = path[i]

matchPath(segs, path) ==
    /\ Len(path) = Len(segs)
    /\ \A i \in DOMAIN segs : segs[i] = Capture \/ <<segs[i]>> = path[i]

OnPath(table, path) == SelectSeq(table, LAMBDA r : matchPath(r.segs, path))

\* Router.Matches: a route for the path is enough, whatever its method.
Matches(table, path) == OnPath(table, path) # <<>>

\* Router.match and ServeHTTP: the first route with the method, else 405 when
\* some route has the path and 404 when none has.
Answered(table, method, path) ==
    LET right == SelectSeq(OnPath(table, path), LAMBDA r : r.method = method)
    IN  IF right # <<>> THEN right[1].h
        ELSE IF Matches(table, path) THEN <<"405">> ELSE <<"404">>

\* routeV1: the first service that claims the path, else the fallback.
routeV1(fallback, services, method, path) ==
    LET claiming == SelectSeq(services, LAMBDA t : Matches(t, path))
    IN  Answered(IF claiming # <<>> THEN claiming[1] ELSE fallback, method, path)

\* newHandler: what is mounted, by prefix.  A prefix is a sequence of literals.
V1Services == <<ServiceUsageRoutes, PubSubRoutes, CloudRunRoutes, SecretManagerRoutes,
                SchedulerRoutes, ClusterRoutes>>
V2Services == <<TaskRoutes, LoggingRoutes>>
Mounts == {<<"v1">>, <<"v2">>, <<"_emu", "upload">>, <<"apis", "serving.knative.dev">>,
           <<"storage", "v1">>, <<"upload", "storage", "v1">>, <<"download", "storage", "v1">>}
mounts(prefix, method, path) ==
    CASE prefix = <<"v1">> -> routeV1(FunctionRoutes, V1Services, method, path)
      [] prefix = <<"v2">> -> routeV1(FunctionRoutes, V2Services, method, path)
      [] prefix = <<"_emu", "upload">> -> Answered(FunctionRoutes, method, path)
      [] prefix = <<"apis", "serving.knative.dev">> -> Answered(CloudRunRoutes, method, path)
      [] OTHER -> Answered(StorageRoutes, method, path)

\* strings.HasPrefix(path, prefix) where the prefix ends in a slash.
Under(prefix, path) ==
    /\ Len(path) > Len(prefix)
    /\ \A i \in DOMAIN prefix : <<prefix[i]>> = path[i]

Named(kind, location, project, name) ==
    {d \in deployed : d.kind = kind /\ d.location = location /\ d.project = project /\ d.name = name}

\* splitPrefix: two parts of location, the rest is the project.
splitPrefix(seg) ==
    IF Len(seg) >= 3 THEN {<<SubSeq(seg, 1, 2), SubSeq(seg, 3, Len(seg))>>} ELSE {}

\* functions Registry.Route: the prefixed form, then the bare name.
RouteFunction(path) ==
    LET prefixed == UNION {Named("function", lp[1], lp[2], path[2]) :
                             lp \in IF Len(path) >= 2 THEN splitPrefix(path[1]) ELSE {}}
        bare == Named("function", DefaultLocation, DefaultProject, path[1])
    IN  IF prefixed # {} THEN prefixed ELSE bare

\* cloudrun Registry.Route, over a map in any order: prefix is
\* /{location}-{project}/{name} and must end at a segment's end.
RouteService(path) ==
    {d \in deployed : /\ d.kind = "service"
                      /\ Len(path) >= 2
                      /\ path[1] = d.location \o d.project /\ path[2] = d.name}

\* Handler.ServeHTTP after the faults: everything that may answer.  h.mounts is
\* a map, so a request under two prefixes would go to either.
ServeHTTP(method, path) ==
    LET under == {p \in Mounts : Under(p, path)}
        fallback == IF Matches(EmulatorRoutes, path)
                    THEN Answered(EmulatorRoutes, method, path)
                    ELSE Answered(StorageRoutes, method, path)
    IN  IF Len(path) >= 2 /\ path[1] = <<"_emu">> /\ path[2] = <<"functions">>
        THEN {<<"functions", "Admin">>}
        ELSE IF under # {} THEN {mounts(p, method, path) : p \in under}
        ELSE IF RouteFunction(path) # {} THEN {<<"deployed", d>> : d \in RouteFunction(path)}
        ELSE IF RouteService(path) # {} THEN {<<"deployed", d>> : d \in RouteService(path)}
        ELSE {fallback}

-----------------------------------------------------------------------------
Deploy(d) ==
    /\ deploys < MaxDeploys
    /\ deployed' = deployed \cup {d}
    /\ deploys' = deploys + 1
    /\ answer' = NoAnswer

DeleteDeployed(d) ==
    /\ d \in deployed
    /\ deploys < MaxDeploys
    /\ deployed' = deployed \ {d}
    /\ deploys' = deploys + 1
    /\ answer' = NoAnswer

AllRoutes == UNION {ToSet(t) : t \in ToSet(V1Services) \cup ToSet(V2Services)
                                     \cup {FunctionRoutes, StorageRoutes, EmulatorRoutes}}

\* The paths of a pattern: the same value stands in all of its captures, or a
\* location-project pair in the first and a name in the others.
Path(segs, first, others) ==
    LET captures == {i \in DOMAIN segs : segs[i] = Capture}
    IN  [i \in DOMAIN segs |->
            IF i \notin captures THEN <<segs[i]>>
            ELSE IF \A j \in captures : i <= j THEN first ELSE others]

\* One request is looked at between two deploys: none changes what the next
\* one finds.
Request(r, first, others) ==
    LET path == Path(r.segs, first, others)
    IN  /\ answer = NoAnswer
        /\ \E by \in ServeHTTP(r.method, path) :
              answer' = [route |-> r, path |-> path, by |-> by]
        /\ UNCHANGED <<deployed, deploys>>

Next ==
    \/ \E d \in Deployable : Deploy(d) \/ DeleteDeployed(d)
    \/ \E r \in AllRoutes, first \in Values, others \in Values : Request(r, first, others)

-----------------------------------------------------------------------------
\* Six services share /v1/ and three share /v2/, each asked in turn and claiming
\* a path whatever the method, and a map's order decides between the mounts.
\* Still every request made for a route reaches it: no earlier service claims
\* it, and nothing that is deployed takes an API's request away.  A path of two
\* segments is an object's only while nothing is deployed under it, and "a name
\* deployed as both is a function first" (transport.go).
EachRouteReached ==
    answer # NoAnswer =>
        IF answer.route.segs # <<Capture, Capture>>
        THEN answer.by = answer.route.h
        ELSE LET at(d) == d.location \o d.project = answer.path[1] /\ d.name = answer.path[2]
                 bare(d) == /\ d.kind = "function" /\ d.name = answer.path[1]
                            /\ d.location = DefaultLocation /\ d.project = DefaultProject
                 named == {d \in deployed : at(d) \/ bare(d)}
                 fns == {d \in named : d.kind = "function"}
             IN  IF named = {} THEN answer.by = answer.route.h
                 ELSE \E d \in IF fns # {} THEN fns ELSE named : answer.by = <<"deployed", d>>
=============================================================================
