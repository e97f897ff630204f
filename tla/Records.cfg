SPECIFICATION SceneSpec
CONSTANTS
    None = None
    Nobody = Nobody
    Callers = {c1, c2, c3}
    Clients = {d1, d2}
    Projects = {p1, p2}
    Secrets = {s1}
    Docs <- SmallDocs
    Batches <- SmallBatches
    Lists <- SmallLists
    MaxOpen = 1
    TTL = 0
    MaxTime = 1
    MaxRequests = 3
    NoDoc = NoDoc
    NoHandle = NoHandle
    Committers = {k1, k2}
    Handles = {h1}
    Uploads = {u1, u2}
    x = x
    y = y
    z = z
    n1 = n1
    n2 = n2
    a1 = a1
    a2 = a2
    UsageProjects = {p1}
SYMMETRY Symmetry
INVARIANTS VersionMeansBytes ClaimStands  UploadExact ListingComplete ListsWhatIsMeant RestoredReadable DoneIsTheTruth
PROPERTIES Implements MaskedMerge
CHECK_DEADLOCK FALSE
