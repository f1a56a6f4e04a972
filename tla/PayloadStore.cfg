SPECIFICATION MCSpec
CONSTANTS
    writer = writer
    rotation = rotation
    reader = reader
    Process = {writer, rotation, reader}
    Mortal = {writer, rotation}
    Host = {"h1", "h2"}
    host <- MCHost
    may <- MCMay
    Object = {1, 2}
    MaxKey = 1
    Limit = 1
    None = None
    Batch = {"b"}
    Installation = {"i", "j"}
    from <- MCFrom
    Deletion = {"d", "e"}
    target <- MCTarget
    WholeApp = "app"
    Purger = {"p"}
    Admission = {}
    SessionLoss = FALSE
    MaxClock = 1
INVARIANTS
    MutualExclusion
    ReadyMeansRewrapped
    ErasedStaysErased
    NotFoundMeansErasing
    KeptStaysReadable
    AcknowledgedIsDurable
    RecognizedStaysOut
PROPERTIES
    DeadOwnerIsReclaimed
    DeletionEnds
\* The bounds on what happens are used up.
CHECK_DEADLOCK FALSE
