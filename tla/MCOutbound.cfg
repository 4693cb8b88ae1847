SPECIFICATION FairSpec
INVARIANTS SentSafely 
 
CONSTANTS
    Reqs = {"q1", "q2", "q3"}
    Request <- MCRequest
    Registered = {"ann"}
    Owner <- MCOwner
    Delegated = {"ann@x", "bob@x"}
    StsAnswers <- MCStsAnswers
    MxAnswers <- MCMxAnswers
    CapSets <- MCCapSets
    DataReplies = {"354", "4xx", "5xx", "eof"}
    ForbiddenHosts <- MCForbidden
    RateLimit = 1
    RateWindow = 0
    VolumeCap = 2
    VolumeWindow = 1
    BackoffBase = 2
    BackoffMaxShift = 1
    MaxClock = 2
CHECK_DEADLOCK FALSE
