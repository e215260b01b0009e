\* One session, every kind of request, and the protocol the consumer follows.
CONSTANTS
    Slots = {1}
    TurnKinds = {"Line", "Key", "HostAction", "EngineQuery"}
    MaxOutput = 2
    EagerClose = FALSE
SPECIFICATION Spec
INVARIANTS
    NoLostWakeup
    RequestMeansSuspended
    ReplyMeetsItsRequest
    SaveNeverOrphaned
PROPERTIES
    OutputDropsOnlyWhenPrinted
    EndOfInputEndsSession
    RequestsAreAnswered
