\* The same host: a request outlives the reply that answers it.
CONSTANTS
    Slots = {1}
    TurnKinds = {"Line", "HostAction"}
    MaxOutput = 1
    EagerClose = TRUE
SPECIFICATION Safety
INVARIANT RequestMeansSuspended
