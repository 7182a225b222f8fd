\* One sink of a router: five lifecycle operations and two blocks of audio in
\* every order, with sinks that fail, workers that are slow and waits that end.
SPECIFICATION Spec
CONSTANTS
    Sinks = {s1}
    Capacity = 2
    Sizes <- MCSizes
    MaxAttempts = 1
    MaxOffers = 2
    MaxCalls = 5
    None = None
    Caller = Caller
INVARIANTS
    TypeOK
    SinkContract
    NothingLost
PROPERTIES
    FinalizationEnds
\* Callers need not call again.
CHECK_DEADLOCK FALSE
