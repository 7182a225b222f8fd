\* Two recordings, stops that fail and are repeated, another source, and two
\* clients, one at a time, whose subscriptions hold two events.
SPECIFICATION Spec
CONSTANTS
    Clients = {c1, c2}
    QueueCapacity = 2
    MaxSubscribers = 1
    None = None
    MaxRecordings = 2
    MaxStops = 2
    MaxOthers = 2
INVARIANTS
    TypeOK
    StreamTruth
    RecordingsOwned
SYMMETRY MCClients
\* The daemon may be left alone.
CHECK_DEADLOCK FALSE
