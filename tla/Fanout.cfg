CONSTANTS
    LogCapacity = 2
    Fds = {"a", "b", "c"}
    MaxTxns = 3
SPECIFICATION Spec
INVARIANTS TypeOK LogRecent ResponseIsWindow ClientsAreOpen NothingMissed
PROPERTY BroadcastCompletes
