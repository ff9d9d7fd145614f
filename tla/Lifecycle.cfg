CONSTANTS
    MaxFaults <- FaultsOf
    SuspicionBound = 2
    ObserveBound = 3
    ShortBound = 1
SPECIFICATION Spec
INVARIANTS FailureExplained VerdictSound EventsTrue OrderKept
PROPERTIES Terminates EverythingReaped
