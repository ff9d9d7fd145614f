\* Two calibration timeouts, one thing that goes wrong; two requests at a time
\* under load, three measured.
CONSTANTS
    MaxFaults = 1
    Timeouts <- TwoTimeouts
    MaxSnaps = 2
    Times <- ThreeTimes
    C = 2
    S = 2
    N = 3
    W = 1
    Capacity = 2
    Capability = TRUE
SPECIFICATION Spec
INVARIANTS PoisonMeansLoss VerdictsTrue PassMeansIsolated
PROPERTY Terminates
