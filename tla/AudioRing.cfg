SPECIFICATION Spec
CONSTANTS
    RING = 8
    PULL = 6
    GRAIN = 2
    TARGET = 4
    MAXG = 2
    DECIN = 4
    DECOUT = 3
    HOLD = 1
    BUS = 32
    CURSOR = 16
    MaxIters = 9
    Tags = 2
    FirstYield <- MCFirstYield
    Yield <- MCYield
INVARIANT TypeOK
INVARIANT GrainsInOrder
INVARIANT RateExact
PROPERTY ImplementsLevels
