SPECIFICATION Spec
CONSTANTS
    RING = 8192
    PULL = 2048
    GRAIN = 256
    TARGET = 1536
    MAXG = 4
    DECIN = 512
    DECOUT = 375
    HOLD = 256
    BUS = 32768
    FirstYield <- MCFirstYield
    Yield <- MCYield
INVARIANT NeverOverruns
INVARIANT NeverUnderruns
