CONSTANTS
    NSLOTS = 2
    DEFAULT_COUNTER = 2
    NITER = 2
    NBUF = 1
    Tests <- MCTestsSem
    NULLThread = NULLThread
    Boot = Boot
    NoThread = NoThread
SPECIFICATION FairSpec
\* a fault and a CPU spinning with IF clear are terminal states
CHECK_DEADLOCK FALSE
PROPERTY EveryReadyThreadRuns
