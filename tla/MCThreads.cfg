CONSTANTS
    NSLOTS = 2
    DEFAULT_COUNTER = 2
    NITER = 2
    NBUF = 1
    Tests <- MCTestsAll
    NULLThread = NULLThread
    Boot = Boot
    NoThread = NoThread
SPECIFICATION FairSpec
\* a fault and a CPU spinning with IF clear are terminal states
CHECK_DEADLOCK FALSE
INVARIANT TypeOK MutexExclusive CurrentIsRunning
PROPERTY SliceServed
