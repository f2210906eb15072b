\* memory.c: kmemInit, then kernel callers of allocPage, map, rangemap,
\* sbrk/kmalloc, copypgt and freePage.
CONSTANTS
    PGSIZE = 16
    NENT = 4
    KERNELBASE = 64
    KERNSIZE = 128
    HEAPSTART = 20
    MAXBRK = 112
    PAs <- MCPAs
    VAs <- MCVAs
    Sizes <- MCSizes
    NoPage = NoPage
SPECIFICATION Spec
\* Callers stop at MAXBRK and after the freePage fault: the model, not the
\* kernel, ends there.
CHECK_DEADLOCK FALSE
INVARIANT TypeOK
PROPERTY VMRefinement
