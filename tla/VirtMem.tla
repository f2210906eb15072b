------------------------------ MODULE VirtMem ------------------------------
(***************************************************************************)
(* What the kernel page directory promises (memory.h: "map virtual        *)
(* address to physical address"): a partial function from virtual pages  *)
(* to physical frames.  kmemInit maps the kernel window                    *)
(* [KERNELBASE, KERNELBASE + KERNSIZE) onto physical [0, KERNSIZE); after  *)
(* that, map(va, pa) gives va's page the frame of pa and rangemap(pa, va, *)
(* n pages) gives the i-th page from va the i-th frame from pa; nothing    *)
(* else changes, and every other memory operation leaves all translations *)
(* alone.  call is the interface's input: the last map request made.       *)
(***************************************************************************)
EXTENDS Integers

CONSTANTS PGSIZE, KERNELBASE, KERNSIZE, ADDRSPACE, NoPage

Pages == {a \in 0..ADDRSPACE - 1 : a % PGSIZE = 0}

\* The virtual pages kmemInit maps, each onto its frame va - KERNELBASE.
Window == {(KERNELBASE + pa) % ADDRSPACE : pa \in {q \in Pages : q < KERNSIZE}}

Frame(a) == a - (a % PGSIZE)

\* Page u lies in the run of n pages starting at page v.
InRun(u, v, n) == \E i \in 0..n - 1 : u = (v + i * PGSIZE) % ADDRSPACE

VARIABLES vm, booted, call

Init == /\ vm = [v \in Pages |-> NoPage]
        /\ booted = FALSE
        /\ call = NoPage

BootMap == /\ ~booted
           /\ booted' = TRUE
           /\ vm' = [v \in Pages |-> IF v \in Window
                                     THEN (v - KERNELBASE + ADDRSPACE) % ADDRSPACE
                                     ELSE vm[v]]
           /\ UNCHANGED call

MapRun(c) == /\ booted
             /\ call' = c
             /\ \A u \in Pages :
                  vm'[u] = IF InRun(u, Frame(c.va), c.n)
                           THEN (Frame(c.pa) + u - Frame(c.va) + ADDRSPACE) % ADDRSPACE
                           ELSE vm[u]
             /\ UNCHANGED booted

Next == BootMap \/ (call' # NoPage /\ MapRun(call'))

Spec == Init /\ [][Next]_<<vm, booted, call>>
=============================================================================
