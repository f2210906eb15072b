------------------------------ MODULE Memory ------------------------------
(***************************************************************************)
(* The kernel page allocator and page tables of memory.c.  Physical memory *)
(* is a function from word addresses to 32-bit words (scaled: ADDRSPACE   *)
(* bytes, pages of PGSIZE bytes, NENT entries per page directory and page  *)
(* table, so that a table fills a page as 1024 * 4 bytes fill 4096).       *)
(* Paging is never enabled (pgenable is not called, cr0.PG never set), so  *)
(* every pointer the code dereferences is a physical address.  Functions   *)
(* that call other functions are operators over a record of the allocator *)
(* and memory state; an action is one call made by a kernel caller.        *)
(***************************************************************************)
EXTENDS Integers, Sequences, FiniteSets, Bitwise

CONSTANTS PGSIZE, NENT, KERNELBASE, KERNSIZE, HEAPSTART,
          MAXBRK,     \* callers stop allocating once brk passes it
          PAs, VAs,   \* addresses callers pass to map and rangemap
          Sizes,      \* byte counts callers pass to sbrk
          NoPage

WORD == 4
ADDRSPACE == PGSIZE * NENT * NENT
ASSUME PGSIZE = NENT * WORD
U32(x) == x % ADDRSPACE                 \* uint32_t arithmetic, scaled

PAGE_PRESENT == 1
PAGE_RW == 2
PAGE_USER == 4
CPL_KERN == 3
NULL == 0

\* The masks of memory.h on power-of-two sizes, as arithmetic: x & (2^k - 1)
\* is x % 2^k, x & ~(2^k - 1) is x - x % 2^k, x >> k is x \div 2^k.
PGDINDEX(va) == (va \div (PGSIZE * NENT)) % NENT
PGTINDEX(va) == (va \div PGSIZE) % NENT
PPN(pa) == pa - (pa % PGSIZE)
OFFSET(a) == a % PGSIZE
PGUPBOUND(a) == PPN(U32(a + PGSIZE - 1))
PGLOWBOUND(a) == PPN(a)
Present(e) == e % 2 = PAGE_PRESENT      \* e & PAGE_PRESENT, bit 0
VTOP(a) == U32(a - KERNELBASE + ADDRSPACE)
PTOV(a) == U32(a + KERNELBASE)

Words == 0..(ADDRSPACE \div WORD) - 1
Rd(m, a) == m[a \div WORD]
Wr(m, a, v) == [m EXCEPT ![a \div WORD] = v]
MemsetZero(m, a, n) == [w \in Words |-> IF a <= w * WORD /\ w * WORD < a + n
                                        THEN 0 ELSE m[w]]
Memmove(m, dst, src, n) ==
    [w \in Words |-> IF dst <= w * WORD /\ w * WORD < dst + n
                     THEN m[U32(src + w * WORD - dst) \div WORD] ELSE m[w]]

VARIABLES
    mem,      \* physical memory, one 32-bit word per WORD bytes
    brk,      \* next page of the kernel heap allocPage hands out
    kmsize,   \* end of what sbrk has handed out
    pgavail,  \* pages on the free list
    pglist,   \* the free list pglist.next -> ..., as page addresses
    kpgdir,   \* the kernel page directory
    cr3,      \* the value last loaded into cr3
    given,    \* history: every page allocPage has returned
    kblocks,  \* history: every [lo, hi) sbrk has returned
    call,     \* history: the arguments of the last map or rangemap call
    fault     \* undefined behaviour reached, or "none"

vars == <<mem, brk, kmsize, pgavail, pglist, kpgdir, cr3, given, kblocks, call, fault>>

\* The part of the state the functions below read and write.
St == [mem |-> mem, brk |-> brk, pgavail |-> pgavail, pglist |-> pglist,
       given |-> given, ret |-> NULL]
SetSt(s) == /\ mem' = s.mem /\ brk' = s.brk /\ pgavail' = s.pgavail
            /\ pglist' = s.pglist /\ given' = s.given

allocPage(s) ==
    IF s.pgavail > 0
    THEN [s EXCEPT !.ret = Head(s.pglist), !.pglist = Tail(s.pglist),
                   !.pgavail = @ - 1, !.given = @ \cup {Head(s.pglist)}]
    ELSE [s EXCEPT !.ret = s.brk, !.brk = U32(@ + PGSIZE),
                   !.given = @ \cup {s.brk}]

getpte(m, pgd, va) ==
    LET plb == PGLOWBOUND(va)
        pde == Rd(m, pgd + WORD * PGDINDEX(plb))
        pte == Rd(m, PPN(pde) + WORD * PGTINDEX(plb))
    IN IF Present(pde) /\ Present(pte) THEN pte ELSE 0

translate(m, pgd, va) ==
    LET pte == getpte(m, pgd, va)
    IN IF pte # 0 THEN PPN(pte) | OFFSET(va) ELSE 0

\* Mutant: the entry is written at the directory index, the slot the
\* commented-out printf after it reads.
map_PgdIndex(s, pgd, pa, va, flags) ==
    LET plb == PGLOWBOUND(va)
        pdeAt == pgd + WORD * PGDINDEX(plb)
        pde == Rd(s.mem, pdeAt)
        s1 == IF Present(pde) THEN s ELSE allocPage(s)
        pgtbl == IF Present(pde) THEN PPN(pde) ELSE s1.ret
        m1 == IF Present(pde) THEN s1.mem ELSE MemsetZero(s1.mem, pgtbl, NENT * WORD)
        pde1 == IF Present(pde) THEN pde ELSE pgtbl | flags | PAGE_PRESENT
        pte == PPN(pa) | flags | PAGE_PRESENT
    IN [s1 EXCEPT !.mem = Wr(Wr(m1, pdeAt, pde1), pgtbl + WORD * PGDINDEX(plb), pte),
                  !.ret = pte]

map(s, pgd, pa, va, flags) ==
    LET plb == PGLOWBOUND(va)
        pdeAt == pgd + WORD * PGDINDEX(plb)
        pde == Rd(s.mem, pdeAt)
        present == Present(pde)
        s1 == IF present THEN s ELSE allocPage(s)
        pgtbl == IF present THEN PPN(pde) ELSE s1.ret
        m1 == IF present THEN s1.mem ELSE MemsetZero(s1.mem, pgtbl, NENT * WORD)
        pde1 == IF present THEN pde ELSE pgtbl | flags | PAGE_PRESENT
        pte == PPN(pa) | flags | PAGE_PRESENT
    IN [s1 EXCEPT !.mem = Wr(Wr(m1, pdeAt, pde1), pgtbl + WORD * PGTINDEX(plb), pte),
                  !.ret = pte]

RECURSIVE rangemapLoop(_, _, _, _, _, _)
rangemapLoop(s, pgd, plb, pub, vlb, flags) ==
    IF plb < pub
    THEN rangemapLoop(map(s, pgd, plb, vlb, flags), pgd,
                      U32(plb + PGSIZE), pub, U32(vlb + PGSIZE), flags)
    ELSE s

rangemap(s, pgd, pa, va, size, flags) ==
    rangemapLoop(s, pgd, PGLOWBOUND(pa), U32(PGLOWBOUND(pa) + size),
                 PGLOWBOUND(va), flags)

\* vmalloc allocates the pages but never maps them (the map call is
\* commented out), and returns newsize.
RECURSIVE vmallocLoop(_, _, _)
vmallocLoop(s, upbound, newsize) ==
    IF upbound < newsize
    THEN vmallocLoop(allocPage(s), U32(upbound + PGSIZE), newsize)
    ELSE s

vmalloc(s, pgd, oldsize, newsize, privilege) ==
    [vmallocLoop(s, PGUPBOUND(oldsize), newsize) EXCEPT !.ret = newsize]

RECURSIVE copyLoop(_, _, _, _, _)
copyLoop(s, opgd, npgd, p, size) ==
    IF p < size
    THEN LET pte == getpte(s.mem, opgd, p)
             flags == OFFSET(pte)
             pa == PPN(pte) | flags
             s1 == allocPage(s)
             npa == s1.ret
             s2 == [s1 EXCEPT !.mem = Memmove(@, npa, PTOV(pa), PGSIZE)]
         IN copyLoop(map(s2, npgd, p, VTOP(npa), flags), opgd, npgd, p + PGSIZE, size)
    ELSE s

copypgt(s, opgd, size) ==
    LET s1 == allocPage(s)
    IN [copyLoop(s1, opgd, s1.ret, 0, size) EXCEPT !.ret = s1.ret]

Booted == kpgdir # NULL

Init == /\ mem = [w \in Words |-> 0]
        /\ brk = 0 /\ kmsize = 0 /\ pgavail = 0 /\ pglist = <<>>
        /\ kpgdir = NULL /\ cr3 = 0
        /\ given = {} /\ kblocks = {} /\ call = NoPage
        /\ fault = "none"

\* Mutant: the heap starts at kernheap itself, not rounded up to a page.
kmemInit_NoRound ==
    LET heap == HEAPSTART
        s1 == allocPage([St EXCEPT !.pgavail = 0, !.brk = heap])
        s2 == [s1 EXCEPT !.mem = MemsetZero(@, s1.ret, NENT * WORD)]
        s3 == rangemap(s2, s1.ret, 0, PTOV(0), KERNSIZE, PAGE_RW)
    IN /\ ~Booted
       /\ SetSt(s3)
       /\ kmsize' = heap
       /\ kpgdir' = s1.ret
       /\ cr3' = VTOP(s1.ret)
       /\ UNCHANGED <<kblocks, call, fault>>

\* kmemInit, called once from main; switchPageTable loads VTOP(kpgdir).
kmemInit ==
    LET heap == PGUPBOUND(HEAPSTART)
        s0 == [St EXCEPT !.pgavail = 0, !.brk = heap]
        s1 == allocPage(s0)
        s2 == [s1 EXCEPT !.mem = MemsetZero(@, s1.ret, NENT * WORD)]
        s3 == rangemap(s2, s1.ret, 0, PTOV(0), KERNSIZE, PAGE_RW)
    IN /\ ~Booted
       /\ SetSt(s3)
       /\ kmsize' = heap
       /\ kpgdir' = s1.ret
       /\ cr3' = VTOP(s1.ret)
       /\ UNCHANGED <<kblocks, call, fault>>

\* What a kernel caller may do once memory is initialised.
CallerMay == Booted /\ fault = "none" /\ brk < MAXBRK

AllocPageCall ==
    /\ CallerMay
    /\ SetSt(allocPage(St))
    /\ UNCHANGED <<kmsize, kpgdir, cr3, kblocks, call, fault>>

\* freePage stores through p, a local pointer that is never initialised.
freePage(addr) ==
    /\ CallerMay
    /\ addr \in given
    /\ fault' = "freePage: store through uninitialised p"
    /\ UNCHANGED <<mem, brk, kmsize, pgavail, pglist, kpgdir, cr3, given, kblocks, call>>

MapCall(pa, va, flags) ==
    /\ CallerMay
    /\ SetSt(map(St, kpgdir, pa, va, flags))
    /\ call' = [va |-> va, pa |-> pa, n |-> 1]
    /\ UNCHANGED <<kmsize, kpgdir, cr3, kblocks, fault>>

RangemapCall(pa, va, n) ==
    /\ CallerMay
    /\ SetSt(rangemap(St, kpgdir, pa, va, n * PGSIZE, PAGE_RW))
    /\ call' = [va |-> va, pa |-> pa, n |-> n]
    /\ UNCHANGED <<kmsize, kpgdir, cr3, kblocks, fault>>

\* sbrk (and kmalloc, which only calls it).
sbrk(size) ==
    /\ CallerMay
    /\ SetSt(vmalloc(St, kpgdir, kmsize, U32(kmsize + size), CPL_KERN))
    /\ kmsize' = U32(kmsize + size)
    /\ kblocks' = kblocks \cup {[lo |-> kmsize, hi |-> kmsize + size]}
    /\ UNCHANGED <<kpgdir, cr3, call, fault>>

CopypgtCall ==
    /\ CallerMay
    /\ SetSt(copypgt(St, kpgdir, PGSIZE))
    /\ UNCHANGED <<kmsize, kpgdir, cr3, kblocks, call, fault>>

Flags == {PAGE_RW, PAGE_RW | PAGE_USER}

Next == \/ kmemInit
        \/ AllocPageCall
        \/ \E a \in given : freePage(a)
        \/ \E pa \in PAs, va \in VAs, f \in Flags : MapCall(pa, va, f)
        \/ \E pa \in PAs, va \in VAs, n \in {1, 2} : RangemapCall(pa, va, n)
        \/ \E n \in Sizes : sbrk(n)
        \/ CopypgtCall

Spec == Init /\ [][Next]_vars

-----------------------------------------------------------------------------
(* Properties *)

Pages == {a \in 0..ADDRSPACE - 1 : a % PGSIZE = 0}

TypeOK == /\ mem \in [Words -> 0..ADDRSPACE - 1]
          /\ {brk, kmsize, kpgdir, cr3} \subseteq 0..ADDRSPACE - 1
          /\ pgavail = Len(pglist)
          /\ given \subseteq Pages
          /\ call \in {NoPage} \cup [va : VAs, pa : PAs, n : {1, 2}]
          /\ fault \in {"none", "freePage: store through uninitialised p"}

\* The translation kpgdir gives each virtual page, read the way getpte
\* reads it.
AbsVM == [v \in Pages |-> LET pte == getpte(mem, kpgdir, v)
                          IN IF Booted /\ pte # 0 THEN PPN(pte) ELSE NoPage]

VM == INSTANCE VirtMem WITH vm <- AbsVM, booted <- Booted

\* kmemInit maps exactly the kernel window, and from then on each map and
\* rangemap call changes exactly the translations it asks for, while page
\* allocation, new page tables, sbrk, vmalloc and copypgt never disturb a
\* translation of kpgdir: the page tables refine the abstract virtual map.
VMRefinement == VM!Spec
=============================================================================
