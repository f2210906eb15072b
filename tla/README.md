# TLA+ models of the orcas kernel

This directory holds TLA+ models of the orcas kernel in `../src`. The
models are written from the C source, and TLC checks them. `spec.md`
describes the intended storage subsystem. Wherever the code and the spec
disagree, the models follow the code, and a run (see `PROJECT.json`)
states the disagreement as a property that TLC finds violated.

## 1. The system

orcas is a single-CPU, 32-bit bare-metal kernel. `kernelMain`
(`src/kernel.c`) runs these steps in order:

1. console and kernel memory (`kmemInit`);
2. GDT and IDT;
3. the thread table (`thrInit`);
4. the file system (`fsInit`), which also runs `fileTest`;
5. the keyboard and the PIT.

After that, everything happens in interrupt handlers. The keyboard
handler is the shell: it accepts `ls`, `cd` and `mkdir`. The timer
handler calls `thrYeild`.

| Part | Source | State | Operations |
|---|---|---|---|
| Block buffer cache | `fs.c` 8-157, `fs.h` | `bcache.buf[128]`: a slot's key (device, block), flags, 512-byte buffer, free-list links `lru_prev/lru_next`, chain link `hash_next`; `bcache.blkHash[128]` bucket heads; the free-list sentinel `lruListHead` | `blockCacheInit`, `getCachedBlock`, `relCachedBlock`, `blockRead`, `blockWrite` |
| IDE driver | `ide.c` | the disk | `hardReadWait` (PIO read; its wait loop never runs), `hardWrite` |
| Disk layout, bitmap allocators | `fs.c` 188-547 | superblock (block 1), inode bitmap (block 20), data bitmap (block 21) | `readSuperblock`, `writeSuperblock`, `diskLayoutInit`, `allocInode`, `freeInode`, `allocData`, `freeData` |
| Inode cache | `fs.c` 276-365 | `icache.ibuf[128]` with the same free list and hash chains as the block cache, keyed by inode number | `inodeCacheInit`, `getCachedInode` |
| Path resolution and directories | `fs.c` 568-920, `util.c` `split` | directory byte streams of 104-byte dentries; `fileSys.cwd`, `root`, `cwd_name` | `namei`, `getFileName`, `creat`, `mk`, `ls`, `cd`, `rm` |
| File I/O, open file table | `fs.c` 922-1110 | `fileSys.ofTbl`: `fds[128]`, `bitmap[4]`, `max_fd`; inode `size` and `block[64]` | `read`, `write`, `open`, `close`, `cat` |
| Threads and synchronisation | `thread.c`, `concurrency.c` | `thrqueue[256]` (status, counter, ctx, cv), `thr_current`, spinlocks | `thrCreate`, `thrSched`, `thrYeild`, `thrExit`, `thrCondWait/Signal/Broadcast`, `thrMutexLock/Unlock`, `thrSemDown/Up` |
| Page allocator | `memory.c` 56-84, 208-282 | `pglist`, `pgavail`, `brk`, `kmsize` | `allocPage`, `freePage`, `sbrk`/`kmalloc` |
| Keyboard line and shell | `keyboard.c` | `line[50]`, `pos`, `cmd`, `arg` | `kbdInterruptHandler`, `parseCmd` |
| GDT, IDT, PIC, PIT, console, port I/O, paging setup | `gdt.c`, `idt.c`, `timer.c`, `console.c`, `port.c`, `memory.c` 99-183 | hardware tables and registers | not modelled (see section 5) |

How the parts interact:

- Every file-system operation reaches the disk through
  `blockRead`/`blockWrite`, and the cache reaches the disk through the IDE
  driver.
- The allocators keep the superblock and the bitmap blocks checked out of
  the cache and never release them. They modify the bitmaps in place
  inside cache buffers.
- Directories are byte streams of dentries held in data blocks, which
  `allocData` hands out.
- The shell calls `ls`, `cd` and `mk` from inside the keyboard interrupt.
  The timer interrupt preempts threads through `thrYeild`.
- The file system takes no locks (spec section 5).

### What is hard in this code

The hazards are listed, each with its source line, in `PROJECT.json`
"hazards". The main ones:

- **The cache's pointer surgery.** A hit on a slot that is already
  checked out unlinks it through stale `lru` links. `relCachedBlock` never
  unlinks the first entry of a chain. The chain walk's `&&` stops at the
  first entry that shares the device or the block number. Together these
  can put held slots on the free list, duplicate a block in the cache,
  and close a chain into a cycle. Each needs a particular sequence of
  lookups and releases, which is a model checker's job and not a unit
  test's.
- **Callers that never release.** `readSuperblock` and the allocators
  re-look-up blocks they hold. `blockRead` returns NULL on exhaustion and
  on read errors, and nobody checks for it.
- **Boundaries.** Several computations break at the edges:
  - `allocData` on a full bitmap returns `dataStart - 1` through unsigned
    wrap-around;
  - `freeData` compares absolute addresses with the bitmap size;
  - `freeInode` is off by one;
  - the 5th 104-byte dentry straddles a 512-byte block;
  - `write` ending exactly on a block boundary leaves the next write
    going to the unallocated `block[cur]` (0);
  - the open file table hands out fd 12 for every `open`, while `creat`
    counts up from `max_fd`;
  - the keyboard line has no bound.
- **Threads.** Spinlocks re-enable interrupts when released, even when
  they are nested. `thrCondWait` calls the scheduler loop on the waiter's
  own stack, and so never releases `thrque_lock`. The signal loops skip
  thread 0. The scheduler never resets counters, and it reuses a stale
  `t` (uninitialised at the first tick) when nothing is ready.
  `thr_scheduler` and `thr_current` are never assigned.
- **Memory.** `allocPage` (`brk`) and `sbrk` (`kmsize`) bump two
  pointers from the same start, so `kmalloc` returns the page directory.
  `freePage` stores through an uninitialised pointer. `vmalloc` drops
  the pages it allocates. `copypgt` swaps `map`'s arguments. The 32-bit
  sums in `rangemap` and `VTOP` wrap.

## 2. Modules

| Module | Models | Notes |
|---|---|---|
| `BlockCache.tla` | block cache and IDE read/write (`fs.c` 8-157, `ide.c` 146-217) | state is `bcache` (`next`, `prev`, `bhead`, `hnext`, `key`, `flags`, `buf` per slot), the disk, and two history variables: `held` (lookups a caller still holds) and `leaked` (lookups nobody will release: blocks written from a local struct, slots left by a failed read). The pointers are modelled as they are: the sentinel is the never-assigned `lruListHead`, i.e. NULL, so `Null` serves as both sentinel and chain end. |
| `BlockStore.tla` | what the cache promises (spec 4.1) | a read returns the current content; a write from a caller's own buffer replaces it; a failed read changes nothing. |
| `MCBlockCache.tla` | instance for TLC | model values for the slots; `Store`, the refinement mapping to `BlockStore`. |
| `DiskAlloc.tla` | `diskLayoutInit`, `allocInode` (bitmap part), `freeInode`, `allocData`, `freeData` (`fs.c` 223-252, 395-547) | the two bitmaps `ibmp`, `dbmp` as functions over `0 .. N` (the byte after the last unit is in the buffer and the off-by-one checks reach it); the superblock is constants. Three calls that pass the address of a local pointer are left out: `allocData`'s `relCachedBlock(&db)` (`fs.c` 518), and `blockWrite(&bb)`/`blockWrite(&db)`. The first writes a block's flags and links into the stack frames, at offsets the compiler chooses, and puts a stack address on the free list. |
| `FileSystem.tla` | `namei`, `split` (`util.c`), `getFileName`, `creat`, `mk`, `cd`, `rm`, `read`, `write`, `open`, `close`, `fsInit` (`fs.c` 593-1179) | extends `DiskAlloc`; see below. |
| `MCFileSystem.tla` | instance for TLC | the letters, the paths the callers pass, and the byte each descriptor writes. |
| `Shell.tla` | `kbdInterruptHandler`, `parseCmd` (`keyboard.c` 54-132) and `fileTest` (`fs.c` 1112-1150), composed with `FileSystem`'s `creat`, `mk`, `cd`, `write` and `read` | extends `FileSystem`; see below. |
| `MCShell.tla` | instance for TLC | the shell gives the file system its paths, so `Paths` is empty. |
| `Threads.tla` | `thrInit`, `thrCreate`/`thrAlloc`, `thrSched`, `thrYeild` (called by `handleInterrupt` on `IV_TIMER`), `thrExit`, `thrCondWait/Signal/Broadcast`, `thrMutexLock/Unlock`, `thrSemDown/Up` (`thread.c`), `spinlockLock/Unlock` (`concurrency.c`), and the threads of `mtxTest`, `cvTest`, `semTest` | see below. |
| `MCThreads.tla` | instance for TLC | which tests `kernelMain` may call. |
| `Memory.tla` | `kmemInit`, `allocPage`, `freePage`, `getpte`, `translate`, `map`, `rangemap`, `vmalloc`, `sbrk`/`kmalloc`, `copypgt` (`memory.c`), the macros of `memory.h` | see below. |
| `VirtMem.tla` | what the page directory promises | a map from virtual pages to frames; the kernel window at boot, then each map or rangemap call sets exactly the pages it names. |
| `MCMemory.tla` | instance for TLC | the addresses and sizes the callers pass. |

How the block cache's code maps to the model:

- `getCachedBlock` and `relCachedBlock` are operators that return the new
  cache and the slot. They are built from `ChainFind`/`ChainPred`, which
  are the two chain walks with their `&&` tests, and from
  `LruUnlink`/`LruPopHead`/`LruAppend`/`HashInsert`, which are the pointer
  assignments in the code's order.
- The actions are the callers' steps: `BlockRead` (`blockRead`),
  `BlockWriteLocal` (`blockWrite(&b)` with `b` on the stack, as in
  `writeSuperblock` and `diskLayoutInit`), `BlockWriteBack` (change a held
  buffer in place, then `blockWrite` it, as in `allocInode`, `freeInode`,
  `creat`, `mk` and `write`) and `Release` (`relCachedBlock`).
- `blockWrite` copies the caller's buffer into the slot and calls
  `hardWrite`, modelled as the write of the slot's buffer to the disk
  and the flag `B_VALID` (`hardWrite`); its port programming is left out.
- A NULL that `getCachedBlock` returns and `blockRead` dereferences is a
  `fault`, and so is a chain walk that does not terminate within the
  number of slots.
- NULL dereferences that only read memory (`blk->device` at the end of a
  walk) compare unequal. Low memory holds the BIOS interrupt vectors,
  never a small device and block pair.

`Next` describes callers that keep one lookup per block outstanding; this
is the discipline under which the cache is meant to work. `CodeNext` adds
`BlockWriteBack` and, with `RelookupHeld`, the re-lookups that `fs.c`
really performs.

The file system's model (`FileSystem.tla`):

- **Scaled bytes.** Directory and file contents are byte sequences, at a
  scaled size: a block holds `BSIZE` = 11 bytes and a dentry is 1 inode
  byte plus `NAMELEN` = 3 name bytes (the code's 512 and 4 + 100). The
  ratio is chosen so that, as in the code (the 5th 104-byte dentry spans
  bytes 416-519 of a 512-byte block), the third 4-byte dentry spans one
  block end and spills into the bytes after `buf`. `mem[b]` is the buffer
  of disk block `b` followed by `NAMELEN` bytes of the cache slot after
  `buf` (`lru_prev`/`lru_next`), initialised to `LinkByte`.
- **The block cache is taken as a store**: `mem[b]` is what any lookup
  of `b` sees. The code does not provide this store. `fs.c`'s callers
  look up blocks they still hold (`cache_relookup`), `hardReadWait`
  does not wait for the drive (`cache_read_not_ready`), and `allocData`
  releases a stack address. So a property of the file system that
  passed here would only be conditional, and the file-system runs look
  for violations only: a bug that shows on an ideal store is a bug of
  `fs.c` itself.
- **Inode cache.** `inode[x]` (`cached`, `type`, `size`, `block`) for
  every inode number. Allocated inodes always hit. Any other number
  misses, and the miss slot has `ino` 0 and, after the `I_NOTCACHE`
  reload, an all-zero `dinode` (`Rec`, `Resolve`). `block[NDATA]`, one
  past the array, reads `lru_prev`, a kernel address (`PastBlock`).
- **Actions.** One per handler: `creat`, `mk` (both through `MakeNode`,
  which appends the dentry at `DirAppendAt` and then allocates
  `block[0]`), `cd`, `rm`, `open`, `close`, `write` and `read`. The guards
  are the code's early returns (`WriteFits`, read's size check, allocInode
  failure), plus two model bounds: `maxFd < NOPENFILE` and
  `MaxDirBlocks`.
- **Undefined behaviour.** `rm` with no matching dentry uses the last
  dentry read, or an uninitialised `de` when none was read; the latter is
  any inode number (`\E garbage`).
- **History variables.** `stream[x]` is the bytes `creat`, `mk` and
  `write` appended to inode `x`, with `rm`'s zeroing applied. `readOk`
  records whether the last `read` returned the stream's bytes at its
  offsets.
- **Environments.**
  - `DirNext` is `creat`, `mk`, `cd`, and `rm` of a name present in the
    directory. In the repository the callers are `fileTest` (`creat`,
    `mk`) and the shell (`cd`, `mkdir`); `rm` has no caller, and the
    runs use the shell's composition (`Shell`) instead.
  - `DirAnyNext` also removes absent names.
  - `IONext` is `fileTest`'s use of descriptors: `creat`, then `write`,
    `read` and `close` on the returned fds. Each descriptor writes its
    own byte, `Payload(fd)`, so that files are told apart.
  - `OpenNext` adds `open`.

The thread model (`Threads.tla`):

- **One CPU, explicit stacks.** `cpu` is the stack executing; `pc[s]` is
  where each stack is. The code the threads run is a table `Code` from
  labels to steps, built from one fragment per C function
  (`SpinLockAt`, `CondWaitAt`, `MutexLockAt`, `SemDownAt`, ...). Each
  action interprets one kind of step. Statements that compile to a load
  and a store of a shared word (`count--`, `count++`, `idx++`, `--idx`)
  are two steps.
- **Never-assigned pointers.** `thr_scheduler` and `thr_current` are
  globals that no code assigns, so both are NULL. The model calls the
  struct at NULL `NULLThread`: `thrInit` builds the scheduler's frame
  there, and it is the first `thr_current` a timer tick sees.
- **The context switch.** `switch.s` (`ctxSwitch`, `thread_entry`,
  `trapret`) is not in the repository. `SwitchCtx` takes the meaning of
  the declarations in `thread.h`: save the running stack into `*old` and
  load `new`. A saved context is a suspension of a stack or the fresh
  frame `thrCreate` builds. `holder` records which struct's `ctx` holds
  a stack's live suspension. Loading a suspension that is stale, or
  that `thrExit` left, is recorded as a `fault`. Whether `thread_entry`
  sets IF is unknown, so a fresh thread starts with IF either unchanged
  or set.
- **Interrupts.** `thrYeild` is the timer tick. It may occur between any
  two steps while `intr` (EFLAGS.IF) is set; the interrupt gate clears
  IF, and `IntrReturn`'s iret restores it. `spinlockLock` is `cli`
  followed by the `xchg` loop. A loop on a held lock with IF clear never
  ends on one CPU, so the model has no step for it: that state is the
  hang `NoSpinHang` reports.
- **Scheduler details.**
  - `thrSched`'s local `t` (`tsel`) keeps its value across passes of
    its loop and is unset in a new frame.
  - `thrCondWait` calls `thrSched` on the waiter's own stack and never
    returns.
  - One pass of `thrSched`'s loop (the scan, `thr_current = t`, the
    status and the switch) is one step. Inside `thrCondWait` the pass
    can run with IF set after `spinlockUnlock`'s `sti`, so a tick could
    split it; no property here depends on that.
  - Counters are never reset, so the model keeps them at 0 once they
    reach it: `thrSched` compares them with `maxp >= 0`, so every value
    at or below 0 behaves the same.
- **printf.** The tests' `printf` calls are one step each (`Printf`):
  `spinlockLock(&cslLock)` clears IF and its `xchg` never spins, since
  the holder runs with IF clear and never switches; the output is left
  out; `spinlockUnlock`'s `sti` leaves IF set, even inside `gfunc1`'s
  `gtLock` section.
- **Fairness (`FairSpec`).** The CPU always executes the next
  instruction of the stack it is on: weak fairness on any step. The PIT
  raises IRQ0 periodically, and the tick is taken whenever IF is set
  when it arrives; `spinlockLock` and `spinlockUnlock` clear and set IF
  again and again, so the tick is only intermittently enabled, and it
  gets strong fairness. The PIT period is far longer than `thrYeild`,
  `thrSched` and the iret, so between two ticks the interrupted code
  runs at least one instruction: a step of a thread's own code
  (`ThreadCodeStep`) is strongly fair too. Without that, a behaviour in
  which every tick comes right after an iret would starve every thread,
  which the hardware cannot do. Keys, calls and the choice of test are
  not fair: they are the environment.

The shell (`Shell.tla`):

- **Who calls the file system.** `fsInit` ends with `fileTest`:
  - three `creat`s and a `mk`;
  - `ls`;
  - a `write` and a `read` of fd 0.

  `fileTest` is the action `fileTest`, a fixed prefix of seven calls
  counted by `ft`. After it, `kernelMain` initialises the keyboard, and
  the only caller of `ls`, `cd` and `mk` is `kbdInterruptHandler`. The
  handler runs through an interrupt gate, once per key, and one key is
  one atomic step. That is an abstraction: the handler calls `getPos`,
  `setPos` and `putc`/`printf` after the EOI, and their
  `spinlockUnlock` ends in `sti`, so a second key could nest inside it;
  the nesting is a hazard, not modelled. No thread is created.
- **State.** `line`, `cmd` and `arg` are the `char[50]` arrays, scaled
  to `LINELEN` bytes and indexed from 0 as in C. `pos` is the line
  index. Two history variables serve the properties: `shown` is the line
  as echoed (`putc`, and `'\b'` erasing the last character), and `last`
  is the typed line, `cmd` and `arg` of the last `parseCmd`.
- **Actions.** One action per class of make code:
  - a stored key (a-z, 0-9, blank);
  - `'\b'`;
  - `'\n'`, which runs `parseCmd` and the `strcmp` dispatch.

  `parseCmd`'s two loops are the `RECURSIVE` operators `SkipBlank` and
  `CopyLoop`. `ls` only reads and prints, so it and "command not found"
  leave the state alone. `mk`'s NULL `allocInode` early return is
  `mkCall`.
- **Data abstraction.** The words `ls`, `cd` and `mkdir` are each one
  byte. The instance stores only the `cd` and `mkdir` bytes and the
  blank, and those bytes are also the letters of names: `m c` is
  `mkdir c`. A multi-byte command word such as `cc` is "not found",
  which leaves the same state as `ls`.
- **Faults.** A write or read outside `line[]` stops the model with
  `kfault`, because where `cmd`, `arg` and `pos` lie next to it is the
  linker's choice. One `'\b'` below 0 is allowed: `PosFloor` = -1, since
  the next key already writes out of bounds.

The memory model (`Memory.tla`):

- **Scaled layout.** Physical memory is a function from words to 32-bit
  values, at a scaled size: 256-byte addresses, 16-byte pages, and 4
  entries per table, so a table fills a page as 1024 entries of 4 bytes
  fill 4096. The masks and shifts of `memory.h` are the equivalent
  arithmetic on these powers of two. Flags are OR-ed with `Bitwise`'s
  `|`.
- **Paging is never enabled.** `pgenable` is not called, so every
  pointer the code follows is physical. The page directory and tables
  really live in `mem`, and `getpte` walks them.
- **Functions and actions.** The functions are operators over a record
  of the allocator state, and the loops of `rangemap`, `vmalloc` and
  `copypgt` are `RECURSIVE`. Each action is one call by a kernel caller:
  `kmemInit` once, then `allocPage`, `map`, `rangemap`, `sbrk`,
  `copypgt` and `freePage`. `freePage` stores through an uninitialised
  pointer, and is a `fault`.
- **History and refinement.** `call` records the arguments of the last
  map request. The refinement mapping reads every virtual page's frame
  with `getpte`, not `translate`, because `translate` returns 0 both for
  an unmapped page and for `PTOV(0)`.

## 3. Runs

| Run | Spec | Checks | Result |
|---|---|---|---|
| `cache_disciplined` | `Spec` | `TypeOK`, `FreeListWellFormed`, `HeldSlotsExclusive` | pass: 210,571 states, depth 20 |
| `cache_relookup` | `CodeSpec`, `RelookupHeld` | `HeldSlotsExclusive` | violated in 4 steps: read 1, read 2, read 1 |
| `cache_read_not_ready` | `Spec`, reads `ok` or `early` | `CacheRefinesStore` (spec 5) | violated in 1 step: a read of block 1 while the drive is busy |
| `fs_dentry_overruns_buffer` | `ShellSpec` | `SlotLinksIntact` | violated by the first `mkdir` typed at the shell, after `fileTest` |
| `fs_write_block_boundary` | `IOSpec`, writes of 11 bytes | `ReadReturnsWritten` (spec 8) | violated: two files each write a full block, then both write block 0 |
| `fs_lookup_plain_name` | `ShellSpec` | `NameLookupResolves` (spec 8) | violated by `fileTest`'s first `creat` |
| `threads_primitives` | `FairSpec`, tests none/mtx/cv/sem | `TypeOK`, `MutexExclusive`, `CurrentIsRunning`, `SliceServed` | pass: 39,152 states |
| `threads_round_robin` | `FairSpec`, `semTest` | `EveryReadyThreadRuns` | violated: once both counters are 0 the consumer spins in `thrSemDown` while the producer stays READY |
| `threads_mutex_wait_hang` | `Spec`, `mtxTest` | `NoSpinHang` | violated: the second waiter on `gm` spins on `thrque_lock` with IF clear |
| `memory_kernel_map` | `Spec` | `TypeOK`, `VMRefinement` | pass: 3,714 states, depth 8 |
| `shell_commands` | `ShellSpec` | `ParsedAsTyped` | pass: 1,226,502 states, depth 36 |
| `shell_line_bounds` | `ShellSpec` | `LineInBounds` | violated in 2 keys: a blank, then Enter |

Questions asked of the code in earlier versions of this project are now
hazards in `PROJECT.json`, with the configuration that shows them. Their
properties (`IdempotentHit`, `NoHang`, `NoNullDeref`, `NoDanglingEntry`,
`NoLeakedData`) stay in the modules:

- a repeated lookup behind another entry of its bucket;
- a retry after a read error;
- two devices whose blocks alias in the hash;
- `rm` of an absent name;
- `rm` leaking every data unit (`NoLeakedData`, spec 4; violated by
  `creat` then `rm`);
- `getCachedBlock`'s NULL when no slot is free (`NoNullDeref`).

Two passing runs of the file system on its own, `fs_directories`
(`StreamsStored`, `NoDanglingEntry`) and `fs_file_io`
(`ReadReturnsWritten`), were retired. They passed only on the ideal
store, and on an `allocData` without its `relCachedBlock(&db)`.

Bounds of `cache_disciplined`:

- 3 slots, blocks {1,2,3}, 2 buckets and 2 values. Reads report no
  error, and either find the sector ready or read the data port while
  the drive is busy (`early`, bytes of no block). Blocks 1 and 3 share a
  chain, so chain walks of length 2, stale chain entries, and misses that
  pop a slot still linked into another chain all occur.
- There are as many slots as blocks, so the free list empties (every
  block held) without exhaustion. With fewer slots than outstanding
  blocks, `getCachedBlock` returns NULL and `blockRead` dereferences it;
  that is a hazard, and no run checks `NoNullDeref`.
- Local writes go to block 1 only (`LocalBlocks`), the superblock's role.
  A local write leaks its slot forever, and with all blocks written the
  disciplined callers could do nothing more.
- One device, as in the kernel (`haveDisk1` is commented out).

Every action and disjunct of `Next` fires, and the depth is 22.

What the cache and file-system violations show:

- **`cache_read_not_ready`.** In `hardReadWait`, `==` binds tighter than
  `&`, so the wait loop's condition is `(state & 1) && (state & 1) != 1`
  and is never true. `insl` reads the data port right after the READ
  command. Spec section 5 says a read blocks until the drive reports
  completion. Under the callers' discipline, the first `blockRead` can
  hand its caller a buffer that is marked valid but holds bytes of no
  block, so the cache no longer implements `BlockStore`.
- **`fs_lookup_plain_name`.** `split` keeps a term only when a `/`
  follows it, so `namei` of a plain name returns the working directory.
  `fileTest`'s first `creat("orcas0")` already leaves root listing a
  name that resolves to root itself (spec section 8). Through the shell,
  `cd` of any typed name is a no-op.

Behaviours seen while modelling that no run checks yet (see the
hazards):

- `ls` lists a slot read from `block[1]`, which is disk block 0, once the
  dentries straddle a block end.
- `cd("/")` is refused, because `fsInit` never gives root the type
  `I_DIR`.
- `open` always returns fd 12. `open` of a plain name opens the working
  directory, and writes through that fd corrupt its dentries.

What the shell runs show:

- **`shell_commands`.** The keys are every stored byte, backspace and
  Enter, in any order. When the echoed line is one word, or two words
  with one blank and none around them, `cmd` and `arg` hold exactly
  those words (`ParsedAsTyped`). That holds after backspaces, which leave
  stale bytes behind `pos`, and after earlier lines that left stale
  bytes in all three arrays. Bounds:
  - `LINELEN` = 4 holds `c m` and its terminator, and lets a fourth key
    reach the end of the array.
  - The file system keeps the real ratio of dentry to block: 4 dentries
    fit in a block and the 5th straddles its end (104 and 512 bytes,
    scaled to 3 and 14). Names are at most 2 bytes.
  - There are 6 inodes: root, `fileTest`'s four, and one for the shell.
    After that, `mkdir` takes the NULL `allocInode` path.

  `CHECK_DEADLOCK` is off because the model stops at a fault.
- **`fs_dentry_overruns_buffer`.** `fileTest` leaves root with 4
  dentries. The first `mkdir` typed at the prompt then appends the 5th,
  which is copied past `buf` into the slot's `lru_prev`/`lru_next`.
- **`shell_line_bounds`.** The handler leaves `line[]`
  (`LineInBounds`). The shortest case is a blank, then Enter: the
  jump-blank loop skips `'\0'` too, so it runs off the end of the
  array. A backspace on an empty line followed by a key writes
  `line[-1]`, and a key at `pos` = `LINELEN` writes past the end; both
  reach the same fault.

`ArgFromLine` (spec 2, "cd <path>, mkdir <name>") is defined in
`Shell.tla` but not run. TLC violates it under `MCShell.cfg`: `cd` with
two blanks leaves `arg` = `" "`, and a later `cd` alone runs
`cd(" ")`. `arg` is never cleared.

What the thread and memory runs show:

- **`threads_primitives`.** gm is never held by two threads
  (`MutexExclusive`). This holds even though a woken waiter restarts
  from the top of its thread, and the timer preempts between any two
  steps while IF is set. Whenever a thread's code runs, `thr_current` is
  that thread (`CurrentIsRunning`). Bounds: 2 slots, a time slice of 2
  ticks, loops of 2 iterations, and a one-slot buffer. These bounds give
  two threads contending for each lock, counters that run out, exits,
  and every action. With a two-slot buffer and three iterations,
  `producer`'s unsynchronised `idx++` loses `consumer`'s `--idx` and the
  next `slot[idx] = 1` writes past the array. That is a hazard in the
  test code; no run checks it.
  Under `FairSpec`, a thread that is READY with some of its slice left
  is eventually scheduled (`SliceServed`): the tick keeps charging the
  running thread, so the one with the larger counter is picked.
  `CHECK_DEADLOCK` is off because the model stops at a fault or a hang.
- **`threads_round_robin`.** `thread.h` calls `thrSched` round robin,
  but no code refills `counter`. In `semTest`, once both slices are
  spent no slot passes `counter > maxp`, `thrSched` keeps the `t` of its
  last pass, and the consumer, sleeping and being woken again inside
  `thrSemDown`, is picked on every tick while the producer that could
  up the semaphore stays READY (`EveryReadyThreadRuns`).
  `SchedulerFindsThread`, the uninitialised `t` when no test is called
  and the first tick finds no READY thread, is still defined in
  `Threads.tla`; its run gave way to this one, because it depends on
  what the loader does after `kernelMain` returns, which is not in the
  repository.
- **`threads_mutex_wait_hang`.** The first waiter's `thrCondWait` never
  releases `thrque_lock`, so the next waiter hangs the CPU.
- **`memory_kernel_map`.** `kmemInit` maps exactly the kernel window. The
  page tables it and later `map` calls allocate never overlap a mapping,
  and `allocPage`, `sbrk`/`kmalloc`, `vmalloc` and `copypgt` never
  disturb a translation. Bounds:
  - the window is 8 pages over 2 directory entries;
  - callers map physical pages 0 and 96 at virtual 16 (a new table) and
    80 (inside the window);
  - `rangemap` maps 1 or 2 pages, and `sbrk` is called with 24 bytes;
  - allocation stops at `MAXBRK` = 112, three pages above what
    `kmemInit` uses.

  The refinement holds only because no caller writes memory `kmalloc`
  returned. `kmsize` starts at the page `kmemInit` then gives `kpgdir`,
  so `kmalloc` returns the page directory. That is a hazard.

The mutants in `PROJECT.json` break each property of the passing runs
with a one-line change to the code's model:

- `hardWrite` leaves the slot marked `B_DIRTY` instead of `B_VALID`
  (`blockWrite_MarkDirty`);
- `relCachedBlock` appends without moving the sentinel's `lru_prev` to
  the new tail (`LruAppend_KeepSentinelPrev`);
- a hit does not unlink the slot from the free list
  (`getCachedBlock_NoUnlink`);
- `thrYeild` increments the counter (`thrYeild_CounterUp`);
- `thrYeild` does not charge the tick (`thrYeild_NoCharge`): the running
  thread keeps the larger counter and a READY one is never picked;
- `thrMutexLock` drops its wait loop (`MutexTest_NoWait`);
- `thrSched` does not set `thr_current` (`thrSched_NoCurrent`);
- `kmemInit` does not round the heap start (`kmemInit_NoRound`);
- `map` writes the pte at the directory index (`map_PgdIndex`);
- `parseCmd` does not step over the blank, so the blank is copied into
  `arg` (`ParseStep_KeepBlank`).

## 4. Plan

Done: `BlockCache`/`BlockStore`, `DiskAlloc`, `FileSystem`, `Threads`,
`Memory`/`VirtMem`, `Shell`. Still to come:

1. `FileSystem`:
   - composed with `BlockCache` instead of the ideal store, so that its
     passing properties no longer rest on it;
   - the data bitmap as bytes of `mem`;
   - `open` and `ls` runs;
   - an abstract directory specification.
2. `InodeCache`: the inode cache's free list and chains, as in
   `BlockCache`.
3. Liveness for `Threads` is done for scheduling (`SliceServed`,
   `EveryReadyThreadRuns`). Eventual wake-up of a condition-variable
   waiter adds nothing while every such behaviour ends in the
   `thrque_lock` hang or the counter livelock.
4. Nested keyboard interrupts in `Shell`: a key between the steps of
   the handler, after `getPos`'s or `printf`'s `sti`.

## 5. Not modelled

- Port I/O, the PIC, the PIT, GDT/IDT setup and the console's screen
  (only `printf`'s lock and `sti` are in `Threads`). These only
  program hardware registers; none of them has a state machine a
  property could talk about. The PIT is running (at the BIOS rate)
  before `timerDriverInit`, which is why the timer may tick as soon as
  `thrInit`'s `sti` runs.
- `switchpgt`, `pgenable`, `vmfree` and `kfree`. Paging is never
  enabled, nothing calls them, and the last two are empty. The value
  `kmemInit` loads into cr3 (`VTOP` of a physical address, wrapped) is
  kept in `cr3` but nothing reads it.
- `kbdDriverInit` and `getc` (port I/O; the key is a nondeterministic
  choice), and `gets`, which nothing calls.
- `thrKill`, `thrJoin`, `thrTest`/`func`: nothing calls them.
- `waitloops` (a delay loop with no effect on state), and the screen
  position: `putc`'s wrap at `col > CSL_WIDTH` writes column 80, and a
  backspace at column 0 calls `setPos(x, -1)`; both are hazards.
- Nested keyboard interrupts (see the Shell model above).
- `ideInterruptHandler`, `ideQueue` and `hardTest` are empty or test
  code.
- In `BlockCache`, buffer contents are values. `FileSystem` keeps bytes,
  at the scaled sizes above. Printing (`ls`'s output, `cat`, `eof`) and
  `cwd_name` are left out.
- The inode cache's lists (`FileSystem` uses its observable behaviour),
  the `flag`, `access`, `device` and time fields, and the file modes.
