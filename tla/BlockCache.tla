----------------------------- MODULE BlockCache -----------------------------
(***************************************************************************)
(* The block buffer cache of src/fs.c (blockCacheInit, getCachedBlock,     *)
(* relCachedBlock, blockRead, blockWrite) over the synchronous IDE driver  *)
(* of src/ide.c (hardReadWait, hardWrite).                                 *)
(*                                                                         *)
(* The cache is modelled at the level of its pointers, because that is     *)
(* where its behaviour lives:                                              *)
(*   - the free ("LRU") list is a circular doubly linked list through      *)
(*     lru_next/lru_prev.  Its sentinel is bcache.lruListHead, a pointer   *)
(*     that is never assigned, so the sentinel is the node at address 0:   *)
(*     NULL.  The model therefore uses the single value Null both for the  *)
(*     sentinel and for the end of a hash chain, exactly as the code does. *)
(*   - each hash bucket bcache.blkHash[i] is a chain through hash_next;    *)
(*     hash_prev is written but never read anywhere, so it is omitted, as  *)
(*     is lruCnt (reset on a miss, never read).                            *)
(* A buffer's content is abstracted to <<block it holds, value>>.          *)
(*                                                                         *)
(* The callers of the cache are the environment: they look blocks up       *)
(* (blockRead), write them (blockWrite from a local struct, or from a      *)
(* buffer they hold) and release what they hold (relCachedBlock).  The     *)
(* history variables held and leaked record the outstanding lookups; the   *)
(* code keeps no such record.                                              *)
(***************************************************************************)
EXTENDS Integers, FiniteSets

CONSTANTS
  Slots,         \* bcache.buf[]: the BCACHE_SIZE buffer slots
  Null,          \* NULL: end of a hash chain and the free-list sentinel
  Devices,       \* device numbers
  Blocks,        \* block numbers
  NBuckets,      \* BLK_HASH_SIZE
  Vals,          \* abstract block contents
  LocalBlocks,   \* blocks callers write from a struct on their stack
  ReadResults,   \* hardReadWait's outcomes: "ok", "early", "err"
  RelookupHeld   \* may a caller look up a block it has not released

ASSUME Null \notin Slots
ASSUME NBuckets \in Nat \ {0}
ASSUME ReadResults \subseteq {"ok", "early", "err"}
ASSUME RelookupHeld \in BOOLEAN
ASSUME LocalBlocks \subseteq Blocks

VARIABLES
  bcache,   \* struct block_cache plus the per-slot fields of struct block
  disk,     \* the device: block -> content
  held,     \* lookups returned to a caller and not released: [slot, key]
  leaked,   \* lookups nobody can release: [slot, key, why]
  fault     \* "none", or the undefined behaviour the kernel ran into

vars == <<bcache, disk, held, leaked, fault>>

Keys == Devices \X Blocks
NoKey == <<-1, -1>>                 \* device = block = -1 (blockCacheInit)
Buckets == 0 .. NBuckets - 1
Nodes == Slots \cup {Null}
Garbage == <<NoKey, 0>>             \* bytes not read from any block
Data == (Keys \X Vals) \cup {Garbage}
Hang == "hang"                      \* a chain walk that never terminates

\* BLKHASH(dev, blk): the device is not part of the key; SECSIZE / BSIZE = 1.
BLKHASH(k) == k[2] % NBuckets

(***************************************************************************)
(* blockCacheInit: every slot is pushed at the front of the free list, so  *)
(* the list runs from buf[N-1] down to buf[0], then back to the sentinel.  *)
(* Slots are model values, so any order of them is an order the code      *)
(* produces; the model takes the one CHOOSE fixes.                         *)
(***************************************************************************)
InitOrder == CHOOSE f \in [1 .. Cardinality(Slots) -> Slots] :
               \A i, j \in DOMAIN f : i # j => f[i] # f[j]
Pos(s) == CHOOSE i \in DOMAIN InitOrder : InitOrder[i] = s
N == Cardinality(Slots)

blockCacheInit ==
  [ next  |-> [n \in Nodes |-> IF n = Null THEN InitOrder[1]
                               ELSE IF Pos(n) = N THEN Null
                               ELSE InitOrder[Pos(n) + 1]],
    prev  |-> [n \in Nodes |-> IF n = Null THEN InitOrder[N]
                               ELSE IF Pos(n) = 1 THEN Null
                               ELSE InitOrder[Pos(n) - 1]],
    bhead |-> [b \in Buckets |-> Null],
    hnext |-> [s \in Slots |-> Null],
    key   |-> [s \in Slots |-> NoKey],
    flags |-> [s \in Slots |-> "UNUSED"],
    buf   |-> [s \in Slots |-> Garbage] ]

(***************************************************************************)
(* List surgery, each as the code writes it, in the code's order.          *)
(***************************************************************************)
\* Unlink s from the free list through its own (possibly stale) links.
LruUnlink(c, s) ==
  [c EXCEPT !.next[c.prev[s]] = c.next[s],
            !.prev[c.next[s]] = c.prev[s]]

\* Take the slot after the sentinel.
LruPopHead(c) ==
  LET s == c.next[Null] IN
  [c EXCEPT !.next[Null] = c.next[s], !.prev[c.next[s]] = Null]

\* Faulty variant: the sentinel's lru_prev is not moved to the new tail.
LruAppend_KeepSentinelPrev(c, s) ==
  LET t == c.prev[Null] IN
  [c EXCEPT !.next[t] = s, !.prev[s] = t, !.next[s] = Null]

\* Append s at the tail, before the sentinel.
LruAppend(c, s) ==
  LET t == c.prev[Null] IN
  [c EXCEPT !.next[t] = s, !.prev[s] = t, !.prev[Null] = s, !.next[s] = Null]

\* Re-key s and push it at the front of its bucket.
HashInsert(c, s, k) ==
  [c EXCEPT !.key[s] = k,
            !.hnext[s] = c.bhead[BLKHASH(k)],
            !.bhead[BLKHASH(k)] = s]

\* The walk of getCachedBlock: it advances only while the entry differs
\* from k in BOTH device and block, so it stops at the first entry that
\* shares either with k.  More than N steps means the chain has a cycle.
RECURSIVE ChainFind(_, _, _, _)
ChainFind(c, n, k, fuel) ==
  IF n = Null THEN Null
  ELSE IF fuel = 0 THEN Hang
  ELSE IF c.key[n][1] # k[1] /\ c.key[n][2] # k[2]
       THEN ChainFind(c, c.hnext[n], k, fuel - 1)
       ELSE n

\* The walk of relCachedBlock: it starts at the first entry (not at the
\* bucket) and looks at the successor of p with the same test.
RECURSIVE ChainPred(_, _, _, _)
ChainPred(c, p, k, fuel) ==
  LET q == c.hnext[p] IN
  IF q = Null THEN p
  ELSE IF fuel = 0 THEN Hang
  ELSE IF c.key[q][1] # k[1] /\ c.key[q][2] # k[2]
       THEN ChainPred(c, q, k, fuel - 1)
       ELSE p

\* Faulty variant: a hit is handed out without unlinking it from the free list.
getCachedBlock_NoUnlink(c, k) ==
  LET b == BLKHASH(k)
      e == IF c.bhead[b] = Null THEN Null ELSE ChainFind(c, c.bhead[b], k, N)
      s == c.next[Null]
  IN  IF e = Hang THEN [ret |-> Hang, c |-> c]
      ELSE IF e # Null /\ c.key[e] = k
           THEN [ret |-> e, c |-> [c EXCEPT !.flags[e] = "VALID"]]
      ELSE IF s = Null THEN [ret |-> Null, c |-> c]
      ELSE [ret |-> s, c |-> HashInsert(LruPopHead(c), s, k)]

(***************************************************************************)
(* getCachedBlock(device, block): returns [ret, c], ret a slot, Null (no   *)
(* free buffer) or Hang.  When the walk ends at NULL the code still reads  *)
(* blk->device and blk->block: those are bytes 4..11 of physical memory    *)
(* (the BIOS interrupt vectors), never a small device and block number,    *)
(* so the test fails and the miss path runs.                               *)
(***************************************************************************)
getCachedBlock(c, k) ==
  LET b == BLKHASH(k)
      e == IF c.bhead[b] = Null THEN Null ELSE ChainFind(c, c.bhead[b], k, N)
      s == c.next[Null]
  IN  IF e = Hang THEN [ret |-> Hang, c |-> c]
      ELSE IF e # Null /\ c.key[e] = k
           THEN [ret |-> e, c |-> [LruUnlink(c, e) EXCEPT !.flags[e] = "VALID"]]
      ELSE IF s = Null THEN [ret |-> Null, c |-> c]
      ELSE [ret |-> s, c |-> HashInsert(LruPopHead(c), s, k)]

(***************************************************************************)
(* relCachedBlock(blk): unlink the successor of p when it has blk's key    *)
(* (the first entry of the chain is never unlinked), clear blk's hash      *)
(* link, mark it unused and append it to the free list.                    *)
(***************************************************************************)
relCachedBlock(c, s) ==
  LET k == c.key[s]
      p == IF c.bhead[BLKHASH(k)] = Null THEN Null
           ELSE ChainPred(c, c.bhead[BLKHASH(k)], k, N)
      unlinked == IF p \in Slots /\ c.hnext[p] # Null /\ c.key[c.hnext[p]] = k
                  THEN [c EXCEPT !.hnext[p] = c.hnext[s]]
                  ELSE c
  IN  IF p = Hang THEN [ret |-> Hang, c |-> c]
      ELSE [ret |-> Null,
            c |-> LruAppend([unlinked EXCEPT !.hnext[s] = Null,
                                             !.flags[s] = "UNUSED"], s)]

\* hardReadWait(blk) with outcome r.  The wait loop's condition parses as
\* (state & 1) && (state & 1) != 1 (== binds tighter than &), which is never
\* true, so the status port is read once, right after the command.  If
\* that status shows ERR nothing is copied ("err"); otherwise insl reads
\* the data port at once, and the buffer, marked valid, holds the sector if
\* the drive already had it ("ok") or bytes of no block if it was still
\* busy ("early").
hardReadWait(c, s, r) ==
  CASE r = "ok"    -> [c EXCEPT !.buf[s] = <<c.key[s], disk[c.key[s]]>>, !.flags[s] = "VALID"]
    [] r = "early" -> [c EXCEPT !.buf[s] = Garbage, !.flags[s] = "VALID"]
    [] r = "err"   -> c

(***************************************************************************)
(* The discipline the callers keep: unless RelookupHeld, a block is not    *)
(* looked up while the caller holds it or after it wrote it from a local   *)
(* buffer (those lookups are never released).  A failed read returned      *)
(* NULL, so the caller does not know it left a lookup behind.              *)
(***************************************************************************)
MayLookUp(k) ==
  \/ RelookupHeld
  \/ k \notin {h.key : h \in held} \cup {l.key : l \in {x \in leaked : x.why = "write"}}

Ready == fault = "none"

Crash(f) == /\ fault' = f
            /\ UNCHANGED <<bcache, disk, held, leaked>>

Init ==
  /\ bcache = blockCacheInit
  /\ disk = [k \in Keys |-> CHOOSE v \in Vals : TRUE]
  /\ held = {}
  /\ leaked = {}
  /\ fault = "none"

(***************************************************************************)
(* blockRead(device, block).  A NULL from getCachedBlock is dereferenced   *)
(* (blk->flags), then hardReadWait(NULL) copies a sector over low memory.  *)
(***************************************************************************)
BlockRead(k) ==
  LET g == getCachedBlock(bcache, k)
      s == g.ret
  IN  /\ Ready
      /\ MayLookUp(k)
      /\ \/ /\ s = Null
            /\ Crash("nullDeref")
         \/ /\ s = Hang
            /\ Crash("hang")
         \/ /\ s \in Slots
            /\ g.c.flags[s] = "VALID"
            /\ bcache' = g.c
            /\ held' = held \cup {[slot |-> s, key |-> k]}
            /\ UNCHANGED <<disk, leaked, fault>>
         \/ /\ s \in Slots
            /\ g.c.flags[s] # "VALID"
            /\ \E r \in ReadResults :
                 /\ bcache' = hardReadWait(g.c, s, r)
                 /\ IF r = "err"
                    THEN /\ leaked' = leaked \cup {[slot |-> s, key |-> k, why |-> "readerr"]}
                         /\ UNCHANGED held
                    ELSE /\ held' = held \cup {[slot |-> s, key |-> k]}
                         /\ UNCHANGED leaked
            /\ UNCHANGED <<disk, fault>>

\* hardWrite(blk): program the LBA of blk's (device, block), issue the PIO
\* write and outsl the buffer, with no status check before or after (the
\* drive is taken to accept the sector); blk->flags = B_VALID; return 0.
\* [c, disk] after the write.
hardWrite(c, s) ==
  [c |-> [c EXCEPT !.flags[s] = "VALID"],
   disk |-> [disk EXCEPT ![c.key[s]] = c.buf[s][2]]]

\* Faulty variant: hardWrite leaves the slot marked B_DIRTY.
blockWrite_MarkDirty(c, k, d) ==
  LET g == getCachedBlock(c, k) IN
  IF g.ret \in Slots
  THEN [ret |-> g.ret, c |-> [g.c EXCEPT !.buf[g.ret] = d, !.flags[g.ret] = "DIRTY"],
        disk |-> [disk EXCEPT ![k] = d[2]]]
  ELSE [ret |-> g.ret, c |-> g.c, disk |-> disk]

(***************************************************************************)
(* blockWrite(blk): look up blk's (device, block), copy blk->buf into that *)
(* slot, and hardWrite it.  [ret, c, disk]; the slot stays checked out.    *)
(***************************************************************************)
blockWrite(c, k, d) ==
  LET g == getCachedBlock(c, k) IN
  IF g.ret \in Slots
  THEN LET h == hardWrite([g.c EXCEPT !.buf[g.ret] = d], g.ret)
       IN  [ret |-> g.ret, c |-> h.c, disk |-> h.disk]
  ELSE [ret |-> g.ret, c |-> g.c, disk |-> disk]

\* blockWrite(&b) with b a struct block on the caller's stack.
BlockWriteLocal(k, v) ==
  LET w == blockWrite(bcache, k, <<k, v>>)
      s == w.ret
  IN  /\ Ready
      /\ MayLookUp(k)
      /\ \/ /\ s = Null
            /\ Crash("nullDeref")
         \/ /\ s = Hang
            /\ Crash("hang")
         \/ /\ s \in Slots
            /\ bcache' = w.c
            /\ disk' = w.disk
            /\ leaked' = leaked \cup {[slot |-> s, key |-> k, why |-> "write"]}
            /\ UNCHANGED <<held, fault>>

\* db = blockRead(..); db->buf[..] = ..; blockWrite(db): the caller changes
\* the buffer it holds in place, then blockWrite looks up db's own
\* (device, block) again.
BlockWriteBack(h, v) ==
  LET c0 == [bcache EXCEPT !.buf[h.slot] = <<h.key, v>>]
      k  == c0.key[h.slot]
      w  == blockWrite(c0, k, c0.buf[h.slot])
      s  == w.ret
  IN  /\ Ready
      /\ h \in held
      /\ \/ /\ s = Null
            /\ Crash("nullDeref")
         \/ /\ s = Hang
            /\ Crash("hang")
         \/ /\ s \in Slots
            /\ bcache' = w.c
            /\ disk' = w.disk
            /\ leaked' = IF s = h.slot THEN leaked
                         ELSE leaked \cup {[slot |-> s, key |-> k, why |-> "write"]}
            /\ UNCHANGED <<held, fault>>

\* relCachedBlock(blk) on a buffer the caller holds and nobody else holds
\* (releasing a buffer still in use is undefined, spec section 4.1).
Release(h) ==
  LET r == relCachedBlock(bcache, h.slot) IN
  /\ Ready
  /\ h \in held
  /\ \A o \in held \ {h} : o.slot # h.slot
  /\ \/ /\ r.ret = Hang
        /\ Crash("hang")
     \/ /\ r.ret = Null
        /\ bcache' = r.c
        /\ held' = held \ {h}
        /\ UNCHANGED <<disk, leaked, fault>>

\* Callers that keep one outstanding lookup per block.
Next ==
  \/ \E k \in Keys : BlockRead(k)
  \/ \E k \in Devices \X LocalBlocks, v \in Vals : BlockWriteLocal(k, v)
  \/ \E h \in held : Release(h)

Spec == Init /\ [][Next]_vars

\* The callers fs.c has: allocInode, freeInode, creat, mk and write read a
\* block, change it in place and blockWrite the buffer they hold.
CodeNext ==
  \/ Next
  \/ \E h \in held, v \in Vals : BlockWriteBack(h, v)

CodeSpec == Init /\ [][CodeNext]_vars

(***************************************************************************)
(* Properties.                                                             *)
(***************************************************************************)
TypeOK ==
  /\ bcache \in [next : [Nodes -> Nodes], prev : [Nodes -> Nodes],
                 bhead : [Buckets -> Nodes], hnext : [Slots -> Nodes],
                 key : [Slots -> Keys \cup {NoKey}],
                 flags : [Slots -> {"UNUSED", "VALID"}],
                 buf : [Slots -> Data]]
  /\ disk \in [Keys -> Vals]
  /\ held \subseteq [slot : Slots, key : Keys]
  /\ leaked \subseteq [slot : Slots, key : Keys, why : {"write", "readerr"}]
  /\ fault \in {"none", "nullDeref", "hang"}

\* The free list: the nodes reached from the sentinel through lru_next.
RECURSIVE FreeFrom(_, _)
FreeFrom(n, fuel) ==
  IF n = Null \/ fuel = 0 THEN {} ELSE {n} \cup FreeFrom(bcache.next[n], fuel - 1)
FreeSet == FreeFrom(bcache.next[Null], N)

\* The length of the lru_next walk from the sentinel back to it (N+1 if it
\* does not come back within N slots).
RECURSIVE WalkLen(_, _)
WalkLen(n, i) == IF n = Null \/ i > N THEN i ELSE WalkLen(bcache.next[n], i + 1)

(* The free list that getCachedBlock pops and relCachedBlock appends to    *)
(* stays a circular doubly linked list through the sentinel: lru_next      *)
(* leads back to the sentinel through distinct slots and lru_prev mirrors  *)
(* it, so a pop or an unlink never splices in a slot from elsewhere.      *)
FreeListWellFormed ==
  /\ WalkLen(bcache.next[Null], 0) = Cardinality(FreeSet)
  /\ \A n \in FreeSet \cup {Null} : bcache.prev[bcache.next[n]] = n

(* A buffer getCachedBlock handed to a caller who has not released it is   *)
(* never on the free list, so no later miss can re-key it, and it still    *)
(* holds the block the caller asked for.                                   *)
HeldSlotsExclusive ==
  \A h \in held : h.slot \notin FreeSet /\ bcache.key[h.slot] = h.key

(* blockRead and blockWrite never dereference the NULL that                *)
(* getCachedBlock returns when no buffer is free (spec: CacheExhausted).   *)
NoNullDeref == fault # "nullDeref"

(* Every walk getCachedBlock and relCachedBlock make along a hash chain    *)
(* ends: the chains never close into a cycle the walk goes round forever.  *)
NoHang == fault # "hang"

(* Spec section 8: two lookups of the same block that are both still       *)
(* outstanding got the same cache slot.                                    *)
IdempotentHit ==
  \A h1, h2 \in held : h1.key = h2.key => h1.slot = h2.slot

=============================================================================
