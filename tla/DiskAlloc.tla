----------------------------- MODULE DiskAlloc -----------------------------
(***************************************************************************)
(* The on-disk layout and the bitmap allocators of src/fs.c:              *)
(* diskLayoutInit, readSuperblock, allocInode, freeInode, allocData and   *)
(* freeData.                                                              *)
(*                                                                         *)
(* The superblock diskLayoutInit writes is a constant of the model         *)
(* (InodeStart, BitmapStart, DataStart, NInode, NData): readSuperblock     *)
(* always returns it, because block 1 stays checked out of the cache and   *)
(* nothing writes it again.  The two bitmaps are one byte per unit in the  *)
(* buffers of blocks BitmapStart and BitmapStart + 1; the allocators keep  *)
(* those buffers checked out and change them in place, so the bitmaps are  *)
(* the variables ibmp and dbmp.  Two calls pass the address of a local    *)
(* pointer instead of the buffer and are left out: the blockWrite(&bb) of  *)
(* allocInode (and freeData's blockWrite(&db)), and allocData's            *)
(* relCachedBlock(&db) (fs.c 518), which writes flags and the hash and LRU *)
(* links of a "block" at &db into allocData's frame and its caller's (at   *)
(* offsets the compiler chooses) and appends that stack address to the     *)
(* free list; the data-bitmap buffer itself stays checked out.  Reading    *)
(* every later bitmap lookup as the held buffer takes the cache to be the  *)
(* store it refines, which fs.c's own re-lookups break (BlockCache,        *)
(* cache_relookup); a property of this module that passes is conditional   *)
(* on both.                                                               *)
(*                                                                         *)
(* A bitmap's domain is 0 .. N: the byte after the last unit is still      *)
(* inside the 512-byte buffer and the free routines' off-by-one checks     *)
(* write it.                                                               *)
(***************************************************************************)
EXTENDS Integers

CONSTANTS
  NInode,       \* sb.nInodeBlock: inode numbers 0 .. NInode - 1
  NData,        \* sb.nDataBlock: data units 0 .. NData - 1
  DataStart     \* sb.dataStart: unit i is disk block DataStart + i

ASSUME NInode \in Nat \ {0} /\ NData \in Nat \ {0} /\ DataStart \in Nat \ {0}

VARIABLES
  ibmp,   \* inode bitmap buffer, bytes 0 .. NInode
  dbmp    \* data bitmap buffer, bytes 0 .. NData

\* sb.dataStart + addr in uint32_t arithmetic, with addr given as the
\* signed value whose bits it holds (-1 for 0xFFFFFFFF): the sum modulo
\* 2^32.  TLC's integers are 32-bit signed, so the modulus is not written
\* out; addr is -1 or a unit index and dataStart is positive, so the sum
\* never leaves 0 .. 2^31 - 1.
AddU32(start, addr) == start + addr

\* The first-fit scan of allocInode / allocData: the first index below n
\* whose byte is 0, or -1 when there is none.
RECURSIVE FirstFree(_, _, _)
FirstFree(bmp, n, i) ==
  IF i >= n THEN -1
  ELSE IF bmp[i] = 0 THEN i
  ELSE FirstFree(bmp, n, i + 1)

\* bb->buf[ino] = 1 with ino possibly -1: buf[-1] is the top byte of the
\* slot's lruCnt, not a bitmap byte.
SetByte(bmp, i, v) == IF i \in DOMAIN bmp THEN [bmp EXCEPT ![i] = v] ELSE bmp

\* allocInode, steps 1 and 2: [ino, ibmp] with ino = -1 when no inode is free.
allocInodeBits(bmp) ==
  LET ino == FirstFree(bmp, NInode, 0) IN
  [ino |-> ino, bmp |-> SetByte(bmp, ino, 1)]

\* allocData: [addr, dbmp].  When the bitmap is full addr stays
\* (uint32_t)-1; db->buf + 0xFFFFFFFF wraps to buf[-1] in 32-bit address
\* arithmetic, and dataStart + addr wraps to dataStart - 1.  The trailing
\* relCachedBlock(&db) is left out (see the header).
allocData(bmp) ==
  LET i == FirstFree(bmp, NData, 0)
  IN  [addr |-> AddU32(DataStart, i), bmp |-> SetByte(bmp, i, 1)]

\* freeData(addr): the check compares addr, an absolute block address,
\* with the number of data units, and then clears byte addr of the bitmap.
freeData(bmp, addr) ==
  IF addr > NData THEN [ret |-> -1, bmp |-> bmp]
  ELSE [ret |-> 0, bmp |-> SetByte(bmp, addr, 0)]

\* freeInode(ino): the check lets ino = nInodeBlock through.
freeInode(bmp, ino) ==
  IF ino > NInode THEN [ret |-> -1, bmp |-> bmp]
  ELSE [ret |-> 0, bmp |-> SetByte(bmp, ino, 0)]

\* diskLayoutInit writes both bitmap blocks as zeros.
EmptyBitmap(n) == [i \in 0 .. n |-> 0]

\* The data region and the address allocData returns when it is full.
DataRegion == DataStart .. DataStart + NData - 1

=============================================================================
