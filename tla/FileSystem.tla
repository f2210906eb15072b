----------------------------- MODULE FileSystem -----------------------------
(***************************************************************************)
(* The file-system layer of src/fs.c over the allocators of DiskAlloc:    *)
(* namei (with split of src/util.c), getFileName, creat, mk, ls, cd, rm,  *)
(* read, write, open and close.                                            *)
(*                                                                         *)
(* Directory and file contents are modelled byte by byte, at a scaled     *)
(* size: a block buffer has BSIZE bytes, a dentry is one inode-number     *)
(* byte followed by NAMELEN name bytes (the code's 4-byte int and 100     *)
(* chars; BSIZE 512).  mem[b] is the buffer of disk block b as the cache  *)
(* holds it, followed by the bytes of the slot struct that come after buf *)
(* (lru_prev, lru_next, ...): a memmove that runs past BSIZE lands there. *)
(* The block cache itself is taken to behave as the store it refines      *)
(* (BlockCache checks when it does not).                                   *)
(*                                                                         *)
(* The inode cache is inode[x] for every inode number x: allocInode's     *)
(* getCachedInode keeps one slot per allocated inode, and nothing ever    *)
(* evicts one.  A lookup of any other number misses: the miss path        *)
(* (getCachedInode, fs.c 328-356) never sets ino, so the fresh slot keeps *)
(* ino 0, and the caller loads the disk inode, which is all zeros (the    *)
(* only writer of inode blocks is allocInode, and it writes zeros).        *)
(***************************************************************************)
EXTENDS DiskAlloc, Sequences, FiniteSets

CONSTANTS
  BSIZE,        \* bytes of a block buffer
  NAMELEN,      \* bytes of dentry.name
  NDATA,        \* entries of dinode.block[]
  NOPENFILE,    \* entries of ofTbl.fds[]
  Letters,      \* byte values of the name characters
  SL,           \* the byte '/'
  DataVals,     \* byte values a write may store
  Payload(_),   \* the byte value the callers of IONext write through fd
  Paths,        \* paths the callers pass, as sequences of bytes
  WriteSizes,   \* byte counts passed to write
  ReadSizes,    \* byte counts passed to read
  MaxDirBlocks  \* bound: a directory's dentries stay within this many blocks

DENTRY == 1 + NAMELEN

VARIABLES
  inode,   \* cached inodes: [cached, type, size, block]
  mem,     \* disk block -> bytes of its buffer and of the slot tail after it
  cwd,     \* fileSys.cwd (an inode number)
  fds,     \* fileSys.ofTbl.fds[]: [ind, off]
  maxFd,   \* fileSys.ofTbl.max_fd
  stream,  \* history: inode -> the bytes creat, mk and write appended to it
  readOk,  \* history: the last read returned the bytes written at its offsets
  fault    \* "none", or why the model stops

vars == <<ibmp, dbmp, inode, mem, cwd, fds, maxFd, stream, readOk, fault>>

I_NONE == 0
I_FILE == 1
I_DIR  == 5
I_NOTCACHE == 0     \* dinode.type of a slot getCachedInode just filled

Inos == 0 .. NInode - 1
root == 0            \* fsInit: the first allocInode returns inode 0
NoInode == -1        \* a NULL struct inode *
Fresh == -2          \* a slot returned by a getCachedInode miss
\* block[NDATA] reads the next field of struct inode, the lru_prev pointer:
\* a kernel address, far above every block number.
PastBlock == DataStart + NData + 1000
Blocks == {0, DataStart - 1} \cup DataRegion \cup {PastBlock}
\* The bytes of the slot's lru_prev / lru_next pointers after buf.
LinkByte == 255
Bytes == {0} \cup Inos \cup Letters \cup {SL} \cup DataVals \cup {LinkByte}
BufIdx == 0 .. BSIZE + NAMELEN - 1
ZeroBlocks == [k \in 0 .. NDATA - 1 |-> 0]
FreshRec == [cached |-> TRUE, type |-> I_NONE, size |-> 0, block |-> ZeroBlocks]
NoFile == [ind |-> NoInode, off |-> 0]

Rec(ino, x) == IF x \in Inos THEN ino[x] ELSE FreshRec

\* dinode.block[i], read past the array when i = NDATA.
BlockAt(r, i) == IF i < NDATA THEN r.block[i] ELSE PastBlock

----------------------------------------------------------------------------
(* Bytes.                                                                   *)

\* memmove(m[b] + off, bytes, Len(bytes))
Put(m, b, off, bytes) ==
  [m EXCEPT ![b] = [i \in BufIdx |->
      IF off <= i /\ i < off + Len(bytes) THEN bytes[i - off + 1] ELSE @[i]]]

\* memmove(dst, m[b] + off, n)
Get(m, b, off, n) == [i \in 1 .. n |-> m[b][off + i - 1]]

Fill(n, v) == [i \in 1 .. n |-> v]

\* The C string held in a byte array: the bytes before the first 0.
RECURSIVE CStr(_)
CStr(s) == IF s = <<>> \/ Head(s) = 0 THEN <<>> ELSE <<Head(s)>> \o CStr(Tail(s))

\* The dentry creat and mk build: ino, then the name memset to 0 and
\* strncpy'd with strlen(name) bytes.
Dentry(ino, name) ==
  <<ino>> \o [i \in 1 .. NAMELEN |-> IF i <= Len(name) THEN name[i] ELSE 0]

DeIno(de)  == de[1]
DeName(de) == CStr(SubSeq(de, 2, DENTRY))

----------------------------------------------------------------------------
(* Paths.                                                                   *)

\* split(str, '/', terms) of util.c: skip leading '/', end a term at every
\* '/'; the bytes after the last '/' are not counted.
RECURSIVE SplitFrom(_, _, _)
SplitFrom(p, cur, acc) ==
  IF p = <<>> THEN acc
  ELSE IF Head(p) = SL THEN SplitFrom(Tail(p), <<>>, Append(acc, cur))
  ELSE SplitFrom(Tail(p), Append(cur, Head(p)), acc)

RECURSIVE SkipSlash(_)
SkipSlash(p) == IF p # <<>> /\ Head(p) = SL THEN SkipSlash(Tail(p)) ELSE p

split(p) == SplitFrom(SkipSlash(p), <<>>, <<>>)

\* getFileName: the name from the last '/' on (the '/' included), and a
\* pname in which every byte was written to pname[0], ending as "".
LastSlash(p) == CHOOSE i \in 1 .. Len(p) :
                  p[i] = SL /\ \A j \in i + 1 .. Len(p) : p[j] # SL
getFileName(p) == IF \E i \in 1 .. Len(p) : p[i] = SL
                  THEN SubSeq(p, LastSlash(p), Len(p)) ELSE p

----------------------------------------------------------------------------
(* namei.  A scan state is [ind, ino]: the inode reached and the inode     *)
(* table, which a match on an inode of type I_NOTCACHE (0) changes by      *)
(* reloading its dinode from disk.                                          *)

\* getCachedInode(de.ino) and the I_NOTCACHE reload of namei and rm.
Resolve(s, x) ==
  LET y == IF x \in Inos /\ s.ino[x].cached THEN x ELSE Fresh IN
  IF y \in Inos /\ s.ino[y].type = I_NOTCACHE
  THEN [ind |-> y, ino |-> [s.ino EXCEPT ![y].block = ZeroBlocks]]
  ELSE [ind |-> y, ino |-> s.ino]

Size(s) == Rec(s.ino, s.ind).size
BlkOf(s, i) == BlockAt(Rec(s.ino, s.ind), i)

\* strcmp(de.name, terms[k]) == 0; the terms past nterm are never written by
\* split and are taken to match no dentry.
Matches(de, terms, k) == k \in 1 .. Len(terms) /\ DeName(de) = terms[k]

\* One block's loop of namei: for(off = 0; off < lim; off += sizeof dentry),
\* where lim is BSIZE for a full block and, for the last block, ind->size %
\* BSIZE re-read with the ind the loop has reached.
RECURSIVE ScanBlk(_, _, _, _, _, _)
ScanBlk(b, off, s, terms, k, partial) ==
  LET lim == IF partial THEN Size(s) % BSIZE ELSE BSIZE
      de  == Get(mem, b, off, DENTRY)
  IN  IF off >= lim THEN s
      ELSE ScanBlk(b, off + DENTRY,
                   IF Matches(de, terms, k) THEN Resolve(s, DeIno(de)) ELSE s,
                   terms, k, partial)

\* The inner loop over full blocks; its index shadows the term index, so
\* block i is compared with terms[i].
RECURSIVE ScanFull(_, _, _)
ScanFull(s, i, terms) ==
  IF i < Size(s) \div BSIZE
  THEN ScanFull(ScanBlk(BlkOf(s, i), 0, s, terms, i + 1, FALSE), i + 1, terms)
  ELSE s

\* One iteration of namei's outer loop, for term t.
Component(s, terms, t) ==
  LET s1 == ScanFull(s, 0, terms)
  IN  ScanBlk(BlkOf(s1, Size(s1) \div BSIZE), 0, s1, terms, t, TRUE)

RECURSIVE Walk(_, _, _)
Walk(s, terms, t) ==
  IF t > Len(terms) THEN s ELSE Walk(Component(s, terms, t), terms, t + 1)

\* namei(path): [ind, ino] with the inode it returns and the inode table.
namei(p) ==
  Walk([ind |-> IF p # <<>> /\ Head(p) = SL THEN root ELSE cwd, ino |-> inode],
       split(p), 1)

\* The dentry slots ls and rm read in directory d: every slot of the full
\* blocks, then the slots of the last block below size % BSIZE.
LsSlots(d) ==
  LET r == inode[d]
      full == [j \in 1 .. (r.size \div BSIZE) * ((BSIZE + DENTRY - 1) \div DENTRY) |->
                LET per == (BSIZE + DENTRY - 1) \div DENTRY IN
                [blk |-> BlockAt(r, (j - 1) \div per), off |-> ((j - 1) % per) * DENTRY]]
      part == [j \in 1 .. ((r.size % BSIZE) + DENTRY - 1) \div DENTRY |->
                [blk |-> BlockAt(r, r.size \div BSIZE), off |-> (j - 1) * DENTRY]]
  IN  full \o part

----------------------------------------------------------------------------
(* Operations.                                                             *)

\* allocData called n times in a row: the addresses and the bitmap.
RECURSIVE AllocDataN(_, _)
AllocDataN(bmp, n) ==
  IF n = 0 THEN [addrs |-> <<>>, bmp |-> bmp]
  ELSE LET a == allocData(bmp)
           r == AllocDataN(a.bmp, n - 1)
       IN  [addrs |-> <<a.addr>> \o r.addrs, bmp |-> r.bmp]

\* fsInit after diskLayoutInit: root = allocInode(0), its block[0] =
\* allocData(0), cwd = root, max_fd = 0.
Init ==
  LET i == allocInodeBits(EmptyBitmap(NInode))
      d == allocData(EmptyBitmap(NData))
  IN
  /\ ibmp = i.bmp
  /\ dbmp = d.bmp
  /\ inode = [x \in Inos |->
                [cached |-> x = i.ino, type |-> I_NONE, size |-> 0,
                 block |-> IF x = i.ino THEN [ZeroBlocks EXCEPT ![0] = d.addr]
                           ELSE ZeroBlocks]]
  /\ mem = [b \in Blocks |-> [k \in BufIdx |-> IF k < BSIZE THEN 0 ELSE LinkByte]]
  /\ cwd = root
  /\ fds = [f \in 0 .. NOPENFILE - 1 |-> NoFile]
  /\ maxFd = 0
  /\ stream = [x \in Inos |-> <<>>]
  /\ readOk = TRUE
  /\ fault = "none"

\* Where creat and mk put the new dentry of directory r:
\* block[size / BSIZE] at offset size % BSIZE.
DirAppendAt(r) == [blk |-> r.block[r.size \div BSIZE], off |-> r.size % BSIZE]

\* The common part of creat and mk: allocInode, a dentry for name appended
\* to pind (blockRead of block[size / BSIZE], memmove at size % BSIZE,
\* blockWrite), then block[0] = allocData.  The bound MaxDirBlocks keeps
\* block[size / BSIZE] inside the array.
MakeNode(p, name, type) ==
  LET a    == allocInodeBits(ibmp)
      x    == a.ino
      ino1 == [inode EXCEPT ![x] = [cached |-> TRUE, type |-> type, size |-> 0,
                                     block |-> ZeroBlocks]]
      pind == IF p # <<>> /\ Head(p) = SL THEN namei(<<>>).ind ELSE cwd
      at   == DirAppendAt(ino1[pind])
      ino2 == [ino1 EXCEPT ![pind].size = @ + DENTRY]
      d    == allocData(dbmp)
  IN
  /\ x # -1
  /\ inode[pind].size \div BSIZE < MaxDirBlocks
  /\ ibmp' = a.bmp
  /\ mem' = Put(mem, at.blk, at.off, Dentry(x, name))
  /\ dbmp' = d.bmp
  /\ inode' = [ino2 EXCEPT ![x].block[0] = d.addr]
  /\ stream' = [stream EXCEPT ![x] = <<>>,
                              ![pind] = (IF pind = x THEN <<>> ELSE @)
                                        \o Dentry(x, name)]
  /\ UNCHANGED <<cwd, readOk, fault>>

\* creat(path, mode): the dentry's name is the whole path, or from its last
\* '/' on when the path starts with '/'; the fd is max_fd++.
creat(p) ==
  /\ fault = "none"
  /\ maxFd < NOPENFILE
  /\ MakeNode(p, IF p # <<>> /\ Head(p) = SL THEN getFileName(p) ELSE p, I_FILE)
  /\ fds' = [fds EXCEPT ![maxFd] = [ind |-> allocInodeBits(ibmp).ino, off |-> 0]]
  /\ maxFd' = maxFd + 1

\* mk(name): the same in cwd with type I_DIR and no descriptor.
mk(p) ==
  /\ fault = "none"
  /\ MakeNode(<<>>, p, I_DIR)
  /\ UNCHANGED <<fds, maxFd>>

\* cd(path): namei, then cwd = ind only if its type is I_DIR.
cd(p) ==
  LET s == namei(p) IN
  /\ fault = "none"
  /\ inode' = s.ino
  /\ cwd' = IF Rec(s.ino, s.ind).type = I_DIR THEN s.ind ELSE cwd
  /\ UNCHANGED <<ibmp, dbmp, mem, fds, maxFd, stream, readOk, fault>>

\* open's scan of ofTbl.bitmap: for every word i the first clear bit j gives
\* fd = i * 4 + j, and the last word's wins.  No code ever sets a bit.
ofBitmap == [i \in 0 .. 3 |-> 0]
Bit(w, j) == (w \div 2^j) % 2
WordFd(i) == IF \E j \in 0 .. 31 : Bit(ofBitmap[i], j) = 0
             THEN i * 4 + (CHOOSE j \in 0 .. 31 : Bit(ofBitmap[i], j) = 0
                              /\ \A k \in 0 .. j - 1 : Bit(ofBitmap[i], k) = 1)
             ELSE -1
OpenFd == LET ws == {i \in 0 .. 3 : WordFd(i) # -1}
          IN  IF ws = {} THEN -1 ELSE WordFd(CHOOSE i \in ws : \A k \in ws : k <= i)

\* open(path, mode): namei never returns NULL, so the creat branch is dead.
\* A fresh slot from a getCachedInode miss is outside the model.
open(p) ==
  LET s == namei(p) IN
  /\ fault = "none"
  /\ inode' = s.ino
  /\ IF s.ind \in Inos
     THEN /\ fds' = [fds EXCEPT ![OpenFd] = [ind |-> s.ind, off |-> 0]]
          /\ maxFd' = IF OpenFd > maxFd THEN OpenFd ELSE maxFd
          /\ UNCHANGED fault
     ELSE /\ fault' = "fresh inode slot"
          /\ UNCHANGED <<fds, maxFd>>
  /\ UNCHANGED <<ibmp, dbmp, mem, cwd, stream, readOk>>

\* close(fd): clears the entry (and a bitmap bit that is never set).
close(fd) ==
  /\ fault = "none"
  /\ fds[fd] # NoFile
  /\ fds' = [fds EXCEPT ![fd] = NoFile]
  /\ UNCHANGED <<ibmp, dbmp, inode, mem, cwd, maxFd, stream, readOk, fault>>

\* write's check: block[cur + na] must be an entry of block[] short of the
\* last one (cur + na >= NDATA returns -1).
WriteFits(cur, na) == cur + na < NDATA

\* The block pieces a transfer of n bytes from file offset start touches,
\* in the code's order: block[cur] from off, blocks cur+1 .. cur+k-1 whole,
\* and (size - (BSIZE - off)) % BSIZE bytes of block[cur+k], where k is
\* na of write or nr of read.
Span(n, start) ==
  LET off == start % BSIZE IN
  IF n > BSIZE - off THEN (n - (BSIZE - off)) \div BSIZE + 1 ELSE 0
Pieces(bl, n, start) ==
  LET blk(i) == IF i < NDATA THEN bl[i] ELSE PastBlock
      cur == start \div BSIZE
      off == start % BSIZE
      k   == Span(n, start)
      first == [blk |-> blk(cur), off |-> off,
                len |-> IF n > BSIZE - off THEN BSIZE - off ELSE n]
      mid   == IF k < 2 THEN <<>>
               ELSE [i \in 1 .. k - 1 |-> [blk |-> blk(cur + i), off |-> 0, len |-> BSIZE]]
      last  == IF k >= 1
               THEN << [blk |-> blk(cur + k), off |-> 0,
                        len |-> (n - (BSIZE - off)) % BSIZE] >>
               ELSE <<>>
  IN  <<first>> \o mid \o last

\* write(fd, buf, n) with n bytes of value v: na blocks allocated after
\* block[cur], the pieces filled, size += n.  The write that would need
\* block[NDATA] returns -1 and changes nothing.
write(fd, n, v) ==
  LET x   == fds[fd].ind
      r   == inode[x]
      cur == r.size \div BSIZE
      na  == Span(n, r.size)
      al  == AllocDataN(dbmp, na)
      blk == [k \in DOMAIN r.block |->
                IF cur < k /\ k <= cur + na THEN al.addrs[k - cur] ELSE r.block[k]]
      ps  == Pieces(blk, n, r.size)
      hit(b, i) == \E j \in DOMAIN ps : ps[j].blk = b /\ ps[j].off <= i
                                        /\ i < ps[j].off + ps[j].len
  IN
  /\ fault = "none"
  /\ x # NoInode
  /\ WriteFits(cur, na)
  /\ dbmp' = al.bmp
  /\ mem' = [b \in Blocks |-> [i \in BufIdx |-> IF hit(b, i) THEN v ELSE mem[b][i]]]
  /\ inode' = [inode EXCEPT ![x].block = blk, ![x].size = @ + n]
  /\ stream' = [stream EXCEPT ![x] = @ \o Fill(n, v)]
  /\ UNCHANGED <<ibmp, cwd, fds, maxFd, readOk, fault>>

RECURSIVE Concat(_)
Concat(ss) == IF ss = <<>> THEN <<>> ELSE Head(ss) \o Concat(Tail(ss))

\* read(fd, buf, n): fails when off + n > size; otherwise the pieces from
\* the fd's offset, and off += n.  readOk records whether it returned
\* the bytes creat, mk and write put at those offsets.
read(fd, n) ==
  LET x     == fds[fd].ind
      start == fds[fd].off
      ps    == Pieces(inode[x].block, n, start)
  IN
  /\ fault = "none"
  /\ x # NoInode
  /\ start + n <= inode[x].size
  /\ readOk' = (Concat([j \in DOMAIN ps |-> Get(mem, ps[j].blk, ps[j].off, ps[j].len)])
                = SubSeq(stream[x], start + 1, start + n))
  /\ fds' = [fds EXCEPT ![fd].off = @ + n]
  /\ UNCHANGED <<ibmp, dbmp, inode, mem, cwd, maxFd, stream, fault>>

\* freeData(block[i]) for i = 0 .. size / BSIZE.
RECURSIVE FreeBlocks(_, _, _)
FreeBlocks(bmp, r, i) ==
  IF i > r.size \div BSIZE THEN bmp
  ELSE FreeBlocks(freeData(bmp, BlockAt(r, i)).bmp, r, i + 1)

\* rm(path): scan pind's dentries in ls order for the name and zero the
\* first match; without a match de is the last dentry read (uninitialised,
\* any inode number, when none was read).  Then getCachedInode(de.ino), the
\* I_NOTCACHE reload, freeData of its blocks and freeInode(ind->ino): a
\* miss slot still has ino 0.
rm(p) ==
  LET name  == IF p # <<>> /\ Head(p) = SL THEN getFileName(p) ELSE p
      pind  == IF p # <<>> /\ Head(p) = SL THEN namei(<<>>).ind ELSE cwd
      slots == LsSlots(pind)
      deAt(j) == Get(mem, slots[j].blk, slots[j].off, DENTRY)
      hits  == {j \in DOMAIN slots : DeName(deAt(j)) = name}
      first == CHOOSE j \in hits : \A k \in hits : j <= k
  IN
  /\ fault = "none"
  /\ \E garbage \in Inos :
       LET de == IF hits # {} THEN deAt(first)
                 ELSE IF slots # <<>> THEN deAt(Len(slots))
                 ELSE <<garbage>>
           s  == Resolve([ind |-> pind, ino |-> inode], DeIno(de))
           r  == Rec(s.ino, s.ind)
           pos == IF hits = {} THEN 0
                  ELSE ((first - 1) \div ((BSIZE + DENTRY - 1) \div DENTRY)) * BSIZE
                       + slots[first].off
       IN
       /\ mem' = IF hits # {}
                 THEN Put(mem, slots[first].blk, slots[first].off, Fill(DENTRY, 0))
                 ELSE mem
       /\ stream' = IF hits # {}
                    THEN [stream EXCEPT ![pind] =
                            [i \in DOMAIN @ |-> IF pos < i /\ i <= pos + DENTRY
                                                THEN 0 ELSE @[i]]]
                    ELSE stream
       /\ inode' = s.ino
       /\ dbmp' = FreeBlocks(dbmp, r, 0)
       /\ ibmp' = freeInode(ibmp, IF s.ind \in Inos THEN s.ind ELSE 0).bmp
  /\ UNCHANGED <<cwd, fds, maxFd, readOk, fault>>

\* Callers that work on the name space.
\* rm's scan finds the name among cwd's dentries (or, for a path that
\* starts with '/', its last component with the '/').
RmFinds(p) ==
  LET name == IF p # <<>> /\ Head(p) = SL THEN getFileName(p) ELSE p
  IN  \E j \in DOMAIN LsSlots(cwd) :
        DeName(Get(mem, LsSlots(cwd)[j].blk, LsSlots(cwd)[j].off, DENTRY)) = name

\* Callers that work on the name space and remove only names that exist.
DirNext == \E p \in Paths : creat(p) \/ mk(p) \/ cd(p) \/ (RmFinds(p) /\ rm(p))

\* The same callers with rm of any name.
DirAnyNext == \E p \in Paths : creat(p) \/ mk(p) \/ cd(p) \/ rm(p)

\* Callers that create files and move bytes through the descriptors creat
\* returns, as fileTest does; each writes its own fixed text, the byte
\* Payload(fd), so that bytes of different files differ.
IONext ==
  \/ \E p \in Paths : creat(p)
  \/ \E fd \in DOMAIN fds : close(fd)
  \/ \E fd \in DOMAIN fds, n \in WriteSizes : write(fd, n, Payload(fd))
  \/ \E fd \in DOMAIN fds, n \in ReadSizes : read(fd, n)

\* The same callers, which also open files by name.
OpenNext == IONext \/ \E p \in Paths : open(p)

Next == DirAnyNext \/ OpenNext

DirSpec == Init /\ [][DirNext]_vars
DirAnySpec == Init /\ [][DirAnyNext]_vars
IOSpec  == Init /\ [][IONext]_vars
OpenSpec == Init /\ [][OpenNext]_vars
Spec    == Init /\ [][Next]_vars

----------------------------------------------------------------------------
(* Properties.                                                             *)

TypeOK ==
  /\ ibmp \in [0 .. NInode -> {0, 1}]
  /\ dbmp \in [0 .. NData -> {0, 1}]
  /\ inode \in [Inos -> [cached : BOOLEAN, type : {I_NONE, I_FILE, I_DIR},
                         size : 0 .. NDATA * BSIZE, block : [0 .. NDATA - 1 -> Blocks]]]
  /\ mem \in [Blocks -> [BufIdx -> Bytes]]
  /\ cwd \in Inos
  /\ fds \in [0 .. NOPENFILE - 1 -> [ind : Inos \cup {NoInode}, off : Nat]]
  /\ maxFd \in 0 .. NOPENFILE
  /\ stream \in [Inos -> Seq(Bytes)]
  /\ readOk \in BOOLEAN
  /\ fault \in {"none", "fresh inode slot"}

\* The inodes in use: marked in the inode bitmap.
Live == {x \in Inos : ibmp[x] = 1}

\* The byte the code reads at offset i of inode x's stream: byte i % BSIZE
\* of block[i / BSIZE].
StoredByte(x, i) == mem[BlockAt(inode[x], i \div BSIZE)][i % BSIZE]

(* Every byte creat, mk and write appended to a live inode (with rm's      *)
(* zeroed dentries) is where read, ls, namei and rm look for it: the block *)
(* map of each inode and the offsets creat and write compute keep the      *)
(* streams of different inodes apart.                                      *)
StreamsStored ==
  \A x \in Live : \A i \in 0 .. inode[x].size - 1 :
     StoredByte(x, i) = stream[x][i + 1]

\* The names of the dentries creat and mk appended to d, in order.
StreamNames(d) ==
  [j \in 1 .. Len(stream[d]) \div DENTRY |->
     DeName(SubSeq(stream[d], (j - 1) * DENTRY + 1, j * DENTRY))]

(* Spec section 8: after Create("name") NameLookup("name") resolves to the *)
(* new inode: every name in the working directory resolves, through       *)
(* namei, to the inode of its first dentry.                                *)
NameLookupResolves ==
  \A j \in DOMAIN StreamNames(cwd) :
     LET n == StreamNames(cwd)[j] IN
     (n # <<>> /\ \A k \in 1 .. j - 1 : StreamNames(cwd)[k] # n)
       => namei(n).ind = stream[cwd][(j - 1) * DENTRY + 1]

(* A dentry that creat or mk appends stays inside the block buffer: the    *)
(* lru_prev / lru_next links of the cache slot after buf are never         *)
(* overwritten.                                                            *)
SlotLinksIntact ==
  \A b \in Blocks : \A i \in BSIZE .. BSIZE + NAMELEN - 1 : mem[b][i] = LinkByte

(* Spec section 4: Remove frees every data block of the removed inode: no  *)
(* unit stays marked in the data bitmap unless a live inode's block list   *)
(* holds it.                                                               *)
NoLeakedData ==
  \A i \in 0 .. NData - 1 :
     dbmp[i] = 1 => \E x \in Live : \E k \in 0 .. NDATA - 1 :
                      inode[x].block[k] = DataStart + i

(* rm frees the inode of the entry it removes and no other: every name    *)
(* still listed in the working directory names an inode that is marked in  *)
(* the inode bitmap, so a later allocInode cannot hand it out again.      *)
NoDanglingEntry ==
  \A j \in DOMAIN StreamNames(cwd) :
     StreamNames(cwd)[j] # <<>> => ibmp[stream[cwd][(j - 1) * DENTRY + 1]] = 1

(* Spec section 8: Write(fd, bytes) then Read(fd, len) returns exactly     *)
(* bytes: every read returns the bytes creat, mk and write put at the      *)
(* offsets it covers.                                                       *)
ReadReturnsWritten == readOk

=============================================================================
