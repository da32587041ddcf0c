------------------------------- MODULE Inode -------------------------------
(***************************************************************************)
(* Blocks and inode contents of pj3 (fs.c): the block allocator, bmap with *)
(* its direct, single, double and triple indirect blocks, itrunc, readi    *)
(* and writei, and the write-through copies of inodes.  The caller of each *)
(* operation holds the inode's lock, so a call is one step.                *)
(*                                                                         *)
(* The unit of data is the word: a block is NINDIRECT words, whether they  *)
(* are data or block numbers.  An image of the disk starts as mkfs leaves  *)
(* it (module Mkfs).                                                       *)
(***************************************************************************)
EXTENDS Integers, Sequences, FiniteSets, FiniteSetsExt

CONSTANTS
  NDIRECT,    \* direct blocks of an inode
  NINDIRECT,  \* block numbers in a block
  SIZE,       \* sb.size, blocks of the file system
  NMETA,      \* blocks before the first data block
  NINODES,    \* sb.ninodes
  UINT,       \* offsets and lengths are taken modulo UINT (2^32)
  Chunks,     \* bound: lengths of reads and writes
  Places,     \* bound: offsets at which files are read and overwritten
  MaxCreate   \* bound: files created

ASSUME InodeAssumption ==
  /\ NDIRECT \in Nat \ {0} /\ NINDIRECT \in Nat \ {0}
  /\ UINT \in Nat /\ UINT > (NDIRECT + NINDIRECT + NINDIRECT ^ 2 + NINDIRECT ^ 3) * NINDIRECT
  /\ SIZE \in Nat /\ NMETA \in 1..SIZE /\ NINODES \in Nat
  /\ Chunks \subseteq Nat /\ Places \subseteq Nat /\ MaxCreate \in Nat

VARIABLE fs   \* the disk and the inodes in memory; see InodeTypeOK

Inums   == 1..NINODES - 1
Blocks  == 0..SIZE - 1
BSIZE   == NINDIRECT              \* words per block
Offsets == 0..BSIZE - 1
Zeroes  == [w \in Offsets |-> 0]

DINDIRECT == NINDIRECT * NINDIRECT
TINDIRECT == NINDIRECT * NINDIRECT * NINDIRECT
MAXFILE   == NDIRECT + NINDIRECT + DINDIRECT + TINDIRECT

NoInode == [type |-> 0, size |-> 0, addrs |-> [s \in 0..NDIRECT + 2 |-> 0]]

panic(t, f) == [t EXCEPT !.fault = f]
-----------------------------------------------------------------------------
(* The first free block, marked and zeroed. *)
balloc(t) ==
  LET free == Blocks \ t.used
      b == Min(free)
  IN  IF free = {} THEN [t |-> panic(t, "balloc"), a |-> 0]
      ELSE [t |-> [t EXCEPT !.used = @ \cup {b}, !.data[b] = Zeroes], a |-> b]

(* bfree, of each block of B. *)
bfree(t, B) == IF B \subseteq t.used THEN [t EXCEPT !.used = @ \ B] ELSE panic(t, "bfree")

iupdate(t, i) == [t EXCEPT !.dinode[i] = t.ip[i]]

(* ilock: the inode is read from the disk if it is not valid. *)
ilock(t, i) ==
  IF i \in t.valid THEN t
  ELSE [t EXCEPT !.ip[i] = t.dinode[i], !.valid = @ \cup {i},
                 !.fault = IF t.dinode[i].type = 0 THEN "ilock" ELSE @]

(* Where block bn of a file is noted: the entry of addrs, then the index   *)
(* into each indirect block.                                               *)
RouteShort(bn) ==
  LET b1 == bn - NDIRECT
      b2 == b1 - NINDIRECT
      b3 == b2 - DINDIRECT
  IN  IF bn < NDIRECT THEN [slot |-> bn, via |-> <<>>]
      ELSE IF b1 < NINDIRECT THEN [slot |-> NDIRECT, via |-> <<b1>>]
      ELSE IF b2 < DINDIRECT
        THEN [slot |-> NDIRECT + 1, via |-> <<b2 \div NINDIRECT, b2 % NINDIRECT>>]
      ELSE [slot |-> NDIRECT + 2,
            via |-> <<b3 \div DINDIRECT, b3 \div DINDIRECT, b3 % NINDIRECT>>]
Route(bn) ==
  LET b1 == bn - NDIRECT
      b2 == b1 - NINDIRECT
      b3 == b2 - DINDIRECT
  IN  IF bn < NDIRECT THEN [slot |-> bn, via |-> <<>>]
      ELSE IF b1 < NINDIRECT THEN [slot |-> NDIRECT, via |-> <<b1>>]
      ELSE IF b2 < DINDIRECT
        THEN [slot |-> NDIRECT + 1, via |-> <<b2 \div NINDIRECT, b2 % NINDIRECT>>]
      ELSE [slot |-> NDIRECT + 2,
            via |-> <<b3 \div DINDIRECT, (b3 \div NINDIRECT) % NINDIRECT, b3 % NINDIRECT>>]

(* An entry of an indirect block, which is given a block if it has none. *)
Load(r, w) ==
  LET n == balloc(r.t)
  IN  IF r.t.fault # "none" THEN r
      ELSE IF r.t.data[r.a][w] # 0 THEN [r EXCEPT !.a = r.t.data[r.a][w]]
      ELSE [n EXCEPT !.t.data[r.a][w] = n.a]

bmap(t, i, bn) ==
  LET r == Route(bn)
      n == balloc(t)
      top == IF t.ip[i].addrs[r.slot] # 0 THEN [t |-> t, a |-> t.ip[i].addrs[r.slot]]
             ELSE [n EXCEPT !.t.ip[i].addrs[r.slot] = n.a]
      Down[d \in 0..Len(r.via)] == IF d = 0 THEN top ELSE Load(Down[d - 1], r.via[d])
  IN  IF bn >= MAXFILE THEN [t |-> panic(t, "bmap"), a |-> 0]
      ELSE Down[Len(r.via)]

(* readi and writei go from block to block, here from word to word: bmap   *)
(* returns the same block for every word of it.  The inode is a file; what *)
(* they do with symbolic links and devices is in module Fs.                *)
Beyond(t, i, off, n) == off > t.ip[i].size \/ (off + n) % UINT < off
readi(t, i, off, n) ==
  LET m == Min({n, t.ip[i].size - off})
      Get(r, o) == LET b == bmap(r.t, i, o \div BSIZE)
                   IN  [t |-> b.t, ws |-> Append(r.ws, b.t.data[b.a][o % BSIZE])]
      Loop[k \in 0..n] == IF k = 0 THEN [t |-> t, ws |-> <<>>]
                         ELSE Get(Loop[k - 1], off + k - 1)
  IN  IF Beyond(t, i, off, n) THEN [t |-> t, ws |-> <<>>, ok |-> FALSE]
      ELSE LET r == Loop[m] IN [t |-> r.t, ws |-> r.ws, ok |-> TRUE]

writei(t, i, off, ws) ==
  LET Put(u, o) == LET b == bmap(u, i, o \div BSIZE)
                   IN  [b.t EXCEPT !.data[b.a][o % BSIZE] = ws[o - off + 1]]
      Loop[k \in 0..Len(ws)] == IF k = 0 THEN t ELSE Put(Loop[k - 1], off + k - 1)
      u == Loop[Len(ws)]
      end == off + Len(ws)
  IN  IF Beyond(t, i, off, Len(ws)) \/ end > MAXFILE * BSIZE THEN [t |-> t, ok |-> FALSE]
      ELSE [t |-> IF Len(ws) > 0 /\ end > t.ip[i].size
                    THEN iupdate([u EXCEPT !.ip[i].size = end], i) ELSE u,
            ok |-> TRUE]

(* itrunc gives back the direct blocks and those of the single indirect    *)
(* block; it does not look at the other two.                               *)
Direct(t, i)   == {s \in 0..NDIRECT - 1 : t.ip[i].addrs[s] # 0}
Indirect(t, i) == LET b == t.ip[i].addrs[NDIRECT]
                  IN  IF b = 0 THEN {} ELSE {w \in Offsets : t.data[b][w] # 0}

Cleared(t, i, last) ==
  iupdate([t EXCEPT !.ip[i].addrs = [s \in DOMAIN @ |-> IF s <= last THEN 0 ELSE @[s]],
                    !.ip[i].size = 0], i)

itruncDirect(t, i) ==
  Cleared(bfree(t, {t.ip[i].addrs[s] : s \in Direct(t, i)}), i, NDIRECT - 1)
itrunc(t, i) ==
  LET b1 == t.ip[i].addrs[NDIRECT]
      B == {t.ip[i].addrs[s] : s \in Direct(t, i)}
           \cup {t.data[b1][w] : w \in Indirect(t, i)} \cup ({b1} \ {0})
  IN  Cleared(bfree(t, B), i, NDIRECT)

(* iput, for the last reference to an inode without links. *)
Destroy(t, i) ==
  LET u == itrunc(t, i)
  IN  [iupdate([u EXCEPT !.ip[i].type = 0], i) EXCEPT !.valid = @ \ {i}]

(* The first free inode. *)
ialloc(t) ==
  LET free == {j \in Inums : t.dinode[j].type = 0}
  IN  IF free = {} THEN panic(t, "ialloc")
      ELSE [t EXCEPT !.dinode[Min(free)] = [NoInode EXCEPT !.type = 1], !.made = @ + 1]
-----------------------------------------------------------------------------
(* The words of a write: each tells the file, the offset and the write. *)
Data(i, off, n, g) == [k \in 1..n |-> 1000 * i + 10 * (off + k) + g]

Up == fs.fault = "none"
Live(i) == Up /\ fs.dinode[i].type # 0 /\ i # 1   \* 1 is the root directory

(* After a panic nothing matters any more. *)
Halt(t) == IF t.fault = "none" THEN t ELSE panic(fs, t.fault)

Create ==
  /\ Up /\ fs.made < MaxCreate
  /\ fs' = Halt(ialloc(fs))

Write(i, off, n, g) ==
  /\ Live(i)
  /\ fs' = Halt(writei(ilock(fs, i), i, off, Data(i, off, n, g)).t)

Read(i, off, n) ==
  /\ Live(i)
  /\ fs' = Halt(readi(ilock(fs, i), i, off, n).t)

Delete(i) ==
  /\ Live(i)
  /\ fs' = Halt(Destroy(ilock(fs, i), i))

(* The last references to the inodes in memory go and iget reuses their    *)
(* entries of the cache.                                                   *)
Evict ==
  /\ Up /\ fs.valid # {}
  /\ fs' = [fs EXCEPT !.valid = {}, !.ip = [i \in Inums |-> NoInode]]
-----------------------------------------------------------------------------
(* Types of the disk and of the inodes in memory. *)
InodeTypeOK ==
  /\ fs.used \subseteq Blocks /\ DOMAIN fs.data = Blocks
  /\ \A i \in Inums : fs.dinode[i].size \in 0..MAXFILE * BSIZE
  /\ fs.valid \subseteq Inums

(* The block that an inode notes for block bn of its file, 0 if none. *)
Lookup(a, bn) ==
  LET r == Route(bn)
      Down[d \in 0..Len(r.via)] ==
        LET b == IF d = 0 THEN 0 ELSE Down[d - 1]
        IN  IF d = 0 THEN a[r.slot] ELSE IF b = 0 THEN 0 ELSE fs.data[b][r.via[d]]
  IN  Down[Len(r.via)]

Words(i) ==
  [k \in 1..fs.dinode[i].size |->
     fs.data[Lookup(fs.dinode[i].addrs, (k - 1) \div BSIZE)][(k - 1) % BSIZE]]

Tags == {0, 1}

Files == INSTANCE ByteFiles WITH
  Inums <- Inums \ {1},
  files <- [i \in Inums \ {1} |->
              [live |-> fs.dinode[i].type # 0, words |-> Words(i)]]

(* Whatever the lengths and the order of the calls, with several files     *)
(* growing through all levels of indirection into blocks that others have  *)
(* given back: a write changes the words it is meant to change, and no     *)
(* call changes a file but its own (writei, bmap, itrunc).                 *)
ImplementsByteFiles == Files!Spec

(* readi returns the words of the file from any offset on, up to its end   *)
(* (for any length whose sum with the offset does not wrap), and reading   *)
(* leaves the disk as it is.                                               *)
ReadsBack ==
  \A i \in Inums \ {1} : Live(i) =>
    \A off \in Places, n \in Chunks \cup {UINT - 1} :
      LET r == readi(ilock(fs, i), i, off, n)
      IN  /\ r.ok <=> off <= fs.dinode[i].size /\ off + n < UINT
          /\ r.ok => r.ws = SubSeq(Words(i), off + 1, Min({off + n, fs.dinode[i].size}))
          /\ r.t.used = fs.used /\ r.t.data = fs.data

(* The blocks reachable from addrs a. *)
Entries(B) == UNION {{fs.data[b][w] : w \in Offsets} : b \in B} \ {0}
Tree(a) ==
  LET Top(S) == {a[s] : s \in S} \ {0}
      double == Top({NDIRECT + 1}) \cup Entries(Top({NDIRECT + 2}))
      single == Top({NDIRECT}) \cup Entries(double)
  IN  Top(0..NDIRECT + 2) \cup double \cup single \cup Entries(single)

(* How many blocks a file of n blocks takes up. *)
Need(n) ==
  LET Up2(x, y) == (x + y - 1) \div y
      n1 == n - NDIRECT
      n2 == n1 - NINDIRECT
      n3 == n2 - DINDIRECT
      two == Min({n2, DINDIRECT})
  IN  n + (IF n1 > 0 THEN 1 ELSE 0)
        + (IF n2 > 0 THEN 1 + Up2(two, NINDIRECT) ELSE 0)
        + (IF n3 > 0 THEN 1 + Up2(n3, DINDIRECT) + Up2(n3, NINDIRECT) ELSE 0)

Allocated == {i \in Inums : fs.dinode[i].type # 0}

(* No block has two owners: the blocks reachable from an inode are marked  *)
(* in the bitmap, are exactly as many as its size calls for, so that none  *)
(* is there twice, and belong to no other inode.  (mkfs may make the root  *)
(* longer than its blocks.)                                                *)
BlocksOwned ==
  Up => \A i \in Allocated :
    LET T == Tree(fs.dinode[i].addrs)
    IN  /\ T \subseteq fs.used \ (0..NMETA - 1)
        /\ i # 1 => Cardinality(T) = Need((fs.dinode[i].size + BSIZE - 1) \div BSIZE)
        /\ \A j \in Allocated \ {i} : T \cap Tree(fs.dinode[j].addrs) = {}

(* The inode cache is write-through: losing the copy in memory loses       *)
(* nothing (comment at iupdate).                                           *)
WriteThrough == Up => \A i \in fs.valid : fs.ip[i] = fs.dinode[i]

(* A file that needs no double indirect block gives back all its blocks    *)
(* when it is deleted, and no others.                                      *)
DeleteReclaims ==
  [][\A i \in Inums :
       /\ fs.dinode[i].type # 0 /\ fs'.dinode[i].type = 0
       /\ fs.dinode[i].size <= (NDIRECT + NINDIRECT) * BSIZE
       => fs'.used = fs.used \ Tree(fs.dinode[i].addrs)]_fs

(* Every block in use belongs to a file: what iput frees comes back with   *)
(* its content.  itrunc leaves the double and triple indirect blocks, and  *)
(* nothing leads to them once the inode is free.                           *)
NoneLost ==
  Up => fs.used \subseteq 0..NMETA - 1 \cup UNION {Tree(fs.dinode[i].addrs) : i \in Allocated}

(* The file system at every step: each block of the bitmap has one place   *)
(* in one file, a file reads back as it was written last (bmap, readi,     *)
(* writei), and the inodes in memory are the ones on disk.                 *)
InodeInv == InodeTypeOK /\ BlocksOwned /\ WriteThrough /\ ReadsBack
=============================================================================
