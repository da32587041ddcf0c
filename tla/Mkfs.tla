-------------------------------- MODULE Mkfs --------------------------------
(***************************************************************************)
(* mkfs.c of pj3: how the image that the kernel starts from is made.  It   *)
(* has its own copies of ialloc, balloc and bmap (iappend), which must     *)
(* agree with the ones of the kernel.  A directory entry is one word, the  *)
(* number of its inode.                                                    *)
(***************************************************************************)
EXTENDS Inode, SequencesExt

CONSTANTS
  FileLens,   \* lengths of the first file that mkfs copies
  MaxShort    \* length of the second; bound on all files but the first

(* An empty disk: freeblock and freeinode have their initial values. *)
Blank ==
  [t |-> [used |-> {}, data |-> [b \in Blocks |-> Zeroes],
          dinode |-> [i \in Inums |-> NoInode], ip |-> [i \in Inums |-> NoInode],
          valid |-> {}, made |-> 0, fault |-> "none"],
   freeblock |-> NMETA, freeinode |-> 1]

mk_ialloc(m) ==
  [m EXCEPT !.t.dinode[m.freeinode].type = 1, !.freeinode = @ + 1]

(* freeblock++, unless the inode already has the block. *)
Addr(m, i, s) ==
  IF m.t.dinode[i].addrs[s] # 0 THEN m
  ELSE [m EXCEPT !.t.dinode[i].addrs[s] = m.freeblock, !.freeblock = @ + 1]

(* iappend, the block of the file that fbn is.  The double indirect branch *)
(* takes a sector number from memory it has not written; the triple one is *)
(* reached through it only.  What mkfs makes of such a file is left open.  *)
Place(m, i, fbn) ==
  LET n == Addr(m, i, NDIRECT)
      b == n.t.dinode[i].addrs[NDIRECT]
      w == fbn - NDIRECT
  IN  IF fbn < NDIRECT THEN Addr(m, i, fbn)
      ELSE IF w >= NINDIRECT THEN [m EXCEPT !.t.fault = "uninitialised"]
      ELSE IF n.t.data[b][w] # 0 THEN n
      ELSE [n EXCEPT !.t.data[b][w] = n.freeblock, !.freeblock = @ + 1]

iappend(m, i, ws) ==
  LET One(v, x) ==
        LET off == v.t.dinode[i].size
            fbn == off \div BSIZE
            u == Place(v, i, fbn)
            a == u.t.dinode[i].addrs
            b == IF fbn < NDIRECT THEN a[fbn] ELSE u.t.data[a[NDIRECT]][fbn - NDIRECT]
        IN  IF u.t.fault # "none" THEN u
            ELSE [u EXCEPT !.t.data[b][off % BSIZE] = x, !.t.dinode[i].size = off + 1]
  IN  FoldLeft(One, m, ws)

(* One file of n words: its inode, its entry in the root, its contents. *)
AddFile(m, n) ==
  LET i == m.freeinode
  IN  iappend(iappend(mk_ialloc(m), 1, <<i>>), i, Data(i, 0, n, 0))

(* The bitmap: every block handed out so far is in use. *)
mk_balloc(m) == [m.t EXCEPT !.used = 0..m.freeblock - 1]

(* The image with files of the given lengths: at the end the root is made  *)
(* a whole number of blocks long and the blocks used so far are marked.    *)
Image(lens) ==
  LET root == iappend(mk_ialloc(Blank), 1, <<1, 1>>)
      m == FoldLeft(AddFile, root, lens)
  IN  [mk_balloc(m) EXCEPT !.dinode[1].size = (@ \div BSIZE + 1) * BSIZE]

InodeInit == \E n \in FileLens : fs = Image(<<n, MaxShort>>)

(* A file is written at its end; the first is also overwritten from one of *)
(* the given places with other words, or written beyond its end.  The      *)
(* others stay short.                                                      *)
InodeNext ==
  \/ Create
  \/ \E i \in Inums, n \in Chunks :
       LET size == fs.dinode[i].size
       IN  \/ (i = 2 \/ size + n <= MaxShort) /\ Write(i, size, n, 0)
           \/ i = 2 /\ \E off \in Places :
                off <= size + 1 /\ off + n <= size + 2 /\ Write(i, off, n, 1)
           \/ \E off \in Places : Read(i, off, n)
  \/ \E i \in Inums : Delete(i)
  \/ Evict

InodeSpec == InodeInit /\ [][InodeNext]_fs
=============================================================================
