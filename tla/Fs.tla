--------------------------------- MODULE Fs ---------------------------------
(***************************************************************************)
(* Inodes, directories and path names of pj3 as the system calls of        *)
(* sysfile.c use them: the inode cache with its reference counts, link     *)
(* counts, directories, symbolic links.  Where the blocks of a file are is *)
(* the matter of module Inode; here a file has a sequence of units, and a  *)
(* directory a sequence of entries.                                        *)
(*                                                                         *)
(* The kernel is one record k (see module UserTests), and each C function  *)
(* is an operator from kernels to kernels.  A path is a sequence of names, *)
(* absolute if it starts with "/".                                         *)
(*                                                                         *)
(* What a call does under one inode lock is one step, and other processes  *)
(* run between the steps: a call that has more to do returns with st       *)
(* "again".  The process then has ip, the inode its lookup has come to,    *)
(* done, the number of elements behind it, and in link and symlink old,    *)
(* the inode of the first path.                                            *)
(***************************************************************************)
EXTENDS Integers, Sequences, FiniteSets, FiniteSetsExt

CONSTANTS
  NINODES,   \* inodes on the disk
  NINODE,    \* entries of the inode cache
  MAXFILE,   \* units of a file
  FSSIZE     \* units on the disk

Inums   == 1..NINODES - 1
ROOTINO == 1
BadPtr  == <<"bad pointer">>   \* a path argument outside the process

NoInode == [type |-> "none", nlink |-> 0, ref |-> 0, valid |-> FALSE,
            body |-> <<>>, target |-> <<>>]

panic(k, f) == IF k.fault = "none" THEN [k EXCEPT !.fault = f] ELSE k

(* What a system call does: new kernel, result, and data it copies out. *)
Done(k, r) == [k |-> k, st |-> "done", r |-> r, d |-> <<>>]
Fail(k)    == Done(k, -1)
Again(k)   == [Done(k, 0) EXCEPT !.st = "again"]
-----------------------------------------------------------------------------
iget(k, i) ==
  IF k.ino[i].ref > 0 THEN [k EXCEPT !.ino[i].ref = @ + 1]
  ELSE IF Cardinality({j \in Inums : k.ino[j].ref > 0}) >= NINODE
    THEN panic(k, "iget")
  ELSE [k EXCEPT !.ino[i].ref = 1, !.ino[i].valid = FALSE]

idup(k, i) == [k EXCEPT !.ino[i].ref = @ + 1]

ilock(k, i) ==
  IF k.ino[i].ref < 1 \/ k.ino[i].type = "none" THEN panic(k, "ilock")
  ELSE [k EXCEPT !.ino[i].valid = TRUE]

(* The last reference to an inode without links frees it; iunlockput too. *)
iput(k, i) ==
  LET x == k.ino[i]
  IN  IF x.valid /\ x.nlink = 0 /\ x.ref = 1 THEN [k EXCEPT !.ino[i] = NoInode]
      ELSE [k EXCEPT !.ino[i].ref = @ - 1]

(* The first free inode, referenced and not locked. *)
Ialloc(k, type) ==
  LET free == {j \in Inums : k.ino[j].type = "none"}
      i == Min(free)
  IN  IF free = {} THEN [k |-> panic(k, "ialloc"), i |-> ROOTINO]
      ELSE [k |-> iget([k EXCEPT !.ino[i] = [NoInode EXCEPT !.type = type]], i), i |-> i]
-----------------------------------------------------------------------------
(* skipelem copies at most DIRSIZ characters of an element.  Of the names  *)
(* in use only one is longer.                                              *)
Elem(n) == IF n = "123456789012345" THEN "12345678901234" ELSE n

Entries(k, d, name) ==
  {j \in DOMAIN k.ino[d].body : k.ino[d].body[j].inum # 0 /\ k.ino[d].body[j].name = name}

(* The inode that directory d has under a name, 0 if none; the caller gets *)
(* a reference.                                                            *)
dirlookup(k, d, name) ==
  LET Referenced(i) == [k |-> iget(k, i), i |-> i]
      First(E) == IF E = {} THEN [k |-> k, i |-> 0] ELSE Referenced(k.ino[d].body[Min(E)].inum)
  IN  IF k.ino[d].type # "dir" THEN [k |-> panic(k, "dirlookup not DIR"), i |-> 0]
      ELSE First(Entries(k, d, name))

(* The entry goes to the first empty place. *)
dirlink(k, d, name, i) ==
  LET e == [name |-> name, inum |-> i]
      Put(body, gap) ==
        IF gap = {} /\ Len(body) = MAXFILE THEN [k |-> panic(k, "dirlink"), ok |-> FALSE]
        ELSE [k |-> [k EXCEPT !.ino[d].body =
                       IF gap = {} THEN Append(body, e) ELSE [body EXCEPT ![Min(gap)] = e]],
              ok |-> TRUE]
      Unless(old) ==
        IF old.i # 0 THEN [k |-> iput(old.k, old.i), ok |-> FALSE]
        ELSE Put(k.ino[d].body, {j \in DOMAIN k.ino[d].body : k.ino[d].body[j].inum = 0})
  IN  Unless(dirlookup(k, d, name))

(* namex, one round of its loop: directory i is locked for a lookup and    *)
(* then given back.                                                        *)
Level(k, i, name) ==
  LET Onto(next) == IF next.i = 0 THEN [k |-> iput(k, i), i |-> 0]
                    ELSE [k |-> iput(next.k, i), i |-> next.i]
      In(u) == IF u.ino[i].type # "dir" THEN [k |-> iput(u, i), i |-> 0]
               ELSE Onto(dirlookup(u, i, Elem(name)))
  IN  In(ilock(k, i))

Elems(path) == IF path # <<>> /\ path[1] = "/" THEN Tail(path) ELSE path
WalkFrom(k, p, path) ==
  IF path # <<>> /\ path[1] = "/" THEN [k |-> iget(k, ROOTINO), i |-> ROOTINO]
  ELSE [k |-> idup(k, k.proc[p].cwd), i |-> k.proc[p].cwd]

(* The lookup of p has come to i. *)
Onward(k, p, i) == Again([k EXCEPT !.proc[p].ip = i, !.proc[p].done = @ + 1])

(* A lookup goes on from i, or stops at i, 0 if there is no such inode.    *)
GoesOn(k, i) == [k |-> k, i |-> i, on |-> TRUE]
Stops(k, i)  == [k |-> k, i |-> i, on |-> FALSE]
Upon(p, w, Then(_, _), Else(_)) ==
  IF w.on THEN Onward(w.k, p, w.i) ELSE IF w.i = 0 THEN Else(w.k) ELSE Then(w.k, w.i)

(* namex, one round, or at the end the inode; it has a reference and is    *)
(* not locked.  The walk stops one level early if the parent is wanted,    *)
(* which must be a directory (an inode keeps its type while it is          *)
(* referenced).                                                            *)
namex(k, p, path, parent) ==
  LET s == IF k.proc[p].ip # 0 THEN [k |-> k, i |-> k.proc[p].ip] ELSE WalkFrom(k, p, path)
      last == Len(Elems(path)) - IF parent THEN 1 ELSE 0
      Onto(next) == IF next.i = 0 THEN Stops(next.k, 0) ELSE GoesOn(next.k, next.i)
  IN  IF k.proc[p].done < last THEN Onto(Level(s.k, s.i, Elems(path)[k.proc[p].done + 1]))
      ELSE IF last < 0 THEN Stops(iput(s.k, s.i), 0)
      ELSE IF parent /\ s.k.ino[s.i].type # "dir" THEN Stops(iput(ilock(s.k, s.i), s.i), 0)
      ELSE Stops(s.k, s.i)

namei(k, p, path)       == namex(k, p, path, FALSE)
nameiparent(k, p, path) == namex(k, p, path, TRUE)
LastElem(path) == Elem(Elems(path)[Len(Elems(path))])
-----------------------------------------------------------------------------
(* readi and writei look a symbolic link's path up again.  They use what   *)
(* they find without locking it, and keep the reference.  The link is      *)
(* locked meanwhile, and the lookup is one step here.                      *)
Through(k, p, i) ==
  LET elems == Elems(k.ino[i].target)
      Below(s, name) == IF s.i = 0 THEN s ELSE Level(s.k, s.i, name)
      W[j \in 0..Len(elems)] ==
        IF j = 0 THEN WalkFrom(k, p, k.ino[i].target) ELSE Below(W[j - 1], elems[j])
      Found(t) == IF t.i # 0 /\ ~t.k.ino[t.i].valid THEN [k |-> panic(t.k, "not valid"), i |-> 0]
                  ELSE t
  IN  IF k.ino[i].type # "symlink" THEN [k |-> k, i |-> i]
      ELSE Found(W[Len(elems)])

(* The words of a directory are the names of its entries, "" where empty. *)
Units(x) == IF x.type = "dir"
            THEN [j \in DOMAIN x.body |-> IF x.body[j].inum = 0 THEN "" ELSE x.body[j].name]
            ELSE x.body

(* Reading the console gives nothing here; writing to it always succeeds. *)
readi(k, p, i, off, n) ==
  LET Copy(u, data) == [Done(u, Len(data)) EXCEPT !.d = data]
      From(u, x) ==
        IF x.type = "dev" THEN Done(u, 0)
        ELSE IF off > Len(x.body) THEN Fail(u)
        ELSE Copy(u, SubSeq(Units(x), off + 1, Min({off + n, Len(x.body)})))
      Of(t) == IF t.i = 0 THEN Fail(t.k) ELSE From(t.k, t.k.ino[t.i])
  IN  Of(Through(k, p, i))

(* A file that grows takes blocks; balloc panics when there are none. *)
OnDisk(k) == MapThenSumSet(LAMBDA j : Len(k.ino[j].body), Inums)

writei(k, p, i, off, data) ==
  LET Onto(u, to, x) ==
        IF x.type = "dev" THEN Done(u, Len(data))
        ELSE IF off > Len(x.body) \/ off + Len(data) > MAXFILE THEN Fail(u)
        ELSE IF OnDisk(u) + Max({0, off + Len(data) - Len(x.body)}) > FSSIZE
          THEN Fail(panic(u, "balloc"))
        ELSE Done([u EXCEPT !.ino[to].body =
                     SubSeq(@, 1, off) \o data \o SubSeq(@, off + Len(data) + 1, Len(@))],
                  Len(data))
      Of(t) == IF t.i = 0 THEN Fail(t.k) ELSE Onto(t.k, t.i, t.k.ino[t.i])
  IN  Of(Through(k, p, i))
-----------------------------------------------------------------------------
(* link and symlink go on with their second path. *)
NextPath(k, p, i) ==
  Again([k EXCEPT !.proc[p].old = i, !.proc[p].ip = 0, !.proc[p].done = 0])

(* The link is counted before the entry is made. *)
sys_link(k, p, old, new) ==
  LET i == k.proc[p].old
      Bad(u) == Fail(iput([ilock(u, i) EXCEPT !.ino[i].nlink = @ - 1], i))
      Linked(res, d) == IF ~res.ok THEN Bad(iput(res.k, d)) ELSE Done(iput(iput(res.k, d), i), 0)
      Into(u, d) == Linked(dirlink(ilock(u, d), d, LastElem(new), i), d)
      Counted(u, h) == IF u.ino[h].type = "dir" THEN Fail(iput(u, h))
                       ELSE NextPath([u EXCEPT !.ino[h].nlink = @ + 1], p, h)
      Found(u, h) == Counted(ilock(u, h), h)
  IN  IF BadPtr \in {old, new} THEN Fail(k)
      ELSE IF i = 0 THEN Upon(p, namei(k, p, old), Found, Fail)
      ELSE Upon(p, nameiparent(k, p, new), Into, Bad)

isdirempty(x) == \A j \in 3..Len(x.body) : x.body[j].inum = 0

(* unlink empties the entry of the inode x; ".." of a directory counted as *)
(* a link to d.                                                            *)
EntryGoneKeep(k, d, name, x) ==
  iput([k EXCEPT !.ino[d].body[Min(Entries(k, d, name))] = [name |-> "", inum |-> 0]], d)
EntryGone(k, d, name, x) ==
  iput([k EXCEPT !.ino[d].body[Min(Entries(k, d, name))] = [name |-> "", inum |-> 0],
                 !.ino[d].nlink = IF x.type = "dir" THEN @ - 1 ELSE @], d)
Unlinked(k, d, name, i, x) ==
  IF x.nlink < 1 THEN Fail(panic(k, "unlink: nlink < 1"))
  ELSE IF x.type = "dir" /\ ~isdirempty(x) THEN Fail(iput(iput(k, i), d))
  ELSE Done(iput([EntryGone(k, d, name, x) EXCEPT !.ino[i].nlink = @ - 1], i), 0)

sys_unlink(k, p, path) ==
  LET name == LastElem(path)
      Locked(u, d, i) == Unlinked(u, d, name, i, u.ino[i])
      Entry(e, d) == IF e.i = 0 THEN Fail(iput(e.k, d)) ELSE Locked(ilock(e.k, e.i), d, e.i)
      From(u, d) == IF name \in {".", ".."} THEN Fail(iput(ilock(u, d), d))
                    ELSE Entry(dirlookup(ilock(u, d), d, name), d)
  IN  IF path = BadPtr THEN Fail(k) ELSE Upon(p, nameiparent(k, p, path), From, Fail)

(* create: under the lock of the directory it finds the name, which it     *)
(* then locks, or makes the inode and its entry.                           *)
create(k, p, path, type) ==
  LET name == LastElem(path)
      Dots(u, d, i) == IF type # "dir" THEN u
                       ELSE dirlink(dirlink([u EXCEPT !.ino[d].nlink = @ + 1], i, ".", i).k,
                                    i, "..", d).k
      New(new, d) ==
        IF new.k.fault # "none" THEN Stops(new.k, 0)
        ELSE Stops(iput(dirlink(Dots([ilock(new.k, new.i) EXCEPT !.ino[new.i].nlink = 1], d, new.i),
                                d, name, new.i).k, d), new.i)
      Exists(u, i) == IF type = "file" /\ u.ino[i].type = "file" THEN Stops(u, i) ELSE Stops(iput(u, i), 0)
      Named(old, u, d) == IF old.i # 0 THEN GoesOn(iput(old.k, d), old.i) ELSE New(Ialloc(u, type), d)
      In(u, d) == Named(dirlookup(u, d, name), u, d)
      Into(w) == IF w.on \/ w.i = 0 THEN w ELSE In(ilock(w.k, w.i), w.i)
      found == Elems(path) # <<>> /\ k.proc[p].done = Len(Elems(path))
  IN  IF path = BadPtr THEN Stops(k, 0)
      ELSE IF found THEN Exists(ilock(k, k.proc[p].ip), k.proc[p].ip)
      ELSE Into(nameiparent(k, p, path))

(* sys_symlink keeps the references to the target and to the new inode.    *)
(* If create fails it returns without end_op: log.outstanding stays up.    *)
sys_symlink(k, p, target, path) ==
  LET Made(u, i) == Done([u EXCEPT !.ino[i].target = target], 0)
      Unended(u) == Fail([u EXCEPT !.outstanding = @ + 1])
      Kept(u, h) == IF u.ino[h].type = "dir" THEN Fail(iput(u, h)) ELSE NextPath(u, p, h)
      Found(u, h) == Kept(ilock(u, h), h)
  IN  IF BadPtr \in {target, path} THEN Fail(k)
      ELSE IF k.proc[p].old = 0 THEN Upon(p, namei(k, p, target), Found, Fail)
      ELSE Upon(p, create(k, p, path, "symlink"), Made, Unended)

(* sys_mkdir and sys_mknod. *)
sys_make(k, p, path, type) ==
  LET Made(u, i) == Done(iput(u, i), 0)
  IN  Upon(p, create(k, p, path, type), Made, Fail)

sys_chdir(k, p, path) ==
  LET To(u, i) == IF u.ino[i].type # "dir" THEN Fail(iput(u, i))
                  ELSE Done([iput(u, k.proc[p].cwd) EXCEPT !.proc[p].cwd = i], 0)
      Found(u, i) == To(ilock(u, i), i)
  IN  IF path = BadPtr THEN Fail(k) ELSE Upon(p, namei(k, p, path), Found, Fail)
=============================================================================
