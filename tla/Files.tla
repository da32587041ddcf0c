------------------------------- MODULE Files -------------------------------
(***************************************************************************)
(* The file table, descriptors and pipes (file.c, pipe.c, and the calls of *)
(* sysfile.c on descriptors).  A call that has to wait returns with st     *)
(* "sleep"; it is made again when the process has been woken, and done     *)
(* says how much of a write it has completed.  A write to an inode goes in *)
(* steps of MaxWrite units, between which the inode is not locked.         *)
(***************************************************************************)
EXTENDS Fs

CONSTANTS
  NFILE, NOFILE,   \* open files, and descriptors of a process
  PIPESIZE,        \* capacity of a pipe
  WRAP,            \* the counters of a pipe are taken modulo WRAP (2^32)
  MaxWrite         \* units of a file written under one lock

ASSUME FilesAssumption ==
  /\ PIPESIZE \in Nat \ {0} /\ WRAP \in Nat \ {0}
  /\ WRAP % PIPESIZE = 0 /\ WRAP > PIPESIZE

NoFile == [ref |-> 0, type |-> "none", ip |-> 0, off |-> 0,
           readable |-> FALSE, writable |-> FALSE, pipe |-> 0]
NoPipe == [used |-> FALSE, data |-> [j \in 0..PIPESIZE - 1 |-> 0], nread |-> 0, nwrite |-> 0,
           readopen |-> FALSE, writeopen |-> FALSE]
FileIds == 1..NFILE
Pipes   == 1..NFILE
Fds     == 0..NOFILE - 1

wakeup(k, chan) ==
  [k EXCEPT !.proc = [p \in DOMAIN @ |->
     IF @[p].state = "SLEEPING" /\ @[p].chan = chan
     THEN [@[p] EXCEPT !.state = "RUNNABLE"] ELSE @[p]]]

(* sleep: the process comes back to the test it made. *)
Sleep(k, p, chan) ==
  [k |-> [k EXCEPT !.proc[p].state = "SLEEPING", !.proc[p].chan = chan],
   st |-> "sleep", r |-> 0, d |-> <<>>]
-----------------------------------------------------------------------------
filealloc(k) ==
  LET First(free) == IF free = {} THEN [k |-> k, f |-> 0]
                     ELSE [k |-> [k EXCEPT !.file[Min(free)].ref = 1], f |-> Min(free)]
  IN  First({f \in FileIds : k.file[f].ref = 0})

filedup(k, f) ==
  IF k.file[f].ref < 1 THEN panic(k, "filedup") ELSE [k EXCEPT !.file[f].ref = @ + 1]

pipeclose(k, q, writable) ==
  LET Freed(u) == IF u.pipe[q].readopen \/ u.pipe[q].writeopen THEN u
                  ELSE [u EXCEPT !.pipe[q] = NoPipe, !.free = @ + 1]
  IN  Freed(IF writable THEN wakeup([k EXCEPT !.pipe[q].writeopen = FALSE], <<"nread", q>>)
            ELSE wakeup([k EXCEPT !.pipe[q].readopen = FALSE], <<"nwrite", q>>))

fileclose(k, f) ==
  LET ff == k.file[f]
      u == [k EXCEPT !.file[f] = NoFile]
  IN  IF ff.ref < 1 THEN panic(k, "fileclose")
      ELSE IF ff.ref > 1 THEN [k EXCEPT !.file[f].ref = @ - 1]
      ELSE IF ff.type = "pipe" THEN pipeclose(u, ff.pipe, ff.writable)
      ELSE IF ff.type = "inode" THEN iput(u, ff.ip)
      ELSE u

(* A pipe takes a page. *)
pipealloc(k) ==
  LET No(u) == [k |-> u, r |-> 0, w |-> 0]
      End(u, q, f, r) == [u EXCEPT !.file[f] = [@ EXCEPT !.type = "pipe", !.pipe = q,
                                                         !.readable = r, !.writable = ~r]]
      Open(u, q) == [u EXCEPT !.pipe[q] = [NoPipe EXCEPT !.used = TRUE, !.readopen = TRUE,
                                                         !.writeopen = TRUE], !.free = @ - 1]
      Made(u, q, r, w) == [k |-> End(End(Open(u, q), q, r, TRUE), q, w, FALSE), r |-> r, w |-> w]
      Second(b, r) ==
        IF b.f = 0 THEN No(fileclose(b.k, r))
        ELSE IF b.k.free = 0 THEN No(fileclose(fileclose(b.k, r), b.f))
        ELSE Made(b.k, Min({x \in Pipes : ~k.pipe[x].used}), r, b.f)
      First(a) == IF a.f = 0 THEN No(k) ELSE Second(filealloc(a.k), a.f)
  IN  First(filealloc(k))

Filled(k, q) == (k.pipe[q].nwrite - k.pipe[q].nread) % WRAP

(* As many units as there is room for; then the writer returns or sleeps. *)
pipewrite(k, p, q, data) ==
  LET Put(i, m, at) ==
        [k EXCEPT !.pipe[q].nwrite = (at + m) % WRAP, !.proc[p].done = i + m,
           !.pipe[q].data = [j \in DOMAIN @ |->
              IF (j - at) % PIPESIZE < m THEN data[i + ((j - at) % PIPESIZE) + 1] ELSE @[j]]]
      Then(u) ==
        IF u.proc[p].done = Len(data) THEN Done(wakeup(u, <<"nread", q>>), Len(data))
        ELSE IF ~k.pipe[q].readopen \/ k.proc[p].killed THEN Fail(u)
        ELSE Sleep(wakeup(u, <<"nread", q>>), p, <<"nwrite", q>>)
      i0 == k.proc[p].done
  IN  Then(Put(i0, Min({Len(data) - i0, PIPESIZE - Filled(k, q)}), k.pipe[q].nwrite))

piperead(k, p, q, n) ==
  LET x == k.pipe[q]
      m == Min({n, Filled(k, q)})
      u == [k EXCEPT !.pipe[q].nread = (@ + m) % WRAP]
  IN  IF x.nread # x.nwrite \/ ~x.writeopen
        THEN [Done(wakeup(u, <<"nwrite", q>>), m) EXCEPT
                !.d = [c \in 1..m |-> x.data[(x.nread + c - 1) % PIPESIZE]]]
      ELSE IF k.proc[p].killed THEN Fail(k)
      ELSE Sleep(k, p, <<"nread", q>>)
-----------------------------------------------------------------------------
filereadKeep(k, p, f, n) ==
  LET x == k.file[f]
  IN  IF ~x.readable THEN Fail(k)
      ELSE IF x.type = "pipe" THEN piperead(k, p, x.pipe, n)
      ELSE readi(ilock(k, x.ip), p, x.ip, x.off, n)
fileread(k, p, f, n) ==
  LET x == k.file[f]
      Advance(r) == IF r.r > 0 THEN [r EXCEPT !.k.file[f].off = @ + r.r] ELSE r
  IN  IF ~x.readable THEN Fail(k)
      ELSE IF x.type = "pipe" THEN piperead(k, p, x.pipe, n)
      ELSE Advance(readi(ilock(k, x.ip), p, x.ip, x.off, n))

(* One round of the loop; "again" when there is more to write. *)
filewrite(k, p, f, data) ==
  LET x == k.file[f]
      i == k.proc[p].done
      part == SubSeq(data, i + 1, Min({Len(data), i + MaxWrite}))
      Moved(w) == [w.k EXCEPT !.file[f].off = @ + w.r, !.proc[p].done = i + w.r]
      Advance(w) == IF w.r < 0 THEN w
                    ELSE IF i + w.r < Len(data) THEN Again(Moved(w))
                    ELSE Done(Moved(w), Len(data))
  IN  IF ~x.writable THEN Fail(k)
      ELSE IF x.type = "pipe" THEN pipewrite(k, p, x.pipe, data)
      ELSE Advance(writei(ilock(k, x.ip), p, x.ip, x.off, part))

(* filestat: the type of the inode and its number of links. *)
filestat(k, f) ==
  IF k.file[f].type = "inode"
  THEN [Done(ilock(k, k.file[f].ip), 0) EXCEPT
          !.d = <<k.ino[k.file[f].ip].type, k.ino[k.file[f].ip].nlink>>]
  ELSE Fail(k)
-----------------------------------------------------------------------------
(* argfd: the file of a descriptor, 0 if there is none. *)
argfd(k, p, fd) == IF fd \in Fds THEN k.proc[p].ofile[fd] ELSE 0

(* The first free descriptor, -1 if there is none. *)
fdalloc(k, p) ==
  LET free == {fd \in Fds : k.proc[p].ofile[fd] = 0}
  IN  IF free = {} THEN -1 ELSE Min(free)

sys_dup(k, p, fd) ==
  LET f == argfd(k, p, fd)
      new == fdalloc(k, p)
  IN  IF f = 0 \/ new = -1 THEN Fail(k)
      ELSE Done(filedup([k EXCEPT !.proc[p].ofile[new] = f], f), new)

(* bad: the buffer does not lie in the process. *)
sys_read(k, p, fd, n, bad) ==
  IF argfd(k, p, fd) = 0 \/ n < 0 \/ bad THEN Fail(k) ELSE fileread(k, p, argfd(k, p, fd), n)

sys_write(k, p, fd, data) ==
  IF argfd(k, p, fd) = 0 THEN Fail(k) ELSE filewrite(k, p, argfd(k, p, fd), data)

sys_close(k, p, fd) ==
  IF argfd(k, p, fd) = 0 THEN Fail(k)
  ELSE Done(fileclose([k EXCEPT !.proc[p].ofile[fd] = 0], argfd(k, p, fd)), 0)

sys_fstat(k, p, fd) ==
  IF argfd(k, p, fd) = 0 THEN Fail(k) ELSE filestat(k, argfd(k, p, fd))

sys_open(k, p, path, omode) ==
  LET Opened(u, i, f, fd) ==
        [u EXCEPT !.proc[p].ofile[fd] = f,
                  !.file[f] = [@ EXCEPT !.type = "inode", !.ip = i, !.off = 0,
                                 !.readable = "WRONLY" \notin omode,
                                 !.writable = {"WRONLY", "RDWR"} \cap omode # {}]]
      With(f, fd, i) ==
        IF f.f = 0 THEN Fail(iput(f.k, i))
        ELSE IF fd = -1 THEN Fail(iput(fileclose(f.k, f.f), i))
        ELSE Done(Opened(f.k, i, f.f, fd), fd)
      Locked(u, i) == IF u.ino[i].type = "dir" /\ omode # {} THEN Fail(iput(u, i))
                      ELSE With(filealloc(u), fdalloc(u, p), i)
      Found(u, i) == Locked(ilock(u, i), i)
  IN  IF path = BadPtr THEN Fail(k)
      ELSE IF "CREATE" \in omode THEN Upon(p, create(k, p, path, "file"), Found, Fail)
      ELSE Upon(p, namei(k, p, path), Found, Fail)

(* The two descriptors are the data. *)
sys_pipe(k, p) ==
  LET Second(u, a, r, w) ==
        IF w = -1 THEN Fail(fileclose(fileclose([u EXCEPT !.proc[p].ofile[r] = 0], a.r), a.w))
        ELSE [Done([u EXCEPT !.proc[p].ofile[w] = a.w], 0) EXCEPT !.d = <<r, w>>]
      First(a, r, u) ==
        IF r = -1 THEN Fail(fileclose(fileclose(a.k, a.r), a.w)) ELSE Second(u, a, r, fdalloc(u, p))
      Made(a, r) == First(a, r, [a.k EXCEPT !.proc[p].ofile[r] = a.r])
      Of(a) == IF a.r = 0 THEN Fail(a.k) ELSE Made(a, fdalloc(a.k, p))
  IN  Of(pipealloc(k))
=============================================================================
