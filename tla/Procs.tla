------------------------------- MODULE Procs -------------------------------
(***************************************************************************)
(* Processes of pj3 as seen from the system calls (proc.c, sysproc.c,      *)
(* exec.c): fork, exit, wait, kill, sbrk, sleep and exec, with the pages   *)
(* they take and give back.  Memory is counted in units, PGSIZE to a page; *)
(* a process has, besides its own pages, a kernel stack and page tables.   *)
(***************************************************************************)
EXTENDS Files

CONSTANTS
  NPROC,     \* process slots
  PGSIZE,    \* units of a page
  TABLES,    \* pages of setupkvm's page tables
  IMAGE      \* units of a program after exec

Slots == 1..NPROC
initproc == 1

Pages(sz) == (sz + PGSIZE - 1) \div PGSIZE

NoProc == [state |-> "UNUSED", pid |-> 0, parent |-> 0, chan |-> <<>>, killed |-> FALSE,
           ofile |-> [fd \in Fds |-> 0], cwd |-> 0, sz |-> 0, done |-> 0, busy |-> FALSE,
           ip |-> 0, old |-> 0, np |-> 0, held |-> 0]

(* What a process holds, from fork to wait. *)
Held(x) == IF x.state \in {"UNUSED", "EMBRYO"} THEN 0 ELSE 1 + TABLES + Pages(x.sz)

(* The pages that an unfinished fork, exec or sbrk has taken: kalloc gives *)
(* one at a time, and other processes take pages in between.  When there   *)
(* is none, the call gives back what it has (deallocuvm, freevm, kfree).   *)
GiveBackSome(k, p) ==
  [k EXCEPT !.free = @ + Max({0, k.proc[p].held - 1}), !.proc[p].held = 0]
GiveBack(k, p) == [k EXCEPT !.free = @ + k.proc[p].held, !.proc[p].held = 0]
Grab(k, p, need) ==
  IF k.proc[p].held >= need THEN [k |-> [k EXCEPT !.proc[p].held = 0], got |-> "all"]
  ELSE IF k.free = 0 THEN [k |-> GiveBack(k, p), got |-> "none"]
  ELSE [k |-> [k EXCEPT !.free = @ - 1, !.proc[p].held = @ + 1], got |-> "one"]
UponPages(g, Then(_), Bad(_)) ==
  IF g.got = "all" THEN Then(g.k) ELSE IF g.got = "none" THEN Bad(g.k) ELSE Again(g.k)
-----------------------------------------------------------------------------
(* allocproc takes a slot, which keeps its pid when no memory is found for *)
(* the stack or for the copy; proc.np is the slot.                         *)
fork(k, p) ==
  LET me == k.proc[p]
      np == me.np
      Copies(f) == Cardinality({fd \in Fds : me.ofile[fd] = f})
      Child(x) == [x EXCEPT !.state = "RUNNABLE", !.parent = p, !.ofile = me.ofile,
                            !.cwd = me.cwd, !.sz = me.sz, !.chan = <<>>]
      Copied(u) ==
        Done([u EXCEPT !.proc[np] = Child(@),
                       !.file = [f \in FileIds |-> [@[f] EXCEPT !.ref = @ + Copies(f)]],
                       !.ino[me.cwd].ref = @ + 1], u.proc[np].pid)
      Bad(u) == Fail([u EXCEPT !.proc[np].state = "UNUSED"])
      Slot(free) ==
        IF free = {} THEN Fail(k)
        ELSE Again([k EXCEPT !.nextpid = @ + 1, !.proc[Min(free)].pid = k.nextpid,
                             !.proc[Min(free)].state = "EMBRYO", !.proc[p].np = Min(free)])
  IN  IF np = 0 THEN Slot({s \in Slots : k.proc[s].state = "UNUSED"})
      ELSE UponPages(Grab(k, p, 1 + TABLES + Pages(me.sz)), Copied, Bad)

(* exit: files, directory, the parent, the children. *)
CloseAll(k, p) ==
  LET After(u, fd) == IF u.proc[p].ofile[fd] = 0 THEN u
                      ELSE [fileclose(u, u.proc[p].ofile[fd]) EXCEPT !.proc[p].ofile[fd] = 0]
      Close[fd \in -1..NOFILE - 1] == IF fd = -1 THEN k ELSE After(Close[fd - 1], fd)
  IN  Close[NOFILE - 1]

exit(k, p) ==
  LET Zombie(u) == [u EXCEPT !.proc[p].cwd = 0, !.proc[p].state = "ZOMBIE", !.proc[p].busy = FALSE]
      Adopt(u, kids) ==
        [u EXCEPT !.proc = [s \in Slots |->
           IF s \in kids THEN [@[s] EXCEPT !.parent = initproc] ELSE @[s]]]
      Tell(u, kids) == IF \E s \in kids : u.proc[s].state = "ZOMBIE"
                       THEN wakeup(u, <<"wait", initproc>>) ELSE u
      Orphans(u, kids) == Tell(Adopt(u, kids), kids)
      Children(u) == Orphans(u, {s \in Slots : u.proc[s].parent = p})
  IN  IF p = initproc THEN panic(k, "init exiting")
      ELSE Zombie(Children(wakeup(iput(CloseAll(k, p), k.proc[p].cwd),
                                  <<"wait", k.proc[p].parent>>)))

(* One pass of the loop of wait. *)
wait(k, p) ==
  LET kids == {s \in Slots : k.proc[s].parent = p}
      dead == {s \in kids : k.proc[s].state = "ZOMBIE"}
      z == Min(dead)
  IN  IF dead # {}
        THEN Done([k EXCEPT !.free = @ + Held(k.proc[z]), !.proc[z] = NoProc], k.proc[z].pid)
      ELSE IF kids = {} \/ k.proc[p].killed THEN Fail(k)
      ELSE Sleep(k, p, <<"wait", p>>)

killKeep(k, pid) ==
  LET S == {s \in Slots : k.proc[s].pid = pid}
  IN  IF S = {} THEN Fail(k) ELSE Done([k EXCEPT !.proc[Min(S)].killed = TRUE], 0)
kill(k, pid) ==
  LET S == {s \in Slots : k.proc[s].pid = pid}
      s == Min(S)
  IN  IF S = {} THEN Fail(k)
      ELSE Done([k EXCEPT !.proc[s].killed = TRUE,
                          !.proc[s].state = IF @ = "SLEEPING" THEN "RUNNABLE" ELSE @], 0)

(* sys_sbrk and growproc: the old size, or nothing changes.  deallocuvm    *)
(* does nothing when the new size wraps around, and a new size of 0 counts *)
(* as a failure when the pages are gone.                                   *)
sys_sbrk(k, p, n) ==
  LET sz == k.proc[p].sz
      more == Pages(sz + n) - Pages(sz)
      Grown(u) == Done([u EXCEPT !.proc[p].sz = sz + n], sz)
  IN  IF n < 0 /\ sz + n < 0 THEN Done(k, sz)
      ELSE IF n < 0 /\ sz + n = 0 THEN Fail(panic(k, "no image"))
      ELSE IF n < 0 THEN Grown([k EXCEPT !.free = @ - more])
      ELSE UponPages(Grab(k, p, more), Grown, Fail)

(* sys_sleep: done counts the ticks since the call was made. *)
sys_sleep(k, p, n) ==
  IF k.proc[p].done >= n THEN Done(k, 0)
  ELSE IF k.proc[p].killed THEN Fail(k)
  ELSE Sleep(k, p, <<"ticks", 0>>)

(* The timer interrupt. *)
tick(k) ==
  wakeup([k EXCEPT !.proc = [s \in Slots |->
            IF @[s].chan = <<"ticks", 0>> THEN [@[s] EXCEPT !.done = @ + 1] ELSE @[s]]],
         <<"ticks", 0>>)

(* exec: the header is read (done then counts one more than the path has  *)
(* elements), and the new image is built beside the old one, which is      *)
(* given up at the end.  The arguments must fit into the page of the       *)
(* stack, below which a page may not be accessed.                          *)
NewImage(k, p) ==
  [k EXCEPT !.free = @ + TABLES + Pages(k.proc[p].sz), !.proc[p].sz = IMAGE]
exec(k, p, path, args) ==
  LET need == TABLES + Pages(IMAGE)
      Bad(u) == Fail(iput(u, k.proc[p].ip))
      Built(u) == IF args > PGSIZE THEN Bad([u EXCEPT !.free = @ + need])
                  ELSE Done(iput(NewImage(u, p), k.proc[p].ip), 0)
      Header(h, i) == IF h.d = <<"elf">> THEN Onward(h.k, p, i) ELSE Fail(iput(h.k, i))
      Found(u, i) == Header(readi(ilock(u, i), p, i, 0, 1), i)
  IN  IF path = BadPtr THEN Fail(k)
      ELSE IF k.proc[p].done > Len(Elems(path)) THEN UponPages(Grab(k, p, need), Built, Bad)
      ELSE Upon(p, namei(k, p, path), Found, Fail)

(* trap: the program used an address outside the process. *)
Misbehaves(k, p) == [k EXCEPT !.proc[p].killed = TRUE]
=============================================================================
