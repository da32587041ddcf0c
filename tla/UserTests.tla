----------------------------- MODULE UserTests -----------------------------
(***************************************************************************)
(* The kernel of pj3 under its user programs.  Any process that can run    *)
(* may make the next step: a system call (Fs, Files, Procs), or the part   *)
(* of one up to where it sleeps, unlocks an inode or takes a page.  The    *)
(* program that init starts is chosen at the beginning.                    *)
(***************************************************************************)
EXTENDS Procs

CONSTANTS
  Tests,    \* programs to start
  MEMORY,   \* pages
  MaxTicks  \* bound: ticks a sleeping process is counted up to

P == INSTANCE Programs

VARIABLES
  k,       \* the kernel: ino, file, pipe, proc, free, nextpid, fault,
           \* outstanding: calls that have returned without end_op
  test,    \* what init starts
  at,      \* where each process is in its program
  env,     \* variables of each process: descriptors and pids
  got,     \* what each process has read in its loop
  oops     \* some process has met an unexpected result

vars == <<k, test, at, env, got, oops>>

(* The programs, by name. *)
Text ==
  [nothing |-> P!nothing, dirtest |-> P!dirtest, spin |-> P!spin, echo |-> P!echo,
   usertests_1 |-> P!usertests_1, usertests_2 |-> P!usertests_2,
   usertests_3 |-> P!usertests_3, usertests_4 |-> P!usertests_4,
   usertests_5 |-> P!usertests_5, usertests_6 |-> P!usertests_6,
   usertests_7 |-> P!usertests_7, linkunlink |-> P!linkunlink, concreate |-> P!concreate,
   fourfiles |-> P!fourfiles, sharedfd |-> P!sharedfd, sbrktest |-> P!sbrktest,
   pipe1 |-> P!pipe1, preempt |-> P!preempt, exitiputtest_child |-> P!exitiputtest_child,
   openiputtest_child |-> P!openiputtest_child, pipe1_child |-> P!pipe1_child,
   preempt_child |-> P!preempt_child, mem_child |-> P!mem_child,
   sharedfd_child |-> P!sharedfd_child, fourfiles_0 |-> P!fourfiles_child(1),
   fourfiles_1 |-> P!fourfiles_child(2), createdelete_0 |-> P!createdelete_child(1),
   createdelete_1 |-> P!createdelete_child(2), linkunlink_child |-> P!Random,
   concreate_m0 |-> P!concreate_make(1), concreate_m1 |-> P!concreate_make(2),
   concreate_m4 |-> P!concreate_make(3), concreate_m6 |-> P!concreate_make(4),
   concreate_u0 |-> P!concreate_use(1), concreate_u1 |-> P!concreate_use(2),
   concreate_u4 |-> P!concreate_use(3), concreate_u6 |-> P!concreate_use(4),
   sbrktest_grow |-> P!sbrktest_grow, sbrktest_peek |-> P!sbrktest_peek,
   sbrktest_hog |-> P!sbrktest_hog, bigargtest_child |-> P!bigargtest_child,
   test1 |-> P!test1, test3 |-> P!test3, test4 |-> P!test4,
   zombie |-> P!zombie, anything |-> P!anything, anything_child |-> P!AnyCalls(1),
   links |-> P!links, relink |-> P!relink, ln_s |-> P!ln_s, ln_h |-> P!ln_h,
   rm_s |-> P!rm(<<"s">>), rm_h |-> P!rm(<<"h">>),
   stressfs |-> P!stressfs, stressfs_1 |-> P!stressfs_rest(2), sh |-> P!sh,
   sh_list |-> P!RunList("sh_pipe", P!RunExec(<<"cat">>, "cat_out")),
   sh_pipe |-> P!RunPipe("sh_left", "sh_right"),
   sh_left |-> P!LeftOf(P!RunExec(<<"cat">>, "cat_README")),
   sh_right |-> P!RightOf(P!RunRedir("1", <<"out">>, {"CREATE", "WRONLY"},
                                     P!RunExec(<<"cat">>, "cat_stdin"))),
   sh_back |-> P!RunBack("sh_echo"), sh_echo |-> P!RunExec(<<"echo">>, "echo"),
   cat_stdin |-> P!cat("0"),
   cat_README |-> P!cat_main(<<"README">>), cat_out |-> P!cat_main(<<"out">>),
   commands |-> P!commands, mkdir_d |-> P!mkdir(<<"d">>), kill_a |-> P!kill("a"),
   forktest_c |-> P!forktest_c]

Start == "init"
Code(pos) == IF pos.prog = Start THEN P!init(test) ELSE Text[pos.prog]

Vars0 == [v \in {"fd", "fd1", "r", "w", "pid", "a", "b", "c", "n", "none", "0", "1"} |->
            CASE v = "0" -> 0 [] v = "1" -> 1 [] v = "n" -> 0 [] OTHER -> -1]

(* The image that mkfs makes. *)
Entry(name, i) == [name |-> name, inum |-> i]
File(data) == [NoInode EXCEPT !.type = "file", !.nlink = 1, !.body = data]
Image ==
  [i \in Inums |->
     CASE i = 1 -> [NoInode EXCEPT !.type = "dir", !.nlink = 1, !.ref = 1, !.valid = TRUE,
                      !.body = <<Entry(".", 1), Entry("..", 1), Entry("README", 2),
                                 Entry("cat", 3), Entry("echo", 4), Entry("init", 5)>>]
       [] i = 2 -> File(<<P!text>>)
       [] i \in 3..5 -> File(<<"elf">>)
       [] OTHER -> NoInode]

(* userinit and the exec of init. *)
First == [NoProc EXCEPT !.state = "RUNNABLE", !.pid = 1, !.cwd = ROOTINO, !.sz = IMAGE]

Init ==
  /\ test \in Tests
  /\ k = [ino |-> Image, file |-> [f \in FileIds |-> NoFile], pipe |-> [q \in Pipes |-> NoPipe],
          proc |-> [s \in Slots |-> IF s = initproc THEN First ELSE NoProc],
          free |-> MEMORY - Held(First), nextpid |-> 2, outstanding |-> 0, fault |-> "none"]
  /\ at = [s \in Slots |-> [prog |-> Start, pc |-> 1, alt |-> 0]]
  /\ env = [s \in Slots |-> Vars0]
  /\ got = [s \in Slots |-> <<>>]
  /\ oops = FALSE
-----------------------------------------------------------------------------
Running(p) == k.fault = "none" /\ k.proc[p].state = "RUNNABLE"

(* Between two calls a process that has been killed exits. *)
InUser(p)  == Running(p) /\ ~k.proc[p].busy
Calls(p)   == Running(p) /\ (k.proc[p].busy \/ ~k.proc[p].killed)

(* What the process may do next, or the call it is in (at.alt, where the   *)
(* program had a choice); after its last call main calls exit.             *)
CallsAt(code, pc) ==
  IF pc > Len(code) THEN {P!Call("exit")}
  ELSE IF code[pc].op # "either" THEN {code[pc]}
  ELSE {[code[pc].alts[i] EXCEPT !.alt = i] : i \in DOMAIN code[pc].alts}
Now(p) == {c \in CallsAt(Code(at[p]), at[p].pc) : k.proc[p].busy => c.alt = at[p].alt}

(* The call returns: its result is noted and compared, and the program     *)
(* goes on, or repeats the call.                                           *)
Stays(c, res, n) ==
  \/ c.loop = "drain" /\ res.r > 0
  \/ c.loop \in {"ok", "count"} /\ res.r >= 0
  \/ c.loop = "uncount" /\ n > 1
Expected(p, c, res, stays) ==
  /\ c.loop \in {"ok", "count"} \/ res.r \in c.want
  /\ c.loop = "pid" => res.r = env[p]["pid"]
  /\ c.see # {} /\ ~stays =>
       (IF c.loop = "drain" THEN got[p] \o res.d ELSE res.d) \in c.see

Noted(c, res, stays, e) ==
  CASE c.loop = "count" /\ stays -> [e EXCEPT !["n"] = @ + 1]
    [] c.loop = "uncount" -> [e EXCEPT !["n"] = @ - 1]
    [] c.op = "pipe" /\ res.r = 0 -> [e EXCEPT !["r"] = res.d[1], !["w"] = res.d[2]]
    [] c.var # "none" -> [e EXCEPT ![c.var] = res.r]
    [] OTHER -> e

Back(p, c, res, stays, fine) ==
  /\ k' = IF fine THEN res.k ELSE exit(res.k, p)
  /\ oops' = (oops \/ ~fine)
  /\ at' = [at EXCEPT ![p].pc = IF stays THEN @ ELSE @ + 1, ![p].alt = 0]
  /\ got' = [got EXCEPT ![p] = IF c.loop = "drain" /\ stays THEN @ \o res.d ELSE <<>>]
  /\ env' = [env EXCEPT ![p] = Noted(c, res, stays, @)]
  /\ UNCHANGED test

(* In the middle of the call: it sleeps, or goes on later. *)
Within(p, c, res) ==
  /\ k' = [res.k EXCEPT !.proc[p].busy = TRUE]
  /\ at' = [at EXCEPT ![p].alt = c.alt]
  /\ UNCHANGED <<test, env, got, oops>>

Idle(p, res) ==
  [res EXCEPT !.k.proc[p] = [@ EXCEPT !.busy = FALSE, !.done = 0, !.ip = 0, !.old = 0, !.np = 0]]
Return(p, c, result) ==
  \E res \in {result} :
    \/ res.st # "done" /\ Within(p, c, res)
    \/ /\ res.st = "done"
       /\ \E stays \in {Stays(c, res, env[p]["n"])} :
            Back(p, c, Idle(p, res), stays, Expected(p, c, res, stays))

Does(p, op, c) == Calls(p) /\ c.op = op

Opens(p, c)    == Does(p, "open", c) /\ Return(p, c, sys_open(k, p, c.path, c.mode))
Closes(p, c)   == Does(p, "close", c) /\ Return(p, c, sys_close(k, p, env[p][c.fd]))
Reads(p, c)    == /\ Does(p, "read", c)
                  /\ Return(p, c, sys_read(k, p, env[p][c.fd], c.n + Len(got[p]), c.bad))
Writes(p, c)   == Does(p, "write", c) /\ Return(p, c, sys_write(k, p, env[p][c.fd], c.data))
Dups(p, c)     == Does(p, "dup", c) /\ Return(p, c, sys_dup(k, p, env[p][c.fd]))
Stats(p, c)    == Does(p, "fstat", c) /\ Return(p, c, sys_fstat(k, p, env[p][c.fd]))
MakesPipe(p, c) == Does(p, "pipe", c) /\ Return(p, c, sys_pipe(k, p))
Links(p, c)    == Does(p, "link", c) /\ Return(p, c, sys_link(k, p, c.path, c.path2))
Unlinks(p, c)  == Does(p, "unlink", c) /\ Return(p, c, sys_unlink(k, p, c.path))
Symlinks(p, c) == Does(p, "symlink", c) /\ Return(p, c, sys_symlink(k, p, c.path, c.path2))
MakesDir(p, c) == Does(p, "mkdir", c) /\ Return(p, c, sys_make(k, p, c.path, "dir"))
MakesNode(p, c) == Does(p, "mknod", c) /\ Return(p, c, sys_make(k, p, c.path, "dev"))
Chdirs(p, c)   == Does(p, "chdir", c) /\ Return(p, c, sys_chdir(k, p, c.path))
Waits(p, c)    == Does(p, "wait", c) /\ Return(p, c, wait(k, p))
Kills(p, c)    == Does(p, "kill", c) /\ Return(p, c, kill(k, env[p][c.fd]))
Sbrks(p, c)    == Does(p, "sbrk", c) /\ Return(p, c, sys_sbrk(k, p, c.n))
Sleeps(p, c)   == Does(p, "sleep", c) /\ Return(p, c, sys_sleep(k, p, c.n))
Syncs(p, c)    == Does(p, "sync", c) /\ Return(p, c, Done(k, 0))   \* module SyncLog

(* The child has the parent's variables and runs another part of the text. *)
Forked(p, c, res, np, more, fine) ==
  /\ k' = IF fine THEN res.k ELSE exit(res.k, p)
  /\ oops' = (oops \/ ~fine)
  /\ at' = [s \in Slots |-> IF s = np THEN [prog |-> c.child, pc |-> 1, alt |-> 0]
                            ELSE IF s = p /\ ~more THEN [at[p] EXCEPT !.pc = @ + 1] ELSE at[s]]
  /\ env' = [s \in Slots |-> IF s = np THEN env[p]
                             ELSE IF s = p THEN Noted(c, res, more, env[p]) ELSE env[s]]
  /\ got' = [s \in Slots |-> IF s = np THEN <<>> ELSE got[s]]
  /\ UNCHANGED test
Forks(p, c) ==
  /\ Does(p, "fork", c)
  /\ \E res \in {fork(k, p)} :
       \/ res.st # "done" /\ Within(p, c, res)
       \/ /\ res.st = "done"
          /\ Forked(p, c, Idle(p, res), IF res.r > 0 THEN k.proc[p].np ELSE 0,
                    c.loop = "count" /\ res.r > 0, c.loop = "count" \/ res.r > 0)

Started(p, c, res) ==
  /\ k' = res.k
  /\ oops' = (oops \/ res.r \notin c.want)
  /\ at' = [at EXCEPT ![p] = IF res.r = 0 THEN [prog |-> c.child, pc |-> 1, alt |-> 0]
                             ELSE [@ EXCEPT !.pc = @ + 1]]
  /\ UNCHANGED <<test, env, got>>
Execs(p, c) ==
  /\ Does(p, "exec", c)
  /\ \E res \in {exec(k, p, c.path, c.n)} :
       \/ res.st # "done" /\ Within(p, c, res)
       \/ res.st = "done" /\ Started(p, c, Idle(p, res))

(* cat: read, then write what was read, until there is nothing to read. *)
Copied(p, res) ==
  /\ k' = res.k
  /\ oops' = (oops \/ res.r < 0)
  /\ got' = [got EXCEPT ![p] = res.d]
  /\ at' = IF got[p] = <<>> /\ res.r <= 0 THEN [at EXCEPT ![p].pc = @ + 1] ELSE at
  /\ UNCHANGED <<test, env>>
Copies(p, c) ==
  /\ Does(p, "cat", c)
  /\ \E res \in {IF got[p] = <<>> THEN sys_read(k, p, env[p][c.fd], c.n, FALSE)
                 ELSE sys_write(k, p, 1, got[p])} :
       \/ res.st # "done" /\ Within(p, c, res)
       \/ res.st = "done" /\ Copied(p, Idle(p, res))

(* An address outside the process, or an instruction not allowed to it. *)
Traps(p, c) ==
  /\ Does(p, "touch", c)
  /\ k' = Misbehaves(k, p)
  /\ UNCHANGED <<test, at, env, got, oops>>

MayExit(p, c) == InUser(p) /\ (k.proc[p].killed \/ (c.op = "exit" /\ p # initproc))
Exits(p, c) ==
  /\ MayExit(p, c)
  /\ k' = exit(k, p)
  /\ UNCHANGED <<test, at, env, got, oops>>

Ticking(s) == /\ k.proc[s].state = "SLEEPING" /\ k.proc[s].chan = <<"ticks", 0>>
              /\ k.proc[s].done < MaxTicks
Tick ==
  /\ k.fault = "none"
  /\ \E s \in Slots : Ticking(s)
  /\ k' = tick(k)
  /\ UNCHANGED <<test, at, env, got, oops>>

Step(p, c) ==
  \/ Opens(p, c) \/ Closes(p, c) \/ Reads(p, c) \/ Writes(p, c) \/ Dups(p, c) \/ Stats(p, c)
  \/ MakesPipe(p, c) \/ Links(p, c) \/ Unlinks(p, c) \/ Symlinks(p, c) \/ MakesDir(p, c)
  \/ MakesNode(p, c) \/ Chdirs(p, c) \/ Forks(p, c) \/ Waits(p, c) \/ Kills(p, c)
  \/ Sbrks(p, c) \/ Sleeps(p, c) \/ Syncs(p, c) \/ Execs(p, c) \/ Copies(p, c)
  \/ Traps(p, c) \/ Exits(p, c)

Next == Tick \/ \E p \in Slots : \E c \in Now(p) : Step(p, c)

(* When a step can be made: some process can run and is not spinning, or a *)
(* tick is due.                                                            *)
Busy ==
  /\ k.fault = "none"
  /\ \/ \E s \in Slots : Ticking(s)
     \/ \E p \in Slots : \E c \in Now(p) :
          (Calls(p) /\ c.op \notin {"spin", "exit"}) \/ MayExit(p, c)

(* The machine does not stop while it is Busy: WF_vars(Next), with Busy for *)
(* ENABLED <<Next>>_vars.                                                   *)
Fairness == []<>~Busy \/ []<><<Next>>_vars

Spec == Init /\ [][Next]_vars /\ Fairness
-----------------------------------------------------------------------------
Count(S, T, R(_, _)) == Cardinality({x \in S \X T : R(x[1], x[2])})
Live == {s \in Slots : k.proc[s].state # "UNUSED"}
Dirs == {i \in Inums : k.ino[i].type = "dir" /\ k.ino[i].nlink > 0}

(* Every table has its shape, an unused file is clean, no more inodes are  *)
(* in memory than fit, and no counter leaves its range.                    *)
UTypeOK ==
  /\ test \in Tests /\ oops \in BOOLEAN
  /\ \A i \in Inums : k.ino[i].nlink \in Nat /\ k.ino[i].ref \in Nat /\ Len(k.ino[i].body) <= MAXFILE
  /\ Cardinality({i \in Inums : k.ino[i].ref > 0}) <= NINODE
  /\ \A f \in FileIds : k.file[f].ref = 0 => k.file[f] = NoFile
  /\ \A q \in Pipes : /\ {k.pipe[q].nread, k.pipe[q].nwrite} \subseteq 0..WRAP - 1
                      /\ Filled(k, q) <= PIPESIZE
  /\ \A s \in Slots :
       /\ k.proc[s].state \in {"UNUSED", "EMBRYO", "RUNNABLE", "SLEEPING", "ZOMBIE"}
       /\ k.proc[s].ofile \in [Fds -> FileIds \cup {0}]
       /\ k.proc[s].parent \in Slots \cup {0} /\ k.proc[s].cwd \in Inums \cup {0}
  /\ k.free \in 0..MEMORY

(* The tests of usertests.c and the other programs get the results that    *)
(* they ask for, and no sequence of their system calls leads to a panic,   *)
(* whatever the order in which their processes run.                        *)
TestsPass == ~oops /\ k.fault = "none"

(* A file is referenced once for each descriptor, and an inode in memory   *)
(* once for each open file, each current directory and each lookup in      *)
(* progress (file.c and the comment at the head of fs.c).  Symbolic links  *)
(* leave references behind.                                                *)
RefsExact ==
  /\ \A f \in FileIds : k.file[f].ref = Count(Slots, Fds, LAMBDA s, fd : k.proc[s].ofile[fd] = f)
  /\ \A i \in Inums :
       LET n == Cardinality({f \in FileIds : k.file[f].type = "inode" /\ k.file[f].ip = i})
                + Cardinality({s \in Slots : k.proc[s].cwd = i})
                + Cardinality({s \in Slots : k.proc[s].ip = i})
                + Cardinality({s \in Slots : k.proc[s].old = i})
       IN  IF test = "links" THEN k.ino[i].ref >= n ELSE k.ino[i].ref = n

(* The directories are well formed at every step of the calls: names are   *)
(* unique and lead to inodes in use; an inode's nlink is the number of     *)
(* entries that lead to it ("." apart), with one more for a link call that *)
(* has not made its entry; one that nothing leads to is freed with its     *)
(* last reference (create, link, unlink, iput).  A file made in a          *)
(* directory that is being removed keeps a link too many, which only the   *)
(* program "anything" does (see LinksCounted).                             *)
Linked(i) == {x \in UNION {{<<d, j>> : j \in DOMAIN k.ino[d].body} : d \in Dirs} :
                LET e == k.ino[x[1]].body[x[2]] IN e.inum = i /\ e.name # "."}
LinksSound ==
  /\ \A d \in Dirs : \A j, h \in DOMAIN k.ino[d].body :
       LET e == k.ino[d].body[j]
           f == k.ino[d].body[h]
       IN  e.inum # 0 => k.ino[e.inum].type # "none" /\ (f.inum # 0 /\ j # h => e.name # f.name)
  /\ \A i \in Inums : IF k.ino[i].type = "none" THEN k.ino[i] = NoInode ELSE
       /\ k.ino[i].nlink = 0 => k.ino[i].ref > 0
       /\ k.ino[i].nlink >= Cardinality(Linked(i))
       /\ test # "anything" => k.ino[i].nlink <= Cardinality(Linked(i))
                                              + Cardinality({s \in Slots : k.proc[s].old = i})

(* Between calls the link count of an inode is the number of entries that  *)
(* lead to it, as the head of fs.c has it.  create makes its entry in the  *)
(* directory it has looked up also when unlink has removed it meanwhile.   *)
Between == \A s \in Slots : ~k.proc[s].busy
LinksCounted ==
  Between => \A i \in Inums : k.ino[i].type # "none" => k.ino[i].nlink = Cardinality(Linked(i))

(* Every call that begins an operation of the log ends it (log.c): between *)
(* calls none is outstanding.  sys_symlink returns without end_op.         *)
OpsEnd == Between => k.outstanding = 0

(* Every page is free, or held by one process, one unfinished call or one  *)
(* pipe: neither fork, exec, sbrk, pipe nor exit and wait loses one, also  *)
(* where memory runs out in the middle of a call because other processes   *)
(* take pages at the same time.                                            *)
PagesExact ==
  LET Sum[s \in 0..NPROC] == IF s = 0 THEN 0 ELSE Sum[s - 1] + Held(k.proc[s]) + k.proc[s].held
  IN  k.free + Sum[NPROC] + Cardinality({q \in Pipes : k.pipe[q].used}) = MEMORY

(* Who sleeps has a reason: an empty pipe with a writer, a full pipe with  *)
(* a reader, children of which none is a zombie.  Nobody sleeps on once    *)
(* killed.                                                                 *)
SleepersWait ==
  \A s \in Slots : k.proc[s].state = "SLEEPING" =>
    LET c == k.proc[s].chan
    IN  /\ ~k.proc[s].killed
        /\ c[1] = "nread" => k.pipe[c[2]].writeopen /\ Filled(k, c[2]) = 0
        /\ c[1] = "nwrite" => k.pipe[c[2]].readopen /\ Filled(k, c[2]) = PIPESIZE
        /\ c[1] = "wait" => /\ \E h \in Slots : k.proc[h].parent = s
                            /\ \A h \in Slots : k.proc[h].parent = s => k.proc[h].state # "ZOMBIE"

(* Every process but init has a parent that can still wait for it. *)
Adopted ==
  \A s \in Live \ {initproc} :
    k.proc[s].state # "EMBRYO" => k.proc[k.proc[s].parent].state \notin {"UNUSED", "ZOMBIE"}

(* Every test comes to its end, and init has waited for all processes. *)
TestsEnd == <>[](Live = {initproc})

(* Files and directories are counted exactly: references of inodes, files  *)
(* and pipe ends (idup, iput, filedup, fileclose), and links (create,      *)
(* sys_link, sys_unlink).                                                  *)
FilesExact == RefsExact /\ LinksSound

=============================================================================
