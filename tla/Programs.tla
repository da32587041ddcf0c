------------------------------ MODULE Programs ------------------------------
(***************************************************************************)
(* User programs of pj3 as sequences of system calls: usertests.c, the     *)
(* programs test1.c to test4.c, init, the shell's runcmd and small tools.  *)
(* A call says what the program expects of it; where the C code prints a   *)
(* complaint and gives up, the expectation is not met.  Messages are left  *)
(* out.  Sizes are scaled: strings and blocks are a few units, loops run a *)
(* few rounds, and where the code starts four children there are two.      *)
(***************************************************************************)
EXTENDS Integers, Sequences

CONSTANTS IMAGE, PGSIZE   \* memory of a program, of a page

Any == -1..99
Ok  == 0..99

Call(op) == [op |-> op, path |-> <<>>, path2 |-> <<>>, mode |-> {}, fd |-> "fd", n |-> 0,
             data |-> <<>>, want |-> Ok, var |-> "none", see |-> {}, loop |-> "no",
             child |-> "", bad |-> FALSE, alts |-> <<>>, alt |-> 0]

(* Expectations: failure, anything, one result, certain data. *)
Fails(c)      == [c EXCEPT !.want = {-1}]
Tries(c)      == [c EXCEPT !.want = Any]
Gives(c, r)   == [c EXCEPT !.want = {r}]
Sees(c, data) == [c EXCEPT !.want = {Len(data)}, !.see = {data}]
Keep(c, var)  == [c EXCEPT !.var = var]
Loop(c, how)  == [c EXCEPT !.loop = how]
Either(s)     == [Call("either") EXCEPT !.alts = s]

RW     == {"CREATE", "RDWR"}
Open(path, mode)  == [Call("open") EXCEPT !.path = path, !.mode = mode, !.var = "fd"]
Close(fd)         == Tries([Call("close") EXCEPT !.fd = fd])
Write(fd, data)   == [Call("write") EXCEPT !.fd = fd, !.data = data, !.want = {Len(data)}]
Read(fd, n)       == [Call("read") EXCEPT !.fd = fd, !.n = n]
Drain(fd, data)   == [Loop(Read(fd, 1), "drain") EXCEPT !.see = {data}]
Unlink(path)      == Tries([Call("unlink") EXCEPT !.path = path])
Unlinks(path)     == Gives(Unlink(path), 0)
Mkdir(path)       == [Call("mkdir") EXCEPT !.path = path]
Chdir(path)       == [Call("chdir") EXCEPT !.path = path]
Link(old, new)    == [Call("link") EXCEPT !.path = old, !.path2 = new]
Symlink(old, new) == [Call("symlink") EXCEPT !.path = old, !.path2 = new]
Fork(child)       == Keep([Call("fork") EXCEPT !.child = child], "pid")
Wait              == Tries(Call("wait"))
Kill(pid)         == Tries([Call("kill") EXCEPT !.fd = pid])
Sbrk(n)           == [Call("sbrk") EXCEPT !.n = n]
SleepFor(n)       == Tries([Call("sleep") EXCEPT !.n = n])
Exec(path, args, prog) == [Call("exec") EXCEPT !.path = path, !.n = args, !.child = prog]
Pipe              == Call("pipe")
Dup(fd)           == [Call("dup") EXCEPT !.fd = fd]
Touch(addr)       == [Call("touch") EXCEPT !.n = addr]
Spin              == Call("spin")
Fstat(type, nlink) == [Call("fstat") EXCEPT !.see = {<<type, nlink>>}]

text  == 40   \* the contents of README, and something else
other == 41

Repeat(n, F(_)) ==
  LET R[i \in 0..n] == IF i = 0 THEN <<>> ELSE R[i - 1] \o F(i)
  IN  R[n]
-----------------------------------------------------------------------------
iputtest ==
  <<Mkdir(<<"iputdir">>), Chdir(<<"iputdir">>), Unlinks(<<"..", "iputdir">>), Chdir(<<"/">>)>>

exitiputtest_child ==
  <<Mkdir(<<"iputdir">>), Chdir(<<"iputdir">>), Unlinks(<<"..", "iputdir">>)>>
exitiputtest == <<Fork("exitiputtest_child"), Wait>>

openiputtest_child == <<Fails(Open(<<"oidir">>, {"RDWR"}))>>
openiputtest ==
  <<Mkdir(<<"oidir">>), Fork("openiputtest_child"), SleepFor(1), Unlinks(<<"oidir">>), Wait>>

opentest ==
  <<Open(<<"echo">>, {}), Close("fd"), Fails(Open(<<"doesnotexist">>, {}))>>

writetest ==
  <<Open(<<"small">>, RW)>>
  \o Repeat(2, LAMBDA i : <<Write("fd", <<"a">>), Write("fd", <<"b">>)>>)
  \o <<Close("fd"), Open(<<"small">>, {}), Sees(Read("fd", 4), <<"a", "b", "a", "b">>),
       Close("fd"), Unlinks(<<"small">>)>>

writetest1 ==
  <<Open(<<"big">>, RW)>> \o Repeat(5, LAMBDA i : <<Write("fd", <<i>>)>>)
  \o <<Close("fd"), Open(<<"big">>, {})>> \o Repeat(5, LAMBDA i : <<Sees(Read("fd", 1), <<i>>)>>)
  \o <<Gives(Read("fd", 1), 0), Close("fd"), Unlinks(<<"big">>)>>

Many == <<"a0", "a1", "a2">>
createtest ==
  Repeat(Len(Many), LAMBDA i : <<Tries(Open(<<Many[i]>>, RW)), Close("fd")>>)
  \o Repeat(Len(Many), LAMBDA i : <<Unlink(<<Many[i]>>)>>)

dirtest ==
  <<Mkdir(<<"dir0">>), Chdir(<<"dir0">>), Chdir(<<"..">>), Unlinks(<<"dir0">>)>>

exectest == <<Exec(<<"echo">>, 1, "echo")>>

(* The reader asks for more each time. *)
pipe1_child ==
  <<Close("r")>> \o Repeat(2, LAMBDA n : <<Write("w", <<3 * n, 3 * n + 1, 3 * n + 2>>)>>)
pipe1 ==
  <<Gives(Pipe, 0), Fork("pipe1_child"), Close("w"), Drain("r", <<3, 4, 5, 6, 7, 8>>),
    Close("r"), Wait>>

spin == <<Spin>>
preempt_child == <<Close("r"), Write("w", <<7>>), Close("w"), Spin>>
preempt ==
  <<Keep(Fork("spin"), "a"), Keep(Fork("spin"), "b"), Pipe, Keep(Fork("preempt_child"), "c"),
    Close("w"), Sees(Read("r", 9), <<7>>), Close("r"),
    Kill("a"), Kill("b"), Kill("c"), Wait, Wait, Wait>>

nothing == <<>>
(* wait returns the pid of the child. *)
exitwait == Repeat(2, LAMBDA i : <<Fork("nothing"), Loop(Call("wait"), "pid")>>)

(* malloc until it fails, in steps of sbrk; then again. *)
mem_child == <<Loop(Sbrk(2 * PGSIZE), "ok"), Fails(Sbrk(2 * PGSIZE)), Sbrk(0 - PGSIZE), Sbrk(PGSIZE)>>
mem == <<Fork("mem_child"), Wait>>

(* Two processes share an offset: no write is lost. *)
sharedfd_child == Repeat(2, LAMBDA i : <<Write("fd", <<"c", "c">>)>>)
Shuffles ==
  {s \in [1..4 -> {<<"c", "c">>, <<"p", "p">>}] : \E i, j \in 1..4 :
     i # j /\ \A h \in 1..4 : s[h] = <<"c", "c">> <=> h \in {i, j}}
sharedfd ==
  <<Unlink(<<"sharedfd">>), Open(<<"sharedfd">>, RW), Fork("sharedfd_child")>>
  \o Repeat(2, LAMBDA i : <<Write("fd", <<"p", "p">>)>>)
  \o <<Wait, Close("fd"), Open(<<"sharedfd">>, {}),
       [Gives(Read("fd", 8), 8) EXCEPT !.see = {s[1] \o s[2] \o s[3] \o s[4] : s \in Shuffles}],
       Close("fd"), Unlink(<<"sharedfd">>)>>

FourNames == <<"f0", "f1">>
fourfiles_child(i) == <<Open(<<FourNames[i]>>, RW), Write("fd", <<i>>), Write("fd", <<i>>)>>
fourfiles ==
  <<Unlink(<<"f0">>), Fork("fourfiles_0"), Unlink(<<"f1">>), Fork("fourfiles_1"), Wait, Wait>>
  \o Repeat(2, LAMBDA i : <<Open(<<FourNames[i]>>, {}), Drain("fd", <<i, i>>), Close("fd"),
                            Unlink(<<FourNames[i]>>)>>)

(* createdelete: name 1 is deleted again after name 2 has been made.  The  *)
(* last loop of the code unlinks other names.                              *)
CD == <<<<"p0", "p1", "p2">>, <<"q0", "q1", "q2">>>>
createdelete_child(pi) ==
  Repeat(3, LAMBDA i : <<Open(<<CD[pi][i]>>, RW), Close("fd")>>
                       \o IF i = 3 THEN <<Unlinks(<<CD[pi][2]>>)>> ELSE <<>>)
createdelete ==
  <<Fork("createdelete_0"), Fork("createdelete_1"), Wait, Wait>>
  \o Repeat(2, LAMBDA pi :
       <<Open(<<CD[pi][1]>>, {}), Close("fd"), Fails(Open(<<CD[pi][2]>>, {})),
         Open(<<CD[pi][3]>>, {}), Close("fd")>>)
  \o <<Unlink(<<"p0">>), Unlink(<<"q1">>)>>

unlinkread ==
  <<Open(<<"unlinkread">>, RW), Write("fd", <<"h", "i">>), Close("fd"),
    Open(<<"unlinkread">>, {"RDWR"}), Unlinks(<<"unlinkread">>),
    Keep(Open(<<"unlinkread">>, RW), "fd1"), Write("fd1", <<"y">>), Close("fd1"),
    Sees(Read("fd", 9), <<"h", "i">>), Write("fd", <<"h", "i">>), Close("fd"),
    Unlink(<<"unlinkread">>)>>

linktest ==
  <<Unlink(<<"lf1">>), Unlink(<<"lf2">>), Open(<<"lf1">>, RW), Write("fd", <<"h">>), Close("fd"),
    Link(<<"lf1">>, <<"lf2">>), Unlink(<<"lf1">>), Fails(Open(<<"lf1">>, {})),
    Open(<<"lf2">>, {}), Sees(Read("fd", 9), <<"h">>), Close("fd"),
    Fails(Link(<<"lf2">>, <<"lf2">>)), Unlink(<<"lf2">>),
    Fails(Link(<<"lf2">>, <<"lf1">>)), Fails(Link(<<".">>, <<"lf1">>))>>

(* concreate: who makes a file and who links it depends on its number; the *)
(* numbers 0, 1, 4 and 6 give all combinations.                            *)
CC == <<0, 1, 4, 6>>
CName == <<"C0", "C1", "C4", "C6">>
MakeC(i, linked) ==
  IF linked THEN <<Tries(Link(<<"C0">>, <<CName[i]>>))>>
  ELSE <<Open(<<CName[i]>>, RW), Close("fd")>>
concreate_make(i) == MakeC(i, CC[i] % 5 = 1)
UseC(i, opens) ==
  IF opens THEN Repeat(2, LAMBDA j : <<Tries(Open(<<CName[i]>>, {})), Close("fd")>>)
  ELSE Repeat(2, LAMBDA j : <<Unlink(<<CName[i]>>)>>)
concreate_use(i) == UseC(i, CC[i] % 3 = 0)
concreate ==
  LET Makers == <<"concreate_m0", "concreate_m1", "concreate_m4", "concreate_m6">>
      Users  == <<"concreate_u0", "concreate_u1", "concreate_u4", "concreate_u6">>
  IN  Repeat(4, LAMBDA i : <<Unlink(<<CName[i]>>), Fork(Makers[i])>> \o MakeC(i, CC[i] % 3 = 1)
                           \o <<Wait>>)
      \o <<Open(<<".">>, {}), Read("fd", 50), Close("fd")>>
      \o Repeat(4, LAMBDA i : <<Open(<<CName[i]>>, {}), Close("fd")>>)
      \o Repeat(4, LAMBDA i : <<Fork(Users[i])>> \o UseC(i, CC[i] % 3 = 1) \o <<Wait>>)

(* The code draws random numbers. *)
Random ==
  Repeat(2, LAMBDA i : <<Either(<<Tries(Open(<<"x">>, RW)), Tries(Link(<<"cat">>, <<"x">>)),
                                  Unlink(<<"x">>)>>), Close("fd")>>)
linkunlink == <<Unlink(<<"x">>), Fork("linkunlink_child")>> \o Random \o <<Wait>>

bigdir ==
  LET X == <<"x0", "x1", "x2">>
  IN  <<Unlink(<<"bd">>), Open(<<"bd">>, {"CREATE"}), Close("fd")>>
      \o Repeat(3, LAMBDA i : <<Link(<<"bd">>, <<X[i]>>)>>) \o <<Unlink(<<"bd">>)>>
      \o Repeat(3, LAMBDA i : <<Unlinks(<<X[i]>>)>>)

subdir_end ==
  <<Unlinks(<<"dd", "dd", "ffff">>), Unlinks(<<"dd", "ff">>), Fails(Unlink(<<"dd">>)),
    Unlinks(<<"dd", "dd">>), Unlinks(<<"dd">>)>>
subdir ==
  <<Unlink(<<"ff">>), Mkdir(<<"dd">>), Open(<<"dd", "ff">>, RW), Write("fd", <<"f">>), Close("fd"),
    Fails(Unlink(<<"dd">>)), Mkdir(<<"/", "dd", "dd">>), Open(<<"dd", "dd", "ff">>, RW),
    Write("fd", <<"F">>), Close("fd"), Open(<<"dd", "dd", "..", "ff">>, {}),
    Sees(Read("fd", 9), <<"f">>), Close("fd"),
    Link(<<"dd", "dd", "ff">>, <<"dd", "dd", "ffff">>), Unlinks(<<"dd", "dd", "ff">>),
    Fails(Open(<<"dd", "dd", "ff">>, {})),
    Chdir(<<"dd">>), Chdir(<<"dd", "..", "..", "dd">>), Chdir(<<"dd", "..", "..", "..", "dd">>),
    Chdir(<<".", "..">>), Open(<<"dd", "dd", "ffff">>, {}), Sees(Read("fd", 9), <<"F">>),
    Close("fd"), Fails(Open(<<"dd", "dd", "ff">>, {})), Fails(Open(<<"dd", "ff", "ff">>, RW)),
    Fails(Open(<<"dd", "xx", "ff">>, RW)), Fails(Open(<<"dd">>, {"CREATE"})),
    Fails(Open(<<"dd">>, {"RDWR"})), Fails(Open(<<"dd">>, {"WRONLY"})),
    Fails(Link(<<"dd", "ff", "ff">>, <<"dd", "dd", "xx">>)),
    Fails(Link(<<"dd", "xx", "ff">>, <<"dd", "dd", "xx">>)),
    Fails(Link(<<"dd", "ff">>, <<"dd", "dd", "ffff">>)), Fails(Mkdir(<<"dd", "ff", "ff">>)),
    Fails(Mkdir(<<"dd", "xx", "ff">>)), Fails(Mkdir(<<"dd", "dd", "ffff">>)),
    Fails(Unlink(<<"dd", "xx", "ff">>)), Fails(Unlink(<<"dd", "ff", "ff">>)),
    Fails(Chdir(<<"dd", "ff">>)), Fails(Chdir(<<"dd", "xx">>))>> \o subdir_end

(* Writes of less and of more than one transaction. *)
bigwrite ==
  <<Unlink(<<"bigwrite">>)>>
  \o Repeat(2, LAMBDA i :
       LET data == [j \in 1..3 * i - 2 |-> j]
       IN  <<Open(<<"bigwrite">>, RW), Write("fd", data), Write("fd", data), Close("fd"),
             Unlink(<<"bigwrite">>)>>)

(* Written in pieces of two, read one by one. *)
bigfile ==
  <<Unlink(<<"bigfile">>), Open(<<"bigfile">>, RW)>>
  \o Repeat(3, LAMBDA i : <<Write("fd", <<i, i>>)>>) \o <<Close("fd"), Open(<<"bigfile">>, {})>>
  \o Repeat(6, LAMBDA i : <<Sees(Read("fd", 1), <<(i + 1) \div 2>>)>>)
  \o <<Gives(Read("fd", 1), 0), Close("fd"), Unlink(<<"bigfile">>)>>

N14 == "12345678901234"
N15 == "123456789012345"
fourteen ==
  <<Mkdir(<<N14>>), Mkdir(<<N14, N15>>), Open(<<N15, N15, N15>>, {"CREATE"}), Close("fd"),
    Open(<<N14, N14, N14>>, {}), Close("fd"), Fails(Mkdir(<<N14, N14>>)), Fails(Mkdir(<<N15, N14>>))>>

rmdot ==
  <<Mkdir(<<"dots">>), Chdir(<<"dots">>), Fails(Unlink(<<".">>)), Fails(Unlink(<<"..">>)),
    Chdir(<<"/">>), Fails(Unlink(<<"dots", ".">>)), Fails(Unlink(<<"dots", "..">>)),
    Unlinks(<<"dots">>)>>

dirfile ==
  <<Open(<<"dirfile">>, {"CREATE"}), Close("fd"), Fails(Chdir(<<"dirfile">>)),
    Fails(Open(<<"dirfile", "xx">>, {})), Fails(Open(<<"dirfile", "xx">>, {"CREATE"})),
    Fails(Mkdir(<<"dirfile", "xx">>)), Fails(Unlink(<<"dirfile", "xx">>)),
    Fails(Link(<<"README">>, <<"dirfile", "xx">>)), Unlinks(<<"dirfile">>),
    Fails(Open(<<".">>, {"RDWR"})), Open(<<".">>, {}), Fails(Write("fd", <<"x">>)), Close("fd")>>

(* The code goes NINODE + 1 directories deep. *)
iref ==
  Repeat(2, LAMBDA i :
    <<Mkdir(<<"irefd">>), Chdir(<<"irefd">>), Tries(Mkdir(<<>>)), Tries(Link(<<"README">>, <<>>)),
      Tries(Open(<<>>, {"CREATE"})), Close("fd"), Tries(Open(<<"xx">>, {"CREATE"})), Close("fd"),
      Unlink(<<"xx">>)>>)
  \o <<Chdir(<<"/">>)>>

(* Also the program forktest.c. *)
forktest ==
  <<Loop(Fork("nothing"), "count"), Loop(Call("wait"), "uncount"), Fails(Call("wait"))>>

(* sbrk by less than a page; grow, shrink, grow again; back to the start;  *)
(* children that are given too little memory.                              *)
BIG == IMAGE + 3 * PGSIZE
sbrktest_grow == <<Gives(Sbrk(1), IMAGE + 3), Gives(Sbrk(1), IMAGE + 4)>>
sbrktest_peek == <<Touch(99)>>
sbrktest_hog  == <<Tries(Sbrk(6 * PGSIZE)), Write("w", <<7>>), SleepFor(99)>>
sbrktest ==
  Repeat(3, LAMBDA i : <<Gives(Sbrk(1), IMAGE + i - 1)>>)
  \o <<Fork("sbrktest_grow")>> \o sbrktest_grow
  \o <<Wait, Gives(Sbrk(BIG - IMAGE - 5), IMAGE + 5),
       Gives(Sbrk(0 - PGSIZE), BIG), Gives(Sbrk(0), BIG - PGSIZE),
       Gives(Sbrk(PGSIZE), BIG - PGSIZE), Gives(Sbrk(IMAGE - BIG), BIG),
       Fork("sbrktest_peek"), Wait, Pipe>>
  \o Repeat(2, LAMBDA i : <<Keep(Fork("sbrktest_hog"), IF i = 1 THEN "a" ELSE "b"), Read("r", 1)>>)
  \o <<Sbrk(PGSIZE), Kill("a"), Wait, Kill("b"), Wait, Sbrk(0 - PGSIZE), Close("r"), Close("w")>>

validatetest ==
  <<Fork("nothing"), SleepFor(0), SleepFor(0), Kill("pid"), Wait,
    Fails(Link(<<"nosuchfile">>, <<"bad pointer">>))>>

bigargtest_child == <<Fails(Exec(<<"echo">>, PGSIZE + 1, "echo")), Open(<<"bigarg-ok">>, {"CREATE"}), Close("fd")>>
bigargtest ==
  <<Unlink(<<"bigarg-ok">>), Fork("bigargtest_child"), Wait, Open(<<"bigarg-ok">>, {}),
    Close("fd"), Unlink(<<"bigarg-ok">>)>>

(* A privileged instruction. *)
uio == <<Fork("sbrktest_peek"), Wait>>

argptest ==
  <<Open(<<"init">>, {}), Fails([Read("fd", -1) EXCEPT !.bad = TRUE]), Close("fd")>>

(* main runs them in this order on one image; here each line starts anew. *)
usertests_1 ==
  <<Fails(Open(<<"usertests.ran">>, {})), Open(<<"usertests.ran">>, {"CREATE"}), Close("fd")>>
  \o argptest \o createdelete
usertests_2 == bigargtest \o bigwrite \o bigargtest
usertests_3 == validatetest \o opentest \o writetest \o writetest1 \o createtest
usertests_4 == openiputtest \o exitiputtest \o iputtest \o mem
usertests_5 == exitwait \o rmdot \o fourteen \o bigfile \o subdir
usertests_6 == linktest \o unlinkread \o dirfile \o iref
usertests_7 == forktest \o bigdir \o uio \o exectest
-----------------------------------------------------------------------------
(* write_to_file and test_read of test1.c, save and load of test2.c. *)
FillAndRead(name) ==
  <<Open(<<name>>, RW)>> \o Repeat(3, LAMBDA i : <<Write("fd", <<0, 0, 0>>)>>)
  \o <<Close("fd"), Open(<<name>>, {})>> \o Repeat(3, LAMBDA i : <<Sees(Read("fd", 3), <<0, 0, 0>>)>>)
  \o <<Close("fd")>>
test1 == FillAndRead("6mbfile") \o FillAndRead("16mbfile")

(* Blocks and single words in turn, so that blocks are not aligned. *)
test3 ==
  <<Open(<<"triple">>, RW)>> \o Repeat(2, LAMBDA i : <<Write("fd", <<"A", "A">>)>>)
  \o Repeat(2, LAMBDA i : <<Write("fd", <<"0">>), Write("fd", <<"A", "A">>)>>) \o <<Close("fd")>>

test4 ==
  <<Open(<<"testfile">>, {"CREATE", "WRONLY"}), Write("fd", <<"a">>), Call("sync"),
    Write("fd", <<"b">>), Close("fd")>>

(* ln -s and ln -h, ls, then the file through the links, and rm of both. *)
ln_s == <<Tries(Symlink(<<"README">>, <<"s">>))>>
ln_h == <<Link(<<"README">>, <<"h">>)>>
rm(path) == <<Tries(Unlink(path))>>
ls(path, type, nlink) == <<Open(path, {}), Fstat(type, nlink), Tries(Read("fd", 99)), Close("fd")>>
links ==
  <<Fork("ln_s"), Wait, Fork("ln_h"), Wait>> \o ls(<<"h">>, "file", 2)
  \o <<Open(<<"s">>, {}), Sees(Read("fd", 2), <<text>>), Close("fd"),
       Open(<<"s">>, {"RDWR"}), Write("fd", <<other>>), Close("fd"),
       Open(<<"h">>, {}), Sees(Read("fd", 2), <<other>>), Close("fd"),
       Fork("rm_h"), Wait, Fork("rm_s"), Wait, Fails(Open(<<"s">>, {}))>>
  \o ls(<<"README">>, "file", 1) \o ls(<<".">>, "dir", 1)

(* ln -s twice: the second one finds the name taken. *)
relink == <<Fork("ln_s"), Wait, Fork("ln_s"), Wait>>

(* zombie.c: the parent exits first. *)
zombie == <<Fork("nothing"), SleepFor(1)>>

(* Each process but the last makes one more and then writes its own file. *)
StressNames == <<"stressfs0", "stressfs1">>
stressfs_rest(i) ==
  <<Tries(Open(<<StressNames[i]>>, RW)), Write("fd", <<i>>), Write("fd", <<i>>), Close("fd"),
    Open(<<StressNames[i]>>, {}), Sees(Read("fd", 2), <<i, i>>), Close("fd"), Wait>>
stressfs == <<Fork("stressfs_1")>> \o stressfs_rest(1)

(* runcmd. *)
RunExec(path, prog)    == <<Exec(path, 1, prog)>>
RunRedir(fd, file, mode, rest) == <<Close(fd), Keep(Open(file, mode), "none")>> \o rest
RunList(left, rest)    == <<Fork(left), Wait>> \o rest
RunPipe(left, right)   == <<Pipe, Fork(left), Fork(right), Close("r"), Close("w"), Wait, Wait>>
LeftOf(rest)           == <<Close("1"), Gives(Dup("w"), 1), Close("r"), Close("w")>> \o rest
RightOf(rest)          == <<Close("0"), Gives(Dup("r"), 0), Close("r"), Close("w")>> \o rest
RunBack(cmd)           == <<Fork(cmd)>>

(* The shell: three descriptors are open, then each line is a child.       *)
(*   cat README | cat > out ; cat out    and    echo &                     *)
sh ==
  <<Keep(Open(<<"console">>, {"RDWR"}), "fd"), Close("fd"),
    Fork("sh_list"), Wait, Fork("sh_back"), Wait, Open(<<"out">>, {}),
    Sees(Read("fd", 9), <<text>>), Close("fd"), Unlinks(<<"out">>)>>

cat(fd) == <<[Call("cat") EXCEPT !.fd = fd, !.n = 2]>>
cat_main(path) == <<Open(path, {})>> \o cat("fd") \o <<Close("fd")>>
echo == <<Write("1", <<"hi">>)>>

(* mkdir.c, kill.c and forktest.c, one after the other: the directory is    *)
(* there, the process that runs for ever is gone, and so are the children. *)
mkdir(path) == <<Tries(Mkdir(path))>>
kill(pid)   == <<Kill(pid)>>
forktest_c  == forktest
commands ==
  <<Fork("mkdir_d"), Wait, Chdir(<<"d">>), Chdir(<<"..">>), Unlinks(<<"d">>),
    Keep(Fork("spin"), "a"), Fork("kill_a"), Call("wait"), Call("wait"), Fork("forktest_c"), Wait>>

(* Calls in any order, by two processes at once, with memory for one of    *)
(* them to grow; names are absolute.                                       *)
AnyCalls(n) ==
  Repeat(n, LAMBDA i :
    <<Either(<<Tries(Open(<<"/", "a">>, RW)), Tries(Mkdir(<<"/", "d">>)), Tries(Chdir(<<"/", "d">>)),
              Tries(Open(<<"/", "d">>, {})), Tries(Open(<<"/", "d", "a">>, {"CREATE"})),
              Tries(Link(<<"/", "a">>, <<"/", "d", "a">>)), Unlink(<<"/", "a">>),
              Unlink(<<"/", "d">>), Unlink(<<"/", "d", "a">>), Tries(Sbrk(8 * PGSIZE))>>)>>)
anything == <<Tries(Mkdir(<<"/", "d">>)), Fork("anything_child")>> \o AnyCalls(2) \o <<Wait>>

(* Descriptors 0, 1 and 2, one program, and then zombies are waited for.  *)
(* The code starts the program again when it has ended.                    *)
init(prog) ==
  <<Fails(Open(<<"console">>, {"RDWR"})), Gives([Call("mknod") EXCEPT !.path = <<"console">>], 0),
    Gives(Open(<<"console">>, {"RDWR"}), 0), Gives(Dup("0"), 1), Gives(Dup("0"), 2),
    Fork(prog), Loop(Wait, "ok")>>
=============================================================================
