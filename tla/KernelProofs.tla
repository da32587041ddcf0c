---------------------------- MODULE KernelProofs ----------------------------
(***************************************************************************)
(* Proofs about locks, sleep and wakeup, the buffer cache and the disk     *)
(* driver (module Kernel), for every number of processors, processes,      *)
(* buffers and blocks.                                                     *)
(*                                                                         *)
(* The threads of Kernel carry out sequences of instructions, which calls  *)
(* and interrupts make longer.  Pre says when an instruction is in its     *)
(* place: which locks are held, how far the process is with its buffer     *)
(* (phase), and what the thread does for the disk's interrupt (duty).      *)
(* Runs says so of a whole sequence, each instruction with what the ones   *)
(* before it leave.  The first part shows Runs of every function of the    *)
(* kernel and of every script.  The invariant Good says that every thread  *)
(* runs, that ncli counts its locks, and how the phases of the processes   *)
(* and the duties of the processors go with buffers, queue and disk.  One  *)
(* lemma per action shows that it is kept.                                 *)
(***************************************************************************)
EXTENDS Kernel, Recursion, FiniteSetTheorems, TLAPS
-----------------------------------------------------------------------------
(* Sequences of instructions. *)
IsSeq(s) == \E S : s \in Seq(S)
Has(s, x) == \E j \in DOMAIN s : s[j] = x
HasName(s, n) == \E j \in DOMAIN s : s[j][1] = n

Cons(x, t) == <<x>> \o t

(* The empty sequence. *)
LEMMA EmptySeq == IsSeq(<<>>)
BY <<>> \in Seq({}) DEF IsSeq

(* A sequence with one more instruction in front. *)
LEMMA ConsSeq ==
  ASSUME NEW x, NEW t, IsSeq(t)
  PROVE  /\ IsSeq(Cons(x, t)) /\ Cons(x, t) # <<>>
         /\ Cons(x, t)[1] = x /\ Head(Cons(x, t)) = x /\ Tail(Cons(x, t)) = t
<1>1. PICK S : t \in Seq(S)
  BY DEF IsSeq
<1>2. <<x>> \o t \in Seq(S \cup {x})
  BY <1>1
<1>3. <<x>> \o t # <<>> /\ (<<x>> \o t)[1] = x /\ Head(<<x>> \o t) = x /\ Tail(<<x>> \o t) = t
  BY <1>1
<1> QED BY <1>2, <1>3 DEF IsSeq, Cons

(* A sequence is its head in front of its tail. *)
LEMMA TailSeq ==
  ASSUME NEW s, IsSeq(s), s # <<>>
  PROVE  IsSeq(Tail(s)) /\ s = Cons(Head(s), Tail(s)) /\ Head(s) = s[1] /\ 1 \in DOMAIN s
<1>1. PICK S : s \in Seq(S)
  BY DEF IsSeq
<1> QED BY <1>1 DEF IsSeq, Cons

(* Concatenation gives a sequence, *)
LEMMA CatSeq ==
  ASSUME NEW s, NEW t, IsSeq(s), IsSeq(t)
  PROVE  IsSeq(s \o t)
<1>1. PICK S : s \in Seq(S)
  BY DEF IsSeq
<1>2. PICK T : t \in Seq(T)
  BY DEF IsSeq
<1>3. s \o t \in Seq(S \cup T)
  BY <1>1, <1>2
<1> QED BY <1>3 DEF IsSeq

(* is associative, *)
LEMMA CatAssoc ==
  ASSUME NEW s, NEW t, NEW u, IsSeq(s), IsSeq(t), IsSeq(u)
  PROVE  (s \o t) \o u = s \o (t \o u)
<1>1. PICK S : s \in Seq(S)
  BY DEF IsSeq
<1>2. PICK T : t \in Seq(T)
  BY DEF IsSeq
<1>3. PICK U : u \in Seq(U)
  BY DEF IsSeq
<1> QED BY <1>1, <1>2, <1>3

(* and has the empty sequence as its unit. *)
LEMMA CatEmpty ==
  ASSUME NEW s, IsSeq(s)
  PROVE  <<>> \o s = s /\ s \o <<>> = s
<1>1. PICK S : s \in Seq(S)
  BY DEF IsSeq
<1> QED BY <1>1

(* What a sequence with one more instruction contains. *)
LEMMA HasCons ==
  ASSUME NEW x, NEW t, IsSeq(t), NEW y
  PROVE  Has(Cons(x, t), y) <=> (x = y \/ Has(t, y))
<1>1. PICK S : t \in Seq(S)
  BY DEF IsSeq
<1>2. ASSUME Has(t, y) PROVE Has(<<x>> \o t, y)
  <2>1. PICK j \in DOMAIN t : t[j] = y
    BY <1>2 DEF Has
  <2>2. j + 1 \in DOMAIN (<<x>> \o t) /\ (<<x>> \o t)[j + 1] = y
    BY <1>1, <2>1
  <2> QED BY <2>2 DEF Has
<1>3. ASSUME x = y PROVE Has(<<x>> \o t, y)
  <2>1. 1 \in DOMAIN (<<x>> \o t) /\ (<<x>> \o t)[1] = y
    BY <1>1, <1>3
  <2> QED BY <2>1 DEF Has
<1>4. ASSUME Has(<<x>> \o t, y), x # y PROVE Has(t, y)
  <2>1. PICK j \in DOMAIN (<<x>> \o t) : (<<x>> \o t)[j] = y
    BY <1>4 DEF Has
  <2>2. j - 1 \in DOMAIN t /\ t[j - 1] = y
    BY <1>1, <1>4, <2>1
  <2> QED BY <2>2 DEF Has
<1> QED BY <1>2, <1>3, <1>4 DEF Cons

(* The same for names of instructions. *)
LEMMA HasNameCons ==
  ASSUME NEW x, NEW t, IsSeq(t), NEW n, x[1] = n \/ HasName(t, n)
  PROVE  HasName(Cons(x, t), n)
<1>1. PICK S : t \in Seq(S)
  BY DEF IsSeq
<1>2. ASSUME HasName(t, n) PROVE HasName(<<x>> \o t, n)
  <2>1. PICK j \in DOMAIN t : t[j][1] = n
    BY <1>2 DEF HasName
  <2>2. j + 1 \in DOMAIN (<<x>> \o t) /\ (<<x>> \o t)[j + 1] = t[j]
    BY <1>1, <2>1
  <2> QED BY <2>1, <2>2 DEF HasName
<1>3. ASSUME x[1] = n PROVE HasName(<<x>> \o t, n)
  <2>1. 1 \in DOMAIN (<<x>> \o t) /\ (<<x>> \o t)[1] = x
    BY <1>1, <1>3
  <2> QED BY <2>1, <1>3 DEF HasName
<1> QED BY <1>2, <1>3 DEF Cons

(* A single instruction is a sequence. *)
LEMMA OneSeq ==
  ASSUME NEW x
  PROVE  IsSeq(<<x>>)
<1>1. <<x>> \in Seq({x})
  OBVIOUS
<1> QED BY <1>1 DEF IsSeq

Cat(s, t) == s \o t

(* Concatenations behind the name Cat, which the provers do not flatten. *)
LEMMA CatIsSeq ==
  ASSUME NEW s, NEW t, IsSeq(s), IsSeq(t)
  PROVE  IsSeq(Cat(s, t))
BY CatSeq DEF Cat

(* Its definition. *)
LEMMA CatIs ==
  ASSUME NEW s, NEW t, NEW u, IsSeq(s), IsSeq(t), IsSeq(u)
  PROVE  Cat(Cat(s, t), u) = Cat(s, Cat(t, u))
BY CatAssoc DEF Cat

(* Three, four and five sequences, bracketed to the right. *)
LEMMA Cat3 ==
  ASSUME NEW a, NEW b, NEW t, NEW tb, NEW ta, IsSeq(a), IsSeq(b), IsSeq(t),
         Cat(b, t) = tb, Cat(a, tb) = ta
  PROVE  Cat(Cat(a, b), t) = ta
BY CatIs

(* Four. *)
LEMMA Cat4 ==
  ASSUME NEW a, NEW b, NEW c, NEW t, IsSeq(a), IsSeq(b), IsSeq(c), IsSeq(t),
         NEW tc, NEW tb, NEW ta, Cat(c, t) = tc, Cat(b, tc) = tb, Cat(a, tb) = ta
  PROVE  Cat(Cat(Cat(a, b), c), t) = ta
<1>1. IsSeq(Cat(a, b)) /\ IsSeq(tc)
  BY CatIsSeq
<1>2. Cat(Cat(a, b), tc) = ta
  BY <1>1, Cat3
<1> QED BY <1>1, <1>2, Cat3

(* Five. *)
LEMMA Cat5 ==
  ASSUME NEW a, NEW b, NEW c, NEW d, NEW t, IsSeq(a), IsSeq(b), IsSeq(c), IsSeq(d), IsSeq(t),
         NEW td, NEW tc, NEW tb, NEW ta,
         Cat(d, t) = td, Cat(c, td) = tc, Cat(b, tc) = tb, Cat(a, tb) = ta
  PROVE  Cat(Cat(Cat(Cat(a, b), c), d), t) = ta
<1>1. IsSeq(Cat(a, b)) /\ IsSeq(td)
  BY CatIsSeq
<1>2. IsSeq(Cat(Cat(a, b), c))
  BY <1>1, CatIsSeq
<1>3. Cat(Cat(Cat(a, b), c), td) = ta
  BY <1>1, Cat4
<1> QED BY <1>2, <1>3, Cat3

(* Listed instructions in front of others. *)
LEMMA Unfold ==
  ASSUME NEW s, NEW t, IsSeq(s), IsSeq(t), s # <<>>
  PROVE  s \o t = Cons(Head(s), Tail(s) \o t)
<1>1. PICK S : s \in Seq(S)
  BY DEF IsSeq
<1>2. PICK T : t \in Seq(T)
  BY DEF IsSeq
<1> QED BY <1>1, <1>2 DEF Cons

(* Two instructions in front of a sequence are carried out one by one; *)
LEMMA Unfold2 ==
  ASSUME NEW a, NEW b, NEW t, IsSeq(t)
  PROVE  IsSeq(<<a, b>>) /\ <<a, b>> \o t = Cons(a, Cons(b, t))
<1> DEFINE s1 == <<a, b>>  s2 == <<b>>
<1> SUFFICES IsSeq(s1) /\ s1 \o t = Cons(a, Cons(b, t))
  OBVIOUS
<1>1. s1 \in Seq({a, b})
  OBVIOUS
<1>2. Head(s1) = a
  OBVIOUS
<1>3. Tail(s1) = s2
  OBVIOUS
<1>4. s1 # <<>>
  OBVIOUS
<1>5. s2 \o t = Cons(b, t)
  BY DEF Cons
<1> HIDE DEF s1, s2
<1>6. IsSeq(s1)
  BY <1>1 DEF IsSeq
<1>7. s1 \o t = Cons(a, s2 \o t)
  BY <1>2, <1>3, <1>4, <1>6, Unfold, Zenon
<1> QED BY <1>5, <1>6, <1>7, Zenon

(* three; *)
LEMMA Unfold3 ==
  ASSUME NEW a, NEW b, NEW c, NEW t, IsSeq(t)
  PROVE  IsSeq(<<a, b, c>>) /\ <<a, b, c>> \o t = Cons(a, Cons(b, Cons(c, t)))
<1> DEFINE s1 == <<a, b, c>>  s2 == <<b, c>>  s3 == <<c>>
<1> SUFFICES IsSeq(s1) /\ s1 \o t = Cons(a, Cons(b, Cons(c, t)))
  OBVIOUS
<1>1. s1 \in Seq({a, b, c}) /\ s2 \in Seq({a, b, c})
  OBVIOUS
<1>2. Head(s1) = a /\ Head(s2) = b
  OBVIOUS
<1>3. Tail(s1) = s2 /\ Tail(s2) = s3
  OBVIOUS
<1>4. s1 # <<>> /\ s2 # <<>>
  OBVIOUS
<1>5. s3 \o t = Cons(c, t)
  BY DEF Cons
<1> HIDE DEF s1, s2, s3
<1>6. IsSeq(s1) /\ IsSeq(s2)
  BY <1>1 DEF IsSeq
<1>7. s1 \o t = Cons(a, s2 \o t)
  BY <1>2, <1>3, <1>4, <1>6, Unfold, Zenon
<1>8. s2 \o t = Cons(b, s3 \o t)
  BY <1>2, <1>3, <1>4, <1>6, Unfold, Zenon
<1> QED BY <1>5, <1>6, <1>7, <1>8, Zenon

(* four; *)
LEMMA Unfold4 ==
  ASSUME NEW a, NEW b, NEW c, NEW d, NEW t, IsSeq(t)
  PROVE  IsSeq(<<a, b, c, d>>) /\ <<a, b, c, d>> \o t = Cons(a, Cons(b, Cons(c, Cons(d, t))))
<1> DEFINE s1 == <<a, b, c, d>>  s2 == <<b, c, d>>  s3 == <<c, d>>  s4 == <<d>>
<1> SUFFICES IsSeq(s1) /\ s1 \o t = Cons(a, Cons(b, Cons(c, Cons(d, t))))
  OBVIOUS
<1>1. s1 \in Seq({a, b, c, d}) /\ s2 \in Seq({a, b, c, d}) /\ s3 \in Seq({a, b, c, d})
  OBVIOUS
<1>2. Head(s1) = a /\ Head(s2) = b /\ Head(s3) = c
  OBVIOUS
<1>3. Tail(s1) = s2 /\ Tail(s2) = s3 /\ Tail(s3) = s4
  OBVIOUS
<1>4. s1 # <<>> /\ s2 # <<>> /\ s3 # <<>>
  OBVIOUS
<1>5. s4 \o t = Cons(d, t)
  BY DEF Cons
<1> HIDE DEF s1, s2, s3, s4
<1>6. IsSeq(s1) /\ IsSeq(s2) /\ IsSeq(s3)
  BY <1>1 DEF IsSeq
<1>7. s1 \o t = Cons(a, s2 \o t)
  BY <1>2, <1>3, <1>4, <1>6, Unfold, Zenon
<1>8. s2 \o t = Cons(b, s3 \o t)
  BY <1>2, <1>3, <1>4, <1>6, Unfold, Zenon
<1>9. s3 \o t = Cons(c, s4 \o t)
  BY <1>2, <1>3, <1>4, <1>6, Unfold, Zenon
<1> QED BY <1>5, <1>6, <1>7, <1>8, <1>9, Zenon

(* five; *)
LEMMA Unfold5 ==
  ASSUME NEW a, NEW b, NEW c, NEW d, NEW e, NEW t, IsSeq(t)
  PROVE  IsSeq(<<a, b, c, d, e>>) /\ <<a, b, c, d, e>> \o t = Cons(a, Cons(b, Cons(c, Cons(d, Cons(e, t)))))
<1> DEFINE s1 == <<a, b, c, d, e>>  s2 == <<b, c, d, e>>  s3 == <<c, d, e>>  s4 == <<d, e>>  s5 == <<e>>
<1> SUFFICES IsSeq(s1) /\ s1 \o t = Cons(a, Cons(b, Cons(c, Cons(d, Cons(e, t)))))
  OBVIOUS
<1>1. s1 \in Seq({a, b, c, d, e}) /\ s2 \in Seq({a, b, c, d, e}) /\ s3 \in Seq({a, b, c, d, e}) /\ s4 \in Seq({a, b, c, d, e})
  OBVIOUS
<1>2. Head(s1) = a /\ Head(s2) = b /\ Head(s3) = c /\ Head(s4) = d
  OBVIOUS
<1>3. Tail(s1) = s2 /\ Tail(s2) = s3 /\ Tail(s3) = s4 /\ Tail(s4) = s5
  OBVIOUS
<1>4. s1 # <<>> /\ s2 # <<>> /\ s3 # <<>> /\ s4 # <<>>
  OBVIOUS
<1>5. s5 \o t = Cons(e, t)
  BY DEF Cons
<1> HIDE DEF s1, s2, s3, s4, s5
<1>6. IsSeq(s1) /\ IsSeq(s2) /\ IsSeq(s3) /\ IsSeq(s4)
  BY <1>1 DEF IsSeq
<1>7. s1 \o t = Cons(a, s2 \o t)
  BY <1>2, <1>3, <1>4, <1>6, Unfold, Zenon
<1>8. s2 \o t = Cons(b, s3 \o t)
  BY <1>2, <1>3, <1>4, <1>6, Unfold, Zenon
<1>9. s3 \o t = Cons(c, s4 \o t)
  BY <1>2, <1>3, <1>4, <1>6, Unfold, Zenon
<1>10. s4 \o t = Cons(d, s5 \o t)
  BY <1>2, <1>3, <1>4, <1>6, Unfold, Zenon
<1> QED BY <1>5, <1>6, <1>7, <1>8, <1>9, <1>10, Zenon

(* and seven. *)
LEMMA Unfold7 ==
  ASSUME NEW a, NEW b, NEW c, NEW d, NEW e, NEW f, NEW g, NEW t, IsSeq(t)
  PROVE  IsSeq(<<a, b, c, d, e, f, g>>) /\ <<a, b, c, d, e, f, g>> \o t = Cons(a, Cons(b, Cons(c, Cons(d, Cons(e, Cons(f, Cons(g, t)))))))
<1> DEFINE s1 == <<a, b, c, d, e, f, g>>  s2 == <<b, c, d, e, f, g>>  s3 == <<c, d, e, f, g>>  s4 == <<d, e, f, g>>  s5 == <<e, f, g>>  s6 == <<f, g>>  s7 == <<g>>
<1> SUFFICES IsSeq(s1) /\ s1 \o t = Cons(a, Cons(b, Cons(c, Cons(d, Cons(e, Cons(f, Cons(g, t)))))))
  OBVIOUS
<1>1. s1 \in Seq({a, b, c, d, e, f, g}) /\ s2 \in Seq({a, b, c, d, e, f, g}) /\ s3 \in Seq({a, b, c, d, e, f, g}) /\ s4 \in Seq({a, b, c, d, e, f, g}) /\ s5 \in Seq({a, b, c, d, e, f, g}) /\ s6 \in Seq({a, b, c, d, e, f, g})
  OBVIOUS
<1>2. Head(s1) = a /\ Head(s2) = b /\ Head(s3) = c /\ Head(s4) = d /\ Head(s5) = e /\ Head(s6) = f
  OBVIOUS
<1>3. Tail(s1) = s2 /\ Tail(s2) = s3 /\ Tail(s3) = s4 /\ Tail(s4) = s5 /\ Tail(s5) = s6 /\ Tail(s6) = s7
  OBVIOUS
<1>4. s1 # <<>> /\ s2 # <<>> /\ s3 # <<>> /\ s4 # <<>> /\ s5 # <<>> /\ s6 # <<>>
  OBVIOUS
<1>5. s7 \o t = Cons(g, t)
  BY DEF Cons
<1> HIDE DEF s1, s2, s3, s4, s5, s6, s7
<1>6. IsSeq(s1) /\ IsSeq(s2) /\ IsSeq(s3) /\ IsSeq(s4) /\ IsSeq(s5) /\ IsSeq(s6)
  BY <1>1 DEF IsSeq
<1>7. s1 \o t = Cons(a, s2 \o t)
  BY <1>2, <1>3, <1>4, <1>6, Unfold, Zenon
<1>8. s2 \o t = Cons(b, s3 \o t)
  BY <1>2, <1>3, <1>4, <1>6, Unfold, Zenon
<1>9. s3 \o t = Cons(c, s4 \o t)
  BY <1>2, <1>3, <1>4, <1>6, Unfold, Zenon
<1>10. s4 \o t = Cons(d, s5 \o t)
  BY <1>2, <1>3, <1>4, <1>6, Unfold, Zenon
<1>11. s5 \o t = Cons(e, s6 \o t)
  BY <1>2, <1>3, <1>4, <1>6, Unfold, Zenon
<1>12. s6 \o t = Cons(f, s7 \o t)
  BY <1>2, <1>3, <1>4, <1>6, Unfold, Zenon
<1> QED BY <1>5, <1>6, <1>7, <1>8, <1>9, <1>10, <1>11, <1>12, Zenon

-----------------------------------------------------------------------------
(* What a thread is about to do, as far as it matters to others: the locks *)
(* H that its processor holds, whether it is RUNNING (r), how far it is    *)
(* with its buffer (f), and what it does for the disk's interrupt (g).     *)
Phases == {"none", "claim", "claimD", "got", "has", "mod", "io", "io0", "io1", "io1D", "rel", "ref"}
Static == {"none", "got", "has", "mod"}
Dozing == {"claimD", "io1D"}
Owning == {"got", "has", "mod", "io", "io0", "io1", "io1D", "rel"}
Duties == {"no", "intr", "job"}

Sound(m, H, r, f, g) ==
  /\ r = "off" => ptable \in H
  /\ f = "claimD" => Lk(m) \in H \/ ptable \in H
  /\ f = "io1D" => idelock \in H \/ ptable \in H
  /\ g = "job" => idelock \in H

(* It may do what it likes: nobody counts on what it does next. *)
Loose(r, f, g) == r = "on" /\ f \notin Dozing /\ g = "no"

(* When instruction x of thread k (0: a scheduler), which uses buffer m    *)
(* and goes on with t, is in its place.                                    *)
Pre(k, m, x, t, H, r, f, g) ==
  LET n == x[1]  v == x[2] IN
  CASE n = "acquire" -> /\ r = "on" /\ v \in Locks \ H
                        /\ f \in Dozing => v = ptable
                        /\ g = "intr" => v = idelock /\ HasName(t, "ideintr")
                        /\ g = "job" => v = ptable
    [] n = "release" -> /\ r = "on" /\ v \in H /\ g # "intr"
                        /\ f \in Dozing => v # ptable /\ ptable \in H
                        /\ g = "job" => v = ptable
    [] n = "sti"     -> Loose(r, f, g) /\ H = {}
    [] n = "scan"    -> /\ k = 0 /\ Loose(r, f, g) /\ H = {ptable} /\ v \in 1..Len(Script) + 1
                        /\ t = <<Release(ptable)>>
    [] n = "sched"   -> k # 0 /\ r = "off" /\ H = {ptable} /\ f \notin Dozing /\ g = "no"
    [] n = "intena"  -> k # 0 /\ Loose(r, f, g) /\ H = {ptable} /\ v \in BOOLEAN
    [] n = "doze"    -> /\ k # 0 /\ r = "on" /\ H = {ptable} /\ g = "no"
                        /\ \/ f = "claimD" /\ v = LkChan(m)
                           \/ f = "io1D" /\ v = IoChan(m)
    [] n = "tidy"    -> k # 0 /\ Loose(r, f, g) /\ H = {ptable}
    [] n = "runnable" \/ n = "zombie" -> k # 0 /\ Loose(r, f, g) /\ H = {ptable}
    [] n = "wakeup1" -> /\ r = "on" /\ f \notin Dozing /\ g # "intr" /\ ptable \in H
                        /\ \A i \in Bufs : /\ v = LkChan(i) => Lk(i) \in H
                                           /\ v = IoChan(i) => idelock \in H
    [] n = "locked?" -> k # 0 /\ Loose(r, f, g) /\ v = m /\ f = "claim" /\ H = {Lk(m)}
    [] n = "unlocked" -> /\ k # 0 /\ Loose(r, f, g) /\ v = m /\ f = "rel" /\ H = {Lk(m)}
                         /\ Has(t, <<"wakeup1", LkChan(m)>>)
    [] n = "bget"    -> k # 0 /\ Loose(r, f, g) /\ f = "none" /\ H = {bcache} /\ v \in Blocks
    [] n = "bread"   -> k # 0 /\ Loose(r, f, g) /\ f = "got" /\ H = {}
    [] n = "put"     -> k # 0 /\ Loose(r, f, g) /\ f = "has" /\ H = {} /\ v \in Nat
    [] n = "bwrite" \/ n = "log_write" -> k # 0 /\ Loose(r, f, g) /\ f \in {"has", "mod"} /\ H = {}
    [] n = "brelse"  -> k # 0 /\ Loose(r, f, g) /\ f = "has" /\ H = {}
    [] n = "unref"   -> k # 0 /\ Loose(r, f, g) /\ v = m /\ f = "ref" /\ H = {bcache}
    [] n = "iderw"   -> k # 0 /\ Loose(r, f, g) /\ v = m /\ f = "io" /\ H = {}
    [] n = "enqueue" -> k # 0 /\ Loose(r, f, g) /\ v = m /\ f = "io0" /\ H = {idelock}
    [] n = "finished?" -> k # 0 /\ Loose(r, f, g) /\ v = m /\ f = "io1" /\ H = {idelock}
    [] n = "ideintr" -> r = "on" /\ f \notin Dozing /\ g = "intr" /\ H = {idelock}
    [] n = "nextjob" -> r = "on" /\ f \notin Dozing /\ g = "job" /\ H = {idelock}
    [] OTHER -> FALSE

(* What it leaves when it has been carried out at once. *)
PostH(x, H) ==
  CASE x[1] = "acquire" -> H \cup {x[2]}
    [] x[1] = "release" -> H \ {x[2]}
    [] x[1] = "bget" \/ x[1] = "ideintr" -> {}
    [] OTHER -> H
PostR(x, r) ==
  CASE x[1] = "sched" -> "on"
    [] x[1] = "doze" \/ x[1] = "runnable" \/ x[1] = "zombie" -> "off"
    [] OTHER -> r
PostF(x, f) ==
  CASE x[1] = "doze" -> IF f = "claimD" THEN "claim" ELSE "io1"
    [] x[1] = "locked?" \/ x[1] = "bget" -> "got"
    [] x[1] = "unlocked" -> "ref"
    [] x[1] = "bread" \/ x[1] = "bwrite" \/ x[1] = "log_write" \/ x[1] = "finished?" -> "has"
    [] x[1] = "put" -> "mod"
    [] x[1] = "brelse" \/ x[1] = "unref" -> "none"
    [] x[1] = "iderw" -> "io0"
    [] x[1] = "enqueue" -> "io1"
    [] OTHER -> f
PostG(x, g) == IF x[1] = "ideintr" \/ x[1] = "nextjob" THEN "no" ELSE g

(* A set of threads, each with all that follows from it. *)
Okay(k, m, Z, s, H, r, f, g) ==
  /\ IsSeq(s) /\ Sound(m, H, r, f, g)
  /\ s = <<>> => Loose(r, f, g)
  /\ s # <<>> => /\ Pre(k, m, Head(s), Tail(s), H, r, f, g)
                 /\ <<Tail(s), PostH(Head(s), H), PostR(Head(s), r), PostF(Head(s), f),
                      PostG(Head(s), g)>> \in Z
Closed(k, m, Z) ==
  \A s, H, r, f, g : <<s, H, r, f, g>> \in Z => Okay(k, m, Z, s, H, r, f, g)
Runs(k, m, s, H, r, f, g) == \E Z : <<s, H, r, f, g>> \in Z /\ Closed(k, m, Z)

(* A thread in its place: so is its next instruction, and what follows. *)
LEMMA RunsOne ==
  ASSUME NEW k, NEW m, NEW s, NEW H, NEW r, NEW f, NEW g, Runs(k, m, s, H, r, f, g)
  PROVE  /\ IsSeq(s) /\ Sound(m, H, r, f, g)
         /\ s = <<>> => Loose(r, f, g)
         /\ s # <<>> => /\ Pre(k, m, Head(s), Tail(s), H, r, f, g)
                        /\ Runs(k, m, Tail(s), PostH(Head(s), H), PostR(Head(s), r),
                                PostF(Head(s), f), PostG(Head(s), g))
<1>1. PICK Z : <<s, H, r, f, g>> \in Z /\ Closed(k, m, Z)
  BY DEF Runs
<1>2. Okay(k, m, Z, s, H, r, f, g)
  BY <1>1 DEF Closed
<1> QED BY <1>1, <1>2 DEF Okay, Runs

(* A thread at the end of its instructions. *)
LEMMA RunsNone ==
  ASSUME NEW k, NEW m, NEW H, NEW r, NEW f, NEW g, Sound(m, H, r, f, g), Loose(r, f, g)
  PROVE  Runs(k, m, <<>>, H, r, f, g)
<1> DEFINE Z == {<<<<>>, H, r, f, g>>}
<1>1. Okay(k, m, Z, <<>>, H, r, f, g)
  BY EmptySeq DEF Okay
<1>2. ASSUME NEW s1, NEW H1, NEW r1, NEW f1, NEW g1, <<s1, H1, r1, f1, g1>> \in Z
      PROVE  s1 = <<>> /\ H1 = H /\ r1 = r /\ f1 = f /\ g1 = g
  BY <1>2
<1>3. <<<<>>, H, r, f, g>> \in Z
  OBVIOUS
<1> HIDE DEF Z
<1>4. Closed(k, m, Z)
  BY <1>1, <1>2 DEF Closed
<1> QED BY <1>3, <1>4 DEF Runs

(* One more instruction in front, in its place. *)
LEMMA RunsCons ==
  ASSUME NEW k, NEW m, NEW x, NEW t, NEW H, NEW r, NEW f, NEW g,
         Sound(m, H, r, f, g), Pre(k, m, x, t, H, r, f, g),
         Runs(k, m, t, PostH(x, H), PostR(x, r), PostF(x, f), PostG(x, g))
  PROVE  Runs(k, m, Cons(x, t), H, r, f, g)
<1>1. PICK Y : /\ <<t, PostH(x, H), PostR(x, r), PostF(x, f), PostG(x, g)>> \in Y
               /\ Closed(k, m, Y)
  BY DEF Runs
<1>2. IsSeq(t)
  BY RunsOne
<1> DEFINE new == <<Cons(x, t), H, r, f, g>>
           Z == Y \cup {new}
<1>3. Okay(k, m, Z, Cons(x, t), H, r, f, g)
  BY <1>1, <1>2, ConsSeq DEF Okay
<1>4. ASSUME NEW s1, NEW H1, NEW r1, NEW f1, NEW g1, <<s1, H1, r1, f1, g1>> \in Z
      PROVE  Okay(k, m, Z, s1, H1, r1, f1, g1)
  <2>1. CASE <<s1, H1, r1, f1, g1>> = new
    BY <2>1, <1>3
  <2>2. CASE <<s1, H1, r1, f1, g1>> \in Y
    <3>1. Okay(k, m, Y, s1, H1, r1, f1, g1)
      BY <2>2, <1>1 DEF Closed
    <3>2. Y \subseteq Z
      OBVIOUS
    <3> HIDE DEF Z
    <3> QED BY <3>1, <3>2 DEF Okay
  <2> QED BY <2>1, <2>2, <1>4
<1>5. new \in Z
  OBVIOUS
<1> HIDE DEF Z
<1>6. Closed(k, m, Z)
  BY <1>4 DEF Closed
<1> QED BY <1>5, <1>6 DEF Runs

(* What a process does between system calls does not depend on the buffer  *)
(* it used last.                                                           *)
LEMMA PreStatic ==
  ASSUME NEW k, NEW m, NEW i, NEW x, NEW t, NEW H, NEW r, NEW f \in Static, NEW g,
         Pre(k, m, x, t, H, r, f, g)
  PROVE  Pre(k, i, x, t, H, r, f, g) /\ PostF(x, f) \in Static
BY DEF Pre, PostF, Static, Dozing

(* While a thread depends on no buffer it may get another one. *)
LEMMA Rebind ==
  ASSUME NEW k, NEW m, NEW i, NEW s, NEW H, NEW r, NEW f \in Static, NEW g,
         Runs(k, m, s, H, r, f, g)
  PROVE  Runs(k, i, s, H, r, f, g)
<1>1. PICK Y : <<s, H, r, f, g>> \in Y /\ Closed(k, m, Y)
  BY DEF Runs
<1> DEFINE Z == {y \in Y : \A s1, H1, r1, f1, g1 : y = <<s1, H1, r1, f1, g1>> => f1 \in Static}
<1>2. <<s, H, r, f, g>> \in Z
  BY <1>1
<1>3. ASSUME NEW s1, NEW H1, NEW r1, NEW f1, NEW g1
      PROVE  <<s1, H1, r1, f1, g1>> \in Z <=> <<s1, H1, r1, f1, g1>> \in Y /\ f1 \in Static
  OBVIOUS
<1> HIDE DEF Z
<1>4. ASSUME NEW s1, NEW H1, NEW r1, NEW f1, NEW g1, <<s1, H1, r1, f1, g1>> \in Z
      PROVE  Okay(k, i, Z, s1, H1, r1, f1, g1)
  <2>1. Okay(k, m, Y, s1, H1, r1, f1, g1) /\ f1 \in Static
    BY <1>1, <1>3, <1>4 DEF Closed
  <2>2. IsSeq(s1) /\ Sound(i, H1, r1, f1, g1) /\ (s1 = <<>> => Loose(r1, f1, g1))
    BY <2>1 DEF Okay, Sound, Static
  <2>3. ASSUME s1 # <<>>
        PROVE  /\ Pre(k, i, Head(s1), Tail(s1), H1, r1, f1, g1)
               /\ <<Tail(s1), PostH(Head(s1), H1), PostR(Head(s1), r1), PostF(Head(s1), f1),
                    PostG(Head(s1), g1)>> \in Z
    <3>1. Pre(k, m, Head(s1), Tail(s1), H1, r1, f1, g1)
      BY <2>1, <2>3 DEF Okay
    <3>2. Pre(k, i, Head(s1), Tail(s1), H1, r1, f1, g1) /\ PostF(Head(s1), f1) \in Static
      BY <3>1, <2>1, PreStatic
    <3>3. <<Tail(s1), PostH(Head(s1), H1), PostR(Head(s1), r1), PostF(Head(s1), f1),
            PostG(Head(s1), g1)>> \in Y
      BY <2>1, <2>3 DEF Okay
    <3> QED BY <3>2, <3>3, <1>3
  <2> QED BY <2>2, <2>3 DEF Okay
<1>5. Closed(k, i, Z)
  BY <1>4 DEF Closed
<1> QED BY <1>2, <1>5 DEF Runs
-----------------------------------------------------------------------------
(* What the functions of the kernel do, in these terms. *)
LEMMA LockNames ==
  /\ ptable \in Locks /\ tickslock \in Locks /\ idelock \in Locks /\ bcache \in Locks
  /\ \A i \in Bufs : Lk(i) \in Locks /\ Lk(i) \notin {ptable, tickslock, idelock, bcache}
  /\ ptable \notin {tickslock, idelock, bcache} /\ tickslock \notin {idelock, bcache}
  /\ idelock # bcache
BY DEF Locks, ptable, tickslock, idelock, bcache, Lk

(* Channels of different buffers, and of different kinds, differ. *)
LEMMA ChanNames ==
  /\ \A i, j : LkChan(i) # IoChan(j) /\ Ticks # LkChan(i) /\ Ticks # IoChan(i)
  /\ \A i, j : LkChan(i) = LkChan(j) => i = j
  /\ \A i, j : IoChan(i) = IoChan(j) => i = j
BY DEF LkChan, IoChan, Ticks

(* acquire in front of what needs the lock. *)
LEMMA DoAcquire ==
  ASSUME NEW k, NEW m, NEW t, NEW H, NEW r, NEW f, NEW g, NEW v, NEW H2,
         Loose(r, f, g), v \in Locks \ H, H2 = H \cup {v}, Runs(k, m, t, H2, r, f, g)
  PROVE  Runs(k, m, Cons(Acquire(v), t), H, r, f, g)
<1> DEFINE x == Acquire(v)
<1>1. x[1] = "acquire" /\ x[2] = v
  BY DEF Acquire
<1> HIDE DEF x
<1>2. Sound(m, H, r, f, g)
  BY DEF Sound, Loose, Dozing
<1>3. Pre(k, m, x, t, H, r, f, g)
  BY <1>1 DEF Pre, Loose
<1>4. PostH(x, H) = H2 /\ PostR(x, r) = r /\ PostF(x, f) = f /\ PostG(x, g) = g
  BY <1>1 DEF PostH, PostR, PostF, PostG
<1>5. Runs(k, m, Cons(x, t), H, r, f, g)
  BY <1>2, <1>3, <1>4, RunsCons
<1> QED BY <1>5 DEF x

(* release in front of what does without it. *)
LEMMA DoRelease ==
  ASSUME NEW k, NEW m, NEW t, NEW H, NEW r, NEW f, NEW g, NEW v, NEW H2,
         Loose(r, f, g), v \in H, H2 = H \ {v}, Runs(k, m, t, H2, r, f, g)
  PROVE  Runs(k, m, Cons(Release(v), t), H, r, f, g)
<1> DEFINE x == Release(v)
<1>1. x[1] = "release" /\ x[2] = v
  BY DEF Release
<1> HIDE DEF x
<1>2. Sound(m, H, r, f, g)
  BY DEF Sound, Loose, Dozing
<1>3. Pre(k, m, x, t, H, r, f, g)
  BY <1>1 DEF Pre, Loose
<1>4. PostH(x, H) = H2 /\ PostR(x, r) = r /\ PostF(x, f) = f /\ PostG(x, g) = g
  BY <1>1 DEF PostH, PostR, PostF, PostG
<1>5. Runs(k, m, Cons(x, t), H, r, f, g)
  BY <1>2, <1>3, <1>4, RunsCons
<1> QED BY <1>5 DEF x

(* Any other instruction, with what it leaves. *)
LEMMA DoOther ==
  ASSUME NEW k, NEW m, NEW x, NEW t, NEW H, NEW r, NEW f, NEW g, NEW H2, NEW r2, NEW f2, NEW g2,
         Sound(m, H, r, f, g), Pre(k, m, x, t, H, r, f, g),
         PostH(x, H) = H2, PostR(x, r) = r2, PostF(x, f) = f2, PostG(x, g) = g2,
         Runs(k, m, t, H2, r2, f2, g2)
  PROVE  Runs(k, m, Cons(x, t), H, r, f, g)
BY RunsCons

Sleepy(m, f, f2, l, ch) ==
  \/ f = "claimD" /\ f2 = "claim" /\ l = Lk(m) /\ ch = LkChan(m)
  \/ f = "io1D" /\ f2 = "io1" /\ l = idelock /\ ch = IoChan(m)

(* sleep, with what follows it. *)
LEMMA SleepRuns ==
  ASSUME NEW k, k # 0, NEW m \in Bufs, NEW t, NEW f, NEW f2, NEW l, NEW ch,
         Sleepy(m, f, f2, l, ch), Runs(k, m, t, {l}, "on", f2, "no")
  PROVE  Runs(k, m, Sleep(ch, l) \o t, {l}, "on", f, "no")
<1> DEFINE x1 == Acquire(ptable)     x2 == Release(l)  x3 == <<"doze", ch>>   x4 == <<"sched", "">>
           x5 == <<"tidy", "">>   x6 == Release(ptable)  x7 == Acquire(l)
           t6 == Cons(x6, Cons(x7, t))  t5 == Cons(x5, t6)  t4 == Cons(x4, t5)  t3 == Cons(x3, t4)
           t2 == Cons(x2, t3)
<1>1. /\ x1[1] = "acquire" /\ x1[2] = ptable /\ x2[1] = "release" /\ x2[2] = l
      /\ x3[1] = "doze" /\ x3[2] = ch /\ x4[1] = "sched" /\ x5[1] = "tidy"
  BY DEF Acquire, Release
<1>2. l \in Locks /\ l # ptable /\ ptable \in Locks
  BY LockNames DEF Sleepy
<1>3. IsSeq(t)
  BY RunsOne
<1>4. Sleep(ch, l) \o t = Cons(x1, t2)
  <2>1. Sleep(ch, l) = <<x1, x2, x3, x4, x5, x6, x7>>
    BY DEF Sleep
  <2> HIDE DEF x1, x2, x3, x4, x5, x6, x7
  <2>2. <<x1, x2, x3, x4, x5, x6, x7>> \o t = Cons(x1, t2)
    BY <1>3, Unfold7
  <2> QED BY <2>1, <2>2
<1>5. Loose("on", f2, "no") /\ f2 \notin Dozing /\ f \in Dozing
  BY DEF Loose, Sleepy, Dozing
<1>6. Runs(k, m, Cons(Acquire(l), t), {}, "on", f2, "no")
  BY <1>2, <1>5, DoAcquire
<1>7. Runs(k, m, t6, {ptable}, "on", f2, "no")
  BY <1>2, <1>5, <1>6, DoRelease
<1> HIDE DEF t6, x1, x2, x3, x4, x5
<1>8. Runs(k, m, t5, {ptable}, "on", f2, "no")
  <2>1. Sound(m, {ptable}, "on", f2, "no") /\ Pre(k, m, x5, t6, {ptable}, "on", f2, "no")
    BY <1>1, <1>5 DEF Pre, Sound
  <2>2. PostH(x5, {ptable}) = {ptable} /\ PostR(x5, "on") = "on" /\ PostF(x5, f2) = f2 /\ PostG(x5, "no") = "no"
    BY <1>1 DEF PostH, PostR, PostF, PostG
  <2> QED BY <2>1, <2>2, <1>7, DoOther
<1> HIDE DEF t5
<1>9. Runs(k, m, t4, {ptable}, "off", f2, "no")
  <2>1. Sound(m, {ptable}, "off", f2, "no") /\ Pre(k, m, x4, t5, {ptable}, "off", f2, "no")
    BY <1>1, <1>5 DEF Pre, Sound
  <2>2. PostH(x4, {ptable}) = {ptable} /\ PostR(x4, "off") = "on" /\ PostF(x4, f2) = f2 /\ PostG(x4, "no") = "no"
    BY <1>1 DEF PostH, PostR, PostF, PostG
  <2> QED BY <2>1, <2>2, <1>8, DoOther
<1> HIDE DEF t4
<1>10. Runs(k, m, t3, {ptable}, "on", f, "no")
  <2>1. Sound(m, {ptable}, "on", f, "no") /\ Pre(k, m, x3, t4, {ptable}, "on", f, "no")
    BY <1>1, <1>5 DEF Pre, Sound, Sleepy
  <2>2. PostH(x3, {ptable}) = {ptable} /\ PostR(x3, "on") = "off" /\ PostF(x3, f) = f2 /\ PostG(x3, "no") = "no"
    BY <1>1 DEF PostH, PostR, PostF, PostG, Sleepy
  <2> QED BY <2>1, <2>2, <1>9, DoOther
<1> HIDE DEF t3
<1>11. Runs(k, m, t2, {ptable, l}, "on", f, "no")
  <2>1. Sound(m, {ptable, l}, "on", f, "no") /\ Pre(k, m, x2, t3, {ptable, l}, "on", f, "no")
    BY <1>1, <1>2, <1>5 DEF Pre, Sound
  <2>2. PostH(x2, {ptable, l}) = {ptable}
    BY <1>1, <1>2 DEF PostH
  <2>3. PostR(x2, "on") = "on" /\ PostF(x2, f) = f /\ PostG(x2, "no") = "no"
    BY <1>1 DEF PostR, PostF, PostG
  <2> QED BY <2>1, <2>2, <2>3, <1>10, DoOther
<1> HIDE DEF t2
<1>12. Runs(k, m, Cons(x1, t2), {l}, "on", f, "no")
  <2>1. Sound(m, {l}, "on", f, "no") /\ Pre(k, m, x1, t2, {l}, "on", f, "no")
    BY <1>1, <1>2, <1>5 DEF Pre, Sound, Sleepy
  <2>2. PostH(x1, {l}) = {ptable, l}
    BY <1>1, <1>2 DEF PostH
  <2>3. PostR(x1, "on") = "on" /\ PostF(x1, f) = f /\ PostG(x1, "no") = "no"
    BY <1>1 DEF PostR, PostF, PostG
  <2> QED BY <2>1, <2>2, <2>3, <1>11, DoOther
<1> QED BY <1>4, <1>12

(* bget goes on to acquiresleep of the buffer it found. *)
LEMMA ClaimRuns ==
  ASSUME NEW k, k # 0, NEW m \in Bufs, NEW t,
         Runs(k, m, t, {}, "on", "got", "no")
  PROVE  Runs(k, m, (<<Release(bcache)>> \o acquiresleep(m)) \o t, {bcache}, "on", "claim", "no")
<1> DEFINE x1 == Release(bcache)  x2 == Acquire(Lk(m))  x3 == <<"locked?", m>>  x4 == Release(Lk(m))
           t4 == Cons(x4, t)  t3 == Cons(x3, t4)  t2 == Cons(x2, t3)  t1 == Cons(x1, t2)
<1>1. /\ x1[1] = "release" /\ x1[2] = bcache
      /\ x2[1] = "acquire" /\ x2[2] = Lk(m)
      /\ x3[1] = "locked?" /\ x3[2] = m
      /\ x4[1] = "release" /\ x4[2] = Lk(m)
  BY DEF Acquire, Release
<1>2. bcache \in Locks /\ Lk(m) \in Locks /\ Lk(m) # bcache
  BY LockNames
<1>3. IsSeq(t)
  BY RunsOne
<1>4. (<<Release(bcache)>> \o acquiresleep(m)) \o t = t1
  <2>1. acquiresleep(m) = <<x2, x3, x4>> /\ x1 = Release(bcache)
    BY DEF acquiresleep
  <2> HIDE DEF x1, x2, x3, x4
  <2>2. IsSeq(<<x2, x3, x4>>) /\ <<x2, x3, x4>> \o t = t2
    BY <1>3, Unfold3
  <2> DEFINE a == <<x1>>  b == <<x2, x3, x4>>
  <2>3. IsSeq(a) /\ IsSeq(b) /\ Cat(b, t) = t2 /\ Cat(a, t2) = t1
    BY <2>2, OneSeq DEF Cons, Cat
  <2>4. (<<Release(bcache)>> \o acquiresleep(m)) \o t = Cat(Cat(a, b), t)
    BY <2>1 DEF Cat
  <2> HIDE DEF a, b, t1, t2
  <2>5. Cat(Cat(a, b), t) = t1
    BY <2>3, <1>3, Cat3
  <2> QED BY <2>4, <2>5, Zenon
<1> HIDE DEF x1, x2, x3, x4
<1>5. Runs(k, m, t4, {Lk(m)}, "on", "got", "no")
  <2>1. Sound(m, {Lk(m)}, "on", "got", "no")
    BY <1>2 DEF Sound, Dozing, Loose
  <2>2. Pre(k, m, x4, t, {Lk(m)}, "on", "got", "no")
    BY <1>1, <1>2 DEF Pre, Loose, Dozing
  <2>3. PostH(x4, {Lk(m)}) = {}
    BY <1>1, <1>2 DEF PostH
  <2>4. PostR(x4, "on") = "on" /\ PostF(x4, "got") = "got" /\ PostG(x4, "no") = "no"
    BY <1>1, <1>2 DEF PostR, PostF, PostG
  <2> QED BY <2>1, <2>2, <2>3, <2>4, DoOther
<1> HIDE DEF t4
<1>6. Runs(k, m, t3, {Lk(m)}, "on", "claim", "no")
  <2>1. Sound(m, {Lk(m)}, "on", "claim", "no")
    BY <1>2 DEF Sound, Dozing, Loose
  <2>2. Pre(k, m, x3, t4, {Lk(m)}, "on", "claim", "no")
    BY <1>1, <1>2 DEF Pre, Loose, Dozing
  <2>3. PostH(x3, {Lk(m)}) = {Lk(m)}
    BY <1>1, <1>2 DEF PostH
  <2>4. PostR(x3, "on") = "on" /\ PostF(x3, "claim") = "got" /\ PostG(x3, "no") = "no"
    BY <1>1, <1>2 DEF PostR, PostF, PostG
  <2> QED BY <2>1, <2>2, <2>3, <2>4, <1>5, DoOther
<1> HIDE DEF t3
<1>7. Runs(k, m, t2, {}, "on", "claim", "no")
  <2>1. Sound(m, {}, "on", "claim", "no")
    BY <1>2 DEF Sound, Dozing, Loose
  <2>2. Pre(k, m, x2, t3, {}, "on", "claim", "no")
    BY <1>1, <1>2 DEF Pre, Loose, Dozing
  <2>3. PostH(x2, {}) = {Lk(m)}
    BY <1>1, <1>2 DEF PostH
  <2>4. PostR(x2, "on") = "on" /\ PostF(x2, "claim") = "claim" /\ PostG(x2, "no") = "no"
    BY <1>1, <1>2 DEF PostR, PostF, PostG
  <2> QED BY <2>1, <2>2, <2>3, <2>4, <1>6, DoOther
<1> HIDE DEF t2
<1>8. Runs(k, m, t1, {bcache}, "on", "claim", "no")
  <2>1. Sound(m, {bcache}, "on", "claim", "no")
    BY <1>2 DEF Sound, Dozing, Loose
  <2>2. Pre(k, m, x1, t2, {bcache}, "on", "claim", "no")
    BY <1>1, <1>2 DEF Pre, Loose, Dozing
  <2>3. PostH(x1, {bcache}) = {}
    BY <1>1, <1>2 DEF PostH
  <2>4. PostR(x1, "on") = "on" /\ PostF(x1, "claim") = "claim" /\ PostG(x1, "no") = "no"
    BY <1>1, <1>2 DEF PostR, PostF, PostG
  <2> QED BY <2>1, <2>2, <2>3, <2>4, <1>7, DoOther
<1> QED BY <1>4, <1>8

(* iderw of the buffer that the process has locked. *)
LEMMA IderwRuns ==
  ASSUME NEW k, k # 0, NEW m \in Bufs, NEW t,
         Runs(k, m, t, {}, "on", "has", "no")
  PROVE  Runs(k, m, iderw(m) \o t, {}, "on", "io", "no")
<1> DEFINE x1 == <<"iderw", m>>  x2 == Acquire(idelock)  x3 == <<"enqueue", m>>  x4 == <<"finished?", m>>  x5 == Release(idelock)
           t5 == Cons(x5, t)  t4 == Cons(x4, t5)  t3 == Cons(x3, t4)  t2 == Cons(x2, t3)  t1 == Cons(x1, t2)
<1>1. /\ x1[1] = "iderw" /\ x1[2] = m
      /\ x2[1] = "acquire" /\ x2[2] = idelock
      /\ x3[1] = "enqueue" /\ x3[2] = m
      /\ x4[1] = "finished?" /\ x4[2] = m
      /\ x5[1] = "release" /\ x5[2] = idelock
  BY DEF Acquire, Release
<1>2. idelock \in Locks
  BY LockNames
<1>3. IsSeq(t)
  BY RunsOne
<1>4. iderw(m) \o t = t1
  <2>1. iderw(m) = <<x1, x2, x3, x4, x5>>
    BY DEF iderw
  <2> HIDE DEF x1, x2, x3, x4, x5
  <2>2. <<x1, x2, x3, x4, x5>> \o t = t1
    BY <1>3, Unfold5
  <2> QED BY <2>1, <2>2
<1> HIDE DEF x1, x2, x3, x4, x5
<1>5. Runs(k, m, t5, {idelock}, "on", "has", "no")
  <2>1. Sound(m, {idelock}, "on", "has", "no")
    BY <1>2 DEF Sound, Dozing, Loose
  <2>2. Pre(k, m, x5, t, {idelock}, "on", "has", "no")
    BY <1>1, <1>2 DEF Pre, Loose, Dozing
  <2>3. PostH(x5, {idelock}) = {}
    BY <1>1, <1>2 DEF PostH
  <2>4. PostR(x5, "on") = "on" /\ PostF(x5, "has") = "has" /\ PostG(x5, "no") = "no"
    BY <1>1, <1>2 DEF PostR, PostF, PostG
  <2> QED BY <2>1, <2>2, <2>3, <2>4, DoOther
<1> HIDE DEF t5
<1>6. Runs(k, m, t4, {idelock}, "on", "io1", "no")
  <2>1. Sound(m, {idelock}, "on", "io1", "no")
    BY <1>2 DEF Sound, Dozing, Loose
  <2>2. Pre(k, m, x4, t5, {idelock}, "on", "io1", "no")
    BY <1>1, <1>2 DEF Pre, Loose, Dozing
  <2>3. PostH(x4, {idelock}) = {idelock}
    BY <1>1, <1>2 DEF PostH
  <2>4. PostR(x4, "on") = "on" /\ PostF(x4, "io1") = "has" /\ PostG(x4, "no") = "no"
    BY <1>1, <1>2 DEF PostR, PostF, PostG
  <2> QED BY <2>1, <2>2, <2>3, <2>4, <1>5, DoOther
<1> HIDE DEF t4
<1>7. Runs(k, m, t3, {idelock}, "on", "io0", "no")
  <2>1. Sound(m, {idelock}, "on", "io0", "no")
    BY <1>2 DEF Sound, Dozing, Loose
  <2>2. Pre(k, m, x3, t4, {idelock}, "on", "io0", "no")
    BY <1>1, <1>2 DEF Pre, Loose, Dozing
  <2>3. PostH(x3, {idelock}) = {idelock}
    BY <1>1, <1>2 DEF PostH
  <2>4. PostR(x3, "on") = "on" /\ PostF(x3, "io0") = "io1" /\ PostG(x3, "no") = "no"
    BY <1>1, <1>2 DEF PostR, PostF, PostG
  <2> QED BY <2>1, <2>2, <2>3, <2>4, <1>6, DoOther
<1> HIDE DEF t3
<1>8. Runs(k, m, t2, {}, "on", "io0", "no")
  <2>1. Sound(m, {}, "on", "io0", "no")
    BY <1>2 DEF Sound, Dozing, Loose
  <2>2. Pre(k, m, x2, t3, {}, "on", "io0", "no")
    BY <1>1, <1>2 DEF Pre, Loose, Dozing
  <2>3. PostH(x2, {}) = {idelock}
    BY <1>1, <1>2 DEF PostH
  <2>4. PostR(x2, "on") = "on" /\ PostF(x2, "io0") = "io0" /\ PostG(x2, "no") = "no"
    BY <1>1, <1>2 DEF PostR, PostF, PostG
  <2> QED BY <2>1, <2>2, <2>3, <2>4, <1>7, DoOther
<1> HIDE DEF t2
<1>9. Runs(k, m, t1, {}, "on", "io", "no")
  <2>1. Sound(m, {}, "on", "io", "no")
    BY <1>2 DEF Sound, Dozing, Loose
  <2>2. Pre(k, m, x1, t2, {}, "on", "io", "no")
    BY <1>1, <1>2 DEF Pre, Loose, Dozing
  <2>3. PostH(x1, {}) = {}
    BY <1>1, <1>2 DEF PostH
  <2>4. PostR(x1, "on") = "on" /\ PostF(x1, "io") = "io0" /\ PostG(x1, "no") = "no"
    BY <1>1, <1>2 DEF PostR, PostF, PostG
  <2> QED BY <2>1, <2>2, <2>3, <2>4, <1>8, DoOther
<1> QED BY <1>4, <1>9

(* brelse after its check: releasesleep, and the reference is given up. *)
LEMMA BrelseRuns ==
  ASSUME NEW k, k # 0, NEW m \in Bufs, NEW t,
         Runs(k, m, t, {}, "on", "none", "no")
  PROVE  Runs(k, m, (releasesleep(m) \o <<Acquire(bcache), <<"unref", m>>, Release(bcache)>>) \o t, {}, "on", "rel", "no")
<1> DEFINE x1 == Acquire(Lk(m))  x2 == <<"unlocked", m>>  x3 == Acquire(ptable)  x4 == <<"wakeup1", LkChan(m)>>  x5 == Release(ptable)  x6 == Release(Lk(m))  x7 == Acquire(bcache)  x8 == <<"unref", m>>  x9 == Release(bcache)
           t9 == Cons(x9, t)  t8 == Cons(x8, t9)  t7 == Cons(x7, t8)  t6 == Cons(x6, t7)  t5 == Cons(x5, t6)  t4 == Cons(x4, t5)  t3 == Cons(x3, t4)  t2 == Cons(x2, t3)  t1 == Cons(x1, t2)
<1>1. /\ x1[1] = "acquire" /\ x1[2] = Lk(m)
      /\ x2[1] = "unlocked" /\ x2[2] = m
      /\ x3[1] = "acquire" /\ x3[2] = ptable
      /\ x4[1] = "wakeup1" /\ x4[2] = LkChan(m)
      /\ x5[1] = "release" /\ x5[2] = ptable
      /\ x6[1] = "release" /\ x6[2] = Lk(m)
      /\ x7[1] = "acquire" /\ x7[2] = bcache
      /\ x8[1] = "unref" /\ x8[2] = m
      /\ x9[1] = "release" /\ x9[2] = bcache
  BY DEF Acquire, Release
<1>2. ptable \in Locks /\ bcache \in Locks /\ Lk(m) \in Locks /\ Lk(m) # ptable
  BY LockNames
<1>3. IsSeq(t)
  BY RunsOne
<1>4. (releasesleep(m) \o <<Acquire(bcache), <<"unref", m>>, Release(bcache)>>) \o t = t1
  <2>1. /\ releasesleep(m) = <<x1, x2>> \o <<x3, x4, x5>> \o <<x6>>
        /\ <<Acquire(bcache), <<"unref", m>>, Release(bcache)>> = <<x7, x8, x9>>
    BY DEF releasesleep, Wakeup
  <2> HIDE DEF x1, x2, x3, x4, x5, x6, x7, x8, x9
  <2>2. IsSeq(<<x7, x8, x9>>) /\ <<x7, x8, x9>> \o t = t7
    BY <1>3, Unfold3
  <2> HIDE DEF t7
  <2>3. IsSeq(t7)
    BY <1>3, <2>2, CatSeq
  <2>4. IsSeq(t6) /\ <<x6>> \o t7 = t6
    BY <2>3, ConsSeq DEF Cons
  <2> HIDE DEF t6
  <2>5. IsSeq(<<x3, x4, x5>>) /\ <<x3, x4, x5>> \o t6 = t3
    BY <2>4, Unfold3
  <2> HIDE DEF t3
  <2>6. IsSeq(t3)
    BY <2>4, <2>5, CatSeq
  <2>7. IsSeq(<<x1, x2>>) /\ <<x1, x2>> \o t3 = t1
    BY <2>6, Unfold2
  <2> DEFINE a == <<x1, x2>>  b == <<x3, x4, x5>>  c == <<x6>>  d == <<x7, x8, x9>>
  <2>8. IsSeq(a) /\ IsSeq(b) /\ IsSeq(c) /\ IsSeq(d)
    BY <2>2, <2>5, <2>7, OneSeq
  <2>9. Cat(d, t) = t7 /\ Cat(c, t7) = t6 /\ Cat(b, t6) = t3 /\ Cat(a, t3) = t1
    BY <2>2, <2>4, <2>5, <2>7 DEF Cat
  <2>10. (releasesleep(m) \o <<Acquire(bcache), <<"unref", m>>, Release(bcache)>>) \o t
           = Cat(Cat(Cat(Cat(a, b), c), d), t)
    BY <2>1 DEF Cat
  <2> HIDE DEF a, b, c, d, t1
  <2>11. Cat(Cat(Cat(Cat(a, b), c), d), t) = t1
    BY <2>8, <2>9, <1>3, Cat5
  <2> QED BY <2>10, <2>11, Zenon
<1>w. Has(t3, <<"wakeup1", LkChan(m)>>)
  <2> HIDE DEF x3, x5, x6, x7, x8, x9
  <2>1. IsSeq(t9) /\ IsSeq(t8) /\ IsSeq(t7)
    BY <1>3, ConsSeq
  <2>2. IsSeq(t6) /\ IsSeq(t5)
    BY <2>1, ConsSeq
  <2>3. Has(t4, x4) /\ IsSeq(t4)
    BY <2>2, ConsSeq, HasCons
  <2> HIDE DEF t4
  <2> QED BY <2>3, HasCons
<1> HIDE DEF x1, x2, x3, x4, x5, x6, x7, x8, x9
<1>5. Runs(k, m, t9, {bcache}, "on", "none", "no")
  <2>1. Sound(m, {bcache}, "on", "none", "no")
    BY <1>2 DEF Sound, Dozing, Loose
  <2>2. Pre(k, m, x9, t, {bcache}, "on", "none", "no")
    BY <1>1, <1>2 DEF Pre, Loose, Dozing
  <2>3. PostH(x9, {bcache}) = {}
    BY <1>1, <1>2 DEF PostH
  <2>4. PostR(x9, "on") = "on" /\ PostF(x9, "none") = "none" /\ PostG(x9, "no") = "no"
    BY <1>1, <1>2 DEF PostR, PostF, PostG
  <2> QED BY <2>1, <2>2, <2>3, <2>4, DoOther
<1> HIDE DEF t9
<1>6. Runs(k, m, t8, {bcache}, "on", "ref", "no")
  <2>1. Sound(m, {bcache}, "on", "ref", "no")
    BY <1>2 DEF Sound, Dozing, Loose
  <2>2. Pre(k, m, x8, t9, {bcache}, "on", "ref", "no")
    BY <1>1, <1>2 DEF Pre, Loose, Dozing
  <2>3. PostH(x8, {bcache}) = {bcache}
    BY <1>1, <1>2 DEF PostH
  <2>4. PostR(x8, "on") = "on" /\ PostF(x8, "ref") = "none" /\ PostG(x8, "no") = "no"
    BY <1>1, <1>2 DEF PostR, PostF, PostG
  <2> QED BY <2>1, <2>2, <2>3, <2>4, <1>5, DoOther
<1> HIDE DEF t8
<1>7. Runs(k, m, t7, {}, "on", "ref", "no")
  <2>1. Sound(m, {}, "on", "ref", "no")
    BY <1>2 DEF Sound, Dozing, Loose
  <2>2. Pre(k, m, x7, t8, {}, "on", "ref", "no")
    BY <1>1, <1>2 DEF Pre, Loose, Dozing
  <2>3. PostH(x7, {}) = {bcache}
    BY <1>1, <1>2 DEF PostH
  <2>4. PostR(x7, "on") = "on" /\ PostF(x7, "ref") = "ref" /\ PostG(x7, "no") = "no"
    BY <1>1, <1>2 DEF PostR, PostF, PostG
  <2> QED BY <2>1, <2>2, <2>3, <2>4, <1>6, DoOther
<1> HIDE DEF t7
<1>8. Runs(k, m, t6, {Lk(m)}, "on", "ref", "no")
  <2>1. Sound(m, {Lk(m)}, "on", "ref", "no")
    BY <1>2 DEF Sound, Dozing, Loose
  <2>2. Pre(k, m, x6, t7, {Lk(m)}, "on", "ref", "no")
    BY <1>1, <1>2 DEF Pre, Loose, Dozing
  <2>3. PostH(x6, {Lk(m)}) = {}
    BY <1>1, <1>2 DEF PostH
  <2>4. PostR(x6, "on") = "on" /\ PostF(x6, "ref") = "ref" /\ PostG(x6, "no") = "no"
    BY <1>1, <1>2 DEF PostR, PostF, PostG
  <2> QED BY <2>1, <2>2, <2>3, <2>4, <1>7, DoOther
<1> HIDE DEF t6
<1>9. Runs(k, m, t5, {ptable, Lk(m)}, "on", "ref", "no")
  <2>1. Sound(m, {ptable, Lk(m)}, "on", "ref", "no")
    BY <1>2 DEF Sound, Dozing, Loose
  <2>2. Pre(k, m, x5, t6, {ptable, Lk(m)}, "on", "ref", "no")
    BY <1>1, <1>2 DEF Pre, Loose, Dozing
  <2>3. PostH(x5, {ptable, Lk(m)}) = {Lk(m)}
    BY <1>1, <1>2 DEF PostH
  <2>4. PostR(x5, "on") = "on" /\ PostF(x5, "ref") = "ref" /\ PostG(x5, "no") = "no"
    BY <1>1, <1>2 DEF PostR, PostF, PostG
  <2> QED BY <2>1, <2>2, <2>3, <2>4, <1>8, DoOther
<1> HIDE DEF t5
<1>10. Runs(k, m, t4, {ptable, Lk(m)}, "on", "ref", "no")
  <2>1. Sound(m, {ptable, Lk(m)}, "on", "ref", "no")
    BY <1>2 DEF Sound, Dozing, Loose
  <2>2. Pre(k, m, x4, t5, {ptable, Lk(m)}, "on", "ref", "no")
    BY <1>1, <1>2, ChanNames DEF Pre, Loose, Dozing
  <2>3. PostH(x4, {ptable, Lk(m)}) = {ptable, Lk(m)}
    BY <1>1, <1>2 DEF PostH
  <2>4. PostR(x4, "on") = "on" /\ PostF(x4, "ref") = "ref" /\ PostG(x4, "no") = "no"
    BY <1>1, <1>2 DEF PostR, PostF, PostG
  <2> QED BY <2>1, <2>2, <2>3, <2>4, <1>9, DoOther
<1> HIDE DEF t4
<1>11. Runs(k, m, t3, {Lk(m)}, "on", "ref", "no")
  <2>1. Sound(m, {Lk(m)}, "on", "ref", "no")
    BY <1>2 DEF Sound, Dozing, Loose
  <2>2. Pre(k, m, x3, t4, {Lk(m)}, "on", "ref", "no")
    BY <1>1, <1>2 DEF Pre, Loose, Dozing
  <2>3. PostH(x3, {Lk(m)}) = {ptable, Lk(m)}
    BY <1>1, <1>2 DEF PostH
  <2>4. PostR(x3, "on") = "on" /\ PostF(x3, "ref") = "ref" /\ PostG(x3, "no") = "no"
    BY <1>1, <1>2 DEF PostR, PostF, PostG
  <2> QED BY <2>1, <2>2, <2>3, <2>4, <1>10, DoOther
<1> HIDE DEF t3
<1>12. Runs(k, m, t2, {Lk(m)}, "on", "rel", "no")
  <2>1. Sound(m, {Lk(m)}, "on", "rel", "no")
    BY <1>2 DEF Sound, Dozing, Loose
  <2>2. Pre(k, m, x2, t3, {Lk(m)}, "on", "rel", "no")
    BY <1>1, <1>2, <1>w DEF Pre, Loose, Dozing
  <2>3. PostH(x2, {Lk(m)}) = {Lk(m)}
    BY <1>1, <1>2 DEF PostH
  <2>4. PostR(x2, "on") = "on" /\ PostF(x2, "rel") = "ref" /\ PostG(x2, "no") = "no"
    BY <1>1, <1>2 DEF PostR, PostF, PostG
  <2> QED BY <2>1, <2>2, <2>3, <2>4, <1>11, DoOther
<1> HIDE DEF t2
<1>13. Runs(k, m, t1, {}, "on", "rel", "no")
  <2>1. Sound(m, {}, "on", "rel", "no")
    BY <1>2 DEF Sound, Dozing, Loose
  <2>2. Pre(k, m, x1, t2, {}, "on", "rel", "no")
    BY <1>1, <1>2 DEF Pre, Loose, Dozing
  <2>3. PostH(x1, {}) = {Lk(m)}
    BY <1>1, <1>2 DEF PostH
  <2>4. PostR(x1, "on") = "on" /\ PostF(x1, "rel") = "rel" /\ PostG(x1, "no") = "no"
    BY <1>1, <1>2 DEF PostR, PostF, PostG
  <2> QED BY <2>1, <2>2, <2>3, <2>4, <1>12, DoOther
<1> QED BY <1>4, <1>13

(* The interrupt of the disk, on a processor that is interruptible. *)
LEMMA HandlerRuns ==
  ASSUME NEW k, NEW m, NEW t, NEW f, f \notin Dozing,
         Runs(k, m, t, {}, "on", f, "no")
  PROVE  Runs(k, m, (ideintr \o Iret) \o t, {}, "on", f, "intr")
<1> DEFINE x1 == Acquire(idelock)  x2 == <<"ideintr", "">>  x3 == <<"sti", "">>
           t3 == Cons(x3, t)  t2 == Cons(x2, t3)  t1 == Cons(x1, t2)
<1>1. /\ x1[1] = "acquire" /\ x1[2] = idelock
      /\ x2[1] = "ideintr"
      /\ x3[1] = "sti"
  BY DEF Acquire, Release
<1>2. idelock \in Locks
  BY LockNames
<1>3. IsSeq(t)
  BY RunsOne
<1>4. (ideintr \o Iret) \o t = t1
  <2>1. ideintr = <<x1, x2>> /\ Iret = <<x3>>
    BY DEF ideintr, Iret
  <2> HIDE DEF x1, x2, x3
  <2>2. IsSeq(<<x3>>) /\ <<x3>> \o t = t3
    BY OneSeq DEF Cons
  <2> HIDE DEF t3
  <2>3. IsSeq(t3)
    BY <1>3, <2>2, CatSeq
  <2>4. IsSeq(<<x1, x2>>) /\ <<x1, x2>> \o t3 = t1
    BY <2>3, Unfold2
  <2> DEFINE a == <<x1, x2>>  b == <<x3>>
  <2>5. IsSeq(a) /\ IsSeq(b) /\ Cat(b, t) = t3 /\ Cat(a, t3) = t1
    BY <2>2, <2>4 DEF Cat
  <2>6. (ideintr \o Iret) \o t = Cat(Cat(a, b), t)
    BY <2>1 DEF Cat
  <2> HIDE DEF a, b, t1
  <2>7. Cat(Cat(a, b), t) = t1
    BY <2>5, <1>3, Cat3
  <2> QED BY <2>6, <2>7, Zenon
<1>w. HasName(t2, "ideintr")
  <2> HIDE DEF x2
  <2>1. IsSeq(t3)
    BY <1>3, ConsSeq
  <2> QED BY <2>1, <1>1, HasNameCons DEF x2
<1> HIDE DEF x1, x2, x3
<1>5. Runs(k, m, t3, {}, "on", f, "no")
  <2>1. Sound(m, {}, "on", f, "no")
    BY <1>2 DEF Sound, Dozing, Loose
  <2>2. Pre(k, m, x3, t, {}, "on", f, "no")
    BY <1>1, <1>2 DEF Pre, Loose, Dozing
  <2>3. PostH(x3, {}) = {}
    BY <1>1, <1>2 DEF PostH
  <2>4. PostR(x3, "on") = "on" /\ PostF(x3, f) = f /\ PostG(x3, "no") = "no"
    BY <1>1, <1>2 DEF PostR, PostF, PostG
  <2> QED BY <2>1, <2>2, <2>3, <2>4, DoOther
<1> HIDE DEF t3
<1>6. Runs(k, m, t2, {idelock}, "on", f, "intr")
  <2>1. Sound(m, {idelock}, "on", f, "intr")
    BY <1>2 DEF Sound, Dozing, Loose
  <2>2. Pre(k, m, x2, t3, {idelock}, "on", f, "intr")
    BY <1>1, <1>2 DEF Pre, Loose, Dozing
  <2>3. PostH(x2, {idelock}) = {}
    BY <1>1, <1>2 DEF PostH
  <2>4. PostR(x2, "on") = "on" /\ PostF(x2, f) = f /\ PostG(x2, "intr") = "no"
    BY <1>1, <1>2 DEF PostR, PostF, PostG
  <2> QED BY <2>1, <2>2, <2>3, <2>4, <1>5, DoOther
<1> HIDE DEF t2
<1>7. Runs(k, m, t1, {}, "on", f, "intr")
  <2>1. Sound(m, {}, "on", f, "intr")
    BY <1>2 DEF Sound, Dozing, Loose
  <2>2. Pre(k, m, x1, t2, {}, "on", f, "intr")
    BY <1>1, <1>2, <1>w DEF Pre, Loose, Dozing
  <2>3. PostH(x1, {}) = {idelock}
    BY <1>1, <1>2 DEF PostH
  <2>4. PostR(x1, "on") = "on" /\ PostF(x1, f) = f /\ PostG(x1, "intr") = "intr"
    BY <1>1, <1>2 DEF PostR, PostF, PostG
  <2> QED BY <2>1, <2>2, <2>3, <2>4, <1>6, DoOther
<1> QED BY <1>4, <1>7

(* ideintr goes on to wakeup and to the next request. *)
LEMMA NextRuns ==
  ASSUME NEW k, NEW m, NEW t, NEW f, f \notin Dozing, NEW i,
         Runs(k, m, t, {}, "on", f, "no")
  PROVE  Runs(k, m, (Wakeup(IoChan(i)) \o <<<<"nextjob", "">>, Release(idelock)>>) \o t, {idelock}, "on", f, "job")
<1> DEFINE x1 == Acquire(ptable)  x2 == <<"wakeup1", IoChan(i)>>  x3 == Release(ptable)  x4 == <<"nextjob", "">>  x5 == Release(idelock)
           t5 == Cons(x5, t)  t4 == Cons(x4, t5)  t3 == Cons(x3, t4)  t2 == Cons(x2, t3)  t1 == Cons(x1, t2)
<1>1. /\ x1[1] = "acquire" /\ x1[2] = ptable
      /\ x2[1] = "wakeup1" /\ x2[2] = IoChan(i)
      /\ x3[1] = "release" /\ x3[2] = ptable
      /\ x4[1] = "nextjob"
      /\ x5[1] = "release" /\ x5[2] = idelock
  BY DEF Acquire, Release
<1>2. ptable \in Locks /\ idelock \in Locks /\ ptable # idelock
  BY LockNames
<1>3. IsSeq(t)
  BY RunsOne
<1>4. (Wakeup(IoChan(i)) \o <<<<"nextjob", "">>, Release(idelock)>>) \o t = t1
  <2>1. Wakeup(IoChan(i)) = <<x1, x2, x3>> /\ <<<<"nextjob", "">>, Release(idelock)>> = <<x4, x5>>
    BY DEF Wakeup
  <2> HIDE DEF x1, x2, x3, x4, x5
  <2>2. IsSeq(<<x4, x5>>) /\ <<x4, x5>> \o t = t4
    BY <1>3, Unfold2
  <2> HIDE DEF t4
  <2>3. IsSeq(t4)
    BY <1>3, <2>2, CatSeq
  <2>4. IsSeq(<<x1, x2, x3>>) /\ <<x1, x2, x3>> \o t4 = t1
    BY <2>3, Unfold3
  <2> DEFINE a == <<x1, x2, x3>>  b == <<x4, x5>>
  <2>5. IsSeq(a) /\ IsSeq(b) /\ Cat(b, t) = t4 /\ Cat(a, t4) = t1
    BY <2>2, <2>4 DEF Cat
  <2>6. (Wakeup(IoChan(i)) \o <<<<"nextjob", "">>, Release(idelock)>>) \o t = Cat(Cat(a, b), t)
    BY <2>1 DEF Cat
  <2> HIDE DEF a, b, t1
  <2>7. Cat(Cat(a, b), t) = t1
    BY <2>5, <1>3, Cat3
  <2> QED BY <2>6, <2>7, Zenon
<1> HIDE DEF x1, x2, x3, x4, x5
<1>5. Runs(k, m, t5, {idelock}, "on", f, "no")
  <2>1. Sound(m, {idelock}, "on", f, "no")
    BY <1>2 DEF Sound, Dozing, Loose
  <2>2. Pre(k, m, x5, t, {idelock}, "on", f, "no")
    BY <1>1, <1>2 DEF Pre, Loose, Dozing
  <2>3. PostH(x5, {idelock}) = {}
    BY <1>1, <1>2 DEF PostH
  <2>4. PostR(x5, "on") = "on" /\ PostF(x5, f) = f /\ PostG(x5, "no") = "no"
    BY <1>1, <1>2 DEF PostR, PostF, PostG
  <2> QED BY <2>1, <2>2, <2>3, <2>4, DoOther
<1> HIDE DEF t5
<1>6. Runs(k, m, t4, {idelock}, "on", f, "job")
  <2>1. Sound(m, {idelock}, "on", f, "job")
    BY <1>2 DEF Sound, Dozing, Loose
  <2>2. Pre(k, m, x4, t5, {idelock}, "on", f, "job")
    BY <1>1, <1>2 DEF Pre, Loose, Dozing
  <2>3. PostH(x4, {idelock}) = {idelock}
    BY <1>1, <1>2 DEF PostH
  <2>4. PostR(x4, "on") = "on" /\ PostF(x4, f) = f /\ PostG(x4, "job") = "no"
    BY <1>1, <1>2 DEF PostR, PostF, PostG
  <2> QED BY <2>1, <2>2, <2>3, <2>4, <1>5, DoOther
<1> HIDE DEF t4
<1>7. Runs(k, m, t3, {ptable, idelock}, "on", f, "job")
  <2>1. Sound(m, {ptable, idelock}, "on", f, "job")
    BY <1>2 DEF Sound, Dozing, Loose
  <2>2. Pre(k, m, x3, t4, {ptable, idelock}, "on", f, "job")
    BY <1>1, <1>2 DEF Pre, Loose, Dozing
  <2>3. PostH(x3, {ptable, idelock}) = {idelock}
    BY <1>1, <1>2 DEF PostH
  <2>4. PostR(x3, "on") = "on" /\ PostF(x3, f) = f /\ PostG(x3, "job") = "job"
    BY <1>1, <1>2 DEF PostR, PostF, PostG
  <2> QED BY <2>1, <2>2, <2>3, <2>4, <1>6, DoOther
<1> HIDE DEF t3
<1>8. Runs(k, m, t2, {ptable, idelock}, "on", f, "job")
  <2>1. Sound(m, {ptable, idelock}, "on", f, "job")
    BY <1>2 DEF Sound, Dozing, Loose
  <2>2. Pre(k, m, x2, t3, {ptable, idelock}, "on", f, "job")
    BY <1>1, <1>2, ChanNames DEF Pre, Loose, Dozing
  <2>3. PostH(x2, {ptable, idelock}) = {ptable, idelock}
    BY <1>1, <1>2 DEF PostH
  <2>4. PostR(x2, "on") = "on" /\ PostF(x2, f) = f /\ PostG(x2, "job") = "job"
    BY <1>1, <1>2 DEF PostR, PostF, PostG
  <2> QED BY <2>1, <2>2, <2>3, <2>4, <1>7, DoOther
<1> HIDE DEF t2
<1>9. Runs(k, m, t1, {idelock}, "on", f, "job")
  <2>1. Sound(m, {idelock}, "on", f, "job")
    BY <1>2 DEF Sound, Dozing, Loose
  <2>2. Pre(k, m, x1, t2, {idelock}, "on", f, "job")
    BY <1>1, <1>2 DEF Pre, Loose, Dozing
  <2>3. PostH(x1, {idelock}) = {ptable, idelock}
    BY <1>1, <1>2 DEF PostH
  <2>4. PostR(x1, "on") = "on" /\ PostF(x1, f) = f /\ PostG(x1, "job") = "job"
    BY <1>1, <1>2 DEF PostR, PostF, PostG
  <2> QED BY <2>1, <2>2, <2>3, <2>4, <1>8, DoOther
<1> QED BY <1>4, <1>9

(* yield. *)
LEMMA YieldRuns ==
  ASSUME NEW k, k # 0, NEW m, NEW t, NEW f, f \notin Dozing,
         Runs(k, m, t, {}, "on", f, "no")
  PROVE  Runs(k, m, Yield \o t, {}, "on", f, "no")
<1> DEFINE x1 == Acquire(ptable)  x2 == <<"runnable", "">>  x3 == <<"sched", "">>  x4 == Release(ptable)
           t4 == Cons(x4, t)  t3 == Cons(x3, t4)  t2 == Cons(x2, t3)  t1 == Cons(x1, t2)
<1>1. /\ x1[1] = "acquire" /\ x1[2] = ptable
      /\ x2[1] = "runnable"
      /\ x3[1] = "sched"
      /\ x4[1] = "release" /\ x4[2] = ptable
  BY DEF Acquire, Release
<1>2. ptable \in Locks
  BY LockNames
<1>3. IsSeq(t)
  BY RunsOne
<1>4. Yield \o t = t1
  <2>1. Yield = <<x1, x2, x3, x4>>
    BY DEF Yield
  <2> HIDE DEF x1, x2, x3, x4
  <2>2. <<x1, x2, x3, x4>> \o t = t1
    BY <1>3, Unfold4
  <2> QED BY <2>1, <2>2
<1> HIDE DEF x1, x2, x3, x4
<1>5. Runs(k, m, t4, {ptable}, "on", f, "no")
  <2>1. Sound(m, {ptable}, "on", f, "no")
    BY <1>2 DEF Sound, Dozing, Loose
  <2>2. Pre(k, m, x4, t, {ptable}, "on", f, "no")
    BY <1>1, <1>2 DEF Pre, Loose, Dozing
  <2>3. PostH(x4, {ptable}) = {}
    BY <1>1, <1>2 DEF PostH
  <2>4. PostR(x4, "on") = "on" /\ PostF(x4, f) = f /\ PostG(x4, "no") = "no"
    BY <1>1, <1>2 DEF PostR, PostF, PostG
  <2> QED BY <2>1, <2>2, <2>3, <2>4, DoOther
<1> HIDE DEF t4
<1>6. Runs(k, m, t3, {ptable}, "off", f, "no")
  <2>1. Sound(m, {ptable}, "off", f, "no")
    BY <1>2 DEF Sound, Dozing, Loose
  <2>2. Pre(k, m, x3, t4, {ptable}, "off", f, "no")
    BY <1>1, <1>2 DEF Pre, Loose, Dozing
  <2>3. PostH(x3, {ptable}) = {ptable}
    BY <1>1, <1>2 DEF PostH
  <2>4. PostR(x3, "off") = "on" /\ PostF(x3, f) = f /\ PostG(x3, "no") = "no"
    BY <1>1, <1>2 DEF PostR, PostF, PostG
  <2> QED BY <2>1, <2>2, <2>3, <2>4, <1>5, DoOther
<1> HIDE DEF t3
<1>7. Runs(k, m, t2, {ptable}, "on", f, "no")
  <2>1. Sound(m, {ptable}, "on", f, "no")
    BY <1>2 DEF Sound, Dozing, Loose
  <2>2. Pre(k, m, x2, t3, {ptable}, "on", f, "no")
    BY <1>1, <1>2 DEF Pre, Loose, Dozing
  <2>3. PostH(x2, {ptable}) = {ptable}
    BY <1>1, <1>2 DEF PostH
  <2>4. PostR(x2, "on") = "off" /\ PostF(x2, f) = f /\ PostG(x2, "no") = "no"
    BY <1>1, <1>2 DEF PostR, PostF, PostG
  <2> QED BY <2>1, <2>2, <2>3, <2>4, <1>6, DoOther
<1> HIDE DEF t2
<1>8. Runs(k, m, t1, {}, "on", f, "no")
  <2>1. Sound(m, {}, "on", f, "no")
    BY <1>2 DEF Sound, Dozing, Loose
  <2>2. Pre(k, m, x1, t2, {}, "on", f, "no")
    BY <1>1, <1>2 DEF Pre, Loose, Dozing
  <2>3. PostH(x1, {}) = {ptable}
    BY <1>1, <1>2 DEF PostH
  <2>4. PostR(x1, "on") = "on" /\ PostF(x1, f) = f /\ PostG(x1, "no") = "no"
    BY <1>1, <1>2 DEF PostR, PostF, PostG
  <2> QED BY <2>1, <2>2, <2>3, <2>4, <1>7, DoOther
<1> QED BY <1>4, <1>8

(* The clock interrupt of the first processor. *)
LEMMA ClockRuns ==
  ASSUME NEW k, NEW m, NEW t, NEW f, f \notin Dozing,
         Runs(k, m, t, {}, "on", f, "no")
  PROVE  Runs(k, m, ((<<Acquire(tickslock)>> \o Wakeup(Ticks)) \o <<Release(tickslock)>>) \o t, {}, "on", f, "no")
<1> DEFINE x1 == Acquire(tickslock)  x2 == Acquire(ptable)  x3 == <<"wakeup1", Ticks>>  x4 == Release(ptable)  x5 == Release(tickslock)
           t5 == Cons(x5, t)  t4 == Cons(x4, t5)  t3 == Cons(x3, t4)  t2 == Cons(x2, t3)  t1 == Cons(x1, t2)
<1>1. /\ x1[1] = "acquire" /\ x1[2] = tickslock
      /\ x2[1] = "acquire" /\ x2[2] = ptable
      /\ x3[1] = "wakeup1" /\ x3[2] = Ticks
      /\ x4[1] = "release" /\ x4[2] = ptable
      /\ x5[1] = "release" /\ x5[2] = tickslock
  BY DEF Acquire, Release
<1>2. ptable \in Locks /\ tickslock \in Locks /\ ptable # tickslock
  BY LockNames
<1>3. IsSeq(t)
  BY RunsOne
<1>4. ((<<Acquire(tickslock)>> \o Wakeup(Ticks)) \o <<Release(tickslock)>>) \o t = t1
  <2>1. Wakeup(Ticks) = <<x2, x3, x4>> /\ x1 = Acquire(tickslock) /\ x5 = Release(tickslock)
    BY DEF Wakeup
  <2> HIDE DEF x1, x2, x3, x4, x5
  <2>2. IsSeq(t5)
    BY <1>3, ConsSeq
  <2>3. IsSeq(<<x2, x3, x4>>) /\ <<x2, x3, x4>> \o t5 = t2
    BY <2>2, Unfold3
  <2> DEFINE a == <<x1>>  b == <<x2, x3, x4>>  c == <<x5>>
  <2>4. IsSeq(a) /\ IsSeq(b) /\ IsSeq(c) /\ Cat(c, t) = t5 /\ Cat(b, t5) = t2 /\ Cat(a, t2) = t1
    BY <2>3, OneSeq DEF Cat, Cons
  <2>5. ((<<Acquire(tickslock)>> \o Wakeup(Ticks)) \o <<Release(tickslock)>>) \o t
           = Cat(Cat(Cat(a, b), c), t)
    BY <2>1 DEF Cat
  <2> HIDE DEF a, b, c, t1, t2, t5
  <2>6. Cat(Cat(Cat(a, b), c), t) = t1
    BY <2>4, <1>3, Cat4
  <2> QED BY <2>5, <2>6, Zenon
<1> HIDE DEF x1, x2, x3, x4, x5
<1>5. Runs(k, m, t5, {tickslock}, "on", f, "no")
  <2>1. Sound(m, {tickslock}, "on", f, "no")
    BY <1>2 DEF Sound, Dozing, Loose
  <2>2. Pre(k, m, x5, t, {tickslock}, "on", f, "no")
    BY <1>1, <1>2 DEF Pre, Loose, Dozing
  <2>3. PostH(x5, {tickslock}) = {}
    BY <1>1, <1>2 DEF PostH
  <2>4. PostR(x5, "on") = "on" /\ PostF(x5, f) = f /\ PostG(x5, "no") = "no"
    BY <1>1, <1>2 DEF PostR, PostF, PostG
  <2> QED BY <2>1, <2>2, <2>3, <2>4, DoOther
<1> HIDE DEF t5
<1>6. Runs(k, m, t4, {tickslock, ptable}, "on", f, "no")
  <2>1. Sound(m, {tickslock, ptable}, "on", f, "no")
    BY <1>2 DEF Sound, Dozing, Loose
  <2>2. Pre(k, m, x4, t5, {tickslock, ptable}, "on", f, "no")
    BY <1>1, <1>2 DEF Pre, Loose, Dozing
  <2>3. PostH(x4, {tickslock, ptable}) = {tickslock}
    BY <1>1, <1>2 DEF PostH
  <2>4. PostR(x4, "on") = "on" /\ PostF(x4, f) = f /\ PostG(x4, "no") = "no"
    BY <1>1, <1>2 DEF PostR, PostF, PostG
  <2> QED BY <2>1, <2>2, <2>3, <2>4, <1>5, DoOther
<1> HIDE DEF t4
<1>7. Runs(k, m, t3, {tickslock, ptable}, "on", f, "no")
  <2>1. Sound(m, {tickslock, ptable}, "on", f, "no")
    BY <1>2 DEF Sound, Dozing, Loose
  <2>2. Pre(k, m, x3, t4, {tickslock, ptable}, "on", f, "no")
    BY <1>1, <1>2, ChanNames DEF Pre, Loose, Dozing
  <2>3. PostH(x3, {tickslock, ptable}) = {tickslock, ptable}
    BY <1>1, <1>2 DEF PostH
  <2>4. PostR(x3, "on") = "on" /\ PostF(x3, f) = f /\ PostG(x3, "no") = "no"
    BY <1>1, <1>2 DEF PostR, PostF, PostG
  <2> QED BY <2>1, <2>2, <2>3, <2>4, <1>6, DoOther
<1> HIDE DEF t3
<1>8. Runs(k, m, t2, {tickslock}, "on", f, "no")
  <2>1. Sound(m, {tickslock}, "on", f, "no")
    BY <1>2 DEF Sound, Dozing, Loose
  <2>2. Pre(k, m, x2, t3, {tickslock}, "on", f, "no")
    BY <1>1, <1>2 DEF Pre, Loose, Dozing
  <2>3. PostH(x2, {tickslock}) = {tickslock, ptable}
    BY <1>1, <1>2 DEF PostH
  <2>4. PostR(x2, "on") = "on" /\ PostF(x2, f) = f /\ PostG(x2, "no") = "no"
    BY <1>1, <1>2 DEF PostR, PostF, PostG
  <2> QED BY <2>1, <2>2, <2>3, <2>4, <1>7, DoOther
<1> HIDE DEF t2
<1>9. Runs(k, m, t1, {}, "on", f, "no")
  <2>1. Sound(m, {}, "on", f, "no")
    BY <1>2 DEF Sound, Dozing, Loose
  <2>2. Pre(k, m, x1, t2, {}, "on", f, "no")
    BY <1>1, <1>2 DEF Pre, Loose, Dozing
  <2>3. PostH(x1, {}) = {tickslock}
    BY <1>1, <1>2 DEF PostH
  <2>4. PostR(x1, "on") = "on" /\ PostF(x1, f) = f /\ PostG(x1, "no") = "no"
    BY <1>1, <1>2 DEF PostR, PostF, PostG
  <2> QED BY <2>1, <2>2, <2>3, <2>4, <1>8, DoOther
<1> QED BY <1>4, <1>9

(* exit, and the processor is not given back. *)
LEMMA ExitRuns ==
  ASSUME NEW k, k # 0, NEW m, NEW t, NEW f, f \notin Dozing,
         Runs(k, m, t, {ptable}, "on", f, "no")
  PROVE  Runs(k, m, Exit \o t, {}, "on", f, "no")
<1> DEFINE x1 == Acquire(ptable)  x2 == <<"zombie", "">>  x3 == <<"sched", "">>
           t3 == Cons(x3, t)  t2 == Cons(x2, t3)  t1 == Cons(x1, t2)
<1>1. /\ x1[1] = "acquire" /\ x1[2] = ptable
      /\ x2[1] = "zombie"
      /\ x3[1] = "sched"
  BY DEF Acquire, Release
<1>2. ptable \in Locks
  BY LockNames
<1>3. IsSeq(t)
  BY RunsOne
<1>4. Exit \o t = t1
  <2>1. Exit = <<x1, x2, x3>>
    BY DEF Exit
  <2> HIDE DEF x1, x2, x3
  <2>2. <<x1, x2, x3>> \o t = t1
    BY <1>3, Unfold3
  <2> QED BY <2>1, <2>2
<1> HIDE DEF x1, x2, x3
<1>5. Runs(k, m, t3, {ptable}, "off", f, "no")
  <2>1. Sound(m, {ptable}, "off", f, "no")
    BY <1>2 DEF Sound, Dozing, Loose
  <2>2. Pre(k, m, x3, t, {ptable}, "off", f, "no")
    BY <1>1, <1>2 DEF Pre, Loose, Dozing
  <2>3. PostH(x3, {ptable}) = {ptable}
    BY <1>1, <1>2 DEF PostH
  <2>4. PostR(x3, "off") = "on" /\ PostF(x3, f) = f /\ PostG(x3, "no") = "no"
    BY <1>1, <1>2 DEF PostR, PostF, PostG
  <2> QED BY <2>1, <2>2, <2>3, <2>4, DoOther
<1> HIDE DEF t3
<1>6. Runs(k, m, t2, {ptable}, "on", f, "no")
  <2>1. Sound(m, {ptable}, "on", f, "no")
    BY <1>2 DEF Sound, Dozing, Loose
  <2>2. Pre(k, m, x2, t3, {ptable}, "on", f, "no")
    BY <1>1, <1>2 DEF Pre, Loose, Dozing
  <2>3. PostH(x2, {ptable}) = {ptable}
    BY <1>1, <1>2 DEF PostH
  <2>4. PostR(x2, "on") = "off" /\ PostF(x2, f) = f /\ PostG(x2, "no") = "no"
    BY <1>1, <1>2 DEF PostR, PostF, PostG
  <2> QED BY <2>1, <2>2, <2>3, <2>4, <1>5, DoOther
<1> HIDE DEF t2
<1>7. Runs(k, m, t1, {}, "on", f, "no")
  <2>1. Sound(m, {}, "on", f, "no")
    BY <1>2 DEF Sound, Dozing, Loose
  <2>2. Pre(k, m, x1, t2, {}, "on", f, "no")
    BY <1>1, <1>2 DEF Pre, Loose, Dozing
  <2>3. PostH(x1, {}) = {ptable}
    BY <1>1, <1>2 DEF PostH
  <2>4. PostR(x1, "on") = "on" /\ PostF(x1, f) = f /\ PostG(x1, "no") = "no"
    BY <1>1, <1>2 DEF PostR, PostF, PostG
  <2> QED BY <2>1, <2>2, <2>3, <2>4, <1>6, DoOther
<1> QED BY <1>4, <1>7

(* bread. *)
LEMMA ReadRuns ==
  ASSUME NEW k, k # 0, NEW m, NEW t, NEW b \in Blocks,
         Runs(k, m, t, {}, "on", "has", "no")
  PROVE  Runs(k, m, bread(b) \o t, {}, "on", "none", "no")
<1> DEFINE x1 == Acquire(bcache)  x2 == <<"bget", b>>  x3 == <<"bread", b>>
           t3 == Cons(x3, t)  t2 == Cons(x2, t3)  t1 == Cons(x1, t2)
<1>1. /\ x1[1] = "acquire" /\ x1[2] = bcache
      /\ x2[1] = "bget" /\ x2[2] = b
      /\ x3[1] = "bread" /\ x3[2] = b
  BY DEF Acquire, Release
<1>2. bcache \in Locks
  BY LockNames
<1>3. IsSeq(t)
  BY RunsOne
<1>4. bread(b) \o t = t1
  <2>1. bread(b) = <<x1, x2>> \o <<x3>>
    BY DEF bread, bget
  <2> HIDE DEF x1, x2, x3
  <2>2. IsSeq(t3)
    BY <1>3, ConsSeq
  <2>3. IsSeq(<<x1, x2>>) /\ <<x1, x2>> \o t3 = t1
    BY <2>2, Unfold2
  <2> DEFINE a == <<x1, x2>>  b2 == <<x3>>
  <2>4. IsSeq(a) /\ IsSeq(b2) /\ Cat(b2, t) = t3 /\ Cat(a, t3) = t1
    BY <2>3, OneSeq DEF Cat, Cons
  <2>5. bread(b) \o t = Cat(Cat(a, b2), t)
    BY <2>1 DEF Cat
  <2> HIDE DEF a, b2, t1, t3
  <2>6. Cat(Cat(a, b2), t) = t1
    BY <2>4, <1>3, Cat3
  <2> QED BY <2>5, <2>6, Zenon
<1> HIDE DEF x1, x2, x3
<1>5. Runs(k, m, t3, {}, "on", "got", "no")
  <2>1. Sound(m, {}, "on", "got", "no")
    BY <1>2 DEF Sound, Dozing, Loose
  <2>2. Pre(k, m, x3, t, {}, "on", "got", "no")
    BY <1>1, <1>2 DEF Pre, Loose, Dozing
  <2>3. PostH(x3, {}) = {}
    BY <1>1, <1>2 DEF PostH
  <2>4. PostR(x3, "on") = "on" /\ PostF(x3, "got") = "has" /\ PostG(x3, "no") = "no"
    BY <1>1, <1>2 DEF PostR, PostF, PostG
  <2> QED BY <2>1, <2>2, <2>3, <2>4, DoOther
<1> HIDE DEF t3
<1>6. Runs(k, m, t2, {bcache}, "on", "none", "no")
  <2>1. Sound(m, {bcache}, "on", "none", "no")
    BY <1>2 DEF Sound, Dozing, Loose
  <2>2. Pre(k, m, x2, t3, {bcache}, "on", "none", "no")
    BY <1>1, <1>2 DEF Pre, Loose, Dozing
  <2>3. PostH(x2, {bcache}) = {}
    BY <1>1, <1>2 DEF PostH
  <2>4. PostR(x2, "on") = "on" /\ PostF(x2, "none") = "got" /\ PostG(x2, "no") = "no"
    BY <1>1, <1>2 DEF PostR, PostF, PostG
  <2> QED BY <2>1, <2>2, <2>3, <2>4, <1>5, DoOther
<1> HIDE DEF t2
<1>7. Runs(k, m, t1, {}, "on", "none", "no")
  <2>1. Sound(m, {}, "on", "none", "no")
    BY <1>2 DEF Sound, Dozing, Loose
  <2>2. Pre(k, m, x1, t2, {}, "on", "none", "no")
    BY <1>1, <1>2 DEF Pre, Loose, Dozing
  <2>3. PostH(x1, {}) = {bcache}
    BY <1>1, <1>2 DEF PostH
  <2>4. PostR(x1, "on") = "on" /\ PostF(x1, "none") = "none" /\ PostG(x1, "no") = "no"
    BY <1>1, <1>2 DEF PostR, PostF, PostG
  <2> QED BY <2>1, <2>2, <2>3, <2>4, <1>6, DoOther
<1> QED BY <1>4, <1>7

(* A block is changed and written. *)
LEMMA WriteRuns ==
  ASSUME NEW k, k # 0, NEW m, NEW t, NEW v \in Nat,
         Runs(k, m, t, {}, "on", "has", "no")
  PROVE  Runs(k, m, <<<<"put", v>>, <<"bwrite", "">>>> \o t, {}, "on", "has", "no")
<1> DEFINE x1 == <<"put", v>>  x2 == <<"bwrite", "">>
           t2 == Cons(x2, t)  t1 == Cons(x1, t2)
<1>1. /\ x1[1] = "put" /\ x1[2] = v
      /\ x2[1] = "bwrite"
  BY DEF Acquire, Release
<1>3. IsSeq(t)
  BY RunsOne
<1>4. <<<<"put", v>>, <<"bwrite", "">>>> \o t = t1
  <2> HIDE DEF x1, x2
  <2>2. <<x1, x2>> \o t = t1
    BY <1>3, Unfold2
  <2> QED BY <2>2 DEF x1, x2
<1> HIDE DEF x1, x2
<1>5. Runs(k, m, t2, {}, "on", "mod", "no")
  <2>1. Sound(m, {}, "on", "mod", "no")
    BY DEF Sound, Dozing, Loose
  <2>2. Pre(k, m, x2, t, {}, "on", "mod", "no")
    BY <1>1 DEF Pre, Loose, Dozing
  <2>3. PostH(x2, {}) = {}
    BY <1>1 DEF PostH
  <2>4. PostR(x2, "on") = "on" /\ PostF(x2, "mod") = "has" /\ PostG(x2, "no") = "no"
    BY <1>1 DEF PostR, PostF, PostG
  <2> QED BY <2>1, <2>2, <2>3, <2>4, DoOther
<1> HIDE DEF t2
<1>6. Runs(k, m, t1, {}, "on", "has", "no")
  <2>1. Sound(m, {}, "on", "has", "no")
    BY DEF Sound, Dozing, Loose
  <2>2. Pre(k, m, x1, t2, {}, "on", "has", "no")
    BY <1>1 DEF Pre, Loose, Dozing
  <2>3. PostH(x1, {}) = {}
    BY <1>1 DEF PostH
  <2>4. PostR(x1, "on") = "on" /\ PostF(x1, "has") = "mod" /\ PostG(x1, "no") = "no"
    BY <1>1 DEF PostR, PostF, PostG
  <2> QED BY <2>1, <2>2, <2>3, <2>4, <1>5, DoOther
<1> QED BY <1>4, <1>6

(* A block is changed and logged. *)
LEMMA PinRuns ==
  ASSUME NEW k, k # 0, NEW m, NEW t, NEW v \in Nat,
         Runs(k, m, t, {}, "on", "has", "no")
  PROVE  Runs(k, m, <<<<"put", v>>, <<"log_write", "">>>> \o t, {}, "on", "has", "no")
<1> DEFINE x1 == <<"put", v>>  x2 == <<"log_write", "">>
           t2 == Cons(x2, t)  t1 == Cons(x1, t2)
<1>1. /\ x1[1] = "put" /\ x1[2] = v
      /\ x2[1] = "log_write"
  BY DEF Acquire, Release
<1>3. IsSeq(t)
  BY RunsOne
<1>4. <<<<"put", v>>, <<"log_write", "">>>> \o t = t1
  <2> HIDE DEF x1, x2
  <2>2. <<x1, x2>> \o t = t1
    BY <1>3, Unfold2
  <2> QED BY <2>2 DEF x1, x2
<1> HIDE DEF x1, x2
<1>5. Runs(k, m, t2, {}, "on", "mod", "no")
  <2>1. Sound(m, {}, "on", "mod", "no")
    BY DEF Sound, Dozing, Loose
  <2>2. Pre(k, m, x2, t, {}, "on", "mod", "no")
    BY <1>1 DEF Pre, Loose, Dozing
  <2>3. PostH(x2, {}) = {}
    BY <1>1 DEF PostH
  <2>4. PostR(x2, "on") = "on" /\ PostF(x2, "mod") = "has" /\ PostG(x2, "no") = "no"
    BY <1>1 DEF PostR, PostF, PostG
  <2> QED BY <2>1, <2>2, <2>3, <2>4, DoOther
<1> HIDE DEF t2
<1>6. Runs(k, m, t1, {}, "on", "has", "no")
  <2>1. Sound(m, {}, "on", "has", "no")
    BY DEF Sound, Dozing, Loose
  <2>2. Pre(k, m, x1, t2, {}, "on", "has", "no")
    BY <1>1 DEF Pre, Loose, Dozing
  <2>3. PostH(x1, {}) = {}
    BY <1>1 DEF PostH
  <2>4. PostR(x1, "on") = "on" /\ PostF(x1, "has") = "mod" /\ PostG(x1, "no") = "no"
    BY <1>1 DEF PostR, PostF, PostG
  <2> QED BY <2>1, <2>2, <2>3, <2>4, <1>5, DoOther
<1> QED BY <1>4, <1>6

(* A block is written as it is. *)
LEMMA FlushRuns ==
  ASSUME NEW k, k # 0, NEW m, NEW t,
         Runs(k, m, t, {}, "on", "has", "no")
  PROVE  Runs(k, m, <<<<"bwrite", "">>>> \o t, {}, "on", "has", "no")
<1> DEFINE x1 == <<"bwrite", "">>
           t1 == Cons(x1, t)
<1>1. /\ x1[1] = "bwrite"
  BY DEF Acquire, Release
<1>3. IsSeq(t)
  BY RunsOne
<1>4. <<<<"bwrite", "">>>> \o t = t1
  BY DEF Cons
<1> HIDE DEF x1
<1>5. Runs(k, m, t1, {}, "on", "has", "no")
  <2>1. Sound(m, {}, "on", "has", "no")
    BY DEF Sound, Dozing, Loose
  <2>2. Pre(k, m, x1, t, {}, "on", "has", "no")
    BY <1>1 DEF Pre, Loose, Dozing
  <2>3. PostH(x1, {}) = {}
    BY <1>1 DEF PostH
  <2>4. PostR(x1, "on") = "on" /\ PostF(x1, "has") = "has" /\ PostG(x1, "no") = "no"
    BY <1>1 DEF PostR, PostF, PostG
  <2> QED BY <2>1, <2>2, <2>3, <2>4, DoOther
<1> QED BY <1>4, <1>5

(* brelse, when its turn comes. *)
LEMMA FreeRuns ==
  ASSUME NEW k, k # 0, NEW m, NEW t,
         Runs(k, m, t, {}, "on", "none", "no")
  PROVE  Runs(k, m, <<<<"brelse", "">>>> \o t, {}, "on", "has", "no")
<1> DEFINE x1 == <<"brelse", "">>
           t1 == Cons(x1, t)
<1>1. /\ x1[1] = "brelse"
  BY DEF Acquire, Release
<1>3. IsSeq(t)
  BY RunsOne
<1>4. <<<<"brelse", "">>>> \o t = t1
  BY DEF Cons
<1> HIDE DEF x1
<1>5. Runs(k, m, t1, {}, "on", "has", "no")
  <2>1. Sound(m, {}, "on", "has", "no")
    BY DEF Sound, Dozing, Loose
  <2>2. Pre(k, m, x1, t, {}, "on", "has", "no")
    BY <1>1 DEF Pre, Loose, Dozing
  <2>3. PostH(x1, {}) = {}
    BY <1>1 DEF PostH
  <2>4. PostR(x1, "on") = "on" /\ PostF(x1, "has") = "none" /\ PostG(x1, "no") = "no"
    BY <1>1 DEF PostR, PostF, PostG
  <2> QED BY <2>1, <2>2, <2>3, <2>4, DoOther
<1> QED BY <1>4, <1>5


Needs(c) == IF c[1] = "read" THEN "none" ELSE "has"
Leaves(c) == IF c[1] = "free" THEN "none" ELSE "has"

(* Each system call, from what it needs to what it leaves. *)
LEMMA ExpandRuns ==
  ASSUME NEW k, k # 0, NEW m, NEW t, NEW c \in BufferCalls, Runs(k, m, t, {}, "on", Leaves(c), "no")
  PROVE  Runs(k, m, Expand(c) \o t, {}, "on", Needs(c), "no")
<1>1. CASE c[1] = "read"
  <2>1. c[2] \in Blocks /\ Needs(c) = "none" /\ Leaves(c) = "has"
    BY <1>1 DEF BufferCalls, Needs, Leaves
  <2>2. Expand(c) = bread(c[2])
    BY <1>1 DEF Expand
  <2> QED BY <2>1, <2>2, ReadRuns
<1>2. CASE c[1] = "write"
  <2>1. c[2] \in Nat /\ Needs(c) = "has" /\ Leaves(c) = "has"
    BY <1>2 DEF BufferCalls, Needs, Leaves
  <2>2. Expand(c) = <<<<"put", c[2]>>, <<"bwrite", "">>>>
    BY <1>2 DEF Expand
  <2> QED BY <2>1, <2>2, WriteRuns
<1>3. CASE c[1] = "pin"
  <2>1. c[2] \in Nat /\ Needs(c) = "has" /\ Leaves(c) = "has"
    BY <1>3 DEF BufferCalls, Needs, Leaves
  <2>2. Expand(c) = <<<<"put", c[2]>>, <<"log_write", "">>>>
    BY <1>3 DEF Expand
  <2> QED BY <2>1, <2>2, PinRuns
<1>4. CASE c[1] = "flush"
  <2>1. Needs(c) = "has" /\ Leaves(c) = "has"
    BY <1>4 DEF Needs, Leaves
  <2>2. Expand(c) = <<<<"bwrite", "">>>>
    BY <1>4 DEF Expand
  <2> QED BY <2>1, <2>2, FlushRuns
<1>5. CASE c[1] = "free"
  <2>1. Needs(c) = "has" /\ Leaves(c) = "none"
    BY <1>5 DEF Needs, Leaves
  <2>2. Expand(c) = <<<<"brelse", "">>>>
    BY <1>5 DEF Expand
  <2> QED BY <2>1, <2>2, FreeRuns
<1>6. c[1] \in {"read", "write", "pin", "flush", "free"}
  BY DEF BufferCalls
<1> QED BY <1>1, <1>2, <1>3, <1>4, <1>5, <1>6

(* The instructions of a process. *)
LEMMA ProgramIs ==
  ASSUME NEW p \in Procs
  PROVE  \E R : /\ Program(p) = R[Len(Script[p])] /\ R[0] = Exit
                /\ \A j \in 1..Len(Script[p]) : R[j] = Expand(Script[p][Len(Script[p]) - j + 1]) \o R[j - 1]
<1> DEFINE calls == Script[p]
           N == Len(calls)
           U == {"acquire", "bget", "bread", "put", "bwrite", "log_write", "brelse", "zombie", "sched"}
                 \X (Locks \cup Nat \cup {""})
           S == Seq(U)
           G == [j \in 1..N |-> [s \in S |-> Expand(calls[N - j + 1]) \o s]]
           E(R) == R = [j \in 0..N |-> IF j = 0 THEN Exit ELSE Expand(calls[N - j + 1]) \o R[j - 1]]
<1>1. calls \in Seq(BufferCalls) /\ N \in Nat
  BY KernelAssumption DEF Procs
<1>2. ASSUME NEW c \in BufferCalls PROVE Expand(c) \in S
  <2>1. c[1] \in {"read", "write", "pin", "flush", "free"}
    BY DEF BufferCalls
  <2>2. c[2] \in Nat
    BY DEF BufferCalls, Blocks
  <2>0. Acquire(bcache) \in U
    BY LockNames DEF Acquire
  <2>3. <<"bget", c[2]>> \in U /\ <<"bread", c[2]>> \in U /\ <<"put", c[2]>> \in U
    BY <2>2
  <2>4. <<"bwrite", "">> \in U /\ <<"log_write", "">> \in U /\ <<"brelse", "">> \in U
    OBVIOUS
  <2> HIDE DEF U
  <2>5. CASE c[1] = "read"
    <3> DEFINE a == Acquire(bcache)  b == <<"bget", c[2]>>  d == <<"bread", c[2]>>
    <3>1. Expand(c) = <<a, b>> \o <<d>> /\ a \in U /\ b \in U /\ d \in U
      BY <2>0, <2>3, <2>5 DEF Expand, bread, bget
    <3> HIDE DEF a, b, d
    <3>2. <<a, b>> \in S /\ <<d>> \in S
      BY <3>1
    <3> QED BY <3>1, <3>2
  <2>6. CASE c[1] = "write"
    <3> DEFINE a == <<"put", c[2]>>  b == <<"bwrite", "">>
    <3>1. Expand(c) = <<a, b>> /\ a \in U /\ b \in U
      BY <2>3, <2>4, <2>6 DEF Expand
    <3> HIDE DEF a, b
    <3> QED BY <3>1
  <2>7. CASE c[1] = "pin"
    <3> DEFINE a == <<"put", c[2]>>  b == <<"log_write", "">>
    <3>1. Expand(c) = <<a, b>> /\ a \in U /\ b \in U
      BY <2>3, <2>4, <2>7 DEF Expand
    <3> HIDE DEF a, b
    <3> QED BY <3>1
  <2>8. CASE c[1] = "flush"
    <3> DEFINE a == <<"bwrite", "">>
    <3>1. Expand(c) = <<a>> /\ a \in U
      BY <2>4, <2>8 DEF Expand
    <3> HIDE DEF a
    <3> QED BY <3>1
  <2>9. CASE c[1] = "free"
    <3> DEFINE a == <<"brelse", "">>
    <3>1. Expand(c) = <<a>> /\ a \in U
      BY <2>4, <2>9 DEF Expand
    <3> HIDE DEF a
    <3> QED BY <3>1
  <2> QED BY <2>1, <2>5, <2>6, <2>7, <2>8, <2>9
<1>3. Exit \in S
  <2> DEFINE a == Acquire(ptable)  b == <<"zombie", "">>  d == <<"sched", "">>
  <2>1. Exit = <<a, b, d>> /\ a \in U /\ b \in U /\ d \in U
    BY LockNames DEF Exit, Acquire
  <2> HIDE DEF a, b, d, U
  <2> QED BY <2>1
<1>4. G \in [1..N -> [S -> S]]
  <2>1. ASSUME NEW j \in 1..N, NEW s \in S PROVE Expand(calls[N - j + 1]) \o s \in S
    <3>1. calls[N - j + 1] \in BufferCalls
      <4> HIDE DEF calls, U, S
      <4> QED BY <1>1
    <3>2. Expand(calls[N - j + 1]) \in S
      BY <3>1, <1>2
    <3> HIDE DEF U
    <3> QED BY <3>2
  <2> HIDE DEF S, N, calls
  <2> QED BY <2>1
<1> HIDE DEF G, S, E
<1>5. PICK R : Solves(R, N, S, Exit, G)
  BY <1>1, <1>3, <1>4, RecursiveFunction
<1>6. E(R)
  <2>1. ASSUME NEW j \in 1..N PROVE R[j] = Expand(calls[N - j + 1]) \o R[j - 1]
    <3>1. R[j - 1] \in S /\ R[j] = G[j][R[j - 1]]
      BY <1>5, <1>1 DEF Solves
    <3> HIDE DEF N, calls
    <3> QED BY <3>1 DEF G
  <2>2. \A j \in 0..N : R[j] = IF j = 0 THEN Exit ELSE Expand(calls[N - j + 1]) \o R[j - 1]
    <3>1. R[0] = Exit
      BY <1>5 DEF Solves
    <3> HIDE DEF N, calls, U
    <3>2. ASSUME NEW j \in 0..N, j # 0 PROVE j \in 1..N
      BY <1>1, <3>2
    <3> QED BY <2>1, <3>1, <3>2, Zenon
  <2> QED BY <1>5, <2>2 DEF E, Solves
<1>7. Program(p) = (CHOOSE Q : E(Q))[N]
  BY DEF Program, E
<1>8. E(CHOOSE Q : E(Q))
  BY <1>6, Zenon
<1> DEFINE P == CHOOSE Q : E(Q)
<1>9. P = [j \in 0..N |-> IF j = 0 THEN Exit ELSE Expand(calls[N - j + 1]) \o P[j - 1]]
  BY <1>8 DEF E
<1>10. Program(p) = P[N]
  BY <1>7
<1> HIDE DEF P
<1>11. P[0] = Exit /\ \A j \in 1..N : P[j] = Expand(calls[N - j + 1]) \o P[j - 1]
  BY <1>1, <1>9
<1> QED BY <1>10, <1>11

(* A process has a buffer after a call if it was read then, or before and  *)
(* not freed.                                                              *)
LEMMA HasBufferNext ==
  ASSUME NEW calls \in Seq(BufferCalls), NEW j \in 1..Len(calls)
  PROVE  HasBuffer(calls, j) <=>
           (calls[j][1] = "read" \/ (HasBuffer(calls, j - 1) /\ calls[j][1] # "free"))
<1>1. ASSUME calls[j][1] = "read" PROVE HasBuffer(calls, j)
  BY <1>1 DEF HasBuffer
<1>2. ASSUME HasBuffer(calls, j - 1), calls[j][1] # "free" PROVE HasBuffer(calls, j)
  <2>1. PICK i \in 1..j - 1 : calls[i][1] = "read" /\ \A k \in i + 1..j - 1 : calls[k][1] # "free"
    BY <1>2 DEF HasBuffer
  <2>2. \A k \in i + 1..j : calls[k][1] # "free"
    <3>1. ASSUME NEW k \in i + 1..j PROVE k = j \/ k \in i + 1..j - 1
      OBVIOUS
    <3> QED BY <2>1, <3>1, <1>2
  <2> QED BY <2>1, <2>2 DEF HasBuffer
<1>3. ASSUME HasBuffer(calls, j), calls[j][1] # "read"
      PROVE  HasBuffer(calls, j - 1) /\ calls[j][1] # "free"
  <2>1. PICK i \in 1..j : calls[i][1] = "read" /\ \A k \in i + 1..j : calls[k][1] # "free"
    BY <1>3 DEF HasBuffer
  <2>2. i \in 1..j - 1 /\ j \in i + 1..j /\ \A k \in i + 1..j - 1 : k \in i + 1..j
    <3>1. i # j
      BY <2>1, <1>3
    <3> QED BY <3>1
  <2> QED BY <2>1, <2>2 DEF HasBuffer
<1> QED BY <1>1, <1>2, <1>3

(* A process may begin its script with whatever buffer it had. *)
LEMMA ProgramRuns ==
  ASSUME NEW p \in Procs, NEW m
  PROVE  Runs(p, m, Program(p), {}, "on", "none", "no")
<1> DEFINE calls == Script[p]
           N == Len(calls)
           Ph(i) == IF HasBuffer(calls, i) THEN "has" ELSE "none"
<1>1. /\ calls \in Seq(BufferCalls) /\ N \in Nat /\ p # 0
      /\ \A j \in 1..N : calls[j][1] = "read" <=> ~HasBuffer(calls, j - 1)
  BY KernelAssumption DEF Procs
<1>2. PICK R : /\ Program(p) = R[N] /\ R[0] = Exit
               /\ \A j \in 1..N : R[j] = Expand(calls[N - j + 1]) \o R[j - 1]
  BY ProgramIs
<1> DEFINE Ok == {j \in 0..N : Runs(p, m, R[j], {}, "on", Ph(N - j), "no")}
<1>3. 0 \in Ok
  <2>1. Sound(m, {ptable}, "on", Ph(N), "no") /\ Loose("on", Ph(N), "no") /\ Ph(N) \notin Dozing
    BY DEF Sound, Loose, Dozing
  <2> HIDE DEF Ph
  <2>2. Runs(p, m, <<>>, {ptable}, "on", Ph(N), "no")
    BY <2>1, RunsNone
  <2>3. Runs(p, m, Exit \o <<>>, {}, "on", Ph(N), "no")
    BY <2>1, <2>2, <1>1, ExitRuns
  <2>4. Exit \o <<>> = Exit
    <3> DEFINE a == Acquire(ptable)  b == <<"zombie", "">>  d == <<"sched", "">>
    <3>1. Exit = <<a, b, d>>
      BY DEF Exit
    <3> HIDE DEF a, b, d
    <3>2. IsSeq(<<a, b, d>>)
      BY EmptySeq, Unfold3
    <3> QED BY <3>1, <3>2, CatEmpty
  <2>5. Runs(p, m, R[0], {}, "on", Ph(N), "no")
    BY <2>3, <2>4, <1>2
  <2>6. N - 0 = N /\ 0 \in 0..N
    BY <1>1
  <2> HIDE DEF N
  <2> QED BY <2>5, <2>6
<1>4. ASSUME NEW j \in 0..N - 1, j \in Ok PROVE j + 1 \in Ok
  <2> DEFINE i == N - j
             c == calls[i]
  <2>1. i \in 1..N /\ N - (j + 1) + 1 = i /\ N - (j + 1) = i - 1 /\ (j + 1) - 1 = j /\ j + 1 \in 1..N /\ j + 1 \in 0..N
    BY <1>1
  <2>2. c \in BufferCalls
    <3> HIDE DEF calls, i
    <3> QED BY <2>1, <1>1
  <2>3. Ph(i) = Leaves(c)
    <3>1. HasBuffer(calls, i) <=> (calls[i][1] = "read" \/ (HasBuffer(calls, i - 1) /\ calls[i][1] # "free"))
      <4> HIDE DEF calls, i
      <4> QED BY <1>1, <2>1, HasBufferNext
    <3>2. calls[i][1] = "read" <=> ~HasBuffer(calls, i - 1)
      <4> HIDE DEF calls, i
      <4> QED BY <1>1, <2>1
    <3> HIDE DEF calls, i
    <3> QED BY <3>1, <3>2 DEF Leaves
  <2>4. Ph(i - 1) = Needs(c)
    <3>1. calls[i][1] = "read" <=> ~HasBuffer(calls, i - 1)
      <4> HIDE DEF calls, i
      <4> QED BY <1>1, <2>1
    <3> HIDE DEF calls, i
    <3> QED BY <3>1 DEF Needs
  <2>5. Runs(p, m, R[j], {}, "on", Ph(i), "no")
    BY <1>4
  <2> HIDE DEF Ph, c, calls
  <2>6. Runs(p, m, Expand(c) \o R[j], {}, "on", Needs(c), "no")
    BY <2>2, <2>3, <2>5, <1>1, ExpandRuns
  <2>7. R[j + 1] = Expand(c) \o R[j]
    <3>1. R[j + 1] = Expand(calls[N - (j + 1) + 1]) \o R[(j + 1) - 1]
      BY <2>1, <1>2
    <3> HIDE DEF i, N
    <3> QED BY <3>1, <2>1 DEF c
  <2>8. Runs(p, m, R[j + 1], {}, "on", Ph(N - (j + 1)), "no")
    <3> HIDE DEF i, N
    <3> QED BY <2>6, <2>7, <2>4, <2>1
  <2> HIDE DEF N
  <2> QED BY <2>8, <2>1
<1>5. N \in Ok
  <2> HIDE DEF Ok, N, calls
  <2>1. N \in Nat
    BY <1>1
  <2>2. 0..N \subseteq Ok
    BY <2>1, <1>3, <1>4, IntervalInduction
  <2> QED BY <2>1, <2>2
<1>6. Ph(0) = "none"
  BY DEF HasBuffer
<1>7. Runs(p, m, R[N], {}, "on", Ph(N - N), "no")
  BY <1>5
<1>8. N - N = 0
  BY <1>1
<1> HIDE DEF N
<1> QED BY <1>6, <1>7, <1>8, <1>2

(* The return from an interrupt. *)
LEMMA IretRuns ==
  ASSUME NEW k, NEW m, NEW t, NEW f, f \notin Dozing, Runs(k, m, t, {}, "on", f, "no")
  PROVE  Runs(k, m, Iret \o t, {}, "on", f, "no")
<1> DEFINE x == <<"sti", "">>
<1>1. x[1] = "sti" /\ Iret \o t = Cons(x, t)
  BY DEF Iret, Cons
<1> HIDE DEF x
<1>2. Sound(m, {}, "on", f, "no") /\ Pre(k, m, x, t, {}, "on", f, "no")
  BY <1>1 DEF Sound, Pre, Loose, Dozing
<1>3. PostH(x, {}) = {} /\ PostR(x, "on") = "on" /\ PostF(x, f) = f /\ PostG(x, "no") = "no"
  BY <1>1 DEF PostH, PostR, PostF, PostG
<1>4. Runs(k, m, Cons(x, t), {}, "on", f, "no")
  BY <1>2, <1>3, DoOther
<1> QED BY <1>1, <1>4

(* The scheduler within its loop. *)
LEMMA ScanRuns ==
  ASSUME NEW v \in 1..Len(Script) + 1
  PROVE  Runs(0, 0, <<<<"scan", v>>>> \o <<Release(ptable)>>, {ptable}, "on", "none", "no")
<1> DEFINE x == <<"scan", v>>  t == <<Release(ptable)>>
<1>1. x[1] = "scan" /\ x[2] = v /\ <<x>> \o t = Cons(x, t)
  BY DEF Cons
<1>2. t = Cons(Release(ptable), <<>>)
  <2> DEFINE y == Release(ptable)
  <2>1. <<y>> \o <<>> = <<y>>
    <3> HIDE DEF y
    <3> QED OBVIOUS
  <2> QED BY <2>1 DEF Cons
<1> HIDE DEF x
<1>3. Loose("on", "none", "no") /\ Sound(0, {}, "on", "none", "no") /\ Sound(0, {ptable}, "on", "none", "no")
  BY DEF Loose, Sound, Dozing
<1>4. Runs(0, 0, <<>>, {}, "on", "none", "no")
  BY <1>3, RunsNone
<1>5. Runs(0, 0, t, {ptable}, "on", "none", "no")
  <2> HIDE DEF t
  <2> QED BY <1>2, <1>3, <1>4, DoRelease
<1>6. Pre(0, 0, x, t, {ptable}, "on", "none", "no")
  BY <1>1, <1>3 DEF Pre
<1>7. PostH(x, {ptable}) = {ptable} /\ PostR(x, "on") = "on" /\ PostF(x, "none") = "none" /\ PostG(x, "no") = "no"
  BY <1>1 DEF PostH, PostR, PostF, PostG
<1> HIDE DEF t
<1>8. Runs(0, 0, Cons(x, t), {ptable}, "on", "none", "no")
  BY <1>3, <1>5, <1>6, <1>7, DoOther
<1> QED BY <1>1, <1>8 DEF x, t

(* The scheduler at the beginning of its loop, and at the end. *)
LEMMA SchedulerRuns ==
  /\ Runs(0, 0, scheduler, {}, "on", "none", "no")
  /\ Runs(0, 0, <<Release(ptable)>> \o scheduler, {ptable}, "on", "none", "no")
<1> DEFINE x == <<"scan", 1>>  z == Release(ptable)  t == <<x>> \o <<z>>
           a == Acquire(ptable)  i == <<"sti", "">>
<1>1. Loose("on", "none", "no") /\ "none" \notin Dozing /\ ptable \in Locks
  BY LockNames DEF Loose, Dozing
<1>2. Runs(0, 0, t, {ptable}, "on", "none", "no")
  <2>1. 1 \in 1..Len(Script) + 1
    BY KernelAssumption
  <2> QED BY <2>1, ScanRuns
<1>3. Runs(0, 0, Cons(a, t), {}, "on", "none", "no")
  <2> HIDE DEF t
  <2> QED BY <1>1, <1>2, DoAcquire
<1>4. Runs(0, 0, Iret \o Cons(a, t), {}, "on", "none", "no")
  <2> HIDE DEF t, a
  <2> QED BY <1>1, <1>3, IretRuns
<1>5. scheduler = Iret \o Cons(a, t)
  <2>1. scheduler = <<i, a, x, z>> /\ Iret = <<i>>
    BY DEF scheduler, Iret
  <2> HIDE DEF i, a, x, z
  <2>2. IsSeq(<<i, a, x, z>>) /\ <<i, a, x, z>> \o <<>> = Cons(i, Cons(a, Cons(x, Cons(z, <<>>))))
    BY EmptySeq, Unfold4
  <2>3. <<i, a, x, z>> \o <<>> = <<i, a, x, z>>
    BY <2>2, CatEmpty
  <2>4. Cons(z, <<>>) = <<z>> /\ Cons(x, <<z>>) = t
    BY DEF Cons
  <2>5. Iret \o Cons(a, t) = Cons(i, Cons(a, t))
    BY <2>1 DEF Cons
  <2> HIDE DEF t
  <2> QED BY <2>1, <2>2, <2>3, <2>4, <2>5, Zenon
<1>6. Runs(0, 0, scheduler, {}, "on", "none", "no")
  BY <1>4, <1>5
<1>7. Runs(0, 0, Cons(z, scheduler), {ptable}, "on", "none", "no")
  BY <1>1, <1>6, DoRelease
<1> QED BY <1>6, <1>7 DEF Cons
-----------------------------------------------------------------------------
(* The inductive invariant.  Its bound variables ph and hd say, for each   *)
(* process, how far it is with its buffer, and for each processor, what it *)
(* does for the disk's interrupt.                                          *)
CpuRec  == [cur : Procs \cup {0}, proc : Procs \cup {0}, ncli : Nat, intena : BOOLEAN, on : BOOLEAN]
Chans   == {NoChan} \cup {LkChan(i) : i \in Bufs} \cup {IoChan(i) : i \in Bufs}
ProcRec == [state : {"RUNNABLE", "RUNNING", "SLEEPING", "ZOMBIE"}, chan : Chans,
            buf : Bufs \cup {0}, has : BOOLEAN]
BufRec  == [blockno : Blocks \cup {0}, refcnt : Nat, valid : BOOLEAN, dirty : BOOLEAN,
            data : Nat, locked : BOOLEAN, pid : Procs \cup {0}]
IdeRec  == [queue : Seq(Bufs), job : Bufs \cup {0}, out : Nat, irq : BOOLEAN]

CpuTypes ==
  /\ \E n \in 1..MaxCpu : cpu \in [1..n -> CpuRec]
  /\ idle = [c \in Cpus |-> idle[c]]
  /\ lock \in [Locks -> Cpus \cup {0}]
ProcTypes == proc \in [Procs -> ProcRec] /\ todo = [p \in Procs |-> todo[p]]
BufTypes ==
  /\ buf \in [Bufs -> BufRec]
  /\ lru \in [Bufs -> Bufs] /\ \A i \in Bufs : \E j \in Bufs : lru[j] = i
  /\ ide \in IdeRec
  /\ disk \in [Blocks -> Nat] /\ latest \in [Blocks -> Nat]
KTypes == CpuTypes /\ ProcTypes /\ BufTypes

Spins(s) == s # <<>> /\ s[1][1] = "spin"
Cur(k, m, s, H, r, f, g) ==
  /\ IsSeq(s)
  /\ IF Spins(s) THEN Runs(k, m, Cons(Acquire(s[1][2]), Tail(s)), H, r, f, g)
     ELSE Runs(k, m, s, H, r, f, g)

Held(c) == {l \in Locks : lock[l] = c}
Run(p)  == IF p = 0 \/ proc[p].state = "RUNNING" THEN "on" ELSE "off"
Mine(p) == IF p = 0 THEN 0 ELSE proc[p].buf

(* Every thread is somewhere in the code above. *)
OnCpu(c, ph, hd) == Cur(Me(c), Mine(Me(c)), Ops(c), Held(c), Run(Me(c)), ph[Me(c)], hd[c])
Parked(p, ph) ==
  /\ Runs(p, Mine(p), todo[p], {ptable}, "on", ph[p], "no")
  /\ proc[p].state # "RUNNING" /\ ph[p] \notin Dozing
Thr(ph, hd) ==
  /\ \A c \in Cpus : OnCpu(c, ph, hd)
  /\ \A c \in Cpus : Me(c) # 0 => Runs(0, 0, idle[c], {ptable}, "on", "none", "no")
  /\ \A p \in Procs : (\A c \in Cpus : Me(c) # p) => Parked(p, ph)

(* Locks and interrupts of a processor. *)
CpuOk(c, hd) ==
  /\ cpu[c].ncli = Cardinality(Held(c)) + (IF Spins(Ops(c)) THEN 1 ELSE 0)
  /\ cpu[c].on => cpu[c].ncli = 0 /\ hd[c] = "no"
  /\ cpu[c].cur \in {0, cpu[c].proc}
  /\ cpu[c].proc # 0 => idle[c] # <<>> /\ idle[c][1][1] = "scan"
Apart == \A c, d \in Cpus : c # d /\ Me(c) # 0 => Me(c) # Me(d)
CpuInv(hd) == (\A c \in Cpus : CpuOk(c, hd)) /\ Apart

Ghosts(ph, hd) == ph \in [Procs \cup {0} -> Phases] /\ ph[0] = "none" /\ hd \in [Cpus -> Duties]

(* Processors and the threads on them. *)
LEMMA CpuFacts ==
  ASSUME CpuTypes
  PROVE  /\ Cpus \subseteq Nat \ {0} /\ NCPU \in Cpus /\ 0 \notin Procs
         /\ \A c \in Cpus : cpu[c] \in CpuRec /\ Me(c) \in Procs \cup {0}
<1>1. PICK n \in 1..MaxCpu : cpu \in [1..n -> CpuRec]
  BY DEF CpuTypes
<1>2. Cpus = 1..n /\ n \in Nat
  BY <1>1, KernelAssumption DEF Cpus
<1>3. Cardinality(1..n) = n
  BY <1>2, FS_Interval
<1>4. NCPU = n /\ n \in 1..n
  BY <1>2, <1>3, <1>1 DEF NCPU
<1>5. \A c \in 1..n : cpu[c] \in CpuRec /\ cpu[c].cur \in Procs \cup {0}
  BY <1>1 DEF CpuRec
<1> QED BY <1>2, <1>4, <1>5 DEF Procs, Me

(* A processor holds finitely many locks. *)
LEMMA HeldFinite ==
  ASSUME NEW c
  PROVE  IsFiniteSet(Held(c)) /\ Held(c) \subseteq Locks /\ Cardinality(Held(c)) \in Nat
<1> DEFINE A == {"ptable"} \cup {"tickslock"}
           B == {"idelock"} \cup {"bcache"}
           N == (A \cup B) \cup {"buf"}
           I == 0..NBUF
<1>1. IsFiniteSet(A) /\ IsFiniteSet(B)
  BY FS_Singleton, FS_Union
<1>2. IsFiniteSet(N)
  <2> HIDE DEF A, B
  <2>1. IsFiniteSet(A \cup B)
    BY <1>1, FS_Union
  <2> QED BY <2>1, FS_AddElement
<1>3. IsFiniteSet(I)
  <2>1. 0 \in Int /\ NBUF \in Int
    BY KernelAssumption
  <2> QED BY <2>1, FS_Interval
<1>4. IsFiniteSet(Locks)
  <2>1. Locks \subseteq N \X I
    BY KernelAssumption DEF Locks, ptable, tickslock, idelock, bcache, Lk, Bufs
  <2> HIDE DEF N, I
  <2>2. IsFiniteSet(N \X I)
    BY <1>2, <1>3, FS_Product
  <2> QED BY <2>1, <2>2, FS_Subset
<1>5. Held(c) \subseteq Locks
  BY DEF Held
<1>6. IsFiniteSet(Held(c))
  BY <1>4, <1>5, FS_Subset
<1> QED BY <1>5, <1>6, FS_CardinalityType

(* What is next on a processor is in its place. *)
LEMMA Front ==
  ASSUME NEW ph, NEW hd, Thr(ph, hd), NEW c \in Cpus, NEW n, At(c, n), n # "spin"
  PROVE  /\ ~Spins(Ops(c)) /\ Ops(c) # <<>> /\ IsSeq(Ops(c)) /\ IsSeq(Tail(Ops(c)))
         /\ Sound(Mine(Me(c)), Held(c), Run(Me(c)), ph[Me(c)], hd[c])
         /\ Pre(Me(c), Mine(Me(c)), Ops(c)[1], Tail(Ops(c)), Held(c), Run(Me(c)), ph[Me(c)], hd[c])
         /\ Runs(Me(c), Mine(Me(c)), Tail(Ops(c)), PostH(Ops(c)[1], Held(c)),
                 PostR(Ops(c)[1], Run(Me(c))), PostF(Ops(c)[1], ph[Me(c)]), PostG(Ops(c)[1], hd[c]))
         /\ Ops(c) = Cons(Ops(c)[1], Tail(Ops(c)))
<1>1. OnCpu(c, ph, hd)
  BY DEF Thr
<1>2. Ops(c) # <<>> /\ ~Spins(Ops(c))
  BY DEF At, Spins
<1>3. IsSeq(Ops(c)) /\ Runs(Me(c), Mine(Me(c)), Ops(c), Held(c), Run(Me(c)), ph[Me(c)], hd[c])
  BY <1>1, <1>2 DEF OnCpu, Cur
<1>4. /\ IsSeq(Tail(Ops(c))) /\ Head(Ops(c)) = Ops(c)[1]
      /\ Ops(c) = Cons(Head(Ops(c)), Tail(Ops(c)))
  BY <1>2, <1>3, TailSeq
<1> QED BY <1>2, <1>3, <1>4, RunsOne

(* A step of processor c does not concern the other threads. *)
OthersKeep(c, ph, hd, ph2, hd2) ==
  /\ Cpus' = Cpus
  /\ \A d \in Cpus : Me(d)' = Me(d)
  /\ \A d \in Cpus \ {c} : cpu'[d] = cpu[d] /\ idle'[d] = idle[d] /\ Held(d)' = Held(d) /\ hd2[d] = hd[d]
  /\ Me(c) # 0 => idle'[c] = idle[c]
  /\ \A q \in Procs \ {Me(c)} : /\ todo'[q] = todo[q] /\ ph2[q] = ph[q] /\ Mine(q)' = Mine(q)
                                /\ proc'[q].state = "RUNNING" <=> proc[q].state = "RUNNING"
  /\ ph2[0] = ph[0]

(* Then the threads are where they should be if that of c is, *)
LEMMA LocalThr ==
  ASSUME NEW ph, NEW hd, NEW ph2, NEW hd2, NEW c \in Cpus, CpuTypes, Thr(ph, hd), Apart,
         OthersKeep(c, ph, hd, ph2, hd2), OnCpu(c, ph2, hd2)'
  PROVE  Thr(ph2, hd2)'
<1>0. Cpus' = Cpus /\ \A d \in Cpus : Me(d)' = Me(d) /\ Me(d) \in Procs \cup {0}
  BY CpuFacts DEF OthersKeep
<1>1. ASSUME NEW d \in Cpus PROVE OnCpu(d, ph2, hd2)'
  <2>1. CASE d = c
    BY <2>1
  <2>2. CASE d # c
    <3>1. OnCpu(d, ph, hd) /\ Me(d)' = Me(d)
      BY <1>0 DEF Thr
    <3>2. Held(d)' = Held(d) /\ hd2[d] = hd[d] /\ idle'[d] = idle[d]
      BY <2>2 DEF OthersKeep
    <3>3. Me(d) # 0 => Me(d) \in Procs \ {Me(c)}
      BY <1>0, <2>2 DEF Apart
    <3>4. /\ Mine(Me(d))' = Mine(Me(d)) /\ Run(Me(d))' = Run(Me(d)) /\ ph2[Me(d)] = ph[Me(d)]
          /\ Ops(d)' = Ops(d)
      <4>1. CASE Me(d) = 0
        BY <4>1, <3>1, <3>2 DEF Mine, Run, Ops, OthersKeep, Me
      <4>2. CASE Me(d) # 0
        <5>1. /\ todo'[Me(d)] = todo[Me(d)] /\ ph2[Me(d)] = ph[Me(d)] /\ Mine(Me(d))' = Mine(Me(d))
              /\ proc'[Me(d)].state = "RUNNING" <=> proc[Me(d)].state = "RUNNING"
          <6>1. /\ todo'[Me(d)] = todo[Me(d)] /\ ph2[Me(d)] = ph[Me(d)]
                /\ proc'[Me(d)].state = "RUNNING" <=> proc[Me(d)].state = "RUNNING"
            BY <3>3, <4>2 DEF OthersKeep
          <6>2. \A q \in Procs \ {Me(c)} : Mine(q)' = Mine(q)
            BY DEF OthersKeep
          <6> QED BY <6>1, <6>2, <3>1, <3>3, <4>2 DEF Mine
        <5> QED BY <5>1, <4>2, <3>1 DEF Run, Ops, Me
      <4> QED BY <4>1, <4>2
    <3> QED BY <3>1, <3>2, <3>4 DEF OnCpu
  <2> QED BY <2>1, <2>2
<1>2. ASSUME NEW d \in Cpus, Me(d)' # 0 PROVE Runs(0, 0, idle'[d], {ptable}, "on", "none", "no")
  <2>1. idle'[d] = idle[d] /\ Me(d) # 0
    BY <1>0, <1>2 DEF OthersKeep
  <2> QED BY <2>1 DEF Thr
<1>3. ASSUME NEW p \in Procs, \A d \in Cpus : Me(d)' # p PROVE Parked(p, ph2)'
  <2>1. (\A d \in Cpus : Me(d) # p) /\ p \in Procs \ {Me(c)}
    BY <1>0, <1>3
  <2>2. Parked(p, ph)
    BY <2>1 DEF Thr
  <2>3. /\ todo'[p] = todo[p] /\ ph2[p] = ph[p] /\ Mine(p)' = Mine(p)
        /\ proc'[p].state = "RUNNING" <=> proc[p].state = "RUNNING"
    BY <2>1 DEF OthersKeep
  <2> QED BY <2>2, <2>3 DEF Parked
<1> QED BY <1>0, <1>1, <1>2, <1>3 DEF Thr

(* and the processors if c is. *)
LEMMA LocalCpu ==
  ASSUME NEW ph, NEW hd, NEW ph2, NEW hd2, NEW c \in Cpus, CpuTypes, CpuInv(hd),
         OthersKeep(c, ph, hd, ph2, hd2), CpuOk(c, hd2)'
  PROVE  CpuInv(hd2)'
<1>0. Cpus' = Cpus /\ \A d \in Cpus : Me(d)' = Me(d) /\ Me(d) \in Procs \cup {0}
  BY CpuFacts DEF OthersKeep
<1>1. ASSUME NEW d \in Cpus PROVE CpuOk(d, hd2)'
  <2>1. CASE d = c
    BY <2>1
  <2>2. CASE d # c
    <3>1. CpuOk(d, hd) /\ Me(d)' = Me(d)
      BY <1>0 DEF CpuInv
    <3>2. Held(d)' = Held(d) /\ hd2[d] = hd[d] /\ idle'[d] = idle[d] /\ cpu'[d] = cpu[d]
      BY <2>2 DEF OthersKeep
    <3>3. Me(d) # 0 => Me(d) \in Procs \ {Me(c)}
      BY <1>0, <2>2 DEF Apart, CpuInv
    <3>4. Ops(d)' = Ops(d)
      <4>1. Me(d) # 0 => todo'[Me(d)] = todo[Me(d)]
        BY <3>3 DEF OthersKeep
      <4> QED BY <4>1, <3>1, <3>2 DEF Ops, Me
    <3> QED BY <3>1, <3>2, <3>4 DEF CpuOk
  <2> QED BY <2>1, <2>2
<1>2. Apart'
  BY <1>0 DEF Apart, CpuInv
<1> QED BY <1>0, <1>1, <1>2 DEF CpuInv

(* The thread on c goes on with s, and the others with what they had. *)
LEMMA BecomeOps ==
  ASSUME NEW c \in Cpus, NEW s, CpuTypes, ProcTypes, Become(c, s), Me(c)' = Me(c), Cpus' = Cpus
  PROVE  /\ Ops(c)' = s
         /\ \A d \in Cpus \ {c} : idle'[d] = idle[d]
         /\ Me(c) # 0 => idle'[c] = idle[c]
         /\ \A q \in Procs \ {Me(c)} : todo'[q] = todo[q]
         /\ idle' = [d \in Cpus' |-> idle'[d]] /\ todo' = [p \in Procs |-> todo'[p]]
<1>1. Me(c) \in Procs \cup {0} /\ idle = [d \in Cpus |-> idle[d]] /\ todo = [p \in Procs |-> todo[p]]
  BY CpuFacts DEF CpuTypes, ProcTypes
<1>2. CASE Me(c) = 0
  <2>1. idle' = [idle EXCEPT ![c] = s] /\ todo' = todo
    BY <1>2 DEF Become, Me
  <2> QED BY <1>1, <1>2, <2>1 DEF Ops, Me
<1>3. CASE Me(c) # 0
  <2>1. todo' = [todo EXCEPT ![Me(c)] = s] /\ idle' = idle
    BY <1>3 DEF Become, Me
  <2> QED BY <1>1, <1>3, <2>1 DEF Ops, Me
<1> QED BY <1>2, <1>3

(* Steps that leave the locks, the processors and the interrupts alone. *)
Plainly(c, ph, hd, ph2, hd2) ==
  /\ cpu' = cpu /\ lock' = lock
  /\ \A d \in Cpus \ {c} : hd2[d] = hd[d]
  /\ \A q \in Procs \ {Me(c)} : /\ ph2[q] = ph[q] /\ proc'[q].buf = proc[q].buf
                                /\ proc'[q].state = "RUNNING" <=> proc[q].state = "RUNNING"
  /\ ph2[0] = ph[0] /\ (hd[c] = "no" => hd2[c] = "no")

(* A thread in its place does not spin. *)
LEMMA RunsNoSpin ==
  ASSUME NEW k, NEW m, NEW s, NEW H, NEW r, NEW f, NEW g, Runs(k, m, s, H, r, f, g)
  PROVE  ~Spins(s) /\ IsSeq(s) /\ Cur(k, m, s, H, r, f, g)
<1>1. IsSeq(s) /\ (s # <<>> => Pre(k, m, Head(s), Tail(s), H, r, f, g) /\ Head(s) = s[1])
  BY RunsOne, TailSeq
<1>2. ~Spins(s)
  BY <1>1 DEF Pre, Spins
<1> QED BY <1>1, <1>2 DEF Cur

(* Such steps keep what is said of threads and processors. *)
LEMMA PlainStep ==
  ASSUME NEW ph, NEW hd, NEW ph2, NEW hd2, NEW c \in Cpus, NEW s, NEW n, CpuTypes, ProcTypes,
         Thr(ph, hd), CpuInv(hd), At(c, n), n # "spin", n # "scan",
         Plainly(c, ph, hd, ph2, hd2), Become(c, s),
         Runs(Me(c), Mine(Me(c))', s, Held(c), Run(Me(c))', ph2[Me(c)], hd2[c])
  PROVE  Thr(ph2, hd2)' /\ CpuInv(hd2)' /\ CpuTypes' /\ (todo' = [p \in Procs |-> todo'[p]])
<1>1. cpu' = cpu /\ lock' = lock /\ Cpus' = Cpus /\ \A d \in Cpus : Me(d)' = Me(d) /\ Held(d)' = Held(d)
  BY DEF Plainly, Cpus, Me, Held
<1>2. /\ Ops(c)' = s
      /\ \A d \in Cpus \ {c} : idle'[d] = idle[d]
      /\ Me(c) # 0 => idle'[c] = idle[c]
      /\ \A q \in Procs \ {Me(c)} : todo'[q] = todo[q]
      /\ idle' = [d \in Cpus' |-> idle'[d]] /\ todo' = [p \in Procs |-> todo'[p]]
  BY <1>1, BecomeOps
<1>3. OthersKeep(c, ph, hd, ph2, hd2)
  <2>1. \A q \in Procs : Mine(q)' = proc'[q].buf /\ Mine(q) = proc[q].buf
    BY DEF Mine, Procs
  <2> QED BY <1>1, <1>2, <2>1 DEF OthersKeep, Plainly
<1>4. ~Spins(s) /\ IsSeq(s) /\ ~Spins(Ops(c))
  <2>1. ~Spins(Ops(c))
    BY Front
  <2> QED BY <2>1, RunsNoSpin
<1>5. OnCpu(c, ph2, hd2)'
  BY <1>1, <1>2, <1>4 DEF OnCpu, Cur
<1>6. CpuOk(c, hd2)'
  <2>1. CpuOk(c, hd) /\ (hd[c] = "no" => hd2[c] = "no")
    BY DEF CpuInv, Plainly
  <2>2. cpu[c].proc # 0 => Me(c) # 0
    BY <2>1 DEF CpuOk, At, Ops, Me
  <2> QED BY <2>1, <2>2, <1>1, <1>2, <1>4 DEF CpuOk
<1>7. Thr(ph2, hd2)'
  BY <1>3, <1>5, LocalThr DEF CpuInv
<1>8. CpuInv(hd2)'
  BY <1>3, <1>6, LocalCpu
<1>9. CpuTypes'
  BY <1>1, <1>2 DEF CpuTypes
<1> QED BY <1>2, <1>7, <1>8, <1>9
-----------------------------------------------------------------------------
(* Sleepers, buffers and the disk. *)
InQueue(i) == \E j \in DOMAIN ide.queue : ide.queue[j] = i
Undone(i) == ~buf[i].valid \/ buf[i].dirty
Users(i, ph) == {p \in Procs : ph[p] # "none" /\ proc[p].buf = i}

(* Who sleeps, or is about to, will be woken. *)
SleepOk(p, ph) ==
  /\ proc[p].state = "SLEEPING" => \/ ph[p] = "claim" /\ proc[p].chan = LkChan(proc[p].buf)
                                   \/ ph[p] = "io1" /\ proc[p].chan = IoChan(proc[p].buf)
  /\ ph[p] = "claimD" \/ (proc[p].state = "SLEEPING" /\ ph[p] = "claim")
       => buf[proc[p].buf].locked \/ Coming(LkChan(proc[p].buf))
  /\ ph[p] = "io1D" \/ (proc[p].state = "SLEEPING" /\ ph[p] = "io1")
       => InQueue(proc[p].buf) \/ Coming(IoChan(proc[p].buf))
SleepInv(ph) == \A p \in Procs : SleepOk(p, ph)

(* The buffer of a process, and the users of a buffer. *)
ProcOk(p, ph) ==
  /\ ph[p] # "none" => proc[p].buf \in Bufs /\ buf[proc[p].buf].blockno # 0
  /\ proc[p].has <=> ph[p] \in Owning
  /\ ph[p] \in Owning => buf[proc[p].buf].locked /\ buf[proc[p].buf].pid = p
  /\ ph[p] \in {"has", "mod"} => buf[proc[p].buf].valid
  /\ ph[p] \in {"io", "io0"} => Undone(proc[p].buf)
  /\ ph[p] \in {"io1", "io1D"} => (Undone(proc[p].buf) => InQueue(proc[p].buf))
ProcInv(ph) == \A p \in Procs : ProcOk(p, ph)
Waiter(i, ph) == \E p \in Procs : ph[p] \in {"io1", "io1D"} /\ proc[p].buf = i
Changer(i, ph) == \E p \in Procs : ph[p] = "mod" /\ proc[p].buf = i
BufOk(i, ph) ==
  /\ buf[i].refcnt = Cardinality(Users(i, ph))
  /\ buf[i].dirty => buf[i].valid
  /\ InQueue(i) => Undone(i) /\ Waiter(i, ph)
  /\ buf[i].blockno # 0 /\ buf[i].valid /\ ~buf[i].dirty /\ ~Changer(i, ph)
       => buf[i].data = disk[buf[i].blockno]
BufInv(ph) == \A i \in Bufs : BufOk(i, ph)

(* The disk has the first request, or its interrupt is under way. *)
QueueInv(hd) ==
  /\ \A i, j \in DOMAIN ide.queue : i # j => ide.queue[i] # ide.queue[j]
  /\ ide.job # 0 => /\ ide.queue # <<>> /\ ide.job = ide.queue[1] /\ ide.out = buf[ide.job].data /\ ~ide.irq
                    /\ \A c \in Cpus : hd[c] = "no"
  /\ ide.irq => ide.queue # <<>> /\ \A c \in Cpus : hd[c] = "no"
  /\ \A c \in Cpus : hd[c] = "intr" => ide.queue # <<>>
  /\ \A c, d \in Cpus : c # d /\ hd[c] # "no" => hd[d] = "no"
  /\ (ide.irq \/ \E c \in Cpus : hd[c] = "intr") =>
       (buf[ide.queue[1]].dirty => disk[buf[ide.queue[1]].blockno] = buf[ide.queue[1]].data)
  /\ ide.queue # <<>> => ide.job # 0 \/ ide.irq \/ \E c \in Cpus : hd[c] # "no"

Fresh == \A i \in Bufs : buf[i].blockno # 0 /\ buf[i].valid => buf[i].data = latest[buf[i].blockno]
Kept == \A b \in Blocks : latest[b] # disk[b] => \E i \in Bufs : buf[i].blockno = b /\ buf[i].valid
DataInv == OneCopy /\ Fresh /\ Kept

Good(ph, hd) ==
  /\ Ghosts(ph, hd) /\ Thr(ph, hd) /\ CpuInv(hd)
  /\ SleepInv(ph) /\ ProcInv(ph) /\ BufInv(ph) /\ QueueInv(hd) /\ DataInv
KInvariant ==
  /\ fault \in {"none", "bget: no buffers"}
  /\ fault = "none" => KTypes /\ \E ph, hd : Good(ph, hd)

(* Wakeups to come stay to come, but for the one that is carried out. *)
LEMMA HasCat ==
  ASSUME NEW s, NEW t, IsSeq(s), IsSeq(t), NEW x, Has(t, x)
  PROVE  Has(s \o t, x)
<1>1. PICK S : s \in Seq(S)
  BY DEF IsSeq
<1>2. PICK T : t \in Seq(T)
  BY DEF IsSeq
<1>3. PICK j \in DOMAIN t : t[j] = x
  BY DEF Has
<1>4. Len(s) + j \in DOMAIN (s \o t) /\ (s \o t)[Len(s) + j] = x
  BY <1>1, <1>2, <1>3
<1> QED BY <1>4 DEF Has

(* The thread on c may drop everything but a wakeup. *)
LEMMA BecomeComing ==
  ASSUME NEW c \in Cpus, NEW s, NEW ch, CpuTypes, ProcTypes, Become(c, s), Me(c)' = Me(c), Cpus' = Cpus,
         Has(Ops(c), <<"wakeup1", ch>>) => Has(s, <<"wakeup1", ch>>), Coming(ch)
  PROVE  Coming(ch)'
<1>1. /\ Ops(c)' = s
      /\ \A d \in Cpus \ {c} : idle'[d] = idle[d]
      /\ Me(c) # 0 => idle'[c] = idle[c]
      /\ \A q \in Procs \ {Me(c)} : todo'[q] = todo[q]
  BY BecomeOps
<1>2. /\ Me(c) # 0 => Ops(c) = todo[Me(c)] /\ todo'[Me(c)] = s /\ Me(c) \in Procs
      /\ Me(c) = 0 => Ops(c) = idle[c] /\ idle'[c] = s
  BY <1>1, CpuFacts DEF Ops, Me
<1> DEFINE x == <<"wakeup1", ch>>
<1>3. Coming(ch) <=> (\E p \in Procs : Has(todo[p], x)) \/ (\E d \in Cpus : Has(idle[d], x))
  BY DEF Coming, Has
<1>4. Coming(ch)' <=> (\E p \in Procs : Has(todo'[p], x)) \/ (\E d \in Cpus : Has(idle'[d], x))
  BY DEF Coming, Has
<1> HIDE DEF x
<1>5. ASSUME NEW p \in Procs, Has(todo[p], x) PROVE Coming(ch)'
  <2>1. Has(todo'[p], x)
    <3>1. CASE p = Me(c)
      <4>1. Me(c) # 0
        BY <3>1 DEF Procs
      <4> QED BY <3>1, <4>1, <1>2, <1>5 DEF x
    <3>2. CASE p # Me(c)
      BY <3>2, <1>1, <1>5
    <3> QED BY <3>1, <3>2
  <2> QED BY <2>1, <1>4
<1>6. ASSUME NEW d \in Cpus, Has(idle[d], x) PROVE Coming(ch)'
  <2>1. Has(idle'[d], x)
    BY <1>1, <1>2, <1>6 DEF x
  <2> QED BY <2>1, <1>4
<1> QED BY <1>3, <1>5, <1>6

(* An instruction that is no wakeup drops none. *)
LEMMA ThenComing ==
  ASSUME NEW ph, NEW hd, NEW c \in Cpus, NEW n, NEW s, CpuTypes, ProcTypes, Thr(ph, hd), At(c, n),
         n # "spin", n # "wakeup1", IsSeq(s), Then(c, s), Me(c)' = Me(c), Cpus' = Cpus
  PROVE  \A ch : Coming(ch) => Coming(ch)'
<1> SUFFICES ASSUME NEW ch, Coming(ch) PROVE Coming(ch)'
  OBVIOUS
<1> DEFINE x == <<"wakeup1", ch>>
           t == Tail(Ops(c))
<1>1. Ops(c) = Cons(Ops(c)[1], t) /\ IsSeq(t) /\ Ops(c)[1] # x
  BY Front DEF At
<1>2. Become(c, s \o t)
  BY DEF Then
<1> HIDE DEF x, t
<1>3. Has(Ops(c), x) => Has(s \o t, x)
  BY <1>1, HasCons, HasCat
<1> QED BY <1>2, <1>3, BecomeComing DEF x

(* Sleepers keep what will wake them. *)
LEMMA SleepKeep ==
  ASSUME NEW ph, NEW ph2, SleepInv(ph), ProcInv(ph),
         \A ch : Coming(ch) => Coming(ch)',
         \A i \in Bufs : buf[i].locked => buf'[i].locked \/ Coming(LkChan(i))',
         \A i \in Bufs : InQueue(i) => InQueue(i)' \/ Coming(IoChan(i))',
         ProcTypes,
         \A q \in Procs : \/ SleepOk(q, ph2)'
                          \/ /\ ph2[q] = ph[q] /\ proc'[q].buf = proc[q].buf /\ proc'[q].chan = proc[q].chan
                             /\ proc'[q].state = "SLEEPING" => proc[q].state = "SLEEPING"
  PROVE  SleepInv(ph2)'
<1> SUFFICES ASSUME NEW q \in Procs,
                    ph2[q] = ph[q], proc'[q].buf = proc[q].buf, proc'[q].chan = proc[q].chan,
                    proc'[q].state = "SLEEPING" => proc[q].state = "SLEEPING"
             PROVE  SleepOk(q, ph2)'
  BY DEF SleepInv
<1>1. SleepOk(q, ph) /\ (ph[q] # "none" => proc[q].buf \in Bufs)
  BY DEF SleepInv, ProcInv, ProcOk
<1> DEFINE m == proc[q].buf
<1>2. m \in Bufs => (buf[m].locked \/ Coming(LkChan(m)) => buf'[m].locked \/ Coming(LkChan(m))')
  OBVIOUS
<1>3. m \in Bufs => (InQueue(m) \/ Coming(IoChan(m)) => InQueue(m)' \/ Coming(IoChan(m))')
  OBVIOUS
<1> QED BY <1>1, <1>2, <1>3 DEF SleepOk
-----------------------------------------------------------------------------
(* A step that leaves the buffers and the disk alone. *)
SameBufs(me, ph, ph2) ==
  /\ \A q \in Procs : proc'[q].buf = proc[q].buf /\ proc'[q].has = proc[q].has
  /\ \A q \in Procs \ {me} : ph2[q] = ph[q]
SameUse(me, ph, ph2) ==
  /\ ProcOk(me, ph2)'
  /\ ph2[me] = "none" <=> ph[me] = "none"
  /\ ph2[me] = "mod" <=> ph[me] = "mod"
  /\ (ph[me] \in {"io1", "io1D"} => ph2[me] \in {"io1", "io1D"}) \/ ~InQueue(proc[me].buf)

(* Such a step keeps what is said of buffers and processes, *)
LEMMA FrameData ==
  ASSUME NEW ph, NEW ph2, NEW me, ProcInv(ph), BufInv(ph), DataInv, ProcTypes, BufTypes,
         UNCHANGED Data,
         SameBufs(me, ph, ph2), me \in Procs => SameUse(me, ph, ph2)
  PROVE  ProcInv(ph2)' /\ BufInv(ph2)' /\ DataInv' /\ BufTypes'
<1>1. buf' = buf /\ lru' = lru /\ ide' = ide /\ disk' = disk /\ latest' = latest
  BY DEF Data
<1>2. DataInv' /\ BufTypes'
  BY <1>1 DEF DataInv, BufTypes, OneCopy, Fresh, Kept
<1>3. \A i : (InQueue(i)' <=> InQueue(i)) /\ (Undone(i)' <=> Undone(i))
  BY <1>1 DEF InQueue, Undone
<1>4. ASSUME NEW q \in Procs PROVE ProcOk(q, ph2)'
  <2>1. CASE q = me
    BY <2>1 DEF SameUse
  <2>2. CASE q # me
    <3>1. ProcOk(q, ph) /\ ph2[q] = ph[q] /\ proc'[q].buf = proc[q].buf /\ proc'[q].has = proc[q].has
      BY <2>2 DEF ProcInv, SameBufs
    <3> QED BY <3>1, <1>1, <1>3 DEF ProcOk
  <2> QED BY <2>1, <2>2
<1>5. ASSUME NEW i \in Bufs PROVE BufOk(i, ph2)'
  <2>1. BufOk(i, ph)
    BY DEF BufInv
  <2>2. Users(i, ph2)' = Users(i, ph)
    BY DEF Users, SameBufs, SameUse
  <2>3. InQueue(i) /\ Waiter(i, ph) => Waiter(i, ph2)'
    BY DEF Waiter, SameBufs, SameUse
  <2>4. Changer(i, ph2)' <=> Changer(i, ph)
    BY DEF Changer, SameBufs, SameUse
  <2> QED BY <2>1, <2>2, <2>3, <2>4, <1>1, <1>3 DEF BufOk
<1> QED BY <1>2, <1>4, <1>5 DEF ProcInv, BufInv

(* and of the queue, *)
LEMMA FrameQueue ==
  ASSUME NEW hd, QueueInv(hd), UNCHANGED Data, Cpus' = Cpus
  PROVE  QueueInv(hd)'
BY DEF QueueInv, Data
Running == fault = "none" /\ KTypes /\ \E ph, hd : Good(ph, hd)

(* and the invariant as a whole. *)
LEMMA Frame ==
  ASSUME NEW ph, NEW hd, KTypes, Good(ph, hd), UNCHANGED <<Data, fault>>, fault = "none",
         ProcTypes', CpuTypes', Cpus' = Cpus,
         \A q \in Procs : /\ proc'[q].buf = proc[q].buf /\ proc'[q].has = proc[q].has
                          /\ proc'[q].chan = proc[q].chan
                          /\ proc'[q].state = "SLEEPING" => proc[q].state = "SLEEPING",
         \A ch : Coming(ch) => Coming(ch)',
         Thr(ph, hd)', CpuInv(hd)'
  PROVE  Running'
<1>1. Ghosts(ph, hd)'
  BY DEF Good, Ghosts
<1>2. QueueInv(hd)'
  BY FrameQueue DEF Good
<1>3. ProcInv(ph)' /\ BufInv(ph)' /\ DataInv' /\ BufTypes'
  <2>1. 0 \notin Procs
    BY DEF Procs
  <2>2. SameBufs(0, ph, ph)
    BY DEF SameBufs
  <2> QED BY <2>1, <2>2, FrameData DEF Good, KTypes
<1>4. SleepInv(ph)'
  <2>1. \A i \in Bufs : buf[i].locked => buf'[i].locked \/ Coming(LkChan(i))'
    BY DEF Data
  <2>2. \A i \in Bufs : InQueue(i) => InQueue(i)' \/ Coming(IoChan(i))'
    BY DEF Data, InQueue
  <2> QED BY <2>1, <2>2, SleepKeep DEF Good, KTypes
<1>5. Good(ph, hd)'
  BY <1>1, <1>2, <1>3, <1>4 DEF Good
<1>6. KTypes' /\ fault' = "none"
  BY <1>3 DEF KTypes
<1> QED BY <1>5, <1>6 DEF Running

(* A processor takes a lock. *)
LEMMA LockTaken ==
  ASSUME NEW c \in Cpus, NEW v \in Locks, CpuTypes, lock[v] = 0, lock' = [lock EXCEPT ![v] = c]
  PROVE  /\ Held(c)' = Held(c) \cup {v} /\ v \notin Held(c)
         /\ Cardinality(Held(c)') = Cardinality(Held(c)) + 1
         /\ \A d \in Cpus \ {c} : Held(d)' = Held(d)
         /\ lock' \in [Locks -> Cpus \cup {0}]
<1>1. lock \in [Locks -> Cpus \cup {0}] /\ 0 \notin Cpus
  BY CpuFacts DEF CpuTypes
<1>2. Held(c)' = Held(c) \cup {v} /\ v \notin Held(c) /\ \A d \in Cpus \ {c} : Held(d)' = Held(d)
  BY <1>1 DEF Held
<1>3. Cardinality(Held(c) \cup {v}) = Cardinality(Held(c)) + 1
  BY <1>2, HeldFinite, FS_AddElement
<1> QED BY <1>1, <1>2, <1>3

(* A processor gives a lock up. *)
LEMMA LockGiven ==
  ASSUME NEW c \in Cpus, NEW v \in Locks, CpuTypes, lock[v] = c, lock' = [lock EXCEPT ![v] = 0]
  PROVE  /\ Held(c)' = Held(c) \ {v} /\ v \in Held(c)
         /\ Cardinality(Held(c)') = Cardinality(Held(c)) - 1
         /\ \A d \in Cpus \ {c} : Held(d)' = Held(d)
         /\ lock' \in [Locks -> Cpus \cup {0}]
<1>1. lock \in [Locks -> Cpus \cup {0}] /\ 0 \notin Cpus
  BY CpuFacts DEF CpuTypes
<1>2. Held(c)' = Held(c) \ {v} /\ v \in Held(c) /\ \A d \in Cpus \ {c} : Held(d)' = Held(d)
  BY <1>1 DEF Held
<1>3. Cardinality(Held(c) \ {v}) = Cardinality(Held(c)) - 1
  BY <1>2, HeldFinite, FS_RemoveElement
<1> QED BY <1>1, <1>2, <1>3

(* What pushcli does to a processor. *)
LEMMA PushCli ==
  ASSUME NEW x \in CpuRec
  PROVE  /\ pushcli(x) \in CpuRec /\ pushcli(x).cur = x.cur /\ pushcli(x).proc = x.proc
         /\ pushcli(x).ncli = x.ncli + 1 /\ ~pushcli(x).on
<1> DEFINE i == IF x.ncli = 0 THEN x.on ELSE x.intena
           o == FALSE  n == x.ncli + 1
           y == [x EXCEPT !.on = o, !.ncli = n, !.intena = i]
<1>1. /\ x.cur \in Procs \cup {0} /\ x.proc \in Procs \cup {0} /\ x.ncli \in Nat
      /\ x.intena \in BOOLEAN /\ x.on \in BOOLEAN
  BY DEF CpuRec
<1>2. i \in BOOLEAN /\ o \in BOOLEAN /\ ~o /\ n \in Nat
  BY <1>1
<1>3. pushcli(x) = y
  BY DEF pushcli
<1> HIDE DEF i, o, n
<1>4. y.cur = x.cur /\ y.proc = x.proc /\ y.ncli = n /\ y.intena = i /\ y.on = o
  BY DEF CpuRec
<1>5. y \in CpuRec
  <2> DEFINE z == [x EXCEPT !.on = o, !.ncli = n]
  <2>1. z \in CpuRec
    BY <1>1, <1>2 DEF CpuRec
  <2>2. y = [z EXCEPT !.intena = i]
    OBVIOUS
  <2> HIDE DEF z
  <2>3. [z EXCEPT !.intena = i] \in CpuRec
    BY <2>1, <1>2 DEF CpuRec
  <2> QED BY <2>2, <2>3
<1> HIDE DEF y
<1>6. ~y.on
  BY <1>2, <1>4, Zenon
<1> QED BY <1>3, <1>4, <1>5, <1>6, Zenon DEF n

(* What popcli does to it. *)
LEMMA PopCli ==
  ASSUME NEW x \in CpuRec, x.ncli >= 1
  PROVE  /\ popcli(x) \in CpuRec /\ popcli(x).cur = x.cur /\ popcli(x).proc = x.proc
         /\ popcli(x).ncli = x.ncli - 1 /\ (popcli(x).on => x.ncli = 1)
<1> DEFINE i == (x.ncli = 1 /\ x.intena)
           y == [x EXCEPT !.ncli = x.ncli - 1, !.on = i]
<1>1. /\ x.cur \in Procs \cup {0} /\ x.proc \in Procs \cup {0} /\ x.ncli \in Nat
      /\ x.intena \in BOOLEAN /\ x.on \in BOOLEAN
  BY DEF CpuRec
<1>2. i \in BOOLEAN /\ (i => x.ncli = 1) /\ x.ncli - 1 \in Nat
  BY <1>1
<1>3. popcli(x) = y
  BY DEF popcli
<1> HIDE DEF i
<1>4. y.cur = x.cur /\ y.proc = x.proc /\ y.ncli = x.ncli - 1 /\ y.on = i
  BY DEF CpuRec
<1>5. y \in CpuRec
  BY <1>1, <1>2 DEF CpuRec
<1> HIDE DEF y
<1>6. y.on => x.ncli = 1
  BY <1>2, <1>4, Zenon
<1> QED BY <1>3, <1>4, <1>5, <1>6, Zenon

(* A processor changes, but not the thread that it runs. *)
LEMMA CpuChanged ==
  ASSUME NEW c \in Cpus, NEW x \in CpuRec, CpuTypes, cpu' = [cpu EXCEPT ![c] = x], x.cur = cpu[c].cur
  PROVE  /\ Cpus' = Cpus /\ cpu'[c] = x /\ \A d \in Cpus \ {c} : cpu'[d] = cpu[d]
         /\ \A d \in Cpus : Me(d)' = Me(d)
         /\ \E n \in 1..MaxCpu : cpu' \in [1..n -> CpuRec]
<1>1. PICK n \in 1..MaxCpu : cpu \in [1..n -> CpuRec]
  BY DEF CpuTypes
<1>2. cpu' \in [1..n -> CpuRec] /\ Cpus = 1..n /\ Cpus' = 1..n
  BY <1>1 DEF Cpus
<1>3. cpu'[c] = x /\ \A d \in Cpus \ {c} : cpu'[d] = cpu[d]
  BY <1>1, <1>2
<1>4. \A d \in Cpus : Me(d)' = Me(d)
  BY <1>2, <1>3 DEF Me
<1> QED BY <1>2, <1>3, <1>4

(* What the thread on c has to do after an instruction. *)
LEMMA NewOps ==
  ASSUME NEW ph, NEW hd, Thr(ph, hd), NEW c \in Cpus, NEW n, At(c, n), n # "spin", NEW s, Then(c, s), IsSeq(s)
  PROVE  Become(c, s \o Tail(Ops(c))) /\ (s = <<>> => s \o Tail(Ops(c)) = Tail(Ops(c)))
<1>1. IsSeq(Tail(Ops(c)))
  BY Front
<1> QED BY <1>1, CatEmpty DEF Then

(* A step that changes locks and interrupts of a processor, and what its   *)
(* thread is about to do.                                                  *)
LEMMA LockStep ==
  ASSUME NEW ph, NEW hd, NEW c \in Cpus, NEW s, NEW x \in CpuRec, KTypes, Good(ph, hd), fault = "none",
         UNCHANGED <<proc, Data, fault>>,
         cpu' = [cpu EXCEPT ![c] = x], x.cur = cpu[c].cur, x.proc = cpu[c].proc,
         lock' \in [Locks -> Cpus \cup {0}], \A d \in Cpus \ {c} : Held(d)' = Held(d),
         Become(c, s), \A ch : Coming(ch) => Coming(ch)',
         Cur(Me(c), Mine(Me(c)), s, Held(c)', Run(Me(c)), ph[Me(c)], hd[c]),
         x.ncli = Cardinality(Held(c)') + (IF Spins(s) THEN 1 ELSE 0),
         x.on => x.ncli = 0 /\ hd[c] = "no",
         cpu[c].proc # 0 => Me(c) # 0
  PROVE  Running'
<1>0. CpuTypes /\ ProcTypes /\ Thr(ph, hd) /\ CpuInv(hd)
  BY DEF KTypes, Good
<1>1. /\ Cpus' = Cpus /\ cpu'[c] = x /\ \A d \in Cpus \ {c} : cpu'[d] = cpu[d]
      /\ \A d \in Cpus : Me(d)' = Me(d)
      /\ \E n \in 1..MaxCpu : cpu' \in [1..n -> CpuRec]
  BY <1>0, CpuChanged
<1>2. /\ Ops(c)' = s
      /\ \A d \in Cpus \ {c} : idle'[d] = idle[d]
      /\ Me(c) # 0 => idle'[c] = idle[c]
      /\ \A q \in Procs \ {Me(c)} : todo'[q] = todo[q]
      /\ idle' = [d \in Cpus' |-> idle'[d]] /\ todo' = [p \in Procs |-> todo'[p]]
  BY <1>0, <1>1, BecomeOps
<1>3. proc' = proc /\ \A q : Mine(q)' = Mine(q) /\ Run(q)' = Run(q)
  BY DEF Mine, Run
<1>4. OthersKeep(c, ph, hd, ph, hd)
  BY <1>1, <1>2, <1>3 DEF OthersKeep
<1>5. OnCpu(c, ph, hd)'
  <2>1. Me(c)' = Me(c) /\ Ops(c)' = s
    BY <1>1, <1>2
  <2>2. Mine(Me(c))' = Mine(Me(c)) /\ Run(Me(c))' = Run(Me(c))
    BY <1>3, <2>1 DEF Mine, Run
  <2> QED BY <2>1, <2>2 DEF OnCpu
<1>6. CpuOk(c, hd)'
  <2>1. CpuOk(c, hd)
    BY <1>0 DEF CpuInv
  <2> QED BY <2>1, <1>1, <1>2 DEF CpuOk
<1>7. Thr(ph, hd)'
  BY <1>0, <1>4, <1>5, LocalThr DEF CpuInv
<1>8. CpuInv(hd)'
  BY <1>0, <1>4, <1>6, LocalCpu
<1>9. CpuTypes' /\ ProcTypes'
  BY <1>0, <1>1, <1>2, <1>3 DEF CpuTypes, ProcTypes
<1> QED BY <1>1, <1>3, <1>7, <1>8, <1>9, Frame

(* A scheduler that is not in its loop has no process. *)
LEMMA NotScan ==
  ASSUME NEW hd, CpuInv(hd), NEW c \in Cpus, NEW n, At(c, n), n # "scan"
  PROVE  cpu[c].proc # 0 => Me(c) # 0
<1>1. CpuOk(c, hd)
  BY DEF CpuInv
<1> QED BY <1>1 DEF CpuOk, At, Ops, Me

(* acquire: no panic, since the thread has not the lock yet. *)
LEMMA AcquireKeeps ==
  ASSUME NEW ph, NEW hd, NEW c \in Cpus, KTypes, Good(ph, hd), AcquireStep(c)
  PROVE  Running'
<1> DEFINE o == Ops(c)[1]
           v == Arg(c)
           t == Tail(Ops(c))
           k == Me(c)
           x == pushcli(cpu[c])
<1>0. CpuTypes /\ ProcTypes /\ Thr(ph, hd) /\ CpuInv(hd) /\ At(c, "acquire") /\ fault = "none"
  BY DEF KTypes, Good, AcquireStep, At
<1>1. o[1] = "acquire" /\ o[2] = v
  BY <1>0 DEF At, Arg
<1>2. /\ ~Spins(Ops(c)) /\ IsSeq(t) /\ Sound(Mine(k), Held(c), Run(k), ph[k], hd[c])
      /\ Pre(k, Mine(k), o, t, Held(c), Run(k), ph[k], hd[c])
      /\ Runs(k, Mine(k), t, PostH(o, Held(c)), PostR(o, Run(k)), PostF(o, ph[k]), PostG(o, hd[c]))
  BY <1>0, Front
<1>3. v \in Locks /\ v \notin Held(c) /\ lock[v] # c
  BY <1>1, <1>2 DEF Pre, Held
<1>4. /\ cpu' = [cpu EXCEPT ![c] = x] /\ UNCHANGED <<proc, Data, fault>>
      /\ \/ lock[v] = 0 /\ lock' = [lock EXCEPT ![v] = c] /\ Then(c, <<>>)
         \/ lock[v] # 0 /\ lock' = lock /\ Then(c, <<<<"spin", v>>>>)
  BY <1>3 DEF AcquireStep, Advance, Rest
<1>5. x \in CpuRec /\ x.cur = cpu[c].cur /\ x.proc = cpu[c].proc /\ x.ncli = cpu[c].ncli + 1 /\ ~x.on
  BY <1>0, CpuFacts, PushCli
<1>6. cpu[c].proc # 0 => Me(c) # 0
  BY <1>0, NotScan
<1>7. cpu[c].ncli = Cardinality(Held(c)) /\ Cardinality(Held(c)) \in Nat
  <2>1. CpuOk(c, hd)
    BY <1>0 DEF CpuInv
  <2> QED BY <2>1, <1>2, HeldFinite DEF CpuOk
<1>8. Cpus' = Cpus /\ Me(c)' = Me(c)
  BY <1>0, <1>4, <1>5, CpuChanged
<1>9. CASE lock[v] = 0
  <2>1. lock' = [lock EXCEPT ![v] = c] /\ Then(c, <<>>)
    BY <1>4, <1>9
  <2>2. Become(c, t)
    BY <1>0, <2>1, EmptySeq, NewOps
  <2>3. \A ch : Coming(ch) => Coming(ch)'
    BY <1>0, <1>8, <2>1, EmptySeq, ThenComing
  <2>4. /\ Held(c)' = Held(c) \cup {v} /\ Cardinality(Held(c)') = Cardinality(Held(c)) + 1
        /\ \A d \in Cpus \ {c} : Held(d)' = Held(d)
        /\ lock' \in [Locks -> Cpus \cup {0}]
    BY <1>0, <1>3, <1>9, <2>1, LockTaken
  <2>5. Runs(k, Mine(k), t, Held(c)', Run(k), ph[k], hd[c])
    <3>1. PostH(o, Held(c)) = Held(c) \cup {v} /\ PostR(o, Run(k)) = Run(k) /\ PostF(o, ph[k]) = ph[k]
          /\ PostG(o, hd[c]) = hd[c]
      BY <1>1 DEF PostH, PostR, PostF, PostG
    <3> QED BY <3>1, <1>2, <2>4
  <2>6. Cur(k, Mine(k), t, Held(c)', Run(k), ph[k], hd[c]) /\ ~Spins(t)
    BY <2>5, RunsNoSpin
  <2>7. x.ncli = Cardinality(Held(c)') + (IF Spins(t) THEN 1 ELSE 0)
    BY <2>4, <2>6, <1>5, <1>7
  <2> HIDE DEF o, v, t, k, x
  <2> QED BY <1>0, <1>4, <1>5, <1>6, <2>2, <2>3, <2>4, <2>6, <2>7, LockStep DEF k
<1>10. CASE lock[v] # 0
  <2> DEFINE y == <<"spin", v>>
             s == <<y>> \o t
  <2>1. lock' = lock /\ Then(c, <<y>>)
    BY <1>4, <1>10
  <2>2. IsSeq(<<y>>) /\ s = Cons(y, t) /\ y[1] = "spin" /\ y[2] = v
    BY OneSeq DEF Cons
  <2> HIDE DEF y
  <2>3. Become(c, s)
    BY <1>0, <2>1, <2>2, NewOps
  <2>4. \A ch : Coming(ch) => Coming(ch)'
    BY <1>0, <1>8, <2>1, <2>2, ThenComing
  <2>5. Held(c)' = Held(c) /\ (\A d \in Cpus \ {c} : Held(d)' = Held(d)) /\ lock' \in [Locks -> Cpus \cup {0}]
    BY <1>0, <2>1 DEF Held, CpuTypes
  <2>6. IsSeq(s) /\ Spins(s) /\ s[1][2] = v /\ Tail(s) = t
    BY <1>2, <2>2, ConsSeq DEF Spins
  <2>7. Runs(k, Mine(k), Cons(Acquire(v), t), Held(c), Run(k), ph[k], hd[c])
    <3> DEFINE a == Acquire(v)
    <3>1. a[1] = "acquire" /\ a[2] = v
      BY DEF Acquire
    <3> HIDE DEF a
    <3>2. Pre(k, Mine(k), a, t, Held(c), Run(k), ph[k], hd[c])
      BY <3>1, <1>1, <1>2 DEF Pre
    <3>3. /\ PostH(a, Held(c)) = PostH(o, Held(c)) /\ PostR(a, Run(k)) = PostR(o, Run(k))
          /\ PostF(a, ph[k]) = PostF(o, ph[k]) /\ PostG(a, hd[c]) = PostG(o, hd[c])
      BY <3>1, <1>1 DEF PostH, PostR, PostF, PostG
    <3>4. Runs(k, Mine(k), Cons(a, t), Held(c), Run(k), ph[k], hd[c])
      BY <3>2, <3>3, <1>2, RunsCons
    <3> QED BY <3>4 DEF a
  <2>8. Cur(k, Mine(k), s, Held(c)', Run(k), ph[k], hd[c])
    BY <2>5, <2>6, <2>7 DEF Cur
  <2>9. x.ncli = Cardinality(Held(c)') + (IF Spins(s) THEN 1 ELSE 0)
    BY <2>5, <2>6, <1>5, <1>7
  <2> HIDE DEF o, v, t, k, x, s
  <2> QED BY <1>0, <1>4, <1>5, <1>6, <2>3, <2>4, <2>5, <2>8, <2>9, LockStep DEF k
<1> QED BY <1>9, <1>10

(* acquire, when the lock becomes free. *)
LEMMA SpinKeeps ==
  ASSUME NEW ph, NEW hd, NEW c \in Cpus, KTypes, Good(ph, hd), SpinStep(c)
  PROVE  Running'
<1> DEFINE v == Arg(c)
           t == Tail(Ops(c))
           k == Me(c)
           a == Acquire(v)
<1>0. CpuTypes /\ ProcTypes /\ Thr(ph, hd) /\ CpuInv(hd) /\ At(c, "spin") /\ fault = "none"
  BY DEF KTypes, Good, SpinStep, At
<1>1. Ops(c) # <<>> /\ Ops(c)[1][1] = "spin" /\ Ops(c)[1][2] = v /\ Spins(Ops(c))
  BY <1>0 DEF At, Arg, Spins
<1>2. IsSeq(Ops(c)) /\ Runs(k, Mine(k), Cons(a, t), Held(c), Run(k), ph[k], hd[c])
  BY <1>0, <1>1 DEF Thr, OnCpu, Cur
<1>3. IsSeq(t) /\ Ops(c) = Cons(Ops(c)[1], t)
  BY <1>1, <1>2, TailSeq
<1>4. a[1] = "acquire" /\ a[2] = v
  BY DEF Acquire
<1> HIDE DEF a
<1>5. /\ Pre(k, Mine(k), a, t, Held(c), Run(k), ph[k], hd[c])
      /\ Runs(k, Mine(k), t, PostH(a, Held(c)), PostR(a, Run(k)), PostF(a, ph[k]), PostG(a, hd[c]))
  <2> HIDE DEF t, k
  <2>1. Head(Cons(a, t)) = a /\ Tail(Cons(a, t)) = t /\ Cons(a, t) # <<>>
    BY <1>3, ConsSeq
  <2> QED BY <1>2, <2>1, RunsOne
<1>6. v \in Locks /\ lock[v] = 0 /\ lock' = [lock EXCEPT ![v] = c] /\ Become(c, t)
  <2>1. <<>> \o t = t
    BY <1>3, CatEmpty
  <2> QED BY <1>4, <1>5, <2>1 DEF Pre, SpinStep, Advance, Then
<1>7. cpu' = cpu /\ UNCHANGED <<proc, Data, fault>>
  BY DEF SpinStep, Rest
<1>8. cpu[c] \in CpuRec /\ cpu' = [cpu EXCEPT ![c] = cpu[c]]
  BY <1>0, <1>7, CpuFacts DEF CpuTypes
<1>9. /\ Held(c)' = Held(c) \cup {v} /\ Cardinality(Held(c)') = Cardinality(Held(c)) + 1
      /\ \A d \in Cpus \ {c} : Held(d)' = Held(d)
      /\ lock' \in [Locks -> Cpus \cup {0}]
  BY <1>0, <1>6, LockTaken
<1>10. Runs(k, Mine(k), t, Held(c)', Run(k), ph[k], hd[c])
  <2>1. PostH(a, Held(c)) = Held(c) \cup {v} /\ PostR(a, Run(k)) = Run(k) /\ PostF(a, ph[k]) = ph[k]
        /\ PostG(a, hd[c]) = hd[c]
    BY <1>4 DEF PostH, PostR, PostF, PostG
  <2> QED BY <2>1, <1>5, <1>9
<1>11. Cur(k, Mine(k), t, Held(c)', Run(k), ph[k], hd[c]) /\ ~Spins(t)
  BY <1>10, RunsNoSpin
<1>12. /\ cpu[c].ncli = Cardinality(Held(c)') + (IF Spins(t) THEN 1 ELSE 0)
       /\ cpu[c].on => cpu[c].ncli = 0 /\ hd[c] = "no"
  <2>1. CpuOk(c, hd)
    BY <1>0 DEF CpuInv
  <2> QED BY <2>1, <1>1, <1>9, <1>11, HeldFinite DEF CpuOk
<1>13. cpu[c].proc # 0 => Me(c) # 0
  BY <1>0, NotScan
<1>14. ASSUME NEW ch, Coming(ch) PROVE Coming(ch)'
  <2>1. Has(Ops(c), <<"wakeup1", ch>>) => Has(t, <<"wakeup1", ch>>)
    <3> DEFINE w == <<"wakeup1", ch>>
    <3>1. Ops(c)[1] # w
      BY <1>1
    <3> HIDE DEF w, t
    <3>2. Has(Ops(c), w) => Has(t, w)
      BY <1>3, <3>1, HasCons
    <3> QED BY <3>2 DEF w
  <2>2. Me(c)' = Me(c) /\ Cpus' = Cpus
    BY <1>7 DEF Me, Cpus
  <2> HIDE DEF t
  <2> QED BY <1>0, <1>6, <1>14, <2>1, <2>2, BecomeComing
<1> HIDE DEF t, v, k
<1> QED BY <1>0, <1>6, <1>7, <1>8, <1>9, <1>11, <1>12, <1>13, <1>14, LockStep DEF k

(* release: no panic, since the thread has the lock. *)
LEMMA ReleaseKeeps ==
  ASSUME NEW ph, NEW hd, NEW c \in Cpus, KTypes, Good(ph, hd), ReleaseStep(c)
  PROVE  Running'
<1> DEFINE o == Ops(c)[1]
           v == Arg(c)
           t == Tail(Ops(c))
           k == Me(c)
           x == popcli(cpu[c])
<1>0. CpuTypes /\ ProcTypes /\ Thr(ph, hd) /\ CpuInv(hd) /\ At(c, "release") /\ fault = "none" /\ Ghosts(ph, hd)
  BY DEF KTypes, Good, ReleaseStep, At
<1>1. o[1] = "release" /\ o[2] = v
  BY <1>0 DEF At, Arg
<1>2. /\ ~Spins(Ops(c)) /\ IsSeq(t) /\ Sound(Mine(k), Held(c), Run(k), ph[k], hd[c])
      /\ Pre(k, Mine(k), o, t, Held(c), Run(k), ph[k], hd[c])
      /\ Runs(k, Mine(k), t, PostH(o, Held(c)), PostR(o, Run(k)), PostF(o, ph[k]), PostG(o, hd[c]))
  BY <1>0, Front
<1>3. v \in Held(c) /\ v \in Locks /\ lock[v] = c /\ hd[c] # "intr"
  BY <1>1, <1>2 DEF Pre, Held
<1>4. cpu[c].ncli = Cardinality(Held(c)) /\ cpu[c].ncli >= 1 /\ ~cpu[c].on /\ cpu[c] \in CpuRec /\ cpu[c].ncli \in Nat
  <2>1. CpuOk(c, hd)
    BY <1>0 DEF CpuInv
  <2>2. cpu[c].ncli = Cardinality(Held(c)) /\ Cardinality(Held(c)) \in Nat
    BY <2>1, <1>2, HeldFinite DEF CpuOk
  <2>3. Cardinality(Held(c)) # 0
    <3>1. IsFiniteSet(Held(c)) /\ Held(c) # {}
      BY <1>3, HeldFinite
    <3> QED BY <3>1, FS_EmptySet
  <2> QED BY <2>1, <2>2, <2>3, <1>0, CpuFacts DEF CpuOk
<1>5. /\ lock' = [lock EXCEPT ![v] = 0] /\ cpu' = [cpu EXCEPT ![c] = x] /\ Then(c, <<>>)
      /\ UNCHANGED <<proc, Data, fault>>
  BY <1>3, <1>4 DEF ReleaseStep, Advance, Rest
<1>6. /\ x \in CpuRec /\ x.cur = cpu[c].cur /\ x.proc = cpu[c].proc /\ x.ncli = cpu[c].ncli - 1
      /\ (x.on => cpu[c].ncli = 1)
  BY <1>4, PopCli
<1>7. Cpus' = Cpus /\ Me(c)' = Me(c)
  BY <1>0, <1>5, <1>6, CpuChanged
<1>8. Become(c, t)
  BY <1>0, <1>5, EmptySeq, NewOps
<1>9. \A ch : Coming(ch) => Coming(ch)'
  BY <1>0, <1>5, <1>7, EmptySeq, ThenComing
<1>10. /\ Held(c)' = Held(c) \ {v} /\ Cardinality(Held(c)') = Cardinality(Held(c)) - 1
       /\ \A d \in Cpus \ {c} : Held(d)' = Held(d)
       /\ lock' \in [Locks -> Cpus \cup {0}]
  BY <1>0, <1>3, <1>5, LockGiven
<1>11. Runs(k, Mine(k), t, Held(c)', Run(k), ph[k], hd[c])
  <2>1. PostH(o, Held(c)) = Held(c) \ {v} /\ PostR(o, Run(k)) = Run(k) /\ PostF(o, ph[k]) = ph[k]
        /\ PostG(o, hd[c]) = hd[c]
    BY <1>1 DEF PostH, PostR, PostF, PostG
  <2> QED BY <2>1, <1>2, <1>10
<1>12. Cur(k, Mine(k), t, Held(c)', Run(k), ph[k], hd[c]) /\ ~Spins(t)
  BY <1>11, RunsNoSpin
<1>13. x.ncli = Cardinality(Held(c)') + (IF Spins(t) THEN 1 ELSE 0)
  BY <1>4, <1>6, <1>10, <1>12
<1>14. ASSUME x.on PROVE x.ncli = 0 /\ hd[c] = "no"
  <2>1. x.ncli = 0 /\ Cardinality(Held(c)') = 0
    BY <1>14, <1>4, <1>6, <1>10
  <2>2. IsFiniteSet(Held(c)')
    BY <1>10, HeldFinite, FS_RemoveElement
  <2>3. Held(c)' = {}
    BY <2>1, <2>2, FS_EmptySet
  <2>4. Sound(Mine(k), {}, Run(k), ph[k], hd[c])
    BY <1>11, <2>3, RunsOne
  <2>5. hd[c] # "job" /\ hd[c] \in Duties
    BY <2>4, <1>0 DEF Sound, Ghosts
  <2> QED BY <2>1, <2>5, <1>3 DEF Duties
<1>15. cpu[c].proc # 0 => Me(c) # 0
  BY <1>0, NotScan
<1> HIDE DEF o, v, t, k, x
<1> QED BY <1>0, <1>5, <1>6, <1>8, <1>9, <1>10, <1>12, <1>13, <1>14, <1>15, LockStep DEF k

(* Steps that set intena or the interrupt flag of a processor. *)
LEMMA FlagStep ==
  ASSUME NEW ph, NEW hd, NEW c \in Cpus, NEW s, NEW x \in CpuRec, KTypes, Good(ph, hd), fault = "none",
         UNCHANGED <<lock, proc, Data, fault>>,
         cpu' = [cpu EXCEPT ![c] = x], x.cur = cpu[c].cur, x.proc = cpu[c].proc, x.ncli = cpu[c].ncli,
         Become(c, s), \A ch : Coming(ch) => Coming(ch)', ~Spins(Ops(c)),
         Runs(Me(c), Mine(Me(c)), s, Held(c), Run(Me(c)), ph[Me(c)], hd[c]),
         x.on => x.ncli = 0 /\ hd[c] = "no",
         cpu[c].proc # 0 => Me(c) # 0
  PROVE  Running'
<1>1. CpuTypes /\ CpuOk(c, hd)
  BY DEF KTypes, Good, CpuInv
<1>2. (\A d \in Cpus : Held(d)' = Held(d)) /\ lock' \in [Locks -> Cpus \cup {0}]
  BY <1>1 DEF Held, CpuTypes
<1>3. ~Spins(s) /\ Cur(Me(c), Mine(Me(c)), s, Held(c)', Run(Me(c)), ph[Me(c)], hd[c])
  BY <1>2, RunsNoSpin
<1>4. x.ncli = Cardinality(Held(c)') + (IF Spins(s) THEN 1 ELSE 0)
  BY <1>1, <1>2, <1>3 DEF CpuOk
<1> QED BY <1>2, <1>3, <1>4, LockStep

(* The scheduler, and the return from an interrupt, allow interrupts. *)
LEMMA StiKeeps ==
  ASSUME NEW ph, NEW hd, NEW c \in Cpus, KTypes, Good(ph, hd), StiStep(c)
  PROVE  Running'
<1> DEFINE o == Ops(c)[1]
           t == Tail(Ops(c))
           k == Me(c)
           x == [cpu[c] EXCEPT !.on = TRUE]
<1>0. CpuTypes /\ ProcTypes /\ Thr(ph, hd) /\ CpuInv(hd) /\ At(c, "sti") /\ fault = "none"
  BY DEF KTypes, Good, StiStep, At
<1>1. o[1] = "sti"
  BY <1>0 DEF At
<1>2. /\ ~Spins(Ops(c)) /\ IsSeq(t)
      /\ Pre(k, Mine(k), o, t, Held(c), Run(k), ph[k], hd[c])
      /\ Runs(k, Mine(k), t, PostH(o, Held(c)), PostR(o, Run(k)), PostF(o, ph[k]), PostG(o, hd[c]))
  BY <1>0, Front
<1>3. Held(c) = {} /\ hd[c] = "no"
  BY <1>1, <1>2 DEF Pre, Loose
<1>4. cpu[c] \in CpuRec /\ cpu[c].ncli = 0
  <2>1. CpuOk(c, hd)
    BY <1>0 DEF CpuInv
  <2>2. Cardinality(Held(c)) = 0
    BY <1>3, FS_EmptySet
  <2> QED BY <2>1, <2>2, <1>2, <1>0, CpuFacts DEF CpuOk
<1>5. x \in CpuRec /\ x.cur = cpu[c].cur /\ x.proc = cpu[c].proc /\ x.ncli = cpu[c].ncli
  BY <1>4 DEF CpuRec
<1>6. cpu' = [cpu EXCEPT ![c] = x] /\ Then(c, <<>>) /\ UNCHANGED <<lock, proc, Data, fault>>
  BY DEF StiStep, Advance, Rest
<1>7. Cpus' = Cpus /\ Me(c)' = Me(c)
  BY <1>0, <1>5, <1>6, CpuChanged
<1>8. Become(c, t) /\ \A ch : Coming(ch) => Coming(ch)'
  BY <1>0, <1>6, <1>7, EmptySeq, NewOps, ThenComing
<1>9. Runs(k, Mine(k), t, Held(c), Run(k), ph[k], hd[c])
  <2>1. PostH(o, Held(c)) = Held(c) /\ PostR(o, Run(k)) = Run(k) /\ PostF(o, ph[k]) = ph[k]
        /\ PostG(o, hd[c]) = hd[c]
    BY <1>1 DEF PostH, PostR, PostF, PostG
  <2> QED BY <2>1, <1>2
<1>10. cpu[c].proc # 0 => Me(c) # 0
  BY <1>0, NotScan
<1> HIDE DEF o, t, k, x
<1> QED BY <1>0, <1>2, <1>3, <1>4, <1>5, <1>6, <1>8, <1>9, <1>10, FlagStep DEF k

(* A process is resumed, and puts intena back. *)
LEMMA ResumeKeeps ==
  ASSUME NEW ph, NEW hd, NEW c \in Cpus, KTypes, Good(ph, hd), ResumeStep(c)
  PROVE  Running'
<1> DEFINE o == Ops(c)[1]
           v == Arg(c)
           t == Tail(Ops(c))
           k == Me(c)
           x == [cpu[c] EXCEPT !.intena = v]
<1>0. CpuTypes /\ ProcTypes /\ Thr(ph, hd) /\ CpuInv(hd) /\ At(c, "intena") /\ fault = "none"
  BY DEF KTypes, Good, ResumeStep, At
<1>1. o[1] = "intena" /\ o[2] = v
  BY <1>0 DEF At, Arg
<1>2. /\ ~Spins(Ops(c)) /\ IsSeq(t)
      /\ Pre(k, Mine(k), o, t, Held(c), Run(k), ph[k], hd[c])
      /\ Runs(k, Mine(k), t, PostH(o, Held(c)), PostR(o, Run(k)), PostF(o, ph[k]), PostG(o, hd[c]))
  BY <1>0, Front
<1>3. v \in BOOLEAN
  BY <1>1, <1>2 DEF Pre
<1>4. cpu[c] \in CpuRec /\ (cpu[c].on => cpu[c].ncli = 0 /\ hd[c] = "no")
  BY <1>0, CpuFacts DEF CpuInv, CpuOk
<1>5. cpu' = [cpu EXCEPT ![c] = x] /\ Then(c, <<>>) /\ UNCHANGED <<lock, proc, Data, fault>>
  BY DEF ResumeStep, Advance, Rest
<1> HIDE DEF v
<1>6. /\ x \in CpuRec /\ x.cur = cpu[c].cur /\ x.proc = cpu[c].proc /\ x.ncli = cpu[c].ncli
      /\ x.on = cpu[c].on
  BY <1>3, <1>4 DEF CpuRec
<1>7. Cpus' = Cpus /\ Me(c)' = Me(c)
  BY <1>0, <1>5, <1>6, CpuChanged
<1>8. Become(c, t) /\ \A ch : Coming(ch) => Coming(ch)'
  BY <1>0, <1>5, <1>7, EmptySeq, NewOps, ThenComing
<1>9. Runs(k, Mine(k), t, Held(c), Run(k), ph[k], hd[c])
  <2>1. PostH(o, Held(c)) = Held(c) /\ PostR(o, Run(k)) = Run(k) /\ PostF(o, ph[k]) = ph[k]
        /\ PostG(o, hd[c]) = hd[c]
    BY <1>1 DEF PostH, PostR, PostF, PostG
  <2> QED BY <2>1, <1>2
<1>10. cpu[c].proc # 0 => Me(c) # 0
  BY <1>0, NotScan
<1> HIDE DEF o, t, k, x
<1>11. x.on => x.ncli = 0 /\ hd[c] = "no"
  BY <1>4, <1>6, Zenon
<1> QED BY <1>0, <1>2, <1>5, <1>6, <1>8, <1>9, <1>10, <1>11, FlagStep DEF k

(* A thread with interrupts on holds no lock and nobody counts on it. *)
LEMMA Interruptible ==
  ASSUME NEW ph, NEW hd, KTypes, Good(ph, hd), NEW c \in Cpus, cpu[c].on
  PROVE  /\ Held(c) = {} /\ Run(Me(c)) = "on" /\ ph[Me(c)] \notin Dozing /\ hd[c] = "no"
         /\ ~Spins(Ops(c)) /\ IsSeq(Ops(c)) /\ cpu[c].ncli = 0
         /\ Runs(Me(c), Mine(Me(c)), Ops(c), {}, "on", ph[Me(c)], "no")
         /\ cpu[c].proc # 0 => Me(c) # 0
<1>0. CpuTypes /\ ProcTypes /\ Thr(ph, hd) /\ CpuOk(c, hd)
  BY DEF KTypes, Good, CpuInv
<1>1. cpu[c].ncli = 0 /\ hd[c] = "no"
  BY <1>0 DEF CpuOk
<1>2. Cardinality(Held(c)) = 0 /\ ~Spins(Ops(c))
  BY <1>0, <1>1, HeldFinite DEF CpuOk
<1>3. Held(c) = {}
  BY <1>2, HeldFinite, FS_EmptySet
<1>4. IsSeq(Ops(c)) /\ Runs(Me(c), Mine(Me(c)), Ops(c), {}, Run(Me(c)), ph[Me(c)], "no")
  BY <1>0, <1>1, <1>2, <1>3 DEF Thr, OnCpu, Cur
<1>5. Sound(Mine(Me(c)), {}, Run(Me(c)), ph[Me(c)], "no")
  BY <1>4, RunsOne
<1>6. Run(Me(c)) = "on" /\ ph[Me(c)] \notin Dozing
  BY <1>5 DEF Sound, Run, Dozing
<1>7. ASSUME cpu[c].proc # 0, Me(c) = 0 PROVE FALSE
  <2>1. Ops(c) # <<>> /\ Ops(c)[1][1] = "scan"
    BY <1>0, <1>7 DEF CpuOk, Ops, Me
  <2>2. Pre(Me(c), Mine(Me(c)), Head(Ops(c)), Tail(Ops(c)), {}, Run(Me(c)), ph[Me(c)], "no")
    BY <2>1, <1>4, RunsOne
  <2>3. Head(Ops(c))[1] = "scan"
    BY <1>4, <2>1, TailSeq
  <2> QED BY <2>2, <2>3 DEF Pre
<1> QED BY <1>1, <1>2, <1>3, <1>4, <1>6, <1>7

(* A timer interrupt, with the clock on processor 1 and yield. *)
LEMMA TimerKeeps ==
  ASSUME NEW ph, NEW hd, NEW c \in Cpus, KTypes, Good(ph, hd), TimerIntr(c)
  PROVE  Running'
<1> DEFINE x == [cpu[c] EXCEPT !.on = FALSE]
           k == Me(c)
           t == Ops(c)
           tick == (<<Acquire(tickslock)>> \o Wakeup(Ticks)) \o <<Release(tickslock)>>
           a == IF c = 1 THEN tick ELSE <<>>
           b == IF cpu[c].proc # 0 THEN Yield ELSE <<>>
           s == ((a \o b) \o Iret) \o t
<1>0. CpuTypes /\ ProcTypes /\ cpu[c].on /\ fault = "none"
  BY DEF KTypes, TimerIntr
<1>1. /\ Held(c) = {} /\ Run(k) = "on" /\ ph[k] \notin Dozing /\ hd[c] = "no"
      /\ ~Spins(t) /\ IsSeq(t) /\ cpu[c].ncli = 0
      /\ Runs(k, Mine(k), t, {}, "on", ph[k], "no")
      /\ cpu[c].proc # 0 => k # 0
  BY <1>0, Interruptible
<1>2. /\ cpu' = [cpu EXCEPT ![c] = x] /\ Become(c, s) /\ UNCHANGED <<lock, proc, Data, fault>>
  BY DEF TimerIntr
<1>3. x \in CpuRec /\ x.cur = cpu[c].cur /\ x.proc = cpu[c].proc /\ x.ncli = cpu[c].ncli /\ ~x.on
  <2>1. cpu[c] \in CpuRec
    BY <1>0, CpuFacts
  <2> QED BY <2>1 DEF CpuRec
<1>4. IsSeq(Iret) /\ IsSeq(b) /\ IsSeq(a) /\ IsSeq(tick)
  <2>1. IsSeq(Iret)
    BY OneSeq DEF Iret
  <2>2. IsSeq(Yield)
    BY EmptySeq, Unfold4 DEF Yield
  <2>3. IsSeq(tick)
    <3>1. IsSeq(Wakeup(Ticks))
      BY EmptySeq, Unfold3 DEF Wakeup
    <3>2. IsSeq(<<Acquire(tickslock)>>) /\ IsSeq(<<Release(tickslock)>>)
      BY OneSeq
    <3> QED BY <3>1, <3>2, CatSeq
  <2> QED BY <2>1, <2>2, <2>3, EmptySeq
<1> HIDE DEF k, t
<1>5. Runs(k, Mine(k), Iret \o t, {}, "on", ph[k], "no") /\ IsSeq(Iret \o t)
  BY <1>1, <1>4, IretRuns, CatSeq
<1>6. Runs(k, Mine(k), b \o (Iret \o t), {}, "on", ph[k], "no") /\ IsSeq(b \o (Iret \o t))
  <2>1. CASE cpu[c].proc # 0
    <3> DEFINE u == Iret \o t
    <3> HIDE DEF u
    <3>1. b = Yield /\ Runs(k, Mine(k), u, {}, "on", ph[k], "no") /\ IsSeq(u) /\ k # 0
      BY <2>1, <1>5, <1>1 DEF u
    <3>2. Runs(k, Mine(k), Yield \o u, {}, "on", ph[k], "no") /\ IsSeq(Yield \o u)
      BY <3>1, <1>1, <1>4, YieldRuns, CatSeq
    <3> QED BY <3>1, <3>2 DEF u
  <2>2. CASE cpu[c].proc = 0
    BY <2>2, <1>5, CatEmpty
  <2> QED BY <2>1, <2>2
<1>7. Runs(k, Mine(k), a \o (b \o (Iret \o t)), {}, "on", ph[k], "no")
  <2> DEFINE u == b \o (Iret \o t)
  <2>0. Runs(k, Mine(k), u, {}, "on", ph[k], "no") /\ IsSeq(u)
    BY <1>6
  <2> HIDE DEF u
  <2>1. CASE c = 1
    <3>1. Runs(k, Mine(k), tick \o u, {}, "on", ph[k], "no")
      BY <2>0, <1>1, ClockRuns
    <3> QED BY <3>1, <2>1 DEF u
  <2>2. CASE c # 1
    <3>1. a = <<>> /\ <<>> \o u = u
      BY <2>2, <2>0, CatEmpty
    <3> QED BY <3>1, <2>0 DEF u
  <2> QED BY <2>1, <2>2
<1> HIDE DEF a, b, tick
<1>8. s = a \o (b \o (Iret \o t)) /\ IsSeq((a \o b) \o Iret)
  <2>1. IsSeq(a \o b)
    BY <1>4, CatSeq
  <2>2. IsSeq((a \o b) \o Iret)
    BY <2>1, <1>4, CatSeq
  <2>3. Cat(Cat(Cat(a, b), Iret), t) = Cat(a, Cat(b, Cat(Iret, t)))
    BY <1>4, <1>1, Cat4
  <2>4. ((a \o b) \o Iret) \o t = a \o (b \o (Iret \o t))
    BY <2>3, Zenon DEF Cat
  <2> QED BY <2>2, <2>4
<1>9. Cpus' = Cpus /\ Me(c)' = Me(c)
  BY <1>0, <1>2, <1>3, CpuChanged
<1>10. ASSUME NEW ch, Coming(ch) PROVE Coming(ch)'
  <2> DEFINE w == <<"wakeup1", ch>>
             u == (a \o b) \o Iret
  <2>1. IsSeq(u) /\ s = u \o t
    BY <1>8
  <2> HIDE DEF w, u, s
  <2>2. Has(t, w) => Has(s, w)
    BY <2>1, <1>1, HasCat
  <2> QED BY <2>2, <1>0, <1>2, <1>9, <1>10, BecomeComing DEF t, w
<1>11. Runs(k, Mine(k), s, Held(c), Run(k), ph[k], hd[c])
  <2> HIDE DEF s
  <2>1. Runs(k, Mine(k), s, {}, "on", ph[k], "no")
    BY <1>7, <1>8
  <2> QED BY <2>1, <1>1, Zenon
<1> HIDE DEF x, s
<1> QED BY <1>0, <1>1, <1>2, <1>3, <1>10, <1>11, FlagStep DEF k, t

(* The least element of a set of numbers is in it. *)
LEMMA MinIn ==
  ASSUME NEW S \in SUBSET Nat, S # {}
  PROVE  Min(S) \in S
<1>1. \E m \in S : \A n \in S : m <= n
  BY LeastNumber
<1>2. Min(S) = CHOOSE x \in S : \A y \in S : x <= y
  BY Zenon DEF Min
<1>3. (CHOOSE x \in S : \A y \in S : x <= y) \in S
  BY <1>1
<1> QED BY <1>2, <1>3

(* So is the greatest of a bounded one. *)
LEMMA MaxIn ==
  ASSUME NEW N \in Nat, NEW S \in SUBSET (1..N), S # {}
  PROVE  Max(S) \in S
<1> DEFINE T == {m \in 0..N : N - m \in S}
<1>1. T \in SUBSET Nat /\ T # {}
  <2>1. PICK s \in S : TRUE
    OBVIOUS
  <2>2. N - s \in 0..N /\ N - (N - s) = s
    OBVIOUS
  <2>3. N - s \in T /\ T \subseteq 0..N
    BY <2>2
  <2>4. 0..N \subseteq Nat
    OBVIOUS
  <2> HIDE DEF T
  <2> QED BY <2>3, <2>4
<1>2. PICK m \in T : \A n \in T : m <= n
  <2> HIDE DEF T
  <2> QED BY <1>1, LeastNumber
<1>3. N - m \in S
  BY <1>2
<1>4. ASSUME NEW y \in S PROVE N - m >= y
  <2>1. N - y \in 0..N /\ N - (N - y) = y
    OBVIOUS
  <2>2. N - y \in T
    BY <2>1
  <2>3. m \in 0..N /\ y \in 1..N
    BY <1>2
  <2>4. m <= N - y
    BY <2>2, <1>2
  <2> HIDE DEF T
  <2> QED BY <2>3, <2>4
<1>5. Max(S) = CHOOSE x \in S : \A y \in S : x >= y
  BY Zenon DEF Max
<1>6. (CHOOSE x \in S : \A y \in S : x >= y) \in S
  BY <1>3, <1>4
<1> QED BY <1>5, <1>6

(* Wakeups to come stay to come if no thread drops one. *)
LEMMA ComingKept ==
  ASSUME NEW ch, Cpus' = Cpus,
         \A p \in Procs : Has(todo[p], <<"wakeup1", ch>>) => Has(todo'[p], <<"wakeup1", ch>>),
         \A d \in Cpus : Has(idle[d], <<"wakeup1", ch>>) => Has(idle'[d], <<"wakeup1", ch>>),
         Coming(ch)
  PROVE  Coming(ch)'
<1> DEFINE x == <<"wakeup1", ch>>
<1>1. (\E p \in Procs : Has(todo[p], x)) \/ (\E d \in Cpus : Has(idle[d], x))
  BY DEF Coming, Has
<1>2. Coming(ch)' <=> (\E p \in Procs : Has(todo'[p], x)) \/ (\E d \in Cpus : Has(idle'[d], x))
  BY DEF Coming, Has
<1> HIDE DEF x
<1> QED BY <1>1, <1>2 DEF x

(* A process that is not RUNNING is on a processor only under ptable.lock. *)
LEMMA OffHeld ==
  ASSUME NEW ph, NEW hd, Thr(ph, hd), NEW c \in Cpus
  PROVE  /\ Sound(Mine(Me(c)), Held(c), Run(Me(c)), ph[Me(c)], hd[c])
         /\ Me(c) # 0 /\ proc[Me(c)].state # "RUNNING" => lock[ptable] = c
<1>1. OnCpu(c, ph, hd)
  BY DEF Thr
<1>2. Sound(Mine(Me(c)), Held(c), Run(Me(c)), ph[Me(c)], hd[c])
  <2>1. CASE Spins(Ops(c))
    BY <1>1, <2>1, RunsOne DEF OnCpu, Cur
  <2>2. CASE ~Spins(Ops(c))
    BY <1>1, <2>2, RunsOne DEF OnCpu, Cur
  <2> QED BY <2>1, <2>2
<1>3. Me(c) # 0 /\ proc[Me(c)].state # "RUNNING" => lock[ptable] = c
  BY <1>2 DEF Sound, Run, Held
<1> QED BY <1>2, <1>3

(* sched: no panic, and the process is left for another processor. *)
LEMMA SchedKeeps ==
  ASSUME NEW ph, NEW hd, NEW c \in Cpus, KTypes, Good(ph, hd), SchedStep(c)
  PROVE  Running'
<1> DEFINE o == Ops(c)[1]
           t == Tail(Ops(c))
           k == Me(c)
           b == cpu[c].intena
           i == <<"intena", b>>
           s == Cons(i, t)
           x == [cpu[c] EXCEPT !.cur = 0]
<1>0. CpuTypes /\ ProcTypes /\ Thr(ph, hd) /\ CpuInv(hd) /\ At(c, "sched") /\ fault = "none"
      /\ Ghosts(ph, hd) /\ CpuOk(c, hd)
  BY DEF KTypes, Good, SchedStep, At, CpuInv
<1>1. o[1] = "sched"
  BY <1>0 DEF At
<1>2. /\ ~Spins(Ops(c)) /\ IsSeq(t) /\ Ops(c) = Cons(o, t)
      /\ Pre(k, Mine(k), o, t, Held(c), Run(k), ph[k], hd[c])
      /\ Runs(k, Mine(k), t, PostH(o, Held(c)), PostR(o, Run(k)), PostF(o, ph[k]), PostG(o, hd[c]))
  BY <1>0, Front
<1>3. k # 0 /\ Run(k) = "off" /\ Held(c) = {ptable} /\ ph[k] \notin Dozing /\ hd[c] = "no"
  BY <1>1, <1>2 DEF Pre
<1>4. Runs(k, Mine(k), t, {ptable}, "on", ph[k], "no")
  <2>1. PostH(o, {ptable}) = {ptable} /\ PostR(o, "off") = "on" /\ PostF(o, ph[k]) = ph[k]
        /\ PostG(o, "no") = "no"
    BY <1>1 DEF PostH, PostR, PostF, PostG
  <2> QED BY <2>1, <1>2, <1>3
<1>5. lock[ptable] = c /\ proc[k].state # "RUNNING" /\ cpu[c].ncli = 1 /\ ~cpu[c].on
  <2>1. ptable \in Held(c) /\ Cardinality(Held(c)) = 1
    BY <1>3, FS_Singleton
  <2> QED BY <2>1, <1>0, <1>2, <1>3 DEF Held, Run, CpuOk
<1>6. k \in Procs /\ cpu[c] \in CpuRec /\ b \in BOOLEAN
  BY <1>0, <1>3, CpuFacts DEF CpuRec
<1>7. /\ cpu' = [cpu EXCEPT ![c] = x] /\ Then(c, <<i>>)
      /\ UNCHANGED <<lock, proc, Data, fault>>
  BY <1>5 DEF SchedStep, Rest, Me
<1>8. todo' = [todo EXCEPT ![k] = s] /\ idle' = idle
  BY <1>3, <1>7 DEF Then, Become, Me, Cons
<1>9. i[1] = "intena" /\ i[2] = b
  OBVIOUS
<1> HIDE DEF i, b
<1>10. x \in CpuRec /\ x.cur = 0 /\ x.proc = cpu[c].proc /\ x.ncli = 1 /\ ~x.on
  <2>1. x.on = cpu[c].on /\ x.ncli = cpu[c].ncli /\ x \in CpuRec /\ x.cur = 0 /\ x.proc = cpu[c].proc
    BY <1>6 DEF CpuRec
  <2> HIDE DEF x
  <2> QED BY <2>1, <1>5, Zenon
<1> HIDE DEF x
<1>11. /\ Cpus' = Cpus /\ cpu'[c] = x /\ (\A d \in Cpus \ {c} : cpu'[d] = cpu[d])
       /\ \E n \in 1..MaxCpu : cpu' \in [1..n -> CpuRec]
  <2>1. PICK n \in 1..MaxCpu : cpu \in [1..n -> CpuRec]
    BY <1>0 DEF CpuTypes
  <2>2. cpu' \in [1..n -> CpuRec] /\ Cpus = 1..n /\ Cpus' = 1..n
    BY <2>1, <1>7, <1>10 DEF Cpus
  <2> QED BY <2>1, <2>2, <1>7
<1>12. Me(c)' = 0 /\ (\A d \in Cpus \ {c} : Me(d)' = Me(d)) /\ (\A d \in Cpus : Held(d)' = Held(d))
  BY <1>7, <1>10, <1>11 DEF Me, Held
<1>13. /\ proc' = proc /\ (\A q : Mine(q)' = Mine(q) /\ Run(q)' = Run(q))
       /\ todo'[k] = s /\ (\A q \in Procs \ {k} : todo'[q] = todo[q]) /\ todo' = [q \in Procs |-> todo'[q]]
  <2>1. todo = [q \in Procs |-> todo[q]]
    BY <1>0 DEF ProcTypes
  <2> QED BY <2>1, <1>6, <1>7, <1>8 DEF Mine, Run
<1>14. Runs(0, 0, idle[c], {ptable}, "on", "none", "no") /\ ~Spins(idle[c])
  <2>1. Runs(0, 0, idle[c], {ptable}, "on", "none", "no")
    BY <1>0, <1>3 DEF Thr
  <2> QED BY <2>1, RunsNoSpin
<1>15. ASSUME NEW d \in Cpus PROVE OnCpu(d, ph, hd)' /\ CpuOk(d, hd)'
  <2>1. CASE d = c
    <3>1. Ops(c)' = idle[c] /\ Mine(Me(c))' = 0 /\ Run(Me(c))' = "on" /\ ph[Me(c)'] = "none"
      BY <1>0, <1>8, <1>12 DEF Ops, Me, Mine, Run, Ghosts
    <3>2. Cur(0, 0, idle[c], {ptable}, "on", "none", "no")
      BY <1>14, RunsNoSpin
    <3>3. OnCpu(c, ph, hd)'
      BY <3>1, <3>2, <1>3, <1>12 DEF OnCpu
    <3>4. Cardinality(Held(c)') = 1
      BY <1>3, <1>12, FS_Singleton
    <3>5. cpu[c].proc # 0 => idle[c] # <<>> /\ idle[c][1][1] = "scan"
      BY <1>0 DEF CpuOk
    <3>6. CpuOk(c, hd)'
      BY <3>1, <3>4, <3>5, <1>8, <1>10, <1>11, <1>14 DEF CpuOk
    <3> QED BY <2>1, <3>3, <3>6
  <2>2. CASE d # c
    <3>1. OnCpu(d, ph, hd) /\ CpuOk(d, hd) /\ Me(d)' = Me(d) /\ Held(d)' = Held(d) /\ cpu'[d] = cpu[d]
      BY <2>2, <1>0, <1>11, <1>12 DEF Thr, CpuInv
    <3>2. Me(d) # 0 => Me(d) \in Procs \ {k}
      BY <2>2, <1>0, CpuFacts DEF CpuInv, Apart
    <3>3. Ops(d)' = Ops(d)
      BY <3>1, <3>2, <1>8, <1>13 DEF Ops, Me
    <3>4. Mine(Me(d))' = Mine(Me(d)) /\ Run(Me(d))' = Run(Me(d))
      BY <3>1, <1>13 DEF Mine, Run
    <3>5. OnCpu(d, ph, hd)'
      BY <3>1, <3>3, <3>4 DEF OnCpu
    <3>6. CpuOk(d, hd)'
      BY <3>1, <3>3, <1>8 DEF CpuOk
    <3> QED BY <3>5, <3>6
  <2> QED BY <2>1, <2>2
<1>16. ASSUME NEW d \in Cpus, Me(d)' # 0 PROVE Runs(0, 0, idle'[d], {ptable}, "on", "none", "no")
  <2>1. Me(d) # 0
    BY <1>12, <1>16
  <2> QED BY <2>1, <1>0, <1>8 DEF Thr
<1>17. ASSUME NEW p \in Procs, \A d \in Cpus : Me(d)' # p PROVE Parked(p, ph)'
  <2>1. CASE p = k
    <3>1. Runs(k, Mine(k), s, {ptable}, "on", ph[k], "no")
      <4> HIDE DEF k, t
      <4>1. Loose("on", ph[k], "no") /\ Sound(Mine(k), {ptable}, "on", ph[k], "no")
        BY <1>3 DEF Loose, Sound, Dozing
      <4>2. Pre(k, Mine(k), i, t, {ptable}, "on", ph[k], "no")
        BY <1>3, <1>6, <1>9, <4>1 DEF Pre
      <4>3. PostH(i, {ptable}) = {ptable} /\ PostR(i, "on") = "on" /\ PostF(i, ph[k]) = ph[k] /\ PostG(i, "no") = "no"
        BY <1>9 DEF PostH, PostR, PostF, PostG
      <4> QED BY <4>1, <4>2, <4>3, <1>4, DoOther
    <3>2. Mine(p)' = Mine(k) /\ todo'[p] = s /\ proc'[p].state # "RUNNING"
      BY <2>1, <1>5, <1>13 DEF Mine
    <3>3. ph[k] \notin Dozing
      BY <1>3
    <3> HIDE DEF k, s
    <3> QED BY <3>1, <3>2, <3>3, <2>1 DEF Parked
  <2>2. CASE p # k
    <3>1. \A d \in Cpus : Me(d) # p
      BY <2>2, <1>12, <1>17
    <3>2. Parked(p, ph) /\ todo'[p] = todo[p] /\ proc' = proc
      BY <3>1, <2>2, <1>0, <1>13 DEF Thr
    <3> QED BY <3>2 DEF Parked, Mine
  <2> QED BY <2>1, <2>2
<1>18. Thr(ph, hd)'
  BY <1>11, <1>15, <1>16, <1>17 DEF Thr
<1>19. CpuInv(hd)'
  <2>1. Apart'
    <3>1. \A d, e \in Cpus : d # e /\ Me(d)' # 0 => Me(d)' # Me(e)'
      BY <1>0, <1>12 DEF CpuInv, Apart
    <3> QED BY <3>1, <1>11 DEF Apart
  <2> QED BY <2>1, <1>11, <1>15 DEF CpuInv
<1>20. CpuTypes' /\ ProcTypes'
  BY <1>0, <1>7, <1>8, <1>11, <1>13 DEF CpuTypes, ProcTypes
<1>21. ASSUME NEW ch, Coming(ch) PROVE Coming(ch)'
  <2> DEFINE w == <<"wakeup1", ch>>
  <2>1. o # w
    BY <1>1
  <2>2. Ops(c) = todo[k]
    BY <1>3 DEF Ops, Me
  <2> HIDE DEF w, o, t
  <2>3. Has(todo[k], w) => Has(s, w)
    BY <2>1, <2>2, <1>2, HasCons
  <2>4. \A q \in Procs : Has(todo[q], w) => Has(todo'[q], w)
    BY <2>3, <1>13
  <2>5. \A d \in Cpus : Has(idle[d], w) => Has(idle'[d], w)
    BY <1>8
  <2> QED BY <2>4, <2>5, <1>11, <1>21, ComingKept DEF w
<1> QED BY <1>0, <1>7, <1>11, <1>13, <1>18, <1>19, <1>20, <1>21, Frame

(* What is known when the scheduler looks for a process. *)
LEMMA ScanFacts ==
  ASSUME NEW ph, NEW hd, KTypes, Good(ph, hd), NEW c \in Cpus, At(c, "scan")
  PROVE  /\ Me(c) = 0 /\ Ops(c) = idle[c] /\ Held(c) = {ptable} /\ lock[ptable] = c
         /\ hd[c] = "no" /\ Arg(c) \in 1..Len(Script) + 1 /\ ~Spins(Ops(c))
         /\ Tail(Ops(c)) = <<Release(ptable)>>
         /\ \A ch : ~Has(idle[c], <<"wakeup1", ch>>)
<1> DEFINE o == Ops(c)[1]
           t == Tail(Ops(c))
           r == Release(ptable)
<1>0. Thr(ph, hd)
  BY DEF Good
<1>1. o[1] = "scan" /\ o[2] = Arg(c)
  BY DEF At, Arg
<1>2. /\ ~Spins(Ops(c)) /\ Ops(c) = Cons(o, t) /\ IsSeq(t)
      /\ Pre(Me(c), Mine(Me(c)), o, t, Held(c), Run(Me(c)), ph[Me(c)], hd[c])
  BY <1>0, Front
<1>3. Me(c) = 0 /\ Held(c) = {ptable} /\ hd[c] = "no" /\ Arg(c) \in 1..Len(Script) + 1
      /\ t = <<r>>
  BY <1>1, <1>2 DEF Pre, Loose
<1>4. Ops(c) = idle[c]
  BY <1>3 DEF Ops, Me
<1>5. lock[ptable] = c
  BY <1>3 DEF Held
<1>6. ASSUME NEW ch PROVE ~Has(idle[c], <<"wakeup1", ch>>)
  <2> DEFINE w == <<"wakeup1", ch>>
  <2>1. o # w /\ r # w
    BY <1>1 DEF Release
  <2> HIDE DEF w, o, r, t
  <2>2. t = Cons(r, <<>>)
    BY <1>3, CatEmpty, OneSeq DEF Cons
  <2>3. ~Has(<<>>, w)
    BY DEF Has
  <2>4. ~Has(t, w)
    BY <2>1, <2>2, <2>3, HasCons, EmptySeq
  <2>5. ~Has(Cons(o, t), w)
    BY <2>1, <2>4, <1>2, HasCons
  <2> QED BY <2>5, <1>2, <1>4 DEF w
<1> QED BY <1>2, <1>3, <1>4, <1>5, <1>6

(* The scheduler finds no process that is RUNNABLE. *)
LEMMA ScanNone ==
  ASSUME NEW ph, NEW hd, NEW c \in Cpus, KTypes, Good(ph, hd), At(c, "scan"),
         cpu' = [cpu EXCEPT ![c].proc = 0], Become(c, <<Release(ptable)>> \o scheduler),
         UNCHANGED <<proc, lock, Data, fault>>
  PROVE  Running'
<1> DEFINE x == [cpu[c] EXCEPT !.proc = 0]
           s == <<Release(ptable)>> \o scheduler
<1>0. CpuTypes /\ ProcTypes /\ Thr(ph, hd) /\ CpuInv(hd) /\ fault = "none" /\ CpuOk(c, hd) /\ Ghosts(ph, hd)
  BY DEF KTypes, Good, At, CpuInv
<1>1. /\ Me(c) = 0 /\ Ops(c) = idle[c] /\ Held(c) = {ptable} /\ hd[c] = "no" /\ ~Spins(Ops(c))
      /\ \A ch : ~Has(idle[c], <<"wakeup1", ch>>)
  BY ScanFacts
<1>2. x \in CpuRec /\ x.cur = cpu[c].cur /\ x.proc = 0 /\ x.ncli = cpu[c].ncli /\ x.on = cpu[c].on
  <2>1. cpu[c] \in CpuRec
    BY <1>0, CpuFacts
  <2> QED BY <2>1 DEF CpuRec
<1>3. cpu' = [cpu EXCEPT ![c] = x]
  OBVIOUS
<1> HIDE DEF x
<1>4. /\ Cpus' = Cpus /\ cpu'[c] = x /\ (\A d \in Cpus \ {c} : cpu'[d] = cpu[d])
      /\ (\A d \in Cpus : Me(d)' = Me(d))
      /\ \E n \in 1..MaxCpu : cpu' \in [1..n -> CpuRec]
  BY <1>0, <1>2, <1>3, CpuChanged
<1>5. Runs(0, 0, s, {ptable}, "on", "none", "no")
  BY SchedulerRuns
<1>50. Become(c, s)
  OBVIOUS
<1> HIDE DEF s
<1>6. /\ Ops(c)' = s
      /\ (\A d \in Cpus \ {c} : idle'[d] = idle[d])
      /\ (\A q \in Procs \ {Me(c)} : todo'[q] = todo[q])
      /\ idle' = [d \in Cpus' |-> idle'[d]] /\ todo' = [p \in Procs |-> todo'[p]]
  BY <1>0, <1>4, <1>50, BecomeOps
<1>7. ~Spins(s) /\ Cur(0, 0, s, {ptable}, "on", "none", "no")
  BY <1>5, RunsNoSpin
<1>8. proc' = proc /\ (\A q : Mine(q)' = Mine(q) /\ Run(q)' = Run(q)) /\ \A d \in Cpus : Held(d)' = Held(d)
  BY DEF Mine, Run, Held
<1>9. OthersKeep(c, ph, hd, ph, hd)
  BY <1>1, <1>4, <1>6, <1>8 DEF OthersKeep
<1>10. OnCpu(c, ph, hd)'
  <2>1. Me(c)' = 0 /\ Mine(Me(c))' = 0 /\ Run(Me(c))' = "on" /\ ph[Me(c)'] = "none"
    BY <1>0, <1>1, <1>4 DEF Mine, Run, Ghosts
  <2> QED BY <2>1, <1>1, <1>6, <1>7, <1>8 DEF OnCpu
<1>11. CpuOk(c, hd)'
  <2>1. cpu'[c].cur = 0
    BY <1>1, <1>2, <1>4 DEF Me
  <2>2. cpu'[c].ncli = cpu[c].ncli /\ cpu'[c].proc = 0
    BY <1>2, <1>4
  <2>3. cpu'[c].on => cpu'[c].ncli = 0 /\ hd[c] = "no"
    <3>1. cpu'[c].on = cpu[c].on
      BY <1>2, <1>4
    <3>2. cpu[c].on => cpu[c].ncli = 0
      BY <1>0 DEF CpuOk
    <3> QED BY <3>1, <3>2, <2>2, <1>1
  <2> QED BY <2>1, <2>2, <2>3, <1>0, <1>1, <1>6, <1>7, <1>8 DEF CpuOk
<1>12. Thr(ph, hd)'
  BY <1>0, <1>9, <1>10, LocalThr DEF CpuInv
<1>13. CpuInv(hd)'
  BY <1>0, <1>9, <1>11, LocalCpu
<1>14. CpuTypes' /\ ProcTypes'
  BY <1>0, <1>4, <1>6 DEF CpuTypes, ProcTypes
<1>15. ASSUME NEW ch, Coming(ch) PROVE Coming(ch)'
  <2> DEFINE w == <<"wakeup1", ch>>
  <2>1. ~Has(idle[c], w)
    BY <1>1
  <2> HIDE DEF w
  <2>2. Has(Ops(c), w) => Has(s, w)
    BY <2>1, <1>1
  <2> QED BY <2>2, <1>0, <1>4, <1>50, <1>15, BecomeComing DEF w
<1> QED BY <1>0, <1>4, <1>8, <1>12, <1>13, <1>14, <1>15, Frame

(* The scheduler takes up a process. *)
LEMMA ScanOne ==
  ASSUME NEW ph, NEW hd, NEW c \in Cpus, NEW p \in Procs, KTypes, Good(ph, hd), At(c, "scan"),
         proc[p].state = "RUNNABLE",
         cpu' = [cpu EXCEPT ![c].proc = p, ![c].cur = p],
         proc' = [proc EXCEPT ![p].state = "RUNNING"],
         Then(c, <<<<"scan", p + 1>>>>), UNCHANGED <<lock, Data, fault>>
  PROVE  Running'
<1> DEFINE x == [cpu[c] EXCEPT !.proc = p, !.cur = p]
           s == <<<<"scan", p + 1>>>> \o <<Release(ptable)>>
<1>0. CpuTypes /\ ProcTypes /\ Thr(ph, hd) /\ CpuInv(hd) /\ fault = "none" /\ CpuOk(c, hd) /\ Ghosts(ph, hd)
  BY DEF KTypes, Good, At, CpuInv
<1>1. /\ Me(c) = 0 /\ Ops(c) = idle[c] /\ Held(c) = {ptable} /\ lock[ptable] = c /\ hd[c] = "no" /\ ~Spins(Ops(c))
      /\ Tail(Ops(c)) = <<Release(ptable)>>
      /\ \A ch : ~Has(idle[c], <<"wakeup1", ch>>)
  BY ScanFacts
<1>2. p # 0 /\ p + 1 \in 1..Len(Script) + 1
  BY KernelAssumption DEF Procs
<1>3. x \in CpuRec /\ x.cur = p /\ x.proc = p /\ x.ncli = cpu[c].ncli /\ x.on = cpu[c].on
  <2>1. cpu[c] \in CpuRec
    BY <1>0, CpuFacts
  <2> QED BY <2>1 DEF CpuRec
<1>4. cpu' = [cpu EXCEPT ![c] = x]
  OBVIOUS
<1> HIDE DEF x
<1>5. /\ Cpus' = Cpus /\ cpu'[c] = x /\ (\A d \in Cpus \ {c} : cpu'[d] = cpu[d])
      /\ \E n \in 1..MaxCpu : cpu' \in [1..n -> CpuRec]
  <2>1. PICK n \in 1..MaxCpu : cpu \in [1..n -> CpuRec]
    BY <1>0 DEF CpuTypes
  <2>2. cpu' \in [1..n -> CpuRec] /\ Cpus = 1..n /\ Cpus' = 1..n
    BY <2>1, <1>3, <1>4 DEF Cpus
  <2> QED BY <2>1, <2>2, <1>4
<1>6. Me(c)' = p /\ (\A d \in Cpus \ {c} : Me(d)' = Me(d)) /\ (\A d \in Cpus : Held(d)' = Held(d))
  BY <1>3, <1>5 DEF Me, Held
<1>7. idle' = [idle EXCEPT ![c] = s] /\ todo' = todo
  BY <1>1 DEF Then, Become, Me
<1>8. Runs(0, 0, s, {ptable}, "on", "none", "no") /\ s[1][1] = "scan" /\ s # <<>>
  <2> DEFINE y == <<"scan", p + 1>>  r == <<Release(ptable)>>
  <2>1. Runs(0, 0, <<y>> \o r, {ptable}, "on", "none", "no") /\ y[1] = "scan"
    BY <1>2, ScanRuns
  <2> HIDE DEF y
  <2>2. IsSeq(r) /\ <<y>> \o r = Cons(y, r)
    BY OneSeq DEF Cons
  <2> HIDE DEF r
  <2>3. Cons(y, r)[1] = y /\ Cons(y, r) # <<>>
    BY <2>2, ConsSeq
  <2> QED BY <2>1, <2>2, <2>3 DEF y, r
<1> HIDE DEF s
<1>9. idle'[c] = s /\ (\A d \in Cpus \ {c} : idle'[d] = idle[d]) /\ idle' = [d \in Cpus |-> idle'[d]]
  <2>1. idle = [d \in Cpus |-> idle[d]]
    BY <1>0 DEF CpuTypes
  <2> QED BY <2>1, <1>7
<1>10. /\ proc'[p].state = "RUNNING" /\ \A q \in Procs \ {p} : proc'[q] = proc[q]
       /\ \A q \in Procs : proc'[q].buf = proc[q].buf /\ proc'[q].has = proc[q].has /\ proc'[q].chan = proc[q].chan
       /\ proc' \in [Procs -> ProcRec]
  BY <1>0 DEF ProcTypes, ProcRec
<1>11. \A d \in Cpus : Me(d) # p
  <2> SUFFICES ASSUME NEW d \in Cpus, Me(d) = p PROVE FALSE
    OBVIOUS
  <2>1. lock[ptable] = d
    BY <1>0, <1>2, OffHeld
  <2> QED BY <2>1, <1>1, <1>2
<1>12. Parked(p, ph)
  BY <1>0, <1>11 DEF Thr
<1>13. Runs(p, Mine(p), todo[p], {ptable}, "on", ph[p], "no") /\ ~Spins(todo[p])
       /\ Cur(p, Mine(p), todo[p], {ptable}, "on", ph[p], "no")
  BY <1>12, RunsNoSpin DEF Parked
<1>14. ASSUME NEW d \in Cpus PROVE OnCpu(d, ph, hd)' /\ CpuOk(d, hd)'
  <2>1. CASE d = c
    <3>1. Ops(c)' = todo[p] /\ Mine(Me(c))' = Mine(p) /\ Run(Me(c))' = "on"
      BY <1>2, <1>6, <1>7, <1>10 DEF Ops, Me, Mine, Run
    <3>2. OnCpu(c, ph, hd)'
      BY <3>1, <1>1, <1>6, <1>13 DEF OnCpu
    <3>3. cpu'[c].ncli = cpu[c].ncli /\ cpu'[c].proc = p /\ cpu'[c].cur = p
      BY <1>3, <1>5
    <3>4. cpu'[c].on => cpu'[c].ncli = 0 /\ hd[c] = "no"
      <4>1. cpu'[c].on = cpu[c].on
        BY <1>3, <1>5
      <4>2. cpu[c].on => cpu[c].ncli = 0
        BY <1>0 DEF CpuOk
      <4> QED BY <4>1, <4>2, <3>3, <1>1
    <3>5. CpuOk(c, hd)'
      BY <3>1, <3>3, <3>4, <1>0, <1>1, <1>6, <1>8, <1>9, <1>13 DEF CpuOk
    <3> QED BY <2>1, <3>2, <3>5
  <2>2. CASE d # c
    <3>1. OnCpu(d, ph, hd) /\ CpuOk(d, hd) /\ Me(d)' = Me(d) /\ Held(d)' = Held(d) /\ cpu'[d] = cpu[d]
      BY <2>2, <1>0, <1>5, <1>6 DEF Thr, CpuInv
    <3>2. Me(d) # 0 => Me(d) \in Procs \ {p}
      BY <1>0, <1>11, CpuFacts
    <3>3. Ops(d)' = Ops(d)
      BY <3>1, <2>2, <1>7, <1>9 DEF Ops, Me
    <3>4. Mine(Me(d))' = Mine(Me(d)) /\ Run(Me(d))' = Run(Me(d))
      BY <3>1, <3>2, <1>10 DEF Mine, Run
    <3>5. OnCpu(d, ph, hd)'
      BY <3>1, <3>3, <3>4 DEF OnCpu
    <3>6. CpuOk(d, hd)'
      BY <3>1, <3>3, <2>2, <1>9 DEF CpuOk
    <3> QED BY <3>5, <3>6
  <2> QED BY <2>1, <2>2
<1>15. ASSUME NEW d \in Cpus, Me(d)' # 0 PROVE Runs(0, 0, idle'[d], {ptable}, "on", "none", "no")
  <2>1. CASE d = c
    BY <2>1, <1>8, <1>9
  <2>2. CASE d # c
    <3>1. Me(d) # 0 /\ idle'[d] = idle[d]
      BY <2>2, <1>6, <1>9, <1>15
    <3> QED BY <3>1, <1>0 DEF Thr
  <2> QED BY <2>1, <2>2
<1>16. ASSUME NEW q \in Procs, \A d \in Cpus : Me(d)' # q PROVE Parked(q, ph)'
  <2>1. q # p /\ q # 0
    BY <1>6, <1>16 DEF Procs
  <2>2. \A d \in Cpus : Me(d) # q
    BY <1>1, <1>6, <1>16, <2>1
  <2>3. Parked(q, ph) /\ todo' = todo /\ proc'[q] = proc[q]
    BY <2>1, <2>2, <1>0, <1>7, <1>10 DEF Thr
  <2> QED BY <2>3 DEF Parked, Mine
<1>17. Thr(ph, hd)'
  BY <1>5, <1>14, <1>15, <1>16 DEF Thr
<1>18. CpuInv(hd)'
  <2>1. Apart'
    <3>1. \A d, e \in Cpus : d # e /\ Me(d)' # 0 => Me(d)' # Me(e)'
      BY <1>0, <1>6, <1>11 DEF CpuInv, Apart
    <3> QED BY <3>1, <1>5 DEF Apart
  <2> QED BY <2>1, <1>5, <1>14 DEF CpuInv
<1>19. CpuTypes' /\ ProcTypes'
  BY <1>0, <1>5, <1>7, <1>9, <1>10 DEF CpuTypes, ProcTypes
<1>20. ASSUME NEW ch, Coming(ch) PROVE Coming(ch)'
  <2> DEFINE w == <<"wakeup1", ch>>
  <2>1. ~Has(idle[c], w)
    BY <1>1
  <2> HIDE DEF w
  <2>2. \A q \in Procs : Has(todo[q], w) => Has(todo'[q], w)
    BY <1>7
  <2>3. \A d \in Cpus : Has(idle[d], w) => Has(idle'[d], w)
    BY <2>1, <1>9
  <2> QED BY <2>2, <2>3, <1>5, <1>20, ComingKept DEF w
<1>21. \A q \in Procs : proc'[q].state = "SLEEPING" => proc[q].state = "SLEEPING"
  BY <1>10
<1> QED BY <1>0, <1>5, <1>10, <1>17, <1>18, <1>19, <1>20, <1>21, Frame

(* The loop of the scheduler. *)
LEMMA ScanKeeps ==
  ASSUME NEW ph, NEW hd, NEW c \in Cpus, KTypes, Good(ph, hd), ScanStep(c)
  PROVE  Running'
<1> DEFINE can == {p \in Arg(c)..Len(Script) : proc[p].state = "RUNNABLE"}
           p == Min(can)
<1>0. At(c, "scan") /\ UNCHANGED <<lock, Data, fault>>
  BY DEF ScanStep, Rest
<1>1. Arg(c) \in 1..Len(Script) + 1
  BY <1>0, ScanFacts
<1>2. CASE can = {}
  <2>1. /\ cpu' = [cpu EXCEPT ![c].proc = 0] /\ Become(c, <<Release(ptable)>> \o scheduler) /\ proc' = proc
    BY <1>2 DEF ScanStep
  <2> QED BY <2>1, <1>0, ScanNone
<1>3. CASE can # {}
  <2>1. can \in SUBSET Nat /\ can \subseteq Procs
    BY <1>1, KernelAssumption DEF Procs
  <2>2. p \in can
    <3> HIDE DEF can
    <3> QED BY <2>1, <1>3, MinIn
  <2>3. p \in Procs /\ proc[p].state = "RUNNABLE"
    BY <2>1, <2>2
  <2>4. /\ cpu' = [cpu EXCEPT ![c].proc = p, ![c].cur = p]
        /\ proc' = [proc EXCEPT ![p].state = "RUNNING"] /\ Then(c, <<<<"scan", p + 1>>>>)
    BY <1>3 DEF ScanStep
  <2> HIDE DEF p
  <2> QED BY <2>3, <2>4, <1>0, ScanOne
<1> QED BY <1>2, <1>3

(* A step of a process that leaves the locks, the buffers and the disk     *)
(* alone: what has to be seen to of its own state.                         *)
QuietProc(p, m, ph, ph2) ==
  /\ ph2[p] = "none" <=> ph[p] = "none"
  /\ ph2[p] = "mod" <=> ph[p] = "mod"
  /\ ph2[p] \in Owning <=> ph[p] \in Owning
  /\ ph2[p] \in {"has", "mod"} => buf[m].valid
  /\ ph2[p] \in {"io", "io0"} => Undone(m)
  /\ ph2[p] \in {"io1", "io1D"} => (Undone(m) => InQueue(m))
  /\ (ph[p] \in {"io1", "io1D"} => ph2[p] \in {"io1", "io1D"}) \/ ~InQueue(m)
  /\ ph2[p] = "claimD" => buf[m].locked \/ Coming(LkChan(m))
  /\ ph2[p] = "io1D" => InQueue(m) \/ Coming(IoChan(m))
  /\ proc'[p].state = "SLEEPING" =>
       \/ ph2[p] = "claim" /\ proc'[p].chan = LkChan(m) /\ (buf[m].locked \/ Coming(LkChan(m)))
       \/ ph2[p] = "io1" /\ proc'[p].chan = IoChan(m) /\ (InQueue(m) \/ Coming(IoChan(m)))

(* Such a step keeps the invariant. *)
LEMMA QuietStep ==
  ASSUME NEW ph, NEW hd, NEW ph2, NEW c \in Cpus, NEW s, NEW n, NEW k, NEW m,
         k = Me(c), m = proc[k].buf, KTypes, Good(ph, hd), At(c, n),
         n # "spin", n # "scan", n # "wakeup1", k # 0,
         ph2 \in [Procs \cup {0} -> Phases], ph2[0] = "none",
         \A q \in Procs \ {k} : ph2[q] = ph[q] /\ proc'[q] = proc[q],
         proc' \in [Procs -> ProcRec],
         proc'[k].buf = m, proc'[k].has = proc[k].has,
         UNCHANGED <<cpu, lock, Data, fault>>, IsSeq(s), Then(c, s),
         Runs(k, Mine(k), s \o Tail(Ops(c)), Held(c), Run(k)', ph2[k], hd[c]),
         QuietProc(k, m, ph, ph2)
  PROVE  Running'
<1> DEFINE u == s \o Tail(Ops(c))
<1>0. CpuTypes /\ ProcTypes /\ BufTypes /\ Thr(ph, hd) /\ CpuInv(hd) /\ fault = "none" /\ Ghosts(ph, hd)
      /\ SleepInv(ph) /\ ProcInv(ph) /\ BufInv(ph) /\ QueueInv(hd) /\ DataInv
  BY DEF KTypes, Good, At
<1>1. k \in Procs /\ Cpus' = Cpus /\ Me(c)' = k /\ m \in Bufs \cup {0}
  BY <1>0, CpuFacts DEF Cpus, Me, ProcTypes, ProcRec
<1>2. Become(c, u)
  BY DEF Then
<1>3. Plainly(c, ph, hd, ph2, hd)
  BY <1>0 DEF Plainly, Ghosts
<1>4. Mine(k)' = Mine(k)
  BY <1>1 DEF Mine
<1>5. Thr(ph2, hd)' /\ CpuInv(hd)' /\ CpuTypes' /\ (todo' = [p \in Procs |-> todo'[p]])
  <2>1. Runs(Me(c), Mine(Me(c))', u, Held(c), Run(Me(c))', ph2[Me(c)], hd[c])
    BY <1>1, <1>4 DEF Mine, Run
  <2> HIDE DEF u
  <2> QED BY <2>1, <1>0, <1>2, <1>3, PlainStep
<1>6. ProcTypes'
  BY <1>5 DEF ProcTypes
<1>7. \A ch : Coming(ch) => Coming(ch)'
  BY <1>0, <1>1, ThenComing
<1>8. buf' = buf /\ lru' = lru /\ ide' = ide /\ disk' = disk /\ latest' = latest
  BY DEF Data
<1>9. (InQueue(m)' <=> InQueue(m)) /\ (Undone(m)' <=> Undone(m))
  BY <1>8, <1>1 DEF InQueue, Undone
<1>10. \A q \in Procs : proc'[q].buf = proc[q].buf /\ proc'[q].has = proc[q].has
  OBVIOUS
<1>11. ProcOk(k, ph2)'
  <2>1. ProcOk(k, ph) /\ proc'[k].buf = m /\ proc'[k].has = proc[k].has
    BY <1>0, <1>1 DEF ProcInv
  <2>2. ph2[k] # "none" => m \in Bufs /\ buf'[m].blockno # 0
    BY <2>1, <1>8 DEF ProcOk, QuietProc
  <2>3. proc'[k].has <=> ph2[k] \in Owning
    <3>1. proc[k].has <=> ph[k] \in Owning
      BY <2>1 DEF ProcOk
    <3>2. ph2[k] \in Owning <=> ph[k] \in Owning
      BY DEF QuietProc
    <3>3. proc'[k].has = proc[k].has
      BY <2>1
    <3> QED BY <3>1, <3>2, <3>3
  <2>4. ph2[k] \in Owning => buf'[m].locked /\ buf'[m].pid = k
    BY <2>1, <1>8 DEF ProcOk, QuietProc
  <2>5. ph2[k] \in {"has", "mod"} => buf'[m].valid
    BY <1>8 DEF QuietProc
  <2>6. ph2[k] \in {"io", "io0"} => Undone(m)'
    BY <1>9 DEF QuietProc
  <2>7. ph2[k] \in {"io1", "io1D"} => (Undone(m)' => InQueue(m)')
    BY <1>9 DEF QuietProc
  <2> QED BY <2>1, <2>2, <2>3, <2>4, <2>5, <2>6, <2>7 DEF ProcOk
<1>12. ProcInv(ph2)' /\ BufInv(ph2)' /\ DataInv' /\ BufTypes'
  <2>1. /\ ph2[k] = "none" <=> ph[k] = "none"
        /\ ph2[k] = "mod" <=> ph[k] = "mod"
        /\ \/ ph[k] \in {"io1", "io1D"} => ph2[k] \in {"io1", "io1D"}
           \/ ~InQueue(proc[k].buf)
    BY DEF QuietProc
  <2>2. \A q \in Procs \ {k} : ph2[q] = ph[q]
    OBVIOUS
  <2>3. UNCHANGED Data
    OBVIOUS
  <2>4. SameUse(k, ph, ph2) /\ SameBufs(k, ph, ph2)
    BY <1>10, <1>11, <2>1, <2>2 DEF SameUse, SameBufs
  <2> QED BY <1>0, <2>3, <2>4, FrameData
<1>13. QueueInv(hd)'
  BY <1>0, <1>1, FrameQueue
<1>14. SleepOk(k, ph2)'
  <2>1. proc'[k].buf = m
    BY <1>1
  <2>2. Coming(LkChan(m)) => Coming(LkChan(m))'
    BY <1>7
  <2>3. Coming(IoChan(m)) => Coming(IoChan(m))'
    BY <1>7
  <2>4. buf[m].locked \/ Coming(LkChan(m)) => buf'[m].locked \/ Coming(LkChan(m))'
    BY <2>1, <2>2, <1>8
  <2>5. InQueue(m) \/ Coming(IoChan(m)) => InQueue(m)' \/ Coming(IoChan(m))'
    BY <2>1, <2>3, <1>9
  <2>6. ph2[k] = "claimD" \/ (proc'[k].state = "SLEEPING" /\ ph2[k] = "claim") => buf[m].locked \/ Coming(LkChan(m))
    BY DEF QuietProc
  <2>7. ph2[k] = "io1D" \/ (proc'[k].state = "SLEEPING" /\ ph2[k] = "io1") => InQueue(m) \/ Coming(IoChan(m))
    BY DEF QuietProc
  <2>8. proc'[k].state = "SLEEPING" => \/ ph2[k] = "claim" /\ proc'[k].chan = LkChan(m)
                                       \/ ph2[k] = "io1" /\ proc'[k].chan = IoChan(m)
    BY DEF QuietProc
  <2> QED BY <2>1, <2>4, <2>5, <2>6, <2>7, <2>8 DEF SleepOk
<1>15. SleepInv(ph2)'
  <2>1. \A i \in Bufs : buf[i].locked => buf'[i].locked \/ Coming(LkChan(i))'
    BY <1>8
  <2>2. \A i \in Bufs : InQueue(i) => InQueue(i)' \/ Coming(IoChan(i))'
    BY <1>8 DEF InQueue
  <2>3. \A q \in Procs : \/ SleepOk(q, ph2)'
                          \/ /\ ph2[q] = ph[q] /\ proc'[q].buf = proc[q].buf /\ proc'[q].chan = proc[q].chan
                             /\ proc'[q].state = "SLEEPING" => proc[q].state = "SLEEPING"
    BY <1>14
  <2> QED BY <2>1, <2>2, <2>3, <1>0, <1>7, SleepKeep
<1>16. Ghosts(ph2, hd)'
  BY <1>0, <1>1 DEF Ghosts
<1>17. Good(ph2, hd)'
  BY <1>5, <1>12, <1>13, <1>15, <1>16 DEF Good
<1>18. KTypes' /\ fault' = "none"
  BY <1>0, <1>5, <1>6, <1>12 DEF KTypes
<1> QED BY <1>17, <1>18 DEF Running

(* What a process with a given phase knows of its buffer. *)
LEMMA ProcFacts ==
  ASSUME NEW ph, NEW hd, KTypes, Good(ph, hd), NEW c \in Cpus, Me(c) # 0
  PROVE  /\ Me(c) \in Procs /\ Mine(Me(c)) = proc[Me(c)].buf
         /\ ProcOk(Me(c), ph) /\ SleepOk(Me(c), ph)
         /\ ph[Me(c)] # "none" => proc[Me(c)].buf \in Bufs
         /\ ph[Me(c)] \in Phases
         /\ Run(Me(c)) = "on" => proc[Me(c)].state = "RUNNING"
<1>1. Me(c) \in Procs
  BY CpuFacts DEF KTypes
<1>2. ProcOk(Me(c), ph) /\ SleepOk(Me(c), ph) /\ ph[Me(c)] \in Phases
  BY <1>1 DEF Good, ProcInv, SleepInv, Ghosts
<1> QED BY <1>1, <1>2 DEF ProcOk, Mine, Run

(* The phase of one process changes. *)
Moved(ph, ph2, k, f) ==
  /\ ph2 \in [Procs \cup {0} -> Phases] /\ ph2[0] = "none" /\ ph2[k] = f
  /\ \A q \in Procs \ {k} : ph2[q] = ph[q]

(* There is such a choice of phases. *)
LEMMA NewPhase ==
  ASSUME NEW ph, NEW hd, Ghosts(ph, hd), NEW k \in Procs, NEW f \in Phases
  PROVE  \E ph2 : Moved(ph, ph2, k, f)
<1> DEFINE g == [ph EXCEPT ![k] = f]
<1>1. g \in [Procs \cup {0} -> Phases] /\ g[0] = "none" /\ g[k] = f /\ \A q \in Procs \ {k} : g[q] = ph[q]
  BY DEF Ghosts, Procs
<1> HIDE DEF g
<1>2. Moved(ph, g, k, f)
  BY <1>1 DEF Moved
<1> QED BY <1>2

(* bread, which goes to the disk if the buffer is not valid. *)
LEMMA BreadKeeps ==
  ASSUME NEW ph, NEW hd, NEW c \in Cpus, KTypes, Good(ph, hd), BreadStep(c)
  PROVE  Running'
<1>k. PICK k : k = Me(c)
  OBVIOUS
<1>m. PICK m : m = proc[k].buf
  OBVIOUS
<1> DEFINE o == Ops(c)[1]
           t == Tail(Ops(c))
           s == IF buf[m].valid THEN <<>> ELSE iderw(m)
<1>0. Thr(ph, hd) /\ At(c, "bread") /\ Ghosts(ph, hd) /\ ProcTypes
  BY DEF KTypes, Good, BreadStep
<1>1. o[1] = "bread"
  BY <1>0 DEF At
<1>2. /\ IsSeq(t)
      /\ Pre(k, Mine(k), o, t, Held(c), Run(k), ph[k], hd[c])
      /\ Runs(k, Mine(k), t, PostH(o, Held(c)), PostR(o, Run(k)), PostF(o, ph[k]), PostG(o, hd[c]))
  BY <1>0, <1>k, Front
<1>3. k # 0 /\ Run(k) = "on" /\ ph[k] = "got" /\ hd[c] = "no" /\ Held(c) = {}
  BY <1>1, <1>2 DEF Pre, Loose
<1>4. k \in Procs /\ Mine(k) = m /\ ProcOk(k, ph) /\ m \in Bufs /\ proc[k].state = "RUNNING"
  BY <1>3, <1>k, <1>m, ProcFacts
<1>5. Runs(k, m, t, {}, "on", "has", "no")
  <2>1. PostH(o, {}) = {} /\ PostR(o, "on") = "on" /\ PostF(o, "got") = "has" /\ PostG(o, "no") = "no"
    BY <1>1 DEF PostH, PostR, PostF, PostG
  <2> QED BY <2>1, <1>2, <1>3, <1>4
<1>60. PICK f : f = IF buf[m].valid THEN "has" ELSE "io"
  OBVIOUS
<1>61. f \in Phases
  BY <1>60 DEF Phases
<1>62. PICK ph2 : Moved(ph, ph2, k, f)
  BY <1>61, <1>0, <1>4, NewPhase
<1>6. /\ ph2 \in [Procs \cup {0} -> Phases] /\ ph2[0] = "none"
      /\ ph2[k] = IF buf[m].valid THEN "has" ELSE "io"
      /\ \A q \in Procs \ {k} : ph2[q] = ph[q]
  BY <1>60, <1>62 DEF Moved
<1>7. Then(c, s) /\ UNCHANGED <<cpu, lock, proc, Data, fault>>
  BY <1>k, <1>m DEF BreadStep, Rest
<1>8. IsSeq(s) /\ Runs(k, m, s \o t, {}, "on", ph2[k], "no")
  <2> HIDE DEF t
  <2>1. IsSeq(iderw(m))
    BY EmptySeq, Unfold5 DEF iderw
  <2>2. CASE buf[m].valid
    <3>1. s = <<>> /\ s \o t = t /\ ph2[k] = "has"
      BY <2>2, <1>2, <1>6, CatEmpty
    <3> QED BY <3>1, <1>5, EmptySeq
  <2>3. CASE ~buf[m].valid
    <3>1. s = iderw(m) /\ ph2[k] = "io"
      BY <2>3, <1>6
    <3>2. Runs(k, m, iderw(m) \o t, {}, "on", "io", "no")
      BY <1>3, <1>4, <1>5, IderwRuns
    <3> QED BY <3>1, <3>2, <2>1
  <2> QED BY <2>2, <2>3
<1>9. QuietProc(k, m, ph, ph2)
  BY <1>3, <1>4, <1>6, <1>7, <1>m DEF QuietProc, Owning, Undone
<1>10. Run(k)' = "on"
  BY <1>3, <1>7 DEF Run
<1>11. proc' \in [Procs -> ProcRec]
  BY <1>0, <1>7 DEF ProcTypes
<1> HIDE DEF s, o
<1>12. Runs(k, Mine(k), s \o Tail(Ops(c)), Held(c), Run(k)', ph2[k], hd[c])
  BY <1>3, <1>4, <1>8, <1>10
<1> QED BY <1>k, <1>m, <1>0, <1>3, <1>6, <1>7, <1>8, <1>9, <1>11, <1>12, QuietStep

(* brelse: no panic, since the process has the sleep lock. *)
LEMMA BrelseKeeps ==
  ASSUME NEW ph, NEW hd, NEW c \in Cpus, KTypes, Good(ph, hd), BrelseStep(c)
  PROVE  Running'
<1>k. PICK k : k = Me(c)
  OBVIOUS
<1>m. PICK m : m = proc[k].buf
  OBVIOUS
<1> DEFINE o == Ops(c)[1]
           t == Tail(Ops(c))
           s == releasesleep(m) \o <<Acquire(bcache), <<"unref", m>>, Release(bcache)>>
<1>0. Thr(ph, hd) /\ At(c, "brelse") /\ Ghosts(ph, hd) /\ ProcTypes
  BY DEF KTypes, Good, BrelseStep
<1>1. o[1] = "brelse" /\ o[2] = Arg(c)
  BY <1>0 DEF At, Arg
<1>2. /\ IsSeq(t)
      /\ Pre(k, Mine(k), o, t, Held(c), Run(k), ph[k], hd[c])
      /\ Runs(k, Mine(k), t, PostH(o, Held(c)), PostR(o, Run(k)), PostF(o, ph[k]), PostG(o, hd[c]))
  BY <1>0, <1>k, Front
<1>3. k # 0 /\ Run(k) = "on" /\ ph[k] = "has" /\ hd[c] = "no" /\ Held(c) = {}
  BY <1>1, <1>2 DEF Pre, Loose
<1>4. k \in Procs /\ Mine(k) = m /\ ProcOk(k, ph) /\ m \in Bufs /\ proc[k].state = "RUNNING"
  BY <1>3, <1>k, <1>m, ProcFacts
<1>5. Runs(k, m, t, {}, "on", "none", "no")
  <2>1. PostH(o, {}) = {} /\ PostR(o, "on") = "on" /\ PostF(o, "has") = "none" /\ PostG(o, "no") = "no"
    BY <1>1 DEF PostH, PostR, PostF, PostG
  <2> QED BY <2>1, <1>2, <1>3, <1>4
<1>60. "rel" \in Phases
  BY DEF Phases
<1>61. PICK ph2 : Moved(ph, ph2, k, "rel")
  BY <1>60, <1>0, <1>4, NewPhase
<1>6. /\ ph2 \in [Procs \cup {0} -> Phases] /\ ph2[0] = "none" /\ ph2[k] = "rel"
      /\ \A q \in Procs \ {k} : ph2[q] = ph[q]
  BY <1>61 DEF Moved
<1>70. holdingsleep(m, k)
  BY <1>3, <1>4, <1>m DEF ProcOk, Owning, holdingsleep
<1>7. Then(c, s) /\ UNCHANGED <<cpu, lock, proc, Data, fault>>
  BY <1>k, <1>m, <1>70 DEF BrelseStep, Rest
<1>8. IsSeq(s) /\ Runs(k, m, s \o t, {}, "on", ph2[k], "no")
  <2> HIDE DEF t
  <2>1. IsSeq(releasesleep(m))
    <3>1. IsSeq(Wakeup(LkChan(m)))
      BY EmptySeq, Unfold3 DEF Wakeup
    <3>2. IsSeq(<<Release(Lk(m))>>) /\ IsSeq(<<Acquire(Lk(m)), <<"unlocked", m>>>>)
      BY EmptySeq, Unfold2, OneSeq
    <3> QED BY <3>1, <3>2, CatSeq DEF releasesleep
  <2>2. IsSeq(<<Acquire(bcache), <<"unref", m>>, Release(bcache)>>)
    BY EmptySeq, Unfold3
  <2>3. Runs(k, m, s \o t, {}, "on", "rel", "no")
    BY <1>3, <1>4, <1>5, BrelseRuns
  <2> QED BY <2>1, <2>2, <2>3, <1>6, CatSeq
<1>9. QuietProc(k, m, ph, ph2)
  BY <1>3, <1>4, <1>6, <1>7, <1>m DEF QuietProc, Owning
<1>10. Run(k)' = "on"
  BY <1>3, <1>7 DEF Run
<1>11. proc' \in [Procs -> ProcRec]
  BY <1>0, <1>7 DEF ProcTypes
<1> HIDE DEF s, o
<1>12. Runs(k, Mine(k), s \o Tail(Ops(c)), Held(c), Run(k)', ph2[k], hd[c])
  BY <1>3, <1>4, <1>8, <1>10
<1> QED BY <1>k, <1>m, <1>0, <1>3, <1>6, <1>7, <1>8, <1>9, <1>11, <1>12, QuietStep

(* iderw: no panic, the buffer is locked and there is something to do. *)
LEMMA IderwKeeps ==
  ASSUME NEW ph, NEW hd, NEW c \in Cpus, KTypes, Good(ph, hd), IderwStep(c)
  PROVE  Running'
<1>k. PICK k : k = Me(c)
  OBVIOUS
<1>m. PICK m : m = proc[k].buf
  OBVIOUS
<1> DEFINE o == Ops(c)[1]
           t == Tail(Ops(c))
           s == <<>>
<1>0. Thr(ph, hd) /\ At(c, "iderw") /\ Ghosts(ph, hd) /\ ProcTypes
  BY DEF KTypes, Good, IderwStep
<1>1. o[1] = "iderw" /\ o[2] = Arg(c)
  BY <1>0 DEF At, Arg
<1>2. /\ IsSeq(t)
      /\ Pre(k, Mine(k), o, t, Held(c), Run(k), ph[k], hd[c])
      /\ Runs(k, Mine(k), t, PostH(o, Held(c)), PostR(o, Run(k)), PostF(o, ph[k]), PostG(o, hd[c]))
  BY <1>0, <1>k, Front
<1>3. k # 0 /\ Run(k) = "on" /\ ph[k] = "io" /\ hd[c] = "no" /\ Held(c) = {} /\ Arg(c) = Mine(k)
  BY <1>1, <1>2 DEF Pre, Loose
<1>4. k \in Procs /\ Mine(k) = m /\ ProcOk(k, ph) /\ m \in Bufs /\ proc[k].state = "RUNNING"
  BY <1>3, <1>k, <1>m, ProcFacts
<1>5. Runs(k, m, t, {}, "on", "io0", "no")
  <2>1. PostH(o, {}) = {} /\ PostR(o, "on") = "on" /\ PostF(o, "io") = "io0" /\ PostG(o, "no") = "no"
    BY <1>1 DEF PostH, PostR, PostF, PostG
  <2> QED BY <2>1, <1>2, <1>3, <1>4
<1>60. "io0" \in Phases
  BY DEF Phases
<1>61. PICK ph2 : Moved(ph, ph2, k, "io0")
  BY <1>60, <1>0, <1>4, NewPhase
<1>6. /\ ph2 \in [Procs \cup {0} -> Phases] /\ ph2[0] = "none" /\ ph2[k] = "io0"
      /\ \A q \in Procs \ {k} : ph2[q] = ph[q]
  BY <1>61 DEF Moved
<1>70. holdingsleep(m, k) /\ Undone(m)
  BY <1>3, <1>4, <1>m DEF ProcOk, Owning, holdingsleep
<1>7. Then(c, s) /\ UNCHANGED <<cpu, lock, proc, Data, fault>>
  BY <1>k, <1>m, <1>3, <1>4, <1>70 DEF IderwStep, Rest, Undone, Advance
<1>8. IsSeq(s) /\ Runs(k, m, s \o t, {}, "on", ph2[k], "no")
  <2> HIDE DEF t
  <2> QED BY <1>2, <1>5, <1>6, CatEmpty, EmptySeq
<1>9. QuietProc(k, m, ph, ph2)
  BY <1>3, <1>4, <1>6, <1>7, <1>70, <1>m DEF QuietProc, Owning
<1>10. Run(k)' = "on"
  BY <1>3, <1>7 DEF Run
<1>11. proc' \in [Procs -> ProcRec]
  BY <1>0, <1>7 DEF ProcTypes
<1> HIDE DEF s, o
<1>12. Runs(k, Mine(k), s \o Tail(Ops(c)), Held(c), Run(k)', ph2[k], hd[c])
  BY <1>3, <1>4, <1>8, <1>10
<1> QED BY <1>k, <1>m, <1>0, <1>3, <1>6, <1>7, <1>8, <1>9, <1>11, <1>12, QuietStep

(* iderw waits until the buffer is valid and clean. *)
LEMMA FinishedKeeps ==
  ASSUME NEW ph, NEW hd, NEW c \in Cpus, KTypes, Good(ph, hd), FinishedStep(c)
  PROVE  Running'
<1>k. PICK k : k = Me(c)
  OBVIOUS
<1>m. PICK m : m = proc[k].buf
  OBVIOUS
<1> DEFINE o == Ops(c)[1]
           t == Tail(Ops(c))
           s == IF ~Undone(m) THEN <<>> ELSE Sleep(IoChan(m), idelock) \o <<<<"finished?", m>>>>
<1>0. Thr(ph, hd) /\ At(c, "finished?") /\ Ghosts(ph, hd) /\ ProcTypes
  BY DEF KTypes, Good, FinishedStep
<1>1. o[1] = "finished?" /\ o[2] = Arg(c)
  BY <1>0 DEF At, Arg
<1>2. /\ IsSeq(t)
      /\ Pre(k, Mine(k), o, t, Held(c), Run(k), ph[k], hd[c])
      /\ Runs(k, Mine(k), t, PostH(o, Held(c)), PostR(o, Run(k)), PostF(o, ph[k]), PostG(o, hd[c]))
  BY <1>0, <1>k, Front
<1>3. k # 0 /\ Run(k) = "on" /\ ph[k] = "io1" /\ hd[c] = "no" /\ Held(c) = {idelock} /\ Arg(c) = Mine(k)
  BY <1>1, <1>2 DEF Pre, Loose
<1>4. k \in Procs /\ Mine(k) = m /\ ProcOk(k, ph) /\ m \in Bufs /\ proc[k].state = "RUNNING"
  BY <1>3, <1>k, <1>m, ProcFacts
<1>5. Runs(k, m, t, {idelock}, "on", "has", "no")
  <2>1. PostH(o, {idelock}) = {idelock} /\ PostR(o, "on") = "on" /\ PostF(o, "io1") = "has" /\ PostG(o, "no") = "no"
    BY <1>1 DEF PostH, PostR, PostF, PostG
  <2> QED BY <2>1, <1>2, <1>3, <1>4
<1>60. PICK f : f = IF Undone(m) THEN "io1D" ELSE "has"
  OBVIOUS
<1>61. f \in Phases
  BY <1>60 DEF Phases
<1>62. PICK ph2 : Moved(ph, ph2, k, f)
  BY <1>61, <1>0, <1>4, NewPhase
<1>6. /\ ph2 \in [Procs \cup {0} -> Phases] /\ ph2[0] = "none"
      /\ ph2[k] = IF Undone(m) THEN "io1D" ELSE "has"
      /\ \A q \in Procs \ {k} : ph2[q] = ph[q]
  BY <1>60, <1>62 DEF Moved
<1>7. Then(c, s) /\ UNCHANGED <<cpu, lock, proc, Data, fault>>
  <2>1. Arg(c) = m /\ (Undone(m) <=> ~(buf[m].valid /\ ~buf[m].dirty))
    BY <1>3, <1>4 DEF Undone
  <2> QED BY <2>1 DEF FinishedStep, Rest
<1>8. IsSeq(s) /\ Runs(k, m, s \o t, {idelock}, "on", ph2[k], "no")
  <2> HIDE DEF t, o
  <2>1. CASE ~Undone(m)
    <3>1. s = <<>> /\ s \o t = t /\ ph2[k] = "has"
      BY <2>1, <1>2, <1>6, CatEmpty
    <3> QED BY <3>1, <1>5, EmptySeq
  <2>2. CASE Undone(m)
    <3> DEFINE x == <<"finished?", m>>
               a == Sleep(IoChan(m), idelock)
    <3>1. s = a \o <<x>> /\ ph2[k] = "io1D" /\ x[1] = "finished?" /\ x[2] = m
      BY <2>2, <1>6
    <3>2. IsSeq(a) /\ IsSeq(<<x>>) /\ <<x>> \o t = Cons(x, t)
      BY EmptySeq, Unfold7, OneSeq DEF Sleep, Cons
    <3> HIDE DEF x, a, s
    <3>3. Sound(m, {idelock}, "on", "io1", "no") /\ Pre(k, m, x, t, {idelock}, "on", "io1", "no")
      BY <3>1, <1>3 DEF Sound, Pre, Loose, Dozing
    <3>4. PostH(x, {idelock}) = {idelock} /\ PostR(x, "on") = "on" /\ PostF(x, "io1") = "has" /\ PostG(x, "no") = "no"
      BY <3>1 DEF PostH, PostR, PostF, PostG
    <3>5. Runs(k, m, Cons(x, t), {idelock}, "on", "io1", "no")
      BY <3>3, <3>4, <1>5, DoOther
    <3>6. Sleepy(m, "io1D", "io1", idelock, IoChan(m))
      BY DEF Sleepy
    <3>7. Runs(k, m, a \o Cons(x, t), {idelock}, "on", "io1D", "no")
      BY <3>5, <3>6, <1>3, <1>4, SleepRuns DEF a
    <3>8. Cat(Cat(a, <<x>>), t) = Cat(a, Cat(<<x>>, t))
      BY <3>2, <1>2, CatIs
    <3>9. s \o t = a \o Cons(x, t)
      BY <3>1, <3>2, <3>8 DEF Cat
    <3> QED BY <3>1, <3>2, <3>7, <3>9, CatSeq
  <2> QED BY <2>1, <2>2
<1>9. QuietProc(k, m, ph, ph2)
  <2>1. (Undone(m) => InQueue(m)) /\ (InQueue(m) => Undone(m))
    BY <1>3, <1>4, <1>m DEF ProcOk, Good, BufInv, BufOk
  <2>2. ~Undone(m) => buf[m].valid
    BY DEF Undone
  <2> QED BY <2>1, <2>2, <1>3, <1>4, <1>6, <1>7, <1>m DEF QuietProc, Owning
<1>10. Run(k)' = "on"
  BY <1>3, <1>7 DEF Run
<1>11. proc' \in [Procs -> ProcRec]
  BY <1>0, <1>7 DEF ProcTypes
<1> HIDE DEF s, o
<1>12. Runs(k, Mine(k), s \o Tail(Ops(c)), Held(c), Run(k)', ph2[k], hd[c])
  BY <1>3, <1>4, <1>8, <1>10
<1> QED BY <1>k, <1>m, <1>0, <1>3, <1>6, <1>7, <1>8, <1>9, <1>11, <1>12, QuietStep

(* acquiresleep, when the lock is taken. *)
LEMMA LockedSleeps ==
  ASSUME NEW ph, NEW hd, NEW c \in Cpus, KTypes, Good(ph, hd), LockedStep(c), buf[Arg(c)].locked
  PROVE  Running'
<1>k. PICK k : k = Me(c)
  OBVIOUS
<1>m. PICK m : m = proc[k].buf
  OBVIOUS
<1> DEFINE o == Ops(c)[1]
           t == Tail(Ops(c))
           x == <<"locked?", m>>
           a == Sleep(LkChan(m), Lk(m))
           s == a \o <<x>>
<1>0. Thr(ph, hd) /\ At(c, "locked?") /\ Ghosts(ph, hd) /\ ProcTypes
  BY DEF KTypes, Good, LockedStep
<1>1. o[1] = "locked?" /\ o[2] = Arg(c)
  BY <1>0 DEF At, Arg
<1>2. /\ IsSeq(t)
      /\ Pre(k, Mine(k), o, t, Held(c), Run(k), ph[k], hd[c])
      /\ Runs(k, Mine(k), t, PostH(o, Held(c)), PostR(o, Run(k)), PostF(o, ph[k]), PostG(o, hd[c]))
  BY <1>0, <1>k, Front
<1>3. k # 0 /\ Run(k) = "on" /\ ph[k] = "claim" /\ hd[c] = "no" /\ Held(c) = {Lk(Mine(k))} /\ Arg(c) = Mine(k)
  BY <1>1, <1>2 DEF Pre, Loose
<1>4. k \in Procs /\ Mine(k) = m /\ ProcOk(k, ph) /\ m \in Bufs /\ proc[k].state = "RUNNING"
  BY <1>3, <1>k, <1>m, ProcFacts
<1> DEFINE H == {Lk(m)}
<1>40. Held(c) = H
  BY <1>3, <1>4
<1> HIDE DEF H
<1>5. Runs(k, m, t, H, "on", "got", "no")
  <2>1. PostH(o, H) = H /\ PostR(o, "on") = "on" /\ PostF(o, "claim") = "got" /\ PostG(o, "no") = "no"
    BY <1>1 DEF PostH, PostR, PostF, PostG
  <2> QED BY <2>1, <1>2, <1>3, <1>4, <1>40
<1>60. "claimD" \in Phases
  BY DEF Phases
<1>61. PICK ph2 : Moved(ph, ph2, k, "claimD")
  BY <1>60, <1>0, <1>4, NewPhase
<1>6. /\ ph2 \in [Procs \cup {0} -> Phases] /\ ph2[0] = "none" /\ ph2[k] = "claimD"
      /\ \A q \in Procs \ {k} : ph2[q] = ph[q]
  BY <1>61 DEF Moved
<1>7. Then(c, s) /\ UNCHANGED <<cpu, lock, proc, Data, fault>> /\ buf[m].locked
  <2>1. Arg(c) = m
    BY <1>3, <1>4
  <2> QED BY <2>1 DEF LockedStep, Rest, Data
<1>8. IsSeq(s) /\ Runs(k, m, s \o t, H, "on", "claimD", "no")
  <2>1. x[1] = "locked?" /\ x[2] = m
    OBVIOUS
  <2>2. IsSeq(a) /\ IsSeq(<<x>>) /\ <<x>> \o t = Cons(x, t)
    BY EmptySeq, Unfold7, OneSeq DEF Sleep, Cons
  <2> HIDE DEF x, a, t, o
  <2>3. Sound(m, H, "on", "claim", "no") /\ Pre(k, m, x, t, H, "on", "claim", "no")
    BY <2>1, <1>3 DEF Sound, Pre, Loose, Dozing, H
  <2>4. PostH(x, H) = H /\ PostR(x, "on") = "on" /\ PostF(x, "claim") = "got" /\ PostG(x, "no") = "no"
    BY <2>1 DEF PostH, PostR, PostF, PostG
  <2>5. Runs(k, m, Cons(x, t), H, "on", "claim", "no")
    BY <2>3, <2>4, <1>5, DoOther
  <2>6. Sleepy(m, "claimD", "claim", Lk(m), LkChan(m))
    BY DEF Sleepy
  <2>7. Runs(k, m, a \o Cons(x, t), H, "on", "claimD", "no")
    BY <2>5, <2>6, <1>3, <1>4, SleepRuns DEF a, H
  <2>8. Cat(Cat(a, <<x>>), t) = Cat(a, Cat(<<x>>, t))
    BY <2>2, <1>2, CatIs
  <2>9. s \o t = a \o Cons(x, t)
    BY <2>2, <2>8 DEF Cat
  <2> QED BY <2>2, <2>7, <2>9, CatSeq
<1>9. QuietProc(k, m, ph, ph2)
  BY <1>3, <1>4, <1>6, <1>7, <1>m DEF QuietProc, Owning
<1>10. Run(k)' = "on"
  BY <1>3, <1>7 DEF Run
<1>11. proc' \in [Procs -> ProcRec]
  BY <1>0, <1>7 DEF ProcTypes
<1> HIDE DEF s, o
<1>12. Runs(k, Mine(k), s \o Tail(Ops(c)), Held(c), Run(k)', ph2[k], hd[c])
  BY <1>3, <1>4, <1>6, <1>8, <1>10, <1>40
<1> QED BY <1>k, <1>m, <1>0, <1>3, <1>6, <1>7, <1>8, <1>9, <1>11, <1>12, QuietStep

(* sleep: the process is marked SLEEPING under ptable.lock. *)
LEMMA DozeKeeps ==
  ASSUME NEW ph, NEW hd, NEW c \in Cpus, KTypes, Good(ph, hd), At(c, "doze"), Advance(c),
         proc' = [proc EXCEPT ![Me(c)].state = "SLEEPING", ![Me(c)].chan = Arg(c)],
         UNCHANGED <<cpu, lock, Data, fault>>
  PROVE  Running'
<1>k. PICK k : k = Me(c)
  OBVIOUS
<1>m. PICK m : m = proc[k].buf
  OBVIOUS
<1> DEFINE o == Ops(c)[1]
           t == Tail(Ops(c))
<1>0. Thr(ph, hd) /\ Ghosts(ph, hd) /\ ProcTypes
  BY DEF KTypes, Good
<1>1. o[1] = "doze" /\ o[2] = Arg(c)
  BY DEF At, Arg
<1>2. /\ IsSeq(t)
      /\ Pre(k, Mine(k), o, t, Held(c), Run(k), ph[k], hd[c])
      /\ Runs(k, Mine(k), t, PostH(o, Held(c)), PostR(o, Run(k)), PostF(o, ph[k]), PostG(o, hd[c]))
  BY <1>0, <1>k, Front
<1>3. /\ k # 0 /\ Run(k) = "on" /\ hd[c] = "no" /\ Held(c) = {ptable}
      /\ \/ ph[k] = "claimD" /\ Arg(c) = LkChan(Mine(k))
         \/ ph[k] = "io1D" /\ Arg(c) = IoChan(Mine(k))
  BY <1>1, <1>2 DEF Pre
<1>4. k \in Procs /\ Mine(k) = m /\ ProcOk(k, ph) /\ SleepOk(k, ph) /\ m \in Bufs /\ proc[k].state = "RUNNING"
  BY <1>3, <1>k, <1>m, ProcFacts
<1>5. PICK f : f = IF ph[k] = "claimD" THEN "claim" ELSE "io1"
  OBVIOUS
<1>50. Runs(k, m, t, {ptable}, "off", f, "no")
  <2>1. PostH(o, Held(c)) = Held(c) /\ PostR(o, Run(k)) = "off" /\ PostF(o, ph[k]) = f /\ PostG(o, hd[c]) = hd[c]
    BY <1>1, <1>5 DEF PostH, PostR, PostF, PostG
  <2> QED BY <2>1, <1>2, <1>3, <1>4
<1>60. f \in Phases
  BY <1>5 DEF Phases
<1>61. PICK ph2 : Moved(ph, ph2, k, f)
  BY <1>60, <1>0, <1>4, NewPhase
<1>6. /\ ph2 \in [Procs \cup {0} -> Phases] /\ ph2[0] = "none" /\ ph2[k] = f
      /\ \A q \in Procs \ {k} : ph2[q] = ph[q]
  BY <1>61 DEF Moved
<1>7. proc' = [proc EXCEPT ![k].state = "SLEEPING", ![k].chan = Arg(c)]
  BY <1>k
<1>8. Arg(c) \in Chans
  BY <1>3, <1>4 DEF Chans
<1>9. PICK v : v = Arg(c)
  OBVIOUS
<1>10. proc' = [proc EXCEPT ![k] = [proc[k] EXCEPT !.state = "SLEEPING", !.chan = v]]
  BY <1>7, <1>9
<1>11. /\ proc' \in [Procs -> ProcRec] /\ \A q \in Procs \ {k} : proc'[q] = proc[q]
       /\ proc'[k].state = "SLEEPING" /\ proc'[k].chan = v /\ proc'[k].buf = m /\ proc'[k].has = proc[k].has
  <2> DEFINE y == [proc[k] EXCEPT !.state = "SLEEPING", !.chan = v]
  <2>0. proc[k] \in ProcRec /\ proc \in [Procs -> ProcRec]
    BY <1>0, <1>4 DEF ProcTypes
  <2>1. y \in ProcRec
    BY <2>0, <1>8, <1>9 DEF ProcRec
  <2>2. y.state = "SLEEPING" /\ y.chan = v /\ y.buf = m /\ y.has = proc[k].has
    BY <2>0, <1>m DEF ProcRec
  <2>3. proc' = [proc EXCEPT ![k] = y]
    BY <1>10
  <2> HIDE DEF y
  <2>4. proc' \in [Procs -> ProcRec] /\ proc'[k] = y /\ \A q \in Procs \ {k} : proc'[q] = proc[q]
    BY <2>0, <2>1, <2>3, <1>4
  <2> QED BY <2>2, <2>4
<1>12. QuietProc(k, m, ph, ph2)
  <2>1. CASE ph[k] = "claimD"
    <3>1. buf[m].locked \/ Coming(LkChan(m))
      BY <1>4, <1>m, <2>1 DEF SleepOk
    <3> QED BY <2>1, <3>1, <1>3, <1>4, <1>5, <1>6, <1>9, <1>11 DEF QuietProc, Owning
  <2>2. CASE ph[k] = "io1D"
    <3>1. (InQueue(m) \/ Coming(IoChan(m))) /\ (Undone(m) => InQueue(m))
      BY <1>4, <1>m, <2>2 DEF SleepOk, ProcOk
    <3> QED BY <2>2, <3>1, <1>3, <1>4, <1>5, <1>6, <1>9, <1>11 DEF QuietProc, Owning
  <2> QED BY <2>1, <2>2, <1>3
<1>13. Run(k)' = "off"
  BY <1>3, <1>11 DEF Run
<1>14. IsSeq(<<>>) /\ Then(c, <<>>) /\ <<>> \o t = t
  BY <1>2, CatEmpty, EmptySeq DEF Advance
<1> HIDE DEF t
<1>15. Runs(k, Mine(k), <<>> \o t, Held(c), Run(k)', ph2[k], hd[c])
  BY <1>3, <1>4, <1>6, <1>50, <1>13, <1>14
<1> QED BY <1>k, <1>m, <1>3, <1>6, <1>11, <1>12, <1>14, <1>15, QuietStep DEF t

(* tidy, runnable and zombie. *)
LEMMA OtherStateKeeps ==
  ASSUME NEW ph, NEW hd, NEW c \in Cpus, KTypes, Good(ph, hd), NEW n \in {"tidy", "runnable", "zombie"},
         At(c, n), Advance(c),
         proc' = IF n = "tidy" THEN [proc EXCEPT ![Me(c)].chan = NoChan]
                 ELSE [proc EXCEPT ![Me(c)].state = IF n = "runnable" THEN "RUNNABLE" ELSE "ZOMBIE"],
         UNCHANGED <<cpu, lock, Data, fault>>
  PROVE  Running'
<1>k. PICK k : k = Me(c)
  OBVIOUS
<1>m. PICK m : m = proc[k].buf
  OBVIOUS
<1> DEFINE o == Ops(c)[1]
           t == Tail(Ops(c))
           r == IF n = "tidy" THEN "on" ELSE "off"
<1>0. Thr(ph, hd) /\ Ghosts(ph, hd) /\ ProcTypes
  BY DEF KTypes, Good
<1>1. o[1] = n
  BY DEF At, Arg
<1>2. /\ IsSeq(t)
      /\ Pre(k, Mine(k), o, t, Held(c), Run(k), ph[k], hd[c])
      /\ Runs(k, Mine(k), t, PostH(o, Held(c)), PostR(o, Run(k)), PostF(o, ph[k]), PostG(o, hd[c]))
  BY <1>0, <1>k, Front
<1>3. k # 0 /\ Run(k) = "on" /\ hd[c] = "no" /\ Held(c) = {ptable} /\ ph[k] \notin Dozing
  BY <1>1, <1>2 DEF Pre, Loose
<1>4. k \in Procs /\ ProcOk(k, ph) /\ proc[k].state = "RUNNING"
  BY <1>3, <1>k, <1>m, ProcFacts
<1>5. Runs(k, Mine(k), t, Held(c), r, ph[k], hd[c])
  <2>1. PostH(o, Held(c)) = Held(c) /\ PostR(o, Run(k)) = r /\ PostF(o, ph[k]) = ph[k] /\ PostG(o, hd[c]) = hd[c]
    BY <1>1, <1>3 DEF PostH, PostR, PostF, PostG
  <2> HIDE DEF r, o, t
  <2> QED BY <2>1, <1>2
<1>6. ph \in [Procs \cup {0} -> Phases] /\ ph[0] = "none"
  BY <1>0 DEF Ghosts
<1>7. /\ proc' \in [Procs -> ProcRec] /\ (\A q \in Procs \ {k} : proc'[q] = proc[q])
      /\ proc'[k].state # "SLEEPING" /\ proc'[k].buf = m /\ proc'[k].has = proc[k].has
      /\ proc'[k].state = "RUNNING" <=> n = "tidy"
  <2>1. CASE n = "tidy"
    <3>1. proc' = [proc EXCEPT ![k].chan = NoChan] /\ NoChan \in Chans
      BY <2>1, <1>k DEF Chans
    <3> QED BY <3>1, <2>1, <1>0, <1>4, <1>m DEF ProcTypes, ProcRec
  <2>2. CASE n # "tidy"
    <3>1. PICK v : v = IF n = "runnable" THEN "RUNNABLE" ELSE "ZOMBIE"
      OBVIOUS
    <3>2. proc' = [proc EXCEPT ![k].state = v] /\ v \in {"RUNNABLE", "ZOMBIE"}
      BY <2>2, <1>k, <3>1
    <3> QED BY <3>2, <2>2, <1>0, <1>4, <1>m DEF ProcTypes, ProcRec
  <2> QED BY <2>1, <2>2
<1>8. QuietProc(k, m, ph, ph)
  BY <1>3, <1>4, <1>7, <1>m DEF QuietProc, ProcOk, Dozing
<1>9. Run(k)' = r
  BY <1>3, <1>7 DEF Run
<1>10. IsSeq(<<>>) /\ Then(c, <<>>) /\ <<>> \o t = t
  BY <1>2, CatEmpty, EmptySeq DEF Advance
<1> HIDE DEF t, r
<1>11. Runs(k, Mine(k), <<>> \o t, Held(c), Run(k)', ph[k], hd[c])
  BY <1>5, <1>9, <1>10
<1>12. \A q \in Procs \ {k} : ph[q] = ph[q] /\ proc'[q] = proc[q]
  BY <1>7
<1>13. n # "spin" /\ n # "scan" /\ n # "wakeup1"
  OBVIOUS
<1> QED BY <1>k, <1>m, <1>3, <1>6, <1>7, <1>8, <1>10, <1>11, <1>12, <1>13, QuietStep DEF t

(* Who is about to sleep is on a processor that holds a lock of the sleep. *)
LEMMA DozingHolds ==
  ASSUME NEW ph, NEW hd, KTypes, Good(ph, hd), NEW q \in Procs, ph[q] \in Dozing
  PROVE  \E d \in Cpus : /\ Me(d) = q
                         /\ ph[q] = "claimD" => Lk(proc[q].buf) \in Held(d) \/ ptable \in Held(d)
                         /\ ph[q] = "io1D" => idelock \in Held(d) \/ ptable \in Held(d)
<1>1. Thr(ph, hd) /\ q # 0
  BY DEF Good, Procs
<1>2. PICK d \in Cpus : Me(d) = q
  BY <1>1 DEF Thr, Parked
<1>3. Sound(Mine(q), Held(d), Run(q), ph[q], hd[d])
  BY <1>1, <1>2, OffHeld
<1>4. Mine(q) = proc[q].buf
  BY <1>1 DEF Mine
<1> QED BY <1>2, <1>3, <1>4 DEF Sound

(* wakeup1: the sleepers on the channel are RUNNABLE again. *)
LEMMA WakeupKeeps ==
  ASSUME NEW ph, NEW hd, NEW c \in Cpus, KTypes, Good(ph, hd), At(c, "wakeup1"), Advance(c),
         proc' = [p \in Procs |-> IF proc[p].state = "SLEEPING" /\ proc[p].chan = Arg(c)
                                  THEN [proc[p] EXCEPT !.state = "RUNNABLE"] ELSE proc[p]],
         UNCHANGED <<cpu, lock, Data, fault>>
  PROVE  Running'
<1>k. PICK k : k = Me(c)
  OBVIOUS
<1>v. PICK v : v = Arg(c)
  OBVIOUS
<1> DEFINE o == Ops(c)[1]
           t == Tail(Ops(c))
<1>0. /\ CpuTypes /\ ProcTypes /\ BufTypes /\ Thr(ph, hd) /\ CpuInv(hd) /\ fault = "none" /\ Ghosts(ph, hd)
      /\ SleepInv(ph) /\ ProcInv(ph) /\ BufInv(ph) /\ QueueInv(hd) /\ DataInv
  BY DEF KTypes, Good, At
<1>1. o[1] = "wakeup1" /\ o[2] = v
  BY <1>v DEF At, Arg
<1>2. /\ IsSeq(t) /\ Ops(c) = Cons(o, t)
      /\ Pre(k, Mine(k), o, t, Held(c), Run(k), ph[k], hd[c])
      /\ Runs(k, Mine(k), t, PostH(o, Held(c)), PostR(o, Run(k)), PostF(o, ph[k]), PostG(o, hd[c]))
  BY <1>0, <1>k, Front
<1>3. /\ Run(k) = "on" /\ ph[k] \notin Dozing /\ ptable \in Held(c)
      /\ \A i \in Bufs : (v = LkChan(i) => Lk(i) \in Held(c)) /\ (v = IoChan(i) => idelock \in Held(c))
  BY <1>1, <1>2 DEF Pre
<1>4. Runs(k, Mine(k), t, Held(c), Run(k), ph[k], hd[c])
  <2>1. PostH(o, Held(c)) = Held(c) /\ PostR(o, Run(k)) = Run(k) /\ PostF(o, ph[k]) = ph[k] /\ PostG(o, hd[c]) = hd[c]
    BY <1>1 DEF PostH, PostR, PostF, PostG
  <2> QED BY <2>1, <1>2
<1>5. \A q \in Procs : /\ proc'[q] \in ProcRec /\ proc'[q].buf = proc[q].buf /\ proc'[q].has = proc[q].has
                       /\ proc'[q].chan = proc[q].chan
                       /\ proc'[q].state = "RUNNING" <=> proc[q].state = "RUNNING"
                       /\ proc'[q].state = "SLEEPING" => proc[q].state = "SLEEPING" /\ proc[q].chan # v
  <2> SUFFICES ASSUME NEW q \in Procs
               PROVE  /\ proc'[q] \in ProcRec /\ proc'[q].buf = proc[q].buf /\ proc'[q].has = proc[q].has
                      /\ proc'[q].chan = proc[q].chan
                      /\ proc'[q].state = "RUNNING" <=> proc[q].state = "RUNNING"
                      /\ proc'[q].state = "SLEEPING" => proc[q].state = "SLEEPING" /\ proc[q].chan # v
    OBVIOUS
  <2>1. proc[q] \in ProcRec
    BY <1>0 DEF ProcTypes
  <2>2. CASE proc[q].state = "SLEEPING" /\ proc[q].chan = v
    <3>1. proc'[q] = [proc[q] EXCEPT !.state = "RUNNABLE"]
      BY <2>2, <1>v
    <3> QED BY <3>1, <2>1, <2>2 DEF ProcRec
  <2>3. CASE ~(proc[q].state = "SLEEPING" /\ proc[q].chan = v)
    <3>1. proc'[q] = proc[q]
      BY <2>3, <1>v
    <3> QED BY <3>1, <2>1, <2>3
  <2> QED BY <2>2, <2>3
<1>6. Cpus' = Cpus /\ Me(c)' = k /\ k \in Procs \cup {0}
  BY <1>0, <1>k, CpuFacts DEF Cpus, Me
<1>7. Become(c, t)
  BY <1>2, CatEmpty DEF Advance, Then
<1>8. Plainly(c, ph, hd, ph, hd)
  BY <1>5 DEF Plainly
<1>9. Mine(k)' = Mine(k) /\ Run(k)' = Run(k)
  BY <1>5, <1>6 DEF Mine, Run
<1>10. Thr(ph, hd)' /\ CpuInv(hd)' /\ CpuTypes' /\ (todo' = [p \in Procs |-> todo'[p]])
  <2>1. Runs(Me(c), Mine(Me(c))', t, Held(c), Run(Me(c))', ph[Me(c)], hd[c])
    BY <1>k, <1>4, <1>6, <1>9 DEF Mine, Run
  <2> HIDE DEF t
  <2> QED BY <2>1, <1>0, <1>7, <1>8, PlainStep
<1>11. ProcTypes'
  BY <1>5, <1>10 DEF ProcTypes
<1>12. ASSUME NEW ch, ch # v, Coming(ch) PROVE Coming(ch)'
  <2> DEFINE w == <<"wakeup1", ch>>
  <2>1. o # w
    BY <1>1, <1>12
  <2> HIDE DEF w, o, t
  <2>2. Has(Ops(c), w) => Has(t, w)
    BY <2>1, <1>2, HasCons
  <2> QED BY <2>2, <1>0, <1>k, <1>6, <1>7, <1>12, BecomeComing DEF w
<1>13. buf' = buf /\ ide' = ide
  BY DEF Data
<1>14. ASSUME NEW q \in Procs PROVE SleepOk(q, ph)'
  <2>m. PICK m : m = proc[q].buf
    OBVIOUS
  <2>0. SleepOk(q, ph) /\ ProcOk(q, ph) /\ proc'[q].buf = m
    BY <1>0, <1>5, <2>m DEF SleepInv, ProcInv
  <2>1. ph[q] # "none" => m \in Bufs
    BY <2>0, <2>m DEF ProcOk
  <2>2. (LkChan(m) # v /\ Coming(LkChan(m)) => Coming(LkChan(m))')
        /\ (IoChan(m) # v /\ Coming(IoChan(m)) => Coming(IoChan(m))')
    BY <1>12
  <2>3. ph[q] = "claimD" => LkChan(m) # v
    <3> SUFFICES ASSUME ph[q] = "claimD", LkChan(m) = v PROVE FALSE
      OBVIOUS
    <3>1. PICK d \in Cpus : Me(d) = q /\ (Lk(m) \in Held(d) \/ ptable \in Held(d))
      BY <2>m, DozingHolds DEF Dozing
    <3>2. Lk(m) \in Held(c)
      BY <2>1, <1>3
    <3>3. d = c
      BY <3>1, <3>2, <1>3 DEF Held
    <3> QED BY <3>1, <3>3, <1>3, <1>k DEF Dozing
  <2>4. ph[q] = "io1D" => IoChan(m) # v
    <3> SUFFICES ASSUME ph[q] = "io1D", IoChan(m) = v PROVE FALSE
      OBVIOUS
    <3>1. PICK d \in Cpus : Me(d) = q /\ (idelock \in Held(d) \/ ptable \in Held(d))
      BY <2>m, DozingHolds DEF Dozing
    <3>2. idelock \in Held(c)
      BY <2>1, <1>3
    <3>3. d = c
      BY <3>1, <3>2, <1>3 DEF Held
    <3> QED BY <3>1, <3>3, <1>3, <1>k DEF Dozing
  <2>5. proc'[q].state = "SLEEPING" => \/ ph[q] = "claim" /\ proc'[q].chan = LkChan(m) /\ LkChan(m) # v
                                       \/ ph[q] = "io1" /\ proc'[q].chan = IoChan(m) /\ IoChan(m) # v
    BY <2>0, <2>m, <1>5 DEF SleepOk
  <2>6. ph[q] = "claimD" \/ (proc'[q].state = "SLEEPING" /\ ph[q] = "claim")
           => buf'[m].locked \/ Coming(LkChan(m))'
    BY <2>0, <2>m, <2>2, <2>3, <2>5, <1>5, <1>13 DEF SleepOk
  <2>7. ph[q] = "io1D" \/ (proc'[q].state = "SLEEPING" /\ ph[q] = "io1")
           => InQueue(m)' \/ Coming(IoChan(m))'
    <3>1. InQueue(m)' <=> InQueue(m)
      BY <1>13 DEF InQueue
    <3> QED BY <3>1, <2>0, <2>m, <2>2, <2>4, <2>5, <1>5 DEF SleepOk
  <2> QED BY <2>0, <2>5, <2>6, <2>7 DEF SleepOk
<1>15. ProcInv(ph)' /\ BufInv(ph)' /\ DataInv' /\ BufTypes'
  <2>1. SameBufs(0, ph, ph)
    BY <1>5 DEF SameBufs
  <2>2. 0 \notin Procs /\ UNCHANGED Data
    BY DEF Procs
  <2> QED BY <1>0, <2>1, <2>2, FrameData
<1>16. QueueInv(hd)'
  BY <1>0, <1>6, FrameQueue
<1>17. Ghosts(ph, hd)'
  BY <1>0, <1>6 DEF Ghosts
<1>18. Good(ph, hd)'
  BY <1>10, <1>14, <1>15, <1>16, <1>17 DEF Good, SleepInv
<1>19. KTypes' /\ fault' = "none"
  BY <1>0, <1>10, <1>11, <1>15 DEF KTypes
<1> QED BY <1>18, <1>19 DEF Running

(* The assignments to the process table. *)
LEMMA StateKeeps ==
  ASSUME NEW ph, NEW hd, NEW c \in Cpus, KTypes, Good(ph, hd), StateStep(c)
  PROVE  Running'
<1>1. Advance(c) /\ UNCHANGED <<cpu, lock, Data, fault>>
  BY DEF StateStep, Rest
<1>2. CASE At(c, "doze") /\ proc' = [proc EXCEPT ![Me(c)].state = "SLEEPING", ![Me(c)].chan = Arg(c)]
  BY <1>1, <1>2, DozeKeeps
<1>3. CASE At(c, "tidy") /\ proc' = [proc EXCEPT ![Me(c)].chan = NoChan]
  BY <1>1, <1>3, OtherStateKeeps
<1>4. CASE At(c, "runnable") /\ proc' = [proc EXCEPT ![Me(c)].state = "RUNNABLE"]
  BY <1>1, <1>4, OtherStateKeeps
<1>5. CASE At(c, "zombie") /\ proc' = [proc EXCEPT ![Me(c)].state = "ZOMBIE"]
  BY <1>1, <1>5, OtherStateKeeps
<1>6. CASE At(c, "wakeup1") /\ proc' = [p \in Procs |->
             IF proc[p].state = "SLEEPING" /\ proc[p].chan = Arg(c)
             THEN [proc[p] EXCEPT !.state = "RUNNABLE"] ELSE proc[p]]
  BY <1>1, <1>6, WakeupKeeps
<1> QED BY <1>2, <1>3, <1>4, <1>5, <1>6 DEF StateStep

(* A step of a running process that changes one buffer.  Another user of   *)
(* the buffer finds its block there, and everything else if it owns it.    *)
OnlyBuf(i) == i \in Bufs /\ buf' \in [Bufs -> BufRec] /\ \A j \in Bufs \ {i} : buf'[j] = buf[j]
OnlyProc(k) ==
  /\ proc' \in [Procs -> ProcRec] /\ \A q \in Procs \ {k} : proc'[q] = proc[q]
  /\ proc[k].state = "RUNNING" /\ proc'[k].state = "RUNNING"
LruOk == lru \in [Bufs -> Bufs] /\ \A i \in Bufs : \E j \in Bufs : lru[j] = i
OtherUse(k, i, ph) ==
  \A q \in Procs \ {k} : ph[q] # "none" /\ proc[q].buf = i =>
    /\ buf'[i].blockno = buf[i].blockno
    /\ ph[q] \in Owning => /\ buf'[i].locked = buf[i].locked /\ buf'[i].pid = buf[i].pid
                           /\ buf'[i].valid = buf[i].valid /\ buf'[i].dirty = buf[i].dirty
QueueUse(i) ==
  InQueue(i) => /\ buf'[i].data = buf[i].data /\ buf'[i].dirty = buf[i].dirty
                /\ buf'[i].blockno = buf[i].blockno

(* Such a step keeps the invariant. *)
LEMMA BufStep ==
  ASSUME NEW ph, NEW hd, NEW ph2, NEW c \in Cpus, NEW s, NEW n, NEW k, NEW i,
         k = Me(c), KTypes, Good(ph, hd), At(c, n), n # "spin", n # "scan", n # "wakeup1", k # 0,
         Moved(ph, ph2, k, ph2[k]), ph2[k] \notin Dozing,
         UNCHANGED <<cpu, lock, ide, disk, fault>>,
         OnlyProc(k), OnlyBuf(i), LruOk', latest' \in [Blocks -> Nat],
         IsSeq(s), Then(c, s), Runs(k, Mine(k)', s \o Tail(Ops(c)), Held(c), "on", ph2[k], hd[c]),
         OtherUse(k, i, ph), QueueUse(i),
         buf[i].locked => buf'[i].locked \/ Coming(LkChan(i))',
         ph[k] = "none" \/ proc[k].buf = i, ph2[k] = "none" \/ proc'[k].buf = i,
         ProcOk(k, ph2)', BufOk(i, ph2)', DataInv'
  PROVE  Running'
<1> DEFINE u == s \o Tail(Ops(c))
<1>0. CpuTypes /\ ProcTypes /\ BufTypes /\ Thr(ph, hd) /\ CpuInv(hd) /\ fault = "none" /\ Ghosts(ph, hd)
      /\ SleepInv(ph) /\ ProcInv(ph) /\ BufInv(ph) /\ QueueInv(hd) /\ DataInv
  BY DEF KTypes, Good, At
<1>1. k \in Procs /\ Cpus' = Cpus /\ Me(c)' = k
  BY <1>0, CpuFacts DEF Cpus, Me
<1>2. Become(c, u)
  BY DEF Then
<1>3. /\ ph2 \in [Procs \cup {0} -> Phases] /\ ph2[0] = "none" /\ (\A q \in Procs \ {k} : ph2[q] = ph[q])
      /\ \A q \in Procs \ {k} : proc'[q] = proc[q]
  BY DEF Moved, OnlyProc
<1>4. Plainly(c, ph, hd, ph2, hd)
  BY <1>0, <1>3 DEF Plainly, Ghosts
<1>5. Thr(ph2, hd)' /\ CpuInv(hd)' /\ CpuTypes' /\ (todo' = [p \in Procs |-> todo'[p]])
  <2>1. Run(k)' = "on"
    BY DEF Run, OnlyProc
  <2>2. Runs(Me(c), Mine(Me(c))', u, Held(c), Run(Me(c))', ph2[Me(c)], hd[c])
    BY <1>1, <2>1 DEF Mine, Run
  <2> HIDE DEF u
  <2> QED BY <2>2, <1>0, <1>2, <1>4, PlainStep
<1>6. ProcTypes'
  BY <1>5 DEF ProcTypes, OnlyProc
<1>7. \A ch : Coming(ch) => Coming(ch)'
  BY <1>0, <1>1, ThenComing
<1>8. \A j : InQueue(j)' <=> InQueue(j)
  BY DEF InQueue
<1>9. ASSUME NEW q \in Procs PROVE ProcOk(q, ph2)'
  <2>1. CASE q = k
    BY <2>1
  <2>2. CASE q # k
    <3>m. PICK m : m = proc[q].buf
      OBVIOUS
    <3>1. ProcOk(q, ph) /\ ph2[q] = ph[q] /\ proc'[q] = proc[q]
      BY <2>2, <1>0, <1>3 DEF ProcInv
    <3>2. ph[q] # "none" => m \in Bufs
      BY <3>1, <3>m DEF ProcOk
    <3>3. CASE ph[q] = "none"
      BY <3>3, <3>1 DEF ProcOk, Owning
    <3>4. CASE ph[q] # "none" /\ m # i
      <4>1. buf'[m] = buf[m]
        BY <3>2, <3>4 DEF OnlyBuf
      <4>2. (Undone(m)' <=> Undone(m)) /\ (InQueue(m)' <=> InQueue(m))
        BY <4>1, <1>8 DEF Undone
      <4> QED BY <3>1, <3>m, <4>1, <4>2, <1>8 DEF ProcOk
    <3>5. CASE ph[q] # "none" /\ m = i
      <4>1. /\ buf'[m].blockno = buf[m].blockno
            /\ ph[q] \in Owning => /\ buf'[m].locked = buf[m].locked /\ buf'[m].pid = buf[m].pid
                                   /\ buf'[m].valid = buf[m].valid /\ buf'[m].dirty = buf[m].dirty
        BY <2>2, <3>m, <3>5 DEF OtherUse
      <4>2. ph[q] \in Owning => (Undone(m)' <=> Undone(m))
        BY <4>1 DEF Undone
      <4> QED BY <3>1, <3>m, <4>1, <4>2, <1>8 DEF ProcOk, Owning
    <3> QED BY <3>3, <3>4, <3>5
  <2> QED BY <2>1, <2>2
<1>10. ASSUME NEW j \in Bufs PROVE BufOk(j, ph2)'
  <2>1. CASE j = i
    BY <2>1
  <2>2. CASE j # i
    <3>1. BufOk(j, ph) /\ buf'[j] = buf[j]
      BY <2>2, <1>0 DEF BufInv, OnlyBuf
    <3>2. Users(j, ph2)' = Users(j, ph)
      BY <2>2, <1>3 DEF Users
    <3>3. (Waiter(j, ph2)' <=> Waiter(j, ph)) /\ (Changer(j, ph2)' <=> Changer(j, ph))
      BY <2>2, <1>3 DEF Waiter, Changer
    <3>4. (Undone(j)' <=> Undone(j)) /\ (InQueue(j)' <=> InQueue(j))
      BY <3>1, <1>8 DEF Undone
    <3> QED BY <3>1, <3>2, <3>3, <3>4 DEF BufOk
  <2> QED BY <2>1, <2>2
<1>11. SleepInv(ph2)'
  <2>1. \A j \in Bufs : buf[j].locked => buf'[j].locked \/ Coming(LkChan(j))'
    BY DEF OnlyBuf
  <2>2. \A j \in Bufs : InQueue(j) => InQueue(j)' \/ Coming(IoChan(j))'
    BY <1>8
  <2>3. SleepOk(k, ph2)'
    BY DEF SleepOk, OnlyProc, Dozing
  <2>4. \A q \in Procs : \/ SleepOk(q, ph2)'
                          \/ /\ ph2[q] = ph[q] /\ proc'[q].buf = proc[q].buf /\ proc'[q].chan = proc[q].chan
                             /\ proc'[q].state = "SLEEPING" => proc[q].state = "SLEEPING"
    BY <2>3, <1>3
  <2> QED BY <2>1, <2>2, <2>4, <1>0, <1>7, SleepKeep
<1>12. QueueInv(hd)'
  <2>1. ASSUME ide.queue # <<>>
        PROVE  /\ buf'[ide.queue[1]].data = buf[ide.queue[1]].data /\ buf'[ide.queue[1]].dirty = buf[ide.queue[1]].dirty
               /\ buf'[ide.queue[1]].blockno = buf[ide.queue[1]].blockno
    <3>1. ide.queue \in Seq(Bufs)
      BY <1>0 DEF BufTypes, IdeRec
    <3>2. 1 \in DOMAIN ide.queue /\ ide.queue[1] \in Bufs
      BY <2>1, <3>1
    <3>3. InQueue(ide.queue[1])
      BY <3>2 DEF InQueue
    <3> QED BY <3>2, <3>3 DEF QueueUse, OnlyBuf
  <2>2. ide' = ide /\ disk' = disk
    OBVIOUS
  <2> QED BY <2>1, <2>2, <1>0, <1>1 DEF QueueInv
<1>13. BufTypes'
  BY <1>0 DEF BufTypes, OnlyBuf, LruOk
<1>14. Ghosts(ph2, hd)'
  BY <1>0, <1>1, <1>3 DEF Ghosts
<1>15. Good(ph2, hd)'
  BY <1>5, <1>9, <1>10, <1>11, <1>12, <1>14 DEF Good, ProcInv, BufInv
<1>16. KTypes' /\ fault' = "none"
  BY <1>0, <1>5, <1>6, <1>13 DEF KTypes
<1> QED BY <1>15, <1>16 DEF Running

(* A buffer has one owner. *)
LEMMA OneOwner ==
  ASSUME NEW ph, NEW hd, Good(ph, hd), NEW k \in Procs, NEW m \in Bufs,
         \/ ph[k] \in Owning \ {"io1", "io1D"} /\ proc[k].buf = m
         \/ ~buf[m].locked
  PROVE  ~InQueue(m) /\ \A q \in Procs \ {k} : ph[q] \in Owning => proc[q].buf # m
<1>1. ProcInv(ph) /\ BufOk(m, ph)
  BY DEF Good, BufInv
<1>2. ASSUME NEW q \in Procs \ {k}, ph[q] \in Owning, proc[q].buf = m PROVE FALSE
  <2>1. buf[m].locked /\ buf[m].pid = q
    BY <1>1, <1>2 DEF ProcInv, ProcOk
  <2>2. ph[k] \in Owning /\ proc[k].buf = m
    BY <2>1
  <2>3. buf[m].pid = k
    BY <1>1, <2>2 DEF ProcInv, ProcOk
  <2> QED BY <2>1, <2>3
<1>3. ASSUME InQueue(m) PROVE FALSE
  <2>1. PICK q \in Procs : ph[q] \in {"io1", "io1D"} /\ proc[q].buf = m
    BY <1>1, <1>3 DEF BufOk, Waiter
  <2>2. ph[q] \in Owning
    BY <2>1 DEF Owning
  <2>3. q = k
    BY <1>2, <2>1, <2>2
  <2>4. ~buf[m].locked
    BY <2>1, <2>3
  <2>5. buf[m].locked
    BY <1>1, <2>1, <2>2 DEF ProcInv, ProcOk
  <2> QED BY <2>4, <2>5
<1> QED BY <1>2, <1>3

(* Users of a buffer, when one of them goes on with it. *)
LEMMA UsersSame ==
  ASSUME NEW ph, NEW ph2, NEW k \in Procs, NEW i, Moved(ph, ph2, k, ph2[k]), OnlyProc(k),
         ph[k] # "none" /\ proc[k].buf = i, ph2[k] # "none" /\ proc'[k].buf = i
  PROVE  Users(i, ph2)' = Users(i, ph)
BY DEF Users, Moved, OnlyProc

(* acquiresleep, when the lock is free. *)
LEMMA LockedTakes ==
  ASSUME NEW ph, NEW hd, NEW c \in Cpus, KTypes, Good(ph, hd), LockedStep(c), ~buf[Arg(c)].locked
  PROVE  Running'
<1>k. PICK k : k = Me(c)
  OBVIOUS
<1>m. PICK m : m = proc[k].buf
  OBVIOUS
<1> DEFINE o == Ops(c)[1]
           t == Tail(Ops(c))
<1>0. Thr(ph, hd) /\ At(c, "locked?") /\ Ghosts(ph, hd) /\ ProcTypes /\ BufTypes /\ BufInv(ph) /\ DataInv
  BY DEF KTypes, Good, LockedStep
<1>1. o[1] = "locked?" /\ o[2] = Arg(c)
  BY <1>0 DEF At, Arg
<1>2. /\ IsSeq(t)
      /\ Pre(k, Mine(k), o, t, Held(c), Run(k), ph[k], hd[c])
      /\ Runs(k, Mine(k), t, PostH(o, Held(c)), PostR(o, Run(k)), PostF(o, ph[k]), PostG(o, hd[c]))
  BY <1>0, <1>k, Front
<1>3. k # 0 /\ Run(k) = "on" /\ ph[k] = "claim" /\ hd[c] = "no" /\ Arg(c) = Mine(k)
  BY <1>1, <1>2 DEF Pre, Loose
<1>4. k \in Procs /\ Mine(k) = m /\ ProcOk(k, ph) /\ m \in Bufs /\ proc[k].state = "RUNNING"
  BY <1>3, <1>k, <1>m, ProcFacts
<1>5. Runs(k, m, t, Held(c), "on", "got", "no")
  <2>1. PostH(o, Held(c)) = Held(c) /\ PostR(o, "on") = "on" /\ PostF(o, "claim") = "got" /\ PostG(o, "no") = "no"
    BY <1>1 DEF PostH, PostR, PostF, PostG
  <2> QED BY <2>1, <1>2, <1>3, <1>4
<1>60. "got" \in Phases
  BY DEF Phases
<1>61. PICK ph2 : Moved(ph, ph2, k, "got")
  BY <1>60, <1>0, <1>4, NewPhase
<1>6. ph2[k] = "got" /\ Moved(ph, ph2, k, ph2[k]) /\ ph2[k] \notin Dozing /\ ph2[k] # "none"
      /\ \A q \in Procs \ {k} : ph2[q] = ph[q]
  BY <1>61 DEF Moved, Dozing
<1>7. /\ buf' = [buf EXCEPT ![m].locked = TRUE, ![m].pid = k] /\ proc' = [proc EXCEPT ![k].has = TRUE]
      /\ Then(c, <<>>) /\ UNCHANGED <<cpu, lock, ide, disk, fault>> /\ lru' = lru /\ latest' = latest
      /\ ~buf[m].locked
  <2>1. Arg(c) = m
    BY <1>3, <1>4
  <2> QED BY <2>1, <1>k DEF LockedStep, Rest, Advance
<1>8. /\ OnlyProc(k) /\ proc'[k].buf = m /\ proc'[k].has
  <2>1. proc[k] \in ProcRec /\ proc \in [Procs -> ProcRec]
    BY <1>0, <1>4 DEF ProcTypes
  <2> DEFINE y == [proc[k] EXCEPT !.has = TRUE]
  <2>2. y \in ProcRec /\ y.has /\ y.state = proc[k].state /\ y.buf = m
    BY <2>1, <1>m DEF ProcRec
  <2>3. proc' = [proc EXCEPT ![k] = y]
    BY <1>7
  <2> HIDE DEF y
  <2> QED BY <2>1, <2>2, <2>3, <1>4 DEF OnlyProc
<1>9. /\ OnlyBuf(m) /\ buf'[m].locked /\ buf'[m].pid = k
      /\ buf'[m].blockno = buf[m].blockno /\ buf'[m].refcnt = buf[m].refcnt /\ buf'[m].valid = buf[m].valid
      /\ buf'[m].dirty = buf[m].dirty /\ buf'[m].data = buf[m].data
  <2>1. buf[m] \in BufRec /\ buf \in [Bufs -> BufRec]
    BY <1>0, <1>4 DEF BufTypes
  <2> DEFINE y == [buf[m] EXCEPT !.locked = TRUE, !.pid = k]
  <2>2. y \in BufRec /\ y.locked /\ y.pid = k
        /\ y.blockno = buf[m].blockno /\ y.refcnt = buf[m].refcnt /\ y.valid = buf[m].valid
        /\ y.dirty = buf[m].dirty /\ y.data = buf[m].data
    BY <2>1, <1>4 DEF BufRec
  <2>3. buf' = [buf EXCEPT ![m] = y]
    BY <1>7
  <2> HIDE DEF y
  <2> QED BY <2>1, <2>2, <2>3, <1>4 DEF OnlyBuf
<1>10. ~InQueue(m) /\ \A q \in Procs \ {k} : ph[q] \in Owning => proc[q].buf # m
  BY <1>4, <1>7, OneOwner
<1>11. OtherUse(k, m, ph) /\ QueueUse(m)
  BY <1>9, <1>10 DEF OtherUse, QueueUse
<1>12. ProcOk(k, ph2)'
  BY <1>3, <1>4, <1>6, <1>8, <1>9, <1>m DEF ProcOk, Owning
<1>13. BufOk(m, ph2)'
  <2>1. BufOk(m, ph) /\ Users(m, ph2)' = Users(m, ph)
    BY <1>0, <1>3, <1>4, <1>6, <1>8, <1>m, UsersSame DEF BufInv
  <2>2. ~InQueue(m)'
    BY <1>7, <1>10 DEF InQueue
  <2>3. Changer(m, ph2)' <=> Changer(m, ph)
    BY <1>3, <1>6, <1>8 DEF Changer, OnlyProc
  <2>4. disk' = disk
    BY <1>7
  <2> QED BY <2>1, <2>2, <2>3, <2>4, <1>9 DEF BufOk
<1>14. DataInv'
  <2>1. \A j \in Bufs : buf'[j].blockno = buf[j].blockno /\ buf'[j].valid = buf[j].valid /\ buf'[j].data = buf[j].data
    BY <1>9 DEF OnlyBuf
  <2>2. disk' = disk /\ latest' = latest
    BY <1>7
  <2> QED BY <2>1, <2>2, <1>0 DEF DataInv, OneCopy, Fresh, Kept
<1>15. LruOk' /\ latest' \in [Blocks -> Nat]
  BY <1>0, <1>7 DEF BufTypes, LruOk
<1>16. IsSeq(<<>>) /\ <<>> \o t = t
  BY <1>2, CatEmpty, EmptySeq
<1> HIDE DEF t
<1>17. Runs(k, Mine(k)', <<>> \o t, Held(c), "on", ph2[k], hd[c])
  <2>1. Mine(k)' = m
    BY <1>3, <1>8 DEF Mine
  <2> QED BY <2>1, <1>3, <1>5, <1>6, <1>16
<1> QED BY <1>k, <1>m, <1>0, <1>3, <1>6, <1>7, <1>8, <1>9, <1>11, <1>12, <1>13, <1>14, <1>15, <1>16, <1>17, BufStep DEF t

(* releasesleep: the wakeup is to come. *)
LEMMA UnlockedKeeps ==
  ASSUME NEW ph, NEW hd, NEW c \in Cpus, KTypes, Good(ph, hd), UnlockedStep(c)
  PROVE  Running'
<1>k. PICK k : k = Me(c)
  OBVIOUS
<1>m. PICK m : m = proc[k].buf
  OBVIOUS
<1> DEFINE o == Ops(c)[1]
           t == Tail(Ops(c))
<1>0. Thr(ph, hd) /\ At(c, "unlocked") /\ Ghosts(ph, hd) /\ CpuTypes /\ ProcTypes /\ BufTypes /\ BufInv(ph) /\ DataInv
  BY DEF KTypes, Good, UnlockedStep
<1>1. o[1] = "unlocked" /\ o[2] = Arg(c)
  BY <1>0 DEF At, Arg
<1>2. /\ IsSeq(t)
      /\ Pre(k, Mine(k), o, t, Held(c), Run(k), ph[k], hd[c])
      /\ Runs(k, Mine(k), t, PostH(o, Held(c)), PostR(o, Run(k)), PostF(o, ph[k]), PostG(o, hd[c]))
  BY <1>0, <1>k, Front
<1>3. k # 0 /\ Run(k) = "on" /\ ph[k] = "rel" /\ hd[c] = "no" /\ Arg(c) = Mine(k)
      /\ Has(t, <<"wakeup1", LkChan(Mine(k))>>)
  BY <1>1, <1>2 DEF Pre, Loose
<1>4. k \in Procs /\ Mine(k) = m /\ ProcOk(k, ph) /\ m \in Bufs /\ proc[k].state = "RUNNING"
  BY <1>3, <1>k, <1>m, ProcFacts
<1>5. Runs(k, m, t, Held(c), "on", "ref", "no")
  <2>1. PostH(o, Held(c)) = Held(c) /\ PostR(o, "on") = "on" /\ PostF(o, "rel") = "ref" /\ PostG(o, "no") = "no"
    BY <1>1 DEF PostH, PostR, PostF, PostG
  <2> QED BY <2>1, <1>2, <1>3, <1>4
<1>60. "ref" \in Phases
  BY DEF Phases
<1>61. PICK ph2 : Moved(ph, ph2, k, "ref")
  BY <1>60, <1>0, <1>4, NewPhase
<1>6. ph2[k] = "ref" /\ Moved(ph, ph2, k, ph2[k]) /\ ph2[k] \notin Dozing /\ ph2[k] # "none"
      /\ \A q \in Procs \ {k} : ph2[q] = ph[q]
  BY <1>61 DEF Moved, Dozing
<1>7. /\ buf' = [buf EXCEPT ![m].locked = FALSE, ![m].pid = 0] /\ proc' = [proc EXCEPT ![k].has = FALSE]
      /\ Then(c, <<>>) /\ UNCHANGED <<cpu, lock, ide, disk, fault>> /\ lru' = lru /\ latest' = latest
  <2>1. Arg(c) = m
    BY <1>3, <1>4
  <2> QED BY <2>1, <1>k DEF UnlockedStep, Rest, Advance
<1>8. /\ OnlyProc(k) /\ proc'[k].buf = m /\ ~proc'[k].has
  <2>1. proc[k] \in ProcRec /\ proc \in [Procs -> ProcRec]
    BY <1>0, <1>4 DEF ProcTypes
  <2> DEFINE y == [proc[k] EXCEPT !.has = FALSE]
  <2>2. y \in ProcRec /\ ~y.has /\ y.state = proc[k].state /\ y.buf = m
    BY <2>1, <1>m DEF ProcRec
  <2>3. proc' = [proc EXCEPT ![k] = y]
    BY <1>7
  <2> HIDE DEF y
  <2> QED BY <2>1, <2>2, <2>3, <1>4 DEF OnlyProc
<1>9. /\ OnlyBuf(m)
      /\ buf'[m].blockno = buf[m].blockno /\ buf'[m].refcnt = buf[m].refcnt /\ buf'[m].valid = buf[m].valid
      /\ buf'[m].dirty = buf[m].dirty /\ buf'[m].data = buf[m].data
  <2>1. buf[m] \in BufRec /\ buf \in [Bufs -> BufRec]
    BY <1>0, <1>4 DEF BufTypes
  <2> DEFINE y == [buf[m] EXCEPT !.locked = FALSE, !.pid = 0]
  <2>2. y \in BufRec
        /\ y.blockno = buf[m].blockno /\ y.refcnt = buf[m].refcnt /\ y.valid = buf[m].valid
        /\ y.dirty = buf[m].dirty /\ y.data = buf[m].data
    BY <2>1, <1>4 DEF BufRec
  <2>3. buf' = [buf EXCEPT ![m] = y]
    BY <1>7
  <2> HIDE DEF y
  <2> QED BY <2>1, <2>2, <2>3, <1>4 DEF OnlyBuf
<1>10. ~InQueue(m) /\ \A q \in Procs \ {k} : ph[q] \in Owning => proc[q].buf # m
  <2>1. ph[k] \in Owning \ {"io1", "io1D"} /\ proc[k].buf = m
    BY <1>3, <1>m DEF Owning
  <2> QED BY <1>4, <2>1, OneOwner
<1>11. OtherUse(k, m, ph) /\ QueueUse(m)
  BY <1>9, <1>10 DEF OtherUse, QueueUse
<1>12. ProcOk(k, ph2)'
  BY <1>3, <1>4, <1>6, <1>8, <1>9, <1>m DEF ProcOk, Owning
<1>13. BufOk(m, ph2)'
  <2>1. BufOk(m, ph) /\ Users(m, ph2)' = Users(m, ph)
    BY <1>0, <1>3, <1>4, <1>6, <1>8, <1>m, UsersSame DEF BufInv
  <2>2. ~InQueue(m)'
    BY <1>7, <1>10 DEF InQueue
  <2>3. Changer(m, ph2)' <=> Changer(m, ph)
    BY <1>3, <1>6, <1>8 DEF Changer, OnlyProc
  <2>4. disk' = disk
    BY <1>7
  <2> QED BY <2>1, <2>2, <2>3, <2>4, <1>9 DEF BufOk
<1>14. DataInv'
  <2>1. \A j \in Bufs : buf'[j].blockno = buf[j].blockno /\ buf'[j].valid = buf[j].valid /\ buf'[j].data = buf[j].data
    BY <1>9 DEF OnlyBuf
  <2>2. disk' = disk /\ latest' = latest
    BY <1>7
  <2> QED BY <2>1, <2>2, <1>0 DEF DataInv, OneCopy, Fresh, Kept
<1>15. LruOk' /\ latest' \in [Blocks -> Nat]
  BY <1>0, <1>7 DEF BufTypes, LruOk
<1>16. IsSeq(<<>>) /\ <<>> \o t = t
  BY <1>2, CatEmpty, EmptySeq
<1>17. Coming(LkChan(m))'
  <2>1. Become(c, t) /\ Cpus' = Cpus /\ Me(c)' = Me(c)
    BY <1>7, <1>16 DEF Then, Cpus, Me
  <2>2. Ops(c)' = t
    <3> HIDE DEF t
    <3> QED BY <2>1, <1>0, BecomeOps
  <2>3. todo'[k] = t
    BY <2>1, <2>2, <1>3, <1>k DEF Ops, Me
  <2>4. Has(todo'[k], <<"wakeup1", LkChan(m)>>)
    BY <2>3, <1>3, <1>4
  <2> QED BY <2>4, <1>4 DEF Coming, Has
<1> HIDE DEF t
<1>18. Runs(k, Mine(k)', <<>> \o t, Held(c), "on", ph2[k], hd[c])
  <2>1. Mine(k)' = m
    BY <1>3, <1>8 DEF Mine
  <2> QED BY <2>1, <1>3, <1>5, <1>6, <1>16
<1> QED BY <1>k, <1>m, <1>0, <1>3, <1>6, <1>7, <1>8, <1>9, <1>11, <1>12, <1>13, <1>14, <1>15, <1>16, <1>17, <1>18, BufStep DEF t

(* acquiresleep in both cases. *)
LEMMA LockedKeeps ==
  ASSUME NEW ph, NEW hd, NEW c \in Cpus, KTypes, Good(ph, hd), LockedStep(c)
  PROVE  Running'
BY LockedSleeps, LockedTakes

(* A process changes its block. *)
LEMMA PutKeeps ==
  ASSUME NEW ph, NEW hd, NEW c \in Cpus, KTypes, Good(ph, hd), PutStep(c)
  PROVE  Running'
<1>k. PICK k : k = Me(c)
  OBVIOUS
<1>m. PICK m : m = proc[k].buf
  OBVIOUS
<1>v. PICK v : v = Arg(c)
  OBVIOUS
<1>b. PICK b : b = buf[m].blockno
  OBVIOUS
<1> DEFINE o == Ops(c)[1]
           t == Tail(Ops(c))
<1>0. Thr(ph, hd) /\ At(c, "put") /\ Ghosts(ph, hd) /\ CpuTypes /\ ProcTypes /\ BufTypes /\ BufInv(ph) /\ DataInv
  BY DEF KTypes, Good, PutStep
<1>1. o[1] = "put" /\ o[2] = v
  BY <1>0, <1>v DEF At, Arg
<1>2. /\ IsSeq(t)
      /\ Pre(k, Mine(k), o, t, Held(c), Run(k), ph[k], hd[c])
      /\ Runs(k, Mine(k), t, PostH(o, Held(c)), PostR(o, Run(k)), PostF(o, ph[k]), PostG(o, hd[c]))
  BY <1>0, <1>k, Front
<1>3. k # 0 /\ Run(k) = "on" /\ ph[k] = "has" /\ hd[c] = "no" /\ v \in Nat
  BY <1>1, <1>2 DEF Pre, Loose
<1>4. k \in Procs /\ Mine(k) = m /\ ProcOk(k, ph) /\ m \in Bufs /\ proc[k].state = "RUNNING"
  BY <1>3, <1>k, <1>m, ProcFacts
<1>40. buf[m].valid /\ b \in Blocks /\ buf[m].blockno = b /\ buf[m].locked /\ buf[m].pid = k
  BY <1>0, <1>3, <1>4, <1>b, <1>m DEF ProcOk, Owning, BufTypes, BufRec
<1>5. Runs(k, m, t, Held(c), "on", "mod", "no")
  <2>1. PostH(o, Held(c)) = Held(c) /\ PostR(o, "on") = "on" /\ PostF(o, "has") = "mod" /\ PostG(o, "no") = "no"
    BY <1>1 DEF PostH, PostR, PostF, PostG
  <2> QED BY <2>1, <1>2, <1>3, <1>4
<1>60. "mod" \in Phases
  BY DEF Phases
<1>61. PICK ph2 : Moved(ph, ph2, k, "mod")
  BY <1>60, <1>0, <1>4, NewPhase
<1>6. ph2[k] = "mod" /\ Moved(ph, ph2, k, ph2[k]) /\ ph2[k] \notin Dozing /\ ph2[k] # "none"
      /\ \A q \in Procs \ {k} : ph2[q] = ph[q]
  BY <1>61 DEF Moved, Dozing
<1>7. /\ buf' = [buf EXCEPT ![m].data = v] /\ latest' = [latest EXCEPT ![b] = v]
      /\ Then(c, <<>>) /\ UNCHANGED <<cpu, lock, ide, disk, fault>> /\ lru' = lru /\ proc' = proc
  BY <1>k, <1>m, <1>v, <1>b DEF PutStep, Rest, Advance
<1>8. OnlyProc(k) /\ proc'[k].buf = m
  BY <1>0, <1>4, <1>7, <1>m DEF OnlyProc, ProcTypes
<1>9. /\ OnlyBuf(m) /\ buf'[m].data = v
      /\ buf'[m].blockno = buf[m].blockno /\ buf'[m].refcnt = buf[m].refcnt /\ buf'[m].valid = buf[m].valid
      /\ buf'[m].dirty = buf[m].dirty /\ buf'[m].locked = buf[m].locked /\ buf'[m].pid = buf[m].pid
  <2>1. buf[m] \in BufRec /\ buf \in [Bufs -> BufRec]
    BY <1>0, <1>4 DEF BufTypes
  <2> DEFINE y == [buf[m] EXCEPT !.data = v]
  <2>2. y \in BufRec /\ y.data = v
        /\ y.blockno = buf[m].blockno /\ y.refcnt = buf[m].refcnt /\ y.valid = buf[m].valid
        /\ y.dirty = buf[m].dirty /\ y.locked = buf[m].locked /\ y.pid = buf[m].pid
    BY <2>1, <1>3 DEF BufRec
  <2>3. buf' = [buf EXCEPT ![m] = y]
    BY <1>7
  <2> HIDE DEF y
  <2> QED BY <2>1, <2>2, <2>3, <1>4 DEF OnlyBuf
<1>10. ~InQueue(m) /\ \A q \in Procs \ {k} : ph[q] \in Owning => proc[q].buf # m
  <2>1. ph[k] \in Owning \ {"io1", "io1D"} /\ proc[k].buf = m
    BY <1>3, <1>m DEF Owning
  <2> QED BY <1>4, <2>1, OneOwner
<1>11. OtherUse(k, m, ph) /\ QueueUse(m)
  BY <1>9, <1>10 DEF OtherUse, QueueUse
<1>12. ProcOk(k, ph2)'
  BY <1>3, <1>4, <1>40, <1>6, <1>7, <1>8, <1>9, <1>m DEF ProcOk, Owning
<1>13. BufOk(m, ph2)'
  <2>1. BufOk(m, ph) /\ Users(m, ph2)' = Users(m, ph)
    BY <1>0, <1>3, <1>4, <1>6, <1>8, <1>m, UsersSame DEF BufInv
  <2>2. ~InQueue(m)'
    BY <1>7, <1>10 DEF InQueue
  <2>3. Changer(m, ph2)'
    BY <1>4, <1>6, <1>8 DEF Changer
  <2> QED BY <2>1, <2>2, <2>3, <1>9 DEF BufOk
<1>14. DataInv'
  <2>1. \A j \in Bufs : buf'[j].blockno = buf[j].blockno /\ buf'[j].valid = buf[j].valid
    BY <1>9 DEF OnlyBuf
  <2>2. disk' = disk /\ latest \in [Blocks -> Nat]
    BY <1>0, <1>7 DEF BufTypes
  <2>3. OneCopy'
    BY <2>1, <1>0 DEF DataInv, OneCopy
  <2>4. \A a \in Blocks \ {b} : latest'[a] = latest[a]
    BY <2>2, <1>7
  <2>5. latest'[b] = v
    BY <2>2, <1>7, <1>40
  <2>6. Fresh'
    <3> SUFFICES ASSUME NEW j \in Bufs, buf'[j].blockno # 0, buf'[j].valid
                 PROVE  buf'[j].data = latest'[buf'[j].blockno]
      BY DEF Fresh
    <3>1. CASE j = m
      BY <3>1, <2>5, <1>9, <1>40
    <3>2. CASE j # m
      <4>1. buf'[j] = buf[j] /\ buf[j].blockno # b
        BY <3>2, <1>9, <1>40, <1>0 DEF OnlyBuf, DataInv, OneCopy
      <4>2. buf[j].blockno \in Blocks /\ buf[j].data = latest[buf[j].blockno]
        BY <4>1, <1>0 DEF BufTypes, BufRec, DataInv, Fresh
      <4> QED BY <4>1, <4>2, <2>4
    <3> QED BY <3>1, <3>2
  <2>7. Kept'
    <3> SUFFICES ASSUME NEW a \in Blocks, latest'[a] # disk'[a]
                 PROVE  \E j \in Bufs : buf'[j].blockno = a /\ buf'[j].valid
      BY DEF Kept
    <3>1. CASE a = b
      BY <3>1, <2>1, <1>4, <1>40
    <3>2. CASE a # b
      <4>1. latest[a] # disk[a]
        BY <3>2, <2>2, <2>4
      <4> QED BY <4>1, <2>1, <1>0 DEF DataInv, Kept
    <3> QED BY <3>1, <3>2
  <2> QED BY <2>3, <2>6, <2>7 DEF DataInv
<1>15. LruOk' /\ latest' \in [Blocks -> Nat]
  BY <1>0, <1>3, <1>7 DEF BufTypes, LruOk
<1>16. IsSeq(<<>>) /\ <<>> \o t = t
  BY <1>2, CatEmpty, EmptySeq
<1> HIDE DEF t
<1>17. Runs(k, Mine(k)', <<>> \o t, Held(c), "on", ph2[k], hd[c])
  <2>1. Mine(k)' = m
    BY <1>3, <1>8 DEF Mine
  <2> QED BY <2>1, <1>3, <1>5, <1>6, <1>16
<1>18. buf[m].locked => buf'[m].locked \/ Coming(LkChan(m))'
  BY <1>9
<1> QED BY <1>k, <1>m, <1>0, <1>3, <1>6, <1>7, <1>8, <1>9, <1>11, <1>12, <1>13, <1>14, <1>15, <1>16, <1>17, <1>18, BufStep DEF t

(* bwrite, and log_write. *)
LEMMA DirtyKeeps ==
  ASSUME NEW ph, NEW hd, NEW c \in Cpus, KTypes, Good(ph, hd), DirtyStep(c)
  PROVE  Running'
<1>k. PICK k : k = Me(c)
  OBVIOUS
<1>m. PICK m : m = proc[k].buf
  OBVIOUS
<1>n. PICK n : n \in {"bwrite", "log_write"} /\ At(c, n)
  BY DEF DirtyStep
<1> DEFINE o == Ops(c)[1]
           t == Tail(Ops(c))
           s == IF n = "bwrite" THEN iderw(m) ELSE <<>>
<1>0. Thr(ph, hd) /\ Ghosts(ph, hd) /\ CpuTypes /\ ProcTypes /\ BufTypes /\ BufInv(ph) /\ DataInv
  BY DEF KTypes, Good
<1>1. o[1] = n /\ n # "spin" /\ n # "scan" /\ n # "wakeup1"
  BY <1>n DEF At
<1>2. /\ IsSeq(t)
      /\ Pre(k, Mine(k), o, t, Held(c), Run(k), ph[k], hd[c])
      /\ Runs(k, Mine(k), t, PostH(o, Held(c)), PostR(o, Run(k)), PostF(o, ph[k]), PostG(o, hd[c]))
  BY <1>0, <1>1, <1>n, <1>k, Front
<1>3. k # 0 /\ Run(k) = "on" /\ ph[k] \in {"has", "mod"} /\ hd[c] = "no" /\ Held(c) = {}
  BY <1>1, <1>2, <1>n DEF Pre, Loose
<1>4. k \in Procs /\ Mine(k) = m /\ ProcOk(k, ph) /\ m \in Bufs /\ proc[k].state = "RUNNING"
  BY <1>3, <1>k, <1>m, ProcFacts
<1>40. buf[m].valid /\ buf[m].blockno # 0 /\ buf[m].locked /\ buf[m].pid = k /\ proc[k].has
  BY <1>3, <1>4, <1>m DEF ProcOk, Owning
<1>5. Runs(k, m, t, {}, "on", "has", "no")
  <2>1. PostH(o, {}) = {} /\ PostR(o, "on") = "on" /\ PostF(o, ph[k]) = "has" /\ PostG(o, "no") = "no"
    BY <1>1, <1>n DEF PostH, PostR, PostF, PostG
  <2> QED BY <2>1, <1>2, <1>3, <1>4
<1>60. PICK f : f = IF n = "bwrite" THEN "io" ELSE "has"
  OBVIOUS
<1>62. f \in Phases
  BY <1>60 DEF Phases
<1>61. PICK ph2 : Moved(ph, ph2, k, f)
  BY <1>62, <1>0, <1>4, NewPhase
<1>6. ph2[k] = f /\ Moved(ph, ph2, k, ph2[k]) /\ ph2[k] \notin Dozing /\ ph2[k] # "none"
      /\ (\A q \in Procs \ {k} : ph2[q] = ph[q]) /\ ph2[k] \in {"io", "has"}
  BY <1>60, <1>61 DEF Moved, Dozing
<1>7. /\ buf' = [buf EXCEPT ![m].dirty = TRUE] /\ latest' = latest
      /\ Then(c, s) /\ UNCHANGED <<cpu, lock, ide, disk, fault>> /\ lru' = lru /\ proc' = proc
  <2>1. holdingsleep(m, k)
    BY <1>40 DEF holdingsleep
  <2>2. At(c, "bwrite") <=> n = "bwrite"
    BY <1>n DEF At
  <2> QED BY <2>1, <2>2, <1>k, <1>m DEF DirtyStep, Rest
<1>8. OnlyProc(k) /\ proc'[k].buf = m
  BY <1>0, <1>4, <1>7, <1>m DEF OnlyProc, ProcTypes
<1>9. /\ OnlyBuf(m) /\ buf'[m].dirty
      /\ buf'[m].blockno = buf[m].blockno /\ buf'[m].refcnt = buf[m].refcnt /\ buf'[m].valid = buf[m].valid
      /\ buf'[m].data = buf[m].data /\ buf'[m].locked = buf[m].locked /\ buf'[m].pid = buf[m].pid
  <2>1. buf[m] \in BufRec /\ buf \in [Bufs -> BufRec]
    BY <1>0, <1>4 DEF BufTypes
  <2> DEFINE y == [buf[m] EXCEPT !.dirty = TRUE]
  <2>2. y \in BufRec /\ y.dirty
        /\ y.blockno = buf[m].blockno /\ y.refcnt = buf[m].refcnt /\ y.valid = buf[m].valid
        /\ y.data = buf[m].data /\ y.locked = buf[m].locked /\ y.pid = buf[m].pid
    BY <2>1, <1>3 DEF BufRec
  <2>3. buf' = [buf EXCEPT ![m] = y]
    BY <1>7
  <2> HIDE DEF y
  <2> QED BY <2>1, <2>2, <2>3, <1>4 DEF OnlyBuf
<1>10. ~InQueue(m) /\ \A q \in Procs \ {k} : ph[q] \in Owning => proc[q].buf # m
  <2>1. ph[k] \in Owning \ {"io1", "io1D"} /\ proc[k].buf = m
    BY <1>3, <1>m DEF Owning
  <2> QED BY <1>4, <2>1, OneOwner
<1>11. OtherUse(k, m, ph) /\ QueueUse(m)
  BY <1>9, <1>10 DEF OtherUse, QueueUse
<1>12. ProcOk(k, ph2)'
  BY <1>3, <1>4, <1>40, <1>6, <1>7, <1>8, <1>9, <1>m DEF ProcOk, Owning, Undone
<1>13. BufOk(m, ph2)'
  <2>1. BufOk(m, ph) /\ Users(m, ph2)' = Users(m, ph)
    BY <1>0, <1>3, <1>4, <1>6, <1>8, <1>m, UsersSame DEF BufInv
  <2>2. ~InQueue(m)'
    BY <1>7, <1>10 DEF InQueue
  <2> QED BY <2>1, <2>2, <1>9, <1>40 DEF BufOk
<1>14. DataInv'
  <2>1. \A j \in Bufs : buf'[j].blockno = buf[j].blockno /\ buf'[j].valid = buf[j].valid /\ buf'[j].data = buf[j].data
    BY <1>9 DEF OnlyBuf
  <2>2. disk' = disk /\ latest' = latest
    BY <1>7
  <2> QED BY <2>1, <2>2, <1>0 DEF DataInv, OneCopy, Fresh, Kept
<1>15. LruOk' /\ latest' \in [Blocks -> Nat]
  BY <1>0, <1>7 DEF BufTypes, LruOk
<1> HIDE DEF t
<1>16. IsSeq(s) /\ Runs(k, m, s \o t, {}, "on", ph2[k], "no")
  <2>1. IsSeq(iderw(m))
    BY EmptySeq, Unfold5 DEF iderw
  <2>2. CASE n # "bwrite"
    <3>1. s = <<>> /\ s \o t = t /\ ph2[k] = "has"
      BY <2>2, <1>2, <1>6, <1>60, CatEmpty
    <3> QED BY <3>1, <1>5, EmptySeq
  <2>3. CASE n = "bwrite"
    <3>1. s = iderw(m) /\ ph2[k] = "io"
      BY <2>3, <1>6, <1>60
    <3>2. Runs(k, m, iderw(m) \o t, {}, "on", "io", "no")
      BY <1>3, <1>4, <1>5, IderwRuns
    <3> QED BY <3>1, <3>2, <2>1
  <2> QED BY <2>2, <2>3
<1> HIDE DEF s
<1>17. Runs(k, Mine(k)', s \o t, Held(c), "on", ph2[k], hd[c])
  <2>1. Mine(k)' = m
    BY <1>3, <1>8 DEF Mine
  <2> QED BY <2>1, <1>3, <1>16
<1>18. buf[m].locked => buf'[m].locked \/ Coming(LkChan(m))'
  BY <1>9
<1> QED BY <1>n, <1>1, <1>k, <1>m, <1>0, <1>3, <1>6, <1>7, <1>8, <1>9, <1>11, <1>12, <1>13, <1>14, <1>15, <1>16, <1>17, <1>18, BufStep DEF t

(* The end of brelse. *)
LEMMA MovedUpOk ==
  ASSUME LruOk, NEW i \in Bufs
  PROVE  MovedUp(i) \in [Bufs -> Bufs] /\ \A a \in Bufs : \E j \in Bufs : MovedUp(i)[j] = a
<1> DEFINE x == CHOOSE x \in Bufs : lru[x] = i
           g == MovedUp(i)
<1>0. NBUF \in Nat \ {0} /\ lru \in [Bufs -> Bufs]
  BY KernelAssumption DEF LruOk
<1>1. x \in Bufs /\ lru[x] = i
  BY DEF LruOk
<1>2. g = [j \in Bufs |-> IF j = 1 THEN i ELSE IF j <= x THEN lru[j - 1] ELSE lru[j]]
  BY DEF MovedUp
<1> HIDE DEF x, g
<1>3. g \in [Bufs -> Bufs]
  <2>1. ASSUME NEW j \in Bufs, j # 1, j <= x PROVE lru[j - 1] \in Bufs
    <3>1. j - 1 \in Bufs
      BY <2>1, <1>0 DEF Bufs
    <3> QED BY <3>1, <1>0
  <2>2. \A j \in Bufs : (IF j = 1 THEN i ELSE IF j <= x THEN lru[j - 1] ELSE lru[j]) \in Bufs
    BY <2>1, <1>0
  <2> QED BY <2>2, <1>2
<1>4. ASSUME NEW a \in Bufs PROVE \E j \in Bufs : g[j] = a
  <2>1. PICK j \in Bufs : lru[j] = a
    BY DEF LruOk
  <2>2. CASE j = x
    BY <2>1, <2>2, <1>0, <1>1, <1>2 DEF Bufs
  <2>3. CASE j < x
    <3>1. j + 1 \in Bufs /\ g[j + 1] = a
      BY <2>1, <2>3, <1>0, <1>1, <1>2 DEF Bufs
    <3> QED BY <3>1
  <2>4. CASE j > x
    BY <2>1, <2>4, <1>0, <1>1, <1>2 DEF Bufs
  <2> QED BY <2>2, <2>3, <2>4, <1>0, <1>1 DEF Bufs
<1> QED BY <1>3, <1>4 DEF g

(* A buffer has at most as many users as there are processes. *)
LEMMA UsersFinite ==
  ASSUME NEW ph, NEW i
  PROVE  /\ IsFiniteSet(Users(i, ph)) /\ Cardinality(Users(i, ph)) \in 0..Len(Script)
         /\ Cardinality(Users(i, ph)) = 0 => Users(i, ph) = {}
<1>1. Len(Script) \in Nat
  BY KernelAssumption
<1>2. IsFiniteSet(Procs) /\ Cardinality(Procs) = Len(Script)
  <2>1. /\ IsFiniteSet(1..Len(Script))
        /\ Cardinality(1..Len(Script)) = IF 1 > Len(Script) THEN 0 ELSE Len(Script) - 1 + 1
    BY <1>1, FS_Interval
  <2> QED BY <2>1, <1>1 DEF Procs
<1>3. Users(i, ph) \subseteq Procs
  BY DEF Users
<1>4. IsFiniteSet(Users(i, ph)) /\ Cardinality(Users(i, ph)) <= Len(Script)
  BY <1>2, <1>3, FS_Subset
<1>5. Cardinality(Users(i, ph)) \in Nat /\ (Cardinality(Users(i, ph)) = 0 => Users(i, ph) = {})
  BY <1>4, FS_CardinalityType, FS_EmptySet
<1> QED BY <1>1, <1>4, <1>5

(* brelse gives its reference back. *)
LEMMA UnrefKeeps ==
  ASSUME NEW ph, NEW hd, NEW c \in Cpus, KTypes, Good(ph, hd), UnrefStep(c)
  PROVE  Running'
<1>k. PICK k : k = Me(c)
  OBVIOUS
<1>m. PICK m : m = proc[k].buf
  OBVIOUS
<1> DEFINE o == Ops(c)[1]
           t == Tail(Ops(c))
<1>0. Thr(ph, hd) /\ At(c, "unref") /\ Ghosts(ph, hd) /\ CpuTypes /\ ProcTypes /\ BufTypes /\ BufInv(ph) /\ DataInv
  BY DEF KTypes, Good, UnrefStep
<1>1. o[1] = "unref" /\ o[2] = Arg(c)
  BY <1>0 DEF At, Arg
<1>2. /\ IsSeq(t)
      /\ Pre(k, Mine(k), o, t, Held(c), Run(k), ph[k], hd[c])
      /\ Runs(k, Mine(k), t, PostH(o, Held(c)), PostR(o, Run(k)), PostF(o, ph[k]), PostG(o, hd[c]))
  BY <1>0, <1>k, Front
<1>3. k # 0 /\ Run(k) = "on" /\ ph[k] = "ref" /\ hd[c] = "no" /\ Arg(c) = Mine(k)
  BY <1>1, <1>2 DEF Pre, Loose
<1>4. k \in Procs /\ Mine(k) = m /\ ProcOk(k, ph) /\ m \in Bufs /\ proc[k].state = "RUNNING"
  BY <1>3, <1>k, <1>m, ProcFacts
<1>5. Runs(k, m, t, Held(c), "on", "none", "no")
  <2>1. PostH(o, Held(c)) = Held(c) /\ PostR(o, "on") = "on" /\ PostF(o, "ref") = "none" /\ PostG(o, "no") = "no"
    BY <1>1 DEF PostH, PostR, PostF, PostG
  <2> QED BY <2>1, <1>2, <1>3, <1>4
<1>60. "none" \in Phases
  BY DEF Phases
<1>61. PICK ph2 : Moved(ph, ph2, k, "none")
  BY <1>60, <1>0, <1>4, NewPhase
<1>6. ph2[k] = "none" /\ Moved(ph, ph2, k, ph2[k]) /\ ph2[k] \notin Dozing
      /\ \A q \in Procs \ {k} : ph2[q] = ph[q]
  BY <1>61 DEF Moved, Dozing
<1>7. /\ buf' = [buf EXCEPT ![m].refcnt = @ - 1] /\ lru' \in {MovedUp(m), lru}
      /\ Then(c, <<>>) /\ UNCHANGED <<cpu, lock, ide, disk, fault>> /\ latest' = latest /\ proc' = proc
  <2>1. Arg(c) = m
    BY <1>3, <1>4
  <2> QED BY <2>1, <1>k DEF UnrefStep, Rest, Advance
<1>8. OnlyProc(k) /\ proc'[k].buf = m
  BY <1>0, <1>4, <1>7, <1>m DEF OnlyProc, ProcTypes
<1>90. /\ IsFiniteSet(Users(m, ph)) /\ k \in Users(m, ph) /\ Users(m, ph2)' = Users(m, ph) \ {k}
       /\ Cardinality(Users(m, ph) \ {k}) = Cardinality(Users(m, ph)) - 1
       /\ Cardinality(Users(m, ph) \ {k}) \in Nat
  <2>1. IsFiniteSet(Users(m, ph)) /\ k \in Users(m, ph)
    BY <1>3, <1>4, <1>m, UsersFinite DEF Users
  <2>2. Users(m, ph2)' = Users(m, ph) \ {k}
    BY <1>6, <1>7 DEF Users
  <2>3. IsFiniteSet(Users(m, ph) \ {k}) /\ Cardinality(Users(m, ph) \ {k}) = Cardinality(Users(m, ph)) - 1
    BY <2>1, FS_RemoveElement
  <2> QED BY <2>1, <2>2, <2>3, FS_CardinalityType
<1>91. BufOk(m, ph) /\ buf[m].refcnt - 1 \in Nat
  BY <1>0, <1>4, <1>90 DEF BufInv, BufOk
<1>9. /\ OnlyBuf(m)
      /\ buf'[m].blockno = buf[m].blockno /\ buf'[m].refcnt = buf[m].refcnt - 1 /\ buf'[m].valid = buf[m].valid
      /\ buf'[m].dirty = buf[m].dirty /\ buf'[m].data = buf[m].data
      /\ buf'[m].locked = buf[m].locked /\ buf'[m].pid = buf[m].pid
  <2>1. buf[m] \in BufRec /\ buf \in [Bufs -> BufRec]
    BY <1>0, <1>4 DEF BufTypes
  <2> DEFINE y == [buf[m] EXCEPT !.refcnt = @ - 1]
  <2>2. y \in BufRec
        /\ y.blockno = buf[m].blockno /\ y.refcnt = buf[m].refcnt - 1 /\ y.valid = buf[m].valid
        /\ y.dirty = buf[m].dirty /\ y.data = buf[m].data
        /\ y.locked = buf[m].locked /\ y.pid = buf[m].pid
    BY <2>1, <1>4, <1>91 DEF BufRec
  <2>3. buf' = [buf EXCEPT ![m] = y]
    BY <1>7
  <2> HIDE DEF y
  <2> QED BY <2>1, <2>2, <2>3, <1>4 DEF OnlyBuf
<1>11. OtherUse(k, m, ph) /\ QueueUse(m)
  BY <1>9 DEF OtherUse, QueueUse
<1>12. ProcOk(k, ph2)'
  BY <1>3, <1>4, <1>6, <1>7, <1>8, <1>9, <1>m DEF ProcOk, Owning
<1>13. BufOk(m, ph2)'
  <2>1. (Waiter(m, ph2)' <=> Waiter(m, ph)) /\ (Changer(m, ph2)' <=> Changer(m, ph))
    BY <1>3, <1>6, <1>7 DEF Waiter, Changer
  <2>2. (InQueue(m)' <=> InQueue(m)) /\ (Undone(m)' <=> Undone(m)) /\ disk' = disk
    BY <1>7, <1>9 DEF InQueue, Undone
  <2>3. buf'[m].refcnt = Cardinality(Users(m, ph2)')
    BY <1>9, <1>90, <1>91 DEF BufOk
  <2> QED BY <2>1, <2>2, <2>3, <1>9, <1>91 DEF BufOk
<1>14. DataInv'
  <2>1. \A j \in Bufs : buf'[j].blockno = buf[j].blockno /\ buf'[j].valid = buf[j].valid /\ buf'[j].data = buf[j].data
    BY <1>9 DEF OnlyBuf
  <2>2. disk' = disk /\ latest' = latest
    BY <1>7
  <2> QED BY <2>1, <2>2, <1>0 DEF DataInv, OneCopy, Fresh, Kept
<1>15. LruOk' /\ latest' \in [Blocks -> Nat]
  <2>1. LruOk
    BY <1>0 DEF BufTypes, LruOk
  <2>2. MovedUp(m) \in [Bufs -> Bufs] /\ \A a \in Bufs : \E j \in Bufs : MovedUp(m)[j] = a
    BY <2>1, <1>4, MovedUpOk
  <2> QED BY <2>1, <2>2, <1>0, <1>7 DEF BufTypes, LruOk
<1>16. IsSeq(<<>>) /\ <<>> \o t = t
  BY <1>2, CatEmpty, EmptySeq
<1> HIDE DEF t
<1>17. Runs(k, Mine(k)', <<>> \o t, Held(c), "on", ph2[k], hd[c])
  <2>1. Mine(k)' = m
    BY <1>3, <1>8 DEF Mine
  <2> QED BY <2>1, <1>3, <1>5, <1>6, <1>16
<1>18. buf[m].locked => buf'[m].locked \/ Coming(LkChan(m))'
  BY <1>9
<1> QED BY <1>k, <1>m, <1>0, <1>3, <1>6, <1>7, <1>8, <1>9, <1>11, <1>12, <1>13, <1>14, <1>15, <1>16, <1>17, <1>18, BufStep DEF t

(* bget: the buffer it takes has the block, or nobody uses it. *)
LEMMA VictimIs ==
  ASSUME BufTypes, NEW b, NEW i, i = Victim(b), i # 0
  PROVE  /\ i \in Bufs
         /\ buf[i].blockno # b => /\ buf[i].refcnt = 0 /\ ~buf[i].dirty
                                  /\ \A j \in Bufs : buf[j].blockno # b
<1> DEFINE hit == {j \in Bufs : buf[lru[j]].blockno = b}
           free == {j \in Bufs : buf[lru[j]].refcnt = 0 /\ ~buf[lru[j]].dirty}
<1>0. NBUF \in Nat /\ lru \in [Bufs -> Bufs]
  BY KernelAssumption DEF BufTypes
<1>1. i = IF hit # {} THEN lru[Min(hit)] ELSE IF free = {} THEN 0 ELSE lru[Max(free)]
  BY DEF Victim
<1>2. CASE hit # {}
  <2>1. hit \subseteq Nat
    BY <1>0 DEF Bufs
  <2>2. Min(hit) \in hit
    <3> HIDE DEF hit
    <3> QED BY <2>1, <1>2, MinIn
  <2>3. PICK j : j = Min(hit)
    OBVIOUS
  <2>4. j \in Bufs /\ buf[lru[j]].blockno = b /\ i = lru[j]
    BY <2>2, <2>3, <1>1, <1>2
  <2> QED BY <2>4, <1>0
<1>3. CASE hit = {}
  <2>1. free \subseteq 1..NBUF /\ free # {}
    BY <1>1, <1>3 DEF Bufs
  <2>2. Max(free) \in free
    <3> HIDE DEF free
    <3> QED BY <2>1, <1>0, MaxIn
  <2>3. PICK j : j = Max(free)
    OBVIOUS
  <2>4. j \in Bufs /\ buf[lru[j]].refcnt = 0 /\ ~buf[lru[j]].dirty /\ i = lru[j]
    <3>1. j \in free
      BY <2>2, <2>3
    <3>2. i = lru[j]
      BY <2>1, <2>3, <1>1, <1>3
    <3> QED BY <3>1, <3>2
  <2>5. ASSUME NEW a \in Bufs PROVE buf[a].blockno # b
    <3>1. PICK x \in Bufs : lru[x] = a
      BY DEF BufTypes
    <3> QED BY <3>1, <1>3
  <2> QED BY <2>4, <2>5, <1>0
<1> QED BY <1>2, <1>3

(* bget takes a buffer, or panics if there is none. *)
LEMMA BgetKeeps ==
  ASSUME NEW ph, NEW hd, NEW c \in Cpus, KTypes, Good(ph, hd), BgetStep(c)
  PROVE  Running' \/ fault' = "bget: no buffers"
<1>k. PICK k : k = Me(c)
  OBVIOUS
<1>b. PICK b : b = Arg(c)
  OBVIOUS
<1>i. PICK i : i = Victim(b)
  OBVIOUS
<1> SUFFICES ASSUME i # 0 PROVE Running'
  BY <1>b, <1>i DEF BgetStep, panic
<1> DEFINE o == Ops(c)[1]
           t == Tail(Ops(c))
           s == <<Release(bcache)>> \o acquiresleep(i)
<1>0. Thr(ph, hd) /\ At(c, "bget") /\ Ghosts(ph, hd) /\ CpuTypes /\ ProcTypes /\ BufTypes /\ BufInv(ph) /\ DataInv
  BY DEF KTypes, Good, BgetStep
<1>1. o[1] = "bget" /\ o[2] = b
  BY <1>0, <1>b DEF At, Arg
<1>2. /\ IsSeq(t)
      /\ Pre(k, Mine(k), o, t, Held(c), Run(k), ph[k], hd[c])
      /\ Runs(k, Mine(k), t, PostH(o, Held(c)), PostR(o, Run(k)), PostF(o, ph[k]), PostG(o, hd[c]))
  BY <1>0, <1>k, Front
<1>3. k # 0 /\ Run(k) = "on" /\ ph[k] = "none" /\ hd[c] = "no" /\ b \in Blocks /\ Held(c) = {bcache}
  BY <1>1, <1>2 DEF Pre, Loose
<1>31. b # 0
  BY <1>3, KernelAssumption DEF Blocks
<1>4. k \in Procs /\ ProcOk(k, ph) /\ proc[k].state = "RUNNING" /\ ~proc[k].has
  <2>1. k \in Procs
    BY <1>0, <1>3, <1>k, CpuFacts
  <2>2. ProcOk(k, ph)
    BY <2>1 DEF Good, ProcInv
  <2> QED BY <2>1, <2>2, <1>3 DEF ProcOk, Owning, Run
<1>40. /\ i \in Bufs
       /\ buf[i].blockno # b => /\ buf[i].refcnt = 0 /\ ~buf[i].dirty
                                /\ \A j \in Bufs : buf[j].blockno # b
  BY <1>0, <1>i, VictimIs
<1>5. Runs(k, i, t, {}, "on", "got", "no")
  <2>1. PostH(o, Held(c)) = {} /\ PostR(o, "on") = "on" /\ PostF(o, "none") = "got" /\ PostG(o, "no") = "no"
    BY <1>1 DEF PostH, PostR, PostF, PostG
  <2>2. Runs(k, Mine(k), t, {}, "on", "got", "no") /\ "got" \in Static
    BY <2>1, <1>2, <1>3 DEF Static
  <2> HIDE DEF t
  <2> QED BY <2>2, Rebind
<1>60. "claim" \in Phases
  BY DEF Phases
<1>61. PICK ph2 : Moved(ph, ph2, k, "claim")
  BY <1>60, <1>0, <1>4, NewPhase
<1>6. ph2[k] = "claim" /\ Moved(ph, ph2, k, ph2[k]) /\ ph2[k] \notin Dozing /\ ph2[k] # "none"
      /\ \A q \in Procs \ {k} : ph2[q] = ph[q]
  BY <1>61 DEF Moved, Dozing
<1>7. /\ buf' = [buf EXCEPT ![i] =
                   IF buf[i].blockno = b THEN [buf[i] EXCEPT !.refcnt = @ + 1]
                   ELSE [buf[i] EXCEPT !.blockno = b, !.valid = FALSE, !.dirty = FALSE, !.refcnt = 1]]
      /\ proc' = [proc EXCEPT ![k].buf = i]
      /\ Then(c, s) /\ UNCHANGED <<cpu, lock, ide, disk, fault>> /\ lru' = lru /\ latest' = latest
  BY <1>b, <1>i, <1>k DEF BgetStep, Rest
<1>8. OnlyProc(k) /\ proc'[k].buf = i /\ ~proc'[k].has
  <2>1. proc[k] \in ProcRec /\ proc \in [Procs -> ProcRec]
    BY <1>0, <1>4 DEF ProcTypes
  <2> DEFINE y == [proc[k] EXCEPT !.buf = i]
  <2>2. y \in ProcRec /\ y.has = proc[k].has /\ y.state = proc[k].state /\ y.buf = i
    BY <2>1, <1>40 DEF ProcRec
  <2>3. proc' = [proc EXCEPT ![k] = y]
    BY <1>7
  <2> HIDE DEF y
  <2> QED BY <2>1, <2>2, <2>3, <1>4 DEF OnlyProc
<1>9. /\ OnlyBuf(i) /\ buf'[i].blockno = b /\ buf'[i].refcnt = buf[i].refcnt + 1
      /\ buf'[i].locked = buf[i].locked /\ buf'[i].pid = buf[i].pid
      /\ buf[i].blockno = b => buf'[i].valid = buf[i].valid /\ buf'[i].dirty = buf[i].dirty /\ buf'[i].data = buf[i].data
      /\ buf[i].blockno # b => ~buf'[i].valid /\ ~buf'[i].dirty
  <2>1. buf[i] \in BufRec /\ buf \in [Bufs -> BufRec]
    BY <1>0, <1>40 DEF BufTypes
  <2> DEFINE y == IF buf[i].blockno = b THEN [buf[i] EXCEPT !.refcnt = @ + 1]
                  ELSE [buf[i] EXCEPT !.blockno = b, !.valid = FALSE, !.dirty = FALSE, !.refcnt = 1]
  <2>2. /\ y \in BufRec /\ y.blockno = b /\ y.refcnt = buf[i].refcnt + 1
        /\ y.locked = buf[i].locked /\ y.pid = buf[i].pid
        /\ buf[i].blockno = b => y.valid = buf[i].valid /\ y.dirty = buf[i].dirty /\ y.data = buf[i].data
        /\ buf[i].blockno # b => ~y.valid /\ ~y.dirty
    <3>1. CASE buf[i].blockno = b
      BY <3>1, <2>1 DEF BufRec
    <3>2. CASE buf[i].blockno # b
      <4> DEFINE z == [buf[i] EXCEPT !.blockno = b, !.valid = FALSE, !.dirty = FALSE, !.refcnt = 1]
      <4>1. y = z /\ buf[i].refcnt = 0
        BY <3>2, <1>40
      <4>2. z \in BufRec
        BY <2>1, <1>3 DEF BufRec
      <4>3. z.blockno = b /\ z.refcnt = 1 /\ z.locked = buf[i].locked /\ z.pid = buf[i].pid /\ ~z.valid /\ ~z.dirty
        BY <2>1 DEF BufRec
      <4> HIDE DEF y, z
      <4> QED BY <3>2, <4>1, <4>2, <4>3
    <3> QED BY <3>1, <3>2
  <2>3. buf' = [buf EXCEPT ![i] = y]
    BY <1>7
  <2> HIDE DEF y
  <2> QED BY <2>1, <2>2, <2>3, <1>40 DEF OnlyBuf
<1>90. BufOk(i, ph) /\ buf[i].refcnt = Cardinality(Users(i, ph)) /\ k \notin Users(i, ph)
  BY <1>0, <1>3, <1>40 DEF BufInv, BufOk, Users
<1>91. buf[i].blockno # b => Users(i, ph) = {}
  BY <1>40, <1>90, UsersFinite
<1>92. buf[i].blockno # b => ~InQueue(i) /\ ~Changer(i, ph)
  BY <1>90, <1>91 DEF BufOk, Waiter, Changer, Users
<1>93. Users(i, ph2)' = Users(i, ph) \cup {k} /\ Cardinality(Users(i, ph) \cup {k}) = buf[i].refcnt + 1
  <2>1. Users(i, ph2)' = Users(i, ph) \cup {k}
    BY <1>4, <1>6, <1>8 DEF Users, OnlyProc
  <2>2. IsFiniteSet(Users(i, ph))
    BY UsersFinite
  <2> QED BY <2>1, <2>2, <1>90, FS_AddElement
<1>11. OtherUse(k, i, ph) /\ QueueUse(i)
  <2>1. CASE buf[i].blockno = b
    BY <2>1, <1>9 DEF OtherUse, QueueUse
  <2>2. CASE buf[i].blockno # b
    BY <2>2, <1>91, <1>92 DEF OtherUse, QueueUse, Users
  <2> QED BY <2>1, <2>2
<1>12. ProcOk(k, ph2)'
  BY <1>31, <1>40, <1>6, <1>8, <1>9 DEF ProcOk, Owning
<1>13. BufOk(i, ph2)'
  <2>1. buf'[i].refcnt = Cardinality(Users(i, ph2)')
    BY <1>9, <1>93
  <2>2. (InQueue(i)' <=> InQueue(i)) /\ disk' = disk
    BY <1>7 DEF InQueue
  <2>3. CASE buf[i].blockno = b
    <3>1. (Waiter(i, ph2)' <=> Waiter(i, ph)) /\ (Changer(i, ph2)' <=> Changer(i, ph))
      BY <1>3, <1>6, <1>8 DEF Waiter, Changer, OnlyProc
    <3>2. Undone(i)' <=> Undone(i)
      BY <2>3, <1>9 DEF Undone
    <3> QED BY <2>1, <2>2, <2>3, <3>1, <3>2, <1>9, <1>90 DEF BufOk
  <2>4. CASE buf[i].blockno # b
    BY <2>1, <2>2, <2>4, <1>9, <1>92 DEF BufOk
  <2> QED BY <2>3, <2>4
<1>14. DataInv'
  <2>1. \A j \in Bufs \ {i} : buf'[j] = buf[j]
    BY <1>9 DEF OnlyBuf
  <2>2. disk' = disk /\ latest' = latest
    BY <1>7
  <2>3. CASE buf[i].blockno = b
    <3>1. \A j \in Bufs : buf'[j].blockno = buf[j].blockno /\ buf'[j].valid = buf[j].valid /\ buf'[j].data = buf[j].data
      BY <2>1, <2>3, <1>9
    <3> QED BY <3>1, <2>2, <1>0 DEF DataInv, OneCopy, Fresh, Kept
  <2>4. CASE buf[i].blockno # b
    <3>1. OneCopy'
      BY <2>1, <2>4, <1>0, <1>9, <1>40 DEF DataInv, OneCopy
    <3>2. Fresh'
      BY <2>1, <2>2, <2>4, <1>0, <1>9 DEF DataInv, Fresh
    <3>3. Kept'
      <4> SUFFICES ASSUME NEW a \in Blocks, latest'[a] # disk'[a]
                   PROVE  \E j \in Bufs : buf'[j].blockno = a /\ buf'[j].valid
        BY DEF Kept
      <4>1. PICK j \in Bufs : buf[j].blockno = a /\ buf[j].valid
        BY <2>2, <1>0 DEF DataInv, Kept
      <4>2. a # 0
        BY KernelAssumption DEF Blocks
      <4>3. j # i
        <5>1. ASSUME j = i PROVE FALSE
          <6>1. buf[i].data = disk[a]
            BY <5>1, <4>1, <4>2, <2>4, <1>40, <1>90, <1>92 DEF BufOk
          <6>2. buf[i].data = latest[a]
            BY <5>1, <4>1, <4>2, <1>0 DEF DataInv, Fresh
          <6> QED BY <6>1, <6>2, <2>2
        <5> QED BY <5>1
      <4> QED BY <4>1, <4>3, <2>1
    <3> QED BY <3>1, <3>2, <3>3 DEF DataInv
  <2> QED BY <2>3, <2>4
<1>15. LruOk' /\ latest' \in [Blocks -> Nat]
  BY <1>0, <1>7 DEF BufTypes, LruOk
<1> HIDE DEF t
<1>16. IsSeq(s) /\ Runs(k, i, s \o t, {bcache}, "on", "claim", "no")
  <2>1. Runs(k, i, s \o t, {bcache}, "on", "claim", "no")
    BY <1>3, <1>5, <1>40, ClaimRuns
  <2>2. IsSeq(<<Release(bcache)>>) /\ IsSeq(acquiresleep(i))
    BY EmptySeq, Unfold3, OneSeq DEF acquiresleep
  <2> QED BY <2>1, <2>2, CatSeq
<1> HIDE DEF s
<1>17. Runs(k, Mine(k)', s \o t, Held(c), "on", ph2[k], hd[c])
  <2>1. Mine(k)' = i
    BY <1>3, <1>8 DEF Mine
  <2> QED BY <2>1, <1>3, <1>6, <1>16
<1>18. buf[i].locked => buf'[i].locked \/ Coming(LkChan(i))'
  BY <1>9
<1> QED BY <1>k, <1>0, <1>3, <1>6, <1>7, <1>8, <1>9, <1>11, <1>12, <1>13, <1>14, <1>15, <1>16, <1>17, <1>18, BufStep DEF t

(* A step of the disk driver: the queue and perhaps a buffer change. *)
Busied(hd, hd2, c, g) ==
  /\ hd2 \in [Cpus -> Duties] /\ hd2[c] = g
  /\ \A d \in Cpus \ {c} : hd2[d] = hd[d]

(* There is such a choice of duties. *)
LEMMA NewDuty ==
  ASSUME NEW ph, NEW hd, Ghosts(ph, hd), NEW c \in Cpus, NEW g \in Duties
  PROVE  \E hd2 : Busied(hd, hd2, c, g)
<1> DEFINE x == [hd EXCEPT ![c] = g]
<1>1. x \in [Cpus -> Duties] /\ x[c] = g /\ \A d \in Cpus \ {c} : x[d] = hd[d]
  BY DEF Ghosts
<1> HIDE DEF x
<1>2. Busied(hd, x, c, g)
  BY <1>1 DEF Busied
<1> QED BY <1>2

(* Such a step keeps the invariant. *)
LEMMA IdeStep ==
  ASSUME NEW ph, NEW hd, NEW ph2, NEW hd2, NEW c \in Cpus, NEW s, NEW n, NEW k,
         k = Me(c), KTypes, Good(ph, hd), At(c, n), n # "spin", n # "scan", n # "wakeup1",
         Ghosts(ph2, hd2), Busied(hd, hd2, c, hd2[c]), hd[c] = "no" => hd2[c] = "no",
         \A q \in Procs \ {k} : ph2[q] = ph[q],
         k \in Procs => ph2[k] = ph[k] \/ SleepOk(k, ph2)',
         UNCHANGED <<cpu, lock, proc, fault>>,
         IsSeq(s), Then(c, s), Runs(k, Mine(k), s \o Tail(Ops(c)), Held(c), Run(k), ph2[k], hd2[c]),
         \A i \in Bufs : buf[i].locked => buf'[i].locked,
         \A i \in Bufs : InQueue(i) => InQueue(i)' \/ Coming(IoChan(i))',
         ProcInv(ph2)', BufInv(ph2)', QueueInv(hd2)', DataInv', BufTypes'
  PROVE  Running'
<1> DEFINE u == s \o Tail(Ops(c))
<1>0. CpuTypes /\ ProcTypes /\ BufTypes /\ Thr(ph, hd) /\ CpuInv(hd) /\ fault = "none" /\ Ghosts(ph, hd)
      /\ SleepInv(ph) /\ ProcInv(ph)
  BY DEF KTypes, Good, At
<1>1. Cpus' = Cpus /\ Me(c)' = k /\ proc' = proc
  BY DEF Cpus, Me
<1>2. Become(c, u)
  BY DEF Then
<1>4. Plainly(c, ph, hd, ph2, hd2)
  BY <1>0 DEF Plainly, Ghosts, Busied
<1>5. Thr(ph2, hd2)' /\ CpuInv(hd2)' /\ CpuTypes' /\ (todo' = [p \in Procs |-> todo'[p]])
  <2>1. Runs(Me(c), Mine(Me(c))', u, Held(c), Run(Me(c))', ph2[Me(c)], hd2[c])
    BY <1>1 DEF Mine, Run
  <2> HIDE DEF u
  <2> QED BY <2>1, <1>0, <1>2, <1>4, PlainStep
<1>6. ProcTypes'
  BY <1>0, <1>1, <1>5 DEF ProcTypes
<1>7. \A ch : Coming(ch) => Coming(ch)'
  BY <1>0, <1>1, ThenComing
<1>8. SleepInv(ph2)'
  <2>1. \A j \in Bufs : buf[j].locked => buf'[j].locked \/ Coming(LkChan(j))'
    OBVIOUS
  <2>2. \A q \in Procs : \/ SleepOk(q, ph2)'
                          \/ /\ ph2[q] = ph[q] /\ proc'[q].buf = proc[q].buf /\ proc'[q].chan = proc[q].chan
                             /\ proc'[q].state = "SLEEPING" => proc[q].state = "SLEEPING"
    BY <1>1
  <2> QED BY <2>1, <2>2, <1>0, <1>7, SleepKeep
<1>9. Ghosts(ph2, hd2)'
  BY <1>1 DEF Ghosts
<1>10. Good(ph2, hd2)'
  BY <1>5, <1>8, <1>9 DEF Good
<1>11. KTypes' /\ fault' = "none"
  BY <1>0, <1>5, <1>6 DEF KTypes
<1> QED BY <1>10, <1>11 DEF Running

(* The handler that is about to start the disk holds idelock. *)
LEMMA JobHolds ==
  ASSUME NEW ph, NEW hd, Thr(ph, hd), NEW c \in Cpus, hd[c] = "job"
  PROVE  lock[idelock] = c
<1>1. Sound(Mine(Me(c)), Held(c), Run(Me(c)), ph[Me(c)], hd[c])
  BY OffHeld
<1> QED BY <1>1 DEF Sound, Held

(* iderw puts the buffer into the queue. *)
LEMMA EnqueueKeeps ==
  ASSUME NEW ph, NEW hd, NEW c \in Cpus, KTypes, Good(ph, hd), EnqueueStep(c)
  PROVE  Running'
<1>k. PICK k : k = Me(c)
  OBVIOUS
<1>m. PICK m : m = proc[k].buf
  OBVIOUS
<1> DEFINE o == Ops(c)[1]
           t == Tail(Ops(c))
<1>0. Thr(ph, hd) /\ At(c, "enqueue") /\ Ghosts(ph, hd) /\ CpuTypes /\ ProcTypes /\ BufTypes /\ BufInv(ph) /\ DataInv
      /\ ProcInv(ph) /\ QueueInv(hd)
  BY DEF KTypes, Good, EnqueueStep
<1>1. o[1] = "enqueue" /\ o[2] = Arg(c)
  BY <1>0 DEF At, Arg
<1>2. /\ IsSeq(t)
      /\ Pre(k, Mine(k), o, t, Held(c), Run(k), ph[k], hd[c])
      /\ Runs(k, Mine(k), t, PostH(o, Held(c)), PostR(o, Run(k)), PostF(o, ph[k]), PostG(o, hd[c]))
  BY <1>0, <1>k, Front
<1>3. k # 0 /\ Run(k) = "on" /\ ph[k] = "io0" /\ hd[c] = "no" /\ Arg(c) = Mine(k) /\ Held(c) = {idelock}
  BY <1>1, <1>2 DEF Pre, Loose
<1>4. k \in Procs /\ Mine(k) = m /\ ProcOk(k, ph) /\ m \in Bufs /\ proc[k].state = "RUNNING"
  BY <1>3, <1>k, <1>m, ProcFacts
<1>40. buf[m].blockno # 0 /\ buf[m].locked /\ buf[m].pid = k /\ proc[k].has /\ Undone(m)
  BY <1>3, <1>4, <1>m DEF ProcOk, Owning
<1>5. Runs(k, m, t, Held(c), "on", "io1", "no")
  <2>1. PostH(o, Held(c)) = Held(c) /\ PostR(o, "on") = "on" /\ PostF(o, "io0") = "io1" /\ PostG(o, "no") = "no"
    BY <1>1 DEF PostH, PostR, PostF, PostG
  <2> QED BY <2>1, <1>2, <1>3, <1>4
<1>60. "io1" \in Phases
  BY DEF Phases
<1>61. PICK ph2 : Moved(ph, ph2, k, "io1")
  BY <1>60, <1>0, <1>4, NewPhase
<1>6. ph2[k] = "io1" /\ Ghosts(ph2, hd) /\ \A q \in Procs \ {k} : ph2[q] = ph[q]
  BY <1>0, <1>61 DEF Moved, Ghosts
<1> DEFINE q == ide.queue
           x == [ide EXCEPT !.queue = Append(@, m)]
<1>7. /\ ide' = IF q = <<>> THEN idestart(x, m) ELSE x
      /\ Then(c, <<>>) /\ UNCHANGED <<cpu, lock, proc, fault>>
      /\ buf' = buf /\ disk' = disk /\ lru' = lru /\ latest' = latest
  <2>1. Arg(c) = m
    BY <1>3, <1>4
  <2> QED BY <2>1 DEF EnqueueStep, Rest, Advance
<1>70. ide \in IdeRec /\ q \in Seq(Bufs) /\ buf[m].data \in Nat
  BY <1>0, <1>4 DEF BufTypes, IdeRec, BufRec
<1>8. /\ ide' \in IdeRec /\ ide'.queue = Append(q, m) /\ ide'.irq = ide.irq
      /\ q = <<>> => ide'.job = m /\ ide'.out = buf[m].data
      /\ q # <<>> => ide'.job = ide.job /\ ide'.out = ide.out
  <2>0. Append(q, m) \in Seq(Bufs)
    BY <1>70, <1>4
  <2>1. x \in IdeRec /\ x.queue = Append(q, m) /\ x.irq = ide.irq /\ x.job = ide.job /\ x.out = ide.out
    BY <2>0, <1>70 DEF IdeRec
  <2> HIDE DEF x, q
  <2>2. LET y == [x EXCEPT !.job = m, !.out = buf[m].data]
        IN  y \in IdeRec /\ y.queue = x.queue /\ y.irq = x.irq /\ y.job = m /\ y.out = buf[m].data
    BY <2>1, <1>70, <1>4 DEF IdeRec
  <2> QED BY <2>1, <2>2, <1>7 DEF idestart
<1> HIDE DEF x
<1>9. ~InQueue(m) /\ \A p \in Procs \ {k} : ph[p] \in Owning => proc[p].buf # m
  <2>1. ph[k] \in Owning \ {"io1", "io1D"} /\ proc[k].buf = m
    BY <1>3, <1>m DEF Owning
  <2> QED BY <1>4, <2>1, OneOwner
<1>90. /\ Len(q) \in Nat /\ DOMAIN q = 1..Len(q) /\ DOMAIN Append(q, m) = 1..Len(q) + 1
       /\ (\A j \in 1..Len(q) : Append(q, m)[j] = q[j] /\ q[j] # m) /\ Append(q, m)[Len(q) + 1] = m
       /\ (q # <<>> => 1 \in 1..Len(q)) /\ (q = <<>> => Len(q) = 0)
  <2>1. Len(q) \in Nat /\ DOMAIN q = 1..Len(q) /\ DOMAIN Append(q, m) = 1..Len(q) + 1
        /\ (\A j \in 1..Len(q) : Append(q, m)[j] = q[j]) /\ Append(q, m)[Len(q) + 1] = m
        /\ (q # <<>> => 1 \in 1..Len(q)) /\ (q = <<>> => Len(q) = 0)
    <3> HIDE DEF q
    <3> QED BY <1>70, <1>4
  <2>2. \A j \in 1..Len(q) : q[j] # m
    BY <2>1, <1>9 DEF InQueue
  <2> QED BY <2>1, <2>2
<1>91. \A i : InQueue(i)' <=> InQueue(i) \/ i = m
  <2> SUFFICES ASSUME NEW i PROVE InQueue(i)' <=> InQueue(i) \/ i = m
    OBVIOUS
  <2>1. InQueue(i)' <=> \E j \in 1..Len(q) + 1 : Append(q, m)[j] = i
    BY <1>8, <1>90 DEF InQueue
  <2>2. InQueue(i) <=> \E j \in 1..Len(q) : q[j] = i
    BY <1>90 DEF InQueue
  <2> HIDE DEF q
  <2>3. \A j \in 1..Len(q) + 1 : j \in 1..Len(q) \/ j = Len(q) + 1
    BY <1>90
  <2>4. Len(q) + 1 \in 1..Len(q) + 1 /\ \A j \in 1..Len(q) : j \in 1..Len(q) + 1
    BY <1>90
  <2> QED BY <2>1, <2>2, <2>3, <2>4, <1>90
<1>10. ProcInv(ph2)'
  <2> SUFFICES ASSUME NEW p \in Procs PROVE ProcOk(p, ph2)'
    BY DEF ProcInv
  <2>1. ProcOk(p, ph) /\ proc' = proc
    BY <1>0, <1>7 DEF ProcInv
  <2>2. \A i : Undone(i)' <=> Undone(i)
    BY <1>7 DEF Undone
  <2>3. CASE p = k
    BY <2>1, <2>2, <2>3, <1>m, <1>4, <1>40, <1>6, <1>7, <1>91 DEF ProcOk, Owning
  <2>4. CASE p # k
    BY <2>1, <2>2, <2>4, <1>6, <1>7, <1>91 DEF ProcOk
  <2> QED BY <2>3, <2>4
<1>11. BufInv(ph2)'
  <2> SUFFICES ASSUME NEW i \in Bufs PROVE BufOk(i, ph2)'
    BY DEF BufInv
  <2>1. BufOk(i, ph) /\ proc' = proc
    BY <1>0, <1>7 DEF BufInv
  <2>2. Undone(i)' <=> Undone(i)
    BY <1>7 DEF Undone
  <2>3. Users(i, ph2)' = Users(i, ph) /\ (Changer(i, ph2)' <=> Changer(i, ph))
    BY <2>1, <1>3, <1>6 DEF Users, Changer
  <2>4. Waiter(i, ph) \/ i = m => Waiter(i, ph2)'
    BY <2>1, <1>3, <1>4, <1>6, <1>m DEF Waiter
  <2> QED BY <2>1, <2>2, <2>3, <2>4, <1>7, <1>40, <1>91 DEF BufOk
<1>12. DataInv' /\ BufTypes'
  BY <1>0, <1>7, <1>8 DEF DataInv, OneCopy, Fresh, Kept, BufTypes
<1>13. QueueInv(hd)'
  <2>0. Cpus' = Cpus /\ lock' = lock
    BY <1>7 DEF Cpus
  <2>1. \A i, j \in DOMAIN ide'.queue : i # j => ide'.queue[i] # ide'.queue[j]
    <3>1. \A i, j \in 1..Len(q) : i # j => q[i] # q[j]
      BY <1>0, <1>90 DEF QueueInv
    <3> HIDE DEF q
    <3>2. \A j \in 1..Len(q) + 1 : j \in 1..Len(q) \/ j = Len(q) + 1
      BY <1>90
    <3> QED BY <3>1, <3>2, <1>8, <1>90
  <2>2. ide'.queue # <<>>
    <3>1. 1 \in DOMAIN Append(q, m)
      <4> HIDE DEF q
      <4> QED BY <1>90
    <3> QED BY <3>1, <1>8
  <2>3. CASE q = <<>>
    <3>1. ide'.queue[1] = m /\ ~ide.irq /\ m # 0 /\ ide'.irq = ide.irq
      <4>1. ide'.queue[1] = m
        <5> HIDE DEF q
        <5> QED BY <2>3, <1>8, <1>90
      <4> QED BY <4>1, <2>3, <1>0, <1>4, <1>8, KernelAssumption DEF QueueInv, Bufs
    <3>2. \A d \in Cpus : hd[d] = "no"
      <4> SUFFICES ASSUME NEW d \in Cpus, hd[d] # "no" PROVE FALSE
        OBVIOUS
      <4>1. hd[d] = "job"
        BY <2>3, <1>0 DEF QueueInv, Ghosts, Duties
      <4>2. lock[idelock] = d
        BY <4>1, <1>0, JobHolds
      <4>3. lock[idelock] = c
        BY <1>3 DEF Held
      <4> QED BY <4>1, <4>2, <4>3, <1>3
    <3> QED BY <2>0, <2>1, <2>2, <2>3, <3>1, <3>2, <1>7, <1>8 DEF QueueInv
  <2>4. CASE q # <<>>
    <3>1. ide'.queue[1] = ide.queue[1]
      <4>1. Append(q, m)[1] = q[1]
        <5> HIDE DEF q
        <5> QED BY <2>4, <1>90
      <4> QED BY <4>1, <1>8
    <3>2. ide'.job = ide.job /\ ide'.out = ide.out /\ ide'.irq = ide.irq
      BY <2>4, <1>8
    <3> QED BY <2>0, <2>1, <2>2, <2>4, <3>1, <3>2, <1>0, <1>7 DEF QueueInv
  <2> QED BY <2>3, <2>4
<1>14. IsSeq(<<>>) /\ <<>> \o t = t
  BY <1>2, CatEmpty, EmptySeq
<1> HIDE DEF t
<1>15. Runs(k, Mine(k), <<>> \o t, Held(c), Run(k), ph2[k], hd[c])
  BY <1>3, <1>4, <1>5, <1>6, <1>14
<1>16. SleepOk(k, ph2)'
  BY <1>4, <1>6, <1>7 DEF SleepOk
<1>17. Busied(hd, hd, c, hd[c])
  BY <1>0 DEF Busied, Ghosts
<1>18. \A i \in Bufs : (buf[i].locked => buf'[i].locked) /\ (InQueue(i) => InQueue(i)' \/ Coming(IoChan(i))')
  BY <1>7, <1>91
<1> QED BY <1>k, <1>0, <1>6, <1>7, <1>10, <1>11, <1>12, <1>13, <1>14, <1>15, <1>16, <1>17, <1>18, IdeStep DEF t

(* Nothing but ide changes, and the queue is the same. *)
LEMMA SameQueue ==
  ASSUME NEW ph, ProcInv(ph), BufInv(ph), DataInv, BufTypes,
         proc' = proc, buf' = buf, disk' = disk, lru' = lru, latest' = latest,
         ide' \in IdeRec, ide'.queue = ide.queue
  PROVE  ProcInv(ph)' /\ BufInv(ph)' /\ DataInv' /\ BufTypes' /\ \A i : InQueue(i)' <=> InQueue(i)
<1>1. \A i : (InQueue(i)' <=> InQueue(i)) /\ (Undone(i)' <=> Undone(i))
  BY DEF InQueue, Undone
<1>2. ProcInv(ph)'
  BY <1>1 DEF ProcInv, ProcOk
<1>3. \A i : Users(i, ph)' = Users(i, ph) /\ (Waiter(i, ph)' <=> Waiter(i, ph)) /\ (Changer(i, ph)' <=> Changer(i, ph))
  BY DEF Users, Waiter, Changer
<1>4. BufInv(ph)'
  BY <1>1, <1>3 DEF BufInv, BufOk
<1>5. DataInv' /\ BufTypes'
  BY DEF DataInv, OneCopy, Fresh, Kept, BufTypes
<1> QED BY <1>1, <1>2, <1>4, <1>5

(* The handler gives the disk its next job. *)
LEMMA NextJobKeeps ==
  ASSUME NEW ph, NEW hd, NEW c \in Cpus, KTypes, Good(ph, hd), NextJobStep(c)
  PROVE  Running'
<1>k. PICK k : k = Me(c)
  OBVIOUS
<1> DEFINE o == Ops(c)[1]
           t == Tail(Ops(c))
<1>0. Thr(ph, hd) /\ At(c, "nextjob") /\ Ghosts(ph, hd) /\ CpuTypes /\ ProcTypes /\ BufTypes /\ BufInv(ph) /\ DataInv
      /\ ProcInv(ph) /\ QueueInv(hd)
  BY DEF KTypes, Good, NextJobStep
<1>1. o[1] = "nextjob"
  BY <1>0 DEF At
<1>2. /\ IsSeq(t)
      /\ Pre(k, Mine(k), o, t, Held(c), Run(k), ph[k], hd[c])
      /\ Runs(k, Mine(k), t, PostH(o, Held(c)), PostR(o, Run(k)), PostF(o, ph[k]), PostG(o, hd[c]))
  BY <1>0, <1>k, Front
<1>3. hd[c] = "job"
  BY <1>1, <1>2 DEF Pre
<1>5. Runs(k, Mine(k), t, Held(c), Run(k), ph[k], "no")
  <2>1. PostH(o, Held(c)) = Held(c) /\ PostR(o, Run(k)) = Run(k) /\ PostF(o, ph[k]) = ph[k] /\ PostG(o, hd[c]) = "no"
    BY <1>1 DEF PostH, PostR, PostF, PostG
  <2> QED BY <2>1, <1>2
<1>60. "no" \in Duties
  BY DEF Duties
<1>61. PICK hd2 : Busied(hd, hd2, c, "no")
  BY <1>60, <1>0, NewDuty
<1>6. hd2[c] = "no" /\ Busied(hd, hd2, c, hd2[c]) /\ Ghosts(ph, hd2) /\ \A d \in Cpus \ {c} : hd2[d] = hd[d]
  BY <1>61, <1>0 DEF Busied, Ghosts
<1> DEFINE q == ide.queue
<1>7. /\ ide' = IF q # <<>> THEN idestart(ide, Head(q)) ELSE ide
      /\ Then(c, <<>>) /\ UNCHANGED <<cpu, lock, proc, fault>>
      /\ buf' = buf /\ disk' = disk /\ lru' = lru /\ latest' = latest
  BY DEF NextJobStep, Rest, Advance
<1>70. ide \in IdeRec /\ q \in Seq(Bufs) /\ 0 \notin Bufs
  BY <1>0, KernelAssumption DEF BufTypes, IdeRec, Bufs
<1>71. q # <<>> => Head(q) = q[1] /\ q[1] \in Bufs
  BY <1>70
<1>8. /\ ide' \in IdeRec /\ ide'.queue = q /\ ide'.irq = ide.irq
      /\ q # <<>> => ide'.job = q[1] /\ ide'.out = buf[q[1]].data
      /\ q = <<>> => ide'.job = ide.job
  <2>1. CASE q = <<>>
    BY <2>1, <1>7, <1>70
  <2>2. CASE q # <<>>
    <3>1. q[1] \in Bufs /\ buf[q[1]].data \in Nat
      BY <2>2, <1>0, <1>71 DEF BufTypes, BufRec
    <3>2. ide' = [ide EXCEPT !.job = q[1], !.out = buf[q[1]].data]
      BY <2>2, <1>7, <1>71 DEF idestart
    <3> QED BY <2>2, <3>1, <3>2, <1>70 DEF IdeRec
  <2> QED BY <2>1, <2>2
<1>9. ProcInv(ph)' /\ BufInv(ph)' /\ DataInv' /\ BufTypes' /\ \A i : InQueue(i)' <=> InQueue(i)
  BY <1>0, <1>7, <1>8, SameQueue
<1>10. QueueInv(hd2)'
  <2>0. Cpus' = Cpus
    BY <1>7 DEF Cpus
  <2>1. \A d \in Cpus : hd2[d] = "no"
    BY <1>0, <1>3, <1>6 DEF QueueInv
  <2>2. ide.job = 0 /\ ~ide.irq
    BY <1>0, <1>3 DEF QueueInv
  <2>3. q # <<>> => q[1] # 0
    BY <1>70, <1>71
  <2> HIDE DEF q
  <2>4. \A i, j \in DOMAIN q : i # j => q[i] # q[j]
    BY <1>0 DEF QueueInv, q
  <2> QED BY <2>0, <2>1, <2>2, <2>3, <2>4, <1>7, <1>8 DEF QueueInv
<1>14. IsSeq(<<>>) /\ <<>> \o t = t
  BY <1>2, CatEmpty, EmptySeq
<1> HIDE DEF t
<1>15. Runs(k, Mine(k), <<>> \o t, Held(c), Run(k), ph[k], hd2[c])
  BY <1>5, <1>6, <1>14
<1>18. \A i \in Bufs : (buf[i].locked => buf'[i].locked) /\ (InQueue(i) => InQueue(i)' \/ Coming(IoChan(i))')
  BY <1>7, <1>9
<1> QED BY <1>k, <1>0, <1>6, <1>7, <1>9, <1>10, <1>14, <1>15, <1>18, IdeStep DEF t

(* A buffer in the queue belongs to one process, which waits for it. *)
LEMMA QueuedOwner ==
  ASSUME NEW ph, NEW i \in Bufs, BufTypes, ProcInv(ph), BufInv(ph), InQueue(i)
  PROVE  /\ Undone(i) /\ buf[i].blockno \in Blocks /\ buf[i].blockno # 0
         /\ \A p \in Procs : ph[p] \in Owning /\ proc[p].buf = i => ph[p] \in {"io1", "io1D"}
<1>1. Undone(i) /\ Waiter(i, ph)
  BY DEF BufInv, BufOk
<1>2. PICK w \in Procs : ph[w] \in {"io1", "io1D"} /\ proc[w].buf = i
  BY <1>1 DEF Waiter
<1>3. ProcOk(w, ph) /\ ph[w] \in Owning /\ ph[w] # "none"
  BY <1>2 DEF ProcInv, Owning
<1>4. buf[i].blockno # 0 /\ buf[i].pid = w
  BY <1>2, <1>3 DEF ProcOk
<1>5. buf[i].blockno \in Blocks
  BY <1>4 DEF BufTypes, BufRec
<1>6. ASSUME NEW p \in Procs, ph[p] \in Owning, proc[p].buf = i PROVE ph[p] \in {"io1", "io1D"}
  <2>1. buf[i].pid = p
    BY <1>6 DEF ProcInv, ProcOk
  <2> QED BY <2>1, <1>2, <1>4
<1> QED BY <1>1, <1>4, <1>5, <1>6

(* The disk has done its job. *)
LEMMA DiskKeeps ==
  ASSUME NEW ph, NEW hd, KTypes, Good(ph, hd), DiskStep
  PROVE  Running'
<1>i. PICK i : i = ide.job
  OBVIOUS
<1>b. PICK b : b = buf[i].blockno
  OBVIOUS
<1>0. Thr(ph, hd) /\ CpuInv(hd) /\ Ghosts(ph, hd) /\ CpuTypes /\ ProcTypes /\ BufTypes /\ BufInv(ph) /\ DataInv
      /\ ProcInv(ph) /\ QueueInv(hd) /\ SleepInv(ph)
  BY DEF KTypes, Good
<1>1. /\ fault = "none" /\ i # 0 /\ disk' = (IF buf[i].dirty THEN [disk EXCEPT ![b] = ide.out] ELSE disk)
      /\ ide' = [ide EXCEPT !.job = 0, !.irq = TRUE]
      /\ cpu' = cpu /\ lock' = lock /\ proc' = proc /\ todo' = todo /\ idle' = idle /\ buf' = buf
      /\ lru' = lru /\ latest' = latest /\ fault' = fault
  BY <1>i, <1>b DEF DiskStep, Rest
<1>2. /\ ide.queue # <<>> /\ i = ide.queue[1] /\ ide.out = buf[i].data /\ ~ide.irq
      /\ \A c \in Cpus : hd[c] = "no"
  BY <1>0, <1>1, <1>i DEF QueueInv
<1>3. ide \in IdeRec /\ ide.queue \in Seq(Bufs) /\ disk \in [Blocks -> Nat] /\ ide.out \in Nat
  BY <1>0 DEF BufTypes, IdeRec
<1>4. i \in Bufs /\ InQueue(i)
  <2>1. 1 \in DOMAIN ide.queue /\ ide.queue[1] \in Bufs
    BY <1>2, <1>3
  <2> QED BY <2>1, <1>2 DEF InQueue
<1>5. Undone(i) /\ b \in Blocks /\ b # 0
  BY <1>0, <1>4, <1>b, QueuedOwner
<1>6. ide' \in IdeRec /\ ide'.queue = ide.queue /\ ide'.job = 0 /\ ide'.irq
  BY <1>1, <1>3 DEF IdeRec
<1>7. /\ disk' \in [Blocks -> Nat] /\ (\A a \in Blocks \ {b} : disk'[a] = disk[a])
      /\ (buf[i].dirty => disk'[b] = buf[i].data) /\ (~buf[i].dirty => disk' = disk)
  BY <1>1, <1>2, <1>3, <1>5
<1>8. \A j : (InQueue(j)' <=> InQueue(j)) /\ (Undone(j)' <=> Undone(j))
  BY <1>1, <1>6 DEF InQueue, Undone
<1>9. Cpus' = Cpus /\ CpuTypes' /\ ProcTypes' /\ BufTypes' /\ Ghosts(ph, hd)'
  BY <1>0, <1>1, <1>6, <1>7 DEF Cpus, CpuTypes, ProcTypes, BufTypes, Ghosts
<1>10. Thr(ph, hd)' /\ CpuInv(hd)'
  <2>1. /\ \A c : Me(c)' = Me(c) /\ Ops(c)' = Ops(c) /\ Held(c)' = Held(c)
        /\ \A p : Mine(p)' = Mine(p) /\ Run(p)' = Run(p)
    BY <1>1 DEF Me, Ops, Held, Mine, Run
  <2>2. \A c \in Cpus : OnCpu(c, ph, hd)'
    <3> SUFFICES ASSUME NEW c \in Cpus PROVE OnCpu(c, ph, hd)'
      OBVIOUS
    <3>1. OnCpu(c, ph, hd)
      BY <1>0 DEF Thr
    <3> QED BY <3>1, <1>1 DEF OnCpu, Me, Ops, Held, Mine, Run
  <2>3. \A p \in Procs : Parked(p, ph) => Parked(p, ph)'
    BY <1>1 DEF Parked, Mine
  <2>4. Thr(ph, hd)'
    BY <2>1, <2>2, <2>3, <1>0, <1>1, <1>9 DEF Thr
  <2>5. CpuInv(hd)'
    BY <2>1, <1>0, <1>1, <1>9 DEF CpuInv, CpuOk, Apart
  <2> QED BY <2>4, <2>5
<1>11. SleepInv(ph)'
  <2>1. \A ch : Coming(ch) => Coming(ch)'
    BY <1>1, <1>9 DEF Coming
  <2> QED BY <2>1, <1>0, <1>1, <1>8, SleepKeep
<1>12. ProcInv(ph)'
  BY <1>0, <1>1, <1>8 DEF ProcInv, ProcOk
<1>13. BufInv(ph)'
  <2> SUFFICES ASSUME NEW j \in Bufs PROVE BufOk(j, ph)'
    BY DEF BufInv
  <2>1. BufOk(j, ph)
    BY <1>0 DEF BufInv
  <2>2. Users(j, ph)' = Users(j, ph) /\ (Waiter(j, ph)' <=> Waiter(j, ph)) /\ (Changer(j, ph)' <=> Changer(j, ph))
    BY <1>1 DEF Users, Waiter, Changer
  <2>3. buf[j].blockno # 0 /\ ~buf[j].dirty => disk'[buf[j].blockno] = disk[buf[j].blockno]
    <3>1. CASE j = i
      BY <3>1, <1>7
    <3>2. CASE j # i
      <4>1. buf[j].blockno # b /\ buf[j].blockno \in Blocks \cup {0}
        BY <3>2, <1>0, <1>4, <1>5, <1>b DEF DataInv, OneCopy, BufTypes, BufRec
      <4> QED BY <4>1, <1>7
    <3> QED BY <3>1, <3>2
  <2> QED BY <2>1, <2>2, <2>3, <1>1, <1>8 DEF BufOk
<1>14. DataInv'
  <2>1. OneCopy' /\ Fresh'
    BY <1>0, <1>1 DEF DataInv, OneCopy, Fresh
  <2>2. Kept'
    <3> SUFFICES ASSUME NEW a \in Blocks, latest'[a] # disk'[a]
                 PROVE  \E j \in Bufs : buf'[j].blockno = a /\ buf'[j].valid
      BY DEF Kept
    <3>1. CASE a = b /\ buf[i].dirty
      <4>1. buf[i].valid
        BY <3>1, <1>0, <1>4 DEF BufInv, BufOk
      <4> QED BY <4>1, <3>1, <1>1, <1>4, <1>b
    <3>2. CASE ~(a = b /\ buf[i].dirty)
      <4>1. latest[a] # disk[a]
        BY <3>2, <1>1, <1>7
      <4> QED BY <4>1, <1>0, <1>1 DEF DataInv, Kept
    <3> QED BY <3>1, <3>2
  <2> QED BY <2>1, <2>2 DEF DataInv
<1>15. QueueInv(hd)'
  BY <1>0, <1>1, <1>2, <1>6, <1>7, <1>9, <1>b DEF QueueInv
<1>16. Good(ph, hd)'
  BY <1>9, <1>10, <1>11, <1>12, <1>13, <1>14, <1>15 DEF Good
<1> QED BY <1>1, <1>9, <1>16 DEF Running, KTypes

(* What the first of two sequences contains. *)
LEMMA HasCatLeft ==
  ASSUME NEW s, NEW t, IsSeq(s), IsSeq(t), NEW x, Has(s, x)
  PROVE  Has(s \o t, x)
<1>1. PICK S : s \in Seq(S)
  BY DEF IsSeq
<1>2. PICK T : t \in Seq(T)
  BY DEF IsSeq
<1>3. PICK j \in DOMAIN s : s[j] = x
  BY DEF Has
<1>4. j \in DOMAIN (s \o t) /\ (s \o t)[j] = x
  BY <1>1, <1>2, <1>3
<1> QED BY <1>4 DEF Has

(* ideintr: the first request is done, and its process is woken. *)
LEMMA IdeintrKeeps ==
  ASSUME NEW ph, NEW hd, NEW c \in Cpus, KTypes, Good(ph, hd), IdeintrStep(c)
  PROVE  Running'
<1>k. PICK k : k = Me(c)
  OBVIOUS
<1>i. PICK i : i = Head(ide.queue)
  OBVIOUS
<1>b. PICK b : b = buf[i].blockno
  OBVIOUS
<1> DEFINE o == Ops(c)[1]
           t == Tail(Ops(c))
           s == Wakeup(IoChan(i)) \o <<<<"nextjob", "">>, Release(idelock)>>
           q == ide.queue
<1>0. Thr(ph, hd) /\ At(c, "ideintr") /\ Ghosts(ph, hd) /\ CpuTypes /\ ProcTypes /\ BufTypes /\ BufInv(ph) /\ DataInv
      /\ ProcInv(ph) /\ QueueInv(hd)
  BY DEF KTypes, Good, IdeintrStep
<1>1. o[1] = "ideintr"
  BY <1>0 DEF At
<1>2. /\ IsSeq(t)
      /\ Pre(k, Mine(k), o, t, Held(c), Run(k), ph[k], hd[c])
      /\ Runs(k, Mine(k), t, PostH(o, Held(c)), PostR(o, Run(k)), PostF(o, ph[k]), PostG(o, hd[c]))
  BY <1>0, <1>k, Front
<1>3. hd[c] = "intr" /\ Run(k) = "on" /\ ph[k] \notin Dozing /\ Held(c) = {idelock}
  BY <1>1, <1>2 DEF Pre
<1>5. Runs(k, Mine(k), t, {}, "on", ph[k], "no")
  <2>1. PostH(o, Held(c)) = {} /\ PostR(o, "on") = "on" /\ PostF(o, ph[k]) = ph[k] /\ PostG(o, hd[c]) = "no"
    BY <1>1 DEF PostH, PostR, PostF, PostG
  <2> QED BY <2>1, <1>2, <1>3
<1>60. "job" \in Duties
  BY DEF Duties
<1>61. PICK hd2 : Busied(hd, hd2, c, "job")
  BY <1>60, <1>0, NewDuty
<1>6. hd2[c] = "job" /\ Busied(hd, hd2, c, hd2[c]) /\ Ghosts(ph, hd2) /\ \A d \in Cpus \ {c} : hd2[d] = hd[d]
  BY <1>61, <1>0 DEF Busied, Ghosts
<1>70. ide \in IdeRec /\ q \in Seq(Bufs) /\ q # <<>>
  BY <1>0, <1>3 DEF BufTypes, IdeRec, QueueInv
<1>71. i = q[1] /\ i \in Bufs /\ InQueue(i)
  <2>1. i = q[1] /\ i \in Bufs /\ 1 \in DOMAIN q
    BY <1>70, <1>i
  <2> QED BY <2>1 DEF InQueue
<1>7. /\ ide' = [ide EXCEPT !.queue = Tail(@)]
      /\ buf' = [buf EXCEPT ![i].valid = TRUE, ![i].dirty = FALSE,
                            ![i].data = IF buf[i].dirty THEN @ ELSE disk[b]]
      /\ Then(c, s) /\ UNCHANGED <<cpu, lock, proc, fault>> /\ disk' = disk /\ lru' = lru /\ latest' = latest
  BY <1>70, <1>i, <1>b DEF IdeintrStep, Rest
<1>72. Undone(i) /\ b \in Blocks /\ b # 0 /\ buf[i].blockno = b
       /\ \A p \in Procs : ph[p] \in Owning /\ proc[p].buf = i => ph[p] \in {"io1", "io1D"}
  BY <1>0, <1>71, <1>b, QueuedOwner
<1>73. buf[i].dirty => buf[i].valid /\ disk[b] = buf[i].data
  BY <1>0, <1>3, <1>71, <1>b DEF BufInv, BufOk, QueueInv
<1>8. /\ OnlyBuf(i) /\ buf'[i].valid /\ ~buf'[i].dirty /\ buf'[i].data = disk[b]
      /\ buf'[i].blockno = b /\ buf'[i].refcnt = buf[i].refcnt
      /\ buf'[i].locked = buf[i].locked /\ buf'[i].pid = buf[i].pid
  <2>1. buf[i] \in BufRec /\ buf \in [Bufs -> BufRec] /\ disk[b] \in Nat
    BY <1>0, <1>71, <1>72 DEF BufTypes
  <2>0. PICK v : v = disk[b]
    OBVIOUS
  <2> DEFINE y == [buf[i] EXCEPT !.valid = TRUE, !.dirty = FALSE, !.data = v]
  <2>2. /\ y \in BufRec /\ y.valid /\ ~y.dirty /\ y.data = v
        /\ y.blockno = b /\ y.refcnt = buf[i].refcnt
        /\ y.locked = buf[i].locked /\ y.pid = buf[i].pid
    BY <2>1, <2>0, <1>72 DEF BufRec
  <2>3. buf' = [buf EXCEPT ![i] = y]
    <3>1. buf' = [buf EXCEPT ![i] = [buf[i] EXCEPT !.valid = TRUE, !.dirty = FALSE,
                                     !.data = IF buf[i].dirty THEN buf[i].data ELSE disk[b]]]
      BY <2>1, <1>7
    <3>2. (IF buf[i].dirty THEN buf[i].data ELSE disk[b]) = v
      BY <2>0, <1>73
    <3> QED BY <3>1, <3>2
  <2> HIDE DEF y
  <2> QED BY <2>0, <2>1, <2>2, <2>3, <1>71 DEF OnlyBuf
<1>9. ide' \in IdeRec /\ ide'.queue = Tail(q) /\ ide'.irq = ide.irq /\ ide'.job = ide.job /\ ide'.out = ide.out
  <2>1. Tail(q) \in Seq(Bufs)
    BY <1>70
  <2> QED BY <2>1, <1>7, <1>70 DEF IdeRec
<1>90. /\ Len(q) \in Nat /\ DOMAIN q = 1..Len(q) /\ DOMAIN Tail(q) = 1..Len(q) - 1
       /\ \A j \in 1..Len(q) - 1 : Tail(q)[j] = q[j + 1] /\ j + 1 \in 1..Len(q)
       /\ \A j \in 1..Len(q) : j # 1 => j - 1 \in 1..Len(q) - 1
  <2> HIDE DEF q
  <2> QED BY <1>70
<1>91. \A i1, j1 \in 1..Len(q) : i1 # j1 => q[i1] # q[j1]
  BY <1>0, <1>90 DEF QueueInv
<1>92. \A j : InQueue(j)' <=> InQueue(j) /\ j # i
  <2> SUFFICES ASSUME NEW j PROVE InQueue(j)' <=> InQueue(j) /\ j # i
    OBVIOUS
  <2>1. InQueue(j)' <=> \E x \in 1..Len(q) - 1 : Tail(q)[x] = j
    BY <1>9, <1>90 DEF InQueue
  <2>2. InQueue(j) <=> \E x \in 1..Len(q) : q[x] = j
    BY <1>90 DEF InQueue
  <2> HIDE DEF q
  <2>3. ASSUME NEW x \in 1..Len(q) - 1, Tail(q)[x] = j PROVE InQueue(j) /\ j # i
    <3>1. x + 1 \in 1..Len(q) /\ q[x + 1] = j /\ x + 1 # 1 /\ 1 \in 1..Len(q)
      BY <2>3, <1>90
    <3>2. j # i
      BY <3>1, <1>71, <1>91
    <3> QED BY <3>1, <3>2, <2>2
  <2>4. ASSUME NEW x \in 1..Len(q), q[x] = j, j # i PROVE InQueue(j)'
    <3>1. x # 1
      BY <2>4, <1>71
    <3>2. x - 1 \in 1..Len(q) - 1 /\ Tail(q)[x - 1] = q[x - 1 + 1] /\ x - 1 + 1 = x
      BY <3>1, <1>90
    <3> QED BY <3>2, <2>1, <2>4
  <2> QED BY <2>1, <2>2, <2>3, <2>4
<1>93. \A j \in Bufs \ {i} : buf'[j] = buf[j]
  BY <1>8 DEF OnlyBuf
<1>94. \A j \in Bufs \ {i} : Undone(j)' <=> Undone(j)
  BY <1>93 DEF Undone
<1>95. ~Undone(i)'
  BY <1>8 DEF Undone
<1>10. ProcInv(ph)'
  <2> SUFFICES ASSUME NEW p \in Procs PROVE ProcOk(p, ph)'
    BY DEF ProcInv
  <2>m. PICK m : m = proc[p].buf
    OBVIOUS
  <2>1. ProcOk(p, ph) /\ proc' = proc /\ (ph[p] # "none" => m \in Bufs)
    BY <2>m, <1>0, <1>7 DEF ProcInv, ProcOk
  <2>2. CASE ph[p] = "none"
    BY <2>1, <2>2 DEF ProcOk, Owning
  <2>3. CASE ph[p] # "none" /\ m # i
    BY <2>1, <2>m, <2>3, <1>92, <1>93, <1>94 DEF ProcOk
  <2>4. CASE ph[p] # "none" /\ m = i
    <3>1. ph[p] \in Owning => ph[p] \in {"io1", "io1D"}
      BY <2>4, <2>m, <1>72
    <3>2. ph[p] \notin {"io", "io0"}
      BY <3>1 DEF Owning
    <3> QED BY <3>2, <2>1, <2>m, <2>4, <1>8, <1>72, <1>95 DEF ProcOk
  <2> QED BY <2>2, <2>3, <2>4
<1>11. BufInv(ph)'
  <2> SUFFICES ASSUME NEW j \in Bufs PROVE BufOk(j, ph)'
    BY DEF BufInv
  <2>1. BufOk(j, ph)
    BY <1>0 DEF BufInv
  <2>2. Users(j, ph)' = Users(j, ph) /\ (Waiter(j, ph)' <=> Waiter(j, ph)) /\ (Changer(j, ph)' <=> Changer(j, ph))
    BY <1>7 DEF Users, Waiter, Changer
  <2>3. CASE j = i
    BY <2>1, <2>2, <2>3, <1>7, <1>8, <1>92 DEF BufOk
  <2>4. CASE j # i
    BY <2>1, <2>2, <2>4, <1>7, <1>92, <1>93, <1>94 DEF BufOk
  <2> QED BY <2>3, <2>4
<1>12. DataInv'
  <2>1. \A j \in Bufs : buf'[j].blockno = buf[j].blockno /\ (buf[j].valid => buf'[j].valid)
    BY <1>8, <1>72, <1>93
  <2>2. OneCopy' /\ Kept'
    <3>1. disk' = disk /\ latest' = latest /\ OneCopy /\ Kept
      BY <1>0, <1>7 DEF DataInv
    <3>2. OneCopy'
      BY <2>1, <3>1 DEF OneCopy
    <3>3. Kept'
      BY <2>1, <3>1 DEF Kept
    <3> QED BY <3>2, <3>3
  <2>3. disk[b] = latest[b]
    <3>1. CASE buf[i].dirty
      BY <3>1, <1>0, <1>71, <1>72, <1>73 DEF DataInv, Fresh
    <3>2. CASE ~buf[i].dirty
      <4>1. ~buf[i].valid
        BY <3>2, <1>72 DEF Undone
      <4>2. \A j \in Bufs : buf[j].blockno = b => j = i
        BY <1>0, <1>71, <1>72 DEF DataInv, OneCopy
      <4> QED BY <4>1, <4>2, <1>0, <1>72 DEF DataInv, Kept
    <3> QED BY <3>1, <3>2
  <2>4. Fresh'
    <3> SUFFICES ASSUME NEW j \in Bufs, buf'[j].blockno # 0, buf'[j].valid
                 PROVE  buf'[j].data = latest'[buf'[j].blockno]
      BY DEF Fresh
    <3>0. latest' = latest /\ Fresh
      BY <1>0, <1>7 DEF DataInv
    <3>1. CASE j = i
      BY <3>0, <3>1, <2>3, <1>8
    <3>2. CASE j # i
      BY <3>0, <3>2, <1>93 DEF Fresh
    <3> QED BY <3>1, <3>2
  <2> QED BY <2>2, <2>4 DEF DataInv
<1>13. BufTypes'
  BY <1>0, <1>7, <1>8, <1>9 DEF BufTypes, OnlyBuf
<1>14. QueueInv(hd2)'
  <2>0. Cpus' = Cpus
    BY <1>7 DEF Cpus
  <2>1. ide.job = 0 /\ ~ide.irq /\ \A d \in Cpus \ {c} : hd[d] = "no"
    BY <1>0, <1>3 DEF QueueInv
  <2>2. \A i1, j1 \in DOMAIN ide'.queue : i1 # j1 => ide'.queue[i1] # ide'.queue[j1]
    <3> HIDE DEF q
    <3>1. \A i1, j1 \in 1..Len(q) - 1 : i1 # j1 => i1 + 1 # j1 + 1
      BY <1>90
    <3> QED BY <3>1, <1>9, <1>90, <1>91
  <2>3. \A d \in Cpus : hd2[d] = "job" \/ hd2[d] = "no"
    BY <2>1, <1>6
  <2> QED BY <2>0, <2>1, <2>2, <2>3, <1>6, <1>9 DEF QueueInv
<1>15. IsSeq(s) /\ Has(s, <<"wakeup1", IoChan(i)>>)
  <2>1. IsSeq(Wakeup(IoChan(i))) /\ IsSeq(<<<<"nextjob", "">>, Release(idelock)>>)
    BY EmptySeq, Unfold3, Unfold2 DEF Wakeup
  <2>2. Has(Wakeup(IoChan(i)), <<"wakeup1", IoChan(i)>>)
    BY DEF Wakeup, Has
  <2> QED BY <2>1, <2>2, CatSeq, HasCatLeft
<1>16. Runs(k, Mine(k), s \o t, {idelock}, "on", ph[k], "job")
  <2> HIDE DEF t
  <2> QED BY <1>3, <1>5, NextRuns
<1>17. Coming(IoChan(i))'
  <2>1. Become(c, s \o t) /\ Cpus' = Cpus /\ Me(c)' = Me(c)
    BY <1>7 DEF Then, Cpus, Me
  <2>2. Ops(c)' = s \o t
    <3> HIDE DEF t, s
    <3> QED BY <2>1, <1>0, BecomeOps
  <2>3. Has(Ops(c)', <<"wakeup1", IoChan(i)>>)
    <3> HIDE DEF t, s
    <3> QED BY <2>2, <1>2, <1>15, HasCatLeft
  <2>4. CASE k = 0
    <3>1. Ops(c)' = idle'[c]
      BY <2>1, <2>4, <1>k DEF Ops, Me
    <3> QED BY <3>1, <2>1, <2>3 DEF Coming, Has
  <2>5. CASE k # 0
    <3>1. Ops(c)' = todo'[k] /\ k \in Procs
      BY <2>1, <2>5, <1>0, <1>k, CpuFacts DEF Ops, Me
    <3> QED BY <3>1, <2>3 DEF Coming, Has
  <2> QED BY <2>4, <2>5
<1> HIDE DEF t, s
<1>18. Runs(k, Mine(k), s \o t, Held(c), Run(k), ph[k], hd2[c])
  BY <1>3, <1>6, <1>16
<1>19. \A j \in Bufs : (buf[j].locked => buf'[j].locked) /\ (InQueue(j) => InQueue(j)' \/ Coming(IoChan(j))')
  <2>1. \A j \in Bufs : buf[j].locked => buf'[j].locked
    BY <1>8, <1>93
  <2>2. \A j \in Bufs : InQueue(j) => InQueue(j)' \/ Coming(IoChan(j))'
    BY <1>17, <1>92
  <2> QED BY <2>1, <2>2
<1>20. hd[c] # "no"
  BY <1>3
<1> QED BY <1>k, <1>0, <1>20, <1>6, <1>7, <1>10, <1>11, <1>12, <1>13, <1>14, <1>15, <1>18, <1>19, IdeStep DEF t

(* The disk interrupts. *)
LEMMA IdeIntrKeeps ==
  ASSUME NEW ph, NEW hd, KTypes, Good(ph, hd), IdeIntr
  PROVE  Running'
<1>c. PICK c \in Cpus : c = NCPU
  BY CpuFacts DEF KTypes
<1>k. PICK k : k = Me(c)
  OBVIOUS
<1> DEFINE x == [cpu[c] EXCEPT !.on = FALSE]
           t == Ops(c)
           s == (ideintr \o Iret) \o t
<1>0. Thr(ph, hd) /\ CpuInv(hd) /\ Ghosts(ph, hd) /\ CpuTypes /\ ProcTypes /\ BufTypes /\ BufInv(ph) /\ DataInv
      /\ ProcInv(ph) /\ QueueInv(hd) /\ SleepInv(ph) /\ fault = "none" /\ cpu[c].on /\ ide.irq
  BY <1>c DEF KTypes, Good, IdeIntr
<1>1. /\ Held(c) = {} /\ Run(k) = "on" /\ ph[k] \notin Dozing /\ hd[c] = "no"
      /\ ~Spins(t) /\ IsSeq(t) /\ cpu[c].ncli = 0
      /\ Runs(k, Mine(k), t, {}, "on", ph[k], "no")
      /\ cpu[c].proc # 0 => k # 0
  BY <1>0, <1>k, Interruptible
<1>2. /\ cpu' = [cpu EXCEPT ![c] = x] /\ Become(c, s) /\ ide' = [ide EXCEPT !.irq = FALSE]
      /\ UNCHANGED <<lock, proc, fault>> /\ buf' = buf /\ lru' = lru /\ disk' = disk /\ latest' = latest
  BY <1>c DEF IdeIntr, Rest
<1>3. x \in CpuRec /\ x.cur = cpu[c].cur /\ x.proc = cpu[c].proc /\ x.ncli = cpu[c].ncli /\ ~x.on
  <2>1. cpu[c] \in CpuRec
    BY <1>0, CpuFacts
  <2> QED BY <2>1 DEF CpuRec
<1>4. IsSeq(ideintr \o Iret)
  <2>1. IsSeq(ideintr) /\ IsSeq(Iret)
    BY EmptySeq, Unfold2, OneSeq DEF ideintr, Iret
  <2> QED BY <2>1, CatSeq
<1> HIDE DEF t, x
<1>5. Runs(k, Mine(k), s, {}, "on", ph[k], "intr")
  BY <1>1, HandlerRuns
<1>60. "intr" \in Duties
  BY DEF Duties
<1>61. PICK hd2 : Busied(hd, hd2, c, "intr")
  BY <1>60, <1>0, NewDuty
<1>6. hd2[c] = "intr" /\ Ghosts(ph, hd2) /\ \A d \in Cpus \ {c} : hd2[d] = hd[d]
  BY <1>61, <1>0 DEF Busied, Ghosts
<1>7. /\ Cpus' = Cpus /\ cpu'[c] = x /\ \A d \in Cpus \ {c} : cpu'[d] = cpu[d]
      /\ \A d \in Cpus : Me(d)' = Me(d)
      /\ \E n \in 1..MaxCpu : cpu' \in [1..n -> CpuRec]
  BY <1>0, <1>2, <1>3, CpuChanged
<1>8. \A ch : Coming(ch) => Coming(ch)'
  <2> SUFFICES ASSUME NEW ch, Coming(ch) PROVE Coming(ch)'
    OBVIOUS
  <2> DEFINE w == <<"wakeup1", ch>>
             u == ideintr \o Iret
  <2>1. IsSeq(u) /\ s = u \o t
    BY <1>4
  <2> HIDE DEF w, u, s
  <2>2. Has(t, w) => Has(s, w)
    BY <2>1, <1>1, HasCat
  <2> QED BY <2>2, <1>0, <1>2, <1>7, BecomeComing DEF t, w
<1>9. ~Spins(s) /\ IsSeq(s)
  BY <1>5, RunsNoSpin
<1> HIDE DEF s
<1>10.
      /\ Ops(c)' = s
      /\ \A d \in Cpus \ {c} : idle'[d] = idle[d]
      /\ Me(c) # 0 => idle'[c] = idle[c]
      /\ \A q \in Procs \ {Me(c)} : todo'[q] = todo[q]
      /\ idle' = [d \in Cpus' |-> idle'[d]] /\ todo' = [p \in Procs |-> todo'[p]]
  BY <1>0, <1>2, <1>7, BecomeOps
<1>11. /\ proc' = proc /\ lock' = lock /\ (\A q : Mine(q)' = Mine(q) /\ Run(q)' = Run(q))
       /\ \A d \in Cpus : Held(d)' = Held(d)
  BY <1>2 DEF Mine, Run, Held
<1>12. OthersKeep(c, ph, hd, ph, hd2)
  BY <1>6, <1>7, <1>10, <1>11 DEF OthersKeep
<1>13. OnCpu(c, ph, hd2)'
  <2>1. Me(c)' = k /\ Ops(c)' = s
    BY <1>7, <1>10, <1>k
  <2>2. Mine(k)' = Mine(k) /\ Run(k)' = Run(k) /\ Held(c)' = {}
    BY <1>1, <1>2 DEF Mine, Run, Held
  <2>3. Mine(Me(c))' = Mine(k) /\ Run(Me(c))' = "on"
    BY <2>1, <2>2, <1>1 DEF Mine, Run
  <2> QED BY <2>1, <2>2, <2>3, <1>5, <1>6, <1>9 DEF OnCpu, Cur
<1>14. CpuOk(c, hd2)'
  <2>1. CpuOk(c, hd) /\ (cpu[c].proc # 0 => idle'[c] = idle[c])
    BY <1>0, <1>1, <1>10, <1>k DEF CpuInv
  <2> QED BY <2>1, <1>1, <1>3, <1>7, <1>9, <1>10, <1>11 DEF CpuOk, t
<1>15. Thr(ph, hd2)'
  BY <1>0, <1>12, <1>13, LocalThr DEF CpuInv
<1>16. CpuInv(hd2)'
  BY <1>0, <1>12, <1>14, LocalCpu
<1>17. CpuTypes' /\ ProcTypes' /\ Ghosts(ph, hd2)'
  BY <1>0, <1>6, <1>7, <1>10, <1>11 DEF CpuTypes, ProcTypes, Ghosts
<1>18. ide' \in IdeRec /\ ide'.queue = ide.queue /\ ide'.job = ide.job /\ ide'.out = ide.out /\ ~ide'.irq
  <2>1. ide \in IdeRec
    BY <1>0 DEF BufTypes
  <2> QED BY <2>1, <1>2 DEF IdeRec
<1>19. ProcInv(ph)' /\ BufInv(ph)' /\ DataInv' /\ BufTypes' /\ \A i : InQueue(i)' <=> InQueue(i)
  BY <1>0, <1>2, <1>18, SameQueue
<1>20. SleepInv(ph)'
  BY <1>0, <1>2, <1>8, <1>19, SleepKeep
<1>21. QueueInv(hd2)'
  <2>1. ide.job = 0 /\ ide.queue # <<>> /\ \A d \in Cpus : hd[d] = "no"
    BY <1>0 DEF QueueInv
  <2> QED BY <2>1, <1>0, <1>2, <1>6, <1>7, <1>18 DEF QueueInv
<1>22. Good(ph, hd2)'
  BY <1>15, <1>16, <1>17, <1>19, <1>20, <1>21 DEF Good
<1> QED BY <1>0, <1>2, <1>17, <1>19, <1>22 DEF Running, KTypes
-----------------------------------------------------------------------------
(* The initial states. *)
LEMMA InitRuns ==
  ASSUME NEW p \in Procs, NEW m
  PROVE  Runs(p, m, <<Release(ptable)>> \o Program(p), {ptable}, "on", "none", "no")
<1> DEFINE t == Program(p)  H == {ptable}  N == {}
<1>1. Runs(p, m, t, N, "on", "none", "no")
  BY ProgramRuns
<1>2. Loose("on", "none", "no") /\ ptable \in H /\ N = H \ {ptable}
  BY DEF Loose, Dozing
<1> HIDE DEF t, H, N
<1>3. Runs(p, m, Cons(Release(ptable), t), H, "on", "none", "no")
  BY <1>1, <1>2, DoRelease
<1> QED BY <1>3 DEF Cons, t, H

(* The invariant holds at first. *)
LEMMA InitRunning ==
  ASSUME KInit
  PROVE  Running
<1>0. PICK m \in Machines :
       /\ cpu = [c \in 1..m[1] |-> [cur |-> 0, proc |-> 0, ncli |-> 0, intena |-> FALSE, on |-> FALSE]]
       /\ idle = [c \in 1..m[1] |-> scheduler]
       /\ intr = m[2]
  BY DEF KInit
<1>1. PICK n \in 1..MaxCpu : n = m[1]
  BY KernelAssumption
<1>2. MaxCpu \in Nat /\ NBUF \in Nat \ {0} /\ NBLOCK \in Nat \ {0} /\ 0 \notin Bufs /\ 0 \notin Procs
  BY KernelAssumption DEF Bufs, Procs
<1>3. Cpus = 1..n /\ 0 \notin Cpus
  BY <1>0, <1>1 DEF Cpus
<1>4. \A c \in Cpus : /\ cpu[c].cur = 0 /\ cpu[c].proc = 0 /\ cpu[c].ncli = 0 /\ cpu[c].intena = FALSE
                      /\ cpu[c].on = FALSE /\ cpu[c] \in CpuRec /\ idle[c] = scheduler
  BY <1>0, <1>1, <1>3 DEF CpuRec
<1>5. \A p \in Procs : /\ proc[p].state = "RUNNABLE" /\ proc[p].chan = NoChan /\ proc[p].buf = 0
                       /\ proc[p].has = FALSE /\ proc[p] \in ProcRec
                       /\ todo[p] = <<Release(ptable)>> \o Program(p)
  <2>1. [state |-> "RUNNABLE", chan |-> NoChan, buf |-> 0, has |-> FALSE] \in ProcRec
    BY DEF ProcRec, Chans
  <2> QED BY <2>1 DEF KInit
<1>6. \A i \in Bufs : /\ buf[i].blockno = 0 /\ buf[i].refcnt = 0 /\ buf[i].valid = FALSE /\ buf[i].dirty = FALSE
                      /\ buf[i].locked = FALSE /\ buf[i] \in BufRec
  BY DEF KInit, BufRec
<1>7. CpuTypes
  <2>1. cpu \in [1..n -> CpuRec]
    <3>1. cpu = [c \in Cpus |-> cpu[c]]
      BY <1>0, <1>1, <1>3
    <3> QED BY <3>1, <1>3, <1>4
  <2>2. idle = [c \in Cpus |-> idle[c]]
    BY <1>0, <1>1, <1>3
  <2>3. lock \in [Locks -> Cpus \cup {0}]
    BY DEF KInit
  <2> QED BY <2>1, <2>2, <2>3 DEF CpuTypes
<1>8. ProcTypes
  <2>1. proc = [p \in Procs |-> proc[p]] /\ todo = [p \in Procs |-> todo[p]]
    BY DEF KInit
  <2> QED BY <2>1, <1>5 DEF ProcTypes
<1>9. BufTypes
  <2>1. buf \in [Bufs -> BufRec]
    <3>1. buf = [i \in Bufs |-> buf[i]]
      BY DEF KInit
    <3> QED BY <3>1, <1>6
  <2>2. lru = [j \in Bufs |-> NBUF + 1 - j] /\ \A j \in Bufs : NBUF + 1 - j \in Bufs
    BY <1>2 DEF KInit, Bufs
  <2>3. ASSUME NEW i \in Bufs PROVE \E j \in Bufs : lru[j] = i
    <3>1. NBUF + 1 - i \in Bufs /\ NBUF + 1 - (NBUF + 1 - i) = i
      BY <1>2 DEF Bufs
    <3> QED BY <3>1, <2>2
  <2>4. ide \in IdeRec
    BY DEF KInit, IdeRec
  <2>5. disk \in [Blocks -> Nat] /\ latest \in [Blocks -> Nat]
    BY DEF KInit
  <2>6. lru \in [Bufs -> Bufs]
    BY <2>2
  <2> QED BY <2>1, <2>3, <2>4, <2>5, <2>6 DEF BufTypes
<1> DEFINE ph == [p \in Procs \cup {0} |-> "none"]
           hd == [c \in Cpus |-> "no"]
<1>10. Ghosts(ph, hd)
  BY DEF Ghosts, Phases, Duties
<1>11. (\A p \in Procs \cup {0} : ph[p] = "none") /\ (\A c \in Cpus : hd[c] = "no")
  OBVIOUS
<1> HIDE DEF ph, hd
<1>12. \A c \in Cpus : Me(c) = 0 /\ Held(c) = {} /\ Ops(c) = scheduler /\ ~Spins(Ops(c))
  <2> SUFFICES ASSUME NEW c \in Cpus PROVE Me(c) = 0 /\ Held(c) = {} /\ Ops(c) = scheduler /\ ~Spins(Ops(c))
    OBVIOUS
  <2>1. Me(c) = 0 /\ Ops(c) = scheduler
    BY <1>4 DEF Me, Ops
  <2>2. Held(c) = {}
    BY <1>3 DEF Held, KInit
  <2>3. ~Spins(scheduler)
    BY SchedulerRuns, RunsNoSpin
  <2> QED BY <2>1, <2>2, <2>3
<1>13. Thr(ph, hd)
  <2>1. ASSUME NEW c \in Cpus PROVE OnCpu(c, ph, hd)
    <3>1. Runs(0, 0, scheduler, {}, "on", "none", "no")
      BY SchedulerRuns
    <3>2. Cur(0, 0, scheduler, {}, "on", "none", "no")
      BY <3>1, RunsNoSpin
    <3> QED BY <3>2, <1>11, <1>12 DEF OnCpu, Mine, Run
  <2>2. ASSUME NEW p \in Procs PROVE Parked(p, ph)
    BY <1>5, <1>11, InitRuns DEF Parked, Dozing
  <2> QED BY <2>1, <2>2, <1>12 DEF Thr
<1>14. CpuInv(hd)
  <2>1. Cardinality({}) = 0
    BY FS_EmptySet
  <2>2. ASSUME NEW c \in Cpus PROVE CpuOk(c, hd)
    <3>1. cpu[c].cur = 0 /\ cpu[c].proc = 0 /\ cpu[c].ncli = 0 /\ ~cpu[c].on
      BY <1>4
    <3>2. Cardinality(Held(c)) = 0 /\ ~Spins(Ops(c))
      BY <2>1, <1>12
    <3> QED BY <3>1, <3>2 DEF CpuOk
  <2> QED BY <2>2, <1>12 DEF CpuInv, Apart
<1>15. SleepInv(ph) /\ ProcInv(ph)
  BY <1>5, <1>11 DEF SleepInv, SleepOk, ProcInv, ProcOk, Owning
<1>16. ide.queue = <<>> /\ ide.job = 0 /\ ~ide.irq /\ \A i : ~InQueue(i)
  BY DEF KInit, InQueue
<1>17. BufInv(ph)
  <2>1. \A i : Users(i, ph) = {}
    BY <1>11 DEF Users
  <2>2. Cardinality({}) = 0
    BY FS_EmptySet
  <2> QED BY <2>1, <2>2, <1>6, <1>16 DEF BufInv, BufOk
<1>18. QueueInv(hd)
  BY <1>11, <1>16 DEF QueueInv
<1>19. DataInv
  <2>1. OneCopy /\ Fresh
    BY <1>6 DEF OneCopy, Fresh
  <2>2. Kept
    BY DEF Kept, KInit
  <2> QED BY <2>1, <2>2 DEF DataInv
<1>20. Good(ph, hd)
  BY <1>10, <1>13, <1>14, <1>15, <1>17, <1>18, <1>19 DEF Good
<1> QED BY <1>7, <1>8, <1>9, <1>20 DEF Running, KTypes, KInit
-----------------------------------------------------------------------------
(* Every step keeps the invariant, or bget finds no buffer. *)
LEMMA CpuKeeps ==
  ASSUME NEW ph, NEW hd, NEW c \in Cpus, KTypes, Good(ph, hd), CpuStep(c)
  PROVE  Running' \/ fault' = "bget: no buffers"
BY AcquireKeeps, SpinKeeps, ReleaseKeeps, StiKeeps, ScanKeeps, SchedKeeps, ResumeKeeps, StateKeeps,
   LockedKeeps, UnlockedKeeps, BgetKeeps, BreadKeeps, PutKeeps, DirtyKeeps, BrelseKeeps, UnrefKeeps,
   IderwKeeps, EnqueueKeeps, FinishedKeeps, IdeintrKeeps, NextJobKeeps DEF CpuStep

(* All steps together. *)
LEMMA NextKeeps ==
  ASSUME Running, KNext
  PROVE  Running' \/ fault' = "bget: no buffers"
<1>1. PICK ph, hd : Good(ph, hd)
  BY DEF Running
<1>2. KTypes
  BY DEF Running
<1>3. CASE DiskStep
  BY <1>1, <1>2, <1>3, DiskKeeps
<1>4. CASE IdeIntr
  BY <1>1, <1>2, <1>4, IdeIntrKeeps
<1>5. CASE \E c \in Cpus : CpuStep(c) \/ TimerIntr(c)
  BY <1>1, <1>2, <1>5, CpuKeeps, TimerKeeps
<1> QED BY <1>3, <1>4, <1>5 DEF KNext

(* Stuttering keeps the invariant. *)
LEMMA StutterKeeps ==
  ASSUME Running, UNCHANGED kvars
  PROVE  Running'
<1>0. PICK ph, hd : Good(ph, hd)
  BY DEF Running
<1>1. /\ fault = "none" /\ KTypes /\ CpuTypes /\ ProcTypes /\ Thr(ph, hd) /\ CpuInv(hd)
      /\ cpu' = cpu /\ lock' = lock /\ proc' = proc /\ todo' = todo /\ idle' = idle
      /\ UNCHANGED <<Data, fault>>
  BY <1>0 DEF Running, KTypes, Good, kvars, Data
<1>2. Cpus' = Cpus /\ CpuTypes' /\ ProcTypes'
  BY <1>1 DEF Cpus, CpuTypes, ProcTypes
<1>3. /\ \A c : Me(c)' = Me(c) /\ Ops(c)' = Ops(c) /\ Held(c)' = Held(c)
      /\ \A p : Mine(p)' = Mine(p) /\ Run(p)' = Run(p)
  BY <1>1 DEF Me, Ops, Held, Mine, Run
<1>4. Thr(ph, hd)'
  <2>1. ASSUME NEW c \in Cpus PROVE OnCpu(c, ph, hd)'
    <3>1. OnCpu(c, ph, hd)
      BY <1>1 DEF Thr
    <3> QED BY <3>1, <1>1 DEF OnCpu, Me, Ops, Held, Mine, Run
  <2>2. \A p \in Procs : Parked(p, ph) => Parked(p, ph)'
    BY <1>1 DEF Parked, Mine
  <2> QED BY <2>1, <2>2, <1>1, <1>2, <1>3 DEF Thr
<1>5. CpuInv(hd)'
  BY <1>1, <1>2, <1>3 DEF CpuInv, CpuOk, Apart
<1>6. \A ch : Coming(ch) => Coming(ch)'
  BY <1>1, <1>2 DEF Coming
<1> QED BY <1>0, <1>1, <1>2, <1>4, <1>5, <1>6, Frame

(* After a panic nothing happens any more. *)
LEMMA PanicStops ==
  ASSUME KNext
  PROVE  fault = "none"
BY DEF KNext, DiskStep, IdeIntr, TimerIntr, CpuStep, AcquireStep, SpinStep, ReleaseStep, StiStep,
   ScanStep, SchedStep, ResumeStep, StateStep, LockedStep, UnlockedStep, BgetStep, BreadStep,
   PutStep, DirtyStep, BrelseStep, UnrefStep, IderwStep, EnqueueStep, FinishedStep, IdeintrStep,
   NextJobStep, At

(* KInvariant is an invariant. *)
LEMMA KInvariantHolds == KSpec => []KInvariant
<1>1. KInit => KInvariant
  BY InitRunning DEF KInvariant, Running
<1>2. KInvariant /\ [KNext]_kvars => KInvariant'
  <2> SUFFICES ASSUME KInvariant, [KNext]_kvars PROVE KInvariant'
    OBVIOUS
  <2>1. fault = "none" => Running
    BY DEF KInvariant, Running
  <2>2. Running' \/ fault' = "bget: no buffers" => KInvariant'
    BY DEF KInvariant, Running
  <2>3. CASE KNext
    BY <2>1, <2>2, <2>3, PanicStops, NextKeeps
  <2>4. CASE UNCHANGED kvars
    <3>1. CASE fault = "none"
      BY <2>1, <2>2, <2>4, <3>1, StutterKeeps
    <3>2. CASE fault # "none"
      <4>1. fault' = "bget: no buffers"
        BY <3>2, <2>4 DEF KInvariant, kvars
      <4> QED BY <4>1, <2>2
    <3> QED BY <3>1, <3>2
  <2> QED BY <2>3, <2>4
<1> QED BY <1>1, <1>2, PTL DEF KSpec
-----------------------------------------------------------------------------
(* What the invariant says of the properties. *)
LEMMA RunningLocks ==
  ASSUME Running
  PROVE  LocksExact
<1>0. PICK ph, hd : Good(ph, hd)
  BY DEF Running
<1>1. /\ fault = "none" /\ KTypes /\ CpuTypes /\ ProcTypes /\ BufTypes /\ Thr(ph, hd) /\ CpuInv(hd)
      /\ SleepInv(ph) /\ BufInv(ph)
  BY <1>0 DEF Running, KTypes, Good
<1>2. KTypeOK
  <2>1. lock \in [Locks -> Cpus \cup {0}]
    BY <1>1 DEF CpuTypes
  <2>2. ASSUME NEW c \in Cpus
        PROVE  /\ cpu[c].cur \in {0, cpu[c].proc} /\ cpu[c].proc \in Procs \cup {0}
               /\ cpu[c].ncli = Cardinality({l \in Locks : lock[l] = c}) + (IF At(c, "spin") THEN 1 ELSE 0)
    <3>1. CpuOk(c, hd) /\ cpu[c] \in CpuRec
      BY <1>1, CpuFacts DEF CpuInv
    <3>2. At(c, "spin") <=> Spins(Ops(c))
      BY <1>1 DEF At, Spins
    <3> QED BY <3>1, <3>2 DEF CpuOk, CpuRec, Held
  <2>3. \A p \in Procs : proc[p].state \in {"RUNNABLE", "RUNNING", "SLEEPING", "ZOMBIE"}
    BY <1>1 DEF ProcTypes, ProcRec
  <2>4. ASSUME NEW i \in Bufs PROVE buf[i].blockno \in Blocks \cup {0} /\ buf[i].refcnt \in 0..Len(Script)
    <3>1. buf[i].blockno \in Blocks \cup {0}
      BY <1>1 DEF BufTypes, BufRec
    <3>2. buf[i].refcnt = Cardinality(Users(i, ph))
      BY <1>1 DEF BufInv, BufOk
    <3> QED BY <3>1, <3>2, UsersFinite
  <2>5. {lru[j] : j \in DOMAIN lru} = Bufs /\ Len(lru) = NBUF
    <3>1. NBUF \in Nat /\ lru \in [Bufs -> Bufs] /\ \A i \in Bufs : \E j \in Bufs : lru[j] = i
      BY <1>1, KernelAssumption DEF BufTypes
    <3>2. DOMAIN lru = Bufs /\ DOMAIN lru = 1..NBUF
      BY <3>1 DEF Bufs
    <3>3. {lru[j] : j \in DOMAIN lru} = Bufs
      BY <3>1, <3>2
    <3>4. lru \in Seq(Bufs)
      BY <3>1 DEF Bufs
    <3>5. Len(lru) = NBUF
      BY <3>1, <3>2, <3>4
    <3> QED BY <3>3, <3>5
  <2>6. ide.job \in Bufs \cup {0}
    BY <1>1 DEF BufTypes, IdeRec
  <2> QED BY <2>1, <2>2, <2>3, <2>4, <2>5, <2>6 DEF KTypeOK
<1>3. LockedIsQuiet
  <2> SUFFICES ASSUME NEW l \in Locks, lock[l] # 0, cpu[lock[l]].on PROVE FALSE
    BY DEF LockedIsQuiet
  <2>1. lock[l] \in Cpus
    BY <1>1 DEF CpuTypes
  <2>2. Held(lock[l]) = {}
    BY <2>1, <1>0, <1>1, Interruptible
  <2> QED BY <2>2 DEF Held
<1>4. OneProcessor
  BY <1>1, OffHeld DEF OneProcessor, CpuInv, Apart, Me
<1>5. NoLostWakeup
  <2> SUFFICES ASSUME NEW p \in Procs, NEW i \in Bufs, proc[p].state = "SLEEPING"
               PROVE  /\ proc[p].chan = LkChan(i) => buf[i].locked \/ Coming(LkChan(i))
                      /\ proc[p].chan = IoChan(i) => InQueue(i) \/ Coming(IoChan(i))
    BY DEF NoLostWakeup, InQueue
  <2>1. SleepOk(p, ph)
    BY <1>1 DEF SleepInv
  <2>m. PICK m : m = proc[p].buf
    OBVIOUS
  <2>2. CASE ph[p] = "claim" /\ proc[p].chan = LkChan(m)
    <3>1. buf[m].locked \/ Coming(LkChan(m))
      BY <2>1, <2>2, <2>m DEF SleepOk
    <3>2. LkChan(m) # IoChan(i) /\ (LkChan(m) = LkChan(i) => m = i)
      BY DEF LkChan, IoChan
    <3> QED BY <2>2, <3>1, <3>2
  <2>3. CASE ph[p] = "io1" /\ proc[p].chan = IoChan(m)
    <3>1. InQueue(m) \/ Coming(IoChan(m))
      BY <2>1, <2>3, <2>m DEF SleepOk
    <3>2. IoChan(m) # LkChan(i) /\ (IoChan(m) = IoChan(i) => m = i)
      BY DEF LkChan, IoChan
    <3> QED BY <2>3, <3>1, <3>2
  <2> QED BY <2>1, <2>2, <2>3, <2>m DEF SleepOk
<1> QED BY <1>1, <1>2, <1>3, <1>4, <1>5 DEF LocksExact, KNoPanic

(* A processor that is in the disk's handler has ideintr before it. *)
LEMMA IntrComing ==
  ASSUME NEW ph, NEW hd, Thr(ph, hd), NEW c \in Cpus, hd[c] = "intr"
  PROVE  \E j \in DOMAIN Ops(c) : Ops(c)[j][1] = "ideintr"
<1> DEFINE s == Ops(c)
<1>1. Cur(Me(c), Mine(Me(c)), s, Held(c), Run(Me(c)), ph[Me(c)], "intr")
  BY DEF Thr, OnCpu
<1>2. IsSeq(s)
  BY <1>1 DEF Cur
<1> HIDE DEF s
<1>3. CASE Spins(s)
  <2>0. s # <<>> /\ IsSeq(Tail(s)) /\ s = Cons(Head(s), Tail(s))
    BY <1>2, <1>3, TailSeq DEF Spins
  <2> DEFINE x == Acquire(s[1][2])  u == Tail(s)
  <2>1. Runs(Me(c), Mine(Me(c)), Cons(x, u), Held(c), Run(Me(c)), ph[Me(c)], "intr")
    BY <1>1, <1>3 DEF Cur
  <2>2. Cons(x, u) # <<>> /\ Head(Cons(x, u)) = x /\ Tail(Cons(x, u)) = u
    BY <2>0, ConsSeq
  <2>3. x[1] = "acquire"
    BY DEF Acquire
  <2> HIDE DEF x, u
  <2>4. Pre(Me(c), Mine(Me(c)), x, u, Held(c), Run(Me(c)), ph[Me(c)], "intr")
    BY <2>1, <2>2, RunsOne
  <2>5. HasName(u, "ideintr")
    BY <2>3, <2>4 DEF Pre
  <2>6. HasName(s, "ideintr")
    BY <2>0, <2>5, HasNameCons DEF u
  <2> QED BY <2>6 DEF HasName, s
<1>4. CASE ~Spins(s)
  <2>1. Runs(Me(c), Mine(Me(c)), s, Held(c), Run(Me(c)), ph[Me(c)], "intr")
    BY <1>1, <1>4 DEF Cur
  <2>2. s # <<>>
    BY <2>1, RunsOne DEF Loose
  <2>3. IsSeq(Tail(s)) /\ s = Cons(Head(s), Tail(s))
    BY <1>2, <2>2, TailSeq
  <2>4. Pre(Me(c), Mine(Me(c)), Head(s), Tail(s), Held(c), Run(Me(c)), ph[Me(c)], "intr")
    BY <2>1, <2>2, RunsOne
  <2>5. Head(s)[1] = "ideintr" \/ HasName(Tail(s), "ideintr")
    BY <2>4 DEF Pre, Loose
  <2>6. HasName(s, "ideintr")
    BY <2>3, <2>5, HasNameCons
  <2> QED BY <2>6 DEF HasName, s
<1> QED BY <1>3, <1>4

(* The same for the buffers. *)
LEMMA RunningBuffers ==
  ASSUME Running
  PROVE  BuffersExact
<1>0. PICK ph, hd : Good(ph, hd)
  BY DEF Running
<1>1. /\ fault = "none" /\ CpuTypes /\ BufTypes /\ Thr(ph, hd) /\ Ghosts(ph, hd)
      /\ ProcInv(ph) /\ QueueInv(hd) /\ OneCopy /\ Fresh /\ Kept
  BY <1>0 DEF Running, KTypes, Good, DataInv
<1>2. ASSUME NEW i \in Bufs
      PROVE  Cardinality({p \in Procs : proc[p].has /\ proc[p].buf = i}) <= 1
  <2> DEFINE S == {p \in Procs : proc[p].has /\ proc[p].buf = i}
             T == {buf[i].pid}
  <2>1. S \subseteq T
    BY <1>1 DEF ProcInv, ProcOk
  <2>2. IsFiniteSet(T) /\ Cardinality(T) = 1
    BY FS_Singleton
  <2> HIDE DEF S, T
  <2>3. Cardinality(S) <= 1
    BY <2>1, <2>2, FS_Subset
  <2> QED BY <2>3 DEF S
<1>3. SeesLatest
  BY <1>1, <1>2 DEF SeesLatest, Fresh, Kept
<1>4. DiskBusy
  <2> SUFFICES ASSUME ide.queue # <<>>, lock[idelock] = 0
               PROVE  \/ ide.job = Head(ide.queue) \/ ide.irq
                      \/ \E c \in Cpus : \E j \in DOMAIN Ops(c) : Ops(c)[j][1] = "ideintr"
    BY DEF DiskBusy
  <2>1. CASE ide.job # 0
    <3>1. ide.job = ide.queue[1] /\ ide.queue \in Seq(Bufs)
      BY <2>1, <1>1 DEF QueueInv, BufTypes, IdeRec
    <3> QED BY <3>1
  <2>2. CASE ide.irq
    BY <2>2
  <2>3. CASE \E c \in Cpus : hd[c] # "no"
    <3>1. PICK c \in Cpus : hd[c] # "no"
      BY <2>3
    <3>2. hd[c] # "job"
      BY <1>1, JobHolds, CpuFacts
    <3>3. hd[c] = "intr"
      BY <3>1, <3>2, <1>1 DEF Ghosts, Duties
    <3> QED BY <3>3, <1>1, IntrComing
  <2> QED BY <2>1, <2>2, <2>3, <1>1 DEF QueueInv
<1> QED BY <1>1, <1>3, <1>4 DEF BuffersExact

(* Locks, interrupts, context switch, sleep and wakeup of spinlock.c,      *)
(* sleeplock.c, proc.c and trap.c, with the buffer cache and the disk      *)
(* driver on top: for any number of processors, processes, buffers and     *)
(* blocks, any scripts and any number of timer interrupts, no panic but    *)
(* that of bget when every buffer is in use, and LocksExact as long as it  *)
(* has not happened.                                                       *)
THEOREM LocksSafe == KSpec => [](fault # "bget: no buffers" => LocksExact)
<1>1. KInvariant => (fault # "bget: no buffers" => LocksExact)
  BY RunningLocks DEF KInvariant, Running
<1> QED BY <1>1, KInvariantHolds, PTL

(* The buffer cache and the disk queue of bio.c and ide.c, likewise.       *)
THEOREM BuffersSafe == KSpec => [](fault # "bget: no buffers" => BuffersExact)
<1>1. KInvariant => (fault # "bget: no buffers" => BuffersExact)
  BY RunningBuffers DEF KInvariant, Running
<1> QED BY <1>1, KInvariantHolds, PTL
=============================================================================
