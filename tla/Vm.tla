-------------------------------- MODULE Vm --------------------------------
(***************************************************************************)
(* Physical pages and address spaces: kalloc.c, vm.c, and what exec, fork, *)
(* growproc, wait and copyout do with them.  Addresses are scaled down:    *)
(* PGSIZE units to a page, NPT entries to a page table, NUT tables for the *)
(* user's half of a directory and one for the kernel's half.               *)
(*                                                                         *)
(* h is the memory: the free list, what tables and directories hold, one   *)
(* word of data for each page, and the kernel's directory.                 *)
(***************************************************************************)
EXTENDS Integers, Sequences, FiniteSets, FiniteSetsExt

CONSTANTS
  PGSIZE, NPT, NUT,   \* see above
  NPAGES,             \* pages that kinit1 and kinit2 find
  NSPACE,             \* processes
  GrowBy,             \* bound: arguments of sbrk, moved up by Shift
  Shift,
  Segments,           \* sizes of programs
  ArgLens,            \* lengths of argument lists
  MaxStores           \* bound: words that programs store

(* The first process needs 6 pages: twice a directory with the table for   *)
(* the kernel, a page and its table.  A user can have more than one page.  *)
ASSUME VmAssumption ==
  /\ PGSIZE \in Nat \ {0} /\ NPT \in Nat \ {0} /\ NUT \in Nat \ {0} /\ NUT * NPT > 1
  /\ NPAGES \in Nat /\ NPAGES >= 6
  /\ NSPACE \in Nat \ {0} /\ GrowBy \subseteq Nat /\ Shift \in Nat /\ Segments \subseteq Nat
  /\ ArgLens \subseteq Nat /\ MaxStores \in Nat

VARIABLES
  h,       \* the memory
  space,   \* per process: pgdir (0 if the slot is free) and sz
  image,   \* what each process expects in its pages
  stores,  \* words stored so far
  undone   \* the last call failed

vmvars == <<h, space, image, stores, undone>>

Frames == 1..NPAGES
Spaces == 1..NSPACE
KERNBASE == NUT * NPT * PGSIZE
UWRAP    == 2 * KERNBASE + PGSIZE   \* addresses are taken modulo this (2^32)
Kernel   == 0 - 1                   \* memory that kalloc does not manage

PGROUNDUP(a)   == ((a + PGSIZE - 1) \div PGSIZE) * PGSIZE
PDX(a) == a \div (NPT * PGSIZE)
PTX(a) == (a \div PGSIZE) % NPT

NoPte   == [pa |-> 0, u |-> FALSE]
Indices == 0..(IF NPT > NUT THEN NPT ELSE NUT)
Zeroed  == [j \in Indices |-> NoPte]

kpanic(m, f) == IF m.fault = "none" THEN [m EXCEPT !.fault = f] ELSE m
-----------------------------------------------------------------------------
(* The free list, as a set: which of its pages kalloc returns does not     *)
(* matter.  The code would not notice a page that is freed twice.  A free  *)
(* page holds junk.                                                        *)
kfree(m, f) ==
  IF f \notin Frames THEN kpanic(m, "kfree")
  ELSE IF f \in m.free THEN kpanic(m, "freed twice")
  ELSE [m EXCEPT !.free = @ \cup {f}, !.tab[f] = Zeroed, !.data[f] = "junk"]
kalloc(m) ==
  IF m.free = {} THEN [m |-> m, f |-> 0]
  ELSE [m |-> [m EXCEPT !.free = @ \ {Min(m.free)}], f |-> Min(m.free)]

freerange ==
  LET R[j \in 0..NPAGES] ==
        IF j = 0 THEN [free |-> {}, tab |-> [f \in Frames |-> Zeroed],
                       data |-> [f \in Frames |-> "junk"], fault |-> "none", kpgdir |-> 0]
        ELSE kfree(R[j - 1], j)
  IN  R[NPAGES]

(* walkpgdir: the table for address a, 0 if there is none. *)
walkpgdir(m, pgdir, a, alloc) ==
  LET New(n) == IF n.f = 0 THEN [m |-> m, t |-> 0]
                ELSE [m |-> [n.m EXCEPT !.tab[pgdir][PDX(a)] = [pa |-> n.f, u |-> TRUE],
                                        !.data[n.f] = "0"], t |-> n.f]
      Old(t) == IF t # 0 THEN [m |-> m, t |-> t]
                ELSE IF ~alloc THEN [m |-> m, t |-> 0] ELSE New(kalloc(m))
  IN  Old(m.tab[pgdir][PDX(a)].pa)

Pte(m, pgdir, a) ==
  LET In(t) == IF t = 0 THEN NoPte ELSE m.tab[t][PTX(a)] IN In(m.tab[pgdir][PDX(a)].pa)

(* mappages, of one page. *)
mappages(m, pgdir, a, pa, u) ==
  LET In(w) ==
        IF w.t = 0 THEN [m |-> w.m, ok |-> FALSE]
        ELSE IF w.m.tab[w.t][PTX(a)].pa # 0 THEN [m |-> kpanic(w.m, "remap"), ok |-> FALSE]
        ELSE [m |-> [w.m EXCEPT !.tab[w.t][PTX(a)] = [pa |-> pa, u |-> u]], ok |-> TRUE]
  IN  In(walkpgdir(m, pgdir, a, TRUE))

(* deallocuvm: page tables that are missing are skipped. *)
deallocuvm(m, pgdir, oldsz, newsz) ==
  LET Drop(v, t, pa, x) == IF pa = 0 THEN v ELSE [kfree(v, pa) EXCEPT !.tab[t][x] = NoPte]
      Page(v, a) == Drop(v, v.tab[pgdir][PDX(a)].pa, Pte(v, pgdir, a).pa, PTX(a))
      Pages(first, last) ==
        LET D[j \in first - 1..last] == IF j < first THEN m ELSE Page(D[j - 1], j * PGSIZE)
        IN  IF last < first THEN m ELSE D[last]
  IN  IF newsz >= oldsz THEN [m |-> m, sz |-> oldsz]
      ELSE [m |-> Pages(PGROUNDUP(newsz) \div PGSIZE, (oldsz - 1) \div PGSIZE), sz |-> newsz]

(* freevm: user pages, page tables, the directory. *)
freevm(m, pgdir) ==
  LET FreeTables(v) ==
        LET Drop(w, t) == IF t = 0 THEN w ELSE kfree(w, t)
            F[i \in -1..NUT] == IF i = -1 THEN v ELSE Drop(F[i - 1], v.tab[pgdir][i].pa)
        IN  F[NUT]
  IN  IF pgdir = 0 THEN kpanic(m, "freevm: no pgdir")
      ELSE kfree(FreeTables(deallocuvm(m, pgdir, KERNBASE, 0).m), pgdir)

(* A directory d whose making has come to r: given back if it failed. *)
Whole(r, d) == IF r.ok THEN [m |-> r.m, d |-> d] ELSE [m |-> freevm(r.m, d), d |-> 0]

(* setupkvm: the same kernel mappings for everyone; 0 if it fails. *)
kmap == {KERNBASE + j * PGSIZE : j \in 0..NPT - 1}
setupkvm(m) ==
  LET Map(v, d, j) == IF ~v.ok THEN v
                      ELSE mappages(v.m, d, KERNBASE + (j - 1) * PGSIZE, Kernel, FALSE)
      Filled(z, d) ==
        LET M[j \in 0..NPT] == IF j = 0 THEN [m |-> z, ok |-> TRUE] ELSE Map(M[j - 1], d, j)
        IN  M[NPT]
      In(d) == IF d.f = 0 THEN [m |-> m, d |-> 0]
               ELSE Whole(Filled([d.m EXCEPT !.tab[d.f] = Zeroed, !.data[d.f] = "0"], d.f), d.f)
  IN  In(kalloc(m))

(* allocuvm: the new size, or 0 with everything given back. *)
UndoneKeep(m, pgdir, newsz, oldsz) == m
Undone(m, pgdir, newsz, oldsz) == deallocuvm(m, pgdir, newsz, oldsz).m
Extend(m, pgdir, oldsz, newsz) ==
  LET Mapped(x, f) ==
        IF x.ok THEN x
        ELSE [m |-> kfree(Undone(x.m, pgdir, newsz, oldsz), f), ok |-> FALSE]
      Got(n, j) ==
        IF n.f = 0 THEN [m |-> Undone(n.m, pgdir, newsz, oldsz), ok |-> FALSE]
        ELSE Mapped(mappages([n.m EXCEPT !.data[n.f] = "0"], pgdir, j * PGSIZE, n.f, TRUE), n.f)
      Page(v, j) == IF ~v.ok THEN v ELSE Got(kalloc(v.m), j)
      Pages(first, last) ==
        LET A[j \in first - 1..last] ==
              IF j < first THEN [m |-> m, ok |-> TRUE] ELSE Page(A[j - 1], j)
        IN  IF last < first THEN [m |-> m, ok |-> TRUE] ELSE A[last]
  IN  Pages(PGROUNDUP(oldsz) \div PGSIZE, (newsz - 1) \div PGSIZE)

allocuvm(m, pgdir, oldsz, newsz) ==
  LET To(e) == [m |-> e.m, sz |-> IF e.ok THEN newsz ELSE 0]
  IN  IF newsz >= KERNBASE THEN [m |-> m, sz |-> 0]
      ELSE IF newsz < oldsz THEN [m |-> m, sz |-> oldsz]
      ELSE To(Extend(m, pgdir, oldsz, newsz))

(* clearpteu *)
clearpteu(m, pgdir, a) ==
  LET t == m.tab[pgdir][PDX(a)].pa
  IN  IF t = 0 THEN kpanic(m, "clearpteu") ELSE [m EXCEPT !.tab[t][PTX(a)].u = FALSE]

(* copyuvm: a copy of every page, with its flags. *)
CopyPageShare(m, d, a, pte) == mappages(m, d, a, pte.pa, pte.u)
CopyPage(m, d, a, pte) ==
  LET Mapped(x, f) == IF x.ok THEN x ELSE [m |-> kfree(x.m, f), ok |-> FALSE]
      Got(n) == IF n.f = 0 THEN [m |-> n.m, ok |-> FALSE]
                ELSE Mapped(mappages([n.m EXCEPT !.data[n.f] = m.data[pte.pa]], d, a, n.f, pte.u), n.f)
  IN  IF pte.pa = 0 THEN [m |-> kpanic(m, "copyuvm: page not present"), ok |-> FALSE]
      ELSE Got(kalloc(m))
copyuvm(m, pgdir, sz) ==
  LET Page(v, d, a) == IF ~v.ok THEN v ELSE CopyPage(v.m, d, a, Pte(v.m, pgdir, a))
      Into(v, d, n) ==
        LET C[j \in 0..n] == IF j = 0 THEN [m |-> v, ok |-> TRUE] ELSE Page(C[j - 1], d, (j - 1) * PGSIZE)
        IN  C[n]
      In(d) == IF d.d = 0 THEN d ELSE Whole(Into(d.m, d.d, PGROUNDUP(sz) \div PGSIZE), d.d)
  IN  In(setupkvm(m))

(* loaduvm and copyout put a word into each page they touch; copyout only  *)
(* into pages of the user.                                                 *)
Fill(m, pgdir, pages, word) ==
  [m EXCEPT !.data = [f \in Frames |->
     IF \E j \in pages : Pte(m, pgdir, j * PGSIZE).pa = f THEN word ELSE @[f]]]
uva2ka(m, pgdir, a) == LET p == Pte(m, pgdir, a) IN IF p.u THEN p.pa ELSE 0
Touched(a, len) == IF len = 0 THEN {} ELSE a \div PGSIZE..(a + len - 1) \div PGSIZE
-----------------------------------------------------------------------------
(* main and userinit: a page for initcode. *)
Userinit(x, kpgdir, d) ==
  /\ h = [x.m EXCEPT !.kpgdir = kpgdir]
  /\ space = [s \in Spaces |-> IF s = 1 THEN [pgdir |-> d, sz |-> PGSIZE]
                               ELSE [pgdir |-> 0, sz |-> 0]]
  /\ image = [s \in Spaces |-> IF s = 1 THEN <<"code">> ELSE <<>>]
  /\ stores = 0 /\ undone = FALSE
VmInit ==
  \E k \in {setupkvm(freerange)} :      \* kpgdir
  \E d \in {setupkvm(k.m)} :
  \E n \in {kalloc(d.m)} :
  \E x \in {mappages([n.m EXCEPT !.data[n.f] = "code"], d.d, 0, n.f, TRUE)} :
    Userinit(x, k.d, d.d)

InUse(s) == h.fault = "none" /\ space[s].pgdir # 0
NPages(sz) == PGROUNDUP(sz) \div PGSIZE

VmFork(s, t) ==
  /\ InUse(s) /\ space[t].pgdir = 0
  /\ \E c \in {copyuvm(h, space[s].pgdir, space[s].sz)} :
       /\ h' = c.m
       /\ undone' = (c.d = 0)
       /\ space' = IF c.d = 0 THEN space
                   ELSE [space EXCEPT ![t] = [pgdir |-> c.d, sz |-> space[s].sz]]
       /\ image' = IF c.d = 0 THEN image ELSE [image EXCEPT ![t] = image[s]]
  /\ UNCHANGED stores

(* growproc: a result of 0 counts as failure.  When all pages have been    *)
(* given up, the size stays, and the process, left without code, faults,   *)
(* exits and is waited for; init never calls sbrk.                         *)
Forget(s) == [space EXCEPT ![s] = [pgdir |-> 0, sz |-> 0]]
Resized(pgdir, sz, n) ==
  IF n > 0 THEN allocuvm(h, pgdir, sz, (sz + n) % UWRAP)
  ELSE IF n < 0 THEN deallocuvm(h, pgdir, sz, (sz + n) % UWRAP)
  ELSE [m |-> h, sz |-> sz]
VmGrow(s, n) ==
  /\ InUse(s)
  /\ \E r \in {Resized(space[s].pgdir, space[s].sz, n)} :
       \/ /\ n < 0 /\ r.sz = 0 /\ s # 1
          /\ h' = freevm(r.m, space[s].pgdir)
          /\ undone' = FALSE
          /\ space' = Forget(s)
          /\ image' = [image EXCEPT ![s] = <<>>]
       \/ /\ ~(n < 0 /\ r.sz = 0)
          /\ h' = r.m
          /\ undone' = (n > 0 /\ r.sz = 0)
          /\ space' = [space EXCEPT ![s].sz = IF r.sz = 0 THEN @ ELSE r.sz]
          /\ image' = [image EXCEPT ![s] =
               [j \in 1..NPages(space'[s].sz) |-> IF j <= Len(@) THEN @[j] ELSE "0"]]
  /\ UNCHANGED stores

(* exec: segment of size n, a page to protect the stack, the stack, and    *)
(* arguments of total length len, which must fit into the stack.           *)
Bad(m) == h' = m /\ undone' = TRUE /\ UNCHANGED <<space, image>>
Commit(s, m, d, n, sz, T) ==
  /\ h' = freevm(Fill(m, d, T, "args"), space[s].pgdir)
  /\ undone' = FALSE
  /\ space' = [space EXCEPT ![s] = [pgdir |-> d, sz |-> sz]]
  /\ image' = [image EXCEPT ![s] = [j \in 1..NPages(sz) |->
       IF j <= NPages(n) THEN "code" ELSE IF j - 1 \in T THEN "args" ELSE "0"]]
Argued(s, m, d, n, sz, len) ==
  \E T \in {Touched(sz - len, len)} :
    IF len <= sz /\ \A j \in T : uva2ka(m, d, j * PGSIZE) # 0
    THEN Commit(s, m, d, n, sz, T) ELSE Bad(freevm(m, d))
Stacked(s, m, d, n, len, base) ==
  \E b \in {allocuvm(m, d, base, base + 2 * PGSIZE)} :
    IF b.sz = 0 THEN Bad(freevm(b.m, d))
    ELSE \E c \in {clearpteu(b.m, d, base)} : Argued(s, c, d, n, b.sz, len)
VmExec(s, n, len) ==
  /\ InUse(s)
  /\ \E k \in {setupkvm(h)} :
       IF k.d = 0 THEN Bad(k.m)
       ELSE \E a \in {allocuvm(k.m, k.d, 0, n)} :
              IF a.sz = 0 THEN Bad(freevm(a.m, k.d))
              ELSE Stacked(s, Fill(a.m, k.d, 0..NPages(n) - 1, "code"), k.d, n, len, PGROUNDUP(n))
  /\ UNCHANGED stores

(* wait, for a child that has exited. *)
VmFree(s) ==
  /\ InUse(s) /\ s # 1
  /\ h' = freevm(h, space[s].pgdir)
  /\ space' = Forget(s)
  /\ image' = [image EXCEPT ![s] = <<>>]
  /\ undone' = FALSE
  /\ UNCHANGED stores

(* A program stores a word; an address it may not use is a page fault. *)
VmStore(s, j) ==
  /\ InUse(s) /\ stores < MaxStores /\ j < NPages(space[s].sz)
  /\ LET f == uva2ka(h, space[s].pgdir, j * PGSIZE)
         word == IF s = 1 THEN "mine" ELSE "other"
     IN  /\ f # 0
         /\ h' = [h EXCEPT !.data[f] = word]
         /\ image' = [image EXCEPT ![s][j + 1] = word]
  /\ stores' = stores + 1
  /\ undone' = FALSE
  /\ UNCHANGED space

VmNext ==
  \E s \in Spaces :
    \/ \E t \in Spaces : VmFork(s, t)
    \/ \E n \in GrowBy : VmGrow(s, n - Shift)
    \/ \E n \in Segments, len \in ArgLens : VmExec(s, n, len)
    \/ VmFree(s)
    \/ \E j \in 0..NUT * NPT - 1 : VmStore(s, j)
VmSpec == VmInit /\ [][VmNext]_vmvars

-----------------------------------------------------------------------------
(* Types of the memory and of the address spaces. *)
VmTypeOK ==
  /\ \A s \in Spaces : space[s].pgdir \in Frames \cup {0} /\ space[s].sz \in 0..KERNBASE - 1
  /\ \A f \in Frames : \A j \in Indices : h.tab[f][j].pa \in Frames \cup {0, Kernel}
  /\ undone \in BOOLEAN

(* No call of kfree, freevm, mappages, copyuvm or clearpteu panics. *)
VmNoPanic == h.fault = "none"

(* Every page is in one place: in the free list, or it is a directory, a   *)
(* page table of one directory, or a page of one process.  So no failing   *)
(* fork, exec or sbrk loses a page or gives one back twice.                *)
Directories == {h.kpgdir} \cup ({space[s].pgdir : s \in Spaces} \ {0})
Uses(f) ==
  Cardinality({f} \cap h.free)
  + Cardinality({d \in Directories : d = f})
  + Cardinality({x \in Directories \X (0..NUT) : h.tab[x[1]][x[2]].pa = f})
  + Cardinality({x \in Directories \X (0..NUT * NPT - 1) : Pte(h, x[1], x[2] * PGSIZE).pa = f})
PagesUsedOnce == h.fault = "none" => \A f \in Frames : Uses(f) = 1

(* A process sees its own memory: the pages below its size are there and   *)
(* hold what it left there (copied by fork, zero when new), none is there  *)
(* above, whatever other processes do.  The kernel is mapped everywhere.   *)
SeesOwnMemory ==
  \A s \in Spaces : space[s].pgdir # 0 /\ h.fault = "none" =>
    /\ Len(image[s]) = NPages(space[s].sz)
    /\ \A j \in 0..NUT * NPT - 1 :
         LET f == Pte(h, space[s].pgdir, j * PGSIZE).pa
         IN  IF j < Len(image[s]) THEN f # 0 /\ h.data[f] = image[s][j + 1] ELSE f = 0
    /\ \A a \in kmap : Pte(h, space[s].pgdir, a) = [pa |-> Kernel, u |-> FALSE]

(* A fork, exec or sbrk that fails for lack of memory changes no process,  *)
(* and takes no page but for page tables that stay with their directory.   *)
Tables == {h.tab[d][i].pa : d \in Directories, i \in 0..NUT} \ {0}
FailureUndone ==
  [][undone' => /\ space' = space /\ image' = image
                /\ h'.free \subseteq h.free
                /\ h.free \ h'.free = Tables' \ Tables]_vmvars

(* Memory at every step: a page is on the free list or has one use, a      *)
(* process sees its own memory and nothing of another, and no loop over    *)
(* page tables meets a state it panics in (kalloc, kfree, mappages,        *)
(* allocuvm, deallocuvm, copyuvm, freevm).                                 *)
VmInv == VmTypeOK /\ VmNoPanic /\ PagesUsedOnce /\ SeesOwnMemory
=============================================================================
