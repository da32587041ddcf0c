-------------------------------- MODULE Boot --------------------------------
(***************************************************************************)
(* From the boot block to the first process: bootmain.c loads the kernel,  *)
(* mp.c looks for the processors, main.c sets the kernel up and starts the *)
(* other processors one after the other, each of which takes its stack     *)
(* from words in front of the code at 0x7000 (entryother.S).               *)
(*                                                                         *)
(* The BIOS, the processors' answer to startup interrupts and the I/O APIC *)
(* are modelled as the code uses them.                                     *)
(***************************************************************************)
EXTENDS Integers, Sequences, FiniteSets, FiniteSetsExt

CONSTANTS
  MaxNcpu,     \* NCPU of param.h
  PcMachines,  \* machines: entries of the MP table, where the BIOS put it, is it valid
  LOW, HIGH,   \* pages below and above 4 Mbyte
  SECTSIZE,    \* bytes of a sector
  RAM,         \* bytes of memory that the loader fills
  KSegments    \* kernels: sequences of segments

(* There is a page for each processor and one for the kernel's page table. *)
(* The segments of a kernel are in memory in the order of the file, and    *)
(* where one begins in the middle of a sector the start of that sector     *)
(* does not reach back into the one before (kernel.ld: data on a new page).*)
ASSUME BootAssumption ==
  /\ MaxNcpu \in Nat \ {0} /\ LOW \in Nat /\ LOW > MaxNcpu /\ HIGH \in Nat \ {0}
  /\ SECTSIZE \in Nat \ {0} /\ RAM \in Nat
  /\ \A m \in PcMachines : m.table \in Seq([type : STRING, id : Nat])
  /\ \A e \in KSegments :
       /\ e \in Seq([pa : Nat, off : Nat, filesz : Nat, memsz : Nat])
       /\ \A j \in DOMAIN e : e[j].pa + e[j].memsz <= RAM
       /\ \A i, j \in DOMAIN e : i < j => e[i].pa + e[i].memsz <= e[j].pa - (e[j].off % SECTSIZE)

VARIABLES
  elf,      \* segments of the kernel
  ram,      \* memory, where the loader puts the kernel
  pcm,      \* the machine
  mpp,      \* the entry of the MP table that mpinit looks at
  ids,      \* cpus: APIC ids in their order
  main,     \* the segment loaded last, step of main, processor started last
  slot,     \* the word at code-4: the stack
  ap,       \* per APIC id: where it is, its stack, started
  sipi,     \* startup interrupts on their way
  kmem,     \* free pages, use_lock, main is in freerange, a process allocates
  have,     \* what is set up
  early,    \* something was used before it was set up
  routes,   \* APIC ids that interrupts go to
  initproc  \* state of the first process

bvars == <<elf, ram, pcm, mpp, ids, main, slot, ap, sipi, kmem, have, early, routes, initproc>>
-----------------------------------------------------------------------------
(* readseg: sectors from the one that holds offset to the one that holds   *)
(* the last byte; a byte of the file is its place, counted from 1.         *)
Sectors(m, from, to, off) ==
  LET n == IF to > from THEN (to - from + SECTSIZE - 1) \div SECTSIZE ELSE 0
  IN  [a \in DOMAIN m |-> IF a \in from..from + n * SECTSIZE - 1
                          THEN (off \div SECTSIZE) * SECTSIZE + (a - from) + 1 ELSE m[a]]
readseg(m, pa, count, off) == Sectors(m, pa - (off % SECTSIZE), pa + count, off)

(* One turn of the loop of bootmain. *)
LoadSegment ==
  LET g == elf[main.ph + 1]
      m == readseg(ram, g.pa, g.filesz, g.off)
  IN  /\ main.ph < Len(elf) /\ main.step = 0
      /\ ram' = [a \in DOMAIN m |-> IF a \in g.pa + g.filesz..g.pa + g.memsz - 1 THEN 0 ELSE m[a]]
      /\ main' = [main EXCEPT !.ph = @ + 1]
      /\ UNCHANGED <<elf, pcm, mpp, ids, slot, ap, sipi, kmem, have, early, routes, initproc>>

Entry ==
  /\ main.ph = Len(elf) /\ main.step = 0
  /\ main' = [main EXCEPT !.step = 1]
  /\ UNCHANGED <<elf, ram, pcm, mpp, ids, slot, ap, sipi, kmem, have, early, routes, initproc>>
-----------------------------------------------------------------------------
(* The calls of main, in their order. *)
Main == <<"kinit1", "kvmalloc", "mpinit", "lapicinit", "seginit", "picinit", "ioapicinit",
  "consoleinit", "uartinit", "pinit", "tvinit", "binit", "fileinit", "ideinit", "startothers",
  "kinit2", "userinit", "mpmain">>
At0(s) == main.step > 0 /\ main.step <= Len(Main) /\ Main[main.step] = s

(* What a call uses: pages to allocate, the mapping of devices in the      *)
(* kernel's page table, the list of processors for mycpu, and so on.       *)
Uses0(s) ==
  CASE s = "kvmalloc" -> {"pages"}
    [] s = "lapicinit" -> {"kpgdir", "lapic"}
    [] s = "seginit" -> {"cpus", "lapic"}
    [] s = "ioapicinit" -> {"kpgdir"}
    [] s \in {"consoleinit", "uartinit"} -> {"ioapic"}
    [] s = "ideinit" -> {"ioapic", "cpus"}
    [] s = "startothers" -> {"pages", "cpus", "idt", "cons", "ptable"}
    [] s = "userinit" -> {"pages", "cpus", "ptable", "lapic"}
    [] s = "mpmain" -> {"cpus", "lapic", "idt", "cons", "ptable", "segs"}
    [] OTHER -> {}
Gives(s) ==
  CASE s = "kinit1" -> {"pages"} [] s = "kvmalloc" -> {"kpgdir"} [] s = "mpinit" -> {"cpus", "lapic"}
    [] s = "seginit" -> {"segs"} [] s = "ioapicinit" -> {"ioapic"} [] s = "consoleinit" -> {"cons"}
    [] s = "pinit" -> {"ptable"} [] s = "tvinit" -> {"idt"} [] OTHER -> {}

Enter(s) == early' = (early \/ ~(Uses0(s) \subseteq have))
Leave(s) == have' = have \cup Gives(s) /\ main' = [main EXCEPT !.step = @ + 1]

ncpu == Len(ids)
ioapicenable(cpunum) == routes' = routes \cup {cpunum}

(* The calls that touch nothing another processor or call can see here,    *)
(* but what they give, and those that route an interrupt.                  *)
Call ==
  \E s \in {"kvmalloc", "lapicinit", "seginit", "picinit", "ioapicinit", "pinit", "tvinit", "binit",
            "fileinit", "consoleinit", "uartinit", "ideinit"} :
    /\ At0(s) /\ Enter(s) /\ Leave(s)
    /\ IF s \in {"consoleinit", "uartinit"} THEN ioapicenable(0)
       ELSE IF s = "ideinit" THEN ioapicenable(ncpu - 1) ELSE UNCHANGED routes
    /\ kmem' = IF s = "kvmalloc" THEN [kmem EXCEPT !.free = @ \ {Max(@)}, !.used = {Max(kmem.free)}] ELSE kmem
    /\ UNCHANGED <<elf, ram, pcm, mpp, ids, slot, ap, sipi, initproc>>

(* freerange without the lock, page by page; kalloc takes the page that    *)
(* was freed last, here the highest.                                       *)
kinit(s, first, last) ==
  LET left == (first..last) \ (kmem.free \cup kmem.used)
  IN  /\ At0(s) /\ Enter(s)
      /\ IF left = {} THEN /\ kmem' = [kmem EXCEPT !.use_lock = s = "kinit2", !.boot = FALSE]
                           /\ Leave(s)
         ELSE /\ kmem' = [kmem EXCEPT !.free = @ \cup {Min(left)}, !.boot = TRUE]
              /\ UNCHANGED <<have, main>>
      /\ UNCHANGED <<elf, ram, pcm, mpp, ids, slot, ap, sipi, routes, initproc>>
kinit1 == kinit("kinit1", 1, LOW)
kinit2 == kinit("kinit2", LOW + 1, LOW + HIGH)

(* mpsearch: the extended BIOS data area if the BIOS names one, or else    *)
(* the end of base memory, and then the upper half of the BIOS.            *)
mpsearch(m) ==
  \/ IF m.ebda THEN m.at = "ebda" ELSE m.at = "base"
  \/ m.at = "F0000"

(* mpconfig: signature, version and checksum of the table found. *)
mpconfig(m) == mpsearch(m) /\ m.conf

(* mpinit, entry by entry.  Without a table it panics ("Expect to run on   *)
(* an SMP"): no step follows.  The break of the default case leaves the    *)
(* switch and not the loop, which then looks at the same entry again.      *)
HasSlot(n) == n < MaxNcpu
mpinit ==
  LET x == pcm.table[mpp]
  IN  /\ At0("mpinit") /\ mpconfig(pcm) /\ Enter("mpinit")
      /\ IF mpp > Len(pcm.table) THEN Leave("mpinit") /\ UNCHANGED <<ids, mpp>>
         ELSE /\ ids' = IF x.type = "MPPROC" /\ HasSlot(ncpu) THEN Append(ids, x.id) ELSE ids
              /\ mpp' = IF x.type = "other" THEN mpp ELSE mpp + 1
              /\ UNCHANGED <<have, main>>
      /\ UNCHANGED <<elf, ram, pcm, slot, ap, sipi, kmem, routes, initproc>>
-----------------------------------------------------------------------------
(* startothers: the stack of the next processor, and the startup interrupt *)
(* twice; then it waits.  mycpu is skipped.                                *)
WaitsNot(c) == FALSE
WaitsFor(c) == ~ap[c].started
IsMycpu(c) == c = pcm.bsp
StartNext ==
  LET n == main.cpu + 1
      page == Max(kmem.free)
  IN  /\ At0("startothers") /\ Enter("startothers")
      /\ main.cpu > 0 /\ ~IsMycpu(ids[main.cpu]) => ~WaitsFor(ids[main.cpu])
      /\ IF n > ncpu THEN Leave("startothers") /\ UNCHANGED <<slot, sipi, kmem>>
         ELSE /\ main' = [main EXCEPT !.cpu = n]
              /\ UNCHANGED have
              /\ IF IsMycpu(ids[n]) THEN UNCHANGED <<slot, sipi, kmem>>
                 ELSE /\ kmem' = [kmem EXCEPT !.free = @ \ {page}, !.used = @ \cup {page}]
                      /\ slot' = page
                      /\ sipi' = [sipi EXCEPT ![ids[n]] = 2]
      /\ UNCHANGED <<elf, ram, pcm, mpp, ids, ap, routes, initproc>>

(* A processor takes a startup interrupt only when it is halted. *)
Sipi(c) ==
  /\ sipi[c] > 0
  /\ sipi' = [sipi EXCEPT ![c] = @ - 1]
  /\ ap' = IF ap[c].at = "halted" THEN [ap EXCEPT ![c].at = "entryother"] ELSE ap
  /\ UNCHANGED <<elf, ram, pcm, mpp, ids, main, slot, kmem, have, early, routes, initproc>>

(* entryother.S, mpenter and mpmain on another processor. *)
Entryother(c) ==
  /\ ap[c].at = "entryother"
  /\ ap' = [ap EXCEPT ![c].at = "mpenter", ![c].stack = slot]
  /\ UNCHANGED <<elf, ram, pcm, mpp, ids, main, slot, sipi, kmem, have, early, routes, initproc>>
mpenter(c) ==
  /\ ap[c].at = "mpenter"
  /\ ap' = [ap EXCEPT ![c].at = "mpmain"]
  /\ early' = (early \/ ~({"kpgdir", "cpus", "lapic"} \subseteq have))
  /\ UNCHANGED <<elf, ram, pcm, mpp, ids, main, slot, sipi, kmem, have, routes, initproc>>
ApMain(c) ==
  /\ ap[c].at = "mpmain"
  /\ ap' = [ap EXCEPT ![c].at = "scheduler", ![c].started = TRUE]
  /\ early' = (early \/ ~({"cons", "idt"} \subseteq have))
  /\ UNCHANGED <<elf, ram, pcm, mpp, ids, main, slot, sipi, kmem, have, routes, initproc>>

userinit ==
  /\ At0("userinit") /\ Enter("userinit") /\ Leave("userinit")
  /\ kmem' = [kmem EXCEPT !.free = @ \ {Max(@)}, !.used = @ \cup {Max(kmem.free)}]
  /\ initproc' = "RUNNABLE"
  /\ UNCHANGED <<elf, ram, pcm, mpp, ids, slot, ap, sipi, routes>>

mpmain ==
  /\ At0("mpmain") /\ Enter("mpmain") /\ Leave("mpmain")
  /\ ap' = [ap EXCEPT ![pcm.bsp] = [@ EXCEPT !.at = "scheduler", !.started = TRUE]]
  /\ UNCHANGED <<elf, ram, pcm, mpp, ids, slot, sipi, kmem, routes, initproc>>

(* A scheduler runs the first process, which allocates memory: with the    *)
(* lock, if use_lock is set.                                               *)
RunInit(c) ==
  /\ ap[c].at = "scheduler" /\ initproc = "RUNNABLE"
  /\ ap' = [ap EXCEPT ![c].at = "init"] /\ initproc' = "RUNNING"
  /\ kmem' = [kmem EXCEPT !.user = TRUE]
  /\ UNCHANGED <<elf, ram, pcm, mpp, ids, main, slot, sipi, have, early, routes>>
-----------------------------------------------------------------------------
AllIds == {pcm.table[j].id : j \in {i \in DOMAIN pcm.table : pcm.table[i].type = "MPPROC"}}

BootInit ==
  /\ elf \in KSegments /\ ram = [a \in 0..RAM - 1 |-> 0 - 1]
  /\ pcm \in PcMachines
  /\ mpp = 1 /\ ids = <<>> /\ main = [ph |-> 0, step |-> 0, cpu |-> 0] /\ slot = 0
  /\ ap = [c \in AllIds |-> [at |-> IF c = pcm.bsp THEN "main" ELSE "halted", stack |-> 0, started |-> FALSE]]
  /\ sipi = [c \in AllIds |-> 0]
  /\ kmem = [free |-> {}, used |-> {}, use_lock |-> FALSE, boot |-> FALSE, user |-> FALSE]
  /\ have = {} /\ early = FALSE /\ routes = {} /\ initproc = "UNUSED"

BspStep == LoadSegment \/ Entry \/ Call \/ kinit1 \/ kinit2 \/ mpinit \/ StartNext \/ userinit \/ mpmain
ApStep(c) == Sipi(c) \/ Entryother(c) \/ mpenter(c) \/ ApMain(c)
BootNext == BspStep \/ \E c \in AllIds : ApStep(c) \/ RunInit(c)
BootSpec == BootInit /\ [][BootNext]_bvars
-----------------------------------------------------------------------------
(* Types; besides, a page is free or used, not both. *)
BootTypeOK ==
  /\ kmem.free \subseteq 1..LOW + HIGH /\ kmem.free \cap kmem.used = {}
  /\ main.step \in 0..Len(Main) + 1 /\ main.cpu \in 0..ncpu
  /\ {ids[j] : j \in DOMAIN ids} \subseteq AllIds /\ ncpu <= MaxNcpu

(* The loader reads whole sectors and more than asked for, and still every *)
(* byte of every segment is the file's or zero when the kernel is entered  *)
(* (readseg: "it doesn't matter -- we load in increasing order").          *)
LoadExact ==
  main.step = 1 => \A j \in DOMAIN elf : \A i \in 0..elf[j].memsz - 1 :
    ram[elf[j].pa + i] = IF i < elf[j].filesz THEN elf[j].off + i + 1 ELSE 0

(* No call of main, and no processor that starts meanwhile, uses what is   *)
(* not set up yet (main's order).                                          *)
InOrder == ~early

(* Each processor that starts has a stack of its own, in the memory that   *)
(* the boot page table maps, although all read it from the same word       *)
(* (startothers, entryother.S).                                            *)
OwnStacks ==
  \A c \in DOMAIN ap : ap[c].stack # 0 =>
    /\ ap[c].stack \in 1..LOW /\ ap[c].stack \notin kmem.free
    /\ \A d \in DOMAIN ap \ {c} : ap[d].stack # ap[c].stack

(* While kalloc and kfree take no lock, no other processor is in them: the *)
(* first process runs only after kinit2.                                   *)
UnlockedAlone == kmem.user => kmem.use_lock /\ ~kmem.boot

(* The boot ends: every processor of the table, up to MaxNcpu, is started, *)
(* the first process runs, and where the APIC ids are the numbers of the   *)
(* processors each interrupt that is enabled goes to one of them (main,    *)
(* mpinit, startothers, ioapicenable).                                     *)
Sound(m) == mpconfig(m) /\ \A j \in DOMAIN m.table : m.table[j].type # "other"
Numbered == {ids[j] : j \in DOMAIN ids} = 0..ncpu - 1
Booted ==
  /\ initproc = "RUNNING" /\ ncpu = Min({Cardinality(AllIds), MaxNcpu})
  /\ \A j \in DOMAIN ids : ap[ids[j]].started
  /\ Numbered => \A c \in routes : ap[c].started
Boots == Sound(pcm) ~> Booted

(* The start of the machine at every step: the loader leaves the segments  *)
(* as they are in the file (bootmain, readseg), main calls nothing before  *)
(* what it needs, each processor starts on a stack of its own              *)
(* (startothers), and memory is shared with a lock once there are users    *)
(* (kinit2).                                                               *)
BootInv == BootTypeOK /\ LoadExact /\ InOrder /\ OwnStacks /\ UnlockedAlone
=============================================================================
