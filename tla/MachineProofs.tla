--------------------------- MODULE MachineProofs ---------------------------
(***************************************************************************)
(* Proofs about the start of the machine (module Boot), its clock (module  *)
(* Rtc) and its memory (module Vm).                                        *)
(*                                                                         *)
(* The first part is for every kernel, table of processors and number of   *)
(* pages that BootAssumption allows.  Its invariant BootGood says what the *)
(* loader has left in memory so far, what main has set up by each of its   *)
(* steps, that enough pages are left for the processors still to start,    *)
(* and that a processor about to read its stack is the one startothers     *)
(* waits for.                                                              *)
(*                                                                         *)
(* The second part is about cmostime, for every time at which the clock    *)
(* starts and every call that takes less than a minute.                    *)
(*                                                                         *)
(* The third part is about pages and address spaces, for every size that   *)
(* VmAssumption allows.  Owned gives each page one role (free, held by a   *)
(* call, directory, table or page of a process), Kept says what a call     *)
(* leaves as it was; there are lemmas for each function of kalloc.c and    *)
(* vm.c in these terms, and Fits, the invariant, says that memory and the  *)
(* address spaces belong together.                                         *)
(***************************************************************************)
EXTENDS Boot, Rtc, Vm, Recursion, FiniteSetTheorems, TLAPS
-----------------------------------------------------------------------------
(* The first steps of main, by number. *)
LEMMA MainIs ==
  /\ Len(Main) = 18
  /\ Main[1] = "kinit1" /\ Main[2] = "kvmalloc" /\ Main[3] = "mpinit" /\ Main[4] = "lapicinit"
  /\ Main[5] = "seginit" /\ Main[6] = "picinit" /\ Main[7] = "ioapicinit"
  /\ Main[8] = "consoleinit" /\ Main[9] = "uartinit" /\ Main[10] = "pinit"
  /\ Main[11] = "tvinit" /\ Main[12] = "binit" /\ Main[13] = "fileinit" /\ Main[14] = "ideinit"
  /\ Main[15] = "startothers" /\ Main[16] = "kinit2" /\ Main[17] = "userinit"
  /\ Main[18] = "mpmain"
BY DEF Main

(* Where main is when it makes a call. *)
LEMMA CallAt ==
  ASSUME main.step \in 0..19
  PROVE  /\ At0("kinit1") => main.step = 1
         /\ At0("mpinit") => main.step = 3
         /\ At0("startothers") => main.step = 15
         /\ At0("kinit2") => main.step = 16
         /\ At0("userinit") => main.step = 17
         /\ At0("mpmain") => main.step = 18
<1>1. main.step > 0 /\ main.step <= 18 =>
      main.step \in {1, 2, 3, 4, 5, 6, 7, 8, 9, 10, 11, 12, 13, 14, 15, 16, 17, 18}
  OBVIOUS
<1> QED BY <1>1, MainIs DEF At0

-----------------------------------------------------------------------------
(* Types.  A machine and a kernel stay what they are. *)
Pages == 1..LOW + HIGH
Places == {"halted", "main", "entryother", "mpenter", "mpmain", "scheduler", "init"}

BootTypes ==
  /\ elf \in KSegments /\ pcm \in PcMachines /\ ram \in [0..RAM - 1 -> Int]
  /\ mpp \in Nat \ {0} /\ ids \in Seq(AllIds) /\ Len(ids) <= MaxNcpu
  /\ main \in [ph : Nat, step : 0..19, cpu : Nat]
  /\ main.ph <= Len(elf) /\ main.cpu <= Len(ids)
  /\ slot \in 0..LOW
  /\ ap \in [AllIds -> [at : Places, stack : 0..LOW, started : BOOLEAN]]
  /\ sipi \in [AllIds -> Nat]
  /\ kmem \in [free : SUBSET Pages, used : SUBSET Pages,
               use_lock : BOOLEAN, boot : BOOLEAN, user : BOOLEAN]

(* The segments that are loaded are as they are in the file. *)
SegmentLoaded(j) ==
  \A i \in 0..elf[j].memsz - 1 :
    ram[elf[j].pa + i] = IF i < elf[j].filesz THEN elf[j].off + i + 1 ELSE 0
LoadInv ==
  /\ main.step <= 1 => \A j \in 1..main.ph : SegmentLoaded(j)
  /\ main.step = 1 => main.ph = Len(elf)

(* What main has set up so far. *)
ReadyInv ==
  /\ ~early
  /\ main.step > 1 => "pages" \in have
  /\ main.step > 2 => "kpgdir" \in have
  /\ main.step > 3 => "cpus" \in have /\ "lapic" \in have
  /\ main.step > 5 => "segs" \in have
  /\ main.step > 7 => "ioapic" \in have
  /\ main.step > 8 => "cons" \in have
  /\ main.step > 10 => "ptable" \in have
  /\ main.step > 11 => "idt" \in have

(* Free pages, with enough of them for the processors still to start; the  *)
(* first process exists only after kinit2.                                 *)
PagesInv ==
  /\ kmem.free \cap kmem.used = {}
  /\ main.step <= 2 => kmem.used = {}
  /\ main.step <= 15 => kmem.free \subseteq 1..LOW
  /\ main.step = 2 => kmem.free = 1..LOW
  /\ main.step <= 16 => kmem.used \subseteq 1..LOW
  /\ main.step \in 3..15 => Cardinality(kmem.free) >= (LOW - 1) - main.cpu
  /\ main.step < 15 => main.cpu = 0
  /\ main.step = 17 => kmem.free # {}
  /\ main.step >= 17 => kmem.use_lock /\ ~kmem.boot
  /\ initproc # "UNUSED" => main.step >= 18
  /\ kmem.user => initproc = "RUNNING"

(* A processor that is about to read its stack from the word in front of   *)
(* the code: it is the one that startothers waits for.                     *)
Starting(c) == (ap[c].at = "halted" /\ sipi[c] > 0) \/ ap[c].at = "entryother"
FreshSlot ==
  slot \in 1..LOW /\ slot \notin kmem.free /\ \A d \in AllIds : ap[d].stack # slot
StartInv ==
  \A c \in AllIds :
    /\ ap[c].at \notin {"halted", "main"} \/ sipi[c] > 0 \/ ap[c].stack # 0 => main.step >= 15
    /\ c = pcm.bsp => ap[c].at \in {"main", "scheduler", "init"} /\ ap[c].stack = 0
    /\ ap[c].started => ap[c].at \in {"scheduler", "init"}
    /\ Starting(c) =>
         /\ main.step = 15 /\ main.cpu > 0 /\ c = ids[main.cpu] /\ c # pcm.bsp
         /\ FreshSlot
    /\ ap[c].stack # 0 =>
         /\ ap[c].stack \notin kmem.free
         /\ \A d \in AllIds \ {c} : ap[d].stack # ap[c].stack

BootGood == BootTypes /\ LoadInv /\ ReadyInv /\ PagesInv /\ StartInv

(* What remains when neither memory nor processors change. *)
LEMMA SameStart ==
  ASSUME BootGood, pcm' = pcm, UNCHANGED <<ap, sipi, slot, ids>>, main' = main,
         kmem'.free = kmem.free
  PROVE  StartInv'
<1>1. AllIds' = AllIds
  BY DEF AllIds
<1> QED BY <1>1 DEF BootGood, StartInv, Starting, FreshSlot

(* The assumption, in parts. *)
LEMMA BootSizes ==
  /\ MaxNcpu \in Nat \ {0} /\ LOW \in Nat /\ LOW > MaxNcpu /\ HIGH \in Nat \ {0}
  /\ SECTSIZE \in Nat \ {0} /\ RAM \in Nat
BY BootAssumption

(* A step that goes on in main from before startothers, or does not go on  *)
(* in main.                                                                *)
LEMMA StepStart ==
  ASSUME BootGood, pcm' = pcm, UNCHANGED <<ap, sipi, slot>>, main'.step \in Nat,
         \A c \in AllIds : ~Starting(c), main'.step >= main.step,
         kmem'.free \cap (1..LOW) \subseteq kmem.free \/ main.step < 15
  PROVE  StartInv'
<1>1. AllIds' = AllIds
  BY DEF AllIds
<1>2. main.step \in Nat /\ \A c \in AllIds : ap[c].stack \in 0..LOW
  <2>1. main \in [ph : Nat, step : 0..19, cpu : Nat]
    BY DEF BootGood, BootTypes
  <2>2. ap \in [AllIds -> [at : Places, stack : 0..LOW, started : BOOLEAN]]
    BY DEF BootGood, BootTypes
  <2>3. main.step \in Nat
    BY <2>1
  <2> QED BY <2>2, <2>3
<1> SUFFICES ASSUME NEW c \in AllIds
             PROVE
    /\ ap[c].at \notin {"halted", "main"} \/ sipi[c] > 0 \/ ap[c].stack # 0 => main'.step >= 15
    /\ c = pcm.bsp => ap[c].at \in {"main", "scheduler", "init"} /\ ap[c].stack = 0
    /\ ap[c].started => ap[c].at \in {"scheduler", "init"}
    /\ ~Starting(c)
    /\ ap[c].stack # 0 =>
         /\ ap[c].stack \notin kmem'.free
         /\ \A d \in AllIds \ {c} : ap[d].stack # ap[c].stack
  BY <1>1 DEF StartInv, Starting
<1>3. ap[c].stack # 0 => ap[c].stack \in 1..LOW
  BY <1>2, BootSizes
<1>4. /\ ap[c].at \notin {"halted", "main"} \/ sipi[c] > 0 \/ ap[c].stack # 0 => main.step >= 15
      /\ c = pcm.bsp => ap[c].at \in {"main", "scheduler", "init"} /\ ap[c].stack = 0
      /\ ap[c].started => ap[c].at \in {"scheduler", "init"}
      /\ ap[c].stack # 0 =>
         /\ ap[c].stack \notin kmem.free
         /\ \A d \in AllIds \ {c} : ap[d].stack # ap[c].stack
  BY DEF BootGood, StartInv
<1> QED BY <1>2, <1>3, <1>4

(* Before startothers no processor is starting. *)
LEMMA NoneStarting ==
  ASSUME BootGood, main.step # 15
  PROVE  \A c \in AllIds : ~Starting(c)
BY DEF BootGood, StartInv

-----------------------------------------------------------------------------
(* The types of the records, one by one. *)
LEMMA BootFacts ==
  ASSUME BootGood
  PROVE  /\ main \in [ph : Nat, step : 0..19, cpu : Nat]
         /\ main.step \in 0..19 /\ main.ph \in Nat /\ main.cpu \in Nat
         /\ kmem \in [free : SUBSET Pages, used : SUBSET Pages,
                      use_lock : BOOLEAN, boot : BOOLEAN, user : BOOLEAN]
         /\ kmem.free \in SUBSET Pages /\ kmem.used \in SUBSET Pages
         /\ ap \in [AllIds -> [at : Places, stack : 0..LOW, started : BOOLEAN]]
         /\ sipi \in [AllIds -> Nat] /\ ids \in Seq(AllIds)
<1>1. main \in [ph : Nat, step : 0..19, cpu : Nat]
  BY DEF BootGood, BootTypes
<1>2. kmem \in [free : SUBSET Pages, used : SUBSET Pages,
                use_lock : BOOLEAN, boot : BOOLEAN, user : BOOLEAN]
  BY DEF BootGood, BootTypes
<1>3. main.step \in 0..19 /\ main.ph \in Nat /\ main.cpu \in Nat
  BY <1>1
<1>4. kmem.free \in SUBSET Pages /\ kmem.used \in SUBSET Pages
  BY <1>2
<1>5. /\ ap \in [AllIds -> [at : Places, stack : 0..LOW, started : BOOLEAN]]
      /\ sipi \in [AllIds -> Nat] /\ ids \in Seq(AllIds)
  BY DEF BootGood, BootTypes
<1> QED BY <1>1, <1>2, <1>3, <1>4, <1>5

(* main goes on without loading anything. *)
LEMMA LoadKept ==
  ASSUME BootGood, UNCHANGED <<elf, ram>>, main.step >= 1, main'.step \in Nat, main'.ph = main.ph,
         main'.step >= main.step
  PROVE  LoadInv'
<1>1. main.step \in Nat
  BY BootFacts, SMTT(40)
<1>2. CASE main'.step > 1
  BY <1>2 DEF LoadInv
<1>3. CASE ~(main'.step > 1)
  <2>1. main'.step = 1 /\ main.step = 1 /\ main.step <= 1
    BY <1>1, <1>3
  <2>2. LoadInv
    BY DEF BootGood
  <2>3. (\A j \in 1..main.ph : SegmentLoaded(j)) /\ main.ph = Len(elf)
    BY <2>1, <2>2 DEF LoadInv
  <2>4. \A j \in 1..main'.ph : SegmentLoaded(j)'
    BY <2>3 DEF SegmentLoaded
  <2> QED BY <2>1, <2>3, <2>4 DEF LoadInv
<1> QED BY <1>2, <1>3

(* The largest of some pages is one of them. *)
LEMMA MaxIs ==
  ASSUME NEW N \in Nat, NEW S \in SUBSET (1..N), S # {}
  PROVE  Max(S) \in S
<1> DEFINE T == {n \in 0..N : N - n \in S}
<1>1. T \in SUBSET Nat
  OBVIOUS
<1>2. T # {}
  <2>1. PICK x \in S : TRUE
    OBVIOUS
  <2>2. N - x \in 0..N /\ N - (N - x) = x
    OBVIOUS
  <2>3. N - x \in T
    BY <2>1, <2>2
  <2> QED BY <2>3
<1>3. PICK m \in T : \A n \in T : m <= n
  <2> HIDE DEF T
  <2> QED BY <1>1, <1>2, LeastNumber
<1>4. N - m \in S /\ m \in 0..N
  BY <1>3
<1>5. ASSUME NEW y \in S PROVE N - m >= y
  <2>1. N - y \in 0..N /\ N - (N - y) = y
    OBVIOUS
  <2>2. N - y \in T
    BY <2>1
  <2>3. m <= N - y
    BY <1>3, <2>2
  <2> QED BY <1>4, <2>3
<1>6. \E x \in S : \A y \in S : x >= y
  BY <1>4, <1>5
<1> QED BY <1>6 DEF Max

(* The least of some pages is one of them. *)
LEMMA MinOfPages ==
  ASSUME NEW S \in SUBSET Nat, S # {}
  PROVE  Min(S) \in S
<1>1. \E m \in S : \A n \in S : m <= n
  BY LeastNumber
<1> QED BY <1>1 DEF Min

-----------------------------------------------------------------------------
(* Whole sectors. *)
LEMMA SectorCount ==
  ASSUME NEW x \in Nat
  PROVE  ((x + SECTSIZE - 1) \div SECTSIZE) * SECTSIZE >= x
<1> DEFINE y == x + SECTSIZE - 1
           q == y \div SECTSIZE
<1>0. SECTSIZE \in Nat \ {0}
  BY BootSizes
<1>1. y \in Int
  BY <1>0
<1> HIDE DEF y
<1>2. q \in Int /\ y % SECTSIZE \in 0..SECTSIZE - 1 /\ y = SECTSIZE * q + (y % SECTSIZE)
  BY <1>0, <1>1
<1> HIDE DEF q
<1>3. SECTSIZE * q \in Int /\ q * SECTSIZE = SECTSIZE * q
  BY <1>0, <1>2
<1>4. y = x + SECTSIZE - 1
  BY DEF y
<1>5. SECTSIZE * q >= x
  BY <1>0, <1>2, <1>3, <1>4
<1> QED BY <1>3, <1>5 DEF q, y

(* The start of a sector. *)
LEMMA SectorStart ==
  ASSUME NEW x \in Nat
  PROVE  /\ x % SECTSIZE \in Nat /\ (x \div SECTSIZE) * SECTSIZE \in Int
         /\ (x \div SECTSIZE) * SECTSIZE + (x % SECTSIZE) = x
<1> DEFINE q == x \div SECTSIZE
<1>0. SECTSIZE \in Nat \ {0}
  BY BootSizes
<1>2. q \in Int /\ x % SECTSIZE \in 0..SECTSIZE - 1 /\ x = SECTSIZE * q + (x % SECTSIZE)
  BY <1>0
<1> HIDE DEF q
<1>3. SECTSIZE * q \in Int /\ q * SECTSIZE = SECTSIZE * q
  BY <1>0, <1>2
<1> QED BY <1>2, <1>3 DEF q

(* A segment of a kernel, and the segments before it. *)
LEMMA SegmentFacts ==
  ASSUME NEW e \in KSegments
  PROVE  /\ e \in Seq([pa : Nat, off : Nat, filesz : Nat, memsz : Nat])
         /\ \A j \in 1..Len(e) :
              /\ e[j].pa \in Nat /\ e[j].off \in Nat /\ e[j].filesz \in Nat /\ e[j].memsz \in Nat
              /\ e[j].pa + e[j].memsz <= RAM
         /\ \A i, j \in 1..Len(e) :
              i < j => e[i].pa + e[i].memsz <= e[j].pa - (e[j].off % SECTSIZE)
<1>1. e \in Seq([pa : Nat, off : Nat, filesz : Nat, memsz : Nat])
  BY BootAssumption
<1> DEFINE R == [pa : Nat, off : Nat, filesz : Nat, memsz : Nat]
<1>2. DOMAIN e = 1..Len(e) /\ \A j \in 1..Len(e) : e[j] \in R
  <2>1. e \in Seq(R)
    BY <1>1
  <2> HIDE DEF R
  <2> QED BY <2>1
<1>3. /\ \A j \in 1..Len(e) : e[j].pa + e[j].memsz <= RAM
      /\ \A i, j \in 1..Len(e) :
              i < j => e[i].pa + e[i].memsz <= e[j].pa - (e[j].off % SECTSIZE)
  BY <1>2, BootAssumption
<1> QED BY <1>1, <1>2, <1>3

(* What one turn of bootmain's loop leaves at an address. *)
Byte(m, g, a) ==
  LET from == g.pa - (g.off % SECTSIZE)
      to == g.pa + g.filesz
      n == IF to > from THEN (to - from + SECTSIZE - 1) \div SECTSIZE ELSE 0
  IN  IF a \in g.pa + g.filesz..g.pa + g.memsz - 1 THEN 0
      ELSE IF a \in from..from + n * SECTSIZE - 1
        THEN (g.off \div SECTSIZE) * SECTSIZE + (a - from) + 1 ELSE m[a]

(* The bytes of the segment, and what is in front of its first sector. *)
LEMMA BytesRead ==
  ASSUME NEW m, NEW g \in [pa : Nat, off : Nat, filesz : Nat, memsz : Nat]
  PROVE  /\ \A i \in 0..g.memsz - 1 :
              Byte(m, g, g.pa + i) = IF i < g.filesz THEN g.off + i + 1 ELSE 0
         /\ \A a \in Int : a < g.pa - (g.off % SECTSIZE) => Byte(m, g, a) = m[a]
         /\ \A a \in Int : Byte(m, g, a) \in Int \/ Byte(m, g, a) = m[a]
<1> DEFINE from == g.pa - (g.off % SECTSIZE)
           to == g.pa + g.filesz
           n == IF to > from THEN (to - from + SECTSIZE - 1) \div SECTSIZE ELSE 0
           b == (g.off \div SECTSIZE) * SECTSIZE
<1>1. g.pa \in Nat /\ g.off \in Nat /\ g.filesz \in Nat /\ g.memsz \in Nat
  OBVIOUS
<1>2. g.off % SECTSIZE \in Nat /\ b \in Int /\ b + (g.off % SECTSIZE) = g.off
  BY <1>1, SectorStart
<1>3. from \in Int /\ to \in Int /\ from <= g.pa
  BY <1>1, <1>2
<1>4. SECTSIZE \in Nat \ {0}
  BY BootSizes
<1>5. n * SECTSIZE \in Int /\ (to > from => n * SECTSIZE >= to - from)
  <2>1. CASE to > from
    <3>1. to - from \in Nat
      BY <1>3, <2>1
    <3> DEFINE x == to - from
    <3>2. n = (x + SECTSIZE - 1) \div SECTSIZE
      BY <2>1
    <3> HIDE DEF x, n
    <3>3. x \in Nat
      BY <3>1 DEF x
    <3>4. n \in Int
      BY <1>4, <3>2, <3>3
    <3>5. n * SECTSIZE >= x
      BY <3>2, <3>3, SectorCount
    <3>6. n * SECTSIZE \in Int
      BY <1>4, <3>4
    <3> QED BY <3>5, <3>6 DEF x
  <2>2. CASE ~(to > from)
    BY <1>4, <2>2
  <2> QED BY <2>1, <2>2
<1>6. \A a : Byte(m, g, a) = IF a \in to..g.pa + g.memsz - 1 THEN 0
                             ELSE IF a \in from..from + n * SECTSIZE - 1 THEN b + (a - from) + 1
                             ELSE m[a]
  BY DEF Byte
<1>7. from = g.pa - (g.off % SECTSIZE) /\ to = g.pa + g.filesz
  OBVIOUS
<1> DEFINE r == g.off % SECTSIZE
           z == n * SECTSIZE
<1>8. r \in Nat /\ z \in Int /\ (to > from => z >= to - from) /\ from = g.pa - r /\ b + r = g.off
  BY <1>2, <1>5
<1> HIDE DEF from, to, n, b, r, z
<1>9. \A a : Byte(m, g, a) = IF a \in to..g.pa + g.memsz - 1 THEN 0
                             ELSE IF a \in from..from + z - 1 THEN b + (a - from) + 1
                             ELSE m[a]
  BY <1>6 DEF z
<1>10. ASSUME NEW i \in 0..g.memsz - 1
       PROVE  Byte(m, g, g.pa + i) = IF i < g.filesz THEN g.off + i + 1 ELSE 0
  <2> DEFINE a == g.pa + i
  <2>1. CASE i < g.filesz
    <3>1. a \notin to..g.pa + g.memsz - 1
      BY <1>1, <1>7, <2>1
    <3>2. a \in from..from + z - 1
      BY <1>1, <1>3, <1>7, <1>8, <2>1
    <3>3. b + (a - from) + 1 = g.off + i + 1
      BY <1>1, <1>2, <1>3, <1>8
    <3> QED BY <1>9, <2>1, <3>1, <3>2, <3>3
  <2>2. CASE ~(i < g.filesz)
    <3>1. a \in to..g.pa + g.memsz - 1
      BY <1>1, <1>7, <2>2
    <3> QED BY <1>9, <2>2, <3>1
  <2> QED BY <2>1, <2>2
<1>11. ASSUME NEW a \in Int, a < g.pa - r PROVE Byte(m, g, a) = m[a]
  <2>1. a \notin to..g.pa + g.memsz - 1 /\ a \notin from..from + z - 1
    BY <1>1, <1>3, <1>7, <1>8, <1>11
  <2> QED BY <1>9, <2>1
<1>12. ASSUME NEW a \in Int PROVE Byte(m, g, a) \in Int \/ Byte(m, g, a) = m[a]
  BY <1>2, <1>3, <1>9
<1> QED BY <1>10, <1>11, <1>12 DEF r

-----------------------------------------------------------------------------
(* What main leaves alone: types of the parts that a step does not touch,  *)
(* and of the record of main.                                              *)
LEMMA TypesKept ==
  ASSUME BootGood, UNCHANGED <<elf, ram, pcm, mpp, ids, slot, ap, sipi>>,
         main' \in [ph : Nat, step : 0..19, cpu : Nat], main'.ph = main.ph, main'.cpu = main.cpu,
         kmem' \in [free : SUBSET Pages, used : SUBSET Pages,
                    use_lock : BOOLEAN, boot : BOOLEAN, user : BOOLEAN]
  PROVE  BootTypes'
<1>1. AllIds' = AllIds
  BY DEF AllIds
<1> QED BY <1>1 DEF BootGood, BootTypes

(* bootmain loads the next segment: its bytes are the file's, and those of *)
(* the segments before it, which lie in front of its first sector, stay.   *)
LEMMA LoadSegmentKeeps ==
  ASSUME BootGood, LoadSegment
  PROVE  BootGood'
<1> PICK k : k = main.ph + 1
  OBVIOUS
<1> PICK g : g = elf[k]
  OBVIOUS
<1>1. /\ main \in [ph : Nat, step : 0..19, cpu : Nat] /\ main.ph \in Nat /\ main.step = 0
      /\ main.ph < Len(elf) /\ main' = [main EXCEPT !.ph = @ + 1]
  BY BootFacts DEF LoadSegment
<1>2. /\ main' \in [ph : Nat, step : 0..19, cpu : Nat] /\ main'.ph = k
      /\ main'.step = main.step /\ main'.cpu = main.cpu
  <2>1. main.ph + 1 \in Nat /\ k = main.ph + 1
    BY <1>1
  <2>2. main' = [main EXCEPT !.ph = k]
    BY <1>1, <2>1
  <2> QED BY <1>1, <2>1, <2>2
<1>3. elf \in KSegments /\ ram \in [0..RAM - 1 -> Int] /\ elf' = elf
  BY DEF BootGood, BootTypes, LoadSegment
<1>4. Len(elf) \in Nat /\ k \in 1..Len(elf) /\ k <= Len(elf)
  <2>1. Len(elf) \in Nat
    BY <1>3, SegmentFacts
  <2> QED BY <1>1, <2>1
<1>5. g \in [pa : Nat, off : Nat, filesz : Nat, memsz : Nat]
  <2> DEFINE R == [pa : Nat, off : Nat, filesz : Nat, memsz : Nat]
  <2>1. elf \in Seq(R)
    BY <1>3, SegmentFacts
  <2> HIDE DEF R
  <2>2. elf[k] \in R
    BY <1>4, <2>1
  <2> QED BY <2>2 DEF R
<1>6. ram' = [a \in 0..RAM - 1 |-> Byte(ram, g, a)]
  <2>1. DOMAIN ram = 0..RAM - 1
    BY <1>3
  <2>2. ram' = LET m == readseg(ram, g.pa, g.filesz, g.off)
               IN [a \in DOMAIN m |-> IF a \in g.pa + g.filesz..g.pa + g.memsz - 1 THEN 0 ELSE m[a]]
    BY DEF LoadSegment
  <2> QED BY <2>1, <2>2 DEF readseg, Sectors, Byte
<1>7. ram' \in [0..RAM - 1 -> Int]
  <2>1. ASSUME NEW a \in 0..RAM - 1 PROVE Byte(ram, g, a) \in Int
    <3>1. a \in Int /\ ram[a] \in Int
      BY <1>3, <2>1, BootSizes
    <3> QED BY <1>5, <3>1, BytesRead
  <2> QED BY <1>6, <2>1
<1>8. BootTypes'
  <2>1. AllIds' = AllIds
    BY DEF AllIds, LoadSegment
  <2> QED BY <1>2, <1>3, <1>4, <1>7, <2>1 DEF BootGood, BootTypes, LoadSegment
<1>9. ASSUME NEW j \in 1..k PROVE SegmentLoaded(j)'
  <2> PICK seg : seg = elf[j]
    OBVIOUS
  <2>1. j \in 1..Len(elf)
    BY <1>4
  <2>2. seg.pa \in Nat /\ seg.memsz \in Nat /\ seg.pa + seg.memsz <= RAM
    BY <1>3, <2>1, SegmentFacts
  <2> SUFFICES ASSUME NEW i \in 0..seg.memsz - 1
               PROVE  ram'[seg.pa + i] = IF i < seg.filesz THEN seg.off + i + 1 ELSE 0
    BY <1>3 DEF SegmentLoaded
  <2>3. seg.pa + i \in 0..RAM - 1 /\ seg.pa + i \in Int /\ seg.pa + i < seg.pa + seg.memsz
    BY <2>2, BootSizes
  <2>4. ram'[seg.pa + i] = Byte(ram, g, seg.pa + i)
    BY <1>6, <2>3
  <2>5. CASE j = k
    <3>1. seg = g
      BY <2>5
    <3>2. \A x \in 0..g.memsz - 1 : Byte(ram, g, g.pa + x) = IF x < g.filesz THEN g.off + x + 1 ELSE 0
      BY <1>5, BytesRead
    <3>3. i \in 0..g.memsz - 1
      BY <3>1
    <3> QED BY <2>4, <3>1, <3>2, <3>3
  <2>6. CASE j # k
    <3>1. j \in 1..main.ph /\ j < k
      BY <1>1, <1>4, <2>6
    <3>2. SegmentLoaded(j)
      BY <1>1, <3>1 DEF BootGood, LoadInv
    <3>3. ram[seg.pa + i] = IF i < seg.filesz THEN seg.off + i + 1 ELSE 0
      BY <3>2 DEF SegmentLoaded
    <3>4. seg.pa + seg.memsz <= g.pa - (g.off % SECTSIZE)
      BY <1>3, <1>4, <2>1, <3>1, SegmentFacts
    <3>5. g.pa \in Nat /\ g.off % SECTSIZE \in Nat
      BY <1>5, SectorStart
    <3>6. seg.pa + i < g.pa - (g.off % SECTSIZE)
      BY <2>2, <2>3, <3>4, <3>5
    <3>7. Byte(ram, g, seg.pa + i) = ram[seg.pa + i]
      BY <1>5, <2>3, <3>6, BytesRead
    <3> QED BY <2>4, <3>3, <3>7
  <2> QED BY <2>5, <2>6
<1>10. LoadInv'
  BY <1>1, <1>2, <1>9 DEF LoadInv
<1>11. ReadyInv'
  BY <1>1, <1>2 DEF BootGood, ReadyInv, LoadSegment
<1>12. PagesInv'
  BY <1>2 DEF BootGood, PagesInv, LoadSegment
<1>13. StartInv'
  <2>1. main.step # 15 /\ main.step \in Nat
    BY <1>1
  <2>2. \A c \in AllIds : ~Starting(c)
    BY <2>1, NoneStarting
  <2> QED BY <1>2, <2>1, <2>2, StepStart DEF LoadSegment
<1> QED BY <1>8, <1>10, <1>11, <1>12, <1>13 DEF BootGood

(* The jump to the kernel. *)
LEMMA EntryKeeps ==
  ASSUME BootGood, Entry
  PROVE  BootGood'
<1>1. /\ main \in [ph : Nat, step : 0..19, cpu : Nat] /\ main.ph \in Nat /\ main.step = 0
      /\ main.ph = Len(elf) /\ main' = [main EXCEPT !.step = 1]
  BY BootFacts DEF Entry
<1>2. /\ main' \in [ph : Nat, step : 0..19, cpu : Nat] /\ main'.ph = main.ph
      /\ main'.step = 1 /\ main'.cpu = main.cpu
  BY <1>1
<1>3. BootTypes'
  BY <1>2, TypesKept, BootFacts DEF Entry
<1>4. LoadInv'
  <2>1. \A j \in 1..main.ph : SegmentLoaded(j)
    BY <1>1 DEF BootGood, LoadInv
  <2>2. \A j \in 1..main'.ph : SegmentLoaded(j)'
    BY <1>2, <2>1 DEF SegmentLoaded, Entry
  <2> QED BY <1>1, <1>2, <2>2 DEF LoadInv, Entry
<1>5. ReadyInv'
  BY <1>2 DEF BootGood, ReadyInv, Entry
<1>6. PagesInv'
  BY <1>1, <1>2 DEF BootGood, PagesInv, Entry
<1>7. StartInv'
  <2>1. main.step # 15
    BY <1>1
  <2>2. \A c \in AllIds : ~Starting(c)
    BY <2>1, NoneStarting
  <2> QED BY <1>1, <1>2, <2>2, StepStart DEF Entry
<1> QED BY <1>3, <1>4, <1>5, <1>6, <1>7 DEF BootGood

-----------------------------------------------------------------------------
(* What a call of main uses has been set up before it. *)
LEMMA UsesHad ==
  ASSUME ReadyInv, main.step \in 0..19, NEW s, At0(s)
  PROVE  Uses0(s) \subseteq have
<1>1. main.step \in {1, 2, 3, 4, 5, 6, 7, 8, 9, 10, 11, 12, 13, 14, 15, 16, 17, 18}
  BY MainIs DEF At0
<1>2. s = Main[main.step]
  BY DEF At0
<1>3. CASE main.step \in {1, 3, 6, 10, 11, 12, 13, 16}
  BY <1>2, <1>3, MainIs DEF Uses0
<1>4. CASE main.step = 2
  BY <1>2, <1>4, MainIs DEF Uses0, ReadyInv
<1>5. CASE main.step \in {4, 5, 7}
  BY <1>2, <1>5, MainIs DEF Uses0, ReadyInv
<1>6. CASE main.step \in {8, 9, 14}
  BY <1>2, <1>6, MainIs DEF Uses0, ReadyInv
<1>7. CASE main.step = 15
  BY <1>2, <1>7, MainIs DEF Uses0, ReadyInv
<1>8. CASE main.step = 17
  BY <1>2, <1>8, MainIs DEF Uses0, ReadyInv
<1>9. CASE main.step = 18
  BY <1>2, <1>9, MainIs DEF Uses0, ReadyInv
<1> QED BY <1>1, <1>3, <1>4, <1>5, <1>6, <1>7, <1>8, <1>9

(* A call that main is in the middle of. *)
LEMMA ReadyStays ==
  ASSUME ReadyInv, main.step \in 0..19, NEW s, At0(s), Enter(s), have' = have, main'.step = main.step
  PROVE  ReadyInv'
BY UsesHad DEF ReadyInv, Enter

(* The record of main after a call. *)
LEMMA LeaveIs ==
  ASSUME BootGood, NEW s, At0(s), Leave(s)
  PROVE  /\ main' \in [ph : Nat, step : 0..19, cpu : Nat]
         /\ main'.step = main.step + 1 /\ main'.ph = main.ph /\ main'.cpu = main.cpu
         /\ main.step \in 1..18
<1>1. main \in [ph : Nat, step : 0..19, cpu : Nat] /\ main.step \in 0..19
  BY BootFacts
<1>2. main.step \in 1..18
  BY <1>1, MainIs DEF At0
<1> PICK k : k = main.step + 1
  OBVIOUS
<1>3. k \in 0..19 /\ k = main.step + 1
  BY <1>2
<1>4. main' = [main EXCEPT !.step = k]
  BY <1>3 DEF Leave
<1> QED BY <1>1, <1>2, <1>3, <1>4

(* A call that returns has set up what the calls after it count on. *)
LEMMA ReadySteps ==
  ASSUME BootGood, NEW s, At0(s), Enter(s), Leave(s)
  PROVE  ReadyInv'
<1>1. main.step \in 1..18 /\ main'.step = main.step + 1
  BY LeaveIs
<1>2. ~early' /\ ReadyInv
  <2>1. main.step \in 0..19 /\ ReadyInv
    BY <1>1 DEF BootGood
  <2>2. Uses0(s) \subseteq have
    BY <2>1, UsesHad
  <2> QED BY <2>1, <2>2 DEF ReadyInv, Enter
<1>3. s = Main[main.step] /\ have' = have \cup Gives(s)
  BY DEF At0, Leave
<1> PICK k : k = main.step
  OBVIOUS
<1>4. /\ k = 1 => "pages" \in have'
      /\ k = 2 => "kpgdir" \in have'
      /\ k = 3 => "cpus" \in have' /\ "lapic" \in have'
  BY <1>3, MainIs DEF Gives
<1>5. /\ k = 5 => "segs" \in have'
      /\ k = 7 => "ioapic" \in have'
      /\ k = 8 => "cons" \in have'
  BY <1>3, MainIs DEF Gives
<1>6. /\ k = 10 => "ptable" \in have'
      /\ k = 11 => "idt" \in have'
  BY <1>3, MainIs DEF Gives
<1>7. have \subseteq have'
  BY <1>3
<1> QED BY <1>1, <1>2, <1>4, <1>5, <1>6, <1>7 DEF ReadyInv

-----------------------------------------------------------------------------
(* The record of the allocator after a page is taken. *)
LEMMA PageTaken ==
  ASSUME BootGood, NEW p \in kmem.free, NEW U \in SUBSET Pages,
         kmem' = [kmem EXCEPT !.free = @ \ {p}, !.used = U]
  PROVE  /\ kmem' \in [free : SUBSET Pages, used : SUBSET Pages,
                       use_lock : BOOLEAN, boot : BOOLEAN, user : BOOLEAN]
         /\ kmem'.free = kmem.free \ {p} /\ kmem'.used = U
         /\ kmem'.use_lock = kmem.use_lock /\ kmem'.boot = kmem.boot /\ kmem'.user = kmem.user
<1>1. kmem \in [free : SUBSET Pages, used : SUBSET Pages,
                use_lock : BOOLEAN, boot : BOOLEAN, user : BOOLEAN]
  BY BootFacts
<1> QED BY <1>1

(* The pages after a call that starts no processor. *)
LEMMA CallKeeps ==
  ASSUME BootGood, Call
  PROVE  BootGood'
<1>0. PICK s \in {"kvmalloc", "lapicinit", "seginit", "picinit", "ioapicinit", "pinit", "tvinit", "binit",
            "fileinit", "consoleinit", "uartinit", "ideinit"} :
    /\ At0(s) /\ Enter(s) /\ Leave(s)
    /\ kmem' = IF s = "kvmalloc" THEN [kmem EXCEPT !.free = @ \ {Max(@)}, !.used = {Max(kmem.free)}] ELSE kmem
    /\ UNCHANGED <<elf, ram, pcm, mpp, ids, slot, ap, sipi, initproc>>
  BY DEF Call
<1>1. /\ main' \in [ph : Nat, step : 0..19, cpu : Nat]
      /\ main'.step = main.step + 1 /\ main'.ph = main.ph /\ main'.cpu = main.cpu
      /\ main.step \in 1..18
  BY <1>0, LeaveIs
<1>2. ReadyInv'
  BY <1>0, ReadySteps
<1>3. main.step \in 2..14 /\ (main.step = 2 <=> s = "kvmalloc") /\ main.step # 3
  <2>1. main.step \in {1, 2, 3, 4, 5, 6, 7, 8, 9, 10, 11, 12, 13, 14, 15, 16, 17, 18} /\ s = Main[main.step]
    BY <1>0, <1>1 DEF At0
  <2> QED BY <1>0, <2>1, MainIs
<1>4. LoadInv'
  BY <1>0, <1>1, <1>3, LoadKept
<1>5. PagesInv /\ kmem \in [free : SUBSET Pages, used : SUBSET Pages,
                     use_lock : BOOLEAN, boot : BOOLEAN, user : BOOLEAN]
  BY BootFacts DEF BootGood
<1>6. /\ PagesInv' /\ kmem'.free \subseteq kmem.free
      /\ kmem' \in [free : SUBSET Pages, used : SUBSET Pages,
                    use_lock : BOOLEAN, boot : BOOLEAN, user : BOOLEAN]
  <2>1. CASE s = "kvmalloc"
    <3>1. main.step = 2 /\ main'.step = 3 /\ kmem.free = 1..LOW /\ main.cpu = 0 /\ main'.cpu = 0
      BY <1>1, <1>3, <1>5, <2>1 DEF PagesInv
    <3> PICK p : p = Max(kmem.free)
      OBVIOUS
    <3>2. LOW \in Nat /\ LOW > 0
      BY BootSizes
    <3>3. p \in kmem.free
      <4>1. kmem.free # {} /\ kmem.free \in SUBSET (1..LOW)
        <5>1. 1 \in 1..LOW
          BY <3>2
        <5> QED BY <3>1, <5>1
      <4> QED BY <3>2, <4>1, MaxIs
    <3>4. p \in Pages /\ {p} \in SUBSET Pages
      BY <1>5, <3>3
    <3>5. kmem' = [kmem EXCEPT !.free = @ \ {p}, !.used = {p}]
      BY <1>0, <2>1
    <3>6. /\ kmem' \in [free : SUBSET Pages, used : SUBSET Pages,
                       use_lock : BOOLEAN, boot : BOOLEAN, user : BOOLEAN]
          /\ kmem'.free = kmem.free \ {p} /\ kmem'.used = {p}
          /\ kmem'.use_lock = kmem.use_lock /\ kmem'.boot = kmem.boot /\ kmem'.user = kmem.user
      BY <3>3, <3>4, <3>5, PageTaken
    <3>7. Cardinality(kmem'.free) = LOW - 1
      <4>1. IsFiniteSet(1..LOW) /\ Cardinality(1..LOW) = LOW
        BY <3>2, FS_Interval
      <4>2. IsFiniteSet(kmem.free) /\ Cardinality(kmem.free) = LOW
        BY <3>1, <4>1
      <4>3. Cardinality(kmem.free \ {p}) = LOW - 1
        BY <3>3, <4>2, FS_RemoveElement
      <4> QED BY <3>6, <4>3
    <3>8. initproc' = "UNUSED" /\ ~kmem'.user
      BY <1>0, <1>5, <3>1, <3>6 DEF PagesInv
    <3> QED BY <3>1, <3>2, <3>3, <3>6, <3>7, <3>8 DEF PagesInv
  <2>2. CASE s # "kvmalloc"
    <3>1. kmem' = kmem /\ main.step \in 4..14 /\ main'.step \in 5..15
      BY <1>0, <1>1, <1>3, <2>2
    <3>2. initproc' = "UNUSED" /\ ~kmem'.user
      BY <1>0, <1>5, <3>1 DEF PagesInv
    <3>5. /\ main.step \in 3..15 /\ main.step < 15 /\ main.step <= 16 /\ main.step <= 15
          /\ kmem'.free = kmem.free /\ kmem'.used = kmem.used
      BY <3>1
    <3>3. main.cpu = 0 /\ main'.cpu = 0 /\ Cardinality(kmem'.free) >= (LOW - 1) - main'.cpu
      <4>1. main.cpu = 0 /\ Cardinality(kmem.free) >= (LOW - 1) - main.cpu
        BY <1>5, <3>5 DEF PagesInv
      <4> QED BY <1>1, <3>5, <4>1
    <3>4. kmem'.free \cap kmem'.used = {} /\ kmem'.free \subseteq 1..LOW /\ kmem'.used \subseteq 1..LOW
      BY <1>5, <3>5 DEF PagesInv
    <3> QED BY <1>5, <3>1, <3>2, <3>3, <3>4, SMTT(40) DEF PagesInv
  <2> QED BY <2>1, <2>2
<1>7. StartInv'
  <2>1. main.step # 15 /\ main'.step >= main.step /\ main'.step \in Nat
    BY <1>1, <1>3
  <2>2. \A c \in AllIds : ~Starting(c)
    BY <2>1, NoneStarting
  <2> QED BY <1>0, <1>6, <2>1, <2>2, StepStart
<1>8. BootTypes'
  BY <1>0, <1>1, <1>6, TypesKept
<1> QED BY <1>2, <1>4, <1>6, <1>7, <1>8 DEF BootGood

-----------------------------------------------------------------------------
(* The record of the allocator after a page is freed, or the last one. *)
LEMMA PageFreed ==
  ASSUME BootGood
  PROVE  /\ \A p \in Pages : kmem' = [kmem EXCEPT !.free = @ \cup {p}, !.boot = TRUE] =>
              /\ kmem' \in [free : SUBSET Pages, used : SUBSET Pages,
                            use_lock : BOOLEAN, boot : BOOLEAN, user : BOOLEAN]
              /\ kmem'.free = kmem.free \cup {p} /\ kmem'.used = kmem.used
              /\ kmem'.user = kmem.user
         /\ \A u \in BOOLEAN : kmem' = [kmem EXCEPT !.use_lock = u, !.boot = FALSE] =>
              /\ kmem' \in [free : SUBSET Pages, used : SUBSET Pages,
                            use_lock : BOOLEAN, boot : BOOLEAN, user : BOOLEAN]
              /\ kmem'.free = kmem.free /\ kmem'.used = kmem.used
              /\ kmem'.user = kmem.user /\ kmem'.use_lock = u /\ kmem'.boot = FALSE
<1>1. kmem \in [free : SUBSET Pages, used : SUBSET Pages,
                use_lock : BOOLEAN, boot : BOOLEAN, user : BOOLEAN]
  BY BootFacts
<1> QED BY <1>1, ZenonT(60)

(* What a step of kinit1 or kinit2 does to the pages. *)
LEMMA KinitDoes ==
  ASSUME BootGood, NEW s \in {"kinit1", "kinit2"}, NEW a \in Pages, NEW b \in Pages, kinit(s, a, b)
  PROVE  /\ BootTypes' /\ ReadyInv'
         /\ At0(s) /\ UNCHANGED <<elf, ram, pcm, mpp, ids, slot, ap, sipi, initproc>>
         /\ kmem'.used = kmem.used /\ kmem'.user = kmem.user
         /\ \/ /\ main' = main
               /\ \E p \in (a..b) \ (kmem.free \cup kmem.used) : kmem'.free = kmem.free \cup {p}
            \/ /\ main'.step = main.step + 1 /\ main'.ph = main.ph /\ main'.cpu = main.cpu
               /\ a..b \subseteq kmem.free \cup kmem.used
               /\ kmem'.free = kmem.free /\ kmem'.use_lock = (s = "kinit2") /\ ~kmem'.boot
<1> PICK left : left = (a..b) \ (kmem.free \cup kmem.used)
  OBVIOUS
<1>1. At0(s) /\ Enter(s) /\ UNCHANGED <<elf, ram, pcm, mpp, ids, slot, ap, sipi, initproc>>
  BY DEF kinit
<1>2. a \in Nat /\ b \in Nat /\ a..b \subseteq Pages /\ left \in SUBSET Nat
  BY BootSizes DEF Pages
<1>3. main \in [ph : Nat, step : 0..19, cpu : Nat] /\ main.step \in 0..19 /\ ReadyInv
  BY BootFacts DEF BootGood
<1>4. CASE left = {}
  <2> PICK u : u = (s = "kinit2")
    OBVIOUS
  <2>1. /\ u \in BOOLEAN /\ kmem' = [kmem EXCEPT !.use_lock = u, !.boot = FALSE] /\ Leave(s)
    BY <1>4 DEF kinit
  <2>2. /\ kmem' \in [free : SUBSET Pages, used : SUBSET Pages,
                            use_lock : BOOLEAN, boot : BOOLEAN, user : BOOLEAN]
        /\ kmem'.free = kmem.free /\ kmem'.used = kmem.used
        /\ kmem'.user = kmem.user /\ kmem'.use_lock = u /\ kmem'.boot = FALSE
    BY <2>1, PageFreed
  <2>3. /\ main' \in [ph : Nat, step : 0..19, cpu : Nat]
        /\ main'.step = main.step + 1 /\ main'.ph = main.ph /\ main'.cpu = main.cpu
    BY <1>1, <2>1, LeaveIs
  <2>4. ReadyInv'
    BY <1>1, <2>1, ReadySteps
  <2>5. BootTypes'
    BY <1>1, <2>2, <2>3, TypesKept
  <2>6. a..b \subseteq kmem.free \cup kmem.used
    BY <1>4
  <2> QED BY <1>1, <2>2, <2>3, <2>4, <2>5, <2>6
<1>5. CASE left # {}
  <2> PICK p : p = Min(left)
    OBVIOUS
  <2>1. kmem' = [kmem EXCEPT !.free = @ \cup {p}, !.boot = TRUE] /\ have' = have /\ main' = main
    BY <1>5 DEF kinit
  <2>2. p \in left /\ p \in Pages
    BY <1>2, <1>5, MinOfPages
  <2>3. /\ kmem' \in [free : SUBSET Pages, used : SUBSET Pages,
                            use_lock : BOOLEAN, boot : BOOLEAN, user : BOOLEAN]
        /\ kmem'.free = kmem.free \cup {p} /\ kmem'.used = kmem.used
        /\ kmem'.user = kmem.user
    BY <2>1, <2>2, PageFreed
  <2>4. ReadyInv'
    BY <1>1, <1>3, <2>1, ReadyStays
  <2>5. BootTypes'
    BY <1>1, <1>3, <2>1, <2>3, TypesKept
  <2> QED BY <1>1, <2>1, <2>2, <2>3, <2>4, <2>5
<1> QED BY <1>4, <1>5

(* kinit1 frees the pages below 4 Mbyte before any processor starts. *)
LEMMA Kinit1Keeps ==
  ASSUME BootGood, kinit1
  PROVE  BootGood'
<1>1. 1 \in Pages /\ LOW \in Pages
  BY BootSizes DEF Pages
<1>2. /\ BootTypes' /\ ReadyInv' /\ At0("kinit1")
      /\ UNCHANGED <<elf, ram, pcm, mpp, ids, slot, ap, sipi, initproc>>
      /\ kmem'.used = kmem.used /\ kmem'.user = kmem.user
      /\ \/ /\ main' = main
            /\ \E p \in (1..LOW) \ (kmem.free \cup kmem.used) : kmem'.free = kmem.free \cup {p}
         \/ /\ main'.step = main.step + 1 /\ main'.ph = main.ph /\ main'.cpu = main.cpu
            /\ 1..LOW \subseteq kmem.free \cup kmem.used
            /\ kmem'.free = kmem.free
  BY <1>1, KinitDoes DEF kinit1
<1>3. main.step = 1 /\ main.ph \in Nat
  BY <1>2, CallAt, BootFacts
<1>4. main'.step \in 1..2 /\ main'.ph = main.ph /\ main'.cpu = main.cpu
  BY <1>2, <1>3
<1>5. LoadInv'
  BY <1>2, <1>3, <1>4, LoadKept
<1>6. PagesInv'
  <2>1. /\ kmem.used = {} /\ kmem.free \subseteq 1..LOW /\ main.cpu = 0
        /\ initproc = "UNUSED" /\ ~kmem.user
    BY <1>3 DEF BootGood, PagesInv
  <2>2. kmem'.used = {} /\ initproc' = "UNUSED" /\ ~kmem'.user /\ main'.cpu = 0
    BY <1>2, <1>4, <2>1
  <2>3. kmem'.free \subseteq 1..LOW /\ (main'.step = 2 => kmem'.free = 1..LOW)
    <3>1. CASE main' = main
      BY <1>2, <1>3, <2>1, <3>1
    <3>2. CASE main' # main
      BY <1>2, <2>1, <3>2
    <3> QED BY <3>1, <3>2
  <2> QED BY <1>4, <2>2, <2>3 DEF PagesInv
<1>7. StartInv'
  <2>1. main.step # 15 /\ main'.step >= main.step /\ main'.step \in Nat /\ main.step < 15
    BY <1>3, <1>4
  <2>2. \A c \in AllIds : ~Starting(c)
    BY <2>1, NoneStarting
  <2> QED BY <1>2, <2>1, <2>2, StepStart
<1> QED BY <1>2, <1>5, <1>6, <1>7 DEF BootGood

(* kinit2 frees those above, which no processor has as its stack. *)
LEMMA Kinit2Keeps ==
  ASSUME BootGood, kinit2
  PROVE  BootGood'
<1>1. LOW + 1 \in Pages /\ LOW + HIGH \in Pages
  BY BootSizes DEF Pages
<1>2. /\ BootTypes' /\ ReadyInv' /\ At0("kinit2")
      /\ UNCHANGED <<elf, ram, pcm, mpp, ids, slot, ap, sipi, initproc>>
      /\ kmem'.used = kmem.used /\ kmem'.user = kmem.user
      /\ \/ /\ main' = main
            /\ \E p \in (LOW + 1..LOW + HIGH) \ (kmem.free \cup kmem.used) :
                 kmem'.free = kmem.free \cup {p}
         \/ /\ main'.step = main.step + 1 /\ main'.ph = main.ph /\ main'.cpu = main.cpu
            /\ LOW + 1..LOW + HIGH \subseteq kmem.free \cup kmem.used
            /\ kmem'.free = kmem.free /\ kmem'.use_lock /\ ~kmem'.boot
  BY <1>1, KinitDoes DEF kinit2
<1>3. main.step = 16 /\ main.ph \in Nat
  BY <1>2, CallAt, BootFacts
<1>4. main'.step \in 16..17 /\ main'.ph = main.ph /\ main'.cpu = main.cpu
  BY <1>2, <1>3
<1>5. LoadInv'
  BY <1>2, <1>3, <1>4, LoadKept
<1>6. PagesInv'
  <2>1. /\ kmem.used \subseteq 1..LOW /\ kmem.free \cap kmem.used = {}
        /\ initproc = "UNUSED" /\ ~kmem.user
    BY <1>3 DEF BootGood, PagesInv
  <2>2. kmem'.used \subseteq 1..LOW /\ initproc' = "UNUSED" /\ ~kmem'.user
    BY <1>2, <2>1
  <2>3. kmem'.free \cap kmem'.used = {}
    BY <1>2, <2>1
  <2>4. main'.step = 17 => kmem'.free # {} /\ kmem'.use_lock /\ ~kmem'.boot
    <3> SUFFICES ASSUME main'.step = 17 PROVE kmem'.free # {} /\ kmem'.use_lock /\ ~kmem'.boot
      OBVIOUS
    <3>1. main' # main
      BY <1>3
    <3>2. LOW + 1 \in LOW + 1..LOW + HIGH /\ LOW + 1 \notin 1..LOW
      BY BootSizes
    <3> QED BY <1>2, <2>1, <3>1, <3>2
  <2> QED BY <1>4, <2>2, <2>3, <2>4 DEF PagesInv
<1>7. StartInv'
  <2>1. main.step # 15 /\ main'.step >= main.step /\ main'.step \in Nat
    BY <1>3, <1>4
  <2>2. \A c \in AllIds : ~Starting(c)
    BY <2>1, NoneStarting
  <2>3. kmem'.free \cap (1..LOW) \subseteq kmem.free
    <3>1. \A p \in LOW + 1..LOW + HIGH : p \notin 1..LOW
      BY BootSizes
    <3> QED BY <1>2, <3>1
  <2> QED BY <1>2, <2>1, <2>2, <2>3, StepStart
<1> QED BY <1>2, <1>5, <1>6, <1>7 DEF BootGood

-----------------------------------------------------------------------------
(* mpinit looks at an entry of the table, or has seen all. *)
LEMMA MpinitKeeps ==
  ASSUME BootGood, mpinit
  PROVE  BootGood'
<1>1. /\ At0("mpinit") /\ Enter("mpinit")
      /\ UNCHANGED <<elf, ram, pcm, slot, ap, sipi, kmem, initproc>>
  BY DEF mpinit
<1>2. main.step = 3 /\ main.step \in 0..19 /\ main.cpu \in Nat
      /\ main \in [ph : Nat, step : 0..19, cpu : Nat]
  BY <1>1, CallAt, BootFacts
<1>3. AllIds' = AllIds
  BY <1>1 DEF AllIds
<1>4. /\ BootTypes' /\ ReadyInv' /\ main'.step \in 3..4
      /\ main'.ph = main.ph /\ main'.cpu = main.cpu
  <2> DEFINE R == [type : STRING, id : Nat]
  <2>1. pcm.table \in Seq(R)
    <3>1. pcm \in PcMachines
      BY DEF BootGood, BootTypes
    <3> QED BY <3>1, BootAssumption
  <2> HIDE DEF R
  <2>2. Len(pcm.table) \in Nat /\ DOMAIN pcm.table = 1..Len(pcm.table)
    BY <2>1
  <2>3. mpp \in Nat \ {0} /\ ids \in Seq(AllIds) /\ Len(ids) <= MaxNcpu /\ main.cpu <= Len(ids)
    BY DEF BootGood, BootTypes
  <2>4. CASE mpp > Len(pcm.table)
    <3>1. Leave("mpinit") /\ ids' = ids /\ mpp' = mpp
      BY <2>4 DEF mpinit
    <3>2. /\ main' \in [ph : Nat, step : 0..19, cpu : Nat]
          /\ main'.step = main.step + 1 /\ main'.ph = main.ph /\ main'.cpu = main.cpu
      BY <1>1, <3>1, LeaveIs
    <3>3. ReadyInv'
      BY <1>1, <3>1, ReadySteps
    <3>4. kmem' \in [free : SUBSET Pages, used : SUBSET Pages,
                use_lock : BOOLEAN, boot : BOOLEAN, user : BOOLEAN]
      BY <1>1, BootFacts
    <3>5. BootTypes'
      BY <1>1, <3>1, <3>2, <3>4, TypesKept
    <3> QED BY <1>2, <3>2, <3>3, <3>5
  <2>5. CASE ~(mpp > Len(pcm.table))
    <3> PICK x : x = pcm.table[mpp]
      OBVIOUS
    <3>1. /\ ids' = IF x.type = "MPPROC" /\ Len(ids) < MaxNcpu THEN Append(ids, x.id) ELSE ids
          /\ mpp' = IF x.type = "other" THEN mpp ELSE mpp + 1
          /\ have' = have /\ main' = main
      BY <2>5 DEF mpinit, HasSlot, ncpu
    <3>2. mpp \in DOMAIN pcm.table
      BY <2>2, <2>3, <2>5
    <3>3. x.type = "MPPROC" => x.id \in AllIds
      BY <3>2 DEF AllIds
    <3>4. ids' \in Seq(AllIds) /\ Len(ids') <= MaxNcpu /\ main.cpu <= Len(ids') /\ mpp' \in Nat \ {0}
      <4>1. mpp' \in Nat \ {0}
        BY <2>3, <3>1
      <4>2. CASE x.type = "MPPROC" /\ Len(ids) < MaxNcpu
        <5>1. x.id \in AllIds /\ ids' = Append(ids, x.id)
          BY <3>1, <3>3, <4>2
        <5>2. ids' \in Seq(AllIds) /\ Len(ids') = Len(ids) + 1 /\ Len(ids) \in Nat
          BY <2>3, <5>1
        <5> QED BY <1>2, <2>3, <4>1, <4>2, <5>2, BootSizes
      <4>3. CASE ~(x.type = "MPPROC" /\ Len(ids) < MaxNcpu)
        BY <2>3, <3>1, <4>1, <4>3
      <4> QED BY <4>2, <4>3
    <3>5. ReadyInv'
      BY <1>1, <1>2, <3>1, ReadyStays DEF BootGood
    <3>6. BootTypes'
      BY <1>1, <1>3, <3>1, <3>4 DEF BootGood, BootTypes
    <3> QED BY <1>2, <3>1, <3>5, <3>6
  <2> QED BY <2>4, <2>5
<1>5. LoadInv'
  BY <1>1, <1>2, <1>4, LoadKept
<1>6. PagesInv'
  BY <1>1, <1>2, <1>4 DEF BootGood, PagesInv
<1>7. StartInv'
  <2>1. main.step # 15 /\ main'.step >= main.step /\ main'.step \in Nat
    BY <1>2, <1>4
  <2>2. \A c \in AllIds : ~Starting(c)
    BY <2>1, NoneStarting
  <2> QED BY <1>1, <2>1, <2>2, StepStart
<1> QED BY <1>4, <1>5, <1>6, <1>7 DEF BootGood

(* startothers goes on only when the processor it started is in the        *)
(* scheduler: then no processor is about to read its stack.                *)
LEMMA StartNextAlone ==
  ASSUME BootGood, StartNext
  PROVE  \A c \in AllIds : ~Starting(c)
<1> SUFFICES ASSUME NEW c \in AllIds, Starting(c) PROVE FALSE
  OBVIOUS
<1>1. main.cpu > 0 /\ c = ids[main.cpu] /\ c # pcm.bsp
  BY DEF BootGood, StartInv
<1>2. ap[c].started
  BY <1>1 DEF StartNext, IsMycpu, WaitsFor
<1> QED BY <1>2 DEF BootGood, StartInv, Starting

(* It passes over its own processor, or has started all. *)
LEMMA StartPassKeeps ==
  ASSUME BootGood, StartNext, UNCHANGED <<slot, sipi, kmem>>
  PROVE  BootGood'
<1>1. /\ At0("startothers") /\ Enter("startothers")
      /\ UNCHANGED <<elf, ram, pcm, mpp, ids, ap, initproc>>
      /\ \/ Leave("startothers")
         \/ main.cpu + 1 <= Len(ids) /\ main' = [main EXCEPT !.cpu = main.cpu + 1] /\ have' = have
  <2>1. main.cpu \in Nat /\ ids \in Seq(AllIds)
    BY BootFacts
  <2>2. Len(ids) \in Nat
    BY <2>1
  <2> QED BY <2>1, <2>2 DEF StartNext, ncpu
<1>2. main.step = 15 /\ main.step \in 0..19 /\ main.cpu \in Nat
      /\ main \in [ph : Nat, step : 0..19, cpu : Nat]
  BY <1>1, CallAt, BootFacts
<1>3. AllIds' = AllIds
  BY <1>1 DEF AllIds
<1>4. /\ BootTypes' /\ ReadyInv' /\ main'.ph = main.ph
      /\ main'.step = 16 \/ (main'.step = 15 /\ main'.cpu = main.cpu + 1)
  <2>1. CASE Leave("startothers")
    <3>2. /\ main' \in [ph : Nat, step : 0..19, cpu : Nat]
          /\ main'.step = main.step + 1 /\ main'.ph = main.ph /\ main'.cpu = main.cpu
      BY <1>1, <2>1, LeaveIs
    <3>3. ReadyInv'
      BY <1>1, <2>1, ReadySteps
    <3>4. kmem' \in [free : SUBSET Pages, used : SUBSET Pages,
                use_lock : BOOLEAN, boot : BOOLEAN, user : BOOLEAN]
      BY BootFacts
    <3>5. BootTypes'
      BY <1>1, <3>2, <3>4, TypesKept
    <3> QED BY <1>2, <3>2, <3>3, <3>5
  <2>2. CASE main.cpu + 1 <= Len(ids) /\ main' = [main EXCEPT !.cpu = main.cpu + 1] /\ have' = have
    <3>1. main.cpu + 1 \in Nat
      BY <1>2
    <3>2. /\ main' \in [ph : Nat, step : 0..19, cpu : Nat]
          /\ main'.step = main.step /\ main'.ph = main.ph /\ main'.cpu = main.cpu + 1
      BY <1>2, <2>2, <3>1
    <3>3. ReadyInv'
      BY <1>1, <1>2, <2>2, <3>2, ReadyStays DEF BootGood
    <3>4. BootTypes'
      BY <1>1, <1>3, <2>2, <3>2 DEF BootGood, BootTypes
    <3> QED BY <1>2, <3>2, <3>3, <3>4
  <2> QED BY <1>1, <2>1, <2>2
<1>5. main'.step \in Nat /\ main'.step >= main.step
  BY <1>2, <1>4
<1>6. LoadInv'
  BY <1>1, <1>2, <1>4, <1>5, LoadKept
<1>7. PagesInv'
  <2>1. /\ kmem.free \cap kmem.used = {} /\ kmem.free \subseteq 1..LOW /\ kmem.used \subseteq 1..LOW
        /\ Cardinality(kmem.free) >= (LOW - 1) - main.cpu /\ initproc = "UNUSED" /\ ~kmem.user
    BY <1>2 DEF BootGood, PagesInv
  <2>2. main'.step = 15 => Cardinality(kmem.free) >= (LOW - 1) - main'.cpu
    <3>1. IsFiniteSet(kmem.free) /\ Cardinality(kmem.free) \in Nat
      <4>1. IsFiniteSet(1..LOW)
        BY BootSizes, FS_Interval
      <4> QED BY <2>1, <4>1, FS_Subset, FS_CardinalityType
    <3> QED BY <1>2, <1>4, <2>1, <3>1, BootSizes
  <2>3. initproc' = "UNUSED" /\ kmem' = kmem
    BY <1>1, <2>1
  <2> QED BY <1>4, <2>1, <2>2, <2>3 DEF PagesInv
<1>8. StartInv'
  BY <1>1, <1>5, StartNextAlone, StepStart
<1> QED BY <1>4, <1>6, <1>7, <1>8 DEF BootGood

(* There is a page left for the next processor. *)
LEMMA PageLeft ==
  ASSUME BootGood, main.step = 15, main.cpu + 1 <= Len(ids)
  PROVE  /\ Max(kmem.free) \in kmem.free /\ kmem.free \subseteq 1..LOW
         /\ IsFiniteSet(kmem.free) /\ Cardinality(kmem.free) \in Nat
         /\ Cardinality(kmem.free) >= (LOW - 1) - main.cpu
<1>1. kmem.free \subseteq 1..LOW /\ Cardinality(kmem.free) >= (LOW - 1) - main.cpu
  BY DEF BootGood, PagesInv
<1>2. main.cpu \in Nat /\ ids \in Seq(AllIds) /\ Len(ids) <= MaxNcpu
  BY BootFacts DEF BootGood, BootTypes
<1>3. Len(ids) \in Nat
  BY <1>2
<1>4. IsFiniteSet(kmem.free) /\ Cardinality(kmem.free) \in Nat
  <2>1. IsFiniteSet(1..LOW)
    BY BootSizes, FS_Interval
  <2> QED BY <1>1, <2>1, FS_Subset, FS_CardinalityType
<1>5. Cardinality(kmem.free) > 0
  BY <1>1, <1>2, <1>3, <1>4, BootSizes
<1>6. kmem.free # {}
  <2>1. Cardinality({}) = 0
    BY FS_EmptySet
  <2>2. kmem.free = {} => Cardinality(kmem.free) = 0
    BY <2>1
  <2> QED BY <1>5, <2>2
<1>7. Max(kmem.free) \in kmem.free
  BY <1>1, <1>6, BootSizes, MaxIs
<1> QED BY <1>1, <1>4, <1>7

(* startothers puts a fresh page in the word that the next processor reads.*)
LEMMA StartOneKeeps ==
  ASSUME BootGood, StartNext, NEW p, p = Max(kmem.free), NEW n, n = main.cpu + 1,
         n <= Len(ids), ids[n] # pcm.bsp,
         kmem' = [kmem EXCEPT !.free = @ \ {p}, !.used = @ \cup {p}],
         slot' = p, sipi' = [sipi EXCEPT ![ids[n]] = 2],
         main' = [main EXCEPT !.cpu = n], have' = have
  PROVE  BootGood'
<1>1. /\ At0("startothers") /\ Enter("startothers")
      /\ UNCHANGED <<elf, ram, pcm, mpp, ids, ap, initproc>>
  BY DEF StartNext
<1>2. main.step = 15 /\ main.step \in 0..19 /\ main.cpu \in Nat
      /\ main \in [ph : Nat, step : 0..19, cpu : Nat]
  BY <1>1, CallAt, BootFacts
<1>3. AllIds' = AllIds
  BY <1>1 DEF AllIds
<1>4. n \in Nat /\ n > 0 /\ n = main.cpu + 1
  BY <1>2
<1>5. /\ main' \in [ph : Nat, step : 0..19, cpu : Nat]
      /\ main'.step = 15 /\ main'.ph = main.ph /\ main'.cpu = n
  BY <1>2, <1>4
<1>6. /\ p \in kmem.free /\ kmem.free \subseteq 1..LOW
      /\ IsFiniteSet(kmem.free) /\ Cardinality(kmem.free) \in Nat
      /\ Cardinality(kmem.free) >= (LOW - 1) - main.cpu
  BY <1>2, PageLeft
<1>7. kmem.free \in SUBSET Pages /\ kmem.used \in SUBSET Pages
  BY BootFacts
<1> PICK U : U = kmem.used \cup {p}
  OBVIOUS
<1>8. U \in SUBSET Pages /\ kmem' = [kmem EXCEPT !.free = @ \ {p}, !.used = U]
  BY <1>6, <1>7
<1>9. /\ kmem' \in [free : SUBSET Pages, used : SUBSET Pages,
                    use_lock : BOOLEAN, boot : BOOLEAN, user : BOOLEAN]
      /\ kmem'.free = kmem.free \ {p} /\ kmem'.used = U /\ kmem'.user = kmem.user
  BY <1>6, <1>8, PageTaken, ZenonT(60)
<1>10. p \in 1..LOW /\ p \in 0..LOW /\ p # 0
  BY <1>6, BootSizes
<1>11. ids \in Seq(AllIds) /\ ids[n] \in AllIds
  <2>1. ids \in Seq(AllIds)
    BY BootFacts
  <2> QED BY <1>4, <2>1
<1>12. /\ sipi' \in [AllIds -> Nat] /\ \A c \in AllIds \ {ids[n]} : sipi'[c] = sipi[c]
  BY <1>11, BootFacts
<1>13. BootTypes'
  BY <1>1, <1>3, <1>5, <1>9, <1>10, <1>12 DEF BootGood, BootTypes
<1>14. ReadyInv'
  BY <1>1, <1>2, <1>5, ReadyStays DEF BootGood
<1>15. LoadInv'
  <2>1. main'.step \in Nat /\ main'.step >= main.step /\ main.step >= 1
    BY <1>2, <1>5
  <2> QED BY <1>1, <1>5, <2>1, LoadKept
<1>16. PagesInv'
  <2>1. /\ kmem.free \cap kmem.used = {} /\ kmem.used \subseteq 1..LOW
        /\ initproc = "UNUSED" /\ ~kmem.user
    BY <1>2 DEF BootGood, PagesInv
  <2>2. /\ kmem'.free \cap kmem'.used = {} /\ kmem'.used \subseteq 1..LOW
        /\ kmem'.free \subseteq 1..LOW /\ initproc' = "UNUSED" /\ ~kmem'.user
    BY <1>1, <1>6, <1>9, <1>10, <2>1
  <2>3. Cardinality(kmem'.free) >= (LOW - 1) - main'.cpu
    <3>1. Cardinality(kmem'.free) = Cardinality(kmem.free) - 1
      <4>1. Cardinality(kmem.free \ {p}) = Cardinality(kmem.free) - 1
        BY <1>6, FS_RemoveElement
      <4> QED BY <1>9, <4>1
    <3>2. \A a, b \in Nat : a >= (LOW - 1) - b => a - 1 >= (LOW - 1) - (b + 1)
      <4>1. LOW \in Nat
        BY BootSizes
      <4> QED BY <4>1
    <3>3. main.cpu \in Nat
      BY <1>2
    <3>4. Cardinality(kmem.free) - 1 >= (LOW - 1) - (main.cpu + 1)
      BY <1>6, <3>2, <3>3
    <3>5. main'.cpu = main.cpu + 1
      BY <1>4, <1>5
    <3> QED BY <3>1, <3>4, <3>5
  <2> QED BY <1>5, <2>2, <2>3 DEF PagesInv
<1>17. StartInv'
  <2> SUFFICES ASSUME NEW c \in AllIds
               PROVE
      /\ c = pcm.bsp => ap[c].at \in {"main", "scheduler", "init"} /\ ap[c].stack = 0
      /\ ap[c].started => ap[c].at \in {"scheduler", "init"}
      /\ ((ap[c].at = "halted" /\ sipi'[c] > 0) \/ ap[c].at = "entryother") =>
           /\ c = ids[n]
           /\ slot' \in 1..LOW /\ slot' \notin kmem'.free /\ \A d \in AllIds : ap[d].stack # slot'
      /\ ap[c].stack # 0 =>
           /\ ap[c].stack \notin kmem'.free
           /\ \A d \in AllIds \ {c} : ap[d].stack # ap[c].stack
    BY <1>1, <1>3, <1>4, <1>5 DEF StartInv, Starting, FreshSlot
  <2>1. \A d \in AllIds : /\ d = pcm.bsp => ap[d].at \in {"main", "scheduler", "init"} /\ ap[d].stack = 0
                          /\ ap[d].started => ap[d].at \in {"scheduler", "init"}
                          /\ ap[d].stack # 0 =>
                               /\ ap[d].stack \notin kmem.free
                               /\ \A e \in AllIds \ {d} : ap[e].stack # ap[d].stack
    BY DEF BootGood, StartInv
  <2>2. ~Starting(c)
    BY StartNextAlone
  <2>3. ((ap[c].at = "halted" /\ sipi'[c] > 0) \/ ap[c].at = "entryother") => c = ids[n]
    BY <1>12, <2>2 DEF Starting
  <2>4. slot' \in 1..LOW /\ slot' \notin kmem'.free /\ \A d \in AllIds : ap[d].stack # slot'
    BY <1>6, <1>9, <1>10, <2>1
  <2> QED BY <1>9, <2>1, <2>3, <2>4
<1> QED BY <1>13, <1>14, <1>15, <1>16, <1>17 DEF BootGood

(* One turn of the loop of startothers. *)
LEMMA StartNextKeeps ==
  ASSUME BootGood, StartNext
  PROVE  BootGood'
<1> PICK p : p = Max(kmem.free)
  OBVIOUS
<1> PICK n : n = main.cpu + 1
  OBVIOUS
<1>1. main.cpu \in Nat /\ ids \in Seq(AllIds)
  BY BootFacts
<1>2. Len(ids) \in Nat /\ n \in Nat
  BY <1>1
<1>3. CASE UNCHANGED <<slot, sipi, kmem>>
  BY <1>3, StartPassKeeps
<1>4. CASE ~UNCHANGED <<slot, sipi, kmem>>
  <2>1. /\ ~(n > Len(ids)) /\ ids[n] # pcm.bsp
        /\ kmem' = [kmem EXCEPT !.free = @ \ {p}, !.used = @ \cup {p}]
        /\ slot' = p /\ sipi' = [sipi EXCEPT ![ids[n]] = 2]
        /\ main' = [main EXCEPT !.cpu = n] /\ have' = have
    BY <1>4 DEF StartNext, IsMycpu, ncpu
  <2>2. n <= Len(ids)
    BY <1>2, <2>1
  <2> QED BY <2>1, <2>2, StartOneKeeps
<1> QED BY <1>3, <1>4

-----------------------------------------------------------------------------
(* What a step of another processor leaves of the rest. *)
LEMMA ApTypes ==
  ASSUME BootGood, UNCHANGED <<elf, ram, pcm, mpp, ids, main, slot>>,
         ap' \in [AllIds -> [at : Places, stack : 0..LOW, started : BOOLEAN]],
         sipi' \in [AllIds -> Nat],
         kmem' \in [free : SUBSET Pages, used : SUBSET Pages,
                    use_lock : BOOLEAN, boot : BOOLEAN, user : BOOLEAN]
  PROVE  BootTypes' /\ LoadInv'
<1>1. AllIds' = AllIds
  BY DEF AllIds
<1>2. BootTypes'
  BY <1>1 DEF BootGood, BootTypes
<1>3. LoadInv'
  BY DEF BootGood, LoadInv, SegmentLoaded
<1> QED BY <1>2, <1>3

(* A processor's record, replaced by another. *)
LEMMA Replaced ==
  ASSUME BootGood, NEW c \in AllIds, NEW r \in [at : Places, stack : 0..LOW, started : BOOLEAN],
         ap' = [ap EXCEPT ![c] = r]
  PROVE  /\ ap' \in [AllIds -> [at : Places, stack : 0..LOW, started : BOOLEAN]]
         /\ ap'[c] = r /\ \A d \in AllIds \ {c} : ap'[d] = ap[d]
<1> DEFINE R == [at : Places, stack : 0..LOW, started : BOOLEAN]
<1>1. ap \in [AllIds -> R] /\ r \in R
  BY BootFacts
<1> HIDE DEF R
<1>2. ap' \in [AllIds -> R] /\ ap'[c] = r /\ \A d \in AllIds \ {c} : ap'[d] = ap[d]
  BY <1>1
<1> QED BY <1>2 DEF R

(* The record of a processor after it goes on to another place. *)
LEMMA Moved ==
  ASSUME BootGood, NEW c \in AllIds, NEW x \in Places, NEW y \in 0..LOW, NEW b \in BOOLEAN,
         \/ ap' = [ap EXCEPT ![c].at = x] /\ y = ap[c].stack /\ b = ap[c].started
         \/ ap' = [ap EXCEPT ![c].at = x, ![c].stack = y] /\ b = ap[c].started
         \/ ap' = [ap EXCEPT ![c].at = x, ![c].started = b] /\ y = ap[c].stack
  PROVE  /\ ap' \in [AllIds -> [at : Places, stack : 0..LOW, started : BOOLEAN]]
         /\ ap'[c].at = x /\ ap'[c].stack = y /\ ap'[c].started = b
         /\ \A d \in AllIds \ {c} : ap'[d] = ap[d]
<1>1. ap \in [AllIds -> [at : Places, stack : 0..LOW, started : BOOLEAN]]
  BY BootFacts
<1>2. ap[c] \in [at : Places, stack : 0..LOW, started : BOOLEAN]
  BY <1>1
<1>3. \E r \in [at : Places, stack : 0..LOW, started : BOOLEAN] :
        r.at = x /\ r.stack = y /\ r.started = b /\ ap' = [ap EXCEPT ![c] = r]
  <2>1. CASE ap' = [ap EXCEPT ![c].at = x] /\ y = ap[c].stack /\ b = ap[c].started
    <3> DEFINE r == [ap[c] EXCEPT !.at = x]
    <3>1. r \in [at : Places, stack : 0..LOW, started : BOOLEAN] /\ r.at = x /\ r.stack = y /\ r.started = b
      BY <1>2, <2>1
    <3>2. ap' = [ap EXCEPT ![c] = r]
      BY <2>1
    <3> HIDE DEF r
    <3> QED BY <3>1, <3>2
  <2>2. CASE ap' = [ap EXCEPT ![c].at = x, ![c].stack = y] /\ b = ap[c].started
    <3> DEFINE r == [ap[c] EXCEPT !.at = x, !.stack = y]
    <3>1. r \in [at : Places, stack : 0..LOW, started : BOOLEAN] /\ r.at = x /\ r.stack = y /\ r.started = b
      BY <1>2, <2>2
    <3>2. ap' = [ap EXCEPT ![c] = r]
      BY <1>1, <2>2
    <3> HIDE DEF r
    <3> QED BY <3>1, <3>2
  <2>3. CASE ap' = [ap EXCEPT ![c].at = x, ![c].started = b] /\ y = ap[c].stack
    <3> DEFINE r == [ap[c] EXCEPT !.at = x, !.started = b]
    <3>1. r \in [at : Places, stack : 0..LOW, started : BOOLEAN] /\ r.at = x /\ r.stack = y /\ r.started = b
      BY <1>2, <2>3
    <3>2. ap' = [ap EXCEPT ![c] = r]
      BY <1>1, <2>3
    <3> HIDE DEF r
    <3> QED BY <3>1, <3>2
  <2> QED BY <2>1, <2>2, <2>3
<1> QED BY <1>3, Replaced

(* A processor goes on in entryother.S, mpenter, mpmain or the scheduler;  *)
(* one that has just read its stack is no longer about to.                 *)
LEMMA StartMoves ==
  ASSUME BootGood, UNCHANGED <<pcm, ids, slot, sipi>>, kmem'.free = kmem.free,
         main'.step \in Nat, main'.step >= main.step, main'.step = main.step => main' = main,
         NEW c \in AllIds, ap[c].at # "halted",
         ap'[c].at \in {"mpenter", "mpmain", "scheduler", "init"},
         ap'[c].started => ap'[c].at \in {"scheduler", "init"},
         c = pcm.bsp => ap'[c].at \in {"scheduler", "init"},
         ap'[c].stack = ap[c].stack \/ (ap[c].at = "entryother" /\ ap'[c].stack = slot),
         ap[c].at \in {"halted", "main"} => main'.step >= 15,
         main.step # 15 \/ main'.step = 15,
         \A d \in AllIds \ {c} : ap'[d] = ap[d]
  PROVE  StartInv'
<1>1. AllIds' = AllIds
  BY DEF AllIds
<1>0. main.step \in Nat
  <2>1. main.step \in 0..19
    BY BootFacts
  <2> QED BY <2>1
<1>2. \A d \in AllIds :
        /\ ap[d].at \notin {"halted", "main"} \/ sipi[d] > 0 \/ ap[d].stack # 0 => main.step >= 15
        /\ d = pcm.bsp => ap[d].at \in {"main", "scheduler", "init"} /\ ap[d].stack = 0
        /\ ap[d].started => ap[d].at \in {"scheduler", "init"}
        /\ Starting(d) =>
             /\ main.step = 15 /\ main.cpu > 0 /\ d = ids[main.cpu] /\ d # pcm.bsp
             /\ FreshSlot
        /\ ap[d].stack # 0 =>
             /\ ap[d].stack \notin kmem.free
             /\ \A e \in AllIds \ {d} : ap[e].stack # ap[d].stack
  BY DEF BootGood, StartInv
<1>3. ap'[c].stack # ap[c].stack =>
        /\ Starting(c) /\ ap'[c].stack = slot /\ FreshSlot /\ c # pcm.bsp
        /\ \A d \in AllIds \ {c} : ~Starting(d)
  BY <1>2 DEF Starting
<1>4. ASSUME NEW d \in AllIds
      PROVE  /\ ap'[d].at \notin {"halted", "main"} \/ sipi[d] > 0 \/ ap'[d].stack # 0 => main'.step >= 15
             /\ d = pcm.bsp => ap'[d].at \in {"main", "scheduler", "init"} /\ ap'[d].stack = 0
             /\ ap'[d].started => ap'[d].at \in {"scheduler", "init"}
  <2>1. CASE d = c
    <3>1. main'.step >= 15
      BY <1>0, <1>2
    <3>2. d = pcm.bsp => ap'[d].stack = 0
      BY <1>2, <1>3, <2>1
    <3> QED BY <2>1, <3>1, <3>2
  <2>2. CASE d # c
    <3>1. ap'[d] = ap[d]
      BY <2>2
    <3> QED BY <1>0, <1>2, <3>1
  <2> QED BY <2>1, <2>2
<1>5. ASSUME NEW d \in AllIds, Starting(d)'
      PROVE  /\ main'.step = 15 /\ main'.cpu > 0 /\ d = ids[main'.cpu] /\ d # pcm.bsp
             /\ FreshSlot'
  <2>1. d # c /\ ap'[d] = ap[d] /\ Starting(d)
    BY <1>5 DEF Starting
  <2>2. main.step = 15 /\ main.cpu > 0 /\ d = ids[main.cpu] /\ d # pcm.bsp /\ FreshSlot
    BY <1>2, <2>1
  <2>3. ap'[c].stack = ap[c].stack
    BY <1>3, <2>1
  <2>4. \A e \in AllIds : ap'[e].stack = ap[e].stack
    BY <2>3
  <2> QED BY <1>1, <2>2, <2>4 DEF FreshSlot
<1>6. ASSUME NEW d \in AllIds, ap'[d].stack # 0
      PROVE  /\ ap'[d].stack \notin kmem.free
             /\ \A e \in AllIds \ {d} : ap'[e].stack # ap'[d].stack
  <2>1. CASE ap'[c].stack = ap[c].stack
    <3>1. \A e \in AllIds : ap'[e].stack = ap[e].stack
      BY <2>1
    <3> QED BY <1>2, <1>6, <3>1
  <2>2. CASE ap'[c].stack # ap[c].stack
    <3>1. slot \notin kmem.free /\ \A e \in AllIds : ap[e].stack # slot
      BY <1>3, <2>2 DEF FreshSlot
    <3>2. CASE d = c
      BY <1>3, <2>2, <3>1, <3>2
    <3>3. CASE d # c
      BY <1>2, <1>3, <1>6, <2>2, <3>1, <3>3
    <3> QED BY <3>2, <3>3
  <2> QED BY <2>1, <2>2
<1> QED BY <1>1, <1>4, <1>5, <1>6 DEF StartInv

(* What does not change for main and the pages. *)
LEMMA RestKept ==
  ASSUME BootGood, UNCHANGED <<main, kmem, initproc, have>>, ~early'
  PROVE  ReadyInv' /\ PagesInv'
<1>1. ReadyInv'
  BY DEF BootGood, ReadyInv
<1>2. PagesInv'
  BY DEF BootGood, PagesInv
<1> QED BY <1>1, <1>2

(* A startup interrupt: the first wakes a halted processor, the second is  *)
(* lost, since the processor is no longer halted.                          *)
LEMMA SipiKeeps ==
  ASSUME BootGood, NEW c \in AllIds, Sipi(c)
  PROVE  BootGood'
<1>1. /\ UNCHANGED <<elf, ram, pcm, mpp, ids, main, slot, kmem, have, early, initproc>>
      /\ sipi[c] > 0 /\ sipi' = [sipi EXCEPT ![c] = @ - 1]
      /\ ap' = IF ap[c].at = "halted" THEN [ap EXCEPT ![c].at = "entryother"] ELSE ap
  BY DEF Sipi
<1>2. AllIds' = AllIds
  BY <1>1 DEF AllIds
<1>3. /\ sipi' \in [AllIds -> Nat] /\ \A d \in AllIds \ {c} : sipi'[d] = sipi[d]
  <2>1. sipi \in [AllIds -> Nat]
    BY BootFacts
  <2>2. sipi[c] - 1 \in Nat
    BY <1>1, <2>1
  <2> QED BY <1>1, <2>1, <2>2
<1>4. /\ ap' \in [AllIds -> [at : Places, stack : 0..LOW, started : BOOLEAN]]
      /\ ap'[c].stack = ap[c].stack /\ ap'[c].started = ap[c].started
      /\ ap'[c].at = IF ap[c].at = "halted" THEN "entryother" ELSE ap[c].at
      /\ \A d \in AllIds \ {c} : ap'[d] = ap[d]
  <2>1. CASE ap[c].at = "halted"
    <3>1. ap[c].stack \in 0..LOW /\ ap[c].started \in BOOLEAN /\ "entryother" \in Places
      BY BootFacts DEF Places
    <3>2. ap' = [ap EXCEPT ![c].at = "entryother"]
      BY <1>1, <2>1
    <3>3. /\ ap' \in [AllIds -> [at : Places, stack : 0..LOW, started : BOOLEAN]]
          /\ ap'[c].at = "entryother" /\ ap'[c].stack = ap[c].stack /\ ap'[c].started = ap[c].started
          /\ \A d \in AllIds \ {c} : ap'[d] = ap[d]
      BY <3>1, <3>2, Moved, ZenonT(60)
    <3> QED BY <2>1, <3>3
  <2>2. CASE ap[c].at # "halted"
    BY <1>1, <2>2, BootFacts
  <2> QED BY <2>1, <2>2
<1>5. BootTypes' /\ LoadInv'
  BY <1>1, <1>3, <1>4, BootFacts, ApTypes
<1>6. ReadyInv' /\ PagesInv'
  <2>1. ~early'
    BY <1>1 DEF BootGood, ReadyInv
  <2> QED BY <1>1, <2>1, RestKept
<1>7. StartInv'
  <2>1. \A d \in AllIds :
        /\ ap[d].at \notin {"halted", "main"} \/ sipi[d] > 0 \/ ap[d].stack # 0 => main.step >= 15
        /\ d = pcm.bsp => ap[d].at \in {"main", "scheduler", "init"} /\ ap[d].stack = 0
        /\ ap[d].started => ap[d].at \in {"scheduler", "init"}
        /\ Starting(d) =>
             /\ main.step = 15 /\ main.cpu > 0 /\ d = ids[main.cpu] /\ d # pcm.bsp
             /\ FreshSlot
        /\ ap[d].stack # 0 =>
             /\ ap[d].stack \notin kmem.free
             /\ \A e \in AllIds \ {d} : ap[e].stack # ap[d].stack
    BY DEF BootGood, StartInv
  <2>2. \A d \in AllIds : ap'[d].stack = ap[d].stack
    BY <1>4
  <2>3. FreshSlot => FreshSlot'
    BY <1>1, <1>2, <2>2 DEF FreshSlot
  <2>4. \A d \in AllIds : Starting(d)' => Starting(d)
    BY <1>1, <1>3, <1>4 DEF Starting
  <2>5. ASSUME NEW d \in AllIds
        PROVE  /\ ap'[d].at \notin {"halted", "main"} \/ sipi'[d] > 0 \/ ap'[d].stack # 0 => main.step >= 15
               /\ d = pcm.bsp => ap'[d].at \in {"main", "scheduler", "init"} /\ ap'[d].stack = 0
               /\ ap'[d].started => ap'[d].at \in {"scheduler", "init"}
    <3>1. CASE d = c
      BY <1>1, <1>4, <2>1, <3>1
    <3>2. CASE d # c
      BY <1>3, <1>4, <2>1, <3>2
    <3> QED BY <3>1, <3>2
  <2> QED BY <1>1, <1>2, <2>1, <2>2, <2>3, <2>4, <2>5 DEF StartInv
<1> QED BY <1>5, <1>6, <1>7 DEF BootGood

(* A processor takes a step of its own. *)
LEMMA ApMoves ==
  ASSUME BootGood, NEW c \in AllIds, NEW x \in {"mpenter", "mpmain", "scheduler"},
         NEW y \in 0..LOW, NEW b \in BOOLEAN,
         UNCHANGED <<elf, ram, pcm, mpp, ids, main, slot, sipi, kmem, have, initproc>>, ~early',
         ap[c].at \in {"entryother", "mpenter", "mpmain"},
         \/ ap' = [ap EXCEPT ![c].at = x] /\ y = ap[c].stack /\ b = ap[c].started
         \/ ap' = [ap EXCEPT ![c].at = x, ![c].stack = y] /\ b = ap[c].started
         \/ ap' = [ap EXCEPT ![c].at = x, ![c].started = b] /\ y = ap[c].stack,
         y = ap[c].stack \/ (ap[c].at = "entryother" /\ y = slot),
         b => x = "scheduler"
  PROVE  BootGood'
<1>1. x \in Places
  BY DEF Places
<1>2. /\ ap' \in [AllIds -> [at : Places, stack : 0..LOW, started : BOOLEAN]]
      /\ ap'[c].at = x /\ ap'[c].stack = y /\ ap'[c].started = b
      /\ \A d \in AllIds \ {c} : ap'[d] = ap[d]
  BY <1>1, Moved
<1>3. BootTypes' /\ LoadInv'
  BY <1>2, BootFacts, ApTypes
<1>4. ReadyInv' /\ PagesInv'
  BY RestKept
<1>5. StartInv'
  <2>1. main.step \in Nat
    <3>1. main.step \in 0..19
      BY BootFacts
    <3> QED BY <3>1
  <2>2. main'.step = main.step /\ main'.step >= main.step /\ main'.step \in Nat
    BY <2>1
  <2>3. c # pcm.bsp
    BY DEF BootGood, StartInv
  <2> QED BY <1>2, <2>1, <2>2, <2>3, StartMoves
<1> QED BY <1>3, <1>4, <1>5 DEF BootGood

(* entryother.S, mpenter and mpmain of a processor that starts. *)
LEMMA ApKeeps ==
  ASSUME BootGood, NEW c \in AllIds, Entryother(c) \/ mpenter(c) \/ ApMain(c)
  PROVE  BootGood'
<1>1. ap[c].stack \in 0..LOW /\ ap[c].started \in BOOLEAN /\ slot \in 0..LOW
  <2>1. ap \in [AllIds -> [at : Places, stack : 0..LOW, started : BOOLEAN]]
    BY BootFacts
  <2> QED BY <2>1 DEF BootGood, BootTypes
<1>2. main.step \in Nat /\ main.step >= 15
  <2>1. main.step \in 0..19
    BY BootFacts
  <2>2. ap[c].at \notin {"halted", "main"}
    BY DEF Entryother, mpenter, ApMain
  <2>3. main.step >= 15
    BY <2>2 DEF BootGood, StartInv
  <2> QED BY <2>1, <2>3
<1>3. ~early /\ {"kpgdir", "cpus", "lapic"} \subseteq have /\ {"cons", "idt"} \subseteq have
  BY <1>2 DEF BootGood, ReadyInv
<1>4. ~ap[c].started
  BY DEF BootGood, StartInv, Entryother, mpenter, ApMain
<1>5. CASE Entryother(c)
  <2>1. /\ UNCHANGED <<elf, ram, pcm, mpp, ids, main, slot, sipi, kmem, have, initproc>> /\ ~early'
        /\ ap[c].at = "entryother" /\ ap' = [ap EXCEPT ![c].at = "mpenter", ![c].stack = slot]
    BY <1>3, <1>5 DEF Entryother
  <2> QED BY <1>1, <1>4, <2>1, ApMoves
<1>6. CASE mpenter(c)
  <2>1. /\ UNCHANGED <<elf, ram, pcm, mpp, ids, main, slot, sipi, kmem, have, initproc>> /\ ~early'
        /\ ap[c].at = "mpenter" /\ ap' = [ap EXCEPT ![c].at = "mpmain"]
    BY <1>3, <1>6 DEF mpenter
  <2> QED BY <1>1, <1>4, <2>1, ApMoves
<1>7. CASE ApMain(c)
  <2>1. /\ UNCHANGED <<elf, ram, pcm, mpp, ids, main, slot, sipi, kmem, have, initproc>> /\ ~early'
        /\ ap[c].at = "mpmain" /\ ap' = [ap EXCEPT ![c].at = "scheduler", ![c].started = TRUE]
    BY <1>3, <1>7 DEF ApMain
  <2> QED BY <1>1, <2>1, ApMoves
<1> QED BY <1>5, <1>6, <1>7

-----------------------------------------------------------------------------
(* The first process, after kinit2. *)
LEMMA UserinitKeeps ==
  ASSUME BootGood, userinit
  PROVE  BootGood'
<1> PICK p : p = Max(kmem.free)
  OBVIOUS
<1> PICK U : U = kmem.used \cup {p}
  OBVIOUS
<1>1. /\ At0("userinit") /\ Enter("userinit") /\ Leave("userinit")
      /\ kmem' = [kmem EXCEPT !.free = @ \ {p}, !.used = U] /\ initproc' = "RUNNABLE"
      /\ UNCHANGED <<elf, ram, pcm, mpp, ids, slot, ap, sipi>>
  BY DEF userinit
<1>2. main.step = 17
  BY <1>1, CallAt, BootFacts
<1>3. /\ main' \in [ph : Nat, step : 0..19, cpu : Nat]
      /\ main'.step = main.step + 1 /\ main'.ph = main.ph /\ main'.cpu = main.cpu
  BY <1>1, LeaveIs
<1>4. main'.step = 18 /\ main'.step \in Nat /\ main'.step >= main.step
  BY <1>2, <1>3
<1>5. /\ kmem.free # {} /\ kmem.free \cap kmem.used = {} /\ kmem.use_lock /\ ~kmem.boot /\ ~kmem.user
  BY <1>2 DEF BootGood, PagesInv
<1>6. p \in kmem.free /\ U \in SUBSET Pages
  <2>1. kmem.free \in SUBSET Pages /\ kmem.used \in SUBSET Pages
    BY BootFacts
  <2>2. LOW + HIGH \in Nat /\ kmem.free \in SUBSET (1..LOW + HIGH)
    BY <2>1, BootSizes DEF Pages
  <2>3. p \in kmem.free
    BY <1>5, <2>2, MaxIs
  <2> QED BY <2>1, <2>3
<1>7. /\ kmem' \in [free : SUBSET Pages, used : SUBSET Pages,
                    use_lock : BOOLEAN, boot : BOOLEAN, user : BOOLEAN]
      /\ kmem'.free = kmem.free \ {p} /\ kmem'.used = U
      /\ kmem'.use_lock = kmem.use_lock /\ kmem'.boot = kmem.boot /\ kmem'.user = kmem.user
  BY <1>1, <1>6, PageTaken
<1>8. BootTypes'
  BY <1>1, <1>3, <1>7, TypesKept
<1>9. ReadyInv'
  BY <1>1, ReadySteps
<1>10. LoadInv'
  BY <1>1, <1>2, <1>3, <1>4, LoadKept
<1>11. PagesInv'
  <2>1. kmem'.free \cap kmem'.used = {} /\ kmem'.use_lock /\ ~kmem'.boot /\ ~kmem'.user
    BY <1>5, <1>7
  <2> QED BY <1>1, <1>4, <2>1 DEF PagesInv
<1>12. StartInv'
  <2>1. \A c \in AllIds : ~Starting(c)
    BY <1>2, NoneStarting
  <2>2. kmem'.free \cap (1..LOW) \subseteq kmem.free
    BY <1>7
  <2> QED BY <1>1, <1>4, <2>1, <2>2, StepStart
<1> QED BY <1>8, <1>9, <1>10, <1>11, <1>12 DEF BootGood

(* main enters the scheduler. *)
LEMMA MpmainKeeps ==
  ASSUME BootGood, mpmain
  PROVE  BootGood'
<1> PICK c : c = pcm.bsp
  OBVIOUS
<1> PICK r : r = [ap[c] EXCEPT !.at = "scheduler", !.started = TRUE]
  OBVIOUS
<1>1. /\ At0("mpmain") /\ Enter("mpmain") /\ Leave("mpmain")
      /\ ap' = [ap EXCEPT ![c] = r]
      /\ UNCHANGED <<elf, ram, pcm, mpp, ids, slot, sipi, kmem, initproc>>
  BY DEF mpmain
<1>2. main.step = 18
  BY <1>1, CallAt, BootFacts
<1>3. /\ main' \in [ph : Nat, step : 0..19, cpu : Nat]
      /\ main'.step = main.step + 1 /\ main'.ph = main.ph /\ main'.cpu = main.cpu
  BY <1>1, LeaveIs
<1>4. main'.step = 19 /\ main'.step \in Nat /\ main'.step >= main.step
  BY <1>2, <1>3
<1>5. ReadyInv'
  BY <1>1, ReadySteps
<1>6. LoadInv'
  BY <1>1, <1>2, <1>3, <1>4, LoadKept
<1>7. PagesInv'
  <2>1. /\ kmem.free \cap kmem.used = {} /\ kmem.use_lock /\ ~kmem.boot
        /\ kmem.user => initproc = "RUNNING"
    BY <1>2 DEF BootGood, PagesInv
  <2> QED BY <1>1, <1>4, <2>1 DEF PagesInv
<1>8. AllIds' = AllIds
  BY <1>1 DEF AllIds
<1>9. CASE c \in AllIds
  <2>1. /\ r \in [at : Places, stack : 0..LOW, started : BOOLEAN]
        /\ r.at = "scheduler" /\ r.stack = ap[c].stack
    <3>1. ap \in [AllIds -> [at : Places, stack : 0..LOW, started : BOOLEAN]]
      BY BootFacts
    <3>2. ap[c] \in [at : Places, stack : 0..LOW, started : BOOLEAN] /\ "scheduler" \in Places
      BY <1>9, <3>1 DEF Places
    <3> QED BY <3>2
  <2>2. /\ ap' \in [AllIds -> [at : Places, stack : 0..LOW, started : BOOLEAN]]
        /\ ap'[c] = r /\ \A d \in AllIds \ {c} : ap'[d] = ap[d]
    BY <1>1, <1>9, <2>1, Replaced
  <2>3. BootTypes'
    BY <1>1, <1>3, <1>8, <2>2 DEF BootGood, BootTypes
  <2>4. StartInv'
    <3>1. ap[c].at # "halted"
      BY <1>9 DEF BootGood, StartInv
    <3>2. ap'[c].at = "scheduler" /\ ap'[c].stack = ap[c].stack
      BY <2>1, <2>2
    <3>3. main'.step # main.step /\ main.step # 15 /\ main'.step >= 15
      BY <1>2, <1>4
    <3> QED BY <1>1, <1>4, <1>9, <2>2, <3>1, <3>2, <3>3, StartMoves
  <2> QED BY <1>5, <1>6, <1>7, <2>3, <2>4 DEF BootGood
<1>10. CASE c \notin AllIds
  <2>1. ap' = ap
    <3>1. ap \in [AllIds -> [at : Places, stack : 0..LOW, started : BOOLEAN]]
      BY BootFacts
    <3>2. DOMAIN ap = AllIds /\ ap = [d \in AllIds |-> ap[d]]
      BY <3>1
    <3>3. ap' = [d \in AllIds |-> IF d = c THEN r ELSE ap[d]]
      BY <1>1, <3>2
    <3>4. ap' = [d \in AllIds |-> ap[d]]
      BY <1>10, <3>3
    <3> QED BY <3>2, <3>4
  <2>2. BootTypes'
    BY <1>1, <1>3, <2>1, BootFacts, TypesKept
  <2>3. StartInv'
    <3>1. main.step # 15
      BY <1>2
    <3>2. \A d \in AllIds : ~Starting(d)
      BY <3>1, NoneStarting
    <3> QED BY <1>1, <1>4, <2>1, <3>2, StepStart
  <2> QED BY <1>5, <1>6, <1>7, <2>2, <2>3 DEF BootGood
<1> QED BY <1>9, <1>10

(* A scheduler runs the first process, which there is only after kinit2. *)
LEMMA RunInitKeeps ==
  ASSUME BootGood, NEW c \in AllIds, RunInit(c)
  PROVE  BootGood'
<1>1. /\ ap[c].at = "scheduler" /\ initproc = "RUNNABLE"
      /\ ap' = [ap EXCEPT ![c].at = "init"] /\ initproc' = "RUNNING"
      /\ kmem' = [kmem EXCEPT !.user = TRUE]
      /\ UNCHANGED <<elf, ram, pcm, mpp, ids, main, slot, sipi, have, early>>
  BY DEF RunInit
<1>2. ap[c].stack \in 0..LOW /\ ap[c].started \in BOOLEAN /\ "init" \in Places
  <2>1. ap \in [AllIds -> [at : Places, stack : 0..LOW, started : BOOLEAN]]
    BY BootFacts
  <2> QED BY <2>1 DEF Places
<1>3. /\ ap' \in [AllIds -> [at : Places, stack : 0..LOW, started : BOOLEAN]]
      /\ ap'[c].at = "init" /\ ap'[c].stack = ap[c].stack
      /\ \A d \in AllIds \ {c} : ap'[d] = ap[d]
  BY <1>1, <1>2, Moved, ZenonT(60)
<1>4. /\ kmem' \in [free : SUBSET Pages, used : SUBSET Pages,
                    use_lock : BOOLEAN, boot : BOOLEAN, user : BOOLEAN]
      /\ kmem'.free = kmem.free /\ kmem'.used = kmem.used
      /\ kmem'.use_lock = kmem.use_lock /\ kmem'.boot = kmem.boot
  <2>1. kmem \in [free : SUBSET Pages, used : SUBSET Pages,
                  use_lock : BOOLEAN, boot : BOOLEAN, user : BOOLEAN]
    BY BootFacts
  <2> QED BY <1>1, <2>1
<1>5. BootTypes' /\ LoadInv'
  BY <1>1, <1>3, <1>4, BootFacts, ApTypes
<1>6. ReadyInv'
  BY <1>1 DEF BootGood, ReadyInv
<1>0. main.step \in Nat
  <2>1. main.step \in 0..19
    BY BootFacts
  <2> QED BY <2>1
<1>7. PagesInv'
  <2>1. main.step >= 18
    BY <1>1 DEF BootGood, PagesInv
  <2>2. kmem.free \cap kmem.used = {} /\ kmem.use_lock /\ ~kmem.boot
    BY <1>0, <2>1 DEF BootGood, PagesInv
  <2>3. kmem'.free \cap kmem'.used = {} /\ kmem'.use_lock /\ ~kmem'.boot /\ main' = main
    BY <1>1, <1>4, <2>2
  <2> QED BY <1>0, <1>1, <2>1, <2>3, SMTT(40) DEF PagesInv
<1>8. StartInv'
  <2>1. main'.step = main.step /\ main'.step >= main.step /\ main'.step \in Nat
    BY <1>0, <1>1
  <2> QED BY <1>1, <1>3, <1>4, <2>1, StartMoves
<1> QED BY <1>5, <1>6, <1>7, <1>8 DEF BootGood

-----------------------------------------------------------------------------
(* Before the first step. *)
LEMMA BootStarts == BootInit => BootGood
<1> SUFFICES ASSUME BootInit PROVE BootGood
  OBVIOUS
<1>1. main = [ph |-> 0, step |-> 0, cpu |-> 0]
  BY DEF BootInit
<1>2. main \in [ph : Nat, step : 0..19, cpu : Nat] /\ main.ph = 0 /\ main.step = 0 /\ main.cpu = 0
  BY <1>1
<1>3. /\ ids \in Seq(AllIds) /\ Len(ids) = 0 /\ mpp \in Nat \ {0}
      /\ elf \in KSegments /\ pcm \in PcMachines
  BY DEF BootInit
<1>4. ram \in [0..RAM - 1 -> Int]
  BY DEF BootInit
<1>5. kmem \in [free : SUBSET Pages, used : SUBSET Pages,
                use_lock : BOOLEAN, boot : BOOLEAN, user : BOOLEAN]
      /\ kmem.free = {} /\ kmem.used = {} /\ ~kmem.user
  BY DEF BootInit
<1>6. sipi \in [AllIds -> Nat] /\ \A c \in AllIds : sipi[c] = 0
  BY DEF BootInit
<1>7. /\ ap \in [AllIds -> [at : Places, stack : 0..LOW, started : BOOLEAN]]
      /\ \A c \in AllIds : /\ ap[c].at = IF c = pcm.bsp THEN "main" ELSE "halted"
                           /\ ap[c].stack = 0 /\ ~ap[c].started
  <2>1. 0 \in 0..LOW
    BY BootSizes
  <2> QED BY <2>1 DEF BootInit, Places
<1>8. BootTypes
  <2>1. Len(elf) \in Nat
    BY <1>3, SegmentFacts
  <2>2. slot \in 0..LOW /\ Len(ids) <= MaxNcpu /\ main.ph <= Len(elf) /\ main.cpu <= Len(ids)
    BY <1>2, <1>3, <2>1, BootSizes DEF BootInit
  <2> QED BY <1>2, <1>3, <1>4, <1>5, <1>6, <1>7, <2>2 DEF BootTypes
<1>9. LoadInv
  BY <1>2 DEF LoadInv
<1>10. ReadyInv
  BY <1>2 DEF ReadyInv, BootInit
<1>11. PagesInv
  BY <1>2, <1>5 DEF PagesInv, BootInit
<1>12. StartInv
  BY <1>6, <1>7 DEF StartInv, Starting
<1> QED BY <1>8, <1>9, <1>10, <1>11, <1>12 DEF BootGood

(* Every step keeps the invariant. *)
LEMMA BootStep == BootGood /\ [BootNext]_bvars => BootGood'
<1> SUFFICES ASSUME BootGood, [BootNext]_bvars PROVE BootGood'
  OBVIOUS
<1>1. CASE BspStep
  BY <1>1, LoadSegmentKeeps, EntryKeeps, CallKeeps, Kinit1Keeps, Kinit2Keeps, MpinitKeeps,
     StartNextKeeps, UserinitKeeps, MpmainKeeps DEF BspStep
<1>2. ASSUME NEW c \in AllIds, ApStep(c) PROVE BootGood'
  BY <1>2, SipiKeeps, ApKeeps DEF ApStep
<1>3. ASSUME NEW c \in AllIds, RunInit(c) PROVE BootGood'
  BY <1>3, RunInitKeeps
<1>4. CASE UNCHANGED bvars
  <2>1. /\ UNCHANGED <<elf, ram, pcm, mpp, ids, main, slot, ap, sipi>>
        /\ UNCHANGED <<main, kmem, initproc, have>> /\ early' = early
    BY <1>4 DEF bvars
  <2>2. ~early'
    BY <2>1 DEF BootGood, ReadyInv
  <2>3. BootTypes' /\ LoadInv'
    BY <2>1, BootFacts, ApTypes
  <2>4. ReadyInv' /\ PagesInv'
    BY <2>1, <2>2, RestKept
  <2>5. StartInv'
    BY <2>1, SameStart
  <2> QED BY <2>3, <2>4, <2>5 DEF BootGood
<1> QED BY <1>1, <1>2, <1>3, <1>4 DEF BootNext

(* The invariant says what BootInv says. *)
LEMMA BootMeans == BootGood => BootInv
<1> SUFFICES ASSUME BootGood PROVE BootInv
  OBVIOUS
<1>1. BootTypeOK
  <2>1. kmem.free \subseteq 1..LOW + HIGH /\ kmem.free \cap kmem.used = {}
    BY BootFacts DEF BootGood, PagesInv, Pages
  <2>2. main.step \in 0..Len(Main) + 1
    BY BootFacts, MainIs
  <2>3. ids \in Seq(AllIds) /\ main.cpu \in Nat /\ main.cpu <= Len(ids) /\ Len(ids) <= MaxNcpu
    BY BootFacts DEF BootGood, BootTypes
  <2>4. main.cpu \in 0..Len(ids) /\ {ids[j] : j \in DOMAIN ids} \subseteq AllIds
    BY <2>3
  <2> QED BY <2>1, <2>2, <2>3, <2>4 DEF BootTypeOK, ncpu
<1>2. LoadExact
  <2> SUFFICES ASSUME main.step = 1, NEW j \in DOMAIN elf PROVE SegmentLoaded(j)
    BY DEF LoadExact, SegmentLoaded
  <2> DEFINE R == [pa : Nat, off : Nat, filesz : Nat, memsz : Nat]
  <2>1. elf \in Seq(R)
    BY SegmentFacts DEF BootGood, BootTypes
  <2> HIDE DEF R
  <2>2. j \in 1..Len(elf)
    BY <2>1
  <2>3. main.ph = Len(elf) /\ \A i \in 1..main.ph : SegmentLoaded(i)
    BY DEF BootGood, LoadInv
  <2> QED BY <2>2, <2>3
<1>3. InOrder
  BY DEF InOrder, BootGood, ReadyInv
<1>4. OwnStacks
  <2>1. DOMAIN ap = AllIds /\ \A c \in AllIds : ap[c].stack \in 0..LOW
    <3>1. ap \in [AllIds -> [at : Places, stack : 0..LOW, started : BOOLEAN]]
      BY BootFacts
    <3> QED BY <3>1
  <2>2. \A c \in AllIds : ap[c].stack # 0 => ap[c].stack \in 1..LOW
    BY <2>1, BootSizes
  <2>3. \A c \in AllIds : ap[c].stack # 0 =>
             /\ ap[c].stack \notin kmem.free
             /\ \A d \in AllIds \ {c} : ap[d].stack # ap[c].stack
    BY DEF BootGood, StartInv
  <2> QED BY <2>1, <2>2, <2>3 DEF OwnStacks
<1>5. UnlockedAlone
  <2> SUFFICES ASSUME kmem.user PROVE kmem.use_lock /\ ~kmem.boot
    BY DEF UnlockedAlone
  <2>1. initproc = "RUNNING"
    BY DEF BootGood, PagesInv
  <2>2. main.step >= 18 /\ main.step \in 0..19
    BY <2>1, BootFacts DEF BootGood, PagesInv
  <2>3. main.step >= 17
    BY <2>2
  <2> QED BY <2>3 DEF BootGood, PagesInv
<1> QED BY <1>1, <1>2, <1>3, <1>4, <1>5 DEF BootInv

(* BootInv, for any kernel whose segments are in memory as kernel.ld puts  *)
(* them, any table of processors, found or not, and any order of the steps *)
(* of main and of the processors that start (bootmain, main, startothers). *)
THEOREM BootSafe == BootSpec => []BootInv
<1>1. BootInit => BootGood
  BY BootStarts
<1>2. BootGood /\ [BootNext]_bvars => BootGood'
  BY BootStep
<1>3. BootGood => BootInv
  BY BootMeans
<1> QED BY <1>1, <1>2, <1>3, PTL DEF BootSpec

-----------------------------------------------------------------------------
Times == {t \in [Fields -> 0..99] : \A j \in Fields : t[j] \in Radix[j][1]..Radix[j][2]}

(* The bounds of the fields. *)
LEMMA RadixIs ==
  /\ Radix[1] = <<0, 59>> /\ Radix[2] = <<0, 59>> /\ Radix[3] = <<0, 23>>
  /\ Radix[4] = <<1, 31>> /\ Radix[5] = <<1, 12>> /\ Radix[6] = <<0, 99>>
  /\ \A j \in Fields : Radix[j][1] \in 0..1 /\ Radix[j][2] \in 1..99
BY DEF Radix, Fields

(* Seconds. *)
LEMMA SecondIn == ASSUME NEW t \in Times PROVE t[1] \in 0..59 /\ t[1] \in 0..99
<1>1. 1 \in Fields /\ Radix[1][1] = 0 /\ Radix[1][2] = 59
  BY RadixIs DEF Fields
<1>2. t[1] \in Radix[1][1]..Radix[1][2]
  BY <1>1 DEF Times
<1> QED BY <1>1, <1>2

(* A second later: the seconds go round, and the rest changes only then. *)
LEMMA LaterIs ==
  ASSUME NEW t \in Times
  PROVE  /\ Later(t) \in Times
         /\ Later(t)[1] = IF t[1] = 59 THEN 0 ELSE t[1] + 1
         /\ t[1] # 59 => \A j \in 2..6 : Later(t)[j] = t[j]
<1>1. \A j \in Fields : Radix[j][1] \in 0..1 /\ Radix[j][2] \in 1..99 /\ t[j] \in Radix[j][1]..Radix[j][2]
  BY RadixIs DEF Times
<1> DEFINE W(j) == \A i \in 1..j - 1 : t[i] = Radix[i][2]
           V(j) == IF ~W(j) THEN t[j] ELSE IF t[j] = Radix[j][2] THEN Radix[j][1] ELSE t[j] + 1
<1>2. Later(t) = [j \in Fields |-> V(j)]
  BY DEF Later
<1>3. \A j \in Fields : V(j) \in Radix[j][1]..Radix[j][2] /\ V(j) \in 0..99
  <2> SUFFICES ASSUME NEW j \in Fields PROVE V(j) \in Radix[j][1]..Radix[j][2] /\ V(j) \in 0..99
    OBVIOUS
  <2>1. t[j] \in Radix[j][1]..Radix[j][2] /\ Radix[j][1] \in 0..1 /\ Radix[j][2] \in 1..99
    BY <1>1
  <2> HIDE DEF W
  <2> QED BY <2>1
<1>4. V(1) = IF t[1] = 59 THEN 0 ELSE t[1] + 1
  <2>1. W(1)
    OBVIOUS
  <2>2. Radix[1][1] = 0 /\ Radix[1][2] = 59
    BY RadixIs
  <2> HIDE DEF W
  <2> QED BY <2>1, <2>2
<1>5. t[1] # 59 => \A j \in 2..6 : V(j) = t[j]
  <2>1. Radix[1][2] = 59
    BY RadixIs
  <2>2. ASSUME t[1] # 59, NEW j \in 2..6 PROVE ~W(j)
    BY <2>1, <2>2
  <2> HIDE DEF W
  <2> QED BY <2>2
<1> HIDE DEF V
<1>6. 1 \in Fields /\ \A j \in 2..6 : j \in Fields
  BY DEF Fields
<1> QED BY <1>2, <1>3, <1>4, <1>5, <1>6 DEF Times

(* Conversion from BCD gives the number back. *)
LEMMA ConvIs ==
  ASSUME NEW n \in 0..99, NEW b \in BOOLEAN, rtc.bcd = b
  PROVE  CONV(Shows(b, n)) = n
<1>1. ((n \div 10) * 16 + (n % 10)) \div 16 = n \div 10 /\ ((n \div 10) * 16 + (n % 10)) % 16 = n % 10
  OBVIOUS
<1>2. (n \div 10) * 10 + (n % 10) = n
  OBVIOUS
<1> QED BY <1>1, <1>2 DEF CONV, Shows, Bcd
-----------------------------------------------------------------------------
(* H[i] is what the clock shows after i seconds. *)
Hist(H) ==
  /\ H \in [Nat -> Times]
  /\ \A i \in 0..ticks : H[i][1] = (H[0][1] + i) % 60
  /\ \A i, m \in 0..ticks : \A j \in 2..6 :
       i <= m /\ (\A l \in i..m - 1 : H[l][1] # 59) => H[m][j] = H[i][j]

(* The registers: the time, or fields of the last two. *)
ClockInv(H) ==
  /\ ticks \in 0..MaxTicks /\ rtc.bcd \in BOOLEAN /\ rtc.uip \in BOOLEAN
  /\ rtc = [t |-> rtc.t, uip |-> rtc.uip, bcd |-> rtc.bcd] /\ rtc.t \in [Fields -> 0..99]
  /\ next = H[ticks]
  /\ \A i \in 0..ticks - 1 : H[i] \in shown
  /\ rtc.t = next => next \in shown
  /\ ~rtc.uip => rtc.t = next
  /\ rtc.uip => ticks > 0 /\ \A j \in Fields : rtc.t[j] = H[ticks - 1][j] \/ rtc.t[j] = next[j]

(* v is field j as it was at a moment from lo to hi. *)
Read(b, H, v, j, lo, hi) == \E i \in Nat : lo <= i /\ i <= hi /\ v = Shows(b, H[i][j])

(* A reading t, up to moment n, began at moment a. *)
First(b, H, t, a, n) ==
  /\ a \in Nat /\ a <= n
  /\ t[1] = Shows(b, H[a][1])
  /\ \A j \in 2..Len(t) : Read(b, H, t[j], j, a - 1, n)

CmInv(H) ==
  /\ cm = [pc |-> cm.pc, t1 |-> cm.t1, t2 |-> cm.t2] /\ cm.pc \in {"t1", "uip", "t2", "compare", "done"}
  /\ cm.pc = "done" => cm.t1 \in shown
  /\ cm.pc # "done" => cm.t1 \in Seq(Nat) /\ cm.t2 \in Seq(Nat)
  /\ cm.pc = "t1" => Len(cm.t1) <= 5
  /\ cm.pc \in {"t1", "uip"} => cm.t2 = <<>> /\ (cm.t1 # <<>> => \E a \in Nat : First(rtc.bcd, H, cm.t1, a, ticks))
  /\ cm.pc \in {"uip", "t2", "compare"} => Len(cm.t1) = 6
  /\ cm.pc = "t2" => Len(cm.t2) <= 5
  /\ cm.pc = "compare" => Len(cm.t2) = 6
  /\ cm.pc \in {"t2", "compare"} =>
       \E a, n \in Nat : /\ First(rtc.bcd, H, cm.t1, a, n) /\ n <= ticks /\ H[n] \in shown
                         /\ ticks = n => ~rtc.uip
                         /\ \A j \in 1..Len(cm.t2) : Read(rtc.bcd, H, cm.t2[j], j, n, ticks)

RtcInv == \E H : Hist(H) /\ ClockInv(H) /\ CmInv(H)

(* The clock starts. *)
LEMMA InitRtc == RtcInit => RtcInv
<1> SUFFICES ASSUME RtcInit PROVE RtcInv
  OBVIOUS
<1>1. PICK t \in StartTimes, b \in BOOLEAN :
        rtc = [t |-> t, uip |-> FALSE, bcd |-> b] /\ next = t /\ shown = {t}
  BY DEF RtcInit
<1>2. ticks = 0 /\ cm = [pc |-> "t1", t1 |-> <<>>, t2 |-> <<>>]
  BY DEF RtcInit
<1>3. t \in Times /\ MaxTicks \in 0..59
  BY RtcAssumption DEF Times
<1> DEFINE H == [i \in Nat |-> t]
<1>4. Hist(H)
  <2>1. t[1] \in 0..59
    BY <1>3, SecondIn
  <2>2. H \in [Nat -> Times] /\ H[0][1] = t[1]
    BY <1>3
  <2>3. \A i \in 0..ticks : H[i][1] = (H[0][1] + i) % 60
    <3>1. \A x \in 0..59 : (x + 0) % 60 = x
      OBVIOUS
    <3>2. (H[0][1] + 0) % 60 = H[0][1]
      BY <2>1, <2>2, <3>1
    <3>3. \A i \in 0..ticks : i = 0
      BY <1>2
    <3> HIDE DEF H
    <3> QED BY <3>2, <3>3
  <2>4. \A i, m \in 0..ticks : \A j \in 2..6 : H[m][j] = H[i][j]
    BY <1>2
  <2> HIDE DEF H
  <2> QED BY <2>2, <2>3, <2>4 DEF Hist
<1>5. ClockInv(H)
  <2>1. t \in [Fields -> 0..99]
    BY <1>3 DEF Times
  <2>2. ticks \in 0..MaxTicks /\ H[ticks] = t /\ 0..ticks - 1 = {}
    BY <1>2, <1>3
  <2> HIDE DEF H
  <2> QED BY <1>1, <2>1, <2>2 DEF ClockInv
<1>6. CmInv(H)
  BY <1>2 DEF CmInv
<1> QED BY <1>4, <1>5, <1>6 DEF RtcInv

(* What cmos_read finds: the field as it is or as it was a second ago. *)
LEMMA ReadIs ==
  ASSUME NEW H, Hist(H), ClockInv(H), NEW j \in Fields
  PROVE  /\ cmos_read(j) \in Nat
         /\ \E i \in Nat : /\ ticks - 1 <= i /\ i <= ticks /\ cmos_read(j) = Shows(rtc.bcd, H[i][j])
                           /\ ~rtc.uip => i = ticks
<1>1. rtc.t[j] \in 0..99 /\ ticks \in Nat /\ cmos_read(j) = Shows(rtc.bcd, rtc.t[j])
  BY RtcAssumption DEF ClockInv, cmos_read
<1>2. cmos_read(j) \in Nat
  BY <1>1 DEF Shows, Bcd
<1>3. CASE rtc.t[j] = next[j]
  BY <1>1, <1>2, <1>3 DEF ClockInv
<1>4. CASE rtc.t[j] # next[j]
  <2>1. rtc.uip /\ ticks > 0 /\ rtc.t[j] = H[ticks - 1][j]
    BY <1>4 DEF ClockInv
  <2>2. ticks - 1 \in Nat
    BY <1>1, <2>1
  <2> QED BY <1>1, <1>2, <2>1, <2>2
<1> QED BY <1>3, <1>4

(* The seconds that have been read tell the moment. *)
LEMMA SecondTells ==
  ASSUME NEW H, Hist(H), ClockInv(H), NEW a \in 0..ticks, NEW n \in 0..ticks,
         Shows(rtc.bcd, H[a][1]) = Shows(rtc.bcd, H[n][1])
  PROVE  a = n
<1>1. ticks \in 0..59 /\ rtc.bcd \in BOOLEAN
  BY RtcAssumption DEF ClockInv
<1>2. \A i \in 0..ticks : H[i][1] \in 0..59 /\ H[i][1] = (H[0][1] + i) % 60
  <2>1. \A i \in Nat : H[i] \in Times
    BY DEF Hist
  <2>2. \A i \in 0..ticks : i \in Nat /\ H[i][1] = (H[0][1] + i) % 60
    BY <1>1 DEF Hist
  <2> QED BY <2>1, <2>2, SecondIn
<1>3. H[a][1] = H[n][1]
  <2>1. H[a][1] \in 0..99 /\ H[n][1] \in 0..99
    BY <1>2
  <2>2. CONV(Shows(rtc.bcd, H[a][1])) = H[a][1] /\ CONV(Shows(rtc.bcd, H[n][1])) = H[n][1]
    BY <1>1, <2>1, ConvIs
  <2> QED BY <2>2
<1>4. \A s \in 0..59, i \in 0..59, m \in 0..59 : (s + i) % 60 = (s + m) % 60 => i = m
  OBVIOUS
<1>5. 0 \in 0..ticks /\ a \in 0..59 /\ n \in 0..59
  BY <1>1
<1>6. H[0][1] \in 0..59 /\ (H[0][1] + a) % 60 = (H[0][1] + n) % 60
  BY <1>2, <1>3, <1>5
<1> QED BY <1>4, <1>5, <1>6

(* What cmostime knows stays true as the clock goes on. *)
LEMMA CmKept ==
  ASSUME NEW H0, NEW H, CmInv(H0), cm' = cm, rtc'.bcd = rtc.bcd, ticks \in Nat, ticks' \in Nat,
         ticks <= ticks', \A i \in 0..ticks : H[i] = H0[i], shown \subseteq shown',
         ticks' = ticks => (rtc'.uip => rtc.uip)
  PROVE  CmInv(H)'
<1> DEFINE b == rtc.bcd
<1>1. \A v, j : \A lo \in Int : \A hi, top \in Nat :
        hi <= ticks /\ hi <= top /\ Read(b, H0, v, j, lo, hi) => Read(b, H, v, j, lo, top)
  <2> SUFFICES ASSUME NEW v, NEW j, NEW lo \in Int, NEW hi \in Nat, NEW top \in Nat, hi <= ticks, hi <= top,
                      Read(b, H0, v, j, lo, hi)
               PROVE  Read(b, H, v, j, lo, top)
    OBVIOUS
  <2>1. PICK i \in Nat : lo <= i /\ i <= hi /\ v = Shows(b, H0[i][j])
    BY DEF Read
  <2>2. i \in 0..ticks /\ i <= top
    BY <2>1
  <2> QED BY <2>1, <2>2 DEF Read
<1>2. ASSUME NEW t, NEW a \in Nat, NEW hi \in Nat, NEW top \in Nat, hi <= ticks, hi <= top, First(b, H0, t, a, hi)
      PROVE  First(b, H, t, a, top)
  <2>1. a \in 0..ticks /\ a <= top /\ a - 1 \in Int
    BY <1>2 DEF First
  <2>2. t[1] = Shows(b, H[a][1])
    BY <1>2, <2>1 DEF First
  <2>3. \A j \in 2..Len(t) : Read(b, H, t[j], j, a - 1, top)
    BY <1>1, <1>2, <2>1 DEF First
  <2> QED BY <2>1, <2>2, <2>3 DEF First
<1>3. cm.pc \in {"t1", "uip"} /\ cm.t1 # <<>> => \E a \in Nat : First(b, H, cm.t1, a, ticks')
  <2> SUFFICES ASSUME cm.pc \in {"t1", "uip"}, cm.t1 # <<>> PROVE \E a \in Nat : First(b, H, cm.t1, a, ticks')
    OBVIOUS
  <2>1. PICK a \in Nat : First(b, H0, cm.t1, a, ticks)
    BY DEF CmInv
  <2>2. First(b, H, cm.t1, a, ticks')
    BY <1>2, <2>1
  <2> QED BY <2>2
<1>4. ASSUME cm.pc \in {"t2", "compare"}
      PROVE  \E a, n \in Nat : /\ First(b, H, cm.t1, a, n) /\ n <= ticks' /\ H[n] \in shown'
                               /\ ticks' = n => ~rtc'.uip
                               /\ \A j \in 1..Len(cm.t2) : Read(b, H, cm.t2[j], j, n, ticks')
  <2>1. PICK a \in Nat, n \in Nat :
                         /\ First(b, H0, cm.t1, a, n) /\ n <= ticks /\ H0[n] \in shown
                         /\ ticks = n => ~rtc.uip
                         /\ \A j \in 1..Len(cm.t2) : Read(b, H0, cm.t2[j], j, n, ticks)
    BY <1>4 DEF CmInv
  <2>2. n \in 0..ticks /\ n <= ticks' /\ n \in Int /\ (ticks' = n => ticks' = ticks)
    BY <2>1
  <2>3. First(b, H, cm.t1, a, n)
    BY <1>2, <2>1
  <2>4. \A j \in 1..Len(cm.t2) : Read(b, H, cm.t2[j], j, n, ticks')
    BY <1>1, <2>1, <2>2
  <2>5. H[n] \in shown' /\ (ticks' = n => ~rtc'.uip)
    BY <2>1, <2>2
  <2> QED BY <2>2, <2>3, <2>4, <2>5
<1>5. rtc'.bcd = b
  OBVIOUS
<1> HIDE DEF b
<1> QED BY <1>3, <1>4, <1>5 DEF CmInv

(* An update begins. *)
LEMMA BeginsKeeps ==
  ASSUME NEW H0, Hist(H0), ClockInv(H0), CmInv(H0), UpdateBegins
  PROVE  RtcInv'
<1>H. PICK H : H = [H0 EXCEPT ![ticks + 1] = Later(next)]
  OBVIOUS
<1>0. ticks \in 0..59 /\ MaxTicks \in 0..59 /\ ticks < MaxTicks /\ ticks' = ticks + 1 /\ cm' = cm /\ shown' = shown
      /\ next' = Later(next) /\ rtc' = [rtc EXCEPT !.uip = TRUE]
  BY RtcAssumption DEF ClockInv, UpdateBegins
<1>1. H0 \in [Nat -> Times] /\ next = H0[ticks] /\ next \in Times /\ Later(next) \in Times
  <2>1. H0 \in [Nat -> Times] /\ next = H0[ticks]
    BY DEF Hist, ClockInv
  <2> QED BY <2>1, <1>0, LaterIs
<1>2. H \in [Nat -> Times] /\ (\A i \in 0..ticks : H[i] = H0[i]) /\ H[ticks + 1] = Later(next)
  BY <1>0, <1>1, <1>H
<1>3. Hist(H)'
  <2>0. next[1] \in 0..59 /\ H0[0][1] \in 0..59
    BY <1>0, <1>1, SecondIn
  <2>1. H[ticks + 1][1] = (H[0][1] + (ticks + 1)) % 60
    <3>1. next[1] = (H0[0][1] + ticks) % 60
      BY <1>0, <1>1 DEF Hist
    <3>2. Later(next)[1] = IF next[1] = 59 THEN 0 ELSE next[1] + 1
      BY <1>1, LaterIs
    <3>3. \A s \in 0..59, i \in 0..59 :
            (s + (i + 1)) % 60 = IF (s + i) % 60 = 59 THEN 0 ELSE ((s + i) % 60) + 1
      OBVIOUS
    <3>4. H[0] = H0[0] /\ H[ticks + 1] = Later(next)
      BY <1>0, <1>2
    <3>5. (H0[0][1] + (ticks + 1)) % 60
            = IF (H0[0][1] + ticks) % 60 = 59 THEN 0 ELSE ((H0[0][1] + ticks) % 60) + 1
      BY <3>3, <2>0, <1>0
    <3> QED BY <3>1, <3>2, <3>4, <3>5
  <2>2. ASSUME NEW i \in 0..ticks' PROVE H[i][1] = (H[0][1] + i) % 60
    <3>1. CASE i = ticks + 1
      BY <2>1, <3>1
    <3>2. CASE i # ticks + 1
      <4>1. i \in 0..ticks /\ 0 \in 0..ticks
        BY <3>2, <1>0
      <4> QED BY <4>1, <1>2 DEF Hist
    <3> QED BY <3>1, <3>2
  <2>3. ASSUME NEW i \in 0..ticks', NEW m \in 0..ticks', NEW j \in 2..6,
               i <= m, \A l \in i..m - 1 : H[l][1] # 59
        PROVE  H[m][j] = H[i][j]
    <3>1. CASE m # ticks + 1
      <4>1. i \in 0..ticks /\ m \in 0..ticks /\ \A l \in i..m - 1 : l \in 0..ticks
        BY <3>1, <2>3, <1>0
      <4>2. H0[m][j] = H0[i][j]
        BY <4>1, <2>3, <1>2 DEF Hist
      <4> QED BY <4>1, <4>2, <1>2
    <3>2. CASE i = ticks + 1
      BY <3>2, <2>3, <1>0
    <3>3. CASE m = ticks + 1 /\ i # ticks + 1
      <4>1. i \in 0..ticks /\ ticks \in 0..ticks /\ i <= ticks /\ (\A l \in i..ticks - 1 : l \in 0..ticks /\ l \in i..m - 1)
            /\ ticks \in i..m - 1
        BY <3>3, <1>0
      <4>2. H0[ticks][j] = H0[i][j]
        BY <4>1, <2>3, <1>2, SMTT(40) DEF Hist
      <4>3. next[1] # 59
        BY <4>1, <2>3, <1>1, <1>2
      <4>4. Later(next)[j] = next[j]
        BY <4>3, <1>1, LaterIs
      <4> QED BY <4>1, <4>2, <4>4, <3>3, <1>1, <1>2
    <3> QED BY <3>1, <3>2, <3>3
  <2>4. \A i, m \in 0..ticks' : \A j \in 2..6 :
          i <= m /\ (\A l \in i..m - 1 : H[l][1] # 59) => H[m][j] = H[i][j]
    BY <2>3
  <2> QED BY <2>2, <2>4, <1>2 DEF Hist
<1>4. ClockInv(H)'
  <2>1. rtc.t = next /\ next \in shown /\ rtc.bcd \in BOOLEAN /\ rtc.t \in [Fields -> 0..99]
        /\ rtc = [t |-> rtc.t, uip |-> rtc.uip, bcd |-> rtc.bcd]
    BY DEF ClockInv, UpdateBegins
  <2>2. rtc'.t = rtc.t /\ rtc'.uip = TRUE /\ rtc'.bcd = rtc.bcd
        /\ rtc' = [t |-> rtc'.t, uip |-> rtc'.uip, bcd |-> rtc'.bcd]
    BY <1>0, <2>1
  <2>3. \A i \in 0..ticks' - 1 : H[i] \in shown'
    <3> SUFFICES ASSUME NEW i \in 0..ticks' - 1 PROVE H[i] \in shown
      BY <1>0
    <3>1. i \in 0..ticks /\ (i = ticks \/ i \in 0..ticks - 1)
      BY <1>0
    <3> QED BY <3>1, <2>1, <1>1, <1>2 DEF ClockInv
  <2>4. next'[1] # next[1]
    <3>1. next[1] \in 0..59 /\ next'[1] = IF next[1] = 59 THEN 0 ELSE next[1] + 1
      BY <1>0, <1>1, LaterIs, SecondIn
    <3> QED BY <3>1
  <2>5. ticks' - 1 = ticks /\ ticks \in 0..ticks /\ ticks' \in 0..MaxTicks /\ ticks' > 0
    BY <1>0
  <2>6. H[ticks' - 1] = next /\ next' = H[ticks']
    BY <2>5, <1>0, <1>1, <1>2
  <2>7. rtc'.t # next' /\ \A j \in Fields : rtc'.t[j] = H[ticks' - 1][j]
    BY <2>1, <2>2, <2>4, <2>6
  <2> QED BY <2>1, <2>2, <2>3, <2>5, <2>6, <2>7 DEF ClockInv
<1>5. CmInv(H)'
  <2>1. rtc'.bcd = rtc.bcd /\ ticks \in Nat /\ ticks' \in Nat /\ ticks <= ticks' /\ ticks' # ticks
    <3>1. rtc = [t |-> rtc.t, uip |-> rtc.uip, bcd |-> rtc.bcd]
      BY DEF ClockInv
    <3> QED BY <3>1, <1>0
  <2>2. \A i \in 0..ticks : H[i] = H0[i]
    BY <1>2
  <2> QED BY <1>0, <2>1, <2>2, CmKept
<1> QED BY <1>3, <1>4, <1>5 DEF RtcInv

(* A field is updated, or the update is over. *)
LEMMA UpdateKeeps ==
  ASSUME NEW H, Hist(H), ClockInv(H), CmInv(H), RtcUpdate
  PROVE  RtcInv'
<1>0. /\ ticks \in Nat /\ ticks' = ticks /\ next' = next /\ cm' = cm /\ rtc.uip
      /\ rtc = [t |-> rtc.t, uip |-> rtc.uip, bcd |-> rtc.bcd]
      /\ rtc.t \in [Fields -> 0..99] /\ next \in [Fields -> 0..99]
  <2>1. ticks \in Nat /\ ticks' = ticks /\ next' = next /\ cm' = cm /\ rtc.uip
    BY RtcAssumption DEF ClockInv, RtcUpdate, UpdateEnds, UpdateField
  <2>2. next \in Times
    BY <2>1 DEF Hist, ClockInv
  <2> QED BY <2>1, <2>2 DEF ClockInv, Times
<1>1. /\ rtc'.bcd = rtc.bcd /\ rtc' = [t |-> rtc'.t, uip |-> rtc'.uip, bcd |-> rtc'.bcd]
      /\ rtc'.uip \in BOOLEAN /\ rtc'.t \in [Fields -> 0..99] /\ shown \subseteq shown'
      /\ rtc'.t = next => next \in shown'
      /\ ~rtc'.uip => rtc'.t = next
      /\ \A j \in Fields : rtc'.t[j] = H[ticks - 1][j] \/ rtc'.t[j] = next[j]
  <2>0. (rtc.t = next => next \in shown) /\ \A j \in Fields : rtc.t[j] = H[ticks - 1][j] \/ rtc.t[j] = next[j]
    BY <1>0 DEF ClockInv
  <2>1. CASE UpdateEnds
    <3>1. rtc' = [rtc EXCEPT !.uip = FALSE] /\ rtc.t = next /\ shown' = shown
      BY <2>1 DEF UpdateEnds
    <3>2. rtc'.t = rtc.t /\ rtc'.uip = FALSE /\ rtc'.bcd = rtc.bcd
          /\ rtc' = [t |-> rtc'.t, uip |-> rtc'.uip, bcd |-> rtc'.bcd]
      BY <3>1, <1>0
    <3> QED BY <3>1, <3>2, <2>0, <1>0
  <2>2. ASSUME NEW i \in Fields, UpdateField(i) PROVE <1>1!:
    <3>1. rtc' = [rtc EXCEPT !.t[i] = next[i]] /\ shown' = (IF rtc'.t = next THEN shown \cup {next} ELSE shown)
      BY <2>2 DEF UpdateField
    <3>2. rtc'.t = [rtc.t EXCEPT ![i] = next[i]] /\ rtc'.uip = rtc.uip /\ rtc'.bcd = rtc.bcd
          /\ rtc' = [t |-> rtc'.t, uip |-> rtc'.uip, bcd |-> rtc'.bcd]
      BY <3>1, <1>0
    <3>3. \A j \in Fields : rtc'.t[j] = IF j = i THEN next[i] ELSE rtc.t[j]
      BY <3>2, <1>0
    <3>4. rtc'.t \in [Fields -> 0..99]
      BY <3>2, <1>0
    <3>5. \A j \in Fields : rtc'.t[j] = H[ticks - 1][j] \/ rtc'.t[j] = next[j]
      BY <3>3, <2>0
    <3>6. shown \subseteq shown' /\ (rtc'.t = next => next \in shown')
      BY <3>1
    <3> QED BY <3>2, <3>4, <3>5, <3>6, <1>0
  <2> QED BY <2>1, <2>2 DEF RtcUpdate
<1>2. Hist(H)'
  BY <1>0 DEF Hist
<1>3. ClockInv(H)'
  BY <1>0, <1>1 DEF ClockInv
<1>4. CmInv(H)'
  BY <1>0, <1>1, CmKept
<1> QED BY <1>2, <1>3, <1>4 DEF RtcInv

(* One more field at the end of a reading. *)
LEMMA AppendIs ==
  ASSUME NEW s \in Seq(Nat), NEW v \in Nat
  PROVE  /\ Append(s, v) \in Seq(Nat) /\ Len(Append(s, v)) = Len(s) + 1 /\ Append(s, v) # <<>>
         /\ \A j \in 1..Len(s) : Append(s, v)[j] = s[j]
         /\ Append(s, v)[Len(s) + 1] = v
OBVIOUS

(* A field is read for the first time. *)
LEMMA Fill1Keeps ==
  ASSUME NEW H, Hist(H), ClockInv(H), CmInv(H), Fill1
  PROVE  RtcInv'
<1>0. /\ ticks \in Nat /\ ticks' = ticks /\ next' = next /\ rtc' = rtc /\ shown' = shown /\ cm.pc = "t1"
      /\ cm.t1 \in Seq(Nat) /\ cm.t2 = <<>> /\ Len(cm.t1) <= 5 /\ Len(cm.t1) \in Nat
      /\ cm = [pc |-> cm.pc, t1 |-> cm.t1, t2 |-> cm.t2]
  BY RtcAssumption DEF ClockInv, CmInv, Fill1
<1>1. PICK j : j = Len(cm.t1) + 1
  OBVIOUS
<1>2. PICK v : v = cmos_read(j)
  OBVIOUS
<1>3. j \in Fields /\ j \in 1..6
  BY <1>0, <1>1 DEF Fields
<1>4. v \in Nat /\ \E i \in Nat : ticks - 1 <= i /\ i <= ticks /\ v = Shows(rtc.bcd, H[i][j])
  BY <1>2, <1>3, ReadIs
<1>5. /\ cm' = [pc |-> IF j = 6 THEN "uip" ELSE "t1", t1 |-> Append(cm.t1, v), t2 |-> cm.t2]
  <2>1. CASE Len(cm.t1) = 5
    <3>1. j = 6 /\ cm' = [cm EXCEPT !.t1 = Append(@, cmos_read(6)), !.pc = "uip"]
      BY <2>1, <1>1 DEF Fill1
    <3>2. cm' = [cm EXCEPT !.t1 = Append(cm.t1, v), !.pc = "uip"]
      BY <3>1, <1>2
    <3> QED BY <3>1, <3>2, <1>0
  <2>2. CASE Len(cm.t1) # 5
    <3>1. cm' = [cm EXCEPT !.t1 = Append(@, cmos_read(Len(@) + 1))]
      BY <2>2 DEF Fill1
    <3>2. cm' = [cm EXCEPT !.t1 = Append(cm.t1, v)]
      BY <3>1, <1>1, <1>2
    <3>3. j # 6
      <4>1. \A n \in Nat : n # 5 => n + 1 # 6
        OBVIOUS
      <4>2. Len(cm.t1) \in Nat
        BY <1>0
      <4> QED BY <4>1, <4>2, <2>2, <1>1
    <3> QED BY <3>2, <3>3, <1>0
  <2> QED BY <2>1, <2>2
<1>6. PICK s : s = Append(cm.t1, v)
  OBVIOUS
<1>7. /\ s \in Seq(Nat) /\ Len(s) = j /\ s # <<>> /\ s[j] = v
      /\ \A i \in 1..j - 1 : s[i] = cm.t1[i]
  BY <1>0, <1>1, <1>4, <1>6, AppendIs
<1>8. \E a \in Nat : First(rtc.bcd, H, s, a, ticks)
  <2>1. CASE j = 1
    <3>1. PICK a \in Nat : ticks - 1 <= a /\ a <= ticks /\ v = Shows(rtc.bcd, H[a][j])
      BY <1>4
    <3>2. 2..Len(s) = {}
      BY <2>1, <1>7
    <3>3. First(rtc.bcd, H, s, a, ticks)
      BY <2>1, <3>1, <3>2, <1>7 DEF First
    <3> QED BY <3>3
  <2>2. CASE j # 1
    <3>1. PICK a \in Nat : First(rtc.bcd, H, cm.t1, a, ticks)
      BY <2>2, <1>0, <1>1 DEF CmInv
    <3>2. s[1] = cm.t1[1] /\ a <= ticks
      BY <2>2, <3>1, <1>3, <1>7 DEF First
    <3>3. ASSUME NEW i \in 2..Len(s) PROVE Read(rtc.bcd, H, s[i], i, a - 1, ticks)
      <4>1. CASE i = j
        <5>1. PICK n \in Nat : ticks - 1 <= n /\ n <= ticks /\ v = Shows(rtc.bcd, H[n][j])
          BY <1>4
        <5>2. a - 1 <= n
          BY <3>2, <5>1, <1>0
        <5> QED BY <4>1, <5>1, <5>2, <1>7 DEF Read
      <4>2. CASE i # j
        <5>1. i \in 2..Len(cm.t1) /\ i \in 1..j - 1
          BY <4>2, <1>0, <1>1, <1>3, <1>7, SMTT(40)
        <5> QED BY <5>1, <3>1, <1>7 DEF First
      <4> QED BY <4>1, <4>2
    <3>4. First(rtc.bcd, H, s, a, ticks)
      BY <3>1, <3>2, <3>3 DEF First
    <3> QED BY <3>4
  <2> QED BY <2>1, <2>2
<1>9. CmInv(H)'
  <2>1. /\ cm'.t1 = s /\ cm'.t2 = <<>> /\ cm'.pc \in {"t1", "uip"} /\ (cm'.pc = "t1" => j # 6)
        /\ (cm'.pc = "uip" => j = 6) /\ cm' = [pc |-> cm'.pc, t1 |-> cm'.t1, t2 |-> cm'.t2]
    BY <1>0, <1>5, <1>6
  <2>2. (cm'.pc = "t1" => Len(s) <= 5) /\ (cm'.pc = "uip" => Len(s) = 6) /\ <<>> \in Seq(Nat)
    BY <2>1, <1>3, <1>7
  <2> QED BY <2>1, <2>2, <1>0, <1>7, <1>8 DEF CmInv
<1>10. Hist(H)' /\ ClockInv(H)'
  BY <1>0 DEF Hist, ClockInv
<1> QED BY <1>9, <1>10 DEF RtcInv

(* No update is in progress, or it begins anew. *)
LEMMA TestKeeps ==
  ASSUME NEW H, Hist(H), ClockInv(H), CmInv(H), TestUip
  PROVE  RtcInv'
<1>0. /\ ticks \in Nat /\ ticks' = ticks /\ next' = next /\ rtc' = rtc /\ shown' = shown /\ cm.pc = "uip"
      /\ cm.t1 \in Seq(Nat) /\ cm.t2 = <<>> /\ Len(cm.t1) = 6
      /\ cm = [pc |-> cm.pc, t1 |-> cm.t1, t2 |-> cm.t2]
  BY RtcAssumption DEF ClockInv, CmInv, TestUip
<1>1. CmInv(H)'
  <2>1. CASE rtc.uip
    <3>1. cm' = [pc |-> "t1", t1 |-> <<>>, t2 |-> <<>>]
      BY <2>1, <1>0 DEF TestUip, GoesOn
    <3> QED BY <3>1, <1>0 DEF CmInv
  <2>2. CASE ~rtc.uip
    <3>1. cm' = [pc |-> "t2", t1 |-> cm.t1, t2 |-> <<>>]
      BY <2>2, <1>0 DEF TestUip, GoesOn
    <3>2. H[ticks] \in shown
      BY <2>2 DEF ClockInv
    <3>3. PICK a \in Nat : First(rtc.bcd, H, cm.t1, a, ticks)
      <4>1. cm.t1 # <<>>
        <5>1. Len(<<>>) # 6
          OBVIOUS
        <5> QED BY <5>1, <1>0
      <4> QED BY <4>1, <1>0 DEF CmInv
    <3>4. <<>> \in Seq(Nat) /\ Len(<<>>) <= 5 /\ 1..Len(<<>>) = {} /\ ticks <= ticks
      BY <1>0
    <3> QED BY <3>1, <3>2, <3>3, <3>4, <2>2, <1>0 DEF CmInv
  <2> QED BY <2>1, <2>2
<1>2. Hist(H)' /\ ClockInv(H)'
  BY <1>0 DEF Hist, ClockInv
<1> QED BY <1>1, <1>2 DEF RtcInv

(* A field is read for the second time. *)
LEMMA Fill2Keeps ==
  ASSUME NEW H, Hist(H), ClockInv(H), CmInv(H), Fill2
  PROVE  RtcInv'
<1>0. /\ ticks \in Nat /\ ticks' = ticks /\ next' = next /\ rtc' = rtc /\ shown' = shown /\ cm.pc = "t2"
      /\ cm.t1 \in Seq(Nat) /\ Len(cm.t1) = 6 /\ cm.t2 \in Seq(Nat) /\ Len(cm.t2) <= 5 /\ Len(cm.t2) \in Nat
      /\ cm = [pc |-> cm.pc, t1 |-> cm.t1, t2 |-> cm.t2]
  BY RtcAssumption DEF ClockInv, CmInv, Fill2
<1>1. PICK j : j = Len(cm.t2) + 1
  OBVIOUS
<1>2. PICK v : v = cmos_read(j)
  OBVIOUS
<1>3. j \in Fields /\ j \in 1..6
  BY <1>0, <1>1, SMTT(40) DEF Fields
<1>4. v \in Nat /\ \E i \in Nat : /\ ticks - 1 <= i /\ i <= ticks /\ v = Shows(rtc.bcd, H[i][j])
                                  /\ ~rtc.uip => i = ticks
  BY <1>2, <1>3, ReadIs
<1>5. /\ cm' = [pc |-> IF j = 6 THEN "compare" ELSE "t2", t1 |-> cm.t1, t2 |-> Append(cm.t2, v)]
  <2>1. CASE Len(cm.t2) = 5
    <3>1. j = 6 /\ cm' = [cm EXCEPT !.t2 = Append(@, cmos_read(6)), !.pc = "compare"]
      BY <2>1, <1>1 DEF Fill2
    <3>2. cm' = [cm EXCEPT !.t2 = Append(cm.t2, v), !.pc = "compare"]
      BY <3>1, <1>2
    <3> QED BY <3>1, <3>2, <1>0
  <2>2. CASE Len(cm.t2) # 5
    <3>1. cm' = [cm EXCEPT !.t2 = Append(@, cmos_read(Len(@) + 1))]
      BY <2>2 DEF Fill2
    <3>2. cm' = [cm EXCEPT !.t2 = Append(cm.t2, v)]
      BY <3>1, <1>1, <1>2
    <3>3. j # 6
      <4>1. \A n \in Nat : n # 5 => n + 1 # 6
        OBVIOUS
      <4>2. Len(cm.t2) \in Nat
        BY <1>0
      <4> QED BY <4>1, <4>2, <2>2, <1>1
    <3> QED BY <3>2, <3>3, <1>0
  <2> QED BY <2>1, <2>2
<1>6. PICK s : s = Append(cm.t2, v)
  OBVIOUS
<1>7. /\ s \in Seq(Nat) /\ Len(s) = j /\ s # <<>> /\ s[j] = v
      /\ \A i \in 1..j - 1 : s[i] = cm.t2[i]
  BY <1>0, <1>1, <1>4, <1>6, AppendIs
<1>8. PICK a \in Nat, n \in Nat :
          /\ First(rtc.bcd, H, cm.t1, a, n) /\ n <= ticks /\ H[n] \in shown
          /\ ticks = n => ~rtc.uip
          /\ \A i \in 1..Len(cm.t2) : Read(rtc.bcd, H, cm.t2[i], i, n, ticks)
  BY <1>0 DEF CmInv
<1>9. ASSUME NEW i \in 1..Len(s) PROVE Read(rtc.bcd, H, s[i], i, n, ticks)
  <2>1. CASE i = j
    <3>1. PICK m \in Nat : /\ ticks - 1 <= m /\ m <= ticks /\ v = Shows(rtc.bcd, H[m][j])
                           /\ ~rtc.uip => m = ticks
      BY <1>4
    <3>2. n <= m
      BY <3>1, <1>0, <1>8
    <3> QED BY <2>1, <3>1, <3>2, <1>7 DEF Read
  <2>2. CASE i # j
    <3>1. i \in 1..Len(cm.t2) /\ i \in 1..j - 1
      BY <2>2, <1>0, <1>1, <1>3, <1>7
    <3> QED BY <3>1, <1>7, <1>8
  <2> QED BY <2>1, <2>2
<1>10. CmInv(H)'
  <2>1. /\ cm'.t1 = cm.t1 /\ cm'.t2 = s /\ cm'.pc \in {"t2", "compare"} /\ (cm'.pc = "t2" => j # 6)
        /\ (cm'.pc = "compare" => j = 6) /\ cm' = [pc |-> cm'.pc, t1 |-> cm'.t1, t2 |-> cm'.t2]
    BY <1>0, <1>5, <1>6
  <2>2. (cm'.pc = "t2" => Len(s) <= 5) /\ (cm'.pc = "compare" => Len(s) = 6)
    BY <2>1, <1>3, <1>7
  <2> QED BY <2>1, <2>2, <1>0, <1>7, <1>8, <1>9 DEF CmInv
<1>11. Hist(H)' /\ ClockInv(H)'
  BY <1>0 DEF Hist, ClockInv
<1> QED BY <1>10, <1>11 DEF RtcInv

(* What has been read twice was shown at the moment of the test. *)
LEMMA CompareKeeps ==
  ASSUME NEW H, Hist(H), ClockInv(H), CmInv(H), Compare
  PROVE  RtcInv'
<1>0. /\ ticks \in 0..59 /\ ticks' = ticks /\ next' = next /\ rtc' = rtc /\ shown' = shown /\ cm.pc = "compare"
      /\ cm.t1 \in Seq(Nat) /\ Len(cm.t1) = 6 /\ cm.t2 \in Seq(Nat) /\ Len(cm.t2) = 6
      /\ cm = [pc |-> cm.pc, t1 |-> cm.t1, t2 |-> cm.t2] /\ rtc.bcd \in BOOLEAN /\ H \in [Nat -> Times]
  <2>1. ticks \in 0..59
    BY RtcAssumption DEF ClockInv
  <2>2. ticks' = ticks /\ next' = next /\ rtc' = rtc /\ shown' = shown /\ cm.pc = "compare"
    BY DEF Compare
  <2>3. rtc.bcd \in BOOLEAN /\ H \in [Nat -> Times]
    BY DEF ClockInv, Hist
  <2> QED BY <2>1, <2>2, <2>3 DEF CmInv
<1>t. ticks \in 0..59
  BY <1>0
<1>1. Hist(H)' /\ ClockInv(H)'
  BY <1>0 DEF Hist, ClockInv
<1>2. CASE cm.t1 # cm.t2
  <2>1. cm' = [pc |-> "t1", t1 |-> <<>>, t2 |-> <<>>]
    BY <1>2 DEF Compare
  <2>2. CmInv(H)'
    BY <2>1 DEF CmInv
  <2> QED BY <1>1, <2>2 DEF RtcInv
<1>3. CASE cm.t1 = cm.t2
  <2>1. PICK a \in Nat, n \in Nat :
          /\ First(rtc.bcd, H, cm.t1, a, n) /\ n <= ticks /\ H[n] \in shown
          /\ \A j \in 1..Len(cm.t2) : Read(rtc.bcd, H, cm.t2[j], j, n, ticks)
    BY <1>0 DEF CmInv
  <2>2. a = n
    <3>1. PICK m \in Nat : n <= m /\ m <= ticks /\ cm.t2[1] = Shows(rtc.bcd, H[m][1])
      BY <2>1, <1>0 DEF Read
    <3>a. a <= n /\ n <= ticks /\ cm.t1[1] = Shows(rtc.bcd, H[a][1])
      BY <2>1 DEF First
    <3>2. a \in 0..ticks /\ m \in 0..ticks /\ a <= n /\ cm.t1[1] = Shows(rtc.bcd, H[a][1])
      BY <3>1, <3>a, <1>t
    <3>3. a = m
      BY <3>1, <3>2, <1>3, SecondTells
    <3> QED BY <3>1, <3>2, <3>3
  <2>3. ASSUME NEW j \in Fields PROVE cm.t1[j] = Shows(rtc.bcd, H[n][j])
    <3>1. CASE j = 1
      BY <3>1, <2>1, <2>2 DEF First
    <3>2. CASE j # 1
      <4>0. j \in 2..6 /\ j \in 1..Len(cm.t2) /\ j \in 2..Len(cm.t1)
        BY <3>2, <1>0 DEF Fields
      <4>1. PICK i \in Nat : n - 1 <= i /\ i <= n /\ cm.t1[j] = Shows(rtc.bcd, H[i][j])
        BY <4>0, <2>1, <2>2 DEF First, Read
      <4>2. PICK m \in Nat : n <= m /\ m <= ticks /\ cm.t2[j] = Shows(rtc.bcd, H[m][j])
        BY <4>0, <2>1 DEF Read
      <4>3. CASE i = n
        BY <4>1, <4>3
      <4>4. CASE i # n /\ H[i][1] # 59
        <5>1. n = i + 1 /\ i \in 0..ticks /\ n \in 0..ticks /\ i..n - 1 = {i} /\ i <= n
          <6>1. n <= ticks
            BY <2>1
          <6> QED BY <6>1, <4>1, <4>4, <1>t
        <5>2. H[n][j] = H[i][j]
          BY <5>1, <4>0, <4>4 DEF Hist
        <5> QED BY <4>1, <5>2
      <4>5. CASE i # n /\ H[i][1] = 59
        <5>1. n = i + 1 /\ i \in 0..58 /\ i \in 0..ticks /\ n \in 0..ticks /\ m \in 0..ticks /\ 0 \in 0..ticks
          <6>1. n <= ticks
            BY <2>1
          <6> QED BY <6>1, <4>1, <4>2, <4>5, <1>t
        <5>2. H[0][1] \in 0..59 /\ (H[0][1] + i) % 60 = 59
          BY <5>1, <4>5, <1>0, SecondIn DEF Hist
        <5>3. ASSUME NEW l \in n..m - 1 PROVE H[l][1] # 59
          <6>1. l \in 0..ticks /\ l \in 0..59 /\ l > i
            BY <5>1, <1>t
          <6>2. H[l][1] = (H[0][1] + l) % 60
            BY <6>1 DEF Hist
          <6>3. \A s \in 0..59, x \in 0..58, y \in 0..59 : (s + x) % 60 = 59 /\ y > x => (s + y) % 60 # 59
            OBVIOUS
          <6> QED BY <6>1, <6>2, <6>3, <5>1, <5>2
        <5>4. H[m][j] = H[n][j]
          BY <5>1, <5>3, <4>0, <4>2 DEF Hist
        <5> QED BY <5>4, <4>2, <1>3
      <4> QED BY <4>3, <4>4, <4>5
    <3> QED BY <3>1, <3>2
  <2>4. [j \in Fields |-> CONV(cm.t1[j])] = H[n]
    <3>1. H[n] \in [Fields -> 0..99]
      BY <1>0 DEF Times
    <3>2. \A j \in Fields : CONV(cm.t1[j]) = H[n][j]
      BY <2>3, <3>1, <1>0, ConvIs
    <3> QED BY <3>1, <3>2
  <2>5. cm' = [cm EXCEPT !.pc = "done", !.t1 = [j \in Fields |-> CONV(@[j])]]
    BY <1>3 DEF Compare
  <2>6. cm'.pc = "done" /\ cm'.t1 = H[n] /\ cm' = [pc |-> cm'.pc, t1 |-> cm'.t1, t2 |-> cm'.t2]
    BY <2>4, <2>5, <1>0
  <2>7. CmInv(H)'
    BY <2>1, <2>6, <1>0 DEF CmInv
  <2> QED BY <1>1, <2>7 DEF RtcInv
<1> QED BY <1>2, <1>3

(* cmostime returns a time that the clock has shown, and never fields of   *)
(* two times, whenever the clock changes them (fill_rtcdate twice, and     *)
(* the test of CMOS_UIP in between).                                       *)
THEOREM TimeSafe == RtcSpec => []TimeTrue
<1>1. RtcInit => RtcInv
  BY InitRtc
<1>2. RtcInv /\ [RtcNext]_rvars => RtcInv'
  <2> SUFFICES ASSUME RtcInv, [RtcNext]_rvars PROVE RtcInv'
    OBVIOUS
  <2>1. PICK H : Hist(H) /\ ClockInv(H) /\ CmInv(H)
    BY DEF RtcInv
  <2>2. CASE UNCHANGED rvars
    <3>1. rtc' = rtc /\ next' = next /\ ticks' = ticks /\ cm' = cm /\ shown' = shown
      BY <2>2 DEF rvars
    <3>2. Hist(H)'
      BY <2>1, <3>1 DEF Hist
    <3>3. ClockInv(H)'
      BY <2>1, <3>1 DEF ClockInv
    <3>4. CmInv(H)'
      BY <2>1, <3>1 DEF CmInv
    <3> QED BY <3>2, <3>3, <3>4 DEF RtcInv
  <2> QED BY <2>1, <2>2, BeginsKeeps, UpdateKeeps, Fill1Keeps, TestKeeps, Fill2Keeps, CompareKeeps
          DEF RtcNext, CmStep
<1>3. RtcInv => TimeTrue
  BY DEF RtcInv, CmInv, TimeTrue
<1> QED BY <1>1, <1>2, <1>3, PTL DEF RtcSpec
-----------------------------------------------------------------------------
(* The assumption, in parts. *)
LEMMA VmSizes ==
  /\ PGSIZE \in Nat \ {0} /\ NPT \in Nat \ {0} /\ NUT \in Nat \ {0} /\ NPAGES \in Nat /\ NPAGES >= 6
  /\ NUT * NPT \in Nat \ {0} /\ NUT * NPT > 1 /\ NSPACE \in Nat \ {0}
<1>1. /\ PGSIZE \in Nat \ {0} /\ NPT \in Nat \ {0} /\ NUT \in Nat \ {0} /\ NPAGES \in Nat /\ NPAGES >= 6
      /\ NUT * NPT > 1 /\ NSPACE \in Nat \ {0}
  BY VmAssumption
<1>2. NUT * NPT \in Int
  BY <1>1
<1> QED BY <1>1, <1>2

(* Products keep the order. *)
LEMMA TimesMore ==
  ASSUME NEW P \in Nat \ {0}, NEW a \in Int, NEW b \in Int, a < b
  PROVE  P * a + P <= P * b
<1>1. b - a - 1 \in Nat
  OBVIOUS
<1>2. P * (b - a - 1) \in Nat
  BY <1>1
<1>3. P * (b - a - 1) = P * b - P * a - P
  OBVIOUS
<1>4. P * a \in Int /\ P * b \in Int
  OBVIOUS
<1> QED BY <1>2, <1>3, <1>4

(* A quotient is known by its remainder's range. *)
LEMMA DivIs ==
  ASSUME NEW P \in Nat \ {0}, NEW y \in Int, NEW q \in Int, P * q <= y, y < P * q + P
  PROVE  y \div P = q
<1> DEFINE z == y \div P
<1>1. z \in Int /\ y % P \in 0..P - 1 /\ y = P * z + (y % P)
  OBVIOUS
<1> HIDE DEF z
<1>2. P * z \in Int /\ P * q \in Int
  BY <1>1
<1>3. P * z <= y /\ y < P * z + P
  BY <1>1, <1>2
<1>4. ~(z < q)
  BY <1>1, <1>2, <1>3, TimesMore
<1>5. ~(q < z)
  BY <1>1, <1>2, <1>3, TimesMore
<1> QED BY <1>1, <1>4, <1>5 DEF z

-----------------------------------------------------------------------------
(* Pages by number: those of the user, then those of the kernel. *)
UserPages == 0..NUT * NPT - 1
AllPages == 0..NUT * NPT + NPT - 1
Q(j) == PDX(j * PGSIZE)
R(j) == PTX(j * PGSIZE)

(* Where the entry for a page is: which table, and where in it. *)
LEMMA PlaceOf ==
  ASSUME NEW j \in Nat
  PROVE  Q(j) = j \div NPT /\ R(j) = j % NPT
<1>0. NPT \in Nat \ {0} /\ PGSIZE \in Nat \ {0}
  BY VmSizes
<1> DEFINE q == j \div NPT
           r == j % NPT
<1>1. q \in Int /\ r \in 0..NPT - 1 /\ j = NPT * q + r
  BY <1>0
<1> HIDE DEF q, r
<1>2. (j * PGSIZE) \div PGSIZE = j
  <2>1. j * PGSIZE \in Int /\ PGSIZE * j <= j * PGSIZE /\ j * PGSIZE < PGSIZE * j + PGSIZE
    BY <1>0
  <2> QED BY <1>0, <2>1, DivIs
<1>3. (j * PGSIZE) \div (NPT * PGSIZE) = q
  <2> DEFINE P == NPT * PGSIZE
             y == j * PGSIZE
  <2>1. P \in Nat \ {0} /\ y \in Int /\ P * q \in Int
    BY <1>0, <1>1
  <2>2. r * PGSIZE \in Nat /\ y = P * q + r * PGSIZE
    BY <1>0, <1>1
  <2>3. r * PGSIZE + PGSIZE <= P
    <3>1. r < NPT /\ r \in Int /\ NPT \in Int
      BY <1>0, <1>1
    <3>2. PGSIZE * r + PGSIZE <= PGSIZE * NPT
      BY <1>0, <3>1, TimesMore
    <3>3. PGSIZE * r = r * PGSIZE /\ PGSIZE * NPT = NPT * PGSIZE
      BY <1>0, <3>1
    <3> QED BY <3>2, <3>3
  <2> HIDE DEF P, y
  <2>4. P * q <= y /\ y < P * q + P
    <3>1. \A z \in Nat : z + PGSIZE <= P => z < P
      BY <1>0, <2>1
    <3>2. r * PGSIZE < P
      BY <2>2, <2>3, <3>1
    <3> QED BY <2>1, <2>2, <3>2
  <2>5. y \div P = q
    BY <1>1, <2>1, <2>4, DivIs
  <2> QED BY <2>5 DEF y, P
<1> QED BY <1>2, <1>3 DEF Q, R, PDX, PTX, q, r

(* Two pages have different places. *)
LEMMA Place ==
  /\ \A j \in AllPages : Q(j) \in 0..NUT /\ R(j) \in 0..NPT - 1 /\ Q(j) \in Indices /\ R(j) \in Indices
  /\ \A j, k \in AllPages : Q(j) = Q(k) /\ R(j) = R(k) => j = k
  /\ UserPages \subseteq AllPages /\ AllPages \subseteq Nat /\ 0..NUT \subseteq Indices
<1>0. NPT \in Nat \ {0} /\ NUT \in Nat \ {0} /\ NUT * NPT \in Nat
  BY VmSizes
<1>1. UserPages \subseteq AllPages /\ AllPages \subseteq Nat /\ 0..NUT \subseteq Indices
  BY <1>0 DEF UserPages, AllPages, Indices
<1>2. ASSUME NEW j \in AllPages
      PROVE  Q(j) \in 0..NUT /\ R(j) \in 0..NPT - 1 /\ Q(j) \in Indices /\ R(j) \in Indices
             /\ j = NPT * Q(j) + R(j)
  <2>1. j \in Nat
    BY <1>1
  <2>2. Q(j) = j \div NPT /\ R(j) = j % NPT
    BY <2>1, PlaceOf
  <2> PICK q : q = Q(j)
    OBVIOUS
  <2> PICK r : r = R(j)
    OBVIOUS
  <2>3. q \in Int /\ r \in 0..NPT - 1 /\ j = NPT * q + r
    BY <1>0, <2>1, <2>2
  <2>4. NPT * q \in Int /\ NPT * NUT \in Int /\ NPT * NUT = NUT * NPT
    BY <1>0, <2>3
  <2>5. j < NPT * NUT + NPT /\ j >= 0
    BY <1>0, <2>4 DEF AllPages
  <2>6. ~(NUT < q)
    <3> SUFFICES ASSUME NUT < q PROVE FALSE
      OBVIOUS
    <3>1. NPT * NUT + NPT <= NPT * q
      BY <1>0, <2>3, TimesMore
    <3> QED BY <1>0, <2>1, <2>3, <2>4, <2>5, <3>1
  <2>7. ~(q < 0)
    <3> SUFFICES ASSUME q < 0 PROVE FALSE
      OBVIOUS
    <3>1. NPT * q + NPT <= NPT * 0
      BY <1>0, <2>3, TimesMore
    <3>2. NPT * 0 = 0
      BY <1>0
    <3> QED BY <1>0, <2>1, <2>3, <2>4, <3>1, <3>2
  <2>8. q \in 0..NUT /\ q \in Indices /\ r \in Indices
    BY <1>0, <2>3, <2>6, <2>7 DEF Indices
  <2> QED BY <2>3, <2>8
<1>3. ASSUME NEW j \in AllPages, NEW k \in AllPages, Q(j) = Q(k), R(j) = R(k) PROVE j = k
  BY <1>2, <1>3
<1> QED BY <1>1, <1>2, <1>3

(* Pages of a size. *)
LEMMA PagesOf ==
  ASSUME NEW a \in Nat
  PROVE  /\ NPages(a) \in Nat /\ PGROUNDUP(a) = NPages(a) * PGSIZE
         /\ PGSIZE * NPages(a) >= a /\ PGSIZE * NPages(a) < a + PGSIZE
         /\ (a - 1) \div PGSIZE = NPages(a) - 1
<1>0. PGSIZE \in Nat \ {0}
  BY VmSizes
<1> DEFINE y == a + PGSIZE - 1
           N == y \div PGSIZE
<1>1. y \in Int
  BY <1>0
<1>9. y = a + PGSIZE - 1
  OBVIOUS
<1> HIDE DEF y
<1>2. N \in Int /\ y % PGSIZE \in 0..PGSIZE - 1 /\ y = PGSIZE * N + (y % PGSIZE)
  BY <1>0, <1>1
<1> HIDE DEF N
<1>3. PGSIZE * N \in Int /\ N * PGSIZE = PGSIZE * N
  BY <1>0, <1>2
<1>4. PGSIZE * N >= a /\ PGSIZE * N < a + PGSIZE
  BY <1>0, <1>2, <1>3, <1>9
<1>5. PGROUNDUP(a) = N * PGSIZE
  BY DEF PGROUNDUP, N, y
<1>6. NPages(a) = N
  <2>1. (N * PGSIZE) \div PGSIZE = N
    BY <1>0, <1>2, <1>3, DivIs
  <2> QED BY <1>5, <2>1 DEF NPages
<1>7. N >= 0
  <2> SUFFICES ASSUME N < 0 PROVE FALSE
    BY <1>2
  <2>1. PGSIZE * N + PGSIZE <= PGSIZE * 0
    BY <1>0, <1>2, TimesMore
  <2>2. PGSIZE * 0 = 0
    BY <1>0
  <2> QED BY <1>0, <1>3, <1>4, <2>1, <2>2
<1>8. (a - 1) \div PGSIZE = N - 1
  <2>1. PGSIZE * (N - 1) = PGSIZE * N - PGSIZE
    BY <1>0, <1>2
  <2>2. PGSIZE * (N - 1) <= a - 1 /\ a - 1 < PGSIZE * (N - 1) + PGSIZE
    BY <1>0, <1>3, <1>4, <2>1
  <2>3. a - 1 \in Int /\ N - 1 \in Int
    BY <1>2
  <2> QED BY <1>0, <2>2, <2>3, DivIs
<1> QED BY <1>2, <1>4, <1>5, <1>6, <1>7, <1>8

(* A multiple of the page size. *)
LEMMA WholePages ==
  ASSUME NEW k \in Nat
  PROVE  k * PGSIZE \in Nat /\ NPages(k * PGSIZE) = k
<1>0. PGSIZE \in Nat \ {0}
  BY VmSizes
<1>1. k * PGSIZE \in Nat /\ k * PGSIZE = PGSIZE * k
  BY <1>0
<1> DEFINE N == NPages(k * PGSIZE)
<1>2. N \in Nat /\ PGSIZE * N >= k * PGSIZE /\ PGSIZE * N < k * PGSIZE + PGSIZE
  BY <1>1, PagesOf
<1> HIDE DEF N
<1>3. PGSIZE * N \in Int
  BY <1>0, <1>2
<1>4. ~(N < k)
  <2> SUFFICES ASSUME N < k PROVE FALSE
    OBVIOUS
  <2>1. PGSIZE * N + PGSIZE <= PGSIZE * k
    BY <1>0, <1>2, TimesMore
  <2> QED BY <1>0, <1>1, <1>2, <1>3, <2>1
<1>5. ~(k < N)
  <2> SUFFICES ASSUME k < N PROVE FALSE
    OBVIOUS
  <2>1. PGSIZE * k + PGSIZE <= PGSIZE * N
    BY <1>0, <1>2, TimesMore
  <2> QED BY <1>0, <1>1, <1>2, <1>3, <2>1
<1> QED BY <1>1, <1>2, <1>4, <1>5 DEF N

(* More bytes, at least as many pages. *)
LEMMA PagesGrow ==
  ASSUME NEW a \in Nat, NEW b \in Nat, a <= b
  PROVE  NPages(a) <= NPages(b)
<1>0. PGSIZE \in Nat \ {0}
  BY VmSizes
<1>1. /\ NPages(a) \in Nat /\ PGSIZE * NPages(a) < a + PGSIZE
      /\ NPages(b) \in Nat /\ PGSIZE * NPages(b) >= b
  BY PagesOf
<1> SUFFICES ASSUME NPages(b) < NPages(a) PROVE FALSE
  BY <1>1
<1>2. PGSIZE * NPages(b) + PGSIZE <= PGSIZE * NPages(a)
  BY <1>0, <1>1, TimesMore
<1>3. PGSIZE * NPages(a) \in Int /\ PGSIZE * NPages(b) \in Int
  BY <1>0, <1>1
<1> QED BY <1>0, <1>1, <1>2, <1>3

(* The user's half. *)
LEMMA KernelBase ==
  /\ KERNBASE \in Nat \ {0} /\ NPages(KERNBASE) = NUT * NPT /\ KERNBASE > PGSIZE
  /\ \A a \in 0..KERNBASE - 1 : NPages(a) \in 0..NUT * NPT
<1>0. PGSIZE \in Nat \ {0} /\ NUT * NPT \in Nat \ {0} /\ NUT * NPT > 1
  BY VmSizes
<1> DEFINE U == NUT * NPT
<1>1. KERNBASE = U * PGSIZE
  BY DEF KERNBASE
<1>2. U \in Nat \ {0} /\ U > 1
  BY <1>0
<1> HIDE DEF U
<1>3. KERNBASE \in Nat /\ NPages(KERNBASE) = U
  BY <1>1, <1>2, WholePages
<1>4. KERNBASE > PGSIZE
  <2>1. PGSIZE * 1 + PGSIZE <= PGSIZE * U
    BY <1>0, <1>2, TimesMore
  <2>2. PGSIZE * 1 = PGSIZE /\ PGSIZE * U = KERNBASE
    BY <1>0, <1>1, <1>2
  <2> QED BY <1>0, <1>3, <2>1, <2>2
<1>5. ASSUME NEW a \in 0..KERNBASE - 1 PROVE NPages(a) \in 0..U
  <2>1. a \in Nat /\ a <= KERNBASE
    BY <1>3
  <2>2. NPages(a) <= NPages(KERNBASE) /\ NPages(a) \in Nat
    BY <1>3, <2>1, PagesGrow, PagesOf
  <2> QED BY <1>2, <1>3, <2>2
<1> QED BY <1>0, <1>3, <1>4, <1>5 DEF U

-----------------------------------------------------------------------------
(* The memory, and its parts. *)
Ptes == [pa : Frames \cup {0, Kernel}, u : BOOLEAN]
Words == {"junk", "0", "code", "args", "mine", "other"}
Memory == [free : SUBSET Frames, tab : [Frames -> [Indices -> Ptes]], data : [Frames -> Words],
           fault : {"none"}, kpgdir : Nat]
SetPte(m, t, x, p) == [m EXCEPT !.tab[t][x] = p]
SetTab(m, t, z) == [m EXCEPT !.tab[t] = z]
SetData(m, f, w) == [m EXCEPT !.data[f] = w]
SetFree(m, S) == [m EXCEPT !.free = S]

(* The parts of a memory. *)
LEMMA MemoryIs ==
  ASSUME NEW m \in Memory
  PROVE  /\ m.free \subseteq Frames /\ m.tab \in [Frames -> [Indices -> Ptes]]
         /\ m.data \in [Frames -> Words] /\ m.fault = "none" /\ m.kpgdir \in Nat
         /\ \A t \in Frames, x \in Indices : m.tab[t][x] \in Ptes /\ m.tab[t][x].pa \in Frames \cup {0, Kernel}
                                             /\ m.tab[t][x].u \in BOOLEAN
<1> DEFINE T == [Indices -> Ptes]
<1>1. /\ m.free \subseteq Frames /\ m.tab \in [Frames -> T]
      /\ m.data \in [Frames -> Words] /\ m.fault = "none" /\ m.kpgdir \in Nat
  BY DEF Memory
<1>2. \A t \in Frames : m.tab[t] \in T
  <2> HIDE DEF T
  <2> QED BY <1>1
<1>3. \A t \in Frames, x \in Indices : m.tab[t][x] \in Ptes
  <2> DEFINE P == Ptes
  <2> HIDE DEF P
  <2> QED BY <1>2
<1>4. \A p \in Ptes : p.pa \in Frames \cup {0, Kernel} /\ p.u \in BOOLEAN
  BY DEF Ptes
<1> QED BY <1>1, <1>3, <1>4

(* Nothing is mapped. *)
LEMMA ZeroedIs == Zeroed \in [Indices -> Ptes] /\ NoPte \in Ptes /\ NoPte.pa = 0 /\ ~NoPte.u
                  /\ \A x \in Indices : Zeroed[x] = NoPte
BY DEF Zeroed, NoPte, Ptes

(* One entry changes. *)
LEMMA SetPteIs ==
  ASSUME NEW m \in Memory, NEW t \in Frames, NEW x \in Indices, NEW p \in Ptes
  PROVE  /\ SetPte(m, t, x, p) \in Memory
         /\ SetPte(m, t, x, p).free = m.free /\ SetPte(m, t, x, p).data = m.data
         /\ SetPte(m, t, x, p).fault = m.fault /\ SetPte(m, t, x, p).kpgdir = m.kpgdir
         /\ SetPte(m, t, x, p).tab[t][x] = p
         /\ \A s \in Frames, y \in Indices : s # t \/ y # x => SetPte(m, t, x, p).tab[s][y] = m.tab[s][y]
         /\ \A s \in Frames : s # t => SetPte(m, t, x, p).tab[s] = m.tab[s]
<1> DEFINE T == [Indices -> Ptes]
           z == [m.tab[t] EXCEPT ![x] = p]
           Z == [m.tab EXCEPT ![t] = z]
<1>1. m.tab \in [Frames -> T] /\ m.tab[t] \in T
  <2>1. m.tab \in [Frames -> T]
    BY MemoryIs
  <2> HIDE DEF T
  <2> QED BY <2>1
<1>2. z \in T /\ z[x] = p /\ \A y \in Indices : y # x => z[y] = m.tab[t][y]
  BY <1>1
<1>3. Z \in [Frames -> T] /\ Z[t] = z /\ \A s \in Frames : s # t => Z[s] = m.tab[s]
  <2> HIDE DEF T, z
  <2> QED BY <1>1, <1>2
<1>4. SetPte(m, t, x, p) = [m EXCEPT !.tab = Z]
  BY DEF SetPte
<1>5. [m EXCEPT !.tab = Z] \in Memory /\ [m EXCEPT !.tab = Z].tab = Z
      /\ [m EXCEPT !.tab = Z].free = m.free /\ [m EXCEPT !.tab = Z].data = m.data
      /\ [m EXCEPT !.tab = Z].fault = m.fault /\ [m EXCEPT !.tab = Z].kpgdir = m.kpgdir
  <2>1. Z \in [Frames -> [Indices -> Ptes]]
    BY <1>3
  <2> HIDE DEF Z, z, T
  <2> QED BY <2>1 DEF Memory
<1> HIDE DEF Z, z, T
<1> QED BY <1>2, <1>3, <1>4, <1>5

(* A whole table changes. *)
LEMMA SetTabIs ==
  ASSUME NEW m \in Memory, NEW t \in Frames, NEW z \in [Indices -> Ptes]
  PROVE  /\ SetTab(m, t, z) \in Memory
         /\ SetTab(m, t, z).free = m.free /\ SetTab(m, t, z).data = m.data
         /\ SetTab(m, t, z).fault = m.fault /\ SetTab(m, t, z).kpgdir = m.kpgdir
         /\ SetTab(m, t, z).tab[t] = z
         /\ \A s \in Frames : s # t => SetTab(m, t, z).tab[s] = m.tab[s]
<1> DEFINE T == [Indices -> Ptes]
           Z == [m.tab EXCEPT ![t] = z]
<1>1. m.tab \in [Frames -> T] /\ z \in T
  BY MemoryIs
<1>3. Z \in [Frames -> T] /\ Z[t] = z /\ \A s \in Frames : s # t => Z[s] = m.tab[s]
  <2> HIDE DEF T
  <2> QED BY <1>1
<1>4. SetTab(m, t, z) = [m EXCEPT !.tab = Z]
  BY DEF SetTab
<1>5. [m EXCEPT !.tab = Z] \in Memory /\ [m EXCEPT !.tab = Z].tab = Z
      /\ [m EXCEPT !.tab = Z].free = m.free /\ [m EXCEPT !.tab = Z].data = m.data
      /\ [m EXCEPT !.tab = Z].fault = m.fault /\ [m EXCEPT !.tab = Z].kpgdir = m.kpgdir
  <2>1. Z \in [Frames -> [Indices -> Ptes]]
    BY <1>3
  <2> HIDE DEF Z, T
  <2> QED BY <2>1 DEF Memory
<1> HIDE DEF Z, T
<1> QED BY <1>3, <1>4, <1>5

(* A word changes. *)
LEMMA SetDataIs ==
  ASSUME NEW m \in Memory, NEW f \in Frames, NEW w \in Words
  PROVE  /\ SetData(m, f, w) \in Memory
         /\ SetData(m, f, w).free = m.free /\ SetData(m, f, w).tab = m.tab
         /\ SetData(m, f, w).fault = m.fault /\ SetData(m, f, w).kpgdir = m.kpgdir
         /\ SetData(m, f, w).data[f] = w
         /\ \A g \in Frames : g # f => SetData(m, f, w).data[g] = m.data[g]
<1> DEFINE Z == [m.data EXCEPT ![f] = w]
<1>1. Z \in [Frames -> Words] /\ Z[f] = w /\ \A g \in Frames : g # f => Z[g] = m.data[g]
  BY MemoryIs
<1>2. SetData(m, f, w) = [m EXCEPT !.data = Z]
  BY DEF SetData
<1> HIDE DEF Z
<1>3. [m EXCEPT !.data = Z] \in Memory /\ [m EXCEPT !.data = Z].data = Z
      /\ [m EXCEPT !.data = Z].free = m.free /\ [m EXCEPT !.data = Z].tab = m.tab
      /\ [m EXCEPT !.data = Z].fault = m.fault /\ [m EXCEPT !.data = Z].kpgdir = m.kpgdir
  BY <1>1 DEF Memory
<1> QED BY <1>1, <1>2, <1>3

(* The free list changes. *)
LEMMA SetFreeIs ==
  ASSUME NEW m \in Memory, NEW S \in SUBSET Frames
  PROVE  /\ SetFree(m, S) \in Memory /\ SetFree(m, S).free = S
         /\ SetFree(m, S).tab = m.tab /\ SetFree(m, S).data = m.data
         /\ SetFree(m, S).fault = m.fault /\ SetFree(m, S).kpgdir = m.kpgdir
BY DEF SetFree, Memory

-----------------------------------------------------------------------------
(* Every page has one role: it is free, held by a call that has not mapped *)
(* it yet (L), a directory of D, or a table or a page of one.  k is its    *)
(* role, o the directory, n the number of the table or of the page.        *)
Tab(m, d, i) == m.tab[d][i].pa
Ent(m, d, j) == Pte(m, d, j * PGSIZE)

Roles(m, D, L, k, o, n) ==
  \A f \in Frames :
    /\ k[f] = "free" <=> f \in m.free
    /\ k[f] = "loose" <=> f \in L
    /\ k[f] = "dir" <=> f \in D
    /\ k[f] = "tab" => o[f] \in D /\ n[f] \in 0..NUT /\ Tab(m, o[f], n[f]) = f
    /\ k[f] = "page" => o[f] \in D /\ n[f] \in UserPages /\ Ent(m, o[f], n[f]).pa = f
    /\ f \in m.free => m.tab[f] = Zeroed
Own(m, D, L, k, o, n) ==
  /\ k \in [Frames -> {"free", "loose", "dir", "tab", "page"}]
  /\ o \in [Frames -> Nat] /\ n \in [Frames -> Nat]
  /\ D \subseteq Frames /\ L \subseteq Frames
  /\ Roles(m, D, L, k, o, n)
  /\ \A d \in D, i \in 0..NUT :
       Tab(m, d, i) # 0 => Tab(m, d, i) \in Frames /\ k[Tab(m, d, i)] = "tab"
                           /\ o[Tab(m, d, i)] = d /\ n[Tab(m, d, i)] = i
  /\ \A d \in D, j \in UserPages :
       Ent(m, d, j).pa # 0 => Ent(m, d, j).pa \in Frames /\ k[Ent(m, d, j).pa] = "page"
                              /\ o[Ent(m, d, j).pa] = d /\ n[Ent(m, d, j).pa] = j
  /\ \A d \in D, j \in AllPages \ UserPages : Ent(m, d, j).pa \in {0, Kernel}
Owned(m, D, L) == m \in Memory /\ \E k, o, n : Own(m, D, L, k, o, n)

(* What a call keeps: the entries of all directories of D with the words   *)
(* they lead to, but for the pages J of d, and the tables there are.       *)
SameEnt(m, v, e, j) ==
  IF Ent(m, e, j).pa = 0 THEN Ent(v, e, j).pa = 0
  ELSE /\ Ent(v, e, j) = Ent(m, e, j)
       /\ Ent(m, e, j).pa \in Frames => v.data[Ent(m, e, j).pa] = m.data[Ent(m, e, j).pa]
KeptBut(m, v, D, d, J) ==
  /\ v.fault = m.fault /\ v.kpgdir = m.kpgdir
  /\ \A e \in D : \A i \in 0..NUT : Tab(m, e, i) # 0 => Tab(v, e, i) = Tab(m, e, i)
  /\ \A e \in D : \A j \in AllPages : (e = d /\ j \in J) \/ SameEnt(m, v, e, j)

Kept(m, v, D) == \A d, J : KeptBut(m, v, D, d, J)

(* Directories and tables, words of pages, and entries, that stay. *)
SameTabs(m, v, k) == \A f \in Frames : k[f] \in {"dir", "tab"} => v.tab[f] = m.tab[f]
SameData(m, v, k) == \A f \in Frames : k[f] = "page" => v.data[f] = m.data[f]
SameRest(m, v) == v.fault = m.fault /\ v.kpgdir = m.kpgdir
SameViews(m, v, D) ==
  \A d \in D : /\ \A i \in 0..NUT : Tab(v, d, i) = Tab(m, d, i)
               /\ \A j \in AllPages : Ent(v, d, j) = Ent(m, d, j)
Clean(m) == \A g \in m.free : m.tab[g] = Zeroed
(* f becomes free, or held. *)
Relabel(m, v, L, K, f, c) ==
  /\ v.free = IF c = "free" THEN m.free \cup {f} ELSE m.free \ {f}
  /\ K = IF c = "loose" THEN L \cup {f} ELSE L \ {f}

(* Frames and numbers. *)
LEMMA FramesAre == Frames \subseteq Nat /\ 0 \notin Frames /\ Kernel \notin Frames /\ Kernel # 0
                   /\ Frames = 1..NPAGES
BY VmSizes DEF Frames, Kernel

(* An entry is found through its table. *)
LEMMA EntIs ==
  ASSUME NEW m, NEW d, NEW j
  PROVE  Ent(m, d, j) = IF Tab(m, d, Q(j)) = 0 THEN NoPte ELSE m.tab[Tab(m, d, Q(j))][R(j)]
BY DEF Ent, Pte, Tab, Q, R

(* Entries have their types. *)
LEMMA EntType ==
  ASSUME NEW m \in Memory, NEW D, NEW L, NEW k, NEW o, NEW n, Own(m, D, L, k, o, n),
         NEW d \in D, NEW j \in AllPages
  PROVE  Ent(m, d, j) \in Ptes /\ Ent(m, d, j).pa \in Frames \cup {0, Kernel}
<1>1. Q(j) \in 0..NUT /\ R(j) \in Indices
  BY Place
<1>2. CASE Tab(m, d, Q(j)) = 0
  BY <1>2, EntIs, ZeroedIs
<1>3. CASE Tab(m, d, Q(j)) # 0
  <2>1. Tab(m, d, Q(j)) \in Frames
    BY <1>1, <1>3 DEF Own
  <2>2. Ent(m, d, j) = m.tab[Tab(m, d, Q(j))][R(j)]
    BY <1>3, EntIs
  <2> QED BY <1>1, <2>1, <2>2, MemoryIs
<1> QED BY <1>2, <1>3

(* Entries depend on directories and tables only. *)
LEMMA ViewsSame ==
  ASSUME NEW m \in Memory, NEW v \in Memory, NEW D, NEW L, NEW k, NEW o, NEW n, Own(m, D, L, k, o, n),
         SameTabs(m, v, k)
  PROVE  SameViews(m, v, D)
<1> SUFFICES ASSUME NEW d \in D
             PROVE  /\ \A i \in 0..NUT : Tab(v, d, i) = Tab(m, d, i)
                    /\ \A j \in AllPages : Ent(v, d, j) = Ent(m, d, j)
  BY DEF SameViews
<1>1. v.tab[d] = m.tab[d]
  BY DEF Own, Roles, SameTabs
<1>2. \A i : Tab(v, d, i) = Tab(m, d, i)
  BY <1>1 DEF Tab
<1>3. ASSUME NEW j \in AllPages PROVE Ent(v, d, j) = Ent(m, d, j)
  <2>1. CASE Tab(m, d, Q(j)) = 0
    BY <1>2, <2>1, EntIs
  <2>2. CASE Tab(m, d, Q(j)) # 0
    <3>1. Q(j) \in 0..NUT
      BY Place
    <3>2. v.tab[Tab(m, d, Q(j))] = m.tab[Tab(m, d, Q(j))]
      BY <2>2, <3>1 DEF Own, SameTabs
    <3> QED BY <1>2, <3>2, EntIs
  <2> QED BY <2>1, <2>2
<1> QED BY <1>2, <1>3

(* Where the words of the pages stay too. *)
LEMMA KeptAll ==
  ASSUME NEW m \in Memory, NEW v \in Memory, NEW D, NEW L, NEW k, NEW o, NEW n, Own(m, D, L, k, o, n),
         SameRest(m, v), SameTabs(m, v, k), SameData(m, v, k)
  PROVE  Kept(m, v, D)
<1>1. SameViews(m, v, D)
  BY ViewsSame
<1>2. ASSUME NEW e \in D, NEW j \in AllPages PROVE SameEnt(m, v, e, j)
  <2>1. Ent(m, e, j).pa \in Frames => k[Ent(m, e, j).pa] = "page"
    BY FramesAre DEF Own
  <2> QED BY <1>1, <2>1 DEF SameEnt, SameViews, SameData
<1> QED BY <1>1, <1>2 DEF Kept, KeptBut, SameViews, SameRest

-----------------------------------------------------------------------------
(* One page, f, gets the role c, for table or page x of d. *)
Swap(a, b, f) == b = a \/ (a \in {0, f} /\ b \in {0, f})
OnlyMoves(m, v, D, f) ==
  \A e \in D : /\ \A i \in 0..NUT : Swap(Tab(m, e, i), Tab(v, e, i), f)
               /\ \A j \in UserPages : Swap(Ent(m, e, j).pa, Ent(v, e, j).pa, f)
               /\ \A j \in AllPages \ UserPages : Ent(v, e, j).pa \in {0, Kernel}
Placed(v, D, f, c, d, x) ==
  /\ c = "tab" => d \in D /\ x \in 0..NUT /\ Tab(v, d, x) = f
  /\ c = "page" => d \in D /\ x \in UserPages /\ Ent(v, d, x).pa = f
  /\ \A e \in D, i \in 0..NUT : Tab(v, e, i) = f => c = "tab" /\ e = d /\ i = x
  /\ \A e \in D, j \in UserPages : Ent(v, e, j).pa = f => c = "page" /\ e = d /\ j = x

(* The other pages keep their roles. *)
LEMMA RoleChanged ==
  ASSUME NEW m \in Memory, NEW v \in Memory, NEW D, NEW L, NEW k, NEW o, NEW n, Own(m, D, L, k, o, n),
         NEW f \in Frames, f \notin D, NEW c \in {"free", "loose", "tab", "page"}, NEW d \in Nat, NEW x \in Nat,
         NEW K, Relabel(m, v, L, K, f, c), Clean(v), OnlyMoves(m, v, D, f), Placed(v, D, f, c, d, x)
  PROVE  Owned(v, D, K)
<1>0. UserPages \subseteq AllPages /\ 0 \notin Frames
  BY Place, FramesAre
<1>1. /\ k \in [Frames -> {"free", "loose", "dir", "tab", "page"}]
      /\ o \in [Frames -> Nat] /\ n \in [Frames -> Nat] /\ D \subseteq Frames /\ L \subseteq Frames
  BY DEF Own
<1>2. Roles(m, D, L, k, o, n)
  BY DEF Own
<1>3. /\ \A e \in D, i \in 0..NUT :
           Tab(m, e, i) # 0 => Tab(m, e, i) \in Frames /\ k[Tab(m, e, i)] = "tab"
                           /\ o[Tab(m, e, i)] = e /\ n[Tab(m, e, i)] = i
      /\ \A e \in D, j \in UserPages :
           Ent(m, e, j).pa # 0 => Ent(m, e, j).pa \in Frames /\ k[Ent(m, e, j).pa] = "page"
                              /\ o[Ent(m, e, j).pa] = e /\ n[Ent(m, e, j).pa] = j
  BY DEF Own
<1> PICK kk : kk = [k EXCEPT ![f] = c]
  OBVIOUS
<1> PICK oo : oo = [o EXCEPT ![f] = d]
  OBVIOUS
<1> PICK nn : nn = [n EXCEPT ![f] = x]
  OBVIOUS
<1>4. /\ kk \in [Frames -> {"free", "loose", "dir", "tab", "page"}]
      /\ oo \in [Frames -> Nat] /\ nn \in [Frames -> Nat]
      /\ kk[f] = c /\ oo[f] = d /\ nn[f] = x
      /\ \A g \in Frames : g # f => kk[g] = k[g] /\ oo[g] = o[g] /\ nn[g] = n[g]
  BY <1>1
<1>5. Roles(v, D, K, kk, oo, nn)
  <2> SUFFICES ASSUME NEW g \in Frames
               PROVE
      /\ kk[g] = "free" <=> g \in v.free
      /\ kk[g] = "loose" <=> g \in K
      /\ kk[g] = "dir" <=> g \in D
      /\ kk[g] = "tab" => oo[g] \in D /\ nn[g] \in 0..NUT /\ Tab(v, oo[g], nn[g]) = g
      /\ kk[g] = "page" => oo[g] \in D /\ nn[g] \in UserPages /\ Ent(v, oo[g], nn[g]).pa = g
    BY DEF Roles, Clean
  <2>0. /\ k[g] = "free" <=> g \in m.free
        /\ k[g] = "loose" <=> g \in L
        /\ k[g] = "dir" <=> g \in D
        /\ k[g] = "tab" => o[g] \in D /\ n[g] \in 0..NUT /\ Tab(m, o[g], n[g]) = g
        /\ k[g] = "page" => o[g] \in D /\ n[g] \in UserPages /\ Ent(m, o[g], n[g]).pa = g
    BY <1>2 DEF Roles
  <2>1. CASE g = f
    <3>1. kk[g] = c /\ oo[g] = d /\ nn[g] = x /\ (kk[g] = "free" <=> g \in v.free)
          /\ (kk[g] = "loose" <=> g \in K)
      BY <1>4, <2>1 DEF Relabel
    <3> QED BY <2>1, <3>1 DEF Placed
  <2>2. CASE g # f
    <3>1. /\ kk[g] = k[g] /\ oo[g] = o[g] /\ nn[g] = n[g]
          /\ (g \in v.free <=> g \in m.free) /\ (g \in K <=> g \in L)
      BY <1>4, <2>2 DEF Relabel
    <3>2. kk[g] = "tab" => oo[g] \in D /\ nn[g] \in 0..NUT /\ Tab(v, oo[g], nn[g]) = g
      BY <1>0, <2>0, <2>2, <3>1 DEF OnlyMoves, Swap
    <3>3. kk[g] = "page" => oo[g] \in D /\ nn[g] \in UserPages /\ Ent(v, oo[g], nn[g]).pa = g
      BY <1>0, <2>0, <2>2, <3>1 DEF OnlyMoves, Swap
    <3> QED BY <2>0, <3>1, <3>2, <3>3
  <2> QED BY <2>1, <2>2
<1>6. ASSUME NEW e \in D, NEW i \in 0..NUT, Tab(v, e, i) # 0
      PROVE  Tab(v, e, i) \in Frames /\ kk[Tab(v, e, i)] = "tab"
                           /\ oo[Tab(v, e, i)] = e /\ nn[Tab(v, e, i)] = i
  <2>1. CASE Tab(v, e, i) = f
    BY <1>4, <2>1 DEF Placed
  <2>2. CASE Tab(v, e, i) # f
    <3>1. Tab(v, e, i) = Tab(m, e, i)
      BY <1>6, <2>2 DEF OnlyMoves, Swap
    <3> QED BY <1>3, <1>4, <1>6, <2>2, <3>1
  <2> QED BY <2>1, <2>2
<1>7. ASSUME NEW e \in D, NEW j \in UserPages, Ent(v, e, j).pa # 0
      PROVE  Ent(v, e, j).pa \in Frames /\ kk[Ent(v, e, j).pa] = "page"
                              /\ oo[Ent(v, e, j).pa] = e /\ nn[Ent(v, e, j).pa] = j
  <2>1. CASE Ent(v, e, j).pa = f
    BY <1>4, <2>1 DEF Placed
  <2>2. CASE Ent(v, e, j).pa # f
    <3>1. Ent(v, e, j).pa = Ent(m, e, j).pa
      BY <1>7, <2>2 DEF OnlyMoves, Swap
    <3> QED BY <1>3, <1>4, <1>7, <2>2, <3>1
  <2> QED BY <2>1, <2>2
<1>8. \A e \in D, j \in AllPages \ UserPages : Ent(v, e, j).pa \in {0, Kernel}
  BY DEF OnlyMoves
<1>9. K \subseteq Frames
  BY <1>1 DEF Relabel
<1>10. Own(v, D, K, kk, oo, nn)
  BY <1>1, <1>4, <1>5, <1>6, <1>7, <1>8, <1>9 DEF Own
<1> QED BY <1>10 DEF Owned

(* A page goes from the free list to a call that holds it, or back. *)
LEMMA Relabeled ==
  ASSUME NEW m \in Memory, NEW v \in Memory, NEW D, NEW L, NEW k, NEW o, NEW n, Own(m, D, L, k, o, n),
         SameViews(m, v, D), NEW f \in Frames, NEW c \in {"free", "loose"},
         k[f] \in {"free", "loose"}, Clean(v), NEW K, Relabel(m, v, L, K, f, c)
  PROVE  Owned(v, D, K)
<1>0. UserPages \subseteq AllPages /\ f # 0
  BY Place, FramesAre
<1>1. f \notin D
  BY DEF Own, Roles
<1>2. OnlyMoves(m, v, D, f)
  <2>1. \A e \in D, j \in AllPages \ UserPages : Ent(m, e, j).pa \in {0, Kernel}
    BY DEF Own
  <2> QED BY <1>0, <2>1 DEF OnlyMoves, Swap, SameViews
<1>3. Placed(v, D, f, c, 0, 0)
  <2>1. \A e \in D, i \in 0..NUT : Tab(v, e, i) # f
    BY <1>0 DEF SameViews, Own
  <2>2. ASSUME NEW e \in D, NEW j \in UserPages PROVE Ent(v, e, j).pa # f
    <3>1. Ent(v, e, j) = Ent(m, e, j)
      BY <1>0 DEF SameViews
    <3> QED BY <1>0, <3>1 DEF Own
  <2> QED BY <2>1, <2>2 DEF Placed
<1> QED BY <1>1, <1>2, <1>3, RoleChanged

-----------------------------------------------------------------------------
(* kalloc takes a page from the free list, if there is one. *)
LEMMA KallocIs ==
  ASSUME NEW m, NEW D, NEW L, Owned(m, D, L)
  PROVE  \/ m.free = {} /\ kalloc(m).m = m /\ kalloc(m).f = 0
         \/ /\ kalloc(m).f \in m.free /\ kalloc(m).f \in Frames \ (D \cup L)
            /\ kalloc(m).m.free = m.free \ {kalloc(m).f}
            /\ kalloc(m).m.tab = m.tab /\ m.tab[kalloc(m).f] = Zeroed
            /\ Owned(kalloc(m).m, D, L \cup {kalloc(m).f})
            /\ Kept(m, kalloc(m).m, D)
<1>1. CASE m.free = {}
  BY <1>1 DEF kalloc
<1>2. CASE m.free # {}
  <2> PICK f : f = Min(m.free)
    OBVIOUS
  <2> PICK S : S = m.free \ {f}
    OBVIOUS
  <2>1. m \in Memory /\ m.free \subseteq Frames /\ m.free \subseteq Nat
    BY MemoryIs, FramesAre DEF Owned
  <2>2. f \in m.free /\ f \in Frames
    BY <1>2, <2>1, MinOfPages
  <2>3. kalloc(m).f = f /\ kalloc(m).m = SetFree(m, S)
    BY <1>2 DEF kalloc, SetFree
  <2> PICK v : v = SetFree(m, S)
    OBVIOUS
  <2>4. /\ v \in Memory /\ v.free = S /\ v.tab = m.tab /\ v.data = m.data
        /\ v.fault = m.fault /\ v.kpgdir = m.kpgdir
    BY <2>1, SetFreeIs
  <2>5. PICK k, o, n : Own(m, D, L, k, o, n)
    BY DEF Owned
  <2>6. SameRest(m, v) /\ SameTabs(m, v, k) /\ SameData(m, v, k)
    BY <2>4 DEF SameRest, SameTabs, SameData
  <2>7. k[f] = "free" /\ f \notin D \cup L /\ m.tab[f] = Zeroed /\ \A g \in m.free : m.tab[g] = Zeroed
    BY <2>1, <2>2, <2>5 DEF Own, Roles
  <2>8. Clean(v) /\ Relabel(m, v, L, L \cup {f}, f, "loose")
    BY <2>4, <2>7 DEF Clean, Relabel
  <2>9. SameViews(m, v, D) /\ Kept(m, v, D)
    BY <2>1, <2>4, <2>5, <2>6, ViewsSame, KeptAll
  <2>11. Owned(v, D, L \cup {f})
    BY <2>1, <2>2, <2>4, <2>5, <2>7, <2>8, <2>9, Relabeled
  <2> QED BY <2>2, <2>3, <2>4, <2>7, <2>9, <2>11
<1> QED BY <1>1, <1>2

-----------------------------------------------------------------------------
(* What one call keeps and the next keeps. *)
LEMMA SameTrans ==
  ASSUME NEW m, NEW v, NEW w, NEW e, NEW j, SameEnt(m, v, e, j), SameEnt(v, w, e, j)
  PROVE  SameEnt(m, w, e, j)
BY DEF SameEnt

(* What one call keeps and the next keeps, of all directories. *)
LEMMA KeptTrans ==
  ASSUME NEW m, NEW v, NEW w, NEW D, NEW d, NEW J, KeptBut(m, v, D, d, J), KeptBut(v, w, D, d, J)
  PROVE  KeptBut(m, w, D, d, J)
<1>1. /\ v.fault = m.fault /\ v.kpgdir = m.kpgdir
      /\ \A e \in D : \A i \in 0..NUT : Tab(m, e, i) # 0 => Tab(v, e, i) = Tab(m, e, i)
      /\ \A e \in D : \A j \in AllPages : (e = d /\ j \in J) \/ SameEnt(m, v, e, j)
  BY DEF KeptBut
<1>2. /\ w.fault = v.fault /\ w.kpgdir = v.kpgdir
      /\ \A e \in D : \A i \in 0..NUT : Tab(v, e, i) # 0 => Tab(w, e, i) = Tab(v, e, i)
      /\ \A e \in D : \A j \in AllPages : (e = d /\ j \in J) \/ SameEnt(v, w, e, j)
  BY DEF KeptBut
<1>3. \A e \in D : \A j \in AllPages : (e = d /\ j \in J) \/ SameEnt(m, w, e, j)
  BY <1>1, <1>2, SameTrans
<1>4. \A e \in D : \A i \in 0..NUT : Tab(m, e, i) # 0 => Tab(w, e, i) = Tab(m, e, i)
  BY <1>1, <1>2
<1> QED BY <1>1, <1>2, <1>3, <1>4 DEF KeptBut

(* The same, where nothing is left out. *)
LEMMA AllKept ==
  ASSUME NEW m, NEW v, NEW w, NEW D
  PROVE  /\ Kept(m, v, D) /\ Kept(v, w, D) => Kept(m, w, D)
         /\ Kept(m, m, D)
         /\ KeptBut(m, v, D, 0, {}) => Kept(m, v, D)
         /\ \A E \in SUBSET D : Kept(m, v, D) => Kept(m, v, E)
         /\ \A d, J : KeptBut(m, v, D, d, J) => Kept(m, v, D \ {d})
         /\ \A d, J, K : KeptBut(m, v, D, d, J) /\ J \subseteq K => KeptBut(m, v, D, d, K)
<1>1. Kept(m, v, D) /\ Kept(v, w, D) => Kept(m, w, D)
  BY KeptTrans DEF Kept
<1>2. Kept(m, m, D)
  BY DEF Kept, KeptBut, SameEnt
<1>3. KeptBut(m, v, D, 0, {}) => Kept(m, v, D)
  BY DEF Kept, KeptBut
<1>4. \A E \in SUBSET D : Kept(m, v, D) => Kept(m, v, E)
  BY DEF Kept, KeptBut
<1>5. \A d, J : KeptBut(m, v, D, d, J) => Kept(m, v, D \ {d})
  BY DEF Kept, KeptBut
<1>6. \A d, J, K : KeptBut(m, v, D, d, J) /\ J \subseteq K => KeptBut(m, v, D, d, K)
  BY DEF KeptBut
<1> QED BY <1>1, <1>2, <1>3, <1>4, <1>5, <1>6

(* What kfree does to a page that is not free. *)
LEMMA KfreeSets ==
  ASSUME NEW m \in Memory, NEW f \in Frames, f \notin m.free
  PROVE  /\ kfree(m, f) \in Memory /\ kfree(m, f).free = m.free \cup {f}
         /\ kfree(m, f).tab[f] = Zeroed /\ kfree(m, f).data[f] = "junk"
         /\ \A g \in Frames : g # f => kfree(m, f).tab[g] = m.tab[g] /\ kfree(m, f).data[g] = m.data[g]
         /\ kfree(m, f).fault = m.fault /\ kfree(m, f).kpgdir = m.kpgdir
<1> PICK S : S = m.free \cup {f}
  OBVIOUS
<1>6. PICK T : T = [Indices -> Ptes]
  OBVIOUS
<1>0. S \in SUBSET Frames /\ m.data \in [Frames -> Words]
  BY MemoryIs
<1>7. m.tab \in [Frames -> T] /\ Zeroed \in T
  BY <1>6, MemoryIs, ZeroedIs
<1>8. PICK X : X = [m.tab EXCEPT ![f] = Zeroed]
  OBVIOUS
<1>10. PICK w : w = "junk" /\ w \in Words
  BY DEF Words
<1>9. PICK Y : Y = [m.data EXCEPT ![f] = w]
  OBVIOUS
<1>1. X \in [Frames -> T] /\ X[f] = Zeroed /\ \A g \in Frames : g # f => X[g] = m.tab[g]
  BY <1>7, <1>8
<1>2. Y \in [Frames -> Words] /\ Y[f] = w /\ \A g \in Frames : g # f => Y[g] = m.data[g]
  BY <1>0, <1>9, <1>10
<1>3. kfree(m, f) = [m EXCEPT !.free = S, !.tab = X, !.data = Y]
  BY <1>8, <1>9, <1>10 DEF kfree
<1> PICK v : v = [m EXCEPT !.free = S, !.tab = X, !.data = Y]
  OBVIOUS
<1>4. /\ v \in Memory /\ v.free = S /\ v.tab = X /\ v.data = Y /\ v.fault = m.fault
      /\ v.kpgdir = m.kpgdir
  <2>1. X \in [Frames -> [Indices -> Ptes]]
    BY <1>1, <1>6
  <2> QED BY <1>0, <1>2, <2>1 DEF Memory
<1> QED BY <1>1, <1>2, <1>3, <1>4, <1>10

(* kfree of a page that a call holds. *)
LEMMA KfreeIs ==
  ASSUME NEW m, NEW D, NEW L, Owned(m, D, L), NEW f \in L
  PROVE  /\ Owned(kfree(m, f), D, L \ {f}) /\ Kept(m, kfree(m, f), D)
         /\ kfree(m, f).free = m.free \cup {f}
<1>1. m \in Memory
  BY DEF Owned
<1>2. PICK k, o, n : Own(m, D, L, k, o, n)
  BY DEF Owned
<1>3. f \in Frames /\ k[f] = "loose" /\ f \notin m.free /\ Clean(m)
  <2>1. f \in Frames
    BY <1>2 DEF Own
  <2>2. Roles(m, D, L, k, o, n) /\ m.free \subseteq Frames
    BY <1>1, <1>2, MemoryIs DEF Own
  <2> QED BY <2>1, <2>2 DEF Roles, Clean
<1> PICK v : v = kfree(m, f)
  OBVIOUS
<1>4. /\ v \in Memory /\ v.free = m.free \cup {f} /\ v.tab[f] = Zeroed
      /\ \A g \in Frames : g # f => v.tab[g] = m.tab[g] /\ v.data[g] = m.data[g]
      /\ v.fault = m.fault /\ v.kpgdir = m.kpgdir
  BY <1>1, <1>3, KfreeSets
<1>5. SameRest(m, v) /\ SameTabs(m, v, k) /\ SameData(m, v, k)
  BY <1>3, <1>4 DEF SameRest, SameTabs, SameData
<1>6. SameViews(m, v, D) /\ Kept(m, v, D)
  BY <1>1, <1>2, <1>4, <1>5, ViewsSame, KeptAll
<1>7. Clean(v)
  <2>1. m.free \subseteq Frames
    BY <1>1, MemoryIs
  <2> QED BY <1>3, <1>4, <2>1 DEF Clean
<1>8. Relabel(m, v, L, L \ {f}, f, "free")
  BY <1>4 DEF Relabel
<1>9. Owned(v, D, L \ {f})
  BY <1>1, <1>2, <1>3, <1>4, <1>6, <1>7, <1>8, Relabeled
<1> QED BY <1>4, <1>6, <1>9

-----------------------------------------------------------------------------
(* No page changes its role. *)
SameRoles(m, v, D) ==
  /\ v.free = m.free /\ Clean(v)
  /\ \A e \in D : /\ \A i \in 0..NUT : Tab(v, e, i) = Tab(m, e, i)
                  /\ \A j \in UserPages : Ent(v, e, j).pa = Ent(m, e, j).pa
                  /\ \A j \in AllPages \ UserPages : Ent(v, e, j).pa \in {0, Kernel}
LEMMA RolesStay ==
  ASSUME NEW m, NEW v \in Memory, NEW D, NEW L, Owned(m, D, L), SameRoles(m, v, D)
  PROVE  Owned(v, D, L)
<1>0. PICK k, o, n : Own(m, D, L, k, o, n)
  BY DEF Owned
<1>1. Roles(v, D, L, k, o, n)
  <2>1. Roles(m, D, L, k, o, n)
    BY <1>0 DEF Own
  <2> SUFFICES ASSUME NEW g \in Frames
               PROVE
      /\ k[g] = "free" <=> g \in v.free
      /\ k[g] = "loose" <=> g \in L
      /\ k[g] = "dir" <=> g \in D
      /\ k[g] = "tab" => o[g] \in D /\ n[g] \in 0..NUT /\ Tab(v, o[g], n[g]) = g
      /\ k[g] = "page" => o[g] \in D /\ n[g] \in UserPages /\ Ent(v, o[g], n[g]).pa = g
    BY DEF Roles, Clean, SameRoles
  <2> QED BY <2>1 DEF Roles, SameRoles
<1>2. Own(v, D, L, k, o, n)
  <2>1. /\ k \in [Frames -> {"free", "loose", "dir", "tab", "page"}]
        /\ o \in [Frames -> Nat] /\ n \in [Frames -> Nat] /\ D \subseteq Frames /\ L \subseteq Frames
    BY <1>0 DEF Own
  <2>2. /\ \A e \in D, i \in 0..NUT :
             Tab(v, e, i) # 0 => Tab(v, e, i) \in Frames /\ k[Tab(v, e, i)] = "tab"
                           /\ o[Tab(v, e, i)] = e /\ n[Tab(v, e, i)] = i
    BY <1>0 DEF Own, SameRoles
  <2>3. \A e \in D, j \in UserPages :
             Ent(v, e, j).pa # 0 => Ent(v, e, j).pa \in Frames /\ k[Ent(v, e, j).pa] = "page"
                              /\ o[Ent(v, e, j).pa] = e /\ n[Ent(v, e, j).pa] = j
    BY <1>0 DEF Own, SameRoles
  <2>4. \A e \in D, j \in AllPages \ UserPages : Ent(v, e, j).pa \in {0, Kernel}
    BY DEF SameRoles
  <2> QED BY <1>1, <2>1, <2>2, <2>3, <2>4 DEF Own
<1> QED BY <1>2 DEF Owned

(* Facts about the frames that directories and tables are. *)
LEMMA OwnFacts ==
  ASSUME NEW m, NEW D, NEW L, Owned(m, D, L)
  PROVE  /\ m \in Memory /\ D \subseteq Frames /\ L \subseteq Frames /\ m.free \subseteq Frames /\ Clean(m)
         /\ D \cap L = {} /\ D \cap m.free = {} /\ L \cap m.free = {}
         /\ \A d \in D, i \in 0..NUT : Tab(m, d, i) # 0 =>
              Tab(m, d, i) \in Frames \ (D \cup L \cup m.free)
         /\ \A d \in D, j \in UserPages : Ent(m, d, j).pa # 0 =>
              Ent(m, d, j).pa \in Frames \ (D \cup L \cup m.free)
         /\ \A d \in D, j \in AllPages \ UserPages : Ent(m, d, j).pa \in {0, Kernel}
         /\ \A d, e \in D, i, x \in 0..NUT : Tab(m, d, i) # 0 /\ Tab(m, e, x) = Tab(m, d, i) => d = e /\ i = x
         /\ \A d, e \in D, j, x \in UserPages :
              Ent(m, d, j).pa # 0 /\ Ent(m, e, x).pa = Ent(m, d, j).pa => d = e /\ j = x
         /\ \A d, e \in D, i \in 0..NUT, j \in UserPages : Tab(m, d, i) # 0 => Tab(m, d, i) # Ent(m, e, j).pa
<1>0. PICK k, o, n : Own(m, D, L, k, o, n)
  BY DEF Owned
<1>1. m \in Memory /\ D \subseteq Frames /\ L \subseteq Frames /\ m.free \subseteq Frames
  BY <1>0, MemoryIs DEF Owned, Own
<1>2. Roles(m, D, L, k, o, n)
  BY <1>0 DEF Own
<1>3. Clean(m) /\ D \cap L = {} /\ D \cap m.free = {} /\ L \cap m.free = {}
  BY <1>1, <1>2 DEF Roles, Clean
<1>4. /\ \A d \in D, i \in 0..NUT :
           Tab(m, d, i) # 0 => Tab(m, d, i) \in Frames /\ k[Tab(m, d, i)] = "tab"
                           /\ o[Tab(m, d, i)] = d /\ n[Tab(m, d, i)] = i
      /\ \A d \in D, j \in UserPages :
           Ent(m, d, j).pa # 0 => Ent(m, d, j).pa \in Frames /\ k[Ent(m, d, j).pa] = "page"
                              /\ o[Ent(m, d, j).pa] = d /\ n[Ent(m, d, j).pa] = j
      /\ \A d \in D, j \in AllPages \ UserPages : Ent(m, d, j).pa \in {0, Kernel}
  BY <1>0 DEF Own
<1>5. \A f \in Frames : k[f] \in {"tab", "page"} => f \notin D \cup L \cup m.free
  BY <1>2 DEF Roles
<1>6. \A d \in D, i \in 0..NUT : Tab(m, d, i) # 0 => Tab(m, d, i) \in Frames \ (D \cup L \cup m.free)
  BY <1>4, <1>5
<1>7. \A d \in D, j \in UserPages : Ent(m, d, j).pa # 0 =>
              Ent(m, d, j).pa \in Frames \ (D \cup L \cup m.free)
  BY <1>4, <1>5
<1>8. \A d, e \in D, i, x \in 0..NUT : Tab(m, d, i) # 0 /\ Tab(m, e, x) = Tab(m, d, i) => d = e /\ i = x
  BY <1>4
<1>9. \A d, e \in D, j, x \in UserPages :
              Ent(m, d, j).pa # 0 /\ Ent(m, e, x).pa = Ent(m, d, j).pa => d = e /\ j = x
  BY <1>4
<1>10. \A d, e \in D, i \in 0..NUT, j \in UserPages : Tab(m, d, i) # 0 => Tab(m, d, i) # Ent(m, e, j).pa
  BY <1>4
<1> QED BY <1>1, <1>3, <1>4, <1>6, <1>7, <1>8, <1>9, <1>10

(* One entry, for page j of d, becomes p; other directories and tables in  *)
(* use stay.                                                               *)
OneSet(m, v, D, d, j, p) ==
  /\ \A e \in D : v.tab[e] = m.tab[e]
  /\ \A e \in D, i \in 0..NUT, y \in Indices : Tab(m, e, i) # 0 =>
       v.tab[Tab(m, e, i)][y] = IF Tab(m, e, i) = Tab(m, d, Q(j)) /\ y = R(j) THEN p
                                ELSE m.tab[Tab(m, e, i)][y]
EntrySet(m, v, D, d, j, p) ==
  /\ \A e \in D, i \in 0..NUT : Tab(v, e, i) = Tab(m, e, i)
  /\ Ent(v, d, j) = p
  /\ \A e \in D, x \in AllPages : e # d \/ x # j => Ent(v, e, x) = Ent(m, e, x)
LEMMA EntryIsSet ==
  ASSUME NEW m, NEW v, NEW D, NEW L, Owned(m, D, L), NEW d \in D, NEW j \in AllPages,
         Tab(m, d, Q(j)) # 0, NEW p, OneSet(m, v, D, d, j, p)
  PROVE  EntrySet(m, v, D, d, j, p)
<1>1. \A e \in D, i \in 0..NUT : Tab(v, e, i) = Tab(m, e, i)
  BY DEF OneSet, Tab
<1>2. Q(j) \in 0..NUT /\ R(j) \in Indices
  BY Place
<1>3. Ent(v, d, j) = p
  <2>1. Tab(v, d, Q(j)) = Tab(m, d, Q(j))
    BY <1>1, <1>2
  <2>2. v.tab[Tab(m, d, Q(j))][R(j)] = p
    BY <1>2 DEF OneSet
  <2> QED BY <2>1, <2>2, EntIs
<1>4. ASSUME NEW e \in D, NEW x \in AllPages, e # d \/ x # j PROVE Ent(v, e, x) = Ent(m, e, x)
  <2>1. Q(x) \in 0..NUT /\ R(x) \in Indices
    BY Place
  <2>2. Tab(v, e, Q(x)) = Tab(m, e, Q(x))
    BY <1>1, <2>1
  <2>3. CASE Tab(m, e, Q(x)) = 0
    BY <2>2, <2>3, EntIs
  <2>4. CASE Tab(m, e, Q(x)) # 0
    <3>1. ~(Tab(m, e, Q(x)) = Tab(m, d, Q(j)) /\ R(x) = R(j))
      <4> SUFFICES ASSUME Tab(m, e, Q(x)) = Tab(m, d, Q(j)), R(x) = R(j) PROVE FALSE
        OBVIOUS
      <4>1. e = d /\ Q(x) = Q(j)
        BY <1>2, <2>1, <2>4, OwnFacts
      <4>2. x = j
        BY <4>1, Place
      <4> QED BY <1>4, <4>1, <4>2
    <3>2. v.tab[Tab(m, e, Q(x))][R(x)] = m.tab[Tab(m, e, Q(x))][R(x)]
      BY <2>1, <2>4, <3>1 DEF OneSet
    <3> QED BY <2>2, <2>4, <3>2, EntIs
  <2> QED BY <2>3, <2>4
<1> QED BY <1>1, <1>3, <1>4 DEF EntrySet

(* What that keeps. *)
LEMMA EntryChanges ==
  ASSUME NEW m, NEW v, NEW D, NEW L, Owned(m, D, L), NEW d \in D, NEW j \in AllPages, NEW p,
         EntrySet(m, v, D, d, j, p), SameRest(m, v),
         \A e \in D, x \in UserPages : (e # d \/ x # j) /\ Ent(m, e, x).pa # 0 =>
             v.data[Ent(m, e, x).pa] = m.data[Ent(m, e, x).pa]
  PROVE  KeptBut(m, v, D, d, {j})
<1>1. ASSUME NEW e \in D, NEW x \in AllPages, ~(e = d /\ x = j) PROVE SameEnt(m, v, e, x)
  <2>1. Ent(v, e, x) = Ent(m, e, x)
    BY <1>1 DEF EntrySet
  <2>2. x \notin UserPages => Ent(m, e, x).pa \notin Frames
    BY OwnFacts, FramesAre
  <2> QED BY <1>1, <2>1, <2>2 DEF SameEnt
<1> QED BY <1>1 DEF KeptBut, EntrySet, SameRest

-----------------------------------------------------------------------------
(* A clean page becomes a table of d. *)
PutTable(m, d, i, f) == SetData(SetPte(m, d, i, [pa |-> f, u |-> TRUE]), f, "0")
LEMMA TablePut ==
  ASSUME NEW m, NEW D, NEW L, Owned(m, D, L), NEW d \in D, NEW i \in 0..NUT, Tab(m, d, i) = 0,
         NEW f \in L, m.tab[f] = Zeroed, NEW v,
         v = PutTable(m, d, i, f)
  PROVE  /\ Owned(v, D, L \ {f}) /\ Kept(m, v, D) /\ v.free = m.free
         /\ Tab(v, d, i) = f
         /\ \A e \in D, x \in AllPages : Ent(v, e, x).pa = Ent(m, e, x).pa
         /\ \A g \in Frames \ {f} : v.data[g] = m.data[g]
<1>0. /\ m \in Memory /\ D \subseteq Frames /\ L \subseteq Frames /\ m.free \subseteq Frames /\ Clean(m)
      /\ D \cap L = {} /\ D \cap m.free = {} /\ L \cap m.free = {}
  BY OwnFacts
<1>1. f \in Frames /\ f \notin D /\ f \notin m.free /\ f # d /\ f # 0 /\ d \in Frames /\ i \in Indices
  BY <1>0, FramesAre, Place
<1>2. PICK p : p = [pa |-> f, u |-> TRUE]
  OBVIOUS
<1>3. p \in Ptes /\ p.pa = f
  BY <1>1, <1>2 DEF Ptes
<1>4. PICK w : w = SetPte(m, d, i, p)
  OBVIOUS
<1>5. /\ w \in Memory /\ w.free = m.free /\ w.data = m.data /\ w.fault = m.fault /\ w.kpgdir = m.kpgdir
      /\ w.tab[d][i] = p
      /\ \A s \in Frames, y \in Indices : s # d \/ y # i => w.tab[s][y] = m.tab[s][y]
      /\ \A s \in Frames : s # d => w.tab[s] = m.tab[s]
  BY <1>0, <1>1, <1>3, <1>4, SetPteIs
<1>6. /\ v \in Memory /\ v.free = m.free /\ v.tab = w.tab /\ v.fault = m.fault /\ v.kpgdir = m.kpgdir
      /\ \A g \in Frames \ {f} : v.data[g] = m.data[g]
  <2>1. v = SetData(w, f, "0") /\ "0" \in Words
    BY <1>2, <1>4 DEF Words, PutTable
  <2>2. PICK z : z = "0"
    OBVIOUS
  <2>3. v = SetData(w, f, z) /\ z \in Words
    BY <2>1, <2>2
  <2>4. w \in Memory
    BY <1>5
  <2>5. /\ v \in Memory /\ v.free = w.free /\ v.tab = w.tab /\ v.fault = w.fault /\ v.kpgdir = w.kpgdir
        /\ \A g \in Frames : g # f => v.data[g] = w.data[g]
    <3>1. f \in Frames
      BY <1>1
    <3>2. /\ SetData(w, f, z) \in Memory
          /\ SetData(w, f, z).free = w.free /\ SetData(w, f, z).tab = w.tab
          /\ SetData(w, f, z).fault = w.fault /\ SetData(w, f, z).kpgdir = w.kpgdir
          /\ \A g \in Frames : g # f => SetData(w, f, z).data[g] = w.data[g]
      BY <2>3, <2>4, <3>1, SetDataIs
    <3> QED BY <2>3, <3>2
  <2> QED BY <1>5, <2>5
<1>7. /\ Tab(v, d, i) = f
      /\ \A e \in D, x \in 0..NUT : e # d \/ x # i => Tab(v, e, x) = Tab(m, e, x)
  <2>1. v.tab[d][i] = p
    BY <1>5, <1>6
  <2>2. \A e \in D, x \in 0..NUT : e # d \/ x # i => v.tab[e][x] = m.tab[e][x]
    BY <1>0, <1>5, <1>6, Place
  <2> QED BY <1>3, <2>1, <2>2 DEF Tab
<1>8. ASSUME NEW e \in D, NEW x \in AllPages PROVE Ent(v, e, x).pa = Ent(m, e, x).pa /\ (Ent(m, e, x).pa # 0 => Ent(v, e, x) = Ent(m, e, x))
  <2>1. Q(x) \in 0..NUT /\ R(x) \in Indices
    BY Place
  <2>2. CASE e = d /\ Q(x) = i
    <3>1. Ent(m, e, x) = NoPte
      BY <2>2, EntIs
    <3>2. Ent(v, e, x) = v.tab[f][R(x)]
      BY <1>1, <1>7, <2>2, EntIs
    <3>3. v.tab[f][R(x)] = NoPte
      <4>1. m.tab[f][R(x)] = NoPte
        BY <2>1, ZeroedIs
      <4>2. v.tab[f][R(x)] = m.tab[f][R(x)]
        BY <1>1, <1>5, <1>6, <2>1
      <4> QED BY <4>1, <4>2
    <3> QED BY <3>1, <3>2, <3>3, ZeroedIs
  <2>3. CASE ~(e = d /\ Q(x) = i)
    <3>1. Tab(v, e, Q(x)) = Tab(m, e, Q(x))
      BY <1>7, <2>1, <2>3
    <3>2. CASE Tab(m, e, Q(x)) = 0
      BY <3>1, <3>2, EntIs
    <3>3. CASE Tab(m, e, Q(x)) # 0
      <4>1. Tab(m, e, Q(x)) \in Frames /\ Tab(m, e, Q(x)) # d
        BY <2>1, <3>3, OwnFacts
      <4>2. v.tab[Tab(m, e, Q(x))] = m.tab[Tab(m, e, Q(x))]
        BY <1>5, <1>6, <4>1
      <4> QED BY <3>1, <3>3, <4>2, EntIs
    <3> QED BY <3>2, <3>3
  <2> QED BY <2>2, <2>3
<1>9. Kept(m, v, D)
  <2>1. ASSUME NEW e \in D, NEW x \in AllPages PROVE SameEnt(m, v, e, x)
    <3>1. Ent(m, e, x).pa \in Frames => Ent(m, e, x).pa # f
      BY <1>1, OwnFacts, FramesAre
    <3> QED BY <1>6, <1>8, <3>1 DEF SameEnt
  <2>2. \A e \in D, x \in 0..NUT : Tab(m, e, x) # 0 => Tab(v, e, x) = Tab(m, e, x)
    BY <1>7
  <2> QED BY <1>6, <2>1, <2>2 DEF Kept, KeptBut
<1>10. Clean(v)
  <2>1. \A g \in m.free : g \in Frames /\ g # d
    BY <1>0
  <2> QED BY <1>0, <1>5, <1>6, <2>1 DEF Clean
<1>11. Relabel(m, v, L, L \ {f}, f, "tab")
  BY <1>1, <1>6 DEF Relabel
<1>12. OnlyMoves(m, v, D, f)
  <2>1. \A e \in D, x \in 0..NUT : Swap(Tab(m, e, x), Tab(v, e, x), f)
    BY <1>7 DEF Swap
  <2>2. UserPages \subseteq AllPages
    BY Place
  <2>3. ASSUME NEW e \in D, NEW x \in AllPages \ UserPages PROVE Ent(v, e, x).pa \in {0, Kernel}
    <3>1. Ent(m, e, x).pa \in {0, Kernel}
      BY OwnFacts
    <3> QED BY <1>8, <3>1
  <2>4. \A e \in D, x \in UserPages : Swap(Ent(m, e, x).pa, Ent(v, e, x).pa, f)
    BY <1>8, <2>2 DEF Swap
  <2> QED BY <2>1, <2>3, <2>4 DEF OnlyMoves
<1>13. Placed(v, D, f, "tab", d, i)
  <2>1. \A e \in D, x \in 0..NUT : Tab(m, e, x) # f
    BY <1>1, OwnFacts
  <2>2. ASSUME NEW e \in D, NEW x \in UserPages PROVE Ent(v, e, x).pa # f
    <3>1. Ent(v, e, x).pa = Ent(m, e, x).pa
      BY <1>8, Place
    <3> QED BY <1>1, <3>1, OwnFacts
  <2> QED BY <1>7, <2>1, <2>2 DEF Placed
<1>14. PICK k, o, n : Own(m, D, L, k, o, n)
  BY DEF Owned
<1>15. d \in Nat /\ i \in Nat
  BY <1>1, FramesAre
<1>16. Owned(v, D, L \ {f})
  BY <1>0, <1>1, <1>6, <1>10, <1>11, <1>12, <1>13, <1>14, <1>15, RoleChanged
<1> QED BY <1>6, <1>7, <1>8, <1>9, <1>16

(* The entry for a page is set, in a table that d has. *)
LEMMA EntryWritten ==
  ASSUME NEW m, NEW D, NEW L, Owned(m, D, L), NEW d \in D, NEW j \in AllPages, Tab(m, d, Q(j)) # 0,
         NEW p \in Ptes, NEW v, v = SetPte(m, Tab(m, d, Q(j)), R(j), p)
  PROVE  /\ v \in Memory /\ v.free = m.free /\ v.data = m.data /\ SameRest(m, v) /\ Clean(v)
         /\ EntrySet(m, v, D, d, j, p) /\ KeptBut(m, v, D, d, {j})
<1>0. /\ m \in Memory /\ D \subseteq Frames /\ m.free \subseteq Frames /\ Clean(m)
  BY OwnFacts
<1>1. Q(j) \in 0..NUT /\ R(j) \in Indices
  BY Place
<1>2. PICK t : t = Tab(m, d, Q(j))
  OBVIOUS
<1>3. t \in Frames /\ t \notin D /\ t \notin m.free
  BY <1>1, <1>2, OwnFacts
<1>4. /\ v \in Memory /\ v.free = m.free /\ v.data = m.data /\ v.fault = m.fault /\ v.kpgdir = m.kpgdir
      /\ v.tab[t][R(j)] = p
      /\ \A s \in Frames, y \in Indices : s # t \/ y # R(j) => v.tab[s][y] = m.tab[s][y]
      /\ \A s \in Frames : s # t => v.tab[s] = m.tab[s]
  BY <1>0, <1>1, <1>2, <1>3, SetPteIs
<1>5. OneSet(m, v, D, d, j, p)
  <2>1. \A e \in D : v.tab[e] = m.tab[e]
    BY <1>0, <1>3, <1>4
  <2>2. ASSUME NEW e \in D, NEW i \in 0..NUT, NEW y \in Indices, Tab(m, e, i) # 0
        PROVE  v.tab[Tab(m, e, i)][y] = IF Tab(m, e, i) = t /\ y = R(j) THEN p ELSE m.tab[Tab(m, e, i)][y]
    <3>1. Tab(m, e, i) \in Frames
      BY <2>2, OwnFacts
    <3> QED BY <1>4, <3>1
  <2> QED BY <1>2, <2>1, <2>2 DEF OneSet
<1>6. EntrySet(m, v, D, d, j, p)
  BY <1>5, EntryIsSet
<1>7. SameRest(m, v)
  BY <1>4 DEF SameRest
<1>8. KeptBut(m, v, D, d, {j})
  BY <1>4, <1>6, <1>7, EntryChanges
<1>9. Clean(v)
  <2>1. \A g \in m.free : g \in Frames /\ g # t
    BY <1>0, <1>3
  <2> QED BY <1>0, <1>4, <2>1 DEF Clean
<1> QED BY <1>4, <1>6, <1>7, <1>8, <1>9

(* A page that a call holds is mapped. *)
LEMMA PagePut ==
  ASSUME NEW m, NEW D, NEW L, Owned(m, D, L), NEW d \in D, NEW j \in UserPages, Tab(m, d, Q(j)) # 0,
         Ent(m, d, j).pa = 0, NEW f \in L, NEW b \in BOOLEAN, NEW v,
         v = SetPte(m, Tab(m, d, Q(j)), R(j), [pa |-> f, u |-> b])
  PROVE  /\ Owned(v, D, L \ {f}) /\ KeptBut(m, v, D, d, {j}) /\ v.free = m.free /\ v.data = m.data
         /\ Ent(v, d, j) = [pa |-> f, u |-> b] /\ \A i \in 0..NUT : Tab(v, d, i) = Tab(m, d, i)
<1>0. /\ m \in Memory /\ D \subseteq Frames /\ L \subseteq Frames /\ D \cap L = {} /\ L \cap m.free = {}
      /\ j \in AllPages /\ UserPages \subseteq AllPages /\ UserPages \subseteq Nat
  <2>1. UserPages \subseteq AllPages /\ AllPages \subseteq Nat
    BY Place
  <2> QED BY <2>1, OwnFacts
<1>1. f \in Frames /\ f \notin D /\ f \notin m.free /\ f # 0 /\ d \in Nat /\ j \in Nat
  BY <1>0, FramesAre
<1>2. PICK p : p = [pa |-> f, u |-> b]
  OBVIOUS
<1>3. p \in Ptes /\ p.pa = f
  BY <1>1, <1>2 DEF Ptes
<1>4. /\ v \in Memory /\ v.free = m.free /\ v.data = m.data /\ SameRest(m, v) /\ Clean(v)
      /\ EntrySet(m, v, D, d, j, p) /\ KeptBut(m, v, D, d, {j})
  BY <1>0, <1>2, <1>3, EntryWritten
<1>5. /\ \A e \in D, i \in 0..NUT : Tab(v, e, i) = Tab(m, e, i)
      /\ Ent(v, d, j) = p
      /\ \A e \in D, x \in AllPages : e # d \/ x # j => Ent(v, e, x) = Ent(m, e, x)
  BY <1>4 DEF EntrySet
<1>6. Relabel(m, v, L, L \ {f}, f, "page")
  BY <1>1, <1>4 DEF Relabel
<1>7. OnlyMoves(m, v, D, f)
  <2>1. \A e \in D, x \in UserPages : Swap(Ent(m, e, x).pa, Ent(v, e, x).pa, f)
    BY <1>0, <1>3, <1>5 DEF Swap
  <2>2. ASSUME NEW e \in D, NEW x \in AllPages \ UserPages PROVE Ent(v, e, x).pa \in {0, Kernel}
    <3>1. Ent(v, e, x) = Ent(m, e, x)
      BY <1>5
    <3> QED BY <3>1, OwnFacts
  <2> QED BY <1>5, <2>1, <2>2 DEF OnlyMoves, Swap
<1>8. Placed(v, D, f, "page", d, j)
  <2>1. \A e \in D, x \in 0..NUT : Tab(v, e, x) # f
    BY <1>1, <1>5, OwnFacts
  <2>2. ASSUME NEW e \in D, NEW x \in UserPages, e # d \/ x # j PROVE Ent(v, e, x).pa # f
    <3>1. Ent(v, e, x) = Ent(m, e, x)
      BY <1>0, <1>5, <2>2
    <3> QED BY <1>1, <3>1, OwnFacts
  <2> QED BY <1>3, <1>5, <2>1, <2>2 DEF Placed
<1>9. PICK k, o, n : Own(m, D, L, k, o, n)
  BY DEF Owned
<1>10. Owned(v, D, L \ {f})
  BY <1>0, <1>1, <1>4, <1>6, <1>7, <1>8, <1>9, RoleChanged
<1> QED BY <1>2, <1>4, <1>5, <1>10

(* A page of the kernel is mapped, or the flag of a page changes. *)
EntryFor(m, d, j, p) == IF j \in UserPages THEN p.pa = Ent(m, d, j).pa ELSE p.pa = Kernel
EntryIs(m, v, D, L, d, j, p) ==
  /\ Owned(v, D, L) /\ KeptBut(m, v, D, d, {j}) /\ v.free = m.free /\ v.data = m.data
  /\ Ent(v, d, j) = p /\ \A i \in 0..NUT : Tab(v, d, i) = Tab(m, d, i)
LEMMA EntryPut ==
  ASSUME NEW m, NEW D, NEW L, Owned(m, D, L), NEW d \in D, NEW j \in AllPages, Tab(m, d, Q(j)) # 0,
         NEW p \in Ptes, EntryFor(m, d, j, p),
         NEW v, v = SetPte(m, Tab(m, d, Q(j)), R(j), p)
  PROVE  EntryIs(m, v, D, L, d, j, p)
<1>1. /\ v \in Memory /\ v.free = m.free /\ v.data = m.data /\ SameRest(m, v) /\ Clean(v)
      /\ EntrySet(m, v, D, d, j, p) /\ KeptBut(m, v, D, d, {j})
  BY EntryWritten
<1>2. /\ \A e \in D, i \in 0..NUT : Tab(v, e, i) = Tab(m, e, i)
      /\ Ent(v, d, j) = p
      /\ \A e \in D, x \in AllPages : e # d \/ x # j => Ent(v, e, x) = Ent(m, e, x)
  BY <1>1 DEF EntrySet
<1>3. UserPages \subseteq AllPages
  BY Place
<1>4. \A e \in D, x \in UserPages : Ent(v, e, x).pa = Ent(m, e, x).pa
  BY <1>2, <1>3 DEF EntryFor
<1>5. ASSUME NEW e \in D, NEW x \in AllPages \ UserPages PROVE Ent(v, e, x).pa \in {0, Kernel}
  <2>1. Ent(m, e, x).pa \in {0, Kernel}
    BY OwnFacts
  <2> QED BY <1>2, <2>1 DEF EntryFor
<1>6. SameRoles(m, v, D)
  BY <1>1, <1>2, <1>4, <1>5 DEF SameRoles
<1>7. Owned(v, D, L)
  BY <1>1, <1>6, RolesStay
<1> QED BY <1>1, <1>2, <1>7 DEF EntryIs

-----------------------------------------------------------------------------
(* A page is taken out of its table and freed, as in deallocuvm. *)
LEMMA PageGone ==
  ASSUME NEW m, NEW D, NEW L, Owned(m, D, L), NEW d \in D, NEW j \in UserPages,
         Ent(m, d, j).pa # 0, NEW v,
         v = SetPte(kfree(m, Ent(m, d, j).pa), Tab(m, d, Q(j)), R(j), NoPte)
  PROVE  Owned(v, D, L) /\ KeptBut(m, v, D, d, {j}) /\ Ent(v, d, j) = NoPte
<1>0. /\ m \in Memory /\ D \subseteq Frames /\ L \subseteq Frames /\ m.free \subseteq Frames /\ Clean(m)
      /\ D \cap m.free = {}
  BY OwnFacts
<1>1. j \in AllPages /\ Q(j) \in 0..NUT /\ R(j) \in Indices /\ UserPages \subseteq AllPages
  BY Place
<1>2. PICK t : t = Tab(m, d, Q(j))
  OBVIOUS
<1>3. PICK f : f = Ent(m, d, j).pa
  OBVIOUS
<1>4. t # 0
  BY <1>2, EntIs, ZeroedIs
<1>5. f \in Frames /\ f \notin D /\ f \notin L /\ f \notin m.free /\ f # 0
  BY <1>3, OwnFacts
<1>6. t \in Frames /\ t \notin D /\ t \notin m.free /\ t # f
  BY <1>1, <1>2, <1>3, <1>4, OwnFacts
<1>7. PICK w : w = kfree(m, f)
  OBVIOUS
<1>8. /\ w \in Memory /\ w.free = m.free \cup {f} /\ w.tab[f] = Zeroed
      /\ \A g \in Frames : g # f => w.tab[g] = m.tab[g] /\ w.data[g] = m.data[g]
      /\ w.fault = m.fault /\ w.kpgdir = m.kpgdir
  BY <1>0, <1>5, <1>7, KfreeSets
<1>9. /\ v \in Memory /\ v.free = w.free /\ v.data = w.data /\ v.fault = w.fault /\ v.kpgdir = w.kpgdir
      /\ v.tab[t][R(j)] = NoPte
      /\ \A s \in Frames, y \in Indices : s # t \/ y # R(j) => v.tab[s][y] = w.tab[s][y]
      /\ \A s \in Frames : s # t => v.tab[s] = w.tab[s]
  <2>1. v = SetPte(w, t, R(j), NoPte) /\ w \in Memory /\ NoPte \in Ptes
    BY <1>2, <1>3, <1>7, <1>8, ZeroedIs
  <2> QED BY <1>1, <1>6, <2>1, SetPteIs
<1>10. OneSet(m, v, D, d, j, NoPte)
  <2>1. \A e \in D : v.tab[e] = m.tab[e]
    BY <1>0, <1>5, <1>6, <1>8, <1>9
  <2>2. ASSUME NEW e \in D, NEW i \in 0..NUT, NEW y \in Indices, Tab(m, e, i) # 0
        PROVE  v.tab[Tab(m, e, i)][y] = IF Tab(m, e, i) = t /\ y = R(j) THEN NoPte ELSE m.tab[Tab(m, e, i)][y]
    <3>1. Tab(m, e, i) \in Frames /\ Tab(m, e, i) # f
      BY <1>3, <2>2, OwnFacts
    <3> QED BY <1>8, <1>9, <3>1
  <2> QED BY <1>2, <2>1, <2>2 DEF OneSet
<1>11. EntrySet(m, v, D, d, j, NoPte)
  BY <1>1, <1>2, <1>4, <1>10, EntryIsSet
<1>12. /\ \A e \in D, i \in 0..NUT : Tab(v, e, i) = Tab(m, e, i)
      /\ Ent(v, d, j) = NoPte
      /\ \A e \in D, x \in AllPages : e # d \/ x # j => Ent(v, e, x) = Ent(m, e, x)
  BY <1>11 DEF EntrySet
<1>13. \A e \in D, x \in UserPages : (e # d \/ x # j) /\ Ent(m, e, x).pa # 0 =>
             Ent(m, e, x).pa \in Frames /\ Ent(m, e, x).pa # f
  BY <1>3, OwnFacts
<1>14. KeptBut(m, v, D, d, {j})
  <2>1. \A e \in D, x \in UserPages : (e # d \/ x # j) /\ Ent(m, e, x).pa # 0 =>
             v.data[Ent(m, e, x).pa] = m.data[Ent(m, e, x).pa]
    BY <1>8, <1>9, <1>13
  <2>2. SameRest(m, v)
    BY <1>8, <1>9 DEF SameRest
  <2> QED BY <1>1, <1>11, <2>1, <2>2, EntryChanges
<1>15. Clean(v)
  <2>1. \A g \in v.free : g \in Frames /\ g # t /\ w.tab[g] = Zeroed
    BY <1>0, <1>5, <1>6, <1>8, <1>9 DEF Clean
  <2> QED BY <1>9, <2>1 DEF Clean
<1>16. Relabel(m, v, L, L, f, "free")
  BY <1>5, <1>8, <1>9 DEF Relabel
<1>17. OnlyMoves(m, v, D, f)
  <2>1. \A e \in D, x \in UserPages : Swap(Ent(m, e, x).pa, Ent(v, e, x).pa, f)
    BY <1>1, <1>3, <1>12, ZeroedIs DEF Swap
  <2>2. ASSUME NEW e \in D, NEW x \in AllPages \ UserPages PROVE Ent(v, e, x).pa \in {0, Kernel}
    <3>1. Ent(v, e, x) = Ent(m, e, x)
      BY <1>12
    <3> QED BY <3>1, OwnFacts
  <2> QED BY <1>12, <2>1, <2>2 DEF OnlyMoves, Swap
<1>18. Placed(v, D, f, "free", 0, 0)
  <2>1. \A e \in D, x \in 0..NUT : Tab(v, e, x) # f
    BY <1>3, <1>5, <1>12, OwnFacts
  <2>2. ASSUME NEW e \in D, NEW x \in UserPages PROVE Ent(v, e, x).pa # f
    BY <1>1, <1>5, <1>12, <1>13, ZeroedIs
  <2> QED BY <2>1, <2>2 DEF Placed
<1>19. PICK k, o, n : Own(m, D, L, k, o, n)
  BY DEF Owned
<1>20. Owned(v, D, L)
  BY <1>0, <1>5, <1>9, <1>15, <1>16, <1>17, <1>18, <1>19, RoleChanged
<1> QED BY <1>12, <1>14, <1>20

(* walkpgdir finds the table for a page, or makes it. *)
Walked(m, D, L, d, j, w) ==
  \/ w.t = 0 /\ w.m = m /\ m.free = {} /\ Tab(m, d, Q(j)) = 0
  \/ /\ w.t # 0 /\ w.t = Tab(w.m, d, Q(j)) /\ Owned(w.m, D, L) /\ Kept(m, w.m, D)
     /\ \A e \in D, x \in AllPages : Ent(w.m, e, x).pa = Ent(m, e, x).pa
     /\ \A g \in Frames \ m.free : w.m.data[g] = m.data[g]
     /\ \/ Tab(m, d, Q(j)) # 0 /\ w.m.free = m.free
        \/ Tab(m, d, Q(j)) = 0 /\ \E f \in m.free : w.m.free = m.free \ {f}
LEMMA WalkIs ==
  ASSUME NEW m, NEW D, NEW L, Owned(m, D, L), NEW d \in D, NEW j \in AllPages
  PROVE  Walked(m, D, L, d, j, walkpgdir(m, d, j * PGSIZE, TRUE))
<1>0. Q(j) \in 0..NUT /\ Q(j) = PDX(j * PGSIZE)
  BY Place DEF Q
<1>1. PICK w : w = walkpgdir(m, d, j * PGSIZE, TRUE)
  OBVIOUS
<1> SUFFICES Walked(m, D, L, d, j, w)
  BY <1>1
<1>2. CASE Tab(m, d, Q(j)) # 0
  <2>1. w = [m |-> m, t |-> Tab(m, d, Q(j))]
    BY <1>0, <1>1, <1>2 DEF walkpgdir, Tab
  <2>2. Kept(m, m, D)
    BY AllKept
  <2>3. w.m = m /\ w.t = Tab(m, d, Q(j))
    BY <2>1
  <2> QED BY <1>2, <2>2, <2>3 DEF Walked
<1>3. CASE Tab(m, d, Q(j)) = 0
  <2>0. PICK n : n = kalloc(m)
    OBVIOUS
  <2>1. w = IF n.f = 0 THEN [m |-> m, t |-> 0]
            ELSE [m |-> [n.m EXCEPT !.tab[d][Q(j)] = [pa |-> n.f, u |-> TRUE], !.data[n.f] = "0"], t |-> n.f]
    BY <1>0, <1>1, <1>3, <2>0 DEF walkpgdir, Tab
  <2>2. CASE m.free = {} /\ n.m = m /\ n.f = 0
    <3>1. w.m = m /\ w.t = 0
      BY <2>1, <2>2
    <3> QED BY <1>3, <2>2, <3>1 DEF Walked
  <2>3. CASE /\ n.f \in m.free /\ n.f \in Frames \ (D \cup L)
             /\ n.m.free = m.free \ {n.f}
             /\ n.m.tab = m.tab /\ m.tab[n.f] = Zeroed
             /\ Owned(n.m, D, L \cup {n.f})
             /\ Kept(m, n.m, D)
    <3>1. PICK f : f = n.f
      OBVIOUS
    <3>2. f \in m.free /\ f \in Frames /\ f # 0 /\ f \notin L
      BY <2>3, <3>1, FramesAre
    <3>3. PICK a : a = n.m
      OBVIOUS
    <3>4. PICK K : K = L \cup {f}
      OBVIOUS
    <3>5. /\ a.free = m.free \ {f} /\ a.tab = m.tab /\ a.tab[f] = Zeroed /\ Owned(a, D, K)
          /\ Kept(m, a, D) /\ f \in K /\ K \ {f} = L
      BY <2>3, <3>1, <3>2, <3>3, <3>4
    <3>6. PICK v : v = PutTable(a, d, Q(j), f)
      OBVIOUS
    <3>7. w.m = v /\ w.t = f
      <4>1. a \in Memory
        BY <3>5 DEF Owned
      <4>2. w = [m |-> [a EXCEPT !.tab[d][Q(j)] = [pa |-> f, u |-> TRUE], !.data[f] = "0"], t |-> f]
        BY <2>1, <3>1, <3>2, <3>3
      <4>3. [a EXCEPT !.tab[d][Q(j)] = [pa |-> f, u |-> TRUE], !.data[f] = "0"] = v
        <5>1. PICK p : p = [pa |-> f, u |-> TRUE]
          OBVIOUS
        <5>2. [a EXCEPT !.tab[d][Q(j)] = p, !.data[f] = "0"] = SetData(SetPte(a, d, Q(j), p), f, "0")
          BY <4>1 DEF SetData, SetPte, Memory
        <5> QED BY <3>6, <5>1, <5>2 DEF PutTable
      <4> QED BY <4>2, <4>3
    <3>8. Tab(a, d, Q(j)) = 0
      BY <1>3, <3>5 DEF Tab
    <3>9. /\ Owned(v, D, K \ {f}) /\ Kept(a, v, D) /\ v.free = a.free
          /\ Tab(v, d, Q(j)) = f
          /\ \A e \in D, x \in AllPages : Ent(v, e, x).pa = Ent(a, e, x).pa
          /\ \A g \in Frames \ {f} : v.data[g] = a.data[g]
      BY <1>0, <3>5, <3>6, <3>8, TablePut
    <3>10. \A e \in D, x \in AllPages : Ent(a, e, x).pa = Ent(m, e, x).pa
      BY <3>5 DEF Ent, Pte
    <3>11. a.data = m.data
      BY <2>0, <3>2, <3>3 DEF kalloc
    <3>12. Kept(m, v, D)
      BY <3>5, <3>9, AllKept
    <3>13. \A g \in Frames \ m.free : v.data[g] = m.data[g]
      BY <3>2, <3>9, <3>11
    <3>14. Owned(v, D, L)
      BY <3>5, <3>9
    <3>15. \E g \in m.free : v.free = m.free \ {g}
      BY <3>2, <3>5, <3>9
    <3>16. \A e \in D, x \in AllPages : Ent(v, e, x).pa = Ent(m, e, x).pa
      BY <3>9, <3>10
    <3> QED BY <1>3, <3>2, <3>7, <3>9, <3>12, <3>13, <3>14, <3>15, <3>16 DEF Walked
  <2> QED BY <2>0, <2>2, <2>3, KallocIs
<1> QED BY <1>2, <1>3

-----------------------------------------------------------------------------
(* mappages of one page: what it takes, and when it fails. *)
Fewer(m, v, d, j) ==
  \/ Tab(m, d, Q(j)) # 0 /\ v.free = m.free
  \/ Tab(m, d, Q(j)) = 0 /\ \E g \in m.free : v.free = m.free \ {g}
NoTable(m, d, j, x) == ~x.ok /\ x.m = m /\ m.free = {} /\ Tab(m, d, Q(j)) = 0
Written(m, D, L, d, j, pa, b, x) ==
  \E w : /\ x.ok /\ x.m = SetPte(w, Tab(w, d, Q(j)), R(j), [pa |-> pa, u |-> b])
         /\ Tab(w, d, Q(j)) # 0 /\ Owned(w, D, L) /\ Kept(m, w, D) /\ Fewer(m, w, d, j)
         /\ Ent(w, d, j).pa = 0 /\ \A g \in Frames \ m.free : w.data[g] = m.data[g]

(* What mappages does once there is a table. *)
LEMMA MapIs ==
  ASSUME NEW m, NEW D, NEW L, Owned(m, D, L), NEW d \in D, NEW j \in AllPages, Ent(m, d, j).pa = 0,
         NEW pa, NEW b, NEW x, x = mappages(m, d, j * PGSIZE, pa, b)
  PROVE  \/ NoTable(m, d, j, x)
         \/ Written(m, D, L, d, j, pa, b, x)
<1>1. PICK w : w = walkpgdir(m, d, j * PGSIZE, TRUE)
  OBVIOUS
<1>2. Walked(m, D, L, d, j, w)
  BY <1>1, WalkIs
<1>3. x = IF w.t = 0 THEN [m |-> w.m, ok |-> FALSE]
          ELSE IF w.m.tab[w.t][R(j)].pa # 0 THEN [m |-> kpanic(w.m, "remap"), ok |-> FALSE]
          ELSE [m |-> SetPte(w.m, w.t, R(j), [pa |-> pa, u |-> b]), ok |-> TRUE]
  BY <1>1 DEF mappages, SetPte, R
<1>4. CASE w.t = 0
  <2>1. x.m = w.m /\ x.ok = FALSE
    BY <1>3, <1>4
  <2> QED BY <1>2, <1>4, <2>1 DEF Walked, NoTable
<1>5. CASE w.t # 0
  <2>1. /\ w.t = Tab(w.m, d, Q(j)) /\ Owned(w.m, D, L) /\ Kept(m, w.m, D)
        /\ Ent(w.m, d, j).pa = 0 /\ \A g \in Frames \ m.free : w.m.data[g] = m.data[g]
        /\ Fewer(m, w.m, d, j)
    BY <1>2, <1>5 DEF Walked, Fewer
  <2>2. Ent(w.m, d, j) = w.m.tab[w.t][R(j)]
    BY <1>5, <2>1, EntIs
  <2>3. x = [m |-> SetPte(w.m, w.t, R(j), [pa |-> pa, u |-> b]), ok |-> TRUE]
    BY <1>3, <1>5, <2>1, <2>2
  <2>4. x.ok /\ x.m = SetPte(w.m, w.t, R(j), [pa |-> pa, u |-> b])
    BY <2>3
  <2> QED BY <1>5, <2>1, <2>4 DEF Written
<1> QED BY <1>4, <1>5

(* A page for the user. *)
UserMapped(m, D, L, d, j, f, b, x) ==
  /\ x.ok /\ Owned(x.m, D, L \ {f}) /\ KeptBut(m, x.m, D, d, {j})
  /\ Ent(x.m, d, j) = [pa |-> f, u |-> b] /\ x.m.data[f] = m.data[f]
  /\ Fewer(m, x.m, d, j)
LEMMA MapUser ==
  ASSUME NEW m, NEW D, NEW L, Owned(m, D, L), NEW d \in D, NEW j \in UserPages, Ent(m, d, j).pa = 0,
         NEW f \in L, NEW b \in BOOLEAN, NEW x, x = mappages(m, d, j * PGSIZE, f, b)
  PROVE  \/ NoTable(m, d, j, x)
         \/ UserMapped(m, D, L, d, j, f, b, x)
<1>0. j \in AllPages /\ f \in Frames /\ f \notin m.free
  <2>1. L \subseteq Frames /\ L \cap m.free = {}
    BY OwnFacts
  <2> QED BY <2>1, Place
<1>1. CASE NoTable(m, d, j, x)
  BY <1>1
<1>2. CASE ~NoTable(m, d, j, x)
  <2>1. PICK w : /\ x.ok /\ x.m = SetPte(w, Tab(w, d, Q(j)), R(j), [pa |-> f, u |-> b])
                 /\ Tab(w, d, Q(j)) # 0 /\ Owned(w, D, L) /\ Kept(m, w, D) /\ Fewer(m, w, d, j)
                 /\ Ent(w, d, j).pa = 0 /\ \A g \in Frames \ m.free : w.data[g] = m.data[g]
    BY <1>0, <1>2, MapIs DEF Written
  <2>2. PICK v : v = x.m
    OBVIOUS
  <2>3. /\ Owned(v, D, L \ {f}) /\ KeptBut(w, v, D, d, {j}) /\ v.free = w.free /\ v.data = w.data
        /\ Ent(v, d, j) = [pa |-> f, u |-> b]
    <3>1. v = SetPte(w, Tab(w, d, Q(j)), R(j), [pa |-> f, u |-> b])
      BY <2>1, <2>2
    <3>2. Tab(w, d, Q(j)) # 0 /\ Owned(w, D, L) /\ Ent(w, d, j).pa = 0
      BY <2>1
    <3> QED BY <3>1, <3>2, PagePut
  <2>4. KeptBut(m, w, D, d, {j})
    BY <2>1 DEF Kept
  <2>5. KeptBut(m, v, D, d, {j})
    BY <2>3, <2>4, KeptTrans
  <2>6. Fewer(m, v, d, j)
    BY <2>1, <2>3 DEF Fewer
  <2>7. v.data[f] = m.data[f]
    BY <1>0, <2>1, <2>3
  <2> QED BY <2>1, <2>2, <2>3, <2>5, <2>6, <2>7 DEF UserMapped
<1> QED BY <1>1, <1>2

(* A page for the kernel. *)
LEMMA MapKernel ==
  ASSUME NEW m, NEW D, NEW L, Owned(m, D, L), NEW d \in D, NEW j \in AllPages \ UserPages,
         Ent(m, d, j).pa = 0, NEW x, x = mappages(m, d, j * PGSIZE, Kernel, FALSE)
  PROVE  \/ NoTable(m, d, j, x)
         \/ /\ x.ok /\ Owned(x.m, D, L) /\ KeptBut(m, x.m, D, d, {j})
            /\ Ent(x.m, d, j) = [pa |-> Kernel, u |-> FALSE]
            /\ Tab(x.m, d, Q(j)) # 0 /\ Fewer(m, x.m, d, j)
<1>1. CASE NoTable(m, d, j, x)
  BY <1>1
<1>2. CASE ~NoTable(m, d, j, x)
  <2>0. PICK p : p = [pa |-> Kernel, u |-> FALSE]
    OBVIOUS
  <2>1. PICK w : /\ x.ok /\ x.m = SetPte(w, Tab(w, d, Q(j)), R(j), p)
                 /\ Tab(w, d, Q(j)) # 0 /\ Owned(w, D, L) /\ Kept(m, w, D) /\ Fewer(m, w, d, j)
    <3>1. j \in AllPages
      OBVIOUS
    <3>2. Written(m, D, L, d, j, Kernel, FALSE, x)
      BY <1>2, <3>1, MapIs
    <3> QED BY <2>0, <3>2 DEF Written
  <2>2. PICK v : v = x.m
    OBVIOUS
  <2>3. p \in Ptes /\ p.pa = Kernel /\ Q(j) \in 0..NUT
    BY <2>0, Place DEF Ptes
  <2>4. /\ Owned(v, D, L) /\ KeptBut(w, v, D, d, {j}) /\ v.free = w.free
        /\ Ent(v, d, j) = p /\ \A i \in 0..NUT : Tab(v, d, i) = Tab(w, d, i)
    <3>1. v = SetPte(w, Tab(w, d, Q(j)), R(j), p)
      BY <2>1, <2>2
    <3>2. Tab(w, d, Q(j)) # 0 /\ Owned(w, D, L)
      BY <2>1
    <3>3. EntryFor(w, d, j, p)
      BY <2>3 DEF EntryFor
    <3>4. EntryIs(w, v, D, L, d, j, p)
      BY <2>3, <3>1, <3>2, <3>3, EntryPut
    <3> QED BY <3>4 DEF EntryIs
  <2>5. KeptBut(m, w, D, d, {j})
    BY <2>1 DEF Kept
  <2>6. KeptBut(m, v, D, d, {j})
    BY <2>4, <2>5, KeptTrans
  <2>7. Fewer(m, v, d, j)
    BY <2>1, <2>4 DEF Fewer
  <2> QED BY <2>0, <2>1, <2>2, <2>3, <2>4, <2>6, <2>7
<1> QED BY <1>1, <1>2

-----------------------------------------------------------------------------
(* deallocuvm, one page. *)
DropPage(v, d, j) ==
  IF Ent(v, d, j).pa = 0 THEN v
  ELSE [kfree(v, Ent(v, d, j).pa) EXCEPT !.tab[Tab(v, d, Q(j))][R(j)] = NoPte]
LEMMA PageDropped ==
  ASSUME NEW m, NEW D, NEW L, Owned(m, D, L), NEW d \in D, NEW j \in UserPages
  PROVE  /\ Owned(DropPage(m, d, j), D, L) /\ KeptBut(m, DropPage(m, d, j), D, d, {j})
         /\ Ent(DropPage(m, d, j), d, j).pa = 0
<1>1. CASE Ent(m, d, j).pa = 0
  <2>1. Kept(m, m, D)
    BY AllKept
  <2> QED BY <1>1, <2>1 DEF DropPage, Kept
<1>2. CASE Ent(m, d, j).pa # 0
  <2>1. DropPage(m, d, j) = SetPte(kfree(m, Ent(m, d, j).pa), Tab(m, d, Q(j)), R(j), NoPte)
    BY <1>2 DEF DropPage, SetPte
  <2> QED BY <1>2, <2>1, PageGone, ZeroedIs
<1> QED BY <1>1, <1>2

(* deallocuvm drops the pages from the new size to the old one. *)
Dropped(m, v, D, L, d, lo, hi) ==
  /\ Owned(v, D, L) /\ KeptBut(m, v, D, d, lo..hi)
  /\ \A j \in lo..hi : Ent(v, d, j).pa = 0
LEMMA DropLoop ==
  ASSUME NEW m, NEW D, NEW L, Owned(m, D, L), NEW d \in D, NEW lo \in Nat, NEW hi \in Int,
         lo <= hi, lo..hi \subseteq UserPages, NEW g,
         g = (CHOOSE D0 : D0 = [j \in lo - 1..hi |-> IF j < lo THEN m ELSE DropPage(D0[j - 1], d, j)])[hi]
  PROVE  Dropped(m, g, D, L, d, lo, hi)
<1> DEFINE a == lo - 1
           E(f) == f = [j \in a..hi |-> IF j < lo THEN m ELSE DropPage(f[j - 1], d, j)]
           Good(v, n) == /\ Owned(v, D, L) /\ KeptBut(m, v, D, d, lo..hi)
                         /\ \A j \in lo..n : Ent(v, d, j).pa = 0
           I == [n \in a..hi |-> {v \in Memory : Good(v, n)}]
           G == [n \in lo..hi |-> [v \in I[n - 1] |-> DropPage(v, d, n)]]
<1>0. a \in Int /\ a <= hi /\ a + 1 = lo /\ (\A n \in lo..hi : n - 1 \in a..hi /\ n \in a..hi /\ ~(n < lo))
      /\ a \in a..hi /\ a < lo /\ hi \in lo..hi /\ hi \in a..hi
  OBVIOUS
<1>1. Good(m, a)
  <2>1. Kept(m, m, D)
    BY AllKept
  <2> QED BY <2>1 DEF Kept
<1>2. ASSUME NEW n \in lo..hi, NEW v, Good(v, n - 1) PROVE Good(DropPage(v, d, n), n)
  <2>1. PICK w : w = DropPage(v, d, n)
    OBVIOUS
  <2>2. n \in UserPages /\ n \in AllPages /\ UserPages \subseteq AllPages
    BY Place
  <2>3. Owned(w, D, L) /\ KeptBut(v, w, D, d, {n}) /\ Ent(w, d, n).pa = 0
    BY <1>2, <2>1, <2>2, PageDropped
  <2>4. KeptBut(v, w, D, d, lo..hi)
    <3>1. {n} \subseteq lo..hi
      OBVIOUS
    <3> QED BY <2>3, <3>1, AllKept
  <2>5. KeptBut(m, w, D, d, lo..hi)
    BY <1>2, <2>4, KeptTrans
  <2>6. ASSUME NEW j \in lo..n PROVE Ent(w, d, j).pa = 0
    <3>1. CASE j = n
      BY <2>3, <3>1
    <3>2. CASE j # n
      <4>1. j \in lo..n - 1 /\ j \in AllPages
        BY <2>2, <3>2
      <4>2. SameEnt(v, w, d, j) /\ Ent(v, d, j).pa = 0
        BY <1>2, <2>3, <3>2, <4>1 DEF KeptBut
      <4> QED BY <4>2 DEF SameEnt
    <3> QED BY <3>1, <3>2
  <2> QED BY <2>1, <2>3, <2>5, <2>6
<1>3. \A v, n : Good(v, n) => v \in Memory
  BY DEF Owned
<1> HIDE DEF Good
<1>4. LoopSteps(a, hi, m, G, I)
  <2>1. m \in I[a]
    BY <1>0, <1>1, <1>3
  <2>2. ASSUME NEW n \in lo..hi, NEW s \in I[n - 1] PROVE G[n][s] \in I[n]
    <3>1. Good(s, n - 1) /\ G[n][s] = DropPage(s, d, n)
      BY <1>0
    <3> QED BY <1>0, <1>2, <1>3, <3>1
  <2> HIDE DEF I, G
  <2> QED BY <1>0, <2>1, <2>2 DEF LoopSteps
<1>5. PICK f : /\ f = [n \in a..hi |-> f[n]] /\ f[a] = m
                /\ \A n \in a + 1..hi : f[n - 1] \in I[n - 1] /\ f[n] = G[n][f[n - 1]]
  <2>1. a \in Int /\ a <= hi
    BY <1>0
  <2> HIDE DEF I, G, a
  <2>2. PICK e : LoopOf(e, a, hi, m, G, I)
    BY <1>4, <2>1, LoopExists
  <2> QED BY <2>2 DEF LoopOf
<1>6. E(f)
  <2>1. ASSUME NEW n \in a..hi PROVE f[n] = IF n < lo THEN m ELSE DropPage(f[n - 1], d, n)
    <3>1. CASE n = a
      BY <1>0, <1>5, <3>1
    <3>2. CASE n # a
      <4>1. n \in lo..hi /\ n \in a + 1..hi
        BY <3>2
      <4>2. f[n - 1] \in I[n - 1] /\ f[n] = G[n][f[n - 1]]
        BY <1>5, <4>1
      <4> QED BY <1>0, <4>1, <4>2
    <3> QED BY <3>1, <3>2
  <2> QED BY <1>5, <2>1
<1>7. PICK e : e = CHOOSE f0 : E(f0)
  OBVIOUS
<1>8. E(e)
  <2> HIDE DEF E
  <2> QED BY <1>6, <1>7, Zenon
<1>9. g = e[hi]
  BY <1>7
<1>10. LoopRuns(e, a, hi, m, G, I)
  <2>1. e[a] = m
    BY <1>0, <1>8
  <2>2. ASSUME NEW n \in a + 1..hi, e[n - 1] \in I[n - 1] PROVE e[n] = G[n][e[n - 1]]
    <3>1. n \in lo..hi
      BY <1>0
    <3>2. e[n] = DropPage(e[n - 1], d, n)
      BY <1>0, <1>8, <3>1
    <3> QED BY <2>2, <3>1, <3>2
  <2> QED BY <2>1, <2>2 DEF LoopRuns
<1>11. e[hi] \in I[hi]
  <2>1. a \in Int /\ a <= hi /\ hi \in a..hi
    BY <1>0
  <2> HIDE DEF I, G, E, a
  <2> QED BY <1>4, <1>10, <2>1, LoopHolds
<1>12. Good(e[hi], hi)
  BY <1>0, <1>11
<1> QED BY <1>9, <1>12 DEF Good, Dropped

(* deallocuvm, all pages. *)
DropPages(m, d, first, last) ==
  LET D0[j \in first - 1..last] == IF j < first THEN m ELSE DropPage(D0[j - 1], d, j)
  IN  IF last < first THEN m ELSE D0[last]
LEMMA DeallocIs ==
  ASSUME NEW m, NEW D, NEW L, Owned(m, D, L), NEW d \in D, NEW a \in Nat, NEW b \in Nat,
         b < a, a <= KERNBASE, NEW r, r = deallocuvm(m, d, a, b)
  PROVE  r.sz = b /\ Dropped(m, r.m, D, L, d, NPages(b), NPages(a) - 1)
<1>1. PICK lo, hi : lo = NPages(b) /\ hi = NPages(a) - 1
  OBVIOUS
<1>2. /\ lo \in Nat /\ hi \in Int /\ PGROUNDUP(b) \div PGSIZE = lo /\ (a - 1) \div PGSIZE = hi
  BY <1>1, PagesOf DEF NPages
<1>3. lo..hi \subseteq UserPages
  <2>1. KERNBASE \in Nat /\ NPages(KERNBASE) = NUT * NPT /\ NUT * NPT \in Nat
    BY KernelBase, VmSizes
  <2>2. NPages(a) <= NPages(KERNBASE) /\ NPages(a) \in Nat
    BY <2>1, PagesGrow, PagesOf
  <2> QED BY <1>1, <1>2, <2>1, <2>2 DEF UserPages
<1>4. r = [m |-> DropPages(m, d, lo, hi), sz |-> b]
  <2>1. ~(b >= a)
    OBVIOUS
  <2>2. r = [m |-> DropPages(m, d, PGROUNDUP(b) \div PGSIZE, (a - 1) \div PGSIZE), sz |-> b]
    BY <2>1 DEF deallocuvm, DropPages, DropPage, Ent, Tab, Q, R
  <2> QED BY <1>2, <2>2
<1>5. CASE hi < lo
  <2>1. r.m = m /\ r.sz = b
    BY <1>4, <1>5 DEF DropPages
  <2>2. Kept(m, m, D)
    BY AllKept
  <2>3. lo..hi = {}
    BY <1>2, <1>5
  <2> QED BY <1>1, <2>1, <2>2, <2>3 DEF Dropped, Kept
<1>6. CASE lo <= hi
  <2>1. r.m = (CHOOSE D0 : D0 = [j \in lo - 1..hi |-> IF j < lo THEN m ELSE DropPage(D0[j - 1], d, j)])[hi]
        /\ r.sz = b
    BY <1>2, <1>4, <1>6 DEF DropPages
  <2>2. PICK g : g = r.m
    OBVIOUS
  <2>3. Dropped(m, g, D, L, d, lo, hi)
    BY <1>2, <1>3, <1>6, <2>1, <2>2, DropLoop
  <2> QED BY <1>1, <2>1, <2>2, <2>3
<1> QED BY <1>2, <1>5, <1>6

-----------------------------------------------------------------------------
(* Pages that are freed at the end of freevm. *)
Freed(m, v, S) ==
  /\ v \in Memory /\ v.free = m.free \cup S /\ v.fault = m.fault /\ v.kpgdir = m.kpgdir
  /\ \A g \in S : v.tab[g] = Zeroed
  /\ \A g \in Frames \ S : v.tab[g] = m.tab[g] /\ v.data[g] = m.data[g]
LEMMA OneMoreFreed ==
  ASSUME NEW m, NEW v, NEW S, Freed(m, v, S), NEW f \in Frames, f \notin v.free
  PROVE  Freed(m, kfree(v, f), S \cup {f})
<1>1. v \in Memory
  BY DEF Freed
<1>2. /\ kfree(v, f) \in Memory /\ kfree(v, f).free = v.free \cup {f}
      /\ kfree(v, f).tab[f] = Zeroed
      /\ \A g \in Frames : g # f => kfree(v, f).tab[g] = v.tab[g] /\ kfree(v, f).data[g] = v.data[g]
      /\ kfree(v, f).fault = v.fault /\ kfree(v, f).kpgdir = v.kpgdir
  BY <1>1, KfreeSets
<1>3. v.free \subseteq Frames /\ S \subseteq v.free
  BY <1>1, MemoryIs DEF Freed
<1>4. \A g \in S : g \in Frames /\ g # f
  BY <1>3
<1> QED BY <1>2, <1>4 DEF Freed

(* The tables of d, up to number i. *)
TabsOf(m, d, i) == {Tab(m, d, x) : x \in 0..i} \ {0}
DropTab(w, t) == IF t = 0 THEN w ELSE kfree(w, t)
LEMMA TablesLoop ==
  ASSUME NEW m, NEW D, NEW L, Owned(m, D, L), NEW d \in D, NEW g,
         g = (CHOOSE F : F = [i \in -1..NUT |-> IF i = -1 THEN m ELSE DropTab(F[i - 1], Tab(m, d, i))])[NUT]
  PROVE  Freed(m, g, TabsOf(m, d, NUT))
<1> DEFINE a == -1
           E(f) == f = [i \in a..NUT |-> IF i = -1 THEN m ELSE DropTab(f[i - 1], Tab(m, d, i))]
           Good(v, n) == Freed(m, v, TabsOf(m, d, n))
           I == [n \in a..NUT |-> {v \in Memory : Good(v, n)}]
           G == [n \in 0..NUT |-> [v \in I[n - 1] |-> DropTab(v, Tab(m, d, n))]]
<1>0. a \in Int /\ NUT \in Int /\ a <= NUT /\ a + 1 = 0 /\ (\A n \in 0..NUT : n - 1 \in a..NUT /\ n \in a..NUT /\ n # -1)
      /\ a \in a..NUT /\ a = -1 /\ NUT \in 0..NUT /\ NUT \in a..NUT
  BY VmSizes
<1>1. Good(m, a)
  <2>1. TabsOf(m, d, a) = {}
    BY DEF TabsOf
  <2>2. m \in Memory
    BY DEF Owned
  <2> QED BY <2>1, <2>2 DEF Freed
<1>2. ASSUME NEW n \in 0..NUT, NEW v, Good(v, n - 1) PROVE Good(DropTab(v, Tab(m, d, n)), n)
  <2>1. PICK t : t = Tab(m, d, n)
    OBVIOUS
  <2>2. \A x : x \in 0..n <=> x \in 0..n - 1 \/ x = n
    OBVIOUS
  <2>3. TabsOf(m, d, n) = TabsOf(m, d, n - 1) \cup ({t} \ {0})
    BY <2>1, <2>2 DEF TabsOf
  <2>4. CASE t = 0
    BY <1>2, <2>1, <2>3, <2>4 DEF DropTab
  <2>5. CASE t # 0
    <3>1. t \in Frames /\ t \notin m.free /\ t \notin TabsOf(m, d, n - 1)
      <4>1. t \in Frames /\ t \notin m.free
        BY <2>1, <2>5, OwnFacts
      <4>2. \A x \in 0..n - 1 : x \in 0..NUT /\ x # n
        BY <1>0
      <4>3. \A x \in 0..n - 1 : Tab(m, d, x) # t
        BY <2>1, <2>5, <4>2, OwnFacts
      <4> QED BY <4>1, <4>3 DEF TabsOf
    <3>2. t \notin v.free
      BY <1>2, <3>1 DEF Freed
    <3>3. Freed(m, kfree(v, t), TabsOf(m, d, n - 1) \cup {t})
      BY <1>2, <3>1, <3>2, OneMoreFreed
    <3>4. TabsOf(m, d, n) = TabsOf(m, d, n - 1) \cup {t} /\ DropTab(v, t) = kfree(v, t)
      BY <2>3, <2>5 DEF DropTab
    <3> QED BY <2>1, <3>3, <3>4
  <2> QED BY <2>4, <2>5
<1>3. \A v, n : Good(v, n) => v \in Memory
  BY DEF Freed
<1> HIDE DEF Good
<1>4. LoopSteps(a, NUT, m, G, I)
  <2>1. m \in I[a]
    BY <1>0, <1>1, <1>3
  <2>2. ASSUME NEW n \in 0..NUT, NEW s \in I[n - 1] PROVE G[n][s] \in I[n]
    <3>1. Good(s, n - 1) /\ G[n][s] = DropTab(s, Tab(m, d, n))
      BY <1>0
    <3> QED BY <1>0, <1>2, <1>3, <3>1
  <2> HIDE DEF I, G
  <2> QED BY <1>0, <2>1, <2>2 DEF LoopSteps
<1>5. PICK f : /\ f = [n \in a..NUT |-> f[n]] /\ f[a] = m
                /\ \A n \in a + 1..NUT : f[n - 1] \in I[n - 1] /\ f[n] = G[n][f[n - 1]]
  <2>1. a \in Int /\ a <= NUT /\ NUT \in Int
    BY <1>0
  <2> HIDE DEF I, G, a
  <2>2. PICK e : LoopOf(e, a, NUT, m, G, I)
    BY <1>4, <2>1, LoopExists
  <2> QED BY <2>2 DEF LoopOf
<1>6. E(f)
  <2>1. ASSUME NEW n \in a..NUT PROVE f[n] = IF n = -1 THEN m ELSE DropTab(f[n - 1], Tab(m, d, n))
    <3>1. CASE n = a
      BY <1>0, <1>5, <3>1
    <3>2. CASE n # a
      <4>1. n \in 0..NUT /\ n \in a + 1..NUT
        BY <1>0, <3>2
      <4>2. f[n - 1] \in I[n - 1] /\ f[n] = G[n][f[n - 1]]
        BY <1>5, <4>1
      <4> QED BY <1>0, <4>1, <4>2
    <3> QED BY <3>1, <3>2
  <2> QED BY <1>5, <2>1
<1>7. PICK e : e = CHOOSE f0 : E(f0)
  OBVIOUS
<1>8. E(e)
  <2> HIDE DEF E
  <2> QED BY <1>6, <1>7, Zenon
<1>9. g = e[NUT]
  BY <1>7
<1>10. LoopRuns(e, a, NUT, m, G, I)
  <2>1. e[a] = m
    BY <1>0, <1>8
  <2>2. ASSUME NEW n \in a + 1..NUT, e[n - 1] \in I[n - 1] PROVE e[n] = G[n][e[n - 1]]
    <3>1. n \in 0..NUT
      BY <1>0
    <3>2. e[n] = DropTab(e[n - 1], Tab(m, d, n))
      BY <1>0, <1>8, <3>1
    <3> QED BY <2>2, <3>1, <3>2
  <2> QED BY <2>1, <2>2 DEF LoopRuns
<1>11. e[NUT] \in I[NUT]
  <2>1. a \in Int /\ NUT \in Int /\ a <= NUT /\ NUT \in a..NUT
    BY <1>0
  <2> HIDE DEF I, G, E, a
  <2> QED BY <1>4, <1>10, <2>1, LoopHolds
<1>12. Good(e[NUT], NUT)
  BY <1>0, <1>11
<1> QED BY <1>9, <1>12 DEF Good

-----------------------------------------------------------------------------
(* A directory without pages is given back, with its tables. *)
LEMMA DirGone ==
  ASSUME NEW m, NEW D, NEW L, Owned(m, D, L), NEW d \in D, \A j \in UserPages : Ent(m, d, j).pa = 0,
         NEW v, Freed(m, v, TabsOf(m, d, NUT) \cup {d})
  PROVE  Owned(v, D \ {d}, L) /\ Kept(m, v, D \ {d})
<1>0. PICK k, o, n : Own(m, D, L, k, o, n)
  BY DEF Owned
<1>1. /\ k \in [Frames -> {"free", "loose", "dir", "tab", "page"}]
      /\ o \in [Frames -> Nat] /\ n \in [Frames -> Nat] /\ D \subseteq Frames /\ L \subseteq Frames
  BY <1>0 DEF Own
<1>2. Roles(m, D, L, k, o, n)
  BY <1>0 DEF Own
<1>3. /\ \A e \in D, i \in 0..NUT :
           Tab(m, e, i) # 0 => Tab(m, e, i) \in Frames /\ k[Tab(m, e, i)] = "tab"
                           /\ o[Tab(m, e, i)] = e /\ n[Tab(m, e, i)] = i
      /\ \A e \in D, j \in UserPages :
           Ent(m, e, j).pa # 0 => Ent(m, e, j).pa \in Frames /\ k[Ent(m, e, j).pa] = "page"
                              /\ o[Ent(m, e, j).pa] = e /\ n[Ent(m, e, j).pa] = j
      /\ \A e \in D, j \in AllPages \ UserPages : Ent(m, e, j).pa \in {0, Kernel}
  BY <1>0 DEF Own
<1>4. PICK S : S = TabsOf(m, d, NUT) \cup {d}
  OBVIOUS
<1>5. Freed(m, v, S)
  BY <1>4
<1>6. /\ S \subseteq Frames /\ d \in S
      /\ \A g \in S : g = d \/ (k[g] = "tab" /\ o[g] = d)
      /\ \A g \in Frames : k[g] = "tab" /\ o[g] = d => g \in S
  <2>1. \A g \in TabsOf(m, d, NUT) : g \in Frames /\ k[g] = "tab" /\ o[g] = d
    BY <1>3 DEF TabsOf
  <2>2. ASSUME NEW g \in Frames, k[g] = "tab", o[g] = d PROVE g \in TabsOf(m, d, NUT)
    <3>1. n[g] \in 0..NUT /\ Tab(m, d, n[g]) = g
      BY <1>2, <2>2 DEF Roles
    <3> QED BY <3>1, FramesAre DEF TabsOf
  <2> QED BY <1>1, <1>4, <2>1, <2>2
<1>7. ASSUME NEW e \in D \ {d} PROVE e \notin S /\ e \in Frames /\ v.tab[e] = m.tab[e] /\ \A i : Tab(v, e, i) = Tab(m, e, i)
  <2>1. e \notin S /\ e \in Frames
    BY <1>1, <1>2, <1>6 DEF Roles
  <2>2. v.tab[e] = m.tab[e]
    BY <1>5, <2>1 DEF Freed
  <2> QED BY <2>1, <2>2 DEF Tab
<1>8. ASSUME NEW e \in D \ {d}, NEW j \in AllPages PROVE Ent(v, e, j) = Ent(m, e, j)
  <2>1. Q(j) \in 0..NUT
    BY Place
  <2>2. CASE Tab(m, e, Q(j)) = 0
    BY <1>7, <2>2, EntIs
  <2>3. CASE Tab(m, e, Q(j)) # 0
    <3>1. Tab(m, e, Q(j)) \in Frames /\ Tab(m, e, Q(j)) \notin S
      BY <1>2, <1>3, <1>6, <2>1, <2>3 DEF Roles
    <3>2. v.tab[Tab(m, e, Q(j))] = m.tab[Tab(m, e, Q(j))]
      BY <1>5, <3>1 DEF Freed
    <3> QED BY <1>7, <3>2, EntIs
  <2> QED BY <2>2, <2>3
<1>9. UserPages \subseteq AllPages
  BY Place
<1>10. PICK kk : kk = [g \in Frames |-> IF g \in S THEN "free" ELSE k[g]]
  OBVIOUS
<1>11. /\ kk \in [Frames -> {"free", "loose", "dir", "tab", "page"}]
       /\ \A g \in Frames : kk[g] = IF g \in S THEN "free" ELSE k[g]
  BY <1>1, <1>10
<1>12. Roles(v, D \ {d}, L, kk, o, n)
  <2> SUFFICES ASSUME NEW g \in Frames
               PROVE
      /\ kk[g] = "free" <=> g \in v.free
      /\ kk[g] = "loose" <=> g \in L
      /\ kk[g] = "dir" <=> g \in D \ {d}
      /\ kk[g] = "tab" => o[g] \in D \ {d} /\ n[g] \in 0..NUT /\ Tab(v, o[g], n[g]) = g
      /\ kk[g] = "page" => o[g] \in D \ {d} /\ n[g] \in UserPages /\ Ent(v, o[g], n[g]).pa = g
      /\ g \in v.free => v.tab[g] = Zeroed
    BY DEF Roles
  <2>0. /\ k[g] = "free" <=> g \in m.free
        /\ k[g] = "loose" <=> g \in L
        /\ k[g] = "dir" <=> g \in D
        /\ k[g] = "tab" => o[g] \in D /\ n[g] \in 0..NUT /\ Tab(m, o[g], n[g]) = g
        /\ k[g] = "page" => o[g] \in D /\ n[g] \in UserPages /\ Ent(m, o[g], n[g]).pa = g
        /\ g \in m.free => m.tab[g] = Zeroed
    BY <1>2 DEF Roles
  <2>1. CASE g \in S
    <3>1. kk[g] = "free" /\ g \in v.free /\ v.tab[g] = Zeroed
      BY <1>5, <1>11, <2>1 DEF Freed
    <3>2. g \notin L /\ g \notin D \ {d}
      BY <1>6, <2>0, <2>1
    <3> QED BY <3>1, <3>2
  <2>2. CASE g \notin S
    <3>1. kk[g] = k[g] /\ (g \in v.free <=> g \in m.free) /\ g # d /\ v.tab[g] = m.tab[g]
      BY <1>5, <1>6, <1>11, <2>2 DEF Freed
    <3>2. kk[g] = "tab" => o[g] \in D \ {d} /\ n[g] \in 0..NUT /\ Tab(v, o[g], n[g]) = g
      <4> SUFFICES ASSUME k[g] = "tab" PROVE o[g] \in D \ {d} /\ n[g] \in 0..NUT /\ Tab(v, o[g], n[g]) = g
        BY <3>1
      <4>1. o[g] \in D /\ n[g] \in 0..NUT /\ Tab(m, o[g], n[g]) = g
        BY <2>0
      <4>2. o[g] # d
        BY <1>6, <2>2
      <4> QED BY <1>7, <4>1, <4>2
    <3>3. kk[g] = "page" => o[g] \in D \ {d} /\ n[g] \in UserPages /\ Ent(v, o[g], n[g]).pa = g
      <4> SUFFICES ASSUME k[g] = "page" PROVE o[g] \in D \ {d} /\ Ent(v, o[g], n[g]).pa = g
        BY <2>0, <3>1
      <4>1. o[g] # d
        BY <2>0, FramesAre
      <4> QED BY <1>8, <1>9, <2>0, <4>1
    <3> QED BY <2>0, <3>1, <3>2, <3>3
  <2> QED BY <2>1, <2>2
<1>13. \A e \in D \ {d}, i \in 0..NUT :
           Tab(v, e, i) # 0 => Tab(v, e, i) \in Frames /\ kk[Tab(v, e, i)] = "tab"
                           /\ o[Tab(v, e, i)] = e /\ n[Tab(v, e, i)] = i
  <2> SUFFICES ASSUME NEW e \in D \ {d}, NEW i \in 0..NUT, Tab(v, e, i) # 0
               PROVE  Tab(v, e, i) \in Frames /\ kk[Tab(v, e, i)] = "tab"
                           /\ o[Tab(v, e, i)] = e /\ n[Tab(v, e, i)] = i
    OBVIOUS
  <2>1. Tab(v, e, i) = Tab(m, e, i)
    BY <1>7
  <2>2. PICK t : t = Tab(m, e, i)
    OBVIOUS
  <2>3. t \in Frames /\ k[t] = "tab" /\ o[t] = e /\ n[t] = i
    BY <1>3, <2>1, <2>2
  <2>4. t \notin S
    BY <1>1, <1>2, <1>6, <2>3 DEF Roles
  <2> QED BY <1>11, <2>1, <2>2, <2>3, <2>4
<1>14. \A e \in D \ {d}, j \in UserPages :
           Ent(v, e, j).pa # 0 => Ent(v, e, j).pa \in Frames /\ kk[Ent(v, e, j).pa] = "page"
                              /\ o[Ent(v, e, j).pa] = e /\ n[Ent(v, e, j).pa] = j
  <2> SUFFICES ASSUME NEW e \in D \ {d}, NEW j \in UserPages, Ent(v, e, j).pa # 0
               PROVE  Ent(v, e, j).pa \in Frames /\ kk[Ent(v, e, j).pa] = "page"
                              /\ o[Ent(v, e, j).pa] = e /\ n[Ent(v, e, j).pa] = j
    OBVIOUS
  <2>1. Ent(v, e, j) = Ent(m, e, j)
    BY <1>8, <1>9
  <2>2. PICK t : t = Ent(m, e, j).pa
    OBVIOUS
  <2>3. t \in Frames /\ k[t] = "page" /\ o[t] = e /\ n[t] = j
    BY <1>3, <2>1, <2>2
  <2>4. t \notin S
    BY <1>1, <1>2, <1>6, <2>3 DEF Roles
  <2> QED BY <1>11, <2>1, <2>2, <2>3, <2>4
<1>15. \A e \in D \ {d}, j \in AllPages \ UserPages : Ent(v, e, j).pa \in {0, Kernel}
  BY <1>3, <1>8
<1>16. Owned(v, D \ {d}, L)
  <2>1. v \in Memory
    BY <1>5 DEF Freed
  <2>2. Own(v, D \ {d}, L, kk, o, n)
    BY <1>1, <1>11, <1>12, <1>13, <1>14, <1>15 DEF Own
  <2> QED BY <2>1, <2>2 DEF Owned
<1>17. Kept(m, v, D \ {d})
  <2>1. ASSUME NEW e \in D \ {d}, NEW j \in AllPages PROVE SameEnt(m, v, e, j)
    <3>1. Ent(m, e, j).pa \in Frames => Ent(m, e, j).pa \notin S
      <4> SUFFICES ASSUME Ent(m, e, j).pa \in Frames PROVE Ent(m, e, j).pa \notin S
        OBVIOUS
      <4>1. k[Ent(m, e, j).pa] = "page"
        BY <1>3, FramesAre
      <4> QED BY <1>2, <1>6, <4>1 DEF Roles
    <3>2. Ent(m, e, j).pa \in Frames => v.data[Ent(m, e, j).pa] = m.data[Ent(m, e, j).pa]
      BY <1>5, <3>1 DEF Freed
    <3> QED BY <1>8, <3>2 DEF SameEnt
  <2> QED BY <1>5, <1>7, <2>1 DEF Kept, KeptBut, Freed
<1> QED BY <1>16, <1>17

(* freevm gives back a directory and all it has. *)
LEMMA FreevmIs ==
  ASSUME NEW m, NEW D, NEW L, Owned(m, D, L), NEW d \in D, NEW v, v = freevm(m, d)
  PROVE  Owned(v, D \ {d}, L) /\ Kept(m, v, D \ {d})
<1>1. PICK r : r = deallocuvm(m, d, KERNBASE, 0)
  OBVIOUS
<1>2. PICK w : w = r.m
  OBVIOUS
<1>3. Owned(w, D, L) /\ KeptBut(m, w, D, d, UserPages) /\ \A j \in UserPages : Ent(w, d, j).pa = 0
  <2>1. KERNBASE \in Nat /\ 0 < KERNBASE /\ NPages(KERNBASE) = NUT * NPT /\ 0 \in Nat
    BY KernelBase
  <2>2. NPages(0) = 0
    <3>1. 0 * PGSIZE = 0
      BY VmSizes
    <3> QED BY <3>1, WholePages
  <2>3. KERNBASE <= KERNBASE
    BY <2>1
  <2>4. Dropped(m, r.m, D, L, d, NPages(0), NPages(KERNBASE) - 1)
    BY <1>1, <2>1, <2>3, DeallocIs
  <2> QED BY <1>2, <2>1, <2>2, <2>4 DEF Dropped, UserPages
<1>4. PICK x : x = (CHOOSE F : F = [i \in -1..NUT |-> IF i = -1 THEN w ELSE DropTab(F[i - 1], Tab(w, d, i))])[NUT]
  OBVIOUS
<1>5. Freed(w, x, TabsOf(w, d, NUT))
  BY <1>3, <1>4, TablesLoop
<1>6. d \in Frames /\ d # 0 /\ d \notin x.free
  <2>1. d \in Frames /\ d \notin w.free /\ \A i \in 0..NUT : Tab(w, d, i) # 0 => Tab(w, d, i) \notin D
    BY <1>3, OwnFacts
  <2>2. d \notin TabsOf(w, d, NUT)
    BY <2>1 DEF TabsOf
  <2> QED BY <1>5, <2>1, <2>2, FramesAre DEF Freed
<1>7. v = kfree(x, d)
  BY <1>1, <1>2, <1>4, <1>6 DEF freevm, DropTab, Tab
<1>8. Freed(w, v, TabsOf(w, d, NUT) \cup {d})
  BY <1>5, <1>6, <1>7, OneMoreFreed
<1>9. Owned(v, D \ {d}, L) /\ Kept(w, v, D \ {d})
  BY <1>3, <1>8, DirGone
<1>10. Kept(m, w, D \ {d})
  BY <1>3, AllKept
<1> QED BY <1>9, <1>10, AllKept

-----------------------------------------------------------------------------
(* A page that a call holds becomes a directory. *)
PutDir(m, f) == SetData(SetTab(m, f, Zeroed), f, "0")
Bare(m, d) == (\A i \in 0..NUT : Tab(m, d, i) = 0) /\ (\A j \in AllPages : Ent(m, d, j).pa = 0)
LEMMA DirPut ==
  ASSUME NEW m, NEW D, NEW L, Owned(m, D, L), NEW f \in L, NEW v, v = PutDir(m, f)
  PROVE  Owned(v, D \cup {f}, L \ {f}) /\ Kept(m, v, D) /\ v.free = m.free /\ Bare(v, f)
<1>0. PICK k, o, n : Own(m, D, L, k, o, n)
  BY DEF Owned
<1>1. /\ k \in [Frames -> {"free", "loose", "dir", "tab", "page"}]
      /\ o \in [Frames -> Nat] /\ n \in [Frames -> Nat] /\ D \subseteq Frames /\ L \subseteq Frames
  BY <1>0 DEF Own
<1>2. Roles(m, D, L, k, o, n) /\ m \in Memory /\ m.free \subseteq Frames
  BY <1>0, MemoryIs DEF Own, Owned
<1>3. /\ \A e \in D, i \in 0..NUT :
           Tab(m, e, i) # 0 => Tab(m, e, i) \in Frames /\ k[Tab(m, e, i)] = "tab"
                           /\ o[Tab(m, e, i)] = e /\ n[Tab(m, e, i)] = i
      /\ \A e \in D, j \in UserPages :
           Ent(m, e, j).pa # 0 => Ent(m, e, j).pa \in Frames /\ k[Ent(m, e, j).pa] = "page"
                              /\ o[Ent(m, e, j).pa] = e /\ n[Ent(m, e, j).pa] = j
      /\ \A e \in D, j \in AllPages \ UserPages : Ent(m, e, j).pa \in {0, Kernel}
  BY <1>0 DEF Own
<1>4. f \in Frames /\ k[f] = "loose" /\ f \notin D /\ f \notin m.free
  BY <1>1, <1>2 DEF Roles
<1>5. /\ v \in Memory /\ v.free = m.free /\ v.fault = m.fault /\ v.kpgdir = m.kpgdir
      /\ v.tab[f] = Zeroed /\ \A g \in Frames : g # f => v.tab[g] = m.tab[g] /\ v.data[g] = m.data[g]
  <2>1. PICK z : z = "0" /\ z \in Words
    BY DEF Words
  <2>2. PICK w : w = SetTab(m, f, Zeroed)
    OBVIOUS
  <2>3. /\ w \in Memory /\ w.free = m.free /\ w.data = m.data /\ w.fault = m.fault /\ w.kpgdir = m.kpgdir
        /\ w.tab[f] = Zeroed /\ \A g \in Frames : g # f => w.tab[g] = m.tab[g]
    BY <1>2, <1>4, <2>2, SetTabIs, ZeroedIs
  <2>4. v = SetData(w, f, z)
    BY <2>1, <2>2 DEF PutDir
  <2>5. w \in Memory /\ z \in Words /\ f \in Frames
    BY <1>4, <2>1, <2>3
  <2>6. /\ SetData(w, f, z) \in Memory
        /\ SetData(w, f, z).free = w.free /\ SetData(w, f, z).tab = w.tab
        /\ SetData(w, f, z).fault = w.fault /\ SetData(w, f, z).kpgdir = w.kpgdir
        /\ \A g \in Frames : g # f => SetData(w, f, z).data[g] = w.data[g]
    BY <2>5, SetDataIs
  <2> QED BY <2>3, <2>4, <2>6
<1>6. SameRest(m, v) /\ SameTabs(m, v, k) /\ SameData(m, v, k)
  BY <1>4, <1>5 DEF SameRest, SameTabs, SameData
<1>7. SameViews(m, v, D) /\ Kept(m, v, D)
  BY <1>0, <1>2, <1>5, <1>6, ViewsSame, KeptAll
<1>8. Bare(v, f)
  <2>1. \A i \in 0..NUT : Tab(v, f, i) = 0
    BY <1>5, Place, ZeroedIs DEF Tab
  <2>2. ASSUME NEW j \in AllPages PROVE Ent(v, f, j).pa = 0
    <3>1. Q(j) \in 0..NUT
      BY Place
    <3> QED BY <2>1, <3>1, EntIs, ZeroedIs
  <2> QED BY <2>1, <2>2 DEF Bare
<1>9. PICK kk : kk = [k EXCEPT ![f] = "dir"]
  OBVIOUS
<1>10. /\ kk \in [Frames -> {"free", "loose", "dir", "tab", "page"}]
       /\ kk[f] = "dir" /\ \A g \in Frames : g # f => kk[g] = k[g]
  BY <1>1, <1>9
<1>11. UserPages \subseteq AllPages
  BY Place
<1>12. /\ \A e \in D, i \in 0..NUT : Tab(v, e, i) = Tab(m, e, i)
       /\ \A e \in D, j \in AllPages : Ent(v, e, j) = Ent(m, e, j)
  BY <1>7 DEF SameViews
<1>13. Roles(v, D \cup {f}, L \ {f}, kk, o, n)
  <2> SUFFICES ASSUME NEW g \in Frames
               PROVE
      /\ kk[g] = "free" <=> g \in v.free
      /\ kk[g] = "loose" <=> g \in L \ {f}
      /\ kk[g] = "dir" <=> g \in D \cup {f}
      /\ kk[g] = "tab" => o[g] \in D \cup {f} /\ n[g] \in 0..NUT /\ Tab(v, o[g], n[g]) = g
      /\ kk[g] = "page" => o[g] \in D \cup {f} /\ n[g] \in UserPages /\ Ent(v, o[g], n[g]).pa = g
      /\ g \in v.free => v.tab[g] = Zeroed
    BY DEF Roles
  <2>0. /\ k[g] = "free" <=> g \in m.free
        /\ k[g] = "loose" <=> g \in L
        /\ k[g] = "dir" <=> g \in D
        /\ k[g] = "tab" => o[g] \in D /\ n[g] \in 0..NUT /\ Tab(m, o[g], n[g]) = g
        /\ k[g] = "page" => o[g] \in D /\ n[g] \in UserPages /\ Ent(m, o[g], n[g]).pa = g
        /\ g \in m.free => m.tab[g] = Zeroed
    BY <1>2 DEF Roles
  <2>1. CASE g = f
    BY <1>4, <1>5, <1>10, <2>1
  <2>2. CASE g # f
    <3>1. kk[g] = k[g] /\ v.tab[g] = m.tab[g] /\ v.free = m.free
      BY <1>5, <1>10, <2>2
    <3>2. kk[g] = "tab" => o[g] \in D \cup {f} /\ n[g] \in 0..NUT /\ Tab(v, o[g], n[g]) = g
      BY <1>12, <2>0, <3>1
    <3>3. kk[g] = "page" => o[g] \in D \cup {f} /\ n[g] \in UserPages /\ Ent(v, o[g], n[g]).pa = g
      BY <1>11, <1>12, <2>0, <3>1
    <3> QED BY <2>0, <2>2, <3>1, <3>2, <3>3
  <2> QED BY <2>1, <2>2
<1>14. ASSUME NEW e \in D \cup {f}, NEW i \in 0..NUT, Tab(v, e, i) # 0
       PROVE  Tab(v, e, i) \in Frames /\ kk[Tab(v, e, i)] = "tab"
                           /\ o[Tab(v, e, i)] = e /\ n[Tab(v, e, i)] = i
  <2>1. e \in D
    BY <1>8, <1>14 DEF Bare
  <2>2. Tab(v, e, i) = Tab(m, e, i)
    BY <1>12, <2>1
  <2> QED BY <1>3, <1>4, <1>10, <1>14, <2>1, <2>2
<1>15. ASSUME NEW e \in D \cup {f}, NEW j \in UserPages, Ent(v, e, j).pa # 0
       PROVE  Ent(v, e, j).pa \in Frames /\ kk[Ent(v, e, j).pa] = "page"
                              /\ o[Ent(v, e, j).pa] = e /\ n[Ent(v, e, j).pa] = j
  <2>1. e \in D
    BY <1>8, <1>11, <1>15 DEF Bare
  <2>2. Ent(v, e, j) = Ent(m, e, j)
    BY <1>11, <1>12, <2>1
  <2> QED BY <1>3, <1>4, <1>10, <1>15, <2>1, <2>2
<1>16. ASSUME NEW e \in D \cup {f}, NEW j \in AllPages \ UserPages PROVE Ent(v, e, j).pa \in {0, Kernel}
  <2>1. CASE e = f
    BY <1>8, <2>1 DEF Bare
  <2>2. CASE e \in D
    BY <1>3, <1>12, <2>2
  <2> QED BY <2>1, <2>2
<1>17. Own(v, D \cup {f}, L \ {f}, kk, o, n)
  <2>1. D \cup {f} \subseteq Frames /\ L \ {f} \subseteq Frames
    BY <1>1, <1>4
  <2> QED BY <1>1, <1>10, <1>13, <1>14, <1>15, <1>16, <2>1 DEF Own
<1> QED BY <1>5, <1>7, <1>8, <1>17 DEF Owned

-----------------------------------------------------------------------------
(* Pages of the kernel, by number. *)
LEMMA KernelPages ==
  /\ \A j \in AllPages \ UserPages : Q(j) = NUT
  /\ \A j \in 1..NPT : /\ NUT * NPT + (j - 1) \in AllPages \ UserPages
                       /\ KERNBASE + (j - 1) * PGSIZE = (NUT * NPT + (j - 1)) * PGSIZE
<1>0. NPT \in Nat \ {0} /\ NUT \in Nat \ {0} /\ PGSIZE \in Nat \ {0}
  BY VmSizes
<1>1. PICK U : U = NUT * NPT
  OBVIOUS
<1>2. U \in Nat /\ NPT * NUT = U
  BY <1>0, <1>1
<1>3. ASSUME NEW j \in AllPages \ UserPages PROVE Q(j) = NUT
  <2>1. j \in Nat /\ j >= U /\ j < U + NPT
    BY <1>0, <1>1, <1>2 DEF AllPages, UserPages
  <2>2. j \div NPT = NUT
    BY <1>0, <1>2, <2>1, DivIs
  <2> QED BY <2>1, <2>2, PlaceOf
<1>4. ASSUME NEW j \in 1..NPT
      PROVE  /\ U + (j - 1) \in AllPages \ UserPages
             /\ KERNBASE + (j - 1) * PGSIZE = (U + (j - 1)) * PGSIZE
  <2>1. U + (j - 1) \in AllPages \ UserPages
    BY <1>0, <1>1, <1>2 DEF AllPages, UserPages
  <2>2. KERNBASE = U * PGSIZE
    BY <1>1 DEF KERNBASE
  <2> QED BY <1>0, <1>2, <2>1, <2>2
<1> QED BY <1>1, <1>3, <1>4

(* What mappages returns. *)
IsResult(x) == x = [m |-> x.m, ok |-> x.ok] /\ x.ok \in BOOLEAN
LEMMA MapRecord ==
  ASSUME NEW m, NEW d, NEW a, NEW pa, NEW b
  PROVE  IsResult(mappages(m, d, a, pa, b))
<1>0. PICK x : x = mappages(m, d, a, pa, b)
  OBVIOUS
<1>1. PICK w : w = walkpgdir(m, d, a, TRUE)
  OBVIOUS
<1>2. \/ x = [m |-> w.m, ok |-> FALSE]
      \/ x = [m |-> kpanic(w.m, "remap"), ok |-> FALSE]
      \/ x = [m |-> [w.m EXCEPT !.tab[w.t][PTX(a)] = [pa |-> pa, u |-> b]], ok |-> TRUE]
  BY <1>0, <1>1 DEF mappages
<1>3. PICK y, c : x = [m |-> y, ok |-> c] /\ c \in BOOLEAN
  BY <1>2
<1>4. IsResult(x)
  BY <1>3 DEF IsResult
<1> QED BY <1>0, <1>4

(* setupkvm has mapped n pages of the kernel in d, starting from z. *)
Results == [m : Memory, ok : BOOLEAN]
Fresh(m, d, n) ==
  /\ \A j \in UserPages : Ent(m, d, j).pa = 0
  /\ \A j \in AllPages \ UserPages :
       IF j < NUT * NPT + n THEN Ent(m, d, j) = [pa |-> Kernel, u |-> FALSE] ELSE Ent(m, d, j).pa = 0
KvmDone(z, x, D, L, d, n) ==
  /\ x \in Results /\ Owned(x.m, D \cup {d}, L) /\ Kept(z, x.m, D)
  /\ x.ok => /\ Fresh(x.m, d, n)
             /\ \/ n = 0 /\ x.m = z
                \/ Tab(x.m, d, NUT) # 0 /\ \E g \in z.free : x.m.free = z.free \ {g}
  /\ ~x.ok => z.free = {}
KvmStep(v, d, j) ==
  IF ~v.ok THEN v ELSE mappages(v.m, d, KERNBASE + (j - 1) * PGSIZE, Kernel, FALSE)
LEMMA KvmStepIs ==
  ASSUME NEW z, NEW D, NEW L, NEW d, d \notin D, Bare(z, d), NEW n \in 1..NPT, NEW v,
         KvmDone(z, v, D, L, d, n - 1), NEW x, x = KvmStep(v, d, n)
  PROVE  KvmDone(z, x, D, L, d, n)
<1>1. CASE ~v.ok
  <2>1. x = v
    BY <1>1 DEF KvmStep
  <2> QED BY <1>1, <2>1 DEF KvmDone
<1>2. CASE v.ok
  <2>0. NPT \in Nat /\ NUT * NPT \in Nat
    BY VmSizes
  <2>1. PICK j : j = NUT * NPT + (n - 1)
    OBVIOUS
  <2>2. j \in AllPages \ UserPages /\ KERNBASE + (n - 1) * PGSIZE = j * PGSIZE /\ Q(j) = NUT
    BY <2>1, KernelPages
  <2>3. x = mappages(v.m, d, j * PGSIZE, Kernel, FALSE)
    BY <1>2, <2>2 DEF KvmStep
  <2>4. PICK m : m = v.m
    OBVIOUS
  <2>5. PICK E : E = D \cup {d}
    OBVIOUS
  <2>6. Owned(m, E, L) /\ Kept(z, m, D) /\ Fresh(m, d, n - 1) /\ d \in E
    BY <1>2, <2>4, <2>5 DEF KvmDone
  <2>7. \/ n - 1 = 0 /\ m = z
        \/ Tab(m, d, NUT) # 0 /\ \E g \in z.free : m.free = z.free \ {g}
    BY <1>2, <2>4 DEF KvmDone
  <2>8. Ent(m, d, j).pa = 0
    <3>1. ~(j < NUT * NPT + (n - 1))
      BY <2>0, <2>1
    <3> QED BY <2>2, <2>6, <3>1 DEF Fresh
  <2>9. x = mappages(m, d, j * PGSIZE, Kernel, FALSE)
    BY <2>3, <2>4
  <2>10. x = [m |-> x.m, ok |-> x.ok] /\ x.ok \in BOOLEAN
    <3>1. IsResult(x)
      BY <2>9, MapRecord
    <3> QED BY <3>1 DEF IsResult
  <2>11. CASE NoTable(m, d, j, x)
    <3>1. x.m = m /\ ~x.ok /\ m.free = {} /\ Tab(m, d, NUT) = 0
      BY <2>2, <2>11 DEF NoTable
    <3>2. z.free = {}
      BY <2>7, <3>1
    <3>3. x.m \in Memory
      BY <2>6, <3>1 DEF Owned
    <3>4. x \in Results
      BY <2>10, <3>3 DEF Results
    <3> QED BY <2>5, <2>6, <3>1, <3>2, <3>4 DEF KvmDone
  <2>12. CASE ~NoTable(m, d, j, x)
    <3>1. /\ x.ok /\ Owned(x.m, E, L) /\ KeptBut(m, x.m, E, d, {j})
          /\ Ent(x.m, d, j) = [pa |-> Kernel, u |-> FALSE]
          /\ Tab(x.m, d, Q(j)) # 0 /\ Fewer(m, x.m, d, j)
      BY <2>2, <2>6, <2>8, <2>9, <2>12, MapKernel
    <3>2. Kept(z, x.m, D)
      <4>1. Kept(m, x.m, E \ {d})
        BY <3>1, AllKept
      <4>2. E \ {d} = D
        BY <2>5
      <4> QED BY <2>6, <4>1, <4>2, AllKept
    <3>3. \A i \in AllPages : i # j => SameEnt(m, x.m, d, i)
      BY <2>6, <3>1 DEF KeptBut
    <3>4. Fresh(x.m, d, n)
      <4>1. UserPages \subseteq AllPages /\ AllPages \subseteq Nat
        BY Place
      <4>2. \A i \in UserPages : Ent(x.m, d, i).pa = 0
        BY <2>2, <2>6, <3>3, <4>1 DEF Fresh, SameEnt
      <4>3. ASSUME NEW i \in AllPages \ UserPages
            PROVE  IF i < NUT * NPT + n THEN Ent(x.m, d, i) = [pa |-> Kernel, u |-> FALSE] ELSE Ent(x.m, d, i).pa = 0
        <5>1. CASE i = j
          <6>1. i < NUT * NPT + n
            BY <2>0, <2>1, <5>1
          <6> QED BY <3>1, <5>1, <6>1
        <5>2. CASE i # j
          <6>1. i < NUT * NPT + n <=> i < NUT * NPT + (n - 1)
            BY <2>0, <2>1, <4>1, <5>2
          <6>2. IF i < NUT * NPT + (n - 1) THEN Ent(m, d, i) = [pa |-> Kernel, u |-> FALSE] ELSE Ent(m, d, i).pa = 0
            BY <2>6 DEF Fresh
          <6>3. SameEnt(m, x.m, d, i)
            BY <3>3, <5>2
          <6>4. Kernel # 0
            BY FramesAre
          <6>5. PICK p : p = [pa |-> Kernel, u |-> FALSE]
            OBVIOUS
          <6>6. p.pa # 0
            BY <6>4, <6>5
          <6>7. IF i < NUT * NPT + (n - 1) THEN Ent(m, d, i) = p ELSE Ent(m, d, i).pa = 0
            BY <6>2, <6>5
          <6>8. IF i < NUT * NPT + (n - 1) THEN Ent(x.m, d, i) = p ELSE Ent(x.m, d, i).pa = 0
            BY <6>3, <6>6, <6>7 DEF SameEnt
          <6> QED BY <6>1, <6>5, <6>8
        <5> QED BY <5>1, <5>2
      <4> QED BY <4>2, <4>3 DEF Fresh
    <3>5. Tab(x.m, d, NUT) # 0 /\ \E g \in z.free : x.m.free = z.free \ {g}
      <4>1. CASE n - 1 = 0 /\ m = z
        <5>1. Tab(m, d, NUT) = 0
          BY <4>1, VmSizes DEF Bare
        <5> QED BY <2>2, <3>1, <4>1, <5>1 DEF Fewer
      <4>2. CASE Tab(m, d, NUT) # 0 /\ \E g \in z.free : m.free = z.free \ {g}
        BY <2>2, <3>1, <4>2 DEF Fewer
      <4> QED BY <2>7, <4>1, <4>2
    <3>6. x \in Results
      <4>1. x.m \in Memory
        BY <3>1 DEF Owned
      <4> QED BY <2>10, <4>1 DEF Results
    <3> QED BY <2>5, <3>1, <3>2, <3>4, <3>5, <3>6 DEF KvmDone
  <2> QED BY <2>11, <2>12
<1>3. v.ok \in BOOLEAN
  BY DEF KvmDone, Results
<1> QED BY <1>1, <1>2, <1>3

(* The loop of setupkvm. *)
LEMMA KvmLoop ==
  ASSUME NEW z, NEW D, NEW L, NEW d, d \notin D, Owned(z, D \cup {d}, L), Bare(z, d), NEW g,
         g = (CHOOSE M : M = [j \in 0..NPT |-> IF j = 0 THEN [m |-> z, ok |-> TRUE]
                                              ELSE KvmStep(M[j - 1], d, j)])[NPT]
  PROVE  KvmDone(z, g, D, L, d, NPT)
<1> DEFINE s0 == [m |-> z, ok |-> TRUE]
           E(f) == f = [j \in 0..NPT |-> IF j = 0 THEN s0 ELSE KvmStep(f[j - 1], d, j)]
           I == [n \in 0..NPT |-> {v \in Results : KvmDone(z, v, D, L, d, n)}]
           G == [n \in 1..NPT |-> [v \in I[n - 1] |-> KvmStep(v, d, n)]]
<1>0. NPT \in Nat \ {0} /\ NPT \in Int /\ 0 <= NPT /\ 0 + 1 = 1 /\ 0 \in 0..NPT /\ NPT \in 0..NPT
      /\ (\A n \in 1..NPT : n - 1 \in 0..NPT /\ n \in 0..NPT /\ n # 0)
  BY VmSizes
<1>1. KvmDone(z, s0, D, L, d, 0)
  <2>1. s0.m = z /\ s0.ok = TRUE
    OBVIOUS
  <2>2. z \in Memory
    BY DEF Owned
  <2>3. s0 \in Results
    BY <2>2 DEF Results
  <2>4. Kept(z, z, D)
    BY AllKept
  <2>5. Fresh(z, d, 0)
    <3>1. UserPages \subseteq AllPages /\ AllPages \subseteq Nat /\ NUT * NPT \in Nat
      BY Place, VmSizes
    <3>2. \A j \in AllPages \ UserPages : ~(j < NUT * NPT + 0)
      BY <3>1 DEF UserPages
    <3> QED BY <3>1, <3>2 DEF Fresh, Bare
  <2> HIDE DEF s0
  <2> QED BY <2>1, <2>3, <2>4, <2>5 DEF KvmDone
<1> HIDE DEF s0
<1>2. ASSUME NEW n \in 1..NPT, NEW v, KvmDone(z, v, D, L, d, n - 1)
      PROVE  KvmDone(z, KvmStep(v, d, n), D, L, d, n)
  BY <1>2, KvmStepIs
<1>3. \A v, n : KvmDone(z, v, D, L, d, n) => v \in Results
  BY DEF KvmDone
<1>4. LoopSteps(0, NPT, s0, G, I)
  <2>1. s0 \in I[0]
    BY <1>0, <1>1, <1>3
  <2>2. ASSUME NEW n \in 1..NPT, NEW s \in I[n - 1] PROVE G[n][s] \in I[n]
    <3>1. KvmDone(z, s, D, L, d, n - 1) /\ G[n][s] = KvmStep(s, d, n)
      BY <1>0
    <3> QED BY <1>0, <1>2, <1>3, <3>1
  <2> HIDE DEF I, G
  <2> QED BY <1>0, <2>1, <2>2 DEF LoopSteps
<1>5. PICK f : /\ f = [n \in 0..NPT |-> f[n]] /\ f[0] = s0
               /\ \A n \in 0 + 1..NPT : f[n - 1] \in I[n - 1] /\ f[n] = G[n][f[n - 1]]
  <2> HIDE DEF I, G
  <2>2. PICK e : LoopOf(e, 0, NPT, s0, G, I)
    BY <1>0, <1>4, LoopExists
  <2> QED BY <2>2 DEF LoopOf
<1>6. E(f)
  <2>1. ASSUME NEW n \in 0..NPT PROVE f[n] = IF n = 0 THEN s0 ELSE KvmStep(f[n - 1], d, n)
    <3>1. CASE n = 0
      BY <1>5, <3>1
    <3>2. CASE n # 0
      <4>1. n \in 1..NPT /\ n \in 0 + 1..NPT
        BY <1>0, <3>2
      <4>2. f[n - 1] \in I[n - 1] /\ f[n] = G[n][f[n - 1]]
        BY <1>5, <4>1
      <4> QED BY <1>0, <4>1, <4>2
    <3> QED BY <3>1, <3>2
  <2> QED BY <1>5, <2>1
<1>7. PICK e : e = CHOOSE f0 : E(f0)
  OBVIOUS
<1>8. E(e)
  <2> HIDE DEF E
  <2> QED BY <1>6, <1>7, Zenon
<1>9. g = e[NPT]
  BY <1>7 DEF s0
<1>10. LoopRuns(e, 0, NPT, s0, G, I)
  <2>1. e[0] = s0
    BY <1>0, <1>8
  <2>2. ASSUME NEW n \in 0 + 1..NPT, e[n - 1] \in I[n - 1] PROVE e[n] = G[n][e[n - 1]]
    <3>1. n \in 1..NPT
      BY <1>0
    <3>2. e[n] = KvmStep(e[n - 1], d, n)
      BY <1>0, <1>8, <3>1
    <3> QED BY <2>2, <3>1, <3>2
  <2> QED BY <2>1, <2>2 DEF LoopRuns
<1>11. e[NPT] \in I[NPT]
  <2> HIDE DEF I, G, E
  <2> QED BY <1>0, <1>4, <1>10, LoopHolds
<1>12. KvmDone(z, e[NPT], D, L, d, NPT)
  BY <1>0, <1>11
<1> QED BY <1>9, <1>12

(* setupkvm makes a directory with the kernel and no pages of the user; it *)
(* gives back what it took if it fails, which it does not with two pages.  *)
SetupDone(m, r, D, L) ==
  \/ r.d = 0 /\ Owned(r.m, D, L) /\ Kept(m, r.m, D) /\ \A a, b \in m.free : a = b
  \/ /\ r.d \in Frames \ (D \cup L) /\ Owned(r.m, D \cup {r.d}, L) /\ Kept(m, r.m, D)
     /\ Fresh(r.m, r.d, NPT) /\ \E a, b \in m.free : r.m.free = m.free \ {a, b}
LEMMA SetupIs ==
  ASSUME NEW m, NEW D, NEW L, Owned(m, D, L), NEW r, r = setupkvm(m)
  PROVE  SetupDone(m, r, D, L)
<1>1. PICK n : n = kalloc(m)
  OBVIOUS
<1>2. PICK z : z = [n.m EXCEPT !.tab[n.f] = Zeroed, !.data[n.f] = "0"]
  OBVIOUS
<1>3. PICK g : g = (CHOOSE M : M = [j \in 0..NPT |-> IF j = 0 THEN [m |-> z, ok |-> TRUE]
                                              ELSE KvmStep(M[j - 1], n.f, j)])[NPT]
  OBVIOUS
<1>4. r = IF n.f = 0 THEN [m |-> m, d |-> 0] ELSE Whole(g, n.f)
  BY <1>1, <1>2, <1>3 DEF setupkvm, KvmStep
<1>5. CASE m.free = {} /\ n.m = m /\ n.f = 0
  <2>1. r.m = m /\ r.d = 0
    BY <1>4, <1>5
  <2>2. Kept(m, m, D)
    BY AllKept
  <2> QED BY <1>5, <2>1, <2>2 DEF SetupDone
<1>6. CASE /\ n.f \in m.free /\ n.f \in Frames \ (D \cup L)
           /\ n.m.free = m.free \ {n.f}
           /\ Owned(n.m, D, L \cup {n.f})
           /\ Kept(m, n.m, D)
  <2>1. PICK d : d = n.f
    OBVIOUS
  <2>2. PICK a : a = n.m
    OBVIOUS
  <2>3. d \in m.free /\ d \in Frames \ (D \cup L) /\ d # 0 /\ a.free = m.free \ {d} /\ Kept(m, a, D)
    BY <1>6, <2>1, <2>2, FramesAre
  <2>4. PICK K : K = L \cup {d}
    OBVIOUS
  <2>5. Owned(a, D, K) /\ d \in K /\ K \ {d} = L
    BY <1>6, <2>1, <2>2, <2>3, <2>4
  <2>6. z = PutDir(a, d)
    <3>1. a \in Memory
      BY <2>5 DEF Owned
    <3>2. z = [a EXCEPT !.tab[d] = Zeroed, !.data[d] = "0"]
      BY <1>2, <2>1, <2>2
    <3> QED BY <3>1, <3>2 DEF PutDir, SetData, SetTab, Memory
  <2>7. Owned(z, D \cup {d}, L) /\ Kept(a, z, D) /\ z.free = a.free /\ Bare(z, d)
    <3>1. Owned(z, D \cup {d}, K \ {d}) /\ Kept(a, z, D) /\ z.free = a.free /\ Bare(z, d)
      BY <2>5, <2>6, DirPut
    <3> QED BY <2>5, <3>1
  <2>8. KvmDone(z, g, D, L, d, NPT)
    <3>1. g = (CHOOSE M : M = [j \in 0..NPT |-> IF j = 0 THEN [m |-> z, ok |-> TRUE]
                                              ELSE KvmStep(M[j - 1], d, j)])[NPT]
      BY <1>3, <2>1
    <3>2. d \notin D
      BY <2>3
    <3> QED BY <2>7, <3>1, <3>2, KvmLoop
  <2>9. Kept(m, z, D)
    BY <2>3, <2>7, AllKept
  <2>10. Owned(g.m, D \cup {d}, L) /\ Kept(m, g.m, D)
    <3>1. Owned(g.m, D \cup {d}, L) /\ Kept(z, g.m, D)
      BY <2>8 DEF KvmDone
    <3> QED BY <2>9, <3>1, AllKept
  <2>11. r = Whole(g, d)
    BY <1>4, <2>1, <2>3
  <2>12. CASE g.ok
    <3>1. r.m = g.m /\ r.d = d
      BY <2>11, <2>12 DEF Whole
    <3>2. Fresh(g.m, d, NPT) /\ \E b \in z.free : g.m.free = z.free \ {b}
      <4>1. NPT # 0
        BY VmSizes
      <4> QED BY <2>8, <2>12, <4>1 DEF KvmDone
    <3>3. \E b \in m.free : g.m.free = m.free \ {d, b}
      BY <2>3, <2>7, <3>2
    <3>4. \E b, c \in m.free : g.m.free = m.free \ {b, c}
      BY <2>3, <3>3
    <3> QED BY <2>3, <2>10, <3>1, <3>2, <3>4 DEF SetupDone
  <2>13. CASE ~g.ok
    <3>1. r.m = freevm(g.m, d) /\ r.d = 0
      BY <2>11, <2>13 DEF Whole
    <3>2. PICK E : E = D \cup {d}
      OBVIOUS
    <3>3. E \ {d} = D /\ d \in E
      BY <2>3, <3>2
    <3>4. Owned(r.m, E \ {d}, L) /\ Kept(g.m, r.m, E \ {d})
      BY <2>10, <3>1, <3>2, <3>3, FreevmIs
    <3>5. Kept(m, r.m, D)
      BY <2>10, <3>3, <3>4, AllKept
    <3>6. \A b, c \in m.free : b = c
      <4>1. z.free = {}
        BY <2>8, <2>13 DEF KvmDone
      <4> QED BY <2>3, <2>7, <4>1
    <3> QED BY <3>1, <3>3, <3>4, <3>5, <3>6 DEF SetupDone
  <2> QED BY <2>12, <2>13
<1> QED BY <1>1, <1>5, <1>6, KallocIs

-----------------------------------------------------------------------------
(* Words change, but no table does. *)
SameShape(m, v) == v \in Memory /\ v.free = m.free /\ v.tab = m.tab /\ SameRest(m, v)
LEMMA ShapeStays ==
  ASSUME NEW m, NEW v, NEW D, NEW L, Owned(m, D, L), SameShape(m, v)
  PROVE  Owned(v, D, L) /\ \A e, i : Tab(v, e, i) = Tab(m, e, i) /\ Ent(v, e, i) = Ent(m, e, i)
<1>1. \A e, i : Tab(v, e, i) = Tab(m, e, i) /\ Ent(v, e, i) = Ent(m, e, i)
  BY DEF SameShape, Tab, Ent, Pte
<1>2. SameRoles(m, v, D)
  <2>1. Clean(m) /\ \A d \in D, j \in AllPages \ UserPages : Ent(m, d, j).pa \in {0, Kernel}
    BY OwnFacts
  <2>2. Clean(v)
    BY <2>1 DEF SameShape, Clean
  <2> QED BY <1>1, <2>1, <2>2 DEF SameRoles, SameShape
<1>3. v \in Memory
  BY DEF SameShape
<1> QED BY <1>1, <1>2, <1>3, RolesStay

(* A call writes to a page that it holds. *)
LEMMA LooseWord ==
  ASSUME NEW m, NEW D, NEW L, Owned(m, D, L), NEW f \in L, NEW w \in Words, NEW v, v = SetData(m, f, w)
  PROVE  Owned(v, D, L) /\ Kept(m, v, D) /\ SameShape(m, v) /\ v.data[f] = w
<1>0. m \in Memory /\ f \in Frames
  <2>1. m \in Memory /\ L \subseteq Frames
    BY OwnFacts
  <2> QED BY <2>1
<1>1. /\ v \in Memory /\ v.free = m.free /\ v.tab = m.tab /\ v.fault = m.fault /\ v.kpgdir = m.kpgdir
      /\ v.data[f] = w /\ \A g \in Frames : g # f => v.data[g] = m.data[g]
  BY <1>0, SetDataIs
<1>2. SameShape(m, v)
  BY <1>1 DEF SameShape, SameRest
<1>3. Owned(v, D, L) /\ \A e, i : Tab(v, e, i) = Tab(m, e, i) /\ Ent(v, e, i) = Ent(m, e, i)
  BY <1>2, ShapeStays
<1>4. ASSUME NEW e \in D, NEW j \in AllPages PROVE SameEnt(m, v, e, j)
  <2>1. Ent(m, e, j).pa \in Frames => Ent(m, e, j).pa # f
    BY OwnFacts, FramesAre
  <2> QED BY <1>1, <1>3, <2>1 DEF SameEnt
<1> QED BY <1>1, <1>2, <1>3, <1>4 DEF Kept, KeptBut

(* What was not there is not there. *)
LEMMA Restored ==
  ASSUME NEW m, NEW v, NEW D, NEW d, NEW J, KeptBut(m, v, D, d, J),
         \A j \in J : Ent(m, d, j).pa = 0 /\ Ent(v, d, j).pa = 0
  PROVE  Kept(m, v, D)
<1>1. ASSUME NEW e \in D, NEW j \in AllPages PROVE SameEnt(m, v, e, j)
  <2>1. CASE e = d /\ j \in J
    BY <2>1 DEF SameEnt
  <2>2. CASE ~(e = d /\ j \in J)
    BY <2>2 DEF KeptBut
  <2> QED BY <2>1, <2>2
<1> QED BY <1>1 DEF Kept, KeptBut

(* allocuvm has added pages up to n, of those from lo to hi. *)
ExtDone(m, x, D, L, d, lo, hi, n) ==
  /\ x \in Results /\ Owned(x.m, D, L)
  /\ x.ok => /\ KeptBut(m, x.m, D, d, lo..hi)
             /\ \A j \in lo..hi : IF j <= n THEN Ent(x.m, d, j).pa \in Frames /\ x.m.data[Ent(x.m, d, j).pa] = "0"
                                  ELSE Ent(x.m, d, j).pa = 0
  /\ ~x.ok => Kept(m, x.m, D)
ExtMapped(x, d, f, a, b) == IF x.ok THEN x ELSE [m |-> kfree(Undone(x.m, d, b, a), f), ok |-> FALSE]
ExtGot(n, d, j, a, b) ==
  IF n.f = 0 THEN [m |-> Undone(n.m, d, b, a), ok |-> FALSE]
  ELSE ExtMapped(mappages([n.m EXCEPT !.data[n.f] = "0"], d, j * PGSIZE, n.f, TRUE), d, n.f, a, b)
ExtStep(v, d, j, a, b) == IF ~v.ok THEN v ELSE ExtGot(kalloc(v.m), d, j, a, b)
LEMMA ExtStepIs ==
  ASSUME NEW m, NEW D, NEW L, NEW d \in D, NEW a \in Nat, NEW b \in Nat, a < b, b < KERNBASE,
         NEW lo, NEW hi, lo = NPages(a), hi = NPages(b) - 1, \A j \in lo..hi : Ent(m, d, j).pa = 0,
         NEW n \in lo..hi, NEW v, ExtDone(m, v, D, L, d, lo, hi, n - 1), NEW x, x = ExtStep(v, d, n, a, b)
  PROVE  ExtDone(m, x, D, L, d, lo, hi, n)
<1>0. lo \in Nat /\ hi \in Int /\ lo..hi \subseteq UserPages /\ UserPages \subseteq AllPages
      /\ AllPages \subseteq Nat /\ a <= KERNBASE /\ b <= KERNBASE /\ KERNBASE \in Nat
  <2>1. KERNBASE \in Nat /\ NPages(KERNBASE) = NUT * NPT /\ NUT * NPT \in Nat
    BY KernelBase, VmSizes
  <2>2. NPages(b) <= NPages(KERNBASE) /\ NPages(b) \in Nat /\ NPages(a) \in Nat
    BY <2>1, PagesGrow, PagesOf
  <2>3. lo..hi \subseteq UserPages
    BY <2>1, <2>2 DEF UserPages
  <2> QED BY <2>1, <2>2, <2>3, Place
<1>1. CASE ~v.ok
  <2>1. x = v
    BY <1>1 DEF ExtStep
  <2> QED BY <1>1, <2>1 DEF ExtDone
<1>2. CASE v.ok
  <2>0. PICK w : w = v.m
    OBVIOUS
  <2>1. Owned(w, D, L) /\ KeptBut(m, w, D, d, lo..hi)
    BY <1>2, <2>0 DEF ExtDone
  <2>2. \A j \in lo..hi : IF j <= n - 1 THEN Ent(w, d, j).pa \in Frames /\ w.data[Ent(w, d, j).pa] = "0"
                                  ELSE Ent(w, d, j).pa = 0
    BY <1>2, <2>0 DEF ExtDone
  <2>3. ASSUME NEW y, NEW K, Owned(y, D, K), KeptBut(m, y, D, d, lo..hi), NEW q, q = Undone(y, d, b, a)
        PROVE  Owned(q, D, K) /\ Kept(m, q, D)
    <3>1. Dropped(y, q, D, K, d, lo, hi)
      <4>1. PICK r : r = deallocuvm(y, d, b, a)
        OBVIOUS
      <4>2. q = r.m
        BY <2>3, <4>1 DEF Undone
      <4>3. Dropped(y, r.m, D, K, d, NPages(a), NPages(b) - 1)
        BY <1>0, <2>3, <4>1, DeallocIs
      <4> QED BY <4>2, <4>3
    <3>2. Owned(q, D, K) /\ KeptBut(y, q, D, d, lo..hi) /\ \A j \in lo..hi : Ent(q, d, j).pa = 0
      BY <3>1 DEF Dropped
    <3>3. KeptBut(m, q, D, d, lo..hi)
      BY <2>3, <3>2, KeptTrans
    <3> QED BY <3>2, <3>3, Restored
  <2>4. PICK k : k = kalloc(w)
    OBVIOUS
  <2>5. x = ExtGot(k, d, n, a, b)
    BY <1>2, <2>0, <2>4 DEF ExtStep
  <2>6. CASE w.free = {} /\ k.m = w /\ k.f = 0
    <3>1. PICK q : q = Undone(w, d, b, a)
      OBVIOUS
    <3>2. x = [m |-> q, ok |-> FALSE]
      BY <2>5, <2>6, <3>1 DEF ExtGot
    <3>3. Owned(q, D, L) /\ Kept(m, q, D)
      BY <2>1, <2>3, <3>1
    <3>4. x \in Results /\ x.m = q /\ x.ok = FALSE
      <4>1. q \in Memory
        BY <3>3 DEF Owned
      <4> QED BY <3>2, <4>1 DEF Results
    <3> QED BY <3>3, <3>4 DEF ExtDone
  <2>7. CASE /\ k.f \in w.free /\ k.f \in Frames \ (D \cup L)
             /\ Owned(k.m, D, L \cup {k.f})
             /\ Kept(w, k.m, D)
    <3>0. PICK f, K : f = k.f /\ K = L \cup {k.f}
      OBVIOUS
    <3>1. f \in Frames /\ f # 0 /\ f \in K /\ K \ {f} = L /\ Owned(k.m, D, K) /\ Kept(w, k.m, D)
      BY <2>7, <3>0, FramesAre
    <3>2. PICK y : y = SetData(k.m, f, "0")
      OBVIOUS
    <3>3. Owned(y, D, K) /\ Kept(k.m, y, D) /\ y.data[f] = "0"
      <4>1. PICK c : c = "0" /\ c \in Words
        BY DEF Words
      <4>2. y = SetData(k.m, f, c)
        BY <3>2, <4>1
      <4>3. Owned(y, D, K) /\ Kept(k.m, y, D) /\ y.data[f] = c
        BY <3>1, <4>1, <4>2, LooseWord
      <4> QED BY <4>1, <4>3
    <3>4. Kept(w, y, D)
      BY <3>1, <3>3, AllKept
    <3>5. KeptBut(m, y, D, d, lo..hi)
      <4>1. KeptBut(w, y, D, d, lo..hi)
        BY <3>4 DEF Kept
      <4> QED BY <2>1, <4>1, KeptTrans
    <3>6. PICK z : z = mappages(y, d, n * PGSIZE, f, TRUE)
      OBVIOUS
    <3>7. x = ExtMapped(z, d, f, a, b)
      BY <2>5, <3>0, <3>1, <3>2, <3>6 DEF ExtGot, SetData
    <3>8. n \in UserPages /\ n \in AllPages /\ Ent(y, d, n).pa = 0
      <4>1. n \in UserPages /\ n \in AllPages /\ ~(n <= n - 1)
        BY <1>0
      <4>2. SameEnt(w, y, d, n)
        BY <3>4, <4>1 DEF Kept, KeptBut
      <4>3. Ent(w, d, n).pa = 0
        BY <2>2, <4>1
      <4> QED BY <4>1, <4>2, <4>3 DEF SameEnt
    <3>9. IsResult(z)
      BY <3>6, MapRecord
    <3>10. CASE NoTable(y, d, n, z)
      <4>1. ~z.ok /\ z.m = y
        BY <3>10 DEF NoTable
      <4>2. PICK q : q = Undone(y, d, b, a)
        OBVIOUS
      <4>3. x = [m |-> kfree(q, f), ok |-> FALSE]
        BY <3>7, <4>1, <4>2 DEF ExtMapped
      <4>4. Owned(q, D, K) /\ Kept(m, q, D)
        BY <2>3, <3>3, <3>5, <4>2
      <4>5. Owned(kfree(q, f), D, K \ {f}) /\ Kept(q, kfree(q, f), D)
        BY <3>1, <4>4, KfreeIs
      <4>6. Owned(kfree(q, f), D, L) /\ Kept(m, kfree(q, f), D)
        BY <3>1, <4>4, <4>5, AllKept
      <4>7. x \in Results /\ x.m = kfree(q, f) /\ x.ok = FALSE
        <5>1. kfree(q, f) \in Memory
          BY <4>6 DEF Owned
        <5> QED BY <4>3, <5>1 DEF Results
      <4> QED BY <4>6, <4>7 DEF ExtDone
    <3>11. CASE ~NoTable(y, d, n, z)
      <4>1. /\ z.ok /\ Owned(z.m, D, K \ {f}) /\ KeptBut(y, z.m, D, d, {n})
            /\ Ent(z.m, d, n).pa = f /\ z.m.data[f] = y.data[f]
        <5>1. TRUE \in BOOLEAN
          OBVIOUS
        <5>2. UserMapped(y, D, K, d, n, f, TRUE, z)
          BY <3>1, <3>3, <3>6, <3>8, <3>11, <5>1, MapUser
        <5> QED BY <5>2 DEF UserMapped
      <4>2. x = z
        BY <3>7, <4>1 DEF ExtMapped
      <4>3. Owned(x.m, D, L) /\ x \in Results
        <5>1. Owned(z.m, D, L)
          BY <3>1, <4>1
        <5>2. z.m \in Memory
          BY <5>1 DEF Owned
        <5>3. z \in Results
          BY <3>9, <5>2 DEF Results, IsResult
        <5> QED BY <4>2, <5>1, <5>3
      <4>4. KeptBut(m, x.m, D, d, lo..hi)
        <5>1. {n} \subseteq lo..hi
          OBVIOUS
        <5>2. KeptBut(y, x.m, D, d, lo..hi)
          BY <4>1, <4>2, <5>1, AllKept
        <5> QED BY <3>5, <5>2, KeptTrans
      <4>5. ASSUME NEW j \in lo..hi
            PROVE  IF j <= n THEN Ent(x.m, d, j).pa \in Frames /\ x.m.data[Ent(x.m, d, j).pa] = "0"
                                  ELSE Ent(x.m, d, j).pa = 0
        <5>1. CASE j = n
          <6>1. j <= n
            BY <1>0, <5>1
          <6> QED BY <3>1, <3>3, <4>1, <4>2, <5>1, <6>1
        <5>2. CASE j # n
          <6>1. j \in AllPages /\ (j <= n <=> j <= n - 1)
            BY <1>0, <5>2
          <6>2. SameEnt(y, x.m, d, j) /\ SameEnt(w, y, d, j)
            <7>1. KeptBut(w, y, D, d, {}) /\ KeptBut(y, x.m, D, d, {n})
              BY <3>4, <4>1, <4>2 DEF Kept
            <7> QED BY <5>2, <6>1, <7>1 DEF KeptBut
          <6>3. SameEnt(w, x.m, d, j)
            BY <6>2, SameTrans
          <6>4. IF j <= n - 1 THEN Ent(w, d, j).pa \in Frames /\ w.data[Ent(w, d, j).pa] = "0"
                                  ELSE Ent(w, d, j).pa = 0
            BY <2>2
          <6> QED BY <6>1, <6>3, <6>4, FramesAre DEF SameEnt
        <5> QED BY <5>1, <5>2
      <4> QED BY <4>1, <4>2, <4>3, <4>4, <4>5 DEF ExtDone
    <3> QED BY <3>10, <3>11
  <2> QED BY <2>1, <2>4, <2>6, <2>7, KallocIs
<1>3. v.ok \in BOOLEAN
  BY DEF ExtDone, Results
<1> QED BY <1>1, <1>2, <1>3

(* The loop of allocuvm. *)
ExtLoop(m, d, a, b, first, last) ==
  LET A[j \in first - 1..last] == IF j < first THEN [m |-> m, ok |-> TRUE] ELSE ExtStep(A[j - 1], d, j, a, b)
  IN  IF last < first THEN [m |-> m, ok |-> TRUE] ELSE A[last]
LEMMA ExtLoopIs ==
  ASSUME NEW m, NEW D, NEW L, Owned(m, D, L), NEW d \in D, NEW a \in Nat, NEW b \in Nat, a < b, b < KERNBASE,
         NEW lo \in Nat, NEW hi \in Int, lo <= hi, lo = NPages(a), hi = NPages(b) - 1,
         \A j \in lo..hi : Ent(m, d, j).pa = 0, NEW g, g = ExtLoop(m, d, a, b, lo, hi)
  PROVE  ExtDone(m, g, D, L, d, lo, hi, hi)
<1> DEFINE s0 == [m |-> m, ok |-> TRUE]
           c == lo - 1
           E(f) == f = [j \in c..hi |-> IF j < lo THEN s0 ELSE ExtStep(f[j - 1], d, j, a, b)]
           Good(v, n) == ExtDone(m, v, D, L, d, lo, hi, n)
           I == [n \in c..hi |-> {v \in Results : Good(v, n)}]
           G == [n \in lo..hi |-> [v \in I[n - 1] |-> ExtStep(v, d, n, a, b)]]
<1>0. c \in Int /\ c <= hi /\ c + 1 = lo /\ (\A n \in lo..hi : n - 1 \in c..hi /\ n \in c..hi /\ ~(n < lo))
      /\ c \in c..hi /\ c < lo /\ hi \in lo..hi /\ hi \in c..hi /\ ~(hi < lo)
  OBVIOUS
<1>1. Good(s0, c)
  <2>1. s0.m = m /\ s0.ok = TRUE
    OBVIOUS
  <2>2. m \in Memory
    BY DEF Owned
  <2>3. s0 \in Results
    BY <2>2 DEF Results
  <2>4. KeptBut(m, m, D, d, lo..hi)
    BY AllKept DEF Kept
  <2>5. \A j \in lo..hi : ~(j <= c)
    OBVIOUS
  <2> HIDE DEF s0
  <2> QED BY <2>1, <2>3, <2>4, <2>5 DEF ExtDone
<1> HIDE DEF s0
<1>2. ASSUME NEW n \in lo..hi, NEW v, Good(v, n - 1) PROVE Good(ExtStep(v, d, n, a, b), n)
  BY <1>2, ExtStepIs
<1>3. \A v, n : Good(v, n) => v \in Results
  BY DEF ExtDone
<1> HIDE DEF Good
<1>4. LoopSteps(c, hi, s0, G, I)
  <2>1. s0 \in I[c]
    BY <1>0, <1>1, <1>3
  <2>2. ASSUME NEW n \in lo..hi, NEW s \in I[n - 1] PROVE G[n][s] \in I[n]
    <3>1. Good(s, n - 1) /\ G[n][s] = ExtStep(s, d, n, a, b)
      BY <1>0
    <3> QED BY <1>0, <1>2, <1>3, <3>1
  <2> HIDE DEF I, G
  <2> QED BY <1>0, <2>1, <2>2 DEF LoopSteps
<1>5. PICK f : /\ f = [n \in c..hi |-> f[n]] /\ f[c] = s0
                /\ \A n \in c + 1..hi : f[n - 1] \in I[n - 1] /\ f[n] = G[n][f[n - 1]]
  <2>1. c \in Int /\ c <= hi
    BY <1>0
  <2> HIDE DEF I, G, c
  <2>2. PICK e : LoopOf(e, c, hi, s0, G, I)
    BY <1>4, <2>1, LoopExists
  <2> QED BY <2>2 DEF LoopOf
<1>6. E(f)
  <2>1. ASSUME NEW n \in c..hi PROVE f[n] = IF n < lo THEN s0 ELSE ExtStep(f[n - 1], d, n, a, b)
    <3>1. CASE n = c
      BY <1>0, <1>5, <3>1
    <3>2. CASE n # c
      <4>1. n \in lo..hi /\ n \in c + 1..hi
        BY <3>2
      <4>2. f[n - 1] \in I[n - 1] /\ f[n] = G[n][f[n - 1]]
        BY <1>5, <4>1
      <4> QED BY <1>0, <4>1, <4>2
    <3> QED BY <3>1, <3>2
  <2> QED BY <1>5, <2>1
<1>7. PICK e : e = CHOOSE f0 : E(f0)
  OBVIOUS
<1>8. E(e)
  <2> HIDE DEF E
  <2> QED BY <1>6, <1>7, Zenon
<1>9. g = e[hi]
  <2>1. ~(hi < lo)
    BY <1>0
  <2> QED BY <1>7, <2>1 DEF ExtLoop, s0
<1>10. LoopRuns(e, c, hi, s0, G, I)
  <2>1. e[c] = s0
    BY <1>0, <1>8
  <2>2. ASSUME NEW n \in c + 1..hi, e[n - 1] \in I[n - 1] PROVE e[n] = G[n][e[n - 1]]
    <3>1. n \in lo..hi
      BY <1>0
    <3>2. e[n] = ExtStep(e[n - 1], d, n, a, b)
      BY <1>0, <1>8, <3>1
    <3> QED BY <2>2, <3>1, <3>2
  <2> QED BY <2>1, <2>2 DEF LoopRuns
<1>11. e[hi] \in I[hi]
  <2>1. c \in Int /\ c <= hi /\ hi \in c..hi
    BY <1>0
  <2> HIDE DEF I, G, E, c
  <2> QED BY <1>4, <1>10, <2>1, LoopHolds
<1>12. Good(e[hi], hi)
  BY <1>0, <1>11
<1> QED BY <1>9, <1>12 DEF Good

(* allocuvm adds zeroed pages, or changes no page. *)
AllocDone(m, r, D, L, d, a, b) ==
  \/ r.sz = 0 /\ Owned(r.m, D, L) /\ Kept(m, r.m, D)
  \/ b < a /\ r.sz = a /\ r.m = m
  \/ /\ a <= b /\ b < KERNBASE /\ r.sz = b /\ Owned(r.m, D, L)
     /\ KeptBut(m, r.m, D, d, NPages(a)..NPages(b) - 1)
     /\ \A j \in NPages(a)..NPages(b) - 1 :
          Ent(r.m, d, j).pa \in Frames /\ r.m.data[Ent(r.m, d, j).pa] = "0"
LEMMA AllocIs ==
  ASSUME NEW m, NEW D, NEW L, Owned(m, D, L), NEW d \in D, NEW a \in Nat, NEW b \in Nat,
         \A j \in NPages(a)..NPages(b) - 1 : Ent(m, d, j).pa = 0, NEW r, r = allocuvm(m, d, a, b)
  PROVE  AllocDone(m, r, D, L, d, a, b)
<1>0. KERNBASE \in Nat
  BY KernelBase
<1>1. CASE b >= KERNBASE
  <2>1. r.m = m /\ r.sz = 0
    BY <1>1 DEF allocuvm
  <2> QED BY <2>1, AllKept DEF AllocDone
<1>2. CASE ~(b >= KERNBASE) /\ b < a
  <2>1. r.m = m /\ r.sz = a
    BY <1>2 DEF allocuvm
  <2> QED BY <1>2, <2>1 DEF AllocDone
<1>3. CASE b < KERNBASE /\ a <= b
  <2>1. PICK lo, hi : lo = NPages(a) /\ hi = NPages(b) - 1
    OBVIOUS
  <2>2. /\ lo \in Nat /\ hi \in Int /\ PGROUNDUP(a) \div PGSIZE = lo /\ (b - 1) \div PGSIZE = hi
    BY <2>1, PagesOf DEF NPages
  <2>3. PICK x : x = ExtLoop(m, d, a, b, lo, hi)
    OBVIOUS
  <2>4. r.m = x.m /\ r.sz = IF x.ok THEN b ELSE 0
    <3>1. Extend(m, d, a, b) = ExtLoop(m, d, a, b, PGROUNDUP(a) \div PGSIZE, (b - 1) \div PGSIZE)
      BY DEF Extend, ExtLoop, ExtStep, ExtGot, ExtMapped
    <3>2. Extend(m, d, a, b) = x
      BY <2>2, <2>3, <3>1
    <3>3. ~(b >= KERNBASE) /\ ~(b < a)
      BY <1>0, <1>3
    <3>4. r = [m |-> Extend(m, d, a, b).m, sz |-> IF Extend(m, d, a, b).ok THEN b ELSE 0]
      BY <3>3 DEF allocuvm
    <3> QED BY <3>2, <3>4
  <2>5. ExtDone(m, x, D, L, d, lo, hi, hi)
    <3>1. CASE lo <= hi
      <4>1. a < b
        BY <1>3, <2>1, <2>2, <3>1
      <4>2. \A j \in lo..hi : Ent(m, d, j).pa = 0
        BY <2>1
      <4> QED BY <1>3, <2>1, <2>2, <2>3, <3>1, <4>1, <4>2, ExtLoopIs
    <3>2. CASE hi < lo
      <4>1. x = [m |-> m, ok |-> TRUE]
        BY <2>3, <3>2 DEF ExtLoop
      <4>2. x.m = m /\ x.ok = TRUE
        BY <4>1
      <4>3. m \in Memory
        BY DEF Owned
      <4>4. x \in Results
        BY <4>1, <4>3 DEF Results
      <4>5. KeptBut(m, m, D, d, lo..hi)
        BY AllKept DEF Kept
      <4>6. lo..hi = {}
        BY <2>2, <3>2
      <4> QED BY <4>2, <4>4, <4>5, <4>6 DEF ExtDone
    <3> QED BY <2>2, <3>1, <3>2
  <2>6. x.ok \in BOOLEAN /\ Owned(x.m, D, L)
    BY <2>5 DEF ExtDone, Results
  <2>7. CASE x.ok
    <3>1. KeptBut(m, x.m, D, d, lo..hi) /\ \A j \in lo..hi : Ent(x.m, d, j).pa \in Frames /\ x.m.data[Ent(x.m, d, j).pa] = "0"
      <4>1. \A j \in lo..hi : j <= hi
        BY <2>2
      <4> QED BY <2>5, <2>7, <4>1 DEF ExtDone
    <3> QED BY <1>3, <2>1, <2>4, <2>6, <2>7, <3>1 DEF AllocDone
  <2>8. CASE ~x.ok
    <3>1. Kept(m, x.m, D) /\ r.sz = 0
      BY <2>4, <2>5, <2>8 DEF ExtDone
    <3> QED BY <2>4, <2>6, <3>1 DEF AllocDone
  <2> QED BY <2>6, <2>7, <2>8
<1> QED BY <1>0, <1>1, <1>2, <1>3

-----------------------------------------------------------------------------
(* copyuvm has copied n pages of p to d, starting from m. *)
KernelThere(m, d) == \A j \in AllPages \ UserPages : Ent(m, d, j) = [pa |-> Kernel, u |-> FALSE]
CopyDone(m, x, D, L, p, d, n) ==
  /\ x \in Results /\ Owned(x.m, D \cup {d}, L) /\ Kept(m, x.m, D)
  /\ x.ok => /\ KernelThere(x.m, d)
             /\ \A j \in UserPages :
                  IF j < n THEN Ent(x.m, d, j).pa \in Frames
                                /\ x.m.data[Ent(x.m, d, j).pa] = m.data[Ent(m, p, j).pa]
                  ELSE Ent(x.m, d, j).pa = 0
CopyStep(v, p, d, j) ==
  IF ~v.ok THEN v ELSE CopyPage(v.m, d, (j - 1) * PGSIZE, Pte(v.m, p, (j - 1) * PGSIZE))
LEMMA CopyStepIs ==
  ASSUME NEW m, NEW D, NEW L, NEW p \in D, NEW d, d \notin D, NEW n \in Nat, n - 1 \in UserPages,
         Ent(m, p, n - 1).pa \in Frames,
         NEW v, CopyDone(m, v, D, L, p, d, n - 1), NEW x, x = CopyStep(v, p, d, n)
  PROVE  CopyDone(m, x, D, L, p, d, n)
<1>1. CASE ~v.ok
  <2>1. x = v
    BY <1>1 DEF CopyStep
  <2> QED BY <1>1, <2>1 DEF CopyDone
<1>2. CASE v.ok
  <2>1. PICK i : i = n - 1
    OBVIOUS
  <2>2. PICK w, E : w = v.m /\ E = D \cup {d}
    OBVIOUS
  <2>3. /\ Owned(w, E, L) /\ Kept(m, w, D) /\ KernelThere(w, d)
        /\ \A j \in UserPages :
                  IF j < i THEN Ent(w, d, j).pa \in Frames
                                /\ w.data[Ent(w, d, j).pa] = m.data[Ent(m, p, j).pa]
                  ELSE Ent(w, d, j).pa = 0
    BY <1>2, <2>1, <2>2 DEF CopyDone
  <2>4. d \in E /\ p \in E /\ E \ {d} = D /\ i \in UserPages /\ i \in AllPages /\ UserPages \subseteq AllPages
        /\ AllPages \subseteq Nat
    BY <2>1, <2>2, Place
  <2>5. PICK q : q = Ent(w, p, i)
    OBVIOUS
  <2>6. q = Ent(m, p, i) /\ q.pa \in Frames /\ q.pa # 0 /\ w.data[q.pa] = m.data[q.pa]
    <3>1. SameEnt(m, w, p, i)
      BY <2>3, <2>4 DEF Kept, KeptBut
    <3> QED BY <2>1, <2>5, <3>1, FramesAre DEF SameEnt
  <2>7. q.u \in BOOLEAN
    <3>1. PICK k, o, l : Own(w, E, L, k, o, l)
      BY <2>3 DEF Owned
    <3>2. q \in Ptes
      <4>1. w \in Memory
        BY <2>3 DEF Owned
      <4> QED BY <2>4, <2>5, <3>1, <4>1, EntType
    <3> QED BY <3>2 DEF Ptes
  <2>8. x = CopyPage(w, d, i * PGSIZE, q)
    BY <1>2, <2>1, <2>2, <2>5 DEF CopyStep, Ent
  <2>9. PICK k : k = kalloc(w)
    OBVIOUS
  <2>10. CASE w.free = {} /\ k.m = w /\ k.f = 0
    <3>1. x = [m |-> w, ok |-> FALSE]
      BY <2>6, <2>8, <2>9, <2>10 DEF CopyPage
    <3>2. x \in Results /\ x.m = w /\ x.ok = FALSE
      <4>1. w \in Memory
        BY <2>3 DEF Owned
      <4> QED BY <3>1, <4>1 DEF Results
    <3> QED BY <2>2, <2>3, <3>2 DEF CopyDone
  <2>11. CASE /\ k.f \in w.free /\ k.f \in Frames \ (E \cup L)
              /\ Owned(k.m, E, L \cup {k.f})
              /\ Kept(w, k.m, E)
    <3>0. PICK f, K : f = k.f /\ K = L \cup {k.f}
      OBVIOUS
    <3>1. f \in Frames /\ f # 0 /\ f \in K /\ K \ {f} = L /\ Owned(k.m, E, K) /\ Kept(w, k.m, E)
      BY <2>11, <3>0, FramesAre
    <3>2. PICK c, b : c = w.data[q.pa] /\ b = q.u
      OBVIOUS
    <3>3. PICK y : y = SetData(k.m, f, c)
      OBVIOUS
    <3>4. Owned(y, E, K) /\ Kept(k.m, y, E) /\ y.data[f] = c
      <4>1. w \in Memory
        BY <2>3 DEF Owned
      <4>2. c \in Words
        BY <2>6, <3>2, <4>1, MemoryIs
      <4> QED BY <3>1, <3>3, <4>2, LooseWord
    <3>5. Kept(w, y, E)
      BY <3>1, <3>4, AllKept
    <3>6. PICK z : z = mappages(y, d, i * PGSIZE, f, b)
      OBVIOUS
    <3>7. x = IF z.ok THEN z ELSE [m |-> kfree(z.m, f), ok |-> FALSE]
      <4>1. q.pa # 0 /\ k.f # 0
        BY <2>6, <3>0, <3>1
      <4> QED BY <2>8, <2>9, <3>0, <3>2, <3>3, <3>6, <4>1 DEF CopyPage, SetData
    <3>8. IsResult(z)
      BY <3>6, MapRecord
    <3>9. Ent(y, d, i).pa = 0
      <4>1. SameEnt(w, y, d, i)
        BY <2>4, <3>5 DEF Kept, KeptBut
      <4>2. ~(i < i)
        BY <2>4
      <4>3. Ent(w, d, i).pa = 0
        BY <2>3, <2>4, <4>2
      <4> QED BY <4>1, <4>3 DEF SameEnt
    <3>10. Kept(m, y, D)
      <4>1. Kept(w, y, D)
        BY <2>2, <3>5, AllKept
      <4> QED BY <2>3, <4>1, AllKept
    <3>11. CASE NoTable(y, d, i, z)
      <4>1. ~z.ok /\ z.m = y
        BY <3>11 DEF NoTable
      <4>2. x = [m |-> kfree(y, f), ok |-> FALSE]
        BY <3>7, <4>1
      <4>3. Owned(kfree(y, f), E, K \ {f}) /\ Kept(y, kfree(y, f), E)
        BY <3>1, <3>4, KfreeIs
      <4>4. Kept(m, kfree(y, f), D)
        <5>1. Kept(y, kfree(y, f), D)
          BY <2>2, <4>3, AllKept
        <5> QED BY <3>10, <5>1, AllKept
      <4>5. x \in Results /\ x.m = kfree(y, f) /\ x.ok = FALSE
        <5>1. kfree(y, f) \in Memory
          BY <4>3 DEF Owned
        <5> QED BY <4>2, <5>1 DEF Results
      <4> QED BY <2>2, <3>1, <4>3, <4>4, <4>5 DEF CopyDone
    <3>12. CASE ~NoTable(y, d, i, z)
      <4>1. /\ z.ok /\ Owned(z.m, E, L) /\ KeptBut(y, z.m, E, d, {i})
            /\ Ent(z.m, d, i).pa = f /\ z.m.data[f] = c
        <5>1. UserMapped(y, E, K, d, i, f, b, z)
          <6>1. b \in BOOLEAN
            BY <2>7, <3>2
          <6> QED BY <2>4, <3>1, <3>4, <3>6, <3>9, <3>12, <6>1, MapUser
        <5>2. /\ z.ok /\ Owned(z.m, E, K \ {f}) /\ KeptBut(y, z.m, E, d, {i})
              /\ Ent(z.m, d, i) = [pa |-> f, u |-> b] /\ z.m.data[f] = y.data[f]
          BY <5>1 DEF UserMapped
        <5>3. Ent(z.m, d, i).pa = f
          BY <5>2
        <5> QED BY <3>1, <3>4, <5>2, <5>3
      <4>2. x = z
        BY <3>7, <4>1
      <4>3. x \in Results
        <5>1. z.m \in Memory
          BY <4>1 DEF Owned
        <5> QED BY <3>8, <4>2, <5>1 DEF Results, IsResult
      <4>4. Kept(m, z.m, D)
        <5>1. Kept(y, z.m, D)
          BY <2>4, <4>1, AllKept
        <5> QED BY <3>10, <5>1, AllKept
      <4>5. \A j \in AllPages : j # i => SameEnt(w, z.m, d, j)
        <5>1. \A j \in AllPages : SameEnt(w, y, d, j)
          BY <2>4, <3>5 DEF Kept, KeptBut
        <5>2. \A j \in AllPages : j # i => SameEnt(y, z.m, d, j)
          BY <2>4, <4>1 DEF KeptBut
        <5> QED BY <5>1, <5>2, SameTrans
      <4>6. KernelThere(z.m, d)
        <5> SUFFICES ASSUME NEW j \in AllPages \ UserPages PROVE Ent(z.m, d, j) = [pa |-> Kernel, u |-> FALSE]
          BY DEF KernelThere
        <5>1. PICK e : e = [pa |-> Kernel, u |-> FALSE]
          OBVIOUS
        <5>2. e.pa # 0
          BY <5>1, FramesAre
        <5>3. Ent(w, d, j) = e
          BY <2>3, <5>1 DEF KernelThere
        <5>4. SameEnt(w, z.m, d, j)
          BY <2>4, <4>5
        <5>5. Ent(z.m, d, j) = e
          BY <5>2, <5>3, <5>4 DEF SameEnt
        <5> QED BY <5>1, <5>5
      <4>7. ASSUME NEW j \in UserPages
            PROVE  IF j < n THEN Ent(z.m, d, j).pa \in Frames
                                /\ z.m.data[Ent(z.m, d, j).pa] = m.data[Ent(m, p, j).pa]
                   ELSE Ent(z.m, d, j).pa = 0
        <5>1. CASE j = i
          <6>1. j < n
            BY <2>1, <2>4, <5>1
          <6> QED BY <2>6, <3>1, <3>2, <4>1, <5>1, <6>1
        <5>2. CASE j # i
          <6>1. (j < n <=> j < i) /\ j \in AllPages
            BY <2>1, <2>4, <5>2
          <6>2. SameEnt(w, z.m, d, j)
            BY <4>5, <5>2, <6>1
          <6>3. IF j < i THEN Ent(w, d, j).pa \in Frames
                                /\ w.data[Ent(w, d, j).pa] = m.data[Ent(m, p, j).pa]
                ELSE Ent(w, d, j).pa = 0
            BY <2>3
          <6> QED BY <6>1, <6>2, <6>3, FramesAre DEF SameEnt
        <5> QED BY <5>1, <5>2
      <4> QED BY <2>2, <4>1, <4>2, <4>3, <4>4, <4>6, <4>7 DEF CopyDone
    <3> QED BY <3>11, <3>12
  <2> QED BY <2>3, <2>9, <2>10, <2>11, KallocIs
<1>3. v.ok \in BOOLEAN
  BY DEF CopyDone, Results
<1> QED BY <1>1, <1>2, <1>3

(* The loop of copyuvm. *)
CopyLoop(z, p, d, n) ==
  LET C[j \in 0..n] == IF j = 0 THEN [m |-> z, ok |-> TRUE] ELSE CopyStep(C[j - 1], p, d, j)
  IN  C[n]
LEMMA CopyLoopIs ==
  ASSUME NEW z, NEW D, NEW L, NEW p \in D, NEW d, d \notin D, Owned(z, D \cup {d}, L), Fresh(z, d, NPT),
         NEW N \in 0..NUT * NPT, \A j \in 0..N - 1 : Ent(z, p, j).pa \in Frames, NEW g, g = CopyLoop(z, p, d, N)
  PROVE  CopyDone(z, g, D, L, p, d, N)
<1> DEFINE s0 == [m |-> z, ok |-> TRUE]
           E(f) == f = [j \in 0..N |-> IF j = 0 THEN s0 ELSE CopyStep(f[j - 1], p, d, j)]
           I == [n \in 0..N |-> {v \in Results : CopyDone(z, v, D, L, p, d, n)}]
           G == [n \in 1..N |-> [v \in I[n - 1] |-> CopyStep(v, p, d, n)]]
<1>0. N \in Nat /\ N \in Int /\ 0 <= N /\ 0 + 1 = 1 /\ 0 \in 0..N /\ N \in 0..N /\ 0 \in Int
      /\ (\A n \in 1..N : n \in Nat /\ n - 1 \in 0..N /\ n \in 0..N /\ n # 0 /\ n - 1 \in UserPages /\ n - 1 \in 0..N - 1)
  BY VmSizes DEF UserPages
<1>1. CopyDone(z, s0, D, L, p, d, 0)
  <2>1. s0.m = z /\ s0.ok = TRUE
    OBVIOUS
  <2>2. z \in Memory
    BY DEF Owned
  <2>3. s0 \in Results
    BY <2>2 DEF Results
  <2>4. Kept(z, z, D)
    BY AllKept
  <2>5. KernelThere(z, d)
    <3>1. \A j \in AllPages : j < NUT * NPT + NPT
      BY VmSizes DEF AllPages
    <3> QED BY <3>1 DEF Fresh, KernelThere
  <2>6. \A j \in UserPages : ~(j < 0) /\ Ent(z, d, j).pa = 0
    <3>1. \A j \in UserPages : ~(j < 0)
      BY DEF UserPages
    <3> QED BY <3>1 DEF Fresh
  <2> HIDE DEF s0
  <2> QED BY <2>1, <2>3, <2>4, <2>5, <2>6 DEF CopyDone
<1> HIDE DEF s0
<1>2. ASSUME NEW n \in 1..N, NEW v, CopyDone(z, v, D, L, p, d, n - 1)
      PROVE  CopyDone(z, CopyStep(v, p, d, n), D, L, p, d, n)
  <2>1. Ent(z, p, n - 1).pa \in Frames /\ n \in Nat /\ n - 1 \in UserPages
    BY <1>0
  <2> QED BY <1>2, <2>1, CopyStepIs
<1>3. \A v, n : CopyDone(z, v, D, L, p, d, n) => v \in Results
  BY DEF CopyDone
<1>4. LoopSteps(0, N, s0, G, I)
  <2>1. s0 \in I[0]
    BY <1>0, <1>1, <1>3
  <2>2. ASSUME NEW n \in 1..N, NEW s \in I[n - 1] PROVE G[n][s] \in I[n]
    <3>1. CopyDone(z, s, D, L, p, d, n - 1) /\ G[n][s] = CopyStep(s, p, d, n)
      BY <1>0
    <3> QED BY <1>0, <1>2, <1>3, <3>1
  <2> HIDE DEF I, G
  <2> QED BY <1>0, <2>1, <2>2 DEF LoopSteps
<1>5. PICK f : /\ f = [n \in 0..N |-> f[n]] /\ f[0] = s0
               /\ \A n \in 0 + 1..N : f[n - 1] \in I[n - 1] /\ f[n] = G[n][f[n - 1]]
  <2>1. N \in Int /\ 0 \in Int /\ 0 <= N
    BY <1>0
  <2> HIDE DEF I, G
  <2>2. PICK e : LoopOf(e, 0, N, s0, G, I)
    BY <1>4, <2>1, LoopExists
  <2> QED BY <2>2 DEF LoopOf
<1>6. E(f)
  <2>1. ASSUME NEW n \in 0..N PROVE f[n] = IF n = 0 THEN s0 ELSE CopyStep(f[n - 1], p, d, n)
    <3>1. CASE n = 0
      BY <1>5, <3>1
    <3>2. CASE n # 0
      <4>1. n \in 1..N /\ n \in 0 + 1..N
        BY <1>0, <3>2
      <4>2. f[n - 1] \in I[n - 1] /\ f[n] = G[n][f[n - 1]]
        BY <1>5, <4>1
      <4> QED BY <1>0, <4>1, <4>2
    <3> QED BY <3>1, <3>2
  <2> QED BY <1>5, <2>1
<1>7. PICK e : e = CHOOSE f0 : E(f0)
  OBVIOUS
<1>8. E(e)
  <2> HIDE DEF E
  <2> QED BY <1>6, <1>7, Zenon
<1>9. g = e[N]
  BY <1>7 DEF CopyLoop, s0
<1>10. LoopRuns(e, 0, N, s0, G, I)
  <2>1. e[0] = s0
    BY <1>0, <1>8
  <2>2. ASSUME NEW n \in 0 + 1..N, e[n - 1] \in I[n - 1] PROVE e[n] = G[n][e[n - 1]]
    <3>1. n \in 1..N
      BY <1>0
    <3>2. e[n] = CopyStep(e[n - 1], p, d, n)
      BY <1>0, <1>8, <3>1
    <3> QED BY <2>2, <3>1, <3>2
  <2> QED BY <2>1, <2>2 DEF LoopRuns
<1>11. e[N] \in I[N]
  <2> HIDE DEF I, G, E
  <2> QED BY <1>0, <1>4, <1>10, LoopHolds
<1>12. CopyDone(z, e[N], D, L, p, d, N)
  BY <1>0, <1>11
<1> QED BY <1>9, <1>12

(* copyuvm makes a directory with copies of the pages below sz, or gives   *)
(* back all that it took.                                                  *)
Copied(m, v, p, d, n) ==
  \A j \in UserPages :
    IF j < n THEN Ent(v, d, j).pa \in Frames /\ v.data[Ent(v, d, j).pa] = m.data[Ent(m, p, j).pa]
    ELSE Ent(v, d, j).pa = 0
AllCopied(m, r, D, L, p, n) ==
  \/ r.d = 0 /\ Owned(r.m, D, L) /\ Kept(m, r.m, D)
  \/ /\ r.d \in Frames \ (D \cup L) /\ Owned(r.m, D \cup {r.d}, L) /\ Kept(m, r.m, D)
     /\ KernelThere(r.m, r.d) /\ Copied(m, r.m, p, r.d, n)
LEMMA CopyIs ==
  ASSUME NEW m, NEW D, NEW L, Owned(m, D, L), NEW p \in D, NEW sz \in 0..KERNBASE - 1,
         \A j \in 0..NPages(sz) - 1 : Ent(m, p, j).pa \in Frames, NEW r, r = copyuvm(m, p, sz)
  PROVE  AllCopied(m, r, D, L, p, NPages(sz))
<1>1. PICK N : N = NPages(sz)
  OBVIOUS
<1>2. N \in 0..NUT * NPT
  BY <1>1, KernelBase
<1>3. PICK k : k = setupkvm(m)
  OBVIOUS
<1>4. PICK g : g = CopyLoop(k.m, p, k.d, N)
  OBVIOUS
<1>5. r = IF k.d = 0 THEN k ELSE Whole(g, k.d)
  BY <1>1, <1>3, <1>4 DEF copyuvm, CopyLoop, CopyStep, NPages
<1>6. SetupDone(m, k, D, L)
  BY <1>3, SetupIs
<1>7. CASE k.d = 0
  <2>1. r = k
    BY <1>5, <1>7
  <2>2. Owned(k.m, D, L) /\ Kept(m, k.m, D)
    BY <1>6, <1>7, FramesAre DEF SetupDone
  <2> QED BY <1>7, <2>1, <2>2 DEF AllCopied
<1>8. CASE k.d # 0
  <2>1. PICK d, z, E : d = k.d /\ z = k.m /\ E = D \cup {d}
    OBVIOUS
  <2>2. /\ d \in Frames \ (D \cup L) /\ Owned(z, E, L) /\ Kept(m, z, D) /\ Fresh(z, d, NPT)
        /\ d \notin D /\ E \ {d} = D /\ d \in E
    BY <1>6, <1>8, <2>1 DEF SetupDone
  <2>3. \A j \in 0..N - 1 : j \in UserPages /\ j \in AllPages
    BY <1>2, VmSizes, Place DEF UserPages
  <2>4. ASSUME NEW j \in 0..N - 1
        PROVE  Ent(z, p, j).pa \in Frames /\ Ent(z, p, j) = Ent(m, p, j) /\ z.data[Ent(m, p, j).pa] = m.data[Ent(m, p, j).pa]
    <3>1. SameEnt(m, z, p, j)
      BY <2>2, <2>3 DEF Kept, KeptBut
    <3>2. Ent(m, p, j).pa \in Frames /\ Ent(m, p, j).pa # 0
      BY <1>1, FramesAre
    <3> QED BY <3>1, <3>2 DEF SameEnt
  <2>5. CopyDone(z, g, D, L, p, d, N)
    <3>1. g = CopyLoop(z, p, d, N) /\ Owned(z, D \cup {d}, L)
      BY <1>4, <2>1, <2>2
    <3>2. \A j \in 0..N - 1 : Ent(z, p, j).pa \in Frames
      BY <2>4
    <3> QED BY <1>2, <2>2, <3>1, <3>2, CopyLoopIs
  <2>6. Owned(g.m, E, L) /\ Kept(m, g.m, D) /\ g.ok \in BOOLEAN
    <3>1. Owned(g.m, D \cup {d}, L) /\ Kept(z, g.m, D) /\ g.ok \in BOOLEAN
      BY <2>5 DEF CopyDone, Results
    <3> QED BY <2>1, <2>2, <3>1, AllKept
  <2>7. r = Whole(g, d)
    BY <1>5, <1>8, <2>1
  <2>8. CASE g.ok
    <3>1. r.m = g.m /\ r.d = d
      BY <2>7, <2>8 DEF Whole
    <3>2. KernelThere(g.m, d)
      BY <2>5, <2>8 DEF CopyDone
    <3>3. Copied(m, g.m, p, d, N)
      <4> SUFFICES ASSUME NEW j \in UserPages
                   PROVE IF j < N THEN Ent(g.m, d, j).pa \in Frames /\ g.m.data[Ent(g.m, d, j).pa] = m.data[Ent(m, p, j).pa]
                         ELSE Ent(g.m, d, j).pa = 0
        BY DEF Copied
      <4>1. IF j < N THEN Ent(g.m, d, j).pa \in Frames /\ g.m.data[Ent(g.m, d, j).pa] = z.data[Ent(z, p, j).pa]
                         ELSE Ent(g.m, d, j).pa = 0
        BY <2>5, <2>8 DEF CopyDone
      <4>2. j < N => j \in 0..N - 1
        BY <1>2, VmSizes DEF UserPages
      <4> QED BY <2>4, <4>1, <4>2
    <3> QED BY <1>1, <2>1, <2>2, <2>6, <3>1, <3>2, <3>3 DEF AllCopied
  <2>9. CASE ~g.ok
    <3>1. r.m = freevm(g.m, d) /\ r.d = 0
      BY <2>7, <2>9 DEF Whole
    <3>2. Owned(r.m, E \ {d}, L) /\ Kept(g.m, r.m, E \ {d})
      BY <2>2, <2>6, <3>1, FreevmIs
    <3>3. Owned(r.m, D, L) /\ Kept(m, r.m, D)
      BY <2>2, <2>6, <3>2, AllKept
    <3> QED BY <3>1, <3>3 DEF AllCopied
  <2> QED BY <2>6, <2>8, <2>9
<1> QED BY <1>7, <1>8

-----------------------------------------------------------------------------
(* The pages of d hold the words w, there is no other, and the kernel is   *)
(* there.                                                                  *)
ReadsAs(m, d, w) ==
  /\ KernelThere(m, d)
  /\ \A j \in UserPages : IF j < Len(w) THEN Ent(m, d, j).pa # 0 /\ m.data[Ent(m, d, j).pa] = w[j + 1]
                          ELSE Ent(m, d, j).pa = 0

(* A call that keeps a directory keeps what its process sees. *)
LEMMA ReadsKept ==
  ASSUME NEW m, NEW v, NEW D, NEW L, Owned(m, D, L), NEW F, F \subseteq D, Kept(m, v, F), NEW d \in F, NEW w, ReadsAs(m, d, w)
  PROVE  ReadsAs(v, d, w)
<1>0. UserPages \subseteq AllPages /\ d \in D
  BY Place
<1>1. \A j \in AllPages : SameEnt(m, v, d, j)
  <2>1. KeptBut(m, v, F, 0, {})
    BY DEF Kept
  <2> QED BY <2>1 DEF KeptBut
<1>2. KernelThere(v, d)
  <2> SUFFICES ASSUME NEW j \in AllPages \ UserPages PROVE Ent(v, d, j) = [pa |-> Kernel, u |-> FALSE]
    BY DEF KernelThere
  <2>1. PICK e : e = [pa |-> Kernel, u |-> FALSE]
    OBVIOUS
  <2>2. e.pa # 0
    BY <2>1, FramesAre
  <2>3. Ent(m, d, j) = e
    BY <2>1 DEF KernelThere, ReadsAs
  <2>4. Ent(v, d, j) = e
    BY <1>1, <2>2, <2>3 DEF SameEnt
  <2> QED BY <2>1, <2>4
<1>3. ASSUME NEW j \in UserPages
      PROVE  IF j < Len(w) THEN Ent(v, d, j).pa # 0 /\ v.data[Ent(v, d, j).pa] = w[j + 1] ELSE Ent(v, d, j).pa = 0
  <2>1. SameEnt(m, v, d, j)
    BY <1>0, <1>1
  <2>2. IF j < Len(w) THEN Ent(m, d, j).pa # 0 /\ m.data[Ent(m, d, j).pa] = w[j + 1] ELSE Ent(m, d, j).pa = 0
    BY DEF ReadsAs
  <2>3. Ent(m, d, j).pa # 0 => Ent(m, d, j).pa \in Frames
    BY <1>0, OwnFacts
  <2> QED BY <2>1, <2>2, <2>3 DEF SameEnt
<1> QED BY <1>2, <1>3 DEF ReadsAs

(* The memory m, the spaces sp and the words im that belong together. *)
Dirs(m, sp) == {m.kpgdir} \cup ({sp[s].pgdir : s \in Spaces} \ {0})
Slots == [pgdir : Frames \cup {0}, sz : 0..KERNBASE - 1]
Apart(m, sp) ==
  /\ \A s \in Spaces : sp[s].pgdir # m.kpgdir
  /\ \A s, t \in Spaces : s # t /\ sp[s].pgdir = sp[t].pgdir => sp[s].pgdir = 0
Sees(m, sp, im, s) ==
  sp[s].pgdir # 0 => Len(im[s]) = NPages(sp[s].sz) /\ ReadsAs(m, sp[s].pgdir, im[s])
Fits(m, sp, im) ==
  /\ Owned(m, Dirs(m, sp), {}) /\ m.kpgdir \in Frames
  /\ sp \in [Spaces -> Slots] /\ im \in [Spaces -> Seq(Words)]
  /\ Apart(m, sp)
  /\ \A s \in Spaces : Sees(m, sp, im, s)

(* A call that keeps all directories. *)
LEMMA NoSlot ==
  ASSUME NEW m, NEW sp, NEW im, Fits(m, sp, im), NEW v, Owned(v, Dirs(m, sp), {}), Kept(m, v, Dirs(m, sp))
  PROVE  Fits(v, sp, im) /\ Dirs(v, sp) = Dirs(m, sp)
<1>1. v.kpgdir = m.kpgdir
  BY DEF Kept, KeptBut
<1>2. Dirs(v, sp) = Dirs(m, sp) /\ Apart(v, sp)
  BY <1>1 DEF Dirs, Apart, Fits
<1>3. ASSUME NEW s \in Spaces, sp[s].pgdir # 0 PROVE Len(im[s]) = NPages(sp[s].sz) /\ ReadsAs(v, sp[s].pgdir, im[s])
  <2>1. sp[s].pgdir \in Dirs(m, sp)
    BY <1>3 DEF Dirs
  <2>2. Len(im[s]) = NPages(sp[s].sz) /\ ReadsAs(m, sp[s].pgdir, im[s]) /\ Owned(m, Dirs(m, sp), {})
    BY <1>3 DEF Fits, Sees
  <2> QED BY <2>1, <2>2, ReadsKept
<1> QED BY <1>1, <1>2, <1>3 DEF Fits, Sees

(* A call that changes one space. *)
SlotOk(v, F, q, w) ==
  q.pgdir # 0 => q.pgdir \notin F /\ Len(w) = NPages(q.sz) /\ ReadsAs(v, q.pgdir, w)
LEMMA OneSlot ==
  ASSUME NEW m, NEW sp, NEW im, Fits(m, sp, im), NEW s \in Spaces, NEW F, F = Dirs(m, sp) \ {sp[s].pgdir},
         NEW v, NEW q \in Slots, NEW w \in Seq(Words),
         Owned(v, F \cup ({q.pgdir} \ {0}), {}), Kept(m, v, F), SlotOk(v, F, q, w),
         NEW y, y = [sp EXCEPT ![s] = q], NEW z, z = [im EXCEPT ![s] = w]
  PROVE  Fits(v, y, z)
<1>0. /\ sp \in [Spaces -> Slots] /\ im \in [Spaces -> Seq(Words)] /\ Apart(m, sp)
      /\ m.kpgdir \in Frames /\ Owned(m, Dirs(m, sp), {})
      /\ \A t \in Spaces : Sees(m, sp, im, t)
  BY DEF Fits
<1>1. v.kpgdir = m.kpgdir
  BY DEF Kept, KeptBut
<1>2. /\ y \in [Spaces -> Slots] /\ y[s] = q /\ \A t \in Spaces : t # s => y[t] = sp[t]
  BY <1>0
<1>3. z \in [Spaces -> Seq(Words)] /\ z[s] = w /\ \A t \in Spaces : t # s => z[t] = im[t]
  <2> PICK S : S = Seq(Words)
    OBVIOUS
  <2>1. im \in [Spaces -> S] /\ w \in S
    BY <1>0
  <2> QED BY <2>1
<1>4. m.kpgdir \in F /\ \A t \in Spaces : t # s /\ sp[t].pgdir # 0 => sp[t].pgdir \in F
  <2>1. m.kpgdir \in F
    BY <1>0 DEF Apart, Dirs
  <2>2. ASSUME NEW t \in Spaces, t # s, sp[t].pgdir # 0 PROVE sp[t].pgdir \in F
    <3>1. sp[t].pgdir \in Dirs(m, sp)
      BY <2>2 DEF Dirs
    <3>2. sp[t].pgdir # sp[s].pgdir
      BY <1>0, <2>2 DEF Apart
    <3> QED BY <3>1, <3>2
  <2> QED BY <2>1, <2>2
<1>5. \A f \in F : f = m.kpgdir \/ \E t \in Spaces : t # s /\ sp[t].pgdir = f /\ f # 0
  BY DEF Dirs
<1>6. Dirs(v, y) = F \cup ({q.pgdir} \ {0})
  <2>1. ASSUME NEW f \in Dirs(v, y) PROVE f \in F \cup ({q.pgdir} \ {0})
    <3>1. CASE f = v.kpgdir
      BY <1>1, <1>4, <3>1
    <3>2. CASE f # v.kpgdir
      <4>1. PICK t \in Spaces : f = y[t].pgdir /\ f # 0
        BY <3>2 DEF Dirs
      <4>2. CASE t = s
        BY <1>2, <4>1, <4>2
      <4>3. CASE t # s
        BY <1>2, <1>4, <4>1, <4>3
      <4> QED BY <4>2, <4>3
    <3> QED BY <3>1, <3>2
  <2>2. ASSUME NEW f \in F \cup ({q.pgdir} \ {0}) PROVE f \in Dirs(v, y)
    <3>1. CASE f \in F
      <4>1. CASE f = m.kpgdir
        BY <1>1, <4>1 DEF Dirs
      <4>2. CASE f # m.kpgdir
        <5>1. PICK t \in Spaces : t # s /\ sp[t].pgdir = f /\ f # 0
          BY <1>5, <3>1, <4>2
        <5>2. y[t].pgdir = f
          BY <1>2, <5>1
        <5> QED BY <5>1, <5>2 DEF Dirs
      <4> QED BY <4>1, <4>2
    <3>2. CASE f \in {q.pgdir} \ {0}
      <4>1. y[s].pgdir = f /\ f # 0
        BY <1>2, <3>2
      <4> QED BY <4>1 DEF Dirs
    <3> QED BY <3>1, <3>2
  <2> QED BY <2>1, <2>2
<1>7. Apart(v, y)
  <2>1. ASSUME NEW t \in Spaces PROVE y[t].pgdir # v.kpgdir
    <3>1. CASE t = s
      <4>1. q.pgdir # m.kpgdir
        BY <1>0, <1>4, FramesAre DEF SlotOk
      <4> QED BY <1>1, <1>2, <3>1, <4>1
    <3>2. CASE t # s
      BY <1>0, <1>1, <1>2, <3>2 DEF Apart
    <3> QED BY <3>1, <3>2
  <2>2. ASSUME NEW t \in Spaces, NEW r \in Spaces, t # r, y[t].pgdir = y[r].pgdir PROVE y[t].pgdir = 0
    <3>1. CASE t = s
      <4>1. y[r].pgdir = sp[r].pgdir /\ y[t].pgdir = q.pgdir
        BY <1>2, <2>2, <3>1
      <4> QED BY <1>4, <2>2, <3>1, <4>1 DEF SlotOk
    <3>2. CASE r = s
      <4>1. y[t].pgdir = sp[t].pgdir /\ y[r].pgdir = q.pgdir
        BY <1>2, <2>2, <3>2
      <4> QED BY <1>4, <2>2, <3>2, <4>1 DEF SlotOk
    <3>3. CASE t # s /\ r # s
      BY <1>0, <1>2, <2>2, <3>3 DEF Apart
    <3> QED BY <3>1, <3>2, <3>3
  <2> QED BY <2>1, <2>2 DEF Apart
<1>8. ASSUME NEW t \in Spaces, y[t].pgdir # 0 PROVE Len(z[t]) = NPages(y[t].sz) /\ ReadsAs(v, y[t].pgdir, z[t])
  <2>1. CASE t = s
    BY <1>2, <1>3, <1>8, <2>1 DEF SlotOk
  <2>2. CASE t # s
    <3>1. y[t] = sp[t] /\ z[t] = im[t]
      BY <1>2, <1>3, <2>2
    <3>2. Len(im[t]) = NPages(sp[t].sz) /\ ReadsAs(m, sp[t].pgdir, im[t]) /\ sp[t].pgdir \in F
      BY <1>0, <1>4, <1>8, <2>2, <3>1 DEF Sees
    <3>3. F \subseteq Dirs(m, sp)
      OBVIOUS
    <3>4. ReadsAs(v, sp[t].pgdir, im[t])
      BY <1>0, <3>2, <3>3, ReadsKept
    <3> QED BY <3>1, <3>2, <3>4
  <2> QED BY <2>1, <2>2
<1>9. Owned(v, Dirs(v, y), {})
  BY <1>6
<1> QED BY <1>0, <1>1, <1>2, <1>3, <1>7, <1>8, <1>9 DEF Fits, Sees

-----------------------------------------------------------------------------
(* What is known of a space in use. *)
LEMMA SpaceIs ==
  ASSUME NEW m, NEW sp, NEW im, Fits(m, sp, im), NEW s \in Spaces
  PROVE  /\ sp[s] \in Slots /\ sp[s].pgdir \in Frames \cup {0} /\ sp[s].sz \in 0..KERNBASE - 1
         /\ im[s] \in Seq(Words) /\ NPages(sp[s].sz) \in 0..NUT * NPT
         /\ Owned(m, Dirs(m, sp), {}) /\ Dirs(m, sp) \subseteq Frames /\ 0 \notin Dirs(m, sp)
         /\ sp[s].pgdir # 0 =>
              /\ sp[s].pgdir \in Dirs(m, sp) /\ Len(im[s]) = NPages(sp[s].sz) /\ ReadsAs(m, sp[s].pgdir, im[s])
              /\ \A j \in 0..NPages(sp[s].sz) - 1 : j \in UserPages /\ Ent(m, sp[s].pgdir, j).pa \in Frames
                    /\ m.data[Ent(m, sp[s].pgdir, j).pa] = im[s][j + 1]
              /\ \A j \in UserPages : j >= NPages(sp[s].sz) => Ent(m, sp[s].pgdir, j).pa = 0
<1>1. sp[s] \in Slots /\ im[s] \in Seq(Words) /\ Owned(m, Dirs(m, sp), {}) /\ Sees(m, sp, im, s)
  BY DEF Fits
<1>2. sp[s].pgdir \in Frames \cup {0} /\ sp[s].sz \in 0..KERNBASE - 1
  BY <1>1 DEF Slots
<1>3. NPages(sp[s].sz) \in 0..NUT * NPT
  BY <1>2, KernelBase
<1>4. Dirs(m, sp) \subseteq Frames /\ 0 \notin Dirs(m, sp)
  <2>1. Dirs(m, sp) \subseteq Frames
    BY <1>1, OwnFacts
  <2> QED BY <2>1, FramesAre
<1>5. ASSUME sp[s].pgdir # 0
      PROVE   /\ sp[s].pgdir \in Dirs(m, sp) /\ Len(im[s]) = NPages(sp[s].sz) /\ ReadsAs(m, sp[s].pgdir, im[s])
              /\ \A j \in 0..NPages(sp[s].sz) - 1 : j \in UserPages /\ Ent(m, sp[s].pgdir, j).pa \in Frames
                    /\ m.data[Ent(m, sp[s].pgdir, j).pa] = im[s][j + 1]
              /\ \A j \in UserPages : j >= NPages(sp[s].sz) => Ent(m, sp[s].pgdir, j).pa = 0
  <2>1. sp[s].pgdir \in Dirs(m, sp)
    BY <1>5 DEF Dirs
  <2>2. Len(im[s]) = NPages(sp[s].sz) /\ ReadsAs(m, sp[s].pgdir, im[s])
    BY <1>1, <1>5 DEF Sees
  <2>3. ASSUME NEW j \in 0..NPages(sp[s].sz) - 1
        PROVE  j \in UserPages /\ Ent(m, sp[s].pgdir, j).pa \in Frames
                    /\ m.data[Ent(m, sp[s].pgdir, j).pa] = im[s][j + 1]
    <3>1. j \in UserPages /\ j < NPages(sp[s].sz)
      BY <1>3, VmSizes DEF UserPages
    <3>2. Ent(m, sp[s].pgdir, j).pa # 0 /\ m.data[Ent(m, sp[s].pgdir, j).pa] = im[s][j + 1]
      BY <2>2, <3>1 DEF ReadsAs
    <3> QED BY <1>1, <2>1, <3>1, <3>2, OwnFacts
  <2>4. ASSUME NEW j \in UserPages, j >= NPages(sp[s].sz) PROVE Ent(m, sp[s].pgdir, j).pa = 0
    <3>1. ~(j < NPages(sp[s].sz))
      BY <1>3, <2>4, VmSizes DEF UserPages
    <3> QED BY <2>2, <3>1 DEF ReadsAs
  <2> QED BY <2>1, <2>2, <2>3, <2>4
<1> QED BY <1>1, <1>2, <1>3, <1>4, <1>5

(* fork. *)
ForkOk(m, sp, im, s, t, c) ==
  IF c.d = 0 THEN Owned(c.m, Dirs(m, sp), {}) /\ Kept(m, c.m, Dirs(m, sp))
  ELSE Fits(c.m, [sp EXCEPT ![t] = [pgdir |-> c.d, sz |-> sp[s].sz]], [im EXCEPT ![t] = im[s]])
LEMMA ForkIs ==
  ASSUME NEW m, NEW sp, NEW im, Fits(m, sp, im), NEW s \in Spaces, NEW t \in Spaces,
         sp[s].pgdir # 0, sp[t].pgdir = 0, NEW c, c = copyuvm(m, sp[s].pgdir, sp[s].sz)
  PROVE  ForkOk(m, sp, im, s, t, c)
<1>1. PICK D, p, a : D = Dirs(m, sp) /\ p = sp[s].pgdir /\ a = sp[s].sz
  OBVIOUS
<1>2. /\ Owned(m, D, {}) /\ D \subseteq Frames /\ 0 \notin D /\ p \in D /\ a \in 0..KERNBASE - 1
      /\ im[s] \in Seq(Words) /\ Len(im[s]) = NPages(a)
      /\ \A j \in 0..NPages(a) - 1 : Ent(m, p, j).pa \in Frames /\ m.data[Ent(m, p, j).pa] = im[s][j + 1]
  BY <1>1, SpaceIs
<1>3. AllCopied(m, c, D, {}, p, NPages(a))
  BY <1>1, <1>2, CopyIs
<1>4. CASE c.d = 0
  <2>1. Owned(c.m, D, {}) /\ Kept(m, c.m, D)
    BY <1>3, <1>4, FramesAre DEF AllCopied
  <2> QED BY <1>1, <1>4, <2>1 DEF ForkOk
<1>5. CASE c.d # 0
  <2>1. PICK d, v : d = c.d /\ v = c.m
    OBVIOUS
  <2>2. /\ d \in Frames /\ d \notin D /\ Owned(v, D \cup {d}, {}) /\ Kept(m, v, D)
        /\ KernelThere(v, d) /\ Copied(m, v, p, d, NPages(a))
    BY <1>3, <1>5, <2>1 DEF AllCopied
  <2>3. PICK q : q = [pgdir |-> d, sz |-> a]
    OBVIOUS
  <2>4. q \in Slots /\ q.pgdir = d /\ q.sz = a
    BY <1>2, <2>2, <2>3 DEF Slots
  <2>5. ReadsAs(v, d, im[s])
    <3> SUFFICES ASSUME NEW j \in UserPages
                 PROVE  IF j < Len(im[s]) THEN Ent(v, d, j).pa # 0 /\ v.data[Ent(v, d, j).pa] = im[s][j + 1]
                        ELSE Ent(v, d, j).pa = 0
      BY <2>2 DEF ReadsAs
    <3>1. IF j < NPages(a) THEN Ent(v, d, j).pa \in Frames /\ v.data[Ent(v, d, j).pa] = m.data[Ent(m, p, j).pa]
          ELSE Ent(v, d, j).pa = 0
      BY <2>2 DEF Copied
    <3>2. j < NPages(a) => j \in 0..NPages(a) - 1
      <4>1. NPages(a) \in Nat
        <5>1. a \in Nat
          BY <1>2
        <5> QED BY <5>1, PagesOf
      <4> QED BY <4>1, VmSizes DEF UserPages
    <3> QED BY <1>2, <3>1, <3>2, FramesAre
  <2>6. PICK F : F = D \ {sp[t].pgdir}
    OBVIOUS
  <2>7. F = D
    BY <1>2, <2>6
  <2>8. Owned(v, F \cup ({q.pgdir} \ {0}), {}) /\ Kept(m, v, F) /\ SlotOk(v, F, q, im[s])
    <3>1. {q.pgdir} \ {0} = {d}
      BY <1>5, <2>1, <2>4
    <3> QED BY <1>2, <2>2, <2>4, <2>5, <2>7, <3>1 DEF SlotOk
  <2>9. PICK y, z : y = [sp EXCEPT ![t] = q] /\ z = [im EXCEPT ![t] = im[s]]
    OBVIOUS
  <2>10. Fits(v, y, z)
    <3>1. F = Dirs(m, sp) \ {sp[t].pgdir}
      BY <1>1, <2>6
    <3>2. PICK w : w = im[s]
      OBVIOUS
    <3>3. z = [im EXCEPT ![t] = w] /\ y = [sp EXCEPT ![t] = q] /\ w \in Seq(Words) /\ SlotOk(v, F, q, w)
      BY <1>2, <2>8, <2>9, <3>2
    <3> QED BY <2>4, <2>8, <3>1, <3>3, OneSlot
  <2> QED BY <1>1, <1>5, <2>1, <2>3, <2>9, <2>10 DEF ForkOk
<1> QED BY <1>4, <1>5

(* A space gets a new size: pages below both sizes stay, others are zero.  *)
Resize(w, n) == [j \in 1..n |-> IF j <= Len(w) THEN w[j] ELSE "0"]
LEMMA ResizeIs ==
  ASSUME NEW w \in Seq(Words), NEW n \in Nat
  PROVE  /\ Resize(w, n) \in Seq(Words) /\ Len(Resize(w, n)) = n
         /\ \A j \in 1..n : Resize(w, n)[j] = IF j <= Len(w) THEN w[j] ELSE "0"
         /\ n = Len(w) => Resize(w, n) = w
<1>1. PICK z : z = "0" /\ z \in Words
  BY DEF Words
<1>2. PICK x : x = Resize(w, n)
  OBVIOUS
<1>3. x = [j \in 1..n |-> IF j <= Len(w) THEN w[j] ELSE z]
  BY <1>1, <1>2 DEF Resize
<1>4. Len(w) \in Nat /\ \A j \in 1..Len(w) : w[j] \in Words
  OBVIOUS
<1>5. \A j \in 1..n : j <= Len(w) => j \in 1..Len(w)
  BY <1>4
<1>6. x \in [1..n -> Words]
  BY <1>1, <1>3, <1>4, <1>5
<1>7. x \in Seq(Words) /\ Len(x) = n
  BY <1>6
<1>8. n = Len(w) => x = w
  BY <1>3, <1>4
<1> QED BY <1>1, <1>2, <1>3, <1>7, <1>8

(* The pages of p have become n, with zeroed ones after the first. *)
Turned(m, v, p, J, a, n) ==
  /\ J \subseteq UserPages /\ \A j \in UserPages : j \in J \/ (j < n <=> j < a)
  /\ \A j \in J : IF j < n THEN j >= a /\ Ent(v, p, j).pa \in Frames /\ v.data[Ent(v, p, j).pa] = "0"
                  ELSE Ent(v, p, j).pa = 0
LEMMA ReadsResized ==
  ASSUME NEW m, NEW D, NEW L, Owned(m, D, L), NEW p \in D, NEW w \in Seq(Words), ReadsAs(m, p, w), NEW v, NEW J,
         KeptBut(m, v, D, p, J), NEW n \in Nat, Turned(m, v, p, J, Len(w), n)
  PROVE  ReadsAs(v, p, Resize(w, n))
<1>1. PICK x : x = Resize(w, n)
  OBVIOUS
<1>2. /\ x \in Seq(Words) /\ Len(x) = n /\ Len(w) \in Nat
      /\ \A j \in 1..n : x[j] = IF j <= Len(w) THEN w[j] ELSE "0"
  <2>1. Len(w) \in Nat
    OBVIOUS
  <2> QED BY <1>1, <2>1, ResizeIs
<1>3. /\ J \subseteq UserPages /\ \A j \in UserPages : j \in J \/ (j < n <=> j < Len(w))
      /\ \A j \in J : IF j < n THEN j >= Len(w) /\ Ent(v, p, j).pa \in Frames /\ v.data[Ent(v, p, j).pa] = "0"
                      ELSE Ent(v, p, j).pa = 0
  BY DEF Turned
<1>6. UserPages \subseteq AllPages /\ UserPages \subseteq Nat
  BY Place
<1>7. \A j \in AllPages : j \in J \/ SameEnt(m, v, p, j)
  BY DEF KeptBut
<1>8. KernelThere(v, p)
  <2> SUFFICES ASSUME NEW j \in AllPages \ UserPages PROVE Ent(v, p, j) = [pa |-> Kernel, u |-> FALSE]
    BY DEF KernelThere
  <2>1. PICK e : e = [pa |-> Kernel, u |-> FALSE]
    OBVIOUS
  <2>2. e.pa # 0
    BY <2>1, FramesAre
  <2>3. Ent(m, p, j) = e
    BY <2>1 DEF KernelThere, ReadsAs
  <2>4. SameEnt(m, v, p, j)
    BY <1>3, <1>7
  <2>5. Ent(v, p, j) = e
    BY <2>2, <2>3, <2>4 DEF SameEnt
  <2> QED BY <2>1, <2>5
<1>9. ASSUME NEW j \in UserPages
      PROVE  IF j < Len(x) THEN Ent(v, p, j).pa # 0 /\ v.data[Ent(v, p, j).pa] = x[j + 1] ELSE Ent(v, p, j).pa = 0
  <2>0. j \in Nat /\ j \in AllPages /\ (j < n => j + 1 \in 1..n)
    BY <1>6
  <2>1. CASE j \in J
    <3>1. CASE j < n
      <4>1. ~(j + 1 <= Len(w)) /\ Ent(v, p, j).pa \in Frames /\ v.data[Ent(v, p, j).pa] = "0"
        <5>1. j >= Len(w) /\ Ent(v, p, j).pa \in Frames /\ v.data[Ent(v, p, j).pa] = "0"
          BY <1>3, <2>1, <3>1
        <5> QED BY <1>2, <2>0, <5>1
      <4>2. x[j + 1] = "0"
        BY <1>2, <2>0, <3>1, <4>1
      <4> QED BY <1>2, <3>1, <4>1, <4>2, FramesAre
    <3>2. CASE ~(j < n)
      BY <1>2, <1>3, <2>1, <3>2
    <3> QED BY <3>1, <3>2
  <2>2. CASE j \notin J
    <3>1. SameEnt(m, v, p, j)
      BY <1>7, <2>0, <2>2
    <3>2. IF j < Len(w) THEN Ent(m, p, j).pa # 0 /\ m.data[Ent(m, p, j).pa] = w[j + 1] ELSE Ent(m, p, j).pa = 0
      BY DEF ReadsAs
    <3>3. Ent(m, p, j).pa # 0 => Ent(m, p, j).pa \in Frames
      BY OwnFacts
    <3>4. j < n <=> j < Len(w)
      BY <1>3, <2>2
    <3>5. IF j < Len(w) THEN Ent(v, p, j).pa # 0 /\ v.data[Ent(v, p, j).pa] = w[j + 1] ELSE Ent(v, p, j).pa = 0
      BY <3>1, <3>2, <3>3 DEF SameEnt
    <3>6. j < n => x[j + 1] = w[j + 1]
      <4>1. j < n => j + 1 <= Len(w)
        BY <1>2, <2>0, <3>4
      <4> QED BY <1>2, <2>0, <4>1
    <3> QED BY <1>2, <3>4, <3>5, <3>6
  <2> QED BY <2>1, <2>2
<1>10. ReadsAs(v, p, x)
  BY <1>8, <1>9 DEF ReadsAs
<1> QED BY <1>1, <1>10

(* growproc with more memory. *)
GrowOk(m, sp, im, s, r) ==
  /\ r.sz \in 0..KERNBASE - 1
  /\ IF r.sz = 0 THEN Owned(r.m, Dirs(m, sp), {}) /\ Kept(m, r.m, Dirs(m, sp))
     ELSE Fits(r.m, [sp EXCEPT ![s] = [pgdir |-> sp[s].pgdir, sz |-> r.sz]],
               [im EXCEPT ![s] = Resize(im[s], NPages(r.sz))])

(* A space s whose pages have become those of size b. *)
LEMMA Resizing ==
  ASSUME NEW m, NEW sp, NEW im, Fits(m, sp, im), NEW s \in Spaces, sp[s].pgdir # 0, NEW b \in 0..KERNBASE - 1,
         NEW v, Owned(v, Dirs(m, sp), {}), NEW J, KeptBut(m, v, Dirs(m, sp), sp[s].pgdir, J), J \subseteq UserPages,
         \A j \in UserPages : j \in J \/ (j < NPages(b) <=> j < NPages(sp[s].sz)),
         \A j \in J : IF j < NPages(b) THEN j >= NPages(sp[s].sz) /\ Ent(v, sp[s].pgdir, j).pa \in Frames
                                            /\ v.data[Ent(v, sp[s].pgdir, j).pa] = "0"
                      ELSE Ent(v, sp[s].pgdir, j).pa = 0
  PROVE  Fits(v, [sp EXCEPT ![s] = [pgdir |-> sp[s].pgdir, sz |-> b]],
               [im EXCEPT ![s] = Resize(im[s], NPages(b))])
<1>1. PICK D, p, a : D = Dirs(m, sp) /\ p = sp[s].pgdir /\ a = sp[s].sz
  OBVIOUS
<1>2. /\ Owned(m, D, {}) /\ D \subseteq Frames /\ 0 \notin D /\ p \in D /\ a \in 0..KERNBASE - 1 /\ p # 0
      /\ im[s] \in Seq(Words) /\ Len(im[s]) = NPages(a) /\ ReadsAs(m, p, im[s]) /\ p \in Frames
  BY <1>1, SpaceIs
<1>3. b \in Nat /\ NPages(b) \in Nat /\ NPages(a) \in Nat
  <2>1. b \in Nat /\ a \in Nat
    BY <1>2
  <2> QED BY <2>1, PagesOf
<1>4. PICK w : w = Resize(im[s], NPages(b))
  OBVIOUS
<1>5. w \in Seq(Words) /\ Len(w) = NPages(b)
  BY <1>2, <1>3, <1>4, ResizeIs
<1>8. ReadsAs(v, p, w)
  <2>1. Turned(m, v, p, J, Len(im[s]), NPages(b))
    BY <1>1, <1>2 DEF Turned
  <2>2. KeptBut(m, v, D, p, J)
    BY <1>1
  <2>3. PICK i, n : i = im[s] /\ n = NPages(b)
    OBVIOUS
  <2>4. i \in Seq(Words) /\ ReadsAs(m, p, i) /\ Turned(m, v, p, J, Len(i), n) /\ n \in Nat
    BY <1>2, <1>3, <2>1, <2>3
  <2>5. ReadsAs(v, p, Resize(i, n))
    BY <1>2, <2>2, <2>4, ReadsResized
  <2> QED BY <1>4, <2>3, <2>5
<1>9. PICK q : q = [pgdir |-> p, sz |-> b]
  OBVIOUS
<1>10. q \in Slots /\ q.pgdir = p /\ q.sz = b
  BY <1>2, <1>9 DEF Slots
<1>11. PICK F : F = D \ {p}
  OBVIOUS
<1>12. Kept(m, v, F)
  BY <1>1, <1>11, AllKept
<1>13. Owned(v, F \cup ({q.pgdir} \ {0}), {})
  <2>1. F \cup ({q.pgdir} \ {0}) = D
    BY <1>2, <1>10, <1>11
  <2> QED BY <1>1, <2>1
<1>14. SlotOk(v, F, q, w)
  BY <1>5, <1>8, <1>10, <1>11 DEF SlotOk
<1>15. PICK y, z : y = [sp EXCEPT ![s] = q] /\ z = [im EXCEPT ![s] = w]
  OBVIOUS
<1>16. Fits(v, y, z)
  <2>1. F = Dirs(m, sp) \ {sp[s].pgdir}
    BY <1>1, <1>11
  <2> QED BY <1>5, <1>10, <1>12, <1>13, <1>14, <1>15, <2>1, OneSlot
<1> QED BY <1>1, <1>4, <1>9, <1>15, <1>16

(* Nothing changes. *)
LEMMA SameSize ==
  ASSUME NEW m, NEW sp, NEW im, Fits(m, sp, im), NEW s \in Spaces, sp[s].pgdir # 0,
         NEW r, r.m = m, r.sz = sp[s].sz
  PROVE  GrowOk(m, sp, im, s, r)
<1>1. sp[s].sz \in 0..KERNBASE - 1 /\ Owned(m, Dirs(m, sp), {})
  BY SpaceIs
<1>2. Kept(m, m, Dirs(m, sp))
  BY AllKept
<1>3. Fits(m, [sp EXCEPT ![s] = [pgdir |-> sp[s].pgdir, sz |-> sp[s].sz]], [im EXCEPT ![s] = Resize(im[s], NPages(sp[s].sz))])
  <2>1. PICK J : J = {}
    OBVIOUS
  <2>2. KeptBut(m, m, Dirs(m, sp), sp[s].pgdir, J) /\ J \subseteq UserPages
    BY <1>2, <2>1 DEF Kept
  <2>3. \A j : j \notin J
    BY <2>1
  <2> QED BY <1>1, <2>2, <2>3, Resizing
<1> QED BY <1>1, <1>2, <1>3 DEF GrowOk

(* growproc with more memory. *)
LEMMA GrowUp ==
  ASSUME NEW m, NEW sp, NEW im, Fits(m, sp, im), NEW s \in Spaces, sp[s].pgdir # 0, NEW b \in Nat,
         NEW r, r = allocuvm(m, sp[s].pgdir, sp[s].sz, b)
  PROVE  GrowOk(m, sp, im, s, r)
<1>1. PICK D, p, a : D = Dirs(m, sp) /\ p = sp[s].pgdir /\ a = sp[s].sz
  OBVIOUS
<1>2. /\ Owned(m, D, {}) /\ D \subseteq Frames /\ 0 \notin D /\ p \in D /\ a \in 0..KERNBASE - 1 /\ a \in Nat
      /\ \A j \in UserPages : j >= NPages(a) => Ent(m, p, j).pa = 0
  BY <1>1, SpaceIs
<1>3. CASE b < KERNBASE
  <2>1. KERNBASE \in Nat /\ b \in 0..KERNBASE - 1
    BY <1>3, KernelBase
  <2>2. NPages(a) \in Nat /\ NPages(b) \in 0..NUT * NPT /\ NUT * NPT \in Nat
    BY <1>2, <2>1, KernelBase, PagesOf, VmSizes
  <2>3. \A j \in NPages(a)..NPages(b) - 1 : j \in UserPages /\ j >= NPages(a)
    BY <2>2 DEF UserPages
  <2>4. \A j \in NPages(a)..NPages(b) - 1 : Ent(m, p, j).pa = 0
    BY <1>2, <2>3
  <2>5. AllocDone(m, r, D, {}, p, a, b)
    BY <1>1, <1>2, <2>4, AllocIs
  <2>6. CASE r.sz = 0 /\ Owned(r.m, D, {}) /\ Kept(m, r.m, D)
    BY <1>1, <2>1, <2>6, KernelBase DEF GrowOk
  <2>7. CASE b < a /\ r.sz = a /\ r.m = m
    BY <1>1, <2>7, SameSize
  <2>8. CASE /\ a <= b /\ b < KERNBASE /\ r.sz = b /\ Owned(r.m, D, {})
             /\ KeptBut(m, r.m, D, p, NPages(a)..NPages(b) - 1)
             /\ \A j \in NPages(a)..NPages(b) - 1 :
                  Ent(r.m, p, j).pa \in Frames /\ r.m.data[Ent(r.m, p, j).pa] = "0"
    <3>1. PICK J : J = NPages(a)..NPages(b) - 1
      OBVIOUS
    <3>2. J \subseteq UserPages
      BY <2>3, <3>1
    <3>3. NPages(a) <= NPages(b)
      BY <1>2, <2>8, PagesGrow
    <3>4. \A j \in UserPages : j \in J \/ (j < NPages(b) <=> j < NPages(a))
      BY <2>2, <3>1, <3>3 DEF UserPages
    <3>5. \A j \in J : j < NPages(b) /\ j >= NPages(a)
      BY <2>2, <3>1
    <3>6. \A j \in J : IF j < NPages(b) THEN j >= NPages(a) /\ Ent(r.m, p, j).pa \in Frames
                                            /\ r.m.data[Ent(r.m, p, j).pa] = "0"
                      ELSE Ent(r.m, p, j).pa = 0
      BY <2>8, <3>1, <3>5
    <3>7. KeptBut(m, r.m, D, p, J)
      BY <2>8, <3>1
    <3>8. Fits(r.m, [sp EXCEPT ![s] = [pgdir |-> sp[s].pgdir, sz |-> b]],
               [im EXCEPT ![s] = Resize(im[s], NPages(b))])
      <4>1. PICK v : v = r.m
        OBVIOUS
      <4>2. /\ Owned(v, Dirs(m, sp), {}) /\ KeptBut(m, v, Dirs(m, sp), sp[s].pgdir, J)
            /\ \A j \in UserPages : j \in J \/ (j < NPages(b) <=> j < NPages(sp[s].sz))
            /\ \A j \in J : IF j < NPages(b) THEN j >= NPages(sp[s].sz) /\ Ent(v, sp[s].pgdir, j).pa \in Frames
                                            /\ v.data[Ent(v, sp[s].pgdir, j).pa] = "0"
                            ELSE Ent(v, sp[s].pgdir, j).pa = 0
        BY <1>1, <2>8, <3>4, <3>6, <3>7, <4>1
      <4>3. Fits(v, [sp EXCEPT ![s] = [pgdir |-> sp[s].pgdir, sz |-> b]],
               [im EXCEPT ![s] = Resize(im[s], NPages(b))])
        BY <2>1, <3>2, <4>2, Resizing
      <4> QED BY <4>1, <4>3
    <3>9. b = 0 => Kept(m, r.m, D)
      <4> SUFFICES ASSUME b = 0 PROVE Kept(m, r.m, D)
        OBVIOUS
      <4>1. 0 * PGSIZE = 0
        BY VmSizes
      <4>2. NPages(b) = 0
        BY <4>1, WholePages
      <4>3. J = {}
        BY <2>2, <3>1, <4>2
      <4>4. KeptBut(m, r.m, D, p, {})
        BY <3>7, <4>3
      <4> QED BY <4>4, Restored
    <3> QED BY <1>1, <2>1, <2>8, <3>8, <3>9 DEF GrowOk
  <2> QED BY <2>5, <2>6, <2>7, <2>8 DEF AllocDone
<1>4. CASE ~(b < KERNBASE)
  <2>1. r.m = m /\ r.sz = 0
    BY <1>4, KernelBase DEF allocuvm
  <2>2. Kept(m, m, D)
    BY AllKept
  <2>3. 0 \in 0..KERNBASE - 1
    BY KernelBase
  <2> QED BY <1>1, <1>2, <2>1, <2>2, <2>3 DEF GrowOk
<1> QED BY <1>3, <1>4

(* growproc with less memory, where some is left or none. *)
ShrinkOk(m, sp, im, s, r) ==
  /\ r.sz \in 0..KERNBASE - 1
  /\ IF r.sz = 0 THEN Owned(r.m, Dirs(m, sp), {}) /\ Kept(m, r.m, Dirs(m, sp) \ {sp[s].pgdir})
     ELSE Fits(r.m, [sp EXCEPT ![s] = [pgdir |-> sp[s].pgdir, sz |-> r.sz]],
               [im EXCEPT ![s] = Resize(im[s], NPages(r.sz))])
LEMMA GrowDown ==
  ASSUME NEW m, NEW sp, NEW im, Fits(m, sp, im), NEW s \in Spaces, sp[s].pgdir # 0, NEW b \in Nat,
         NEW r, r = deallocuvm(m, sp[s].pgdir, sp[s].sz, b)
  PROVE  ShrinkOk(m, sp, im, s, r)
<1>1. PICK D, p, a : D = Dirs(m, sp) /\ p = sp[s].pgdir /\ a = sp[s].sz
  OBVIOUS
<1>2. /\ Owned(m, D, {}) /\ D \subseteq Frames /\ 0 \notin D /\ p \in D /\ a \in 0..KERNBASE - 1 /\ a \in Nat
  BY <1>1, SpaceIs
<1>3. CASE b >= a
  <2>1. r.m = m /\ r.sz = a
    BY <1>1, <1>3 DEF deallocuvm
  <2>2. GrowOk(m, sp, im, s, r)
    BY <1>1, <2>1, SameSize
  <2>3. Kept(m, m, D \ {p})
    BY AllKept
  <2> QED BY <1>1, <1>2, <2>1, <2>2, <2>3 DEF GrowOk, ShrinkOk
<1>4. CASE b < a
  <2>0. KERNBASE \in Nat /\ a <= KERNBASE /\ b \in 0..KERNBASE - 1
    BY <1>2, <1>4, KernelBase
  <2>1. r.sz = b /\ Dropped(m, r.m, D, {}, p, NPages(b), NPages(a) - 1)
    BY <1>1, <1>2, <1>4, <2>0, DeallocIs
  <2>2. PICK J, v : J = NPages(b)..NPages(a) - 1 /\ v = r.m
    OBVIOUS
  <2>3. Owned(v, D, {}) /\ KeptBut(m, v, D, p, J) /\ \A j \in J : Ent(v, p, j).pa = 0
    BY <2>1, <2>2 DEF Dropped
  <2>4. NPages(b) \in Nat /\ NPages(a) \in 0..NUT * NPT /\ NUT * NPT \in Nat
    BY <1>2, <2>0, KernelBase, PagesOf, VmSizes
  <2>5. J \subseteq UserPages /\ \A j \in J : ~(j < NPages(b))
    BY <2>2, <2>4 DEF UserPages
  <2>6. NPages(b) <= NPages(a)
    BY <1>2, <1>4, PagesGrow
  <2>7. \A j \in UserPages : j \in J \/ (j < NPages(b) <=> j < NPages(a))
    BY <2>2, <2>4, <2>6 DEF UserPages
  <2>8. Fits(v, [sp EXCEPT ![s] = [pgdir |-> sp[s].pgdir, sz |-> b]],
               [im EXCEPT ![s] = Resize(im[s], NPages(b))])
    <3>1. /\ Owned(v, Dirs(m, sp), {}) /\ KeptBut(m, v, Dirs(m, sp), sp[s].pgdir, J)
          /\ \A j \in UserPages : j \in J \/ (j < NPages(b) <=> j < NPages(sp[s].sz))
          /\ \A j \in J : IF j < NPages(b) THEN j >= NPages(sp[s].sz) /\ Ent(v, sp[s].pgdir, j).pa \in Frames
                                            /\ v.data[Ent(v, sp[s].pgdir, j).pa] = "0"
                            ELSE Ent(v, sp[s].pgdir, j).pa = 0
      BY <1>1, <2>3, <2>5, <2>7
    <3> QED BY <2>0, <2>5, <3>1, Resizing
  <2>9. Kept(m, v, D \ {p})
    BY <2>3, AllKept
  <2> QED BY <1>1, <2>0, <2>1, <2>2, <2>3, <2>8, <2>9 DEF ShrinkOk
<1> QED BY <1>2, <1>3, <1>4

(* A space is given back, by wait or by growproc. *)
LEMMA FreeIs ==
  ASSUME NEW m, NEW sp, NEW im, Fits(m, sp, im), NEW s \in Spaces, sp[s].pgdir # 0,
         NEW x, Owned(x, Dirs(m, sp), {}), Kept(m, x, Dirs(m, sp) \ {sp[s].pgdir}), NEW v, v = freevm(x, sp[s].pgdir)
  PROVE  Fits(v, [sp EXCEPT ![s] = [pgdir |-> 0, sz |-> 0]], [im EXCEPT ![s] = <<>>])
<1>1. PICK D, p, F : D = Dirs(m, sp) /\ p = sp[s].pgdir /\ F = D \ {p}
  OBVIOUS
<1>2. p \in D
  BY <1>1, SpaceIs
<1>3. Owned(v, F, {}) /\ Kept(x, v, F)
  <2>1. Owned(x, D, {})
    BY <1>1
  <2>2. Owned(v, D \ {p}, {}) /\ Kept(x, v, D \ {p})
    BY <1>1, <1>2, <2>1, FreevmIs
  <2> QED BY <1>1, <2>2
<1>4. Kept(m, v, F)
  <2>1. Kept(m, x, F)
    BY <1>1
  <2> QED BY <1>3, <2>1, AllKept
<1>5. PICK q, w : q = [pgdir |-> 0, sz |-> 0] /\ w = <<>>
  OBVIOUS
<1>6. q \in Slots /\ q.pgdir = 0 /\ w \in Seq(Words)
  <2>1. 0 \in 0..KERNBASE - 1
    BY KernelBase
  <2> QED BY <1>5, <2>1 DEF Slots
<1>7. Owned(v, F \cup ({q.pgdir} \ {0}), {}) /\ SlotOk(v, F, q, w)
  <2>1. F \cup ({q.pgdir} \ {0}) = F
    BY <1>6
  <2> QED BY <1>3, <1>6, <2>1 DEF SlotOk
<1>8. PICK y, z : y = [sp EXCEPT ![s] = q] /\ z = [im EXCEPT ![s] = w]
  OBVIOUS
<1>9. Fits(v, y, z)
  <2>1. F = Dirs(m, sp) \ {sp[s].pgdir}
    BY <1>1
  <2> QED BY <1>4, <1>6, <1>7, <1>8, <2>1, OneSlot
<1> QED BY <1>5, <1>8, <1>9

-----------------------------------------------------------------------------
(* The word w is put into the pages J of d, and nowhere else. *)
PutAt(m, v, d, J, w) ==
  /\ SameShape(m, v)
  /\ \A f \in Frames : v.data[f] = IF \E j \in J : Ent(m, d, j).pa = f THEN w ELSE m.data[f]
LEMMA WordsPut ==
  ASSUME NEW m, NEW D, NEW L, Owned(m, D, L), NEW d \in D, NEW J, J \subseteq UserPages, NEW w, NEW v,
         PutAt(m, v, d, J, w)
  PROVE  /\ Owned(v, D, L) /\ KeptBut(m, v, D, d, J) /\ \A e, i : Ent(v, e, i) = Ent(m, e, i)
         /\ \A j \in J : Ent(m, d, j).pa # 0 => v.data[Ent(m, d, j).pa] = w
<1>0. SameShape(m, v) /\ \A f \in Frames : v.data[f] = IF \E j \in J : Ent(m, d, j).pa = f THEN w ELSE m.data[f]
  BY DEF PutAt
<1>1. Owned(v, D, L) /\ \A e, i : Tab(v, e, i) = Tab(m, e, i) /\ Ent(v, e, i) = Ent(m, e, i)
  <2>1. SameShape(m, v)
    BY <1>0
  <2> QED BY <2>1, ShapeStays
<1>2. ASSUME NEW j \in J, Ent(m, d, j).pa # 0 PROVE v.data[Ent(m, d, j).pa] = w
  <2>1. Ent(m, d, j).pa \in Frames
    BY <1>2, OwnFacts
  <2> QED BY <1>0, <2>1
<1>3. ASSUME NEW e \in D, NEW i \in AllPages, ~(e = d /\ i \in J) PROVE SameEnt(m, v, e, i)
  <2>1. CASE Ent(m, e, i).pa \in Frames
    <3>1. i \in UserPages /\ Ent(m, e, i).pa # 0
      BY <2>1, OwnFacts, FramesAre
    <3>2. ~(\E j \in J : Ent(m, d, j).pa = Ent(m, e, i).pa)
      BY <1>3, <3>1, OwnFacts
    <3>3. v.data[Ent(m, e, i).pa] = m.data[Ent(m, e, i).pa]
      BY <1>0, <2>1, <3>2
    <3> QED BY <1>1, <3>1, <3>3 DEF SameEnt
  <2>2. CASE Ent(m, e, i).pa \notin Frames
    BY <1>1, <2>2 DEF SameEnt
  <2> QED BY <2>1, <2>2
<1>4. KeptBut(m, v, D, d, J)
  <2>1. SameRest(m, v)
    BY <1>0 DEF SameShape
  <2> QED BY <1>1, <1>3, <2>1 DEF KeptBut, SameRest
<1> QED BY <1>1, <1>2, <1>4

(* Fill does that. *)
LEMMA FillIs ==
  ASSUME NEW m \in Memory, NEW d, NEW J, NEW w \in Words, NEW v, v = Fill(m, d, J, w)
  PROVE  PutAt(m, v, d, J, w)
<1>1. PICK Z : Z = [f \in Frames |-> IF \E j \in J : Pte(m, d, j * PGSIZE).pa = f THEN w ELSE m.data[f]]
  OBVIOUS
<1>2. v = [m EXCEPT !.data = Z]
  BY <1>1 DEF Fill
<1>3. m.data \in [Frames -> Words]
  BY MemoryIs
<1>4. Z \in [Frames -> Words] /\ \A f \in Frames : Z[f] = IF \E j \in J : Ent(m, d, j).pa = f THEN w ELSE m.data[f]
  <2>1. \A f \in Frames : m.data[f] \in Words
    BY <1>3
  <2> QED BY <1>1, <2>1 DEF Ent
<1>5. /\ v \in Memory /\ v.data = Z /\ v.free = m.free /\ v.tab = m.tab /\ v.fault = m.fault /\ v.kpgdir = m.kpgdir
  BY <1>2, <1>4 DEF Memory
<1> QED BY <1>4, <1>5 DEF PutAt, SameShape, SameRest

(* A program stores a word in its page j. *)
LEMMA StoreIs ==
  ASSUME NEW m, NEW sp, NEW im, Fits(m, sp, im), NEW s \in Spaces, sp[s].pgdir # 0, NEW j \in 0..NPages(sp[s].sz) - 1,
         NEW f, f = Ent(m, sp[s].pgdir, j).pa, NEW c \in Words, NEW v, v = SetData(m, f, c)
  PROVE  Fits(v, sp, [im EXCEPT ![s][j + 1] = c])
<1>1. PICK D, p, n : D = Dirs(m, sp) /\ p = sp[s].pgdir /\ n = NPages(sp[s].sz)
  OBVIOUS
<1>2. /\ Owned(m, D, {}) /\ D \subseteq Frames /\ 0 \notin D /\ p \in D /\ n \in 0..NUT * NPT /\ p \in Frames /\ sp[s] \in Slots
      /\ im[s] \in Seq(Words) /\ Len(im[s]) = n /\ ReadsAs(m, p, im[s]) /\ j \in UserPages /\ f \in Frames /\ f # 0
  <2>1. f \in Frames
    BY SpaceIs
  <2>2. f # 0
    BY <2>1, FramesAre
  <2> QED BY <1>1, <2>1, <2>2, SpaceIs
<1>3. n \in Nat /\ j \in 0..n - 1
  BY <1>1, <1>2, VmSizes
<1>4. PutAt(m, v, p, {j}, c)
  <2>1. m \in Memory
    BY <1>2 DEF Owned
  <2>2. /\ v \in Memory /\ v.free = m.free /\ v.tab = m.tab /\ v.fault = m.fault /\ v.kpgdir = m.kpgdir
        /\ v.data[f] = c /\ \A g \in Frames : g # f => v.data[g] = m.data[g]
    BY <1>2, <2>1, SetDataIs
  <2>3. ASSUME NEW g \in Frames PROVE v.data[g] = IF \E i \in {j} : Ent(m, p, i).pa = g THEN c ELSE m.data[g]
    <3>1. (\E i \in {j} : Ent(m, p, i).pa = g) <=> g = f
      BY <1>1
    <3> QED BY <2>2, <3>1
  <2> QED BY <2>2, <2>3 DEF PutAt, SameShape, SameRest
<1>5. /\ Owned(v, D, {}) /\ KeptBut(m, v, D, p, {j}) /\ (\A e, i : Ent(v, e, i) = Ent(m, e, i))
      /\ v.data[f] = c
  <2>1. PICK J : J = {j}
    OBVIOUS
  <2>2. J \subseteq UserPages /\ PutAt(m, v, p, J, c) /\ Owned(m, D, {}) /\ p \in D
    BY <1>2, <1>4, <2>1
  <2>3. /\ Owned(v, D, {}) /\ KeptBut(m, v, D, p, J) /\ \A e, i : Ent(v, e, i) = Ent(m, e, i)
        /\ \A i \in J : Ent(m, p, i).pa # 0 => v.data[Ent(m, p, i).pa] = c
    BY <2>2, WordsPut
  <2> QED BY <1>1, <1>2, <2>1, <2>3
<1>6. PICK w : w = [im[s] EXCEPT ![j + 1] = c]
  OBVIOUS
<1>7. w \in Seq(Words) /\ Len(w) = n /\ w[j + 1] = c /\ \A i \in 1..n : i # j + 1 => w[i] = im[s][i]
  <2>1. j + 1 \in 1..Len(im[s])
    BY <1>2, <1>3
  <2> QED BY <1>2, <1>6, <2>1
<1>8. ReadsAs(v, p, w)
  <2>1. KernelThere(v, p)
    <3>1. KernelThere(m, p)
      BY <1>2 DEF ReadsAs
    <3> QED BY <1>5, <3>1 DEF KernelThere
  <2>2. ASSUME NEW i \in UserPages
        PROVE  IF i < Len(w) THEN Ent(v, p, i).pa # 0 /\ v.data[Ent(v, p, i).pa] = w[i + 1] ELSE Ent(v, p, i).pa = 0
    <3>1. IF i < n THEN Ent(m, p, i).pa # 0 /\ m.data[Ent(m, p, i).pa] = im[s][i + 1] ELSE Ent(m, p, i).pa = 0
      BY <1>2 DEF ReadsAs
    <3>2. CASE i = j
      <4>1. i < n
        BY <1>3, <3>2
      <4> QED BY <1>1, <1>2, <1>5, <1>7, <3>2, <4>1
    <3>3. CASE i # j
      <4>1. i \in AllPages /\ i \in Nat
        BY Place
      <4>2. SameEnt(m, v, p, i)
        BY <1>2, <1>5, <3>3, <4>1 DEF KeptBut
      <4>3. i < n => w[i + 1] = im[s][i + 1]
        <5>1. i < n => i + 1 \in 1..n /\ i + 1 # j + 1
          BY <1>3, <3>3, <4>1
        <5> QED BY <1>7, <5>1
      <4>4. Ent(m, p, i).pa # 0 => Ent(m, p, i).pa \in Frames
        BY <1>2, OwnFacts
      <4> QED BY <1>7, <3>1, <4>2, <4>3, <4>4 DEF SameEnt
    <3> QED BY <3>2, <3>3
  <2> QED BY <2>1, <2>2 DEF ReadsAs
<1>9. PICK q, F : q = sp[s] /\ F = D \ {p}
  OBVIOUS
<1>10. q \in Slots /\ q.pgdir = p /\ NPages(q.sz) = n
  BY <1>1, <1>2, <1>9
<1>11. Owned(v, F \cup ({q.pgdir} \ {0}), {}) /\ Kept(m, v, F) /\ SlotOk(v, F, q, w)
  <2>1. F \cup ({q.pgdir} \ {0}) = D
    BY <1>2, <1>9, <1>10
  <2>2. Kept(m, v, F)
    BY <1>5, <1>9, AllKept
  <2> QED BY <1>5, <1>7, <1>8, <1>9, <1>10, <2>1, <2>2 DEF SlotOk
<1>12. PICK y, z : y = [sp EXCEPT ![s] = q] /\ z = [im EXCEPT ![s] = w]
  OBVIOUS
<1>13. Fits(v, y, z)
  <2>1. F = Dirs(m, sp) \ {sp[s].pgdir}
    BY <1>1, <1>9
  <2> QED BY <1>7, <1>10, <1>11, <1>12, <2>1, OneSlot
<1>14. y = sp
  <2>1. sp \in [Spaces -> Slots]
    BY DEF Fits
  <2> QED BY <1>9, <1>12, <2>1
<1>15. z = [im EXCEPT ![s][j + 1] = c]
  BY <1>6, <1>12
<1> QED BY <1>13, <1>14, <1>15

-----------------------------------------------------------------------------
(* exec makes a directory d, outside of D, that shows the words w. *)
Made(m, v, D, d, w) == Owned(v, D \cup {d}, {}) /\ Kept(m, v, D) /\ ReadsAs(v, d, w) /\ w \in Seq(Words)
Put(w, J, c) == [j \in 1..Len(w) |-> IF j - 1 \in J THEN c ELSE w[j]]
Unmade(m, v, D, d) == Owned(v, D \cup {d}, {}) /\ Kept(m, v, D)

(* What changes only d keeps the others. *)
LEMMA OthersKept ==
  ASSUME NEW m, NEW v, NEW x, NEW D, NEW d, d \notin D, Kept(m, v, D), NEW J, KeptBut(v, x, D \cup {d}, d, J)
  PROVE  Kept(m, x, D)
<1>1. PICK E : E = D \cup {d}
  OBVIOUS
<1>2. E \ {d} = D /\ KeptBut(v, x, E, d, J)
  BY <1>1
<1>3. Kept(v, x, D)
  BY <1>2, AllKept
<1> QED BY <1>3, AllKept

(* The directory is given back. *)
LEMMA UnmadeGone ==
  ASSUME NEW m, NEW v, NEW D, NEW d, d \notin D, Unmade(m, v, D, d), NEW x, x = freevm(v, d)
  PROVE  Owned(x, D, {}) /\ Kept(m, x, D)
<1>1. PICK E : E = D \cup {d}
  OBVIOUS
<1>2. E \ {d} = D /\ d \in E /\ Owned(v, E, {}) /\ Kept(m, v, D)
  BY <1>1 DEF Unmade
<1>3. Owned(x, E \ {d}, {}) /\ Kept(v, x, E \ {d})
  BY <1>2, FreevmIs
<1> QED BY <1>2, <1>3, AllKept

(* allocuvm in the new directory. *)
MoreMade(m, r, D, d, w, b) ==
  IF r.sz = 0 THEN Unmade(m, r.m, D, d)
  ELSE r.sz = b /\ b < KERNBASE /\ Made(m, r.m, D, d, Resize(w, NPages(b)))
LEMMA MadeGrows ==
  ASSUME NEW m, NEW v, NEW D, NEW d, d \notin D, NEW w, Made(m, v, D, d, w), NEW a \in Nat, NEW b \in Nat, a <= b,
         Len(w) = NPages(a), NEW r, r = allocuvm(v, d, a, b)
  PROVE  MoreMade(m, r, D, d, w, b)
<1>1. PICK E : E = D \cup {d}
  OBVIOUS
<1>2. d \in E /\ Owned(v, E, {}) /\ Kept(m, v, D) /\ ReadsAs(v, d, w) /\ w \in Seq(Words) /\ KERNBASE \in Nat
  BY <1>1, KernelBase DEF Made
<1>3. CASE b < KERNBASE
  <2>2. NPages(a) \in Nat /\ NPages(b) \in 0..NUT * NPT /\ NUT * NPT \in Nat /\ NPages(b) \in Nat
    <3>1. b \in 0..KERNBASE - 1
      BY <1>2, <1>3
    <3> QED BY <3>1, KernelBase, PagesOf, VmSizes
  <2>3. \A j \in NPages(a)..NPages(b) - 1 : j \in UserPages /\ ~(j < NPages(a))
    BY <2>2 DEF UserPages
  <2>4. \A j \in NPages(a)..NPages(b) - 1 : Ent(v, d, j).pa = 0
    BY <1>2, <2>3 DEF ReadsAs
  <2>5. AllocDone(v, r, E, {}, d, a, b)
    BY <1>2, <2>4, AllocIs
  <2>6. CASE r.sz = 0 /\ Owned(r.m, E, {}) /\ Kept(v, r.m, E)
    <3>1. KeptBut(v, r.m, D \cup {d}, d, {})
      BY <1>1, <2>6 DEF Kept
    <3>2. Kept(m, r.m, D)
      BY <1>2, <3>1, OthersKept
    <3> QED BY <1>1, <2>6, <3>2 DEF MoreMade, Unmade
  <2>7. CASE b < a
    BY <2>7
  <2>8. CASE /\ r.sz = b /\ Owned(r.m, E, {})
             /\ KeptBut(v, r.m, E, d, NPages(a)..NPages(b) - 1)
             /\ \A j \in NPages(a)..NPages(b) - 1 :
                  Ent(r.m, d, j).pa \in Frames /\ r.m.data[Ent(r.m, d, j).pa] = "0"
    <3>1. PICK J, x, n : J = NPages(a)..NPages(b) - 1 /\ x = r.m /\ n = NPages(b)
      OBVIOUS
    <3>2. KeptBut(v, x, E, d, J)
      BY <2>8, <3>1
    <3>3. NPages(a) <= n
      BY <3>1, PagesGrow
    <3>4. J \subseteq UserPages /\ \A j \in UserPages : j \in J \/ (j < n <=> j < NPages(a))
      BY <2>2, <2>3, <3>1, <3>3 DEF UserPages
    <3>5. \A j \in J : j < n /\ j >= NPages(a)
      BY <2>2, <3>1
    <3>6. \A j \in J : IF j < n THEN j >= NPages(a) /\ Ent(x, d, j).pa \in Frames /\ x.data[Ent(x, d, j).pa] = "0"
                       ELSE Ent(x, d, j).pa = 0
      BY <2>8, <3>1, <3>5
    <3>7. Turned(v, x, d, J, Len(w), n)
      BY <3>4, <3>6 DEF Turned
    <3>8. ReadsAs(x, d, Resize(w, n))
      BY <1>2, <2>2, <3>1, <3>2, <3>7, ReadsResized
    <3>9. Resize(w, n) \in Seq(Words)
      BY <1>2, <2>2, <3>1, ResizeIs
    <3>10. Kept(m, x, D)
      BY <1>1, <1>2, <3>2, OthersKept
    <3> QED BY <1>1, <1>3, <2>8, <3>1, <3>8, <3>9, <3>10 DEF MoreMade, Made, Unmade
  <2> QED BY <2>5, <2>6, <2>7, <2>8 DEF AllocDone
<1>4. CASE ~(b < KERNBASE)
  <2>1. r.m = v /\ r.sz = 0
    BY <1>2, <1>4 DEF allocuvm
  <2> QED BY <1>1, <1>2, <2>1 DEF MoreMade, Unmade
<1> QED BY <1>3, <1>4

(* loaduvm and copyout in the new directory. *)
LEMMA MadeFilled ==
  ASSUME NEW m, NEW v, NEW D, NEW d, d \notin D, NEW w, Made(m, v, D, d, w), NEW c \in Words,
         NEW J, \A j \in J : j \in UserPages /\ j < Len(w), NEW x, x = Fill(v, d, J, c)
  PROVE  Made(m, x, D, d, Put(w, J, c)) /\ Put(w, J, c) \in Seq(Words) /\ Len(Put(w, J, c)) = Len(w)
<1>1. PICK E, y : E = D \cup {d} /\ y = Put(w, J, c)
  OBVIOUS
<1>2. d \in E /\ Owned(v, E, {}) /\ Kept(m, v, D) /\ ReadsAs(v, d, w) /\ w \in Seq(Words) /\ v \in Memory
  BY <1>1 DEF Made, Owned
<1>3. PutAt(v, x, d, J, c)
  BY <1>2, FillIs
<1>4. J \subseteq UserPages
  OBVIOUS
<1>5. /\ Owned(x, E, {}) /\ KeptBut(v, x, E, d, J) /\ \A e, i : Ent(x, e, i) = Ent(v, e, i)
      /\ \A j \in J : Ent(v, d, j).pa # 0 => x.data[Ent(v, d, j).pa] = c
  <2>1. Owned(v, E, {}) /\ d \in E
    BY <1>2
  <2> QED BY <1>3, <1>4, <2>1, WordsPut, SMTT(40)
<1>6. Len(w) \in Nat /\ \A j \in 1..Len(w) : w[j] \in Words
  BY <1>2
<1>7. y = [j \in 1..Len(w) |-> IF j - 1 \in J THEN c ELSE w[j]]
  BY <1>1 DEF Put
<1>8. y \in [1..Len(w) -> Words]
  BY <1>6, <1>7
<1>9. y \in Seq(Words) /\ Len(y) = Len(w)
  BY <1>6, <1>8
<1>10. \A j \in 1..Len(w) : y[j] = IF j - 1 \in J THEN c ELSE w[j]
  BY <1>7
<1>11. KernelThere(x, d)
  <2>1. KernelThere(v, d)
    BY <1>2 DEF ReadsAs
  <2> QED BY <1>5, <2>1 DEF KernelThere
<1>12. ASSUME NEW j \in UserPages
       PROVE  IF j < Len(y) THEN Ent(x, d, j).pa # 0 /\ x.data[Ent(x, d, j).pa] = y[j + 1] ELSE Ent(x, d, j).pa = 0
  <2>1. IF j < Len(w) THEN Ent(v, d, j).pa # 0 /\ v.data[Ent(v, d, j).pa] = w[j + 1] ELSE Ent(v, d, j).pa = 0
    BY <1>2 DEF ReadsAs
  <2>2. j \in Nat /\ j \in AllPages /\ (j < Len(w) => j + 1 \in 1..Len(w)) /\ (j + 1) - 1 = j
    <3>1. j \in Nat /\ j \in AllPages
      BY Place
    <3> QED BY <1>6, <3>1
  <2>3. j < Len(w) => y[j + 1] = IF j \in J THEN c ELSE w[j + 1]
    BY <1>10, <2>2
  <2>4. CASE j \in J
    BY <1>5, <1>9, <2>1, <2>3, <2>4
  <2>5. CASE j \notin J
    <3>1. SameEnt(v, x, d, j)
      BY <1>2, <1>5, <2>2, <2>5 DEF KeptBut
    <3>2. Ent(v, d, j).pa # 0 => Ent(v, d, j).pa \in Frames
      BY <1>2, OwnFacts
    <3> QED BY <1>9, <2>1, <2>3, <2>5, <3>1, <3>2 DEF SameEnt
  <2> QED BY <2>4, <2>5
<1>13. Kept(m, x, D)
  BY <1>1, <1>2, <1>5, OthersKept
<1> QED BY <1>1, <1>5, <1>9, <1>11, <1>12, <1>13 DEF Made, ReadsAs

(* clearpteu in the new directory. *)
LEMMA MadeCleared ==
  ASSUME NEW m, NEW v, NEW D, NEW d, d \notin D, NEW w, Made(m, v, D, d, w), NEW j \in UserPages, j < Len(w),
         NEW x, x = clearpteu(v, d, j * PGSIZE)
  PROVE  Made(m, x, D, d, w) /\ ~Ent(x, d, j).u
<1>1. PICK E : E = D \cup {d}
  OBVIOUS
<1>2. d \in E /\ Owned(v, E, {}) /\ Kept(m, v, D) /\ ReadsAs(v, d, w) /\ w \in Seq(Words) /\ v \in Memory
  BY <1>1 DEF Made, Owned
<1>3. j \in AllPages /\ UserPages \subseteq AllPages /\ Q(j) \in 0..NUT /\ R(j) \in Indices /\ Q(j) = PDX(j * PGSIZE) /\ R(j) = PTX(j * PGSIZE)
  BY Place DEF Q, R
<1>4. Ent(v, d, j).pa # 0
  BY <1>2 DEF ReadsAs
<1>5. PICK t : t = Tab(v, d, Q(j))
  OBVIOUS
<1>6. t # 0 /\ Ent(v, d, j) = v.tab[t][R(j)]
  BY <1>4, <1>5, EntIs, ZeroedIs
<1>7. t \in Frames
  BY <1>2, <1>3, <1>5, <1>6, OwnFacts
<1>8. PICK e : e = v.tab[t][R(j)]
  OBVIOUS
<1>9. e \in Ptes /\ e = Ent(v, d, j)
  BY <1>2, <1>3, <1>6, <1>7, <1>8, MemoryIs
<1>10. PICK p : p = [e EXCEPT !.u = FALSE]
  OBVIOUS
<1>11. p \in Ptes /\ p.pa = e.pa /\ p.u = FALSE
  BY <1>9, <1>10 DEF Ptes
<1>12. x = SetPte(v, t, R(j), p)
  <2>1. x = [v EXCEPT !.tab[t][R(j)].u = FALSE]
    BY <1>3, <1>5, <1>6 DEF clearpteu, Tab
  <2> QED BY <1>8, <1>10, <2>1 DEF SetPte
<1>13. /\ Owned(x, E, {}) /\ KeptBut(v, x, E, d, {j}) /\ x.data = v.data /\ Ent(x, d, j) = p
  <2>1. Tab(v, d, Q(j)) # 0 /\ x = SetPte(v, Tab(v, d, Q(j)), R(j), p)
    BY <1>5, <1>6, <1>12
  <2>2. EntryFor(v, d, j, p)
    BY <1>9, <1>11 DEF EntryFor
  <2>3. Owned(v, E, {}) /\ d \in E /\ j \in AllPages /\ p \in Ptes
    BY <1>2, <1>3, <1>11
  <2>4. EntryIs(v, x, E, {}, d, j, p)
    BY <2>1, <2>2, <2>3, EntryPut
  <2> QED BY <2>4 DEF EntryIs
<1>14. \A i \in AllPages : i = j \/ SameEnt(v, x, d, i)
  BY <1>2, <1>13 DEF KeptBut
<1>15. KernelThere(x, d)
  <2> SUFFICES ASSUME NEW i \in AllPages \ UserPages PROVE Ent(x, d, i) = [pa |-> Kernel, u |-> FALSE]
    BY DEF KernelThere
  <2>1. PICK k : k = [pa |-> Kernel, u |-> FALSE]
    OBVIOUS
  <2>2. k.pa # 0
    BY <2>1, FramesAre
  <2>3. Ent(v, d, i) = k
    BY <1>2, <2>1 DEF KernelThere, ReadsAs
  <2>4. SameEnt(v, x, d, i)
    BY <1>14
  <2>5. Ent(x, d, i) = k
    BY <2>2, <2>3, <2>4 DEF SameEnt
  <2> QED BY <2>1, <2>5
<1>16. ASSUME NEW i \in UserPages
       PROVE  IF i < Len(w) THEN Ent(x, d, i).pa # 0 /\ x.data[Ent(x, d, i).pa] = w[i + 1] ELSE Ent(x, d, i).pa = 0
  <2>1. IF i < Len(w) THEN Ent(v, d, i).pa # 0 /\ v.data[Ent(v, d, i).pa] = w[i + 1] ELSE Ent(v, d, i).pa = 0
    BY <1>2 DEF ReadsAs
  <2>2. Ent(x, d, i).pa = Ent(v, d, i).pa
    <3>1. CASE i = j
      BY <1>9, <1>11, <1>13, <3>1
    <3>2. CASE i # j
      <4>1. SameEnt(v, x, d, i)
        BY <1>3, <1>14, <3>2
      <4> QED BY <4>1 DEF SameEnt
    <3> QED BY <3>1, <3>2
  <2> QED BY <1>13, <2>1, <2>2
<1>17. Kept(m, x, D)
  BY <1>1, <1>2, <1>13, OthersKept
<1>18. ~Ent(x, d, j).u
  BY <1>11, <1>13
<1> QED BY <1>1, <1>2, <1>13, <1>15, <1>16, <1>17, <1>18 DEF Made, ReadsAs

(* The arguments are on the page above the one that protects the stack. *)
LEMMA TouchedIs ==
  ASSUME NEW N \in Nat, NEW a, a = (N + 2) * PGSIZE, NEW len \in Nat, len <= a, N \notin Touched(a - len, len)
  PROVE  Touched(a - len, len) \subseteq {N + 1}
<1>0. PGSIZE \in Nat \ {0}
  BY VmSizes
<1>1. a \in Nat
  BY <1>0
<1>2. CASE len = 0
  BY <1>2 DEF Touched
<1>3. CASE len # 0
  <2>1. PICK lo, hi : lo = (a - len) \div PGSIZE /\ hi = (a - 1) \div PGSIZE
    OBVIOUS
  <2>2. (a - len) + len - 1 = a - 1
    BY <1>1
  <2>3. Touched(a - len, len) = lo..hi
    BY <1>3, <2>1, <2>2 DEF Touched
  <2>4. hi = N + 1
    <3>1. NPages(a) = N + 2 /\ (a - 1) \div PGSIZE = NPages(a) - 1
      BY <1>1, WholePages, PagesOf
    <3> QED BY <2>1, <3>1
  <2>5. lo \in Int
    BY <1>0, <1>1, <2>1
  <2>6. ~(lo <= N)
    BY <2>3, <2>4, <2>5
  <2> QED BY <2>3, <2>4, <2>5, <2>6
<1> QED BY <1>2, <1>3

(* What exec leaves in the pages of the new program. *)
ExecWords(N, T) ==
  [j \in 1..N + 2 |-> IF j <= N THEN "code" ELSE IF j - 1 \in T THEN "args" ELSE "0"]
LEMMA ExecWordsAre ==
  ASSUME NEW N \in Nat, NEW T, T \subseteq {N + 1}
  PROVE  Put(Resize(Put(Resize(<<>>, N), 0..N - 1, "code"), N + 2), T, "args") = ExecWords(N, T)
<1>1. PICK c, a, z : c = "code" /\ a = "args" /\ z = "0" /\ c \in Words /\ a \in Words /\ z \in Words
  BY DEF Words
<1>2. PICK w : w = Resize(<<>>, N)
  OBVIOUS
<1>3. w \in Seq(Words) /\ Len(w) = N
  <2>1. <<>> \in Seq(Words)
    OBVIOUS
  <2> QED BY <1>2, <2>1, ResizeIs
<1>4. PICK x : x = Put(w, 0..N - 1, c)
  OBVIOUS
<1>5. x = [j \in 1..N |-> c]
  <2>1. x = [j \in 1..N |-> IF j - 1 \in 0..N - 1 THEN c ELSE w[j]]
    BY <1>3, <1>4 DEF Put
  <2>2. \A j \in 1..N : j - 1 \in 0..N - 1
    OBVIOUS
  <2> QED BY <2>1, <2>2
<1>6. x \in Seq(Words) /\ Len(x) = N
  <2>1. x \in [1..N -> Words]
    BY <1>1, <1>5
  <2> QED BY <2>1
<1>7. PICK y : y = Resize(x, N + 2)
  OBVIOUS
<1>8. y \in Seq(Words) /\ Len(y) = N + 2 /\ \A j \in 1..N + 2 : y[j] = IF j <= N THEN c ELSE z
  <2>0. N + 2 \in Nat
    OBVIOUS
  <2>1. y \in Seq(Words) /\ Len(y) = N + 2 /\ \A j \in 1..N + 2 : y[j] = IF j <= Len(x) THEN x[j] ELSE "0"
    BY <1>6, <1>7, <2>0, ResizeIs
  <2>2. \A j \in 1..N + 2 : j <= N => x[j] = c
    BY <1>5
  <2> QED BY <1>1, <1>6, <2>1, <2>2
<1>9. Put(y, T, a) = [j \in 1..N + 2 |-> IF j - 1 \in T THEN a ELSE y[j]]
  BY <1>8 DEF Put
<1>10. ASSUME NEW j \in 1..N + 2
       PROVE  (IF j - 1 \in T THEN a ELSE y[j]) = IF j <= N THEN c ELSE IF j - 1 \in T THEN a ELSE z
  <2>1. j <= N => j - 1 \notin T
    OBVIOUS
  <2> QED BY <1>8, <2>1
<1>11. Put(y, T, a) = [j \in 1..N + 2 |-> IF j <= N THEN c ELSE IF j - 1 \in T THEN a ELSE z]
  BY <1>9, <1>10
<1> QED BY <1>1, <1>2, <1>4, <1>7, <1>11 DEF ExecWords

-----------------------------------------------------------------------------
(* What a step does: the spaces still fit, and one that fails keeps all.   *)
Undoing ==
  undone' => /\ space' = space /\ image' = image
             /\ Owned(h', Dirs(h, space), {}) /\ Kept(h, h', Dirs(h, space))
StepOk == Fits(h', space', image') /\ undone' \in BOOLEAN /\ Undoing

(* exec gives up. *)
LEMMA BadIs ==
  ASSUME Fits(h, space, image), NEW x, Bad(x), Owned(x, Dirs(h, space), {}), Kept(h, x, Dirs(h, space))
  PROVE  StepOk
<1>1. h' = x /\ undone' = TRUE /\ space' = space /\ image' = image
  BY DEF Bad
<1>2. Fits(x, space, image)
  BY NoSlot
<1>3. Fits(h', space', image')
  BY <1>1, <1>2
<1>4. Undoing
  BY <1>1 DEF Undoing
<1> QED BY <1>1, <1>3, <1>4 DEF StepOk

(* exec commits to the new directory. *)
LEMMA CommitIs ==
  ASSUME Fits(h, space, image), NEW s \in Spaces, space[s].pgdir # 0, NEW d \in Frames, d \notin Dirs(h, space),
         NEW x, NEW w, Made(h, x, Dirs(h, space), d, w), NEW a \in 0..KERNBASE - 1, Len(w) = NPages(a),
         h' = freevm(x, space[s].pgdir), undone' = FALSE,
         space' = [space EXCEPT ![s] = [pgdir |-> d, sz |-> a]], image' = [image EXCEPT ![s] = w]
  PROVE  StepOk
<1>1. PICK D, p, F, E : D = Dirs(h, space) /\ p = space[s].pgdir /\ F = D \ {p} /\ E = D \cup {d}
  OBVIOUS
<1>2. p \in D /\ D \subseteq Frames /\ 0 \notin D
  BY <1>1, SpaceIs
<1>3. Owned(x, E, {}) /\ Kept(h, x, D) /\ ReadsAs(x, d, w) /\ w \in Seq(Words)
  BY <1>1 DEF Made
<1>4. p \in E /\ E \ {p} = F \cup {d} /\ d \notin F /\ d # 0 /\ E \ {p} \subseteq E
  BY <1>1, <1>2, FramesAre
<1>5. PICK v : v = h'
  OBVIOUS
<1>6. Owned(v, E \ {p}, {}) /\ Kept(x, v, E \ {p})
  <2>1. v = freevm(x, p)
    BY <1>1, <1>5
  <2> QED BY <1>3, <1>4, <2>1, FreevmIs
<1>7. ReadsAs(v, d, w)
  <2>1. d \in E \ {p}
    BY <1>4
  <2> QED BY <1>3, <1>4, <1>6, <2>1, ReadsKept
<1>8. Kept(h, v, F)
  <2>1. F \in SUBSET D /\ F \in SUBSET (E \ {p})
    BY <1>1, <1>4
  <2>2. Kept(h, x, F)
    BY <1>3, <2>1, AllKept
  <2>3. Kept(x, v, F)
    BY <1>6, <2>1, AllKept
  <2> QED BY <2>2, <2>3, AllKept
<1>9. PICK q : q = [pgdir |-> d, sz |-> a]
  OBVIOUS
<1>10. q \in Slots /\ q.pgdir = d /\ q.sz = a
  BY <1>9 DEF Slots
<1>11. Owned(v, F \cup ({q.pgdir} \ {0}), {}) /\ SlotOk(v, F, q, w)
  <2>1. F \cup ({q.pgdir} \ {0}) = E \ {p}
    BY <1>4, <1>10
  <2> QED BY <1>4, <1>6, <1>7, <1>10, <2>1 DEF SlotOk
<1>12. PICK y, z : y = [space EXCEPT ![s] = q] /\ z = [image EXCEPT ![s] = w]
  OBVIOUS
<1>13. Fits(v, y, z)
  <2>1. F = Dirs(h, space) \ {space[s].pgdir}
    BY <1>1
  <2> QED BY <1>3, <1>8, <1>10, <1>11, <1>12, <2>1, OneSlot
<1>14. Fits(h', space', image')
  <2>1. space' = y /\ image' = z
    BY <1>9, <1>12
  <2> QED BY <1>5, <1>13, <2>1
<1>15. Undoing
  BY DEF Undoing
<1> QED BY <1>14, <1>15 DEF StepOk

(* The words of a program with its stack. *)
Stack(N) == Resize(Put(Resize(<<>>, N), 0..N - 1, "code"), N + 2)
LEMMA StackIs ==
  ASSUME NEW N \in Nat
  PROVE  /\ Put(Resize(<<>>, N), 0..N - 1, "code") \in Seq(Words) /\ Len(Put(Resize(<<>>, N), 0..N - 1, "code")) = N
         /\ Resize(<<>>, N) \in Seq(Words) /\ Len(Resize(<<>>, N)) = N
         /\ Stack(N) \in Seq(Words) /\ Len(Stack(N)) = N + 2
<1>1. PICK c : c = "code" /\ c \in Words
  BY DEF Words
<1>2. PICK w : w = Resize(<<>>, N)
  OBVIOUS
<1>3. w \in Seq(Words) /\ Len(w) = N
  <2>1. <<>> \in Seq(Words)
    OBVIOUS
  <2> QED BY <1>2, <2>1, ResizeIs
<1>4. PICK x : x = Put(w, 0..N - 1, c)
  OBVIOUS
<1>5. x = [j \in 1..N |-> IF j - 1 \in 0..N - 1 THEN c ELSE w[j]]
  BY <1>3, <1>4 DEF Put
<1>6. x \in [1..N -> Words]
  <2>1. \A j \in 1..N : w[j] \in Words
    BY <1>3
  <2> QED BY <1>1, <1>5, <2>1
<1>7. x \in Seq(Words) /\ Len(x) = N
  BY <1>6
<1>8. N + 2 \in Nat
  OBVIOUS
<1>9. Resize(x, N + 2) \in Seq(Words) /\ Len(Resize(x, N + 2)) = N + 2
  BY <1>7, <1>8, ResizeIs
<1> QED BY <1>1, <1>2, <1>3, <1>4, <1>7, <1>9 DEF Stack

(* exec copies the arguments to the stack. *)
LEMMA ArguedIs ==
  ASSUME Fits(h, space, image), NEW s \in Spaces, space[s].pgdir # 0, NEW d \in Frames, d \notin Dirs(h, space),
         NEW n \in Nat, NEW N \in Nat, N = NPages(n), NEW x, Made(h, x, Dirs(h, space), d, Stack(N)),
         ~Ent(x, d, N).u, NEW a \in 0..KERNBASE - 1, a = (N + 2) * PGSIZE, NEW len \in Nat, Argued(s, x, d, n, a, len)
  PROVE  StepOk
<1>1. PICK T : /\ T = Touched(a - len, len)
               /\ IF len <= a /\ \A j \in T : uva2ka(x, d, j * PGSIZE) # 0
                  THEN Commit(s, x, d, n, a, T) ELSE Bad(freevm(x, d))
  BY DEF Argued
<1>2. CASE len <= a /\ \A j \in T : uva2ka(x, d, j * PGSIZE) # 0
  <2>1. N \notin T
    BY <1>2 DEF uva2ka, Ent
  <2>2. T \subseteq {N + 1}
    BY <1>1, <1>2, <2>1, TouchedIs
  <2>3. NPages(a) = N + 2 /\ N + 2 \in Nat
    BY WholePages
  <2>4. N + 1 \in UserPages
    <3>1. N + 2 \in 0..NUT * NPT
      BY <2>3, KernelBase
    <3> QED BY <3>1, VmSizes DEF UserPages
  <2>5. PICK w, v, c : w = Stack(N) /\ v = Fill(x, d, T, "args") /\ c = "args" /\ c \in Words
    BY DEF Words
  <2>6. w \in Seq(Words) /\ Len(w) = N + 2
    BY <2>5, StackIs
  <2>7. \A j \in T : j \in UserPages /\ j < Len(w)
    BY <2>2, <2>4, <2>6
  <2>8. Made(h, v, Dirs(h, space), d, Put(w, T, c)) /\ Len(Put(w, T, c)) = N + 2
    <3>1. Made(h, x, Dirs(h, space), d, w) /\ v = Fill(x, d, T, c)
      BY <2>5
    <3> QED BY <2>5, <2>6, <2>7, <3>1, MadeFilled
  <2>9. PICK z : z = ExecWords(N, T)
    OBVIOUS
  <2>10. Put(w, T, c) = z
    BY <2>2, <2>5, <2>9, ExecWordsAre DEF Stack
  <2>11. Made(h, v, Dirs(h, space), d, z) /\ Len(z) = NPages(a)
    BY <2>3, <2>8, <2>10
  <2>12. /\ h' = freevm(v, space[s].pgdir) /\ undone' = FALSE
         /\ space' = [space EXCEPT ![s] = [pgdir |-> d, sz |-> a]] /\ image' = [image EXCEPT ![s] = z]
    <3>1. Commit(s, x, d, n, a, T)
      BY <1>1, <1>2
    <3> QED BY <2>3, <2>5, <2>9, <3>1 DEF Commit, ExecWords
  <2> QED BY <2>11, <2>12, CommitIs
<1>3. CASE ~(len <= a /\ \A j \in T : uva2ka(x, d, j * PGSIZE) # 0)
  <2>1. Bad(freevm(x, d))
    BY <1>1, <1>3
  <2>2. Unmade(h, x, Dirs(h, space), d)
    BY DEF Made, Unmade
  <2>3. PICK y : y = freevm(x, d)
    OBVIOUS
  <2>4. Owned(y, Dirs(h, space), {}) /\ Kept(h, y, Dirs(h, space))
    BY <2>2, <2>3, UnmadeGone
  <2> QED BY <2>1, <2>3, <2>4, BadIs
<1> QED BY <1>2, <1>3

(* exec makes the stack. *)
LEMMA StackedIs ==
  ASSUME Fits(h, space, image), NEW s \in Spaces, space[s].pgdir # 0, NEW d \in Frames, d \notin Dirs(h, space),
         NEW n \in Nat, NEW N \in Nat, N = NPages(n), NEW x, NEW w, w = Put(Resize(<<>>, N), 0..N - 1, "code"),
         Made(h, x, Dirs(h, space), d, w), NEW len \in Nat, Stacked(s, x, d, n, len, PGROUNDUP(n))
  PROVE  StepOk
<1>1. PICK base, b : base = PGROUNDUP(n) /\ b = allocuvm(x, d, base, base + 2 * PGSIZE)
  OBVIOUS
<1>2. IF b.sz = 0 THEN Bad(freevm(b.m, d))
      ELSE \E c \in {clearpteu(b.m, d, base)} : Argued(s, c, d, n, b.sz, len)
  BY <1>1 DEF Stacked
<1>3. /\ base = N * PGSIZE /\ base \in Nat /\ base + 2 * PGSIZE = (N + 2) * PGSIZE /\ (N + 2) * PGSIZE \in Nat
      /\ NPages(base) = N /\ NPages((N + 2) * PGSIZE) = N + 2 /\ base <= (N + 2) * PGSIZE
  <2>1. base = N * PGSIZE
    BY <1>1, PagesOf
  <2>2. N + 2 \in Nat /\ PGSIZE \in Nat
    BY VmSizes
  <2>3. base \in Nat /\ NPages(base) = N /\ (N + 2) * PGSIZE \in Nat /\ NPages((N + 2) * PGSIZE) = N + 2
    BY <2>1, <2>2, WholePages
  <2>4. base + 2 * PGSIZE = (N + 2) * PGSIZE
    BY <2>1, <2>2
  <2>5. base <= (N + 2) * PGSIZE
    BY <2>2, <2>3, <2>4
  <2> QED BY <2>1, <2>3, <2>4, <2>5
<1>4. PICK a : a = (N + 2) * PGSIZE
  OBVIOUS
<1>5. w \in Seq(Words) /\ Len(w) = NPages(base) /\ Resize(w, N + 2) = Stack(N)
  BY <1>3, StackIs DEF Stack
<1>6. MoreMade(h, b, Dirs(h, space), d, w, a)
  <2>1. a \in Nat /\ base \in Nat /\ base <= a /\ b = allocuvm(x, d, base, a)
    BY <1>1, <1>3, <1>4
  <2> QED BY <1>5, <2>1, MadeGrows
<1>7. CASE b.sz = 0
  <2>1. PICK y : y = freevm(b.m, d)
    OBVIOUS
  <2>2. Unmade(h, b.m, Dirs(h, space), d) /\ Bad(y)
    BY <1>2, <1>6, <1>7, <2>1 DEF MoreMade
  <2>3. Owned(y, Dirs(h, space), {}) /\ Kept(h, y, Dirs(h, space))
    BY <2>1, <2>2, UnmadeGone
  <2> QED BY <2>2, <2>3, BadIs
<1>8. CASE b.sz # 0
  <2>1. b.sz = a /\ a < KERNBASE /\ Made(h, b.m, Dirs(h, space), d, Stack(N))
    BY <1>3, <1>4, <1>5, <1>6, <1>8 DEF MoreMade
  <2>2. a \in 0..KERNBASE - 1
    BY <1>3, <1>4, <2>1, KernelBase
  <2>3. PICK c : c = clearpteu(b.m, d, base) /\ Argued(s, c, d, n, a, len)
    BY <1>2, <1>8, <2>1
  <2>4. N \in UserPages /\ N < Len(Stack(N))
    <3>1. N + 2 \in 0..NUT * NPT
      BY <1>3, <1>4, <2>2, KernelBase
    <3>2. N \in UserPages
      BY <3>1, VmSizes DEF UserPages
    <3>3. Len(Stack(N)) = N + 2
      BY StackIs
    <3> QED BY <3>2, <3>3
  <2>5. Made(h, c, Dirs(h, space), d, Stack(N)) /\ ~Ent(c, d, N).u
    <3>1. PICK y, z : y = b.m /\ z = Stack(N)
      OBVIOUS
    <3>2. Made(h, y, Dirs(h, space), d, z) /\ N < Len(z) /\ c = clearpteu(y, d, N * PGSIZE)
      BY <1>3, <2>1, <2>3, <2>4, <3>1
    <3>3. Made(h, c, Dirs(h, space), d, z) /\ ~Ent(c, d, N).u
      BY <2>4, <3>2, MadeCleared
    <3> QED BY <3>1, <3>3
  <2> QED BY <1>4, <2>2, <2>3, <2>5, ArguedIs
<1> QED BY <1>7, <1>8

(* exec. *)
LEMMA ExecIs ==
  ASSUME Fits(h, space, image), NEW s \in Spaces, NEW n \in Nat, NEW len \in Nat, VmExec(s, n, len)
  PROVE  StepOk
<1>0. space[s].pgdir # 0
  BY DEF VmExec, InUse
<1>1. PICK D, N : D = Dirs(h, space) /\ N = NPages(n)
  OBVIOUS
<1>2. Owned(h, D, {}) /\ N \in Nat
  BY <1>1, SpaceIs, PagesOf
<1>3. PICK k : /\ k = setupkvm(h)
               /\ IF k.d = 0 THEN Bad(k.m)
                  ELSE \E a \in {allocuvm(k.m, k.d, 0, n)} :
                         IF a.sz = 0 THEN Bad(freevm(a.m, k.d))
                         ELSE Stacked(s, Fill(a.m, k.d, 0..NPages(n) - 1, "code"), k.d, n, len, PGROUNDUP(n))
  BY DEF VmExec
<1>4. SetupDone(h, k, D, {})
  BY <1>2, <1>3, SetupIs
<1>5. CASE k.d = 0
  <2>1. Owned(k.m, D, {}) /\ Kept(h, k.m, D)
    BY <1>4, <1>5, FramesAre DEF SetupDone
  <2>2. Bad(k.m)
    BY <1>3, <1>5
  <2> QED BY <1>1, <2>1, <2>2, BadIs
<1>6. CASE k.d # 0
  <2>1. PICK d, v : d = k.d /\ v = k.m
    OBVIOUS
  <2>2. d \in Frames /\ d \notin D /\ Owned(v, D \cup {d}, {}) /\ Kept(h, v, D) /\ Fresh(v, d, NPT)
    BY <1>4, <1>6, <2>1 DEF SetupDone
  <2>3. PICK a : /\ a = allocuvm(v, d, 0, n)
                 /\ IF a.sz = 0 THEN Bad(freevm(a.m, d))
                    ELSE Stacked(s, Fill(a.m, d, 0..N - 1, "code"), d, n, len, PGROUNDUP(n))
    BY <1>1, <1>3, <1>6, <2>1
  <2>4. PICK w : w = <<>>
    OBVIOUS
  <2>5. Made(h, v, D, d, w) /\ Len(w) = NPages(0)
    <3>1. 0 * PGSIZE = 0
      BY VmSizes
    <3>2. NPages(0) = 0
      BY <3>1, WholePages
    <3>3. w \in Seq(Words) /\ Len(w) = 0
      BY <2>4
    <3>4. KernelThere(v, d)
      <4>1. \A j \in AllPages : j < NUT * NPT + NPT
        BY VmSizes DEF AllPages
      <4> QED BY <2>2, <4>1 DEF Fresh, KernelThere
    <3>5. \A j \in UserPages : ~(j < 0) /\ Ent(v, d, j).pa = 0
      <4>1. \A j \in UserPages : ~(j < 0)
        BY DEF UserPages
      <4> QED BY <2>2, <4>1 DEF Fresh
    <3>6. ReadsAs(v, d, w)
      BY <3>3, <3>4, <3>5 DEF ReadsAs
    <3> QED BY <2>2, <3>2, <3>3, <3>6 DEF Made
  <2>6. MoreMade(h, a, D, d, w, n)
    BY <2>2, <2>3, <2>5, MadeGrows
  <2>7. CASE a.sz = 0
    <3>1. PICK y : y = freevm(a.m, d)
      OBVIOUS
    <3>2. Unmade(h, a.m, D, d) /\ Bad(y)
      BY <2>3, <2>6, <2>7, <3>1 DEF MoreMade
    <3>3. Owned(y, D, {}) /\ Kept(h, y, D)
      BY <2>2, <3>1, <3>2, UnmadeGone
    <3> QED BY <1>1, <3>2, <3>3, BadIs
  <2>8. CASE a.sz # 0
    <3>1. PICK y, z : y = a.m /\ z = Resize(<<>>, N)
      OBVIOUS
    <3>2. Made(h, y, D, d, z) /\ n < KERNBASE
      BY <1>1, <2>4, <2>6, <2>8, <3>1 DEF MoreMade
    <3>3. z \in Seq(Words) /\ Len(z) = N
      BY <1>2, <3>1, StackIs
    <3>4. N \in 0..NUT * NPT
      <4>1. n \in 0..KERNBASE - 1
        BY <3>2, KernelBase
      <4> QED BY <1>1, <4>1, KernelBase
    <3>5. \A j \in 0..N - 1 : j \in UserPages /\ j < Len(z)
      BY <3>3, <3>4, VmSizes DEF UserPages
    <3>6. PICK c, x, J : c = "code" /\ c \in Words /\ x = Fill(a.m, d, 0..N - 1, "code") /\ J = 0..N - 1
      BY DEF Words
    <3>7. Made(h, x, D, d, Put(z, J, c))
      <4>1. x = Fill(y, d, J, c) /\ \A j \in J : j \in UserPages /\ j < Len(z)
        BY <3>1, <3>5, <3>6
      <4> QED BY <2>2, <3>2, <3>6, <4>1, MadeFilled
    <3>8. PICK o : o = Put(z, J, c)
      OBVIOUS
    <3>9. o = Put(Resize(<<>>, N), 0..N - 1, "code") /\ Made(h, x, D, d, o)
      BY <3>1, <3>6, <3>7, <3>8
    <3>10. Stacked(s, x, d, n, len, PGROUNDUP(n))
      BY <2>3, <2>8, <3>6
    <3> QED BY <1>0, <1>1, <1>2, <2>2, <3>9, <3>10, StackedIs
  <2> QED BY <2>7, <2>8
<1> QED BY <1>5, <1>6

(* A step of fork. *)
LEMMA ForkStep ==
  ASSUME Fits(h, space, image), NEW s \in Spaces, NEW t \in Spaces, VmFork(s, t)
  PROVE  StepOk
<1>1. PICK c : /\ c = copyuvm(h, space[s].pgdir, space[s].sz) /\ h' = c.m /\ undone' = (c.d = 0)
               /\ space' = IF c.d = 0 THEN space
                           ELSE [space EXCEPT ![t] = [pgdir |-> c.d, sz |-> space[s].sz]]
               /\ image' = IF c.d = 0 THEN image ELSE [image EXCEPT ![t] = image[s]]
  BY DEF VmFork
<1>2. space[s].pgdir # 0 /\ space[t].pgdir = 0
  BY DEF VmFork, InUse
<1>3. ForkOk(h, space, image, s, t, c)
  BY <1>1, <1>2, ForkIs
<1>4. undone' \in BOOLEAN /\ (undone' <=> c.d = 0)
  BY <1>1
<1>5. CASE c.d = 0
  <2>1. Owned(c.m, Dirs(h, space), {}) /\ Kept(h, c.m, Dirs(h, space))
    BY <1>3, <1>5 DEF ForkOk
  <2>2. Fits(c.m, space, image)
    BY <2>1, NoSlot
  <2>3. space' = space /\ image' = image /\ h' = c.m
    BY <1>1, <1>5
  <2>4. Fits(h', space', image')
    BY <2>2, <2>3
  <2>5. Undoing
    BY <2>1, <2>3 DEF Undoing
  <2> QED BY <1>4, <2>4, <2>5 DEF StepOk
<1>6. CASE c.d # 0
  <2>1. Fits(c.m, [space EXCEPT ![t] = [pgdir |-> c.d, sz |-> space[s].sz]], [image EXCEPT ![t] = image[s]])
    BY <1>3, <1>6 DEF ForkOk
  <2>2. Fits(h', space', image')
    BY <1>1, <1>6, <2>1
  <2>3. Undoing
    BY <1>4, <1>6 DEF Undoing
  <2> QED BY <1>4, <2>2, <2>3 DEF StepOk
<1> QED BY <1>5, <1>6

(* A step of wait. *)
LEMMA FreeStep ==
  ASSUME Fits(h, space, image), NEW s \in Spaces, VmFree(s)
  PROVE  StepOk
<1>1. /\ space[s].pgdir # 0 /\ h' = freevm(h, space[s].pgdir) /\ undone' = FALSE
      /\ space' = [space EXCEPT ![s] = [pgdir |-> 0, sz |-> 0]] /\ image' = [image EXCEPT ![s] = <<>>]
  BY DEF VmFree, InUse, Forget
<1>2. Owned(h, Dirs(h, space), {}) /\ Kept(h, h, Dirs(h, space) \ {space[s].pgdir})
  BY SpaceIs, AllKept
<1>3. PICK v : v = freevm(h, space[s].pgdir)
  OBVIOUS
<1>4. Fits(v, [space EXCEPT ![s] = [pgdir |-> 0, sz |-> 0]], [image EXCEPT ![s] = <<>>])
  BY <1>1, <1>2, <1>3, FreeIs
<1>5. Fits(h', space', image')
  BY <1>1, <1>3, <1>4
<1>6. Undoing
  BY <1>1 DEF Undoing
<1> QED BY <1>1, <1>5, <1>6 DEF StepOk

(* A step of a program that stores a word. *)
LEMMA StoreStep ==
  ASSUME Fits(h, space, image), NEW s \in Spaces, NEW j \in UserPages, VmStore(s, j)
  PROVE  StepOk
<1>1. PICK f, c : f = uva2ka(h, space[s].pgdir, j * PGSIZE) /\ c = IF s = 1 THEN "mine" ELSE "other"
  OBVIOUS
<1>2. /\ space[s].pgdir # 0 /\ j < NPages(space[s].sz) /\ f # 0 /\ h' = [h EXCEPT !.data[f] = c]
      /\ image' = [image EXCEPT ![s][j + 1] = c] /\ undone' = FALSE /\ space' = space
  BY <1>1 DEF VmStore, InUse
<1>3. c \in Words
  BY <1>1 DEF Words
<1>4. f = Ent(h, space[s].pgdir, j).pa
  BY <1>1, <1>2 DEF uva2ka, Ent
<1>5. j \in 0..NPages(space[s].sz) - 1
  <2>1. NPages(space[s].sz) \in 0..NUT * NPT
    BY SpaceIs
  <2> QED BY <1>2, <2>1, VmSizes DEF UserPages
<1>6. PICK v : v = SetData(h, f, c)
  OBVIOUS
<1>7. Fits(v, space, [image EXCEPT ![s][j + 1] = c])
  BY <1>2, <1>3, <1>4, <1>5, <1>6, StoreIs
<1>8. h' = v
  BY <1>2, <1>6 DEF SetData
<1>9. Fits(h', space', image')
  BY <1>2, <1>7, <1>8
<1>10. Undoing
  BY <1>2 DEF Undoing
<1> QED BY <1>2, <1>9, <1>10 DEF StepOk

(* A step of growproc that leaves some memory, or fails. *)
LEMMA GrowStays ==
  ASSUME Fits(h, space, image), NEW s \in Spaces, space[s].pgdir # 0, NEW r, r.sz \in Nat,
         NEW e \in BOOLEAN, undone' = e,
         e => r.sz = 0, r.sz = 0 => Owned(r.m, Dirs(h, space), {}) /\ Kept(h, r.m, Dirs(h, space)),
         r.sz # 0 => Fits(r.m, [space EXCEPT ![s] = [pgdir |-> space[s].pgdir, sz |-> r.sz]],
                          [image EXCEPT ![s] = Resize(image[s], NPages(r.sz))]),
         h' = r.m, space' = [space EXCEPT ![s].sz = IF r.sz = 0 THEN @ ELSE r.sz],
         image' = [image EXCEPT ![s] = [j \in 1..NPages(space'[s].sz) |-> IF j <= Len(@) THEN @[j] ELSE "0"]]
  PROVE  StepOk
<1>1. /\ space \in [Spaces -> Slots] /\ image \in [Spaces -> Seq(Words)] /\ space[s] \in Slots
      /\ image[s] \in Seq(Words) /\ Len(image[s]) = NPages(space[s].sz) /\ NPages(space[s].sz) \in Nat
  <2>1. space \in [Spaces -> Slots] /\ image \in [Spaces -> Seq(Words)]
    BY DEF Fits
  <2>2. /\ space[s] \in Slots /\ image[s] \in Seq(Words) /\ Len(image[s]) = NPages(space[s].sz)
        /\ space[s].sz \in 0..KERNBASE - 1
    BY SpaceIs
  <2>3. space[s].sz \in Nat
    BY <2>2
  <2> QED BY <2>1, <2>2, <2>3, PagesOf
<1>2. image' = [image EXCEPT ![s] = Resize(image[s], NPages(space'[s].sz))]
  BY <1>1 DEF Resize
<1>3. CASE r.sz = 0
  <2>1. space' = space
    <3>1. space' = [space EXCEPT ![s] = [space[s] EXCEPT !.sz = space[s].sz]]
      BY <1>1, <1>3
    <3>2. [space[s] EXCEPT !.sz = space[s].sz] = space[s]
      BY <1>1 DEF Slots
    <3> QED BY <1>1, <3>1, <3>2
  <2>2. image' = image
    <3>1. Resize(image[s], NPages(space[s].sz)) = image[s]
      BY <1>1, ResizeIs
    <3>2. NPages(space'[s].sz) = NPages(space[s].sz)
      BY <2>1
    <3>3. image' = [image EXCEPT ![s] = image[s]]
      BY <1>2, <3>1, <3>2
    <3>4. PICK S : image \in [Spaces -> S]
      BY <1>1
    <3> QED BY <3>3, <3>4
  <2>3. Fits(r.m, space, image)
    BY <1>3, NoSlot
  <2>4. Fits(h', space', image')
    BY <2>1, <2>2, <2>3
  <2>5. Undoing
    BY <1>3, <2>1, <2>2 DEF Undoing
  <2> QED BY <2>4, <2>5 DEF StepOk
<1>4. CASE r.sz # 0
  <2>1. space' = [space EXCEPT ![s] = [pgdir |-> space[s].pgdir, sz |-> r.sz]]
    <3>1. space' = [space EXCEPT ![s] = [space[s] EXCEPT !.sz = r.sz]]
      BY <1>1, <1>4
    <3>2. [space[s] EXCEPT !.sz = r.sz] = [pgdir |-> space[s].pgdir, sz |-> r.sz]
      BY <1>1 DEF Slots
    <3> QED BY <3>1, <3>2
  <2>2. space'[s].sz = r.sz
    BY <1>1, <2>1
  <2>3. image' = [image EXCEPT ![s] = Resize(image[s], NPages(r.sz))]
    BY <1>2, <2>2
  <2>4. Fits(h', space', image')
    BY <1>4, <2>1, <2>3
  <2>5. Undoing
    BY <1>4 DEF Undoing
  <2> QED BY <2>4, <2>5 DEF StepOk
<1> QED BY <1>3, <1>4

(* A step of growproc. *)
LEMMA GrowStep ==
  ASSUME Fits(h, space, image), NEW s \in Spaces, NEW n \in Int, VmGrow(s, n)
  PROVE  StepOk
<1>1. PICK p, a, b : p = space[s].pgdir /\ a = space[s].sz /\ b = (a + n) % UWRAP
  OBVIOUS
<1>2. p # 0 /\ a \in Nat /\ b \in Nat
  <2>1. p # 0 /\ a \in 0..KERNBASE - 1
    BY <1>1, SpaceIs DEF VmGrow, InUse
  <2>2. UWRAP \in Nat \ {0}
    BY KernelBase, VmSizes DEF UWRAP
  <2>3. a \in Nat /\ a + n \in Int
    BY <2>1
  <2>4. b \in Nat
    BY <1>1, <2>2, <2>3
  <2> QED BY <2>1, <2>3, <2>4
<1>3. PICK r : /\ r = Resized(p, a, n)
               /\ \/ /\ n < 0 /\ r.sz = 0 /\ s # 1
                     /\ h' = freevm(r.m, p) /\ undone' = FALSE
                     /\ space' = Forget(s) /\ image' = [image EXCEPT ![s] = <<>>]
                  \/ /\ ~(n < 0 /\ r.sz = 0)
                     /\ h' = r.m /\ undone' = (n > 0 /\ r.sz = 0)
                     /\ space' = [space EXCEPT ![s].sz = IF r.sz = 0 THEN @ ELSE r.sz]
                     /\ image' = [image EXCEPT ![s] =
                                    [j \in 1..NPages(space'[s].sz) |-> IF j <= Len(@) THEN @[j] ELSE "0"]]
  BY <1>1 DEF VmGrow
<1>4. /\ n < 0 => ShrinkOk(h, space, image, s, r)
      /\ ~(n < 0) => GrowOk(h, space, image, s, r)
  <2>1. CASE n < 0
    <3>1. r = deallocuvm(h, p, a, b)
      BY <1>1, <1>3, <2>1 DEF Resized
    <3>2. ShrinkOk(h, space, image, s, r)
      BY <1>1, <1>2, <3>1, GrowDown
    <3> QED BY <2>1, <3>2
  <2>2. CASE n > 0
    <3>1. r = allocuvm(h, p, a, b)
      BY <1>1, <1>3, <2>2 DEF Resized
    <3>2. GrowOk(h, space, image, s, r)
      BY <1>1, <1>2, <3>1, GrowUp
    <3> QED BY <2>2, <3>2
  <2>3. CASE n = 0
    <3>1. r = [m |-> h, sz |-> a]
      BY <1>3, <2>3 DEF Resized
    <3>2. r.m = h /\ r.sz = a
      BY <3>1
    <3>3. GrowOk(h, space, image, s, r)
      BY <1>1, <1>2, <3>2, SameSize
    <3> QED BY <2>3, <3>3
  <2> QED BY <2>1, <2>2, <2>3
<1>5. r.sz \in Nat
  <2>1. r.sz \in 0..KERNBASE - 1
    BY <1>4 DEF ShrinkOk, GrowOk
  <2> QED BY <2>1
<1>6. CASE n < 0 /\ r.sz = 0
  <2>1. Owned(r.m, Dirs(h, space), {}) /\ Kept(h, r.m, Dirs(h, space) \ {space[s].pgdir})
    BY <1>4, <1>6 DEF ShrinkOk
  <2>2. /\ h' = freevm(r.m, space[s].pgdir) /\ undone' = FALSE
        /\ space' = [space EXCEPT ![s] = [pgdir |-> 0, sz |-> 0]] /\ image' = [image EXCEPT ![s] = <<>>]
    BY <1>1, <1>3, <1>6 DEF Forget
  <2>3. PICK x, v : x = r.m /\ v = freevm(x, space[s].pgdir)
    OBVIOUS
  <2>4. Fits(v, [space EXCEPT ![s] = [pgdir |-> 0, sz |-> 0]], [image EXCEPT ![s] = <<>>])
    <3>1. Owned(x, Dirs(h, space), {}) /\ Kept(h, x, Dirs(h, space) \ {space[s].pgdir}) /\ space[s].pgdir # 0
      BY <1>1, <1>2, <2>1, <2>3
    <3> QED BY <2>3, <3>1, FreeIs
  <2>5. Fits(h', space', image')
    BY <2>2, <2>3, <2>4
  <2>6. Undoing
    BY <2>2 DEF Undoing
  <2> QED BY <2>2, <2>5, <2>6 DEF StepOk
<1>7. CASE ~(n < 0 /\ r.sz = 0)
  <2>1. /\ h' = r.m /\ undone' = (n > 0 /\ r.sz = 0)
        /\ space' = [space EXCEPT ![s].sz = IF r.sz = 0 THEN @ ELSE r.sz]
        /\ image' = [image EXCEPT ![s] =
             [j \in 1..NPages(space'[s].sz) |-> IF j <= Len(@) THEN @[j] ELSE "0"]]
    BY <1>3, <1>7
  <2>2. PICK e : e = (n > 0 /\ r.sz = 0)
    OBVIOUS
  <2>3. e \in BOOLEAN /\ undone' = e /\ (e => r.sz = 0)
    BY <2>1, <2>2
  <2>4. r.sz = 0 => Owned(r.m, Dirs(h, space), {}) /\ Kept(h, r.m, Dirs(h, space))
    BY <1>4, <1>7 DEF GrowOk
  <2>5. r.sz # 0 => Fits(r.m, [space EXCEPT ![s] = [pgdir |-> space[s].pgdir, sz |-> r.sz]],
                          [image EXCEPT ![s] = Resize(image[s], NPages(r.sz))])
    BY <1>4 DEF GrowOk, ShrinkOk
  <2>6. space[s].pgdir # 0
    BY <1>1, <1>2
  <2> QED BY <1>5, <2>1, <2>3, <2>4, <2>5, <2>6, GrowStays
<1> QED BY <1>6, <1>7

-----------------------------------------------------------------------------
(* freerange has freed the pages 1 to n. *)
Ranged(v, n) == v \in Memory /\ v.free = 1..n /\ \A f \in Frames : v.tab[f] = Zeroed
LEMMA RangeLoop ==
  ASSUME NEW z, Ranged(z, 0), NEW g,
         g = (CHOOSE M : M = [j \in 0..NPAGES |-> IF j = 0 THEN z ELSE kfree(M[j - 1], j)])[NPAGES]
  PROVE  Ranged(g, NPAGES)
<1> DEFINE E(f) == f = [j \in 0..NPAGES |-> IF j = 0 THEN z ELSE kfree(f[j - 1], j)]
           I == [n \in 0..NPAGES |-> {v \in Memory : Ranged(v, n)}]
           G == [n \in 1..NPAGES |-> [v \in I[n - 1] |-> kfree(v, n)]]
<1>0. NPAGES \in Int /\ 0 <= NPAGES /\ 0 + 1 = 1 /\ 0 \in 0..NPAGES /\ NPAGES \in 0..NPAGES
      /\ (\A n \in 1..NPAGES : n - 1 \in 0..NPAGES /\ n \in 0..NPAGES /\ n # 0)
  BY VmSizes
<1>2. ASSUME NEW n \in 1..NPAGES, NEW v, Ranged(v, n - 1) PROVE Ranged(kfree(v, n), n)
  <2>1. v \in Memory /\ v.free = 1..n - 1 /\ \A f \in Frames : v.tab[f] = Zeroed
    BY <1>2 DEF Ranged
  <2>2. n \in Frames /\ n \notin 1..n - 1 /\ (1..n - 1) \cup {n} = 1..n
    BY <1>0 DEF Frames
  <2>3. /\ kfree(v, n) \in Memory /\ kfree(v, n).free = v.free \cup {n}
        /\ kfree(v, n).tab[n] = Zeroed
        /\ \A f \in Frames : f # n => kfree(v, n).tab[f] = v.tab[f]
    <3>1. n \notin v.free
      BY <2>1, <2>2
    <3> QED BY <2>1, <2>2, <3>1, KfreeSets
  <2>4. \A f \in Frames : kfree(v, n).tab[f] = Zeroed
    BY <2>1, <2>3
  <2>5. kfree(v, n).free = 1..n
    BY <2>1, <2>2, <2>3
  <2> QED BY <2>3, <2>4, <2>5 DEF Ranged
<1>3. \A v, n : Ranged(v, n) => v \in Memory
  BY DEF Ranged
<1>4. LoopSteps(0, NPAGES, z, G, I)
  <2>1. z \in I[0]
    BY <1>0, <1>3
  <2>2. ASSUME NEW n \in 1..NPAGES, NEW s \in I[n - 1] PROVE G[n][s] \in I[n]
    <3>1. Ranged(s, n - 1) /\ G[n][s] = kfree(s, n)
      BY <1>0
    <3> QED BY <1>0, <1>2, <1>3, <3>1
  <2> HIDE DEF I, G
  <2> QED BY <1>0, <2>1, <2>2 DEF LoopSteps
<1>5. PICK f : /\ f = [n \in 0..NPAGES |-> f[n]] /\ f[0] = z
               /\ \A n \in 0 + 1..NPAGES : f[n - 1] \in I[n - 1] /\ f[n] = G[n][f[n - 1]]
  <2> HIDE DEF I, G
  <2>2. PICK e : LoopOf(e, 0, NPAGES, z, G, I)
    BY <1>0, <1>4, LoopExists
  <2> QED BY <2>2 DEF LoopOf
<1>6. E(f)
  <2>1. ASSUME NEW n \in 0..NPAGES PROVE f[n] = IF n = 0 THEN z ELSE kfree(f[n - 1], n)
    <3>1. CASE n = 0
      BY <1>5, <3>1
    <3>2. CASE n # 0
      <4>1. n \in 1..NPAGES /\ n \in 0 + 1..NPAGES
        BY <1>0, <3>2
      <4>2. f[n - 1] \in I[n - 1] /\ f[n] = G[n][f[n - 1]]
        BY <1>5, <4>1
      <4> QED BY <1>0, <4>1, <4>2
    <3> QED BY <3>1, <3>2
  <2> QED BY <1>5, <2>1
<1>7. PICK e : e = CHOOSE f0 : E(f0)
  OBVIOUS
<1>8. E(e)
  <2> HIDE DEF E
  <2> QED BY <1>6, <1>7, Zenon
<1>9. g = e[NPAGES]
  BY <1>7
<1>10. LoopRuns(e, 0, NPAGES, z, G, I)
  <2>1. e[0] = z
    BY <1>0, <1>8
  <2>2. ASSUME NEW n \in 0 + 1..NPAGES, e[n - 1] \in I[n - 1] PROVE e[n] = G[n][e[n - 1]]
    <3>1. n \in 1..NPAGES
      BY <1>0
    <3>2. e[n] = kfree(e[n - 1], n)
      BY <1>0, <1>8, <3>1
    <3> QED BY <2>2, <3>1, <3>2
  <2> QED BY <2>1, <2>2 DEF LoopRuns
<1>11. e[NPAGES] \in I[NPAGES]
  <2> HIDE DEF I, G, E
  <2> QED BY <1>0, <1>4, <1>10, LoopHolds
<1>12. Ranged(e[NPAGES], NPAGES)
  BY <1>0, <1>11
<1> QED BY <1>9, <1>12

(* After freerange all pages are free. *)
LEMMA RangeIs == Owned(freerange, {}, {}) /\ freerange.free = Frames
<1>1. PICK z : z = [free |-> {}, tab |-> [f \in Frames |-> Zeroed],
                    data |-> [f \in Frames |-> "junk"], fault |-> "none", kpgdir |-> 0]
  OBVIOUS
<1>2. Ranged(z, 0)
  <2>1. PICK T : T = [Indices -> Ptes]
    OBVIOUS
  <2>2. Zeroed \in T
    BY <2>1, ZeroedIs
  <2>3. PICK X : X = [f \in Frames |-> Zeroed]
    OBVIOUS
  <2>4. X \in [Frames -> T] /\ \A f \in Frames : X[f] = Zeroed
    BY <2>2, <2>3
  <2>5. PICK w : w = "junk" /\ w \in Words
    BY DEF Words
  <2>6. PICK Y : Y = [f \in Frames |-> w]
    OBVIOUS
  <2>7. Y \in [Frames -> Words]
    BY <2>5, <2>6
  <2>8. z = [free |-> {}, tab |-> X, data |-> Y, fault |-> "none", kpgdir |-> 0]
    BY <1>1, <2>3, <2>5, <2>6
  <2>9. X \in [Frames -> [Indices -> Ptes]]
    BY <2>1, <2>4
  <2>10. z \in Memory /\ z.free = {} /\ z.tab = X
    BY <2>7, <2>8, <2>9 DEF Memory
  <2>11. {} = 1..0
    OBVIOUS
  <2> QED BY <2>4, <2>10, <2>11 DEF Ranged
<1>3. PICK g : g = freerange
  OBVIOUS
<1>4. g = (CHOOSE M : M = [j \in 0..NPAGES |-> IF j = 0 THEN z ELSE kfree(M[j - 1], j)])[NPAGES]
  BY <1>1, <1>3 DEF freerange
<1>5. Ranged(g, NPAGES)
  BY <1>2, <1>4, RangeLoop
<1>6. g \in Memory /\ g.free = Frames /\ \A f \in Frames : g.tab[f] = Zeroed
  BY <1>5 DEF Ranged, Frames
<1>7. PICK k, o : k = [f \in Frames |-> "free"] /\ o = [f \in Frames |-> 0]
  OBVIOUS
<1>8. Own(g, {}, {}, k, o, o)
  <2>1. k \in [Frames -> {"free", "loose", "dir", "tab", "page"}] /\ o \in [Frames -> Nat]
        /\ \A f \in Frames : k[f] = "free"
    BY <1>7
  <2>2. Roles(g, {}, {}, k, o, o)
    BY <1>6, <2>1 DEF Roles
  <2> QED BY <2>1, <2>2 DEF Own
<1> QED BY <1>3, <1>6, <1>8 DEF Owned

(* With six pages, five may be taken. *)
LEMMA OneMorePage ==
  ASSUME NEW a, NEW b, NEW c, NEW d, NEW e
  PROVE  \E f \in Frames : f \notin {a, b, c, d, e}
<1>1. 1 \in Frames /\ 2 \in Frames /\ 3 \in Frames /\ 4 \in Frames /\ 5 \in Frames /\ 6 \in Frames
  BY VmSizes DEF Frames
<1> QED BY <1>1

(* setupkvm twice, of all pages. *)
TwoDirs(k, r) ==
  /\ k.d \in Frames /\ r.d \in Frames /\ k.d # r.d /\ Owned(r.m, {k.d, r.d}, {})
  /\ Fresh(r.m, r.d, NPT) /\ \E a, b, c, e : r.m.free = Frames \ {a, b, c, e}
LEMMA BothDirs ==
  ASSUME NEW k, k = setupkvm(freerange), NEW r, r = setupkvm(k.m)
  PROVE  TwoDirs(k, r)
<1>1. Owned(freerange, {}, {}) /\ freerange.free = Frames
  BY RangeIs
<1>2. PICK m : m = freerange
  OBVIOUS
<1>3. SetupDone(m, k, {}, {}) /\ m.free = Frames
  <2>1. Owned(m, {}, {}) /\ k = setupkvm(m)
    BY <1>1, <1>2
  <2>2. SetupDone(m, k, {}, {})
    BY <2>1, SetupIs
  <2> QED BY <1>1, <1>2, <2>2
<1>4. 1 \in Frames /\ 2 \in Frames
  BY VmSizes DEF Frames
<1>5. /\ k.d \in Frames /\ Owned(k.m, {k.d}, {}) /\ \E a, b : k.m.free = Frames \ {a, b}
  <2>1. /\ k.d \in Frames \ ({} \cup {}) /\ Owned(k.m, {} \cup {k.d}, {})
        /\ \E a, b \in m.free : k.m.free = m.free \ {a, b}
    BY <1>3, <1>4 DEF SetupDone
  <2>2. {} \cup {k.d} = {k.d}
    OBVIOUS
  <2> QED BY <1>3, <2>1, <2>2
<1>6. PICK D, v : D = {k.d} /\ v = k.m
  OBVIOUS
<1>7. SetupDone(v, r, D, {})
  <2>1. Owned(v, D, {}) /\ r = setupkvm(v)
    BY <1>5, <1>6
  <2> QED BY <2>1, SetupIs
<1>8. PICK a, b : v.free = Frames \ {a, b}
  BY <1>5, <1>6
<1>9. ~(\A x, y \in v.free : x = y)
  <2>1. PICK x \in Frames : x \notin {a, b, a, a, a}
    BY OneMorePage
  <2>2. PICK y \in Frames : y \notin {a, b, x, x, x}
    BY OneMorePage
  <2> QED BY <1>8, <2>1, <2>2
<1>10. /\ r.d \in Frames \ (D \cup {}) /\ Owned(r.m, D \cup {r.d}, {}) /\ Fresh(r.m, r.d, NPT)
       /\ \E x, y \in v.free : r.m.free = v.free \ {x, y}
  BY <1>7, <1>9 DEF SetupDone
<1>11. D \cup {r.d} = {k.d, r.d} /\ r.d # k.d
  BY <1>6, <1>10
<1>12. \E x, y : r.m.free = Frames \ {a, b, x, y}
  <2>1. PICK c, e : r.m.free = v.free \ {c, e}
    BY <1>10
  <2>2. r.m.free = Frames \ {a, b, c, e}
    BY <1>8, <2>1
  <2> WITNESS c, e
  <2> QED BY <2>2
<1> QED BY <1>5, <1>10, <1>11, <1>12 DEF TwoDirs

(* mappages with a free page does not fail. *)
LEMMA MapsPage ==
  ASSUME NEW m, NEW D, NEW L, Owned(m, D, L), NEW d \in D, NEW j \in UserPages, Ent(m, d, j).pa = 0,
         NEW f \in L, NEW b \in BOOLEAN, m.free # {}
  PROVE  UserMapped(m, D, L, d, j, f, b, mappages(m, d, j * PGSIZE, f, b))
<1>1. PICK x : x = mappages(m, d, j * PGSIZE, f, b)
  OBVIOUS
<1>2. ~NoTable(m, d, j, x)
  BY DEF NoTable
<1>3. UserMapped(m, D, L, d, j, f, b, x)
  BY <1>1, <1>2, MapUser
<1> QED BY <1>1, <1>3

(* The page for initcode. *)
LEMMA FirstPage ==
  ASSUME NEW m, NEW D, Owned(m, D, {}), NEW d \in D, Fresh(m, d, NPT),
         \E a, b, c, e : m.free = Frames \ {a, b, c, e},
         NEW n, n = kalloc(m), NEW x, x = mappages([n.m EXCEPT !.data[n.f] = "code"], d, 0, n.f, TRUE)
  PROVE  Owned(x.m, D, {}) /\ ReadsAs(x.m, d, <<"code">>)
<1>1. PICK a, b, c, e : m.free = Frames \ {a, b, c, e}
  OBVIOUS
<1>2. m.free # {}
  BY <1>1, OneMorePage
<1>3. /\ n.f \in m.free /\ n.f \in Frames \ (D \cup {}) /\ n.m.free = m.free \ {n.f}
      /\ Owned(n.m, D, {} \cup {n.f}) /\ Kept(m, n.m, D)
  BY <1>2, KallocIs
<1>4. PICK f, L, w : f = n.f /\ L = {f} /\ w = n.m
  OBVIOUS
<1>5. f \in Frames /\ f # 0 /\ Owned(w, D, L) /\ Kept(m, w, D) /\ w.free = m.free \ {f} /\ f \in L /\ L \ {f} = {}
  <2>1. {} \cup {n.f} = L
    BY <1>4
  <2> QED BY <1>3, <1>4, <2>1, FramesAre
<1>6. PICK t : t = "code" /\ t \in Words
  BY DEF Words
<1>7. PICK v : v = SetData(w, f, t)
  OBVIOUS
<1>8. Owned(v, D, L) /\ Kept(w, v, D) /\ SameShape(w, v) /\ v.data[f] = t
  BY <1>5, <1>6, <1>7, LooseWord
<1>9. PICK z : z = 0 * PGSIZE /\ z = 0
  BY VmSizes
<1>10. x = mappages(v, d, 0 * PGSIZE, f, TRUE)
  <2>1. v = [n.m EXCEPT !.data[n.f] = "code"]
    BY <1>4, <1>6, <1>7 DEF SetData
  <2> QED BY <1>4, <1>9, <2>1
<1>11. 0 \in UserPages /\ UserPages \subseteq AllPages
  BY VmSizes, Place DEF UserPages
<1>12. Kept(m, v, D)
  BY <1>5, <1>8, AllKept
<1>13. \A j \in AllPages : SameEnt(m, v, d, j)
  <2>1. KeptBut(m, v, D, 0, {})
    BY <1>12 DEF Kept
  <2> QED BY <2>1 DEF KeptBut
<1>14. \A j \in UserPages : Ent(v, d, j).pa = 0
  BY <1>11, <1>13 DEF Fresh, SameEnt
<1>15. PICK p : p = [pa |-> Kernel, u |-> FALSE]
  OBVIOUS
<1>16. p.pa # 0
  BY <1>15, FramesAre
<1>17. \A j \in AllPages \ UserPages : Ent(m, d, j) = p
  <2> SUFFICES ASSUME NEW j \in AllPages \ UserPages PROVE Ent(m, d, j) = p
    OBVIOUS
  <2>1. j < NUT * NPT + NPT
    BY VmSizes DEF AllPages
  <2> QED BY <1>15, <2>1 DEF Fresh
<1>18. \A j \in AllPages \ UserPages : Ent(v, d, j) = p
  BY <1>13, <1>16, <1>17 DEF SameEnt
<1>19. v.free # {}
  <2>1. PICK g \in Frames : g \notin {a, b, c, e, f}
    BY OneMorePage
  <2>2. v.free = w.free
    BY <1>8 DEF SameShape
  <2> QED BY <1>1, <1>5, <2>1, <2>2
<1>20. UserMapped(v, D, L, d, 0, f, TRUE, x)
  <2>1. PICK j, y : j = 0 /\ y = TRUE
    OBVIOUS
  <2>2. j \in UserPages /\ y \in BOOLEAN /\ Ent(v, d, j).pa = 0 /\ x = mappages(v, d, j * PGSIZE, f, y)
    BY <1>10, <1>11, <1>14, <2>1
  <2>3. Owned(v, D, L) /\ f \in L /\ d \in D /\ v.free # {}
    BY <1>5, <1>8, <1>19
  <2>4. UserMapped(v, D, L, d, j, f, y, mappages(v, d, j * PGSIZE, f, y))
    BY <2>2, <2>3, MapsPage
  <2> QED BY <2>1, <2>2, <2>4
<1>21. PICK s : s = x.m
  OBVIOUS
<1>22. /\ Owned(s, D, {}) /\ KeptBut(v, s, D, d, {0}) /\ Ent(s, d, 0).pa = f /\ s.data[f] = t
  <2>1. /\ Owned(s, D, L \ {f}) /\ KeptBut(v, s, D, d, {0})
        /\ Ent(s, d, 0) = [pa |-> f, u |-> TRUE] /\ s.data[f] = v.data[f]
    BY <1>20, <1>21 DEF UserMapped
  <2>2. Ent(s, d, 0).pa = f
    BY <2>1
  <2> QED BY <1>5, <1>8, <2>1, <2>2
<1>23. \A j \in AllPages : j # 0 => SameEnt(v, s, d, j)
  BY <1>22 DEF KeptBut
<1>24. KernelThere(s, d)
  <2>1. \A j \in AllPages \ UserPages : Ent(s, d, j) = p
    BY <1>11, <1>16, <1>18, <1>23 DEF SameEnt
  <2> QED BY <1>15, <2>1 DEF KernelThere
<1>25. PICK ww : ww = <<"code">>
  OBVIOUS
<1>26. Len(ww) = 1 /\ ww[1] = t
  BY <1>6, <1>25
<1>27. ASSUME NEW j \in UserPages
       PROVE  IF j < Len(ww) THEN Ent(s, d, j).pa # 0 /\ s.data[Ent(s, d, j).pa] = ww[j + 1] ELSE Ent(s, d, j).pa = 0
  <2>0. j \in Nat
    BY VmSizes DEF UserPages
  <2>1. CASE j = 0
    <3>1. j < Len(ww) /\ j + 1 = 1
      BY <1>26, <2>1
    <3> QED BY <1>5, <1>22, <1>26, <2>1, <3>1
  <2>2. CASE j # 0
    <3>1. ~(j < Len(ww))
      BY <1>26, <2>0, <2>2
    <3>2. Ent(s, d, j).pa = 0
      BY <1>11, <1>14, <1>23, <2>2 DEF SameEnt
    <3> QED BY <3>1, <3>2
  <2> QED BY <2>1, <2>2
<1>28. ReadsAs(s, d, ww)
  BY <1>24, <1>27 DEF ReadsAs
<1> QED BY <1>21, <1>22, <1>25, <1>28

(* The initial state. *)
LEMMA VmInitFits ==
  ASSUME VmInit
  PROVE  Fits(h, space, image) /\ undone \in BOOLEAN
<1>1. PICK k, r, n, x :
        /\ k = setupkvm(freerange) /\ r = setupkvm(k.m) /\ n = kalloc(r.m)
        /\ x = mappages([n.m EXCEPT !.data[n.f] = "code"], r.d, 0, n.f, TRUE)
        /\ Userinit(x, k.d, r.d)
  BY DEF VmInit
<1>2. PICK q, d, D : q = k.d /\ d = r.d /\ D = {q, d}
  OBVIOUS
<1>3. /\ q \in Frames /\ d \in Frames /\ q # d /\ Owned(r.m, D, {}) /\ Fresh(r.m, d, NPT)
      /\ \E a, b, c, e : r.m.free = Frames \ {a, b, c, e}
  <2>1. k = setupkvm(freerange) /\ r = setupkvm(k.m)
    BY <1>1
  <2>2. /\ k.d \in Frames /\ r.d \in Frames /\ k.d # r.d /\ Owned(r.m, {k.d, r.d}, {})
        /\ Fresh(r.m, r.d, NPT) /\ \E a, b, c, e : r.m.free = Frames \ {a, b, c, e}
    <3>1. TwoDirs(k, r)
      BY <2>1, BothDirs
    <3> QED BY <3>1 DEF TwoDirs
  <2>3. D = {k.d, r.d}
    BY <1>2
  <2> QED BY <1>2, <2>2, <2>3
<1>4. Owned(x.m, D, {}) /\ ReadsAs(x.m, d, <<"code">>)
  <2>1. PICK m : m = r.m
    OBVIOUS
  <2>2. Owned(m, D, {}) /\ d \in D /\ Fresh(m, d, NPT) /\ \E a, b, c, e : m.free = Frames \ {a, b, c, e}
    BY <1>2, <1>3, <2>1
  <2>3. n = kalloc(m) /\ x = mappages([n.m EXCEPT !.data[n.f] = "code"], d, 0, n.f, TRUE)
    BY <1>1, <1>2, <2>1
  <2> QED BY <2>2, <2>3, FirstPage
<1>5. PICK m, w : m = x.m /\ w = <<"code">>
  OBVIOUS
<1>6. /\ h = [m EXCEPT !.kpgdir = q]
      /\ space = [s \in Spaces |-> IF s = 1 THEN [pgdir |-> d, sz |-> PGSIZE] ELSE [pgdir |-> 0, sz |-> 0]]
      /\ image = [s \in Spaces |-> IF s = 1 THEN w ELSE <<>>]
      /\ undone = FALSE
  BY <1>1, <1>2, <1>5 DEF Userinit
<1>7. m \in Memory /\ Owned(m, D, {}) /\ ReadsAs(m, d, w)
  BY <1>4, <1>5 DEF Owned
<1>8. /\ h \in Memory /\ h.free = m.free /\ h.tab = m.tab /\ h.data = m.data /\ h.kpgdir = q
  <2>1. q \in Nat
    BY <1>3, FramesAre
  <2> QED BY <1>6, <1>7, <2>1 DEF Memory
<1>9. \A e, i : Tab(h, e, i) = Tab(m, e, i) /\ Ent(h, e, i) = Ent(m, e, i)
  BY <1>8 DEF Tab, Ent, Pte
<1>10. Owned(h, D, {})
  <2>1. SameRoles(m, h, D)
    <3>1. Clean(m) /\ \A e \in D, j \in AllPages \ UserPages : Ent(m, e, j).pa \in {0, Kernel}
      BY <1>7, OwnFacts
    <3> QED BY <1>8, <1>9, <3>1 DEF SameRoles, Clean
  <2> QED BY <1>7, <1>8, <2>1, RolesStay
<1>11. ReadsAs(h, d, w)
  BY <1>7, <1>8, <1>9 DEF ReadsAs, KernelThere
<1>12. 1 \in Spaces /\ PGSIZE \in 0..KERNBASE - 1 /\ 0 \in 0..KERNBASE - 1 /\ NPages(PGSIZE) = 1
  <2>1. NPages(1 * PGSIZE) = 1 /\ 1 * PGSIZE = PGSIZE
    BY WholePages, VmSizes
  <2> QED BY <2>1, VmSizes, KernelBase DEF Spaces
<1>13. space \in [Spaces -> Slots] /\ space[1].pgdir = d /\ space[1].sz = PGSIZE
       /\ \A s \in Spaces : s # 1 => space[s].pgdir = 0
  <2>1. PICK a, b : a = [pgdir |-> d, sz |-> PGSIZE] /\ b = [pgdir |-> 0, sz |-> 0]
    OBVIOUS
  <2>2. a \in Slots /\ b \in Slots /\ a.pgdir = d /\ a.sz = PGSIZE /\ b.pgdir = 0
    BY <1>3, <1>12, <2>1 DEF Slots
  <2>3. space = [s \in Spaces |-> IF s = 1 THEN a ELSE b]
    BY <1>6, <2>1
  <2> QED BY <1>12, <2>2, <2>3
<1>14. image \in [Spaces -> Seq(Words)] /\ image[1] = w
  <2>1. PICK c : c = "code" /\ c \in Words
    BY DEF Words
  <2>2. w = <<c>>
    BY <1>5, <2>1
  <2>3. w \in Seq(Words) /\ <<>> \in Seq(Words)
    BY <2>1, <2>2
  <2>4. PICK S, y : S = Seq(Words) /\ y = <<>>
    OBVIOUS
  <2>5. w \in S /\ y \in S /\ image = [s \in Spaces |-> IF s = 1 THEN w ELSE y]
    BY <1>6, <2>3, <2>4
  <2>6. image \in [Spaces -> S] /\ image[1] = w
    BY <1>12, <2>5
  <2> QED BY <2>4, <2>6
<1>15. Dirs(h, space) = D
  <2>1. 0 \notin Frames
    BY FramesAre
  <2>2. ASSUME NEW f \in Dirs(h, space) PROVE f \in D
    BY <1>2, <1>8, <1>13 DEF Dirs
  <2>3. q \in Dirs(h, space) /\ d \in Dirs(h, space)
    BY <1>3, <1>8, <1>12, <1>13, <2>1 DEF Dirs
  <2> QED BY <1>2, <2>2, <2>3
<1>16. Apart(h, space)
  <2>1. 0 \notin Frames
    BY FramesAre
  <2> QED BY <1>3, <1>8, <1>13, <2>1 DEF Apart
<1>17. \A s \in Spaces : Sees(h, space, image, s)
  <2>1. Len(w) = 1
    BY <1>5
  <2>2. Sees(h, space, image, 1)
    BY <1>11, <1>12, <1>13, <1>14, <2>1 DEF Sees
  <2>3. \A s \in Spaces : s # 1 => Sees(h, space, image, s)
    BY <1>13 DEF Sees
  <2> QED BY <2>2, <2>3
<1>18. Fits(h, space, image)
  BY <1>3, <1>8, <1>10, <1>13, <1>14, <1>15, <1>16, <1>17 DEF Fits
<1> QED BY <1>6, <1>18

-----------------------------------------------------------------------------
(* A step of any process. *)
LEMMA AnyStep ==
  ASSUME Fits(h, space, image), VmNext
  PROVE  StepOk
<1>0. GrowBy \subseteq Nat /\ Shift \in Nat /\ Segments \subseteq Nat /\ ArgLens \subseteq Nat
  BY VmAssumption
<1>1. PICK s \in Spaces :
        \/ \E t \in Spaces : VmFork(s, t)
        \/ \E n \in GrowBy : VmGrow(s, n - Shift)
        \/ \E n \in Segments, len \in ArgLens : VmExec(s, n, len)
        \/ VmFree(s)
        \/ \E j \in 0..NUT * NPT - 1 : VmStore(s, j)
  BY DEF VmNext
<1>2. CASE \E t \in Spaces : VmFork(s, t)
  BY <1>2, ForkStep
<1>3. CASE \E n \in GrowBy : VmGrow(s, n - Shift)
  <2>1. PICK n \in GrowBy : VmGrow(s, n - Shift)
    BY <1>3
  <2>2. PICK k : k = n - Shift
    OBVIOUS
  <2>3. k \in Int /\ VmGrow(s, k)
    BY <1>0, <2>1, <2>2
  <2> QED BY <2>3, GrowStep
<1>4. CASE \E n \in Segments, len \in ArgLens : VmExec(s, n, len)
  <2>1. PICK n \in Nat, len \in Nat : VmExec(s, n, len)
    BY <1>0, <1>4
  <2> QED BY <2>1, ExecIs
<1>5. CASE VmFree(s)
  BY <1>5, FreeStep
<1>6. CASE \E j \in 0..NUT * NPT - 1 : VmStore(s, j)
  BY <1>6, StoreStep DEF UserPages
<1> QED BY <1>1, <1>2, <1>3, <1>4, <1>5, <1>6

(* The inductive invariant. *)
VmGood == Fits(h, space, image) /\ undone \in BOOLEAN

(* Every step keeps it. *)
LEMMA GoodStays ==
  ASSUME VmGood, [VmNext]_vmvars
  PROVE  VmGood'
<1>1. CASE VmNext
  <2>1. StepOk
    BY <1>1, AnyStep DEF VmGood
  <2> QED BY <2>1 DEF StepOk, VmGood
<1>2. CASE UNCHANGED vmvars
  BY <1>2 DEF vmvars, VmGood
<1> QED BY <1>1, <1>2

(* What a page can be. *)
LEMMA Cover ==
  ASSUME NEW m, NEW D, Owned(m, D, {}), NEW f \in Frames
  PROVE  \/ f \in m.free \/ f \in D
         \/ \E d \in D, i \in 0..NUT : Tab(m, d, i) = f
         \/ \E d \in D, j \in UserPages : Ent(m, d, j).pa = f
<1>1. PICK k, o, n : Own(m, D, {}, k, o, n)
  BY DEF Owned
<1>2. Roles(m, D, {}, k, o, n) /\ k[f] \in {"free", "loose", "dir", "tab", "page"}
  BY <1>1 DEF Own
<1> QED BY <1>2 DEF Roles

(* The uses of a page. *)
UsesIn(m, D, f) ==
  Cardinality({f} \cap m.free)
  + Cardinality({d \in D : d = f})
  + Cardinality({x \in D \X (0..NUT) : Tab(m, x[1], x[2]) = f})
  + Cardinality({x \in D \X UserPages : Ent(m, x[1], x[2]).pa = f})

(* A page has one use. *)
LEMMA OneUse ==
  ASSUME NEW m, NEW D, Owned(m, D, {}), NEW f \in Frames
  PROVE  UsesIn(m, D, f) = 1
<1>1. PICK A, B, T, P : /\ A = {f} \cap m.free /\ B = {d \in D : d = f}
                        /\ T = {x \in D \X (0..NUT) : Tab(m, x[1], x[2]) = f}
                        /\ P = {x \in D \X UserPages : Ent(m, x[1], x[2]).pa = f}
  OBVIOUS
<1>2. /\ m \in Memory /\ D \cap m.free = {} /\ f # 0
      /\ \A d \in D, i \in 0..NUT : Tab(m, d, i) # 0 => Tab(m, d, i) \notin D \cup m.free
      /\ \A d \in D, j \in UserPages : Ent(m, d, j).pa # 0 => Ent(m, d, j).pa \notin D \cup m.free
      /\ \A d, e \in D, i, x \in 0..NUT : Tab(m, d, i) # 0 /\ Tab(m, e, x) = Tab(m, d, i) => d = e /\ i = x
      /\ \A d, e \in D, j, x \in UserPages :
           Ent(m, d, j).pa # 0 /\ Ent(m, e, x).pa = Ent(m, d, j).pa => d = e /\ j = x
      /\ \A d, e \in D, i \in 0..NUT, j \in UserPages : Tab(m, d, i) # 0 => Tab(m, d, i) # Ent(m, e, j).pa
  BY OwnFacts, FramesAre
<1>3. Cardinality({}) = 0 /\ \A x : Cardinality({x}) = 1
  BY FS_EmptySet, FS_Singleton
<1>4. PICK a, b, t, p : a = Cardinality(A) /\ b = Cardinality(B) /\ t = Cardinality(T) /\ p = Cardinality(P)
  OBVIOUS
<1>5. UsesIn(m, D, f) = a + b + t + p
  BY <1>1, <1>4 DEF UsesIn
<1>6. CASE f \in m.free
  <2>1. A = {f} /\ B = {} /\ T = {} /\ P = {}
    BY <1>1, <1>2, <1>6
  <2>2. a = 1 /\ b = 0 /\ t = 0 /\ p = 0
    BY <1>3, <1>4, <2>1
  <2> QED BY <1>5, <2>2
<1>7. CASE f \in D
  <2>1. A = {} /\ B = {f} /\ T = {} /\ P = {}
    BY <1>1, <1>2, <1>7
  <2>2. a = 0 /\ b = 1 /\ t = 0 /\ p = 0
    BY <1>3, <1>4, <2>1
  <2> QED BY <1>5, <2>2
<1>8. CASE \E d \in D, i \in 0..NUT : Tab(m, d, i) = f
  <2>0. PICK d \in D, i \in 0..NUT : Tab(m, d, i) = f
    BY <1>8
  <2>1. A = {} /\ B = {} /\ P = {}
    BY <1>1, <1>2, <2>0
  <2>2. T = {<<d, i>>}
    <3>1. \A x \in T : x = <<x[1], x[2]>> /\ x[1] = d /\ x[2] = i
      BY <1>1, <1>2, <2>0
    <3>2. <<d, i>> \in T
      BY <1>1, <2>0
    <3> QED BY <3>1, <3>2
  <2>3. a = 0 /\ b = 0 /\ t = 1 /\ p = 0
    BY <1>3, <1>4, <2>1, <2>2
  <2> QED BY <1>5, <2>3
<1>9. CASE \E d \in D, j \in UserPages : Ent(m, d, j).pa = f
  <2>0. PICK d \in D, j \in UserPages : Ent(m, d, j).pa = f
    BY <1>9
  <2>1. A = {} /\ B = {} /\ T = {}
    BY <1>1, <1>2, <2>0
  <2>2. P = {<<d, j>>}
    <3>1. \A x \in P : x = <<x[1], x[2]>> /\ x[1] = d /\ x[2] = j
      BY <1>1, <1>2, <2>0
    <3>2. <<d, j>> \in P
      BY <1>1, <2>0
    <3> QED BY <3>1, <3>2
  <2>3. a = 0 /\ b = 0 /\ t = 0 /\ p = 1
    BY <1>3, <1>4, <2>1, <2>2
  <2> QED BY <1>5, <2>3
<1> QED BY <1>6, <1>7, <1>8, <1>9, Cover

(* What fits has the properties. *)
LEMMA GoodIs ==
  ASSUME VmGood
  PROVE  VmInv
<1>0. Fits(h, space, image) /\ undone \in BOOLEAN
  BY DEF VmGood
<1>1. Owned(h, Dirs(h, space), {})
  BY <1>0 DEF Fits
<1>2. h \in Memory
  BY <1>1 DEF Owned
<1>3. VmNoPanic
  BY <1>2, MemoryIs DEF VmNoPanic
<1>4. VmTypeOK
  <2>1. \A s \in Spaces : space[s].pgdir \in Frames \cup {0} /\ space[s].sz \in 0..KERNBASE - 1
    BY <1>0, SpaceIs
  <2>2. \A f \in Frames : \A j \in Indices : h.tab[f][j].pa \in Frames \cup {0, Kernel}
    BY <1>2, MemoryIs
  <2> QED BY <1>0, <2>1, <2>2 DEF VmTypeOK
<1>5. PagesUsedOnce
  <2> SUFFICES ASSUME NEW f \in Frames PROVE Uses(f) = 1
    BY DEF PagesUsedOnce
  <2>1. Directories = Dirs(h, space)
    BY DEF Directories, Dirs
  <2>2. Uses(f) = UsesIn(h, Dirs(h, space), f)
    BY <2>1 DEF Uses, UsesIn, Tab, Ent, UserPages
  <2> QED BY <1>1, <2>2, OneUse
<1>6. SeesOwnMemory
  <2> SUFFICES ASSUME NEW s \in Spaces, space[s].pgdir # 0
               PROVE  /\ Len(image[s]) = NPages(space[s].sz)
                      /\ \A j \in 0..NUT * NPT - 1 :
                           IF j < Len(image[s])
                           THEN Pte(h, space[s].pgdir, j * PGSIZE).pa # 0
                                /\ h.data[Pte(h, space[s].pgdir, j * PGSIZE).pa] = image[s][j + 1]
                           ELSE Pte(h, space[s].pgdir, j * PGSIZE).pa = 0
                      /\ \A a \in kmap : Pte(h, space[s].pgdir, a) = [pa |-> Kernel, u |-> FALSE]
    BY DEF SeesOwnMemory
  <2>1. Len(image[s]) = NPages(space[s].sz) /\ ReadsAs(h, space[s].pgdir, image[s])
    BY <1>0, SpaceIs
  <2>2. \A j \in UserPages :
          IF j < Len(image[s])
          THEN Ent(h, space[s].pgdir, j).pa # 0 /\ h.data[Ent(h, space[s].pgdir, j).pa] = image[s][j + 1]
          ELSE Ent(h, space[s].pgdir, j).pa = 0
    BY <2>1 DEF ReadsAs
  <2>3. ASSUME NEW a \in kmap PROVE Pte(h, space[s].pgdir, a) = [pa |-> Kernel, u |-> FALSE]
    <3>1. PICK i \in 0..NPT - 1 : a = KERNBASE + i * PGSIZE
      BY DEF kmap
    <3>2. PICK j : j = i + 1
      OBVIOUS
    <3>3. j \in 1..NPT /\ i = j - 1
      BY <3>1, <3>2, VmSizes
    <3>4. PICK x : x = NUT * NPT + (j - 1)
      OBVIOUS
    <3>5. x \in AllPages \ UserPages /\ KERNBASE + (j - 1) * PGSIZE = x * PGSIZE
      BY <3>3, <3>4, KernelPages
    <3>6. a = x * PGSIZE
      BY <3>1, <3>3, <3>5
    <3>7. Ent(h, space[s].pgdir, x) = [pa |-> Kernel, u |-> FALSE]
      BY <2>1, <3>5 DEF ReadsAs, KernelThere
    <3> QED BY <3>6, <3>7 DEF Ent
  <2> QED BY <2>1, <2>2, <2>3 DEF Ent, UserPages
<1> QED BY <1>3, <1>4, <1>5, <1>6 DEF VmInv

(* Memory at every step, for every number of pages, processes, tables and  *)
(* entries, and every program: kalloc, kfree, walkpgdir, mappages,         *)
(* setupkvm, allocuvm, deallocuvm, copyuvm, clearpteu and freevm, called   *)
(* by fork, exec, sbrk and wait, neither lose a page nor use one twice,    *)
(* never panic, and every process sees its own memory.                     *)
THEOREM MemorySafe == VmSpec => []VmInv
<1>1. VmInit => VmGood
  BY VmInitFits DEF VmGood
<1>2. VmGood /\ [VmNext]_vmvars => VmGood'
  BY GoodStays
<1>3. VmGood => VmInv
  BY GoodIs
<1> QED BY <1>1, <1>2, <1>3, PTL DEF VmSpec

(* What a call that fails leaves: no page but new tables is missing. *)
TablesIn(m, D) == {Tab(m, d, i) : d \in D, i \in 0..NUT} \ {0}
NewTables(m, v, D) == v.free \subseteq m.free /\ m.free \ v.free = TablesIn(v, D) \ TablesIn(m, D)
LEMMA OnlyTables ==
  ASSUME NEW m, NEW v, NEW D, Owned(m, D, {}), Owned(v, D, {}), Kept(m, v, D)
  PROVE  NewTables(m, v, D)
<1>1. KeptBut(m, v, D, 0, {})
  BY DEF Kept
<1>2. /\ \A e \in D, i \in 0..NUT : Tab(m, e, i) # 0 => Tab(v, e, i) = Tab(m, e, i)
      /\ \A e \in D, j \in AllPages : SameEnt(m, v, e, j)
  BY <1>1 DEF KeptBut
<1>3. \A e \in D, j \in UserPages : Ent(v, e, j).pa = Ent(m, e, j).pa
  <2>1. UserPages \subseteq AllPages
    BY Place
  <2> QED BY <1>2, <2>1 DEF SameEnt
<1>4. /\ m.free \subseteq Frames /\ D \cap m.free = {} /\ 0 \notin Frames
      /\ \A d \in D, i \in 0..NUT : Tab(m, d, i) # 0 => Tab(m, d, i) \in Frames \ (D \cup m.free)
      /\ \A d \in D, j \in UserPages : Ent(m, d, j).pa # 0 => Ent(m, d, j).pa \notin m.free
  BY OwnFacts, FramesAre
<1>5. /\ v.free \subseteq Frames /\ D \cap v.free = {}
      /\ \A d \in D, i \in 0..NUT : Tab(v, d, i) # 0 => Tab(v, d, i) \in Frames \ (D \cup v.free)
      /\ \A d \in D, j \in UserPages : Ent(v, d, j).pa # 0 => Ent(v, d, j).pa \notin v.free
      /\ \A d, e \in D, i \in 0..NUT, j \in UserPages : Tab(v, d, i) # 0 => Tab(v, d, i) # Ent(v, e, j).pa
  BY OwnFacts
<1>6. v.free \subseteq m.free
  <2> SUFFICES ASSUME NEW f \in v.free, f \notin m.free PROVE FALSE
    OBVIOUS
  <2>1. f \in Frames /\ f # 0
    BY <1>4, <1>5
  <2>2. CASE f \in D
    BY <1>5, <2>2
  <2>3. CASE \E d \in D, i \in 0..NUT : Tab(m, d, i) = f
    BY <1>2, <1>5, <2>1, <2>3
  <2>4. CASE \E d \in D, j \in UserPages : Ent(m, d, j).pa = f
    BY <1>3, <1>5, <2>1, <2>4
  <2> QED BY <2>1, <2>2, <2>3, <2>4, Cover
<1>7. ASSUME NEW f \in m.free, f \notin v.free
      PROVE  (\E d \in D, i \in 0..NUT : f = Tab(v, d, i)) /\ f # 0 /\ \A d \in D, i \in 0..NUT : f # Tab(m, d, i)
  <2>1. f \in Frames /\ f # 0
    BY <1>4
  <2>2. f \notin D
    BY <1>4, <1>7
  <2>3. ~\E d \in D, j \in UserPages : Ent(v, d, j).pa = f
    BY <1>3, <1>4, <1>7, <2>1
  <2>4. \E d \in D, i \in 0..NUT : Tab(v, d, i) = f
    BY <1>7, <2>1, <2>2, <2>3, Cover
  <2> QED BY <1>4, <1>7, <2>1, <2>4
<1>8. ASSUME NEW d \in D, NEW i \in 0..NUT, Tab(v, d, i) # 0, \A e \in D, x \in 0..NUT : Tab(v, d, i) # Tab(m, e, x)
      PROVE  Tab(v, d, i) \in m.free /\ Tab(v, d, i) \notin v.free
  <2>1. PICK f : f = Tab(v, d, i)
    OBVIOUS
  <2>2. f \in Frames /\ f \notin D /\ f \notin v.free
    BY <1>5, <1>8, <2>1
  <2>3. ~\E e \in D, x \in 0..NUT : Tab(m, e, x) = f
    BY <1>8, <2>1
  <2>4. ~\E e \in D, j \in UserPages : Ent(m, e, j).pa = f
    BY <1>3, <1>5, <1>8, <2>1
  <2>5. f \in m.free
    BY <2>2, <2>3, <2>4, Cover
  <2> QED BY <2>1, <2>2, <2>5
<1>9. ASSUME NEW f \in m.free, f \notin v.free PROVE f \in TablesIn(v, D) /\ f \notin TablesIn(m, D)
  <2>1. PICK d \in D, i \in 0..NUT : f = Tab(v, d, i)
    BY <1>7, <1>9
  <2>2. f # 0 /\ \A e \in D, x \in 0..NUT : f # Tab(m, e, x)
    BY <1>7, <1>9
  <2>3. f \in TablesIn(v, D)
    BY <2>1, <2>2 DEF TablesIn
  <2>4. f \notin TablesIn(m, D)
    BY <2>2 DEF TablesIn
  <2> QED BY <2>3, <2>4
<1>10. ASSUME NEW f, f \in TablesIn(v, D), f \notin TablesIn(m, D) PROVE f \in m.free /\ f \notin v.free
  <2>1. PICK d \in D, i \in 0..NUT : f = Tab(v, d, i)
    BY <1>10 DEF TablesIn
  <2>2. f # 0
    BY <1>10 DEF TablesIn
  <2>3. \A e \in D, x \in 0..NUT : f # Tab(m, e, x)
    BY <1>10, <2>2 DEF TablesIn
  <2> QED BY <1>8, <2>1, <2>2, <2>3
<1>11. m.free \ v.free = TablesIn(v, D) \ TablesIn(m, D)
  BY <1>9, <1>10
<1> QED BY <1>6, <1>11 DEF NewTables

(* A step that fails. *)
LEMMA FailingStep ==
  ASSUME VmGood, VmNext, undone'
  PROVE  /\ space' = space /\ image' = image /\ h'.free \subseteq h.free
         /\ h.free \ h'.free = Tables' \ Tables
<1>1. StepOk
  BY AnyStep DEF VmGood
<1>2. /\ space' = space /\ image' = image
      /\ Owned(h', Dirs(h, space), {}) /\ Kept(h, h', Dirs(h, space))
  BY <1>1 DEF StepOk, Undoing
<1>3. Owned(h, Dirs(h, space), {})
  BY DEF VmGood, Fits
<1>4. PICK m, v, D : m = h /\ v = h' /\ D = Dirs(h, space)
  OBVIOUS
<1>5. NewTables(m, v, D)
  <2>1. Owned(m, D, {}) /\ Owned(v, D, {}) /\ Kept(m, v, D)
    BY <1>2, <1>3, <1>4
  <2> QED BY <2>1, OnlyTables
<1>6. Directories = D /\ Directories' = D
  <2>1. h'.kpgdir = h.kpgdir
    BY <1>2 DEF Kept, KeptBut
  <2>2. Directories = D
    BY <1>4 DEF Directories, Dirs
  <2>3. Directories' = {h'.kpgdir} \cup ({space'[s].pgdir : s \in Spaces} \ {0})
    BY DEF Directories
  <2> QED BY <1>2, <1>4, <2>1, <2>2, <2>3 DEF Dirs
<1>7. Tables = TablesIn(m, D)
  <2>1. \A d, i : h.tab[d][i].pa = Tab(m, d, i)
    BY <1>4 DEF Tab
  <2>2. Tables = {h.tab[d][i].pa : d \in D, i \in 0..NUT} \ {0}
    BY <1>6 DEF Tables
  <2> QED BY <2>1, <2>2 DEF TablesIn
<1>8. Tables' = TablesIn(v, D)
  <2>1. \A d, i : h'.tab[d][i].pa = Tab(v, d, i)
    BY <1>4 DEF Tab
  <2>2. Tables' = {h'.tab[d][i].pa : d \in D, i \in 0..NUT} \ {0}
    BY <1>6 DEF Tables
  <2> QED BY <2>1, <2>2 DEF TablesIn
<1>9. v.free \subseteq m.free /\ m.free \ v.free = TablesIn(v, D) \ TablesIn(m, D)
  BY <1>5 DEF NewTables
<1> QED BY <1>2, <1>4, <1>7, <1>8, <1>9

(* A fork, exec or sbrk that fails for lack of memory changes no process   *)
(* and gives back every page, but for page tables that stay with their     *)
(* directory: copyuvm, allocuvm and exec undo what they did.               *)
THEOREM FailuresUndone == VmSpec => FailureUndone
<1>1. VmInit => VmGood
  BY VmInitFits DEF VmGood
<1>2. VmGood /\ [VmNext]_vmvars => VmGood'
  BY GoodStays
<1>3. VmGood /\ [VmNext]_vmvars =>
        [undone' => /\ space' = space /\ image' = image
                    /\ h'.free \subseteq h.free
                    /\ h.free \ h'.free = Tables' \ Tables]_vmvars
  BY FailingStep
<1> QED BY <1>1, <1>2, <1>3, PTL DEF VmSpec, FailureUndone
=============================================================================
