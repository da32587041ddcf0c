------------------------------ MODULE Umalloc ------------------------------
(***************************************************************************)
(* malloc and free of umalloc.c: a circular list of free blocks in the     *)
(* order of their addresses, with one header each.  The unit is the        *)
(* header.  base, a block of size 0, lies below the heap.  Requests are    *)
(* small enough for sums and products to fit an int (below 2^31 bytes).    *)
(***************************************************************************)
EXTENDS Integers, FiniteSets, FiniteSetsExt, TLC

CONSTANTS
  CORE,       \* least number of units morecore asks for (4096)
  HEAP,       \* units that sbrk can give
  HEADER,     \* bytes of a header, which is the unit
  Requests    \* bytes asked for

VARIABLES
  hdr,     \* headers: size and ptr of every block, free or not
  freep,   \* start of the search; -1 before the first call
  brk,     \* end of the heap
  given,   \* blocks of the program
  foreign  \* units of the heap that malloc did not ask for

mvars == <<hdr, freep, brk, given, foreign>>

base  == 0
Addrs == 0..HEAP + 1
None  == [size |-> 0, ptr |-> 0]

(* Following ptr, never further than there are blocks. *)
Hops(h, p, n) == LET G[j \in 0..n] == IF j = 0 THEN p ELSE h[G[j - 1]].ptr IN G[n]

(* free looks for the block p after which bp belongs. *)
Here(h, bp, p) ==
  \/ bp > p /\ bp < h[p].ptr
  \/ p >= h[p].ptr /\ (bp > p \/ bp < h[p].ptr)
Stop(h, fp, bp) ==
  Hops(h, fp, Min({j \in 0..HEAP + 1 : Here(h, bp, Hops(h, fp, j))}))

(* free: the place of bp in the list, joined with its neighbours.  The     *)
(* header of a block that is joined to another is part of that block's     *)
(* memory and is not kept; nor is the ptr of a block given away.           *)
Join(h, bp, p) ==
  LET up == h[p].ptr
      a == IF bp + h[bp].size = up
           THEN [h EXCEPT ![bp] = [size |-> @.size + h[up].size, ptr |-> h[up].ptr], ![up] = None]
           ELSE [h EXCEPT ![bp].ptr = up]
  IN  IF p + a[p].size = bp
      THEN [a EXCEPT ![p] = [size |-> @.size + a[bp].size, ptr |-> a[bp].ptr], ![bp] = None]
      ELSE [a EXCEPT ![p].ptr = bp]
free(h, fp, bp) ==
  LET p == Stop(h, fp, bp) IN [h |-> Join(h, bp, p), fp |-> p]

(* morecore: sbrk and free of what it gives. *)
morecore(h, fp, nu) ==
  LET n == IF nu < CORE THEN CORE ELSE nu
  IN  IF brk + n > HEAP + 1 THEN [ok |-> FALSE, h |-> h, fp |-> fp, brk |-> brk]
      ELSE [ok |-> TRUE, brk |-> brk + n] @@ free([h EXCEPT ![brk].size = n], fp, brk)

(* Of a block that is too large the end is taken. *)
TakeFront(h, prev, p, n) ==
  IF h[p].size = n THEN [h |-> [h EXCEPT ![prev].ptr = h[p].ptr], b |-> p]
  ELSE [h |-> [h EXCEPT ![p].size = @ - n], b |-> p]
Take(h, prev, p, n) ==
  LET b == p + h[p].size - n
  IN  IF h[p].size = n THEN [h |-> [h EXCEPT ![prev].ptr = h[p].ptr, ![p].ptr = 0], b |-> p]
      ELSE [h |-> [h EXCEPT ![p].size = @ - n, ![b].size = n], b |-> b]

(* The search begins after freep and ends there; after morecore it goes on *)
(* behind the block that morecore's free left freep at.                    *)
Search(h, fp, n) ==
  LET F == {j \in 1..HEAP + 1 : h[Hops(h, fp, j)].size >= n
                                /\ \A i \in 1..j - 1 : Hops(h, fp, i) # fp}
  IN  IF F = {} THEN [found |-> FALSE]
      ELSE [found |-> TRUE, prev |-> Hops(h, fp, Min(F) - 1), p |-> Hops(h, fp, Min(F))]

(* nbytes are rounded up to units, with one more for the header. *)
Nunits(nbytes) == (nbytes + HEADER - 1) \div HEADER + 1

malloc(nbytes) ==
  LET n == Nunits(nbytes)
      h0 == IF freep = -1 THEN [hdr EXCEPT ![base] = [size |-> 0, ptr |-> base]] ELSE hdr
      f0 == IF freep = -1 THEN base ELSE freep
      s == Search(h0, f0, n)
      m == morecore(h0, f0, n)
      t == Search(m.h, m.fp, n)
      Result(r, x, b) == [h |-> x.h, fp |-> r.prev, brk |-> b, got |-> {[at |-> x.b, size |-> n]}]
  IN  IF s.found THEN Result(s, Take(h0, s.prev, s.p, n), brk)
      ELSE IF m.ok THEN Result(t, Take(m.h, t.prev, t.p, n), m.brk)
      ELSE [h |-> m.h, fp |-> m.fp, brk |-> m.brk, got |-> {}]

Malloc(nbytes) ==
  LET r == malloc(nbytes)
  IN  /\ hdr' = r.h /\ freep' = r.fp /\ brk' = r.brk /\ given' = given \cup r.got
      /\ UNCHANGED foreign

Free(x) ==
  /\ x \in given
  /\ LET r == free(hdr, freep, x.at) IN hdr' = r.h /\ freep' = r.fp
  /\ given' = given \ {x}
  /\ UNCHANGED <<brk, foreign>>

(* The program, or a library, moves the break itself. *)
Sbrk ==
  /\ brk <= HEAP
  /\ brk' = brk + 1 /\ foreign' = foreign \cup {brk}
  /\ UNCHANGED <<hdr, freep, given>>

MNext == (\E r \in Requests : Malloc(r)) \/ (\E x \in given : Free(x)) \/ Sbrk
-----------------------------------------------------------------------------
Listed == IF freep = -1 THEN {} ELSE {Hops(hdr, base, j) : j \in 0..HEAP + 1}

(* The list goes round once in the order of addresses, through base and    *)
(* through freep, and no two free blocks touch: free has joined them.      *)
MListExact ==
  /\ freep = -1 \/ freep \in Listed
  /\ \A a \in Listed :
       LET above == {b \in Listed : b > a}
       IN  /\ hdr[a].ptr = IF above = {} THEN base ELSE Min(above)
           /\ a # base => hdr[a].size > 0
           /\ \A b \in above : a + hdr[a].size < b

(* Every unit of the heap belongs to one block, free or given away, or to  *)
(* whoever moved the break: nothing is lost and nothing is given twice.    *)
UnitsOnce ==
  \A u \in 1..brk - 1 :
    LET In(a, n) == u \in a..a + n - 1
    IN  Cardinality({b \in Listed : In(b, hdr[b].size)}) + Cardinality({x \in given : In(x.at, x.size)})
        + Cardinality({u} \cap foreign) = 1

(* malloc fails only when no free block is large enough, and more memory   *)
(* cannot be had; what it returns has room for the bytes asked for, and    *)
(* not for a unit more.                                                    *)
MallocTries ==
  \A r \in Requests :
    /\ malloc(r).got = {} => /\ \A b \in Listed : hdr[b].size < Nunits(r)
                            /\ brk + Max({CORE, Nunits(r)}) > HEAP + 1
    /\ \A x \in malloc(r).got : HEADER * (x.size - 1) \in r..r + HEADER - 1

(* The heap after any mix of calls: the free list is circular, sorted and  *)
(* merged, every unit is free or handed out once, and malloc fails only    *)
(* for want of memory (malloc, free, morecore).                            *)
HeapExact == MListExact /\ UnitsOnce /\ MallocTries
=============================================================================
