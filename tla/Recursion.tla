----------------------------- MODULE Recursion -----------------------------
(***************************************************************************)
(* Induction and recursion over an interval of numbers.  Facts about       *)
(* recursive functions are proved by induction on a set of numbers: a set  *)
(* that is not all of an interval leaves out a least one.                  *)
(***************************************************************************)
EXTENDS Integers, WellFoundedInduction, TLAPS

(* A non-empty set of numbers has a least element. *)
LEMMA LeastNumber ==
  ASSUME NEW T \in SUBSET Nat, T # {}
  PROVE  \E m \in T : \A n \in T : m <= n
<1>1. PICK x \in T : \A y \in T : ~(<<y, x>> \in OpToRel(<, Nat))
  BY NatLessThanWellFounded, WFMin
<1>2. \A y \in T : ~(y < x)
  BY <1>1 DEF OpToRel
<1> QED BY <1>2

(* Induction over an interval, for a set. *)
LEMMA IntervalInduction ==
  ASSUME NEW N \in Nat, NEW S, 0 \in S, \A n \in 0..N - 1 : n \in S => n + 1 \in S
  PROVE  0..N \subseteq S
<1> SUFFICES ASSUME 0..N \ S # {} PROVE FALSE
  OBVIOUS
<1> DEFINE T == 0..N \ S
<1>1. PICK m \in T : \A n \in T : m <= n
  <2>1. T \in SUBSET Nat /\ T # {}
    OBVIOUS
  <2> HIDE DEF T
  <2> QED BY <2>1, LeastNumber
<1>2. m - 1 \in 0..N - 1 /\ m - 1 \notin T
  BY <1>1
<1> QED BY <1>2

(* A recursive function is defined: there is a function that satisfies its *)
(* equation.                                                               *)
Solves(f, N, S, a, G) ==
  f \in [0..N -> S] /\ f[0] = a /\ \A n \in 1..N : f[n] = G[n][f[n - 1]]

(* Recursion over an interval has a solution, for every start and every    *)
(* step function.                                                          *)
LEMMA RecursiveFunction ==
  ASSUME NEW N \in Nat, NEW S, NEW a \in S, NEW G \in [1..N -> [S -> S]]
  PROVE  \E f : Solves(f, N, S, a, G)
<1> DEFINE Sol(m) == {f \in [0..m -> S] : f[0] = a /\ \A n \in 1..m : f[n] = G[n][f[n - 1]]}
           M == {m \in Nat : Sol(m) # {}}
<1>1. 0 \in M
  <2>1. [i \in 0..0 |-> a] \in Sol(0)
    OBVIOUS
  <2> QED BY <2>1
<1>2. ASSUME NEW m \in 0..N - 1, m \in M PROVE m + 1 \in M
  <2>1. PICK f \in Sol(m) : TRUE
    BY <1>2
  <2> DEFINE g == [n \in 0..m + 1 |-> IF n <= m THEN f[n] ELSE G[m + 1][f[m]]]
  <2>2. f[m] \in S /\ G[m + 1] \in [S -> S]
    OBVIOUS
  <2>3. g \in [0..m + 1 -> S]
    BY <2>2
  <2>4. g[0] = a /\ \A n \in 1..m + 1 : g[n] = G[n][g[n - 1]]
    BY <2>1
  <2>5. g \in Sol(m + 1)
    BY <2>3, <2>4
  <2> HIDE DEF Sol, g
  <2>6. Sol(m + 1) # {} /\ m + 1 \in Nat
    BY <2>5
  <2> QED BY <2>6
<1> HIDE DEF M
<1>3. 0..N \subseteq M
  BY <1>1, <1>2, IntervalInduction
<1>4. N \in M
  BY <1>3
<1> QED BY <1>4 DEF M, Solves

(* A loop from lo to hi, where the step to n takes states of I[n - 1] to   *)
(* states of I[n].                                                         *)
LoopSteps(lo, hi, a, G, I) ==
  /\ a \in I[lo]
  /\ \A n \in lo + 1..hi : \A s \in I[n - 1] : G[n][s] \in I[n]
LoopRuns(f, lo, hi, a, G, I) ==
  f[lo] = a /\ \A n \in lo + 1..hi : f[n - 1] \in I[n - 1] => f[n] = G[n][f[n - 1]]

(* A loop keeps its invariant. *)
LEMMA LoopHolds ==
  ASSUME NEW lo \in Int, NEW hi \in Int, lo <= hi, NEW a, NEW G, NEW I, LoopSteps(lo, hi, a, G, I),
         NEW f, LoopRuns(f, lo, hi, a, G, I)
  PROVE  \A n \in lo..hi : f[n] \in I[n]
<1> DEFINE S == {i \in Nat : f[lo + i] \in I[lo + i]}
<1>1. 0 \in S
  BY DEF LoopSteps, LoopRuns
<1>2. ASSUME NEW i \in 0..(hi - lo) - 1, i \in S PROVE i + 1 \in S
  <2>1. f[lo + i] \in I[lo + i] /\ lo + (i + 1) \in lo + 1..hi /\ (lo + (i + 1)) - 1 = lo + i
    BY <1>2
  <2>2. f[lo + (i + 1)] \in I[lo + (i + 1)]
    BY <2>1 DEF LoopSteps, LoopRuns
  <2> QED BY <2>2
<1>3. hi - lo \in Nat
  OBVIOUS
<1> HIDE DEF S
<1>4. 0..hi - lo \subseteq S
  BY <1>1, <1>2, <1>3, IntervalInduction
<1>5. ASSUME NEW n \in lo..hi PROVE f[n] \in I[n]
  <2>1. n - lo \in 0..hi - lo /\ lo + (n - lo) = n
    OBVIOUS
  <2>2. n - lo \in S
    BY <1>4, <2>1
  <2>3. f[lo + (n - lo)] \in I[lo + (n - lo)]
    BY <2>2 DEF S
  <2> QED BY <2>1, <2>3
<1> QED BY <1>5

(* A loop that keeps an invariant has a result. *)
LoopOf(f, lo, hi, a, G, I) ==
  /\ f = [n \in lo..hi |-> f[n]] /\ f[lo] = a
  /\ \A n \in lo + 1..hi : f[n - 1] \in I[n - 1] /\ f[n] = G[n][f[n - 1]]
LEMMA LoopExists ==
  ASSUME NEW lo \in Int, NEW hi \in Int, lo <= hi, NEW a, NEW G, NEW I, LoopSteps(lo, hi, a, G, I)
  PROVE  \E f : LoopOf(f, lo, hi, a, G, I)
<1> DEFINE S == UNION {I[n] : n \in lo..hi}
           H == [i \in 1..hi - lo |-> [s \in S |-> IF s \in I[lo + i - 1] THEN G[lo + i][s] ELSE s]]
<1>1. hi - lo \in Nat /\ lo \in lo..hi
  OBVIOUS
<1>2. a \in S
  BY <1>1 DEF LoopSteps
<1>3. H \in [1..hi - lo -> [S -> S]]
  <2> SUFFICES ASSUME NEW i \in 1..hi - lo, NEW s \in S, s \in I[lo + i - 1] PROVE G[lo + i][s] \in S
    OBVIOUS
  <2>1. lo + i \in lo + 1..hi /\ lo + i \in lo..hi
    OBVIOUS
  <2>2. G[lo + i][s] \in I[lo + i]
    BY <2>1 DEF LoopSteps
  <2> QED BY <2>1, <2>2
<1> HIDE DEF S
<1>4. PICK e : Solves(e, hi - lo, S, a, H)
  <2> HIDE DEF H
  <2> QED BY <1>1, <1>2, <1>3, RecursiveFunction
<1>5. e[0] = a /\ \A i \in 1..hi - lo : e[i] = H[i][e[i - 1]] /\ e[i - 1] \in S
  BY <1>4 DEF Solves
<1> DEFINE f == [n \in lo..hi |-> e[n - lo]]
<1>6. f = [n \in lo..hi |-> f[n]] /\ f[lo] = a
  BY <1>1, <1>5
<1>7. ASSUME NEW n \in lo + 1..hi, f[n - 1] \in I[n - 1] PROVE f[n] = G[n][f[n - 1]]
  <2>1. n - lo \in 1..hi - lo /\ n \in lo..hi /\ n - 1 \in lo..hi
        /\ (n - 1) - lo = (n - lo) - 1 /\ lo + (n - lo) = n /\ lo + (n - lo) - 1 = n - 1
    OBVIOUS
  <2>2. f[n] = e[n - lo] /\ f[n - 1] = e[(n - lo) - 1]
    BY <2>1
  <2>3. e[n - lo] = H[n - lo][e[(n - lo) - 1]] /\ e[(n - lo) - 1] \in S
    BY <1>5, <2>1
  <2> QED BY <1>7, <2>1, <2>2, <2>3
<1> HIDE DEF f, H
<1>8. \A n \in lo..hi : f[n] \in I[n]
  <2>1. LoopRuns(f, lo, hi, a, G, I)
    BY <1>6, <1>7 DEF LoopRuns
  <2> QED BY <2>1, LoopHolds
<1>9. \A n \in lo + 1..hi : n - 1 \in lo..hi
  OBVIOUS
<1>10. \A n \in lo + 1..hi : f[n - 1] \in I[n - 1] /\ f[n] = G[n][f[n - 1]]
  BY <1>7, <1>8, <1>9
<1>11. LoopOf(f, lo, hi, a, G, I)
  BY <1>6, <1>10 DEF LoopOf
<1> QED BY <1>11
=============================================================================
