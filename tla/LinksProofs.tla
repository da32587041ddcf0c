---------------------------- MODULE LinksProofs ----------------------------
(***************************************************************************)
(* What the walks of module Links find on a list that has no cycle, and    *)
(* what linking and unlinking make of it.  The lists are described by the  *)
(* sequence of their slots.                                                *)
(***************************************************************************)
EXTENDS Links, Sequences, Recursion, FiniteSetTheorems, TLAPS

(* The interval 1..n has n elements. *)
LEMMA IntervalSize ==
  ASSUME NEW n \in Nat
  PROVE  IsFiniteSet(1..n) /\ Cardinality(1..n) = n
<1>1. Cardinality(1..n) = IF 1 > n THEN 0 ELSE n - 1 + 1
  BY FS_Interval
<1> QED BY <1>1, FS_Interval
-----------------------------------------------------------------------------
(* The slot at place i of a sequence of slots, the null pointer behind its *)
(* last.                                                                   *)
At(s, len, i) == IF i \in 1..len THEN s[i] ELSE 0

(* The list that starts at h, linked by nx, consists of the slots of s, in *)
(* that order, and ends with a null pointer.                               *)
List(nx, h, s, len) ==
  /\ len \in Nat /\ s \in [1..len -> DOMAIN nx]
  /\ \A i, j \in 1..len : s[i] = s[j] => i = j
  /\ h = At(s, len, 1)
  /\ \A i \in 1..len : nx[s[i]] = At(s, len, i + 1)

(* A list of distinct slots is not longer than the table. *)
LEMMA ListLength ==
  ASSUME NEW N \in Nat, NEW nx \in [1..N -> 0..N], NEW h, NEW s, NEW len,
         List(nx, h, s, len)
  PROVE  /\ len \in 0..N /\ h \in 0..N
         /\ \A i \in 1..len : s[i] \in 1..N
         /\ \A i \in Int : At(s, len, i) \in 0..N
<1>1. s \in [1..len -> 1..N] /\ len \in Nat /\ DOMAIN s = 1..len
  BY DEF List
<1>2. s \in Injection(1..len, 1..N)
  BY <1>1 DEF List, Injection, IsInjective
<1>3. IsFiniteSet(1..N) /\ Cardinality(1..N) = N
  BY IntervalSize
<1>4. Cardinality(1..len) = len
  BY <1>1, IntervalSize
<1>5. len <= N
  BY <1>2, <1>3, <1>4, FS_Injection
<1> QED BY <1>1, <1>5 DEF List, At

(* The equation of the function Path. *)
IsPath(P, nx, h, N) ==
  /\ DOMAIN P = 0..N /\ P[0] = h
  /\ \A n \in 1..N : P[n] = IF P[n - 1] = 0 THEN 0 ELSE nx[P[n - 1]]

(* Path satisfies the equation it is defined by, so that every walk of the *)
(* scheduler ends after at most N links.                                   *)
LEMMA PathEquation ==
  ASSUME NEW N \in Nat, NEW t, t.next \in [1..N -> 0..N], NEW h \in 0..N
  PROVE  IsPath(Path(t, h), t.next, h, N)
<1> DEFINE S == 0..N
           G == [n \in 1..N |-> [p \in S |-> IF p = 0 THEN 0 ELSE t.next[p]]]
           E(g) == g = [n \in 0..N |-> IF n = 0 THEN h ELSE
                                         IF g[n - 1] = 0 THEN 0 ELSE t.next[g[n - 1]]]
<1>0. Cardinality(DOMAIN t.next) = N
  BY IntervalSize
<1>1. G \in [1..N -> [S -> S]] /\ h \in S
  OBVIOUS
<1> HIDE DEF G, S, E
<1>2. PICK f : Solves(f, N, S, h, G)
  BY <1>1, RecursiveFunction
<1>3. E(f)
  <2>1. ASSUME NEW n \in 1..N PROVE f[n] = IF f[n - 1] = 0 THEN 0 ELSE t.next[f[n - 1]]
    <3>1. f[n - 1] \in S /\ f[n] = G[n][f[n - 1]]
      BY <1>2 DEF Solves
    <3> QED BY <3>1 DEF G
  <2>2. \A n \in 0..N : f[n] = IF n = 0 THEN h ELSE
                                 IF f[n - 1] = 0 THEN 0 ELSE t.next[f[n - 1]]
    BY <1>2, <2>1 DEF Solves
  <2> QED BY <1>2, <2>2 DEF E, Solves
<1>4. Path(t, h) = CHOOSE g : E(g)
  BY <1>0 DEF Path, E
<1>5. E(Path(t, h))
  BY <1>3, <1>4, Zenon
<1> DEFINE P == Path(t, h)
<1>6. P = [n \in 0..N |-> IF n = 0 THEN h ELSE IF P[n - 1] = 0 THEN 0 ELSE t.next[P[n - 1]]]
  BY <1>5 DEF E
<1> HIDE DEF P
<1>7. /\ DOMAIN P = 0..N /\ P[0] = h
      /\ \A n \in 1..N : P[n] = IF P[n - 1] = 0 THEN 0 ELSE t.next[P[n - 1]]
  BY <1>6
<1> QED BY <1>7 DEF P, IsPath

(* What the walks find on a list: its slots, in order, and its end. *)
Walked(t, h, s, len, N) ==
  /\ DOMAIN Path(t, h) = 0..N
  /\ \A n \in 0..N : Path(t, h)[n] = At(s, len, n + 1)
  /\ Ends(t, h)
  /\ \A i \in 1..len : s[i] \in Nodes(t, h)
  /\ \A p \in Nodes(t, h) : \E i \in 1..len : p = s[i]

(* On a list that is linked right, Path goes through its slots in order,   *)
(* Ends holds, and Nodes are its slots.                                    *)
LEMMA Walk ==
  ASSUME NEW N \in Nat, NEW t, t.next \in [1..N -> 0..N], NEW h, NEW s, NEW len,
         List(t.next, h, s, len)
  PROVE  Walked(t, h, s, len, N)
<1>1. /\ len \in 0..N /\ h \in 0..N /\ \A i \in 1..len : s[i] \in 1..N
      /\ \A i \in Int : At(s, len, i) \in 0..N
  BY ListLength
<1> DEFINE P == Path(t, h)
<1>2. IsPath(P, t.next, h, N)
  BY <1>1, PathEquation
<1> DEFINE M == {n \in 0..N : P[n] = At(s, len, n + 1)}
<1> HIDE DEF P
<1>3. 0 \in M
  BY <1>2 DEF List, IsPath
<1>4. ASSUME NEW n \in 0..N - 1, n \in M PROVE n + 1 \in M
  <2>1. P[n] = At(s, len, n + 1) /\ n + 1 \in 1..N /\ (n + 1) - 1 = n
    BY <1>4
  <2>2. P[n + 1] = IF P[n] = 0 THEN 0 ELSE t.next[P[n]]
    BY <1>2, <2>1 DEF IsPath
  <2>3. CASE n + 1 \in 1..len
    <3>1. At(s, len, n + 1) = s[n + 1] /\ s[n + 1] # 0
      BY <1>1, <2>3 DEF At
    <3>2. t.next[s[n + 1]] = At(s, len, (n + 1) + 1)
      BY <2>3 DEF List
    <3> QED BY <2>1, <2>2, <3>1, <3>2
  <2>4. CASE n + 1 \notin 1..len
    <3>1. At(s, len, n + 1) = 0 /\ At(s, len, (n + 1) + 1) = 0
      BY <1>1, <2>1, <2>4 DEF At
    <3> QED BY <2>1, <2>2, <3>1
  <2> QED BY <2>3, <2>4
<1>5. 0..N \subseteq M
  <2> HIDE DEF M
  <2> QED BY <1>3, <1>4, IntervalInduction
<1>6. \A n \in 0..N : P[n] = At(s, len, n + 1)
  BY <1>5
<1>7. Cardinality(DOMAIN t.next) = N
  BY IntervalSize
<1>8. Ends(t, h)
  <2>1. At(s, len, N + 1) = 0
    BY <1>1 DEF At
  <2> QED BY <1>6, <1>7, <2>1 DEF Ends, P
<1>9. ASSUME NEW i \in 1..len PROVE s[i] \in Nodes(t, h)
  <2>1. i - 1 \in 0..N /\ P[i - 1] = s[i] /\ s[i] # 0
    BY <1>1, <1>6 DEF At
  <2> QED BY <1>2, <2>1 DEF Nodes, Range, P, IsPath
<1>10. ASSUME NEW p \in Nodes(t, h) PROVE \E i \in 1..len : p = s[i]
  <2>1. PICK n \in 0..N : P[n] = p /\ p # 0
    BY <1>2 DEF Nodes, Range, P, IsPath
  <2>2. At(s, len, n + 1) = p
    BY <1>6, <2>1
  <2> QED BY <1>1, <2>1, <2>2 DEF At
<1>11. DOMAIN P = 0..N
  BY <1>2 DEF IsPath
<1> QED BY <1>6, <1>8, <1>9, <1>10, <1>11 DEF P, Walked

(* The last slot of a list. *)
LEMMA LastOfList ==
  ASSUME NEW N \in Nat, NEW t, t.next \in [1..N -> 0..N], NEW h, NEW s, NEW len,
         List(t.next, h, s, len), len # 0
  PROVE  len \in 1..N /\ LastNode(t, h) = s[len] /\ h \in 1..N
<1>1. len \in 0..N /\ \A i \in 1..len : s[i] \in 1..N
  BY ListLength
<1>2. len >= 1
  BY <1>1 DEF List
<1>3. Walked(t, h, s, len, N)
  BY Walk
<1>4. ASSUME NEW i \in 1..len PROVE t.next[s[i]] = 0 <=> i = len
  <2>1. t.next[s[i]] = At(s, len, i + 1)
    BY DEF List
  <2>2. i = len => At(s, len, i + 1) = 0
    BY <1>1 DEF At
  <2>3. i # len => i + 1 \in 1..len
    BY <1>1
  <2>4. i # len => At(s, len, i + 1) \in 1..N
    BY <1>1, <2>3 DEF At
  <2> QED BY <2>1, <2>2, <2>4
<1>5. ASSUME NEW p \in Nodes(t, h) PROVE t.next[p] = 0 <=> p = s[len]
  <2>1. PICK i \in 1..len : p = s[i]
    BY <1>3 DEF Walked
  <2>2. s[i] = s[len] => i = len
    BY <1>1, <1>2 DEF List
  <2> QED BY <1>4, <2>1, <2>2
<1>6. s[len] \in Nodes(t, h)
  BY <1>1, <1>2, <1>3 DEF Walked
<1>7. LastNode(t, h) = s[len]
  BY <1>5, <1>6 DEF LastNode
<1>8. h \in 1..N
  BY <1>1, <1>2 DEF List, At
<1> QED BY <1>1, <1>2, <1>7, <1>8

(* Steps counts the slots in front of the first one of S. *)
FirstIn(s, len, i, S) ==
  i \in 1..len /\ 0 \notin S /\ s[i] \in S /\ \A j \in 1..i - 1 : s[j] \notin S
FoundAt(t, h, s, i, S) == Steps(t, h, S) = i - 1 /\ Path(t, h)[i - 1] = s[i]

(* Steps and Path find the first slot of S. *)
LEMMA StepsTo ==
  ASSUME NEW N \in Nat, NEW t, t.next \in [1..N -> 0..N], NEW h, NEW s, NEW len,
         List(t.next, h, s, len),
         NEW S, NEW i, FirstIn(s, len, i, S)
  PROVE  FoundAt(t, h, s, i, S)
<1> USE DEF FirstIn, FoundAt
<1>1. len \in 0..N
  BY ListLength
<1>0. Walked(t, h, s, len, N)
  BY Walk
<1>2. DOMAIN Path(t, h) = 0..N /\ \A n \in 0..N : Path(t, h)[n] = At(s, len, n + 1)
  BY <1>0 DEF Walked
<1> DEFINE D == {n \in DOMAIN Path(t, h) : Path(t, h)[n] \in S}
<1>3. i - 1 \in D /\ Path(t, h)[i - 1] = s[i]
  BY <1>1, <1>2 DEF At
<1>4. ASSUME NEW n \in D PROVE i - 1 <= n
  <2>1. n \in 0..N /\ At(s, len, n + 1) \in S
    BY <1>2
  <2>2. n + 1 \in 1..len /\ s[n + 1] \in S
    BY <2>1 DEF At
  <2>3. ~(n + 1 \in 1..i - 1)
    BY <2>2
  <2> QED BY <1>1, <2>1, <2>2, <2>3
<1>5. D \subseteq Int
  BY <1>2
<1> HIDE DEF D
<1>6. Min(D) = i - 1
  <2>1. \A x \in D : (\A y \in D : x <= y) <=> x = i - 1
    BY <1>3, <1>4, <1>5
  <2> QED BY <1>3, <2>1 DEF Min
<1> QED BY <1>3, <1>6 DEF Steps, D
-----------------------------------------------------------------------------
(* A list depends on the links of its own slots only. *)
LEMMA ListSame ==
  ASSUME NEW nx, NEW nx2, DOMAIN nx2 = DOMAIN nx, NEW h, NEW s, NEW len, List(nx, h, s, len),
         \A i \in 1..len : nx2[s[i]] = nx[s[i]]
  PROVE  List(nx2, h, s, len)
BY DEF List

(* The empty list. *)
LEMMA ListEmpty == ASSUME NEW nx PROVE List(nx, 0, [i \in 1..0 |-> 0], 0)
BY DEF List, At

(* A list starts with a null pointer if and only if it is empty. *)
LEMMA ListNull ==
  ASSUME NEW N \in Nat, NEW nx \in [1..N -> 0..N], NEW h, NEW s, NEW len,
         List(nx, h, s, len)
  PROVE  (h = 0 <=> len = 0) /\ (h # 0 => len \in 1..N /\ h = s[1] /\ h \in 1..N)
<1>1. len \in 0..N /\ \A i \in 1..len : s[i] \in 1..N
  BY ListLength
<1> QED BY <1>1 DEF List, At

(* Two lists without a common slot, the second linked behind the first. *)
Join(s, len, s2, len2) == [i \in 1..len + len2 |-> IF i <= len THEN s[i] ELSE s2[i - len]]

(* The places of two joined sequences. *)
LEMMA JoinType ==
  ASSUME NEW len \in Nat, NEW len2 \in Nat, NEW D, NEW s \in [1..len -> D], NEW s2 \in [1..len2 -> D]
  PROVE  /\ len + len2 \in Nat /\ (len + len2) - len = len2
         /\ Join(s, len, s2, len2) \in [1..len + len2 -> D]
<1>1. len + len2 \in Nat /\ (len + len2) - len = len2
  OBVIOUS
<1>2. ASSUME NEW i \in 1..len + len2 PROVE (IF i <= len THEN s[i] ELSE s2[i - len]) \in D
  <2>1. i <= len => i \in 1..len
    OBVIOUS
  <2>2. ~(i <= len) => i - len \in 1..len2
    OBVIOUS
  <2> QED BY <2>1, <2>2
<1> QED BY <1>1, <1>2 DEF Join

(* Linking the last slot of a list to the head of another one that it      *)
(* shares no slot with makes one list of both.                             *)
LEMMA ListJoin ==
  ASSUME NEW N \in Nat, NEW nx \in [1..N -> 0..N], NEW nx2 \in [1..N -> 0..N],
         NEW h, NEW s, NEW len, List(nx, h, s, len),
         NEW h2, NEW s2, NEW len2, List(nx, h2, s2, len2),
         \A i \in 1..len, j \in 1..len2 : s[i] # s2[j],
         len # 0 => nx2[s[len]] = h2,
         \A i \in 1..len - 1 : nx2[s[i]] = nx[s[i]],
         \A i \in 1..len2 : nx2[s2[i]] = nx[s2[i]]
  PROVE  List(nx2, IF len = 0 THEN h2 ELSE h, Join(s, len, s2, len2), len + len2)
<1> DEFINE a == Join(s, len, s2, len2)
           n == len + len2
<1>a. /\ len \in Nat /\ s \in [1..len -> 1..N]
  BY DEF List
<1>b. /\ len2 \in Nat /\ s2 \in [1..len2 -> 1..N]
  BY DEF List
<1>1. /\ len \in Nat /\ len2 \in Nat /\ s \in [1..len -> 1..N] /\ s2 \in [1..len2 -> 1..N]
      /\ n \in Nat /\ n - len = len2
  BY <1>a, <1>b, JoinType
<1>2. \A i \in 1..n : a[i] = IF i <= len THEN s[i] ELSE s2[i - len]
  BY DEF Join
<1>3. a \in [1..n -> 1..N]
  BY <1>a, <1>b, JoinType
<1>4. \A i \in 1..n : i <= len \/ i - len \in 1..len2
  BY <1>1
<1> HIDE DEF a, n
<1>5. ASSUME NEW i \in 1..n, NEW j \in 1..n, a[i] = a[j] PROVE i = j
  <2>1. CASE i <= len /\ j <= len
    BY <1>1, <1>2, <1>5, <2>1 DEF List
  <2>2. CASE ~(i <= len) /\ ~(j <= len)
    <3>1. s2[i - len] = s2[j - len] /\ i - len \in 1..len2 /\ j - len \in 1..len2
      BY <1>2, <1>4, <1>5, <2>2
    <3>2. i - len = j - len
      BY <3>1 DEF List
    <3> QED BY <1>1, <3>2
  <2>3. CASE i <= len /\ ~(j <= len)
    <3>1. s[i] = s2[j - len] /\ i \in 1..len /\ j - len \in 1..len2
      BY <1>1, <1>2, <1>4, <1>5, <2>3
    <3> QED BY <3>1
  <2>4. CASE j <= len /\ ~(i <= len)
    <3>1. s[j] = s2[i - len] /\ j \in 1..len /\ i - len \in 1..len2
      BY <1>1, <1>2, <1>4, <1>5, <2>4
    <3> QED BY <3>1
  <2> QED BY <2>1, <2>2, <2>3, <2>4
<1>6. ASSUME NEW i \in 1..len2 PROVE At(a, n, len + i) = s2[i] /\ At(s2, len2, i) = s2[i]
  <2>1. len + i \in 1..n /\ ~(len + i <= len) /\ (len + i) - len = i
    BY <1>1 DEF n
  <2> QED BY <1>2, <2>1 DEF At
<1>7. At(a, n, len + len2 + 1) = 0 /\ At(s2, len2, len2 + 1) = 0
  BY <1>1 DEF At, n
<1>8. \A i \in 1..len2 + 1 : At(a, n, len + i) = At(s2, len2, i)
  <2> SUFFICES ASSUME NEW i \in 1..len2 + 1 PROVE At(a, n, len + i) = At(s2, len2, i)
    OBVIOUS
  <2>1. CASE i \in 1..len2
    BY <1>6, <2>1
  <2>2. CASE i = len2 + 1
    <3>1. len + i = len + len2 + 1
      BY <1>1, <2>2
    <3> QED BY <1>7, <2>2, <3>1
  <2>3. i \in 1..len2 \/ i = len2 + 1
    BY <1>1
  <2> QED BY <2>1, <2>2, <2>3
<1>9. (IF len = 0 THEN h2 ELSE h) = At(a, n, 1)
  <2>1. CASE len = 0
    <3>1. At(a, n, len + 1) = At(s2, len2, 1)
      BY <1>1, <1>8
    <3> QED BY <2>1, <3>1 DEF List
  <2>2. CASE len # 0
    <3>1. 1 \in 1..n /\ 1 <= len /\ 1 \in 1..len
      BY <1>1, <2>2 DEF n
    <3> QED BY <1>2, <2>2, <3>1 DEF List, At
  <2> QED BY <2>1, <2>2
<1>10. ASSUME NEW i \in 1..n PROVE nx2[a[i]] = At(a, n, i + 1)
  <2>1. CASE ~(i <= len)
    <3>1. i - len \in 1..len2 /\ a[i] = s2[i - len]
      BY <1>2, <1>4, <2>1
    <3>2. nx2[s2[i - len]] = At(s2, len2, (i - len) + 1)
      BY <3>1 DEF List
    <3>3. (i - len) + 1 \in 1..len2 + 1 /\ len + ((i - len) + 1) = i + 1
      BY <1>1, <3>1
    <3>4. At(a, n, i + 1) = At(s2, len2, (i - len) + 1)
      BY <1>8, <3>3
    <3> QED BY <3>1, <3>2, <3>4
  <2>2. CASE i = len
    <3>1. a[i] = s[len] /\ len # 0
      BY <1>1, <1>2, <2>2
    <3>2. At(a, n, len + 1) = At(s2, len2, 1)
      BY <1>1, <1>8
    <3> QED BY <2>2, <3>1, <3>2 DEF List
  <2>3. CASE i < len
    <3>1. /\ i \in 1..len - 1 /\ i \in 1..len /\ i + 1 \in 1..len /\ i + 1 \in 1..n
          /\ i <= len /\ i + 1 <= len
      BY <1>1, <2>3 DEF n
    <3>2. nx2[s[i]] = At(s, len, i + 1)
      BY <3>1 DEF List
    <3>3. At(s, len, i + 1) = s[i + 1] /\ At(a, n, i + 1) = s[i + 1] /\ a[i] = s[i]
      BY <1>2, <3>1 DEF At
    <3> QED BY <3>2, <3>3
  <2> QED BY <1>1, <2>1, <2>2, <2>3
<1>11. List(nx2, IF len = 0 THEN h2 ELSE h, a, n)
  BY <1>1, <1>3, <1>5, <1>9, <1>10 DEF List
<1> QED BY <1>11 DEF a, n

(* One slot linked behind a list. *)
One(p) == [i \in 1..1 |-> p]

Appends(nx, nx2, s, len, p) ==
  /\ nx2[p] = 0 /\ (len # 0 => nx2[s[len]] = p)
  /\ \A i \in 1..len : s[i] # p
  /\ \A i \in 1..len - 1 : nx2[s[i]] = nx[s[i]]

(* Linking a new last slot behind a list makes a list with one slot more. *)
LEMMA ListAppend ==
  ASSUME NEW N \in Nat, NEW nx \in [1..N -> 0..N], NEW nx2 \in [1..N -> 0..N],
         NEW h, NEW s, NEW len, List(nx, h, s, len),
         NEW p \in 1..N, Appends(nx, nx2, s, len, p)
  PROVE  List(nx2, IF len = 0 THEN p ELSE h, Join(s, len, One(p), 1), len + 1)
<1> USE DEF Appends
<1> DEFINE nx1 == [nx EXCEPT ![p] = 0]
           one == [i \in 1..1 |-> p]
<1>1. nx1 \in [1..N -> 0..N] /\ nx1[p] = 0 /\ \A q \in 1..N : q # p => nx1[q] = nx[q]
  OBVIOUS
<1>2. one \in [1..1 -> 1..N] /\ one[1] = p /\ \A i \in 1..1 : one[i] = p
  OBVIOUS
<1>3. len \in Nat /\ \A i \in 1..len : s[i] \in 1..N
  BY DEF List
<1> HIDE DEF nx1, one
<1>4. List(nx1, h, s, len)
  <2>1. \A i \in 1..len : nx1[s[i]] = nx[s[i]]
    BY <1>1, <1>3
  <2>2. DOMAIN nx1 = DOMAIN nx
    BY <1>1
  <2> QED BY <2>1, <2>2, ListSame
<1>5. List(nx1, p, one, 1)
  BY <1>1, <1>2 DEF List, At
<1>6. \A i \in 1..len - 1 : nx2[s[i]] = nx1[s[i]]
  BY <1>1, <1>3
<1>7. \A i \in 1..1 : nx2[one[i]] = nx1[one[i]]
  BY <1>1, <1>2
<1>8. \A i \in 1..len, j \in 1..1 : s[i] # one[j]
  BY <1>2
<1>9. List(nx2, IF len = 0 THEN p ELSE h, Join(s, len, one, 1), len + 1)
  BY <1>1, <1>4, <1>5, <1>6, <1>7, <1>8, ListJoin
<1> QED BY <1>9 DEF one, One

(* A list without the slot at place i. *)
Without(s, len, i) == [j \in 1..len - 1 |-> IF j < i THEN s[j] ELSE s[j + 1]]

Shortened(w, s, len, i, D) ==
  /\ w \in [1..len - 1 -> D]
  /\ \A a, b \in 1..len - 1 : w[a] = w[b] => a = b
  /\ \A j \in 1..len - 1 : \E m \in 1..len : m # i /\ w[j] = s[m]
  /\ \A m \in 1..len : m # i => \E j \in 1..len - 1 : w[j] = s[m]

(* A sequence without its i-th slot still has all the others, each once. *)
LEMMA WithoutElements ==
  ASSUME NEW len \in Nat, NEW D, NEW s \in [1..len -> D], NEW i \in 1..len,
         \A a, b \in 1..len : s[a] = s[b] => a = b
  PROVE  Shortened(Without(s, len, i), s, len, i, D)
<1> DEFINE w == Without(s, len, i)
           P(j) == IF j < i THEN j ELSE j + 1
<1>1. \A j \in 1..len - 1 : P(j) \in 1..len /\ P(j) # i
  OBVIOUS
<1>2. \A j \in 1..len - 1 : w[j] = s[P(j)]
  BY DEF Without
<1>3. \A a, b \in 1..len - 1 : P(a) = P(b) => a = b
  OBVIOUS
<1>4. ASSUME NEW m \in 1..len, m # i PROVE \E j \in 1..len - 1 : P(j) = m
  <2>1. CASE m < i
    <3>1. m \in 1..len - 1 /\ P(m) = m
      BY <2>1
    <3> QED BY <3>1
  <2>2. CASE ~(m < i)
    <3>1. m - 1 \in 1..len - 1 /\ ~(m - 1 < i) /\ (m - 1) + 1 = m
      BY <1>4, <2>2
    <3> QED BY <3>1
  <2> QED BY <2>1, <2>2
<1>5. \A j \in 1..len - 1 : s[P(j)] \in D
  BY <1>1
<1>6. w = [j \in 1..len - 1 |-> s[P(j)]]
  BY DEF Without
<1> HIDE DEF P, w
<1>7. w \in [1..len - 1 -> D]
  BY <1>5, <1>6
<1>8. \A a, b \in 1..len - 1 : w[a] = w[b] => a = b
  BY <1>1, <1>2, <1>3
<1>9. \A j \in 1..len - 1 : \E m \in 1..len : m # i /\ w[j] = s[m]
  BY <1>1, <1>2
<1>10. \A m \in 1..len : m # i => \E j \in 1..len - 1 : w[j] = s[m]
  BY <1>2, <1>4
<1> QED BY <1>7, <1>8, <1>9, <1>10 DEF w, Shortened

(* One slot taken out of a list. *)
LEMMA ListRemove ==
  ASSUME NEW N \in Nat, NEW nx \in [1..N -> 0..N], NEW nx2 \in [1..N -> 0..N],
         NEW h, NEW s, NEW len, List(nx, h, s, len), NEW i \in 1..len,
         i # 1 => nx2[s[i - 1]] = nx[s[i]],
         \A j \in 1..len : j # i /\ j # i - 1 => nx2[s[j]] = nx[s[j]]
  PROVE  List(nx2, IF i = 1 THEN nx[s[1]] ELSE h, Without(s, len, i), len - 1)
<1> DEFINE w == Without(s, len, i)
           g == IF i = 1 THEN nx[s[1]] ELSE h
<1>1. /\ len \in Nat /\ s \in [1..len -> 1..N]
      /\ \A a, b \in 1..len : s[a] = s[b] => a = b
      /\ \A j \in 1..len : nx[s[j]] = At(s, len, j + 1)
  BY DEF List
<1>0. Shortened(w, s, len, i, 1..N)
  BY <1>1, WithoutElements
<1>2. w \in [1..len - 1 -> 1..N] /\ \A a, b \in 1..len - 1 : w[a] = w[b] => a = b
  BY <1>0 DEF Shortened
<1>3. \A j \in 1..len - 1 : w[j] = IF j < i THEN s[j] ELSE s[j + 1]
  BY DEF Without
<1> HIDE DEF w
<1>4. \A j \in 1..len : At(w, len - 1, j) = IF j < i THEN s[j] ELSE At(s, len, j + 1)
  <2> SUFFICES ASSUME NEW j \in 1..len
               PROVE  At(w, len - 1, j) = IF j < i THEN s[j] ELSE At(s, len, j + 1)
    OBVIOUS
  <2>1. CASE j \in 1..len - 1
    <3>1. j + 1 \in 1..len
      BY <1>1, <2>1
    <3>2. At(w, len - 1, j) = w[j] /\ At(s, len, j + 1) = s[j + 1]
      BY <2>1, <3>1 DEF At
    <3>3. w[j] = IF j < i THEN s[j] ELSE s[j + 1]
      BY <1>3, <2>1
    <3> QED BY <3>2, <3>3
  <2>2. CASE j = len
    <3>1. ~(j < i) /\ j \notin 1..len - 1 /\ j + 1 \notin 1..len
      BY <1>1, <2>2
    <3> QED BY <3>1 DEF At
  <2>3. j \in 1..len - 1 \/ j = len
    BY <1>1
  <2> QED BY <2>1, <2>2, <2>3
<1>5. g = At(w, len - 1, 1)
  <2>1. 1 \in 1..len
    BY <1>1
  <2>2. CASE i = 1
    <3>1. At(w, len - 1, 1) = At(s, len, 1 + 1)
      BY <1>4, <2>1, <2>2
    <3> QED BY <1>1, <2>1, <2>2, <3>1
  <2>3. CASE i # 1
    <3>1. 1 < i
      BY <1>1, <2>3
    <3>2. At(w, len - 1, 1) = s[1]
      BY <1>4, <2>1, <3>1
    <3>3. h = s[1]
      BY <2>1 DEF List, At
    <3> QED BY <2>3, <3>2, <3>3
  <2> QED BY <2>2, <2>3
<1>6. ASSUME NEW j \in 1..len - 1 PROVE nx2[w[j]] = At(w, len - 1, j + 1)
  <2>1. j \in 1..len /\ j + 1 \in 1..len /\ len - 1 \in Nat
    BY <1>1
  <2>2. CASE j + 1 < i
    <3>1. j < i /\ j # i /\ j # i - 1
      BY <2>1, <2>2
    <3>2. w[j] = s[j] /\ nx2[s[j]] = At(s, len, j + 1)
      BY <1>1, <1>3, <2>1, <3>1
    <3>3. At(s, len, j + 1) = s[j + 1]
      BY <2>1 DEF At
    <3>4. At(w, len - 1, j + 1) = s[j + 1]
      BY <1>4, <2>1, <2>2
    <3> QED BY <3>2, <3>3, <3>4
  <2>3. CASE j + 1 = i
    <3>1. j < i /\ i # 1 /\ i - 1 = j /\ ~(j + 1 < i)
      BY <2>1, <2>3
    <3>2. w[j] = s[j] /\ nx2[s[j]] = nx[s[i]]
      BY <1>3, <3>1
    <3>3. nx[s[i]] = At(s, len, (j + 1) + 1)
      BY <1>1, <2>3
    <3>4. At(w, len - 1, j + 1) = At(s, len, (j + 1) + 1)
      BY <1>4, <2>1, <3>1
    <3> QED BY <3>2, <3>3, <3>4
  <2>4. CASE i < j + 1
    <3>1. ~(j < i) /\ ~(j + 1 < i) /\ j + 1 # i /\ j + 1 # i - 1
      BY <2>1, <2>4
    <3>2. w[j] = s[j + 1] /\ nx2[s[j + 1]] = At(s, len, (j + 1) + 1)
      BY <1>1, <1>3, <2>1, <3>1
    <3>3. At(w, len - 1, j + 1) = At(s, len, (j + 1) + 1)
      BY <1>4, <2>1, <3>1
    <3> QED BY <3>2, <3>3
  <2> QED BY <2>1, <2>2, <2>3, <2>4
<1>7. len - 1 \in Nat
  BY <1>1
<1> HIDE DEF g
<1>8. List(nx2, g, w, len - 1)
  BY <1>2, <1>5, <1>6, <1>7 DEF List
<1> QED BY <1>8 DEF g, w

-----------------------------------------------------------------------------
(* The list from h consists of the slots of the set M, in some order. *)
Elements(s, len) == {s[i] : i \in 1..len}
Lane(nx, h, M) == \E s, len : List(nx, h, s, len) /\ M = Elements(s, len)

(* The loops that walk a lane end, visit its slots and no others, and the  *)
(* lane is empty if and only if its head is a null pointer.                *)
LaneSeen(t, h, M, N) ==
  /\ Ends(t, h) /\ Nodes(t, h) = M /\ M \subseteq 1..N /\ h \in 0..N
  /\ h = 0 <=> M = {}
  /\ h # 0 => h \in M

(* The walks over a lane end and find exactly its slots. *)
LEMMA LaneWalk ==
  ASSUME NEW N \in Nat, NEW t, t.next \in [1..N -> 0..N], NEW h, NEW M,
         Lane(t.next, h, M)
  PROVE  LaneSeen(t, h, M, N)
<1>1. PICK s, len : List(t.next, h, s, len) /\ M = Elements(s, len)
  BY DEF Lane
<1>2. Walked(t, h, s, len, N)
  BY <1>1, Walk
<1>3. len \in 0..N /\ h \in 0..N /\ \A i \in 1..len : s[i] \in 1..N
  BY <1>1, ListLength
<1>4. (h = 0 <=> len = 0) /\ (h # 0 => len \in 1..N /\ h = s[1] /\ h \in 1..N)
  BY <1>1, ListNull
<1>5. Nodes(t, h) = M
  BY <1>1, <1>2 DEF Walked, Elements
<1>6. M \subseteq 1..N
  BY <1>1, <1>3 DEF Elements
<1>7. h # 0 => h \in M
  BY <1>1, <1>4 DEF Elements
<1>8. h = 0 => M = {}
  BY <1>1, <1>4 DEF Elements
<1> QED BY <1>2, <1>3, <1>5, <1>6, <1>7, <1>8 DEF Walked, LaneSeen

(* A lane depends on the links of its own slots only. *)
LEMMA LaneSame ==
  ASSUME NEW nx, NEW nx2, DOMAIN nx2 = DOMAIN nx, NEW h, NEW M, Lane(nx, h, M),
         \A p \in M : nx2[p] = nx[p]
  PROVE  Lane(nx2, h, M)
<1>1. PICK s, len : List(nx, h, s, len) /\ M = Elements(s, len)
  BY DEF Lane
<1>2. \A i \in 1..len : nx2[s[i]] = nx[s[i]]
  BY <1>1 DEF Elements
<1>3. List(nx2, h, s, len)
  BY <1>1, <1>2, ListSame
<1> QED BY <1>1, <1>3 DEF Lane

(* The null pointer is the head of the empty lane. *)
LEMMA LaneEmpty == ASSUME NEW nx PROVE Lane(nx, 0, {})
<1>1. Elements([i \in 1..0 |-> 0], 0) = {}
  BY DEF Elements
<1> QED BY <1>1, ListEmpty DEF Lane

(* The last slot of a lane that is not empty. *)
LEMMA LaneLast ==
  ASSUME NEW N \in Nat, NEW t, t.next \in [1..N -> 0..N], NEW h, NEW M,
         Lane(t.next, h, M), h # 0
  PROVE  LastNode(t, h) \in M /\ M \subseteq 1..N
<1>1. PICK s, len : List(t.next, h, s, len) /\ M = Elements(s, len)
  BY DEF Lane
<1>a. List(t.next, h, s, len)
  BY <1>1
<1>b. (h = 0 <=> len = 0) /\ (h # 0 => len \in 1..N /\ h = s[1] /\ h \in 1..N)
  BY <1>a, ListNull
<1>c. len # 0
  BY <1>b
<1>d. len \in 0..N /\ h \in 0..N /\ \A i \in 1..len : s[i] \in 1..N
  BY <1>a, ListLength
<1>2. len # 0 /\ len \in 0..N /\ \A i \in 1..len : s[i] \in 1..N
  BY <1>c, <1>d
<1>e. len \in 1..N /\ LastNode(t, h) = s[len] /\ h \in 1..N
  BY <1>a, <1>c, LastOfList, Zenon
<1>3. LastNode(t, h) = s[len]
  BY <1>e
<1> QED BY <1>1, <1>2, <1>3 DEF Elements

(* nx2 leads from the last slot of the lane at h to p, and is otherwise    *)
(* what t.next is on the slots of S.                                       *)
Continues(t, nx2, h, p, S) ==
  /\ nx2[LastNode(t, h)] = p
  /\ \A q \in S : q # LastNode(t, h) => nx2[q] = t.next[q]

(* Linking one lane behind another that is not empty. *)
LEMMA LaneJoin ==
  ASSUME NEW N \in Nat, NEW t, t.next \in [1..N -> 0..N], NEW nx2 \in [1..N -> 0..N],
         NEW h, NEW M, Lane(t.next, h, M), h # 0,
         NEW h2, NEW M2, Lane(t.next, h2, M2), M \cap M2 = {},
         Continues(t, nx2, h, h2, M \cup M2)
  PROVE  Lane(nx2, h, M \cup M2)
<1> USE DEF Continues
<1>1. PICK s, len : List(t.next, h, s, len) /\ M = Elements(s, len)
  BY DEF Lane
<1>2. PICK s2, len2 : List(t.next, h2, s2, len2) /\ M2 = Elements(s2, len2)
  BY DEF Lane
<1>a. List(t.next, h, s, len)
  BY <1>1
<1>b. (h = 0 <=> len = 0) /\ (h # 0 => len \in 1..N /\ h = s[1] /\ h \in 1..N)
  BY <1>a, ListNull
<1>c. len # 0
  BY <1>b
<1>d. len \in 0..N /\ h \in 0..N /\ \A i \in 1..len : s[i] \in 1..N
  BY <1>a, ListLength
<1>3. len # 0 /\ len \in 0..N /\ \A i \in 1..len : s[i] \in 1..N
  BY <1>c, <1>d
<1>4. len2 \in 0..N /\ \A i \in 1..len2 : s2[i] \in 1..N
  BY <1>2, ListLength
<1>e. len \in 1..N /\ LastNode(t, h) = s[len] /\ h \in 1..N
  BY <1>a, <1>c, LastOfList, Zenon
<1>5. LastNode(t, h) = s[len]
  BY <1>e
<1>6. \A i \in 1..len, j \in 1..len2 : s[i] # s2[j]
  BY <1>1, <1>2 DEF Elements
<1>7. \A i \in 1..len - 1 : nx2[s[i]] = t.next[s[i]]
  <2> SUFFICES ASSUME NEW i \in 1..len - 1 PROVE nx2[s[i]] = t.next[s[i]]
    OBVIOUS
  <2>1. i \in 1..len /\ len \in 1..len /\ i # len
    BY <1>3
  <2>2. s[i] # s[len]
    BY <1>1, <2>1 DEF List
  <2>3. s[i] \in M
    BY <1>1, <2>1 DEF Elements
  <2> QED BY <1>5, <2>2, <2>3
<1>8. \A i \in 1..len2 : nx2[s2[i]] = t.next[s2[i]]
  <2> SUFFICES ASSUME NEW i \in 1..len2 PROVE nx2[s2[i]] = t.next[s2[i]]
    OBVIOUS
  <2>1. s2[i] \in M2
    BY <1>2 DEF Elements
  <2>2. s[len] \in M
    BY <1>1, <1>3 DEF Elements
  <2> QED BY <1>5, <2>1, <2>2
<1>9. nx2[s[len]] = h2
  BY <1>5
<1> DEFINE a == Join(s, len, s2, len2)
<1>10. List(nx2, IF len = 0 THEN h2 ELSE h, a, len + len2)
  BY <1>1, <1>2, <1>6, <1>7, <1>8, <1>9, ListJoin
<1>11. M \cup M2 = Elements(a, len + len2)
  <2>1. \A i \in 1..len + len2 : a[i] = IF i <= len THEN s[i] ELSE s2[i - len]
    BY DEF Join
  <2> HIDE DEF a
  <2>2. \A i \in 1..len : i \in 1..len + len2 /\ i <= len
    BY <1>3, <1>4
  <2>3. \A i \in 1..len2 : len + i \in 1..len + len2 /\ ~(len + i <= len) /\ (len + i) - len = i
    BY <1>3, <1>4
  <2>4. \A i \in 1..len + len2 : IF i <= len THEN i \in 1..len ELSE i - len \in 1..len2
    BY <1>3, <1>4
  <2>5. ASSUME NEW p \in M PROVE p \in Elements(a, len + len2)
    BY <1>1, <2>1, <2>2 DEF Elements
  <2>6. ASSUME NEW p \in M2 PROVE p \in Elements(a, len + len2)
    <3>1. PICK i \in 1..len2 : p = s2[i]
      BY <1>2 DEF Elements
    <3>2. a[len + i] = p /\ len + i \in 1..len + len2
      BY <2>1, <2>3, <3>1
    <3> QED BY <3>2 DEF Elements
  <2>7. ASSUME NEW p \in Elements(a, len + len2) PROVE p \in M \cup M2
    <3>1. PICK i \in 1..len + len2 : p = a[i]
      BY DEF Elements
    <3>2. CASE i <= len
      BY <1>1, <2>1, <2>4, <3>1, <3>2 DEF Elements
    <3>3. CASE ~(i <= len)
      <4>1. i - len \in 1..len2 /\ p = s2[i - len]
        BY <2>1, <2>4, <3>1, <3>3
      <4> QED BY <1>2, <4>1 DEF Elements
    <3> QED BY <3>2, <3>3
  <2> QED BY <2>5, <2>6, <2>7
<1> HIDE DEF a
<1>12. List(nx2, h, a, len + len2)
  BY <1>3, <1>10
<1> QED BY <1>11, <1>12 DEF Lane

(* A lane of one slot. *)
LEMMA LaneOne ==
  ASSUME NEW N \in Nat, NEW nx \in [1..N -> 0..N], NEW p \in 1..N, nx[p] = 0
  PROVE  Lane(nx, p, {p})
<1> DEFINE one == [i \in 1..1 |-> p]
<1>1. one \in [1..1 -> 1..N] /\ one[1] = p /\ \A i \in 1..1 : one[i] = p
  OBVIOUS
<1> HIDE DEF one
<1>2. List(nx, p, one, 1)
  BY <1>1 DEF List, At
<1>3. Elements(one, 1) = {p}
  BY <1>1 DEF Elements
<1> QED BY <1>2, <1>3 DEF Lane

(* Linking one slot behind a lane. *)
LEMMA LaneAppend ==
  ASSUME NEW N \in Nat, NEW t, t.next \in [1..N -> 0..N], NEW nx2 \in [1..N -> 0..N],
         NEW h, NEW M, Lane(t.next, h, M), h # 0, NEW p \in 1..N, p \notin M,
         Continues(t, nx2, h, p, M), nx2[p] = 0
  PROVE  Lane(nx2, h, M \cup {p})
<1> USE DEF Continues
<1>1. PICK s, len : List(t.next, h, s, len) /\ M = Elements(s, len)
  BY DEF Lane
<1>a. List(t.next, h, s, len)
  BY <1>1
<1>b. (h = 0 <=> len = 0) /\ (h # 0 => len \in 1..N /\ h = s[1] /\ h \in 1..N)
  BY <1>a, ListNull
<1>c. len # 0
  BY <1>b
<1>d. len \in 0..N /\ h \in 0..N /\ \A i \in 1..len : s[i] \in 1..N
  BY <1>a, ListLength
<1>e. len \in 1..N /\ LastNode(t, h) = s[len] /\ h \in 1..N
  BY <1>a, <1>c, LastOfList, Zenon
<1>2. \A i \in 1..len - 1 : nx2[s[i]] = t.next[s[i]]
  <2> SUFFICES ASSUME NEW i \in 1..len - 1 PROVE nx2[s[i]] = t.next[s[i]]
    OBVIOUS
  <2>1. i \in 1..len /\ len \in 1..len /\ i # len
    BY <1>d
  <2>2. s[i] # s[len]
    BY <1>a, <2>1 DEF List
  <2>3. s[i] \in M
    BY <1>1, <2>1 DEF Elements
  <2> QED BY <1>e, <2>2, <2>3
<1>3. \A i \in 1..len : s[i] # p
  BY <1>1 DEF Elements
<1> DEFINE a == Join(s, len, One(p), 1)
<1>4. len # 0 => nx2[s[len]] = p
  BY <1>e
<1>5. List(nx2, IF len = 0 THEN p ELSE h, a, len + 1)
  <2>1. Appends(t.next, nx2, s, len, p)
    BY <1>2, <1>3, <1>4 DEF Appends
  <2> QED BY <1>a, <2>1, ListAppend
<1>6. \A i \in 1..len + 1 : a[i] = IF i <= len THEN s[i] ELSE p
  <2>1. \A i \in 1..len + 1 : ~(i <= len) => i - len = 1
    BY <1>d
  <2>2. \A i \in 1..len + 1 : a[i] = IF i <= len THEN s[i] ELSE One(p)[i - len]
    BY DEF Join
  <2>3. One(p)[1] = p
    BY DEF One
  <2> HIDE DEF a
  <2> QED BY <2>1, <2>2, <2>3
<1> HIDE DEF a
<1>7. M \cup {p} = Elements(a, len + 1)
  <2>1. \A i \in 1..len : i \in 1..len + 1 /\ i <= len
    BY <1>d
  <2>2. len + 1 \in 1..len + 1 /\ ~(len + 1 <= len)
    BY <1>d
  <2>3. \A i \in 1..len + 1 : i <= len => i \in 1..len
    BY <1>d
  <2>4. ASSUME NEW q \in M PROVE q \in Elements(a, len + 1)
    BY <1>1, <1>6, <2>1 DEF Elements
  <2>5. p \in Elements(a, len + 1)
    BY <1>6, <2>2 DEF Elements
  <2>6. ASSUME NEW q \in Elements(a, len + 1) PROVE q \in M \cup {p}
    <3>1. PICK i \in 1..len + 1 : q = a[i]
      BY DEF Elements
    <3>2. CASE i <= len
      BY <1>1, <1>6, <2>3, <3>1, <3>2 DEF Elements
    <3>3. CASE ~(i <= len)
      BY <1>6, <3>1, <3>3
    <3> QED BY <3>2, <3>3
  <2> QED BY <2>4, <2>5, <2>6
<1>8. List(nx2, h, a, len + 1)
  BY <1>c, <1>5
<1> QED BY <1>7, <1>8 DEF Lane

(* Where a slot of a lane is: Steps finds its place, and the slot in front *)
(* of it, if there is one, is another slot of the lane.                    *)
PlaceOf(t, h, M, p, s, len, i) ==
  /\ List(t.next, h, s, len) /\ M = Elements(s, len)
  /\ s[i] = p /\ Steps(t, h, {p}) = i - 1
  /\ i # 1 => Path(t, h)[i - 2] = s[i - 1]

(* Every slot of a lane has a place in its order. *)
LEMMA LanePlace ==
  ASSUME NEW N \in Nat, NEW t, t.next \in [1..N -> 0..N], NEW h, NEW M,
         Lane(t.next, h, M), NEW p \in M
  PROVE  \E s, len : \E i \in 1..len : PlaceOf(t, h, M, p, s, len, i)
<1>1. PICK s, len : List(t.next, h, s, len) /\ M = Elements(s, len)
  BY DEF Lane
<1>2. PICK i \in 1..len : s[i] = p
  BY <1>1 DEF Elements
<1>3. len \in 0..N /\ h \in 0..N /\ \A j \in 1..len : s[j] \in 1..N
  BY <1>1, ListLength
<1>4. \A j \in 1..i - 1 : s[j] \notin {p}
  <2> SUFFICES ASSUME NEW j \in 1..i - 1, s[j] = s[i] PROVE FALSE
    BY <1>2
  <2>1. j \in 1..len /\ j # i
    BY <1>3
  <2> QED BY <1>1, <2>1 DEF List
<1>5. 0 \notin {p} /\ s[i] \in {p}
  BY <1>2, <1>3
<1>6. Steps(t, h, {p}) = i - 1 /\ Path(t, h)[i - 1] = s[i]
  <2> DEFINE S == {p}
  <2>1. FirstIn(s, len, i, S)
    BY <1>4, <1>5 DEF FirstIn
  <2> HIDE DEF S
  <2>2. List(t.next, h, s, len)
    BY <1>1
  <2>3. FoundAt(t, h, s, i, S)
    BY <2>1, <2>2, StepsTo
  <2> QED BY <2>3 DEF S, FoundAt
<1>7. ASSUME i # 1 PROVE Path(t, h)[i - 2] = s[i - 1]
  <2>1. Walked(t, h, s, len, N)
    BY <1>1, Walk
  <2>2. i - 2 \in 0..N /\ (i - 2) + 1 = i - 1 /\ i - 1 \in 1..len
    BY <1>3, <1>7
  <2>3. Path(t, h)[i - 2] = At(s, len, i - 1)
    BY <2>1, <2>2 DEF Walked
  <2> QED BY <2>2, <2>3 DEF At
<1>8. PlaceOf(t, h, M, p, s, len, i)
  BY <1>1, <1>2, <1>6, <1>7 DEF PlaceOf
<1> QED BY <1>8

(* The slot in front of p, unless p is the head. *)
LEMMA LanePrevious ==
  ASSUME NEW N \in Nat, NEW t, t.next \in [1..N -> 0..N], NEW h, NEW M,
         Lane(t.next, h, M), NEW p \in M
  PROVE  /\ Steps(t, h, {p}) = 0 <=> h = p
         /\ Steps(t, h, {p}) # 0 => Path(t, h)[Steps(t, h, {p}) - 1] \in M \ {p}
<1>1. PICK s, len : \E i \in 1..len : PlaceOf(t, h, M, p, s, len, i)
  BY LanePlace
<1>0. PICK i \in 1..len : PlaceOf(t, h, M, p, s, len, i)
  BY <1>1
<1>2. /\ List(t.next, h, s, len) /\ M = Elements(s, len)
      /\ s[i] = p /\ Steps(t, h, {p}) = i - 1
      /\ i # 1 => Path(t, h)[i - 2] = s[i - 1]
  BY <1>0 DEF PlaceOf
<1>3. len \in Nat /\ \A a, b \in 1..len : s[a] = s[b] => a = b
  BY <1>2 DEF List
<1>4. (i - 1 = 0 <=> i = 1) /\ (i - 1) - 1 = i - 2 /\ 1 \in 1..len
  BY <1>3
<1>5. h = s[1]
  BY <1>2, <1>4 DEF List, At
<1>6. i = 1 <=> h = p
  BY <1>2, <1>3, <1>4, <1>5
<1>7. ASSUME i # 1 PROVE Path(t, h)[i - 2] \in M \ {p}
  <2>1. i - 1 \in 1..len /\ i - 1 # i
    BY <1>3, <1>7
  <2>2. s[i - 1] \in M /\ s[i - 1] # s[i]
    BY <1>2, <1>3, <2>1 DEF Elements
  <2> QED BY <1>2, <1>7, <2>2
<1> QED BY <1>2, <1>4, <1>6, <1>7

(* Taking a slot out of a lane, as dequeue and dequeue_specific do.  *)
Bypasses(t, nx2, h, p, M) ==
  LET n == Steps(t, h, {p})
      r == Path(t, h)[n - 1]
  IN  /\ n # 0 => nx2[r] = t.next[p]
      /\ \A q \in M : q # p /\ (n = 0 \/ q # r) => nx2[q] = t.next[q]

(* Relinking around a slot leaves a lane of all the other slots. *)
LEMMA LaneRemove ==
  ASSUME NEW N \in Nat, NEW t, t.next \in [1..N -> 0..N], NEW nx2 \in [1..N -> 0..N],
         NEW h, NEW M, Lane(t.next, h, M), NEW p \in M, Bypasses(t, nx2, h, p, M)
  PROVE  Lane(nx2, IF Steps(t, h, {p}) = 0 THEN t.next[p] ELSE h, M \ {p})
<1> USE DEF Bypasses
<1>1. PICK s, len : \E i \in 1..len : PlaceOf(t, h, M, p, s, len, i)
  BY LanePlace
<1>0. PICK i \in 1..len : PlaceOf(t, h, M, p, s, len, i)
  BY <1>1
<1>2. /\ List(t.next, h, s, len) /\ M = Elements(s, len)
      /\ s[i] = p /\ Steps(t, h, {p}) = i - 1
      /\ i # 1 => Path(t, h)[i - 2] = s[i - 1]
  BY <1>0 DEF PlaceOf
<1>3. len \in Nat /\ s \in [1..len -> 1..N] /\ \A a, b \in 1..len : s[a] = s[b] => a = b
  BY <1>2 DEF List
<1>4. (i - 1 = 0 <=> i = 1) /\ (i - 1) - 1 = i - 2
  BY <1>3
<1>5. i # 1 => nx2[s[i - 1]] = t.next[s[i]]
  BY <1>2, <1>4
<1>6. \A j \in 1..len : j # i /\ j # i - 1 => nx2[s[j]] = t.next[s[j]]
  <2> SUFFICES ASSUME NEW j \in 1..len, j # i, j # i - 1 PROVE nx2[s[j]] = t.next[s[j]]
    OBVIOUS
  <2>1. s[j] \in M /\ s[j] # p
    BY <1>2, <1>3 DEF Elements
  <2>2. i # 1 => s[j] # s[i - 1]
    <3>1. i # 1 => i - 1 \in 1..len
      BY <1>3
    <3> QED BY <1>3, <3>1
  <2> QED BY <1>2, <1>4, <2>1, <2>2
<1> DEFINE w == Without(s, len, i)
<1>7. List(nx2, IF i = 1 THEN t.next[s[1]] ELSE h, w, len - 1)
  BY <1>2, <1>5, <1>6, ListRemove
<1>8. Shortened(w, s, len, i, 1..N)
  BY <1>3, WithoutElements
<1> HIDE DEF w
<1>9. M \ {p} = Elements(w, len - 1)
  <2>1. ASSUME NEW q \in M, q # p PROVE q \in Elements(w, len - 1)
    BY <1>2, <1>8, <2>1 DEF Elements, Shortened
  <2>2. ASSUME NEW q \in Elements(w, len - 1) PROVE q \in M /\ q # p
    <3>1. PICK j \in 1..len - 1 : q = w[j]
      BY DEF Elements
    <3>2. PICK m \in 1..len : m # i /\ q = s[m]
      BY <1>8, <3>1 DEF Shortened
    <3> QED BY <1>2, <1>3, <3>2 DEF Elements
  <2> QED BY <2>1, <2>2
<1>10. (IF Steps(t, h, {p}) = 0 THEN t.next[p] ELSE h) = (IF i = 1 THEN t.next[s[1]] ELSE h)
  BY <1>2, <1>4
<1>11. List(nx2, IF Steps(t, h, {p}) = 0 THEN t.next[p] ELSE h, w, len - 1)
  BY <1>7, <1>10
<1> QED BY <1>9, <1>11 DEF Lane

(* Steps to a set of slots of the lane finds one of them. *)
LEMMA LaneSteps ==
  ASSUME NEW N \in Nat, NEW t, t.next \in [1..N -> 0..N], NEW h, NEW M,
         Lane(t.next, h, M), NEW S \in SUBSET M, S # {}
  PROVE  Path(t, h)[Steps(t, h, S)] \in S
<1>1. PICK s, len : List(t.next, h, s, len) /\ M = Elements(s, len)
  BY DEF Lane
<1>2. len \in 0..N /\ h \in 0..N /\ \A j \in 1..len : s[j] \in 1..N
  BY <1>1, ListLength
<1> DEFINE T == {i \in 1..len : s[i] \in S}
<1>3. T \in SUBSET Nat /\ T # {}
  BY <1>1 DEF Elements
<1>4. PICK i \in T : \A j \in T : i <= j
  <2> HIDE DEF T
  <2> QED BY <1>3, LeastNumber
<1>5. i \in 1..len /\ s[i] \in S /\ 0 \notin S
  BY <1>1, <1>2 DEF Elements
<1>6. \A j \in 1..i - 1 : s[j] \notin S
  BY <1>2, <1>4
<1>7. Steps(t, h, S) = i - 1 /\ Path(t, h)[i - 1] = s[i]
  <2>1. List(t.next, h, s, len)
    BY <1>1
  <2>2. FirstIn(s, len, i, S)
    BY <1>5, <1>6 DEF FirstIn
  <2>3. FoundAt(t, h, s, i, S)
    BY <2>1, <2>2, StepsTo
  <2> QED BY <2>3 DEF FoundAt
<1> QED BY <1>5, <1>7

(* The last slot of a lane is the one with a null pointer. *)
LEMMA LaneLastIs ==
  ASSUME NEW N \in Nat, NEW t, t.next \in [1..N -> 0..N], NEW h, NEW M,
         Lane(t.next, h, M), NEW p \in M, t.next[p] = 0
  PROVE  LastNode(t, h) = p
<1>1. PICK s, len : List(t.next, h, s, len) /\ M = Elements(s, len)
  BY DEF Lane
<1>2. PICK i \in 1..len : p = s[i]
  BY <1>1 DEF Elements
<1>3. List(t.next, h, s, len)
  BY <1>1
<1>4. len \in 0..N /\ h \in 0..N /\ \A j \in 1..len : s[j] \in 1..N
  BY <1>3, ListLength
<1>5. len # 0
  BY <1>4
<1>6. len \in 1..N /\ LastNode(t, h) = s[len] /\ h \in 1..N
  BY <1>3, <1>5, LastOfList, Zenon
<1>7. At(s, len, i + 1) = 0
  BY <1>2, <1>3 DEF List
<1>8. i + 1 \in 1..len => At(s, len, i + 1) \in 1..N
  BY <1>4 DEF At
<1>9. i = len
  BY <1>4, <1>7, <1>8
<1> QED BY <1>2, <1>6, <1>9

(* The walks follow the links only. *)
LEMMA LastNodeSame ==
  ASSUME NEW t, NEW u, u.next = t.next, NEW h
  PROVE  LastNode(u, h) = LastNode(t, h) /\ Nodes(u, h) = Nodes(t, h)
BY DEF LastNode, Nodes, Path
=============================================================================
