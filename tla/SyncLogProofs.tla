--------------------------- MODULE SyncLogProofs ---------------------------
(***************************************************************************)
(* Proofs about the buffered log of pj3 (module SyncLog).                  *)
(***************************************************************************)
EXTENDS SyncLog, FiniteSetTheorems, TLAPS

(* The places of a process, as in TypeOK. *)
PcVals == {"idle", "begin", "sleep", "op", "full", "bsync", "bget_sync", "unfull",
           "find", "hold", "sync"}

(* Sets of blocks and of processes are finite, and the cache is not tiny. *)
LEMMA Finite ==
  /\ \A S \in SUBSET Block : IsFiniteSet(S) /\ Cardinality(S) \in Nat
  /\ \A S \in SUBSET Proc : IsFiniteSet(S) /\ Cardinality(S) \in Nat
  /\ NBUF \in Nat /\ NBUF > 3 /\ Cardinality({}) = 0
<1>1. \A S \in SUBSET Block : IsFiniteSet(S)
  BY SyncAssumption, FS_Subset
<1>2. \A S \in SUBSET Proc : IsFiniteSet(S)
  BY SyncAssumption, FS_Subset
<1> QED BY <1>1, <1>2, FS_CardinalityType, FS_EmptySet, SyncAssumption

(* The committers are at most one. *)
LEMMA Committers ==
  /\ OneCommitter => \A p, q \in Proc :
       pc[p] \in {"sync", "bget_sync"} /\ pc[q] \in {"sync", "bget_sync"} => p = q
  /\ OneCommitter => (committing <=> \E p \in Proc : pc[p] \in {"sync", "bget_sync"})
  /\ (/\ committing <=> \E p \in Proc : pc[p] \in {"sync", "bget_sync"}
      /\ \A p, q \in Proc :
           pc[p] \in {"sync", "bget_sync"} /\ pc[q] \in {"sync", "bget_sync"} => p = q)
       => OneCommitter
<1> DEFINE C == {p \in Proc : pc[p] \in {"sync", "bget_sync"}}
<1>1. OneCommitter <=> Cardinality(C) <= 1 /\ (committing <=> C # {})
  BY DEF OneCommitter
<1>2. IsFiniteSet(C) /\ Cardinality(C) \in Nat
  BY Finite
<1>3. ASSUME Cardinality(C) <= 1, NEW p \in C, NEW q \in C PROVE p = q
  <2> HIDE DEF C
  <2>1. Cardinality(C) = 1
    BY <1>2, <1>3, FS_EmptySet
  <2>2. PICK x : C = {x}
    BY <1>2, <2>1, FS_Singleton
  <2> QED BY <2>2
<1>4. ASSUME \A p, q \in C : p = q PROVE Cardinality(C) <= 1
  <2> HIDE DEF C
  <2>1. CASE C = {}
    BY <2>1, FS_EmptySet
  <2>2. CASE C # {}
    <3>1. PICK x : C = {x}
      BY <1>4, <2>2
    <3>2. Cardinality(C) = 1
      BY <3>1, FS_Singleton
    <3> QED BY <3>2
  <2> QED BY <2>1, <2>2
<1> QED BY <1>1, <1>3, <1>4

(* With one user of the file system every other process is idle. *)
LEMMA Sole ==
  ASSUME CallInv, Single, NEW p \in users
  PROVE  users = {p} /\ p \in Proc /\ \A q \in Proc : pc[q] # "idle" => q = p
<1>1. users \in SUBSET Proc
  BY SyncAssumption DEF CallInv
<1>2. IsFiniteSet(users) /\ Cardinality(users) \in Nat /\ Cardinality(users) <= 1
  BY <1>1, Finite DEF Single
<1>3. Cardinality(users) = 1
  BY <1>2, FS_EmptySet
<1>4. PICK x : users = {x}
  BY <1>2, <1>3, FS_Singleton
<1> QED BY <1>1, <1>4 DEF CallInv

(* While the only user is in a call but not in a commit, nothing commits. *)
LEMMA SoleCall ==
  ASSUME SyncInv, Single, NEW p \in users, ~booting, pc[p] \notin {"sync", "bget_sync"}
  PROVE  /\ ~committing /\ phase = "none"
         /\ isfull => pc[p] \in {"bsync", "bget_sync", "unfull"}
<1>1. p \in Proc /\ \A q \in Proc : pc[q] # "idle" => q = p
  BY Sole DEF SyncInv
<1>2. ~committing
  BY <1>1, Committers DEF SyncInv
<1>3. phase = "none"
  BY <1>2 DEF SyncInv, PhaseInv
<1>4. isfull => pc[p] \in {"bsync", "bget_sync", "unfull"}
  BY <1>1 DEF SyncInv, SoleInv
<1> QED BY <1>2, <1>3, <1>4

(* A commit of the only user, and a recovery, hold no buffer and leave     *)
(* buffers to recycle.                                                     *)
LEMMA BuffersLeft ==
  ASSUME SyncInv, booting \/ (Single /\ committing)
  PROVE  Held = {} /\ ~NoBuffers
<1>1. CASE booting
  <2>1. dirty = {} /\ Held = {}
    BY <1>1 DEF SyncInv, PhaseInv, Held
  <2>2. dirty \cup Held = {}
    BY <2>1
  <2> QED BY <2>1, <2>2, Finite DEF NoBuffers
<1>2. CASE Single /\ committing
  <2>1. PICK c \in Proc : pc[c] \in {"sync", "bget_sync"}
    BY <1>2, Committers DEF SyncInv
  <2>2. c \in users
    BY <2>1 DEF SyncInv, CallInv
  <2>3. \A q \in Proc : pc[q] # "hold"
    BY <1>2, <2>1, <2>2, Sole DEF SyncInv
  <2>4. Held = {}
    BY <2>3 DEF Held
  <2>5. dirty \cup Held = dirty
    BY <2>4
  <2>6. Cardinality(dirty) <= NBUF - 3 /\ Cardinality(dirty) \in Nat
    BY <1>2, Finite DEF SyncInv, SoleInv, TypeOK
  <2> QED BY <2>4, <2>5, <2>6, Finite DEF NoBuffers
<1> QED BY <1>1, <1>2

(* A sequence of all elements of a set of blocks lists each once. *)
LEMMA Listing ==
  ASSUME NEW S \in SUBSET Block, NEW s \in SetToSeqs(S)
  PROVE  /\ s \in Seq(Block) /\ Len(s) = Cardinality(S) /\ Len(s) \in Nat
         /\ IsInjective(s) /\ ToSet(s) = S /\ (S # {} => Len(s) >= 1)
<1> DEFINE D == 1..Cardinality(S)
<1>1. s \in [D -> S] /\ \A i, j \in D : i # j => s[i] # s[j]
  BY DEF SetToSeqs
<1>2. IsFiniteSet(S) /\ Cardinality(S) \in Nat
  BY Finite
<1>3. IsFiniteSet(D) /\ Cardinality(D) = Cardinality(S)
  <2>1. Cardinality(D) = IF 1 > Cardinality(S) THEN 0 ELSE Cardinality(S) - 1 + 1
    BY <1>2, FS_Interval
  <2> QED BY <1>2, <2>1, FS_Interval
<1>4. s \in Seq(Block) /\ Len(s) = Cardinality(S)
  BY <1>1, <1>2
<1>5. DOMAIN s = D
  BY <1>1
<1>6. IsInjective(s)
  BY <1>1, <1>5 DEF IsInjective
<1>7. s \in Injection(D, S)
  BY <1>1, <1>6 DEF Injection
<1>8. s \in Surjection(D, S)
  BY <1>2, <1>3, <1>7, FS_Injection
<1>9. ToSet(s) = S
  BY <1>1, <1>5, <1>8 DEF Surjection, ToSet
<1>10. S # {} => Cardinality(S) >= 1
  BY <1>2, FS_EmptySet
<1> QED BY <1>2, <1>4, <1>6, <1>9, <1>10

(* The initial states satisfy the invariant. *)
LEMMA InitInv == Init => SyncInv
<1> SUFFICES ASSUME Init PROVE SyncInv
  OBVIOUS
<1>1. TypeOK
  <2>1. /\ disk \in [Block -> Val] /\ buf \in [Block -> Val] /\ logblk \in [1..LOGSIZE -> Val]
        /\ dirty \subseteq Block /\ phase \in Phases /\ want \in [Proc -> SUBSET Block]
    BY DEF Init, Phases
  <2>2. /\ hdr \in Seq(Block) /\ lh \in Seq(Block) /\ Len(hdr) <= LOGSIZE /\ Len(lh) <= LOGSIZE
        /\ tail \in 1..LOGSIZE + 1
    BY SyncAssumption DEF Init
  <2>3. /\ isfull \in BOOLEAN /\ committing \in BOOLEAN /\ booting \in BOOLEAN
        /\ panicked \in BOOLEAN
    BY DEF Init
  <2>4. pc \in [Proc -> PcVals]
    BY DEF Init, PcVals
  <2> QED BY <2>1, <2>2, <2>3, <2>4 DEF TypeOK, PcVals
<1>2. OneCommitter
  BY Committers DEF Init
<1>3. CleanIsOnDisk /\ ListedIsPinned
  BY DEF Init, CleanIsOnDisk, ListedIsPinned
<1>4. PhaseInv
  BY DEF Init, PhaseInv
<1>5. CallInv
  BY DEF Init, CallInv, InBget
<1>6. DataInv
  BY DEF Init, DataInv, IsInjective
<1>7. SoleInv
  BY Finite DEF Init, SoleInv
<1> QED BY <1>1, <1>2, <1>3, <1>4, <1>5, <1>6, <1>7 DEF SyncInv

(* A step of one process that only moves it on, outside of a commit, and   *)
(* changes the block it asks for keeps all but what is said of one user.   *)
LEMMA CallStep ==
  ASSUME SyncInv, NEW p \in users, Up, NEW s \in PcVals, NEW w \in SUBSET Block,
         pc[p] \notin {"sync", "bget_sync"}, s \notin {"sync", "bget_sync"},
         IF s \in InBget THEN \E b \in Block : w = {b} ELSE w = {},
         pc' = [pc EXCEPT ![p] = s], want' = [want EXCEPT ![p] = w],
         isfull' \in BOOLEAN, panicked' \in BOOLEAN,
         UNCHANGED <<users, diskVars, buf, dirty, logVars>>
  PROVE  /\ TypeOK' /\ OneCommitter' /\ CleanIsOnDisk' /\ ListedIsPinned'
         /\ PhaseInv' /\ CallInv' /\ DataInv'
<1>1. p \in Proc /\ ~booting /\ ~panicked
  BY SyncAssumption DEF SyncInv, CallInv, Up
<1>2. TypeOK'
  <2>1. pc' \in [Proc -> PcVals] /\ want' \in [Proc -> SUBSET Block]
    BY <1>1 DEF SyncInv, TypeOK, PcVals
  <2> QED BY <2>1 DEF SyncInv, TypeOK, PcVals, diskVars, logVars
<1>3. OneCommitter'
  <2>1. \A q \in Proc : pc'[q] \in {"sync", "bget_sync"} <=> pc[q] \in {"sync", "bget_sync"}
    BY <1>1 DEF SyncInv, TypeOK
  <2>2. {q \in Proc : pc'[q] \in {"sync", "bget_sync"}} = {q \in Proc : pc[q] \in {"sync", "bget_sync"}}
    BY <2>1
  <2> QED BY <2>2 DEF SyncInv, OneCommitter, logVars
<1>4. CleanIsOnDisk' /\ ListedIsPinned'
  BY DEF SyncInv, CleanIsOnDisk, ListedIsPinned, diskVars, logVars
<1>5. PhaseInv'
  BY <1>1 DEF SyncInv, PhaseInv, logVars
<1>6. CallInv'
  BY <1>1 DEF SyncInv, CallInv, TypeOK
<1>7. DataInv'
  BY <1>1 DEF SyncInv, DataInv, diskVars, logVars
<1> QED BY <1>2, <1>3, <1>4, <1>5, <1>6, <1>7

(* What is said of the only user after it has come to the place s. *)
SoleAt(s) ==
  Single => /\ ~panicked'
            /\ Cardinality(dirty') <= NBUF - 3
            /\ isfull' => s \in {"bsync", "bget_sync", "unfull"}
            /\ s \in {"find", "hold"} => Cardinality(dirty') < NBUF - 3
            /\ s = "unfull" => dirty' = {}

(* For the rest it is enough that no commit runs. *)
LEMMA SoleStep ==
  ASSUME SyncInv, NEW p \in users, Up, NEW s \in PcVals, Single => phase = "none",
         pc' = [pc EXCEPT ![p] = s], phase' = phase, users' = users,
         SoleAt(s)
  PROVE  SoleInv'
<1> SUFFICES ASSUME Single PROVE SoleInv'
  BY DEF SoleInv, Single
<1>1. p \in Proc /\ \A q \in Proc : pc[q] # "idle" => q = p
  BY Sole DEF SyncInv
<1>2. pc'[p] = s /\ \A q \in Proc : q # p => pc'[q] = "idle"
  BY <1>1 DEF SyncInv, TypeOK
<1> QED BY <1>1, <1>2 DEF SoleInv, Single, SoleAt

(* begin_op: nothing but the place of the process changes. *)
LEMMA BeginOpInv ==
  ASSUME SyncInv, UNCHANGED users, NEW p \in users, BeginOp(p)
  PROVE  SyncInv'
<1>1. p \in Proc /\ ~booting /\ want[p] = {}
  BY SyncAssumption DEF SyncInv, CallInv, BeginOp, Up, InBget
<1>2. PICK s \in {"sleep", "op"} : pc' = [pc EXCEPT ![p] = s]
  BY DEF BeginOp
<1>3. want' = [want EXCEPT ![p] = {}] /\ isfull' = isfull /\ panicked' = panicked
  BY <1>1 DEF BeginOp, SyncInv, TypeOK
<1>4. s \in PcVals /\ s \notin InBget /\ s \notin {"sync", "bget_sync", "find", "hold", "unfull"}
  BY <1>2 DEF PcVals, InBget
<1>5. isfull' \in BOOLEAN /\ panicked' \in BOOLEAN
  BY <1>3 DEF SyncInv, TypeOK
<1>6. /\ TypeOK' /\ OneCommitter' /\ CleanIsOnDisk' /\ ListedIsPinned'
      /\ PhaseInv' /\ CallInv' /\ DataInv'
  BY <1>2, <1>3, <1>4, <1>5, CallStep DEF BeginOp
<1>7. Single => phase = "none" /\ ~isfull
  BY <1>1, SoleCall DEF BeginOp
<1>8. phase' = phase /\ dirty' = dirty
  BY DEF BeginOp, logVars
<1>9. SoleAt(s)
  BY <1>3, <1>4, <1>7, <1>8 DEF SyncInv, SoleInv, SoleAt
<1>10. SoleInv'
  BY <1>2, <1>4, <1>7, <1>8, <1>9, SoleStep DEF BeginOp
<1> QED BY <1>6, <1>10 DEF SyncInv

(* end_op also moves the sleepers, which changes nothing else. *)
LEMMA EndOpInv ==
  ASSUME SyncInv, UNCHANGED users, NEW p \in users, EndOp(p)
  PROVE  SyncInv'
<1>1. p \in Proc /\ ~booting
  BY SyncAssumption DEF SyncInv, CallInv, EndOp, Up
<1>2. \A q \in Proc : \/ pc'[q] = pc[q]
                      \/ /\ pc[q] \in {"op", "sleep"} /\ pc'[q] \in {"idle", "begin"}
  BY DEF EndOp
<1>3. TypeOK'
  <2>1. pc' \in [Proc -> PcVals]
    BY DEF EndOp, SyncInv, TypeOK, PcVals
  <2> QED BY <2>1 DEF EndOp, SyncInv, TypeOK, diskVars, logVars, PcVals
<1>4. OneCommitter'
  <2>1. {q \in Proc : pc'[q] \in {"sync", "bget_sync"}} = {q \in Proc : pc[q] \in {"sync", "bget_sync"}}
    BY <1>2
  <2> QED BY <2>1 DEF SyncInv, OneCommitter, logVars, EndOp
<1>5. CleanIsOnDisk' /\ ListedIsPinned'
  BY DEF SyncInv, EndOp, CleanIsOnDisk, ListedIsPinned, diskVars, logVars
<1>6. PhaseInv'
  BY <1>1 DEF SyncInv, EndOp, PhaseInv, logVars
<1>7. CallInv'
  <2>1. \A q \in Proc : /\ pc'[q] \in InBget <=> pc[q] \in InBget
                        /\ pc[q] = "idle" => pc'[q] = "idle"
    BY <1>2 DEF InBget
  <2> QED BY <2>1 DEF SyncInv, EndOp, CallInv
<1>8. DataInv'
  BY DEF SyncInv, EndOp, DataInv, diskVars, logVars
<1>9. SoleInv'
  <2>1. \A q \in Proc : pc'[q] \in {"bsync", "bget_sync", "unfull", "find", "hold"} => pc'[q] = pc[q]
    BY <1>2
  <2>2. \A q \in Proc : pc[q] \in {"bsync", "bget_sync", "unfull"} => pc'[q] = pc[q]
    BY <1>2
  <2> QED BY <2>1, <2>2 DEF SyncInv, EndOp, SoleInv, Single, diskVars, logVars
<1> QED BY <1>3, <1>4, <1>5, <1>6, <1>7, <1>8, <1>9 DEF SyncInv

(* bget asks for one block; with one user it has found the cache not full  *)
(* or has decided to call sync.                                            *)
LEMMA BgetInv ==
  ASSUME SyncInv, UNCHANGED users, NEW p \in users, NEW b \in Block, Bget(p, b)
  PROVE  SyncInv'
<1>1. PICK s \in {"full", "find"} : /\ pc' = [pc EXCEPT ![p] = s]
                                    /\ s = "find" => isfull \/ ~buffer_isfull
  BY DEF Bget
<1>2. ~booting /\ isfull' = isfull /\ panicked' = panicked /\ phase' = phase /\ dirty' = dirty
  BY DEF Bget, Up, logVars
<1>3. /\ s \in PcVals /\ s \in InBget /\ s \notin {"sync", "bget_sync", "hold", "unfull"}
      /\ {b} \in SUBSET Block /\ \E c \in Block : {b} = {c}
  BY <1>1 DEF PcVals, InBget
<1>4. isfull' \in BOOLEAN /\ panicked' \in BOOLEAN
  BY <1>2 DEF SyncInv, TypeOK
<1>5. /\ TypeOK' /\ OneCommitter' /\ CleanIsOnDisk' /\ ListedIsPinned'
      /\ PhaseInv' /\ CallInv' /\ DataInv'
  BY <1>1, <1>3, <1>4, CallStep DEF Bget
<1>6. Single => phase = "none" /\ ~isfull
  BY <1>2, SoleCall DEF Bget
<1>7. s = "find" => isfull \/ Cardinality(dirty) < NBUF - 3
  BY <1>1, Finite DEF buffer_isfull, SyncInv, TypeOK
<1>8. SoleAt(s)
  BY <1>2, <1>3, <1>6, <1>7 DEF SyncInv, SoleInv, SoleAt
<1>9. SoleInv'
  BY <1>1, <1>2, <1>3, <1>6, <1>8, SoleStep DEF Bget
<1> QED BY <1>5, <1>9 DEF SyncInv

(* bget raises the flag just before it calls sync. *)
LEMMA SetFullInv ==
  ASSUME SyncInv, UNCHANGED users, NEW p \in users, SetFull(p)
  PROVE  SyncInv'
<1>1. /\ p \in Proc /\ ~booting /\ panicked' = panicked /\ phase' = phase /\ dirty' = dirty
      /\ pc' = [pc EXCEPT ![p] = "bsync"]
  BY SyncAssumption DEF SyncInv, CallInv, SetFull, Up, logVars
<1>2. want[p] \in SUBSET Block /\ \E b \in Block : want[p] = {b}
  BY <1>1 DEF SetFull, SyncInv, CallInv, InBget
<1>3. want' = [want EXCEPT ![p] = want[p]]
  BY <1>1 DEF SetFull, SyncInv, TypeOK
<1>4. isfull' \in BOOLEAN /\ panicked' \in BOOLEAN
  BY <1>1 DEF SetFull, SyncInv, TypeOK
<1>5. "bsync" \in PcVals /\ "bsync" \in InBget
  BY DEF PcVals, InBget
<1>6. /\ TypeOK' /\ OneCommitter' /\ CleanIsOnDisk' /\ ListedIsPinned'
      /\ PhaseInv' /\ CallInv' /\ DataInv'
  BY <1>1, <1>2, <1>3, <1>4, <1>5, CallStep DEF SetFull
<1>7. Single => phase = "none"
  BY <1>1, SoleCall DEF SetFull
<1>8. SoleAt("bsync")
  BY <1>1 DEF SyncInv, SoleInv, SoleAt
<1>9. SoleInv'
  BY <1>1, <1>5, <1>7, <1>8, SoleStep DEF SetFull
<1> QED BY <1>6, <1>9 DEF SyncInv

(* With one user nothing is dirty when bget's sync has returned. *)
LEMMA ClearFullInv ==
  ASSUME SyncInv, UNCHANGED users, NEW p \in users, ClearFull(p)
  PROVE  SyncInv'
<1>1. /\ p \in Proc /\ ~booting /\ panicked' = panicked /\ phase' = phase /\ dirty' = dirty
      /\ pc' = [pc EXCEPT ![p] = "find"] /\ isfull' = FALSE
  BY SyncAssumption DEF SyncInv, CallInv, ClearFull, Up, logVars
<1>2. want[p] \in SUBSET Block /\ \E b \in Block : want[p] = {b}
  BY <1>1 DEF ClearFull, SyncInv, CallInv, InBget
<1>3. want' = [want EXCEPT ![p] = want[p]]
  BY <1>1 DEF ClearFull, SyncInv, TypeOK
<1>4. isfull' \in BOOLEAN /\ panicked' \in BOOLEAN
  BY <1>1 DEF SyncInv, TypeOK
<1>5. "find" \in PcVals /\ "find" \in InBget
  BY DEF PcVals, InBget
<1>6. /\ TypeOK' /\ OneCommitter' /\ CleanIsOnDisk' /\ ListedIsPinned'
      /\ PhaseInv' /\ CallInv' /\ DataInv'
  BY <1>1, <1>2, <1>3, <1>4, <1>5, CallStep DEF ClearFull
<1>7. Single => phase = "none" /\ dirty = {} /\ ~panicked
  BY <1>1, SoleCall DEF ClearFull, SyncInv, SoleInv
<1>8. SoleAt("find")
  BY <1>1, <1>7, Finite DEF SoleAt
<1>9. SoleInv'
  BY <1>1, <1>5, <1>7, <1>8, SoleStep DEF ClearFull
<1> QED BY <1>6, <1>9 DEF SyncInv

(* bget finds a buffer: the only user holds none and leaves three of the   *)
(* cache's buffers clean.                                                  *)
LEMMA FindBufferInv ==
  ASSUME SyncInv, UNCHANGED users, NEW p \in users, FindBuffer(p)
  PROVE  SyncInv'
<1>1. /\ p \in Proc /\ ~booting /\ phase' = phase /\ dirty' = dirty /\ isfull' = isfull
      /\ pc[p] = "find"
  BY SyncAssumption DEF SyncInv, CallInv, FindBuffer, Up, logVars
<1>2. want[p] \in SUBSET Block /\ \E b \in Block : want[p] = {b}
  BY <1>1 DEF SyncInv, CallInv, InBget
<1>3. want' = [want EXCEPT ![p] = want[p]]
  BY <1>1 DEF FindBuffer, SyncInv, TypeOK
<1>4. isfull' \in BOOLEAN /\ panicked' \in BOOLEAN
  BY <1>1 DEF FindBuffer, SyncInv, TypeOK
<1>5. Single => phase = "none" /\ ~isfull
  BY <1>1, SoleCall
<1>6. Single => ~NoBuffers /\ ~panicked /\ Cardinality(dirty) < NBUF - 3
  <2> SUFFICES ASSUME Single PROVE ~NoBuffers /\ ~panicked /\ Cardinality(dirty) < NBUF - 3
    OBVIOUS
  <2>1. \A q \in Proc : pc[q] # "hold"
    BY <1>1, Sole DEF SyncInv
  <2>2. dirty \cup Held = dirty
    BY <2>1 DEF Held
  <2>3. Cardinality(dirty) < NBUF - 3 /\ ~panicked /\ Cardinality(dirty) \in Nat
    BY <1>1, Finite DEF SyncInv, SoleInv, TypeOK
  <2> QED BY <2>2, <2>3, Finite DEF NoBuffers
<1>7. PICK s \in {"find", "hold"} : pc' = [pc EXCEPT ![p] = s]
  <2>1. pc = [pc EXCEPT ![p] = "find"]
    BY <1>1 DEF SyncInv, TypeOK
  <2> QED BY <2>1 DEF FindBuffer
<1>8. s \in PcVals /\ s \in InBget /\ s \notin {"sync", "bget_sync"}
  BY DEF PcVals, InBget
<1>9. /\ TypeOK' /\ OneCommitter' /\ CleanIsOnDisk' /\ ListedIsPinned'
      /\ PhaseInv' /\ CallInv' /\ DataInv'
  BY <1>1, <1>2, <1>3, <1>4, <1>7, <1>8, CallStep DEF FindBuffer
<1>10. Single => ~panicked'
  BY <1>6 DEF FindBuffer
<1>11. SoleAt(s)
  BY <1>1, <1>5, <1>6, <1>8, <1>10, Finite DEF SoleAt, SyncInv, SoleInv
<1>12. SoleInv'
  BY <1>1, <1>5, <1>7, <1>8, <1>11, SoleStep DEF FindBuffer
<1> QED BY <1>9, <1>12 DEF SyncInv

(* brelse without a change. *)
LEMMA BrelseInv ==
  ASSUME SyncInv, UNCHANGED users, NEW p \in users, Brelse(p)
  PROVE  SyncInv'
<1>1. /\ p \in Proc /\ ~booting /\ phase' = phase /\ dirty' = dirty /\ isfull' = isfull
      /\ panicked' = panicked /\ pc' = [pc EXCEPT ![p] = "op"]
  BY SyncAssumption DEF SyncInv, CallInv, Brelse, Up, logVars
<1>2. isfull' \in BOOLEAN /\ panicked' \in BOOLEAN
  BY <1>1 DEF SyncInv, TypeOK
<1>3. "op" \in PcVals /\ "op" \notin InBget /\ {} \in SUBSET Block
  BY DEF PcVals, InBget
<1>4. /\ TypeOK' /\ OneCommitter' /\ CleanIsOnDisk' /\ ListedIsPinned'
      /\ PhaseInv' /\ CallInv' /\ DataInv'
  BY <1>1, <1>2, <1>3, CallStep DEF Brelse
<1>5. Single => phase = "none" /\ ~isfull
  BY <1>1, SoleCall DEF Brelse
<1>6. SoleAt("op")
  BY <1>1, <1>5 DEF SoleAt, SyncInv, SoleInv
<1>7. SoleInv'
  BY <1>1, <1>3, <1>5, <1>6, SoleStep DEF Brelse
<1> QED BY <1>4, <1>7 DEF SyncInv

(* A write makes at most one more block dirty, and one block was left. *)
LEMMA WriteInv ==
  ASSUME SyncInv, UNCHANGED users, NEW p \in users, NEW v \in Val, Write(p, v)
  PROVE  SyncInv'
<1>1. p \in Proc /\ ~booting /\ ~panicked /\ pc[p] = "hold"
  BY SyncAssumption DEF SyncInv, CallInv, Write, Up
<1>2. PICK b \in Block : want[p] = {b}
  BY <1>1 DEF SyncInv, CallInv, InBget
<1>3. /\ pc' = [pc EXCEPT ![p] = "op"] /\ want' = [want EXCEPT ![p] = {}]
      /\ dirty' = dirty \cup {b}
      /\ isfull' = isfull /\ panicked' = panicked /\ phase' = phase
  BY <1>2 DEF Write, Mark, logVars
<1>4. buf' \in [Block -> Val] /\ \A c \in Block \ {b} : buf'[c] = buf[c]
  BY <1>2 DEF Write, SyncInv, TypeOK
<1>5. TypeOK'
  <2>1. pc' \in [Proc -> PcVals] /\ want' \in [Proc -> SUBSET Block]
    BY <1>1, <1>3 DEF SyncInv, TypeOK, PcVals
  <2>2. dirty' \subseteq Block
    BY <1>3 DEF SyncInv, TypeOK
  <2> QED BY <1>4, <2>1, <2>2 DEF Write, SyncInv, TypeOK, PcVals, diskVars, logVars
<1>6. OneCommitter'
  <2>1. \A q \in Proc : pc'[q] \in {"sync", "bget_sync"} <=> pc[q] \in {"sync", "bget_sync"}
    BY <1>1, <1>3 DEF SyncInv, TypeOK
  <2>2. {q \in Proc : pc'[q] \in {"sync", "bget_sync"}} = {q \in Proc : pc[q] \in {"sync", "bget_sync"}}
    BY <2>1
  <2> QED BY <2>2 DEF SyncInv, OneCommitter, Write, logVars
<1>7. CleanIsOnDisk'
  BY <1>3, <1>4 DEF Write, SyncInv, CleanIsOnDisk, diskVars
<1>8. ListedIsPinned'
  BY <1>3 DEF Write, SyncInv, ListedIsPinned, logVars
<1>9. PhaseInv'
  BY <1>1 DEF Write, SyncInv, PhaseInv, logVars
<1>10. CallInv'
  BY <1>1, <1>3 DEF SyncInv, CallInv, TypeOK, InBget
<1>11. DataInv'
  BY <1>1 DEF Write, SyncInv, DataInv, diskVars, logVars
<1>12. Single => phase = "none" /\ ~isfull
  BY <1>1, SoleCall
<1>13. Single => Cardinality(dirty') <= NBUF - 3
  <2>1. dirty \in SUBSET Block
    BY DEF SyncInv, TypeOK
  <2>2. /\ Cardinality(dirty') = IF b \in dirty THEN Cardinality(dirty) ELSE Cardinality(dirty) + 1
        /\ Cardinality(dirty) \in Nat
    BY <1>3, <2>1, Finite, FS_AddElement
  <2>3. Single => Cardinality(dirty) < NBUF - 3
    BY <1>1 DEF SyncInv, SoleInv
  <2> QED BY <2>2, <2>3, Finite
<1>14. SoleAt("op")
  BY <1>1, <1>3, <1>12, <1>13 DEF SoleAt
<1>15. "op" \in PcVals
  BY DEF PcVals
<1>16. SoleInv'
  BY <1>3, <1>12, <1>14, <1>15, SoleStep DEF Write
<1> QED BY <1>5, <1>6, <1>7, <1>8, <1>9, <1>10, <1>11, <1>16 DEF SyncInv

(* sync starts a commit only when none runs; the only user is never        *)
(* refused.                                                                *)
LEMMA SyncStartInv ==
  ASSUME SyncInv, UNCHANGED users, NEW p \in users, Sync(p)
  PROVE  SyncInv'
<1>1. p \in Proc /\ ~booting /\ ~panicked /\ pc[p] \in {"idle", "bsync"}
  BY SyncAssumption DEF SyncInv, CallInv, Sync, Up
<1>2. CASE committing
  <2>1. /\ pc[p] = "bsync" /\ pc' = [pc EXCEPT ![p] = "unfull"]
        /\ UNCHANGED <<users, diskVars, buf, dirty, logVars, isfull, want, panicked>>
    BY <1>2 DEF Sync, Refuse, logVars
  <2>2. ~Single
    BY <1>1, <1>2, <2>1, SoleCall
  <2>3. want[p] \in SUBSET Block /\ \E b \in Block : want[p] = {b}
    BY <1>1, <2>1 DEF SyncInv, CallInv, InBget
  <2>4. want' = [want EXCEPT ![p] = want[p]]
    BY <1>1, <2>1 DEF SyncInv, TypeOK
  <2>5. isfull' \in BOOLEAN /\ panicked' \in BOOLEAN
    BY <2>1 DEF SyncInv, TypeOK
  <2>6. "unfull" \in PcVals /\ "unfull" \in InBget
    BY DEF PcVals, InBget
  <2>7. /\ TypeOK' /\ OneCommitter' /\ CleanIsOnDisk' /\ ListedIsPinned'
        /\ PhaseInv' /\ CallInv' /\ DataInv'
    BY <2>1, <2>3, <2>4, <2>5, <2>6, CallStep DEF Sync
  <2>8. SoleInv'
    BY <2>2 DEF SoleInv, Single
  <2> QED BY <2>7, <2>8 DEF SyncInv
<1>3. CASE ~committing
  <2>1. PICK s \in {"sync", "bget_sync"} : /\ pc' = [pc EXCEPT ![p] = s]
                                           /\ s = "sync" <=> pc[p] = "idle"
    BY <1>1, <1>3 DEF Sync, Refuse
  <2>2. /\ committing' = TRUE /\ phase' = "log_dirty"
        /\ UNCHANGED <<users, diskVars, buf, dirty, isfull, lh, booting, tail, want, panicked>>
    BY <1>3 DEF Sync, Refuse
  <2>3. phase = "none"
    BY <1>1, <1>3 DEF SyncInv, PhaseInv
  <2>4. pc'[p] = s /\ \A q \in Proc : q # p => pc'[q] = pc[q]
    BY <1>1, <2>1 DEF SyncInv, TypeOK
  <2>5. TypeOK'
    <3>1. pc' \in [Proc -> PcVals] /\ phase' \in Phases /\ committing' \in BOOLEAN
      BY <1>1, <2>1, <2>2 DEF SyncInv, TypeOK, PcVals, Phases
    <3> QED BY <2>2, <3>1 DEF SyncInv, TypeOK, PcVals, diskVars
  <2>6. OneCommitter'
    <3>1. \A q \in Proc : pc'[q] \in {"sync", "bget_sync"} <=> q = p
      BY <1>3, <2>1, <2>4, Committers DEF SyncInv
    <3>2. {q \in Proc : pc'[q] \in {"sync", "bget_sync"}} = {p}
      BY <1>1, <3>1
    <3>3. Cardinality({p}) = 1
      BY FS_Singleton
    <3> QED BY <2>2, <3>2, <3>3 DEF OneCommitter
  <2>7. CleanIsOnDisk' /\ ListedIsPinned'
    BY <2>2 DEF SyncInv, CleanIsOnDisk, ListedIsPinned, diskVars
  <2>8. PhaseInv'
    BY <1>1, <2>2 DEF PhaseInv
  <2>9. CallInv'
    <3>1. pc'[p] \in InBget <=> pc[p] \in InBget
      BY <1>1, <2>1, <2>4 DEF InBget
    <3> QED BY <1>1, <2>2, <2>4, <3>1 DEF SyncInv, CallInv
  <2>10. DataInv'
    BY <2>2, <2>3 DEF SyncInv, DataInv, diskVars
  <2>11. SoleInv'
    <3> SUFFICES ASSUME Single PROVE SoleInv'
      BY DEF SoleInv, Single
    <3>1. \A q \in Proc : pc[q] # "idle" => q = p
      BY Sole DEF SyncInv
    <3>2. isfull => pc[p] = "bsync"
      BY <1>1, SoleCall
    <3>3. isfull' => pc'[p] = "bget_sync"
      BY <2>1, <2>2, <2>4, <3>2
    <3>4. \A q \in Proc : pc'[q] \notin {"find", "hold", "unfull"}
      BY <2>1, <2>4, <3>1
    <3> QED BY <1>1, <2>2, <3>3, <3>4 DEF SyncInv, SoleInv, Single
  <2> QED BY <2>5, <2>6, <2>7, <2>8, <2>9, <2>10, <2>11 DEF SyncInv
<1> QED BY <1>2, <1>3

(* sync returns: nothing is dirty that the only user wrote before. *)
LEMMA SyncDoneInv ==
  ASSUME SyncInv, UNCHANGED users, NEW p \in users, SyncDone(p)
  PROVE  SyncInv'
<1>1. p \in Proc /\ ~panicked /\ phase = "done" /\ pc[p] \in {"sync", "bget_sync"}
  BY SyncAssumption DEF SyncInv, CallInv, SyncDone
<1>2. PICK s \in {"idle", "unfull"} : /\ pc' = [pc EXCEPT ![p] = s]
                                      /\ s = "idle" <=> pc[p] = "sync"
  BY <1>1 DEF SyncDone
<1>3. /\ committing' = FALSE /\ phase' = "none"
      /\ UNCHANGED <<users, diskVars, buf, dirty, isfull, lh, booting, tail, want, panicked>>
  BY DEF SyncDone
<1>4. pc'[p] = s /\ \A q \in Proc : q # p => pc'[q] = pc[q]
  BY <1>1, <1>2 DEF SyncInv, TypeOK
<1>5. ~booting
  BY <1>1 DEF SyncInv, PhaseInv
<1>6. TypeOK'
  <2>1. pc' \in [Proc -> PcVals] /\ phase' \in Phases /\ committing' \in BOOLEAN
    BY <1>1, <1>2, <1>3 DEF SyncInv, TypeOK, PcVals, Phases
  <2> QED BY <1>3, <2>1 DEF SyncInv, TypeOK, PcVals, diskVars
<1>7. OneCommitter'
  <2>1. {q \in Proc : pc'[q] \in {"sync", "bget_sync"}} = {}
    BY <1>1, <1>4, Committers DEF SyncInv
  <2> QED BY <1>3, <2>1, Finite DEF OneCommitter
<1>8. CleanIsOnDisk' /\ ListedIsPinned'
  BY <1>3 DEF SyncInv, CleanIsOnDisk, ListedIsPinned, diskVars
<1>9. PhaseInv'
  BY <1>3, <1>5 DEF PhaseInv
<1>10. CallInv'
  <2>1. pc'[p] \in InBget <=> pc[p] \in InBget
    BY <1>1, <1>2, <1>4 DEF InBget
  <2> QED BY <1>1, <1>3, <1>4, <2>1 DEF SyncInv, CallInv
<1>11. DataInv'
  BY <1>1, <1>3 DEF SyncInv, DataInv, diskVars
<1>12. SoleInv'
  <2> SUFFICES ASSUME Single PROVE SoleInv'
    BY DEF SoleInv, Single
  <2>1. \A q \in Proc : pc[q] # "idle" => q = p
    BY Sole DEF SyncInv
  <2>2. isfull => pc[p] = "bget_sync"
    BY <1>1, <2>1 DEF SyncInv, SoleInv
  <2>3. isfull' => pc'[p] = "unfull"
    BY <1>2, <1>3, <1>4, <2>2
  <2>4. \A q \in Proc : pc'[q] \notin {"find", "hold"}
    BY <1>4, <2>1
  <2>5. dirty = {}
    BY <1>1 DEF SyncInv, SoleInv
  <2> QED BY <1>1, <1>3, <2>3, <2>4, <2>5 DEF SyncInv, SoleInv, Single
<1> QED BY <1>6, <1>7, <1>8, <1>9, <1>10, <1>11, <1>12 DEF SyncInv

(* The steps of a commit and of a recovery move no process. *)
LEMMA NoCallStep ==
  ASSUME SyncInv, UNCHANGED <<users, committing, pc, want>>
  PROVE  OneCommitter' /\ CallInv'
BY DEF SyncInv, OneCommitter, CallInv

(* A commit is entered by sync: committing is set and, of one user, no     *)
(* panic is possible.                                                      *)
LEMMA InCommit ==
  ASSUME SyncInv, phase \notin {"none", "read_head"}, ~booting
  PROVE  committing /\ (Single => ~NoBuffers)
BY BuffersLeft DEF SyncInv, PhaseInv

(* logDirtyBuffer: the list names every dirty block once. *)
LEMMA LogDirtyInv ==
  ASSUME SyncInv, UNCHANGED users, ~panicked, LogDirty
  PROVE  SyncInv'
<1>1. /\ phase = "log_dirty" /\ tail' = 1 /\ ~booting /\ hdr = <<>>
      /\ UNCHANGED <<diskVars, buf, dirty, isfull, committing, booting, pc, want>>
  BY DEF LogDirty, SyncInv, PhaseInv, DataInv
<1>2. OneCommitter' /\ CallInv'
  BY <1>1, NoCallStep
<1>3. CleanIsOnDisk'
  BY <1>1 DEF SyncInv, CleanIsOnDisk, diskVars
<1>4. 1 \in 1..LOGSIZE + 1
  BY SyncAssumption
<1>5. dirty \in SUBSET Block /\ Cardinality(dirty) \in Nat
  BY Finite DEF SyncInv, TypeOK
<1>6. CASE ~Room
  <2>1. panicked' = TRUE /\ UNCHANGED <<lh, phase>>
    BY <1>6 DEF LogDirty
  <2>2. ~Single
    BY <1>5, <1>6, Finite, SizesAssumption, SyncAssumption DEF Room, SyncInv, SoleInv
  <2>3. TypeOK'
    BY <1>1, <1>4, <2>1 DEF SyncInv, TypeOK, diskVars
  <2>4. ListedIsPinned' /\ PhaseInv' /\ DataInv'
    BY <1>1, <2>1 DEF SyncInv, ListedIsPinned, PhaseInv, DataInv, diskVars
  <2>5. SoleInv'
    BY <2>2 DEF SoleInv, Single
  <2> QED BY <1>2, <1>3, <2>3, <2>4, <2>5 DEF SyncInv
<1>7. CASE Room
  <2>1. /\ panicked' = panicked /\ lh' \in SetToSeqs(dirty)
        /\ phase' = IF dirty = {} THEN "done" ELSE "write_log"
    BY <1>7 DEF LogDirty
  <2>2. /\ lh' \in Seq(Block) /\ Len(lh') = Cardinality(dirty) /\ Len(lh') \in Nat
        /\ IsInjective(lh') /\ ToSet(lh') = dirty /\ (dirty # {} => Len(lh') >= 1)
    BY <1>5, <2>1, Listing
  <2>3. TypeOK'
    <3>1. Len(lh') <= LOGSIZE /\ phase' \in Phases
      BY <1>7, <2>1, <2>2 DEF Room, Phases
    <3> QED BY <1>1, <1>4, <2>1, <2>2, <3>1 DEF SyncInv, TypeOK, diskVars
  <2>4. ListedIsPinned'
    BY <1>1, <2>1, <2>2 DEF ListedIsPinned
  <2>5. PhaseInv'
    BY <1>1, <2>1, <2>2 DEF SyncInv, PhaseInv
  <2>6. DataInv'
    BY <1>1, <2>1, <2>2 DEF SyncInv, DataInv, diskVars
  <2>7. SoleInv'
    BY <1>1, <2>1, <2>2 DEF SyncInv, SoleInv, Single
  <2> QED BY <1>2, <1>3, <2>3, <2>4, <2>5, <2>6, <2>7 DEF SyncInv
<1> QED BY <1>6, <1>7

(* What write_log and install_trans find at tail. *)
LEMMA AtTail ==
  ASSUME SyncInv, phase \in {"write_log", "install_trans"}
  PROVE  /\ Len(lh) \in Nat /\ Len(lh) <= LOGSIZE /\ tail \in 1..Len(lh) /\ tail \in 1..LOGSIZE
         /\ tail + 1 \in 1..LOGSIZE + 1
         /\ lh[tail] \in Block /\ logblk[tail] \in Val /\ buf[lh[tail]] \in Val
         /\ \A j \in 1..Len(lh) : lh[j] \in Block /\ (lh[j] = lh[tail] => j = tail)
<1>1. Len(lh) \in Nat /\ Len(lh) <= LOGSIZE /\ tail \in 1..Len(lh) /\ LOGSIZE \in Nat
  BY SyncAssumption DEF SyncInv, TypeOK, PhaseInv
<1>2. \A j \in 1..Len(lh) : lh[j] \in Block
  BY DEF SyncInv, TypeOK
<1>3. \A i, j \in 1..Len(lh) : lh[i] = lh[j] => i = j
  BY DEF SyncInv, TypeOK, DataInv, IsInjective
<1>4. tail \in 1..LOGSIZE /\ tail + 1 \in 1..LOGSIZE + 1
  BY <1>1
<1> QED BY <1>1, <1>2, <1>3, <1>4 DEF SyncInv, TypeOK

(* write_log copies the buffer; of one user no buffer changes until the    *)
(* commit ends.                                                            *)
LEMMA WriteLogInv ==
  ASSUME SyncInv, UNCHANGED users, ~panicked, WriteLog
  PROVE  SyncInv'
<1>1. /\ phase = "write_log" /\ ~booting /\ hdr = <<>>
      /\ UNCHANGED <<disk, hdr, buf, dirty, isfull, lh, committing, booting, pc, want>>
  BY DEF WriteLog, SyncInv, PhaseInv, DataInv
<1>2. OneCommitter' /\ CallInv'
  BY <1>1, NoCallStep
<1>3. CleanIsOnDisk'
  BY <1>1 DEF SyncInv, CleanIsOnDisk
<1>4. Single => ~NoBuffers
  BY <1>1, InCommit
<1>5. CASE NoBuffers
  <2>1. panicked' = TRUE /\ UNCHANGED <<logblk, tail, phase>>
    BY <1>5 DEF WriteLog
  <2>2. TypeOK'
    BY <1>1, <2>1 DEF SyncInv, TypeOK
  <2>3. ListedIsPinned' /\ PhaseInv' /\ DataInv'
    BY <1>1, <2>1 DEF SyncInv, ListedIsPinned, PhaseInv, DataInv
  <2>4. SoleInv'
    BY <1>4, <1>5 DEF SoleInv, Single
  <2> QED BY <1>2, <1>3, <2>2, <2>3, <2>4 DEF SyncInv
<1>6. CASE ~NoBuffers
  <2>1. /\ logblk' = [logblk EXCEPT ![tail] = buf[lh[tail]]] /\ tail' = tail + 1
        /\ panicked' = panicked /\ phase' = IF tail = Len(lh) THEN "write_head" ELSE phase
    BY <1>6 DEF WriteLog, LoopEnds
  <2>2. /\ Len(lh) \in Nat /\ Len(lh) <= LOGSIZE /\ tail \in 1..Len(lh) /\ tail \in 1..LOGSIZE
        /\ tail + 1 \in 1..LOGSIZE + 1 /\ lh[tail] \in Block /\ buf[lh[tail]] \in Val
    BY <1>1, AtTail
  <2>3. TypeOK'
    <3>1. logblk' \in [1..LOGSIZE -> Val] /\ phase' \in Phases
      BY <1>1, <2>1, <2>2 DEF SyncInv, TypeOK, Phases
    <3> QED BY <1>1, <2>1, <2>2, <3>1 DEF SyncInv, TypeOK
  <2>4. ListedIsPinned'
    BY <1>1, <2>1 DEF SyncInv, ListedIsPinned
  <2>5. PhaseInv'
    BY <1>1, <2>1, <2>2 DEF SyncInv, PhaseInv
  <2>6. DataInv'
    BY <1>1, <2>1 DEF SyncInv, DataInv
  <2>7. SoleInv'
    <3>1. logblk'[tail] = buf[lh[tail]] /\ \A j \in 1..tail - 1 : logblk'[j] = logblk[j]
      BY <2>1, <2>2 DEF SyncInv, TypeOK
    <3>2. \A j \in 1..tail : j = tail \/ j \in 1..tail - 1
      BY <2>2
    <3>3. Single => \A j \in 1..tail : logblk'[j] = buf[lh[j]]
      BY <1>1, <3>1, <3>2 DEF SyncInv, SoleInv
    <3>4. tail' - 1 = tail
      BY <2>1, <2>2
    <3> QED BY <1>1, <2>1, <3>3, <3>4 DEF SyncInv, SoleInv, Single
  <2> QED BY <1>2, <1>3, <2>3, <2>4, <2>5, <2>6, <2>7 DEF SyncInv
<1> QED BY <1>5, <1>6

(* The commit point: the header lists what write_log has copied. *)
LEMMA WriteHeadInv ==
  ASSUME SyncInv, UNCHANGED users, ~panicked, WriteHead
  PROVE  SyncInv'
<1>1. /\ phase = "write_head" /\ ~booting /\ hdr = <<>> /\ tail' = 1 /\ lh # <<>>
      /\ UNCHANGED <<disk, logblk, buf, dirty, isfull, lh, committing, booting, pc, want>>
  BY DEF WriteHead, SyncInv, PhaseInv, DataInv
<1>2. OneCommitter' /\ CallInv'
  BY <1>1, NoCallStep
<1>3. CleanIsOnDisk'
  BY <1>1 DEF SyncInv, CleanIsOnDisk
<1>4. Single => ~NoBuffers
  BY <1>1, InCommit
<1>5. 1 \in 1..LOGSIZE + 1
  BY SyncAssumption
<1>6. Len(lh) \in Nat /\ Len(lh) >= 1
  BY <1>1 DEF SyncInv, TypeOK
<1>7. CASE NoBuffers
  <2>1. panicked' = TRUE /\ UNCHANGED <<hdr, phase>>
    BY <1>7 DEF WriteHead
  <2>2. TypeOK'
    BY <1>1, <1>5, <2>1 DEF SyncInv, TypeOK
  <2>3. ListedIsPinned' /\ PhaseInv' /\ DataInv'
    BY <1>1, <2>1 DEF SyncInv, ListedIsPinned, PhaseInv, DataInv
  <2>4. SoleInv'
    BY <1>4, <1>7 DEF SoleInv, Single
  <2> QED BY <1>2, <1>3, <2>2, <2>3, <2>4 DEF SyncInv
<1>8. CASE ~NoBuffers
  <2>1. hdr' = lh /\ phase' = "install_trans" /\ panicked' = panicked
    BY <1>8 DEF WriteHead
  <2>2. TypeOK'
    <3>1. phase' \in Phases
      BY <2>1 DEF Phases
    <3> QED BY <1>1, <1>5, <2>1, <3>1 DEF SyncInv, TypeOK
  <2>3. /\ ToSet(lh) = {lh[j] : j \in 1..Len(lh)}
        /\ \A j \in 1..Len(lh) : lh[j] \in ToSet(lh)
    BY DEF ToSet, SyncInv, TypeOK
  <2>4. ListedIsPinned'
    BY <1>1, <2>1, <2>3 DEF SyncInv, ListedIsPinned
  <2>5. PhaseInv'
    BY <1>1, <1>6, <2>1 DEF SyncInv, PhaseInv
  <2>6. DataInv'
    BY <1>1, <2>1 DEF SyncInv, DataInv
  <2>7. SoleInv'
    BY <1>1, <2>1, <2>3 DEF SyncInv, SoleInv, Single
  <2> QED BY <1>2, <1>3, <2>2, <2>4, <2>5, <2>6, <2>7 DEF SyncInv
<1> QED BY <1>7, <1>8

(* install_trans writes what the log holds; of one user the buffer holds   *)
(* that already.                                                           *)
LEMMA InstallTransInv ==
  ASSUME SyncInv, UNCHANGED users, ~panicked, InstallTrans
  PROVE  SyncInv'
<1>1. /\ phase = "install_trans" /\ hdr = lh
      /\ UNCHANGED <<logblk, hdr, isfull, lh, committing, booting, pc, want>>
  BY DEF InstallTrans, SyncInv, DataInv
<1>2. OneCommitter' /\ CallInv'
  BY <1>1, NoCallStep
<1>3. Single \/ booting => ~NoBuffers
  BY <1>1, InCommit, BuffersLeft
<1>4. CASE NoBuffers
  <2>1. panicked' = TRUE /\ UNCHANGED <<disk, buf, dirty, tail, phase>>
    BY <1>4 DEF InstallTrans
  <2>2. TypeOK'
    BY <1>1, <2>1 DEF SyncInv, TypeOK
  <2>3. CleanIsOnDisk' /\ ListedIsPinned' /\ PhaseInv' /\ DataInv'
    BY <1>1, <2>1 DEF SyncInv, CleanIsOnDisk, ListedIsPinned, PhaseInv, DataInv
  <2>4. SoleInv'
    BY <1>3, <1>4 DEF SoleInv, Single
  <2> QED BY <1>2, <2>2, <2>3, <2>4 DEF SyncInv
<1>5. CASE ~NoBuffers
  <2>1. /\ disk' = [disk EXCEPT ![lh[tail]] = logblk[tail]]
        /\ buf' = [buf EXCEPT ![lh[tail]] = logblk[tail]]
        /\ dirty' = dirty \ {lh[tail]} /\ tail' = tail + 1 /\ panicked' = panicked
        /\ phase' = IF tail = Len(lh) THEN "erase" ELSE phase
    BY <1>5 DEF InstallTrans, LoopEnds, Unmark
  <2>2. /\ Len(lh) \in Nat /\ Len(lh) <= LOGSIZE /\ tail \in 1..Len(lh) /\ tail \in 1..LOGSIZE
        /\ tail + 1 \in 1..LOGSIZE + 1 /\ lh[tail] \in Block /\ logblk[tail] \in Val
    BY <1>1, AtTail
  <2>3. \A j \in 1..Len(lh) : lh[j] \in Block /\ (lh[j] = lh[tail] => j = tail)
    BY <1>1, AtTail
  <2>4. TypeOK'
    <3>1. disk' \in [Block -> Val] /\ buf' \in [Block -> Val] /\ dirty' \subseteq Block
      BY <2>1, <2>2 DEF SyncInv, TypeOK
    <3>2. phase' \in Phases
      BY <1>1, <2>1 DEF Phases
    <3> QED BY <1>1, <2>1, <2>2, <3>1, <3>2 DEF SyncInv, TypeOK
  <2>5. /\ disk'[lh[tail]] = logblk[tail] /\ buf'[lh[tail]] = logblk[tail]
        /\ \A b \in Block : b # lh[tail] => disk'[b] = disk[b] /\ buf'[b] = buf[b]
    BY <2>1, <2>2 DEF SyncInv, TypeOK
  <2>6. CleanIsOnDisk'
    BY <2>1, <2>5 DEF SyncInv, CleanIsOnDisk
  <2>7. ListedIsPinned'
    <3>1. \A j \in tail + 1..Len(lh) : lh[j] # lh[tail] /\ j \in tail..Len(lh)
      BY <2>2, <2>3
    <3> QED BY <1>1, <2>1, <3>1 DEF SyncInv, ListedIsPinned
  <2>8. PhaseInv'
    <3>1. booting => dirty' = {} /\ phase' \in {"install_trans", "erase"}
      BY <1>1, <2>1 DEF SyncInv, PhaseInv
    <3> QED BY <1>1, <2>1, <2>2, <3>1 DEF SyncInv, PhaseInv
  <2>9. DataInv'
    <3>1. \A j \in 1..tail : j = tail \/ (j \in 1..tail - 1 /\ j \in 1..Len(lh) /\ lh[j] # lh[tail])
      BY <2>2, <2>3
    <3>2. \A j \in 1..tail : disk'[lh[j]] = logblk[j]
      BY <1>1, <2>3, <2>5, <3>1 DEF SyncInv, DataInv
    <3>3. tail' - 1 = tail
      BY <2>1, <2>2
    <3> QED BY <1>1, <2>1, <3>2, <3>3 DEF SyncInv, DataInv
  <2>10. SoleInv'
    <3> SUFFICES ASSUME Single PROVE SoleInv'
      BY DEF SoleInv, Single
    <3>1. dirty \in SUBSET Block /\ dirty' \in SUBSET dirty
      BY <2>1 DEF SyncInv, TypeOK
    <3>2. Cardinality(dirty') <= Cardinality(dirty) /\ Cardinality(dirty') \in Nat
      BY <3>1, Finite, FS_Subset
    <3>3. /\ ~panicked' /\ Cardinality(dirty') <= NBUF - 3
          /\ isfull' => \E p \in Proc : pc'[p] \in {"bsync", "bget_sync", "unfull"}
          /\ \A p \in Proc : /\ pc'[p] \in {"find", "hold"} => Cardinality(dirty') < NBUF - 3
                             /\ pc'[p] = "unfull" => dirty' = {}
      <4>1. Cardinality(dirty) \in Nat /\ NBUF \in Nat
        BY <3>1, Finite
      <4>2. /\ ~panicked /\ Cardinality(dirty) <= NBUF - 3
            /\ isfull => \E p \in Proc : pc[p] \in {"bsync", "bget_sync", "unfull"}
            /\ \A p \in Proc : /\ pc[p] \in {"find", "hold"} => Cardinality(dirty) < NBUF - 3
                               /\ pc[p] = "unfull" => dirty = {}
        BY DEF SyncInv, SoleInv
      <4>3. dirty = {} => dirty' = {}
        BY <3>1
      <4>4. Cardinality(dirty') <= NBUF - 3 /\ (Cardinality(dirty) < NBUF - 3 => Cardinality(dirty') < NBUF - 3)
        BY <3>2, <4>1, <4>2
      <4>5. isfull' = isfull /\ pc' = pc /\ panicked' = panicked
        BY <1>1, <2>1
      <4> QED BY <4>2, <4>3, <4>4, <4>5
    <3>4. CASE booting
      <4>1. dirty' = {} /\ booting' /\ phase' \in {"install_trans", "erase"}
        BY <1>1, <2>1, <3>4 DEF SyncInv, PhaseInv
      <4> QED BY <3>3, <4>1 DEF SoleInv
    <3>5. CASE ~booting
      <4>1. /\ \A j \in 1..Len(lh) : logblk[j] = buf[lh[j]]
            /\ dirty = {lh[j] : j \in tail..Len(lh)}
        BY <1>1, <3>5 DEF SyncInv, SoleInv
      <4>2. buf' = buf
        BY <2>1, <2>2, <4>1 DEF SyncInv, TypeOK
      <4>3. dirty' = {lh[j] : j \in tail + 1..Len(lh)}
        <5>1. \A j \in tail..Len(lh) : lh[j] # lh[tail] <=> j \in tail + 1..Len(lh)
          BY <2>2, <2>3
        <5>2. \A j \in tail + 1..Len(lh) : j \in tail..Len(lh)
          BY <2>2
        <5> QED BY <2>1, <4>1, <5>1, <5>2
      <4>4. tail = Len(lh) => dirty' = {}
        BY <2>2, <4>3
      <4>5. phase' \in {"install_trans", "erase"} /\ (phase' = "erase" => dirty' = {})
        BY <1>1, <2>1, <4>4
      <4>6. /\ \A j \in 1..Len(lh') : logblk'[j] = buf'[lh'[j]]
            /\ dirty' = {lh'[j] : j \in tail'..Len(lh')}
        <5>1. lh' = lh /\ logblk' = logblk /\ tail' = tail + 1
          BY <1>1, <2>1
        <5> QED BY <4>1, <4>2, <4>3, <5>1, Zenon
      <4>7. phase' \notin {"write_log", "write_head", "done"}
        BY <4>5
      <4> QED BY <3>3, <4>5, <4>6, <4>7, Zenon DEF SoleInv
    <3> QED BY <3>4, <3>5
  <2> QED BY <1>2, <2>4, <2>6, <2>7, <2>8, <2>9, <2>10 DEF SyncInv
<1> QED BY <1>4, <1>5

(* The header is erased when every listed block is at home. *)
LEMMA EraseInv ==
  ASSUME SyncInv, UNCHANGED users, ~panicked, Erase
  PROVE  SyncInv'
<1>1. /\ phase = "erase" /\ hdr = lh /\ lh' = <<>> /\ tail' = 1
      /\ UNCHANGED <<disk, logblk, buf, dirty, isfull, committing, pc, want>>
  BY DEF Erase, SyncInv, DataInv
<1>2. OneCommitter' /\ CallInv'
  BY <1>1, NoCallStep
<1>3. CleanIsOnDisk'
  BY <1>1 DEF SyncInv, CleanIsOnDisk
<1>4. Single \/ booting => ~NoBuffers
  BY <1>1, InCommit, BuffersLeft
<1>5. 1 \in 1..LOGSIZE + 1 /\ Len(<<>>) <= LOGSIZE /\ <<>> \in Seq(Block) /\ IsInjective(<<>>)
  BY SyncAssumption DEF IsInjective
<1>6. CASE NoBuffers
  <2>1. panicked' = TRUE /\ UNCHANGED <<hdr, booting, phase>>
    BY <1>6 DEF Erase
  <2>2. TypeOK'
    BY <1>1, <1>5, <2>1 DEF SyncInv, TypeOK
  <2>3. ListedIsPinned' /\ PhaseInv' /\ DataInv'
    BY <1>1, <1>5, <2>1 DEF SyncInv, ListedIsPinned, PhaseInv, DataInv
  <2>4. SoleInv'
    BY <1>4, <1>6 DEF SoleInv, Single
  <2> QED BY <1>2, <1>3, <2>2, <2>3, <2>4 DEF SyncInv
<1>7. CASE ~NoBuffers
  <2>1. /\ hdr' = <<>> /\ booting' = FALSE /\ panicked' = panicked
        /\ phase' = IF booting THEN "none" ELSE "done"
    BY <1>7 DEF Erase
  <2>2. TypeOK'
    <3>1. phase' \in Phases /\ booting' \in BOOLEAN
      BY <2>1 DEF Phases
    <3> QED BY <1>1, <1>5, <2>1, <3>1 DEF SyncInv, TypeOK
  <2>3. ListedIsPinned' /\ DataInv'
    BY <1>1, <1>5, <2>1 DEF ListedIsPinned, DataInv
  <2>4. PhaseInv'
    BY <1>1, <2>1 DEF SyncInv, PhaseInv
  <2>5. SoleInv'
    BY <1>1, <2>1 DEF SyncInv, SoleInv, Single
  <2> QED BY <1>2, <1>3, <2>2, <2>3, <2>4, <2>5 DEF SyncInv
<1> QED BY <1>6, <1>7

(* Recovery takes up the install loop of the commit that was cut short. *)
LEMMA ReadHeadInv ==
  ASSUME SyncInv, UNCHANGED users, ReadHead
  PROVE  SyncInv'
<1>1. /\ phase = "read_head" /\ booting /\ lh' = hdr /\ tail' = 1
      /\ phase' = IF hdr = <<>> THEN "erase" ELSE "install_trans"
      /\ UNCHANGED <<diskVars, buf, dirty, isfull, committing, booting, pc, want, panicked>>
  BY DEF ReadHead, SyncInv, PhaseInv
<1>2. OneCommitter' /\ CallInv'
  BY <1>1, NoCallStep
<1>3. CleanIsOnDisk' /\ ListedIsPinned'
  BY <1>1 DEF SyncInv, CleanIsOnDisk, ListedIsPinned, diskVars
<1>4. 1 \in 1..LOGSIZE + 1 /\ phase' \in Phases
  BY <1>1, SyncAssumption DEF Phases
<1>5. Len(hdr) \in Nat /\ (hdr = <<>> <=> Len(hdr) = 0)
  BY DEF SyncInv, TypeOK
<1>6. TypeOK'
  BY <1>1, <1>4 DEF SyncInv, TypeOK, diskVars
<1>7. PhaseInv'
  BY <1>1, <1>5 DEF SyncInv, PhaseInv
<1>8. DataInv'
  BY <1>1, <1>5 DEF SyncInv, DataInv, diskVars
<1>9. SoleInv'
  BY <1>1 DEF SyncInv, PhaseInv, SoleInv, Single
<1> QED BY <1>2, <1>3, <1>6, <1>7, <1>8, <1>9 DEF SyncInv

(* A crash at any step leaves a header whose blocks recovery can install. *)
LEMMA CrashInv ==
  ASSUME SyncInv, UNCHANGED users, Crash
  PROVE  SyncInv'
<1>1. TypeOK'
  <2>1. /\ buf' \in [Block -> Val] /\ dirty' \subseteq Block /\ phase' \in Phases
        /\ want' \in [Proc -> SUBSET Block]
    BY DEF Crash, SyncInv, TypeOK, Phases
  <2>2. lh' \in Seq(Block) /\ Len(lh') <= LOGSIZE /\ tail' \in 1..LOGSIZE + 1
    BY SyncAssumption DEF Crash
  <2>3. /\ isfull' \in BOOLEAN /\ committing' \in BOOLEAN /\ booting' \in BOOLEAN
        /\ panicked' \in BOOLEAN
    BY DEF Crash
  <2>4. pc' \in [Proc -> PcVals]
    BY DEF Crash, PcVals
  <2> QED BY <2>1, <2>2, <2>3, <2>4 DEF Crash, SyncInv, TypeOK, PcVals, diskVars
<1>2. OneCommitter'
  <2>1. {q \in Proc : pc'[q] \in {"sync", "bget_sync"}} = {}
    BY DEF Crash
  <2>2. committing' = FALSE
    BY DEF Crash
  <2> QED BY <2>1, <2>2, Finite DEF OneCommitter
<1>3. CleanIsOnDisk' /\ ListedIsPinned'
  BY DEF Crash, CleanIsOnDisk, ListedIsPinned, diskVars
<1>4. PhaseInv'
  BY DEF Crash, PhaseInv
<1>5. CallInv'
  BY DEF Crash, SyncInv, CallInv, InBget
<1>6. DataInv'
  BY DEF Crash, SyncInv, DataInv, IsInjective, diskVars
<1>7. SoleInv'
  BY Finite DEF Crash, SoleInv
<1> QED BY <1>1, <1>2, <1>3, <1>4, <1>5, <1>6, <1>7 DEF SyncInv

(* Every step keeps the invariant. *)
LEMMA StepInv == SyncInv /\ [Next]_vars => SyncInv'
<1> SUFFICES ASSUME SyncInv, [Next]_vars PROVE SyncInv'
  OBVIOUS
<1>1. ASSUME UNCHANGED users, NEW p \in users, Call(p) PROVE SyncInv'
  BY <1>1, BeginOpInv, EndOpInv, SetFullInv, ClearFullInv, FindBufferInv, BrelseInv,
     SyncStartInv, SyncDoneInv, BgetInv, WriteInv DEF Call
<1>2. ASSUME UNCHANGED users, Commit PROVE SyncInv'
  BY <1>2, LogDirtyInv, WriteLogInv, WriteHeadInv, InstallTransInv, EraseInv DEF Commit
<1>3. CASE UNCHANGED vars
  BY <1>3 DEF vars, SyncInv, TypeOK, OneCommitter, CleanIsOnDisk, ListedIsPinned, PhaseInv,
              CallInv, DataInv, SoleInv, Single
<1> QED BY <1>1, <1>2, <1>3, ReadHeadInv, CrashInv DEF Next

(* Theorem: SyncInv holds always, for any number of processes, blocks and  *)
(* buffers, wherever power fails: at most one commit runs at a time, a     *)
(* clean buffer equals its home block, a block that sync has listed stays  *)
(* dirty until it is at home, and the log holds what its header promises.  *)
THEOREM Invariance == Spec => []SyncInv
BY InitInv, StepInv, PTL DEF Spec

(* Theorem: with one process in the file system, neither bget nor          *)
(* log_write ever panics: bget calls sync while buffers are left, and all  *)
(* that is dirty then fits into the log.                                   *)
THEOREM SoleUserNeverPanics == Spec => []NoPanic
<1>1. SyncInv => NoPanic
  BY DEF SyncInv, SoleInv, NoPanic
<1> QED BY <1>1, Invariance, PTL

(* What recovery restores: the logged copy of a block the header lists,    *)
(* the block itself otherwise.                                             *)
RecoveredIs ==
  /\ \A b \in Block : b \notin ToSet(hdr) => Recovered[b] = disk[b]
  /\ \A j \in 1..Len(hdr) : Recovered[hdr[j]] = logblk[j]
  /\ hdr = <<>> => Recovered = disk
  /\ \A b \in ToSet(hdr) : \E j \in 1..Len(hdr) : b = hdr[j]
  /\ DOMAIN Recovered = Block

(* No two entries of the header name the same block, so the first copy of  *)
(* a block that Recovered looks up is its only one.                        *)
LEMMA RecoveredBlocks == SyncInv => RecoveredIs
<1> SUFFICES ASSUME SyncInv PROVE RecoveredIs
  OBVIOUS
<1>1. DOMAIN hdr = 1..Len(hdr) /\ \A j \in 1..Len(hdr) : hdr[j] \in Block
  BY DEF SyncInv, TypeOK
<1>2. ASSUME NEW j \in 1..Len(hdr) PROVE Recovered[hdr[j]] = logblk[j]
  <2>1. hdr[j] \in ToSet(hdr) /\ hdr[j] \in Block
    BY <1>1 DEF ToSet
  <2>2. \A i \in DOMAIN hdr : hdr[i] = hdr[j] => i = j
    BY <1>1 DEF SyncInv, DataInv, IsInjective
  <2>3. (CHOOSE i \in DOMAIN hdr : hdr[i] = hdr[j]) = j
    BY <1>1, <2>2
  <2> QED BY <2>1, <2>3 DEF Recovered
<1>3. hdr = <<>> => ToSet(hdr) = {}
  BY DEF ToSet
<1>4. hdr = <<>> => Recovered = disk
  BY <1>3 DEF Recovered, SyncInv, TypeOK
<1>5. \A b \in Block : b \notin ToSet(hdr) => Recovered[b] = disk[b]
  BY DEF Recovered
<1>6. \A b \in ToSet(hdr) : \E j \in 1..Len(hdr) : b = hdr[j]
  BY <1>1 DEF ToSet
<1> QED BY <1>2, <1>4, <1>5, <1>6 DEF Recovered, RecoveredIs

(* The same of the next state. *)
LEMMA RecoveredBlocksNext == SyncInv' => RecoveredIs'
BY RecoveredBlocks, PTL

(* Only the header write of a commit changes what recovery restores.  With *)
(* one user it makes that what is in memory.                               *)
LEMMA WriteHeadRecovered ==
  ASSUME SyncInv, SyncInv', UNCHANGED users, ~panicked, WriteHead, Single
  PROVE  Recovered' = buf
<1>1. /\ phase = "write_head" /\ hdr' = lh /\ ~booting
      /\ UNCHANGED <<disk, logblk, buf, dirty, lh>>
  BY InCommit DEF WriteHead, SyncInv, PhaseInv
<1>2. /\ \A b \in Block : b \notin ToSet(lh) => Recovered'[b] = disk[b]
      /\ \A j \in 1..Len(lh) : Recovered'[lh[j]] = logblk[j]
      /\ \A b \in ToSet(lh) : \E j \in 1..Len(lh) : b = lh[j]
      /\ DOMAIN Recovered' = Block
  <2>1. /\ \A b \in Block : b \notin ToSet(hdr') => Recovered'[b] = disk'[b]
        /\ \A j \in 1..Len(hdr') : Recovered'[hdr'[j]] = logblk'[j]
        /\ \A b \in ToSet(hdr') : \E j \in 1..Len(hdr') : b = hdr'[j]
        /\ DOMAIN Recovered' = Block
    BY RecoveredBlocksNext DEF RecoveredIs
  <2> QED BY <1>1, <2>1
<1>3. dirty = ToSet(lh) /\ \A j \in 1..Len(lh) : logblk[j] = buf[lh[j]]
  BY <1>1 DEF SyncInv, SoleInv
<1>4. \A b \in Block : Recovered'[b] = buf[b]
  BY <1>2, <1>3 DEF SyncInv, CleanIsOnDisk
<1> QED BY <1>2, <1>4 DEF SyncInv, TypeOK, Recovered

(* Neither a call, nor installing, erasing, recovering or crashing changes *)
(* what recovery restores, with any number of users.                       *)
LEMMA RecoveredStep ==
  ASSUME SyncInv, SyncInv', [Next]_vars
  PROVE  \/ Recovered' = Recovered
         \/ ~panicked /\ WriteHead /\ phase' = "install_trans" /\ UNCHANGED users
<1>1. UNCHANGED <<disk, logblk, hdr>> => Recovered' = Recovered
  BY DEF Recovered
<1>2. ASSUME NEW p \in users, Call(p) PROVE UNCHANGED <<disk, logblk, hdr>>
  BY <1>2 DEF Call, BeginOp, EndOp, SetFull, ClearFull, FindBuffer, Brelse, Sync, SyncDone,
              Bget, Write, diskVars
<1>3. LogDirty \/ ReadHead \/ Crash \/ UNCHANGED vars => UNCHANGED <<disk, logblk, hdr>>
  BY DEF LogDirty, ReadHead, Crash, vars, diskVars
<1>4. ASSUME WriteLog PROVE Recovered' = Recovered
  <2>1. hdr = <<>> /\ hdr' = <<>> /\ disk' = disk
    BY <1>4 DEF WriteLog, SyncInv, DataInv
  <2>2. Recovered = disk /\ Recovered' = disk'
    BY <2>1, RecoveredBlocks, RecoveredBlocksNext DEF RecoveredIs
  <2> QED BY <2>1, <2>2
<1>5. ASSUME WriteHead PROVE Recovered' = Recovered \/ phase' = "install_trans"
  BY <1>1, <1>5 DEF WriteHead
<1>6. ASSUME InstallTrans PROVE Recovered' = Recovered
  <2>1. hdr' = hdr /\ logblk' = logblk /\ hdr = lh /\ phase = "install_trans"
    BY <1>6 DEF InstallTrans, SyncInv, DataInv
  <2>2. lh[tail] \in Block /\ lh[tail] \in ToSet(lh)
    BY <2>1, AtTail DEF ToSet, SyncInv, TypeOK
  <2>3. \A b \in Block : b \notin ToSet(hdr) => disk'[b] = disk[b]
    BY <1>6, <2>1, <2>2 DEF InstallTrans, SyncInv, TypeOK
  <2> QED BY <2>1, <2>3 DEF Recovered
<1>7. ASSUME ~panicked, Erase PROVE Recovered' = Recovered
  <2>1. hdr = lh /\ \A j \in 1..Len(hdr) : disk[hdr[j]] = logblk[j]
    BY <1>7 DEF Erase, SyncInv, DataInv
  <2>2. \A b \in Block : Recovered[b] = disk[b]
    BY <2>1, RecoveredBlocks DEF RecoveredIs
  <2>3. Recovered = disk
    BY <2>2 DEF Recovered, SyncInv, TypeOK
  <2>4. disk' = disk /\ logblk' = logblk /\ (hdr' = hdr \/ hdr' = <<>>)
    BY <1>7 DEF Erase
  <2>5. hdr' = <<>> => Recovered' = disk
    BY <2>4, RecoveredBlocksNext DEF RecoveredIs
  <2> QED BY <1>1, <2>3, <2>4, <2>5
<1> QED BY <1>1, <1>2, <1>3, <1>4, <1>5, <1>6, <1>7 DEF Next, Commit

(* Theorem: what a crash would leave behind changes at the header write of *)
(* a commit and nowhere else, with any number of users; and when a sync of *)
(* the only process returns, all it wrote before is durable.               *)
THEOREM SyncIsDurable == Spec => DurableAtSync
<1> DEFINE A == Single /\ committing /\ ~committing' /\ ~booting' => dirty = {} /\ Recovered = buf
           B == Recovered' # Recovered => phase = "write_head" /\ phase' = "install_trans"
<1>1. SyncInv /\ SyncInv' /\ [Next]_vars => [A]_vars
  <2> SUFFICES ASSUME SyncInv, [Next]_vars, Single, committing, ~committing', ~booting'
               PROVE  dirty = {} /\ Recovered = buf
    OBVIOUS
  <2>1. PICK p \in users : SyncDone(p)
    BY DEF Next, Call, BeginOp, EndOp, SetFull, ClearFull, FindBuffer, Brelse, Sync, Bget, Write,
           Commit, LogDirty, WriteLog, WriteHead, InstallTrans, Erase, ReadHead, Crash,
           logVars, vars
  <2>2. phase = "done"
    BY <2>1 DEF SyncDone
  <2>3. dirty = {} /\ hdr = <<>>
    BY <2>2 DEF SyncInv, SoleInv, DataInv
  <2>4. buf = disk
    BY <2>3 DEF SyncInv, CleanIsOnDisk, TypeOK
  <2> QED BY <2>3, <2>4, RecoveredBlocks DEF RecoveredIs
<1>2. SyncInv /\ SyncInv' /\ [Next]_vars => [B]_vars
  BY RecoveredStep DEF WriteHead
<1> HIDE DEF A, B
<1>3. Spec => [][A]_vars /\ [][B]_vars
  BY <1>1, <1>2, Invariance, PTL DEF Spec
<1> QED BY <1>3 DEF DurableAtSync, SyncIsComplete, DurableOnlyAtCommit, A, B

(* The contents of the blocks as the running system sees them. *)
Mem == IF booting THEN Recovered ELSE buf

(* Of one user, every step writes a block in memory, takes over all of     *)
(* memory, returns to what was taken over, or changes nothing of either.   *)
LEMMA MemStep ==
  ASSUME SyncInv, SyncInv', [Next]_vars, Single
  PROVE  \/ Recovered' = Recovered /\ Mem' = Mem
         \/ Recovered' = Recovered /\ \E b \in Block, v \in Val : Mem' = [Mem EXCEPT ![b] = v]
         \/ Recovered' = Mem /\ Mem' = Mem
         \/ Recovered' = Recovered /\ Mem' = Recovered
<1>1. CASE ~panicked /\ WriteHead /\ phase' = "install_trans" /\ UNCHANGED users
  <2>1. Recovered' = buf
    BY <1>1, WriteHeadRecovered
  <2>2. ~booting /\ ~booting' /\ buf' = buf
    BY <1>1 DEF WriteHead, SyncInv, PhaseInv
  <2> QED BY <2>1, <2>2 DEF Mem
<1>2. CASE Recovered' = Recovered
  <2>1. UNCHANGED <<booting, buf>> => Mem' = Mem
    BY <1>2 DEF Mem
  <2>2. ASSUME NEW p \in users, NEW v \in Val, Write(p, v)
        PROVE  \E b \in Block : Mem' = [Mem EXCEPT ![b] = v]
    <3>1. p \in Proc /\ ~booting /\ ~booting'
      BY <2>2, SyncAssumption DEF Write, Up, logVars, SyncInv, CallInv
    <3>2. PICK b \in Block : want[p] = {b}
      BY <2>2, <3>1 DEF Write, SyncInv, CallInv, InBget
    <3>3. buf' = [buf EXCEPT ![b] = v]
      BY <2>2, <3>2 DEF Write, SyncInv, TypeOK
    <3> QED BY <3>1, <3>3 DEF Mem
  <2>3. ASSUME NEW p \in users, Call(p), ~(\E v \in Val : Write(p, v)) PROVE Mem' = Mem
    BY <2>1, <2>3 DEF Call, BeginOp, EndOp, SetFull, ClearFull, FindBuffer, Brelse, Sync,
                      SyncDone, Bget, logVars
  <2>4. LogDirty \/ WriteLog \/ WriteHead \/ ReadHead \/ UNCHANGED vars => Mem' = Mem
    BY <2>1 DEF LogDirty, WriteLog, WriteHead, ReadHead, vars
  <2>5. ASSUME InstallTrans PROVE Mem' = Mem
    <3>1. booting' = booting /\ phase = "install_trans"
      BY <2>5 DEF InstallTrans
    <3>2. CASE booting
      BY <1>2, <3>1, <3>2 DEF Mem
    <3>3. CASE ~booting
      <4>1. logblk[tail] = buf[lh[tail]]
        BY <3>1, <3>3, AtTail DEF SyncInv, SoleInv
      <4>2. buf' = buf
        BY <2>5, <3>1, <4>1, AtTail DEF InstallTrans, SyncInv, TypeOK
      <4> QED BY <2>1, <3>1, <4>2
    <3> QED BY <3>2, <3>3
  <2>6. ASSUME ~panicked, Erase PROVE Mem' = Mem
    <3>1. buf' = buf /\ (booting' = booting \/ (booting' = FALSE /\ hdr' = <<>> /\ disk' = disk))
      BY <2>6 DEF Erase
    <3>2. CASE booting
      <4>1. buf = disk
        BY <3>2 DEF SyncInv, PhaseInv, CleanIsOnDisk, TypeOK
      <4>2. booting' = FALSE => Recovered' = disk
        BY <3>1, <3>2, RecoveredBlocksNext DEF RecoveredIs
      <4> QED BY <1>2, <2>1, <3>1, <3>2, <4>1, <4>2 DEF Mem, SyncInv, TypeOK
    <3>3. CASE ~booting
      BY <2>1, <3>1, <3>3 DEF SyncInv, TypeOK
    <3> QED BY <3>2, <3>3
  <2>7. Crash => Mem' = Recovered
    BY <1>2 DEF Crash, Mem
  <2> QED BY <1>2, <2>2, <2>3, <2>4, <2>5, <2>6, <2>7 DEF Next, Call, Commit
<1> QED BY <1>1, <1>2, RecoveredStep

(* Theorem: of one user, pj3's buffered log is a disk with snapshots: sync *)
(* takes over the whole of memory at one moment, and a crash at any step   *)
(* of a commit or of a recovery returns to the last such moment.           *)
THEOREM SyncImplementsSnapshotDisk == Spec => ImplementsSnapshotDisk
<1> DEFINE Some == [b \in Block |-> CHOOSE v \in Val : TRUE]
<1>1. Init => Snapshot!Init
  <2> SUFFICES ASSUME Init PROVE Snapshot!Init
    OBVIOUS
  <2>1. Recovered = disk /\ booting /\ disk \in [Block -> Val]
    BY InitInv, RecoveredBlocks DEF Init, RecoveredIs
  <2>2. Some \in [Block -> Val]
    BY <2>1
  <2> QED BY <2>1, <2>2 DEF Snapshot!Init, IfSingle
<1>2. SyncInv /\ SyncInv' /\ [Next]_vars => [Snapshot!Next]_(Snapshot!vars)
  <2> SUFFICES ASSUME SyncInv, SyncInv', [Next]_vars PROVE [Snapshot!Next]_(Snapshot!vars)
    OBVIOUS
  <2>1. Single' <=> Single
    BY DEF Next, Single, vars
  <2>2. CASE ~Single
    BY <2>1, <2>2 DEF Snapshot!vars, IfSingle
  <2>3. CASE Single
    <3>1. IfSingle(Recovered) = Recovered /\ IfSingle(Mem) = Mem
      BY <2>3 DEF IfSingle
    <3>2. IfSingle(Recovered)' = Recovered' /\ IfSingle(Mem)' = Mem'
      BY <2>1, <2>3 DEF IfSingle
    <3> QED BY <2>3, <3>1, <3>2, MemStep
            DEF Mem, Snapshot!vars, Snapshot!Next, Snapshot!Write, Snapshot!Sync, Snapshot!Crash
  <2> QED BY <2>2, <2>3
<1> QED BY <1>1, <1>2, Invariance, PTL DEF Spec, ImplementsSnapshotDisk, Snapshot!Spec
=============================================================================
