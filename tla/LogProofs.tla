----------------------------- MODULE LogProofs -----------------------------
(***************************************************************************)
(* Proofs about the write-ahead log of pj1 and pj2 (module Log).           *)
(***************************************************************************)
EXTENDS Log, FiniteSetTheorems, TLAPS

(* The running calls, and what they may still log, are finite sets. *)
LEMMA Finite ==
  ASSUME TypeOK
  PROVE  /\ IsFiniteSet(Active) /\ Cardinality(Active) \in Nat
         /\ IsFiniteSet(Tokens) /\ Cardinality(Tokens) \in Nat
         /\ \A p \in Proc : IsFiniteSet(wrote[p]) /\ Cardinality(wrote[p]) \in Nat
         /\ \A S \in SUBSET Block : IsFiniteSet(S) /\ Cardinality(S) \in Nat
<1>1. IsFiniteSet(Active)
  BY LogAssumption, FS_Subset DEF Active
<1>2. IsFiniteSet(1..OpBlocks)
  BY LogAssumption, FS_Interval
<1>2a. IsFiniteSet(Active \X (1..OpBlocks))
  BY <1>1, <1>2, FS_Product
<1>3. IsFiniteSet(Tokens)
  BY <1>2a, FS_Subset DEF Tokens
<1>4. \A S \in SUBSET Block : IsFiniteSet(S)
  BY LogAssumption, FS_Subset
<1>5. \A p \in Proc : wrote[p] \in SUBSET Block
  BY DEF TypeOK
<1> QED BY <1>1, <1>3, <1>4, <1>5, FS_CardinalityType

(* The initial states satisfy the invariant. *)
LEMMA InitInv == Init => LogInv
<1> SUFFICES ASSUME Init PROVE LogInv
  OBVIOUS
<1>1. TypeOK
  <2>1. /\ disk \in [Block -> Val] /\ cache \in [Block -> Val]
        /\ logblk \in [1..LOGSIZE -> Val]
    BY DEF Init
  <2>2. hdr \in Seq(Block) /\ lh \in Seq(Block)
    BY DEF Init
  <2>3. outstanding \in Nat /\ tail \in Nat \ {0} /\ phase \in Phases
    BY DEF Init, Phases
  <2>4. committing \in BOOLEAN /\ booting \in BOOLEAN /\ panicked \in BOOLEAN
    BY DEF Init
  <2>5. wrote \in [Proc -> SUBSET Block] /\ pend \in [Proc -> SUBSET Block]
    BY DEF Init
  <2>6. pc \in [Proc -> {"idle", "begin", "sleep", "op", "log_write", "commit"}]
    BY DEF Init
  <2> QED BY <2>1, <2>2, <2>3, <2>4, <2>5, <2>6 DEF TypeOK
<1>2. Active = {}
  BY DEF Init, Active
<1>3. PhaseInv
  BY <1>2, FS_EmptySet DEF Init, PhaseInv
<1>4. CommitterInv
  BY DEF Init, CommitterInv
<1>5. ListInv
  BY <1>2, LogAssumption DEF Init, ListInv, Distinct, Range
<1>6. SpaceInv
  BY <1>2 DEF SpaceInv
<1>7. DataInv
  BY LogAssumption DEF Init, DataInv
<1> QED BY <1>1, <1>3, <1>4, <1>5, <1>6, <1>7 DEF LogInv

(* A step that leaves the calls and the list of logged blocks alone keeps  *)
(* the invariants about them.                                              *)
LEMMA CallsUnchanged ==
  ASSUME UNCHANGED <<lh, hdr, procVars>>
  PROVE  /\ Active' = Active
         /\ Tokens' = Tokens
         /\ ListInv => ListInv'
         /\ SpaceInv => SpaceInv'
<1>1. Active' = Active
  BY DEF Active, procVars
<1>2. Tokens' = Tokens
  BY <1>1 DEF Tokens, procVars
<1>3. ListInv => ListInv'
  BY <1>1 DEF ListInv, procVars
<1>4. SpaceInv => SpaceInv'
  BY <1>1, <1>2 DEF SpaceInv
<1> QED BY <1>1, <1>2, <1>3, <1>4

(* write_log copies the cache's block, which the copies already made and   *)
(* the home locations do not depend on.                                    *)
LEMMA WriteLogInv ==
  ASSUME LogInv, WriteLog
  PROVE  LogInv'
<1> USE DEF LogInv
<1>1. tail \in 1..Len(lh) /\ tail \in 1..LOGSIZE /\ lh[tail] \in Block /\ Len(lh) \in Nat
  BY LogAssumption DEF TypeOK, WriteLog, PhaseInv, DataInv
<1>2. TypeOK'
  <2>1. logblk' \in [1..LOGSIZE -> Val]
    BY <1>1 DEF WriteLog, TypeOK
  <2>2. tail' \in Nat \ {0} /\ phase' \in Phases
    BY <1>1 DEF WriteLog, TypeOK, Phases
  <2> QED BY <2>1, <2>2 DEF WriteLog, TypeOK, procVars
<1>3. Active' = Active
  BY DEF Active, WriteLog, procVars
<1>4. PhaseInv'
  BY <1>1, <1>3 DEF WriteLog, PhaseInv, LoopEnds, procVars
<1>5. CommitterInv'
  BY DEF WriteLog, CommitterInv, procVars
<1>6. ListInv' /\ SpaceInv'
  BY CallsUnchanged DEF WriteLog
<1>7. DataInv'
  BY <1>1 DEF WriteLog, DataInv, TypeOK, LoopEnds, PhaseInv, procVars
<1> QED BY <1>2, <1>4, <1>5, <1>6, <1>7

(* The commit point: from here on the header lists what write_log copied. *)
LEMMA WriteHeadInv ==
  ASSUME LogInv, WriteHead
  PROVE  LogInv'
<1> USE DEF LogInv
<1>1. TypeOK'
  <2>1. tail' \in Nat \ {0} /\ phase' \in Phases
    BY DEF WriteHead, Phases
  <2> QED BY <2>1 DEF WriteHead, TypeOK, procVars
<1>2. Active' = Active /\ Tokens' = Tokens
  BY DEF Active, Tokens, WriteHead, procVars
<1>3. PhaseInv'
  BY <1>2 DEF WriteHead, PhaseInv, TypeOK, procVars
<1>4. CommitterInv'
  BY DEF WriteHead, CommitterInv, procVars
<1>5. ListInv'
  BY <1>2 DEF WriteHead, ListInv, DataInv, procVars
<1>6. SpaceInv'
  BY <1>2 DEF WriteHead, SpaceInv
<1>7. DataInv'
  BY DEF WriteHead, DataInv, TypeOK, PhaseInv, procVars
<1> QED BY <1>1, <1>3, <1>4, <1>5, <1>6, <1>7

(* install_trans writes what the log holds, so the blocks before tail are  *)
(* at home and in a commit the cache does not change.                      *)
LEMMA InstallTransInv ==
  ASSUME LogInv, InstallTrans
  PROVE  LogInv'
<1> USE DEF LogInv
<1>1. /\ tail \in 1..Len(lh) /\ tail \in 1..LOGSIZE /\ lh[tail] \in Block
      /\ Len(lh) \in Nat /\ logblk[tail] \in Val
  BY LogAssumption DEF TypeOK, InstallTrans, PhaseInv, DataInv
<1>2. TypeOK'
  <2>1. disk' \in [Block -> Val] /\ cache' \in [Block -> Val]
    BY <1>1 DEF InstallTrans, TypeOK
  <2>2. tail' \in Nat \ {0} /\ phase' \in Phases
    BY <1>1 DEF InstallTrans, TypeOK, Phases
  <2> QED BY <2>1, <2>2 DEF InstallTrans, TypeOK, procVars
<1>3. Active' = Active
  BY DEF Active, InstallTrans, procVars
<1>4. PhaseInv'
  BY <1>1, <1>3 DEF InstallTrans, PhaseInv, LoopEnds, procVars
<1>5. CommitterInv'
  BY DEF InstallTrans, CommitterInv, procVars
<1>6. ListInv' /\ SpaceInv'
  BY CallsUnchanged DEF InstallTrans
<1>7. \A j \in 1..Len(lh) : j # tail => lh[j] # lh[tail]
  BY <1>1 DEF ListInv, Distinct, TypeOK
<1>8. DataInv'
  <2>1. \A b \in Block : b # lh[tail] => disk'[b] = disk[b] /\ cache'[b] = cache[b]
    BY <1>1 DEF InstallTrans, TypeOK
  <2>2. disk'[lh[tail]] = logblk[tail] /\ cache'[lh[tail]] = logblk[tail]
    BY <1>1 DEF InstallTrans, TypeOK
  <2>3. \A j \in 1..Len(lh) : lh[j] \in Block
    BY DEF TypeOK
  <2>4. booting => cache' = disk'
    BY DEF InstallTrans, DataInv
  <2>5. lh[tail] \in Range(lh)
    BY <1>1 DEF Range, TypeOK
  <2> QED BY <1>1, <1>7, <2>1, <2>2, <2>3, <2>4, <2>5
          DEF InstallTrans, DataInv, LoopEnds, PhaseInv, procVars
<1> QED BY <1>2, <1>4, <1>5, <1>6, <1>8

(* The header is erased only when every logged block is at home. *)
LEMMA EraseInv ==
  ASSUME LogInv, Erase
  PROVE  LogInv'
<1> USE DEF LogInv
<1>1. TypeOK'
  <2>1. lh' \in Seq(Block) /\ hdr' \in Seq(Block)
    BY DEF Erase
  <2>2. tail' \in Nat \ {0} /\ phase' \in Phases
    BY DEF Erase, Phases
  <2>3. booting' \in BOOLEAN
    BY DEF Erase
  <2> QED BY <2>1, <2>2, <2>3 DEF Erase, TypeOK, procVars
<1>2. Active' = Active /\ Tokens' = Tokens
  BY DEF Active, Tokens, Erase, procVars
<1>3. Active = {} /\ \A p \in Proc : pc[p] # "op" /\ pc[p] # "log_write"
  BY DEF Erase, PhaseInv, Active
<1>4. PhaseInv'
  BY <1>2 DEF Erase, PhaseInv, TypeOK, procVars
<1>5. CommitterInv'
  BY DEF Erase, CommitterInv, procVars
<1>6. ListInv'
  BY <1>2, <1>3, LogAssumption DEF Erase, ListInv, procVars, Distinct, Range
<1>7. SpaceInv'
  BY <1>2, <1>3 DEF SpaceInv
<1>8. cache = disk
  BY <1>3 DEF Erase, DataInv, TypeOK, PhaseInv, ListInv, Range
<1>9. DataInv'
  BY <1>8, LogAssumption DEF Erase, DataInv, procVars, Range
<1> QED BY <1>1, <1>4, <1>5, <1>6, <1>7, <1>9

(* Recovery resumes the install loop of the interrupted commit. *)
LEMMA ReadHeadInv ==
  ASSUME LogInv, ReadHead
  PROVE  LogInv'
<1> USE DEF LogInv
<1>1. TypeOK'
  <2>1. tail' \in Nat \ {0} /\ phase' \in Phases
    BY DEF ReadHead, Phases
  <2> QED BY <2>1 DEF ReadHead, TypeOK, procVars, diskVars
<1>2. Active' = Active /\ Tokens' = Tokens
  BY DEF Active, Tokens, ReadHead, procVars, diskVars
<1>3. Active = {}
  BY DEF ReadHead, PhaseInv, Active
<1>4. hdr = <<>> <=> Len(hdr) = 0
  BY DEF TypeOK
<1>5. PhaseInv'
  BY <1>2, <1>3, <1>4 DEF ReadHead, PhaseInv, TypeOK, procVars, diskVars
<1>6. CommitterInv'
  BY DEF ReadHead, CommitterInv, procVars, diskVars
<1>7. ListInv'
  BY <1>2, <1>3 DEF ReadHead, ListInv, procVars, diskVars
<1>8. SpaceInv'
  BY <1>2, <1>3 DEF SpaceInv
<1>9. DataInv'
  BY <1>4 DEF ReadHead, DataInv, ListInv, TypeOK, PhaseInv, procVars, diskVars
<1> QED BY <1>1, <1>5, <1>6, <1>7, <1>8, <1>9

(* A crash in any phase leaves a header whose blocks recovery can install. *)
LEMMA CrashInv ==
  ASSUME LogInv, Crash
  PROVE  LogInv'
<1> USE DEF LogInv
<1>1. TypeOK'
  <2>1. cache' \in [Block -> Val] /\ lh' \in Seq(Block)
    BY DEF Crash, TypeOK
  <2>2. outstanding' \in Nat /\ tail' \in Nat \ {0} /\ phase' \in Phases
    BY DEF Crash, Phases
  <2>3. committing' \in BOOLEAN /\ booting' \in BOOLEAN /\ panicked' \in BOOLEAN
    BY DEF Crash
  <2>4. wrote' \in [Proc -> SUBSET Block] /\ pend' \in [Proc -> SUBSET Block]
    BY DEF Crash
  <2>5. pc' \in [Proc -> {"idle", "begin", "sleep", "op", "log_write", "commit"}]
    BY DEF Crash
  <2> QED BY <2>1, <2>2, <2>3, <2>4, <2>5 DEF Crash, TypeOK, diskVars
<1>2. Active' = {}
  BY DEF Crash, Active
<1>3. PhaseInv'
  BY <1>2, FS_EmptySet DEF Crash, PhaseInv
<1>4. CommitterInv'
  BY DEF Crash, CommitterInv
<1>5. ListInv'
  BY <1>2, LogAssumption DEF Crash, ListInv, diskVars, Distinct, Range
<1>6. SpaceInv'
  BY <1>2 DEF SpaceInv
<1>7. DataInv'
  BY LogAssumption DEF Crash, DataInv, diskVars
<1> QED BY <1>1, <1>3, <1>4, <1>5, <1>6, <1>7

(* end_op's wakeup after a commit lets no call in before the flags agree. *)
LEMMA CommitDoneInv ==
  ASSUME LogInv, NEW p \in Proc, CommitDone(p)
  PROVE  LogInv'
<1> USE DEF LogInv
<1>1. TypeOK'
  <2>1. phase' \in Phases
    BY DEF CommitDone, Phases
  <2>2. committing' \in BOOLEAN
    BY DEF CommitDone
  <2>3. pc' \in [Proc -> {"idle", "begin", "sleep", "op", "log_write", "commit"}]
    BY DEF CommitDone, Wakeup, TypeOK
  <2> QED BY <2>1, <2>2, <2>3 DEF CommitDone, TypeOK, diskVars
<1>2. committing /\ Active = {} /\ lh = <<>>
  BY DEF CommitDone, PhaseInv
<1>3. Active' = {}
  BY <1>2 DEF CommitDone, Active, Wakeup, TypeOK
<1>4. PhaseInv'
  BY <1>2, <1>3 DEF CommitDone, PhaseInv
<1>5. CommitterInv'
  <2>1. \A q \in Proc : q # p => pc[q] # "commit"
    BY DEF CommitDone, CommitterInv
  <2>2. \A q \in Proc : pc'[q] # "commit"
    BY <2>1 DEF CommitDone, Wakeup, TypeOK
  <2> QED BY <2>2 DEF CommitDone, CommitterInv
<1>6. ListInv'
  <2>1. \A q \in Proc : pc[q] # "log_write" /\ pc'[q] # "log_write"
    BY <1>2, <1>3 DEF Active
  <2> QED BY <1>2, <1>3, <2>1 DEF CommitDone, ListInv, diskVars
<1>7. SpaceInv'
  BY <1>3 DEF SpaceInv
<1>8. DataInv'
  BY DEF CommitDone, DataInv, PhaseInv, diskVars
<1> QED BY <1>1, <1>4, <1>5, <1>6, <1>7, <1>8

(* A call that begin_op admits adds its entitlement of OpBlocks blocks,    *)
(* which the space test has covered.                                       *)
LEMMA BeginOpInv ==
  ASSUME LogInv, NEW p \in Proc, BeginOp(p)
  PROVE  LogInv'
<1> USE DEF LogInv
<1>1. p \notin Active
  BY DEF BeginOp, Active
<1>2. TypeOK'
  <2>1. outstanding' \in Nat
    BY DEF BeginOp, TypeOK
  <2>2. wrote' \in [Proc -> SUBSET Block]
    BY DEF BeginOp, TypeOK
  <2>3. pc' \in [Proc -> {"idle", "begin", "sleep", "op", "log_write", "commit"}]
    BY DEF BeginOp, TypeOK
  <2> QED BY <2>1, <2>2, <2>3 DEF BeginOp, TypeOK, diskVars
<1>3. CASE committing \/ NoSpace
  <2>1. pc' = [pc EXCEPT ![p] = "sleep"] /\ UNCHANGED <<outstanding, wrote>>
    BY <1>3 DEF BeginOp
  <2>2. Active' = Active
    BY <1>1, <2>1 DEF Active, TypeOK
  <2>3. Tokens' = Tokens
    BY <2>1, <2>2 DEF Tokens
  <2>4. PhaseInv'
    BY <2>1, <2>2 DEF BeginOp, PhaseInv
  <2>5. CommitterInv'
    <3>1. \A q \in Proc : pc'[q] = "commit" <=> pc[q] = "commit"
      BY <2>1 DEF BeginOp, TypeOK
    <3> QED BY <3>1 DEF BeginOp, CommitterInv
  <2>6. ListInv'
    <3>1. \A q \in Proc : pc'[q] = "log_write" <=> pc[q] = "log_write"
      BY <2>1 DEF BeginOp, TypeOK
    <3> QED BY <2>1, <2>2, <3>1 DEF BeginOp, ListInv, diskVars
  <2>7. SpaceInv'
    BY <2>2, <2>3 DEF BeginOp, SpaceInv
  <2>8. DataInv'
    BY DEF BeginOp, DataInv, diskVars
  <2> QED BY <1>2, <2>4, <2>5, <2>6, <2>7, <2>8
<1>4. CASE ~committing /\ ~NoSpace
  <2>1. /\ pc' = [pc EXCEPT ![p] = "op"]
        /\ wrote' = [wrote EXCEPT ![p] = {}]
        /\ outstanding' = outstanding + 1
    BY <1>4 DEF BeginOp
  <2>2. Active' = Active \cup {p}
    BY <2>1 DEF Active, TypeOK
  <2>3. Cardinality(Active') = outstanding + 1
    BY <1>1, <2>2, Finite, FS_AddElement DEF PhaseInv
  <2>4. PhaseInv'
    BY <1>4, <2>1, <2>2, <2>3 DEF BeginOp, PhaseInv
  <2>5. CommitterInv'
    <3>1. \A q \in Proc : pc'[q] = "commit" <=> pc[q] = "commit"
      BY <2>1 DEF BeginOp, TypeOK
    <3> QED BY <3>1 DEF BeginOp, CommitterInv
  <2>6. ListInv'
    <3>1. \A q \in Proc : pc'[q] = "log_write" <=> pc[q] = "log_write"
      BY <2>1 DEF BeginOp, TypeOK
    <3>2. pend[p] = {} /\ wrote'[p] = {}
      BY <2>1 DEF BeginOp, ListInv, TypeOK
    <3>3. \A q \in Proc : q # p => wrote'[q] = wrote[q]
      BY <2>1 DEF TypeOK
    <3>4. Cardinality(wrote'[p] \cup pend[p]) <= OpBlocks
      BY <3>2, FS_EmptySet, LogAssumption
    <3> QED BY <2>2, <3>1, <3>2, <3>3, <3>4 DEF BeginOp, ListInv, diskVars
  <2>7. SpaceInv'
    <3>1. Tokens' \in SUBSET (Active' \X (1..OpBlocks))
      BY DEF Tokens
    <3>2. IsFiniteSet(Active')
      BY <2>2, Finite, FS_AddElement
    <3>3. IsFiniteSet(1..OpBlocks) /\ Cardinality(1..OpBlocks) = OpBlocks
      BY LogAssumption, FS_Interval
    <3>4. /\ IsFiniteSet(Active' \X (1..OpBlocks))
          /\ Cardinality(Active' \X (1..OpBlocks)) = (outstanding + 1) * OpBlocks
      BY <2>3, <3>2, <3>3, FS_Product
    <3>5. /\ Cardinality(Tokens') <= (outstanding + 1) * OpBlocks
          /\ Cardinality(Tokens') \in Nat
      BY <3>1, <3>4, FS_Subset, FS_CardinalityType
    <3> HIDE DEF LogInv
    <3>6. Len(lh) + (outstanding + 1) * MAXOPBLOCKS <= LOGSIZE
      BY <1>4, LogAssumption DEF NoSpace, LogInv, TypeOK
    <3>7. CASE outstanding = 0
      <4>1. lh = <<>>
        BY <1>4, <3>7, Finite, FS_EmptySet DEF BeginOp, LogInv, PhaseInv, TypeOK, Phases
      <4> QED BY <3>5, <3>7, <4>1, LogAssumption DEF BeginOp, SpaceInv
    <3>8. CASE outstanding # 0
      <4> DEFINE o == outstanding + 1
                 d == MAXOPBLOCKS - OpBlocks
      <4>1. o \in Nat /\ o >= 2 /\ d \in Nat /\ OpBlocks \in Nat
        BY <3>8, LogAssumption DEF LogInv, TypeOK
      <4>2. o * MAXOPBLOCKS = o * OpBlocks + o * d
        BY <4>1, LogAssumption
      <4>3. o * d >= 2 * d
        BY <4>1
      <4>4. Len(lh) \in Nat /\ LOGSIZE \in Nat
        BY LogAssumption DEF LogInv, TypeOK
      <4>5. Len(lh) + Cardinality(Tokens') + 2 * d <= LOGSIZE
        <5> HIDE DEF o, d
        <5>1. Cardinality(Tokens') <= o * OpBlocks /\ Len(lh) + o * MAXOPBLOCKS <= LOGSIZE
          BY <3>5, <3>6 DEF o
        <5>2. o * OpBlocks \in Nat /\ o * d \in Nat
          BY <4>1
        <5> QED BY <3>5, <4>1, <4>2, <4>3, <4>4, <5>1, <5>2
      <4> QED BY <4>5 DEF BeginOp, SpaceInv
    <3> QED BY <3>7, <3>8
  <2>8. DataInv'
    BY DEF BeginOp, DataInv, diskVars
  <2> QED BY <1>2, <2>4, <2>5, <2>6, <2>7, <2>8
<1> QED BY <1>3, <1>4

(* log_write's tests: the block becomes pending and the list stays. *)
LEMMA LogWriteCheckInv ==
  ASSUME LogInv, NEW p \in Proc, NEW b \in Block, NEW v \in Val,
         LogWriteCheck(p, b, v)
  PROVE  LogInv'
<1> USE DEF LogInv
<1>1. p \in Active /\ ~committing
  BY DEF LogWriteCheck, Active, PhaseInv
<1>2. cache' \in [Block -> Val]
  BY DEF LogWriteCheck, TypeOK
<1>3. \A c \in Block : c # b => cache'[c] = cache[c]
  BY DEF LogWriteCheck, TypeOK
<1>4. phase = "none"
  <2>1. Active # {}
    BY <1>1
  <2>2. ~booting
    BY DEF LogWriteCheck
  <2> QED BY <1>1, <2>1, <2>2 DEF PhaseInv, TypeOK, Phases
<1>5. CASE panicked' = TRUE /\ UNCHANGED <<pc, pend>>
  <2>1. Active' = Active /\ Tokens' = Tokens
    BY <1>5 DEF LogWriteCheck, Active, Tokens
  <2>2. TypeOK'
    BY <1>2, <1>5 DEF LogWriteCheck, TypeOK, diskVars
  <2>3. PhaseInv' /\ CommitterInv'
    BY <1>1, <1>4, <1>5, <2>1 DEF LogWriteCheck, PhaseInv, CommitterInv
  <2>4. ListInv' /\ SpaceInv'
    BY <1>5, <2>1 DEF LogWriteCheck, ListInv, SpaceInv, diskVars
  <2>5. DataInv'
    BY <1>4, <1>5 DEF LogWriteCheck, DataInv, diskVars
  <2> QED BY <2>2, <2>3, <2>4, <2>5
<1>6. CASE /\ pc' = [pc EXCEPT ![p] = "log_write"]
           /\ pend' = [pend EXCEPT ![p] = {b}]
           /\ UNCHANGED panicked
  <2>1. Active' = Active
    BY <1>1, <1>6 DEF Active, TypeOK
  <2>2. Tokens' = Tokens
    BY <2>1 DEF LogWriteCheck, Tokens
  <2>3. TypeOK'
    <3>1. pc' \in [Proc -> {"idle", "begin", "sleep", "op", "log_write", "commit"}]
      BY <1>6 DEF TypeOK
    <3>2. pend' \in [Proc -> SUBSET Block]
      BY <1>6 DEF TypeOK
    <3> QED BY <1>2, <1>6, <3>1, <3>2 DEF LogWriteCheck, TypeOK, diskVars
  <2>4. PhaseInv'
    BY <1>1, <1>4, <2>1 DEF LogWriteCheck, PhaseInv
  <2>5. CommitterInv'
    <3>1. \A q \in Proc : pc'[q] = "commit" <=> pc[q] = "commit"
      BY <1>6 DEF LogWriteCheck, TypeOK
    <3> QED BY <3>1 DEF LogWriteCheck, CommitterInv
  <2>6. ListInv'
    <3>1. /\ pc[p] = "op" /\ pc'[p] = "log_write" /\ pend'[p] = {b}
          /\ \A q \in Proc : q # p => pc'[q] = pc[q] /\ pend'[q] = pend[q]
      BY <1>6 DEF LogWriteCheck, TypeOK
    <3>2. Cardinality(wrote[p] \cup {b}) <= OpBlocks
      BY DEF LogWriteCheck
    <3>3. \A q \in Proc : /\ wrote'[q] = wrote[q]
                          /\ q # p => pc'[q] = pc[q] /\ pend'[q] = pend[q]
      BY <3>1 DEF LogWriteCheck
    <3>4. Distinct(lh)' /\ Distinct(hdr)' /\ (Len(hdr) <= LOGSIZE)'
      BY DEF LogWriteCheck, ListInv, diskVars
    <3>5. \A q \in Proc : /\ wrote'[q] \subseteq Range(lh')
                          /\ q \notin Active' => wrote'[q] = {}
      BY <2>1, <3>3 DEF LogWriteCheck, ListInv
    <3>6. \A q \in Proc : /\ pc'[q] = "log_write" => \E c \in Block : pend'[q] = {c}
                          /\ pc'[q] # "log_write" => pend'[q] = {}
      BY <3>1, <3>3 DEF ListInv
    <3>7. \A q \in Proc : q \in Active' => Cardinality(wrote'[q] \cup pend'[q]) <= OpBlocks
      BY <2>1, <3>1, <3>2, <3>3 DEF ListInv
    <3> QED BY <3>4, <3>5, <3>6, <3>7 DEF ListInv
  <2>7. SpaceInv'
    BY <2>1, <2>2 DEF LogWriteCheck, SpaceInv
  <2>8. DataInv'
    <3>1. pend'[p] = {b} /\ \A q \in Proc : q # p => pend'[q] = pend[q]
      BY <1>6 DEF TypeOK
    <3>2. pend[p] = {}
      BY DEF LogWriteCheck, ListInv
    <3> QED BY <1>3, <1>4, <1>6, <3>1, <3>2 DEF LogWriteCheck, DataInv, diskVars
  <2> QED BY <2>3, <2>4, <2>5, <2>6, <2>7, <2>8
<1> QED BY <1>5, <1>6 DEF LogWriteCheck

(* end_op gives back what its call did not use, or starts the commit.      *)
LEMMA EndOpInv ==
  ASSUME LogInv, NEW p \in Proc, EndOp(p)
  PROVE  LogInv'
<1> USE DEF LogInv
<1>1. p \in Active /\ ~committing /\ ~booting /\ ~panicked
  BY DEF EndOp, Active, PhaseInv
<1>2. phase = "none"
  BY <1>1 DEF PhaseInv, TypeOK, Phases
<1>3. /\ IsFiniteSet(Active \ {p})
      /\ Cardinality(Active \ {p}) = outstanding - 1
      /\ outstanding - 1 \in Nat
  BY <1>1, Finite, FS_RemoveElement, FS_CardinalityType DEF PhaseInv
<1>4. wrote' \in [Proc -> SUBSET Block] /\ wrote'[p] = {}
  BY DEF EndOp, TypeOK
<1>5. \A q \in Proc : q # p => wrote'[q] = wrote[q]
  BY DEF EndOp, TypeOK
<1>6. pend[p] = {}
  BY DEF EndOp, ListInv
<1>7. DataInv' /\ Len(lh) \in Nat /\ lh' = lh
  <2>1. Len(lh) \in Nat /\ lh' = lh
    BY DEF TypeOK, EndOp
  <2>2. phase' \in {"none", "write_log", "done"} /\ (phase' = "write_log" => tail' = 1)
    BY <1>1, <1>2 DEF EndOp
  <2> QED BY <1>1, <1>2, <2>1, <2>2 DEF EndOp, DataInv, diskVars
<1>8. CASE LastCall
  <2>1. /\ pc' = [pc EXCEPT ![p] = "commit"]
        /\ committing' = TRUE
        /\ phase' = IF Len(lh) > 0 THEN "write_log" ELSE "done"
        /\ tail' = 1
        /\ UNCHANGED panicked
    BY <1>1, <1>8 DEF EndOp
  <2>2. Active' = Active \ {p}
    BY <2>1 DEF Active, TypeOK
  <2>3. Active' = {}
    BY <1>3, <1>8, <2>2, FS_EmptySet DEF LastCall
  <2>4. TypeOK'
    <3>1. pc' \in [Proc -> {"idle", "begin", "sleep", "op", "log_write", "commit"}]
      BY <2>1 DEF TypeOK
    <3>2. phase' \in Phases /\ tail' \in Nat \ {0}
      BY <2>1 DEF Phases
    <3>3. committing' \in BOOLEAN /\ panicked' \in BOOLEAN /\ booting' \in BOOLEAN
      BY <2>1 DEF EndOp, TypeOK
    <3>4. outstanding' \in Nat
      BY <1>3 DEF EndOp
    <3> QED BY <1>4, <3>1, <3>2, <3>3, <3>4 DEF EndOp, TypeOK, diskVars
  <2>5. PhaseInv'
    <3>1. Len(lh) = 0 => lh = <<>>
      BY DEF TypeOK
    <3>2. Len(lh) > 0 => 1 <= Len(lh)
      BY <1>7
    <3>3. outstanding' = Cardinality(Active')
      BY <1>3, <2>2 DEF EndOp
    <3> QED BY <1>1, <1>7, <2>1, <2>3, <3>1, <3>2, <3>3 DEF EndOp, PhaseInv
  <2>6. CommitterInv'
    <3>1. \A q \in Proc : pc'[q] = "commit" <=> q = p
      BY <1>1, <2>1 DEF TypeOK, CommitterInv
    <3> QED BY <2>1, <3>1 DEF CommitterInv
  <2>7. ListInv'
    <3>1. \A q \in Proc : (pc'[q] # "log_write" /\ q \notin Active)
                            \/ (q = p /\ pc'[q] # "log_write")
      BY <2>1, <2>2, <2>3 DEF Active, TypeOK
    <3>2. \A q \in Proc : q # p => pend[q] = {}
      BY <3>1 DEF ListInv, Active
    <3> QED BY <1>4, <1>5, <1>6, <1>7, <2>3, <3>1, <3>2 DEF EndOp, ListInv, diskVars
  <2>8. SpaceInv'
    BY <2>3 DEF SpaceInv
  <2> QED BY <1>7, <2>4, <2>5, <2>6, <2>7, <2>8
<1>9. CASE ~LastCall
  <2>1. /\ pc' = Wakeup([pc EXCEPT ![p] = "idle"])
        /\ UNCHANGED <<committing, phase, tail, panicked>>
    BY <1>1, <1>9 DEF EndOp
  <2>2. Active' = Active \ {p}
    BY <2>1 DEF Active, TypeOK, Wakeup
  <2>3. TypeOK'
    <3>1. pc' \in [Proc -> {"idle", "begin", "sleep", "op", "log_write", "commit"}]
      BY <2>1 DEF TypeOK, Wakeup
    <3>2. outstanding' \in Nat
      BY <1>3 DEF EndOp
    <3> QED BY <1>4, <2>1, <3>1, <3>2 DEF EndOp, TypeOK, diskVars
  <2>4. Active' # {}
    BY <1>3, <1>9, <2>2, FS_EmptySet DEF LastCall, TypeOK
  <2>5. PhaseInv'
    <3>1. outstanding' = Cardinality(Active')
      BY <1>3, <2>2 DEF EndOp
    <3> QED BY <1>1, <1>2, <1>7, <2>1, <2>4, <3>1 DEF EndOp, PhaseInv
  <2>6. CommitterInv'
    <3>1. \A q \in Proc : pc'[q] # "commit"
      BY <1>1, <2>1 DEF TypeOK, CommitterInv, Wakeup
    <3> QED BY <1>1, <2>1, <3>1 DEF CommitterInv
  <2>7. ListInv'
    <3>1. \A q \in Proc : q # p => (pc'[q] = "log_write" <=> pc[q] = "log_write")
      BY <2>1 DEF Wakeup, TypeOK
    <3>2. pc'[p] # "log_write"
      BY <2>1 DEF Wakeup, TypeOK
    <3> QED BY <1>4, <1>5, <1>6, <1>7, <2>2, <3>1, <3>2 DEF EndOp, ListInv, diskVars
  <2>8. SpaceInv'
    <3>1. Tokens' \in SUBSET Tokens
      <4> SUFFICES ASSUME NEW t \in Tokens' PROVE t \in Tokens
        OBVIOUS
      <4>1. t \in Active' \X (1..OpBlocks) /\ t[2] > Cardinality(wrote'[t[1]])
        BY DEF Tokens
      <4>2. t[1] \in Proc /\ t[1] # p /\ t \in Active \X (1..OpBlocks)
        BY <2>2, <4>1 DEF Active
      <4> QED BY <1>5, <4>1, <4>2 DEF Tokens
    <3>2. Cardinality(Tokens') <= Cardinality(Tokens) /\ Cardinality(Tokens') \in Nat
      BY <3>1, Finite, FS_Subset, FS_CardinalityType
    <3>3. /\ Len(lh) + Cardinality(Tokens) + 2 * (MAXOPBLOCKS - OpBlocks) <= LOGSIZE
          /\ Cardinality(Tokens) \in Nat
      BY <1>1, Finite DEF SpaceInv
    <3> QED BY <1>7, <3>2, <3>3, LogAssumption DEF SpaceInv
  <2> QED BY <1>7, <2>3, <2>5, <2>6, <2>7, <2>8
<1> QED BY <1>8, <1>9

(* A block appended to the list is paid for by one entitlement of its     *)
(* call; an absorbed block costs nothing.                                  *)
LEMMA LogWriteAppendInv ==
  ASSUME LogInv, NEW p \in Proc, LogWriteAppend(p)
  PROVE  LogInv'
<1> USE DEF LogInv
<1>1. PICK b \in Block : pend[p] = {b}
  BY DEF LogWriteAppend, ListInv
<1>2. /\ lh' = Absorb(lh, b)
      /\ wrote' = [wrote EXCEPT ![p] = @ \cup {b}]
      /\ pend' = [pend EXCEPT ![p] = {}]
      /\ pc' = [pc EXCEPT ![p] = "op"]
  BY <1>1 DEF LogWriteAppend
<1>3. p \in Active /\ ~committing /\ ~booting /\ phase = "none"
  <2>1. p \in Active
    BY DEF LogWriteAppend, Active
  <2>2. ~committing /\ ~booting
    BY <2>1 DEF LogWriteAppend, PhaseInv
  <2> QED BY <2>1, <2>2 DEF PhaseInv, TypeOK, Phases
<1>4. Active' = Active
  BY <1>2, <1>3 DEF Active, TypeOK
<1>5. /\ wrote'[p] = wrote[p] \cup {b} /\ pend'[p] = {} /\ pc'[p] = "op"
      /\ \A q \in Proc : q # p => /\ wrote'[q] = wrote[q]
                                  /\ pend'[q] = pend[q]
                                  /\ pc'[q] = pc[q]
  BY <1>2 DEF TypeOK
<1>6. /\ lh' \in Seq(Block) /\ Range(lh') = Range(lh) \cup {b} /\ Distinct(lh')
      /\ Len(lh') = IF b \in Range(lh) THEN Len(lh) ELSE Len(lh) + 1
      /\ Len(lh) \in Nat
  <2>1. lh \in Seq(Block) /\ Len(lh) \in Nat /\ Distinct(lh)
    BY DEF TypeOK, ListInv
  <2>2. CASE b \in Range(lh)
    BY <1>2, <2>1, <2>2 DEF Absorb
  <2>3. CASE b \notin Range(lh)
    <3>1. lh' = Append(lh, b)
      BY <1>2, <2>3 DEF Absorb
    <3>2. /\ lh' \in Seq(Block) /\ Len(lh') = Len(lh) + 1
          /\ \A i \in 1..Len(lh) : lh'[i] = lh[i]
          /\ lh'[Len(lh) + 1] = b
      BY <2>1, <3>1
    <3>3. DOMAIN lh' = 1..(Len(lh) + 1) /\ DOMAIN lh = 1..Len(lh)
      BY <2>1, <3>2
    <3>4. Range(lh') = Range(lh) \cup {b}
      BY <2>1, <3>2, <3>3 DEF Range
    <3>5. \A i \in 1..Len(lh) : lh[i] # b
      BY <2>3, <3>3 DEF Range
    <3>6. Distinct(lh')
      BY <2>1, <3>2, <3>3, <3>5 DEF Distinct
    <3> QED BY <2>1, <2>3, <3>2, <3>4, <3>6
  <2> QED BY <2>2, <2>3
<1>7. TypeOK'
  <2>1. wrote' \in [Proc -> SUBSET Block] /\ pend' \in [Proc -> SUBSET Block]
    BY <1>2 DEF TypeOK
  <2>2. pc' \in [Proc -> {"idle", "begin", "sleep", "op", "log_write", "commit"}]
    BY <1>2 DEF TypeOK
  <2> QED BY <1>6, <2>1, <2>2 DEF LogWriteAppend, TypeOK, diskVars
<1>8. PhaseInv'
  BY <1>3, <1>4 DEF LogWriteAppend, PhaseInv
<1>9. CommitterInv'
  <2>1. \A q \in Proc : pc'[q] # "commit"
    BY <1>3, <1>5 DEF CommitterInv
  <2> QED BY <1>3, <2>1 DEF LogWriteAppend, CommitterInv
<1>10. ListInv'
  <2>1. Distinct(lh)' /\ Distinct(hdr)' /\ (Len(hdr) <= LOGSIZE)'
    BY <1>6 DEF LogWriteAppend, ListInv, diskVars
  <2>2. \A q \in Proc : /\ wrote'[q] \subseteq Range(lh')
                        /\ q \notin Active' => wrote'[q] = {}
    BY <1>3, <1>4, <1>5, <1>6 DEF ListInv
  <2>3. \A q \in Proc : /\ pc'[q] = "log_write" => \E c \in Block : pend'[q] = {c}
                        /\ pc'[q] # "log_write" => pend'[q] = {}
    BY <1>5 DEF ListInv
  <2>4. \A q \in Proc : q \in Active' => Cardinality(wrote'[q] \cup pend'[q]) <= OpBlocks
    <3>1. wrote'[p] \cup pend'[p] = wrote[p] \cup pend[p]
      BY <1>1, <1>5
    <3> QED BY <1>4, <1>5, <3>1 DEF ListInv
  <2> QED BY <2>1, <2>2, <2>3, <2>4 DEF ListInv
<1>11. SpaceInv' /\ Len(lh') <= LOGSIZE
  <2> DEFINE c == Cardinality(wrote[p])
  <2>1. IsFiniteSet(wrote[p]) /\ c \in Nat /\ Cardinality(Tokens) \in Nat
    BY Finite
  <2>2. Cardinality(wrote[p] \cup {b}) = IF b \in wrote[p] THEN c ELSE c + 1
    BY <2>1, FS_AddElement
  <2>3. Cardinality(wrote[p] \cup {b}) <= OpBlocks
    BY <1>1, <1>3 DEF ListInv
  <2>4. Len(lh) + Cardinality(Tokens) + 2 * (MAXOPBLOCKS - OpBlocks) <= LOGSIZE
    BY <1>3 DEF SpaceInv
  <2>5. Tokens' = IF b \in wrote[p] THEN Tokens ELSE Tokens \ {<<p, c + 1>>}
    <3>1. \A q \in Active : q # p => Cardinality(wrote'[q]) = Cardinality(wrote[q])
      BY <1>5 DEF Active
    <3>2. Cardinality(wrote'[p]) = IF b \in wrote[p] THEN c ELSE c + 1
      BY <1>5, <2>2
    <3>3. \A q \in Active, k \in 1..OpBlocks :
            <<q, k>> \in Tokens' <=>
              <<q, k>> \in (IF b \in wrote[p] THEN Tokens ELSE Tokens \ {<<p, c + 1>>})
      BY <1>4, <2>1, <3>1, <3>2, LogAssumption DEF Tokens
    <3>4. /\ Tokens' \subseteq Active \X (1..OpBlocks)
          /\ Tokens \subseteq Active \X (1..OpBlocks)
      BY <1>4 DEF Tokens
    <3>5. \A t \in Active \X (1..OpBlocks) :
            t \in Tokens' <=>
              t \in (IF b \in wrote[p] THEN Tokens ELSE Tokens \ {<<p, c + 1>>})
      <4> HIDE DEF c
      <4> QED BY <3>3
    <3> HIDE DEF c
    <3> QED BY <3>4, <3>5
  <2>6. b \notin wrote[p] => <<p, c + 1>> \in Tokens
    BY <1>3, <2>1, <2>2, <2>3, LogAssumption DEF Tokens
  <2>7. /\ Cardinality(Tokens') \in Nat
        /\ Cardinality(Tokens') = IF b \in wrote[p] THEN Cardinality(Tokens)
                                                    ELSE Cardinality(Tokens) - 1
    <3> HIDE DEF c
    <3>1. IsFiniteSet(Tokens)
      BY Finite
    <3> QED BY <2>1, <2>5, <2>6, <3>1, FS_RemoveElement, FS_CardinalityType
  <2>8. b \notin Range(lh) => b \notin wrote[p]
    BY DEF ListInv
  <2>9. Len(lh') + Cardinality(Tokens') + 2 * (MAXOPBLOCKS - OpBlocks) <= LOGSIZE
    BY <1>6, <2>1, <2>4, <2>7, <2>8, LogAssumption
  <2> QED BY <1>6, <2>7, <2>9, LogAssumption DEF SpaceInv
<1>12. DataInv'
  BY <1>1, <1>3, <1>5, <1>6, <1>11 DEF LogWriteAppend, DataInv, diskVars
<1> QED BY <1>7, <1>8, <1>9, <1>10, <1>11, <1>12

(* Every step of the log preserves the invariant. *)
LEMMA StepInv == LogInv /\ [Next]_vars => LogInv'
<1> SUFFICES ASSUME LogInv, [Next]_vars PROVE LogInv'
  OBVIOUS
<1>1. CASE UNCHANGED vars
  <2>1. UNCHANGED <<lh, hdr, procVars>>
    BY <1>1 DEF vars, procVars
  <2>2. Active' = Active /\ ListInv' /\ SpaceInv'
    BY <2>1, CallsUnchanged DEF LogInv
  <2>3. TypeOK'
    BY <1>1 DEF vars, LogInv, TypeOK
  <2>4. PhaseInv' /\ CommitterInv'
    BY <1>1, <2>2 DEF vars, LogInv, PhaseInv, CommitterInv
  <2>5. DataInv'
    BY <1>1 DEF vars, LogInv, DataInv
  <2> QED BY <2>2, <2>3, <2>4, <2>5 DEF LogInv
<1>2. CASE Next
  <2>1. ASSUME NEW p \in Proc, BeginOp(p) PROVE LogInv'
    BY <2>1, BeginOpInv
  <2>2. ASSUME NEW p \in Proc, LogWriteAppend(p) PROVE LogInv'
    BY <2>2, LogWriteAppendInv
  <2>3. ASSUME NEW p \in Proc, EndOp(p) PROVE LogInv'
    BY <2>3, EndOpInv
  <2>4. ASSUME NEW p \in Proc, CommitDone(p) PROVE LogInv'
    BY <2>4, CommitDoneInv
  <2>5. ASSUME NEW p \in Proc, NEW b \in Block, NEW v \in Val, LogWriteCheck(p, b, v)
        PROVE  LogInv'
    BY <2>5, LogWriteCheckInv
  <2>6. CASE Commit
    BY <2>6, WriteLogInv, WriteHeadInv, InstallTransInv, EraseInv DEF Commit
  <2>7. CASE ReadHead
    BY <2>7, ReadHeadInv
  <2>8. CASE Crash
    BY <2>8, CrashInv
  <2> QED BY <1>2, <2>1, <2>2, <2>3, <2>4, <2>5, <2>6, <2>7, <2>8 DEF Next
<1> QED BY <1>1, <1>2

(* Theorem: log.c keeps its invariant, for any number of processes and     *)
(* blocks and any sizes that satisfy LogAssumption.                        *)
THEOREM Invariance == Spec => []LogInv
BY InitInv, StepInv, PTL DEF Spec

(* Theorem: the variables of the log keep their types. *)
THEOREM TypeCorrect == Spec => []TypeOK
<1>1. LogInv => TypeOK
  BY DEF LogInv
<1> QED BY <1>1, Invariance, PTL

(* Theorem: logheader.block never overflows and lists no block twice,      *)
(* whatever the interleaving of the calls, as long as no call logs more    *)
(* than MAXOPBLOCKS blocks.                                                *)
THEOREM LogNeverOverflows == Spec => []LogFits
<1>1. LogInv => LogFits
  BY DEF LogInv, DataInv, ListInv, LogFits
<1> QED BY <1>1, Invariance, PTL

(* Theorem: no process is left asleep in begin_op with nobody to wake it.  *)
(* A sleeper needs a call or a commit in progress at all times.            *)
THEOREM NoLostWakeup == Spec => []SleeperHasWaker
<1>1. LogInv /\ SleeperHasWaker /\ [Next]_vars => SleeperHasWaker'
  <2> SUFFICES ASSUME LogInv, SleeperHasWaker, [Next]_vars PROVE SleeperHasWaker'
    OBVIOUS
  <2> USE DEF LogInv
  <2>1. ASSUME NEW p \in Proc, BeginOp(p) PROVE SleeperHasWaker'
    <3>1. NoSpace /\ ~committing => outstanding > 0
      <4> SUFFICES ASSUME NoSpace, ~committing, outstanding = 0 PROVE FALSE
        BY DEF TypeOK
      <4>1. lh = <<>>
        BY <2>1, Finite, FS_EmptySet DEF BeginOp, PhaseInv, TypeOK, Phases
      <4> QED BY <4>1, LogAssumption DEF NoSpace
    <3>2. ~committing /\ ~NoSpace => outstanding' > 0
      BY <2>1 DEF BeginOp, TypeOK
    <3> QED BY <2>1, <3>1, <3>2 DEF BeginOp, SleeperHasWaker
  <2>2. ASSUME NEW p \in Proc, NEW b \in Block, NEW v \in Val, LogWriteCheck(p, b, v)
        PROVE  SleeperHasWaker'
    BY <2>2 DEF LogWriteCheck, SleeperHasWaker, TypeOK
  <2>3. ASSUME NEW p \in Proc, LogWriteAppend(p) PROVE SleeperHasWaker'
    BY <2>3 DEF LogWriteAppend, SleeperHasWaker, TypeOK
  <2>4. ASSUME NEW p \in Proc, EndOp(p) PROVE SleeperHasWaker'
    <3>1. ~committing
      BY <2>4 DEF EndOp, PhaseInv, Active
    <3>2. ~LastCall => \A q \in Proc : pc'[q] # "sleep"
      BY <2>4, <3>1 DEF EndOp, Wakeup, TypeOK
    <3>3. LastCall => committing'
      BY <2>4, <3>1 DEF EndOp
    <3> QED BY <3>2, <3>3 DEF SleeperHasWaker
  <2>5. ASSUME NEW p \in Proc, CommitDone(p) PROVE SleeperHasWaker'
    BY <2>5 DEF CommitDone, Wakeup, SleeperHasWaker, TypeOK
  <2>6. CASE Crash
    BY <2>6 DEF Crash, SleeperHasWaker
  <2>7. CASE UNCHANGED <<pc, committing, outstanding>>
    BY <2>7 DEF SleeperHasWaker
  <2>8. Commit \/ ReadHead \/ UNCHANGED vars => UNCHANGED <<pc, committing, outstanding>>
    BY DEF Commit, WriteLog, WriteHead, InstallTrans, Erase, ReadHead, vars, procVars
  <2> QED BY <2>1, <2>2, <2>3, <2>4, <2>5, <2>6, <2>7, <2>8 DEF Next
<1>2. Init => SleeperHasWaker
  BY DEF Init, SleeperHasWaker
<1> QED BY <1>1, <1>2, Invariance, PTL DEF Spec

(* Theorem: log_write and end_op never panic, if every call logs fewer     *)
(* blocks than begin_op reserves for it and the superblock's nlog is not   *)
(* below LOGSIZE.  One block of slack per call is needed because the log   *)
(* header takes one of the nlog blocks and because log_write tests for     *)
(* space before it looks whether the block is listed already.              *)
THEOREM ReservationSuffices ==
  OpBlocks < MAXOPBLOCKS /\ nlog >= LOGSIZE => (Spec => []NoPanic)
<1> SUFFICES ASSUME OpBlocks < MAXOPBLOCKS, nlog >= LOGSIZE
             PROVE  Spec => []NoPanic
  OBVIOUS
<1>1. LogInv /\ NoPanic /\ [Next]_vars => NoPanic'
  <2> SUFFICES ASSUME LogInv, NoPanic, [Next]_vars PROVE NoPanic'
    OBVIOUS
  <2>1. ASSUME NEW p \in Proc, NEW b \in Block, NEW v \in Val, LogWriteCheck(p, b, v)
        PROVE  NoPanic'
    <3>1. p \in Active
      BY <2>1 DEF LogWriteCheck, Active
    <3>2. outstanding >= 1
      <4>1. outstanding # 0 /\ outstanding \in Nat
        BY <3>1, Finite, FS_EmptySet DEF LogInv, PhaseInv
      <4> QED BY <4>1
    <3>3. Len(lh) + 2 * (MAXOPBLOCKS - OpBlocks) <= LOGSIZE /\ Len(lh) \in Nat
      BY <3>1, Finite, LogAssumption DEF LogInv, SpaceInv, TypeOK
    <3>4. ~(Len(lh) >= LOGSIZE \/ Len(lh) + 1 >= nlog \/ outstanding < 1)
      BY <3>2, <3>3, LogAssumption DEF LogInv, TypeOK
    <3> QED BY <2>1, <3>4 DEF LogWriteCheck, NoPanic
  <2>2. ASSUME NEW p \in Proc, EndOp(p) PROVE NoPanic'
    <3>1. ~committing
      BY <2>2 DEF EndOp, LogInv, PhaseInv, Active
    <3> QED BY <2>2, <3>1 DEF EndOp, NoPanic
  <2>3. CASE Crash
    BY <2>3 DEF Crash, NoPanic
  <2>4. CASE UNCHANGED panicked
    BY <2>4 DEF NoPanic
  <2>5. \A p \in Proc : BeginOp(p) \/ LogWriteAppend(p) \/ CommitDone(p) => UNCHANGED panicked
    BY DEF BeginOp, LogWriteAppend, CommitDone
  <2>6. Commit \/ ReadHead \/ UNCHANGED vars => UNCHANGED panicked
    BY DEF Commit, WriteLog, WriteHead, InstallTrans, Erase, ReadHead, vars
  <2> QED BY <2>1, <2>2, <2>3, <2>4, <2>5, <2>6 DEF Next
<1>2. Init => NoPanic
  BY DEF Init, NoPanic
<1> QED BY <1>1, <1>2, Invariance, PTL DEF Spec

(* What recovery restores: the logged copy of a block the header lists,    *)
(* the block itself otherwise.                                             *)
LEMMA RecoveredBlocks ==
  ASSUME TypeOK, Distinct(hdr)
  PROVE  /\ \A b \in Block \ Range(hdr) : Recovered[b] = disk[b]
         /\ \A j \in 1..Len(hdr) : Recovered[hdr[j]] = logblk[j]
         /\ hdr = <<>> => Recovered = disk
         /\ \A b \in Range(hdr) : \E j \in 1..Len(hdr) : b = hdr[j]
         /\ DOMAIN Recovered = Block
<1>1. DOMAIN hdr = 1..Len(hdr) /\ \A j \in 1..Len(hdr) : hdr[j] \in Block
  BY DEF TypeOK
<1>2. ASSUME NEW j \in 1..Len(hdr) PROVE Recovered[hdr[j]] = logblk[j]
  <2>1. hdr[j] \in Range(hdr) /\ hdr[j] \in Block
    BY <1>1 DEF Range
  <2>2. \A i \in DOMAIN hdr : hdr[i] = hdr[j] => i = j
    BY <1>1 DEF Distinct
  <2>3. (CHOOSE i \in DOMAIN hdr : hdr[i] = hdr[j]) = j
    BY <1>1, <2>2
  <2> QED BY <2>1, <2>3 DEF Recovered
<1>3. hdr = <<>> => Range(hdr) = {}
  BY DEF Range
<1>4. hdr = <<>> => Recovered = disk
  BY <1>3 DEF Recovered, TypeOK
<1> QED BY <1>1, <1>2, <1>4 DEF Recovered, Range

(* Theorem: when end_op clears log.committing, what a crash and a recovery *)
(* would restore is what the calls have written.                           *)
THEOREM CommitIsDurable == Spec => DurableAtCommit
<1> DEFINE A == committing /\ ~committing' /\ ~booting' => Recovered' = cache'
<1>1. LogInv /\ [Next]_vars => [A]_vars
  <2> SUFFICES ASSUME LogInv, [Next]_vars, committing, ~committing', ~booting'
               PROVE  Recovered' = cache'
    OBVIOUS
  <2>1. PICK p \in Proc : CommitDone(p)
    BY DEF Next, BeginOp, LogWriteCheck, LogWriteAppend, EndOp, Commit, WriteLog,
           WriteHead, InstallTrans, Erase, ReadHead, Crash, vars
  <2>2. hdr = <<>> /\ lh = <<>> /\ Active = {} /\ ~panicked
    BY <2>1 DEF CommitDone, LogInv, PhaseInv, DataInv
  <2>3. cache = disk
    <3>1. \A q \in Proc : pend[q] = {}
      BY <2>2 DEF LogInv, ListInv, Active
    <3> QED BY <2>2, <3>1 DEF LogInv, DataInv, TypeOK, Range
  <2>4. Recovered = disk
    BY <2>2, RecoveredBlocks DEF LogInv, ListInv
  <2> QED BY <2>1, <2>3, <2>4 DEF CommitDone, Recovered, diskVars
<1> HIDE DEF A
<1>2. Spec => [][A]_vars
  BY <1>1, Invariance, PTL DEF Spec
<1> QED BY <1>2 DEF DurableAtCommit, A

(* The contents of the blocks as the running system sees them. *)
Mem == IF booting THEN Recovered ELSE cache

(* Each step of the log is a step of the atomic disk, or leaves it alone. *)
LEMMA StepSimulation ==
  LogInv /\ LogInv' /\ [Next]_vars => [Atomic!Next]_(Atomic!vars)
<1> SUFFICES ASSUME LogInv, LogInv', [Next]_vars
             PROVE  [Atomic!Next]_(Atomic!vars)
  OBVIOUS
<1> DEFINE Same == UNCHANGED <<Recovered, Mem, Active>>
<1>0. Same => UNCHANGED Atomic!vars
  BY DEF Atomic!vars, Mem
<1>1. UNCHANGED <<disk, logblk, hdr>> => Recovered' = Recovered
  BY DEF Recovered
<1>2. ASSUME NEW p \in Proc, BeginOp(p) PROVE Same \/ Atomic!Begin(p)
  <2>1. Recovered' = Recovered /\ Mem' = Mem
    BY <1>1, <1>2 DEF BeginOp, diskVars, Mem
  <2>2. CASE committing \/ NoSpace
    <3>1. Active' = Active
      BY <1>2, <2>2 DEF BeginOp, Active, LogInv, TypeOK
    <3> QED BY <2>1, <3>1
  <2>3. CASE ~(committing \/ NoSpace)
    <3>1. p \notin Active /\ Active' = Active \cup {p}
      BY <1>2, <2>3 DEF BeginOp, Active, LogInv, TypeOK
    <3> QED BY <2>1, <3>1 DEF Atomic!Begin, Mem
  <2> QED BY <2>2, <2>3
<1>3. ASSUME NEW p \in Proc, NEW b \in Block, NEW v \in Val, LogWriteCheck(p, b, v)
      PROVE  Atomic!Write(p, b, v)
  <2>1. Recovered' = Recovered
    BY <1>1, <1>3 DEF LogWriteCheck, diskVars
  <2>2. ~booting /\ ~booting' /\ cache' = [cache EXCEPT ![b] = v]
    BY <1>3 DEF LogWriteCheck
  <2>3. p \in Active /\ Active' = Active
    BY <1>3 DEF LogWriteCheck, Active, LogInv, TypeOK
  <2> QED BY <2>1, <2>2, <2>3 DEF Atomic!Write
<1>4. ASSUME NEW p \in Proc, LogWriteAppend(p) PROVE Same
  <2>1. Recovered' = Recovered /\ Mem' = Mem
    BY <1>1, <1>4 DEF LogWriteAppend, diskVars, Mem
  <2>2. Active' = Active
    BY <1>4 DEF LogWriteAppend, Active, LogInv, TypeOK
  <2> QED BY <2>1, <2>2
<1>5. ASSUME NEW p \in Proc, EndOp(p) PROVE Atomic!End(p)
  <2>1. Recovered' = Recovered /\ Mem' = Mem
    BY <1>1, <1>5 DEF EndOp, diskVars, Mem
  <2>2. p \in Active /\ ~committing
    BY <1>5 DEF EndOp, Active, LogInv, PhaseInv
  <2>3. Active' = Active \ {p}
    BY <1>5, <2>2 DEF EndOp, Active, LogInv, TypeOK, Wakeup
  <2> QED BY <2>1, <2>2, <2>3 DEF Atomic!End, Mem
<1>6. ASSUME NEW p \in Proc, CommitDone(p) PROVE Same
  <2>1. Recovered' = Recovered /\ Mem' = Mem
    BY <1>1, <1>6 DEF CommitDone, diskVars, Mem
  <2>2. Active' = Active
    BY <1>6 DEF CommitDone, Active, LogInv, TypeOK, Wakeup
  <2> QED BY <2>1, <2>2
<1>7. ASSUME WriteLog PROVE Same
  <2>1. hdr = <<>> /\ hdr' = <<>> /\ disk' = disk
    BY <1>7 DEF WriteLog, LogInv, DataInv
  <2>2. Recovered = disk /\ Recovered' = disk'
    BY <2>1, RecoveredBlocks DEF Recovered, Range, LogInv, TypeOK
  <2> QED BY <1>7, <2>1, <2>2 DEF WriteLog, Mem, Active, procVars
<1>8. ASSUME WriteHead PROVE Atomic!Commit
  <2>1. Active = {} /\ Active' = {} /\ ~booting /\ ~booting' /\ ~panicked
    BY <1>8 DEF WriteHead, LogInv, PhaseInv, Active, procVars
  <2>2. \A b \in Block : Recovered'[b] = cache[b]
    <3>1. hdr' = lh /\ UNCHANGED <<logblk, disk, cache, lh>>
      BY <1>8 DEF WriteHead
    <3>2. \A q \in Proc : pend[q] = {}
      BY <2>1 DEF LogInv, ListInv, Active
    <3>3. \A b \in Block \ Range(lh) : disk[b] = cache[b]
      BY <2>1, <3>2 DEF LogInv, DataInv
    <3>4. \A j \in 1..Len(lh) : logblk[j] = cache[lh[j]]
      BY <1>8 DEF WriteHead, LogInv, DataInv
    <3>5. /\ DOMAIN lh = 1..Len(lh)
          /\ \A i, j \in DOMAIN lh : lh[i] = lh[j] => i = j
      BY DEF LogInv, TypeOK, ListInv, Distinct
    <3>6. ASSUME NEW b \in Block PROVE Recovered'[b] = cache[b]
      <4>1. CASE b \notin Range(lh)
        BY <3>1, <3>3, <4>1 DEF Recovered
      <4>2. CASE b \in Range(lh)
        <5>1. PICK j \in DOMAIN lh : lh[j] = b
          BY <4>2 DEF Range
        <5>2. (CHOOSE i \in DOMAIN lh : lh[i] = b) = j
          BY <3>5, <5>1
        <5> QED BY <3>1, <3>4, <3>5, <4>2, <5>1, <5>2 DEF Recovered
      <4> QED BY <4>1, <4>2
    <3> QED BY <3>6
  <2>3. Recovered' = cache
    BY <2>2 DEF Recovered, LogInv, TypeOK
  <2>4. cache' = cache
    BY <1>8 DEF WriteHead
  <2> QED BY <2>1, <2>3, <2>4 DEF Atomic!Commit
<1>9. ASSUME InstallTrans PROVE Same
  <2>1. /\ tail \in 1..Len(lh) /\ lh[tail] \in Range(lh) /\ hdr = lh /\ lh[tail] \in Block
    BY <1>9 DEF InstallTrans, LogInv, DataInv, PhaseInv, TypeOK, Range
  <2>2. \A b \in Block : b \notin Range(hdr) => disk'[b] = disk[b]
    BY <1>9, <2>1 DEF InstallTrans, LogInv, TypeOK
  <2>3. hdr' = hdr /\ logblk' = logblk
    BY <1>9 DEF InstallTrans
  <2>4. Recovered' = Recovered
    BY <2>2, <2>3 DEF Recovered
  <2>5. ~booting => cache' = cache
    BY <1>9, <2>1 DEF InstallTrans, LogInv, DataInv, TypeOK
  <2> QED BY <1>9, <2>4, <2>5 DEF InstallTrans, Mem, Active, procVars
<1>10. ASSUME Erase PROVE Same
  <2>1. hdr = lh /\ \A j \in 1..Len(hdr) : disk[hdr[j]] = logblk[j]
    BY <1>10 DEF Erase, LogInv, DataInv
  <2>2. Recovered = disk
    <3>1. \A b \in Block : Recovered[b] = disk[b]
      BY <2>1, RecoveredBlocks DEF LogInv, ListInv
    <3> QED BY <3>1 DEF Recovered, LogInv, TypeOK
  <2>3. Recovered' = disk
    <3>1. hdr' = <<>> /\ disk' = disk
      BY <1>10 DEF Erase
    <3> QED BY <3>1 DEF Recovered, Range, LogInv, TypeOK
  <2>4. booting => cache = disk
    BY DEF LogInv, DataInv
  <2> QED BY <1>10, <2>2, <2>3, <2>4 DEF Erase, Mem, Active, procVars
<1>11. ASSUME ReadHead PROVE Same
  BY <1>1, <1>11 DEF ReadHead, LogInv, PhaseInv, Mem, Active, procVars, diskVars
<1>12. ASSUME Crash PROVE Atomic!Crash
  <2>1. Recovered' = Recovered
    BY <1>1, <1>12 DEF Crash, diskVars
  <2>2. Active' = {} /\ booting'
    BY <1>12 DEF Crash, Active
  <2> QED BY <2>1, <2>2 DEF Atomic!Crash
<1>13. CASE UNCHANGED vars
  <2>1. Same
    BY <1>1, <1>13 DEF vars, Mem, Active
  <2> QED BY <1>0, <2>1
<1>14. CASE Next
  <2> HIDE DEF Same
  <2> QED BY <1>0, <1>2, <1>3, <1>4, <1>5, <1>6, <1>7, <1>8, <1>9, <1>10, <1>11,
             <1>12, <1>14 DEF Next, Commit, Atomic!Next
<1> QED BY <1>13, <1>14

(* Theorem: log.c implements the atomic disk.  Whatever the interleaving   *)
(* of the calls and wherever power fails, in a commit or in a recovery,    *)
(* what recovery restores is the state between two groups of calls.        *)
THEOREM LogImplementsAtomicDisk == Spec => ImplementsAtomicDisk
<1>1. Init => Atomic!Init
  <2> SUFFICES ASSUME Init PROVE Atomic!Init
    OBVIOUS
  <2>1. Recovered = disk
    BY DEF Init, Recovered, Range
  <2>2. Active = {} /\ booting /\ disk \in [Block -> Val]
    BY DEF Init, Active
  <2> QED BY <2>1, <2>2 DEF Atomic!Init
<1> QED BY <1>1, StepSimulation, Invariance, PTL DEF Spec, ImplementsAtomicDisk, Atomic!Spec

=============================================================================
