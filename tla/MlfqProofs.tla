----------------------------- MODULE MlfqProofs -----------------------------
(***************************************************************************)
(* Proofs about the scheduler of pj1, module Mlfq, for any number of       *)
(* processes, CPUs, ticks and priorities, as long as no process calls      *)
(* schedulerLock.                                                          *)
(***************************************************************************)
EXTENDS Mlfq, LinksProofs

(* The sizes of a machine. *)
Sized ==
  /\ NPROC \in Nat \ {0} /\ BOOST \in Nat \ {0} /\ MAXPRI \in Nat
  /\ QuantumBase \in Nat \ {0} /\ QuantumStep \in Nat

(* The assumption on the machines, for the one at hand. *)
LEMMA Sizes == conf \in Confs => Sized
BY MlfqAssumption DEF Sized, NPROC, BOOST, MAXPRI, QuantumBase, QuantumStep
-----------------------------------------------------------------------------
(* The processes that are queued at a level, and a table whose three       *)
(* queues are lanes of exactly these.                                      *)
Members(t, l) == {p \in Slots : t.already_enqueued[p] /\ t.level[p] = l}

Lined(t) ==
  t \in Table /\ \A l \in Levels : Lane(t.next, t.level_queue[l], Members(t, l))

(* u is t except for the queues. *)
Frame(t, u) ==
  /\ u.state = t.state /\ u.parent = t.parent /\ u.chan = t.chan /\ u.killed = t.killed
  /\ u.level = t.level /\ u.priority = t.priority
  /\ u.time_allotment = t.time_allotment /\ u.lock_scheduler = t.lock_scheduler
  /\ u.global_tick = t.global_tick /\ u.scheduler_locked = t.scheduler_locked
  /\ u.fault = t.fault

(* Types of the links of a table. *)
LEMMA TableNext ==
  ASSUME Sized, NEW t, Lined(t)
  PROVE  /\ NPROC \in Nat /\ t.next \in [1..NPROC -> 0..NPROC]
         /\ t.already_enqueued \in [Slots -> BOOLEAN] /\ t.level \in [Slots -> Levels]
         /\ t.level_queue \in [Levels -> 0..NPROC]
BY DEF Sized, Lined, Table, Slots

(* What the walks find in a queue. *)
LEMMA QueueSeen ==
  ASSUME Sized, NEW t, Lined(t), NEW l \in Levels
  PROVE  LaneSeen(t, t.level_queue[l], Members(t, l), NPROC)
BY TableNext, LaneWalk DEF Lined

(* A queue that does not change. *)
LEMMA QueueSame ==
  ASSUME Sized, NEW t, Lined(t), NEW u \in Table, NEW l \in Levels,
         u.level_queue[l] = t.level_queue[l], Members(u, l) = Members(t, l),
         \A q \in Members(t, l) : u.next[q] = t.next[q]
  PROVE  Lane(u.next, u.level_queue[l], Members(u, l))
<1>1. DOMAIN u.next = DOMAIN t.next
  BY DEF Lined, Table
<1>2. Lane(t.next, t.level_queue[l], Members(t, l))
  BY DEF Lined
<1> QED BY <1>1, <1>2, LaneSame

(* A change of the queues alone. *)
Changed(t, u, g, nx, e) ==
  u \in Table /\ Frame(t, u) /\ u.level_queue = g /\ u.next = nx /\ u.already_enqueued = e

(* The table stays of its type when links of the right type are put in. *)
LEMMA TableChange ==
  ASSUME NEW t \in Table, NEW g \in [Levels -> 0..NPROC], NEW nx \in [Slots -> 0..NPROC],
         NEW e \in [Slots -> BOOLEAN]
  PROVE  Changed(t, [t EXCEPT !.level_queue = g, !.next = nx, !.already_enqueued = e], g, nx, e)
BY DEF Table, Frame, Changed

(* enqueue puts a process at the end of the queue of its level. *)
Queues(t, u, p) ==
  Lined(u) /\ Frame(t, u) /\ u.already_enqueued = [t.already_enqueued EXCEPT ![p] = TRUE]

(* enqueue(p, level of p) keeps the three queues exact and adds p alone. *)
LEMMA EnqueueLines ==
  ASSUME Sized, NEW t, Lined(t), NEW p \in Slots
  PROVE  Queues(t, enqueue(t, p, t.level[p]), p)
<1> DEFINE l == t.level[p]
           h == t.level_queue[l]
           u == enqueue(t, p, l)
<1>1. t \in Table /\ l \in Levels /\ NPROC \in Nat
  BY DEF Lined, Table, Sized
<1>e. /\ t.already_enqueued \in [Slots -> BOOLEAN] /\ t.level \in [Slots -> Levels]
      /\ t.next \in [Slots -> 0..NPROC] /\ t.level_queue \in [Levels -> 0..NPROC]
  BY <1>1 DEF Table
<1>l. t.level[p] = l
  OBVIOUS
<1>p. p \in 0..NPROC /\ 0 \in 0..NPROC
  BY <1>1 DEF Slots
<1>s. SUFFICES Queues(t, u, p)
  OBVIOUS
<1> HIDE DEF l
<1>2. LaneSeen(t, h, Members(t, l), NPROC)
  BY <1>1, QueueSeen
<1>3. CASE t.already_enqueued[p]
  <2>1. u = t
    BY <1>3 DEF enqueue
  <2>2. t.already_enqueued = [t.already_enqueued EXCEPT ![p] = TRUE]
    BY <1>1, <1>3 DEF Table
  <2> QED BY <2>1, <2>2 DEF Queues, Frame
<1>4. CASE ~t.already_enqueued[p] /\ h = 0
  <2>1. u = [t EXCEPT !.level_queue[l] = p, !.next[p] = 0, !.already_enqueued[p] = TRUE]
    BY <1>4 DEF enqueue
  <2> HIDE DEF u
  <2>2. /\ u \in Table /\ Frame(t, u)
        /\ u.level_queue = [t.level_queue EXCEPT ![l] = p]
        /\ u.next = [t.next EXCEPT ![p] = 0]
        /\ u.already_enqueued = [t.already_enqueued EXCEPT ![p] = TRUE]
    <3> DEFINE g == [t.level_queue EXCEPT ![l] = p]
               nx == [t.next EXCEPT ![p] = 0]
               e == [t.already_enqueued EXCEPT ![p] = TRUE]
    <3>1. g \in [Levels -> 0..NPROC] /\ nx \in [Slots -> 0..NPROC] /\ e \in [Slots -> BOOLEAN]
      BY <1>1, <1>e, <1>p
    <3>2. u = [t EXCEPT !.level_queue = g, !.next = nx, !.already_enqueued = e]
      BY <2>1
    <3> HIDE DEF g, nx, e
    <3>3. Changed(t, u, g, nx, e)
      BY <1>1, <3>1, <3>2, TableChange
    <3> QED BY <3>3 DEF Changed, g, nx, e
  <2>3. Members(u, l) = {p}
    BY <1>e, <1>l, <1>2, <1>4, <2>2 DEF Members, LaneSeen, Frame
  <2>4. Lane(u.next, u.level_queue[l], Members(u, l))
    <3>1. u.next \in [1..NPROC -> 0..NPROC] /\ p \in 1..NPROC /\ u.next[p] = 0
      BY <1>1, <2>2 DEF Table, Slots
    <3>2. u.level_queue[l] = p
      BY <1>1, <2>2 DEF Table
    <3> QED BY <1>1, <2>3, <3>1, <3>2, LaneOne
  <2>5. ASSUME NEW m \in Levels, m # l PROVE Lane(u.next, u.level_queue[m], Members(u, m))
    <3>1. u.level_queue[m] = t.level_queue[m]
      BY <1>1, <2>2, <2>5 DEF Table
    <3>2. Members(u, m) = Members(t, m)
      BY <1>e, <1>l, <2>2, <2>5 DEF Members, Frame
    <3>3. \A q \in Members(t, m) : u.next[q] = t.next[q]
      BY <1>e, <1>l, <2>2, <2>5 DEF Members
    <3> QED BY <2>2, <3>1, <3>2, <3>3, QueueSame
  <2> QED BY <2>2, <2>4, <2>5 DEF Queues, Lined
<1>5. CASE ~t.already_enqueued[p] /\ h # 0
  <2> DEFINE z == LastNode(t, h)
  <2>1. u = [t EXCEPT !.next = [@ EXCEPT ![z] = p, ![p] = 0], !.already_enqueued[p] = TRUE]
    BY <1>2, <1>5 DEF enqueue, LaneSeen
  <2> HIDE DEF u
  <2>2. z \in Members(t, l) /\ p \notin Members(t, l)
    <3>1. Lane(t.next, h, Members(t, l)) /\ h # 0
      BY <1>1, <1>5 DEF Lined
    <3>2. z \in Members(t, l)
      BY <3>1, TableNext, LaneLast
    <3> QED BY <1>5, <3>2 DEF Members
  <2> HIDE DEF z
  <2>3. z \in Slots /\ z # p /\ t.level[z] = l
    BY <2>2 DEF Members
  <2>4. /\ u \in Table /\ Frame(t, u)
        /\ u.level_queue = t.level_queue
        /\ u.next = [t.next EXCEPT ![z] = p, ![p] = 0]
        /\ u.already_enqueued = [t.already_enqueued EXCEPT ![p] = TRUE]
    <3> DEFINE g == t.level_queue
               nx == [t.next EXCEPT ![z] = p, ![p] = 0]
               e == [t.already_enqueued EXCEPT ![p] = TRUE]
    <3>1. g \in [Levels -> 0..NPROC] /\ nx \in [Slots -> 0..NPROC] /\ e \in [Slots -> BOOLEAN]
      BY <1>e, <1>p, <2>3
    <3>2. u = [t EXCEPT !.level_queue = g, !.next = nx, !.already_enqueued = e]
      BY <1>1, <2>1 DEF Table
    <3> HIDE DEF g, nx, e
    <3>3. Changed(t, u, g, nx, e)
      BY <1>1, <3>1, <3>2, TableChange
    <3> QED BY <3>3 DEF Changed, g, nx, e
  <2>5. Members(u, l) = Members(t, l) \cup {p}
    BY <1>e, <1>l, <2>4 DEF Members, Frame
  <2>6. Lane(u.next, u.level_queue[l], Members(u, l))
    <3>1. u.next \in [1..NPROC -> 0..NPROC] /\ p \in 1..NPROC /\ u.next[p] = 0 /\ u.next[z] = p
      BY <1>1, <2>3, <2>4 DEF Table, Slots
    <3>2. Continues(t, u.next, h, p, Members(t, l))
      BY <1>e, <2>2, <2>4, <3>1 DEF Continues, z, Members
    <3>3. Lane(t.next, h, Members(t, l)) /\ h # 0
      BY <1>1, <1>5 DEF Lined
    <3>4. Lane(u.next, h, Members(t, l) \cup {p})
      BY <2>2, <3>1, <3>2, <3>3, TableNext, LaneAppend
    <3> QED BY <2>4, <2>5, <3>4
  <2>7. ASSUME NEW m \in Levels, m # l PROVE Lane(u.next, u.level_queue[m], Members(u, m))
    <3>1. u.level_queue[m] = t.level_queue[m]
      BY <2>4
    <3>2. Members(u, m) = Members(t, m)
      BY <1>e, <1>l, <2>4, <2>7 DEF Members, Frame
    <3>3. \A q \in Members(t, m) : u.next[q] = t.next[q]
      BY <1>e, <1>l, <2>3, <2>4, <2>7 DEF Members
    <3> QED BY <2>4, <3>1, <3>2, <3>3, QueueSame
  <2> QED BY <2>4, <2>6, <2>7 DEF Queues, Lined
<1> QED BY <1>3, <1>4, <1>5

(* dequeue and dequeue_specific take a process out of the queue of its     *)
(* level, whether or not it is the first.                                  *)
Takes(t, u, p) ==
  Lined(u) /\ Frame(t, u) /\ u.already_enqueued = [t.already_enqueued EXCEPT ![p] = FALSE]

Before(t, l, p) == Path(t, t.level_queue[l])[Steps(t, t.level_queue[l], {p}) - 1]

(* Relinking around p, at the head or behind another process, keeps the    *)
(* three queues exact and takes out p alone.                               *)
LEMMA TakeLines ==
  ASSUME Sized, NEW t, Lined(t), NEW l \in Levels, NEW p \in Members(t, l), NEW u,
         Changed(t, u,
           IF Steps(t, t.level_queue[l], {p}) = 0 THEN [t.level_queue EXCEPT ![l] = t.next[p]]
                                                  ELSE t.level_queue,
           IF Steps(t, t.level_queue[l], {p}) = 0 THEN [t.next EXCEPT ![p] = 0]
             ELSE [t.next EXCEPT ![Before(t, l, p)] = t.next[p], ![p] = 0],
           [t.already_enqueued EXCEPT ![p] = FALSE])
  PROVE  Takes(t, u, p)
<1> DEFINE h == t.level_queue[l]
           n == Steps(t, h, {p})
           r == Before(t, l, p)
           M == Members(t, l)
<1>1. t \in Table /\ NPROC \in Nat
  BY DEF Lined, Sized
<1>e. /\ t.already_enqueued \in [Slots -> BOOLEAN] /\ t.level \in [Slots -> Levels]
      /\ t.next \in [Slots -> 0..NPROC] /\ t.level_queue \in [Levels -> 0..NPROC]
  BY <1>1 DEF Table
<1>2. /\ u \in Table /\ Frame(t, u)
      /\ u.level_queue = IF n = 0 THEN [t.level_queue EXCEPT ![l] = t.next[p]] ELSE t.level_queue
      /\ u.next = IF n = 0 THEN [t.next EXCEPT ![p] = 0] ELSE [t.next EXCEPT ![r] = t.next[p], ![p] = 0]
      /\ u.already_enqueued = [t.already_enqueued EXCEPT ![p] = FALSE]
  BY DEF Changed
<1>3. p \in Slots /\ t.level[p] = l /\ t.already_enqueued[p]
  BY DEF Members
<1>4. Lane(t.next, h, M)
  BY DEF Lined
<1>5. n # 0 => r \in M \ {p}
  <2>0. p \in M /\ t.next \in [1..NPROC -> 0..NPROC]
    BY TableNext
  <2> HIDE DEF h, M, n, r
  <2>1. /\ Steps(t, h, {p}) = 0 <=> h = p
        /\ Steps(t, h, {p}) # 0 => Path(t, h)[Steps(t, h, {p}) - 1] \in M \ {p}
    BY <1>1, <1>4, <2>0, LanePrevious
  <2> QED BY <2>1 DEF Before, h, n, r
<1>6. n # 0 => r \in Slots /\ t.level[r] = l /\ r # p
  BY <1>5 DEF Members
<1>7. u.next \in [1..NPROC -> 0..NPROC]
  BY <1>2 DEF Table, Slots
<1>8. Bypasses(t, u.next, h, p, M)
  <2>1. n # 0 => u.next[r] = t.next[p]
    BY <1>e, <1>2, <1>6
  <2>2. \A q \in M : q # p /\ (n = 0 \/ q # r) => u.next[q] = t.next[q]
    BY <1>e, <1>2, <1>3, <1>6 DEF Members
  <2> QED BY <2>1, <2>2 DEF Bypasses, Before
<1>9. Members(u, l) = M \ {p}
  BY <1>e, <1>2, <1>3 DEF Members, Frame
<1>10. Lane(u.next, u.level_queue[l], Members(u, l))
  <2>1. Lane(u.next, IF n = 0 THEN t.next[p] ELSE h, M \ {p})
    BY <1>4, <1>7, <1>8, TableNext, LaneRemove
  <2>2. u.level_queue[l] = IF n = 0 THEN t.next[p] ELSE h
    BY <1>e, <1>2
  <2> QED BY <1>9, <2>1, <2>2
<1>11. ASSUME NEW m \in Levels, m # l PROVE Lane(u.next, u.level_queue[m], Members(u, m))
  <2>1. u.level_queue[m] = t.level_queue[m]
    BY <1>e, <1>2, <1>11
  <2>2. Members(u, m) = Members(t, m)
    BY <1>e, <1>2, <1>3, <1>11 DEF Members, Frame
  <2>3. \A q \in Members(t, m) : u.next[q] = t.next[q]
    <3> SUFFICES ASSUME NEW q \in Members(t, m) PROVE u.next[q] = t.next[q]
      OBVIOUS
    <3>1. q \in Slots /\ q # p /\ (n # 0 => q # r)
      BY <1>3, <1>6, <1>11 DEF Members
    <3> QED BY <1>e, <1>2, <3>1
  <2> QED BY <1>2, <2>1, <2>2, <2>3, QueueSame
<1> QED BY <1>2, <1>10, <1>11 DEF Takes, Lined

(* dequeue takes out the head of a queue. *)
LEMMA DequeueLines ==
  ASSUME Sized, NEW t, Lined(t), NEW l \in Levels, t.level_queue[l] # 0
  PROVE  /\ t.level_queue[l] \in Members(t, l)
         /\ Takes(t, dequeue(t, l), t.level_queue[l])
<1> DEFINE p == t.level_queue[l]
           u == dequeue(t, l)
<1>1. t \in Table /\ NPROC \in Nat
  BY DEF Lined, Sized
<1>e. /\ t.already_enqueued \in [Slots -> BOOLEAN] /\ t.level \in [Slots -> Levels]
      /\ t.next \in [Slots -> 0..NPROC] /\ t.level_queue \in [Levels -> 0..NPROC]
  BY <1>1 DEF Table
<1>2. LaneSeen(t, p, Members(t, l), NPROC)
  BY QueueSeen
<1>3. p \in Members(t, l)
  BY <1>2 DEF LaneSeen
<1>4. p \in Slots
  BY <1>3 DEF Members
<1>5. Steps(t, t.level_queue[l], {p}) = 0
  <2>1. Lane(t.next, p, Members(t, l))
    BY DEF Lined
  <2>2. /\ Steps(t, p, {p}) = 0 <=> p = p
        /\ Steps(t, p, {p}) # 0 => Path(t, p)[Steps(t, p, {p}) - 1] \in Members(t, l) \ {p}
    BY <1>3, <2>1, TableNext, LanePrevious
  <2> QED BY <2>2
<1>6. u = [t EXCEPT !.level_queue[l] = t.next[p], !.next[p] = 0, !.already_enqueued[p] = FALSE]
  BY DEF dequeue
<1> DEFINE g == [t.level_queue EXCEPT ![l] = t.next[p]]
           nx == [t.next EXCEPT ![p] = 0]
           e == [t.already_enqueued EXCEPT ![p] = FALSE]
<1>7. u = [t EXCEPT !.level_queue = g, !.next = nx, !.already_enqueued = e]
  BY <1>6
<1>8. g \in [Levels -> 0..NPROC] /\ nx \in [Slots -> 0..NPROC] /\ e \in [Slots -> BOOLEAN]
  <2>1. 0 \in 0..NPROC
    BY <1>1
  <2> QED BY <1>e, <1>4, <2>1
<1> HIDE DEF u
<1>9. Changed(t, u, g, nx, e)
  <2> HIDE DEF g, nx, e
  <2> QED BY <1>1, <1>7, <1>8, TableChange
<1>10. Takes(t, u, p)
  <2> HIDE DEF p
  <2> QED BY <1>3, <1>5, <1>9, TakeLines
<1> QED BY <1>3, <1>10 DEF u

(* dequeue_specific takes out a process wherever it is in its queue. *)
LEMMA DequeueSpecificLines ==
  ASSUME Sized, NEW t, Lined(t), NEW l \in Levels, NEW p \in Members(t, l)
  PROVE  Takes(t, dequeue_specific(t, l, p), p)
<1> DEFINE h == t.level_queue[l]
           n == Steps(t, h, {p})
           r == Before(t, l, p)
           u == dequeue_specific(t, l, p)
<1>1. t \in Table /\ NPROC \in Nat
  BY DEF Lined, Sized
<1>e. /\ t.already_enqueued \in [Slots -> BOOLEAN] /\ t.level \in [Slots -> Levels]
      /\ t.next \in [Slots -> 0..NPROC] /\ t.level_queue \in [Levels -> 0..NPROC]
  BY <1>1 DEF Table
<1>2. LaneSeen(t, h, Members(t, l), NPROC)
  BY QueueSeen
<1>3. p \in Slots /\ t.already_enqueued[p] /\ p \in Nodes(t, h)
  BY <1>2 DEF Members, LaneSeen
<1>4. u = [(IF n = 0 THEN [t EXCEPT !.level_queue[l] = t.next[p]] ELSE [t EXCEPT !.next[r] = t.next[p]])
              EXCEPT !.next[p] = 0, !.already_enqueued[p] = FALSE]
  BY <1>3 DEF dequeue_specific, Before
<1> DEFINE g == IF n = 0 THEN [t.level_queue EXCEPT ![l] = t.next[p]] ELSE t.level_queue
           nx == IF n = 0 THEN [t.next EXCEPT ![p] = 0] ELSE [t.next EXCEPT ![r] = t.next[p], ![p] = 0]
           e == [t.already_enqueued EXCEPT ![p] = FALSE]
<1> HIDE DEF u
<1>5. u = [t EXCEPT !.level_queue = g, !.next = nx, !.already_enqueued = e]
  BY <1>1, <1>4 DEF Table
<1>6. g \in [Levels -> 0..NPROC] /\ nx \in [Slots -> 0..NPROC] /\ e \in [Slots -> BOOLEAN]
  <2>1. 0 \in 0..NPROC
    BY <1>1
  <2> HIDE DEF n, r
  <2> QED BY <1>e, <1>3, <2>1
<1>7. Changed(t, u, g, nx, e)
  <2> HIDE DEF g, nx, e
  <2> QED BY <1>1, <1>5, <1>6, TableChange
<1>8. Takes(t, u, p)
  BY <1>7, TakeLines
<1> QED BY <1>8 DEF u

-----------------------------------------------------------------------------
(* Changes that leave the queues alone. *)
LEMMA LinedSame ==
  ASSUME NEW t, Lined(t), NEW u \in Table, u.next = t.next, u.level_queue = t.level_queue,
         u.already_enqueued = t.already_enqueued, u.level = t.level
  PROVE  Lined(u)
<1>1. \A l : Members(u, l) = Members(t, l)
  BY DEF Members
<1> QED BY <1>1 DEF Lined

(* wakeup1 makes the sleepers on chan runnable and queues them.  After its *)
(* first n slots:                                                          *)
Sleeps(t, chan, p) == t.state[p] = "SLEEPING" /\ t.chan[p] = chan

OtherFields(t, u) ==
  /\ u.parent = t.parent /\ u.chan = t.chan /\ u.killed = t.killed
  /\ u.level = t.level /\ u.priority = t.priority
  /\ u.time_allotment = t.time_allotment /\ u.lock_scheduler = t.lock_scheduler
  /\ u.global_tick = t.global_tick /\ u.scheduler_locked = t.scheduler_locked
  /\ u.fault = t.fault

WokenTo(t, u, chan, n) ==
  /\ Lined(u) /\ OtherFields(t, u)
  /\ \A p \in Slots :
       /\ u.state[p] = IF p <= n /\ Sleeps(t, chan, p) THEN "RUNNABLE" ELSE t.state[p]
       /\ u.already_enqueued[p] <=> t.already_enqueued[p] \/ (p <= n /\ Sleeps(t, chan, p))

WakeOne(u, n, t, chan) ==
  IF Sleeps(u, chan, n) THEN enqueue([u EXCEPT !.state[n] = "RUNNABLE"], n, t.level[n]) ELSE u

(* One turn of the loop of wakeup1. *)
LEMMA WakeOneLines ==
  ASSUME Sized, NEW t, NEW u, Lined(u), u.level = t.level, NEW p \in Slots, NEW chan
  PROVE  /\ Lined(WakeOne(u, p, t, chan)) /\ OtherFields(u, WakeOne(u, p, t, chan))
         /\ WakeOne(u, p, t, chan) \in Table
         /\ Sleeps(u, chan, p) =>
              /\ WakeOne(u, p, t, chan).state = [u.state EXCEPT ![p] = "RUNNABLE"]
              /\ WakeOne(u, p, t, chan).already_enqueued = [u.already_enqueued EXCEPT ![p] = TRUE]
         /\ ~Sleeps(u, chan, p) => WakeOne(u, p, t, chan) = u
<1>1. CASE ~Sleeps(u, chan, p)
  BY <1>1 DEF WakeOne, Lined, OtherFields
<1>2. CASE Sleeps(u, chan, p)
  <2> DEFINE v == [u EXCEPT !.state[p] = "RUNNABLE"]
             w == enqueue(v, p, v.level[p])
  <2>1. /\ v \in Table /\ v.next = u.next /\ v.level_queue = u.level_queue
        /\ v.already_enqueued = u.already_enqueued /\ v.level = u.level
        /\ v.state = [u.state EXCEPT ![p] = "RUNNABLE"] /\ OtherFields(u, v)
    BY DEF Lined, Table, States, OtherFields
  <2> HIDE DEF v
  <2>2. Lined(v)
    BY <2>1, LinedSame
  <2>3. Queues(v, w, p)
    BY <2>2, EnqueueLines
  <2>4. WakeOne(u, p, t, chan) = w
    BY <1>2, <2>1 DEF WakeOne, v
  <2> HIDE DEF w
  <2>5. Lined(w) /\ w \in Table /\ OtherFields(u, w) /\ w.state = v.state
        /\ w.already_enqueued = [v.already_enqueued EXCEPT ![p] = TRUE]
    BY <2>1, <2>3 DEF Queues, Frame, OtherFields, Lined
  <2> QED BY <1>2, <2>1, <2>4, <2>5
<1> QED BY <1>1, <1>2

(* The equation of the function in wakeup1. *)
IsWake(w, t, chan) ==
  /\ w[0] = t
  /\ \A n \in 1..NPROC : w[n] = WakeOne(w[n - 1], n, t, chan)

(* wakeup1 is the last value of a function that satisfies its equation. *)
LEMMA WakeEquation ==
  ASSUME Sized, NEW t, Lined(t), NEW chan
  PROVE  \E w : IsWake(w, t, chan) /\ wakeup1(t, chan) = w[NPROC]
<1> DEFINE S == {u \in Table : Lined(u) /\ u.level = t.level}
           G == [n \in 1..NPROC |-> [u \in S |-> WakeOne(u, n, t, chan)]]
           E(g) == g = [n \in 0..NPROC |->
                     IF n = 0 THEN t
                     ELSE IF g[n - 1].state[n] = "SLEEPING" /\ g[n - 1].chan[n] = chan
                       THEN enqueue([g[n - 1] EXCEPT !.state[n] = "RUNNABLE"], n, t.level[n])
                     ELSE g[n - 1]]
<1>1. t \in S /\ NPROC \in Nat
  BY DEF Lined, Sized
<1>2. ASSUME NEW u \in S, NEW n \in 1..NPROC PROVE WakeOne(u, n, t, chan) \in S
  <2>1. u.level = t.level /\ Lined(u) /\ n \in Slots
    BY DEF Slots
  <2>2. Lined(WakeOne(u, n, t, chan)) /\ OtherFields(u, WakeOne(u, n, t, chan))
    BY <2>1, WakeOneLines
  <2> QED BY <2>1, <2>2 DEF Lined, OtherFields
<1>3. G \in [1..NPROC -> [S -> S]]
  BY <1>2
<1> HIDE DEF S, G, E
<1>4. PICK f : Solves(f, NPROC, S, t, G)
  BY <1>1, <1>3, RecursiveFunction
<1>5. E(f)
  <2>1. ASSUME NEW n \in 1..NPROC PROVE f[n] = WakeOne(f[n - 1], n, t, chan)
    <3>0. n - 1 \in 0..NPROC
      BY <1>1
    <3>1. f[n - 1] \in S /\ f[n] = G[n][f[n - 1]]
      BY <1>4, <3>0 DEF Solves
    <3> QED BY <3>1 DEF G
  <2>2. \A n \in 0..NPROC : f[n] = IF n = 0 THEN t ELSE WakeOne(f[n - 1], n, t, chan)
    BY <1>4, <2>1 DEF Solves
  <2>3. f = [n \in 0..NPROC |-> IF n = 0 THEN t ELSE WakeOne(f[n - 1], n, t, chan)]
    BY <1>4, <2>2 DEF Solves
  <2> QED BY <2>3 DEF E, WakeOne, Sleeps
<1> DEFINE w == CHOOSE g : E(g)
<1>6. wakeup1(t, chan) = w[NPROC]
  BY DEF wakeup1, E
<1>7. E(w)
  BY <1>5, Zenon
<1> HIDE DEF w
<1>8. w = [n \in 0..NPROC |-> IF n = 0 THEN t ELSE WakeOne(w[n - 1], n, t, chan)]
  BY <1>7 DEF E, WakeOne, Sleeps
<1>9. IsWake(w, t, chan)
  BY <1>1, <1>8 DEF IsWake
<1> QED BY <1>6, <1>9

(* wakeup1 queues exactly the sleepers on chan. *)
LEMMA WakeLines ==
  ASSUME Sized, NEW t, Lined(t), NEW chan
  PROVE  WokenTo(t, wakeup1(t, chan), chan, NPROC)
<1>1. PICK w : IsWake(w, t, chan) /\ wakeup1(t, chan) = w[NPROC]
  BY WakeEquation
<1> DEFINE D == {n \in 0..NPROC : WokenTo(t, w[n], chan, n)}
<1>2. NPROC \in Nat
  BY DEF Sized
<1>3. 0 \in D
  <2>1. \A p \in Slots : ~(p <= 0)
    BY <1>2 DEF Slots
  <2>2. w[0] = t
    BY <1>1 DEF IsWake
  <2>3. WokenTo(t, t, chan, 0)
    BY <2>1 DEF WokenTo, OtherFields
  <2> QED BY <1>2, <2>2, <2>3
<1>4. ASSUME NEW n \in 0..NPROC - 1, n \in D PROVE n + 1 \in D
  <2> DEFINE u == w[n]
             v == w[n + 1]
             p == n + 1
  <2>1. WokenTo(t, u, chan, n) /\ p \in Slots /\ p \in 0..NPROC /\ p \in 1..NPROC /\ p - 1 = n
    BY <1>2, <1>4 DEF Slots
  <2>2. v = WakeOne(u, p, t, chan)
    BY <1>1, <2>1 DEF IsWake
  <2>3. Lined(u) /\ u.level = t.level
    BY <2>1 DEF WokenTo, OtherFields
  <2> HIDE DEF u, v, p
  <2>4. /\ Lined(v) /\ OtherFields(u, v)
        /\ v \in Table
        /\ Sleeps(u, chan, p) =>
              /\ v.state = [u.state EXCEPT ![p] = "RUNNABLE"]
              /\ v.already_enqueued = [u.already_enqueued EXCEPT ![p] = TRUE]
        /\ ~Sleeps(u, chan, p) => v = u
    BY <2>1, <2>2, <2>3, WakeOneLines
  <2>5. u.state \in [Slots -> States] /\ u.already_enqueued \in [Slots -> BOOLEAN]
    BY <2>3 DEF Lined, Table
  <2>6. \A q \in Slots : (q <= p <=> q <= n \/ q = p) /\ (q = p => ~(q <= n))
    BY <1>2 DEF p, Slots
  <2>7. Sleeps(u, chan, p) <=> Sleeps(t, chan, p)
    BY <2>1, <2>6 DEF Sleeps, WokenTo, OtherFields
  <2>8. ASSUME NEW q \in Slots
        PROVE  /\ v.state[q] = IF q <= p /\ Sleeps(t, chan, q) THEN "RUNNABLE" ELSE t.state[q]
               /\ v.already_enqueued[q] <=> t.already_enqueued[q] \/ (q <= p /\ Sleeps(t, chan, q))
    <3>1. /\ u.state[q] = IF q <= n /\ Sleeps(t, chan, q) THEN "RUNNABLE" ELSE t.state[q]
          /\ u.already_enqueued[q] <=> t.already_enqueued[q] \/ (q <= n /\ Sleeps(t, chan, q))
      BY <2>1 DEF WokenTo
    <3>2. CASE q # p
      <4>1. v.state[q] = u.state[q] /\ (v.already_enqueued[q] <=> u.already_enqueued[q])
        BY <2>1, <2>4, <2>5, <3>2
      <4>2. q <= p <=> q <= n
        BY <2>6, <3>2
      <4> QED BY <3>1, <4>1, <4>2
    <3>3. CASE q = p
      <4>1. q <= p /\ ~(q <= n)
        BY <2>6, <3>3
      <4>2. Sleeps(t, chan, q) => v.state[q] = "RUNNABLE" /\ v.already_enqueued[q]
        BY <2>1, <2>4, <2>5, <2>7, <3>3
      <4>3. ~Sleeps(t, chan, q) => v = u
        BY <2>4, <2>7, <3>3
      <4> QED BY <3>1, <4>1, <4>2, <4>3
    <3> QED BY <3>2, <3>3
  <2>9. OtherFields(t, v)
    BY <2>1, <2>4 DEF WokenTo, OtherFields
  <2>10. WokenTo(t, v, chan, p)
    BY <2>4, <2>8, <2>9 DEF WokenTo
  <2> QED BY <2>1, <2>10 DEF v, p
<1> HIDE DEF D
<1>5. 0..NPROC \subseteq D
  BY <1>2, <1>3, <1>4, IntervalInduction
<1>6. WokenTo(t, w[NPROC], chan, NPROC)
  BY <1>2, <1>5 DEF D
<1> QED BY <1>1, <1>6

-----------------------------------------------------------------------------
(* Priority boost.  What it leaves alone: *)
Kept(t, u) ==
  /\ u.state = t.state /\ u.parent = t.parent /\ u.chan = t.chan /\ u.killed = t.killed
  /\ u.lock_scheduler = t.lock_scheduler /\ u.already_enqueued = t.already_enqueued
  /\ u.scheduler_locked = t.scheduler_locked /\ u.fault = t.fault

(* The processes of S start over at level 0. *)
Renewed(t, u, S) ==
  \A p \in Slots :
    /\ u.level[p] = IF p \in S THEN 0 ELSE t.level[p]
    /\ u.priority[p] = IF p \in S THEN MAXPRI ELSE t.priority[p]
    /\ u.time_allotment[p] = IF p \in S THEN 0 ELSE t.time_allotment[p]

(* One turn of the loop that moves the processes of a level. *)
MoveStates == [t : Table, cur : 0..NPROC, nxt : 0..NPROC]

OneMoved(u, v) ==
  /\ v \in MoveStates /\ Kept(u.t, v.t)
  /\ v.cur = u.nxt /\ v.nxt = v.t.next[u.nxt]
  /\ v.t.next = IF u.cur = 0 THEN u.t.next ELSE [u.t.next EXCEPT ![u.cur] = u.nxt]
  /\ v.t.level_queue = IF u.cur = 0 THEN [u.t.level_queue EXCEPT ![0] = u.nxt] ELSE u.t.level_queue
  /\ Renewed(u.t, v.t, {u.nxt})

(* One turn of the loop changes one link and renews one process, or nothing*)
(* at the end of the queue.                                                *)
LEMMA MoveOneStep ==
  ASSUME Sized, NEW u \in MoveStates
  PROVE  /\ MoveOne(u) \in MoveStates
         /\ u.nxt = 0 => MoveOne(u) = u
         /\ u.nxt # 0 => OneMoved(u, MoveOne(u))
<1> DEFINE p == u.nxt
           c == u.cur
           t0 == u.t
           t1 == [t0 EXCEPT !.level[p] = 0]
           t2 == Refresh(t1, {p})
           t3 == LinkBehind(t2, c, p)
<1>1. CASE p = 0
  BY <1>1 DEF MoveOne
<1>2. CASE p # 0
  <2>1. t0 \in Table /\ p \in Slots /\ c \in 0..NPROC /\ (c # 0 => c \in Slots) /\ NPROC \in Nat
        /\ p \in 0..NPROC
    BY <1>2 DEF MoveStates, Slots, Sized
  <2>2. MoveOne(u) = [t |-> t3, cur |-> p, nxt |-> t3.next[p]]
    BY <1>2 DEF MoveOne, GoOn
  <2> HIDE DEF p, c, t0
  <2>3. /\ t1 \in Table /\ Kept(t0, t1) /\ t1.next = t0.next /\ t1.level_queue = t0.level_queue
        /\ t1.level = [t0.level EXCEPT ![p] = 0] /\ t1.priority = t0.priority
        /\ t1.time_allotment = t0.time_allotment
    <3> DEFINE lev == [t0.level EXCEPT ![p] = 0]
    <3>1. lev \in [Slots -> Levels]
      <4>1. 0 \in Levels
        BY DEF Levels
      <4>2. t0.level \in [Slots -> Levels]
        BY <2>1 DEF Table
      <4> QED BY <2>1, <4>1, <4>2
    <3>2. t1 = [t0 EXCEPT !.level = lev]
      OBVIOUS
    <3> HIDE DEF lev, t1
    <3>3. /\ t1 \in Table /\ Kept(t0, t1) /\ t1.next = t0.next /\ t1.level_queue = t0.level_queue
          /\ t1.level = lev /\ t1.priority = t0.priority /\ t1.time_allotment = t0.time_allotment
      BY <2>1, <3>1, <3>2 DEF Table, Kept
    <3> QED BY <3>3 DEF lev
  <2> HIDE DEF t1
  <2> DEFINE pr == [q \in Slots |-> IF q \in {p} THEN MAXPRI ELSE t1.priority[q]]
             ta == [q \in Slots |-> IF q \in {p} THEN 0 ELSE t1.time_allotment[q]]
  <2>4. pr \in [Slots -> 0..MAXPRI] /\ ta \in [Slots -> 0..time_quantum(2)]
    <3>1. MAXPRI \in 0..MAXPRI /\ 0 \in 0..time_quantum(2)
      BY DEF Sized, time_quantum
    <3>2. t1.priority \in [Slots -> 0..MAXPRI] /\ t1.time_allotment \in [Slots -> 0..time_quantum(2)]
      BY <2>3 DEF Table
    <3> QED BY <3>1, <3>2
  <2>5. t2 = [t1 EXCEPT !.priority = pr, !.time_allotment = ta]
    BY DEF Refresh
  <2> HIDE DEF t2, pr, ta
  <2>6. /\ t2 \in Table /\ Kept(t1, t2) /\ t2.next = t1.next /\ t2.level_queue = t1.level_queue
        /\ t2.level = t1.level /\ t2.priority = pr /\ t2.time_allotment = ta
    BY <2>3, <2>4, <2>5 DEF Table, Kept
  <2>7. /\ t3 \in Table /\ Kept(t2, t3) /\ t3.level = t2.level /\ t3.priority = t2.priority
        /\ t3.time_allotment = t2.time_allotment
        /\ t3.next = IF c = 0 THEN t2.next ELSE [t2.next EXCEPT ![c] = p]
        /\ t3.level_queue = IF c = 0 THEN [t2.level_queue EXCEPT ![0] = p] ELSE t2.level_queue
    <3>1. CASE c = 0
      <4>1. t3 = [t2 EXCEPT !.level_queue[0] = p]
        BY <3>1 DEF LinkBehind
      <4> HIDE DEF t3
      <4> QED BY <2>1, <2>6, <3>1, <4>1 DEF Table, Kept, Levels
    <3>2. CASE c # 0
      <4>1. t3 = [t2 EXCEPT !.next[c] = p]
        BY <3>2 DEF LinkBehind
      <4> HIDE DEF t3
      <4> QED BY <2>1, <2>6, <3>2, <4>1 DEF Table, Kept
    <3> QED BY <3>1, <3>2
  <2> HIDE DEF t3
  <2>8. t3.next[p] \in 0..NPROC
    BY <2>1, <2>7 DEF Table
  <2>9. MoveOne(u) \in MoveStates
    BY <2>1, <2>2, <2>7, <2>8 DEF MoveStates
  <2>10. Kept(t0, t3)
    BY <2>3, <2>6, <2>7 DEF Kept
  <2>11. Renewed(t0, t3, {p})
    <3>1. t0.level \in [Slots -> Levels] /\ t0.priority \in [Slots -> 0..MAXPRI]
      BY <2>1 DEF Table
    <3> QED BY <2>3, <2>6, <2>7, <3>1 DEF Renewed, pr, ta
  <2>12. OneMoved(u, MoveOne(u))
    <3> DEFINE v == MoveOne(u)
    <3>1. v.t = t3 /\ v.cur = p /\ v.nxt = t3.next[p]
      BY <2>2
    <3> HIDE DEF v
    <3>2. /\ t3.next = IF c = 0 THEN t0.next ELSE [t0.next EXCEPT ![c] = p]
          /\ t3.level_queue = IF c = 0 THEN [t0.level_queue EXCEPT ![0] = p] ELSE t0.level_queue
      BY <2>3, <2>6, <2>7
    <3>3. v \in MoveStates
      BY <2>9 DEF v
    <3>4. OneMoved(u, v)
      BY <2>10, <2>11, <3>1, <3>2, <3>3 DEF OneMoved, p, c, t0
    <3> QED BY <3>4 DEF v
  <2> QED BY <1>2, <2>9, <2>12 DEF p
<1> QED BY <1>1, <1>2 DEF MoveStates

(* The equation of the function in MoveLevel. *)
IsMove(it, s, l) ==
  /\ it[0] = [t |-> s.t, cur |-> s.cur, nxt |-> s.t.level_queue[l]]
  /\ \A n \in 1..NPROC + 1 : it[n] = MoveOne(it[n - 1]) /\ it[n - 1] \in MoveStates

(* MoveLevel is the last value of a function that satisfies its equation. *)
LEMMA MoveEquation ==
  ASSUME Sized, NEW s, s.t \in Table, s.cur \in 0..NPROC, NEW l \in Levels
  PROVE  \E it : IsMove(it, s, l) /\ MoveLevel(s, l) = Emptied(it[NPROC + 1], l)
<1> DEFINE N == NPROC + 1
           a == [t |-> s.t, cur |-> s.cur, nxt |-> s.t.level_queue[l]]
           S == MoveStates
           G == [n \in 1..N |-> [u \in S |-> MoveOne(u)]]
           E(g) == g = [n \in 0..NPROC + 1 |->
                     IF n = 0 THEN [t |-> s.t, cur |-> s.cur, nxt |-> s.t.level_queue[l]]
                     ELSE MoveOne(g[n - 1])]
<1>1. N \in Nat
  BY DEF Sized
<1>2. a \in S
  BY DEF MoveStates, Table
<1>3. G \in [1..N -> [S -> S]]
  BY MoveOneStep
<1> HIDE DEF S, G, E, N, a
<1>4. PICK f : Solves(f, N, S, a, G)
  BY <1>1, <1>2, <1>3, RecursiveFunction
<1>5. E(f)
  <2>1. ASSUME NEW n \in 1..N PROVE f[n] = MoveOne(f[n - 1])
    <3>0. n - 1 \in 0..N
      BY <1>1
    <3>1. f[n - 1] \in S /\ f[n] = G[n][f[n - 1]]
      BY <1>4, <3>0 DEF Solves
    <3> QED BY <3>1 DEF G
  <2>2. \A n \in 0..N : f[n] = IF n = 0 THEN a ELSE MoveOne(f[n - 1])
    BY <1>4, <2>1 DEF Solves
  <2>3. f = [n \in 0..N |-> IF n = 0 THEN a ELSE MoveOne(f[n - 1])]
    BY <1>4, <2>2 DEF Solves
  <2> QED BY <2>3 DEF E, N, a
<1> DEFINE it == CHOOSE g : E(g)
<1>6. MoveLevel(s, l) = Emptied(it[NPROC + 1], l)
  BY DEF MoveLevel, E
<1>7. E(it)
  BY <1>5, Zenon
<1> HIDE DEF it
<1>8. it = [n \in 0..N |-> IF n = 0 THEN a ELSE MoveOne(it[n - 1])]
  BY <1>7 DEF E, N, a
<1>9. it[0] = a /\ \A n \in 1..N : it[n] = MoveOne(it[n - 1])
  BY <1>1, <1>8
<1> DEFINE D == {n \in 0..N : it[n] \in MoveStates}
<1>10. 0 \in D
  BY <1>1, <1>2, <1>9 DEF S
<1>11. ASSUME NEW n \in 0..N - 1, n \in D PROVE n + 1 \in D
  <2>1. n + 1 \in 1..N /\ (n + 1) - 1 = n /\ n + 1 \in 0..N
    BY <1>1
  <2>2. it[n + 1] = MoveOne(it[n])
    BY <1>9, <2>1
  <2>3. MoveOne(it[n]) \in MoveStates
    BY <1>11, MoveOneStep
  <2> QED BY <2>1, <2>2, <2>3
<1>12. 0..N \subseteq D
  <2> HIDE DEF D
  <2> QED BY <1>1, <1>10, <1>11, IntervalInduction
<1>13. \A n \in 1..N : it[n - 1] \in MoveStates
  BY <1>1, <1>12
<1>14. IsMove(it, s, l)
  BY <1>9, <1>13 DEF IsMove, a, N
<1> QED BY <1>6, <1>14

(* The loop after m turns, for a level whose queue consists of the slots   *)
(* of q.                                                                   *)
MovedTo(s, u, q, len, m) ==
  /\ u \in MoveStates /\ Kept(s.t, u.t)
  /\ u.nxt = At(q, len, m + 1)
  /\ u.cur = IF m = 0 THEN s.cur ELSE q[m]
  /\ u.t.next = IF m = 0 \/ s.cur = 0 THEN s.t.next ELSE [s.t.next EXCEPT ![s.cur] = q[1]]
  /\ u.t.level_queue = IF m = 0 \/ s.cur # 0 THEN s.t.level_queue
                                             ELSE [s.t.level_queue EXCEPT ![0] = q[1]]
  /\ Renewed(s.t, u.t, Elements(q, m))

(* One more turn of the loop, from m processes moved to m + 1. *)
LEMMA MoveTurn ==
  ASSUME Sized, NEW s, s.t \in Table, s.cur \in 0..NPROC, NEW h, NEW q, NEW len,
         List(s.t.next, h, q, len), \A i \in 1..len : q[i] # s.cur,
         NEW u, NEW m \in 0..len - 1, MovedTo(s, u, q, len, m)
  PROVE  MovedTo(s, MoveOne(u), q, len, m + 1)
<1> DEFINE p == q[m + 1]
           c == u.cur
           nx == s.t.next
<1>1. len \in Nat /\ q \in [1..len -> Slots] /\ NPROC \in Nat /\ nx \in [Slots -> 0..NPROC]
  BY DEF List, Table, Sized
<1>2. m + 1 \in 1..len /\ m \in Nat /\ 1 \in 1..len /\ (m # 0 => m \in 1..len)
  BY <1>1
<1>3. p \in Slots /\ p # 0 /\ u.nxt = p
  BY <1>1, <1>2 DEF Slots, At, MovedTo
<1>4. u \in MoveStates
  BY DEF MovedTo
<1> DEFINE v == MoveOne(u)
<1>5. OneMoved(u, v)
  BY <1>3, <1>4, MoveOneStep
<1> HIDE DEF v, p, nx
<1>6. c = IF m = 0 THEN s.cur ELSE q[m]
  BY DEF MovedTo
<1>7. c # 0 => c \in Slots
  BY <1>4 DEF MoveStates, Slots, Sized
<1>8. u.t.next = IF m = 0 \/ s.cur = 0 THEN nx ELSE [nx EXCEPT ![s.cur] = q[1]]
  BY DEF MovedTo, nx
<1> HIDE DEF c
<1>9. v.t.next = IF s.cur = 0 THEN nx ELSE [nx EXCEPT ![s.cur] = q[1]]
  <2>1. v.t.next = IF c = 0 THEN u.t.next ELSE [u.t.next EXCEPT ![c] = p]
    BY <1>3, <1>5 DEF OneMoved, c
  <2>2. CASE m = 0
    <3>1. p = q[1] /\ c = s.cur /\ u.t.next = nx
      BY <1>6, <1>8, <2>2 DEF p
    <3> QED BY <2>1, <3>1
  <2>3. CASE m # 0
    <3>1. c = q[m] /\ m \in 1..len /\ c \in Slots /\ c # 0 /\ c # s.cur
      BY <1>1, <1>2, <1>6, <2>3 DEF Slots
    <3>2. nx[c] = p
      BY <1>2, <3>1 DEF List, At, p, nx
    <3>3. u.t.next[c] = p
      BY <1>1, <1>8, <3>1, <3>2
    <3>4. u.t.next \in [Slots -> 0..NPROC]
      BY <1>4 DEF MoveStates, Table
    <3>5. [u.t.next EXCEPT ![c] = p] = u.t.next
      BY <3>3, <3>4
    <3> QED BY <1>8, <2>1, <2>3, <3>1, <3>5
  <2> QED BY <2>2, <2>3
<1>10. v.t.level_queue = IF s.cur # 0 THEN s.t.level_queue ELSE [s.t.level_queue EXCEPT ![0] = q[1]]
  <2>1. v.t.level_queue = IF c = 0 THEN [u.t.level_queue EXCEPT ![0] = p] ELSE u.t.level_queue
    BY <1>3, <1>5 DEF OneMoved, c
  <2>2. u.t.level_queue = IF m = 0 \/ s.cur # 0 THEN s.t.level_queue
                                                ELSE [s.t.level_queue EXCEPT ![0] = q[1]]
    BY DEF MovedTo
  <2>3. CASE m = 0
    <3>1. p = q[1] /\ c = s.cur
      BY <1>6, <2>3 DEF p
    <3> QED BY <2>1, <2>2, <2>3, <3>1
  <2>4. CASE m # 0
    <3>1. c # 0
      BY <1>1, <1>2, <1>6, <2>4 DEF Slots
    <3> QED BY <2>1, <2>2, <2>4, <3>1
  <2> QED BY <2>3, <2>4
<1>11. v.nxt = At(q, len, (m + 1) + 1)
  <2>1. v.nxt = v.t.next[p]
    BY <1>3, <1>5 DEF OneMoved
  <2>2. p # s.cur
    BY <1>2 DEF p
  <2>3. v.t.next[p] = nx[p]
    BY <1>1, <1>3, <1>9, <2>2
  <2>4. nx[p] = At(q, len, (m + 1) + 1)
    BY <1>2 DEF List, p, nx
  <2> QED BY <2>1, <2>3, <2>4
<1>12. Renewed(s.t, v.t, Elements(q, m + 1))
  <2>1. Renewed(u.t, v.t, {p})
    BY <1>3, <1>5 DEF OneMoved
  <2>2. Renewed(s.t, u.t, Elements(q, m))
    BY DEF MovedTo
  <2>3. \A x : x \in Elements(q, m + 1) <=> x \in Elements(q, m) \/ x \in {p}
    <3>1. \A i \in 1..m + 1 : i \in 1..m \/ i = m + 1
      BY <1>2
    <3>2. m + 1 \in 1..m + 1 /\ \A i \in 1..m : i \in 1..m + 1
      BY <1>2
    <3> QED BY <3>1, <3>2 DEF Elements, p
  <2> QED BY <2>1, <2>2, <2>3 DEF Renewed
<1>13. v.cur = q[m + 1] /\ v \in MoveStates
  BY <1>3, <1>5 DEF OneMoved, p
<1>14. Kept(s.t, v.t)
  <2>1. Kept(u.t, v.t)
    BY <1>5 DEF OneMoved
  <2>2. Kept(s.t, u.t)
    BY DEF MovedTo
  <2> QED BY <2>1, <2>2 DEF Kept
<1>15. m + 1 # 0
  BY <1>2
<1>16. MovedTo(s, v, q, len, m + 1)
  BY <1>9, <1>10, <1>11, <1>12, <1>13, <1>14, <1>15 DEF MovedTo, nx
<1> QED BY <1>16 DEF v

(* After NPROC + 1 turns the loop has moved the whole level. *)
LEMMA MoveTurns ==
  ASSUME Sized, NEW s, s.t \in Table, s.cur \in 0..NPROC, NEW l \in Levels, NEW q, NEW len,
         List(s.t.next, s.t.level_queue[l], q, len), \A i \in 1..len : q[i] # s.cur
  PROVE  \E u : MovedTo(s, u, q, len, len) /\ MoveLevel(s, l) = Emptied(u, l)
<1>1. PICK it : IsMove(it, s, l) /\ MoveLevel(s, l) = Emptied(it[NPROC + 1], l)
  BY MoveEquation
<1>2. NPROC \in Nat /\ s.t.next \in [1..NPROC -> 0..NPROC]
  BY DEF Sized, Table, Slots
<1>3. len \in 0..NPROC
  BY <1>2, ListLength
<1> DEFINE N == NPROC + 1
           T(n) == IF n <= len THEN n ELSE len
           D == {n \in 0..N : MovedTo(s, it[n], q, len, T(n))}
<1>4. 0 \in D
  <2>1. it[0] = [t |-> s.t, cur |-> s.cur, nxt |-> s.t.level_queue[l]]
    BY <1>1 DEF IsMove
  <2>2. it[0].t = s.t /\ it[0].cur = s.cur /\ it[0].nxt = At(q, len, 1)
    BY <2>1 DEF List
  <2>3. it[0] \in MoveStates
    <3>1. s.t.level_queue[l] \in 0..NPROC
      BY DEF Table
    <3> QED BY <2>1, <3>1 DEF MoveStates
  <2>4. Elements(q, 0) = {}
    BY DEF Elements
  <2>5. Kept(s.t, s.t) /\ Renewed(s.t, s.t, {})
    BY DEF Kept, Renewed
  <2>6. MovedTo(s, it[0], q, len, 0)
    BY <2>2, <2>3, <2>4, <2>5 DEF MovedTo
  <2>7. T(0) = 0 /\ 0 \in 0..N
    BY <1>2, <1>3
  <2> QED BY <2>6, <2>7
<1>5. ASSUME NEW n \in 0..N - 1, n \in D PROVE n + 1 \in D
  <2>1. n + 1 \in 1..N /\ (n + 1) - 1 = n /\ n + 1 \in 0..N
    BY <1>2
  <2>2. it[n + 1] = MoveOne(it[n]) /\ it[n] \in MoveStates
    BY <1>1, <2>1 DEF IsMove
  <2>3. MovedTo(s, it[n], q, len, T(n))
    BY <1>5
  <2>4. CASE n < len
    <3>1. n \in 0..len - 1 /\ T(n) = n /\ T(n + 1) = n + 1
      BY <1>2, <1>3, <2>4
    <3>2. MovedTo(s, MoveOne(it[n]), q, len, n + 1)
      BY <2>3, <3>1, MoveTurn
    <3> QED BY <2>1, <2>2, <3>1, <3>2
  <2>5. CASE ~(n < len)
    <3>1. T(n) = len /\ T(n + 1) = len
      BY <1>2, <1>3, <2>5
    <3>2. it[n].nxt = 0
      BY <1>3, <2>3, <3>1 DEF MovedTo, At
    <3>3. MoveOne(it[n]) = it[n]
      BY <2>2, <3>2, MoveOneStep
    <3> QED BY <2>1, <2>2, <2>3, <3>1, <3>3
  <2> QED BY <2>4, <2>5
<1>6. 0..N \subseteq D
  <2>1. N \in Nat
    BY <1>2
  <2> HIDE DEF D, N
  <2> QED BY <1>4, <1>5, <2>1, IntervalInduction
<1>7. N \in D /\ T(N) = len
  BY <1>2, <1>3, <1>6
<1> QED BY <1>1, <1>7

(* cur is the last process of level 0. *)
AtTail(s) ==
  s.cur = IF s.t.level_queue[0] = 0 THEN 0 ELSE LastNode(s.t, s.t.level_queue[0])

(* The loop over a level leaves its queue empty and its processes at the   *)
(* end of level 0.                                                         *)
LEMMA MoveLines ==
  ASSUME Sized, NEW s, Lined(s.t), AtTail(s), NEW l \in Levels, l # 0
  PROVE  /\ Lined(MoveLevel(s, l).t) /\ AtTail(MoveLevel(s, l))
         /\ Kept(s.t, MoveLevel(s, l).t)
         /\ Renewed(s.t, MoveLevel(s, l).t, Members(s.t, l))
<1> DEFINE t == s.t
           c == s.cur
           h == t.level_queue[0]
           M == Members(t, l)
           M0 == Members(t, 0)
           v == MoveLevel(s, l)
           w == v.t
<1>1. t \in Table /\ NPROC \in Nat /\ 0 \in Levels
  BY DEF Lined, Sized, Levels
<1>e. /\ t.already_enqueued \in [Slots -> BOOLEAN] /\ t.level \in [Slots -> Levels]
      /\ t.next \in [Slots -> 0..NPROC] /\ t.level_queue \in [Levels -> 0..NPROC]
  BY <1>1 DEF Table
<1>n. t.next \in [1..NPROC -> 0..NPROC]
  BY <1>e DEF Slots
<1>2. LaneSeen(t, h, M0, NPROC)
  BY <1>1, QueueSeen
<1>3. Lane(t.next, h, M0)
  BY <1>1 DEF Lined
<1>4. h # 0 => c = LastNode(t, h) /\ c \in M0
  <2>1. ASSUME h # 0 PROVE LastNode(t, h) \in M0 /\ M0 \subseteq 1..NPROC
    BY <1>1, <1>n, <1>3, <2>1, LaneLast
  <2> QED BY <2>1 DEF AtTail
<1>5. h = 0 => c = 0 /\ M0 = {}
  BY <1>2 DEF AtTail, LaneSeen
<1>6. h # 0 => c \in Slots /\ c # 0 /\ t.level[c] = 0
  BY <1>1, <1>4 DEF Members, Slots
<1>7. c \in 0..NPROC
  BY <1>1, <1>5, <1>6 DEF Slots
<1>8. Lane(t.next, t.level_queue[l], M)
  BY DEF Lined
<1>9. PICK q, len : List(t.next, t.level_queue[l], q, len) /\ M = Elements(q, len)
  BY <1>8 DEF Lane
<1>l. List(t.next, t.level_queue[l], q, len)
  BY <1>9
<1>10. len \in 0..NPROC /\ \A i \in 1..len : q[i] \in 1..NPROC
  BY <1>1, <1>n, <1>l, ListLength
<1>11. \A i \in 1..len : q[i] \in M
  BY <1>9 DEF Elements
<1>12. \A i \in 1..len : q[i] # c
  BY <1>4, <1>5, <1>10, <1>11 DEF Members
<1>13. PICK u : MovedTo(s, u, q, len, len) /\ MoveLevel(s, l) = Emptied(u, l)
  BY <1>1, <1>7, <1>l, <1>12, MoveTurns
<1>14. /\ u \in MoveStates /\ Kept(t, u.t)
       /\ u.nxt = 0
       /\ u.cur = IF len = 0 THEN c ELSE q[len]
       /\ u.t.next = IF len = 0 \/ c = 0 THEN t.next ELSE [t.next EXCEPT ![c] = q[1]]
       /\ u.t.level_queue = IF len = 0 \/ c # 0 THEN t.level_queue
                                             ELSE [t.level_queue EXCEPT ![0] = q[1]]
       /\ Renewed(t, u.t, M)
  <2>1. At(q, len, len + 1) = 0
    BY <1>10 DEF At
  <2> QED BY <1>9, <1>13, <2>1 DEF MovedTo
<1> HIDE DEF M, M0, v
<1>15. v = [t |-> [u.t EXCEPT !.level_queue[l] = 0], cur |-> u.cur]
  BY <1>13, <1>14 DEF Emptied, v
<1>16. v.cur = u.cur /\ w = [u.t EXCEPT !.level_queue[l] = 0]
  BY <1>15
<1> HIDE DEF w
<1>17. u.t \in Table
  BY <1>14 DEF MoveStates
<1>18. /\ w \in Table /\ Kept(u.t, w) /\ w.next = u.t.next
       /\ w.level_queue = [u.t.level_queue EXCEPT ![l] = 0]
       /\ w.level = u.t.level /\ w.priority = u.t.priority /\ w.time_allotment = u.t.time_allotment
  <2> DEFINE g == [u.t.level_queue EXCEPT ![l] = 0]
  <2>1. g \in [Levels -> 0..NPROC]
    <3>1. u.t.level_queue \in [Levels -> 0..NPROC]
      BY <1>17 DEF Table
    <3>2. 0 \in 0..NPROC
      BY <1>1
    <3> QED BY <3>1, <3>2
  <2>2. w = [u.t EXCEPT !.level_queue = g]
    BY <1>16
  <2> HIDE DEF g
  <2>3. /\ w \in Table /\ Kept(u.t, w) /\ w.next = u.t.next /\ w.level_queue = g
        /\ w.level = u.t.level /\ w.priority = u.t.priority /\ w.time_allotment = u.t.time_allotment
    BY <1>17, <2>1, <2>2 DEF Table, Kept
  <2> QED BY <2>3 DEF g
<1>19. Kept(t, w) /\ Renewed(t, w, M)
  BY <1>14, <1>18 DEF Kept, Renewed
<1> HIDE DEF t, c, h
<1>20. Members(w, l) = {} /\ Members(w, 0) = M0 \cup M
       /\ \A m \in Levels : m # 0 /\ m # l => Members(w, m) = Members(t, m)
  BY <1>e, <1>1, <1>19 DEF Members, Kept, Renewed, M, M0
<1>21. Lane(w.next, w.level_queue[l], Members(w, l))
  <2>1. w.level_queue[l] = 0
    BY <1>17, <1>18 DEF Table
  <2> QED BY <1>20, <2>1, LaneEmpty
<1>22. M \cap M0 = {}
  BY DEF M, M0, Members
<1>23. len # 0 => q[1] = t.level_queue[l] /\ q[1] \in M /\ q[len] \in M /\ t.next[q[len]] = 0
  <2>1. len # 0 => 1 \in 1..len /\ len \in 1..len /\ At(q, len, len + 1) = 0
    BY <1>10 DEF At
  <2> QED BY <1>11, <1>l, <2>1 DEF List, At
<1>24. len = 0 => M = {} /\ t.level_queue[l] = 0
  BY <1>9, <1>l DEF Elements, List, At
<1>w. w.next \in [1..NPROC -> 0..NPROC] /\ w.level_queue \in [Levels -> 0..NPROC]
  BY <1>18 DEF Table, Slots
<1>25. /\ Lane(w.next, w.level_queue[0], Members(w, 0))
       /\ v.cur = IF w.level_queue[0] = 0 THEN 0 ELSE LastNode(w, w.level_queue[0])
       /\ \A m \in Levels : m # 0 /\ m # l => w.level_queue[m] = t.level_queue[m]
       /\ \A x \in Slots : x \notin M0 => w.next[x] = t.next[x]
  <2>1. CASE len = 0
    <3>1. w.next = t.next /\ w.level_queue[0] = h /\ Members(w, 0) = M0 /\ v.cur = c
          /\ \A m \in Levels : m # 0 /\ m # l => w.level_queue[m] = t.level_queue[m]
      BY <1>e, <1>14, <1>16, <1>18, <1>20, <1>24, <2>1 DEF h
    <3>2. LastNode(w, h) = LastNode(t, h)
      BY <3>1, LastNodeSame
    <3> QED BY <1>3, <1>4, <1>5, <3>1, <3>2
  <2>2. CASE len # 0 /\ h = 0
    <3>1. c = 0 /\ M0 = {}
      BY <1>5, <2>2
    <3>2. w.next = t.next /\ v.cur = q[len] /\ Members(w, 0) = M
          /\ w.level_queue = [[t.level_queue EXCEPT ![0] = q[1]] EXCEPT ![l] = 0]
      BY <1>14, <1>16, <1>18, <1>20, <2>2, <3>1
    <3>3. w.level_queue[0] = t.level_queue[l]
          /\ \A m \in Levels : m # 0 /\ m # l => w.level_queue[m] = t.level_queue[m]
      BY <1>e, <1>1, <1>23, <2>2, <3>2
    <3>4. Lane(w.next, w.level_queue[0], M)
      BY <1>8, <3>2, <3>3
    <3>5. w.level_queue[0] # 0 /\ q[len] \in M /\ w.next[q[len]] = 0
      BY <1>10, <1>23, <2>2, <3>2, <3>3
    <3>6. LastNode(w, w.level_queue[0]) = q[len]
      BY <1>1, <1>w, <3>4, <3>5, LaneLastIs
    <3> QED BY <3>2, <3>3, <3>4, <3>5, <3>6
  <2>3. CASE len # 0 /\ h # 0
    <3>1. c \in M0 /\ c = LastNode(t, h) /\ c # 0 /\ c \in Slots
      BY <1>4, <1>6, <2>3
    <3>2. w.next = [t.next EXCEPT ![c] = q[1]] /\ v.cur = q[len]
          /\ w.level_queue = [t.level_queue EXCEPT ![l] = 0]
      BY <1>14, <1>16, <1>18, <2>3, <3>1
    <3>3. w.level_queue[0] = h /\ \A m \in Levels : m # 0 /\ m # l => w.level_queue[m] = t.level_queue[m]
      BY <1>e, <1>1, <3>2 DEF h
    <3>4. \A x \in Slots : x # c => w.next[x] = t.next[x]
      BY <1>e, <3>2
    <3>5. w.next[c] = t.level_queue[l]
      BY <1>e, <1>23, <2>3, <3>1, <3>2
    <3>6. M0 \subseteq Slots /\ M \subseteq Slots
      BY DEF M, M0, Members
    <3>7. Continues(t, w.next, h, t.level_queue[l], M0 \cup M)
      BY <3>1, <3>4, <3>5, <3>6 DEF Continues
    <3>8. M0 \cap M = {} /\ h # 0
      BY <1>22, <2>3
    <3>9. Lane(w.next, h, M0 \cup M)
      BY <1>1, <1>n, <1>w, <1>3, <1>8, <3>7, <3>8, LaneJoin
    <3>10. q[len] \in M0 \cup M /\ w.next[q[len]] = 0
      BY <1>22, <1>23, <2>3, <3>1, <3>4, <3>6
    <3>11. LastNode(w, h) = q[len]
      BY <1>1, <1>w, <3>9, <3>10, LaneLastIs
    <3> QED BY <1>20, <2>3, <3>1, <3>2, <3>3, <3>4, <3>9, <3>11
  <2> QED BY <2>1, <2>2, <2>3
<1>26. ASSUME NEW m \in Levels, m # 0, m # l PROVE Lane(w.next, w.level_queue[m], Members(w, m))
  <2>1. Members(w, m) = Members(t, m) /\ w.level_queue[m] = t.level_queue[m]
    BY <1>20, <1>25, <1>26
  <2>2. \A x \in Members(t, m) : w.next[x] = t.next[x]
    BY <1>25, <1>26 DEF Members, M0
  <2>3. Lined(t)
    BY DEF t
  <2> QED BY <1>18, <2>1, <2>2, <2>3, QueueSame
<1>27. Lined(w)
  BY <1>18, <1>21, <1>25, <1>26 DEF Lined
<1>28. AtTail(v)
  BY <1>25 DEF AtTail, w
<1> QED BY <1>19, <1>27, <1>28 DEF v, w, t, M

(* A boost takes every queued process to level 0, with the highest         *)
(* priority number and a new allotment, and loses none.                    *)
Boosted(t, u) ==
  /\ Lined(u) /\ Kept(t, u) /\ u.global_tick = 0
  /\ Renewed(t, u, {p \in Slots : t.already_enqueued[p]})

(* A priority boost keeps the queues exact and renews every queued process. *)
LEMMA BoostLines ==
  ASSUME Sized, NEW t, Lined(t), ~t.scheduler_locked
  PROVE  Boosted(t, boost(t))
<1> DEFINE h == t.level_queue[0]
           M0 == Members(t, 0)
           t0 == Refresh(t, Nodes(t, h))
           s0 == [t |-> t0, cur |-> IF h = 0 THEN 0 ELSE LastNode(t, h)]
           s1 == MoveLevel(s0, 1)
           s2 == MoveLevel(s1, 2)
<1>1. t \in Table /\ NPROC \in Nat /\ 0 \in Levels /\ 1 \in Levels /\ 2 \in Levels
  BY DEF Lined, Sized, Levels
<1>e. /\ t.already_enqueued \in [Slots -> BOOLEAN] /\ t.level \in [Slots -> Levels]
  BY <1>1 DEF Table
<1>2. LaneSeen(t, h, M0, NPROC)
  BY <1>1, QueueSeen
<1>3. Ends(t, h) /\ Nodes(t, h) = M0
  BY <1>2 DEF LaneSeen
<1>4. /\ t0 \in Table /\ Kept(t, t0) /\ t0.next = t.next /\ t0.level_queue = t.level_queue
      /\ t0.level = t.level /\ Renewed(t, t0, M0)
  <2> DEFINE pr == [q \in Slots |-> IF q \in M0 THEN MAXPRI ELSE t.priority[q]]
             ta == [q \in Slots |-> IF q \in M0 THEN 0 ELSE t.time_allotment[q]]
  <2>1. pr \in [Slots -> 0..MAXPRI] /\ ta \in [Slots -> 0..time_quantum(2)]
    <3>1. MAXPRI \in 0..MAXPRI /\ 0 \in 0..time_quantum(2)
      BY DEF Sized, time_quantum
    <3>2. t.priority \in [Slots -> 0..MAXPRI] /\ t.time_allotment \in [Slots -> 0..time_quantum(2)]
      BY <1>1 DEF Table
    <3> QED BY <3>1, <3>2
  <2>2. t0 = [t EXCEPT !.priority = pr, !.time_allotment = ta]
    BY <1>3 DEF Refresh
  <2> HIDE DEF t0, pr, ta
  <2>3. /\ t0 \in Table /\ Kept(t, t0) /\ t0.next = t.next /\ t0.level_queue = t.level_queue
        /\ t0.level = t.level /\ t0.priority = pr /\ t0.time_allotment = ta
    BY <1>1, <2>1, <2>2 DEF Table, Kept
  <2>4. Renewed(t, t0, M0)
    BY <2>3 DEF Renewed, pr, ta, Members
  <2> QED BY <2>3, <2>4
<1> HIDE DEF t0
<1>5. Lined(s0.t) /\ s0.t = t0
  <2>1. Lined(t0)
    BY <1>4, LinedSame DEF Kept
  <2> QED BY <2>1
<1>6. AtTail(s0)
  <2>1. LastNode(t0, h) = LastNode(t, h)
    BY <1>4, LastNodeSame
  <2> QED BY <1>4, <2>1 DEF AtTail
<1> HIDE DEF s0
<1>7. /\ Lined(s1.t) /\ AtTail(s1) /\ Kept(t0, s1.t) /\ Renewed(t0, s1.t, Members(t0, 1))
  BY <1>1, <1>5, <1>6, MoveLines
<1> HIDE DEF s1
<1>8. /\ Lined(s2.t) /\ Kept(s1.t, s2.t) /\ Renewed(s1.t, s2.t, Members(s1.t, 2))
  BY <1>1, <1>7, MoveLines
<1>9. Kept(t, s2.t)
  BY <1>4, <1>7, <1>8 DEF Kept
<1> DEFINE u == schedulerUnlock(s2.t)
<1>10. u = s2.t
  BY <1>9 DEF schedulerUnlock, Kept
<1>11. boost(t) = [u EXCEPT !.global_tick = 0]
  BY <1>3 DEF boost, s0, s1, t0
<1> DEFINE b == boost(t)
           t2 == s2.t
<1>12. b = [t2 EXCEPT !.global_tick = 0]
  BY <1>10, <1>11
<1> HIDE DEF b, s2, u
<1>13. /\ b \in Table /\ Kept(t2, b) /\ b.next = t2.next /\ b.level_queue = t2.level_queue
       /\ b.level = t2.level /\ b.priority = t2.priority /\ b.time_allotment = t2.time_allotment
       /\ b.global_tick = 0
  <2>1. t2 \in Table /\ 0 \in 0..BOOST
    BY <1>8 DEF Lined, Sized
  <2> HIDE DEF t2
  <2> QED BY <1>12, <2>1 DEF Table, Kept
<1>14. Lined(b)
  BY <1>8, <1>13, LinedSame DEF Kept
<1>15. Kept(t, b)
  BY <1>9, <1>13 DEF Kept
<1>16. ASSUME NEW p \in Slots
       PROVE  /\ b.level[p] = IF t.already_enqueued[p] THEN 0 ELSE t.level[p]
              /\ b.priority[p] = IF t.already_enqueued[p] THEN MAXPRI ELSE t.priority[p]
              /\ b.time_allotment[p] = IF t.already_enqueued[p] THEN 0 ELSE t.time_allotment[p]
  <2>1. p \in Members(t0, 1) <=> t.already_enqueued[p] /\ t.level[p] = 1
    BY <1>4 DEF Members, Kept
  <2>2. p \in M0 <=> t.already_enqueued[p] /\ t.level[p] = 0
    BY DEF Members
  <2>3. /\ t0.level[p] = IF p \in M0 THEN 0 ELSE t.level[p]
        /\ t0.priority[p] = IF p \in M0 THEN MAXPRI ELSE t.priority[p]
        /\ t0.time_allotment[p] = IF p \in M0 THEN 0 ELSE t.time_allotment[p]
    BY <1>4 DEF Renewed
  <2>4. /\ s1.t.level[p] = IF p \in Members(t0, 1) THEN 0 ELSE t0.level[p]
        /\ s1.t.priority[p] = IF p \in Members(t0, 1) THEN MAXPRI ELSE t0.priority[p]
        /\ s1.t.time_allotment[p] = IF p \in Members(t0, 1) THEN 0 ELSE t0.time_allotment[p]
    BY <1>7 DEF Renewed
  <2>5. /\ b.level[p] = IF p \in Members(s1.t, 2) THEN 0 ELSE s1.t.level[p]
        /\ b.priority[p] = IF p \in Members(s1.t, 2) THEN MAXPRI ELSE s1.t.priority[p]
        /\ b.time_allotment[p] = IF p \in Members(s1.t, 2) THEN 0 ELSE s1.t.time_allotment[p]
    BY <1>8, <1>13 DEF Renewed
  <2>6. p \in Members(s1.t, 2) <=> t.already_enqueued[p] /\ s1.t.level[p] = 2
    BY <1>4, <1>7 DEF Members, Kept
  <2>7. t.level[p] \in {0, 1, 2}
    BY <1>e DEF Levels
  <2> HIDE DEF M0
  <2>8. CASE ~t.already_enqueued[p]
    BY <2>1, <2>2, <2>3, <2>4, <2>5, <2>6, <2>8
  <2>9. CASE t.already_enqueued[p] /\ t.level[p] = 0
    BY <2>1, <2>2, <2>3, <2>4, <2>5, <2>6, <2>9
  <2>10. CASE t.already_enqueued[p] /\ t.level[p] = 1
    BY <2>1, <2>2, <2>3, <2>4, <2>5, <2>6, <2>10
  <2>11. CASE t.already_enqueued[p] /\ t.level[p] = 2
    BY <2>1, <2>2, <2>3, <2>4, <2>5, <2>6, <2>11
  <2> QED BY <2>7, <2>8, <2>9, <2>10, <2>11
<1>17. Renewed(t, b, {p \in Slots : t.already_enqueued[p]})
  BY <1>16 DEF Renewed
<1>18. Boosted(t, b)
  BY <1>13, <1>14, <1>15, <1>17 DEF Boosted
<1> QED BY <1>18 DEF b

-----------------------------------------------------------------------------
(* Quanta are positive, and that of level 2 is the longest. *)
LEMMA Quanta ==
  ASSUME Sized
  PROVE  \A l \in Levels : time_quantum(l) \in Nat \ {0} /\ time_quantum(l) <= time_quantum(2)
<1> SUFFICES ASSUME NEW l \in Levels
             PROVE  time_quantum(l) \in Nat \ {0} /\ time_quantum(l) <= time_quantum(2)
  OBVIOUS
<1>1. QuantumStep * 0 = 0 /\ QuantumStep * 1 = QuantumStep /\ QuantumStep * 2 = QuantumStep + QuantumStep
  BY DEF Sized
<1>2. CASE l = 0
  BY <1>1, <1>2 DEF Sized, time_quantum
<1>3. CASE l = 1
  BY <1>1, <1>3 DEF Sized, time_quantum
<1>4. CASE l = 2
  BY <1>1, <1>4 DEF Sized, time_quantum
<1> QED BY <1>2, <1>3, <1>4 DEF Levels

(* A table between two critical sections: what holds of every slot. *)
Fit(t, q) ==
  /\ t.already_enqueued[q] <=> t.state[q] = "RUNNABLE"
  /\ t.state[q] \in {"RUNNABLE", "SLEEPING"} => t.time_allotment[q] < time_quantum(t.level[q])
  /\ t.state[q] = "EMBRYO" => t.level[q] = 0 /\ t.time_allotment[q] = 0

Settled(t) == Lined(t) /\ ~t.scheduler_locked /\ t.fault = "none"

Good(t) == Settled(t) /\ \A q \in Slots : Fit(t, q)

(* A table whose process p is about to stop. *)
Stopping(t, p) ==
  /\ Settled(t) /\ \A q \in Slots : q # p => Fit(t, q)
  /\ ~t.already_enqueued[p] /\ t.state[p] \in {"RUNNABLE", "SLEEPING", "ZOMBIE"}

(* demote leaves a process with a part of its quantum. *)
Demoted(t, u, p) ==
  /\ u \in Table
  /\ u.state = t.state /\ u.parent = t.parent /\ u.chan = t.chan /\ u.killed = t.killed
  /\ u.lock_scheduler = t.lock_scheduler /\ u.already_enqueued = t.already_enqueued
  /\ u.scheduler_locked = t.scheduler_locked /\ u.fault = t.fault
  /\ u.next = t.next /\ u.level_queue = t.level_queue /\ u.global_tick = t.global_tick
  /\ \A q \in Slots : q # p => u.level[q] = t.level[q] /\ u.time_allotment[q] = t.time_allotment[q]
  /\ u.time_allotment[p] < time_quantum(u.level[p])

(* demote, for any allotment and level. *)
LEMMA DemoteLines ==
  ASSUME Sized, NEW t \in Table, ~t.scheduler_locked, NEW p \in Slots
  PROVE  Demoted(t, demote(t, p), p)
<1> DEFINE u == demote(t, p)
           l == t.level[p]
           a == t.time_allotment[p]
<1>1. /\ t.level \in [Slots -> Levels] /\ t.time_allotment \in [Slots -> 0..time_quantum(2)]
      /\ t.priority \in [Slots -> 0..MAXPRI]
  BY DEF Table
<1>2. /\ l \in Levels /\ a \in 0..time_quantum(2)
  BY <1>1
<1>3. time_quantum(l) \in Nat \ {0} /\ time_quantum(2) \in Nat /\ 0 \in 0..time_quantum(2)
  <2>1. 2 \in Levels
    BY DEF Levels
  <2>2. time_quantum(2) \in Nat \ {0} /\ time_quantum(l) \in Nat \ {0}
    BY <1>2, <2>1, Quanta
  <2> QED BY <2>2
<1>4. CASE a < time_quantum(l)
  <2>1. u = t
    BY <1>4 DEF demote
  <2> QED BY <1>4, <2>1 DEF Demoted
<1>5. CASE ~(a < time_quantum(l)) /\ l < 2
  <2> DEFINE lev == [t.level EXCEPT ![p] = l + 1]
             ta == [t.time_allotment EXCEPT ![p] = 0]
  <2>1. l + 1 \in Levels
    BY <1>2, <1>5 DEF Levels
  <2>2. lev \in [Slots -> Levels] /\ ta \in [Slots -> 0..time_quantum(2)]
    BY <1>1, <1>3, <2>1
  <2>3. u = [t EXCEPT !.level = lev, !.time_allotment = ta]
    BY <1>5 DEF demote
  <2>4. time_quantum(lev[p]) \in Nat \ {0} /\ ta[p] = 0
    BY <1>1, <2>1, Quanta
  <2>5. \A q \in Slots : q # p => lev[q] = t.level[q] /\ ta[q] = t.time_allotment[q]
    BY <1>1
  <2> HIDE DEF u, lev, ta
  <2>6. u.level = lev /\ u.time_allotment = ta
    BY <2>3 DEF Table
  <2>7. u.time_allotment[p] < time_quantum(u.level[p])
    <3>1. 0 < time_quantum(lev[p])
      BY <2>4
    <3> QED BY <2>4, <2>6, <3>1
  <2>8. /\ u \in Table
        /\ u.state = t.state /\ u.parent = t.parent /\ u.chan = t.chan /\ u.killed = t.killed
        /\ u.lock_scheduler = t.lock_scheduler /\ u.already_enqueued = t.already_enqueued
        /\ u.scheduler_locked = t.scheduler_locked /\ u.fault = t.fault
        /\ u.next = t.next /\ u.level_queue = t.level_queue /\ u.global_tick = t.global_tick
    BY <2>2, <2>3 DEF Table
  <2>9. Demoted(t, u, p)
    BY <2>5, <2>6, <2>7, <2>8 DEF Demoted
  <2> QED BY <2>9 DEF u
<1>6. CASE ~(a < time_quantum(l)) /\ ~(l < 2)
  <2> DEFINE pr == [t.priority EXCEPT ![p] = IF t.priority[p] >= 1 THEN t.priority[p] - 1 ELSE 0]
             ta == [t.time_allotment EXCEPT ![p] = 0]
  <2>1. (IF t.priority[p] >= 1 THEN t.priority[p] - 1 ELSE 0) \in 0..MAXPRI
    BY <1>1 DEF Sized
  <2>2. pr \in [Slots -> 0..MAXPRI] /\ ta \in [Slots -> 0..time_quantum(2)]
    BY <1>1, <1>3, <2>1
  <2>3. u = [t EXCEPT !.priority = pr, !.time_allotment = ta]
    BY <1>6 DEF demote
  <2>4. ta[p] = 0 /\ \A q \in Slots : q # p => ta[q] = t.time_allotment[q]
    BY <1>1
  <2> HIDE DEF u, pr, ta
  <2>6. u.level = t.level /\ u.time_allotment = ta
    BY <2>3 DEF Table
  <2>7. u.time_allotment[p] < time_quantum(u.level[p])
    <3>1. 0 < time_quantum(l)
      BY <1>3
    <3> QED BY <2>4, <2>6, <3>1
  <2>8. /\ u \in Table
        /\ u.state = t.state /\ u.parent = t.parent /\ u.chan = t.chan /\ u.killed = t.killed
        /\ u.lock_scheduler = t.lock_scheduler /\ u.already_enqueued = t.already_enqueued
        /\ u.scheduler_locked = t.scheduler_locked /\ u.fault = t.fault
        /\ u.next = t.next /\ u.level_queue = t.level_queue /\ u.global_tick = t.global_tick
    BY <2>2, <2>3 DEF Table
  <2>9. Demoted(t, u, p)
    BY <2>4, <2>6, <2>7, <2>8 DEF Demoted
  <2> QED BY <2>9 DEF u
<1> QED BY <1>4, <1>5, <1>6

(* scheduler, after p has stopped: p is queued again if it can run, and a  *)
(* boost that is due reaches every process that can.                       *)
FreshStart(t) ==
  \A q \in Slots :
    t.state[q] = "RUNNABLE" =>
      t.level[q] = 0 /\ t.time_allotment[q] = 0 /\ t.priority[q] = MAXPRI

Stopped(t, u) ==
  /\ Good(u) /\ u.state = t.state
  /\ t.global_tick >= BOOST => FreshStart(u)

(* The scheduler after swtch (demotion, enqueue, boost) leaves a good      *)
(* table.                                                                  *)
LEMMA StopLines ==
  ASSUME Sized, NEW t, NEW p \in Slots, Stopping(t, p)
  PROVE  /\ ~AfterSwtch(t, p).scheduler_locked
         /\ Stopped(t, AfterEnqueue(AfterSwtch(t, p)))
<1> DEFINE d == demote(t, p)
           u == AfterSwtch(t, p)
           v == AfterEnqueue(u)
<1>1. t \in Table /\ ~t.scheduler_locked /\ t.fault = "none" /\ Lined(t)
  BY DEF Stopping, Settled, Lined
<1>e. /\ t.already_enqueued \in [Slots -> BOOLEAN] /\ t.level \in [Slots -> Levels]
      /\ t.state \in [Slots -> States]
  BY <1>1 DEF Table
<1>2. u = AfterDemote(d, p)
  BY <1>1 DEF AfterSwtch, AfterRelease
<1>3. Demoted(t, d, p)
  BY <1>1, DemoteLines
<1> HIDE DEF d, u
<1>4. Lined(d)
  <2>1. \A l : Members(d, l) = Members(t, l)
    BY <1>3 DEF Members, Demoted, Stopping
  <2> QED BY <1>1, <1>3, <2>1 DEF Lined, Demoted
<1>5. /\ Lined(u) /\ Frame(d, u)
      /\ \A q \in Slots : u.already_enqueued[q] <=> t.state[q] = "RUNNABLE"
  <2>1. \A q \in Slots : q # p => (t.already_enqueued[q] <=> t.state[q] = "RUNNABLE")
    BY DEF Stopping, Fit
  <2>2. d.state = t.state /\ d.already_enqueued = t.already_enqueued /\ ~t.already_enqueued[p]
    BY <1>3 DEF Demoted, Stopping
  <2>3. CASE t.state[p] = "RUNNABLE"
    <3>1. u = enqueue(d, p, d.level[p])
      BY <1>2, <2>2, <2>3 DEF AfterDemote
    <3>2. Queues(d, u, p)
      BY <1>4, <3>1, EnqueueLines
    <3> QED BY <1>e, <2>1, <2>2, <2>3, <3>2 DEF Queues
  <2>4. CASE t.state[p] # "RUNNABLE"
    <3>1. u = d
      BY <1>2, <2>2, <2>4 DEF AfterDemote
    <3> QED BY <1>4, <2>1, <2>2, <2>4, <3>1 DEF Frame
  <2> QED BY <2>3, <2>4
<1>6. u.state = t.state /\ ~u.scheduler_locked /\ u.fault = "none" /\ u.global_tick = t.global_tick
  BY <1>1, <1>3, <1>5 DEF Frame, Demoted
<1>7. ASSUME NEW q \in Slots PROVE Fit(u, q)
  <2>1. u.level[q] = d.level[q] /\ u.time_allotment[q] = d.time_allotment[q]
    BY <1>5 DEF Frame
  <2>2. CASE q = p
    <3>1. d.time_allotment[p] < time_quantum(d.level[p])
      BY <1>3 DEF Demoted
    <3>2. t.state[p] # "EMBRYO"
      BY DEF Stopping
    <3> QED BY <1>5, <1>6, <2>1, <2>2, <3>1, <3>2 DEF Fit
  <2>3. CASE q # p
    <3>1. d.level[q] = t.level[q] /\ d.time_allotment[q] = t.time_allotment[q]
      BY <1>3, <2>3 DEF Demoted
    <3>2. Fit(t, q)
      BY <2>3 DEF Stopping
    <3> QED BY <1>5, <1>6, <2>1, <3>1, <3>2 DEF Fit
  <2> QED BY <2>2, <2>3
<1>8. Good(u)
  BY <1>5, <1>6, <1>7 DEF Good, Settled
<1>9. CASE ~(u.global_tick >= BOOST)
  <2>1. v = u
    BY <1>9 DEF AfterEnqueue
  <2> QED BY <1>6, <1>8, <1>9, <2>1 DEF Stopped, u
<1>10. CASE u.global_tick >= BOOST
  <2>1. v = boost(u)
    BY <1>10 DEF AfterEnqueue
  <2>2. Boosted(u, v)
    BY <1>5, <1>6, <2>1, BoostLines
  <2> HIDE DEF v
  <2>3. Lined(v) /\ Kept(u, v) /\ Renewed(u, v, {q \in Slots : u.already_enqueued[q]})
    BY <2>2 DEF Boosted
  <2>4. Settled(v) /\ v.state = t.state /\ v.already_enqueued = u.already_enqueued
    BY <1>6, <2>3 DEF Settled, Kept
  <2>5. ASSUME NEW q \in Slots
        PROVE  /\ Fit(v, q)
               /\ v.state[q] = "RUNNABLE" =>
                    v.level[q] = 0 /\ v.time_allotment[q] = 0 /\ v.priority[q] = MAXPRI
    <3>1. /\ v.level[q] = IF u.already_enqueued[q] THEN 0 ELSE u.level[q]
          /\ v.priority[q] = IF u.already_enqueued[q] THEN MAXPRI ELSE u.priority[q]
          /\ v.time_allotment[q] = IF u.already_enqueued[q] THEN 0 ELSE u.time_allotment[q]
      BY <2>3 DEF Renewed
    <3>2. time_quantum(0) \in Nat \ {0}
      BY Quanta DEF Levels
    <3>3. 0 < time_quantum(0)
      BY <3>2
    <3> QED BY <1>5, <1>6, <1>7, <2>4, <3>1, <3>3 DEF Fit
  <2>6. Stopped(t, v)
    BY <2>4, <2>5 DEF Stopped, Good, FreshStart
  <2> QED BY <1>6, <2>6 DEF u, v
<1> QED BY <1>9, <1>10

-----------------------------------------------------------------------------
(* Sleepers that become runnable, and nothing else that matters here. *)
Rises(t, u) ==
  /\ u.global_tick = t.global_tick
  /\ \A q \in Slots :
       u.state[q] = t.state[q] \/ (t.state[q] = "SLEEPING" /\ u.state[q] = "RUNNABLE")

(* wakeup1 keeps a table good. *)
LEMMA WakeGood ==
  ASSUME Sized, NEW t, Good(t), NEW chan
  PROVE  Good(wakeup1(t, chan)) /\ Rises(t, wakeup1(t, chan))
<1> DEFINE u == wakeup1(t, chan)
<1>1. WokenTo(t, u, chan, NPROC)
  BY WakeLines DEF Good, Settled
<1> HIDE DEF u
<1>2. \A p \in Slots : p <= NPROC
  BY DEF Slots, Sized
<1>3. \A p \in Slots :
        /\ u.state[p] = IF Sleeps(t, chan, p) THEN "RUNNABLE" ELSE t.state[p]
        /\ u.already_enqueued[p] <=> t.already_enqueued[p] \/ Sleeps(t, chan, p)
  BY <1>1, <1>2 DEF WokenTo
<1>4. OtherFields(t, u) /\ Lined(u)
  BY <1>1 DEF WokenTo
<1>5. Settled(u)
  BY <1>4 DEF Settled, Good, OtherFields
<1>6. ASSUME NEW q \in Slots PROVE Fit(u, q)
  <2>1. Fit(t, q)
    BY DEF Good
  <2>2. u.level[q] = t.level[q] /\ u.time_allotment[q] = t.time_allotment[q]
    BY <1>4 DEF OtherFields
  <2>3. CASE Sleeps(t, chan, q)
    <3>1. t.state[q] = "SLEEPING" /\ u.state[q] = "RUNNABLE" /\ u.already_enqueued[q]
      BY <1>3, <2>3 DEF Sleeps
    <3> QED BY <2>1, <2>2, <3>1 DEF Fit
  <2>4. CASE ~Sleeps(t, chan, q)
    <3>1. u.state[q] = t.state[q] /\ (u.already_enqueued[q] <=> t.already_enqueued[q])
      BY <1>3, <2>4
    <3> QED BY <2>1, <2>2, <3>1 DEF Fit
  <2> QED BY <2>3, <2>4
<1>7. Rises(t, u)
  BY <1>3, <1>4 DEF Rises, Sleeps, OtherFields
<1> QED BY <1>5, <1>6, <1>7 DEF Good, u

(* A change of fields that Good does not speak of. *)
LEMMA GoodSame ==
  ASSUME NEW t, Good(t), NEW u \in Table, u.next = t.next, u.level_queue = t.level_queue,
         u.already_enqueued = t.already_enqueued, u.level = t.level, u.state = t.state,
         u.time_allotment = t.time_allotment, u.scheduler_locked = t.scheduler_locked,
         u.fault = t.fault
  PROVE  Good(u)
<1>1. Lined(u)
  BY LinedSame DEF Good, Settled
<1>2. \A q \in Slots : Fit(u, q)
  BY DEF Good, Fit
<1> QED BY <1>1, <1>2 DEF Good, Settled

(* A running process may stop in any of these states. *)
StopsAs(t, u, p, x) ==
  Stopping(u, p) /\ u.global_tick = t.global_tick /\ u.state = [t.state EXCEPT ![p] = x]

(* A RUNNING process is in no queue, so that it may stop in state x. *)
LEMMA RunningStops ==
  ASSUME Sized, NEW t, Good(t), NEW p \in Slots, t.state[p] = "RUNNING",
         NEW x \in {"RUNNABLE", "SLEEPING", "ZOMBIE"}, NEW ch \in [Slots -> 0..Ticks],
         NEW u, u = [t EXCEPT !.state[p] = x, !.chan = ch]
  PROVE  StopsAs(t, u, p, x)
<1>1. t \in Table /\ Lined(t) /\ ~t.scheduler_locked /\ t.fault = "none"
  BY DEF Good, Settled, Lined
<1> DEFINE st == [t.state EXCEPT ![p] = x]
<1>2. t.state \in [Slots -> States]
  BY <1>1 DEF Table
<1>3. st \in [Slots -> States]
  BY <1>2 DEF States
<1>4. u = [t EXCEPT !.state = st, !.chan = ch]
  OBVIOUS
<1>5. st[p] = x /\ \A q \in Slots : q # p => st[q] = t.state[q]
  BY <1>2
<1> HIDE DEF st
<1>6. /\ u \in Table /\ u.next = t.next /\ u.level_queue = t.level_queue
      /\ u.already_enqueued = t.already_enqueued /\ u.level = t.level /\ u.state = st
      /\ u.time_allotment = t.time_allotment /\ u.scheduler_locked = t.scheduler_locked
      /\ u.fault = t.fault /\ u.global_tick = t.global_tick
  BY <1>1, <1>3, <1>4 DEF Table
<1>7. Lined(u)
  BY <1>1, <1>6, LinedSame
<1>8. \A q \in Slots : q # p => Fit(u, q)
  BY <1>5, <1>6 DEF Good, Fit
<1>9. ~u.already_enqueued[p]
  <2>1. Fit(t, p)
    BY DEF Good
  <2> QED BY <1>6, <2>1 DEF Fit
<1>10. u.state[p] \in {"RUNNABLE", "SLEEPING", "ZOMBIE"}
  BY <1>5, <1>6
<1>11. Stopping(u, p)
  BY <1>1, <1>6, <1>7, <1>8, <1>9, <1>10 DEF Stopping, Settled
<1> QED BY <1>6, <1>11 DEF st, StopsAs

(* exit wakes the parent, and init if it inherits a zombie. *)
LEMMA ExitLines ==
  ASSUME Sized, NEW t, Good(t), NEW p \in Slots, t.state[p] = "RUNNING"
  PROVE  /\ Stopping(exit(t, p), p) /\ exit(t, p).global_tick = t.global_tick
         /\ exit(t, p).state[p] = "ZOMBIE"
         /\ \A q \in Slots : q # p =>
              \/ exit(t, p).state[q] = t.state[q]
              \/ t.state[q] = "SLEEPING" /\ exit(t, p).state[q] = "RUNNABLE"
<1> DEFINE kids == {q \in Slots : t.parent[q] = p}
           t1 == wakeup1(t, t.parent[p])
           pa == [q \in Slots |-> IF q \in kids THEN Init1 ELSE t1.parent[q]]
           t2 == [t1 EXCEPT !.parent = pa]
           t3 == IF \E q \in kids : t.state[q] = "ZOMBIE" THEN wakeup1(t2, Init1) ELSE t2
           u == [t3 EXCEPT !.state[p] = "ZOMBIE"]
<1>1. exit(t, p) = u
  BY DEF exit
<1>2. Good(t1) /\ Rises(t, t1)
  BY WakeGood
<1> HIDE DEF t1
<1>3. t1 \in Table
  BY <1>2 DEF Good, Settled, Lined
<1>4. pa \in [Slots -> 0..NPROC]
  <2>1. t1.parent \in [Slots -> 0..NPROC]
    BY <1>3 DEF Table
  <2>2. Init1 \in 0..NPROC
    BY DEF Init1, Sized
  <2> QED BY <2>1, <2>2
<1> HIDE DEF pa
<1>5. /\ t2 \in Table /\ t2.next = t1.next /\ t2.level_queue = t1.level_queue
      /\ t2.already_enqueued = t1.already_enqueued /\ t2.level = t1.level /\ t2.state = t1.state
      /\ t2.time_allotment = t1.time_allotment /\ t2.scheduler_locked = t1.scheduler_locked
      /\ t2.fault = t1.fault /\ t2.global_tick = t1.global_tick
  BY <1>3, <1>4 DEF Table
<1> HIDE DEF t2
<1>6. Good(t2) /\ Rises(t, t2)
  BY <1>2, <1>5, GoodSame DEF Rises
<1>7. Good(t3) /\ Rises(t2, t3)
  <2>1. Good(wakeup1(t2, Init1)) /\ Rises(t2, wakeup1(t2, Init1))
    BY <1>6, WakeGood
  <2>2. Rises(t2, t2)
    BY DEF Rises
  <2> QED BY <1>6, <2>1, <2>2
<1> HIDE DEF t3
<1>8. Rises(t, t3)
  BY <1>6, <1>7 DEF Rises
<1>9. t3.state[p] = "RUNNING" /\ t3 \in Table
  BY <1>7, <1>8 DEF Rises, Good, Settled, Lined
<1>10. t3.chan \in [Slots -> 0..Ticks] /\ t3.state \in [Slots -> States]
  BY <1>9 DEF Table
<1>11. u = [t3 EXCEPT !.state[p] = "ZOMBIE", !.chan = t3.chan]
  BY <1>9 DEF Table
<1> HIDE DEF u
<1>12. /\ Stopping(u, p) /\ u.global_tick = t3.global_tick
       /\ u.state = [t3.state EXCEPT ![p] = "ZOMBIE"]
  <2> DEFINE x == "ZOMBIE"
             ch == t3.chan
  <2>1. x \in {"RUNNABLE", "SLEEPING", "ZOMBIE"} /\ ch \in [Slots -> 0..Ticks]
        /\ u = [t3 EXCEPT !.state[p] = x, !.chan = ch]
    BY <1>10, <1>11
  <2> HIDE DEF x, ch
  <2>2. StopsAs(t3, u, p, x)
    BY <1>7, <1>9, <2>1, RunningStops
  <2> QED BY <2>2 DEF StopsAs, x
<1>13. \A q \in Slots : q # p =>
              \/ u.state[q] = t.state[q]
              \/ t.state[q] = "SLEEPING" /\ u.state[q] = "RUNNABLE"
  BY <1>8, <1>10, <1>12 DEF Rises
<1>14. u.state[p] = "ZOMBIE" /\ u.global_tick = t.global_tick
  BY <1>8, <1>10, <1>12 DEF Rises
<1> QED BY <1>1, <1>12, <1>13, <1>14

-----------------------------------------------------------------------------
(* Min of a set of numbers. *)
LEMMA MinIs ==
  ASSUME NEW S \in SUBSET Nat, S # {}
  PROVE  Min(S) \in S /\ \A y \in S : Min(S) <= y
<1>1. \E m \in S : \A n \in S : m <= n
  BY LeastNumber
<1> QED BY <1>1 DEF Min

(* scheduler takes a process that can run, of the first level that has     *)
(* one, and at level 2 one of the least priority.                          *)
First(t, p) ==
  \A q \in Slots :
    t.state[q] = "RUNNABLE" =>
      \/ t.level[p] < t.level[q]
      \/ t.level[p] = t.level[q] /\ (t.level[q] = 2 => t.priority[p] <= t.priority[q])

(* The choice of scheduler, and what taking it out of its queue does. *)
LEMMA ChooseFirst ==
  ASSUME Sized, NEW t, Good(t), Choose(t) # 0
  PROVE  /\ Choose(t) \in Slots /\ t.state[Choose(t)] = "RUNNABLE"
         /\ Takes(t, Taken(t, Choose(t)), Choose(t))
         /\ First(t, Choose(t))
<1> DEFINE L == NonEmpty(t)
           l == Min(L)
           h == t.level_queue[l]
           M == Members(t, l)
           p == Choose(t)
<1>1. Lined(t) /\ t \in Table /\ NPROC \in Nat
  BY DEF Good, Settled, Lined, Sized
<1>e. /\ t.already_enqueued \in [Slots -> BOOLEAN] /\ t.level \in [Slots -> Levels]
      /\ t.priority \in [Slots -> 0..MAXPRI]
  BY <1>1 DEF Table
<1>2. L # {}
  BY DEF Choose
<1>3. L \subseteq Levels /\ L \in SUBSET Nat
  BY DEF NonEmpty, Levels
<1>4. l \in L /\ \A y \in L : l <= y
  BY <1>2, <1>3, MinIs
<1>5. l \in Levels /\ h # 0
  BY <1>3, <1>4 DEF NonEmpty
<1>6. LaneSeen(t, h, M, NPROC)
  BY <1>1, <1>5, QueueSeen
<1>7. Nodes(t, h) = M /\ Ends(t, h) /\ h \in M /\ M \subseteq Slots
  BY <1>5, <1>6 DEF LaneSeen, Slots
<1>8. \A q \in Slots : t.state[q] = "RUNNABLE" => t.level[q] \in L /\ q \in Members(t, t.level[q])
  <2> SUFFICES ASSUME NEW q \in Slots, t.state[q] = "RUNNABLE"
               PROVE  t.level[q] \in L /\ q \in Members(t, t.level[q])
    OBVIOUS
  <2>1. q \in Members(t, t.level[q]) /\ t.level[q] \in Levels
    BY <1>e DEF Members, Good, Fit
  <2>2. LaneSeen(t, t.level_queue[t.level[q]], Members(t, t.level[q]), NPROC)
    BY <1>1, <2>1, QueueSeen
  <2>3. t.level_queue[t.level[q]] # 0
    BY <2>1, <2>2 DEF LaneSeen
  <2> QED BY <2>1, <2>3 DEF NonEmpty
<1>9. \A q \in M : q \in Slots /\ t.level[q] = l /\ t.already_enqueued[q] /\ t.state[q] = "RUNNABLE"
  BY DEF Members, Good, Fit
<1>10. CASE L # {2}
  <2>1. p = h /\ Taken(t, p) = dequeue(t, l)
    BY <1>2, <1>10 DEF Choose, Taken
  <2>2. Takes(t, dequeue(t, l), h)
    BY <1>1, <1>5, DequeueLines
  <2>3. l # 2
    <3>1. l = 2 => L = {2}
      BY <1>3, <1>4 DEF Levels
    <3> QED BY <1>10, <3>1
  <2> HIDE DEF L, l, h, M, p
  <2>4. p \in Slots /\ t.state[p] = "RUNNABLE" /\ t.level[p] = l
    BY <1>7, <1>9, <2>1
  <2>5. First(t, p)
    <3> SUFFICES ASSUME NEW q \in Slots, t.state[q] = "RUNNABLE"
                 PROVE  t.level[p] < t.level[q] \/ (t.level[p] = t.level[q] /\ t.level[q] # 2)
      BY DEF First
    <3>1. l <= t.level[q] /\ t.level[q] \in 0..2 /\ l \in 0..2
      BY <1>3, <1>4, <1>8 DEF Levels
    <3> QED BY <2>3, <2>4, <3>1
  <2> QED BY <2>1, <2>2, <2>4, <2>5 DEF p
<1>11. CASE L = {2}
  <2>1. l = 2
    BY <1>4, <1>11
  <2> DEFINE best == {x \in M : \A y \in M : t.priority[x] <= t.priority[y]}
  <2>2. p = Path(t, h)[Steps(t, h, best)]
    BY <1>7, <1>11 DEF Choose
  <2>3. best # {}
    <3> DEFINE P == {t.priority[x] : x \in M}
    <3> HIDE DEF M
    <3>1. P \in SUBSET Nat /\ P # {}
      BY <1>e, <1>7 DEF Sized
    <3>2. PICK m \in P : \A n \in P : m <= n
      <4> HIDE DEF P
      <4> QED BY <3>1, LeastNumber
    <3> QED BY <3>2
  <2>4. Lane(t.next, h, M) /\ t.next \in [1..NPROC -> 0..NPROC]
    BY <1>1, <1>5, TableNext DEF Lined
  <2>5. p \in best
    <3>1. best \in SUBSET M
      OBVIOUS
    <3> HIDE DEF best, h, M, l, p
    <3> QED BY <1>1, <2>2, <2>3, <2>4, <3>1, LaneSteps
  <2>6. Taken(t, p) = dequeue_specific(t, 2, p)
    BY <1>7, <1>11, <2>1 DEF Taken
  <2>7. p \in Members(t, 2)
    BY <2>1, <2>5
  <2>8. Takes(t, dequeue_specific(t, 2, p), p)
    <3> HIDE DEF p
    <3> QED BY <1>1, <1>5, <2>1, <2>7, DequeueSpecificLines
  <2> HIDE DEF L, p
  <2>9. p \in Slots /\ t.state[p] = "RUNNABLE" /\ t.level[p] = 2
    BY <1>9, <2>1, <2>5
  <2>10. First(t, p)
    <3> SUFFICES ASSUME NEW q \in Slots, t.state[q] = "RUNNABLE"
                 PROVE  t.level[p] = t.level[q] /\ t.priority[p] <= t.priority[q]
      BY DEF First
    <3>1. t.level[q] = 2 /\ q \in Members(t, 2)
      BY <1>8, <1>11
    <3>2. t.priority[p] <= t.priority[q]
      BY <2>1, <2>5, <3>1
    <3> QED BY <2>9, <3>1, <3>2
  <2> QED BY <2>6, <2>8, <2>9, <2>10 DEF p
<1> QED BY <1>10, <1>11

-----------------------------------------------------------------------------
(* The invariant, as a predicate of the values of the variables.  It is    *)
(* MlfqInv with the queues described by Lane, whose witness is the order   *)
(* of the list: the links alone do not say what enqueue keeps.             *)
RunsOnceIn(st, cp) ==
  /\ \A c, d \in CPU : cp[c] # 0 /\ cp[c] = cp[d] => c = d
  /\ \A p \in Slots : st[p] = "RUNNING" <=> \E c \in CPU : cp[c] = p

PcFit(st, pf, af) ==
  \A p \in Slots :
    /\ pf[p] \notin Locking
    /\ pf[p] = "exit" => st[p] \in {"ZOMBIE", "UNUSED"}
    /\ pf[p] = "fork" => af[p] \in Slots /\ st[af[p]] = "EMBRYO"
    /\ \A q \in Slots : pf[p] = "fork" /\ pf[q] = "fork" /\ af[p] = af[q] => p = q

Places == {"user", "fork", "wait", "sleep", "exit"} \cup Locking

Consistent(t, cp, s, pf, af, in) ==
  /\ Good(t)
  /\ cp \in [CPU -> 0..NPROC] /\ s \in [CPU -> 0..NPROC]
  /\ pf \in [Slots -> Places] /\ af \in [Slots -> -1..NPROC] /\ in \subseteq CPU
  /\ RunsOnceIn(t.state, cp)
  /\ PcFit(t.state, pf, af)

Now == Consistent(k, cproc, sp, pc, arg, intr)

(* What every step does: it keeps the invariant, a boost that is due       *)
(* reaches everybody, and a process that starts to run comes first.        *)
StepSound ==
  /\ Consistent(k', cproc', sp', pc', arg', intr')
  /\ k.global_tick = BOOST /\ k'.global_tick = 0 => FreshStart(k')
  /\ \A d \in CPU : cproc[d] = 0 /\ cproc'[d] # 0 => First(k, cproc'[d])

(* Nothing but p changes its state, except that sleepers wake up. *)
StatesFrom(st, st2, p) ==
  \A q \in Slots : q # p => st2[q] = st[q] \/ (st[q] = "SLEEPING" /\ st2[q] = "RUNNABLE")

(* A running process p goes on at another place, or exits. *)
LEMMA PcStep ==
  ASSUME NEW st, NEW st2, NEW pf, NEW pf2, NEW af, PcFit(st, pf, af), NEW p \in Slots,
         st[p] = "RUNNING", StatesFrom(st, st2, p),
         \A q \in Slots : q # p => pf2[q] = pf[q],
         pf2[p] \in {"user", "sleep", "wait", pf[p]} \/ (pf2[p] = "exit" /\ st2[p] = "ZOMBIE")
  PROVE  PcFit(st2, pf2, af)
<1>1. pf[p] # "exit" /\ pf[p] \notin Locking
  BY DEF PcFit
<1>2. ASSUME NEW q \in Slots
      PROVE  /\ pf2[q] \notin Locking
             /\ pf2[q] = "exit" => st2[q] \in {"ZOMBIE", "UNUSED"}
             /\ pf2[q] = "fork" => pf[q] = "fork"
  BY <1>1 DEF PcFit, StatesFrom, Locking
<1>3. ASSUME NEW q \in Slots, pf[q] = "fork" PROVE af[q] \in Slots /\ st2[af[q]] = "EMBRYO"
  <2>1. af[q] \in Slots /\ st[af[q]] = "EMBRYO"
    BY <1>3 DEF PcFit
  <2> QED BY <2>1 DEF StatesFrom
<1>4. \A q, r \in Slots : pf[q] = "fork" /\ pf[r] = "fork" /\ af[q] = af[r] => q = r
  BY DEF PcFit
<1> QED BY <1>2, <1>3, <1>4 DEF PcFit

(* A process that a CPU runs. *)
LEMMA RunningNow ==
  ASSUME Sized, Now, NEW c \in CPU, cproc[c] # 0
  PROVE  cproc[c] \in Slots /\ k.state[cproc[c]] = "RUNNING"
BY DEF Now, Consistent, RunsOnceIn, Slots, Sized

(* The running process stops. *)
LEMMA StopStep ==
  ASSUME Sized, Now, NEW c \in CPU, cproc[c] # 0, NEW t, Stop(c, t), Stopping(t, cproc[c]),
         t.global_tick = k.global_tick, StatesFrom(k.state, t.state, cproc[c]),
         pc' \in [Slots -> Places], arg' = arg, intr' \subseteq CPU,
         \A q \in Slots : q # cproc[c] => pc'[q] = pc[q],
         \/ pc'[cproc[c]] \in {"user", "sleep", "wait", pc[cproc[c]]}
         \/ pc'[cproc[c]] = "exit" /\ t.state[cproc[c]] = "ZOMBIE"
  PROVE  StepSound
<1> DEFINE p == cproc[c]
           u == AfterSwtch(t, p)
<1>1. p \in Slots /\ k.state[p] = "RUNNING"
  BY RunningNow
<1>2. /\ k' = AfterEnqueue(u)
      /\ sp' = [sp EXCEPT ![c] = IF u.scheduler_locked THEN p ELSE 0]
      /\ cproc' = [cproc EXCEPT ![c] = 0]
  BY DEF Stop
<1>3. ~u.scheduler_locked /\ Stopped(t, AfterEnqueue(u))
  BY <1>1, StopLines
<1> HIDE DEF u, p
<1>4. Good(k') /\ k'.state = t.state /\ (t.global_tick >= BOOST => FreshStart(k'))
  BY <1>2, <1>3 DEF Stopped
<1>5. cproc \in [CPU -> 0..NPROC] /\ sp \in [CPU -> 0..NPROC] /\ 0 \in 0..NPROC /\ cproc[c] = p /\ p # 0
  BY DEF Now, Consistent, Sized, p
<1>6. cproc' \in [CPU -> 0..NPROC] /\ sp' \in [CPU -> 0..NPROC]
  BY <1>2, <1>3, <1>5
<1>7. t.state[p] # "RUNNING"
  BY DEF Stopping, p
<1>8. \A q \in Slots : t.state[q] = "RUNNING" <=> k.state[q] = "RUNNING" /\ q # p
  BY <1>7 DEF StatesFrom, p
<1>9. RunsOnceIn(k'.state, cproc')
  <2>1. \A d \in CPU : cproc'[d] = IF d = c THEN 0 ELSE cproc[d]
    BY <1>2, <1>5
  <2>2. \A d, e \in CPU : cproc[d] # 0 /\ cproc[d] = cproc[e] => d = e
    BY DEF Now, Consistent, RunsOnceIn
  <2>3. \A q \in Slots : k.state[q] = "RUNNING" <=> \E d \in CPU : cproc[d] = q
    BY DEF Now, Consistent, RunsOnceIn
  <2>4. ASSUME NEW q \in Slots PROVE t.state[q] = "RUNNING" <=> \E d \in CPU : cproc'[d] = q
    <3>1. q # 0
      BY DEF Slots, Sized
    <3>2. CASE q = p
      BY <1>5, <1>7, <2>1, <2>2, <3>1, <3>2
    <3>3. CASE q # p
      BY <1>5, <1>8, <2>1, <2>3, <3>1, <3>3
    <3> QED BY <3>2, <3>3
  <2> QED BY <1>4, <2>1, <2>2, <2>4 DEF RunsOnceIn
<1>10. PcFit(k'.state, pc', arg')
  <2>1. PcFit(k.state, pc, arg)
    BY DEF Now, Consistent
  <2>2. \/ pc'[p] \in {"user", "sleep", "wait", pc[p]}
        \/ pc'[p] = "exit" /\ t.state[p] = "ZOMBIE"
    BY DEF p
  <2>3. \A q \in Slots : q # p => pc'[q] = pc[q]
    BY DEF p
  <2>4. StatesFrom(k.state, t.state, p)
    BY DEF p
  <2>5. PcFit(t.state, pc', arg)
    BY <1>1, <2>1, <2>2, <2>3, <2>4, PcStep
  <2> QED BY <1>4, <2>5
<1>11. Consistent(k', cproc', sp', pc', arg', intr')
  BY <1>4, <1>6, <1>9, <1>10 DEF Consistent, Now
<1>12. k.global_tick = BOOST => FreshStart(k')
  BY <1>4 DEF Sized
<1>13. \A d \in CPU : cproc'[d] # 0 => cproc[d] # 0
  BY <1>2, <1>5
<1> QED BY <1>11, <1>12, <1>13 DEF StepSound

(* RunsOnceIn depends on who is RUNNING only. *)
LEMMA RunsSame ==
  ASSUME NEW st, NEW st2, NEW cp, RunsOnceIn(st, cp),
         \A q \in Slots : st2[q] = "RUNNING" <=> st[q] = "RUNNING"
  PROVE  RunsOnceIn(st2, cp)
BY DEF RunsOnceIn

(* A slot gets another state, parent and mark, and the table is good in    *)
(* the new state.                                                          *)
Restated(t, v, q, x, pa, ki) == v = [t EXCEPT !.state[q] = x, !.parent = pa, !.killed = ki]

GoodAs(t, u, q, x) ==
  Good(u) /\ u.state = [t.state EXCEPT ![q] = x] /\ u.global_tick = t.global_tick

(* A process that sleeps or was just created becomes runnable. *)
LEMMA StartGood ==
  ASSUME Sized, NEW t, Good(t), NEW q \in Slots, t.state[q] \in {"SLEEPING", "EMBRYO"},
         NEW pa \in [Slots -> 0..NPROC], NEW ki \in [Slots -> BOOLEAN],
         NEW v, Restated(t, v, q, "RUNNABLE", pa, ki)
  PROVE  GoodAs(t, enqueue(v, q, t.level[q]), q, "RUNNABLE")
<1>1. t \in Table /\ Lined(t) /\ ~t.scheduler_locked /\ t.fault = "none"
  BY DEF Good, Settled, Lined
<1> DEFINE st == [t.state EXCEPT ![q] = "RUNNABLE"]
<1>2. t.state \in [Slots -> States]
  BY <1>1 DEF Table
<1>3. st \in [Slots -> States]
  BY <1>2 DEF States
<1>4. v = [t EXCEPT !.state = st, !.parent = pa, !.killed = ki]
  BY DEF Restated
<1>5. st[q] = "RUNNABLE" /\ \A x \in Slots : x # q => st[x] = t.state[x]
  BY <1>2
<1> HIDE DEF st
<1>6. /\ v \in Table /\ v.next = t.next /\ v.level_queue = t.level_queue
      /\ v.already_enqueued = t.already_enqueued /\ v.level = t.level /\ v.state = st
      /\ v.time_allotment = t.time_allotment /\ v.scheduler_locked = t.scheduler_locked
      /\ v.fault = t.fault /\ v.global_tick = t.global_tick
  BY <1>1, <1>3, <1>4 DEF Table
<1>7. Lined(v)
  BY <1>1, <1>6, LinedSame
<1> DEFINE u == enqueue(v, q, t.level[q])
<1>8. Queues(v, u, q)
  <2>1. u = enqueue(v, q, v.level[q])
    BY <1>6
  <2> QED BY <1>7, <2>1, EnqueueLines
<1> HIDE DEF u
<1>9. /\ Lined(u) /\ u.state = st /\ u.level = t.level /\ u.time_allotment = t.time_allotment
      /\ ~u.scheduler_locked /\ u.fault = "none" /\ u.global_tick = t.global_tick
      /\ u.already_enqueued = [t.already_enqueued EXCEPT ![q] = TRUE]
  BY <1>1, <1>6, <1>8 DEF Queues, Frame
<1>10. ASSUME NEW x \in Slots PROVE Fit(u, x)
  <2>1. Fit(t, x) /\ t.already_enqueued \in [Slots -> BOOLEAN]
    BY <1>1 DEF Good, Table
  <2>2. CASE x # q
    <3>1. u.state[x] = t.state[x] /\ (u.already_enqueued[x] <=> t.already_enqueued[x])
      BY <1>5, <1>9, <2>1, <2>2
    <3> QED BY <1>9, <2>1, <3>1 DEF Fit
  <2>3. CASE x = q
    <3>1. u.state[x] = "RUNNABLE" /\ u.already_enqueued[x]
      BY <1>5, <1>9, <2>1, <2>3
    <3>2. time_quantum(0) \in Nat \ {0}
      BY Quanta DEF Levels
    <3>3. 0 < time_quantum(0)
      BY <3>2
    <3>4. t.time_allotment[x] < time_quantum(t.level[x])
      BY <2>1, <2>3, <3>3 DEF Fit
    <3> QED BY <1>9, <3>1, <3>4 DEF Fit
  <2> QED BY <2>2, <2>3
<1>11. Good(u)
  BY <1>9, <1>10 DEF Good, Settled
<1> QED BY <1>9, <1>11 DEF GoodAs, u, st

(* Steps that leave the CPUs to whoever has them. *)
LEMMA QuietStep ==
  ASSUME Now, Good(k'), cproc' = cproc, sp' \in [CPU -> 0..NPROC], intr' \subseteq CPU,
         pc' \in [Slots -> Places], arg' \in [Slots -> -1..NPROC],
         \A q \in Slots : k'.state[q] = "RUNNING" <=> k.state[q] = "RUNNING",
         PcFit(k'.state, pc', arg'),
         k.global_tick = BOOST => k'.global_tick # 0
  PROVE  StepSound
<1>1. RunsOnceIn(k.state, cproc) /\ cproc \in [CPU -> 0..NPROC]
  BY DEF Now, Consistent
<1>2. RunsOnceIn(k'.state, cproc')
  BY <1>1, RunsSame
<1> QED BY <1>1, <1>2 DEF StepSound, Consistent

(* One step per action. *)
LEMMA PickStep ==
  ASSUME Sized, Now, NEW c \in CPU, Pick(c)
  PROVE  StepSound
<1> DEFINE p == Choose(k)
           t == Taken(k, p)
<1>1. Good(k) /\ ~k.scheduler_locked /\ PcFit(k.state, pc, arg) /\ RunsOnceIn(k.state, cproc)
      /\ cproc \in [CPU -> 0..NPROC] /\ sp \in [CPU -> 0..NPROC]
  BY DEF Now, Consistent, Good, Settled
<1>2. /\ cproc[c] = 0 /\ p # 0
      /\ k' = [t EXCEPT !.state[p] = "RUNNING", !.chan[p] = 0,
                        !.fault = IF t.state[p] \in {"UNUSED", "EMBRYO"} THEN "no stack"
                                  ELSE IF pc[p] = "exit" THEN "zombie exit" ELSE @]
      /\ cproc' = [cproc EXCEPT ![c] = p]
      /\ sp' = [sp EXCEPT ![c] = p]
      /\ pc' = pc /\ arg' = arg /\ intr' = intr
  BY <1>1 DEF Pick
<1>3. /\ p \in Slots /\ k.state[p] = "RUNNABLE" /\ Takes(k, t, p) /\ First(k, p)
  BY <1>1, <1>2, ChooseFirst
<1> HIDE DEF p, t
<1>4. pc[p] # "exit"
  BY <1>1, <1>3 DEF PcFit
<1>5. /\ Lined(t) /\ t \in Table /\ t.state = k.state /\ t.level = k.level
      /\ t.time_allotment = k.time_allotment /\ t.scheduler_locked = k.scheduler_locked
      /\ t.fault = k.fault /\ t.global_tick = k.global_tick
      /\ t.already_enqueued = [k.already_enqueued EXCEPT ![p] = FALSE]
  BY <1>3 DEF Takes, Frame, Lined
<1> DEFINE st == [t.state EXCEPT ![p] = "RUNNING"]
           ch == [t.chan EXCEPT ![p] = 0]
<1>6. t.state \in [Slots -> States] /\ t.chan \in [Slots -> 0..Ticks] /\ 0 \in 0..Ticks
  <2>1. 0 \in 0..Ticks
    BY DEF Ticks, Sized
  <2> QED BY <1>5, <2>1 DEF Table
<1>7. st \in [Slots -> States] /\ ch \in [Slots -> 0..Ticks]
  <2>1. "RUNNING" \in States
    BY DEF States
  <2> QED BY <1>6, <2>1
<1>8. k' = [t EXCEPT !.state = st, !.chan = ch]
  <2>1. t.state[p] \notin {"UNUSED", "EMBRYO"}
    BY <1>3, <1>5
  <2> QED BY <1>2, <1>4, <1>5, <2>1 DEF Table
<1>9. \A q \in Slots : st[q] = IF q = p THEN "RUNNING" ELSE k.state[q]
  BY <1>5, <1>6
<1> HIDE DEF st, ch
<1>10. /\ k' \in Table /\ k'.next = t.next /\ k'.level_queue = t.level_queue
       /\ k'.already_enqueued = t.already_enqueued /\ k'.level = t.level /\ k'.state = st
       /\ k'.time_allotment = t.time_allotment /\ k'.scheduler_locked = t.scheduler_locked
       /\ k'.fault = t.fault /\ k'.global_tick = t.global_tick
  BY <1>5, <1>7, <1>8 DEF Table
<1>11. Lined(k')
  BY <1>5, <1>10, LinedSame
<1>12. ASSUME NEW q \in Slots PROVE Fit(k', q)
  <2>1. Fit(k, q) /\ k.already_enqueued \in [Slots -> BOOLEAN]
    BY <1>1 DEF Good, Settled, Lined, Table
  <2>2. CASE q # p
    <3>1. k'.state[q] = k.state[q] /\ (k'.already_enqueued[q] <=> k.already_enqueued[q])
      BY <1>5, <1>9, <1>10, <2>1, <2>2
    <3> QED BY <1>5, <1>10, <2>1, <3>1 DEF Fit
  <2>3. CASE q = p
    <3>1. k'.state[q] = "RUNNING" /\ ~k'.already_enqueued[q]
      BY <1>5, <1>9, <1>10, <2>1, <2>3
    <3> QED BY <3>1 DEF Fit
  <2> QED BY <2>2, <2>3
<1>13. Good(k')
  BY <1>1, <1>5, <1>10, <1>11, <1>12 DEF Good, Settled
<1>14. p \in 0..NPROC
  BY <1>3 DEF Slots, Sized
<1>15. cproc' \in [CPU -> 0..NPROC] /\ sp' \in [CPU -> 0..NPROC]
  BY <1>1, <1>2, <1>14
<1>16. RunsOnceIn(k'.state, cproc')
  <2>1. \A d \in CPU : cproc'[d] = IF d = c THEN p ELSE cproc[d]
    BY <1>1, <1>2
  <2>2. \A d, e \in CPU : cproc[d] # 0 /\ cproc[d] = cproc[e] => d = e
    BY <1>1 DEF RunsOnceIn
  <2>3. \A q \in Slots : k.state[q] = "RUNNING" <=> \E d \in CPU : cproc[d] = q
    BY <1>1 DEF RunsOnceIn
  <2>4. \A d \in CPU : cproc[d] # p
    BY <1>3, <2>3
  <2>5. \A d, e \in CPU : cproc'[d] # 0 /\ cproc'[d] = cproc'[e] => d = e
    BY <2>1, <2>2, <2>4
  <2>6. ASSUME NEW q \in Slots PROVE k'.state[q] = "RUNNING" <=> \E d \in CPU : cproc'[d] = q
    <3>1. q # 0
      BY DEF Slots, Sized
    <3>2. CASE q = p
      BY <1>9, <1>10, <2>1, <3>2
    <3>3. CASE q # p
      <4>1. k'.state[q] = k.state[q]
        BY <1>9, <1>10, <3>3
      <4>2. \A d \in CPU : cproc'[d] = q <=> cproc[d] = q
        BY <1>2, <2>1, <3>1, <3>3
      <4> QED BY <2>3, <4>1, <4>2
    <3> QED BY <3>2, <3>3
  <2> QED BY <2>5, <2>6 DEF RunsOnceIn
<1>17. PcFit(k'.state, pc', arg')
  <2>1. \A q \in Slots : /\ pc[q] = "exit" => k'.state[q] \in {"ZOMBIE", "UNUSED"}
                         /\ k.state[q] = "EMBRYO" => k'.state[q] = "EMBRYO"
    BY <1>1, <1>3, <1>4, <1>9, <1>10 DEF PcFit
  <2> QED BY <1>1, <1>2, <2>1 DEF PcFit
<1>18. Consistent(k', cproc', sp', pc', arg', intr')
  BY <1>2, <1>13, <1>15, <1>16, <1>17 DEF Consistent, Now
<1>19. k.global_tick = BOOST => k'.global_tick # 0
  BY <1>5, <1>10 DEF Sized
<1>20. \A d \in CPU : cproc[d] = 0 /\ cproc'[d] # 0 => First(k, cproc'[d])
  BY <1>1, <1>2, <1>3
<1> QED BY <1>18, <1>19, <1>20 DEF StepSound

(* Waking sleepers disturbs no place and no slot of a fork. *)
LEMMA PcSame ==
  ASSUME NEW st, NEW st2, NEW pf, NEW af, PcFit(st, pf, af),
         \A q \in Slots : st2[q] = st[q] \/ (st[q] = "SLEEPING" /\ st2[q] = "RUNNABLE")
  PROVE  PcFit(st2, pf, af)
<1>1. ASSUME NEW q \in Slots
      PROVE  /\ pf[q] = "exit" => st2[q] \in {"ZOMBIE", "UNUSED"}
             /\ st[q] = "EMBRYO" => st2[q] = "EMBRYO"
  BY DEF PcFit
<1> QED BY <1>1 DEF PcFit

(* Facts about the state before a step, for the steps below. *)
LEMMA NowFacts ==
  ASSUME Now
  PROVE  /\ Good(k) /\ k \in Table /\ ~k.scheduler_locked /\ k.state \in [Slots -> States]
         /\ cproc \in [CPU -> 0..NPROC] /\ sp \in [CPU -> 0..NPROC]
         /\ pc \in [Slots -> Places] /\ arg \in [Slots -> -1..NPROC] /\ intr \subseteq CPU
         /\ PcFit(k.state, pc, arg) /\ RunsOnceIn(k.state, cproc)
<1>1. k \in Table
  BY DEF Now, Consistent, Good, Settled, Lined
<1>2. k.state \in [Slots -> States]
  BY <1>1 DEF Table
<1> QED BY <1>1, <1>2 DEF Now, Consistent, Good, Settled

(* The scheduler finds nothing to run. *)
LEMMA IdleStep ==
  ASSUME Sized, Now, NEW c \in CPU, Idle(c)
  PROVE  StepSound
<1>1. /\ k' = k /\ cproc' = cproc /\ pc' = pc /\ arg' = arg /\ intr' = intr
      /\ sp' = [sp EXCEPT ![c] = 0]
  BY DEF Idle
<1>2. sp' \in [CPU -> 0..NPROC]
  <2>1. 0 \in 0..NPROC
    BY DEF Sized
  <2> QED BY <1>1, <2>1, NowFacts
<1>3. k.global_tick = BOOST => k'.global_tick # 0
  BY <1>1 DEF Sized
<1> QED BY <1>1, <1>2, <1>3, NowFacts, QuietStep

(* The first part of the timer interrupt. *)
LEMMA TimerTickStep ==
  ASSUME Sized, Now, NEW c \in CPU, TimerTick(c)
  PROVE  StepSound
<1> DEFINE g == Min({k.global_tick + 1, BOOST})
           t == [k EXCEPT !.global_tick = g]
<1>1. /\ k' = wakeup1(t, Ticks) /\ cproc' = cproc /\ sp' = sp /\ pc' = pc /\ arg' = arg
      /\ intr' = intr \cup {c}
  BY DEF TimerTick
<1>2. g \in 0..BOOST /\ g # 0
  <2> DEFINE S == {k.global_tick + 1, BOOST}
  <2>1. k.global_tick \in 0..BOOST
    BY NowFacts DEF Table
  <2>2. S \in SUBSET Nat /\ S # {} /\ \A y \in S : y >= 1
    BY <2>1 DEF Sized
  <2>3. Min(S) \in S /\ \A y \in S : Min(S) <= y
    BY <2>2, MinIs
  <2>4. BOOST \in S
    OBVIOUS
  <2> HIDE DEF S
  <2>5. Min(S) \in Nat /\ Min(S) >= 1 /\ Min(S) <= BOOST
    BY <2>2, <2>3, <2>4
  <2>6. BOOST \in Nat
    BY DEF Sized
  <2>7. Min(S) \in 0..BOOST /\ Min(S) # 0
    BY <2>5, <2>6
  <2> QED BY <2>7 DEF S
<1> HIDE DEF g
<1>3. /\ t \in Table /\ t.next = k.next /\ t.level_queue = k.level_queue
      /\ t.already_enqueued = k.already_enqueued /\ t.level = k.level /\ t.state = k.state
      /\ t.time_allotment = k.time_allotment /\ t.scheduler_locked = k.scheduler_locked
      /\ t.fault = k.fault /\ t.global_tick = g
  BY <1>2, NowFacts DEF Table
<1> HIDE DEF t
<1>4. Good(t)
  BY <1>3, NowFacts, GoodSame
<1>5. Good(k') /\ Rises(t, k')
  BY <1>1, <1>4, WakeGood
<1>6. \A q \in Slots : k'.state[q] = k.state[q] \/ (k.state[q] = "SLEEPING" /\ k'.state[q] = "RUNNABLE")
  BY <1>3, <1>5 DEF Rises
<1>7. PcFit(k'.state, pc', arg')
  BY <1>1, <1>6, NowFacts, PcSame
<1>8. k'.global_tick # 0
  BY <1>2, <1>3, <1>5 DEF Rises
<1>9. \A q \in Slots : k'.state[q] = "RUNNING" <=> k.state[q] = "RUNNING"
  BY <1>6
<1>10. intr' \subseteq CPU
  BY <1>1, NowFacts
<1> QED BY <1>1, <1>5, <1>7, <1>8, <1>9, <1>10, NowFacts, QuietStep

(* A step of the running process that changes its own place only. *)
LEMMA PlaceStep ==
  ASSUME Sized, Now, NEW c \in CPU, NEW p, p = cproc[c], p # 0,
         UNCHANGED <<k, cproc, sp, arg, intr>>, pc' = [pc EXCEPT ![p] = "user"]
  PROVE  StepSound
<1>1. p \in Slots /\ k.state[p] = "RUNNING"
  BY RunningNow
<1>2. pc' \in [Slots -> Places] /\ pc'[p] = "user" /\ \A q \in Slots : q # p => pc'[q] = pc[q]
  BY <1>1, NowFacts DEF Places
<1>3. StatesFrom(k.state, k.state, p)
  BY DEF StatesFrom
<1>4. PcFit(k.state, pc', arg)
  <2>1. PcFit(k.state, pc, arg)
    BY NowFacts
  <2>2. \/ pc'[p] \in {"user", "sleep", "wait", pc[p]}
        \/ pc'[p] = "exit" /\ k.state[p] = "ZOMBIE"
    BY <1>2
  <2>3. \A q \in Slots : q # p => pc'[q] = pc[q]
    BY <1>2
  <2> DEFINE st == k.state
             pf == pc'
  <2>4. /\ PcFit(st, pc, arg) /\ st[p] = "RUNNING" /\ StatesFrom(st, st, p)
        /\ \A q \in Slots : q # p => pf[q] = pc[q]
        /\ \/ pf[p] \in {"user", "sleep", "wait", pc[p]}
           \/ pf[p] = "exit" /\ st[p] = "ZOMBIE"
    BY <1>1, <1>3, <2>1, <2>2, <2>3
  <2> HIDE DEF st, pf
  <2>5. PcFit(st, pf, arg)
    BY <1>1, <2>4, PcStep
  <2> QED BY <2>5 DEF st, pf
<1>5. k.global_tick = BOOST => k'.global_tick # 0
  BY DEF Sized
<1> QED BY <1>2, <1>4, <1>5, NowFacts, QuietStep

(* A process that yields, and one that sleeps. *)
LEMMA YieldStops ==
  ASSUME Sized, NEW t, Good(t), NEW p \in Slots, t.state[p] = "RUNNING"
  PROVE  StopsAs(t, [t EXCEPT !.state[p] = "RUNNABLE"], p, "RUNNABLE")
<1> DEFINE x == "RUNNABLE"
           ch == t.chan
           u == [t EXCEPT !.state[p] = "RUNNABLE"]
<1>1. t \in Table
  BY DEF Good, Settled, Lined
<1>2. x \in {"RUNNABLE", "SLEEPING", "ZOMBIE"} /\ ch \in [Slots -> 0..Ticks]
  BY <1>1 DEF Table
<1>3. u = [t EXCEPT !.state[p] = x, !.chan = ch]
  BY <1>1 DEF Table
<1> HIDE DEF ch, u, x
<1>4. StopsAs(t, u, p, x)
  BY <1>2, <1>3, RunningStops
<1> QED BY <1>4 DEF u, x

(* sleep: a RUNNING process may stop as SLEEPING on any channel. *)
LEMMA SleepStops ==
  ASSUME Sized, NEW t, Good(t), NEW p \in Slots, t.state[p] = "RUNNING", NEW a \in 0..Ticks
  PROVE  StopsAs(t, [t EXCEPT !.state[p] = "SLEEPING", !.chan[p] = a], p, "SLEEPING")
<1> DEFINE x == "SLEEPING"
           ch == [t.chan EXCEPT ![p] = a]
           u == [t EXCEPT !.state[p] = "SLEEPING", !.chan[p] = a]
<1>1. t \in Table
  BY DEF Good, Settled, Lined
<1>2. t.chan \in [Slots -> 0..Ticks]
  BY <1>1 DEF Table
<1>3. x \in {"RUNNABLE", "SLEEPING", "ZOMBIE"} /\ ch \in [Slots -> 0..Ticks]
  BY <1>2
<1>4. u = [t EXCEPT !.state[p] = x, !.chan = ch]
  OBVIOUS
<1> HIDE DEF ch, u, x
<1>5. StopsAs(t, u, p, x)
  BY <1>3, <1>4, RunningStops
<1> QED BY <1>5 DEF u, x

(* What StopStep needs of a process that stops by itself. *)
LEMMA StopsFrom ==
  ASSUME NEW t, t.state \in [Slots -> States], NEW u, NEW p \in Slots, NEW x, StopsAs(t, u, p, x)
  PROVE  /\ Stopping(u, p) /\ u.global_tick = t.global_tick /\ StatesFrom(t.state, u.state, p)
BY DEF StopsAs, StatesFrom

(* The system call yield. *)
LEMMA YieldStep ==
  ASSUME Sized, Now, NEW c \in CPU, NEW p \in Slots, Yield(c, p)
  PROVE  StepSound
<1> DEFINE t == [k EXCEPT !.state[p] = "RUNNABLE"]
<1>1. /\ p = cproc[c] /\ p # 0 /\ Stop(c, t) /\ pc' = pc /\ arg' = arg /\ intr' = intr
  BY DEF Yield, Calls, Runs
<1>2. k.state[p] = "RUNNING"
  BY <1>1, RunningNow
<1>3. StopsAs(k, t, p, "RUNNABLE")
  BY <1>2, NowFacts, YieldStops
<1> HIDE DEF t
<1>4. Stopping(t, p) /\ t.global_tick = k.global_tick /\ StatesFrom(k.state, t.state, p)
  BY <1>3, NowFacts, StopsFrom
<1>5. pc' \in [Slots -> Places] /\ intr' \subseteq CPU
  BY <1>1, NowFacts
<1>6. \A q \in Slots : q # cproc[c] => pc'[q] = pc[q]
  BY <1>1
<1>7. pc'[cproc[c]] \in {"user", "sleep", "wait", pc[cproc[c]]}
  BY <1>1
<1> QED BY <1>1, <1>4, <1>5, <1>6, <1>7, StopStep

(* The system call sleep, and its loop when it was woken too early. *)
LEMMA SleepStep ==
  ASSUME Sized, Now, NEW c \in CPU, NEW p \in Slots, Sleep(c, p)
  PROVE  StepSound
<1> DEFINE t == [k EXCEPT !.state[p] = "SLEEPING", !.chan[p] = Ticks]
<1>1. /\ p = cproc[c] /\ p # 0 /\ Stop(c, t) /\ pc' = [pc EXCEPT ![p] = "sleep"]
      /\ arg' = arg /\ intr' = intr
  BY DEF Sleep, Calls, Runs
<1>2. k.state[p] = "RUNNING"
  BY <1>1, RunningNow
<1>3. Ticks \in 0..Ticks
  BY DEF Ticks, Sized
<1>4. StopsAs(k, t, p, "SLEEPING")
  BY <1>2, <1>3, NowFacts, SleepStops
<1> HIDE DEF t
<1>5. Stopping(t, p) /\ t.global_tick = k.global_tick /\ StatesFrom(k.state, t.state, p)
  BY <1>4, NowFacts, StopsFrom
<1>6. pc' \in [Slots -> Places] /\ intr' \subseteq CPU
  BY <1>1, NowFacts DEF Places
<1>7. \A q \in Slots : q # cproc[c] => pc'[q] = pc[q]
  BY <1>1, NowFacts
<1>8. pc'[cproc[c]] \in {"user", "sleep", "wait", pc[cproc[c]]}
  BY <1>1, NowFacts
<1> QED BY <1>1, <1>5, <1>6, <1>7, <1>8, StopStep

(* The system call sleep returns. *)
LEMMA SleepReturnsStep ==
  ASSUME Sized, Now, NEW c \in CPU, NEW p \in Slots, SleepReturns(c, p)
  PROVE  StepSound
<1>1. /\ p = cproc[c] /\ p # 0 /\ UNCHANGED <<k, cproc, sp, arg, intr>>
      /\ pc' = [pc EXCEPT ![p] = "user"]
  BY DEF SleepReturns, Runs
<1> QED BY <1>1, PlaceStep

(* The running process exits. *)
LEMMA ExitStops ==
  ASSUME Sized, Now, NEW c \in CPU, cproc[c] # 0, NEW t, Good(t), t.state = k.state,
         t.global_tick = k.global_tick, Stop(c, exit(t, cproc[c])),
         pc' = [pc EXCEPT ![cproc[c]] = "exit"], arg' = arg, intr' \subseteq CPU
  PROVE  StepSound
<1> DEFINE p == cproc[c]
           u == exit(t, p)
<1>1. p \in Slots /\ k.state[p] = "RUNNING"
  BY RunningNow
<1>2. /\ Stopping(u, p) /\ u.global_tick = t.global_tick /\ u.state[p] = "ZOMBIE"
      /\ \A q \in Slots : q # p =>
           \/ u.state[q] = t.state[q]
           \/ t.state[q] = "SLEEPING" /\ u.state[q] = "RUNNABLE"
  BY <1>1, ExitLines
<1>3. Stop(c, u)
  OBVIOUS
<1> HIDE DEF u
<1>4. StatesFrom(k.state, u.state, cproc[c])
  BY <1>2 DEF StatesFrom
<1>5. pc' \in [Slots -> Places] /\ pc'[p] = "exit" /\ \A q \in Slots : q # p => pc'[q] = pc[q]
  BY <1>1, NowFacts DEF Places
<1>6. \/ pc'[cproc[c]] \in {"user", "sleep", "wait", pc[cproc[c]]}
      \/ pc'[cproc[c]] = "exit" /\ u.state[cproc[c]] = "ZOMBIE"
  BY <1>2, <1>5
<1> QED BY <1>2, <1>3, <1>4, <1>5, <1>6, StopStep

(* The system call exit. *)
LEMMA ExitStep ==
  ASSUME Sized, Now, NEW c \in CPU, NEW p \in Slots, Exit(c, p)
  PROVE  StepSound
<1>1. /\ p = cproc[c] /\ p # 0 /\ Stop(c, exit(k, p)) /\ pc' = [pc EXCEPT ![p] = "exit"]
      /\ arg' = arg /\ intr' = intr
  BY DEF Exit, Runs
<1>2. Good(k) /\ intr' \subseteq CPU
  BY <1>1, NowFacts
<1> QED BY <1>1, <1>2, ExitStops

(* The timer interrupt charges the running process. *)
LEMMA ChargedGood ==
  ASSUME Sized, NEW t, Good(t), NEW p \in Slots, t.state[p] = "RUNNING"
  PROVE  /\ Good(Charged(t, p)) /\ Charged(t, p).state = t.state
         /\ Charged(t, p).global_tick = t.global_tick
<1> DEFINE m == Min({t.time_allotment[p] + 1, time_quantum(t.level[p])})
           a == [t.time_allotment EXCEPT ![p] = m]
           u == [t EXCEPT !.time_allotment = a]
<1>1. t \in Table /\ Lined(t)
  BY DEF Good, Settled, Lined
<1>2. Charged(t, p) = u
  BY DEF Charged
<1>3. t.time_allotment \in [Slots -> 0..time_quantum(2)] /\ t.level \in [Slots -> Levels]
  BY <1>1 DEF Table
<1>4. time_quantum(2) \in Nat /\ time_quantum(t.level[p]) \in Nat
      /\ time_quantum(t.level[p]) <= time_quantum(2)
  <2>1. 2 \in Levels /\ t.level[p] \in Levels
    BY <1>3 DEF Levels
  <2> QED BY <2>1, Quanta
<1>5. m \in 0..time_quantum(2)
  <2> DEFINE S == {t.time_allotment[p] + 1, time_quantum(t.level[p])}
  <2>1. t.time_allotment[p] \in 0..time_quantum(2)
    BY <1>3
  <2>2. S \in SUBSET Nat /\ S # {}
    BY <1>4, <2>1
  <2>3. Min(S) \in S /\ \A y \in S : Min(S) <= y
    BY <2>2, MinIs
  <2>4. time_quantum(t.level[p]) \in S
    OBVIOUS
  <2> HIDE DEF S
  <2>5. Min(S) \in Nat /\ Min(S) <= time_quantum(t.level[p])
    BY <2>2, <2>3, <2>4
  <2>6. Min(S) \in 0..time_quantum(2)
    BY <1>4, <2>5
  <2> QED BY <2>6 DEF S
<1> HIDE DEF m
<1>6. a \in [Slots -> 0..time_quantum(2)] /\ \A q \in Slots : q # p => a[q] = t.time_allotment[q]
  BY <1>3, <1>5
<1> HIDE DEF a
<1>7. /\ u \in Table /\ u.next = t.next /\ u.level_queue = t.level_queue
      /\ u.already_enqueued = t.already_enqueued /\ u.level = t.level /\ u.state = t.state
      /\ u.time_allotment = a /\ u.scheduler_locked = t.scheduler_locked
      /\ u.fault = t.fault /\ u.global_tick = t.global_tick
  BY <1>1, <1>6 DEF Table
<1> HIDE DEF u
<1>8. Lined(u)
  BY <1>1, <1>7, LinedSame
<1>9. ASSUME NEW q \in Slots PROVE Fit(u, q)
  <2>1. Fit(t, q)
    BY DEF Good
  <2>2. CASE q = p
    BY <1>7, <2>1, <2>2 DEF Fit
  <2>3. CASE q # p
    BY <1>6, <1>7, <2>1, <2>3 DEF Fit
  <2> QED BY <2>2, <2>3
<1>10. Good(u)
  BY <1>7, <1>8, <1>9 DEF Good, Settled
<1> QED BY <1>2, <1>7, <1>10

(* The second part of the timer interrupt: the running process is charged  *)
(* and yields, or exits if it was killed.                                  *)
LEMMA TimerYieldStep ==
  ASSUME Sized, Now, NEW c \in CPU, TimerYield(c)
  PROVE  StepSound
<1> DEFINE p == cproc[c]
           t == Charged(k, p)
           y == [t EXCEPT !.state[p] = "RUNNABLE"]
<1>1. intr' \subseteq CPU /\ arg' = arg
  BY NowFacts DEF TimerYield
<1>2. CASE p = 0
  <2>1. k' = k /\ cproc' = cproc /\ sp' = sp /\ pc' = pc
    BY <1>2 DEF TimerYield
  <2>2. k.global_tick = BOOST => k'.global_tick # 0
    BY <2>1 DEF Sized
  <2> QED BY <1>1, <2>1, <2>2, NowFacts, QuietStep
<1>3. CASE p # 0
  <2>1. p \in Slots /\ k.state[p] = "RUNNING"
    BY <1>3, RunningNow
  <2>2. Good(k)
    BY NowFacts
  <2>3. Good(t) /\ t.state = k.state /\ t.global_tick = k.global_tick
    BY <2>1, <2>2, ChargedGood
  <2>4. CASE k.killed[p] /\ pc[p] = "user"
    <3>1. Stop(c, exit(t, p)) /\ pc' = [pc EXCEPT ![p] = "exit"]
      BY <1>3, <2>1, <2>4 DEF TimerYield
    <3> HIDE DEF t
    <3> QED BY <1>1, <1>3, <2>3, <3>1, ExitStops
  <2>5. CASE ~(k.killed[p] /\ pc[p] = "user")
    <3>1. Stop(c, y) /\ pc' = pc
      BY <1>3, <2>1, <2>5 DEF TimerYield
    <3> HIDE DEF t
    <3>2. StopsAs(t, y, p, "RUNNABLE")
      BY <2>1, <2>3, YieldStops
    <3> HIDE DEF y
    <3>3. t.state \in [Slots -> States]
      BY <2>3, NowFacts
    <3>4. Stopping(y, p) /\ y.global_tick = t.global_tick /\ StatesFrom(t.state, y.state, p)
      BY <2>1, <3>2, <3>3, StopsFrom
    <3>5. pc' \in [Slots -> Places] /\ \A q \in Slots : q # cproc[c] => pc'[q] = pc[q]
      BY <3>1, NowFacts
    <3>6. /\ Stopping(y, cproc[c]) /\ y.global_tick = k.global_tick
          /\ StatesFrom(k.state, y.state, cproc[c])
      BY <2>3, <3>4
    <3>7. pc'[cproc[c]] \in {"user", "sleep", "wait", pc[cproc[c]]}
      BY <3>1
    <3> QED BY <1>1, <1>3, <3>1, <3>5, <3>6, <3>7, StopStep
  <2> QED BY <2>4, <2>5
<1> QED BY <1>2, <1>3

(* A slot is freed: by wait, or by fork when it runs out of memory. *)
LEMMA FreeGood ==
  ASSUME Sized, NEW t, Good(t), NEW q \in Slots, t.state[q] \in {"ZOMBIE", "EMBRYO"},
         NEW pa \in [Slots -> 0..NPROC], NEW ki \in [Slots -> BOOLEAN],
         NEW u, Restated(t, u, q, "UNUSED", pa, ki)
  PROVE  GoodAs(t, u, q, "UNUSED")
<1>1. t \in Table /\ Lined(t) /\ ~t.scheduler_locked /\ t.fault = "none"
  BY DEF Good, Settled, Lined
<1> DEFINE st == [t.state EXCEPT ![q] = "UNUSED"]
<1>2. t.state \in [Slots -> States]
  BY <1>1 DEF Table
<1>3. st \in [Slots -> States]
  BY <1>2 DEF States
<1>4. u = [t EXCEPT !.state = st, !.parent = pa, !.killed = ki]
  BY DEF Restated
<1>5. st[q] = "UNUSED" /\ \A x \in Slots : x # q => st[x] = t.state[x]
  BY <1>2
<1> HIDE DEF st
<1>6. /\ u \in Table /\ u.next = t.next /\ u.level_queue = t.level_queue
      /\ u.already_enqueued = t.already_enqueued /\ u.level = t.level /\ u.state = st
      /\ u.time_allotment = t.time_allotment /\ u.scheduler_locked = t.scheduler_locked
      /\ u.fault = t.fault /\ u.global_tick = t.global_tick
  BY <1>1, <1>3, <1>4 DEF Table
<1>7. Lined(u)
  BY <1>1, <1>6, LinedSame
<1>8. ASSUME NEW x \in Slots PROVE Fit(u, x)
  <2>1. Fit(t, x)
    BY DEF Good
  <2>2. CASE x = q
    BY <1>5, <1>6, <2>1, <2>2 DEF Fit
  <2>3. CASE x # q
    BY <1>5, <1>6, <2>1, <2>3 DEF Fit
  <2> QED BY <2>2, <2>3
<1>9. Good(u)
  BY <1>1, <1>6, <1>7, <1>8 DEF Good, Settled
<1> QED BY <1>6, <1>9 DEF GoodAs, st

(* allocproc makes a free slot new. *)
LEMMA AllocGood ==
  ASSUME Sized, NEW t, Good(t), NEW q \in Slots, t.state[q] = "UNUSED",
         NEW u, u = [t EXCEPT !.state[q] = "EMBRYO", !.level[q] = 0, !.priority[q] = MAXPRI,
                              !.time_allotment[q] = 0, !.next[q] = 0]
  PROVE  /\ Good(u) /\ u.global_tick = t.global_tick
         /\ u.state = [t.state EXCEPT ![q] = "EMBRYO"]
<1>1. t \in Table /\ Lined(t) /\ ~t.scheduler_locked /\ t.fault = "none"
  BY DEF Good, Settled, Lined
<1> DEFINE st == [t.state EXCEPT ![q] = "EMBRYO"]
           lv == [t.level EXCEPT ![q] = 0]
           pr == [t.priority EXCEPT ![q] = MAXPRI]
           ta == [t.time_allotment EXCEPT ![q] = 0]
           nx == [t.next EXCEPT ![q] = 0]
<1>2. /\ t.state \in [Slots -> States] /\ t.level \in [Slots -> Levels]
      /\ t.priority \in [Slots -> 0..MAXPRI] /\ t.next \in [Slots -> 0..NPROC]
      /\ t.time_allotment \in [Slots -> 0..time_quantum(2)]
      /\ t.already_enqueued \in [Slots -> BOOLEAN]
  BY <1>1 DEF Table
<1>3. /\ 0 \in Levels /\ MAXPRI \in 0..MAXPRI /\ 0 \in 0..time_quantum(2) /\ 0 \in 0..NPROC
      /\ "EMBRYO" \in States
  <2>1. 0 \in Levels /\ 2 \in Levels
    BY DEF Levels
  <2>2. time_quantum(2) \in Nat
    BY <2>1, Quanta
  <2> QED BY <2>1, <2>2 DEF Sized, States
<1>4. /\ st \in [Slots -> States] /\ lv \in [Slots -> Levels] /\ pr \in [Slots -> 0..MAXPRI]
      /\ ta \in [Slots -> 0..time_quantum(2)] /\ nx \in [Slots -> 0..NPROC]
  BY <1>2, <1>3
<1>5. u = [t EXCEPT !.state = st, !.level = lv, !.priority = pr, !.time_allotment = ta, !.next = nx]
  OBVIOUS
<1>6. /\ st[q] = "EMBRYO" /\ lv[q] = 0 /\ ta[q] = 0
      /\ \A x \in Slots : x # q => /\ st[x] = t.state[x] /\ lv[x] = t.level[x]
                                   /\ ta[x] = t.time_allotment[x] /\ nx[x] = t.next[x]
  BY <1>2
<1> HIDE DEF st, lv, pr, ta, nx
<1>7. /\ u \in Table /\ u.next = nx /\ u.level_queue = t.level_queue
      /\ u.already_enqueued = t.already_enqueued /\ u.level = lv /\ u.state = st
      /\ u.time_allotment = ta /\ u.scheduler_locked = t.scheduler_locked
      /\ u.fault = t.fault /\ u.global_tick = t.global_tick
  <2> DEFINE v == [t EXCEPT !.state = st, !.level = lv, !.priority = pr]
  <2>1. /\ v \in Table /\ v.next = t.next /\ v.level_queue = t.level_queue
        /\ v.already_enqueued = t.already_enqueued /\ v.level = lv /\ v.state = st
        /\ v.time_allotment = t.time_allotment /\ v.scheduler_locked = t.scheduler_locked
        /\ v.fault = t.fault /\ v.global_tick = t.global_tick
    BY <1>1, <1>4 DEF Table
  <2>2. u = [v EXCEPT !.time_allotment = ta, !.next = nx]
    BY <1>1, <1>5 DEF Table
  <2> HIDE DEF v
  <2> QED BY <1>4, <2>1, <2>2 DEF Table
<1>8. ~t.already_enqueued[q]
  BY DEF Good, Fit
<1>9. ASSUME NEW l \in Levels PROVE Lane(u.next, u.level_queue[l], Members(u, l))
  <2>1. Members(u, l) = Members(t, l)
    BY <1>6, <1>7, <1>8 DEF Members
  <2>2. \A x \in Members(t, l) : u.next[x] = t.next[x]
    BY <1>6, <1>7, <1>8 DEF Members
  <2> QED BY <1>1, <1>7, <2>1, <2>2, QueueSame
<1>10. Lined(u)
  BY <1>7, <1>9 DEF Lined
<1>11. ASSUME NEW x \in Slots PROVE Fit(u, x)
  <2>1. Fit(t, x)
    BY DEF Good
  <2>2. CASE x = q
    BY <1>6, <1>7, <1>8, <2>2 DEF Fit
  <2>3. CASE x # q
    BY <1>6, <1>7, <2>1, <2>3 DEF Fit
  <2> QED BY <2>2, <2>3
<1>12. Good(u)
  BY <1>1, <1>7, <1>10, <1>11 DEF Good, Settled
<1> QED BY <1>7, <1>12 DEF st

(* The system call wait: it frees the slot of a zombie, returns, or sleeps. *)
LEMMA WaitStep ==
  ASSUME Sized, Now, NEW c \in CPU, NEW p \in Slots, Wait(c, p)
  PROVE  StepSound
<1> DEFINE kids == {q \in Slots : k.parent[q] = p}
           dead == {q \in kids : k.state[q] = "ZOMBIE"}
           q == Min(dead)
           s == [k EXCEPT !.state[p] = "SLEEPING", !.chan[p] = p]
<1>1. p = cproc[c] /\ p # 0 /\ arg' = arg /\ intr' = intr
  BY DEF Wait, Calls, Runs
<1>2. k.state[p] = "RUNNING"
  BY <1>1, RunningNow
<1>3. Good(k) /\ PcFit(k.state, pc, arg) /\ k.state \in [Slots -> States] /\ pc \in [Slots -> Places]
  BY NowFacts
<1>4. CASE /\ dead # {}
           /\ k' = [k EXCEPT !.state[q] = "UNUSED", !.parent[q] = 0, !.killed[q] = FALSE]
           /\ pc' = [pc EXCEPT ![p] = "user"] /\ cproc' = cproc /\ sp' = sp
  <2>1. q \in dead
    <3>1. dead \in SUBSET Nat
      BY DEF Slots
    <3> QED BY <1>4, <3>1, MinIs
  <2>2. q \in Slots /\ k.state[q] = "ZOMBIE"
    BY <2>1
  <2> DEFINE pa == [k.parent EXCEPT ![q] = 0]
             ki == [k.killed EXCEPT ![q] = FALSE]
  <2>3. pa \in [Slots -> 0..NPROC] /\ ki \in [Slots -> BOOLEAN]
    <3>1. k.parent \in [Slots -> 0..NPROC] /\ k.killed \in [Slots -> BOOLEAN]
      BY NowFacts DEF Table
    <3>2. 0 \in 0..NPROC
      BY DEF Sized
    <3> QED BY <3>1, <3>2
  <2>4. Restated(k, k', q, "UNUSED", pa, ki)
    BY <1>4 DEF Restated
  <2> HIDE DEF pa, ki, q, dead, kids
  <2>5. Good(k') /\ k'.global_tick = k.global_tick /\ k'.state = [k.state EXCEPT ![q] = "UNUSED"]
    <3>1. q \in Slots /\ k.state[q] \in {"ZOMBIE", "EMBRYO"} /\ Good(k)
      BY <1>3, <2>2
    <3>2. GoodAs(k, k', q, "UNUSED")
      BY <2>3, <2>4, <3>1, FreeGood
    <3> QED BY <3>2 DEF GoodAs
  <2>6. \A x \in Slots : k'.state[x] = IF x = q THEN "UNUSED" ELSE k.state[x]
    BY <1>3, <2>5
  <2>7. pc' \in [Slots -> Places] /\ \A x \in Slots : pc'[x] = IF x = p THEN "user" ELSE pc[x]
    BY <1>3, <1>4 DEF Places
  <2>8. PcFit(k'.state, pc', arg')
    <3>1. ASSUME NEW x \in Slots
          PROVE  /\ pc'[x] \notin Locking
                 /\ pc'[x] = "exit" => k'.state[x] \in {"ZOMBIE", "UNUSED"}
                 /\ pc'[x] = "fork" => pc[x] = "fork" /\ arg[x] \in Slots /\ k.state[arg[x]] = "EMBRYO"
      BY <1>3, <2>6, <2>7 DEF PcFit, Locking
    <3>2. \A x \in Slots : k.state[x] = "EMBRYO" => k'.state[x] = "EMBRYO"
      BY <2>2, <2>6
    <3>3. \A x, y \in Slots : pc[x] = "fork" /\ pc[y] = "fork" /\ arg[x] = arg[y] => x = y
      BY <1>3 DEF PcFit
    <3> QED BY <1>1, <3>1, <3>2, <3>3 DEF PcFit
  <2>9. \A x \in Slots : k'.state[x] = "RUNNING" <=> k.state[x] = "RUNNING"
    BY <2>2, <2>6
  <2>10. k.global_tick = BOOST => k'.global_tick # 0
    BY <2>5 DEF Sized
  <2>11. cproc' = cproc /\ sp' \in [CPU -> 0..NPROC] /\ intr' \subseteq CPU /\ arg' \in [Slots -> -1..NPROC]
    BY <1>1, <1>4, NowFacts
  <2> QED BY <2>5, <2>7, <2>8, <2>9, <2>10, <2>11, QuietStep
<1>5. CASE /\ pc' = [pc EXCEPT ![p] = "user"]
           /\ UNCHANGED <<k, cproc, sp>>
  <2>1. UNCHANGED <<k, cproc, sp, arg, intr>>
    BY <1>1, <1>5
  <2> QED BY <1>1, <1>5, <2>1, PlaceStep
<1>6. CASE pc' = [pc EXCEPT ![p] = "wait"] /\ Stop(c, s)
  <2>1. p \in 0..Ticks
    BY DEF Slots, Ticks, Sized
  <2>2. StopsAs(k, s, p, "SLEEPING")
    BY <1>2, <1>3, <2>1, SleepStops
  <2> HIDE DEF s
  <2>3. Stopping(s, p) /\ s.global_tick = k.global_tick /\ StatesFrom(k.state, s.state, p)
    BY <1>3, <2>2, StopsFrom
  <2>4. pc' \in [Slots -> Places] /\ intr' \subseteq CPU
    BY <1>1, <1>3, <1>6, NowFacts DEF Places
  <2>5. \A x \in Slots : x # cproc[c] => pc'[x] = pc[x]
    BY <1>1, <1>3, <1>6
  <2>6. pc'[cproc[c]] \in {"user", "sleep", "wait", pc[cproc[c]]}
    BY <1>1, <1>3, <1>6
  <2> QED BY <1>1, <1>6, <2>3, <2>4, <2>5, <2>6, StopStep
<1>7. \/ /\ dead # {}
         /\ k' = [k EXCEPT !.state[q] = "UNUSED", !.parent[q] = 0, !.killed[q] = FALSE]
         /\ pc' = [pc EXCEPT ![p] = "user"] /\ cproc' = cproc /\ sp' = sp
      \/ /\ pc' = [pc EXCEPT ![p] = "user"]
         /\ UNCHANGED <<k, cproc, sp>>
      \/ pc' = [pc EXCEPT ![p] = "wait"] /\ Stop(c, s)
  BY DEF Wait
<1> QED BY <1>4, <1>5, <1>6, <1>7

(* The first part of fork. *)
LEMMA ForkAllocStep ==
  ASSUME Sized, Now, NEW c \in CPU, NEW p \in Slots, ForkAlloc(c, p)
  PROVE  StepSound
<1> DEFINE free == {i \in Slots : k.state[i] = "UNUSED"}
           q == Min(free)
<1>1. /\ p = cproc[c] /\ p # 0 /\ cproc' = cproc /\ sp' = sp /\ intr' = intr
      /\ pc' = [pc EXCEPT ![p] = "fork", ![q] = "user"] /\ arg' = [arg EXCEPT ![p] = q]
      /\ free # {}
      /\ k' = [k EXCEPT !.state[q] = "EMBRYO", !.level[q] = 0, !.priority[q] = MAXPRI,
                        !.time_allotment[q] = 0, !.next[q] = 0]
  BY DEF ForkAlloc, Calls, Runs
<1>2. k.state[p] = "RUNNING"
  BY <1>1, RunningNow
<1>3. /\ Good(k) /\ PcFit(k.state, pc, arg) /\ k.state \in [Slots -> States]
      /\ pc \in [Slots -> Places] /\ arg \in [Slots -> -1..NPROC]
  BY NowFacts
<1>4. q \in free
  <2>1. free \in SUBSET Nat
    BY DEF Slots
  <2> QED BY <1>1, <2>1, MinIs
<1>5. q \in Slots /\ k.state[q] = "UNUSED" /\ q # p
  BY <1>2, <1>4
<1> HIDE DEF free, q
<1>6. Good(k') /\ k'.global_tick = k.global_tick /\ k'.state = [k.state EXCEPT ![q] = "EMBRYO"]
  BY <1>1, <1>3, <1>5, AllocGood
<1>7. \A x \in Slots : k'.state[x] = IF x = q THEN "EMBRYO" ELSE k.state[x]
  BY <1>3, <1>6
<1>8. /\ pc' \in [Slots -> Places]
      /\ \A x \in Slots : pc'[x] = IF x = q THEN "user" ELSE IF x = p THEN "fork" ELSE pc[x]
  BY <1>1, <1>3, <1>5 DEF Places
<1>9. /\ arg' \in [Slots -> -1..NPROC] /\ \A x \in Slots : arg'[x] = IF x = p THEN q ELSE arg[x]
  <2>1. q \in -1..NPROC
    BY <1>5 DEF Slots, Sized
  <2> QED BY <1>1, <1>3, <2>1
<1>10. PcFit(k'.state, pc', arg')
  <2>1. ASSUME NEW x \in Slots
        PROVE  /\ pc'[x] \notin Locking
               /\ pc'[x] = "exit" => k'.state[x] \in {"ZOMBIE", "UNUSED"}
               /\ pc'[x] = "fork" /\ x # p =>
                    pc[x] = "fork" /\ arg[x] \in Slots /\ k.state[arg[x]] = "EMBRYO"
    BY <1>3, <1>7, <1>8 DEF PcFit, Locking
  <2>2. ASSUME NEW x \in Slots, pc'[x] = "fork" PROVE arg'[x] \in Slots /\ k'.state[arg'[x]] = "EMBRYO"
    BY <1>5, <1>7, <1>9, <2>1, <2>2
  <2>3. \A x, y \in Slots : pc[x] = "fork" /\ pc[y] = "fork" /\ arg[x] = arg[y] => x = y
    BY <1>3 DEF PcFit
  <2>4. ASSUME NEW x \in Slots, pc'[x] = "fork", x # p PROVE arg'[x] = arg[x] /\ arg[x] # q
    BY <1>5, <1>9, <2>1, <2>4
  <2>5. ASSUME NEW x \in Slots, NEW y \in Slots, pc'[x] = "fork", pc'[y] = "fork", arg'[x] = arg'[y]
        PROVE  x = y
    BY <1>9, <2>1, <2>3, <2>4, <2>5
  <2> QED BY <2>1, <2>2, <2>5 DEF PcFit
<1>11. \A x \in Slots : k'.state[x] = "RUNNING" <=> k.state[x] = "RUNNING"
  BY <1>5, <1>7
<1>12. k.global_tick = BOOST => k'.global_tick # 0
  BY <1>6 DEF Sized
<1>13. sp' \in [CPU -> 0..NPROC] /\ intr' \subseteq CPU
  BY <1>1, NowFacts
<1> QED BY <1>1, <1>6, <1>8, <1>9, <1>10, <1>11, <1>12, <1>13, QuietStep

(* fork returns: the new slot is used or given back. *)
LEMMA ForkReturnsStep ==
  ASSUME Sized, Now, NEW c \in CPU, NEW p \in Slots, ForkReturns(c, p), Good(k'),
         NEW x \in {"RUNNABLE", "UNUSED"}, k'.state = [k.state EXCEPT ![arg[p]] = x],
         k'.global_tick = k.global_tick
  PROVE  StepSound
<1> DEFINE q == arg[p]
<1>1. /\ p = cproc[c] /\ p # 0 /\ cproc' = cproc /\ sp' = sp /\ intr' = intr
      /\ pc' = [pc EXCEPT ![p] = "user"] /\ arg' = [arg EXCEPT ![p] = 0] /\ pc[p] = "fork"
  BY DEF ForkReturns, Runs
<1>2. /\ PcFit(k.state, pc, arg) /\ k.state \in [Slots -> States]
      /\ pc \in [Slots -> Places] /\ arg \in [Slots -> -1..NPROC]
  BY NowFacts
<1>3. q \in Slots /\ k.state[q] = "EMBRYO" /\ pc[q] # "exit"
  BY <1>1, <1>2 DEF PcFit
<1>4. \A y \in Slots : k'.state[y] = IF y = q THEN x ELSE k.state[y]
  BY <1>2
<1>5. /\ pc' \in [Slots -> Places] /\ \A y \in Slots : pc'[y] = IF y = p THEN "user" ELSE pc[y]
  BY <1>1, <1>2 DEF Places
<1>6. /\ arg' \in [Slots -> -1..NPROC] /\ \A y \in Slots : y # p => arg'[y] = arg[y]
  <2>1. 0 \in -1..NPROC
    BY DEF Sized
  <2> QED BY <1>1, <1>2, <2>1
<1>7. PcFit(k'.state, pc', arg')
  <2>1. ASSUME NEW y \in Slots
        PROVE  /\ pc'[y] \notin Locking
               /\ pc'[y] = "exit" => k'.state[y] \in {"ZOMBIE", "UNUSED"}
               /\ pc'[y] = "fork" =>
                    y # p /\ pc[y] = "fork" /\ arg[y] \in Slots /\ k.state[arg[y]] = "EMBRYO"
    BY <1>2, <1>3, <1>4, <1>5 DEF PcFit, Locking
  <2>2. \A y, z \in Slots : pc[y] = "fork" /\ pc[z] = "fork" /\ arg[y] = arg[z] => y = z
    BY <1>2 DEF PcFit
  <2>3. ASSUME NEW y \in Slots, pc'[y] = "fork" PROVE arg'[y] \in Slots /\ k'.state[arg'[y]] = "EMBRYO"
    <3>1. arg[y] # q
      BY <1>1, <2>1, <2>2, <2>3
    <3> QED BY <1>4, <1>6, <2>1, <2>3, <3>1
  <2>4. ASSUME NEW y \in Slots, NEW z \in Slots, pc'[y] = "fork", pc'[z] = "fork", arg'[y] = arg'[z]
        PROVE  y = z
    BY <1>6, <2>1, <2>2, <2>4
  <2> QED BY <2>1, <2>3, <2>4 DEF PcFit
<1>8. \A y \in Slots : k'.state[y] = "RUNNING" <=> k.state[y] = "RUNNING"
  BY <1>3, <1>4
<1>9. k.global_tick = BOOST => k'.global_tick # 0
  BY DEF Sized
<1>10. sp' \in [CPU -> 0..NPROC] /\ intr' \subseteq CPU
  BY <1>1, NowFacts
<1> QED BY <1>1, <1>5, <1>6, <1>7, <1>8, <1>9, <1>10, QuietStep

(* The second part of fork: the child is queued. *)
LEMMA ForkEndStep ==
  ASSUME Sized, Now, NEW c \in CPU, NEW p \in Slots, ForkEnd(c, p)
  PROVE  StepSound
<1> DEFINE q == arg[p]
           pa == [k.parent EXCEPT ![q] = p]
           ki == k.killed
           v == [k EXCEPT !.state[q] = "RUNNABLE", !.parent[q] = p]
<1>1. ForkReturns(c, p) /\ pc[p] = "fork" /\ k' = enqueue(v, q, k.level[q])
  BY DEF ForkEnd, ForkReturns
<1>2. Good(k) /\ PcFit(k.state, pc, arg)
  BY NowFacts
<1>3. q \in Slots /\ k.state[q] \in {"SLEEPING", "EMBRYO"}
  BY <1>1, <1>2 DEF PcFit
<1>4. pa \in [Slots -> 0..NPROC] /\ ki \in [Slots -> BOOLEAN]
  <2>1. k.parent \in [Slots -> 0..NPROC] /\ k.killed \in [Slots -> BOOLEAN]
    BY NowFacts DEF Table
  <2>2. p \in 0..NPROC
    BY DEF Slots, Sized
  <2> QED BY <2>1, <2>2
<1>5. Restated(k, v, q, "RUNNABLE", pa, ki)
  <2>1. k \in Table
    BY NowFacts
  <2> QED BY <2>1 DEF Table, Restated
<1> HIDE DEF q, pa, ki, v
<1>6. GoodAs(k, enqueue(v, q, k.level[q]), q, "RUNNABLE")
  BY <1>2, <1>3, <1>4, <1>5, StartGood
<1> DEFINE x == "RUNNABLE"
<1>7. Good(k') /\ k'.state = [k.state EXCEPT ![arg[p]] = x] /\ k'.global_tick = k.global_tick
  BY <1>1, <1>6 DEF q, GoodAs
<1>8. x \in {"RUNNABLE", "UNUSED"}
  OBVIOUS
<1> HIDE DEF x
<1> QED BY <1>1, <1>7, <1>8, ForkReturnsStep

(* The second part of fork when memory is short: the slot is freed. *)
LEMMA ForkFailsStep ==
  ASSUME Sized, Now, NEW c \in CPU, NEW p \in Slots, ForkFails(c, p)
  PROVE  StepSound
<1> DEFINE q == arg[p]
           pa == k.parent
           ki == k.killed
<1>1. ForkReturns(c, p) /\ pc[p] = "fork" /\ k' = [k EXCEPT !.state[q] = "UNUSED"]
  BY DEF ForkFails, ForkReturns
<1>2. Good(k) /\ PcFit(k.state, pc, arg)
  BY NowFacts
<1>3. q \in Slots /\ k.state[q] \in {"ZOMBIE", "EMBRYO"}
  BY <1>1, <1>2 DEF PcFit
<1>4. pa \in [Slots -> 0..NPROC] /\ ki \in [Slots -> BOOLEAN]
  BY NowFacts DEF Table
<1>5. Restated(k, k', q, "UNUSED", pa, ki)
  <2>1. k \in Table
    BY NowFacts
  <2> QED BY <1>1, <2>1 DEF Table, Restated
<1> HIDE DEF q, pa, ki
<1>6. GoodAs(k, k', q, "UNUSED")
  BY <1>2, <1>3, <1>4, <1>5, FreeGood
<1> DEFINE x == "UNUSED"
<1>7. Good(k') /\ k'.state = [k.state EXCEPT ![arg[p]] = x] /\ k'.global_tick = k.global_tick
  BY <1>6 DEF q, GoodAs
<1>8. x \in {"RUNNABLE", "UNUSED"}
  OBVIOUS
<1> HIDE DEF x
<1> QED BY <1>1, <1>7, <1>8, ForkReturnsStep

(* A step that changes the table only, and wakes at most sleepers. *)
LEMMA TableStep ==
  ASSUME Sized, Now, UNCHANGED <<cproc, sp, pc, arg, intr>>, Good(k'), Rises(k, k')
  PROVE  StepSound
<1>1. \A q \in Slots : k'.state[q] = k.state[q] \/ (k.state[q] = "SLEEPING" /\ k'.state[q] = "RUNNABLE")
  BY DEF Rises
<1>2. PcFit(k'.state, pc', arg')
  BY <1>1, NowFacts, PcSame
<1>3. k.global_tick = BOOST => k'.global_tick # 0
  BY DEF Sized, Rises
<1>4. \A q \in Slots : k'.state[q] = "RUNNING" <=> k.state[q] = "RUNNING"
  BY <1>1
<1> QED BY <1>2, <1>3, <1>4, NowFacts, QuietStep

(* The system call kill. *)
LEMMA KillStep ==
  ASSUME Sized, Now, NEW c \in CPU, NEW p \in Slots, NEW q \in Slots, Kill(c, p, q)
  PROVE  StepSound
<1> DEFINE ki == [k.killed EXCEPT ![q] = TRUE]
           pa == k.parent
           t == [k EXCEPT !.killed[q] = TRUE]
           v == [t EXCEPT !.state[q] = "RUNNABLE"]
<1>1. /\ UNCHANGED <<cproc, sp, pc, arg, intr>>
      /\ k' = IF k.state[q] = "SLEEPING" THEN enqueue(v, q, k.level[q]) ELSE t
  BY DEF Kill
<1>2. Good(k) /\ k \in Table
  BY NowFacts
<1>3. k.parent \in [Slots -> 0..NPROC] /\ k.killed \in [Slots -> BOOLEAN] /\ k.state \in [Slots -> States]
  BY <1>2 DEF Table
<1>4. pa \in [Slots -> 0..NPROC] /\ ki \in [Slots -> BOOLEAN]
  BY <1>3
<1>5. CASE k.state[q] = "SLEEPING"
  <2>1. Restated(k, v, q, "RUNNABLE", pa, ki)
    BY <1>2 DEF Table, Restated
  <2>2. k.state[q] \in {"SLEEPING", "EMBRYO"}
    BY <1>5
  <2> HIDE DEF v, pa, ki
  <2>3. GoodAs(k, enqueue(v, q, k.level[q]), q, "RUNNABLE")
    BY <1>2, <1>4, <2>1, <2>2, StartGood
  <2>4. Good(k') /\ k'.state = [k.state EXCEPT ![q] = "RUNNABLE"] /\ k'.global_tick = k.global_tick
    BY <1>1, <1>5, <2>3 DEF GoodAs
  <2>5. Rises(k, k')
    BY <1>3, <1>5, <2>4 DEF Rises
  <2> QED BY <1>1, <2>4, <2>5, TableStep
<1>6. CASE k.state[q] # "SLEEPING"
  <2>1. k' = [k EXCEPT !.killed = ki]
    BY <1>1, <1>6
  <2> HIDE DEF ki
  <2>2. /\ k' \in Table /\ k'.next = k.next /\ k'.level_queue = k.level_queue
        /\ k'.already_enqueued = k.already_enqueued /\ k'.level = k.level /\ k'.state = k.state
        /\ k'.time_allotment = k.time_allotment /\ k'.scheduler_locked = k.scheduler_locked
        /\ k'.fault = k.fault /\ k'.global_tick = k.global_tick
    BY <1>2, <1>4, <2>1 DEF Table
  <2>3. Good(k')
    BY <1>2, <2>2, GoodSame
  <2>4. Rises(k, k')
    BY <2>2 DEF Rises
  <2> QED BY <1>1, <2>3, <2>4, TableStep
<1> QED BY <1>5, <1>6

(* The system call setPriority. *)
LEMMA SetPriorityStep ==
  ASSUME Sized, Now, NEW c \in CPU, NEW p \in Slots, NEW q \in Slots, NEW pri \in 0..MAXPRI,
         setPriority(c, p, q, pri)
  PROVE  StepSound
<1> DEFINE pr == [k.priority EXCEPT ![q] = pri]
<1>1. UNCHANGED <<cproc, sp, pc, arg, intr>> /\ k' = [k EXCEPT !.priority = pr]
  BY DEF setPriority
<1>2. Good(k) /\ k \in Table
  BY NowFacts
<1>3. k.priority \in [Slots -> 0..MAXPRI]
  BY <1>2 DEF Table
<1>4. pr \in [Slots -> 0..MAXPRI]
  BY <1>3
<1> HIDE DEF pr
<1>5. /\ k' \in Table /\ k'.next = k.next /\ k'.level_queue = k.level_queue
      /\ k'.already_enqueued = k.already_enqueued /\ k'.level = k.level /\ k'.state = k.state
      /\ k'.time_allotment = k.time_allotment /\ k'.scheduler_locked = k.scheduler_locked
      /\ k'.fault = k.fault /\ k'.global_tick = k.global_tick
  BY <1>1, <1>2, <1>4 DEF Table
<1>6. Good(k')
  BY <1>2, <1>5, GoodSame
<1>7. Rises(k, k')
  BY <1>5 DEF Rises
<1> QED BY <1>1, <1>6, <1>7, TableStep

-----------------------------------------------------------------------------
(* No step calls schedulerLock or schedulerUnlock, and the steps above are *)
(* all the others.                                                         *)
LEMMA NextSound ==
  ASSUME conf \in Confs, Lockers = {}, Now, [Next]_vars
  PROVE  StepSound /\ conf' = conf
<1> USE Sizes
<1>0. Sized
  OBVIOUS
<1>t. KillTargets \subseteq Slots /\ PriTargets \subseteq Slots
  BY MlfqAssumption DEF KillTargets, PriTargets, Slots, NPROC
<1>p. \A p \in Slots : pc[p] \notin Locking
  BY NowFacts DEF PcFit
<1>1. ASSUME NEW c \in CPU, KernelStep(c) PROVE StepSound
  <2>1. CASE Pick(c)
    BY <1>0, <2>1, PickStep
  <2>2. CASE Idle(c)
    BY <1>0, <2>2, IdleStep
  <2>3. CASE TimerTick(c)
    BY <1>0, <2>3, TimerTickStep
  <2>4. CASE TimerYield(c)
    BY <1>0, <2>4, TimerYieldStep
  <2>5. ASSUME NEW p \in Slots, SleepReturns(c, p) PROVE StepSound
    BY <1>0, <2>5, SleepReturnsStep
  <2>6. ASSUME NEW p \in Slots, LockSet(c, p) \/ UnlockApply(c, p) PROVE FALSE
    BY <1>p, <2>6 DEF LockSet, UnlockApply, Locking
  <2>7. ASSUME NEW p \in Slots, ForkEnd(c, p) PROVE StepSound
    BY <1>0, <2>7, ForkEndStep
  <2> QED BY <1>1, <2>1, <2>2, <2>3, <2>4, <2>5, <2>6, <2>7 DEF KernelStep
<1>2. ASSUME NEW c \in CPU, NEW p \in Slots, AnyCall(c, p) PROVE StepSound
  <2>1. CASE Yield(c, p)
    BY <1>0, <2>1, YieldStep
  <2>2. CASE Sleep(c, p)
    BY <1>0, <2>2, SleepStep
  <2>3. CASE Wait(c, p)
    BY <1>0, <2>3, WaitStep
  <2>4. CASE Exit(c, p)
    BY <1>0, <2>4, ExitStep
  <2>5. CASE ForkAlloc(c, p)
    BY <1>0, <2>5, ForkAllocStep
  <2>6. CASE ForkFails(c, p)
    BY <1>0, <2>6, ForkFailsStep
  <2>7. ASSUME NEW q \in KillTargets, Kill(c, p, q) PROVE StepSound
    BY <1>0, <1>t, <2>7, KillStep
  <2>8. ASSUME NEW q \in PriTargets, NEW pri \in 0..MAXPRI, setPriority(c, p, q, pri)
        PROVE  StepSound
    BY <1>0, <1>t, <2>8, SetPriorityStep
  <2> QED BY <1>2, <2>1, <2>2, <2>3, <2>4, <2>5, <2>6, <2>7, <2>8 DEF AnyCall
<1>3. CASE UNCHANGED vars
  <2>1. UNCHANGED <<cproc, sp, pc, arg, intr>> /\ k' = k
    BY <1>3 DEF vars
  <2>2. Good(k') /\ Rises(k, k')
    BY <2>1, NowFacts DEF Rises
  <2>3. StepSound
    BY <1>0, <2>1, <2>2, TableStep
  <2> QED BY <1>3, <2>3 DEF vars
<1>4. CASE Next
  BY <1>1, <1>2, <1>4 DEF Next
<1> QED BY <1>3, <1>4

(* The machine stays the same, and with it what depends on it. *)
LEMMA SameMachine ==
  ASSUME conf' = conf, Consistent(k', cproc', sp', pc', arg', intr')
  PROVE  Now'
<1>1. /\ NPROC' = NPROC /\ CPU' = CPU /\ BOOST' = BOOST /\ MAXPRI' = MAXPRI
      /\ QuantumBase' = QuantumBase /\ QuantumStep' = QuantumStep
  BY DEF NPROC, CPU, BOOST, MAXPRI, QuantumBase, QuantumStep
<1>2. Slots' = Slots /\ Ticks' = Ticks
  BY <1>1 DEF Slots, Ticks
<1>3. Table' = Table
  BY <1>1, <1>2 DEF Table, time_quantum
<1>4. Lined(k)'
  BY <1>2, <1>3 DEF Consistent, Good, Settled, Lined, Members
<1>5. \A q \in Slots' : Fit(k, q)'
  BY <1>1, <1>2 DEF Consistent, Good, Fit, time_quantum
<1>6. Good(k)'
  BY <1>4, <1>5 DEF Consistent, Good, Settled
<1>7. RunsOnceIn(k.state, cproc)'
  BY <1>1, <1>2 DEF Consistent, RunsOnceIn
<1>8. PcFit(k.state, pc, arg)'
  BY <1>1, <1>2 DEF Consistent, PcFit
<1> QED BY <1>1, <1>2, <1>6, <1>7, <1>8 DEF Now, Consistent

(* userinit: init is alone and in level 0. *)
LEMMA InitNow ==
  ASSUME Init
  PROVE  conf \in Confs /\ Now
<1>1. conf \in Confs /\ Sized
  BY Sizes DEF Init
<1>2. /\ k.state = [p \in Slots |-> IF p = Init1 THEN "RUNNABLE" ELSE "UNUSED"]
      /\ k.parent = [p \in Slots |-> 0] /\ k.chan = [p \in Slots |-> 0]
      /\ k.killed = [p \in Slots |-> FALSE] /\ k.level = [p \in Slots |-> 0]
      /\ k.priority = [p \in Slots |-> IF p = Init1 THEN MAXPRI ELSE 0]
      /\ k.time_allotment = [p \in Slots |-> 0] /\ k.lock_scheduler = [p \in Slots |-> FALSE]
      /\ k.already_enqueued = [p \in Slots |-> p = Init1] /\ k.next = [p \in Slots |-> 0]
      /\ k.level_queue = [l \in Levels |-> IF l = 0 THEN Init1 ELSE 0]
      /\ k.global_tick = 0 /\ k.scheduler_locked = FALSE /\ k.fault = "none"
  BY DEF Init
<1>3. /\ Init1 \in Slots /\ 0 \in 0..NPROC /\ Init1 \in 0..NPROC /\ 0 \in 0..Ticks /\ 0 \in 0..BOOST
      /\ 0 \in 0..MAXPRI /\ MAXPRI \in 0..MAXPRI /\ 0 \in Levels /\ 2 \in Levels
  BY <1>1 DEF Sized, Slots, Init1, Ticks, Levels
<1>4. time_quantum(0) \in Nat \ {0} /\ time_quantum(2) \in Nat
  BY <1>1, <1>3, Quanta
<1>5. 0 \in 0..time_quantum(2) /\ 0 < time_quantum(0)
  BY <1>4
<1>e. /\ k.already_enqueued \in [Slots -> BOOLEAN]
      /\ \A p \in Slots : k.already_enqueued[p] <=> p = Init1
  <2>1. k.already_enqueued = [p \in Slots |-> p = Init1]
    BY <1>2
  <2> HIDE DEF Slots, Init1
  <2> QED BY <2>1, Zenon
<1>6. k \in Table
  <2>1. /\ k.state \in [Slots -> States] /\ k.parent \in [Slots -> 0..NPROC]
        /\ k.chan \in [Slots -> 0..Ticks] /\ k.killed \in [Slots -> BOOLEAN]
        /\ k.level \in [Slots -> Levels] /\ k.priority \in [Slots -> 0..MAXPRI]
        /\ k.time_allotment \in [Slots -> 0..time_quantum(2)]
    BY <1>2, <1>3, <1>5 DEF States
  <2>2. /\ k.lock_scheduler \in [Slots -> BOOLEAN] /\ k.already_enqueued \in [Slots -> BOOLEAN]
        /\ k.next \in [Slots -> 0..NPROC] /\ k.level_queue \in [Levels -> 0..NPROC]
        /\ k.global_tick \in 0..BOOST /\ k.scheduler_locked \in BOOLEAN
        /\ k.fault \in {"none", "hang", "zombie exit", "no stack"}
    BY <1>2, <1>3, <1>e
  <2>3. k = [state |-> k.state, parent |-> k.parent, chan |-> k.chan, killed |-> k.killed,
             level |-> k.level, priority |-> k.priority, time_allotment |-> k.time_allotment,
             lock_scheduler |-> k.lock_scheduler, already_enqueued |-> k.already_enqueued,
             next |-> k.next, level_queue |-> k.level_queue, global_tick |-> k.global_tick,
             scheduler_locked |-> k.scheduler_locked, fault |-> k.fault]
    BY DEF Init
  <2> QED BY <2>1, <2>2, <2>3 DEF Table
<1>7. ASSUME NEW l \in Levels PROVE Lane(k.next, k.level_queue[l], Members(k, l))
  <2>1. k.next \in [1..NPROC -> 0..NPROC] /\ NPROC \in Nat
    BY <1>1, <1>6 DEF Table, Slots, Sized
  <2>2. CASE l = 0
    <3>1. Members(k, l) = {Init1} /\ k.level_queue[l] = Init1 /\ k.next[Init1] = 0
      <4>1. \A p \in Slots : k.level[p] = 0 /\ k.next[p] = 0
        BY <1>2
      <4>2. k.level_queue[l] = Init1
        BY <1>2, <2>2
      <4>3. Members(k, l) = {p \in Slots : p = Init1}
        BY <1>e, <2>2, <4>1 DEF Members
      <4> QED BY <1>3, <4>1, <4>2, <4>3
    <3>2. Init1 \in 1..NPROC
      BY <1>3 DEF Slots
    <3> QED BY <2>1, <3>1, <3>2, LaneOne
  <2>3. CASE l # 0
    <3>1. Members(k, l) = {} /\ k.level_queue[l] = 0
      BY <1>2, <1>3, <2>3 DEF Members
    <3> QED BY <2>1, <3>1, LaneEmpty
  <2> QED BY <2>2, <2>3
<1>8. ASSUME NEW q \in Slots PROVE Fit(k, q)
  <2>1. /\ k.state[q] = IF q = Init1 THEN "RUNNABLE" ELSE "UNUSED"
        /\ k.level[q] = 0 /\ k.time_allotment[q] = 0
    BY <1>2
  <2> QED BY <1>5, <1>e, <2>1 DEF Fit
<1>9. Good(k)
  BY <1>2, <1>6, <1>7, <1>8 DEF Good, Settled, Lined
<1>10. /\ cproc = [c \in CPU |-> 0] /\ sp = [c \in CPU |-> 0] /\ pc = [p \in Slots |-> "user"]
       /\ arg = [p \in Slots |-> 0] /\ intr = {}
  BY DEF Init
<1>11. /\ cproc \in [CPU -> 0..NPROC] /\ sp \in [CPU -> 0..NPROC] /\ intr \subseteq CPU
       /\ pc \in [Slots -> Places] /\ arg \in [Slots -> -1..NPROC]
  <2>1. 0 \in -1..NPROC
    BY <1>1 DEF Sized
  <2> QED BY <1>3, <1>10, <2>1 DEF Places
<1>12. RunsOnceIn(k.state, cproc)
  <2>1. \A p \in Slots : p # 0
    BY <1>1 DEF Slots, Sized
  <2> QED BY <1>2, <1>10, <2>1 DEF RunsOnceIn
<1>13. PcFit(k.state, pc, arg)
  BY <1>10 DEF PcFit, Locking
<1> QED BY <1>1, <1>9, <1>11, <1>12, <1>13 DEF Now, Consistent

(* The invariant is MlfqInv and more. *)
LEMMA NowImplies ==
  ASSUME conf \in Confs, Now
  PROVE  MlfqInv
<1>1. Sized
  BY Sizes
<1>2. TypeOK
  BY NowFacts DEF TypeOK, Places
<1>3. QueuesExact
  <2>1. Lined(k) /\ \A p \in Slots : Fit(k, p)
    BY NowFacts DEF Good, Settled
  <2>2. ASSUME NEW l \in Levels
        PROVE  Ends(k, k.level_queue[l]) /\ Nodes(k, k.level_queue[l]) = Members(k, l)
    BY <1>1, <2>1, QueueSeen DEF LaneSeen
  <2>3. \A p \in Slots : k.already_enqueued[p] <=> k.state[p] = "RUNNABLE"
    BY <2>1 DEF Fit
  <2>4. \A p \in Slots, l \in Levels :
          p \in Nodes(k, k.level_queue[l]) <=> k.state[p] = "RUNNABLE" /\ k.level[p] = l
    BY <2>2, <2>3 DEF Members
  <2> QED BY <2>2, <2>3, <2>4 DEF QueuesExact
<1>4. RunsOnce
  BY NowFacts DEF RunsOnceIn, RunsOnce
<1>5. NoFault
  BY NowFacts DEF NoFault, Good, Settled
<1>6. QuantumKept
  BY NowFacts DEF QuantumKept, Good, Fit
<1>7. SlotsKept
  <2>1. PcFit(k.state, pc, arg) /\ ~k.scheduler_locked /\ \A p \in Slots : Fit(k, p)
    BY NowFacts DEF Good
  <2> QED BY <2>1 DEF SlotsKept, PcFit, Fit
<1> QED BY <1>2, <1>3, <1>4, <1>5, <1>6, <1>7 DEF MlfqInv

-----------------------------------------------------------------------------
(* What the theorems below follow from: the machine is one of the given    *)
(* ones, and without lockers the invariant holds.                          *)
SchedInv == conf \in Confs /\ (Lockers = {} => Now)

(* Init establishes it and every step keeps it: the step of a machine with *)
(* lockers leaves it vacuous.                                              *)
LEMMA SchedInductive ==
  /\ Init => SchedInv
  /\ SchedInv /\ [Next]_vars => SchedInv'
<1>1. Init => SchedInv
  BY InitNow DEF SchedInv
<1>2. ASSUME SchedInv, [Next]_vars PROVE SchedInv'
  <2>1. conf' = conf
    BY <1>2 DEF Next, vars
  <2>2. ASSUME Lockers = {} PROVE Now'
    <3>1. Consistent(k', cproc', sp', pc', arg', intr')
      BY <1>2, <2>2, NextSound DEF SchedInv, StepSound
    <3> QED BY <2>1, <3>1, SameMachine
  <2>3. Lockers' = Lockers
    BY <2>1 DEF Lockers
  <2> QED BY <1>2, <2>1, <2>2, <2>3 DEF SchedInv
<1> QED BY <1>1, <1>2

(* SchedInv in every state. *)
LEMMA SchedAlways == Spec => []SchedInv
BY SchedInductive, PTL DEF Spec

(* The scheduler's data are right at every step, on any number of CPUs and *)
(* for any mix of forks, exits, sleeps, wakeups, kills, timer ticks and    *)
(* boosts, if no process calls schedulerLock: every runnable process is in *)
(* exactly one queue, once and at its level, the queues end, a process     *)
(* runs on one CPU, and none waits with its quantum used up (enqueue,      *)
(* dequeue, dequeue_specific, wakeup1, scheduler with its boost).          *)
THEOREM SchedulerInvariant == Spec => [](Lockers = {} => MlfqInv)
<1>1. SchedInv => (Lockers = {} => MlfqInv)
  BY NowImplies DEF SchedInv
<1> QED BY <1>1, SchedAlways, PTL

(* scheduler never starts a process while a runnable one of a lower level, *)
(* or at level 2 one of lower priority, waits, and a boost brings every    *)
(* runnable process back to level 0 with a new allotment and priority.     *)
THEOREM SchedulerOrder == Spec => KeepsOrder
<1> DEFINE Order ==
      \A c \in CPU :
        Lockers = {} /\ cproc[c] = 0 /\ cproc'[c] # 0 =>
          \A q \in Slots :
            k.state[q] = "RUNNABLE" =>
              \/ k.level[cproc'[c]] < k.level[q]
              \/ /\ k.level[cproc'[c]] = k.level[q]
                 /\ k.level[q] = 2 => k.priority[cproc'[c]] <= k.priority[q]
           Reach ==
      Lockers = {} /\ k.global_tick = BOOST /\ k'.global_tick = 0 =>
        \A p \in Slots :
          k'.state[p] = "RUNNABLE" =>
            /\ k'.level[p] = 0 /\ k'.time_allotment[p] = 0
            /\ k'.priority[p] = MAXPRI
<1>1. ASSUME SchedInv, [Next]_vars PROVE Order /\ Reach
  <2>1. CASE Lockers # {}
    BY <2>1
  <2>2. CASE Lockers = {}
    <3>1. StepSound
      BY <1>1, <2>2, NextSound DEF SchedInv
    <3>2. Order
      BY <3>1 DEF StepSound, First
    <3>3. Reach
      BY <3>1 DEF StepSound, FreshStart
    <3> QED BY <3>2, <3>3
  <2> QED BY <2>1, <2>2
<1>2. SchedInv /\ [Next]_vars => [Order]_vars /\ [Reach]_vars
  BY <1>1
<1>3. Spec => [][Order]_vars /\ [][Reach]_vars
  <2> HIDE DEF Order, Reach
  <2> QED BY <1>2, SchedAlways, PTL DEF Spec
<1> QED BY <1>3, PTL DEF KeepsOrder, DispatchInOrder, BoostReachesAll

=============================================================================
