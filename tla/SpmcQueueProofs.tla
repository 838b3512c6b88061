-------------------------- MODULE SpmcQueueProofs --------------------------
(***************************************************************************)
(* Safety of the work queue for every number of parser threads, every ring *)
(* size and every length of the log.  IInv adds to the checked invariants  *)
(* what they need to be inductive: what each thread knows of tail and head *)
(* from its loads, and what the producer knows of the slot it has written. *)
(***************************************************************************)
EXTENDS SpmcQueue, TLAPS

(* A thread's t is never ahead of tail, and at the CAS it is behind head. *)
LoadsAreOld ==
  \A w \in Workers :
    /\ wpc[w] \in {"load_head", "load_done", "cas"} => wt[w] <= tail
    /\ wpc[w] = "cas" => wt[w] < head

(* Inside spmc_enqueue there is a chunk to enqueue, and before head is
   released its slot is written. *)
ProducerKnows ==
  /\ head <= mapped
  /\ ppc \in {"space", "store", "publish"} => head < mapped
  /\ ppc = "publish" => slots[Slot(head)] = head

IInv ==
  /\ TypeOK
  /\ RingBound
  /\ ClaimedExactlyOnce
  /\ UnclaimedIntact
  /\ LoadsAreOld
  /\ ProducerKnows

(* The naturals are closed under successor; stated for the prover without
   arithmetic. *)
LEMMA NatSucc == \A n \in Nat : n + 1 \in Nat
  OBVIOUS

(* A position's slot is a slot of the ring. *)
LEMMA SlotType == \A i \in Nat : Slot(i) \in 0 .. QSize - 1
  BY QSizeAssumption DEF Slot

(* Two positions less than QUEUE_SIZE apart have different slots. *)
LEMMA SlotInjective ==
  ASSUME NEW i \in Nat, NEW j \in Nat, i < j, j - i < QSize
  PROVE  Slot(i) # Slot(j)
<1> DEFINE a == i \div QSize
           b == j \div QSize
<1>1. /\ a \in Int /\ b \in Int
      /\ i = QSize * a + (i % QSize)
      /\ j = QSize * b + (j % QSize)
  BY QSizeAssumption
<1>2. SUFFICES ASSUME i % QSize = j % QSize PROVE FALSE
  BY DEF Slot
<1>3. j - i = QSize * (b - a)
  BY <1>1, <1>2, QSizeAssumption
<1>4. CASE b - a >= 1
  <2>1. QSize * (b - a) >= QSize
    BY <1>1, <1>4, QSizeAssumption
  <2> QED
    BY <2>1, <1>3, QSizeAssumption
<1>5. CASE b - a <= 0
  <2>1. QSize * (b - a) <= 0
    BY <1>1, <1>5, QSizeAssumption
  <2> QED
    BY <2>1, <1>3
<1> QED
  BY <1>1, <1>4, <1>5

(* The first states of the queue satisfy the inductive invariant. *)
LEMMA InitIInv == Init => IInv
<1> SUFFICES ASSUME Init PROVE IInv
  OBVIOUS
<1>0. mapped \in 0 .. MaxChunks
  <2>1. CASE follow
    BY <2>1, MaxChunksAssumption DEF Init
  <2>2. CASE ~follow
    BY <2>2, MaxChunksAssumption DEF Init
  <2> QED
    BY <2>1, <2>2
<1>1. TypeOK
  <2>1. slots \in [0 .. QSize - 1 -> Chunk \cup {None}]
    BY DEF Init
  <2>2. /\ done \in BOOLEAN /\ running \in BOOLEAN /\ paused \in BOOLEAN
        /\ follow \in BOOLEAN
    BY DEF Init
  <2>3. head \in 0 .. MaxChunks /\ tail \in Nat
    BY MaxChunksAssumption DEF Init
  <2>4. /\ wpc \in [Workers -> {"load_tail", "load_head", "load_done", "cas",
                          "copy", "work", "exited"}]
        /\ wt \in [Workers -> Nat]
        /\ chunk \in [Workers -> Chunk \cup {None, Torn}]
    BY DEF Init
  <2> QED
    BY <1>0, <2>1, <2>2, <2>3, <2>4 DEF Init, TypeOK
<1>2. Held = {} /\ \A w \in Workers : ~Holding(w)
  BY DEF Init, Held, Holding
<1>3. RingBound /\ ClaimedExactlyOnce
  BY <1>2, QSizeAssumption DEF Init, RingBound, ClaimedExactlyOnce
<1>4. UnclaimedIntact /\ LoadsAreOld /\ ProducerKnows
  BY <1>0, MaxChunksAssumption DEF Init, UnclaimedIntact, LoadsAreOld, ProducerKnows, Chunk
<1> QED
  BY <1>1, <1>3, <1>4 DEF IInv

(* Every step of the main thread and of the parser threads keeps types. *)
LEMMA StepTypeOK == IInv /\ [Next]_vars => TypeOK'
<1> SUFFICES ASSUME IInv, [Next]_vars PROVE TypeOK'
  OBVIOUS
<1> USE QSizeAssumption, MaxChunksAssumption, SlotType
    DEF IInv, TypeOK, Chunk, shared, local, control
<1>1. CASE TogglePause
  <2>1. paused' \in BOOLEAN
    BY <1>1, Zenon DEF TogglePause
  <2> QED
    BY <1>1, <2>1 DEF TogglePause
<1>2. CASE StopRequest
  BY <1>2 DEF StopRequest
<1>3. CASE LogGrows
  <2>1. mapped' \in 0 .. MaxChunks
    BY <1>3 DEF LogGrows
  <2> QED
    BY <1>3, <2>1 DEF LogGrows
<1>4. CASE EnqueueBegin
  BY <1>4 DEF EnqueueBegin
<1>5. CASE EnqueueSpace
  BY <1>5 DEF EnqueueSpace
<1>6. CASE EnqueueStore
  <2>1. head \in Chunk
    BY <1>6 DEF EnqueueStore, ProducerKnows
  <2>2. slots' \in [0 .. QSize - 1 -> Chunk \cup {None}]
    BY <1>6, <2>1 DEF EnqueueStore
  <2> QED
    BY <1>6, <2>2 DEF EnqueueStore
<1>7. CASE EnqueuePublish
  <2>1. head' \in 0 .. MaxChunks
    BY <1>7 DEF EnqueuePublish, ProducerKnows
  <2>2. ppc' \in {"space", "loop"}
    BY <1>7 DEF EnqueuePublish
  <2> QED
    BY <1>7, <2>1, <2>2 DEF EnqueuePublish
<1>8. CASE Shutdown
  BY <1>8 DEF Shutdown
<1>9. CASE JoinWorkers
  BY <1>9 DEF JoinWorkers
<1>10. ASSUME NEW w \in Workers, Worker(w) PROVE TypeOK'
  <2>1. CASE LoadTail(w)
    BY <2>1 DEF LoadTail
  <2>2. CASE LoadHead(w)
    BY <2>2 DEF LoadHead
  <2>3. CASE LoadDone(w)
    <3>1. CASE done
      BY <2>3, <3>1 DEF LoadDone
    <3>2. CASE ~done
      BY <2>3, <3>2 DEF LoadDone
    <3> QED
      BY <3>1, <3>2
  <2>4. CASE Claim(w)
    <3>1. tail' \in Nat
      <4>1. wt[w] \in Nat
        OBVIOUS
      <4>2. tail' = wt[w] + 1
        BY <2>4 DEF Claim
      <4> QED
        BY <4>1, <4>2, NatSucc, Zenon
    <3>2. wpc' \in [Workers -> {"load_tail", "load_head", "load_done", "cas",
                                "copy", "work", "exited"}]
      BY <2>4 DEF Claim
    <3>3. UNCHANGED <<slots, head, done, running, paused, follow, mapped, ppc,
                      wt, chunk, finished>>
      BY <2>4 DEF Claim
    <3> QED
      BY <3>1, <3>2, <3>3
  <2>5. CASE ClaimFails(w)
    BY <2>5 DEF ClaimFails
  <2>6. CASE CopySlot(w)
    <3>1. CopyResults(w) \subseteq Chunk \cup {None, Torn}
      BY <2>6 DEF CopyResults, CopySlot, ProducerKnows
    <3> QED
      BY <2>6, <3>1 DEF CopySlot
  <2>7. CASE WorkOff(w)
    BY <2>7 DEF WorkOff
  <2> QED
    BY <1>10, <2>1, <2>2, <2>3, <2>4, <2>5, <2>6, <2>7 DEF Worker
<1>11. CASE UNCHANGED vars
  BY <1>11 DEF vars
<1> QED
  BY <1>1, <1>2, <1>3, <1>4, <1>5, <1>6, <1>7, <1>8, <1>9, <1>10, <1>11
  DEF Next, Enqueue, Stopped

(* The ring stays bounded: tail moves only below head, and head only after
   the producer has seen space, which can only have grown since. *)
LEMMA StepRingBound == IInv /\ [Next]_vars => RingBound'
<1> SUFFICES ASSUME IInv, [Next]_vars PROVE RingBound'
  OBVIOUS
<1> USE QSizeAssumption, MaxChunksAssumption
    DEF IInv, TypeOK, RingBound, shared, local, control
<1>1. CASE TogglePause \/ StopRequest \/ LogGrows \/ EnqueueBegin \/ Shutdown \/ JoinWorkers
  BY <1>1 DEF TogglePause, StopRequest, LogGrows, EnqueueBegin, Shutdown, JoinWorkers
<1>2. CASE EnqueueSpace
  BY <1>2 DEF EnqueueSpace
<1>3. CASE EnqueueStore
  BY <1>3 DEF EnqueueStore
<1>4. CASE EnqueuePublish
  BY <1>4 DEF EnqueuePublish
<1>5. ASSUME NEW w \in Workers, Worker(w) PROVE RingBound'
  <2>1. CASE Claim(w)
    BY <2>1 DEF Claim, LoadsAreOld
  <2>2. CASE LoadTail(w) \/ LoadHead(w) \/ LoadDone(w) \/ ClaimFails(w)
             \/ CopySlot(w) \/ WorkOff(w)
    <3>1. UNCHANGED <<head, tail, ppc>>
      BY <2>2 DEF LoadTail, LoadHead, LoadDone, ClaimFails, CopySlot, WorkOff
    <3> QED
      BY <3>1
  <2> QED
    BY <1>5, <2>1, <2>2 DEF Worker
<1>6. CASE UNCHANGED vars
  BY <1>6 DEF vars
<1> QED
  BY <1>1, <1>2, <1>3, <1>4, <1>5, <1>6 DEF Next, Enqueue, Stopped

(* What the threads learned from their loads stays true: tail and head only
   grow. *)
LEMMA StepLoadsAreOld == IInv /\ [Next]_vars => LoadsAreOld'
<1> SUFFICES ASSUME IInv, [Next]_vars, NEW v \in Workers
             PROVE  /\ wpc'[v] \in {"load_head", "load_done", "cas"} => wt'[v] <= tail'
                    /\ wpc'[v] = "cas" => wt'[v] < head'
  BY DEF LoadsAreOld
<1> USE DEF IInv, TypeOK, LoadsAreOld, shared, local, control
<1>1. CASE UNCHANGED <<head, tail, wpc, wt>>
  BY <1>1
<1>2. CASE EnqueuePublish
  BY <1>2 DEF EnqueuePublish
<1>3. ASSUME NEW w \in Workers, LoadTail(w)
      PROVE  /\ wpc'[v] \in {"load_head", "load_done", "cas"} => wt'[v] <= tail'
             /\ wpc'[v] = "cas" => wt'[v] < head'
  BY <1>3 DEF LoadTail
<1>4. ASSUME NEW w \in Workers, LoadHead(w)
      PROVE  /\ wpc'[v] \in {"load_head", "load_done", "cas"} => wt'[v] <= tail'
             /\ wpc'[v] = "cas" => wt'[v] < head'
  BY <1>4 DEF LoadHead
<1>5. ASSUME NEW w \in Workers, Claim(w)
      PROVE  /\ wpc'[v] \in {"load_head", "load_done", "cas"} => wt'[v] <= tail'
             /\ wpc'[v] = "cas" => wt'[v] < head'
  BY <1>5 DEF Claim
<1>6. ASSUME NEW w \in Workers,
             LoadDone(w) \/ ClaimFails(w) \/ CopySlot(w) \/ WorkOff(w)
      PROVE  /\ wpc'[v] \in {"load_head", "load_done", "cas"} => wt'[v] <= tail'
             /\ wpc'[v] = "cas" => wt'[v] < head'
  <2>1. /\ UNCHANGED <<head, tail, wt>>
        /\ \/ wpc' = [wpc EXCEPT ![w] = "load_tail"]
           \/ wpc' = [wpc EXCEPT ![w] = "work"]
           \/ wpc' = [wpc EXCEPT ![w] = "exited"]
    BY <1>6 DEF LoadDone, ClaimFails, CopySlot, WorkOff
  <2> QED
    BY <2>1
<1>7. CASE TogglePause \/ StopRequest \/ LogGrows \/ EnqueueBegin \/ EnqueueSpace
           \/ EnqueueStore \/ Shutdown \/ JoinWorkers \/ UNCHANGED vars
  BY <1>1, <1>7 DEF TogglePause, StopRequest, LogGrows, EnqueueBegin, EnqueueSpace,
                    EnqueueStore, Shutdown, JoinWorkers, vars
<1> QED
  BY <1>2, <1>3, <1>4, <1>5, <1>6, <1>7 DEF Next, Enqueue, Stopped, Worker

(* The producer's knowledge of its slot and of the mapping is its own: no
   other thread writes slots, head or mapped. *)
LEMMA StepProducerKnows == IInv /\ [Next]_vars => ProducerKnows'
<1> SUFFICES ASSUME IInv, [Next]_vars PROVE ProducerKnows'
  OBVIOUS
<1> USE QSizeAssumption, MaxChunksAssumption
    DEF IInv, TypeOK, ProducerKnows, shared, local, control
<1>1. CASE UNCHANGED <<slots, head, mapped, ppc>>
  BY <1>1 DEF Slot
<1>2. CASE LogGrows
  BY <1>2 DEF LogGrows
<1>3. CASE EnqueueBegin \/ EnqueueSpace \/ Shutdown \/ JoinWorkers
  BY <1>3 DEF EnqueueBegin, EnqueueSpace, Shutdown, JoinWorkers
<1>4. CASE EnqueueStore
  <2>1. Slot(head) \in 0 .. QSize - 1
    BY SlotType
  <2>2. slots'[Slot(head)] = head /\ ppc' = "publish" /\ UNCHANGED <<head, mapped>>
    BY <1>4, <2>1 DEF EnqueueStore
  <2> QED
    BY <1>4, <2>2 DEF EnqueueStore
<1>5. CASE EnqueuePublish
  BY <1>5 DEF EnqueuePublish
<1>6. ASSUME NEW w \in Workers, Worker(w) PROVE ProducerKnows'
  <2>1. UNCHANGED <<slots, head, mapped, ppc>>
    BY <1>6 DEF Worker, LoadTail, LoadHead, LoadDone, Claim, ClaimFails, CopySlot, WorkOff
  <2> QED
    BY <1>1, <2>1
<1>7. CASE TogglePause \/ StopRequest \/ UNCHANGED vars
  BY <1>1, <1>7 DEF TogglePause, StopRequest, vars
<1> QED
  BY <1>2, <1>3, <1>4, <1>5, <1>6, <1>7 DEF Next, Enqueue, Stopped

(* A store goes to the slot of head; the unclaimed positions are less than
   QUEUE_SIZE behind it, so they live in other slots. *)
LEMMA StepUnclaimedIntact == IInv /\ [Next]_vars => UnclaimedIntact'
<1> SUFFICES ASSUME IInv, [Next]_vars, NEW i \in Chunk, tail' <= i, i < head'
             PROVE  slots'[Slot(i)] = i
  BY DEF UnclaimedIntact
<1> USE DEF IInv, TypeOK, UnclaimedIntact
<1>0. i \in Nat /\ Slot(i) \in 0 .. QSize - 1
  BY SlotType, MaxChunksAssumption DEF Chunk
<1>1. CASE UNCHANGED <<slots, head, tail>>
  BY <1>1
<1>2. CASE EnqueueStore
  <2>1. /\ UNCHANGED <<head, tail>>
        /\ slots' = [slots EXCEPT ![Slot(head)] = head]
        /\ head - tail < QSize
    BY <1>2 DEF EnqueueStore, RingBound
  <2>2. Slot(i) # Slot(head)
    <3>1. head \in Nat /\ tail \in Nat /\ i < head /\ head - i < QSize
      BY <2>1, <1>0, QSizeAssumption, MaxChunksAssumption
    <3> QED
      BY <3>1, <1>0, SlotInjective
  <2>3. slots[Slot(i)] = i
    BY <2>1
  <2> QED
    BY <2>1, <2>2, <2>3, <1>0
<1>3. CASE EnqueuePublish
  <2>1. UNCHANGED <<slots, tail>> /\ head' = head + 1 /\ slots[Slot(head)] = head
    BY <1>3 DEF EnqueuePublish, ProducerKnows
  <2>2. CASE i = head
    BY <2>1, <2>2
  <2>3. CASE i < head
    BY <2>1, <2>3
  <2> QED
    BY <2>1, <2>2, <2>3, <1>0, MaxChunksAssumption
<1>4. ASSUME NEW w \in Workers, Claim(w) PROVE slots'[Slot(i)] = i
  <2>1. UNCHANGED <<slots, head>> /\ tail' = tail + 1
    BY <1>4 DEF Claim
  <2> QED
    BY <2>1, <1>0
<1>5. ASSUME NEW w \in Workers,
             LoadTail(w) \/ LoadHead(w) \/ LoadDone(w) \/ ClaimFails(w)
             \/ CopySlot(w) \/ WorkOff(w)
      PROVE  slots'[Slot(i)] = i
  BY <1>1, <1>5 DEF LoadTail, LoadHead, LoadDone, ClaimFails, CopySlot, WorkOff, shared
<1>6. CASE TogglePause \/ StopRequest \/ LogGrows \/ EnqueueBegin \/ EnqueueSpace
           \/ Shutdown \/ JoinWorkers \/ UNCHANGED vars
  BY <1>1, <1>6 DEF TogglePause, StopRequest, LogGrows, EnqueueBegin, EnqueueSpace,
                    Shutdown, JoinWorkers, vars, shared
<1> QED
  BY <1>2, <1>3, <1>4, <1>5, <1>6 DEF Next, Enqueue, Stopped, Worker

(* The CAS gives position tail, which nobody holds, to one thread, and a
   thread that has worked off its chunk is the only one that held it. *)
LEMMA StepClaimed == IInv /\ [Next]_vars => ClaimedExactlyOnce'
<1> SUFFICES ASSUME IInv, [Next]_vars PROVE ClaimedExactlyOnce'
  OBVIOUS
<1> USE DEF IInv, TypeOK
<1>1. ASSUME UNCHANGED <<tail, finished>>,
             \A v \in Workers : Holding(v)' = Holding(v),
             \A v \in Workers : Holding(v) => wt'[v] = wt[v]
      PROVE  ClaimedExactlyOnce'
  <2>1. Held' = Held
    BY <1>1 DEF Held
  <2> QED
    BY <1>1, <2>1 DEF ClaimedExactlyOnce
<1>2. ASSUME NEW w \in Workers, Claim(w) PROVE ClaimedExactlyOnce'
  <2>1. /\ tail = wt[w] /\ tail' = tail + 1 /\ UNCHANGED <<wt, finished>>
        /\ ~Holding(w) /\ Holding(w)'
        /\ \A v \in Workers \ {w} : Holding(v)' = Holding(v)
    BY <1>2 DEF Claim, Holding
  <2>2. Held' = Held \cup {tail}
    BY <2>1 DEF Held
  <2>3. tail \notin Held /\ tail \notin finished
    BY DEF ClaimedExactlyOnce
  <2>4. 0 .. tail' - 1 = (0 .. tail - 1) \cup {tail}
    BY <2>1
  <2>5. finished' \cup Held' = 0 .. tail' - 1 /\ finished' \cap Held' = {}
    BY <2>1, <2>2, <2>3, <2>4 DEF ClaimedExactlyOnce
  <2>6. ASSUME NEW u \in Workers, NEW v \in Workers,
               Holding(u)', Holding(v)', wt'[u] = wt'[v]
        PROVE  u = v
    <3>1. CASE u # w /\ v # w
      BY <2>1, <2>6, <3>1 DEF ClaimedExactlyOnce
    <3>2. CASE u = w /\ v # w
      BY <2>1, <2>3, <2>6, <3>2 DEF Held
    <3>3. CASE u # w /\ v = w
      BY <2>1, <2>3, <2>6, <3>3 DEF Held
    <3> QED
      BY <3>1, <3>2, <3>3
  <2> QED
    BY <2>5, <2>6 DEF ClaimedExactlyOnce
<1>3. ASSUME NEW w \in Workers, WorkOff(w) PROVE ClaimedExactlyOnce'
  <2>1. /\ UNCHANGED <<tail, wt>> /\ finished' = finished \cup {wt[w]}
        /\ Holding(w) /\ ~Holding(w)'
        /\ \A v \in Workers \ {w} : Holding(v)' = Holding(v)
    BY <1>3 DEF WorkOff, Holding, shared
  <2>2. Held' = Held \ {wt[w]} /\ wt[w] \in Held
    BY <2>1 DEF Held, ClaimedExactlyOnce
  <2>3. finished' \cup Held' = 0 .. tail' - 1 /\ finished' \cap Held' = {}
    BY <2>1, <2>2 DEF ClaimedExactlyOnce
  <2> QED
    BY <2>1, <2>3 DEF ClaimedExactlyOnce
<1>4. ASSUME NEW w \in Workers, LoadTail(w) PROVE ClaimedExactlyOnce'
  <2>1. /\ UNCHANGED <<tail, finished>> /\ ~Holding(w)
        /\ \A v \in Workers : Holding(v)' = Holding(v)
        /\ \A v \in Workers \ {w} : wt'[v] = wt[v]
    BY <1>4 DEF LoadTail, Holding, shared
  <2> QED
    BY <1>1, <2>1
<1>5. ASSUME NEW w \in Workers,
             LoadHead(w) \/ LoadDone(w) \/ ClaimFails(w) \/ CopySlot(w)
      PROVE  ClaimedExactlyOnce'
  <2>1. /\ UNCHANGED <<tail, finished, wt>>
        /\ \A v \in Workers : Holding(v)' = Holding(v)
    BY <1>5 DEF LoadHead, LoadDone, ClaimFails, CopySlot, Holding, shared
  <2> QED
    BY <1>1, <2>1
<1>6. CASE TogglePause \/ StopRequest \/ LogGrows \/ Enqueue \/ Shutdown
           \/ JoinWorkers \/ UNCHANGED vars
  <2>1. UNCHANGED <<tail, finished, wt, wpc>>
    BY <1>6 DEF TogglePause, StopRequest, LogGrows, Enqueue, EnqueueBegin, EnqueueSpace,
                EnqueueStore, EnqueuePublish, Shutdown, JoinWorkers, vars, shared, local
  <2> QED
    BY <1>1, <2>1 DEF Holding
<1> QED
  BY <1>2, <1>3, <1>4, <1>5, <1>6 DEF Next, Stopped, Worker

(* IInv is an invariant of the queue, for every number of threads, ring size
   and log. *)
THEOREM Inductive == Spec => []IInv
<1>1. IInv /\ [Next]_vars => IInv'
  BY StepTypeOK, StepRingBound, StepClaimed, StepUnclaimedIntact, StepLoadsAreOld,
     StepProducerKnows DEF IInv
<1> QED
  BY <1>1, InitIInv, PTL DEF Spec

(* Type correctness of the queue and of the threads' locals. *)
THEOREM TypeCorrect == Spec => []TypeOK
  BY Inductive, PTL DEF IInv

(* head and tail never cross and the ring never overflows (spmc_enqueue's
   space test against the threads' CAS on tail). *)
THEOREM RingIsBounded == Spec => []RingBound
  BY Inductive, PTL DEF IInv

(* Every position behind tail is worked off or held by exactly one thread. *)
THEOREM EveryPositionClaimedOnce == Spec => []ClaimedExactlyOnce
  BY Inductive, PTL DEF IInv

(* A published chunk stays in its slot until it is claimed. *)
THEOREM UnclaimedStaysIntact == Spec => []UnclaimedIntact
  BY Inductive, PTL DEF IInv
=============================================================================
