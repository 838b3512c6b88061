----------------------------- MODULE SpmcQueue -----------------------------
(***************************************************************************)
(* The work queue between the main thread of log_guardian, which cuts the  *)
(* mapped log file into chunks, and the parser threads (main.c): a ring of *)
(* QSize slots with one producer and many consumers and no lock.           *)
(*                                                                         *)
(* Chunks are numbered in file order, so the chunk published at head h is  *)
(* chunk h, and a slot holds a chunk number.  Every load, store and CAS    *)
(* of g_queue that another thread can see is a step of its own.            *)
(*                                                                         *)
(* A parser thread copies its slot only AFTER it has moved tail, so the    *)
(* space test of the producer may free a slot that has not been copied.    *)
(***************************************************************************)
EXTENDS Integers, FiniteSets

CONSTANTS Workers,    \* the parser threads, g_num_workers of them
          QSize,      \* QUEUE_SIZE
          MaxChunks,  \* bound: chunks the log file ever grows to
          None,       \* no chunk
          Torn        \* a copy with the start of one chunk and the end of another

ASSUME QSizeAssumption == QSize \in Nat \ {0}
ASSUME MaxChunksAssumption == MaxChunks \in Nat \ {0}
ASSUME NoneAssumption == None \notin Nat /\ Torn \notin Nat

VARIABLES
  slots,      \* g_queue.slots: the chunk in each slot
  head, tail, done,  \* g_queue.head, g_queue.tail, g_queue.done
  running, paused,   \* g_running, g_paused
  follow,     \* g_follow: keep reading the file as it grows
  mapped,     \* chunks in the part of the file that is mapped (mf.size)
  ppc,        \* where the main thread is
  wpc,        \* where each parser thread is
  wt,         \* its local t in worker_loop
  chunk,      \* its copy of the claimed slot
  finished    \* history: the claimed positions whose chunk was worked off

shared == <<slots, head, tail, done>>
control == <<running, paused, follow, mapped>>
local == <<wpc, wt, chunk, finished>>
vars == <<slots, head, tail, done, running, paused, follow, mapped, ppc,
          wpc, wt, chunk, finished>>

Chunk == 0 .. MaxChunks - 1
Slot(i) == i % QSize     \* i & QUEUE_MASK

(* Positions that a thread has claimed and not yet worked off. *)
Holding(w) == wpc[w] \in {"copy", "work"}
Held == {wt[w] : w \in {v \in Workers : Holding(v)}}

Init ==
  /\ slots = [s \in 0 .. QSize - 1 |-> None]
  /\ head = 0 /\ tail = 0 /\ done = FALSE
  /\ running = TRUE /\ paused = FALSE
  /\ follow \in BOOLEAN
  /\ mapped \in (IF follow THEN 0 .. 1 ELSE {MaxChunks})
  /\ ppc = "loop"
  /\ wpc = [w \in Workers |-> "load_tail"]
  /\ wt = [w \in Workers |-> 0]
  /\ chunk = [w \in Workers |-> None]
  /\ finished = {}

-----------------------------------------------------------------------------
(* The main thread. *)

(* Mutant: the key is read by another thread, also while the producer spins. *)
TogglePauseAnywhere ==
  /\ running
  /\ paused' = ~paused
  /\ UNCHANGED <<shared, local, running, follow, mapped, ppc>>

(* The terminal's pause key; read only in the main loop, never in spmc_enqueue. *)
TogglePause ==
  /\ ppc = "loop" /\ running
  /\ paused' = ~paused
  /\ UNCHANGED <<shared, local, running, follow, mapped, ppc>>

(* SIGINT/SIGTERM or the q key: g_running = 0, at any moment. *)
StopRequest ==
  /\ running
  /\ running' = FALSE
  /\ UNCHANGED <<shared, local, paused, follow, mapped, ppc>>

(* Everything mapped is enqueued and the followed file has grown: mremap. *)
LogGrows ==
  /\ ppc = "loop" /\ running /\ ~paused
  /\ follow /\ head = mapped /\ mapped < MaxChunks
  /\ mapped' = mapped + 1
  /\ UNCHANGED <<shared, local, running, paused, follow, ppc>>

(* A turn of the main loop that has chunks to enqueue enters spmc_enqueue. *)
EnqueueBegin ==
  /\ ppc = "loop" /\ running /\ ~paused
  /\ head < mapped
  /\ ppc' = "space"
  /\ UNCHANGED <<shared, local, control>>

(* Mutant: h - tail > QUEUE_SIZE, off by one. *)
EnqueueSpaceOffByOne ==
  /\ ppc = "space"
  /\ head - tail <= QSize
  /\ ppc' = "store"
  /\ UNCHANGED <<shared, local, control>>

(* The spin on h - tail >= QUEUE_SIZE ends.  Only the producer moves head. *)
EnqueueSpace ==
  /\ ppc = "space"
  /\ head - tail < QSize
  /\ ppc' = "store"
  /\ UNCHANGED <<shared, local, control>>

EnqueueStore ==
  /\ ppc = "store"
  /\ slots' = [slots EXCEPT ![Slot(head)] = head]
  /\ ppc' = "publish"
  /\ UNCHANGED <<head, tail, done, local, control>>

(* Mutant: the loop over the mapping goes on past its end. *)
EnqueuePublishPastEnd ==
  /\ ppc = "publish"
  /\ head' = head + 1
  /\ ppc' = IF head < mapped THEN "space" ELSE "loop"
  /\ UNCHANGED <<slots, tail, done, local, control>>

(* head is released; the loop over the mapping goes on without looking at
   g_running, and returns to the main loop after the last chunk. *)
EnqueuePublish ==
  /\ ppc = "publish"
  /\ head' = head + 1
  /\ ppc' = IF head + 1 < mapped THEN "space" ELSE "loop"
  /\ UNCHANGED <<slots, tail, done, local, control>>

(* The main loop ends: on a stop request, or at the end of a file that is not
   followed.  g_running = 0 and done = 1 are stored before the join. *)
Shutdown ==
  /\ ppc = "loop"
  /\ \/ ~running
     \/ ~paused /\ ~follow /\ head = mapped
  /\ running' = FALSE
  /\ done' = TRUE
  /\ ppc' = "join"
  /\ UNCHANGED <<slots, head, tail, local, paused, follow, mapped>>

JoinWorkers ==
  /\ ppc = "join"
  /\ \A w \in Workers : wpc[w] = "exited"
  /\ ppc' = "stopped"
  /\ UNCHANGED <<shared, local, control>>

-----------------------------------------------------------------------------
(* A parser thread in worker_loop. *)

LoadTail(w) ==
  /\ wpc[w] = "load_tail"
  /\ wt' = [wt EXCEPT ![w] = tail]
  /\ wpc' = [wpc EXCEPT ![w] = "load_head"]
  /\ UNCHANGED <<shared, control, ppc, chunk, finished>>

LoadHead(w) ==
  /\ wpc[w] = "load_head"
  /\ wpc' = [wpc EXCEPT ![w] = IF wt[w] >= head THEN "load_done" ELSE "cas"]
  /\ UNCHANGED <<shared, control, ppc, wt, chunk, finished>>

(* Mutant: a thread that sees an empty ring leaves at once. *)
LoadDoneIgnored(w) ==
  /\ wpc[w] = "load_done"
  /\ wpc' = [wpc EXCEPT ![w] = "exited"]
  /\ UNCHANGED <<shared, control, ppc, wt, chunk, finished>>

(* The two loads saw an empty ring: leave if done is set, else back off. *)
LoadDone(w) ==
  /\ wpc[w] = "load_done"
  /\ wpc' = [wpc EXCEPT ![w] = IF done THEN "exited" ELSE "load_tail"]
  /\ UNCHANGED <<shared, control, ppc, wt, chunk, finished>>

(* Mutant: a load and a store in place of the CAS. *)
ClaimNoCompare(w) ==
  /\ wpc[w] = "cas"
  /\ tail' = wt[w] + 1
  /\ wpc' = [wpc EXCEPT ![w] = "copy"]
  /\ UNCHANGED <<slots, head, done, control, ppc, wt, chunk, finished>>

Claim(w) ==
  /\ wpc[w] = "cas"
  /\ tail = wt[w]
  /\ tail' = wt[w] + 1
  /\ wpc' = [wpc EXCEPT ![w] = "copy"]
  /\ UNCHANGED <<slots, head, done, control, ppc, wt, chunk, finished>>

(* Another thread moved tail, or the weak CAS failed with no reason. *)
ClaimFails(w) ==
  /\ wpc[w] = "cas"
  /\ wpc' = [wpc EXCEPT ![w] = "load_tail"]
  /\ UNCHANGED <<shared, control, ppc, wt, chunk, finished>>

(* What the unsynchronised copy of a slot may yield: its chunk or, if the
   producer is storing to the same slot, the new chunk or a mixture of both. *)
CopyResults(w) ==
  {slots[Slot(wt[w])]} \cup
  {c \in {head, Torn} : ppc = "store" /\ Slot(head) = Slot(wt[w])}

CopySlot(w) ==
  /\ wpc[w] = "copy"
  /\ \E c \in CopyResults(w) : chunk' = [chunk EXCEPT ![w] = c]
  /\ wpc' = [wpc EXCEPT ![w] = "work"]
  /\ UNCHANGED <<shared, control, ppc, wt, finished>>

(* Mutant: the pause loop does not look at g_running. *)
WorkOffPausedForever(w) ==
  /\ wpc[w] = "work"
  /\ ~paused
  /\ finished' = finished \cup {wt[w]}
  /\ chunk' = [chunk EXCEPT ![w] = None]
  /\ wpc' = [wpc EXCEPT ![w] = "load_tail"]
  /\ UNCHANGED <<shared, control, ppc, wt>>

(* The lines of the chunk are parsed and analysed; a pause holds the thread
   here, but only while the program is running. *)
WorkOff(w) ==
  /\ wpc[w] = "work"
  /\ ~(paused /\ running)
  /\ finished' = finished \cup {wt[w]}
  /\ chunk' = [chunk EXCEPT ![w] = None]
  /\ wpc' = [wpc EXCEPT ![w] = "load_tail"]
  /\ UNCHANGED <<shared, control, ppc, wt>>

(* The threads are joined; nothing runs any more. *)
Stopped ==
  /\ ppc = "stopped"
  /\ UNCHANGED vars

Enqueue == EnqueueBegin \/ EnqueueSpace \/ EnqueueStore \/ EnqueuePublish
Worker(w) ==
  \/ LoadTail(w) \/ LoadHead(w) \/ LoadDone(w)
  \/ Claim(w) \/ ClaimFails(w) \/ CopySlot(w) \/ WorkOff(w)

Next ==
  \/ TogglePause \/ StopRequest \/ LogGrows
  \/ Enqueue \/ Shutdown \/ JoinWorkers
  \/ \E w \in Workers : Worker(w)
  \/ Stopped

Spec == Init /\ [][Next]_vars

(* Every thread keeps being scheduled, and a weak CAS does not fail for ever
   on a tail that nobody else moves.  Nobody has to press a key, send a signal
   or write to the log. *)
Fairness ==
  /\ WF_vars(Enqueue) /\ WF_vars(Shutdown) /\ WF_vars(JoinWorkers)
  /\ \A w \in Workers : WF_vars(Worker(w)) /\ SF_vars(Claim(w))

FairSpec == Spec /\ Fairness

-----------------------------------------------------------------------------
(* Properties. *)

(* The type of every variable of the queue and of the threads' locals. *)
TypeOK ==
  /\ slots \in [0 .. QSize - 1 -> Chunk \cup {None}]
  /\ head \in 0 .. MaxChunks /\ tail \in Nat /\ done \in BOOLEAN
  /\ running \in BOOLEAN /\ paused \in BOOLEAN /\ follow \in BOOLEAN
  /\ mapped \in 0 .. MaxChunks
  /\ ppc \in {"loop", "space", "store", "publish", "join", "stopped"}
  /\ wpc \in [Workers -> {"load_tail", "load_head", "load_done", "cas",
                          "copy", "work", "exited"}]
  /\ wt \in [Workers -> Nat]
  /\ chunk \in [Workers -> Chunk \cup {None, Torn}]
  /\ finished \in SUBSET Nat

(* The consumers never pass the producer and the ring never holds more than
   QUEUE_SIZE chunks, although head and tail are read at different times by
   threads that race on tail: the unsigned h - tail of spmc_enqueue cannot
   wrap around. *)
RingBound ==
  /\ tail <= head
  /\ head - tail <= QSize
  /\ ppc \in {"store", "publish"} => head - tail < QSize

(* Every position behind tail is claimed by exactly one parser thread: it is
   worked off, or held by one thread, and never both.  No chunk position is
   skipped by two threads that race on the CAS, and none is worked on twice. *)
ClaimedExactlyOnce ==
  /\ finished \cup Held = 0 .. tail - 1
  /\ finished \cap Held = {}
  /\ \A v, w \in Workers : Holding(v) /\ Holding(w) /\ wt[v] = wt[w] => v = w

(* The back-pressure of spmc_enqueue protects what no thread has claimed: a
   published chunk stays in its slot until tail has passed it, however far the
   threads that claimed the chunks before it have come. *)
UnclaimedIntact ==
  \A i \in Chunk : tail <= i /\ i < head => slots[Slot(i)] = i

(* What the comment of spmc_enqueue says of the full ring, "wait until the
   consumers have emptied it": the chunk a parser thread works on is the one
   that was published at the position it claimed. *)
WorksOnClaimedChunk ==
  \A w \in Workers : wpc[w] = "work" => chunk[w] = wt[w]

(* What the comment of worker_loop says of the exit, "queue empty: check the
   done flag": once all the threads are joined no published chunk is left in
   the ring. *)
DrainedAtJoin ==
  ppc = "stopped" => tail = head

(* Once the pause key is no longer used, every published chunk is claimed,
   unless the producer has already announced the end. *)
PublishedIsClaimed ==
  <>[](~paused) => \A i \in Chunk : head > i ~> (tail > i \/ done)

(* A producer that waits for space gets it: a pause cannot begin while it
   spins, so the parser threads go on. *)
BackPressureEnds == ppc = "space" ~> ppc = "store"

(* A stop request brings the program to the end of the join, whether or not
   the parser threads are held by a pause and whatever the ring holds. *)
StopEnds == ~running ~> ppc = "stopped"
=============================================================================
