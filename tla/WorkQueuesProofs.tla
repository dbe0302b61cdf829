-------------------------- MODULE WorkQueuesProofs --------------------------
(***************************************************************************)
(* Proofs about WorkQueues as Services runs it, for every set of batches   *)
(* and workers, every capacity and every number of quiet looks.            *)
(*                                                                         *)
(* The inductive invariant follows a batch: one that was accepted and not  *)
(* yet dealt with is in exactly one place, a slot of the channel or the    *)
(* hands of one worker.  About main it says how far the shutdown has come  *)
(* when the flags it leaves behind are set.                                *)
(***************************************************************************)
EXTENDS Services, Sequences, TLAPS

\* A worker has a batch in its hands exactly while it is inside of one.
HandsInv ==
  \A w \in LogWorkers :
    /\ worker[w].stage \in {"idle", "gone"} => worker[w].batch = {}
    /\ worker[w].stage \in {"batch", "entry"} => \E b \in Batches : worker[w].batch = {b}
    /\ worker[w].stage = "entry" => worker[w].left > 0

Queued(b) == \E i \in DOMAIN logQueue : logQueue[i] = b
InHand(b) == \E w \in LogWorkers : b \in worker[w].batch
Owed(b) == request[b] = "accepted" /\ outcome[b] = "none"

\* A batch is in one place at most, and in one exactly while it is owed.
PlacesInv ==
  /\ \A i, j \in DOMAIN logQueue : logQueue[i] = logQueue[j] => i = j
  /\ \A v, w \in LogWorkers : v # w => worker[v].batch \cap worker[w].batch = {}
  /\ \A b \in Batches : /\ Queued(b) => ~InHand(b)
                        /\ Owed(b) <=> Queued(b) \/ InHand(b)
                        /\ outcome[b] # "none" => request[b] = "accepted"

\* How far main has come.
MainInv ==
  /\ stopping <=> phase \in {"waiting", "stopped"}
  /\ logClosed \/ sideClosed => stopping
  /\ phase \in {"serving", "shutting", "draining"} =>
       ~drained /\ stableTicks < StableRequired
  /\ clean => phase \notin {"serving", "shutting"} /\ WQ!Handling = {}
  /\ clean /\ drained => logQueue = <<>>

QueuesInv == WQ!TypeOK /\ HandsInv /\ PlacesInv /\ MainInv

--------------------------------------------------------------------------
(* A step of the services is one of the queues or leaves them alone.        *)
LEMMA QueuesAlone ==
  ASSUME [Next]_vars
  PROVE  WQ!Next \/ UNCHANGED queueVars
BY DEF Next, vars, QueuesStep, HubStep, PublisherStep, ConfigStep, LoginStep, CacheStep,
       HealthStep, CountStep, CommandsStep, TerminalStep, AllOver, OthersRest

(* What Services assumes of the constants of the queues.                    *)
LEMMA QueuesAssumed == WQ!QueueAssumption
  BY ServicesAssumption

(* The initial state satisfies the invariant.                               *)
LEMMA QueuesInitInv == WQ!Init => QueuesInv
<1> SUFFICES ASSUME WQ!Init PROVE QueuesInv
  OBVIOUS
<1>1. WQ!TypeOK
  <2>1. logQueue \in Seq(Batches) /\ Len(logQueue) <= LogCap
    BY QueuesAssumed DEF WQ!Init, WQ!QueueAssumption
  <2>2. worker \in [LogWorkers -> [stage : {"idle", "batch", "entry", "gone"},
                                   batch : SUBSET Batches, left : 0..BatchSize]]
    BY QueuesAssumed DEF WQ!Init, WQ!NoBatch, WQ!QueueAssumption
  <2>3. sideQueue \in 0..SideCap /\ stableTicks \in 0..StableRequired
    BY QueuesAssumed DEF WQ!Init, WQ!QueueAssumption
  <2>4. QED
    BY <2>1, <2>2, <2>3 DEF WQ!Init, WQ!TypeOK, WQ!Requests, WQ!Phases
<1>2. HandsInv /\ PlacesInv
  BY DEF WQ!Init, HandsInv, PlacesInv, WQ!NoBatch, Queued, InHand, Owed
<1>3. MainInv
  BY QueuesAssumed DEF WQ!Init, MainInv, WQ!QueueAssumption
<1>4. QED
  BY <1>1, <1>2, <1>3 DEF QueuesInv

--------------------------------------------------------------------------
(* The handler. *)

(* A request that begins or is sent again is in no place yet.               *)
LEMMA BeginKeeps ==
  ASSUME QueuesInv, NEW b \in Batches, WQ!StartRequest(b) \/ WQ!Resend(b)
  PROVE  QueuesInv'
<1> USE DEF WQ!StartRequest, WQ!Resend, WQ!workerVars, WQ!closeVars, WQ!mainVars
<1>1. WQ!TypeOK'
  BY DEF QueuesInv, WQ!TypeOK, WQ!Requests
<1>2. HandsInv'
  BY DEF QueuesInv, HandsInv
<1>3. PlacesInv'
  <2>1. \A c \in Batches : Owed(c)' <=> Owed(c)
    BY DEF QueuesInv, WQ!TypeOK, Owed
  <2>2. \A c \in Batches : outcome'[c] # "none" => request'[c] = "accepted"
    BY DEF QueuesInv, PlacesInv, WQ!TypeOK
  <2>3. QED
    BY <2>1, <2>2 DEF QueuesInv, PlacesInv, Queued, InHand
<1>4. MainInv'
  BY DEF QueuesInv, MainInv, WQ!TypeOK, WQ!Handling
<1>5. QED
  BY <1>1, <1>2, <1>3, <1>4 DEF QueuesInv

(* EnqueueEntries puts a batch into the channel, refuses it, or, when the   *)
(* channel is closed, loses it: that happens to a stopping service only.    *)
LEMMA EnqueueKeeps ==
  ASSUME QueuesInv, NEW b \in Batches, WQ!EnqueueEntries(b)
  PROVE  QueuesInv'
<1> USE DEF WQ!EnqueueEntries, WQ!workerVars, WQ!closeVars, WQ!mainVars
<1>0. ~Owed(b) /\ ~Queued(b) /\ ~InHand(b) /\ outcome[b] = "none"
  BY DEF QueuesInv, PlacesInv, Owed
<1>1. WQ!TypeOK'
  <2>1. logQueue' \in Seq(Batches) /\ Len(logQueue') <= LogCap
    BY QueuesAssumed DEF QueuesInv, WQ!TypeOK, WQ!HasRoom, WQ!QueueAssumption
  <2>2. request' \in [Batches -> WQ!Requests]
    <3>1. \E v \in {"accepted", "refused"} : request' = [request EXCEPT ![b] = v]
      OBVIOUS
    <3>2. request \in [Batches -> WQ!Requests]
      BY DEF QueuesInv, WQ!TypeOK
    <3>3. QED
      BY <3>1, <3>2 DEF WQ!Requests
  <2>3. outcome' \in [Batches -> {"none", "done", "abandoned"}]
    BY DEF QueuesInv, WQ!TypeOK
  <2>4. QED
    BY <2>1, <2>2, <2>3 DEF QueuesInv, WQ!TypeOK
<1>2. HandsInv'
  BY DEF QueuesInv, HandsInv
<1>3. PlacesInv'
  <2>1. CASE logQueue' = Append(logQueue, b) /\ outcome' = outcome
             /\ request' = [request EXCEPT ![b] = "accepted"]
    <3>0. /\ DOMAIN logQueue' = 1..(Len(logQueue) + 1)
          /\ logQueue'[Len(logQueue) + 1] = b
          /\ \A i \in DOMAIN logQueue : logQueue'[i] = logQueue[i]
          /\ DOMAIN logQueue = 1..Len(logQueue) /\ Len(logQueue) \in Nat
      BY <2>1 DEF QueuesInv, WQ!TypeOK
    <3>1. \A c \in Batches : Queued(c)' <=> Queued(c) \/ c = b
      BY <3>0 DEF Queued
    <3>2. \A i, j \in DOMAIN logQueue' : logQueue'[i] = logQueue'[j] => i = j
      BY <1>0, <2>1 DEF QueuesInv, WQ!TypeOK, PlacesInv, Queued
    <3>3. \A c \in Batches : Owed(c)' <=> Owed(c) \/ c = b
      BY <1>0, <2>1 DEF QueuesInv, WQ!TypeOK, Owed
    <3>4. QED
      BY <1>0, <2>1, <3>1, <3>2, <3>3 DEF QueuesInv, PlacesInv, InHand, WQ!TypeOK
  <2>2. CASE logQueue' = logQueue /\ ~Owed(b)'
    <3>1. \A c \in Batches : Owed(c)' <=> Owed(c)
      BY <1>0, <2>2 DEF QueuesInv, WQ!TypeOK, Owed
    <3>2. \A c \in Batches : outcome'[c] # "none" => request'[c] = "accepted"
      BY <1>0, <2>2 DEF QueuesInv, PlacesInv, WQ!TypeOK
    <3>3. QED
      BY <2>2, <3>1, <3>2 DEF QueuesInv, PlacesInv, InHand, Queued
  <2>3. QED
    BY <2>1, <2>2 DEF QueuesInv, WQ!TypeOK, Owed
<1>4. MainInv'
  BY DEF QueuesInv, MainInv, WQ!TypeOK, WQ!Handling
<1>5. QED
  BY <1>1, <1>2, <1>3, <1>4 DEF QueuesInv

--------------------------------------------------------------------------
(* The workers. *)

(* A batch that is taken leaves the channel for one pair of hands.          *)
LEMMA TakeKeeps ==
  ASSUME QueuesInv, NEW w \in LogWorkers, WQ!TakeBatch(w)
  PROVE  QueuesInv'
<1> DEFINE b == Head(logQueue)
<1> USE DEF WQ!TakeBatch, WQ!closeVars, WQ!mainVars
<1>0. /\ b \in Batches
      /\ worker' = [worker EXCEPT ![w] = [stage |-> "batch", batch |-> {b}, left |-> BatchSize]]
      /\ worker[w].batch = {}
      /\ BatchSize \in 0..BatchSize
      /\ logQueue \in Seq(Batches) /\ logQueue # <<>> /\ logQueue' = Tail(logQueue)
  BY QueuesAssumed DEF QueuesInv, HandsInv, WQ!TypeOK, WQ!QueueAssumption
<1>1. WQ!TypeOK'
  <2>1. logQueue' \in Seq(Batches) /\ Len(logQueue') <= LogCap
    BY <1>0, QueuesAssumed DEF QueuesInv, WQ!TypeOK, WQ!QueueAssumption
  <2>2. worker' \in [LogWorkers -> [stage : {"idle", "batch", "entry", "gone"},
                                    batch : SUBSET Batches, left : 0..BatchSize]]
    BY <1>0 DEF QueuesInv, WQ!TypeOK
  <2>3. QED
    BY <2>1, <2>2 DEF QueuesInv, WQ!TypeOK
<1>2. HandsInv'
  <2>1. worker'[w] = [stage |-> "batch", batch |-> {b}, left |-> BatchSize]
    BY <1>0 DEF QueuesInv, WQ!TypeOK
  <2>2. \A v \in LogWorkers \ {w} : worker'[v] = worker[v]
    BY <1>0 DEF QueuesInv, WQ!TypeOK
  <2>3. QED
    BY <1>0, <2>1, <2>2 DEF QueuesInv, HandsInv
<1>3. PlacesInv'
  <2>1. \A c \in Batches : Queued(c)' <=> Queued(c) /\ c # b
    <3>1. /\ DOMAIN logQueue' = 1..(Len(logQueue) - 1)
          /\ \A i \in DOMAIN logQueue' : logQueue'[i] = logQueue[i + 1]
      BY <1>0
    <3>2. \A c \in Batches : Queued(c)' => Queued(c) /\ c # b
      BY <1>0, <3>1 DEF Queued, QueuesInv, PlacesInv
    <3>3. ASSUME NEW c \in Batches, Queued(c), c # b PROVE Queued(c)'
      <4>1. PICK i \in DOMAIN logQueue : logQueue[i] = c
        BY <3>3 DEF Queued
      <4>2. i - 1 \in DOMAIN logQueue' /\ logQueue'[i - 1] = c
        BY <1>0, <3>1, <3>3, <4>1
      <4>3. QED
        BY <4>2 DEF Queued
    <3>4. QED
      BY <3>2, <3>3
  <2>2. \A i, j \in DOMAIN logQueue' : logQueue'[i] = logQueue'[j] => i = j
    BY <1>0 DEF QueuesInv, PlacesInv
  <2>3. \A v \in LogWorkers : worker'[v].batch = IF v = w THEN {b} ELSE worker[v].batch
    BY <1>0 DEF QueuesInv, WQ!TypeOK
  <2>4. Queued(b) /\ ~InHand(b)
    BY <1>0 DEF Queued, QueuesInv, PlacesInv
  <2>5. \A c \in Batches : InHand(c)' <=> InHand(c) \/ c = b
    BY <1>0, <2>3 DEF InHand
  <2>6. \A v \in LogWorkers : b \notin worker[v].batch
    BY <2>4 DEF InHand
  <2>7. \A u, v \in LogWorkers : u # v => worker'[u].batch \cap worker'[v].batch = {}
    BY <2>3, <2>6 DEF QueuesInv, PlacesInv
  <2>8. QED
    BY <2>1, <2>2, <2>4, <2>5, <2>7 DEF QueuesInv, PlacesInv, Owed
<1>4. MainInv'
  BY <1>0 DEF QueuesInv, MainInv, WQ!Handling
<1>5. QED
  BY <1>1, <1>2, <1>3, <1>4 DEF QueuesInv

(* What a worker does inside of a batch does not put it down.               *)
LEMMA EntryKeeps ==
  ASSUME QueuesInv, NEW w \in LogWorkers, WQ!BeginEntry(w) \/ WQ!FinishEntry(w)
  PROVE  QueuesInv'
<1> USE DEF WQ!BeginEntry, WQ!FinishEntry, WQ!intakeVars, WQ!closeVars, WQ!mainVars
<1>1. WQ!TypeOK'
  <2>1. worker[w] \in [stage : {"idle", "batch", "entry", "gone"},
                       batch : SUBSET Batches, left : 0..BatchSize]
        /\ BatchSize \in Nat
    BY QueuesAssumed DEF QueuesInv, WQ!TypeOK, WQ!QueueAssumption
  <2>2. worker[w].stage = "entry" => worker[w].left - 1 \in 0..BatchSize
    BY <2>1 DEF QueuesInv, HandsInv
  <2>3. worker' \in [LogWorkers -> [stage : {"idle", "batch", "entry", "gone"},
                                    batch : SUBSET Batches, left : 0..BatchSize]]
    <3>1. CASE WQ!BeginEntry(w)
      BY <2>1, <3>1 DEF QueuesInv, WQ!TypeOK
    <3>2. CASE WQ!FinishEntry(w)
      <4>1. [worker[w] EXCEPT !.stage = "batch", !.left = worker[w].left - 1]
              \in [stage : {"idle", "batch", "entry", "gone"},
                   batch : SUBSET Batches, left : 0..BatchSize]
        BY <2>1, <2>2, <3>2
      <4>2. worker' = [worker EXCEPT ![w] =
                         [worker[w] EXCEPT !.stage = "batch", !.left = worker[w].left - 1]]
        BY <3>2 DEF QueuesInv, WQ!TypeOK
      <4>3. QED
        BY <4>1, <4>2 DEF QueuesInv, WQ!TypeOK
    <3>3. QED
      BY <3>1, <3>2
  <2>4. sideQueue' \in 0..SideCap
    BY QueuesAssumed DEF QueuesInv, WQ!TypeOK, WQ!QueueAssumption
  <2>5. QED
    BY <2>3, <2>4 DEF QueuesInv, WQ!TypeOK
<1>2. \A v \in LogWorkers : worker'[v].batch = worker[v].batch
  <2>1. CASE WQ!BeginEntry(w)
    BY <2>1 DEF QueuesInv, WQ!TypeOK
  <2>2. CASE WQ!FinishEntry(w)
    BY <2>2 DEF QueuesInv, WQ!TypeOK
  <2>3. QED
    BY <2>1, <2>2
<1>3. HandsInv'
  <2>1. \A v \in LogWorkers : v # w => worker'[v] = worker[v]
    BY DEF QueuesInv, WQ!TypeOK
  <2>2. worker'[w].stage \in {"batch", "entry"} /\ worker[w].stage \in {"batch", "entry"}
    BY DEF QueuesInv, WQ!TypeOK
  <2>3. worker'[w].stage = "entry" => worker'[w].left > 0
    BY DEF QueuesInv, WQ!TypeOK
  <2>4. QED
    BY <1>2, <2>1, <2>2, <2>3 DEF QueuesInv, HandsInv
<1>4. PlacesInv'
  BY <1>2 DEF QueuesInv, PlacesInv, Owed, Queued, InHand
<1>5. MainInv'
  BY DEF QueuesInv, MainInv, WQ!Handling
<1>6. QED
  BY <1>1, <1>3, <1>4, <1>5 DEF QueuesInv

(* A batch that ends, done or abandoned, is settled and in no place.        *)
LEMMA EndKeeps ==
  ASSUME QueuesInv, NEW w \in LogWorkers, NEW verdict \in {"done", "abandoned"},
         worker[w].stage = "batch", WQ!EndBatch(w, verdict)
  PROVE  QueuesInv'
<1> USE DEF WQ!EndBatch, WQ!closeVars, WQ!mainVars
<1>0. PICK b \in Batches : worker[w].batch = {b}
  BY DEF QueuesInv, HandsInv
<1>1. WQ!TypeOK'
  <2>1. worker' \in [LogWorkers -> [stage : {"idle", "batch", "entry", "gone"},
                                    batch : SUBSET Batches, left : 0..BatchSize]]
    BY QueuesAssumed DEF QueuesInv, WQ!TypeOK, WQ!QueueAssumption, WQ!NoBatch
  <2>2. outcome' \in [Batches -> {"none", "done", "abandoned"}]
    BY DEF QueuesInv, WQ!TypeOK
  <2>3. QED
    BY <2>1, <2>2 DEF QueuesInv, WQ!TypeOK
<1>2. HandsInv'
  BY DEF QueuesInv, HandsInv, WQ!TypeOK, WQ!NoBatch
<1>3. PlacesInv'
  <2>1. \A v \in LogWorkers : worker'[v].batch = IF v = w THEN {} ELSE worker[v].batch
    BY DEF QueuesInv, WQ!TypeOK, WQ!NoBatch
  <2>2. \A v \in LogWorkers : v # w => b \notin worker[v].batch
    BY <1>0 DEF QueuesInv, PlacesInv
  <2>3. \A c \in Batches : InHand(c)' <=> InHand(c) /\ c # b
    BY <1>0, <2>1, <2>2 DEF InHand
  <2>4. InHand(b) /\ ~Queued(b) /\ Owed(b)
    BY <1>0 DEF InHand, QueuesInv, PlacesInv
  <2>5. /\ \A c \in Batches : outcome'[c] = IF c = b THEN verdict ELSE outcome[c]
        /\ request' = request
    BY <1>0
  <2>6. \A c \in Batches : Owed(c)' <=> Owed(c) /\ c # b
    BY <2>5 DEF Owed
  <2>7. \A c \in Batches : outcome'[c] # "none" => request'[c] = "accepted"
    BY <2>4, <2>5 DEF Owed, QueuesInv, PlacesInv
  <2>8. QED
    BY <2>1, <2>3, <2>4, <2>6, <2>7 DEF QueuesInv, PlacesInv, Queued
<1>4. MainInv'
  BY DEF QueuesInv, MainInv, WQ!Handling
<1>5. QED
  BY <1>1, <1>2, <1>3, <1>4 DEF QueuesInv

(* A worker that leaves had nothing in its hands.                           *)
LEMMA ExitKeeps ==
  ASSUME QueuesInv, NEW w \in LogWorkers, WQ!ExitLogWorker(w)
  PROVE  QueuesInv'
<1> USE DEF WQ!ExitLogWorker, WQ!intakeVars, WQ!closeVars, WQ!mainVars
<1>1. WQ!TypeOK'
  BY QueuesAssumed DEF QueuesInv, WQ!TypeOK, WQ!QueueAssumption, WQ!Gone
<1>2. \A v \in LogWorkers : worker'[v].batch = worker[v].batch
  BY DEF QueuesInv, HandsInv, WQ!TypeOK, WQ!Gone
<1>3. HandsInv'
  BY DEF QueuesInv, HandsInv, WQ!TypeOK, WQ!Gone
<1>4. PlacesInv'
  BY <1>2 DEF QueuesInv, PlacesInv, Owed, Queued, InHand
<1>5. MainInv'
  BY DEF QueuesInv, MainInv, WQ!Handling
<1>6. QED
  BY <1>1, <1>3, <1>4, <1>5 DEF QueuesInv

(* The side-effect workers touch the side tasks only.                       *)
LEMMA SideKeeps ==
  ASSUME QueuesInv, NEW s \in SideWorkers, WQ!SideWorkerStep(s)
  PROVE  QueuesInv'
<1>1. /\ UNCHANGED <<request, logQueue, outcome, worker, logClosed, sideClosed, phase,
                     stopping, clean, drained, stableTicks>>
      /\ sideQueue' \in 0..SideCap
      /\ sideWorker' \in [SideWorkers -> {"idle", "task", "gone"}]
  <2>1. /\ UNCHANGED <<request, logQueue, outcome, worker, logClosed, sideClosed, phase,
                       stopping, clean, drained, stableTicks>>
        /\ sideQueue' = sideQueue \/ (sideQueue > 0 /\ sideQueue' = sideQueue - 1)
        /\ \E v \in {"idle", "task", "gone"} : sideWorker' = [sideWorker EXCEPT ![s] = v]
    BY DEF WQ!SideWorkerStep, WQ!TakeTask, WQ!FinishTask, WQ!ExitSideWorker,
           WQ!intakeVars, WQ!closeVars, WQ!mainVars
  <2>2. /\ SideCap \in Nat /\ sideQueue \in 0..SideCap
        /\ sideWorker \in [SideWorkers -> {"idle", "task", "gone"}]
    BY QueuesAssumed DEF QueuesInv, WQ!TypeOK, WQ!QueueAssumption
  <2>3. sideQueue' \in 0..SideCap
    BY <2>1, <2>2
  <2>4. sideWorker' \in [SideWorkers -> {"idle", "task", "gone"}]
    BY <2>1, <2>2
  <2>5. QED
    BY <2>1, <2>3, <2>4
<1>2. WQ!TypeOK'
  BY <1>1 DEF QueuesInv, WQ!TypeOK
<1>3. HandsInv' /\ PlacesInv' /\ MainInv'
  BY <1>1 DEF QueuesInv, HandsInv, PlacesInv, MainInv, Owed, Queued, InHand, WQ!Handling
<1>4. QED
  BY <1>2, <1>3 DEF QueuesInv

--------------------------------------------------------------------------
(* Main. *)

(* A step of main, or of the goroutines that close the channels, moves no   *)
(* batch.                                                                   *)
LEMMA MainKeeps ==
  ASSUME QueuesInv, WQ!MainStep \/ WQ!CloseLog \/ WQ!CloseSide
  PROVE  QueuesInv'
<1>1. UNCHANGED <<request, logQueue, outcome, worker, sideQueue, sideWorker>>
  BY DEF WQ!MainStep, WQ!CloseLog, WQ!CloseSide, WQ!Signal, WQ!ShutdownDone,
         WQ!ShutdownTimeout, WQ!DrainTick, WQ!DrainTimeout, WQ!Cancel, WQ!Stop,
         WQ!intakeVars, WQ!workerVars
<1>2. /\ phase' \in WQ!Phases
      /\ logClosed' \in BOOLEAN /\ sideClosed' \in BOOLEAN /\ stopping' \in BOOLEAN
      /\ clean' \in BOOLEAN /\ drained' \in BOOLEAN
      /\ stableTicks' \in 0..StableRequired
      /\ MainInv'
  <2>1. StableRequired \in Nat \ {0} /\ stableTicks \in 0..StableRequired
    BY QueuesAssumed DEF QueuesInv, WQ!TypeOK, WQ!QueueAssumption
  <2>2. CASE WQ!CloseLog \/ WQ!CloseSide
    <3>1. /\ UNCHANGED <<phase, stopping, clean, drained, stableTicks>>
          /\ stopping
          /\ logClosed' \in {logClosed, TRUE} /\ sideClosed' \in {sideClosed, TRUE}
      BY <2>2 DEF WQ!CloseLog, WQ!CloseSide, WQ!mainVars
    <3>2. QED
      BY <1>1, <3>1 DEF QueuesInv, WQ!TypeOK, MainInv, WQ!Handling
  <2>3. CASE WQ!Signal
    BY <1>1, <2>3 DEF WQ!Signal, QueuesInv, WQ!TypeOK, MainInv, WQ!Handling, WQ!Phases, WQ!closeVars
  <2>4. CASE WQ!ShutdownDone
    BY <1>1, <2>4
       DEF WQ!ShutdownDone, WQ!ServerQuiet, QueuesInv, WQ!TypeOK, MainInv, WQ!Handling, WQ!Phases,
           WQ!closeVars
  <2>5. CASE WQ!ShutdownTimeout
    BY <1>1, <2>5
       DEF WQ!ShutdownTimeout, QueuesInv, WQ!TypeOK, MainInv, WQ!Handling, WQ!Phases, WQ!closeVars
  <2>6. CASE WQ!DrainTick
    <3>1. /\ stableTicks' = IF WQ!QueuesEmpty THEN stableTicks + 1 ELSE 0
          /\ stableTicks < StableRequired
      BY <2>6 DEF WQ!DrainTick, QueuesInv, MainInv
    <3>2. /\ stableTicks' \in 0..StableRequired
          /\ stableTicks' >= StableRequired => logQueue = <<>>
      BY <2>1, <3>1 DEF WQ!QueuesEmpty
    <3>3. \/ /\ drained' = TRUE /\ phase' = "drained"
             /\ logQueue = <<>>
          \/ /\ drained' = FALSE /\ phase' = "draining"
             /\ stableTicks' < StableRequired
      <4>1. CASE stableTicks' >= StableRequired
        <5>1. drained' = TRUE
          BY <2>6, <4>1 DEF WQ!DrainTick
        <5>2. QED
          BY <2>6, <3>2, <4>1, <5>1 DEF WQ!DrainTick
      <4>2. CASE ~(stableTicks' >= StableRequired)
        <5>1. drained' = FALSE
          <6>1. drained' = (stableTicks' >= StableRequired)
            BY <2>6 DEF WQ!DrainTick
          <6>2. (stableTicks' >= StableRequired) = FALSE
            BY <4>2, SMT
          <6>3. QED
            BY <6>1, <6>2
        <5>2. QED
          BY <2>1, <2>6, <3>2, <4>2, <5>1 DEF WQ!DrainTick
      <4>3. QED
        BY <4>1, <4>2
    <3>4. QED
      BY <1>1, <2>1, <2>6, <3>2, <3>3
         DEF WQ!DrainTick, QueuesInv, WQ!TypeOK, MainInv, WQ!Handling, WQ!Phases, WQ!closeVars
  <2>7. CASE WQ!DrainTimeout
    BY <1>1, <2>7
       DEF WQ!DrainTimeout, QueuesInv, WQ!TypeOK, MainInv, WQ!Handling, WQ!Phases, WQ!closeVars
  <2>8. CASE WQ!Cancel
    BY <1>1, <2>8 DEF WQ!Cancel, QueuesInv, WQ!TypeOK, MainInv, WQ!Handling, WQ!Phases, WQ!closeVars
  <2>9. CASE WQ!Stop
    BY <1>1, <2>9 DEF WQ!Stop, QueuesInv, WQ!TypeOK, MainInv, WQ!Handling, WQ!Phases, WQ!closeVars
  <2>10. QED
    BY <2>2, <2>3, <2>4, <2>5, <2>6, <2>7, <2>8, <2>9 DEF WQ!MainStep
<1>3. WQ!TypeOK'
  BY <1>1, <1>2 DEF QueuesInv, WQ!TypeOK
<1>4. HandsInv' /\ PlacesInv'
  BY <1>1 DEF QueuesInv, HandsInv, PlacesInv, Owed, Queued, InHand
<1>5. QED
  BY <1>2, <1>3, <1>4 DEF QueuesInv

(* The invariant is inductive.                                              *)
LEMMA QueuesStepInv == QueuesInv /\ [Next]_vars => QueuesInv'
<1> SUFFICES ASSUME QueuesInv, [Next]_vars PROVE QueuesInv'
  OBVIOUS
<1>1. ASSUME NEW b \in Batches, WQ!RequestStep(b) PROVE QueuesInv'
  BY <1>1, BeginKeeps, EnqueueKeeps DEF WQ!RequestStep
<1>2. ASSUME NEW w \in LogWorkers, WQ!LogWorkerStep(w) PROVE QueuesInv'
  <2>1. CASE WQ!AbandonBatch(w) \/ WQ!FinishBatch(w)
    BY <2>1, EndKeeps DEF WQ!AbandonBatch, WQ!FinishBatch
  <2>2. QED
    BY <1>2, <2>1, TakeKeeps, EntryKeeps, ExitKeeps DEF WQ!LogWorkerStep
<1>3. CASE UNCHANGED queueVars
  BY <1>3 DEF queueVars, QueuesInv, WQ!TypeOK, HandsInv, PlacesInv, MainInv, Owed, Queued, InHand,
              WQ!Handling
<1>4. CASE WQ!Terminated
  BY <1>3, <1>4 DEF WQ!Terminated, WQ!queueVars, WQ!intakeVars, WQ!workerVars, WQ!closeVars,
                    WQ!mainVars, queueVars
<1>5. QED
  BY <1>1, <1>2, <1>3, <1>4, SideKeeps, MainKeeps, QueuesAlone DEF WQ!Next

LEMMA QueuesInvariance == Spec => []QueuesInv
<1>1. Init => QueuesInv
  BY QueuesInitInv DEF Init
<1>2. QED
  BY <1>1, QueuesStepInv, PTL DEF Spec

(* The queues keep their types: neither channel holds more than it may.     *)
THEOREM QueuesTypeCorrect == Spec => []WQ!TypeOK
<1>1. QueuesInv => WQ!TypeOK
  BY DEF QueuesInv
<1>2. QED
  BY <1>1, QueuesInvariance, PTL

(* A shutdown in which the server went quiet and WaitDrained saw empty      *)
(* queues loses no batch it told an agent it had accepted: whatever is not  *)
(* dealt with is in the hands of a worker (main.go, WaitDrained).           *)
THEOREM ShutdownDrains == Spec => []CleanDrain
<1>1. QueuesInv => CleanDrain
  <2> SUFFICES ASSUME QueuesInv, clean, drained
               PROVE  /\ logQueue = <<>>
                      /\ WQ!Handling = {}
                      /\ \A b \in Batches : Owed(b) =>
                           \E w \in LogWorkers : worker[w].batch = {b}
    BY DEF CleanDrain, WQ!CleanDrain, Owed
  <2>1. logQueue = <<>> /\ WQ!Handling = {}
    BY DEF QueuesInv, MainInv
  <2>2. ASSUME NEW b \in Batches, Owed(b)
        PROVE  \E w \in LogWorkers : worker[w].batch = {b}
    <3>1. PICK w \in LogWorkers : b \in worker[w].batch
      BY <2>1, <2>2 DEF QueuesInv, PlacesInv, Queued, InHand
    <3>2. QED
      BY <3>1 DEF QueuesInv, HandsInv, WQ!TypeOK
  <2>3. QED
    BY <2>1, <2>2
<1>2. QED
  BY <1>1, QueuesInvariance, PTL

--------------------------------------------------------------------------
(* The refinement. *)

\* Nothing changed that BatchDelivery sees.
Unseen == request' = request /\ outcome' = outcome /\ stopping' = stopping

\* The fate of batch b alone changes, from one to the other.
FateBecomes(b, from, to) ==
  /\ WQ!Fate(b) = from
  /\ \A c \in Batches : WQ!Fate(c)' = IF c = b THEN to ELSE WQ!Fate(c)
  /\ stopping' = stopping

(* What is not seen is a stutter.                                           *)
LEMMA UnseenStutters ==
  ASSUME \A c \in Batches : WQ!Fate(c)' = WQ!Fate(c), stopping' = stopping
  PROVE  UNCHANGED <<[b \in Batches |-> WQ!Fate(b)], stopping>>
OBVIOUS

(* A batch whose fate changes alone takes the step of BatchDelivery.        *)
LEMMA FateStep ==
  ASSUME NEW b \in Batches, NEW from, NEW to, FateBecomes(b, from, to)
  PROVE  WQ!Delivery!Becomes(b, from, to)
<1>1. [c \in Batches |-> WQ!Fate(c)]' = [[c \in Batches |-> WQ!Fate(c)] EXCEPT ![b] = to]
  BY DEF FateBecomes
<1>2. QED
  BY <1>1 DEF FateBecomes, WQ!Delivery!Becomes

(* A step of the queues is one of BatchDelivery or is not seen there.       *)
LEMMA QueuesRefine ==
  ASSUME QueuesInv, [Next]_vars
  PROVE  \/ WQ!Delivery!Next
         \/ UNCHANGED <<[b \in Batches |-> WQ!Fate(b)], stopping>>
<1>0. ASSUME Unseen
      PROVE  UNCHANGED <<[b \in Batches |-> WQ!Fate(b)], stopping>>
  <2>1. \A c \in Batches : WQ!Fate(c)' = WQ!Fate(c)
    BY <1>0 DEF Unseen, WQ!Fate
  <2>2. QED
    BY <1>0, <2>1, UnseenStutters DEF Unseen
<1>1. ASSUME NEW b \in Batches, WQ!StartRequest(b)
      PROVE  UNCHANGED <<[c \in Batches |-> WQ!Fate(c)], stopping>>
  <2>1. \A c \in Batches : WQ!Fate(c)' = WQ!Fate(c)
    BY <1>1 DEF WQ!StartRequest, WQ!Fate, QueuesInv, WQ!TypeOK
  <2>2. stopping' = stopping
    BY <1>1 DEF WQ!StartRequest, WQ!mainVars
  <2>3. QED
    BY <2>1, <2>2, UnseenStutters
<1>2. ASSUME NEW b \in Batches, WQ!Resend(b) PROVE WQ!Delivery!Next
  <2>1. FateBecomes(b, "refused", "offered")
    BY <1>2 DEF WQ!Resend, WQ!mainVars, FateBecomes, WQ!Fate, QueuesInv, WQ!TypeOK
  <2>2. QED
    BY <2>1, FateStep DEF WQ!Delivery!Next, WQ!Delivery!OfferAgain
<1>3. ASSUME NEW b \in Batches, WQ!EnqueueEntries(b) PROVE WQ!Delivery!Next
  <2>1. /\ request[b] = "handling" /\ outcome[b] = "none" /\ stopping' = stopping
        /\ logClosed => stopping
    BY <1>3 DEF WQ!EnqueueEntries, WQ!mainVars, QueuesInv, PlacesInv, MainInv
  <2>2. CASE logClosed
    <3>1. FateBecomes(b, "offered", "abandoned")
      BY <1>3, <2>1, <2>2 DEF WQ!EnqueueEntries, FateBecomes, WQ!Fate, QueuesInv, WQ!TypeOK
    <3>2. QED
      BY <2>1, <2>2, <3>1, FateStep DEF WQ!Delivery!Next, WQ!Delivery!AcceptTooLate
  <2>3. CASE ~logClosed /\ WQ!HasRoom
    <3>1. FateBecomes(b, "offered", "accepted")
      BY <1>3, <2>1, <2>3 DEF WQ!EnqueueEntries, FateBecomes, WQ!Fate, QueuesInv, WQ!TypeOK
    <3>2. QED
      BY <3>1, FateStep DEF WQ!Delivery!Next, WQ!Delivery!Accept
  <2>4. CASE ~logClosed /\ ~WQ!HasRoom
    <3>1. FateBecomes(b, "offered", "refused")
      BY <1>3, <2>1, <2>4 DEF WQ!EnqueueEntries, FateBecomes, WQ!Fate, QueuesInv, WQ!TypeOK
    <3>2. QED
      BY <3>1, FateStep DEF WQ!Delivery!Next, WQ!Delivery!Refuse
  <2>5. QED
    BY <2>2, <2>3, <2>4
<1>4. ASSUME NEW w \in LogWorkers, NEW verdict \in {"done", "abandoned"},
             worker[w].stage = "batch", WQ!EndBatch(w, verdict)
      PROVE  /\ stopping' = stopping
             /\ \E b \in Batches : FateBecomes(b, "accepted", verdict)
  <2>1. PICK b \in Batches : worker[w].batch = {b}
    BY <1>4 DEF QueuesInv, HandsInv
  <2>2. Owed(b)
    BY <2>1 DEF QueuesInv, PlacesInv, InHand
  <2>3. /\ \A c \in Batches : outcome'[c] = IF c = b THEN verdict ELSE outcome[c]
        /\ request' = request /\ stopping' = stopping
    BY <1>4, <2>1 DEF WQ!EndBatch, WQ!mainVars
  <2>4. FateBecomes(b, "accepted", verdict)
    BY <2>2, <2>3 DEF FateBecomes, WQ!Fate, Owed
  <2>5. QED
    BY <2>3, <2>4
<1>5. ASSUME NEW w \in LogWorkers, WQ!FinishBatch(w) PROVE WQ!Delivery!Next
  <2>1. PICK b \in Batches : FateBecomes(b, "accepted", "done")
    BY <1>4, <1>5 DEF WQ!FinishBatch
  <2>2. QED
    BY <2>1, FateStep DEF WQ!Delivery!Next, WQ!Delivery!Complete
<1>6. ASSUME NEW w \in LogWorkers, WQ!AbandonBatch(w) PROVE WQ!Delivery!Next
  <2>1. PICK b \in Batches : FateBecomes(b, "accepted", "abandoned")
    BY <1>4, <1>6 DEF WQ!AbandonBatch
  <2>2. stopping
    BY <1>6 DEF WQ!AbandonBatch, WQ!MayGiveUp
  <2>3. QED
    BY <2>1, <2>2, FateStep DEF WQ!Delivery!Next, WQ!Delivery!Abandon
<1>7. ASSUME NEW w \in LogWorkers,
             WQ!TakeBatch(w) \/ WQ!BeginEntry(w) \/ WQ!FinishEntry(w) \/ WQ!ExitLogWorker(w)
      PROVE  Unseen
  BY <1>7 DEF Unseen, WQ!TakeBatch, WQ!BeginEntry, WQ!FinishEntry, WQ!ExitLogWorker,
              WQ!intakeVars, WQ!mainVars
<1>8. ASSUME NEW s \in SideWorkers, WQ!SideWorkerStep(s) PROVE Unseen
  BY <1>8 DEF Unseen, WQ!SideWorkerStep, WQ!TakeTask, WQ!FinishTask, WQ!ExitSideWorker,
              WQ!intakeVars, WQ!mainVars
<1>9. CASE WQ!MainStep \/ WQ!CloseLog \/ WQ!CloseSide
  <2>1. CASE WQ!Cancel
    <3>1. /\ \A c \in Batches : WQ!Fate(c)' = WQ!Fate(c)
          /\ stopping' = TRUE
      BY <2>1 DEF WQ!Cancel, WQ!intakeVars, WQ!Fate
    <3>2. [c \in Batches |-> WQ!Fate(c)]' = [c \in Batches |-> WQ!Fate(c)]
      BY <3>1
    <3>3. QED
      BY <3>1, <3>2 DEF WQ!Delivery!Next, WQ!Delivery!BeginStop
  <2>2. CASE ~WQ!Cancel
    <3>1. Unseen
      BY <1>9, <2>2
         DEF Unseen, WQ!MainStep, WQ!CloseLog, WQ!CloseSide, WQ!Signal, WQ!ShutdownDone,
             WQ!ShutdownTimeout, WQ!DrainTick, WQ!DrainTimeout, WQ!Stop, WQ!intakeVars,
             WQ!mainVars
    <3>2. QED
      BY <1>0, <3>1
  <2>3. QED
    BY <2>1, <2>2
<1>10. CASE UNCHANGED queueVars \/ WQ!Terminated
  <2>1. Unseen
    BY <1>10 DEF Unseen, queueVars, WQ!Terminated, WQ!queueVars, WQ!intakeVars, WQ!mainVars
  <2>2. QED
    BY <1>0, <2>1
<1>11. QED
  BY <1>0, <1>1, <1>2, <1>3, <1>5, <1>6, <1>7, <1>8, <1>9, <1>10, QueuesAlone
     DEF WQ!Next, WQ!RequestStep, WQ!LogWorkerStep

(* The intake and its workers implement BatchDelivery: a batch is answered  *)
(* once and worked through once, and only a service that is stopping gives  *)
(* up one it has accepted (EnqueueEntries, ProcessEntries, main.go).        *)
THEOREM QueuesImplementDelivery == Spec => ImplementsDelivery
<1>1. Init => WQ!Delivery!Init
  <2>1. Init => \A b \in Batches : WQ!Fate(b) = "offered"
    BY DEF Init, WQ!Init, WQ!Fate
  <2>2. QED
    BY <2>1 DEF Init, WQ!Init, WQ!Delivery!Init
<1>2. QueuesInv /\ [Next]_vars =>
        [WQ!Delivery!Next]_<<[b \in Batches |-> WQ!Fate(b)], stopping>>
  BY QueuesRefine
<1>3. QED
  BY <1>1, <1>2, QueuesInvariance, PTL
     DEF Spec, ImplementsDelivery, WQ!ImplementsDelivery, WQ!Delivery!Spec
=============================================================================
