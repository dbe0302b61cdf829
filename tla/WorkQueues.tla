------------------------------ MODULE WorkQueues ------------------------------
(***************************************************************************)
(* The two bounded channels of the processor, the pools of goroutines that *)
(* drain them, the HTTP handler that fills the first, and the shutdown of  *)
(* main that goes through srv.Shutdown, WaitDrained, cancel and wg.Wait.   *)
(* A batch is a member of a set, its content the number of entries left; a *)
(* side task is anonymous, so the second channel is its length.  Timeouts  *)
(* (10 s for the server, 8 s for the queues) may strike at any moment of   *)
(* the phase they bound.                                                   *)
(* Operators named Faulty... are not part of the specification: each is a  *)
(* wrong variant of the definition after it.                               *)
(***************************************************************************)
EXTENDS Naturals, Sequences, FiniteSets

CONSTANTS Batches,        \* the log batches of the agents
          LogWorkers,     \* cfg.WorkerPoolSize goroutines
          SideWorkers,    \* cfg.SideEffectWorkerPoolSize goroutines
          LogCap,         \* cfg.LogChannelBufferSize
          SideCap,        \* cfg.SideEffectChannelBufferSize
          BatchSize,      \* entries of a batch
          StableRequired  \* consecutive empty looks that count as drained (6)

\* What the constants have to satisfy; Services assumes it.
QueueAssumption == /\ LogCap \in Nat \ {0}
                   /\ SideCap \in Nat \ {0}
                   /\ BatchSize \in Nat \ {0}
                   /\ StableRequired \in Nat \ {0}

VARIABLES request,     \* the HTTP request that carries each batch
          logQueue,    \* logChannel
          logClosed,   \* close(logChannel) was called
          worker,      \* each log worker: its batch, entries left, stage
          outcome,     \* what the workers made of each batch
          sideQueue,   \* length of sideEffectChannel
          sideClosed,  \* close(sideEffectChannel) was called
          sideWorker,  \* stage of each side-effect worker
          phase,       \* how far main has come
          stopping,    \* ctx is cancelled
          clean,       \* srv.Shutdown returned without error
          drained,     \* WaitDrained returned true
          stableTicks  \* consecutive looks at empty queues

intakeVars == <<request, logQueue, outcome>>
workerVars == <<worker, sideQueue, sideWorker>>
closeVars == <<logClosed, sideClosed>>
mainVars == <<phase, stopping, clean, drained, stableTicks>>
queueVars == <<intakeVars, workerVars, closeVars, mainVars>>

NoBatch == [stage |-> "idle", batch |-> {}, left |-> 0]
Gone == [stage |-> "gone", batch |-> {}, left |-> 0]

Init == /\ request = [b \in Batches |-> "unsent"]
        /\ logQueue = <<>>
        /\ outcome = [b \in Batches |-> "none"]
        /\ logClosed = FALSE
        /\ worker = [w \in LogWorkers |-> NoBatch]
        /\ sideQueue = 0
        /\ sideClosed = FALSE
        /\ sideWorker = [s \in SideWorkers |-> "idle"]
        /\ phase = "serving"
        /\ stopping = FALSE
        /\ clean = FALSE
        /\ drained = FALSE
        /\ stableTicks = 0

Running == phase # "stopped"

-----------------------------------------------------------------------------
(* The HTTP handler, handleProcessLogEntries. *)

\* The listener takes a request only until srv.Shutdown closes it.
StartRequest(b) == /\ phase = "serving"
                   /\ request[b] = "unsent"
                   /\ request' = [request EXCEPT ![b] = "handling"]
                   /\ UNCHANGED <<logQueue, outcome, workerVars, closeVars, mainVars>>

\* The agent sends a refused batch once more.
Resend(b) == /\ request[b] = "refused"
             /\ phase = "serving"
             /\ request' = [request EXCEPT ![b] = "unsent"]
             /\ UNCHANGED <<logQueue, outcome, workerVars, closeVars, mainVars>>

FaultyHasRoom == Len(logQueue) <= LogCap
\* The select of EnqueueEntries finds a free slot.
HasRoom == Len(logQueue) < LogCap

\* EnqueueEntries and the answer made of it.  On a closed channel the send
\* panics, the deferred recover swallows it and the error result is nil: the
\* agent is told 202 and the batch is gone.
EnqueueEntries(b) ==
    /\ Running
    /\ request[b] = "handling"
    /\ \/ /\ logClosed
          /\ request' = [request EXCEPT ![b] = "accepted"]
          /\ outcome' = [outcome EXCEPT ![b] = "abandoned"]
          /\ UNCHANGED logQueue
       \/ /\ ~logClosed
          /\ HasRoom
          /\ request' = [request EXCEPT ![b] = "accepted"]
          /\ logQueue' = Append(logQueue, b)
          /\ UNCHANGED outcome
       \/ /\ ~logClosed
          /\ ~HasRoom
          /\ request' = [request EXCEPT ![b] = "refused"]
          /\ UNCHANGED <<logQueue, outcome>>
    /\ UNCHANGED <<workerVars, closeVars, mainVars>>

-----------------------------------------------------------------------------
(* The log workers, StartWorkerPool and ProcessEntries. *)

TakeBatch(w) == /\ worker[w].stage = "idle"
                /\ logQueue # <<>>
                /\ worker' = [worker EXCEPT ![w] =
                        [stage |-> "batch", batch |-> {Head(logQueue)}, left |-> BatchSize]]
                /\ logQueue' = Tail(logQueue)
                /\ UNCHANGED <<request, outcome, sideQueue, sideWorker, closeVars, mainVars>>

\* Between two entries the worker looks at ctx and, when it is cancelled,
\* gives up what is left of the batch.
BeginEntry(w) == /\ worker[w].stage = "batch"
                 /\ worker[w].left > 0
                 /\ ~stopping
                 /\ worker' = [worker EXCEPT ![w].stage = "entry"]
                 /\ UNCHANGED <<intakeVars, sideQueue, sideWorker, closeVars, mainVars>>

FaultyMayGiveUp == TRUE
MayGiveUp == stopping

EndBatch(w, result) == /\ worker' = [worker EXCEPT ![w] = NoBatch]
                       /\ outcome' = [b \in Batches |-> IF b \in worker[w].batch
                                                        THEN result ELSE outcome[b]]
                       /\ UNCHANGED <<request, logQueue, sideQueue, sideWorker,
                                      closeVars, mainVars>>

AbandonBatch(w) == /\ worker[w].stage = "batch"
                   /\ worker[w].left > 0
                   /\ MayGiveUp
                   /\ EndBatch(w, "abandoned")

FinishBatch(w) == /\ worker[w].stage = "batch"
                  /\ worker[w].left = 0
                  /\ EndBatch(w, "done")

\* processSingleEntry returns; it may have handed a task to
\* enqueueSideEffectTask, which drops it when the channel is full or closed.
FinishEntry(w) == /\ worker[w].stage = "entry"
                  /\ worker' = [worker EXCEPT ![w].stage = "batch", ![w].left = @ - 1]
                  /\ \/ UNCHANGED sideQueue
                     \/ /\ ~sideClosed
                        /\ sideQueue < SideCap
                        /\ sideQueue' = sideQueue + 1
                  /\ UNCHANGED <<intakeVars, sideWorker, closeVars, mainVars>>

\* range over a closed channel ends once it is empty.
ExitLogWorker(w) == /\ worker[w].stage = "idle"
                    /\ logClosed
                    /\ logQueue = <<>>
                    /\ worker' = [worker EXCEPT ![w] = Gone]
                    /\ UNCHANGED <<intakeVars, sideQueue, sideWorker, closeVars, mainVars>>

-----------------------------------------------------------------------------
(* The side-effect workers, StartSideEffectWorkerPool. *)

\* A task taken after the cancellation is dropped, an earlier one is run.
TakeTask(s) == /\ sideWorker[s] = "idle"
               /\ sideQueue > 0
               /\ sideQueue' = sideQueue - 1
               /\ sideWorker' = [sideWorker EXCEPT ![s] = IF stopping THEN "idle" ELSE "task"]
               /\ UNCHANGED <<intakeVars, worker, closeVars, mainVars>>

FinishTask(s) == /\ sideWorker[s] = "task"
                 /\ sideWorker' = [sideWorker EXCEPT ![s] = "idle"]
                 /\ UNCHANGED <<intakeVars, worker, sideQueue, closeVars, mainVars>>

ExitSideWorker(s) == /\ sideWorker[s] = "idle"
                     /\ sideClosed
                     /\ sideQueue = 0
                     /\ sideWorker' = [sideWorker EXCEPT ![s] = "gone"]
                     /\ UNCHANGED <<intakeVars, worker, sideQueue, closeVars, mainVars>>

CloseLog == /\ stopping
            /\ ~logClosed
            /\ logClosed' = TRUE
            /\ UNCHANGED <<intakeVars, workerVars, sideClosed, mainVars>>

CloseSide == /\ stopping
             /\ ~sideClosed
             /\ sideClosed' = TRUE
             /\ UNCHANGED <<intakeVars, workerVars, logClosed, mainVars>>

-----------------------------------------------------------------------------
(* The shutdown in main. *)

Signal == /\ phase = "serving"
          /\ phase' = "shutting"
          /\ UNCHANGED <<intakeVars, workerVars, closeVars, stopping, clean, drained,
                         stableTicks>>

Handling == {b \in Batches : request[b] = "handling"}

FaultyServerQuiet == TRUE
\* srv.Shutdown returns nil once no connection is active.
ServerQuiet == Handling = {}

ShutdownDone == /\ phase = "shutting"
                /\ ServerQuiet
                /\ phase' = "draining"
                /\ clean' = TRUE
                /\ UNCHANGED <<intakeVars, workerVars, closeVars, stopping, drained,
                               stableTicks>>

\* Without a deadline on its context srv.Shutdown waits for the handlers.
FaultyShutdownTimeout == /\ phase = "shutting"
                         /\ Handling = {}
                         /\ phase' = "draining"
                         /\ UNCHANGED <<intakeVars, workerVars, closeVars, stopping,
                                        clean, drained, stableTicks>>
\* After 10 s main goes on while the handlers keep running.
ShutdownTimeout == /\ phase = "shutting"
                   /\ Handling # {}
                   /\ phase' = "draining"
                   /\ UNCHANGED <<intakeVars, workerVars, closeVars, stopping, clean,
                                  drained, stableTicks>>

FaultyQueuesEmpty == sideQueue = 0
QueuesEmpty == logQueue = <<>> /\ sideQueue = 0

\* One look of WaitDrained at the lengths of the channels.
DrainTick == /\ phase = "draining"
             /\ stableTicks' = IF QueuesEmpty THEN stableTicks + 1 ELSE 0
             /\ drained' = (stableTicks' >= StableRequired)
             /\ phase' = IF drained' THEN "drained" ELSE "draining"
             /\ UNCHANGED <<intakeVars, workerVars, closeVars, stopping, clean>>

DrainTimeout == /\ phase = "draining"
                /\ phase' = "drained"
                /\ UNCHANGED <<intakeVars, workerVars, closeVars, stopping, clean, drained,
                               stableTicks>>

Cancel == /\ phase = "drained"
          /\ phase' = "waiting"
          /\ stopping' = TRUE
          /\ UNCHANGED <<intakeVars, workerVars, closeVars, clean, drained, stableTicks>>

\* wg.Wait: each pool returns when it has closed its channel and all its
\* workers have left.
Stop == /\ phase = "waiting"
        /\ logClosed
        /\ sideClosed
        /\ \A w \in LogWorkers : worker[w].stage = "gone"
        /\ \A s \in SideWorkers : sideWorker[s] = "gone"
        /\ phase' = "stopped"
        /\ UNCHANGED <<intakeVars, workerVars, closeVars, stopping, clean, drained,
                       stableTicks>>

Terminated == phase = "stopped" /\ UNCHANGED queueVars

-----------------------------------------------------------------------------
RequestStep(b) == StartRequest(b) \/ Resend(b) \/ EnqueueEntries(b)
LogWorkerStep(w) == \/ TakeBatch(w) \/ BeginEntry(w) \/ FinishEntry(w)
                    \/ AbandonBatch(w) \/ FinishBatch(w) \/ ExitLogWorker(w)
SideWorkerStep(s) == TakeTask(s) \/ FinishTask(s) \/ ExitSideWorker(s)
MainStep == \/ Signal \/ ShutdownDone \/ ShutdownTimeout \/ DrainTick
            \/ DrainTimeout \/ Cancel \/ Stop

Next == \/ \E b \in Batches : RequestStep(b)
        \/ \E w \in LogWorkers : LogWorkerStep(w)
        \/ \E s \in SideWorkers : SideWorkerStep(s)
        \/ MainStep
        \/ CloseLog
        \/ CloseSide
        \/ Terminated

Spec == Init /\ [][Next]_queueVars


-----------------------------------------------------------------------------
Requests == {"unsent", "handling", "accepted", "refused"}
Phases == {"serving", "shutting", "draining", "drained", "waiting", "stopped"}

TypeOK == /\ request \in [Batches -> Requests]
          /\ logQueue \in Seq(Batches)
          /\ Len(logQueue) <= LogCap
          /\ outcome \in [Batches -> {"none", "done", "abandoned"}]
          /\ logClosed \in BOOLEAN
          /\ sideClosed \in BOOLEAN
          /\ worker \in [LogWorkers -> [stage : {"idle", "batch", "entry", "gone"},
                                        batch : SUBSET Batches,
                                        left : 0..BatchSize]]
          /\ sideQueue \in 0..SideCap
          /\ sideWorker \in [SideWorkers -> {"idle", "task", "gone"}]
          /\ phase \in Phases
          /\ stopping \in BOOLEAN
          /\ clean \in BOOLEAN
          /\ drained \in BOOLEAN
          /\ stableTicks \in 0..StableRequired

\* A shutdown in which the server went quiet and WaitDrained reported empty
\* queues leaves no accepted batch unread: none waits in the channel when the
\* workers are cancelled, and none is lost to the recover of EnqueueEntries.
\* (A batch that a worker was inside of may still be cut short.)
CleanDrain ==
    clean /\ drained =>
        /\ logQueue = <<>>
        /\ Handling = {}
        /\ \A b \in Batches : request[b] = "accepted" /\ outcome[b] = "none" =>
               \E w \in LogWorkers : worker[w].batch = {b}

\* The intake implements BatchDelivery: a batch is answered once, worked
\* through once, and given up only by a service that is stopping.
Fate(b) == CASE request[b] = "refused" -> "refused"
             [] request[b] \in {"unsent", "handling"} -> "offered"
             [] OTHER -> IF outcome[b] = "none" THEN "accepted" ELSE outcome[b]

Delivery == INSTANCE BatchDelivery WITH fate <- [b \in Batches |-> Fate(b)]
ImplementsDelivery == Delivery!Spec

\* A service that was told to stop does stop: no pool waits on a worker that
\* waits on a channel, whatever was queued and whenever it was closed.
ShutdownEnds == []<>(phase \in {"serving", "stopped"})
=============================================================================
