------------------------------ MODULE Services ------------------------------
(***************************************************************************)
(* The components of the server that share no state with one another, side *)
(* by side: one of them runs in each behaviour and the others stay as they *)
(* are, so that one run of the model checker covers them all.              *)
(* Here also stands the fairness of each, which its scheduling justifies.  *)
(***************************************************************************)
EXTENDS Naturals

VARIABLE part \* the component that runs

\* WorkQueues: intake, worker pools, shutdown.
CONSTANTS Batches, LogWorkers, SideWorkers, LogCap, SideCap, BatchSize, StableRequired
VARIABLES request, logQueue, logClosed, worker, outcome, sideQueue, sideClosed,
          sideWorker, phase, stopping, clean, drained, stableTicks
queueVars == <<request, logQueue, logClosed, worker, outcome, sideQueue, sideClosed,
               sideWorker, phase, stopping, clean, drained, stableTicks>>
WQ == INSTANCE WorkQueues

\* WsHub: the panels' refreshes.
CONSTANTS Panels, SendCap, MaxEvents
VARIABLES notified, debounce, conn, member, pending, sealed, writer, stale, events, panicked
hubVars == <<notified, debounce, conn, member, pending, sealed, writer, stale,
             events, panicked>>
Hub == INSTANCE WsHub

\* Publisher: the connection to the broker.
CONSTANTS Callers, Pingers, MaxTries, MaxOutages
VARIABLES call, holder, tries, dials, link, broker, outages, routed
pubVars == <<call, holder, tries, dials, link, broker, outages, routed>>
Pub == INSTANCE Publisher

\* RuntimeConfig: the overrides of the settings.
CONSTANTS Admins, Settings, Own, Least, Most, Base, MaxValue, None, MaxRequests
VARIABLES saved, live, effective, own, asking, wanted, writing, requests, disturbed, torn
configVars == <<saved, live, effective, own, asking, wanted, writing, requests,
                disturbed, torn>>
Config == INSTANCE RuntimeConfig

\* PanelLogin: logins and sessions.
CONSTANTS Logins, MaxFailures, LockTime, KeepTime, SessionTTL, Tokens
VARIABLES failures, lockLeft, login, session
loginVars == <<failures, lockLeft, login, session>>
Entrance == INSTANCE PanelLogin

\* PanelCache: the users' limits.
CONSTANTS Users, FirstUsers, Limits, FirstLimit, PageSize, Ticker, Handlers, ReqTries, MaxEdits,
          MaxFaults
VARIABLES panel, wrapped, known, loaded, loader, reading, offset, attempt, fetched, had,
          edits, faults, cut
panelVars == <<panel, wrapped, known, loaded, loader, reading, offset, attempt, fetched, had,
               edits, faults, cut>>
Cache == INSTANCE PanelCache

\* NodeHealth: the nodes that are online.
CONSTANTS Every, Timeout, MaxDelay, MaxQueued, MaxBacklog
VARIABLES alive, dead, reporter, reporting, nextBeat, reports, beatAge, trafficAge, entryAge,
          backlog, up
healthVars == <<alive, dead, reporter, reporting, nextBeat, reports, beatAge, trafficAge,
                entryAge, backlog, up>>
Health == INSTANCE NodeHealth

\* SourceCount: the independent sources of a user.
CONSTANTS Recorders, Places, NetOf, MobileNetOf, SourceWindow, HeuristicsWindow, MaxWait
VARIABLES recent, truth, handling, read, active, seen, sources
sourceVars == <<recent, truth, handling, read, active, seen, sources>>
Count == INSTANCE SourceCount

\* NodeCommands: a command on several nodes.
CONSTANTS Targets, MaxParallel
VARIABLES asked, left, task, exited, linked, readers, result
commandVars == <<asked, left, task, exited, linked, readers, result>>
Commands == INSTANCE NodeCommands

\* SshTerminal: one terminal.
VARIABLES handler, socket, shell, printer, typist
terminalVars == <<handler, socket, shell, printer, typist>>
Terminal == INSTANCE SshTerminal

ASSUME ServicesAssumption == /\ WQ!QueueAssumption
                             /\ Hub!HubAssumption
                             /\ Pub!PublisherAssumption
                             /\ Config!ConfigAssumption
                             /\ Entrance!LoginAssumption
                             /\ Cache!PanelAssumption
                             /\ Health!HealthAssumption
                             /\ Count!SourceAssumption
                             /\ Commands!CommandAssumption
                             /\ LogWorkers \cap SideWorkers = {}

vars == <<part, queueVars, hubVars, pubVars, configVars, loginVars, panelVars, healthVars,
          sourceVars, commandVars, terminalVars>>

-----------------------------------------------------------------------------
Parts == {"queues", "hub", "publisher", "config", "login", "cache", "health", "count",
          "commands", "terminal"}

\* Which form the panel answers in matters to the cache only.
Init == /\ part \in Parts
        /\ WQ!Init /\ Hub!Init /\ Pub!Init /\ Config!Init
        /\ Entrance!Init /\ Cache!Init /\ Health!Init /\ Count!Init
        /\ Commands!Init /\ Terminal!Init
        /\ part # "cache" => wrapped

\* Only the component that runs takes steps.
OthersRest == /\ UNCHANGED part
              /\ part # "queues" => UNCHANGED queueVars
              /\ part # "hub" => UNCHANGED hubVars
              /\ part # "publisher" => UNCHANGED pubVars
              /\ part # "config" => UNCHANGED configVars
              /\ part # "login" => UNCHANGED loginVars
              /\ part # "cache" => UNCHANGED panelVars
              /\ part # "health" => UNCHANGED healthVars
              /\ part # "count" => UNCHANGED sourceVars
              /\ part # "commands" => UNCHANGED commandVars
              /\ part # "terminal" => UNCHANGED terminalVars

QueuesStep == part = "queues" /\ WQ!Next /\ OthersRest
HubStep == part = "hub" /\ Hub!Next /\ OthersRest
PublisherStep == part = "publisher" /\ Pub!Next /\ OthersRest
ConfigStep == part = "config" /\ Config!Next /\ OthersRest
LoginStep == part = "login" /\ Entrance!Next /\ OthersRest
CacheStep == part = "cache" /\ Cache!Next /\ OthersRest
HealthStep == part = "health" /\ Health!Next /\ OthersRest
CountStep == part = "count" /\ Count!Next /\ OthersRest
CommandsStep == part = "commands" /\ Commands!Next /\ OthersRest
TerminalStep == part = "terminal" /\ Terminal!Next /\ OthersRest

\* The bounds of Publisher let each caller call once; one command is run and
\* one terminal opened.
AllOver == /\ \/ part = "publisher" /\ \A c \in Callers \cup Pingers : call[c] \in Pub!Answered
              \/ part = "commands" /\ asked = "answered"
              \/ part = "terminal" /\ handler = "ended"
           /\ UNCHANGED vars

Next == \/ QueuesStep \/ HubStep \/ PublisherStep \/ ConfigStep
        \/ LoginStep \/ CacheStep \/ HealthStep \/ CountStep
        \/ CommandsStep \/ TerminalStep
        \/ AllOver

-----------------------------------------------------------------------------
(* Fairness: a step of the component that runs is taken if it stays possible. *)
(* A disjunction joins what different components promise: only one of them   *)
(* runs in a behaviour.                                                      *)

Goroutines == LogWorkers \cup SideWorkers \cup Panels \cup Callers \cup Pingers
                \cup Handlers \cup Targets

\* What main still has to do; the queues need not become empty for WaitDrained
\* to give up.
MainProgress == \/ WQ!ShutdownDone \/ WQ!ShutdownTimeout
                \/ WQ!DrainTimeout \/ WQ!Cancel \/ WQ!Stop

\* Main, the loop of the hub and its timer, the ticker of the panel's client
\* (a request to the panel ends within its timeout), the handlers of a command
\* and of a terminal (an SSH handshake ends one way or the other).
LoopStep == \/ part = "queues" /\ MainProgress
            \/ part = "hub" /\ (Hub!TakeToken \/ Hub!Quiet)
            \/ part = "cache" /\ (Cache!Ask(Ticker) \/ Cache!Reload(Ticker))
            \/ part = "commands" /\ Commands!Answer
            \/ part = "terminal" /\ (Terminal!Connect \/ Terminal!HandlerStep)

\* The goroutines that close the channels, the heartbeat, the printer (the
\* network has deadlines)...
HelperStep == \/ part = "queues" /\ (WQ!CloseLog \/ WQ!CloseSide)
              \/ part = "hub" /\ Hub!Heartbeat
              \/ part = "terminal" /\ Terminal!PrinterStep

\* ... and the typist; the shell takes its input.
TypistStep == part = "terminal" /\ Terminal!TypistStep

\* Workers, write pumps (a connection may hang open), callers (the broker need
\* not come back), handlers, and the goroutines of a command, which its timer
\* stops: nothing is asked of the command itself.
GoroutineStep(k) ==
    \/ part = "queues" /\ k \in LogWorkers /\ WQ!LogWorkerStep(k)
    \/ part = "queues" /\ k \in SideWorkers /\ WQ!SideWorkerStep(k)
    \/ part = "hub" /\ k \in Panels /\ Hub!Writer(k)
    \/ part = "publisher" /\ k \in Callers \cup Pingers /\ Pub!Attempt(k)
    \/ part = "cache" /\ k \in Handlers /\ Cache!Reload(k)
    \/ part = "commands" /\ k \in Targets /\ Commands!Goroutine(k)

\* Readers meet the end of a connection that is closed.
ReaderStep(k) == /\ part = "commands"
                 /\ k \in Targets
                 /\ \E o \in Commands!Outputs : Commands!EndReader(k, o)

\* A sync.Mutex hands itself to a goroutine that has waited for 1 ms, so none
\* waits for ever while others come and go.
AcquireStep(k) == part = "publisher" /\ k \in Callers \cup Pingers /\ Pub!Acquire(k)

Fairness == /\ WF_vars(LoopStep /\ OthersRest)
            /\ WF_vars(HelperStep /\ OthersRest)
            /\ WF_vars(TypistStep /\ OthersRest)
            /\ \A k \in Goroutines : WF_vars(GoroutineStep(k) /\ OthersRest)
            /\ \A k \in Targets : WF_vars(ReaderStep(k) /\ OthersRest)
            /\ \A k \in Callers \cup Pingers : SF_vars(AcquireStep(k) /\ OthersRest)

Spec == Init /\ [][Next]_vars /\ Fairness

-----------------------------------------------------------------------------
(* The properties, each stated in the module of its component. *)

\* The state of every component has its type.
TypeOK == /\ part \in Parts
          /\ WQ!TypeOK /\ Hub!TypeOK /\ Pub!TypeOK /\ Config!TypeOK
          /\ Entrance!TypeOK /\ Cache!TypeOK /\ Health!TypeOK /\ Count!TypeOK
          /\ Commands!TypeOK /\ Terminal!TypeOK

\* A clean shutdown (main.go) leaves no accepted batch unread in the channel.
CleanDrain == WQ!CleanDrain

\* The intake and its worker pool deliver each batch as BatchDelivery promises.
ImplementsDelivery == WQ!ImplementsDelivery

\* A service told to stop comes to the end of main.
ShutdownEnds == WQ!ShutdownEnds

\* No goroutine of the hub sends on a channel that was closed (ws_hub.go).
NoSendOnClosed == Hub!NoSendOnClosed

\* An open panel hears of every change in the end (ws_hub.go, Run).
PanelsHear == Hub!PanelsHear

\* The copies of a message are contiguous on the exchange (publisher.go).
CopiesContiguous == Pub!CopiesContiguous

\* A caller that waits behind a message being retried gets its answer.
CallsReturn == Pub!CallsReturn

\* The four copies of the overrides agree when requests are through
\* (server.go, applyRuntimeOverrides).
CopiesAgree == Config!CopiesAgree

\* Failures of logins already under way do not prolong a lock (server.go,
\* panelLoginFailed).
LockNotProlonged == Entrance!LockNotProlonged

\* A limit in the cache is one the panel has had during the reload
\* (panel/client.go).
LimitsFromPanel == Cache!LimitsFromPanel

\* The cache catches up with a panel that stops changing.
LimitsCatchUp == part = "cache" => Cache!LimitsCatchUp

\* A running node whose reports arrive is not shown offline (server.go,
\* handleInternalNodeHealth).
AliveIsOnline == Health!AliveIsOnline

\* A dead node is shown offline once its entries are processed.
DeadIsOffline == Health!DeadIsOffline

\* A count of sources takes in the addresses of its window and no others
\* (processor.go, countEffectiveSharingSources).
CountsWindow == Count!CountsWindow

\* A command on several nodes is answered, whatever they do (server.go,
\* handleNodeSSHExec).
CommandsReturn == Commands!CommandsReturn

\* A terminal one side has left ends on both (ssh_terminal.go).
TerminalEnds == Terminal!TerminalEnds
=============================================================================
