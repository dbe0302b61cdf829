--------------------------- MODULE EntryProcessing ---------------------------
(***************************************************************************)
(* What processSingleEntry makes of the log entries of one user: the       *)
(* event in memory, the record in the registry, the count of independent   *)
(* sources, the block, the side tasks it queues and the clear that a timer *)
(* brings later.  Several workers handle entries of the user at once.  The *)
(* registry is the one of AddressWindow, whose actions are used here as    *)
(* they stand (IPRegistry shows that the Redis script implements them).    *)
(* The script answers by the addresses of the registry, while the block is *)
(* decided by the sources seen lately; SourceCount looks at their count    *)
(* alone.  The sharing detector appears as the standing it may give the    *)
(* user at each update; SharingDetector is its own module.                 *)
(* A tick is long against a side task, while a worker may spend up to      *)
(* MaxLag ticks in an entry (the publisher's retries).                     *)
(* The history of events, the alert and the count of blocks, which change  *)
(* nothing here, are left out, and so are the sources of an answer other   *)
(* than "block", which only the detector reads.                            *)
(* Operators named Faulty... are wrong variants of the next definition.    *)
(***************************************************************************)
EXTENDS Integers, Sequences, FiniteSets

CONSTANTS Workers,      \* log workers
          IPs,          \* addresses the user connects from
          NetOf,        \* sharingSourceKey: the /24 of each address
          MobileNetOf,  \* sharingMobileSourceKey of each address
          Excluded,     \* cfg.ExcludedIPs
          Limit,        \* the user's limit
          TTL,          \* cfg.UserIPTTL
          Cooldown,     \* cfg.AlertCooldown
          ClearDelay,   \* cfg.ClearIPsDelay
          SourceWindow, \* cfg.SharingSourceWindow
          HeuristicsWindow, \* cfg.HeuristicsWindow
          Required,     \* standing a block needs: "none", "violator", "banlist"
          MaxLag,       \* ticks an entry may take
          MaxFaults     \* bound on the failures

ASSUME EntryAssumption == /\ IsFiniteSet(Workers)
                          /\ IsFiniteSet(IPs)
                          /\ Limit \in Nat
                          /\ TTL \in Nat \ {0}
                          /\ Cooldown \in Nat \ {0}  \* SETEX refuses 0
                          /\ ClearDelay \in Nat
                          /\ SourceWindow \in Nat
                          /\ HeuristicsWindow \in Nat
                          /\ Required \in {"none", "violator", "banlist"}
                          /\ MaxLag \in Nat
                          /\ MaxFaults \in Nat

VARIABLES window, cooling, answer,  \* the registry (AddressWindow)
          recent,      \* recentEvents: age of the latest event of each address
          stage,       \* where each worker is in its entry
          entry,       \* the address of the entry, until it is counted
          lag,         \* ticks it has spent on the entry
          sources,     \* the sources it has counted
          standing,    \* the user's standing with the detector
          lastBlocked, \* lastBlockedIPs
          clears,      \* clear tasks of the user in sideEffectChannel
          timers,      \* time left of each clear that is scheduled
          faults,      \* failures so far
          charged,     \* history: addresses of the last block not seen since
          stale,       \* history: answers "block" that named such an address,
                       \* since the last clear
          unclear,     \* history: a clear owed for a block was lost
          sighted,     \* history: an entry was recorded in this tick
          overdue      \* history: ticks the user has offended without a block

registryVars == <<window, cooling, answer>>
workerVars == <<stage, entry, lag, sources>>
taskVars == <<clears, timers>>
historyVars == <<charged, stale, unclear, sighted, overdue>>
entryVars == <<registryVars, recent, workerVars, standing, lastBlocked, taskVars, faults,
               historyVars>>

Registry == INSTANCE AddressWindow WITH Clients <- Workers, TTLs <- {TTL},
                                        MayForget <- FALSE, MayRetime <- FALSE

Nobody == "nobody"
Gone == SourceWindow + MaxLag + 1

Init == /\ Registry!Init
        /\ recent = [i \in IPs |-> Gone]
        /\ stage = [w \in Workers |-> "idle"]
        /\ entry = [w \in Workers |-> Nobody]
        /\ lag = [w \in Workers |-> 0]
        /\ sources = [w \in Workers |-> 0]
        /\ standing = "none"
        /\ lastBlocked = {}
        /\ clears = 0
        /\ timers = <<>>
        /\ faults = 0
        /\ charged = {}
        /\ stale = 0
        /\ unclear = FALSE
        /\ sighted = FALSE
        /\ overdue = 0

Live == {i \in IPs : window[i] > 0}

\* The independent sources among addresses of which those in mobile are
\* classified as mobile.
Sources(ips, mobile) ==
    Cardinality({IF i \in mobile THEN MobileNetOf[i] ELSE NetOf[i] : i \in ips})

\* The standing the configuration asks for before a user is blocked.
Suffices == CASE Required = "none" -> TRUE
              [] Required = "violator" -> standing # "none"
              [] OTHER -> standing = "banlist"

FaultyBlockable(ips) == ips
\* filterExcludedIPs
Blockable(ips) == ips \ Excluded

\* More sources than allowed, whatever the addresses are classified as.
OverLimit(ips) == \A mobile \in SUBSET ips : Sources(ips, mobile) > Limit

\* Seen lately enough to be counted by an entry that begins now.
Fresh == {i \in IPs : /\ recent[i] + MaxLag <= SourceWindow
                      /\ recent[i] + MaxLag <= HeuristicsWindow}

Overdue == Cooldown + MaxLag
Offending == /\ OverLimit(Live \cap Fresh)
             /\ Blockable(Live) # {}
             /\ Suffices

\* The user's offence goes on, unless excused ends the wait for a block.
Watch(excused) == overdue' = IF Offending' /\ ~excused THEN overdue ELSE 0

EndEntry(w) == /\ stage' = [stage EXCEPT ![w] = "idle"]
               /\ entry' = [entry EXCEPT ![w] = Nobody]
               /\ lag' = [lag EXCEPT ![w] = 0]
               /\ sources' = [sources EXCEPT ![w] = 0]
GoOn(w, next) == /\ stage' = [stage EXCEPT ![w] = next]
                 /\ UNCHANGED <<entry, lag, sources>>

Fault == faults < MaxFaults /\ faults' = faults + 1

-----------------------------------------------------------------------------
(* The worker. *)

\* pruneEventsLocked
Pruned(age) == IF age <= HeuristicsWindow THEN age ELSE Gone

\* recordUserEvent, under eventsMu.
RecordEvent(w, i) ==
    /\ stage[w] = "idle"
    /\ stage' = [stage EXCEPT ![w] = "recorded"]
    /\ entry' = [entry EXCEPT ![w] = i]
    /\ recent' = [j \in IPs |-> IF j = i THEN 0 ELSE Pruned(recent[j])]
    /\ UNCHANGED <<registryVars, lag, sources, standing, lastBlocked, taskVars, faults,
                   charged, stale, unclear, sighted>>
    /\ Watch(FALSE)

\* The script's answer.  charged and stale: has the user been blocked before
\* on what the answer names?
CheckAndAddIP(w) ==
    /\ stage[w] = "recorded"
    /\ Registry!Sight(w, entry[w], TTL)
    /\ answer'[w] # Registry!NoAnswer
    /\ GoOn(w, IF answer'[w].status = "block" THEN "count" ELSE "update")
    /\ charged' = charged \ {entry[w]}
    /\ stale' = IF /\ answer'[w].status = "block"
                   /\ answer'[w].ips \cap charged' # {}
                   /\ ~unclear
                THEN stale + 1 ELSE stale
    /\ sighted' = TRUE
    /\ UNCHANGED <<recent, standing, lastBlocked, taskVars, faults, unclear>>
    /\ Watch(FALSE)

\* The reply is lost, and with it the block it may grant: the client sends
\* the script again, or the entry ends.  (A script that did not run leaves
\* no trace.)
FailScript(w) ==
    /\ stage[w] = "recorded"
    /\ Fault
    /\ Registry!Sight(w, entry[w], TTL)
    /\ answer' = answer
    /\ EndEntry(w) \/ UNCHANGED workerVars
    /\ charged' = charged \ {entry[w]}
    /\ UNCHANGED <<recent, standing, lastBlocked, taskVars, stale, unclear, sighted>>
    /\ Watch(TRUE)

\* What worker w, whose time is now read ticks old, takes in: the addresses
\* of the answer that were seen within SourceWindow of it, and its own.
TakenIn(w, read) ==
    {i \in answer[w].ips : recent[i] <= SourceWindow + read} \cup {entry[w]}

\* countEffectiveSharingSources, with the time read since the entry began.
\* The own address always counts, so that there is no need to fall back on
\* the number of addresses.
CountSources(w) ==
    /\ stage[w] = "count"
    /\ stage' = [stage EXCEPT ![w] = "update"]
    /\ entry' = [entry EXCEPT ![w] = Nobody]
    /\ \E read \in 0..lag[w] : \E mobile \in SUBSET TakenIn(w, read) :
         sources' = [sources EXCEPT ![w] = Sources(TakenIn(w, read), mobile)]
    /\ UNCHANGED <<registryVars, recent, lag, standing, lastBlocked, taskVars, faults,
                   historyVars>>

\* updateSharingStatus; an answer other than "block" ends the entry there.
UpdateStanding(w) ==
    /\ stage[w] = "update"
    /\ standing' \in {"none", "violator", "banlist"}
    /\ IF answer[w].status = "block"
       THEN GoOn(w, "decide") /\ UNCHANGED registryVars
       ELSE EndEntry(w) /\ Registry!Consume(w)
    /\ UNCHANGED <<recent, lastBlocked, taskVars, faults, charged, stale, unclear, sighted>>
    /\ Watch(FALSE)

\* limit_exceeded_ignored, sharing_pending(_banlist) and block_skipped: the
\* cooldown is spent, nothing is blocked, nobody is alerted.
FaultyDeclines(w) == \/ sources[w] <= Limit
                     \/ standing # "banlist"
                     \/ Blockable(answer[w].ips) = {}
Declines(w) == \/ sources[w] <= Limit
               \/ ~Suffices
               \/ Blockable(answer[w].ips) = {}

Decide(w) ==
    /\ stage[w] = "decide"
    /\ IF Declines(w)
       THEN EndEntry(w) /\ Registry!Consume(w)
       ELSE GoOn(w, "publish") /\ UNCHANGED registryVars
    /\ UNCHANGED <<recent, standing, lastBlocked, taskVars, faults, charged, stale, unclear,
                   sighted>>
    /\ Watch(~Declines(w))

\* A block goes without its clear: what it named may be used at will.
LoseClear == unclear' = TRUE /\ stale' = 0

FaultyQueued == clears
\* The channel takes one more clear.
Queued == clears + 1

\* BlockIPs returned nil: the addresses are remembered and three tasks go to
\* enqueueSideEffectTask, the clear first.  The tasks of all users share the
\* channel, and a full one drops the clear.
PublishBlock(w) ==
    /\ stage[w] = "publish"
    /\ lastBlocked' = Blockable(answer[w].ips)
    /\ \/ clears' = Queued /\ UNCHANGED <<stale, unclear>>
       \/ LoseClear /\ UNCHANGED clears
    /\ charged' = Live
    /\ EndEntry(w)
    /\ Registry!Consume(w)
    /\ UNCHANGED <<recent, standing, timers, faults, sighted>>
    /\ Watch(TRUE)

\* BlockIPs failed after its retries: only the alert goes out.
FailBlock(w) ==
    /\ stage[w] = "publish"
    /\ Fault
    /\ EndEntry(w)
    /\ Registry!Consume(w)
    /\ UNCHANGED <<recent, standing, lastBlocked, taskVars, charged, stale, unclear, sighted>>
    /\ Watch(TRUE)

-----------------------------------------------------------------------------
(* Side tasks, the timer of the clear, the administrator, restarts, time. *)

\* scheduleIPsClear starts a timer.
RunTask == /\ clears > 0
           /\ clears' = clears - 1
           /\ timers' = Append(timers, ClearDelay)
           /\ UNCHANGED <<registryVars, recent, workerVars, standing, lastBlocked, faults,
                          historyVars>>

Due == timers # <<>> /\ Head(timers) = 0

FaultyFireClear == /\ Due
                   /\ timers' = Tail(timers)
                   /\ UNCHANGED <<registryVars, recent, workerVars, standing, lastBlocked,
                                  clears, faults, historyVars>>
\* ClearUserIPs when the time has come and ctx still lives.
FireClear == /\ Due
             /\ timers' = Tail(timers)
             /\ Registry!Clear
             /\ charged' = {}
             /\ stale' = 0
             /\ unclear' = FALSE
             /\ UNCHANGED <<recent, workerVars, standing, lastBlocked, clears, faults, sighted>>
             /\ Watch(FALSE)

\* clear_failed: the clear is not tried again.
FailClear == /\ Due
             /\ Fault
             /\ timers' = Tail(timers)
             /\ LoseClear
             /\ UNCHANGED <<registryVars, recent, workerVars, standing, lastBlocked, clears,
                            charged, sighted, overdue>>

\* handleManualUnblock and handleManualClear end in ResetSharingState.
ResetSharingState == /\ standing # "none"
                     /\ standing' = "none"
                     /\ UNCHANGED <<registryVars, recent, workerVars, lastBlocked, taskVars,
                                    faults, charged, stale, unclear, sighted>>
                     /\ Watch(FALSE)

\* Redis survives a restart, the memory of the service does not: events,
\* entries in hand, tasks, timers and the standing are gone.
Restart == /\ Fault
           /\ answer' = [w \in Workers |-> Registry!NoAnswer]
           /\ recent' = [i \in IPs |-> Gone]
           /\ stage' = [w \in Workers |-> "idle"]
           /\ entry' = [w \in Workers |-> Nobody]
           /\ lag' = [w \in Workers |-> 0]
           /\ sources' = [w \in Workers |-> 0]
           /\ standing' = "none"
           /\ lastBlocked' = {}
           /\ clears' = 0
           /\ timers' = <<>>
           /\ LoseClear
           /\ UNCHANGED <<window, cooling, charged, sighted>>
           /\ Watch(TRUE)

Busy(w) == stage[w] # "idle"

Tick == /\ \A w \in Workers : Busy(w) => lag[w] < MaxLag
        /\ clears = 0
        /\ ~Due
        /\ Registry!Tick({})
        /\ recent' = [i \in IPs |-> IF recent[i] < Gone THEN recent[i] + 1 ELSE Gone]
        /\ timers' = [k \in DOMAIN timers |-> timers[k] - 1]
        /\ lag' = [w \in Workers |-> IF Busy(w) THEN lag[w] + 1 ELSE 0]
        /\ sighted' = FALSE
        /\ UNCHANGED <<stage, entry, sources, standing, lastBlocked, clears, faults, charged,
                       stale, unclear>>
        /\ overdue' = IF Offending' /\ sighted
                      THEN IF overdue > Overdue THEN overdue ELSE overdue + 1
                      ELSE 0

WorkerStep(w) == \/ CheckAndAddIP(w)
                 \/ CountSources(w)
                 \/ UpdateStanding(w)
                 \/ Decide(w)
                 \/ PublishBlock(w)
Next == \/ \E w \in Workers : \/ \E i \in IPs : RecordEvent(w, i)
                              \/ WorkerStep(w)
                              \/ FailScript(w)
                              \/ FailBlock(w)
        \/ RunTask
        \/ FireClear
        \/ FailClear
        \/ ResetSharingState
        \/ Restart
        \/ Tick

Spec == Init /\ [][Next]_entryVars

-----------------------------------------------------------------------------
TypeOK == /\ window \in [IPs -> 0..TTL]
          /\ cooling \in 0..Cooldown
          /\ \A w \in Workers : answer[w].ips \subseteq IPs
          /\ recent \in [IPs -> 0..Gone]
          /\ stage \in [Workers ->
                          {"idle", "recorded", "count", "update", "decide", "publish"}]
          /\ entry \in [Workers -> IPs \cup {Nobody}]
          /\ lag \in [Workers -> 0..MaxLag]
          /\ sources \in [Workers -> Nat]
          /\ standing \in {"none", "violator", "banlist"}
          /\ lastBlocked \subseteq IPs \ Excluded
          /\ clears \in Nat
          /\ timers \in Seq(0..ClearDelay)
          /\ faults \in 0..MaxFaults
          /\ charged \subseteq IPs
          /\ stale \in Nat
          /\ unclear \in BOOLEAN
          /\ sighted \in BOOLEAN
          /\ overdue \in 0..(Overdue + 1)

\* How often a user may be blocked on the same evidence.  The delayed clear
\* of a block empties the registry, but the next answer "block" need not wait
\* for it: with the cooldown as long as the delay (.env.example ships 30 s for
\* both) an answer may name addresses that were not seen since the last block.
\* There are no more such answers than cooldowns fit into the time from an
\* answer to the clear of its block: none if the cooldown is longer than that,
\* one if not twice as long.  Only a clear that was lost (a full channel, a
\* Redis error, a restart) lets old evidence be used for more.
StaleEvidenceBounded == stale * Cooldown <= ClearDelay + MaxLag

\* The cooldown the script spends on entries that are then ignored, pending
\* or skipped delays a block but cannot prevent it: a user who offends for
\* good, with too many sources seen lately, and is seen in every tick is
\* blocked before another cooldown and the time of one entry have passed.
OffenderBlockedInTime == overdue <= Overdue
=============================================================================
