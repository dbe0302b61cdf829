----------------------------- MODULE NodeHealth -----------------------------
(***************************************************************************)
(* What the server knows of one node: the heartbeats and the action        *)
(* reports of its blocker, which wait in the queue of reports, the         *)
(* heartbeats of its forwarder, which come over HTTP, and the traffic of   *)
(* its log entries, stamped when they are processed.  The node is shown    *)
(* online while the latest stamp is younger than the timeout.              *)
(*                                                                         *)
(* The blocker reports over a connection of its own, opened once at the    *)
(* start of each of its sessions: when it cannot be opened, or dies, the   *)
(* session goes on without heartbeats, for as long as it lasts.            *)
(*                                                                         *)
(* A stamp is its age, up to Old.  The stamps of blocker and forwarder are *)
(* read off the node's clock and taken as they are: the clocks of node and *)
(* server are assumed to agree.  LastBlockerActionAt is only shown.        *)
(* Operators named Faulty... are wrong variants of the next definition.    *)
(***************************************************************************)
EXTENDS Naturals, Sequences, SequencesExt

CONSTANTS Every,     \* period of the heartbeats (HeartbeatEvery)
          Timeout,   \* NodeHeartbeatTimeout
          MaxDelay,  \* longest time from a report's stamp to its processing,
                     \* while the server runs
          MaxQueued, \* bound on the reports that wait as an action is reported or a
                     \* session begins
          MaxBacklog \* entries of the node still to be processed when it dies

\* What the constants have to satisfy; Services assumes it.
HealthAssumption == /\ Every \in Nat \ {0}
                    /\ MaxDelay \in Nat
                    /\ MaxQueued \in Nat
                    /\ MaxBacklog \in Nat
                    /\ Timeout \in Nat

\* The oldest the latest beat can be while the reports go through: a report is
\* up to MaxDelay old when it is applied, and the next heartbeat is sent
\* within a period and applied within MaxDelay.
LongestGap == Every + 2 * MaxDelay

VARIABLES alive,     \* whether the node and its blocker run
          dead,      \* time since it died
          reporter,  \* whether the session's connection for reports works
          reporting, \* time since it was opened, 0 while it does not work
          nextBeat,  \* time to the next heartbeat, 0 when none is to come
          reports,   \* ages of the stamps of the reports in the queue
          beatAge,   \* age of LastBlockerBeatAt
          trafficAge,\* age of LastTrafficAt
          entryAge,  \* time since an entry of the node was processed
          backlog,   \* entries a dead node has left
          up         \* time since the status consumer connected

healthVars == <<alive, dead, reporter, reporting, nextBeat, reports, beatAge, trafficAge,
                entryAge, backlog, up>>
blockerVars == <<reporter, reporting, nextBeat>>
serverVars == <<beatAge, trafficAge, entryAge, backlog, up>>

\* From this age on a stamp counts as old, whatever the timeout is.
Old == IF Timeout > MaxDelay THEN Timeout ELSE MaxDelay
Older(age) == IF age < Old THEN age + 1 ELSE Old

Init == /\ alive = TRUE
        /\ dead = 0
        /\ reporter = FALSE
        /\ reporting = 0
        /\ nextBeat = 0
        /\ reports = <<>>
        /\ beatAge = Old
        /\ trafficAge = Old
        /\ entryAge = Old
        /\ backlog = MaxBacklog
        /\ up = 0

-----------------------------------------------------------------------------
(* The node. *)

SendBeat == /\ alive
            /\ reporter
            /\ nextBeat = 0
            /\ nextBeat' = Every
            /\ reports' = Append(reports, 0)
            /\ UNCHANGED <<alive, dead, reporter, reporting, serverVars>>

\* The report of a block or unblock carries the time nft returned; it is
\* published when the whole order is carried out.
ReportAction == /\ alive
                /\ reporter
                /\ Len(reports) < MaxQueued
                /\ \E age \in 0..MaxDelay : reports' = Append(reports, age)
                /\ UNCHANGED <<alive, dead, blockerVars, serverVars>>

\* Publish fails from now on: a warning each time.
LoseReporter == /\ alive
                /\ reporter
                /\ reporter' = FALSE
                /\ reporting' = 0
                /\ nextBeat' = 0
                /\ UNCHANGED <<alive, dead, reports, serverVars>>

\* The session ends with its connection for orders, whose reconnection opens
\* the one for reports again, or fails to: the first heartbeat is sent at once,
\* or the session has none.
NewSession == /\ alive
              /\ Len(reports) < MaxQueued
              /\ reporter' \in BOOLEAN
              /\ reporting' = 0
              /\ nextBeat' = 0
              /\ UNCHANGED <<alive, dead, reports, serverVars>>

Die == /\ alive
       /\ alive' = FALSE
       /\ reporter' = FALSE
       /\ reporting' = 0
       /\ nextBeat' = 0
       /\ UNCHANGED <<dead, reports, serverVars>>

-----------------------------------------------------------------------------
(* The server. *)

FaultyStamp(age) == 0
\* ApplyBlockerReport takes the time in the report, not that of its arrival,
\* for every type of report, though it may be older than the one it replaces.
Stamp(age) == age

ApplyReport == /\ reports # <<>>
               /\ beatAge' = Stamp(Head(reports))
               /\ reports' = Tail(reports)
               /\ UNCHANGED <<alive, dead, blockerVars, trafficAge, entryAge, backlog, up>>

\* recordUserEvent: now is the traffic's stamp, however old the entry is.
ProcessEntry == /\ alive \/ backlog > 0
                /\ backlog' = IF alive THEN backlog ELSE backlog - 1
                /\ trafficAge' = 0
                /\ entryAge' = 0
                /\ UNCHANGED <<alive, dead, blockerVars, reports, beatAge, up>>

\* handleNodeHeartbeat: the stamp is the forwarder's, and may be older than
\* the one it replaces.
ForwarderBeat == /\ \E age \in 0..MaxDelay :
                      /\ alive \/ age >= dead
                      /\ trafficAge' = age
                 /\ UNCHANGED <<alive, dead, blockerVars, reports, beatAge, entryAge, backlog, up>>

\* The session of the status consumer ends, and its exclusive queue with it; a
\* session that stays away for some time ends again and again.
EndSession == /\ reports' = <<>>
              /\ up' = 0
              /\ UNCHANGED <<alive, dead, blockerVars, beatAge, trafficAge, entryAge, backlog>>

\* A restart forgets the state of the nodes as well.
Restart == /\ reports' = <<>>
           /\ beatAge' = Old
           /\ trafficAge' = Old
           /\ entryAge' = Old
           /\ up' = 0
           /\ UNCHANGED <<alive, dead, blockerVars, backlog>>

\* A heartbeat is sent when it is due and a report is applied in time.
Tick == /\ reporter => nextBeat > 0
        /\ \A i \in DOMAIN reports : reports[i] < MaxDelay
        /\ nextBeat' = IF reporter THEN nextBeat - 1 ELSE 0
        /\ reporting' = IF reporter THEN Older(reporting) ELSE 0
        /\ dead' = IF alive THEN dead ELSE Older(dead)
        /\ reports' = [i \in DOMAIN reports |-> reports[i] + 1]
        /\ beatAge' = Older(beatAge)
        /\ trafficAge' = Older(trafficAge)
        /\ entryAge' = Older(entryAge)
        /\ up' = Older(up)
        /\ UNCHANGED <<alive, reporter, backlog>>

Next == \/ SendBeat \/ ReportAction \/ LoseReporter \/ NewSession \/ Die
        \/ ApplyReport \/ ProcessEntry \/ ForwarderBeat
        \/ EndSession \/ Restart
        \/ Tick

Spec == Init /\ [][Next]_healthVars

FaultyOnline == beatAge < Timeout /\ trafficAge < Timeout
\* handleInternalNodeHealth and collectNodeOnlineStats.
Online == beatAge < Timeout \/ trafficAge < Timeout

-----------------------------------------------------------------------------
TypeOK == /\ alive \in BOOLEAN
          /\ dead \in 0..Old
          /\ reporter \in BOOLEAN
          /\ reporting \in 0..Old
          /\ nextBeat \in 0..Every
          /\ reports \in Seq(0..MaxDelay)
          /\ {beatAge, trafficAge, entryAge} \subseteq 0..Old
          /\ backlog \in 0..MaxBacklog
          /\ up \in 0..Old

\* Where the timeout is longer than the longest gap, a running node is never
\* shown offline once its blocker's reports and the status consumer have been
\* connected for that long, though reports wait in the queue and bring older
\* stamps than the one they replace, and the forwarder's stamps go back.
AliveIsOnline ==
  Timeout > LongestGap =>
    (alive /\ reporting > LongestGap /\ up > LongestGap => Online)

\* A dead node is shown offline once the timeout has passed since it died and
\* since its last entry was processed: reports that arrive late, of whatever
\* source, do not bring it back.
DeadIsOffline == ~alive /\ dead = Old /\ entryAge = Old => ~Online
=============================================================================
