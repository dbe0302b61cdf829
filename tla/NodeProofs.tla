----------------------------- MODULE NodeProofs -----------------------------
(***************************************************************************)
(* Proofs about NodeHealth, SourceCount, NodeCommands and SshTerminal as   *)
(* Services runs them, for every period, timeout, window and set of nodes; *)
(* with the other modules of proofs, the types of all the services.        *)
(*                                                                         *)
(* That a running node is online rests on what covers the age of its beat: *)
(* the next heartbeat that is due, or a report that waits in the queue,    *)
(* unless the connections are younger than that themselves.                *)
(***************************************************************************)
EXTENDS WorkQueuesProofs, MessagingProofs, PanelProofs

--------------------------------------------------------------------------
(* The health of a node. *)

Ages == 0..Health!Old

\* The next heartbeat, or a report that waits, comes before x is more than slack
\* older than a period.
Covers(x, slack) == \/ x <= slack + Every - nextBeat
                    \/ \E i \in DOMAIN reports : x <= slack + Every + reports[i]

\* While the blocker reports, a beat too old is one its heartbeats have not had
\* the time to replace.
BeatsInv ==
  /\ alive /\ reporter => Covers(up, 0) \/ Covers(reporting, 0) \/ Covers(beatAge, MaxDelay)
  /\ ~reporter => reporting = 0

\* What the server holds of a dead node is as old as its death, or is the
\* stamp of an entry processed since.
StampsInv ==
  /\ alive => dead = 0
  /\ ~alive => ~reporter
  /\ \A i \in DOMAIN reports : reports[i] >= dead
  /\ beatAge >= dead
  /\ trafficAge >= dead \/ trafficAge >= entryAge

HealthInv == Health!TypeOK /\ BeatsInv /\ StampsInv

(* A step of the services is one of the node or leaves it alone.            *)
LEMMA HealthAlone ==
  ASSUME [Next]_vars
  PROVE  Health!Next \/ UNCHANGED healthVars
BY DEF Next, vars, QueuesStep, HubStep, PublisherStep, ConfigStep, LoginStep, CacheStep,
       HealthStep, CountStep, CommandsStep, TerminalStep, AllOver, OthersRest

(* What Services assumes of the constants, and the ages they bound.         *)
LEMMA HealthAssumed ==
  /\ Every \in Nat \ {0} /\ MaxDelay \in Nat /\ MaxBacklog \in Nat /\ Timeout \in Nat
  /\ Health!LongestGap = Every + 2 * MaxDelay
  /\ Health!Old \in Nat /\ Health!Old >= Timeout /\ Health!Old >= MaxDelay
  /\ 0 \in Ages /\ Health!Old \in Ages
  /\ \A age \in 0..MaxDelay : age \in Ages
  /\ \A age \in Ages : age \in Nat
BY ServicesAssumption DEF Health!HealthAssumption, Health!LongestGap, Health!Old, Ages

(* The types, with the ages apart.                                          *)
LEMMA HealthTypes ==
  Health!TypeOK <=> /\ alive \in BOOLEAN /\ reporter \in BOOLEAN
                    /\ dead \in Ages /\ reporting \in Ages /\ up \in Ages
                    /\ beatAge \in Ages /\ trafficAge \in Ages /\ entryAge \in Ages
                    /\ nextBeat \in 0..Every /\ backlog \in 0..MaxBacklog
                    /\ reports \in Seq(0..MaxDelay)
BY DEF Health!TypeOK, Ages

(* The queue of reports, with its ages.                                     *)
LEMMA ReportsAre ==
  ASSUME Health!TypeOK
  PROVE  /\ Len(reports) \in Nat /\ DOMAIN reports = 1..Len(reports)
         /\ \A i \in 1..Len(reports) : reports[i] \in 0..MaxDelay
         /\ reports # <<>> => 1 \in 1..Len(reports)
<1>1. reports \in Seq(0..MaxDelay)
  BY HealthTypes
<1>2. Len(reports) \in Nat /\ DOMAIN reports = 1..Len(reports)
  BY <1>1, LenProperties
<1>3. \A i \in 1..Len(reports) : reports[i] \in 0..MaxDelay
  BY <1>1, ElementOfSeq
<1>4. ASSUME reports # <<>> PROVE 1 \in 1..Len(reports)
  <2>1. Len(reports) # 0
    BY <1>1, <1>4, EmptySeq
  <2>2. QED
    BY <1>2, <2>1
<1>5. QED
  BY <1>2, <1>3, <1>4

(* The initial state satisfies the invariant.                               *)
LEMMA HealthInitInv == Health!Init => HealthInv
<1> SUFFICES ASSUME Health!Init PROVE HealthInv
  OBVIOUS
<1>1. Health!TypeOK
  <2>1. reports \in Seq(0..MaxDelay)
    BY EmptySeq DEF Health!Init
  <2>2. nextBeat \in 0..Every /\ backlog \in 0..MaxBacklog
    BY HealthAssumed DEF Health!Init
  <2>3. QED
    BY <2>1, <2>2, HealthAssumed, HealthTypes DEF Health!Init
<1>2. BeatsInv
  BY DEF Health!Init, BeatsInv
<1>3. StampsInv
  BY HealthAssumed DEF Health!Init, StampsInv
<1>4. QED
  BY <1>1, <1>2, <1>3 DEF HealthInv

(* A report joins the queue; if it is a heartbeat it covers from now on     *)
(* what the next one did.                                                   *)
LEMMA ReportKeeps ==
  ASSUME HealthInv, Health!SendBeat \/ Health!ReportAction
  PROVE  HealthInv'
<1>1. PICK age \in 0..MaxDelay :
        /\ reports' = Append(reports, age)
        /\ \/ nextBeat = 0 /\ nextBeat' = Every /\ age = 0
           \/ nextBeat' = nextBeat
  BY HealthAssumed DEF Health!SendBeat, Health!ReportAction, Health!blockerVars
<1>2. /\ alive /\ reporter
      /\ UNCHANGED <<alive, dead, reporter, reporting, beatAge, trafficAge, entryAge, backlog, up>>
  BY DEF Health!SendBeat, Health!ReportAction, Health!blockerVars, Health!serverVars
<1>3. /\ reports' \in Seq(0..MaxDelay)
      /\ DOMAIN reports = 1..Len(reports) /\ DOMAIN reports' = 1..(Len(reports) + 1)
      /\ Len(reports) \in Nat
      /\ \A i \in 1..Len(reports) : reports'[i] = reports[i]
      /\ reports'[Len(reports) + 1] = age
  <2>1. reports \in Seq(0..MaxDelay) /\ Len(reports) \in Nat /\ DOMAIN reports = 1..Len(reports)
    BY HealthTypes, ReportsAre DEF HealthInv
  <2>2. /\ reports' \in Seq(0..MaxDelay) /\ Len(reports') = Len(reports) + 1
        /\ \A i \in 1..Len(reports) : reports'[i] = reports[i]
        /\ reports'[Len(reports) + 1] = age
    BY <1>1, <2>1, AppendProperties
  <2>3. DOMAIN reports' = 1..(Len(reports) + 1)
    BY <2>2, LenProperties
  <2>4. QED
    BY <2>1, <2>2, <2>3
<1>4. Health!TypeOK'
  <2>1. nextBeat' \in 0..Every
    BY <1>1, HealthAssumed, HealthTypes DEF HealthInv
  <2>2. QED
    BY <1>2, <1>3, <2>1, HealthTypes DEF HealthInv, Health!TypeOK
<1>5. ASSUME NEW x \in Ages, NEW slack \in Nat, Covers(x, slack)
      PROVE  \/ x <= slack + Every - nextBeat'
             \/ \E i \in DOMAIN reports' : x <= slack + Every + reports'[i]
  <2>1. CASE x <= slack + Every - nextBeat /\ nextBeat' # nextBeat
    <3>1. x <= slack + Every + 0 /\ age = 0
      BY <1>1, <2>1, HealthAssumed
    <3>2. Len(reports) + 1 \in DOMAIN reports'
      BY <1>3
    <3>3. QED
      BY <1>3, <3>1, <3>2
  <2>2. CASE x <= slack + Every - nextBeat /\ nextBeat' = nextBeat
    BY <2>2
  <2>3. CASE \E i \in DOMAIN reports : x <= slack + Every + reports[i]
    <3>1. PICK i \in DOMAIN reports : x <= slack + Every + reports[i]
      BY <2>3
    <3>2. i \in DOMAIN reports' /\ reports'[i] = reports[i]
      BY <1>3
    <3>3. QED
      BY <3>1, <3>2
  <2>4. QED
    BY <1>5, <2>1, <2>2, <2>3 DEF Covers
<1>6. BeatsInv'
  <2>1. up \in Ages /\ reporting \in Ages /\ beatAge \in Ages
    BY HealthTypes DEF HealthInv
  <2>2. Covers(up, 0) \/ Covers(reporting, 0) \/ Covers(beatAge, MaxDelay)
    BY <1>2 DEF HealthInv, BeatsInv
  <2>3. Covers(up, 0)' \/ Covers(reporting, 0)' \/ Covers(beatAge, MaxDelay)'
    BY <1>2, <1>5, <2>1, <2>2, HealthAssumed DEF Covers
  <2>4. QED
    BY <1>2, <2>3 DEF BeatsInv
<1>7. StampsInv'
  <2>1. dead = 0 /\ age >= 0
    BY <1>2, HealthAssumed DEF HealthInv, StampsInv
  <2>2. \A i \in 1..(Len(reports) + 1) : i \in 1..Len(reports) \/ i = Len(reports) + 1
    BY <1>3
  <2>3. \A i \in DOMAIN reports' : reports'[i] >= dead
    BY <1>3, <2>1, <2>2 DEF HealthInv, StampsInv
  <2>4. QED
    BY <1>2, <2>3 DEF HealthInv, StampsInv
<1>8. QED
  BY <1>4, <1>6, <1>7 DEF HealthInv

(* A connection that dies, a new one, and the death of the node leave the   *)
(* server what it has.                                                      *)
LEMMA NodeKeeps ==
  ASSUME HealthInv, Health!LoseReporter \/ Health!NewSession \/ Health!Die
  PROVE  HealthInv'
<1>1. /\ UNCHANGED <<dead, reports, beatAge, trafficAge, entryAge, backlog, up>>
      /\ alive /\ nextBeat' = 0 /\ reporting' = 0
  BY DEF Health!LoseReporter, Health!NewSession, Health!Die, Health!serverVars
<1>2. reporter' \in BOOLEAN /\ alive' \in BOOLEAN /\ (~alive' => ~reporter')
  <2>1. alive \in BOOLEAN /\ reporter \in BOOLEAN /\ alive
    BY <1>1, HealthTypes DEF HealthInv
  <2>2. CASE Health!LoseReporter
    BY <2>1, <2>2 DEF Health!LoseReporter
  <2>3. CASE Health!NewSession
    BY <2>1, <2>3 DEF Health!NewSession
  <2>4. CASE Health!Die
    BY <2>4 DEF Health!Die
  <2>5. QED
    BY <2>2, <2>3, <2>4
<1>3. Health!TypeOK'
  <2>1. nextBeat' \in 0..Every
    BY <1>1, HealthAssumed
  <2>2. QED
    BY <1>1, <1>2, <2>1, HealthAssumed, HealthTypes DEF HealthInv, Health!TypeOK, Ages
<1>4. BeatsInv'
  <2>1. 0 <= 0 + Every - nextBeat'
    BY <1>1, HealthAssumed
  <2>2. Covers(reporting, 0)'
    BY <1>1, <2>1 DEF Covers
  <2>3. QED
    BY <1>1, <2>2 DEF BeatsInv
<1>5. StampsInv'
  BY <1>1, <1>2 DEF HealthInv, StampsInv
<1>6. QED
  BY <1>3, <1>4, <1>5 DEF HealthInv

(* A report is applied: it is no older than MaxDelay.                       *)
LEMMA ApplyReportKeeps ==
  ASSUME HealthInv, Health!ApplyReport
  PROVE  HealthInv'
<1>1. /\ reports # <<>> /\ beatAge' = Head(reports) /\ reports' = Tail(reports)
      /\ UNCHANGED <<alive, dead, reporter, reporting, nextBeat, trafficAge, entryAge, backlog,
                     up>>
  BY DEF Health!ApplyReport, Health!Stamp, Health!blockerVars
<1>2. /\ reports \in Seq(0..MaxDelay) /\ DOMAIN reports = 1..Len(reports)
      /\ 1 \in DOMAIN reports /\ reports[1] \in 0..MaxDelay /\ Len(reports) \in Nat
  BY <1>1, HealthTypes, ReportsAre DEF HealthInv
<1>3. /\ reports' \in Seq(0..MaxDelay) /\ DOMAIN reports' = 1..(Len(reports) - 1)
      /\ \A i \in 1..(Len(reports) - 1) : reports'[i] = reports[i + 1]
      /\ beatAge' = reports[1]
  <2>1. /\ reports' \in Seq(0..MaxDelay) /\ Len(reports') = Len(reports) - 1
        /\ \A i \in 1..(Len(reports) - 1) : reports'[i] = reports[i + 1]
        /\ beatAge' = reports[1]
    BY <1>1, <1>2, HeadTailProperties
  <2>2. QED
    BY <2>1, LenProperties
<1>4. Health!TypeOK'
  BY <1>1, <1>2, <1>3, HealthAssumed, HealthTypes DEF HealthInv, Health!TypeOK, Ages
<1>5. BeatsInv'
  <2>1. beatAge' \in 0..MaxDelay /\ MaxDelay \in Nat /\ nextBeat \in 0..Every /\ Every \in Nat
    BY <1>2, <1>3, HealthAssumed, HealthTypes DEF HealthInv
  <2>2. beatAge' <= MaxDelay + Every - nextBeat
    BY <2>1
  <2>3. Covers(beatAge, MaxDelay)'
    BY <1>1, <2>2 DEF Covers
  <2>4. QED
    BY <1>1, <2>3 DEF HealthInv, BeatsInv
<1>6. StampsInv'
  <2>1. \A i \in 1..Len(reports) : reports[i] >= dead
    BY <1>2 DEF HealthInv, StampsInv
  <2>2. \A i \in 1..(Len(reports) - 1) : i + 1 \in 1..Len(reports)
    BY <1>2
  <2>3. beatAge' >= dead /\ \A i \in DOMAIN reports' : reports'[i] >= dead
    BY <1>2, <1>3, <2>1, <2>2
  <2>4. QED
    BY <1>1, <2>3 DEF HealthInv, StampsInv
<1>7. QED
  BY <1>4, <1>5, <1>6 DEF HealthInv

(* Traffic is stamped; entries and forwarders say nothing of the beats.     *)
LEMMA TrafficKeeps ==
  ASSUME HealthInv, Health!ProcessEntry \/ Health!ForwarderBeat
  PROVE  HealthInv'
<1>1. UNCHANGED <<alive, dead, reporter, reporting, nextBeat, reports, beatAge, up>>
  BY DEF Health!ProcessEntry, Health!ForwarderBeat, Health!blockerVars
<1>2. /\ backlog' \in 0..MaxBacklog /\ trafficAge' \in Ages /\ entryAge' \in Ages
      /\ trafficAge' >= dead \/ trafficAge' >= entryAge'
  <2>1. CASE Health!ProcessEntry
    <3>1. trafficAge' = 0 /\ entryAge' = 0
      BY <2>1 DEF Health!ProcessEntry
    <3>2. backlog' \in 0..MaxBacklog
      BY <2>1, HealthAssumed, HealthTypes DEF Health!ProcessEntry, HealthInv, StampsInv
    <3>3. QED
      BY <3>1, <3>2, HealthAssumed
  <2>2. CASE Health!ForwarderBeat
    <3>1. PICK age \in 0..MaxDelay : (alive \/ age >= dead) /\ trafficAge' = age
      BY <2>2 DEF Health!ForwarderBeat
    <3>2. age >= dead
      BY <3>1 DEF HealthInv, StampsInv
    <3>3. age \in Ages /\ UNCHANGED <<backlog, entryAge>>
      BY <2>2, HealthAssumed DEF Health!ForwarderBeat
    <3>4. QED
      BY <3>1, <3>2, <3>3, HealthTypes DEF HealthInv
  <2>3. QED
    BY <2>1, <2>2
<1>3. Health!TypeOK'
  BY <1>1, <1>2, HealthTypes DEF HealthInv, Health!TypeOK, Ages
<1>4. BeatsInv'
  BY <1>1 DEF HealthInv, BeatsInv, Covers
<1>5. StampsInv'
  BY <1>1, <1>2 DEF HealthInv, StampsInv
<1>6. QED
  BY <1>3, <1>4, <1>5 DEF HealthInv

(* A session that ends, and a restart, take the reports of the queue.       *)
LEMMA SessionKeeps ==
  ASSUME HealthInv, Health!EndSession \/ Health!Restart
  PROVE  HealthInv'
<1>1. /\ reports' = <<>> /\ up' = 0
      /\ UNCHANGED <<alive, dead, reporter, reporting, nextBeat, backlog>>
      /\ \/ UNCHANGED <<beatAge, trafficAge, entryAge>>
         \/ beatAge' = Health!Old /\ trafficAge' = Health!Old /\ entryAge' = Health!Old
  BY DEF Health!EndSession, Health!Restart, Health!blockerVars
<1>2. Health!TypeOK'
  <2>1. reports' \in Seq(0..MaxDelay)
    BY <1>1, EmptySeq
  <2>2. /\ up' \in Ages /\ beatAge' \in Ages /\ trafficAge' \in Ages /\ entryAge' \in Ages
    BY <1>1, HealthAssumed, HealthTypes DEF HealthInv
  <2>3. QED
    BY <1>1, <2>1, <2>2, HealthTypes DEF HealthInv, Health!TypeOK, Ages
<1>3. BeatsInv'
  <2>1. nextBeat \in 0..Every /\ Every \in Nat
    BY HealthAssumed, HealthTypes DEF HealthInv
  <2>2. 0 <= 0 + Every - nextBeat
    BY <2>1
  <2>3. Covers(up, 0)'
    BY <1>1, <2>2 DEF Covers
  <2>4. QED
    BY <1>1, <2>3 DEF HealthInv, BeatsInv
<1>4. StampsInv'
  <2>1. dead \in Ages
    BY HealthTypes DEF HealthInv
  <2>2. Health!Old >= dead
    BY <2>1, HealthAssumed DEF Ages
  <2>3. DOMAIN reports' = {}
    BY <1>1
  <2>4. beatAge' >= dead /\ (trafficAge' >= dead \/ trafficAge' >= entryAge')
    BY <1>1, <2>2 DEF HealthInv, StampsInv
  <2>5. QED
    BY <1>1, <2>3, <2>4 DEF HealthInv, StampsInv
<1>5. QED
  BY <1>2, <1>3, <1>4 DEF HealthInv

(* Ages grow together, up to the oldest.                                    *)
LEMMA OlderKeeps ==
  ASSUME NEW m \in Ages, NEW n \in Ages
  PROVE  /\ Health!Older(m) \in Ages
         /\ Health!Older(m) <= m + 1
         /\ m >= n => Health!Older(m) >= Health!Older(n)
BY HealthAssumed DEF Health!Older, Ages

(* A function on the first numbers is a sequence.                           *)
LEMMA SequenceOf ==
  ASSUME NEW S, NEW n \in Nat, NEW f \in [1..n -> S]
  PROVE  f \in Seq(S)
BY SeqDef

(* What covers a number in one tick covers the next one in the next.        *)
LEMMA CoverGrows ==
  \A x, y, slack, e, n, r \in Nat :
    /\ y <= x + 1 /\ n > 0 /\ x <= slack + e - n => y <= slack + e - (n - 1)
    /\ y <= x + 1 /\ x <= slack + e + r => y <= slack + e + (r + 1)
OBVIOUS

(* Time passes.                                                             *)
LEMMA TickKeeps ==
  ASSUME HealthInv, Health!Tick
  PROVE  HealthInv'
<1>1. /\ reporter => nextBeat > 0
      /\ nextBeat' = IF reporter THEN nextBeat - 1 ELSE 0
      /\ reporting' = IF reporter THEN Health!Older(reporting) ELSE 0
      /\ dead' = IF alive THEN dead ELSE Health!Older(dead)
      /\ reports' = [i \in DOMAIN reports |-> reports[i] + 1]
      /\ beatAge' = Health!Older(beatAge) /\ trafficAge' = Health!Older(trafficAge)
      /\ entryAge' = Health!Older(entryAge) /\ up' = Health!Older(up)
      /\ UNCHANGED <<alive, reporter, backlog>>
      /\ \A i \in DOMAIN reports : reports[i] < MaxDelay
  BY DEF Health!Tick
<1>2. /\ dead \in Ages /\ reporting \in Ages /\ up \in Ages
      /\ beatAge \in Ages /\ trafficAge \in Ages /\ entryAge \in Ages
      /\ nextBeat \in 0..Every /\ Every \in Nat /\ MaxDelay \in Nat
      /\ alive \in BOOLEAN /\ reporter \in BOOLEAN /\ backlog \in 0..MaxBacklog
  BY HealthAssumed, HealthTypes DEF HealthInv
<1>3. /\ Len(reports) \in Nat /\ DOMAIN reports = 1..Len(reports)
      /\ \A i \in DOMAIN reports : reports[i] \in 0..MaxDelay
  BY ReportsAre DEF HealthInv
<1>4. /\ reports' \in Seq(0..MaxDelay) /\ DOMAIN reports' = DOMAIN reports
      /\ \A i \in DOMAIN reports : reports'[i] = reports[i] + 1
  <2>1. \A i \in 1..Len(reports) : reports[i] + 1 \in 0..MaxDelay
    BY <1>1, <1>2, <1>3
  <2>2. reports' \in [1..Len(reports) -> 0..MaxDelay]
    BY <1>1, <1>3, <2>1
  <2>3. reports' \in Seq(0..MaxDelay)
    BY <1>3, <2>2, SequenceOf
  <2>4. QED
    BY <1>1, <1>3, <2>3
<1>5. /\ dead' \in Ages /\ reporting' \in Ages /\ up' \in Ages
      /\ beatAge' \in Ages /\ trafficAge' \in Ages /\ entryAge' \in Ages
      /\ beatAge' <= beatAge + 1 /\ up' <= up + 1
      /\ reporter => reporting' <= reporting + 1
      /\ ~alive => dead' <= dead + 1
      /\ ~alive /\ beatAge >= dead => beatAge' >= dead'
      /\ ~alive /\ trafficAge >= dead => trafficAge' >= dead'
      /\ trafficAge >= entryAge => trafficAge' >= entryAge'
  BY <1>1, <1>2, HealthAssumed, OlderKeeps
<1>6. Health!TypeOK'
  <2>1. nextBeat' \in 0..Every
    BY <1>1, <1>2
  <2>2. QED
    BY <1>1, <1>2, <1>4, <1>5, <2>1 DEF Health!TypeOK, Ages
<1>7. ASSUME reporter, NEW x \in Nat, NEW y \in Nat, y <= x + 1, NEW slack \in Nat,
             Covers(x, slack)
      PROVE  \/ y <= slack + Every - nextBeat'
             \/ \E i \in DOMAIN reports' : y <= slack + Every + reports'[i]
  <2>1. CASE x <= slack + Every - nextBeat
    <3>1. nextBeat \in Nat /\ nextBeat > 0 /\ nextBeat' = nextBeat - 1
      BY <1>1, <1>2, <1>7
    <3>2. y <= slack + Every - (nextBeat - 1)
      BY <1>2, <1>7, <2>1, <3>1, CoverGrows
    <3>3. QED
      BY <3>1, <3>2
  <2>2. ASSUME NEW i \in DOMAIN reports, x <= slack + Every + reports[i]
        PROVE  \E k \in DOMAIN reports' : y <= slack + Every + reports'[k]
    <3>1. reports[i] \in Nat
      BY <1>2, <1>3
    <3>2. y <= slack + Every + (reports[i] + 1)
      BY <1>2, <1>7, <2>2, <3>1, CoverGrows
    <3>3. i \in DOMAIN reports' /\ reports'[i] = reports[i] + 1
      BY <1>4
    <3>4. QED
      BY <3>2, <3>3
  <2>3. QED
    BY <1>7, <2>1, <2>2 DEF Covers
<1>8. BeatsInv'
  <2>1. CASE ~reporter
    BY <1>1, <2>1 DEF BeatsInv
  <2>2. CASE reporter /\ ~alive
    BY <2>2 DEF HealthInv, StampsInv
  <2>3. CASE reporter /\ alive
    <3>1. Covers(up, 0) \/ Covers(reporting, 0) \/ Covers(beatAge, MaxDelay)
      BY <2>3 DEF HealthInv, BeatsInv
    <3>2. /\ up \in Nat /\ up' \in Nat /\ reporting \in Nat /\ reporting' \in Nat
          /\ beatAge \in Nat /\ beatAge' \in Nat /\ MaxDelay \in Nat
      BY <1>2, <1>5, HealthAssumed
    <3>3. Covers(up, 0) => Covers(up, 0)'
      BY <1>5, <1>7, <2>3, <3>2 DEF Covers
    <3>4. Covers(reporting, 0) => Covers(reporting, 0)'
      BY <1>5, <1>7, <2>3, <3>2 DEF Covers
    <3>5. Covers(beatAge, MaxDelay) => Covers(beatAge, MaxDelay)'
      BY <1>5, <1>7, <2>3, <3>2 DEF Covers
    <3>6. QED
      BY <1>1, <2>3, <3>1, <3>3, <3>4, <3>5 DEF BeatsInv
  <2>4. QED
    BY <1>2, <2>1, <2>2, <2>3
<1>9. StampsInv'
  <2>1. /\ alive => dead = 0
        /\ ~alive => ~reporter
        /\ \A i \in DOMAIN reports : reports[i] >= dead
        /\ beatAge >= dead
        /\ trafficAge >= dead \/ trafficAge >= entryAge
    BY DEF HealthInv, StampsInv
  <2>2. CASE alive
    <3>1. dead' = 0 /\ \A i \in DOMAIN reports : reports'[i] >= 0
      BY <1>1, <1>2, <1>3, <1>4, <2>1, <2>2
    <3>2. beatAge' >= 0 /\ trafficAge' >= 0
      BY <1>5, HealthAssumed
    <3>3. QED
      BY <1>1, <1>4, <2>2, <3>1, <3>2 DEF StampsInv
  <2>3. CASE ~alive
    <3>1. ASSUME NEW i \in DOMAIN reports PROVE reports'[i] >= dead'
      <4>1. /\ reports'[i] = reports[i] + 1 /\ reports[i] \in Nat /\ reports[i] >= dead
            /\ dead \in Nat /\ dead' \in Nat
        BY <1>2, <1>3, <1>4, <1>5, <2>1, HealthAssumed
      <4>2. dead' <= dead + 1
        BY <1>5, <2>3
      <4>3. QED
        BY <4>1, <4>2
    <3>2. QED
      BY <1>1, <1>4, <1>5, <2>1, <2>3, <3>1 DEF StampsInv
  <2>4. QED
    BY <2>2, <2>3
<1>10. QED
  BY <1>6, <1>8, <1>9 DEF HealthInv

(* The invariant is inductive.                                              *)
LEMMA HealthStepInv == HealthInv /\ [Next]_vars => HealthInv'
<1> SUFFICES ASSUME HealthInv, [Next]_vars PROVE HealthInv'
  OBVIOUS
<1>1. CASE UNCHANGED healthVars
  BY <1>1 DEF healthVars, HealthInv, Health!TypeOK, BeatsInv, StampsInv, Covers
<1>2. QED
  BY <1>1, ReportKeeps, NodeKeeps, ApplyReportKeeps, TrafficKeeps, SessionKeeps, TickKeeps,
     HealthAlone
     DEF Health!Next

LEMMA HealthInvariance == Spec => []HealthInv
<1>1. Init => HealthInv
  BY HealthInitInv DEF Init
<1>2. QED
  BY <1>1, HealthStepInv, PTL DEF Spec

(* Where the timeout leaves room for a period and two delays, a node that   *)
(* runs is not shown offline once its blocker's connection for reports and  *)
(* the status consumer have worked for that long, though reports wait, are  *)
(* lost before that, and bring older stamps than they replace (server.go,   *)
(* handleInternalNodeHealth; worker.go, heartbeatLoop).                     *)
THEOREM RunningIsOnline == Spec => []AliveIsOnline
<1>1. HealthInv => AliveIsOnline
  <2> SUFFICES ASSUME HealthInv, alive, Timeout > Health!LongestGap,
                      reporting > Health!LongestGap, up > Health!LongestGap
               PROVE  beatAge < Timeout
    BY DEF AliveIsOnline, Health!AliveIsOnline, Health!Online
  <2>1. /\ beatAge \in Nat /\ up \in Nat /\ reporting \in Nat
        /\ MaxDelay \in Nat /\ Timeout \in Nat /\ Every \in Nat
        /\ Timeout > Every + 2 * MaxDelay /\ up > Every + 2 * MaxDelay
        /\ reporting > Every + 2 * MaxDelay
        /\ nextBeat \in Nat
    <3>1. /\ beatAge \in Ages /\ up \in Ages /\ reporting \in Ages /\ nextBeat \in 0..Every
      BY HealthTypes DEF HealthInv
    <3>2. /\ MaxDelay \in Nat /\ Timeout \in Nat /\ Every \in Nat
          /\ Health!LongestGap = Every + 2 * MaxDelay
      BY HealthAssumed
    <3>3. beatAge \in Nat /\ up \in Nat /\ reporting \in Nat /\ nextBeat \in Nat
      BY <3>1, <3>2, HealthAssumed
    <3>4. QED
      BY <3>2, <3>3
  <2>2. reporter
    BY <2>1 DEF HealthInv, BeatsInv
  <2>3. ASSUME NEW x \in Nat, NEW slack \in Nat, Covers(x, slack)
        PROVE  x <= slack + Every + MaxDelay
    <3>1. CASE x <= slack + Every - nextBeat
      BY <2>1, <2>3, <3>1
    <3>2. ASSUME NEW i \in DOMAIN reports, x <= slack + Every + reports[i]
          PROVE  x <= slack + Every + MaxDelay
      <4>1. reports[i] \in 0..MaxDelay
        BY ReportsAre DEF HealthInv
      <4>2. QED
        BY <2>1, <2>3, <3>2, <4>1
    <3>3. QED
      BY <2>3, <3>1, <3>2 DEF Covers
  <2>4. ~Covers(up, 0) /\ ~Covers(reporting, 0)
    BY <2>1, <2>3
  <2>5. Covers(beatAge, MaxDelay)
    BY <2>2, <2>4 DEF HealthInv, BeatsInv
  <2>6. beatAge <= MaxDelay + Every + MaxDelay
    BY <2>1, <2>3, <2>5
  <2>7. QED
    BY <2>1, <2>6
<1>2. QED
  BY <1>1, HealthInvariance, PTL

(* A node that has been dead for the timeout, its entries all processed as  *)
(* long ago, is shown offline, whatever reports were late (processor.go,    *)
(* ApplyBlockerReport).                                                     *)
THEOREM DeadStaysOffline == Spec => []DeadIsOffline
<1>1. HealthInv => DeadIsOffline
  <2> SUFFICES ASSUME HealthInv, dead = Health!Old, entryAge = Health!Old
               PROVE  ~(beatAge < Timeout) /\ ~(trafficAge < Timeout)
    BY DEF DeadIsOffline, Health!DeadIsOffline, Health!Online
  <2>1. beatAge >= Health!Old /\ trafficAge >= Health!Old
    BY DEF HealthInv, StampsInv
  <2>2. beatAge \in Nat /\ trafficAge \in Nat
    BY HealthAssumed, HealthTypes DEF HealthInv
  <2>3. QED
    BY <2>1, <2>2, HealthAssumed
<1>2. QED
  BY <1>1, HealthInvariance, PTL

--------------------------------------------------------------------------
(* A terminal. *)

(* A step of the services is one of the terminal or leaves it alone.        *)
LEMMA TerminalAlone ==
  ASSUME [Next]_vars
  PROVE  Terminal!Next \/ UNCHANGED terminalVars
BY DEF Next, vars, QueuesStep, HubStep, PublisherStep, ConfigStep, LoginStep, CacheStep,
       HealthStep, CountStep, CommandsStep, TerminalStep, AllOver, OthersRest

(* A terminal keeps its types.                                              *)
THEOREM TerminalTypeCorrect == Spec => []Terminal!TypeOK
<1>1. Init => Terminal!TypeOK
  BY DEF Init, Terminal!Init, Terminal!TypeOK
<1>2. Terminal!TypeOK /\ [Next]_vars => Terminal!TypeOK'
  <2> SUFFICES ASSUME Terminal!TypeOK, [Next]_vars PROVE Terminal!TypeOK'
    OBVIOUS
  <2> USE DEF Terminal!TypeOK
  <2>1. CASE UNCHANGED terminalVars
    BY <2>1 DEF terminalVars
  <2>2. CASE Terminal!OpenSocket \/ Terminal!Connect
    BY <2>2 DEF Terminal!OpenSocket, Terminal!Connect, Terminal!Refuse, Terminal!StartShell,
                Terminal!CloseAll
  <2>3. CASE Terminal!HandlerStep
    BY <2>3 DEF Terminal!HandlerStep, Terminal!Notice, Terminal!EndHandler, Terminal!CloseAll
  <2>4. CASE Terminal!Take \/ Terminal!PrinterStep
    BY <2>4 DEF Terminal!Take, Terminal!PrinterStep, Terminal!Write, Terminal!EndPrinter
  <2>5. CASE Terminal!Receive \/ Terminal!TypistStep
    BY <2>5 DEF Terminal!Receive, Terminal!TypistStep, Terminal!Received, Terminal!EndTypist
  <2>6. CASE Terminal!BrowserLeaves \/ Terminal!ShellExits
    BY <2>6 DEF Terminal!BrowserLeaves, Terminal!ShellExits
  <2>7. CASE Terminal!Crash
    BY <2>7 DEF Terminal!Crash
  <2>8. QED
    BY <2>1, <2>2, <2>3, <2>4, <2>5, <2>6, <2>7, TerminalAlone DEF Terminal!Next
<1>3. QED
  BY <1>1, <1>2, PTL DEF Spec

--------------------------------------------------------------------------
(* A command on several nodes. *)

(* A step of the services is one of the command or leaves it alone.         *)
LEMMA CommandsAlone ==
  ASSUME [Next]_vars
  PROVE  Commands!Next \/ UNCHANGED commandVars
BY DEF Next, vars, QueuesStep, HubStep, PublisherStep, ConfigStep, LoginStep, CacheStep,
       HealthStep, CountStep, CommandsStep, TerminalStep, AllOver, OthersRest

\* The goroutines start with the request, so nothing is linked before it; those
\* that hold a slot are no more than may run in parallel.
TaskStates == {"none", "waiting", "dialling", "opening", "starting", "running", "draining", "done"}
Results == {"none", "ok", "exit", "timeout", "canceled", "error"}

CommandsInv ==
  /\ asked \in {"none", "running", "answered"}
  /\ left \in BOOLEAN
  /\ task \in [Targets -> TaskStates]
  /\ exited \subseteq Targets
  /\ linked \subseteq Commands!Holding
  /\ Cardinality(Commands!Holding) <= MaxParallel
  /\ readers \in [Targets -> SUBSET Commands!Outputs]
  /\ result \in [Targets -> Results]
  /\ asked = "none" => \A t \in Targets : task[t] = "none"

(* What Services assumes of the constants of the commands.                  *)
LEMMA CommandsAssumed == /\ MaxParallel \in Nat \ {0} /\ IsFiniteSet(Targets)
                         /\ \A S : Commands!Cardinality(S) = Cardinality(S)
<1>1. \A S : Commands!IsFiniteSet(S) <=> IsFiniteSet(S)
  BY Zenon DEF IsFiniteSet, Commands!IsFiniteSet
<1>2. \A S : Commands!Cardinality(S) = Cardinality(S)
  BY Zenon DEF Cardinality, Commands!Cardinality
<1>3. QED
  BY <1>1, <1>2, ServicesAssumption DEF Commands!CommandAssumption

(* The slots held after a goroutine has moved.                              *)
LEMMA HoldingMoves ==
  ASSUME NEW S \in SUBSET Targets, NEW T \in SUBSET Targets, NEW t \in Targets,
         Cardinality(S) <= MaxParallel,
         T \subseteq S \/ (Cardinality(S) < MaxParallel /\ T = S \cup {t})
  PROVE  Cardinality(T) <= MaxParallel
<1>1. IsFiniteSet(S) /\ IsFiniteSet(T) /\ Cardinality(S) \in Nat /\ Cardinality(T) \in Nat
  <2>1. IsFiniteSet(S) /\ IsFiniteSet(T)
    BY CommandsAssumed, FS_Subset
  <2>2. QED
    BY <2>1, FS_CardinalityType
<1>2. CASE T \subseteq S
  <2>1. Cardinality(T) <= Cardinality(S)
    BY <1>1, <1>2, FS_Subset
  <2>2. QED
    BY <1>1, <2>1, CommandsAssumed
<1>3. CASE Cardinality(S) < MaxParallel /\ T = S \cup {t}
  <2>1. Cardinality(T) = Cardinality(S) \/ Cardinality(T) = Cardinality(S) + 1
    BY <1>1, <1>3, FS_AddElement
  <2>2. QED
    BY <1>1, <1>3, <2>1, CommandsAssumed
<1>4. QED
  BY <1>2, <1>3

(* A goroutine that keeps or gives back its slot, and its connection with   *)
(* the slot.                                                                *)
LEMMA GoroutineKeeps ==
  ASSUME CommandsInv, NEW t \in Targets, Commands!Goroutine(t)
  PROVE  CommandsInv'
<1> DEFINE Slots == {"none", "waiting", "done"}
<1>1. PICK s \in TaskStates \ {"none"} : task' = [task EXCEPT ![t] = s]
  BY DEF Commands!Goroutine, Commands!TakeSlot, Commands!Open, Commands!FailDial, Commands!Dial,
         Commands!FailSession, Commands!StartReaders, Commands!StartCommand, Commands!FailStart,
         Commands!Collect, Commands!Interrupt, Commands!Drain, Commands!Finish, TaskStates
<1>2. /\ task[t] # "none" /\ UNCHANGED <<asked, left, exited>>
  BY DEF Commands!Goroutine, Commands!TakeSlot, Commands!Open, Commands!FailDial, Commands!Dial,
         Commands!FailSession, Commands!StartReaders, Commands!StartCommand, Commands!FailStart,
         Commands!Collect, Commands!Interrupt, Commands!Drain, Commands!Finish
<1>3. task' \in [Targets -> TaskStates] /\ asked' # "none"
  BY <1>1, <1>2 DEF CommandsInv
<1>4. readers' \in [Targets -> SUBSET Commands!Outputs]
  BY DEF CommandsInv, Commands!Goroutine, Commands!TakeSlot, Commands!Open, Commands!FailDial,
         Commands!Dial, Commands!FailSession, Commands!StartReaders, Commands!StartCommand,
         Commands!FailStart, Commands!Collect, Commands!Interrupt, Commands!Drain, Commands!Finish
<1>5. result' \in [Targets -> Results]
  BY DEF CommandsInv, Commands!Goroutine, Commands!TakeSlot, Commands!Open, Commands!FailDial,
         Commands!Dial, Commands!FailSession, Commands!StartReaders, Commands!StartCommand,
         Commands!FailStart, Commands!Collect, Commands!Interrupt, Commands!Drain, Commands!Finish,
         Results
<1>6. /\ Commands!Holding = {u \in Targets : task[u] \notin Slots}
      /\ Commands!Holding' = {u \in Targets : task'[u] \notin Slots}
  BY DEF Commands!Holding
<1>7. \A u \in Targets \ {t} : task'[u] = task[u]
  BY <1>1 DEF CommandsInv
<1>8. \/ /\ Commands!TakeSlot(t)
         /\ t \in Commands!Holding' /\ linked' = linked
         /\ Cardinality(Commands!Holding) < MaxParallel
      \/ /\ t \in Commands!Holding
         /\ t \in Commands!Holding' /\ linked' \subseteq linked \cup {t}
      \/ t \in Commands!Holding /\ linked' = linked \ {t}
  <2>1. CASE Commands!TakeSlot(t)
    BY <1>6, <2>1, CommandsAssumed DEF Commands!TakeSlot, CommandsInv
  <2>2. CASE Commands!Open(t)
    BY <1>6, <2>2 DEF Commands!Open, Commands!FailDial, Commands!Dial, Commands!FailSession,
         Commands!StartReaders, Commands!StartCommand, Commands!FailStart, Commands!Finish, CommandsInv
  <2>3. CASE Commands!Collect(t) \/ Commands!Interrupt(t) \/ Commands!Drain(t)
    BY <1>6, <2>3 DEF Commands!Collect, Commands!Interrupt, Commands!Drain, Commands!Finish, CommandsInv
  <2>4. QED
    BY <2>1, <2>2, <2>3 DEF Commands!Goroutine
<1>9. linked' \subseteq Commands!Holding'
  BY <1>6, <1>7, <1>8 DEF CommandsInv
<1>10. Cardinality(Commands!Holding') <= MaxParallel
  <2>1. /\ Commands!Holding \in SUBSET Targets /\ Commands!Holding' \in SUBSET Targets
        /\ Commands!Holding' \subseteq Commands!Holding \cup {t}
    BY <1>6, <1>7
  <2>2. \/ Commands!Holding' \subseteq Commands!Holding
        \/ /\ Cardinality(Commands!Holding) < MaxParallel
           /\ Commands!Holding' = Commands!Holding \cup {t}
    BY <1>6, <1>7, <1>8, <2>1
  <2>3. QED
    BY <2>1, <2>2, HoldingMoves DEF CommandsInv
<1>11. QED
  BY <1>2, <1>3, <1>4, <1>5, <1>9, <1>10 DEF CommandsInv

(* The handler, a reader that ends and a command that ends move no slot.    *)
LEMMA OthersKeep ==
  ASSUME CommandsInv,
         \/ Commands!Ask \/ Commands!Leave \/ Commands!Answer
         \/ \E t \in Targets : Commands!Exit(t)
         \/ \E t \in Targets, o \in Commands!Outputs : Commands!EndReader(t, o)
  PROVE  CommandsInv'
<1>1. CASE Commands!Ask
  <2>1. Commands!Holding = {} /\ Commands!Holding' = {}
    BY <1>1 DEF Commands!Ask, Commands!Holding, CommandsInv
  <2>2. task' \in [Targets -> TaskStates]
    BY <1>1 DEF Commands!Ask, TaskStates
  <2>3. QED
    BY <1>1, <2>1, <2>2 DEF Commands!Ask, CommandsInv
<1>2. CASE ~Commands!Ask
  <2>1. task' = task /\ linked' = linked /\ result' = result
    BY <1>2 DEF Commands!Leave, Commands!Answer, Commands!Exit, Commands!EndReader
  <2>2. Commands!Holding' = Commands!Holding
    BY <2>1 DEF Commands!Holding
  <2>3. /\ asked' \in {"none", "running", "answered"} /\ left' \in BOOLEAN
        /\ asked' = "none" => asked = "none"
    BY <1>2 DEF CommandsInv, Commands!Leave, Commands!Answer, Commands!Exit, Commands!EndReader
  <2>4. exited' \subseteq Targets /\ readers' \in [Targets -> SUBSET Commands!Outputs]
    BY <1>2 DEF CommandsInv, Commands!Leave, Commands!Answer, Commands!Exit, Commands!EndReader
  <2>5. QED
    BY <2>1, <2>2, <2>3, <2>4 DEF CommandsInv
<1>3. QED
  BY <1>1, <1>2

(* A command keeps its types: no more connections are open, or being        *)
(* opened, than may run in parallel (nodessh, executor.go).                 *)
THEOREM CommandsTypeCorrect == Spec => []Commands!TypeOK
<1>1. Init => CommandsInv
  <2> SUFFICES ASSUME Init PROVE CommandsInv
    OBVIOUS
  <2>1. Commands!Holding = {}
    BY DEF Init, Commands!Init, Commands!Holding
  <2>2. Cardinality({}) = 0
    BY FS_EmptySet
  <2>3. Cardinality(Commands!Holding) <= MaxParallel
    BY <2>1, <2>2, CommandsAssumed
  <2>4. QED
    BY <2>1, <2>3 DEF Init, Commands!Init, CommandsInv, TaskStates, Results
<1>2. CommandsInv /\ [Next]_vars => CommandsInv'
  <2> SUFFICES ASSUME CommandsInv, [Next]_vars PROVE CommandsInv'
    OBVIOUS
  <2>1. CASE UNCHANGED commandVars
    BY <2>1 DEF commandVars, CommandsInv, Commands!Holding
  <2>2. CASE Commands!Next
    BY <2>2, GoroutineKeeps, OthersKeep DEF Commands!Next
  <2>3. QED
    BY <2>1, <2>2, CommandsAlone
<1>3. CommandsInv => Commands!TypeOK
  BY CommandsAssumed DEF CommandsInv, Commands!TypeOK, TaskStates, Results
<1>4. QED
  BY <1>1, <1>2, <1>3, PTL DEF Spec


--------------------------------------------------------------------------
(* The sources of a user. *)

\* Pruning takes nothing that is younger than its window: an event the server
\* has forgotten is older.
PrunedInv ==
  \A i \in Places : /\ truth[i] <= recent[i]
                    /\ recent[i] # truth[i] => /\ recent[i] = Count!Gone
                                               /\ truth[i] > HeuristicsWindow

CountInv == Count!TypeOK /\ PrunedInv

(* A step of the services is one of the counting or leaves it alone.        *)
LEMMA CountAlone ==
  ASSUME [Next]_vars
  PROVE  Count!Next \/ UNCHANGED sourceVars
BY DEF Next, vars, QueuesStep, HubStep, PublisherStep, ConfigStep, LoginStep, CacheStep,
       HealthStep, CountStep, CommandsStep, TerminalStep, AllOver, OthersRest

(* What Services assumes of the constants of the counting.                  *)
LEMMA CountAssumed ==
  /\ SourceWindow \in Nat /\ HeuristicsWindow \in Nat /\ MaxWait \in Nat
  /\ Count!Gone \in Nat /\ Count!Gone > HeuristicsWindow
  /\ IsFiniteSet(Places)
  /\ \A S : Count!Cardinality(S) = Cardinality(S)
<1>1. \A S : Count!IsFiniteSet(S) <=> IsFiniteSet(S)
  BY Zenon DEF IsFiniteSet, Count!IsFiniteSet
<1>2. \A S : Count!Cardinality(S) = Cardinality(S)
  BY Zenon DEF Cardinality, Count!Cardinality
<1>3. QED
  BY <1>1, <1>2, ServicesAssumption DEF Count!SourceAssumption, Count!Gone

(* The sources are no more than the addresses that have them.               *)
LEMMA KeysBounded ==
  ASSUME NEW ips \in SUBSET Places, NEW mobile
  PROVE  Cardinality(Count!Keys(ips, mobile)) \in 0..Cardinality(Places)
<1> DEFINE Key(i) == IF i \in mobile THEN MobileNetOf[i] ELSE NetOf[i]
           K == Count!Keys(ips, mobile)
           f == [i \in ips |-> Key(i)]
<1>1. f \in Surjection(ips, K)
  BY DEF Count!Keys, Surjection
<1>2. IsFiniteSet(ips) /\ Cardinality(ips) <= Cardinality(Places)
  BY CountAssumed, FS_Subset
<1>3. IsFiniteSet(K) /\ Cardinality(K) <= Cardinality(ips)
  BY <1>1, <1>2, FS_Surjection
<1>4. Cardinality(K) \in Nat /\ Cardinality(ips) \in Nat /\ Cardinality(Places) \in Nat
  BY <1>2, <1>3, CountAssumed, FS_CardinalityType
<1> HIDE DEF K, f
<1>5. Cardinality(K) \in 0..Cardinality(Places)
  BY <1>2, <1>3, <1>4
<1>6. QED
  BY <1>5 DEF K

(* An entry is recorded: what is pruned is too old for its window.          *)
LEMMA RecordKeeps ==
  ASSUME CountInv, NEW w \in Recorders, NEW i \in Places, Count!RecordEvent(w, i)
  PROVE  CountInv'
<1>1. /\ handling' = [handling EXCEPT ![w] = i] /\ read' = [read EXCEPT ![w] = 0]
      /\ recent' = [j \in Places |-> IF j = i THEN 0
                                     ELSE IF recent[j] <= HeuristicsWindow THEN recent[j]
                                     ELSE Count!Gone]
      /\ truth' = [truth EXCEPT ![i] = 0]
      /\ UNCHANGED <<active, seen, sources>>
  BY DEF Count!RecordEvent, Count!Kept
<1>2. /\ recent \in [Places -> 0..Count!Gone] /\ truth \in [Places -> 0..Count!Gone]
      /\ handling \in [Recorders -> Places \cup {Count!Nobody}]
      /\ read \in [Recorders -> 0..MaxWait]
  BY DEF CountInv, Count!TypeOK
<1>3. recent' \in [Places -> 0..Count!Gone] /\ truth' \in [Places -> 0..Count!Gone]
  BY <1>1, <1>2, CountAssumed
<1>4. handling' \in [Recorders -> Places \cup {Count!Nobody}] /\ read' \in [Recorders -> 0..MaxWait]
  BY <1>1, <1>2, CountAssumed
<1>5. Count!TypeOK'
  BY <1>1, <1>3, <1>4 DEF CountInv, Count!TypeOK, Count!Gone
<1>6. ASSUME NEW j \in Places
      PROVE  /\ truth'[j] <= recent'[j]
             /\ recent'[j] # truth'[j] => recent'[j] = Count!Gone /\ truth'[j] > HeuristicsWindow
  <2>1. CASE j = i
    <3>1. recent'[j] = 0 /\ truth'[j] = 0
      BY <1>1, <1>2, <2>1
    <3>2. QED
      BY <3>1
  <2>2. CASE j # i
    <3>1. /\ recent'[j] = IF recent[j] <= HeuristicsWindow THEN recent[j] ELSE Count!Gone
          /\ truth'[j] = truth[j] /\ truth[j] \in 0..Count!Gone /\ recent[j] \in 0..Count!Gone
      BY <1>1, <1>2, <2>2
    <3>2. /\ truth[j] <= recent[j]
          /\ recent[j] # truth[j] => recent[j] = Count!Gone /\ truth[j] > HeuristicsWindow
      BY DEF CountInv, PrunedInv
    <3>3. CASE recent[j] <= HeuristicsWindow
      BY <3>1, <3>2, <3>3
    <3>4. CASE ~(recent[j] <= HeuristicsWindow)
      <4>1. truth[j] > HeuristicsWindow
        BY <3>1, <3>2, <3>4, CountAssumed
      <4>2. QED
        BY <3>1, <3>4, <4>1
    <3>5. QED
      BY <3>3, <3>4
  <2>3. QED
    BY <2>1, <2>2
<1>7. PrunedInv'
  BY <1>6 DEF PrunedInv, Count!Gone
<1>8. QED
  BY <1>5, <1>7 DEF CountInv

(* A count leaves the events alone.                                         *)
LEMMA CountKeeps ==
  ASSUME CountInv, NEW w \in Recorders, Count!CountSources(w) \/ Count!Abandon(w)
  PROVE  CountInv'
<1>1. /\ UNCHANGED <<recent, truth>> /\ handling[w] # Count!Nobody
      /\ handling' = [handling EXCEPT ![w] = Count!Nobody] /\ read' = [read EXCEPT ![w] = 0]
  BY DEF Count!CountSources, Count!Abandon
<1>2. handling' \in [Recorders -> Places \cup {Count!Nobody}] /\ read' \in [Recorders -> 0..MaxWait]
  BY <1>1, CountAssumed DEF CountInv, Count!TypeOK
<1>3. active' \subseteq Places /\ seen' \subseteq Places /\ sources' \in 0..Cardinality(Places)
  <2>1. CASE Count!CountSources(w)
    <3>1. PICK ips \in SUBSET Places : \E mobile \in SUBSET Places :
            /\ active' = ips
            /\ seen' = Count!TakenIn(w, ips)
            /\ sources' = Cardinality(Count!Keys(seen', mobile))
      BY <2>1, CountAssumed DEF Count!CountSources
    <3>2. PICK mobile \in SUBSET Places : sources' = Cardinality(Count!Keys(seen', mobile))
      BY <3>1
    <3>3. handling[w] \in Places
      BY <1>1 DEF CountInv, Count!TypeOK
    <3>4. seen' \subseteq Places
      BY <3>1, <3>3 DEF Count!TakenIn
    <3>5. QED
      BY <3>1, <3>2, <3>4, KeysBounded
  <2>2. CASE Count!Abandon(w)
    BY <2>2, CountAssumed DEF Count!Abandon, CountInv, Count!TypeOK
  <2>3. QED
    BY <2>1, <2>2
<1>4. Count!TypeOK'
  BY <1>1, <1>2, <1>3, CountAssumed DEF CountInv, Count!TypeOK, Count!Gone
<1>5. PrunedInv'
  BY <1>1 DEF CountInv, PrunedInv, Count!Gone
<1>6. QED
  BY <1>4, <1>5 DEF CountInv

(* Ages grow together, and no further than Gone.                            *)
LEMMA AgesGrow ==
  ASSUME NEW r \in 0..Count!Gone, NEW t \in 0..Count!Gone, t <= r,
         r # t => r = Count!Gone /\ t > HeuristicsWindow
  PROVE  /\ Count!Older(r) \in 0..Count!Gone /\ Count!Older(t) \in 0..Count!Gone
         /\ Count!Older(t) <= Count!Older(r)
         /\ Count!Older(r) # Count!Older(t) => /\ Count!Older(r) = Count!Gone
                                               /\ Count!Older(t) > HeuristicsWindow
BY CountAssumed DEF Count!Older

(* Time passes.                                                             *)
LEMMA AgeingKeeps ==
  ASSUME CountInv, Count!Tick
  PROVE  CountInv'
<1>1. /\ \A w \in Recorders : handling[w] # Count!Nobody => read[w] < MaxWait
      /\ recent' = [i \in Places |-> Count!Older(recent[i])]
      /\ truth' = [i \in Places |-> Count!Older(truth[i])]
      /\ read' = [w \in Recorders |-> IF handling[w] = Count!Nobody THEN 0 ELSE read[w] + 1]
      /\ UNCHANGED <<handling, active, seen, sources>>
  BY DEF Count!Tick
<1>2. ASSUME NEW i \in Places
      PROVE  /\ recent'[i] \in 0..Count!Gone /\ truth'[i] \in 0..Count!Gone
             /\ truth'[i] <= recent'[i]
             /\ recent'[i] # truth'[i] => recent'[i] = Count!Gone /\ truth'[i] > HeuristicsWindow
  <2>1. recent'[i] = Count!Older(recent[i]) /\ truth'[i] = Count!Older(truth[i])
    BY <1>1
  <2>2. /\ recent[i] \in 0..Count!Gone /\ truth[i] \in 0..Count!Gone /\ truth[i] <= recent[i]
        /\ recent[i] # truth[i] => recent[i] = Count!Gone /\ truth[i] > HeuristicsWindow
    BY DEF CountInv, PrunedInv, Count!TypeOK
  <2>3. QED
    BY <2>1, <2>2, AgesGrow
<1>3. recent' \in [Places -> 0..Count!Gone] /\ truth' \in [Places -> 0..Count!Gone]
  BY <1>1, <1>2
<1>4. read' \in [Recorders -> 0..MaxWait]
  <2>1. \A w \in Recorders : read[w] \in 0..MaxWait
    BY DEF CountInv, Count!TypeOK
  <2>2. \A w \in Recorders : (IF handling[w] = Count!Nobody THEN 0 ELSE read[w] + 1) \in 0..MaxWait
    BY <1>1, <2>1, CountAssumed
  <2>3. QED
    BY <1>1, <2>2
<1>5. Count!TypeOK'
  BY <1>1, <1>3, <1>4 DEF CountInv, Count!TypeOK, Count!Gone
<1>6. PrunedInv'
  BY <1>2 DEF PrunedInv, Count!Gone
<1>7. QED
  BY <1>5, <1>6 DEF CountInv

(* The invariant holds at every step.                                       *)
LEMMA CountInvariance == Spec => []CountInv
<1>1. Init => CountInv
  <2> SUFFICES ASSUME Count!Init PROVE CountInv
    BY DEF Init
  <2>1. Cardinality(Places) \in Nat
    BY CountAssumed, FS_CardinalityType
  <2>2. sources \in 0..Count!Cardinality(Places)
    BY <2>1, CountAssumed DEF Count!Init
  <2>3. Count!TypeOK
    BY <2>2, CountAssumed DEF Count!Init, Count!TypeOK
  <2>4. PrunedInv
    BY CountAssumed DEF Count!Init, PrunedInv
  <2>5. QED
    BY <2>3, <2>4 DEF CountInv
<1>2. CountInv /\ [Next]_vars => CountInv'
  <2> SUFFICES ASSUME CountInv, [Next]_vars PROVE CountInv'
    OBVIOUS
  <2>1. CASE UNCHANGED sourceVars
    BY <2>1 DEF sourceVars, CountInv, Count!TypeOK, PrunedInv, Count!Gone
  <2>2. CASE Count!Next
    BY <2>2, RecordKeeps, CountKeeps, AgeingKeeps DEF Count!Next
  <2>3. QED
    BY <2>1, <2>2, CountAlone
<1>3. QED
  BY <1>1, <1>2, PTL DEF Spec

(* The counts keep their types.                                             *)
THEOREM CountTypeCorrect == Spec => []Count!TypeOK
<1>1. CountInv => Count!TypeOK
  BY DEF CountInv
<1>2. QED
  BY <1>1, CountInvariance, PTL

(* A count of sources leaves out no active address seen within the shorter  *)
(* window, and takes in none that was not seen within SourceWindow, though  *)
(* others prune between a worker's record and its count (processor.go,      *)
(* recordUserEvent and countEffectiveSharingSources).                       *)
THEOREM CountsTakeTheWindow == Spec => CountsWindow
<1>1. ASSUME CountInv, NEW w \in Recorders, Count!CountSources(w)
      PROVE  LET least == {i \in active' : truth[i] <= Count!Smaller(SourceWindow + read[w],
                                                                     HeuristicsWindow)}
                 most == {i \in active' : Count!InWindow(w, truth[i])}
             IN least \subseteq seen' /\ seen' \ {handling[w]} \subseteq most
  <2>1. PICK ips \in SUBSET Places : active' = ips /\ seen' = Count!TakenIn(w, ips)
    BY <1>1 DEF Count!CountSources
  <2>2. read[w] \in Nat
    BY <1>1, CountAssumed DEF CountInv, Count!TypeOK
  <2>3. ASSUME NEW i \in ips
        PROVE  /\ truth[i] <= Count!Smaller(SourceWindow + read[w], HeuristicsWindow)
                    => recent[i] <= SourceWindow + read[w]
               /\ recent[i] <= SourceWindow + read[w] => truth[i] <= SourceWindow + read[w]
    <3>1. /\ recent[i] \in Nat /\ truth[i] \in Nat /\ truth[i] <= recent[i]
          /\ recent[i] # truth[i] => truth[i] > HeuristicsWindow
      BY <1>1, CountAssumed DEF CountInv, Count!TypeOK, PrunedInv
    <3>2. QED
      BY <2>2, <3>1, CountAssumed DEF Count!Smaller
  <2>4. QED
    BY <2>1, <2>3 DEF Count!TakenIn, Count!InWindow
<1>2. CountInv /\ [Next]_vars =>
        [\A w \in Recorders : Count!CountSources(w) =>
            LET least == {i \in active' : truth[i] <= Count!Smaller(SourceWindow + read[w],
                                                                    HeuristicsWindow)}
                most == {i \in active' : Count!InWindow(w, truth[i])}
            IN least \subseteq seen' /\ seen' \ {handling[w]} \subseteq most
        ]_<<recent, truth, handling, read, active, seen, sources>>
  BY <1>1
<1>3. QED
  BY <1>2, CountInvariance, PTL
     DEF Spec, CountsWindow, Count!CountsWindow, Count!sourceVars

--------------------------------------------------------------------------
(* All of them. *)

\* One of the components runs.
OneRuns == part \in Parts

(* The state of every service has its type.                                 *)
THEOREM ServicesTypeCorrect == Spec => []TypeOK
<1>1. Spec => []OneRuns
  <2>1. Init => OneRuns
    BY DEF Init, OneRuns
  <2>2. OneRuns /\ [Next]_vars => OneRuns'
    BY DEF OneRuns, Parts, Next, vars, QueuesStep, HubStep, PublisherStep, ConfigStep, LoginStep,
           CacheStep, HealthStep, CountStep, CommandsStep, TerminalStep, AllOver, OthersRest
  <2>3. QED
    BY <2>1, <2>2, PTL DEF Spec
<1>2. HealthInv => Health!TypeOK
  BY DEF HealthInv
<1>3. /\ OneRuns
      /\ WQ!TypeOK /\ Hub!TypeOK /\ Pub!TypeOK /\ Config!TypeOK
      /\ Entrance!TypeOK /\ Cache!TypeOK /\ Health!TypeOK /\ Count!TypeOK
      /\ Commands!TypeOK /\ Terminal!TypeOK
      => TypeOK
  BY DEF TypeOK, OneRuns
<1>4. QED
  BY <1>1, <1>2, <1>3, QueuesTypeCorrect, HubTypeCorrect, PublisherTypeCorrect, ConfigTypeCorrect,
     LoginTypeCorrect, CacheTypeCorrect, HealthInvariance, CountTypeCorrect, CommandsTypeCorrect,
     TerminalTypeCorrect, PTL

=============================================================================
