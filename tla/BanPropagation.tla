---------------------------- MODULE BanPropagation ----------------------------
(***************************************************************************)
(* A block or unblock order on its way from the service to the packet      *)
(* filters of the nodes, and the reports on their way back to the list of  *)
(* active bans.  The service publishes to a fanout exchange; each node's   *)
(* worker reads its own exclusive queue one message at a time, changes its *)
(* nft set and reports per address; the status consumer applies reports.   *)
(*                                                                         *)
(* A duration is the number of ticks it lasts; two more numbers stand for  *)
(* a permanent one and for one the node's pattern rejects.  The publisher  *)
(* is a single step here with every outcome its retries can have.  The     *)
(* broker and the kernel's set are external: exclusive queues die with     *)
(* their connection, and adding an address that is in the set already      *)
(* replaces its timeout or leaves it, as the kernel's version has it.      *)
(* The server reckons the end of a ban from the time in the node's report: *)
(* one clock here, which assumes that those of node and server agree.      *)
(* Operators named Faulty... are wrong variants of the next definition.    *)
(***************************************************************************)
EXTENDS Naturals, Sequences, FiniteSets, SequencesExt

CONSTANTS Nodes,        \* nodes with a blocker worker
          Addresses,    \* addresses that are blocked and unblocked
          MaxDuration,  \* longest timed ban
          Refreshes,    \* adding an element again replaces its timeout
          MaxOrders,    \* bound on the messages published
          MaxFaults     \* bound on the failures of network and nft

ASSUME PropagationAssumption == /\ IsFiniteSet(Addresses)
                                /\ MaxDuration \in Nat \ {0}
                                /\ Refreshes \in BOOLEAN
                                /\ MaxOrders \in Nat
                                /\ MaxFaults \in Nat

Absent == 0
Permanent == MaxDuration + 1
Malformed == MaxDuration + 2
Timed == 1..MaxDuration

VARIABLES bound,        \* the node's queue is bound to the exchange
          inbox,        \* messages in the node's queue, not yet delivered
          handling,     \* the message its worker is busy with, as a set
          rules,        \* what the node's nft set holds of each address
          reports,      \* reports the worker has still to publish
          reporting,    \* the node's reporter is connected
          statusBound,  \* the status consumer's queue is bound
          statusQueue,  \* reports in that queue
          activeBans,   \* the processor's confirmed bans
          lastBlocked,  \* lastBlockedIPs of the user
          orders,       \* messages published so far
          faults,       \* failures so far
          ordered,      \* history: the last order the broker took
          missed,       \* history: addresses of which a node missed an order
          unreported    \* history: nodes some report of which was lost

brokerVars == <<bound, inbox, statusBound, statusQueue>>
nodeVars == <<handling, rules, reports, reporting>>
serviceVars == <<activeBans, lastBlocked>>
historyVars == <<ordered, missed, unreported>>
banVars == <<brokerVars, nodeVars, serviceVars, historyVars, orders, faults>>

NoBan == [node |-> {}, left |-> Absent]
Block(ips, duration) == [action |-> "block", ips |-> ips, left |-> duration]
Unblock(ips) == [action |-> "unblock", ips |-> ips, left |-> Absent]

Init == /\ bound = [n \in Nodes |-> TRUE]
        /\ inbox = [n \in Nodes |-> <<>>]
        /\ handling = [n \in Nodes |-> {}]
        /\ rules = [n \in Nodes |-> [a \in Addresses |-> Absent]]
        /\ reports = [n \in Nodes |-> <<>>]
        /\ reporting = [n \in Nodes |-> TRUE]
        /\ statusBound = TRUE
        /\ statusQueue = <<>>
        /\ activeBans = [a \in Addresses |-> NoBan]
        /\ lastBlocked = {}
        /\ orders = 0
        /\ faults = 0
        /\ ordered = [a \in Addresses |-> Unblock({})]
        /\ missed = [n \in Nodes |-> {}]
        /\ unreported = {}

-----------------------------------------------------------------------------
(* The publisher and its callers. *)

\* How publishMessage may end: copies of the message the broker took, the
\* result it returns, and the failures that took.  An error may hide a copy
\* that went through, and a retry adds another; a connection lost in silence
\* takes a message that was published without error.
Outcomes == {[copies |-> 1, ok |-> TRUE, cost |-> 0],
             [copies |-> 0, ok |-> FALSE, cost |-> 1],
             [copies |-> 0, ok |-> TRUE, cost |-> 1],
             [copies |-> 1, ok |-> FALSE, cost |-> 1],
             [copies |-> 2, ok |-> TRUE, cost |-> 1]}

Publish(order, how) ==
    /\ orders < MaxOrders
    /\ orders' = orders + 1
    /\ faults + how.cost <= MaxFaults
    /\ faults' = faults + how.cost
    /\ inbox' = [n \in Nodes |-> IF bound[n]
                                 THEN inbox[n] \o [i \in 1..how.copies |-> order]
                                 ELSE inbox[n]]
    /\ IF how.copies = 0
       THEN UNCHANGED <<ordered, missed>>
       ELSE /\ ordered' = [a \in Addresses |-> IF a \in order.ips THEN order ELSE ordered[a]]
            /\ missed' = [n \in Nodes |-> IF bound[n] THEN missed[n]
                                          ELSE missed[n] \cup order.ips]
    /\ UNCHANGED <<bound, statusBound, statusQueue, nodeVars, activeBans, unreported>>

RecordBlockedIPs(ips) == lastBlocked' = ips

\* The block of an entry.  Its duration comes from the environment or the
\* ladder of bans, which nothing checks against the node's pattern.
BlockForEntry(ips, duration, how) ==
    /\ ips # {}
    /\ Publish(Block(ips, duration), how)
    /\ IF how.ok THEN RecordBlockedIPs(ips) ELSE UNCHANGED lastBlocked

\* handleManualBlock validates the duration and takes the active addresses
\* of the user or, when there is none, the last blocked ones.
ManualBlock(active, duration, how) ==
    LET ips == IF active # {} THEN active ELSE lastBlocked
    IN /\ duration # Malformed
       /\ ips # {}
       /\ Publish(Block(ips, duration), how)
       /\ IF how.ok THEN RecordBlockedIPs(ips) ELSE UNCHANGED lastBlocked

\* handleManualUnblock: the addresses named or else active, or the last
\* blocked ones, which stay on record.
ManualUnblock(chosen, how) ==
    LET ips == IF chosen # {} THEN chosen ELSE lastBlocked
    IN /\ ips # {}
       /\ Publish(Unblock(ips), how)
       /\ UNCHANGED lastBlocked

-----------------------------------------------------------------------------
(* The worker of a node. *)

FaultyDelivery(queue) == [order |-> Last(queue), rest |-> Front(queue)]
\* Qos(1): the next message is delivered when the last one is settled.
Delivery(queue) == [order |-> Head(queue), rest |-> Tail(queue)]

FaultyAccepts(order) == TRUE
\* Process rejects a duration that is neither permanent nor <digits>[smhd].
Accepts(order) == order.left # Malformed

FaultySettled(queue, order) == Append(queue, order)
\* Neither Ack nor Nack(requeue = false) puts the message back.
Settled(queue, order) == queue

Added(old, new) == IF old = Absent \/ Refreshes THEN new ELSE old

\* nft on one address: deleting what is not in the set fails.
NftWorks(n, a, order) == order.action = "block" \/ rules[n][a] # Absent
NftResult(n, a, order) == IF order.action = "unblock" THEN Absent
                          ELSE Added(rules[n][a], order.left)

ReportOf(n, a, order, works) ==
    [node |-> n, action |-> order.action, ip |-> a, left |-> order.left, success |-> works]

\* handleMessage up to the reports.  The commands of the addresses run in
\* parallel, each may fail, and the reports are in the order they end.
HandleMessage(n, broken) ==
    /\ bound[n]
    /\ handling[n] = {}
    /\ inbox[n] # <<>>
    /\ faults + Cardinality(broken) <= MaxFaults
    /\ LET next == Delivery(inbox[n])
           order == next.order
           works(a) == a \notin broken /\ NftWorks(n, a, order)
       IN /\ broken \subseteq order.ips
          /\ IF Accepts(order)
             THEN /\ handling' = [handling EXCEPT ![n] = {order}]
                  /\ rules' = [rules EXCEPT ![n] =
                        [a \in Addresses |-> IF a \in order.ips /\ works(a)
                                             THEN NftResult(n, a, order) ELSE rules[n][a]]]
                  /\ \E seq \in SetToSeqs(order.ips) :
                        reports' = [reports EXCEPT ![n] =
                            [i \in 1..Len(seq) |-> ReportOf(n, seq[i], order, works(seq[i]))]]
                  /\ inbox' = [inbox EXCEPT ![n] = next.rest]
             ELSE /\ inbox' = [inbox EXCEPT ![n] = Settled(next.rest, order)]
                  /\ UNCHANGED <<handling, rules, reports>>
          /\ missed' = [missed EXCEPT ![n] = @ \cup broken \cup
                                IF Accepts(order) THEN {} ELSE order.ips]
    /\ faults' = faults + Cardinality(broken)
    /\ UNCHANGED <<bound, reporting, statusBound, statusQueue, serviceVars, ordered,
                   unreported, orders>>

\* One report to the status exchange, which keeps it only for a bound queue.
PublishReport(n) ==
    /\ reports[n] # <<>>
    /\ reports' = [reports EXCEPT ![n] = Tail(@)]
    /\ IF reporting[n] /\ statusBound
       THEN /\ statusQueue' = Append(statusQueue, Head(reports[n]))
            /\ UNCHANGED unreported
       ELSE /\ unreported' = unreported \cup {n}
            /\ UNCHANGED statusQueue
    /\ UNCHANGED <<bound, inbox, statusBound, handling, rules, reporting, serviceVars,
                   ordered, missed, orders, faults>>

\* The message is acknowledged after its reports; on a connection that is
\* gone the Ack fails, and the queue it came from is gone as well.
AckMessage(n) ==
    /\ handling[n] # {}
    /\ reports[n] = <<>>
    /\ handling' = [handling EXCEPT ![n] = {}]
    /\ IF bound[n]
       THEN \E order \in handling[n] :
                inbox' = [inbox EXCEPT ![n] = Settled(@, order)]
       ELSE UNCHANGED inbox
    /\ UNCHANGED <<bound, statusBound, statusQueue, rules, reports, reporting,
                   serviceVars, historyVars, orders, faults>>

\* The session of a worker ends: its exclusive queue goes, the orders in it
\* are never delivered again, and a handler that runs runs on.
Disconnect(n) ==
    /\ bound[n]
    /\ faults < MaxFaults
    /\ faults' = faults + 1
    /\ bound' = [bound EXCEPT ![n] = FALSE]
    /\ inbox' = [inbox EXCEPT ![n] = <<>>]
    /\ missed' = [missed EXCEPT ![n] = @ \cup UNION {inbox[n][i].ips : i \in DOMAIN inbox[n]}]
    /\ reporting' = [reporting EXCEPT ![n] = FALSE]
    /\ UNCHANGED <<statusBound, statusQueue, handling, rules, reports, serviceVars,
                   ordered, unreported, orders>>

\* The reporter has a connection of its own, which nobody looks after until
\* the session ends.
LoseReporter(n) ==
    /\ reporting[n]
    /\ faults < MaxFaults
    /\ faults' = faults + 1
    /\ reporting' = [reporting EXCEPT ![n] = FALSE]
    /\ UNCHANGED <<brokerVars, handling, rules, reports, serviceVars, historyVars, orders>>

\* Run opens a session after the last handler returned; it goes on without a
\* reporter when that one does not connect.
Reconnect(n) ==
    /\ ~bound[n]
    /\ handling[n] = {}
    /\ bound' = [bound EXCEPT ![n] = TRUE]
    /\ \/ reporting' = [reporting EXCEPT ![n] = TRUE] /\ UNCHANGED faults
       \/ faults < MaxFaults /\ faults' = faults + 1 /\ UNCHANGED reporting
    /\ UNCHANGED <<inbox, statusBound, statusQueue, handling, rules, reports,
                   serviceVars, historyVars, orders>>

-----------------------------------------------------------------------------
(* The status consumer and the processor's active bans. *)

FaultyShows(report) == report.action = "block"
\* A report changes the bans only when the command succeeded.
Shows(report) == report.success

Expired(ban) == ban.node # {} /\ ban.left = Absent
Cleaned(bans) == [a \in Addresses |-> IF Expired(bans[a]) THEN NoBan ELSE bans[a]]

\* ApplyBlockerReport: a ban is kept under its address with the node that
\* reported last.  (nodeState, which it also stamps, is module NodeHealth.)
ApplyReport ==
    /\ statusBound
    /\ statusQueue # <<>>
    /\ LET report == Head(statusQueue)
       IN IF Shows(report)
          THEN activeBans' = Cleaned([activeBans EXCEPT ![report.ip] =
                    IF report.action = "unblock" THEN NoBan
                    ELSE [node |-> {report.node}, left |-> report.left]])
          ELSE UNCHANGED activeBans
    /\ statusQueue' = Tail(statusQueue)
    /\ UNCHANGED <<bound, inbox, statusBound, nodeVars, lastBlocked, historyVars, orders, faults>>

\* GetActiveBans and IsIPActivelyBanned drop expired bans before they answer.
ReadActiveBans == /\ activeBans' = Cleaned(activeBans)
                  /\ activeBans' # activeBans
                  /\ UNCHANGED <<brokerVars, nodeVars, lastBlocked, historyVars, orders, faults>>

Sources(queue) == {queue[i].node : i \in DOMAIN queue}

\* The exclusive status queue goes with its connection.
StatusDisconnect ==
    /\ statusBound
    /\ faults < MaxFaults
    /\ faults' = faults + 1
    /\ statusBound' = FALSE
    /\ statusQueue' = <<>>
    /\ unreported' = unreported \cup Sources(statusQueue)
    /\ UNCHANGED <<bound, inbox, nodeVars, serviceVars, ordered, missed, orders>>

StatusReconnect == /\ ~statusBound
                   /\ statusBound' = TRUE
                   /\ UNCHANGED <<bound, inbox, statusQueue, nodeVars, serviceVars,
                                  historyVars, orders, faults>>

\* A restart of the service loses what the processor holds in memory.
RestartService ==
    /\ faults < MaxFaults
    /\ faults' = faults + 1
    /\ statusBound' = FALSE
    /\ statusQueue' = <<>>
    /\ activeBans' = [a \in Addresses |-> NoBan]
    /\ lastBlocked' = {}
    /\ unreported' = {}
    /\ UNCHANGED <<bound, inbox, nodeVars, ordered, missed, orders>>

-----------------------------------------------------------------------------
(* Time. *)

Less(left) == IF left \in Timed THEN left - 1 ELSE left
LessOf(report) == [report EXCEPT !.left = Less(report.left)]

\* A report is dated when nft returned, so its ban is running already.
Tick == /\ \E n \in Nodes, a \in Addresses : \/ rules[n][a] \in Timed
                                             \/ activeBans[a].left \in Timed
        /\ rules' = [n \in Nodes |-> [a \in Addresses |-> Less(rules[n][a])]]
        /\ reports' = [n \in Nodes |-> [i \in DOMAIN reports[n] |-> LessOf(reports[n][i])]]
        /\ statusQueue' = [i \in DOMAIN statusQueue |-> LessOf(statusQueue[i])]
        /\ activeBans' = [a \in Addresses |->
                [activeBans[a] EXCEPT !.left = Less(activeBans[a].left)]]
        /\ UNCHANGED <<bound, inbox, statusBound, handling, reporting, lastBlocked,
                       historyVars, orders, faults>>

\* Nothing is under way: an idle system waits for the next order.
Settles == /\ \A n \in Nodes : bound[n] /\ inbox[n] = <<>> /\ handling[n] = {}
           /\ statusBound
           /\ statusQueue = <<>>
Rest == /\ Settles
        /\ orders = MaxOrders
        /\ UNCHANGED banVars

-----------------------------------------------------------------------------
Durations == Timed \cup {Permanent, Malformed}

Callers == \E ips \in SUBSET Addresses, how \in Outcomes :
              \/ \E d \in Durations : BlockForEntry(ips, d, how) \/ ManualBlock(ips, d, how)
              \/ ManualUnblock(ips, how)
NodeStep(n) == \/ \E broken \in SUBSET Addresses : HandleMessage(n, broken)
               \/ PublishReport(n)
               \/ AckMessage(n)
Failures == \/ \E n \in Nodes : Disconnect(n) \/ LoseReporter(n)
            \/ StatusDisconnect
            \/ RestartService

Next == \/ Callers
        \/ \E n \in Nodes : NodeStep(n) \/ Reconnect(n)
        \/ ApplyReport
        \/ ReadActiveBans
        \/ StatusReconnect
        \/ Failures
        \/ Tick
        \/ Rest

\* A worker takes and finishes its messages, the consumer its reports, and
\* both reconnect.
Spec == /\ Init
        /\ [][Next]_banVars
        /\ \A n \in Nodes : WF_banVars(NodeStep(n)) /\ WF_banVars(Reconnect(n))
        /\ WF_banVars(ApplyReport)
        /\ WF_banVars(StatusReconnect)

-----------------------------------------------------------------------------
Orders == [action : {"block", "unblock"}, ips : SUBSET Addresses, left : 0..Malformed]
Reports == [node : Nodes, action : {"block", "unblock"}, ip : Addresses,
            left : 0..Permanent, success : BOOLEAN]

TypeOK == /\ bound \in [Nodes -> BOOLEAN]
          /\ inbox \in [Nodes -> Seq(Orders)]
          /\ handling \in [Nodes -> SUBSET Orders]
          /\ rules \in [Nodes -> [Addresses -> 0..Permanent]]
          /\ reports \in [Nodes -> Seq(Reports)]
          /\ reporting \in [Nodes -> BOOLEAN]
          /\ statusBound \in BOOLEAN
          /\ statusQueue \in Seq(Reports)
          /\ activeBans \in [Addresses -> [node : SUBSET Nodes, left : 0..Permanent]]
          /\ lastBlocked \subseteq Addresses
          /\ orders \in 0..MaxOrders
          /\ faults \in 0..MaxFaults

Idle(n) == bound[n] /\ inbox[n] = <<>> /\ handling[n] = {}

\* What an order asks of a node's set for an address.  A kernel that keeps the
\* timeout of an element need not keep a block's time.
Conforms(order, left) ==
    /\ order.action = "unblock" => left = Absent
    /\ order.action = "block" /\ order.left = Permanent /\ Refreshes => left = Permanent
    /\ order.action = "block" /\ order.left \in Timed /\ Refreshes => left <= order.left

\* A node that is through with its queue, and never missed an order about an
\* address, enforces the last one the exchange carried: it lets an unblocked
\* address pass, keeps a permanent block for good, and drops a timed one in
\* time.
EnforcedAsOrdered ==
    \A n \in Nodes, a \in Addresses :
        Idle(n) /\ a \notin missed[n] => Conforms(ordered[a], rules[n][a])

PendingOf(n) == {report \in Range(reports[n]) \cup Range(statusQueue) : report.node = n}

\* A ban on the panel is a ban on the node it names, for the same time, once
\* that node's reports are in and none of them was lost, however the reports
\* of several nodes overtook each other and whatever nft refused, as long as
\* the clocks of node and server agree.
PanelTellsTruth ==
    \A a \in Addresses, n \in Nodes :
        /\ n \in activeBans[a].node \ unreported
        /\ PendingOf(n) = {}
        /\ Refreshes
        => rules[n][a] = activeBans[a].left

\* Every order and every report gets through or is lost: no message stays in
\* a queue for good, not even one the node refuses.
PropagationSettles == []<>Settles
=============================================================================
