------------------------- MODULE BanPropagationProofs -------------------------
(***************************************************************************)
(* Proofs about BanPropagation, for any nodes, finite sets of addresses,   *)
(* durations, orders and failures.                                         *)
(*                                                                         *)
(* Two arguments run beside each other.  On the way out: the last message  *)
(* in a node's queue that names an address is the last order about it, or  *)
(* else the node's set conforms to that order already.  On the way back:   *)
(* of the reports a node has sent about an address and that still wait,    *)
(* the last that tells of a success agrees with the node's set; when none  *)
(* waits, the list of active bans does.                                    *)
(***************************************************************************)
EXTENDS BanPropagation, SequenceTheorems, FiniteSetTheorems, TLAPS

\* The messages of a node's queue that name an address.
Mentions(n, a) == {i \in DOMAIN inbox[n] : a \in inbox[n][i].ips}

MailInv ==
    \A n \in Nodes :
        /\ ~bound[n] => inbox[n] = <<>>
        /\ \A a \in Addresses \ missed[n] :
             /\ Mentions(n, a) = {} => Conforms(ordered[a], rules[n][a])
             /\ \A i \in Mentions(n, a) :
                  (\A j \in Mentions(n, a) : j <= i) => inbox[n][i] = ordered[a]

\* What a report of success says of the node's set for its address.
Matches(report, left) ==
    IF report.action = "unblock" THEN left = Absent ELSE left = report.left

\* A report of success about an address waits at the node...
Told(n, a) == \E i \in DOMAIN reports[n] : reports[n][i].ip = a /\ reports[n][i].success

\* ... or in the status queue, behind position k.
About(report, n, a) == report.node = n /\ report.ip = a /\ report.success
Later(n, a, k) == \E i \in DOMAIN statusQueue : i > k /\ About(statusQueue[i], n, a)

\* A worker sends the reports of one message before it takes the next.
ReportsInv ==
    \A n \in Nodes :
        /\ handling[n] = {} => reports[n] = <<>>
        /\ \A i \in DOMAIN reports[n] :
             /\ reports[n][i].node = n
             /\ Refreshes /\ reports[n][i].success
                  => Matches(reports[n][i], rules[n][reports[n][i].ip])

\* What is known of a node's set for an address.
Known(n, a) ==
    /\ \A k \in DOMAIN statusQueue :
         About(statusQueue[k], n, a) /\ ~Later(n, a, k) => Matches(statusQueue[k], rules[n][a])
    /\ n \in activeBans[a].node /\ ~Later(n, a, 0) => rules[n][a] = activeBans[a].left

QueueInv ==
    Refreshes => \A n \in Nodes \ unreported, a \in Addresses : ~Told(n, a) => Known(n, a)

HistoryInv == /\ ordered \in [Addresses -> Orders]
              /\ missed \in [Nodes -> SUBSET Addresses]
              /\ unreported \subseteq Nodes

Inv == TypeOK /\ HistoryInv /\ MailInv /\ ReportsInv /\ QueueInv

--------------------------------------------------------------------------
(* Constants and operators *)

(* The numbers that stand for durations.                                    *)
LEMMA Numbers ==
  /\ IsFiniteSet(Addresses) /\ MaxDuration \in Nat \ {0} /\ Refreshes \in BOOLEAN
  /\ MaxOrders \in Nat /\ MaxFaults \in Nat
  /\ Absent = 0 /\ Permanent = MaxDuration + 1 /\ Malformed = MaxDuration + 2
  /\ Timed = 1..MaxDuration
BY PropagationAssumption DEF Absent, Permanent, Malformed, Timed

(* A function on the first numbers is a sequence.                           *)
LEMMA SequenceOf ==
  ASSUME NEW S, NEW k \in Nat, NEW f \in [1..k -> S]
  PROVE  f \in Seq(S) /\ Len(f) = k
<1>1. f \in Seq(S)
  BY SeqDef
<1>2. DOMAIN f = 1..k /\ DOMAIN f = 1..Len(f) /\ Len(f) \in Nat
  BY <1>1, LenProperties
<1>3. QED
  BY <1>1, <1>2

(* The elements of a queue, by their numbers.                               *)
LEMMA Elements ==
  ASSUME NEW S, NEW s \in Seq(S)
  PROVE  /\ Len(s) \in Nat /\ DOMAIN s = 1..Len(s)
         /\ \A i \in 1..Len(s) : s[i] \in S
BY LenProperties, ElementOfSeq

(* Time takes what is left of a ban and of a report about it alike.         *)
LEMMA LessIs ==
  ASSUME NEW v \in 0..Permanent
  PROVE  /\ Less(v) \in 0..Permanent /\ Less(v) <= v
         /\ v = Absent => Less(v) = Absent
         /\ v = Permanent => Less(v) = Permanent
BY Numbers DEF Less

(* A report keeps everything but its time.                                  *)
LEMMA LessOfIs ==
  ASSUME NEW r \in Reports
  PROVE  /\ LessOf(r) \in Reports
         /\ LessOf(r).node = r.node /\ LessOf(r).ip = r.ip /\ LessOf(r).success = r.success
         /\ LessOf(r).action = r.action /\ LessOf(r).left = Less(r.left)
<1>1. r.left \in 0..Permanent
  BY DEF Reports
<1>2. Less(r.left) \in 0..Permanent
  BY <1>1, LessIs
<1>3. QED
  BY <1>2 DEF LessOf, Reports

(* A report and the set it agrees with run out together.                    *)
LEMMA MatchesLess ==
  ASSUME NEW r \in Reports, NEW v \in 0..Permanent, Matches(r, v)
  PROVE  Matches(LessOf(r), Less(v))
BY LessOfIs, LessIs DEF Matches

(* A set that conforms to an order goes on to do so.                        *)
LEMMA ConformsLess ==
  ASSUME NEW order \in Orders, NEW v \in 0..Permanent, Conforms(order, v)
  PROVE  Conforms(order, Less(v))
<1>1. order.left \in 0..Malformed
  BY DEF Orders
<1>2. /\ Less(v) \in Nat /\ v \in Nat /\ Less(v) <= v
      /\ v = Absent => Less(v) = Absent
      /\ v = Permanent => Less(v) = Permanent
  BY LessIs, Numbers
<1>3. order.left \in Nat
  BY <1>1, Numbers
<1>4. QED
  BY <1>2, <1>3 DEF Conforms

(* A message that is carried out leaves what it asks for.                   *)
LEMMA NftConforms ==
  ASSUME TypeOK, NEW n \in Nodes, NEW a \in Addresses, NEW order \in Orders, Accepts(order)
  PROVE  /\ NftResult(n, a, order) \in 0..Permanent
         /\ Conforms(order, NftResult(n, a, order))
         /\ ~NftWorks(n, a, order) => Conforms(order, rules[n][a])
         /\ \A works \in BOOLEAN : Refreshes =>
              Matches(ReportOf(n, a, order, works), NftResult(n, a, order))
<1>1. /\ rules[n][a] \in 0..Permanent
      /\ order.left \in 0..Permanent /\ order.action \in {"block", "unblock"}
  BY Numbers DEF TypeOK, Orders, Accepts
<1>2. CASE order.action = "unblock"
  BY <1>1, <1>2, Numbers DEF NftResult, Conforms, NftWorks, Matches, ReportOf
<1>3. CASE order.action = "block"
  <2>1. /\ NftResult(n, a, order) = Added(rules[n][a], order.left) /\ NftWorks(n, a, order)
        /\ Added(rules[n][a], order.left) \in {rules[n][a], order.left}
        /\ Refreshes => Added(rules[n][a], order.left) = order.left
    BY <1>3 DEF NftResult, Added, NftWorks
  <2>2. Conforms(order, NftResult(n, a, order))
    BY <1>1, <1>3, <2>1 DEF Conforms
  <2>3. QED
    BY <1>1, <1>3, <2>1, <2>2 DEF Matches, ReportOf
<1>4. QED
  BY <1>1, <1>2, <1>3

(* The order in which the commands of the addresses end names each of them. *)
LEMMA OnceEach ==
  ASSUME NEW S \in SUBSET Addresses, NEW seq \in SetToSeqs(S)
  PROVE  /\ seq \in Seq(S)
         /\ \A a \in S : \E i \in 1..Len(seq) : seq[i] = a
<1>1. IsFiniteSet(S) /\ Cardinality(S) \in Nat
  BY Numbers, FS_Subset, FS_CardinalityType
<1>2. /\ seq \in [1..Cardinality(S) -> S]
      /\ \A i, j \in 1..Cardinality(S) : i # j => seq[i] # seq[j]
  BY DEF SetToSeqs
<1>3. seq \in Seq(S) /\ Len(seq) = Cardinality(S)
  BY <1>1, <1>2, SequenceOf
<1>4. IsFiniteSet(1..Cardinality(S)) /\ Cardinality(1..Cardinality(S)) = Cardinality(S)
  BY <1>1, FS_Interval
<1>5. seq \in Injection(1..Cardinality(S), S)
  BY <1>2 DEF Injection, IsInjective
<1>6. seq \in Surjection(1..Cardinality(S), S)
  BY <1>1, <1>4, <1>5, FS_Injection
<1>7. QED
  BY <1>3, <1>6 DEF Surjection

--------------------------------------------------------------------------
(* The orders on their way out *)

(* The nodes start with empty queues and sets.                              *)
LEMMA InitInv == Init => Inv
<1> SUFFICES ASSUME Init PROVE Inv
  OBVIOUS
<1>1. NoBan \in [node : SUBSET Nodes, left : 0..Permanent] /\ Unblock({}) \in Orders
  BY Numbers DEF NoBan, Unblock, Orders
<1>2. <<>> \in Seq(Orders) /\ <<>> \in Seq(Reports)
  BY EmptySeq
<1>3. TypeOK
  BY <1>1, <1>2, Numbers DEF Init, TypeOK
<1>4. HistoryInv
  BY <1>1 DEF Init, HistoryInv
<1>5. DOMAIN <<>> = {}
  BY EmptySeq
<1>6. MailInv
  BY <1>5 DEF Init, MailInv, Mentions, Conforms, Unblock
<1>7. ReportsInv /\ QueueInv
  BY <1>5 DEF Init, ReportsInv, QueueInv, Known, Later, NoBan
<1>8. QED
  BY <1>3, <1>4, <1>6, <1>7 DEF Inv

(* Steps that leave the way out alone, and those that leave the way back.   *)
LEMMA MailStays ==
  ASSUME MailInv, UNCHANGED <<bound, inbox, rules, ordered, missed>>
  PROVE  MailInv'
BY DEF MailInv, Mentions

(* Only the message a worker is busy with may change.                       *)
LEMMA ReportsStay ==
  ASSUME ReportsInv, QueueInv,
         UNCHANGED <<rules, reports, statusQueue, activeBans, unreported>>,
         \A n \in Nodes : handling'[n] = {} => reports[n] = <<>>
  PROVE  ReportsInv' /\ QueueInv'
BY DEF ReportsInv, QueueInv, Told, Known, Later

(* An order is published: to the nodes that are bound it is the last one.   *)
LEMMA PublishKeeps ==
  ASSUME Inv, NEW order \in Orders, NEW how \in Outcomes, Publish(order, how),
         lastBlocked' \subseteq Addresses
  PROVE  Inv'
<1>1. /\ inbox' = [n \in Nodes |-> IF bound[n]
                                  THEN inbox[n] \o [i \in 1..how.copies |-> order]
                                  ELSE inbox[n]]
      /\ how.copies = 0 => UNCHANGED <<ordered, missed>>
      /\ how.copies # 0 =>
           /\ ordered' = [a \in Addresses |-> IF a \in order.ips THEN order ELSE ordered[a]]
           /\ missed' = [n \in Nodes |-> IF bound[n] THEN missed[n] ELSE missed[n] \cup order.ips]
      /\ UNCHANGED <<bound, statusBound, statusQueue, handling, rules, reports, reporting,
                     activeBans, unreported>>
  BY DEF Publish, nodeVars
<1>2. how.copies \in Nat /\ how.cost \in Nat
  BY DEF Outcomes
<1>3. orders' \in 0..MaxOrders /\ faults' \in 0..MaxFaults
  <2>1. /\ orders < MaxOrders /\ orders' = orders + 1
        /\ faults + how.cost <= MaxFaults /\ faults' = faults + how.cost
    BY DEF Publish
  <2>2. orders \in 0..MaxOrders /\ faults \in 0..MaxFaults
    BY DEF Inv, TypeOK
  <2>3. QED
    BY <1>2, <2>1, <2>2, Numbers
<1>4. order.ips \subseteq Addresses
  BY DEF Orders
<1>5. [i \in 1..how.copies |-> order] \in Seq(Orders)
      /\ Len([i \in 1..how.copies |-> order]) = how.copies
  BY <1>2, SequenceOf
<1>6. ASSUME NEW n \in Nodes
      PROVE  /\ inbox'[n] \in Seq(Orders)
             /\ ~bound[n] => inbox'[n] = inbox[n]
             /\ bound[n] => /\ Len(inbox'[n]) = Len(inbox[n]) + how.copies
                            /\ \A i \in 1..Len(inbox[n]) : inbox'[n][i] = inbox[n][i]
                            /\ \A i \in 1..(Len(inbox[n]) + how.copies) :
                                 i > Len(inbox[n]) => inbox'[n][i] = order
  <2>1. inbox[n] \in Seq(Orders)
    BY DEF Inv, TypeOK
  <2>2. CASE ~bound[n]
    BY <1>1, <2>1, <2>2
  <2>3. CASE bound[n]
    <3> DEFINE copies == [i \in 1..how.copies |-> order]
    <3>1. inbox'[n] = inbox[n] \o copies
      BY <1>1, <2>3
    <3>2. /\ copies \in Seq(Orders) /\ Len(copies) = how.copies
          /\ \A i \in 1..how.copies : copies[i] = order
      BY <1>5
    <3> HIDE DEF copies
    <3>3. /\ inbox[n] \o copies \in Seq(Orders)
          /\ Len(inbox[n] \o copies) = Len(inbox[n]) + how.copies
          /\ \A i \in 1..(Len(inbox[n]) + how.copies) :
               (inbox[n] \o copies)[i] = IF i <= Len(inbox[n]) THEN inbox[n][i]
                                         ELSE copies[i - Len(inbox[n])]
      <4>1. \A s, t \in Seq(Orders) :
              /\ s \o t \in Seq(Orders) /\ Len(s \o t) = Len(s) + Len(t)
              /\ \A i \in 1..(Len(s) + Len(t)) :
                   (s \o t)[i] = IF i <= Len(s) THEN s[i] ELSE t[i - Len(s)]
        BY ConcatProperties
      <4>2. /\ inbox[n] \o copies \in Seq(Orders)
            /\ Len(inbox[n] \o copies) = Len(inbox[n]) + Len(copies)
            /\ \A i \in 1..(Len(inbox[n]) + Len(copies)) :
                 (inbox[n] \o copies)[i] = IF i <= Len(inbox[n]) THEN inbox[n][i]
                                           ELSE copies[i - Len(inbox[n])]
        <5>1. inbox[n] \in Seq(Orders) /\ copies \in Seq(Orders)
          BY <2>1, <3>2
        <5>2. QED
          BY <4>1, <5>1, ZenonT(20)
      <4>3. Len(copies) = how.copies
        BY <3>2
      <4>4. QED
        BY <4>2, <4>3
    <3>4. Len(inbox[n]) \in Nat
      BY <2>1, Elements
    <3>5. \A i \in 1..Len(inbox[n]) : inbox'[n][i] = inbox[n][i]
      BY <1>2, <3>1, <3>3, <3>4
    <3>6. ASSUME NEW i \in 1..(Len(inbox[n]) + how.copies), i > Len(inbox[n])
          PROVE  inbox'[n][i] = order
      <4>1. i - Len(inbox[n]) \in 1..how.copies /\ ~(i <= Len(inbox[n]))
        BY <1>2, <3>4, <3>6
      <4>2. QED
        BY <3>1, <3>2, <3>3, <4>1
    <3>7. QED
      BY <2>3, <3>1, <3>3, <3>5, <3>6
  <2>4. QED
    BY <2>2, <2>3
<1>7. TypeOK'
  <2>1. inbox' \in [Nodes -> Seq(Orders)]
    BY <1>1, <1>6
  <2>2. QED
    BY <1>1, <1>3, <2>1 DEF Inv, TypeOK
<1>8. HistoryInv'
  <2>1. ordered' \in [Addresses -> Orders]
    BY <1>1 DEF Inv, HistoryInv
  <2>2. missed' \in [Nodes -> SUBSET Addresses]
    BY <1>1, <1>4 DEF Inv, HistoryInv
  <2>3. QED
    BY <1>1, <2>1, <2>2 DEF Inv, HistoryInv
<1>9. MailInv'
  <2> SUFFICES ASSUME NEW n \in Nodes
      PROVE  /\ ~bound'[n] => inbox'[n] = <<>>
             /\ \A a \in Addresses \ missed'[n] :
                  /\ Mentions(n, a)' = {} => Conforms(ordered'[a], rules'[n][a])
                  /\ \A i \in Mentions(n, a)' :
                       (\A j \in Mentions(n, a)' : j <= i) => inbox'[n][i] = ordered'[a]
    BY DEF MailInv, Mentions
  <2>1. ~bound'[n] => inbox'[n] = <<>>
    BY <1>1, <1>6 DEF Inv, MailInv
  <2>2. ASSUME NEW a \in Addresses \ missed'[n]
        PROVE  /\ Mentions(n, a)' = {} => Conforms(ordered'[a], rules'[n][a])
               /\ \A i \in Mentions(n, a)' :
                    (\A j \in Mentions(n, a)' : j <= i) => inbox'[n][i] = ordered'[a]
    <3>1. a \in Addresses \ missed[n]
      BY <1>1, <2>2 DEF Inv, HistoryInv
    <3>2. /\ Mentions(n, a) = {} => Conforms(ordered[a], rules[n][a])
          /\ \A i \in Mentions(n, a) :
               (\A j \in Mentions(n, a) : j <= i) => inbox[n][i] = ordered[a]
      BY <3>1 DEF Inv, MailInv
    <3>3. CASE ~bound[n]
      <4>1. inbox'[n] = <<>> /\ inbox[n] = <<>> /\ DOMAIN <<>> = {}
        BY <1>6, <3>3, EmptySeq DEF Inv, MailInv
      <4>2. Mentions(n, a)' = {} /\ Mentions(n, a) = {}
        BY <4>1 DEF Mentions
      <4>3. ordered'[a] = ordered[a]
        BY <1>1, <2>2, <3>3 DEF Inv, HistoryInv
      <4>4. QED
        BY <1>1, <3>2, <4>2, <4>3
    <3>4. CASE bound[n]
      <4>1. /\ Len(inbox[n]) \in Nat /\ DOMAIN inbox[n] = 1..Len(inbox[n])
            /\ DOMAIN inbox'[n] = 1..(Len(inbox[n]) + how.copies)
        BY <1>6, <3>4, Elements DEF Inv, TypeOK
      <4>2. CASE a \in order.ips /\ how.copies # 0
        <5>1. ordered'[a] = order
          BY <1>1, <4>2
        <5>2. Len(inbox[n]) + how.copies \in Mentions(n, a)'
          <6>1. /\ Len(inbox[n]) + how.copies \in 1..(Len(inbox[n]) + how.copies)
                /\ Len(inbox[n]) + how.copies > Len(inbox[n])
            BY <1>2, <4>1, <4>2
          <6>2. inbox'[n][Len(inbox[n]) + how.copies] = order
            BY <1>6, <3>4, <6>1
          <6>3. QED
            BY <4>1, <4>2, <6>1, <6>2 DEF Mentions
        <5>3. ASSUME NEW i \in Mentions(n, a)', \A j \in Mentions(n, a)' : j <= i
              PROVE  inbox'[n][i] = order
          <6>1. i \in 1..(Len(inbox[n]) + how.copies) /\ Len(inbox[n]) + how.copies <= i
            BY <4>1, <5>2, <5>3 DEF Mentions
          <6>2. i > Len(inbox[n])
            BY <1>2, <4>1, <4>2, <6>1
          <6>3. QED
            BY <1>6, <3>4, <6>1, <6>2
        <5>4. QED
          BY <5>1, <5>2, <5>3
      <4>3. CASE a \notin order.ips \/ how.copies = 0
        <5>1. ordered'[a] = ordered[a]
          BY <1>1, <4>3 DEF Inv, HistoryInv
        <5>2. ASSUME NEW i
              PROVE  i \in Mentions(n, a)' <=> i \in Mentions(n, a)
          <6>1. CASE i \in 1..Len(inbox[n])
            <7>1. i \in 1..(Len(inbox[n]) + how.copies) /\ inbox'[n][i] = inbox[n][i]
              BY <1>2, <1>6, <3>4, <4>1, <6>1
            <7>2. QED
              BY <4>1, <6>1, <7>1 DEF Mentions
          <6>2. CASE i \notin 1..Len(inbox[n])
            <7>1. i \notin Mentions(n, a)
              BY <4>1, <6>2 DEF Mentions
            <7>2. ASSUME i \in Mentions(n, a)' PROVE FALSE
              <8>1. i \in 1..(Len(inbox[n]) + how.copies) /\ a \in inbox'[n][i].ips
                BY <4>1, <7>2 DEF Mentions
              <8>2. i > Len(inbox[n]) /\ how.copies # 0
                BY <1>2, <4>1, <6>2, <8>1
              <8>3. inbox'[n][i] = order
                BY <1>6, <3>4, <8>1, <8>2
              <8>4. QED
                BY <4>3, <8>1, <8>2, <8>3
            <7>3. QED
              BY <7>1, <7>2
          <6>3. QED
            BY <6>1, <6>2
        <5>3. Mentions(n, a)' = Mentions(n, a)
          BY <5>2
        <5>4. \A i \in Mentions(n, a) : inbox'[n][i] = inbox[n][i]
          BY <1>6, <3>4, <4>1 DEF Mentions
        <5>5. QED
          BY <1>1, <3>2, <5>1, <5>3, <5>4
      <4>4. QED
        BY <4>2, <4>3
    <3>5. QED
      BY <3>3, <3>4
  <2>3. QED
    BY <2>1, <2>2
<1>10. ReportsInv' /\ QueueInv'
  BY <1>1, ReportsStay DEF Inv, ReportsInv
<1>11. QED
  BY <1>7, <1>8, <1>9, <1>10 DEF Inv


(* A node carries out or refuses the oldest message of its queue: if it is  *)
(* the last about an address, the node's set conforms to it afterwards; what *)
(* was changed is reported.                                                 *)
LEMMA HandleKeeps ==
  ASSUME Inv, NEW n \in Nodes, NEW broken \in SUBSET Addresses, HandleMessage(n, broken)
  PROVE  Inv'
<1> DEFINE order == Head(inbox[n])
           Works(a) == a \notin broken /\ NftWorks(n, a, order)
<1>1. /\ bound[n] /\ handling[n] = {} /\ inbox[n] # <<>>
      /\ faults + Cardinality(broken) <= MaxFaults
      /\ broken \subseteq order.ips
      /\ faults' = faults + Cardinality(broken)
      /\ UNCHANGED <<bound, reporting, statusBound, statusQueue, activeBans, lastBlocked,
                     ordered, unreported, orders>>
      /\ inbox' = [inbox EXCEPT ![n] = Tail(inbox[n])]
      /\ missed' = [missed EXCEPT ![n] = missed[n] \cup broken \cup
                                            IF Accepts(order) THEN {} ELSE order.ips]
  BY DEF HandleMessage, Delivery, Settled, serviceVars
<1>2. /\ inbox[n] \in Seq(Orders) /\ Len(inbox[n]) \in Nat \ {0}
      /\ DOMAIN inbox[n] = 1..Len(inbox[n]) /\ order \in Orders /\ order = inbox[n][1]
      /\ Tail(inbox[n]) \in Seq(Orders) /\ Len(Tail(inbox[n])) = Len(inbox[n]) - 1
      /\ DOMAIN Tail(inbox[n]) = 1..(Len(inbox[n]) - 1)
      /\ \A i \in 1..(Len(inbox[n]) - 1) : Tail(inbox[n])[i] = inbox[n][i + 1]
  <2>1. inbox[n] \in Seq(Orders)
    BY DEF Inv, TypeOK
  <2>2. Len(inbox[n]) \in Nat \ {0}
    BY <1>1, <2>1, EmptySeq
  <2>3. 1 \in 1..Len(inbox[n])
    BY <2>2
  <2>4. order = inbox[n][1] /\ order \in Orders
    BY <2>1, <2>3, Elements
  <2>5. /\ Tail(inbox[n]) \in Seq(Orders) /\ Len(Tail(inbox[n])) = Len(inbox[n]) - 1
        /\ \A i \in 1..(Len(inbox[n]) - 1) : Tail(inbox[n])[i] = inbox[n][i + 1]
    BY <1>1, <2>1, HeadTailProperties
  <2>6. QED
    BY <2>1, <2>2, <2>4, <2>5, LenProperties
<1> HIDE DEF order
<1>3. order.ips \subseteq Addresses /\ order.action \in {"block", "unblock"}
  BY <1>2 DEF Orders
<1>4. faults' \in 0..MaxFaults
  <2>1. Cardinality(broken) \in Nat
    BY Numbers, FS_Subset, FS_CardinalityType
  <2>2. QED
    BY <1>1, <2>1, Numbers DEF Inv, TypeOK
<1>5. missed' \in [Nodes -> SUBSET Addresses]
  BY <1>1, <1>3 DEF Inv, HistoryInv
<1>6. \/ /\ Accepts(order)
         /\ handling' = [handling EXCEPT ![n] = {order}]
         /\ rules' = [rules EXCEPT ![n] =
              [a \in Addresses |-> IF a \in order.ips /\ Works(a)
                                   THEN NftResult(n, a, order) ELSE rules[n][a]]]
         /\ \E seq \in SetToSeqs(order.ips) :
              reports' = [reports EXCEPT ![n] =
                  [i \in 1..Len(seq) |-> ReportOf(n, seq[i], order, Works(seq[i]))]]
      \/ ~Accepts(order) /\ UNCHANGED <<handling, rules, reports>>
  BY DEF HandleMessage, Delivery, Settled, order
<1>7. \A a \in Addresses : Works(a) \in BOOLEAN
  BY DEF NftWorks
<1> HIDE DEF Works
<1>8. /\ rules' \in [Nodes -> [Addresses -> 0..Permanent]]
      /\ \A m \in Nodes \ {n} : rules'[m] = rules[m]
      /\ \A a \in Addresses :
           rules'[n][a] = IF Accepts(order) /\ a \in order.ips /\ Works(a)
                          THEN NftResult(n, a, order) ELSE rules[n][a]
  <2>1. rules \in [Nodes -> [Addresses -> 0..Permanent]]
    BY DEF Inv, TypeOK
  <2>2. CASE ~Accepts(order)
    BY <1>6, <2>1, <2>2
  <2>3. CASE Accepts(order)
    <3>1. \A a \in Addresses : NftResult(n, a, order) \in 0..Permanent
      BY <1>2, <2>3, NftConforms DEF Inv
    <3>2. [a \in Addresses |-> IF a \in order.ips /\ Works(a)
                               THEN NftResult(n, a, order) ELSE rules[n][a]]
             \in [Addresses -> 0..Permanent]
      BY <2>1, <3>1
    <3>3. rules' = [rules EXCEPT ![n] =
                      [a \in Addresses |-> IF a \in order.ips /\ Works(a)
                                           THEN NftResult(n, a, order) ELSE rules[n][a]]]
      BY <1>6, <2>3
    <3>4. rules' \in [Nodes -> [Addresses -> 0..Permanent]]
      BY <2>1, <3>2, <3>3
    <3>5. \A m \in Nodes \ {n} : rules'[m] = rules[m]
      BY <2>1, <3>3
    <3>6. \A a \in Addresses : rules'[n][a] = IF a \in order.ips /\ Works(a)
                                              THEN NftResult(n, a, order) ELSE rules[n][a]
      BY <2>1, <3>3
    <3>7. QED
      BY <2>3, <3>4, <3>5, <3>6
  <2>4. QED
    BY <2>2, <2>3
<1>9. /\ handling' \in [Nodes -> SUBSET Orders]
      /\ \A m \in Nodes \ {n} : reports'[m] = reports[m] /\ handling'[m] = handling[m]
      /\ handling'[n] = {} => reports'[n] = <<>>
      /\ reports' \in [Nodes -> Seq(Reports)]
      /\ \A i \in DOMAIN reports'[n] : \E a \in order.ips :
           Accepts(order) /\ reports'[n][i] = ReportOf(n, a, order, Works(a))
      /\ \A a \in order.ips : Accepts(order) /\ Works(a) => Told(n, a)'
  <2>1. reports[n] = <<>> /\ reports \in [Nodes -> Seq(Reports)]
    BY <1>1 DEF Inv, TypeOK, ReportsInv
  <2>2. CASE ~Accepts(order)
    <3>1. UNCHANGED <<handling, rules, reports>> /\ DOMAIN <<>> = {}
      BY <1>6, <2>2, EmptySeq
    <3>2. QED
      BY <2>1, <2>2, <3>1 DEF Inv, TypeOK
  <2>3. CASE Accepts(order)
    <3>1. PICK seq \in SetToSeqs(order.ips) :
            reports' = [reports EXCEPT ![n] =
                [i \in 1..Len(seq) |-> ReportOf(n, seq[i], order, Works(seq[i]))]]
      BY <1>6, <2>3
    <3>2. /\ seq \in Seq(order.ips) /\ \A a \in order.ips : \E i \in 1..Len(seq) : seq[i] = a
      BY <1>3, OnceEach
    <3>3. Len(seq) \in Nat /\ \A i \in 1..Len(seq) : seq[i] \in order.ips
      BY <3>2, Elements
    <3>4. \A a \in order.ips : ReportOf(n, a, order, Works(a)) \in Reports
      <4>1. order.left \in 0..Permanent
        <5>1. order.left \in 0..Malformed /\ order.left # Malformed
          BY <1>2, <2>3 DEF Orders, Accepts
        <5>2. QED
          BY <5>1, Numbers
      <4>2. QED
        BY <1>3, <1>7, <4>1 DEF ReportOf, Reports
    <3> DEFINE told == [i \in 1..Len(seq) |-> ReportOf(n, seq[i], order, Works(seq[i]))]
    <3>5. told \in [1..Len(seq) -> Reports]
      BY <3>3, <3>4
    <3>6. told \in Seq(Reports)
      BY <3>3, <3>5, SequenceOf
    <3>7. reports'[n] = told
      BY <3>1 DEF Inv, TypeOK
    <3>8. handling' \in [Nodes -> SUBSET Orders] /\ handling'[n] # {}
      <4>1. handling' = [handling EXCEPT ![n] = {order}]
        BY <1>6, <2>3
      <4>2. handling \in [Nodes -> SUBSET Orders]
        BY DEF Inv, TypeOK
      <4>3. QED
        BY <1>2, <4>1, <4>2
    <3>9. \A a \in order.ips : Works(a) => Told(n, a)'
      <4>1. ASSUME NEW a \in order.ips, Works(a) PROVE Told(n, a)'
        <5>1. PICK i \in 1..Len(seq) : seq[i] = a
          BY <3>2
        <5>2. i \in DOMAIN reports'[n] /\ reports'[n][i] = ReportOf(n, a, order, Works(a))
          BY <3>7, <5>1
        <5>3. QED
          BY <4>1, <5>2 DEF Told, ReportOf
      <4>2. QED
        BY <4>1
    <3>10. \A m \in Nodes \ {n} : reports'[m] = reports[m] /\ handling'[m] = handling[m]
      BY <1>6, <2>3 DEF Inv, TypeOK
    <3>11. \A i \in DOMAIN reports'[n] : \E a \in order.ips :
             reports'[n][i] = ReportOf(n, a, order, Works(a))
      BY <3>3, <3>7
    <3>12. reports' \in [Nodes -> Seq(Reports)]
      BY <2>1, <3>1, <3>6
    <3>13. QED
      BY <2>3, <3>8, <3>9, <3>10, <3>11, <3>12
  <2>4. QED
    BY <2>2, <2>3
<1>10. TypeOK' /\ HistoryInv'
  <2>1. inbox' \in [Nodes -> Seq(Orders)]
    BY <1>1, <1>2 DEF Inv, TypeOK
  <2>2. reports' \in [Nodes -> Seq(Reports)]
    BY <1>9 DEF Inv, TypeOK
  <2>3. TypeOK'
    BY <1>1, <1>4, <1>8, <1>9, <2>1, <2>2 DEF Inv, TypeOK
  <2>4. HistoryInv'
    BY <1>1, <1>5 DEF Inv, HistoryInv
  <2>5. QED
    BY <2>3, <2>4
<1>11. MailInv'
  <2> SUFFICES ASSUME NEW m \in Nodes
      PROVE  /\ ~bound'[m] => inbox'[m] = <<>>
             /\ \A a \in Addresses \ missed'[m] :
                  /\ Mentions(m, a)' = {} => Conforms(ordered'[a], rules'[m][a])
                  /\ \A i \in Mentions(m, a)' :
                       (\A j \in Mentions(m, a)' : j <= i) => inbox'[m][i] = ordered'[a]
    BY DEF MailInv, Mentions
  <2>1. CASE m # n
    <3>1. /\ inbox'[m] = inbox[m] /\ missed'[m] = missed[m] /\ bound'[m] = bound[m]
          /\ rules'[m] = rules[m] /\ ordered' = ordered
      BY <1>1, <1>8, <2>1 DEF Inv, TypeOK, HistoryInv
    <3>2. \A a \in Addresses : Mentions(m, a)' = Mentions(m, a)
      BY <3>1 DEF Mentions
    <3>3. QED
      BY <3>1, <3>2 DEF Inv, MailInv
  <2>2. CASE m = n
    <3>1. bound'[n] /\ inbox'[n] = Tail(inbox[n]) /\ ordered' = ordered
      BY <1>1 DEF Inv, TypeOK
    <3>2. ASSUME NEW a \in Addresses \ missed'[n]
          PROVE  /\ Mentions(n, a)' = {} => Conforms(ordered[a], rules'[n][a])
                 /\ \A i \in Mentions(n, a)' :
                      (\A j \in Mentions(n, a)' : j <= i) => inbox'[n][i] = ordered[a]
      <4>1. a \notin missed[n] /\ a \notin broken /\ (Accepts(order) \/ a \notin order.ips)
        BY <1>1, <3>2 DEF Inv, HistoryInv
      <4>2. /\ Mentions(n, a) = {} => Conforms(ordered[a], rules[n][a])
            /\ \A i \in Mentions(n, a) :
                 (\A j \in Mentions(n, a) : j <= i) => inbox[n][i] = ordered[a]
        BY <4>1 DEF Inv, MailInv
      <4>3. \A i \in 1..(Len(inbox[n]) - 1) : i \in Mentions(n, a)' <=> i + 1 \in Mentions(n, a)
        BY <1>2, <3>1 DEF Mentions
      <4>4. /\ Mentions(n, a)' \subseteq 1..(Len(inbox[n]) - 1)
            /\ Mentions(n, a) \subseteq 1..Len(inbox[n])
            /\ 1 \in Mentions(n, a) <=> a \in order.ips
        BY <1>2, <3>1 DEF Mentions
      <4>5. ASSUME Mentions(n, a)' = {} PROVE Conforms(ordered[a], rules'[n][a])
        <5>1. Mentions(n, a) \subseteq {1}
          <6>1. ASSUME NEW i \in Mentions(n, a), i # 1 PROVE FALSE
            <7>1. i - 1 \in 1..(Len(inbox[n]) - 1) /\ (i - 1) + 1 = i
              BY <1>2, <4>4, <6>1
            <7>2. i - 1 \in Mentions(n, a)'
              BY <4>3, <6>1, <7>1
            <7>3. QED
              BY <4>5, <7>2
          <6>2. QED
            BY <6>1
        <5>2. CASE a \notin order.ips
          <6>1. Mentions(n, a) = {}
            BY <4>4, <5>1, <5>2
          <6>2. QED
            BY <1>8, <4>2, <5>2, <6>1
        <5>3. CASE a \in order.ips
          <6>1. Mentions(n, a) = {1}
            BY <4>4, <5>1, <5>3
          <6>2. ordered[a] = order
            BY <1>2, <4>2, <6>1
          <6>3. /\ Conforms(order, NftResult(n, a, order))
                /\ ~NftWorks(n, a, order) => Conforms(order, rules[n][a])
            BY <1>2, <4>1, <5>3, NftConforms DEF Inv
          <6>4. ~Works(a) => ~NftWorks(n, a, order)
            BY <4>1 DEF Works
          <6>5. QED
            BY <1>8, <4>1, <5>3, <6>2, <6>3, <6>4
        <5>4. QED
          BY <5>2, <5>3
      <4>6. ASSUME NEW i \in Mentions(n, a)', \A j \in Mentions(n, a)' : j <= i
            PROVE  inbox'[n][i] = ordered[a]
        <5>1. i \in 1..(Len(inbox[n]) - 1) /\ i + 1 \in Mentions(n, a)
          BY <4>3, <4>4, <4>6
        <5>2. ASSUME NEW j \in Mentions(n, a) PROVE j <= i + 1
          <6>1. j \in 1..Len(inbox[n])
            BY <4>4
          <6>2. CASE j = 1
            BY <1>2, <5>1, <6>2
          <6>3. CASE j # 1
            <7>1. j - 1 \in 1..(Len(inbox[n]) - 1) /\ (j - 1) + 1 = j
              BY <1>2, <6>1, <6>3
            <7>2. j - 1 <= i
              BY <4>3, <4>6, <5>2, <7>1
            <7>3. QED
              BY <1>2, <5>1, <6>1, <7>2
          <6>4. QED
            BY <6>2, <6>3
        <5>3. inbox[n][i + 1] = ordered[a]
          BY <4>2, <5>1, <5>2
        <5>4. QED
          BY <1>2, <3>1, <5>1, <5>3
      <4>7. QED
        BY <4>5, <4>6
    <3>3. QED
      BY <2>2, <3>1, <3>2
  <2>3. QED
    BY <2>1, <2>2
<1>12. ReportsInv'
  <2> SUFFICES ASSUME NEW m \in Nodes
      PROVE  /\ handling'[m] = {} => reports'[m] = <<>>
             /\ \A i \in DOMAIN reports'[m] :
                  /\ reports'[m][i].node = m
                  /\ Refreshes /\ reports'[m][i].success
                       => Matches(reports'[m][i], rules'[m][reports'[m][i].ip])
    BY DEF ReportsInv
  <2>1. CASE m # n
    <3>1. rules'[m] = rules[m] /\ reports'[m] = reports[m] /\ handling'[m] = handling[m]
      BY <1>8, <1>9, <2>1
    <3>2. QED
      BY <3>1 DEF Inv, ReportsInv
  <2>2. CASE m = n
    <3>1. ASSUME NEW i \in DOMAIN reports'[n]
          PROVE  /\ reports'[n][i].node = n
                 /\ Refreshes /\ reports'[n][i].success
                      => Matches(reports'[n][i], rules'[n][reports'[n][i].ip])
      <4>1. PICK a \in order.ips :
              Accepts(order) /\ reports'[n][i] = ReportOf(n, a, order, Works(a))
        BY <1>9
      <4>2. reports'[n][i].node = n /\ reports'[n][i].ip = a /\ reports'[n][i].success = Works(a)
        BY <4>1 DEF ReportOf
      <4>3. Refreshes => Matches(ReportOf(n, a, order, Works(a)), NftResult(n, a, order))
        BY <1>2, <1>3, <1>7, <4>1, NftConforms DEF Inv
      <4>4. Works(a) => rules'[n][a] = NftResult(n, a, order)
        BY <1>3, <1>8, <4>1
      <4>5. QED
        BY <4>1, <4>2, <4>3, <4>4
    <3>2. QED
      BY <1>9, <2>2, <3>1
  <2>3. QED
    BY <2>1, <2>2
<1>13. QueueInv'
  <2> SUFFICES ASSUME Refreshes, NEW m \in Nodes \ unreported, NEW a \in Addresses, ~Told(m, a)'
      PROVE  Known(m, a)'
    BY <1>1 DEF QueueInv
  <2>1. ~Told(m, a) /\ rules'[m][a] = rules[m][a]
    <3>1. CASE m # n
      BY <1>8, <1>9, <3>1 DEF Told
    <3>2. CASE m = n
      <4>1. ~Told(n, a)
        <5>1. reports[n] = <<>> /\ DOMAIN <<>> = {}
          BY <1>1, EmptySeq DEF Inv, ReportsInv
        <5>2. QED
          BY <5>1 DEF Told
      <4>2. ~(Accepts(order) /\ a \in order.ips /\ Works(a))
        BY <1>9, <3>2
      <4>3. QED
        BY <1>8, <3>2, <4>1, <4>2
    <3>3. QED
      BY <3>1, <3>2
  <2>2. Known(m, a)
    BY <2>1 DEF Inv, QueueInv
  <2>3. UNCHANGED <<statusQueue, activeBans>>
    BY <1>1
  <2>4. QED
    BY <2>1, <2>2, <2>3 DEF Known, Later
<1>14. QED
  BY <1>10, <1>11, <1>12, <1>13 DEF Inv

(* A message is settled, a reporter lost, a session of a worker opened: no  *)
(* set, order or report is touched.                                         *)
LEMMA WorkerKeeps ==
  ASSUME Inv, NEW n \in Nodes, AckMessage(n) \/ LoseReporter(n) \/ Reconnect(n)
  PROVE  Inv'
<1>1. /\ UNCHANGED <<rules, reports, statusBound, statusQueue, activeBans, lastBlocked,
                     ordered, missed, unreported, orders>>
      /\ reporting' \in [Nodes -> BOOLEAN] /\ faults' \in 0..MaxFaults
  <2>1. /\ reporting \in [Nodes -> BOOLEAN] /\ faults \in 0..MaxFaults /\ MaxFaults \in Nat
    BY Numbers DEF Inv, TypeOK
  <2>2. UNCHANGED <<rules, reports, statusBound, statusQueue, activeBans, lastBlocked,
                    ordered, missed, unreported, orders>>
    BY DEF AckMessage, LoseReporter, Reconnect, brokerVars, serviceVars, historyVars
  <2>3. CASE AckMessage(n)
    BY <2>1, <2>2, <2>3 DEF AckMessage
  <2>4. CASE LoseReporter(n)
    BY <2>1, <2>2, <2>4 DEF LoseReporter
  <2>5. CASE Reconnect(n)
    <3>1. \/ reporting' = [reporting EXCEPT ![n] = TRUE] /\ faults' = faults
          \/ faults < MaxFaults /\ faults' = faults + 1 /\ reporting' = reporting
      BY <2>5 DEF Reconnect
    <3>2. reporting' \in [Nodes -> BOOLEAN]
      BY <2>1, <3>1
    <3>3. faults' \in 0..MaxFaults
      BY <2>1, <3>1
    <3>4. QED
      BY <2>2, <3>2, <3>3
  <2>6. QED
    BY <2>3, <2>4, <2>5
<1>2. inbox' = inbox
  <2>1. CASE AckMessage(n)
    BY <2>1 DEF AckMessage, Settled, Inv, TypeOK
  <2>2. CASE ~AckMessage(n)
    BY <2>2 DEF LoseReporter, Reconnect, brokerVars
  <2>3. QED
    BY <2>1, <2>2
<1>3. /\ bound' \in [Nodes -> BOOLEAN] /\ \A m \in Nodes : bound[m] => bound'[m]
  <2>1. CASE Reconnect(n)
    BY <2>1 DEF Reconnect, Inv, TypeOK
  <2>2. CASE ~Reconnect(n)
    BY <2>2 DEF LoseReporter, AckMessage, brokerVars, Inv, TypeOK
  <2>3. QED
    BY <2>1, <2>2
<1>4. /\ handling' \in [Nodes -> SUBSET Orders]
      /\ \A m \in Nodes : handling'[m] = {} => reports[m] = <<>>
  <2>1. CASE AckMessage(n)
    <3>1. handling' = [handling EXCEPT ![n] = {}] /\ reports[n] = <<>>
      BY <2>1 DEF AckMessage
    <3>2. QED
      BY <3>1 DEF Inv, TypeOK, ReportsInv
  <2>2. CASE ~AckMessage(n)
    BY <2>2 DEF LoseReporter, Reconnect, Inv, TypeOK, ReportsInv
  <2>3. QED
    BY <2>1, <2>2
<1>5. TypeOK' /\ HistoryInv'
  BY <1>1, <1>2, <1>3, <1>4 DEF Inv, TypeOK, HistoryInv
<1>6. MailInv'
  <2>1. \A m \in Nodes, a \in Addresses : Mentions(m, a)' = Mentions(m, a)
    BY <1>2 DEF Mentions
  <2>2. QED
    BY <1>1, <1>2, <1>3, <2>1 DEF Inv, MailInv
<1>7. ReportsInv' /\ QueueInv'
  BY <1>1, <1>4, ReportsStay DEF Inv
<1>8. QED
  BY <1>5, <1>6, <1>7 DEF Inv

(* A worker's session ends: the node misses the orders in its queue.        *)
LEMMA DisconnectKeeps ==
  ASSUME Inv, NEW n \in Nodes, Disconnect(n)
  PROVE  Inv'
<1>1. /\ bound' = [bound EXCEPT ![n] = FALSE]
      /\ inbox' = [inbox EXCEPT ![n] = <<>>]
      /\ missed' = [missed EXCEPT ![n] = missed[n] \cup UNION {inbox[n][i].ips : i \in DOMAIN inbox[n]}]
      /\ reporting' = [reporting EXCEPT ![n] = FALSE]
      /\ UNCHANGED <<statusBound, statusQueue, handling, rules, reports, activeBans, lastBlocked,
                     ordered, unreported, orders>>
  BY DEF Disconnect, serviceVars
<1>2. faults' \in 0..MaxFaults
  BY Numbers DEF Disconnect, Inv, TypeOK
<1>3. /\ inbox[n] \in Seq(Orders) /\ \A i \in DOMAIN inbox[n] : inbox[n][i].ips \subseteq Addresses
  <2>1. inbox[n] \in Seq(Orders)
    BY DEF Inv, TypeOK
  <2>2. \A i \in DOMAIN inbox[n] : inbox[n][i] \in Orders
    BY <2>1, Elements
  <2>3. QED
    BY <2>1, <2>2 DEF Orders
<1>4. missed' \in [Nodes -> SUBSET Addresses]
  BY <1>1, <1>3 DEF Inv, HistoryInv
<1>5. inbox' \in [Nodes -> Seq(Orders)]
  <2>1. <<>> \in Seq(Orders)
    BY EmptySeq
  <2>2. QED
    BY <1>1, <2>1 DEF Inv, TypeOK
<1>6. TypeOK' /\ HistoryInv'
  <2>1. bound' \in [Nodes -> BOOLEAN] /\ reporting' \in [Nodes -> BOOLEAN]
    BY <1>1 DEF Inv, TypeOK
  <2>2. QED
    BY <1>1, <1>2, <1>4, <1>5, <2>1 DEF Inv, TypeOK, HistoryInv
<1>7. MailInv'
  <2> SUFFICES ASSUME NEW m \in Nodes
      PROVE  /\ ~bound'[m] => inbox'[m] = <<>>
             /\ \A a \in Addresses \ missed'[m] :
                  /\ Mentions(m, a)' = {} => Conforms(ordered'[a], rules'[m][a])
                  /\ \A i \in Mentions(m, a)' :
                       (\A j \in Mentions(m, a)' : j <= i) => inbox'[m][i] = ordered'[a]
    BY DEF MailInv, Mentions
  <2>1. CASE m # n
    <3>1. /\ inbox'[m] = inbox[m] /\ missed'[m] = missed[m] /\ bound'[m] = bound[m]
          /\ rules' = rules /\ ordered' = ordered
      BY <1>1, <2>1 DEF Inv, TypeOK, HistoryInv
    <3>2. \A a \in Addresses : Mentions(m, a)' = Mentions(m, a)
      BY <3>1 DEF Mentions
    <3>3. QED
      BY <3>1, <3>2 DEF Inv, MailInv
  <2>2. CASE m = n
    <3>1. inbox'[n] = <<>> /\ DOMAIN <<>> = {} /\ rules' = rules /\ ordered' = ordered
      BY <1>1, EmptySeq DEF Inv, TypeOK
    <3>2. \A a \in Addresses : Mentions(n, a)' = {}
      BY <3>1 DEF Mentions
    <3>3. ASSUME NEW a \in Addresses \ missed'[n] PROVE Conforms(ordered[a], rules[n][a])
      <4>1. a \notin missed[n] /\ \A i \in DOMAIN inbox[n] : a \notin inbox[n][i].ips
        BY <1>1, <3>3 DEF Inv, HistoryInv
      <4>2. Mentions(n, a) = {}
        BY <4>1 DEF Mentions
      <4>3. QED
        BY <4>1, <4>2 DEF Inv, MailInv
    <3>4. QED
      BY <2>2, <3>1, <3>2, <3>3
  <2>3. QED
    BY <2>1, <2>2
<1>8. ReportsInv' /\ QueueInv'
  BY <1>1, ReportsStay DEF Inv, ReportsInv
<1>9. QED
  BY <1>6, <1>7, <1>8 DEF Inv

--------------------------------------------------------------------------
(* The reports on their way back *)

(* A report is sent: it agrees with the node's set, or is lost and the node *)
(* with it.                                                                 *)
LEMMA PublishReportKeeps ==
  ASSUME Inv, NEW n \in Nodes, PublishReport(n)
  PROVE  Inv'
<1> DEFINE report == Head(reports[n])
<1>1. /\ reports[n] # <<>> /\ reports' = [reports EXCEPT ![n] = Tail(reports[n])]
      /\ UNCHANGED <<bound, inbox, statusBound, handling, rules, reporting, activeBans,
                     lastBlocked, ordered, missed, orders, faults>>
      /\ \/ statusQueue' = Append(statusQueue, report) /\ unreported' = unreported
         \/ unreported' = unreported \cup {n} /\ statusQueue' = statusQueue
  BY DEF PublishReport, serviceVars
<1>2. /\ reports[n] \in Seq(Reports) /\ Len(reports[n]) \in Nat \ {0}
      /\ DOMAIN reports[n] = 1..Len(reports[n]) /\ report = reports[n][1] /\ report \in Reports
      /\ Tail(reports[n]) \in Seq(Reports) /\ DOMAIN Tail(reports[n]) = 1..(Len(reports[n]) - 1)
      /\ \A i \in 1..(Len(reports[n]) - 1) : Tail(reports[n])[i] = reports[n][i + 1]
  <2>1. reports[n] \in Seq(Reports)
    BY DEF Inv, TypeOK
  <2>2. Len(reports[n]) \in Nat \ {0}
    BY <1>1, <2>1, EmptySeq
  <2>3. 1 \in 1..Len(reports[n])
    BY <2>2
  <2>4. report = reports[n][1] /\ report \in Reports
    BY <2>1, <2>3, Elements
  <2>5. /\ Tail(reports[n]) \in Seq(Reports) /\ Len(Tail(reports[n])) = Len(reports[n]) - 1
        /\ \A i \in 1..(Len(reports[n]) - 1) : Tail(reports[n])[i] = reports[n][i + 1]
    BY <1>1, <2>1, HeadTailProperties
  <2>6. QED
    BY <2>1, <2>2, <2>4, <2>5, LenProperties
<1> HIDE DEF report
<1>3. /\ report.node = n
      /\ Refreshes /\ report.success => Matches(report, rules[n][report.ip])
  <2>1. 1 \in DOMAIN reports[n]
    BY <1>2
  <2>2. QED
    BY <1>2, <2>1 DEF Inv, ReportsInv
<1>4. /\ statusQueue \in Seq(Reports) /\ Len(statusQueue) \in Nat
      /\ DOMAIN statusQueue = 1..Len(statusQueue)
  <2>1. statusQueue \in Seq(Reports)
    BY DEF Inv, TypeOK
  <2>2. QED
    BY <2>1, Elements
<1>5. TypeOK' /\ HistoryInv'
  <2>1. reports' \in [Nodes -> Seq(Reports)]
    BY <1>1, <1>2 DEF Inv, TypeOK
  <2>2. Append(statusQueue, report) \in Seq(Reports)
    BY <1>2, <1>4, AppendProperties
  <2>3. statusQueue' \in Seq(Reports) /\ unreported' \subseteq Nodes
    BY <1>1, <1>4, <2>2 DEF Inv, HistoryInv
  <2>4. QED
    BY <1>1, <2>1, <2>3 DEF Inv, TypeOK, HistoryInv
<1>6. MailInv'
  BY <1>1, MailStays DEF Inv
<1>7. ReportsInv'
  <2>1. ASSUME NEW m \in Nodes
        PROVE  /\ handling'[m] = {} => reports'[m] = <<>>
               /\ \A i \in DOMAIN reports'[m] :
                    /\ reports'[m][i].node = m
                    /\ Refreshes /\ reports'[m][i].success
                         => Matches(reports'[m][i], rules'[m][reports'[m][i].ip])
    <3>1. CASE m # n
      BY <1>1, <3>1 DEF Inv, TypeOK, ReportsInv
    <3>2. CASE m = n
      <4>1. handling'[n] # {} /\ reports'[n] = Tail(reports[n]) /\ rules' = rules
        BY <1>1 DEF Inv, TypeOK, ReportsInv
      <4>2. \A i \in 1..(Len(reports[n]) - 1) : i + 1 \in DOMAIN reports[n]
        BY <1>2
      <4>3. QED
        BY <1>2, <3>2, <4>1, <4>2 DEF Inv, ReportsInv
    <3>3. QED
      BY <3>1, <3>2
  <2>2. QED
    BY <2>1 DEF ReportsInv
<1>8. ASSUME NEW a \in Addresses, ~Told(n, a)', ~(report.success /\ report.ip = a)
      PROVE  ~Told(n, a)
  <2>1. reports'[n] = Tail(reports[n])
    BY <1>1 DEF Inv, TypeOK
  <2>2. ASSUME NEW i \in 1..Len(reports[n]), reports[n][i].ip = a, reports[n][i].success
        PROVE  FALSE
    <3>1. CASE i = 1
      BY <1>2, <1>8, <2>2, <3>1
    <3>2. CASE i # 1
      <4>1. i - 1 \in 1..(Len(reports[n]) - 1) /\ (i - 1) + 1 = i
        BY <1>2, <3>2
      <4>2. reports'[n][i - 1] = reports[n][i] /\ i - 1 \in DOMAIN reports'[n]
        BY <1>2, <2>1, <4>1
      <4>3. QED
        BY <1>8, <2>2, <4>2 DEF Told
    <3>3. QED
      BY <3>1, <3>2
  <2>3. QED
    BY <1>2, <2>2 DEF Told
<1>9. ASSUME NEW m \in Nodes \ {n}, NEW a \in Addresses
      PROVE  Told(m, a)' <=> Told(m, a)
  <2>1. reports'[m] = reports[m]
    BY <1>1 DEF Inv, TypeOK
  <2>2. QED
    BY <2>1 DEF Told
<1>10. CASE unreported' = unreported \cup {n} /\ statusQueue' = statusQueue
  <2> SUFFICES ASSUME Refreshes, NEW m \in Nodes \ unreported', NEW a \in Addresses, ~Told(m, a)'
      PROVE  Known(m, a)'
    BY <1>5, <1>6, <1>7 DEF QueueInv, Inv
  <2>1. m \in Nodes \ {n} /\ m \notin unreported
    BY <1>10
  <2>2. Known(m, a)
    BY <1>9, <2>1 DEF Inv, QueueInv
  <2>3. QED
    BY <1>1, <1>10, <2>2 DEF Known, Later
<1>11. CASE statusQueue' = Append(statusQueue, report) /\ unreported' = unreported
  <2>1. /\ DOMAIN statusQueue' = 1..(Len(statusQueue) + 1)
        /\ \A i \in 1..Len(statusQueue) : statusQueue'[i] = statusQueue[i]
        /\ statusQueue'[Len(statusQueue) + 1] = report
    <3>1. /\ Append(statusQueue, report) \in Seq(Reports)
          /\ Len(Append(statusQueue, report)) = Len(statusQueue) + 1
          /\ \A i \in 1..Len(statusQueue) : Append(statusQueue, report)[i] = statusQueue[i]
          /\ Append(statusQueue, report)[Len(statusQueue) + 1] = report
      BY <1>2, <1>4, AppendProperties
    <3>2. QED
      BY <1>11, <3>1, LenProperties
  <2> SUFFICES ASSUME Refreshes, NEW m \in Nodes \ unreported, NEW a \in Addresses, ~Told(m, a)'
      PROVE  Known(m, a)'
    BY <1>5, <1>6, <1>7, <1>11 DEF QueueInv, Inv
  <2>2. \A k : Later(m, a, k) => Later(m, a, k)'
    BY <1>4, <2>1 DEF Later
  <2>3. ASSUME ~About(report, m, a) PROVE Known(m, a)'
    <3>1. ~Told(m, a)
      <4>1. CASE m # n
        BY <1>9, <4>1
      <4>2. CASE m = n
        BY <1>3, <1>8, <2>3, <4>2 DEF About
      <4>3. QED
        BY <4>1, <4>2
    <3>2. Known(m, a)
      BY <3>1 DEF Inv, QueueInv
    <3>3. ASSUME NEW k \in DOMAIN statusQueue', About(statusQueue'[k], m, a), ~Later(m, a, k)'
          PROVE  Matches(statusQueue'[k], rules'[m][a])
      <4>1. k # Len(statusQueue) + 1
        BY <2>1, <2>3, <3>3
      <4>2. k \in 1..Len(statusQueue)
        BY <1>4, <2>1, <3>3, <4>1
      <4>3. statusQueue'[k] = statusQueue[k] /\ ~Later(m, a, k)
        BY <2>1, <2>2, <3>3, <4>2
      <4>4. QED
        BY <1>1, <1>4, <3>2, <3>3, <4>2, <4>3 DEF Known
    <3>4. m \in activeBans'[a].node /\ ~Later(m, a, 0)' => rules'[m][a] = activeBans'[a].left
      BY <1>1, <2>2, <3>2 DEF Known
    <3>5. QED
      BY <3>3, <3>4 DEF Known
  <2>4. ASSUME About(report, m, a) PROVE Known(m, a)'
    <3>1. m = n /\ report.ip = a /\ report.success
      BY <1>3, <2>4 DEF About
    <3>2. Matches(report, rules'[m][a])
      BY <1>1, <1>3, <3>1
    <3>3. \A k \in 0..Len(statusQueue) : Later(m, a, k)'
      <4>1. \A k \in 0..Len(statusQueue) : Len(statusQueue) + 1 > k
        BY <1>4
      <4>2. Len(statusQueue) + 1 \in DOMAIN statusQueue'
        BY <1>4, <2>1
      <4>3. QED
        BY <2>1, <2>4, <4>1, <4>2 DEF Later
    <3>4. ASSUME NEW k \in DOMAIN statusQueue', ~Later(m, a, k)' PROVE k = Len(statusQueue) + 1
      <4>1. k \in 1..(Len(statusQueue) + 1) /\ k \notin 0..Len(statusQueue)
        BY <2>1, <3>3, <3>4
      <4>2. QED
        BY <1>4, <4>1
    <3>5. Later(m, a, 0)'
      BY <1>4, <3>3
    <3>6. QED
      BY <2>1, <3>2, <3>4, <3>5 DEF Known
  <2>5. QED
    BY <2>3, <2>4
<1>12. QED
  BY <1>1, <1>10, <1>11

Bans == [Addresses -> [node : SUBSET Nodes, left : 0..Permanent]]

(* Dropping what has expired invents no ban.                                *)
LEMMA CleanedIs ==
  ASSUME NEW bans \in Bans
  PROVE  /\ Cleaned(bans) \in Bans
         /\ \A a \in Addresses : Cleaned(bans)[a] = bans[a] \/ Cleaned(bans)[a].node = {}
<1>1. NoBan \in [node : SUBSET Nodes, left : 0..Permanent] /\ NoBan.node = {}
  BY Numbers DEF NoBan
<1>2. QED
  BY <1>1 DEF Cleaned, Bans

(* What the next read of the active bans drops says nothing of a node.      *)
LEMMA ReadKeeps ==
  ASSUME Inv, ReadActiveBans
  PROVE  Inv'
<1>1. /\ activeBans' = Cleaned(activeBans)
      /\ UNCHANGED <<bound, inbox, statusBound, statusQueue, handling, rules, reports,
                     reporting, lastBlocked, ordered, missed, unreported, orders, faults>>
  BY DEF ReadActiveBans, brokerVars, nodeVars, historyVars
<1>2. activeBans \in Bans
  BY DEF Inv, TypeOK, Bans
<1>3. /\ activeBans' \in Bans
      /\ \A a \in Addresses : activeBans'[a] = activeBans[a] \/ activeBans'[a].node = {}
  BY <1>1, <1>2, CleanedIs
<1>4. TypeOK' /\ HistoryInv'
  BY <1>1, <1>3 DEF Inv, TypeOK, HistoryInv, Bans
<1>5. MailInv'
  BY <1>1, MailStays DEF Inv
<1>6. ReportsInv'
  BY <1>1 DEF Inv, ReportsInv
<1>7. QueueInv'
  <2>1. ASSUME NEW n \in Nodes, NEW a \in Addresses, Known(n, a) PROVE Known(n, a)'
    BY <1>1, <1>3, <2>1 DEF Known, Later
  <2>2. \A n \in Nodes, a \in Addresses : Told(n, a)' <=> Told(n, a)
    BY <1>1 DEF Told
  <2>3. unreported' = unreported
    BY <1>1
  <2>4. QED
    BY <2>1, <2>2, <2>3 DEF Inv, QueueInv
<1>8. QED
  BY <1>4, <1>5, <1>6, <1>7 DEF Inv

(* The oldest report is applied: when it was the last about its address,   *)
(* the ban agrees with the node's set because the report did.               *)
LEMMA ApplyKeeps ==
  ASSUME Inv, ApplyReport
  PROVE  Inv'
<1> DEFINE report == Head(statusQueue)
           Shown == [activeBans EXCEPT ![report.ip] =
                       IF report.action = "unblock" THEN NoBan
                       ELSE [node |-> {report.node}, left |-> report.left]]
<1>1. /\ statusQueue # <<>> /\ statusQueue' = Tail(statusQueue)
      /\ activeBans' = IF report.success THEN Cleaned(Shown) ELSE activeBans
      /\ UNCHANGED <<bound, inbox, statusBound, handling, rules, reports, reporting,
                     lastBlocked, ordered, missed, unreported, orders, faults>>
  BY DEF ApplyReport, Shows, nodeVars, historyVars
<1>2. /\ statusQueue \in Seq(Reports) /\ Len(statusQueue) \in Nat \ {0}
      /\ DOMAIN statusQueue = 1..Len(statusQueue)
      /\ report = statusQueue[1] /\ report \in Reports
      /\ Tail(statusQueue) \in Seq(Reports) /\ DOMAIN Tail(statusQueue) = 1..(Len(statusQueue) - 1)
      /\ \A i \in 1..(Len(statusQueue) - 1) : Tail(statusQueue)[i] = statusQueue[i + 1]
  <2>1. statusQueue \in Seq(Reports)
    BY DEF Inv, TypeOK
  <2>2. Len(statusQueue) \in Nat \ {0}
    BY <1>1, <2>1, EmptySeq
  <2>3. 1 \in 1..Len(statusQueue)
    BY <2>2
  <2>4. report = statusQueue[1] /\ report \in Reports
    BY <2>1, <2>3, Elements
  <2>5. /\ Tail(statusQueue) \in Seq(Reports) /\ Len(Tail(statusQueue)) = Len(statusQueue) - 1
        /\ \A i \in 1..(Len(statusQueue) - 1) : Tail(statusQueue)[i] = statusQueue[i + 1]
    BY <1>1, <2>1, HeadTailProperties
  <2>6. QED
    BY <2>1, <2>2, <2>4, <2>5, LenProperties
<1> HIDE DEF report
<1>3. activeBans \in Bans /\ Shown \in Bans
  <2>1. activeBans \in Bans
    BY DEF Inv, TypeOK, Bans
  <2>2. /\ NoBan \in [node : SUBSET Nodes, left : 0..Permanent]
        /\ [node |-> {report.node}, left |-> report.left] \in [node : SUBSET Nodes, left : 0..Permanent]
    BY <1>2, Numbers DEF NoBan, Reports
  <2>3. QED
    BY <2>1, <2>2 DEF Bans
<1>4. \A a \in Addresses :
        Shown[a] = IF a # report.ip THEN activeBans[a]
                   ELSE IF report.action = "unblock" THEN NoBan
                   ELSE [node |-> {report.node}, left |-> report.left]
  BY <1>3 DEF Bans
<1> HIDE DEF Shown
<1>5. /\ activeBans' \in Bans
      /\ \A a \in Addresses :
           \/ activeBans'[a].node = {}
           \/ activeBans'[a] = IF report.success THEN Shown[a] ELSE activeBans[a]
  BY <1>1, <1>3, CleanedIs
<1>6. TypeOK' /\ HistoryInv'
  <2>1. statusQueue' \in Seq(Reports)
    BY <1>1, <1>2
  <2>2. activeBans' \in [Addresses -> [node : SUBSET Nodes, left : 0..Permanent]]
    BY <1>5 DEF Bans
  <2>3. QED
    BY <1>1, <2>1, <2>2 DEF Inv, TypeOK, HistoryInv
<1>7. MailInv' /\ ReportsInv'
  BY <1>1, MailStays DEF Inv, ReportsInv
<1>8. /\ DOMAIN statusQueue' = 1..(Len(statusQueue) - 1)
      /\ \A i \in DOMAIN statusQueue' : i + 1 \in DOMAIN statusQueue /\ statusQueue'[i] = statusQueue[i + 1]
      /\ \A i \in DOMAIN statusQueue : i = 1 \/ i - 1 \in DOMAIN statusQueue'
  BY <1>1, <1>2
<1>9. ASSUME NEW m \in Nodes, NEW a \in Addresses, NEW k \in Nat, ~Later(m, a, k)'
      PROVE  ~Later(m, a, k + 1)
  <2>1. ASSUME NEW i \in DOMAIN statusQueue, i > k + 1, About(statusQueue[i], m, a)
        PROVE  FALSE
    <3>1. i - 1 \in DOMAIN statusQueue' /\ i - 1 > k /\ (i - 1) + 1 = i
      BY <1>2, <1>8, <2>1
    <3>2. About(statusQueue'[i - 1], m, a)
      BY <1>8, <2>1, <3>1
    <3>3. QED
      BY <1>9, <3>1, <3>2 DEF Later
  <2>2. QED
    BY <2>1 DEF Later
<1>10. QueueInv'
  <2> SUFFICES ASSUME Refreshes, NEW m \in Nodes \ unreported, NEW a \in Addresses, ~Told(m, a)'
      PROVE  Known(m, a)'
    BY <1>1 DEF QueueInv
  <2>1. Known(m, a)
    BY <1>1 DEF Inv, QueueInv, Told
  <2>2. ASSUME NEW k \in DOMAIN statusQueue', About(statusQueue'[k], m, a), ~Later(m, a, k)'
        PROVE  Matches(statusQueue'[k], rules'[m][a])
    <3>1. k \in Nat /\ k + 1 \in DOMAIN statusQueue /\ statusQueue'[k] = statusQueue[k + 1]
      BY <1>2, <1>8
    <3>2. ~Later(m, a, k + 1)
      BY <1>9, <2>2, <3>1
    <3>3. QED
      BY <1>1, <2>1, <2>2, <3>1, <3>2 DEF Known
  <2>3. ASSUME m \in activeBans'[a].node, ~Later(m, a, 0)' PROVE rules'[m][a] = activeBans'[a].left
    <3>1. ~Later(m, a, 1)
      <4>1. ~Later(m, a, 0 + 1)
        BY <1>9, <2>3
      <4>2. QED
        BY <4>1
    <3>2. CASE report.success /\ report.ip = a
      <4>1. activeBans'[a] = [node |-> {report.node}, left |-> report.left] /\ report.action # "unblock"
        BY <1>4, <1>5, <2>3, <3>2 DEF NoBan
      <4>2. report.node = m
        BY <2>3, <4>1
      <4>3. Matches(report, rules[m][a])
        BY <1>2, <2>1, <3>1, <3>2, <4>2 DEF Known, About
      <4>4. QED
        BY <1>1, <4>1, <4>3 DEF Matches
    <3>3. CASE ~(report.success /\ report.ip = a)
      <4>1. activeBans'[a] = activeBans[a]
        BY <1>4, <1>5, <2>3, <3>3
      <4>2. ~Later(m, a, 0)
        <5>1. ASSUME NEW i \in DOMAIN statusQueue, About(statusQueue[i], m, a) PROVE FALSE
          <6>1. CASE i = 1
            BY <1>2, <3>3, <5>1, <6>1 DEF About
          <6>2. CASE i # 1
            <7>1. i > 1
              BY <1>2, <6>2
            <7>2. QED
              BY <3>1, <5>1, <7>1 DEF Later
          <6>3. QED
            BY <6>1, <6>2
        <5>2. QED
          BY <5>1 DEF Later
      <4>3. QED
        BY <1>1, <2>1, <2>3, <4>1, <4>2 DEF Known
    <3>4. QED
      BY <3>2, <3>3
  <2>4. QED
    BY <2>2, <2>3 DEF Known
<1>11. QED
  BY <1>6, <1>7, <1>10 DEF Inv

(* What the consumer or the service loses: every node a report of which is  *)
(* gone counts as unreported, or no ban is shown.                           *)
LEMMA ConsumerKeeps ==
  ASSUME Inv, StatusDisconnect \/ StatusReconnect \/ RestartService
  PROVE  Inv'
<1>1. UNCHANGED <<bound, inbox, handling, rules, reports, reporting, ordered, missed, orders>>
  BY DEF StatusDisconnect, StatusReconnect, RestartService, nodeVars, historyVars
<1>2. <<>> \in Seq(Reports) /\ DOMAIN <<>> = {}
  BY EmptySeq
<1>3. NoBan \in [node : SUBSET Nodes, left : 0..Permanent] /\ NoBan.node = {}
  BY Numbers DEF NoBan
<1>4. MailInv' /\ ReportsInv'
  BY <1>1, MailStays DEF Inv, ReportsInv
<1>5. \A n \in Nodes, a \in Addresses : Told(n, a)' <=> Told(n, a)
  BY <1>1 DEF Told
<1>6. CASE StatusDisconnect
  <2>1. /\ statusBound' = FALSE /\ statusQueue' = <<>> /\ UNCHANGED <<activeBans, lastBlocked>>
        /\ unreported' = unreported \cup Sources(statusQueue)
        /\ faults < MaxFaults /\ faults' = faults + 1
    BY <1>6 DEF StatusDisconnect, serviceVars
  <2>2. faults' \in 0..MaxFaults
    BY <2>1, Numbers DEF Inv, TypeOK
  <2>3. \A i \in DOMAIN statusQueue : statusQueue[i].node \in Nodes
    <3>1. \A i \in DOMAIN statusQueue : statusQueue[i] \in Reports
      <4>1. statusQueue \in Seq(Reports)
        BY DEF Inv, TypeOK
      <4>2. QED
        BY <4>1, Elements
    <3>2. QED
      BY <3>1 DEF Reports
  <2>4. TypeOK' /\ HistoryInv'
    <3>1. unreported' \subseteq Nodes
      BY <2>1, <2>3 DEF Inv, HistoryInv, Sources
    <3>2. statusQueue' \in Seq(Reports) /\ statusBound' \in BOOLEAN
      BY <1>2, <2>1
    <3>3. QED
      BY <1>1, <2>1, <2>2, <3>1, <3>2 DEF Inv, TypeOK, HistoryInv
  <2>5. ASSUME Refreshes, NEW n \in Nodes \ unreported', NEW a \in Addresses, ~Told(n, a)'
        PROVE  Known(n, a)'
    <3>1. Known(n, a)
      BY <1>5, <2>1, <2>5 DEF Inv, QueueInv
    <3>2. ~Later(n, a, 0)
      BY <2>1, <2>5 DEF Later, About, Sources
    <3>3. QED
      BY <1>1, <1>2, <2>1, <3>1, <3>2 DEF Known
  <2>6. QED
    BY <1>4, <2>4, <2>5 DEF Inv, QueueInv
<1>7. CASE StatusReconnect
  <2>1. statusBound' = TRUE
        /\ UNCHANGED <<statusQueue, activeBans, lastBlocked, unreported, faults>>
    BY <1>7 DEF StatusReconnect, serviceVars, historyVars
  <2>2. TypeOK' /\ HistoryInv'
    BY <1>1, <2>1 DEF Inv, TypeOK, HistoryInv
  <2>3. \A n \in Nodes, a \in Addresses : Known(n, a) => Known(n, a)'
    BY <1>1, <2>1 DEF Known, Later
  <2>4. QueueInv'
    BY <1>5, <2>1, <2>3 DEF Inv, QueueInv
  <2>5. QED
    BY <1>4, <2>2, <2>4 DEF Inv
<1>8. CASE RestartService
  <2>1. /\ statusBound' = FALSE /\ statusQueue' = <<>> /\ lastBlocked' = {} /\ unreported' = {}
        /\ activeBans' = [a \in Addresses |-> NoBan]
        /\ faults < MaxFaults /\ faults' = faults + 1
    BY <1>8 DEF RestartService
  <2>2. faults' \in 0..MaxFaults
    BY <2>1, Numbers DEF Inv, TypeOK
  <2>3. TypeOK' /\ HistoryInv'
    BY <1>1, <1>2, <1>3, <2>1, <2>2 DEF Inv, TypeOK, HistoryInv
  <2>4. \A n \in Nodes, a \in Addresses : Known(n, a)'
    BY <1>2, <1>3, <2>1 DEF Known
  <2>5. QED
    BY <1>4, <2>3, <2>4 DEF Inv, QueueInv
<1>9. QED
  BY <1>6, <1>7, <1>8


--------------------------------------------------------------------------
(* Time, and the steps together *)

(* A tick shortens a queue's reports and leaves the rest of them alone.     *)
LEMMA LessEach ==
  ASSUME NEW s \in Seq(Reports)
  PROVE  /\ [i \in DOMAIN s |-> LessOf(s[i])] \in Seq(Reports)
         /\ DOMAIN [i \in DOMAIN s |-> LessOf(s[i])] = DOMAIN s
         /\ s = <<>> => [i \in DOMAIN s |-> LessOf(s[i])] = <<>>
<1> DEFINE t == [i \in DOMAIN s |-> LessOf(s[i])]
<1>1. Len(s) \in Nat /\ DOMAIN s = 1..Len(s) /\ \A i \in 1..Len(s) : s[i] \in Reports
  BY Elements
<1>2. \A i \in 1..Len(s) : LessOf(s[i]) \in Reports
  BY <1>1, LessOfIs
<1>3. t \in [1..Len(s) -> Reports] /\ DOMAIN t = DOMAIN s
  BY <1>1, <1>2
<1>4. t \in Seq(Reports) /\ Len(t) = Len(s)
  <2> HIDE DEF t
  <2>1. QED
    BY <1>1, <1>3, SequenceOf
<1>5. s = <<>> => t = <<>>
  <2> HIDE DEF t
  <2>1. QED
    BY <1>4, EmptySeq
<1>6. QED
  BY <1>3, <1>4, <1>5

(* Bans, their reports and the list run out together.                       *)
LEMMA TickKeeps ==
  ASSUME Inv, Tick
  PROVE  Inv'
<1>1. /\ rules' = [n \in Nodes |-> [a \in Addresses |-> Less(rules[n][a])]]
      /\ reports' = [n \in Nodes |-> [i \in DOMAIN reports[n] |-> LessOf(reports[n][i])]]
      /\ statusQueue' = [i \in DOMAIN statusQueue |-> LessOf(statusQueue[i])]
      /\ activeBans' = [a \in Addresses |-> [activeBans[a] EXCEPT !.left = Less(activeBans[a].left)]]
      /\ UNCHANGED <<bound, inbox, statusBound, handling, reporting, lastBlocked,
                     ordered, missed, unreported, orders, faults>>
  BY DEF Tick, historyVars
<1>2. /\ rules' \in [Nodes -> [Addresses -> 0..Permanent]]
      /\ \A n \in Nodes, a \in Addresses :
           rules[n][a] \in 0..Permanent /\ rules'[n][a] = Less(rules[n][a])
  <2>1. \A n \in Nodes, a \in Addresses : rules[n][a] \in 0..Permanent
    BY DEF Inv, TypeOK
  <2>2. \A n \in Nodes, a \in Addresses : Less(rules[n][a]) \in 0..Permanent
    BY <2>1, LessIs
  <2>3. QED
    BY <1>1, <2>1, <2>2
<1>3. /\ activeBans' \in [Addresses -> [node : SUBSET Nodes, left : 0..Permanent]]
      /\ \A a \in Addresses : /\ activeBans'[a].node = activeBans[a].node
                              /\ activeBans'[a].left = Less(activeBans[a].left)
  <2>1. activeBans \in [Addresses -> [node : SUBSET Nodes, left : 0..Permanent]]
    BY DEF Inv, TypeOK
  <2>2. \A a \in Addresses : Less(activeBans[a].left) \in 0..Permanent
    BY <2>1, LessIs
  <2>3. QED
    BY <1>1, <2>1, <2>2
<1>4. /\ reports' \in [Nodes -> Seq(Reports)]
      /\ \A n \in Nodes : /\ reports[n] \in Seq(Reports)
                          /\ DOMAIN reports'[n] = DOMAIN reports[n]
                          /\ reports[n] = <<>> => reports'[n] = <<>>
                          /\ \A i \in DOMAIN reports[n] : reports'[n][i] = LessOf(reports[n][i])
  <2>1. \A n \in Nodes : reports[n] \in Seq(Reports)
    BY DEF Inv, TypeOK
  <2>2. \A n \in Nodes : reports'[n] = [i \in DOMAIN reports[n] |-> LessOf(reports[n][i])]
    BY <1>1
  <2>3. \A n \in Nodes : /\ reports'[n] \in Seq(Reports)
                         /\ DOMAIN reports'[n] = DOMAIN reports[n]
                         /\ reports[n] = <<>> => reports'[n] = <<>>
    BY <2>1, <2>2, LessEach
  <2>4. DOMAIN reports' = Nodes
    BY <1>1
  <2>5. reports' \in [Nodes -> Seq(Reports)]
    BY <1>1, <2>2, <2>3
  <2>6. QED
    BY <2>1, <2>2, <2>3, <2>5
<1>5. /\ statusQueue \in Seq(Reports) /\ statusQueue' \in Seq(Reports)
      /\ DOMAIN statusQueue' = DOMAIN statusQueue
      /\ \A i \in DOMAIN statusQueue : statusQueue'[i] = LessOf(statusQueue[i])
  <2>1. statusQueue \in Seq(Reports)
    BY DEF Inv, TypeOK
  <2>2. QED
    BY <1>1, <2>1, LessEach
<1>6. TypeOK' /\ HistoryInv'
  BY <1>1, <1>2, <1>3, <1>4, <1>5 DEF Inv, TypeOK, HistoryInv
<1>7. MailInv'
  <2>1. \A n \in Nodes, a \in Addresses : Mentions(n, a)' = Mentions(n, a)
    BY <1>1 DEF Mentions
  <2>2. ASSUME NEW n \in Nodes, NEW a \in Addresses, Conforms(ordered[a], rules[n][a])
        PROVE  Conforms(ordered'[a], rules'[n][a])
    <3>1. ordered[a] \in Orders /\ ordered'[a] = ordered[a]
      BY <1>1 DEF Inv, HistoryInv
    <3>2. QED
      BY <1>2, <2>2, <3>1, ConformsLess
  <2>3. QED
    BY <1>1, <2>1, <2>2 DEF Inv, MailInv
<1>8. ReportsInv'
  <2>1. ASSUME NEW n \in Nodes, NEW i \in DOMAIN reports'[n]
        PROVE  /\ reports'[n][i].node = n
               /\ Refreshes /\ reports'[n][i].success
                    => Matches(reports'[n][i], rules'[n][reports'[n][i].ip])
    <3> DEFINE r == reports[n][i]
    <3>1. r \in Reports /\ i \in DOMAIN reports[n] /\ reports'[n][i] = LessOf(r)
      BY <1>4, <2>1, Elements
    <3>2. r.node = n /\ (Refreshes /\ r.success => Matches(r, rules[n][r.ip]))
      BY <3>1 DEF Inv, ReportsInv
    <3> HIDE DEF r
    <3>3. r.ip \in Addresses
      BY <3>1 DEF Reports
    <3>4. LessOf(r).node = r.node /\ LessOf(r).ip = r.ip /\ LessOf(r).success = r.success
      BY <3>1, LessOfIs
    <3>5. Matches(r, rules[n][r.ip]) => Matches(LessOf(r), rules'[n][r.ip])
      BY <1>2, <3>1, <3>3, MatchesLess
    <3>6. QED
      BY <3>1, <3>2, <3>4, <3>5
  <2>2. \A n \in Nodes : handling'[n] = {} => reports'[n] = <<>>
    BY <1>1, <1>4 DEF Inv, ReportsInv
  <2>3. QED
    BY <2>1, <2>2 DEF ReportsInv
<1>9. QueueInv'
  <2>1. ASSUME NEW i \in DOMAIN statusQueue, NEW n, NEW a
        PROVE  About(statusQueue'[i], n, a) <=> About(statusQueue[i], n, a)
    <3>1. statusQueue[i] \in Reports
      BY <1>5, Elements
    <3>2. QED
      BY <1>5, <3>1, LessOfIs DEF About
  <2>2. \A n, a, k : Later(n, a, k)' <=> Later(n, a, k)
    BY <1>5, <2>1 DEF Later
  <2>3. ASSUME NEW n \in Nodes, NEW a \in Addresses, Told(n, a)
        PROVE  Told(n, a)'
    <3>1. PICK i \in DOMAIN reports[n] : reports[n][i].ip = a /\ reports[n][i].success
      BY <2>3 DEF Told
    <3>2. reports[n][i] \in Reports /\ reports'[n][i] = LessOf(reports[n][i]) /\ i \in DOMAIN reports'[n]
      BY <1>4, <3>1, Elements
    <3>3. reports'[n][i].ip = a /\ reports'[n][i].success
      BY <3>1, <3>2, LessOfIs
    <3>4. QED
      BY <3>2, <3>3 DEF Told
  <2>4. ASSUME NEW n \in Nodes, NEW a \in Addresses, Known(n, a)
        PROVE  Known(n, a)'
    <3>1. ASSUME NEW k \in DOMAIN statusQueue', About(statusQueue'[k], n, a), ~Later(n, a, k)'
          PROVE  Matches(statusQueue'[k], rules'[n][a])
      <4>1. statusQueue[k] \in Reports /\ statusQueue'[k] = LessOf(statusQueue[k])
        BY <1>5, <3>1, Elements
      <4>2. Matches(statusQueue[k], rules[n][a])
        BY <1>5, <2>1, <2>2, <2>4, <3>1 DEF Known
      <4>3. QED
        BY <1>2, <4>1, <4>2, MatchesLess
    <3>2. n \in activeBans'[a].node /\ ~Later(n, a, 0)' => rules'[n][a] = activeBans'[a].left
      BY <1>2, <1>3, <2>2, <2>4 DEF Known
    <3>3. QED
      BY <3>1, <3>2 DEF Known
  <2>5. QED
    BY <1>1, <2>3, <2>4 DEF Inv, QueueInv
<1>10. QED
  BY <1>6, <1>7, <1>8, <1>9 DEF Inv

(* Whatever the callers ask for is an order.                                *)
LEMMA CallersKeep ==
  ASSUME Inv, Callers
  PROVE  Inv'
<1>1. PICK ips \in SUBSET Addresses, how \in Outcomes :
        \/ \E d \in Durations : BlockForEntry(ips, d, how) \/ ManualBlock(ips, d, how)
        \/ ManualUnblock(ips, how)
  BY DEF Callers
<1>2. lastBlocked \subseteq Addresses
  BY DEF Inv, TypeOK
<1>3. \A s \in SUBSET Addresses : Unblock(s) \in Orders /\ \A d \in Durations : Block(s, d) \in Orders
  BY Numbers DEF Durations, Block, Unblock, Orders
<1>4. ASSUME NEW d \in Durations, BlockForEntry(ips, d, how) PROVE Inv'
  <2>1. Publish(Block(ips, d), how) /\ lastBlocked' \in {ips, lastBlocked}
    BY <1>4 DEF BlockForEntry, RecordBlockedIPs
  <2>2. Block(ips, d) \in Orders /\ lastBlocked' \subseteq Addresses
    BY <1>2, <1>3, <2>1
  <2>3. QED
    BY <2>1, <2>2, PublishKeeps
<1>5. ASSUME NEW d \in Durations, ManualBlock(ips, d, how) PROVE Inv'
  <2> DEFINE chosen == IF ips # {} THEN ips ELSE lastBlocked
  <2>1. Publish(Block(chosen, d), how) /\ lastBlocked' \in {chosen, lastBlocked}
    BY <1>5 DEF ManualBlock, RecordBlockedIPs
  <2>2. Block(chosen, d) \in Orders /\ lastBlocked' \subseteq Addresses
    BY <1>2, <1>3, <2>1
  <2>3. QED
    BY <2>1, <2>2, PublishKeeps
<1>6. ASSUME ManualUnblock(ips, how) PROVE Inv'
  <2> DEFINE chosen == IF ips # {} THEN ips ELSE lastBlocked
  <2>1. Publish(Unblock(chosen), how) /\ lastBlocked' = lastBlocked
    BY <1>6 DEF ManualUnblock
  <2>2. Unblock(chosen) \in Orders /\ lastBlocked' \subseteq Addresses
    BY <1>2, <1>3, <2>1
  <2>3. QED
    BY <2>1, <2>2, PublishKeeps
<1>7. QED
  BY <1>1, <1>4, <1>5, <1>6

(* An idle system stays as it is.                                           *)
LEMMA StutterKeeps ==
  ASSUME Inv, UNCHANGED banVars
  PROVE  Inv'
<1>1. UNCHANGED <<bound, inbox, statusBound, statusQueue, handling, rules, reports, reporting,
                  activeBans, lastBlocked, ordered, missed, unreported, orders, faults>>
  BY DEF banVars, brokerVars, nodeVars, serviceVars, historyVars
<1>2. TypeOK' /\ HistoryInv'
  BY <1>1 DEF Inv, TypeOK, HistoryInv
<1>3. MailInv'
  BY <1>1, MailStays DEF Inv
<1>4. ReportsInv' /\ QueueInv'
  BY <1>1, ReportsStay DEF Inv, ReportsInv
<1>5. QED
  BY <1>2, <1>3, <1>4 DEF Inv

(* Every step keeps the invariant.                                          *)
LEMMA StepInv == Inv /\ [Next]_banVars => Inv'
<1> SUFFICES ASSUME Inv, [Next]_banVars PROVE Inv'
  OBVIOUS
<1>1. CASE Callers
  BY <1>1, CallersKeep
<1>2. ASSUME NEW n \in Nodes, NodeStep(n) PROVE Inv'
  BY <1>2, HandleKeeps, PublishReportKeeps, WorkerKeeps DEF NodeStep
<1>3. ASSUME NEW n \in Nodes, Reconnect(n) PROVE Inv'
  BY <1>3, WorkerKeeps
<1>4. CASE ApplyReport
  BY <1>4, ApplyKeeps
<1>5. CASE ReadActiveBans
  BY <1>5, ReadKeeps
<1>6. CASE StatusReconnect
  BY <1>6, ConsumerKeeps
<1>7. CASE Failures
  BY <1>7, DisconnectKeeps, WorkerKeeps, ConsumerKeeps DEF Failures
<1>8. CASE Tick
  BY <1>8, TickKeeps
<1>9. CASE Rest
  BY <1>9, StutterKeeps DEF Rest
<1>10. CASE UNCHANGED banVars
  BY <1>10, StutterKeeps
<1>11. QED
  BY <1>1, <1>2, <1>3, <1>4, <1>5, <1>6, <1>7, <1>8, <1>9, <1>10 DEF Next

(* It holds in every state the system can reach.                            *)
LEMMA Invariance == Spec => []Inv
BY InitInv, StepInv, PTL DEF Spec

--------------------------------------------------------------------------
(* The theorems *)

(* The queues hold orders and reports only, a node's set, the reports and   *)
(* the list nothing but durations a ban can have, and no address outside    *)
(* the inventory is ever on record as blocked.                              *)
THEOREM PropagationTypeCorrect == Spec => []TypeOK
<1>1. Inv => TypeOK
  BY DEF Inv
<1>2. QED
  BY <1>1, Invariance, PTL

(* A node that is through with its queue and missed no order about an       *)
(* address enforces the last one the exchange carried, however publishing   *)
(* was retried and duplicated, and whichever sessions and nft commands      *)
(* failed on the way.                                                       *)
THEOREM OrdersAreEnforced == Spec => []EnforcedAsOrdered
<1>1. Inv => EnforcedAsOrdered
  <2> SUFFICES ASSUME Inv, NEW n \in Nodes, NEW a \in Addresses, Idle(n), a \notin missed[n]
      PROVE  Conforms(ordered[a], rules[n][a])
    BY DEF EnforcedAsOrdered
  <2>1. inbox[n] = <<>> /\ DOMAIN <<>> = {}
    BY EmptySeq DEF Idle
  <2>2. Mentions(n, a) = {}
    BY <2>1 DEF Mentions
  <2>3. QED
    BY <2>2 DEF Inv, MailInv
<1>2. QED
  BY <1>1, Invariance, PTL

(* A ban the panel shows is a ban on the node it names, for the time it     *)
(* shows, once that node's reports are in and none was lost: reports of     *)
(* several nodes may overtake each other, their bans may run out on the     *)
(* way, and commands the node refused do not show.                          *)
THEOREM PanelIsTruthful == Spec => []PanelTellsTruth
<1>1. Inv => PanelTellsTruth
  <2> SUFFICES ASSUME Inv, NEW a \in Addresses, NEW n \in Nodes,
                      n \in activeBans[a].node \ unreported, PendingOf(n) = {}, Refreshes
      PROVE  rules[n][a] = activeBans[a].left
    BY DEF PanelTellsTruth
  <2>1. ~Told(n, a)
    <3>1. ASSUME NEW i \in DOMAIN reports[n] PROVE FALSE
      <4>1. reports[n][i].node = n
        BY DEF Inv, ReportsInv
      <4>2. reports[n][i] \in PendingOf(n)
        BY <4>1 DEF PendingOf, Range
      <4>3. QED
        BY <4>2
    <3>2. QED
      BY <3>1 DEF Told
  <2>2. ~Later(n, a, 0)
    <3>1. ASSUME NEW i \in DOMAIN statusQueue, About(statusQueue[i], n, a) PROVE FALSE
      <4>1. statusQueue[i] \in PendingOf(n)
        BY <3>1 DEF PendingOf, Range, About
      <4>2. QED
        BY <4>1
    <3>2. QED
      BY <3>1 DEF Later
  <2>3. Known(n, a)
    BY <2>1 DEF Inv, QueueInv
  <2>4. QED
    BY <2>2, <2>3 DEF Known
<1>2. QED
  BY <1>1, Invariance, PTL


=============================================================================
