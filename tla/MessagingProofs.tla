--------------------------- MODULE MessagingProofs ---------------------------
(***************************************************************************)
(* Proofs about WsHub and Publisher as Services runs them, for every set   *)
(* of connections and callers, every capacity of the channels and every    *)
(* number of attempts.                                                     *)
(*                                                                         *)
(* What makes the hub safe is the order of a connection's life: a channel  *)
(* is closed by the step that takes its client out and ends the            *)
(* connection, and the greeting comes before.  What makes the publisher's  *)
(* copies contiguous is the mutex, held through the retries: the copies of *)
(* the message under way are the last on the exchange, and a message has   *)
(* none before its call has the mutex.                                     *)
(***************************************************************************)
EXTENDS Services, SequenceTheorems, TLAPS

\* The channels, and no goroutine that sends on a closed one.
ChannelInv ==
  /\ ~panicked
  /\ \A c \in Panels : /\ c \in sealed => conn[c] = "closed"
                       /\ c \in member => conn[c] \notin {"none", "closed"}
  /\ pending \in [Panels -> Seq({"refresh", "event"})]

HubInv == Hub!TypeOK /\ ChannelInv

--------------------------------------------------------------------------
(* A step of the services is one of the hub or leaves it alone.             *)
LEMMA HubAlone ==
  ASSUME [Next]_vars
  PROVE  Hub!Next \/ UNCHANGED hubVars
BY DEF Next, vars, QueuesStep, HubStep, PublisherStep, ConfigStep, LoginStep, CacheStep,
       HealthStep, CountStep, CommandsStep, TerminalStep, AllOver, OthersRest

(* What Services assumes of the constants of the hub.                       *)
LEMMA HubAssumed == SendCap \in Nat \ {0} /\ MaxEvents \in Nat
  BY ServicesAssumption DEF Hub!HubAssumption

(* The initial state satisfies the invariant.                               *)
LEMMA HubInitInv == Hub!Init => HubInv
<1> SUFFICES ASSUME Hub!Init PROVE HubInv
  OBVIOUS
<1>1. pending \in [Panels -> Seq({"refresh", "event"})]
      /\ \A c \in Panels : Len(pending[c]) <= SendCap
  BY HubAssumed DEF Hub!Init
<1>2. Hub!TypeOK
  <2>1. /\ conn \in [Panels -> {"none", "registered", "greeted", "open", "broken", "closed"}]
        /\ writer \in [Panels -> {"none", "running", "ended"}]
    BY DEF Hub!Init
  <2>2. /\ notified \in BOOLEAN /\ debounce \in BOOLEAN /\ panicked \in BOOLEAN
    BY DEF Hub!Init
  <2>3. member \subseteq Panels /\ sealed \subseteq Panels /\ stale \subseteq Panels
    BY DEF Hub!Init
  <2>4. events \in 0..MaxEvents
    BY HubAssumed DEF Hub!Init
  <2>5. QED
    BY <1>1, <2>1, <2>2, <2>3, <2>4 DEF Hub!TypeOK
<1>3. ChannelInv
  BY <1>1 DEF Hub!Init, ChannelInv
<1>4. QED
  BY <1>2, <1>3 DEF HubInv

(* A message goes to members whose channel has room, and they are open.     *)
LEMMA BroadcastKeeps ==
  ASSUME HubInv, NEW msg \in {"refresh", "event"}, Hub!Broadcast(msg),
         debounce' \in BOOLEAN, events' \in 0..MaxEvents
  PROVE  HubInv'
<1>1. /\ pending' \in [Panels -> Seq({"refresh", "event"})]
      /\ \A c \in Panels : Len(pending'[c]) <= SendCap
  <2>1. ASSUME NEW c \in Panels
        PROVE  /\ pending'[c] \in Seq({"refresh", "event"})
               /\ Len(pending'[c]) <= SendCap
    <3>1. CASE c \in member /\ Len(pending[c]) < SendCap
      <4>1. pending'[c] = Append(pending[c], msg)
        BY <3>1 DEF Hub!Broadcast
      <4>2. /\ pending[c] \in Seq({"refresh", "event"})
            /\ Len(pending[c]) \in Nat
        BY DEF HubInv, Hub!TypeOK
      <4>3. Len(pending'[c]) = Len(pending[c]) + 1
        BY <4>1, <4>2
      <4>4. QED
        BY <3>1, <4>1, <4>2, <4>3, HubAssumed
    <3>2. CASE ~(c \in member /\ Len(pending[c]) < SendCap)
      BY <3>2 DEF Hub!Broadcast, HubInv, Hub!TypeOK
    <3>3. QED
      BY <3>1, <3>2
  <2>2. QED
    BY <2>1 DEF Hub!Broadcast
<1>2. member \cap sealed = {} /\ panicked = FALSE
  BY DEF HubInv, ChannelInv, Hub!TypeOK
<1>3. panicked' = FALSE
  BY <1>2 DEF Hub!Broadcast
<1>4. QED
  BY <1>1, <1>3 DEF Hub!Broadcast, HubInv, Hub!TypeOK, ChannelInv

(* A step of the handler, the reader or the network of a connection.        *)
LEMMA ConnectionKeeps ==
  ASSUME HubInv, NEW c \in Panels, Hub!Connection(c)
  PROVE  HubInv'
<1> USE DEF Hub!loopVars
<1>1. CASE Hub!Open(c) \/ Hub!StartPumps(c) \/ Hub!Break(c)
  <2>1. Hub!TypeOK'
    BY <1>1 DEF Hub!Open, Hub!StartPumps, Hub!Break, HubInv, Hub!TypeOK
  <2>2. ChannelInv'
    BY <1>1 DEF Hub!Open, Hub!StartPumps, Hub!Break, HubInv, Hub!TypeOK, ChannelInv
  <2>3. QED
    BY <2>1, <2>2 DEF HubInv
<1>2. CASE Hub!Greet(c)
  <2>1. c \notin sealed /\ Len(pending[c]) < SendCap /\ panicked = FALSE
    BY <1>2 DEF Hub!Greet, HubInv, ChannelInv, Hub!TypeOK
  <2>2. panicked' = FALSE
    BY <1>2, <2>1 DEF Hub!Greet
  <2>3. /\ pending' = [pending EXCEPT ![c] = Append(pending[c], "refresh")]
        /\ pending \in [Panels -> Seq({"refresh", "event"})]
        /\ \A d \in Panels : Len(pending[d]) <= SendCap
    BY <1>2 DEF Hub!Greet, HubInv, Hub!TypeOK, ChannelInv
  <2>4. /\ pending' \in [Panels -> Seq({"refresh", "event"})]
        /\ \A d \in Panels : Len(pending'[d]) <= SendCap
    <3>1. /\ Append(pending[c], "refresh") \in Seq({"refresh", "event"})
          /\ Len(Append(pending[c], "refresh")) <= SendCap
      <4>1. pending[c] \in Seq({"refresh", "event"}) /\ Len(pending[c]) \in Nat
        BY <2>3
      <4>2. QED
        BY <2>1, <4>1, HubAssumed
    <3>2. QED
      BY <2>3, <3>1
  <2>5. QED
    BY <1>2, <2>1, <2>2, <2>4 DEF Hub!Greet, HubInv, Hub!TypeOK, ChannelInv
<1>3. CASE Hub!EndReader(c)
  BY <1>3 DEF Hub!EndReader, Hub!Unregister, HubInv, Hub!TypeOK, ChannelInv
<1>4. QED
  BY <1>1, <1>2, <1>3 DEF Hub!Connection

(* A step of the write pump.                                                *)
LEMMA WriterKeeps ==
  ASSUME HubInv, NEW c \in Panels, Hub!Writer(c)
  PROVE  HubInv'
<1> USE DEF Hub!loopVars
<1>1. CASE Hub!Write(c)
  <2>1. /\ pending' = [pending EXCEPT ![c] = Tail(pending[c])]
        /\ pending[c] # <<>>
        /\ pending \in [Panels -> Seq({"refresh", "event"})]
        /\ \A d \in Panels : Len(pending[d]) <= SendCap
    BY <1>1 DEF Hub!Write, HubInv, Hub!TypeOK, ChannelInv
  <2>2. /\ Tail(pending[c]) \in Seq({"refresh", "event"})
        /\ Len(Tail(pending[c])) <= SendCap
    <3>1. /\ Len(pending[c]) \in Nat
          /\ Tail(pending[c]) \in Seq({"refresh", "event"})
          /\ Len(Tail(pending[c])) = Len(pending[c]) - 1
      BY <2>1, HeadTailProperties
    <3>2. QED
      BY <2>1, <3>1, HubAssumed
  <2>3. /\ pending' \in [Panels -> Seq({"refresh", "event"})]
        /\ \A d \in Panels : Len(pending'[d]) <= SendCap
    BY <2>1, <2>2
  <2>4. QED
    BY <1>1, <2>3 DEF Hub!Write, HubInv, Hub!TypeOK, ChannelInv
<1>2. CASE Hub!EndWriter(c)
  BY <1>2 DEF Hub!EndWriter, HubInv, Hub!TypeOK, ChannelInv
<1>3. QED
  BY <1>1, <1>2 DEF Hub!Writer

(* The invariant is inductive.                                              *)
LEMMA HubStepInv == HubInv /\ [Next]_vars => HubInv'
<1> SUFFICES ASSUME HubInv, [Next]_vars PROVE HubInv'
  OBVIOUS
<1>1. CASE Hub!Notify \/ Hub!TakeToken
  <2>1. Hub!TypeOK'
    BY <1>1 DEF Hub!Notify, Hub!TakeToken, HubInv, Hub!TypeOK
  <2>2. ChannelInv'
    BY <1>1 DEF Hub!Notify, Hub!TakeToken, HubInv, ChannelInv
  <2>3. QED
    BY <2>1, <2>2 DEF HubInv
<1>2. CASE Hub!FireDebounce \/ Hub!Heartbeat
  BY <1>2, BroadcastKeeps DEF Hub!FireDebounce, Hub!Heartbeat, HubInv, Hub!TypeOK
<1>3. CASE Hub!BroadcastJSON
  <2>1. events' \in 0..MaxEvents /\ debounce' \in BOOLEAN
    BY <1>3, HubAssumed DEF Hub!BroadcastJSON, HubInv, Hub!TypeOK
  <2>2. QED
    BY <1>3, <2>1, BroadcastKeeps DEF Hub!BroadcastJSON
<1>4. CASE UNCHANGED hubVars
  BY <1>4 DEF hubVars, HubInv, Hub!TypeOK, ChannelInv
<1>5. QED
  BY <1>1, <1>2, <1>3, <1>4, ConnectionKeeps, WriterKeeps, HubAlone DEF Hub!Next, Hub!Loop

LEMMA HubInvariance == Spec => []HubInv
<1>1. Init => HubInv
  BY HubInitInv DEF Init
<1>2. QED
  BY <1>1, HubStepInv, PTL DEF Spec

(* The hub keeps its types: no client's channel holds more than it may.     *)
THEOREM HubTypeCorrect == Spec => []Hub!TypeOK
<1>1. HubInv => Hub!TypeOK
  BY DEF HubInv
<1>2. QED
  BY <1>1, HubInvariance, PTL

(* Neither a broadcast nor a greeting meets a channel that unregister has   *)
(* closed (ws_hub.go, broadcastMessage and unregister).                     *)
THEOREM NeverSendsOnClosed == Spec => []NoSendOnClosed
<1>1. HubInv => NoSendOnClosed
  BY DEF HubInv, ChannelInv, NoSendOnClosed, Hub!NoSendOnClosed
<1>2. QED
  BY <1>1, HubInvariance, PTL

--------------------------------------------------------------------------
(* The publisher. *)

People == Callers \cup Pingers

\* Only the call that holds the mutex is trying; a message that may be tried
\* again has attempts left.
MutexInv ==
  /\ \A c \in People : call[c] = "trying" => holder = c
  /\ \A c \in Callers : call[c] \in {"idle", "waiting", "trying"} => tries[c] < MaxTries

\* Before its call has the mutex a message has no copies; while it has it, its
\* copies are the last.
CopiesInv ==
  /\ \A c \in Callers : call[c] \in {"idle", "waiting"} =>
       \A i \in DOMAIN routed : routed[i] # c
  /\ \A c \in Callers : call[c] = "trying" =>
       \A i, j \in DOMAIN routed : i < j /\ routed[i] = c => routed[j] = c

PubInv == Pub!TypeOK /\ MutexInv /\ CopiesInv /\ Pub!CopiesContiguous

(* A step of the services is one of the publisher or leaves it alone.       *)
LEMMA PubAlone ==
  ASSUME [Next]_vars
  PROVE  Pub!Next \/ UNCHANGED pubVars
BY DEF Next, vars, QueuesStep, HubStep, PublisherStep, ConfigStep, LoginStep, CacheStep,
       HealthStep, CountStep, CommandsStep, TerminalStep, AllOver, OthersRest

(* What Services assumes of the constants of the publisher.                 *)
LEMMA PubAssumed == /\ MaxTries \in Nat \ {0} /\ MaxOutages \in Nat
                    /\ Callers \cap Pingers = {} /\ "nobody" \notin People
  BY ServicesAssumption DEF Pub!PublisherAssumption, People

(* The initial state satisfies the invariant.                               *)
LEMMA PubInitInv == Pub!Init => PubInv
<1> SUFFICES ASSUME Pub!Init PROVE PubInv
  OBVIOUS
<1>1. call \in [Callers \cup Pingers -> {"idle", "waiting", "trying"} \cup Pub!Answered]
  BY DEF Pub!Init
<1>2. /\ tries \in [Callers -> 0..MaxTries] /\ dials \in 0..MaxTries /\ outages \in 0..MaxOutages
      /\ \A c \in Callers : tries[c] < MaxTries
  BY PubAssumed DEF Pub!Init
<1>3. routed \in Seq(Callers) /\ DOMAIN routed = {}
  BY DEF Pub!Init
<1>4. Pub!TypeOK
  BY <1>1, <1>2, <1>3 DEF Pub!Init, Pub!TypeOK
<1>5. MutexInv
  BY <1>2 DEF Pub!Init, MutexInv, People
<1>6. CopiesInv /\ Pub!CopiesContiguous
  BY <1>3 DEF Pub!Init, CopiesInv, Pub!CopiesContiguous
<1>7. QED
  BY <1>4, <1>5, <1>6 DEF PubInv

(* A step that routes nothing, and lets no call take the mutex, keeps the   *)
(* order of the copies.                                                     *)
LEMMA CopiesStay ==
  ASSUME CopiesInv, Pub!CopiesContiguous, routed' = routed,
         \A c \in Callers : call'[c] \in {"idle", "waiting"} => call[c] \in {"idle", "waiting"},
         \A c \in Callers : call'[c] = "trying" => call[c] \in {"waiting", "trying"}
  PROVE  CopiesInv' /\ Pub!CopiesContiguous'
BY DEF CopiesInv, Pub!CopiesContiguous

(* One more copy of the message under way goes behind its others.           *)
LEMMA CopyAppends ==
  ASSUME PubInv, NEW c \in Callers, call[c] = "trying", routed' = Append(routed, c),
         \A d \in Callers : d # c => call'[d] = call[d],
         call'[c] \notin {"idle", "waiting"}
  PROVE  CopiesInv' /\ Pub!CopiesContiguous'
<1>1. routed \in Seq(Callers) /\ Len(routed) \in Nat /\ DOMAIN routed = 1..Len(routed)
  BY DEF PubInv, Pub!TypeOK
<1>2. /\ DOMAIN routed' = 1..(Len(routed) + 1)
      /\ routed'[Len(routed) + 1] = c
      /\ \A i \in 1..Len(routed) : routed'[i] = routed[i]
  BY <1>1
<1>3. \A d \in Callers : d # c => call[d] # "trying"
  BY DEF PubInv, MutexInv, People
<1>4. ASSUME NEW d \in Callers, call'[d] \in {"idle", "waiting"}, NEW i \in DOMAIN routed'
      PROVE  routed'[i] # d
  BY <1>1, <1>2, <1>4 DEF PubInv, CopiesInv
<1>5. \A i, j \in DOMAIN routed' : i < j /\ routed'[i] = c => routed'[j] = c
  BY <1>1, <1>2 DEF PubInv, CopiesInv
<1>6. CopiesInv'
  BY <1>3, <1>4, <1>5 DEF CopiesInv
<1>7. ASSUME NEW i \in DOMAIN routed', NEW j \in DOMAIN routed', NEW k \in DOMAIN routed',
             i < j, j < k, routed'[i] = routed'[k]
      PROVE  routed'[j] = routed'[i]
  <2>1. CASE k = Len(routed) + 1
    BY <1>2, <1>5, <1>7, <2>1
  <2>2. CASE k # Len(routed) + 1
    <3>1. i \in 1..Len(routed) /\ j \in 1..Len(routed) /\ k \in 1..Len(routed)
      BY <1>1, <1>2, <1>7, <2>2
    <3>2. QED
      BY <1>1, <1>2, <1>7, <3>1 DEF PubInv, Pub!CopiesContiguous
  <2>3. QED
    BY <2>1, <2>2
<1>8. QED
  BY <1>6, <1>7 DEF Pub!CopiesContiguous

(* A failed attempt of the message under way spends one of its attempts.    *)
LEMMA FailTryKeeps ==
  ASSUME PubInv, NEW c \in Callers, call[c] = "trying", Pub!FailTry(c)
  PROVE  /\ call' \in [People -> {"idle", "waiting", "trying"} \cup Pub!Answered]
         /\ tries' \in [Callers -> 0..MaxTries]
         /\ dials' \in 0..MaxTries
         /\ holder' \in People \cup {"nobody"}
         /\ MutexInv'
         /\ call'[c] \in {"trying", "failed"}
         /\ \A d \in People : d # c => call'[d] = call[d]
<1>1. /\ holder = c /\ tries[c] \in 0..MaxTries /\ tries[c] < MaxTries /\ MaxTries \in Nat \ {0}
      /\ tries' = [tries EXCEPT ![c] = tries[c] + 1] /\ dials' = 0
      /\ tries \in [Callers -> 0..MaxTries]
      /\ call \in [People -> {"idle", "waiting", "trying"} \cup Pub!Answered]
      /\ c \in People
  BY PubAssumed DEF PubInv, Pub!TypeOK, MutexInv, Pub!FailTry, Pub!NextTry, Pub!Finish, People
<1>2. CASE tries[c] + 1 < MaxTries
  <2>1. call' = call /\ holder' = holder
    BY <1>2 DEF Pub!FailTry, Pub!NextTry
  <2>2. tries' \in [Callers -> 0..MaxTries]
    BY <1>1
  <2>3. \A d \in Callers : tries'[d] = IF d = c THEN tries[c] + 1 ELSE tries[d]
    BY <1>1
  <2>4. QED
    BY <1>1, <1>2, <2>1, <2>2, <2>3 DEF PubInv, MutexInv
<1>3. CASE ~(tries[c] + 1 < MaxTries)
  <2>1. call' = [call EXCEPT ![c] = "failed"] /\ holder' = "nobody"
    BY <1>3 DEF Pub!FailTry, Pub!Finish
  <2>2. tries' \in [Callers -> 0..MaxTries]
    BY <1>1
  <2>3. \A d \in Callers : tries'[d] = IF d = c THEN tries[c] + 1 ELSE tries[d]
    BY <1>1
  <2>4. "failed" \in Pub!Answered
    BY DEF Pub!Answered
  <2>5. \A d \in People : call'[d] = IF d = c THEN "failed" ELSE call[d]
    BY <1>1, <2>1
  <2>6. MutexInv'
    BY <1>1, <2>1, <2>3, <2>5 DEF PubInv, MutexInv, People
  <2>7. QED
    BY <1>1, <2>1, <2>2, <2>4, <2>5, <2>6
<1>4. QED
  BY <1>2, <1>3

(* A call that ends gives the mutex back.                                   *)
LEMMA FinishKeeps ==
  ASSUME PubInv, NEW c \in People, call[c] = "trying", NEW answer \in Pub!Answered,
         Pub!Finish(c, answer), tries' = tries
  PROVE  /\ call' \in [People -> {"idle", "waiting", "trying"} \cup Pub!Answered]
         /\ dials' \in 0..MaxTries
         /\ holder' \in People \cup {"nobody"}
         /\ MutexInv'
         /\ call'[c] = answer
         /\ \A d \in People : d # c => call'[d] = call[d]
<1>1. /\ call \in [People -> {"idle", "waiting", "trying"} \cup Pub!Answered]
      /\ holder = c /\ MaxTries \in Nat
      /\ answer \notin {"idle", "waiting", "trying"}
  BY PubAssumed DEF PubInv, Pub!TypeOK, MutexInv, People, Pub!Answered
<1>2. \A d \in People : call'[d] = IF d = c THEN answer ELSE call[d]
  BY <1>1 DEF Pub!Finish
<1>3. MutexInv'
  BY <1>1, <1>2 DEF Pub!Finish, PubInv, MutexInv, People
<1>4. QED
  BY <1>1, <1>2, <1>3 DEF Pub!Finish

(* The invariant is inductive.                                              *)
LEMMA PubStepInv == PubInv /\ [Next]_vars => PubInv'
<1> SUFFICES ASSUME PubInv, [Next]_vars PROVE PubInv'
  OBVIOUS
<1> USE DEF Pub!brokerVars
<1>1. ASSUME NEW c \in Callers \cup Pingers, Pub!Begin(c) PROVE PubInv'
  <2>1. Pub!TypeOK'
    BY <1>1 DEF Pub!Begin, PubInv, Pub!TypeOK
  <2>2. MutexInv'
    BY <1>1 DEF Pub!Begin, PubInv, Pub!TypeOK, MutexInv, People
  <2>3. CopiesInv' /\ Pub!CopiesContiguous'
    BY <1>1, CopiesStay DEF Pub!Begin, PubInv, Pub!TypeOK
  <2>4. QED
    BY <2>1, <2>2, <2>3 DEF PubInv
<1>2. ASSUME NEW c \in Callers \cup Pingers, Pub!Acquire(c) PROVE PubInv'
  <2>1. Pub!TypeOK'
    BY <1>2 DEF Pub!Acquire, PubInv, Pub!TypeOK
  <2>2. \A d \in People : call[d] # "trying"
    BY <1>2, PubAssumed DEF Pub!Acquire, PubInv, MutexInv
  <2>3. MutexInv'
    BY <1>2, <2>2 DEF Pub!Acquire, PubInv, Pub!TypeOK, MutexInv, People
  <2>4. CopiesInv' /\ Pub!CopiesContiguous'
    BY <1>2, CopiesStay DEF Pub!Acquire, PubInv, Pub!TypeOK
  <2>5. QED
    BY <2>1, <2>3, <2>4 DEF PubInv
<1>3. ASSUME NEW c \in Callers \cup Pingers, Pub!Dial(c) PROVE PubInv'
  <2>1. dials' \in 0..MaxTries
    BY <1>3, PubAssumed DEF Pub!Dial, PubInv, Pub!TypeOK
  <2>2. Pub!TypeOK'
    BY <1>3, <2>1 DEF Pub!Dial, PubInv, Pub!TypeOK
  <2>3. MutexInv' /\ CopiesInv' /\ Pub!CopiesContiguous'
    BY <1>3 DEF Pub!Dial, PubInv, MutexInv, CopiesInv, Pub!CopiesContiguous
  <2>4. QED
    BY <2>2, <2>3 DEF PubInv
<1>4. ASSUME NEW c \in Callers \cup Pingers, Pub!GiveUpDialling(c) PROVE PubInv'
  <2>1. /\ c \in Callers /\ call[c] = "trying" /\ Pub!FailTry(c)
        /\ UNCHANGED <<link, broker, outages, routed>>
    BY <1>4 DEF Pub!GiveUpDialling
  <2>2. Pub!TypeOK' /\ MutexInv'
    BY <2>1, FailTryKeeps DEF PubInv, Pub!TypeOK, People
  <2>3. CopiesInv' /\ Pub!CopiesContiguous'
    BY <2>1, FailTryKeeps, CopiesStay DEF PubInv, People
  <2>4. QED
    BY <2>2, <2>3 DEF PubInv
<1>5. ASSUME NEW c \in Callers \cup Pingers, Pub!Publish(c) PROVE PubInv'
  <2>1. /\ c \in Callers /\ call[c] = "trying" /\ Pub!Finish(c, "published")
        /\ UNCHANGED <<tries, link, broker, outages>>
        /\ routed' = Append(routed, c) \/ routed' = routed
        /\ "published" \in Pub!Answered /\ c \in People
    BY <1>5 DEF Pub!Publish, Pub!Answered, People
  <2>2. routed' \in Seq(Callers)
    <3>1. routed \in Seq(Callers) /\ Append(routed, c) \in Seq(Callers)
      BY <2>1 DEF PubInv, Pub!TypeOK
    <3>2. QED
      BY <2>1, <3>1
  <2>3. Pub!TypeOK' /\ MutexInv'
    BY <2>1, <2>2, FinishKeeps DEF PubInv, Pub!TypeOK, People
  <2>4. /\ call'[c] = "published"
        /\ \A d \in Callers : d # c => call'[d] = call[d]
    BY <2>1, FinishKeeps DEF People
  <2>5. CopiesInv' /\ Pub!CopiesContiguous'
    BY <2>1, <2>4, CopyAppends, CopiesStay DEF PubInv
  <2>6. QED
    BY <2>3, <2>5 DEF PubInv
<1>6. ASSUME NEW c \in Callers \cup Pingers, Pub!PublishFails(c) PROVE PubInv'
  <2>1. /\ c \in Callers /\ call[c] = "trying" /\ Pub!FailTry(c)
        /\ UNCHANGED <<broker, outages>> /\ link' = "closed"
        /\ routed' = Append(routed, c) \/ routed' = routed
    BY <1>6 DEF Pub!PublishFails
  <2>2. routed' \in Seq(Callers)
    <3>1. routed \in Seq(Callers) /\ Append(routed, c) \in Seq(Callers)
      BY <2>1 DEF PubInv, Pub!TypeOK
    <3>2. QED
      BY <2>1, <3>1
  <2>3. Pub!TypeOK' /\ MutexInv'
    BY <2>1, <2>2, FailTryKeeps DEF PubInv, Pub!TypeOK, People
  <2>4. /\ call'[c] \in {"trying", "failed"}
        /\ \A d \in Callers : d # c => call'[d] = call[d]
    BY <2>1, FailTryKeeps DEF People
  <2>5. CopiesInv' /\ Pub!CopiesContiguous'
    BY <2>1, <2>4, CopyAppends, CopiesStay DEF PubInv
  <2>6. QED
    BY <2>3, <2>5 DEF PubInv
<1>7. ASSUME NEW c \in Callers \cup Pingers, Pub!Ping(c) PROVE PubInv'
  <2>1. PICK answer \in Pub!Answered : Pub!Finish(c, answer)
    BY <1>7 DEF Pub!Ping, Pub!Answered
  <2>2. /\ call[c] = "trying" /\ c \in People
        /\ UNCHANGED <<tries, link, broker, outages, routed>>
        /\ answer \notin {"idle", "waiting", "trying"}
    BY <1>7 DEF Pub!Ping, People, Pub!Answered
  <2>3. Pub!TypeOK' /\ MutexInv'
    BY <2>1, <2>2, FinishKeeps DEF PubInv, Pub!TypeOK, People
  <2>4. CopiesInv' /\ Pub!CopiesContiguous'
    BY <2>1, <2>2, FinishKeeps, CopiesStay DEF PubInv, People
  <2>5. QED
    BY <2>3, <2>4 DEF PubInv
<1>8. CASE Pub!Close
  BY <1>8 DEF Pub!Close, PubInv, Pub!TypeOK, MutexInv, CopiesInv, Pub!CopiesContiguous
<1>9. CASE Pub!LoseBroker \/ Pub!BrokerBack
  <2>1. /\ UNCHANGED <<call, holder, tries, dials, routed>>
        /\ broker' \in BOOLEAN
    BY <1>9 DEF Pub!LoseBroker, Pub!BrokerBack
  <2>2. outages' \in 0..MaxOutages
    BY <1>9, PubAssumed DEF Pub!LoseBroker, Pub!BrokerBack, PubInv, Pub!TypeOK
  <2>3. link' \in {"open", "closed", "none"}
    BY <1>9 DEF Pub!LoseBroker, Pub!BrokerBack, PubInv, Pub!TypeOK
  <2>4. QED
    BY <2>1, <2>2, <2>3 DEF PubInv, Pub!TypeOK, MutexInv, CopiesInv, Pub!CopiesContiguous
<1>10. CASE UNCHANGED pubVars
  BY <1>10 DEF pubVars, PubInv, Pub!TypeOK, MutexInv, CopiesInv, Pub!CopiesContiguous
<1>11. QED
  BY <1>1, <1>2, <1>3, <1>4, <1>5, <1>6, <1>7, <1>8, <1>9, <1>10, PubAlone
     DEF Pub!Next, Pub!Attempt

LEMMA PubInvariance == Spec => []PubInv
<1>1. Init => PubInv
  BY PubInitInv DEF Init
<1>2. QED
  BY <1>1, PubStepInv, PTL DEF Spec

(* The publisher keeps its types: no message is tried more often than it    *)
(* may, and no attempt dials more often.                                    *)
THEOREM PublisherTypeCorrect == Spec => []Pub!TypeOK
<1>1. PubInv => Pub!TypeOK
  BY DEF PubInv
<1>2. QED
  BY <1>1, PubInvariance, PTL

(* The copies of a message, through retries and reconnections, are never    *)
(* split by those of another (publisher.go, publishMessage).                *)
THEOREM CopiesStayTogether == Spec => []CopiesContiguous
<1>1. PubInv => CopiesContiguous
  BY DEF PubInv, CopiesContiguous
<1>2. QED
  BY <1>1, PubInvariance, PTL

=============================================================================
