------------------------------ MODULE Publisher ------------------------------
(***************************************************************************)
(* RabbitMQPublisher: callers hold the mutex from the first attempt of a   *)
(* message to the last, through the reconnections and the sleeps between   *)
(* them.  A publish goes out with no confirm: its error does not say that  *)
(* the message was not routed, and its success does not say that it was.   *)
(* The exchange is the sequence of the copies it has routed.  Ping and     *)
(* Close take the same mutex; a publish after Close connects again.        *)
(* Operators named Faulty... are wrong variants of the next definition.    *)
(***************************************************************************)
EXTENDS Naturals, Sequences

CONSTANTS Callers,   \* goroutines with one message each to publish
          Pingers,   \* health checks
          MaxTries,  \* maxRetries (5), of a publish and of a connection
          MaxOutages \* bound on the outages of the broker

\* What the constants have to satisfy; Services assumes it.
PublisherAssumption == /\ MaxTries \in Nat \ {0}
                       /\ MaxOutages \in Nat
                       /\ Callers \cap Pingers = {}
                       /\ "nobody" \notin Callers \cup Pingers

VARIABLES call,    \* each caller's progress
          holder,  \* who holds mux, or "nobody"
          tries,   \* attempts of its message a caller has failed
          dials,   \* connections the holder has failed in this attempt
          link,    \* the publisher's connection
          broker,  \* whether the broker can be reached
          outages, \* outages so far
          routed   \* copies the exchange has routed, by their caller

pubVars == <<call, holder, tries, dials, link, broker, outages, routed>>
brokerVars == <<broker, outages>>

Init == /\ call = [c \in Callers \cup Pingers |-> "idle"]
        /\ holder = "nobody"
        /\ tries = [c \in Callers |-> 0]
        /\ dials = 0
        /\ link = "open"
        /\ broker = TRUE
        /\ outages = 0
        /\ routed = <<>>

-----------------------------------------------------------------------------
Begin(c) == /\ call[c] = "idle"
            /\ call' = [call EXCEPT ![c] = "waiting"]
            /\ UNCHANGED <<holder, tries, dials, link, brokerVars, routed>>

Acquire(c) == /\ call[c] = "waiting"
              /\ holder = "nobody"
              /\ holder' = c
              /\ call' = [call EXCEPT ![c] = "trying"]
              /\ UNCHANGED <<tries, dials, link, brokerVars, routed>>

\* A call ends and defer unlocks the mutex.
Finish(c, answer) == /\ call' = [call EXCEPT ![c] = answer]
                     /\ holder' = "nobody"
                     /\ dials' = 0

FaultyNextTry(c) == /\ call' = [call EXCEPT ![c] = "waiting"]
                    /\ holder' = "nobody"
                    /\ dials' = 0
\* After a failed attempt: sleep with the lock held, and try again.
NextTry(c) == dials' = 0 /\ UNCHANGED <<call, holder>>

\* An attempt has failed; after the last one the call fails.
FailTry(c) == /\ tries' = [tries EXCEPT ![c] = @ + 1]
              /\ IF tries[c] + 1 < MaxTries THEN NextTry(c) ELSE Finish(c, "failed")

FaultyMayDial == TRUE
MayDial == dials < MaxTries

\* connect: the old connection is closed first, whatever the outcome.
Dial(c) == /\ call[c] = "trying" /\ c \in Callers
           /\ link # "open"
           /\ MayDial
           /\ IF broker THEN link' = "open" /\ dials' = 0
                        ELSE link' = "none" /\ dials' = IF dials < MaxTries THEN dials + 1 ELSE dials
           /\ UNCHANGED <<call, holder, tries, brokerVars, routed>>

\* connectWithRetry gives up: one attempt of the message is spent.
GiveUpDialling(c) == /\ call[c] = "trying" /\ c \in Callers
                     /\ link # "open"
                     /\ ~MayDial
                     /\ FailTry(c)
                     /\ UNCHANGED <<link, brokerVars, routed>>

\* Publish returns nil once the message is written to the connection.
Publish(c) == /\ call[c] = "trying" /\ c \in Callers
              /\ link = "open"
              /\ routed' \in (IF broker THEN {Append(routed, c)} ELSE {routed})
              /\ Finish(c, "published")
              /\ UNCHANGED <<tries, link, brokerVars>>

\* Publish returns an error, with the message routed or not; the connection
\* is closed, for the next attempt to open a new one.
PublishFails(c) == /\ call[c] = "trying" /\ c \in Callers
                   /\ link = "open"
                   /\ outages > 0
                   /\ routed' \in {Append(routed, c), routed}
                   /\ link' = "closed"
                   /\ FailTry(c)
                   /\ UNCHANGED brokerVars

\* Ping looks at the connection and opens none.
Ping(c) == /\ call[c] = "trying" /\ c \in Pingers
           /\ Finish(c, IF link = "open" THEN "active" ELSE "inactive")
           /\ UNCHANGED <<tries, link, brokerVars, routed>>

\* Close, at the end of the process, once.
Close == /\ holder = "nobody"
         /\ link' = "none"
         /\ link # "none"
         /\ UNCHANGED <<call, holder, tries, dials, brokerVars, routed>>

-----------------------------------------------------------------------------
\* The broker goes away; a connection notices at once, or at the next publish.
LoseBroker == /\ broker
              /\ outages < MaxOutages
              /\ broker' = FALSE
              /\ outages' = outages + 1
              /\ link' \in (IF link = "open" THEN {"open", "closed"} ELSE {link})
              /\ UNCHANGED <<call, holder, tries, dials, routed>>

BrokerBack == /\ ~broker
              /\ broker' = TRUE
              /\ UNCHANGED <<call, holder, tries, dials, link, outages, routed>>

Attempt(c) == Dial(c) \/ GiveUpDialling(c) \/ Publish(c) \/ PublishFails(c) \/ Ping(c)

Next == \/ \E c \in Callers \cup Pingers : Begin(c) \/ Acquire(c) \/ Attempt(c)
        \/ Close
        \/ LoseBroker
        \/ BrokerBack

Answered == {"published", "failed", "active", "inactive"}

TypeOK == /\ call \in [Callers \cup Pingers -> {"idle", "waiting", "trying"} \cup Answered]
          /\ holder \in Callers \cup Pingers \cup {"nobody"}
          /\ tries \in [Callers -> 0..MaxTries]
          /\ dials \in 0..MaxTries
          /\ link \in {"open", "closed", "none"}
          /\ broker \in BOOLEAN
          /\ outages \in 0..MaxOutages
          /\ routed \in Seq(Callers)

\* The copies a message leaves on the exchange through its retries are never
\* split by a copy of another message: the nodes execute the commands in one
\* order, and an unblock overtaken by a late copy of its block cannot happen.
CopiesContiguous == \A i, j, k \in DOMAIN routed :
    i < j /\ j < k /\ routed[i] = routed[k] => routed[j] = routed[i]

\* A caller that waits behind a message being retried gets its answer, even
\* if the broker never comes back.
CallsReturn == \A c \in Callers \cup Pingers : []<>(call[c] \notin {"waiting", "trying"})
=============================================================================
