-------------------------------- MODULE WsHub --------------------------------
(***************************************************************************)
(* The hub that tells the open panels to reload: Notify, the loop of Run   *)
(* with its debounce timer and heartbeat, the clients' buffered channels,  *)
(* and the three goroutines of a connection (handler, writePump, readPump).*)
(* A message is a refresh or the progress of a command; a panel is stale   *)
(* from a change until a refresh reaches it.                               *)
(* Operators named Faulty... are wrong variants of the next definition.    *)
(***************************************************************************)
EXTENDS Naturals, Sequences

CONSTANTS Panels,   \* connections that may be opened
          SendCap,  \* capacity of a client's send channel (8)
          MaxEvents \* bound on the progress events broadcast

\* What the constants have to satisfy; Services assumes it.
HubAssumption == SendCap \in Nat \ {0} /\ MaxEvents \in Nat

VARIABLES notified,  \* the token in notifyCh
          debounce,  \* the debounce timer is armed
          conn,      \* the connection of each panel
          member,    \* panels in h.clients
          pending,   \* messages in each send channel
          sealed,    \* panels whose send channel is closed
          writer,    \* writePump of each panel
          stale,     \* panels that show data from before a change
          events,    \* progress events broadcast so far
          panicked   \* some goroutine sent on a closed channel

hubVars == <<notified, debounce, conn, member, pending, sealed, writer, stale, events,
             panicked>>
loopVars == <<notified, debounce, events>>

Init == /\ notified = FALSE
        /\ debounce = FALSE
        /\ conn = [c \in Panels |-> "none"]
        /\ member = {}
        /\ pending = [c \in Panels |-> <<>>]
        /\ sealed = {}
        /\ writer = [c \in Panels |-> "none"]
        /\ stale = {}
        /\ events = 0
        /\ panicked = FALSE

-----------------------------------------------------------------------------
(* A change and the hub's loop. *)

\* Data changes and Notify leaves its token, once.
Notify == /\ notified' = TRUE
          /\ stale' = {c \in Panels : writer[c] = "running"}
          /\ UNCHANGED <<debounce, conn, member, pending, sealed, writer, events, panicked>>

\* Each token starts the quiet time anew.
TakeToken == /\ notified
             /\ notified' = FALSE
             /\ debounce' = TRUE
             /\ UNCHANGED <<conn, member, pending, sealed, writer, stale, events, panicked>>

\* broadcastMessage, under the hub's lock: a full channel is passed over.
Broadcast(msg) ==
    /\ pending' = [c \in Panels |-> IF c \in member /\ Len(pending[c]) < SendCap
                                    THEN Append(pending[c], msg) ELSE pending[c]]
    /\ panicked' = (panicked \/ member \cap sealed # {})
    /\ UNCHANGED <<notified, conn, member, sealed, writer, stale>>

FireDebounce == /\ debounce
                /\ debounce' = FALSE
                /\ Broadcast("refresh")
                /\ UNCHANGED events

FaultyHeartbeat == /\ ~notified
                   /\ ~debounce
                   /\ Broadcast("refresh")
                   /\ UNCHANGED <<debounce, events>>
\* Every 15 s, whatever else happens.
Heartbeat == /\ Broadcast("refresh")
             /\ UNCHANGED <<debounce, events>>

\* BroadcastJSON reports the progress of a command, which ends some time.
BroadcastJSON == /\ events < MaxEvents
                 /\ events' = events + 1
                 /\ Broadcast("event")
                 /\ UNCHANGED debounce

-----------------------------------------------------------------------------
(* A connection: handleWebSocket registers the client, puts a greeting into *)
(* its channel, starts writePump and becomes readPump.                      *)

Open(c) == /\ conn[c] = "none"
           /\ conn' = [conn EXCEPT ![c] = "registered"]
           /\ member' = member \cup {c}
           /\ UNCHANGED <<loopVars, pending, sealed, writer, stale, panicked>>

\* A plain send: it waits while the channel is full.
Greet(c) == /\ conn[c] = "registered"
            /\ c \in sealed \/ Len(pending[c]) < SendCap
            /\ conn' = [conn EXCEPT ![c] = "greeted"]
            /\ pending' = [pending EXCEPT ![c] = Append(@, "refresh")]
            /\ panicked' = (panicked \/ c \in sealed)
            /\ UNCHANGED <<loopVars, member, sealed, writer, stale>>

StartPumps(c) == /\ conn[c] = "greeted"
                 /\ conn' = [conn EXCEPT ![c] = "open"]
                 /\ writer' = [writer EXCEPT ![c] = "running"]
                 /\ UNCHANGED <<loopVars, member, pending, sealed, stale, panicked>>

\* writePump sends what is pending; a closed channel is read empty first.
Write(c) == /\ writer[c] = "running"
            /\ pending[c] # <<>>
            /\ pending' = [pending EXCEPT ![c] = Tail(@)]
            /\ stale' = IF Head(pending[c]) = "refresh" THEN stale \ {c} ELSE stale
            /\ UNCHANGED <<loopVars, conn, member, sealed, writer, panicked>>

\* A write fails or finds the channel closed: writePump closes the connection.
EndWriter(c) == /\ writer[c] = "running"
                /\ \/ conn[c] # "open"
                   \/ c \in sealed /\ pending[c] = <<>>
                /\ writer' = [writer EXCEPT ![c] = "ended"]
                /\ conn' = [conn EXCEPT ![c] = IF @ = "open" THEN "broken" ELSE @]
                /\ stale' = stale \ {c}
                /\ UNCHANGED <<loopVars, member, pending, sealed, panicked>>

\* The panel goes away, or does not answer the ping within 60 s.
Break(c) == /\ conn[c] = "open"
            /\ conn' = [conn EXCEPT ![c] = "broken"]
            /\ UNCHANGED <<loopVars, member, pending, sealed, writer, stale, panicked>>

FaultyUnregister(c) == /\ sealed' = sealed \cup {c}
                       /\ UNCHANGED member
\* unregister takes the client out and closes its channel in one critical
\* section.
Unregister(c) == /\ member' = member \ {c}
                 /\ sealed' = sealed \cup {c}

\* readPump reads an error and leaves.
EndReader(c) == /\ conn[c] = "broken"
                /\ conn' = [conn EXCEPT ![c] = "closed"]
                /\ Unregister(c)
                /\ UNCHANGED <<loopVars, pending, writer, stale, panicked>>

-----------------------------------------------------------------------------
Loop == TakeToken \/ FireDebounce
\* The timer fires when no token has started it anew for 1.5 s.
Quiet == ~notified /\ FireDebounce
Writer(c) == Write(c) \/ EndWriter(c)
Connection(c) == Open(c) \/ Greet(c) \/ StartPumps(c) \/ Break(c) \/ EndReader(c)

Next == \/ Notify
        \/ Loop
        \/ Heartbeat
        \/ BroadcastJSON
        \/ \E c \in Panels : Connection(c) \/ Writer(c)

Spec == Init /\ [][Next]_hubVars

TypeOK == /\ notified \in BOOLEAN
          /\ debounce \in BOOLEAN
          /\ conn \in [Panels -> {"none", "registered", "greeted", "open", "broken", "closed"}]
          /\ member \subseteq Panels
          /\ \A c \in Panels : pending[c] \in Seq({"refresh", "event"}) /\ Len(pending[c]) <= SendCap
          /\ sealed \subseteq Panels
          /\ writer \in [Panels -> {"none", "running", "ended"}]
          /\ stale \subseteq Panels
          /\ events \in 0..MaxEvents
          /\ panicked \in BOOLEAN

\* No goroutine ever sends on a send channel that another one has closed, be
\* it the hub in the middle of a broadcast or the handler with its greeting.
NoSendOnClosed == ~panicked

\* An open panel hears of every change in the end, even if changes never stop
\* (each puts the debounce off again) and its channel is full at times.
PanelsHear == \A c \in Panels : []<>(c \notin stale)
=============================================================================
