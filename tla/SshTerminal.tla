----------------------------- MODULE SshTerminal -----------------------------
(***************************************************************************)
(* One interactive terminal of the panel, handleSSHTerminal: a WebSocket   *)
(* to the browser, a shell at a node, and three goroutines between them.   *)
(* The handler opens both and waits; the printer copies the shell's output *)
(* to the browser; the typist copies the browser's input to the shell and  *)
(* answers its pings.  All three write to the one WebSocket, which the     *)
(* library allows to one goroutine at a time: it panics when it notices    *)
(* that two do, and the process with it.                                   *)
(* Operators named Faulty... are wrong variants of the next definition.    *)
(***************************************************************************)
EXTENDS FiniteSets, Naturals

VARIABLES handler, \* handleSSHTerminal
          socket,  \* the WebSocket
          shell,   \* the SSH session
          printer, \* the goroutine of sshDone
          typist   \* the goroutine of wsDone

terminalVars == <<handler, socket, shell, printer, typist>>

Init == /\ handler = "none"
        /\ socket = "none"
        /\ shell = "none"
        /\ printer = "none"
        /\ typist = "none"

-----------------------------------------------------------------------------
(* The handler. *)

\* An upgrade that fails leaves nothing behind.
OpenSocket == /\ handler = "none"
              /\ handler' = "connecting"
              /\ socket' = "open"
              /\ UNCHANGED <<shell, printer, typist>>

FaultyCloseAll == shell' = "closed" /\ UNCHANGED socket
\* The deferred calls of the handler.
CloseAll == shell' = "closed" /\ socket' = "closed"

\* No such node, no credentials, no connection, no shell: the browser is told.
Refuse == /\ handler = "connecting"
          /\ handler' = "ended"
          /\ CloseAll
          /\ UNCHANGED <<printer, typist>>

StartShell == /\ handler = "connecting"
              /\ handler' = "serving"
              /\ shell' = "open"
              /\ printer' = "reading"
              /\ typist' = "reading"
              /\ UNCHANGED socket

\* The select: one of the two goroutines is done; stdin is closed and the
\* browser told...
Notice == /\ handler = "serving"
          /\ printer = "ended" \/ typist = "ended"
          /\ handler' = "closing"
          /\ UNCHANGED <<socket, shell, printer, typist>>

\* ... and the handler returns.
EndHandler == /\ handler = "closing"
              /\ handler' = "ended"
              /\ CloseAll
              /\ UNCHANGED <<printer, typist>>

-----------------------------------------------------------------------------
(* The printer. *)

Take == /\ printer = "reading"
        /\ shell = "open"
        /\ printer' = "writing"
        /\ UNCHANGED <<handler, socket, shell, typist>>

\* The write goes through, and may while the browser is already gone, or fails
\* within its deadline of 15 s.
Write == /\ printer = "writing"
         /\ printer' \in (IF socket = "closed" THEN {"ended"} ELSE {"reading", "ended"})
         /\ UNCHANGED <<handler, socket, shell, typist>>

\* stdout has ended.
EndPrinter == /\ printer = "reading"
              /\ shell # "open"
              /\ printer' = "ended"
              /\ UNCHANGED <<handler, socket, shell, typist>>

-----------------------------------------------------------------------------
(* The typist. *)

\* Input for the shell, or a ping.
Receive == /\ typist = "reading"
           /\ socket = "open"
           /\ typist' \in {"typing", "answering"}
           /\ UNCHANGED <<handler, socket, shell, printer>>

\* The shell takes the input or is gone; the pong is out or has failed.  The
\* errors of both are ignored.
Received == /\ typist \in {"typing", "answering"}
            /\ typist' = "reading"
            /\ UNCHANGED <<handler, socket, shell, printer>>

\* ReadMessage returns an error.
EndTypist == /\ typist = "reading"
             /\ socket # "open"
             /\ typist' = "ended"
             /\ UNCHANGED <<handler, socket, shell, printer>>

-----------------------------------------------------------------------------
(* The browser, the node, and the library. *)

BrowserLeaves == /\ socket = "open"
                 /\ socket' = "left"
                 /\ UNCHANGED <<handler, shell, printer, typist>>

\* The shell ends and the last of its output has arrived.
ShellExits == /\ shell = "open"
              /\ shell' = "exited"
              /\ UNCHANGED <<handler, socket, printer, typist>>

Writing == {g \in {"handler", "printer", "typist"} :
                \/ g = "handler" /\ handler = "closing"
                \/ g = "printer" /\ printer = "writing"
                \/ g = "typist" /\ typist = "answering"}

\* Two write at once and the library notices: the process ends.
Crash == /\ Cardinality(Writing) > 1
         /\ handler' = "ended"
         /\ socket' = "closed"
         /\ shell' = "closed"
         /\ printer' = "ended"
         /\ typist' = "ended"

HandlerStep == Notice \/ EndHandler
PrinterStep == Write \/ EndPrinter
TypistStep == Received \/ EndTypist
Connect == Refuse \/ StartShell

Next == \/ OpenSocket \/ Connect \/ HandlerStep
        \/ Take \/ PrinterStep
        \/ Receive \/ TypistStep
        \/ BrowserLeaves \/ ShellExits
        \/ Crash

Spec == Init /\ [][Next]_terminalVars

-----------------------------------------------------------------------------
TypeOK == /\ handler \in {"none", "connecting", "serving", "closing", "ended"}
          /\ socket \in {"none", "open", "left", "closed"}
          /\ shell \in {"none", "open", "exited", "closed"}
          /\ printer \in {"none", "reading", "writing", "ended"}
          /\ typist \in {"none", "reading", "typing", "answering", "ended"}

Over == /\ handler = "ended"
        /\ socket = "closed"
        /\ shell = "closed"
        /\ printer \in {"none", "ended"}
        /\ typist \in {"none", "ended"}

Parting == socket = "left" \/ shell = "exited" \/ handler \in {"closing", "ended"}

\* A terminal that one side has left comes to an end on both: no goroutine
\* and no connection stays behind, wherever each of them was waiting.
TerminalEnds == []<>(Parting => Over)
=============================================================================
