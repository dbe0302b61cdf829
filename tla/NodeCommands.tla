---------------------------- MODULE NodeCommands ----------------------------
(***************************************************************************)
(* A command an administrator runs on several nodes at once: the handler   *)
(* starts one goroutine per node, each waits for a slot, opens an SSH      *)
(* connection, runs the command under a timeout, reads its two outputs to  *)
(* their end and leaves its result; the handler answers when all have.     *)
(* An administrator who goes away cancels the request's context.           *)
(* The text of command and output, the choice of credentials and the       *)
(* progress messages (WsHub broadcasts them) are left out.                 *)
(* Operators named Faulty... are wrong variants of the next definition.    *)
(***************************************************************************)
EXTENDS Naturals, FiniteSets

CONSTANTS Targets,    \* the nodes resolved for the request
          MaxParallel \* cfg.NodeSSHMaxParallel

\* What the constants have to satisfy; Services assumes it.
CommandAssumption == /\ Targets # {}
                     /\ IsFiniteSet(Targets)
                     /\ MaxParallel \in Nat \ {0}

VARIABLES asked,   \* the request
          left,    \* its context is cancelled
          task,    \* the goroutine of each node
          exited,  \* nodes whose command has ended
          linked,  \* nodes with an open connection
          readers, \* the goroutines that read each node's outputs
          result   \* results[i] of each node

commandVars == <<asked, left, task, exited, linked, readers, result>>

Outputs == {"stdout", "stderr"}
Holding == {t \in Targets : task[t] \notin {"none", "waiting", "done"}}

Init == /\ asked = "none"
        /\ left = FALSE
        /\ task = [t \in Targets |-> "none"]
        /\ exited = {}
        /\ linked = {}
        /\ readers = [t \in Targets |-> {}]
        /\ result = [t \in Targets |-> "none"]

-----------------------------------------------------------------------------
(* The handler. *)

Ask == /\ asked = "none"
       /\ asked' = "running"
       /\ task' = [t \in Targets |-> "waiting"]
       /\ UNCHANGED <<left, exited, linked, readers, result>>

\* wg.Wait returns; the answer counts the results.
Answer == /\ asked = "running"
          /\ \A t \in Targets : task[t] = "done"
          /\ asked' = "answered"
          /\ UNCHANGED <<left, task, exited, linked, readers, result>>

Leave == /\ asked = "running"
         /\ left' = TRUE
         /\ UNCHANGED <<asked, task, exited, linked, readers, result>>

-----------------------------------------------------------------------------
(* The goroutine of a node and executeWithAuth. *)

\* The wait for a slot does not look at the context.
TakeSlot(t) == /\ task[t] = "waiting"
               /\ Cardinality(Holding) < MaxParallel
               /\ task' = [task EXCEPT ![t] = "dialling"]
               /\ UNCHANGED <<asked, left, exited, linked, readers, result>>

\* executeWithAuth returns, its defers close the connection, and the deferred
\* receive gives the slot back.
Finish(t, outcome) == /\ task' = [task EXCEPT ![t] = "done"]
                      /\ result' = [result EXCEPT ![t] = outcome]
                      /\ linked' = linked \ {t}

\* Bad credentials, an address nobody answers at, a refused login.
FailDial(t) == /\ task[t] = "dialling"
               /\ Finish(t, "error")
               /\ UNCHANGED <<asked, left, exited, readers>>

\* Nor does ssh.Dial.
Dial(t) == /\ task[t] = "dialling"
           /\ task' = [task EXCEPT ![t] = "opening"]
           /\ linked' = linked \cup {t}
           /\ UNCHANGED <<asked, left, exited, readers, result>>

FailSession(t) == /\ task[t] = "opening"
                  /\ Finish(t, "error")
                  /\ UNCHANGED <<asked, left, exited, readers>>

\* The session is there: the readers start, and then the command...
StartReaders(t) == /\ task[t] = "opening"
                   /\ task' = [task EXCEPT ![t] = "starting"]
                   /\ readers' = [readers EXCEPT ![t] = Outputs]
                   /\ UNCHANGED <<asked, left, exited, linked, result>>

StartCommand(t) == /\ task[t] = "starting"
                   /\ task' = [task EXCEPT ![t] = "running"]
                   /\ UNCHANGED <<asked, left, exited, linked, readers, result>>

\* ... or not: the readers are left to the closing of the connection.
FailStart(t) == /\ task[t] = "starting"
                /\ Finish(t, "error")
                /\ UNCHANGED <<asked, left, exited, readers>>

\* session.Wait returned: the exit status is there, or there is none.
Collect(t) == /\ task[t] = "running"
              /\ t \in exited
              /\ task' = [task EXCEPT ![t] = "draining"]
              /\ result' \in {[result EXCEPT ![t] = r] : r \in {"ok", "exit", "error"}}
              /\ UNCHANGED <<asked, left, exited, linked, readers>>

FaultyInterrupt(t) == /\ task[t] = "running"
                      /\ task' = [task EXCEPT ![t] = "draining"]
                      /\ result' = [result EXCEPT ![t] = IF left THEN "canceled" ELSE "timeout"]
                      /\ UNCHANGED <<asked, left, exited, linked, readers>>
\* The timeout passes or the context is cancelled: session and connection are
\* closed, the command is left to itself.
Interrupt(t) == /\ task[t] = "running"
                /\ task' = [task EXCEPT ![t] = "draining"]
                /\ result' = [result EXCEPT ![t] = IF left THEN "canceled" ELSE "timeout"]
                /\ linked' = linked \ {t}
                /\ UNCHANGED <<asked, left, exited, readers>>

\* streamWg.Wait: the outputs are complete.
Drain(t) == /\ task[t] = "draining"
            /\ readers[t] = {}
            /\ Finish(t, result[t])
            /\ UNCHANGED <<asked, left, exited, readers>>

\* A reader meets the end of its output or of the connection.
EndReader(t, o) == /\ o \in readers[t]
                   /\ t \in exited \/ t \notin linked
                   /\ readers' = [readers EXCEPT ![t] = @ \ {o}]
                   /\ UNCHANGED <<asked, left, task, exited, linked, result>>

\* The command ends at the node and nothing holds its outputs open any more,
\* or the connection breaks; neither need happen.
Exit(t) == /\ task[t] = "running"
           /\ t \in linked
           /\ exited' = exited \cup {t}
           /\ UNCHANGED <<asked, left, task, linked, readers, result>>

Open(t) == \/ FailDial(t) \/ Dial(t) \/ FailSession(t)
           \/ StartReaders(t) \/ StartCommand(t) \/ FailStart(t)
Goroutine(t) == TakeSlot(t) \/ Open(t) \/ Collect(t) \/ Interrupt(t) \/ Drain(t)

Next == \/ Ask \/ Leave \/ Answer
        \/ \E t \in Targets : \/ Goroutine(t)
                              \/ Exit(t)
                              \/ \E o \in Outputs : EndReader(t, o)

Spec == Init /\ [][Next]_commandVars

-----------------------------------------------------------------------------
TypeOK == /\ asked \in {"none", "running", "answered"}
          /\ left \in BOOLEAN
          /\ task \in [Targets -> {"none", "waiting", "dialling", "opening", "starting",
                                   "running", "draining", "done"}]
          /\ exited \subseteq Targets
          /\ linked \subseteq Holding
          /\ Cardinality(Holding) <= MaxParallel
          /\ readers \in [Targets -> SUBSET Outputs]
          /\ result \in [Targets -> {"none", "ok", "exit", "timeout", "canceled", "error"}]

\* The administrator gets an answer whatever the commands do: one that hangs,
\* or keeps its output open for ever, gives its slot and its readers back when
\* the timeout closes its connection.
CommandsReturn == []<>(asked # "running")
=============================================================================
