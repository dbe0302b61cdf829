---------------------------- MODULE RuntimeConfig ----------------------------
(***************************************************************************)
(* The runtime overrides of the settings: administrators who change them,  *)
(* their copy in Redis, the copy the server keeps, the shared *config      *)
(* applyRuntimeOverrides rewrites, and the copy of the three settings the  *)
(* processor keeps for itself.  An override maps a setting to a value or   *)
(* to None; a number stands for a value of any type.                       *)
(* Workers read cfg with no lock: a read may fall between the reset to the *)
(* base and the write of the override, each a step here for all settings   *)
(* together (a reader of one setting cannot tell).                         *)
(* Operators named Faulty... are wrong variants of the next definition.    *)
(***************************************************************************)
EXTENDS Naturals

CONSTANTS Admins,     \* administrators, one request each at a time
          Settings,   \* keys that can be overridden
          Own,        \* those the processor keeps a copy of
          Least,      \* least value of each setting an update or a load takes
          Most,       \* greatest value an update takes
          Base,       \* the value of each setting without overrides
          MaxValue,   \* bound on the values
          None,       \* no override
          MaxRequests \* bound on the requests

Values == 0..MaxValue

\* What the constants have to satisfy; Services assumes it.
ConfigAssumption == /\ MaxValue \in Nat
                    /\ None \notin Values
                    /\ Own \subseteq Settings
                    /\ Least \in [Settings -> Nat]
                    /\ Most \in [Settings -> Nat]
                    /\ Base \in [Settings -> Values]
                    /\ MaxRequests \in Nat

VARIABLES saved,    \* config:overrides in Redis
          live,     \* s.configOverrides
          effective,\* the shared configuration
          own,      \* p.runtimeOverrides
          asking,   \* each administrator's request
          wanted,   \* the overrides a request is to put in place
          writing,  \* who holds configMu, or "nobody"
          requests, \* requests so far
          disturbed,\* requests that another has overlapped
          torn      \* the copies may differ: requests overlapped, or a reply
                    \* or a load failed, and no undisturbed request came since

configVars == <<saved, live, effective, own, asking, wanted, writing, requests, disturbed,
                torn>>
history == <<requests, disturbed, torn>>

Nothing == [k \in Settings |-> None]
Overrides == [Settings -> Values \cup {None}]

Init == /\ saved = Nothing
        /\ live = Nothing
        /\ effective = Base
        /\ own = [k \in Own |-> None]
        /\ asking = [a \in Admins |-> "none"]
        /\ wanted = [a \in Admins |-> Nothing]
        /\ writing = "nobody"
        /\ requests = 0
        /\ disturbed = {}
        /\ torn = FALSE

-----------------------------------------------------------------------------
(* Helpers. *)

\* What an update takes; it refuses a request with any other value.
Admissible(k) == {None} \cup {v \in Values : v >= Least[k] /\ v <= Most[k]}

FaultyLoadable(k, v) == v > Least[k]
\* What a load takes: it checks no upper bound.
Loadable(k, v) == v >= Least[k]

\* parseRuntimeOverrides: a value that does not pass is no override.
Parsed(text) == [k \in Settings |->
    IF text[k] # None /\ Loadable(k, text[k]) THEN text[k] ELSE None]

Overridden(over) == [k \in Settings |-> IF over[k] # None THEN over[k] ELSE Base[k]]
OwnPart(over) == [k \in Own |-> over[k]]

Busy == {a \in Admins : asking[a] # "none"}

-----------------------------------------------------------------------------
(* Requests. *)

Start(a, over) == /\ asking[a] = "none"
                  /\ requests < MaxRequests
                  /\ asking' = [asking EXCEPT ![a] = "ready"]
                  /\ wanted' = [wanted EXCEPT ![a] = over]
                  /\ requests' = requests + 1
                  /\ disturbed' = IF Busy = {} THEN {} ELSE disturbed \cup Busy \cup {a}
                  /\ torn' = (torn \/ Busy # {})
                  /\ UNCHANGED <<saved, live, effective, own, writing>>

\* An update changes the keys it names in a copy of the overrides in force,
\* read under configMu; null takes an override away.
Update(a) == /\ writing = "nobody"
             /\ \E k \in Settings : \E v \in Admissible(k) : Start(a, [live EXCEPT ![k] = v])

Reset(a) == Start(a, Nothing)

Save(a) == /\ asking[a] = "ready"
           /\ saved' = wanted[a]
           /\ asking' = [asking EXCEPT ![a] = "saved"]
           /\ UNCHANGED <<live, effective, own, wanted, writing, history>>

\* Redis answers with an error or not in time: the request ends, and the
\* transaction was executed or not.
SaveFails(a) == /\ asking[a] = "ready"
                /\ asking' = [asking EXCEPT ![a] = "none"]
                /\ wanted' = [wanted EXCEPT ![a] = Nothing]
                /\ \/ UNCHANGED <<saved, torn>>
                   \/ saved' = wanted[a] /\ torn' = TRUE
                /\ UNCHANGED <<live, effective, own, writing, requests, disturbed>>

\* applyRuntimeOverrides, under configMu: every setting back to its base...
ResetToBase(a) == /\ asking[a] = "saved"
                  /\ writing = "nobody"
                  /\ writing' = a
                  /\ live' = wanted[a]
                  /\ effective' = Base
                  /\ asking' = [asking EXCEPT ![a] = "resetting"]
                  /\ UNCHANGED <<saved, own, wanted, history>>

\* ... then the overrides; configMu is released...
ApplyOverrides(a) == /\ asking[a] = "resetting"
                     /\ effective' = Overridden(wanted[a])
                     /\ writing' = "nobody"
                     /\ asking' = [asking EXCEPT ![a] = "applied"]
                     /\ UNCHANGED <<saved, live, own, wanted, history>>

\* ... and the processor gets its part.
SetRuntimeOverrides(a) == /\ asking[a] = "applied"
                          /\ own' = OwnPart(wanted[a])
                          /\ asking' = [asking EXCEPT ![a] = "none"]
                          /\ wanted' = [wanted EXCEPT ![a] = Nothing]
                          /\ torn' = (torn /\ a \in disturbed)
                          /\ UNCHANGED <<saved, live, effective, writing, requests, disturbed>>

\* A restart drops the requests and loads what is saved; when Redis does not
\* answer the server starts without overrides.
Restart == /\ requests > 0
           /\ \E text \in {saved, Nothing} :
                LET loaded == Parsed(text)
                IN /\ live' = loaded
                   /\ effective' = Overridden(loaded)
                   /\ own' = OwnPart(loaded)
                   /\ torn' = (text # saved)
           /\ asking' = [a \in Admins |-> "none"]
           /\ wanted' = [a \in Admins |-> Nothing]
           /\ writing' = "nobody"
           /\ disturbed' = {}
           /\ UNCHANGED <<saved, requests>>

Request(a) == Update(a) \/ Reset(a) \/ Save(a) \/ SaveFails(a)
              \/ ResetToBase(a) \/ ApplyOverrides(a) \/ SetRuntimeOverrides(a)

Next == (\E a \in Admins : Request(a)) \/ Restart

Spec == Init /\ [][Next]_configVars

-----------------------------------------------------------------------------
TypeOK == /\ saved \in Overrides
          /\ live \in Overrides
          /\ effective \in [Settings -> Values]
          /\ own \in [Own -> Values \cup {None}]
          /\ asking \in [Admins -> {"none", "ready", "saved", "resetting", "applied"}]
          /\ wanted \in [Admins -> Overrides]
          /\ writing \in Admins \cup {"nobody"}
          /\ requests \in 0..MaxRequests
          /\ disturbed \subseteq Admins
          /\ torn \in BOOLEAN

\* When no request is under way, the four copies of the overrides agree: what
\* a restart would load is what the panel shows, what the server runs with and
\* what the processor uses.  It is so whatever updates failed to be saved, and
\* one undisturbed request sets right what overlapping requests, a lost reply
\* or a failed load left apart.
CopiesAgree == Busy = {} /\ ~torn => /\ live = saved
                                     /\ effective = Overridden(saved)
                                     /\ own = OwnPart(saved)
=============================================================================
