--------------------------- MODULE SharingAudit ---------------------------
(***************************************************************************)
(* The sharing detector watched by an observer who remembers what the code *)
(* forgets: since when the applied entries of a user show an unbroken      *)
(* excess, and when each country was last seen.  The two properties below  *)
(* are what ffxban_conf/.env.example says of SHARING_SUSTAIN_SECONDS and   *)
(* of the geo analysis.                                                    *)
(***************************************************************************)
EXTENDS SharingDetector

CONSTANT SourceWindow    \* cfg.SharingSourceWindow: how long a source counts as active

VARIABLES
  lastApplied,   \* time of the last entry of the user that reached the detector
  excessFrom,    \* first entry of the unbroken run of exceeding ones, 0: none
  lastCountry    \* time of the last entry from each country, 0: none

avars == <<vars, lastApplied, excessFrom, lastCountry>>

AInit ==
  /\ Init
  /\ lastApplied = [u \in Users |-> 0]
  /\ excessFrom = [u \in Users |-> 0]
  /\ lastCountry = [u \in Users |-> [c \in Countries |-> 0]]

(* An excess goes on unbroken if the previous entry exceeded as well and    *)
(* its sources could still be active.                                       *)
Remember(u, now, exceeds, seen) ==
  /\ lastApplied' = [lastApplied EXCEPT ![u] = now]
  /\ excessFrom' =
       [excessFrom EXCEPT ![u] =
          IF ~exceeds THEN 0
          ELSE IF @ # 0 /\ now - lastApplied[u] <= SourceWindow THEN @ ELSE now]
  /\ lastCountry' = [lastCountry EXCEPT ![u] = [c \in Countries |->
                                                  IF c \in seen THEN now ELSE @[c]]]

WatchedEntry(w) ==
  \E exceeds \in BOOLEAN, evidence \in (SUBSET IPs) \ {{}},
     seen \in {{}} \cup {{c} : c \in Countries} :
    /\ \/ UpdateSharingStatus(w, exceeds, evidence, seen)
       \/ UpdateAndBan(w, exceeds, evidence, seen)
    /\ Remember(worker[w].user, worker[w].now, exceeds, seen)

Unwatched ==
  /\ \/ \E w \in Workers : \/ \E u \in Users : BeginEntry(w, u) \/ BeginStatus(w, u)
                           \/ SkipEntry(w)
                           \/ FinishBan(w)
                           \/ GetSharingStatus(w)
                           \/ \E rows \in Listed : ListSharingStatuses(w, rows)
     \/ \E u \in Users : ResetSharingState(u) \/ CounterStep(u)
     \/ \E u \in Users, blocked \in SUBSET (IPs \ ExcludedIPs) : RecordBlockedIPs(u, blocked)
     \/ Restart
     \/ Tick
  /\ UNCHANGED <<lastApplied, excessFrom, lastCountry>>

ANext == Unwatched \/ \E w \in Workers : WatchedEntry(w)

ASpec == AInit /\ [][ANext]_avars

(* A trigger is recorded only after a continuous excess: "Минимальная       *)
(* длительность непрерывного превышения для записи триггера (сек)"          *)
(* (ffxban_conf/.env.example, SHARING_SUSTAIN_SECONDS).  A gap in which no  *)
(* source of the user can still have been active breaks the excess.         *)
TriggersAreSustained ==
  [][\A u \in Users :
       sharing'[u].lastTriggerAt > sharing[u].lastTriggerAt =>
         sharing'[u].lastTriggerAt - excessFrom'[u] >= Sustain]_avars

(* A geo mismatch means addresses of several countries active at the same   *)
(* time: "Если у пользователя одновременно активны IP из 2+ стран"          *)
(* (ffxban_conf/.env.example, GEO_SHARING_ENABLED).                         *)
GeoMismatchIsSimultaneous ==
  [][\A u \in Users :
       sharing[u].geoMismatchAt = 0 /\ sharing'[u].geoMismatchAt # 0 =>
         Cardinality({c \in Countries :
                        /\ lastCountry'[u][c] # 0
                        /\ lastCountry'[u][c] >= sharing'[u].geoMismatchAt - SourceWindow})
           >= MinCountries]_avars
===========================================================================
