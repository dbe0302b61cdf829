---------------------- MODULE SharingDetectorProofs ----------------------
(***************************************************************************)
(* Proofs about SharingDetector: its safety invariants hold, nobody leaves *)
(* the ban-list without cause, and the detector implements BanLifecycle,   *)
(* for all users, workers, addresses, thresholds and ladders, every mix of *)
(* faults and any number of restarts.                                      *)
(*                                                                         *)
(* The inductive invariant, Inv, has a part for the record of one user     *)
(* (StateInv), which each transformation of a record re-establishes by a   *)
(* lemma of its own, and a part for each protocol around the record: what  *)
(* a worker carries (WorkerInv), the publication lock (OnePublisher), the  *)
(* backing of permanent bans (BackedInv) and the ban counter (CounterInv). *)
(***************************************************************************)
EXTENDS SharingDetector, FiniteSetTheorems, TLAPS

--------------------------------------------------------------------------
(* The record of one user *)

TriggersOK(s) ==
  /\ IsFiniteSet(s.triggers)
  /\ \A t \in s.triggers : /\ t <= s.lastTriggerAt
                           /\ t >= s.lastTriggerAt - TriggerPeriod
                           /\ t # 0
  /\ \A t1, t2 \in s.triggers : t1 < t2 => t2 - t1 >= TriggerMinInterval

BanlistOK(s) ==
  s.banlistSince # 0 /\ s.permanentSince = 0 =>
    /\ s.violatorSince # 0
    /\ s.banlistSince - s.violatorSince >= BanlistThreshold

EvidenceOK(s) == s.violatorSince # 0 => s.ips # {}

(* What holds of a record in the middle of a critical section, before the   *)
(* violator status is brought in line with the triggers.                    *)
Draft(s) ==
  /\ s \in SharingState
  /\ TriggersOK(s)
  /\ BanlistOK(s)
  /\ EvidenceOK(s)

StateInv(s) ==
  /\ Draft(s)
  /\ s.violatorSince # 0 <=> Confirmed(s)

(* The fields a transformation of triggers leaves alone. *)
SameStatus(r, s) ==
  /\ r.violatorSince = s.violatorSince
  /\ r.banlistSince = s.banlistSince
  /\ r.permanentSince = s.permanentSince
  /\ r.permanentPend = s.permanentPend
  /\ r.ips = s.ips
  /\ r.banCount = s.banCount

(* Pruning triggers keeps a record a draft. *)
LEMMA PruneDraft ==
  ASSUME NEW s, Draft(s), NEW now \in Nat
  PROVE  /\ Draft(Prune(s, now))
         /\ SameStatus(Prune(s, now), s)
         /\ Prune(s, now).lastTriggerAt = s.lastTriggerAt
         /\ Prune(s, now).triggers \subseteq s.triggers
         /\ \A t \in Prune(s, now).triggers : t >= now - TriggerPeriod
<1> DEFINE r == Prune(s, now)
<1>1. /\ r \in SharingState
      /\ r.triggers = {t \in s.triggers : t >= now - TriggerPeriod}
      /\ SameStatus(r, s)
      /\ r.lastTriggerAt = s.lastTriggerAt
  BY DEF Draft, SharingState, Prune, SameStatus
<1>2. IsFiniteSet(r.triggers)
  BY <1>1, FS_Subset DEF Draft, TriggersOK
<1>3. QED
  BY <1>1, <1>2 DEF Draft, TriggersOK, BanlistOK, EvidenceOK, SameStatus

(* Recording a trigger keeps the discipline of the triggers: the new one is *)
(* the largest, and at a distance from the others.                          *)
LEMMA AppendTriggerDraft ==
  ASSUME NEW s, Draft(s), NEW now \in Nat \ {0}, TriggerDue(s, now)
  PROVE  /\ Draft(AppendTrigger(s, now))
         /\ SameStatus(AppendTrigger(s, now), s)
<1> USE ThresholdAssumption
<1> DEFINE e == [s EXCEPT !.triggers = s.triggers \cup {now}, !.lastTriggerAt = now]
           r == AppendTrigger(s, now)
<1>1. /\ e \in SharingState
      /\ SameStatus(e, s)
  BY DEF Draft, SharingState, SameStatus
<1>2. /\ r \in SharingState
      /\ SameStatus(r, s)
      /\ r.lastTriggerAt = now
      /\ r.triggers = {t \in s.triggers \cup {now} : t >= now - TriggerPeriod}
  BY <1>1 DEF Draft, SharingState, AppendTrigger, Prune, SameStatus
<1>3. IsFiniteSet(r.triggers)
  <2>1. IsFiniteSet(s.triggers \cup {now})
    BY FS_AddElement DEF Draft, TriggersOK
  <2>2. QED
    BY <2>1, <1>2, FS_Subset
<1>4. \A t \in s.triggers : t \in Nat /\ now - t >= TriggerMinInterval
  <2>1. s.triggers \subseteq Nat /\ s.lastTriggerAt \in Nat
    BY DEF Draft, SharingState
  <2>2. QED
    BY <2>1 DEF Draft, TriggersOK, TriggerDue
<1>5. TriggersOK(r)
  <2>1. \A t \in r.triggers : t <= now /\ t >= now - TriggerPeriod /\ t # 0
    BY <1>2, <1>4 DEF Draft, TriggersOK
  <2>2. ASSUME NEW t1 \in r.triggers, NEW t2 \in r.triggers, t1 < t2
        PROVE  t2 - t1 >= TriggerMinInterval
    BY <2>2, <1>2, <1>4 DEF Draft, TriggersOK
  <2>3. QED
    BY <1>2, <1>3, <2>1, <2>2 DEF TriggersOK
<1>6. QED
  BY <1>2, <1>5 DEF Draft, BanlistOK, EvidenceOK, SameStatus

(* An exceeding entry, applied to a draft, yields a draft. *)
LEMMA ExceedingDraft ==
  ASSUME NEW s, Draft(s), NEW now \in Nat \ {0}
  PROVE  Draft(Exceeding(s, now)) /\ SameStatus(Exceeding(s, now), s)
<1> DEFINE e == StartExcess(s, now)
<1>1. Draft(e) /\ SameStatus(e, s)
  BY DEF Draft, SharingState, StartExcess, TriggersOK, BanlistOK, EvidenceOK, SameStatus
<1>2. CASE TriggerDue(e, now)
  BY <1>1, <1>2, AppendTriggerDraft DEF Exceeding, SameStatus
<1>3. CASE ~TriggerDue(e, now)
  BY <1>1, <1>3 DEF Exceeding
<1>4. QED
  BY <1>2, <1>3

(* A compliant entry, applied to a draft, yields a draft. *)
LEMMA ComplyingDraft ==
  ASSUME NEW s, Draft(s)
  PROVE  Draft(Complying(s)) /\ SameStatus(Complying(s), s)
<1> DEFINE r == Complying(s)
<1>1. r \in SharingState /\ r.triggers = {} /\ SameStatus(r, s)
  BY DEF Draft, SharingState, Complying, SameStatus
<1>2. IsFiniteSet(r.triggers)
  BY <1>1, FS_EmptySet
<1>3. QED
  BY <1>1, <1>2 DEF Draft, TriggersOK, BanlistOK, EvidenceOK, SameStatus

(* A transformation that neither bans the user nor settles a ban. *)
SameBan(r, s) ==
  /\ r.permanentSince = s.permanentSince
  /\ r.permanentPend = s.permanentPend
  /\ r.banCount = s.banCount

(* The moves of a user's standing short of the ban-list: it stays, the user *)
(* is cleared -- and then the triggers no longer confirm the sharing -- or  *)
(* it becomes a violator.                                                   *)
Falls(s, r) ==
  /\ \/ Standing(r) = Standing(s)
     \/ Standing(s) # "permanent" /\ Standing(r) = "clear"
  /\ InBanlist(s) /\ ~InBanlist(r) => s.permanentSince = 0 /\ ~Confirmed(r)

Moves(s, r) ==
  \/ Falls(s, r)
  \/ Standing(s) = "clear" /\ Standing(r) = "violator"

(* Ending the violator status of an unconfirmed draft restores StateInv. *)
LEMMA ClearViolatorInv ==
  ASSUME NEW s, Draft(s), ~Confirmed(s)
  PROVE  /\ StateInv(ClearViolator(s))
         /\ SameBan(ClearViolator(s), s)
         /\ Falls(s, ClearViolator(s))
<1> DEFINE r == ClearViolator(s)
<1>1. /\ r \in SharingState
      /\ r.violatorSince = 0
      /\ r.triggers = s.triggers
      /\ r.lastTriggerAt = s.lastTriggerAt
      /\ r.banlistSince = IF s.permanentSince = 0 THEN 0 ELSE s.banlistSince
      /\ SameBan(r, s)
  BY DEF Draft, SharingState, ClearViolator, SameBan
<1>2. StateInv(r)
  BY <1>1 DEF StateInv, Draft, TriggersOK, BanlistOK, EvidenceOK, Confirmed, SameBan
<1>3. Falls(s, r)
  BY <1>1 DEF Falls, Standing, InBanlist, Confirmed, SameBan
<1>4. QED
  BY <1>1, <1>2, <1>3

(* Confirming a confirmed draft restores StateInv; only a user that was not *)
(* a violator becomes one now.                                              *)
LEMMA ConfirmInv ==
  ASSUME NEW s, Draft(s), Confirmed(s), NEW now \in Nat \ {0},
         NEW evidence \in (SUBSET IPs) \ {{}}
  PROVE  /\ StateInv(Confirm(s, evidence, now))
         /\ SameBan(Confirm(s, evidence, now), s)
         /\ Moves(s, Confirm(s, evidence, now))
         /\ Confirm(s, evidence, now).banlistSince = s.banlistSince
         /\ Confirm(s, evidence, now).violatorSince \in {s.violatorSince, now}
<1> DEFINE r == Confirm(s, evidence, now)
<1>1. /\ r \in SharingState
      /\ r.violatorSince = IF s.violatorSince = 0 THEN now ELSE s.violatorSince
      /\ r.triggers = s.triggers
      /\ r.lastTriggerAt = s.lastTriggerAt
      /\ r.banlistSince = s.banlistSince
      /\ r.ips = s.ips \cup evidence
      /\ SameBan(r, s)
  BY DEF Draft, SharingState, Confirm, SameBan
<1>2. r.violatorSince # 0
  BY <1>1
<1>3. BanlistOK(r)
  BY <1>1 DEF Draft, BanlistOK, SameBan
<1>4. StateInv(r)
  BY <1>1, <1>2, <1>3 DEF StateInv, Draft, TriggersOK, EvidenceOK, Confirmed
<1>5. Moves(s, r)
  BY <1>1 DEF Draft, BanlistOK, Moves, Falls, Standing, InBanlist, SameBan
<1>6. QED
  BY <1>1, <1>4, <1>5

(* Judging a draft by its triggers restores StateInv. *)
LEMMA JudgeInv ==
  ASSUME NEW s, Draft(s), NEW now \in Nat \ {0},
         NEW evidence \in (SUBSET IPs) \ {{}}
  PROVE  LET r == Judge(s, evidence, now)
         IN  /\ StateInv(r)
             /\ SameBan(r, s)
             /\ Moves(s, r)
             /\ Confirmed(r) => /\ r.banlistSince = s.banlistSince
                                /\ r.violatorSince \in {s.violatorSince, now}
<1>1. CASE Confirmed(s)
  BY <1>1, ConfirmInv DEF Judge
<1>2. CASE ~Confirmed(s) /\ s.violatorSince # 0
  <2>1. ~Confirmed(ClearViolator(s))
    BY <1>2 DEF ClearViolator, Confirmed, Draft, SharingState
  <2>2. QED
    BY <1>2, <2>1, ClearViolatorInv DEF Judge, Moves
<1>3. CASE ~Confirmed(s) /\ s.violatorSince = 0
  BY <1>3 DEF Judge, StateInv, SameBan, Moves, Falls
<1>4. QED
  BY <1>1, <1>2, <1>3

(* The part of updateSharingStatus before the ban-list decision. *)
LEMMA ObserveInv ==
  ASSUME NEW s, Draft(s), NEW exceeds \in BOOLEAN, NEW now \in Nat \ {0},
         NEW evidence \in (SUBSET IPs) \ {{}}
  PROVE  LET r == Observe(s, exceeds, evidence, now)
         IN  /\ StateInv(r)
             /\ SameBan(r, s)
             /\ Moves(s, r)
             /\ Confirmed(r) => /\ r.banlistSince = s.banlistSince
                                /\ r.violatorSince \in {s.violatorSince, now}
<1> DEFINE k == [s EXCEPT !.known = TRUE]
           p == Prune(k, now)
           q == IF exceeds THEN Exceeding(p, now) ELSE Complying(p)
           r == Judge(q, evidence, now)
<1>1. Draft(k) /\ SameStatus(k, s)
  BY DEF Draft, SharingState, TriggersOK, BanlistOK, EvidenceOK, SameStatus
<1>2. Draft(p) /\ SameStatus(p, s)
  BY <1>1, PruneDraft DEF SameStatus
<1>3. Draft(q) /\ SameStatus(q, s)
  BY <1>2, ExceedingDraft, ComplyingDraft DEF SameStatus
<1>4. /\ StateInv(r)
      /\ SameBan(r, q)
      /\ Moves(q, r)
      /\ Confirmed(r) => /\ r.banlistSince = q.banlistSince
                         /\ r.violatorSince \in {q.violatorSince, now}
  BY <1>3, JudgeInv
<1>5. Standing(q) = Standing(s) /\ (InBanlist(q) <=> InBanlist(s))
  BY <1>3 DEF SameStatus, Standing, InBanlist
<1>6. r = Observe(s, exceeds, evidence, now)
  BY DEF Observe
<1> HIDE DEF q, r
<1>7. QED
  BY <1>3, <1>4, <1>5, <1>6 DEF SameStatus, SameBan, Moves, Falls

(* A status read. *)
LEMMA ExpireInv ==
  ASSUME NEW s, StateInv(s), NEW now \in Nat
  PROVE  LET r == Expire(s, now)
         IN  StateInv(r) /\ SameBan(r, s) /\ Falls(s, r)
<1> USE ThresholdAssumption
<1> DEFINE p == Prune(s, now)
<1>1. Draft(p) /\ SameStatus(p, s) /\ p.triggers \subseteq s.triggers
  BY PruneDraft DEF StateInv
<1>2. CASE p.violatorSince # 0 /\ ~Confirmed(p)
  <2>1. StateInv(ClearViolator(p)) /\ SameBan(ClearViolator(p), p) /\ Falls(p, ClearViolator(p))
    BY <1>1, <1>2, ClearViolatorInv
  <2>2. QED
    BY <1>1, <1>2, <2>1 DEF Expire, SameStatus, SameBan, Falls, Standing, InBanlist
<1>3. CASE p.violatorSince # 0 /\ Confirmed(p)
  BY <1>1, <1>3 DEF Expire, StateInv, SameStatus, SameBan, Falls, Standing, InBanlist
<1>4. CASE p.violatorSince = 0
  <2>1. ~Confirmed(s)
    BY <1>1, <1>4 DEF StateInv, SameStatus
  <2>2. ~Confirmed(p)
    <3>1. IsFiniteSet(s.triggers)
      BY DEF StateInv, Draft, TriggersOK
    <3>2. /\ Cardinality(p.triggers) \in Nat
          /\ Cardinality(s.triggers) \in Nat
          /\ Cardinality(p.triggers) <= Cardinality(s.triggers)
      BY <1>1, <3>1, FS_Subset, FS_CardinalityType
    <3>3. QED
      BY <2>1, <3>2 DEF Confirmed
  <2>3. QED
    BY <1>1, <1>4, <2>2 DEF Expire, StateInv, SameStatus, SameBan, Falls, Standing, InBanlist
<1>5. QED
  BY <1>2, <1>3, <1>4

(* ResetSharingState *)
LEMMA ClearedInv ==
  ASSUME NEW s, StateInv(s)
  PROVE  /\ StateInv(Cleared(s))
         /\ SameBan(Cleared(s), s)
         /\ Falls(s, Cleared(s))
<1> USE ThresholdAssumption
<1> DEFINE e == [s EXCEPT !.triggers = {}, !.exceedSince = 0, !.lastTriggerAt = 0]
<1>1. e \in SharingState /\ e.triggers = {} /\ SameStatus(e, s)
  BY DEF StateInv, Draft, SharingState, SameStatus
<1>2. IsFiniteSet(e.triggers) /\ ~Confirmed(e)
  BY <1>1, FS_EmptySet DEF Confirmed
<1>3. Draft(e)
  BY <1>1, <1>2 DEF StateInv, Draft, TriggersOK, BanlistOK, EvidenceOK, SameStatus
<1>4. StateInv(ClearViolator(e)) /\ SameBan(ClearViolator(e), e) /\ Falls(e, ClearViolator(e))
  BY <1>2, <1>3, ClearViolatorInv
<1>5. QED
  BY <1>1, <1>4 DEF Cleared, SameStatus, SameBan, Falls, Standing, InBanlist

(* Geo tracking leaves the status alone. *)
LEMMA SeeCountriesInv ==
  ASSUME NEW s, StateInv(s), NEW seen \in SUBSET Countries, NEW now \in Nat
  PROVE  /\ StateInv(SeeCountries(s, seen, now))
         /\ SameStatus(SeeCountries(s, seen, now), s)
         /\ SeeCountries(s, seen, now).triggers = s.triggers
<1> DEFINE r == SeeCountries(s, seen, now)
<1>1. r \in SharingState
  BY DEF StateInv, Draft, SharingState, SeeCountries
<1>2. /\ SameStatus(r, s)
      /\ r.triggers = s.triggers
      /\ r.lastTriggerAt = s.lastTriggerAt
  BY DEF StateInv, Draft, SharingState, SeeCountries, SameStatus
<1>3. QED
  BY <1>1, <1>2 DEF StateInv, Draft, TriggersOK, BanlistOK, EvidenceOK, SameStatus, Confirmed

(* Entering the ban-list. *)
LEMMA AddToBanlistInv ==
  ASSUME NEW s, StateInv(s), NEW now \in Nat \ {0}, BanlistDue(s, now)
  PROVE  LET r == AddToBanlist(s, now)
         IN  /\ StateInv(r)
             /\ r.banlistSince # 0
             /\ r.permanentSince = s.permanentSince
             /\ r.permanentPend = IF StartsPublication(s) THEN TRUE ELSE s.permanentPend
             /\ r.banCount = s.banCount + 1
             /\ r.ips = s.ips
<1> DEFINE r == AddToBanlist(s, now)
<1>1. r \in SharingState
  <2> DEFINE n == s.banCount + 1
  <2>1. s \in SharingState /\ n \in Nat
    BY DEF StateInv, Draft, SharingState
  <2>2. r = [s EXCEPT !.banlistSince = now, !.banCount = n,
                      !.permanentPend = IF StartsPublication(s) THEN TRUE ELSE s.permanentPend]
    BY DEF AddToBanlist
  <2> HIDE DEF n, r
  <2>3. QED
    BY <2>1, <2>2 DEF SharingState
<1>2. /\ r.triggers = s.triggers
      /\ r.lastTriggerAt = s.lastTriggerAt
      /\ r.violatorSince = s.violatorSince
      /\ r.banlistSince = now
      /\ r.permanentSince = s.permanentSince
      /\ r.permanentPend = IF StartsPublication(s) THEN TRUE ELSE s.permanentPend
      /\ r.banCount = s.banCount + 1
      /\ r.ips = s.ips
  BY DEF StateInv, Draft, SharingState, AddToBanlist
<1>3. s.violatorSince # 0
  BY DEF StateInv, BanlistDue
<1>4. BanlistOK(r)
  BY <1>2, <1>3 DEF BanlistDue, BanlistOK
<1>5. QED
  BY <1>1, <1>2, <1>4 DEF StateInv, Draft, TriggersOK, EvidenceOK, Confirmed

--------------------------------------------------------------------------
(* The inductive invariant *)

(* A worker past its idle state carries a set time, and has applied nothing *)
(* before it publishes.                                                     *)
WorkerInv ==
  \A w \in Workers :
    /\ worker[w].pc # "idle" => worker[w].now # 0
    /\ worker[w].pc = "publish" => worker[w].applied = NoDuration

(* A worker that published a ban knows addresses to record; one that is     *)
(* about to mark a permanent ban has recorded them.                         *)
BackedInv ==
  /\ PermanentBacked
  /\ \A w \in Workers :
       worker[w].pc = "record" =>
         /\ worker[w].applied \in published[worker[w].user]
         /\ worker[w].seed # {}
         /\ worker[w].seed \cap ExcludedIPs = {}
  /\ \A w \in Workers :
       worker[w].pc = "settle" /\ worker[w].applied = "permanent" =>
         /\ "permanent" \in published[worker[w].user]
         /\ lastBlocked[worker[w].user] # {}
         /\ lastBlocked[worker[w].user] \cap ExcludedIPs = {}

(* No answer on its way to memory claims more than Redis holds. *)
CounterInv ==
  /\ OverstatedOnlyByResends
  /\ \A u \in Users :
       /\ loader[u].pc = "answered" => loader[u].count <= persisted[u]
       /\ \A n \in replies[u] : n <= persisted[u]

StatesInv == \A u \in Users : StateInv(sharing[u])

Inv ==
  /\ TypeOK
  /\ StatesInv
  /\ WorkerInv
  /\ OnePublisher
  /\ BackedInv
  /\ CounterInv

(* A free worker is a well-typed goroutine.                                 *)
LEMMA IdleType == Idle \in Goroutine
<1> DEFINE c == CHOOSE u \in Users : TRUE
<1>1. c \in Users
  BY ConfigAssumption
<1>2. Idle = [pc |-> "idle", user |-> c, now |-> 0,
              seed |-> {}, banCount |-> 0, applied |-> NoDuration]
  BY DEF Idle
<1> HIDE DEF c
<1>3. QED
  BY <1>1, <1>2 DEF Goroutine, Stages

(* A record nobody has written satisfies the state invariant.               *)
LEMMA NoStateInv == StateInv(NoState)
<1> USE ThresholdAssumption
<1>1. IsFiniteSet({}) /\ Cardinality({}) = 0
  BY FS_EmptySet
<1>2. QED
  BY <1>1 DEF NoState, StateInv, Draft, SharingState, TriggersOK, BanlistOK, EvidenceOK, Confirmed

(* The ladder is never read out of its range, whatever the counter says. *)
LEMMA EscalatedDurationType ==
  ASSUME NEW n \in Nat
  PROVE  EscalatedDuration(n) \in Durations
<1> USE ConfigAssumption
<1>1. CASE Ladder = << >>
  BY <1>1 DEF EscalatedDuration
<1>2. CASE Ladder # << >>
  <2>1. Len(Ladder) \in Nat /\ Len(Ladder) > 0
    BY <1>2
  <2>2. (IF n < 1 THEN 1 ELSE IF n > Len(Ladder) THEN Len(Ladder) ELSE n) \in 1 .. Len(Ladder)
    BY <2>1
  <2>3. QED
    BY <1>2, <2>2 DEF EscalatedDuration
<1>3. QED
  BY <1>1, <1>2

(* The initial state.                                                       *)
LEMMA InitInv == Init => Inv
<1> SUFFICES ASSUME Init PROVE Inv
  OBVIOUS
<1>1. TypeOK
  <2>1. NoState \in SharingState
    BY NoStateInv DEF StateInv, Draft
  <2>2. QED
    BY <2>1, IdleType DEF Init, TypeOK, AllIdle, NoLoader, LoaderState
<1>2. StatesInv
  BY NoStateInv DEF Init, StatesInv
<1>3. WorkerInv
  BY DEF Init, WorkerInv, AllIdle, Idle
<1>4. OnePublisher
  BY DEF Init, OnePublisher, PublishersOf, Publishing, AllIdle, Idle, NoState
<1>5. BackedInv
  BY DEF Init, BackedInv, PermanentBacked, AllIdle, Idle, NoState
<1>6. CounterInv
  BY DEF Init, CounterInv, OverstatedOnlyByResends, NoState, NoLoader
<1>7. QED
  BY <1>1, <1>2, <1>3, <1>4, <1>5, <1>6 DEF Inv

(* BeginEntry, BeginStatus and SkipEntry only move a worker in and out of   *)
(* stages that do not publish.                                              *)
LEMMA BeginInv ==
  ASSUME Inv, NEW w \in Workers, NEW u \in Users,
         BeginEntry(w, u) \/ BeginStatus(w, u)
  PROVE  Inv'
<1>1. PICK r \in Goroutine : /\ worker' = [worker EXCEPT ![w] = r]
                             /\ r.pc \in {"entry", "status"}
                             /\ r.now # 0
  <2>1. CASE BeginEntry(w, u)
    <3> DEFINE r == [Idle EXCEPT !.pc = "entry", !.user = u, !.now = clock]
    <3>1. r \in Goroutine /\ r.pc = "entry" /\ r.now # 0
      BY IdleType DEF Inv, TypeOK, Goroutine, Stages
    <3>2. QED
      BY <2>1, <3>1 DEF BeginEntry
  <2>2. CASE BeginStatus(w, u)
    <3> DEFINE r == [Idle EXCEPT !.pc = "status", !.user = u, !.now = clock]
    <3>1. r \in Goroutine /\ r.pc = "status" /\ r.now # 0
      BY IdleType DEF Inv, TypeOK, Goroutine, Stages
    <3>2. QED
      BY <2>2, <3>1 DEF BeginStatus
  <2>3. QED
    BY <2>1, <2>2
<1>2. /\ worker[w].pc = "idle"
      /\ UNCHANGED <<clock, sharing, lastBlocked, loader, queued, replies,
                     persisted, published, bans, resent, restarts>>
  BY DEF BeginEntry, BeginStatus
<1>3. TypeOK'
  BY <1>1, <1>2 DEF Inv, TypeOK
<1>4. StatesInv'
  BY <1>2 DEF Inv, StatesInv
<1>5. WorkerInv'
  BY <1>1, <1>2 DEF Inv, TypeOK, WorkerInv
<1>6. OnePublisher'
  BY <1>1, <1>2 DEF Inv, TypeOK, OnePublisher, PublishersOf, Publishing
<1>7. BackedInv'
  BY <1>1, <1>2 DEF Inv, TypeOK, BackedInv, PermanentBacked
<1>8. CounterInv'
  BY <1>2 DEF Inv, CounterInv, OverstatedOnlyByResends
<1>9. QED
  BY <1>3, <1>4, <1>5, <1>6, <1>7, <1>8 DEF Inv

(* An early return only frees the worker.                                   *)
LEMMA SkipEntryInv ==
  ASSUME Inv, NEW w \in Workers, SkipEntry(w)
  PROVE  Inv'
<1>1. TypeOK'
  BY IdleType DEF Inv, SkipEntry, TypeOK
<1>2. StatesInv'
  BY DEF Inv, SkipEntry, StatesInv
<1>3. WorkerInv'
  BY DEF Inv, SkipEntry, TypeOK, WorkerInv, Idle
<1>4. OnePublisher'
  BY DEF Inv, SkipEntry, TypeOK, Idle, OnePublisher, PublishersOf, Publishing
<1>5. BackedInv'
  BY DEF Inv, SkipEntry, TypeOK, Idle, BackedInv, PermanentBacked
<1>6. CounterInv'
  BY DEF Inv, SkipEntry, CounterInv, OverstatedOnlyByResends
<1>7. QED
  BY <1>1, <1>2, <1>3, <1>4, <1>5, <1>6 DEF Inv

(* What updateSharingStatus observes, for a worker that holds an entry. *)
LEMMA EntryObserved ==
  ASSUME Inv, NEW w \in Workers, worker[w].pc = "entry", NEW exceeds \in BOOLEAN,
         NEW evidence \in (SUBSET IPs) \ {{}}
  PROVE  LET s == sharing[worker[w].user]
             r == Observe(s, exceeds, evidence, worker[w].now)
         IN  /\ worker[w].user \in Users
             /\ worker[w].now \in Nat \ {0}
             /\ StateInv(s)
             /\ StateInv(r)
             /\ SameBan(r, s)
             /\ Moves(s, r)
             /\ Confirmed(r) => /\ r.banlistSince = s.banlistSince
                                /\ r.violatorSince \in {s.violatorSince, worker[w].now}
<1>1. worker[w].user \in Users /\ worker[w].now \in Nat \ {0}
  BY DEF Inv, TypeOK, Goroutine, WorkerInv
<1>2. StateInv(sharing[worker[w].user])
  BY <1>1 DEF Inv, StatesInv
<1>3. QED
  BY <1>1, <1>2, ObserveInv DEF StateInv

(* An entry that does not bring the user into the ban-list changes the      *)
(* user's record and frees the worker.                                      *)
LEMMA UpdateSharingStatusStep ==
  ASSUME Inv, NEW w \in Workers, NEW exceeds \in BOOLEAN,
         NEW evidence \in (SUBSET IPs) \ {{}}, NEW seen \in SUBSET Countries,
         UpdateSharingStatus(w, exceeds, evidence, seen)
  PROVE  \E r : /\ StateInv(r)
                /\ SameBan(r, sharing[worker[w].user])
                /\ Moves(sharing[worker[w].user], r)
                /\ sharing' = [sharing EXCEPT ![worker[w].user] = r]
<1> DEFINE s == sharing[worker[w].user]
           o == Observe(s, exceeds, evidence, worker[w].now)
           r == SeeCountries(o, seen, worker[w].now)
<1>1. /\ worker[w].now \in Nat \ {0}
      /\ StateInv(o)
      /\ SameBan(o, s)
      /\ Moves(s, o)
  BY EntryObserved DEF UpdateSharingStatus
<1>2. StateInv(r) /\ SameStatus(r, o) /\ r.triggers = o.triggers
  BY <1>1, SeeCountriesInv
<1>3. SameBan(r, s) /\ Moves(s, r)
  BY <1>1, <1>2 DEF SameStatus, SameBan, Moves, Falls, Standing, InBanlist, Confirmed
<1>4. sharing' = [sharing EXCEPT ![worker[w].user] = r]
  BY DEF UpdateSharingStatus
<1>5. QED
  BY <1>2, <1>3, <1>4

(* An entry that does: the user was a violator outside the list, and the    *)
(* worker goes on to publish if it could take the publication lock.         *)
JoinsBanlist(w, u, r) ==
  LET s == sharing[u]
  IN  /\ s.violatorSince # 0
      /\ s.banlistSince = 0
      /\ r.banlistSince # 0
      /\ r.permanentSince = s.permanentSince
      /\ r.permanentPend = IF StartsPublication(s) THEN TRUE ELSE s.permanentPend
      /\ r.banCount = s.banCount + 1
      /\ sharing' = [sharing EXCEPT ![u] = r]
      /\ worker' = [worker EXCEPT ![w] =
           IF StartsPublication(s)
           THEN [Idle EXCEPT !.pc = "publish", !.user = u, !.now = worker[w].now,
                             !.seed = r.ips, !.banCount = r.banCount]
           ELSE Idle]

(* The same for the branch that adds the user to the ban-list.              *)
LEMMA UpdateAndBanStep ==
  ASSUME Inv, NEW w \in Workers, NEW exceeds \in BOOLEAN,
         NEW evidence \in (SUBSET IPs) \ {{}}, NEW seen \in SUBSET Countries,
         UpdateAndBan(w, exceeds, evidence, seen),
         NEW u \in Users, u = worker[w].user
  PROVE  \E r : StateInv(r) /\ JoinsBanlist(w, u, r)
<1> DEFINE s == sharing[u]
           now == worker[w].now
           o == Observe(s, exceeds, evidence, now)
           b == AddToBanlist(o, now)
           r == SeeCountries(b, seen, now)
<1>1. /\ now \in Nat \ {0}
      /\ StateInv(s)
      /\ StateInv(o)
      /\ SameBan(o, s)
      /\ Confirmed(o) => o.banlistSince = s.banlistSince /\ o.violatorSince \in {s.violatorSince, now}
  BY EntryObserved DEF UpdateAndBan
<1>2. BanlistDue(o, now)
  BY DEF UpdateAndBan
<1>3. /\ sharing' = [sharing EXCEPT ![u] = r]
      /\ worker' = [worker EXCEPT ![w] =
                      IF StartsPublication(o)
                      THEN [Idle EXCEPT !.pc = "publish", !.user = u, !.now = now,
                                        !.seed = b.ips, !.banCount = b.banCount]
                      ELSE Idle]
  BY DEF UpdateAndBan
<1> HIDE DEF o
<1>4. /\ StateInv(b)
      /\ b.banlistSince # 0
      /\ b.permanentSince = o.permanentSince
      /\ b.permanentPend = IF StartsPublication(o) THEN TRUE ELSE o.permanentPend
      /\ b.banCount = o.banCount + 1
  BY <1>1, <1>2, AddToBanlistInv
<1>5. StateInv(r) /\ SameStatus(r, b)
  BY <1>1, <1>4, SeeCountriesInv
<1>6. StartsPublication(o) <=> StartsPublication(s)
  BY <1>1 DEF StartsPublication, SameBan
<1>7. s.banlistSince = 0 /\ s.violatorSince # 0
  <2>1. o.violatorSince # now
    <3>1. now - o.violatorSince >= BanlistThreshold
      BY <1>2 DEF BanlistDue
    <3>2. QED
      BY <1>1, <3>1, ThresholdAssumption
  <2>2. QED
    BY <1>1, <1>2, <2>1 DEF BanlistDue, StateInv
<1>8. r.ips = b.ips /\ r.banCount = b.banCount
  BY <1>5 DEF SameStatus
<1> HIDE DEF b, r
<1>9. JoinsBanlist(w, u, r)
  <2>1. /\ r.banlistSince # 0
        /\ r.permanentSince = s.permanentSince
        /\ r.permanentPend = IF StartsPublication(s) THEN TRUE ELSE s.permanentPend
        /\ r.banCount = s.banCount + 1
    BY <1>1, <1>4, <1>5, <1>6 DEF SameStatus, SameBan
  <2>2. QED
    BY <1>6, <1>7, <1>3, <1>8, <2>1 DEF JoinsBanlist
<1>10. QED
  BY <1>5, <1>9

(* An entry that leaves the ban-list alone preserves the invariant.         *)
LEMMA UpdateSharingStatusInv ==
  ASSUME Inv, NEW w \in Workers, NEW exceeds \in BOOLEAN,
         NEW evidence \in (SUBSET IPs) \ {{}}, NEW seen \in SUBSET Countries,
         UpdateSharingStatus(w, exceeds, evidence, seen)
  PROVE  Inv'
<1>0. PICK u \in Users : u = worker[w].user
  BY DEF Inv, TypeOK, Goroutine
<1>1. PICK r : /\ StateInv(r)
               /\ SameBan(r, sharing[u])
               /\ sharing' = [sharing EXCEPT ![u] = r]
  BY <1>0, UpdateSharingStatusStep
<1>2. r \in SharingState /\ worker[w].pc = "entry"
  BY <1>1 DEF StateInv, Draft, UpdateSharingStatus
<1>3. /\ worker' = [worker EXCEPT ![w] = Idle]
      /\ loader' \in {loader, [loader EXCEPT ![u] = [pc |-> "reading", count |-> 0]]}
      /\ UNCHANGED <<clock, lastBlocked, queued, replies, persisted, published,
                     bans, resent, restarts>>
  BY <1>0 DEF UpdateSharingStatus, StartLoader
<1>4. TypeOK'
  <2>1. sharing' \in [Users -> SharingState]
    BY <1>1, <1>2 DEF Inv, TypeOK
  <2>2. worker' \in [Workers -> Goroutine]
    BY <1>3, IdleType DEF Inv, TypeOK
  <2>3. loader' \in [Users -> LoaderState]
    <3>1. loader \in [Users -> LoaderState]
      BY DEF Inv, TypeOK
    <3>2. [pc |-> "reading", count |-> 0] \in LoaderState
      BY DEF LoaderState
    <3>3. QED
      BY <1>3, <3>1, <3>2
  <2>4. QED
    BY <1>3, <2>1, <2>2, <2>3 DEF Inv, TypeOK
<1>5. StatesInv'
  BY <1>1, <1>2 DEF Inv, TypeOK, StatesInv
<1>6. WorkerInv'
  BY <1>3 DEF Inv, TypeOK, WorkerInv, Idle
<1>7. OnePublisher'
  <2>1. \A x \in Users : sharing'[x].permanentPend = sharing[x].permanentPend
    BY <1>1, <1>2 DEF Inv, TypeOK, SameBan
  <2>2. \A x \in Users : PublishersOf(x)' = PublishersOf(x)
    BY <1>0, <1>2, <1>3 DEF Inv, TypeOK, Idle, PublishersOf, Publishing
  <2>3. QED
    BY <2>1, <2>2 DEF Inv, OnePublisher
<1>8. BackedInv'
  BY <1>1, <1>2, <1>3 DEF Inv, TypeOK, Idle, BackedInv, PermanentBacked, SameBan
<1>9. CounterInv'
  <2>1. \A x \in Users : sharing'[x].banCount = sharing[x].banCount
    BY <1>1 DEF Inv, TypeOK, SameBan
  <2>2. \A x \in Users : loader'[x].pc = "answered" => loader'[x] = loader[x]
    BY <1>3 DEF Inv, TypeOK
  <2>3. QED
    BY <1>3, <2>1, <2>2 DEF Inv, CounterInv, OverstatedOnlyByResends
<1>10. QED
  BY <1>4, <1>5, <1>6, <1>7, <1>8, <1>9 DEF Inv

(* Entering the ban-list preserves the invariant: the lock it takes was free. *)
LEMMA UpdateAndBanInv ==
  ASSUME Inv, NEW w \in Workers, NEW exceeds \in BOOLEAN,
         NEW evidence \in (SUBSET IPs) \ {{}}, NEW seen \in SUBSET Countries,
         UpdateAndBan(w, exceeds, evidence, seen)
  PROVE  Inv'
<1>0. PICK u \in Users : u = worker[w].user
  BY DEF Inv, TypeOK, Goroutine
<1>r. PICK r : StateInv(r) /\ JoinsBanlist(w, u, r)
  BY <1>0, UpdateAndBanStep
<1>s. PICK s : s = sharing[u]
  OBVIOUS
<1>1. /\ StateInv(r)
      /\ r.permanentSince = s.permanentSince
      /\ r.permanentPend = IF StartsPublication(s) THEN TRUE ELSE s.permanentPend
      /\ r.banCount = s.banCount + 1
      /\ sharing' = [sharing EXCEPT ![u] = r]
      /\ worker' = [worker EXCEPT ![w] =
           IF StartsPublication(s)
           THEN [Idle EXCEPT !.pc = "publish", !.user = u, !.now = worker[w].now,
                             !.seed = r.ips, !.banCount = r.banCount]
           ELSE Idle]
  BY <1>r, <1>s DEF JoinsBanlist
<1>2. /\ worker[w].now \in Nat \ {0}
      /\ r \in SharingState
      /\ worker[w].pc = "entry"
  BY <1>1 DEF Inv, TypeOK, Goroutine, WorkerInv, StateInv, Draft, UpdateAndBan
<1>3. /\ loader' \in {loader, [loader EXCEPT ![u] = [pc |-> "reading", count |-> 0]]}
      /\ queued' \in {queued, [queued EXCEPT ![u] = queued[u] + 1]}
      /\ bans' = [bans EXCEPT ![u] = bans[u] + 1]
      /\ UNCHANGED <<clock, lastBlocked, replies, persisted, published, resent, restarts>>
  BY <1>0, <1>s DEF UpdateAndBan, StartLoader
<1>4. PICK g \in Goroutine :
        /\ worker' = [worker EXCEPT ![w] = g]
        /\ IF StartsPublication(s)
           THEN /\ g.pc = "publish"
                /\ g.user = u
                /\ g.now # 0
                /\ g.applied = NoDuration
           ELSE g.pc = "idle"
  <2>1. CASE StartsPublication(s)
    <3> DEFINE g == [Idle EXCEPT !.pc = "publish", !.user = u, !.now = worker[w].now,
                                 !.seed = r.ips, !.banCount = r.banCount]
    <3>1. r.ips \in SUBSET IPs /\ r.banCount \in Nat
      BY <1>2 DEF SharingState
    <3>2. Idle.applied = NoDuration
      BY DEF Idle
    <3>3. /\ g \in Goroutine
          /\ g.pc = "publish"
          /\ g.user = u
          /\ g.now # 0
          /\ g.applied = NoDuration
      BY <1>0, <1>s, <1>2, <3>1, <3>2, IdleType DEF Goroutine, Stages
    <3>4. QED
      BY <1>1, <2>1, <3>3
  <2>2. CASE ~StartsPublication(s)
    BY <1>1, <2>2, IdleType DEF Idle
  <2>3. QED
    BY <2>1, <2>2
<1>5. StartsPublication(s) => s.permanentPend = FALSE
  BY <1>0, <1>s DEF StartsPublication, Inv, TypeOK, SharingState
<1>6. TypeOK'
  <2>1. sharing' \in [Users -> SharingState]
    BY <1>0, <1>s, <1>1, <1>2 DEF Inv, TypeOK
  <2>2. worker' \in [Workers -> Goroutine]
    BY <1>4 DEF Inv, TypeOK
  <2>3. loader' \in [Users -> LoaderState]
    <3>1. loader \in [Users -> LoaderState]
      BY DEF Inv, TypeOK
    <3>2. [pc |-> "reading", count |-> 0] \in LoaderState
      BY DEF LoaderState
    <3>3. QED
      BY <1>3, <3>1, <3>2
  <2>4. queued' \in [Users -> Nat] /\ bans' \in [Users -> Nat]
    BY <1>0, <1>s, <1>2, <1>3 DEF Inv, TypeOK
  <2>5. QED
    BY <1>3, <2>1, <2>2, <2>3, <2>4 DEF Inv, TypeOK
<1>7. StatesInv'
  BY <1>0, <1>s, <1>1, <1>2 DEF Inv, TypeOK, StatesInv
<1>8. WorkerInv'
  BY <1>4 DEF Inv, TypeOK, WorkerInv
<1>9. OnePublisher'
  <2>1. \A x \in Users \ {u} : sharing'[x].permanentPend = sharing[x].permanentPend
    BY <1>0, <1>s, <1>1, <1>2 DEF Inv, TypeOK
  <2>2. \A x \in Users \ {u} : PublishersOf(x)' = PublishersOf(x)
    BY <1>0, <1>s, <1>2, <1>4 DEF Inv, TypeOK, PublishersOf, Publishing
  <2>3. CASE StartsPublication(s)
    <3>1. PublishersOf(u) = {}
      BY <1>0, <1>s, <1>2, <1>5, <2>3 DEF Inv, OnePublisher
    <3>2. PublishersOf(u)' = {w}
      BY <1>0, <1>s, <1>2, <1>4, <2>3, <3>1 DEF Inv, TypeOK, PublishersOf, Publishing
    <3>3. sharing'[u].permanentPend = TRUE
      BY <1>0, <1>s, <1>1, <1>2, <2>3 DEF Inv, TypeOK
    <3>4. QED
      BY <2>1, <2>2, <3>2, <3>3 DEF Inv, OnePublisher
  <2>4. CASE ~StartsPublication(s)
    <3>1. PublishersOf(u)' = PublishersOf(u)
      BY <1>0, <1>s, <1>2, <1>4, <2>4 DEF Inv, TypeOK, PublishersOf, Publishing
    <3>2. sharing'[u].permanentPend = sharing[u].permanentPend
      BY <1>0, <1>s, <1>1, <1>2, <2>4 DEF Inv, TypeOK
    <3>3. QED
      BY <2>1, <2>2, <3>1, <3>2 DEF Inv, OnePublisher
  <2>5. QED
    BY <2>3, <2>4
<1>10. BackedInv'
  <2>1. \A x \in Users : sharing'[x].permanentSince = sharing[x].permanentSince
    BY <1>0, <1>s, <1>1, <1>2 DEF Inv, TypeOK
  <2>2. QED
    BY <1>3, <1>4, <2>1 DEF Inv, TypeOK, BackedInv, PermanentBacked
<1>11. CounterInv'
  <2>1. \A x \in Users : sharing'[x].banCount <= bans'[x] + resent'[x]
    BY <1>0, <1>s, <1>1, <1>2, <1>3 DEF Inv, TypeOK, SharingState, CounterInv, OverstatedOnlyByResends
  <2>2. \A x \in Users : persisted'[x] + queued'[x] <= bans'[x] + resent'[x]
    BY <1>0, <1>s, <1>2, <1>3 DEF Inv, TypeOK, CounterInv, OverstatedOnlyByResends
  <2>3. \A x \in Users : loader'[x].pc = "answered" => loader'[x] = loader[x]
    BY <1>3 DEF Inv, TypeOK
  <2>4. QED
    BY <1>3, <2>1, <2>2, <2>3 DEF Inv, CounterInv, OverstatedOnlyByResends
<1>12. QED
  BY <1>6, <1>7, <1>8, <1>9, <1>10, <1>11 DEF Inv

(* The publication: a worker moves from publish over record to settle.      *)
LEMMA PublishBanInv ==
  ASSUME Inv, NEW w \in Workers, NEW active \in SUBSET IPs, PublishBan(w, active)
  PROVE  Inv'
<1>0. PICK u \in Users, duration \in Durations :
        u = worker[w].user /\ duration = EscalatedDuration(worker[w].banCount)
  BY EscalatedDurationType DEF Inv, TypeOK, Goroutine
<1> DEFINE target == (worker[w].seed \cup active) \ ExcludedIPs
<1>1. PICK g \in Goroutine :
        /\ worker' = [worker EXCEPT ![w] = g]
        /\ g.user = u
        /\ g.now = worker[w].now
        /\ \/ /\ g.pc = "record"
              /\ g.seed = target
              /\ target # {}
              /\ g.applied = duration
              /\ published' = [published EXCEPT ![u] = published[u] \cup {duration}]
           \/ /\ g.pc = "settle"
              /\ g.applied = NoDuration
              /\ published' = published
  <2>1. CASE target # {} /\ published' = [published EXCEPT ![u] = published[u] \cup {duration}]
             /\ worker' = [worker EXCEPT ![w].pc = "record", ![w].seed = target,
                                         ![w].applied = duration]
    <3> DEFINE g == [worker[w] EXCEPT !.pc = "record", !.seed = target, !.applied = duration]
    <3>1. target \in SUBSET IPs
      BY DEF Inv, TypeOK, Goroutine
    <3>2. /\ g \in Goroutine
          /\ g.user = u
          /\ g.now = worker[w].now
          /\ g.pc = "record"
          /\ g.seed = target
          /\ g.applied = duration
      BY <1>0, <3>1 DEF Inv, TypeOK, Goroutine, Stages
    <3>3. worker' = [worker EXCEPT ![w] = g]
      BY <2>1 DEF Inv, TypeOK, Goroutine
    <3>4. QED
      BY <2>1, <3>2, <3>3
  <2>2. CASE worker' = [worker EXCEPT ![w].pc = "settle"] /\ published' = published
    <3> DEFINE g == [worker[w] EXCEPT !.pc = "settle"]
    <3>1. worker[w].applied = NoDuration
      BY DEF PublishBan, Inv, WorkerInv
    <3>2. /\ g \in Goroutine
          /\ g.user = u
          /\ g.now = worker[w].now
          /\ g.pc = "settle"
          /\ g.applied = NoDuration
      BY <1>0, <3>1 DEF Inv, TypeOK, Goroutine, Stages
    <3>3. worker' = [worker EXCEPT ![w] = g]
      BY <2>2 DEF Inv, TypeOK, Goroutine
    <3>4. QED
      BY <2>2, <3>2, <3>3
  <2>3. QED
    BY <1>0, <2>1, <2>2 DEF PublishBan
<1>2. /\ worker[w].pc = "publish"
      /\ UNCHANGED <<clock, sharing, lastBlocked, loader, queued, replies,
                     persisted, bans, resent, restarts>>
  BY DEF PublishBan
<1>3. target \cap ExcludedIPs = {}
  OBVIOUS
<1> HIDE DEF target
<1>4. \A x \in Users : published[x] \subseteq published'[x]
  BY <1>1 DEF Inv, TypeOK
<1>5. TypeOK'
  <2>1. worker' \in [Workers -> Goroutine] /\ published' \in [Users -> SUBSET Durations]
    BY <1>1 DEF Inv, TypeOK
  <2>2. QED
    BY <1>2, <2>1 DEF Inv, TypeOK
<1>6. StatesInv'
  BY <1>2 DEF Inv, StatesInv
<1>7. WorkerInv'
  BY <1>1, <1>2 DEF Inv, TypeOK, WorkerInv
<1>8. OnePublisher'
  <2>1. \A x \in Users : PublishersOf(x)' = PublishersOf(x)
    BY <1>0, <1>1, <1>2 DEF Inv, TypeOK, PublishersOf, Publishing
  <2>2. QED
    BY <1>2, <2>1 DEF Inv, OnePublisher
<1>9. BackedInv'
  <2>1. PermanentBacked'
    BY <1>2, <1>4 DEF Inv, BackedInv, PermanentBacked
  <2>2. ASSUME NEW v \in Workers, worker'[v].pc = "record"
        PROVE  /\ worker'[v].applied \in published'[worker'[v].user]
               /\ worker'[v].seed # {}
               /\ worker'[v].seed \cap ExcludedIPs = {}
    <3>1. CASE v = w
      BY <1>1, <1>3, <2>2, <3>1 DEF Inv, TypeOK
    <3>2. CASE v # w
      BY <1>1, <1>4, <2>2, <3>2 DEF Inv, TypeOK, Goroutine, BackedInv
    <3>3. QED
      BY <3>1, <3>2
  <2>3. ASSUME NEW v \in Workers, worker'[v].pc = "settle", worker'[v].applied = "permanent"
        PROVE  /\ "permanent" \in published'[worker'[v].user]
               /\ lastBlocked'[worker'[v].user] # {}
               /\ lastBlocked'[worker'[v].user] \cap ExcludedIPs = {}
    <3>1. v # w
      BY <1>1, <2>3 DEF Inv, TypeOK, NoDuration
    <3>2. QED
      BY <1>1, <1>2, <1>4, <2>3, <3>1 DEF Inv, TypeOK, Goroutine, BackedInv
  <2>4. QED
    BY <2>1, <2>2, <2>3 DEF BackedInv
<1>10. CounterInv'
  BY <1>2 DEF Inv, CounterInv, OverstatedOnlyByResends
<1>11. QED
  BY <1>5, <1>6, <1>7, <1>8, <1>9, <1>10 DEF Inv

(* Recording the published addresses: they are not excluded, none is lost.  *)
LEMMA RecordBlockedInv ==
  ASSUME Inv, NEW w \in Workers, RecordBlocked(w)
  PROVE  Inv'
<1>0. PICK u \in Users : u = worker[w].user
  BY DEF Inv, TypeOK, Goroutine
<1> DEFINE g == [worker[w] EXCEPT !.pc = "settle"]
<1>1. /\ g \in Goroutine
      /\ g.pc = "settle"
      /\ g.user = u
      /\ g.now = worker[w].now
      /\ g.applied = worker[w].applied
  BY <1>0 DEF Inv, TypeOK, Goroutine, Stages
<1>2. /\ worker[w].pc = "record"
      /\ worker' = [worker EXCEPT ![w] = g]
      /\ lastBlocked' = [lastBlocked EXCEPT ![u] = worker[w].seed]
      /\ UNCHANGED <<clock, sharing, loader, queued, replies, persisted,
                     published, bans, resent, restarts>>
  BY <1>0 DEF RecordBlocked, Inv, TypeOK, Goroutine
<1>3. /\ worker[w].seed \in SUBSET IPs
      /\ worker[w].seed # {}
      /\ worker[w].seed \cap ExcludedIPs = {}
      /\ worker[w].applied \in published[u]
  BY <1>0, <1>2 DEF Inv, TypeOK, Goroutine, BackedInv
<1> HIDE DEF g
<1>4. TypeOK'
  <2>1. worker' \in [Workers -> Goroutine] /\ lastBlocked' \in [Users -> SUBSET IPs]
    BY <1>1, <1>2, <1>3 DEF Inv, TypeOK
  <2>2. QED
    BY <1>2, <2>1 DEF Inv, TypeOK
<1>5. StatesInv'
  BY <1>2 DEF Inv, StatesInv
<1>6. WorkerInv'
  BY <1>1, <1>2 DEF Inv, TypeOK, WorkerInv
<1>7. OnePublisher'
  <2>1. \A x \in Users : PublishersOf(x)' = PublishersOf(x)
    BY <1>0, <1>1, <1>2 DEF Inv, TypeOK, PublishersOf, Publishing
  <2>2. QED
    BY <1>2, <2>1 DEF Inv, OnePublisher
<1>8. BackedInv'
  BY <1>1, <1>2, <1>3 DEF Inv, TypeOK, Goroutine, BackedInv, PermanentBacked
<1>9. CounterInv'
  BY <1>2 DEF Inv, CounterInv, OverstatedOnlyByResends
<1>10. QED
  BY <1>4, <1>5, <1>6, <1>7, <1>8, <1>9 DEF Inv

(* The second critical section gives the publication lock back.             *)
LEMMA SettleBanStep ==
  ASSUME Inv, NEW w \in Workers, SettleBan(w)
  PROVE  \E r : LET s == sharing[worker[w].user]
                IN  /\ StateInv(r)
                    /\ r.permanentPend = FALSE
                    /\ r.permanentSince = s.permanentSince \/ r.permanentSince # 0
                    /\ r.permanentSince # s.permanentSince => worker[w].applied = "permanent"
                    /\ r.violatorSince = s.violatorSince
                    /\ r.banlistSince = s.banlistSince
                    /\ r.triggers = s.triggers
                    /\ r.banCount = s.banCount
                    /\ sharing' = [sharing EXCEPT ![worker[w].user] = r]
<1> DEFINE s == sharing[worker[w].user]
           since == IF worker[w].applied = "permanent" /\ s.permanentSince = 0
                    THEN worker[w].now ELSE s.permanentSince
           r == [s EXCEPT !.permanentPend = FALSE, !.permanentSince = since]
<1>1. /\ StateInv(s)
      /\ worker[w].now \in Nat \ {0}
  BY DEF SettleBan, Inv, TypeOK, Goroutine, StatesInv, WorkerInv
<1>2. /\ since \in Nat
      /\ since = s.permanentSince \/ since # 0
      /\ since # s.permanentSince => worker[w].applied = "permanent"
      /\ since = 0 => s.permanentSince = 0
  BY <1>1 DEF StateInv, Draft, SharingState
<1>3. sharing' = [sharing EXCEPT ![worker[w].user] = r]
  BY DEF SettleBan
<1> HIDE DEF s, since
<1>4. /\ r \in SharingState
      /\ r.permanentPend = FALSE
      /\ r.permanentSince = since
      /\ r.violatorSince = s.violatorSince
      /\ r.banlistSince = s.banlistSince
      /\ r.triggers = s.triggers
      /\ r.lastTriggerAt = s.lastTriggerAt
      /\ r.ips = s.ips
      /\ r.banCount = s.banCount
  BY <1>1, <1>2 DEF StateInv, Draft, SharingState
<1>5. StateInv(r)
  BY <1>1, <1>2, <1>4 DEF StateInv, Draft, TriggersOK, BanlistOK, EvidenceOK, Confirmed
<1> HIDE DEF r
<1>6. QED
  BY <1>2, <1>3, <1>4, <1>5 DEF s

(* The second critical section preserves the invariant.                     *)
LEMMA SettleBanInv ==
  ASSUME Inv, NEW w \in Workers, SettleBan(w)
  PROVE  Inv'
<1>0. PICK u \in Users : u = worker[w].user
  BY DEF Inv, TypeOK, Goroutine
<1>s. PICK s : s = sharing[u]
  OBVIOUS
<1>1. PICK r : /\ StateInv(r)
               /\ r.permanentPend = FALSE
               /\ r.permanentSince # s.permanentSince => worker[w].applied = "permanent"
               /\ r.banCount = s.banCount
               /\ sharing' = [sharing EXCEPT ![u] = r]
  BY <1>0, <1>s, SettleBanStep
<1>2. /\ worker[w].pc = "settle"
      /\ worker' = [worker EXCEPT ![w] = Idle]
      /\ UNCHANGED <<clock, lastBlocked, loader, queued, replies, persisted,
                     published, bans, resent, restarts>>
  BY DEF SettleBan
<1>3. TypeOK'
  <2>1. sharing' \in [Users -> SharingState]
    BY <1>0, <1>s, <1>1 DEF Inv, TypeOK, StateInv, Draft
  <2>2. worker' \in [Workers -> Goroutine]
    BY <1>2, IdleType DEF Inv, TypeOK
  <2>3. QED
    BY <1>2, <2>1, <2>2 DEF Inv, TypeOK
<1>4. StatesInv'
  BY <1>0, <1>s, <1>1 DEF Inv, TypeOK, StatesInv
<1>5. WorkerInv'
  BY <1>2 DEF Inv, TypeOK, WorkerInv, Idle
<1>6. OnePublisher'
  <2>1. \A x \in Users \ {u} : /\ PublishersOf(x)' = PublishersOf(x)
                               /\ sharing'[x] = sharing[x]
    BY <1>0, <1>s, <1>1, <1>2 DEF Inv, TypeOK, Idle, PublishersOf, Publishing
  <2>2. PublishersOf(u)' = {} /\ sharing'[u].permanentPend = FALSE
    <3>1. \A v \in PublishersOf(u) : v = w
      BY <1>0, <1>s, <1>2 DEF Inv, OnePublisher, PublishersOf, Publishing
    <3>2. QED
      BY <1>0, <1>s, <1>1, <1>2, <3>1 DEF Inv, TypeOK, Idle, PublishersOf, Publishing
  <2>3. QED
    BY <2>1, <2>2 DEF Inv, OnePublisher
<1>7. BackedInv'
  BY <1>0, <1>s, <1>1, <1>2 DEF Inv, TypeOK, Idle, BackedInv, PermanentBacked
<1>8. CounterInv'
  <2>1. \A x \in Users : sharing'[x].banCount = sharing[x].banCount
    BY <1>0, <1>s, <1>1 DEF Inv, TypeOK
  <2>2. QED
    BY <1>2, <2>1 DEF Inv, CounterInv, OverstatedOnlyByResends
<1>9. QED
  BY <1>3, <1>4, <1>5, <1>6, <1>7, <1>8 DEF Inv

(* RecordBlockedIPs outside a publication only replaces one set of blocked  *)
(* addresses by another.                                                    *)
LEMMA RecordBlockedIPsInv ==
  ASSUME Inv, NEW u \in Users, NEW blocked \in SUBSET (IPs \ ExcludedIPs),
         RecordBlockedIPs(u, blocked)
  PROVE  Inv'
<1>1. /\ blocked # {}
      /\ blocked \in SUBSET IPs
      /\ blocked \cap ExcludedIPs = {}
      /\ lastBlocked' = [lastBlocked EXCEPT ![u] = blocked]
      /\ UNCHANGED <<clock, sharing, worker, loader, queued, replies, persisted,
                     published, bans, resent, restarts>>
  BY DEF RecordBlockedIPs
<1>2. TypeOK'
  BY <1>1 DEF Inv, TypeOK
<1>3. BackedInv'
  BY <1>1 DEF Inv, TypeOK, Goroutine, BackedInv, PermanentBacked
<1>4. QED
  BY <1>1, <1>2, <1>3 DEF Inv, StatesInv, WorkerInv, OnePublisher, PublishersOf,
                          CounterInv, OverstatedOnlyByResends

(* A step that changes records without touching their bans, and perhaps     *)
(* frees a worker that does not publish.                                    *)
LEMMA StatusStepInv ==
  ASSUME Inv, sharing' \in [Users -> SharingState],
         \A x \in Users : StateInv(sharing'[x]) /\ SameBan(sharing'[x], sharing[x]),
         \/ worker' = worker
         \/ \E w \in Workers : /\ worker[w].pc \notin Publishing
                               /\ worker' = [worker EXCEPT ![w] = Idle],
         UNCHANGED <<clock, lastBlocked, loader, queued, replies, persisted,
                     published, bans, resent, restarts>>
  PROVE  Inv'
<1>1. TypeOK'
  BY IdleType DEF Inv, TypeOK
<1>2. StatesInv'
  BY DEF StatesInv
<1>3. WorkerInv'
  BY DEF Inv, TypeOK, WorkerInv, Idle
<1>4. OnePublisher'
  <2>1. \A x \in Users : PublishersOf(x)' = PublishersOf(x)
    BY DEF Inv, TypeOK, Idle, PublishersOf, Publishing
  <2>2. \A x \in Users : sharing'[x].permanentPend = sharing[x].permanentPend
    BY DEF SameBan
  <2>3. QED
    BY <2>1, <2>2 DEF Inv, OnePublisher
<1>5. BackedInv'
  <2>1. \A x \in Users : sharing'[x].permanentSince = sharing[x].permanentSince
    BY DEF SameBan
  <2>2. PermanentBacked'
    BY <2>1 DEF Inv, BackedInv, PermanentBacked
  <2>3. \A w \in Workers : worker'[w] = worker[w] \/ worker'[w].pc = "idle"
    BY DEF Inv, TypeOK, Idle
  <2>4. QED
    BY <2>2, <2>3 DEF Inv, BackedInv
<1>6. CounterInv'
  <2>1. \A x \in Users : sharing'[x].banCount = sharing[x].banCount
    BY DEF SameBan
  <2>2. QED
    BY <2>1 DEF Inv, CounterInv, OverstatedOnlyByResends
<1>7. QED
  BY <1>1, <1>2, <1>3, <1>4, <1>5, <1>6 DEF Inv

(* A status read, of one user or of those that fit the row limit.           *)
StatusRead(w) ==
  \/ GetSharingStatus(w)
  \/ \E rows \in Listed : ListSharingStatuses(w, rows)

(* The records after a status read or a reset, user by user.                *)
LEMMA ReadStep ==
  ASSUME Inv, NEW w \in Workers, StatusRead(w)
  PROVE  /\ sharing' \in [Users -> SharingState]
         /\ \A x \in Users : /\ StateInv(sharing'[x])
                             /\ SameBan(sharing'[x], sharing[x])
                             /\ Falls(sharing[x], sharing'[x])
<1>1. worker[w].user \in Users /\ worker[w].now \in Nat
  BY DEF Inv, TypeOK, Goroutine
<1>2. \A x \in Users : LET r == Expire(sharing[x], worker[w].now)
                       IN  /\ r \in SharingState
                           /\ StateInv(r)
                           /\ SameBan(r, sharing[x])
                           /\ Falls(sharing[x], r)
  BY <1>1, ExpireInv DEF Inv, StatesInv, StateInv, Draft
<1>3. \A x \in Users : SameBan(sharing[x], sharing[x]) /\ Falls(sharing[x], sharing[x])
  BY DEF SameBan, Falls
<1>4. CASE GetSharingStatus(w)
  <2>1. sharing' = [sharing EXCEPT ![worker[w].user] =
                      Expire(sharing[worker[w].user], worker[w].now)]
    BY <1>4 DEF GetSharingStatus
  <2>2. QED
    BY <1>1, <1>2, <1>3, <2>1 DEF Inv, TypeOK, StatesInv
<1>5. CASE \E rows \in Listed : ListSharingStatuses(w, rows)
  <2>1. PICK rows \in Listed : ListSharingStatuses(w, rows)
    BY <1>5
  <2>2. sharing' = [x \in Users |-> IF x \in rows THEN Expire(sharing[x], worker[w].now)
                                    ELSE sharing[x]]
    BY <2>1 DEF ListSharingStatuses
  <2>3. QED
    BY <1>2, <1>3, <2>2 DEF Inv, TypeOK, StatesInv
<1>6. QED
  BY <1>4, <1>5 DEF StatusRead

(* A reset writes the record of one user.                                   *)
LEMMA ResetStep ==
  ASSUME Inv, NEW u \in Users, ResetSharingState(u)
  PROVE  /\ sharing' \in [Users -> SharingState]
         /\ \A x \in Users : /\ StateInv(sharing'[x])
                             /\ SameBan(sharing'[x], sharing[x])
                             /\ Falls(sharing[x], sharing'[x])
<1> DEFINE r == Cleared(sharing[u])
<1>1. StateInv(r) /\ SameBan(r, sharing[u]) /\ Falls(sharing[u], r)
  BY ClearedInv DEF Inv, StatesInv
<1>2. \A x \in Users : SameBan(sharing[x], sharing[x]) /\ Falls(sharing[x], sharing[x])
  BY DEF SameBan, Falls
<1>3. sharing' = [sharing EXCEPT ![u] = r]
  BY DEF ResetSharingState
<1> HIDE DEF r
<1>4. QED
  BY <1>1, <1>2, <1>3 DEF Inv, TypeOK, StatesInv, StateInv, Draft

(* A status read, of one user or of all.                                    *)
LEMMA ReadInv ==
  ASSUME Inv, NEW w \in Workers, StatusRead(w)
  PROVE  Inv'
<1>1. /\ worker[w].pc \notin Publishing
      /\ worker' = [worker EXCEPT ![w] = Idle]
      /\ UNCHANGED <<clock, lastBlocked, loader, queued, replies, persisted,
                     published, bans, resent, restarts>>
  BY DEF StatusRead, GetSharingStatus, ListSharingStatuses, Publishing
<1>2. QED
  BY <1>1, ReadStep, StatusStepInv

(* A reset by the administrator.                                            *)
LEMMA ResetInv ==
  ASSUME Inv, NEW u \in Users, ResetSharingState(u)
  PROVE  Inv'
<1>1. UNCHANGED <<clock, worker, lastBlocked, loader, queued, replies, persisted,
                  published, bans, resent, restarts>>
  BY DEF ResetSharingState
<1>2. QED
  BY <1>1, ResetStep, StatusStepInv

--------------------------------------------------------------------------
(* The ban counter *)

(* Overwriting the counter leaves the rest of a record alone. *)
SameJudgement(r, s) ==
  /\ r.triggers = s.triggers
  /\ r.lastTriggerAt = s.lastTriggerAt
  /\ r.violatorSince = s.violatorSince
  /\ r.banlistSince = s.banlistSince
  /\ r.permanentSince = s.permanentSince
  /\ r.permanentPend = s.permanentPend
  /\ r.ips = s.ips

(* A record that differs in banCount only is judged the same.               *)
LEMMA CountInv ==
  ASSUME NEW s, StateInv(s), NEW r \in SharingState, SameJudgement(r, s)
  PROVE  /\ StateInv(r)
         /\ Standing(r) = Standing(s)
         /\ InBanlist(r) <=> InBanlist(s)
BY DEF StateInv, Draft, TriggersOK, BanlistOK, EvidenceOK, Confirmed, Standing,
       InBanlist, SameJudgement

(* What every step of the counter leaves alone. *)
CounterFrame ==
  /\ \A x \in Users : /\ StateInv(sharing'[x])
                      /\ sharing'[x].permanentSince = sharing[x].permanentSince
                      /\ sharing'[x].permanentPend = sharing[x].permanentPend
                      /\ Standing(sharing'[x]) = Standing(sharing[x])
                      /\ InBanlist(sharing'[x]) <=> InBanlist(sharing[x])
  /\ sharing' \in [Users -> SharingState]
  /\ UNCHANGED <<clock, worker, lastBlocked, published, bans, restarts>>

(* A step that leaves the workers and the records but for banCount alone.   *)
LEMMA CounterFrameInv ==
  ASSUME Inv, CounterFrame, CounterInv',
         loader' \in [Users -> LoaderState], queued' \in [Users -> Nat],
         replies' \in [Users -> SUBSET Nat], persisted' \in [Users -> Nat],
         resent' \in [Users -> Nat]
  PROVE  Inv'
<1>1. TypeOK'
  BY DEF Inv, TypeOK, CounterFrame
<1>2. StatesInv' /\ WorkerInv'
  BY DEF Inv, StatesInv, WorkerInv, CounterFrame
<1>3. OnePublisher'
  BY DEF Inv, OnePublisher, PublishersOf, CounterFrame
<1>4. BackedInv'
  BY DEF Inv, TypeOK, Goroutine, BackedInv, PermanentBacked, CounterFrame
<1>5. QED
  BY <1>1, <1>2, <1>3, <1>4 DEF Inv

(* The loader reads a count no larger than bans and resends together.       *)
LEMMA ReadBanCountInv ==
  ASSUME Inv, NEW u \in Users, ReadBanCount(u)
  PROVE  CounterFrame /\ Inv'
<1>1. /\ UNCHANGED <<clock, sharing, worker, lastBlocked, queued, replies,
                     persisted, published, bans, resent, restarts>>
      /\ \/ loader' = [loader EXCEPT ![u] = [pc |-> "answered", count |-> persisted[u]]]
         \/ loader' = [loader EXCEPT ![u] = NoLoader]
  BY DEF ReadBanCount
<1>2. CounterFrame
  BY <1>1 DEF Inv, TypeOK, StatesInv, CounterFrame
<1>3. loader' \in [Users -> LoaderState]
  BY <1>1 DEF Inv, TypeOK, LoaderState, NoLoader
<1>4. CounterInv'
  BY <1>1 DEF Inv, TypeOK, CounterInv, OverstatedOnlyByResends, NoLoader
<1>5. QED
  BY <1>1, <1>2, <1>3, <1>4, CounterFrameInv DEF Inv, TypeOK

(* The loader stores the count it read.                                     *)
LEMMA StoreBanCountInv ==
  ASSUME Inv, NEW u \in Users, StoreBanCount(u)
  PROVE  CounterFrame /\ Inv'
<1> DEFINE n == loader[u].count
           r == [sharing[u] EXCEPT !.banCount = n, !.banCountLoaded = TRUE]
<1>1. /\ loader[u].pc = "answered"
      /\ loader' = [loader EXCEPT ![u] = NoLoader]
      /\ UNCHANGED <<clock, worker, lastBlocked, queued, replies, persisted,
                     published, bans, resent, restarts>>
  BY DEF StoreBanCount
<1>2. /\ n \in Nat
      /\ n <= persisted[u]
      /\ persisted[u] \in Nat /\ queued[u] \in Nat /\ bans[u] \in Nat /\ resent[u] \in Nat
      /\ persisted[u] + queued[u] <= bans[u] + resent[u]
  BY <1>1 DEF Inv, TypeOK, LoaderState, CounterInv, OverstatedOnlyByResends
<1>3. /\ StateInv(r)
      /\ SameJudgement(r, sharing[u])
      /\ r.banCount = n
      /\ Standing(r) = Standing(sharing[u])
      /\ InBanlist(r) <=> InBanlist(sharing[u])
  <2>1. StateInv(sharing[u]) /\ sharing[u] \in SharingState
    BY DEF Inv, StatesInv, StateInv, Draft
  <2>2. r \in SharingState /\ SameJudgement(r, sharing[u]) /\ r.banCount = n
    BY <1>2, <2>1 DEF SharingState, SameJudgement
  <2> HIDE DEF r
  <2>3. QED
    BY <2>1, <2>2, CountInv
<1>4. sharing' = sharing \/ sharing' = [sharing EXCEPT ![u] = r]
  BY DEF StoreBanCount, Inv, TypeOK
<1> HIDE DEF n, r
<1>5. CounterFrame
  BY <1>1, <1>3, <1>4 DEF Inv, TypeOK, StatesInv, StateInv, Draft, CounterFrame, SameJudgement
<1>6. loader' \in [Users -> LoaderState]
  BY <1>1 DEF Inv, TypeOK, LoaderState, NoLoader
<1>7. CounterInv'
  <2>1. \A x \in Users : sharing'[x].banCount <= bans[x] + resent[x]
    BY <1>2, <1>3, <1>4 DEF Inv, TypeOK, CounterInv, OverstatedOnlyByResends
  <2>2. \A x \in Users : loader'[x].pc = "answered" => loader'[x] = loader[x]
    BY <1>1 DEF Inv, TypeOK, NoLoader
  <2>3. QED
    BY <1>1, <2>1, <2>2 DEF Inv, CounterInv, OverstatedOnlyByResends
<1>8. QED
  BY <1>1, <1>5, <1>6, <1>7, CounterFrameInv DEF Inv, TypeOK

(* An INCR that is sent again counts twice in Redis and once as a resend.   *)
LEMMA ResendIncrInv ==
  ASSUME Inv, NEW u \in Users, ResendIncr(u)
  PROVE  CounterFrame /\ Inv'
<1>1. /\ persisted' = [persisted EXCEPT ![u] = persisted[u] + 1]
      /\ resent' = [resent EXCEPT ![u] = resent[u] + 1]
      /\ UNCHANGED <<clock, sharing, worker, lastBlocked, loader, queued, replies,
                     published, bans, restarts>>
  BY DEF ResendIncr
<1>2. CounterFrame
  BY <1>1 DEF Inv, TypeOK, StatesInv, CounterFrame
<1>3. persisted' \in [Users -> Nat] /\ resent' \in [Users -> Nat]
  BY <1>1 DEF Inv, TypeOK
<1>4. \A x \in Users :
        /\ persisted[x] \in Nat /\ queued[x] \in Nat /\ bans[x] \in Nat /\ resent[x] \in Nat
        /\ \/ persisted'[x] = persisted[x] /\ resent'[x] = resent[x]
           \/ persisted'[x] = persisted[x] + 1 /\ resent'[x] = resent[x] + 1
  BY <1>1 DEF Inv, TypeOK
<1>5. CounterInv'
  <2>1. \A x \in Users : /\ sharing[x].banCount \in Nat
                         /\ sharing[x].banCount <= bans[x] + resent[x]
                         /\ persisted[x] + queued[x] <= bans[x] + resent[x]
    BY DEF Inv, TypeOK, SharingState, CounterInv, OverstatedOnlyByResends
  <2>2. \A x \in Users : /\ sharing[x].banCount <= bans[x] + resent'[x]
                         /\ persisted'[x] + queued[x] <= bans[x] + resent'[x]
    BY <1>4, <2>1
  <2>3. \A x \in Users : loader[x].pc = "answered" => loader[x].count <= persisted'[x]
    BY <1>4 DEF Inv, TypeOK, LoaderState, CounterInv
  <2>4. \A x \in Users : \A n \in replies[x] : n <= persisted'[x]
    BY <1>4 DEF Inv, TypeOK, CounterInv
  <2>5. QED
    BY <1>1, <2>2, <2>3, <2>4 DEF CounterInv, OverstatedOnlyByResends
<1>6. QED
  BY <1>1, <1>2, <1>3, <1>5, CounterFrameInv DEF Inv, TypeOK

(* INCR moves one ban from the queue to the persistent counter.             *)
LEMMA IncrBanCountInv ==
  ASSUME Inv, NEW u \in Users, IncrBanCount(u)
  PROVE  CounterFrame /\ Inv'
<1>1. /\ queued[u] > 0
      /\ queued' = [queued EXCEPT ![u] = queued[u] - 1]
      /\ \/ /\ persisted' = [persisted EXCEPT ![u] = persisted[u] + 1]
            /\ replies' \in {replies, [replies EXCEPT ![u] = replies[u] \cup {persisted[u] + 1}]}
         \/ persisted' = persisted /\ replies' = replies
      /\ UNCHANGED <<clock, sharing, worker, lastBlocked, loader, published,
                     bans, resent, restarts>>
  BY DEF IncrBanCount
<1>2. CounterFrame
  BY <1>1 DEF Inv, TypeOK, StatesInv, CounterFrame
<1>3. /\ queued' \in [Users -> Nat]
      /\ persisted' \in [Users -> Nat]
      /\ replies' \in [Users -> SUBSET Nat]
  BY <1>1 DEF Inv, TypeOK
<1>4. \A x \in Users : /\ persisted[x] \in Nat /\ queued[x] \in Nat /\ bans[x] \in Nat /\ resent[x] \in Nat
                       /\ replies[x] \subseteq Nat
                       /\ persisted[x] <= persisted'[x]
                       /\ persisted'[x] + queued'[x] <= persisted[x] + queued[x]
  BY <1>1 DEF Inv, TypeOK
<1>5. CounterInv'
  <2>1. OverstatedOnlyByResends'
    BY <1>1, <1>3, <1>4 DEF Inv, TypeOK, CounterInv, OverstatedOnlyByResends
  <2>2. \A x \in Users : loader[x].pc = "answered" => loader[x].count <= persisted'[x]
    BY <1>3, <1>4 DEF Inv, TypeOK, LoaderState, CounterInv
  <2>3. \A x \in Users : \A n \in replies'[x] : n <= persisted'[x]
    BY <1>1, <1>3, <1>4 DEF Inv, TypeOK, CounterInv
  <2>4. QED
    BY <1>1, <2>1, <2>2, <2>3 DEF CounterInv
<1>6. QED
  BY <1>1, <1>2, <1>3, <1>5, CounterFrameInv DEF Inv, TypeOK

(* An INCR answer, however late, is no larger than bans and resends.        *)
LEMMA StoreReplyInv ==
  ASSUME Inv, NEW u \in Users, NEW n \in replies[u], StoreReply(u, n)
  PROVE  CounterFrame /\ Inv'
<1> DEFINE r == [sharing[u] EXCEPT !.banCount = n]
<1>1. /\ replies' = [replies EXCEPT ![u] = replies[u] \ {n}]
      /\ UNCHANGED <<clock, worker, lastBlocked, loader, queued, persisted,
                     published, bans, resent, restarts>>
  BY DEF StoreReply
<1>2. /\ n \in Nat
      /\ n <= persisted[u]
      /\ persisted[u] \in Nat /\ queued[u] \in Nat /\ bans[u] \in Nat /\ resent[u] \in Nat
      /\ persisted[u] + queued[u] <= bans[u] + resent[u]
  BY DEF Inv, TypeOK, CounterInv, OverstatedOnlyByResends
<1>3. /\ StateInv(r)
      /\ SameJudgement(r, sharing[u])
      /\ r.banCount = n
      /\ Standing(r) = Standing(sharing[u])
      /\ InBanlist(r) <=> InBanlist(sharing[u])
  <2>1. StateInv(sharing[u]) /\ sharing[u] \in SharingState
    BY DEF Inv, StatesInv, StateInv, Draft
  <2>2. r \in SharingState /\ SameJudgement(r, sharing[u]) /\ r.banCount = n
    BY <1>2, <2>1 DEF SharingState, SameJudgement
  <2> HIDE DEF r
  <2>3. QED
    BY <2>1, <2>2, CountInv
<1>4. sharing' = sharing \/ sharing' = [sharing EXCEPT ![u] = r]
  BY DEF StoreReply, Inv, TypeOK
<1> HIDE DEF r
<1>5. CounterFrame
  BY <1>1, <1>3, <1>4 DEF Inv, TypeOK, StatesInv, StateInv, Draft, CounterFrame, SameJudgement
<1>6. replies' \in [Users -> SUBSET Nat]
  BY <1>1 DEF Inv, TypeOK
<1>7. CounterInv'
  <2>1. \A x \in Users : sharing'[x].banCount <= bans[x] + resent[x]
    BY <1>2, <1>3, <1>4 DEF Inv, TypeOK, CounterInv, OverstatedOnlyByResends
  <2>2. \A x \in Users : replies'[x] \subseteq replies[x]
    BY <1>1 DEF Inv, TypeOK
  <2>3. QED
    BY <1>1, <2>1, <2>2 DEF Inv, CounterInv, OverstatedOnlyByResends
<1>8. QED
  BY <1>1, <1>5, <1>6, <1>7, CounterFrameInv DEF Inv, TypeOK

(* Every step of the ban counter.                                           *)
LEMMA CounterStepInv ==
  ASSUME Inv, NEW u \in Users, CounterStep(u)
  PROVE  CounterFrame /\ Inv'
BY ReadBanCountInv, StoreBanCountInv, ResendIncrInv, IncrBanCountInv, StoreReplyInv
   DEF CounterStep

--------------------------------------------------------------------------
(* The process and the clock *)

(* A restart forgets the records and keeps the counters of Redis.           *)
LEMMA RestartInv ==
  ASSUME Inv, Restart
  PROVE  Inv'
<1>1. /\ sharing' = [u \in Users |-> NoState]
      /\ worker' = AllIdle
      /\ lastBlocked' = [u \in Users |-> {}]
      /\ loader' = [u \in Users |-> NoLoader]
      /\ queued' = [u \in Users |-> 0]
      /\ replies' = [u \in Users |-> {}]
      /\ restarts' = restarts + 1
      /\ UNCHANGED <<clock, persisted, published, bans, resent>>
  BY DEF Restart
<1>2. TypeOK'
  <2>1. NoState \in SharingState
    BY NoStateInv DEF StateInv, Draft
  <2>2. QED
    BY <1>1, <2>1, IdleType DEF Inv, TypeOK, AllIdle, NoLoader, LoaderState
<1>3. StatesInv'
  BY <1>1, NoStateInv DEF StatesInv
<1>4. WorkerInv'
  BY <1>1 DEF WorkerInv, AllIdle, Idle
<1>5. OnePublisher'
  BY <1>1 DEF OnePublisher, PublishersOf, Publishing, AllIdle, Idle, NoState
<1>6. BackedInv'
  BY <1>1 DEF BackedInv, PermanentBacked, AllIdle, Idle, NoState
<1>7. CounterInv'
  BY <1>1 DEF Inv, TypeOK, CounterInv, OverstatedOnlyByResends, NoState, NoLoader
<1>8. QED
  BY <1>2, <1>3, <1>4, <1>5, <1>6, <1>7 DEF Inv

(* Time passes.                                                             *)
LEMMA TickInv ==
  ASSUME Inv, Tick
  PROVE  Inv'
<1>1. /\ clock' = clock + 1
      /\ UNCHANGED <<sharing, worker, lastBlocked, loader, queued, replies,
                     persisted, published, bans, resent, restarts>>
  BY DEF Tick
<1>2. QED
  BY <1>1 DEF Inv, TypeOK, StatesInv, WorkerInv, OnePublisher, PublishersOf,
              BackedInv, PermanentBacked, CounterInv, OverstatedOnlyByResends

(* Nothing happens.                                                         *)
LEMMA StutterInv ==
  ASSUME Inv, UNCHANGED vars
  PROVE  Inv'
BY DEF vars, Inv, TypeOK, StatesInv, WorkerInv, OnePublisher, PublishersOf,
       BackedInv, PermanentBacked, CounterInv, OverstatedOnlyByResends

--------------------------------------------------------------------------
(* The theorems *)

(* The induction step: one case per action.                                 *)
LEMMA NextInv == Inv /\ [Next]_vars => Inv'
<1> SUFFICES ASSUME Inv, [Next]_vars PROVE Inv'
  OBVIOUS
<1>1. CASE UNCHANGED vars
  BY <1>1, StutterInv
<1>2. ASSUME NEW w \in Workers, WorkerStep(w) PROVE Inv'
  <2>1. ASSUME NEW u \in Users, BeginEntry(w, u) \/ BeginStatus(w, u) PROVE Inv'
    BY <2>1, BeginInv
  <2>2. CASE SkipEntry(w)
    BY <2>2, SkipEntryInv
  <2>3. ASSUME NEW exceeds \in BOOLEAN, NEW evidence \in (SUBSET IPs) \ {{}},
               NEW seen \in {{}} \cup {{c} : c \in Countries},
               UpdateSharingStatus(w, exceeds, evidence, seen) \/ UpdateAndBan(w, exceeds, evidence, seen)
        PROVE  Inv'
    <3>1. seen \in SUBSET Countries
      OBVIOUS
    <3>2. QED
      BY <2>3, <3>1, UpdateSharingStatusInv, UpdateAndBanInv
  <2>4. ASSUME NEW active \in SUBSET IPs, PublishBan(w, active) PROVE Inv'
    BY <2>4, PublishBanInv
  <2>5. CASE RecordBlocked(w)
    BY <2>5, RecordBlockedInv
  <2>6. CASE SettleBan(w)
    BY <2>6, SettleBanInv
  <2>7. CASE StatusRead(w)
    BY <2>7, ReadInv
  <2>8. QED
    BY <1>2, <2>1, <2>2, <2>3, <2>4, <2>5, <2>6, <2>7 DEF WorkerStep, ProcessEntry, FinishBan, StatusRead
<1>3. ASSUME NEW u \in Users, ResetSharingState(u) PROVE Inv'
  BY <1>3, ResetInv
<1>4. ASSUME NEW u \in Users, CounterStep(u) PROVE Inv'
  BY <1>4, CounterStepInv
<1>5. ASSUME NEW u \in Users, NEW blocked \in SUBSET (IPs \ ExcludedIPs), RecordBlockedIPs(u, blocked)
      PROVE  Inv'
  BY <1>5, RecordBlockedIPsInv
<1>6. CASE Restart
  BY <1>6, RestartInv
<1>7. CASE Tick
  BY <1>7, TickInv
<1>8. QED
  BY <1>1, <1>2, <1>3, <1>4, <1>5, <1>6, <1>7 DEF Next

(* Inv holds in every reachable state.                                      *)
THEOREM Invariance == Spec => []Inv
BY InitInv, NextInv, PTL DEF Spec

(* Every variable keeps its type, the counters and clocks included.         *)
THEOREM TypeCorrect == Spec => []TypeOK
<1>1. Inv => TypeOK
  BY DEF Inv
<1>2. QED
  BY <1>1, Invariance, PTL

(* The triggers of a user are spaced and recent, whatever order the workers *)
(* apply their entries in.                                                  *)
THEOREM TriggersDisciplined == Spec => []TriggerDiscipline
<1>1. Inv => TriggerDiscipline
  BY DEF Inv, StatesInv, StateInv, Draft, TriggersOK, TriggerDiscipline
<1>2. QED
  BY <1>1, Invariance, PTL

(* Outside the critical sections the violator status agrees with the        *)
(* triggers.                                                                *)
THEOREM ViolatorsConfirmed == Spec => []ViolatorIffConfirmed
<1>1. Inv => ViolatorIffConfirmed
  BY DEF Inv, StatesInv, StateInv, Draft, EvidenceOK, ViolatorIffConfirmed
<1>2. QED
  BY <1>1, Invariance, PTL

(* The ban-list holds only users that were violators for the threshold.     *)
THEOREM BanlistsJustified == Spec => []BanlistJustified
<1>1. Inv => BanlistJustified
  BY DEF Inv, StatesInv, StateInv, Draft, BanlistOK, BanlistJustified
<1>2. QED
  BY <1>1, Invariance, PTL

(* Never do two workers publish a ban of the same user, and PermanentPend   *)
(* is set exactly while one does.                                           *)
THEOREM PublicationExclusive == Spec => []OnePublisher
<1>1. Inv => OnePublisher
  BY DEF Inv
<1>2. QED
  BY <1>1, Invariance, PTL

(* No user is marked permanently banned without a ban on the exchange.      *)
THEOREM PermanentBansBacked == Spec => []PermanentBacked
<1>1. Inv => PermanentBacked
  BY DEF Inv, BackedInv
<1>2. QED
  BY <1>1, Invariance, PTL

(* The ban counter runs ahead of the bans by the resent INCRs at most,      *)
(* under every fault.                                                       *)
THEOREM EscalationSound == Spec => []OverstatedOnlyByResends
<1>1. Inv => OverstatedOnlyByResends
  BY DEF Inv, CounterInv
<1>2. QED
  BY <1>1, Invariance, PTL

--------------------------------------------------------------------------
(* Leaving the ban-list, and the refinement *)

OnlyRecordOf(u) == \A x \in Users \ {u} : sharing'[x] = sharing[x]

(* The four effects of a step on the standing of the users, short of a      *)
(* restart: some fall back, one is judged, one is banned, a ban is settled. *)
Quiet ==
  \A x \in Users : /\ sharing'[x].permanentPend = sharing[x].permanentPend
                   /\ Falls(sharing[x], sharing'[x])

Judged(u) ==
  /\ OnlyRecordOf(u)
  /\ sharing'[u].permanentPend = sharing[u].permanentPend
  /\ Moves(sharing[u], sharing'[u])

Banned(u) ==
  /\ OnlyRecordOf(u)
  /\ sharing[u].violatorSince # 0
  /\ sharing[u].banlistSince = 0
  /\ sharing'[u].banlistSince # 0
  /\ sharing'[u].permanentSince = sharing[u].permanentSince
  /\ sharing'[u].permanentPend = IF StartsPublication(sharing[u]) THEN TRUE
                                 ELSE sharing[u].permanentPend

Settled(u) ==
  /\ OnlyRecordOf(u)
  /\ sharing[u].permanentPend = TRUE
  /\ sharing'[u].permanentPend = FALSE
  /\ sharing'[u].permanentSince = sharing[u].permanentSince \/ sharing'[u].permanentSince # 0
  /\ sharing'[u].violatorSince = sharing[u].violatorSince
  /\ sharing'[u].banlistSince = sharing[u].banlistSince

Effect ==
  /\ restarts' = restarts
  /\ Quiet \/ \E u \in Users : Judged(u) \/ Banned(u) \/ Settled(u)

LEMMA UnchangedQuiet ==
  ASSUME UNCHANGED <<sharing, restarts>>
  PROVE  Effect
BY DEF Effect, Quiet, Falls

LEMMA WorkerEffect ==
  ASSUME Inv, NEW w \in Workers, WorkerStep(w)
  PROVE  Effect
<1>0. PICK u \in Users : u = worker[w].user
  BY DEF Inv, TypeOK, Goroutine
<1>1. ASSUME NEW v \in Users, BeginEntry(w, v) \/ BeginStatus(w, v) PROVE Effect
  BY <1>1, UnchangedQuiet DEF BeginEntry, BeginStatus
<1>2. CASE SkipEntry(w) \/ RecordBlocked(w) \/ \E active \in SUBSET IPs : PublishBan(w, active)
  BY <1>2, UnchangedQuiet DEF SkipEntry, RecordBlocked, PublishBan
<1>3. ASSUME NEW exceeds \in BOOLEAN, NEW evidence \in (SUBSET IPs) \ {{}},
             NEW seen \in {{}} \cup {{c} : c \in Countries},
             UpdateSharingStatus(w, exceeds, evidence, seen)
      PROVE  Effect
  <2>1. seen \in SUBSET Countries
    OBVIOUS
  <2>2. PICK r : /\ SameBan(r, sharing[u])
                 /\ Moves(sharing[u], r)
                 /\ sharing' = [sharing EXCEPT ![u] = r]
    BY <1>0, <1>3, <2>1, UpdateSharingStatusStep
  <2>3. Judged(u)
    BY <2>2 DEF Inv, TypeOK, Judged, OnlyRecordOf, SameBan
  <2>4. QED
    BY <1>3, <2>3 DEF Effect, UpdateSharingStatus
<1>4. ASSUME NEW exceeds \in BOOLEAN, NEW evidence \in (SUBSET IPs) \ {{}},
             NEW seen \in {{}} \cup {{c} : c \in Countries},
             UpdateAndBan(w, exceeds, evidence, seen)
      PROVE  Effect
  <2>1. seen \in SUBSET Countries
    OBVIOUS
  <2>2. PICK r : StateInv(r) /\ JoinsBanlist(w, u, r)
    BY <1>0, <1>4, <2>1, UpdateAndBanStep
  <2>3. Banned(u)
    BY <2>2 DEF Inv, TypeOK, Banned, OnlyRecordOf, JoinsBanlist
  <2>4. QED
    BY <1>4, <2>3 DEF Effect, UpdateAndBan
<1>5. CASE SettleBan(w)
  <2>1. PICK r : LET s == sharing[u]
                 IN  /\ r.permanentPend = FALSE
                     /\ r.permanentSince = s.permanentSince \/ r.permanentSince # 0
                     /\ r.violatorSince = s.violatorSince
                     /\ r.banlistSince = s.banlistSince
                     /\ sharing' = [sharing EXCEPT ![u] = r]
    BY <1>0, <1>5, SettleBanStep
  <2>2. sharing[u].permanentPend = TRUE
    <3>1. w \in PublishersOf(u)
      BY <1>0, <1>5 DEF SettleBan, PublishersOf, Publishing
    <3>2. sharing[u].permanentPend \in BOOLEAN
      BY DEF Inv, TypeOK, SharingState
    <3>3. QED
      BY <3>1, <3>2 DEF Inv, OnePublisher
  <2>3. Settled(u)
    BY <2>1, <2>2 DEF Inv, TypeOK, Settled, OnlyRecordOf
  <2>4. QED
    BY <1>5, <2>3 DEF Effect, SettleBan
<1>6. CASE StatusRead(w)
  <2>1. Quiet
    BY <1>6, ReadStep DEF Quiet, SameBan
  <2>2. QED
    BY <1>6, <2>1 DEF Effect, StatusRead, GetSharingStatus, ListSharingStatuses
<1>7. QED
  BY <1>1, <1>2, <1>3, <1>4, <1>5, <1>6 DEF WorkerStep, ProcessEntry, FinishBan, StatusRead

LEMMA StepEffect ==
  ASSUME Inv, [Next]_vars
  PROVE  Effect \/ Restart
<1>1. CASE UNCHANGED vars
  BY <1>1, UnchangedQuiet DEF vars
<1>2. ASSUME NEW w \in Workers, WorkerStep(w) PROVE Effect
  BY <1>2, WorkerEffect
<1>3. ASSUME NEW u \in Users, ResetSharingState(u) PROVE Effect
  BY <1>3, ResetStep DEF ResetSharingState, Effect, Quiet, SameBan
<1>4. ASSUME NEW u \in Users, CounterStep(u) PROVE Effect
  BY <1>4, CounterStepInv DEF CounterFrame, Effect, Quiet, Falls
<1>5. CASE Tick \/ \E u \in Users, blocked \in SUBSET (IPs \ ExcludedIPs) : RecordBlockedIPs(u, blocked)
  BY <1>5, UnchangedQuiet DEF Tick, RecordBlockedIPs
<1>6. QED
  BY <1>1, <1>2, <1>3, <1>4, <1>5 DEF Next

(* A user leaves the ban-list only when its triggers no longer confirm the  *)
(* sharing, and never after a permanent ban.                                *)
THEOREM BanlistExits == Spec => LeavesBanlistOnlyWhenCleared
<1> DEFINE A == \A u \in Users :
                  InBanlist(sharing[u]) /\ ~InBanlist(sharing'[u]) /\ restarts' = restarts =>
                    sharing[u].permanentSince = 0 /\ ~Confirmed(sharing'[u])
<1>1. Inv /\ [Next]_vars => [A]_vars
  <2> SUFFICES ASSUME Inv, [Next]_vars PROVE A
    OBVIOUS
  <2>1. CASE Effect
    <3>1. CASE Quiet
      BY <3>1 DEF Quiet, Falls
    <3>2. ASSUME NEW u \in Users, Judged(u) PROVE A
      BY <3>2 DEF Judged, OnlyRecordOf, Moves, Falls, Standing, InBanlist
    <3>3. ASSUME NEW u \in Users, Banned(u) \/ Settled(u) PROVE A
      BY <3>3 DEF Banned, Settled, OnlyRecordOf, InBanlist
    <3>4. QED
      BY <2>1, <3>1, <3>2, <3>3 DEF Effect
  <2>2. CASE Restart
    BY <2>2 DEF Restart, Inv, TypeOK
  <2>3. QED
    BY <2>1, <2>2, StepEffect
<1>2. QED
  BY <1>1, Invariance, PTL DEF Spec, LeavesBanlistOnlyWhenCleared

(* Every step of the detector is a step of the abstract life cycle or       *)
(* leaves it alone.                                                         *)
LEMMA StepRefines ==
  ASSUME Inv, [Next]_vars
  PROVE  [LC!Next]_(LC!vars)
<1> DEFINE standing == [u \in Users |-> Standing(sharing[u])]
           publishing == [u \in Users |-> sharing[u].permanentPend]
<1>1. CASE Effect /\ Quiet
  <2> DEFINE S == {x \in Users : Standing(sharing'[x]) # Standing(sharing[x])}
  <2>1. \A x \in S : Standing(sharing[x]) # "permanent" /\ Standing(sharing'[x]) = "clear"
    BY <1>1 DEF Quiet, Falls
  <2>2. publishing' = publishing /\ restarts' = restarts
    BY <1>1 DEF Quiet, Effect
  <2>3. standing' = [u \in Users |-> IF u \in S THEN "clear" ELSE standing[u]]
    BY <2>1
  <2>4. LC!Clear(S)
    BY <2>1, <2>2, <2>3 DEF LC!Clear
  <2>5. QED
    BY <2>4 DEF LC!Next
<1>2. ASSUME NEW u \in Users, restarts' = restarts, Judged(u)
      PROVE  [LC!Next]_(LC!vars)
  <2>1. publishing' = publishing
    BY <1>2 DEF Judged, OnlyRecordOf
  <2>2. CASE Standing(sharing'[u]) = Standing(sharing[u])
    <3>1. standing' = standing
      BY <1>2, <2>2 DEF Judged, OnlyRecordOf
    <3>2. QED
      BY <1>2, <2>1, <3>1 DEF LC!vars
  <2>3. CASE Standing(sharing[u]) # "permanent" /\ Standing(sharing'[u]) = "clear"
    <3>1. standing' = [x \in Users |-> IF x \in {u} THEN "clear" ELSE standing[x]]
      BY <1>2, <2>3 DEF Judged, OnlyRecordOf
    <3>2. LC!Clear({u})
      BY <1>2, <2>1, <2>3, <3>1 DEF LC!Clear
    <3>3. QED
      BY <3>2 DEF LC!Next
  <2>4. CASE Standing(sharing[u]) = "clear" /\ Standing(sharing'[u]) = "violator"
    <3>1. standing' = [standing EXCEPT ![u] = "violator"]
      BY <1>2, <2>4 DEF Judged, OnlyRecordOf
    <3>2. LC!Accuse(u)
      BY <1>2, <2>1, <2>4, <3>1 DEF LC!Accuse
    <3>3. QED
      BY <3>2 DEF LC!Next
  <2>5. QED
    BY <1>2, <2>2, <2>3, <2>4 DEF Judged, Moves, Falls
<1>3. ASSUME NEW u \in Users, restarts' = restarts, Banned(u)
      PROVE  [LC!Next]_(LC!vars)
  <2>0. /\ sharing[u].permanentPend \in BOOLEAN
        /\ sharing[u].permanentPend = TRUE => publishing' = publishing
    BY <1>3 DEF Inv, TypeOK, SharingState, Banned, OnlyRecordOf
  <2>1. CASE sharing[u].permanentSince # 0
    <3>1. standing' = standing
      BY <1>3, <2>1 DEF Banned, OnlyRecordOf, Standing
    <3>2. publishing' = publishing
      BY <1>3, <2>1 DEF Banned, OnlyRecordOf, StartsPublication
    <3>3. QED
      BY <1>3, <3>1, <3>2 DEF LC!vars
  <2>2. CASE sharing[u].permanentSince = 0
    <3>1. standing[u] = "violator" /\ standing' = [standing EXCEPT ![u] = "banlisted"]
      BY <1>3, <2>2 DEF Banned, OnlyRecordOf, Standing
    <3>2. \/ publishing' = publishing
          \/ publishing[u] = FALSE /\ publishing' = [publishing EXCEPT ![u] = TRUE]
      <4>1. CASE StartsPublication(sharing[u])
        BY <1>3, <2>0, <4>1 DEF Banned, OnlyRecordOf
      <4>2. CASE ~StartsPublication(sharing[u])
        BY <1>3, <4>2 DEF Banned, OnlyRecordOf
      <4>3. QED
        BY <4>1, <4>2
    <3>3. LC!Enlist(u)
      BY <1>3, <3>1, <3>2 DEF LC!Enlist
    <3>4. QED
      BY <3>3 DEF LC!Next
  <2>3. QED
    BY <2>1, <2>2
<1>4. ASSUME NEW u \in Users, restarts' = restarts, Settled(u)
      PROVE  [LC!Next]_(LC!vars)
  <2>1. publishing[u] = TRUE /\ publishing' = [publishing EXCEPT ![u] = FALSE]
    BY <1>4 DEF Settled, OnlyRecordOf
  <2>2. standing' = standing \/ standing' = [standing EXCEPT ![u] = "permanent"]
    <3>1. Standing(sharing'[u]) \in {Standing(sharing[u]), "permanent"}
      BY <1>4 DEF Settled, Standing
    <3>2. QED
      BY <1>4, <3>1 DEF Settled, OnlyRecordOf
  <2>3. LC!Publish(u)
    BY <1>4, <2>1, <2>2 DEF LC!Publish
  <2>4. QED
    BY <2>3 DEF LC!Next
<1>5. CASE Restart
  <2>1. /\ standing' = [u \in Users |-> "clear"]
        /\ publishing' = [u \in Users |-> FALSE]
        /\ restarts' = restarts + 1
    BY <1>5 DEF Restart, NoState, Standing
  <2>2. LC!Restart
    BY <2>1 DEF LC!Restart
  <2>3. QED
    BY <2>2 DEF LC!Next
<1>6. QED
  BY <1>1, <1>2, <1>3, <1>4, <1>5, StepEffect DEF Effect

(* The detector implements BanLifecycle.                                    *)
THEOREM DetectorImplementsLifecycle == Spec => Lifecycle
<1>1. Init => LC!Init
  BY DEF Init, LC!Init, NoState, Standing
<1>2. Inv /\ [Next]_vars => [LC!Next]_(LC!vars)
  BY StepRefines
<1>3. QED
  BY <1>1, <1>2, Invariance, PTL DEF Spec, Lifecycle, LC!Spec
==========================================================================
