------------------------- MODULE SharingDetector -------------------------
(***************************************************************************)
(* The sharing detector of the observer: the per-user state machine that   *)
(* LogProcessor keeps in sharingState under eventsMu                       *)
(* (ffxban/internal/processor/processor.go), with the goroutines around it *)
(*   - log workers, which take "now" at the start of an entry, wait for    *)
(*     Redis, and only then lock eventsMu and apply that old "now";        *)
(*   - the publication of the escalated ban, made outside the lock between *)
(*     two critical sections of the same worker;                           *)
(*   - status reads (block decision, panel, metrics), which expire state;  *)
(*   - resets by the administrator;                                        *)
(*   - the loader and the side-effect tasks that carry the ban counter     *)
(*     between memory and Redis;                                           *)
(*   - a restart, which keeps Redis and forgets the rest.                  *)
(*                                                                         *)
(* Time is a discrete clock.  0 is Go's zero time.Time: a field that is 0  *)
(* is not set.  The slice Triggers is a set: an appended time is larger    *)
(* than every time already there (TriggerDiscipline below), so the slice   *)
(* never holds a time twice and its order is the order of the times.       *)
(* ViolationNodes is written and cleared by the same statements as         *)
(* ViolationIPs and is represented by it; LastSourceCount is only shown.   *)
(* The configuration is constant, with detection switched on; changes at   *)
(* run time are not part of this module.                                   *)
(*                                                                         *)
(* Operators named Faulty... are not the code's: each is a plausible slip  *)
(* in the operator that follows it, kept to show which property notices.   *)
(***************************************************************************)
EXTENDS Integers, Sequences, FiniteSets

CONSTANTS
  Users,              \* normalised user identifiers
  ExcludedUsers,      \* cfg.ExcludedUsers, and the users without an IP limit
  Workers,            \* goroutines: log workers and API handlers
  IPs,                \* source addresses
  ExcludedIPs,        \* cfg.ExcludedIPs
  Countries,          \* countries the classifier may report; {} when geo tracking is off
  MinCountries,       \* cfg.GeoSharingMinCountries
  Sustain,            \* cfg.SharingSustain
  TriggerPeriod,      \* cfg.TriggerPeriod
  TriggerCount,       \* cfg.TriggerCount
  TriggerMinInterval, \* cfg.TriggerMinInterval
  BanlistThreshold,   \* cfg.BanlistThreshold
  PermanentBanEnabled,\* cfg.SharingPermanentBanEnabled
  Durations,          \* the durations an instance uses, such as "1h" or "permanent"
  BanDuration,        \* cfg.SharingPermanentBanDuration
  Ladder,             \* cfg.BanEscalationDurations, << >> when escalation is off
  RowLimit,           \* the limit ListSharingStatuses is called with
  Faults,             \* which failures the instance includes, see below
  PromptRedis,        \* TRUE: no Redis round trip spans a clock tick
  MaxTime,            \* bound: the clock stops here
  MaxResends,         \* bound on the INCRs sent again for one user
  MaxRestarts         \* bound on restarts

(* "entry": CheckAndAddIP fails; "broker": BlockIPs fails after its         *)
(* retries; "queue": the side-effect channel is full; "incr", "load": the   *)
(* Redis INCR / GET of the ban counter fails; "restart": the process is     *)
(* stopped in order; "crash": it dies at any point.                         *)
FaultKinds == {"entry", "broker", "queue", "incr", "load", "restart", "crash"}

ASSUME ThresholdAssumption ==
  /\ Sustain \in Nat \ {0}
  /\ TriggerPeriod \in Nat \ {0}
  /\ TriggerCount \in Nat \ {0}
  /\ TriggerMinInterval \in Nat \ {0}
  /\ BanlistThreshold \in Nat \ {0}
  /\ MinCountries \in Nat \ {0}

ASSUME ConfigAssumption ==
  /\ Users # {}
  /\ ExcludedUsers \subseteq Users
  /\ ExcludedIPs \subseteq IPs
  /\ PermanentBanEnabled \in BOOLEAN
  /\ BanDuration \in Durations
  /\ Ladder \in Seq(Durations)
  /\ RowLimit \in Nat \ {0}
  /\ Faults \subseteq FaultKinds
  /\ PromptRedis \in BOOLEAN
  /\ MaxTime \in Nat
  /\ MaxResends \in Nat
  /\ MaxRestarts \in Nat

VARIABLES
  clock,       \* wall clock, from 1
  sharing,     \* sharingState: the record of each user
  worker,      \* what each goroutine is doing, with its locals
  lastBlocked, \* lastBlockedIPs
  loader,      \* the loadPersistentBanCount goroutine of each user
  queued,      \* IncrUserBanCount tasks in the side-effect queue, per user
  replies,     \* results of INCR not yet written back, per user
  persisted,   \* Redis ban_count:<user>
  published,   \* durations of the escalated bans sent to the exchange, per user
  bans,        \* history: additions to the ban-list ever, per user
  resent,      \* history: INCRs that were applied and sent again, per user
  restarts     \* number of restarts so far

vars == <<clock, sharing, worker, lastBlocked, loader, queued, replies,
          persisted, published, bans, resent, restarts>>

--------------------------------------------------------------------------
(* Types *)

NoDuration == "none"

NoState == [known |-> FALSE, triggers |-> {}, exceedSince |-> 0,
            violatorSince |-> 0, banlistSince |-> 0, permanentSince |-> 0,
            permanentPend |-> FALSE, lastTriggerAt |-> 0, ips |-> {},
            banCount |-> 0, banCountLoaded |-> FALSE,
            countries |-> {}, geoMismatchAt |-> 0]

SharingState ==
  [known : BOOLEAN, triggers : SUBSET Nat, exceedSince : Nat,
   violatorSince : Nat, banlistSince : Nat, permanentSince : Nat,
   permanentPend : BOOLEAN, lastTriggerAt : Nat, ips : SUBSET IPs,
   banCount : Nat, banCountLoaded : BOOLEAN,
   countries : SUBSET Countries, geoMismatchAt : Nat]

(* "entry": between now := time.Now() and eventsMu in updateSharingStatus;  *)
(* "status": between now := time.Now() and eventsMu in GetSharingStatus;    *)
(* "publish", "record", "settle": the stages of the ban's publication.      *)
Stages == {"idle", "entry", "status", "publish", "record", "settle"}

Publishing == {"publish", "record", "settle"}

Goroutine == [pc : Stages, user : Users, now : Nat, seed : SUBSET IPs,
              banCount : Nat, applied : Durations \cup {NoDuration}]

LoaderState == [pc : {"none", "reading", "answered"}, count : Nat]

--------------------------------------------------------------------------
(* The transformations of one sharingState that the handlers compose *)

(* pruneSharingTriggersLocked: the cutoff itself is kept. *)
Prune(s, now) ==
  [s EXCEPT !.triggers = {t \in s.triggers : t >= now - TriggerPeriod}]

Confirmed(s) == Cardinality(s.triggers) >= TriggerCount

FaultyTriggerDue(s, now) == now - s.exceedSince >= Sustain

(* A trigger is due: the excess lasts since long enough and the previous    *)
(* trigger is old enough.                                                   *)
TriggerDue(s, now) ==
  /\ now - s.exceedSince >= Sustain
  /\ s.lastTriggerAt = 0 \/ now - s.lastTriggerAt >= TriggerMinInterval

StartExcess(s, now) ==
  [s EXCEPT !.exceedSince = IF s.exceedSince = 0 THEN now ELSE s.exceedSince]

AppendTrigger(s, now) ==
  Prune([s EXCEPT !.triggers = s.triggers \cup {now}, !.lastTriggerAt = now], now)

Exceeding(s, now) ==
  LET e == StartExcess(s, now)
  IN  IF TriggerDue(e, now) THEN AppendTrigger(e, now) ELSE e

FaultyComplying(s) ==
  [s EXCEPT !.exceedSince = 0, !.triggers = {},
            !.lastTriggerAt = s.lastTriggerAt - TriggerMinInterval]

Complying(s) ==
  [s EXCEPT !.exceedSince = 0,
            !.triggers = {},
            !.lastTriggerAt = IF s.triggers = {} THEN s.lastTriggerAt ELSE 0]

FaultyClearViolator(s) == [s EXCEPT !.violatorSince = 0, !.ips = {}]

(* The violator status ends; a permanent ban keeps its list entry and its   *)
(* evidence.                                                                *)
ClearViolator(s) ==
  [s EXCEPT !.violatorSince = 0,
            !.banlistSince = IF s.permanentSince = 0 THEN 0 ELSE s.banlistSince,
            !.ips = IF s.permanentSince = 0 THEN {} ELSE s.ips]

Confirm(s, evidence, now) ==
  [s EXCEPT !.violatorSince = IF s.violatorSince = 0 THEN now ELSE s.violatorSince,
            !.ips = s.ips \cup evidence]

BanlistDue(s, now) ==
  /\ Confirmed(s)
  /\ s.banlistSince = 0
  /\ now - s.violatorSince >= BanlistThreshold

FaultyStartsPublication(s) == PermanentBanEnabled /\ s.permanentSince = 0

StartsPublication(s) ==
  PermanentBanEnabled /\ s.permanentSince = 0 /\ ~s.permanentPend

AddToBanlist(s, now) ==
  [s EXCEPT !.banlistSince = now,
            !.banCount = s.banCount + 1,
            !.permanentPend = IF StartsPublication(s) THEN TRUE ELSE s.permanentPend]

(* Updates the violator status from the triggers. *)
Judge(s, evidence, now) ==
  IF Confirmed(s) THEN Confirm(s, evidence, now)
  ELSE IF s.violatorSince # 0 THEN ClearViolator(s) ELSE s

(* Geo tracking: countries accumulate, the mismatch is stamped once. *)
SeeCountries(s, seen, now) ==
  LET all == s.countries \cup seen
  IN  [s EXCEPT !.countries = all,
                !.geoMismatchAt =
                   IF s.geoMismatchAt = 0 /\ Cardinality(all) >= MinCountries
                   THEN now ELSE s.geoMismatchAt]

(* The state after the first part of updateSharingStatus' critical section, *)
(* up to the ban-list decision.                                             *)
Observe(s, exceeds, evidence, now) ==
  LET p == Prune([s EXCEPT !.known = TRUE], now)
  IN  Judge(IF exceeds THEN Exceeding(p, now) ELSE Complying(p), evidence, now)

FaultyExpire(s, now) == Prune(s, now)

FaultyHastyExpire(s, now) ==
  LET p == Prune(s, now)
  IN  IF p.violatorSince # 0 THEN ClearViolator(p) ELSE p

(* What a status read does to the state it reads. *)
Expire(s, now) ==
  LET p == Prune(s, now)
  IN  IF p.violatorSince # 0 /\ ~Confirmed(p) THEN ClearViolator(p) ELSE p

FaultyCleared(s) == [NoState EXCEPT !.known = TRUE, !.banCount = s.banCount]

(* ResetSharingState *)
Cleared(s) ==
  ClearViolator([s EXCEPT !.triggers = {}, !.exceedSince = 0, !.lastTriggerAt = 0])

(* Where a user stands, as sharingStatusLocked reports it. *)
Standing(s) ==
  IF s.permanentSince # 0 THEN "permanent"
  ELSE IF s.banlistSince # 0 THEN "banlisted"
  ELSE IF s.violatorSince # 0 THEN "violator" ELSE "clear"

InBanlist(s) == s.banlistSince # 0 \/ s.permanentSince # 0

(* getEscalatedDuration: the n-th ban takes the n-th rung of the ladder,    *)
(* clamped at both ends; without a ladder, the configured duration.         *)
(* The configuration parser drops blank rungs.                              *)
EscalatedDuration(n) ==
  IF Ladder = << >> THEN BanDuration
  ELSE Ladder[IF n < 1 THEN 1 ELSE IF n > Len(Ladder) THEN Len(Ladder) ELSE n]

--------------------------------------------------------------------------
(* Initial state *)

Idle == [pc |-> "idle", user |-> CHOOSE u \in Users : TRUE, now |-> 0,
         seed |-> {}, banCount |-> 0, applied |-> NoDuration]

AllIdle == [w \in Workers |-> Idle]

NoLoader == [pc |-> "none", count |-> 0]

Init ==
  /\ clock = 1
  /\ sharing = [u \in Users |-> NoState]
  /\ worker = AllIdle
  /\ lastBlocked = [u \in Users |-> {}]
  /\ loader = [u \in Users |-> NoLoader]
  /\ queued = [u \in Users |-> 0]
  /\ replies = [u \in Users |-> {}]
  /\ persisted = [u \in Users |-> 0]
  /\ published = [u \in Users |-> {}]
  /\ bans = [u \in Users |-> 0]
  /\ resent = [u \in Users |-> 0]
  /\ restarts = 0

--------------------------------------------------------------------------
(* Log workers and status readers *)

(* processSingleEntry takes now before SetIPNode and CheckAndAddIP. *)
BeginEntry(w, u) ==
  /\ worker[w].pc = "idle"
  /\ worker' = [worker EXCEPT ![w] = [Idle EXCEPT !.pc = "entry", !.user = u, !.now = clock]]
  /\ UNCHANGED <<clock, sharing, lastBlocked, loader, queued, replies,
                 persisted, published, bans, resent, restarts>>

(* The early returns before updateSharingStatus changes anything: an        *)
(* excluded user, or CheckAndAddIP failed.                                  *)
SkipEntry(w) ==
  /\ worker[w].pc = "entry"
  /\ \/ worker[w].user \in ExcludedUsers
     \/ "entry" \in Faults
  /\ worker' = [worker EXCEPT ![w] = Idle]
  /\ UNCHANGED <<clock, sharing, lastBlocked, loader, queued, replies,
                 persisted, published, bans, resent, restarts>>

(* The first update of a user starts the goroutine that loads its counter. *)
StartLoader(u) ==
  loader' = IF sharing[u].known THEN loader
            ELSE [loader EXCEPT ![u] = [pc |-> "reading", count |-> 0]]

(* updateSharingStatus when the user does not enter the ban-list. *)
UpdateSharingStatus(w, exceeds, evidence, seen) ==
  LET u == worker[w].user
      now == worker[w].now
      s == Observe(sharing[u], exceeds, evidence, now)
  IN  /\ worker[w].pc = "entry"
      /\ u \notin ExcludedUsers
      /\ ~BanlistDue(s, now)
      /\ sharing' = [sharing EXCEPT ![u] = SeeCountries(s, seen, now)]
      /\ StartLoader(u)
      /\ worker' = [worker EXCEPT ![w] = Idle]
      /\ UNCHANGED <<clock, lastBlocked, queued, replies, persisted,
                     published, bans, resent, restarts>>

(* updateSharingStatus when the user enters the ban-list: the increment of  *)
(* the persistent counter is queued (or dropped when the queue is full),    *)
(* and the worker goes on to publish the ban unless a publication for the   *)
(* user is pending, was applied for good, or is switched off.               *)
UpdateAndBan(w, exceeds, evidence, seen) ==
  LET u == worker[w].user
      now == worker[w].now
      s == Observe(sharing[u], exceeds, evidence, now)
      b == AddToBanlist(s, now)
  IN  /\ worker[w].pc = "entry"
      /\ u \notin ExcludedUsers
      /\ BanlistDue(s, now)
      /\ sharing' = [sharing EXCEPT ![u] = SeeCountries(b, seen, now)]
      /\ StartLoader(u)
      /\ bans' = [bans EXCEPT ![u] = bans[u] + 1]
      /\ \/ queued' = [queued EXCEPT ![u] = queued[u] + 1]
         \/ "queue" \in Faults /\ UNCHANGED queued
      /\ worker' = [worker EXCEPT ![w] =
                      IF StartsPublication(s)
                      THEN [Idle EXCEPT !.pc = "publish", !.user = u, !.now = now,
                                        !.seed = b.ips, !.banCount = b.banCount]
                      ELSE Idle]
      /\ UNCHANGED <<clock, lastBlocked, replies, persisted, published, resent,
                     restarts>>

(* Without eventsMu: the addresses to block are the evidence and whatever   *)
(* Redis lists as active, without the excluded ones; BlockIPs publishes     *)
(* them, fails, or is skipped because nothing is left to block.             *)
PublishBan(w, active) ==
  LET u == worker[w].user
      target == (worker[w].seed \cup active) \ ExcludedIPs
      duration == EscalatedDuration(worker[w].banCount)
  IN  /\ worker[w].pc = "publish"
      /\ \/ /\ target # {}
            /\ published' = [published EXCEPT ![u] = published[u] \cup {duration}]
            /\ worker' = [worker EXCEPT ![w].pc = "record", ![w].seed = target,
                                        ![w].applied = duration]
         \/ /\ target = {} \/ "broker" \in Faults
            /\ worker' = [worker EXCEPT ![w].pc = "settle"]
            /\ UNCHANGED published
      /\ UNCHANGED <<clock, sharing, lastBlocked, loader, queued, replies,
                     persisted, bans, resent, restarts>>

(* RecordBlockedIPs *)
RecordBlocked(w) ==
  /\ worker[w].pc = "record"
  /\ lastBlocked' = [lastBlocked EXCEPT ![worker[w].user] = worker[w].seed]
  /\ worker' = [worker EXCEPT ![w].pc = "settle"]
  /\ UNCHANGED <<clock, sharing, loader, queued, replies, persisted,
                 published, bans, resent, restarts>>

FaultySettleBan(w) ==
  LET u == worker[w].user
  IN  /\ worker[w].pc = "settle"
      /\ sharing' = [sharing EXCEPT ![u].permanentPend = FALSE,
                                    ![u].permanentSince = worker[w].now]
      /\ worker' = [worker EXCEPT ![w] = Idle]
      /\ UNCHANGED <<clock, lastBlocked, loader, queued, replies, persisted,
                     published, bans, resent, restarts>>

FaultyStuckSettleBan(w) ==
  LET u == worker[w].user
      applied == worker[w].applied = "permanent"
  IN  /\ worker[w].pc = "settle"
      /\ sharing' = IF applied
                    THEN [sharing EXCEPT ![u].permanentPend = FALSE,
                                         ![u].permanentSince = worker[w].now]
                    ELSE sharing
      /\ worker' = [worker EXCEPT ![w] = Idle]
      /\ UNCHANGED <<clock, lastBlocked, loader, queued, replies, persisted,
                     published, bans, resent, restarts>>

(* The second critical section of updateSharingStatus. *)
SettleBan(w) ==
  LET u == worker[w].user
      s == sharing[u]
  IN  /\ worker[w].pc = "settle"
      /\ sharing' = [sharing EXCEPT ![u] =
                       [s EXCEPT !.permanentPend = FALSE,
                                 !.permanentSince =
                                    IF worker[w].applied = "permanent" /\ s.permanentSince = 0
                                    THEN worker[w].now ELSE s.permanentSince]]
      /\ worker' = [worker EXCEPT ![w] = Idle]
      /\ UNCHANGED <<clock, lastBlocked, loader, queued, replies, persisted,
                     published, bans, resent, restarts>>

(* RecordBlockedIPs by the ordinary block of an entry or by a block of the  *)
(* administrator: both drop excluded addresses and record only a set that   *)
(* is not empty.                                                            *)
RecordBlockedIPs(u, blocked) ==
  /\ blocked # {}
  /\ lastBlocked' = [lastBlocked EXCEPT ![u] = blocked]
  /\ UNCHANGED <<clock, sharing, worker, loader, queued, replies, persisted,
                 published, bans, resent, restarts>>

(* GetSharingStatus takes now before it locks eventsMu, as does             *)
(* ListSharingStatuses.                                                     *)
BeginStatus(w, u) ==
  /\ worker[w].pc = "idle"
  /\ worker' = [worker EXCEPT ![w] = [Idle EXCEPT !.pc = "status", !.user = u, !.now = clock]]
  /\ UNCHANGED <<clock, sharing, lastBlocked, loader, queued, replies,
                 persisted, published, bans, resent, restarts>>

GetSharingStatus(w) ==
  LET u == worker[w].user
  IN  /\ worker[w].pc = "status"
      /\ sharing' = [sharing EXCEPT ![u] = Expire(sharing[u], worker[w].now)]
      /\ worker' = [worker EXCEPT ![w] = Idle]
      /\ UNCHANGED <<clock, lastBlocked, loader, queued, replies, persisted,
                     published, bans, resent, restarts>>

(* The users it walks over before RowLimit rows are full: a map has no      *)
(* order, so these may be any.                                              *)
Listed ==
  LET known == {u \in Users : sharing[u].known}
  IN  {rows \in SUBSET known : /\ Cardinality(rows) <= RowLimit
                               /\ rows # known => Cardinality(rows) = RowLimit}

ListSharingStatuses(w, rows) ==
  /\ worker[w].pc = "status"
  /\ sharing' = [u \in Users |-> IF u \in rows THEN Expire(sharing[u], worker[w].now)
                                 ELSE sharing[u]]
  /\ worker' = [worker EXCEPT ![w] = Idle]
  /\ UNCHANGED <<clock, lastBlocked, loader, queued, replies, persisted,
                 published, bans, resent, restarts>>

ResetSharingState(u) ==
  /\ sharing[u].known
  /\ sharing' = [sharing EXCEPT ![u] = Cleared(sharing[u])]
  /\ UNCHANGED <<clock, worker, lastBlocked, loader, queued, replies,
                 persisted, published, bans, resent, restarts>>

--------------------------------------------------------------------------
(* The ban counter between memory and Redis *)

(* loadPersistentBanCount: the GET of ban_count; 0 or an error ends it. *)
ReadBanCount(u) ==
  /\ loader[u].pc = "reading"
  /\ \/ /\ persisted[u] # 0
        /\ loader' = [loader EXCEPT ![u] = [pc |-> "answered", count |-> persisted[u]]]
     \/ /\ persisted[u] = 0 \/ "load" \in Faults
        /\ loader' = [loader EXCEPT ![u] = NoLoader]
  /\ UNCHANGED <<clock, sharing, worker, lastBlocked, queued, replies,
                 persisted, published, bans, resent, restarts>>

FaultyStoreBanCount(u) ==
  /\ loader[u].pc = "answered"
  /\ sharing' = [sharing EXCEPT ![u].banCount = @ + loader[u].count]
  /\ loader' = [loader EXCEPT ![u] = NoLoader]
  /\ UNCHANGED <<clock, worker, lastBlocked, queued, replies, persisted,
                 published, bans, resent, restarts>>

FaultyForgetBanCount(u) ==
  /\ loader[u].pc = "answered"
  /\ loader' = [loader EXCEPT ![u] = NoLoader]
  /\ UNCHANGED <<clock, sharing, worker, lastBlocked, queued, replies,
                 persisted, published, bans, resent, restarts>>

(* Its critical section.  One loader is started per user and process, so    *)
(* BanCountLoaded is still FALSE here.                                      *)
StoreBanCount(u) ==
  /\ loader[u].pc = "answered"
  /\ sharing' = IF sharing[u].known /\ ~sharing[u].banCountLoaded
                THEN [sharing EXCEPT ![u].banCount = loader[u].count,
                                     ![u].banCountLoaded = TRUE]
                ELSE sharing
  /\ loader' = [loader EXCEPT ![u] = NoLoader]
  /\ UNCHANGED <<clock, worker, lastBlocked, queued, replies, persisted,
                 published, bans, resent, restarts>>

(* go-redis sends an INCR again, up to three times a task, when its answer  *)
(* does not arrive (NewClient keeps the default MaxRetries): Redis may have *)
(* applied it already.                                                      *)
ResendIncr(u) ==
  /\ "incr" \in Faults
  /\ queued[u] > 0
  /\ resent[u] < MaxResends
  /\ persisted' = [persisted EXCEPT ![u] = persisted[u] + 1]
  /\ resent' = [resent EXCEPT ![u] = resent[u] + 1]
  /\ UNCHANGED <<clock, sharing, worker, lastBlocked, loader, queued, replies,
                 published, bans, restarts>>

(* The last attempt of the task: INCR answers, fails, or is applied while   *)
(* its answer is lost (the three-second timeout).                           *)
IncrBanCount(u) ==
  /\ queued[u] > 0
  /\ queued' = [queued EXCEPT ![u] = queued[u] - 1]
  /\ \/ /\ persisted' = [persisted EXCEPT ![u] = persisted[u] + 1]
        /\ replies' = [replies EXCEPT ![u] = replies[u] \cup {persisted[u] + 1}]
     \/ /\ "incr" \in Faults
        /\ UNCHANGED replies
        /\ \/ UNCHANGED persisted
           \/ persisted' = [persisted EXCEPT ![u] = persisted[u] + 1]
  /\ UNCHANGED <<clock, sharing, worker, lastBlocked, loader, published,
                 bans, resent, restarts>>

(* ... and writes the answer back under eventsMu, in any order. *)
StoreReply(u, n) ==
  /\ n \in replies[u]
  /\ replies' = [replies EXCEPT ![u] = replies[u] \ {n}]
  /\ sharing' = IF sharing[u].known THEN [sharing EXCEPT ![u].banCount = n] ELSE sharing
  /\ UNCHANGED <<clock, worker, lastBlocked, loader, queued, persisted,
                 published, bans, resent, restarts>>

--------------------------------------------------------------------------
(* The process and the clock *)

RedisQuiet ==
  \A u \in Users : loader[u].pc = "none" /\ queued[u] = 0 /\ replies[u] = {}

(* An orderly stop whose drain succeeded: WaitDrained saw empty queues,     *)
(* wg.Wait outlasted the log workers, and no task was skipped.  A stop that *)
(* loses work (the drain timed out, a task was enqueued after the context   *)
(* was cancelled) is covered by "crash".                                    *)
Drained == RedisQuiet /\ \A w \in Workers : worker[w].pc \notin Publishing

(* The process ends and comes back: goroutines, queues and maps are gone. *)
Restart ==
  /\ "crash" \in Faults \/ ("restart" \in Faults /\ Drained)
  /\ restarts < MaxRestarts
  /\ restarts' = restarts + 1
  /\ sharing' = [u \in Users |-> NoState]
  /\ worker' = AllIdle
  /\ lastBlocked' = [u \in Users |-> {}]
  /\ loader' = [u \in Users |-> NoLoader]
  /\ queued' = [u \in Users |-> 0]
  /\ replies' = [u \in Users |-> {}]
  /\ UNCHANGED <<clock, persisted, published, bans, resent>>

Tick ==
  /\ clock < MaxTime
  /\ PromptRedis => RedisQuiet /\ \A w \in Workers : worker[w].pc # "entry"
  /\ clock' = clock + 1
  /\ UNCHANGED <<sharing, worker, lastBlocked, loader, queued, replies,
                 persisted, published, bans, resent, restarts>>

ProcessEntry(w) ==
  \/ SkipEntry(w)
  \/ \E exceeds \in BOOLEAN, evidence \in (SUBSET IPs) \ {{}},
        seen \in {{}} \cup {{c} : c \in Countries} :
       \/ UpdateSharingStatus(w, exceeds, evidence, seen)
       \/ UpdateAndBan(w, exceeds, evidence, seen)

FinishBan(w) ==
  \/ \E active \in SUBSET IPs : PublishBan(w, active)
  \/ RecordBlocked(w)
  \/ SettleBan(w)

WorkerStep(w) ==
  \/ \E u \in Users : BeginEntry(w, u) \/ BeginStatus(w, u)
  \/ ProcessEntry(w)
  \/ FinishBan(w)
  \/ GetSharingStatus(w)
  \/ \E rows \in Listed : ListSharingStatuses(w, rows)

CounterStep(u) ==
  \/ ReadBanCount(u)
  \/ StoreBanCount(u)
  \/ ResendIncr(u)
  \/ IncrBanCount(u)
  \/ \E n \in replies[u] : StoreReply(u, n)

Next ==
  \/ \E w \in Workers : WorkerStep(w)
  \/ \E u \in Users : ResetSharingState(u) \/ CounterStep(u)
  \/ \E u \in Users, blocked \in SUBSET (IPs \ ExcludedIPs) : RecordBlockedIPs(u, blocked)
  \/ Restart
  \/ Tick

Spec == Init /\ [][Next]_vars

(* A goroutine that entered the publication is scheduled until it is done:  *)
(* BlockIPs returns after a bounded number of retries and eventsMu is held  *)
(* only for short sections.                                                 *)
FairSpec == Spec /\ \A w \in Workers : WF_vars(FinishBan(w))

--------------------------------------------------------------------------
(* Properties *)

TypeOK ==
  /\ clock \in Nat \ {0}
  /\ sharing \in [Users -> SharingState]
  /\ worker \in [Workers -> Goroutine]
  /\ lastBlocked \in [Users -> SUBSET IPs]
  /\ loader \in [Users -> LoaderState]
  /\ queued \in [Users -> Nat]
  /\ replies \in [Users -> SUBSET Nat]
  /\ persisted \in [Users -> Nat]
  /\ published \in [Users -> SUBSET Durations]
  /\ bans \in [Users -> Nat]
  /\ resent \in [Users -> Nat]
  /\ restarts \in Nat

(* Although workers apply the time of their entry late and out of order,    *)
(* the triggers of a user are at least TriggerMinInterval apart, the last   *)
(* one is LastTriggerAt, and all lie within TriggerPeriod of it: the code   *)
(* appends in increasing order (updateSharingStatus, pruneSharingTriggers). *)
TriggerDiscipline ==
  \A u \in Users :
    LET s == sharing[u]
    IN  /\ \A t \in s.triggers : /\ t <= s.lastTriggerAt
                                 /\ t >= s.lastTriggerAt - TriggerPeriod
                                 /\ t # 0
        /\ \A t1, t2 \in s.triggers : t1 < t2 => t2 - t1 >= TriggerMinInterval

(* Whoever holds or reads the status sees a violator exactly when enough    *)
(* triggers are there, whatever mix of entries, status reads and resets led *)
(* there, and a violator comes with evidence.                               *)
ViolatorIffConfirmed ==
  \A u \in Users :
    /\ sharing[u].violatorSince # 0 <=> Confirmed(sharing[u])
    /\ sharing[u].violatorSince # 0 => sharing[u].ips # {}

(* A user is in the ban-list for no longer than it is a violator, and got   *)
(* there after BanlistThreshold of violator status -- unless a permanent    *)
(* ban keeps the entry (BANLIST_THRESHOLD_SECONDS in .env.example).         *)
BanlistJustified ==
  \A u \in Users :
    LET s == sharing[u]
    IN  s.banlistSince # 0 /\ s.permanentSince = 0 =>
          /\ s.violatorSince # 0
          /\ s.banlistSince - s.violatorSince >= BanlistThreshold

(* The workers that publish a ban of the user. *)
PublishersOf(u) == {w \in Workers : worker[w].pc \in Publishing /\ worker[w].user = u}

(* PermanentPend is a lock: while it is set exactly one worker publishes    *)
(* the user's ban, and otherwise none does.                                 *)
OnePublisher ==
  \A u \in Users :
    /\ sharing[u].permanentPend <=> PublishersOf(u) # {}
    /\ \A v, w \in PublishersOf(u) : v = w

(* A user is marked permanently banned only after a ban of duration         *)
(* "permanent" went to the exchange, with addresses recorded for a later    *)
(* manual unblock, none of them excluded.                                   *)
PermanentBacked ==
  \A u \in Users :
    sharing[u].permanentSince # 0 =>
      /\ "permanent" \in published[u]
      /\ lastBlocked[u] # {}
      /\ lastBlocked[u] \cap ExcludedIPs = {}

(* The counter that selects the rung of the escalation ladder exceeds the   *)
(* number of times the user entered the ban-list by no more than the INCRs  *)
(* the Redis client applied twice, whatever the order of the loader, the    *)
(* INCR answers and restarts.                                               *)
OverstatedOnlyByResends ==
  \A u \in Users :
    /\ sharing[u].banCount <= bans[u] + resent[u]
    /\ persisted[u] + queued[u] <= bans[u] + resent[u]

(* With prompt Redis answers and no lost increment, the rung a ban starts   *)
(* to be published with is its number: after orderly restarts too the n-th  *)
(* ban of a user takes the n-th rung ("длительность бана зависит от числа   *)
(* прошлых банов", .env.example).                                           *)
RungMatchesHistory ==
  [][\A w \in Workers :
       worker[w].pc # "publish" /\ worker'[w].pc = "publish" =>
         worker'[w].banCount = bans'[worker'[w].user]]_vars

(* Nobody leaves the ban-list while the triggers still confirm the sharing  *)
(* or after a permanent ban, short of a restart.                            *)
LeavesBanlistOnlyWhenCleared ==
  [][\A u \in Users :
       InBanlist(sharing[u]) /\ ~InBanlist(sharing'[u]) /\ restarts' = restarts =>
         sharing[u].permanentSince = 0 /\ ~Confirmed(sharing'[u])]_vars

(* The detector implements the abstract life cycle of a ban. *)
LC == INSTANCE BanLifecycle WITH
        standing <- [u \in Users |-> Standing(sharing[u])],
        publishing <- [u \in Users |-> sharing[u].permanentPend],
        epoch <- restarts

Lifecycle == LC!Spec

(* A publication in progress ends: PermanentPend does not block the later   *)
(* bans of the user for ever, whether BlockIPs succeeds, fails or is        *)
(* skipped.                                                                 *)
PendingSettles ==
  \A u \in Users : sharing[u].permanentPend ~> ~sharing[u].permanentPend
==========================================================================
