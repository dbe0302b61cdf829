---------------------------- MODULE IPRegistry ----------------------------
(***************************************************************************)
(* The registry of a user's addresses in Redis and everything that reads   *)
(* or writes it (ffxban/internal/services/storage/redis.go and             *)
(* scripts/add_and_check_ip.lua): the log workers, the details page of the *)
(* API, the clearing of a user, and the housekeeping of monitor.go.  Every *)
(* Redis command, script or pipeline is one step; a caller that needs      *)
(* several of them is interleaved with the others between any two.         *)
(*                                                                         *)
(* One user is modelled: the keys of different users are disjoint and no   *)
(* command but SCAN touches those of two.  A key is represented by its     *)
(* time left, 0 when there is no key.  The value of ip_node is not kept,   *)
(* only whether the address has a node.  Addresses are IPv4: the agents'   *)
(* log pattern lets no other through.                                      *)
(*                                                                         *)
(* Operators named Faulty... are not the code's: each is a plausible slip  *)
(* in the operator that follows it, kept to show which property notices.   *)
(***************************************************************************)
EXTENDS Integers, FiniteSets

CONSTANTS
  IPs,           \* source addresses
  Clients,       \* goroutines that serve log entries or the details page
  TTLs,          \* the values cfg.UserIPTTL may have, in ticks
  Limit,         \* the user's limit of addresses
  Cooldown,      \* cfg.AlertCooldown, in ticks
  Housekeeping,  \* cfg.RedisHousekeepingEnabled
  MaxKeys,       \* cfg.RedisHousekeepingMaxKeys
  Clearing,      \* TRUE: the user may be cleared
  LossyReplies   \* TRUE: a command may fail or its reply may be lost

ASSUME RegistryAssumption ==
  /\ IsFiniteSet(IPs)
  /\ TTLs # {}
  /\ TTLs \subseteq Nat \ {0}
  /\ Limit \in Nat \ {0}
  /\ Cooldown \in Nat \ {0}
  /\ MaxKeys \in Nat \ {0}
  /\ Housekeeping \in BOOLEAN
  /\ Clearing \in BOOLEAN
  /\ LossyReplies \in BOOLEAN

VARIABLES
  members,   \* user_ips:<user>, the set of addresses
  setLeft,   \* its time left; with members non-empty, 0 is "no expiry"
  ttlLeft,   \* ttlLeft[i]: time left of ip_ttl:<user>:<i>
  nodeLeft,  \* nodeLeft[i]: time left of ip_node:<user>:<i>
  alertLeft, \* time left of alert_sent:<user>
  ttl,       \* cfg.UserIPTTL
  client,    \* what each goroutine is doing, with its locals
  answer,    \* what CheckAndAddIP last returned to each goroutine
  keeper     \* the housekeeping pass, with its locals

keys == <<members, setLeft, ttlLeft, nodeLeft, alertLeft>>
vars == <<members, setLeft, ttlLeft, nodeLeft, alertLeft, ttl, client, answer,
          keeper>>

--------------------------------------------------------------------------
(* Types *)

(* A log worker goes from idle to "bound" (SetIPNode was called) to         *)
(* "answered"; the details page from idle to "names" (SMEMBERS answered) to *)
(* "listed" (TTL answered), where it may rewrite nodes.  ips is the address *)
(* of the entry, or those the page works on.                                *)
Client == [pc : {"idle", "bound", "answered", "names", "listed"},
           ips : SUBSET IPs, left : [IPs -> Nat]]

Idle == [pc |-> "idle", ips |-> {}, left |-> [i \in IPs |-> 0]]

(* The two rules of CleanupOrphanMappings clean ip_node, then ip_ttl.       *)
(* more: SCAN returned a cursor other than 0.                               *)
Pass == [pc : {"idle", "scan", "members", "delete", "ttls", "expire"},
         rule : {"node", "ttl"}, enforce : Nat, scanned : 0..MaxKeys,
         more : BOOLEAN, stale : SUBSET IPs, live : SUBSET IPs]

NoPass == [pc |-> "idle", rule |-> "node", enforce |-> 0, scanned |-> 0,
           more |-> FALSE, stale |-> {}, live |-> {}]

Answers == [status : {"none", "ok", "block", "cooldown"}, count : Nat,
            ips : SUBSET IPs]

NoAnswer == [status |-> "none", count |-> 0, ips |-> {}]

TypeOK ==
  /\ members \subseteq IPs
  /\ setLeft \in Nat
  /\ ttlLeft \in [IPs -> Nat]
  /\ nodeLeft \in [IPs -> Nat]
  /\ alertLeft \in Nat
  /\ ttl \in TTLs
  /\ client \in [Clients -> Client]
  /\ answer \in [Clients -> Answers]
  /\ keeper \in Pass

--------------------------------------------------------------------------
(* add_and_check_ip.lua *)

FaultyLiveMembers == members

(* What the purge leaves: the members whose ip_ttl key still exists. *)
LiveMembers == {i \in members : ttlLeft[i] > 0}

FaultySetExpiry == setLeft

(* EXPIRE of user_ips. *)
SetExpiry == ttl

FaultyVerdict(ips) ==
  LET n == Cardinality(ips) IN
  IF n <= Limit THEN [status |-> "ok", count |-> n, ips |-> {}]
  ELSE [status |-> "block", count |-> n, ips |-> ips]

(* The script's answer, with the count CheckAndAddIP derives from it. *)
Verdict(ips) ==
  LET n == Cardinality(ips) IN
  IF n <= Limit THEN [status |-> "ok", count |-> n, ips |-> {}]
  ELSE [status |-> IF alertLeft = 0 THEN "block" ELSE "cooldown",
        count |-> n, ips |-> ips]

(* The whole script, run for address i: purge, add, renew, count, decide.   *)
(* The purge also drops the node of an address that returns after its TTL   *)
(* ran out, which the caller has just written.                              *)
RunScript(i) ==
  /\ members' = LiveMembers \cup {i}
  /\ setLeft' = SetExpiry
  /\ ttlLeft' = [ttlLeft EXCEPT ![i] = ttl]
  /\ nodeLeft' = [j \in IPs |->
                    IF j \in members \ LiveMembers THEN 0 ELSE nodeLeft[j]]
  /\ alertLeft' = IF Verdict(LiveMembers \cup {i}).status = "block"
                  THEN Cooldown ELSE alertLeft

--------------------------------------------------------------------------
(* A log worker on an entry of the user *)

(* SetIPNode; its failure is only logged. *)
BindIP(c, i) ==
  /\ client[c].pc = "idle"
  /\ client' = [client EXCEPT ![c].pc = "bound", ![c].ips = {i}]
  /\ \/ nodeLeft' = [nodeLeft EXCEPT ![i] = ttl]
     \/ LossyReplies /\ UNCHANGED nodeLeft
  /\ UNCHANGED <<members, setLeft, ttlLeft, alertLeft, ttl, answer, keeper>>

CheckAndAddIP(c) ==
  /\ client[c].pc = "bound"
  /\ \E i \in client[c].ips :
       /\ RunScript(i)
       /\ answer' = [answer EXCEPT ![c] = Verdict(LiveMembers \cup {i})]
  /\ client' = [client EXCEPT ![c].pc = "answered", ![c].ips = {}]
  /\ UNCHANGED <<ttl, keeper>>

(* The script ran and its reply was lost: go-redis sends it again, or gives *)
(* up and the entry is dropped.                                             *)
LoseReply(c) ==
  /\ LossyReplies
  /\ client[c].pc = "bound"
  /\ \E i \in client[c].ips : RunScript(i)
  /\ client' \in {client, [client EXCEPT ![c] = Idle]}
  /\ UNCHANGED <<ttl, answer, keeper>>

(* The script did not run; the entry is dropped. *)
FailScript(c) ==
  /\ LossyReplies
  /\ client[c].pc = "bound"
  /\ client' = [client EXCEPT ![c] = Idle]
  /\ UNCHANGED <<keys, ttl, answer, keeper>>

FinishEntry(c) ==
  /\ client[c].pc = "answered"
  /\ client' = [client EXCEPT ![c] = Idle]
  /\ answer' = [answer EXCEPT ![c] = NoAnswer]
  /\ UNCHANGED <<keys, ttl, keeper>>

--------------------------------------------------------------------------
(* The details page: GetUserActiveIPs in two round trips, then SetIPNode    *)
(* for listed addresses whose stored node is missing or outdated            *)

ReadMembers(c) ==
  /\ client[c].pc = "idle"
  /\ members # {}
  /\ client' = [client EXCEPT ![c].pc = "names", ![c].ips = members]
  /\ UNCHANGED <<keys, ttl, answer, keeper>>

ReadTTLs(c) ==
  /\ client[c].pc = "names"
  /\ LET listed == {i \in client[c].ips : ttlLeft[i] > 0} IN
       client' = [client EXCEPT ![c] =
                    [pc |-> "listed", ips |-> listed,
                     left |-> [i \in IPs |-> IF i \in listed THEN ttlLeft[i] ELSE 0]]]
  /\ UNCHANGED <<keys, ttl, answer, keeper>>

RepairNode(c, i) ==
  /\ client[c].pc = "listed"
  /\ i \in client[c].ips
  /\ nodeLeft' = [nodeLeft EXCEPT ![i] = client[c].left[i]]
  /\ client' = [client EXCEPT ![c].ips = @ \ {i}]
  /\ UNCHANGED <<members, setLeft, ttlLeft, alertLeft, ttl, answer, keeper>>

(* The page is answered, or a command failed and it is an error. *)
FinishPage(c) ==
  /\ client[c].pc \in {"names", "listed"}
  /\ client[c].pc = "names" => LossyReplies
  /\ client' = [client EXCEPT ![c] = Idle]
  /\ UNCHANGED <<keys, ttl, answer, keeper>>

--------------------------------------------------------------------------
(* Clearing, configuration, time *)

FaultyCleared == ttlLeft

Cleared == [i \in IPs |-> IF i \in members THEN 0 ELSE ttlLeft[i]]

(* The clear script, run by the delayed clear after a block or by the       *)
(* administrator.  It deletes what belongs to the members; the alert        *)
(* cooldown stays.                                                          *)
ClearUserIPs ==
  /\ Clearing
  /\ members' = {}
  /\ setLeft' = 0
  /\ ttlLeft' = Cleared
  /\ nodeLeft' = [i \in IPs |-> IF i \in members THEN 0 ELSE nodeLeft[i]]
  /\ UNCHANGED <<alertLeft, ttl, client, answer, keeper>>

(* applyRuntimeOverrides writes cfg.UserIPTTL. *)
ChangeTTL(t) ==
  /\ ttl' = t
  /\ UNCHANGED <<keys, client, answer, keeper>>

FaultyDecrement(n) == n - 1

Decrement(n) == IF n = 0 THEN 0 ELSE n - 1

(* One tick of Redis' clock. *)
Tick ==
  /\ members' = IF setLeft = 1 THEN {} ELSE members
  /\ setLeft' = Decrement(setLeft)
  /\ ttlLeft' = [i \in IPs |-> Decrement(ttlLeft[i])]
  /\ nodeLeft' = [i \in IPs |-> Decrement(nodeLeft[i])]
  /\ alertLeft' = Decrement(alertLeft)
  /\ UNCHANGED <<ttl, client, answer, keeper>>

--------------------------------------------------------------------------
(* Housekeeping: CleanupOrphanMappings and cleanupByPattern *)

(* The keys of the current rule, and their replacement. *)
RuleLeft == IF keeper.rule = "node" THEN nodeLeft ELSE ttlLeft

SetRuleLeft(f) ==
  IF keeper.rule = "node" THEN nodeLeft' = f /\ UNCHANGED ttlLeft
                          ELSE ttlLeft' = f /\ UNCHANGED nodeLeft

(* After a batch: the next SCAN, the next rule while the budget lasts, or   *)
(* the end.                                                                 *)
NextBatch(k) ==
  IF k.more /\ k.scanned < MaxKeys
  THEN [k EXCEPT !.pc = "scan", !.stale = {}, !.live = {}]
  ELSE IF k.rule = "node" /\ k.scanned < MaxKeys
  THEN [k EXCEPT !.pc = "scan", !.rule = "ttl", !.stale = {}, !.live = {}]
  ELSE NoPass

StartHousekeeping ==
  /\ Housekeeping
  /\ keeper.pc = "idle"
  /\ keeper' = [NoPass EXCEPT !.pc = "scan", !.enforce = ttl]
  /\ UNCHANGED <<keys, ttl, client, answer>>

FaultyWithinBudget(n) == TRUE

(* A pass looks at no more than MaxKeys keys. *)
WithinBudget(n) == n <= MaxKeys

(* SCAN returns some of the keys there are, in batches. *)
ScanKeys ==
  /\ keeper.pc = "scan"
  /\ \E batch \in SUBSET {i \in IPs : RuleLeft[i] > 0}, more \in BOOLEAN :
       LET n == keeper.scanned + Cardinality(batch)
           k == [keeper EXCEPT !.more = more, !.scanned = n] IN
       /\ WithinBudget(n)
       /\ keeper' = IF batch = {} THEN NextBatch(k)
                    ELSE [k EXCEPT !.pc = "members", !.live = batch]
  /\ UNCHANGED <<keys, ttl, client, answer>>

(* SISMEMBER tells the orphans of the batch from the rest. *)
CheckMembers ==
  /\ keeper.pc = "members"
  /\ keeper' = [keeper EXCEPT !.pc = "delete", !.stale = keeper.live \ members,
                              !.live = keeper.live \cap members]
  /\ UNCHANGED <<keys, ttl, client, answer>>

DeleteOrphans ==
  /\ keeper.pc = "delete"
  /\ SetRuleLeft([i \in IPs |-> IF i \in keeper.stale THEN 0 ELSE RuleLeft[i]])
  /\ keeper' = IF keeper.live = {} THEN NextBatch(keeper)
               ELSE [keeper EXCEPT !.pc = "ttls", !.stale = {}]
  /\ UNCHANGED <<members, setLeft, alertLeft, ttl, client, answer>>

(* TTL of the others: those above the configured time are to be cut.        *)
(* Every key of this program has a TTL, so the repair of keys without one   *)
(* never applies.                                                           *)
ReadKeyTTLs ==
  /\ keeper.pc = "ttls"
  /\ LET long == {i \in keeper.live : RuleLeft[i] > keeper.enforce} IN
       keeper' = IF long = {} THEN NextBatch(keeper)
                 ELSE [keeper EXCEPT !.pc = "expire", !.live = long]
  /\ UNCHANGED <<keys, ttl, client, answer>>

(* EXPIRE sets the time left of a key that exists, whatever it is by then. *)
CutTTLs ==
  /\ keeper.pc = "expire"
  /\ SetRuleLeft([i \in IPs |-> IF i \in keeper.live /\ RuleLeft[i] > 0
                                THEN keeper.enforce ELSE RuleLeft[i]])
  /\ keeper' = NextBatch(keeper)
  /\ UNCHANGED <<members, setLeft, alertLeft, ttl, client, answer>>

(* A command failed: the pass is given up. *)
AbandonPass ==
  /\ LossyReplies
  /\ keeper.pc # "idle"
  /\ keeper' = NoPass
  /\ UNCHANGED <<keys, ttl, client, answer>>

--------------------------------------------------------------------------
Init ==
  /\ members = {}
  /\ setLeft = 0
  /\ ttlLeft = [i \in IPs |-> 0]
  /\ nodeLeft = [i \in IPs |-> 0]
  /\ alertLeft = 0
  /\ ttl \in TTLs
  /\ client = [c \in Clients |-> Idle]
  /\ answer = [c \in Clients |-> NoAnswer]
  /\ keeper = NoPass

ClientStep(c) ==
  \/ \E i \in IPs : BindIP(c, i) \/ RepairNode(c, i)
  \/ CheckAndAddIP(c) \/ LoseReply(c) \/ FailScript(c) \/ FinishEntry(c)
  \/ ReadMembers(c) \/ ReadTTLs(c) \/ FinishPage(c)

HousekeepingStep ==
  \/ StartHousekeeping \/ ScanKeys \/ CheckMembers \/ DeleteOrphans
  \/ ReadKeyTTLs \/ CutTTLs \/ AbandonPass

Next ==
  \/ \E c \in Clients : ClientStep(c)
  \/ \E t \in TTLs : ChangeTTL(t)
  \/ ClearUserIPs
  \/ Tick
  \/ HousekeepingStep

Spec == Init /\ [][Next]_vars

(* Time passes. *)
FairSpec == Spec /\ WF_vars(Tick)

--------------------------------------------------------------------------
(* Properties *)

OneTTL == \A s, t \in TTLs : s = t

(* user_ips never lacks an expiry, and, unless the TTL is changed at run    *)
(* time, it outlives the ip_ttl key of every address and holds it: the set  *)
(* and the per-address keys expire on their own and never disagree in the   *)
(* direction that loses a live address.                                     *)
SetOutlivesAddresses ==
  /\ members # {} => setLeft > 0
  /\ OneTTL => \A i \in IPs : ttlLeft[i] > 0 => i \in members /\ ttlLeft[i] <= setLeft

(* What counts is a member whose ip_ttl key exists. *)
Counted == [i \in IPs |-> IF i \in members THEN ttlLeft[i] ELSE 0]

(* With one TTL and no housekeeping the registry is exactly the window of   *)
(* AddressWindow: SADD, the purge, the two expiries and the clear, in any   *)
(* order and with replies lost, count the addresses recorded within their   *)
(* TTL since the last clear, and answer "block" at most once per cooldown.  *)
(* Housekeeping and changes of the TTL can only make it forget early; both  *)
(* together can also give an address another time left.                     *)
AW == INSTANCE AddressWindow WITH
  window <- Counted, cooling <- alertLeft,
  MayForget <- Housekeeping \/ ~OneTTL,
  MayRetime <- Housekeeping /\ ~OneTTL

Window == AW!Spec

(* When nobody asks about the user any more, every key is gone in the end:  *)
(* no path leaves a key without an expiry or renews one for ever.           *)
SilentUserForgotten ==
  <>[](\A c \in Clients : client[c].pc = "idle")
    => <>[](members = {} /\ \A i \in IPs : ttlLeft[i] = 0 /\ nodeLeft[i] = 0)

(* What the comment of SetIPNode says: the node of an address is stored for *)
(* the TTL.  Recording the address, the next step of the same entry, should *)
(* not remove it.                                                           *)
RecordingKeepsNode ==
  [][\A c \in Clients : CheckAndAddIP(c) =>
       \A i \in client[c].ips : nodeLeft[i] > 0 => nodeLeft'[i] > 0]_vars

(* What the comment of CleanupOrphanMappings says: only keys whose address  *)
(* is no longer in user_ips are deleted.                                    *)
HousekeepingSparesMembers ==
  [][DeleteOrphans =>
       \A i \in keeper.stale : RuleLeft[i] > 0 => i \notin members]_vars
===========================================================================
