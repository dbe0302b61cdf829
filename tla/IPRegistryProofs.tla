------------------------- MODULE IPRegistryProofs -------------------------
(***************************************************************************)
(* Proofs about IPRegistry, for every set of addresses and clients, every  *)
(* TTL, limit, cooldown and housekeeping budget: the expiries of the set   *)
(* and of the addresses in it agree, and the registry implements the       *)
(* window of AddressWindow.                                                *)
(*                                                                         *)
(* The inductive invariant adds to SetOutlivesAddresses that no address    *)
(* has more time left than the TTL, so that housekeeping has nothing to    *)
(* cut, and what a housekeeping pass carries.                              *)
(***************************************************************************)
EXTENDS IPRegistry, FiniteSetTheorems, TLAPS

KeeperInv ==
  /\ keeper.pc # "idle" => Housekeeping /\ keeper.enforce \in TTLs
  /\ OneTTL => ~(keeper.pc = "expire" /\ keeper.rule = "ttl")

KeysInv ==
  /\ SetOutlivesAddresses
  /\ OneTTL => \A i \in IPs : ttlLeft[i] <= ttl

Inv == TypeOK /\ KeysInv /\ KeeperInv

--------------------------------------------------------------------------
(* Operators *)

(* Every TTL the configuration may have is a positive number. *)
LEMMA TTLPositive == \A t \in TTLs : t \in Nat /\ t > 0
  BY RegistryAssumption

(* An answer is well formed whatever addresses it counts. *)
LEMMA VerdictType ==
  ASSUME NEW ips \in SUBSET IPs
  PROVE  Verdict(ips) \in Answers
<1>1. Cardinality(ips) \in Nat
  BY RegistryAssumption, FS_Subset, FS_CardinalityType
<1>2. QED
  BY <1>1 DEF Verdict, Answers

(* No pass is a pass, and one starts from it. *)
LEMMA NoPassType ==
  /\ NoPass \in Pass
  /\ NoPass.pc = "idle"
  /\ \A t \in Nat : [NoPass EXCEPT !.pc = "scan", !.enforce = t] \in Pass
<1>1. 0 \in 0..MaxKeys
  BY RegistryAssumption
<1>2. QED
  BY <1>1 DEF NoPass, Pass

(* A pass that goes on after a batch is a pass, in its own rule or the      *)
(* next, with the same budget and TTL; it is never about to cut.            *)
LEMMA NextBatchPass ==
  ASSUME NEW k \in Pass
  PROVE  /\ NextBatch(k) \in Pass
         /\ NextBatch(k).pc \in {"idle", "scan"}
         /\ NextBatch(k).pc = "scan" => NextBatch(k).enforce = k.enforce
  BY NoPassType DEF NextBatch, Pass

(* A pass that counts a batch is a pass. *)
LEMMA CountBatch ==
  ASSUME NEW k \in Pass, NEW more \in BOOLEAN, NEW n \in 0..MaxKeys
  PROVE  /\ [k EXCEPT !.more = more, !.scanned = n] \in Pass
         /\ [k EXCEPT !.more = more, !.scanned = n].enforce = k.enforce
  BY DEF Pass

(* The script keeps the keys well typed. *)
LEMMA ScriptType ==
  ASSUME TypeOK, NEW i \in IPs, RunScript(i)
  PROVE  /\ members' \subseteq IPs
         /\ setLeft' \in Nat
         /\ ttlLeft' \in [IPs -> Nat]
         /\ nodeLeft' \in [IPs -> Nat]
         /\ alertLeft' \in Nat
  BY TTLPositive, RegistryAssumption
     DEF TypeOK, RunScript, SetExpiry, LiveMembers

(* The script renews the set for as long as the longest-lived address.      *)
LEMMA ScriptKeys ==
  ASSUME Inv, NEW i \in IPs, RunScript(i), ttl' = ttl
  PROVE  KeysInv'
<1>1. members' = LiveMembers \cup {i} /\ setLeft' = ttl
      /\ ttlLeft' = [ttlLeft EXCEPT ![i] = ttl]
  BY DEF RunScript, SetExpiry
<1>2. setLeft' > 0
  BY <1>1, TTLPositive DEF Inv, TypeOK
<1>3. ASSUME OneTTL, NEW j \in IPs
      PROVE  /\ ttlLeft'[j] <= ttl'
             /\ ttlLeft'[j] > 0 => j \in members' /\ ttlLeft'[j] <= setLeft'
  <2>1. ttl \in Nat
    BY TTLPositive DEF Inv, TypeOK
  <2>2. CASE j = i
    BY <1>1, <2>1, <2>2 DEF Inv, TypeOK
  <2>3. CASE j # i
    BY <1>1, <1>3, <2>3
       DEF Inv, TypeOK, KeysInv, SetOutlivesAddresses, LiveMembers
  <2>4. QED
    BY <2>2, <2>3
<1>4. QED
  BY <1>2, <1>3 DEF KeysInv, SetOutlivesAddresses, OneTTL

(* The keys rule of the keys a pass may change, for any keys they become.   *)
LEMMA RuleLeftType ==
  ASSUME TypeOK
  PROVE  RuleLeft \in [IPs -> Nat]
  BY DEF TypeOK, RuleLeft

--------------------------------------------------------------------------
(* Type correctness *)

LEMMA ClientTypes ==
  ASSUME Inv, NEW c \in Clients, ClientStep(c)
  PROVE  TypeOK'
<1> USE DEF Inv
<1>1. ASSUME NEW i \in IPs, BindIP(c, i) PROVE TypeOK'
  <2>1. /\ UNCHANGED <<members, setLeft, ttlLeft, alertLeft, ttl, answer, keeper>>
        /\ client' = [client EXCEPT ![c].pc = "bound", ![c].ips = {i}]
        /\ nodeLeft' = [nodeLeft EXCEPT ![i] = ttl] \/ nodeLeft' = nodeLeft
    BY <1>1 DEF BindIP
  <2>2. client' \in [Clients -> Client]
    <3>1. client \in [Clients -> Client] /\ [client[c] EXCEPT !.pc = "bound", !.ips = {i}] \in Client
      BY DEF TypeOK, Client
    <3>2. client' = [client EXCEPT ![c] = [client[c] EXCEPT !.pc = "bound", !.ips = {i}]]
      BY <2>1, <3>1
    <3>3. QED
      BY <3>1, <3>2
  <2>3. nodeLeft' \in [IPs -> Nat]
    BY <2>1, TTLPositive DEF TypeOK
  <2>4. QED
    BY <2>1, <2>2, <2>3 DEF TypeOK
<1>2. ASSUME NEW i \in IPs, RepairNode(c, i) PROVE TypeOK'
  BY <1>2 DEF TypeOK, RepairNode, Client
<1>3. ASSUME CheckAndAddIP(c) PROVE TypeOK'
  <2>1. PICK i \in client[c].ips :
          RunScript(i) /\ answer' = [answer EXCEPT ![c] = Verdict(LiveMembers \cup {i})]
    BY <1>3 DEF CheckAndAddIP
  <2>2. i \in IPs
    BY DEF TypeOK, Client
  <2>3. Verdict(LiveMembers \cup {i}) \in Answers
    BY <2>2, VerdictType DEF TypeOK, LiveMembers
  <2>4. answer' \in [Clients -> Answers]
    BY <2>1, <2>3 DEF TypeOK
  <2>5. client' \in [Clients -> Client]
    BY <1>3 DEF TypeOK, CheckAndAddIP, Client
  <2>6. QED
    BY <1>3, <2>1, <2>2, <2>4, <2>5, ScriptType DEF TypeOK, CheckAndAddIP
<1>4. ASSUME LoseReply(c) PROVE TypeOK'
  <2>1. PICK i \in client[c].ips : RunScript(i)
    BY <1>4 DEF LoseReply
  <2>2. i \in IPs
    BY DEF TypeOK, Client
  <2>3. client' \in [Clients -> Client]
    BY <1>4 DEF TypeOK, LoseReply, Client, Idle
  <2>4. QED
    BY <1>4, <2>1, <2>2, <2>3, ScriptType DEF TypeOK, LoseReply
<1>5. ASSUME FailScript(c) PROVE TypeOK'
  BY <1>5 DEF TypeOK, FailScript, Client, Idle, keys
<1>6. ASSUME FinishEntry(c) PROVE TypeOK'
  <2>1. client' \in [Clients -> Client]
    BY <1>6 DEF TypeOK, FinishEntry, Client, Idle
  <2>2. answer' \in [Clients -> Answers]
    BY <1>6 DEF TypeOK, FinishEntry, Answers, NoAnswer
  <2>3. QED
    BY <1>6, <2>1, <2>2 DEF TypeOK, FinishEntry, keys
<1>7. ASSUME ReadMembers(c) PROVE TypeOK'
  <2>1. client \in [Clients -> Client] /\ [client[c] EXCEPT !.pc = "names", !.ips = members] \in Client
    BY DEF TypeOK, Client
  <2>2. client' = [client EXCEPT ![c] = [client[c] EXCEPT !.pc = "names", !.ips = members]]
    BY <1>7, <2>1 DEF ReadMembers
  <2>3. client' \in [Clients -> Client]
    BY <2>1, <2>2
  <2>4. QED
    BY <1>7, <2>3 DEF TypeOK, ReadMembers, keys
<1>8. ASSUME ReadTTLs(c) PROVE TypeOK'
  BY <1>8 DEF TypeOK, ReadTTLs, Client, keys
<1>9. ASSUME FinishPage(c) PROVE TypeOK'
  BY <1>9 DEF TypeOK, FinishPage, Client, Idle, keys
<1>10. QED
  BY <1>1, <1>2, <1>3, <1>4, <1>5, <1>6, <1>7, <1>8, <1>9 DEF ClientStep

LEMMA HousekeepingTypes ==
  ASSUME Inv, HousekeepingStep
  PROVE  TypeOK'
<1> USE DEF Inv
<1>1. ASSUME StartHousekeeping PROVE TypeOK'
  BY <1>1, TTLPositive, NoPassType DEF TypeOK, StartHousekeeping, keys
<1>2. ASSUME ScanKeys PROVE TypeOK'
  <2>1. PICK batch \in SUBSET {i \in IPs : RuleLeft[i] > 0}, more \in BOOLEAN :
          LET n == keeper.scanned + Cardinality(batch)
              k == [keeper EXCEPT !.more = more, !.scanned = n] IN
          /\ WithinBudget(n)
          /\ keeper' = IF batch = {} THEN NextBatch(k)
                       ELSE [k EXCEPT !.pc = "members", !.live = batch]
    BY <1>2 DEF ScanKeys
  <2> DEFINE n == keeper.scanned + Cardinality(batch)
             k == [keeper EXCEPT !.more = more, !.scanned = n]
  <2>2. n \in 0..MaxKeys
    <3>1. Cardinality(batch) \in Nat
      BY RegistryAssumption, FS_Subset, FS_CardinalityType
    <3>2. n <= MaxKeys
      BY <2>1 DEF WithinBudget
    <3>3. QED
      BY <3>1, <3>2, RegistryAssumption DEF TypeOK, Pass
  <2>3. k \in Pass
    BY <2>2, CountBatch DEF TypeOK
  <2>4. [k EXCEPT !.pc = "members", !.live = batch] \in Pass
    BY <2>3 DEF Pass
  <2>5. keeper' \in Pass
    BY <2>1, <2>3, <2>4, NextBatchPass
  <2>6. QED
    BY <1>2, <2>5 DEF TypeOK, ScanKeys, keys
<1>3. ASSUME CheckMembers PROVE TypeOK'
  BY <1>3 DEF TypeOK, CheckMembers, Pass, keys
<1>4. ASSUME DeleteOrphans PROVE TypeOK'
  <2>1. ttlLeft' \in [IPs -> Nat] /\ nodeLeft' \in [IPs -> Nat]
    BY <1>4, RuleLeftType DEF TypeOK, DeleteOrphans, SetRuleLeft
  <2>2. keeper' \in Pass
    BY <1>4, NextBatchPass DEF TypeOK, DeleteOrphans, Pass
  <2>3. QED
    BY <1>4, <2>1, <2>2 DEF TypeOK, DeleteOrphans
<1>5. ASSUME ReadKeyTTLs PROVE TypeOK'
  <2>1. keeper' \in Pass
    BY <1>5, NextBatchPass DEF TypeOK, ReadKeyTTLs, Pass
  <2>2. QED
    BY <1>5, <2>1 DEF TypeOK, ReadKeyTTLs, keys
<1>6. ASSUME CutTTLs PROVE TypeOK'
  <2>1. keeper.enforce \in Nat
    BY DEF TypeOK, Pass
  <2>2. ttlLeft' \in [IPs -> Nat] /\ nodeLeft' \in [IPs -> Nat]
    BY <1>6, <2>1, RuleLeftType DEF TypeOK, CutTTLs, SetRuleLeft
  <2>3. QED
    BY <1>6, <2>2, NextBatchPass DEF TypeOK, CutTTLs
<1>7. ASSUME AbandonPass PROVE TypeOK'
  BY <1>7, NoPassType DEF TypeOK, AbandonPass, keys
<1>8. QED
  BY <1>1, <1>2, <1>3, <1>4, <1>5, <1>6, <1>7 DEF HousekeepingStep

(* What the administrator and the clock do. *)
OutsideStep == ClearUserIPs \/ Tick \/ \E t \in TTLs : ChangeTTL(t)

LEMMA OutsideTypes ==
  ASSUME Inv, OutsideStep
  PROVE  TypeOK'
<1>1. ASSUME ClearUserIPs PROVE TypeOK'
  BY <1>1 DEF Inv, TypeOK, ClearUserIPs, Cleared
<1>2. ASSUME Tick PROVE TypeOK'
  BY <1>2 DEF Inv, TypeOK, Tick, Decrement
<1>3. ASSUME NEW t \in TTLs, ChangeTTL(t) PROVE TypeOK'
  BY <1>3 DEF Inv, TypeOK, ChangeTTL, keys
<1>4. QED
  BY <1>1, <1>2, <1>3 DEF OutsideStep

--------------------------------------------------------------------------
(* The keys *)

LEMMA ClientKeys ==
  ASSUME Inv, NEW c \in Clients, ClientStep(c)
  PROVE  KeysInv'
<1>1. CASE CheckAndAddIP(c) \/ LoseReply(c)
  <2>1. PICK i \in client[c].ips : RunScript(i)
    BY <1>1 DEF CheckAndAddIP, LoseReply
  <2>2. i \in IPs /\ ttl' = ttl
    BY <1>1 DEF Inv, TypeOK, Client, CheckAndAddIP, LoseReply
  <2>3. QED
    BY <2>1, <2>2, ScriptKeys
<1>2. CASE ~(CheckAndAddIP(c) \/ LoseReply(c))
  <2>1. UNCHANGED <<members, setLeft, ttlLeft, ttl>>
    BY <1>2 DEF ClientStep, BindIP, RepairNode, FailScript, FinishEntry,
                ReadMembers, ReadTTLs, FinishPage, keys
  <2>2. QED
    BY <2>1 DEF Inv, KeysInv, SetOutlivesAddresses, OneTTL
<1>3. QED
  BY <1>1, <1>2

LEMMA HousekeepingKeys ==
  ASSUME Inv, HousekeepingStep
  PROVE  KeysInv'
<1>1. CASE DeleteOrphans
  <2>1. \A i \in IPs : ttlLeft'[i] \in {0, ttlLeft[i]}
    BY <1>1 DEF Inv, TypeOK, DeleteOrphans, SetRuleLeft, RuleLeft
  <2>2. UNCHANGED <<members, setLeft, ttl>>
    BY <1>1 DEF DeleteOrphans
  <2>3. 0 <= ttl
    BY TTLPositive DEF Inv, TypeOK
  <2>4. QED
    BY <2>1, <2>2, <2>3 DEF Inv, KeysInv, SetOutlivesAddresses, OneTTL
<1>2. CASE CutTTLs
  <2>1. OneTTL => ttlLeft' = ttlLeft
    BY <1>2 DEF Inv, TypeOK, Pass, KeeperInv, CutTTLs, SetRuleLeft
  <2>2. UNCHANGED <<members, setLeft, ttl>>
    BY <1>2 DEF CutTTLs
  <2>3. QED
    BY <2>1, <2>2 DEF Inv, KeysInv, SetOutlivesAddresses, OneTTL
<1>3. CASE ~(DeleteOrphans \/ CutTTLs)
  <2>1. UNCHANGED <<members, setLeft, ttlLeft, ttl>>
    BY <1>3 DEF HousekeepingStep, StartHousekeeping, ScanKeys, CheckMembers,
                ReadKeyTTLs, AbandonPass, keys
  <2>2. QED
    BY <2>1 DEF Inv, KeysInv, SetOutlivesAddresses, OneTTL
<1>4. QED
  BY <1>1, <1>2, <1>3

LEMMA OutsideKeys ==
  ASSUME Inv, OutsideStep
  PROVE  KeysInv'
<1>1. CASE ClearUserIPs
  <2>1. members' = {} /\ setLeft' = 0 /\ ttl' = ttl
        /\ ttlLeft' = [i \in IPs |-> IF i \in members THEN 0 ELSE ttlLeft[i]]
    BY <1>1 DEF ClearUserIPs, Cleared
  <2>2. OneTTL => \A i \in IPs : ttlLeft'[i] = 0
    BY <2>1 DEF Inv, TypeOK, KeysInv, SetOutlivesAddresses
  <2>3. 0 <= ttl
    BY TTLPositive DEF Inv, TypeOK
  <2>4. QED
    BY <2>1, <2>2, <2>3 DEF KeysInv, SetOutlivesAddresses, OneTTL
<1>2. CASE Tick
  <2>1. members # {} => setLeft > 0
    BY DEF Inv, KeysInv, SetOutlivesAddresses
  <2>2. members' # {} => setLeft' > 0
    BY <1>2, <2>1 DEF Inv, TypeOK, Tick, Decrement
  <2>3. ASSUME OneTTL, NEW i \in IPs
        PROVE  /\ ttlLeft'[i] <= ttl'
               /\ ttlLeft'[i] > 0 => i \in members' /\ ttlLeft'[i] <= setLeft'
    <3>1. /\ ttlLeft[i] <= ttl
          /\ ttlLeft[i] > 0 => i \in members /\ ttlLeft[i] <= setLeft
      BY <2>3 DEF Inv, KeysInv, SetOutlivesAddresses
    <3>2. ttl \in Nat /\ ttlLeft[i] \in Nat /\ setLeft \in Nat
      BY TTLPositive DEF Inv, TypeOK
    <3>3. /\ ttl' = ttl
          /\ ttlLeft'[i] = IF ttlLeft[i] = 0 THEN 0 ELSE ttlLeft[i] - 1
          /\ setLeft' = IF setLeft = 0 THEN 0 ELSE setLeft - 1
          /\ members' = IF setLeft = 1 THEN {} ELSE members
      BY <1>2 DEF Tick, Decrement
    <3>4. QED
      BY <3>1, <3>2, <3>3
  <2>4. QED
    BY <2>2, <2>3 DEF KeysInv, SetOutlivesAddresses, OneTTL
<1>3. ASSUME NEW t \in TTLs, ChangeTTL(t) PROVE KeysInv'
  <2>1. OneTTL => ttl' = ttl
    BY <1>3 DEF Inv, TypeOK, OneTTL, ChangeTTL
  <2>2. UNCHANGED <<members, setLeft, ttlLeft>>
    BY <1>3 DEF ChangeTTL, keys
  <2>3. QED
    BY <2>1, <2>2 DEF Inv, KeysInv, SetOutlivesAddresses, OneTTL
<1>4. QED
  BY <1>1, <1>2, <1>3 DEF OutsideStep

--------------------------------------------------------------------------
(* The housekeeping pass *)

LEMMA HousekeepingPass ==
  ASSUME Inv, HousekeepingStep
  PROVE  KeeperInv'
<1> USE DEF Inv
<1>0. keeper \in Pass
  BY DEF TypeOK
<1>1. ASSUME StartHousekeeping PROVE KeeperInv'
  BY <1>1 DEF TypeOK, KeeperInv, StartHousekeeping, NoPass
<1>2. ASSUME ScanKeys PROVE KeeperInv'
  <2>1. PICK batch \in SUBSET {i \in IPs : RuleLeft[i] > 0}, more \in BOOLEAN :
          LET n == keeper.scanned + Cardinality(batch)
              k == [keeper EXCEPT !.more = more, !.scanned = n] IN
          /\ WithinBudget(n)
          /\ keeper' = IF batch = {} THEN NextBatch(k)
                       ELSE [k EXCEPT !.pc = "members", !.live = batch]
    BY <1>2 DEF ScanKeys
  <2> DEFINE n == keeper.scanned + Cardinality(batch)
             k == [keeper EXCEPT !.more = more, !.scanned = n]
  <2>2. n \in 0..MaxKeys
    <3>1. Cardinality(batch) \in Nat
      BY RegistryAssumption, FS_Subset, FS_CardinalityType
    <3>2. n <= MaxKeys
      BY <2>1 DEF WithinBudget
    <3>3. QED
      BY <3>1, <3>2, RegistryAssumption DEF TypeOK, Pass
  <2>3. k \in Pass /\ k.enforce = keeper.enforce
    BY <1>0, <2>2, CountBatch
  <2>4. [k EXCEPT !.pc = "members", !.live = batch].pc = "members"
        /\ [k EXCEPT !.pc = "members", !.live = batch].enforce = keeper.enforce
    BY <1>0 DEF Pass
  <2>5. keeper'.pc \in {"idle", "scan", "members"}
        /\ (keeper'.pc # "idle" => keeper'.enforce = keeper.enforce)
    BY <2>1, <2>3, <2>4, NextBatchPass
  <2>6. keeper.pc = "scan"
    BY <1>2 DEF ScanKeys
  <2>7. QED
    BY <2>5, <2>6 DEF KeeperInv
<1>3. ASSUME CheckMembers PROVE KeeperInv'
  BY <1>0, <1>3 DEF KeeperInv, CheckMembers, Pass
<1>4. ASSUME DeleteOrphans PROVE KeeperInv'
  <2>1. CASE keeper.live = {}
    BY <1>0, <1>4, <2>1, NextBatchPass DEF KeeperInv, DeleteOrphans
  <2>2. CASE keeper.live # {}
    BY <1>0, <1>4, <2>2 DEF KeeperInv, DeleteOrphans, Pass
  <2>3. QED
    BY <2>1, <2>2
<1>5. ASSUME ReadKeyTTLs PROVE KeeperInv'
  <2> DEFINE long == {i \in keeper.live : RuleLeft[i] > keeper.enforce}
  <2>1. CASE long = {}
    BY <1>0, <1>5, <2>1, NextBatchPass DEF KeeperInv, ReadKeyTTLs
  <2>2. CASE long # {}
    <3>1. keeper' = [keeper EXCEPT !.pc = "expire", !.live = long]
      BY <1>5, <2>2 DEF ReadKeyTTLs
    <3>2. keeper.pc = "ttls"
      BY <1>5 DEF ReadKeyTTLs
    <3>3. ASSUME OneTTL, keeper.rule = "ttl" PROVE FALSE
      <4>1. keeper.enforce = ttl
        BY <3>2, <3>3 DEF KeeperInv, TypeOK, OneTTL
      <4>2. PICK i \in keeper.live : ttlLeft[i] > keeper.enforce
        BY <2>2, <3>3 DEF RuleLeft
      <4>3. i \in IPs /\ ttlLeft[i] <= ttl
        BY <1>0, <3>3 DEF Pass, KeysInv
      <4>4. ttl \in Nat /\ ttlLeft[i] \in Nat
        BY <4>3, TTLPositive DEF TypeOK
      <4>5. QED
        BY <4>1, <4>2, <4>3, <4>4
    <3>4. keeper'.rule = keeper.rule /\ keeper'.enforce = keeper.enforce
      BY <1>0, <3>1 DEF Pass
    <3>5. QED
      BY <3>2, <3>3, <3>4 DEF KeeperInv, OneTTL
  <2>3. QED
    BY <2>1, <2>2
<1>6. ASSUME CutTTLs PROVE KeeperInv'
  BY <1>0, <1>6, NextBatchPass DEF KeeperInv, CutTTLs
<1>7. ASSUME AbandonPass PROVE KeeperInv'
  BY <1>7 DEF KeeperInv, AbandonPass, NoPass
<1>8. QED
  BY <1>1, <1>2, <1>3, <1>4, <1>5, <1>6, <1>7 DEF HousekeepingStep

(* Nobody else touches the pass. *)
LEMMA OthersPass ==
  ASSUME Inv, OutsideStep \/ \E c \in Clients : ClientStep(c)
  PROVE  KeeperInv'
<1>1. keeper' = keeper
  BY DEF OutsideStep, ClearUserIPs, Tick, ChangeTTL, ClientStep, BindIP,
         RepairNode, CheckAndAddIP, LoseReply, FailScript, FinishEntry,
         ReadMembers, ReadTTLs, FinishPage
<1>2. QED
  BY <1>1 DEF Inv, KeeperInv, OneTTL

--------------------------------------------------------------------------
(* The invariant *)

LEMMA Establishes == Init => Inv
<1> SUFFICES ASSUME Init PROVE Inv
  OBVIOUS
<1>1. TypeOK
  BY NoPassType DEF Init, TypeOK, Client, Idle, Answers, NoAnswer
<1>2. KeysInv
  BY <1>1, TTLPositive DEF Init, TypeOK, KeysInv, SetOutlivesAddresses
<1>3. KeeperInv
  BY DEF Init, KeeperInv, NoPass
<1>4. QED
  BY <1>1, <1>2, <1>3 DEF Inv

LEMMA Preserves == Inv /\ [Next]_vars => Inv'
<1> SUFFICES ASSUME Inv, [Next]_vars PROVE Inv'
  OBVIOUS
<1>1. ASSUME NEW c \in Clients, ClientStep(c) PROVE Inv'
  BY <1>1, ClientTypes, ClientKeys, OthersPass DEF Inv
<1>2. CASE HousekeepingStep
  BY <1>2, HousekeepingTypes, HousekeepingKeys, HousekeepingPass DEF Inv
<1>3. CASE OutsideStep
  BY <1>3, OutsideTypes, OutsideKeys, OthersPass DEF Inv
<1>4. CASE UNCHANGED vars
  BY <1>4 DEF vars, Inv, TypeOK, KeysInv, SetOutlivesAddresses, KeeperInv,
              OneTTL, RuleLeft
<1>5. QED
  BY <1>1, <1>2, <1>3, <1>4 DEF Next, OutsideStep

(* The registry's invariant holds throughout. *)
THEOREM RegistryInvariance == Spec => []Inv
  BY Establishes, Preserves, PTL DEF Spec

(* The state stays well typed, whatever fails and in whatever order. *)
THEOREM RegistryTypeCorrect == Spec => []TypeOK
<1>1. Inv => TypeOK
  BY DEF Inv
<1>2. QED
  BY <1>1, RegistryInvariance, PTL

(* user_ips always has an expiry and, as long as the TTL is not changed,    *)
(* outlives and holds every address whose ip_ttl key is alive.              *)
THEOREM ExpiriesAgree == Spec => []SetOutlivesAddresses
<1>1. Inv => SetOutlivesAddresses
  BY DEF Inv, KeysInv
<1>2. QED
  BY <1>1, RegistryInvariance, PTL

--------------------------------------------------------------------------
(* Refinement of AddressWindow *)

(* A step that touches neither members, nor their time left, the cooldown,  *)
(* or an answer is invisible in the window.                                 *)
LEMMA Invisible ==
  ASSUME UNCHANGED <<members, ttlLeft, alertLeft, answer>>
  PROVE  UNCHANGED AW!vars
  BY DEF AW!vars, Counted

(* The script decides as the abstract specification does. *)
LEMMA SameAnswer == \A ips : Verdict(ips) = AW!Answer(ips)
<1> SUFFICES ASSUME NEW ips PROVE Verdict(ips) = AW!Answer(ips)
  OBVIOUS
<1>1. QED
  BY Zenon DEF Verdict, AW!Answer, Cardinality, AW!Cardinality

(* The script records its address: what it counts is what counts then.      *)
LEMMA ScriptSights ==
  ASSUME Inv, NEW c \in Clients, NEW i \in IPs, RunScript(i), ttl' = ttl,
         \/ answer' = [answer EXCEPT ![c] = Verdict(LiveMembers \cup {i})]
         \/ UNCHANGED answer
  PROVE  AW!Next
<1>1. ttl \in TTLs /\ ttl \in Nat /\ ttl > 0
  BY TTLPositive DEF Inv, TypeOK
<1>2. Counted' = [Counted EXCEPT ![i] = ttl]
  <2>1. ASSUME NEW j \in IPs
        PROVE  Counted'[j] = IF j = i THEN ttl ELSE Counted[j]
    BY DEF Inv, TypeOK, Counted, RunScript, LiveMembers
  <2>2. QED
    BY <2>1 DEF Counted
<1>3. {j \in IPs : Counted'[j] > 0} = LiveMembers \cup {i}
  <2>1. Counted'[i] = ttl
    BY <1>2 DEF Counted
  <2>2. ASSUME NEW j \in IPs, j # i PROVE Counted'[j] > 0 <=> j \in LiveMembers
    <3>1. Counted'[j] = Counted[j]
      BY <1>2, <2>2 DEF Counted
    <3>2. Counted[j] > 0 <=> j \in LiveMembers
      BY DEF Inv, TypeOK, Counted, LiveMembers
    <3>3. QED
      BY <3>1, <3>2
  <2>3. LiveMembers \cup {i} \subseteq IPs
    BY DEF Inv, TypeOK, LiveMembers
  <2>4. QED
    BY <1>1, <2>1, <2>2, <2>3
<1>4. Verdict(LiveMembers \cup {i}) = AW!Answer(LiveMembers \cup {i})
  BY SameAnswer
<1>5. alertLeft' = IF Verdict(LiveMembers \cup {i}).status = "block"
                   THEN Cooldown ELSE alertLeft
  BY DEF RunScript
<1>6. AW!Sight(c, i, ttl)
  BY <1>2, <1>3, <1>4, <1>5 DEF AW!Sight
<1>7. QED
  BY <1>1, <1>6 DEF AW!Next

LEMMA ClientRefines ==
  ASSUME Inv, NEW c \in Clients, ClientStep(c)
  PROVE  [AW!Next]_(AW!vars)
<1>1. CASE CheckAndAddIP(c) \/ LoseReply(c)
  <2>1. PICK i \in client[c].ips :
          /\ RunScript(i)
          /\ \/ answer' = [answer EXCEPT ![c] = Verdict(LiveMembers \cup {i})]
             \/ UNCHANGED answer
    BY <1>1 DEF CheckAndAddIP, LoseReply
  <2>2. i \in IPs /\ ttl' = ttl
    BY <1>1 DEF Inv, TypeOK, Client, CheckAndAddIP, LoseReply
  <2>3. QED
    BY <2>1, <2>2, ScriptSights
<1>2. CASE FinishEntry(c)
  <2>1. AW!Consume(c)
    BY <1>2 DEF FinishEntry, AW!Consume, keys, Counted, NoAnswer, AW!NoAnswer
  <2>2. QED
    BY <2>1 DEF AW!Next
<1>3. CASE ~(CheckAndAddIP(c) \/ LoseReply(c) \/ FinishEntry(c))
  BY <1>3, Invisible
     DEF ClientStep, BindIP, RepairNode, FailScript, ReadMembers, ReadTTLs,
         FinishPage, keys
<1>4. QED
  BY <1>1, <1>2, <1>3

LEMMA HousekeepingRefines ==
  ASSUME Inv, HousekeepingStep
  PROVE  [AW!Next]_(AW!vars)
<1>1. CASE DeleteOrphans
  <2>1. Housekeeping
    BY <1>1 DEF Inv, KeeperInv, DeleteOrphans
  <2>2. CASE keeper.rule = "node"
    BY <1>1, <2>2, Invisible DEF DeleteOrphans, SetRuleLeft
  <2>3. CASE keeper.rule # "node"
    <3>1. ttlLeft' = [i \in IPs |-> IF i \in keeper.stale THEN 0 ELSE ttlLeft[i]]
      BY <1>1, <2>3 DEF DeleteOrphans, SetRuleLeft, RuleLeft
    <3>2. Counted' = [i \in IPs |-> IF i \in keeper.stale THEN 0 ELSE Counted[i]]
      BY <1>1, <3>1 DEF DeleteOrphans, Counted
    <3>3. AW!Forget(keeper.stale)
      BY <1>1, <2>1, <3>2 DEF DeleteOrphans, AW!Forget
    <3>4. keeper.stale \in SUBSET IPs
      BY DEF Inv, TypeOK, Pass
    <3>5. QED
      BY <3>3, <3>4 DEF AW!Next
  <2>4. QED
    BY <2>2, <2>3
<1>2. CASE CutTTLs
  <2>1. Housekeeping /\ keeper.enforce \in TTLs /\ keeper.enforce > 0
    BY <1>2, TTLPositive DEF Inv, KeeperInv, CutTTLs
  <2>2. CASE keeper.rule = "node"
    BY <1>2, <2>2, Invisible DEF CutTTLs, SetRuleLeft
  <2>3. CASE keeper.rule # "node"
    <3>1. ~OneTTL
      BY <1>2, <2>3 DEF Inv, TypeOK, Pass, KeeperInv, CutTTLs
    <3>2. ttlLeft' = [i \in IPs |-> IF i \in keeper.live /\ ttlLeft[i] > 0
                                    THEN keeper.enforce ELSE ttlLeft[i]]
      BY <1>2, <2>3 DEF CutTTLs, SetRuleLeft, RuleLeft
    <3>3. members' = members /\ alertLeft' = alertLeft /\ answer' = answer
      BY <1>2 DEF CutTTLs
    <3>4. Counted' = [i \in IPs |-> IF i \in keeper.live /\ Counted[i] > 0
                                    THEN keeper.enforce ELSE Counted[i]]
      BY <3>2, <3>3 DEF Counted
    <3>5. AW!Retime(keeper.live, keeper.enforce)
      BY <2>1, <3>1, <3>3, <3>4 DEF AW!Retime
    <3>6. keeper.live \in SUBSET IPs
      BY DEF Inv, TypeOK, Pass
    <3>7. QED
      BY <2>1, <3>5, <3>6 DEF AW!Next
  <2>4. QED
    BY <2>2, <2>3
<1>3. CASE ~(DeleteOrphans \/ CutTTLs)
  BY <1>3, Invisible
     DEF HousekeepingStep, StartHousekeeping, ScanKeys, CheckMembers,
         ReadKeyTTLs, AbandonPass, keys
<1>4. QED
  BY <1>1, <1>2, <1>3

(* A tick that ends the set forgets what had more time left: none unless    *)
(* the TTL was changed.                                                     *)
LEMMA TickRefines ==
  ASSUME Inv, Tick
  PROVE  AW!Next
<1> DEFINE lost == IF setLeft = 1 THEN {i \in IPs : Counted[i] > 1} ELSE {}
<1>1. lost \in SUBSET IPs
  OBVIOUS
<1>2. lost # {} => ~OneTTL
  BY DEF Inv, TypeOK, KeysInv, SetOutlivesAddresses, Counted
<1>3. Counted' = [i \in IPs |-> IF i \in lost THEN 0 ELSE AW!Decrement(Counted[i])]
  <2>1. ASSUME NEW i \in IPs
        PROVE  Counted'[i] = IF i \in lost THEN 0 ELSE AW!Decrement(Counted[i])
    <3>1. ttlLeft[i] \in Nat
      BY DEF Inv, TypeOK
    <3>2. Counted'[i] = IF i \in members /\ setLeft # 1
                        THEN Decrement(ttlLeft[i]) ELSE 0
      BY DEF Tick, Counted
    <3>3. QED
      BY <3>1, <3>2 DEF Counted, Decrement, AW!Decrement
  <2>2. QED
    BY <2>1 DEF Counted
<1>4. AW!Tick(lost)
  BY <1>2, <1>3 DEF AW!Tick, Tick, Decrement, AW!Decrement
<1>5. QED
  BY <1>1, <1>4 DEF AW!Next

LEMMA OutsideRefines ==
  ASSUME Inv, OutsideStep
  PROVE  [AW!Next]_(AW!vars)
<1>1. CASE ClearUserIPs
  <2>1. AW!Clear
    BY <1>1 DEF ClearUserIPs, AW!Clear, Counted
  <2>2. QED
    BY <2>1 DEF AW!Next
<1>2. CASE Tick
  BY <1>2, TickRefines
<1>3. CASE \E t \in TTLs : ChangeTTL(t)
  BY <1>3, Invisible DEF ChangeTTL, keys
<1>4. QED
  BY <1>1, <1>2, <1>3 DEF OutsideStep

(* The registry is the window: exactly, with one TTL and no housekeeping;   *)
(* with either of them, up to addresses forgotten early; with both, up to   *)
(* addresses given another time left as well.  Lost replies, repeated       *)
(* scripts, clears and the separate expiries of the keys do not matter.     *)
THEOREM RegistryImplementsWindow == Spec => Window
<1>1. Init => AW!Init
  BY DEF Init, AW!Init, Counted, NoAnswer, AW!NoAnswer
<1>2. ASSUME Inv, [Next]_vars PROVE [AW!Next]_(AW!vars)
  <2>1. ASSUME NEW c \in Clients, ClientStep(c) PROVE [AW!Next]_(AW!vars)
    BY <1>2, <2>1, ClientRefines
  <2>2. CASE HousekeepingStep
    BY <1>2, <2>2, HousekeepingRefines
  <2>3. CASE OutsideStep
    BY <1>2, <2>3, OutsideRefines
  <2>4. CASE UNCHANGED vars
    BY <2>4, Invisible DEF vars
  <2>5. QED
    BY <1>2, <2>1, <2>2, <2>3, <2>4 DEF Next, OutsideStep
<1>3. QED
  BY <1>1, <1>2, RegistryInvariance, PTL DEF Spec, Window, AW!Spec
===========================================================================
