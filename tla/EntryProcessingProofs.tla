------------------------ MODULE EntryProcessingProofs ------------------------
(***************************************************************************)
(* Proofs about EntryProcessing, for every set of workers and addresses,   *)
(* every limit, window, cooldown, delay and lag, whichever is the longer:  *)
(* how often evidence is used again, and when an offender is blocked.      *)
(*                                                                         *)
(* The first rests on a budget of time.  From an answer "block" to the     *)
(* clear that its block leads to there are MaxLag + ClearDelay ticks, and  *)
(* each further answer "block" costs a cooldown of them: ClearInv says     *)
(* what is left.  The second rests on who is about to block the user:      *)
(* while the cooldown has too little left, a worker holds an answer whose  *)
(* block will not be declined as long as the offence lasts (WaitInv).      *)
(***************************************************************************)
EXTENDS EntryProcessing, FiniteSetTheorems, SequenceTheorems, TLAPS

Answers == [status : {"none", "ok", "cooldown", "block"}, count : Nat, ips : SUBSET IPs]
Stages == {"idle", "recorded", "count", "update", "decide", "publish"}

\* Worker w has been answered "block" and is not done yet.
Holds(w) == answer[w].status = "block"

\* What the stage of a worker says of its answer and its entry.
StageInv ==
  /\ answer \in [Workers -> Answers]
  /\ \A w \in Workers :
       /\ stage[w] \in {"idle", "recorded"} => answer[w] = Registry!NoAnswer
       /\ stage[w] = "idle" => lag[w] = 0
       /\ stage[w] \in {"count", "decide", "publish"} => Holds(w)
       /\ stage[w] \in {"recorded", "count"} => entry[w] \in IPs

\* The clears that blocks have led to come one after the other.
TimersInv == \A j, k \in DOMAIN timers : j <= k => timers[j] <= timers[k]

\* A clear is under way, and the time left until the next one at most.
Pending == timers # <<>> \/ clears > 0
Left == IF timers = <<>> THEN ClearDelay ELSE timers[1]

\* The time from an answer to the clear of its block, and how much of it the
\* cooldowns since leave.  The cooldown that runs has used up what it has not
\* left itself.
ClearInv ==
  /\ \A w \in Workers : Holds(w) => Cooldown <= cooling + lag[w]
  /\ clears > 0 => Cooldown <= cooling + MaxLag
  /\ \A k \in DOMAIN timers : Cooldown + timers[k] <= cooling + MaxLag + ClearDelay
  /\ ~unclear /\ Pending =>
       stale * Cooldown + Cooldown + Left <= cooling + MaxLag + ClearDelay
  /\ ~unclear /\ ~Pending => charged = {} /\ stale = 0
  /\ unclear => stale = 0

\* The addresses of worker w's answer that its count will take in.
Lately(w) == {i \in answer[w].ips : /\ recent[i] + MaxLag <= SourceWindow + lag[w]
                                    /\ recent[i] + MaxLag <= HeuristicsWindow + lag[w]}

\* Worker w will block the user if its standing suffices then.
Means(w) == /\ Holds(w)
            /\ Blockable(answer[w].ips) # {}
            /\ IF stage[w] = "count" THEN OverLimit(Lately(w)) ELSE sources[w] > Limit

\* The time an offender waits: for the cooldown, or for a worker that means
\* to block it.  Once the cooldown is over a script that finds too many
\* addresses begins another.
WaitInv ==
  /\ \/ overdue + cooling <= Cooldown
     \/ \E w \in Workers : Means(w) /\ overdue <= Cooldown + lag[w]
  /\ sighted /\ cooling = 0 => Cardinality(Live) <= Limit

Typed == TypeOK /\ StageInv
Inv == Typed /\ TimersInv /\ ClearInv /\ WaitInv

--------------------------------------------------------------------------
(* Operators *)

(* Addresses count as at most as many sources as there are of them.         *)
LEMMA SourcesBound ==
  ASSUME NEW ips \in SUBSET IPs, NEW mobile
  PROVE  Sources(ips, mobile) \in Nat /\ Sources(ips, mobile) <= Cardinality(ips)
<1> DEFINE f == [i \in ips |-> IF i \in mobile THEN MobileNetOf[i] ELSE NetOf[i]]
           S == {IF i \in mobile THEN MobileNetOf[i] ELSE NetOf[i] : i \in ips}
<1>1. IsFiniteSet(ips)
  BY EntryAssumption, FS_Subset
<1>2. f \in Surjection(ips, S)
  BY DEF Surjection
<1>3. IsFiniteSet(S) /\ Cardinality(S) <= Cardinality(ips)
  BY <1>1, <1>2, FS_Surjection
<1>4. QED
  BY <1>3, FS_CardinalityType DEF Sources

(* Fewer addresses make no greater number.                                  *)
LEMMA CardinalityBound ==
  ASSUME NEW ips \in SUBSET IPs, NEW fewer \in SUBSET ips
  PROVE  /\ Cardinality(ips) \in Nat /\ Cardinality(fewer) \in Nat
         /\ Cardinality(fewer) <= Cardinality(ips)
BY EntryAssumption, FS_Subset, FS_CardinalityType

(* Nor do they come from more sources, however they are classified.         *)
LEMMA SourcesGrow ==
  ASSUME NEW ips \in SUBSET IPs, NEW fewer \in SUBSET ips, NEW mobile
  PROVE  Sources(fewer, mobile \cap fewer) <= Sources(ips, mobile)
<1> DEFINE Key(i) == IF i \in mobile THEN MobileNetOf[i] ELSE NetOf[i]
           KeyOf(i) == IF i \in mobile \cap fewer THEN MobileNetOf[i] ELSE NetOf[i]
           All == {Key(i) : i \in ips}
           Some == {KeyOf(i) : i \in fewer}
           f == [i \in ips |-> Key(i)]
<1>1. Some \subseteq All
  <2>1. \A i \in fewer : KeyOf(i) = Key(i)
    OBVIOUS
  <2>2. QED
    BY <2>1
<1>2. IsFiniteSet(All)
  <2>1. f \in Surjection(ips, All)
    BY DEF Surjection
  <2>2. QED
    BY <2>1, EntryAssumption, FS_Subset, FS_Surjection
<1>3. IsFiniteSet(Some) /\ Cardinality(Some) <= Cardinality(All)
  BY <1>1, <1>2, FS_Subset
<1>4. QED
  BY <1>3 DEF Sources

LEMMA OverLimitGrows ==
  ASSUME NEW ips \in SUBSET IPs, NEW fewer \in SUBSET ips, OverLimit(fewer)
  PROVE  /\ OverLimit(ips)
         /\ \A mobile \in SUBSET ips : Sources(ips, mobile) > Limit
         /\ Cardinality(ips) > Limit
<1>1. \A mobile \in SUBSET ips : Sources(ips, mobile) > Limit
  <2> TAKE mobile \in SUBSET ips
  <2>1. Sources(fewer, mobile \cap fewer) > Limit
    BY DEF OverLimit
  <2>2. /\ Sources(fewer, mobile \cap fewer) \in Nat /\ Sources(ips, mobile) \in Nat
        /\ Sources(fewer, mobile \cap fewer) <= Sources(ips, mobile)
    BY SourcesBound, SourcesGrow
  <2>3. QED
    BY <2>1, <2>2, EntryAssumption
<1>2. Sources(ips, {}) > Limit /\ Sources(ips, {}) \in Nat
      /\ Sources(ips, {}) <= Cardinality(ips) /\ Cardinality(ips) \in Nat
  BY <1>1, SourcesBound, CardinalityBound
<1>3. QED
  BY <1>1, <1>2, EntryAssumption DEF OverLimit

(* AddressWindow counts as this module does.                                *)
LEMMA SameCount == \A S : Registry!Cardinality(S) = Cardinality(S)
  BY Zenon DEF Cardinality, Registry!Cardinality

(* An answer is well formed, and "block" is the one that ends the cooldown. *)
LEMMA AnswerType ==
  ASSUME TypeOK, NEW live \in SUBSET IPs
  PROVE  /\ Registry!Answer(live) \in Answers
         /\ Registry!Answer(live).status # "none"
         /\ Registry!Answer(live).status = "block" =>
              cooling = 0 /\ Registry!Answer(live).ips = live
         /\ cooling = 0 /\ Registry!Answer(live).status # "block" => Cardinality(live) <= Limit
<1>1. Cardinality(live) \in Nat /\ Limit \in Nat /\ cooling \in Nat
  <2>1. Cardinality(live) \in Nat
    BY CardinalityBound
  <2>2. cooling \in Nat
    BY EntryAssumption DEF TypeOK
  <2>3. QED
    BY <2>1, <2>2, EntryAssumption
<1>2. CASE Cardinality(live) <= Limit
  BY <1>1, <1>2, SameCount DEF Registry!Answer, Answers
<1>3. CASE ~(Cardinality(live) <= Limit)
  <2>1. Registry!Answer(live) =
          [status |-> IF cooling = 0 THEN "block" ELSE "cooldown",
           count |-> Cardinality(live), ips |-> live]
    BY <1>3, SameCount DEF Registry!Answer
  <2>2. QED
    BY <1>1, <2>1 DEF Answers
<1>4. QED
  BY <1>2, <1>3

LEMMA NoAnswerType == Registry!NoAnswer \in Answers /\ Registry!NoAnswer.status = "none"
  BY DEF Registry!NoAnswer, Answers

(* The wait either goes on or is over: it is when the user does not offend. *)
LEMMA WatchBounds ==
  ASSUME Typed, NEW excused \in BOOLEAN, Watch(excused)
  PROVE  /\ overdue' \in {overdue, 0} /\ overdue' \in 0..(Overdue + 1)
         /\ excused \/ ~Offending' => overdue' = 0
<1>1. /\ overdue' \in {overdue, 0}
      /\ excused \/ ~Offending' => overdue' = 0
  BY DEF Watch
<1>2. QED
  BY <1>1, EntryAssumption DEF Typed, TypeOK, Overdue

(* What the script does to the registry.                                    *)
LEMMA SightEffect ==
  ASSUME Typed, NEW w \in Workers, NEW i \in IPs, Registry!Sight(w, i, TTL)
  PROVE  /\ window' \in [IPs -> 0..TTL]
         /\ Live' \in SUBSET IPs
         /\ cooling' = IF Registry!Answer(Live').status = "block" THEN Cooldown ELSE cooling
         /\ \/ answer' = [answer EXCEPT ![w] = Registry!Answer(Live')]
            \/ answer' = answer
         /\ cooling' \in 0..Cooldown
         /\ cooling' = 0 => Cardinality(Live') <= Limit
         /\ cooling # 0 => cooling' = cooling
<1>1. window' \in [IPs -> 0..TTL]
  BY EntryAssumption DEF Registry!Sight, Typed, TypeOK
<1>2. Live' \in SUBSET IPs
  BY DEF Live
<1>3. /\ cooling' = IF Registry!Answer(Live').status = "block" THEN Cooldown ELSE cooling
      /\ \/ answer' = [answer EXCEPT ![w] = Registry!Answer(Live')]
         \/ answer' = answer
  BY DEF Registry!Sight, Live
<1>4. cooling' = 0 => Cardinality(Live') <= Limit
  <2>1. cooling' = 0 => cooling = 0 /\ Registry!Answer(Live').status # "block"
    BY <1>3, EntryAssumption
  <2>2. QED
    BY <1>2, <2>1, AnswerType DEF Typed
<1>5. cooling # 0 => cooling' = cooling
  BY <1>2, <1>3, AnswerType DEF Typed
<1>6. QED
  BY <1>1, <1>2, <1>3, <1>4, <1>5, EntryAssumption DEF Typed, TypeOK

--------------------------------------------------------------------------
(* Types and stages *)

(* A new stage, or the end of an entry, keeps what belongs to the worker    *)
(* well typed.                                                              *)
LEMMA WorkerTypes ==
  ASSUME Typed, NEW w \in Workers, NEW s \in Stages, NEW e \in IPs \cup {Nobody},
         NEW n \in Nat,
         stage' = [stage EXCEPT ![w] = s], entry' = [entry EXCEPT ![w] = e],
         \/ lag' = lag
         \/ lag' = [lag EXCEPT ![w] = 0],
         sources' = [sources EXCEPT ![w] = n]
  PROVE  /\ stage' \in [Workers -> Stages] /\ entry' \in [Workers -> IPs \cup {Nobody}]
         /\ lag' \in [Workers -> 0..MaxLag] /\ sources' \in [Workers -> Nat]
         /\ stage'[w] = s /\ entry'[w] = e /\ sources'[w] = n
         /\ \A v \in Workers : v # w => /\ stage'[v] = stage[v] /\ entry'[v] = entry[v]
                                        /\ lag'[v] = lag[v] /\ sources'[v] = sources[v]
<1>1. /\ stage \in [Workers -> Stages] /\ entry \in [Workers -> IPs \cup {Nobody}]
      /\ lag \in [Workers -> 0..MaxLag] /\ sources \in [Workers -> Nat]
  BY DEF Typed, TypeOK, Stages
<1>2. /\ stage' \in [Workers -> Stages] /\ stage'[w] = s
      /\ \A v \in Workers : v # w => stage'[v] = stage[v]
  BY <1>1
<1>3. /\ entry' \in [Workers -> IPs \cup {Nobody}] /\ entry'[w] = e
      /\ \A v \in Workers : v # w => entry'[v] = entry[v]
  BY <1>1
<1>4. /\ lag' \in [Workers -> 0..MaxLag]
      /\ \A v \in Workers : v # w => lag'[v] = lag[v]
  <2>1. 0 \in 0..MaxLag
    BY EntryAssumption
  <2>2. QED
    BY <1>1, <2>1
<1>5. /\ sources' \in [Workers -> Nat] /\ sources'[w] = n
      /\ \A v \in Workers : v # w => sources'[v] = sources[v]
  BY <1>1
<1>6. QED
  BY <1>2, <1>3, <1>4, <1>5

(* An entry that ends lets go of its answer.                                *)
LEMMA EndEffect ==
  ASSUME Typed, NEW w \in Workers, EndEntry(w), Registry!Consume(w)
  PROVE  /\ stage' \in [Workers -> Stages] /\ entry' \in [Workers -> IPs \cup {Nobody}]
         /\ lag' \in [Workers -> 0..MaxLag] /\ sources' \in [Workers -> Nat]
         /\ StageInv'
         /\ \A v \in Workers : Holds(v)' <=> Holds(v) /\ v # w
         /\ \A v \in Workers : v # w => /\ stage'[v] = stage[v] /\ lag'[v] = lag[v]
                                        /\ sources'[v] = sources[v] /\ answer'[v] = answer[v]
         /\ UNCHANGED <<window, cooling>>
<1> USE NoAnswerType DEF EndEntry, Registry!Consume
<1>1. /\ stage' \in [Workers -> Stages] /\ entry' \in [Workers -> IPs \cup {Nobody}]
      /\ lag' \in [Workers -> 0..MaxLag] /\ sources' \in [Workers -> Nat]
      /\ stage'[w] = "idle"
      /\ \A v \in Workers : v # w => /\ stage'[v] = stage[v] /\ entry'[v] = entry[v]
                                     /\ lag'[v] = lag[v] /\ sources'[v] = sources[v]
  BY WorkerTypes DEF Stages
<1>2. answer' \in [Workers -> Answers] /\ lag'[w] = 0
  BY DEF Typed, TypeOK, StageInv
<1>3. \A v \in Workers : answer'[v] = IF v = w THEN Registry!NoAnswer ELSE answer[v]
  BY DEF Typed, StageInv
<1>4. \A v \in Workers : Holds(v)' <=> Holds(v) /\ v # w
  BY <1>3 DEF Holds
<1>5. StageInv'
  BY <1>1, <1>2, <1>3, <1>4 DEF Typed, StageInv
<1>6. QED
  BY <1>1, <1>3, <1>4, <1>5

(* An entry that goes on to its next stage keeps all else.                  *)
LEMMA GoOnEffect ==
  ASSUME Typed, NEW w \in Workers, NEW s \in Stages, GoOn(w, s)
  PROVE  /\ stage' \in [Workers -> Stages]
         /\ stage'[w] = s /\ \A v \in Workers : v # w => stage'[v] = stage[v]
         /\ UNCHANGED <<entry, lag, sources>>
BY DEF GoOn, Typed, TypeOK, Stages

(* TypeOK from the types of the parts, some of them already in hand.        *)
LEMMA TypesOfAnswers == StageInv => \A w \in Workers : answer[w].ips \subseteq IPs
  BY DEF StageInv, Answers

(* A fault is counted.                                                      *)
LEMMA FaultType == Typed /\ Fault => faults' \in 0..MaxFaults
  BY EntryAssumption DEF Typed, TypeOK, Fault

LEMMA InitTyped == Init => Typed
<1> SUFFICES ASSUME Init PROVE Typed
  OBVIOUS
<1> USE EntryAssumption DEF Init, Registry!Init
<1>1. StageInv
  BY NoAnswerType DEF StageInv, Holds
<1>2. window \in [IPs -> 0..TTL] /\ lag \in [Workers -> 0..MaxLag] /\ cooling \in 0..Cooldown
  OBVIOUS
<1>3. /\ Gone \in Nat /\ recent \in [IPs -> 0..Gone]
      /\ overdue \in 0..(Overdue + 1) /\ faults \in 0..MaxFaults
  BY DEF Gone, Overdue
<1>4. timers \in Seq(0..ClearDelay)
  OBVIOUS
<1>5. /\ stage \in [Workers -> Stages] /\ entry \in [Workers -> IPs \cup {Nobody}]
      /\ sources \in [Workers -> Nat]
  BY DEF Stages
<1>6. QED
  BY <1>1, <1>2, <1>3, <1>4, <1>5, TypesOfAnswers DEF Typed, TypeOK, Stages

(* The event makes its address the latest; those too old are pruned.        *)
LEMMA RecordTyped ==
  ASSUME Typed, NEW w \in Workers, NEW i \in IPs, RecordEvent(w, i)
  PROVE  Typed'
<1> USE DEF RecordEvent, registryVars, taskVars
<1>1. /\ stage' \in [Workers -> Stages] /\ entry' \in [Workers -> IPs \cup {Nobody}]
      /\ stage'[w] = "recorded" /\ entry'[w] = i
      /\ \A v \in Workers : v # w => stage'[v] = stage[v] /\ entry'[v] = entry[v]
  BY DEF Typed, TypeOK, Stages
<1>2. recent' \in [IPs -> 0..Gone]
  <2>1. Gone \in Nat /\ \A j \in IPs : recent[j] \in 0..Gone
    BY EntryAssumption DEF Typed, TypeOK, Gone
  <2>2. QED
    BY <2>1 DEF Pruned
<1>3. overdue' \in 0..(Overdue + 1)
  BY WatchBounds
<1>4. \A v \in Workers : Holds(v)' <=> Holds(v)
  BY DEF Holds
<1>5. StageInv'
  BY <1>1, <1>4 DEF Typed, StageInv
<1>6. TypeOK'
  BY <1>1, <1>2, <1>3 DEF Typed, TypeOK, Stages
<1>7. QED
  BY <1>5, <1>6 DEF Typed

(* The script's answer is for worker w alone.                               *)
LEMMA CheckAndAddEffect ==
  ASSUME Typed, NEW w \in Workers, CheckAndAddIP(w)
  PROVE  LET a == Registry!Answer(Live') IN
         /\ entry[w] \in IPs /\ Live' \in SUBSET IPs
         /\ a \in Answers /\ a.status # "none"
         /\ a.status = "block" => cooling = 0 /\ a.ips = Live'
         /\ answer' = [answer EXCEPT ![w] = a] /\ answer' \in [Workers -> Answers]
         /\ \A v \in Workers : answer'[v] = IF v = w THEN a ELSE answer[v]
         /\ answer[w] = Registry!NoAnswer
         /\ \A v \in Workers : Holds(v)' <=> \/ v # w /\ Holds(v)
                                             \/ v = w /\ a.status = "block"
         /\ GoOn(w, IF a.status = "block" THEN "count" ELSE "update")
<1> DEFINE a == Registry!Answer(Live')
<1> USE DEF CheckAndAddIP
<1>1. answer[w] = Registry!NoAnswer /\ entry[w] \in IPs
  BY DEF Typed, StageInv
<1>2. Live' \in SUBSET IPs /\ (answer' = [answer EXCEPT ![w] = a] \/ answer' = answer)
  BY <1>1, SightEffect
<1>3. /\ a \in Answers /\ a.status # "none"
      /\ a.status = "block" => cooling = 0 /\ a.ips = Live'
  BY <1>2, AnswerType DEF Typed
<1>4. answer' = [answer EXCEPT ![w] = a]
  BY <1>1, <1>2
<1>5. /\ answer' \in [Workers -> Answers]
      /\ \A v \in Workers : answer'[v] = IF v = w THEN a ELSE answer[v]
  BY <1>3, <1>4 DEF Typed, StageInv
<1>6. GoOn(w, IF a.status = "block" THEN "count" ELSE "update")
  BY <1>5
<1>7. \A v \in Workers : Holds(v)' <=> \/ v # w /\ Holds(v)
                                       \/ v = w /\ a.status = "block"
  BY <1>5 DEF Holds
<1>8. QED
  BY <1>1, <1>2, <1>3, <1>4, <1>5, <1>6, <1>7

LEMMA CheckAndAddTyped ==
  ASSUME Typed, NEW w \in Workers, CheckAndAddIP(w)
  PROVE  Typed'
<1> DEFINE a == Registry!Answer(Live')
           s == IF a.status = "block" THEN "count" ELSE "update"
<1>1. /\ entry[w] \in IPs /\ answer' \in [Workers -> Answers]
      /\ \A v \in Workers : answer'[v] = IF v = w THEN a ELSE answer[v]
      /\ \A v \in Workers : Holds(v)' <=> \/ v # w /\ Holds(v)
                                          \/ v = w /\ a.status = "block"
      /\ GoOn(w, s)
  BY CheckAndAddEffect
<1>2. s \in {"count", "update"} /\ (s = "count" => a.status = "block")
  OBVIOUS
<1> HIDE DEF s
<1>3. /\ stage' \in [Workers -> Stages]
      /\ stage'[w] = s /\ \A v \in Workers : v # w => stage'[v] = stage[v]
      /\ UNCHANGED <<entry, lag, sources>>
  BY <1>1, <1>2, GoOnEffect DEF Stages
<1>4. window' \in [IPs -> 0..TTL] /\ cooling' \in 0..Cooldown
  BY <1>1, SightEffect DEF CheckAndAddIP
<1>5. overdue' \in 0..(Overdue + 1)
  BY WatchBounds DEF CheckAndAddIP
<1>6. /\ charged' \subseteq IPs /\ stale' \in Nat /\ sighted' \in BOOLEAN
      /\ UNCHANGED <<recent, standing, lastBlocked, clears, timers, faults, unclear>>
  BY DEF CheckAndAddIP, taskVars, Typed, TypeOK
<1>7. StageInv'
  <2>1. \A v \in Workers : v # w =>
          /\ stage'[v] = stage[v] /\ answer'[v] = answer[v] /\ (Holds(v)' <=> Holds(v))
          /\ lag'[v] = lag[v] /\ entry'[v] = entry[v]
    BY <1>1, <1>3
  <2>2. stage'[w] \notin {"idle", "recorded", "decide", "publish"} /\ entry'[w] \in IPs
        /\ (stage'[w] = "count" => Holds(w)')
    BY <1>1, <1>2, <1>3
  <2>3. QED
    BY <1>1, <2>1, <2>2 DEF Typed, StageInv
<1>8. TypeOK'
  <2>1. \A v \in Workers : answer'[v].ips \subseteq IPs
    BY <1>1 DEF Answers
  <2>2. QED
    BY <1>3, <1>4, <1>5, <1>6, <2>1 DEF Typed, TypeOK, Stages
<1>9. QED
  BY <1>7, <1>8 DEF Typed

LEMMA FailScriptTyped ==
  ASSUME Typed, NEW w \in Workers, FailScript(w)
  PROVE  Typed' /\ answer' = answer /\ \A v \in Workers : Holds(v) => UNCHANGED <<stage[v], lag[v], sources[v]>>
<1>1. entry[w] \in IPs /\ answer[w] = Registry!NoAnswer /\ stage[w] = "recorded"
  BY DEF FailScript, Typed, StageInv
<1>2. window' \in [IPs -> 0..TTL] /\ cooling' \in 0..Cooldown /\ answer' = answer
  BY <1>1, SightEffect DEF FailScript
<1>3. /\ stage' \in [Workers -> Stages] /\ entry' \in [Workers -> IPs \cup {Nobody}]
      /\ lag' \in [Workers -> 0..MaxLag] /\ sources' \in [Workers -> Nat]
      /\ \A v \in Workers : v # w => /\ stage'[v] = stage[v] /\ entry'[v] = entry[v]
                                     /\ lag'[v] = lag[v] /\ sources'[v] = sources[v]
      /\ \/ stage'[w] = "idle" /\ lag'[w] = 0
         \/ stage'[w] = "recorded" /\ entry'[w] \in IPs
  <2>1. CASE EndEntry(w)
    <3>1. /\ stage' = [stage EXCEPT ![w] = "idle"] /\ entry' = [entry EXCEPT ![w] = Nobody]
          /\ lag' = [lag EXCEPT ![w] = 0] /\ sources' = [sources EXCEPT ![w] = 0]
      BY <2>1 DEF EndEntry
    <3>2. lag'[w] = 0
      BY <3>1 DEF Typed, TypeOK
    <3>3. /\ stage' \in [Workers -> Stages] /\ entry' \in [Workers -> IPs \cup {Nobody}]
          /\ lag' \in [Workers -> 0..MaxLag] /\ sources' \in [Workers -> Nat]
          /\ stage'[w] = "idle"
          /\ \A v \in Workers : v # w => /\ stage'[v] = stage[v] /\ entry'[v] = entry[v]
                                         /\ lag'[v] = lag[v] /\ sources'[v] = sources[v]
      BY <3>1, WorkerTypes DEF Stages
    <3>4. stage'[w] = "idle" /\ lag'[w] = 0
      BY <3>2, <3>3
    <3>5. QED
      BY <3>3, <3>4
  <2>2. CASE UNCHANGED workerVars
    BY <1>1, <2>2 DEF workerVars, Stages, Typed, TypeOK
  <2>3. QED
    BY <2>1, <2>2 DEF FailScript
<1>4. StageInv'
  <2>1. \A v \in Workers : Holds(v)' <=> Holds(v)
    BY <1>2 DEF Holds
  <2>2. QED
    BY <1>1, <1>2, <1>3, <2>1 DEF Typed, StageInv
<1>5. overdue' \in 0..(Overdue + 1) /\ faults' \in 0..MaxFaults
  BY WatchBounds, FaultType DEF FailScript
<1>6. TypeOK'
  BY <1>2, <1>3, <1>5 DEF FailScript, taskVars, Typed, TypeOK, Stages
<1>7. \A v \in Workers : Holds(v) => v # w
  BY <1>1, NoAnswerType DEF Holds
<1>8. QED
  BY <1>2, <1>3, <1>4, <1>6, <1>7 DEF Typed


(* What a count takes in are addresses, and their sources a number.         *)
LEMMA CountTyped ==
  ASSUME Typed, NEW w \in Workers, CountSources(w)
  PROVE  /\ Typed'
         /\ \E read \in 0..lag[w] : \E mobile \in SUBSET TakenIn(w, read) :
              sources'[w] = Sources(TakenIn(w, read), mobile)
         /\ \A read \in 0..lag[w] : TakenIn(w, read) \in SUBSET IPs
         /\ stage'[w] = "update"
         /\ \A v \in Workers : v # w => UNCHANGED <<stage[v], sources[v]>>
         /\ UNCHANGED <<answer, lag>>
<1> USE DEF CountSources
<1>1. entry[w] \in IPs /\ answer[w].ips \subseteq IPs
  BY DEF Typed, TypeOK, StageInv
<1>2. \A read \in 0..lag[w] : TakenIn(w, read) \in SUBSET IPs
  BY <1>1 DEF TakenIn
<1>3. PICK read \in 0..lag[w] : \E mobile \in SUBSET TakenIn(w, read) :
        sources' = [sources EXCEPT ![w] = Sources(TakenIn(w, read), mobile)]
  OBVIOUS
<1>4. PICK mobile \in SUBSET TakenIn(w, read) :
         sources' = [sources EXCEPT ![w] = Sources(TakenIn(w, read), mobile)]
  BY <1>3
<1>5. Sources(TakenIn(w, read), mobile) \in Nat
  BY <1>2, SourcesBound
<1>6. UNCHANGED <<window, cooling, answer, recent, lag, standing, lastBlocked, clears, timers,
                  faults, charged, stale, unclear, sighted, overdue>>
  BY DEF registryVars, taskVars, historyVars
<1>7. /\ stage' \in [Workers -> Stages] /\ entry' \in [Workers -> IPs \cup {Nobody}]
      /\ sources' \in [Workers -> Nat]
      /\ stage'[w] = "update" /\ sources'[w] = Sources(TakenIn(w, read), mobile)
      /\ \A v \in Workers : v # w => /\ stage'[v] = stage[v] /\ entry'[v] = entry[v]
                                     /\ sources'[v] = sources[v]
  <2> DEFINE n == Sources(TakenIn(w, read), mobile)
  <2>1. /\ stage' = [stage EXCEPT ![w] = "update"] /\ entry' = [entry EXCEPT ![w] = Nobody]
        /\ sources' = [sources EXCEPT ![w] = n] /\ n \in Nat /\ lag' = lag
        /\ "update" \in Stages
    BY <1>4, <1>5, <1>6 DEF Stages
  <2> HIDE DEF n
  <2>2. /\ stage' \in [Workers -> Stages] /\ entry' \in [Workers -> IPs \cup {Nobody}]
        /\ sources' \in [Workers -> Nat]
        /\ stage'[w] = "update" /\ sources'[w] = n
        /\ \A v \in Workers : v # w => /\ stage'[v] = stage[v] /\ entry'[v] = entry[v]
                                       /\ sources'[v] = sources[v]
    <3>1. /\ stage \in [Workers -> Stages] /\ entry \in [Workers -> IPs \cup {Nobody}]
          /\ sources \in [Workers -> Nat]
      BY DEF Typed, TypeOK, Stages
    <3>2. /\ stage' \in [Workers -> Stages] /\ stage'[w] = "update"
          /\ \A v \in Workers : v # w => stage'[v] = stage[v]
      BY <2>1, <3>1
    <3>3. /\ entry' \in [Workers -> IPs \cup {Nobody}]
          /\ \A v \in Workers : v # w => entry'[v] = entry[v]
      BY <2>1, <3>1
    <3>4. /\ sources' \in [Workers -> Nat] /\ sources'[w] = n
          /\ \A v \in Workers : v # w => sources'[v] = sources[v]
      BY <2>1, <3>1
    <3>5. QED
      BY <3>2, <3>3, <3>4
  <2>3. QED
    BY <2>2 DEF n
<1>8. StageInv'
  <2>1. \A v \in Workers : Holds(v)' <=> Holds(v)
    BY <1>6 DEF Holds
  <2>2. QED
    BY <1>6, <1>7, <2>1 DEF Typed, StageInv
<1>9. TypeOK'
  BY <1>6, <1>7 DEF Typed, TypeOK, Stages
<1>10. QED
  BY <1>2, <1>6, <1>7, <1>8, <1>9 DEF Typed

(* What the steps of worker w that follow its count have in common: it goes *)
(* on with its answer, or is done with it.                                  *)
Moves(w, s) == /\ \/ GoOn(w, s) /\ Holds(w) /\ UNCHANGED registryVars
                  \/ EndEntry(w) /\ Registry!Consume(w)
               /\ UNCHANGED recent

LEMMA MovesEffect ==
  ASSUME Typed, NEW w \in Workers, NEW s \in {"decide", "publish"}, Moves(w, s)
  PROVE  /\ stage' \in [Workers -> Stages] /\ entry' \in [Workers -> IPs \cup {Nobody}]
         /\ lag' \in [Workers -> 0..MaxLag] /\ sources' \in [Workers -> Nat]
         /\ StageInv'
         /\ UNCHANGED <<window, cooling, recent>>
         /\ \A v \in Workers : Holds(v)' => Holds(v) /\ UNCHANGED <<answer[v], lag[v], sources[v]>>
         /\ \A v \in Workers : v # w => UNCHANGED <<answer[v], stage[v], lag[v], sources[v]>>
<1> USE DEF Moves
<1>1. CASE GoOn(w, s) /\ Holds(w) /\ UNCHANGED registryVars
  <2>1. /\ UNCHANGED <<window, cooling, answer, recent, entry, lag, sources>>
        /\ stage' \in [Workers -> Stages]
        /\ stage'[w] = s /\ \A v \in Workers : v # w => stage'[v] = stage[v]
    BY <1>1, GoOnEffect DEF registryVars, Stages
  <2>2. \A v \in Workers : Holds(v)' <=> Holds(v)
    BY <2>1 DEF Holds
  <2>3. StageInv'
    BY <1>1, <2>1, <2>2 DEF Typed, StageInv
  <2>4. QED
    BY <2>1, <2>2, <2>3 DEF Typed, TypeOK
<1>2. CASE EndEntry(w) /\ Registry!Consume(w)
  <2>1. /\ StageInv' /\ UNCHANGED <<window, cooling, recent>>
        /\ \A v \in Workers : Holds(v)' <=> Holds(v) /\ v # w
        /\ \A v \in Workers : v # w => UNCHANGED <<answer[v], stage[v], lag[v], sources[v]>>
    BY <1>2, EndEffect
  <2>2. /\ stage' \in [Workers -> Stages] /\ entry' \in [Workers -> IPs \cup {Nobody}]
        /\ lag' \in [Workers -> 0..MaxLag] /\ sources' \in [Workers -> Nat]
    BY <1>2, EndEffect
  <2>3. QED
    BY <2>1, <2>2
<1>3. QED
  BY <1>1, <1>2

LEMMA UpdateMoves ==
  ASSUME Typed, NEW w \in Workers, UpdateStanding(w)
  PROVE  /\ Moves(w, "decide")
         /\ stage[w] = "update" /\ (Holds(w) => GoOn(w, "decide") /\ UNCHANGED registryVars)
         /\ UNCHANGED <<lastBlocked, clears, timers, faults, charged, stale, unclear, sighted>>
BY DEF UpdateStanding, Moves, Holds, taskVars

LEMMA DecideMoves ==
  ASSUME Typed, NEW w \in Workers, Decide(w)
  PROVE  /\ Holds(w) /\ Moves(w, "publish")
         /\ UNCHANGED <<standing, lastBlocked, clears, timers, faults, charged, stale, unclear,
                        sighted>>
BY DEF Decide, Moves, Typed, StageInv, taskVars

LEMMA PublishMoves ==
  ASSUME Typed, NEW w \in Workers, PublishBlock(w) \/ FailBlock(w)
  PROVE  Holds(w) /\ Moves(w, "publish") /\ UNCHANGED <<standing, timers, sighted>>
BY DEF PublishBlock, FailBlock, Moves, Typed, StageInv, taskVars

LEMMA WorkerTyped ==
  ASSUME Typed, NEW w \in Workers,
         UpdateStanding(w) \/ Decide(w) \/ PublishBlock(w) \/ FailBlock(w)
  PROVE  Typed'
<1>1. \E s \in {"decide", "publish"} : Moves(w, s)
  BY UpdateMoves, DecideMoves, PublishMoves
<1>2. /\ stage' \in [Workers -> Stages] /\ entry' \in [Workers -> IPs \cup {Nobody}]
      /\ lag' \in [Workers -> 0..MaxLag] /\ sources' \in [Workers -> Nat]
      /\ StageInv' /\ UNCHANGED <<window, cooling, recent>>
  BY <1>1, MovesEffect
<1>3. \A v \in Workers : answer'[v].ips \subseteq IPs
  BY <1>2, TypesOfAnswers DEF StageInv, Answers
<1>4. overdue' \in 0..(Overdue + 1)
  <2>1. \E excused \in BOOLEAN : Watch(excused)
    BY DEF UpdateStanding, Decide, PublishBlock, FailBlock, Declines
  <2>2. QED
    BY <2>1, WatchBounds
<1>5. CASE UpdateStanding(w)
  BY <1>2, <1>3, <1>4, <1>5, UpdateMoves DEF UpdateStanding, Typed, TypeOK, Stages
<1>6. CASE Decide(w)
  BY <1>2, <1>3, <1>4, <1>6, DecideMoves DEF Typed, TypeOK, Stages
<1>7. CASE PublishBlock(w)
  <2>1. /\ lastBlocked' \subseteq IPs \ Excluded
        /\ charged' \subseteq IPs
        /\ clears' \in Nat /\ stale' \in Nat /\ unclear' \in BOOLEAN
        /\ UNCHANGED <<timers, faults>>
    <3>1. lastBlocked' \subseteq IPs \ Excluded /\ charged' \subseteq IPs
      BY <1>7 DEF PublishBlock, Blockable, Live, Typed, TypeOK
    <3>2. clears' \in Nat /\ stale' \in Nat /\ unclear' \in BOOLEAN
      <4>1. clears \in Nat /\ stale \in Nat /\ unclear \in BOOLEAN
        BY DEF Typed, TypeOK
      <4>2. \/ clears' = clears + 1 /\ stale' = stale /\ unclear' = unclear
            \/ clears' = clears /\ stale' = 0 /\ unclear' = TRUE
        BY <1>7 DEF PublishBlock, Queued, LoseClear
      <4>3. clears' \in Nat /\ stale' \in Nat
        BY <4>1, <4>2
      <4>4. unclear' \in {unclear, TRUE}
        BY <4>2
      <4>5. QED
        BY <4>1, <4>3, <4>4
    <3>3. QED
      BY <1>7, <3>1, <3>2 DEF PublishBlock
  <2>2. QED
    BY <1>2, <1>3, <1>4, <1>7, <2>1, PublishMoves DEF Typed, TypeOK, Stages
<1>8. CASE FailBlock(w)
  <2>1. /\ faults' \in 0..MaxFaults
        /\ UNCHANGED <<lastBlocked, clears, timers, charged, stale, unclear>>
    BY <1>8, FaultType DEF FailBlock, taskVars
  <2>2. QED
    BY <1>2, <1>3, <1>4, <1>8, <2>1, PublishMoves DEF Typed, TypeOK, Stages
<1>9. QED
  BY <1>5, <1>6, <1>7, <1>8


(* What a sequence has when it loses its head, gains an element or has all  *)
(* of its elements changed.                                                 *)
LEMMA TailValues ==
  ASSUME NEW S, NEW s \in Seq(S), s # <<>>
  PROVE  /\ 1 \in DOMAIN s /\ Head(s) = s[1] /\ Tail(s) \in Seq(S)
         /\ \A k \in DOMAIN Tail(s) : k + 1 \in DOMAIN s /\ Tail(s)[k] = s[k + 1] /\ k \in Nat
<1>1. Len(s) \in Nat \ {0} /\ DOMAIN s = 1..Len(s)
  BY EmptySeq, LenProperties
<1>2. Tail(s) \in Seq(S) /\ Len(Tail(s)) = Len(s) - 1
  BY HeadTailProperties
<1>3. DOMAIN Tail(s) = 1..(Len(s) - 1)
  BY <1>2, LenProperties
<1>4. \A k \in 1..(Len(s) - 1) : Tail(s)[k] = s[k + 1]
  BY HeadTailProperties
<1>5. QED
  BY <1>1, <1>2, <1>3, <1>4

LEMMA AppendValues ==
  ASSUME NEW S, NEW s \in Seq(S), NEW e \in S
  PROVE  /\ Append(s, e) \in Seq(S) /\ Append(s, e) # <<>>
         /\ DOMAIN Append(s, e) = 1..(Len(s) + 1) /\ DOMAIN s = 1..Len(s) /\ Len(s) \in Nat
         /\ \A k \in 1..(Len(s) + 1) : Append(s, e)[k] = IF k = Len(s) + 1 THEN e ELSE s[k]
         /\ s = <<>> => Len(s) = 0
         /\ s # <<>> => 1 \in DOMAIN s
<1>1. /\ Append(s, e) \in Seq(S) /\ Append(s, e) # <<>> /\ Len(Append(s, e)) = Len(s) + 1
      /\ \A k \in 1..Len(s) : Append(s, e)[k] = s[k]
      /\ Append(s, e)[Len(s) + 1] = e
  BY AppendProperties
<1>2. /\ DOMAIN Append(s, e) = 1..(Len(s) + 1) /\ DOMAIN s = 1..Len(s) /\ Len(s) \in Nat
  BY <1>1, LenProperties
<1>3. (s = <<>> => Len(s) = 0) /\ (s # <<>> => 1 \in DOMAIN s)
  <2>1. s # <<>> => Len(s) # 0
    BY EmptySeq
  <2>2. QED
    BY <1>2, <2>1
<1>4. \A k \in 1..(Len(s) + 1) : k = Len(s) + 1 \/ k \in 1..Len(s)
  BY <1>2
<1>5. QED
  BY <1>1, <1>2, <1>3, <1>4

(* Side tasks, the timer, the administrator and a restart keep the types.   *)
LEMMA TasksTyped ==
  ASSUME Typed, RunTask \/ FireClear \/ FailClear \/ ResetSharingState
  PROVE  Typed' /\ UNCHANGED <<answer, stage, lag, sources, recent, cooling, sighted>>
<1>1. /\ UNCHANGED <<answer, stage, entry, lag, sources, recent, cooling, sighted, lastBlocked>>
  BY DEF RunTask, FireClear, FailClear, ResetSharingState, registryVars, workerVars, historyVars,
         taskVars, Registry!Clear
<1>2. StageInv'
  <2>1. \A w \in Workers : Holds(w)' <=> Holds(w)
    BY <1>1 DEF Holds
  <2>2. QED
    BY <1>1, <2>1 DEF Typed, StageInv
<1>3. timers' \in Seq(0..ClearDelay)
  <2>1. timers \in Seq(0..ClearDelay) /\ ClearDelay \in 0..ClearDelay
    BY EntryAssumption DEF Typed, TypeOK
  <2>2. CASE RunTask
    BY <2>1, <2>2, AppendValues DEF RunTask
  <2>3. CASE FireClear \/ FailClear
    BY <2>1, <2>3, TailValues DEF FireClear, FailClear, Due
  <2>4. CASE ResetSharingState
    BY <2>1, <2>4 DEF ResetSharingState, taskVars
  <2>5. QED
    BY <2>2, <2>3, <2>4
<1>4. clears' \in Nat /\ faults' \in 0..MaxFaults
  <2>1. CASE FailClear
    BY <2>1, FaultType DEF FailClear, Typed, TypeOK
  <2>2. CASE RunTask
    BY <2>2 DEF RunTask, Typed, TypeOK
  <2>3. CASE FireClear \/ ResetSharingState
    BY <2>3 DEF FireClear, ResetSharingState, taskVars, Typed, TypeOK
  <2>4. QED
    BY <2>1, <2>2, <2>3
<1>5. overdue' \in 0..(Overdue + 1)
  <2>1. CASE RunTask \/ FailClear
    BY <2>1 DEF RunTask, FailClear, historyVars, Typed, TypeOK
  <2>2. CASE FireClear \/ ResetSharingState
    BY <2>2, WatchBounds DEF FireClear, ResetSharingState
  <2>3. QED
    BY <2>1, <2>2
<1>6. window' \in [IPs -> 0..TTL]
  <2>1. window' = window \/ window' = [i \in IPs |-> 0]
    BY DEF RunTask, FireClear, FailClear, ResetSharingState, registryVars, Registry!Clear
  <2>2. window \in [IPs -> 0..TTL]
    BY DEF Typed, TypeOK
  <2>3. QED
    BY <2>1, <2>2, EntryAssumption
<1>7. charged' \subseteq IPs /\ stale' \in Nat /\ unclear' \in BOOLEAN
      /\ standing' \in {"none", "violator", "banlist"}
  <2>1. \/ UNCHANGED <<charged, stale, unclear>>
        \/ charged' = {} /\ stale' = 0 /\ unclear' = FALSE
        \/ charged' = charged /\ stale' = 0 /\ unclear' = TRUE
    BY DEF RunTask, FireClear, FailClear, ResetSharingState, historyVars, LoseClear
  <2>2. standing' \in {standing, "none"}
    BY DEF RunTask, FireClear, FailClear, ResetSharingState
  <2>3. charged' \subseteq IPs /\ stale' \in Nat
    BY <2>1 DEF Typed, TypeOK
  <2>4. unclear' \in {unclear, TRUE, FALSE}
    BY <2>1
  <2>5. QED
    BY <2>2, <2>3, <2>4 DEF Typed, TypeOK
<1>8. TypeOK'
  BY <1>1, <1>3, <1>4, <1>5, <1>6, <1>7 DEF Typed, TypeOK
<1>9. QED
  BY <1>1, <1>2, <1>8 DEF Typed

LEMMA RestartTyped ==
  ASSUME Typed, Restart
  PROVE  Typed' /\ \A w \in Workers : ~Holds(w)'
<1> USE EntryAssumption, NoAnswerType DEF Restart
<1>1. StageInv' /\ \A w \in Workers : ~Holds(w)'
  BY DEF StageInv, Holds
<1>2. faults' \in 0..MaxFaults /\ overdue' \in 0..(Overdue + 1)
  BY WatchBounds, FaultType
<1>3. \A w \in Workers : answer'[w].ips \subseteq IPs
  BY DEF Registry!NoAnswer
<1>4. recent' \in [IPs -> 0..Gone] /\ lag' \in [Workers -> 0..MaxLag]
      /\ stage' \in [Workers -> Stages] /\ entry' \in [Workers -> IPs \cup {Nobody}]
      /\ sources' \in [Workers -> Nat]
  BY DEF Gone, Stages
<1>5. timers' \in Seq(0..ClearDelay) /\ clears' \in Nat /\ stale' \in Nat /\ unclear' \in BOOLEAN
  BY DEF LoseClear
<1>6. TypeOK'
  BY <1>2, <1>3, <1>4, <1>5 DEF Typed, TypeOK, Stages
<1>7. QED
  BY <1>1, <1>6 DEF Typed

(* A tick ages the events and the entries under way and runs down what is   *)
(* left of the rest.                                                        *)
LEMMA TickEffect ==
  ASSUME Typed, TimersInv, Tick
  PROVE  /\ clears = 0 /\ clears' = 0
         /\ timers' \in Seq(0..ClearDelay) /\ DOMAIN timers' = DOMAIN timers
         /\ \A k \in DOMAIN timers : timers[k] \in 1..ClearDelay /\ timers'[k] = timers[k] - 1
         /\ \A w \in Workers : stage[w] # "idle" => lag[w] < MaxLag /\ lag'[w] = lag[w] + 1
         /\ cooling' = IF cooling = 0 THEN 0 ELSE cooling - 1
         /\ \A i \in IPs : recent'[i] \in {recent[i], recent[i] + 1}
         /\ UNCHANGED <<answer, stage, entry, sources, standing, lastBlocked, faults, charged,
                        stale, unclear>>
         /\ sighted' = FALSE
<1> USE DEF Tick, Registry!Tick, Registry!Decrement
<1>1. \A k \in DOMAIN timers : timers[k] \in 1..ClearDelay
  <2>1. timers \in Seq(0..ClearDelay)
    BY DEF Typed, TypeOK
  <2> TAKE k \in DOMAIN timers
  <2>2. timers # <<>> /\ timers[k] \in 0..ClearDelay /\ k \in Nat \ {0}
    <3>1. DOMAIN timers = 1..Len(timers) /\ Len(timers) \in Nat
          /\ timers \in [1..Len(timers) -> 0..ClearDelay]
      BY <2>1, LenProperties
    <3>2. k \in 1..Len(timers)
      BY <3>1
    <3>3. QED
      BY <3>1, <3>2
  <2>3. 1 \in DOMAIN timers /\ Head(timers) = timers[1] /\ timers[1] \in 0..ClearDelay
    <3>1. 1 \in DOMAIN timers /\ Head(timers) = timers[1]
      BY <2>1, <2>2, TailValues
    <3>2. timers \in [1..Len(timers) -> 0..ClearDelay] /\ DOMAIN timers = 1..Len(timers)
      BY <2>1, LenProperties
    <3>3. QED
      BY <3>1, <3>2
  <2>4. timers[1] # 0 /\ timers[1] <= timers[k]
    BY <2>2, <2>3 DEF Due, TimersInv
  <2>5. QED
    BY <2>2, <2>3, <2>4, EntryAssumption
<1>2. timers' = [k \in DOMAIN timers |-> timers[k] - 1]
  OBVIOUS
<1>3. /\ DOMAIN timers' = DOMAIN timers
      /\ \A k \in DOMAIN timers : timers'[k] = timers[k] - 1
  BY <1>2
<1>4. timers' \in Seq(0..ClearDelay)
  <2>1. DOMAIN timers = 1..Len(timers) /\ Len(timers) \in Nat
    BY LenProperties DEF Typed, TypeOK
  <2>2. \A k \in 1..Len(timers) : timers[k] - 1 \in 0..ClearDelay
    BY <1>1, <2>1, EntryAssumption
  <2>3. timers' \in [1..Len(timers) -> 0..ClearDelay]
    BY <1>2, <2>1, <2>2
  <2>4. QED
    BY <2>1, <2>3, SeqDef
<1>5. \A w \in Workers : stage[w] # "idle" => lag[w] < MaxLag /\ lag'[w] = lag[w] + 1
  BY DEF Busy
<1>6. \A i \in IPs : recent'[i] \in {recent[i], recent[i] + 1}
  <2>1. Gone \in Nat /\ \A i \in IPs : recent[i] \in 0..Gone
    BY EntryAssumption DEF Typed, TypeOK, Gone
  <2>2. QED
    BY <2>1
<1>7. QED
  BY <1>1, <1>3, <1>4, <1>5, <1>6

LEMMA TickTyped ==
  ASSUME Typed, TimersInv, Tick
  PROVE  Typed'
<1> USE EntryAssumption
<1>1. StageInv'
  <2>1. UNCHANGED <<answer, stage, entry>> /\ \A w \in Workers : stage[w] = "idle" => lag'[w] = 0
    BY DEF Tick, Busy, Registry!Tick
  <2>2. QED
    BY <2>1 DEF Typed, StageInv, Holds
<1>2. window' \in [IPs -> 0..TTL]
  BY DEF Tick, Registry!Tick, Registry!Decrement, Typed, TypeOK
<1>3. lag' \in [Workers -> 0..MaxLag]
  BY DEF Tick, Busy, Typed, TypeOK
<1>4. recent' \in [IPs -> 0..Gone]
  BY DEF Tick, Typed, TypeOK, Gone
<1>5. cooling' \in 0..Cooldown
  <2>1. cooling' = IF cooling = 0 THEN 0 ELSE cooling - 1
    BY TickEffect
  <2>2. cooling \in 0..Cooldown
    BY DEF Typed, TypeOK
  <2>3. QED
    BY <2>1, <2>2
<1>6. overdue' \in 0..(Overdue + 1)
  BY DEF Tick, Typed, TypeOK, Overdue
<1>7. TypeOK'
  BY <1>2, <1>3, <1>4, <1>5, <1>6, TickEffect DEF Typed, TypeOK
<1>8. QED
  BY <1>1, <1>7 DEF Typed


(* Every step keeps the types and what the stages say.                      *)
LEMMA TypedStep == Typed /\ TimersInv /\ [Next]_entryVars => Typed'
<1> SUFFICES ASSUME Typed, TimersInv, [Next]_entryVars PROVE Typed'
  OBVIOUS
<1>1. CASE UNCHANGED entryVars
  BY <1>1 DEF entryVars, registryVars, workerVars, taskVars, historyVars, Typed, TypeOK, StageInv,
     Holds
<1>2. ASSUME NEW w \in Workers, NEW i \in IPs, RecordEvent(w, i) PROVE Typed'
  BY <1>2, RecordTyped
<1>3. ASSUME NEW w \in Workers, WorkerStep(w) \/ FailScript(w) \/ FailBlock(w) PROVE Typed'
  BY <1>3, CheckAndAddTyped, FailScriptTyped, CountTyped, WorkerTyped DEF WorkerStep
<1>4. CASE RunTask \/ FireClear \/ FailClear \/ ResetSharingState \/ Restart \/ Tick
  BY <1>4, TasksTyped, RestartTyped, TickTyped
<1>5. QED
  BY <1>1, <1>2, <1>3, <1>4 DEF Next

--------------------------------------------------------------------------
(* The budget of time *)

(* One more answer costs one more cooldown.                                 *)
LEMMA Budget ==
  /\ \A n \in Nat : n * Cooldown \in Nat /\ (n + 1) * Cooldown = n * Cooldown + Cooldown
  /\ 0 * Cooldown = 0
BY EntryAssumption

(* The clear that fires next is under way, with no more than ClearDelay left.*)
LEMMA LeftType ==
  ASSUME Typed
  PROVE  /\ Left \in 0..ClearDelay
         /\ \A k \in DOMAIN timers : timers[k] \in 0..ClearDelay /\ k \in Nat \ {0}
         /\ timers # <<>> => 1 \in DOMAIN timers
         /\ timers = <<>> => DOMAIN timers = {}
<1>1. DOMAIN timers = 1..Len(timers) /\ Len(timers) \in Nat
      /\ timers \in [1..Len(timers) -> 0..ClearDelay]
  BY LenProperties DEF Typed, TypeOK
<1>2. \A k \in DOMAIN timers : timers[k] \in 0..ClearDelay /\ k \in Nat \ {0}
  BY <1>1
<1>3. (timers # <<>> => 1 \in DOMAIN timers) /\ (timers = <<>> => DOMAIN timers = {})
  <2>1. timers # <<>> => 1 \in DOMAIN timers
    BY TailValues DEF Typed, TypeOK
  <2>2. QED
    BY <2>1
<1>4. QED
  BY <1>2, <1>3, EntryAssumption DEF Left

(* What is lost on one side of a bound by a tick is gained on the other, or *)
(* lost on both; and a bound that grows still holds.                        *)
LEMMA Sums ==
  \A c, d, x, y \in Nat :
    /\ x <= c + y /\ d + 1 >= c => x <= d + (y + 1)
    /\ y >= 1 /\ x + y <= c + MaxLag + ClearDelay /\ d + 1 >= c =>
         x + (y - 1) <= d + MaxLag + ClearDelay
    /\ y >= 1 /\ x + y <= Cooldown /\ d <= x + 1 => d + (y - 1) <= Cooldown
    /\ x + y <= c + MaxLag + ClearDelay /\ d >= c => x + y <= d + MaxLag + ClearDelay
BY EntryAssumption

(* A step that gives no clear to the channel or the timer, that leaves every *)
(* answer "block" with as much of its cooldown, and that uses no evidence   *)
(* anew keeps the budget.                                                   *)
LEMMA SameBudget ==
  ASSUME Typed, ClearInv, UNCHANGED <<clears, timers, stale, unclear>>,
         charged' \subseteq charged,
         cooling' \in Nat, cooling' >= cooling,
         \A w \in Workers : Holds(w)' => Cooldown <= cooling' + lag'[w]
  PROVE  ClearInv'
<1>1. cooling \in Nat /\ Left \in Nat /\ stale * Cooldown \in Nat
  <2>1. cooling \in Nat /\ stale \in Nat
    BY EntryAssumption DEF Typed, TypeOK
  <2>2. Left \in Nat
    BY LeftType, EntryAssumption
  <2>3. stale * Cooldown \in Nat
    BY <2>1, Budget
  <2>4. QED
    BY <2>1, <2>2, <2>3
<1>2. Left' = Left /\ (Pending' <=> Pending)
  BY DEF Left, Pending
<1>3. clears' > 0 => Cooldown <= cooling' + MaxLag
  BY <1>1, EntryAssumption DEF ClearInv
<1>4. \A k \in DOMAIN timers' : Cooldown + timers'[k] <= cooling' + MaxLag + ClearDelay
  <2> SUFFICES ASSUME NEW k \in DOMAIN timers
               PROVE  Cooldown + timers[k] <= cooling' + MaxLag + ClearDelay
    OBVIOUS
  <2>1. timers[k] \in Nat /\ Cooldown + timers[k] <= cooling + MaxLag + ClearDelay
    BY LeftType, EntryAssumption DEF ClearInv
  <2>2. QED
    BY <1>1, <2>1, Sums, EntryAssumption
<1>5. ~unclear' /\ Pending' =>
        stale' * Cooldown + Cooldown + Left' <= cooling' + MaxLag + ClearDelay
  <2> DEFINE b == stale * Cooldown
  <2>1. b \in Nat /\ stale' * Cooldown = b
    BY <1>1
  <2>2. ~unclear /\ Pending => b + Cooldown + Left <= cooling + MaxLag + ClearDelay
    BY DEF ClearInv
  <2> HIDE DEF b
  <2>3. QED
    BY <1>1, <1>2, <2>1, <2>2, EntryAssumption
<1>6. /\ ~unclear' /\ ~Pending' => charged' = {} /\ stale' = 0
      /\ unclear' => stale' = 0
  BY <1>2 DEF ClearInv
<1>7. QED
  BY <1>3, <1>4, <1>5, <1>6 DEF ClearInv

(* A script that answers "block" begins a cooldown and may use a cooldown   *)
(* of the budget: the one before is over.                                   *)
LEMMA CheckAndAddBudget ==
  ASSUME Typed, ClearInv, NEW w \in Workers, CheckAndAddIP(w)
  PROVE  ClearInv'
<1> DEFINE a == Registry!Answer(Live')
<1>1. /\ UNCHANGED <<clears, timers, unclear>> /\ charged' \subseteq charged
      /\ lag' = lag
  BY CheckAndAddEffect DEF CheckAndAddIP, taskVars, GoOn
<1>2. /\ a.status = "block" => cooling = 0
      /\ \A v \in Workers : Holds(v)' <=> \/ v # w /\ Holds(v)
                                          \/ v = w /\ a.status = "block"
      /\ answer'[w] = a
  BY CheckAndAddEffect
<1>3. cooling' = (IF a.status = "block" THEN Cooldown ELSE cooling) /\ entry[w] \in IPs
  BY CheckAndAddEffect, SightEffect DEF CheckAndAddIP
<1>4. cooling \in Nat /\ \A v \in Workers : lag[v] \in Nat
  BY EntryAssumption DEF Typed, TypeOK
<1>5. cooling' \in Nat /\ cooling' >= cooling
  BY <1>2, <1>3, <1>4, EntryAssumption
<1>6. \A v \in Workers : Holds(v)' => Cooldown <= cooling' + lag'[v]
  BY <1>1, <1>2, <1>3, <1>4, EntryAssumption DEF ClearInv
<1>7. CASE stale' = stale
  BY <1>1, <1>5, <1>6, <1>7, SameBudget
<1>8. CASE stale' # stale
  <2>1. a.status = "block" /\ stale' = stale + 1 /\ ~unclear /\ charged # {}
    BY <1>1, <1>2, <1>8 DEF CheckAndAddIP
  <2>2. cooling = 0 /\ cooling' = Cooldown /\ Pending
    BY <1>2, <1>3, <2>1 DEF ClearInv
  <2>3. Left' = Left /\ (Pending' <=> Pending)
    BY <1>1 DEF Left, Pending
  <2>4. stale' * Cooldown + Cooldown + Left' <= cooling' + MaxLag + ClearDelay
    <3> DEFINE b == stale * Cooldown
    <3>1. b \in Nat /\ stale' * Cooldown = b + Cooldown /\ Left \in Nat
      <4>1. stale \in Nat
        BY DEF Typed, TypeOK
      <4>2. Left \in Nat
        BY LeftType, EntryAssumption
      <4>3. stale * Cooldown \in Nat /\ (stale + 1) * Cooldown = stale * Cooldown + Cooldown
        BY <4>1, Budget
      <4>4. QED
        BY <2>1, <4>2, <4>3
    <3>2. b + Cooldown + Left <= 0 + MaxLag + ClearDelay
      BY <2>1, <2>2 DEF ClearInv
    <3> HIDE DEF b
    <3>3. QED
      BY <2>2, <2>3, <3>1, <3>2, EntryAssumption
  <2>5. clears' > 0 => Cooldown <= cooling' + MaxLag
    BY <2>2, EntryAssumption
  <2>6. \A k \in DOMAIN timers' : Cooldown + timers'[k] <= cooling' + MaxLag + ClearDelay
    BY <1>1, <2>2, LeftType, EntryAssumption
  <2>7. QED
    BY <1>1, <1>6, <2>1, <2>2, <2>3, <2>4, <2>5, <2>6 DEF ClearInv
<1>9. QED
  BY <1>7, <1>8


(* A published block adds its clear to the budget, or gives up the claim.   *)
LEMMA PublishBudget ==
  ASSUME Typed, ClearInv, NEW w \in Workers, PublishBlock(w)
  PROVE  ClearInv'
<1>1. /\ Holds(w) /\ UNCHANGED <<timers, cooling>>
      /\ \A v \in Workers : Holds(v)' => Holds(v) /\ lag'[v] = lag[v]
  BY PublishMoves, MovesEffect
<1>2. \/ clears' = clears + 1 /\ UNCHANGED <<stale, unclear>>
      \/ unclear' = TRUE /\ clears' = clears /\ stale' = 0
  BY DEF PublishBlock, Queued, LoseClear
<1>3. /\ cooling \in Nat /\ clears \in Nat /\ MaxLag \in Nat /\ Cooldown \in Nat
      /\ \A v \in Workers : lag[v] \in Nat /\ lag[v] <= MaxLag
  BY EntryAssumption DEF Typed, TypeOK
<1>4. \A v \in Workers : Holds(v)' => Cooldown <= cooling' + lag'[v]
  BY <1>1 DEF ClearInv
<1>5. Cooldown <= cooling + MaxLag
  <2>1. Cooldown <= cooling + lag[w]
    BY <1>1 DEF ClearInv
  <2>2. QED
    BY <1>3, <2>1
<1>6. \A k \in DOMAIN timers' : Cooldown + timers'[k] <= cooling' + MaxLag + ClearDelay
  BY <1>1 DEF ClearInv
<1>7. Left' = Left
  BY <1>1 DEF Left
<1>8. ~unclear' => ~unclear /\ clears' = clears + 1 /\ stale' = stale
  BY <1>2
<1>9. ~unclear' => Pending'
  BY <1>3, <1>8 DEF Pending
<1>10. ~unclear' => stale' * Cooldown + Cooldown + Left' <= cooling' + MaxLag + ClearDelay
  <2>1. CASE Pending
    BY <1>1, <1>7, <1>8, <2>1 DEF ClearInv
  <2>2. ASSUME ~Pending, ~unclear'
        PROVE  stale' * Cooldown + Cooldown + Left' <= cooling' + MaxLag + ClearDelay
    <3>1. stale' = 0 /\ Left' = ClearDelay
      BY <1>7, <1>8, <2>2 DEF ClearInv, Pending, Left
    <3>2. stale' * Cooldown = 0
      BY <3>1, Budget
    <3>3. QED
      BY <1>1, <1>3, <1>5, <3>1, <3>2, EntryAssumption
  <2>3. QED
    BY <2>1, <2>2
<1>11. clears' > 0 => Cooldown <= cooling' + MaxLag
  BY <1>1, <1>5
<1>12. QED
  BY <1>2, <1>4, <1>6, <1>9, <1>10, <1>11 DEF ClearInv

(* The clear in the channel becomes the last of the timers.                 *)
LEMMA RunTaskBudget ==
  ASSUME Typed, TimersInv, ClearInv, RunTask
  PROVE  TimersInv' /\ ClearInv'
<1>1. /\ clears > 0 /\ clears' = clears - 1 /\ timers' = Append(timers, ClearDelay)
      /\ UNCHANGED <<cooling, answer, lag, charged, stale, unclear>>
  BY DEF RunTask, registryVars, workerVars, historyVars
<1>2. timers \in Seq(0..ClearDelay) /\ ClearDelay \in 0..ClearDelay /\ clears \in Nat
      /\ cooling \in Nat
  BY EntryAssumption DEF Typed, TypeOK
<1> DEFINE n == Len(timers)
<1>3. /\ timers' # <<>> /\ DOMAIN timers' = 1..(n + 1) /\ DOMAIN timers = 1..n /\ n \in Nat
      /\ \A k \in 1..(n + 1) : timers'[k] = IF k = n + 1 THEN ClearDelay ELSE timers[k]
      /\ timers = <<>> => n = 0
      /\ timers # <<>> => 1 \in DOMAIN timers
  BY <1>1, <1>2, AppendValues
<1> HIDE DEF n
<1>4. \A k \in 1..n : timers[k] \in 0..ClearDelay
  BY <1>3, LeftType
<1>5. TimersInv'
  <2> SUFFICES ASSUME NEW j \in 1..(n + 1), NEW k \in 1..(n + 1), j <= k
               PROVE  timers'[j] <= timers'[k]
    BY <1>3 DEF TimersInv
  <2>1. CASE k = n + 1
    <3>1. timers'[k] = ClearDelay /\ timers'[j] \in 0..ClearDelay
      BY <1>2, <1>3, <1>4, <2>1
    <3>2. QED
      BY <3>1, EntryAssumption
  <2>2. CASE k # n + 1
    <3>1. j \in 1..n /\ k \in 1..n /\ timers'[j] = timers[j] /\ timers'[k] = timers[k]
      BY <1>3, <2>2
    <3>2. QED
      BY <1>3, <3>1 DEF TimersInv
  <2>3. QED
    BY <2>1, <2>2
<1>6. Cooldown <= cooling + MaxLag
  BY <1>1 DEF ClearInv
<1>7. \A k \in DOMAIN timers' : Cooldown + timers'[k] <= cooling' + MaxLag + ClearDelay
  <2> SUFFICES ASSUME NEW k \in 1..(n + 1)
               PROVE  Cooldown + timers'[k] <= cooling + MaxLag + ClearDelay
    BY <1>1, <1>3
  <2>1. CASE k = n + 1
    BY <1>2, <1>3, <1>6, <2>1, EntryAssumption
  <2>2. CASE k # n + 1
    <3>1. k \in DOMAIN timers /\ timers'[k] = timers[k]
      BY <1>3, <2>2
    <3>2. QED
      BY <3>1 DEF ClearInv
  <2>3. QED
    BY <2>1, <2>2
<1>8. Pending /\ Pending'
  BY <1>1, <1>3 DEF Pending
<1>9. Left' = Left
  <2>1. timers = <<>> => timers'[1] = ClearDelay
    BY <1>3
  <2>2. timers # <<>> => timers'[1] = timers[1]
    BY <1>3
  <2>3. QED
    BY <1>3, <2>1, <2>2 DEF Left
<1>10. \A w \in Workers : Holds(w)' => Cooldown <= cooling' + lag'[w]
  BY <1>1 DEF ClearInv, Holds
<1>11. ~unclear' /\ Pending' =>
         stale' * Cooldown + Cooldown + Left' <= cooling' + MaxLag + ClearDelay
  BY <1>1, <1>8, <1>9 DEF ClearInv
<1>12. clears' > 0 => Cooldown <= cooling' + MaxLag
  BY <1>1, <1>6
<1>13. QED
  BY <1>1, <1>5, <1>7, <1>8, <1>10, <1>11, <1>12 DEF ClearInv

(* When a timer fires the next one, or a clear in the channel, has a budget *)
(* of its own: nothing is left to be used again, or the claim is given up.  *)
LEMMA TimerBudget ==
  ASSUME Typed, TimersInv, ClearInv, FireClear \/ FailClear
  PROVE  TimersInv' /\ ClearInv'
<1>1. /\ timers # <<>> /\ timers' = Tail(timers)
      /\ UNCHANGED <<cooling, answer, lag, clears>>
      /\ stale' = 0
      /\ unclear' \/ charged' = {}
  BY DEF FireClear, FailClear, Due, registryVars, workerVars, Registry!Clear, LoseClear
<1>2. /\ timers' \in Seq(0..ClearDelay)
      /\ \A k \in DOMAIN timers' : k + 1 \in DOMAIN timers /\ timers'[k] = timers[k + 1] /\ k \in Nat
  BY <1>1, TailValues DEF Typed, TypeOK
<1>3. TimersInv'
  <2> SUFFICES ASSUME NEW j \in DOMAIN timers', NEW k \in DOMAIN timers', j <= k
               PROVE  timers'[j] <= timers'[k]
    BY DEF TimersInv
  <2>1. j + 1 <= k + 1 /\ j + 1 \in DOMAIN timers /\ k + 1 \in DOMAIN timers
    BY <1>2
  <2>2. QED
    BY <1>2, <2>1 DEF TimersInv
<1>4. \A k \in DOMAIN timers' : Cooldown + timers'[k] <= cooling' + MaxLag + ClearDelay
  BY <1>1, <1>2 DEF ClearInv
<1>5. Pending' => Cooldown + Left' <= cooling' + MaxLag + ClearDelay
  <2>1. CASE timers' # <<>>
    <3>1. 1 \in DOMAIN timers'
      BY <1>2, <2>1, TailValues
    <3>2. QED
      BY <1>4, <2>1, <3>1 DEF Left
  <2>2. ASSUME timers' = <<>>, Pending'
        PROVE  Cooldown + Left' <= cooling' + MaxLag + ClearDelay
    <3>1. Left' = ClearDelay /\ Cooldown <= cooling + MaxLag
      BY <1>1, <2>2 DEF Left, Pending, ClearInv
    <3>2. cooling \in Nat
      BY EntryAssumption DEF Typed, TypeOK
    <3>3. QED
      BY <1>1, <3>1, <3>2, EntryAssumption
  <2>3. QED
    BY <2>1, <2>2
<1>6. Pending' => stale' * Cooldown + Cooldown + Left' <= cooling' + MaxLag + ClearDelay
  <2>1. Left' \in Nat
    <3>1. timers' # <<>> => timers'[1] \in 0..ClearDelay
      <4>1. timers' # <<>> => 1 \in DOMAIN timers'
        BY <1>2, TailValues
      <4>2. timers' \in [1..Len(timers') -> 0..ClearDelay] /\ DOMAIN timers' = 1..Len(timers')
        BY <1>2, LenProperties
      <4>3. QED
        BY <4>1, <4>2
    <3>2. QED
      BY <3>1, EntryAssumption DEF Left
  <2>2. stale' * Cooldown = 0
    BY <1>1, Budget
  <2>3. stale' * Cooldown + Cooldown + Left' = Cooldown + Left'
    BY <2>1, <2>2, EntryAssumption
  <2>4. QED
    BY <1>5, <2>3
<1>7. (clears' > 0 => Cooldown <= cooling' + MaxLag)
      /\ \A w \in Workers : Holds(w)' => Cooldown <= cooling' + lag'[w]
  BY <1>1 DEF ClearInv, Holds
<1>8. ~unclear' /\ ~Pending' => charged' = {} /\ stale' = 0
  BY <1>1
<1>9. QED
  BY <1>1, <1>3, <1>4, <1>6, <1>7, <1>8 DEF ClearInv

(* A tick takes as much from what is left of the clear as of the cooldown.  *)
LEMMA TickBudget ==
  ASSUME Typed, TimersInv, ClearInv, Tick
  PROVE  TimersInv' /\ ClearInv'
<1>1. /\ clears = 0 /\ clears' = 0 /\ DOMAIN timers' = DOMAIN timers
      /\ \A k \in DOMAIN timers : timers[k] \in 1..ClearDelay /\ timers'[k] = timers[k] - 1
      /\ \A w \in Workers : stage[w] # "idle" => lag'[w] = lag[w] + 1
      /\ cooling' = IF cooling = 0 THEN 0 ELSE cooling - 1
      /\ UNCHANGED <<answer, charged, stale, unclear>>
  BY TickEffect
<1>2. /\ cooling \in Nat /\ \A w \in Workers : lag[w] \in Nat
      /\ ClearDelay \in Nat /\ Cooldown \in Nat /\ MaxLag \in Nat
  BY EntryAssumption DEF Typed, TypeOK
<1>3. cooling' \in Nat /\ cooling' + 1 >= cooling
  BY <1>1, <1>2
<1>4. TimersInv'
  <2> SUFFICES ASSUME NEW j \in DOMAIN timers, NEW k \in DOMAIN timers, j <= k
               PROVE  timers'[j] <= timers'[k]
    BY <1>1 DEF TimersInv
  <2>1. timers[j] <= timers[k]
    BY DEF TimersInv
  <2>2. QED
    BY <1>1, <1>2, <2>1
<1>5. \A w \in Workers : Holds(w)' => Cooldown <= cooling' + lag'[w]
  <2> SUFFICES ASSUME NEW w \in Workers, Holds(w)'
               PROVE  Cooldown <= cooling' + lag'[w]
    OBVIOUS
  <2>1. Holds(w) /\ stage[w] # "idle"
    BY <1>1, NoAnswerType DEF Holds, Typed, StageInv
  <2>2. Cooldown <= cooling + lag[w] /\ lag'[w] = lag[w] + 1
    BY <1>1, <2>1 DEF ClearInv
  <2>3. Cooldown <= cooling' + (lag[w] + 1)
    BY <1>2, <1>3, <2>2, Sums
  <2>4. QED
    BY <2>2, <2>3
<1>6. \A k \in DOMAIN timers' : Cooldown + timers'[k] <= cooling' + MaxLag + ClearDelay
  <2> SUFFICES ASSUME NEW k \in DOMAIN timers
               PROVE  Cooldown + timers'[k] <= cooling' + MaxLag + ClearDelay
    BY <1>1
  <2>1. Cooldown + timers[k] <= cooling + MaxLag + ClearDelay
    BY DEF ClearInv
  <2>2. QED
    BY <1>1, <1>2, <1>3, <2>1
<1>7. Pending' <=> Pending
  <2>1. (timers = <<>>) <=> (timers' = <<>>)
    <3>1. /\ timers \in Seq(0..ClearDelay) /\ timers' \in Seq(0..ClearDelay)
          /\ DOMAIN timers' = DOMAIN timers
      BY TickEffect DEF Typed, TypeOK
    <3>2. /\ timers # <<>> => 1 \in DOMAIN timers
          /\ timers' # <<>> => 1 \in DOMAIN timers'
      BY <3>1, TailValues
    <3>3. QED
      BY <3>1, <3>2
  <2>2. QED
    BY <1>1, <2>1 DEF Pending
<1>8. ~unclear' /\ Pending' =>
        stale' * Cooldown + Cooldown + Left' <= cooling' + MaxLag + ClearDelay
  <2> DEFINE b == stale * Cooldown
  <2> SUFFICES ASSUME ~unclear', Pending'
               PROVE  b + Cooldown + Left' <= cooling' + MaxLag + ClearDelay
    BY <1>1
  <2>1. timers # <<>> /\ timers' # <<>> /\ 1 \in DOMAIN timers
    BY <1>1, <1>7, LeftType DEF Pending
  <2>2. Left = timers[1] /\ Left' = timers[1] - 1 /\ timers[1] \in 1..ClearDelay
    BY <1>1, <2>1 DEF Left
  <2>3. b + Cooldown + Left <= cooling + MaxLag + ClearDelay
    BY <1>1, <1>7 DEF ClearInv
  <2>4. b \in Nat
    BY Budget DEF Typed, TypeOK
  <2> HIDE DEF b
  <2>5. b + Cooldown \in Nat /\ timers[1] \in Nat /\ timers[1] >= 1
    BY <1>2, <2>2, <2>4
  <2>6. (b + Cooldown) + (timers[1] - 1) <= cooling' + MaxLag + ClearDelay
    BY <1>2, <1>3, <2>2, <2>3, <2>5, Sums
  <2>7. QED
    BY <2>2, <2>6
<1>9. (~unclear' /\ ~Pending' => charged' = {} /\ stale' = 0) /\ (unclear' => stale' = 0)
  BY <1>1, <1>7 DEF ClearInv
<1>10. QED
  BY <1>1, <1>4, <1>5, <1>6, <1>8, <1>9 DEF ClearInv

(* Every step keeps the budget.                                             *)
LEMMA BudgetStep ==
  Typed /\ TimersInv /\ ClearInv /\ [Next]_entryVars => TimersInv' /\ ClearInv'
<1> SUFFICES ASSUME Typed, TimersInv, ClearInv, [Next]_entryVars
             PROVE  TimersInv' /\ ClearInv'
  OBVIOUS
<1>1. UNCHANGED timers => TimersInv'
  BY DEF TimersInv
<1>2. /\ cooling \in 0..Cooldown /\ \A w \in Workers : Holds(w) => Cooldown <= cooling + lag[w]
      /\ cooling \in Nat /\ cooling >= cooling
  BY EntryAssumption DEF Typed, TypeOK, ClearInv
<1>3. ASSUME UNCHANGED <<clears, timers, charged, stale, unclear, cooling>>,
             \A w \in Workers : Holds(w)' => Holds(w) /\ UNCHANGED lag[w]
      PROVE  ClearInv'
  BY <1>2, <1>3, SameBudget
<1>4. CASE UNCHANGED entryVars
  BY <1>1, <1>3, <1>4
     DEF entryVars, registryVars, workerVars, taskVars, historyVars, Holds
<1>5. ASSUME NEW w \in Workers, NEW i \in IPs, RecordEvent(w, i) PROVE TimersInv' /\ ClearInv'
  BY <1>1, <1>3, <1>5 DEF RecordEvent, registryVars, taskVars, Holds
<1>6. ASSUME NEW w \in Workers, CheckAndAddIP(w) PROVE TimersInv' /\ ClearInv'
  BY <1>1, <1>6, CheckAndAddBudget DEF CheckAndAddIP, taskVars
<1>7. ASSUME NEW w \in Workers, FailScript(w) PROVE TimersInv' /\ ClearInv'
  <2>1. /\ UNCHANGED <<clears, timers, stale, unclear, answer>> /\ charged' \subseteq charged
        /\ entry[w] \in IPs
    BY <1>7 DEF FailScript, taskVars, Typed, StageInv
  <2>2. cooling' \in 0..Cooldown /\ (cooling # 0 => cooling' = cooling)
    BY <1>7, <2>1, SightEffect DEF FailScript
  <2>3. cooling' \in Nat /\ cooling' >= cooling
    BY <1>2, <2>2, EntryAssumption
  <2>4. \A v \in Workers : Holds(v)' => Holds(v) /\ lag'[v] = lag[v]
    BY <1>7, <2>1, FailScriptTyped DEF Holds
  <2>5. \A v \in Workers : lag[v] \in Nat
    BY EntryAssumption DEF Typed, TypeOK
  <2>6. \A v \in Workers : Holds(v)' => Cooldown <= cooling' + lag'[v]
    BY <1>2, <2>3, <2>4, <2>5, EntryAssumption
  <2>7. QED
    BY <1>1, <2>1, <2>3, <2>6, SameBudget
<1>8. ASSUME NEW w \in Workers, CountSources(w) PROVE TimersInv' /\ ClearInv'
  BY <1>1, <1>3, <1>8 DEF CountSources, registryVars, taskVars, historyVars, Holds
<1>9. ASSUME NEW w \in Workers, UpdateStanding(w) \/ Decide(w) \/ FailBlock(w)
      PROVE  TimersInv' /\ ClearInv'
  <2>1. \E s \in {"decide", "publish"} : Moves(w, s)
    BY <1>9, UpdateMoves, DecideMoves, PublishMoves
  <2>2. UNCHANGED cooling /\ \A v \in Workers : Holds(v)' => Holds(v) /\ UNCHANGED lag[v]
    BY <2>1, MovesEffect
  <2>3. UNCHANGED <<clears, timers, charged, stale, unclear>>
    BY <1>9, UpdateMoves, DecideMoves DEF FailBlock, taskVars
  <2>4. QED
    BY <1>1, <1>3, <2>2, <2>3
<1>10. ASSUME NEW w \in Workers, PublishBlock(w) PROVE TimersInv' /\ ClearInv'
  BY <1>1, <1>10, PublishBudget, PublishMoves
<1>11. CASE RunTask
  BY <1>11, RunTaskBudget
<1>12. CASE FireClear \/ FailClear
  BY <1>12, TimerBudget
<1>13. CASE ResetSharingState
  BY <1>1, <1>3, <1>13 DEF ResetSharingState, registryVars, workerVars, taskVars, Holds
<1>14. CASE Restart
  <2>1. /\ clears' = 0 /\ timers' = <<>> /\ unclear' /\ stale' = 0
        /\ \A w \in Workers : ~Holds(w)'
    BY <1>14, RestartTyped DEF Restart, LoseClear
  <2>2. DOMAIN timers' = {}
    BY <2>1
  <2>3. QED
    BY <2>1, <2>2 DEF TimersInv, ClearInv
<1>15. CASE Tick
  BY <1>15, TickBudget
<1>16. QED
  BY <1>4, <1>5, <1>6, <1>7, <1>8, <1>9, <1>10, <1>11, <1>12, <1>13, <1>14, <1>15
     DEF Next, WorkerStep

--------------------------------------------------------------------------
(* The wait of an offender *)

(* Once the wait is over, no worker is needed.                              *)
LEMMA NoWait ==
  ASSUME overdue' = 0, cooling' \in 0..Cooldown,
         sighted' /\ cooling' = 0 => Cardinality(Live') <= Limit
  PROVE  WaitInv'
BY EntryAssumption DEF WaitInv

(* A worker that means to block keeps its answer, or what it has counted,   *)
(* and what it has still to count does not fall out of the windows.         *)
LEMMA MeansKept ==
  ASSUME Typed, NEW w \in Workers, Means(w), UNCHANGED <<answer[w], stage[w], sources[w]>>,
         stage[w] = "count" => Lately(w) \subseteq Lately(w)'
  PROVE  Means(w)'
<1>1. Holds(w)' /\ Blockable(answer'[w].ips) # {}
  BY DEF Means, Holds
<1>2. ASSUME stage[w] = "count"
      PROVE  OverLimit(Lately(w)')
  <2>1. Lately(w)' \in SUBSET IPs
    BY TypesOfAnswers DEF Typed, Lately
  <2>2. OverLimit(Lately(w)) /\ Lately(w) \in SUBSET Lately(w)'
    BY <1>2 DEF Means
  <2>3. QED
    BY <2>1, <2>2, OverLimitGrows
<1>3. stage[w] # "count" => sources'[w] > Limit
  BY DEF Means
<1>4. OverLimit(Lately(w)') => OverLimit(Lately(w))'
  BY DEF OverLimit, Sources
<1>5. QED
  BY <1>1, <1>2, <1>3, <1>4 DEF Means

(* The wait goes on while the cooldown and those who mean to block stand    *)
(* still.                                                                   *)
LEMMA SameWait ==
  ASSUME Typed, WaitInv, overdue' \in {overdue, 0}, cooling' = cooling,
         \A w \in Workers : Means(w) => Means(w)' /\ lag'[w] = lag[w],
         sighted' /\ cooling' = 0 => Cardinality(Live') <= Limit
  PROVE  WaitInv'
<1>1. cooling \in 0..Cooldown /\ overdue \in Nat
  BY EntryAssumption DEF Typed, TypeOK
<1>2. CASE overdue' = 0
  BY <1>1, <1>2, NoWait
<1>3. CASE overdue' = overdue
  BY <1>3 DEF WaitInv
<1>4. QED
  BY <1>2, <1>3

(* The addresses on record keep their number while the registry stands      *)
(* still.                                                                   *)
LEMMA SameLive ==
  ASSUME WaitInv, UNCHANGED <<window, cooling, sighted>>
  PROVE  sighted' /\ cooling' = 0 => Cardinality(Live') <= Limit
BY DEF WaitInv, Live


(* An event that is recorded takes none away that a worker has to count.    *)
LEMMA RecordWait ==
  ASSUME Typed, WaitInv, NEW w \in Workers, NEW i \in IPs, RecordEvent(w, i)
  PROVE  WaitInv'
<1>1. /\ UNCHANGED <<window, cooling, answer, lag, sources, sighted>>
      /\ stage[w] = "idle" /\ \A v \in Workers : v # w => stage'[v] = stage[v]
      /\ overdue' \in {overdue, 0}
  BY WatchBounds DEF RecordEvent, registryVars, Typed, TypeOK
<1>2. \A v \in Workers : Holds(v) => v # w
  BY <1>1, NoAnswerType DEF Holds, Typed, StageInv
<1>3. ASSUME NEW v \in Workers
      PROVE  Lately(v) \subseteq Lately(v)'
  <2> SUFFICES ASSUME NEW j \in Lately(v)
               PROVE  j \in Lately(v)'
    OBVIOUS
  <2>1. /\ j \in IPs /\ j \in answer[v].ips
        /\ recent[j] + MaxLag <= SourceWindow + lag[v]
        /\ recent[j] + MaxLag <= HeuristicsWindow + lag[v]
    BY TypesOfAnswers DEF Lately, Typed
  <2>2. recent[j] \in Nat /\ lag[v] \in Nat /\ lag[v] <= MaxLag
    BY <2>1, EntryAssumption DEF Typed, TypeOK, Gone
  <2>3. recent'[j] = IF j = i THEN 0 ELSE Pruned(recent[j])
    BY <2>1 DEF RecordEvent
  <2>4. recent[j] <= HeuristicsWindow
    BY <2>1, <2>2, EntryAssumption
  <2>5. recent'[j] \in {0, recent[j]}
    BY <2>3, <2>4 DEF Pruned
  <2>6. /\ recent'[j] + MaxLag <= SourceWindow + lag[v]
        /\ recent'[j] + MaxLag <= HeuristicsWindow + lag[v]
    BY <2>1, <2>2, <2>5, EntryAssumption
  <2>7. QED
    BY <1>1, <2>1, <2>6 DEF Lately
<1>4. \A v \in Workers : Means(v) => Means(v)' /\ lag'[v] = lag[v]
  <2> SUFFICES ASSUME NEW v \in Workers, Means(v)
               PROVE  Means(v)' /\ lag'[v] = lag[v]
    OBVIOUS
  <2>1. v # w
    BY <1>2 DEF Means
  <2>2. QED
    BY <1>1, <1>3, <2>1, MeansKept
<1>5. QED
  BY <1>1, <1>4, SameLive, SameWait

(* A worker that is answered "block" while the user offends means to block: *)
(* what makes the offence is in its answer, and lately seen.                *)
LEMMA CheckAndAddWait ==
  ASSUME Typed, WaitInv, NEW w \in Workers, CheckAndAddIP(w)
  PROVE  WaitInv'
<1> DEFINE a == Registry!Answer(Live')
<1>1. /\ UNCHANGED <<recent, lag, sources>>
      /\ Live' \in SUBSET IPs /\ entry[w] \in IPs
      /\ a.status = "block" => cooling = 0 /\ a.ips = Live'
      /\ \A v \in Workers : answer'[v] = IF v = w THEN a ELSE answer[v]
      /\ answer[w] = Registry!NoAnswer
      /\ GoOn(w, IF a.status = "block" THEN "count" ELSE "update")
  BY CheckAndAddEffect DEF CheckAndAddIP, GoOn
<1>2. /\ cooling' = IF a.status = "block" THEN Cooldown ELSE cooling
      /\ cooling' \in 0..Cooldown
      /\ cooling' = 0 => Cardinality(Live') <= Limit
  BY <1>1, SightEffect DEF CheckAndAddIP
<1>3. overdue' \in {overdue, 0} /\ (~Offending' => overdue' = 0)
  BY WatchBounds DEF CheckAndAddIP
<1>4. \A v \in Workers : Means(v) => Means(v)' /\ lag'[v] = lag[v]
  <2> SUFFICES ASSUME NEW v \in Workers, Means(v)
               PROVE  Means(v)'
    BY <1>1
  <2>1. v # w
    BY <1>1, NoAnswerType DEF Means, Holds
  <2>2. UNCHANGED <<answer[v], stage[v], sources[v]>>
    BY <1>1, <2>1 DEF GoOn, Typed, TypeOK
  <2>3. Lately(v)' = Lately(v)
    BY <1>1, <2>2 DEF Lately
  <2>4. QED
    BY <2>2, <2>3, MeansKept
<1>5. CASE a.status # "block"
  BY <1>2, <1>3, <1>4, <1>5, SameWait
<1>6. CASE a.status = "block" /\ Offending'
  <2>1. stage'[w] = "count" /\ answer'[w] = a /\ Holds(w)'
    BY <1>1, <1>6 DEF GoOn, Holds, Typed, TypeOK
  <2>2. Live' \cap Fresh' \subseteq Lately(w)'
    <3> SUFFICES ASSUME NEW i \in Live' \cap Fresh'
                 PROVE  i \in Lately(w)'
      OBVIOUS
    <3>1. /\ i \in IPs /\ recent'[i] + MaxLag <= SourceWindow
          /\ recent'[i] + MaxLag <= HeuristicsWindow
      BY DEF Fresh
    <3>2. recent'[i] \in Nat /\ lag'[w] \in Nat
      BY <1>1, <3>1, EntryAssumption DEF Typed, TypeOK, Gone
    <3>3. /\ recent'[i] + MaxLag <= SourceWindow + lag'[w]
          /\ recent'[i] + MaxLag <= HeuristicsWindow + lag'[w]
      BY <3>1, <3>2, EntryAssumption
    <3>4. QED
      BY <1>1, <1>6, <2>1, <3>3 DEF Lately
  <2>3. OverLimit(Lately(w)')
    <3>1. Lately(w)' \in SUBSET IPs
      BY <1>1, <1>6, <2>1 DEF Lately
    <3>2. OverLimit(Live' \cap Fresh') /\ Live' \cap Fresh' \in SUBSET Lately(w)'
      BY <1>6, <2>2 DEF Offending, OverLimit, Sources
    <3>3. QED
      BY <3>1, <3>2, OverLimitGrows
  <2>4. Blockable(answer'[w].ips) # {}
    BY <1>1, <1>6, <2>1 DEF Offending, Blockable
  <2>5. Means(w)'
    <3>1. OverLimit(Lately(w))'
      BY <2>3 DEF OverLimit, Sources
    <3>2. QED
      BY <2>1, <2>4, <3>1 DEF Means
  <2>6. \A v \in Workers : lag[v] \in Nat
    BY EntryAssumption DEF Typed, TypeOK
  <2>7. cooling = 0 /\ overdue \in Nat
    BY <1>1, <1>6, EntryAssumption DEF Typed, TypeOK
  <2>8. \E v \in Workers : Means(v)' /\ overdue <= Cooldown + lag'[v]
    <3>1. CASE overdue + cooling <= Cooldown
      <4>1. overdue <= Cooldown + lag[w]
        BY <2>6, <2>7, <3>1, EntryAssumption
      <4>2. QED
        BY <1>1, <2>5, <4>1
    <3>2. CASE \E v \in Workers : Means(v) /\ overdue <= Cooldown + lag[v]
      BY <1>4, <3>2
    <3>3. QED
      BY <3>1, <3>2 DEF WaitInv
  <2>9. \E v \in Workers : Means(v)' /\ overdue' <= Cooldown + lag'[v]
    <3>1. PICK v \in Workers : Means(v)' /\ overdue <= Cooldown + lag'[v]
      BY <2>8
    <3>2. overdue' <= Cooldown + lag'[v]
      BY <1>1, <1>3, <2>6, <2>7, <3>1, EntryAssumption
    <3>3. QED
      BY <3>1, <3>2
  <2>10. QED
    BY <1>2, <2>9 DEF WaitInv
<1>7. CASE ~Offending'
  BY <1>2, <1>3, <1>7, NoWait
<1>8. QED
  BY <1>5, <1>6, <1>7

(* A count takes in all that the worker was owed.                           *)
LEMMA CountWait ==
  ASSUME Typed, WaitInv, NEW w \in Workers, CountSources(w)
  PROVE  WaitInv'
<1>1. /\ UNCHANGED <<window, cooling, answer, lag, recent, sighted, overdue>>
      /\ stage[w] = "count" /\ stage'[w] = "update"
      /\ \A v \in Workers : v # w => UNCHANGED <<stage[v], sources[v]>>
  BY CountTyped DEF CountSources, registryVars, historyVars
<1>2. ASSUME Means(w) PROVE Means(w)'
  <2>1. PICK read \in 0..lag[w] : \E mobile \in SUBSET TakenIn(w, read) :
          sources'[w] = Sources(TakenIn(w, read), mobile)
    BY CountTyped
  <2>2. PICK mobile \in SUBSET TakenIn(w, read) :
          sources'[w] = Sources(TakenIn(w, read), mobile)
    BY <2>1
  <2>3. TakenIn(w, read) \in SUBSET IPs
    BY CountTyped
  <2>4. Lately(w) \subseteq TakenIn(w, read)
    <3> SUFFICES ASSUME NEW i \in Lately(w) PROVE i \in TakenIn(w, read)
      OBVIOUS
    <3>1. i \in answer[w].ips /\ i \in IPs /\ recent[i] + MaxLag <= SourceWindow + lag[w]
      BY TypesOfAnswers DEF Lately, Typed
    <3>2. recent[i] \in Nat /\ lag[w] \in Nat /\ lag[w] <= MaxLag /\ read \in Nat
      BY <3>1, EntryAssumption DEF Typed, TypeOK, Gone
    <3>3. recent[i] <= SourceWindow + read
      BY <3>1, <3>2, EntryAssumption
    <3>4. QED
      BY <3>1, <3>3 DEF TakenIn
  <2>5. Sources(TakenIn(w, read), mobile) > Limit
    BY <1>1, <1>2, <2>3, <2>4, OverLimitGrows DEF Means
  <2>6. QED
    BY <1>1, <1>2, <2>2, <2>5 DEF Means, Holds
<1>3. \A v \in Workers : Means(v) => Means(v)' /\ lag'[v] = lag[v]
  <2> SUFFICES ASSUME NEW v \in Workers, Means(v) PROVE Means(v)'
    BY <1>1
  <2>1. CASE v = w
    BY <1>2, <2>1
  <2>2. CASE v # w
    <3>1. Lately(v)' = Lately(v)
      BY <1>1 DEF Lately
    <3>2. QED
      BY <1>1, <2>2, <3>1, MeansKept
  <2>3. QED
    BY <2>1, <2>2
<1>4. overdue' \in {overdue, 0}
  BY <1>1
<1>5. QED
  BY <1>1, <1>3, <1>4, SameLive, SameWait


(* A reply that is lost ends the wait.                                      *)
LEMMA FailScriptWait ==
  ASSUME Typed, NEW w \in Workers, FailScript(w)
  PROVE  WaitInv'
<1>1. entry[w] \in IPs
  BY DEF FailScript, Typed, StageInv
<1>2. cooling' \in 0..Cooldown /\ (cooling' = 0 => Cardinality(Live') <= Limit)
  BY <1>1, SightEffect DEF FailScript
<1>3. overdue' = 0
  BY DEF FailScript, Watch
<1>4. QED
  BY <1>2, <1>3, NoWait

(* A worker lets an offender go only to publish the block, or when its      *)
(* standing no longer suffices.                                             *)
LEMMA MovesWait ==
  ASSUME Typed, WaitInv, NEW w \in Workers,
         UpdateStanding(w) \/ Decide(w) \/ PublishBlock(w) \/ FailBlock(w)
  PROVE  WaitInv'
<1>1. /\ UNCHANGED <<window, cooling, recent>>
      /\ \A v \in Workers : v # w => UNCHANGED <<answer[v], stage[v], lag[v], sources[v]>>
      /\ UNCHANGED sighted
  <2>1. \E s \in {"decide", "publish"} : Moves(w, s)
    BY UpdateMoves, DecideMoves, PublishMoves
  <2>2. QED
    BY <2>1, MovesEffect, UpdateMoves, DecideMoves, PublishMoves
<1>2. cooling' \in 0..Cooldown /\ (sighted' /\ cooling' = 0 => Cardinality(Live') <= Limit)
  BY <1>1, SameLive DEF Typed, TypeOK
<1>3. ASSUME NEW v \in Workers, Means(v), v # w PROVE Means(v)' /\ lag'[v] = lag[v]
  <2>1. Lately(v)' = Lately(v)
    BY <1>1, <1>3 DEF Lately
  <2>2. QED
    BY <1>1, <1>3, <2>1, MeansKept
<1>4. CASE UpdateStanding(w)
  <2>1. overdue' \in {overdue, 0}
    BY <1>4, WatchBounds DEF UpdateStanding
  <2>2. ASSUME Means(w) PROVE Means(w)' /\ lag'[w] = lag[w]
    <3>1. /\ stage[w] = "update" /\ stage' = [stage EXCEPT ![w] = "decide"]
          /\ UNCHANGED <<answer, lag, sources>>
      BY <1>4, <2>2, UpdateMoves DEF Means, GoOn, registryVars
    <3>2. stage'[w] = "decide"
      BY <3>1 DEF Typed, TypeOK
    <3>3. QED
      BY <2>2, <3>1, <3>2 DEF Means, Holds
  <2>3. QED
    BY <1>1, <1>2, <1>3, <2>1, <2>2, SameWait
<1>5. CASE Decide(w)
  <2>1. overdue' \in {overdue, 0} /\ (~Declines(w) \/ ~Offending' => overdue' = 0)
    BY <1>5 DEF Decide, Watch
  <2>2. CASE overdue' = 0
    BY <1>2, <2>2, NoWait
  <2>3. CASE overdue' # 0
    <3>1. Declines(w) /\ Offending' /\ overdue' = overdue
      BY <2>1, <2>3
    <3>2. Suffices
      BY <1>5, <3>1 DEF Decide, Offending, Suffices
    <3>3. ~Means(w)
      <4>1. stage[w] = "decide"
        BY <1>5 DEF Decide
      <4>2. sources[w] \in Nat /\ Limit \in Nat
        BY EntryAssumption DEF Typed, TypeOK
      <4>3. QED
        BY <3>1, <3>2, <4>1, <4>2 DEF Means, Declines
    <3>4. \A v \in Workers : Means(v) => Means(v)' /\ lag'[v] = lag[v]
      BY <1>3, <3>3
    <3>5. QED
      BY <1>1, <1>2, <2>1, <3>4, SameWait
  <2>4. QED
    BY <2>2, <2>3
<1>6. CASE PublishBlock(w) \/ FailBlock(w)
  <2>1. overdue' = 0
    BY <1>6 DEF PublishBlock, FailBlock, Watch
  <2>2. QED
    BY <1>2, <2>1, NoWait
<1>7. QED
  BY <1>4, <1>5, <1>6

(* Side tasks, timers and the administrator do not disturb a worker that    *)
(* means to block.                                                          *)
LEMMA TasksWait ==
  ASSUME Typed, WaitInv, RunTask \/ FireClear \/ FailClear \/ ResetSharingState
  PROVE  WaitInv'
<1>1. UNCHANGED <<answer, stage, lag, sources, recent, cooling, sighted>>
  BY TasksTyped
<1>2. overdue' \in {overdue, 0}
  <2>1. CASE RunTask \/ FailClear
    BY <2>1 DEF RunTask, FailClear, historyVars
  <2>2. CASE FireClear \/ ResetSharingState
    BY <2>2, WatchBounds DEF FireClear, ResetSharingState
  <2>3. QED
    BY <2>1, <2>2
<1>3. \A v \in Workers : Means(v) => Means(v)' /\ lag'[v] = lag[v]
  <2> SUFFICES ASSUME NEW v \in Workers, Means(v) PROVE Means(v)'
    BY <1>1
  <2>1. Lately(v)' = Lately(v)
    BY <1>1 DEF Lately
  <2>2. QED
    BY <1>1, <2>1, MeansKept
<1>4. sighted' /\ cooling' = 0 => Cardinality(Live') <= Limit
  <2>1. CASE FireClear
    <3>1. Live' = {}
      BY <2>1 DEF FireClear, Registry!Clear, Live
    <3>2. Cardinality(Live') = 0
      BY <3>1, FS_EmptySet
    <3>3. QED
      BY <3>2, EntryAssumption
  <2>2. CASE RunTask \/ FailClear \/ ResetSharingState
    <3>1. UNCHANGED window
      BY <2>2 DEF RunTask, FailClear, ResetSharingState, registryVars
    <3>2. QED
      BY <1>1, <3>1, SameLive
  <2>3. QED
    BY <2>1, <2>2
<1>5. QED
  BY <1>1, <1>2, <1>3, <1>4, SameWait

LEMMA RestartWait ==
  ASSUME Typed, WaitInv, Restart
  PROVE  WaitInv'
<1>1. UNCHANGED <<window, cooling, sighted>> /\ overdue' = 0
  BY DEF Restart, Watch
<1>2. cooling' \in 0..Cooldown
  BY <1>1 DEF Typed, TypeOK
<1>3. QED
  BY <1>1, <1>2, SameLive, NoWait

(* In a tick with an entry a cooldown is running, and it gets shorter by as *)
(* much as the wait gets longer; or the worker that means to block gets     *)
(* older by as much.                                                        *)
LEMMA TickWait ==
  ASSUME Typed, TimersInv, WaitInv, Tick
  PROVE  WaitInv'
<1>1. /\ \A w \in Workers : stage[w] # "idle" => lag'[w] = lag[w] + 1
      /\ cooling' = IF cooling = 0 THEN 0 ELSE cooling - 1
      /\ \A i \in IPs : recent'[i] \in {recent[i], recent[i] + 1}
      /\ UNCHANGED <<answer, stage, sources>>
      /\ sighted' = FALSE
  BY TickEffect
<1>2. cooling \in Nat /\ overdue \in Nat /\ cooling <= Cooldown
      /\ \A w \in Workers : lag[w] \in Nat
  BY EntryAssumption DEF Typed, TypeOK
<1>3. cooling' \in 0..Cooldown
  BY <1>1, <1>2, EntryAssumption
<1>4. /\ Offending' /\ sighted => overdue' \in {overdue, overdue + 1}
      /\ ~(Offending' /\ sighted) => overdue' = 0
  BY DEF Tick
<1>5. CASE overdue' = 0
  BY <1>1, <1>3, <1>5, NoWait
<1>6. CASE Offending' /\ sighted
  <2>1. Live' \subseteq Live /\ Live \in SUBSET IPs
    <3>1. \A i \in IPs : window'[i] = IF window[i] = 0 THEN 0 ELSE window[i] - 1
      BY DEF Tick, Registry!Tick, Registry!Decrement
    <3>2. \A i \in IPs : window[i] \in Nat
      BY EntryAssumption DEF Typed, TypeOK
    <3>3. \A i \in IPs : window'[i] > 0 => window[i] > 0
      BY <3>1, <3>2
    <3>4. QED
      BY <3>3 DEF Live
  <2>2. Cardinality(Live) > Limit
    <3>1. OverLimit(Live' \cap Fresh') /\ Live' \cap Fresh' \in SUBSET Live
      BY <1>6, <2>1 DEF Offending, OverLimit, Sources
    <3>2. QED
      BY <2>1, <3>1, OverLimitGrows
  <2>3. cooling # 0
    <3>1. Cardinality(Live) \in Nat /\ Limit \in Nat
      BY <2>1, CardinalityBound, EntryAssumption
    <3>2. QED
      BY <1>6, <2>2, <3>1 DEF WaitInv
  <2>4. cooling' = cooling - 1 /\ overdue' \in Nat /\ overdue' <= overdue + 1
    BY <1>1, <1>2, <1>4, <1>6, <2>3
  <2>5. CASE overdue + cooling <= Cooldown
    <3>1. overdue' + (cooling - 1) <= Cooldown
      BY <1>2, <2>3, <2>4, <2>5, Sums
    <3>2. QED
      BY <1>1, <2>4, <3>1 DEF WaitInv
  <2>6. ASSUME NEW w \in Workers, Means(w), overdue <= Cooldown + lag[w]
        PROVE  WaitInv'
    <3>1. lag'[w] = lag[w] + 1
      BY <1>1, <2>6, NoAnswerType DEF Means, Holds, Typed, StageInv
    <3>2. Lately(w) \subseteq Lately(w)'
      <4> SUFFICES ASSUME NEW i \in Lately(w) PROVE i \in Lately(w)'
        OBVIOUS
      <4>1. /\ i \in IPs /\ i \in answer[w].ips
            /\ recent[i] + MaxLag <= SourceWindow + lag[w]
            /\ recent[i] + MaxLag <= HeuristicsWindow + lag[w]
        BY TypesOfAnswers DEF Lately, Typed
      <4>2. recent[i] \in Nat /\ recent'[i] \in {recent[i], recent[i] + 1}
        BY <1>1, <4>1, EntryAssumption DEF Typed, TypeOK, Gone
      <4>3. /\ recent'[i] + MaxLag <= SourceWindow + (lag[w] + 1)
            /\ recent'[i] + MaxLag <= HeuristicsWindow + (lag[w] + 1)
        BY <1>2, <4>1, <4>2, EntryAssumption
      <4>4. QED
        BY <1>1, <3>1, <4>1, <4>3 DEF Lately
    <3>3. Means(w)'
      BY <1>1, <2>6, <3>2, MeansKept
    <3>4. overdue' <= Cooldown + (lag[w] + 1)
      BY <1>2, <2>4, <2>6, EntryAssumption
    <3>5. overdue' <= Cooldown + lag'[w]
      BY <3>1, <3>4
    <3>6. QED
      BY <1>1, <3>3, <3>5 DEF WaitInv
  <2>7. QED
    BY <2>5, <2>6 DEF WaitInv
<1>7. QED
  BY <1>4, <1>5, <1>6

(* Every step keeps the bound on the wait.                                  *)
LEMMA WaitStep == Typed /\ TimersInv /\ WaitInv /\ [Next]_entryVars => WaitInv'
<1> SUFFICES ASSUME Typed, TimersInv, WaitInv, [Next]_entryVars PROVE WaitInv'
  OBVIOUS
<1>1. CASE UNCHANGED entryVars
  <2>1. UNCHANGED <<window, cooling, answer, recent, stage, lag, sources, sighted, overdue>>
    BY <1>1 DEF entryVars, registryVars, workerVars, historyVars
  <2>2. \A w \in Workers : Means(w) => Means(w)' /\ lag'[w] = lag[w]
    <3> SUFFICES ASSUME NEW w \in Workers, Means(w) PROVE Means(w)'
      BY <2>1
    <3>1. Lately(w)' = Lately(w)
      BY <2>1 DEF Lately
    <3>2. QED
      BY <2>1, <3>1, MeansKept
  <2>3. QED
    BY <2>1, <2>2, SameLive, SameWait
<1>2. ASSUME NEW w \in Workers, NEW i \in IPs, RecordEvent(w, i) PROVE WaitInv'
  BY <1>2, RecordWait
<1>3. ASSUME NEW w \in Workers, WorkerStep(w) \/ FailScript(w) \/ FailBlock(w) PROVE WaitInv'
  BY <1>3, CheckAndAddWait, CountWait, MovesWait, FailScriptWait DEF WorkerStep
<1>4. CASE RunTask \/ FireClear \/ FailClear \/ ResetSharingState \/ Restart \/ Tick
  BY <1>4, TasksWait, RestartWait, TickWait
<1>5. QED
  BY <1>1, <1>2, <1>3, <1>4 DEF Next

--------------------------------------------------------------------------
(* The theorems *)

LEMMA InitInv == Init => Inv
<1> SUFFICES ASSUME Init PROVE Inv
  OBVIOUS
<1>1. Typed
  BY InitTyped
<1>2. /\ \A w \in Workers : ~Holds(w)
      /\ timers = <<>> /\ clears = 0 /\ charged = {} /\ stale = 0 /\ unclear = FALSE
      /\ overdue = 0 /\ cooling = 0 /\ sighted = FALSE
  BY NoAnswerType DEF Init, Registry!Init, Holds
<1>3. DOMAIN timers = {}
  BY <1>2
<1>4. TimersInv /\ ClearInv
  BY <1>2, <1>3 DEF TimersInv, ClearInv, Pending
<1>5. WaitInv
  BY <1>2, EntryAssumption DEF WaitInv
<1>6. QED
  BY <1>1, <1>4, <1>5 DEF Inv

LEMMA Invariance == Spec => []Inv
<1>1. Inv /\ [Next]_entryVars => Inv'
  BY TypedStep, BudgetStep, WaitStep DEF Inv
<1>2. QED
  BY InitInv, <1>1, PTL DEF Spec

(* TypeOK holds, whatever workers, timers, failures and restarts do.        *)
THEOREM EntriesTypeCorrect == Spec => []TypeOK
<1>1. Inv => TypeOK
  BY DEF Inv, Typed
<1>2. QED
  BY <1>1, Invariance, PTL

(* Evidence is used for more than one block only as often as cooldowns fit  *)
(* between an answer and the clear of its block, as long as no clear is     *)
(* lost; when the cooldown is longer than that, never.                      *)
THEOREM StaleEvidenceIsBounded == Spec => []StaleEvidenceBounded
<1>1. Inv => StaleEvidenceBounded
  <2> SUFFICES ASSUME Inv PROVE StaleEvidenceBounded
    OBVIOUS
  <2>1. stale \in Nat /\ cooling \in 0..Cooldown /\ Left \in Nat
    BY LeftType, EntryAssumption DEF Inv, Typed, TypeOK
  <2>2. CASE stale = 0
    <3>1. stale * Cooldown = 0
      BY <2>2, Budget
    <3>2. QED
      BY <3>1, EntryAssumption DEF StaleEvidenceBounded
  <2>3. CASE stale # 0
    <3> DEFINE b == stale * Cooldown
    <3>1. b + Cooldown + Left <= cooling + MaxLag + ClearDelay
      BY <2>3 DEF Inv, ClearInv
    <3>2. b \in Nat
      BY <2>1, Budget
    <3>3. b <= ClearDelay + MaxLag
      <4> HIDE DEF b
      <4>1. QED
        BY <2>1, <3>1, <3>2, EntryAssumption
    <3>4. QED
      BY <3>3 DEF StaleEvidenceBounded
  <2>4. QED
    BY <2>2, <2>3
<1>2. QED
  BY <1>1, Invariance, PTL

(* A user who goes on offending with too many sources seen lately is        *)
(* blocked before another cooldown and the time of one entry have passed.   *)
THEOREM OffendersAreBlocked == Spec => []OffenderBlockedInTime
<1>1. Inv => OffenderBlockedInTime
  <2> SUFFICES ASSUME Inv PROVE OffenderBlockedInTime
    OBVIOUS
  <2>1. overdue \in Nat /\ cooling \in Nat /\ \A w \in Workers : lag[w] \in 0..MaxLag
    BY EntryAssumption DEF Inv, Typed, TypeOK, Overdue
  <2>2. overdue <= Cooldown + MaxLag
    BY <2>1, EntryAssumption DEF Inv, WaitInv
  <2>3. QED
    BY <2>2 DEF OffenderBlockedInTime, Overdue
<1>2. QED
  BY <1>1, Invariance, PTL

=============================================================================
