--------------------------- MODULE AddressWindow ---------------------------
(***************************************************************************)
(* What the address registry promises about one user, without Redis keys:  *)
(* an address counts from the moment it is recorded for its time to live,  *)
(* or until the user is cleared; an answer is a function of the addresses  *)
(* that count at that moment and of the alert cooldown; and after an       *)
(* answer "block" the next one waits for the cooldown to pass.             *)
(* IPRegistry implements this (PROPERTY Window, theorem                    *)
(* RegistryImplementsWindow).                                              *)
(***************************************************************************)
EXTENDS Integers, FiniteSets

CONSTANTS
  IPs, Clients,
  TTLs,       \* the values the time to live may have
  Limit,      \* more addresses than this are too many
  Cooldown,   \* time between two answers "block"
  MayForget,  \* TRUE: an address may be forgotten early
  MayRetime   \* TRUE: the time left of an address may be set anew

VARIABLES
  window,  \* window[i]: time for which i still counts, 0 when it does not
  cooling, \* time left of the alert cooldown
  answer   \* answer[c]: the last answer client c got

vars == <<window, cooling, answer>>

NoAnswer == [status |-> "none", count |-> 0, ips |-> {}]

Decrement(n) == IF n = 0 THEN 0 ELSE n - 1

Init ==
  /\ window = [i \in IPs |-> 0]
  /\ cooling = 0
  /\ answer = [c \in Clients |-> NoAnswer]

(* The answer when the addresses in live count: only one over the limit     *)
(* names them.                                                              *)
Answer(live) ==
  LET n == Cardinality(live) IN
  IF n <= Limit THEN [status |-> "ok", count |-> n, ips |-> {}]
  ELSE [status |-> IF cooling = 0 THEN "block" ELSE "cooldown",
        count |-> n, ips |-> live]

(* Client c records i; the answer may be lost on its way. *)
Sight(c, i, t) ==
  /\ window' = [window EXCEPT ![i] = t]
  /\ LET a == Answer({j \in IPs : window'[j] > 0}) IN
       /\ cooling' = IF a.status = "block" THEN Cooldown ELSE cooling
       /\ \/ answer' = [answer EXCEPT ![c] = a]
          \/ UNCHANGED answer

(* Time passes; the addresses of lost are forgotten with it. *)
Tick(lost) ==
  /\ lost # {} => MayForget
  /\ window' = [i \in IPs |-> IF i \in lost THEN 0 ELSE Decrement(window[i])]
  /\ cooling' = Decrement(cooling)
  /\ UNCHANGED answer

Clear ==
  /\ window' = [i \in IPs |-> 0]
  /\ UNCHANGED <<cooling, answer>>

Forget(lost) ==
  /\ MayForget
  /\ window' = [i \in IPs |-> IF i \in lost THEN 0 ELSE window[i]]
  /\ UNCHANGED <<cooling, answer>>

Retime(kept, t) ==
  /\ MayRetime
  /\ window' = [i \in IPs |-> IF i \in kept /\ window[i] > 0 THEN t ELSE window[i]]
  /\ UNCHANGED <<cooling, answer>>

(* The client is done with its answer. *)
Consume(c) ==
  /\ answer' = [answer EXCEPT ![c] = NoAnswer]
  /\ UNCHANGED <<window, cooling>>

Next ==
  \/ \E c \in Clients, i \in IPs, t \in TTLs : Sight(c, i, t)
  \/ \E c \in Clients : Consume(c)
  \/ \E lost \in SUBSET IPs : Tick(lost) \/ Forget(lost)
  \/ \E kept \in SUBSET IPs, t \in TTLs : Retime(kept, t)
  \/ Clear

Spec == Init /\ [][Next]_vars
============================================================================
