----------------------------- MODULE PanelProofs -----------------------------
(***************************************************************************)
(* Proofs about RuntimeConfig, PanelLogin and PanelCache as Services runs  *)
(* them, for every set of administrators, settings and values, every       *)
(* number of logins and every panel.                                       *)
(*                                                                         *)
(* The overrides agree because a request that nothing disturbs is alone,   *)
(* and what it has already written is what it wants; and because whatever  *)
(* was saved passes the checks of a load.  The cache takes each limit from *)
(* the panel because a user not yet found is still ahead of the reader,    *)
(* unless it has been without a limit or a removal may have moved it.      *)
(***************************************************************************)
EXTENDS Services, SequenceTheorems, FiniteSetTheorems, TLAPS

--------------------------------------------------------------------------
(* The overrides. *)

\* The overrides pass what a load checks, so that it takes all of them.
Passes(over) == \A k \in Settings : over[k] # None => over[k] >= Least[k]

\* All copies are those of the overrides over.
AllAre(over) == /\ saved = over
                /\ live = over
                /\ effective = Config!Overridden(over)
                /\ own = Config!OwnPart(over)

Undisturbed(a) == asking[a] # "none" /\ a \notin disturbed

\* Requests that overlap are disturbed; one that is not has put in place all
\* that it has come to.
AloneInv ==
  /\ \A a, b \in Admins : a # b /\ asking[a] # "none" /\ asking[b] # "none" => a \in disturbed
  /\ \A a \in Admins : Undisturbed(a) =>
       /\ asking[a] \in {"saved", "resetting", "applied"} => saved = wanted[a]
       /\ asking[a] \in {"resetting", "applied"} => live = wanted[a]
       /\ asking[a] = "applied" => effective = Config!Overridden(wanted[a])

\* Copies that are not torn apart agree until a request saves.
AgreeInv ==
  ~torn => /\ \A a \in Admins : asking[a] # "none" => a \notin disturbed
           /\ (\A a \in Admins : asking[a] \in {"none", "ready"}) => AllAre(saved)

PassInv == /\ Passes(saved) /\ Passes(live)
           /\ \A a \in Admins : Passes(wanted[a])

ConfigInv == Config!TypeOK /\ AloneInv /\ AgreeInv /\ PassInv

(* A step of the services is one of the overrides or leaves them alone.     *)
LEMMA ConfigAlone ==
  ASSUME [Next]_vars
  PROVE  Config!Next \/ UNCHANGED configVars
BY DEF Next, vars, QueuesStep, HubStep, PublisherStep, ConfigStep, LoginStep, CacheStep,
       HealthStep, CountStep, CommandsStep, TerminalStep, AllOver, OthersRest

(* What Services assumes of the constants of the overrides.                 *)
LEMMA ConfigAssumed == Config!ConfigAssumption
  BY ServicesAssumption

(* Overridden and Nothing have their types, and Nothing passes a load.      *)
LEMMA OverrideTypes ==
  /\ \A over \in Config!Overrides : /\ Config!Overridden(over) \in [Settings -> Config!Values]
                                    /\ Config!OwnPart(over) \in [Own -> Config!Values \cup {None}]
  /\ Config!Nothing \in Config!Overrides
  /\ Passes(Config!Nothing)
BY ConfigAssumed
   DEF Config!ConfigAssumption, Config!Overridden, Config!OwnPart, Config!Overrides,
       Config!Nothing, Passes

(* The initial state satisfies the invariant.                               *)
LEMMA ConfigInitInv == Config!Init => ConfigInv
<1> SUFFICES ASSUME Config!Init PROVE ConfigInv
  OBVIOUS
<1>1. Config!TypeOK
  <2>1. /\ saved \in Config!Overrides /\ live \in Config!Overrides
        /\ wanted \in [Admins -> Config!Overrides]
    BY OverrideTypes DEF Config!Init
  <2>2. /\ effective \in [Settings -> Config!Values]
        /\ own \in [Own -> Config!Values \cup {None}]
        /\ asking \in [Admins -> {"none", "ready", "saved", "resetting", "applied"}]
        /\ requests \in 0..MaxRequests
    BY ConfigAssumed DEF Config!Init, Config!ConfigAssumption
  <2>3. QED
    BY <2>1, <2>2 DEF Config!Init, Config!TypeOK
<1>2. AloneInv
  BY DEF Config!Init, AloneInv, Undisturbed
<1>3. AgreeInv
  <2>1. Config!Overridden(Config!Nothing) = Base
    BY ConfigAssumed DEF Config!Overridden, Config!Nothing, Config!ConfigAssumption
  <2>2. Config!OwnPart(Config!Nothing) = [k \in Own |-> None]
    BY ConfigAssumed DEF Config!OwnPart, Config!Nothing, Config!ConfigAssumption
  <2>3. QED
    BY <2>1, <2>2 DEF Config!Init, AgreeInv, AllAre
<1>4. PassInv
  BY OverrideTypes DEF Config!Init, PassInv
<1>5. QED
  BY <1>1, <1>2, <1>3, <1>4 DEF ConfigInv

(* A request that starts finds the copies as they are; when it is not alone *)
(* it and the others are disturbed.                                         *)
LEMMA StartKeeps ==
  ASSUME ConfigInv, NEW a \in Admins, NEW over \in Config!Overrides, Passes(over),
         Config!Start(a, over)
  PROVE  ConfigInv'
<1> USE DEF Config!Start
<1>1. /\ asking \in [Admins -> {"none", "ready", "saved", "resetting", "applied"}]
      /\ asking[a] = "none"
      /\ asking' = [asking EXCEPT ![a] = "ready"]
      /\ wanted \in [Admins -> Config!Overrides]
      /\ wanted' = [wanted EXCEPT ![a] = over]
      /\ UNCHANGED <<saved, live, effective, own>>
      /\ disturbed' = IF Config!Busy = {} THEN {} ELSE disturbed \cup Config!Busy \cup {a}
      /\ torn' = (torn \/ Config!Busy # {})
      /\ disturbed \subseteq Admins
  BY DEF ConfigInv, Config!TypeOK
<1>2. Config!TypeOK'
  <2>1. requests' \in 0..MaxRequests
    BY ConfigAssumed DEF ConfigInv, Config!TypeOK, Config!ConfigAssumption
  <2>2. disturbed' \subseteq Admins
    BY <1>1 DEF Config!Busy
  <2>3. torn' \in BOOLEAN
    BY <1>1
  <2>4. QED
    BY <1>1, <2>1, <2>2, <2>3 DEF ConfigInv, Config!TypeOK
<1>3. \A b \in Admins : /\ asking'[b] = IF b = a THEN "ready" ELSE asking[b]
                        /\ wanted'[b] = IF b = a THEN over ELSE wanted[b]
  BY <1>1
<1>4. CASE Config!Busy = {}
  <2>1. disturbed' = {} /\ torn' = torn /\ \A b \in Admins : asking[b] = "none"
    BY <1>1, <1>4 DEF Config!Busy, ConfigInv, Config!TypeOK
  <2>2. AloneInv'
    BY <1>3, <2>1 DEF AloneInv, Undisturbed
  <2>3. AgreeInv'
    BY <1>1, <1>3, <2>1 DEF ConfigInv, AgreeInv, AllAre
  <2>4. QED
    BY <1>1, <1>2, <1>3, <2>2, <2>3 DEF ConfigInv, PassInv, Passes
<1>5. CASE Config!Busy # {}
  <2>1. /\ torn' = TRUE
        /\ \A b \in Admins : asking'[b] # "none" => b \in disturbed'
    BY <1>1, <1>3, <1>5 DEF Config!Busy
  <2>2. AloneInv' /\ AgreeInv'
    BY <2>1 DEF AloneInv, AgreeInv, Undisturbed
  <2>3. QED
    BY <1>1, <1>2, <1>3, <2>2 DEF ConfigInv, PassInv, Passes
<1>6. QED
  BY <1>4, <1>5

(* An update wants overrides in force with one changed to a value it takes. *)
LEMMA UpdateKeeps ==
  ASSUME ConfigInv, NEW a \in Admins, Config!Update(a) \/ Config!Reset(a)
  PROVE  ConfigInv'
<1>1. CASE Config!Reset(a)
  BY <1>1, OverrideTypes, StartKeeps DEF Config!Reset
<1>2. CASE Config!Update(a)
  <2>1. PICK k \in Settings : \E v \in Config!Admissible(k) :
           Config!Start(a, [live EXCEPT ![k] = v])
    BY <1>2 DEF Config!Update
  <2>2. PICK v \in Config!Admissible(k) : Config!Start(a, [live EXCEPT ![k] = v])
    BY <2>1
  <2>3. /\ live \in [Settings -> Config!Values \cup {None}]
        /\ v \in Config!Values \cup {None}
        /\ v # None => v >= Least[k]
    BY DEF ConfigInv, Config!TypeOK, Config!Overrides, Config!Admissible
  <2>4. [live EXCEPT ![k] = v] \in Config!Overrides
    BY <2>3 DEF Config!Overrides
  <2>5. Passes([live EXCEPT ![k] = v])
    BY <2>3 DEF ConfigInv, PassInv, Passes
  <2>6. QED
    BY <2>2, <2>4, <2>5, StartKeeps
<1>3. QED
  BY <1>1, <1>2

(* A request that saves, or fails to.                                       *)
LEMMA SaveKeeps ==
  ASSUME ConfigInv, NEW a \in Admins, Config!Save(a) \/ Config!SaveFails(a)
  PROVE  ConfigInv'
<1> USE DEF Config!history
<1>1. /\ asking \in [Admins -> {"none", "ready", "saved", "resetting", "applied"}]
      /\ asking[a] = "ready"
      /\ wanted \in [Admins -> Config!Overrides]
      /\ UNCHANGED <<live, effective, own, writing, requests, disturbed>>
  BY DEF ConfigInv, Config!TypeOK, Config!Save, Config!SaveFails
<1>2. CASE Config!Save(a)
  <2>1. /\ \A b \in Admins : asking'[b] = IF b = a THEN "saved" ELSE asking[b]
        /\ wanted' = wanted /\ saved' = wanted[a] /\ torn' = torn
        /\ asking' = [asking EXCEPT ![a] = "saved"]
    BY <1>1, <1>2 DEF Config!Save
  <2>2. Config!TypeOK'
    BY <1>1, <2>1 DEF ConfigInv, Config!TypeOK
  <2>3. AloneInv'
    BY <1>1, <2>1 DEF ConfigInv, AloneInv, Undisturbed
  <2>4. AgreeInv'
    BY <1>1, <2>1 DEF ConfigInv, AgreeInv
  <2>5. PassInv'
    BY <1>1, <2>1 DEF ConfigInv, PassInv
  <2>6. QED
    BY <2>2, <2>3, <2>4, <2>5 DEF ConfigInv
<1>3. CASE Config!SaveFails(a)
  <2>1. /\ \A b \in Admins : /\ asking'[b] = IF b = a THEN "none" ELSE asking[b]
                             /\ wanted'[b] = IF b = a THEN Config!Nothing ELSE wanted[b]
        /\ wanted' \in [Admins -> Config!Overrides]
        /\ asking' \in [Admins -> {"none", "ready", "saved", "resetting", "applied"}]
    BY <1>1, <1>3, OverrideTypes DEF Config!SaveFails
  <2>2. \/ saved' = saved /\ torn' = torn
        \/ saved' = wanted[a] /\ torn' = TRUE
    BY <1>3 DEF Config!SaveFails
  <2>3. Config!TypeOK'
    BY <1>1, <2>1, <2>2 DEF ConfigInv, Config!TypeOK
  <2>4. AloneInv'
    BY <1>1, <2>1, <2>2 DEF ConfigInv, AloneInv, Undisturbed
  <2>5. AgreeInv'
    BY <1>1, <2>1, <2>2 DEF ConfigInv, AgreeInv, AloneInv, AllAre
  <2>6. PassInv'
    BY <1>1, <2>1, <2>2, OverrideTypes DEF ConfigInv, PassInv
  <2>7. QED
    BY <2>3, <2>4, <2>5, <2>6 DEF ConfigInv
<1>4. QED
  BY <1>2, <1>3

(* A request that applies what it has saved.                                *)
LEMMA ApplyKeeps ==
  ASSUME ConfigInv, NEW a \in Admins,
         Config!ResetToBase(a) \/ Config!ApplyOverrides(a) \/ Config!SetRuntimeOverrides(a)
  PROVE  ConfigInv'
<1> USE DEF Config!history
<1>1. /\ asking \in [Admins -> {"none", "ready", "saved", "resetting", "applied"}]
      /\ wanted \in [Admins -> Config!Overrides]
      /\ saved' = saved
  BY DEF ConfigInv, Config!TypeOK, Config!ResetToBase, Config!ApplyOverrides,
         Config!SetRuntimeOverrides
<1>2. CASE Config!ResetToBase(a)
  <2>1. /\ \A b \in Admins : asking'[b] = IF b = a THEN "resetting" ELSE asking[b]
        /\ asking[a] = "saved"
        /\ live' = wanted[a] /\ UNCHANGED <<wanted, torn, disturbed, own>>
    BY <1>1, <1>2 DEF Config!ResetToBase
  <2>2. Config!TypeOK'
    BY <1>1, <1>2, ConfigAssumed DEF Config!ResetToBase, ConfigInv, Config!TypeOK, Config!ConfigAssumption
  <2>3. AloneInv'
    BY <1>1, <2>1 DEF ConfigInv, AloneInv, Undisturbed
  <2>4. AgreeInv'
    BY <2>1 DEF ConfigInv, AgreeInv
  <2>5. PassInv'
    BY <1>1, <2>1 DEF ConfigInv, PassInv
  <2>6. QED
    BY <2>2, <2>3, <2>4, <2>5 DEF ConfigInv
<1>3. CASE Config!ApplyOverrides(a)
  <2>1. /\ \A b \in Admins : asking'[b] = IF b = a THEN "applied" ELSE asking[b]
        /\ asking[a] = "resetting"
        /\ effective' = Config!Overridden(wanted[a])
        /\ UNCHANGED <<wanted, torn, disturbed, own, live>>
    BY <1>1, <1>3 DEF Config!ApplyOverrides
  <2>2. Config!TypeOK'
    <3>1. effective' \in [Settings -> Config!Values]
      BY <1>1, <2>1, OverrideTypes
    <3>2. QED
      BY <1>1, <1>3, <3>1 DEF Config!ApplyOverrides, ConfigInv, Config!TypeOK
  <2>3. AloneInv'
    BY <1>1, <2>1 DEF ConfigInv, AloneInv, Undisturbed
  <2>4. AgreeInv'
    BY <2>1 DEF ConfigInv, AgreeInv
  <2>5. PassInv'
    BY <1>1, <2>1 DEF ConfigInv, PassInv
  <2>6. QED
    BY <2>2, <2>3, <2>4, <2>5 DEF ConfigInv
<1>4. CASE Config!SetRuntimeOverrides(a)
  <2>1. /\ \A b \in Admins : /\ asking'[b] = IF b = a THEN "none" ELSE asking[b]
                             /\ wanted'[b] = IF b = a THEN Config!Nothing ELSE wanted[b]
        /\ wanted' \in [Admins -> Config!Overrides]
        /\ asking' \in [Admins -> {"none", "ready", "saved", "resetting", "applied"}]
        /\ asking[a] = "applied"
        /\ own' = Config!OwnPart(wanted[a])
        /\ UNCHANGED <<disturbed, effective, live, writing, requests>>
    BY <1>1, <1>4, OverrideTypes DEF Config!SetRuntimeOverrides
  <2>2. /\ torn' \in BOOLEAN
        /\ torn' => torn
        /\ ~torn' /\ torn => a \notin disturbed
    BY <1>4 DEF Config!SetRuntimeOverrides, ConfigInv, Config!TypeOK
  <2>3. Config!TypeOK'
    <3>1. own' \in [Own -> Config!Values \cup {None}]
      BY <1>1, <2>1, OverrideTypes
    <3>2. QED
      BY <1>1, <2>1, <2>2, <3>1 DEF ConfigInv, Config!TypeOK
  <2>4. AloneInv'
    BY <1>1, <2>1 DEF ConfigInv, AloneInv, Undisturbed
  <2>5. AgreeInv'
    <3>1. SUFFICES ASSUME ~torn' PROVE /\ \A b \in Admins : asking'[b] # "none" => b \notin disturbed
                                       /\ AllAre(saved)'
      BY <2>1 DEF AgreeInv
    <3>2. a \notin disturbed
      BY <2>1, <2>2, <3>1 DEF ConfigInv, AgreeInv
    <3>3. \A b \in Admins : b # a => asking[b] = "none"
      BY <1>1, <2>1, <3>2 DEF ConfigInv, AloneInv
    <3>4. saved = wanted[a] /\ live = wanted[a] /\ effective = Config!Overridden(wanted[a])
      BY <2>1, <3>2 DEF ConfigInv, AloneInv, Undisturbed
    <3>5. QED
      BY <1>1, <2>1, <3>3, <3>4 DEF AllAre
  <2>6. PassInv'
    BY <1>1, <2>1, OverrideTypes DEF ConfigInv, PassInv
  <2>7. QED
    BY <2>3, <2>4, <2>5, <2>6 DEF ConfigInv
<1>5. QED
  BY <1>2, <1>3, <1>4

(* A restart takes all that was saved, since it passes the load; or, when   *)
(* Redis does not answer, nothing.                                          *)
LEMMA RestartConfigKeeps ==
  ASSUME ConfigInv, Config!Restart
  PROVE  ConfigInv'
<1>1. PICK text \in {saved, Config!Nothing} :
         /\ live' = Config!Parsed(text)
         /\ effective' = Config!Overridden(Config!Parsed(text))
         /\ own' = Config!OwnPart(Config!Parsed(text))
         /\ torn' = (text # saved)
  BY DEF Config!Restart
<1>2. /\ asking' = [b \in Admins |-> "none"]
      /\ wanted' = [b \in Admins |-> Config!Nothing]
      /\ writing' = "nobody" /\ disturbed' = {}
      /\ UNCHANGED <<saved, requests>>
  BY DEF Config!Restart
<1>3. text \in Config!Overrides /\ Passes(text)
  BY OverrideTypes DEF ConfigInv, Config!TypeOK, PassInv
<1>4. Config!Parsed(text) = text
  BY <1>3 DEF Config!Overrides, Config!Parsed, Config!Loadable, Passes
<1>5. Config!TypeOK'
  <2>1. /\ live' \in Config!Overrides /\ effective' \in [Settings -> Config!Values]
        /\ own' \in [Own -> Config!Values \cup {None}]
    BY <1>1, <1>3, <1>4, OverrideTypes
  <2>2. torn' \in BOOLEAN
    BY <1>1
  <2>3. wanted' \in [Admins -> Config!Overrides]
    BY <1>2, OverrideTypes
  <2>4. QED
    BY <1>2, <2>1, <2>2, <2>3 DEF ConfigInv, Config!TypeOK
<1>6. AloneInv'
  BY <1>2 DEF AloneInv, Undisturbed
<1>7. AgreeInv'
  BY <1>1, <1>2, <1>4 DEF AgreeInv, AllAre
<1>8. PassInv'
  BY <1>1, <1>2, <1>3, <1>4, OverrideTypes DEF ConfigInv, PassInv
<1>9. QED
  BY <1>5, <1>6, <1>7, <1>8 DEF ConfigInv

(* The invariant is inductive.                                              *)
LEMMA ConfigStepInv == ConfigInv /\ [Next]_vars => ConfigInv'
<1> SUFFICES ASSUME ConfigInv, [Next]_vars PROVE ConfigInv'
  OBVIOUS
<1>1. CASE UNCHANGED configVars
  BY <1>1 DEF configVars, ConfigInv, Config!TypeOK, AloneInv, Undisturbed, AgreeInv, AllAre,
              PassInv
<1>2. QED
  BY <1>1, UpdateKeeps, SaveKeeps, ApplyKeeps, RestartConfigKeeps, ConfigAlone
     DEF Config!Next, Config!Request

LEMMA ConfigInvariance == Spec => []ConfigInv
<1>1. Init => ConfigInv
  BY ConfigInitInv DEF Init
<1>2. QED
  BY <1>1, ConfigStepInv, PTL DEF Spec

(* The overrides keep their types: no setting leaves its values.            *)
THEOREM ConfigTypeCorrect == Spec => []Config!TypeOK
<1>1. ConfigInv => Config!TypeOK
  BY DEF ConfigInv
<1>2. QED
  BY <1>1, ConfigInvariance, PTL

(* With no request under way the four copies of the overrides agree, unless *)
(* overlapping requests, a lost reply or a failed load have torn them apart *)
(* and no undisturbed request came since (server.go,                        *)
(* applyRuntimeOverrides).                                                  *)
THEOREM OverridesAgree == Spec => []CopiesAgree
<1>1. ConfigInv => CopiesAgree
  BY DEF ConfigInv, AgreeInv, AllAre, CopiesAgree, Config!CopiesAgree, Config!Busy
<1>2. QED
  BY <1>1, ConfigInvariance, PTL


--------------------------------------------------------------------------
(* The logins. *)

(* A step of the services is one of the logins or leaves them alone.        *)
LEMMA LoginAlone ==
  ASSUME [Next]_vars
  PROVE  Entrance!Next \/ UNCHANGED loginVars
BY DEF Next, vars, QueuesStep, HubStep, PublisherStep, ConfigStep, LoginStep, CacheStep,
       HealthStep, CountStep, CommandsStep, TerminalStep, AllOver, OthersRest

(* What Services assumes of the constants of the logins.                    *)
LEMMA LoginAssumed ==
  /\ MaxFailures \in Nat \ {0} /\ LockTime \in Nat \ {0} /\ KeepTime \in Nat
  /\ SessionTTL \in Nat \ {0}
BY ServicesAssumption DEF Entrance!LoginAssumption

(* The initial state has its type.                                          *)
LEMMA LoginInitInv == Entrance!Init => Entrance!TypeOK
<1> SUFFICES ASSUME Entrance!Init PROVE Entrance!TypeOK
  OBVIOUS
<1>1. failures \in 0..(MaxFailures - 1) /\ lockLeft \in Entrance!NeverLocked..LockTime
  BY LoginAssumed DEF Entrance!Init, Entrance!NeverLocked
<1>2. session \in [Tokens -> Entrance!Unknown..SessionTTL]
  BY LoginAssumed DEF Entrance!Init, Entrance!Unknown
<1>3. login \in [Logins -> {"idle", "verifying", "right"}]
  BY DEF Entrance!Init
<1>4. QED
  BY <1>1, <1>2, <1>3 DEF Entrance!TypeOK

(* A failure is counted, starts a lock, or falls into one; only in the last *)
(* case is there a lock before, and it stays.                               *)
LEMMA FailureCounted ==
  ASSUME Entrance!TypeOK, Entrance!CountFailure
  PROVE  /\ failures' \in 0..(MaxFailures - 1)
         /\ lockLeft' \in Entrance!NeverLocked..LockTime
         /\ lockLeft > 0 => lockLeft' = lockLeft
BY LoginAssumed DEF Entrance!TypeOK, Entrance!CountFailure, Entrance!NeverLocked

(* A step keeps the types, and prolongs no lock.                            *)
LEMMA LoginStepInv ==
  ASSUME Entrance!TypeOK, [Next]_vars
  PROVE  /\ Entrance!TypeOK'
         /\ lockLeft > 0 => lockLeft' <= lockLeft
<1> USE LoginAssumed
<1>1. ASSUME NEW l \in Logins, Entrance!Login(l)
      PROVE  /\ Entrance!TypeOK'
             /\ lockLeft > 0 => lockLeft' <= lockLeft
  <2>1. login' \in [Logins -> {"idle", "verifying", "right"}]
    BY <1>1 DEF Entrance!Login, Entrance!Check, Entrance!Fail, Entrance!VerifyFails,
                Entrance!Succeed, Entrance!CreateSession, Entrance!TypeOK
  <2>2. session' \in [Tokens -> Entrance!Unknown..SessionTTL]
    BY <1>1 DEF Entrance!Login, Entrance!Check, Entrance!Fail, Entrance!VerifyFails,
                Entrance!Succeed, Entrance!CreateSession, Entrance!TypeOK, Entrance!Unknown
  <2>3. /\ failures' \in 0..(MaxFailures - 1)
        /\ lockLeft' \in Entrance!NeverLocked..LockTime
        /\ lockLeft > 0 => lockLeft' <= lockLeft
    <3>1. CASE Entrance!Fail(l)
      BY <3>1, FailureCounted DEF Entrance!Fail, Entrance!TypeOK, Entrance!NeverLocked
    <3>2. CASE ~Entrance!Fail(l)
      BY <1>1, <3>2 DEF Entrance!Login, Entrance!Check, Entrance!VerifyFails, Entrance!Succeed,
                        Entrance!CreateSession, Entrance!TypeOK, Entrance!NeverLocked
    <3>3. QED
      BY <3>1, <3>2
  <2>4. QED
    BY <2>1, <2>2, <2>3 DEF Entrance!TypeOK
<1>2. CASE Entrance!CheckSession \/ \E t \in Tokens : Entrance!Logout(t)
  <2>1. /\ UNCHANGED <<failures, lockLeft, login>>
        /\ session' \in [Tokens -> Entrance!Unknown..SessionTTL]
    BY <1>2 DEF Entrance!CheckSession, Entrance!Logout, Entrance!TypeOK, Entrance!Unknown
  <2>2. QED
    BY <2>1 DEF Entrance!TypeOK, Entrance!NeverLocked
<1>3. CASE Entrance!Tick
  <2>1. session' \in [Tokens -> Entrance!Unknown..SessionTTL]
    BY <1>3 DEF Entrance!Tick, Entrance!TypeOK, Entrance!Unknown
  <2>2. /\ lockLeft' \in Entrance!NeverLocked..LockTime
        /\ lockLeft > 0 => lockLeft' <= lockLeft
    BY <1>3 DEF Entrance!Tick, Entrance!TypeOK, Entrance!NeverLocked
  <2>3. QED
    BY <1>3, <2>1, <2>2 DEF Entrance!Tick, Entrance!TypeOK
<1>4. CASE UNCHANGED loginVars
  BY <1>4 DEF loginVars, Entrance!TypeOK, Entrance!NeverLocked
<1>5. QED
  BY <1>1, <1>2, <1>3, <1>4, LoginAlone DEF Entrance!Next

(* The logins keep their types: the count of failures stays below the one   *)
(* that locks, and no lock or session is longer than it may be.             *)
THEOREM LoginTypeCorrect == Spec => []Entrance!TypeOK
<1>1. Init => Entrance!TypeOK
  BY LoginInitInv DEF Init
<1>2. Entrance!TypeOK /\ [Next]_vars => Entrance!TypeOK'
  BY LoginStepInv
<1>3. QED
  BY <1>1, <1>2, PTL DEF Spec

(* Logins let in before the lock that fail during it do not prolong it      *)
(* (server.go, panelLoginFailed).                                           *)
THEOREM LocksEnd == Spec => LockNotProlonged
<1>1. Entrance!TypeOK /\ [Next]_vars =>
        [lockLeft > 0 => lockLeft' <= lockLeft]_<<failures, lockLeft, login, session>>
  BY LoginStepInv
<1>2. QED
  BY <1>1, LoginTypeCorrect, PTL
     DEF Spec, LockNotProlonged, Entrance!LockNotProlonged, Entrance!loginVars


--------------------------------------------------------------------------
(* The cache: lists of users and their limits. *)

Entries == [user : Users, limit : Limits]

\* A list has each user once.
OncePerUser(list) == \A i, j \in DOMAIN list : list[i].user = list[j].user => i = j

(* What Services assumes of the constants of the cache.                     *)
LEMMA CacheAssumed ==
  /\ Limits \subseteq Nat /\ FirstLimit \in Limits /\ FirstUsers \subseteq Users
  /\ PageSize \in Nat \ {0}
  /\ ReqTries \in Nat \ {0} /\ MaxEdits \in Nat /\ MaxFaults \in Nat
  /\ "nobody" \notin Cache!Loaders /\ Cache!IsFiniteSet(Users)
BY ServicesAssumption DEF Cache!PanelAssumption, Cache!Loaders

(* LimitIn finds the limit of a user in the list, and 0 for any other.      *)
LEMMA LimitFound ==
  ASSUME NEW list \in Seq(Entries), OncePerUser(list), NEW i \in DOMAIN list
  PROVE  Cache!LimitIn(list, list[i].user) = list[i].limit
<1>1. list[i] \in Cache!ToSet(list)
  BY DEF Cache!ToSet
<1>2. \A e \in Cache!ToSet(list) : e.user = list[i].user => e = list[i]
  BY DEF Cache!ToSet, OncePerUser
<1>3. (CHOOSE e \in Cache!ToSet(list) : e.user = list[i].user) = list[i]
  BY <1>1, <1>2
<1>4. QED
  BY <1>3 DEF Cache!LimitIn

LEMMA LimitAbsent ==
  ASSUME NEW list, NEW u, \A i \in DOMAIN list : list[i].user # u
  PROVE  Cache!LimitIn(list, u) = 0
BY DEF Cache!LimitIn

(* Limits are numbers.                                                      *)
LEMMA LimitsAreNumbers == \A n \in Limits \cup {0} : n \in Nat
<1>1. \A n \in Limits : n \in Nat
  BY CacheAssumed
<1>2. QED
  BY <1>1

(* LimitIn gives a limit or 0.                                              *)
LEMMA LimitTyped ==
  ASSUME NEW list \in Seq(Entries), OncePerUser(list), NEW u
  PROVE  Cache!LimitIn(list, u) \in Limits \cup {0}
<1>1. CASE \E i \in DOMAIN list : list[i].user = u
  <2>1. PICK i \in DOMAIN list : list[i].user = u
    BY <1>1
  <2>2. list[i] \in Entries
    OBVIOUS
  <2>3. QED
    BY <2>1, <2>2, LimitFound DEF Entries
<1>2. CASE \A i \in DOMAIN list : list[i].user # u
  BY <1>2, LimitAbsent
<1>3. QED
  BY <1>1, <1>2

(* A list without the entry at i.                                           *)
LEMMA RemovedEntry ==
  ASSUME NEW list \in Seq(Entries), OncePerUser(list), NEW i \in DOMAIN list
  PROVE  Cache!RemoveAt(list, i) \in Seq(Entries) /\ OncePerUser(Cache!RemoveAt(list, i))
<1> DEFINE front == SubSeq(list, 1, i - 1)
           back == SubSeq(list, i + 1, Len(list))
<1>1. i \in 1..Len(list) /\ Len(list) \in Nat /\ DOMAIN list = 1..Len(list)
  OBVIOUS
<1>2. /\ front \in Seq(Entries) /\ Len(front) = i - 1
      /\ \A k \in 1..(i - 1) : front[k] = list[k]
  <2>1. 1 \in Int /\ i - 1 \in Int /\ \A k \in 1..(i - 1) : list[k] \in Entries
    BY <1>1
  <2>2. /\ front \in Seq(Entries)
        /\ Len(front) = IF 1 <= i - 1 THEN (i - 1) - 1 + 1 ELSE 0
        /\ \A k \in 1..((i - 1) - 1 + 1) : front[k] = list[1 + k - 1]
    BY <2>1, SubSeqProperties
  <2> HIDE DEF front
  <2>3. QED
    BY <1>1, <2>2
<1>3. /\ back \in Seq(Entries) /\ Len(back) = Len(list) - i
      /\ \A k \in 1..(Len(list) - i) : back[k] = list[i + k]
  BY <1>1, SubSeqProperties
<1>4. /\ front \o back \in Seq(Entries)
      /\ Len(front \o back) = Len(list) - 1
      /\ \A k \in 1..(Len(list) - 1) :
           (front \o back)[k] = IF k < i THEN list[k] ELSE list[k + 1]
  <2> HIDE DEF front, back
  <2>1. /\ front \o back \in Seq(Entries)
        /\ Len(front \o back) = (i - 1) + (Len(list) - i)
        /\ \A k \in 1..((i - 1) + (Len(list) - i)) :
             (front \o back)[k] = IF k <= i - 1 THEN front[k] ELSE back[k - (i - 1)]
    <3>1. /\ front \o back \in Seq(Entries)
          /\ Len(front \o back) = Len(front) + Len(back)
          /\ \A k \in 1..(Len(front) + Len(back)) :
               (front \o back)[k] = IF k <= Len(front) THEN front[k] ELSE back[k - Len(front)]
      BY <1>2, <1>3, ConcatProperties, Zenon
    <3>2. Len(front) = i - 1 /\ Len(back) = Len(list) - i
      BY <1>2, <1>3
    <3>3. QED
      BY <3>1, <3>2, Zenon
  <2>2. (i - 1) + (Len(list) - i) = Len(list) - 1
    BY <1>1
  <2>3. ASSUME NEW k \in 1..(Len(list) - 1), k < i
        PROVE  (front \o back)[k] = list[k]
    BY <1>1, <1>2, <2>1, <2>2, <2>3
  <2>4. ASSUME NEW k \in 1..(Len(list) - 1), ~(k < i)
        PROVE  (front \o back)[k] = list[k + 1]
    <3>1. k - (i - 1) \in 1..(Len(list) - i) /\ i + (k - (i - 1)) = k + 1 /\ ~(k <= i - 1)
      BY <1>1, <2>4
    <3>2. QED
      BY <1>3, <2>1, <2>2, <3>1
  <2>5. QED
    BY <2>1, <2>2, <2>3, <2>4
<1>5. Cache!RemoveAt(list, i) = front \o back
  BY DEF Cache!RemoveAt
<1>6. OncePerUser(front \o back)
  <2> HIDE DEF front, back
  <2>1. DOMAIN (front \o back) = 1..(Len(list) - 1)
    BY <1>4, LenProperties
  <2>2. SUFFICES ASSUME NEW j \in 1..(Len(list) - 1), NEW k \in 1..(Len(list) - 1),
                        (front \o back)[j].user = (front \o back)[k].user
                 PROVE  j = k
    BY <2>1 DEF OncePerUser
  <2> DEFINE at(m) == IF m < i THEN m ELSE m + 1
  <2>3. /\ at(j) \in DOMAIN list /\ (front \o back)[j] = list[at(j)]
        /\ at(k) \in DOMAIN list /\ (front \o back)[k] = list[at(k)]
    <3>1. ASSUME NEW m \in 1..(Len(list) - 1)
          PROVE  at(m) \in DOMAIN list /\ (front \o back)[m] = list[at(m)]
      <4>1. at(m) \in 1..Len(list)
        BY <1>1
      <4>2. (front \o back)[m] = list[at(m)]
        BY <1>4, Zenon
      <4>3. QED
        BY <1>1, <4>1, <4>2, Zenon
    <3>2. QED
      BY <2>2, <3>1
  <2>4. at(j) = at(k)
    BY <2>2, <2>3 DEF OncePerUser
  <2>5. QED
    BY <1>1, <2>4
<1>7. QED
  BY <1>4, <1>5, <1>6


--------------------------------------------------------------------------
(* The cache: the panel changes and loaders read it. *)

\* Every limit the panel has is one its user has had during the reload.
PanelInv == /\ panel \in Seq(Entries)
            /\ OncePerUser(panel)
            /\ \A u \in Users : Cache!LimitIn(panel, u) \in had[u]

\* The panel still has an entry of u beyond the first n.
Ahead(u, n) == \E i \in DOMAIN panel : i > n /\ panel[i].user = u

\* What was read of a user is a limit it has had, or nothing, and then the
\* user is still ahead.
ReadInv == \A u \in Users : fetched[u] \in had[u] \/ (fetched[u] = 0 /\ Ahead(u, offset))

\* One loader reads at a time.
ReaderInv == \A l \in Cache!Loaders : loader[l] = "reading" => reading = l

CacheInv == Cache!TypeOK /\ PanelInv /\ ReadInv /\ ReaderInv

(* A step of the services is one of the cache or leaves it alone.           *)
LEMMA CacheAlone ==
  ASSUME [Next]_vars
  PROVE  Cache!Next \/ UNCHANGED panelVars
BY DEF Next, vars, QueuesStep, HubStep, PublisherStep, ConfigStep, LoginStep, CacheStep,
       HealthStep, CountStep, CommandsStep, TerminalStep, AllOver, OthersRest

(* The list the panel starts with has every user once.                      *)
LEMMA FirstList ==
  LET S == {Cache!Entry(u, FirstLimit) : u \in FirstUsers}
  IN  Cache!SetToSeq(S) \in Seq(Entries) /\ OncePerUser(Cache!SetToSeq(S))
<1> DEFINE S == {Cache!Entry(u, FirstLimit) : u \in FirstUsers}
           list == Cache!SetToSeq(S)
<1>1. S \subseteq Entries /\ \A d, e \in S : d.user = e.user => d = e
  BY CacheAssumed DEF Cache!Entry, Entries
<1>2. IsFiniteSet(S)
  <2>1. IsFiniteSet(Users)
    BY CacheAssumed, Zenon DEF IsFiniteSet, Cache!IsFiniteSet
  <2>2. IsFiniteSet(FirstUsers)
    BY <2>1, CacheAssumed, FS_Subset
  <2>3. [u \in FirstUsers |-> Cache!Entry(u, FirstLimit)] \in Surjection(FirstUsers, S)
    BY DEF Surjection
  <2>4. QED
    BY <2>2, <2>3, FS_Surjection
<1>3. /\ Cardinality(S) \in Nat
      /\ Cache!Cardinality(S) = Cardinality(S)
      /\ \E f \in [1..Cardinality(S) -> S] : Cache!IsInjective(f)
  <2> HIDE DEF S
  <2>1. Cardinality(S) \in Nat /\ ExistsBijection(1..Cardinality(S), S)
    BY <1>2, FS_CardinalityType
  <2>2. Cache!Cardinality(S) = Cardinality(S)
    BY Zenon DEF Cardinality, Cache!Cardinality
  <2>3. PICK f \in Bijection(1..Cardinality(S), S) : TRUE
    BY <2>1 DEF ExistsBijection
  <2>4. f \in [1..Cardinality(S) -> S] /\ Cache!IsInjective(f)
    BY <2>3 DEF Bijection, Injection, IsInjective, Cache!IsInjective
  <2>5. QED
    BY <2>1, <2>2, <2>4
<1>4. list \in [1..Cardinality(S) -> S] /\ Cache!IsInjective(list)
  <2> HIDE DEF S
  <2>1. list = CHOOSE f \in [1..Cardinality(S) -> S] : Cache!IsInjective(f)
    BY <1>3 DEF Cache!SetToSeq
  <2>2. QED
    BY <1>3, <2>1
<1> HIDE DEF list
<1>5. list \in Seq(Entries) /\ DOMAIN list = 1..Cardinality(S)
  <2> HIDE DEF S
  <2>1. list \in Seq(S)
    BY <1>3, <1>4
  <2>2. QED
    BY <1>1, <1>4, <2>1
<1>6. OncePerUser(list)
  <2> HIDE DEF S
  <2>1. QED
    BY <1>1, <1>4, <1>5 DEF OncePerUser, Cache!IsInjective
<1>7. QED
  BY <1>5, <1>6 DEF list

(* The initial state satisfies the invariant.                               *)
LEMMA CacheInitInv == Cache!Init => CacheInv
<1> SUFFICES ASSUME Cache!Init PROVE CacheInv
  OBVIOUS
<1>1. panel \in Seq(Entries) /\ OncePerUser(panel) /\ DOMAIN panel = 1..Len(panel)
  <2>1. panel \in Seq(Entries) /\ OncePerUser(panel)
    BY FirstList DEF Cache!Init
  <2>2. QED
    BY <2>1
<1>2. had = [u \in Users |-> {Cache!LimitIn(panel, u)}]
  BY DEF Cache!Init
<1>3. PanelInv
  BY <1>1, <1>2 DEF PanelInv
<1>4. Cache!TypeOK
  <2>1. \A i \in DOMAIN panel : panel[i] \in [user : Users, limit : Limits]
    <3>1. \A i \in DOMAIN panel : panel[i] \in Entries
      BY <1>1
    <3>2. QED
      BY <3>1 DEF Entries
  <2>2. /\ known \in [Users -> Limits \cup {0}] /\ fetched \in [Users -> Limits \cup {0}]
        /\ had \in [Users -> SUBSET (Limits \cup {0})]
    <3>1. \A u \in Users : Cache!LimitIn(panel, u) \in Limits \cup {0}
      BY <1>1, LimitTyped
    <3>2. QED
      BY <1>2, <3>1 DEF Cache!Init, Cache!NoLimits
  <2>3. /\ loader \in [Cache!Loaders -> {"idle", "waiting", "reading"}]
        /\ reading \in Cache!Loaders \cup {"nobody"} /\ loaded \in BOOLEAN
        /\ wrapped \in BOOLEAN /\ cut \in BOOLEAN
    BY DEF Cache!Init
  <2>4. offset \in Nat /\ attempt \in 0..(ReqTries - 1) /\ edits \in 0..MaxEdits
        /\ faults \in 0..MaxFaults
    BY CacheAssumed DEF Cache!Init
  <2>5. QED
    BY <2>1, <2>2, <2>3, <2>4 DEF Cache!TypeOK
<1>5. ReadInv
  <2> SUFFICES ASSUME NEW u \in Users
                 PROVE  fetched[u] \in had[u] \/ (fetched[u] = 0 /\ Ahead(u, offset))
    BY DEF ReadInv
  <2>1. fetched[u] = 0 /\ offset = 0
    BY DEF Cache!Init, Cache!NoLimits
  <2>2. CASE \E i \in DOMAIN panel : panel[i].user = u
    BY <1>1, <2>1, <2>2 DEF Ahead
  <2>3. CASE \A i \in DOMAIN panel : panel[i].user # u
    <3>1. Cache!LimitIn(panel, u) = 0
      BY <2>3, LimitAbsent
    <3>2. QED
      BY <1>2, <2>1, <3>1
  <2>4. QED
    BY <2>2, <2>3
<1>6. ReaderInv
  BY DEF Cache!Init, ReaderInv
<1>7. QED
  BY <1>3, <1>4, <1>5, <1>6 DEF CacheInv

(* The panel changes: what was read stays right, since an entry that is not *)
(* where it was belongs to a removal, after which a user may be missed.     *)
LEMMA EditKeeps ==
  ASSUME CacheInv, NEW list \in Seq(Entries), OncePerUser(list), NEW missing \in BOOLEAN,
         missing \/ \A i \in DOMAIN panel : i \in DOMAIN list /\ list[i].user = panel[i].user,
         Cache!Edit(list, missing)
  PROVE  CacheInv'
<1>1. /\ had \in [Users -> SUBSET (Limits \cup {0})]
      /\ UNCHANGED <<wrapped, known, loaded, loader, reading, offset, attempt, fetched, faults,
                     cut>>
      /\ panel' = list
  BY DEF Cache!Edit, Cache!reloadVars, CacheInv, Cache!TypeOK
<1>2. \A u \in Users : /\ had[u] \subseteq had'[u]
                       /\ Cache!LimitIn(list, u) \in had'[u]
                       /\ missing => 0 \in had'[u]
  BY DEF Cache!Edit
<1>3. had' \in [Users -> SUBSET (Limits \cup {0})]
  <2>1. \A u \in Users : Cache!LimitIn(list, u) \in Limits \cup {0}
    BY LimitTyped
  <2>2. QED
    BY <1>1, <2>1 DEF Cache!Edit
<1>4. Cache!TypeOK'
  <2>1. \A i \in DOMAIN list : list[i] \in Entries
    OBVIOUS
  <2>2. edits' \in 0..MaxEdits
    BY CacheAssumed DEF Cache!Edit, CacheInv, Cache!TypeOK
  <2>3. QED
    BY <1>1, <1>3, <2>1, <2>2 DEF CacheInv, Cache!TypeOK, Entries
<1>5. PanelInv'
  BY <1>1, <1>2 DEF PanelInv
<1>6. ReadInv'
  <2> SUFFICES ASSUME NEW u \in Users
               PROVE  fetched[u] \in had'[u] \/ (fetched[u] = 0 /\ Ahead(u, offset)')
    BY <1>1 DEF ReadInv, Ahead
  <2>1. CASE fetched[u] \in had[u]
    <3>1. fetched[u] \in had'[u]
      BY <1>2, <2>1
    <3>2. QED
      BY <3>1
  <2>2. CASE fetched[u] = 0 /\ Ahead(u, offset)
    <3>1. CASE missing
      <4>1. fetched[u] \in had'[u]
        BY <1>2, <2>2, <3>1
      <4>2. QED
        BY <4>1
    <3>2. CASE ~missing
      <4>1. \A i \in DOMAIN panel : i \in DOMAIN list /\ list[i].user = panel[i].user
        BY <3>2
      <4>2. Ahead(u, offset)'
        BY <1>1, <2>2, <4>1 DEF Ahead
      <4>3. QED
        BY <2>2, <4>2
    <3>3. QED
      BY <3>1, <3>2
  <2>3. QED
    BY <2>1, <2>2 DEF CacheInv, ReadInv
<1>7. ReaderInv'
  BY <1>1 DEF CacheInv, ReaderInv
<1>8. QED
  BY <1>4, <1>5, <1>6, <1>7 DEF CacheInv

(* Each change of the panel gives a list of users, each once.               *)
LEMMA PanelKeeps ==
  ASSUME CacheInv, NEW u \in Users,
         Cache!RemoveUser(u) \/ \E n \in Limits : Cache!AddUser(u, n) \/ Cache!SetLimit(u, n)
  PROVE  CacheInv'
<1>1. panel \in Seq(Entries) /\ OncePerUser(panel) /\ DOMAIN panel = 1..Len(panel)
      /\ Len(panel) \in Nat
  BY DEF CacheInv, PanelInv
<1>2. CASE Cache!RemoveUser(u)
  <2>1. PICK i \in DOMAIN panel : Cache!Edit(Cache!RemoveAt(panel, i), TRUE)
    BY <1>2 DEF Cache!RemoveUser
  <2>2. Cache!RemoveAt(panel, i) \in Seq(Entries) /\ OncePerUser(Cache!RemoveAt(panel, i))
    BY <1>1, RemovedEntry
  <2>3. QED
    BY <2>1, <2>2, EditKeeps
<1>3. ASSUME NEW n \in Limits, Cache!AddUser(u, n) PROVE CacheInv'
  <2> DEFINE list == Append(panel, Cache!Entry(u, n))
  <2>1. Cache!Entry(u, n) \in Entries /\ Cache!Entry(u, n).user = u
    BY DEF Cache!Entry, Entries
  <2>2. Cache!Edit(list, FALSE) /\ \A i \in DOMAIN panel : panel[i].user # u
    BY <1>3 DEF Cache!AddUser, Cache!Listed
  <2>3. /\ list \in Seq(Entries) /\ DOMAIN list = 1..(Len(panel) + 1)
        /\ \A i \in 1..Len(panel) : list[i] = panel[i]
        /\ list[Len(panel) + 1].user = u
    <3> HIDE DEF list
    <3>1. /\ list \in Seq(Entries) /\ Len(list) = Len(panel) + 1
          /\ \A i \in 1..Len(panel) : list[i] = panel[i]
          /\ list[Len(panel) + 1] = Cache!Entry(u, n)
      BY <1>1, <2>1, AppendProperties DEF list
    <3>2. QED
      BY <2>1, <3>1
  <2> HIDE DEF list
  <2>4. OncePerUser(list)
    <3> SUFFICES ASSUME NEW i \in 1..(Len(panel) + 1), NEW j \in 1..(Len(panel) + 1),
                        list[i].user = list[j].user
                 PROVE  i = j
      BY <2>3 DEF OncePerUser
    <3>1. CASE i \in 1..Len(panel) /\ j \in 1..Len(panel)
      BY <1>1, <2>3, <3>1 DEF OncePerUser
    <3>2. CASE ~(i \in 1..Len(panel) /\ j \in 1..Len(panel))
      BY <1>1, <2>2, <2>3, <3>2
    <3>3. QED
      BY <3>1, <3>2
  <2>5. QED
    <3>1. \A i \in DOMAIN panel : i \in DOMAIN list /\ list[i].user = panel[i].user
      BY <1>1, <2>3
    <3>2. QED
      BY <2>2, <2>3, <2>4, <3>1, EditKeeps
<1>4. ASSUME NEW n \in Limits, Cache!SetLimit(u, n) PROVE CacheInv'
  <2> DEFINE list == [i \in DOMAIN panel |-> IF panel[i].user = u THEN Cache!Entry(u, n)
                                             ELSE panel[i]]
  <2>1. Cache!Edit(list, FALSE)
    BY <1>4 DEF Cache!SetLimit
  <2>2. \A i \in DOMAIN panel : list[i] \in Entries /\ list[i].user = panel[i].user
    <3>1. \A i \in DOMAIN panel : panel[i] \in Entries
      BY <1>1
    <3>2. QED
      BY <3>1 DEF Cache!Entry, Entries
  <2>3. list \in Seq(Entries) /\ DOMAIN list = DOMAIN panel
    <3>1. DOMAIN list = 1..Len(panel)
      BY <1>1
    <3>2. list \in [1..Len(panel) -> Entries]
      BY <1>1, <2>2
    <3>3. QED
      BY <1>1, <3>1, <3>2
  <2> HIDE DEF list
  <2>4. OncePerUser(list)
    BY <1>1, <2>2, <2>3 DEF OncePerUser
  <2>5. QED
    BY <2>1, <2>2, <2>3, <2>4, EditKeeps
<1>5. QED
  BY <1>2, <1>3, <1>4


--------------------------------------------------------------------------
(* The cache: loaders. *)

(* A page holds the limits the panel has for the users it covers.           *)
LEMMA PageLimits ==
  ASSUME CacheInv, NEW u \in Users
  PROVE  \/ Cache!LimitIn(Cache!Page, u) = Cache!LimitIn(panel, u)
         \/ /\ Cache!LimitIn(Cache!Page, u) = 0
            /\ \A i \in DOMAIN panel : panel[i].user = u => i <= offset \/ i > offset + PageSize
<1>1. /\ panel \in Seq(Entries) /\ OncePerUser(panel) /\ DOMAIN panel = 1..Len(panel)
      /\ Len(panel) \in Nat /\ offset \in Nat /\ PageSize \in Nat \ {0}
  BY CacheAssumed DEF CacheInv, PanelInv, Cache!TypeOK
<1>2. CASE offset < Len(panel)
  <2> DEFINE page == Cache!Page
             n == Cache!PageEnd
  <2>1. n \in offset..Len(panel) /\ n <= offset + PageSize
        /\ (n < Len(panel) => n = offset + PageSize)
    BY <1>1, <1>2 DEF Cache!PageEnd
  <2>2. page = SubSeq(panel, offset + 1, n)
    BY <1>2 DEF Cache!Page
  <2> HIDE DEF n, page
  <2>3. /\ page \in Seq(Entries) /\ Len(page) = n - offset
        /\ \A k \in 1..(n - offset) : page[k] = panel[offset + k]
    <3>1. offset + 1 \in Int /\ n \in Int /\ \A i \in (offset + 1)..n : panel[i] \in Entries
      BY <1>1, <2>1
    <3>2. /\ page \in Seq(Entries)
          /\ Len(page) = IF offset + 1 <= n THEN n - (offset + 1) + 1 ELSE 0
          /\ \A k \in 1..(n - (offset + 1) + 1) : page[k] = panel[offset + 1 + k - 1]
      BY <2>2, <3>1, SubSeqProperties
    <3>3. n - (offset + 1) + 1 = n - offset /\ \A k \in 1..(n - offset) : offset + 1 + k - 1 = offset + k
      BY <1>1, <2>1
    <3>4. Len(page) = n - offset
      BY <1>1, <2>1, <3>2
    <3>5. QED
      BY <3>2, <3>3, <3>4
  <2>4. DOMAIN page = 1..(n - offset)
    BY <2>1, <2>3
  <2>5. OncePerUser(page)
    <3> SUFFICES ASSUME NEW i \in 1..(n - offset), NEW j \in 1..(n - offset),
                        page[i].user = page[j].user
                 PROVE  i = j
      BY <2>4 DEF OncePerUser
    <3>1. offset + i \in DOMAIN panel /\ offset + j \in DOMAIN panel
      BY <1>1, <2>1
    <3>2. offset + i = offset + j
      <4>1. panel[offset + i].user = panel[offset + j].user
        BY <2>3
      <4>2. \A k, l \in DOMAIN panel : panel[k].user = panel[l].user => k = l
        BY <1>1 DEF OncePerUser
      <4>3. QED
        BY <3>1, <4>1, <4>2
    <3>3. QED
      BY <1>1, <2>1, <3>2
  <2>6. CASE \E k \in DOMAIN page : page[k].user = u
    <3>1. PICK k \in DOMAIN page : page[k].user = u
      BY <2>6
    <3>2. offset + k \in DOMAIN panel /\ page[k] = panel[offset + k]
      BY <1>1, <2>1, <2>3, <2>4
    <3>3. /\ Cache!LimitIn(page, page[k].user) = page[k].limit
          /\ Cache!LimitIn(panel, panel[offset + k].user) = panel[offset + k].limit
      BY <1>1, <2>3, <2>5, <3>2, LimitFound
    <3>4. QED
      BY <3>1, <3>2, <3>3 DEF page
  <2>7. CASE \A k \in DOMAIN page : page[k].user # u
    <3>1. Cache!LimitIn(page, u) = 0
      BY <2>7, LimitAbsent
    <3>2. ASSUME NEW i \in DOMAIN panel, panel[i].user = u, i > offset, ~(i > offset + PageSize)
          PROVE  FALSE
      <4>1. i - offset \in DOMAIN page
        BY <1>1, <2>1, <2>4, <3>2
      <4>2. page[i - offset] = panel[offset + (i - offset)] /\ offset + (i - offset) = i
        BY <1>1, <2>3, <2>4, <4>1
      <4>3. QED
        BY <2>7, <3>2, <4>1, <4>2
    <3>3. QED
      BY <1>1, <3>1, <3>2 DEF page
  <2>8. QED
    BY <2>6, <2>7
<1>3. CASE ~(offset < Len(panel))
  <2>1. Cache!LimitIn(Cache!Page, u) = 0
    BY <1>3, LimitAbsent DEF Cache!Page
  <2>2. QED
    BY <1>1, <1>3, <2>1
<1>4. QED
  BY <1>2, <1>3

(* Once its page is read, a user with no limit read is further ahead, or    *)
(* has been without.                                                        *)
LEMMA PageRead ==
  ASSUME CacheInv
  PROVE  /\ Cache!WithPage \in [Users -> Limits \cup {0}]
         /\ \A u \in Users : \/ Cache!WithPage[u] \in had[u]
                             \/ Cache!WithPage[u] = 0 /\ Ahead(u, offset + PageSize)
<1>1. ASSUME NEW u \in Users
      PROVE  /\ Cache!WithPage[u] \in Limits \cup {0}
             /\ \/ Cache!WithPage[u] \in had[u]
                \/ Cache!WithPage[u] = 0 /\ Ahead(u, offset + PageSize)
  <2>1. /\ had[u] \subseteq Limits \cup {0} /\ Limits \subseteq Nat
        /\ fetched[u] \in Limits \cup {0}
        /\ Cache!LimitIn(panel, u) \in had[u]
        /\ (fetched[u] \in had[u] \/ (fetched[u] = 0 /\ Ahead(u, offset)))
    BY CacheAssumed DEF CacheInv, Cache!TypeOK, PanelInv, ReadInv
  <2>2. Cache!WithPage[u] = IF Cache!LimitIn(Cache!Page, u) > 0 THEN Cache!LimitIn(Cache!Page, u)
                            ELSE fetched[u]
    BY DEF Cache!WithPage
  <2>3. CASE Cache!LimitIn(Cache!Page, u) = Cache!LimitIn(panel, u)
    <3>1. CASE Cache!LimitIn(panel, u) > 0
      BY <2>1, <2>2, <2>3, <3>1
    <3>2. CASE ~(Cache!LimitIn(panel, u) > 0)
      <4>1. Cache!LimitIn(panel, u) = 0
        <5>1. Cache!LimitIn(panel, u) \in Limits \cup {0}
          BY LimitTyped DEF CacheInv, PanelInv
        <5>2. Cache!LimitIn(panel, u) \in Nat
          BY <5>1, LimitsAreNumbers, Zenon
        <5>3. QED
          BY <3>2, <5>2
      <4>2. Cache!WithPage[u] = fetched[u]
        BY <2>2, <2>3, <3>2
      <4>3. QED
        BY <2>1, <4>1, <4>2
    <3>3. QED
      BY <3>1, <3>2
  <2>4. CASE /\ Cache!LimitIn(Cache!Page, u) = 0
             /\ \A i \in DOMAIN panel : panel[i].user = u => i <= offset \/ i > offset + PageSize
    <3>1. Cache!WithPage[u] = fetched[u]
      BY <2>2, <2>4
    <3>2. ASSUME Ahead(u, offset) PROVE Ahead(u, offset + PageSize)
      <4>1. PICK i \in DOMAIN panel : i > offset /\ panel[i].user = u
        BY <3>2 DEF Ahead
      <4>2. i \in Nat /\ offset \in Nat
        BY DEF CacheInv, PanelInv, Cache!TypeOK
      <4>3. i > offset + PageSize
        BY <2>4, <4>1, <4>2
      <4>4. QED
        BY <4>1, <4>3 DEF Ahead
    <3>3. QED
      BY <2>1, <3>1, <3>2
  <2>5. QED
    BY <2>3, <2>4, PageLimits
<1>2. QED
  BY <1>1 DEF Cache!WithPage

(* After the last page nobody is ahead: every limit read is one the user    *)
(* has had.                                                                 *)
LEMMA LastPageRead ==
  ASSUME CacheInv, Cache!LastPage
  PROVE  \A u \in Users : Cache!WithPage[u] \in had[u]
<1>1. /\ panel \in Seq(Entries) /\ DOMAIN panel = 1..Len(panel)
      /\ Len(panel) \in Nat /\ offset \in Nat /\ PageSize \in Nat \ {0}
  BY CacheAssumed DEF CacheInv, PanelInv, Cache!TypeOK
<1>2. Len(panel) <= offset + PageSize
  <2>1. CASE offset < Len(panel)
    <3>1. Cache!PageEnd \in offset..Len(panel)
      BY <1>1, <2>1 DEF Cache!PageEnd
    <3>2. Len(Cache!Page) = Cache!PageEnd - offset
      <4>1. /\ offset + 1 \in Int /\ Cache!PageEnd \in Int
            /\ \A i \in (offset + 1)..Cache!PageEnd : panel[i] \in Entries
        BY <1>1, <3>1
      <4>2. Len(Cache!Page) = IF offset + 1 <= Cache!PageEnd
                              THEN Cache!PageEnd - (offset + 1) + 1 ELSE 0
        BY <2>1, <4>1, SubSeqProperties DEF Cache!Page
      <4>3. QED
        BY <1>1, <3>1, <4>2
    <3>3. Cache!PageEnd - offset < PageSize
      BY <3>2 DEF Cache!LastPage
    <3>4. QED
      BY <1>1, <2>1, <3>3 DEF Cache!PageEnd
  <2>2. QED
    BY <1>1, <2>1
<1>3. \A u \in Users : ~Ahead(u, offset + PageSize)
  BY <1>1, <1>2 DEF Ahead
<1>4. QED
  BY <1>3, PageRead


(* What a reload begins with, or leaves behind, is right of any panel:      *)
(* nothing is read, and every user is ahead or has no limit.                *)
LEMMA NothingRead ==
  ASSUME CacheInv, panel' = panel, fetched' = Cache!NoLimits, offset' = 0, attempt' = 0,
         had' = [u \in Users |-> {Cache!LimitIn(panel, u)}]
  PROVE  /\ PanelInv' /\ ReadInv'
         /\ had' \in [Users -> SUBSET (Limits \cup {0})]
         /\ fetched' \in [Users -> Limits \cup {0}]
         /\ offset' \in Nat /\ attempt' \in 0..(ReqTries - 1)
<1>1. PanelInv'
  BY DEF CacheInv, PanelInv
<1>2. ASSUME NEW u \in Users
      PROVE  fetched'[u] \in had'[u] \/ (fetched'[u] = 0 /\ Ahead(u, offset)')
  <2>1. fetched'[u] = 0 /\ had'[u] = {Cache!LimitIn(panel, u)}
    BY DEF Cache!NoLimits
  <2>2. CASE \E i \in DOMAIN panel : panel[i].user = u
    <3>1. DOMAIN panel = 1..Len(panel) /\ panel' = panel /\ offset' = 0
      BY DEF CacheInv, PanelInv
    <3>2. Ahead(u, offset)'
      BY <2>2, <3>1 DEF Ahead
    <3>3. QED
      BY <2>1, <3>2
  <2>3. CASE \A i \in DOMAIN panel : panel[i].user # u
    <3>1. Cache!LimitIn(panel, u) = 0
      BY <2>3, LimitAbsent
    <3>2. QED
      BY <2>1, <3>1
  <2>4. QED
    BY <2>2, <2>3
<1>3. had' \in [Users -> SUBSET (Limits \cup {0})]
  <2>1. \A u \in Users : Cache!LimitIn(panel, u) \in Limits \cup {0}
    BY LimitTyped DEF CacheInv, PanelInv
  <2>2. QED
    BY <2>1
<1>4. fetched' \in [Users -> Limits \cup {0}] /\ offset' \in Nat /\ attempt' \in 0..(ReqTries - 1)
  BY CacheAssumed DEF Cache!NoLimits
<1>5. QED
  BY <1>1, <1>2, <1>3, <1>4 DEF ReadInv

(* A loader that returns leaves nothing read, and nobody reading.           *)
LEMMA ReturnKeeps ==
  ASSUME CacheInv, NEW l \in Cache!Loaders, loader[l] = "reading", Cache!Return(l),
         panel' = panel, known' \in [Users -> Limits \cup {0}], loaded' \in BOOLEAN,
         edits' \in 0..MaxEdits, faults' \in 0..MaxFaults,
         wrapped' \in BOOLEAN, cut' \in BOOLEAN
  PROVE  CacheInv'
<1>1. /\ PanelInv' /\ ReadInv'
      /\ had' \in [Users -> SUBSET (Limits \cup {0})]
      /\ fetched' \in [Users -> Limits \cup {0}]
      /\ offset' \in Nat /\ attempt' \in 0..(ReqTries - 1)
  BY NothingRead DEF Cache!Return
<1>2. /\ loader' = [loader EXCEPT ![l] = "idle"] /\ reading' = "nobody"
      /\ loader \in [Cache!Loaders -> {"idle", "waiting", "reading"}]
  BY DEF Cache!Return, CacheInv, Cache!TypeOK
<1>3. Cache!TypeOK'
  BY <1>1, <1>2 DEF CacheInv, Cache!TypeOK
<1>4. ReaderInv'
  <2>1. \A m \in Cache!Loaders : loader[m] = "reading" => m = l
    BY DEF CacheInv, ReaderInv
  <2>2. QED
    BY <1>2, <2>1 DEF ReaderInv
<1>5. QED
  BY <1>1, <1>3, <1>4 DEF CacheInv

(* A step of a loader keeps the invariant, and stores only limits the users *)
(* have had since the reload began, or none when it is cut short.           *)
LEMMA ReloadKeeps ==
  ASSUME CacheInv, NEW l \in Cache!Loaders, Cache!Reload(l)
  PROVE  /\ CacheInv'
         /\ \A u \in Users : known'[u] # known[u] =>
              known'[u] \in had[u] \cup (IF cut' THEN {0} ELSE {})
<1> USE DEF Cache!bounds
<1>1. CASE Cache!Begin(l)
  <2>1. /\ PanelInv' /\ ReadInv'
        /\ had' \in [Users -> SUBSET (Limits \cup {0})]
        /\ fetched' \in [Users -> Limits \cup {0}]
        /\ offset' \in Nat /\ attempt' \in 0..(ReqTries - 1)
    BY <1>1, NothingRead DEF Cache!Begin
  <2>2. /\ loader' = [loader EXCEPT ![l] = "reading"] /\ reading' = l /\ reading = "nobody"
        /\ loader \in [Cache!Loaders -> {"idle", "waiting", "reading"}]
        /\ UNCHANGED <<panel, wrapped, known, loaded, edits, faults, cut>>
    BY <1>1 DEF Cache!Begin, CacheInv, Cache!TypeOK
  <2>3. Cache!TypeOK'
    BY <2>1, <2>2 DEF CacheInv, Cache!TypeOK
  <2>4. ReaderInv'
    <3>1. \A m \in Cache!Loaders : loader[m] # "reading"
      BY <2>2, CacheAssumed DEF CacheInv, ReaderInv
    <3>2. QED
      BY <2>2, <3>1 DEF ReaderInv
  <2>5. QED
    BY <2>1, <2>2, <2>3, <2>4 DEF CacheInv
<1>2. CASE Cache!ReadPage(l)
  <2>1. /\ fetched' = Cache!WithPage /\ offset' = offset + PageSize /\ attempt' = 0
        /\ UNCHANGED <<panel, wrapped, known, loaded, loader, reading, had, edits, faults, cut>>
    BY <1>2 DEF Cache!ReadPage
  <2>2. Cache!TypeOK'
    <3>1. fetched' \in [Users -> Limits \cup {0}]
      BY <2>1, PageRead
    <3>2. offset' \in Nat /\ attempt' \in 0..(ReqTries - 1)
      BY <2>1, CacheAssumed DEF CacheInv, Cache!TypeOK
    <3>3. QED
      BY <2>1, <3>1, <3>2 DEF CacheInv, Cache!TypeOK
  <2>3. PanelInv' /\ ReaderInv'
    BY <2>1 DEF CacheInv, PanelInv, ReaderInv
  <2>4. ReadInv'
    <3>1. ASSUME NEW u \in Users, Ahead(u, offset + PageSize) PROVE Ahead(u, offset)'
      BY <2>1, <3>1 DEF Ahead
    <3>2. QED
      BY <2>1, <3>1, PageRead DEF ReadInv
  <2>5. QED
    BY <2>1, <2>2, <2>3, <2>4 DEF CacheInv
<1>3. CASE Cache!ReadLastPage(l)
  <2>1. /\ loader[l] = "reading" /\ Cache!LastPage /\ Cache!Return(l)
        /\ known' = Cache!WithPage /\ loaded' = TRUE
        /\ cut' = FALSE /\ UNCHANGED <<panel, wrapped, edits, faults>>
    BY <1>3 DEF Cache!ReadLastPage, Cache!Store
  <2>2. known' \in [Users -> Limits \cup {0}]
    BY <2>1, PageRead
  <2>3. /\ edits' \in 0..MaxEdits /\ faults' \in 0..MaxFaults
        /\ wrapped' \in BOOLEAN /\ cut' \in BOOLEAN
    BY <2>1 DEF CacheInv, Cache!TypeOK
  <2>4. CacheInv'
    BY <2>1, <2>2, <2>3, ReturnKeeps
  <2>5. QED
    BY <2>1, <2>4, LastPageRead
<1>4. CASE Cache!RetryPage(l)
  <2>1. /\ attempt' \in 0..(ReqTries - 1)
        /\ UNCHANGED <<panel, wrapped, known, loaded, loader, reading, offset, fetched, had,
                       edits, faults, cut>>
    BY <1>4, CacheAssumed DEF Cache!RetryPage, CacheInv, Cache!TypeOK
  <2>2. QED
    BY <2>1 DEF CacheInv, Cache!TypeOK, PanelInv, ReadInv, ReaderInv, Ahead
<1>5. CASE Cache!FailReload(l) \/ Cache!RejectPage(l)
  <2>1. /\ loader[l] = "reading" /\ Cache!Return(l)
        /\ UNCHANGED <<panel, wrapped, edits, known, loaded, cut>>
        /\ faults' \in 0..MaxFaults
    BY <1>5, CacheAssumed
       DEF Cache!FailReload, Cache!RejectPage, Cache!Keep, CacheInv, Cache!TypeOK
  <2>2. /\ known' \in [Users -> Limits \cup {0}] /\ loaded' \in BOOLEAN
        /\ edits' \in 0..MaxEdits /\ wrapped' \in BOOLEAN /\ cut' \in BOOLEAN
    BY <2>1 DEF CacheInv, Cache!TypeOK
  <2>3. CacheInv'
    BY <2>1, <2>2, ReturnKeeps
  <2>4. QED
    BY <2>1, <2>3
<1>6. CASE Cache!EndEarly(l)
  <2>1. /\ loader[l] = "reading" /\ Cache!Return(l)
        /\ known' = fetched /\ loaded' = TRUE /\ cut' = TRUE
        /\ UNCHANGED <<panel, wrapped, edits>>
        /\ faults' \in 0..MaxFaults
    BY <1>6, CacheAssumed DEF Cache!EndEarly, Cache!Store, CacheInv, Cache!TypeOK
  <2>2. /\ known' \in [Users -> Limits \cup {0}]
        /\ edits' \in 0..MaxEdits /\ wrapped' \in BOOLEAN
    BY <2>1 DEF CacheInv, Cache!TypeOK
  <2>3. CacheInv'
    BY <2>1, <2>2, ReturnKeeps
  <2>4. \A u \in Users : fetched[u] \in had[u] \/ fetched[u] = 0
    BY DEF CacheInv, ReadInv
  <2>5. QED
    BY <2>1, <2>3, <2>4
<1>7. QED
  BY <1>1, <1>2, <1>3, <1>4, <1>5, <1>6 DEF Cache!Reload

(* The invariant is inductive, and no step stores another limit.            *)
LEMMA CacheStepInv ==
  ASSUME CacheInv, [Next]_vars
  PROVE  /\ CacheInv'
         /\ \A u \in Users : known'[u] # known[u] =>
              known'[u] \in had[u] \cup (IF cut' THEN {0} ELSE {})
<1>1. ASSUME NEW l \in Cache!Loaders, Cache!Ask(l)
      PROVE  CacheInv' /\ known' = known
  <2>1. /\ loader' = [loader EXCEPT ![l] = "waiting"]
        /\ UNCHANGED <<panel, wrapped, known, loaded, reading, offset, attempt, fetched, had,
                       edits, faults, cut>>
    BY <1>1 DEF Cache!Ask, Cache!reloadVars, Cache!bounds
  <2>2. QED
    BY <2>1 DEF CacheInv, Cache!TypeOK, PanelInv, ReadInv, ReaderInv, Ahead
<1>2. CASE Cache!Age
  <2>1. /\ loaded' = FALSE
        /\ UNCHANGED <<panel, wrapped, known, loader, reading, offset, attempt, fetched, had,
                       edits, faults, cut>>
    BY <1>2 DEF Cache!Age, Cache!reloadVars, Cache!bounds
  <2>2. QED
    BY <2>1 DEF CacheInv, Cache!TypeOK, PanelInv, ReadInv, ReaderInv, Ahead
<1>3. ASSUME NEW u \in Users,
             Cache!RemoveUser(u) \/ \E n \in Limits : Cache!AddUser(u, n) \/ Cache!SetLimit(u, n)
      PROVE  CacheInv' /\ known' = known
  <2>1. known' = known
    BY <1>3 DEF Cache!RemoveUser, Cache!AddUser, Cache!SetLimit, Cache!Edit
  <2>2. QED
    BY <1>3, <2>1, PanelKeeps
<1>4. CASE UNCHANGED panelVars
  BY <1>4 DEF panelVars, CacheInv, Cache!TypeOK, PanelInv, ReadInv, ReaderInv, Ahead
<1>5. QED
  BY <1>1, <1>2, <1>3, <1>4, ReloadKeeps, CacheAlone
     DEF Cache!Next, Cache!RefreshIfStale, Cache!Loaders

LEMMA CacheInvariance == Spec => []CacheInv
<1>1. Init => CacheInv
  BY CacheInitInv DEF Init
<1>2. CacheInv /\ [Next]_vars => CacheInv'
  BY CacheStepInv
<1>3. QED
  BY <1>1, <1>2, PTL DEF Spec

(* The cache keeps its types: it holds limits, or none.                     *)
THEOREM CacheTypeCorrect == Spec => []Cache!TypeOK
<1>1. CacheInv => Cache!TypeOK
  BY DEF CacheInv
<1>2. QED
  BY <1>1, CacheInvariance, PTL

(* A limit that changes in the cache is one its user has had during the     *)
(* reload, whatever pages fail and however the panel changes meanwhile; or  *)
(* none, when an answer without a response field cuts the reload short      *)
(* (panel/client.go, fetchAllLimits and reload).                            *)
THEOREM LimitsAreThePanels == Spec => LimitsFromPanel
<1>1. CacheInv /\ [Next]_vars =>
        [\A u \in Users : known'[u] # known[u] =>
           known'[u] \in had[u] \cup (IF cut' THEN {0} ELSE {})]_panelVars
  BY CacheStepInv
<1>2. QED
  BY <1>1, CacheInvariance, PTL
     DEF Spec, LimitsFromPanel, Cache!LimitsFromPanel, Cache!panelVars, panelVars

=============================================================================
