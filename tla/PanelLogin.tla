----------------------------- MODULE PanelLogin -----------------------------
(***************************************************************************)
(* Logins to the panel from one address, and the sessions they open, both  *)
(* in the memory of the server: the address's count of failures and its    *)
(* lock, the check and the verification of a login as separate steps       *)
(* (Redis and bcrypt lie between them), the tokens with their end, the     *)
(* check every request passes.  Whether a password is right is a choice.   *)
(* A lock or a session is the time left to it.                             *)
(* Operators named Faulty... are wrong variants of the next definition.    *)
(***************************************************************************)
EXTENDS Integers

CONSTANTS Logins,      \* login requests at a time
          MaxFailures, \* panelLoginMaxFailedAttempts (5)
          LockTime,    \* panelLoginLockoutDuration (60 s)
          KeepTime,    \* how long an ended lock is remembered (10 min)
          SessionTTL,  \* PanelSessionTTL
          Tokens       \* session tokens, each used again once forgotten

\* What the constants have to satisfy; Services assumes it.
LoginAssumption == /\ MaxFailures \in Nat \ {0}
                   /\ LockTime \in Nat \ {0}
                   /\ KeepTime \in Nat
                   /\ SessionTTL \in Nat \ {0}

VARIABLES failures, \* FailedCount of the address
          lockLeft, \* time to LockedUntil; NeverLocked when that is unset
          login,    \* each login request
          session   \* time to the end of each session, or Unknown

loginVars == <<failures, lockLeft, login, session>>

NeverLocked == -KeepTime - 1
Unknown == -2

Init == /\ failures = 0
        /\ lockLeft = NeverLocked
        /\ login = [l \in Logins |-> "idle"]
        /\ session = [t \in Tokens |-> Unknown]

-----------------------------------------------------------------------------
(* Logins. *)

\* panelLoginLockInfo, under loginMu: an entry whose lock ended long ago or
\* was never set is dropped; the login goes on unless the address is locked.
Check(l) == /\ login[l] = "idle"
            /\ failures' = IF lockLeft = NeverLocked THEN 0 ELSE failures
            /\ login' = [login EXCEPT ![l] = IF lockLeft > 0 THEN "idle" ELSE "verifying"]
            /\ UNCHANGED <<lockLeft, session>>

FaultyCountFailure == IF failures + 1 >= MaxFailures
                      THEN failures' = 0 /\ lockLeft' = LockTime
                      ELSE failures' = failures + 1 /\ UNCHANGED lockLeft
\* One more failure locks the address when it is the last allowed; a failure
\* of a login that was under way when the lock came does not count.
CountFailure == IF lockLeft > 0
                THEN UNCHANGED <<failures, lockLeft>>
                ELSE IF failures + 1 >= MaxFailures
                     THEN failures' = 0 /\ lockLeft' = LockTime
                     ELSE failures' = failures + 1 /\ UNCHANGED lockLeft

\* panelLoginFailed.
Fail(l) == /\ login[l] = "verifying"
           /\ login' = [login EXCEPT ![l] = "idle"]
           /\ CountFailure
           /\ UNCHANGED session

\* Redis does not answer: the login ends and counts as nothing.
VerifyFails(l) == /\ login[l] = "verifying"
                  /\ login' = [login EXCEPT ![l] = "idle"]
                  /\ UNCHANGED <<failures, lockLeft, session>>

\* panelLoginSucceeded forgets the failures and the lock of the address...
Succeed(l) == /\ login[l] = "verifying"
              /\ login' = [login EXCEPT ![l] = "right"]
              /\ failures' = 0
              /\ lockLeft' = NeverLocked
              /\ UNCHANGED session

\* ... and createPanelSession opens a session.
CreateSession(l) == /\ login[l] = "right"
                    /\ login' = [login EXCEPT ![l] = "idle"]
                    /\ \E t \in Tokens : /\ session[t] = Unknown
                                         /\ session' = [session EXCEPT ![t] = SessionTTL]
                    /\ UNCHANGED <<failures, lockLeft>>

-----------------------------------------------------------------------------
(* Sessions. *)

\* hasValidPanelSession drops every session past its end; a request that
\* bears t is admitted when Valid(t) holds then.
Valid(t) == session[t] > 0
CheckSession == /\ session' = [t \in Tokens |-> IF session[t] < 0 THEN Unknown ELSE session[t]]
                /\ UNCHANGED <<failures, lockLeft, login>>

\* destroyPanelSession, for a request that was admitted.
Logout(t) == /\ Valid(t)
             /\ session' = [session EXCEPT ![t] = Unknown]
             /\ UNCHANGED <<failures, lockLeft, login>>

\* A session past its end stays at -1 until it is dropped.
Tick == /\ lockLeft' = IF lockLeft = NeverLocked THEN lockLeft ELSE lockLeft - 1
        /\ session' = [t \in Tokens |-> IF session[t] >= 0 THEN session[t] - 1 ELSE session[t]]
        /\ UNCHANGED <<failures, login>>

Login(l) == Check(l) \/ Fail(l) \/ VerifyFails(l) \/ Succeed(l) \/ CreateSession(l)

Next == \/ \E l \in Logins : Login(l)
        \/ CheckSession
        \/ \E t \in Tokens : Logout(t)
        \/ Tick

Spec == Init /\ [][Next]_loginVars

-----------------------------------------------------------------------------
TypeOK == /\ failures \in 0..(MaxFailures - 1)
          /\ lockLeft \in NeverLocked..LockTime
          /\ login \in [Logins -> {"idle", "verifying", "right"}]
          /\ session \in [Tokens -> Unknown..SessionTTL]

\* Logins that were let in before an address was locked and fail while it is
\* locked never prolong the lock, however many there are.
LockNotProlonged == [][lockLeft > 0 => lockLeft' <= lockLeft]_loginVars
=============================================================================
