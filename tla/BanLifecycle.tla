--------------------------- MODULE BanLifecycle ---------------------------
(***************************************************************************)
(* What the sharing detector promises about a user, without triggers,      *)
(* clocks or counters: the user is clear, a violator, in the ban-list or   *)
(* banned for good, and moves between these in a fixed order.  A ban is    *)
(* published only by a move into the ban-list, one publication at a time,  *)
(* and only a publication makes a ban permanent; nothing but the end of    *)
(* the process undoes a permanent ban.                                     *)
(* SharingDetector implements this (PROPERTY Lifecycle, theorem            *)
(* DetectorImplementsLifecycle).                                           *)
(***************************************************************************)
EXTENDS Naturals

CONSTANT Users

VARIABLES
  standing,    \* standing[u]: where the user stands
  publishing,  \* publishing[u]: a ban of the user is being published
  epoch        \* which life of the process this is

vars == <<standing, publishing, epoch>>

Standing == {"clear", "violator", "banlisted", "permanent"}

TypeOK ==
  /\ standing \in [Users -> Standing]
  /\ publishing \in [Users -> BOOLEAN]
  /\ epoch \in Nat

Init ==
  /\ standing = [u \in Users |-> "clear"]
  /\ publishing = [u \in Users |-> FALSE]
  /\ epoch = 0

(* Sharing is confirmed. *)
Accuse(u) ==
  /\ standing[u] = "clear"
  /\ standing' = [standing EXCEPT ![u] = "violator"]
  /\ UNCHANGED <<publishing, epoch>>

(* The violation lasted: the user enters the ban-list, and its ban may be   *)
(* published unless one is being published already.                         *)
Enlist(u) ==
  /\ standing[u] = "violator"
  /\ standing' = [standing EXCEPT ![u] = "banlisted"]
  /\ \/ UNCHANGED publishing
     \/ /\ ~publishing[u]
        /\ publishing' = [publishing EXCEPT ![u] = TRUE]
  /\ UNCHANGED epoch

(* The publication ends; a permanent ban counts even if the user was        *)
(* cleared in the meantime.                                                 *)
Publish(u) ==
  /\ publishing[u]
  /\ publishing' = [publishing EXCEPT ![u] = FALSE]
  /\ standing' \in {standing, [standing EXCEPT ![u] = "permanent"]}
  /\ UNCHANGED epoch

(* Some users, none of them permanently banned, are cleared together. *)
Clear(S) ==
  /\ \A u \in S : standing[u] # "permanent"
  /\ standing' = [u \in Users |-> IF u \in S THEN "clear" ELSE standing[u]]
  /\ UNCHANGED <<publishing, epoch>>

Restart ==
  /\ standing' = [u \in Users |-> "clear"]
  /\ publishing' = [u \in Users |-> FALSE]
  /\ epoch' = epoch + 1

Next ==
  \/ \E u \in Users : Accuse(u) \/ Enlist(u) \/ Publish(u)
  \/ \E S \in SUBSET Users : Clear(S)
  \/ Restart

Spec == Init /\ [][Next]_vars
===========================================================================
