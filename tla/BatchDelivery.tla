---------------------------- MODULE BatchDelivery ----------------------------
(***************************************************************************)
(* What the intake of log batches promises to the agents that send them.   *)
(* A batch is offered until the service answers; a refused batch may be    *)
(* offered again; an accepted one is worked through once.  Only a service  *)
(* that is stopping may give an accepted batch up.                         *)
(***************************************************************************)
CONSTANT Batches

VARIABLES fate,     \* what became of each batch
          stopping  \* the background workers were told to stop

Fates == {"offered", "refused", "accepted", "done", "abandoned"}

Init == /\ fate = [b \in Batches |-> "offered"]
        /\ stopping = FALSE

Becomes(b, from, to) == /\ fate[b] = from
                        /\ fate' = [fate EXCEPT ![b] = to]
                        /\ UNCHANGED stopping

Refuse(b) == Becomes(b, "offered", "refused")
OfferAgain(b) == Becomes(b, "refused", "offered")
Accept(b) == Becomes(b, "offered", "accepted")
Complete(b) == Becomes(b, "accepted", "done")
Abandon(b) == stopping /\ Becomes(b, "accepted", "abandoned")
AcceptTooLate(b) == stopping /\ Becomes(b, "offered", "abandoned")

BeginStop == /\ stopping' = TRUE
             /\ UNCHANGED fate

Next == \/ BeginStop
        \/ \E b \in Batches : \/ Refuse(b) \/ OfferAgain(b) \/ Accept(b)
                              \/ Complete(b) \/ Abandon(b) \/ AcceptTooLate(b)

Spec == Init /\ [][Next]_<<fate, stopping>>
=============================================================================
