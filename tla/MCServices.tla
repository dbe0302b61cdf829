----------------------------- MODULE MCServices -----------------------------
(* Instances of the components for TLC.                                    *)
EXTENDS Services

\* One setting the processor keeps a copy of, with a least value, and one it
\* does not keep; the greatest value a load takes is above what updates take.
LeastValues == [k \in Settings |-> IF k \in Own THEN 1 ELSE 0]
MostValues == [k \in Settings |-> 1]
BaseValues == [k \in Settings |-> 2]

\* Two networks, and one mobile operator for both.
Nets == [i \in Places |-> i]
Mobile == [i \in Places |-> "m"]
=============================================================================
