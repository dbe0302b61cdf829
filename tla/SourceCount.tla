----------------------------- MODULE SourceCount -----------------------------
(***************************************************************************)
(* The independent sources of one user: the workers record each entry with *)
(* its time and prune what is older than HeuristicsWindow; later, and with *)
(* the time they had read, they count the source keys of the addresses     *)
(* seen within SourceWindow of it.  Of an address only the latest event    *)
(* matters; a time is its age, Gone once it does not.                      *)
(* A source is a /24 network, or the wider mobile key of an address that   *)
(* is classified as mobile, which may differ from one lookup to the next.  *)
(* Operators named Faulty... are wrong variants of the next definition.    *)
(***************************************************************************)
EXTENDS Naturals, FiniteSets

CONSTANTS Recorders,        \* workers that handle entries of the user
          Places,           \* addresses of the user
          NetOf,            \* sharingSourceKey: the /24 of each address
          MobileNetOf,      \* sharingMobileSourceKey of each address
          SourceWindow,     \* SharingSourceWindow (180 s)
          HeuristicsWindow, \* HeuristicsWindow (120 s)
          MaxWait           \* bound on the time from recording to counting

\* What the constants have to satisfy; Services assumes it.
SourceAssumption == /\ SourceWindow \in Nat
                    /\ HeuristicsWindow \in Nat
                    /\ MaxWait \in Nat
                    /\ IsFiniteSet(Places)

VARIABLES recent,   \* recentEvents: age of the latest event of each address
          truth,    \* the same, never pruned
          handling, \* the address of each worker's entry, or Nobody
          read,     \* age of the time each worker has read
          active,   \* addresses the registry gave for the last count
          seen,     \* addresses that count took in
          sources   \* sources it found

sourceVars == <<recent, truth, handling, read, active, seen, sources>>

Nobody == "nobody"
Gone == SourceWindow + HeuristicsWindow + MaxWait + 1
Older(age) == IF age < Gone THEN age + 1 ELSE Gone

Init == /\ recent = [i \in Places |-> Gone]
        /\ truth = [i \in Places |-> Gone]
        /\ handling = [w \in Recorders |-> Nobody]
        /\ read = [w \in Recorders |-> 0]
        /\ active = {}
        /\ seen = {}
        /\ sources = 0

-----------------------------------------------------------------------------
FaultyKept(age) == age < HeuristicsWindow
\* pruneEventsLocked keeps an event that is just as old as the window.
Kept(age) == age <= HeuristicsWindow

\* recordUserEvent, under eventsMu: the event is added, the old ones pruned.
RecordEvent(w, i) ==
    /\ handling[w] = Nobody
    /\ handling' = [handling EXCEPT ![w] = i]
    /\ read' = [read EXCEPT ![w] = 0]
    /\ recent' = [j \in Places |-> IF j = i THEN 0 ELSE IF Kept(recent[j]) THEN recent[j] ELSE Gone]
    /\ truth' = [truth EXCEPT ![i] = 0]
    /\ UNCHANGED <<active, seen, sources>>

InWindow(w, age) == age <= SourceWindow + read[w]

\* The addresses a worker takes in: those the registry calls active and it
\* has seen lately, and the one of its entry.
TakenIn(w, ips) == {i \in ips : InWindow(w, recent[i])} \cup {handling[w]}

Keys(ips, mobile) == {IF i \in mobile THEN MobileNetOf[i] ELSE NetOf[i] : i \in ips}

\* countEffectiveSharingSources; each address is looked up as it is counted.
CountSources(w) ==
    /\ handling[w] # Nobody
    /\ \E ips \in SUBSET Places, mobile \in SUBSET Places :
         /\ active' = ips
         /\ seen' = TakenIn(w, ips)
         /\ mobile \subseteq seen'
         /\ sources' = Cardinality(Keys(seen', mobile))
    /\ handling' = [handling EXCEPT ![w] = Nobody]
    /\ read' = [read EXCEPT ![w] = 0]
    /\ UNCHANGED <<recent, truth>>

\* The script failed, or the user is excluded: nothing is counted.
Abandon(w) == /\ handling[w] # Nobody
              /\ handling' = [handling EXCEPT ![w] = Nobody]
              /\ read' = [read EXCEPT ![w] = 0]
              /\ UNCHANGED <<recent, truth, active, seen, sources>>

Tick == /\ \A w \in Recorders : handling[w] # Nobody => read[w] < MaxWait
        /\ recent' = [i \in Places |-> Older(recent[i])]
        /\ truth' = [i \in Places |-> Older(truth[i])]
        /\ read' = [w \in Recorders |-> IF handling[w] = Nobody THEN 0 ELSE read[w] + 1]
        /\ UNCHANGED <<handling, active, seen, sources>>

Next == \/ \E w \in Recorders : \/ \E i \in Places : RecordEvent(w, i)
                              \/ CountSources(w)
                              \/ Abandon(w)
        \/ Tick

Spec == Init /\ [][Next]_sourceVars

-----------------------------------------------------------------------------
TypeOK == /\ recent \in [Places -> 0..Gone]
          /\ truth \in [Places -> 0..Gone]
          /\ handling \in [Recorders -> Places \cup {Nobody}]
          /\ read \in [Recorders -> 0..MaxWait]
          /\ active \subseteq Places
          /\ seen \subseteq Places
          /\ sources \in 0..Cardinality(Places)

Smaller(m, n) == IF m <= n THEN m ELSE n

\* A count leaves out no active address that was seen within the shorter of
\* the two windows, though another worker prunes between this worker's record
\* and its count, and takes in none that was not seen within SourceWindow of
\* the entry: with HeuristicsWindow the shorter, as it is by default, sources
\* between the two ages may be missing.
CountsWindow == [][\A w \in Recorders : CountSources(w) =>
    LET least == {i \in active' : truth[i] <= Smaller(SourceWindow + read[w], HeuristicsWindow)}
        most == {i \in active' : InWindow(w, truth[i])}
    IN least \subseteq seen' /\ seen' \ {handling[w]} \subseteq most]_sourceVars
=============================================================================
