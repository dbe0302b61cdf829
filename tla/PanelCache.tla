----------------------------- MODULE PanelCache -----------------------------
(***************************************************************************)
(* The panel client's cache of the users' device limits: reload, which the *)
(* ticker and the handlers run one at a time, reads the users page by      *)
(* page, by offset, while the panel changes, and replaces the cache when   *)
(* every page was read.  The panel is a list of users with their limits; a *)
(* limit of 0 counts as none.  The profiles follow the limits and are left *)
(* out, as are the names of the nodes, which are only ever added to.       *)
(* Operators named Faulty... are wrong variants of the next definition.    *)
(***************************************************************************)
EXTENDS Naturals, Sequences, SequencesExt

CONSTANTS Users,      \* user identifiers
          Limits,     \* limits a user may have in the panel
          FirstUsers, \* users the panel has at the start
          FirstLimit, \* their limit
          PageSize,   \* panelUsersPageSize (200)
          Ticker,     \* the goroutine of Run
          Handlers,   \* handlers that refresh on demand
          ReqTries,   \* panelReqRetries (3)
          MaxEdits,   \* bound on the changes of the panel
          MaxFaults   \* bound on the reloads that fail or are cut short by a fault

\* What the constants have to satisfy; Services assumes it.
PanelAssumption == /\ Limits \subseteq Nat
                   /\ FirstUsers \subseteq Users
                   /\ FirstLimit \in Limits
                   /\ PageSize \in Nat \ {0}
                   /\ ReqTries \in Nat \ {0}
                   /\ MaxEdits \in Nat
                   /\ MaxFaults \in Nat
                   /\ "nobody" \notin {Ticker} \cup Handlers
                   /\ IsFiniteSet(Users)
                   /\ Ticker \notin Handlers

Loaders == {Ticker} \cup Handlers

VARIABLES panel,   \* users of the panel, in its order, with their limits
          wrapped, \* its pages come as {"users": [...]}, not as a bare list
          known,   \* userLimit: the cached limit of each user, 0 for none
          loaded,  \* stats.Loaded with LastLoad recent enough
          loader,  \* what each loader does
          reading, \* the loader that holds reloadMu, or "nobody"
          offset,  \* start of the page to read next
          attempt, \* attempts at that page
          fetched, \* limits read so far
          had,     \* limits each user has had since the reload began
          edits,   \* changes of the panel so far
          faults,  \* faults of reloads so far
          cut      \* history: the reload that filled the cache was cut short

panelVars == <<panel, wrapped, known, loaded, loader, reading, offset, attempt, fetched, had,
               edits, faults, cut>>
bounds == <<wrapped, edits, faults>>
reloadVars == <<reading, offset, attempt, fetched>>

NoLimits == [u \in Users |-> 0]
Entry(u, n) == [user |-> u, limit |-> n]
Listed == {panel[i].user : i \in DOMAIN panel}
LimitIn(list, u) == IF \E i \in DOMAIN list : list[i].user = u
                    THEN (CHOOSE e \in ToSet(list) : e.user = u).limit ELSE 0
LimitsOf(list) == [u \in Users |-> LimitIn(list, u)]

Init == /\ panel = SetToSeq({Entry(u, FirstLimit) : u \in FirstUsers})
        /\ wrapped \in BOOLEAN
        /\ known = NoLimits
        /\ loaded = FALSE
        /\ loader = [l \in Loaders |-> "idle"]
        /\ reading = "nobody"
        /\ offset = 0
        /\ attempt = 0
        /\ fetched = NoLimits
        /\ had = [u \in Users |-> {LimitIn(panel, u)}]
        /\ edits = 0
        /\ faults = 0
        /\ cut = FALSE

-----------------------------------------------------------------------------
(* The panel, an outside service, changes as it pleases. *)

\* Limits that a reload under way may store.  A user that leaves moves those
\* behind it into pages already read: they may be missed.
Edit(list, mayMiss) ==
    /\ edits < MaxEdits
    /\ edits' = edits + 1
    /\ panel' = list
    /\ had' = [u \in Users |-> had[u] \cup {LimitIn(list, u)} \cup (IF mayMiss THEN {0} ELSE {})]
    /\ UNCHANGED <<wrapped, known, loaded, loader, reloadVars, faults, cut>>

AddUser(u, n) == u \notin Listed /\ Edit(Append(panel, Entry(u, n)), FALSE)
SetLimit(u, n) == /\ u \in Listed
                  /\ Edit([i \in DOMAIN panel |-> IF panel[i].user = u THEN Entry(u, n)
                                                  ELSE panel[i]], FALSE)
RemoveUser(u) == \E i \in DOMAIN panel : /\ panel[i].user = u
                                         /\ Edit(RemoveAt(panel, i), TRUE)

-----------------------------------------------------------------------------
(* Loaders. *)

\* The ticker asks for a reload at every interval, a handler when the cache is
\* too old as it looks, which is before it waits for reloadMu.
Ask(l) == /\ loader[l] = "idle"
          /\ loader' = [loader EXCEPT ![l] = "waiting"]
          /\ UNCHANGED <<panel, known, loaded, reloadVars, had, cut, bounds>>
RefreshIfStale(l) == ~loaded /\ Ask(l)

\* The cache passes the age a handler accepts.
Age == /\ loaded
       /\ loaded' = FALSE
       /\ UNCHANGED <<panel, known, loader, reloadVars, had, cut, bounds>>

Begin(l) == /\ loader[l] = "waiting"
            /\ reading = "nobody"
            /\ reading' = l
            /\ loader' = [loader EXCEPT ![l] = "reading"]
            /\ offset' = 0
            /\ attempt' = 0
            /\ fetched' = NoLimits
            /\ had' = [u \in Users |-> {LimitIn(panel, u)}]
            /\ UNCHANGED <<panel, known, loaded, cut, bounds>>

PageEnd == IF offset + PageSize < Len(panel) THEN offset + PageSize ELSE Len(panel)
Page == IF offset < Len(panel) THEN SubSeq(panel, offset + 1, PageEnd) ELSE <<>>

FaultyWithPage == [u \in Users |-> IF LimitIn(Page, u) > 0 THEN LimitIn(Page, u)
                                   ELSE IF fetched[u] > 0 THEN fetched[u] ELSE known[u]]
\* The limits of a page are added to those read; a limit of 0 adds nothing.
WithPage == [u \in Users |-> IF LimitIn(Page, u) > 0 THEN LimitIn(Page, u) ELSE fetched[u]]

\* fetchAllLimits ends at a page that is not full.  One without users is
\* understood as a bare list only: {"users": []} is an error.
LastPage == Len(Page) < PageSize
Understood == Page # <<>> \/ ~wrapped

\* reload stores what was read, under mu, in one step, and returns.
Store(limits) == known' = limits /\ loaded' = TRUE
Return(l) == /\ reading' = "nobody"
             /\ loader' = [loader EXCEPT ![l] = "idle"]
             /\ offset' = 0 /\ attempt' = 0 /\ fetched' = NoLimits
             /\ had' = [u \in Users |-> {LimitIn(panel, u)}]

ReadPage(l) == /\ loader[l] = "reading"
               /\ ~LastPage
               /\ fetched' = WithPage
               /\ offset' = offset + PageSize
               /\ attempt' = 0
               /\ UNCHANGED <<panel, known, loaded, loader, reading, had, cut, bounds>>

ReadLastPage(l) == /\ loader[l] = "reading"
                   /\ LastPage
                   /\ Understood
                   /\ Store(WithPage)
                   /\ cut' = FALSE
                   /\ Return(l)
                   /\ UNCHANGED <<panel, bounds>>

\* A page that does not come is asked for again, up to the last attempt.
RetryPage(l) == /\ loader[l] = "reading"
                /\ attempt + 1 < ReqTries
                /\ attempt' = attempt + 1
                /\ UNCHANGED <<panel, known, loaded, loader, reading, offset, fetched, had, cut, bounds>>

\* An answer of status 200 whose response field is missing or null is taken for
\* the end of the list: the limits read before it are stored as if they were all.
EndEarly(l) == /\ loader[l] = "reading"
               /\ faults < MaxFaults
               /\ faults' = faults + 1
               /\ Store(fetched)
               /\ cut' = TRUE
               /\ Return(l)
               /\ UNCHANGED <<panel, wrapped, edits>>

FaultyKeep == Store(fetched)
\* A reload that fails stores nothing.
Keep == UNCHANGED <<known, loaded>>

\* The last attempt fails, or the answer is of another kind.
FailReload(l) == /\ loader[l] = "reading"
                 /\ faults < MaxFaults
                 /\ faults' = faults + 1
                 /\ Keep
                 /\ Return(l)
                 /\ UNCHANGED <<panel, wrapped, edits, cut>>

\* The panel has no more users where the last page was full.
RejectPage(l) == /\ loader[l] = "reading"
                 /\ ~Understood
                 /\ Keep
                 /\ Return(l)
                 /\ UNCHANGED <<panel, cut, bounds>>

Reload(l) == \/ Begin(l)
             \/ ReadPage(l) \/ ReadLastPage(l) \/ RetryPage(l)
             \/ EndEarly(l) \/ FailReload(l) \/ RejectPage(l)

Next == \/ \E u \in Users : RemoveUser(u) \/ \E n \in Limits : AddUser(u, n) \/ SetLimit(u, n)
        \/ \E l \in Loaders : Reload(l)
        \/ Ask(Ticker)
        \/ \E h \in Handlers : RefreshIfStale(h)
        \/ Age

Spec == Init /\ [][Next]_panelVars

-----------------------------------------------------------------------------
TypeOK == /\ \A i \in DOMAIN panel : panel[i] \in [user : Users, limit : Limits]
          /\ wrapped \in BOOLEAN
          /\ known \in [Users -> Limits \cup {0}]
          /\ loaded \in BOOLEAN
          /\ loader \in [Loaders -> {"idle", "waiting", "reading"}]
          /\ reading \in Loaders \cup {"nobody"}
          /\ offset \in Nat
          /\ attempt \in 0..(ReqTries - 1)
          /\ fetched \in [Users -> Limits \cup {0}]
          /\ had \in [Users -> SUBSET (Limits \cup {0})]
          /\ edits \in 0..MaxEdits
          /\ faults \in 0..MaxFaults
          /\ cut \in BOOLEAN

\* A limit that changes in the cache becomes one the user had in the panel at
\* some time during the reload that brings it, though the pages are read at
\* different times and pages may fail.  A user is taken to have none without
\* having been without only when another user was removed meanwhile, or by a
\* reload that an answer without a response field cut short.
LimitsFromPanel ==
  [][\A u \in Users : known'[u] # known[u] =>
       known'[u] \in had[u] \cup (IF cut' THEN {0} ELSE {})]_panelVars

\* The panel's list can be read to its end.
Readable == wrapped => Len(panel) % PageSize # 0

\* Once the panel stops changing, the cache comes to hold exactly its limits,
\* and reloads stop failing, however other loaders and retries interleave --
\* unless the pages come wrapped and their last one is full.
LimitsCatchUp == <>[](Readable => known = LimitsOf(panel))
=============================================================================
