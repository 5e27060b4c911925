----------------------------- MODULE BoardProofs -----------------------------
(***************************************************************************)
(* Proofs about Board, for every set of tabs, users, rows and mutations    *)
(* under way, and every bound on the changes of a row.                     *)
(***************************************************************************)
EXTENDS Board, TLAPS

\* Data d of key k has every write that tab w has been acknowledged.
Fresh(w, k, d) ==
  \A r \in Listed(k) : OwnerOf(r) = d.user => d.rows[r].version >= owed[w][r]

\* A cache entry without a pending invalidation is fresh, and so is an answer
\* on its way to it: a write acknowledged on the page replaces the fetch.
EntryOK(w, k, q) ==
  /\ q \in Query(k)
  /\ q.data # None /\ ~q.invalid => Fresh(w, k, q.data)
  /\ q.fetch.answer # None => Fresh(w, k, q.fetch.answer)

\* A move was offered for the status shown; a write that is answered is there.
CallOK(c) ==
  /\ c \in Call
  /\ c.to # None => /\ c.row \in Task
                    /\ c.shown \in TaskStatus
                    /\ c.to \in VALID_TRANSITIONS[c.shown]
  /\ c.outcome = "ok" => /\ c.row \in Rows
                         /\ c.key = KeyOf(c.row)
                         /\ c.version <= rows[c.row].version
  /\ c.outcome = "refused" => c.found # c.shown

\* The part of the invariant that is about neither.
TablesOK ==
  /\ rows \in [Rows -> Row]
  /\ \A r \in Rows : rows[r].version = 0 <=> rows[r] = Absent
  /\ \A t \in Task : rows[t] # Absent => rows[t].status \in TaskStatus
  /\ owed \in [Tab -> [Rows -> 0..Changes]]
  /\ \A w \in Tab, r \in Rows : owed[w][r] <= rows[r].version

TabsOK ==
  /\ token \in User \cup {None}
  /\ authed \in [Tab -> BOOLEAN]
  /\ page \in [Tab -> Page]
  /\ \A w \in Tab : page[w] # "login" => authed[w]
  /\ login \in [Tab -> User \cup {None}]

EntriesOK ==
  /\ DOMAIN query = Tab
  /\ \A w \in Tab : DOMAIN query[w] = Key
  /\ \A w \in Tab, k \in Key : EntryOK(w, k, query[w][k])

CallsOK ==
  /\ calls \in [Tab -> [Slot -> Call]]
  /\ \A w \in Tab, s \in Slot : CallOK(calls[w][s])

\* The inductive invariant.
IndInv == TablesOK /\ TabsOK /\ EntriesOK /\ CallsOK

------------------------------------------------------------------------------
(* Rows, buttons and cache entries.                                        *)

LEMMA Located ==
  ASSUME NEW r \in Rows
  PROVE  KeyOf(r) \in Key /\ OwnerOf(r) \in User
  BY OwnersAssumption DEF Rows, KeyOf, OwnerOf, Key

\* The two tables agree: what a card offers is a legal transition.
LEMMA OffersAreLegal ==
  ASSUME NEW s \in TaskStatus \cup {None}, NEW to \in getNextStatuses(s)
  PROVE  s \in TaskStatus /\ to \in VALID_TRANSITIONS[s] /\ to \in TaskStatus
<1>1. None \notin TaskStatus
  BY NobodyAssumption
<1>2. s \in {"TODO", "IN_PROGRESS", "IN_REVIEW"}
  BY <1>1 DEF getNextStatuses, TaskStatus
<1> QED
  BY <1>2 DEF getNextStatuses, TaskStatus, VALID_TRANSITIONS

\* What an entry is depends on the rows that are owed alone.
LEMMA EntryKept ==
  ASSUME NEW w, NEW k, NEW q, EntryOK(w, k, q), UNCHANGED owed
  PROVE  EntryOK(w, k, q)'
  BY DEF EntryOK, Fresh

LEMMA EmptyOK ==
  ASSUME NEW w, NEW k
  PROVE  EntryOK(w, k, Empty) /\ EntryOK(w, k, Empty)'
<1>1. Empty \in Query(k)
  BY DEF Empty, NoFetch, Query
<1> QED
  BY <1>1 DEF Empty, NoFetch, EntryOK

\* The fields of an entry that is fetched.
LEMMA FetchingIs ==
  ASSUME NEW k, NEW q \in Query(k), token' \in User \cup {None}
  PROVE  /\ Fetching(q) \in Query(k)
         /\ Fetching(q).data = q.data
         /\ Fetching(q).invalid = q.invalid
         /\ Fetching(q).fetch.answer = None
  BY DEF Fetching, Query

LEMMA FetchingOK ==
  ASSUME NEW w, NEW k, NEW q, EntryOK(w, k, q), token' \in User \cup {None}
  PROVE  EntryOK(w, k, Fetching(q))
<1>1. q \in Query(k)
  BY DEF EntryOK
<1> QED
  BY <1>1, FetchingIs DEF EntryOK

LEMMA MountedOK ==
  ASSUME NEW w, NEW k, NEW q, EntryOK(w, k, q), token' \in User \cup {None}
  PROVE  EntryOK(w, k, Mounted(q))
  BY FetchingOK DEF Mounted

LEMMA MarkedIs ==
  ASSUME NEW k, NEW q \in Query(k), NEW m, m = [q EXCEPT !.invalid = TRUE]
  PROVE  m \in Query(k) /\ m.data = q.data /\ m.invalid /\ m.fetch = q.fetch
  BY DEF Query

\* An entry that is shown is fetched anew when it is invalidated: it owes
\* nothing before the new answer.
LEMMA InvalidatedOK ==
  ASSUME NEW w, NEW k, NEW q, EntryOK(w, k, q), token' \in User \cup {None},
         NEW onScreen \in BOOLEAN,
         UNCHANGED owed \/ (onScreen /\ q.data # None),
         NEW i, i = Invalidated(q, onScreen)
  PROVE  EntryOK(w, k, i)'
<1>1. PICK m : m = [q EXCEPT !.invalid = TRUE]
  OBVIOUS
<1>2. q \in Query(k)
  BY DEF EntryOK
<1>3. m \in Query(k) /\ m.data = q.data /\ m.invalid /\ m.fetch = q.fetch
  BY <1>1, <1>2, MarkedIs
<1>4. CASE i = m /\ UNCHANGED owed
  BY <1>3, <1>4 DEF EntryOK, Fresh
<1>5. CASE i = Fetching(m)
  <2>1. i \in Query(k) /\ i.invalid /\ i.fetch.answer = None
    BY <1>3, <1>5, FetchingIs
  <2> QED
    BY <2>1 DEF EntryOK
<1> QED
  BY <1>1, <1>4, <1>5 DEF Invalidated

------------------------------------------------------------------------------
(* Which part of the invariant a step can disturb.                         *)

\* The entry of key k in tab w becomes q, the others stand.
EntryMovesTo(w, k, q) == query' = [query EXCEPT ![w][k] = q]

LEMMA EntriesKept ==
  ASSUME EntriesOK, UNCHANGED <<query, owed>>
  PROVE  EntriesOK'
  BY EntryKept DEF EntriesOK, EntryOK, Fresh

LEMMA EntryMoves ==
  ASSUME EntriesOK, NEW w \in Tab, NEW k \in Key, NEW q,
         EntryMovesTo(w, k, q), EntryOK(w, k, q)',
         \A v \in Tab, j \in Key :
           v # w \/ j # k => \A r \in Listed(j) : owed'[v][r] = owed[v][r]
  PROVE  EntriesOK'
<1>1. DOMAIN query' = Tab /\ \A v \in Tab : DOMAIN query'[v] = Key
  BY DEF EntriesOK, EntryMovesTo
<1>2. ASSUME NEW v \in Tab, NEW j \in Key PROVE EntryOK(v, j, query[v][j])'
  <2>1. CASE v = w /\ j = k
    <3>1. query'[v][j] = q
      BY <2>1 DEF EntriesOK, EntryMovesTo
    <3> QED
      BY <2>1, <3>1 DEF EntryOK, Fresh
  <2>2. CASE v # w \/ j # k
    <3>1. PICK e : e = query[v][j]
      OBVIOUS
    <3>2. query'[v][j] = e /\ EntryOK(v, j, e)
      BY <2>2, <3>1 DEF EntriesOK, EntryMovesTo
    <3>3. \A r \in Listed(j) : owed'[v][r] = owed[v][r]
      BY <2>2
    <3> QED
      BY <3>2, <3>3 DEF EntryOK, Fresh
  <2> QED
    BY <2>1, <2>2
<1> QED
  BY <1>1, <1>2 DEF EntriesOK

\* No row is younger than it was.
Ages == \A r \in Rows : rows[r].version <= rows'[r].version

LEMMA AgesTrans ==
  ASSUME TablesOK, rows' \in [Rows -> Row], Ages, NEW r \in Rows,
         NEW v \in 0..Changes, v <= rows[r].version
  PROVE  v <= rows'[r].version
<1>1. /\ rows[r].version \in 0..Changes /\ rows'[r].version \in 0..Changes
      /\ rows[r].version <= rows'[r].version
  BY DEF TablesOK, Row, Ages
<1> QED
  BY <1>1, ChangesAssumption

LEMMA CallKept ==
  ASSUME TablesOK, rows' \in [Rows -> Row], Ages, NEW c, CallOK(c)
  PROVE  CallOK(c)'
<1>1. c.version \in 0..Changes
  BY DEF CallOK, Call
<1> QED
  BY <1>1, AgesTrans DEF CallOK

LEMMA CallsKept ==
  ASSUME CallsOK, TablesOK, rows' \in [Rows -> Row], Ages, UNCHANGED calls
  PROVE  CallsOK'
<1>1. ASSUME NEW w \in Tab, NEW s \in Slot PROVE CallOK(calls[w][s])'
  <2>1. PICK c : c = calls[w][s]
    OBVIOUS
  <2>2. CallOK(c)'
    BY <2>1, CallKept DEF CallsOK
  <2> QED
    BY <2>1, <2>2 DEF CallOK
<1> QED
  BY <1>1 DEF CallsOK

CallMovesTo(w, s, c) == calls' = [calls EXCEPT ![w][s] = c]

LEMMA CallMoves ==
  ASSUME CallsOK, TablesOK, rows' \in [Rows -> Row], Ages,
         NEW w \in Tab, NEW s \in Slot, NEW c, CallMovesTo(w, s, c), CallOK(c)'
  PROVE  CallsOK'
<1>1. c \in Call
  BY DEF CallOK
<1>2. calls' \in [Tab -> [Slot -> Call]]
  BY <1>1 DEF CallsOK, CallMovesTo
<1>3. ASSUME NEW v \in Tab, NEW x \in Slot PROVE CallOK(calls[v][x])'
  <2>1. PICK d : d = calls'[v][x]
    OBVIOUS
  <2>2. CallOK(d)'
    <3>1. CASE v = w /\ x = s
      BY <2>1, <3>1 DEF CallsOK, CallMovesTo
    <3>2. CASE v # w \/ x # s
      <4>1. d = calls[v][x]
        BY <2>1, <3>2 DEF CallsOK, CallMovesTo
      <4> QED
        BY <4>1, CallKept DEF CallsOK
    <3> QED
      BY <3>1, <3>2
  <2> QED
    BY <2>1, <2>2 DEF CallOK
<1> QED
  BY <1>2, <1>3 DEF CallsOK

LEMMA NoCallOK == CallOK(NoCall) /\ CallOK(NoCall)'
<1>1. "projects" \in Key /\ 0 \in 0..Changes
  BY ChangesAssumption DEF Key
<1>2. NoCall \in Call
  BY <1>1 DEF NoCall, Call
<1> QED
  BY <1>2 DEF NoCall, CallOK

LEMMA FailedOK == CallOK(Failed)'
<1>1. Failed \in Call /\ Failed.to = None /\ Failed.outcome = "failed"
  <2>1. NoCall \in Call
    BY NoCallOK DEF CallOK
  <2> QED
    BY <2>1 DEF Failed, NoCall, Call
<1> QED
  BY <1>1 DEF CallOK

LEMMA TablesKept ==
  ASSUME TablesOK, UNCHANGED <<rows, owed>>
  PROVE  TablesOK' /\ Ages /\ rows' \in [Rows -> Row]
<1>1. \A r \in Rows : rows[r].version <= rows[r].version
  <2>1. \A r \in Rows : rows[r].version \in Nat
    BY ChangesAssumption DEF TablesOK, Row
  <2> QED
    BY <2>1
<1> QED
  BY <1>1 DEF TablesOK, Ages

\* Steps that write no row and are owed nothing new.
LEMMA LocalStep ==
  ASSUME IndInv, UNCHANGED <<rows, owed>>, TabsOK', EntriesOK',
         CallsOK' \/ UNCHANGED calls
  PROVE  IndInv'
  BY TablesKept, CallsKept DEF IndInv

LEMMA InitIndInv == Init => IndInv
<1> SUFFICES ASSUME Init PROVE IndInv
  OBVIOUS
<1>1. Absent \in Row /\ Absent.version = 0
  BY ChangesAssumption DEF Absent, Row
<1>2. TablesOK
  BY <1>1, ChangesAssumption DEF Init, TablesOK, Rows
<1>3. TabsOK
  BY DEF Init, TabsOK, Page
<1>4. EntriesOK
  BY EmptyOK DEF Init, EntriesOK
<1>5. CallsOK
  <2>1. NoCall \in Call
    BY NoCallOK DEF CallOK
  <2> QED
    BY <2>1, NoCallOK DEF Init, CallsOK
<1> QED
  BY <1>2, <1>3, <1>4, <1>5 DEF IndInv

------------------------------------------------------------------------------
(* The steps of a tab that write no row.                                   *)

\* A page is opened: its entry is mounted.
LEMMA OpenOK ==
  ASSUME IndInv, NEW w \in Tab, NEW k \in Page, Open(w, k),
         token' \in User \cup {None}, UNCHANGED owed
  PROVE  EntriesOK'
<1>1. CASE k = "login"
  BY <1>1, EntriesKept DEF Open, IndInv
<1>2. CASE k # "login"
  <2>1. k \in Key
    BY <1>2 DEF Page
  <2>2. PICK q : q = Mounted(query[w][k])
    OBVIOUS
  <2>3. EntryMovesTo(w, k, q)
    BY <1>2, <2>1, <2>2 DEF Open, EntryMovesTo, IndInv, EntriesOK
  <2>4. EntryOK(w, k, q)
    BY <2>1, <2>2, MountedOK DEF IndInv, EntriesOK
  <2>5. EntryOK(w, k, q)'
    BY <2>4, EntryKept
  <2> QED
    BY <2>1, <2>3, <2>5, EntryMoves DEF IndInv
<1> QED
  BY <1>1, <1>2

LEMMA ServeFetchStep ==
  ASSUME IndInv, NEW w \in Tab, NEW k \in Key, ServeFetch(w, k)
  PROVE  IndInv'
<1>1. PICK e : e = query[w][k]
  OBVIOUS
<1>2. e \in Query(k) /\ EntryOK(w, k, e)
  BY <1>1 DEF IndInv, EntriesOK, EntryOK
<1>3. PICK u \in User \cup {None} : u = e.fetch.user
  BY <1>2 DEF Query
<1>4. PICK answer :
        /\ answer = None \/ (MayRead(k, u) /\ answer = Snapshot(k, u))
        /\ query' = [query EXCEPT ![w][k].fetch =
                       [state |-> "back", user |-> None, answer |-> answer]]
  BY <1>1, <1>3 DEF ServeFetch
<1>5. answer \in Data(k) \cup {None}
  <2>1. CASE answer = Snapshot(k, u) /\ u # None
    <3>1. Absent \in Row
      BY ChangesAssumption DEF Absent, Row
    <3>2. Listed(k) \subseteq Rows
      BY DEF Listed
    <3> QED
      BY <1>3, <2>1, <3>1, <3>2 DEF Snapshot, Data, IndInv, TablesOK
  <2> QED
    BY <1>4, <2>1 DEF MayRead
<1>6. answer # None => Fresh(w, k, answer)
  <2> SUFFICES ASSUME answer # None, NEW r \in Listed(k),
                      OwnerOf(r) = answer.user
               PROVE  answer.rows[r].version >= owed[w][r]
    BY DEF Fresh
  <2>1. answer.rows[r] = rows[r]
    BY <1>4 DEF Snapshot
  <2>2. r \in Rows
    BY DEF Listed
  <2>3. rows[r].version \in Nat /\ owed[w][r] \in Nat
        /\ owed[w][r] <= rows[r].version
    BY <2>2, ChangesAssumption DEF IndInv, TablesOK, Row
  <2> QED
    BY <2>1, <2>3
<1>7. PICK q : q = [e EXCEPT !.fetch =
                      [state |-> "back", user |-> None, answer |-> answer]]
  OBVIOUS
<1>8. /\ q \in Query(k) /\ q.data = e.data /\ q.invalid = e.invalid
      /\ q.fetch.answer = answer
  BY <1>2, <1>5, <1>7 DEF Query
<1>9. EntryOK(w, k, q)
  BY <1>2, <1>6, <1>8 DEF EntryOK
<1>10. EntryOK(w, k, q)'
  BY <1>9, EntryKept DEF ServeFetch
<1>11. EntryMovesTo(w, k, q)
  BY <1>1, <1>4, <1>7 DEF EntryMovesTo, IndInv, EntriesOK
<1>12. EntriesOK'
  BY <1>10, <1>11, EntryMoves DEF IndInv, ServeFetch
<1> QED
  BY <1>12, LocalStep DEF ServeFetch, IndInv, TabsOK

LEMMA LandFetchStep ==
  ASSUME IndInv, NEW w \in Tab, NEW k \in Key, LandFetch(w, k)
  PROVE  IndInv'
<1>1. PICK e : e = query[w][k]
  OBVIOUS
<1>2. e \in Query(k) /\ EntryOK(w, k, e)
  BY <1>1 DEF IndInv, EntriesOK, EntryOK
<1>3. token' \in User \cup {None}
  BY DEF LandFetch, IndInv, TabsOK
<1>4. ASSUME NEW q, EntryOK(w, k, q), EntryMovesTo(w, k, q) PROVE IndInv'
  <2>1. EntryOK(w, k, q)'
    BY <1>4, EntryKept DEF LandFetch
  <2>2. EntriesOK'
    BY <1>4, <2>1, EntryMoves DEF IndInv, LandFetch
  <2> QED
    BY <2>2, LocalStep DEF LandFetch, IndInv, TabsOK
<1>5. ASSUME e.fetch.answer # None,
             query' = [query EXCEPT ![w][k] =
                         [data |-> e.fetch.answer, invalid |-> FALSE,
                          fetch |-> NoFetch]]
      PROVE  IndInv'
  <2>1. PICK q : q = [data |-> e.fetch.answer, invalid |-> FALSE,
                      fetch |-> NoFetch]
    OBVIOUS
  <2>2. q \in Query(k)
    BY <1>2, <2>1 DEF Query, NoFetch
  <2>3. EntryOK(w, k, q)
    BY <1>2, <1>5, <2>1, <2>2 DEF EntryOK, NoFetch
  <2> QED
    BY <1>4, <1>5, <2>1, <2>3 DEF EntryMovesTo
<1>6. ASSUME query' = [query EXCEPT ![w][k].fetch = NoFetch]
      PROVE  IndInv'
  <2>1. PICK q : q = [e EXCEPT !.fetch = NoFetch]
    OBVIOUS
  <2>2. /\ q \in Query(k) /\ q.data = e.data /\ q.invalid = e.invalid
        /\ q.fetch.answer = None
    BY <1>2, <2>1 DEF Query, NoFetch
  <2>3. EntryOK(w, k, q)
    BY <1>2, <2>2 DEF EntryOK
  <2>4. EntryMovesTo(w, k, q)
    BY <1>1, <1>6, <2>1 DEF EntryMovesTo, IndInv, EntriesOK
  <2> QED
    BY <1>4, <2>3, <2>4
<1>7. ASSUME query' = [query EXCEPT ![w][k] = Fetching(@)]
      PROVE  IndInv'
  <2>1. PICK q : q = Fetching(e)
    OBVIOUS
  <2>2. EntryOK(w, k, q)
    BY <1>2, <1>3, <2>1, FetchingOK
  <2>3. EntryMovesTo(w, k, q)
    BY <1>1, <1>7, <2>1 DEF EntryMovesTo, IndInv, EntriesOK
  <2> QED
    BY <1>4, <2>2, <2>3
<1> QED
  BY <1>1, <1>5, <1>6, <1>7 DEF LandFetch

LEMMA RefocusStep ==
  ASSUME IndInv, NEW w \in Tab, Refocus(w)
  PROVE  IndInv'
<1>1. PICK k \in Key : k = page[w]
  BY DEF Refocus, IndInv, TabsOK, Page
<1>2. PICK q : q = Mounted(query[w][k])
  OBVIOUS
<1>3. token' \in User \cup {None}
  BY DEF Refocus, IndInv, TabsOK
<1>4. EntryOK(w, k, q)
  BY <1>2, <1>3, MountedOK DEF IndInv, EntriesOK
<1>5. EntryOK(w, k, q)'
  BY <1>4, EntryKept DEF Refocus
<1>6. EntryMovesTo(w, k, q)
  BY <1>1, <1>2 DEF Refocus, EntryMovesTo, IndInv, EntriesOK
<1>7. EntriesOK'
  BY <1>5, <1>6, EntryMoves DEF IndInv, Refocus
<1> QED
  BY <1>7, LocalStep DEF Refocus, IndInv, TabsOK

\* Logging in and out, and links.
LEMMA NavigationStep ==
  ASSUME IndInv, NEW w \in Tab,
         \/ \E u \in User : SubmitLogin(w, u)
         \/ LoginSucceeds(w) \/ LoginFails(w) \/ Logout(w)
         \/ \E k \in Page : Navigate(w, k)
  PROVE  IndInv'
<1>1. UNCHANGED <<rows, owed, calls>>
  BY DEF SubmitLogin, LoginSucceeds, LoginFails, Logout, Navigate
<1>2. CASE \E u \in User : SubmitLogin(w, u)
  <2>1. TabsOK'
    BY <1>2 DEF SubmitLogin, IndInv, TabsOK
  <2> QED
    BY <1>1, <1>2, <2>1, EntriesKept, LocalStep DEF SubmitLogin, IndInv
<1>3. CASE LoginSucceeds(w)
  <2>1. "projects" \in Page
    BY DEF Page, Key
  <2>2. TabsOK'
    BY <1>3, <2>1 DEF LoginSucceeds, Open, IndInv, TabsOK
  <2>3. EntriesOK'
    BY <1>1, <1>3, <2>1, <2>2, OpenOK DEF LoginSucceeds, TabsOK
  <2> QED
    BY <1>1, <2>2, <2>3, LocalStep
<1>4. CASE LoginFails(w) \/ Logout(w)
  <2>1. TabsOK'
    BY <1>4 DEF LoginFails, Logout, IndInv, TabsOK, Page
  <2> QED
    BY <1>1, <1>4, <2>1, EntriesKept, LocalStep DEF LoginFails, Logout, IndInv
<1>5. CASE \E k \in Page : Navigate(w, k)
  <2>1. PICK k \in Page : Navigate(w, k)
    BY <1>5
  <2>2. TabsOK'
    BY <2>1 DEF Navigate, Open, IndInv, TabsOK
  <2>3. EntriesOK'
    BY <1>1, <2>1, <2>2, OpenOK DEF Navigate, TabsOK
  <2> QED
    BY <1>1, <2>2, <2>3, LocalStep
<1> QED
  BY <1>2, <1>3, <1>4, <1>5

\* The cache, the answers awaited and what is owed are gone together.
LEMMA ReloadStep ==
  ASSUME IndInv, NEW w \in Tab, Reload(w)
  PROVE  IndInv'
<1>1. PICK k \in Page :
        /\ k = IF token # None THEN page[w] ELSE "login"
        /\ page' = [page EXCEPT ![w] = k]
        /\ query' = [query EXCEPT ![w] =
                       [j \in Key |-> IF j = k THEN Mounted(Empty) ELSE Empty]]
  BY DEF Reload, IndInv, TabsOK, Page
<1>2. /\ owed' = [owed EXCEPT ![w] = [r \in Rows |-> 0]]
      /\ calls' = [calls EXCEPT ![w] = [s \in Slot |-> NoCall]]
      /\ UNCHANGED <<rows, token>>
  BY DEF Reload
<1>3. TabsOK'
  BY <1>1, <1>2 DEF Reload, IndInv, TabsOK
<1>4. TablesOK'
  BY <1>2, ChangesAssumption DEF IndInv, TablesOK, Row
<1>5. CallsOK'
  <2>1. NoCall \in Call
    BY NoCallOK DEF CallOK
  <2>2. calls' \in [Tab -> [Slot -> Call]]
    BY <1>2, <2>1 DEF IndInv, CallsOK
  <2>3. ASSUME NEW v \in Tab, NEW s \in Slot PROVE CallOK(calls[v][s])'
    <3>1. PICK c : c = calls'[v][s]
      OBVIOUS
    <3>2. CallOK(c)
      BY <1>2, <3>1, NoCallOK DEF IndInv, CallsOK
    <3> QED
      BY <1>2, <3>1, <3>2 DEF CallOK
  <2> QED
    BY <2>2, <2>3 DEF CallsOK
<1>6. EntriesOK'
  <2>1. ASSUME NEW v \in Tab, NEW j \in Key
        PROVE  EntryOK(v, j, query[v][j])'
    <3>1. PICK q : q = query'[v][j]
      OBVIOUS
    <3>2. EntryOK(v, j, q)'
      <4>1. CASE v = w
        <5>1. q \in {Empty, Mounted(Empty)}
          BY <1>1, <3>1, <4>1 DEF IndInv, EntriesOK
        <5>2. EntryOK(v, j, Empty) /\ EntryOK(v, j, Mounted(Empty))
          BY <1>3, EmptyOK, MountedOK DEF TabsOK
        <5>3. q.data = None /\ q.fetch.answer = None
          <6>1. Empty.data = None /\ Empty.fetch.answer = None
            BY DEF Empty, NoFetch
          <6>2. Empty \in Query(j)
            BY <5>2 DEF EntryOK
          <6>3. /\ Mounted(Empty).data = None
                /\ Mounted(Empty).fetch.answer = None
            BY <1>3, <6>1, <6>2, FetchingIs DEF Mounted, TabsOK
          <6> QED
            BY <5>1, <6>1, <6>3
        <5> QED
          BY <5>1, <5>2, <5>3 DEF EntryOK
      <4>2. CASE v # w
        <5>1. q = query[v][j] /\ owed'[v] = owed[v]
          BY <1>1, <1>2, <3>1, <4>2 DEF IndInv, EntriesOK, TablesOK
        <5> QED
          BY <5>1 DEF IndInv, EntriesOK, EntryOK, Fresh
      <4> QED
        BY <4>1, <4>2
    <3> QED
      BY <3>1, <3>2 DEF EntryOK, Fresh
  <2>2. DOMAIN query' = Tab /\ \A v \in Tab : DOMAIN query'[v] = Key
    BY <1>1 DEF IndInv, EntriesOK
  <2> QED
    BY <2>1, <2>2 DEF EntriesOK
<1> QED
  BY <1>3, <1>4, <1>5, <1>6 DEF IndInv

------------------------------------------------------------------------------
(* Writes.                                                                 *)

\* A call is made or ends, and nothing else changes.
LEMMA CallStep ==
  ASSUME IndInv, NEW w \in Tab, NEW s \in Slot, NEW c,
         CallMovesTo(w, s, c), CallOK(c)',
         UNCHANGED <<rows, token, authed, page, login, query, owed>>
  PROVE  IndInv'
<1>1. TabsOK'
  BY DEF IndInv, TabsOK
<1>2. TablesOK' /\ Ages /\ rows' \in [Rows -> Row]
  BY TablesKept DEF IndInv
<1>3. CallsOK'
  BY <1>2, CallMoves DEF IndInv
<1>4. EntriesOK'
  BY EntriesKept DEF IndInv
<1> QED
  BY <1>1, <1>2, <1>3, <1>4 DEF IndInv

LEMMA ClickCreateStep ==
  ASSUME IndInv, NEW w \in Tab, NEW s \in Slot, NEW k \in Key,
         ClickCreate(w, s, k)
  PROVE  IndInv'
<1>1. PICK c : c = [NoCall EXCEPT !.state = "sent", !.key = k, !.user = token]
  OBVIOUS
<1>2. CallMovesTo(w, s, c)
  BY <1>1 DEF ClickCreate, Mutate, CallMovesTo
<1>3. c \in Call /\ c.to = None /\ c.outcome = "none"
  <2>1. NoCall \in Call /\ token \in User \cup {None}
    BY NoCallOK DEF CallOK, IndInv, TabsOK
  <2> QED
    BY <1>1, <2>1 DEF NoCall, Call
<1>4. CallOK(c)'
  BY <1>3 DEF CallOK
<1> QED
  BY <1>2, <1>4, CallStep DEF ClickCreate, Mutate

LEMMA ClickMoveStep ==
  ASSUME IndInv, NEW w \in Tab, NEW s \in Slot, NEW p \in Project,
         NEW t \in Task, ClickMove(w, s, p, t)
  PROVE  IndInv'
<1>1. PICK e : e = query[w][p]
  OBVIOUS
<1>2. PICK shown : shown = e.data.rows[t].status
  OBVIOUS
<1>3. shown \in TaskStatus \cup {None}
  <2>1. e.data \in Data(p) /\ t \in Listed(p)
    BY <1>1 DEF ClickMove, Shows, IndInv, EntriesOK, EntryOK, Query, Key,
      Listed, Rows
  <2>2. e.data.rows[t] \in Row
    BY <2>1 DEF Data
  <2> QED
    BY <1>2, <2>2 DEF Row
<1>4. PICK to \in getNextStatuses(shown) :
        Mutate(w, s, [NoCall EXCEPT !.state = "sent", !.key = p, !.row = t,
                        !.to = to, !.shown = shown, !.user = token])
  BY <1>1, <1>2 DEF ClickMove
<1>5. /\ shown \in TaskStatus /\ to \in VALID_TRANSITIONS[shown]
      /\ to \in TaskStatus
  BY <1>3, <1>4, OffersAreLegal
<1>6. PICK c : c = [NoCall EXCEPT !.state = "sent", !.key = p, !.row = t,
                      !.to = to, !.shown = shown, !.user = token]
  OBVIOUS
<1>7. /\ c \in Call /\ c.outcome = "none"
      /\ c.row = t /\ c.to = to /\ c.shown = shown
  <2>1. /\ NoCall \in Call /\ token \in User \cup {None}
        /\ p \in Key /\ t \in Rows
    BY NoCallOK DEF CallOK, IndInv, TabsOK, Key, Rows
  <2> QED
    BY <1>5, <1>6, <2>1 DEF NoCall, Call
<1>8. CallOK(c)'
  BY <1>5, <1>7 DEF CallOK
<1>9. CallMovesTo(w, s, c)
  BY <1>4, <1>6 DEF Mutate, CallMovesTo
<1> QED
  BY <1>4, <1>8, <1>9, CallStep DEF Mutate

\* Row r becomes new, which is younger.
LEMMA RowChanges ==
  ASSUME TablesOK, NEW r \in Rows, NEW new \in Row,
         new.version # 0, rows[r].version <= new.version,
         r \in Task => new.status \in TaskStatus,
         rows' = [rows EXCEPT ![r] = new], UNCHANGED owed
  PROVE  TablesOK' /\ Ages /\ rows' \in [Rows -> Row]
<1>1. rows' \in [Rows -> Row]
  BY DEF TablesOK
<1>2. Ages
  <2> SUFFICES ASSUME NEW x \in Rows PROVE rows[x].version <= rows'[x].version
    BY DEF Ages
  <2>1. rows[x].version \in Nat
    BY ChangesAssumption DEF TablesOK, Row
  <2> QED
    BY <2>1 DEF TablesOK
<1>3. \A x \in Rows : rows'[x].version = 0 <=> rows'[x] = Absent
  BY DEF TablesOK, Absent
<1>4. \A t \in Task : rows'[t] # Absent => rows'[t].status \in TaskStatus
  BY DEF TablesOK, Rows
<1>5. ASSUME NEW w \in Tab, NEW x \in Rows
      PROVE  owed'[w][x] <= rows'[x].version
  <2>1. PICK v \in 0..Changes : v = owed[w][x] /\ v <= rows[x].version
    BY DEF TablesOK
  <2> QED
    BY <1>1, <1>2, <2>1, AgesTrans
<1> QED
  BY <1>1, <1>2, <1>3, <1>4, <1>5 DEF TablesOK

\* The API carries out a write.
LEMMA WriteStep ==
  ASSUME IndInv, NEW w \in Tab, NEW s \in Slot, NEW r \in Rows,
         NEW new \in Row, new.version # 0, rows[r].version <= new.version,
         r \in Task => new.status \in TaskStatus,
         Write(w, s, r, new),
         UNCHANGED <<token, authed, page, login, query, owed>>
  PROVE  IndInv'
<1>1. TablesOK' /\ Ages /\ rows' \in [Rows -> Row]
  BY RowChanges DEF Write, IndInv
<1>2. TabsOK' /\ EntriesOK'
  BY EntriesKept DEF IndInv, TabsOK
<1>3. CASE calls' = [calls EXCEPT ![w][s] =
                       [NoCall EXCEPT !.state = "back", !.outcome = "ok",
                                      !.key = KeyOf(r), !.row = r,
                                      !.version = new.version]]
  <2>1. PICK c : c = [NoCall EXCEPT !.state = "back", !.outcome = "ok",
                                    !.key = KeyOf(r), !.row = r,
                                    !.version = new.version]
    OBVIOUS
  <2>2. /\ c \in Call /\ c.to = None /\ c.outcome = "ok"
        /\ c.row = r /\ c.key = KeyOf(r) /\ c.version = new.version
    <3>1. /\ NoCall \in Call /\ KeyOf(r) \in Key
          /\ new.version \in 0..Changes
      BY NoCallOK, Located DEF CallOK, Row
    <3> QED
      BY <2>1, <3>1 DEF NoCall, Call
  <2>3. c.version <= rows'[r].version
    <3>1. rows'[r] = new
      BY DEF Write, IndInv, TablesOK
    <3>2. new.version \in Nat
      BY ChangesAssumption DEF Row
    <3> QED
      BY <2>2, <3>1, <3>2
  <2>4. CallOK(c)'
    BY <2>2, <2>3 DEF CallOK
  <2>5. CallsOK'
    BY <1>1, <1>3, <2>1, <2>4, CallMoves DEF CallMovesTo, IndInv
  <2> QED
    BY <1>1, <1>2, <2>5 DEF IndInv
<1>4. CASE calls' = [calls EXCEPT ![w][s] = Failed]
  <2>1. CallsOK'
    BY <1>1, <1>4, FailedOK, CallMoves DEF CallMovesTo, IndInv
  <2> QED
    BY <1>1, <1>2, <2>1 DEF IndInv
<1> QED
  BY <1>3, <1>4 DEF Write

LEMMA CreatedIs ==
  ASSUME NEW r \in Rows
  PROVE  /\ Created(r) \in Row /\ Created(r).version = 1
         /\ r \in Task => Created(r).status \in TaskStatus
<1>1. 1 \in 0..Changes
  BY ChangesAssumption
<1> QED
  BY <1>1 DEF Created, Row, TaskStatus

\* A move is refused when the task has a status that the one shown is not.
LEMMA ServeCallStep ==
  ASSUME IndInv, NEW w \in Tab, NEW s \in Slot, ServeCall(w, s)
  PROVE  IndInv'
<1>1. PICK call : call = calls[w][s]
  OBVIOUS
<1>2. call \in Call /\ CallOK(call)
      /\ UNCHANGED <<token, authed, page, login, query, owed>>
  BY <1>1 DEF ServeCall, IndInv, CallsOK
<1>3. CASE Fail(w, s)
  BY <1>2, <1>3, FailedOK, CallStep DEF Fail, CallMovesTo
<1>4. CASE \E r \in Listed(call.key) :
             rows[r] = Absent /\ Write(w, s, r, Created(r))
  <2>1. PICK r \in Rows : rows[r] = Absent /\ Write(w, s, r, Created(r))
    BY <1>4 DEF Listed
  <2>2. PICK new : new = Created(r)
    OBVIOUS
  <2>3. /\ new \in Row /\ new.version = 1 /\ rows[r].version = 0
        /\ r \in Task => new.status \in TaskStatus
    BY <2>1, <2>2, CreatedIs DEF Absent
  <2>4. new.version # 0 /\ rows[r].version <= new.version
    BY <2>3
  <2>5. Write(w, s, r, new)
    BY <2>1, <2>2
  <2> QED
    BY <1>2, <2>3, <2>4, <2>5, WriteStep
<1>5. CASE /\ call.to # None
           /\ rows[call.row].version < Changes
           /\ Write(w, s, call.row,
                    [version |-> rows[call.row].version + 1,
                     status |-> call.to])
  <2>1. PICK r \in Rows : r = call.row
    BY <1>2, <1>5 DEF CallOK, Rows
  <2>2. PICK new : new = [version |-> rows[r].version + 1, status |-> call.to]
    OBVIOUS
  <2>3. rows[r].version \in 0..Changes /\ rows[r].version < Changes
    BY <1>5, <2>1 DEF IndInv, TablesOK, Row
  <2>4. /\ new.version \in 0..Changes /\ new.version # 0
        /\ rows[r].version <= new.version
    BY <2>2, <2>3, ChangesAssumption
  <2>5. new \in Row /\ new.status \in TaskStatus
    BY <1>2, <1>5, <2>2, <2>4 DEF Row, Call
  <2>6. Write(w, s, r, new)
    BY <1>5, <2>1, <2>2
  <2> QED
    BY <1>2, <2>4, <2>5, <2>6, WriteStep
<1>6. CASE /\ call.to # None
           /\ ~TransitionAllowed(rows[call.row].status, call.to)
           /\ Refuse(w, s, rows[call.row].status)
  <2>1. PICK r \in Rows : r = call.row
    BY <1>2, <1>6 DEF CallOK, Rows
  <2>2. PICK found \in TaskStatus \cup {None} : found = rows[r].status
    <3>1. rows[r] \in Row
      BY DEF IndInv, TablesOK
    <3> QED
      BY <3>1 DEF Row
  <2>3. found # call.shown
    BY <1>2, <1>6, <2>1, <2>2 DEF CallOK, TransitionAllowed
  <2>4. PICK c : c = [NoCall EXCEPT !.state = "back", !.outcome = "refused",
                                    !.shown = call.shown, !.found = found]
    OBVIOUS
  <2>5. /\ c \in Call /\ c.to = None /\ c.outcome = "refused"
        /\ c.shown = call.shown /\ c.found = found
    <3>1. NoCall \in Call
      BY NoCallOK DEF CallOK
    <3> QED
      BY <1>2, <2>4, <3>1 DEF NoCall, Call
  <2>6. CallOK(c)'
    BY <2>3, <2>5 DEF CallOK
  <2>7. CallMovesTo(w, s, c) /\ UNCHANGED rows
    BY <1>1, <1>6, <2>1, <2>2, <2>4 DEF Refuse, CallMovesTo
  <2> QED
    BY <1>2, <2>6, <2>7, CallStep
<1> QED
  BY <1>1, <1>3, <1>4, <1>5, <1>6 DEF ServeCall

\* What is acknowledged while it is shown is owed, and fetched anew.
LEMMA LandCallStep ==
  ASSUME IndInv, NEW w \in Tab, NEW s \in Slot, LandCall(w, s)
  PROVE  IndInv'
<1>1. PICK call : call = calls[w][s]
  OBVIOUS
<1>2. call \in Call /\ CallOK(call)
  BY <1>1 DEF IndInv, CallsOK
<1>3. /\ CallMovesTo(w, s, NoCall)
      /\ UNCHANGED <<rows, token, authed, page, login>>
  BY DEF LandCall, CallMovesTo
<1>4. TabsOK' /\ token' \in User \cup {None}
  BY <1>3 DEF IndInv, TabsOK
<1>5. CallsOK'
  <2>1. Ages /\ rows' \in [Rows -> Row]
    <3>1. \A r \in Rows : rows[r].version \in Nat
      BY ChangesAssumption DEF IndInv, TablesOK, Row
    <3>2. \A r \in Rows : rows[r].version <= rows[r].version
      BY <3>1
    <3> QED
      BY <1>3, <3>2 DEF Ages, IndInv, TablesOK
  <2> QED
    BY <1>3, <2>1, NoCallOK, CallMoves DEF IndInv
<1>6. CASE call.outcome # "ok"
  <2>1. UNCHANGED <<query, owed>>
    BY <1>1, <1>6 DEF LandCall
  <2>2. EntriesOK' /\ TablesOK'
    BY <1>3, <2>1, EntriesKept, TablesKept DEF IndInv
  <2> QED
    BY <1>4, <1>5, <2>2 DEF IndInv
<1>7. CASE call.outcome = "ok"
  <2>1. PICK r \in Rows : r = call.row
    BY <1>2, <1>7 DEF CallOK
  <2>2. PICK k \in Key : k = call.key /\ k = KeyOf(r)
    BY <1>2, <1>7, <2>1, Located DEF CallOK
  <2>3. PICK e : e = query[w][k] /\ EntryOK(w, k, e)
    BY DEF IndInv, EntriesOK
  <2>4. PICK onScreen \in BOOLEAN : onScreen = (page[w] = k)
    OBVIOUS
  <2>5. PICK i : i = Invalidated(e, onScreen)
    OBVIOUS
  <2>6. EntryMovesTo(w, k, i)
    BY <1>1, <1>7, <2>2, <2>3, <2>4, <2>5 DEF LandCall, EntryMovesTo, IndInv,
      EntriesOK
  <2>7. \/ UNCHANGED owed
        \/ /\ onScreen /\ e.data # None
           /\ owed' = [owed EXCEPT ![w][r] = call.version]
    BY <1>1, <1>7, <2>1, <2>2, <2>3, <2>4 DEF LandCall, Shows
  <2>8. EntryOK(w, k, i)'
    BY <1>4, <2>3, <2>5, <2>7, InvalidatedOK
  <2>9. ASSUME NEW v \in Tab, NEW j \in Key, v # w \/ j # k,
               NEW x \in Listed(j)
        PROVE  owed'[v][x] = owed[v][x]
    <3>1. v # w \/ x # r
      BY <2>2, <2>9 DEF Listed
    <3>2. CASE owed' = [owed EXCEPT ![w][r] = call.version]
      <4>1. CASE v # w
        BY <3>2, <4>1 DEF IndInv, TablesOK
      <4>2. CASE v = w /\ x # r
        BY <3>2, <4>2 DEF IndInv, TablesOK
      <4> QED
        BY <3>1, <4>1, <4>2
    <3> QED
      BY <2>7, <3>2
  <2>10. EntriesOK'
    BY <2>6, <2>8, <2>9, EntryMoves DEF IndInv
  <2>11. TablesOK'
    <3>1. call.version \in 0..Changes /\ call.version <= rows[r].version
      BY <1>2, <1>7, <2>1 DEF CallOK, Call
    <3>2. CASE UNCHANGED owed
      BY <1>3, <3>2 DEF IndInv, TablesOK
    <3>3. CASE owed' = [owed EXCEPT ![w][r] = call.version]
      <4>1. owed' \in [Tab -> [Rows -> 0..Changes]]
        BY <3>1, <3>3 DEF IndInv, TablesOK
      <4>2. ASSUME NEW v \in Tab, NEW x \in Rows
            PROVE  owed'[v][x] \in {owed[v][x]}
                   \/ (x = r /\ owed'[v][x] = call.version)
        BY <3>3 DEF IndInv, TablesOK
      <4>3. ASSUME NEW v \in Tab, NEW x \in Rows
            PROVE  owed'[v][x] <= rows'[x].version
        BY <1>3, <3>1, <4>2 DEF IndInv, TablesOK
      <4> QED
        BY <1>3, <4>1, <4>3 DEF IndInv, TablesOK
    <3> QED
      BY <2>7, <3>2, <3>3
  <2> QED
    BY <1>4, <1>5, <2>10, <2>11 DEF IndInv
<1> QED
  BY <1>6, <1>7

LEMMA ElsewhereStep ==
  ASSUME IndInv, NEW r \in Rows, Elsewhere(r)
  PROVE  IndInv'
<1>1. PICK new : /\ rows' = [rows EXCEPT ![r] = new]
                 /\ new \in Row /\ new.version # 0
                 /\ rows[r].version <= new.version
                 /\ r \in Task => new.status \in TaskStatus
  <2>1. CASE rows[r] = Absent /\ rows' = [rows EXCEPT ![r] = Created(r)]
    <3>1. PICK new : new = Created(r)
      OBVIOUS
    <3>2. /\ new \in Row /\ new.version = 1 /\ rows[r].version = 0
          /\ r \in Task => new.status \in TaskStatus
      BY <2>1, <3>1, CreatedIs DEF Absent
    <3>3. new.version # 0 /\ rows[r].version <= new.version
      BY <3>2
    <3> QED
      BY <2>1, <3>1, <3>2, <3>3
  <2>2. CASE /\ r \in Task /\ rows[r] # Absent
             /\ rows[r].version < Changes
             /\ \E to \in VALID_TRANSITIONS[rows[r].status] :
                  rows' = [rows EXCEPT ![r] = [version |-> @.version + 1,
                                               status |-> to]]
    <3>1. PICK to \in VALID_TRANSITIONS[rows[r].status] :
            rows' = [rows EXCEPT ![r] = [version |-> @.version + 1,
                                         status |-> to]]
      BY <2>2
    <3>2. rows[r].version \in 0..Changes /\ rows[r].version < Changes
      BY <2>2 DEF IndInv, TablesOK, Row
    <3>3. to \in TaskStatus
      <4>1. PICK old \in TaskStatus : old = rows[r].status
        BY <2>2 DEF IndInv, TablesOK
      <4> QED
        BY <3>1, <4>1 DEF VALID_TRANSITIONS, TaskStatus
    <3>4. PICK new : new = [version |-> rows[r].version + 1, status |-> to]
      OBVIOUS
    <3>5. /\ new.version \in 0..Changes /\ new.version # 0
          /\ rows[r].version <= new.version
      BY <3>2, <3>4, ChangesAssumption
    <3>6. new \in Row /\ new.status \in TaskStatus
      BY <3>3, <3>4, <3>5 DEF Row
    <3> QED
      BY <3>1, <3>4, <3>5, <3>6 DEF IndInv, TablesOK
  <2> QED
    BY <2>1, <2>2 DEF Elsewhere
<1>2. TablesOK' /\ Ages /\ rows' \in [Rows -> Row]
  BY <1>1, RowChanges DEF IndInv, Elsewhere
<1>3. TabsOK' /\ EntriesOK'
  BY EntriesKept DEF Elsewhere, IndInv, TabsOK
<1>4. CallsOK'
  BY <1>2, CallsKept DEF Elsewhere, IndInv
<1> QED
  BY <1>2, <1>3, <1>4 DEF IndInv

------------------------------------------------------------------------------

LEMMA NextIndInv == IndInv /\ [Next]_vars => IndInv'
<1> SUFFICES ASSUME IndInv, [Next]_vars PROVE IndInv'
  OBVIOUS
<1>1. ASSUME NEW w \in Tab, InTab(w) PROVE IndInv'
  <2>1. CASE \/ \E u \in User : SubmitLogin(w, u)
             \/ LoginSucceeds(w) \/ LoginFails(w) \/ Logout(w)
             \/ \E k \in Page : Navigate(w, k)
    BY <2>1, NavigationStep
  <2>2. CASE Reload(w) \/ Refocus(w)
    BY <2>2, ReloadStep, RefocusStep
  <2>3. CASE \E k \in Key : ServeFetch(w, k) \/ LandFetch(w, k)
    BY <2>3, ServeFetchStep, LandFetchStep
  <2>4. CASE \E s \in Slot :
               \/ \E k \in Key : ClickCreate(w, s, k)
               \/ \E p \in Project, t \in Task : ClickMove(w, s, p, t)
               \/ ServeCall(w, s) \/ LandCall(w, s)
    BY <2>4, ClickCreateStep, ClickMoveStep, ServeCallStep, LandCallStep
  <2> QED
    BY <1>1, <2>1, <2>2, <2>3, <2>4 DEF InTab
<1>2. ASSUME NEW r \in Rows, Elsewhere(r) PROVE IndInv'
  BY <1>2, ElsewhereStep
<1>3. CASE UNCHANGED vars
  <2>1. TabsOK' /\ EntriesOK' /\ UNCHANGED <<rows, owed, calls>>
    BY <1>3, EntriesKept DEF vars, IndInv, TabsOK
  <2> QED
    BY <2>1, LocalStep
<1> QED
  BY <1>1, <1>2, <1>3 DEF Next

LEMMA Invariance == Spec => []IndInv
  BY InitIndInv, NextIndInv, PTL DEF Spec

\* Pages, cache entries, fetches and mutations keep their types, and no page
\* but that of the login is shown to a tab that is not logged in (App.tsx).
THEOREM TypeCorrect == Spec => []TypeOK
<1>1. IndInv => TypeOK
  BY DEF IndInv, TablesOK, TabsOK, EntriesOK, EntryOK, CallsOK, TypeOK
<1> QED
  BY <1>1, Invariance, PTL

\* A write acknowledged on its page is shown there when the tab comes to rest,
\* for any number of tabs, mutations under way and other clients
\* (ProjectDetailPage.tsx, ProjectsPage.tsx: onSuccess invalidates the key).
THEOREM OwnWritesAreShown == Spec => []OwnWritesShown
<1>1. IndInv => OwnWritesShown
  <2> SUFFICES ASSUME IndInv, NEW w \in Tab, NEW k \in Key, Settled(w, k),
                      NEW r \in Listed(k),
                      OwnerOf(r) = query[w][k].data.user
               PROVE  query[w][k].data.rows[r].version >= owed[w][r]
    BY DEF OwnWritesShown
  <2>1. Fresh(w, k, query[w][k].data)
    BY DEF Settled, Shows, IndInv, EntriesOK, EntryOK
  <2> QED
    BY <2>1 DEF Fresh
<1> QED
  BY <1>1, Invariance, PTL

\* The table of buttons agrees with the table of the API (TaskCard.tsx:46): a
\* move is refused only when the task has moved since it was drawn.
THEOREM RefusalsMeanStale == Spec => []RefusalMeansStale
<1>1. IndInv => RefusalMeansStale
  BY DEF IndInv, CallsOK, CallOK, RefusalMeansStale
<1> QED
  BY <1>1, Invariance, PTL
=============================================================================
