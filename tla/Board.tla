-------------------------------- MODULE Board --------------------------------
(***************************************************************************)
(* The web page (frontend/src) in the tabs of one browser: who is logged   *)
(* in, which page a tab shows, what React Query has cached for it, and the *)
(* reads and writes that are under way.                                    *)
(*                                                                         *)
(* The API is taken as what it promises (TaskLifecycle, OwnDataOnly): a    *)
(* request is served in one step, or fails with or without effect.  Rows   *)
(* carry, as history, the number of times they have changed.               *)
(*                                                                         *)
(* React Query is used with its defaults: cached data is always stale, a   *)
(* mounted query fetches unless a fetch of its key is under way, and an    *)
(* invalidated query is fetched anew if it is on the screen.               *)
(***************************************************************************)
EXTENDS TaskRules, Naturals

CONSTANTS
  Tab, User, Project, Task,
  Slot,      \* bound: mutations a tab can have under way
  Changes,   \* bound: how often a row changes
  Owner,     \* Owner[p]: the user project p belongs to
  Home,      \* Home[t]: the project task t belongs to
  None       \* an absent value

ASSUME OwnersAssumption == Owner \in [Project -> User] /\ Home \in [Task -> Project]
ASSUME ChangesAssumption == Changes \in Nat \ {0}
ASSUME NobodyAssumption == None \notin User \cup Project \cup Task \cup TaskStatus

VARIABLES
  rows,    \* the tables: projects and tasks, with version 0 before creation
  token,   \* localStorage, which the tabs share: the user logged in, or None
  authed,  \* authed[w]: isAuthed of App
  page,    \* page[w]: what the route shows
  login,   \* login[w]: whose login is under way
  query,   \* query[w][k]: the cache entry of key k and its fetch
  calls,   \* calls[w][s]: a mutation under way
  owed     \* history: owed[w][r]: the version of row r that the last write
           \* acknowledged to w while it showed the page of r has left

vars == <<rows, token, authed, page, login, query, calls, owed>>

Key == {"projects"} \cup Project
Page == Key \cup {"login"}
Rows == Project \cup Task

KeyOf(r) == IF r \in Project THEN "projects" ELSE Home[r]
OwnerOf(r) == IF r \in Project THEN Owner[r] ELSE Owner[Home[r]]
Listed(k) == {r \in Rows : KeyOf(r) = k}

Row == [version : 0..Changes, status : TaskStatus \cup {None}]
Absent == [version |-> 0, status |-> None]
Created(r) == [version |-> 1, status |-> IF r \in Task THEN "TODO" ELSE None]

NoFetch == [state |-> "none", user |-> None, answer |-> None]
NoCall == [state |-> "idle", key |-> "projects", row |-> None, to |-> None,
           shown |-> None, user |-> None, outcome |-> "none", found |-> None,
           version |-> 0]
Empty == [data |-> None, invalid |-> FALSE, fetch |-> NoFetch]

Init ==
  /\ rows = [r \in Rows |-> Absent]
  /\ token = None
  /\ authed = [w \in Tab |-> FALSE]
  /\ page = [w \in Tab |-> "login"]
  /\ login = [w \in Tab |-> None]
  /\ query = [w \in Tab |-> [k \in Key |-> Empty]]
  /\ calls = [w \in Tab |-> [s \in Slot |-> NoCall]]
  /\ owed = [w \in Tab |-> [r \in Rows |-> 0]]

------------------------------------------------------------------------------
(* React Query.                                                            *)

\* The request leaves with the token that localStorage holds by then.
Fetching(q) ==
  [q EXCEPT !.fetch = [state |-> "sent", user |-> token', answer |-> None]]

Mounted(q) == IF q.fetch.state = "none" THEN Fetching(q) ELSE q

\* A fetch under way is dropped for a new one, unless it is the first.
Invalidated(q, onScreen) ==
  LET marked == [q EXCEPT !.invalid = TRUE]
  IN  IF ~onScreen \/ (q.fetch.state # "none" /\ q.data = None)
        THEN marked
        ELSE Fetching(marked)

\* Tab w shows page k from now on.
Open(w, k) ==
  /\ page' = [page EXCEPT ![w] = k]
  /\ query' = IF k = "login" THEN query
              ELSE [query EXCEPT ![w][k] = Mounted(@)]

\* What the API answers to user u who reads key k.
Snapshot(k, u) ==
  [user |-> u,
   rows |-> [r \in Listed(k) |-> IF OwnerOf(r) = u THEN rows[r] ELSE Absent]]

MayRead(k, u) ==
  /\ u # None
  /\ k \in Project => Owner[k] = u /\ rows[k].version > 0

ServeFetch(w, k) ==
  /\ query[w][k].fetch.state = "sent"
  /\ LET u == query[w][k].fetch.user IN
       \E answer \in {None} \cup (IF MayRead(k, u) THEN {Snapshot(k, u)} ELSE {}) :
         /\ query' = [query EXCEPT ![w][k].fetch =
                        [state |-> "back", user |-> None, answer |-> answer]]
  /\ UNCHANGED <<rows, token, authed, page, login, calls, owed>>

\* The answer arrives.  A failure is tried again, or given up.
LandFetch(w, k) ==
  /\ query[w][k].fetch.state = "back"
  /\ UNCHANGED <<rows, token, authed, page, login, calls, owed>>
  /\ LET answer == query[w][k].fetch.answer IN
       \/ /\ answer # None
          /\ query' = [query EXCEPT ![w][k] =
                         [data |-> answer, invalid |-> FALSE, fetch |-> NoFetch]]
       \/ /\ answer = None
          /\ \/ query' = [query EXCEPT ![w][k].fetch = NoFetch]
             \/ query' = [query EXCEPT ![w][k] = Fetching(@)]

\* The window gets the focus, or the network comes back.
Refocus(w) ==
  /\ page[w] # "login"
  /\ UNCHANGED <<rows, token, authed, page, login, calls, owed>>
  /\ query' = [query EXCEPT ![w][page[w]] = Mounted(@)]

\* What tab w shows of the cache.
Shows(w, k) == page[w] = k /\ query[w][k].data # None

\* While the first fetch of a page is under way it shows only "Loading".
Usable(w, k) ==
  /\ page[w] = k
  /\ query[w][k].data # None \/ query[w][k].fetch.state = "none"

------------------------------------------------------------------------------
(* Logging in and out, and moving between pages.                           *)

SubmitLogin(w, u) ==
  /\ page[w] = "login"
  /\ login' = [login EXCEPT ![w] = u]
  /\ UNCHANGED <<rows, token, authed, page, query, calls, owed>>

\* It goes on to the projects wherever the tab has gone in the meantime.
LoginSucceeds(w) ==
  /\ login[w] # None
  /\ token' = login[w]
  /\ login' = [login EXCEPT ![w] = None]
  /\ authed' = [authed EXCEPT ![w] = TRUE]
  /\ Open(w, "projects")
  /\ UNCHANGED <<rows, calls, owed>>

LoginFails(w) ==
  /\ login[w] # None
  /\ login' = [login EXCEPT ![w] = None]
  /\ UNCHANGED <<rows, token, authed, page, query, calls, owed>>

Logout(w) ==
  /\ Usable(w, "projects")
  /\ token' = None
  /\ authed' = [authed EXCEPT ![w] = FALSE]
  /\ page' = [page EXCEPT ![w] = "login"]
  /\ UNCHANGED <<rows, login, query, calls, owed>>

\* Mutant: the route of a board is not guarded.
NavigateFreely(w, k) ==
  /\ k # page[w]
  /\ token' = token
  /\ Open(w, k)
  /\ UNCHANGED <<rows, authed, login, calls, owed>>

\* A link, or the Back button.  The routes but /login ask for isAuthed.
Navigate(w, k) ==
  /\ k # page[w]
  /\ k = "login" \/ authed[w]
  /\ token' = token
  /\ Open(w, k)
  /\ UNCHANGED <<rows, authed, login, calls, owed>>

\* The tab loads anew: the cache is empty, answers under way find nobody.
Reload(w) ==
  /\ authed' = [authed EXCEPT ![w] = token # None]
  /\ login' = [login EXCEPT ![w] = None]
  /\ calls' = [calls EXCEPT ![w] = [s \in Slot |-> NoCall]]
  /\ owed' = [owed EXCEPT ![w] = [r \in Rows |-> 0]]
  /\ token' = token
  /\ LET k == IF token # None THEN page[w] ELSE "login"
     IN  /\ page' = [page EXCEPT ![w] = k]
         /\ query' = [query EXCEPT ![w] =
                        [j \in Key |-> IF j = k THEN Mounted(Empty) ELSE Empty]]
  /\ UNCHANGED rows

------------------------------------------------------------------------------
(* Writes.                                                                 *)

\* Mutant: the board lets a task jump to review.
MoreNextStatuses(current) ==
  CASE current = "TODO" -> {"IN_PROGRESS", "IN_REVIEW", "CANCELLED"}
    [] current = "IN_PROGRESS" -> {"IN_REVIEW", "TODO", "CANCELLED"}
    [] current = "IN_REVIEW" -> {"IN_PROGRESS", "DONE", "CANCELLED"}
    [] OTHER -> {}

\* The buttons of a card, from a table of the page's own.
getNextStatuses(current) ==
  CASE current = "TODO" -> {"IN_PROGRESS", "CANCELLED"}
    [] current = "IN_PROGRESS" -> {"IN_REVIEW", "TODO", "CANCELLED"}
    [] current = "IN_REVIEW" -> {"IN_PROGRESS", "DONE", "CANCELLED"}
    [] OTHER -> {}

Mutate(w, s, call) ==
  /\ calls[w][s].state = "idle"
  /\ calls' = [calls EXCEPT ![w][s] = call]
  /\ UNCHANGED <<rows, token, authed, page, login, query, owed>>

ClickCreate(w, s, k) ==
  /\ Usable(w, k)
  /\ Mutate(w, s, [NoCall EXCEPT !.state = "sent", !.key = k, !.user = token])

ClickMove(w, s, p, t) ==
  /\ Shows(w, p)
  /\ KeyOf(t) = p
  /\ LET shown == query[w][p].data.rows[t].status IN
       \E to \in getNextStatuses(shown) :
         Mutate(w, s, [NoCall EXCEPT !.state = "sent", !.key = p, !.row = t,
                         !.to = to, !.shown = shown, !.user = token])

\* The answer, with what of the call its arrival still needs.
Failed == [NoCall EXCEPT !.state = "back", !.outcome = "failed"]

\* The API carries out the write on row r, which becomes new; the answer may
\* be lost.
Write(w, s, r, new) ==
  /\ rows' = [rows EXCEPT ![r] = new]
  /\ \/ calls' = [calls EXCEPT ![w][s] =
                   [NoCall EXCEPT !.state = "back", !.outcome = "ok",
                                  !.key = KeyOf(r), !.row = r,
                                  !.version = new.version]]
     \/ calls' = [calls EXCEPT ![w][s] = Failed]

\* 422: the task has status found.
Refuse(w, s, found) ==
  /\ calls' = [calls EXCEPT ![w][s] =
                 [NoCall EXCEPT !.state = "back", !.outcome = "refused",
                                !.shown = calls[w][s].shown,
                                !.found = found]]
  /\ UNCHANGED rows

\* Any other answer, or none.
Fail(w, s) ==
  /\ calls' = [calls EXCEPT ![w][s] = Failed]
  /\ UNCHANGED rows

ServeCall(w, s) ==
  LET call == calls[w][s] IN
    /\ call.state = "sent"
    /\ UNCHANGED <<token, authed, page, login, query, owed>>
    /\ \/ /\ call.to = None
          /\ MayRead(call.key, call.user)
          /\ \E r \in Listed(call.key) :
               /\ rows[r] = Absent /\ OwnerOf(r) = call.user
               /\ Write(w, s, r, Created(r))
       \/ /\ call.to # None
          /\ MayRead(call.key, call.user)
          /\ LET r == call.row IN
               IF TransitionAllowed(rows[r].status, call.to)
                 THEN /\ rows[r].version < Changes
                      /\ Write(w, s, r, [version |-> rows[r].version + 1,
                                         status |-> call.to])
                 ELSE Refuse(w, s, rows[r].status)
       \/ Fail(w, s)

\* Mutant: what is on the screen is not fetched anew.
LandCallUnnoticed(w, s) ==
  LET call == calls[w][s] IN
    /\ call.state = "back"
    /\ calls' = [calls EXCEPT ![w][s] = NoCall]
    /\ owed' = IF call.outcome = "ok" /\ Shows(w, call.key)
                 THEN [owed EXCEPT ![w][call.row] = call.version] ELSE owed
    /\ UNCHANGED <<rows, token, authed, page, login, query>>

\* onSuccess of a mutation, which runs whatever the tab shows by then; there is
\* no onError.
LandCall(w, s) ==
  LET call == calls[w][s] IN
    /\ call.state = "back"
    /\ calls' = [calls EXCEPT ![w][s] = NoCall]
    /\ token' = token
    /\ query' = IF call.outcome = "ok"
                  THEN [query EXCEPT ![w][call.key] =
                          Invalidated(@, page[w] = call.key)]
                  ELSE query
    /\ owed' = IF call.outcome = "ok" /\ Shows(w, call.key)
                 THEN [owed EXCEPT ![w][call.row] = call.version] ELSE owed
    /\ UNCHANGED <<rows, authed, page, login>>

\* Another client of the API creates a row or moves a task.
Elsewhere(r) ==
  /\ \/ /\ rows[r] = Absent
        /\ r \in Task => rows[Home[r]] # Absent
        /\ rows' = [rows EXCEPT ![r] = Created(r)]
     \/ /\ r \in Task /\ rows[r] # Absent
        /\ rows[r].version < Changes
        /\ \E to \in VALID_TRANSITIONS[rows[r].status] :
             rows' = [rows EXCEPT ![r] = [version |-> @.version + 1,
                                          status |-> to]]
  /\ UNCHANGED <<token, authed, page, login, query, calls, owed>>

InTab(w) ==
  \/ \E u \in User : SubmitLogin(w, u)
  \/ LoginSucceeds(w) \/ LoginFails(w) \/ Logout(w)
  \/ \E k \in Page : Navigate(w, k)
  \/ Reload(w) \/ Refocus(w)
  \/ \E k \in Key : ServeFetch(w, k) \/ LandFetch(w, k)
  \/ \E s \in Slot :
       \/ \E k \in Key : ClickCreate(w, s, k)
       \/ \E p \in Project, t \in Task : ClickMove(w, s, p, t)
       \/ ServeCall(w, s) \/ LandCall(w, s)

Next ==
  \/ \E w \in Tab : InTab(w)
  \/ \E r \in Rows : Elsewhere(r)

Spec == Init /\ [][Next]_vars

------------------------------------------------------------------------------
(* Properties.                                                             *)

Data(k) ==
  [user : User, rows : [Listed(k) -> Row]]
Query(k) ==
  [data : Data(k) \cup {None}, invalid : BOOLEAN,
   fetch : [state : {"none", "sent", "back"}, user : User \cup {None},
            answer : Data(k) \cup {None}]]
Call ==
  [state : {"idle", "sent", "back"}, key : Key, row : Rows \cup {None},
   to : TaskStatus \cup {None}, shown : TaskStatus \cup {None},
   user : User \cup {None}, outcome : {"none", "ok", "refused", "failed"},
   found : TaskStatus \cup {None}, version : 0..Changes]

TypeOK ==
  /\ rows \in [Rows -> Row]
  /\ \A r \in Rows : rows[r].version = 0 <=> rows[r] = Absent
  /\ token \in User \cup {None}
  /\ authed \in [Tab -> BOOLEAN]
  /\ page \in [Tab -> Page]
  /\ \A w \in Tab : page[w] # "login" => authed[w]
  /\ login \in [Tab -> User \cup {None}]
  /\ \A w \in Tab, k \in Key : query[w][k] \in Query(k)
  /\ calls \in [Tab -> [Slot -> Call]]
  /\ owed \in [Tab -> [Rows -> 0..Changes]]

\* What tab w shows of key k, once no fetch is under way and no invalidation
\* is pending.
Settled(w, k) ==
  /\ Shows(w, k)
  /\ query[w][k].fetch.state = "none"
  /\ ~query[w][k].invalid

\* A write that was acknowledged while the tab showed its page is seen there as
\* soon as the tab comes to rest, however its fetches, its writes and those of
\* other clients interleave: no fetch that read the row before the write is the last
\* to land.  (A tab that had left the page, or had never loaded it, may return
\* to a fetch as old as that.)
OwnWritesShown ==
  \A w \in Tab, k \in Key :
    Settled(w, k) =>
      \A r \in Listed(k) :
        OwnerOf(r) = query[w][k].data.user =>
          query[w][k].data.rows[r].version >= owed[w][r]

\* The board offers what the API accepts (two tables, one on each side): when
\* a move is refused the task has left the status that the card showed.
RefusalMeansStale ==
  \A w \in Tab, s \in Slot :
    calls[w][s].outcome = "refused" => calls[w][s].found # calls[w][s].shown

------------------------------------------------------------------------------
(* What the repository says of the program, and the program does not do.   *)

\* docs/user-guide.md: "After logging in you land on the Projects page
\* (/projects). All projects you own are listed here".  Logging out leaves the
\* cache and the fetches under way, and the next user's page takes the answer
\* meant for the last.
ListsOwnProjects ==
  \A w \in Tab :
    Settled(w, "projects") => query[w]["projects"].data.user = token
==============================================================================
