-------------------------- MODULE MiddlewareProofs --------------------------
(***************************************************************************)
(* Proofs about Middleware, for any connections, addresses, limit, window  *)
(* and number of requests.  What is known of the limiter is taken from     *)
(* RateLimiterProofs.                                                      *)
(***************************************************************************)
EXTENDS Middleware, SequenceTheorems, FiniteSetTheorems, TLAPS

R == INSTANCE RateLimiterProofs

------------------------------------------------------------------------------
(* The inductive invariant.                                                *)

\* How far a request has got says which headers its answer has, and whether
\* a route gave it.
PathOK(r) ==
  /\ r.mood \in {"idle", "down", "raise"} => ~r.routed /\ r.headers = {}
  /\ r.mood \in {"up", "raise"} => r.depth < 7
  /\ r.mood = "up" =>
       /\ 3 < r.depth => r.routed
       /\ "request_id" \in r.headers <=> r.routed /\ r.depth < 5
       /\ r.depth = 0 => "security" \in r.headers
  /\ r.mood = "sent" =>
       /\ "request_id" \in r.headers <=> r.routed
       /\ "security" \in r.headers \/ (r.code = 500 /\ ~r.routed)

\* The login on connection c is past the limiter, and no route has run it.
Spent(c, a) ==
  /\ req[c].mood = "down" /\ 4 < req[c].depth
  /\ req[c].kind = "login" /\ req[c].from = a

Spenders(a) == {c \in Client : Spent(c, a)}

\* The answer on connection c is counted, and not sent yet.
Shown(c) == req[c].mood = "up" /\ req[c].routed /\ req[c].depth < 6

Shows == {c \in Client : Shown(c)}

RequestsOK ==
  /\ req \in [Client -> Request]
  /\ \A c \in Client : PathOK(req[c])

Paid == \A a \in Address : Len(log[a]) = ran[a] + Cardinality(Spenders(a))

Summed ==
  /\ counters \in Counters
  /\ counters.requests_total = sent + Cardinality(Shows)
  /\ counters.errors_4xx + counters.errors_5xx <= counters.requests_total

IndInv ==
  /\ RequestsOK
  /\ arrived \in 0..Requests
  /\ ran \in [Address -> Nat]
  /\ sent \in Nat
  /\ R!IInv
  /\ Paid
  /\ Summed

------------------------------------------------------------------------------
(* Layers and sets of connections.                                         *)

LEMMA LayersAre ==
  /\ Len(Layers) = 7 /\ Depth = 0..7
  /\ Layers[1] = "headers" /\ Layers[2] = "cors" /\ Layers[3] = "size"
  /\ Layers[4] = "limit" /\ Layers[5] = "logging" /\ Layers[6] = "metrics"
  /\ Layers[7] = "route"
  BY DEF Layers, Depth

LEMMA LayerOf ==
  ASSUME req \in [Client -> Request], NEW c \in Client, NEW m, NEW l, In(c, m, l)
  PROVE  /\ req[c].mood = m /\ req[c].depth \in 1..7
         /\ l = "headers" <=> req[c].depth = 1
         /\ l = "cors" <=> req[c].depth = 2
         /\ l = "size" <=> req[c].depth = 3
         /\ l = "limit" <=> req[c].depth = 4
         /\ l = "logging" <=> req[c].depth = 5
         /\ l = "metrics" <=> req[c].depth = 6
         /\ l = "route" <=> req[c].depth = 7
<1>1. req[c].mood = m /\ Layers[req[c].depth] = l /\ 0 < req[c].depth
  BY DEF In
<1>2. req[c].depth \in 0..7
  BY LayersAre DEF Request
<1>3. req[c].depth \in {1, 2, 3, 4, 5, 6, 7}
  BY <1>1, <1>2
<1> QED
  BY <1>1, <1>3, LayersAre

\* Sets of connections are finite, and count their elements one by one.
LEMMA CountedOneByOne ==
  ASSUME NEW S \in SUBSET Client, NEW c \in Client
  PROVE  /\ Cardinality(S) \in Nat
         /\ c \notin S => Cardinality(S \cup {c}) = Cardinality(S) + 1
         /\ c \in S => Cardinality(S) = Cardinality(S \ {c}) + 1
<1>1. IsFiniteSet(S) /\ IsFiniteSet(S \ {c})
  BY FS_Subset, RequestsAssumption
<1>2. Cardinality(S) \in Nat /\ Cardinality(S \ {c}) \in Nat
  BY <1>1, FS_CardinalityType
<1>3. Cardinality(S \cup {c}) = IF c \in S THEN Cardinality(S) ELSE Cardinality(S) + 1
  BY <1>1, FS_AddElement
<1>4. Cardinality(S \ {c}) = IF c \in S THEN Cardinality(S) - 1 ELSE Cardinality(S)
  BY <1>1, FS_RemoveElement
<1> QED
  BY <1>2, <1>3, <1>4

LEMMA SetsOfClients ==
  Shows \in SUBSET Client /\ \A a : Spenders(a) \in SUBSET Client
  BY DEF Shows, Spenders

\* The properties, from the invariant.
LEMMA Properties ==
  ASSUME IndInv
  PROVE  TypeOK /\ BudgetIsForLogins /\ CountersAddUp /\ HandledAnswersAreMarked
<1>1. /\ req \in [Client -> Request] /\ \A c \in Client : PathOK(req[c])
      /\ \A c \in Client : req[c].depth \in 0..7
  BY LayersAre DEF IndInv, RequestsOK, Request
<1>2. R!TypeOK => Limit!TypeOK
  BY DEF R!TypeOK, Limit!TypeOK, R!Refusal, Limit!Refusal
<1>3. TypeOK
  BY <1>1, <1>2 DEF IndInv, TypeOK, Summed, R!IInv
<1>4. BudgetIsForLogins
  <2>1. ASSUME NEW c \in Client
        PROVE  (\E i \in 1..(req[c].depth - 1) : Layers[i] = "limit")
                 <=> 4 < req[c].depth
    <3>1. \A i \in 1..7 : Layers[i] = "limit" <=> i = 4
      <4>1. \A i \in 1..7 : i \in {1, 2, 3, 4, 5, 6, 7}
        OBVIOUS
      <4> QED BY <4>1, LayersAre
    <3>2. req[c].depth \in 0..7
      BY <1>1
    <3>3. \A i \in 1..(req[c].depth - 1) : i \in 1..7
      BY <3>2
    <3>4. 4 < req[c].depth <=> 4 \in 1..(req[c].depth - 1)
      BY <3>2
    <3> QED BY <3>1, <3>3, <3>4
  <2>2. \A a : {c \in Below("limit") : req[c].kind = "login" /\ req[c].from = a}
                 = Spenders(a)
    BY <2>1 DEF Below, Spenders, Spent
  <2> QED BY <2>2 DEF IndInv, Paid, BudgetIsForLogins
<1>5. CountersAddUp
  <2>1. ASSUME NEW c \in Client
        PROVE  (\A i \in 1..req[c].depth : Layers[i] # "metrics")
                 <=> req[c].depth < 6
    <3>1. \A i \in 1..7 : Layers[i] = "metrics" <=> i = 6
      <4>1. \A i \in 1..7 : i \in {1, 2, 3, 4, 5, 6, 7}
        OBVIOUS
      <4> QED BY <4>1, LayersAre
    <3>2. req[c].depth \in 0..7
      BY <1>1
    <3>3. \A i \in 1..req[c].depth : i \in 1..7
      BY <3>2
    <3>4. req[c].depth < 6 <=> 6 \notin 1..req[c].depth
      BY <3>2
    <3> QED BY <3>1, <3>3, <3>4
  <2>2. {c \in Client : /\ req[c].mood = "up" /\ req[c].routed
                        /\ \A i \in 1..req[c].depth : Layers[i] # "metrics"}
          = Shows
    BY <2>1 DEF Shows, Shown
  <2> QED BY <2>2 DEF IndInv, Summed, CountersAddUp
<1>6. HandledAnswersAreMarked
  BY <1>1 DEF PathOK, HandledAnswersAreMarked
<1> QED
  BY <1>3, <1>4, <1>5, <1>6

------------------------------------------------------------------------------
(* Moves of one request.                                                   *)

Others(c) ==
  /\ req' \in [Client -> Request]
  /\ \A d \in Client \ {c} : req'[d] = req[d]

\* The request of c keeps its kind and its address.
Same(c) == req'[c].kind = req[c].kind /\ req'[c].from = req[c].from

Fields(r, m, d, x, h, z) ==
  /\ r.mood = m /\ r.depth = d /\ r.code = x /\ r.headers = h /\ r.routed = z

LEMMA Becomes ==
  ASSUME req \in [Client -> Request], NEW c \in Client, NEW r \in Request,
         req' = [req EXCEPT ![c] = r]
  PROVE  Others(c) /\ req'[c] = r
  BY DEF Others

LEMMA DescendMoves ==
  ASSUME req \in [Client -> Request], NEW c \in Client, Descend(c),
         req[c].depth < 7
  PROVE  /\ Others(c) /\ Same(c)
         /\ Fields(req'[c], req[c].mood, req[c].depth + 1, req[c].code,
                   req[c].headers, req[c].routed)
<1> DEFINE r == [req[c] EXCEPT !.depth = @ + 1]
<1>1. req[c] \in Request /\ req[c].depth + 1 \in Depth
  BY LayersAre DEF Request
<1>2. r \in Request
  BY <1>1 DEF Request
<1>3. req' = [req EXCEPT ![c] = r]
  BY DEF Descend
<1>4. /\ r.kind = req[c].kind /\ r.from = req[c].from
      /\ Fields(r, req[c].mood, req[c].depth + 1, req[c].code, req[c].headers,
                req[c].routed)
  BY <1>1 DEF Request, Fields
<1> HIDE DEF r
<1> QED
  BY <1>2, <1>3, <1>4, Becomes DEF Same

LEMMA RespondMoves ==
  ASSUME req \in [Client -> Request], NEW c \in Client, NEW code \in Code,
         Respond(c, code), 0 < req[c].depth
  PROVE  /\ Others(c) /\ Same(c)
         /\ Fields(req'[c], "up", req[c].depth - 1, code, req[c].headers,
                   req[c].routed)
<1> DEFINE r == [req[c] EXCEPT !.mood = "up", !.depth = @ - 1, !.code = code]
<1>1. req[c] \in Request /\ req[c].depth - 1 \in Depth
  BY LayersAre DEF Request
<1>2. r \in Request
  BY <1>1 DEF Request
<1>3. req' = [req EXCEPT ![c] = r]
  BY DEF Respond
<1>4. /\ r.kind = req[c].kind /\ r.from = req[c].from
      /\ Fields(r, "up", req[c].depth - 1, code, req[c].headers, req[c].routed)
  BY <1>1 DEF Request, Fields
<1> HIDE DEF r
<1> QED
  BY <1>2, <1>3, <1>4, Becomes DEF Same

LEMMA AscendMoves ==
  ASSUME req \in [Client -> Request], NEW c \in Client,
         NEW h \in SUBSET Header,
         req' = [req EXCEPT ![c] = [req[c] EXCEPT !.depth = @ - 1, !.headers = h]],
         0 < req[c].depth
  PROVE  /\ Others(c) /\ Same(c)
         /\ Fields(req'[c], req[c].mood, req[c].depth - 1, req[c].code, h,
                   req[c].routed)
<1> DEFINE r == [req[c] EXCEPT !.depth = @ - 1, !.headers = h]
<1>1. req[c] \in Request /\ req[c].depth - 1 \in Depth
  BY LayersAre DEF Request
<1>2. r \in Request
  BY <1>1 DEF Request
<1>3. /\ r.kind = req[c].kind /\ r.from = req[c].from
      /\ Fields(r, req[c].mood, req[c].depth - 1, req[c].code, h, req[c].routed)
  BY <1>1 DEF Request, Fields
<1>4. req' = [req EXCEPT ![c] = r]
  OBVIOUS
<1> HIDE DEF r
<1> QED
  BY <1>2, <1>3, <1>4, Becomes DEF Same

\* On the way up a layer adds a header, or none.
LEMMA AscendIs ==
  ASSUME req \in [Client -> Request], NEW c \in Client, 0 < req[c].depth, Ascend(c)
  PROVE  /\ Others(c) /\ Same(c)
         /\ Fields(req'[c], req[c].mood, req[c].depth - 1, req[c].code,
                   req[c].headers, req[c].routed)
<1>1. req[c] \in Request /\ req[c].headers \in SUBSET Header
  BY DEF Request
<1>2. req' = [req EXCEPT ![c] = [req[c] EXCEPT !.depth = @ - 1,
                                               !.headers = req[c].headers]]
  BY <1>1 DEF Ascend, Request
<1> QED
  BY <1>1, <1>2, AscendMoves

LEMMA AscendWithIs ==
  ASSUME req \in [Client -> Request], NEW c \in Client, 0 < req[c].depth,
         NEW header \in Header, AscendWith(c, header)
  PROVE  /\ Others(c) /\ Same(c)
         /\ Fields(req'[c], req[c].mood, req[c].depth - 1, req[c].code,
                   req[c].headers \cup {header}, req[c].routed)
<1>1. req[c].headers \cup {header} \in SUBSET Header
  BY DEF Request
<1>2. req' = [req EXCEPT ![c] = [req[c] EXCEPT !.depth = @ - 1,
                                   !.headers = req[c].headers \cup {header}]]
  BY DEF AscendWith
<1> QED
  BY <1>1, <1>2, AscendMoves

LEMMA MoodMoves ==
  ASSUME req \in [Client -> Request], NEW c \in Client,
         NEW m \in {"idle", "down", "up", "raise", "sent"}, NEW d \in 0..7,
         NEW x \in Code, NEW z \in BOOLEAN,
         req' = [req EXCEPT ![c] = [req[c] EXCEPT !.mood = m, !.depth = d,
                                      !.code = x, !.routed = z]]
  PROVE  /\ Others(c) /\ Same(c)
         /\ Fields(req'[c], m, d, x, req[c].headers, z)
<1> DEFINE r == [req[c] EXCEPT !.mood = m, !.depth = d, !.code = x, !.routed = z]
<1>1. req[c] \in Request /\ d \in Depth
  BY LayersAre
<1>2. r \in Request
  BY <1>1 DEF Request
<1>3. /\ r.kind = req[c].kind /\ r.from = req[c].from
      /\ Fields(r, m, d, x, req[c].headers, z)
  BY <1>1 DEF Request, Fields
<1>4. req' = [req EXCEPT ![c] = r]
  OBVIOUS
<1> HIDE DEF r
<1> QED
  BY <1>2, <1>3, <1>4, Becomes DEF Same

\* What a request was and what it becomes, without a change of the sets.
LEMMA Passing ==
  ASSUME IndInv, NEW c \in Client, Others(c), PathOK(req'[c]),
         \A a \in Address : Spent(c, a)' <=> Spent(c, a),
         Shown(c)' <=> Shown(c),
         arrived' \in 0..Requests, UNCHANGED <<counters, ran, sent>>,
         log' = log, R!IInv'
  PROVE  IndInv'
<1>1. /\ \A a \in Address : Spenders(a)' = Spenders(a)
      /\ Shows' = Shows
  BY DEF Others, Spenders, Shows, Spent, Shown
<1>2. RequestsOK'
  BY DEF Others, RequestsOK, IndInv
<1> QED
  BY <1>1, <1>2 DEF IndInv, Paid, Summed

------------------------------------------------------------------------------
(* The limiter.                                                            *)

LEMMA SameLimiter ==
  /\ R!LimitAssumption
  /\ \A a \in Address : Limit!Admit(a) => R!Admit(a)
  /\ \A a \in Address : Limit!Refuse(a) => R!Refuse(a)
  /\ Limit!Tick => R!Tick
  /\ Limit!Restart => R!Restart
  /\ Limit!Init => R!Init
<1>1. R!LimitAssumption
  BY LimiterAssumption DEF Limit!LimitAssumption, R!LimitAssumption
<1>2. ASSUME NEW a \in Address PROVE Limit!Admit(a) => R!Admit(a)
  BY DEF Limit!Admit, R!Admit, Limit!Outdated, R!Outdated, Limit!Kept, R!Kept,
    Limit!Width, R!Width
<1>3. ASSUME NEW a \in Address PROVE Limit!Refuse(a) => R!Refuse(a)
  BY DEF Limit!Refuse, R!Refuse, Limit!Outdated, R!Outdated, Limit!Kept, R!Kept,
    Limit!Width, R!Width, Limit!RetryAfter, R!RetryAfter
<1>4. /\ Limit!Tick => R!Tick
      /\ Limit!Restart => R!Restart
      /\ Limit!Init => R!Init
  BY DEF Limit!Tick, R!Tick, Limit!Init, R!Init, Limit!Restart, R!Restart
<1> QED
  BY <1>1, <1>2, <1>3, <1>4

LEMMA AdmitFacts ==
  ASSUME R!IInv, NEW a \in Address, Limit!Admit(a)
  PROVE  /\ R!IInv'
         /\ Len(log'[a]) = Len(log[a]) + 1
         /\ \A b \in Address \ {a} : log'[b] = log[b]
<1>1. R!Admit(a) /\ R!LimitAssumption /\ R!TypeOK
  BY SameLimiter DEF R!IInv
<1>2. R!OnlyFor(a) /\ log'[a] = Append(log[a], now)
  BY <1>1, R!AdmitEffect
<1>3. log[a] \in Seq(Nat) /\ now \in Nat
  BY <1>1 DEF R!TypeOK
<1>4. R!IInv'
  BY <1>1, R!AdmitInvariant
<1> QED
  BY <1>2, <1>3, <1>4, AppendProperties DEF R!OnlyFor

LEMMA RefuseFacts ==
  ASSUME R!IInv, NEW a \in Address, Limit!Refuse(a)
  PROVE  R!IInv' /\ log' = log
<1>1. R!Refuse(a) /\ R!LimitAssumption
  BY SameLimiter
<1>2. R!IInv'
  BY <1>1, R!RefuseInvariant
<1> QED
  BY <1>1, <1>2 DEF R!Refuse

LEMMA NothingLimited ==
  ASSUME R!IInv, UNCHANGED limiter
  PROVE  R!IInv' /\ log' = log
<1>1. UNCHANGED R!vars
  BY DEF limiter, R!vars
<1>2. R!IInv'
  BY <1>1, SameLimiter, R!StepInvariant
<1> QED
  BY <1>2 DEF limiter

------------------------------------------------------------------------------
(* Requests arrive, and go down.                                           *)

LEMMA ArriveKeeps ==
  ASSUME IndInv, NEW c \in Client, Arrive(c)
  PROVE  IndInv'
<1>1. /\ req \in [Client -> Request] /\ req[c] \in Request /\ PathOK(req[c])
      /\ req[c].mood = "idle" /\ arrived' \in 0..Requests
      /\ UNCHANGED <<counters, ran, sent>> /\ R!IInv' /\ log' = log
  BY NothingLimited, RequestsAssumption DEF IndInv, RequestsOK, Arrive
<1>2. PICK kind \in Kind, big \in BOOLEAN :
        req' = [req EXCEPT ![c].kind = kind, ![c].big = big,
                           ![c].mood = "down", ![c].depth = 1]
  BY DEF Arrive
<1> DEFINE r == [req[c] EXCEPT !.kind = kind, !.big = big, !.mood = "down",
                               !.depth = 1]
<1>3. r \in Request
  <2>1. 1 \in Depth
    BY LayersAre
  <2> QED BY <1>1, <2>1 DEF Request
<1>4. req' = [req EXCEPT ![c] = r]
  BY <1>2
<1>5. r.mood = "down" /\ r.depth = 1 /\ r.headers = req[c].headers
      /\ r.routed = req[c].routed
  BY <1>1 DEF Request
<1> HIDE DEF r
<1>6. Others(c) /\ req'[c] = r
  BY <1>1, <1>3, <1>4, Becomes
<1>7. PathOK(req'[c])
  BY <1>1, <1>5, <1>6 DEF PathOK
<1>8. /\ \A a \in Address : Spent(c, a)' <=> Spent(c, a)
      /\ Shown(c)' <=> Shown(c)
  BY <1>1, <1>5, <1>6 DEF Spent, Shown
<1> QED
  BY <1>1, <1>6, <1>7, <1>8, Passing

\* A request goes a layer down without meeting the limiter.
LEMMA DescendKeeps ==
  ASSUME IndInv, NEW c \in Client, Descend(c), req[c].mood = "down",
         req[c].depth \in 1..6, req[c].depth = 4 => req[c].kind # "login",
         UNCHANGED <<counters, arrived, ran, sent>>, R!IInv', log' = log
  PROVE  IndInv'
<1>1. /\ req \in [Client -> Request] /\ PathOK(req[c])
      /\ arrived' \in 0..Requests
  BY DEF IndInv, RequestsOK
<1>2. /\ Others(c) /\ Same(c)
      /\ Fields(req'[c], "down", req[c].depth + 1, req[c].code,
                req[c].headers, req[c].routed)
  BY <1>1, DescendMoves
<1>3. PathOK(req'[c])
  BY <1>1, <1>2 DEF PathOK, Fields
<1>4. /\ \A a \in Address : Spent(c, a)' <=> Spent(c, a)
      /\ Shown(c)' <=> Shown(c)
  BY <1>2 DEF Spent, Shown, Fields, Same
<1> QED
  BY <1>1, <1>2, <1>3, <1>4, Passing

\* A layer answers in place of the route.
LEMMA RespondKeeps ==
  ASSUME IndInv, NEW c \in Client, NEW code \in Code, Respond(c, code),
         req[c].mood = "down", req[c].depth \in 2..4,
         UNCHANGED <<counters, arrived, ran, sent>>, R!IInv', log' = log
  PROVE  IndInv'
<1>1. /\ req \in [Client -> Request] /\ PathOK(req[c])
      /\ arrived' \in 0..Requests
  BY DEF IndInv, RequestsOK
<1>2. /\ Others(c) /\ Same(c)
      /\ Fields(req'[c], "up", req[c].depth - 1, code, req[c].headers,
                req[c].routed)
  BY <1>1, RespondMoves
<1>3. PathOK(req'[c])
  BY <1>1, <1>2 DEF PathOK, Fields
<1>4. /\ \A a \in Address : Spent(c, a)' <=> Spent(c, a)
      /\ Shown(c)' <=> Shown(c)
  BY <1>1, <1>2 DEF Spent, Shown, Fields, Same, PathOK
<1> QED
  BY <1>1, <1>2, <1>3, <1>4, Passing

\* The limiter admits a login.
LEMMA AdmitKeeps ==
  ASSUME IndInv, NEW c \in Client, req[c].mood = "down", req[c].depth = 4,
         req[c].kind = "login", Limit!Admit(req[c].from), Descend(c),
         UNCHANGED <<counters, arrived, ran, sent>>
  PROVE  IndInv'
<1>1. /\ req \in [Client -> Request] /\ PathOK(req[c]) /\ req[c] \in Request
      /\ arrived' \in 0..Requests
  BY DEF IndInv, RequestsOK
<1>2. /\ Others(c) /\ Same(c)
      /\ Fields(req'[c], "down", 5, req[c].code, req[c].headers, req[c].routed)
  BY <1>1, DescendMoves
<1>3. PICK a \in Address : a = req[c].from
  BY <1>1 DEF Request
<1>4. /\ R!IInv' /\ Len(log'[a]) = Len(log[a]) + 1
      /\ \A b \in Address \ {a} : log'[b] = log[b]
  BY <1>3, AdmitFacts DEF IndInv
<1>5. RequestsOK'
  <2>1. PathOK(req'[c])
    BY <1>1, <1>2 DEF PathOK, Fields
  <2> QED BY <1>2, <2>1 DEF Others, RequestsOK, IndInv
<1>6. Shows' = Shows
  BY <1>2 DEF Shows, Shown, Others, Fields
<1>7. /\ c \notin Spenders(a) /\ Spenders(a)' = Spenders(a) \cup {c}
      /\ \A b \in Address \ {a} : Spenders(b)' = Spenders(b)
  BY <1>2, <1>3 DEF Spenders, Spent, Others, Fields, Same
<1>8. Cardinality(Spenders(a)') = Cardinality(Spenders(a)) + 1
      /\ Cardinality(Spenders(a)) \in Nat
  BY <1>7, CountedOneByOne, SetsOfClients
<1>9. Paid'
  <2> SUFFICES ASSUME NEW b \in Address
               PROVE  Len(log'[b]) = ran[b] + Cardinality(Spenders(b)')
    BY DEF Paid
  <2>1. Len(log[b]) = ran[b] + Cardinality(Spenders(b)) /\ ran[b] \in Nat
    BY DEF IndInv, Paid
  <2>2. CASE b = a
    BY <1>4, <1>8, <2>1, <2>2
  <2>3. CASE b # a
    BY <1>4, <1>7, <2>1, <2>3
  <2> QED BY <2>2, <2>3
<1> QED
  BY <1>1, <1>4, <1>5, <1>6, <1>9 DEF IndInv, Summed

LEMMA RateLimitKeeps ==
  ASSUME IndInv, NEW c \in Client, RateLimit(c)
  PROVE  IndInv'
<1>1. req[c].mood = "down" /\ req[c].depth = 4 /\ req[c].from \in Address
  BY LayerOf DEF RateLimit, IndInv, RequestsOK, Request
<1>2. UNCHANGED <<counters, arrived, ran, sent>> /\ R!IInv
  BY DEF RateLimit, IndInv
<1>3. CASE req[c].kind # "login" /\ Descend(c) /\ UNCHANGED limiter
  BY <1>1, <1>2, <1>3, NothingLimited, DescendKeeps
<1>4. CASE req[c].kind = "login" /\ Limit!Admit(req[c].from) /\ Descend(c)
  BY <1>1, <1>2, <1>4, AdmitKeeps
<1>5. CASE Limit!Refuse(req[c].from) /\ Respond(c, 429)
  BY <1>1, <1>2, <1>5, RefuseFacts, RespondKeeps DEF Code
<1> QED
  BY <1>3, <1>4, <1>5 DEF RateLimit

------------------------------------------------------------------------------
(* The route, and the way up.                                              *)

LEMMA RouteKeeps ==
  ASSUME IndInv, NEW c \in Client, Route(c)
  PROVE  IndInv'
<1>1. /\ req \in [Client -> Request] /\ PathOK(req[c]) /\ req[c] \in Request
      /\ req[c].mood = "down" /\ req[c].depth = 7 /\ R!IInv
  BY LayerOf DEF Route, IndInv, RequestsOK
<1>2. PICK a \in Address : a = req[c].from
  BY <1>1 DEF Request
<1>3. /\ ran' = [ran EXCEPT ![a] = IF req[c].kind = "login" THEN @ + 1 ELSE @]
      /\ ran \in [Address -> Nat]
      /\ UNCHANGED <<counters, arrived, sent>> /\ R!IInv' /\ log' = log
  BY <1>1, <1>2, NothingLimited DEF Route, IndInv
<1>4. /\ Others(c) /\ Same(c)
      /\ PathOK(req'[c]) /\ ~Shown(c)' /\ req'[c].mood # "down"
  <2>1. CASE \E code \in {200, 400, 500} :
               req' = [req EXCEPT ![c].mood = "up", ![c].depth = @ - 1,
                                  ![c].code = code, ![c].routed = TRUE]
    <3>1. PICK code \in {200, 400, 500} :
               req' = [req EXCEPT ![c].mood = "up", ![c].depth = @ - 1,
                                  ![c].code = code, ![c].routed = TRUE]
      BY <2>1
    <3>2. req' = [req EXCEPT ![c] = [req[c] EXCEPT !.mood = "up", !.depth = 6,
                                       !.code = code, !.routed = TRUE]]
      <4>1. req' = [req EXCEPT ![c] = [req[c] EXCEPT !.mood = "up",
                      !.depth = @ - 1, !.code = code, !.routed = TRUE]]
        BY <1>1, <3>1, SMTT(20) DEF Request
      <4>2. req[c].depth - 1 = 6
        BY <1>1
      <4> QED BY <1>1, <4>1, <4>2
    <3>3. code \in Code /\ 6 \in 0..7
      BY DEF Code
    <3>4. /\ Others(c) /\ Same(c)
          /\ Fields(req'[c], "up", 6, code, req[c].headers, TRUE)
      BY <1>1, <3>2, <3>3, MoodMoves
    <3> QED BY <1>1, <3>4 DEF PathOK, Fields, Shown
  <2>2. CASE req' = [req EXCEPT ![c].mood = "raise", ![c].depth = @ - 1]
    <3>1. req' = [req EXCEPT ![c] = [req[c] EXCEPT !.mood = "raise", !.depth = 6,
                                   !.code = req[c].code, !.routed = req[c].routed]]
      BY <1>1, <2>2 DEF Request
    <3>2. req[c].code \in Code /\ req[c].routed \in BOOLEAN /\ 6 \in 0..7
      BY <1>1 DEF Request
    <3>3. /\ Others(c) /\ Same(c)
          /\ Fields(req'[c], "raise", 6, req[c].code, req[c].headers, req[c].routed)
      BY <1>1, <3>1, <3>2, MoodMoves
    <3> QED BY <1>1, <3>3 DEF PathOK, Fields, Shown
  <2> QED BY <2>1, <2>2 DEF Route
<1>5. RequestsOK'
  BY <1>4 DEF Others, RequestsOK, IndInv
<1>6. Shows' = Shows
  BY <1>1, <1>4 DEF Shows, Shown, Others
<1>7. /\ \A b \in Address \ {a} : Spenders(b)' = Spenders(b)
      /\ Spenders(a)' = Spenders(a) \ {c}
      /\ c \in Spenders(a) <=> req[c].kind = "login"
  BY <1>1, <1>2, <1>4 DEF Spenders, Spent, Others, Same
<1>8. /\ Cardinality(Spenders(a)') \in Nat
      /\ req[c].kind = "login" =>
           Cardinality(Spenders(a)) = Cardinality(Spenders(a)') + 1
      /\ req[c].kind # "login" => Spenders(a)' = Spenders(a)
  <2>1. Spenders(a) \ {c} \in SUBSET Client
    BY SetsOfClients
  <2>2. Cardinality(Spenders(a) \ {c}) \in Nat
    BY <2>1, CountedOneByOne
  <2>3. c \in Spenders(a) =>
          Cardinality(Spenders(a)) = Cardinality(Spenders(a) \ {c}) + 1
    BY SetsOfClients, CountedOneByOne
  <2> QED BY <1>7, <2>2, <2>3
<1>9. Paid'
  <2> SUFFICES ASSUME NEW b \in Address
               PROVE  Len(log[b]) = ran'[b] + Cardinality(Spenders(b)')
    BY <1>3 DEF Paid
  <2>1. Len(log[b]) = ran[b] + Cardinality(Spenders(b)) /\ ran[b] \in Nat
    BY DEF IndInv, Paid
  <2>2. CASE b = a /\ req[c].kind = "login"
    <3>1. ran'[b] = ran[b] + 1
      BY <1>3, <2>2
    <3> QED BY <1>8, <2>1, <2>2, <3>1
  <2>3. CASE b = a /\ req[c].kind # "login"
    <3>1. ran'[b] = ran[b]
      BY <1>3, <2>3
    <3> QED BY <1>8, <2>1, <2>3, <3>1
  <2>4. CASE b # a
    <3>1. ran'[b] = ran[b]
      BY <1>3, <2>4
    <3> QED BY <1>7, <2>1, <2>4, <3>1
  <2> QED BY <2>2, <2>3, <2>4
<1>10. ran' \in [Address -> Nat]
  <2>1. ran[a] \in Nat /\ ran[a] + 1 \in Nat
    BY <1>3
  <2> QED BY <1>3, <2>1
<1> QED
  BY <1>3, <1>5, <1>6, <1>9, <1>10 DEF IndInv, Summed

\* An answer goes up through a layer that does not count it.
LEMMA AscendKeeps ==
  ASSUME IndInv, NEW c \in Client, req[c].mood = "up",
         req[c].depth \in 1..5, Others(c), Same(c),
         NEW h \in SUBSET Header,
         Fields(req'[c], "up", req[c].depth - 1, req[c].code, h, req[c].routed),
         "request_id" \in h <=> req[c].routed /\ req[c].depth < 6,
         req[c].depth = 1 => "security" \in h,
         UNCHANGED <<counters, arrived, ran, sent>>, R!IInv', log' = log
  PROVE  IndInv'
<1>1. /\ req \in [Client -> Request] /\ PathOK(req[c])
      /\ arrived' \in 0..Requests
  BY DEF IndInv, RequestsOK
<1>2. PathOK(req'[c])
  BY <1>1 DEF PathOK, Fields
<1>3. /\ \A a \in Address : Spent(c, a)' <=> Spent(c, a)
      /\ Shown(c)' <=> Shown(c)
  BY DEF Spent, Shown, Fields, Same
<1> QED
  BY <1>1, <1>2, <1>3, Passing

LEMMA PassUpKeeps ==
  ASSUME IndInv, NEW c \in Client,
         PassUp(c) \/ AddSecurityHeaders(c) \/ AddRequestId(c)
  PROVE  IndInv'
<1>1. /\ req \in [Client -> Request] /\ PathOK(req[c]) /\ req[c] \in Request
      /\ R!IInv
  BY DEF IndInv, RequestsOK
<1>2. UNCHANGED <<counters, arrived, ran, sent>> /\ R!IInv' /\ log' = log
  BY <1>1, NothingLimited DEF PassUp, AddSecurityHeaders, AddRequestId
<1>3. req[c].headers \in SUBSET Header /\ Header = {"security", "request_id"}
  BY <1>1 DEF Request, Header
<1>4. CASE PassUp(c)
  <2>1. req[c].mood = "up" /\ req[c].depth \in 2..4 /\ Ascend(c)
    BY <1>1, <1>4, LayerOf DEF PassUp
  <2>2. /\ Others(c) /\ Same(c)
        /\ Fields(req'[c], "up", req[c].depth - 1, req[c].code,
                  req[c].headers, req[c].routed)
    BY <1>1, <2>1, AscendIs
  <2>3. "request_id" \in req[c].headers <=> req[c].routed /\ req[c].depth < 6
    BY <1>1, <2>1 DEF PathOK
  <2> QED BY <1>2, <1>3, <2>1, <2>2, <2>3, AscendKeeps
<1>5. CASE AddSecurityHeaders(c)
  <2>1. req[c].mood = "up" /\ req[c].depth = 1 /\ AscendWith(c, "security")
    BY <1>1, <1>5, LayerOf DEF AddSecurityHeaders
  <2> DEFINE h == req[c].headers \cup {"security"}
  <2>2. /\ Others(c) /\ Same(c)
        /\ Fields(req'[c], "up", req[c].depth - 1, req[c].code, h, req[c].routed)
    <3>1. "security" \in Header /\ 0 < req[c].depth
      BY <1>3, <2>1
    <3> QED BY <1>1, <2>1, <3>1, AscendWithIs
  <2>3. /\ h \in SUBSET Header /\ "security" \in h
        /\ "request_id" \in h <=> req[c].routed /\ req[c].depth < 6
    BY <1>1, <1>3, <2>1 DEF PathOK
  <2> HIDE DEF h
  <2> QED BY <1>2, <2>1, <2>2, <2>3, AscendKeeps
<1>6. CASE AddRequestId(c)
  <2>1. req[c].mood = "up" /\ req[c].depth = 5 /\ AscendWith(c, "request_id")
    BY <1>1, <1>6, LayerOf DEF AddRequestId
  <2> DEFINE h == req[c].headers \cup {"request_id"}
  <2>2. /\ Others(c) /\ Same(c)
        /\ Fields(req'[c], "up", req[c].depth - 1, req[c].code, h, req[c].routed)
    <3>1. "request_id" \in Header /\ 0 < req[c].depth
      BY <1>3, <2>1
    <3> QED BY <1>1, <2>1, <3>1, AscendWithIs
  <2>3. /\ h \in SUBSET Header
        /\ "request_id" \in h <=> req[c].routed /\ req[c].depth < 6
    BY <1>1, <1>3, <2>1 DEF PathOK
  <2> HIDE DEF h
  <2> QED BY <1>2, <2>1, <2>2, <2>3, AscendKeeps
<1> QED
  BY <1>4, <1>5, <1>6

LEMMA CountKeeps ==
  ASSUME IndInv, NEW c \in Client, Count(c)
  PROVE  IndInv'
<1>1. /\ req \in [Client -> Request] /\ PathOK(req[c]) /\ req[c] \in Request
      /\ req[c].mood = "up" /\ req[c].depth = 6 /\ R!IInv
      /\ counters' = Counted(counters, req[c].code)
  BY LayerOf DEF Count, IndInv, RequestsOK
<1>2. /\ Others(c) /\ Same(c)
      /\ Fields(req'[c], "up", 5, req[c].code, req[c].headers, req[c].routed)
  BY <1>1, AscendIs DEF Count
<1>3. UNCHANGED <<arrived, ran, sent>> /\ R!IInv' /\ log' = log
  BY <1>1, NothingLimited DEF Count
<1>4. req[c].routed
  BY <1>1 DEF PathOK
<1>5. RequestsOK'
  <2>1. PathOK(req'[c])
    BY <1>1, <1>2 DEF PathOK, Fields
  <2> QED BY <1>2, <2>1 DEF Others, RequestsOK, IndInv
<1>6. \A a \in Address : Spenders(a)' = Spenders(a)
  BY <1>1, <1>2 DEF Spenders, Spent, Others, Fields
<1>7. c \notin Shows /\ Shows' = Shows \cup {c}
  <2>1. ~Shown(c) /\ Shown(c)'
    BY <1>1, <1>2, <1>4 DEF Shown, Fields
  <2>2. \A d \in Client \ {c} : Shown(d)' <=> Shown(d)
    BY <1>2 DEF Shown, Others
  <2> QED BY <2>1, <2>2 DEF Shows
<1>8. Cardinality(Shows') = Cardinality(Shows) + 1 /\ Cardinality(Shows) \in Nat
  BY <1>7, CountedOneByOne, SetsOfClients
<1>9. Summed'
  <2>1. /\ counters \in Counters /\ sent \in Nat
        /\ counters.requests_total = sent + Cardinality(Shows)
        /\ counters.errors_4xx + counters.errors_5xx <= counters.requests_total
    BY DEF IndInv, Summed
  <2>2. req[c].code \in Nat
    BY <1>1 DEF Request, Code
  <2>3. /\ counters' \in Counters
        /\ counters'.requests_total = counters.requests_total + 1
        /\ counters'.errors_4xx + counters'.errors_5xx
             <= counters.errors_4xx + counters.errors_5xx + 1
    BY <1>1, <2>1, <2>2 DEF Counted, Counters
  <2>4. /\ counters.errors_4xx \in Nat /\ counters.errors_5xx \in Nat
        /\ counters'.errors_4xx \in Nat /\ counters'.errors_5xx \in Nat
    BY <2>1, <2>3 DEF Counters
  <2> QED BY <1>3, <1>8, <2>1, <2>3, <2>4 DEF Summed
<1> QED
  BY <1>3, <1>5, <1>6, <1>9 DEF IndInv, Paid

------------------------------------------------------------------------------
(* Exceptions, and answers that leave.                                     *)

LEMMA PassExceptionKeeps ==
  ASSUME IndInv, NEW c \in Client, PassException(c)
  PROVE  IndInv'
<1>1. /\ req \in [Client -> Request] /\ PathOK(req[c]) /\ req[c] \in Request
      /\ req[c].mood = "raise" /\ 0 < req[c].depth /\ R!IInv
      /\ arrived' \in 0..Requests
  BY DEF PassException, IndInv, RequestsOK
<1>2. /\ Others(c) /\ Same(c)
      /\ Fields(req'[c], "raise", req[c].depth - 1, req[c].code,
                req[c].headers, req[c].routed)
  BY <1>1, AscendIs DEF PassException
<1>3. UNCHANGED <<counters, ran, sent>> /\ R!IInv' /\ log' = log
  BY <1>1, NothingLimited DEF PassException
<1>4. PathOK(req'[c])
  <2>1. req[c].depth \in 0..7
    BY <1>1, LayersAre DEF Request
  <2> QED BY <1>1, <1>2, <2>1 DEF PathOK, Fields
<1>5. /\ \A a \in Address : Spent(c, a)' <=> Spent(c, a)
      /\ Shown(c)' <=> Shown(c)
  BY <1>1, <1>2 DEF Spent, Shown, Fields
<1> QED
  BY <1>1, <1>2, <1>3, <1>4, <1>5, Passing

LEMMA HandlerKeeps ==
  ASSUME IndInv, NEW c \in Client, unhandled_exception_handler(c)
  PROVE  IndInv'
<1>1. /\ req \in [Client -> Request] /\ PathOK(req[c]) /\ req[c] \in Request
      /\ req[c].mood = "raise" /\ req[c].depth = 0 /\ R!IInv /\ arrived' \in 0..Requests
  BY DEF unhandled_exception_handler, IndInv, RequestsOK
<1>2. PICK x \in Code : x = 500
  BY DEF Code
<1>3. req' = [req EXCEPT ![c] = [req[c] EXCEPT !.mood = "sent", !.depth = 0,
                !.code = x, !.routed = req[c].routed]]
  <2>1. req' = [req EXCEPT ![c].mood = "sent", ![c].code = x]
    BY <1>2 DEF unhandled_exception_handler
  <2> QED BY <1>1, <2>1 DEF Request
<1>4. /\ Others(c) /\ Same(c)
      /\ Fields(req'[c], "sent", 0, x, req[c].headers, req[c].routed)
  <2>1. req[c].routed \in BOOLEAN /\ 0 \in 0..7
    BY <1>1 DEF Request
  <2> QED BY <1>1, <1>3, <2>1, MoodMoves
<1>5. UNCHANGED <<counters, ran, sent>> /\ R!IInv' /\ log' = log
  BY <1>1, NothingLimited DEF unhandled_exception_handler
<1>6. PathOK(req'[c])
  BY <1>1, <1>2, <1>4 DEF PathOK, Fields
<1>7. /\ \A a \in Address : Spent(c, a)' <=> Spent(c, a)
      /\ Shown(c)' <=> Shown(c)
  BY <1>1, <1>4 DEF Spent, Shown, Fields
<1> QED
  BY <1>1, <1>4, <1>5, <1>6, <1>7, Passing

LEMMA SendKeeps ==
  ASSUME IndInv, NEW c \in Client, Send(c)
  PROVE  IndInv'
<1>1. /\ req \in [Client -> Request] /\ PathOK(req[c]) /\ req[c] \in Request
      /\ req[c].mood = "up" /\ req[c].depth = 0 /\ R!IInv
  BY DEF Send, IndInv, RequestsOK
<1>2. req[c].code \in Code /\ req[c].routed \in BOOLEAN /\ 0 \in 0..7
  BY <1>1 DEF Request
<1>3. req' = [req EXCEPT ![c] = [req[c] EXCEPT !.mood = "sent", !.depth = 0,
                !.code = req[c].code, !.routed = req[c].routed]]
  BY <1>1 DEF Send, Request
<1>4. /\ Others(c) /\ Same(c)
      /\ Fields(req'[c], "sent", 0, req[c].code, req[c].headers, req[c].routed)
  BY <1>1, <1>2, <1>3, MoodMoves
<1>5. /\ UNCHANGED <<counters, arrived, ran>> /\ R!IInv' /\ log' = log
      /\ sent' = IF req[c].routed THEN sent + 1 ELSE sent
      /\ sent \in Nat
  BY <1>1, NothingLimited DEF Send, IndInv
<1>6. RequestsOK'
  <2>1. PathOK(req'[c])
    BY <1>1, <1>4 DEF PathOK, Fields
  <2> QED BY <1>4, <2>1 DEF Others, RequestsOK, IndInv
<1>7. \A a \in Address : Spenders(a)' = Spenders(a)
  BY <1>1, <1>4 DEF Spenders, Spent, Others, Fields
<1>8. Shows' = Shows \ {c} /\ (c \in Shows <=> req[c].routed)
  BY <1>1, <1>4 DEF Shows, Shown, Others, Fields
<1>9. /\ Cardinality(Shows') \in Nat
      /\ req[c].routed => Cardinality(Shows) = Cardinality(Shows') + 1
      /\ ~req[c].routed => Shows' = Shows
  <2>1. Shows \ {c} \in SUBSET Client
    BY SetsOfClients
  <2>2. Cardinality(Shows \ {c}) \in Nat
    BY <2>1, CountedOneByOne
  <2>3. c \in Shows => Cardinality(Shows) = Cardinality(Shows \ {c}) + 1
    BY SetsOfClients, CountedOneByOne
  <2> QED BY <1>8, <2>2, <2>3
<1>10. Summed'
  <2>1. counters.requests_total = sent + Cardinality(Shows)
    BY DEF IndInv, Summed
  <2>2. sent + Cardinality(Shows) = sent' + Cardinality(Shows')
    <3>1. CASE req[c].routed
      BY <1>5, <1>9, <3>1
    <3>2. CASE ~req[c].routed
      BY <1>5, <1>9, <3>2
    <3> QED BY <3>1, <3>2
  <2> QED BY <1>5, <2>1, <2>2 DEF IndInv, Summed
<1>11. sent' \in Nat
  BY <1>5
<1> QED
  BY <1>5, <1>6, <1>7, <1>10, <1>11 DEF IndInv, Paid

LEMMA QuietIsFine ==
  ASSUME NEW a \in Address
  PROVE  /\ Quiet(a) \in Request /\ PathOK(Quiet(a))
         /\ Quiet(a).mood = "idle"
<1>1. 0 \in Depth /\ 0 \in Code
  BY LayersAre DEF Code
<1>2. Quiet(a) \in Request
  BY <1>1 DEF Quiet, Request, Kind
<1> QED
  BY <1>2 DEF Quiet, PathOK

LEMMA ForgetKeeps ==
  ASSUME IndInv, NEW c \in Client, Forget(c)
  PROVE  IndInv'
<1>1. /\ req \in [Client -> Request] /\ req[c] \in Request
      /\ req[c].mood = "sent" /\ R!IInv /\ arrived' \in 0..Requests
  BY DEF Forget, IndInv, RequestsOK
<1>2. PICK a \in Address : a = req[c].from
  BY <1>1 DEF Request
<1>3. req' = [req EXCEPT ![c] = Quiet(a)]
  BY <1>2 DEF Forget
<1>4. Others(c) /\ req'[c] = Quiet(a)
  BY <1>1, <1>3, QuietIsFine, Becomes
<1>5. UNCHANGED <<counters, ran, sent>> /\ R!IInv' /\ log' = log
  BY <1>1, NothingLimited DEF Forget
<1>6. /\ \A b \in Address : Spent(c, b)' <=> Spent(c, b)
      /\ Shown(c)' <=> Shown(c)
  BY <1>1, <1>4, QuietIsFine DEF Spent, Shown
<1> QED
  BY <1>1, <1>4, <1>5, <1>6, QuietIsFine, Passing

------------------------------------------------------------------------------
(* The clock, a new process, and the induction.                            *)

LEMMA TickKeeps ==
  ASSUME IndInv, Tick
  PROVE  IndInv'
<1>1. R!Tick /\ R!LimitAssumption /\ UNCHANGED stack
  BY SameLimiter DEF Tick
<1>2. R!IInv'
  BY <1>1, R!TickInvariant DEF IndInv
<1>3. log' = log /\ UNCHANGED <<req, counters, arrived, ran, sent>>
  BY <1>1 DEF R!Tick, stack
<1>4. (\A a : Spenders(a)' = Spenders(a)) /\ Shows' = Shows
  BY <1>3 DEF Spenders, Shows, Spent, Shown
<1> QED
  BY <1>2, <1>3, <1>4 DEF IndInv, RequestsOK, Paid, Summed

\* No request is under way: nothing is counted and nothing is paid for.
LEMMA NothingUnderWay ==
  ASSUME NEW r \in [Client -> Request], req' = r,
         \A c \in Client : PathOK(r[c]) /\ r[c].mood = "idle",
         counters' = Zero, ran' = [a \in Address |-> 0], sent' = 0,
         log' = [a \in Address |-> <<>>], arrived' \in 0..Requests, R!IInv'
  PROVE  IndInv'
<1>1. (\A a : Spenders(a)' = {}) /\ Shows' = {}
  BY DEF Spenders, Shows, Spent, Shown
<1>2. Cardinality({}) = 0
  BY FS_EmptySet
<1>3. Paid'
  <2> SUFFICES ASSUME NEW a \in Address
               PROVE  Len(log'[a]) = ran'[a] + Cardinality(Spenders(a)')
    BY DEF Paid
  <2>1. Len(log'[a]) = 0 /\ ran'[a] = 0
    BY EmptySeq
  <2>2. Cardinality(Spenders(a)') = 0
    BY <1>1, <1>2
  <2> QED BY <2>1, <2>2
<1>4. Summed'
  BY <1>1, <1>2 DEF Summed, Zero, Counters
<1>5. ran' \in [Address -> Nat] /\ sent' \in Nat /\ RequestsOK'
  BY DEF RequestsOK
<1> QED
  BY <1>3, <1>4, <1>5 DEF IndInv

LEMMA RestartKeeps ==
  ASSUME IndInv, Restart
  PROVE  IndInv'
<1>1. R!Restart /\ R!LimitAssumption
  BY SameLimiter DEF Restart
<1>2. R!IInv'
  BY <1>1, R!RestartInvariant DEF IndInv
<1>3. \A c \in Client : req[c].from \in Address
  BY DEF IndInv, RequestsOK, Request
<1> DEFINE r == [c \in Client |-> Quiet(req[c].from)]
<1>4. r \in [Client -> Request]
  BY <1>3, QuietIsFine
<1>5. \A c \in Client : PathOK(r[c]) /\ r[c].mood = "idle"
  BY <1>3, QuietIsFine
<1>6. /\ req' = r /\ counters' = Zero /\ ran' = [a \in Address |-> 0] /\ sent' = 0
      /\ log' = [a \in Address |-> <<>>] /\ arrived' \in 0..Requests
  BY <1>1 DEF Restart, R!Restart, IndInv
<1> HIDE DEF r
<1> QED
  BY <1>2, <1>4, <1>5, <1>6, NothingUnderWay

LEMMA InitKeeps == Init => IndInv
<1> SUFFICES ASSUME Init PROVE IndInv
  OBVIOUS
<1>1. R!IInv /\ log = [a \in Address |-> <<>>]
  BY SameLimiter, R!InitInvariant DEF Init, Limit!Init
<1>2. \A c \in Client : /\ req[c] \in Request /\ PathOK(req[c])
                        /\ req[c].mood = "idle"
  BY QuietIsFine DEF Init
<1>3. (\A a : Spenders(a) = {}) /\ Shows = {}
  BY <1>2 DEF Spenders, Shows, Spent, Shown
<1>4. Cardinality({}) = 0
  BY FS_EmptySet
<1>5. Paid
  <2> SUFFICES ASSUME NEW a \in Address
               PROVE  Len(log[a]) = ran[a] + Cardinality(Spenders(a))
    BY DEF Paid
  <2>1. Len(log[a]) = 0 /\ ran[a] = 0
    BY <1>1, EmptySeq DEF Init
  <2>2. Cardinality(Spenders(a)) = 0
    BY <1>3, <1>4
  <2> QED BY <2>1, <2>2
<1>6. Summed
  BY <1>3, <1>4 DEF Summed, Zero, Counters, Init
<1>7. RequestsOK
  <2>1. req \in [Client -> Request]
    BY <1>2 DEF Init
  <2> QED BY <1>2, <2>1 DEF RequestsOK
<1>8. arrived \in 0..Requests /\ ran \in [Address -> Nat] /\ sent \in Nat
  BY RequestsAssumption DEF Init
<1> QED
  BY <1>1, <1>5, <1>6, <1>7, <1>8 DEF IndInv

\* The layers that act on the way up pass a request down, CORS and the size
\* check pass it down or answer it.
LEMMA DownKeeps ==
  ASSUME IndInv, NEW c \in Client, PassDown(c) \/ Cors(c) \/ Size(c)
  PROVE  IndInv'
<1>1. /\ req \in [Client -> Request] /\ R!IInv
      /\ 200 \in Code /\ 413 \in Code
  BY DEF IndInv, RequestsOK, Code
<1>2. UNCHANGED <<counters, arrived, ran, sent>> /\ R!IInv' /\ log' = log
  BY <1>1, NothingLimited DEF PassDown, Cors, Size
<1>3. CASE PassDown(c)
  <2>1. PICK l \in {"headers", "logging", "metrics"} : In(c, "down", l)
    BY <1>3 DEF PassDown
  <2>2. req[c].mood = "down" /\ req[c].depth \in {1, 5, 6} /\ Descend(c)
    BY <1>1, <1>3, <2>1, LayerOf DEF PassDown
  <2> QED BY <1>2, <2>2, DescendKeeps
<1>4. CASE Cors(c)
  <2>1. req[c].mood = "down" /\ req[c].depth = 2
    BY <1>1, <1>4, LayerOf DEF Cors
  <2>2. (\E code \in {200, 400} : Respond(c, code)) \/ Descend(c)
    BY <1>4 DEF Cors
  <2>3. ASSUME NEW code \in {200, 400}, Respond(c, code) PROVE IndInv'
    BY <1>1, <1>2, <2>1, <2>3, RespondKeeps DEF Code
  <2> QED BY <1>2, <2>1, <2>2, <2>3, DescendKeeps
<1>5. CASE Size(c)
  <2>1. /\ req[c].mood = "down" /\ req[c].depth = 3
        /\ Respond(c, 413) \/ Descend(c)
    BY <1>1, <1>5, LayerOf DEF Size
  <2> QED BY <1>1, <1>2, <2>1, DescendKeeps, RespondKeeps
<1> QED
  BY <1>3, <1>4, <1>5

LEMMA StutterKeeps ==
  ASSUME IndInv, UNCHANGED vars
  PROVE  IndInv'
<1>1. /\ R!IInv' /\ log' = log
      /\ UNCHANGED <<req, counters, arrived, ran, sent>>
  BY NothingLimited DEF IndInv, vars, stack
<1>2. (\A a : Spenders(a)' = Spenders(a)) /\ Shows' = Shows
  BY <1>1 DEF Spenders, Shows, Spent, Shown
<1> QED
  BY <1>1, <1>2 DEF IndInv, RequestsOK, Paid, Summed

LEMMA StepKeeps == IndInv /\ [Next]_vars => IndInv'
<1> SUFFICES ASSUME IndInv, [Next]_vars PROVE IndInv'
  OBVIOUS
<1>1. ASSUME NEW c \in Client, Handle(c) PROVE IndInv'
  BY <1>1, DownKeeps, RateLimitKeeps, RouteKeeps, PassUpKeeps, CountKeeps,
    PassExceptionKeeps, HandlerKeeps, SendKeeps DEF Handle
<1> QED
  BY <1>1, ArriveKeeps, ForgetKeeps, TickKeeps, RestartKeeps, StutterKeeps
    DEF Next

\* The invariant holds: how far each request is, what its address has paid and
\* what is counted stay together.
THEOREM Inductive == Spec => []IndInv
  BY InitKeeps, StepKeeps, PTL DEF Spec

------------------------------------------------------------------------------
(* The theorems.                                                           *)

\* TypeOK: the state of the stack and of the limiter keeps its type.
THEOREM TypeCorrect == Spec => []TypeOK
<1>1. IndInv => TypeOK
  BY Properties
<1> QED
  BY <1>1, Inductive, PTL

\* BudgetIsForLogins: what an address spends of its budget is what routes ran
\* or are about to run, for any interleaving of any number of connections.
THEOREM BudgetIsKept == Spec => []BudgetIsForLogins
<1>1. IndInv => BudgetIsForLogins
  BY Properties
<1> QED
  BY <1>1, Inductive, PTL

\* CountersAddUp: the metrics middleware counts each answer of a route once.
THEOREM CountersAgree == Spec => []CountersAddUp
<1>1. IndInv => CountersAddUp
  BY Properties
<1> QED
  BY <1>1, Inductive, PTL

\* HandledAnswersAreMarked: which headers an answer leaves with, whichever
\* layer gave it.
THEOREM AnswersAreMarked == Spec => []HandledAnswersAreMarked
<1>1. IndInv => HandledAnswersAreMarked
  BY Properties
<1> QED
  BY <1>1, Inductive, PTL

------------------------------------------------------------------------------
(* The limiter, seen through the layers.                                   *)

\* No layer touches the buckets but by the limiter's own operations.
LEMMA LimiterSteps ==
  ASSUME IndInv, [Next]_vars
  PROVE  [R!Next]_R!vars
<1>1. UNCHANGED limiter => UNCHANGED R!vars
  BY DEF limiter, R!vars
<1>2. ASSUME NEW a \in Address, Limit!Admit(a) \/ Limit!Refuse(a)
      PROVE  R!Next
  BY <1>2, SameLimiter DEF R!Next
<1>3. ASSUME NEW c \in Client, RateLimit(c)
      PROVE  R!Next \/ UNCHANGED limiter
  <2>1. req[c].from \in Address
    BY DEF IndInv, RequestsOK, Request
  <2> QED BY <1>2, <1>3, <2>1 DEF RateLimit
<1>4. ASSUME NEW c \in Client, Arrive(c) \/ Handle(c) \/ Forget(c)
      PROVE  R!Next \/ UNCHANGED limiter
  <2>1. CASE RateLimit(c)
    BY <1>3, <2>1
  <2>2. CASE Arrive(c) \/ Forget(c)
    BY <2>2 DEF Arrive, Forget
  <2>3. CASE PassDown(c) \/ Cors(c) \/ Size(c) \/ Route(c)
    BY <2>3 DEF PassDown, Cors, Size, Route
  <2>4. CASE \/ PassUp(c) \/ AddSecurityHeaders(c) \/ AddRequestId(c)
             \/ Count(c) \/ PassException(c)
             \/ unhandled_exception_handler(c) \/ Send(c)
    BY <2>4 DEF PassUp, AddSecurityHeaders, AddRequestId, Count, PassException,
      unhandled_exception_handler, Send
  <2> QED
    BY <1>4, <2>1, <2>2, <2>3, <2>4 DEF Handle
<1>5. CASE Tick \/ Restart
  BY <1>5, SameLimiter DEF Tick, Restart, R!Next
<1>6. CASE UNCHANGED vars
  BY <1>1, <1>6 DEF vars
<1> QED
  BY <1>1, <1>4, <1>5, <1>6 DEF Next

\* With every layer around it, requests of any kind on any number of
\* connections and restarts in the middle, the limiter still implements the
\* sliding window: no other layer admits, refuses or forgets a login.
THEOREM WindowInTheStack == Spec => R!ImplementsWindow
<1>1. Init => R!Init
  BY SameLimiter DEF Init
<1>2. IndInv /\ [Next]_vars => [R!Next]_R!vars
  BY LimiterSteps
<1>3. Spec => R!Spec
  BY <1>1, <1>2, Inductive, PTL DEF Spec, R!Spec
<1>4. R!Spec => R!ImplementsWindow
  BY SameLimiter, R!WindowIsImplemented
<1> QED
  BY <1>3, <1>4
=============================================================================
