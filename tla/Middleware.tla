----------------------------- MODULE Middleware -----------------------------
(***************************************************************************)
(* The layers of main.py around the routes, outermost first.  A request    *)
(* goes down through them; a layer may answer it early; the answer goes    *)
(* up through the layers the request has passed.  An exception goes up the *)
(* same way and skips what every layer does after call_next; outside all   *)
(* of them the catch-all handler turns it into a 500.                      *)
(*                                                                         *)
(* The rate limiter is module RateLimiter; CORS headers, bodies, tracing   *)
(* and durations are left out.                                             *)
(***************************************************************************)
EXTENDS Naturals, Sequences, FiniteSets

CONSTANTS
  Client,    \* connections, each with at most one request outstanding
  Requests,  \* bound: how many requests arrive
  Address, Max, Window, Second, Horizon, Never   \* those of RateLimiter

ASSUME RequestsAssumption == IsFiniteSet(Client) /\ Requests \in Nat

VARIABLES
  req,      \* req[c]: the request of c, its answer and where they are
  counters, \* _counters of metrics.py
  arrived,  \* how many requests have arrived
  ran,      \* history: ran[a]: POSTs of a to /auth/login that a route ran
  sent,     \* history: answers sent that a route returned
  now, buckets, log, refused   \* those of RateLimiter

Limit == INSTANCE RateLimiter

ASSUME LimiterAssumption == Limit!LimitAssumption

stack == <<req, counters, arrived, ran, sent>>
limiter == <<now, buckets, log, refused>>
vars == <<stack, limiter>>

\* Mutant: the limiter is registered after the size check, hence outside it.
LimiterOutsideSize ==
  <<"headers", "cors", "limit", "size", "logging", "metrics", "route">>

\* Mutant: the first middleware registered is taken for the outermost.
HeadersInnermost ==
  <<"cors", "size", "limit", "logging", "metrics", "headers", "route">>

\* The last middleware added is the outermost.
Layers ==
  <<"headers", "cors", "size", "limit", "logging", "metrics", "route">>

Depth == 0..Len(Layers)

Kind == {"preflight", "login", "other"}
Code == {0, 200, 400, 413, 429, 500}
Header == {"security", "request_id"}

Request ==
  [kind : Kind,
   from : Address,
   big : BOOLEAN,        \* is Content-Length above 1 MiB?
   mood : {"idle", "down", "up", "raise", "sent"},
   depth : Depth,        \* the layer it is in; 0: outside all of them
   code : Code,
   headers : SUBSET Header,
   routed : BOOLEAN]     \* did a route answer it?

Quiet(a) ==
  [kind |-> "other", from |-> a, big |-> FALSE, mood |-> "idle", depth |-> 0,
   code |-> 0, headers |-> {}, routed |-> FALSE]

Counters == [requests_total : Nat, errors_4xx : Nat, errors_5xx : Nat]
Zero == [requests_total |-> 0, errors_4xx |-> 0, errors_5xx |-> 0]

Init ==
  /\ req \in [Client -> {Quiet(a) : a \in Address}]
  /\ counters = Zero
  /\ arrived = 0
  /\ ran = [a \in Address |-> 0]
  /\ sent = 0
  /\ Limit!Init

In(c, mood, layer) ==
  /\ req[c].mood = mood
  /\ req[c].depth > 0
  /\ Layers[req[c].depth] = layer

Arrive(c) ==
  /\ req[c].mood = "idle"
  /\ arrived < Requests
  /\ arrived' = arrived + 1
  /\ \E kind \in Kind, big \in BOOLEAN :
       req' = [req EXCEPT ![c].kind = kind, ![c].big = big,
                          ![c].mood = "down", ![c].depth = 1]
  /\ UNCHANGED <<counters, ran, sent, limiter>>

------------------------------------------------------------------------------
(* Down.                                                                   *)

Descend(c) == req' = [req EXCEPT ![c].depth = @ + 1]

Respond(c, code) ==
  req' = [req EXCEPT ![c].mood = "up", ![c].depth = @ - 1, ![c].code = code]

\* Layers that act on the way up only: SecurityHeaders, Logging, Metrics.
PassDown(c) ==
  /\ \E l \in {"headers", "logging", "metrics"} : In(c, "down", l)
  /\ Descend(c)
  /\ UNCHANGED <<counters, arrived, ran, sent, limiter>>

\* A preflight is answered here: 200, or 400 when its origin, method or headers
\* are not among those allowed.
Cors(c) ==
  /\ In(c, "down", "cors")
  /\ IF req[c].kind = "preflight" THEN \E code \in {200, 400} : Respond(c, code)
     ELSE Descend(c)
  /\ UNCHANGED <<counters, arrived, ran, sent, limiter>>

Size(c) ==
  /\ In(c, "down", "size")
  /\ IF req[c].big THEN Respond(c, 413) ELSE Descend(c)
  /\ UNCHANGED <<counters, arrived, ran, sent, limiter>>

RateLimit(c) ==
  /\ In(c, "down", "limit")
  /\ \/ /\ req[c].kind # "login"
        /\ Descend(c)
        /\ UNCHANGED limiter
     \/ /\ req[c].kind = "login"
        /\ Limit!Admit(req[c].from)
        /\ Descend(c)
     \/ /\ req[c].kind = "login"
        /\ Limit!Refuse(req[c].from)
        /\ Respond(c, 429)
  /\ UNCHANGED <<counters, arrived, ran, sent>>

\* The route answers, with an HTTPException or not, or an exception escapes.
Route(c) ==
  /\ In(c, "down", "route")
  /\ ran' = [ran EXCEPT ![req[c].from] =
               IF req[c].kind = "login" THEN @ + 1 ELSE @]
  /\ \/ \E code \in {200, 400, 500} :
          req' = [req EXCEPT ![c].mood = "up", ![c].depth = @ - 1,
                             ![c].code = code, ![c].routed = TRUE]
     \/ req' = [req EXCEPT ![c].mood = "raise", ![c].depth = @ - 1]
  /\ UNCHANGED <<counters, arrived, sent, limiter>>

------------------------------------------------------------------------------
(* Up.                                                                     *)

Ascend(c) == req' = [req EXCEPT ![c].depth = @ - 1]
AscendWith(c, header) ==
  req' = [req EXCEPT ![c].depth = @ - 1, ![c].headers = @ \cup {header}]

\* Layers that act on the way down only.
PassUp(c) ==
  /\ \E l \in {"cors", "size", "limit"} : In(c, "up", l)
  /\ Ascend(c)
  /\ UNCHANGED <<counters, arrived, ran, sent, limiter>>

AddSecurityHeaders(c) ==
  /\ In(c, "up", "headers")
  /\ AscendWith(c, "security")
  /\ UNCHANGED <<counters, arrived, ran, sent, limiter>>

AddRequestId(c) ==
  /\ In(c, "up", "logging")
  /\ AscendWith(c, "request_id")
  /\ UNCHANGED <<counters, arrived, ran, sent, limiter>>

Counted(k, code) ==
  [requests_total |-> k.requests_total + 1,
   errors_4xx |-> IF 400 <= code /\ code < 500 THEN k.errors_4xx + 1
                  ELSE k.errors_4xx,
   errors_5xx |-> IF 500 <= code THEN k.errors_5xx + 1 ELSE k.errors_5xx]

\* Mutant: the counting moves to a finally block, so exceptions count too.
CountAlways(c) ==
  /\ In(c, "up", "metrics") \/ In(c, "raise", "metrics")
  /\ counters' = Counted(counters, req[c].code)
  /\ Ascend(c)
  /\ UNCHANGED <<arrived, ran, sent, limiter>>

Count(c) ==
  /\ In(c, "up", "metrics")
  /\ counters' = Counted(counters, req[c].code)
  /\ Ascend(c)
  /\ UNCHANGED <<arrived, ran, sent, limiter>>

\* Mutant: the exception is passed on where no layer is left.
PassExceptionOn(c) ==
  /\ req[c].mood = "raise"
  /\ Ascend(c)
  /\ UNCHANGED <<counters, arrived, ran, sent, limiter>>

\* Logging logs the exception and raises it again; the others do nothing.
PassException(c) ==
  /\ req[c].mood = "raise" /\ req[c].depth > 0
  /\ Ascend(c)
  /\ UNCHANGED <<counters, arrived, ran, sent, limiter>>

\* The catch-all handler, which Starlette runs outside every middleware.
unhandled_exception_handler(c) ==
  /\ req[c].mood = "raise" /\ req[c].depth = 0
  /\ req' = [req EXCEPT ![c].mood = "sent", ![c].code = 500]
  /\ UNCHANGED <<counters, arrived, ran, sent, limiter>>

Send(c) ==
  /\ req[c].mood = "up" /\ req[c].depth = 0
  /\ req' = [req EXCEPT ![c].mood = "sent"]
  /\ sent' = IF req[c].routed THEN sent + 1 ELSE sent
  /\ UNCHANGED <<counters, arrived, ran, limiter>>

Forget(c) ==
  /\ req[c].mood = "sent"
  /\ req' = [req EXCEPT ![c] = Quiet(@.from)]
  /\ UNCHANGED <<counters, arrived, ran, sent, limiter>>

------------------------------------------------------------------------------
Tick == Limit!Tick /\ UNCHANGED stack

\* A new process: the counters, the buckets and the requests are gone.
Restart ==
  /\ Limit!Restart
  /\ req' = [c \in Client |-> Quiet(req[c].from)]
  /\ counters' = Zero
  /\ ran' = [a \in Address |-> 0]
  /\ sent' = 0
  /\ UNCHANGED arrived

Handle(c) ==
  \/ PassDown(c) \/ Cors(c) \/ Size(c) \/ RateLimit(c) \/ Route(c)
  \/ PassUp(c) \/ AddSecurityHeaders(c) \/ AddRequestId(c) \/ Count(c)
  \/ PassException(c) \/ unhandled_exception_handler(c) \/ Send(c)

Next ==
  \/ \E c \in Client : Arrive(c) \/ Handle(c) \/ Forget(c)
  \/ Tick
  \/ Restart

Spec == Init /\ [][Next]_vars

------------------------------------------------------------------------------
(* Properties.                                                             *)

TypeOK ==
  /\ req \in [Client -> Request]
  /\ counters \in Counters
  /\ arrived \in 0..Requests
  /\ ran \in [Address -> Nat]
  /\ sent \in Nat
  /\ Limit!TypeOK

Below(layer) ==
  {c \in Client : /\ req[c].mood = "down"
                  /\ \E i \in 1..(req[c].depth - 1) : Layers[i] = layer}

\* The budget of an address pays for login attempts that a route runs, and
\* for nothing else: not for a preflight nor for a body that is refused for
\* its size, whatever order requests of several connections interleave in.
BudgetIsForLogins ==
  \A a \in Address :
    Len(log[a]) =
      ran[a] + Cardinality({c \in Below("limit") : /\ req[c].kind = "login"
                                                   /\ req[c].from = a})

\* requests_total is the number of answers that routes returned: those sent
\* and those on their way; an error is counted at most once, as 4xx or 5xx.
CountersAddUp ==
  /\ counters.requests_total =
       sent + Cardinality({c \in Client :
                /\ req[c].mood = "up" /\ req[c].routed
                /\ \A i \in 1..req[c].depth : Layers[i] # "metrics"})
  /\ counters.errors_4xx + counters.errors_5xx <= counters.requests_total

\* Every answer but those of the catch-all handler has the security headers,
\* also when a layer answers in place of the route; the answers of routes, and
\* only those, have an X-Request-ID.
HandledAnswersAreMarked ==
  \A c \in Client : req[c].mood = "sent" =>
    /\ "request_id" \in req[c].headers <=> req[c].routed
    /\ "security" \in req[c].headers \/ (req[c].code = 500 /\ ~req[c].routed)
==============================================================================
