---------------------------- MODULE RateLimiter ----------------------------
(***************************************************************************)
(* RateLimitMiddleware (middleware/rate_limit.py) in front of POST         *)
(* /auth/login.  dispatch() reads the clock, trims the bucket of the       *)
(* caller's address and decides without an await in between, so one        *)
(* attempt is one action.  Requests to other paths, or with another        *)
(* method, pass and change nothing.                                        *)
(***************************************************************************)
EXTENDS Naturals, Sequences

CONSTANTS
  Address,   \* what _client_ip returns: X-Forwarded-For, or the peer
  Max,       \* max_requests
  Window,    \* window_seconds
  Second,    \* ticks of the clock in a second
  Horizon,   \* bound: the clock stops here
  Never      \* no refusal to remember

ASSUME LimitAssumption ==
  /\ Max \in Nat \ {0} /\ Window \in Nat /\ Second \in Nat \ {0}
  /\ Horizon \in Nat
  /\ Never \notin [at : Nat, until : Nat]

VARIABLES
  now,      \* time.monotonic()
  buckets,  \* buckets[a]: the timestamps kept for a, oldest first
  log,      \* history: every admission of a since the process started
  refused   \* history: the last attempt of a, if it was refused

vars == <<now, buckets, log, refused>>

Width == Window * Second

Init ==
  /\ now = 0
  /\ buckets = [a \in Address |-> <<>>]
  /\ log = [a \in Address |-> <<>>]
  /\ refused = [a \in Address |-> Never]

\* Mutant: a timestamp exactly at the cutoff is dropped as well.
OutdatedInclusive(b, k) ==
  /\ \A i \in 1..k : b[i] + Width <= now
  /\ k < Len(b) => now < b[k + 1] + Width

\* The loop drops the first k timestamps of b: those before the cutoff.
Outdated(b, k) ==
  /\ \A i \in 1..k : b[i] + Width < now
  /\ k < Len(b) => now <= b[k + 1] + Width

Kept(b, k) == SubSeq(b, k + 1, Len(b))

\* Mutant: the comparison with max_requests lets one more in.
AdmitOneMore(a) ==
  LET b == buckets[a] IN
  /\ \E k \in 0..Len(b) :
       /\ Outdated(b, k)
       /\ Len(b) - k <= Max
       /\ buckets' = [buckets EXCEPT ![a] = Append(Kept(b, k), now)]
  /\ log' = [log EXCEPT ![a] = Append(@, now)]
  /\ refused' = [refused EXCEPT ![a] = Never]
  /\ UNCHANGED now

Admit(a) ==
  LET b == buckets[a] IN
  /\ \E k \in 0..Len(b) :
       /\ Outdated(b, k)
       /\ Len(b) - k < Max
       /\ buckets' = [buckets EXCEPT ![a] = Append(Kept(b, k), now)]
  /\ log' = [log EXCEPT ![a] = Append(@, now)]
  /\ refused' = [refused EXCEPT ![a] = Never]
  /\ UNCHANGED now

\* Mutant: the seconds are rounded down.
FlooredRetryAfter(age) == (Width - age) \div Second

\* The Retry-After header, in seconds, when the oldest timestamp is age old.
RetryAfter(age) == (Width - age) \div Second + 1

\* Mutant: an attempt that is refused is remembered too.
RefuseAndCount(a) ==
  LET b == buckets[a] IN
  /\ \E k \in 0..Len(b) :
       /\ Outdated(b, k)
       /\ Max <= Len(b) - k
       /\ buckets' = [buckets EXCEPT ![a] = Tail(Append(Kept(b, k), now))]
       /\ refused' = [refused EXCEPT ![a] =
                        [at |-> now,
                         until |-> now + Second * RetryAfter(now - b[k + 1])]]
  /\ UNCHANGED <<now, log>>

Refuse(a) ==
  LET b == buckets[a] IN
  /\ \E k \in 0..Len(b) :
       /\ Outdated(b, k)
       /\ Max <= Len(b) - k
       /\ buckets' = [buckets EXCEPT ![a] = Kept(b, k)]
       /\ refused' = [refused EXCEPT ![a] =
                        [at |-> now,
                         until |-> now + Second * RetryAfter(now - b[k + 1])]]
  /\ UNCHANGED <<now, log>>

Tick ==
  /\ now < Horizon
  /\ now' = now + 1
  /\ UNCHANGED <<buckets, log, refused>>

\* A new process, or reset_for_testing: the buckets are gone.
Restart ==
  /\ buckets' = [a \in Address |-> <<>>]
  /\ log' = [a \in Address |-> <<>>]
  /\ refused' = [a \in Address |-> Never]
  /\ UNCHANGED now

Next ==
  \/ \E a \in Address : Admit(a) \/ Refuse(a)
  \/ Tick
  \/ Restart

Spec == Init /\ [][Next]_vars

------------------------------------------------------------------------------
(* Properties.                                                             *)

Refusal == [at : Nat, until : Nat]

TypeOK ==
  /\ now \in Nat
  /\ buckets \in [Address -> Seq(Nat)]
  /\ \A a \in Address : Len(buckets[a]) <= Max
  /\ log \in [Address -> Seq(Nat)]
  /\ refused \in [Address -> Refusal \cup {Never}]

\* "Block requests to path that exceed max_requests within window_seconds": of
\* any Max + 1 consecutive admissions of an address the last comes more than a
\* whole window after the first, wherever the window is laid.
LimitHolds ==
  \A a \in Address : \A i, j \in DOMAIN log[a] :
    j = i + Max => log[a][i] + Width < log[a][j]

Open(a) ==
  \E k \in 0..Len(buckets[a]) :
    Outdated(buckets[a], k) /\ Len(buckets[a]) - k < Max

\* Retry-After is right to the second: an address that was refused, and has
\* had nothing admitted since, is let in from the announced moment on, and is
\* still refused a second before it.
RetryAfterExact ==
  \A a \in Address : refused[a] # Never =>
    /\ refused[a].until <= now => Open(a)
    /\ now + Second <= refused[a].until => ~Open(a)

\* The buckets implement the sliding window: they never forget an admission
\* that still counts, nor count one that does not, nor one of another address.
W == INSTANCE SlidingWindow WITH
  answer <- [a \in Address |-> IF refused[a] # Never THEN "refused"
                               ELSE IF log[a] = <<>> THEN "none"
                               ELSE "admitted"]

ImplementsWindow == W!WindowSpec
==============================================================================
