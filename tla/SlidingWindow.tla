---------------------------- MODULE SlidingWindow ----------------------------
(***************************************************************************)
(* What the login limiter promises, without buckets: an attempt of an      *)
(* address is admitted exactly when fewer than Max attempts of the same    *)
(* address were admitted in the last Width ticks (the oldest instant       *)
(* included), by this process.                                             *)
(***************************************************************************)
EXTENDS Naturals, Sequences

CONSTANTS Address, Max, Width

VARIABLES
  now,     \* the clock
  log,     \* log[a]: when the attempts of a were admitted
  answer   \* answer[a]: the verdict on the last attempt of a

windowVars == <<now, log, answer>>

WindowInit ==
  /\ now = 0
  /\ log = [a \in Address |-> <<>>]
  /\ answer = [a \in Address |-> "none"]

\* The Max-th last admission, if there is one, has left the window.
Room(a) ==
  \/ Len(log[a]) < Max
  \/ log[a][Len(log[a]) - Max + 1] + Width < now

AdmitAttempt(a) ==
  /\ Room(a)
  /\ log' = [log EXCEPT ![a] = Append(@, now)]
  /\ answer' = [answer EXCEPT ![a] = "admitted"]
  /\ UNCHANGED now

RefuseAttempt(a) ==
  /\ ~Room(a)
  /\ answer' = [answer EXCEPT ![a] = "refused"]
  /\ UNCHANGED <<now, log>>

Pass ==
  /\ now' = now + 1
  /\ UNCHANGED <<log, answer>>

\* A new process starts from nothing.
Forget ==
  /\ log' = [a \in Address |-> <<>>]
  /\ answer' = [a \in Address |-> "none"]
  /\ UNCHANGED now

WindowNext ==
  \/ \E a \in Address : AdmitAttempt(a) \/ RefuseAttempt(a)
  \/ Pass
  \/ Forget

WindowSpec == WindowInit /\ [][WindowNext]_windowVars
==============================================================================
