---------------------------- MODULE LoginLimiter ----------------------------
(***************************************************************************)
(* The limiter of password guesses (auth.py): a backoff for each client    *)
(* address and one ceiling for all of them.  login and change              *)
(* (auth_router.py) count an attempt as a failure before the slow check of *)
(* the password, and take it back if the password was right.               *)
(*                                                                         *)
(* Both tables are read and written under one advisory lock, so a step of  *)
(* the limiter is atomic, but an attempt reads its clock before it waits   *)
(* for the lock.                                                           *)
(***************************************************************************)
EXTENDS Integers, FiniteSets

CONSTANTS
  Client,       \* client addresses
  Attempt,      \* concurrent requests that check a password
  BackoffAfter, \* _BACKOFF_AFTER: free failures of an address
  BackoffMax,   \* _BACKOFF_MAX: the longest wait
  GlobalLimit,  \* GLOBAL_LIMIT: failures of all addresses
  GlobalWindow, \* GLOBAL_WINDOW: seconds they count
  EntryTtl,     \* ENTRY_TTL: seconds an address is remembered
  MaxTracked,   \* MAX_TRACKED: addresses remembered
  Patience,     \* seconds an attempt waits for a connection (db_pool_timeout) and the lock
  MaxSecond,    \* bound: time
  MaxTries      \* bound: attempts

ASSUME LimiterAssumption ==
  /\ {BackoffAfter, BackoffMax, GlobalLimit, GlobalWindow, EntryTtl, MaxTracked} \subseteq Nat \ {0}
  /\ {Patience, MaxSecond, MaxTries} \subseteq Nat
  /\ Client # {} /\ IsFiniteSet(Client) /\ IsFiniteSet(Attempt)

VARIABLES
  second,    \* the clock
  failures,  \* login_failures: of each address [count, last, seq], count 0 for no row
  window,    \* login_failure_window: how many rows carry each second
  attempt,   \* each request: its stage, address and stamp
  tried,     \* attempts so far
  guesses    \* history: attempts let through in each second and not taken back

limiterVars == <<second, failures, window, attempt, tried, guesses>>

Second == 0..MaxSecond
NoFailure == [count |-> 0, last |-> 0, seq |-> 0]
Resting == [stage |-> "none", ip |-> CHOOSE i \in Client : TRUE, stamp |-> 0, since |-> 0]

LimiterTypeOK ==
  /\ second \in Second
  /\ failures \in [Client -> [count : Nat, last : Second, seq : Nat]]
  /\ window \in [Second -> Nat] /\ guesses \in [Second -> Nat]
  /\ attempt \in [Attempt -> [stage : {"none", "arrived", "checking"}, ip : Client,
                           stamp : Second, since : Second]]
  /\ tried \in 0..MaxTries
  /\ Cardinality({i \in Client : failures[i].count > 0}) <= MaxTracked

LimiterInit ==
  /\ second = 0 /\ tried = 0
  /\ failures = [i \in Client |-> NoFailure]
  /\ window = [t \in Second |-> 0] /\ guesses = [t \in Second |-> 0]
  /\ attempt = [a \in Attempt |-> Resting]

-----------------------------------------------------------------------------

SumOver(f, ts) ==
  LET sum[t \in 0..(MaxSecond + 1)] ==
        IF t = 0 THEN 0 ELSE sum[t - 1] + (IF t - 1 \in ts THEN f[t - 1] ELSE 0)
  IN  sum[MaxSecond + 1]

\* _sweep: what is too old at that moment is forgotten, and of the window all but the
\* newest GlobalLimit rows.
SweptFailures(f, at) ==
  [i \in Client |-> IF f[i].count > 0 /\ at - f[i].last > EntryTtl THEN NoFailure ELSE f[i]]
SweptWindow(w, at) ==
  LET recent == [t \in Second |-> IF at - t >= GlobalWindow THEN 0 ELSE w[t]]
      newer(t) == SumOver(recent, {u \in Second : u > t})
  IN  [t \in Second |->
         IF newer(t) + recent[t] <= GlobalLimit THEN recent[t]
         ELSE IF newer(t) >= GlobalLimit THEN 0 ELSE GlobalLimit - newer(t)]

Lesser(m, n) == IF m < n THEN m ELSE n

\* _ip_wait, _global_wait, _wait: may the attempt go on?
Blocked(f, w, i, at) ==
  \/ /\ f[i].count >= BackoffAfter
     /\ f[i].last + Lesser(2 ^ Lesser(f[i].count - BackoffAfter, 10), BackoffMax) > at
  \/ /\ SumOver(w, Second) >= GlobalLimit
     /\ \A t \in Second : w[t] > 0 => t + GlobalWindow > at

\* The address whose last failure is the oldest goes when there are too many.
Evicted(f) ==
  LET known == {i \in Client : f[i].count > 0}
      after(i) == {j \in known : f[j].last > f[i].last \/ (f[j].last = f[i].last /\ f[j].seq > f[i].seq)}
  IN  [i \in Client |-> IF i \in known /\ Cardinality(after(i)) >= MaxTracked THEN NoFailure ELSE f[i]]

Newest(f) == CHOOSE n \in {f[i].seq : i \in Client} : \A i \in Client : f[i].seq <= n

\* _count_failure
CountFailure(f, w, i, at) ==
  /\ window' = SweptWindow([w EXCEPT ![at] = @ + 1], at)
  /\ failures' = Evicted(SweptFailures(
       [f EXCEPT ![i] = [count |-> @.count + 1, last |-> at, seq |-> Newest(f) + 1]], at))

-----------------------------------------------------------------------------

\* login, change: a request with a password reads the clock and asks for the lock.
Arrive(a, i) ==
  /\ attempt[a].stage = "none" /\ tried < MaxTries
  /\ tried' = tried + 1
  /\ attempt' = [attempt EXCEPT ![a] = [stage |-> "arrived", ip |-> i, stamp |-> second, since |-> 0]]
  /\ UNCHANGED <<second, failures, window, guesses>>

\* (mutant) looked at, but counted only when the password has turned out wrong
Peek(a) ==
  /\ attempt[a].stage = "arrived" /\ second - attempt[a].stamp <= Patience
  /\ LET i == attempt[a].ip  at == attempt[a].stamp
         f == SweptFailures(failures, at)  w == SweptWindow(window, at)
     IN  /\ failures' = f /\ window' = w
         /\ IF Blocked(f, w, i, at)
            THEN attempt' = [attempt EXCEPT ![a] = Resting] /\ UNCHANGED guesses
            ELSE /\ attempt' = [attempt EXCEPT ![a].stage = "checking", ![a].since = second]
                 /\ guesses' = [guesses EXCEPT ![second] = @ + 1]
  /\ UNCHANGED <<second, tried>>

\* begin_attempt: refused, or counted as a failure at once.
BeginAttempt(a) ==
  /\ attempt[a].stage = "arrived" /\ second - attempt[a].stamp <= Patience
  /\ LET i == attempt[a].ip  at == attempt[a].stamp
         f == SweptFailures(failures, at)  w == SweptWindow(window, at)
     IN  IF Blocked(f, w, i, at)
         THEN /\ failures' = f /\ window' = w
              /\ attempt' = [attempt EXCEPT ![a] = Resting]
              /\ UNCHANGED guesses
         ELSE /\ CountFailure(f, w, i, at)
              /\ attempt' = [attempt EXCEPT ![a].stage = "checking", ![a].since = second]
              /\ guesses' = [guesses EXCEPT ![second] = @ + 1]
  /\ UNCHANGED <<second, tried>>

\* No connection, or not the lock, in time: the request fails before any check.
GiveUp(a) ==
  /\ attempt[a].stage = "arrived" /\ second - attempt[a].stamp > Patience
  /\ attempt' = [attempt EXCEPT ![a] = Resting]
  /\ UNCHANGED <<second, failures, window, tried, guesses>>

\* finish_attempt of the right password: the address is forgotten, one row of its moment
\* is taken out of the window.
Forgive(a) ==
  /\ attempt[a].stage = "checking"
  /\ LET at == attempt[a].stamp
     IN  /\ failures' = [failures EXCEPT ![attempt[a].ip] = NoFailure]
         /\ window' = [window EXCEPT ![at] = IF @ > 0 THEN @ - 1 ELSE 0]
         /\ guesses' = [guesses EXCEPT ![attempt[a].since] = @ - 1]
  /\ attempt' = [attempt EXCEPT ![a] = Resting]
  /\ UNCHANGED <<second, tried>>

\* A wrong password, or the worker dies: login_blocked sweeps and says how long to wait.
GuessFails(a, answered) ==
  /\ attempt[a].stage = "checking"
  /\ attempt' = [attempt EXCEPT ![a] = Resting]
  /\ IF answered
     THEN failures' = SweptFailures(failures, second) /\ window' = SweptWindow(window, second)
     ELSE UNCHANGED <<failures, window>>
  /\ UNCHANGED <<second, tried, guesses>>

SecondPasses ==
  /\ second < MaxSecond /\ second' = second + 1
  /\ UNCHANGED <<failures, window, attempt, tried, guesses>>

LimiterNext ==
  \/ \E a \in Attempt :
       \/ BeginAttempt(a) \/ GiveUp(a) \/ Forgive(a)
       \/ \E i \in Client : Arrive(a, i)
       \/ \E answered \in BOOLEAN : GuessFails(a, answered)
  \/ SecondPasses

LimiterSpec == LimiterInit /\ [][LimiterNext]_limiterVars

-----------------------------------------------------------------------------
(* What must hold *)

\* However many addresses guess, and however their attempts overlap, at most GlobalLimit
\* attempts that were not a right password are let through in any GlobalWindow seconds,
\* less the time an attempt may wait after reading its clock; those whose check is still
\* running count (auth.py:371-375, 470-475).
GuessesBounded ==
  \A t \in Second :
    SumOver(guesses, {u \in Second : u > t - (GlobalWindow - Patience) /\ u <= t}) <= GlobalLimit

-----------------------------------------------------------------------------
(* The inductive invariant behind GuessesBounded *)

\* An attempt is let through within Patience seconds of its stamp.
Checking == {a \in Attempt : attempt[a].stage = "checking"}
Stamped ==
  /\ \A a \in Attempt : attempt[a].stamp <= second
  /\ \A a \in Checking : /\ attempt[a].stamp <= attempt[a].since
                         /\ attempt[a].since <= second
                         /\ attempt[a].since - attempt[a].stamp <= Patience

\* An attempt whose check is running has not been taken back.
Outstanding ==
  \A s \in Second : Cardinality({a \in Checking : attempt[a].since = s}) <= guesses[s]

\* Whatever was let through Patience after a moment x, or is still being checked and was
\* stamped since x, has a row of x or later, while such rows are still counted.
Early(x) == {a \in Checking : attempt[a].stamp >= x /\ attempt[a].since < x + Patience}
Counted ==
  \A x \in (second - GlobalWindow + 1)..MaxSecond :
    SumOver(guesses, {s \in Second : s >= x + Patience}) + Cardinality(Early(x))
      <= SumOver(window, {s \in Second : s >= x})

\* The window never outgrows the ceiling, and no two addresses have the same number.
WindowBounded == SumOver(window, Second) <= GlobalLimit
Numbered ==
  \A i, j \in Client : failures[i].count > 0 /\ failures[j].count > 0 /\ i # j =>
     failures[i].seq # failures[j].seq

LimiterInv ==
  LimiterTypeOK /\ Stamped /\ Outstanding /\ Counted /\ GuessesBounded /\ WindowBounded /\ Numbered

=============================================================================
