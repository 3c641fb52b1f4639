--------------------------- MODULE RequestThrottle ---------------------------
(***************************************************************************)
(* Every call of the CP client: _before takes a token of the bucket of the *)
(* path's class, the request is sent, _after tells the bucket whether the  *)
(* gateway answered 429.  Time is counted in ticks; a token is worth       *)
(* Period ticks, and a bucket keeps its tokens as ticks of credit.         *)
(***************************************************************************)
EXTENDS Integers, Sequences

CONSTANTS
    Clients,      \* concurrent callers of the CP client
    Paths,        \* what they call, of DOMAIN ClassOf
    Period,       \* ticks per token: 1 / rate_per_s
    Burst,        \* capacity in tokens; below one, acquire would never return
    MinBackoff, MaxBackoff,   \* _MIN_BACKOFF_S, max_backoff_s in ticks
    MaxClock      \* bound on the ticks of a behaviour

ASSUME ThrottleAssumption ==
    /\ Period \in Nat \ {0} /\ Burst \in Nat \ {0} /\ Paths # {}
    /\ MinBackoff \in Nat \ {0} /\ MaxBackoff \in Nat /\ MaxClock \in Nat

VARIABLES
    clock,        \* now
    credit,       \* _tokens * Period, per class
    refilled,     \* _last_refill_t, per class
    backoff,      \* _extra_wait_s, per class
    successes,    \* _consecutive_successes up to five, per class
    call,         \* per client: what its call waits for, on which path, until when
    grants        \* history: when tokens were taken, per class

throttleVars == <<clock, credit, refilled, backoff, successes, call, grants>>

\* classify_path: the parts of the API behind the patterns; all else is "instruments".
ClassOf ==
    [tickle |-> "auth_lifecycle", reauthenticate |-> "auth_lifecycle",
     auth_status |-> "auth_lifecycle", secdef |-> "instruments",
     snapshot |-> "quotes_snapshot", unsubscribe |-> "quotes_stream",
     summary |-> "portfolio", positions |-> "portfolio", ledger |-> "portfolio",
     account_orders |-> "orders", order |-> "orders", reply |-> "orders",
     trades |-> "trades", ws |-> "events", sso_validate |-> "instruments",
     accounts |-> "instruments", live_orders |-> "instruments"]

Classes == {ClassOf[p] : p \in Paths}
Capacity == Burst * Period
NoCall == [stage |-> "none", path |-> CHOOSE p \in Paths : TRUE, wake |-> 0]

Least(a, b) == IF a < b THEN a ELSE b

-----------------------------------------------------------------------------
\* Call a path: a backoff is slept by the first call that finds it, and is gone with that.
StartCall(c, p) ==
    /\ call[c].stage = "none"
    /\ call' = [call EXCEPT ![c] =
                  [stage |-> "acquiring", path |-> p, wake |-> clock + backoff[ClassOf[p]]]]
    /\ backoff' = [backoff EXCEPT ![ClassOf[p]] = 0]
    /\ UNCHANGED <<clock, credit, refilled, successes, grants>>

\* The credit of a class, refilled up to now.
Refilled(k) == Least(Capacity, credit[k] + (clock - refilled[k]))

\* Faulty variant: the time of the refill is only kept when a token was taken.
AcquireForgettingRefill(c) ==
    LET k == ClassOf[call[c].path]
        have == Refilled(k)
    IN /\ call[c].stage = "acquiring" /\ call[c].wake <= clock
       /\ IF have >= Period
          THEN /\ credit' = [credit EXCEPT ![k] = have - Period]
               /\ refilled' = [refilled EXCEPT ![k] = clock]
               /\ grants' = [grants EXCEPT ![k] = Append(@, clock)]
               /\ call' = [call EXCEPT ![c].stage = "sent", ![c].wake = 0]
          ELSE /\ credit' = [credit EXCEPT ![k] = have]
               /\ call' = [call EXCEPT ![c].wake = clock + (Period - have)]
               /\ UNCHANGED <<refilled, grants>>
       /\ UNCHANGED <<clock, backoff, successes>>

\* acquire, one turn of its loop, not before its sleep is over: take a token or sleep
\* for the deficit, outside the lock, and try again.
Acquire(c) ==
    LET k == ClassOf[call[c].path]
        have == Refilled(k)
    IN /\ call[c].stage = "acquiring" /\ call[c].wake <= clock
       /\ refilled' = [refilled EXCEPT ![k] = clock]
       /\ IF have >= Period
          THEN /\ credit' = [credit EXCEPT ![k] = have - Period]
               /\ grants' = [grants EXCEPT ![k] = Append(@, clock)]
               /\ call' = [call EXCEPT ![c].stage = "sent", ![c].wake = 0]
          ELSE /\ credit' = [credit EXCEPT ![k] = have]
               /\ call' = [call EXCEPT ![c].wake = clock + (Period - have)]
               /\ UNCHANGED grants
       /\ UNCHANGED <<clock, backoff, successes>>

\* register_pacing_violation: the backoff doubles while no call has slept it yet; the
\* jitter may shorten or lengthen it.
TooManyRequests(c) ==
    LET k == ClassOf[call[c].path]
        base == IF 2 * backoff[k] > MinBackoff THEN 2 * backoff[k] ELSE MinBackoff
    IN /\ call[c].stage = "sent"
       /\ \E jitter \in {-(base \div 5), 0, base \div 5} :
            backoff' = [backoff EXCEPT ![k] = Least(MaxBackoff, base + jitter)]
       /\ successes' = [successes EXCEPT ![k] = 0]
       /\ call' = [call EXCEPT ![c] = NoCall]
       /\ UNCHANGED <<clock, credit, refilled, grants>>

\* register_success, for every other answer: the fifth in a row ends the backoff.
Answered(c) ==
    LET k == ClassOf[call[c].path]
        n == Least(5, successes[k] + 1)
    IN /\ call[c].stage = "sent"
       /\ successes' = [successes EXCEPT ![k] = n]
       /\ backoff' = [backoff EXCEPT ![k] = IF n = 5 THEN 0 ELSE @]
       /\ call' = [call EXCEPT ![c] = NoCall]
       /\ UNCHANGED <<clock, credit, refilled, grants>>

\* The transport fails, or the caller is cancelled: the bucket is told nothing.
CallFails(c) ==
    /\ call[c].stage # "none" /\ call' = [call EXCEPT ![c] = NoCall]
    /\ UNCHANGED <<clock, credit, refilled, backoff, successes, grants>>

ClockTicks ==
    /\ clock < MaxClock /\ clock' = clock + 1
    /\ UNCHANGED <<credit, refilled, backoff, successes, call, grants>>

ThrottleInit ==
    /\ clock = 0
    /\ credit = [k \in Classes |-> Capacity]
    /\ refilled = [k \in Classes |-> 0]
    /\ backoff = [k \in Classes |-> 0]
    /\ successes = [k \in Classes |-> 0]
    /\ call = [c \in Clients |-> NoCall]
    /\ grants = [k \in Classes |-> <<>>]

ThrottleNext ==
    \/ \E c \in Clients : \/ \E p \in Paths : StartCall(c, p)
                          \/ Acquire(c) \/ TooManyRequests(c) \/ Answered(c)
                          \/ CallFails(c)
    \/ ClockTicks

ThrottleSpec == ThrottleInit /\ [][ThrottleNext]_throttleVars

-----------------------------------------------------------------------------
ThrottleTypeOK ==
    /\ clock \in 0..MaxClock
    /\ credit \in [Classes -> 0..Capacity]
    /\ refilled \in [Classes -> 0..MaxClock]
    /\ backoff \in [Classes -> 0..MaxBackoff]
    /\ successes \in [Classes -> 0..5]
    /\ call \in [Clients -> [stage : {"none", "acquiring", "sent"}, path : Paths,
                             wake : 0..(MaxClock + MaxBackoff + Period)]]

\* The gateway's limit is kept: however callers wait, wake late, are cancelled or fail,
\* no stretch of time sees more calls of a class than the burst and what was refilled
\* in it; a token is never granted twice and credit never outgrows the capacity.
RateIsKept ==
    \A k \in Classes : \A i, j \in DOMAIN grants[k] :
        i <= j => (j - i + 1) * Period <= Capacity + (grants[k][j] - grants[k][i])
=============================================================================
