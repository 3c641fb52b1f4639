------------------------------ MODULE AutoLogin ------------------------------
(***************************************************************************)
(* The auto-login of the paper stack: AutoLoginTrigger.maybe_trigger with  *)
(* its AutoLoginThrottle and the docker runner, called by the keep-alive   *)
(* tick, by the tick of a seed handler and by POST /admin/auto-login/      *)
(* trigger, which may overlap while a sidecar runs.  Time advances in      *)
(* units; instead of its date an attempt carries its age.                  *)
(***************************************************************************)
EXTENDS Integers, Sequences, FiniteSets

CONSTANTS
    Callers,       \* tasks that may be inside maybe_trigger at once
    min_interval,  \* (5 min)
    max_per_hour,  \* (3)
    max_per_day,   \* (5)
    backoff,       \* backoff_levels (5, 15 and 45 min)
    Hour, Day,     \* their lengths in units
    timeout_s      \* after which the runner kills the sidecar (2 min)

ASSUME LoginAssumption ==
    /\ min_interval \in Nat /\ timeout_s \in Nat /\ timeout_s < min_interval
    /\ max_per_hour \in Nat \ {0} /\ max_per_day \in Nat \ {0}
    /\ backoff \in Seq(Nat) /\ Len(backoff) > 0
    /\ \A i \in 1..Len(backoff) : backoff[i] >= min_interval
    /\ Hour \in Nat /\ Day \in Nat
    /\ min_interval <= Hour /\ Hour <= Day

VARIABLES
    attempts,   \* _attempts: how long ago each began, how it ended
    pending,    \* _pending_attempt_index counted from 1, or 0 for None
    streak,     \* _consecutive_failures, counted up to the last level
    manual,     \* _manual_intervention_required
    shown,      \* _auto_login_throttle_state of the health endpoint
    calls,      \* what each caller does: idle, its sidecar runs, or asks again
    launches    \* history: the sidecars started within a day: age, caller, outcome

loginVars == <<attempts, pending, streak, manual, shown, calls, launches>>

Outcomes == {"open", "success", "failure"}
Forever  == Day + 1          \* ages are told apart up to here

-----------------------------------------------------------------------------
\* _purge drops from the front what is older than a day, up to the first attempt that is
\* not; the pending index moves along.
Expired(as) == CHOOSE n \in 0..Len(as) :
                    /\ \A i \in 1..n : as[i].age > Day
                    /\ n < Len(as) => as[n + 1].age <= Day
Purged(as) == SubSeq(as, Expired(as) + 1, Len(as))
PurgedIndex(as, i) == IF i > Expired(as) THEN i - Expired(as) ELSE 0

LastHour(as) == {i \in DOMAIN as : as[i].age < Hour}

\* _current_cooldown after the attempt a.
Cooldown(a, fails) ==
    IF a.outcome # "failure" THEN min_interval
    ELSE backoff[IF fails = 0 THEN 1 ELSE fails]

\* Faulty variant: the day's limit is not looked at.
StateWithoutDay(as, fails) ==
    IF Cardinality(LastHour(as)) >= max_per_hour THEN "hourly_limit_reached"
    ELSE IF as # <<>> /\ as[Len(as)].age < Cooldown(as[Len(as)], fails)
         THEN "cooldown"
    ELSE "ready"

\* state(), and the reason of attempt(), for what is left after _purge.
ThrottleState(as, fails) ==
    IF Len(as) >= max_per_day THEN "daily_limit_reached"
    ELSE IF Cardinality(LastHour(as)) >= max_per_hour THEN "hourly_limit_reached"
    ELSE IF as # <<>> /\ as[Len(as)].age < Cooldown(as[Len(as)], fails)
         THEN "cooldown"
    ELSE "ready"

ShownStates == {"ready", "running", "cooldown", "hourly_limit_reached",
                "daily_limit_reached", "2fa_required_manual_intervention"}

-----------------------------------------------------------------------------
\* The statuses the trigger runs on; the others are skipped before the throttle.
LostStatuses  == {"auth_lost", "cp_down"}
AuthStatuses  == LostStatuses \cup {"ok", "reauth_pending"}

\* Where a caller goes whose trigger declined or ended: an unauthorized tick that was
\* told so by _handle_auth_loss asks once more.
AfterCall(c) == IF calls[c] \in {"asking_twice", "running_then_again"}
                THEN "asking" ELSE "idle"

\* A tick of a lost session or an operator calls; a tick answered by 401 calls twice.
LoginCalled(c) ==
    /\ calls[c] = "idle"
    /\ calls' \in {[calls EXCEPT ![c] = "asking"],
                   [calls EXCEPT ![c] = "asking_twice"]}
    /\ UNCHANGED <<attempts, pending, streak, manual, shown, launches>>

Asking(c) == calls[c] \in {"asking", "asking_twice"}

\* maybe_trigger declines before it asks the throttle.
Skipped(c, status) ==
    /\ Asking(c)
    /\ manual \/ status \notin LostStatuses
    /\ calls' = [calls EXCEPT ![c] = AfterCall(c)]
    /\ UNCHANGED <<attempts, pending, streak, manual, shown, launches>>

\* attempt() declines.
Declined(c, status) ==
    /\ Asking(c) /\ ~manual /\ status \in LostStatuses
    /\ ThrottleState(Purged(attempts), streak) # "ready"
    /\ attempts' = Purged(attempts)
    /\ pending' = PurgedIndex(attempts, pending)
    /\ calls' = [calls EXCEPT ![c] = AfterCall(c)]
    /\ UNCHANGED <<streak, manual, shown, launches>>

\* attempt() grants the slot, and the sidecar starts.
Launched(c, status) ==
    /\ Asking(c) /\ ~manual /\ status \in LostStatuses
    /\ ThrottleState(Purged(attempts), streak) = "ready"
    /\ attempts' = Append(Purged(attempts), [age |-> 0, outcome |-> "open"])
    /\ pending' = Len(attempts')
    /\ shown' = "running"
    /\ calls' = [calls EXCEPT ![c] = IF @ = "asking_twice" THEN "running_then_again"
                                     ELSE "running"]
    /\ launches' = Append(launches, [age |-> 0, by |-> c, outcome |-> "open"])
    /\ UNCHANGED <<streak, manual>>

Running(c) == calls[c] \in {"running", "running_then_again"}

\* _close_pending
Closed(result) == IF pending \in DOMAIN attempts
                  THEN [attempts EXCEPT ![pending].outcome = result]
                  ELSE attempts

CountStreak(n) == IF n < Len(backoff) THEN n + 1 ELSE n

\* History: the run of c is over.
Ended(c, result) ==
    [i \in DOMAIN launches |->
        IF launches[i].by = c /\ launches[i].outcome = "open"
        THEN [launches[i] EXCEPT !.outcome = result] ELSE launches[i]]

\* Exit code 0: record_success.
SidecarSucceeds(c) ==
    /\ Running(c)
    /\ attempts' = Purged(Closed("success"))
    /\ streak' = IF pending \in DOMAIN attempts THEN 0 ELSE streak
    /\ pending' = 0
    /\ shown' = ThrottleState(attempts', streak')
    /\ calls' = [calls EXCEPT ![c] = AfterCall(c)]
    /\ launches' = Ended(c, "success")
    /\ UNCHANGED manual

\* Any other exit code, no docker, the timeout's kill, or a crash: record_failure.
SidecarFails(c) ==
    /\ Running(c)
    /\ attempts' = Purged(Closed("failure"))
    /\ streak' = IF pending \in DOMAIN attempts THEN CountStreak(streak) ELSE streak
    /\ pending' = 0
    /\ shown' = ThrottleState(attempts', streak')
    /\ calls' = [calls EXCEPT ![c] = AfterCall(c)]
    /\ launches' = Ended(c, "failure")
    /\ UNCHANGED manual

\* Exit code 4: a failure, and nothing is started any more until a restart.
SidecarMeetsTwoFactor(c) ==
    /\ Running(c)
    /\ manual' = TRUE
    /\ attempts' = Closed("failure")
    /\ streak' = IF pending \in DOMAIN attempts THEN CountStreak(streak) ELSE streak
    /\ pending' = 0
    /\ shown' = "2fa_required_manual_intervention"
    /\ calls' = [calls EXCEPT ![c] = AfterCall(c)]
    /\ launches' = Ended(c, "failure")

-----------------------------------------------------------------------------
Older(as) == [i \in DOMAIN as |->
                [as[i] EXCEPT !.age = IF @ < Forever THEN @ + 1 ELSE @]]

\* A unit passes.  A call does not wait, and wait_for kills a sidecar in time.
TimePasses ==
    /\ \A c \in Callers : ~Asking(c)
    /\ \A i \in DOMAIN launches :
          launches[i].outcome = "open" => launches[i].age < timeout_s
    /\ attempts' = Older(attempts)
    /\ launches' = Purged(Older(launches))
    /\ UNCHANGED <<pending, streak, manual, shown, calls>>

LoginInit ==
    /\ attempts = <<>> /\ pending = 0 /\ streak = 0
    /\ manual = FALSE /\ shown = "ready"
    /\ calls = [c \in Callers |-> "idle"]
    /\ launches = <<>>

LoginStep(c) ==
    \/ LoginCalled(c)
    \/ \E s \in AuthStatuses : Skipped(c, s) \/ Declined(c, s) \/ Launched(c, s)
    \/ SidecarSucceeds(c) \/ SidecarFails(c) \/ SidecarMeetsTwoFactor(c)

LoginNext == TimePasses \/ \E c \in Callers : LoginStep(c)

LoginSpec == LoginInit /\ [][LoginNext]_loginVars

-----------------------------------------------------------------------------
LoginTypeOK ==
    /\ attempts \in Seq([age : 0..Forever, outcome : Outcomes])
    /\ pending \in 0..Len(attempts) /\ streak \in 0..Len(backoff)
    /\ manual \in BOOLEAN /\ shown \in ShownStates
    /\ calls \in [Callers -> {"idle", "asking", "asking_twice", "running",
                              "running_then_again"}]
    /\ launches \in Seq([age : 0..Forever, by : Callers, outcome : Outcomes])

\* Two sidecars never run at once, though nothing but the cooldown of an open attempt
\* keeps a second caller out while the first one waits for its sidecar; the health
\* endpoint shows "running" exactly while one does.
OneSidecarAtATime ==
    /\ \A c, d \in Callers : Running(c) /\ Running(d) => c = d
    /\ shown = "running" <=> \E c \in Callers : Running(c)

\* The failures since the last success, among the launches of the last day.
FailuresInARow ==
    Cardinality({i \in DOMAIN launches :
        \A j \in i..Len(launches) : launches[j].outcome = "failure"})

\* The second call of one tick never starts a second sidecar: the cooldown of the run
\* that has just ended declines it.
OneLaunchPerTick ==
    [][\A c \in Callers : calls[c] = "running_then_again" /\ calls'[c] = "asking"
        => ThrottleState(attempts', streak') # "ready" \/ manual']_loginVars

\* What protects the account from IBKR's lockout: one sidecar at a time; of all sidecars
\* really started, no more than the limits in any hour and any day; none once 2FA was
\* seen; and none sooner than the level of the failures in a row asks for.
LockoutBudget ==
    /\ []OneSidecarAtATime /\ OneLaunchPerTick
    /\ [][Len(launches') > Len(launches) =>
            /\ ~manual
            /\ Cardinality({i \in DOMAIN launches : launches[i].age <= Day}) < max_per_day
            /\ Cardinality(LastHour(launches)) < max_per_hour
            /\ launches # <<>> =>
                 launches[Len(launches)].age >=
                     LET n == FailuresInARow
                     IN IF n = 0 THEN min_interval
                        ELSE backoff[IF n < Len(backoff) THEN n ELSE Len(backoff)]
       ]_loginVars
=============================================================================
