------------------------------ MODULE CPSession ------------------------------
(***************************************************************************)
(* The session with the CP gateway: AuthLifecycle's keep-alive loop with   *)
(* its reauth loop and its probe of the iserver bridge, and the seed       *)
(* handlers of POST /internal/seed-cookies, which tick the same object.    *)
(* A task suspends at each await of a gateway call, and while the auto-    *)
(* login sidecar runs; what happens between two awaits is one action.      *)
(* Which of its calls the trigger lets through is the subject of AutoLogin.*)
(***************************************************************************)
EXTENDS Integers

CONSTANTS
    Seeders,             \* handlers of seed-cookies that may run at once
    Loop,                \* the task of start() and _run()
    reauth_max_retries,  \* (3)
    bridge_max_failures  \* (3)

ASSUME SessionAssumption ==
    /\ Loop \notin Seeders
    /\ reauth_max_retries \in Nat \ {0} /\ bridge_max_failures \in Nat \ {0}

VARIABLES
    gateway,         \* what the CP gateway would truthfully answer
    authStatus,      \* _status
    cpReachable,     \* _cp_reachable
    accountsReady,   \* _accounts_initialized
    bridgeOk,        \* _iserver_bridge_ok: "up", "down", or None yet
    bridgeFailures,  \* _consecutive_bridge_failures, counted to the maximum
    probeDue,        \* _should_probe_bridge_now()
    serving,         \* start() has returned and stop() was not called
    at,              \* the await a task is at
    sso,             \* sso_authenticated of a task's tick_once
    attempt          \* attempt of a task's _handle_auth_loss

sessionVars == <<gateway, authStatus, cpReachable, accountsReady, bridgeOk,
                 bridgeFailures, probeDue, serving, at, sso, attempt>>
bridgeVars  == <<bridgeOk, bridgeFailures, probeDue>>

Tasks    == Seeders \cup {Loop}
Unprobed == "none"

\* The gateway is gone, knows no session, has one without the bridge to IBKR, has
\* all, or answers anything.
Gateways == {"down", "out", "cold", "ready", "flaky"}
Statuses == {"ok", "reauth_pending", "auth_lost", "cp_down"}

TickAwaits  == {"validate", "tickle", "accounts", "reauth", "check"}
ProbeAwaits == {"probe", "recover", "recheck"}
Awaits == TickAwaits \cup ProbeAwaits
            \cup {"new", "idle", "init", "sidecar", "dead", "stopped"}

\* is_session_unavailable: require_session_ok answers 503.
SessionUnavailable(s) == s \in {"cp_down", "auth_lost"}

-----------------------------------------------------------------------------
\* What each call may answer.  An unanswered call or an HTTP error is "error".
SsoReplies == [down |-> {FALSE}, out |-> {FALSE}, cold |-> {TRUE},
               ready |-> {TRUE}, flaky |-> BOOLEAN]

TickleReplies ==
    [down |-> {"error"}, out |-> {"401", "logged_out"}, cold |-> {"authenticated"},
     ready |-> {"authenticated"},
     flaky |-> {"error", "401", "logged_out", "authenticated"}]

\* Of auth/status: the trio is true, authenticated alone is, nothing is.
StatusReplies ==
    [down |-> {"error"}, out |-> {"error", "logged_out"}, cold |-> {"logged_out"},
     ready |-> {"trio"}, flaky |-> {"error", "logged_out", "authenticated", "trio"}]

\* Of reauthenticate and iserver/accounts, which answer a call or fail.
CallReplies == [down |-> {"error"}, out |-> {"error", "done"},
                cold |-> {"error", "done"}, ready |-> {"done"},
                flaky |-> {"error", "done"}]

-----------------------------------------------------------------------------
Goto(t, place) == at' = [at EXCEPT ![t] = place]

\* tick_once returns to its caller: the seed handler answers, start() probes,
\* _run probes when that is due; the status s is read again here.
AfterTick(t, s) == IF t = Loop /\ s = "ok" /\ (~serving \/ probeDue)
                   THEN "probe" ELSE "idle"

\* start() has ended as soon as the loop waits for its first interval.
Return(t, place) ==
    /\ Goto(t, place)
    /\ serving' = (serving \/ (t = Loop /\ place = "idle"))

\* _mark_session_ok, then _maybe_init_accounts unless that is done.
SessionOk(t) ==
    /\ authStatus' = "ok"
    /\ IF accountsReady
       THEN Return(t, AfterTick(t, "ok"))
       ELSE Goto(t, "accounts") /\ UNCHANGED serving

\* _maybe_invoke_auto_login with the status s: the sidecar runs, or the trigger
\* declines.  The second call of an unauthorized tick is always declined
\* (AutoLogin!OneLaunchPerTick).
AutoLoginHook(t, s) ==
    \/ Goto(t, "sidecar") /\ UNCHANGED serving
    \/ Return(t, AfterTick(t, s))

\* _handle_auth_loss begins.
AuthLoss(t) ==
    /\ authStatus' = "reauth_pending"
    /\ attempt' = [attempt EXCEPT ![t] = 1]
    /\ Goto(t, "reauth")
    /\ UNCHANGED serving

\* Faulty variant: the loop ends without a verdict.
AttemptFailsSilently(t) ==
    IF attempt[t] < reauth_max_retries
    THEN /\ attempt' = [attempt EXCEPT ![t] = @ + 1]
         /\ Goto(t, "reauth")
         /\ UNCHANGED <<authStatus, serving>>
    ELSE /\ attempt' = [attempt EXCEPT ![t] = 0]
         /\ AutoLoginHook(t, authStatus)
         /\ UNCHANGED authStatus

\* Faulty variant: one attempt too many.
AttemptFailsOnceMore(t) ==
    IF attempt[t] <= reauth_max_retries
    THEN /\ attempt' = [attempt EXCEPT ![t] = @ + 1]
         /\ Goto(t, "reauth")
         /\ UNCHANGED <<authStatus, serving>>
    ELSE /\ attempt' = [attempt EXCEPT ![t] = 0]
         /\ authStatus' = "auth_lost"
         /\ AutoLoginHook(t, "auth_lost")

\* An attempt failed: the next one, or AUTH_LOST.
AttemptFails(t) ==
    IF attempt[t] < reauth_max_retries
    THEN /\ attempt' = [attempt EXCEPT ![t] = @ + 1]
         /\ Goto(t, "reauth")
         /\ UNCHANGED <<authStatus, serving>>
    ELSE /\ attempt' = [attempt EXCEPT ![t] = 0]
         /\ authStatus' = "auth_lost"
         /\ AutoLoginHook(t, "auth_lost")

-----------------------------------------------------------------------------
\* start() and, after each interval, _run call tick_once.
LoopTicks ==
    /\ at[Loop] \in {"new", "idle"}
    /\ Goto(Loop, "validate")
    /\ UNCHANGED <<gateway, authStatus, cpReachable, accountsReady, bridgeVars,
                   serving, sso, attempt>>

\* The probe interval has elapsed since _record_probe_timestamp.
ProbeFallsDue ==
    /\ ~probeDue /\ probeDue' = TRUE
    /\ UNCHANGED <<gateway, authStatus, cpReachable, accountsReady, bridgeOk,
                   bridgeFailures, serving, at, sso, attempt>>

\* seed_cookies puts the browser's cookies into the jar, which may give the gateway
\* a session again, and calls ssodh/init when it is asked to.
SeedCookies(t) ==
    /\ serving /\ at[t] = "idle"
    /\ gateway' \in IF gateway = "out" THEN {"out", "cold", "ready"} ELSE {gateway}
    /\ \E place \in {"init", "validate"} : Goto(t, place)
    /\ UNCHANGED <<authStatus, cpReachable, accountsReady, bridgeVars, serving,
                   sso, attempt>>

\* _maybe_run_ssodh_init: every outcome goes on to the tick.
SsodhInit(t) ==
    /\ at[t] = "init"
    /\ Goto(t, "validate")
    /\ UNCHANGED <<gateway, authStatus, cpReachable, accountsReady, bridgeVars,
                   serving, sso, attempt>>

\* _heartbeat_sso
Validate(t) ==
    /\ at[t] = "validate"
    /\ \E valid \in SsoReplies[gateway] : sso' = [sso EXCEPT ![t] = valid]
    /\ Goto(t, "tickle")
    /\ UNCHANGED <<gateway, authStatus, cpReachable, accountsReady, bridgeVars,
                   serving, attempt>>

\* The tickle's answer, with that of validate in hand.
Tickle(t) ==
    /\ at[t] = "tickle"
    /\ \E reply \in TickleReplies[gateway] :
          /\ cpReachable' = (reply # "error" \/ sso[t])
          /\ \/ /\ sso[t] \/ reply = "authenticated"
                /\ SessionOk(t)
                /\ UNCHANGED attempt
             \/ /\ ~sso[t] /\ reply \in {"401", "logged_out"}
                /\ AuthLoss(t)
             \/ /\ ~sso[t] /\ reply = "error"
                /\ authStatus' = "cp_down"
                /\ AutoLoginHook(t, "cp_down")
                /\ UNCHANGED attempt
    /\ sso' = [sso EXCEPT ![t] = FALSE]
    /\ UNCHANGED <<gateway, accountsReady, bridgeVars>>

\* Faulty variant: one failed call is the last.
InitAccountsOnce(t) ==
    /\ at[t] = "accounts"
    /\ accountsReady' = accountsReady
    /\ Return(t, AfterTick(t, authStatus))
    /\ UNCHANGED <<gateway, authStatus, cpReachable, bridgeVars, sso, attempt>>

\* _maybe_init_accounts: after a failure the next good tick tries again.
InitAccounts(t) ==
    /\ at[t] = "accounts"
    /\ \E reply \in CallReplies[gateway] :
          accountsReady' = (accountsReady \/ reply = "done")
    /\ Return(t, AfterTick(t, authStatus))
    /\ UNCHANGED <<gateway, authStatus, cpReachable, bridgeVars, sso, attempt>>

\* POST /reauthenticate of the reauth loop.
Reauthenticate(t) ==
    /\ at[t] = "reauth"
    /\ \E reply \in CallReplies[gateway] :
          \/ /\ reply = "done"
             /\ Goto(t, "check")
             /\ UNCHANGED <<authStatus, serving, attempt>>
          \/ reply = "error" /\ AttemptFails(t)
    /\ UNCHANGED <<gateway, cpReachable, accountsReady, bridgeVars, sso>>

\* auth_status of the reauth loop; success returns from tick_once.
CheckReauth(t) ==
    /\ at[t] = "check"
    /\ \E reply \in StatusReplies[gateway] :
          \/ /\ reply \in {"authenticated", "trio"}
             /\ authStatus' = "ok"
             /\ attempt' = [attempt EXCEPT ![t] = 0]
             /\ Return(t, AfterTick(t, "ok"))
          \/ reply \in {"error", "logged_out"} /\ AttemptFails(t)
    /\ UNCHANGED <<gateway, cpReachable, accountsReady, bridgeVars, sso>>

\* The sidecar ends, is killed by its timeout, or crashes: the hook swallows all.
SidecarEnds(t) ==
    /\ at[t] = "sidecar"
    /\ Return(t, AfterTick(t, authStatus))
    /\ UNCHANGED <<gateway, authStatus, cpReachable, accountsReady, bridgeVars,
                   sso, attempt>>

-----------------------------------------------------------------------------
CountBridge(n) == IF n < bridge_max_failures THEN n + 1 ELSE n

BridgeIsUp ==
    /\ bridgeOk' = "up" /\ bridgeFailures' = 0
    /\ Return(Loop, "idle")
    /\ UNCHANGED authStatus

\* Faulty variant: the counter starts again with every probe.
BridgeIsDownForgetting ==
    /\ bridgeFailures' = 1
    /\ authStatus' = IF bridgeFailures' >= bridge_max_failures
                     THEN "auth_lost" ELSE authStatus
    /\ Return(Loop, "idle")
    /\ UNCHANGED bridgeOk

\* Recovery failed: the status escalates to AUTH_LOST at the maximum.
BridgeIsDown ==
    /\ bridgeFailures' = CountBridge(bridgeFailures)
    /\ authStatus' = IF bridgeFailures' >= bridge_max_failures
                     THEN "auth_lost" ELSE authStatus
    /\ Return(Loop, "idle")
    /\ UNCHANGED bridgeOk

\* bridge_probe_once: a failed call says nothing, drift starts the recovery.
ProbeBridge ==
    /\ at[Loop] = "probe"
    /\ \E reply \in StatusReplies[gateway] :
          \/ /\ reply = "error"
             /\ Return(Loop, "idle")
             /\ UNCHANGED <<authStatus, bridgeVars>>
          \/ /\ reply = "trio"
             /\ BridgeIsUp
             /\ probeDue' = FALSE
          \/ /\ reply \in {"logged_out", "authenticated"}
             /\ bridgeOk' = "down"
             /\ probeDue' = FALSE
             /\ Goto(Loop, "recover")
             /\ UNCHANGED <<authStatus, bridgeFailures, serving>>
    /\ UNCHANGED <<gateway, cpReachable, accountsReady, sso, attempt>>

\* _try_bridge_recover: reauthenticate ...
RecoverBridge ==
    /\ at[Loop] = "recover"
    /\ \E reply \in CallReplies[gateway] :
          \/ /\ reply = "done"
             /\ Goto(Loop, "recheck")
             /\ UNCHANGED <<authStatus, bridgeOk, bridgeFailures, serving>>
          \/ reply = "error" /\ BridgeIsDown
    /\ UNCHANGED <<gateway, cpReachable, accountsReady, probeDue, sso, attempt>>

\* ... and, after the warm-up, look again.
RecheckBridge ==
    /\ at[Loop] = "recheck"
    /\ \E reply \in StatusReplies[gateway] :
          /\ probeDue' = (probeDue /\ reply = "error")
          /\ IF reply = "trio" THEN BridgeIsUp ELSE BridgeIsDown
    /\ UNCHANGED <<gateway, cpReachable, accountsReady, sso, attempt>>

-----------------------------------------------------------------------------
\* A 200 whose body is no JSON raises ValueError, which no caller below the task
\* catches: the loop's task (or start()) ends, the seed handler answers.
GarbledReply(t) ==
    /\ gateway = "flaky" /\ at[t] \in TickAwaits \cup ProbeAwaits
    /\ Goto(t, IF t = Loop THEN "dead" ELSE "idle")
    /\ sso' = [sso EXCEPT ![t] = FALSE]
    /\ attempt' = [attempt EXCEPT ![t] = 0]
    /\ UNCHANGED <<gateway, authStatus, cpReachable, accountsReady, bridgeVars,
                   serving>>

\* stop() cancels the loop wherever it is; requests have been answered by then.
StopSession ==
    /\ serving /\ \A s \in Seeders : at[s] = "idle"
    /\ serving' = FALSE
    /\ Goto(Loop, "stopped")
    /\ sso' = [sso EXCEPT ![Loop] = FALSE]
    /\ attempt' = [attempt EXCEPT ![Loop] = 0]
    /\ UNCHANGED <<gateway, authStatus, cpReachable, accountsReady, bridgeVars>>

\* The gateway, its SSO session and its bridge come and go.
GatewayChanges ==
    /\ gateway' \in Gateways \ {gateway}
    /\ UNCHANGED <<authStatus, cpReachable, accountsReady, bridgeVars, serving,
                   at, sso, attempt>>

SessionInit ==
    /\ gateway \in Gateways
    /\ authStatus = "ok" /\ cpReachable = TRUE
    /\ accountsReady = FALSE
    /\ bridgeOk = Unprobed /\ bridgeFailures = 0 /\ probeDue = TRUE
    /\ serving = FALSE
    /\ at = [t \in Tasks |-> IF t = Loop THEN "new" ELSE "idle"]
    /\ sso = [t \in Tasks |-> FALSE]
    /\ attempt = [t \in Tasks |-> 0]

TaskStep(t) == \/ Validate(t) \/ Tickle(t) \/ InitAccounts(t)
               \/ Reauthenticate(t) \/ CheckReauth(t) \/ SidecarEnds(t)
               \/ GarbledReply(t)

ProbeStep == ProbeBridge \/ RecoverBridge \/ RecheckBridge

SessionNext ==
    \/ LoopTicks \/ ProbeFallsDue \/ ProbeStep \/ StopSession \/ GatewayChanges
    \/ \E t \in Tasks : TaskStep(t)
    \/ \E s \in Seeders : SeedCookies(s) \/ SsodhInit(s)

SessionSpec == SessionInit /\ [][SessionNext]_sessionVars

\* asyncio runs every task that can run; calls and the sidecar have timeouts.
SessionFairness ==
    /\ WF_sessionVars(LoopTicks) /\ WF_sessionVars(ProbeFallsDue)
    /\ WF_sessionVars(ProbeStep)
    /\ \A t \in Tasks : WF_sessionVars(TaskStep(t))
    /\ \A s \in Seeders : WF_sessionVars(SsodhInit(s))

SessionFairSpec == SessionSpec /\ SessionFairness

-----------------------------------------------------------------------------
\* Types, and which task may be where with which local values.
SessionTypeOK ==
    /\ gateway \in Gateways /\ authStatus \in Statuses
    /\ cpReachable \in BOOLEAN /\ accountsReady \in BOOLEAN
    /\ bridgeOk \in {"up", "down", Unprobed}
    /\ bridgeFailures \in 0..bridge_max_failures
    /\ probeDue \in BOOLEAN /\ serving \in BOOLEAN
    /\ at \in [Tasks -> Awaits]
    /\ sso \in [Tasks -> BOOLEAN]
    /\ attempt \in [Tasks -> 0..reauth_max_retries]

Alive == at[Loop] \notin {"dead", "stopped"}

\* REAUTH_PENDING, under which business requests still pass, is never left behind
\* while the loop lives: whoever entered it - the loop or a seed handler, whose loops
\* may overlap, and either of which may fail in the middle - a verdict follows.
PendingEnds ==
    authStatus = "reauth_pending" ~> (authStatus # "reauth_pending" \/ ~Alive)

\* Once the gateway stays healthy and the loop lives, the status comes back to OK for
\* good and the accounts are initialised, whatever reauth loops, probes and sidecars
\* were under way.
SessionIsRecovered ==
    <>[](gateway = "ready" /\ Alive) => <>[](authStatus = "ok" /\ accountsReady)

\* A gateway that stays down shows as CP_DOWN for good, one that lost the session is
\* never OK for good and shows AUTH_LOST again and again, and so does one that lost
\* its bridge: business requests meet 503.
LossIsReported ==
    /\ <>[](gateway = "down" /\ Alive) => <>[](authStatus = "cp_down")
    /\ <>[](gateway = "out" /\ Alive) =>
          <>[](authStatus # "ok") /\ []<>SessionUnavailable(authStatus)
    /\ <>[](gateway = "cold" /\ Alive) => []<>SessionUnavailable(authStatus)
=============================================================================
