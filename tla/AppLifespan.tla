---------------------------- MODULE AppLifespan ----------------------------
(***************************************************************************)
(* How the process comes up and goes down (main.py lifespan, config.py):   *)
(* the guards on the environment, which parts the backend and the quote    *)
(* source ask for, the order they are started in, and the order they are   *)
(* stopped in with some of the steps guarded against exceptions and some   *)
(* not.                                                                    *)
(***************************************************************************)
EXTENDS Sequences, FiniteSets, SequencesExt

VARIABLES env,     \* the BG_* variables
          progress,   \* how far the lifespan is
          parts,   \* what runs, or is held open
          broken,  \* history: parts whose own stop raised
          stopping \* the steps of the shutdown still to come

lifespanVars == <<env, progress, parts, broken, stopping>>

\* What the environment says once it is parsed; "none" is a missing or unknown kind.
Environments == [kind : {"live", "paper", "none"}, backend : {"cp", "tws"},
                 autoLogin : BOOLEAN, credentials : BOOLEAN, readOnly : BOOLEAN,
                 source : {"ws", "polling"}]

Parts == {"tws_client", "cp_client", "services_client", "write_access", "auto_login",
          "lifecycle", "orders_pump", "broadcaster", "ws_client", "push_source",
          "subscriptions"}

\* The finally of the lifespan, in its order.
Teardown == <<"orders_pump", "broadcaster", "push_source", "ws_client",
              "subscriptions", "lifecycle", "cp_client", "services_client">>

\* The first four are in a try/except of their own.
Guarded == {"orders_pump", "broadcaster", "push_source", "ws_client"}

Goes(from, to) == progress = from /\ progress' = to

----------------------------------------------------------------------------
\* A plausible bug: guard 5 is forgotten.
ConfigWithoutReadOnly(e) ==
    /\ e.kind # "none"
    /\ ~(e.kind = "live" /\ (e.autoLogin \/ e.credentials))
    /\ ~(e.autoLogin /\ ~e.credentials)

\* validate_runtime_config: what it lets pass.
ConfigIsValid(e) ==
    /\ e.kind # "none"
    /\ ~(e.kind = "live" /\ (e.autoLogin \/ e.credentials \/ ~e.readOnly))
    /\ ~(e.autoLogin /\ ~e.credentials)

Validate ==
    /\ progress = "new"
    /\ progress' = IF ConfigIsValid(env) THEN "validated" ELSE "refused"
    /\ UNCHANGED <<env, parts, broken, stopping>>

\* The lifecycle's client: ib_async's for tws, an httpx one for cp.
ChooseBackend ==
    /\ Goes("validated", "backend_chosen")
    /\ parts' = parts \cup
          IF env.backend = "tws"
          THEN {"tws_client"} \cup (IF env.readOnly THEN {} ELSE {"write_access"})
          ELSE {"cp_client"}
    /\ UNCHANGED <<env, broken, stopping>>

\* _maybe_attach_auto_login
AttachAutoLogin ==
    /\ Goes("backend_chosen", "auto_login_decided")
    /\ parts' = IF env.autoLogin /\ env.kind = "paper" /\ env.backend = "cp"
                THEN parts \cup {"auto_login"} ELSE parts
    /\ UNCHANGED <<env, broken, stopping>>

\* The services: cp shares the lifecycle's client, tws opens one of its own that no
\* tws service uses.
BuildServices ==
    /\ Goes("auto_login_decided", "services_built")
    /\ parts' = parts \cup {"broadcaster"} \cup
          (IF env.backend = "tws" THEN {"services_client"} ELSE {})
    /\ UNCHANGED <<env, broken, stopping>>

\* cp_lifecycle.start: it may raise (a garbled first reply), and the app never serves.
StartLifecycle ==
    /\ progress = "services_built"
    /\ \/ progress' = "lifecycle_started" /\ parts' = parts \cup {"lifecycle"}
       \/ progress' = "refused" /\ UNCHANGED parts
    /\ UNCHANGED <<env, broken, stopping>>

StartPump ==
    /\ Goes("lifecycle_started", "pump_started")
    /\ parts' = IF env.backend = "tws" THEN parts \cup {"orders_pump"} ELSE parts
    /\ UNCHANGED <<env, broken, stopping>>

\* _build_subscription_layer: the push path needs the cp backend, a session that is
\* OK with an id, and a socket that opens; otherwise the manager polls.
BuildSubscriptions == \E session, socket \in BOOLEAN :
    /\ Goes("pump_started", "serving")
    /\ parts' = parts \cup {"subscriptions"} \cup
          IF env.backend = "cp" /\ env.source = "ws" /\ session /\ socket
          THEN {"ws_client", "push_source"} ELSE {}
    /\ UNCHANGED <<env, broken, stopping>>

----------------------------------------------------------------------------
\* The server leaves the yield.
BeginShutdown ==
    /\ Goes("serving", "stopping")
    /\ stopping' = Teardown
    /\ UNCHANGED <<env, parts, broken>>

\* One step; a part that was never built is passed over.
StopNext ==
    /\ progress = "stopping" /\ stopping # <<>>
    /\ parts' = parts \ {Head(stopping)}
    /\ stopping' = Tail(stopping)
    /\ UNCHANGED <<env, progress, broken>>

\* The stop of a part raises: logged where it is guarded, else the finally ends here.
StopRaises ==
    /\ progress = "stopping" /\ stopping # <<>> /\ Head(stopping) \in parts
    /\ broken' = broken \cup {Head(stopping)}
    /\ IF Head(stopping) \in Guarded
       THEN stopping' = Tail(stopping) /\ UNCHANGED progress
       ELSE stopping' = <<>> /\ progress' = "stopped"
    /\ UNCHANGED <<env, parts>>

ProcessExits ==
    /\ Goes("stopping", "stopped")
    /\ stopping = <<>>
    /\ UNCHANGED <<env, parts, broken, stopping>>

----------------------------------------------------------------------------
LifespanInit ==
    /\ env \in Environments
    /\ progress = "new"
    /\ parts = {} /\ broken = {} /\ stopping = <<>>

LifespanNext ==
    \/ Validate \/ ChooseBackend \/ AttachAutoLogin \/ BuildServices
    \/ StartLifecycle \/ StartPump \/ BuildSubscriptions
    \/ BeginShutdown \/ StopNext \/ StopRaises \/ ProcessExits

LifespanSpec == LifespanInit /\ [][LifespanNext]_lifespanVars

LifespanTypeOK ==
    /\ env \in Environments
    /\ progress \in {"new", "validated", "refused", "backend_chosen", "auto_login_decided",
                  "services_built", "lifecycle_started", "pump_started", "serving",
                  "stopping", "stopped"}
    /\ parts \subseteq Parts /\ broken \subseteq Parts
    /\ \E n \in 1..(Len(Teardown) + 1) : stopping = SubSeq(Teardown, n, Len(Teardown))

\* What the hard guards promise of a process that serves, and what the teardown
\* promises of one that stopped: a live stack neither logs in by itself nor can
\* write orders; the push path comes with its socket and never over the tws
\* backend; nothing that feeds others outlives them (the pump the broadcaster, the
\* lifecycle its client); and after a shutdown no part is left running except one
\* whose own stop raised, or those behind an unguarded step that did
\* (config.py:185, main.py:111, 191, 669).
LifespanIsOrderly ==
    /\ progress = "serving" =>
          /\ env.kind = "live" => parts \cap {"auto_login", "write_access"} = {}
          /\ "push_source" \in parts <=> "ws_client" \in parts
          /\ "push_source" \in parts => "tws_client" \notin parts
          /\ "orders_pump" \in parts <=> "tws_client" \in parts
    /\ progress \in {"stopping", "stopped"} =>
          /\ "orders_pump" \in parts \ broken => "broadcaster" \in parts
          /\ "lifecycle" \in parts /\ env.backend = "cp" => "cp_client" \in parts
    /\ (progress = "stopped" /\ broken \subseteq Guarded) =>
          parts \cap ToSet(Teardown) \subseteq broken
============================================================================
