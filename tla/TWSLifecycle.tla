---------------------------- MODULE TWSLifecycle ----------------------------
(***************************************************************************)
(* The TWS session: the heartbeat loop of TWSLifecycle, the connect and    *)
(* disconnect of its TWSClient, and the ClientIdPool that the clients of a *)
(* process share.  A tick suspends in connect() alone: while it waits for  *)
(* a free id and while ib_async connects.  stop() cancels the loop there.  *)
(***************************************************************************)
EXTENDS Integers, Sequences, FiniteSets

CONSTANTS
    Clients,       \* TWSClients, each with its lifecycle, that share the pool
    FirstId,       \* range of the pool: 100 ...
    LastId,        \* ... to 199
    MaxFailures    \* max_connect_failures (3)

ASSUME RangeAssumption ==
    FirstId \in Nat \ {0} /\ LastId \in Nat /\ FirstId <= LastId
ASSUME MaxFailuresAssumption == MaxFailures \in Nat \ {0}

VARIABLES
    pool,        \* the ClientIdPool's queue
    clientId,    \* _client_id, or None
    taken,       \* the id a connect() under way has acquired, or None
    socket,      \* ib_async's isConnected()
    loop,        \* where the heartbeat loop is
    status,      \* _status
    failures,    \* _consecutive_connect_failures, counted up to MaxFailures
    tws,         \* TWS refuses connections, accepts them, or is ready as well
    row          \* history: failed connects since the last that succeeded

vars == <<pool, clientId, taken, socket, loop, status, failures, tws, row>>

-----------------------------------------------------------------------------
Ids  == FirstId..LastId
None == 0

Phases == {"new", "waiting", "acquiring", "connecting", "stopped"}

\* start() was called and stop() was not.  A shutdown in the middle of start()'s own
\* connect leaves what stop() leaves.
Running(c) == loop[c] \in {"waiting", "acquiring", "connecting"}

\* The counters are only ever compared with MaxFailures.
CountUp(n) == IF n < MaxFailures THEN n + 1 ELSE n

\* Faulty variant: an id is given back where there is none.
ReleasedAlways(id) == Append(pool, id)

\* release: the id goes to the end of the queue.
Released(id) == IF id = None THEN pool ELSE Append(pool, id)

\* What a tick on a standing connection concludes: _mark_ready, or SESSION_LOST.
NoteSession(c, ready) ==
    /\ status' = [status EXCEPT ![c] = IF ready THEN "ok" ELSE "session_lost"]
    /\ failures' = IF ready THEN [failures EXCEPT ![c] = 0] ELSE failures

\* acquire on the queue q: its head, or wait for one.
AcquireFrom(c, q) ==
    IF q = <<>>
    THEN /\ pool' = q
         /\ loop' = [loop EXCEPT ![c] = "acquiring"]
         /\ taken' = taken
    ELSE /\ pool' = Tail(q)
         /\ loop' = [loop EXCEPT ![c] = "connecting"]
         /\ taken' = [taken EXCEPT ![c] = Head(q)]

-----------------------------------------------------------------------------
\* tick_once finds the socket standing.
TickConnected(c) ==
    /\ loop[c] \in {"new", "waiting"} /\ socket[c]
    /\ NoteSession(c, tws = "ready")
    /\ loop' = [loop EXCEPT ![c] = "waiting"]
    /\ UNCHANGED <<pool, clientId, taken, socket, tws, row>>

\* Faulty variant: an id still held is taken for a session that stands.
TickDisconnectedZombie(c) ==
    /\ loop[c] \in {"new", "waiting"} /\ ~socket[c]
    /\ IF clientId[c] # None
       THEN /\ status' = [status EXCEPT ![c] = "session_lost"]
            /\ UNCHANGED <<pool, loop, taken>>
       ELSE /\ AcquireFrom(c, pool)
            /\ UNCHANGED status
    /\ UNCHANGED <<clientId, socket, failures, tws, row>>

\* tick_once finds no socket and connects: the id of a dead session goes back
\* first.  The first tick is the one of start().
TickDisconnected(c) ==
    /\ loop[c] \in {"new", "waiting"} /\ ~socket[c]
    /\ clientId' = [clientId EXCEPT ![c] = None]
    /\ AcquireFrom(c, Released(clientId[c]))
    /\ UNCHANGED <<socket, status, failures, tws, row>>

\* A connect() that waits for an id gets one.
Acquire(c) ==
    /\ loop[c] = "acquiring" /\ pool # <<>>
    /\ AcquireFrom(c, pool)
    /\ UNCHANGED <<clientId, socket, status, failures, tws, row>>

\* connectAsync succeeds; readiness is looked at in the same tick.
ConnectSucceeds(c) ==
    /\ loop[c] = "connecting" /\ tws # "down"
    /\ socket' = [socket EXCEPT ![c] = TRUE]
    /\ clientId' = [clientId EXCEPT ![c] = taken[c]]
    /\ taken' = [taken EXCEPT ![c] = None]
    /\ NoteSession(c, tws = "ready")
    /\ row' = [row EXCEPT ![c] = 0]
    /\ loop' = [loop EXCEPT ![c] = "waiting"]
    /\ UNCHANGED <<pool, tws>>

\* connectAsync raises or times out: the id goes back, the failure is counted.
ConnectFails(c) ==
    /\ loop[c] = "connecting"
    /\ pool' = Released(taken[c])
    /\ taken' = [taken EXCEPT ![c] = None]
    /\ failures' = [failures EXCEPT ![c] = CountUp(@)]
    /\ status' = [status EXCEPT ![c] =
                    IF failures'[c] >= MaxFailures THEN "tws_down" ELSE @]
    /\ row' = [row EXCEPT ![c] = CountUp(@)]
    /\ loop' = [loop EXCEPT ![c] = "waiting"]
    /\ UNCHANGED <<clientId, socket, tws>>

\* Faulty variant: the cancelled connect() does not give its id back.
StopLeaking(c) ==
    /\ Running(c)
    /\ pool' = Released(clientId[c])
    /\ clientId' = [clientId EXCEPT ![c] = None]
    /\ taken' = [taken EXCEPT ![c] = None]
    /\ socket' = [socket EXCEPT ![c] = FALSE]
    /\ loop' = [loop EXCEPT ![c] = "stopped"]
    /\ UNCHANGED <<status, failures, tws, row>>

\* stop(): the loop is cancelled wherever it waits, a connect() under way gives
\* its id back, and disconnect() the session's.  Never are both held.
Stop(c) ==
    /\ Running(c)
    /\ pool' = Released(IF clientId[c] # None THEN clientId[c] ELSE taken[c])
    /\ clientId' = [clientId EXCEPT ![c] = None]
    /\ taken' = [taken EXCEPT ![c] = None]
    /\ socket' = [socket EXCEPT ![c] = FALSE]
    /\ loop' = [loop EXCEPT ![c] = "stopped"]
    /\ UNCHANGED <<status, failures, tws, row>>

-----------------------------------------------------------------------------
\* A connection breaks; nothing tells the lifecycle.
SocketDrops(c) ==
    /\ socket[c]
    /\ socket' = [socket EXCEPT ![c] = FALSE]
    /\ UNCHANGED <<pool, clientId, taken, loop, status, failures, tws, row>>

\* TWS restarts, logs out or comes back; going down it drops every connection.
TwsChanges(state) ==
    /\ tws' = state
    /\ socket' = [c \in Clients |-> socket[c] /\ state # "down"]
    /\ UNCHANGED <<pool, clientId, taken, loop, status, failures, row>>

-----------------------------------------------------------------------------
Init ==
    /\ pool = [i \in 1..(LastId - FirstId + 1) |-> FirstId + i - 1]
    /\ clientId = [c \in Clients |-> None]
    /\ taken = [c \in Clients |-> None]
    /\ socket = [c \in Clients |-> FALSE]
    /\ loop = [c \in Clients |-> "new"]
    /\ status = [c \in Clients |-> "tws_down"]
    /\ failures = [c \in Clients |-> 0]
    /\ tws \in {"down", "accepting", "ready"}
    /\ row = [c \in Clients |-> 0]

Next ==
    \/ \E c \in Clients : TickConnected(c)
    \/ \E c \in Clients : TickDisconnected(c)
    \/ \E c \in Clients : Acquire(c)
    \/ \E c \in Clients : ConnectSucceeds(c)
    \/ \E c \in Clients : ConnectFails(c)
    \/ \E c \in Clients : Stop(c)
    \/ \E c \in Clients : SocketDrops(c)
    \/ \E state \in {"down", "accepting", "ready"} : TwsChanges(state)

\* The loop's timers fire, a connect() ends by its timeout, and a TWS that is
\* there again and again when asked answers in time at some point.
Fairness ==
    \A c \in Clients :
        /\ WF_vars(TickConnected(c))
        /\ WF_vars(TickDisconnected(c))
        /\ WF_vars(Acquire(c))
        /\ WF_vars(ConnectFails(c) \/ ConnectSucceeds(c))
        /\ SF_vars(ConnectSucceeds(c))

Spec == Init /\ [][Next]_vars

FairSpec == Spec /\ Fairness

-----------------------------------------------------------------------------
\* Types of all variables.
TypeOK ==
    /\ pool \in Seq(Ids)
    /\ clientId \in [Clients -> Ids \cup {None}]
    /\ taken \in [Clients -> Ids \cup {None}]
    /\ socket \in [Clients -> BOOLEAN]
    /\ loop \in [Clients -> Phases]
    /\ status \in [Clients -> {"tws_down", "session_lost", "ok"}]
    /\ failures \in [Clients -> 0..MaxFailures]
    /\ tws \in {"down", "accepting", "ready"}
    /\ row \in [Clients -> 0..MaxFailures]

\* The id c answers for, as a session or as an attempt.
Held(c) == IF clientId[c] # None THEN clientId[c] ELSE taken[c]

\* No id leaks and none is used twice (tws/client.py:53-57, 184-187): through failed,
\* cancelled and repeated connects, each id of the range is either once in the pool or
\* held by exactly one client.
IdsConserved ==
    /\ \A i, j \in DOMAIN pool : pool[i] = pool[j] => i = j
    /\ \A c, d \in Clients : Held(c) # None /\ Held(c) = Held(d) => c = d
    /\ \A id \in Ids : (\E i \in DOMAIN pool : pool[i] = id)
                           <=> ~ \E c \in Clients : Held(c) = id

\* Only a client in the middle of a connect has an attempt's id, then no session's,
\* and every socket has the id it was opened with, also when a stop comes in between.
SocketsHaveIds ==
    \A c \in Clients :
        /\ taken[c] # None <=> loop[c] = "connecting"
        /\ loop[c] \in {"new", "acquiring", "connecting", "stopped"} => clientId[c] = None
        /\ socket[c] => clientId[c] # None

\* Ids and sockets go together: none leaks, none is shared, none is used without one.
IdsFollowSockets == IdsConserved /\ SocketsHaveIds

\* MaxFailures failed connects in a row are noticed (tws/lifecycle.py:95-96), whatever
\* else came in between: sessions that were not ready, drops, waits for an id.
OutageIsNoticed ==
    \A c \in Clients : row[c] >= MaxFailures => status[c] = "tws_down"

\* A reconnect never uses the id of the session that just died, which TWS may still
\* hold for alive, while another one is free (tws/client.py:53-54).
ReconnectTakesAnotherId ==
    [][\A c \in Clients :
         clientId[c] # None /\ pool # <<>> => taken'[c] # clientId[c]]_vars

\* Every id is with a client other than c.
NoneLeft(c) == \A id \in Ids : \E d \in Clients \ {c} : Held(d) = id

\* The session comes back by itself (tws/lifecycle.py:114-118, client.py:175-181): while
\* TWS stays ready, a running lifecycle gets to OK on a standing socket, from any state.
SessionRecovers ==
    \A c \in Clients :
        Running(c) /\ tws = "ready"
            ~> \/ status[c] = "ok" /\ socket[c]
               \/ tws # "ready" \/ loop[c] = "stopped" \/ NoneLeft(c)

\* TWS_DOWN means that connect() failed MaxFailures times in a row
\* (tws/lifecycle.py:95-96), not counting failures before a connect that succeeded.
DownMeansFailuresInARow ==
    [][\A c \in Clients :
         status[c] # "tws_down" /\ status'[c] = "tws_down" => row'[c] >= MaxFailures]_vars
=============================================================================
