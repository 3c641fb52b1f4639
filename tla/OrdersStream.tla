---------------------------- MODULE OrdersStream ----------------------------
(***************************************************************************)
(* The live order stream of one account: the ib_async order events, the    *)
(* TWSOrdersStreamPump that publishes them, the _AccountSubscription of    *)
(* the OrdersBroadcaster (replay ring, dedup memory, consumer queues,      *)
(* cool-down) and the consumers behind GET /v1/orders/stream (SSE) and     *)
(* /v1/orders/ws (WebSocket).                                              *)
(*                                                                         *)
(* Everything runs on one asyncio loop, and no section under the           *)
(* broadcaster's lock awaits, so an action is what happens between two     *)
(* awaits.  Subscriptions of different accounts share nothing but that     *)
(* lock: one account stands for all of them.                               *)
(***************************************************************************)
EXTENDS Integers, Sequences, FiniteSets

CONSTANTS
    SseClients,   \* connection slots of GET /v1/orders/stream
    WsClients,    \* connection slots of /v1/orders/ws
    Orders,       \* the account's orders
    States,       \* what a frame says of an order, last_event_at left out
    Terminal,     \* the states in which IB.openTrades() lists it no more
    Final,        \* ... and which it keeps: all of them but an inactive order's
    LocalStates,  \* states that only placeOrder or a modify gives the cached order
    Absent,       \* not an order state: no such order
    BufferSize,   \* _REPLAY_BUFFER_SIZE (200)
    QueueMax,     \* _CONSUMER_QUEUE_MAX (1024)
    DedupSize,    \* _DEDUP_CACHE_SIZE (1024)
    MaxEvents     \* bound of the model: ids one subscription may give out

ASSUME SizesAssumption ==
    /\ BufferSize \in Nat \ {0}
    /\ QueueMax \in Nat \ {0}
    /\ DedupSize \in Nat \ {0}
ASSUME BoundAssumption == MaxEvents \in Nat
ASSUME StatesAssumption ==
    /\ Terminal \subseteq States /\ Final \subseteq Terminal
    /\ LocalStates \subseteq States
    /\ Absent \notin States

VARIABLES
    trade,       \* the ib_async trade cache: state of each order, or Absent
    up,          \* the lifespan has not shut down: pump attached, server open
    registered,  \* _subs holds the account's subscription
    nextId,      \* _next_event_id
    buffer,      \* event_buffer, a ring of the newest BufferSize events
    dedup,       \* _last_order_key, least recently used first
    coolDown,    \* a cool-down task is pending
    phase,       \* per slot: how far its connection is
    queue,       \* per slot: the consumer's asyncio.Queue
    replay,      \* per slot: rest of the ring-buffer snapshot being replayed
    since,       \* per slot: the Last-Event-ID of the request, or None
    pending,     \* per slot: the event taken from the iterator, not yet sent
    lastId,      \* the client's own last seen event id, or None
    view,        \* the client's picture of the account
    current,     \* history: lastId was given out by this subscription
    dropped,     \* history: the queue overflowed on this connection
    lost,        \* history: the ring no longer reached back to lastId
    booted,      \* history: the subscribe fed in a bootstrap
    skipped,     \* history: an id was missing since the client's last bootstrap
    shown,       \* history: the picture of a client that saw every event
    shownAt      \* history: the event that told the picture's state of each order

subVars    == <<registered, nextId, buffer, dedup, coolDown, shown, shownAt>>
connVars   == <<phase, queue, replay, since, pending>>
clientVars == <<lastId, view>>
histVars   == <<current, dropped, lost, booted, skipped>>
vars == <<trade, up, subVars, connVars, clientVars, histVars>>

-----------------------------------------------------------------------------
Clients == SseClients \cup WsClients

\* No Last-Event-ID: below every id, so that "id > None" holds of all events.
None == -1

View  == [Orders -> States \cup {Absent}]
Event == [id : Nat, kind : {"order", "bootstrap"}, state : View]

NothingKnown == [o \in Orders |-> Absent]

\* A bootstrap is the whole open stock, an order event tells of the one order it
\* carries.
Tells(e, o) == e.kind = "bootstrap" \/ e.state[o] # Absent

\* What a client makes of an event.
Seen(v, e) == [o \in Orders |-> IF Tells(e, o) THEN e.state[o] ELSE v[o]]

Attached == {c \in Clients : phase[c] # "off"}

\* deque(maxlen) and the drop-oldest queue: append, shed the oldest when full.
PushBounded(q, e, max) ==
    IF Len(q) < max THEN Append(q, e) ELSE Append(Tail(q), e)

\* Faulty variant: the client's next event is taken for one it has.
NextReplayOffByOne(c) ==
    {i \in DOMAIN replay[c] :
        /\ replay[c][i].id > since[c] + 1
        /\ \A j \in 1..(i - 1) : replay[c][j].id <= since[c] + 1}

\* Index of the next event of the snapshot that the replay loop yields.
NextReplay(c) ==
    {i \in DOMAIN replay[c] :
        /\ replay[c][i].id > since[c]
        /\ \A j \in 1..(i - 1) : replay[c][j].id <= since[c]}

Drained(c) == pending[c] = <<>> /\ NextReplay(c) = {} /\ queue[c] = <<>>

\* Faulty variant: the snapshot misses the newest event.
SnapshotOffByOne == SubSeq(buffer, 1, Len(buffer) - 1)

\* list(event_buffer): what the replay loop walks over.
Snapshot == buffer

\* Faulty variant: no disconnect counts as the last one.
LastConsumerNever(c) == FALSE

\* refcount is 0 once c is gone.
LastConsumer(c) == Attached = {c}

\* The bootstrap loader reads the open trades of the local cache.
OpenTrades ==
    [o \in Orders |-> IF trade[o] \in Terminal THEN Absent ELSE trade[o]]

-----------------------------------------------------------------------------
\* _AccountSubscription.publish: number the event, append it to the ring and to
\* the queue of every consumer; qs are the queues of the consumers cs.
Publish(kind, state, qs, cs) ==
    LET event == [id |-> nextId, kind |-> kind, state |-> state] IN
    /\ nextId' = nextId + 1
    /\ buffer' = PushBounded(buffer, event, BufferSize)
    /\ queue' = [c \in Clients |->
                    IF c \in cs THEN PushBounded(qs[c], event, QueueMax) ELSE qs[c]]
    /\ shown' = Seen(shown, event)
    /\ shownAt' = [o \in Orders |-> IF Tells(event, o) THEN nextId ELSE shownAt[o]]

\* The consumers whose full queue a publish makes shed its oldest event.
Overflowing == {c \in Attached : Len(queue[c]) >= QueueMax}

\* Faulty variants: no dedup, or dedup that looks at the order_id alone.
NeverDuplicate(o, s) == FALSE
IsDuplicateByOrder(o, s) == \E i \in DOMAIN dedup : dedup[i].order = o

\* is_duplicate_order: the last order frame sent for o said s as well.
IsDuplicate(o, s) ==
    \E i \in DOMAIN dedup : dedup[i] = [order |-> o, state |-> s]

\* The dedup memory without o ...
Forget(o) ==
    IF \E i \in DOMAIN dedup : dedup[i].order = o
    THEN LET i == CHOOSE i \in DOMAIN dedup : dedup[i].order = o
         IN  SubSeq(dedup, 1, i - 1) \o SubSeq(dedup, i + 1, Len(dedup))
    ELSE dedup

\* Faulty variant: the memory is neither moved nor evicted.
RememberAll(o, s) == Append(dedup, [order |-> o, state |-> s])

\* ... and with the frame (o, s) as its most recently used entry.
Remember(o, s) ==
    LET entry == [order |-> o, state |-> s] IN
    IF Len(Forget(o)) < DedupSize THEN Append(Forget(o), entry)
    ELSE Append(Tail(Forget(o)), entry)

\* OrdersBroadcaster.publish of an order frame.
PublishOrder(o, s) ==
    IF ~registered
    THEN UNCHANGED <<subVars, queue, dropped>>
    ELSE /\ dedup' = Remember(o, s)
         /\ UNCHANGED <<registered, coolDown>>
         /\ IF IsDuplicate(o, s)
            THEN UNCHANGED <<nextId, buffer, queue, shown, shownAt, dropped>>
            ELSE /\ nextId < MaxEvents
                 /\ Publish("order", [NothingKnown EXCEPT ![o] = s], queue, Attached)
                 /\ dropped' = [c \in Clients |-> dropped[c] \/ c \in Overflowing]

-----------------------------------------------------------------------------
\* State s of o is reported: ib_async updates the trade and fires openOrderEvent,
\* orderStatusEvent (as cancelOrder does, too, for its PendingCancel) or
\* execDetailsEvent; the pump publishes the trade.  s may be the state already known,
\* as all three events report it, and an inactive order may become active again.
BrokerEvent(o, s) ==
    /\ trade[o] \in Final => s = trade[o]
    /\ trade' = [trade EXCEPT ![o] = s]
    /\ IF up THEN PublishOrder(o, s) ELSE UNCHANGED <<subVars, queue, dropped>>
    /\ UNCHANGED <<up, phase, replay, since, pending, clientVars, current, lost, booted,
                   skipped>>

\* modify_order sets the quantity of the cached order, and placeOrder caches a new one,
\* before the broker has answered, if it ever does: newOrderEvent and orderModifyEvent
\* are none the pump listens to.
LocalChange(o, s) ==
    /\ up
    /\ trade[o] \in Terminal <=> s \in Terminal
    /\ trade' = [trade EXCEPT ![o] = s]
    /\ UNCHANGED <<up, subVars, connVars, clientVars, histVars>>

-----------------------------------------------------------------------------
\* The handler loads the bootstrap and subscribes: both run without a real await.
\* The client sends its last id or, with header = None, starts afresh.
Subscribe(c, header) ==
    LET fresh == header = None
        boot  == OpenTrades # NothingKnown
        qs    == [queue EXCEPT ![c] = <<>>]
    IN
    /\ up /\ phase[c] = "off"
    /\ registered' = TRUE
    /\ coolDown' = FALSE
    /\ phase' = [phase EXCEPT ![c] = "attached"]
    /\ since' = [since EXCEPT ![c] = header]
    /\ IF boot
       THEN /\ nextId < MaxEvents
            /\ Publish("bootstrap", OpenTrades, qs, Attached \cup {c})
            /\ dropped' = [d \in Clients |->
                              d # c /\ (dropped[d] \/ d \in Overflowing)]
       ELSE /\ queue' = qs
            /\ dropped' = [dropped EXCEPT ![c] = FALSE]
            /\ UNCHANGED <<nextId, buffer, shown, shownAt>>
    /\ lastId' = IF fresh THEN [lastId EXCEPT ![c] = None] ELSE lastId
    /\ view' = IF fresh THEN [view EXCEPT ![c] = NothingKnown] ELSE view
    /\ current' = IF fresh THEN [current EXCEPT ![c] = TRUE] ELSE current
    /\ lost' = [lost EXCEPT ![c] = ~fresh /\ ~current[c]]
    /\ booted' = [booted EXCEPT ![c] = boot]
    /\ skipped' = IF fresh THEN [skipped EXCEPT ![c] = FALSE] ELSE skipped
    /\ UNCHANGED <<trade, up, dedup, replay, pending>>

\* First __anext__ of the iterator: the replay loop copies the ring.
StartReplay(c) ==
    /\ phase[c] = "attached"
    /\ phase' = [phase EXCEPT ![c] = "open"]
    /\ replay' = [replay EXCEPT ![c] = Snapshot]
    /\ lost' = [lost EXCEPT ![c] = @ \/ nextId - Len(buffer) > since[c] + 1]
    /\ UNCHANGED <<trade, up, subVars, queue, since, pending, clientVars,
                   current, dropped, booted, skipped>>

\* The pending __anext__ yields: first what is left of the snapshot, skipping
\* what the client has, then the queue.  sse_with_heartbeat keeps the pending
\* task across its keepalive comments, so those change nothing here.
FetchReplay(c) ==
    /\ phase[c] \in {"open", "ghost"} /\ pending[c] = <<>>
    /\ \E i \in NextReplay(c) :
        /\ pending' = [pending EXCEPT ![c] = <<replay[c][i]>>]
        /\ replay' = [replay EXCEPT ![c] = SubSeq(@, i + 1, Len(@))]
    /\ UNCHANGED <<trade, up, subVars, phase, queue, since, clientVars, histVars>>

\* Faulty variant: a keepalive timeout cancels the pending get and its event.
FetchLiveCancelled(c) ==
    /\ phase[c] \in {"open", "ghost"} /\ pending[c] = <<>>
    /\ NextReplay(c) = {} /\ queue[c] # <<>>
    /\ queue' = [queue EXCEPT ![c] = Tail(@)]
    /\ replay' = [replay EXCEPT ![c] = <<>>]
    /\ UNCHANGED <<trade, up, subVars, phase, since, pending, clientVars, histVars>>

FetchLive(c) ==
    /\ phase[c] \in {"open", "ghost"} /\ pending[c] = <<>>
    /\ NextReplay(c) = {} /\ queue[c] # <<>>
    /\ pending' = [pending EXCEPT ![c] = <<Head(queue[c])>>]
    /\ queue' = [queue EXCEPT ![c] = Tail(@)]
    /\ replay' = [replay EXCEPT ![c] = <<>>]
    /\ UNCHANGED <<trade, up, subVars, phase, since, clientVars, histVars>>

\* The event is rendered, sent and read by the client.
Deliver(c) ==
    /\ phase[c] = "open" /\ pending[c] # <<>>
    /\ lastId' = [lastId EXCEPT ![c] = pending[c][1].id]
    /\ view' = [view EXCEPT ![c] = Seen(@, pending[c][1])]
    /\ current' = [current EXCEPT ![c] = TRUE]
    /\ skipped' = [skipped EXCEPT ![c] =
                      /\ pending[c][1].kind # "bootstrap"
                      /\ @ \/ ~current[c] \/ pending[c][1].id > lastId[c] + 1]
    /\ pending' = [pending EXCEPT ![c] = <<>>]
    /\ UNCHANGED <<trade, up, subVars, phase, queue, replay, since,
                   dropped, lost, booted>>

-----------------------------------------------------------------------------
\* detach, run by the iterator's finally: the last consumer starts a cool-down.
Detach(c) ==
    /\ phase' = [phase EXCEPT ![c] = "off"]
    /\ queue' = [queue EXCEPT ![c] = <<>>]
    /\ replay' = [replay EXCEPT ![c] = <<>>]
    /\ pending' = [pending EXCEPT ![c] = <<>>]
    /\ since' = [since EXCEPT ![c] = None]
    /\ dropped' = [dropped EXCEPT ![c] = FALSE]
    /\ lost' = [lost EXCEPT ![c] = FALSE]
    /\ booted' = [booted EXCEPT ![c] = FALSE]
    /\ coolDown' = (coolDown \/ LastConsumer(c))
    /\ UNCHANGED <<trade, up, registered, nextId, buffer, dedup, shown, shownAt,
                   clientVars, current, skipped>>

\* An SSE client goes: Starlette cancels the response, sse_with_heartbeat's
\* finally cancels the pending __anext__ and closes the iterator.
Disconnect(c) ==
    /\ c \in SseClients /\ phase[c] = "open"
    /\ Detach(c)

\* An SSE client goes before the response body was first iterated: a generator
\* that never ran has no finally to run, so the consumer stays attached.
Abandon(c) ==
    /\ c \in SseClients /\ phase[c] = "attached"
    /\ phase' = [phase EXCEPT ![c] = "abandoned"]
    /\ UNCHANGED <<trade, up, subVars, queue, replay, since, pending, clientVars,
                   histVars>>

\* A WebSocket client goes: orders_ws never receives, so nothing notices yet ...
Vanish(c) ==
    /\ c \in WsClients /\ phase[c] = "open"
    /\ phase' = [phase EXCEPT ![c] = "ghost"]
    /\ UNCHANGED <<trade, up, subVars, queue, replay, since, pending, clientVars,
                   histVars>>

\* ... until the next send_text fails.
SendFails(c) ==
    /\ phase[c] = "ghost" /\ pending[c] # <<>>
    /\ Detach(c)

\* The cool-down task wakes: _teardown forgets the subscription if it is still
\* unused and still the registered one.
CoolDownExpires ==
    /\ coolDown
    /\ coolDown' = FALSE
    /\ IF Attached = {} /\ registered
       THEN /\ registered' = FALSE
            /\ nextId' = 0
            /\ buffer' = <<>>
            /\ dedup' = <<>>
            /\ shown' = NothingKnown
            /\ shownAt' = [o \in Orders |-> None]
            /\ current' = [c \in Clients |-> FALSE]
       ELSE UNCHANGED <<registered, nextId, buffer, dedup, shown, shownAt, current>>
    /\ UNCHANGED <<trade, up, connVars, clientVars, dropped, lost, booted, skipped>>

\* Lifespan shutdown: pump.stop(), then OrdersBroadcaster.shutdown().
Shutdown ==
    /\ up
    /\ up' = FALSE
    /\ registered' = FALSE
    /\ coolDown' = FALSE
    /\ UNCHANGED <<trade, nextId, buffer, dedup, shown, shownAt, connVars, clientVars,
                   histVars>>

-----------------------------------------------------------------------------
Init ==
    /\ trade = NothingKnown
    /\ up = TRUE
    /\ registered = FALSE
    /\ nextId = 0
    /\ buffer = <<>>
    /\ dedup = <<>>
    /\ coolDown = FALSE
    /\ phase = [c \in Clients |-> "off"]
    /\ queue = [c \in Clients |-> <<>>]
    /\ replay = [c \in Clients |-> <<>>]
    /\ since = [c \in Clients |-> None]
    /\ pending = [c \in Clients |-> <<>>]
    /\ lastId = [c \in Clients |-> None]
    /\ view = [c \in Clients |-> NothingKnown]
    /\ current = [c \in Clients |-> FALSE]
    /\ dropped = [c \in Clients |-> FALSE]
    /\ lost = [c \in Clients |-> FALSE]
    /\ booted = [c \in Clients |-> FALSE]
    /\ skipped = [c \in Clients |-> FALSE]
    /\ shown = NothingKnown
    /\ shownAt = [o \in Orders |-> None]

Next ==
    \/ \E o \in Orders, s \in States : BrokerEvent(o, s)
    \/ \E o \in Orders, s \in LocalStates : LocalChange(o, s)
    \/ \E c \in Clients : \E header \in {None, lastId[c]} : Subscribe(c, header)
    \/ \E c \in Clients : StartReplay(c)
    \/ \E c \in Clients : FetchReplay(c)
    \/ \E c \in Clients : FetchLive(c)
    \/ \E c \in Clients : Deliver(c)
    \/ \E c \in Clients : Disconnect(c)
    \/ \E c \in Clients : Abandon(c)
    \/ \E c \in Clients : Vanish(c)
    \/ \E c \in Clients : SendFails(c)
    \/ CoolDownExpires
    \/ Shutdown

\* The loop runs every ready task and every timer, and a client that stays
\* connected reads.  Brokers, connects, disconnects and shutdown owe nothing.
Fairness ==
    /\ WF_vars(CoolDownExpires)
    /\ \A c \in Clients :
        /\ WF_vars(StartReplay(c))
        /\ WF_vars(FetchReplay(c))
        /\ WF_vars(FetchLive(c))
        /\ WF_vars(Deliver(c))
        /\ WF_vars(SendFails(c))

Spec == Init /\ [][Next]_vars

FairSpec == Spec /\ Fairness

-----------------------------------------------------------------------------
\* Types of all variables; the dedup memory is capped and the heartbeat wrapper
\* holds at most one event.
TypeOK ==
    /\ trade \in View
    /\ up \in BOOLEAN
    /\ registered \in BOOLEAN
    /\ nextId \in Nat
    /\ buffer \in Seq(Event)
    /\ dedup \in Seq([order : Orders, state : States])
    /\ Len(dedup) <= DedupSize
    /\ coolDown \in BOOLEAN
    /\ phase \in [Clients -> {"off", "attached", "open", "ghost", "abandoned"}]
    /\ queue \in [Clients -> Seq(Event)]
    /\ replay \in [Clients -> Seq(Event)]
    /\ since \in [Clients -> Nat \cup {None}]
    /\ pending \in [Clients -> Seq(Event)]
    /\ \A c \in Clients : Len(pending[c]) <= 1
    /\ lastId \in [Clients -> Nat \cup {None}]
    /\ view \in [Clients -> View]
    /\ current \in [Clients -> BOOLEAN]
    /\ dropped \in [Clients -> BOOLEAN]
    /\ lost \in [Clients -> BOOLEAN]
    /\ booted \in [Clients -> BOOLEAN]
    /\ skipped \in [Clients -> BOOLEAN]
    /\ shown \in View
    /\ shownAt \in [Orders -> Nat \cup {None}]

\* The ids of q are consecutive and end at n - 1.
EndsAt(q, n) == \A i \in DOMAIN q : q[i].id = n - Len(q) + i - 1

\* Ring and queues shed only their oldest events and never reorder: each holds an
\* unbroken run of ids up to the newest one, also across overflow and cool-down.
UnbrokenRuns ==
    /\ EndsAt(buffer, nextId)
    /\ Len(buffer) <= BufferSize
    /\ \A c \in Attached : EndsAt(queue[c], nextId) /\ Len(queue[c]) <= QueueMax

\* A reconnect finds its replay state exactly as long as v1.md 9.2 promises: the
\* cool-down runs if and only if the registered subscription has no consumer, so
\* it never ends under a consumer and an unused subscription is always on its way out.
CoolDownIffIdle == registered => (coolDown <=> Attached = {})

\* No hole between what a consumer replays from the ring and what its queue holds
\* from attach on, whatever is published in between (orders.py:227-234).
ReplayMeetsQueue ==
    \A c \in Clients :
        phase[c] \in {"open", "ghost"} /\ replay[c] # <<>> /\ ~dropped[c]
            => replay[c][Len(replay[c])].id + 1 >= nextId - Len(queue[c])

\* The ids of a sequence of events.
Ids(q) == {q[i].id : i \in DOMAIN q}

\* What is left of c's snapshot and c has not had.
RestIds(c) == {id \in Ids(replay[c]) : id > since[c]}

\* The events a connection will still hand out.
OutstandingIds(c) == Ids(pending[c]) \cup RestIds(c) \cup Ids(queue[c])

\* The Last-Event-ID contract: on a connection whose queue did not overflow and
\* whose id was still within the ring, every event after the client's last one is
\* on its way; a disconnect in the middle of replay or delivery loses none.
NoSilentGap ==
    \A c \in Clients :
        phase[c] = "open" /\ current[c] /\ ~dropped[c] /\ ~lost[c]
            => \A id \in (lastId[c] + 1)..(nextId - 1) : id \in OutstandingIds(c)

\* The id that c's open connection has taken and not sent, or None.
HandedId(c) ==
    IF phase[c] = "open" /\ pending[c] # <<>> THEN pending[c][1].id ELSE None

\* The newest id that c has or is about to be sent.
NewestId(c) == IF HandedId(c) = None THEN lastId[c] ELSE HandedId(c)

\* c will be handed every event after its last: its connection goes on with the
\* next one, from the snapshot if it has one, and holds the others; or, while no
\* connection of it is reading, all of them are still in the ring.
Follows(c) ==
    /\ current[c]
    /\ IF phase[c] = "open"
       THEN /\ NewestId(c) <= lastId[c] + 1
            /\ RestIds(c) # {} => NewestId(c) + 1 \in RestIds(c)
            /\ (NewestId(c) + 1)..(nextId - 1) \subseteq RestIds(c) \cup Ids(queue[c])
       ELSE (lastId[c] + 1)..(nextId - 1) \subseteq Ids(buffer)

\* The stream is the feed that v1.md 9.2 describes.
Feed == INSTANCE OrderFeed WITH
    Readers <- Clients,
    Window  <- IF BufferSize < QueueMax THEN BufferSize ELSE QueueMax,
    written <- nextId,
    last    <- lastId,
    held    <- [c \in Clients |-> HandedId(c)],
    follows <- {c \in Clients : Follows(c)}

\* Ring, snapshot, queues and cool-down together: a consumer is handed the next
\* event or one it had, across replay, overflow, disconnects and resumes, unless more
\* events than ring or queue hold came since (orders.py:165-179, 225-240).
ServesTheFeed == Feed!FeedSpec

\* A consumer that has read all it was sent has the newest picture of the account,
\* although it sees events twice and a late joiner sees old ones first: after a
\* bootstrap, or resuming where no id was skipped, in this connection or before.
DrainedConsumerIsCurrent ==
    \A c \in Clients :
        /\ phase[c] = "open" /\ Drained(c) /\ ~dropped[c]
        /\ booted[c] \/ (~lost[c] /\ ~skipped[c])
        => view[c] = shown

\* ... and where the local cache only changes on broker reports, the picture of any
\* drained consumer, whatever it missed before it connected, shows every open order
\* as the broker last reported it.
DrainedConsumerMirrorsBroker ==
    LocalStates = {} /\ up =>
        \A c \in Clients :
            phase[c] = "open" /\ Drained(c) /\ ~dropped[c]
                => \A o \in Orders : trade[o] \in States \ Terminal => view[c][o] = trade[o]

\* The three ib_async callbacks of one change are one event (orders.py:132-137):
\* successive order events of an order differ, unless its memory was evicted.
NoRepeatedFrames ==
    Cardinality(Orders) <= DedupSize =>
        \A i, j \in DOMAIN buffer : \A o \in Orders :
            /\ i < j
            /\ \A k \in i..j : buffer[k].kind = "order" /\ buffer[k].state[o] # Absent
                                  <=> k \in {i, j}
            => buffer[i].state[o] # buffer[j].state[o]

\* Every change reaches a resuming consumer, and as one event.
EveryChangeOnce == NoSilentGap /\ NoRepeatedFrames

\* What the broker reports is what the stream shows afterwards: dedup drops only
\* frames that say what was sent last (orders.py:128-131, 251-255); an order that
\* ended may also be shown by its absence, as in a bootstrap.
ReportIsShown ==
    [][\A o \in Orders, s \in States :
         BrokerEvent(o, s) /\ up /\ registered
            => shown'[o] = s \/ (s \in Terminal /\ shown'[o] = Absent)]_vars

\* Every event published while a client is connected reaches it, unless its queue
\* overflows or it goes.
EventArrives ==
    \A c \in Clients, n \in 0..(MaxEvents - 1) :
        phase[c] = "open" /\ nextId = n + 1
            ~> lastId[c] >= n \/ dropped[c] \/ phase[c] # "open"

\* A subscription nobody uses any more is forgotten (orders.py:235-240).
IdleIsForgotten == (Attached = {}) ~> (~registered \/ Attached # {})
=============================================================================
