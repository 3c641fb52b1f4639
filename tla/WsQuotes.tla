------------------------------ MODULE WsQuotes ------------------------------
(***************************************************************************)
(* Quote subscriptions against the CP gateway: the SubscriptionManager     *)
(* (one _ConidSubscription per conid, refcount, cool-down, teardown), in   *)
(* its polling mode and in its ws mode, there with the WSPushSource, the   *)
(* SubscriptionRegistry and the reconnecting CPWebSocketClient.            *)
(*                                                                         *)
(* What a consumer needs is that the gateway serves its conids; the way of *)
(* a quote from there through rings and queues is that of OrdersStream.    *)
(* All runs on one asyncio loop and neither lock is held across an await,  *)
(* so an action is what happens between two awaits.                        *)
(***************************************************************************)
EXTENDS Integers, Sequences, FiniteSets

CONSTANTS
    Consumers,    \* connection slots of /v1/quotes/stream and /v1/quotes/ws
    Conids,
    Requests,     \* the conid lists clients ask for, duplicates included
    Incarnations, \* tell apart the _ConidSubscription objects of one conid
    NoSub,        \* not an incarnation: _subs has no entry
    MaxConids,    \* max_conids (250)
    MaxAttempts,  \* max_reconnect_attempts
    MaxOrphans,   \* bound of the model: orphaned cool-down tasks per object
    MaxRetracts,  \* bound of the model: usmd frames about to be sent per conid
    MaxDrops      \* bound of the model: losses of the WebSocket connection

ASSUME RequestsAssumption == Requests \subseteq Seq(Conids) \ {<<>>}
ASSUME NoSubAssumption == NoSub \notin Incarnations
ASSUME LimitsAssumption ==
    /\ MaxConids \in Nat /\ MaxAttempts \in Nat \ {0}
    /\ MaxOrphans \in Nat /\ MaxRetracts \in Nat \ {0} /\ MaxDrops \in Nat

VARIABLES
    mode,      \* quotes_source of this manager, fixed at startup
    subs,      \* _subs: the current incarnation per conid, or NoSub
    attached,  \* per consumer: the list "attached" of its subscribe
    phase,     \* per consumer: off, subscribing (in the ws calls), open
    todo,      \* per consumer: conids whose _ws_subscribe is still to be called
    calling,   \* per consumer: the conid whose _ws_subscribe is under way
    polling,   \* objects with a running _poll_task
    coolDown,  \* objects whose _cool_down_task sleeps
    orphans,   \* per object: sleeping cool-down tasks it no longer refers to
    leaving,   \* per object: stop() calls waiting for the unsubscribe GET
    retracts,  \* per conid: usmd frames about to be sent
    registry,  \* conids of the SubscriptionRegistry's entries
    link,      \* up, broken (unnoticed), down (reconnecting), off (given up)
    attempts,  \* failed attempts of the current _reconnect
    replay,    \* conids the running registry.replay has still to send
    served,    \* conids the gateway holds a subscription for
    drops,     \* counts the losses of the connection
    doubled,   \* history: conids that a list named twice
    failed     \* history: conids whose last unsubscribe GET failed

managerVars == <<subs, attached, polling, coolDown, orphans, leaving, doubled>>
callVars    == <<phase, todo, calling>>
linkVars    == <<link, attempts, replay, drops>>
vars == <<mode, managerVars, callVars, linkVars, retracts, registry, served, failed>>

-----------------------------------------------------------------------------
Objects == Conids \X Incarnations

Active == {k \in Conids : subs[k] # NoSub}

\* The objects a consumer is attached to, and the consumers of an object.
Held(c) == {attached[c][i] : i \in DOMAIN attached[c]}
Users(o) == {c \in Consumers : o \in Held(c)}

\* Faulty variant: only the repetitions are counted.
Repetitions(c, o) == Cardinality({i \in DOMAIN attached[c] : attached[c][i] = o}) - 1

\* How often c is attached to o.
Times(c, o) == Cardinality({i \in DOMAIN attached[c] : attached[c][i] = o})

Named(request) == {request[i] : i \in DOMAIN request}

NamedTwice(request) ==
    {k \in Conids : \E i, j \in DOMAIN request :
                        i # j /\ request[i] = k /\ request[j] = k}

\* Incarnations that no part of the program refers to any more.
Unused(k) ==
    {g \in Incarnations :
        LET o == <<k, g>> IN
        /\ subs[k] # g /\ Users(o) = {} /\ o \notin polling \cup coolDown
        /\ orphans[o] = 0 /\ leaving[o] = 0}

\* Faulty variant: an existing subscription is replaced.
SubscriptionOfAfresh(k) ==
    IF Unused(k) # {} THEN CHOOSE g \in Incarnations : g \in Unused(k) ELSE subs[k]

\* The incarnation a subscribe for k ends up with.
SubscriptionOf(k) ==
    IF subs[k] = NoSub THEN CHOOSE g \in Incarnations : g \in Unused(k) ELSE subs[k]

\* max_conids against what a request adds: a new conid counts as often as named.
WithinLimit(request) ==
    Cardinality(Active)
        + Cardinality({i \in DOMAIN request : request[i] \notin Active}) <= MaxConids

-----------------------------------------------------------------------------
\* Faulty variant: the registry learns of k only from a successful send.
CallNextLate(c, pending) ==
    \E k \in pending :
        /\ calling' = [calling EXCEPT ![c] = {k}]
        /\ todo' = [todo EXCEPT ![c] = pending \ {k}]
        /\ registry' = IF link = "up" THEN registry \cup {k} ELSE registry

\* The next _ws_subscribe: registry.add and on to the preload, which awaits.
CallNext(c, pending) ==
    \E k \in pending :
        /\ calling' = [calling EXCEPT ![c] = {k}]
        /\ todo' = [todo EXCEPT ![c] = pending \ {k}]
        /\ registry' = registry \cup {k}

\* attach_consumer: the cool-downs the objects refer to are cancelled.
CancelCoolDowns(objects) == coolDown \ objects

\* SubscriptionManager.subscribe up to its first real await.  A request above the
\* limit raises and changes nothing.
Subscribe(c, request) ==
    LET new == Named(request) \ Active
        objects == {<<k, SubscriptionOf(k)>> : k \in Named(request)}
    IN
    /\ phase[c] = "off"
    /\ WithinLimit(request)
    /\ \A k \in new : Unused(k) # {}
    /\ subs' = [k \in Conids |-> IF k \in Named(request) THEN SubscriptionOf(k) ELSE subs[k]]
    /\ attached' = [attached EXCEPT ![c] =
                       [i \in DOMAIN request |-> <<request[i], SubscriptionOf(request[i])>>]]
    /\ coolDown' = CancelCoolDowns(objects)
    /\ doubled' = doubled \cup NamedTwice(request)
    /\ IF mode = "ws" /\ new # {}
       THEN /\ phase' = [phase EXCEPT ![c] = "subscribing"]
            /\ CallNext(c, new)
       ELSE /\ phase' = [phase EXCEPT ![c] = "open"]
            /\ UNCHANGED <<todo, calling, registry>>
    /\ polling' = IF mode = "polling"
                  THEN polling \cup {o \in objects : o[1] \in new} ELSE polling
    /\ UNCHANGED <<mode, orphans, leaving, linkVars, retracts, served, failed>>

\* The preload is done: the smd frame goes out, or is swallowed while the link is
\* not up, and the next call starts or subscribe returns its iterator.
SendSubscribe(c) ==
    /\ phase[c] = "subscribing"
    /\ served' = IF link = "up" THEN served \cup calling[c] ELSE served
    /\ IF todo[c] # {}
       THEN /\ CallNext(c, todo[c])
            /\ UNCHANGED phase
       ELSE /\ phase' = [phase EXCEPT ![c] = "open"]
            /\ calling' = [calling EXCEPT ![c] = {}]
            /\ UNCHANGED <<todo, registry>>
    /\ UNCHANGED <<mode, managerVars, linkVars, retracts, failed>>

\* A poll answered: asking for a snapshot subscribes the conid at the gateway.
Poll(o) ==
    /\ o \in polling
    /\ served' = served \cup {o[1]}
    /\ UNCHANGED <<mode, managerVars, callVars, linkVars, retracts, registry, failed>>

-----------------------------------------------------------------------------
\* Faulty variant: only a consumer that leaves an object others use starts one.
IdleAfterInverted(c) == {o \in Held(c) : Users(o) # {c}}

IdleAfter(c) == {o \in Held(c) : Users(o) = {c}}

\* The consumer goes and the iterator's finally detaches it, once per element of
\* attached: the last consumer starts a cool-down task each time, and the object
\* keeps the last one only.
Detach(c) ==
    LET idle == IdleAfter(c) IN
    /\ phase[c] = "open"
    /\ \A o \in idle : orphans[o] + Times(c, o) - 1 <= MaxOrphans
    /\ phase' = [phase EXCEPT ![c] = "off"]
    /\ attached' = [attached EXCEPT ![c] = <<>>]
    /\ coolDown' = coolDown \cup idle
    /\ orphans' = [o \in Objects |->
                      IF o \in idle THEN orphans[o] + Times(c, o) - 1 ELSE orphans[o]]
    /\ UNCHANGED <<mode, subs, polling, leaving, doubled, todo, calling, linkVars,
                   retracts, registry, served, failed>>

StopPoll(o) == polling \ {o}

\* Faulty variant: the cancellation reaches the GET in polling mode, too.
CancelledAlways(own) == own

\* stop() cancels the cool-down task that the object refers to.  Run by that very
\* task, the CancelledError is raised at its next await: in polling mode the wait
\* for the poll task, which swallows it, in ws mode the unsubscribe GET.
Cancelled(own) == own /\ mode = "ws"

\* _teardown and stop() up to the GET; _subs forgets the conid, whatever object it
\* holds there.
Teardown(o, own) ==
    /\ subs' = [subs EXCEPT ![o[1]] = NoSub]
    /\ polling' = StopPoll(o)
    /\ coolDown' = coolDown \ {o}
    /\ leaving' = IF Cancelled(own) THEN leaving ELSE [leaving EXCEPT ![o] = @ + 1]

\* The cool-down task of o ends its sleep.  The sleeps are equally long, so the
\* orphaned tasks of o, which are older, end theirs first.
CoolDownExpires(o) ==
    /\ o \in coolDown /\ orphans[o] = 0
    /\ IF Users(o) = {} THEN Teardown(o, TRUE)
       ELSE /\ coolDown' = coolDown \ {o}
            /\ UNCHANGED <<subs, polling, leaving>>
    /\ UNCHANGED <<mode, attached, orphans, doubled, callVars, linkVars, retracts,
                   registry, served, failed>>

\* So does one that a repeated detach_consumer has orphaned and nobody can cancel.
OrphanExpires(o) ==
    /\ orphans[o] > 0
    /\ orphans' = [orphans EXCEPT ![o] = @ - 1]
    /\ IF Users(o) = {} THEN Teardown(o, FALSE)
       ELSE UNCHANGED <<subs, polling, coolDown, leaving>>
    /\ UNCHANGED <<mode, attached, doubled, callVars, linkVars, retracts, registry,
                   served, failed>>

\* The GET .../unsubscribe of stop() is answered or fails.  In ws mode there follows
\* unsubscribe_quotes, up to its send.
Unsubscribe(o, ok) ==
    LET k == o[1] IN
    /\ leaving[o] > 0 /\ retracts[k] < MaxRetracts
    /\ leaving' = [leaving EXCEPT ![o] = @ - 1]
    /\ served' = IF ok THEN served \ {k} ELSE served
    /\ failed' = IF ok THEN failed \ {k} ELSE failed \cup {k}
    /\ IF mode = "ws"
       THEN /\ registry' = registry \ {k}
            /\ retracts' = IF link = "up" THEN [retracts EXCEPT ![k] = @ + 1] ELSE retracts
       ELSE UNCHANGED <<registry, retracts>>
    /\ UNCHANGED <<mode, subs, attached, polling, coolDown, orphans, doubled, callVars,
                   linkVars>>

\* The usmd frame goes out.
SendUnsubscribe(k) ==
    /\ retracts[k] > 0
    /\ retracts' = [retracts EXCEPT ![k] = @ - 1]
    /\ served' = IF link = "up" THEN served \ {k} ELSE served
    /\ UNCHANGED <<mode, managerVars, callVars, linkVars, registry, failed>>

-----------------------------------------------------------------------------
\* The connection breaks: the gateway forgets all its subscriptions, and a send
\* fails although the client still takes itself for connected.
Drop ==
    /\ link = "up" /\ drops < MaxDrops
    /\ link' = "broken"
    /\ served' = {}
    /\ drops' = drops + 1
    /\ UNCHANGED <<mode, managerVars, callVars, attempts, replay, retracts, registry,
                   failed>>

\* recv fails: _reconnect.  The reader runs the replay as well, so not before that.
NoticeDrop ==
    /\ link = "broken" /\ replay = {}
    /\ link' = "down"
    /\ attempts' = 0
    /\ UNCHANGED <<mode, managerVars, callVars, replay, drops, retracts, registry,
                   served, failed>>

\* Faulty variant: the callbacks only fire on the first connect.
ToReplayNothing == {}

\* registry.replay copies the entries before its first send.
ToReplay == registry

ReconnectSucceeds ==
    /\ link = "down"
    /\ link' = "up"
    /\ attempts' = 0
    /\ replay' = ToReplay
    /\ UNCHANGED <<mode, managerVars, callVars, drops, retracts, registry, served,
                   failed>>

\* After the last attempt the client closes itself for good.
ReconnectFails ==
    /\ link = "down"
    /\ attempts' = attempts + 1
    /\ link' = IF attempts + 1 < MaxAttempts THEN link ELSE "off"
    /\ UNCHANGED <<mode, managerVars, callVars, replay, drops, retracts, registry,
                   served, failed>>

\* Replay sends the next entry; a failure is logged and the loop goes on.
ReplaySend(k) ==
    /\ k \in replay
    /\ replay' = replay \ {k}
    /\ served' = IF link = "up" THEN served \cup {k} ELSE served
    /\ UNCHANGED <<mode, managerVars, callVars, link, attempts, drops, retracts,
                   registry, failed>>

-----------------------------------------------------------------------------
\* main.py connects the WebSocket before there is a consumer, or falls back.
Init ==
    /\ mode \in {"polling", "ws"}
    /\ subs = [k \in Conids |-> NoSub]
    /\ attached = [c \in Consumers |-> <<>>]
    /\ phase = [c \in Consumers |-> "off"]
    /\ todo = [c \in Consumers |-> {}]
    /\ calling = [c \in Consumers |-> {}]
    /\ polling = {}
    /\ coolDown = {}
    /\ orphans = [o \in Objects |-> 0]
    /\ leaving = [o \in Objects |-> 0]
    /\ retracts = [k \in Conids |-> 0]
    /\ registry = {}
    /\ link = IF mode = "ws" THEN "up" ELSE "off"
    /\ attempts = 0
    /\ replay = {}
    /\ served = {}
    /\ drops = 0
    /\ doubled = {}
    /\ failed = {}

Next ==
    \/ \E c \in Consumers, request \in Requests : Subscribe(c, request)
    \/ \E c \in Consumers : SendSubscribe(c)
    \/ \E c \in Consumers : Detach(c)
    \/ \E o \in Objects : Poll(o)
    \/ \E o \in Objects : CoolDownExpires(o)
    \/ \E o \in Objects : OrphanExpires(o)
    \/ \E o \in Objects, ok \in BOOLEAN : Unsubscribe(o, ok)
    \/ \E k \in Conids : SendUnsubscribe(k)
    \/ Drop
    \/ NoticeDrop
    \/ ReconnectSucceeds
    \/ ReconnectFails
    \/ \E k \in Conids : ReplaySend(k)

\* The loop runs every ready task and every timer, and every request is answered,
\* fails or times out.  Clients and the connection owe nothing.
Fairness ==
    /\ \A c \in Consumers : WF_vars(SendSubscribe(c))
    /\ \A o \in Objects :
        /\ WF_vars(Poll(o))
        /\ WF_vars(CoolDownExpires(o))
        /\ WF_vars(OrphanExpires(o))
        /\ WF_vars(\E ok \in BOOLEAN : Unsubscribe(o, ok))
    /\ \A k \in Conids : WF_vars(SendUnsubscribe(k)) /\ WF_vars(ReplaySend(k))
    /\ WF_vars(NoticeDrop)
    /\ WF_vars(ReconnectSucceeds \/ ReconnectFails)

Spec == Init /\ [][Next]_vars

FairSpec == Spec /\ Fairness

-----------------------------------------------------------------------------
\* Types of all variables.
TypeOK ==
    /\ mode \in {"polling", "ws"}
    /\ subs \in [Conids -> Incarnations \cup {NoSub}]
    /\ attached \in [Consumers -> Seq(Objects)]
    /\ phase \in [Consumers -> {"off", "subscribing", "open"}]
    /\ todo \in [Consumers -> SUBSET Conids]
    /\ calling \in [Consumers -> SUBSET Conids]
    /\ polling \subseteq Objects
    /\ coolDown \subseteq Objects
    /\ orphans \in [Objects -> Nat]
    /\ leaving \in [Objects -> Nat]
    /\ retracts \in [Conids -> Nat]
    /\ registry \subseteq Conids
    /\ link \in {"up", "broken", "down", "off"}
    /\ attempts \in Nat
    /\ replay \subseteq Conids
    /\ served \subseteq Conids
    /\ drops \in Nat
    /\ doubled \subseteq Conids
    /\ failed \subseteq Conids

\* Conids a subscribe in progress has yet to ask the gateway for.
Underway == UNION {todo[c] \cup calling[c] : c \in Consumers}

\* A cool-down never ends a subscription under a consumer: whatever connects,
\* disconnects and teardowns cross, an attached consumer's object is the one publish
\* and later subscribers find (manager.py:263-270, 380-384).  A list that names a
\* conid twice breaks this, for that conid alone.
ConsumersKeepTheirSubscription ==
    \A c \in Consumers : \A o \in Held(c) :
        o[1] \notin doubled => subs[o[1]] = o[2]

\* A reconnect is invisible to consumers (registry.py:3-7, ws_source.py:210-214):
\* with the link up and the replay done, the gateway serves every conid that has a
\* consumer, also where the subscribe crossed the drop, the reconnect or the replay.
ReconnectRestoresFeeds ==
    mode = "ws" /\ link = "up" /\ replay = {} =>
        \A c \in Consumers : \A o \in Held(c) :
            o[1] \notin doubled \cup Underway => o[1] \in served

\* "Pro conid genau eine Subscription" (manager.py:3-5): in polling mode one poll
\* task runs per active conid, and none for a conid without a subscription.
OnePollPerConid ==
    mode = "polling" =>
        \A k \in Conids \ doubled :
            {g \in Incarnations : <<k, g>> \in polling} = {subs[k]} \ {NoSub}

\* Once nothing is under way any more, the gateway holds no subscription that the
\* manager has forgotten (manager.py:17-19, docs/api/v1.md:844).
ForgottenIsUnsubscribed ==
    \A k \in Conids :
        /\ k \in served \ (failed \cup doubled \cup Underway)
        /\ \A g \in Incarnations : leaving[<<k, g>>] = 0
        => subs[k] # NoSub

\* ... which is so in polling mode.
PollingForgottenIsUnsubscribed == mode = "polling" => ForgottenIsUnsubscribed

\* In polling mode the poll tasks and the gateway's subscriptions follow the manager's,
\* whatever subscribes, cool-downs and teardowns cross.
PollingFollowsSubscriptions == OnePollPerConid /\ PollingForgottenIsUnsubscribed

\* The conid has a consumer.
Used(k) == \E c \in Consumers : \E o \in Held(c) : o[1] = k

\* A conid with consumers is served in the end, through drops and failed sends and
\* whoever joins or leaves meanwhile, unless all go or the client has given up
\* reconnecting (ws_source.py:210-214).
FeedArrives ==
    \A k \in Conids :
        Used(k) /\ k \notin doubled
            ~> \/ ~Used(k) \/ k \in served \cup doubled
               \/ mode = "ws" /\ link = "off"

\* A subscription without consumers is forgotten, or used again (manager.py:17-20).
IdleIsForgotten ==
    \A k \in Conids :
        k \in Active /\ Users(<<k, subs[k]>>) = {}
            ~> k \notin Active \/ Users(<<k, subs[k]>>) # {}
=============================================================================
