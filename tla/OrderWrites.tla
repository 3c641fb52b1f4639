---------------------------- MODULE OrderWrites ----------------------------
(***************************************************************************)
(* The write endpoints of /v1/orders (POST, DELETE, PATCH), the            *)
(* IdempotencyStore in front of them and the TWSOrdersService behind them, *)
(* down to the calls ib_async gets.                                        *)
(*                                                                         *)
(* A handler runs on the asyncio loop.  Cancel and modify never suspend    *)
(* between the look into the store and the answer, so each is one action;  *)
(* place suspends once, while the contract is qualified.  A caller that    *)
(* has given up waiting changes nothing: its handler runs to the end.      *)
(***************************************************************************)
EXTENDS Integers, Sequences, FiniteSets

CONSTANTS
    Slots,       \* POST handlers that can be suspended at a time
    Keys,        \* Idempotency-Key values the callers use
    Accounts,    \* account ids a request may carry ...
    Managed,     \* ... and those of the TWS session
    Levels,      \* stop or limit levels of an order
    MaxOrders    \* bound of the model: orders ever placed

ASSUME AccountsAssumption == Managed \subseteq Accounts
ASSUME OrderBoundAssumption == MaxOrders \in Nat

VARIABLES
    store,       \* IdempotencyStore._entries: scoped key -> reply, or NoReply
    serving,     \* per slot: the POST that awaits its contract, or Idle
    orders,      \* every order placed, in the order of their ids
    calls,       \* history: the broker calls that succeeded
    answers,     \* history: the 200 and 201 replies that were given
    overlapped,  \* history: two POSTs with the key were served at once
    forgotten    \* history: the key's stored POST reply was lost

histVars == <<calls, answers, overlapped, forgotten>>
vars == <<store, serving, orders, histVars>>

-----------------------------------------------------------------------------
OrderIds == 1..MaxOrders

\* The reply stored under a key; 0, no order's id, where nothing is stored.
NoReply == 0

Requests == [key : Keys, account : Accounts, level : Levels]
Idle     == [idle |-> TRUE]

\* known: IB.trades() lists it; open: neither filled nor cancelled; level: what
\* the cached order object says; sent: the level of the last call to the broker.
Order == [key : Keys, account : Accounts, known : BOOLEAN, open : BOOLEAN,
          level : Levels, sent : Levels]

Methods    == {"POST", "DELETE", "PATCH"}
Scopes     == ({"POST", "DELETE"} \X {0}) \cup ({"PATCH"} \X OrderIds)
ScopedKeys == Scopes \X Keys

\* Faulty variant: all methods share their keys.
ScopeShared(method, id) == <<"POST", 0>>

\* The scope of a request's key: the method, and for PATCH the order as well.
Scope(method, id) == IF method = "PATCH" THEN <<method, id>> ELSE <<method, 0>>

Stored(method, id, key) == store[<<Scope(method, id), key>>]

\* Faulty variant: the next order's id is remembered.
RememberNextId(method, id, key, reply) ==
    store' = [store EXCEPT ![<<Scope(method, id), key>>] = Len(orders) + 1]

\* IdempotencyStore.put of the reply, which names the order.
Remember(method, id, key, reply) ==
    store' = [store EXCEPT ![<<Scope(method, id), key>>] = reply]

Answer(method, id, key, reply) ==
    answers' = answers \cup
        {[method |-> method, id |-> Scope(method, id)[2], key |-> key, reply |-> reply]}

\* A request that finds its key in the store is answered with what is there.
Replay(method, id, key) ==
    /\ Stored(method, id, key) # NoReply
    /\ Answer(method, id, key, Stored(method, id, key))
    /\ UNCHANGED <<store, serving, orders, calls, overlapped, forgotten>>

Called(method, id, key) ==
    calls' = calls \cup {[method |-> method, id |-> id, key |-> key]}

\* _find_trade: the session knows the order, and under the account asked for.
Found(id, account) == orders[id].known /\ orders[id].account = account

\* The slots that serve a POST with the key.
ServingKey(key) == {s \in Slots : serving[s] # Idle /\ serving[s].key = key}

-----------------------------------------------------------------------------
PostReplay(key) == Replay("POST", 0, key)

\* Faulty variant: the store is not asked.
PostStartsUnasked(s, request) ==
    /\ serving[s] = Idle
    /\ Managed # {} => request.account \in Managed
    /\ serving' = [serving EXCEPT ![s] = request]
    /\ overlapped' = [overlapped EXCEPT
                        ![request.key] = @ \/ ServingKey(request.key) # {}]
    /\ UNCHANGED <<store, orders, calls, answers, forgotten>>

\* place_order up to its await.  Where the account is not one of the session's
\* (400), or the session is read-only (503), nothing changes.
PostStarts(s, request) ==
    /\ serving[s] = Idle
    /\ Stored("POST", 0, request.key) = NoReply
    /\ Managed # {} => request.account \in Managed
    /\ serving' = [serving EXCEPT ![s] = request]
    /\ overlapped' = [overlapped EXCEPT
                        ![request.key] = @ \/ ServingKey(request.key) # {}]
    /\ UNCHANGED <<store, orders, calls, answers, forgotten>>

\* No contract of that conid (400), or IB.placeOrder raises (502).
PostFails(s) ==
    /\ serving[s] # Idle
    /\ serving' = [serving EXCEPT ![s] = Idle]
    /\ UNCHANGED <<store, orders, histVars>>

\* The contract is there: IB.placeOrder, the reply into the store, 201.
PostPlaces(s) ==
    LET request == serving[s]
        id      == Len(orders) + 1
    IN
    /\ serving[s] # Idle
    /\ id \in OrderIds
    /\ orders' = Append(orders,
                        [key |-> request.key, account |-> request.account,
                         known |-> TRUE, open |-> TRUE,
                         level |-> request.level, sent |-> request.level])
    /\ serving' = [serving EXCEPT ![s] = Idle]
    /\ Called("POST", id, request.key)
    /\ Remember("POST", 0, request.key, id)
    /\ Answer("POST", 0, request.key, id)
    /\ UNCHANGED <<overlapped, forgotten>>

-----------------------------------------------------------------------------
CancelReplay(id, key) == Replay("DELETE", id, key)

\* cancel_order: 404 for an order that is not found and 502 where cancelOrder
\* raises leave no trace.  The answer says Cancelled whatever the broker does.
Cancel(id, key, account) ==
    /\ Stored("DELETE", id, key) = NoReply
    /\ id \in DOMAIN orders /\ Found(id, account)
    /\ Called("DELETE", id, key)
    /\ Remember("DELETE", id, key, id)
    /\ Answer("DELETE", id, key, id)
    /\ UNCHANGED <<serving, orders, overlapped, forgotten>>

ModifyReplay(id, key) == Replay("PATCH", id, key)

\* modify_order finds the order and sets the level on the cached order object ...
ModifyReached(id, key, account) ==
    /\ Stored("PATCH", id, key) = NoReply
    /\ Managed # {} => account \in Managed
    /\ id \in DOMAIN orders /\ Found(id, account)

\* ... then IB.placeOrder sends the order again ...
Modify(id, key, account, level) ==
    /\ ModifyReached(id, key, account)
    /\ orders' = [orders EXCEPT ![id].level = level, ![id].sent = level]
    /\ Called("PATCH", id, key)
    /\ Remember("PATCH", id, key, id)
    /\ Answer("PATCH", id, key, id)
    /\ UNCHANGED <<serving, overlapped, forgotten>>

\* ... or raises (502), and the cached order object keeps the level.
ModifyFails(id, key, account, level) ==
    /\ ModifyReached(id, key, account)
    /\ orders' = [orders EXCEPT ![id].level = level]
    /\ UNCHANGED <<store, serving, histVars>>

-----------------------------------------------------------------------------
\* The broker reports an open order: ib_async takes over what it says.
OpenOrderReport(id) ==
    /\ id \in DOMAIN orders /\ orders[id].known /\ orders[id].open
    /\ orders' = [orders EXCEPT ![id].level = orders[id].sent]
    /\ UNCHANGED <<store, serving, histVars>>

\* The broker fills or cancels an order.
OrderDone(id) ==
    /\ id \in DOMAIN orders /\ orders[id].open
    /\ orders' = [orders EXCEPT ![id].open = FALSE]
    /\ UNCHANGED <<store, serving, histVars>>

\* The TTL of an entry passes: the next get drops it.
Expire(entry) ==
    /\ store[entry] # NoReply
    /\ store' = [store EXCEPT ![entry] = NoReply]
    /\ forgotten' = [k \in Keys |-> forgotten[k] \/ entry = <<Scope("POST", 0), k>>]
    /\ UNCHANGED <<serving, orders, calls, answers, overlapped>>

\* The process dies and starts anew: store and suspended handlers are lost, and
\* the session hears of the open orders only.
Restart ==
    /\ store' = [e \in ScopedKeys |-> NoReply]
    /\ serving' = [s \in Slots |-> Idle]
    /\ orders' = [i \in DOMAIN orders |->
                    [orders[i] EXCEPT !.known = @ /\ orders[i].open,
                                      !.level = orders[i].sent]]
    /\ forgotten' = [k \in Keys |-> forgotten[k] \/ Stored("POST", 0, k) # NoReply]
    /\ UNCHANGED <<calls, answers, overlapped>>

-----------------------------------------------------------------------------
Init ==
    /\ store = [e \in ScopedKeys |-> NoReply]
    /\ serving = [s \in Slots |-> Idle]
    /\ orders = <<>>
    /\ calls = {}
    /\ answers = {}
    /\ overlapped = [k \in Keys |-> FALSE]
    /\ forgotten = [k \in Keys |-> FALSE]

Next ==
    \/ \E k \in Keys : PostReplay(k)
    \/ \E s \in Slots, request \in Requests : PostStarts(s, request)
    \/ \E s \in Slots : PostFails(s)
    \/ \E s \in Slots : PostPlaces(s)
    \/ \E id \in OrderIds, k \in Keys : CancelReplay(id, k)
    \/ \E id \in OrderIds, k \in Keys, a \in Accounts : Cancel(id, k, a)
    \/ \E id \in OrderIds, k \in Keys : ModifyReplay(id, k)
    \/ \E id \in OrderIds, k \in Keys, a \in Accounts, l \in Levels : Modify(id, k, a, l)
    \/ \E id \in OrderIds, k \in Keys, a \in Accounts, l \in Levels : ModifyFails(id, k, a, l)
    \/ \E id \in OrderIds : OpenOrderReport(id)
    \/ \E id \in OrderIds : OrderDone(id)
    \/ \E entry \in ScopedKeys : Expire(entry)
    \/ Restart

Spec == Init /\ [][Next]_vars

-----------------------------------------------------------------------------
\* The orders GET /v1/orders lists, and the orders placed under a key.
ListedOrders == {i \in DOMAIN orders : orders[i].known /\ orders[i].open}
PlacedWith(key) == {i \in DOMAIN orders : orders[i].key = key}

\* Types of all variables; stored replies and calls name orders that exist.
TypeOK ==
    /\ store \in [ScopedKeys -> 0..Len(orders)]
    /\ serving \in [Slots -> Requests \cup {Idle}]
    /\ orders \in Seq(Order)
    /\ Len(orders) <= MaxOrders
    /\ calls \subseteq [method : Methods, id : DOMAIN orders, key : Keys]
    /\ answers \subseteq
         [method : Methods, id : OrderIds \cup {0}, key : Keys, reply : DOMAIN orders]
    /\ overlapped \in [Keys -> BOOLEAN]
    /\ forgotten \in [Keys -> BOOLEAN]

\* What a retry may rely on (docs/05-api.md:147): a caller that sends a POST again
\* with its key only after the last attempt has ended, however it ended, has placed
\* one order at most, unless the entry expired or the process was restarted.
RetryPlacesOnce ==
    \A k \in Keys : ~overlapped[k] /\ ~forgotten[k] =>
        \A i, j \in PlacedWith(k) : i = j

\* The replies to POSTs with a key.
ToldOf(key) == {a.reply : a \in {b \in answers : b.method = "POST" /\ b.key = key}}

\* Handlers, scopes, store and session together keep the promise of the header
\* (docs/05-api.md:88-90): the effects of a key are the orders placed with it.
Promise == INSTANCE AtMostOnce WITH
    Effects <- OrderIds,
    effects <- [k \in Keys |-> PlacedWith(k)],
    told    <- [k \in Keys |-> ToldOf(k)],
    lapsed  <- {k \in Keys : overlapped[k] \/ forgotten[k]}

KeepsThePromise == Promise!KeysSpec

\* No false OK: a 200 or 201, replayed or not, names an order on which a call of the
\* request's own method was made under the request's own key, and a PATCH the very
\* order asked for (api/v1/orders.py:225-228).
NoFalseOk ==
    \A a \in answers :
        /\ [method |-> a.method, id |-> a.reply, key |-> a.key] \in calls
        /\ a.method = "PATCH" => a.reply = a.id

\* "Wiederholungen liefern identische Response" (docs/05-api.md:88): a caller whose
\* calls did not overlap is told one and the same order for as long as the
\* entry lives, also where a replay comes after the order is gone.
ReplaysAgree ==
    \A a, b \in answers :
        /\ a.method = "POST" /\ b.method = "POST" /\ a.key = b.key
        /\ ~overlapped[a.key] /\ ~forgotten[a.key]
        => a.reply = b.reply

\* What a client may rely on in an answer (docs/05-api.md:88-90).
RepliesCanBeTrusted == NoFalseOk /\ ReplaysAgree

\* An Idempotency-Key alone protects from a double submit (docs/api/v1.md:1040;
\* docs/05-api.md:88-89: "ohne erneuten Broker-Call"): one key, one order.
KeyPlacesOnce ==
    \A k \in Keys : ~forgotten[k] => \A i, j \in PlacedWith(k) : i = j

\* GET /v1/orders is the broker's view and the source of truth for stops
\* (api/v1/orders.py:116-117): a listed level is the last one the broker was sent.
ListShowsBrokersLevels == \A i \in ListedOrders : orders[i].level = orders[i].sent
=============================================================================
