----------------------------- MODULE OrderViews -----------------------------
(***************************************************************************)
(* What the TWS profile tells of an order: the reply to its POST, GET, the *)
(* frames and the bootstrap of the order stream and the trades, all read   *)
(* from ib_async's cache, which TWS fills message by message.              *)
(*                                                                         *)
(* The n-th order ever placed is order n.  It has the session's orderId at *)
(* once and its permId when TWS echoes it; a caller gets to see either.    *)
(* A write session is modelled: a read-only one answers 503 throughout.    *)
(***************************************************************************)
EXTENDS Integers, Sequences, FiniteSets, FiniteSetsExt

CONSTANTS
    Owners,      \* the managed accounts
    PermBase,    \* permIds lie above it, orderIds below
    LimitOrders, \* which orders have a limit price; the others are at market
    Shares,      \* bound of the model: shares of an order
    MaxHeld      \* bound of the model: orders ever placed

ASSUME IdsAssumption ==
    /\ MaxHeld \in Nat /\ PermBase \in Nat /\ Shares \in Nat
    /\ MaxHeld < PermBase

VARIABLES
    held,        \* per order, what the cached order object says of it
    cached,      \* IB.trades(): the orders of the session
    nextOrderId, \* the orderId the session gives next
    execs,       \* IB.fills(): the executions heard of
    given        \* history: ids a caller was told, the order they stood for, and
                 \* whether it is an orderId of a numbering that has ended

orderViewVars == <<held, cached, nextOrderId, execs, given>>

-----------------------------------------------------------------------------
\* The price fields TWS sends for "no price" are DBL_MAX and, after the echo, 0.
LimitFields == {"unset", "zero", "price"}

\* "Other" stands for PendingCancel and for what TWS may send that no table has.
IBStatuses == {"PendingSubmit", "Submitted", "Inactive", "Other", "Filled", "Cancelled"}

\* What ends an order, and what ib_async takes for done: an inactive order is in
\* IB.openTrades() no more, though it may become active again.
FinalStatuses == {"Filled", "Cancelled"}
DoneStatuses == FinalStatuses \cup {"Inactive"}

PermOf(n) == PermBase + n

Holding == [orderId : 0..MaxHeld, permId : {0} \cup {PermOf(n) : n \in 1..MaxHeld},
            account : Owners, limit : LimitFields, status : IBStatuses, filled : 0..Shares]

Held == DOMAIN held
OpenTrades == {n \in cached : held[n].status \notin DoneStatuses}

\* Faulty variant: the id an order is shown with is the only one it is found by.
HasShownId(n, id) ==
    id = IF held[n].permId # 0 THEN held[n].permId ELSE held[n].orderId

\* _find_trade takes either id ...
HasId(n, id) == held[n].permId = id \/ held[n].orderId = id

\* ... and the first order of the session that has it, under the account if one
\* is named; "" names none.
FindTrade(id, account) ==
    LET hits == {n \in cached : HasId(n, id) /\ account \in {"", held[n].account}}
    IN  IF hits = {} THEN 0 ELSE Min(hits)

\* The id a reply or a frame gives an order.
ShownId(n) == IF held[n].permId # 0 THEN held[n].permId ELSE held[n].orderId

PriceOrNone(limit) == IF limit = "price" THEN "price" ELSE "none"

OrderStatusOf(status) ==
    CASE status = "PendingSubmit" -> "PENDING_SUBMIT"
      [] status = "Filled" -> "FILLED"
      [] status = "Cancelled" -> "CANCELLED"
      [] status = "Inactive" -> "INACTIVE"
      [] OTHER -> "SUBMITTED"

FrameStatusOf(status) ==
    CASE status = "Submitted" -> "accepted"
      [] status = "Filled" -> "filled"
      [] status = "Cancelled" -> "cancelled"
      [] OTHER -> "pending"

FillsOf(n) == {e \in execs : e.order = n}

\* _trade_to_order and _trade_to_sor_frame.
OrderView(n) ==
    [id |-> ShownId(n), account |-> held[n].account,
     status |-> OrderStatusOf(held[n].status), filled |-> held[n].filled,
     limit |-> PriceOrNone(held[n].limit), priced |-> held[n].filled > 0]
FrameView(n) ==
    [id |-> ShownId(n), account |-> held[n].account,
     status |-> FrameStatusOf(held[n].status), raw |-> held[n].status,
     filled |-> held[n].filled, priced |-> held[n].filled > 0]

\* The bootstrap of a stream: the open orders of its account.
BootstrapOf(account) == {n \in OpenTrades : held[n].account = account}

-----------------------------------------------------------------------------
\* Trades: the executions of an account, with the permId of their order.  The period
\* of a request spans all of a behaviour; the amounts are left out.
ExecutionsOf(account, fetched) == {e \in fetched : held[e.order].account = account}
TradeRow(e) == [id |-> PermOf(e.order), nth |-> e.nth]

\* reqExecutions may fail or answer nothing: then the session's fills are listed.
FillsFetched(answered) == IF answered = {} THEN execs ELSE answered

-----------------------------------------------------------------------------
Told(id, n) == [id |-> id, order |-> n, stale |-> FALSE]
Tell(id, n) == given' = given \cup {Told(id, n)}

\* place_order: the reply is made of the order object before any echo.
OrderPlaced(account) ==
    LET n == Len(held) + 1 IN
    /\ n <= MaxHeld
    /\ held' = Append(held, [orderId |-> nextOrderId, permId |-> 0, account |-> account,
                             limit |-> IF n \in LimitOrders THEN "price" ELSE "unset",
                             status |-> "PendingSubmit", filled |-> 0])
    /\ cached' = cached \cup {n}
    /\ nextOrderId' = nextOrderId + 1
    /\ Tell(nextOrderId, n)
    /\ UNCHANGED <<execs>>

\* TWS echoes the order (openOrder): its permId, and 0 for a price never set.
OrderEchoed(n) ==
    /\ n \in cached /\ held[n].permId = 0
    /\ held' = [held EXCEPT ![n].permId = PermOf(n),
                            ![n].limit = IF @ = "unset" THEN "zero" ELSE @]
    /\ UNCHANGED <<cached, nextOrderId, execs, given>>

\* orderStatus, before or after the echo: the pump sends a frame of the order.
StatusHeard(n, status, filled) ==
    /\ n \in cached /\ held[n].status \notin FinalStatuses
    /\ filled >= held[n].filled
    /\ status = "Filled" <=> filled = Shares
    /\ held' = [held EXCEPT ![n].status = status, ![n].filled = filled]
    /\ Tell(ShownId(n), n)
    /\ UNCHANGED <<cached, nextOrderId, execs>>

\* TWS executes an order it has accepted.
FillHeard(n) ==
    /\ n \in cached /\ held[n].permId # 0
    /\ Cardinality(FillsOf(n)) < Shares
    /\ execs' = execs \cup {[order |-> n, nth |-> Cardinality(FillsOf(n))]}
    /\ UNCHANGED <<held, cached, nextOrderId, given>>

\* GET of an order or of the list tells the caller the id it has by now, and so
\* does a trade.
OrderRead(n) ==
    /\ n \in cached
    /\ Tell(ShownId(n), n)
    /\ UNCHANGED <<held, cached, nextOrderId, execs>>

TradesRead(account) ==
    /\ given' = given \cup
         {Told(TradeRow(e).id, e.order) :
                e \in ExecutionsOf(account, FillsFetched(execs))}
    /\ UNCHANGED <<held, cached, nextOrderId, execs>>

\* The session is lost and found again.  It hears of its open orders, with or without
\* inactive ones, under another client id of none, and then it counts its orderIds anew.
\* Of completed orders it may hear again, of whatever session: those come with their
\* permId, but with neither an orderId nor what was filled.
SessionFoundAgain(sameClient, inactive, completed) ==
    LET open == IF sameClient THEN OpenTrades \cup inactive ELSE {} IN
    /\ \A n \in inactive : n \in cached /\ held[n].status = "Inactive"
    /\ \A n \in completed : n \notin open /\ held[n].permId # 0
                              /\ held[n].status \in DoneStatuses
    /\ cached' = open \cup completed
    /\ held' = [n \in Held |-> IF n \in completed
                                THEN [held[n] EXCEPT !.orderId = 0, !.filled = 0]
                                ELSE held[n]]
    /\ nextOrderId' = IF sameClient THEN nextOrderId ELSE 1
    /\ given' = {[g EXCEPT !.stale = @ \/ (~sameClient /\ g.id <= PermBase)] : g \in given}
    /\ UNCHANGED execs

-----------------------------------------------------------------------------
OrderViewsInit ==
    /\ held = <<>> /\ cached = {} /\ nextOrderId = 1
    /\ execs = {} /\ given = {}

OrderViewsNext ==
    \/ \E a \in Owners : OrderPlaced(a)
    \/ \E n \in Held : OrderEchoed(n)
    \/ \E n \in Held, s \in IBStatuses, f \in 0..Shares : StatusHeard(n, s, f)
    \/ \E n \in Held : FillHeard(n)
    \/ \E n \in Held : OrderRead(n)
    \/ \E a \in Owners : TradesRead(a)
    \/ \E same \in BOOLEAN, inactive, completed \in SUBSET Held :
            SessionFoundAgain(same, inactive, completed)

OrderViewsSpec == OrderViewsInit /\ [][OrderViewsNext]_orderViewVars

OrderViewsTypeOK ==
    /\ held \in Seq(Holding) /\ Len(held) <= MaxHeld
    /\ cached \subseteq Held
    /\ nextOrderId \in 1..MaxHeld + 1
    /\ \A e \in execs : e.order \in Held
    /\ \A g \in given : g.order \in Held

-----------------------------------------------------------------------------
\* order_id changes from orderId to permId under the caller's eyes, and "Lookup-Pfade
\* akzeptieren beide Varianten" (tws/orders.py:26-29): any id a caller was told, by
\* the POST, a frame, a GET or a trade, leads a GET, DELETE or PATCH to the very order
\* it was told for as long as the cached order has it, and to no other order ever.
\* An orderId of a numbering that a reconnect ended promises nothing.
IdsFindTheirOrder ==
    \A g \in given : ~g.stale =>
        \A account \in {"", held[g.order].account} :
            /\ FindTrade(g.id, account) \in {0, g.order}
            /\ g.order \in cached /\ g.id \in {held[g.order].orderId, held[g.order].permId}
               => FindTrade(g.id, account) = g.order

\* What is final in a frame is final in a GET and gone from the bootstrap; an order is
\* missing in the bootstrap only if the frame is final or its raw_status is "Inactive",
\* a "pending" that ib_async counts as done (tws/orders.py:126, 463); and a limit is
\* shown of an order that has one, no other.
EndingsAgree ==
    \A n \in cached :
        /\ FrameView(n).status = "filled" <=> OrderView(n).status = "FILLED"
        /\ FrameView(n).status = "cancelled" <=> OrderView(n).status = "CANCELLED"
        /\ n \notin BootstrapOf(held[n].account)
             <=> \/ FrameView(n).status \in {"filled", "cancelled"}
                 \/ FrameView(n).raw = "Inactive"
        /\ OrderView(n).limit = "price" <=> n \in LimitOrders

\* All that is told of an order holds together.
OrdersAreToldTruly == IdsFindTheirOrder /\ EndingsAgree
=============================================================================
