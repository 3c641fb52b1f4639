------------------------------- MODULE CPOrders -------------------------------
(***************************************************************************)
(* OrdersService of the CP profile: an order is placed by a POST that the  *)
(* gateway may answer with questions, each of which is confirmed, up to    *)
(* MaxRounds times.  The gateway acts when it answers, and its answer may  *)
(* be an error, carry nothing that can be used, or never arrive.           *)
(***************************************************************************)
EXTENDS Integers, Sequences

CONSTANTS
    Handlers,     \* requests of POST /v1/orders
    Warnings,     \* texts of the gateway's questions
    MaxRounds     \* _MAX_REPLY_ROUNDS

ASSUME RoundsAssumption == MaxRounds \in Nat \ {0}

VARIABLES
    wanted,       \* the side each request asks for
    stage,        \* where the handler is
    rounds,       \* responses that its loop has looked at
    told,         \* warnings collected
    reply,        \* the gateway's response that the handler has not looked at
    placed,       \* the order at the gateway, or NotPlaced
    confirmed,    \* history: warnings that were confirmed
    result        \* the order returned, or NotPlaced

cpOrderVars == <<wanted, stage, rounds, told, reply, placed, confirmed, result>>

Sides     == {"BUY", "SELL"}
Statuses  == {"PendingSubmit", "Submitted", "Filled", "Cancelled", "Rejected", "Inactive"}
NotPlaced == [status |-> "none", side |-> "none"]
NoReply   == [kind |-> "none", text |-> "none", entry |-> NotPlaced]
Unusable  == {"error", "empty", "no_id"}

\* How the gateway may write the order down: fields are absent or in other words.
Entries(order) == {order, [order EXCEPT !.side = "absent"], [order EXCEPT !.status = "PreSubmitted"]}

\* _entry_to_order: a side that is not known is the request's, a status Submitted.
EntryToOrder(entry, side) ==
    [status |-> IF entry.status \in Statuses THEN entry.status ELSE "Submitted",
     side   |-> IF entry.side \in Sides THEN entry.side ELSE side]

-----------------------------------------------------------------------------
\* place_order, _request_to_cp_body: the first POST.
PostOrder(r) ==
    /\ stage[r] = "new" /\ stage' = [stage EXCEPT ![r] = "waiting"]
    /\ UNCHANGED <<wanted, rounds, told, reply, placed, confirmed, result>>

\* The gateway asks, or answers with something that is of no use.
GatewayAsks(r) ==
    /\ stage[r] = "waiting" /\ reply[r] = NoReply /\ placed[r] = NotPlaced
    /\ \/ \E w \in Warnings :
            reply' = [reply EXCEPT ![r] = [kind |-> "question", text |-> w, entry |-> NotPlaced]]
       \/ \E k \in Unusable : reply' = [reply EXCEPT ![r].kind = k]
    /\ UNCHANGED <<wanted, stage, rounds, told, placed, confirmed, result>>

\* The gateway places the order, whether its answer says so or not.
GatewayPlaces(r) ==
    /\ stage[r] = "waiting" /\ reply[r] = NoReply /\ placed[r] = NotPlaced
    /\ placed' = [placed EXCEPT ![r] = [status |-> "Submitted", side |-> wanted[r]]]
    /\ \/ \E e \in Entries(placed'[r]) :
            reply' = [reply EXCEPT ![r] = [kind |-> "order", text |-> "none", entry |-> e]]
       \/ reply' = [reply EXCEPT ![r].kind = "error"]
    /\ UNCHANGED <<wanted, stage, rounds, told, confirmed, result>>

Failed(r) == /\ stage' = [stage EXCEPT ![r] = "failed"]
             /\ UNCHANGED <<told, confirmed, result>>

\* Faulty variant: the loop ends one response too early.
HandleReplyShort(r) ==
    /\ stage[r] = "waiting" /\ reply[r] # NoReply
    /\ rounds' = [rounds EXCEPT ![r] = @ + 1]
    /\ IF rounds[r] + 1 = MaxRounds \/ reply[r].kind \in Unusable
       THEN Failed(r) /\ UNCHANGED reply
       ELSE IF reply[r].kind = "order"
       THEN /\ result' = [result EXCEPT ![r] = EntryToOrder(reply[r].entry, wanted[r])]
            /\ stage' = [stage EXCEPT ![r] = "returned"]
            /\ UNCHANGED <<told, confirmed, reply>>
       ELSE /\ told' = [told EXCEPT ![r] = Append(@, reply[r].text)]
            /\ confirmed' = [confirmed EXCEPT ![r] = Append(@, reply[r].text)]
            /\ reply' = [reply EXCEPT ![r] = NoReply]
            /\ UNCHANGED <<stage, result>>
    /\ UNCHANGED <<wanted, placed>>

\* The loop looks at a response: a question is confirmed; what answers the last
\* confirmation is not looked at.
HandleReply(r) ==
    /\ stage[r] = "waiting" /\ reply[r] # NoReply
    /\ rounds' = [rounds EXCEPT ![r] = @ + 1]
    /\ IF rounds[r] = MaxRounds \/ reply[r].kind \in Unusable
       THEN Failed(r) /\ UNCHANGED reply
       ELSE IF reply[r].kind = "order"
       THEN /\ result' = [result EXCEPT ![r] = EntryToOrder(reply[r].entry, wanted[r])]
            /\ stage' = [stage EXCEPT ![r] = "returned"]
            /\ UNCHANGED <<told, confirmed, reply>>
       ELSE /\ told' = [told EXCEPT ![r] = Append(@, reply[r].text)]
            /\ confirmed' = [confirmed EXCEPT ![r] = Append(@, reply[r].text)]
            /\ reply' = [reply EXCEPT ![r] = NoReply]
            /\ UNCHANGED <<stage, result>>
    /\ UNCHANGED <<wanted, placed>>

\* The response is lost or late: httpx raises, and the request ends with a 5xx.
ReplyLost(r) ==
    /\ stage[r] = "waiting" /\ Failed(r) /\ reply' = [reply EXCEPT ![r] = NoReply]
    /\ UNCHANGED <<wanted, rounds, placed>>

\* get_order: no request to fall back to, an unknown side reads BUY.
GetOrder(r) ==
    /\ stage[r] = "returned" /\ placed[r] # NotPlaced
    /\ \E e \in Entries(placed[r]) : result' = [result EXCEPT ![r] = EntryToOrder(e, "BUY")]
    /\ stage' = [stage EXCEPT ![r] = "read"]
    /\ UNCHANGED <<wanted, rounds, told, reply, placed, confirmed>>

\* cancel_order: the gateway's 200 is answered with a cancellation, the order may
\* have been filled before.
CancelOrder(r) ==
    /\ stage[r] \in {"returned", "read"} /\ placed[r].status # "Cancelled"
    /\ placed' = [placed EXCEPT ![r].status = IF @ = "Submitted" THEN "Cancelled" ELSE @]
    /\ stage' = [stage EXCEPT ![r] = "cancelled"]
    /\ UNCHANGED <<wanted, rounds, told, reply, confirmed, result>>

MarketFills(r) ==
    /\ placed[r].status = "Submitted" /\ placed' = [placed EXCEPT ![r].status = "Filled"]
    /\ UNCHANGED <<wanted, stage, rounds, told, reply, confirmed, result>>

CPOrdersInit ==
    /\ wanted \in [Handlers -> Sides]
    /\ stage = [r \in Handlers |-> "new"] /\ rounds = [r \in Handlers |-> 0]
    /\ told = [r \in Handlers |-> <<>>] /\ confirmed = [r \in Handlers |-> <<>>]
    /\ reply = [r \in Handlers |-> NoReply]
    /\ placed = [r \in Handlers |-> NotPlaced] /\ result = [r \in Handlers |-> NotPlaced]

CPOrdersNext ==
    \E r \in Handlers :
        \/ PostOrder(r) \/ GatewayAsks(r) \/ GatewayPlaces(r) \/ HandleReply(r)
        \/ ReplyLost(r) \/ GetOrder(r) \/ CancelOrder(r) \/ MarketFills(r)

CPOrdersSpec == CPOrdersInit /\ [][CPOrdersNext]_cpOrderVars

-----------------------------------------------------------------------------
CPOrdersTypeOK ==
    /\ wanted \in [Handlers -> Sides]
    /\ stage \in [Handlers -> {"new", "waiting", "returned", "read", "cancelled", "failed"}]
    /\ rounds \in [Handlers -> 0..(MaxRounds + 1)]
    /\ told \in [Handlers -> Seq(Warnings)] /\ confirmed \in [Handlers -> Seq(Warnings)]
    /\ placed \in [Handlers -> [status : Statuses \cup {"none"}, side : Sides \cup {"none"}]]
    /\ result \in [Handlers -> [status : Statuses \cup {"none"}, side : Sides \cup {"none"}]]

\* What the caller of POST /v1/orders learns fits the gateway: an order that is returned
\* was placed, on the side that was asked for, with every warning that was confirmed for
\* it; and an order whose placement the gateway reported in time, as an answer to the
\* request or to any but the last confirmation, is never answered with a failure.
RepliesTellOfOrders ==
    \A r \in Handlers :
        /\ stage[r] = "returned" => /\ placed[r] # NotPlaced
                                    /\ result[r].side = placed[r].side
                                    /\ told[r] = confirmed[r]
        /\ stage[r] = "failed" /\ reply[r].kind = "order" => Len(confirmed[r]) = MaxRounds
=============================================================================
