----------------------------- MODULE CPCalls_proofs -----------------------------
(***************************************************************************)
(* Proofs about the traffic with the CP gateway, for every value of the    *)
(* constants: CPOrders (what its replies to orders tell the caller),       *)
(* RequestThrottle (how many calls of a class a stretch of time sees),     *)
(* ReadCaches (what is kept of its answers), WsConnection (its socket).    *)
(***************************************************************************)
EXTENDS CPOrders, RequestThrottle, ReadCaches, WsConnection, SequenceTheorems,
        FiniteSetTheorems, TLAPS

CallStages == {"new", "waiting", "returned", "read", "cancelled", "failed"}
Orders == [status : Statuses \cup {"none"}, side : Sides \cup {"none"}]

Answers == [kind  : {"none", "question", "order"} \cup Unusable,
            text  : Warnings \cup {"none"},
            entry : [status : Statuses \cup {"none", "PreSubmitted"},
                     side   : Sides \cup {"none", "absent"}]]

\* Of one handler: an order at the gateway is on the wanted side, an answer that speaks
\* of an order has one behind it, and while the handler waits it has confirmed a warning
\* in each round. A failure is told over an unread order in the last round only.
HandlerInv(r) ==
    /\ told[r] = confirmed[r]
    /\ placed[r] # NotPlaced => placed[r].side = wanted[r]
    /\ stage[r] = "new" => rounds[r] = 0 /\ confirmed[r] = <<>>
    /\ stage[r] = "waiting" => rounds[r] = Len(confirmed[r]) /\ rounds[r] <= MaxRounds
    /\ reply[r] # NoReply => reply[r].kind # "none"
    /\ reply[r].kind = "question" => reply[r].text \in Warnings
    /\ reply[r].kind = "order" => /\ placed[r] # NotPlaced
                                  /\ reply[r].entry.side \in {wanted[r], "absent"}
    /\ stage[r] = "returned" => placed[r] # NotPlaced /\ result[r].side = wanted[r]
    /\ stage[r] = "failed" /\ reply[r].kind = "order" => Len(confirmed[r]) = MaxRounds

CPOrdersInv ==
    /\ CPOrdersTypeOK
    /\ reply \in [Handlers -> Answers]
    /\ \A r \in Handlers : HandlerInv(r)

\* A step of one handler touches nothing of the others.
StepOf(r) ==
    /\ wanted' = wanted
    /\ stage' = [stage EXCEPT ![r] = stage'[r]]
    /\ rounds' = [rounds EXCEPT ![r] = rounds'[r]]
    /\ told' = [told EXCEPT ![r] = told'[r]]
    /\ reply' = [reply EXCEPT ![r] = reply'[r]]
    /\ placed' = [placed EXCEPT ![r] = placed'[r]]
    /\ confirmed' = [confirmed EXCEPT ![r] = confirmed'[r]]
    /\ result' = [result EXCEPT ![r] = result'[r]]

LEMMA OneHandler ==
    ASSUME CPOrdersInv, NEW r \in Handlers, StepOf(r),
           stage'[r] \in CallStages, rounds'[r] \in 0..(MaxRounds + 1),
           told'[r] \in Seq(Warnings), confirmed'[r] \in Seq(Warnings),
           reply'[r] \in Answers, placed'[r] \in Orders, result'[r] \in Orders,
           HandlerInv(r)'
    PROVE  CPOrdersInv'
<1>1. CPOrdersTypeOK'
  BY ZenonT(40) DEF StepOf, CPOrdersInv, CPOrdersTypeOK, CallStages, Orders
<1>2. reply' \in [Handlers -> Answers]
  BY DEF StepOf, CPOrdersInv
<1>3. ASSUME NEW d \in Handlers, d # r PROVE HandlerInv(d)'
  <2>1. /\ stage'[d] = stage[d] /\ rounds'[d] = rounds[d] /\ told'[d] = told[d]
        /\ reply'[d] = reply[d] /\ placed'[d] = placed[d] /\ wanted'[d] = wanted[d]
        /\ confirmed'[d] = confirmed[d] /\ result'[d] = result[d]
    BY <1>3 DEF StepOf, CPOrdersInv, CPOrdersTypeOK
  <2>2. HandlerInv(d)
    BY DEF CPOrdersInv
  <2>3. QED
    BY <2>1, <2>2 DEF HandlerInv
<1>4. QED
  BY <1>1, <1>2, <1>3 DEF CPOrdersInv

LEMMA HandlerTypes ==
    ASSUME CPOrdersInv, NEW r \in Handlers
    PROVE  /\ wanted[r] \in Sides /\ stage[r] \in CallStages /\ rounds[r] \in 0..(MaxRounds + 1)
           /\ told[r] \in Seq(Warnings) /\ confirmed[r] \in Seq(Warnings)
           /\ reply[r] \in Answers /\ placed[r] \in Orders /\ result[r] \in Orders
           /\ HandlerInv(r)
<1>1. QED
  BY DEF CPOrdersInv, CPOrdersTypeOK, CallStages, Orders

\* What an entry of the gateway says of an order on the wanted side.
LEMMA EntriesTell ==
    ASSUME NEW o \in Orders, NEW e \in Entries(o), o.side \in Sides
    PROVE  /\ e \in [status : Statuses \cup {"none", "PreSubmitted"},
                     side   : Sides \cup {"none", "absent"}]
           /\ e.side \in {o.side, "absent"}
BY DEF Entries, Orders

LEMMA EntryIsAnOrder ==
    ASSUME NEW e \in [status : Statuses \cup {"none", "PreSubmitted"},
                      side   : Sides \cup {"none", "absent"}], NEW s \in Sides
    PROVE  /\ EntryToOrder(e, s) \in Orders
           /\ e.side \in {s, "absent"} => EntryToOrder(e, s).side = s
BY DEF EntryToOrder, Orders, Statuses, Sides

LEMMA NothingYet == NotPlaced \in Orders /\ NoReply \in Answers /\ NoReply.kind = "none"
BY DEF NotPlaced, NoReply, Orders, Answers

\* What is left when an answer is of use and not an order.
LEMMA AnswersKnown ==
    ASSUME NEW a \in Answers, a.kind \notin Unusable, a.kind # "order", a.kind # "none"
    PROVE  a.kind = "question"
BY DEF Answers

LEMMA InitCPOrders == CPOrdersInit => CPOrdersInv
<1> SUFFICES ASSUME CPOrdersInit PROVE CPOrdersInv
  OBVIOUS
<1>1. MaxRounds \in Nat /\ 0 \in 0..(MaxRounds + 1)
  BY RoundsAssumption
<1>2. CPOrdersTypeOK
  BY <1>1, NothingYet DEF CPOrdersInit, CPOrdersTypeOK, Orders
<1>3. reply \in [Handlers -> Answers]
  BY NothingYet DEF CPOrdersInit
<1>4. ASSUME NEW r \in Handlers PROVE HandlerInv(r)
  BY NothingYet DEF CPOrdersInit, HandlerInv
<1>5. QED
  BY <1>2, <1>3, <1>4 DEF CPOrdersInv

LEMMA PostKeeps ==
    ASSUME CPOrdersInv, NEW r \in Handlers, PostOrder(r) PROVE CPOrdersInv'
<1>1. StepOf(r) /\ stage[r] = "new" /\ stage'[r] = "waiting"
  BY DEF PostOrder, StepOf, CPOrdersInv, CPOrdersTypeOK
<1>2. UNCHANGED <<wanted, rounds, told, reply, placed, confirmed, result>>
  BY DEF PostOrder
<1>3. MaxRounds \in Nat
  BY RoundsAssumption
<1>4. HandlerInv(r)'
  BY <1>1, <1>2, <1>3, HandlerTypes DEF HandlerInv
<1>5. "waiting" \in CallStages
  BY DEF CallStages
<1>6. QED
  BY <1>1, <1>2, <1>4, <1>5, HandlerTypes, OneHandler

LEMMA AsksKeep ==
    ASSUME CPOrdersInv, NEW r \in Handlers, GatewayAsks(r) PROVE CPOrdersInv'
<1>1. StepOf(r) /\ UNCHANGED <<wanted, stage, rounds, told, placed, confirmed, result>>
  BY DEF GatewayAsks, StepOf, CPOrdersInv, CPOrdersTypeOK
<1>2. stage[r] = "waiting" /\ reply[r] = NoReply
  BY DEF GatewayAsks
<1>3. /\ reply'[r] \in Answers
      /\ reply'[r].kind = "question" => reply'[r].text \in Warnings
      /\ reply'[r].kind # "order" /\ reply'[r].kind # "none"
  <2>1. CASE \E w \in Warnings : reply' = [reply EXCEPT ![r] =
                  [kind |-> "question", text |-> w, entry |-> NotPlaced]]
    <3>1. PICK w \in Warnings :
            reply'[r] = [kind |-> "question", text |-> w, entry |-> NotPlaced]
      BY <2>1 DEF CPOrdersInv
    <3>2. QED
      BY <3>1 DEF Answers, NotPlaced
  <2>2. CASE \E k \in Unusable : reply' = [reply EXCEPT ![r].kind = k]
    <3>1. PICK k \in Unusable : reply'[r] = [NoReply EXCEPT !.kind = k]
      BY <1>2, <2>2 DEF CPOrdersInv
    <3>2. reply'[r] = [kind |-> k, text |-> "none", entry |-> NotPlaced]
      BY <3>1 DEF NoReply
    <3>3. QED
      BY <3>2 DEF Answers, NotPlaced, Unusable
  <2>3. QED
    BY <2>1, <2>2 DEF GatewayAsks
<1>4. HandlerInv(r)'
  BY <1>1, <1>2, <1>3, HandlerTypes DEF HandlerInv
<1>5. QED
  BY <1>1, <1>3, <1>4, HandlerTypes, OneHandler

LEMMA PlacesKeep ==
    ASSUME CPOrdersInv, NEW r \in Handlers, GatewayPlaces(r) PROVE CPOrdersInv'
<1> DEFINE o == [status |-> "Submitted", side |-> wanted[r]]
<1>1. StepOf(r) /\ UNCHANGED <<wanted, stage, rounds, told, confirmed, result>>
  BY DEF GatewayPlaces, StepOf, CPOrdersInv, CPOrdersTypeOK
<1>2. stage[r] = "waiting" /\ reply[r] = NoReply /\ placed'[r] = o
  BY DEF GatewayPlaces, CPOrdersInv, CPOrdersTypeOK
<1>3. o \in Orders /\ o # NotPlaced /\ o.side = wanted[r] /\ o.side \in Sides
  BY HandlerTypes DEF Orders, NotPlaced, Statuses
<1> HIDE DEF o
<1>4. /\ reply'[r] \in Answers /\ reply'[r].kind \notin {"question", "none"}
      /\ reply'[r].kind = "order" => reply'[r].entry.side \in {wanted[r], "absent"}
  <2>1. CASE \E e \in Entries(placed'[r]) : reply' = [reply EXCEPT ![r] =
                  [kind |-> "order", text |-> "none", entry |-> e]]
    <3>1. PICK e \in Entries(o) :
            reply'[r] = [kind |-> "order", text |-> "none", entry |-> e]
      BY <1>2, <2>1 DEF CPOrdersInv
    <3>2. QED
      BY <1>3, <3>1, EntriesTell DEF Answers
  <2>2. CASE reply' = [reply EXCEPT ![r].kind = "error"]
    <3>1. reply'[r] = [NoReply EXCEPT !.kind = "error"]
      BY <1>2, <2>2 DEF CPOrdersInv
    <3>2. reply'[r] = [kind |-> "error", text |-> "none", entry |-> NotPlaced]
      BY <3>1 DEF NoReply
    <3>3. QED
      BY <3>2 DEF Answers, NotPlaced, Unusable
  <2>3. QED
    BY <2>1, <2>2 DEF GatewayPlaces
<1>5. HandlerInv(r)'
  BY <1>1, <1>2, <1>3, <1>4, HandlerTypes DEF HandlerInv
<1>6. QED
  BY <1>1, <1>2, <1>3, <1>4, <1>5, HandlerTypes, OneHandler

\* An unread answer ends the request in the last round only: before it, an order is
\* returned and a question confirmed.
LEMMA HandlingKeeps ==
    ASSUME CPOrdersInv, NEW r \in Handlers, HandleReply(r) PROVE CPOrdersInv'
<1>1. /\ StepOf(r) /\ wanted' = wanted /\ placed' = placed
      /\ stage[r] = "waiting" /\ reply[r] # NoReply /\ rounds'[r] = rounds[r] + 1
  BY DEF HandleReply, Failed, StepOf, CPOrdersInv, CPOrdersTypeOK
<1>2. MaxRounds \in Nat /\ rounds[r] = Len(confirmed[r]) /\ rounds[r] \in 0..MaxRounds
  BY <1>1, HandlerTypes, RoundsAssumption DEF HandlerInv
<1>3. rounds'[r] \in 0..(MaxRounds + 1)
  BY <1>1, <1>2
<1>4. CASE rounds[r] = MaxRounds \/ reply[r].kind \in Unusable
  <2>1. stage'[r] = "failed" /\ UNCHANGED <<told, confirmed, result, reply>>
    BY <1>4 DEF HandleReply, Failed, CPOrdersInv, CPOrdersTypeOK
  <2>2. reply[r].kind = "order" => Len(confirmed[r]) = MaxRounds
    BY <1>2, <1>4 DEF Unusable
  <2>3. HandlerInv(r)'
    BY <1>1, <2>1, <2>2, HandlerTypes DEF HandlerInv
  <2>4. "failed" \in CallStages
    BY DEF CallStages
  <2>5. QED
    BY <1>1, <1>3, <2>1, <2>3, <2>4, HandlerTypes, OneHandler
<1>5. CASE ~(rounds[r] = MaxRounds \/ reply[r].kind \in Unusable) /\ reply[r].kind = "order"
  <2>1. /\ stage'[r] = "returned" /\ UNCHANGED <<told, confirmed, reply>>
        /\ result'[r] = EntryToOrder(reply[r].entry, wanted[r])
    BY <1>5 DEF HandleReply, CPOrdersInv, CPOrdersTypeOK
  <2>2. placed[r] # NotPlaced /\ reply[r].entry.side \in {wanted[r], "absent"}
    BY <1>5, HandlerTypes DEF HandlerInv
  <2>3. reply[r].entry \in [status : Statuses \cup {"none", "PreSubmitted"},
                            side   : Sides \cup {"none", "absent"}]
    BY HandlerTypes DEF Answers
  <2>4. result'[r] \in Orders /\ result'[r].side = wanted[r]
    BY <2>1, <2>2, <2>3, HandlerTypes, EntryIsAnOrder
  <2>5. HandlerInv(r)'
    BY <1>1, <2>1, <2>2, <2>4, HandlerTypes DEF HandlerInv
  <2>6. "returned" \in CallStages
    BY DEF CallStages
  <2>7. QED
    BY <1>1, <1>3, <2>1, <2>4, <2>5, <2>6, HandlerTypes, OneHandler
<1>6. CASE ~(rounds[r] = MaxRounds \/ reply[r].kind \in Unusable) /\ reply[r].kind # "order"
  <2>1. /\ UNCHANGED <<stage, result>> /\ reply'[r] = NoReply
        /\ told'[r] = Append(told[r], reply[r].text)
        /\ confirmed'[r] = Append(confirmed[r], reply[r].text)
    BY <1>6 DEF HandleReply, CPOrdersInv, CPOrdersTypeOK
  <2>2. reply[r].text \in Warnings
    <3>1. reply[r].kind = "question"
      BY <1>1, <1>6, AnswersKnown, HandlerTypes DEF HandlerInv
    <3>2. QED
      BY <3>1, HandlerTypes DEF HandlerInv
  <2>3. /\ told'[r] \in Seq(Warnings) /\ confirmed'[r] \in Seq(Warnings)
        /\ told'[r] = confirmed'[r] /\ Len(confirmed'[r]) = rounds[r] + 1
    BY <1>2, <2>1, <2>2, HandlerTypes DEF HandlerInv
  <2>4. rounds'[r] <= MaxRounds
    BY <1>1, <1>2, <1>6
  <2>5. HandlerInv(r)'
    BY <1>1, <2>1, <2>3, <2>4, HandlerTypes, NothingYet DEF HandlerInv
  <2>6. QED
    BY <1>1, <1>3, <2>1, <2>3, <2>5, HandlerTypes, NothingYet, OneHandler
<1>7. QED
  BY <1>4, <1>5, <1>6

LEMMA LossKeeps ==
    ASSUME CPOrdersInv, NEW r \in Handlers, ReplyLost(r) PROVE CPOrdersInv'
<1>1. /\ StepOf(r) /\ stage'[r] = "failed" /\ reply'[r] = NoReply
      /\ UNCHANGED <<wanted, rounds, told, placed, confirmed, result>>
  BY DEF ReplyLost, Failed, StepOf, CPOrdersInv, CPOrdersTypeOK
<1>2. HandlerInv(r)'
  BY <1>1, HandlerTypes, NothingYet DEF HandlerInv
<1>3. "failed" \in CallStages
  BY DEF CallStages
<1>4. QED
  BY <1>1, <1>2, <1>3, HandlerTypes, NothingYet, OneHandler

LEMMA ReadKeeps ==
    ASSUME CPOrdersInv, NEW r \in Handlers, GetOrder(r) PROVE CPOrdersInv'
<1>1. /\ StepOf(r) /\ stage'[r] = "read" /\ placed[r] # NotPlaced
      /\ UNCHANGED <<wanted, rounds, told, reply, placed, confirmed>>
  BY DEF GetOrder, StepOf, CPOrdersInv, CPOrdersTypeOK
<1>2. PICK e \in Entries(placed[r]) : result'[r] = EntryToOrder(e, "BUY")
  BY DEF GetOrder, CPOrdersInv, CPOrdersTypeOK
<1>3. placed[r] \in Orders /\ placed[r].side \in Sides
  BY <1>1, HandlerTypes DEF HandlerInv
<1>4. result'[r] \in Orders
  BY <1>2, <1>3, EntriesTell, EntryIsAnOrder DEF Sides
<1>5. HandlerInv(r)'
  BY <1>1, HandlerTypes DEF HandlerInv
<1>6. "read" \in CallStages
  BY DEF CallStages
<1>7. QED
  BY <1>1, <1>4, <1>5, <1>6, HandlerTypes, OneHandler

\* The order's status changes at the gateway; its side stays, and it stays an order.
LEMMA StatusKeeps ==
    ASSUME CPOrdersInv, NEW r \in Handlers, CancelOrder(r) \/ MarketFills(r)
    PROVE  CPOrdersInv'
<1>1. /\ StepOf(r) /\ stage'[r] \in {stage[r], "cancelled"}
      /\ UNCHANGED <<wanted, rounds, told, reply, confirmed, result>>
  BY DEF CancelOrder, MarketFills, StepOf, CPOrdersInv, CPOrdersTypeOK
<1>2. PICK s \in {placed[r].status, "Cancelled", "Filled"} :
        placed' = [placed EXCEPT ![r].status = s]
  BY DEF CancelOrder, MarketFills, CPOrdersInv, CPOrdersTypeOK
<1>3. placed'[r] = [status |-> s, side |-> placed[r].side]
  BY <1>2, HandlerTypes DEF CPOrdersInv, CPOrdersTypeOK, Orders
<1>4. placed'[r] \in Orders
  BY <1>2, <1>3, HandlerTypes DEF Orders, Statuses
<1>5. placed[r] # NotPlaced \/ stage[r] \in {"returned", "read"}
  BY DEF CancelOrder, MarketFills, NotPlaced
<1>6. CASE placed[r] # NotPlaced
  <2>1. placed[r].side = wanted[r] /\ wanted[r] \in Sides
    BY <1>6, HandlerTypes DEF HandlerInv
  <2>2. placed'[r] # NotPlaced /\ placed'[r].side = wanted[r]
    BY <1>3, <2>1 DEF NotPlaced, Sides
  <2>3. HandlerInv(r)'
    BY <1>1, <1>6, <2>2, HandlerTypes DEF HandlerInv
  <2>4. QED
    BY <1>1, <1>4, <2>3, HandlerTypes, OneHandler DEF CallStages
<1>7. CASE placed[r] = NotPlaced
  <2>1. /\ stage[r] = "read" /\ stage'[r] = "cancelled"
        /\ placed' = [placed EXCEPT ![r].status = IF @ = "Submitted" THEN "Cancelled" ELSE @]
    BY <1>5, <1>7, HandlerTypes DEF HandlerInv, CancelOrder, MarketFills, NotPlaced,
       CPOrdersInv, CPOrdersTypeOK
  <2>2. placed'[r] = NotPlaced
    BY <1>7, <2>1 DEF NotPlaced, CPOrdersInv, CPOrdersTypeOK
  <2>3. HandlerInv(r)'
    BY <1>1, <1>7, <2>1, <2>2, HandlerTypes DEF HandlerInv
  <2>4. QED
    BY <1>1, <1>4, <2>3, HandlerTypes, OneHandler DEF CallStages
<1>8. QED
  BY <1>6, <1>7

-----------------------------------------------------------------------------
LEMMA NextCPOrders == CPOrdersInv /\ [CPOrdersNext]_cpOrderVars => CPOrdersInv'
<1> SUFFICES ASSUME CPOrdersInv, [CPOrdersNext]_cpOrderVars PROVE CPOrdersInv'
  OBVIOUS
<1>1. CASE UNCHANGED cpOrderVars
  BY <1>1 DEF cpOrderVars, CPOrdersInv, CPOrdersTypeOK, HandlerInv
<1>2. CASE CPOrdersNext
  <2>1. PICK r \in Handlers :
          \/ PostOrder(r) \/ GatewayAsks(r) \/ GatewayPlaces(r) \/ HandleReply(r)
          \/ ReplyLost(r) \/ GetOrder(r) \/ CancelOrder(r) \/ MarketFills(r)
    BY <1>2 DEF CPOrdersNext
  <2>2. QED
    BY <2>1, PostKeeps, AsksKeep, PlacesKeep, HandlingKeeps, LossKeeps, ReadKeeps, StatusKeeps
<1>3. QED
  BY <1>1, <1>2

LEMMA CPOrdersInvariant == CPOrdersSpec => []CPOrdersInv
<1>1. QED
  BY InitCPOrders, NextCPOrders, PTL DEF CPOrdersSpec

\* For any number of handlers, questions and rounds: an order that a caller is told of is
\* at the gateway, on the wanted side, with each confirmed warning told; and an order
\* whose placement was answered in time is never told as a failure (cp/orders.py).
THEOREM RepliesTell == CPOrdersSpec => []RepliesTellOfOrders
<1>1. CPOrdersInv => RepliesTellOfOrders
  BY HandlerTypes DEF CPOrdersInv, HandlerInv, RepliesTellOfOrders
<1>2. QED
  BY <1>1, CPOrdersInvariant, PTL

-----------------------------------------------------------------------------
\* What n tokens are worth.
Cost(n) == n * Period

LEMMA CostGrows ==
    ASSUME NEW n \in Nat
    PROVE  Cost(n) \in Nat /\ Cost(n + 1) = Cost(n) + Period
<1>1. Period \in Nat
  BY ThrottleAssumption
<1>2. QED
  BY <1>1 DEF Cost

LEMMA Sizes ==
    Period \in Nat /\ Period > 0 /\ Capacity \in Nat /\ Period <= Capacity
<1>1. Period \in Nat /\ Period > 0 /\ Burst \in Nat /\ Burst > 0
  BY ThrottleAssumption
<1>2. Burst - 1 \in Nat /\ Burst = (Burst - 1) + 1
  BY <1>1
<1>3. Cost(Burst - 1) \in Nat /\ Capacity = Cost(Burst - 1) + Period
  BY <1>2, CostGrows DEF Capacity, Cost
<1>4. QED
  BY <1>1, <1>3

\* Credit that is refilled by no more than the time that passed keeps a balance.
LEMMA RefillBalances ==
    ASSUME NEW cost \in Nat, NEW left \in Nat, NEW have \in Nat, NEW granted \in Nat,
           NEW then \in Nat, NEW now \in Nat, NEW cap \in Nat,
           granted <= then, then <= now,
           have <= left + (now - then),
           cost + left <= cap + (then - granted)
    PROVE  granted <= now /\ cost + have <= cap + (now - granted)
OBVIOUS

LEMMA BalanceBounds ==
    ASSUME NEW cost \in Nat, NEW left \in Int, NEW granted \in Nat, NEW now \in Nat,
           NEW cap \in Nat, left >= 0, cost + left <= cap + (now - granted)
    PROVE  cost <= cap + (now - granted)
OBVIOUS

\* The account of a class: whatever was granted since the i-th token, and what is left,
\* never exceeds the burst and what was refilled since then.
Balanced(k) ==
    \A i \in DOMAIN grants[k] :
        /\ grants[k][i] <= refilled[k]
        /\ Cost(Len(grants[k]) - i + 1) + credit[k]
             <= Capacity + (refilled[k] - grants[k][i])

ThrottleInv ==
    /\ ThrottleTypeOK
    /\ grants \in [Classes -> Seq(Nat)]
    /\ \A k \in Classes : refilled[k] <= clock /\ Balanced(k)
    /\ RateIsKept

LEMMA InitThrottle == ThrottleInit => ThrottleInv
<1> SUFFICES ASSUME ThrottleInit PROVE ThrottleInv
  OBVIOUS
<1>1. Capacity \in Nat /\ MaxClock \in Nat /\ MaxBackoff \in Nat /\ Period \in Nat
  BY Sizes, ThrottleAssumption
<1>2. NoCall \in [stage : {"none", "acquiring", "sent"}, path : Paths,
                  wake : 0..(MaxClock + MaxBackoff + Period)]
  BY <1>1, ThrottleAssumption DEF NoCall
<1>3. ThrottleTypeOK
  BY <1>1, <1>2 DEF ThrottleInit, ThrottleTypeOK
<1>4. \A k \in Classes : grants[k] = <<>> /\ refilled[k] = 0 /\ clock = 0
  BY DEF ThrottleInit
<1>5. grants \in [Classes -> Seq(Nat)]
  BY DEF ThrottleInit
<1>6. QED
  BY <1>3, <1>4, <1>5 DEF ThrottleInv, Balanced, RateIsKept

-----------------------------------------------------------------------------
LEMMA ClassTypes ==
    ASSUME ThrottleInv, NEW k \in Classes
    PROVE  /\ clock \in Nat /\ credit[k] \in Nat
           /\ refilled[k] \in Nat /\ refilled[k] <= clock
           /\ grants[k] \in Seq(Nat) /\ Len(grants[k]) \in Nat
<1>1. clock \in 0..MaxClock /\ credit[k] \in 0..Capacity /\ refilled[k] \in 0..MaxClock
  BY DEF ThrottleInv, ThrottleTypeOK
<1>2. clock \in Nat /\ credit[k] \in Nat /\ refilled[k] \in Nat
  BY <1>1
<1>3. grants[k] \in Seq(Nat) /\ refilled[k] <= clock
  BY DEF ThrottleInv
<1>4. Len(grants[k]) \in Nat
  BY <1>3
<1>5. QED
  BY <1>2, <1>3, <1>4

LEMMA Refills ==
    ASSUME ThrottleInv, NEW k \in Classes
    PROVE  /\ Refilled(k) \in Nat /\ Refilled(k) <= Capacity
           /\ Refilled(k) <= credit[k] + (clock - refilled[k])
<1>1. PICK sum \in Nat : sum = credit[k] + (clock - refilled[k])
  <2>1. credit[k] + (clock - refilled[k]) \in Nat
    BY ClassTypes
  <2>2. QED
    BY <2>1
<1>2. Refilled(k) = IF Capacity < sum THEN Capacity ELSE sum
  BY <1>1 DEF Refilled, Least
<1>3. Capacity \in Nat
  BY Sizes
<1>4. Refilled(k) \in Nat /\ Refilled(k) <= Capacity /\ Refilled(k) <= sum
  BY <1>2, <1>3
<1>5. QED
  BY <1>1, <1>4

\* The one step that takes tokens, seen from its class: with a token's credit left
\* after the refill, one more grant keeps the account and the rate.
LEMMA GrantKeepsAccount ==
    ASSUME ThrottleInv, NEW k \in Classes, Refilled(k) >= Period,
           clock' = clock,
           credit' = [credit EXCEPT ![k] = Refilled(k) - Period],
           refilled' = [refilled EXCEPT ![k] = clock],
           grants' = [grants EXCEPT ![k] = Append(@, clock)]
    PROVE  /\ Balanced(k)'
           /\ \A i, j \in DOMAIN grants'[k] : i <= j =>
                Cost(j - i + 1) <= Capacity + (grants'[k][j] - grants'[k][i])
<1> DEFINE n    == Len(grants[k])
           have == Refilled(k)
<1>1. /\ clock \in Nat /\ credit[k] \in Nat /\ refilled[k] \in Nat /\ refilled[k] <= clock
      /\ grants[k] \in Seq(Nat) /\ n \in Nat
  BY ClassTypes
<1>2. /\ have \in Nat /\ have <= Capacity
      /\ have <= credit[k] + (clock - refilled[k])
  BY Refills
<1>3. /\ credit'[k] = have - Period /\ refilled'[k] = clock
      /\ grants'[k] = Append(grants[k], clock)
  BY DEF ThrottleInv, ThrottleTypeOK
<1> HIDE DEF have
<1>4. /\ Len(grants'[k]) = n + 1 /\ grants'[k][n + 1] = clock
      /\ DOMAIN grants'[k] = 1..(n + 1) /\ DOMAIN grants[k] = 1..n
      /\ \A i \in 1..n : grants'[k][i] = grants[k][i] /\ grants[k][i] \in Nat
  BY <1>1, <1>3
<1>5. ASSUME NEW i \in 1..n
      PROVE  /\ grants'[k][i] <= clock
             /\ Cost(n + 1 - i + 1) + (have - Period) <= Capacity + (clock - grants'[k][i])
  <2>1. /\ grants[k][i] <= refilled[k]
        /\ Cost(n - i + 1) + credit[k] <= Capacity + (refilled[k] - grants[k][i])
    BY <1>4 DEF ThrottleInv, Balanced
  <2>2. n - i + 1 \in Nat /\ n + 1 - i + 1 = (n - i + 1) + 1
    BY <1>1
  <2>3. Cost(n - i + 1) \in Nat /\ Cost(n + 1 - i + 1) = Cost(n - i + 1) + Period
    BY <2>2, CostGrows
  <2>4. Capacity \in Nat /\ Period \in Nat
    BY Sizes
  <2>5. /\ grants[k][i] <= clock
        /\ Cost(n - i + 1) + have <= Capacity + (clock - grants[k][i])
    BY <1>1, <1>2, <1>4, <2>1, <2>3, <2>4, RefillBalances
  <2>6. Cost(n + 1 - i + 1) + (have - Period) = Cost(n - i + 1) + have
    BY <1>2, <2>3, <2>4
  <2>7. QED
    BY <1>4, <2>5, <2>6
<1>6. Cost(1) = Period
  BY Sizes DEF Cost
<1>7. Balanced(k)'
  <2> SUFFICES ASSUME NEW i \in 1..(n + 1)
               PROVE  /\ grants'[k][i] <= clock
                      /\ Cost(n + 1 - i + 1) + (have - Period)
                           <= Capacity + (clock - grants'[k][i])
    BY <1>3, <1>4 DEF Balanced, Cost
  <2>1. CASE i = n + 1
    <3>1. n + 1 - i + 1 = 1
      BY <1>1, <2>1
    <3>2. QED
      BY <1>1, <1>2, <1>4, <1>6, <2>1, <3>1, Sizes
  <2>2. CASE i \in 1..n
    BY <1>5, <2>2
  <2>3. QED
    BY <1>1, <2>1, <2>2
<1>8. ASSUME NEW i \in DOMAIN grants'[k], NEW j \in DOMAIN grants'[k], i <= j
      PROVE  Cost(j - i + 1) <= Capacity + (grants'[k][j] - grants'[k][i])
  <2>1. CASE j = n + 1 /\ i = n + 1
    <3>1. j - i + 1 = 1
      BY <1>1, <2>1
    <3>2. QED
      BY <1>1, <1>4, <1>6, <2>1, <3>1, Sizes
  <2>2. CASE j = n + 1 /\ i \in 1..n
    <3>1. Cost(j - i + 1) \in Nat
      <4>1. j - i + 1 \in Nat
        BY <1>1, <2>2
      <4>2. QED
        BY <4>1, CostGrows
    <3>2. have - Period >= 0
      BY <1>2, Sizes DEF have
    <3>3. /\ grants'[k][i] \in Nat /\ grants'[k][j] = clock
          /\ Cost(j - i + 1) + (have - Period) <= Capacity + (clock - grants'[k][i])
      BY <1>4, <1>5, <2>2
    <3>4. Capacity \in Nat /\ Period \in Nat
      BY Sizes
    <3>5. have - Period \in Int
      BY <1>2, <3>4
    <3>6. Cost(j - i + 1) <= Capacity + (clock - grants'[k][i])
      BY <1>1, <3>1, <3>2, <3>3, <3>4, <3>5, BalanceBounds
    <3>7. QED
      BY <3>3, <3>6
  <2>3. CASE j \in 1..n
    <3>1. i \in 1..n
      BY <1>1, <1>4, <1>8, <2>3
    <3>2. Cost(j - i + 1) <= Capacity + (grants[k][j] - grants[k][i])
      BY <1>4, <1>8, <2>3, <3>1 DEF ThrottleInv, RateIsKept, Cost
    <3>3. QED
      BY <1>4, <2>3, <3>1, <3>2
  <2>4. QED
    BY <1>1, <1>4, <1>8, <2>1, <2>2, <2>3, SMTT(30)
<1>9. QED
  BY <1>7, <1>8

\* A refill without a grant keeps it, too.
LEMMA RefillKeepsAccount ==
    ASSUME ThrottleInv, NEW k \in Classes,
           credit' = [credit EXCEPT ![k] = Refilled(k)],
           refilled' = [refilled EXCEPT ![k] = clock],
           grants' = grants
    PROVE  Balanced(k)'
<1>1. /\ clock \in Nat /\ credit[k] \in Nat /\ refilled[k] \in Nat /\ refilled[k] <= clock
      /\ grants[k] \in Seq(Nat)
  BY ClassTypes
<1>2. Refilled(k) \in Nat /\ Refilled(k) <= credit[k] + (clock - refilled[k])
  BY Refills
<1>3. credit'[k] = Refilled(k) /\ refilled'[k] = clock
  BY DEF ThrottleInv, ThrottleTypeOK
<1> SUFFICES ASSUME NEW i \in DOMAIN grants[k]
             PROVE  /\ grants[k][i] <= clock
                    /\ Cost(Len(grants[k]) - i + 1) + Refilled(k)
                         <= Capacity + (clock - grants[k][i])
  BY <1>3 DEF Balanced, Cost
<1>4. /\ grants[k][i] <= refilled[k]
      /\ Cost(Len(grants[k]) - i + 1) + credit[k]
           <= Capacity + (refilled[k] - grants[k][i])
  BY DEF ThrottleInv, Balanced
<1>5. grants[k][i] \in Nat /\ Len(grants[k]) - i + 1 \in Nat
  BY <1>1, SMTT(30)
<1>6. Cost(Len(grants[k]) - i + 1) \in Nat
  BY <1>5, CostGrows
<1>7. PICK cost \in Nat, left \in Nat, have \in Nat, granted \in Nat, then \in Nat,
           now \in Nat, cap \in Nat :
        /\ cost = Cost(Len(grants[k]) - i + 1) /\ left = credit[k] /\ have = Refilled(k)
        /\ granted = grants[k][i] /\ then = refilled[k] /\ now = clock /\ cap = Capacity
  BY <1>1, <1>2, <1>5, <1>6, Sizes
<1>8. granted <= now /\ cost + have <= cap + (now - granted)
  <2>1. /\ granted <= then /\ then <= now /\ have <= left + (now - then)
        /\ cost + left <= cap + (then - granted)
    BY <1>1, <1>2, <1>4, <1>7
  <2>2. QED
    BY <2>1, RefillBalances
<1>9. QED
  BY <1>7, <1>8

-----------------------------------------------------------------------------
\* A turn of acquire's loop: the class of the call keeps its account and the rate by
\* the lemmas above, the others are left alone.
LEMMA AcquireKeeps ==
    ASSUME ThrottleInv, NEW c \in Clients, Acquire(c)
    PROVE  ThrottleInv'
<1>0. PICK k \in Classes : k = ClassOf[call[c].path]
  BY DEF ThrottleInv, ThrottleTypeOK, Classes
<1>a. PICK have : have = Refilled(k)
  OBVIOUS
<1>1. clock \in 0..MaxClock /\ MaxClock \in Nat /\ MaxBackoff \in Nat
  BY ThrottleAssumption DEF ThrottleInv, ThrottleTypeOK
<1>2. Period \in Nat /\ Capacity \in Nat /\ Period > 0
  BY Sizes
<1>3. credit[k] \in 0..Capacity /\ refilled[k] \in 0..MaxClock /\ refilled[k] <= clock
  BY <1>1 DEF ThrottleInv, ThrottleTypeOK
<1>4. have \in 0..Capacity
  BY <1>2, <1>a, Refills
<1>5. /\ clock' = clock /\ backoff' = backoff /\ successes' = successes
      /\ refilled' = [refilled EXCEPT ![k] = clock]
  BY <1>0 DEF Acquire
<1>6. refilled' \in [Classes -> 0..MaxClock] /\ \A m \in Classes : refilled'[m] <= clock
  BY <1>1, <1>5 DEF ThrottleInv, ThrottleTypeOK
<1>7. CASE have >= Period
  <2>1. /\ credit' = [credit EXCEPT ![k] = have - Period]
        /\ grants' = [grants EXCEPT ![k] = Append(@, clock)]
        /\ call' = [call EXCEPT ![c].stage = "sent", ![c].wake = 0]
    BY <1>0, <1>a, <1>7 DEF Acquire
  <2>2. have - Period \in 0..Capacity
    BY <1>2, <1>4, <1>7
  <2>3. credit' \in [Classes -> 0..Capacity]
    BY <2>1, <2>2 DEF ThrottleInv, ThrottleTypeOK
  <2>4. call' \in [Clients -> [stage : {"none", "acquiring", "sent"}, path : Paths,
                               wake : 0..(MaxClock + MaxBackoff + Period)]]
    <3>1. 0 \in 0..(MaxClock + MaxBackoff + Period)
      BY <1>1, <1>2
    <3>2. QED
      BY <2>1, <3>1 DEF ThrottleInv, ThrottleTypeOK
  <2>5. ThrottleTypeOK'
    BY <1>5, <1>6, <2>3, <2>4 DEF ThrottleInv, ThrottleTypeOK
  <2>6. grants' \in [Classes -> Seq(Nat)]
    BY <1>1, <2>1 DEF ThrottleInv
  <2>7. /\ Balanced(k)'
        /\ \A i, j \in DOMAIN grants'[k] : i <= j =>
              Cost(j - i + 1) <= Capacity + (grants'[k][j] - grants'[k][i])
    BY <1>a, <1>5, <1>7, <2>1, GrantKeepsAccount
  <2>8. ASSUME NEW m \in Classes, m # k
        PROVE  credit'[m] = credit[m] /\ refilled'[m] = refilled[m] /\ grants'[m] = grants[m]
    BY <1>5, <2>1, <2>8 DEF ThrottleInv, ThrottleTypeOK
  <2>9. \A m \in Classes : Balanced(m)'
    BY <2>7, <2>8 DEF ThrottleInv, Balanced, Cost
  <2>10. RateIsKept'
    BY <2>7, <2>8 DEF ThrottleInv, RateIsKept, Cost
  <2>11. QED
    BY <1>5, <1>6, <2>5, <2>6, <2>9, <2>10 DEF ThrottleInv
<1>8. CASE ~(have >= Period)
  <2>1. /\ credit' = [credit EXCEPT ![k] = have]
        /\ grants' = grants
        /\ call' = [call EXCEPT ![c].wake = clock + (Period - have)]
    BY <1>0, <1>a, <1>8 DEF Acquire
  <2>2. credit' \in [Classes -> 0..Capacity]
    BY <1>4, <2>1 DEF ThrottleInv, ThrottleTypeOK
  <2>3. clock + (Period - have) \in 0..(MaxClock + MaxBackoff + Period)
    BY <1>1, <1>2, <1>4, <1>8
  <2>4. call' \in [Clients -> [stage : {"none", "acquiring", "sent"}, path : Paths,
                               wake : 0..(MaxClock + MaxBackoff + Period)]]
    BY <2>1, <2>3 DEF ThrottleInv, ThrottleTypeOK
  <2>5. ThrottleTypeOK'
    BY <1>5, <1>6, <2>2, <2>4 DEF ThrottleInv, ThrottleTypeOK
  <2>6. Balanced(k)'
    BY <1>a, <1>5, <2>1, RefillKeepsAccount
  <2>7. ASSUME NEW m \in Classes, m # k
        PROVE  credit'[m] = credit[m] /\ refilled'[m] = refilled[m]
    BY <1>5, <2>1, <2>7 DEF ThrottleInv, ThrottleTypeOK
  <2>8. \A m \in Classes : Balanced(m)'
    BY <2>1, <2>6, <2>7 DEF ThrottleInv, Balanced, Cost
  <2>9. RateIsKept'
    BY <2>1 DEF ThrottleInv, RateIsKept
  <2>10. QED
    BY <1>5, <1>6, <2>1, <2>5, <2>8, <2>9 DEF ThrottleInv
<1>9. QED
  BY <1>7, <1>8

\* Steps that take and refill nothing only have to keep the types.
LEMMA OthersKeep ==
    ASSUME ThrottleInv, ThrottleTypeOK', clock <= clock',
           credit' = credit, refilled' = refilled, grants' = grants
    PROVE  ThrottleInv'
<1>1. \A k \in Classes : refilled[k] <= clock'
  BY DEF ThrottleInv, ThrottleTypeOK
<1>2. QED
  BY <1>1 DEF ThrottleInv, Balanced, RateIsKept, Cost

LEMMA StartKeepsTypes ==
    ASSUME ThrottleTypeOK, NEW c \in Clients, NEW p \in Paths, StartCall(c, p)
    PROVE  ThrottleTypeOK'
<1>1. ClassOf[p] \in Classes
  BY DEF Classes
<1>2. MaxClock \in Nat /\ MaxBackoff \in Nat /\ Period \in Nat
  BY ThrottleAssumption
<1>3. backoff[ClassOf[p]] \in 0..MaxBackoff /\ clock \in 0..MaxClock
  BY <1>1 DEF ThrottleTypeOK
<1>4. clock + backoff[ClassOf[p]] \in 0..(MaxClock + MaxBackoff + Period)
  BY <1>2, <1>3
<1>5. backoff' \in [Classes -> 0..MaxBackoff]
  <2>1. backoff' = [backoff EXCEPT ![ClassOf[p]] = 0]
    BY DEF StartCall
  <2>2. 0 \in 0..MaxBackoff
    BY <1>2
  <2>3. QED
    BY <2>1, <2>2 DEF ThrottleTypeOK
<1>6. call' \in [Clients -> [stage : {"none", "acquiring", "sent"}, path : Paths,
                             wake : 0..(MaxClock + MaxBackoff + Period)]]
  BY <1>4 DEF StartCall, ThrottleTypeOK
<1>7. QED
  BY <1>5, <1>6 DEF StartCall, ThrottleTypeOK

\* A call that ends, however it does, leaves the buckets and a backoff within its limit.
LEMMA EndKeepsTypes ==
    ASSUME ThrottleTypeOK, NEW c \in Clients,
           TooManyRequests(c) \/ Answered(c) \/ CallFails(c)
    PROVE  ThrottleTypeOK'
<1>1. PICK k \in Classes : k = ClassOf[call[c].path]
  BY DEF ThrottleTypeOK, Classes
<1> DEFINE base == IF 2 * backoff[k] > MinBackoff THEN 2 * backoff[k] ELSE MinBackoff
<1>2. MaxClock \in Nat /\ MaxBackoff \in Nat /\ Period \in Nat /\ MinBackoff \in Nat
  BY ThrottleAssumption
<1>3. backoff[k] \in 0..MaxBackoff /\ successes[k] \in 0..5
  BY DEF ThrottleTypeOK
<1>4. NoCall \in [stage : {"none", "acquiring", "sent"}, path : Paths,
                  wake : 0..(MaxClock + MaxBackoff + Period)]
  BY <1>2, ThrottleAssumption DEF NoCall
<1>5. call' = [call EXCEPT ![c] = NoCall]
  BY DEF TooManyRequests, Answered, CallFails
<1>6. call' \in [Clients -> [stage : {"none", "acquiring", "sent"}, path : Paths,
                             wake : 0..(MaxClock + MaxBackoff + Period)]]
  BY <1>4, <1>5 DEF ThrottleTypeOK
<1>7. clock' = clock /\ credit' = credit /\ refilled' = refilled
  BY DEF TooManyRequests, Answered, CallFails
<1>8. CASE TooManyRequests(c)
  <2>1. base \in Nat
    BY <1>2, <1>3
  <2>2. PICK jitter \in {-(base \div 5), 0, base \div 5} :
          backoff' = [backoff EXCEPT ![k] = Least(MaxBackoff, base + jitter)]
    BY <1>1, <1>8 DEF TooManyRequests
  <2> HIDE DEF base
  <2>3. base + jitter \in Nat
    BY <2>1, <2>2
  <2>4. Least(MaxBackoff, base + jitter) \in 0..MaxBackoff
    BY <1>2, <2>3 DEF Least
  <2>5. backoff' \in [Classes -> 0..MaxBackoff]
    BY <2>2, <2>4 DEF ThrottleTypeOK
  <2>6. successes' \in [Classes -> 0..5]
    <3>1. successes' = [successes EXCEPT ![k] = 0]
      BY <1>1, <1>8, ZenonT(40) DEF TooManyRequests
    <3>2. 0 \in 0..5
      OBVIOUS
    <3>3. QED
      BY <3>1, <3>2 DEF ThrottleTypeOK
  <2>7. QED
    BY <1>6, <1>7, <2>5, <2>6 DEF ThrottleTypeOK
<1>9. CASE Answered(c)
  <2>1. Least(5, successes[k] + 1) \in 0..5
    BY <1>3 DEF Least
  <2>2. successes' \in [Classes -> 0..5]
    <3>1. successes' = [successes EXCEPT ![k] = Least(5, successes[k] + 1)]
      BY <1>1, <1>9 DEF Answered
    <3>2. QED
      BY <2>1, <3>1 DEF ThrottleTypeOK
  <2>3. backoff' \in [Classes -> 0..MaxBackoff]
    <3>1. PICK b \in {0, backoff[k]} : backoff' = [backoff EXCEPT ![k] = b]
      BY <1>1, <1>9 DEF Answered
    <3>2. b \in 0..MaxBackoff
      BY <1>2, <1>3
    <3>3. QED
      BY <3>1, <3>2 DEF ThrottleTypeOK
  <2>4. QED
    BY <1>6, <1>7, <2>2, <2>3 DEF ThrottleTypeOK
<1>10. CASE CallFails(c)
  BY <1>6, <1>7, <1>10 DEF CallFails, ThrottleTypeOK
<1>11. QED
  BY <1>8, <1>9, <1>10

LEMMA NextThrottle == ThrottleInv /\ [ThrottleNext]_throttleVars => ThrottleInv'
<1> SUFFICES ASSUME ThrottleInv, [ThrottleNext]_throttleVars PROVE ThrottleInv'
  OBVIOUS
<1>1. ThrottleTypeOK /\ clock \in Int
  BY DEF ThrottleInv, ThrottleTypeOK
<1>2. CASE \E c \in Clients, p \in Paths : StartCall(c, p)
  <2>1. PICK c \in Clients, p \in Paths : StartCall(c, p)
    BY <1>2
  <2>2. ThrottleTypeOK'
    BY <1>1, <2>1, StartKeepsTypes
  <2>3. QED
    BY <1>1, <2>1, <2>2, OthersKeep DEF StartCall
<1>3. CASE \E c \in Clients : Acquire(c)
  BY <1>3, AcquireKeeps
<1>4. CASE \E c \in Clients : TooManyRequests(c) \/ Answered(c) \/ CallFails(c)
  <2>1. PICK c \in Clients : TooManyRequests(c) \/ Answered(c) \/ CallFails(c)
    BY <1>4
  <2>2. ThrottleTypeOK'
    BY <1>1, <2>1, EndKeepsTypes
  <2>3. clock' = clock /\ credit' = credit /\ refilled' = refilled /\ grants' = grants
    BY <2>1 DEF TooManyRequests, Answered, CallFails
  <2>4. QED
    BY <1>1, <2>2, <2>3, OthersKeep
<1>5. CASE ClockTicks
  <2>1. clock' = clock + 1 /\ clock' \in 0..MaxClock
    BY <1>1, <1>5, ThrottleAssumption DEF ClockTicks, ThrottleTypeOK
  <2>2. ThrottleTypeOK'
    BY <1>1, <1>5, <2>1 DEF ClockTicks, ThrottleTypeOK
  <2>3. QED
    BY <1>1, <1>5, <2>1, <2>2, OthersKeep DEF ClockTicks
<1>6. CASE UNCHANGED throttleVars
  BY <1>6 DEF throttleVars, ThrottleInv, ThrottleTypeOK, Balanced, RateIsKept, Cost
<1>7. QED
  BY <1>2, <1>3, <1>4, <1>5, <1>6 DEF ThrottleNext

LEMMA ThrottleInvariant == ThrottleSpec => []ThrottleInv
<1>1. QED
  BY InitThrottle, NextThrottle, PTL DEF ThrottleSpec

\* Buckets stay within their capacity and backoffs within their limit, for any clients,
\* paths, rates and bursts.
THEOREM ThrottleTypeCorrect == ThrottleSpec => []ThrottleTypeOK
<1>1. ThrottleInv => ThrottleTypeOK
  BY DEF ThrottleInv
<1>2. QED
  BY <1>1, ThrottleInvariant, PTL

\* For any number of callers, rate and burst: no stretch of time sees more calls of a
\* class than the burst and what was refilled in it (throttle/bucket.py).
THEOREM TheRateIsKept == ThrottleSpec => []RateIsKept
<1>1. ThrottleInv => RateIsKept
  BY DEF ThrottleInv
<1>2. QED
  BY <1>1, ThrottleInvariant, PTL

-----------------------------------------------------------------------------
(* Cached reads.                                                           *)

\* What a read under way holds was read at the gateway since the account was due:
\* all of it once it is answered; a summary that counts positions holds its own
\* answer already, and a list of positions is dated by its first page.
HoldsDue(x) ==
    /\ x.owes = due
    /\ \/ x.stage = "answered"
       \/ x.asks = "positions" /\ (x.page > 0 \/ x.book = "summary")
       => x.holds[1] >= due
    /\ x.stage = "answered" \/ (x.asks = "positions" /\ x.page > 0) => x.holds[2] >= due

\* A reply shows what was due when the read began.
ShowsDue(x) == x.holds[1] >= x.owes /\ x.holds[2] >= x.owes

\* The page a read is on is one the gateway holds.
OnAPage(x) ==
    /\ x.stage = "asking" /\ x.asks = "positions" => x.page < Pages
    /\ x.asks = "summary" => x.page = 0

\* A reader's record that is in order.
ReaderOK(x) ==
    /\ x \in Reader /\ OnAPage(x)
    /\ x.stage \in {"asking", "answered"} => HoldsDue(x)
    /\ x.stage = "replied" => ShowsDue(x)

CachesInv ==
    /\ CachesTypeOK
    /\ due <= version
    /\ \A b \in Books : Hit(b) => cache[b].value[1] >= due /\ cache[b].value[2] >= due
    /\ \A r \in Readers : ReaderOK(reading[r])

\* The bounds are positive.
LEMMA CacheBounds == Pages \in Nat /\ Pages > 0 /\ Ttl \in Nat /\ Ttl > 0 /\ MaxVersion \in Nat
BY ReadCachesAssumption

\* What is stored is no older than what is due.
CacheOK(c) ==
    /\ c \in [Books -> [value : (0..MaxVersion) \X (0..MaxVersion), left : 0..Ttl]]
    /\ \A b \in Books : c[b].left > 0 => c[b].value[1] >= due /\ c[b].value[2] >= due

\* Storing what is not older keeps it so.
LEMMA StoresOK ==
    ASSUME NEW c, CacheOK(c), NEW b \in Books,
           NEW h \in (0..MaxVersion) \X (0..MaxVersion), h[1] >= due, h[2] >= due
    PROVE  CacheOK([c EXCEPT ![b] = [value |-> h, left |-> Ttl]])
<1>1. Ttl \in 0..Ttl
  BY CacheBounds
<1>. QED BY <1>1 DEF CacheOK

\* A reader's step, which may store what is not older.
LEMMA ReaderSteps ==
    ASSUME CachesInv, NEW r \in Readers, NEW x, Keep(r, x), ReaderOK(x),
           UNCHANGED <<version, ordering, due>>, CacheOK(cache')
    PROVE  CachesInv'
<1>1. /\ reading' \in [Readers -> Reader]
      /\ \A q \in Readers : reading'[q] = IF q = r THEN x ELSE reading[q]
  BY DEF Keep, CachesInv, CachesTypeOK, ReaderOK
<1>2. CachesTypeOK'
  BY <1>1 DEF CachesInv, CachesTypeOK, CacheOK
<1>3. \A q \in Readers : ReaderOK(reading[q])'
  BY <1>1 DEF CachesInv, ReaderOK, HoldsDue, ShowsDue, OnAPage
<1>. QED BY <1>2, <1>3 DEF CachesInv, Hit, CacheOK

\* Before any read a record is in order.
LEMMA IdleOK == ReaderOK(Idle) /\ Idle.page = 0
<1>1. Idle \in Reader
  <2>1. 0 \in 0..MaxVersion /\ 0 \in 0..Pages /\ "ledger" \in Books
    BY CacheBounds DEF Books
  <2>. QED BY <2>1 DEF Idle, Reader
<1>. QED BY <1>1 DEF Idle, ReaderOK, OnAPage

\* For any readers, pages and lifetimes: once an order handler has answered while no
\* read was under way, every later read shows the order.
THEOREM OrdersShow == CachesSpec => [](CachesTypeOK /\ OrderShowsInPortfolio)
<1>1. CachesInit => CachesInv
  <2>. SUFFICES ASSUME CachesInit PROVE CachesInv
    OBVIOUS
  <2>1. /\ version = 0 /\ due = 0 /\ ordering = FALSE
        /\ cache = [b \in Books |-> [value |-> <<0, 0>>, left |-> 0]]
        /\ reading = [r \in Readers |-> Idle]
    BY DEF CachesInit, Invalidated, Absent
  <2>2. \A r \in Readers : ReaderOK(reading[r])
    BY <2>1, IdleOK
  <2>3. CachesTypeOK
    <3>1. Idle \in Reader /\ 0 \in 0..MaxVersion /\ 0 \in 0..Ttl
      BY IdleOK, CacheBounds DEF ReaderOK
    <3>. QED BY <2>1, <3>1 DEF CachesTypeOK
  <2>4. \A b \in Books : ~Hit(b)
    BY <2>1 DEF Hit
  <2>. QED BY <2>1, <2>2, <2>3, <2>4 DEF CachesInv
<1>2. CachesInv /\ [CachesNext]_cacheVars => CachesInv'
  <2>. SUFFICES ASSUME CachesInv, [CachesNext]_cacheVars PROVE CachesInv'
    OBVIOUS
  <2>. DEFINE V == 0..MaxVersion
  <2>0. /\ version \in V /\ due \in V /\ due <= version /\ ordering \in BOOLEAN
        /\ cache \in [Books -> [value : V \X V, left : 0..Ttl]]
        /\ reading \in [Readers -> Reader]
    BY DEF CachesInv, CachesTypeOK
  <2>a. \A b \in Books : Hit(b) => cache[b].value[1] >= due /\ cache[b].value[2] >= due
    BY DEF CachesInv
  <2>b. \A r \in Readers : ReaderOK(reading[r]) /\ reading[r] \in Reader
    BY DEF CachesInv, ReaderOK
  <2>c. CacheOK(cache)
    BY <2>0, <2>a DEF CacheOK, Hit
  <2>1. ASSUME NEW r \in Readers, StartRead(r) PROVE CachesInv'
    <3>1. PICK b \in Books : Keep(r,
             [Idle EXCEPT !.book = b, !.asks = b, !.owes = due,
                          !.stage = IF Hit(b) THEN "replied" ELSE "asking",
                          !.holds = IF Hit(b) THEN cache[b].value ELSE <<0, 0>>])
      BY <2>1 DEF StartRead
    <3>2. PICK s \in {"asking", "replied"} : s = IF Hit(b) THEN "replied" ELSE "asking"
      OBVIOUS
    <3>3. PICK h \in V \X V : h = IF Hit(b) THEN cache[b].value ELSE <<0, 0>>
      <4>1. cache[b].value \in V \X V /\ <<0, 0>> \in V \X V
        BY <2>0, CacheBounds
      <4>. QED BY <4>1
    <3>4. PICK v \in V : v = due
      BY <2>0
    <3>5. Keep(r, [Idle EXCEPT !.book = b, !.asks = b, !.owes = v, !.stage = s,
                               !.holds = h])
      BY <3>1, <3>2, <3>3, <3>4
    <3>b. PICK y \in Reader : y = Idle /\ y.page = 0
      BY IdleOK DEF ReaderOK
    <3>. DEFINE x == [y EXCEPT !.book = b, !.asks = b, !.owes = v, !.stage = s,
                               !.holds = h]
    <3>6. /\ x \in Reader /\ x.stage = s /\ x.book = b /\ x.asks = b
          /\ x.holds = h /\ x.page = 0 /\ x.owes = v
      BY <3>b DEF Reader
    <3>a. Keep(r, x) /\ CacheOK(cache')
          /\ UNCHANGED <<version, ordering, due>>
      BY <2>1, <2>c, <3>5, <3>b DEF StartRead
    <3>. HIDE DEF x
    <3>7. s = "replied" => h[1] >= v /\ h[2] >= v
      BY <2>a, <3>2, <3>3, <3>4
    <3>8. ReaderOK(x)
      BY <3>4, <3>6, <3>7, CacheBounds DEF ReaderOK, OnAPage, HoldsDue, ShowsDue
    <3>. QED BY <3>a, <3>8, ReaderSteps
  <2>2. ASSUME NEW r \in Readers, GatewayAnswers(r) PROVE CachesInv'
    <3>1. PICK y \in Reader : y = reading[r] /\ ReaderOK(y)
      BY <2>b
    <3>2. y.stage = "asking" /\ OnAPage(y) /\ HoldsDue(y)
      BY <2>2, <3>1 DEF GatewayAnswers, ReaderOK
    <3>3. PICK n \in V : n = version
      BY <2>0
    <3>4. PICK p \in 0..Pages : p = IF y.asks = "positions" THEN y.page + 1 ELSE y.page
      BY <3>1, <3>2, CacheBounds DEF Reader, OnAPage
    <3>5. PICK h \in V \X V :
             h = CASE y.asks = "positions" /\ y.page > 0 -> y.holds
                   [] y.book = "summary" /\ y.asks = "positions" -> <<y.holds[1], n>>
                   [] OTHER -> <<n, n>>
      BY <3>1, <3>3 DEF Reader
    <3>. DEFINE x == [y EXCEPT !.stage = "answered", !.page = p, !.holds = h]
    <3>6. /\ x \in Reader /\ x.stage = "answered" /\ x.book = y.book
          /\ x.asks = y.asks /\ x.holds = h /\ x.page = p /\ x.owes = y.owes
      BY DEF Reader
    <3>7. Keep(r, x) /\ UNCHANGED <<version, cache, ordering, due>>
      BY <2>2, <3>1, <3>3, <3>4, <3>5 DEF GatewayAnswers
    <3>. HIDE DEF x
    <3>8. h[1] >= due /\ h[2] >= due
      BY <2>0, <3>2, <3>3, <3>5 DEF HoldsDue
    <3>9. x.asks = "summary" => x.page = 0
      BY <3>2, <3>4, <3>6 DEF OnAPage
    <3>. QED
      <4>1. ReaderOK(x)
        BY <3>2, <3>6, <3>8, <3>9 DEF ReaderOK, OnAPage, HoldsDue
      <4>. QED BY <2>c, <3>7, <4>1, ReaderSteps
  <2>3. ASSUME NEW r \in Readers, NextPage(r) PROVE CachesInv'
    <3>1. PICK y \in Reader : y = reading[r] /\ ReaderOK(y)
      BY <2>b
    <3>. DEFINE x == [y EXCEPT !.stage = "asking"]
    <3>2. /\ x \in Reader /\ x.stage = "asking" /\ x.book = y.book
          /\ x.asks = y.asks /\ x.holds = y.holds /\ x.page = y.page /\ x.owes = y.owes
      BY DEF Reader
    <3>4. Keep(r, x) /\ UNCHANGED <<version, cache, ordering, due>>
      BY <2>3, <3>1 DEF NextPage
    <3>. HIDE DEF x
    <3>3. ReaderOK(x)
      BY <2>3, <3>1, <3>2 DEF NextPage, ReaderOK, OnAPage, HoldsDue
    <3>. QED BY <2>c, <3>3, <3>4, ReaderSteps
  <2>4. ASSUME NEW r \in Readers, StoreBook(r) PROVE CachesInv'
    <3>1. PICK y \in Reader : y = reading[r] /\ ReaderOK(y)
      BY <2>b
    <3>2. PICK h \in V \X V : h = y.holds
      BY DEF Reader
    <3>3. y.stage = "answered" /\ y.owes = due /\ h[1] >= due /\ h[2] >= due
      BY <2>4, <3>1, <3>2 DEF StoreBook, ReaderOK, HoldsDue
    <3>4. PICK m \in V \X V : /\ m = IF y.asks = "positions" THEN <<h[2], h[2]>> ELSE h
                              /\ m[1] >= due /\ m[2] >= due
      <4>0. PICK v \in V : v = h[2]
        OBVIOUS
      <4>1. <<v, v>> \in V \X V /\ <<v, v>>[1] = v /\ <<v, v>>[2] = v
        OBVIOUS
      <4>. QED BY <3>3, <4>0, <4>1
    <3>5. PICK a \in Books : a = y.asks
      BY DEF Reader
    <3>6. cache' = IF y.book = "summary"
                   THEN [Stored("positions", m) EXCEPT
                            !["summary"] = [value |-> h, left |-> Ttl]]
                   ELSE Stored(a, m)
      BY <2>4, <3>1, <3>2, <3>4, <3>5 DEF StoreBook
    <3>7. /\ CacheOK(Stored(a, m)) /\ CacheOK(Stored("positions", m))
          /\ CacheOK([Stored("positions", m) EXCEPT
                         !["summary"] = [value |-> h, left |-> Ttl]])
      BY <2>c, <3>3, <3>4, StoresOK DEF Stored, Books
    <3>8. CacheOK(cache')
      BY <3>6, <3>7
    <3>. DEFINE x == [y EXCEPT !.stage = "replied"]
    <3>9. x \in Reader /\ x.stage = "replied" /\ x.holds = h /\ x.owes = due /\ x.asks = a
          /\ x.page = y.page
      BY <3>2, <3>3, <3>5 DEF Reader
    <3>10. Keep(r, x) /\ UNCHANGED <<version, ordering, due>>
      BY <2>4, <3>1 DEF StoreBook
    <3>. HIDE DEF x
    <3>11. ReaderOK(x)
      BY <3>1, <3>3, <3>5, <3>9 DEF ReaderOK, ShowsDue, OnAPage
    <3>. QED BY <3>8, <3>10, <3>11, ReaderSteps
  <2>5. ASSUME NEW r \in Readers, CountPositions(r) PROVE CachesInv'
    <3>1. PICK y \in Reader : y = reading[r] /\ ReaderOK(y)
      BY <2>b
    <3>2. /\ y.stage = "answered" /\ y.asks = "summary" /\ y.owes = due /\ y.page = 0
          /\ y.holds[1] >= due /\ y.holds[2] >= due
      BY <2>5, <3>1 DEF CountPositions, ReaderOK, HoldsDue, OnAPage
    <3>3. CASE Hit("positions")
      <4>1. cache["positions"].value \in V \X V /\ cache["positions"].value[1] >= due
        BY <2>0, <2>a, <3>3 DEF Books
      <4>2. PICK h \in V \X V : /\ h = <<y.holds[1], cache["positions"].value[1]>>
                                /\ h[1] >= due /\ h[2] >= due
        <5>1. PICK v1 \in V, v2 \in V : /\ v1 = y.holds[1] /\ v1 >= due
                                        /\ v2 = cache["positions"].value[1] /\ v2 >= due
          BY <3>2, <4>1 DEF Reader
        <5>2. <<v1, v2>> \in V \X V /\ <<v1, v2>>[1] = v1 /\ <<v1, v2>>[2] = v2
          OBVIOUS
        <5>. QED BY <5>1, <5>2
      <4>3. /\ cache' = Stored("summary", h) /\ UNCHANGED <<version, ordering, due>>
            /\ Keep(r, [y EXCEPT !.stage = "replied", !.holds = h])
        BY <2>5, <3>1, <3>3, <4>2 DEF CountPositions
      <4>4. CacheOK(cache')
        BY <2>c, <4>2, <4>3, StoresOK DEF Stored, Books
      <4>. DEFINE x == [y EXCEPT !.stage = "replied", !.holds = h]
      <4>5. x \in Reader /\ x.stage = "replied" /\ x.holds = h /\ x.owes = due
            /\ x.asks = "summary" /\ x.page = 0
        BY <3>2 DEF Reader
      <4>6. Keep(r, x)
        BY <4>3
      <4>. HIDE DEF x
      <4>7. ReaderOK(x)
        BY <4>2, <4>5 DEF ReaderOK, ShowsDue, OnAPage
      <4>. QED BY <4>3, <4>4, <4>6, <4>7, ReaderSteps
    <3>4. CASE ~Hit("positions")
      <4>1. /\ UNCHANGED <<version, cache, ordering, due>>
            /\ Keep(r, [y EXCEPT !.asks = "positions", !.stage = "asking"])
        BY <2>5, <3>1, <3>4 DEF CountPositions
      <4>. DEFINE x == [y EXCEPT !.asks = "positions", !.stage = "asking"]
      <4>5. x \in Reader /\ x.stage = "asking" /\ x.holds = y.holds /\ x.owes = due
            /\ x.asks = "positions" /\ x.page = 0
        BY <3>2 DEF Reader, Books
      <4>6. Keep(r, x)
        BY <4>1
      <4>. HIDE DEF x
      <4>7. ReaderOK(x)
        BY <3>2, <4>5, CacheBounds DEF ReaderOK, OnAPage, HoldsDue
      <4>. QED BY <2>c, <4>1, <4>6, <4>7, ReaderSteps
    <3>. QED BY <3>3, <3>4
  <2>6. ASSUME NEW r \in Readers, GatewayFails(r) PROVE CachesInv'
    <3>1. PICK y \in Reader : y = reading[r] /\ ReaderOK(y)
      BY <2>b
    <3>2. <<0, 0>> \in V \X V
      BY CacheBounds
    <3>. DEFINE x == [y EXCEPT !.stage = "failed", !.holds = <<0, 0>>]
    <3>3. x \in Reader /\ x.stage = "failed" /\ x.asks = y.asks /\ x.page = y.page
      BY <3>2 DEF Reader
    <3>5. Keep(r, x) /\ UNCHANGED <<version, cache, ordering, due>>
      BY <2>6, <3>1 DEF GatewayFails
    <3>. HIDE DEF x
    <3>4. ReaderOK(x)
      BY <3>1, <3>3 DEF ReaderOK, OnAPage
    <3>. QED BY <2>c, <3>4, <3>5, ReaderSteps
  <2>7. ASSUME NEW r \in Readers, Leave(r) PROVE CachesInv'
    BY <2>7, <2>c, IdleOK, ReaderSteps DEF Leave
  <2>8. CASE OrderReachesBroker
    <3>1. /\ version' = version + 1 /\ version < MaxVersion /\ ordering' = TRUE
          /\ cache' = cache /\ reading' = reading /\ due' = due
      BY <2>8 DEF OrderReachesBroker
    <3>2. version' \in V /\ due' <= version'
      BY <2>0, <3>1, CacheBounds
    <3>3. \A r \in Readers : ReaderOK(reading[r])'
      BY <2>b, <3>1 DEF ReaderOK, OnAPage, HoldsDue, ShowsDue
    <3>4. CachesTypeOK'
      BY <2>0, <3>1, <3>2 DEF CachesTypeOK
    <3>. QED BY <2>a, <3>1, <3>2, <3>3, <3>4 DEF CachesInv, Hit
  <2>9. CASE OrderHandlerEnds
    <3>1. /\ version' = version /\ reading' = reading /\ ordering' = FALSE
          /\ cache' = [b \in Books |-> [value |-> <<0, 0>>, left |-> 0]]
          /\ due' = IF \A r \in Readers : reading[r].stage \notin {"asking", "answered"}
                    THEN version ELSE due
      BY <2>9 DEF OrderHandlerEnds, Invalidated, Absent
    <3>2. due' \in V /\ due' <= version'
      BY <2>0, <3>1
    <3>3. ASSUME NEW r \in Readers PROVE ReaderOK(reading[r])'
      <4>1. CASE due' = due
        BY <2>b, <3>1, <4>1 DEF ReaderOK, OnAPage, HoldsDue, ShowsDue
      <4>2. CASE reading[r].stage \notin {"asking", "answered"}
        BY <2>b, <3>1, <4>2 DEF ReaderOK, OnAPage, HoldsDue, ShowsDue
      <4>. QED BY <3>1, <4>1, <4>2
    <3>4. CachesTypeOK'
      <4>1. 0 \in V /\ 0 \in 0..Ttl
        BY CacheBounds
      <4>. QED BY <2>0, <3>1, <3>2, <4>1 DEF CachesTypeOK
    <3>5. \A b \in Books : ~Hit(b)'
      BY <3>1 DEF Hit
    <3>. QED BY <3>2, <3>3, <3>4, <3>5 DEF CachesInv
  <2>10. CASE OrderHandlerFails
    <3>1. /\ ordering' = FALSE
          /\ version' = version /\ cache' = cache /\ reading' = reading /\ due' = due
      BY <2>10 DEF OrderHandlerFails
    <3>3. \A r \in Readers : ReaderOK(reading[r])'
      BY <2>b, <3>1 DEF ReaderOK, OnAPage, HoldsDue, ShowsDue
    <3>4. CachesTypeOK'
      BY <2>0, <3>1 DEF CachesTypeOK
    <3>. QED BY <2>0, <2>a, <3>1, <3>3, <3>4 DEF CachesInv, Hit
  <2>11. CASE Fill
    <3>1. /\ version' = version + 1 /\ version < MaxVersion /\ ordering' = ordering
          /\ cache' = cache /\ reading' = reading /\ due' = due
      BY <2>11 DEF Fill
    <3>2. version' \in V /\ due' <= version'
      BY <2>0, <3>1, CacheBounds
    <3>3. \A r \in Readers : ReaderOK(reading[r])'
      BY <2>b, <3>1 DEF ReaderOK, OnAPage, HoldsDue, ShowsDue
    <3>4. CachesTypeOK'
      BY <2>0, <3>1, <3>2 DEF CachesTypeOK
    <3>. QED BY <2>a, <3>1, <3>2, <3>3, <3>4 DEF CachesInv, Hit
  <2>12. CASE ClockTick
    <3>1. /\ ordering' = ordering
          /\ version' = version /\ reading' = reading /\ due' = due
          /\ cache' = [b \in Books |-> IF cache[b].left > 1
                                       THEN [cache[b] EXCEPT !.left = @ - 1] ELSE Absent]
      BY <2>12 DEF ClockTick
    <3>2. ASSUME NEW b \in Books
          PROVE  /\ cache'[b] \in [value : V \X V, left : 0..Ttl]
                 /\ cache'[b].left > 0 => cache'[b].value = cache[b].value /\ Hit(b)
      <4>1. PICK e \in [value : V \X V, left : 0..Ttl] : e = cache[b]
        BY <2>0
      <4>2. CASE e.left > 1
        <5>1. cache'[b] = [e EXCEPT !.left = e.left - 1]
          BY <3>1, <4>1, <4>2
        <5>2. e.left - 1 \in 0..Ttl
          BY <4>2, CacheBounds
        <5>. QED BY <4>1, <4>2, <5>1, <5>2 DEF Hit
      <4>3. CASE ~(e.left > 1)
        <5>1. cache'[b] = [value |-> <<0, 0>>, left |-> 0]
          BY <3>1, <4>1, <4>3 DEF Absent
        <5>2. 0 \in V /\ 0 \in 0..Ttl
          BY CacheBounds
        <5>. QED BY <5>1, <5>2
      <4>. QED BY <4>2, <4>3
    <3>3. \A r \in Readers : ReaderOK(reading[r])'
      BY <2>b, <3>1 DEF ReaderOK, OnAPage, HoldsDue, ShowsDue
    <3>4. cache' \in [Books -> [value : V \X V, left : 0..Ttl]]
      BY <3>1, <3>2
    <3>5. CachesTypeOK'
      BY <2>0, <3>1, <3>4 DEF CachesTypeOK
    <3>6. \A b \in Books : Hit(b)' =>
             cache'[b].value[1] >= due' /\ cache'[b].value[2] >= due'
      BY <2>a, <3>1, <3>2 DEF Hit
    <3>. QED BY <2>0, <3>1, <3>3, <3>5, <3>6 DEF CachesInv
  <2>13. CASE UNCHANGED cacheVars
    <3>1. /\ ordering' = ordering
          /\ version' = version /\ cache' = cache /\ reading' = reading /\ due' = due
      BY <2>13 DEF cacheVars
    <3>3. \A r \in Readers : ReaderOK(reading[r])'
      BY <2>b, <3>1 DEF ReaderOK, OnAPage, HoldsDue, ShowsDue
    <3>4. CachesTypeOK'
      BY <2>0, <3>1 DEF CachesTypeOK
    <3>. QED BY <2>0, <2>a, <3>1, <3>3, <3>4 DEF CachesInv, Hit
  <2>. QED BY <2>1, <2>2, <2>3, <2>4, <2>5, <2>6, <2>7, <2>8, <2>9, <2>10, <2>11, <2>12,
              <2>13 DEF CachesNext
<1>3. CachesInv => CachesTypeOK /\ OrderShowsInPortfolio
  BY DEF CachesInv, OrderShowsInPortfolio, ReaderOK, ShowsDue
<1>. QED BY <1>1, <1>2, <1>3, PTL DEF CachesSpec

-----------------------------------------------------------------------------
(* The WebSocket to the CP gateway.                                        *)

Frames == Nat \X Nat

\* Each frame follows the one before, and only ends follow an end.
Linked(s) ==
    /\ \A i, j \in 1..Len(s) : i < j /\ s[j] # EndOfFrames => s[i] # EndOfFrames
    /\ \A i \in 1..(Len(s) - 1) : s[i + 1] # EndOfFrames => Follows(s[i], s[i + 1])

\* What is on the socket: the last frames sent on it, and one answer to the auth at
\* most, none once it was read.
Messages == {Ack(ok) : ok \in BOOLEAN} \cup {Data(n) : n \in Nat}
OnTheWire(q, sent, inUse) ==
    /\ q \in Seq(Messages) /\ Len(q) <= 2
    /\ \A i \in 1..Len(q) : q[i].kind = "data" =>
          q[i].n = IF i < Len(q) /\ q[i + 1].kind = "data" THEN sent - 1 ELSE sent
    /\ \A i, j \in 1..Len(q) : q[i].kind = "sts" /\ q[j].kind = "sts" => i = j
    /\ inUse => \A i \in 1..Len(q) : q[i].kind = "data"

\* The last frame received is of an earlier connection, or the one sent before what is
\* on the socket.
IsBehind(f) ==
    \/ f[1] < connection
    \/ wsTask = "reading" /\ f[1] = connection /\ f[2] + Len(inFlight) = sentOnIt

\* Until the client has ended no end is queued, and the last frame is behind.
Running ==
    wsTask # "ended" => /\ ~closing
                        /\ \A i \in 1..Len(Coming) : Coming[i] # EndOfFrames
                        /\ Coming # <<>> => IsBehind(Coming[Len(Coming)])

WsInv ==
    /\ wsTask \in {"new", "opening", "reading", "retrying", "ended"}
    /\ wsTask \in {"opening", "reading", "retrying"} => connection > 0
    /\ connection \in Nat /\ sentOnIt \in Nat
    /\ iterated \in Seq(Frames) /\ frameQueue \in Seq(Frames)
    /\ OnTheWire(inFlight, sentOnIt, wsTask = "reading")
    /\ Linked(Coming) /\ Running
    /\ wsTask = "new" => connection = 0
    /\ NobodyIsLeftWaiting

\* One more frame behind the last keeps them linked.
LEMMA AppendLinks ==
    ASSUME NEW s \in Seq(Frames), Linked(s), NEW e \in Frames,
           \/ e = EndOfFrames
           \/ /\ \A i \in 1..Len(s) : s[i] # EndOfFrames
              /\ s # <<>> => Follows(s[Len(s)], e)
    PROVE  Linked(Append(s, e))
<1>1. PICK n \in Nat : n = Len(s)
  OBVIOUS
<1>2. PICK t \in Seq(Frames) : /\ t = Append(s, e) /\ Len(t) = n + 1 /\ t[n + 1] = e
                               /\ \A i \in 1..n : t[i] = s[i]
  <2>1. /\ Append(s, e) \in Seq(Frames) /\ Len(Append(s, e)) = Len(s) + 1
        /\ Append(s, e)[Len(s) + 1] = e /\ \A i \in 1..Len(s) : Append(s, e)[i] = s[i]
    BY AppendProperties
  <2>. QED BY <1>1, <2>1
<1>3. \A i \in 1..(n + 1) : i \in 1..n \/ i = n + 1
  BY <1>1
<1>4. \A i, j \in 1..(n + 1) : i < j => i \in 1..n
  BY <1>1
<1>5. \A i, j \in 1..(n + 1) : i < j /\ t[j] # EndOfFrames => t[i] # EndOfFrames
  <2>. SUFFICES ASSUME NEW i \in 1..(n + 1), NEW j \in 1..(n + 1), i < j, t[j] # EndOfFrames
                PROVE  t[i] # EndOfFrames
    OBVIOUS
  <2>1. i \in 1..n /\ t[i] = s[i]
    BY <1>2, <1>4
  <2>2. CASE j \in 1..n
    BY <1>1, <1>2, <2>1, <2>2 DEF Linked
  <2>3. CASE j = n + 1
    BY <1>1, <1>2, <2>1, <2>3
  <2>. QED BY <1>3, <2>2, <2>3
<1>6. \A i \in 1..n : t[i + 1] # EndOfFrames => Follows(t[i], t[i + 1])
  <2>. SUFFICES ASSUME NEW i \in 1..n, t[i + 1] # EndOfFrames PROVE Follows(t[i], t[i + 1])
    OBVIOUS
  <2>1. CASE i = n
    <3>1. s # <<>> /\ e # EndOfFrames
      BY <1>1, <1>2, <2>1
    <3>. QED BY <1>1, <1>2, <2>1, <3>1
  <2>2. CASE i # n
    <3>1. i \in 1..(n - 1) /\ i + 1 \in 1..n
      BY <1>1, <2>2
    <3>2. t[i + 1] = s[i + 1] /\ t[i] = s[i]
      BY <1>2, <3>1
    <3>. QED BY <1>1, <3>1, <3>2 DEF Linked
  <2>. QED BY <2>1, <2>2
<1>. QED BY <1>1, <1>2, <1>5, <1>6 DEF Linked

\* Taking the head of the queue over leaves what comes as it was.
LEMMA TakenOver ==
    ASSUME NEW s \in Seq(Frames), NEW q \in Seq(Frames), q # <<>>
    PROVE  /\ Append(s, Head(q)) \o Tail(q) = s \o q
           /\ Append(s, Head(q)) \in Seq(Frames) /\ Tail(q) \in Seq(Frames)
<1>1. PICK h \in Frames : h = Head(q)
  OBVIOUS
<1>2. PICK t \in Seq(Frames) : t = Tail(q)
  BY HeadTailProperties
<1>3. q = <<h>> \o t /\ <<h>> \in Seq(Frames)
  BY <1>1, <1>2
<1>4. Append(s, h) = s \o <<h>> /\ Append(s, h) \in Seq(Frames)
  BY AppendIsConcat, AppendProperties
<1>5. (s \o <<h>>) \o t = s \o (<<h>> \o t)
  BY <1>3, ConcatAssociative
<1>. QED BY <1>1, <1>2, <1>3, <1>4, <1>5

\* Ends behind the queue.
LEMMA EndsAdded ==
    ASSUME NEW s \in Seq(Frames), Linked(s), NEW t \in Seq(Frames),
           \A i \in 1..Len(t) : t[i] = EndOfFrames
    PROVE  Linked(s \o t)
<1>1. PICK n \in Nat, m \in Nat : n = Len(s) /\ m = Len(t)
  OBVIOUS
<1>2. PICK u \in Seq(Frames) : /\ u = s \o t /\ Len(u) = n + m
                               /\ \A i \in 1..(n + m) :
                                     u[i] = IF i <= n THEN s[i] ELSE t[i - n]
  <2>1. /\ s \o t \in Seq(Frames) /\ Len(s \o t) = Len(s) + Len(t)
        /\ \A i \in 1..(Len(s) + Len(t)) :
              (s \o t)[i] = IF i <= Len(s) THEN s[i] ELSE t[i - Len(s)]
    BY ConcatProperties
  <2>. QED BY <1>1, <2>1
<1>3. ASSUME NEW i \in 1..(n + m), u[i] # EndOfFrames PROVE i \in 1..n /\ u[i] = s[i]
  <2>1. i > n => i - n \in 1..m
    BY <1>1
  <2>2. i > n => u[i] = EndOfFrames
    BY <1>1, <1>2, <2>1
  <2>. QED BY <1>1, <1>2, <1>3, <2>2
<1>4. ASSUME NEW i \in 1..(n + m), NEW j \in 1..(n + m), i < j, u[j] # EndOfFrames
      PROVE  u[i] # EndOfFrames
  <2>1. j \in 1..n /\ u[j] = s[j]
    BY <1>3, <1>4
  <2>2. i \in 1..n /\ u[i] = s[i]
    BY <1>1, <1>2, <1>4, <2>1
  <2>. QED BY <1>1, <1>4, <2>1, <2>2 DEF Linked
<1>5. ASSUME NEW i \in 1..(n + m - 1), u[i + 1] # EndOfFrames
      PROVE  Follows(u[i], u[i + 1])
  <2>0. i + 1 \in 1..(n + m) /\ i \in 1..(n + m)
    BY <1>1
  <2>1. i + 1 \in 1..n /\ u[i + 1] = s[i + 1]
    BY <1>3, <1>5, <2>0
  <2>2. i \in 1..(n - 1) /\ u[i] = s[i]
    BY <1>1, <1>2, <2>0, <2>1
  <2>. QED BY <1>1, <1>5, <2>1, <2>2 DEF Linked
<1>. QED BY <1>1, <1>2, <1>4, <1>5 DEF Linked

\* What was read is linked, and behind an end are ends.
LEMMA EndTaken ==
    ASSUME NEW s \in Seq(Frames), NEW q \in Seq(Frames), q # <<>>, Linked(s \o q)
    PROVE  /\ Linked(s)
           /\ Head(q) = EndOfFrames => Linked(s \o Tail(q))
<1>1. PICK n \in Nat, m \in Nat : n = Len(s) /\ m = Len(q) /\ m >= 1
  OBVIOUS
<1>2. PICK u \in Seq(Frames) : /\ u = s \o q /\ Len(u) = n + m
                               /\ \A i \in 1..(n + m) :
                                     u[i] = IF i <= n THEN s[i] ELSE q[i - n]
  <2>1. /\ s \o q \in Seq(Frames) /\ Len(s \o q) = Len(s) + Len(q)
        /\ \A i \in 1..(Len(s) + Len(q)) :
              (s \o q)[i] = IF i <= Len(s) THEN s[i] ELSE q[i - Len(s)]
    BY ConcatProperties
  <2>. QED BY <1>1, <2>1
<1>3. Linked(s)
  <2>1. \A i \in 1..n : i \in 1..(n + m) /\ u[i] = s[i]
    BY <1>1, <1>2
  <2>2. \A i \in 1..(n - 1) : i \in 1..(n + m - 1) /\ i \in 1..n /\ i + 1 \in 1..n
    BY <1>1
  <2>3. \A i, j \in 1..n : i < j /\ s[j] # EndOfFrames => s[i] # EndOfFrames
    BY <1>2, <2>1 DEF Linked
  <2>4. ASSUME NEW i \in 1..(n - 1), s[i + 1] # EndOfFrames PROVE Follows(s[i], s[i + 1])
    <3>1. u[i] = s[i] /\ u[i + 1] = s[i + 1]
      BY <2>1, <2>2
    <3>. QED BY <1>2, <2>2, <2>4, <3>1 DEF Linked
  <2>. QED BY <1>1, <2>3, <2>4 DEF Linked
<1>4. ASSUME Head(q) = EndOfFrames PROVE Linked(s \o Tail(q))
  <2>1. PICK t \in Seq(Frames) : /\ t = Tail(q) /\ Len(t) = m - 1
                                 /\ \A i \in 1..(m - 1) : t[i] = q[i + 1]
    <3>1. /\ Tail(q) \in Seq(Frames) /\ Len(Tail(q)) = Len(q) - 1
          /\ \A i \in 1..Len(Tail(q)) : Tail(q)[i] = q[i + 1]
      BY HeadTailProperties
    <3>. QED BY <1>1, <3>1
  <2>2. n + 1 \in 1..(n + m) /\ u[n + 1] = q[1] /\ q[1] = EndOfFrames
    BY <1>1, <1>2, <1>4
  <2>3. ASSUME NEW i \in 1..(m - 1) PROVE t[i] = EndOfFrames
    <3>1. n + i + 1 \in 1..(n + m) /\ n + 1 < n + i + 1 /\ ~(n + i + 1 <= n)
      BY <1>1
    <3>2. u[n + i + 1] = q[i + 1]
      <4>1. u[n + i + 1] = q[n + i + 1 - n] /\ n + i + 1 - n = i + 1
        BY <1>1, <1>2, <3>1
      <4>. QED BY <4>1
    <3>3. u[n + i + 1] = EndOfFrames
      BY <1>2, <2>2, <3>1 DEF Linked
    <3>. QED BY <2>1, <3>2, <3>3
  <2>. QED BY <1>3, <2>1, <2>3, EndsAdded
<1>. QED BY <1>3, <1>4

\* The head of the socket is read, or nothing was sent on it yet.
LEMMA WireRead ==
    ASSUME NEW q, NEW sent \in Nat, NEW inUse \in BOOLEAN, OnTheWire(q, sent, inUse),
           q # <<>>
    PROVE  /\ OnTheWire(Tail(q), sent, inUse) /\ Len(Tail(q)) = Len(q) - 1
           /\ Head(q).kind = "sts" => OnTheWire(Tail(q), sent, TRUE)
           /\ Head(q).kind = "data" /\ inUse => Head(q).n + Len(q) = sent + 1
<1>0. q \in Seq(Messages) /\ Len(q) <= 2
  BY DEF OnTheWire
<1>1. PICK m \in Nat : m = Len(q) /\ (m = 1 \/ m = 2)
  <2>1. Len(q) \in Nat /\ Len(q) # 0
    BY <1>0, EmptySeq
  <2>2. \A k \in Nat : k # 0 /\ k <= 2 => k = 1 \/ k = 2
    OBVIOUS
  <2>. QED BY <1>0, <2>1, <2>2
<1>2. PICK t \in Seq(Messages) : /\ t = Tail(q) /\ Len(t) = m - 1
                                 /\ \A i \in 1..(m - 1) : t[i] = q[i + 1]
  <2>1. /\ Tail(q) \in Seq(Messages) /\ Len(Tail(q)) = Len(q) - 1
        /\ \A i \in 1..Len(Tail(q)) : Tail(q)[i] = q[i + 1]
    BY HeadTailProperties DEF OnTheWire
  <2>. QED BY <1>1, <2>1
<1>3. CASE m = 1
  BY <1>1, <1>2, <1>3 DEF OnTheWire
<1>4. CASE m = 2
  <2>1. Len(t) = 1 /\ t[1] = q[2] /\ Head(q) = q[1]
    BY <1>1, <1>2, <1>4 DEF OnTheWire
  <2>2. OnTheWire(t, sent, inUse)
    BY <1>1, <1>4, <2>1 DEF OnTheWire
  <2>3. q[1].kind = "sts" => q[2].kind = "data"
    <3>1. 1 \in 1..Len(q) /\ 2 \in 1..Len(q) /\ 1 # 2
      BY <1>1, <1>4
    <3>2. ~(q[1].kind = "sts" /\ q[2].kind = "sts")
      BY <3>1 DEF OnTheWire
    <3>3. q[2] \in Messages
      BY <1>0, <3>1, ElementOfSeq
    <3>4. q[2].kind \in {"sts", "data"}
      BY <3>3 DEF Messages, Ack, Data
    <3>. QED BY <3>2, <3>4
  <2>4. Head(q).kind = "sts" => OnTheWire(t, sent, TRUE)
    BY <2>1, <2>2, <2>3 DEF OnTheWire
  <2>5. Head(q).kind = "data" /\ inUse => q[1].n = sent - 1
    <3>1. 1 \in 1..Len(q) /\ 2 \in 1..Len(q) /\ 1 + 1 = 2 /\ 1 < Len(q)
      BY <1>1, <1>4
    <3>2. inUse => q[2].kind = "data"
      BY <3>1 DEF OnTheWire
    <3>3. q[1].kind = "data" => q[1].n = IF 1 < Len(q) /\ q[1 + 1].kind = "data" THEN sent - 1 ELSE sent
      BY <3>1 DEF OnTheWire
    <3>. QED BY <2>1, <3>1, <3>2, <3>3
  <2>6. Head(q).kind = "data" /\ inUse => Head(q).n + Len(q) = sent + 1
    BY <1>1, <1>4, <2>1, <2>5
  <2>. QED BY <1>1, <1>2, <1>4, <2>2, <2>4, <2>6
<1>. QED BY <1>1, <1>3, <1>4

\* The gateway sends an answer, or its next frame.
LEMMA WireSent ==
    ASSUME NEW q, NEW sent \in Nat, NEW inUse \in BOOLEAN, OnTheWire(q, sent, inUse),
           Len(q) < 2, NEW m \in Messages, NEW sent2 \in Nat,
           \/ m.kind = "sts" /\ sent2 = sent /\ ~inUse /\ \A i \in 1..Len(q) : q[i].kind # "sts"
           \/ m.kind = "data" /\ sent2 = sent + 1 /\ m.n = sent2
    PROVE  OnTheWire(Append(q, m), sent2, inUse) /\ Len(Append(q, m)) = Len(q) + 1
<1>0. q \in Seq(Messages) /\ m.kind \in {"sts", "data"}
  BY DEF OnTheWire, Messages, Ack, Data
<1>1. PICK n \in Nat : n = Len(q) /\ (n = 0 \/ n = 1)
  <2>1. Len(q) \in Nat
    BY <1>0
  <2>2. \A k \in Nat : k < 2 => k = 0 \/ k = 1
    OBVIOUS
  <2>. QED BY <2>1, <2>2
<1>2. PICK t \in Seq(Messages) : /\ t = Append(q, m) /\ Len(t) = n + 1 /\ t[n + 1] = m
                                 /\ \A i \in 1..n : t[i] = q[i]
  <2>1. /\ Append(q, m) \in Seq(Messages) /\ Len(Append(q, m)) = Len(q) + 1
        /\ Append(q, m)[Len(q) + 1] = m /\ \A i \in 1..Len(q) : Append(q, m)[i] = q[i]
    BY <1>0, AppendProperties
  <2>. QED BY <1>1, <2>1
<1>3. CASE n = 0
  BY <1>0, <1>1, <1>2, <1>3 DEF OnTheWire
<1>4. CASE n = 1
  <2>1. t[1] = q[1] /\ t[2] = m /\ Len(t) = 2
    BY <1>2, <1>4
  <2>2. q[1].kind = "data" => q[1].n = sent
    BY <1>1, <1>4 DEF OnTheWire
  <2>3. inUse => q[1].kind = "data" /\ m.kind = "data"
    BY <1>0, <1>1, <1>4 DEF OnTheWire
  <2>4. q[1].kind # "sts" \/ m.kind # "sts"
    BY <1>1, <1>4
  <2>5. \A i \in 1..2 : i = 1 \/ i = 2
    OBVIOUS
  <2>6. \A i \in 1..2 : t[i].kind = "data" =>
          t[i].n = IF i < 2 /\ t[i + 1].kind = "data" THEN sent2 - 1 ELSE sent2
    BY <1>0, <2>1, <2>2, <2>5
  <2>7. \A i, j \in 1..2 : t[i].kind = "sts" /\ t[j].kind = "sts" => i = j
    BY <2>1, <2>4, <2>5
  <2>. QED BY <1>1, <1>2, <1>4, <2>1, <2>3, <2>5, <2>6, <2>7 DEF OnTheWire
<1>. QED BY <1>1, <1>3, <1>4

LEMMA WireEmpty ==
    ASSUME NEW sent \in Nat, NEW inUse \in BOOLEAN PROVE OnTheWire(<<>>, sent, inUse)
BY DEF OnTheWire

\* The client's end puts ends behind the frames queued.
LEMMA ClientEnds ==
    ASSUME WsInv, NEW t \in Seq(Frames), t # <<>>, \A i \in 1..Len(t) : t[i] = EndOfFrames,
           frameQueue' = frameQueue \o t, wsTask' = "ended",
           UNCHANGED <<iterated, connection, sentOnIt>>, inFlight' = <<>>
    PROVE  WsInv'
<1>1. PICK q \in Seq(Frames) : q = frameQueue
  BY DEF WsInv
<1>2. PICK s \in Seq(Frames) : s = iterated
  BY DEF WsInv
<1>3. q \o t \in Seq(Frames) /\ s \o q \in Seq(Frames)
  BY ConcatProperties
<1>4. Linked(s \o q)
  BY <1>1, <1>2 DEF WsInv, Coming
<1>5. Linked((s \o q) \o t)
  BY <1>3, <1>4, EndsAdded
<1>6. (s \o q) \o t = s \o (q \o t)
  BY ConcatAssociative, SMTT(30)
<1>7. Coming' = s \o (q \o t) /\ Linked(Coming)'
  BY <1>1, <1>2, <1>5, <1>6, ZenonT(40) DEF Coming, Linked
<1>8. OnTheWire(inFlight, sentOnIt, wsTask = "reading")'
  BY WireEmpty DEF WsInv
<1>9. \E i \in 1..Len(q \o t) : (q \o t)[i] = EndOfFrames
  <2>1. PICK n \in Nat : n = Len(q)
    OBVIOUS
  <2>2. PICK m \in Nat : m = Len(t) /\ m >= 1
    OBVIOUS
  <2>3. n + 1 \in 1..(n + m) /\ (q \o t)[n + 1] = t[n + 1 - n] /\ n + 1 - n = 1
        /\ Len(q \o t) = n + m
    BY <2>1, <2>2, ConcatProperties
  <2>. QED BY <2>2, <2>3
<1>. QED BY <1>1, <1>2, <1>3, <1>7, <1>8, <1>9 DEF WsInv, Running, NobodyIsLeftWaiting, Contains

\* What does not touch the frames and leaves the last behind keeps the invariant.
LEMMA FramesStay ==
    ASSUME WsInv, UNCHANGED <<iterated, frameQueue>>, closing' = closing,
           wsTask' \in {"new", "opening", "reading", "retrying"}, wsTask # "ended",
           wsTask' # "new" => connection' > 0, wsTask' = "new" => connection' = 0,
           connection' \in Nat, sentOnIt' \in Nat,
           OnTheWire(inFlight', sentOnIt', wsTask' = "reading"),
           \/ connection' > connection
           \/ connection' = connection /\ (wsTask' = wsTask \/ wsTask # "reading")
              /\ sentOnIt' - Len(inFlight') = sentOnIt - Len(inFlight)
           \/ connection' = connection /\ wsTask # "reading"
    PROVE  WsInv'
<1>1. Coming' = Coming
  BY DEF Coming
<1>2. PICK u \in Seq(Frames) : u = Coming
  BY ConcatProperties DEF WsInv, Coming
<1>3. ASSUME u # <<>> PROVE IsBehind(u[Len(u)])'
  <2>1. PICK f \in Nat \X Nat : f = u[Len(u)]
    BY <1>3 DEF Frames
  <2>2. IsBehind(f)
    BY <1>2, <1>3, <2>1 DEF WsInv, Running
  <2>3. Len(inFlight) \in Nat /\ Len(inFlight') \in Nat
    BY DEF WsInv, OnTheWire
  <2>4. f[1] \in Nat /\ f[2] \in Nat
    BY <2>1
  <2>5. f[1] <= connection /\ connection \in Nat /\ sentOnIt \in Nat
    BY <2>2, <2>4 DEF IsBehind, WsInv
  <2>6. \/ f[1] < connection
        \/ wsTask = "reading" /\ f[1] = connection /\ f[2] = sentOnIt - Len(inFlight)
    BY <2>2, <2>3, <2>4, <2>5 DEF IsBehind
  <2>7. \/ f[1] < connection'
        \/ wsTask' = "reading" /\ f[1] = connection' /\ f[2] = sentOnIt' - Len(inFlight')
    BY <2>4, <2>5, <2>6
  <2>8. IsBehind(f)'
    BY <2>3, <2>4, <2>7 DEF IsBehind
  <2>. QED BY <1>1, <1>2, <2>1, <2>8
<1>4. Linked(Coming)'
  BY <1>1 DEF WsInv, Linked
<1>5. Running'
  BY <1>1, <1>2, <1>3 DEF WsInv, Running
<1>6. OnTheWire(inFlight, sentOnIt, wsTask = "reading")'
  OBVIOUS
<1>. QED BY <1>4, <1>5, <1>6 DEF WsInv, NobodyIsLeftWaiting

LEMMA WsInductive == WsSpec => []WsInv
<1>1. WsInit => WsInv
  <2>. SUFFICES ASSUME WsInit PROVE WsInv
    OBVIOUS
  <2>1. iterated \in Seq(Frames) /\ frameQueue \in Seq(Frames) /\ Coming = <<>> /\ Len(Coming) = 0
    BY DEF WsInit, Coming
  <2>2. Linked(Coming) /\ Running
    BY <2>1 DEF WsInit, Linked, Running
  <2>3. OnTheWire(inFlight, sentOnIt, wsTask = "reading")
    BY WireEmpty DEF WsInit
  <2>. QED BY <2>1, <2>2, <2>3 DEF WsInit, WsInv, NobodyIsLeftWaiting
<1>2. ASSUME WsInv, NEW m \in Messages, GatewaySends(m),
             m.kind = "sts" \/ m.kind = "data"
      PROVE  WsInv'
  <2>1. OnTheWire(Append(inFlight, m), sentOnIt', wsTask = "reading")
        /\ Len(Append(inFlight, m)) = Len(inFlight) + 1
    <3>1. \/ m.kind = "sts" /\ sentOnIt' = sentOnIt /\ ~(wsTask = "reading")
             /\ \A i \in 1..Len(inFlight) : inFlight[i].kind # "sts"
          \/ m.kind = "data" /\ sentOnIt' = sentOnIt + 1 /\ m.n = sentOnIt'
      <4>1. DOMAIN inFlight = 1..Len(inFlight)
        BY <1>2 DEF WsInv, OnTheWire
      <4>. QED BY <1>2, <4>1 DEF GatewaySends
    <3>2. sentOnIt \in Nat /\ sentOnIt' \in Nat /\ Len(inFlight) < 2
      BY <1>2, <3>1 DEF WsInv, GatewaySends
    <3>3. PICK w \in BOOLEAN : w <=> wsTask = "reading"
      OBVIOUS
    <3>4. OnTheWire(inFlight, sentOnIt, w)
      BY <1>2, <3>3 DEF WsInv, OnTheWire
    <3>5. OnTheWire(Append(inFlight, m), sentOnIt', w)
          /\ Len(Append(inFlight, m)) = Len(inFlight) + 1
      BY <3>1, <3>2, <3>3, <3>4, WireSent
    <3>. QED BY <3>3, <3>5 DEF OnTheWire
  <2>2. /\ inFlight' = Append(inFlight, m) /\ wsTask' = wsTask /\ connection' = connection
        /\ closing' = closing /\ UNCHANGED <<iterated, frameQueue>>
        /\ wsTask \in {"opening", "reading", "retrying"}
    BY <1>2 DEF GatewaySends
  <2>3. wsTask = "reading" => sentOnIt' = sentOnIt + 1
    BY <1>2 DEF GatewaySends
  <2>4. connection \in Nat /\ connection > 0 /\ sentOnIt \in Nat /\ sentOnIt' \in Nat
        /\ Len(inFlight) \in Nat
    BY <1>2 DEF WsInv, GatewaySends, OnTheWire
  <2>. QED BY <1>2, <2>1, <2>2, <2>3, <2>4, FramesStay
<1>3. ASSUME WsInv, LayerPolls PROVE WsInv'
  BY <1>3, FramesStay DEF WsInv, LayerPolls
<1>4. ASSUME WsInv, WsConnect \/ ReceiveFails \/ AttemptRefused PROVE WsInv'
  <2>1. inFlight' = <<>> /\ sentOnIt' \in Nat
    BY <1>4 DEF WsConnect, ReceiveFails, AttemptRefused
  <2>2. OnTheWire(inFlight', sentOnIt', wsTask' = "reading")
    BY <2>1 DEF OnTheWire
  <2>3. connection' > connection /\ connection' > 0 /\ connection' \in Nat
    BY <1>4 DEF WsInv, WsConnect, ReceiveFails, AttemptRefused
  <2>4. /\ closing' = closing /\ UNCHANGED <<iterated, frameQueue>>
        /\ wsTask' \in {"opening", "reading", "retrying"} /\ wsTask # "ended"
    BY <1>4 DEF WsInv, WsConnect, ReceiveFails, AttemptRefused
  <2>. QED BY <1>4, <2>1, <2>2, <2>3, <2>4, FramesStay
<1>5. ASSUME WsInv, FrameBeforeAck \/ ConnectAccepted \/ ReconnectAccepted PROVE WsInv'
  <2>1. /\ inFlight # <<>> /\ inFlight' = Tail(inFlight) /\ sentOnIt' = sentOnIt
        /\ wsTask \in {"opening", "retrying"} /\ connection' = connection
        /\ closing' = closing /\ UNCHANGED <<iterated, frameQueue>>
    BY <1>5 DEF FrameBeforeAck, ConnectAccepted, ReconnectAccepted, AckReceived
  <2>2. wsTask' = wsTask \/ (wsTask' = "reading" /\ Head(inFlight).kind = "sts")
    BY <1>5 DEF FrameBeforeAck, ConnectAccepted, ReconnectAccepted, AckReceived, Ack
  <2>3. OnTheWire(inFlight, sentOnIt, FALSE) /\ sentOnIt \in Nat
    BY <1>5, <2>1 DEF WsInv, OnTheWire
  <2>4. /\ OnTheWire(Tail(inFlight), sentOnIt, FALSE)
        /\ Head(inFlight).kind = "sts" => OnTheWire(Tail(inFlight), sentOnIt, TRUE)
    BY <2>1, <2>3, WireRead
  <2>5. OnTheWire(inFlight', sentOnIt', wsTask' = "reading")
    BY <2>1, <2>2, <2>4 DEF OnTheWire
  <2>6. connection \in Nat /\ connection > 0
    BY <1>5, <2>1 DEF WsInv
  <2>. QED BY <1>5, <2>1, <2>2, <2>3, <2>5, <2>6, FramesStay
<1>6. ASSUME WsInv, ConnectRefused \/ GivesUp PROVE WsInv'
  <2>1. <<EndOfFrames>> \in Seq(Frames) /\ frameQueue \in Seq(Frames) /\ EndOfFrames \in Frames
    BY <1>6 DEF WsInv, EndOfFrames, Frames
  <2>2. frameQueue' = frameQueue \o <<EndOfFrames>>
    BY <1>6, <2>1, AppendIsConcat DEF ConnectRefused, GivesUp
  <2>3. Len(<<EndOfFrames>>) = 1 /\ <<EndOfFrames>>[1] = EndOfFrames /\ <<EndOfFrames>> # <<>>
    OBVIOUS
  <2>4. \A i \in 1..Len(<<EndOfFrames>>) : <<EndOfFrames>>[i] = EndOfFrames
    BY <2>3
  <2>5. wsTask' = "ended" /\ inFlight' = <<>> /\ UNCHANGED <<iterated, connection, sentOnIt>>
    BY <1>6 DEF ConnectRefused, GivesUp
  <2>. QED BY <1>6, <2>1, <2>2, <2>3, <2>4, <2>5, ClientEnds
<1>7. ASSUME WsInv, WsCloses PROVE WsInv'
  <2>1. PICK ends \in Nat : /\ ends > 0
                            /\ frameQueue' = frameQueue \o [i \in 1..ends |-> EndOfFrames]
    BY <1>7, SMTT(30) DEF WsCloses
  <2>2. PICK t : t = [i \in 1..ends |-> EndOfFrames]
    OBVIOUS
  <2>3. t \in Seq(Frames) /\ Len(t) = ends /\ t # <<>> /\ \A i \in 1..Len(t) : t[i] = EndOfFrames
    <3>1. EndOfFrames \in Frames
      BY DEF EndOfFrames, Frames
    <3>2. t \in Seq(Frames) /\ Len(t) = ends
      BY <2>1, <2>2, <3>1
    <3>. QED BY <2>1, <2>2, <3>2
  <2>4. wsTask' = "ended" /\ inFlight' = <<>> /\ UNCHANGED <<iterated, connection, sentOnIt>>
    BY <1>7 DEF WsCloses
  <2>. QED BY <1>7, <2>1, <2>2, <2>3, <2>4, ClientEnds
<1>8. ASSUME WsInv, FrameReceived PROVE WsInv'
  <2>1. PICK s \in Seq(Frames), q \in Seq(Frames) : s = iterated /\ q = frameQueue
    BY <1>8 DEF WsInv
  <2>2. s \o q \in Seq(Frames) /\ Coming = s \o q
    BY <2>1, ConcatProperties DEF Coming
  <2>3. /\ wsTask = "reading" /\ inFlight # <<>> /\ Head(inFlight).kind = "data"
        /\ inFlight' = Tail(inFlight) /\ sentOnIt \in Nat /\ connection \in Nat /\ connection > 0
        /\ UNCHANGED <<wsTask, closing, connection, sentOnIt, iterated, source>>
        /\ frameQueue' = Append(frameQueue, <<connection, Head(inFlight).n>>)
    BY <1>8 DEF WsInv, FrameReceived
  <2>4. OnTheWire(inFlight, sentOnIt, TRUE)
    BY <1>8, <2>3 DEF WsInv, OnTheWire
  <2>5. /\ OnTheWire(Tail(inFlight), sentOnIt, TRUE) /\ Len(Tail(inFlight)) = Len(inFlight) - 1
        /\ Head(inFlight).n + Len(inFlight) = sentOnIt + 1
    BY <2>3, <2>4, WireRead
  <2>6. Head(inFlight).n \in Nat /\ Len(inFlight) \in Nat
    <3>1. Head(inFlight) \in Messages /\ Len(inFlight) \in Nat
      BY <2>3, <2>4 DEF OnTheWire
    <3>. QED BY <2>3, <3>1 DEF Messages, Ack, Data
  <2>7. PICK e \in Frames : e = <<connection, Head(inFlight).n>> /\ e # EndOfFrames
                            /\ e[1] = connection /\ e[2] = Head(inFlight).n
    <3>1. PICK a : a = Head(inFlight).n /\ a \in Nat
      BY <2>6
    <3>2. <<connection, a>> \in Nat \X Nat /\ <<connection, a>>[1] = connection
          /\ <<connection, a>>[2] = a
      BY <2>3, <3>1
    <3>3. <<connection, a>> # EndOfFrames
      BY <2>3, <3>2 DEF EndOfFrames
    <3>. QED BY <3>1, <3>2, <3>3 DEF Frames
  <2>8. /\ \A i \in 1..Len(s \o q) : (s \o q)[i] # EndOfFrames
        /\ s \o q # <<>> => IsBehind((s \o q)[Len(s \o q)])
    BY <1>8, <2>2, <2>3 DEF WsInv, Running
  <2>9. s \o q # <<>> => Follows((s \o q)[Len(s \o q)], e)
    <3>. SUFFICES ASSUME s \o q # <<>> PROVE Follows((s \o q)[Len(s \o q)], e)
      OBVIOUS
    <3>1. PICK f \in Nat \X Nat : f = (s \o q)[Len(s \o q)]
      <4>1. PICK u \in Seq(Frames) : u = s \o q /\ u # <<>>
        BY <2>2
      <4>2. u[Len(u)] \in Frames
        BY <4>1
      <4>. QED BY <4>1, <4>2 DEF Frames
    <3>2. IsBehind(f) /\ f[1] \in Nat /\ f[2] \in Nat /\ f = <<f[1], f[2]>>
      BY <2>8, <3>1
    <3>3. f[1] < connection \/ (f[1] = connection /\ f[2] + 1 = Head(inFlight).n)
      BY <2>3, <2>5, <2>6, <3>2 DEF IsBehind
    <3>. QED BY <2>3, <2>7, <3>1, <3>2, <3>3 DEF Follows
  <2>10. Linked(s \o q)
    BY <1>8, <2>2 DEF WsInv
  <2>11. Linked(Append(s \o q, e))
    BY <2>2, <2>7, <2>8, <2>9, <2>10, AppendLinks
  <2>12. Coming' = Append(s \o q, e) /\ Append(q, e) \in Seq(Frames)
    <3>1. <<e>> \in Seq(Frames) /\ Append(q, e) = q \o <<e>> /\ Append(q, e) \in Seq(Frames)
          /\ Append(s \o q, e) = (s \o q) \o <<e>>
      BY <2>2, AppendIsConcat, AppendProperties
    <3>2. s \o (q \o <<e>>) = (s \o q) \o <<e>>
      BY <3>1, ConcatAssociative
    <3>. QED BY <2>1, <2>3, <2>7, <3>1, <3>2 DEF Coming
  <2>13. PICK n \in Nat : n = Len(s \o q)
    BY <2>2
  <2>14. PICK u \in Seq(Frames) : /\ u = Append(s \o q, e) /\ Len(u) = n + 1 /\ u[n + 1] = e
                                  /\ \A i \in 1..n : u[i] = (s \o q)[i]
    <3>1. /\ Append(s \o q, e) \in Seq(Frames) /\ Len(Append(s \o q, e)) = Len(s \o q) + 1
          /\ Append(s \o q, e)[Len(s \o q) + 1] = e
          /\ \A i \in 1..Len(s \o q) : Append(s \o q, e)[i] = (s \o q)[i]
      BY <2>2, AppendProperties
    <3>. QED BY <2>13, <3>1
  <2>15. \A i \in 1..(n + 1) : u[i] # EndOfFrames
    BY <2>7, <2>8, <2>13, <2>14
  <2>16. IsBehind(e)'
    <3>1. PICK l \in Nat, h \in Nat : l = Len(inFlight) /\ h = Head(inFlight).n
      BY <2>6
    <3>2. Len(inFlight') = l - 1 /\ h + l = sentOnIt + 1 /\ e[2] = h
      BY <2>3, <2>5, <2>7, <3>1
    <3>3. e[2] + Len(inFlight') = sentOnIt
      BY <2>3, <3>1, <3>2, SMTT(30)
    <3>. QED BY <2>3, <2>7, <3>3 DEF IsBehind
  <2>17. Running'
    BY <1>8, <2>3, <2>12, <2>14, <2>15, <2>16 DEF WsInv, Running
  <2>18. OnTheWire(inFlight, sentOnIt, wsTask = "reading")'
    BY <2>3, <2>5 DEF OnTheWire
  <2>19. Linked(Coming)'
    BY <2>11, <2>12 DEF Linked
  <2>20. iterated' \in Seq(Frames) /\ frameQueue' \in Seq(Frames)
    BY <2>1, <2>3, <2>7, <2>12
  <2>. QED BY <1>8, <2>3, <2>17, <2>18, <2>19, <2>20 DEF WsInv, NobodyIsLeftWaiting
<1>9. ASSUME WsInv, FrameIterated PROVE WsInv'
  <2>1. PICK s \in Seq(Frames), q \in Seq(Frames) : s = iterated /\ q = frameQueue /\ q # <<>>
    BY <1>9 DEF WsInv, FrameIterated
  <2>2. UNCHANGED <<wsTask, closing, connection, inFlight, sentOnIt>> /\ frameQueue' = Tail(q)
    BY <1>9, <2>1 DEF FrameIterated
  <2>3. Linked(s \o q) /\ Coming = s \o q
    BY <1>9, <2>1 DEF WsInv, Coming
  <2>4. CASE Head(q) = EndOfFrames
    <3>1. source' = "stopped" /\ iterated' = s
      BY <1>9, <2>1, <2>4 DEF FrameIterated
    <3>2. Linked(s \o Tail(q)) /\ Coming' = s \o Tail(q) /\ Tail(q) \in Seq(Frames)
      BY <2>1, <2>2, <2>3, <2>4, <3>1, EndTaken, HeadTailProperties DEF Coming
    <3>3. wsTask = "ended"
      <4>1. PICK n \in Nat : n = Len(s)
        OBVIOUS
      <4>2. PICK m \in Nat : m = Len(q) /\ m >= 1
        BY <2>1
      <4>3. Len(s \o q) = n + m /\ (s \o q)[n + 1] = q[n + 1 - n] /\ n + 1 - n = 1
            /\ n + 1 \in 1..(n + m)
        BY <4>1, <4>2, ConcatProperties
      <4>4. (s \o q)[n + 1] = EndOfFrames
        BY <2>4, <4>3
      <4>. QED BY <1>9, <2>3, <4>3, <4>4 DEF WsInv, Running
    <3>4. Running' /\ NobodyIsLeftWaiting'
      BY <2>2, <3>1, <3>3 DEF Running, NobodyIsLeftWaiting
    <3>5. Linked(Coming)' /\ OnTheWire(inFlight, sentOnIt, wsTask = "reading")'
      BY <1>9, <2>2, <3>2 DEF WsInv, Linked, OnTheWire
    <3>. QED BY <1>9, <2>1, <2>2, <3>1, <3>2, <3>4, <3>5 DEF WsInv
  <2>5. CASE Head(q) # EndOfFrames
    <3>1. source' = source /\ iterated' = Append(s, Head(q))
      BY <1>9, <2>1, <2>5 DEF FrameIterated
    <3>2. Coming' = Coming /\ iterated' \in Seq(Frames) /\ frameQueue' \in Seq(Frames)
      BY <2>1, <2>2, <2>3, <3>1, TakenOver DEF Coming
    <3>3. Running' /\ Linked(Coming)' /\ OnTheWire(inFlight, sentOnIt, wsTask = "reading")'
      BY <1>9, <2>2, <3>2 DEF WsInv, Running, IsBehind, Linked, OnTheWire
    <3>4. NobodyIsLeftWaiting'
      <4>. SUFFICES ASSUME wsTask = "ended", source = "iterating"
                    PROVE  Contains(Tail(q), EndOfFrames)
        BY <2>2, <3>1 DEF NobodyIsLeftWaiting
      <4>1. PICK m \in Nat : m = Len(q)
        OBVIOUS
      <4>2. PICK i \in 1..m : q[i] = EndOfFrames
        BY <1>9, <2>1, <4>1 DEF WsInv, NobodyIsLeftWaiting, Contains
      <4>3. q[1] # EndOfFrames
        BY <2>5
      <4>4. i - 1 \in 1..(m - 1) /\ i - 1 + 1 = i
        BY <4>1, <4>2, <4>3
      <4>5. Len(Tail(q)) = m - 1 /\ \A k \in 1..Len(Tail(q)) : Tail(q)[k] = q[k + 1]
        BY <2>1, <4>1, HeadTailProperties
      <4>6. Tail(q)[i - 1] = EndOfFrames
        BY <4>2, <4>4, <4>5
      <4>. QED BY <4>4, <4>5, <4>6 DEF Contains
    <3>. QED BY <1>9, <2>2, <3>2, <3>3, <3>4 DEF WsInv
  <2>. QED BY <2>4, <2>5
<1>10. ASSUME WsInv, \/ \E ok \in BOOLEAN : GatewaySends(Ack(ok))
                     \/ \E n \in 1..FramesPerConnection : GatewaySends(Data(n))
       PROVE  WsInv'
  <2>1. CASE \E ok \in BOOLEAN : GatewaySends(Ack(ok))
    <3>1. PICK ok \in BOOLEAN : GatewaySends(Ack(ok))
      BY <2>1
    <3>2. Ack(ok) \in Messages /\ Ack(ok).kind = "sts"
      BY DEF Messages, Ack
    <3>. QED BY <1>2, <1>10, <3>1, <3>2
  <2>2. CASE \E n \in 1..FramesPerConnection : GatewaySends(Data(n))
    <3>1. PICK n \in 1..FramesPerConnection : GatewaySends(Data(n))
      BY <2>2
    <3>2. n \in Nat /\ Data(n).kind = "data" /\ Data(n).n = n
      BY <3>1 DEF GatewaySends, Data, WsInv
    <3>3. Data(n) \in Messages
      BY <3>2 DEF Messages
    <3>. QED BY <1>2, <1>10, <3>1, <3>2, <3>3
  <2>. QED BY <1>10, <2>1, <2>2
<1>12. ASSUME WsInv, SourceStops PROVE WsInv'
  BY <1>12 DEF WsInv, SourceStops, Running, Coming, IsBehind, Linked, OnTheWire, NobodyIsLeftWaiting
<1>13. ASSUME WsInv, UNCHANGED wsVars PROVE WsInv'
  BY <1>13 DEF WsInv, wsVars, Running, Coming, IsBehind, Linked, OnTheWire, NobodyIsLeftWaiting
<1>14. WsInv /\ [WsNext]_wsVars => WsInv'
  BY <1>3, <1>4, <1>5, <1>6, <1>7, <1>8, <1>9, <1>10, <1>12, <1>13 DEF WsNext
<1>. QED BY <1>1, <1>14, PTL DEF WsSpec

\* For any numbers of attempts, frames and connections: frames reach the iterator in
\* order and without a gap, and its end when the client has ended.
THEOREM FramesArrive == WsSpec => []FramesReachTheSource
<1>1. WsInv => FramesReachTheSource
  <2>. SUFFICES ASSUME WsInv PROVE FramesReachTheSource
    OBVIOUS
  <2>1. PICK u \in Seq(Frames) : u = Coming
    BY ConcatProperties DEF WsInv, Coming
  <2>2. PICK n \in Nat : n = Len(u)
    OBVIOUS
  <2>3. \A i \in 1..(n - 1) : i \in 1..n /\ i + 1 \in 1..n /\ i < i + 1
    BY <2>2
  <2>4. \A i \in 1..(n - 1) : u[i + 1] # EndOfFrames => u[i] # EndOfFrames /\ Follows(u[i], u[i + 1])
    BY <2>1, <2>2, <2>3 DEF WsInv, Linked
  <2>5. FramesInOrder
    BY <2>1, <2>2, <2>4 DEF FramesInOrder
  <2>. QED BY <2>5 DEF WsInv, FramesReachTheSource
<1>. QED BY <1>1, WsInductive, PTL

\* What the gateway sends, and what the client makes of it.
Sendings == {Ack(ok) : ok \in BOOLEAN} \cup {Data(n) : n \in 1..FramesPerConnection}
Receipts == {EndOfFrames} \cup ((1..MaxConnections) \X (1..FramesPerConnection))

WsBounds ==
    /\ closing \in BOOLEAN /\ connection \in 0..MaxConnections
    /\ sentOnIt \in 0..FramesPerConnection /\ attempt \in 0..MaxReconnectAttempts
    /\ source \in {"none", "iterating", "stopped"}
    /\ quoteLayer \in {"undecided", "polling", "ws"}
    /\ inFlight \in Seq(Sendings)
    /\ frameQueue \in Seq(Receipts) /\ iterated \in Seq(Receipts)

\* For any numbers of attempts, frames and connections the client stays within them, and
\* hands on nothing but frames of its connections and ends.
THEOREM WsTypeCorrect == WsSpec => []WsTypeOK
<1>. USE WsAssumption
<1>0. EndOfFrames \in Receipts /\ <<EndOfFrames>> \in Seq(Receipts)
  BY DEF Receipts
<1>1. WsInit => WsBounds
  <2>1. <<>> \in Seq(Sendings) /\ <<>> \in Seq(Receipts)
    BY EmptySeq
  <2>2. 0 \in 0..MaxConnections /\ 0 \in 0..FramesPerConnection /\ 0 \in 0..MaxReconnectAttempts
    OBVIOUS
  <2>. QED BY <2>1, <2>2, Zenon DEF WsInit, WsBounds
<1>2. WsInv /\ WsBounds /\ [WsNext]_wsVars => WsBounds'
  <2>. SUFFICES ASSUME WsInv, WsBounds, [WsNext]_wsVars PROVE WsBounds'
    OBVIOUS
  <2>t. inFlight # <<>> => Tail(inFlight) \in Seq(Sendings) /\ Head(inFlight) \in Sendings
    BY HeadTailProperties DEF WsBounds
  <2>1. ASSUME NEW m \in Sendings, GatewaySends(m) PROVE WsBounds'
    <3>1. Append(inFlight, m) \in Seq(Sendings)
      BY <2>1, AppendProperties DEF WsBounds
    <3>2. m.kind = "data" => m.n \in 1..FramesPerConnection
      BY DEF Sendings, Ack, Data
    <3>3. sentOnIt' \in 0..FramesPerConnection
      BY <2>1, <3>2 DEF GatewaySends, WsBounds
    <3>. QED BY <2>1, <3>1, <3>3 DEF GatewaySends, WsBounds
  <2>2. CASE LayerPolls \/ SourceStops \/ UNCHANGED wsVars
    BY <2>2 DEF LayerPolls, SourceStops, wsVars, WsBounds
  <2>3. CASE WsConnect \/ ReceiveFails \/ AttemptRefused
    <3>1. <<>> \in Seq(Sendings)
      OBVIOUS
    <3>2. /\ connection' \in 0..MaxConnections /\ attempt' \in 0..MaxReconnectAttempts
          /\ sentOnIt' \in 0..FramesPerConnection
      BY <2>3 DEF WsConnect, ReceiveFails, AttemptRefused, WsBounds
    <3>3. /\ inFlight' = <<>>
          /\ UNCHANGED <<closing, frameQueue, source, iterated, quoteLayer>>
      BY <2>3 DEF WsConnect, ReceiveFails, AttemptRefused
    <3>. QED BY <3>1, <3>2, <3>3 DEF WsBounds
  <2>4. CASE FrameBeforeAck \/ ConnectAccepted \/ ReconnectAccepted
    <3>1. /\ inFlight # <<>> /\ inFlight' = Tail(inFlight) /\ attempt' \in {attempt, 0}
          /\ source' \in {source, "iterating"} /\ quoteLayer' \in {quoteLayer, "ws"}
          /\ UNCHANGED <<closing, connection, sentOnIt, frameQueue, iterated>>
      BY <2>4 DEF FrameBeforeAck, ConnectAccepted, ReconnectAccepted, AckReceived
    <3>2. inFlight' \in Seq(Sendings)
      BY <2>t, <3>1
    <3>3. attempt' \in 0..MaxReconnectAttempts
      BY <3>1 DEF WsBounds
    <3>. QED BY <3>1, <3>2, <3>3 DEF WsBounds
  <2>5. CASE ConnectRefused \/ GivesUp
    <3>1. <<>> \in Seq(Sendings) /\ Append(frameQueue, EndOfFrames) \in Seq(Receipts)
      BY <1>0, AppendProperties DEF WsBounds
    <3>. QED BY <2>5, <3>1 DEF ConnectRefused, GivesUp, WsBounds
  <2>6. CASE FrameReceived
    <3>1. /\ wsTask = "reading" /\ Head(inFlight).kind = "data" /\ inFlight # <<>>
          /\ frameQueue' = Append(frameQueue, <<connection, Head(inFlight).n>>)
      BY <2>6 DEF FrameReceived
    <3>2. PICK n \in 1..FramesPerConnection : n = Head(inFlight).n
      BY <2>t, <3>1 DEF Sendings, Ack, Data
    <3>3. connection \in 1..MaxConnections
      BY <3>1 DEF WsInv, WsBounds
    <3>4. <<connection, n>> \in Receipts
      BY <3>3 DEF Receipts
    <3>5. frameQueue' \in Seq(Receipts)
      BY <3>1, <3>2, <3>4, AppendProperties DEF WsBounds
    <3>. QED BY <2>6, <2>t, <3>1, <3>5 DEF FrameReceived, WsBounds
  <2>7. CASE WsCloses
    <3>0. PICK ends : ends = (IF wsTask \in {"reading", "retrying"} THEN 1 ELSE 0)
                             + (IF closing THEN 0 ELSE 1)
      OBVIOUS
    <3>1. ends \in Nat /\ frameQueue' = frameQueue \o [i \in 1..ends |-> EndOfFrames]
      <4>1. ends \in Nat
        BY <3>0
      <4>2. frameQueue' = frameQueue \o [i \in 1..ends |-> EndOfFrames]
        BY <2>7, <3>0, Zenon DEF WsCloses
      <4>. QED BY <4>1, <4>2
    <3>2. PICK t : t = [i \in 1..ends |-> EndOfFrames]
      OBVIOUS
    <3>3. t \in Seq(Receipts)
      BY <1>0, <3>1, <3>2
    <3>4. frameQueue' \in Seq(Receipts)
      BY <3>1, <3>2, <3>3, ConcatProperties DEF WsBounds
    <3>5. <<>> \in Seq(Sendings)
      OBVIOUS
    <3>6. /\ closing' = TRUE /\ inFlight' = <<>>
          /\ UNCHANGED <<connection, sentOnIt, attempt, source, iterated, quoteLayer>>
      BY <2>7 DEF WsCloses
    <3>. QED BY <3>4, <3>5, <3>6 DEF WsBounds
  <2>8. CASE FrameIterated
    <3>1. /\ frameQueue # <<>> /\ frameQueue' = Tail(frameQueue)
          /\ source' \in {source, "stopped"}
          /\ iterated' \in {iterated, Append(iterated, Head(frameQueue))}
          /\ UNCHANGED <<closing, connection, inFlight, sentOnIt, attempt, quoteLayer>>
      BY <2>8 DEF FrameIterated
    <3>2. Tail(frameQueue) \in Seq(Receipts) /\ Head(frameQueue) \in Receipts
      BY <3>1, HeadTailProperties DEF WsBounds
    <3>3. iterated' \in Seq(Receipts)
      <4>1. PICK s \in Seq(Receipts), e \in Receipts : s = iterated /\ e = Head(frameQueue)
        BY <3>2 DEF WsBounds
      <4>2. Append(s, e) \in Seq(Receipts)
        BY AppendProperties
      <4>. QED BY <3>1, <4>1, <4>2
    <3>. QED BY <3>1, <3>2, <3>3 DEF WsBounds
  <2>9. /\ \A ok \in BOOLEAN : Ack(ok) \in Sendings
        /\ \A n \in 1..FramesPerConnection : Data(n) \in Sendings
    BY DEF Sendings
  <2>. QED BY <2>1, <2>2, <2>3, <2>4, <2>5, <2>6, <2>7, <2>8, <2>9 DEF WsNext
<1>3. WsInv /\ WsBounds => WsTypeOK
  <2>. SUFFICES ASSUME WsInv, WsBounds PROVE WsTypeOK
    OBVIOUS
  <2>1. PICK q \in Seq(Receipts) : q = frameQueue \o iterated
    BY ConcatProperties DEF WsBounds
  <2>2. ToSet(q) \subseteq Receipts
    BY <2>1, ElementOfSeq DEF ToSet
  <2>. QED BY <2>1, <2>2 DEF WsTypeOK, WsInv, WsBounds, Receipts
<1>. QED BY <1>1, <1>2, <1>3, WsInductive, PTL DEF WsSpec
=============================================================================
