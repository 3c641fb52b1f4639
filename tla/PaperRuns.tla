------------------------------ MODULE PaperRuns ------------------------------
(***************************************************************************)
(* What the paper tests leave behind at the broker.  A test places an      *)
(* order far from the market, waits for it, cancels it, and cancels in its *)
(* finally block whatever is listed for its account.  Prices, and the      *)
(* reasons for which a test gives up, are left open.                       *)
(***************************************************************************)
EXTENDS Naturals, Sequences, SequencesExt

CONSTANTS
    TestOrders,      \* orders of the paper account
    OthersOrders,    \* orders of another account of the same session
    CleanupRounds,   \* max_rounds
    Worth,           \* price times quantity of each test order
    WorthPerOrder,   \* BG_PAPER_MAX_NOTIONAL_PER_ORDER, for the functions
    WorthPerAction,  \* BG_PAPER_MAX_NOTIONAL_USD, for PaperActions ...
    WorthInAll       \* ... and BG_PAPER_MAX_NOTIONAL_TOTAL_USD

ASSUME PaperRunsAssumption ==
    /\ CleanupRounds \in Nat \ {0} /\ TestOrders \cap OthersOrders = {}
    /\ Worth \in [TestOrders -> Nat] /\ {WorthPerOrder, WorthPerAction, WorthInAll} \subseteq Nat

VARIABLES
    killSwitch,   \* BG_PAPER_TESTS_DISABLED
    account,      \* BG_PAPER_ACCOUNT_ID is that of a paper or of a live account
    standing,     \* of each order at the broker
    step,         \* where the test is
    testOrder,    \* the order id the test holds, a set of at most one
    round, seenIds, newIds,   \* cancel_all_open_orders: rounds, seen, new_ids
    cancelledIds,        \* its answer: orders whose DELETE was acknowledged
    warned,       \* orders it warned about
    spent,        \* PaperActions._cumulative_notional
    unseen          \* history: orders that its last look did not show

paperVars == <<killSwitch, account, standing, step, testOrder, round, seenIds, newIds,
               cancelledIds, warned, spent, unseen>>

setting == <<killSwitch, account>>
testVars == <<step, testOrder, round, seenIds, newIds, cancelledIds, warned, spent, unseen>>

NoKey == "no_key"

\* Faulty variant: the header is optional.
AcceptsAnything(key) == TRUE

\* _require_idempotency_key: a write without the header is answered 400.
Accepts(key) == key # NoKey

\* kill_switch_active knows one more spelling than PaperActions.place_order.
KillSwitchActive  == killSwitch # "off"
SeenByPaperActions == killSwitch = "true"
IsPaperAccount    == account = "paper"

\* max_notional_per_order, which the functions check, and assert_within_paper_limits,
\* which PaperActions does: that has another limit of its own, and one for the sum.
WithinOrderLimit(o)  == Worth[o] <= WorthPerOrder
WithinPaperLimits(o) == Worth[o] <= WorthPerAction /\ spent + Worth[o] <= WorthInAll

\* Faulty variant: the account filter has no effect (the query was named "account").
ListedOfSession == {o \in DOMAIN standing : standing[o] \in {"open", "cancelling"}}

\* GET /v1/orders: what is open for an account; a submission still pending is not.
Listed == {o \in TestOrders : standing[o] \in {"open", "cancelling"}}

AtBroker(o, state) == standing' = [standing EXCEPT ![o] = state]

\* DELETE reaches the broker: an order that is over stays so.
Cancelling(o) ==
    AtBroker(o, IF standing[o] \in {"pending", "open"} THEN "cancelling" ELSE standing[o])

\* The test goes on to its finally block, whatever it was doing.
ToCleanup ==
    /\ step' = "list" /\ testOrder' = {} /\ round' = 0
    /\ UNCHANGED <<seenIds, newIds, cancelledIds, warned, unseen>>

-----------------------------------------------------------------------------
\* The order is placed; the test has its id, or not when the answer was lost.
PlacesFar(o, key) ==
    /\ step = "place" /\ ~KillSwitchActive /\ IsPaperAccount /\ WithinOrderLimit(o)
    /\ standing[o] = "none" /\ Accepts(key) /\ AtBroker(o, "pending")
    /\ \/ /\ step' = "submitted" /\ testOrder' = {o}
          /\ UNCHANGED <<round, seenIds, newIds, cancelledIds, warned, unseen>>
       \/ ToCleanup
    /\ UNCHANGED <<setting, spent>>

\* place_limit_far_from_market, and place_stop_far_from_market, whose order may be
\* triggered by the market.
PlaceFar(o, key) == PlacesFar(o, key)
PlaceStopFar(o, key) == PlacesFar(o, key)

\* PaperSafetyError (switch, account, distance, no quote, notional) or an HTTP error.
PlaceRefused ==
    /\ step = "place" /\ ToCleanup
    /\ UNCHANGED <<setting, standing, spent>>

\* PaperActions.place_order: a POST without a key, within the limits.
PlaceWithoutKey(o) ==
    /\ step = "place" /\ ~SeenByPaperActions /\ IsPaperAccount /\ WithinPaperLimits(o)
    /\ standing[o] = "none" /\ ToCleanup
    /\ IF Accepts(NoKey)
       THEN AtBroker(o, "pending") /\ spent' = spent + Worth[o]
       ELSE UNCHANGED <<standing, spent>>
    /\ UNCHANGED setting

\* flatten_positions: a POST without a key for each position, up to one that is worth
\* too much.
FlattenPositions(closed) ==
    /\ step = "place" /\ ~KillSwitchActive /\ IsPaperAccount
    /\ \A o \in closed : standing[o] = "none" /\ WithinOrderLimit(o)
    /\ ToCleanup
    /\ standing' = [o \in DOMAIN standing |->
                        IF o \in closed /\ Accepts(NoKey) THEN "pending" ELSE standing[o]]
    /\ UNCHANGED <<setting, spent>>

\* wait_for_order_status: the status is reached, or TimeoutError.
StatusReached ==
    /\ \E o \in testOrder : \/ step = "submitted" /\ standing[o] = "open"
                               /\ step' = "cancel"
                            \/ step = "cancelled" /\ standing[o] \in {"cancelling", "gone"}
                               /\ step' = "list"
    /\ UNCHANGED <<setting, standing, testOrder, round, seenIds, newIds, cancelledIds,
                   warned, spent, unseen>>

WaitTimesOut ==
    /\ step \in {"submitted", "cancelled"} /\ ToCleanup
    /\ UNCHANGED <<setting, standing, spent>>

\* cancel_order in the test: a DELETE that is answered 2xx, refused or lost.
CancelTestOrder(key) ==
    /\ step = "cancel"
    /\ \E o \in testOrder :
        \/ Accepts(key) /\ Cancelling(o) /\ step' \in {"cancelled", "list"}
        \/ step' = "list" /\ UNCHANGED standing
    /\ UNCHANGED <<setting, testOrder, round, seenIds, newIds, cancelledIds, warned,
                   spent, unseen>>

\* PaperActions.cancel_order checks nothing, and sends no key either.
CancelWithoutKey(o) ==
    /\ step = "cancel" /\ step' = "list"
    /\ IF Accepts(NoKey) THEN Cancelling(o) ELSE UNCHANGED standing
    /\ UNCHANGED <<setting, testOrder, round, seenIds, newIds, cancelledIds, warned,
                   spent, unseen>>

-----------------------------------------------------------------------------
\* cancel_all_open_orders: the next look at the list.
LookForOrders ==
    /\ step = "list" /\ IsPaperAccount
    /\ unseen' = {o \in TestOrders : standing[o] = "pending"}
    /\ LET new == Listed \ seenIds IN
        /\ newIds' = new
        /\ step' = IF new = {} THEN "done" ELSE "clean"
    /\ UNCHANGED <<setting, standing, testOrder, round, seenIds, cancelledIds, warned,
                   spent>>

\* The list is not answered 200: the loop ends, nothing of what is open was seen.
LookFails ==
    /\ step = "list" /\ IsPaperAccount /\ step' = "done"
    /\ unseen' = TestOrders
    /\ UNCHANGED <<setting, standing, testOrder, round, seenIds, newIds, cancelledIds,
                   warned, spent>>

\* The account is refused, or a request of the clean-up itself raises.
CleanupRaises ==
    /\ \/ step = "list"
       \/ step = "clean" /\ newIds # {}
    /\ step' = "raised"
    /\ UNCHANGED <<setting, testOrder, round, seenIds, newIds, cancelledIds, warned,
                   spent, unseen>>
    /\ \/ UNCHANGED standing
       \/ step = "clean" /\ ~KillSwitchActive /\ \E o \in newIds : Cancelling(o)

\* One DELETE of the clean-up.
CleanupCancel(o, key) ==
    /\ step = "clean" /\ o \in newIds /\ ~KillSwitchActive
    /\ newIds' = newIds \ {o} /\ seenIds' = seenIds \cup {o}
    /\ \/ /\ Accepts(key) /\ Cancelling(o)
          /\ cancelledIds' = Append(cancelledIds, o) /\ UNCHANGED warned
       \/ warned' = warned \cup {o} /\ UNCHANGED <<standing, cancelledIds>>
    /\ UNCHANGED <<setting, step, testOrder, round, spent, unseen>>

\* After the last DELETE it waits settle_s and looks again, max_rounds times in all.
NextRound ==
    /\ step = "clean" /\ newIds = {}
    /\ round' = round + 1
    /\ step' = IF round' = CleanupRounds THEN "done" ELSE "list"
    /\ UNCHANGED <<setting, standing, testOrder, seenIds, newIds, cancelledIds, warned,
                   spent, unseen>>

\* The next test of the session, while there are orders left to place.
NextTest ==
    /\ step \in {"done", "raised"} /\ \E o \in TestOrders : standing[o] = "none"
    /\ step' = "place" /\ round' = 0 /\ cancelledIds' = << >>
    /\ testOrder' = {} /\ seenIds' = {} /\ newIds' = {} /\ warned' = {} /\ unseen' = {}
    /\ spent' = 0
    /\ UNCHANGED <<setting, standing>>

-----------------------------------------------------------------------------
\* The broker: a submission is listed, an order ends.
OrderAppears(o) ==
    /\ standing[o] = "pending" /\ AtBroker(o, "open")
    /\ UNCHANGED <<setting, testVars>>

OrderEnds(o) ==
    /\ standing[o] \in {"pending", "open", "cancelling"} /\ AtBroker(o, "gone")
    /\ UNCHANGED <<setting, testVars>>

-----------------------------------------------------------------------------
\* Orders of an earlier session may still be open.
PaperInit ==
    /\ killSwitch \in {"off", "true", "on"}
    /\ account \in {"paper", "live"}
    /\ standing \in [TestOrders \cup OthersOrders -> {"none", "open"}]
    /\ \A o \in OthersOrders : standing[o] = "open"
    /\ step = "place" /\ testOrder = {} /\ round = 0
    /\ seenIds = {} /\ newIds = {} /\ cancelledIds = << >> /\ warned = {} /\ unseen = {}
    /\ spent = 0

PaperNext ==
    \/ \E o \in TestOrders :
            PlaceFar(o, "key") \/ PlaceStopFar(o, "key") \/ PlaceWithoutKey(o)
    \/ \E closed \in SUBSET TestOrders : FlattenPositions(closed)
    \/ PlaceRefused \/ StatusReached \/ WaitTimesOut
    \/ CancelTestOrder("key") \/ \E o \in testOrder : CancelWithoutKey(o)
    \/ LookForOrders \/ LookFails \/ CleanupRaises \/ NextRound \/ NextTest
    \/ \E o \in newIds : CleanupCancel(o, "key")
    \/ \E o \in DOMAIN standing : OrderAppears(o) \/ OrderEnds(o)

PaperSpec == PaperInit /\ [][PaperNext]_paperVars

-----------------------------------------------------------------------------
OrderStates == {"none", "pending", "open", "cancelling", "gone"}

PaperTypeOK ==
    /\ killSwitch \in {"off", "true", "on"} /\ account \in {"paper", "live"}
    /\ standing \in [TestOrders \cup OthersOrders -> OrderStates]
    /\ step \in {"place", "submitted", "cancel", "cancelled", "list", "clean", "done", "raised"}
    /\ testOrder \subseteq TestOrders /\ round \in 0..CleanupRounds
    /\ seenIds \subseteq TestOrders /\ newIds \subseteq TestOrders
    /\ cancelledIds \in Seq(TestOrders) /\ warned \subseteq TestOrders
    /\ unseen \subseteq TestOrders /\ spent \in 0..WorthInAll

\* A clean-up that returns leaves no order open that it neither cancelled, warned about nor
\* could have seen in its last look (actions.py:281 cancel_all_open_orders; each DELETE once).
NothingForgotten ==
    /\ step = "done" => \A o \in TestOrders :
            standing[o] = "open" => o \in warned \cup unseen
    /\ IsInjective(cancelledIds)

\* Orders of other accounts of the session are not touched (actions.py:307), and with the
\* switch set or a live account no order of a test is placed or cancelled (safety.py:54, 183).
OthersStayUntouched ==
    /\ \A o \in OthersOrders : standing[o] # "cancelling"
    /\ KillSwitchActive \/ ~IsPaperAccount =>
            \A o \in TestOrders : standing[o] \notin {"pending", "cancelling"}

\* The tests leave no order behind unnoticed, and act on nothing but the orders of a paper
\* account (tests_paper/L3_pic, tests_paper/_dsl).
TestsTidyUp == NothingForgotten /\ OthersStayUntouched
=============================================================================
