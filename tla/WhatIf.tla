------------------------------- MODULE WhatIf -------------------------------
(***************************************************************************)
(* The what-if preview of an order in the TWS profile, from the checks of  *)
(* the handler to the preview made of TWS's order state.  A read-only      *)
(* session (503), an account of somebody else or an unknown conid (400)    *)
(* end it before TWS is asked, and leave no trace.                         *)
(***************************************************************************)
EXTENDS Integers

CONSTANTS
    Amounts,      \* quantity times limit of the orders asked about
    Charges,      \* commissions that TWS names
    Unset         \* DBL_MAX, which ib_async keeps for a number TWS left out

\* No number at all: a missing attribute, nan or infinite.
NoNumber == -1

ASSUME WhatIfAssumption ==
    Amounts \subseteq Nat /\ Charges \subseteq Nat /\ Unset \in Nat \ Charges

VARIABLES
    preview,      \* the endpoint: idle, waiting for TWS, or its last answer
    orderState    \* history: the commissions in the order state of that answer

whatIfVars == <<preview, orderState>>

-----------------------------------------------------------------------------
PreviewCurrencies == {"EUR", "USD"}
NoMoney == [value |-> NoNumber, currency |-> ""]

\* The currency an order state or an account names, or none.
Named == PreviewCurrencies \cup {""}

\* What a numeric field of an order state holds.
Numbers == Charges \cup {Unset, NoNumber}

\* normalize_money.
MoneyOf(value, currency) ==
    IF value = NoNumber THEN NoMoney ELSE [value |-> value, currency |-> currency]

\* _first_finite: DBL_MAX is finite.
FirstFinite(first, second) == IF first = NoNumber THEN second ELSE first

Phase(phase) == [phase |-> phase]

\* estimated_total: amount and commission, unless they are in two currencies; without
\* a commission the amount alone.
TotalOf(amount, commission) ==
    IF commission = NoMoney THEN amount
    ELSE IF amount # NoMoney /\ amount.currency = commission.currency
         THEN [amount EXCEPT !.value = @ + commission.value]
         ELSE NoMoney

\* _order_state_to_whatif; margins are in the base currency of the account, none where
\* that is not known.
PreviewOf(amount, commission, base) ==
    [phase |-> "answered", amount |-> amount, commission |-> commission,
     total |-> TotalOf(amount, commission), margin |-> base]

-----------------------------------------------------------------------------
\* whatif_order waits for TWS: an error, no order state, or the timeout ends it
\* without a preview (502, 504) ...
WhatIfAsked ==
    /\ preview.phase # "waiting"
    /\ preview' = Phase("waiting")
    /\ UNCHANGED orderState

WhatIfFails ==
    /\ preview.phase = "waiting"
    /\ preview' = Phase("idle")
    /\ UNCHANGED orderState

\* ... an order state in time gives one: the commission is maxCommission, or else
\* commission, in the currency the order state names or else the contract's.
WhatIfAnswered(amount, currency, highest, charged, chargedIn, base) ==
    /\ preview.phase = "waiting"
    /\ preview' = PreviewOf(
            MoneyOf(amount, currency),
            MoneyOf(FirstFinite(highest, charged),
                    IF chargedIn = "" THEN currency ELSE chargedIn),
            base)
    /\ orderState' = [highest |-> highest, charged |-> charged]

-----------------------------------------------------------------------------
WhatIfInit ==
    /\ preview = Phase("idle")
    /\ orderState = [highest |-> NoNumber, charged |-> NoNumber]

WhatIfNext ==
    \/ WhatIfAsked
    \/ WhatIfFails
    \/ \E amount \in Amounts \cup {NoNumber}, c \in PreviewCurrencies,
          highest, charged \in Numbers, k, b \in Named :
            WhatIfAnswered(amount, c, highest, charged, k, b)

WhatIfSpec == WhatIfInit /\ [][WhatIfNext]_whatIfVars

WhatIfTypeOK ==
    /\ orderState \in [highest : Numbers, charged : Numbers]
    /\ \/ preview.phase \in {"idle", "waiting"}
       \/ /\ {preview.amount.currency, preview.commission.currency,
              preview.total.currency, preview.margin} \subseteq Named
          /\ preview.phase = "answered"

-----------------------------------------------------------------------------
=============================================================================
