----------------------------- MODULE TWSReads -----------------------------
(***************************************************************************)
(* The reads of the TWS profile that keep state: the symbol search with    *)
(* its cache, lock and one-per-second spacing, the lookups by ISIN and by  *)
(* conid with a cache each and no lock (tws/instruments.py), and the       *)
(* portfolio with its subscribe-once-per-account (tws/portfolio.py).       *)
(*                                                                         *)
(* IBKR is external: it answers a search with the symbol's listing, with   *)
(* nothing, or not at all (ib_async then gives up and returns None, which  *)
(* the code cannot tell from nothing); it confirms an account subscription *)
(* or keeps silent.                                                        *)
(***************************************************************************)
EXTENDS Naturals, Sequences

CONSTANTS Askers,  \* HTTP reads under way
          Accounts, \* account ids of portfolio reads
          MaxAsks   \* bound: account subscriptions sent

ASSUME TWSReadsAssumption == MaxAsks \in Nat \ {0} /\ Accounts # {}

VARIABLES doing,       \* per caller: what it is at
          found,       \* the cached search result: none, empty or listing
          searchLine,  \* FIFO of the search lock; its head holds it
          rested,      \* the rate limit since the last search is over
          wants,       \* per caller: the account of its portfolio read
          accountLine, \* FIFO of the subscribe lock; its head holds it
          subscribed,  \* _subscribed_accounts
          streaming,   \* accounts IBKR sends updates of in this session
          asked,       \* history: per account, subscriptions that did not fail
          searches,    \* history: searches at IBKR now
          details      \* the cached results of the two lookups

readVars == <<doing, found, searchLine, rested, wants, accountLine, subscribed,
              streaming, asked, searches, details>>

searchVars == <<found, searchLine, rested, searches, details>>
accountVars == <<wants, accountLine, subscribed, streaming, asked>>

Lookups == {"isin", "info"}

Stages == {"idle", "search_queued", "searching", "subscribe_queued", "subscribing",
           "reading", "done"} \cup Lookups

Go(c, stage) == doing' = [doing EXCEPT ![c] = stage]

----------------------------------------------------------------------------
\* search: a hit is answered at once (an empty list is a hit too).
Search(c) ==
    /\ doing[c] = "idle"
    /\ IF found # "none"
       THEN Go(c, "done") /\ UNCHANGED searchLine
       ELSE Go(c, "search_queued") /\ searchLine' = Append(searchLine, c)
    /\ UNCHANGED <<found, rested, searches, details, accountVars>>

\* _matching_symbols: in the lock, after the wait for the rate limit.  The cache is
\* not looked at again.
AskIBKR(c) ==
    /\ doing[c] = "search_queued" /\ Head(searchLine) = c /\ rested
    /\ Go(c, "searching")
    /\ searches' = searches + 1
    /\ UNCHANGED <<found, searchLine, rested, details, accountVars>>

\* The finally of _matching_symbols: the clock of the rate limit starts again.
LeaveSearch(c) ==
    /\ doing[c] = "searching"
    /\ Go(c, "done")
    /\ searchLine' = Tail(searchLine)
    /\ rested' = FALSE
    /\ searches' = searches - 1
    /\ UNCHANGED <<details, accountVars>>

\* The answer (or the None of a search ib_async gave up) becomes the cache entry.
SearchAnswered(c) == \E result \in {"listing", "empty"} :
    LeaveSearch(c) /\ found' = result

\* The await raises: nothing is cached.
SearchFails(c) == LeaveSearch(c) /\ UNCHANGED found

RateLimitPasses ==
    /\ ~rested
    /\ rested' = TRUE
    /\ UNCHANGED <<doing, found, searchLine, searches, details, accountVars>>

\* TTLCache: the entry expires.
EntryExpires ==
    /\ found # "none"
    /\ found' = "none"
    /\ UNCHANGED <<doing, searchLine, rested, searches, details, accountVars>>

----------------------------------------------------------------------------
\* search_by_isin and info: a hit is answered at once, a miss asks for the contract
\* details beside any other that does.
LookUp(c, what) ==
    /\ doing[c] = "idle"
    /\ Go(c, IF details[what] # "none" THEN "done" ELSE what)
    /\ UNCHANGED <<searchVars, accountVars>>

\* What becomes of an answer: an ISIN without listings is remembered as that, a conid
\* nobody knows (404) is not.
Remembered(what, result) ==
    IF what = "info" /\ result = "empty" THEN details[what] ELSE result

LookedUp(c, what) == \E result \in {"listing", "empty"} :
    /\ doing[c] = what
    /\ Go(c, "done")
    /\ details' = [details EXCEPT ![what] = Remembered(what, result)]
    /\ UNCHANGED <<found, searchLine, rested, searches, accountVars>>

\* The await raises: nothing is cached.
LookUpFails(c) ==
    /\ doing[c] \in Lookups
    /\ Go(c, "done")
    /\ UNCHANGED <<searchVars, accountVars>>

DetailsExpire(what) ==
    /\ details[what] # "none"
    /\ details' = [details EXCEPT ![what] = "none"]
    /\ UNCHANGED <<doing, found, searchLine, rested, searches, accountVars>>

----------------------------------------------------------------------------
\* _ensure_subscribed, first check
ReadPortfolio(c) == \E a \in Accounts :
    /\ doing[c] = "idle"
    /\ wants' = [wants EXCEPT ![c] = a]
    /\ IF a \in subscribed
       THEN Go(c, "reading") /\ UNCHANGED accountLine
       ELSE Go(c, "subscribe_queued") /\ accountLine' = Append(accountLine, c)
    /\ UNCHANGED <<subscribed, streaming, asked, searchVars>>

\* A plausible bug: no second check.
NobodySubscribed(c) == FALSE

\* The second check, in the lock.
AnotherSubscribed(c) == wants[c] \in subscribed

HasSubscribeLock(c) == doing[c] = "subscribe_queued" /\ Head(accountLine) = c

AlreadySubscribed(c) ==
    /\ HasSubscribeLock(c) /\ AnotherSubscribed(c)
    /\ Go(c, "reading")
    /\ accountLine' = Tail(accountLine)
    /\ UNCHANGED <<wants, subscribed, streaming, asked, searchVars>>

\* reqAccountUpdatesAsync
SubscribeAccount(c) ==
    /\ HasSubscribeLock(c) /\ ~AnotherSubscribed(c)
    /\ asked[wants[c]] < MaxAsks
    /\ Go(c, "subscribing")
    /\ asked' = [asked EXCEPT ![wants[c]] = @ + 1]
    /\ UNCHANGED <<wants, accountLine, subscribed, streaming, searchVars>>

\* Confirmed, or silent until the timeout: the account counts as known either way.
SubscribeEnds(c) == \E sends \in BOOLEAN :
    /\ doing[c] = "subscribing"
    /\ Go(c, "reading")
    /\ accountLine' = Tail(accountLine)
    /\ subscribed' = subscribed \cup {wants[c]}
    /\ streaming' = IF sends THEN streaming \cup {wants[c]} ELSE streaming
    /\ UNCHANGED <<wants, asked, searchVars>>

\* Any other exception leaves the lock and the request; the account stays unknown.
SubscribeFails(c) ==
    /\ doing[c] = "subscribing"
    /\ Go(c, "done")
    /\ accountLine' = Tail(accountLine)
    /\ asked' = [asked EXCEPT ![wants[c]] = @ - 1]
    /\ UNCHANGED <<wants, subscribed, streaming, searchVars>>

\* _fetch_portfolio_items, _fetch_account_values: a look into ib_async's cache.
ReadItems(c) ==
    /\ doing[c] = "reading"
    /\ Go(c, "done")
    /\ UNCHANGED <<searchVars, accountVars>>

Finished(c) ==
    /\ doing[c] = "done"
    /\ Go(c, "idle")
    /\ UNCHANGED <<searchVars, accountVars>>

\* The session is lost and taken up again (tws/lifecycle.py): IBKR forgets the
\* subscriptions, _subscribed_accounts does not.
SessionRenewed ==
    /\ streaming # {}
    /\ streaming' = {}
    /\ UNCHANGED <<doing, wants, accountLine, subscribed, asked, searchVars>>

----------------------------------------------------------------------------
ReadsInit ==
    /\ doing = [c \in Askers |-> "idle"]
    /\ found = "none" /\ searchLine = <<>> /\ rested = TRUE /\ searches = 0
    /\ details = [what \in Lookups |-> "none"]
    /\ wants = [c \in Askers |-> CHOOSE a \in Accounts : TRUE]
    /\ accountLine = <<>>
    /\ subscribed = {} /\ streaming = {}
    /\ asked = [a \in Accounts |-> 0]

ReadsNext ==
    \/ \E c \in Askers :
          \/ Search(c) \/ AskIBKR(c) \/ SearchAnswered(c) \/ SearchFails(c)
          \/ ReadPortfolio(c) \/ AlreadySubscribed(c) \/ SubscribeAccount(c)
          \/ SubscribeEnds(c) \/ SubscribeFails(c) \/ ReadItems(c) \/ Finished(c)
          \/ LookUpFails(c)
          \/ \E what \in Lookups : LookUp(c, what) \/ LookedUp(c, what)
    \/ RateLimitPasses \/ EntryExpires \/ SessionRenewed
    \/ \E what \in Lookups : DetailsExpire(what)

ReadsSpec == ReadsInit /\ [][ReadsNext]_readVars

ReadsTypeOK ==
    /\ doing \in [Askers -> Stages]
    /\ found \in {"none", "empty", "listing"}
    /\ searchLine \in Seq(Askers) /\ accountLine \in Seq(Askers)
    /\ rested \in BOOLEAN /\ searches \in Nat
    /\ details \in [Lookups -> {"none", "empty", "listing"}]
    /\ wants \in [Askers -> Accounts]
    /\ subscribed \subseteq Accounts /\ streaming \subseteq subscribed
    /\ asked \in [Accounts -> 0..MaxAsks]

\* However many readers miss together, IBKR sees one search at a time and, in the
\* life of the process, one account subscription per account that did not fail
\* (tws/instruments.py:306, tws/portfolio.py:171: double-checked locking); and a conid
\* that was unknown once is asked for again (instruments.py:251).
AsksAreNotRepeated ==
    /\ searches <= 1
    /\ details["info"] # "empty"
    /\ \A a \in Accounts : asked[a] <= 1
============================================================================
