---------------------------- MODULE ReadCaches ----------------------------
(***************************************************************************)
(* The cached reads of the CP profile (cache.py, cp/portfolio.py,          *)
(* cp/instruments.py): positions, ledger and summary of one account, each  *)
(* in a TTL cache of its own, and the order handlers that throw the        *)
(* account out of all three (api/v1/orders.py).                            *)
(*                                                                         *)
(* A read that misses awaits the gateway and stores what it got when it    *)
(* goes on: between the two an order may be placed and its handler may     *)
(* already have invalidated.  What the gateway says is abstracted to the   *)
(* version of the account it was read at.  The instrument caches follow    *)
(* the same read-through path and nobody invalidates them; reads of the    *)
(* "ledger" stand for theirs as well.                                      *)
(***************************************************************************)
EXTENDS Naturals

CONSTANTS Readers,    \* HTTP reads under way
          Pages,      \* pages of positions the gateway holds
          Ttl,        \* BG_PORTFOLIO_TTL_S
          MaxVersion  \* bound: changes of the account

ASSUME ReadCachesAssumption ==
    {Pages, Ttl, MaxVersion} \subseteq Nat \ {0}

VARIABLES version,  \* the account at the broker
          cache,    \* per book: what is stored and how long it still counts
          reading,  \* per reader: its book, how far it is and what it holds
          ordering, \* an order handler awaits the gateway's answer
          due       \* history: the version every new read has to show

cacheVars == <<version, cache, reading, ordering, due>>

Books == {"positions", "ledger", "summary"}
Absent == [value |-> <<0, 0>>, left |-> 0]

\* A reader: what it was asked for, the book it is asking the gateway for, the
\* versions it holds (its own book's and the positions'), the page it is on.
Reader == [book : Books, asks : Books, holds : (0..MaxVersion) \X (0..MaxVersion),
           page : 0..Pages, owes : 0..MaxVersion,
           stage : {"idle", "asking", "answered", "replied", "failed"}]

Idle == [book |-> "ledger", asks |-> "ledger", holds |-> <<0, 0>>, page |-> 0,
         owes |-> 0, stage |-> "idle"]

\* TTLCache.get: an entry past its time is no hit.
Hit(b) == cache[b].left > 0

\* TTLCache.set
Stored(b, v) == [cache EXCEPT ![b] = [value |-> v, left |-> Ttl]]

\* A plausible bug: the positions cache is forgotten.
InvalidatedButOne(c) == [b \in Books |-> IF b = "positions" THEN c[b] ELSE Absent]

\* TTLCache.invalidate, for the three caches of the account.
Invalidated(c) == [b \in Books |-> Absent]

Keep(r, x) == reading' = [reading EXCEPT ![r] = x]

----------------------------------------------------------------------------
\* positions, ledger, summary: the cached value, or the gateway is asked.
StartRead(r) == \E b \in Books :
    /\ reading[r].stage = "idle"
    /\ Keep(r, [Idle EXCEPT !.book = b, !.asks = b, !.owes = due,
                            !.stage = IF Hit(b) THEN "replied" ELSE "asking",
                            !.holds = IF Hit(b) THEN cache[b].value ELSE <<0, 0>>])
    /\ UNCHANGED <<version, cache, ordering, due>>

\* The gateway answers with the account as it is now; the answer is on its way.
\* Of several pages of positions the first one dates the list.
GatewayAnswers(r) ==
    /\ reading[r].stage = "asking"
    /\ Keep(r, [reading[r] EXCEPT
           !.stage = "answered",
           !.page = IF reading[r].asks = "positions" THEN @ + 1 ELSE @,
           !.holds = CASE reading[r].asks = "positions" /\ reading[r].page > 0 -> @
                       [] reading[r].book = "summary" /\ reading[r].asks = "positions"
                            -> <<@[1], version>>
                       [] OTHER -> <<version, version>>])
    /\ UNCHANGED <<version, cache, ordering, due>>

\* positions: a full page, the next one is asked for.
NextPage(r) ==
    /\ reading[r].stage = "answered" /\ reading[r].asks = "positions"
    /\ reading[r].page < Pages
    /\ Keep(r, [reading[r] EXCEPT !.stage = "asking"])
    /\ UNCHANGED <<version, cache, ordering, due>>

\* positions and ledger: the answer is stored and returned.  A summary that asked
\* for the positions stores them and then itself.
StoreBook(r) ==
    /\ reading[r].stage = "answered"
    /\ reading[r].asks # "summary"
    /\ reading[r].asks = "positions" => reading[r].page = Pages
    /\ LET v == reading[r].holds
           mine == IF reading[r].asks = "positions" THEN <<v[2], v[2]>> ELSE v IN
       cache' = IF reading[r].book = "summary"
                THEN [Stored("positions", mine) EXCEPT
                         !["summary"] = [value |-> v, left |-> Ttl]]
                ELSE Stored(reading[r].asks, mine)
    /\ Keep(r, [reading[r] EXCEPT !.stage = "replied"])
    /\ UNCHANGED <<version, ordering, due>>

\* summary: its own answer is there; the position count comes from the positions,
\* cached ones if there are any.
CountPositions(r) ==
    /\ reading[r].stage = "answered" /\ reading[r].asks = "summary"
    /\ IF Hit("positions")
       THEN LET v == <<reading[r].holds[1], cache["positions"].value[1]>> IN
            /\ cache' = Stored("summary", v)
            /\ Keep(r, [reading[r] EXCEPT !.stage = "replied", !.holds = v])
       ELSE /\ Keep(r, [reading[r] EXCEPT !.asks = "positions", !.stage = "asking"])
            /\ UNCHANGED cache
    /\ UNCHANGED <<version, ordering, due>>

\* Not 200, or not the expected JSON: 502, nothing is stored.
GatewayFails(r) ==
    /\ reading[r].stage = "asking"
    /\ Keep(r, [reading[r] EXCEPT !.stage = "failed", !.holds = <<0, 0>>])
    /\ UNCHANGED <<version, cache, ordering, due>>

\* The reply went out; the reader may ask again.
Leave(r) ==
    /\ reading[r].stage \in {"replied", "failed"}
    /\ Keep(r, Idle)
    /\ UNCHANGED <<version, cache, ordering, due>>

----------------------------------------------------------------------------
\* The broker takes the order (or cancels, or changes it): the account changes.
OrderReachesBroker ==
    /\ ~ordering /\ version < MaxVersion
    /\ version' = version + 1
    /\ ordering' = TRUE
    /\ UNCHANGED <<cache, reading, due>>

\* place_order, cancel_order, modify_order after the await.  From here on a read
\* has to show the order -- unless one was on its way while this happened.
OrderHandlerEnds ==
    /\ ordering
    /\ ordering' = FALSE
    /\ cache' = Invalidated(cache)
    /\ due' = IF \A r \in Readers : reading[r].stage \notin {"asking", "answered"}
              THEN version ELSE due
    /\ UNCHANGED <<version, reading>>

\* The reply of the gateway is an error: the handler leaves before it invalidates.
OrderHandlerFails ==
    /\ ordering
    /\ ordering' = FALSE
    /\ UNCHANGED <<version, cache, reading, due>>

\* An order placed earlier is filled: nobody invalidates.
Fill ==
    /\ version < MaxVersion
    /\ version' = version + 1
    /\ UNCHANGED <<cache, reading, ordering, due>>

ClockTick ==
    /\ \E b \in Books : Hit(b)
    /\ cache' = [b \in Books |-> IF cache[b].left > 1
                                THEN [cache[b] EXCEPT !.left = @ - 1] ELSE Absent]
    /\ UNCHANGED <<version, reading, ordering, due>>

----------------------------------------------------------------------------
CachesInit ==
    /\ version = 0 /\ due = 0
    /\ cache = Invalidated([b \in Books |-> Absent])
    /\ reading = [r \in Readers |-> Idle]
    /\ ordering = FALSE

CachesNext ==
    \/ \E r \in Readers :
          \/ StartRead(r) \/ GatewayAnswers(r) \/ NextPage(r) \/ StoreBook(r)
          \/ CountPositions(r) \/ GatewayFails(r) \/ Leave(r)
    \/ OrderReachesBroker \/ OrderHandlerEnds \/ OrderHandlerFails \/ Fill \/ ClockTick

CachesSpec == CachesInit /\ [][CachesNext]_cacheVars

CachesTypeOK ==
    /\ {version, due} \subseteq 0..MaxVersion
    /\ cache \in [Books -> [value : (0..MaxVersion) \X (0..MaxVersion),
                            left : 0..Ttl]]
    /\ reading \in [Readers -> Reader]
    /\ ordering \in BOOLEAN

\* Once an order handler has answered while no read of the account was under way,
\* every later read shows the order: positions, ledger, summary, and also the
\* position count the summary takes from another cache (cp/portfolio.py:82,178;
\* docs/api/v1.md:876 claims it of every read).
OrderShowsInPortfolio ==
    \A r \in Readers : reading[r].stage = "replied" =>
        /\ reading[r].holds[1] >= reading[r].owes
        /\ reading[r].holds[2] >= reading[r].owes
============================================================================
