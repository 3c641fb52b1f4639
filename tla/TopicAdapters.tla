--------------------------- MODULE TopicAdapters ---------------------------
(***************************************************************************)
(* From a frame of the CP WebSocket to a quote (cp/topics/smd.py), with    *)
(* the trading calendar (cp/calendar.py) that tells whether the instrument *)
(* trades now (cp/tradeability.py).  One conid.                            *)
(*                                                                         *)
(* IBKR sends all fields after a subscribe and afterwards the changed ones *)
(* only; each change has a stamp ("_updated"), a frame may come twice, and *)
(* a dropped socket loses what is on the wire.  A value may be undecodable *)
(* (Junk): the adapter then keeps the one it has.                          *)
(***************************************************************************)
EXTENDS Naturals, Sequences, FiniteSets

CONSTANTS Prices,    \* decodable values of the price fields
          Schedules, \* the days the exchange publishes: sequences of raw sessions
          Minutes,   \* bound: a day is 0..Minutes
          Horizon,   \* days one calendar answer covers
          WireMax,   \* bound: frames on the wire
          MaxStamp,  \* bound: changes of the market
          LastDay    \* bound: days

ASSUME TopicsAssumption ==
    /\ {Minutes, Horizon, WireMax, MaxStamp, LastDay} \subseteq Nat /\ MaxStamp > 0
    /\ Prices # {} /\ "junk" \notin Prices
    /\ \A raw \in Schedules :
          raw \in Seq([prop : {"LIQUID", "EXT"}, opens : 0..Minutes, closes : 0..Minutes])

VARIABLES market,   \* what IBKR would send now, and the stamp of its last change
          wire,     \* frames on the socket
          live,     \* the conid is subscribed on this socket
          snapshot, \* _snapshots, _last_updated
          known,    \* _conid_exchange and _exchange_calendars
          service,  \* CalendarService's cache: days it covers and whether it expired
          today,    \* the date at the exchange
          shown     \* the last SmdFrame, and the market its stamp belongs to

topicVars == <<market, wire, live, snapshot, known, service, today, shown>>

Junk == "junk"
Nil == "nil"
PriceFields == {"last", "bid"}
Fields == PriceFields \cup {"availability_code"}
AvailabilityCodes == {"R", "H", "S"}       \* realtime, halted, a code nobody knows
Readings(f) == IF f = "availability_code" THEN AvailabilityCodes ELSE Prices
Quotes == [last : Prices, bid : Prices, availability_code : AvailabilityCodes]

Frame(stamp, delta, truth) == [stamp |-> stamp, delta |-> delta, truth |-> truth]

----------------------------------------------------------------------------
(* The calendar.                                                           *)

\* _collect_sessions, by rank: the first LIQUID session is rth, comes first, and is the
\* only one; the others are pre or post by where they lie.
RthOf(raw) ==
    LET liquid == {i \in DOMAIN raw : raw[i].prop = "LIQUID"}
    IN  IF liquid = {} THEN <<>>
        ELSE LET i == CHOOSE i \in liquid : \A j \in liquid : i <= j
             IN  <<[type |-> "rth", opens |-> raw[i].opens, closes |-> raw[i].closes]>>

TypeBeside(rth, s) ==
    IF rth # <<>> /\ s.opens >= rth[1].closes THEN "post" ELSE "pre"

CollectSessions(raw) ==
    LET rth == RthOf(raw)
        others == {i \in DOMAIN raw : raw[i].prop # "LIQUID"}
    IN  [i \in (IF rth = <<>> THEN {} ELSE {0}) \cup others |->
            IF i = 0 THEN rth[1]
            ELSE [type |-> TypeBeside(rth, raw[i]),
                  opens |-> raw[i].opens, closes |-> raw[i].closes]]

\* The first session, in that order, that is open at this minute (ends included).
ActiveSession(sessions, now) ==
    LET open == {i \in DOMAIN sessions :
                    sessions[i].opens <= now /\ now <= sessions[i].closes}
    IN  IF open = {} THEN "closed"
        ELSE sessions[CHOOSE i \in open : \A j \in open : i <= j].type

\* derive_tradeability
DeriveTradeability(days, raw, day, now, code) ==
    LET session == IF day \in days THEN ActiveSession(CollectSessions(raw), now)
                   ELSE "closed"
    IN  CASE code = "H" -> <<FALSE, "halted">>
          [] code = "R" /\ session # "closed" -> <<TRUE, session>>
          [] OTHER -> <<FALSE, "closed">>

----------------------------------------------------------------------------
(* IBKR and the socket.                                                    *)

\* smd+<conid>: all fields, as they are.
SubscribeTopic ==
    /\ ~live /\ Len(wire) < WireMax
    /\ live' = TRUE
    /\ wire' = Append(wire, Frame(market.stamp, market.quote, market.quote))
    /\ UNCHANGED <<market, snapshot, known, service, today, shown>>

\* Some fields change; a change of a price may come in a form nobody decodes.
MarketMoves == \E changed \in SUBSET Fields \ {{}}, q \in Quotes, junk \in BOOLEAN :
    /\ market.stamp < MaxStamp
    /\ \A f \in Fields : f \in changed <=> q[f] # market.quote[f]
    /\ junk => "last" \in changed
    /\ LET truth == IF junk THEN [q EXCEPT !.last = market.quote.last] ELSE q
           sent == [f \in changed |-> IF junk /\ f = "last" THEN Junk ELSE q[f]] IN
       /\ market' = [quote |-> truth, stamp |-> market.stamp + 1]
       /\ IF live
          THEN /\ Len(wire) < WireMax
               /\ wire' = Append(wire, Frame(market.stamp + 1, sent, truth))
          ELSE UNCHANGED wire
    /\ UNCHANGED <<live, snapshot, known, service, today, shown>>

\* The "tic" multiplier: the newest frame is sent once more.
SentTwice ==
    /\ wire # <<>> /\ Len(wire) < WireMax
    /\ wire' = Append(wire, wire[Len(wire)])
    /\ UNCHANGED <<market, live, snapshot, known, service, today, shown>>

SocketDrops ==
    /\ live
    /\ live' = FALSE
    /\ wire' = <<>>
    /\ UNCHANGED <<market, snapshot, known, service, today, shown>>

----------------------------------------------------------------------------
(* The adapter.                                                            *)

IsDuplicateFrame(frame) == frame.stamp = snapshot.stamp

\* A plausible bug: a frame replaces the snapshot.
MergedAnew(old, delta) ==
    [f \in Fields |-> IF f \in DOMAIN delta /\ delta[f] # Junk THEN delta[f] ELSE Nil]

\* _decode_fields and the update of the snapshot.
Merged(old, delta) ==
    [f \in Fields |-> IF f \in DOMAIN delta /\ delta[f] # Junk THEN delta[f] ELSE old[f]]

\* feed: a duplicate is dropped, otherwise the whole snapshot goes out.
Feed == \E now \in 0..Minutes :
    /\ wire # <<>>
    /\ wire' = Tail(wire)
    /\ IF IsDuplicateFrame(Head(wire))
       THEN UNCHANGED <<snapshot, shown>>
       ELSE LET quote == Merged(snapshot.quote, Head(wire).delta)
                trades == IF known.calendar = {} THEN <<FALSE, Nil>>
                          ELSE DeriveTradeability(known.calendar, known.raw, today, now,
                                                  quote["availability_code"]) IN
            /\ snapshot' = [quote |-> quote, stamp |-> Head(wire).stamp]
            /\ shown' = [quote |-> quote, truth |-> Head(wire).truth, now |-> now,
                         tradeable |-> trades[1], session |-> trades[2],
                         fresh |-> today \in known.calendar]
    /\ UNCHANGED <<market, live, known, service, today>>

\* preload_for_conid, up to its await: once per conid, whatever comes of it.
PreloadExchange == \E answered \in BOOLEAN :
    /\ known.exchange = Nil
    /\ known' = [known EXCEPT !.exchange = IF answered THEN "asked" ELSE "unknown"]
    /\ UNCHANGED <<market, wire, live, snapshot, service, today, shown>>

\* CalendarService.get: a cached calendar that has not expired, or a new one.
CalendarFrom == IF service # {} THEN service ELSE today .. (today + Horizon - 1)

\* preload_for_conid, the calendar: kept for as long as the process runs.
PreloadCalendar ==
    /\ known.exchange = "asked"
    /\ known' = [known EXCEPT !.exchange = "known", !.calendar = CalendarFrom]
    /\ service' = CalendarFrom
    /\ UNCHANGED <<market, wire, live, snapshot, today, shown>>

\* CalendarService.get raises: the exchange is known, its calendar never will be.
PreloadCalendarFails ==
    /\ known.exchange = "asked" /\ service = {}
    /\ known' = [known EXCEPT !.exchange = "known"]
    /\ UNCHANGED <<market, wire, live, snapshot, service, today, shown>>

\* GET /v1/exchanges/{id}/calendar fills the service's cache too.
CalendarRead ==
    /\ service = {}
    /\ service' = CalendarFrom
    /\ UNCHANGED <<market, wire, live, snapshot, known, today, shown>>

\* CalendarService._is_expired
CalendarExpires ==
    /\ service # {}
    /\ service' = {}
    /\ UNCHANGED <<market, wire, live, snapshot, known, today, shown>>

NextDay ==
    /\ today < LastDay
    /\ today' = today + 1
    /\ UNCHANGED <<market, wire, live, snapshot, known, service, shown>>

----------------------------------------------------------------------------
TopicsInit ==
    /\ market = [quote |-> CHOOSE q \in Quotes : q["availability_code"] = "R", stamp |-> 1]
    /\ wire = <<>> /\ live = FALSE
    /\ snapshot = [quote |-> [f \in Fields |-> Nil], stamp |-> 0]
    /\ \E raw \in Schedules : known = [exchange |-> Nil, calendar |-> {}, raw |-> raw]
    /\ service = {} /\ today = 0
    /\ shown = [quote |-> [f \in Fields |-> Nil], truth |-> [f \in Fields |-> Nil],
                now |-> 0, tradeable |-> FALSE, session |-> Nil,
                fresh |-> FALSE]

TopicsNext ==
    \/ SubscribeTopic \/ MarketMoves \/ SentTwice \/ SocketDrops
    \/ Feed
    \/ PreloadExchange \/ PreloadCalendar \/ PreloadCalendarFails
    \/ CalendarRead \/ CalendarExpires \/ NextDay

TopicsSpec == TopicsInit /\ [][TopicsNext]_topicVars

TopicsTypeOK ==
    /\ market.quote \in Quotes /\ market.stamp \in 1..MaxStamp
    /\ Len(wire) <= WireMax
    /\ live \in BOOLEAN
    /\ \A f \in Fields : snapshot.quote[f] \in Readings(f) \cup {Nil}
    /\ known.exchange \in {Nil, "unknown", "asked", "known"}
    /\ known.raw \in Schedules
    /\ service \subseteq 0..(LastDay + Horizon)
    /\ today \in 0..LastDay
    /\ shown.session \in {Nil, "rth", "pre", "post", "closed", "halted"}

\* What a consumer is shown is the market of that stamp, in every field, whatever was
\* sent twice, lost with a socket or undecodable on the way; an instrument is only
\* called tradeable inside a published session and never while it is halted; and with
\* a calendar for today the first liquid session of the day is called rth to the
\* minute, both ends included (smd.py:176, calendar.py:277, tradeability.py:29).
FramesTellTheMarket ==
    /\ shown.quote = shown.truth
    /\ shown.tradeable =>
          /\ shown.quote["availability_code"] = "R"
          /\ \E i \in DOMAIN known.raw :
                known.raw[i].opens <= shown.now /\ shown.now <= known.raw[i].closes
    /\ LET rth == RthOf(known.raw) IN
       (/\ shown.fresh /\ rth # <<>> /\ shown.quote["availability_code"] = "R"
        /\ rth[1].opens <= shown.now /\ shown.now <= rth[1].closes)
          => shown.tradeable /\ shown.session = "rth"
============================================================================
