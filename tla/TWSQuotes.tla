------------------------------ MODULE TWSQuotes ------------------------------
(***************************************************************************)
(* TWSQuotesService: the quote streams over one ib_async session.  Stream  *)
(* consumers share one market-data line per conid, with a ring for replay  *)
(* and a bounded queue each.  _stream_lock is held across the awaits of    *)
(* qualifyContractsAsync.  The session drops and comes back under it.      *)
(***************************************************************************)
EXTENDS Integers, Sequences, FiniteSets

CONSTANTS
    Watchers,        \* consumers, one per stream request
    Wishes,          \* lists of conids that are asked for
    Tickers,         \* states of an ib_async Ticker
    RingSize,        \* _REPLAY_BUFFER_SIZE (200)
    QuoteQueueMax,   \* _CONSUMER_QUEUE_MAX (1024)
    MaxQuotes,       \* bound: quotes published per subscription object
    VolumeScale, VolumeMax   \* _VOLUME_RAW_SCALE, _VOLUME_RAW_MAX

ASSUME QuotesAssumption ==
    /\ RingSize \in Nat \ {0} /\ QuoteQueueMax \in Nat \ {0} /\ MaxQuotes \in Nat
    /\ VolumeScale \in Nat \ {0} /\ VolumeMax \in Nat
    /\ \A w \in Wishes : w \in Seq({w[i] : i \in DOMAIN w})

VARIABLES
    subs,        \* _stream_subs with what each object keeps, or NoSub
    lines,       \* conids whose market data TWS sends
    session,     \* ib.isConnected(): still the first session, none, or a later one
    closedDown,  \* shutdown() has run
    place,       \* where a watcher's request is
    todo,        \* conids its subscribe has not dealt with
    attached,    \* conids its iterator is attached to
    since,       \* history: the next event id when it was attached
    queue,       \* its queue; Sentinel ends the stream
    last         \* history: the id it was sent last, per conid

quoteVars == <<subs, lines, session, closedDown, place, todo, attached, since,
               queue, last>>
watcherVars == <<place, todo, attached, since, queue, last>>

Conids   == UNION {{w[i] : i \in DOMAIN w} : w \in Wishes}
NoSub    == [consumers |-> {}, ring |-> <<>>, next |-> -1]
Sentinel == [conid |-> 0, id |-> -1, quote |-> 0]
Nothing  == -1
NaN      == -1

Sessions  == {"first", "down", "later"}
SessionUp == session # "down"

Registered == {c \in Conids : subs[c] # NoSub}
Places == {"new", "waiting", "qualifying", "returned", "replaying", "live",
           "leaving", "gone"}

-----------------------------------------------------------------------------
\* _volume_from_ticker: shares, unless the value is absent or out of range.
VolumeFromTicker(v) == IF v < 0 \/ v > VolumeMax THEN Nothing ELSE v \div VolumeScale

\* _change_pct_from_ticker, in hundredths of a percent.
ChangeFromTicker(t) ==
    IF t.last = NaN \/ t.close = NaN \/ t.close = 0 THEN Nothing
    ELSE ((t.last - t.close) * 10000) \div t.close

\* _quote_from_ticker
QuoteFromTicker(t) == [last   |-> IF t.last = NaN THEN Nothing ELSE t.last,
                       volume |-> VolumeFromTicker(t.volume),
                       change |-> ChangeFromTicker(t)]

Event(c, n, t) == [conid |-> c, id |-> n, quote |-> QuoteFromTicker(t)]

\* The newest n elements of s.
Newest(s, n) == SubSeq(s, IF Len(s) > n THEN Len(s) - n + 1 ELSE 1, Len(s))

\* Faulty variant: a full queue refuses the new event.
QueuedDroppingNewest(q, e) == IF Len(q) < QuoteQueueMax THEN Append(q, e) ELSE q

\* put_nowait, dropping the oldest event of a full queue.
Queued(q, e) == Newest(Append(q, e), QuoteQueueMax)

\* push_event for every consumer of the object.
Pushed(c, e) ==
    /\ subs' = [subs EXCEPT ![c].next = @ + 1, ![c].ring = Newest(Append(@, e), RingSize)]
    /\ queue' = [w \in Watchers |-> IF w \in subs[c].consumers
                                    THEN Queued(queue[w], e) ELSE queue[w]]

-----------------------------------------------------------------------------
\* _stream_lock is held by a subscribe that qualifies a contract.
LockFree == \A w \in Watchers : place[w] # "qualifying"

\* subscribe: reqMarketDataType raises without a session.
Subscribe(w) ==
    /\ place[w] = "new" /\ ~closedDown
    /\ IF SessionUp
       THEN \E wish \in Wishes : /\ todo' = [todo EXCEPT ![w] = wish]
                                 /\ place' = [place EXCEPT ![w] = "waiting"]
       ELSE place' = [place EXCEPT ![w] = "gone"] /\ UNCHANGED todo
    /\ UNCHANGED <<subs, lines, session, closedDown, attached, since, queue, last>>

\* Attach w, to the objects of "known", along the conids of "rest" up to the first one
\* without an object: its contract is qualified next, the lock being held.
Proceed(w, known, rest) ==
    LET n == CHOOSE k \in 0..Len(rest) :
                /\ \A i \in 1..k : known[rest[i]] # NoSub
                /\ k = Len(rest) \/ known[rest[k + 1]] = NoSub
        joined == {rest[i] : i \in 1..n}
        all    == attached[w] \o SubSeq(rest, 1, n)
    IN /\ subs' = [c \in Conids |->
                      IF c \in joined
                      THEN [known[c] EXCEPT !.consumers = @ \cup {w}] ELSE known[c]]
       /\ since' = [since EXCEPT ![w] = [c \in Conids |->
                      IF c \in joined THEN known[c].next ELSE @[c]]]
       /\ attached' = [attached EXCEPT ![w] = all]
       /\ IF n < Len(rest)
          THEN /\ todo' = [todo EXCEPT ![w] = SubSeq(rest, n + 1, Len(rest))]
               /\ place' = [place EXCEPT ![w] = "qualifying"]
          ELSE /\ todo' = [todo EXCEPT ![w] = all]
               /\ place' = [place EXCEPT ![w] = IF all = <<>> THEN "live" ELSE "returned"]

\* The lock is granted.
EnterSubscribe(w) ==
    /\ place[w] = "waiting" /\ LockFree
    /\ Proceed(w, subs, todo[w])
    /\ UNCHANGED <<lines, session, closedDown, queue, last>>

\* The contract is known: reqMktData, a new object, attach.
Qualified(w) ==
    /\ place[w] = "qualifying" /\ SessionUp
    /\ lines' = lines \cup {Head(todo[w])}
    /\ Proceed(w, [subs EXCEPT ![Head(todo[w])] = [NoSub EXCEPT !.next = 0]], todo[w])
    /\ UNCHANGED <<session, closedDown, queue, last>>

\* It is unknown, or the call failed: the conid is skipped.
NotQualified(w) ==
    /\ place[w] = "qualifying"
    /\ Proceed(w, subs, Tail(todo[w]))
    /\ UNCHANGED <<lines, session, closedDown, queue, last>>

\* The id that is last when the events newer than "from" are sent, or the one before.
LastSent(ring, from, before) ==
    LET sent == {i \in DOMAIN ring : ring[i].id > from}
    IN IF sent = {} THEN before ELSE ring[CHOOSE i \in sent : \A j \in sent : j <= i].id

\* The response iterates: the ring of the next object as it is now, as far as it is
\* newer than Last-Event-ID, which is one number for all conids.
Replay(w) ==
    /\ place[w] \in {"returned", "replaying"}
    /\ LET c == Head(todo[w])
       IN \E lastEventId \in {Nothing, 0} :
            last' = [last EXCEPT ![w][c] = LastSent(subs[c].ring, lastEventId, @)]
    /\ todo' = [todo EXCEPT ![w] = Tail(@)]
    /\ place' = [place EXCEPT ![w] = IF Len(todo[w]) = 1 THEN "live" ELSE "replaying"]
    /\ UNCHANGED <<subs, lines, session, closedDown, attached, since, queue>>

\* The client goes before the response iterates: finally is never reached.
AbandonStream(w) ==
    /\ place[w] = "returned"
    /\ place' = [place EXCEPT ![w] = "gone"]
    /\ UNCHANGED <<subs, lines, session, closedDown, todo, attached, since, queue,
                   last>>

\* queue.get: send the event, or end at the sentinel.
SendQuote(w) ==
    /\ place[w] = "live" /\ queue[w] # <<>>
    /\ queue' = [queue EXCEPT ![w] = Tail(@)]
    /\ LET e == Head(queue[w])
       IN IF e = Sentinel
          THEN place' = [place EXCEPT ![w] = "leaving"] /\ UNCHANGED last
          ELSE last' = [last EXCEPT ![w][e.conid] = e.id] /\ UNCHANGED place
    /\ UNCHANGED <<subs, lines, session, closedDown, todo, attached, since>>

\* The client closes the stream: the iterator's finally wants the lock.
CloseStream(w) ==
    /\ place[w] \in {"replaying", "live"}
    /\ place' = [place EXCEPT ![w] = "leaving"]
    /\ todo' = [todo EXCEPT ![w] = <<>>]
    /\ UNCHANGED <<subs, lines, session, closedDown, attached, since, queue, last>>

Without(w, s) == LET left == s.consumers \ {w}
                 IN IF left = {} THEN NoSub ELSE [s EXCEPT !.consumers = left]

\* The request is over, with all it kept.
Gone(w) ==
    /\ place' = [place EXCEPT ![w] = "gone"]
    /\ attached' = [attached EXCEPT ![w] = <<>>]
    /\ since' = [since EXCEPT ![w] = [c \in Conids |-> 0]]
    /\ queue' = [queue EXCEPT ![w] = <<>>]
    /\ last' = [last EXCEPT ![w] = [c \in Conids |-> Nothing]]

\* _detach_consumer: the last consumer of an object takes it down with its line.
DetachWatcher(w) ==
    /\ place[w] = "leaving" /\ LockFree
    /\ subs' = [c \in Conids |-> IF w \in subs[c].consumers
                                 THEN Without(w, subs[c]) ELSE subs[c]]
    /\ lines' = lines \ {c \in Conids : subs[c].consumers = {w}}
    /\ Gone(w)
    /\ UNCHANGED <<session, closedDown, todo>>

-----------------------------------------------------------------------------
\* pendingTickersEvent: _on_pending_tickers finds the object of the ticker's conid.
TickerUpdates(c, t) ==
    /\ SessionUp /\ c \in lines \cap Registered
    /\ subs[c].next < MaxQuotes
    /\ Pushed(c, Event(c, subs[c].next, t))
    /\ UNCHANGED <<lines, session, closedDown, place, todo, attached, since, last>>

\* The session goes, and every line with it; a later one starts with none, and
\* nothing asks for the lines of the objects that are left.
SessionDrops ==
    /\ SessionUp /\ session' = "down" /\ lines' = {}
    /\ UNCHANGED <<subs, closedDown, watcherVars>>

SessionReturns ==
    /\ session = "down" /\ session' = "later"
    /\ UNCHANGED <<subs, lines, closedDown, watcherVars>>

\* shutdown: no request is being answered; the streams get the sentinel if there is
\* room for it.  What a stream still replays of its object's ring after that is left out.
Shutdown ==
    /\ ~closedDown /\ LockFree
    /\ \A w \in Watchers : place[w] \notin {"waiting", "returned"}
    /\ closedDown' = TRUE
    /\ queue' = [w \in Watchers |->
                    IF (\E c \in Conids : w \in subs[c].consumers)
                         /\ Len(queue[w]) < QuoteQueueMax
                    THEN Append(queue[w], Sentinel) ELSE queue[w]]
    /\ subs' = [c \in Conids |-> NoSub]
    /\ lines' = {}
    /\ UNCHANGED <<session, place, todo, attached, since, last>>

QuotesInit ==
    /\ subs = [c \in Conids |-> NoSub] /\ lines = {}
    /\ session = "first" /\ closedDown = FALSE
    /\ place = [w \in Watchers |-> "new"]
    /\ todo = [w \in Watchers |-> <<>>]
    /\ attached = [w \in Watchers |-> <<>>]
    /\ since = [w \in Watchers |-> [c \in Conids |-> 0]]
    /\ queue = [w \in Watchers |-> <<>>]
    /\ last = [w \in Watchers |-> [c \in Conids |-> Nothing]]

WatcherStep(w) ==
    \/ Subscribe(w) \/ EnterSubscribe(w) \/ Qualified(w) \/ NotQualified(w)
    \/ Replay(w) \/ AbandonStream(w) \/ SendQuote(w) \/ CloseStream(w)
    \/ DetachWatcher(w)

QuotesNext ==
    \/ \E w \in Watchers : WatcherStep(w)
    \/ \E c \in Conids, t \in Tickers : TickerUpdates(c, t)
    \/ SessionDrops \/ SessionReturns \/ Shutdown

QuotesSpec == QuotesInit /\ [][QuotesNext]_quoteVars

-----------------------------------------------------------------------------
QuotesTypeOK ==
    /\ lines \subseteq Conids /\ session \in Sessions /\ closedDown \in BOOLEAN
    /\ place \in [Watchers -> Places]
    /\ \A c \in Conids : /\ subs[c].consumers \subseteq Watchers
                         /\ Len(subs[c].ring) <= RingSize
                         /\ subs[c].next \in -1..MaxQuotes
    /\ \A w \in Watchers : Len(queue[w]) <= QuoteQueueMax
    /\ since \in [Watchers -> [Conids -> 0..MaxQuotes]]
    /\ last \in [Watchers -> [Conids -> -1..MaxQuotes]]

\* Lines, objects and consumers stay together while watchers come, leave and wait for
\* contracts and the session drops in between: no line without an object, no object
\* without a consumer, no attached stream without its object, and a line is missing
\* only where the session it belonged to is gone.
LinesMatchConsumers ==
    /\ IF session = "first" THEN lines = Registered ELSE lines \subseteq Registered
    /\ \A c \in Registered : subs[c].consumers # {}
    /\ ~closedDown => \A w \in Watchers : place[w] \in {"replaying", "live", "leaving"} =>
            \A i \in DOMAIN attached[w] : w \in subs[attached[w][i]].consumers

\* A watcher of one conid that has sent all it was given shows the newest quote,
\* though its queue overflows, and replay and queue overlap and may step back.
DrainedWatcherIsCurrent ==
    \A w \in Watchers : \A c \in Conids :
        /\ place[w] = "live" /\ ~closedDown /\ queue[w] = <<>>
        /\ {attached[w][i] : i \in DOMAIN attached[w]} = {c} /\ subs[c].next > since[w][c]
        => last[w][c] = subs[c].next - 1

\* Both, at any time, through drops of the session and leaving watchers.
WatchersAreServed == LinesMatchConsumers /\ DrainedWatcherIsCurrent
=============================================================================
