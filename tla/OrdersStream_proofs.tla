------------------------- MODULE OrdersStream_proofs -------------------------
(***************************************************************************)
(* Proofs about OrdersStream for any clients, orders and sizes.            *)
(***************************************************************************)
EXTENDS OrdersStream, SequenceTheorems, FiniteSetTheorems, TLAPS

-----------------------------------------------------------------------------
(* The bounded queue.                                                      *)

\* A push keeps the type of the queue.
LEMMA PushType ==
    ASSUME NEW S, NEW q \in Seq(S), NEW e \in S, NEW max \in Nat \ {0}
    PROVE  PushBounded(q, e, max) \in Seq(S)
BY DEF PushBounded

\* A push never makes the queue longer than its bound, and adds one up to there.
LEMMA PushLen ==
    ASSUME NEW S, NEW q \in Seq(S), NEW e \in S, NEW max \in Nat \ {0}, Len(q) <= max
    PROVE  /\ Len(PushBounded(q, e, max)) <= max
           /\ Len(PushBounded(q, e, max)) = IF Len(q) < max THEN Len(q) + 1 ELSE Len(q)
BY DEF PushBounded

\* A push continues the run: this is what dropping the OLDEST event buys.
LEMMA PushRun ==
    ASSUME NEW q \in Seq(Event), NEW e \in Event, NEW max \in Nat \ {0}, NEW n \in Nat,
           Len(q) <= max, EndsAt(q, n), e.id = n
    PROVE  EndsAt(PushBounded(q, e, max), n + 1)
<1>1. CASE Len(q) < max
  BY <1>1 DEF PushBounded, EndsAt
<1>2. CASE Len(q) >= max
  <2>1. Tail(q) \in Seq(Event) /\ Len(Tail(q)) = Len(q) - 1
    BY <1>2
  <2>2. \A i \in 1..Len(Tail(q)) : Tail(q)[i] = q[i + 1]
    BY <1>2
  <2>. DEFINE p == PushBounded(q, e, max)
  <2>3. p = Append(Tail(q), e)
    BY <1>2 DEF PushBounded
  <2>4. Len(p) = Len(q) /\ DOMAIN p = 1..Len(q)
    BY <2>1, <2>3
  <2>5. ASSUME NEW i \in 1..Len(q) PROVE p[i].id = n + 1 - Len(q) + i - 1
    <3>1. CASE i = Len(q)
      BY <2>1, <2>3, <3>1
    <3>2. CASE i < Len(q)
      <4>1. i \in 1..Len(Tail(q)) /\ i + 1 \in DOMAIN q /\ Len(q) \in Nat
        BY <2>1, <3>2
      <4>2. p[i] = q[i + 1]
        <5>1. Append(Tail(q), e)[i] = Tail(q)[i]
          BY <2>1, <4>1
        <5>. QED BY <5>1, <2>2, <2>3, <4>1
      <4>3. q[i + 1].id = n - Len(q) + (i + 1) - 1
        BY <4>1 DEF EndsAt
      <4>. QED BY <4>1, <4>2, <4>3
    <3>. QED BY <3>1, <3>2
  <2>6. EndsAt(p, n + 1)
    <3>. HIDE DEF p
    <3>. QED BY <2>4, <2>5 DEF EndsAt
  <2>. QED BY <2>6
<1>. QED BY <1>1, <1>2

\* Taking the first event of a queue leaves its end where it was.
LEMMA TailRun ==
    ASSUME NEW q \in Seq(Event), NEW n \in Nat, q # <<>>, EndsAt(q, n)
    PROVE  /\ EndsAt(Tail(q), n)
           /\ Tail(q) \in Seq(Event)
           /\ Len(Tail(q)) = Len(q) - 1
<1>1. Len(q) > 0
  OBVIOUS
<1>2. Len(Tail(q)) = Len(q) - 1 /\ \A i \in 1..Len(Tail(q)) : Tail(q)[i] = q[i + 1]
  BY <1>1
<1>. QED BY <1>1, <1>2 DEF EndsAt

\* A part of a sequence: its type, its length, its elements.
LEMMA SubSeqFacts ==
    ASSUME NEW S, NEW q \in Seq(S), NEW m \in Nat \ {0}, NEW n \in Nat, n <= Len(q)
    PROVE  /\ SubSeq(q, m, n) \in Seq(S)
           /\ Len(SubSeq(q, m, n)) = IF m <= n THEN n - m + 1 ELSE 0
           /\ \A i \in 1..(n - m + 1) : SubSeq(q, m, n)[i] = q[m + i - 1]
<1>1. \A i \in m..n : q[i] \in S
  BY ElementOfSeq
<1>. QED BY <1>1, SubSeqProperties

\* What remains behind a position ends as the whole sequence does.
LEMMA LastOfRest ==
    ASSUME NEW q \in Seq(Event), NEW i \in 1..Len(q), SubSeq(q, i + 1, Len(q)) # <<>>
    PROVE  SubSeq(q, i + 1, Len(q))[Len(SubSeq(q, i + 1, Len(q)))] = q[Len(q)]
<1>. DEFINE t == SubSeq(q, i + 1, Len(q))
<1>1. i + 1 \in Nat \ {0} /\ Len(q) \in Nat
  OBVIOUS
<1>2. /\ t \in Seq(Event)
      /\ Len(t) = IF i + 1 <= Len(q) THEN Len(q) - (i + 1) + 1 ELSE 0
      /\ \A j \in 1..(Len(q) - (i + 1) + 1) : t[j] = q[(i + 1) + j - 1]
  BY <1>1, SubSeqFacts
<1>. HIDE DEF t
<1>3. Len(t) = Len(q) - i /\ Len(t) \in 1..(Len(q) - (i + 1) + 1)
  BY <1>1, <1>2
<1>4. t[Len(t)] = q[(i + 1) + Len(t) - 1]
  BY <1>2, <1>3
<1>5. PICK n \in Nat : n = Len(q)
  BY <1>1
<1>6. PICK k \in Nat : k = Len(t)
  BY <1>2, LenProperties
<1>7. k = n - i
  BY <1>3, <1>5, <1>6
<1>8. (i + 1) + k - 1 = n
  BY <1>5, <1>7
<1>9. t[Len(t)] = q[Len(q)]
  BY <1>4, <1>5, <1>6, <1>8
<1>. QED BY <1>9 DEF t

\* A sequence without one of its elements: its type and length.
LEMMA RemovalFacts ==
    ASSUME NEW S, NEW q \in Seq(S), NEW i \in 1..Len(q)
    PROVE  /\ SubSeq(q, 1, i - 1) \o SubSeq(q, i + 1, Len(q)) \in Seq(S)
           /\ Len(SubSeq(q, 1, i - 1) \o SubSeq(q, i + 1, Len(q))) = Len(q) - 1
<1>. DEFINE l == SubSeq(q, 1, i - 1)
            r == SubSeq(q, i + 1, Len(q))
<1>1. i - 1 \in Nat /\ i + 1 \in Nat \ {0} /\ Len(q) \in Nat
  OBVIOUS
<1>2. l \in Seq(S) /\ Len(l) = i - 1
  BY <1>1, SubSeqFacts
<1>3. r \in Seq(S) /\ Len(r) = Len(q) - i
  BY <1>1, SubSeqFacts
<1>4. l \o r \in Seq(S) /\ Len(l \o r) = Len(q) - 1
  <2>. HIDE DEF l, r
  <2>. QED BY <1>1, <1>2, <1>3, ConcatProperties
<1>. QED BY <1>4

-----------------------------------------------------------------------------
(* Types.                                                                  *)

\* The empty view is a view.
LEMMA NothingKnownType == NothingKnown \in View
BY DEF NothingKnown, View

\* The trades a bootstrap lists are a view.
LEMMA OpenTradesType == TypeOK => OpenTrades \in View
BY DEF TypeOK, OpenTrades, View

\* A view stays one when an event is seen.
LEMMA SeenType ==
    ASSUME NEW v \in View, NEW e \in Event
    PROVE  Seen(v, e) \in View
BY DEF Seen, View, Event

\* publish keeps the types of all it changes.
LEMMA PublishType ==
    ASSUME TypeOK, NEW kind \in {"order", "bootstrap"}, NEW state \in View,
           NEW qs \in [Clients -> Seq(Event)], NEW cs, Publish(kind, state, qs, cs)
    PROVE  /\ nextId' \in Nat
           /\ buffer' \in Seq(Event)
           /\ queue' \in [Clients -> Seq(Event)]
           /\ shown' \in View
           /\ shownAt' \in [Orders -> Nat \cup {None}]
<1>. DEFINE e == [id |-> nextId, kind |-> kind, state |-> state]
<1>1. e \in Event
  BY DEF Event, TypeOK
<1>2. nextId' \in Nat
  BY DEF Publish, TypeOK
<1>3. buffer' \in Seq(Event)
  <2>1. buffer' = PushBounded(buffer, e, BufferSize)
    BY DEF Publish
  <2>. QED BY <2>1, <1>1, PushType, SizesAssumption DEF TypeOK
<1>4. queue' \in [Clients -> Seq(Event)]
  <2>1. \A c \in Clients : PushBounded(qs[c], e, QueueMax) \in Seq(Event)
    BY <1>1, PushType, SizesAssumption
  <2>2. queue' = [c \in Clients |->
                    IF c \in cs THEN PushBounded(qs[c], e, QueueMax) ELSE qs[c]]
    BY DEF Publish
  <2>. QED BY <2>1, <2>2
<1>5. shown' \in View
  <2>1. shown' = Seen(shown, e)
    BY DEF Publish
  <2>. QED BY <2>1, <1>1, SeenType DEF TypeOK
<1>6. shownAt' \in [Orders -> Nat \cup {None}]
  <2>1. shownAt' = [o \in Orders |-> IF Tells(e, o) THEN nextId ELSE shownAt[o]]
    BY DEF Publish
  <2>. QED BY <2>1 DEF TypeOK
<1>. QED BY <1>2, <1>3, <1>4, <1>5, <1>6

\* The dedup memory stays a list of (order, state) entries within its cap.
LEMMA RememberType ==
    ASSUME TypeOK, NEW o \in Orders, NEW s \in States
    PROVE  /\ Remember(o, s) \in Seq([order : Orders, state : States])
           /\ Len(Remember(o, s)) <= DedupSize
<1>. DEFINE E == [order : Orders, state : States]
<1>1. [order |-> o, state |-> s] \in E
  OBVIOUS
<1>2. dedup \in Seq(E) /\ Len(dedup) <= DedupSize
  BY DEF TypeOK
<1>3. Forget(o) \in Seq(E) /\ Len(Forget(o)) <= DedupSize
  <2>1. CASE \E i \in DOMAIN dedup : dedup[i].order = o
    <3>1. PICK i \in DOMAIN dedup : Forget(o) = SubSeq(dedup, 1, i - 1)
                                                  \o SubSeq(dedup, i + 1, Len(dedup))
      BY <2>1 DEF Forget
    <3>2. i \in 1..Len(dedup) /\ Len(dedup) \in Nat
      BY <1>2
    <3>3. /\ Forget(o) \in Seq(E)
          /\ Len(Forget(o)) = Len(dedup) - 1
      <4>. HIDE DEF E
      <4>. QED BY <1>2, <3>1, <3>2, RemovalFacts
    <3>. QED BY <3>3, <1>2, <3>2, SizesAssumption
  <2>2. CASE ~\E i \in DOMAIN dedup : dedup[i].order = o
    BY <2>2, <1>2 DEF Forget
  <2>. QED BY <2>1, <2>2
<1>4. CASE Len(Forget(o)) < DedupSize
  <2>1. Remember(o, s) = Append(Forget(o), [order |-> o, state |-> s])
    BY <1>4 DEF Remember
  <2>. HIDE DEF E
  <2>. QED BY <2>1, <1>1, <1>3, <1>4, SizesAssumption DEF E
<1>5. CASE ~(Len(Forget(o)) < DedupSize)
  <2>1. Remember(o, s) = Append(Tail(Forget(o)), [order |-> o, state |-> s])
    BY <1>5 DEF Remember
  <2>2. Len(Forget(o)) = DedupSize /\ Forget(o) # <<>>
    BY <1>3, <1>5, SizesAssumption
  <2>3. Tail(Forget(o)) \in Seq(E) /\ Len(Tail(Forget(o))) = DedupSize - 1
    BY <1>3, <2>2
  <2>. QED BY <2>1, <2>3, <1>1, SizesAssumption
<1>. QED BY <1>4, <1>5

\* The same behind the deduplication.
LEMMA PublishOrderType ==
    ASSUME TypeOK, NEW o \in Orders, NEW s \in States, PublishOrder(o, s)
    PROVE  /\ nextId' \in Nat
           /\ buffer' \in Seq(Event)
           /\ queue' \in [Clients -> Seq(Event)]
           /\ shown' \in View
           /\ shownAt' \in [Orders -> Nat \cup {None}]
           /\ dedup' \in Seq([order : Orders, state : States])
           /\ Len(dedup') <= DedupSize
           /\ dropped' \in [Clients -> BOOLEAN]
           /\ UNCHANGED <<registered, coolDown>>
<1>1. CASE ~registered
  BY <1>1 DEF PublishOrder, subVars, TypeOK
<1>2. CASE registered /\ IsDuplicate(o, s)
  BY <1>2, RememberType DEF PublishOrder, TypeOK
<1>3. CASE registered /\ ~IsDuplicate(o, s)
  <2>. DEFINE frame == [NothingKnown EXCEPT ![o] = s]
  <2>1. frame \in View
    BY NothingKnownType DEF View
  <2>2. queue \in [Clients -> Seq(Event)]
    BY DEF TypeOK
  <2>3. Publish("order", frame, queue, Attached)
    BY <1>3 DEF PublishOrder
  <2>4. /\ nextId' \in Nat
        /\ buffer' \in Seq(Event)
        /\ queue' \in [Clients -> Seq(Event)]
        /\ shown' \in View
        /\ shownAt' \in [Orders -> Nat \cup {None}]
    BY <2>1, <2>2, <2>3, PublishType
  <2>. QED BY <1>3, <2>4, RememberType DEF PublishOrder, TypeOK
<1>. QED BY <1>1, <1>2, <1>3

\* Every variable keeps its type, for any set of clients, orders and sizes.
THEOREM TypeCorrect == Spec => []TypeOK
<1>0. /\ <<>> \in Seq(Event) /\ <<>> \in Seq([order : Orders, state : States])
      /\ Len(<<>>) = 0
  OBVIOUS
<1>1. Init => TypeOK
  <2>. SUFFICES ASSUME Init PROVE TypeOK
    OBVIOUS
  <2>1. /\ trade \in View /\ shown \in View /\ view \in [Clients -> View]
        /\ Len(dedup) <= DedupSize
        /\ \A c \in Clients : Len(pending[c]) <= 1
    BY <1>0, NothingKnownType, SizesAssumption DEF Init
  <2>. QED BY <1>0, <2>1 DEF Init, TypeOK, None
<1>2. TypeOK /\ [Next]_vars => TypeOK'
  <2>. SUFFICES ASSUME TypeOK, [Next]_vars PROVE TypeOK'
    OBVIOUS
  <2>. USE DEF subVars, connVars, clientVars, histVars, None
  <2>1. ASSUME NEW o \in Orders, NEW s \in States, BrokerEvent(o, s)
        PROVE  TypeOK'
    <3>1. trade' \in View
      BY <2>1 DEF BrokerEvent, TypeOK, View
    <3>2. CASE up
      BY <2>1, <3>1, <3>2, PublishOrderType DEF BrokerEvent, TypeOK
    <3>3. CASE ~up
      BY <2>1, <3>1, <3>3 DEF BrokerEvent, TypeOK
    <3>. QED BY <3>2, <3>3
  <2>2. ASSUME NEW o \in Orders, NEW s \in LocalStates, LocalChange(o, s)
        PROVE  TypeOK'
    <3>1. trade' \in View
      BY <2>2, StatesAssumption DEF LocalChange, TypeOK, View
    <3>. QED BY <2>2, <3>1 DEF LocalChange, TypeOK
  <2>3. ASSUME NEW c \in Clients, NEW header \in {None, lastId[c]}, Subscribe(c, header)
        PROVE  TypeOK'
    <3>. DEFINE qs == [queue EXCEPT ![c] = <<>>]
    <3>1. qs \in [Clients -> Seq(Event)] /\ header \in Nat \cup {None}
      BY DEF TypeOK
    <3>2. /\ nextId' \in Nat
          /\ buffer' \in Seq(Event)
          /\ queue' \in [Clients -> Seq(Event)]
          /\ shown' \in View
          /\ shownAt' \in [Orders -> Nat \cup {None}]
          /\ dropped' \in [Clients -> BOOLEAN]
      <4>1. CASE OpenTrades # NothingKnown
        <5>1. Publish("bootstrap", OpenTrades, qs, Attached \cup {c})
          BY <2>3, <4>1 DEF Subscribe
        <5>2. dropped' \in [Clients -> BOOLEAN]
          BY <2>3, <4>1 DEF Subscribe, TypeOK
        <5>. QED BY <3>1, <5>1, <5>2, OpenTradesType, PublishType
      <4>2. CASE OpenTrades = NothingKnown
        BY <2>3, <3>1, <4>2 DEF Subscribe, TypeOK
      <4>. QED BY <4>1, <4>2
    <3>3. /\ lastId' \in [Clients -> Nat \cup {None}]
          /\ view' \in [Clients -> View]
          /\ current' \in [Clients -> BOOLEAN]
          /\ lost' \in [Clients -> BOOLEAN]
          /\ booted' \in [Clients -> BOOLEAN]
          /\ skipped' \in [Clients -> BOOLEAN]
          /\ since' \in [Clients -> Nat \cup {None}]
      BY <2>3, <3>1, NothingKnownType DEF Subscribe, TypeOK
    <3>. QED BY <2>3, <3>2, <3>3 DEF Subscribe, TypeOK
  <2>4. ASSUME NEW c \in Clients, StartReplay(c)
        PROVE  TypeOK'
    BY <2>4 DEF StartReplay, Snapshot, TypeOK
  <2>5. ASSUME NEW c \in Clients, FetchReplay(c)
        PROVE  TypeOK'
    <3>1. PICK i \in NextReplay(c) :
             /\ pending' = [pending EXCEPT ![c] = <<replay[c][i]>>]
             /\ replay' = [replay EXCEPT ![c] = SubSeq(@, i + 1, Len(@))]
      BY <2>5 DEF FetchReplay
    <3>2. replay[c] \in Seq(Event) /\ i \in 1..Len(replay[c])
      BY <3>1 DEF NextReplay, TypeOK
    <3>3. <<replay[c][i]>> \in Seq(Event) /\ Len(<<replay[c][i]>>) = 1
      BY <3>2
    <3>4. SubSeq(replay[c], i + 1, Len(replay[c])) \in Seq(Event)
      BY <3>2, SubSeqFacts
    <3>5. /\ pending' \in [Clients -> Seq(Event)]
          /\ \A d \in Clients : Len(pending'[d]) <= 1
      BY <3>1, <3>3 DEF TypeOK
    <3>6. replay' \in [Clients -> Seq(Event)]
      BY <3>1, <3>4 DEF TypeOK
    <3>. QED BY <2>5, <3>5, <3>6 DEF FetchReplay, TypeOK
  <2>6. ASSUME NEW c \in Clients, FetchLive(c)
        PROVE  TypeOK'
    <3>1. queue[c] \in Seq(Event) /\ queue[c] # <<>>
      BY <2>6 DEF FetchLive, TypeOK
    <3>2. /\ <<Head(queue[c])>> \in Seq(Event)
          /\ Len(<<Head(queue[c])>>) = 1
          /\ Tail(queue[c]) \in Seq(Event)
      BY <3>1
    <3>. QED BY <2>6, <3>2 DEF FetchLive, TypeOK
  <2>7. ASSUME NEW c \in Clients, Deliver(c)
        PROVE  TypeOK'
    <3>1. pending[c] \in Seq(Event) /\ pending[c] # <<>>
      BY <2>7 DEF Deliver, TypeOK
    <3>2. pending[c][1] \in Event
      BY <3>1
    <3>3. pending[c][1].id \in Nat /\ Seen(view[c], pending[c][1]) \in View
      BY <3>2, SeenType DEF Event, TypeOK
    <3>. QED BY <2>7, <3>3 DEF Deliver, TypeOK
  <2>8. ASSUME NEW c \in Clients, Detach(c)
        PROVE  TypeOK'
    BY <2>8 DEF Detach, LastConsumer, TypeOK
  <2>9. ASSUME NEW c \in Clients, Abandon(c) \/ Vanish(c)
        PROVE  TypeOK'
    BY <2>9 DEF Abandon, Vanish, TypeOK
  <2>10. CASE CoolDownExpires
    <3>1. /\ buffer' \in Seq(Event)
          /\ dedup' \in Seq([order : Orders, state : States])
          /\ Len(dedup') <= DedupSize
          /\ nextId' \in Nat
          /\ shown' \in View
          /\ shownAt' \in [Orders -> Nat \cup {None}]
      <4>1. CASE Attached = {} /\ registered
        <5>1. nextId' = 0 /\ buffer' = <<>> /\ dedup' = <<>> /\ shown' = NothingKnown
          BY <2>10, <4>1 DEF CoolDownExpires
        <5>2. Len(dedup') <= DedupSize
          BY <5>1, <1>0, SizesAssumption
        <5>3. shownAt' = [o \in Orders |-> None]
          BY <2>10, <4>1 DEF CoolDownExpires
        <5>. QED BY <5>1, <5>2, <5>3, <1>0, NothingKnownType
      <4>2. CASE ~(Attached = {} /\ registered)
        <5>1. UNCHANGED <<nextId, buffer, dedup, shown, shownAt>>
          BY <2>10, <4>2 DEF CoolDownExpires
        <5>. QED BY <5>1 DEF TypeOK
      <4>. QED BY <4>1, <4>2
    <3>2. registered' \in BOOLEAN /\ current' \in [Clients -> BOOLEAN] /\ coolDown' \in BOOLEAN
      BY <2>10 DEF CoolDownExpires, TypeOK
    <3>3. UNCHANGED <<trade, up, phase, queue, replay, since, pending, lastId, view,
                      dropped, lost, booted, skipped>>
      BY <2>10 DEF CoolDownExpires
    <3>. QED BY <3>1, <3>2, <3>3 DEF TypeOK
  <2>11. CASE Shutdown
    BY <2>11 DEF Shutdown, TypeOK
  <2>12. CASE UNCHANGED vars
    BY <2>12 DEF vars, TypeOK
  <2>. QED BY <2>1, <2>2, <2>3, <2>4, <2>5, <2>6, <2>7, <2>8, <2>9, <2>10, <2>11, <2>12
            DEF Next, Disconnect, SendFails
<1>. QED BY <1>1, <1>2, PTL DEF Spec

-----------------------------------------------------------------------------
(* The cool-down runs exactly while the registered subscription is unused. *)

\* Only subscribe and detach change who is attached.
LEMMA AttachedStays ==
    ASSUME TypeOK, phase' = phase
    PROVE  Attached' = Attached
BY DEF Attached

\* Detaching a client takes it, and nobody else, out of the consumers.
LEMMA DetachLeaves ==
    ASSUME TypeOK, NEW c \in Clients, Detach(c)
    PROVE  Attached' = Attached \ {c}
BY DEF TypeOK, Detach, Attached

\* The cool-down that forgets the replay state never runs while a consumer is
\* attached, and never fails to run once the last one has left.
THEOREM CoolDownExact == Spec => []CoolDownIffIdle
<1>1. Init => CoolDownIffIdle
  BY DEF Init, CoolDownIffIdle
<1>2. TypeOK /\ CoolDownIffIdle /\ [Next]_vars => CoolDownIffIdle'
  <2>. SUFFICES ASSUME TypeOK, CoolDownIffIdle, [Next]_vars PROVE CoolDownIffIdle'
    OBVIOUS
  <2>. USE DEF subVars, connVars, clientVars, histVars
  <2>1. ASSUME UNCHANGED <<registered, coolDown, phase>>
        PROVE  CoolDownIffIdle'
    BY <2>1, AttachedStays DEF CoolDownIffIdle
  <2>2. ASSUME NEW o \in Orders, NEW s \in States, BrokerEvent(o, s)
        PROVE  CoolDownIffIdle'
    <3>1. UNCHANGED <<registered, coolDown, phase>>
      BY <2>2 DEF BrokerEvent, PublishOrder
    <3>. QED BY <3>1, <2>1
  <2>3. ASSUME NEW c \in Clients, NEW header \in {None, lastId[c]}, Subscribe(c, header)
        PROVE  CoolDownIffIdle'
    <3>1. coolDown' = FALSE
      BY <2>3 DEF Subscribe
    <3>2. c \in Attached'
      BY <2>3 DEF Subscribe, Attached, TypeOK
    <3>. QED BY <3>1, <3>2 DEF CoolDownIffIdle
  <2>4. ASSUME NEW c \in Clients, c \in Attached, Detach(c)
        PROVE  CoolDownIffIdle'
    <3>1. registered => ~coolDown
      BY <2>4 DEF CoolDownIffIdle
    <3>2. registered' = registered /\ coolDown' = (coolDown \/ Attached = {c})
      BY <2>4 DEF Detach, LastConsumer
    <3>3. Attached' = {} <=> Attached = {c}
      BY <2>4, DetachLeaves
    <3>. QED BY <3>1, <3>2, <3>3 DEF CoolDownIffIdle
  <2>5. ASSUME NEW c \in Clients, StartReplay(c) \/ Abandon(c) \/ Vanish(c)
        PROVE  CoolDownIffIdle'
    <3>1. Attached' = Attached
      BY <2>5 DEF StartReplay, Abandon, Vanish, Attached, TypeOK
    <3>2. UNCHANGED <<registered, coolDown>>
      BY <2>5 DEF StartReplay, Abandon, Vanish
    <3>. QED BY <3>1, <3>2 DEF CoolDownIffIdle
  <2>6. CASE CoolDownExpires
    <3>1. CASE Attached = {} /\ registered
      BY <2>6, <3>1 DEF CoolDownExpires, CoolDownIffIdle
    <3>2. CASE ~(Attached = {} /\ registered)
      BY <2>6, <3>2 DEF CoolDownExpires, CoolDownIffIdle
    <3>. QED BY <3>1, <3>2
  <2>7. CASE Shutdown
    BY <2>7 DEF Shutdown, CoolDownIffIdle
  <2>8. ASSUME NEW c \in Clients, FetchReplay(c) \/ FetchLive(c) \/ Deliver(c)
        PROVE  CoolDownIffIdle'
    BY <2>8, <2>1 DEF FetchReplay, FetchLive, Deliver
  <2>9. ASSUME NEW o \in Orders, NEW s \in LocalStates, LocalChange(o, s)
        PROVE  CoolDownIffIdle'
    BY <2>9, <2>1 DEF LocalChange
  <2>10. CASE UNCHANGED vars
    BY <2>10, <2>1 DEF vars
  <2>11. ASSUME NEW c \in Clients, Disconnect(c) \/ SendFails(c)
         PROVE  CoolDownIffIdle'
    BY <2>11, <2>4 DEF Disconnect, SendFails, Attached
  <2>. QED BY <2>2, <2>3, <2>5, <2>6, <2>7, <2>8, <2>9, <2>10, <2>11 DEF Next
<1>. QED BY <1>1, <1>2, TypeCorrect, PTL DEF Spec

-----------------------------------------------------------------------------
(* Unbroken runs of ids in the ring and in every queue.                    *)

\* What one publish does to the runs: all of them end at the new event.
LEMMA PublishRuns ==
    ASSUME TypeOK, NEW kind \in {"order", "bootstrap"}, NEW state \in View,
           NEW qs \in [Clients -> Seq(Event)], NEW cs \in SUBSET Clients,
           EndsAt(buffer, nextId), Len(buffer) <= BufferSize,
           \A c \in cs : EndsAt(qs[c], nextId) /\ Len(qs[c]) <= QueueMax,
           Publish(kind, state, qs, cs)
    PROVE  /\ EndsAt(buffer', nextId')
           /\ Len(buffer') <= BufferSize
           /\ \A c \in cs : EndsAt(queue'[c], nextId') /\ Len(queue'[c]) <= QueueMax
<1>. DEFINE e == [id |-> nextId, kind |-> kind, state |-> state]
<1>1. e \in Event /\ e.id = nextId /\ nextId' = nextId + 1
  BY DEF Event, TypeOK, Publish
<1>2. buffer' = PushBounded(buffer, e, BufferSize)
  BY DEF Publish
<1>3. ASSUME NEW c \in cs PROVE queue'[c] = PushBounded(qs[c], e, QueueMax)
  BY DEF Publish
<1>4. EndsAt(buffer', nextId') /\ Len(buffer') <= BufferSize
  <2>. HIDE DEF e
  <2>. QED BY <1>1, <1>2, PushRun, PushLen, SizesAssumption DEF TypeOK
<1>5. ASSUME NEW c \in cs
      PROVE  EndsAt(queue'[c], nextId') /\ Len(queue'[c]) <= QueueMax
  <2>1. qs[c] \in Seq(Event) /\ EndsAt(qs[c], nextId) /\ Len(qs[c]) <= QueueMax
    OBVIOUS
  <2>. HIDE DEF e
  <2>. QED BY <1>1, <1>3, <2>1, PushRun, PushLen, SizesAssumption DEF TypeOK
<1>. QED BY <1>4, <1>5

\* Overflow sheds the oldest events only: ring and queues always hold consecutive
\* ids up to the newest, whatever the sizes and however consumers come and go.
THEOREM RunsUnbroken == Spec => []UnbrokenRuns
<1>0. EndsAt(<<>>, 0) /\ Len(<<>>) = 0 /\ \A n \in Nat : EndsAt(<<>>, n)
  BY DEF EndsAt
<1>1. Init => UnbrokenRuns
  <2>. SUFFICES ASSUME Init PROVE UnbrokenRuns
    OBVIOUS
  <2>1. Attached = {}
    BY DEF Init, Attached
  <2>. QED BY <2>1, <1>0, SizesAssumption DEF Init, UnbrokenRuns
<1>2. TypeOK /\ UnbrokenRuns /\ [Next]_vars => UnbrokenRuns'
  <2>. SUFFICES ASSUME TypeOK, UnbrokenRuns, [Next]_vars PROVE UnbrokenRuns'
    OBVIOUS
  <2>. USE DEF subVars, connVars, clientVars, histVars
  <2>1. ASSUME UNCHANGED <<buffer, nextId, queue>>, Attached' \subseteq Attached
        PROVE  UnbrokenRuns'
    BY <2>1 DEF UnbrokenRuns
  <2>2. ASSUME NEW o \in Orders, NEW s \in States, BrokerEvent(o, s)
        PROVE  UnbrokenRuns'
    <3>1. Attached' = Attached
      BY <2>2, AttachedStays DEF BrokerEvent
    <3>2. CASE UNCHANGED <<buffer, nextId, queue>>
      BY <3>1, <3>2, <2>1
    <3>3. CASE Publish("order", [NothingKnown EXCEPT ![o] = s], queue, Attached)
      <4>1. [NothingKnown EXCEPT ![o] = s] \in View
        BY NothingKnownType DEF View
      <4>2. queue \in [Clients -> Seq(Event)] /\ Attached \in SUBSET Clients
        BY DEF TypeOK, Attached
      <4>3. /\ EndsAt(buffer', nextId')
            /\ Len(buffer') <= BufferSize
            /\ \A c \in Attached : EndsAt(queue'[c], nextId') /\ Len(queue'[c]) <= QueueMax
        BY <3>3, <4>1, <4>2, PublishRuns DEF UnbrokenRuns
      <4>. QED BY <3>1, <4>3 DEF UnbrokenRuns
    <3>. QED BY <2>2, <3>2, <3>3 DEF BrokerEvent, PublishOrder
  <2>3. ASSUME NEW c \in Clients, NEW header \in {None, lastId[c]}, Subscribe(c, header)
        PROVE  UnbrokenRuns'
    <3>. DEFINE qs == [queue EXCEPT ![c] = <<>>]
    <3>1. Attached' = Attached \cup {c} /\ c \notin Attached
      BY <2>3 DEF Subscribe, Attached, TypeOK
    <3>2. qs \in [Clients -> Seq(Event)] /\ Attached \cup {c} \in SUBSET Clients
      BY DEF TypeOK, Attached
    <3>3. \A d \in Attached \cup {c} : EndsAt(qs[d], nextId) /\ Len(qs[d]) <= QueueMax
      <4>1. EndsAt(qs[c], nextId) /\ Len(qs[c]) <= QueueMax
        BY <1>0, SizesAssumption DEF TypeOK
      <4>2. ASSUME NEW d \in Attached PROVE EndsAt(qs[d], nextId) /\ Len(qs[d]) <= QueueMax
        BY <3>1 DEF UnbrokenRuns, TypeOK, Attached
      <4>. QED BY <4>1, <4>2
    <3>4. CASE OpenTrades # NothingKnown
      <4>1. Publish("bootstrap", OpenTrades, qs, Attached \cup {c})
        BY <2>3, <3>4 DEF Subscribe
      <4>2. /\ EndsAt(buffer', nextId')
            /\ Len(buffer') <= BufferSize
            /\ \A d \in Attached \cup {c} :
                  EndsAt(queue'[d], nextId') /\ Len(queue'[d]) <= QueueMax
        <5>. HIDE DEF qs
        <5>. QED BY <3>2, <3>3, <4>1, OpenTradesType, PublishRuns DEF UnbrokenRuns
      <4>. QED BY <3>1, <4>2 DEF UnbrokenRuns
    <3>5. CASE OpenTrades = NothingKnown
      <4>1. queue' = qs /\ UNCHANGED <<nextId, buffer>>
        BY <2>3, <3>5 DEF Subscribe
      <4>. QED BY <3>1, <3>3, <4>1 DEF UnbrokenRuns
    <3>. QED BY <3>4, <3>5
  <2>4. ASSUME NEW c \in Clients, FetchLive(c)
        PROVE  UnbrokenRuns'
    <3>1. /\ Attached' = Attached
          /\ c \in Attached
          /\ queue' = [queue EXCEPT ![c] = Tail(queue[c])]
          /\ UNCHANGED <<buffer, nextId>>
      BY <2>4, AttachedStays DEF FetchLive, Attached
    <3>2. queue[c] \in Seq(Event) /\ queue[c] # <<>> /\ EndsAt(queue[c], nextId)
      BY <2>4, <3>1 DEF FetchLive, TypeOK, UnbrokenRuns
    <3>3. EndsAt(Tail(queue[c]), nextId) /\ Len(Tail(queue[c])) = Len(queue[c]) - 1
      BY <3>2, TailRun DEF TypeOK
    <3>4. \A d \in Attached : EndsAt(queue'[d], nextId) /\ Len(queue'[d]) <= QueueMax
      BY <3>1, <3>2, <3>3, SizesAssumption DEF UnbrokenRuns, TypeOK
    <3>. QED BY <3>1, <3>4 DEF UnbrokenRuns
  <2>5. ASSUME NEW c \in Clients, Detach(c)
        PROVE  UnbrokenRuns'
    <3>1. Attached' = Attached \ {c}
      BY <2>5, DetachLeaves
    <3>2. UNCHANGED <<buffer, nextId>> /\ \A d \in Attached' : queue'[d] = queue[d]
      BY <2>5, <3>1 DEF Detach, TypeOK, Attached
    <3>. QED BY <3>1, <3>2 DEF UnbrokenRuns
  <2>6. ASSUME NEW c \in Clients, StartReplay(c) \/ Abandon(c) \/ Vanish(c)
        PROVE  UnbrokenRuns'
    <3>1. Attached' = Attached
      BY <2>6 DEF StartReplay, Abandon, Vanish, Attached, TypeOK
    <3>. QED BY <2>6, <3>1, <2>1 DEF StartReplay, Abandon, Vanish
  <2>7. CASE CoolDownExpires
    <3>1. Attached' = Attached /\ queue' = queue
      BY <2>7, AttachedStays DEF CoolDownExpires
    <3>2. CASE Attached = {} /\ registered
      <4>1. nextId' = 0 /\ buffer' = <<>>
        BY <2>7, <3>2 DEF CoolDownExpires
      <4>. QED BY <1>0, <3>1, <3>2, <4>1, SizesAssumption DEF UnbrokenRuns
    <3>3. CASE ~(Attached = {} /\ registered)
      BY <2>7, <3>1, <3>3, <2>1 DEF CoolDownExpires
    <3>. QED BY <3>2, <3>3
  <2>8. ASSUME UNCHANGED <<buffer, nextId, queue, phase>>
        PROVE  UnbrokenRuns'
    BY <2>8, <2>1, AttachedStays
  <2>9. ASSUME NEW c \in Clients, FetchReplay(c) \/ Deliver(c)
        PROVE  UnbrokenRuns'
    BY <2>9, <2>8 DEF FetchReplay, Deliver
  <2>10. ASSUME NEW o \in Orders, NEW s \in LocalStates, LocalChange(o, s)
         PROVE  UnbrokenRuns'
    BY <2>10, <2>8 DEF LocalChange
  <2>11. CASE Shutdown \/ UNCHANGED vars
    BY <2>11, <2>8 DEF Shutdown, vars
  <2>. QED BY <2>2, <2>3, <2>4, <2>5, <2>6, <2>7, <2>9, <2>10, <2>11
            DEF Next, Disconnect, SendFails
<1>. QED BY <1>1, <1>2, TypeCorrect, PTL DEF Spec

-----------------------------------------------------------------------------
(* No hole between replay and live queue.                                  *)

\* A queue that does not overflow grows with every id that is given out.
LEMMA PublishGrows ==
    ASSUME TypeOK, NEW kind \in {"order", "bootstrap"}, NEW state \in View,
           NEW qs \in [Clients -> Seq(Event)], NEW cs \in SUBSET Clients,
           Publish(kind, state, qs, cs),
           NEW c \in cs, Len(qs[c]) < QueueMax
    PROVE  nextId' = nextId + 1 /\ Len(queue'[c]) = Len(qs[c]) + 1
<1>. DEFINE e == [id |-> nextId, kind |-> kind, state |-> state]
<1>1. queue'[c] = PushBounded(qs[c], e, QueueMax) /\ nextId' = nextId + 1
  BY DEF Publish
<1>2. qs[c] \in Seq(Event) /\ e \in Event
  BY DEF Event, TypeOK
<1>. HIDE DEF e
<1>. QED BY <1>1, <1>2, PushLen, SizesAssumption

\* What the ring snapshot ends with and what the queue starts with never leave an
\* id out, however late the consumer starts to read, unless its queue overflowed.
THEOREM ReplayJoinsLive == Spec => []ReplayMeetsQueue
<1>. DEFINE Meets(c) ==
        phase[c] \in {"open", "ghost"} /\ replay[c] # <<>> /\ ~dropped[c]
            => replay[c][Len(replay[c])].id + 1 >= nextId - Len(queue[c])
<1>1. Init => ReplayMeetsQueue
  BY DEF Init, ReplayMeetsQueue
<1>2. TypeOK /\ UnbrokenRuns /\ ReplayMeetsQueue /\ [Next]_vars => ReplayMeetsQueue'
  <2>. SUFFICES ASSUME TypeOK, UnbrokenRuns, ReplayMeetsQueue, [Next]_vars,
                       NEW d \in Clients
                PROVE  Meets(d)'
    BY DEF ReplayMeetsQueue
  <2>. USE DEF subVars, connVars, clientVars, histVars
  <2>0. Meets(d)
    BY DEF ReplayMeetsQueue
  <2>1. ASSUME nextId' = nextId, queue'[d] = queue[d], replay'[d] = replay[d],
               phase'[d] \in {"open", "ghost"} => phase[d] \in {"open", "ghost"},
               dropped[d] => dropped'[d] \/ phase'[d] \notin {"open", "ghost"}
        PROVE  Meets(d)'
    BY <2>0, <2>1
  <2>2. ASSUME NEW kind \in {"order", "bootstrap"}, NEW state \in View,
               NEW qs \in [Clients -> Seq(Event)], NEW cs \in SUBSET Clients,
               Publish(kind, state, qs, cs), d \in Attached => d \in cs,
               qs[d] = queue[d], UNCHANGED replay, phase'[d] = phase[d],
               dropped[d] \/ d \in Overflowing => dropped'[d]
        PROVE  Meets(d)'
    <3>. SUFFICES ASSUME phase[d] \in {"open", "ghost"}, replay[d] # <<>>, ~dropped'[d]
                  PROVE  replay[d][Len(replay[d])].id + 1 >= nextId' - Len(queue'[d])
      BY <2>2
    <3>1. d \in cs /\ d \in Attached
      BY <2>2 DEF Attached
    <3>2. Len(qs[d]) < QueueMax
      BY <2>2, <3>1, SizesAssumption DEF Overflowing, TypeOK
    <3>3. nextId' = nextId + 1 /\ Len(queue'[d]) = Len(queue[d]) + 1
      <4>1. Publish(kind, state, qs, cs) /\ d \in cs
        BY <2>2, <3>1
      <4>2. nextId' = nextId + 1 /\ Len(queue'[d]) = Len(qs[d]) + 1
        <5>. HIDE <2>2, <2>0, <2>1
        <5>. QED BY <4>1, <3>2, PublishGrows
      <4>. QED BY <4>2, <2>2
    <3>4. replay[d][Len(replay[d])].id + 1 >= nextId - Len(queue[d])
      BY <2>0, <2>2
    <3>5. nextId' - Len(queue'[d]) = nextId - Len(queue[d])
      <4>1. nextId \in Nat /\ Len(queue[d]) \in Nat
        BY DEF TypeOK
      <4>. QED BY <3>3, <4>1
    <3>. QED BY <3>4, <3>5
  <2>3. ASSUME NEW o \in Orders, NEW s \in States, BrokerEvent(o, s)
        PROVE  Meets(d)'
    <3>0. UNCHANGED <<replay, phase>>
      BY <2>3 DEF BrokerEvent
    <3>1. CASE UNCHANGED <<nextId, queue, dropped>>
      BY <3>0, <3>1, <2>1
    <3>2. CASE /\ Publish("order", [NothingKnown EXCEPT ![o] = s], queue, Attached)
               /\ dropped' = [c \in Clients |-> dropped[c] \/ c \in Overflowing]
      <4>1. [NothingKnown EXCEPT ![o] = s] \in View
        BY NothingKnownType DEF View
      <4>2. queue \in [Clients -> Seq(Event)] /\ Attached \in SUBSET Clients
        BY DEF TypeOK, Attached
      <4>3. dropped[d] \/ d \in Overflowing => dropped'[d]
        BY <3>2
      <4>. QED BY <3>0, <3>2, <4>1, <4>2, <4>3, <2>2
    <3>. QED BY <2>3, <3>1, <3>2 DEF BrokerEvent, PublishOrder
  <2>4. ASSUME NEW c \in Clients, NEW header \in {None, lastId[c]}, Subscribe(c, header)
        PROVE  Meets(d)'
    <3>1. phase'[c] = "attached"
      BY <2>4 DEF Subscribe, TypeOK
    <3>2. CASE d = c
      BY <3>1, <3>2
    <3>3. CASE d # c
      <4>. DEFINE qs == [queue EXCEPT ![c] = <<>>]
      <4>1. /\ qs \in [Clients -> Seq(Event)] /\ Attached \cup {c} \in SUBSET Clients
            /\ qs[d] = queue[d] /\ phase'[d] = phase[d] /\ replay' = replay
        BY <2>4, <3>3 DEF Subscribe, TypeOK, Attached
      <4>2. CASE OpenTrades # NothingKnown
        <5>1. Publish("bootstrap", OpenTrades, qs, Attached \cup {c})
          BY <2>4, <4>2 DEF Subscribe
        <5>2. dropped[d] \/ d \in Overflowing => dropped'[d]
          BY <2>4, <3>3, <4>2 DEF Subscribe
        <5>. HIDE DEF qs
        <5>. QED BY <4>1, <5>1, <5>2, <2>2, OpenTradesType
      <4>3. CASE OpenTrades = NothingKnown
        <5>1. queue' = qs /\ UNCHANGED nextId /\ dropped'[d] = dropped[d]
          BY <2>4, <3>3, <4>3 DEF Subscribe, TypeOK
        <5>. QED BY <4>1, <5>1, <2>1
      <4>. QED BY <4>2, <4>3
    <3>. QED BY <3>2, <3>3
  <2>5. ASSUME NEW c \in Clients, StartReplay(c)
        PROVE  Meets(d)'
    <3>1. CASE d # c
      BY <2>5, <3>1, <2>1 DEF StartReplay, TypeOK
    <3>2. CASE d = c /\ buffer # <<>>
      <4>1. replay'[d] = buffer /\ UNCHANGED <<nextId, queue>>
        BY <2>5, <3>2 DEF StartReplay, Snapshot, TypeOK
      <4>2. /\ buffer \in Seq(Event) /\ Len(buffer) \in DOMAIN buffer
            /\ nextId \in Nat /\ Len(queue[d]) \in Nat /\ Len(buffer) \in Nat
        BY <3>2 DEF TypeOK
      <4>3. buffer[Len(buffer)].id = nextId - Len(buffer) + Len(buffer) - 1
        BY <4>2 DEF UnbrokenRuns, EndsAt
      <4>. QED BY <4>1, <4>2, <4>3
    <3>3. CASE d = c /\ buffer = <<>>
      BY <2>5, <3>3 DEF StartReplay, Snapshot, TypeOK
    <3>. QED BY <3>1, <3>2, <3>3
  <2>6. ASSUME NEW c \in Clients, FetchReplay(c)
        PROVE  Meets(d)'
    <3>1. CASE d # c
      BY <2>6, <3>1, <2>1 DEF FetchReplay, TypeOK
    <3>2. CASE d = c
      <4>1. PICK i \in NextReplay(c) :
               replay' = [replay EXCEPT ![c] = SubSeq(replay[c], i + 1, Len(replay[c]))]
        BY <2>6 DEF FetchReplay
      <4>2. replay[c] \in Seq(Event) /\ i \in 1..Len(replay[c])
        BY <4>1 DEF NextReplay, TypeOK
      <4>3. /\ replay'[c] = SubSeq(replay[c], i + 1, Len(replay[c]))
            /\ UNCHANGED <<nextId, queue, dropped, phase>>
        BY <2>6, <4>1 DEF FetchReplay, TypeOK
      <4>4. ASSUME replay'[c] # <<>>
            PROVE  replay'[c][Len(replay'[c])] = replay[c][Len(replay[c])]
        BY <4>2, <4>3, <4>4, LastOfRest
      <4>5. replay[c] # <<>>
        BY <4>2
      <4>. QED BY <3>2, <4>3, <4>4, <4>5, <2>0
    <3>. QED BY <3>1, <3>2
  <2>7. ASSUME NEW c \in Clients, FetchLive(c)
        PROVE  Meets(d)'
    <3>1. CASE d # c
      BY <2>7, <3>1, <2>1 DEF FetchLive, TypeOK
    <3>2. CASE d = c
      BY <2>7, <3>2 DEF FetchLive, TypeOK
    <3>. QED BY <3>1, <3>2
  <2>8. ASSUME NEW c \in Clients, Detach(c)
        PROVE  Meets(d)'
    <3>1. CASE d # c
      BY <2>8, <3>1, <2>1 DEF Detach, TypeOK
    <3>2. CASE d = c
      BY <2>8, <3>2 DEF Detach, TypeOK
    <3>. QED BY <3>1, <3>2
  <2>9. ASSUME NEW c \in Clients, Abandon(c) \/ Vanish(c) \/ Deliver(c)
        PROVE  Meets(d)'
    BY <2>9, <2>1 DEF Abandon, Vanish, Deliver, TypeOK
  <2>10. CASE CoolDownExpires
    <3>1. CASE Attached = {} /\ registered
      <4>1. phase'[d] = "off"
        BY <2>10, <3>1 DEF CoolDownExpires, Attached
      <4>. QED BY <4>1
    <3>2. CASE ~(Attached = {} /\ registered)
      BY <2>10, <3>2, <2>1 DEF CoolDownExpires
    <3>. QED BY <3>1, <3>2
  <2>11. ASSUME NEW o \in Orders, NEW s \in LocalStates, LocalChange(o, s)
         PROVE  Meets(d)'
    BY <2>11, <2>1 DEF LocalChange
  <2>12. CASE Shutdown \/ UNCHANGED vars
    BY <2>12, <2>1 DEF Shutdown, vars
  <2>. QED BY <2>3, <2>4, <2>5, <2>6, <2>7, <2>8, <2>9, <2>10, <2>11, <2>12
            DEF Next, Disconnect, SendFails
<1>. QED BY <1>1, <1>2, TypeCorrect, RunsUnbroken, PTL DEF Spec

-----------------------------------------------------------------------------
(* What a step means for one client.                                       *)

\* The stream gives out e ...
Published(e) ==
    /\ e \in Event /\ e.id = nextId
    /\ nextId' = nextId + 1
    /\ buffer' = PushBounded(buffer, e, BufferSize)
    /\ shown' = Seen(shown, e)
    /\ shownAt' = [o \in Orders |-> IF Tells(e, o) THEN nextId ELSE shownAt[o]]

\* ... or gives out nothing.
Silent == UNCHANGED <<nextId, buffer, shown, shownAt>>

\* Nothing of c changes but its queue, and whether that overflowed.
KeepsPlace(c) ==
    /\ phase'[c] = phase[c] /\ since'[c] = since[c]
    /\ replay'[c] = replay[c] /\ pending'[c] = pending[c]
    /\ lastId'[c] = lastId[c] /\ view'[c] = view[c]
    /\ current'[c] = current[c] /\ lost'[c] = lost[c]
    /\ booted'[c] = booted[c] /\ skipped'[c] = skipped[c]

\* The step of another client, or of none.
Rests(c) == Silent /\ KeepsPlace(c) /\ queue'[c] = queue[c] /\ dropped'[c] = dropped[c]

\* An event is published, and queued for c if c is attached.
IsSent(c, e) ==
    /\ Published(e) /\ KeepsPlace(c)
    /\ IF phase[c] # "off"
       THEN /\ queue'[c] = PushBounded(queue[c], e, QueueMax)
            /\ dropped'[c] = (dropped[c] \/ Len(queue[c]) >= QueueMax)
       ELSE queue'[c] = queue[c] /\ dropped'[c] = dropped[c]

\* c subscribes, with or without an event of its own in its queue.
Joins(c, header) ==
    /\ phase[c] = "off" /\ phase'[c] = "attached"
    /\ since'[c] = header /\ replay'[c] = replay[c] /\ pending'[c] = pending[c]
    /\ dropped'[c] = FALSE
    /\ lost'[c] = (header # None /\ ~current[c])
    /\ IF header = None
       THEN /\ lastId'[c] = None /\ view'[c] = NothingKnown
            /\ current'[c] = TRUE /\ skipped'[c] = FALSE
       ELSE /\ lastId'[c] = lastId[c] /\ view'[c] = view[c]
            /\ current'[c] = current[c] /\ skipped'[c] = skipped[c]
    /\ \/ booted'[c] = FALSE /\ Silent /\ queue'[c] = <<>>
       \/ /\ booted'[c] = TRUE
          /\ \E e \in Event : Published(e) /\ e.kind = "bootstrap" /\ queue'[c] = <<e>>

\* c goes unnoticed: its place in the stream stays as it is.
GoesQuietly(c) ==
    /\ Silent /\ queue'[c] = queue[c] /\ dropped'[c] = dropped[c]
    /\ phase[c] # "off" /\ phase'[c] \in {"ghost", "abandoned"}
    /\ since'[c] = since[c] /\ replay'[c] = replay[c] /\ pending'[c] = pending[c]
    /\ lastId'[c] = lastId[c] /\ view'[c] = view[c]
    /\ current'[c] = current[c] /\ lost'[c] = lost[c]
    /\ booted'[c] = booted[c] /\ skipped'[c] = skipped[c]

\* The subscription nobody uses is forgotten.
Forgotten(c) ==
    /\ phase[c] = "off" /\ phase'[c] = "off"
    /\ nextId' = 0 /\ buffer' = <<>> /\ shown' = NothingKnown
    /\ shownAt' = [o \in Orders |-> None]
    /\ current'[c] = FALSE
    /\ queue'[c] = queue[c] /\ replay'[c] = replay[c] /\ pending'[c] = pending[c]
    /\ skipped'[c] = skipped[c] /\ lost'[c] = lost[c] /\ booted'[c] = booted[c]

\* c's own steps.
Reads(c) == StartReplay(c) \/ FetchReplay(c) \/ FetchLive(c) \/ Deliver(c) \/ Detach(c)

StepOf(c) ==
    \/ Rests(c)
    \/ \E e \in Event : IsSent(c, e)
    \/ \E header \in {None, lastId[c]} : Joins(c, header)
    \/ Reads(c)
    \/ GoesQuietly(c)
    \/ Forgotten(c)

\* publish, seen from the stream.
LEMMA PublishIsPublished ==
    ASSUME TypeOK, NEW kind \in {"order", "bootstrap"}, NEW state \in View,
           NEW qs \in [Clients -> Seq(Event)], NEW cs \in SUBSET Clients,
           Publish(kind, state, qs, cs)
    PROVE  \E e \in Event :
             /\ Published(e)
             /\ e.kind = kind /\ e.state = state
             /\ \A c \in cs : queue'[c] = PushBounded(qs[c], e, QueueMax)
             /\ \A c \in Clients \ cs : queue'[c] = qs[c]
<1>. DEFINE e == [id |-> nextId, kind |-> kind, state |-> state]
<1>1. e \in Event
  BY DEF Event, TypeOK
<1>2. Published(e) /\ e.kind = kind /\ e.state = state
  BY <1>1 DEF Publish, Published
<1>3. queue' = [c \in Clients |->
                  IF c \in cs THEN PushBounded(qs[c], e, QueueMax) ELSE qs[c]]
  BY DEF Publish
<1>4. /\ \A c \in cs : queue'[c] = PushBounded(qs[c], e, QueueMax)
      /\ \A c \in Clients \ cs : queue'[c] = qs[c]
  <2>. HIDE DEF e
  <2>. QED BY <1>3
<1>5. WITNESS e \in Event
<1>. QED BY <1>2, <1>4

\* A published event on an empty queue is the queue.
LEMMA PushOnEmpty ==
    ASSUME NEW e, NEW max \in Nat \ {0}
    PROVE  PushBounded(<<>>, e, max) = <<e>>
BY DEF PushBounded

\* A report is an event for every client, or nothing for any.
LEMMA ReportIsSent ==
    ASSUME TypeOK, NEW o \in Orders, NEW s \in States, BrokerEvent(o, s)
    PROVE  \/ Silent /\ \A d \in Clients : Rests(d)
           \/ \E e \in Event : Published(e) /\ \A d \in Clients : IsSent(d, e)
<1>. USE DEF subVars, clientVars
<1>1. \A d \in Clients : KeepsPlace(d)
  BY DEF BrokerEvent, KeepsPlace
<1>2. CASE Silent /\ UNCHANGED <<queue, dropped>>
  BY <1>1, <1>2 DEF Rests
<1>3. CASE /\ Publish("order", [NothingKnown EXCEPT ![o] = s], queue, Attached)
           /\ dropped' = [c \in Clients |-> dropped[c] \/ c \in Overflowing]
  <2>1. /\ [NothingKnown EXCEPT ![o] = s] \in View
        /\ queue \in [Clients -> Seq(Event)] /\ Attached \in SUBSET Clients
    BY NothingKnownType DEF View, TypeOK, Attached
  <2>. DEFINE frame == [NothingKnown EXCEPT ![o] = s]
  <2>2. PICK e \in Event :
          /\ Published(e)
          /\ \A c \in Attached : queue'[c] = PushBounded(queue[c], e, QueueMax)
          /\ \A c \in Clients \ Attached : queue'[c] = queue[c]
    <3>1. frame \in View /\ Publish("order", frame, queue, Attached)
      BY <1>3, <2>1
    <3>. HIDE DEF frame
    <3>2. queue \in [Clients -> Seq(Event)] /\ Attached \in SUBSET Clients
      BY <2>1
    <3>3. \E e \in Event :
            /\ Published(e)
            /\ e.kind = "order" /\ e.state = frame
            /\ \A c \in Attached : queue'[c] = PushBounded(queue[c], e, QueueMax)
            /\ \A c \in Clients \ Attached : queue'[c] = queue[c]
      BY <3>1, <3>2, PublishIsPublished
    <3>. QED BY <3>3
  <2>3. ASSUME NEW d \in Clients PROVE IsSent(d, e)
    <3>1. dropped'[d] = (dropped[d] \/ d \in Overflowing) /\ dropped[d] \in BOOLEAN
      BY <1>3 DEF TypeOK
    <3>. QED BY <1>1, <2>2, <3>1 DEF IsSent, Attached, Overflowing
  <2>. QED BY <2>2, <2>3
<1>. QED BY <1>2, <1>3 DEF BrokerEvent, PublishOrder, Silent

\* A subscribe lets its client join; an event that it feeds in is one for all others.
LEMMA SubscribeIsSent ==
    ASSUME TypeOK, NEW c \in Clients, NEW header \in {None, lastId[c]}, Subscribe(c, header)
    PROVE  /\ Joins(c, header)
           /\ \/ Silent /\ \A d \in Clients \ {c} : Rests(d)
              \/ \E e \in Event : Published(e) /\ \A d \in Clients \ {c} : IsSent(d, e)
<1>. USE DEF subVars, clientVars
<1>. DEFINE qs == [queue EXCEPT ![c] = <<>>]
<1>1. /\ qs \in [Clients -> Seq(Event)] /\ Attached \cup {c} \in SUBSET Clients
      /\ qs[c] = <<>> /\ (\A d \in Clients \ {c} : qs[d] = queue[d])
      /\ phase[c] = "off"
  BY DEF Subscribe, TypeOK, Attached
<1>2. \A d \in Clients \ {c} : KeepsPlace(d)
  BY DEF Subscribe, KeepsPlace, TypeOK
<1>3. /\ phase'[c] = "attached" /\ since'[c] = header
      /\ replay'[c] = replay[c] /\ pending'[c] = pending[c]
      /\ lost'[c] = (header # None /\ ~current[c])
      /\ IF header = None
         THEN /\ lastId'[c] = None /\ view'[c] = NothingKnown
              /\ current'[c] = TRUE /\ skipped'[c] = FALSE
         ELSE /\ lastId'[c] = lastId[c] /\ view'[c] = view[c]
              /\ current'[c] = current[c] /\ skipped'[c] = skipped[c]
  BY DEF Subscribe, TypeOK
<1>. HIDE DEF qs
<1>4. CASE OpenTrades # NothingKnown
  <2>1. /\ Publish("bootstrap", OpenTrades, qs, Attached \cup {c})
        /\ \A d \in Clients : dropped'[d] = (d # c /\ (dropped[d] \/ d \in Overflowing))
    BY <1>4 DEF Subscribe, qs
  <2>2. PICK e \in Event :
          /\ Published(e) /\ e.kind = "bootstrap"
          /\ \A b \in Attached \cup {c} : queue'[b] = PushBounded(qs[b], e, QueueMax)
          /\ \A b \in Clients \ (Attached \cup {c}) : queue'[b] = qs[b]
    <3>1. qs \in [Clients -> Seq(Event)] /\ Attached \cup {c} \in SUBSET Clients
      BY <1>1
    <3>. QED BY <2>1, <3>1, OpenTradesType, PublishIsPublished
  <2>3. ASSUME NEW d \in Clients \ {c} PROVE IsSent(d, e)
    <3>1. IF phase[d] # "off"
          THEN /\ queue'[d] = PushBounded(queue[d], e, QueueMax)
               /\ dropped'[d] = (dropped[d] \/ Len(queue[d]) >= QueueMax)
          ELSE queue'[d] = queue[d] /\ dropped'[d] = dropped[d]
      <4>1. dropped[d] \in BOOLEAN
        BY DEF TypeOK
      <4>. QED BY <1>1, <2>1, <2>2, <4>1 DEF Attached, Overflowing
    <3>. QED BY <1>2, <2>2, <3>1 DEF IsSent
  <2>4. queue'[c] = <<e>>
    BY <1>1, <2>2, PushOnEmpty, SizesAssumption
  <2>5. dropped'[c] = FALSE
    BY <2>1
  <2>6. booted'[c] = TRUE
    BY <1>4 DEF Subscribe, TypeOK
  <2>7. Joins(c, header)
    BY <1>1, <1>3, <2>2, <2>4, <2>5, <2>6 DEF Joins
  <2>. QED BY <2>2, <2>3, <2>7
<1>5. CASE OpenTrades = NothingKnown
  <2>1. Silent /\ queue' = qs /\ dropped' = [dropped EXCEPT ![c] = FALSE]
    BY <1>5 DEF Subscribe, Silent, qs
  <2>2. \A d \in Clients \ {c} : Rests(d)
    BY <1>1, <1>2, <2>1 DEF Rests, TypeOK
  <2>3. dropped'[c] = FALSE /\ booted'[c] = FALSE
    BY <1>5, <2>1 DEF Subscribe, TypeOK
  <2>4. Joins(c, header)
    BY <1>1, <1>3, <2>1, <2>3 DEF Joins
  <2>. QED BY <2>1, <2>2, <2>4
<1>. QED BY <1>4, <1>5

\* A client's own step is none for any other.
LEMMA OthersRest ==
    ASSUME TypeOK, NEW c \in Clients, Reads(c) \/ Abandon(c) \/ Vanish(c),
           NEW d \in Clients \ {c}
    PROVE  Rests(d)
<1>. USE DEF subVars, connVars, clientVars, histVars
<1>1. CASE Reads(c)
  BY <1>1 DEF Reads, StartReplay, FetchReplay, FetchLive, Deliver, Detach,
              Rests, Silent, KeepsPlace, TypeOK
<1>2. CASE Abandon(c) \/ Vanish(c)
  BY <1>2 DEF Abandon, Vanish, Rests, Silent, KeepsPlace, TypeOK
<1>. QED BY <1>1, <1>2

\* Every step is one of these for every client.
LEMMA EveryStep ==
    ASSUME TypeOK, [Next]_vars, NEW d \in Clients
    PROVE  StepOf(d)
<1>. USE DEF subVars, connVars, clientVars, histVars
<1>1. ASSUME NEW o \in Orders, NEW s \in States, BrokerEvent(o, s)
      PROVE  StepOf(d)
  BY <1>1, ReportIsSent DEF StepOf
<1>2. ASSUME NEW c \in Clients, NEW header \in {None, lastId[c]}, Subscribe(c, header)
      PROVE  StepOf(d)
  <2>1. CASE d = c
    BY <1>2, <2>1, SubscribeIsSent DEF StepOf
  <2>2. CASE d # c
    BY <1>2, <2>2, SubscribeIsSent DEF StepOf
  <2>. QED BY <2>1, <2>2
<1>3. ASSUME NEW c \in Clients, Reads(c)
      PROVE  StepOf(d)
  <2>1. CASE d = c
    BY <1>3, <2>1 DEF StepOf
  <2>2. CASE d # c
    BY <1>3, <2>2, OthersRest DEF StepOf
  <2>. QED BY <2>1, <2>2
<1>4. ASSUME NEW c \in Clients, Abandon(c) \/ Vanish(c)
      PROVE  StepOf(d)
  <2>1. CASE d = c
    <3>1. GoesQuietly(d)
      BY <1>4, <2>1 DEF Abandon, Vanish, GoesQuietly, Silent, TypeOK
    <3>. QED BY <3>1 DEF StepOf
  <2>2. CASE d # c
    BY <1>4, <2>2, OthersRest DEF StepOf
  <2>. QED BY <2>1, <2>2
<1>5. CASE CoolDownExpires
  <2>1. CASE Attached = {} /\ registered
    <3>1. phase[d] = "off"
      BY <2>1 DEF Attached
    <3>2. Forgotten(d)
      BY <1>5, <2>1, <3>1 DEF CoolDownExpires, Forgotten
    <3>. QED BY <3>2 DEF StepOf
  <2>2. CASE ~(Attached = {} /\ registered)
    <3>1. Rests(d)
      BY <1>5, <2>2 DEF CoolDownExpires, Rests, Silent, KeepsPlace
    <3>. QED BY <3>1 DEF StepOf
  <2>. QED BY <2>1, <2>2
<1>6. CASE Shutdown \/ UNCHANGED vars
  <2>1. Rests(d)
    BY <1>6 DEF Shutdown, vars, Rests, Silent, KeepsPlace
  <2>. QED BY <2>1 DEF StepOf
<1>7. ASSUME NEW o \in Orders, NEW s \in LocalStates, LocalChange(o, s)
      PROVE  StepOf(d)
  <2>1. Rests(d)
    BY <1>7 DEF LocalChange, Rests, Silent, KeepsPlace
  <2>. QED BY <2>1 DEF StepOf
<1>. QED BY <1>1, <1>2, <1>3, <1>4, <1>5, <1>6, <1>7
         DEF Next, Reads, Disconnect, SendFails

-----------------------------------------------------------------------------
(* The Last-Event-ID contract.                                             *)

\* A slot without a connection holds no events, one that has not begun to read has
\* none taken; since is where the client was when it subscribed; what is left of
\* the snapshot is a run; only a resume from another subscription's id is not current.
Place(c) ==
    /\ phase[c] = "off" => queue[c] = <<>>
    /\ phase[c] \in {"off", "attached"} => replay[c] = <<>> /\ pending[c] = <<>>
    /\ phase[c] = "attached" => since[c] = lastId[c]
    /\ phase[c] # "off" /\ ~lost[c] => current[c]
    /\ \A i \in DOMAIN replay[c] : replay[c][i].id = replay[c][1].id + i - 1

PlaceInv == \A c \in Clients : Place(c)

\* The rest of a run of ids is a run.
LEMMA RestOfRun ==
    ASSUME NEW q \in Seq(Event), NEW i \in 1..Len(q),
           \A j \in DOMAIN q : q[j].id = q[1].id + j - 1
    PROVE  LET t == SubSeq(q, i + 1, Len(q)) IN
           /\ t \in Seq(Event)
           /\ Len(t) = Len(q) - i
           /\ \A j \in 1..Len(t) : t[j] = q[i + j]
           /\ \A j \in DOMAIN t : t[j].id = t[1].id + j - 1
<1>. DEFINE t == SubSeq(q, i + 1, Len(q))
<1>1. i + 1 \in Nat \ {0} /\ Len(q) \in Nat /\ i \in Nat
  OBVIOUS
<1>2. /\ t \in Seq(Event)
      /\ Len(t) = IF i + 1 <= Len(q) THEN Len(q) - (i + 1) + 1 ELSE 0
      /\ \A j \in 1..(Len(q) - (i + 1) + 1) : t[j] = q[(i + 1) + j - 1]
  BY <1>1, SubSeqFacts
<1>. HIDE DEF t
<1>3. Len(t) = Len(q) - i
  BY <1>1, <1>2
<1>4. ASSUME NEW j \in 1..Len(t) PROVE t[j] = q[i + j]
  <2>1. j \in 1..(Len(q) - (i + 1) + 1) /\ (i + 1) + j - 1 = i + j
    BY <1>1, <1>3
  <2>. QED BY <1>2, <2>1
<1>5. ASSUME NEW j \in DOMAIN t PROVE t[j].id = t[1].id + j - 1
  <2>1. j \in 1..Len(t) /\ 1 \in 1..Len(t)
    BY <1>2
  <2>2. i + j \in DOMAIN q /\ i + 1 \in DOMAIN q
    BY <1>1, <1>3, <2>1
  <2>3. t[j] = q[i + j] /\ t[1] = q[i + 1]
    BY <1>4, <2>1
  <2>4. q[i + j].id = q[1].id + (i + j) - 1 /\ q[i + 1].id = q[1].id + (i + 1) - 1
    BY <2>2
  <2>5. 1 \in DOMAIN q
    BY <1>1
  <2>6. PICK n \in Nat : n = q[1].id
    <3>1. q[1] \in Event
      BY <2>5
    <3>2. q[1].id \in Nat
      BY <3>1 DEF Event
    <3>. QED BY <3>2
  <2>7. t[j].id = n + (i + j) - 1 /\ t[1].id = n + (i + 1) - 1
    BY <2>3, <2>4, <2>6
  <2>8. j \in Nat
    BY <2>1
  <2>. QED BY <1>1, <2>7, <2>8
<1>. QED BY <1>2, <1>3, <1>4, <1>5 DEF t

\* What fetching from the snapshot leaves and takes.
LEMMA FetchReplayFacts ==
    ASSUME TypeOK, NEW c \in Clients, Place(c), FetchReplay(c)
    PROVE  \E i \in 1..Len(replay[c]) :
             /\ replay[c][i].id > since[c]
             /\ \A j \in 1..(i - 1) : replay[c][j].id <= since[c]
             /\ pending[c] = <<>> /\ pending'[c] = <<replay[c][i]>>
             /\ replay'[c] \in Seq(Event)
             /\ Len(replay'[c]) = Len(replay[c]) - i
             /\ \A j \in 1..Len(replay'[c]) : replay'[c][j] = replay[c][i + j]
             /\ \A j \in DOMAIN replay'[c] : replay'[c][j].id = replay'[c][1].id + j - 1
<1>1. PICK i \in NextReplay(c) :
         /\ pending' = [pending EXCEPT ![c] = <<replay[c][i]>>]
         /\ replay' = [replay EXCEPT ![c] = SubSeq(replay[c], i + 1, Len(replay[c]))]
  BY DEF FetchReplay
<1>2. /\ i \in 1..Len(replay[c]) /\ replay[c] \in Seq(Event)
      /\ replay[c][i].id > since[c]
      /\ \A j \in 1..(i - 1) : replay[c][j].id <= since[c]
  BY <1>1 DEF NextReplay, TypeOK
<1>3. /\ pending[c] = <<>> /\ pending'[c] = <<replay[c][i]>>
      /\ replay'[c] = SubSeq(replay[c], i + 1, Len(replay[c]))
  BY <1>1 DEF FetchReplay, TypeOK
<1>4. \A j \in DOMAIN replay[c] : replay[c][j].id = replay[c][1].id + j - 1
  BY DEF Place
<1>5. /\ replay'[c] \in Seq(Event)
      /\ Len(replay'[c]) = Len(replay[c]) - i
      /\ \A j \in 1..Len(replay'[c]) : replay'[c][j] = replay[c][i + j]
      /\ \A j \in DOMAIN replay'[c] : replay'[c][j].id = replay'[c][1].id + j - 1
  <2>1. PICK q \in Seq(Event) : q = replay[c]
    BY <1>2
  <2>2. PICK t : t = SubSeq(q, i + 1, Len(q))
    OBVIOUS
  <2>3. i \in 1..Len(q) /\ \A j \in DOMAIN q : q[j].id = q[1].id + j - 1
    BY <1>2, <1>4, <2>1
  <2>4. /\ t \in Seq(Event)
        /\ Len(t) = Len(q) - i
        /\ \A j \in 1..Len(t) : t[j] = q[i + j]
        /\ \A j \in DOMAIN t : t[j].id = t[1].id + j - 1
    BY <2>2, <2>3, RestOfRun
  <2>. QED BY <1>3, <2>1, <2>2, <2>4
<1>. QED BY <1>2, <1>3, <1>5

\* Each client's own record of its place in the stream is always in order.
LEMMA PlaceKept == Spec => []PlaceInv
<1>1. Init => PlaceInv
  BY DEF Init, PlaceInv, Place
<1>2. TypeOK /\ UnbrokenRuns /\ PlaceInv /\ [Next]_vars => PlaceInv'
  <2>. SUFFICES ASSUME TypeOK, UnbrokenRuns, PlaceInv, [Next]_vars, NEW c \in Clients
                PROVE  Place(c)'
    BY DEF PlaceInv
  <2>0. Place(c) /\ StepOf(c)
    BY EveryStep DEF PlaceInv
  <2>1. CASE Rests(c) \/ \E e \in Event : IsSent(c, e)
    BY <2>0, <2>1 DEF Rests, IsSent, KeepsPlace, Place
  <2>2. ASSUME NEW header \in {None, lastId[c]}, Joins(c, header)
        PROVE  Place(c)'
    BY <2>0, <2>2 DEF Joins, Place
  <2>3. CASE StartReplay(c)
    <3>1. /\ phase[c] = "attached" /\ phase'[c] = "open"
          /\ replay'[c] = buffer /\ current'[c] = current[c]
          /\ lost[c] => lost'[c]
      BY <2>3 DEF StartReplay, Snapshot, TypeOK
    <3>2. ASSUME NEW i \in DOMAIN buffer PROVE buffer[i].id = buffer[1].id + i - 1
      <4>1. 1 \in DOMAIN buffer /\ i \in Nat /\ Len(buffer) \in Nat /\ nextId \in Nat
        BY DEF TypeOK
      <4>2. buffer[i].id = nextId - Len(buffer) + i - 1
            /\ buffer[1].id = nextId - Len(buffer) + 1 - 1
        BY <4>1 DEF UnbrokenRuns, EndsAt
      <4>. QED BY <4>1, <4>2
    <3>. QED BY <2>0, <3>1, <3>2 DEF Place
  <2>4. CASE FetchReplay(c)
    <3>1. phase'[c] = phase[c] /\ phase[c] \in {"open", "ghost"}
          /\ lost'[c] = lost[c] /\ current'[c] = current[c]
      BY <2>4 DEF FetchReplay, histVars
    <3>2. \A j \in DOMAIN replay'[c] : replay'[c][j].id = replay'[c][1].id + j - 1
      BY <2>0, <2>4, FetchReplayFacts
    <3>. QED BY <2>0, <3>1, <3>2 DEF Place
  <2>5. CASE FetchLive(c)
    BY <2>0, <2>5 DEF FetchLive, Place, histVars, TypeOK
  <2>6. CASE Deliver(c)
    BY <2>0, <2>6 DEF Deliver, Place, TypeOK
  <2>7. CASE Detach(c)
    BY <2>7 DEF Detach, Place, TypeOK
  <2>8. CASE GoesQuietly(c)
    BY <2>0, <2>8 DEF GoesQuietly, Place
  <2>9. CASE Forgotten(c)
    BY <2>0, <2>9 DEF Forgotten, Place
  <2>. QED BY <2>0, <2>1, <2>2, <2>3, <2>4, <2>5, <2>6, <2>7, <2>8, <2>9
           DEF StepOf, Reads
<1>. QED BY <1>1, <1>2, TypeCorrect, RunsUnbroken, PTL DEF Spec

\* Where an id still is: taken but not sent, in the snapshot, in the queue.
InHand(c, id)   == \E i \in DOMAIN pending[c] : pending[c][i].id = id
InReplay(c, id) == \E i \in DOMAIN replay[c] : replay[c][i].id = id /\ id > since[c]
InQueue(c, id)  == \E i \in DOMAIN queue[c] : queue[c][i].id = id

\* All ids after n are still to be taken.
Awaits(c, n) == \A id \in (n + 1)..(nextId - 1) : InReplay(c, id) \/ InQueue(c, id)

\* Nothing is missing behind the event just taken, nor behind the last one seen.
GapFree(c) ==
    phase[c] = "open" /\ ~dropped[c] =>
        /\ pending[c] # <<>> => Awaits(c, pending[c][1].id)
        /\ ~lost[c] => \A id \in (lastId[c] + 1)..(nextId - 1) :
                          InHand(c, id) \/ InReplay(c, id) \/ InQueue(c, id)

GapFreeInv == \A c \in Clients : GapFree(c)

\* A push onto a queue with room keeps what is there and puts the event behind.
LEMMA PushKeeps ==
    ASSUME NEW q \in Seq(Event), NEW e \in Event, NEW max \in Nat \ {0}, Len(q) < max
    PROVE  LET p == PushBounded(q, e, max) IN
           /\ p \in Seq(Event) /\ Len(p) = Len(q) + 1
           /\ \A i \in DOMAIN q : i \in DOMAIN p /\ p[i] = q[i]
           /\ Len(q) + 1 \in DOMAIN p /\ p[Len(q) + 1] = e
BY DEF PushBounded

\* With no next event in it, the snapshot holds nothing the client still needs.
LEMMA NothingToReplay ==
    ASSUME TypeOK, NEW c \in Clients, Place(c), NextReplay(c) = {}
    PROVE  \A i \in DOMAIN replay[c] : replay[c][i].id <= since[c]
<1>. SUFFICES ASSUME NEW i \in DOMAIN replay[c], replay[c][i].id > since[c]
              PROVE  FALSE
  <2>1. \A i \in DOMAIN replay[c] : replay[c][i] \in Event
    BY DEF TypeOK
  <2>2. \A i \in DOMAIN replay[c] : replay[c][i].id \in Nat
    BY <2>1 DEF Event
  <2>3. since[c] \in Int
    BY DEF TypeOK, None
  <2>. QED BY <2>2, <2>3
<1>1. PICK q \in Seq(Event) : q = replay[c]
  BY DEF TypeOK
<1>2. PICK n \in Nat : n = Len(q)
  OBVIOUS
<1>3. i \in 1..n /\ DOMAIN q = 1..n /\ 1 \in DOMAIN q
  BY <1>1, <1>2
<1>4. PICK a \in Nat : a = q[1].id
  <2>1. q[1] \in Event
    BY <1>3
  <2>. QED BY <2>1 DEF Event
<1>5. PICK s \in Int : s = since[c]
  <2>1. since[c] \in Nat \cup {None}
    BY DEF TypeOK
  <2>. QED BY <2>1 DEF None
<1>6. \A j \in 1..n : q[j].id = a + j - 1
  BY <1>1, <1>3, <1>4 DEF Place
<1>7. a + i - 1 > s
  BY <1>1, <1>3, <1>5, <1>6
<1>8. PICK k \in 1..n : a + k - 1 > s /\ \A j \in 1..(k - 1) : a + j - 1 <= s
  <2>1. CASE a > s
    <3>1. 1 \in 1..n /\ a + 1 - 1 > s /\ \A j \in 1..(1 - 1) : a + j - 1 <= s
      BY <1>3, <2>1
    <3>. QED BY <3>1
  <2>2. CASE a <= s
    <3>1. PICK k \in Int : k = s - a + 2
      OBVIOUS
    <3>2. k \in 1..n /\ a + k - 1 > s /\ \A j \in 1..(k - 1) : a + j - 1 <= s
      BY <1>3, <1>7, <2>2, <3>1
    <3>. QED BY <3>2
  <2>. QED BY <2>1, <2>2
<1>9. q[k].id > s /\ \A j \in 1..(k - 1) : q[j].id <= s
  <2>1. \A j \in 1..(k - 1) : j \in 1..n
    BY <1>8
  <2>2. k \in 1..n
    BY <1>8
  <2>. QED BY <1>6, <1>8, <2>1, <2>2
<1>10. k \in NextReplay(c)
  BY <1>1, <1>3, <1>5, <1>9 DEF NextReplay
<1>. QED BY <1>10

\* Sending an event to an attached client whose queue does not overflow takes
\* nothing away and makes its id available.
LEMMA SendingKeepsIds ==
    ASSUME TypeOK, NEW c \in Clients, NEW e \in Event, IsSent(c, e),
           phase[c] # "off", ~dropped'[c]
    PROVE  /\ ~dropped[c] /\ nextId' = nextId + 1
           /\ \A id : InHand(c, id) => InHand(c, id)'
           /\ \A id : InReplay(c, id) => InReplay(c, id)'
           /\ \A id : InQueue(c, id) => InQueue(c, id)'
           /\ \A id : id = nextId => InQueue(c, id)'
<1>1. /\ queue'[c] = PushBounded(queue[c], e, QueueMax)
      /\ ~dropped[c] /\ ~(Len(queue[c]) >= QueueMax)
      /\ e.id = nextId /\ nextId' = nextId + 1
      /\ pending'[c] = pending[c] /\ replay'[c] = replay[c] /\ since'[c] = since[c]
  BY DEF IsSent, KeepsPlace, Published
<1>2. queue[c] \in Seq(Event) /\ Len(queue[c]) < QueueMax
  BY <1>1, SizesAssumption DEF TypeOK
<1>3. /\ \A i \in DOMAIN queue[c] : i \in DOMAIN queue'[c] /\ queue'[c][i] = queue[c][i]
      /\ Len(queue[c]) + 1 \in DOMAIN queue'[c] /\ queue'[c][Len(queue[c]) + 1] = e
  BY <1>1, <1>2, PushKeeps, SizesAssumption
<1>4. \A id : InQueue(c, id) => InQueue(c, id)'
  BY <1>3 DEF InQueue
<1>5. \E i \in DOMAIN queue'[c] : queue'[c][i].id = nextId
  BY <1>1, <1>3
<1>. QED BY <1>1, <1>4, <1>5 DEF InHand, InReplay, InQueue

\* Every id behind n is in a run of ids that reaches n + 1 and ends at the newest.
LEMMA RunHolds ==
    ASSUME NEW q \in Seq(Event), NEW m \in Nat, EndsAt(q, m), NEW id \in Nat,
           m - Len(q) <= id, id <= m - 1
    PROVE  \E i \in DOMAIN q : q[i].id = id
<1>1. PICK n \in Nat : n = Len(q)
  OBVIOUS
<1>2. PICK i \in Int : i = id - (m - n) + 1
  OBVIOUS
<1>3. i \in DOMAIN q
  BY <1>1, <1>2
<1>4. q[i].id = m - n + i - 1
  BY <1>1, <1>3 DEF EndsAt
<1>5. q[i].id = id
  BY <1>2, <1>4
<1>. QED BY <1>3, <1>5

\* The replay keeps all ids: the one it takes is in hand, the rest stays.
LEMMA ReplayingKeepsIds ==
    ASSUME TypeOK, NEW c \in Clients, Place(c), FetchReplay(c), NEW id,
           InReplay(c, id)
    PROVE  InHand(c, id)' \/ InReplay(c, id)'
<1>1. PICK i \in 1..Len(replay[c]) :
             /\ \A j \in 1..(i - 1) : replay[c][j].id <= since[c]
             /\ pending'[c] = <<replay[c][i]>>
             /\ replay'[c] \in Seq(Event)
             /\ Len(replay'[c]) = Len(replay[c]) - i
             /\ \A j \in 1..Len(replay'[c]) : replay'[c][j] = replay[c][i + j]
  BY FetchReplayFacts
<1>2. PICK k \in DOMAIN replay[c] : replay[c][k].id = id /\ id > since[c]
  BY DEF InReplay
<1>3. since'[c] = since[c]
  BY DEF FetchReplay
<1>4. PICK n \in Nat : n = Len(replay[c])
  BY DEF TypeOK
<1>5. k \in 1..n /\ i \in 1..n
  BY <1>1, <1>2, <1>4 DEF TypeOK
<1>6. CASE k < i
  <2>1. k \in 1..(i - 1)
    BY <1>5, <1>6
  <2>2. replay[c][k].id <= since[c] /\ replay[c][k].id > since[c]
    BY <1>1, <1>2, <2>1
  <2>3. replay[c][k] \in Event /\ since[c] \in Nat \cup {None}
    BY <1>2 DEF TypeOK
  <2>4. replay[c][k].id \in Int /\ since[c] \in Int
    BY <2>3 DEF Event, None
  <2>. QED BY <2>2, <2>4
<1>7. CASE k = i
  <2>1. 1 \in DOMAIN pending'[c] /\ pending'[c][1].id = id
    BY <1>1, <1>2, <1>7
  <2>. QED BY <2>1 DEF InHand
<1>8. CASE k > i
  <2>1. PICK j \in 1..(n - i) : k = i + j
    <3>1. k - i \in 1..(n - i) /\ k = i + (k - i)
      BY <1>5, <1>8
    <3>. QED BY <3>1
  <2>2. j \in DOMAIN replay'[c] /\ j \in 1..Len(replay'[c])
    BY <1>1, <1>4, <2>1
  <2>3. replay'[c][j].id = id
    BY <1>1, <1>2, <2>1, <2>2
  <2>. QED BY <1>2, <1>3, <2>2, <2>3 DEF InReplay
<1>. QED BY <1>5, <1>6, <1>7, <1>8

\* What follows the event that the replay just took is in the rest of the snapshot
\* or, since the two join, in the queue.
LEMMA ReplayedIsFollowed ==
    ASSUME TypeOK, UnbrokenRuns, ReplayMeetsQueue, NEW c \in Clients, Place(c),
           FetchReplay(c), ~dropped[c]
    PROVE  Awaits(c, pending[c][1].id)'
<1>1. PICK i \in 1..Len(replay[c]) :
             /\ replay[c][i].id > since[c]
             /\ pending'[c] = <<replay[c][i]>>
             /\ replay'[c] \in Seq(Event)
             /\ Len(replay'[c]) = Len(replay[c]) - i
             /\ \A j \in 1..Len(replay'[c]) : replay'[c][j] = replay[c][i + j]
  BY FetchReplayFacts
<1>2. /\ nextId' = nextId /\ queue' = queue /\ since' = since
      /\ phase[c] \in {"open", "ghost"}
  BY DEF FetchReplay, subVars
<1>3. PICK q \in Seq(Event) : q = replay[c]
  BY DEF TypeOK
<1>4. PICK n \in Nat : n = Len(q)
  OBVIOUS
<1>5. PICK a \in Nat : a = q[1].id
  <2>1. q[1] \in Event
    BY <1>1, <1>3
  <2>. QED BY <2>1 DEF Event
<1>6. \A j \in 1..n : q[j].id = a + j - 1
  BY <1>3, <1>4, <1>5 DEF Place
<1>7. PICK m \in Nat : m = nextId
  BY DEF TypeOK
<1>8. PICK l \in Nat : l = Len(queue[c])
  BY DEF TypeOK
<1>9. PICK s \in Int : s = since[c]
  <2>1. since[c] \in Nat \cup {None}
    BY DEF TypeOK
  <2>. QED BY <2>1 DEF None
<1>10. i \in 1..n /\ a + i - 1 > s /\ n \in 1..n
  BY <1>1, <1>3, <1>4, <1>6, <1>9
<1>11. a + n >= m - l
  <2>1. q # <<>>
    BY <1>4, <1>10
  <2>2. q[n].id + 1 >= m - l
    BY <1>2, <1>3, <1>4, <1>7, <1>8, <2>1 DEF ReplayMeetsQueue
  <2>. QED BY <1>6, <1>10, <2>2
<1>12. SUFFICES ASSUME NEW id \in (a + i)..(m - 1)
                PROVE  InReplay(c, id)' \/ InQueue(c, id)'
  <2>1. pending'[c][1].id = a + i - 1
    BY <1>1, <1>3, <1>6, <1>10
  <2>2. (a + i - 1) + 1 = a + i
    OBVIOUS
  <2>. QED BY <1>2, <1>7, <2>1, <2>2 DEF Awaits
<1>13. CASE id <= a + n - 1
  <2>1. PICK j \in 1..(n - i) : id = a + (i + j) - 1
    <3>1. PICK j \in Int : j = id - a - i + 1
      OBVIOUS
    <3>. QED BY <1>10, <1>13, <3>1
  <2>2. j \in 1..Len(replay'[c]) /\ i + j \in 1..n
    BY <1>1, <1>3, <1>4, <1>10, <2>1
  <2>3. replay'[c][j].id = id
    <3>1. replay'[c][j] = q[i + j]
      BY <1>1, <1>3, <2>2
    <3>. QED BY <1>6, <2>1, <2>2, <3>1
  <2>4. id > since'[c]
    BY <1>2, <1>9, <1>10, <2>1
  <2>5. j \in DOMAIN replay'[c]
    BY <1>1, <2>2
  <2>. QED BY <2>3, <2>4, <2>5 DEF InReplay
<1>14. CASE id > a + n - 1
  <2>1. queue[c] \in Seq(Event) /\ EndsAt(queue[c], m)
    BY <1>2, <1>7 DEF TypeOK, UnbrokenRuns, Attached
  <2>2. id \in Nat /\ m - Len(queue[c]) <= id /\ id <= m - 1
    <3>1. id \in Int /\ i \in Nat /\ a + i <= id /\ id <= m - 1
      BY <1>10, <1>12
    <3>2. id \in Nat /\ m - l <= id
      BY <1>11, <1>14, <3>1
    <3>. QED BY <1>8, <3>1, <3>2
  <2>3. \E k \in DOMAIN queue[c] : queue[c][k].id = id
    BY <2>1, <2>2, RunHolds, SMTT(30)
  <2>. QED BY <1>2, <2>3 DEF InQueue
<1>. QED BY <1>10, <1>13, <1>14

\* Taking the head of the queue: what it held is in hand or still in the queue, and
\* what follows the event taken is in the queue.
LEMMA TakingFromQueue ==
    ASSUME TypeOK, UnbrokenRuns, NEW c \in Clients, Place(c), FetchLive(c)
    PROVE  /\ \A id : InReplay(c, id) => FALSE
           /\ \A id : InQueue(c, id) => InHand(c, id)' \/ InQueue(c, id)'
           /\ Awaits(c, pending[c][1].id)'
           /\ pending'[c] = <<queue[c][1]>>
<1>1. PICK q \in Seq(Event) : q = queue[c]
  BY DEF TypeOK
<1>2. /\ q # <<>> /\ pending'[c] = <<Head(q)>> /\ queue'[c] = Tail(q)
      /\ NextReplay(c) = {} /\ nextId' = nextId /\ c \in Attached
  BY <1>1 DEF FetchLive, subVars, Attached, TypeOK
<1>3. PICK n \in Nat : n = Len(q) /\ n > 0
  BY <1>2
<1>4. /\ Tail(q) \in Seq(Event) /\ Len(Tail(q)) = n - 1
      /\ \A i \in 1..(n - 1) : Tail(q)[i] = q[i + 1]
      /\ Head(q) = q[1]
  BY <1>2, <1>3
<1>5. ASSUME NEW id, InReplay(c, id) PROVE FALSE
  <2>1. PICK i \in DOMAIN replay[c] : replay[c][i].id = id /\ id > since[c]
    BY <1>5 DEF InReplay
  <2>2. replay[c][i].id <= since[c]
    BY <1>2, NothingToReplay
  <2>3. replay[c][i] \in Event /\ since[c] \in Nat \cup {None}
    BY DEF TypeOK
  <2>4. replay[c][i].id \in Int /\ since[c] \in Int
    BY <2>3 DEF Event, None
  <2>. QED BY <2>1, <2>2, <2>4
<1>6. ASSUME NEW id, InQueue(c, id) PROVE InHand(c, id)' \/ InQueue(c, id)'
  <2>1. PICK i \in 1..n : q[i].id = id
    BY <1>1, <1>3, <1>6 DEF InQueue
  <2>2. CASE i = 1
    <3>1. 1 \in DOMAIN pending'[c] /\ pending'[c][1].id = id
      BY <1>2, <1>4, <2>1, <2>2
    <3>. QED BY <3>1 DEF InHand
  <2>3. CASE i > 1
    <3>1. PICK j \in 1..(n - 1) : i = j + 1
      <4>1. i - 1 \in 1..(n - 1) /\ i = (i - 1) + 1
        BY <2>1, <2>3
      <4>. QED BY <4>1
    <3>2. j \in DOMAIN queue'[c] /\ queue'[c][j].id = id
      BY <1>2, <1>4, <2>1, <3>1
    <3>. QED BY <3>2 DEF InQueue
  <2>. QED BY <2>1, <2>2, <2>3
<1>7. PICK m \in Nat : m = nextId
  BY DEF TypeOK
<1>8. EndsAt(q, m)
  BY <1>1, <1>2, <1>7 DEF UnbrokenRuns
<1>9. EndsAt(Tail(q), m)
  BY <1>2, <1>8, TailRun
<1>10. q[1].id = m - n
  <2>1. 1 \in DOMAIN q
    BY <1>3
  <2>2. q[1].id = m - n + 1 - 1
    BY <1>3, <1>8, <2>1 DEF EndsAt
  <2>. QED BY <2>2
<1>11. m - n \in Nat
  <2>1. q[1] \in Event
    BY <1>3
  <2>2. q[1].id \in Nat
    BY <2>1 DEF Event
  <2>. QED BY <1>10, <2>2
<1>12. ASSUME NEW id \in (m - n + 1)..(m - 1) PROVE InQueue(c, id)'
  <2>1. id \in Nat /\ m - Len(Tail(q)) <= id /\ id <= m - 1
    BY <1>4, <1>11, <1>12
  <2>2. \E i \in DOMAIN Tail(q) : Tail(q)[i].id = id
    BY <1>4, <1>9, <2>1, RunHolds
  <2>. QED BY <1>2, <2>2 DEF InQueue
<1>13. pending'[c][1].id = m - n
  BY <1>2, <1>4, <1>10
<1>14. Awaits(c, pending[c][1].id)'
  BY <1>2, <1>7, <1>12, <1>13 DEF Awaits
<1>15. pending'[c] = <<queue[c][1]>>
  BY <1>1, <1>2, <1>4
<1>. QED BY <1>5, <1>6, <1>14, <1>15

\* A resuming client misses no event, whatever is published, and by whom the stream is
\* used, while it reconnects, replays and reads, for any clients and sizes.
THEOREM ResumeIsGapFree == Spec => []NoSilentGap
<1>1. Init => GapFreeInv
  BY DEF Init, GapFreeInv, GapFree
<1>2. TypeOK /\ UnbrokenRuns /\ ReplayMeetsQueue /\ PlaceInv /\ GapFreeInv /\ [Next]_vars
        => GapFreeInv'
  <2>. SUFFICES ASSUME TypeOK, UnbrokenRuns, ReplayMeetsQueue, PlaceInv, GapFreeInv,
                       [Next]_vars, NEW c \in Clients
                PROVE  GapFree(c)'
    BY DEF GapFreeInv
  <2>0. Place(c) /\ GapFree(c) /\ StepOf(c)
    BY EveryStep DEF PlaceInv, GapFreeInv
  <2>1. CASE Rests(c)
    BY <2>0, <2>1 DEF Rests, Silent, KeepsPlace, GapFree, Awaits, InHand, InReplay, InQueue
  <2>2. ASSUME NEW e \in Event, IsSent(c, e)
        PROVE  GapFree(c)'
    <3>. SUFFICES ASSUME phase'[c] = "open", ~dropped'[c]
                  PROVE  /\ pending'[c] # <<>> => Awaits(c, pending[c][1].id)'
                         /\ ~lost'[c] => \A id \in (lastId'[c] + 1)..(nextId' - 1) :
                              InHand(c, id)' \/ InReplay(c, id)' \/ InQueue(c, id)'
      BY DEF GapFree
    <3>1. /\ phase[c] = "open" /\ pending'[c] = pending[c]
          /\ lost'[c] = lost[c] /\ lastId'[c] = lastId[c]
      BY <2>2 DEF IsSent, KeepsPlace
    <3>2. /\ ~dropped[c] /\ nextId' = nextId + 1
          /\ \A id : InHand(c, id) => InHand(c, id)'
          /\ \A id : InReplay(c, id) => InReplay(c, id)'
          /\ \A id : InQueue(c, id) => InQueue(c, id)'
          /\ \A id : id = nextId => InQueue(c, id)'
      BY <2>2, <3>1, SendingKeepsIds
    <3>3. PICK m \in Nat : m = nextId
      BY DEF TypeOK
    <3>4. ASSUME NEW n \in Int, Awaits(c, n), NEW id \in (n + 1)..(nextId' - 1)
          PROVE  InReplay(c, id)' \/ InQueue(c, id)'
      <4>1. id = m \/ id \in (n + 1)..(m - 1)
        BY <3>2, <3>3, <3>4
      <4>. QED BY <3>2, <3>3, <3>4, <4>1 DEF Awaits
    <3>5. ASSUME pending[c] # <<>> PROVE Awaits(c, pending[c][1].id)'
      <4>1. pending[c][1] \in Event
        BY <3>5 DEF TypeOK
      <4>2. PICK n \in Int : n = pending[c][1].id
        BY <4>1 DEF Event
      <4>3. Awaits(c, n)
        BY <2>0, <3>1, <3>2, <3>5, <4>2 DEF GapFree
      <4>. QED BY <3>1, <3>4, <4>2, <4>3 DEF Awaits
    <3>6. ASSUME ~lost[c], NEW id \in (lastId[c] + 1)..(nextId' - 1)
          PROVE  InHand(c, id)' \/ InReplay(c, id)' \/ InQueue(c, id)'
      <4>1. lastId[c] \in Nat \cup {None}
        BY DEF TypeOK
      <4>2. id = m \/ id \in (lastId[c] + 1)..(m - 1)
        BY <3>2, <3>3, <3>6, <4>1 DEF None
      <4>3. CASE id = m
        BY <3>2, <3>3, <4>3
      <4>4. CASE id \in (lastId[c] + 1)..(m - 1)
        BY <2>0, <3>1, <3>2, <3>3, <3>6, <4>4 DEF GapFree
      <4>. QED BY <4>2, <4>3, <4>4
    <3>. QED BY <3>1, <3>5, <3>6
  <2>3. ASSUME phase'[c] # "open"
        PROVE  GapFree(c)'
    BY <2>3 DEF GapFree
  <2>4. CASE StartReplay(c)
    <3>1. /\ phase[c] = "attached" /\ replay'[c] = buffer
          /\ pending'[c] = pending[c] /\ since'[c] = since[c] /\ lastId'[c] = lastId[c]
          /\ nextId' = nextId
          /\ lost'[c] = (lost[c] \/ nextId - Len(buffer) > since[c] + 1)
      BY <2>4 DEF StartReplay, Snapshot, subVars, clientVars, TypeOK
    <3>2. pending'[c] = <<>> /\ since[c] = lastId[c]
      BY <2>0, <3>1 DEF Place
    <3>3. ASSUME ~lost'[c], NEW id \in (lastId[c] + 1)..(nextId - 1)
          PROVE  InReplay(c, id)'
      <4>1. PICK s \in Int : s = since[c] /\ s >= -1
        <5>1. since[c] \in Nat \cup {None}
          BY DEF TypeOK
        <5>. QED BY <5>1 DEF None
      <4>2. PICK m \in Nat : m = nextId
        BY DEF TypeOK
      <4>3. buffer \in Seq(Event) /\ EndsAt(buffer, m)
        BY <4>2 DEF TypeOK, UnbrokenRuns
      <4>4. ~(m - Len(buffer) > s + 1)
        BY <3>1, <3>3, <4>1, <4>2
      <4>5. id \in (s + 1)..(m - 1)
        BY <3>2, <3>3, <4>1, <4>2
      <4>6. id \in Nat /\ m - Len(buffer) <= id /\ id <= m - 1
        BY <4>1, <4>3, <4>4, <4>5
      <4>7. \E i \in DOMAIN buffer : buffer[i].id = id
        BY <4>3, <4>6, RunHolds
      <4>8. id > since'[c]
        BY <3>1, <4>1, <4>5
      <4>. QED BY <3>1, <4>7, <4>8 DEF InReplay
    <3>. QED BY <3>1, <3>2, <3>3 DEF GapFree
  <2>5. CASE FetchReplay(c)
    <3>1. /\ UNCHANGED <<nextId, queue, lastId, phase, dropped, lost>> /\ pending[c] = <<>>
      BY <2>5 DEF FetchReplay, subVars, clientVars, histVars
    <3>2. \A id : InQueue(c, id) => InQueue(c, id)'
      BY <3>1 DEF InQueue
    <3>3. \A id : InReplay(c, id) => InHand(c, id)' \/ InReplay(c, id)'
      BY <2>0, <2>5, ReplayingKeepsIds
    <3>4. ASSUME ~dropped[c] PROVE Awaits(c, pending[c][1].id)'
      BY <2>0, <2>5, <3>4, ReplayedIsFollowed
    <3>5. \A id : ~InHand(c, id)
      BY <3>1 DEF InHand
    <3>. QED BY <2>0, <3>1, <3>2, <3>3, <3>4, <3>5 DEF GapFree
  <2>6. CASE FetchLive(c)
    <3>1. /\ UNCHANGED <<nextId, lastId, phase, dropped, lost>> /\ pending[c] = <<>>
      BY <2>6 DEF FetchLive, subVars, clientVars, histVars
    <3>2. /\ \A id : InReplay(c, id) => FALSE
          /\ \A id : InQueue(c, id) => InHand(c, id)' \/ InQueue(c, id)'
          /\ Awaits(c, pending[c][1].id)'
      BY <2>0, <2>6, TakingFromQueue
    <3>3. \A id : ~InHand(c, id)
      BY <3>1 DEF InHand
    <3>. QED BY <2>0, <3>1, <3>2, <3>3 DEF GapFree
  <2>7. CASE Deliver(c)
    <3>1. /\ UNCHANGED <<nextId, queue, replay, since, phase, dropped, lost>>
          /\ pending[c] # <<>> /\ pending'[c] = <<>> /\ lastId'[c] = pending[c][1].id
          /\ phase[c] = "open"
      BY <2>7 DEF Deliver, subVars, clientVars, histVars, TypeOK
    <3>2. ASSUME ~dropped[c] PROVE Awaits(c, lastId[c])'
      BY <2>0, <3>1, <3>2 DEF GapFree, Awaits, InReplay, InQueue
    <3>. QED BY <3>1, <3>2 DEF GapFree, Awaits
  <2>8. CASE Detach(c) \/ GoesQuietly(c) \/ Forgotten(c)
    BY <2>3, <2>8 DEF Detach, GoesQuietly, Forgotten, TypeOK
  <2>9. ASSUME NEW header \in {None, lastId[c]}, Joins(c, header)
        PROVE  GapFree(c)'
    BY <2>3, <2>9 DEF Joins
  <2>. QED BY <2>0, <2>1, <2>2, <2>4, <2>5, <2>6, <2>7, <2>8, <2>9 DEF StepOf, Reads
<1>3. GapFreeInv => NoSilentGap
  BY DEF GapFreeInv, GapFree, NoSilentGap, OutstandingIds, Ids, RestIds, InHand, InReplay,
     InQueue
<1>. QED BY <1>1, <1>2, <1>3, TypeCorrect, RunsUnbroken, ReplayJoinsLive, PlaceKept, PTL
         DEF Spec

-----------------------------------------------------------------------------
(* Pictures: what a client that saw some of the events makes of them.      *)

\* An event is true of the stream: it is no newer than the newest event that tells
\* of an order it tells of, and if it is that one, it says what is shown.
TrueEvent(e) ==
    /\ e.id < nextId
    /\ \A o \in Orders : Tells(e, o) => e.id <= shownAt[o]
    /\ \A o \in Orders : shownAt[o] = e.id => Tells(e, o) /\ e.state[o] = shown[o]

TrueEvents(q) == \A i \in DOMAIN q : TrueEvent(q[i])

\* The stream's own record is in order.
TrueStream ==
    /\ \A o \in Orders : shownAt[o] < nextId /\ (shownAt[o] = None => shown[o] = Absent)
    /\ TrueEvents(buffer)

\* What c is still to see is true, and a picture that lacks no event up to lastId is
\* right about every order of which nothing was told after lastId.
TrueClient(c) ==
    /\ TrueEvents(queue[c]) /\ TrueEvents(replay[c]) /\ TrueEvents(pending[c])
    /\ current[c] /\ ~skipped[c] =>
         /\ lastId[c] < nextId
         /\ \A o \in Orders : shownAt[o] <= lastId[c] => view[c][o] = shown[o]

TruthInv == TrueStream /\ \A c \in Clients : TrueClient(c)

\* The elements of a bounded queue after a push.
LEMMA PushElements ==
    ASSUME NEW q \in Seq(Event), NEW e \in Event, NEW max \in Nat \ {0}
    PROVE  \A i \in DOMAIN PushBounded(q, e, max) :
             \/ PushBounded(q, e, max)[i] = e
             \/ \E j \in DOMAIN q : PushBounded(q, e, max)[i] = q[j]
<1>1. CASE Len(q) < max
  BY <1>1 DEF PushBounded
<1>2. CASE ~(Len(q) < max)
  <2>1. Len(q) > 0 /\ PushBounded(q, e, max) = Append(Tail(q), e)
    BY <1>2 DEF PushBounded
  <2>2. /\ Tail(q) \in Seq(Event) /\ Len(Tail(q)) = Len(q) - 1
        /\ \A i \in 1..Len(Tail(q)) : Tail(q)[i] = q[i + 1]
    BY <2>1
  <2>. DEFINE t == Tail(q)
  <2>3. ASSUME NEW i \in DOMAIN Append(t, e)
        PROVE  Append(t, e)[i] = e \/ \E j \in DOMAIN q : Append(t, e)[i] = q[j]
    <3>1. i \in 1..(Len(t) + 1)
      BY <2>2
    <3>2. CASE i = Len(t) + 1
      BY <2>2, <3>2
    <3>3. CASE i # Len(t) + 1
      <4>1. i \in 1..Len(t) /\ i + 1 \in DOMAIN q
        BY <2>2, <3>1, <3>3
      <4>2. t[i] = q[i + 1]
        BY <2>2, <4>1
      <4>3. Append(t, e)[i] = t[i]
        <5>. HIDE DEF t
        <5>. QED BY <2>2, <4>1
      <4>. QED BY <4>1, <4>2, <4>3
    <3>. QED BY <3>2, <3>3
  <2>. QED BY <2>1, <2>3
<1>. QED BY <1>1, <1>2

\* A new event is true of the stream.
LEMMA NewEventIsTrue ==
    ASSUME TypeOK, TrueStream, NEW e \in Event, Published(e)
    PROVE  TrueEvent(e)'
<1>1. PICK m \in Nat : m = nextId
  BY DEF TypeOK
<1>2. /\ e.id = m /\ nextId' = m + 1
      /\ \A o \in Orders : shownAt'[o] = IF Tells(e, o) THEN m ELSE shownAt[o]
      /\ \A o \in Orders : shown'[o] = IF Tells(e, o) THEN e.state[o] ELSE shown[o]
  BY <1>1 DEF Published, Seen
<1>3. \A o \in Orders : shownAt[o] < m /\ shownAt[o] \in Nat \cup {None}
  BY <1>1 DEF TrueStream, TypeOK
<1>4. e.id < nextId'
  BY <1>2
<1>5. ASSUME NEW o \in Orders
      PROVE  /\ Tells(e, o) => e.id <= shownAt'[o]
             /\ shownAt'[o] = e.id => Tells(e, o) /\ e.state[o] = shown'[o]
  BY <1>2, <1>3 DEF None
<1>. QED BY <1>4, <1>5 DEF TrueEvent

\* A true event stays one when another is published.
LEMMA TrueEventStays ==
    ASSUME TypeOK, TrueStream, NEW e \in Event, Published(e), NEW f \in Event, TrueEvent(f)
    PROVE  TrueEvent(f)'
<1>1. PICK m \in Nat : m = nextId
  BY DEF TypeOK
<1>2. PICK n \in Nat : n = f.id
  BY DEF Event
<1>3. /\ e.id = m /\ nextId' = m + 1
      /\ \A o \in Orders : shownAt'[o] = IF Tells(e, o) THEN m ELSE shownAt[o]
      /\ \A o \in Orders : shown'[o] = IF Tells(e, o) THEN e.state[o] ELSE shown[o]
  BY <1>1 DEF Published, Seen
<1>4. n < m
  BY <1>1, <1>2 DEF TrueEvent
<1>5. f.id < nextId'
  BY <1>2, <1>3, <1>4
<1>6. ASSUME NEW o \in Orders
      PROVE  /\ Tells(f, o) => f.id <= shownAt'[o]
             /\ shownAt'[o] = f.id => Tells(f, o) /\ f.state[o] = shown'[o]
  <2>1. CASE Tells(e, o)
    <3>1. shownAt'[o] = m
      BY <1>3, <2>1
    <3>. QED BY <1>2, <1>4, <3>1
  <2>2. CASE ~Tells(e, o)
    <3>1. shownAt'[o] = shownAt[o] /\ shown'[o] = shown[o]
      BY <1>3, <2>2
    <3>. QED BY <3>1 DEF TrueEvent
  <2>. QED BY <2>1, <2>2
<1>. QED BY <1>5, <1>6 DEF TrueEvent

\* The events of a bounded queue stay true, and the one pushed is.
LEMMA PushedAreTrue ==
    ASSUME TypeOK, TrueStream, NEW e \in Event, Published(e),
           NEW q \in Seq(Event), TrueEvents(q), NEW max \in Nat \ {0}
    PROVE  TrueEvents(PushBounded(q, e, max))'
<1>. SUFFICES ASSUME NEW i \in DOMAIN PushBounded(q, e, max)
              PROVE  TrueEvent(PushBounded(q, e, max)[i])'
  BY DEF TrueEvents
<1>1. CASE PushBounded(q, e, max)[i] = e
  BY <1>1, NewEventIsTrue
<1>2. CASE \E j \in DOMAIN q : PushBounded(q, e, max)[i] = q[j]
  <2>1. PICK j \in DOMAIN q : PushBounded(q, e, max)[i] = q[j]
    BY <1>2
  <2>2. q[j] \in Event /\ TrueEvent(q[j])
    BY DEF TrueEvents
  <2>3. TrueEvent(q[j])'
    BY <2>2, TrueEventStays
  <2>. QED BY <2>1, <2>3
<1>. QED BY <1>1, <1>2, PushElements

\* ... and so do those of a queue that does not change.
LEMMA UnsentStayTrue ==
    ASSUME TypeOK, TrueStream, NEW e \in Event, Published(e),
           NEW q \in Seq(Event), TrueEvents(q)
    PROVE  TrueEvents(q)'
<1>. SUFFICES ASSUME NEW i \in DOMAIN q PROVE TrueEvent(q[i])'
  BY DEF TrueEvents
<1>1. q[i] \in Event /\ TrueEvent(q[i])
  BY DEF TrueEvents
<1>. QED BY <1>1, TrueEventStays

\* A publish keeps the stream's record in order.
LEMMA PublishKeepsTruth ==
    ASSUME TypeOK, TrueStream, NEW e \in Event, Published(e)
    PROVE  TrueStream'
<1>1. PICK m \in Nat : m = nextId
  BY DEF TypeOK
<1>2. /\ e.id = m /\ nextId' = m + 1
      /\ \A o \in Orders : shownAt'[o] = IF Tells(e, o) THEN m ELSE shownAt[o]
      /\ \A o \in Orders : shown'[o] = IF Tells(e, o) THEN e.state[o] ELSE shown[o]
  BY <1>1 DEF Published, Seen
<1>3. \A o \in Orders : /\ shownAt[o] < m /\ shownAt[o] \in Nat \cup {None}
                        /\ shownAt[o] = None => shown[o] = Absent
  BY <1>1 DEF TrueStream, TypeOK
<1>4. \A o \in Orders : shownAt'[o] < nextId' /\ (shownAt'[o] = None => shown'[o] = Absent)
  BY <1>2, <1>3 DEF None
<1>5. PICK q \in Seq(Event) : q = buffer
  BY DEF TypeOK
<1>6. TrueEvents(PushBounded(q, e, BufferSize))'
  BY <1>5, PushedAreTrue, SizesAssumption DEF TrueStream
<1>7. buffer' = PushBounded(q, e, BufferSize)
  BY <1>5 DEF Published
<1>. QED BY <1>4, <1>6, <1>7 DEF TrueStream

\* A picture stays right about the orders nothing new is told of.
LEMMA PictureStaysTrue ==
    ASSUME TypeOK, TrueStream, NEW e \in Event, Published(e), NEW n \in Nat \cup {None},
           NEW v, n < nextId, \A o \in Orders : shownAt[o] <= n => v[o] = shown[o]
    PROVE  n < nextId' /\ \A o \in Orders : shownAt'[o] <= n => v[o] = shown'[o]
<1>1. PICK m \in Nat : m = nextId
  BY DEF TypeOK
<1>2. /\ nextId' = m + 1
      /\ \A o \in Orders : shownAt'[o] = IF Tells(e, o) THEN m ELSE shownAt[o]
      /\ \A o \in Orders : shown'[o] = IF Tells(e, o) THEN e.state[o] ELSE shown[o]
  BY <1>1 DEF Published, Seen
<1>3. n \in Int /\ n < m
  BY <1>1 DEF None
<1>4. ASSUME NEW o \in Orders, shownAt'[o] <= n PROVE v[o] = shown'[o]
  <2>1. ~Tells(e, o)
    BY <1>2, <1>3, <1>4
  <2>. QED BY <1>2, <1>4, <2>1
<1>. QED BY <1>2, <1>3, <1>4

\* The subscription is forgotten and its record starts afresh.
Restarts ==
    /\ nextId' = 0 /\ buffer' = <<>> /\ shown' = NothingKnown
    /\ shownAt' = [o \in Orders |-> None]

\* What a step means for the stream.
LEMMA EveryStreamStep ==
    ASSUME TypeOK, [Next]_vars
    PROVE  Silent \/ (\E e \in Event : Published(e)) \/ Restarts
<1>. USE DEF subVars, connVars, clientVars, histVars
<1>1. ASSUME NEW c \in Clients, StepOf(c)
      PROVE  Silent \/ (\E e \in Event : Published(e)) \/ Restarts
  <2>1. CASE Reads(c)
    BY <2>1 DEF Reads, StartReplay, FetchReplay, FetchLive, Deliver, Detach, Silent
  <2>2. CASE Rests(c) \/ GoesQuietly(c)
    BY <2>2 DEF Rests, GoesQuietly
  <2>3. CASE Forgotten(c)
    BY <2>3 DEF Forgotten, Restarts
  <2>4. CASE \E e \in Event : IsSent(c, e)
    BY <2>4 DEF IsSent
  <2>5. CASE \E header \in {None, lastId[c]} : Joins(c, header)
    BY <2>5 DEF Joins
  <2>. QED BY <1>1, <2>1, <2>2, <2>3, <2>4, <2>5 DEF StepOf
<1>2. CASE Clients # {}
  BY <1>1, <1>2, EveryStep
<1>3. CASE Clients = {}
  <2>1. ASSUME NEW o \in Orders, NEW s \in States, BrokerEvent(o, s)
        PROVE  Silent \/ (\E e \in Event : Published(e))
    BY <2>1, ReportIsSent
  <2>2. ASSUME NEW o \in Orders, NEW s \in LocalStates, LocalChange(o, s)
        PROVE  Silent
    BY <2>2 DEF LocalChange, Silent
  <2>3. CASE CoolDownExpires
    BY <2>3 DEF CoolDownExpires, Restarts, Silent
  <2>4. CASE Shutdown \/ UNCHANGED vars
    BY <2>4 DEF Shutdown, vars, Silent
  <2>. QED BY <1>3, <2>1, <2>2, <2>3, <2>4 DEF Next
<1>. QED BY <1>2, <1>3

\* While nothing is published, what is true of the stream stays so.
LEMMA SilenceKeepsTruth ==
    ASSUME Silent
    PROVE  /\ \A e : TrueEvent(e) => TrueEvent(e)'
           /\ \A q : TrueEvents(q) => TrueEvents(q)'
           /\ TrueStream => TrueStream'
<1>1. nextId' = nextId /\ buffer' = buffer /\ shown' = shown /\ shownAt' = shownAt
  BY DEF Silent
<1>2. \A e : TrueEvent(e) => TrueEvent(e)'
  BY <1>1 DEF TrueEvent
<1>3. \A q : TrueEvents(q) => TrueEvents(q)'
  BY <1>2 DEF TrueEvents
<1>4. TrueStream => TrueStream'
  <2>1. TrueEvents(buffer) => TrueEvents(buffer)'
    BY <1>1 DEF TrueEvents, TrueEvent
  <2>. QED BY <1>1, <2>1 DEF TrueStream
<1>. QED BY <1>2, <1>3, <1>4

\* The record of the stream is always in order.
LEMMA StreamTruth == Spec => []TrueStream
<1>1. Init => TrueStream
  BY DEF Init, TrueStream, TrueEvents, NothingKnown, None
<1>2. TypeOK /\ TrueStream /\ [Next]_vars => TrueStream'
  <2>. SUFFICES ASSUME TypeOK, TrueStream, [Next]_vars PROVE TrueStream'
    OBVIOUS
  <2>1. CASE Silent
    BY <2>1, SilenceKeepsTruth
  <2>2. CASE \E e \in Event : Published(e)
    BY <2>2, PublishKeepsTruth
  <2>3. CASE Restarts
    <3>1. nextId' = 0 /\ buffer' = <<>>
          /\ \A o \in Orders : shown'[o] = Absent /\ shownAt'[o] = -1
      BY <2>3 DEF Restarts, NothingKnown, None
    <3>. QED BY <3>1 DEF TrueStream, TrueEvents
  <2>. QED BY <2>1, <2>2, <2>3, EveryStreamStep
<1>. QED BY <1>1, <1>2, TypeCorrect, PTL DEF Spec

\* A picture that lacked no event up to n, or no longer does after a bootstrap,
\* lacks none up to the event it is shown next.
LEMMA SeenPicture ==
    ASSUME TypeOK, NEW e \in Event, TrueEvent(e), NEW n \in Nat \cup {None}, NEW v \in View,
           \/ e.kind = "bootstrap"
           \/ e.id <= n + 1 /\ \A o \in Orders : shownAt[o] <= n => v[o] = shown[o]
    PROVE  /\ e.id < nextId
           /\ \A o \in Orders : shownAt[o] <= e.id => Seen(v, e)[o] = shown[o]
<1>1. PICK k \in Nat : k = e.id
  BY DEF Event
<1>2. \A o \in Orders : shownAt[o] \in Int
  <2>1. \A o \in Orders : shownAt[o] \in Nat \cup {None}
    BY DEF TypeOK
  <2>. QED BY <2>1 DEF None
<1>3. n \in Int
  BY DEF None
<1>4. ASSUME NEW o \in Orders, shownAt[o] <= k PROVE Seen(v, e)[o] = shown[o]
  <2>1. CASE Tells(e, o)
    <3>1. k <= shownAt[o]
      BY <1>1, <2>1 DEF TrueEvent
    <3>2. shownAt[o] = e.id
      BY <1>1, <1>2, <1>4, <3>1
    <3>. QED BY <2>1, <3>2 DEF TrueEvent, Seen
  <2>2. CASE ~Tells(e, o)
    <3>1. e.kind # "bootstrap"
      BY <2>2 DEF Tells
    <3>2. shownAt[o] # k
      BY <1>1, <2>2 DEF TrueEvent
    <3>3. shownAt[o] <= n
      BY <1>1, <1>2, <1>3, <1>4, <3>1, <3>2
    <3>4. v[o] = shown[o]
      BY <3>1, <3>3
    <3>. QED BY <2>2, <3>4 DEF Seen
  <2>. QED BY <2>1, <2>2
<1>. QED BY <1>1, <1>4 DEF TrueEvent

\* Every event on its way is true, and a client that skipped none up to its last one
\* is right about every order of which nothing was told since.
LEMMA ClientTruth == Spec => []TruthInv
<1>. DEFINE Right(c) ==
        current[c] /\ ~skipped[c] =>
          /\ lastId[c] < nextId
          /\ \A o \in Orders : shownAt[o] <= lastId[c] => view[c][o] = shown[o]
<1>1. Init => TruthInv
  BY DEF Init, TruthInv, TrueStream, TrueClient, TrueEvents, NothingKnown, None
<1>2. TypeOK /\ PlaceInv /\ TrueStream' /\ TruthInv /\ [Next]_vars => TruthInv'
  <2>. SUFFICES ASSUME TypeOK, PlaceInv, TrueStream', TruthInv, [Next]_vars, NEW c \in Clients
                PROVE  TrueClient(c)'
    BY DEF TruthInv
  <2>0. TrueStream /\ TrueClient(c) /\ StepOf(c) /\ Place(c)
    BY EveryStep DEF TruthInv, PlaceInv
  <2>1. ASSUME Silent, \A i \in DOMAIN queue'[c] : TrueEvent(queue'[c][i]),
               \A i \in DOMAIN replay'[c] : TrueEvent(replay'[c][i]),
               \A i \in DOMAIN pending'[c] : TrueEvent(pending'[c][i]), Right(c)'
        PROVE  TrueClient(c)'
    BY <2>1, SilenceKeepsTruth DEF TrueClient, TrueEvents
  <2>2. ASSUME Silent, current'[c] = current[c], skipped'[c] = skipped[c],
               lastId'[c] = lastId[c], view'[c] = view[c]
        PROVE  Right(c)'
    BY <2>0, <2>2 DEF Silent, TrueClient
  <2>3. CASE Rests(c) \/ GoesQuietly(c)
    <3>1. /\ Silent /\ queue'[c] = queue[c] /\ replay'[c] = replay[c]
          /\ pending'[c] = pending[c]
          /\ current'[c] = current[c] /\ skipped'[c] = skipped[c]
          /\ lastId'[c] = lastId[c] /\ view'[c] = view[c]
      BY <2>3 DEF Rests, KeepsPlace, GoesQuietly
    <3>2. Right(c)'
      BY <3>1, <2>2
    <3>. QED BY <2>0, <2>1, <3>1, <3>2 DEF TrueClient, TrueEvents
  <2>4. ASSUME NEW e \in Event, IsSent(c, e)
        PROVE  TrueClient(c)'
    <3>1. /\ Published(e)
          /\ current'[c] = current[c] /\ skipped'[c] = skipped[c]
          /\ lastId'[c] = lastId[c] /\ view'[c] = view[c]
          /\ replay'[c] = replay[c] /\ pending'[c] = pending[c]
          /\ \/ queue'[c] = queue[c]
             \/ queue'[c] = PushBounded(queue[c], e, QueueMax)
      BY <2>4 DEF IsSent, KeepsPlace
    <3>2. PICK q \in Seq(Event) : q = queue[c]
      BY DEF TypeOK
    <3>3. TrueEvents(queue[c])'
      <4>1. TrueEvents(q)' /\ TrueEvents(PushBounded(q, e, QueueMax))'
        BY <2>0, <3>1, <3>2, PushedAreTrue, UnsentStayTrue, SizesAssumption DEF TrueClient
      <4>. QED BY <3>1, <3>2, <4>1 DEF TrueEvents
    <3>4. TrueEvents(replay[c])' /\ TrueEvents(pending[c])'
      <4>1. PICK r \in Seq(Event) : r = replay[c]
        BY DEF TypeOK
      <4>2. PICK p \in Seq(Event) : p = pending[c]
        BY DEF TypeOK
      <4>3. TrueEvents(r)' /\ TrueEvents(p)'
        BY <2>0, <3>1, <4>1, <4>2, UnsentStayTrue DEF TrueClient
      <4>. QED BY <3>1, <4>1, <4>2, <4>3 DEF TrueEvents
    <3>5. Right(c)'
      <4>. SUFFICES ASSUME current[c], ~skipped[c]
                    PROVE  /\ lastId'[c] < nextId'
                           /\ \A o \in Orders : shownAt'[o] <= lastId'[c] => view'[c][o] = shown'[o]
        BY <3>1
      <4>1. PICK n \in Nat \cup {None} : n = lastId[c]
        BY DEF TypeOK
      <4>2. PICK v : v = view[c]
        OBVIOUS
      <4>3. n < nextId /\ \A o \in Orders : shownAt[o] <= n => v[o] = shown[o]
        BY <2>0, <4>1, <4>2 DEF TrueClient
      <4>4. n < nextId' /\ \A o \in Orders : shownAt'[o] <= n => v[o] = shown'[o]
        BY <2>0, <3>1, <4>3, PictureStaysTrue
      <4>. QED BY <3>1, <4>1, <4>2, <4>4
    <3>. QED BY <3>3, <3>4, <3>5 DEF TrueClient
  <2>5. ASSUME NEW header \in {None, lastId[c]}, Joins(c, header)
        PROVE  TrueClient(c)'
    <3>1. replay'[c] = <<>> /\ pending'[c] = <<>>
      BY <2>0, <2>5 DEF Joins, Place
    <3>2. TrueEvents(replay[c])' /\ TrueEvents(pending[c])'
      BY <3>1 DEF TrueEvents
    <3>3. TrueEvents(queue[c])'
      <4>1. CASE queue'[c] = <<>>
        BY <4>1 DEF TrueEvents
      <4>2. ASSUME NEW e \in Event, Published(e), queue'[c] = <<e>>
            PROVE  TrueEvents(queue[c])'
        BY <2>0, <4>2, NewEventIsTrue DEF TrueEvents
      <4>. QED BY <2>5, <4>1, <4>2 DEF Joins
    <3>4. CASE header = None
      <4>1. lastId'[c] = None /\ view'[c] = NothingKnown
        BY <2>5, <3>4 DEF Joins
      <4>2. nextId' \in Nat /\ \A o \in Orders : shownAt'[o] \in Nat \cup {None}
        <5>1. CASE Silent
          BY <5>1 DEF Silent, TypeOK
        <5>2. ASSUME NEW e \in Event, Published(e)
              PROVE  nextId' \in Nat /\ \A o \in Orders : shownAt'[o] \in Nat \cup {None}
          BY <5>2 DEF Published, TypeOK
        <5>. QED BY <2>5, <5>1, <5>2 DEF Joins
      <4>3. lastId'[c] < nextId'
        BY <4>1, <4>2 DEF None
      <4>4. ASSUME NEW o \in Orders, shownAt'[o] <= lastId'[c] PROVE view'[c][o] = shown'[o]
        <5>1. shownAt'[o] = None
          BY <4>1, <4>2, <4>4 DEF None
        <5>2. shown'[o] = Absent
          BY <5>1 DEF TrueStream
        <5>. QED BY <4>1, <5>2 DEF NothingKnown
      <4>. QED BY <3>2, <3>3, <4>3, <4>4 DEF TrueClient
    <3>5. CASE header # None
      <4>1. /\ current'[c] = current[c] /\ skipped'[c] = skipped[c]
            /\ lastId'[c] = lastId[c] /\ view'[c] = view[c]
        BY <2>5, <3>5 DEF Joins
      <4>2. CASE Silent
        <5>1. Right(c)'
          BY <2>2, <4>1, <4>2
        <5>. QED BY <3>2, <3>3, <5>1 DEF TrueClient
      <4>3. ASSUME NEW e \in Event, Published(e), current[c], ~skipped[c]
            PROVE  /\ lastId'[c] < nextId'
                   /\ \A o \in Orders : shownAt'[o] <= lastId'[c] => view'[c][o] = shown'[o]
        <5>1. PICK n \in Nat \cup {None} : n = lastId[c]
          BY DEF TypeOK
        <5>2. PICK v : v = view[c]
          OBVIOUS
        <5>3. n < nextId /\ \A o \in Orders : shownAt[o] <= n => v[o] = shown[o]
          BY <2>0, <4>3, <5>1, <5>2 DEF TrueClient
        <5>4. n < nextId' /\ \A o \in Orders : shownAt'[o] <= n => v[o] = shown'[o]
          BY <2>0, <4>3, <5>3, PictureStaysTrue
        <5>. QED BY <4>1, <5>1, <5>2, <5>4
      <4>4. Right(c)' \/ Silent
        BY <2>5, <4>1, <4>3 DEF Joins
      <4>. QED BY <3>2, <3>3, <4>2, <4>4 DEF TrueClient
    <3>. QED BY <3>4, <3>5
  <2>6. CASE StartReplay(c)
    <3>1. /\ Silent /\ replay'[c] = buffer /\ queue' = queue /\ pending' = pending
          /\ current' = current /\ skipped' = skipped /\ lastId' = lastId /\ view' = view
      BY <2>6 DEF StartReplay, Snapshot, Silent, subVars, clientVars, TypeOK
    <3>2. Right(c)'
      BY <3>1, <2>2
    <3>. QED BY <2>0, <2>1, <3>1, <3>2 DEF TrueClient, TrueStream, TrueEvents
  <2>7. CASE FetchReplay(c)
    <3>1. /\ Silent /\ queue' = queue
          /\ current' = current /\ skipped' = skipped /\ lastId' = lastId /\ view' = view
      BY <2>7 DEF FetchReplay, Silent, subVars, clientVars, histVars
    <3>2. Right(c)'
      BY <3>1, <2>2
    <3>3. PICK i \in 1..Len(replay[c]) :
             /\ pending'[c] = <<replay[c][i]>>
             /\ replay'[c] \in Seq(Event)
             /\ Len(replay'[c]) = Len(replay[c]) - i
             /\ \A j \in 1..Len(replay'[c]) : replay'[c][j] = replay[c][i + j]
      BY <2>0, <2>7, FetchReplayFacts
    <3>4. replay[c] \in Seq(Event) /\ \A j \in 1..Len(replay[c]) : TrueEvent(replay[c][j])
      BY <2>0 DEF TypeOK, TrueClient, TrueEvents
    <3>5. \A j \in DOMAIN pending'[c] : TrueEvent(pending'[c][j])
      BY <3>3, <3>4
    <3>6. ASSUME NEW j \in DOMAIN replay'[c] PROVE TrueEvent(replay'[c][j])
      <4>1. j \in 1..Len(replay'[c]) /\ i + j \in 1..Len(replay[c])
        BY <3>3, <3>4
      <4>. QED BY <3>3, <3>4, <4>1
    <3>. QED BY <2>0, <2>1, <3>1, <3>2, <3>5, <3>6 DEF TrueClient, TrueEvents
  <2>8. CASE FetchLive(c)
    <3>1. /\ Silent /\ replay'[c] = <<>>
          /\ current' = current /\ skipped' = skipped /\ lastId' = lastId /\ view' = view
      BY <2>8 DEF FetchLive, Silent, subVars, clientVars, histVars, TypeOK
    <3>2. Right(c)'
      BY <3>1, <2>2
    <3>3. PICK q \in Seq(Event) : q = queue[c] /\ q # <<>>
      BY <2>8 DEF FetchLive, TypeOK
    <3>4. pending'[c] = <<Head(q)>> /\ queue'[c] = Tail(q)
      BY <2>8, <3>3 DEF FetchLive, TypeOK
    <3>5. \A i \in DOMAIN q : TrueEvent(q[i])
      BY <2>0, <3>3 DEF TrueClient, TrueEvents
    <3>6. Head(q) = q[1] /\ 1 \in DOMAIN q
          /\ \A i \in DOMAIN Tail(q) : i + 1 \in DOMAIN q /\ Tail(q)[i] = q[i + 1]
      BY <3>3
    <3>7. \A i \in DOMAIN queue'[c] : TrueEvent(queue'[c][i])
      BY <3>4, <3>5, <3>6
    <3>8. \A i \in DOMAIN pending'[c] : TrueEvent(pending'[c][i])
      BY <3>4, <3>5, <3>6
    <3>. QED BY <2>1, <3>1, <3>2, <3>7, <3>8
  <2>9. CASE Deliver(c)
    <3>1. /\ Silent /\ replay' = replay /\ queue' = queue /\ pending'[c] = <<>>
          /\ pending[c] # <<>>
          /\ lastId'[c] = pending[c][1].id /\ view'[c] = Seen(view[c], pending[c][1])
          /\ skipped'[c] = (/\ pending[c][1].kind # "bootstrap"
                            /\ skipped[c] \/ ~current[c] \/ pending[c][1].id > lastId[c] + 1)
      BY <2>9 DEF Deliver, Silent, subVars, TypeOK
    <3>2. PICK e \in Event : e = pending[c][1] /\ TrueEvent(e)
      BY <2>0, <3>1 DEF TypeOK, TrueClient, TrueEvents
    <3>3. Right(c)'
      <4>. SUFFICES ASSUME ~skipped'[c]
                    PROVE  /\ e.id < nextId
                           /\ \A o \in Orders : shownAt[o] <= e.id => Seen(view[c], e)[o] = shown[o]
        BY <3>1, <3>2 DEF Silent
      <4>1. PICK n \in Nat \cup {None} : n = lastId[c]
        BY DEF TypeOK
      <4>2. PICK v \in View : v = view[c]
        BY DEF TypeOK
      <4>3. \/ e.kind = "bootstrap"
            \/ e.id <= n + 1 /\ \A o \in Orders : shownAt[o] <= n => v[o] = shown[o]
        <5>1. e.id \in Nat /\ n \in Int
          BY DEF Event, None
        <5>2. e.kind = "bootstrap" \/ (~skipped[c] /\ current[c] /\ ~(e.id > n + 1))
          BY <3>1, <3>2, <4>1
        <5>. QED BY <2>0, <4>1, <4>2, <5>1, <5>2 DEF TrueClient
      <4>4. /\ e.id < nextId
            /\ \A o \in Orders : shownAt[o] <= e.id => Seen(v, e)[o] = shown[o]
        BY <3>2, <4>3, SeenPicture
      <4>. QED BY <4>2, <4>4
    <3>. QED BY <2>0, <2>1, <3>1, <3>3 DEF TrueClient, TrueEvents
  <2>10. CASE Detach(c)
    <3>1. /\ Silent /\ replay'[c] = <<>> /\ queue'[c] = <<>> /\ pending'[c] = <<>>
          /\ current' = current /\ skipped' = skipped /\ lastId' = lastId /\ view' = view
      BY <2>10 DEF Detach, Silent, clientVars, TypeOK
    <3>2. Right(c)'
      BY <3>1, <2>2
    <3>. QED BY <2>1, <3>1, <3>2
  <2>11. CASE Forgotten(c)
    <3>1. queue'[c] = <<>> /\ replay'[c] = <<>> /\ pending'[c] = <<>> /\ ~current'[c]
      BY <2>0, <2>11 DEF Forgotten, Place
    <3>. QED BY <3>1 DEF TrueClient, TrueEvents
  <2>. QED BY <2>0, <2>3, <2>4, <2>5, <2>6, <2>7, <2>8, <2>9, <2>10, <2>11
           DEF StepOf, Reads
<1>. QED BY <1>1, <1>2, TypeCorrect, PlaceKept, StreamTruth, PTL DEF Spec

-----------------------------------------------------------------------------
(* The dedup memory.                                                       *)

\* No order is remembered twice.
Distinct(q) == \A i, j \in DOMAIN q : q[i].order = q[j].order => i = j

\* The elements of a sequence without one of them.
LEMMA RemovalElements ==
    ASSUME NEW S, NEW q \in Seq(S), NEW i \in 1..Len(q), NEW k \in 1..(Len(q) - 1)
    PROVE  (SubSeq(q, 1, i - 1) \o SubSeq(q, i + 1, Len(q)))[k]
              = IF k < i THEN q[k] ELSE q[k + 1]
<1>. DEFINE l == SubSeq(q, 1, i - 1)
            r == SubSeq(q, i + 1, Len(q))
<1>1. PICK n \in Nat : n = Len(q)
  OBVIOUS
<1>2. i \in 1..n /\ k \in 1..(n - 1) /\ i - 1 \in Nat /\ i + 1 \in Nat \ {0}
  BY <1>1
<1>3. l \in Seq(S) /\ Len(l) = i - 1 /\ \A j \in 1..(i - 1) : l[j] = q[j]
  <2>1. /\ l \in Seq(S) /\ Len(l) = IF 1 <= i - 1 THEN (i - 1) - 1 + 1 ELSE 0
        /\ \A j \in 1..((i - 1) - 1 + 1) : l[j] = q[1 + j - 1]
    BY <1>1, <1>2, SubSeqFacts
  <2>. HIDE DEF l
  <2>2. Len(l) = i - 1
    BY <1>2, <2>1
  <2>3. ASSUME NEW j \in 1..(i - 1) PROVE l[j] = q[j]
    <3>1. j \in 1..((i - 1) - 1 + 1) /\ 1 + j - 1 = j
      BY <1>2
    <3>. QED BY <2>1, <3>1
  <2>. QED BY <2>1, <2>2, <2>3
<1>4. r \in Seq(S) /\ Len(r) = n - i /\ \A j \in 1..(n - i) : r[j] = q[i + j]
  <2>1. /\ r \in Seq(S) /\ Len(r) = IF i + 1 <= n THEN n - (i + 1) + 1 ELSE 0
        /\ \A j \in 1..(n - (i + 1) + 1) : r[j] = q[(i + 1) + j - 1]
    BY <1>1, <1>2, SubSeqFacts
  <2>. HIDE DEF r
  <2>2. Len(r) = n - i
    BY <1>2, <2>1
  <2>3. ASSUME NEW j \in 1..(n - i) PROVE r[j] = q[i + j]
    <3>1. j \in 1..(n - (i + 1) + 1) /\ (i + 1) + j - 1 = i + j
      BY <1>2
    <3>. QED BY <2>1, <3>1
  <2>. QED BY <2>1, <2>2, <2>3
<1>5. (l \o r)[k] = IF k < i THEN q[k] ELSE q[k + 1]
  <2>. HIDE DEF l, r
  <2>1. CASE k < i
    <3>1. k \in 1..Len(l)
      BY <1>2, <1>3, <2>1
    <3>2. (l \o r)[k] = l[k]
      BY <1>3, <1>4, <3>1
    <3>. QED BY <1>3, <2>1, <3>1, <3>2
  <2>2. CASE k >= i
    <3>1. PICK j \in 1..(n - i) : k = (i - 1) + j
      <4>1. k - i + 1 \in 1..(n - i) /\ k = (i - 1) + (k - i + 1)
        BY <1>2, <2>2
      <4>. QED BY <4>1
    <3>2. (l \o r)[k] = r[j]
      <4>1. k \in Len(l) + 1 .. Len(l) + Len(r) /\ k - Len(l) = j
        BY <1>2, <1>3, <1>4, <3>1
      <4>2. (l \o r)[k] = r[k - Len(l)]
        BY <1>3, <1>4, <4>1
      <4>. QED BY <4>1, <4>2
    <3>3. i + j = k + 1
      BY <1>2, <3>1
    <3>4. r[j] = q[k + 1]
      BY <1>4, <3>1, <3>3
    <3>5. ~(k < i)
      BY <1>2, <2>2
    <3>. QED BY <3>2, <3>4, <3>5
  <2>3. k < i \/ k >= i
    BY <1>2
  <2>. QED BY <2>1, <2>2, <2>3
<1>. QED BY <1>5

\* What the memory holds without o: the other entries, in their order.
LEMMA ForgetFacts ==
    ASSUME TypeOK, Distinct(dedup), NEW o \in Orders
    PROVE  /\ Forget(o) \in Seq([order : Orders, state : States])
           /\ Len(Forget(o)) <= Len(dedup)
           /\ (\E i \in DOMAIN dedup : dedup[i].order = o) => Len(Forget(o)) = Len(dedup) - 1
           /\ \A k \in DOMAIN Forget(o) : Forget(o)[k].order # o
           /\ \A k \in DOMAIN Forget(o) : \E j \in DOMAIN dedup : Forget(o)[k] = dedup[j]
           /\ \A j \in DOMAIN dedup : dedup[j].order # o
                => \E k \in DOMAIN Forget(o) : Forget(o)[k] = dedup[j]
           /\ Distinct(Forget(o))
<1>. DEFINE E == [order : Orders, state : States]
<1>1. PICK q \in Seq(E) : q = dedup
  BY DEF TypeOK
<1>2. CASE ~\E i \in DOMAIN dedup : dedup[i].order = o
  BY <1>1, <1>2 DEF Forget
<1>3. CASE \E i \in DOMAIN dedup : dedup[i].order = o
  <2>1. PICK i \in DOMAIN q : /\ Forget(o) = SubSeq(q, 1, i - 1) \o SubSeq(q, i + 1, Len(q))
                              /\ q[i].order = o
    BY <1>1, <1>3 DEF Forget
  <2>2. PICK n \in Nat : n = Len(q)
    OBVIOUS
  <2>3. PICK f : f = Forget(o)
    OBVIOUS
  <2>. HIDE DEF E
  <2>4. i \in 1..Len(q) /\ i \in 1..n /\ DOMAIN q = 1..n
    BY <2>1, <2>2
  <2>5. f \in Seq(E) /\ Len(f) = n - 1
    BY <2>1, <2>2, <2>3, <2>4, RemovalFacts
  <2>6. DOMAIN f = 1..(n - 1)
    BY <2>5
  <2>7. ASSUME NEW k \in 1..(n - 1) PROVE f[k] = IF k < i THEN q[k] ELSE q[k + 1]
    <3>1. k \in 1..(Len(q) - 1)
      BY <2>2
    <3>. QED BY <2>1, <2>3, <2>4, <3>1, RemovalElements
  <2>8. \A j, k \in 1..n : q[j].order = q[k].order => j = k
    BY <1>1, <2>4 DEF Distinct
  <2>9. ASSUME NEW k \in 1..(n - 1)
        PROVE  \E j \in 1..n : j # i /\ f[k] = q[j] /\ j = IF k < i THEN k ELSE k + 1
    BY <2>4, <2>7
  <2>10. \A k \in DOMAIN f : f[k].order # o
    <3>1. \A j \in 1..n : j # i => q[j].order # o
      BY <2>1, <2>4, <2>8
    <3>2. ASSUME NEW k \in DOMAIN f PROVE f[k].order # o
      <4>1. k \in 1..(n - 1)
        BY <2>6, <3>2
      <4>2. PICK j \in 1..n : j # i /\ f[k] = q[j]
        BY <2>9, <4>1, Zenon
      <4>. QED BY <3>1, <4>2
    <3>. QED BY <3>2
  <2>11. \A k \in DOMAIN f : \E j \in DOMAIN q : f[k] = q[j]
    BY <2>4, <2>6, <2>9
  <2>12. ASSUME NEW j \in 1..n, q[j].order # o
         PROVE  \E k \in 1..(n - 1) : f[k] = q[j]
    <3>1. j # i
      BY <2>1, <2>12
    <3>2. CASE j < i
      <4>1. j \in 1..(n - 1) /\ f[j] = q[j]
        BY <2>4, <2>7, <3>2
      <4>. QED BY <4>1
    <3>3. CASE j > i
      <4>1. PICK k \in 1..(n - 1) : j = k + 1 /\ ~(k < i)
        <5>1. j - 1 \in 1..(n - 1) /\ j = (j - 1) + 1 /\ ~(j - 1 < i)
          BY <2>4, <3>3
        <5>. QED BY <5>1
      <4>. QED BY <2>7, <4>1
    <3>. QED BY <2>4, <3>1, <3>2, <3>3
  <2>13. Distinct(f)
    <3>. SUFFICES ASSUME NEW k \in 1..(n - 1), NEW l \in 1..(n - 1), f[k].order = f[l].order
                  PROVE  k = l
      BY <2>6 DEF Distinct
    <3>1. PICK j \in 1..n : f[k] = q[j] /\ j = IF k < i THEN k ELSE k + 1
      BY <2>9
    <3>2. PICK m \in 1..n : f[l] = q[m] /\ m = IF l < i THEN l ELSE l + 1
      BY <2>9
    <3>3. j = m
      BY <2>8, <3>1, <3>2
    <3>. QED BY <2>4, <3>1, <3>2, <3>3
  <2>14. \A j \in DOMAIN q : q[j].order # o => \E k \in DOMAIN f : f[k] = q[j]
    BY <2>4, <2>6, <2>12
  <2>15. Len(f) <= Len(q) /\ Len(f) = Len(q) - 1
    BY <2>2, <2>5
  <2>. QED BY <1>1, <2>3, <2>5, <2>10, <2>11, <2>13, <2>14, <2>15 DEF E
<1>. QED BY <1>2, <1>3

\* What the memory holds with the frame (o, s) put in: the frame, other orders' entries
\* as they were, all of them unless the memory was full, and no order twice.
LEMMA RememberFacts ==
    ASSUME TypeOK, Distinct(dedup), NEW o \in Orders, NEW s \in States
    PROVE  LET r == Remember(o, s) IN
           /\ Distinct(r)
           /\ \E i \in DOMAIN r : r[i] = [order |-> o, state |-> s]
           /\ \A i \in DOMAIN r :
                \/ r[i] = [order |-> o, state |-> s]
                \/ \E j \in DOMAIN dedup : dedup[j].order # o /\ r[i] = dedup[j]
           /\ Len(Forget(o)) < DedupSize =>
                \A j \in DOMAIN dedup : dedup[j].order # o => \E i \in DOMAIN r : r[i] = dedup[j]
<1>. DEFINE E == [order : Orders, state : States]
            entry == [order |-> o, state |-> s]
            r == Remember(o, s)
<1>1. PICK f \in Seq(E) : f = Forget(o)
  BY ForgetFacts
<1>2. /\ \A k \in DOMAIN f : f[k].order # o
      /\ \A k \in DOMAIN f : \E j \in DOMAIN dedup : f[k] = dedup[j]
      /\ \A j \in DOMAIN dedup : dedup[j].order # o => \E k \in DOMAIN f : f[k] = dedup[j]
      /\ Distinct(f)
  BY <1>1, ForgetFacts
<1>3. Len(f) <= DedupSize /\ DedupSize \in Nat \ {0}
  BY <1>1, ForgetFacts, SizesAssumption DEF TypeOK
<1>4. entry \in E /\ entry.order = o
  OBVIOUS
<1>5. CASE Len(f) < DedupSize
  <2>1. r = Append(f, entry)
    BY <1>1, <1>5 DEF Remember
  <2>. HIDE DEF r, entry, E
  <2>2. PICK n \in Nat : n = Len(f)
    OBVIOUS
  <2>3. /\ DOMAIN r = 1..(n + 1) /\ DOMAIN f = 1..n
        /\ \A i \in 1..n : r[i] = f[i]
        /\ r[n + 1] = entry
    BY <1>4, <2>1, <2>2
  <2>4. Distinct(r)
    <3>. SUFFICES ASSUME NEW i \in 1..(n + 1), NEW j \in 1..(n + 1), r[i].order = r[j].order
                  PROVE  i = j
      BY <2>3 DEF Distinct
    <3>1. (i \in 1..n \/ i = n + 1) /\ (j \in 1..n \/ j = n + 1)
      OBVIOUS
    <3>. QED BY <1>2, <1>4, <2>3, <3>1, SMTT(30) DEF Distinct
  <2>5. \E i \in DOMAIN r : r[i] = entry
    BY <2>3
  <2>6. ASSUME NEW i \in DOMAIN r
        PROVE  r[i] = entry \/ \E j \in DOMAIN dedup : dedup[j].order # o /\ r[i] = dedup[j]
    <3>1. i \in 1..n \/ i = n + 1
      BY <2>3
    <3>2. CASE i \in 1..n
      BY <1>2, <2>3, <3>2
    <3>. QED BY <2>3, <3>1, <3>2
  <2>7. ASSUME NEW j \in DOMAIN dedup, dedup[j].order # o PROVE \E i \in DOMAIN r : r[i] = dedup[j]
    <3>1. PICK k \in DOMAIN f : f[k] = dedup[j]
      BY <1>2, <2>7
    <3>2. k \in DOMAIN r /\ r[k] = dedup[j]
      BY <2>3, <3>1
    <3>. QED BY <3>2
  <2>. QED BY <2>4, <2>5, <2>6, <2>7 DEF entry, r
<1>6. CASE ~(Len(f) < DedupSize)
  <2>1. r = Append(Tail(f), entry)
    BY <1>1, <1>6 DEF Remember
  <2>. HIDE DEF r, entry, E
  <2>2. PICK n \in Nat : n = Len(f) /\ n > 0
    BY <1>3, <1>6
  <2>3. PICK t \in Seq(E) : t = Tail(f)
    <3>1. f # <<>>
      BY <2>2
    <3>2. Tail(f) \in Seq(E)
      BY <3>1, HeadTailProperties
    <3>. QED BY <3>2
  <2>4. Len(t) = n - 1 /\ \A i \in 1..(n - 1) : t[i] = f[i + 1]
    BY <2>2, <2>3
  <2>5. /\ DOMAIN r = 1..n /\ DOMAIN f = 1..n
        /\ \A i \in 1..(n - 1) : r[i] = f[i + 1]
        /\ r[n] = entry
    <3>1. /\ DOMAIN Append(t, entry) = 1..n
          /\ \A i \in 1..(n - 1) : Append(t, entry)[i] = t[i]
          /\ Append(t, entry)[n] = entry
      BY <1>4, <2>2, <2>4
    <3>. QED BY <2>1, <2>2, <2>3, <2>4, <3>1
  <2>6. Distinct(r)
    <3>. SUFFICES ASSUME NEW i \in 1..n, NEW j \in 1..n, r[i].order = r[j].order
                  PROVE  i = j
      BY <2>5 DEF Distinct
    <3>1. (i \in 1..(n - 1) /\ i + 1 \in 1..n) \/ i = n
      BY <2>2
    <3>2. (j \in 1..(n - 1) /\ j + 1 \in 1..n) \/ j = n
      BY <2>2
    <3>3. CASE i # n /\ j # n
      <4>1. f[i + 1].order = f[j + 1].order
        BY <2>5, <3>1, <3>2, <3>3
      <4>2. i + 1 = j + 1
        BY <1>2, <2>5, <3>1, <3>2, <3>3, <4>1 DEF Distinct
      <4>. QED BY <4>2
    <3>4. CASE i # n /\ j = n
      BY <1>2, <1>4, <2>5, <3>1, <3>4
    <3>5. CASE i = n /\ j # n
      BY <1>2, <1>4, <2>5, <3>2, <3>5
    <3>. QED BY <3>3, <3>4, <3>5
  <2>7. \E i \in DOMAIN r : r[i] = entry
    <3>1. n \in DOMAIN r
      BY <2>2, <2>5
    <3>. QED BY <2>5, <3>1
  <2>8. ASSUME NEW i \in DOMAIN r
        PROVE  r[i] = entry \/ \E j \in DOMAIN dedup : dedup[j].order # o /\ r[i] = dedup[j]
    <3>1. (i \in 1..(n - 1) /\ i + 1 \in 1..n) \/ i = n
      BY <2>2, <2>5
    <3>2. CASE i \in 1..(n - 1) /\ i + 1 \in 1..n
      BY <1>2, <2>5, <3>2
    <3>. QED BY <2>5, <3>1, <3>2
  <2>. QED BY <1>1, <1>6, <2>6, <2>7, <2>8 DEF entry, r
<1>. QED BY <1>5, <1>6

-----------------------------------------------------------------------------
(* Reports and what is shown of them.                                      *)

\* Whoever is attached is attached to the registered subscription, and a subscription
\* begins with an empty dedup memory, which never holds an order twice.
MemoryInv ==
    /\ up /\ Attached # {} => registered
    /\ up /\ ~registered => dedup = <<>>
    /\ Distinct(dedup)

\* Where the cache changes on reports only, open orders are shown as cached, and the
\* memory holds what is cached, which for an ended order is shown unless a bootstrap
\* has left it out since.
ReportsInv ==
    LocalStates = {} /\ up /\ registered =>
        /\ \A o \in Orders : trade[o] \in States \ Terminal => shown[o] = trade[o]
        /\ \A i \in DOMAIN dedup :
             /\ dedup[i].state = trade[dedup[i].order]
             /\ dedup[i].state \in Terminal
                  => shown[dedup[i].order] \in {dedup[i].state, Absent}

\* The dedup memory belongs to the subscription in use.
LEMMA MemoryKept == Spec => []MemoryInv
<1>1. Init => MemoryInv
  BY DEF Init, MemoryInv, Attached, Distinct
<1>2. TypeOK /\ MemoryInv /\ [Next]_vars => MemoryInv'
  <2>. SUFFICES ASSUME TypeOK, MemoryInv, [Next]_vars PROVE MemoryInv'
    OBVIOUS
  <2>. USE DEF subVars, connVars, clientVars, histVars
  <2>1. ASSUME UNCHANGED <<registered, dedup>>, up' => up, Attached' \subseteq Attached
        PROVE  MemoryInv'
    BY <2>1 DEF MemoryInv, Distinct
  <2>2. ASSUME NEW o \in Orders, NEW s \in States, BrokerEvent(o, s)
        PROVE  MemoryInv'
    <3>1. Attached' = Attached /\ up' = up
      BY <2>2, AttachedStays DEF BrokerEvent
    <3>2. CASE UNCHANGED <<registered, dedup>>
      BY <3>1, <3>2, <2>1
    <3>3. CASE registered /\ dedup' = Remember(o, s) /\ registered' = registered
      <4>1. Distinct(dedup')
        BY <3>3, RememberFacts DEF MemoryInv
      <4>. QED BY <3>1, <3>3, <4>1 DEF MemoryInv
    <3>. QED BY <2>2, <3>2, <3>3 DEF BrokerEvent, PublishOrder
  <2>3. ASSUME NEW c \in Clients, NEW header \in {None, lastId[c]}, Subscribe(c, header)
        PROVE  MemoryInv'
    BY <2>3 DEF Subscribe, MemoryInv, Distinct
  <2>4. ASSUME NEW c \in Clients, Detach(c)
        PROVE  MemoryInv'
    <3>1. Attached' \subseteq Attached
      BY <2>4, DetachLeaves
    <3>. QED BY <2>4, <3>1, <2>1 DEF Detach
  <2>5. ASSUME NEW c \in Clients, StartReplay(c) \/ Abandon(c) \/ Vanish(c)
        PROVE  MemoryInv'
    <3>1. Attached' \subseteq Attached
      BY <2>5 DEF StartReplay, Abandon, Vanish, Attached, TypeOK
    <3>. QED BY <2>5, <3>1, <2>1 DEF StartReplay, Abandon, Vanish
  <2>6. ASSUME NEW c \in Clients, FetchReplay(c) \/ FetchLive(c) \/ Deliver(c)
        PROVE  MemoryInv'
    <3>1. Attached' = Attached
      BY <2>6, AttachedStays DEF FetchReplay, FetchLive, Deliver
    <3>. QED BY <2>6, <3>1, <2>1 DEF FetchReplay, FetchLive, Deliver
  <2>7. CASE CoolDownExpires
    <3>1. Attached' = Attached /\ up' = up
      BY <2>7, AttachedStays DEF CoolDownExpires
    <3>2. CASE Attached = {} /\ registered
      BY <2>7, <3>1, <3>2 DEF CoolDownExpires, MemoryInv, Distinct
    <3>3. CASE ~(Attached = {} /\ registered)
      BY <2>7, <3>1, <3>3, <2>1 DEF CoolDownExpires
    <3>. QED BY <3>2, <3>3
  <2>8. CASE Shutdown
    BY <2>8 DEF Shutdown, MemoryInv, Distinct
  <2>9. CASE UNCHANGED vars
    <3>1. Attached' = Attached
      BY <2>9, AttachedStays DEF vars
    <3>. QED BY <2>9, <3>1, <2>1 DEF vars
  <2>10. ASSUME NEW o \in Orders, NEW s \in LocalStates, LocalChange(o, s)
         PROVE  MemoryInv'
    <3>1. Attached' = Attached
      BY <2>10, AttachedStays DEF LocalChange
    <3>. QED BY <2>10, <3>1, <2>1 DEF LocalChange
  <2>. QED BY <2>2, <2>3, <2>4, <2>5, <2>6, <2>7, <2>8, <2>9, <2>10
           DEF Next, Disconnect, SendFails
<1>. QED BY <1>1, <1>2, TypeCorrect, PTL DEF Spec

\* The elements of a sequence over S are in S.
LEMMA ElementOf ==
    ASSUME NEW S, NEW q \in Seq(S)
    PROVE  \A i \in DOMAIN q : q[i] \in S
OBVIOUS

\* A frame about o tells of o alone.
LEMMA FrameTells ==
    ASSUME NEW o \in Orders, NEW s \in States, NEW e \in Event,
           e.kind = "order", e.state = [NothingKnown EXCEPT ![o] = s]
    PROVE  \A p \in Orders : (Tells(e, p) <=> p = o) /\ (p = o => e.state[p] = s)
BY StatesAssumption DEF Tells, NothingKnown

\* A frame that tells of o alone, namely s, is published.
Announced(o, s) ==
    \E e \in Event :
        /\ Published(e) /\ e.kind = "order"
        /\ \A p \in Orders : (Tells(e, p) <=> p = o) /\ (p = o => e.state[p] = s)

\* What a report does: the frame is published, or the memory says it was before.
LEMMA ReportCases ==
    ASSUME TypeOK, NEW o \in Orders, NEW s \in States, BrokerEvent(o, s)
    PROVE  /\ trade' = [trade EXCEPT ![o] = s]
           /\ up' = up /\ phase' = phase /\ booted' = booted /\ registered' = registered
           /\ \/ ~(up /\ registered) /\ dedup' = dedup /\ shown' = shown
              \/ /\ up /\ registered /\ dedup' = Remember(o, s)
                 /\ IsDuplicate(o, s) /\ shown' = shown /\ queue' = queue
              \/ /\ up /\ registered /\ dedup' = Remember(o, s) /\ ~IsDuplicate(o, s)
                 /\ Announced(o, s)
                 /\ \A p \in Orders : shown'[p] = IF p = o THEN s ELSE shown[p]
<1>. USE DEF subVars, connVars, clientVars, histVars
<1>1. /\ trade' = [trade EXCEPT ![o] = s]
      /\ up' = up /\ phase' = phase /\ booted' = booted /\ registered' = registered
  BY DEF BrokerEvent, PublishOrder
<1>2. CASE ~(up /\ registered)
  <2>1. dedup' = dedup /\ shown' = shown
    BY <1>2 DEF BrokerEvent, PublishOrder
  <2>. QED BY <1>1, <1>2, <2>1
<1>3. CASE up /\ registered /\ IsDuplicate(o, s)
  <2>1. dedup' = Remember(o, s) /\ shown' = shown /\ queue' = queue
    BY <1>3 DEF BrokerEvent, PublishOrder
  <2>. QED BY <1>1, <1>3, <2>1
<1>4. CASE up /\ registered /\ ~IsDuplicate(o, s)
  <2>. DEFINE frame == [NothingKnown EXCEPT ![o] = s]
  <2>1. dedup' = Remember(o, s) /\ Publish("order", frame, queue, Attached)
    BY <1>4 DEF BrokerEvent, PublishOrder
  <2>2. /\ frame \in View /\ queue \in [Clients -> Seq(Event)]
        /\ Attached \in SUBSET Clients
    BY NothingKnownType DEF View, TypeOK, Attached
  <2>3. PICK e \in Event :
              /\ Published(e)
              /\ e.kind = "order" /\ e.state = frame
              /\ \A c \in Attached : queue'[c] = PushBounded(queue[c], e, QueueMax)
              /\ \A c \in Clients \ Attached : queue'[c] = queue[c]
    <3>1. Publish("order", frame, queue, Attached)
      BY <2>1
    <3>. HIDE DEF frame
    <3>. QED BY <2>2, <3>1, PublishIsPublished
  <2>4. \A p \in Orders : (Tells(e, p) <=> p = o) /\ (p = o => e.state[p] = s)
    BY <2>3, FrameTells
  <2>5. \A p \in Orders : shown'[p] = IF p = o THEN s ELSE shown[p]
    <3>1. \A p \in Orders : shown'[p] = IF Tells(e, p) THEN e.state[p] ELSE shown[p]
      BY <2>3 DEF Published, Seen
    <3>. QED BY <2>4, <3>1
  <2>6. Announced(o, s)
    BY <2>3, <2>4 DEF Announced
  <2>. QED BY <1>1, <1>4, <2>1, <2>5, <2>6
<1>. QED BY <1>1, <1>2, <1>3, <1>4

\* What is shown follows the reports.
LEMMA ReportsFollowed == Spec => []ReportsInv
<1>1. Init => ReportsInv
  BY DEF Init, ReportsInv
<1>2. TypeOK /\ MemoryInv /\ ReportsInv /\ [Next]_vars => ReportsInv'
  <2>. SUFFICES ASSUME TypeOK, MemoryInv, ReportsInv, [Next]_vars PROVE ReportsInv'
    OBVIOUS
  <2>. USE DEF subVars, connVars, clientVars, histVars
  <2>1. ASSUME UNCHANGED <<trade, registered, dedup, shown>>, up' => up
        PROVE  ReportsInv'
    BY <2>1 DEF ReportsInv
  <2>2. ASSUME NEW o \in Orders, NEW s \in States, BrokerEvent(o, s)
        PROVE  ReportsInv'
    <3>. SUFFICES ASSUME LocalStates = {}, up', registered'
                  PROVE  /\ \A p \in Orders : trade'[p] \in States \ Terminal => shown'[p] = trade'[p]
                         /\ \A i \in DOMAIN dedup' :
                              /\ dedup'[i].state = trade'[dedup'[i].order]
                              /\ dedup'[i].state \in Terminal
                                   => shown'[dedup'[i].order] \in {dedup'[i].state, Absent}
      BY DEF ReportsInv
    <3>1. /\ \A p \in Orders : trade'[p] = IF p = o THEN s ELSE trade[p]
          /\ up /\ registered /\ dedup' = Remember(o, s)
          /\ \/ IsDuplicate(o, s) /\ shown' = shown
             \/ \A p \in Orders : shown'[p] = IF p = o THEN s ELSE shown[p]
      <4>1. \A p \in Orders : trade'[p] = IF p = o THEN s ELSE trade[p]
        <5>1. trade \in [Orders -> States \cup {Absent}]
          BY DEF TypeOK, View
        <5>2. trade' = [trade EXCEPT ![o] = s]
          BY <2>2, ReportCases
        <5>. QED BY <5>1, <5>2
      <4>2. up' = up /\ registered' = registered
        BY <2>2, ReportCases
      <4>3. \/ ~(up /\ registered)
            \/ /\ dedup' = Remember(o, s)
               /\ IsDuplicate(o, s) /\ shown' = shown
            \/ /\ dedup' = Remember(o, s)
               /\ \A p \in Orders : shown'[p] = IF p = o THEN s ELSE shown[p]
        BY <2>2, ReportCases
      <4>. QED BY <4>1, <4>2, <4>3
    <3>2. /\ \A p \in Orders : trade[p] \in States \ Terminal => shown[p] = trade[p]
          /\ \A i \in DOMAIN dedup :
               /\ dedup[i].order \in Orders
               /\ dedup[i].state = trade[dedup[i].order]
               /\ dedup[i].state \in Terminal => shown[dedup[i].order] \in {dedup[i].state, Absent}
      <4>1. \A i \in DOMAIN dedup : dedup[i].order \in Orders
        <5>1. dedup \in Seq([order : Orders, state : States])
          BY DEF TypeOK
        <5>2. \A i \in DOMAIN dedup : dedup[i] \in [order : Orders, state : States]
          BY <5>1, ElementOf
        <5>. QED BY <5>2
      <4>. QED BY <3>1, <4>1 DEF ReportsInv
    <3>3. \A i \in DOMAIN dedup' :
             \/ dedup'[i] = [order |-> o, state |-> s]
             \/ \E j \in DOMAIN dedup : dedup[j].order # o /\ dedup'[i] = dedup[j]
      BY <3>1, RememberFacts DEF MemoryInv
    <3>4. /\ s \in Terminal => shown'[o] \in {s, Absent}
          /\ s \notin Terminal => shown'[o] = s
          /\ \A p \in Orders : p # o => shown'[p] = shown[p]
      <4>1. CASE IsDuplicate(o, s) /\ shown' = shown
        <5>1. PICK i \in DOMAIN dedup : dedup[i] = [order |-> o, state |-> s]
          BY <4>1 DEF IsDuplicate
        <5>. QED BY <3>2, <4>1, <5>1
      <4>2. CASE \A p \in Orders : shown'[p] = IF p = o THEN s ELSE shown[p]
        BY <4>2
      <4>. QED BY <3>1, <4>1, <4>2
    <3>5. \A p \in Orders : trade'[p] \in States \ Terminal => shown'[p] = trade'[p]
      BY <3>1, <3>2, <3>4
    <3>6. ASSUME NEW i \in DOMAIN dedup'
          PROVE  /\ dedup'[i].state = trade'[dedup'[i].order]
                 /\ dedup'[i].state \in Terminal
                      => shown'[dedup'[i].order] \in {dedup'[i].state, Absent}
      <4>1. CASE dedup'[i] = [order |-> o, state |-> s]
        BY <3>1, <3>4, <4>1
      <4>2. CASE \E j \in DOMAIN dedup : dedup[j].order # o /\ dedup'[i] = dedup[j]
        BY <3>1, <3>2, <3>4, <4>2
      <4>. QED BY <3>3, <4>1, <4>2
    <3>. QED BY <3>5, <3>6
  <2>3. ASSUME NEW c \in Clients, NEW header \in {None, lastId[c]}, Subscribe(c, header)
        PROVE  ReportsInv'
    <3>1. trade' = trade /\ dedup' = dedup /\ up /\ up' = up
      BY <2>3 DEF Subscribe
    <3>2. \A o \in Orders : /\ OpenTrades[o] = IF trade[o] \in Terminal THEN Absent ELSE trade[o]
                            /\ trade[o] \in States \cup {Absent}
      BY DEF OpenTrades, TypeOK, View
    <3>3. CASE OpenTrades # NothingKnown
      <4>1. Publish("bootstrap", OpenTrades, [queue EXCEPT ![c] = <<>>], Attached \cup {c})
        BY <2>3, <3>3 DEF Subscribe
      <4>2. \A o \in Orders : shown'[o] = OpenTrades[o]
        BY <4>1 DEF Publish, Seen, Tells
      <4>3. ASSUME LocalStates = {}, registered
            PROVE  \A i \in DOMAIN dedup : /\ dedup[i].order \in Orders
                                           /\ dedup[i].state = trade[dedup[i].order]
        <5>1. dedup \in Seq([order : Orders, state : States])
          BY DEF TypeOK
        <5>2. \A i \in DOMAIN dedup : dedup[i] \in [order : Orders, state : States]
          BY <5>1, ElementOf
        <5>3. \A i \in DOMAIN dedup : dedup[i].order \in Orders
          BY <5>2
        <5>. QED BY <3>1, <4>3, <5>3 DEF ReportsInv
      <4>4. ~registered => dedup = <<>>
        BY <3>1 DEF MemoryInv
      <4>. QED BY <3>1, <3>2, <4>2, <4>3, <4>4 DEF ReportsInv
    <3>4. CASE OpenTrades = NothingKnown
      <4>1. shown' = shown
        BY <2>3, <3>4 DEF Subscribe
      <4>2. \A o \in Orders : trade[o] \notin States \ Terminal
        BY <3>2, <3>4, StatesAssumption DEF NothingKnown
      <4>3. ~registered => dedup = <<>>
        BY <3>1 DEF MemoryInv
      <4>. QED BY <3>1, <4>1, <4>2, <4>3 DEF ReportsInv
    <3>. QED BY <3>3, <3>4
  <2>4. ASSUME NEW o \in Orders, NEW s \in LocalStates, LocalChange(o, s)
        PROVE  ReportsInv'
    BY <2>4 DEF ReportsInv
  <2>5. CASE CoolDownExpires
    BY <2>5, <2>1 DEF CoolDownExpires, ReportsInv
  <2>6. CASE Shutdown
    BY <2>6 DEF Shutdown, ReportsInv
  <2>7. CASE UNCHANGED vars
    BY <2>7, <2>1 DEF vars
  <2>8. ASSUME NEW c \in Clients,
               \/ StartReplay(c) \/ FetchReplay(c) \/ FetchLive(c) \/ Deliver(c)
               \/ Detach(c) \/ Abandon(c) \/ Vanish(c)
        PROVE  ReportsInv'
    BY <2>8, <2>1 DEF StartReplay, FetchReplay, FetchLive, Deliver, Detach, Abandon, Vanish
  <2>. QED BY <2>2, <2>3, <2>4, <2>5, <2>6, <2>7, <2>8 DEF Next, Disconnect, SendFails
<1>. QED BY <1>1, <1>2, TypeCorrect, MemoryKept, PTL DEF Spec

\* Where the cache changes on broker reports only, deduplication never hides a report:
\* after each one the stream shows what it said, for any orders and cache sizes.
THEOREM ReportsAreShown ==
    ASSUME LocalStates = {}
    PROVE  Spec => ReportIsShown
<1>1. TypeOK /\ MemoryInv /\ ReportsInv /\ [Next]_vars
        => [\A o \in Orders, s \in States :
              BrokerEvent(o, s) /\ up /\ registered
                => shown'[o] = s \/ (s \in Terminal /\ shown'[o] = Absent)]_vars
  <2>. SUFFICES ASSUME TypeOK, MemoryInv, ReportsInv, NEW o \in Orders, NEW s \in States,
                       BrokerEvent(o, s), up, registered
                PROVE  shown'[o] = s \/ (s \in Terminal /\ shown'[o] = Absent)
    OBVIOUS
  <2>1. CASE IsDuplicate(o, s) /\ shown' = shown
    <3>1. PICK i \in DOMAIN dedup : dedup[i] = [order |-> o, state |-> s]
      BY <2>1 DEF IsDuplicate
    <3>2. trade[o] = s /\ (s \in Terminal => shown[o] \in {s, Absent})
      BY <3>1 DEF ReportsInv
    <3>3. s \notin Terminal => shown[o] = s
      BY <3>2 DEF ReportsInv
    <3>. QED BY <2>1, <3>2, <3>3
  <2>2. CASE \A p \in Orders : shown'[p] = IF p = o THEN s ELSE shown[p]
    BY <2>2
  <2>. QED BY <2>1, <2>2, ReportCases
<1>. QED BY <1>1, TypeCorrect, MemoryKept, ReportsFollowed, PTL DEF Spec, ReportIsShown

-----------------------------------------------------------------------------
(* Catching up: what a client's queue has in store for it.                 *)

\* The picture c owes o a newest word: c was fed a bootstrap, or o is open at a
\* broker whose reports alone change the cache.
Due(c, o) ==
    booted[c] \/ (LocalStates = {} /\ up /\ trade[o] \in States \ Terminal)

\* The queue of c still tells of o.
QueueTells(c, o) == \E i \in DOMAIN queue[c] : Tells(queue[c][i], o)

\* The picture of c after the event in hand.
Upcoming(c) == IF pending[c] = <<>> THEN view[c] ELSE Seen(view[c], pending[c][1])

\* Of all orders due, a client whose queue never overflowed has heard the newest, or
\* its queue will tell; before the queue's turn comes, the queue will tell.
CatchesUp(c) ==
    ~dropped[c] /\ phase[c] \in {"attached", "open"} =>
        \A o \in Orders : Due(c, o) =>
            \/ QueueTells(c, o)
            \/ phase[c] = "open" /\ replay[c] = <<>> /\ Upcoming(c)[o] = shown[o]

CatchUpInv == \A c \in Clients : CatchesUp(c)

\* While somebody is attached, an order opens at the broker with an event of its own.
LEMMA OpeningIsTold ==
    ASSUME TypeOK, MemoryInv, ReportsInv, [Next]_vars, LocalStates = {}, up',
           NEW c \in Clients, phase[c] # "off",
           NEW o \in Orders, trade'[o] \in States \ Terminal
    PROVE  (up /\ trade[o] \in States \ Terminal) \/ shownAt'[o] = nextId
<1>. USE DEF subVars, connVars, clientVars, histVars
<1>1. ASSUME trade' = trade, up' = up
      PROVE  up /\ trade[o] \in States \ Terminal
  BY <1>1
<1>2. ASSUME NEW p \in Orders, NEW s \in States, BrokerEvent(p, s)
      PROVE  (up /\ trade[o] \in States \ Terminal) \/ shownAt'[o] = nextId
  <2>1. /\ trade' = [trade EXCEPT ![p] = s]
        /\ up' = up
    BY <1>2, ReportCases
  <2>2. trade \in [Orders -> States \cup {Absent}]
    BY DEF TypeOK, View
  <2>3. \A q \in Orders : trade'[q] = IF q = p THEN s ELSE trade[q]
    BY <2>1, <2>2
  <2>4. trade[o] \in States \cup {Absent}
    BY <2>2
  <2>5. CASE trade[o] \in States \ Terminal
    BY <2>1, <2>5
  <2>6. CASE trade[o] \notin States \ Terminal
    <3>1. o = p /\ s \in States \ Terminal
      BY <2>3, <2>6
    <3>2. trade[o] # s
      BY <2>6, <3>1
    <3>3. registered /\ up
      BY <2>1 DEF MemoryInv, Attached
    <3>4. ~IsDuplicate(p, s)
      <4>. SUFFICES ASSUME NEW i \in DOMAIN dedup,
                           dedup[i] = [order |-> p, state |-> s]
                    PROVE  FALSE
        BY DEF IsDuplicate
      <4>1. dedup[i].state = trade[dedup[i].order]
        BY <3>3 DEF ReportsInv
      <4>. QED BY <3>1, <3>2, <4>1
    <3>5. PICK e \in Event : Published(e) /\ \A q \in Orders : Tells(e, q) <=> q = p
      <4>1. Announced(p, s)
        BY <1>2, <3>3, <3>4, ReportCases
      <4>. QED BY <4>1 DEF Announced
    <3>6. Tells(e, o)
      BY <3>1, <3>5
    <3>. QED BY <3>5, <3>6 DEF Published
  <2>. QED BY <2>5, <2>6
<1>3. ASSUME NEW p \in Orders, NEW s \in LocalStates, LocalChange(p, s) PROVE FALSE
  BY <1>3
<1>4. ASSUME NEW d \in Clients, NEW header \in {None, lastId[d]}, Subscribe(d, header)
      PROVE  trade' = trade /\ up' = up
  BY <1>4 DEF Subscribe
<1>5. CASE CoolDownExpires
  BY <1>5, <1>1 DEF CoolDownExpires
<1>6. CASE Shutdown
  BY <1>6 DEF Shutdown
<1>7. CASE UNCHANGED vars
  BY <1>7, <1>1 DEF vars
<1>8. ASSUME NEW d \in Clients,
             \/ StartReplay(d) \/ FetchReplay(d) \/ FetchLive(d) \/ Deliver(d)
             \/ Detach(d) \/ Abandon(d) \/ Vanish(d)
      PROVE  trade' = trade /\ up' = up
  BY <1>8 DEF StartReplay, FetchReplay, FetchLive, Deliver, Detach, Abandon, Vanish
<1>. QED BY <1>1, <1>2, <1>3, <1>4, <1>5, <1>6, <1>7, <1>8
         DEF Next, Disconnect, SendFails

\* A subscribe without a bootstrap finds no open order.
LEMMA NoBootstrapNothingOpen ==
    ASSUME TypeOK, [Next]_vars, NEW c \in Clients,
           phase[c] = "off", phase'[c] = "attached", ~booted'[c]
    PROVE  \A o \in Orders : trade'[o] \notin States \ Terminal
<1>. USE DEF subVars, connVars, clientVars, histVars
<1>1. ASSUME phase'[c] = phase[c] PROVE FALSE
  BY <1>1
<1>2. ASSUME NEW o \in Orders, NEW s \in States, BrokerEvent(o, s) PROVE FALSE
  BY <1>2 DEF BrokerEvent
<1>3. ASSUME NEW o \in Orders, NEW s \in LocalStates, LocalChange(o, s) PROVE FALSE
  BY <1>3 DEF LocalChange
<1>4. ASSUME NEW d \in Clients, NEW header \in {None, lastId[d]}, Subscribe(d, header)
      PROVE  \A o \in Orders : trade'[o] \notin States \ Terminal
  <2>1. /\ phase' = [phase EXCEPT ![d] = "attached"] /\ trade' = trade
        /\ booted' = [booted EXCEPT ![d] = OpenTrades # NothingKnown]
    BY <1>4 DEF Subscribe
  <2>2. d = c
    BY <2>1 DEF TypeOK
  <2>3. OpenTrades = NothingKnown
    BY <2>1, <2>2 DEF TypeOK
  <2>4. ASSUME NEW o \in Orders PROVE trade[o] \notin States \ Terminal
    <3>1. OpenTrades[o] = IF trade[o] \in Terminal THEN Absent ELSE trade[o]
      BY DEF OpenTrades
    <3>2. OpenTrades[o] = Absent
      BY <2>3 DEF NothingKnown
    <3>. QED BY <3>1, <3>2, StatesAssumption
  <2>. QED BY <2>1, <2>4
<1>5. CASE CoolDownExpires
  BY <1>5 DEF CoolDownExpires
<1>6. CASE Shutdown
  BY <1>6 DEF Shutdown
<1>7. CASE UNCHANGED vars
  BY <1>7 DEF vars
<1>8. ASSUME NEW d \in Clients, StartReplay(d) \/ Detach(d) \/ Abandon(d) \/ Vanish(d)
      PROVE  FALSE
  BY <1>8 DEF StartReplay, Detach, Abandon, Vanish, TypeOK
<1>9. ASSUME NEW d \in Clients, FetchReplay(d) \/ FetchLive(d) \/ Deliver(d) PROVE FALSE
  BY <1>9 DEF FetchReplay, FetchLive, Deliver
<1>. QED BY <1>2, <1>3, <1>4, <1>5, <1>6, <1>7, <1>8, <1>9
         DEF Next, Disconnect, SendFails

\* Taking the head of the queue: if the newest word on o was in it, o is caught up.
LEMMA HeadCatchesUp ==
    ASSUME TypeOK, UnbrokenRuns, TrueStream, NEW c \in Clients, TrueClient(c),
           FetchLive(c), NEW o \in Orders, QueueTells(c, o)
    PROVE  QueueTells(c, o)' \/ Seen(view[c], queue[c][1])[o] = shown[o]
<1>1. PICK q \in Seq(Event) : q = queue[c]
  BY DEF TypeOK
<1>2. q # <<>> /\ queue'[c] = Tail(q) /\ c \in Attached
  BY <1>1 DEF FetchLive, Attached, TypeOK
<1>3. PICK n \in Nat : n = Len(q) /\ DOMAIN q = 1..n /\ n > 0
  BY <1>2
<1>4. /\ Tail(q) \in Seq(Event) /\ Len(Tail(q)) = n - 1
      /\ \A i \in 1..(n - 1) : Tail(q)[i] = q[i + 1]
  BY <1>2, <1>3
<1>5. PICK m \in Nat : m = nextId
  BY DEF TypeOK
<1>6. EndsAt(q, m)
  BY <1>1, <1>2, <1>5 DEF UnbrokenRuns
<1>7. PICK a \in Int : a = shownAt[o] /\ a < m
  <2>1. shownAt[o] \in Nat \cup {None}
    BY DEF TypeOK
  <2>. QED BY <1>5, <2>1 DEF TrueStream, None
<1>8. PICK i \in 1..n : Tells(q[i], o)
  BY <1>1, <1>3 DEF QueueTells
<1>9. \A j \in 1..n : TrueEvent(q[j]) /\ q[j] \in Event
  BY <1>1, <1>3, ElementOf DEF TrueClient, TrueEvents
<1>10. PICK k \in Nat : k = q[i].id
  BY <1>9 DEF Event
<1>11. k <= a /\ k = m - n + i - 1
  <2>1. q[i].id <= shownAt[o]
    BY <1>8, <1>9 DEF TrueEvent
  <2>2. q[i].id = m - n + i - 1
    BY <1>3, <1>6 DEF EndsAt
  <2>. QED BY <1>7, <1>10, <2>1, <2>2
<1>12. a \in Nat /\ m - Len(q) <= a /\ a <= m - 1
  BY <1>3, <1>7, <1>11
<1>13. PICK j \in 1..n : q[j].id = a
  BY <1>3, <1>6, <1>12, RunHolds
<1>14. Tells(q[j], o) /\ q[j].state[o] = shown[o]
  BY <1>7, <1>9, <1>13 DEF TrueEvent
<1>15. CASE j = 1
  BY <1>1, <1>14, <1>15 DEF Seen
<1>16. CASE j # 1
  <2>1. PICK l \in 1..(n - 1) : j = l + 1
    BY <1>16
  <2>2. Tail(q)[l] = q[j] /\ l \in DOMAIN Tail(q)
    BY <1>4, <2>1
  <2>. QED BY <1>2, <1>14, <2>2 DEF QueueTells
<1>. QED BY <1>15, <1>16

\* A push onto a queue with room: it tells what it told, and what the event tells.
LEMMA PushTells ==
    ASSUME TypeOK, NEW c \in Clients, NEW e \in Event, IsSent(c, e),
           phase[c] # "off", ~dropped'[c], NEW o \in Orders
    PROVE  QueueTells(c, o)' <=> QueueTells(c, o) \/ Tells(e, o)
<1>1. /\ queue'[c] = PushBounded(queue[c], e, QueueMax)
      /\ ~(Len(queue[c]) >= QueueMax)
  BY DEF IsSent
<1>2. PICK q \in Seq(Event) : q = queue[c] /\ Len(q) < QueueMax
  BY <1>1, SizesAssumption DEF TypeOK
<1>3. /\ \A i \in DOMAIN q : i \in DOMAIN queue'[c] /\ queue'[c][i] = q[i]
      /\ Len(q) + 1 \in DOMAIN queue'[c] /\ queue'[c][Len(q) + 1] = e
  BY <1>1, <1>2, PushKeeps, SizesAssumption
<1>4. \A i \in DOMAIN queue'[c] :
         queue'[c][i] = e \/ \E j \in DOMAIN q : queue'[c][i] = q[j]
  BY <1>1, <1>2, PushElements, SizesAssumption
<1>. QED BY <1>2, <1>3, <1>4 DEF QueueTells

\* Every client catches up.
LEMMA CatchingUp == Spec => []CatchUpInv
<1>1. Init => CatchUpInv
  BY DEF Init, CatchUpInv, CatchesUp
<1>2. TypeOK /\ UnbrokenRuns /\ PlaceInv /\ MemoryInv /\ ReportsInv /\ TruthInv
        /\ CatchUpInv /\ [Next]_vars => CatchUpInv'
  <2>. SUFFICES ASSUME TypeOK, UnbrokenRuns, PlaceInv, MemoryInv, ReportsInv, TruthInv,
                       CatchUpInv, [Next]_vars, NEW c \in Clients,
                       ~dropped'[c], phase'[c] \in {"attached", "open"},
                       NEW o \in Orders, Due(c, o)'
                PROVE  \/ QueueTells(c, o)'
                       \/ phase'[c] = "open" /\ replay'[c] = <<>> /\ Upcoming(c)'[o] = shown'[o]
    BY DEF CatchUpInv, CatchesUp
  <2>. DEFINE Told == QueueTells(c, o)
              Heard == phase[c] = "open" /\ replay[c] = <<>> /\ Upcoming(c)[o] = shown[o]
  <2>0. /\ Place(c) /\ StepOf(c) /\ TrueStream /\ TrueClient(c)
        /\ ~dropped[c] /\ phase[c] \in {"attached", "open"} /\ Due(c, o) => Told \/ Heard
    BY EveryStep DEF PlaceInv, CatchUpInv, CatchesUp, TruthInv
  <2>1. ASSUME phase[c] # "off", booted'[c] = booted[c]
        PROVE  Due(c, o) \/ shownAt'[o] = nextId
    BY <2>1, OpeningIsTold DEF Due
  <2>2. ASSUME Silent PROVE shownAt'[o] # nextId
    <3>1. PICK m \in Nat : m = nextId
      BY DEF TypeOK
    <3>2. shownAt[o] \in Nat \cup {None} /\ shownAt[o] < m
      BY <2>0, <3>1 DEF TypeOK, TrueStream
    <3>. QED BY <2>2, <3>1, <3>2 DEF Silent, None
  <2>3. ASSUME Silent, phase[c] # "off", booted'[c] = booted[c] PROVE Due(c, o)
    BY <2>1, <2>2, <2>3
  <2>4. CASE Rests(c)
    <3>1. /\ Silent /\ phase'[c] = phase[c] /\ dropped'[c] = dropped[c]
          /\ booted'[c] = booted[c] /\ queue'[c] = queue[c] /\ replay'[c] = replay[c]
          /\ pending'[c] = pending[c] /\ view'[c] = view[c]
      BY <2>4 DEF Rests, KeepsPlace
    <3>2. Told \/ Heard
      BY <2>0, <2>3, <3>1
    <3>. QED BY <3>1, <3>2 DEF QueueTells, Upcoming, Silent
  <2>5. ASSUME NEW e \in Event, IsSent(c, e)
        PROVE  Told' \/ Heard'
    <3>1. /\ phase'[c] = phase[c] /\ booted'[c] = booted[c] /\ replay'[c] = replay[c]
          /\ pending'[c] = pending[c] /\ view'[c] = view[c] /\ Published(e)
      BY <2>5 DEF IsSent, KeepsPlace
    <3>2. ~dropped[c] /\ (Told' <=> Told \/ Tells(e, o))
      BY <2>5, <3>1, PushTells DEF IsSent
    <3>3. CASE Tells(e, o)
      BY <3>2, <3>3
    <3>4. CASE ~Tells(e, o)
      <4>1. shownAt'[o] = shownAt[o] /\ shown'[o] = shown[o]
        BY <3>1, <3>4 DEF Published, Seen
      <4>2. shownAt'[o] # nextId
        <5>1. PICK m \in Nat : m = nextId
          BY DEF TypeOK
        <5>2. shownAt[o] \in Nat \cup {None} /\ shownAt[o] < m
          BY <2>0, <5>1 DEF TypeOK, TrueStream
        <5>. QED BY <4>1, <5>1, <5>2 DEF None
      <4>3. Told \/ Heard
        BY <2>0, <2>1, <3>1, <3>2, <4>2
      <4>. QED BY <3>1, <3>2, <4>1, <4>3 DEF Upcoming
    <3>. QED BY <3>3, <3>4
  <2>6. ASSUME NEW header \in {None, lastId[c]}, Joins(c, header)
        PROVE  Told'
    <3>1. CASE ~booted'[c]
      <4>1. \A p \in Orders : trade'[p] \notin States \ Terminal
        BY <2>6, <3>1, NoBootstrapNothingOpen DEF Joins
      <4>. QED BY <3>1, <4>1 DEF Due
    <3>2. CASE booted'[c]
      <4>1. PICK e \in Event : e.kind = "bootstrap" /\ queue'[c] = <<e>>
        BY <2>6, <3>2 DEF Joins
      <4>. QED BY <4>1 DEF QueueTells, Tells
    <3>. QED BY <3>1, <3>2
  <2>7. CASE StartReplay(c)
    <3>1. /\ Silent /\ phase[c] = "attached" /\ dropped' = dropped /\ booted' = booted
          /\ queue' = queue
      BY <2>7 DEF StartReplay, Silent, subVars
    <3>2. Told
      BY <2>0, <2>3, <3>1
    <3>. QED BY <3>1, <3>2 DEF QueueTells
  <2>8. CASE FetchReplay(c)
    <3>1. /\ Silent /\ phase' = phase /\ dropped' = dropped /\ booted' = booted
          /\ queue' = queue /\ replay[c] # <<>>
      BY <2>8 DEF FetchReplay, NextReplay, Silent, subVars, histVars
    <3>2. Told
      BY <2>0, <2>3, <3>1
    <3>. QED BY <3>1, <3>2 DEF QueueTells
  <2>9. CASE FetchLive(c)
    <3>1. /\ Silent /\ phase' = phase /\ dropped' = dropped /\ booted' = booted
          /\ phase[c] = "open" /\ pending[c] = <<>> /\ replay'[c] = <<>> /\ view' = view
          /\ pending'[c] = <<Head(queue[c])>> /\ queue[c] # <<>>
      BY <2>9 DEF FetchLive, Silent, subVars, clientVars, histVars, TypeOK
    <3>2. Head(queue[c]) = queue[c][1] /\ queue'[c] = Tail(queue[c])
      BY <2>9, <3>1 DEF FetchLive, TypeOK
    <3>3. Upcoming(c)' = Seen(view[c], queue[c][1])
      BY <3>1, <3>2 DEF Upcoming
    <3>4. Told \/ Heard
      BY <2>0, <2>3, <3>1
    <3>5. CASE Told
      <4>1. QueueTells(c, o)' \/ Seen(view[c], queue[c][1])[o] = shown[o]
        BY <2>0, <2>9, <3>5, HeadCatchesUp
      <4>. QED BY <3>1, <3>3, <4>1 DEF Silent
    <3>6. CASE ~Told
      <4>1. view[c][o] = shown[o]
        BY <3>1, <3>4, <3>6 DEF Upcoming
      <4>2. 1 \in DOMAIN queue[c]
        BY <3>1 DEF TypeOK
      <4>3. ~Tells(queue[c][1], o)
        BY <3>6, <4>2 DEF QueueTells
      <4>4. Seen(view[c], queue[c][1])[o] = shown[o]
        BY <4>1, <4>3 DEF Seen
      <4>. QED BY <3>1, <3>3, <4>4 DEF Silent
    <3>. QED BY <3>5, <3>6
  <2>10. CASE Deliver(c)
    <3>1. /\ Silent /\ phase' = phase /\ dropped' = dropped /\ booted' = booted
          /\ queue' = queue /\ replay' = replay /\ pending[c] # <<>>
          /\ pending'[c] = <<>> /\ view'[c] = Seen(view[c], pending[c][1])
      BY <2>10 DEF Deliver, Silent, subVars, TypeOK
    <3>2. Told \/ Heard
      BY <2>0, <2>3, <3>1
    <3>3. Upcoming(c)' = Upcoming(c)
      BY <3>1 DEF Upcoming
    <3>. QED BY <3>1, <3>2, <3>3 DEF QueueTells, Silent
  <2>11. ASSUME Detach(c) PROVE FALSE
    BY <2>11 DEF Detach, TypeOK
  <2>12. ASSUME GoesQuietly(c) \/ Forgotten(c) PROVE FALSE
    BY <2>12 DEF GoesQuietly, Forgotten
  <2>. QED BY <2>0, <2>4, <2>5, <2>6, <2>7, <2>8, <2>9, <2>10, <2>11, <2>12
           DEF StepOf, Reads
<1>. QED BY <1>1, <1>2, TypeCorrect, RunsUnbroken, PlaceKept, MemoryKept, ReportsFollowed,
            ClientTruth, PTL DEF Spec

\* Where the cache changes on broker reports only, the picture of any drained consumer
\* shows every open order as the broker last reported it.
THEOREM DrainedMirrorsBroker == Spec => []DrainedConsumerMirrorsBroker
<1>1. CatchUpInv /\ MemoryInv /\ ReportsInv => DrainedConsumerMirrorsBroker
  <2>. SUFFICES ASSUME CatchUpInv, MemoryInv, ReportsInv, LocalStates = {}, up,
                       NEW c \in Clients, phase[c] = "open", Drained(c), ~dropped[c],
                       NEW o \in Orders, trade[o] \in States \ Terminal
                PROVE  view[c][o] = trade[o]
    BY DEF DrainedConsumerMirrorsBroker
  <2>1. registered /\ shown[o] = trade[o]
    BY DEF MemoryInv, ReportsInv, Attached
  <2>2. ~QueueTells(c, o) /\ Upcoming(c) = view[c]
    BY DEF Drained, QueueTells, Upcoming
  <2>3. Upcoming(c)[o] = shown[o]
    BY <2>2 DEF CatchUpInv, CatchesUp, Due
  <2>. QED BY <2>1, <2>2, <2>3
<1>. QED BY <1>1, CatchingUp, MemoryKept, ReportsFollowed, PTL

\* A drained consumer that was fed a bootstrap, or that resumed and has skipped no id
\* since its last bootstrap, has the newest picture of the account.
THEOREM DrainedIsCurrent == Spec => []DrainedConsumerIsCurrent
<1>1. TypeOK /\ NoSilentGap /\ PlaceInv /\ TruthInv /\ CatchUpInv => DrainedConsumerIsCurrent
  <2>. SUFFICES ASSUME TypeOK, NoSilentGap, PlaceInv, TruthInv, CatchUpInv,
                       NEW c \in Clients, phase[c] = "open", Drained(c), ~dropped[c],
                       booted[c] \/ (~lost[c] /\ ~skipped[c])
                PROVE  view[c] = shown
    BY DEF DrainedConsumerIsCurrent
  <2>1. /\ pending[c] = <<>> /\ queue[c] = <<>> /\ NextReplay(c) = {}
        /\ TrueStream /\ TrueClient(c) /\ Place(c)
    BY DEF Drained, TruthInv, PlaceInv
  <2>2. CASE booted[c]
    <3>1. ASSUME NEW o \in Orders PROVE view[c][o] = shown[o]
      <4>1. ~QueueTells(c, o) /\ Upcoming(c) = view[c]
        BY <2>1 DEF QueueTells, Upcoming
      <4>2. Upcoming(c)[o] = shown[o]
        BY <2>2, <4>1 DEF CatchUpInv, CatchesUp, Due
      <4>. QED BY <4>1, <4>2
    <3>2. view[c] \in [Orders -> States \cup {Absent}]
          /\ shown \in [Orders -> States \cup {Absent}]
      BY DEF TypeOK, View
    <3>. QED BY <3>1, <3>2
  <2>3. CASE ~lost[c] /\ ~skipped[c]
    <3>1. current[c]
      BY <2>1, <2>3 DEF Place
    <3>2. PICK n \in Int : n = lastId[c]
      <4>1. lastId[c] \in Nat \cup {None}
        BY DEF TypeOK
      <4>. QED BY <4>1 DEF None
    <3>3. PICK m \in Nat : m = nextId
      BY DEF TypeOK
    <3>4. \A id : id \notin OutstandingIds(c)
      <4>1. \A i \in DOMAIN replay[c] : replay[c][i].id <= since[c]
        BY <2>1, NothingToReplay
      <4>2. \A i \in DOMAIN replay[c] : ~(replay[c][i].id > since[c])
        <5>1. \A i \in DOMAIN replay[c] : replay[c][i] \in Event
          BY DEF TypeOK
        <5>2. \A i \in DOMAIN replay[c] : replay[c][i].id \in Nat
          BY <5>1 DEF Event
        <5>3. since[c] \in Nat \cup {None}
          BY DEF TypeOK
        <5>. QED BY <4>1, <5>2, <5>3 DEF None
      <4>. QED BY <2>1, <4>2 DEF OutstandingIds, Ids, RestIds
    <3>5. \A id \in (n + 1)..(m - 1) : FALSE
      BY <2>3, <3>1, <3>2, <3>3, <3>4 DEF NoSilentGap
    <3>6. m - 1 <= n
      <4>1. CASE n + 1 <= m - 1
        <5>1. n + 1 \in (n + 1)..(m - 1)
          BY <3>2, <3>3, <4>1
        <5>. QED BY <3>5, <5>1
      <4>. QED BY <3>2, <3>3, <4>1
    <3>7. ASSUME NEW o \in Orders PROVE view[c][o] = shown[o]
      <4>1. PICK a \in Int : a = shownAt[o]
        <5>1. shownAt[o] \in Nat \cup {None}
          BY DEF TypeOK
        <5>. QED BY <5>1 DEF None
      <4>2. a < m
        BY <2>1, <3>3, <4>1 DEF TrueStream
      <4>3. shownAt[o] <= lastId[c]
        BY <3>2, <3>6, <4>1, <4>2
      <4>. QED BY <2>1, <2>3, <3>1, <4>3 DEF TrueClient
    <3>8. view[c] \in [Orders -> States \cup {Absent}]
          /\ shown \in [Orders -> States \cup {Absent}]
      BY DEF TypeOK, View
    <3>. QED BY <3>7, <3>8
  <2>. QED BY <2>2, <2>3
<1>. QED BY <1>1, TypeCorrect, ResumeIsGapFree, PlaceKept, ClientTruth, CatchingUp, PTL

-----------------------------------------------------------------------------
(* One change, one event.                                                  *)

\* e is a frame of o.
FrameOf(e, o) == e.kind = "order" /\ e.state[o] # Absent

\* The newest frame of o in q is at i.
NewestFrame(q, o, i) ==
    /\ i \in DOMAIN q /\ FrameOf(q[i], o)
    /\ \A k \in DOMAIN q : k > i => ~FrameOf(q[k], o)

\* Successive frames of o in q differ.
Unrepeated(q, o) ==
    \A i, j \in DOMAIN q :
        i < j /\ (\A k \in i..j : FrameOf(q[k], o) <=> k \in {i, j})
            => q[i].state[o] # q[j].state[o]

\* The memory m holds the frame (o, s).
Remembered(m, o, s) == \E d \in DOMAIN m : m[d] = [order |-> o, state |-> s]

\* With room for every order, the memory holds the newest frame of each in the ring.
FramesInv ==
    Cardinality(Orders) <= DedupSize =>
        \A o \in Orders :
            /\ Unrepeated(buffer, o)
            /\ \A i : NewestFrame(buffer, o, i) => Remembered(dedup, o, buffer[i].state[o])

\* p, of length m, is q, of length n, without its first h events and with e behind.
Shifted(q, e, p, h, n, m) ==
    /\ n = Len(q) /\ m = n + 1 - h /\ m > 0
    /\ DOMAIN q = 1..n /\ DOMAIN p = 1..m
    /\ p[m] = e
    /\ \A i \in 1..(m - 1) : i + h \in 1..n /\ p[i] = q[i + h]

\* After a push the event is last, and the rest is as before, shifted if one was shed.
LEMMA PushShifts ==
    ASSUME NEW q \in Seq(Event), NEW e \in Event, NEW max \in Nat \ {0},
           NEW p, p = PushBounded(q, e, max)
    PROVE  \E h \in {0, 1}, n \in Nat, m \in Nat : Shifted(q, e, p, h, n, m)
<1>1. PICK n \in Nat : n = Len(q) /\ DOMAIN q = 1..n
  OBVIOUS
<1>2. CASE n < max
  <2>1. p = Append(q, e)
    BY <1>1, <1>2 DEF PushBounded
  <2>2. DOMAIN p = 1..(n + 1) /\ p[n + 1] = e /\ \A i \in 1..n : p[i] = q[i]
    BY <1>1, <2>1
  <2>3. PICK m \in Nat : m = n + 1
    OBVIOUS
  <2>4. Shifted(q, e, p, 0, n, m)
    BY <1>1, <2>2, <2>3 DEF Shifted
  <2>. QED BY <2>4
<1>3. CASE ~(n < max)
  <2>1. n > 0
    BY <1>3
  <2>2. p = Append(Tail(q), e)
    BY <1>1, <1>3 DEF PushBounded
  <2>3. PICK t \in Seq(Event) : t = Tail(q)
    <3>1. q # <<>>
      BY <1>1, <2>1
    <3>. QED BY <3>1, HeadTailProperties
  <2>4. Len(t) = n - 1 /\ \A i \in 1..(n - 1) : t[i] = q[i + 1]
    BY <1>1, <2>1, <2>3
  <2>5. DOMAIN p = 1..n /\ p[n] = e /\ \A i \in 1..(n - 1) : p[i] = t[i]
    BY <2>1, <2>2, <2>3, <2>4
  <2>6. \A i \in 1..(n - 1) : i + 1 \in 1..n /\ p[i] = q[i + 1]
    BY <2>4, <2>5
  <2>7. Shifted(q, e, p, 1, n, n)
    BY <1>1, <2>1, <2>5, <2>6 DEF Shifted
  <2>. QED BY <2>7
<1>. QED BY <1>2, <1>3

\* What a push makes of the frames of o.
LEMMA PushedFrames ==
    ASSUME NEW q \in Seq(Event), NEW e \in Event, NEW max \in Nat \ {0},
           NEW p, p = PushBounded(q, e, max), NEW o
    PROVE  /\ FrameOf(e, o) => \A i : NewestFrame(p, o, i) => p[i] = e
           /\ ~FrameOf(e, o) =>
                \A i : NewestFrame(p, o, i) => \E j : NewestFrame(q, o, j) /\ q[j] = p[i]
           /\ /\ Unrepeated(q, o)
              /\ FrameOf(e, o) =>
                   \A i : NewestFrame(q, o, i) => q[i].state[o] # e.state[o]
              => Unrepeated(p, o)
<1>1. PICK h \in {0, 1}, n \in Nat, m \in Nat :
             /\ n = Len(q) /\ m = n + 1 - h /\ m > 0
             /\ DOMAIN q = 1..n /\ DOMAIN p = 1..m
             /\ p[m] = e
             /\ \A i \in 1..(m - 1) : i + h \in 1..n /\ p[i] = q[i + h]
  <2>1. \E h \in {0, 1}, n \in Nat, m \in Nat : Shifted(q, e, p, h, n, m)
    BY PushShifts
  <2>. QED BY <2>1 DEF Shifted
<1>2. ASSUME NEW i, NEW k \in 1..n, k > i + h, i \in 1..(m - 1)
      PROVE  k - h \in 1..(m - 1) /\ k - h > i /\ p[k - h] = q[k]
  <2>1. PICK l \in Int : l = k - h
    OBVIOUS
  <2>2. l \in 1..(m - 1) /\ l > i /\ l + h = k
    BY <1>1, <1>2, <2>1
  <2>. QED BY <1>1, <2>1, <2>2
<1>3. ASSUME FrameOf(e, o), NEW i, NewestFrame(p, o, i) PROVE p[i] = e
  <2>1. i \in 1..m /\ m \in DOMAIN p
    BY <1>1, <1>3 DEF NewestFrame
  <2>2. ~(m > i)
    BY <1>1, <1>3, <2>1 DEF NewestFrame
  <2>3. i = m
    BY <2>1, <2>2
  <2>. QED BY <1>1, <2>3
<1>4. ASSUME ~FrameOf(e, o), NEW i, NewestFrame(p, o, i)
      PROVE  \E j : NewestFrame(q, o, j) /\ q[j] = p[i]
  <2>1. i \in 1..m /\ i # m
    BY <1>1, <1>4 DEF NewestFrame
  <2>2. i \in 1..(m - 1)
    BY <2>1
  <2>3. i + h \in 1..n /\ p[i] = q[i + h]
    BY <1>1, <2>2
  <2>4. ASSUME NEW k \in 1..n, k > i + h PROVE ~FrameOf(q[k], o)
    <3>1. k - h \in DOMAIN p /\ k - h > i /\ p[k - h] = q[k]
      BY <1>1, <1>2, <2>2, <2>4
    <3>. QED BY <1>4, <3>1 DEF NewestFrame
  <2>5. NewestFrame(q, o, i + h)
    BY <1>1, <1>4, <2>3, <2>4 DEF NewestFrame
  <2>. QED BY <2>3, <2>5
<1>5. ASSUME Unrepeated(q, o),
             FrameOf(e, o) => \A i : NewestFrame(q, o, i) => q[i].state[o] # e.state[o],
             NEW i \in 1..m, NEW j \in 1..m, i < j,
             \A k \in i..j : FrameOf(p[k], o) <=> k \in {i, j}
      PROVE  p[i].state[o] # p[j].state[o]
  <2>1. i \in 1..(m - 1) /\ i + h \in 1..n /\ p[i] = q[i + h]
    BY <1>1, <1>5
  <2>2. FrameOf(p[i], o) /\ FrameOf(p[j], o)
    BY <1>5
  <2>3. CASE j = m
    <3>1. p[j] = e
      BY <1>1, <2>3
    <3>2. ASSUME NEW k \in 1..n, k > i + h PROVE ~FrameOf(q[k], o)
      <4>1. k - h \in 1..(m - 1) /\ k - h > i /\ p[k - h] = q[k]
        BY <1>2, <2>1, <3>2
      <4>2. k - h \in i..j /\ k - h \notin {i, j}
        BY <2>3, <4>1
      <4>. QED BY <1>5, <4>1, <4>2
    <3>3. NewestFrame(q, o, i + h)
      BY <1>1, <2>1, <2>2, <3>2 DEF NewestFrame
    <3>. QED BY <1>5, <2>1, <2>2, <3>1, <3>3
  <2>4. CASE j # m
    <3>1. j \in 1..(m - 1) /\ j + h \in 1..n /\ p[j] = q[j + h]
      <4>1. j \in 1..(m - 1)
        BY <2>4
      <4>. QED BY <1>1, <4>1
    <3>0. PICK a \in 1..n, b \in 1..n : a = i + h /\ b = j + h
      BY <2>1, <3>1
    <3>2. a < b
      BY <1>5, <3>0
    <3>3. ASSUME NEW k \in a..b
          PROVE  FrameOf(q[k], o) <=> k \in {a, b}
      <4>1. PICK l \in Int : l = k - h
        OBVIOUS
      <4>2. l \in i..j /\ l \in 1..(m - 1) /\ l + h = k
        BY <2>1, <3>0, <3>1, <3>3, <4>1
      <4>3. p[l] = q[k]
        BY <1>1, <4>2
      <4>4. l \in {i, j} <=> k \in {a, b}
        BY <3>0, <4>2
      <4>. QED BY <1>5, <4>2, <4>3, <4>4
    <3>4. a \in DOMAIN q /\ b \in DOMAIN q
      BY <1>1
    <3>5. q[a].state[o] # q[b].state[o]
      BY <1>5, <3>2, <3>3, <3>4 DEF Unrepeated
    <3>. QED BY <2>1, <3>0, <3>1, <3>5
  <2>. QED BY <2>3, <2>4
<1>6. /\ Unrepeated(q, o)
      /\ FrameOf(e, o) => \A i : NewestFrame(q, o, i) => q[i].state[o] # e.state[o]
      => Unrepeated(p, o)
  <2>1. DOMAIN p = 1..m
    BY <1>1
  <2>. QED BY <1>5, <2>1 DEF Unrepeated
<1>. QED BY <1>3, <1>4, <1>6

\* With room for every order, an order's report pushes no other order's entry out.
LEMMA MemoryHasRoom ==
    ASSUME TypeOK, Distinct(dedup), IsFiniteSet(Orders), Cardinality(Orders) <= DedupSize,
           NEW o \in Orders
    PROVE  Len(Forget(o)) < DedupSize
<1>1. PICK f : f = Forget(o)
  OBVIOUS
<1>2. /\ f \in Seq([order : Orders, state : States])
      /\ \A k \in DOMAIN f : f[k].order # o
      /\ Distinct(f)
  BY <1>1, ForgetFacts
<1>3. PICK n \in Nat : n = Len(f) /\ DOMAIN f = 1..n
  BY <1>2
<1>4. \A k \in DOMAIN f : f[k].order \in Orders
  <2>1. \A k \in DOMAIN f : f[k] \in [order : Orders, state : States]
    BY <1>2, ElementOf
  <2>. QED BY <2>1
<1>5. PICK T : T = Orders \ {o}
  OBVIOUS
<1>6. /\ IsFiniteSet(T) /\ Cardinality(T) = Cardinality(Orders) - 1
      /\ Cardinality(Orders) \in Nat /\ Cardinality(T) \in Nat
  BY <1>5, FS_RemoveElement, FS_CardinalityType
<1>7. PICK g : g = [k \in 1..n |-> f[k].order]
  OBVIOUS
<1>8. g \in [1..n -> T]
  BY <1>2, <1>3, <1>4, <1>5, <1>7
<1>9. IsFiniteSet(1..n) /\ Cardinality(1..n) = n
  <2>1. IsFiniteSet(1..n) /\ Cardinality(1..n) = IF 1 > n THEN 0 ELSE n - 1 + 1
    BY FS_Interval
  <2>. QED BY <1>3, <2>1
<1>10. ~(Cardinality(T) < n)
  <2>. SUFFICES ASSUME Cardinality(T) < n PROVE FALSE
    OBVIOUS
  <2>1. \E x, y \in 1..n : x # y /\ g[x] = g[y]
    BY <1>6, <1>8, <1>9, FS_PigeonHole
  <2>2. PICK x \in 1..n, y \in 1..n : x # y /\ f[x].order = f[y].order
    BY <1>7, <2>1
  <2>. QED BY <1>2, <1>3, <2>2 DEF Distinct
<1>11. n < DedupSize
  BY <1>3, <1>6, <1>10, SizesAssumption
<1>. QED BY <1>1, <1>3, <1>11

\* The ring never holds two successive frames of an order that say the same.
THEOREM FramesDiffer ==
    ASSUME IsFiniteSet(Orders)
    PROVE  Spec => []NoRepeatedFrames
<1>1. Init => FramesInv
  BY DEF Init, FramesInv, Unrepeated, NewestFrame
<1>2. TypeOK /\ MemoryInv /\ FramesInv /\ [Next]_vars => FramesInv'
  <2>. SUFFICES ASSUME TypeOK, MemoryInv, FramesInv, [Next]_vars,
                       Cardinality(Orders) <= DedupSize
                PROVE  FramesInv'
    BY DEF FramesInv
  <2>. USE DEF subVars, connVars, clientVars, histVars
  <2>0. \A o \in Orders :
           /\ Unrepeated(buffer, o)
           /\ \A i : NewestFrame(buffer, o, i) => Remembered(dedup, o, buffer[i].state[o])
    BY DEF FramesInv
  <2>1. ASSUME UNCHANGED <<buffer, dedup>>
        PROVE  FramesInv'
    BY <2>1 DEF FramesInv
  <2>2. PICK b \in Seq(Event), memory \in {dedup} : b = buffer /\ memory = dedup
    BY DEF TypeOK
  <2>3. ASSUME NEW o \in Orders, NEW s \in States, BrokerEvent(o, s)
        PROVE  FramesInv'
    <3>1. CASE ~(up /\ registered)
      <4>1. UNCHANGED <<buffer, dedup>>
        BY <2>3, <3>1 DEF BrokerEvent, PublishOrder
      <4>. QED BY <4>1, <2>1
    <3>2. CASE up /\ registered
      <4>1. dedup' = Remember(o, s)
        BY <2>3, <3>2 DEF BrokerEvent, PublishOrder
      <4>2. PICK r : r = Remember(o, s)
        OBVIOUS
      <4>3. Remembered(r, o, s)
        BY <4>2, RememberFacts DEF MemoryInv, Remembered
      <4>4. \A j \in DOMAIN memory : memory[j].order # o => \E i \in DOMAIN r : r[i] = memory[j]
        BY <2>2, <4>2, RememberFacts, MemoryHasRoom DEF MemoryInv
      <4>5. \A p \in Orders : \A x : p # o /\ Remembered(memory, p, x) => Remembered(r, p, x)
        <5>1. ASSUME NEW p \in Orders, NEW x, p # o, NEW d \in DOMAIN memory,
                     memory[d] = [order |-> p, state |-> x]
              PROVE  \E i \in DOMAIN r : r[i] = [order |-> p, state |-> x]
          <6>1. memory[d].order = p
            BY <5>1
          <6>. QED BY <4>4, <5>1, <6>1
        <5>. QED BY <5>1 DEF Remembered
      <4>6. CASE IsDuplicate(o, s)
        <5>1. buffer' = b
          BY <2>2, <2>3, <3>2, <4>6 DEF BrokerEvent, PublishOrder
        <5>2. \A x : Remembered(memory, o, x) => x = s
          <6>1. PICK d \in DOMAIN memory : memory[d] = [order |-> o, state |-> s]
            BY <2>2, <4>6 DEF IsDuplicate
          <6>2. ASSUME NEW x, NEW e \in DOMAIN memory, memory[e] = [order |-> o, state |-> x]
                PROVE  x = s
            <7>1. d = e
              BY <2>2, <6>1, <6>2 DEF MemoryInv, Distinct
            <7>2. memory[d].state = s /\ memory[e].state = x
              BY <6>1, <6>2
            <7>. QED BY <7>1, <7>2
          <6>. QED BY <6>2 DEF Remembered
        <5>3. ASSUME NEW p \in Orders, NEW x, Remembered(memory, p, x) PROVE Remembered(r, p, x)
          BY <4>3, <4>5, <5>2, <5>3
        <5>4. \A p \in Orders :
                 /\ Unrepeated(b, p)
                 /\ \A i : NewestFrame(b, p, i) => Remembered(r, p, b[i].state[p])
          BY <2>0, <2>2, <5>3
        <5>. QED BY <4>1, <4>2, <5>1, <5>4 DEF FramesInv
      <4>7. CASE ~IsDuplicate(o, s)
        <5>1. PICK e \in Event :
                 /\ Published(e) /\ e.kind = "order"
                 /\ \A p \in Orders : (Tells(e, p) <=> p = o) /\ (p = o => e.state[p] = s)
          <6>1. Announced(o, s)
            BY <2>3, <3>2, <4>7, ReportCases
          <6>. QED BY <6>1 DEF Announced
        <5>2. /\ \A p \in Orders : (FrameOf(e, p) <=> p = o) /\ (p = o => e.state[p] = s)
              /\ buffer' = PushBounded(b, e, BufferSize)
          BY <2>2, <5>1 DEF FrameOf, Tells, Published
        <5>3. PICK t : t = PushBounded(b, e, BufferSize)
          OBVIOUS
        <5>4. ASSUME NEW p \in Orders
              PROVE  /\ Unrepeated(t, p)
                     /\ \A i : NewestFrame(t, p, i) => Remembered(r, p, t[i].state[p])
          <6>1. /\ FrameOf(e, p) => \A i : NewestFrame(t, p, i) => t[i] = e
                /\ ~FrameOf(e, p) =>
                     \A i : NewestFrame(t, p, i) => \E j : NewestFrame(b, p, j) /\ b[j] = t[i]
                /\ /\ Unrepeated(b, p)
                   /\ FrameOf(e, p) =>
                        \A i : NewestFrame(b, p, i) => b[i].state[p] # e.state[p]
                   => Unrepeated(t, p)
            BY <5>3, PushedFrames, SizesAssumption
          <6>2. CASE p = o
            <7>1. FrameOf(e, p) /\ e.state[p] = s
              BY <5>2, <6>2
            <7>2. \A i : NewestFrame(b, p, i) => b[i].state[p] # e.state[p]
              BY <2>0, <2>2, <4>7, <6>2, <7>1 DEF IsDuplicate, Remembered
            <7>3. Unrepeated(t, p)
              BY <2>0, <2>2, <6>1, <7>2
            <7>. QED BY <4>3, <6>1, <6>2, <7>1, <7>3
          <6>3. CASE p # o
            <7>1. ~FrameOf(e, p)
              BY <5>2, <6>3
            <7>2. Unrepeated(t, p)
              BY <2>0, <2>2, <6>1, <7>1
            <7>3. ASSUME NEW i, NewestFrame(t, p, i) PROVE Remembered(r, p, t[i].state[p])
              <8>1. PICK j : NewestFrame(b, p, j) /\ b[j] = t[i]
                BY <6>1, <7>1, <7>3
              <8>2. Remembered(memory, p, b[j].state[p])
                BY <2>0, <2>2, <8>1
              <8>3. Remembered(r, p, b[j].state[p])
                BY <4>5, <6>3, <8>2
              <8>. QED BY <8>1, <8>3
            <7>. QED BY <7>2, <7>3
          <6>. QED BY <6>2, <6>3
        <5>. QED BY <4>1, <4>2, <5>2, <5>3, <5>4 DEF FramesInv
      <4>. QED BY <4>6, <4>7
    <3>. QED BY <3>1, <3>2
  <2>4. ASSUME NEW c \in Clients, NEW header \in {None, lastId[c]}, Subscribe(c, header)
        PROVE  FramesInv'
    <3>1. dedup' = memory
      BY <2>2, <2>4 DEF Subscribe
    <3>2. CASE OpenTrades = NothingKnown
      BY <2>4, <3>2, <2>1 DEF Subscribe
    <3>3. CASE OpenTrades # NothingKnown
      <4>. DEFINE e == [id |-> nextId, kind |-> "bootstrap", state |-> OpenTrades]
      <4>1. e \in Event /\ \A p \in Orders : ~FrameOf(e, p)
        BY OpenTradesType DEF TypeOK, Event, FrameOf
      <4>2. buffer' = PushBounded(b, e, BufferSize)
        BY <2>2, <2>4, <3>3 DEF Subscribe, Publish
      <4>3. PICK t : t = PushBounded(b, e, BufferSize)
        OBVIOUS
      <4>. HIDE DEF e
      <4>4. ASSUME NEW p \in Orders
            PROVE  /\ Unrepeated(t, p)
                   /\ \A i : NewestFrame(t, p, i) => Remembered(memory, p, t[i].state[p])
        <5>1. /\ ~FrameOf(e, p) =>
                   \A i : NewestFrame(t, p, i) => \E j : NewestFrame(b, p, j) /\ b[j] = t[i]
              /\ /\ Unrepeated(b, p)
                 /\ FrameOf(e, p) =>
                      \A i : NewestFrame(b, p, i) => b[i].state[p] # e.state[p]
                 => Unrepeated(t, p)
          BY <4>1, <4>3, PushedFrames, SizesAssumption
        <5>2. Unrepeated(t, p)
          BY <2>0, <2>2, <4>1, <5>1
        <5>3. ASSUME NEW i, NewestFrame(t, p, i) PROVE Remembered(memory, p, t[i].state[p])
          <6>1. PICK j : NewestFrame(b, p, j) /\ b[j] = t[i]
            BY <4>1, <5>1, <5>3
          <6>2. Remembered(memory, p, b[j].state[p])
            BY <2>0, <2>2, <6>1
          <6>. QED BY <6>1, <6>2
        <5>. QED BY <5>2, <5>3
      <4>. QED BY <3>1, <4>2, <4>3, <4>4 DEF FramesInv
    <3>. QED BY <3>2, <3>3
  <2>5. ASSUME NEW o \in Orders, NEW s \in LocalStates, LocalChange(o, s)
        PROVE  FramesInv'
    BY <2>5, <2>1 DEF LocalChange
  <2>6. CASE CoolDownExpires
    <3>1. CASE UNCHANGED <<buffer, dedup>>
      BY <3>1, <2>1
    <3>2. CASE buffer' = <<>>
      BY <3>2 DEF FramesInv, Unrepeated, NewestFrame
    <3>. QED BY <2>6, <3>1, <3>2 DEF CoolDownExpires
  <2>7. CASE Shutdown
    BY <2>7, <2>1 DEF Shutdown
  <2>8. CASE UNCHANGED vars
    BY <2>8, <2>1 DEF vars
  <2>9. ASSUME NEW c \in Clients,
               \/ StartReplay(c) \/ FetchReplay(c) \/ FetchLive(c) \/ Deliver(c)
               \/ Detach(c) \/ Abandon(c) \/ Vanish(c)
        PROVE  FramesInv'
    BY <2>9, <2>1 DEF StartReplay, FetchReplay, FetchLive, Deliver, Detach, Abandon, Vanish
  <2>. QED BY <2>3, <2>4, <2>5, <2>6, <2>7, <2>8, <2>9 DEF Next, Disconnect, SendFails
<1>3. FramesInv => NoRepeatedFrames
  <2>. SUFFICES ASSUME FramesInv, Cardinality(Orders) <= DedupSize, NEW o \in Orders,
                       NEW i \in DOMAIN buffer, NEW j \in DOMAIN buffer, i < j,
                       \A k \in i..j : buffer[k].kind = "order" /\ buffer[k].state[o] # Absent
                                          <=> k \in {i, j}
                PROVE  buffer[i].state[o] # buffer[j].state[o]
    BY DEF NoRepeatedFrames
  <2>1. Unrepeated(buffer, o)
    BY DEF FramesInv
  <2>2. \A k \in i..j : FrameOf(buffer[k], o) <=> k \in {i, j}
    BY DEF FrameOf
  <2>. QED BY <2>1, <2>2 DEF Unrepeated
<1>. QED BY <1>1, <1>2, <1>3, TypeCorrect, MemoryKept, PTL DEF Spec

\* Every event after the last one a resuming client saw is on its way to it, and every
\* change of an order is one event.
THEOREM ChangesComeOnce ==
    ASSUME IsFiniteSet(Orders)
    PROVE  Spec => []EveryChangeOnce
<1>1. NoSilentGap /\ NoRepeatedFrames => EveryChangeOnce
  BY DEF EveryChangeOnce
<1>. QED BY <1>1, ResumeIsGapFree, FramesDiffer, PTL

-----------------------------------------------------------------------------
(* The stream is the feed.                                                 *)

\* A run of ids is the interval up to the newest.
LEMMA IdsOfRun ==
    ASSUME NEW q \in Seq(Event), NEW n \in Nat, EndsAt(q, n)
    PROVE  Ids(q) = (n - Len(q))..(n - 1)
<1>1. Len(q) \in Nat /\ DOMAIN q = 1..Len(q)
  OBVIOUS
<1>2. ASSUME NEW id \in Ids(q) PROVE id \in (n - Len(q))..(n - 1)
  <2>1. PICK i \in 1..Len(q) : id = q[i].id
    BY <1>1 DEF Ids
  <2>2. q[i].id = n - Len(q) + i - 1
    BY <1>1 DEF EndsAt
  <2>. QED BY <1>1, <2>1, <2>2
<1>3. ASSUME NEW id \in (n - Len(q))..(n - 1) PROVE id \in Ids(q)
  <2>1. PICK i : i = id - (n - Len(q)) + 1
    OBVIOUS
  <2>2. i \in 1..Len(q) /\ id = n - Len(q) + i - 1
    BY <1>1, <2>1
  <2>3. q[i].id = id
    BY <1>1, <2>2 DEF EndsAt
  <2>. QED BY <1>1, <2>2, <2>3 DEF Ids
<1>. QED BY <1>2, <1>3

\* A ring that has shed an event is full.
RingFull == Len(buffer) = nextId \/ Len(buffer) = BufferSize

LEMMA RingFills == Spec => []RingFull
<1>1. Init => RingFull
  BY DEF Init, RingFull
<1>2. TypeOK /\ UnbrokenRuns /\ RingFull /\ [Next]_vars => RingFull'
  <2>. SUFFICES ASSUME TypeOK, UnbrokenRuns, RingFull, [Next]_vars PROVE RingFull'
    OBVIOUS
  <2>1. CASE Silent
    BY <2>1 DEF Silent, RingFull
  <2>2. ASSUME NEW e \in Event, Published(e) PROVE RingFull'
    <3>1. /\ buffer \in Seq(Event) /\ Len(buffer) <= BufferSize /\ Len(buffer) \in Nat
          /\ nextId \in Nat /\ BufferSize \in Nat \ {0}
      BY SizesAssumption DEF TypeOK, UnbrokenRuns
    <3>2. PICK p : p = PushBounded(buffer, e, BufferSize)
      OBVIOUS
    <3>3. Len(p) = IF Len(buffer) < BufferSize THEN Len(buffer) + 1 ELSE Len(buffer)
      BY <3>1, <3>2, PushLen
    <3>4. buffer' = p /\ nextId' = nextId + 1
      BY <2>2, <3>2 DEF Published
    <3>. QED BY <3>1, <3>3, <3>4 DEF RingFull
  <2>3. CASE Restarts
    BY <2>3 DEF Restarts, RingFull
  <2>. QED BY <2>1, <2>2, <2>3, EveryStreamStep
<1>. QED BY <1>1, <1>2, TypeCorrect, RunsUnbroken, PTL DEF Spec

\* What is left of a snapshot was published, and is newer than what its client has.
Onward(c) ==
    phase[c] = "open" =>
        \A id \in Ids(replay[c]) : /\ id < nextId
                                   /\ id > since[c] => id > NewestId(c)

OnwardInv == \A c \in Clients : Onward(c)

\* Ids are numbers, and None is below them all.
LEMMA IdTypes ==
    ASSUME TypeOK, NEW c \in Clients
    PROVE  /\ nextId \in Nat
           /\ lastId[c] \in Int /\ lastId[c] >= -1 /\ since[c] \in Int /\ since[c] >= -1
           /\ HandedId(c) \in Int /\ HandedId(c) >= -1
           /\ NewestId(c) \in Int /\ NewestId(c) >= -1
           /\ Ids(replay[c]) \subseteq Nat /\ RestIds(c) \subseteq Nat
           /\ phase[c] = "open" /\ pending[c] # <<>> =>
                 HandedId(c) \in Nat /\ HandedId(c) = pending[c][1].id
           /\ phase[c] # "open" \/ pending[c] = <<>> =>
                 HandedId(c) = None /\ NewestId(c) = lastId[c]
<1>1. lastId[c] \in Nat \cup {None} /\ since[c] \in Nat \cup {None} /\ nextId \in Nat
  BY DEF TypeOK
<1>2. /\ lastId[c] \in Int /\ lastId[c] >= -1
      /\ since[c] \in Int /\ since[c] >= -1
  BY <1>1 DEF None
<1>3. ASSUME pending[c] # <<>> PROVE pending[c][1].id \in Nat
  <2>1. pending[c] \in Seq(Event)
    BY DEF TypeOK
  <2>2. pending[c][1] \in Event
    BY <1>3, <2>1
  <2>. QED BY <2>2 DEF Event
<1>4. HandedId(c) \in Nat \cup {None}
  BY <1>3 DEF HandedId
<1>5. NewestId(c) \in Nat \cup {None}
  BY <1>1, <1>4 DEF NewestId
<1>6. Ids(replay[c]) \subseteq Nat
  <2>1. replay[c] \in Seq(Event)
    BY DEF TypeOK
  <2>2. \A i \in DOMAIN replay[c] : replay[c][i] \in Event
    BY <2>1
  <2>3. \A i \in DOMAIN replay[c] : replay[c][i].id \in Nat
    BY <2>2 DEF Event
  <2>. QED BY <2>3 DEF Ids
<1>7. RestIds(c) \subseteq Nat
  BY <1>6 DEF RestIds
<1>8. phase[c] = "open" /\ pending[c] # <<>> =>
         HandedId(c) \in Nat /\ HandedId(c) = pending[c][1].id
  BY <1>3 DEF HandedId
<1>9. phase[c] # "open" \/ pending[c] = <<>> =>
         HandedId(c) = None /\ NewestId(c) = lastId[c]
  BY DEF HandedId, NewestId
<1>10. HandedId(c) \in Int /\ HandedId(c) >= -1 /\ NewestId(c) \in Int /\ NewestId(c) >= -1
  BY <1>4, <1>5 DEF None
<1>. QED BY <1>1, <1>2, <1>6, <1>7, <1>8, <1>9, <1>10

\* What a fetch from the snapshot takes is the first id of what is left of it.
LEMMA FirstOfRest ==
    ASSUME TypeOK, NEW c \in Clients, Place(c), FetchReplay(c)
    PROVE  \E h \in Nat, k \in Nat :
             /\ pending[c] = <<>> /\ pending'[c] # <<>> /\ pending'[c][1].id = h
             /\ RestIds(c) = h..(h + k)
             /\ Ids(replay'[c]) = (h + 1)..(h + k)
             /\ since'[c] = since[c] /\ since[c] < h
<1>1. PICK i \in 1..Len(replay[c]) :
         /\ replay[c][i].id > since[c]
         /\ \A j \in 1..(i - 1) : replay[c][j].id <= since[c]
         /\ pending[c] = <<>> /\ pending'[c] = <<replay[c][i]>>
         /\ replay'[c] \in Seq(Event)
         /\ Len(replay'[c]) = Len(replay[c]) - i
         /\ \A j \in 1..Len(replay'[c]) : replay'[c][j] = replay[c][i + j]
  BY FetchReplayFacts
<1>2. PICK q, t : q = replay[c] /\ t = replay'[c]
  OBVIOUS
<1>3. PICK s : s = since[c]
  OBVIOUS
<1>4. q \in Seq(Event) /\ t \in Seq(Event) /\ s \in Int /\ since'[c] = s
  BY <1>1, <1>2, <1>3, IdTypes DEF TypeOK, FetchReplay
<1>5. Len(q) \in Nat /\ Len(t) \in Nat /\ i \in Nat /\ i >= 1 /\ i <= Len(q)
      /\ Len(t) = Len(q) - i /\ DOMAIN q = 1..Len(q) /\ DOMAIN t = 1..Len(t)
  BY <1>1, <1>2, <1>4
<1>6. PICK h \in Nat : h = q[i].id
  <2>1. q[i] \in Event
    BY <1>4, <1>5
  <2>. QED BY <2>1 DEF Event
<1>7. PICK f \in Nat : f = q[1].id
  <2>1. q[1] \in Event
    BY <1>4, <1>5
  <2>. QED BY <2>1 DEF Event
<1>8. \A j \in 1..Len(q) : q[j].id = f + j - 1
  BY <1>2, <1>5, <1>7 DEF Place
<1>9. h = f + i - 1
  BY <1>5, <1>6, <1>8
<1>10. Ids(t) = (h + 1)..(h + Len(t))
  <2>1. ASSUME NEW j \in 1..Len(t) PROVE t[j].id = h + j
    <3>1. t[j] = q[i + j] /\ i + j \in 1..Len(q)
      BY <1>1, <1>2, <1>5
    <3>. QED BY <1>8, <1>9, <1>5, <3>1
  <2>2. ASSUME NEW id \in (h + 1)..(h + Len(t)) PROVE id \in Ids(t)
    <3>1. id - h \in 1..Len(t) /\ t[id - h].id = h + (id - h)
      BY <1>5, <2>1
    <3>. QED BY <1>5, <3>1 DEF Ids
  <2>3. ASSUME NEW id \in Ids(t) PROVE id \in (h + 1)..(h + Len(t))
    <3>1. PICK j \in 1..Len(t) : id = t[j].id
      BY <1>5, <2>3 DEF Ids
    <3>. QED BY <1>5, <2>1, <3>1
  <2>. QED BY <2>2, <2>3
<1>11. RestIds(c) = h..(h + Len(t))
  <2>1. ASSUME NEW id \in RestIds(c) PROVE id \in h..(h + Len(t))
    <3>1. PICK j \in 1..Len(q) : id = q[j].id /\ id > s
      BY <1>2, <1>3, <1>5, <2>1 DEF RestIds, Ids
    <3>2. j \notin 1..(i - 1)
      <4>1. ASSUME j \in 1..(i - 1) PROVE FALSE
        <5>1. q[j].id <= s
          BY <1>1, <1>2, <1>3, <4>1
        <5>2. id \in Nat
          BY <2>1, IdTypes
        <5>. QED BY <1>4, <3>1, <5>1, <5>2
      <4>. QED BY <4>1
    <3>3. id = f + j - 1 /\ j >= i
      BY <1>5, <1>8, <3>1, <3>2
    <3>. QED BY <1>5, <1>9, <3>3
  <2>2. ASSUME NEW id \in h..(h + Len(t)) PROVE id \in RestIds(c)
    <3>1. PICK j : j = i + (id - h)
      OBVIOUS
    <3>2. j \in 1..Len(q) /\ q[j].id = id
      <4>1. id \in Nat /\ j \in 1..Len(q) /\ f + j - 1 = id
        BY <1>5, <1>9, <3>1
      <4>. QED BY <1>8, <4>1
    <3>3. id > s
      BY <1>1, <1>2, <1>3, <1>4, <1>6
    <3>. QED BY <1>2, <1>3, <1>5, <3>2, <3>3 DEF RestIds, Ids
  <2>. QED BY <2>1, <2>2
<1>12. s < h
  BY <1>1, <1>2, <1>3, <1>4, <1>6
<1>13. pending'[c] # <<>> /\ pending'[c][1].id = h
  BY <1>1, <1>2, <1>6
<1>14. WITNESS h \in Nat, Len(t) \in Nat
<1>. QED BY <1>1, <1>2, <1>3, <1>4, <1>10, <1>11, <1>12, <1>13

LEMMA SnapshotsLeadOn == Spec => []OnwardInv
<1>1. Init => OnwardInv
  BY DEF Init, OnwardInv, Onward
<1>2. TypeOK /\ TypeOK' /\ UnbrokenRuns /\ PlaceInv /\ OnwardInv /\ [Next]_vars => OnwardInv'
  <2>. SUFFICES ASSUME TypeOK, TypeOK', UnbrokenRuns, PlaceInv, OnwardInv, [Next]_vars,
                       NEW c \in Clients
                PROVE  Onward(c)'
    BY DEF OnwardInv
  <2>0. Onward(c) /\ Place(c) /\ StepOf(c)
    BY EveryStep DEF OnwardInv, PlaceInv
  <2>1. ASSUME nextId' \in {nextId, nextId + 1}, KeepsPlace(c) PROVE Onward(c)'
    <3>1. Ids(replay[c])' = Ids(replay[c]) /\ NewestId(c)' = NewestId(c)
          /\ since'[c] = since[c] /\ phase'[c] = phase[c]
      BY <2>1 DEF KeepsPlace, Ids, NewestId, HandedId
    <3>2. Ids(replay[c]) \subseteq Nat /\ nextId \in Nat
      BY IdTypes
    <3>. QED BY <2>0, <2>1, <3>1, <3>2 DEF Onward
  <2>2. CASE phase'[c] # "open"
    BY <2>2 DEF Onward
  <2>3. CASE Rests(c) \/ \E e \in Event : IsSent(c, e)
    BY <2>1, <2>3 DEF Rests, IsSent, Silent, Published
  <2>4. CASE StartReplay(c)
    <3>1. /\ replay'[c] = buffer /\ since'[c] = since[c] /\ nextId' = nextId
          /\ since[c] = lastId[c] /\ lastId'[c] = lastId[c] /\ pending'[c] = <<>>
      BY <2>0, <2>4 DEF StartReplay, Snapshot, Place, subVars, clientVars, TypeOK
    <3>2. Ids(buffer) = (nextId - Len(buffer))..(nextId - 1) /\ Len(buffer) \in Nat
          /\ nextId \in Nat
      BY IdsOfRun DEF TypeOK, UnbrokenRuns
    <3>3. NewestId(c)' = since'[c]
      BY <3>1 DEF NewestId, HandedId
    <3>4. Ids(replay[c])' = Ids(buffer)
      BY <3>1 DEF Ids
    <3>. QED BY <3>1, <3>2, <3>3, <3>4 DEF Onward
  <2>5. CASE FetchReplay(c) /\ phase[c] = "open"
    <3>1. PICK h \in Nat, k \in Nat :
             /\ pending'[c] # <<>> /\ pending'[c][1].id = h
             /\ RestIds(c) = h..(h + k) /\ Ids(replay'[c]) = (h + 1)..(h + k)
      BY <2>0, <2>5, FirstOfRest
    <3>2. phase'[c] = phase[c] /\ nextId' = nextId /\ nextId \in Nat
      BY <2>5, IdTypes DEF FetchReplay, subVars
    <3>3. NewestId(c)' = h
      BY <2>5, <3>1, <3>2 DEF NewestId, HandedId, None
    <3>4. h + k \in RestIds(c)
      BY <3>1
    <3>5. h + k < nextId
      BY <2>0, <2>5, <3>4 DEF Onward, RestIds
    <3>6. Ids(replay[c])' = (h + 1)..(h + k)
      BY <3>1 DEF Ids
    <3>. QED BY <3>2, <3>3, <3>5, <3>6 DEF Onward
  <2>6. CASE FetchLive(c)
    <3>1. replay'[c] = <<>>
      BY <2>6 DEF FetchLive, TypeOK
    <3>. QED BY <3>1 DEF Onward, Ids
  <2>7. CASE Deliver(c)
    <3>1. /\ phase'[c] = "open" /\ phase[c] = "open" /\ pending[c] # <<>>
          /\ pending'[c] = <<>> /\ lastId'[c] = pending[c][1].id
          /\ replay'[c] = replay[c] /\ since'[c] = since[c] /\ nextId' = nextId
      BY <2>7 DEF Deliver, subVars, TypeOK
    <3>2. NewestId(c)' = lastId'[c]
      BY <3>1 DEF NewestId, HandedId
    <3>3. NewestId(c) = pending[c][1].id
      BY <3>1, IdTypes DEF NewestId, None
    <3>4. Ids(replay[c])' = Ids(replay[c])
      BY <3>1 DEF Ids
    <3>. QED BY <2>0, <3>1, <3>2, <3>3, <3>4 DEF Onward
  <2>8. CASE Detach(c) \/ GoesQuietly(c) \/ Forgotten(c)
             \/ \E header \in {None, lastId[c]} : Joins(c, header)
    BY <2>2, <2>8 DEF Detach, GoesQuietly, Forgotten, Joins, TypeOK
  <2>9. CASE FetchReplay(c) /\ phase[c] # "open"
    BY <2>2, <2>9 DEF FetchReplay
  <2>. QED BY <2>0, <2>3, <2>4, <2>5, <2>6, <2>7, <2>8, <2>9 DEF StepOf, Reads
<1>. QED BY <1>1, <1>2, TypeCorrect, RunsUnbroken, PlaceKept, PTL DEF Spec

\* c has more ahead of it than is kept.
Behind(c) ==
    nextId - (NewestId(c) + 1) > IF BufferSize < QueueMax THEN BufferSize ELSE QueueMax

\* c has been handed nothing, and goes on following unless it is far behind.
StaysInPlace(c) ==
    /\ HandedId(c)' = HandedId(c) /\ lastId'[c] = lastId[c]
    /\ Follows(c)' => Follows(c)
    /\ Follows(c) => Follows(c)' \/ Behind(c)'

\* Nothing that c's place depends on changes.
LEMMA RestsInPlace ==
    ASSUME NEW c \in Clients, Rests(c)
    PROVE  StaysInPlace(c) /\ (Follows(c)' <=> Follows(c))
<1>1. /\ phase'[c] = phase[c] /\ pending'[c] = pending[c] /\ replay'[c] = replay[c]
      /\ since'[c] = since[c] /\ lastId'[c] = lastId[c] /\ queue'[c] = queue[c]
      /\ current'[c] = current[c] /\ nextId' = nextId /\ buffer' = buffer
  BY DEF Rests, KeepsPlace, Silent
<1>2. HandedId(c)' = HandedId(c)
  BY <1>1 DEF HandedId
<1>3. NewestId(c)' = NewestId(c)
  BY <1>1, <1>2 DEF NewestId
<1>4. RestIds(c)' = RestIds(c) /\ Ids(queue[c])' = Ids(queue[c]) /\ Ids(buffer)' = Ids(buffer)
  BY <1>1 DEF RestIds, Ids
<1>5. Follows(c)' <=> Follows(c)
  BY <1>1, <1>3, <1>4, Zenon DEF Follows
<1>. QED BY <1>1, <1>2, <1>5 DEF StaysInPlace

\* A push moves the run on by one, and sheds an id only where the run is at its bound.
LEMMA RunMovesOn ==
    ASSUME NEW q \in Seq(Event), NEW e \in Event, NEW max \in Nat \ {0}, NEW n \in Nat,
           EndsAt(q, n), Len(q) <= max, e.id = n
    PROVE  \E a \in Int, b \in Int :
             /\ Ids(q) = a..(n - 1) /\ Ids(PushBounded(q, e, max)) = b..n
             /\ a <= b /\ b <= n
             /\ b = a \/ (b = a + 1 /\ a = n - max)
<1>1. PICK p : p = PushBounded(q, e, max)
  OBVIOUS
<1>2. p \in Seq(Event) /\ EndsAt(p, n + 1)
  BY <1>1, PushType, PushRun
<1>3. Len(p) = IF Len(q) < max THEN Len(q) + 1 ELSE Len(q)
  BY <1>1, PushLen
<1>4. Len(q) \in Nat /\ Len(p) \in Nat /\ n + 1 \in Nat
  BY <1>2
<1>5. Ids(q) = (n - Len(q))..(n - 1)
  BY IdsOfRun
<1>6. Ids(p) = (n + 1 - Len(p))..(n + 1 - 1)
  BY <1>2, <1>4, IdsOfRun
<1>7. n + 1 - 1 = n
  OBVIOUS
<1>8. PICK k \in Nat, l \in Nat : k = Len(q) /\ l = Len(p)
  BY <1>4
<1>9. PICK a, b : a = n - k /\ b = n + 1 - l
  OBVIOUS
<1>10. k <= max /\ l = IF k < max THEN k + 1 ELSE k
  BY <1>3, <1>8
<1>11. /\ a \in Int /\ b \in Int
       /\ a <= b /\ b <= n
       /\ b = a \/ (b = a + 1 /\ a = n - max)
  BY <1>9, <1>10
<1>12. Ids(q) = a..(n - 1) /\ Ids(PushBounded(q, e, max)) = b..n
  BY <1>1, <1>5, <1>6, <1>7, <1>8, <1>9
<1>. QED BY <1>11, <1>12

\* Of a client that is not reading, the ring keeps the place.
LEMMA RingInPlace ==
    ASSUME TypeOK, UnbrokenRuns, NEW c \in Clients, NEW e \in Event, Published(e),
           phase[c] # "open", phase'[c] # "open",
           lastId'[c] = lastId[c], current'[c] = current[c]
    PROVE  StaysInPlace(c)
<1>1. nextId' = nextId + 1 /\ buffer' = PushBounded(buffer, e, BufferSize) /\ e.id = nextId
  BY DEF Published
<1>2. HandedId(c) = None /\ HandedId(c)' = None
  BY DEF HandedId
<1>3. NewestId(c)' = NewestId(c)
  BY <1>2 DEF NewestId
<1>4. PICK m \in Int, l \in Int, n \in Nat :
        m = NewestId(c) /\ l = lastId[c] /\ n = nextId
  BY IdTypes
<1>5. BufferSize \in Nat \ {0} /\ QueueMax \in Nat \ {0}
  BY SizesAssumption
<1>6. buffer \in Seq(Event) /\ EndsAt(buffer, n) /\ Len(buffer) <= BufferSize
  BY <1>4 DEF UnbrokenRuns, TypeOK
<1>7. PICK a \in Int, b \in Int :
        /\ Ids(buffer) = a..(n - 1) /\ Ids(buffer') = b..n
        /\ a <= b /\ b <= n
        /\ b = a \/ (b = a + 1 /\ a = n - BufferSize)
  <2>1. PICK q \in Seq(Event) : q = buffer
    BY <1>6
  <2>2. e.id = n /\ EndsAt(q, n) /\ Len(q) <= BufferSize
    BY <1>1, <1>4, <1>6, <2>1
  <2>3. \E a \in Int, b \in Int :
           /\ Ids(q) = a..(n - 1) /\ Ids(PushBounded(q, e, BufferSize)) = b..n
           /\ a <= b /\ b <= n
           /\ b = a \/ (b = a + 1 /\ a = n - BufferSize)
    BY <1>5, <2>2, RunMovesOn
  <2>. QED BY <1>1, <2>1, <2>3
<1>8. m = l
  BY <1>4, IdTypes
<1>9. Follows(c) <=> current[c] /\ (l + 1)..(n - 1) \subseteq a..(n - 1)
  BY <1>4, <1>7 DEF Follows
<1>10. Ids(buffer)' = b..n
  BY <1>7 DEF Ids
<1>11. Follows(c)' <=> current[c] /\ (l + 1)..(n + 1 - 1) \subseteq b..n
  BY <1>1, <1>4, <1>10 DEF Follows
<1>12. Behind(c)' <=> n + 1 - (m + 1) > IF BufferSize < QueueMax THEN BufferSize ELSE QueueMax
  BY <1>1, <1>3, <1>4 DEF Behind
<1>13. Follows(c)' => Follows(c)
  <2>1. (l + 1)..(n + 1 - 1) \subseteq b..n => (l + 1)..(n - 1) \subseteq a..(n - 1)
    <3>1. \A id \in (l + 1)..(n - 1) : id \in (l + 1)..(n + 1 - 1)
      OBVIOUS
    <3>2. \A id \in (l + 1)..(n - 1) : id \in b..n => id \in a..(n - 1)
      BY <1>7
    <3>. QED BY <3>1, <3>2
  <2>. QED BY <1>9, <1>11, <2>1
<1>14. ASSUME Follows(c), ~Follows(c)' PROVE Behind(c)'
  <2>1. PICK id \in (l + 1)..(n + 1 - 1) : id \notin b..n
    BY <1>9, <1>11, <1>14
  <2>2. id \in (l + 1)..(n - 1)
    BY <1>7, <2>1
  <2>3. id \in a..(n - 1)
    BY <1>9, <1>14, <2>2
  <2>4. a = n - BufferSize /\ a >= l + 1
    BY <1>7, <2>1, <2>2, <2>3
  <2>. QED BY <1>5, <1>8, <1>12, <2>4
<1>. QED BY <1>1, <1>2, <1>13, <1>14 DEF StaysInPlace

\* A published event leaves every client in its place that is not far behind.
LEMMA SentInPlace ==
    ASSUME TypeOK, UnbrokenRuns, NEW c \in Clients, NEW e \in Event, IsSent(c, e)
    PROVE  StaysInPlace(c)
<1>1. /\ phase'[c] = phase[c] /\ pending'[c] = pending[c] /\ replay'[c] = replay[c]
      /\ since'[c] = since[c] /\ lastId'[c] = lastId[c]
      /\ current'[c] = current[c] /\ nextId' = nextId + 1
      /\ buffer' = PushBounded(buffer, e, BufferSize) /\ e.id = nextId
  BY DEF IsSent, KeepsPlace, Published
<1>2. HandedId(c)' = HandedId(c)
  BY <1>1 DEF HandedId
<1>3. NewestId(c)' = NewestId(c)
  BY <1>1, <1>2 DEF NewestId
<1>4. RestIds(c)' = RestIds(c)
  BY <1>1 DEF RestIds, Ids
<1>5. PICK m \in Int, l \in Int, n \in Nat :
        m = NewestId(c) /\ l = lastId[c] /\ n = nextId
  BY IdTypes
<1>6. BufferSize \in Nat \ {0} /\ QueueMax \in Nat \ {0}
  BY SizesAssumption
<1>7. CASE phase[c] = "open"
  <2>1. /\ queue'[c] = PushBounded(queue[c], e, QueueMax)
        /\ queue[c] \in Seq(Event) /\ EndsAt(queue[c], n) /\ Len(queue[c]) <= QueueMax
    BY <1>5, <1>7 DEF IsSent, UnbrokenRuns, Attached, TypeOK
  <2>2. PICK a \in Int, b \in Int :
          /\ Ids(queue[c]) = a..(n - 1) /\ Ids(queue'[c]) = b..n
          /\ a <= b /\ b <= n
          /\ b = a \/ (b = a + 1 /\ a = n - QueueMax)
    BY <1>1, <1>5, <1>6, <2>1, RunMovesOn
  <2>3. PICK R : R = RestIds(c)
    OBVIOUS
  <2>4. Follows(c) <=> /\ current[c] /\ m <= l + 1
                       /\ R # {} => m + 1 \in R
                       /\ (m + 1)..(n - 1) \subseteq R \cup (a..(n - 1))
    BY <1>5, <1>7, <2>2, <2>3 DEF Follows
  <2>5. Ids(queue[c])' = b..n
    BY <2>2 DEF Ids
  <2>6. Follows(c)' <=> /\ current[c] /\ m <= l + 1
                        /\ R # {} => m + 1 \in R
                        /\ (m + 1)..(n + 1 - 1) \subseteq R \cup (b..n)
    BY <1>1, <1>3, <1>4, <1>5, <1>7, <2>3, <2>5 DEF Follows
  <2>7. Behind(c)' <=> n + 1 - (m + 1) > IF BufferSize < QueueMax THEN BufferSize ELSE QueueMax
    BY <1>1, <1>3, <1>5 DEF Behind
  <2>8. Follows(c)' => Follows(c)
    <3>1. (m + 1)..(n + 1 - 1) \subseteq R \cup (b..n)
             => (m + 1)..(n - 1) \subseteq R \cup (a..(n - 1))
      <4>1. \A id \in (m + 1)..(n - 1) : id \in (m + 1)..(n + 1 - 1)
        OBVIOUS
      <4>2. \A id \in (m + 1)..(n - 1) : id \in b..n => id \in a..(n - 1)
        BY <2>2
      <4>. QED BY <4>1, <4>2
    <3>. QED BY <2>4, <2>6, <3>1
  <2>9. ASSUME Follows(c), ~Follows(c)' PROVE Behind(c)'
    <3>1. PICK id \in (m + 1)..(n + 1 - 1) : id \notin R /\ id \notin b..n
      BY <2>4, <2>6, <2>9
    <3>2. id \in (m + 1)..(n - 1)
      BY <2>2, <3>1
    <3>3. id \in a..(n - 1)
      BY <2>4, <2>9, <3>1, <3>2
    <3>4. a = n - QueueMax /\ a >= m + 1
      BY <2>2, <3>1, <3>2, <3>3
    <3>. QED BY <1>6, <2>7, <3>4
  <2>. QED BY <1>1, <1>2, <2>8, <2>9 DEF StaysInPlace
<1>8. CASE phase[c] # "open"
  BY <1>1, <1>8, RingInPlace DEF IsSent
<1>. QED BY <1>7, <1>8

\* A client that is not reading has all that it misses in the ring, or is far behind.
LEMMA InRingOrBehind ==
    ASSUME TypeOK', UnbrokenRuns', RingFull', NEW c \in Clients,
           current'[c], phase'[c] # "open"
    PROVE  Follows(c)' \/ Behind(c)'
<1>1. lastId'[c] \in Nat \cup {None} /\ nextId' \in Nat /\ buffer' \in Seq(Event)
  BY DEF TypeOK
<1>2. PICK l \in Int, n \in Nat : l = lastId'[c] /\ n = nextId' /\ l >= -1
  BY <1>1 DEF None
<1>3. HandedId(c)' = None
  BY DEF HandedId
<1>4. NewestId(c)' = l
  BY <1>2, <1>3 DEF NewestId
<1>5. PICK k \in Nat : k = Len(buffer')
  BY <1>1
<1>6. EndsAt(buffer', n)
  BY <1>2 DEF UnbrokenRuns
<1>7. Ids(buffer') = (n - k)..(n - 1)
  BY <1>1, <1>2, <1>5, <1>6, IdsOfRun
<1>8. Follows(c)' <=> (l + 1)..(n - 1) \subseteq (n - k)..(n - 1)
  <2>1. Ids(buffer)' = Ids(buffer')
    BY DEF Ids
  <2>. QED BY <1>2, <1>7, <2>1 DEF Follows
<1>9. Behind(c)' <=> n - (l + 1) > IF BufferSize < QueueMax THEN BufferSize ELSE QueueMax
  BY <1>2, <1>4 DEF Behind
<1>10. ASSUME ~Follows(c)' PROVE Behind(c)'
  <2>1. PICK id \in (l + 1)..(n - 1) : id < n - k
    BY <1>8, <1>10
  <2>2. k = BufferSize
    BY <1>2, <1>5, <2>1 DEF RingFull
  <2>3. n - (l + 1) > k
    BY <1>2, <1>5, <2>1
  <2>. QED BY <1>9, <2>2, <2>3, SizesAssumption
<1>. QED BY <1>10

\* To go, or to go on without reading, changes nothing of a place that is in the ring.
LEMMA UnreadInPlace ==
    ASSUME NEW c \in Clients, Silent, phase[c] # "open", phase'[c] # "open",
           lastId'[c] = lastId[c], current'[c] = current[c]
    PROVE  StaysInPlace(c) /\ (Follows(c)' <=> Follows(c))
<1>1. nextId' = nextId /\ buffer' = buffer
  BY DEF Silent
<1>2. HandedId(c) = None /\ HandedId(c)' = None
  BY DEF HandedId
<1>3. Ids(buffer)' = Ids(buffer)
  BY <1>1 DEF Ids
<1>4. Follows(c)' <=> Follows(c)
  BY <1>1, <1>3, Zenon DEF Follows
<1>. QED BY <1>2, <1>4 DEF StaysInPlace

\* To subscribe anew from the last id changes nothing of the client's place.
LEMMA ResumesInPlace ==
    ASSUME TypeOK, UnbrokenRuns, NEW c \in Clients, NEW header, header # None,
           Joins(c, header)
    PROVE  StaysInPlace(c)
<1>1. /\ phase[c] # "open" /\ phase'[c] # "open"
      /\ lastId'[c] = lastId[c] /\ current'[c] = current[c]
  BY DEF Joins
<1>2. Silent \/ \E e \in Event : Published(e)
  BY DEF Joins
<1>. QED BY <1>1, <1>2, RingInPlace, UnreadInPlace

\* The snapshot holds all of the ring that the client has not had.
LEMMA ReplayInPlace ==
    ASSUME TypeOK, UnbrokenRuns, RingFull, NEW c \in Clients, Place(c), StartReplay(c)
    PROVE  StaysInPlace(c) /\ (Follows(c)' <=> Follows(c))
<1>1. /\ phase[c] = "attached" /\ phase'[c] = "open" /\ replay'[c] = buffer
      /\ since'[c] = since[c] /\ since[c] = lastId[c] /\ lastId'[c] = lastId[c]
      /\ pending[c] = <<>> /\ pending'[c] = <<>> /\ queue'[c] = queue[c]
      /\ current'[c] = current[c] /\ nextId' = nextId
  BY DEF StartReplay, Snapshot, Place, subVars, clientVars, TypeOK
<1>2. HandedId(c) = None /\ HandedId(c)' = None
  BY <1>1 DEF HandedId
<1>3. PICK l \in Int, n \in Nat : l = lastId[c] /\ n = nextId /\ l >= -1
  BY IdTypes
<1>4. NewestId(c)' = l
  BY <1>1, <1>2, <1>3 DEF NewestId
<1>5. PICK k \in Nat : k = Len(buffer)
  BY DEF TypeOK
<1>6. Ids(buffer) = (n - k)..(n - 1)
  BY <1>3, <1>5, IdsOfRun DEF TypeOK, UnbrokenRuns
<1>7. PICK R : R = {id \in (n - k)..(n - 1) : id > l}
  OBVIOUS
<1>8. RestIds(c)' = R
  <2>1. Ids(replay[c])' = (n - k)..(n - 1)
    BY <1>1, <1>6 DEF Ids
  <2>. QED BY <1>1, <1>3, <1>7, <2>1 DEF RestIds
<1>9. PICK Q : Q = Ids(queue[c])
  OBVIOUS
<1>10. Ids(queue[c])' = Q
  BY <1>1, <1>9 DEF Ids
<1>11. k = n \/ k = BufferSize
  BY <1>3, <1>5 DEF RingFull
<1>12. BufferSize \in Nat \ {0}
  BY SizesAssumption
<1>13. Follows(c) <=> current[c] /\ (l + 1)..(n - 1) \subseteq (n - k)..(n - 1)
  BY <1>1, <1>3, <1>6 DEF Follows
<1>14. Follows(c)' <=> /\ current[c] /\ l <= l + 1
                       /\ R # {} => l + 1 \in R
                       /\ (l + 1)..(n - 1) \subseteq R \cup Q
  BY <1>1, <1>3, <1>4, <1>8, <1>10 DEF Follows
<1>15. (l + 1)..(n - 1) \subseteq (n - k)..(n - 1)
          => /\ R # {} => l + 1 \in R
             /\ (l + 1)..(n - 1) \subseteq R \cup Q
  BY <1>3, <1>7
<1>16. ASSUME R # {} => l + 1 \in R
       PROVE  (l + 1)..(n - 1) \subseteq (n - k)..(n - 1)
  <2>1. CASE R # {}
    BY <1>3, <1>7, <1>16, <2>1
  <2>2. CASE R = {}
    <3>1. ASSUME NEW id \in (l + 1)..(n - 1) PROVE FALSE
      <4>1. n - 1 \in Int /\ n - 1 > l /\ n > 0
        BY <1>3, <3>1
      <4>2. k >= 1
        BY <1>11, <1>12, <4>1
      <4>3. n - 1 \in (n - k)..(n - 1)
        BY <4>1, <4>2
      <4>. QED BY <1>7, <2>2, <4>1, <4>3
    <3>. QED BY <3>1
  <2>. QED BY <2>1, <2>2
<1>17. Follows(c)' <=> Follows(c)
  BY <1>3, <1>13, <1>14, <1>15, <1>16
<1>. QED BY <1>1, <1>2, <1>17 DEF StaysInPlace

\* An event is taken: the next one, or one that the client had, if it follows.
TakesNext(c) ==
    /\ HandedId(c) = None /\ HandedId(c)' \in 0..(nextId - 1)
    /\ lastId'[c] = lastId[c]
    /\ Follows(c)' <=> Follows(c)
    /\ Follows(c) => HandedId(c)' <= lastId[c] + 1

LEMMA ReplayHandsNext ==
    ASSUME TypeOK, NEW c \in Clients, Place(c), Onward(c), FetchReplay(c), phase[c] = "open"
    PROVE  TakesNext(c)
<1>1. PICK h \in Nat, k \in Nat :
         /\ pending[c] = <<>> /\ pending'[c] # <<>> /\ pending'[c][1].id = h
         /\ RestIds(c) = h..(h + k) /\ Ids(replay'[c]) = (h + 1)..(h + k)
         /\ since'[c] = since[c] /\ since[c] < h
  BY FirstOfRest
<1>2. /\ phase'[c] = "open" /\ nextId' = nextId /\ queue'[c] = queue[c]
      /\ lastId'[c] = lastId[c] /\ current'[c] = current[c]
  BY DEF FetchReplay, subVars, clientVars, histVars
<1>3. PICK l \in Int, n \in Nat, s \in Int : l = lastId[c] /\ n = nextId /\ s = since[c]
  BY IdTypes
<1>4. HandedId(c) = None /\ NewestId(c) = l
  BY <1>1, <1>3, IdTypes
<1>5. HandedId(c)' = h /\ NewestId(c)' = h
  <2>1. HandedId(c)' = h
    BY <1>1, <1>2 DEF HandedId
  <2>. QED BY <2>1 DEF NewestId, None
<1>6. h \in RestIds(c)
  BY <1>1
<1>7. h < n /\ l < h
  <2>1. h \in Ids(replay[c]) /\ h > since[c]
    BY <1>6 DEF RestIds
  <2>. QED BY <1>3, <1>4, <2>1 DEF Onward
<1>8. RestIds(c)' = (h + 1)..(h + k)
  <2>1. Ids(replay[c])' = (h + 1)..(h + k)
    BY <1>1 DEF Ids
  <2>2. \A id \in (h + 1)..(h + k) : id > s
    BY <1>1, <1>3
  <2>. QED BY <1>1, <1>3, <2>1, <2>2 DEF RestIds
<1>9. PICK Q : Q = Ids(queue[c])
  OBVIOUS
<1>10. Ids(queue[c])' = Q
  BY <1>2, <1>9 DEF Ids
<1>11. Follows(c) <=> /\ current[c] /\ l <= l + 1
                      /\ h..(h + k) # {} => l + 1 \in h..(h + k)
                      /\ (l + 1)..(n - 1) \subseteq (h..(h + k)) \cup Q
  BY <1>1, <1>3, <1>4, <1>9 DEF Follows
<1>12. Follows(c)' <=> /\ current[c] /\ h <= l + 1
                       /\ (h + 1)..(h + k) # {} => h + 1 \in (h + 1)..(h + k)
                       /\ (h + 1)..(n - 1) \subseteq ((h + 1)..(h + k)) \cup Q
  BY <1>2, <1>3, <1>5, <1>8, <1>10 DEF Follows
<1>13. ASSUME Follows(c) PROVE h = l + 1
  <2>1. l + 1 \in h..(h + k)
    BY <1>1, <1>6, <1>11, <1>13
  <2>. QED BY <1>7, <2>1
<1>14. ASSUME Follows(c)' PROVE h = l + 1
  BY <1>7, <1>12, <1>14
<1>15. ASSUME h = l + 1 PROVE Follows(c)' <=> Follows(c)
  <2>1. (h + 1)..(h + k) # {} => h + 1 \in (h + 1)..(h + k)
    OBVIOUS
  <2>2. l + 1 \in h..(h + k) /\ h <= l + 1 /\ l <= l + 1
    BY <1>15
  <2>3. (l + 1)..(n - 1) \subseteq (h..(h + k)) \cup Q
          <=> (h + 1)..(n - 1) \subseteq ((h + 1)..(h + k)) \cup Q
    <3>1. l + 1 = h
      BY <1>15
    <3>2. \A id \in h..(n - 1) : id = h \/ id \in (h + 1)..(n - 1)
      OBVIOUS
    <3>3. \A id \in (h + 1)..(n - 1) : /\ id \in h..(n - 1)
                                       /\ id \in h..(h + k) <=> id \in (h + 1)..(h + k)
      OBVIOUS
    <3>. QED BY <1>6, <1>1, <3>1, <3>2, <3>3
  <2>. QED BY <1>11, <1>12, <2>1, <2>2, <2>3
<1>16. Follows(c)' <=> Follows(c)
  BY <1>13, <1>14, <1>15
<1>17. Follows(c) => h <= l + 1
  BY <1>13
<1>18. HandedId(c)' \in 0..(nextId - 1)
  BY <1>3, <1>5, <1>7
<1>. QED BY <1>2, <1>3, <1>4, <1>5, <1>16, <1>17, <1>18 DEF TakesNext

LEMMA QueueHandsNext ==
    ASSUME TypeOK, UnbrokenRuns, UnbrokenRuns', NEW c \in Clients, Place(c), FetchLive(c),
           phase[c] = "open"
    PROVE  TakesNext(c)
<1>1. /\ phase'[c] = "open" /\ nextId' = nextId /\ queue'[c] = Tail(queue[c])
      /\ pending[c] = <<>> /\ pending'[c] = <<Head(queue[c])>>
      /\ replay'[c] = <<>> /\ queue[c] # <<>> /\ NextReplay(c) = {}
      /\ lastId'[c] = lastId[c] /\ current'[c] = current[c]
  BY DEF FetchLive, subVars, clientVars, histVars, TypeOK
<1>2. PICK l \in Int, n \in Nat : l = lastId[c] /\ n = nextId
  BY IdTypes
<1>3. PICK q \in Seq(Event) : q = queue[c]
  BY DEF TypeOK
<1>4. PICK k \in Nat : k = Len(q) /\ k > 0
  BY <1>1, <1>3
<1>5. EndsAt(q, n) /\ EndsAt(Tail(q), n)
  <2>1. c \in Attached /\ c \in Attached'
    BY <1>1 DEF Attached
  <2>2. EndsAt(queue[c], nextId) /\ EndsAt(queue'[c], nextId')
    BY <2>1 DEF UnbrokenRuns
  <2>. QED BY <1>1, <1>2, <1>3, <2>2
<1>6. Tail(q) \in Seq(Event) /\ Len(Tail(q)) = k - 1 /\ Head(q) = q[1] /\ 1 \in DOMAIN q
  BY <1>4
<1>7. Ids(queue[c]) = (n - k)..(n - 1)
  BY <1>3, <1>4, <1>5, IdsOfRun
<1>8. Ids(queue[c])' = (n - k + 1)..(n - 1)
  <2>1. Ids(Tail(q)) = (n - Len(Tail(q)))..(n - 1)
    BY <1>5, <1>6, IdsOfRun
  <2>2. n - (k - 1) = n - k + 1
    BY <1>4
  <2>3. Ids(queue[c])' = Ids(Tail(q))
    BY <1>1, <1>3 DEF Ids
  <2>. QED BY <1>6, <2>1, <2>2, <2>3
<1>9. PICK h \in Nat : h = n - k /\ h = Head(q).id
  <2>1. q[1].id = n - k + 1 - 1
    BY <1>4, <1>5, <1>6 DEF EndsAt
  <2>2. q[1] \in Event
    BY <1>6
  <2>. QED BY <1>4, <1>6, <2>1, <2>2 DEF Event
<1>10. HandedId(c)' = h /\ NewestId(c)' = h
  <2>1. HandedId(c)' = h
    BY <1>1, <1>3, <1>9 DEF HandedId
  <2>. QED BY <2>1 DEF NewestId, None
<1>11. HandedId(c) = None /\ NewestId(c) = l
  BY <1>1, <1>2, IdTypes
<1>12. RestIds(c) = {} /\ RestIds(c)' = {}
  <2>1. \A i \in DOMAIN replay[c] : replay[c][i].id <= since[c]
    BY <1>1, NothingToReplay
  <2>2. Ids(replay[c]) \subseteq Nat /\ since[c] \in Int
    BY IdTypes
  <2>3. ASSUME NEW id \in Ids(replay[c]) PROVE ~(id > since[c])
    <3>1. id <= since[c]
      BY <2>1 DEF Ids
    <3>. QED BY <2>2, <3>1
  <2>. QED BY <1>1, <2>3 DEF RestIds, Ids
<1>13. Follows(c) <=> /\ current[c] /\ l <= l + 1
                      /\ (l + 1)..(n - 1) \subseteq (n - k)..(n - 1)
  BY <1>1, <1>2, <1>7, <1>11, <1>12 DEF Follows
<1>14. Follows(c)' <=> /\ current[c] /\ h <= l + 1
                       /\ (h + 1)..(n - 1) \subseteq (n - k + 1)..(n - 1)
  BY <1>1, <1>2, <1>8, <1>10, <1>12 DEF Follows
<1>15. h <= l + 1 <=> (l + 1)..(n - 1) \subseteq (n - k)..(n - 1)
  <2>1. h <= l + 1 => (l + 1)..(n - 1) \subseteq (n - k)..(n - 1)
    BY <1>9
  <2>2. ASSUME (l + 1)..(n - 1) \subseteq (n - k)..(n - 1), ~(h <= l + 1) PROVE FALSE
    <3>1. l + 1 \in (l + 1)..(n - 1)
      BY <1>4, <1>9, <2>2
    <3>2. l + 1 \in (n - k)..(n - 1)
      BY <2>2, <3>1
    <3>. QED BY <1>9, <2>2, <3>2
  <2>. QED BY <2>1, <2>2
<1>16. (h + 1)..(n - 1) \subseteq (n - k + 1)..(n - 1) /\ l <= l + 1
  BY <1>9
<1>17. Follows(c)' <=> Follows(c)
  BY <1>13, <1>14, <1>15, <1>16
<1>18. Follows(c) => h <= l + 1
  BY <1>13, <1>15
<1>19. HandedId(c)' \in 0..(nextId - 1)
  BY <1>2, <1>4, <1>9, <1>10
<1>. QED BY <1>1, <1>2, <1>10, <1>11, <1>17, <1>18, <1>19 DEF TakesNext

\* An event is read: who followed still does.
LEMMA DeliveredInPlace ==
    ASSUME TypeOK, NEW c \in Clients, Deliver(c)
    PROVE  /\ HandedId(c) # None /\ HandedId(c)' = None /\ lastId'[c] = HandedId(c)
           /\ Follows(c) => Follows(c)'
<1>1. /\ phase[c] = "open" /\ phase'[c] = "open" /\ nextId' = nextId /\ queue'[c] = queue[c]
      /\ pending[c] # <<>> /\ pending'[c] = <<>> /\ lastId'[c] = pending[c][1].id
      /\ replay'[c] = replay[c] /\ since'[c] = since[c] /\ current'[c] = TRUE
  BY DEF Deliver, subVars, TypeOK
<1>2. PICK h \in Nat : h = HandedId(c) /\ h = pending[c][1].id
  BY <1>1, IdTypes
<1>3. h # None /\ NewestId(c) = h
  BY <1>2 DEF NewestId, None
<1>4. HandedId(c)' = None
  BY <1>1 DEF HandedId
<1>5. NewestId(c)' = h
  BY <1>1, <1>2, <1>4 DEF NewestId
<1>6. RestIds(c)' = RestIds(c) /\ Ids(queue[c])' = Ids(queue[c])
  BY <1>1 DEF RestIds, Ids
<1>7. h <= h + 1
  OBVIOUS
<1>8. Follows(c) => Follows(c)'
  BY <1>1, <1>2, <1>3, <1>5, <1>6, <1>7 DEF Follows
<1>. QED BY <1>1, <1>2, <1>3, <1>4, <1>8

\* The state of the feed: what each client was handed, and who follows.
Held == [c \in Clients |-> HandedId(c)]
Followers == {c \in Clients : Follows(c)}

LEMMA FarBehindIsBehind ==
    ASSUME NEW c \in Clients
    PROVE  Feed!FarBehind(c)' <=> Behind(c)'
<1>1. [d \in Clients |-> HandedId(d)]'[c] = HandedId(c)'
  OBVIOUS
<1>. QED BY <1>1 DEF Feed!FarBehind, Behind, NewestId, None, Feed!None

\* Clients that stay in their places keep them in the feed.
LEMMA PlacesAreKept ==
    ASSUME NEW S \in SUBSET Clients, \A d \in S : StaysInPlace(d)
    PROVE  Feed!Kept(S)
<1>1. \A d \in S : Follows(d)' => Follows(d)
  BY DEF StaysInPlace
<1>2. \A d \in S : Follows(d) /\ ~Follows(d)' => Feed!FarBehind(d)'
  BY FarBehindIsBehind DEF StaysInPlace
<1>3. \A d \in S : /\ d \in {c \in Clients : Follows(c)} <=> Follows(d)
                   /\ d \in {c \in Clients : Follows(c)}' <=> Follows(d)'
  OBVIOUS
<1>. QED BY <1>1, <1>2, <1>3 DEF Feed!Kept

\* While all keep still, the feed does.
LEMMA FeedRests ==
    ASSUME nextId' = nextId, lastId' = lastId,
           \A d \in Clients : HandedId(d)' = HandedId(d) /\ (Follows(d)' <=> Follows(d))
    PROVE  UNCHANGED Feed!feedVars
<1>1. Held' = Held
  BY DEF Held
<1>2. Followers' = Followers
  BY DEF Followers
<1>. QED BY <1>1, <1>2 DEF Feed!feedVars, Held, Followers

\* An event that leaves everybody in its place is written to the feed.
LEMMA FeedIsWritten ==
    ASSUME nextId' = nextId + 1, lastId' = lastId, \A d \in Clients : StaysInPlace(d)
    PROVE  Feed!Write
<1>1. Held' = Held
  BY DEF Held, StaysInPlace
<1>2. Feed!Kept(Clients)
  BY PlacesAreKept
<1>. QED BY <1>1, <1>2 DEF Feed!Write, Held

\* A step of one client's connection alone.
LEMMA HeldChanges ==
    ASSUME NEW c \in Clients, NEW id, HandedId(c)' = id,
           \A d \in Clients \ {c} : HandedId(d)' = HandedId(d)
    PROVE  Held' = [Held EXCEPT ![c] = id]
  BY DEF Held

LEMMA FollowersStay ==
    ASSUME \A d \in Clients : Follows(d)' <=> Follows(d)
    PROVE  Followers' = Followers
  BY DEF Followers

\* All of a reading client's steps are the feed's, or none.
LEMMA ReadingStep ==
    ASSUME TypeOK, TypeOK', UnbrokenRuns, UnbrokenRuns', RingFull, RingFull',
           NEW c \in Clients, Place(c), Onward(c), Reads(c)
    PROVE  Feed!FeedNext \/ UNCHANGED Feed!feedVars
<1>0. \A d \in Clients \ {c} :
         HandedId(d)' = HandedId(d) /\ (Follows(d)' <=> Follows(d)) /\ StaysInPlace(d)
  BY OthersRest, RestsInPlace DEF StaysInPlace
<1>1. CASE StartReplay(c)
  <2>1. nextId' = nextId /\ lastId' = lastId
    BY <1>1 DEF StartReplay, subVars, clientVars
  <2>2. HandedId(c)' = HandedId(c) /\ (Follows(c)' <=> Follows(c))
    BY <1>1, ReplayInPlace DEF StaysInPlace
  <2>. QED BY <1>0, <2>1, <2>2, FeedRests
<1>2. CASE (FetchReplay(c) \/ FetchLive(c)) /\ phase[c] = "open"
  <2>1. TakesNext(c)
    BY <1>2, ReplayHandsNext, QueueHandsNext
  <2>2. nextId' = nextId /\ lastId' = lastId
    BY <1>2 DEF FetchReplay, FetchLive, subVars, clientVars
  <2>3. PICK id : id = HandedId(c)'
    OBVIOUS
  <2>4. Held' = [Held EXCEPT ![c] = id]
    BY <1>0, <2>3, HeldChanges
  <2>5. Followers' = Followers
    BY <1>0, <2>1, FollowersStay DEF TakesNext
  <2>6. Held[c] = None /\ id \in 0..(nextId - 1)
        /\ (c \in Followers => id <= lastId[c] + 1)
    BY <2>1, <2>3 DEF TakesNext, Held, Followers
  <2>7. Feed!Take(c)
    BY <2>2, <2>4, <2>5, <2>6 DEF Feed!Take, Held, Followers, None, Feed!None
  <2>. QED BY <2>7 DEF Feed!FeedNext
<1>3. CASE (FetchReplay(c) \/ FetchLive(c)) /\ phase[c] # "open"
  <2>1. /\ Silent /\ phase'[c] = phase[c] /\ current'[c] = current[c]
        /\ nextId' = nextId /\ lastId' = lastId
    BY <1>3 DEF FetchReplay, FetchLive, Silent, subVars, clientVars, histVars
  <2>2. HandedId(c)' = HandedId(c) /\ (Follows(c)' <=> Follows(c))
    BY <1>3, <2>1, UnreadInPlace DEF StaysInPlace
  <2>. QED BY <1>0, <2>1, <2>2, FeedRests
<1>4. CASE Deliver(c)
  <2>1. /\ HandedId(c) # None /\ HandedId(c)' = None /\ lastId'[c] = HandedId(c)
        /\ Follows(c) => Follows(c)'
    BY <1>4, DeliveredInPlace
  <2>2. nextId' = nextId /\ lastId' = [lastId EXCEPT ![c] = Held[c]]
    <3>1. nextId' = nextId /\ lastId' = [lastId EXCEPT ![c] = pending[c][1].id]
      BY <1>4 DEF Deliver, subVars
    <3>2. pending[c][1].id = Held[c]
      BY <1>4, IdTypes DEF Deliver, Held
    <3>. QED BY <3>1, <3>2
  <2>3. Held' = [Held EXCEPT ![c] = None]
    BY <1>0, <2>1, HeldChanges
  <2>4. Followers' \in {Followers, Followers \cup {c}}
    BY <1>0, <2>1 DEF Followers
  <2>5. Held[c] # None
    BY <2>1 DEF Held
  <2>6. Feed!Read(c)
    BY <2>2, <2>3, <2>4, <2>5 DEF Feed!Read, Held, Followers, None, Feed!None
  <2>. QED BY <2>6 DEF Feed!FeedNext
<1>5. CASE Detach(c)
  <2>1. /\ Silent /\ phase'[c] = "off" /\ current'[c] = current[c]
        /\ nextId' = nextId /\ lastId' = lastId
    BY <1>5 DEF Detach, Silent, clientVars, TypeOK
  <2>2. CASE phase[c] = "open"
    <3>1. HandedId(c)' = None
      BY <2>1 DEF HandedId
    <3>2. Held' = [Held EXCEPT ![c] = None]
      BY <1>0, <3>1, HeldChanges
    <3>3. c \in Followers => c \in Followers' \/ Feed!FarBehind(c)'
      <4>1. Follows(c) => current'[c]
        BY <2>1 DEF Follows
      <4>2. Follows(c) => Follows(c)' \/ Behind(c)'
        BY <2>1, <4>1, InRingOrBehind
      <4>. QED BY <4>2, FarBehindIsBehind DEF Followers
    <3>4. Feed!Kept(Clients \ {c})
      BY <1>0, PlacesAreKept
    <3>5. Feed!Leave(c)
      BY <2>1, <3>2, <3>3, <3>4 DEF Feed!Leave, Held, Followers, None, Feed!None
    <3>. QED BY <3>5 DEF Feed!FeedNext
  <2>3. CASE phase[c] # "open"
    <3>1. HandedId(c)' = HandedId(c) /\ (Follows(c)' <=> Follows(c))
      BY <2>1, <2>3, UnreadInPlace DEF StaysInPlace
    <3>. QED BY <1>0, <2>1, <3>1, FeedRests
  <2>. QED BY <2>2, <2>3
<1>. QED BY <1>1, <1>2, <1>3, <1>4, <1>5 DEF Reads

\* Ring, snapshots, queues and cool-down implement the feed, for any clients, orders
\* and sizes: a consumer that follows is handed the next event or one it had, and
\* stops following only where it is more than the smaller bound behind.
THEOREM TheFeedIsServed == Spec => ServesTheFeed
<1>. DEFINE Inv == TypeOK /\ UnbrokenRuns /\ RingFull /\ PlaceInv /\ OnwardInv
<1>1. Init => Feed!FeedInit
  <2>. SUFFICES ASSUME Init PROVE Feed!FeedInit
    OBVIOUS
  <2>1. \A c \in Clients : HandedId(c) = None /\ ~Follows(c)
    BY DEF Init, HandedId, Follows
  <2>2. [c \in Clients |-> HandedId(c)] = [c \in Clients |-> None]
    BY <2>1
  <2>. QED BY <2>1, <2>2 DEF Init, Feed!FeedInit, None, Feed!None
<1>2. Inv /\ Inv' /\ [Next]_vars => [Feed!FeedNext]_(Feed!feedVars)
  <2>. SUFFICES ASSUME Inv, Inv', [Next]_vars
                PROVE  Feed!FeedNext \/ UNCHANGED Feed!feedVars
    OBVIOUS
  <2>1. ASSUME NEW o \in Orders, NEW s \in States, BrokerEvent(o, s)
        PROVE  Feed!FeedNext \/ UNCHANGED Feed!feedVars
    <3>1. lastId' = lastId
      BY <2>1 DEF BrokerEvent, clientVars
    <3>2. CASE Silent /\ \A d \in Clients : Rests(d)
      <4>1. \A d \in Clients : HandedId(d)' = HandedId(d) /\ (Follows(d)' <=> Follows(d))
        BY <3>2, RestsInPlace DEF StaysInPlace
      <4>. QED BY <3>1, <3>2, <4>1, FeedRests DEF Silent
    <3>3. ASSUME NEW e \in Event, Published(e), \A d \in Clients : IsSent(d, e)
          PROVE  Feed!Write
      <4>1. \A d \in Clients : StaysInPlace(d)
        BY <3>3, SentInPlace
      <4>. QED BY <3>1, <3>3, <4>1, FeedIsWritten DEF Published
    <3>. QED BY <2>1, <3>2, <3>3, ReportIsSent DEF Feed!FeedNext
  <2>2. ASSUME NEW c \in Clients, NEW header \in {None, lastId[c]}, Subscribe(c, header)
        PROVE  Feed!FeedNext \/ UNCHANGED Feed!feedVars
    <3>0. /\ Joins(c, header)
          /\ \/ Silent /\ \A d \in Clients \ {c} : Rests(d)
             \/ \E e \in Event : Published(e) /\ \A d \in Clients \ {c} : IsSent(d, e)
      BY <2>2, SubscribeIsSent
    <3>1. nextId' \in {nextId, nextId + 1}
      BY <3>0 DEF Silent, Published
    <3>2. \A d \in Clients \ {c} : StaysInPlace(d)
      BY <3>0, RestsInPlace, SentInPlace
    <3>3. HandedId(c) = None /\ HandedId(c)' = None
      BY <3>0 DEF Joins, HandedId
    <3>4. CASE header = None
      <4>1. lastId' = [lastId EXCEPT ![c] = None]
        BY <2>2, <3>4 DEF Subscribe
      <4>2. c \in Followers' \/ Feed!FarBehind(c)'
        <5>1. current'[c] /\ phase'[c] # "open"
          BY <3>0, <3>4 DEF Joins
        <5>2. Follows(c)' \/ Behind(c)'
          BY <5>1, InRingOrBehind
        <5>. QED BY <5>2, FarBehindIsBehind DEF Followers
      <4>3. Feed!Kept(Clients \ {c})
        BY <3>2, PlacesAreKept
      <4>4. Held' = Held /\ Held[c] = None
        BY <3>2, <3>3 DEF Held, StaysInPlace
      <4>5. Feed!Begin(c)
        BY <3>1, <4>1, <4>2, <4>3, <4>4
           DEF Feed!Begin, Held, Followers, None, Feed!None
      <4>. QED BY <4>5 DEF Feed!FeedNext
    <3>5. CASE header # None
      <4>1. lastId' = lastId
        BY <2>2, <3>5 DEF Subscribe
      <4>2. StaysInPlace(c)
        BY <3>0, <3>5, ResumesInPlace
      <4>3. CASE Silent /\ \A d \in Clients \ {c} : Rests(d)
        <5>1. /\ phase[c] # "open" /\ phase'[c] # "open"
              /\ lastId'[c] = lastId[c] /\ current'[c] = current[c]
          BY <3>0, <3>5 DEF Joins
        <5>2. Follows(c)' <=> Follows(c)
          BY <4>3, <5>1, UnreadInPlace
        <5>3. \A d \in Clients \ {c} : Follows(d)' <=> Follows(d)
          BY <4>3, RestsInPlace
        <5>4. \A d \in Clients : HandedId(d)' = HandedId(d) /\ (Follows(d)' <=> Follows(d))
          BY <3>2, <3>3, <5>2, <5>3 DEF StaysInPlace
        <5>. QED BY <4>1, <4>3, <5>4, FeedRests DEF Silent
      <4>4. CASE \E e \in Event : Published(e)
        <5>1. nextId' = nextId + 1
          BY <4>4 DEF Published
        <5>2. \A d \in Clients : StaysInPlace(d)
          BY <3>2, <4>2
        <5>3. Feed!Write
          BY <4>1, <5>1, <5>2, FeedIsWritten
        <5>. QED BY <5>3 DEF Feed!FeedNext
      <4>. QED BY <3>0, <4>3, <4>4
    <3>. QED BY <3>4, <3>5
  <2>3. ASSUME NEW c \in Clients, Reads(c)
        PROVE  Feed!FeedNext \/ UNCHANGED Feed!feedVars
    BY <2>3, ReadingStep DEF PlaceInv, OnwardInv
  <2>4. ASSUME NEW c \in Clients, Abandon(c)
        PROVE  Feed!FeedNext \/ UNCHANGED Feed!feedVars
    <3>1. /\ Silent /\ phase[c] # "open" /\ phase'[c] # "open"
          /\ nextId' = nextId /\ lastId' = lastId /\ current'[c] = current[c]
      BY <2>4 DEF Abandon, Silent, subVars, clientVars, histVars, TypeOK
    <3>2. HandedId(c)' = HandedId(c) /\ (Follows(c)' <=> Follows(c))
      BY <3>1, UnreadInPlace DEF StaysInPlace
    <3>3. \A d \in Clients \ {c} : HandedId(d)' = HandedId(d) /\ (Follows(d)' <=> Follows(d))
      BY <2>4, OthersRest, RestsInPlace DEF StaysInPlace
    <3>. QED BY <3>1, <3>2, <3>3, FeedRests
  <2>5. ASSUME NEW c \in Clients, Vanish(c)
        PROVE  Feed!FeedNext
    <3>1. /\ phase'[c] = "ghost" /\ current'[c] = current[c]
          /\ nextId' = nextId /\ lastId' = lastId
      BY <2>5 DEF Vanish, subVars, clientVars, histVars, TypeOK
    <3>2. HandedId(c)' = None
      BY <3>1 DEF HandedId
    <3>3. \A d \in Clients \ {c} : HandedId(d)' = HandedId(d) /\ StaysInPlace(d)
      BY <2>5, OthersRest, RestsInPlace DEF StaysInPlace
    <3>4. Held' = [Held EXCEPT ![c] = None]
      BY <3>2, <3>3, HeldChanges
    <3>5. c \in Followers => c \in Followers' \/ Feed!FarBehind(c)'
      <4>1. Follows(c) => current'[c]
        BY <3>1 DEF Follows
      <4>2. Follows(c) => Follows(c)' \/ Behind(c)'
        BY <3>1, <4>1, InRingOrBehind
      <4>. QED BY <4>2, FarBehindIsBehind DEF Followers
    <3>6. Feed!Kept(Clients \ {c})
      BY <3>3, PlacesAreKept
    <3>7. Feed!Leave(c)
      BY <3>1, <3>4, <3>5, <3>6 DEF Feed!Leave, Held, Followers, None, Feed!None
    <3>. QED BY <3>7 DEF Feed!FeedNext
  <2>6. CASE CoolDownExpires
    <3>1. CASE Attached = {} /\ registered
      <4>1. /\ nextId' = 0 /\ lastId' = lastId /\ phase' = phase
            /\ current' = [c \in Clients |-> FALSE]
        BY <2>6, <3>1 DEF CoolDownExpires, connVars, clientVars
      <4>2. \A c \in Clients : HandedId(c) = None /\ HandedId(c)' = None
        BY <3>1, <4>1 DEF HandedId, Attached
      <4>3. Held' = Held /\ \A c \in Clients : Held[c] = None
        BY <4>2 DEF Held
      <4>4. Followers' = {}
        BY <4>1 DEF Followers, Follows
      <4>5. Feed!Forget
        BY <4>1, <4>3, <4>4 DEF Feed!Forget, Held, Followers, None, Feed!None
      <4>. QED BY <4>5 DEF Feed!FeedNext
    <3>2. CASE ~(Attached = {} /\ registered)
      <4>1. nextId' = nextId /\ lastId' = lastId /\ \A d \in Clients : Rests(d)
        BY <2>6, <3>2 DEF CoolDownExpires, connVars, clientVars, Rests, Silent, KeepsPlace
      <4>2. \A d \in Clients : HandedId(d)' = HandedId(d) /\ (Follows(d)' <=> Follows(d))
        BY <4>1, RestsInPlace DEF StaysInPlace
      <4>. QED BY <4>1, <4>2, FeedRests
    <3>. QED BY <3>1, <3>2
  <2>7. CASE Shutdown \/ (\E o \in Orders, s \in LocalStates : LocalChange(o, s))
             \/ UNCHANGED vars
    <3>1. nextId' = nextId /\ lastId' = lastId /\ \A d \in Clients : Rests(d)
      BY <2>7 DEF Shutdown, LocalChange, vars, subVars, connVars, clientVars, histVars,
                  Rests, Silent, KeepsPlace
    <3>2. \A d \in Clients : HandedId(d)' = HandedId(d) /\ (Follows(d)' <=> Follows(d))
      BY <3>1, RestsInPlace DEF StaysInPlace
    <3>. QED BY <3>1, <3>2, FeedRests
  <2>. QED BY <2>1, <2>2, <2>3, <2>4, <2>5, <2>6, <2>7
           DEF Next, Reads, Disconnect, SendFails
<1>3. Spec => []Inv
  BY TypeCorrect, RunsUnbroken, RingFills, PlaceKept, SnapshotsLeadOn, PTL
<1>. QED BY <1>1, <1>2, <1>3, PTL DEF Spec, ServesTheFeed, Feed!FeedSpec
=============================================================================
