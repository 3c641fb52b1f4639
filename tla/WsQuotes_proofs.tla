-------------------------- MODULE WsQuotes_proofs --------------------------
(***************************************************************************)
(* Proofs about WsQuotes for any consumers, conids, requests and limits.   *)
(*                                                                         *)
(* A list that names a conid twice leaves orphaned cool-down tasks behind, *)
(* which no invariant survives.  So each conjunct below speaks of conids   *)
(* outside "doubled" only: for those every cool-down is the one the object *)
(* refers to, and a teardown hits the object it is meant for.              *)
(***************************************************************************)
EXTENDS WsQuotes, FiniteSetTheorems, TLAPS

-----------------------------------------------------------------------------
\* Any subset of a list's indices has a size, above zero if it has an element.
LEMMA TimesType ==
    ASSUME TypeOK, NEW c \in Consumers, NEW o
    PROVE  /\ Times(c, o) \in Nat
           /\ o \in Held(c) => Times(c, o) - 1 \in Nat
  <1> DEFINE places == {i \in DOMAIN attached[c] : attached[c][i] = o}
  <1>1. DOMAIN attached[c] = 1..Len(attached[c]) /\ Len(attached[c]) \in Nat
    BY DEF TypeOK
  <1>2. IsFiniteSet(1..Len(attached[c]))
    BY <1>1, FS_Interval
  <1>3. IsFiniteSet(places) /\ Cardinality(places) \in Nat
    BY <1>1, <1>2, FS_Subset, FS_CardinalityType
  <1>4. o \in Held(c) => Cardinality(places) # 0
    <2>1. o \in Held(c) => places # {}
      BY DEF Held
    <2> HIDE DEF places
    <2> QED
      BY <1>3, <2>1, FS_EmptySet
  <1> QED
    BY <1>3, <1>4 DEF Times

\* The incarnation subscribe uses: the registered one, or an unused one.
LEMMA SubscriptionOfType ==
    ASSUME TypeOK, NEW k \in Conids, k \notin Active => Unused(k) # {}
    PROVE  /\ SubscriptionOf(k) \in Incarnations
           /\ k \in Active => SubscriptionOf(k) = subs[k]
           /\ k \notin Active => SubscriptionOf(k) \in Unused(k)
  <1>1. Unused(k) \subseteq Incarnations
    BY DEF Unused
  <1>2. CASE k \in Active
    BY <1>2 DEF Active, SubscriptionOf, TypeOK
  <1>3. CASE k \notin Active
    <2>1. \E g \in Incarnations : g \in Unused(k)
      BY <1>1, <1>3
    <2> QED
      BY <1>3, <2>1 DEF Active, SubscriptionOf
  <1> QED
    BY <1>2, <1>3

\* What a subscribe does to the manager's books.
LEMMA SubscribeBooks ==
    ASSUME TypeOK, NEW c \in Consumers, NEW request \in Requests, Subscribe(c, request)
    PROVE  /\ Named(request) \subseteq Conids
           /\ \A k \in Named(request) :
                /\ subs'[k] = SubscriptionOf(k) /\ subs'[k] \in Incarnations
                /\ k \in Active => subs'[k] = subs[k]
                /\ k \notin Active => subs'[k] \in Unused(k)
           /\ \A k \in Conids \ Named(request) : subs'[k] = subs[k]
           /\ subs' \in [Conids -> Incarnations \cup {NoSub}]
           /\ attached' \in [Consumers -> Seq(Objects)]
           /\ DOMAIN attached'[c] = DOMAIN request
           /\ \A i \in DOMAIN request : attached'[c][i] = <<request[i], subs'[request[i]]>>
           /\ \A d \in Consumers \ {c} : attached'[d] = attached[d]
           /\ coolDown' \subseteq coolDown
           /\ polling' = IF mode = "polling"
                         THEN polling \cup {<<k, subs'[k]>> : k \in Named(request) \ Active}
                         ELSE polling
  <1>1. request \in Seq(Conids)
    BY RequestsAssumption
  <1>2. Named(request) \subseteq Conids /\ \A i \in DOMAIN request : request[i] \in Named(request)
    BY <1>1 DEF Named
  <1>3. /\ subs' = [k \in Conids |->
                       IF k \in Named(request) THEN SubscriptionOf(k) ELSE subs[k]]
        /\ \A k \in Named(request) \ Active : Unused(k) # {}
        /\ attached' = [attached EXCEPT ![c] =
                           [i \in DOMAIN request |-> <<request[i], SubscriptionOf(request[i])>>]]
        /\ coolDown' = CancelCoolDowns({<<k, SubscriptionOf(k)>> : k \in Named(request)})
        /\ polling' = IF mode = "polling"
                      THEN polling \cup {o \in {<<k, SubscriptionOf(k)>> : k \in Named(request)} :
                                            o[1] \in Named(request) \ Active}
                      ELSE polling
    BY DEF Subscribe
  <1>4. \A k \in Named(request) :
            /\ SubscriptionOf(k) \in Incarnations
            /\ k \in Active => SubscriptionOf(k) = subs[k]
            /\ k \notin Active => SubscriptionOf(k) \in Unused(k)
    BY <1>2, <1>3, SubscriptionOfType
  <1>5. [i \in DOMAIN request |-> <<request[i], SubscriptionOf(request[i])>>] \in Seq(Objects)
    <2>1. \A i \in 1..Len(request) : <<request[i], SubscriptionOf(request[i])>> \in Objects
      BY <1>1, <1>2, <1>4 DEF Objects
    <2> QED
      BY <1>1, <2>1
  <1>6. attached' \in [Consumers -> Seq(Objects)]
    BY <1>3, <1>5 DEF TypeOK
  <1>7. /\ DOMAIN attached'[c] = DOMAIN request
        /\ \A i \in DOMAIN request : attached'[c][i] = <<request[i], SubscriptionOf(request[i])>>
        /\ \A d \in Consumers \ {c} : attached'[d] = attached[d]
    BY <1>3 DEF TypeOK
  <1>8. \A k \in Named(request) : subs'[k] = SubscriptionOf(k)
    BY <1>2, <1>3
  <1>9. subs' \in [Conids -> Incarnations \cup {NoSub}]
    BY <1>2, <1>3, <1>4 DEF TypeOK
  <1>10. coolDown' \subseteq coolDown
    BY <1>3 DEF CancelCoolDowns
  <1>11. mode = "polling" =>
            polling' = polling \cup {<<k, subs'[k]>> : k \in Named(request) \ Active}
    BY <1>3, <1>8
  <1> QED
    BY <1>2, <1>3, <1>4, <1>6, <1>7, <1>8, <1>9, <1>10, <1>11

\* What a subscribe does to the ws calls.
LEMMA SubscribeCalls ==
    ASSUME TypeOK, NEW c \in Consumers, NEW request \in Requests, Subscribe(c, request)
    PROVE  \/ /\ mode = "ws" => Named(request) \subseteq Active
              /\ phase' = [phase EXCEPT ![c] = "open"]
              /\ UNCHANGED <<todo, calling, registry>>
           \/ /\ phase' = [phase EXCEPT ![c] = "subscribing"]
              /\ CallNext(c, Named(request) \ Active)
  BY DEF Subscribe

\* What a teardown does to the manager's books.
LEMMA TeardownBooks ==
    ASSUME TypeOK, NEW o \in Objects, NEW own \in BOOLEAN, Teardown(o, own)
    PROVE  /\ o[1] \in Conids /\ o[2] \in Incarnations /\ o = <<o[1], o[2]>>
           /\ subs' \in [Conids -> Incarnations \cup {NoSub}]
           /\ subs'[o[1]] = NoSub
           /\ \A k \in Conids \ {o[1]} : subs'[k] = subs[k]
           /\ polling' = polling \ {o} /\ coolDown' = coolDown \ {o}
           /\ leaving' \in [Objects -> Nat]
           /\ \A p \in Objects \ {o} : leaving'[p] = leaving[p]
           /\ leaving'[o] = IF Cancelled(own) THEN leaving[o] ELSE leaving[o] + 1
  <1>1. o[1] \in Conids /\ o[2] \in Incarnations /\ o = <<o[1], o[2]>>
    BY DEF Objects
  <1>2. leaving' = IF Cancelled(own) THEN leaving ELSE [leaving EXCEPT ![o] = leaving[o] + 1]
    BY DEF Teardown
  <1>3. leaving \in [Objects -> Nat] /\ leaving[o] + 1 \in Nat
    BY DEF TypeOK
  <1>4. /\ leaving' \in [Objects -> Nat]
        /\ \A p \in Objects \ {o} : leaving'[p] = leaving[p]
        /\ leaving'[o] = IF Cancelled(own) THEN leaving[o] ELSE leaving[o] + 1
    <2> HIDE DEF Cancelled
    <2> QED
      BY <1>2, <1>3
  <1> QED
    BY <1>1, <1>4 DEF Teardown, StopPoll, TypeOK

-----------------------------------------------------------------------------
\* Every action keeps the variables' types.
THEOREM TypeCorrect == Spec => []TypeOK
<1>1. Init => TypeOK
  BY DEF Init, TypeOK
<1>2. TypeOK /\ [Next]_vars => TypeOK'
  <2> SUFFICES ASSUME TypeOK, [Next]_vars PROVE TypeOK'
    OBVIOUS
  <2>1. ASSUME NEW c \in Consumers, NEW request \in Requests, Subscribe(c, request)
        PROVE  TypeOK'
    <3>1. /\ subs' \in [Conids -> Incarnations \cup {NoSub}]
          /\ attached' \in [Consumers -> Seq(Objects)]
          /\ Named(request) \subseteq Conids
      BY <2>1, SubscribeBooks
    <3>2. coolDown' \subseteq Objects
      BY <2>1, SubscribeBooks DEF TypeOK
    <3>3. polling' \subseteq Objects
      <4>1. {<<k, subs'[k]>> : k \in Named(request) \ Active} \subseteq Objects
        BY <2>1, <3>1, SubscribeBooks DEF Objects
      <4> QED
        BY <2>1, <4>1, SubscribeBooks DEF TypeOK
    <3>4. /\ todo' \in [Consumers -> SUBSET Conids] /\ calling' \in [Consumers -> SUBSET Conids]
          /\ registry' \subseteq Conids
          /\ phase' \in [Consumers -> {"off", "subscribing", "open"}]
      <4>1. CASE UNCHANGED <<todo, calling, registry>> /\ phase' = [phase EXCEPT ![c] = "open"]
        BY <4>1 DEF TypeOK
      <4>2. CASE /\ phase' = [phase EXCEPT ![c] = "subscribing"]
                 /\ CallNext(c, Named(request) \ Active)
        BY <4>2, <3>1 DEF TypeOK, CallNext
      <4> QED
        BY <2>1, <4>1, <4>2, SubscribeCalls
    <3>5. doubled' \subseteq Conids
      BY <2>1 DEF Subscribe, NamedTwice, TypeOK
    <3> QED
      BY <2>1, <3>1, <3>2, <3>3, <3>4, <3>5 DEF Subscribe, linkVars, TypeOK
  <2>2. ASSUME NEW c \in Consumers, SendSubscribe(c) PROVE TypeOK'
    <3>1. served' \subseteq Conids
      BY <2>2 DEF SendSubscribe, TypeOK
    <3>2. /\ todo' \in [Consumers -> SUBSET Conids] /\ calling' \in [Consumers -> SUBSET Conids]
          /\ registry' \subseteq Conids
          /\ phase' \in [Consumers -> {"off", "subscribing", "open"}]
      <4>1. CASE CallNext(c, todo[c]) /\ UNCHANGED phase
        <5>1. PICK k \in todo[c] :
                  /\ calling' = [calling EXCEPT ![c] = {k}]
                  /\ todo' = [todo EXCEPT ![c] = todo[c] \ {k}]
                  /\ registry' = registry \cup {k}
          BY <4>1 DEF CallNext
        <5>2. todo[c] \subseteq Conids
          BY DEF TypeOK
        <5> QED
          BY <4>1, <5>1, <5>2 DEF TypeOK
      <4>2. CASE /\ phase' = [phase EXCEPT ![c] = "open"]
                 /\ calling' = [calling EXCEPT ![c] = {}]
                 /\ UNCHANGED <<todo, registry>>
        BY <4>2 DEF TypeOK
      <4> QED
        BY <2>2, <4>1, <4>2 DEF SendSubscribe
    <3> QED
      BY <2>2, <3>1, <3>2 DEF SendSubscribe, managerVars, linkVars, TypeOK
  <2>3. ASSUME NEW c \in Consumers, Detach(c) PROVE TypeOK'
    <3>1. IdleAfter(c) \subseteq Objects /\ \A o \in IdleAfter(c) : Times(c, o) - 1 \in Nat
      <4>1. Held(c) \subseteq Objects
        BY DEF Held, TypeOK
      <4> QED
        BY <4>1, TimesType DEF IdleAfter
    <3>2. orphans' \in [Objects -> Nat]
      <4>1. \A o \in Objects : (IF o \in IdleAfter(c) THEN orphans[o] + Times(c, o) - 1
                                ELSE orphans[o]) \in Nat
        BY <3>1, TimesType DEF TypeOK
      <4> QED
        BY <2>3, <4>1 DEF Detach
    <3> QED
      BY <2>3, <3>1, <3>2 DEF Detach, linkVars, TypeOK
  <2>4. ASSUME NEW o \in Objects, Poll(o) PROVE TypeOK'
    BY <2>4 DEF Poll, managerVars, callVars, linkVars, Objects, TypeOK
  <2>5. ASSUME NEW o \in Objects, CoolDownExpires(o) PROVE TypeOK'
    <3>1. \/ Teardown(o, TRUE)
          \/ UNCHANGED <<subs, polling, leaving>> /\ coolDown' = coolDown \ {o}
      BY <2>5 DEF CoolDownExpires
    <3>2. /\ subs' \in [Conids -> Incarnations \cup {NoSub}] /\ leaving' \in [Objects -> Nat]
          /\ polling' \subseteq Objects /\ coolDown' \subseteq Objects
      <4>1. CASE Teardown(o, TRUE)
        BY <4>1, TeardownBooks DEF TypeOK
      <4>2. CASE UNCHANGED <<subs, polling, leaving>> /\ coolDown' = coolDown \ {o}
        BY <4>2 DEF TypeOK
      <4> QED
        BY <3>1, <4>1, <4>2
    <3>3. orphans' \in [Objects -> Nat]
      <4>1. UNCHANGED orphans
        BY <2>5 DEF CoolDownExpires, TypeOK
      <4> QED
        BY <4>1 DEF TypeOK
    <3> QED
      BY <2>5, <3>2, <3>3 DEF CoolDownExpires, callVars, linkVars, TypeOK
  <2>6. ASSUME NEW o \in Objects, OrphanExpires(o) PROVE TypeOK'
    <3>1. Teardown(o, FALSE) \/ UNCHANGED <<subs, polling, coolDown, leaving>>
      BY <2>6 DEF OrphanExpires
    <3>2. /\ subs' \in [Conids -> Incarnations \cup {NoSub}] /\ leaving' \in [Objects -> Nat]
          /\ polling' \subseteq Objects /\ coolDown' \subseteq Objects
      <4>1. CASE Teardown(o, FALSE)
        BY <4>1, TeardownBooks DEF TypeOK
      <4>2. CASE UNCHANGED <<subs, polling, coolDown, leaving>>
        BY <4>2 DEF TypeOK
      <4> QED
        BY <3>1, <4>1, <4>2
    <3>3. orphans' \in [Objects -> Nat]
      <4>1. orphans' = [orphans EXCEPT ![o] = orphans[o] - 1] /\ orphans[o] - 1 \in Nat
        BY <2>6 DEF OrphanExpires, TypeOK
      <4> QED
        BY <4>1 DEF TypeOK
    <3> QED
      BY <2>6, <3>2, <3>3 DEF OrphanExpires, callVars, linkVars, TypeOK
  <2>7. ASSUME NEW o \in Objects, NEW ok \in BOOLEAN, Unsubscribe(o, ok) PROVE TypeOK'
    <3>1. o[1] \in Conids
      BY DEF Objects
    <3>2. /\ leaving' \in [Objects -> Nat] /\ retracts' \in [Conids -> Nat]
          /\ served' \subseteq Conids /\ failed' \subseteq Conids /\ registry' \subseteq Conids
      <4>1. /\ leaving' = [leaving EXCEPT ![o] = leaving[o] - 1] /\ leaving[o] - 1 \in Nat
            /\ \/ retracts' = [retracts EXCEPT ![o[1]] = retracts[o[1]] + 1]
               \/ retracts' = retracts
            /\ served' \in {served, served \ {o[1]}}
            /\ failed' \in {failed \ {o[1]}, failed \cup {o[1]}}
            /\ registry' \in {registry, registry \ {o[1]}}
        BY <2>7 DEF Unsubscribe, TypeOK
      <4>2. leaving' \in [Objects -> Nat] /\ retracts' \in [Conids -> Nat]
        BY <3>1, <4>1 DEF TypeOK
      <4> QED
        BY <3>1, <4>1, <4>2 DEF TypeOK
    <3> QED
      BY <2>7, <3>2 DEF Unsubscribe, callVars, linkVars, TypeOK
  <2>8. ASSUME NEW k \in Conids, SendUnsubscribe(k) PROVE TypeOK'
    BY <2>8 DEF SendUnsubscribe, managerVars, callVars, linkVars, TypeOK
  <2>9. ASSUME Drop \/ NoticeDrop PROVE TypeOK'
    BY <2>9 DEF Drop, NoticeDrop, managerVars, callVars, TypeOK
  <2>10. ASSUME ReconnectSucceeds \/ ReconnectFails PROVE TypeOK'
    BY <2>10 DEF ReconnectSucceeds, ReconnectFails, ToReplay, managerVars, callVars, TypeOK
  <2>11. ASSUME NEW k \in Conids, ReplaySend(k) PROVE TypeOK'
    BY <2>11 DEF ReplaySend, managerVars, callVars, TypeOK
  <2>12. CASE UNCHANGED vars
    BY <2>12 DEF vars, managerVars, callVars, linkVars, TypeOK
  <2> QED
    BY <2>1, <2>2, <2>3, <2>4, <2>5, <2>6, <2>7, <2>8, <2>9, <2>10, <2>11, <2>12 DEF Next
<1> QED
  BY <1>1, <1>2, PTL DEF Spec

-----------------------------------------------------------------------------
\* A consumer is attached twice to an object only if its list named a conid twice.
AttachedOnce ==
    \A c \in Consumers : \A i, j \in DOMAIN attached[c] :
        i # j /\ attached[c][i] = attached[c][j] => attached[c][i][1] \in doubled

\* A sleeping cool-down task belongs to the registered object.
CoolDownsAreCurrent == \A o \in coolDown : o[1] \notin doubled => subs[o[1]] = o[2]

NoOrphans == \A o \in Objects : o[1] \notin doubled => orphans[o] = 0

BooksInv ==
    /\ AttachedOnce
    /\ ConsumersKeepTheirSubscription
    /\ CoolDownsAreCurrent
    /\ NoOrphans

\* What a consumer holds is an object, a pair of a conid and an incarnation.
LEMMA HeldObjects ==
    ASSUME TypeOK, NEW c \in Consumers, NEW o \in Held(c)
    PROVE  /\ o \in Objects /\ o = <<o[1], o[2]>>
           /\ o[1] \in Conids /\ o[2] \in Incarnations /\ o[2] # NoSub
  <1>1. o \in Objects
    BY DEF Held, TypeOK
  <1> QED
    BY <1>1, NoSubAssumption DEF Objects

\* A consumer attached once leaves no orphan.
LEMMA AttachedOnceIsOneTime ==
    ASSUME TypeOK, AttachedOnce, NEW c \in Consumers, NEW o \in Held(c), o[1] \notin doubled
    PROVE  Times(c, o) = 1
  <1> DEFINE places == {i \in DOMAIN attached[c] : attached[c][i] = o}
  <1>1. PICK i \in DOMAIN attached[c] : attached[c][i] = o
    BY DEF Held
  <1>2. places = {i}
    BY <1>1 DEF AttachedOnce
  <1> QED
    BY <1>2, FS_Singleton DEF Times

\* A subscribe keeps the books.
LEMMA SubscribeKeepsBooks ==
    ASSUME TypeOK, BooksInv, NEW c \in Consumers, NEW request \in Requests,
           Subscribe(c, request)
    PROVE  BooksInv'
  <1>1. doubled' = doubled \cup NamedTwice(request) /\ orphans' = orphans
    BY DEF Subscribe
  <1>2. \A k \in Active : subs'[k] = subs[k]
    BY SubscribeBooks DEF Active
  <1>3. AttachedOnce'
    <2> SUFFICES ASSUME NEW d \in Consumers,
                        NEW i \in DOMAIN attached'[d], NEW j \in DOMAIN attached'[d],
                        i # j, attached'[d][i] = attached'[d][j]
                 PROVE  attached'[d][i][1] \in doubled'
      BY DEF AttachedOnce
    <2>1. CASE d = c
      <3>1. /\ i \in DOMAIN request /\ j \in DOMAIN request
            /\ attached'[c][i] = <<request[i], subs'[request[i]]>>
            /\ attached'[c][j] = <<request[j], subs'[request[j]]>>
        BY <2>1, SubscribeBooks
      <3>2. request[i] = request[j] /\ request[i] \in Conids
        BY <2>1, <3>1, SubscribeBooks DEF Named
      <3> QED
        BY <1>1, <2>1, <3>1, <3>2 DEF NamedTwice
    <2>2. CASE d # c
      BY <1>1, <2>2, SubscribeBooks DEF BooksInv, AttachedOnce
    <2> QED
      BY <2>1, <2>2
  <1>4. ConsumersKeepTheirSubscription'
    <2> SUFFICES ASSUME NEW d \in Consumers, NEW o \in Held(d)', o[1] \notin doubled'
                 PROVE  subs'[o[1]] = o[2]
      BY DEF ConsumersKeepTheirSubscription
    <2>1. CASE d = c
      <3>1. PICK i \in DOMAIN attached'[c] : o = attached'[c][i]
        BY <2>1 DEF Held
      <3> QED
        BY <3>1, SubscribeBooks
    <2>2. CASE d # c
      <3>1. o \in Held(d)
        BY <2>2, SubscribeBooks DEF Held
      <3>2. subs[o[1]] = o[2]
        BY <1>1, <3>1 DEF BooksInv, ConsumersKeepTheirSubscription
      <3> QED
        BY <1>2, <3>1, <3>2, HeldObjects DEF Active
    <2> QED
      BY <2>1, <2>2
  <1>5. CoolDownsAreCurrent'
    <2> SUFFICES ASSUME NEW o \in coolDown', o[1] \notin doubled' PROVE subs'[o[1]] = o[2]
      BY DEF CoolDownsAreCurrent
    <2>1. o \in coolDown /\ o \in Objects
      BY SubscribeBooks DEF TypeOK
    <2>2. subs[o[1]] = o[2]
      BY <1>1, <2>1 DEF BooksInv, CoolDownsAreCurrent
    <2> QED
      BY <1>2, <2>1, <2>2, NoSubAssumption DEF Active, Objects
  <1>6. NoOrphans'
    BY <1>1 DEF BooksInv, NoOrphans
  <1> QED
    BY <1>3, <1>4, <1>5, <1>6 DEF BooksInv

\* A detach keeps the books.
LEMMA DetachKeepsBooks ==
    ASSUME TypeOK, BooksInv, NEW c \in Consumers, Detach(c)
    PROVE  BooksInv'
  <1>1. /\ subs' = subs /\ doubled' = doubled
        /\ attached' = [attached EXCEPT ![c] = <<>>]
        /\ coolDown' = coolDown \cup IdleAfter(c)
        /\ orphans' = [o \in Objects |-> IF o \in IdleAfter(c)
                                         THEN orphans[o] + Times(c, o) - 1 ELSE orphans[o]]
    BY DEF Detach
  <1>2. /\ attached'[c] = <<>> /\ \A d \in Consumers \ {c} : attached'[d] = attached[d]
    BY <1>1 DEF TypeOK
  <1>3. AttachedOnce'
    BY <1>1, <1>2 DEF BooksInv, AttachedOnce
  <1>4. ConsumersKeepTheirSubscription'
    BY <1>1, <1>2 DEF BooksInv, ConsumersKeepTheirSubscription, Held
  <1>5. CoolDownsAreCurrent'
    <2>1. \A o \in IdleAfter(c) : o[1] \notin doubled => subs[o[1]] = o[2]
      BY DEF IdleAfter, BooksInv, ConsumersKeepTheirSubscription
    <2> QED
      BY <1>1, <2>1 DEF BooksInv, CoolDownsAreCurrent
  <1>6. NoOrphans'
    <2> SUFFICES ASSUME NEW o \in Objects, o[1] \notin doubled PROVE orphans'[o] = 0
      BY <1>1 DEF NoOrphans
    <2>1. orphans[o] = 0
      BY DEF BooksInv, NoOrphans
    <2>2. o \in IdleAfter(c) => Times(c, o) = 1
      BY AttachedOnceIsOneTime DEF IdleAfter, BooksInv
    <2> QED
      BY <1>1, <2>1, <2>2
  <1> QED
    BY <1>3, <1>4, <1>5, <1>6 DEF BooksInv

\* Users is empty: no consumer holds the object.
LEMMA NoUsers ==
    ASSUME NEW o, Users(o) = {}, NEW c \in Consumers
    PROVE  o \notin Held(c)
  BY DEF Users

\* Where the conid is not doubled, a teardown meets no consumer and no other cool-down.
LEMMA TeardownKeepsBooks ==
    ASSUME TypeOK, BooksInv, NEW o \in Objects, NEW own \in BOOLEAN, Teardown(o, own),
           Users(o) = {}, o[1] \notin doubled => subs[o[1]] = o[2],
           UNCHANGED <<attached, doubled>>,
           \A p \in Objects : p[1] \notin doubled => orphans'[p] = orphans[p]
    PROVE  BooksInv'
  <1>1. /\ \A k \in Conids \ {o[1]} : subs'[k] = subs[k]
        /\ coolDown' = coolDown \ {o}
        /\ o = <<o[1], o[2]>>
    BY TeardownBooks
  <1>2. AttachedOnce' /\ NoOrphans'
    BY DEF BooksInv, AttachedOnce, NoOrphans
  <1>3. ConsumersKeepTheirSubscription'
    <2> SUFFICES ASSUME NEW c \in Consumers, NEW p \in Held(c), p[1] \notin doubled
                 PROVE  subs'[p[1]] = p[2]
      BY DEF ConsumersKeepTheirSubscription, Held
    <2>1. subs[p[1]] = p[2]
      BY DEF BooksInv, ConsumersKeepTheirSubscription
    <2>2. p # o /\ p = <<p[1], p[2]>> /\ p[1] \in Conids
      BY NoUsers, HeldObjects
    <2>3. p[1] # o[1]
      BY <1>1, <2>1, <2>2
    <2> QED
      BY <1>1, <2>1, <2>2, <2>3
  <1>4. CoolDownsAreCurrent'
    <2> SUFFICES ASSUME NEW p \in coolDown \ {o}, p[1] \notin doubled
                 PROVE  subs'[p[1]] = p[2]
      BY <1>1 DEF CoolDownsAreCurrent
    <2>1. subs[p[1]] = p[2]
      BY DEF BooksInv, CoolDownsAreCurrent
    <2>2. p = <<p[1], p[2]>> /\ p[1] \in Conids
      BY DEF TypeOK, Objects
    <2>3. p[1] # o[1]
      BY <1>1, <2>1, <2>2
    <2> QED
      BY <1>1, <2>1, <2>2, <2>3
  <1> QED
    BY <1>2, <1>3, <1>4 DEF BooksInv

\* The books' invariant.
LEMMA BooksInvInvariant == Spec => []BooksInv
<1>1. Init => BooksInv
  BY DEF Init, BooksInv, AttachedOnce, ConsumersKeepTheirSubscription, CoolDownsAreCurrent,
         NoOrphans, Held
<1>2. TypeOK /\ BooksInv /\ [Next]_vars => BooksInv'
  <2> SUFFICES ASSUME TypeOK, BooksInv, [Next]_vars PROVE BooksInv'
    OBVIOUS
  <2>1. ASSUME NEW c \in Consumers, NEW request \in Requests, Subscribe(c, request)
        PROVE  BooksInv'
    BY <2>1, SubscribeKeepsBooks
  <2>2. ASSUME NEW c \in Consumers, Detach(c) PROVE BooksInv'
    BY <2>2, DetachKeepsBooks
  <2>3. ASSUME NEW o \in Objects, CoolDownExpires(o) PROVE BooksInv'
    <3>1. CASE Users(o) = {}
      <4>1. Teardown(o, TRUE) /\ UNCHANGED <<attached, doubled, orphans>> /\ o \in coolDown
        BY <2>3, <3>1 DEF CoolDownExpires
      <4>2. o[1] \notin doubled => subs[o[1]] = o[2]
        BY <4>1 DEF BooksInv, CoolDownsAreCurrent
      <4> QED
        BY <3>1, <4>1, <4>2, TeardownKeepsBooks
    <3>2. CASE Users(o) # {}
      <4>1. coolDown' = coolDown \ {o} /\ UNCHANGED <<subs, attached, doubled, orphans>>
        BY <2>3, <3>2 DEF CoolDownExpires
      <4> QED
        BY <4>1 DEF BooksInv, AttachedOnce, ConsumersKeepTheirSubscription,
                    CoolDownsAreCurrent, NoOrphans, Held
    <3> QED
      BY <3>1, <3>2
  <2>4. ASSUME NEW o \in Objects, OrphanExpires(o) PROVE BooksInv'
    <3>1. /\ orphans' = [orphans EXCEPT ![o] = orphans[o] - 1]
          /\ orphans[o] > 0 /\ UNCHANGED <<attached, doubled>>
      BY <2>4 DEF OrphanExpires
    <3>2. o[1] \in doubled
      BY <3>1 DEF BooksInv, NoOrphans
    <3>3. \A p \in Objects : p[1] \notin doubled => orphans'[p] = orphans[p]
      BY <3>1, <3>2 DEF TypeOK
    <3>4. CASE Users(o) = {}
      <4>1. Teardown(o, FALSE)
        BY <2>4, <3>4 DEF OrphanExpires
      <4> QED
        BY <3>1, <3>2, <3>3, <3>4, <4>1, TeardownKeepsBooks
    <3>5. CASE Users(o) # {}
      <4>1. UNCHANGED <<subs, coolDown>>
        BY <2>4, <3>5 DEF OrphanExpires
      <4> QED
        BY <3>1, <3>3, <4>1 DEF BooksInv, AttachedOnce, ConsumersKeepTheirSubscription,
                    CoolDownsAreCurrent, NoOrphans, Held
    <3> QED
      BY <3>4, <3>5
  <2>5. CASE UNCHANGED <<subs, attached, coolDown, orphans, doubled>>
    BY <2>5 DEF BooksInv, AttachedOnce, ConsumersKeepTheirSubscription, CoolDownsAreCurrent,
                NoOrphans, Held
  <2>6. \/ UNCHANGED <<subs, attached, coolDown, orphans, doubled>>
        \/ \E c \in Consumers, request \in Requests : Subscribe(c, request)
        \/ \E c \in Consumers : Detach(c)
        \/ \E o \in Objects : CoolDownExpires(o)
        \/ \E o \in Objects : OrphanExpires(o)
    BY DEF Next, vars, managerVars, SendSubscribe, Poll, Unsubscribe, SendUnsubscribe, Drop,
           NoticeDrop, ReconnectSucceeds, ReconnectFails, ReplaySend
  <2> QED
    BY <2>1, <2>2, <2>3, <2>4, <2>5, <2>6
<1> QED
  BY <1>1, <1>2, TypeCorrect, PTL DEF Spec

\* No teardown ends a subscription under a consumer, in either mode.
THEOREM SubscriptionsAreKept == Spec => []ConsumersKeepTheirSubscription
<1>1. BooksInv => ConsumersKeepTheirSubscription
  BY DEF BooksInv
<1> QED
  BY <1>1, BooksInvInvariant, PTL

-----------------------------------------------------------------------------
\* OnePollPerConid, one object at a time.
PollersAreCurrent ==
    mode = "polling" =>
        \A k \in Conids \ doubled : \A g \in Incarnations : <<k, g>> \in polling <=> subs[k] = g

LEMMA PollersAreOne == ASSUME TypeOK PROVE PollersAreCurrent <=> OnePollPerConid
  <1>1. ASSUME PollersAreCurrent PROVE OnePollPerConid
    BY <1>1, NoSubAssumption DEF PollersAreCurrent, OnePollPerConid, TypeOK
  <1>2. ASSUME OnePollPerConid, mode = "polling", NEW k \in Conids \ doubled,
               NEW g \in Incarnations
        PROVE  <<k, g>> \in polling <=> subs[k] = g
    <2>1. {h \in Incarnations : <<k, h>> \in polling} = {subs[k]} \ {NoSub}
      BY <1>2 DEF OnePollPerConid
    <2>2. g \in {h \in Incarnations : <<k, h>> \in polling} <=> subs[k] = g
      BY <2>1, NoSubAssumption
    <2> QED
      BY <2>2
  <1> QED
    BY <1>1, <1>2 DEF PollersAreCurrent

\* Only the cool-down task an object refers to tears down an undoubled conid, and
\* then it is the registered object: an orphan means the conid is doubled.
LEMMA TeardownIsCurrent ==
    ASSUME TypeOK, BooksInv, NEW o \in Objects,
           (CoolDownExpires(o) \/ OrphanExpires(o)), o[1] \notin doubled
    PROVE  subs[o[1]] = o[2] /\ CoolDownExpires(o)
  <1>1. ~OrphanExpires(o)
    <2>1. orphans[o] = 0
      BY DEF BooksInv, NoOrphans
    <2>2. OrphanExpires(o) => orphans[o] > 0
      BY DEF OrphanExpires
    <2> QED
      BY <2>1, <2>2
  <1>2. o \in coolDown
    BY <1>1 DEF CoolDownExpires
  <1> QED
    BY <1>1, <1>2 DEF BooksInv, CoolDownsAreCurrent

\* An expiry is a teardown or leaves subscriptions, polls and pending GETs alone.
LEMMA ExpiryIsTeardown ==
    ASSUME NEW o \in Objects, CoolDownExpires(o) \/ OrphanExpires(o)
    PROVE  /\ \/ \E own \in BOOLEAN : Teardown(o, own)
              \/ UNCHANGED <<subs, polling, leaving>>
           /\ UNCHANGED <<mode, doubled, attached, callVars, linkVars, retracts, registry,
                          served, failed>>
  <1>1. ASSUME CoolDownExpires(o)
        PROVE  Teardown(o, TRUE) \/ UNCHANGED <<subs, polling, leaving>>
    BY <1>1 DEF CoolDownExpires
  <1>2. ASSUME OrphanExpires(o)
        PROVE  Teardown(o, FALSE) \/ UNCHANGED <<subs, polling, leaving>>
    BY <1>2 DEF OrphanExpires
  <1>3. UNCHANGED <<mode, doubled, attached, callVars, linkVars, retracts, registry,
                    served, failed>>
    BY DEF CoolDownExpires, OrphanExpires
  <1> QED
    BY <1>1, <1>2, <1>3

\* The polls' part of the invariant.
LEMMA PollersStayCurrent ==
    ASSUME TypeOK, BooksInv, PollersAreCurrent, [Next]_vars
    PROVE  PollersAreCurrent'
  <1>1. ASSUME NEW c \in Consumers, NEW request \in Requests, Subscribe(c, request)
        PROVE  PollersAreCurrent'
    <2>1. mode' = mode /\ doubled \subseteq doubled'
      BY <1>1 DEF Subscribe
    <2> SUFFICES ASSUME mode = "polling", NEW k \in Conids \ doubled, NEW g \in Incarnations
                 PROVE  <<k, g>> \in polling' <=> subs'[k] = g
      BY <2>1 DEF PollersAreCurrent
    <2>2. <<k, g>> \in polling <=> subs[k] = g
      BY DEF PollersAreCurrent
    <2>3. polling' = polling \cup {<<j, subs'[j]>> : j \in Named(request) \ Active}
      BY <1>1, SubscribeBooks
    <2>4. CASE k \in Named(request) \ Active
      <3>1. subs[k] = NoSub
        BY <2>4 DEF Active
      <3>2. <<k, g>> \in polling' <=> subs'[k] = g
        BY <2>2, <2>3, <2>4, <3>1, NoSubAssumption
      <3> QED
        BY <3>2
    <2>5. CASE k \notin Named(request) \ Active
      <3>1. subs'[k] = subs[k]
        BY <1>1, <2>5, SubscribeBooks
      <3> QED
        BY <2>2, <2>3, <2>5, <3>1
    <2> QED
      BY <2>4, <2>5
  <1>2. ASSUME NEW o \in Objects, CoolDownExpires(o) \/ OrphanExpires(o)
        PROVE  PollersAreCurrent'
    <2>1. mode' = mode /\ doubled' = doubled
      BY <1>2, ExpiryIsTeardown
    <2>2. CASE UNCHANGED <<subs, polling, leaving>>
      BY <2>1, <2>2 DEF PollersAreCurrent
    <2>3. ASSUME NEW own \in BOOLEAN, Teardown(o, own) PROVE PollersAreCurrent'
      <3> SUFFICES ASSUME mode = "polling", NEW k \in Conids \ doubled, NEW g \in Incarnations
                   PROVE  <<k, g>> \in polling' <=> subs'[k] = g
        BY <2>1 DEF PollersAreCurrent
      <3>1. <<k, g>> \in polling <=> subs[k] = g
        BY DEF PollersAreCurrent
      <3>2. /\ polling' = polling \ {o} /\ o = <<o[1], o[2]>>
            /\ subs'[o[1]] = NoSub /\ \A j \in Conids \ {o[1]} : subs'[j] = subs[j]
        BY <2>3, TeardownBooks
      <3>3. CASE k = o[1]
        <4>1. subs[k] = o[2]
          BY <1>2, <3>3, TeardownIsCurrent
        <4> QED
          BY <3>1, <3>2, <3>3, <4>1, NoSubAssumption
      <3>4. CASE k # o[1]
        BY <3>1, <3>2, <3>4
      <3> QED
        BY <3>3, <3>4
    <2> QED
      BY <1>2, <2>2, <2>3, ExpiryIsTeardown
  <1>3. CASE UNCHANGED <<mode, subs, polling, doubled>>
    BY <1>3 DEF PollersAreCurrent
  <1>4. \/ UNCHANGED <<mode, subs, polling, doubled>>
        \/ \E c \in Consumers, request \in Requests : Subscribe(c, request)
        \/ \E o \in Objects : CoolDownExpires(o) \/ OrphanExpires(o)
    BY DEF Next, vars, managerVars, SendSubscribe, Poll, Detach, Unsubscribe, SendUnsubscribe,
           Drop, NoticeDrop, ReconnectSucceeds, ReconnectFails, ReplaySend
  <1> QED
    BY <1>1, <1>2, <1>3, <1>4

\* Each conid by itself: served, forgotten, undoubled and without a failed GET, it
\* has a GET under way.
GoingOrUsed ==
    mode = "polling" =>
        \A k \in served : k \notin failed \cup doubled =>
            \/ subs[k] # NoSub
            \/ \E g \in Incarnations : leaving[<<k, g>>] > 0

\* In polling mode no ws call is ever under way, nor is the link used.
NoCalls ==
    mode = "polling" =>
        /\ \A c \in Consumers : phase[c] # "subscribing"
        /\ link = "off" /\ replay = {}
        /\ \A k \in Conids : retracts[k] = 0

LEMMA NoCallsInvariant == Spec => []NoCalls
<1>1. Init => NoCalls
  BY DEF Init, NoCalls
<1>2. TypeOK /\ NoCalls /\ [Next]_vars => NoCalls'
  <2> SUFFICES ASSUME TypeOK, NoCalls, [Next]_vars PROVE NoCalls'
    OBVIOUS
  <2>1. mode' = mode
    BY DEF Next, vars, Subscribe, SendSubscribe, Poll, Detach, CoolDownExpires, OrphanExpires,
           Unsubscribe, SendUnsubscribe, Drop, NoticeDrop, ReconnectSucceeds, ReconnectFails,
           ReplaySend
  <2>2. mode = "polling" => UNCHANGED <<link, replay, retracts>>
    <3>1. mode = "polling" =>
              ~(Drop \/ NoticeDrop \/ ReconnectSucceeds \/ ReconnectFails)
      BY DEF NoCalls, Drop, NoticeDrop, ReconnectSucceeds, ReconnectFails
    <3>2. mode = "polling" => \A k \in Conids : ~ReplaySend(k) /\ ~SendUnsubscribe(k)
      <4>1. \A k \in Conids : SendUnsubscribe(k) => retracts[k] > 0
        BY DEF SendUnsubscribe
      <4>2. \A k \in Conids : ReplaySend(k) => k \in replay
        BY DEF ReplaySend
      <4> QED
        BY <4>1, <4>2 DEF NoCalls
    <3>3. \A o \in Objects, ok \in BOOLEAN :
              Unsubscribe(o, ok) /\ mode = "polling" => UNCHANGED <<link, replay, retracts>>
      BY DEF Unsubscribe, linkVars
    <3>4. \A c \in Consumers : SendSubscribe(c) \/ Detach(c) => UNCHANGED <<link, replay, retracts>>
      BY DEF SendSubscribe, Detach, linkVars
    <3>5. \A c \in Consumers, request \in Requests :
              Subscribe(c, request) => UNCHANGED <<link, replay, retracts>>
      BY DEF Subscribe, linkVars
    <3>6. \A o \in Objects :
              Poll(o) \/ CoolDownExpires(o) \/ OrphanExpires(o) => UNCHANGED <<link, replay, retracts>>
      BY DEF Poll, CoolDownExpires, OrphanExpires, linkVars
    <3> QED
      BY <3>1, <3>2, <3>3, <3>4, <3>5, <3>6 DEF Next, vars, linkVars
  <2>3. mode = "polling" => \A c \in Consumers : phase'[c] # "subscribing"
    <3>1. ASSUME mode = "polling", NEW c \in Consumers, NEW request \in Requests,
                 Subscribe(c, request)
          PROVE  phase' = [phase EXCEPT ![c] = "open"]
      BY <3>1 DEF Subscribe
    <3>2. ASSUME NEW c \in Consumers, Detach(c)
          PROVE  phase' = [phase EXCEPT ![c] = "off"]
      BY <3>2 DEF Detach
    <3>3. \/ \E c \in Consumers, request \in Requests : Subscribe(c, request)
          \/ \E c \in Consumers : Detach(c)
          \/ \E c \in Consumers : SendSubscribe(c)
          \/ phase' = phase
      BY DEF Next, vars, callVars, Poll, CoolDownExpires, OrphanExpires, Unsubscribe,
             SendUnsubscribe, Drop, NoticeDrop, ReconnectSucceeds, ReconnectFails, ReplaySend
    <3>4. mode = "polling" => ~\E c \in Consumers : SendSubscribe(c)
      BY DEF NoCalls, SendSubscribe
    <3> QED
      BY <3>1, <3>2, <3>3, <3>4 DEF NoCalls, TypeOK
  <2> QED
    BY <2>1, <2>2, <2>3 DEF NoCalls
<1> QED
  BY <1>1, <1>2, TypeCorrect, PTL DEF Spec

\* A teardown in polling mode always leads to the GET, and only the GET's success
\* or failure ends the wait for it.
LEMMA GoingOrUsedStays ==
    ASSUME TypeOK, BooksInv, NoCalls, PollersAreCurrent, GoingOrUsed, [Next]_vars
    PROVE  GoingOrUsed'
  <1> SUFFICES ASSUME mode = "polling"
               PROVE  GoingOrUsed'
    <2>1. mode' = mode
      BY DEF Next, vars, Subscribe, SendSubscribe, Poll, Detach, CoolDownExpires,
             OrphanExpires, Unsubscribe, SendUnsubscribe, Drop, NoticeDrop,
             ReconnectSucceeds, ReconnectFails, ReplaySend
    <2> QED
      BY <2>1 DEF GoingOrUsed
  <1>1. ASSUME NEW c \in Consumers, NEW request \in Requests, Subscribe(c, request)
        PROVE  GoingOrUsed'
    <2>1. UNCHANGED <<served, failed, leaving>> /\ doubled \subseteq doubled'
      BY <1>1 DEF Subscribe
    <2>2. \A k \in Conids : subs[k] # NoSub => subs'[k] # NoSub
      <3>1. \A k \in Conids : subs[k] # NoSub => subs'[k] = subs[k]
        BY <1>1, SubscribeBooks DEF Active
      <3> QED
        BY <3>1
    <2> QED
      BY <2>1, <2>2 DEF GoingOrUsed, TypeOK
  <1>2. ASSUME NEW o \in Objects, Poll(o) PROVE GoingOrUsed'
    <2>1. /\ UNCHANGED <<subs, leaving, failed, doubled>>
          /\ served' = served \cup {o[1]} /\ o \in polling
      BY <1>2 DEF Poll, managerVars
    <2>2. o[1] \notin doubled => subs[o[1]] # NoSub
      BY <2>1, NoSubAssumption DEF PollersAreCurrent, Objects
    <2> QED
      BY <2>1, <2>2 DEF GoingOrUsed
  <1>3. ASSUME NEW o \in Objects, CoolDownExpires(o) \/ OrphanExpires(o)
        PROVE  GoingOrUsed'
    <2>1. UNCHANGED <<served, failed, doubled>>
      BY <1>3, ExpiryIsTeardown
    <2>2. CASE UNCHANGED <<subs, polling, leaving>>
      BY <2>1, <2>2 DEF GoingOrUsed
    <2>3. ASSUME NEW own \in BOOLEAN, Teardown(o, own) PROVE GoingOrUsed'
      <3>1. /\ \A k \in Conids \ {o[1]} : subs'[k] = subs[k]
            /\ \A p \in Objects \ {o} : leaving'[p] = leaving[p]
            /\ leaving'[o] = leaving[o] + 1 /\ leaving[o] \in Nat
            /\ o = <<o[1], o[2]>> /\ o[2] \in Incarnations
        BY <2>3, TeardownBooks DEF Cancelled, TypeOK
      <3> SUFFICES ASSUME NEW k \in served, k \notin failed \cup doubled
                   PROVE  \/ subs'[k] # NoSub
                          \/ \E g \in Incarnations : leaving'[<<k, g>>] > 0
        BY <2>1 DEF GoingOrUsed
      <3>2. CASE k = o[1]
        BY <3>1, <3>2
      <3>3. CASE k # o[1]
        <4>1. /\ k \in Conids
              /\ \A g \in Incarnations : <<k, g>> \in Objects /\ <<k, g>> # o
          BY <3>1, <3>3 DEF TypeOK, Objects
        <4> QED
          BY <3>1, <3>3, <4>1 DEF GoingOrUsed
      <3> QED
        BY <3>2, <3>3
    <2> QED
      BY <1>3, <2>2, <2>3, ExpiryIsTeardown
  <1>4. ASSUME NEW o \in Objects, NEW ok \in BOOLEAN, Unsubscribe(o, ok)
        PROVE  GoingOrUsed'
    <2>1. /\ UNCHANGED <<subs, doubled>> /\ leaving' = [leaving EXCEPT ![o] = leaving[o] - 1]
          /\ served' = IF ok THEN served \ {o[1]} ELSE served
          /\ failed' = IF ok THEN failed \ {o[1]} ELSE failed \cup {o[1]}
      BY <1>4 DEF Unsubscribe
    <2> SUFFICES ASSUME NEW k \in served', k \notin failed' \cup doubled
                 PROVE  \/ subs'[k] # NoSub
                        \/ \E g \in Incarnations : leaving'[<<k, g>>] > 0
      BY <2>1 DEF GoingOrUsed
    <2>2. k # o[1] /\ k \in served /\ k \notin failed
      BY <2>1
    <2>3. \A g \in Incarnations : leaving'[<<k, g>>] = leaving[<<k, g>>]
      BY <2>1, <2>2 DEF TypeOK, Objects
    <2> QED
      BY <2>1, <2>2, <2>3 DEF GoingOrUsed
  <1>5. CASE UNCHANGED <<subs, leaving, served, failed, doubled>>
    BY <1>5 DEF GoingOrUsed
  <1>6. \/ UNCHANGED <<subs, leaving, served, failed, doubled>>
        \/ \E c \in Consumers, request \in Requests : Subscribe(c, request)
        \/ \E o \in Objects : Poll(o)
        \/ \E o \in Objects : CoolDownExpires(o) \/ OrphanExpires(o)
        \/ \E o \in Objects, ok \in BOOLEAN : Unsubscribe(o, ok)
    <2>1. ~(\E c \in Consumers : SendSubscribe(c)) /\ ~(\E k \in Conids : SendUnsubscribe(k))
      BY DEF NoCalls, SendSubscribe, SendUnsubscribe
    <2>2. ~(Drop \/ NoticeDrop \/ ReconnectSucceeds \/ ReconnectFails)
             /\ ~(\E k \in Conids : ReplaySend(k))
      BY DEF NoCalls, Drop, NoticeDrop, ReconnectSucceeds, ReconnectFails, ReplaySend
    <2> QED
      BY <2>1, <2>2 DEF Next, vars, managerVars, Detach
  <1> QED
    BY <1>1, <1>2, <1>3, <1>4, <1>5, <1>6

\* The polling mode's invariant.
LEMMA PollInvInvariant == Spec => [](PollersAreCurrent /\ GoingOrUsed)
<1>1. Init => PollersAreCurrent /\ GoingOrUsed
  BY NoSubAssumption DEF Init, PollersAreCurrent, GoingOrUsed
<1>2. /\ TypeOK /\ BooksInv /\ NoCalls /\ PollersAreCurrent /\ GoingOrUsed /\ [Next]_vars
      => PollersAreCurrent' /\ GoingOrUsed'
  BY PollersStayCurrent, GoingOrUsedStays
<1> QED
  BY <1>1, <1>2, TypeCorrect, BooksInvInvariant, NoCallsInvariant, PTL DEF Spec

\* One poll task per active conid and none besides, for any number of conids.
THEOREM PollsAreOne == Spec => []OnePollPerConid
<1>1. TypeOK /\ PollersAreCurrent => OnePollPerConid
  BY PollersAreOne
<1> QED
  BY <1>1, TypeCorrect, PollInvInvariant, PTL

\* In polling mode the gateway is told of every subscription that is forgotten.
THEOREM PollingUnsubscribes == Spec => []PollingForgottenIsUnsubscribed
<1>1. TypeOK /\ GoingOrUsed => PollingForgottenIsUnsubscribed
  <2> SUFFICES ASSUME TypeOK, GoingOrUsed, mode = "polling", NEW k \in Conids,
                      k \in served \ (failed \cup doubled \cup Underway),
                      \A g \in Incarnations : leaving[<<k, g>>] = 0
               PROVE  subs[k] # NoSub
    BY DEF PollingForgottenIsUnsubscribed, ForgottenIsUnsubscribed
  <2>1. k \in served /\ k \notin failed \cup doubled
    OBVIOUS
  <2>2. subs[k] # NoSub \/ \E g \in Incarnations : leaving[<<k, g>>] > 0
    BY <2>1 DEF GoingOrUsed
  <2>3. ASSUME NEW g \in Incarnations PROVE ~(leaving[<<k, g>>] > 0)
    <3>1. leaving[<<k, g>>] = 0
      OBVIOUS
    <3> QED
      BY <3>1
  <2> QED
    BY <2>2, <2>3
<1> QED
  BY <1>1, TypeCorrect, PollInvInvariant, PTL

-----------------------------------------------------------------------------
\* Only a subscribe in progress has ws calls.
CallsInv == \A c \in Consumers : phase[c] # "subscribing" => todo[c] = {} /\ calling[c] = {}

\* In ws mode the one cool-down task of an undoubled conid dies of its own
\* cancellation: nothing is ever unsubscribed.
NothingLeaves ==
    mode = "ws" =>
        /\ \A o \in Objects : o[1] \notin doubled => leaving[o] = 0
        /\ \A k \in Conids \ doubled : retracts[k] = 0

\* The registry has every active conid, up to the calls to come ...
ActiveIsRegistered ==
    mode = "ws" =>
        \A k \in Active \ doubled : k \in registry \/ \E c \in Consumers : k \in todo[c]

\* ... and with the link up the gateway has every registered one, up to the sends
\* to come.
RegisteredIsServed ==
    mode = "ws" /\ link = "up" =>
        \A k \in registry \ doubled :
            k \in served \cup replay \/ \E c \in Consumers : k \in calling[c]

FeedInv == CallsInv /\ NothingLeaves /\ ActiveIsRegistered /\ RegisteredIsServed

LEMMA SubscribeKeepsFeeds ==
    ASSUME TypeOK, FeedInv, NEW c \in Consumers, NEW request \in Requests,
           Subscribe(c, request)
    PROVE  FeedInv'
  <1>1. /\ UNCHANGED <<mode, leaving, link, replay, served, retracts>>
        /\ phase[c] = "off" /\ doubled \subseteq doubled'
    BY DEF Subscribe, linkVars
  <1>2. NothingLeaves'
    BY <1>1 DEF FeedInv, NothingLeaves
  <1>3. todo[c] = {} /\ calling[c] = {}
    BY <1>1 DEF FeedInv, CallsInv
  <1>4. \A k \in Conids : k \in Active' => k \in Active \/ k \in Named(request)
    BY SubscribeBooks DEF Active
  <1>5. CASE /\ mode = "ws" => Named(request) \subseteq Active
             /\ phase' = [phase EXCEPT ![c] = "open"]
             /\ UNCHANGED <<todo, calling, registry>>
    <2>1. CallsInv'
      BY <1>3, <1>5 DEF FeedInv, CallsInv, TypeOK
    <2>2. ActiveIsRegistered'
      <3>1. mode = "ws" => Active' \subseteq Active
        BY <1>4, <1>5 DEF Active
      <3> QED
        BY <1>1, <1>5, <3>1 DEF FeedInv, ActiveIsRegistered
    <2>3. RegisteredIsServed'
      BY <1>1, <1>5 DEF FeedInv, RegisteredIsServed
    <2> QED
      BY <1>2, <2>1, <2>2, <2>3 DEF FeedInv
  <1>6. CASE /\ phase' = [phase EXCEPT ![c] = "subscribing"]
             /\ CallNext(c, Named(request) \ Active)
    <2>1. PICK k \in Named(request) \ Active :
              /\ calling' = [calling EXCEPT ![c] = {k}]
              /\ todo' = [todo EXCEPT ![c] = (Named(request) \ Active) \ {k}]
              /\ registry' = registry \cup {k}
      BY <1>6 DEF CallNext
    <2>2. /\ calling'[c] = {k} /\ todo'[c] = (Named(request) \ Active) \ {k}
          /\ phase'[c] = "subscribing"
          /\ \A d \in Consumers \ {c} : /\ calling'[d] = calling[d] /\ todo'[d] = todo[d]
                                        /\ phase'[d] = phase[d]
      BY <1>6, <2>1 DEF TypeOK
    <2>3. CallsInv'
      BY <2>2 DEF FeedInv, CallsInv
    <2>4. ActiveIsRegistered'
      <3> SUFFICES ASSUME mode = "ws", NEW j \in Active', j \notin doubled'
                   PROVE  j \in registry' \/ \E d \in Consumers : j \in todo'[d]
        BY <1>1 DEF ActiveIsRegistered
      <3>1. CASE j \in Active
        <4>1. j \in registry \/ \E d \in Consumers : j \in todo[d]
          BY <1>1, <3>1 DEF FeedInv, ActiveIsRegistered
        <4> QED
          BY <1>3, <2>1, <2>2, <4>1
      <3>2. CASE j \notin Active
        <4>1. j \in Named(request)
          BY <1>4, <3>2 DEF Active
        <4> QED
          BY <2>1, <2>2, <3>2, <4>1
      <3> QED
        BY <3>1, <3>2
    <2>5. RegisteredIsServed'
      <3> SUFFICES ASSUME mode = "ws", link = "up", NEW j \in registry', j \notin doubled'
                   PROVE  j \in served \cup replay \/ \E d \in Consumers : j \in calling'[d]
        BY <1>1 DEF RegisteredIsServed
      <3>1. CASE j = k
        BY <2>2, <3>1
      <3>2. CASE j # k
        <4>1. j \in served \cup replay \/ \E d \in Consumers : j \in calling[d]
          BY <1>1, <2>1, <3>2 DEF FeedInv, RegisteredIsServed
        <4> QED
          BY <1>3, <2>2, <4>1
      <3> QED
        BY <3>1, <3>2
    <2> QED
      BY <1>2, <2>3, <2>4, <2>5 DEF FeedInv
  <1> QED
    BY <1>5, <1>6, SubscribeCalls

LEMMA SendKeepsFeeds ==
    ASSUME TypeOK, FeedInv, NEW c \in Consumers, SendSubscribe(c)
    PROVE  FeedInv'
  <1>1. /\ UNCHANGED <<mode, subs, leaving, link, replay, retracts, doubled>>
        /\ served' = IF link = "up" THEN served \cup calling[c] ELSE served
        /\ phase[c] = "subscribing"
    BY DEF SendSubscribe, linkVars, managerVars
  <1>2. NothingLeaves'
    BY <1>1 DEF FeedInv, NothingLeaves
  <1>3. Active' = Active
    BY <1>1 DEF Active
  <1>4. CASE CallNext(c, todo[c]) /\ UNCHANGED phase
    <2>1. PICK k \in todo[c] :
              /\ calling' = [calling EXCEPT ![c] = {k}]
              /\ todo' = [todo EXCEPT ![c] = todo[c] \ {k}]
              /\ registry' = registry \cup {k}
      BY <1>4 DEF CallNext
    <2>2. /\ calling'[c] = {k} /\ todo'[c] = todo[c] \ {k}
          /\ \A d \in Consumers \ {c} : calling'[d] = calling[d] /\ todo'[d] = todo[d]
      BY <2>1 DEF TypeOK
    <2>3. CallsInv'
      BY <1>1, <1>4, <2>2 DEF FeedInv, CallsInv
    <2>4. ActiveIsRegistered'
      <3> SUFFICES ASSUME mode = "ws", NEW j \in Active, j \notin doubled
                   PROVE  j \in registry' \/ \E d \in Consumers : j \in todo'[d]
        BY <1>1, <1>3 DEF ActiveIsRegistered
      <3>1. j \in registry \/ \E d \in Consumers : j \in todo[d]
        BY DEF FeedInv, ActiveIsRegistered
      <3> QED
        BY <2>1, <2>2, <3>1
    <2>5. RegisteredIsServed'
      <3> SUFFICES ASSUME mode = "ws", link = "up", NEW j \in registry', j \notin doubled
                   PROVE  j \in served' \cup replay \/ \E d \in Consumers : j \in calling'[d]
        BY <1>1 DEF RegisteredIsServed
      <3>1. CASE j = k
        BY <2>2, <3>1
      <3>2. CASE j # k
        <4>1. j \in served \cup replay \/ \E d \in Consumers : j \in calling[d]
          BY <2>1, <3>2 DEF FeedInv, RegisteredIsServed
        <4> QED
          BY <1>1, <2>2, <4>1
      <3> QED
        BY <3>1, <3>2
    <2> QED
      BY <1>2, <2>3, <2>4, <2>5 DEF FeedInv
  <1>5. CASE /\ todo[c] = {} /\ phase' = [phase EXCEPT ![c] = "open"]
             /\ calling' = [calling EXCEPT ![c] = {}]
             /\ UNCHANGED <<todo, registry>>
    <2>1. /\ calling'[c] = {} /\ \A d \in Consumers \ {c} : calling'[d] = calling[d]
          /\ \A d \in Consumers \ {c} : phase'[d] = phase[d]
      BY <1>5 DEF TypeOK
    <2>2. CallsInv'
      BY <1>5, <2>1 DEF FeedInv, CallsInv
    <2>3. ActiveIsRegistered'
      BY <1>1, <1>3, <1>5 DEF FeedInv, ActiveIsRegistered
    <2>4. RegisteredIsServed'
      <3> SUFFICES ASSUME mode = "ws", link = "up", NEW j \in registry, j \notin doubled
                   PROVE  j \in served' \cup replay \/ \E d \in Consumers : j \in calling'[d]
        BY <1>1, <1>5 DEF RegisteredIsServed
      <3>1. j \in served \cup replay \/ \E d \in Consumers : j \in calling[d]
        BY DEF FeedInv, RegisteredIsServed
      <3> QED
        BY <1>1, <2>1, <3>1
    <2> QED
      BY <1>2, <2>2, <2>3, <2>4 DEF FeedInv
  <1> QED
    BY <1>4, <1>5 DEF SendSubscribe

\* What the feed's invariant says of an expiry: the conid's GET and frame stay away.
LEMMA ExpiryKeepsFeeds ==
    ASSUME TypeOK, BooksInv, FeedInv, NEW o \in Objects, CoolDownExpires(o) \/ OrphanExpires(o)
    PROVE  FeedInv'
  <1>1. UNCHANGED <<mode, doubled, phase, todo, calling, link, replay, retracts, registry, served>>
    BY ExpiryIsTeardown DEF callVars, linkVars
  <1>2. CallsInv' /\ RegisteredIsServed'
    BY <1>1 DEF FeedInv, CallsInv, RegisteredIsServed
  <1>3. CASE UNCHANGED <<subs, polling, leaving>>
    BY <1>1, <1>2, <1>3 DEF FeedInv, NothingLeaves, ActiveIsRegistered, Active
  <1>4. ASSUME NEW own \in BOOLEAN, Teardown(o, own) PROVE FeedInv'
    <2>1. Active' \subseteq Active
      BY <1>4, TeardownBooks DEF Active
    <2>2. ActiveIsRegistered'
      BY <1>1, <2>1 DEF FeedInv, ActiveIsRegistered
    <2>3. NothingLeaves'
      <3> SUFFICES ASSUME mode = "ws", NEW p \in Objects, p[1] \notin doubled
                   PROVE  leaving'[p] = 0
        BY <1>1 DEF FeedInv, NothingLeaves
      <3>1. leaving[p] = 0
        BY DEF FeedInv, NothingLeaves
      <3>2. CASE p # o
        BY <1>4, <3>1, <3>2, TeardownBooks
      <3>3. CASE p = o
        <4>1. CoolDownExpires(o) /\ ~OrphanExpires(o)
          <5>1. orphans[o] = 0
            BY <3>3 DEF BooksInv, NoOrphans
          <5>2. OrphanExpires(o) => orphans[o] > 0
            BY DEF OrphanExpires
          <5> QED
            BY <5>1, <5>2
        <4>2. Teardown(o, TRUE) \/ leaving' = leaving
          BY <4>1 DEF CoolDownExpires
        <4>3. Teardown(o, TRUE) => leaving' = leaving
          BY DEF Teardown, Cancelled
        <4> QED
          BY <3>1, <3>3, <4>2, <4>3
      <3> QED
        BY <3>2, <3>3
    <2> QED
      BY <1>2, <2>2, <2>3 DEF FeedInv
  <1> QED
    BY <1>3, <1>4, ExpiryIsTeardown

LEMMA UnsubscribeKeepsFeeds ==
    ASSUME TypeOK, FeedInv, NEW o \in Objects, NEW ok \in BOOLEAN, Unsubscribe(o, ok)
    PROVE  FeedInv'
  <1>1. /\ UNCHANGED <<mode, subs, doubled, phase, todo, calling, link, replay>>
        /\ leaving[o] > 0 /\ leaving' = [leaving EXCEPT ![o] = leaving[o] - 1]
        /\ mode = "ws" =>
             /\ retracts' \in {retracts, [retracts EXCEPT ![o[1]] = retracts[o[1]] + 1]}
             /\ registry' = registry \ {o[1]}
             /\ served' \in {served, served \ {o[1]}}
    BY DEF Unsubscribe, callVars, linkVars
  <1>2. mode = "ws" => o[1] \in doubled
    BY <1>1 DEF FeedInv, NothingLeaves
  <1>3. CallsInv'
    BY <1>1 DEF FeedInv, CallsInv
  <1>4. NothingLeaves'
    <2>1. mode = "ws" => \A p \in Objects : p[1] \notin doubled => leaving'[p] = 0
      BY <1>1, <1>2 DEF FeedInv, NothingLeaves, TypeOK
    <2>2. mode = "ws" => \A k \in Conids \ doubled : retracts'[k] = 0
      BY <1>1, <1>2 DEF FeedInv, NothingLeaves, TypeOK
    <2> QED
      BY <1>1, <2>1, <2>2 DEF NothingLeaves
  <1>5. ActiveIsRegistered'
    BY <1>1, <1>2 DEF FeedInv, ActiveIsRegistered, Active
  <1>6. RegisteredIsServed'
    BY <1>1, <1>2 DEF FeedInv, RegisteredIsServed
  <1> QED
    BY <1>3, <1>4, <1>5, <1>6 DEF FeedInv

\* The feeds' invariant.
LEMMA FeedInvInvariant == Spec => []FeedInv
<1>1. Init => FeedInv
  BY DEF Init, FeedInv, CallsInv, NothingLeaves, ActiveIsRegistered, RegisteredIsServed, Active
<1>2. TypeOK /\ BooksInv /\ FeedInv /\ [Next]_vars => FeedInv'
  <2> SUFFICES ASSUME TypeOK, BooksInv, FeedInv, [Next]_vars PROVE FeedInv'
    OBVIOUS
  <2>1. ASSUME NEW c \in Consumers, NEW request \in Requests, Subscribe(c, request)
        PROVE  FeedInv'
    BY <2>1, SubscribeKeepsFeeds
  <2>2. ASSUME NEW c \in Consumers, SendSubscribe(c) PROVE FeedInv'
    BY <2>2, SendKeepsFeeds
  <2>3. ASSUME NEW c \in Consumers, Detach(c) PROVE FeedInv'
    <3>1. /\ UNCHANGED <<mode, subs, leaving, doubled, todo, calling, link, replay, retracts,
                         registry, served>>
          /\ phase[c] = "open" /\ phase' = [phase EXCEPT ![c] = "off"]
      BY <2>3 DEF Detach, linkVars
    <3>2. CallsInv'
      BY <3>1 DEF FeedInv, CallsInv, TypeOK
    <3> QED
      BY <3>1, <3>2 DEF FeedInv, NothingLeaves, ActiveIsRegistered, RegisteredIsServed, Active
  <2>4. ASSUME NEW o \in Objects, Poll(o) PROVE FeedInv'
    <3>1. /\ UNCHANGED <<mode, subs, leaving, doubled, phase, todo, calling, link, replay,
                         retracts, registry>>
          /\ served \subseteq served'
      BY <2>4 DEF Poll, managerVars, callVars, linkVars
    <3> QED
      BY <3>1 DEF FeedInv, CallsInv, NothingLeaves, ActiveIsRegistered, RegisteredIsServed, Active
  <2>5. ASSUME NEW o \in Objects, CoolDownExpires(o) \/ OrphanExpires(o) PROVE FeedInv'
    BY <2>5, ExpiryKeepsFeeds
  <2>6. ASSUME NEW o \in Objects, NEW ok \in BOOLEAN, Unsubscribe(o, ok) PROVE FeedInv'
    BY <2>6, UnsubscribeKeepsFeeds
  <2>7. ASSUME NEW k \in Conids, SendUnsubscribe(k) PROVE FeedInv'
    <3>1. /\ UNCHANGED <<mode, subs, leaving, doubled, phase, todo, calling, link, replay, registry>>
          /\ retracts[k] > 0 /\ retracts' = [retracts EXCEPT ![k] = retracts[k] - 1]
          /\ served' \in {served, served \ {k}}
      BY <2>7 DEF SendUnsubscribe, managerVars, callVars, linkVars
    <3>2. mode = "ws" => k \in doubled
      BY <3>1 DEF FeedInv, NothingLeaves
    <3>3. NothingLeaves'
      BY <3>1, <3>2 DEF FeedInv, NothingLeaves, TypeOK
    <3>4. RegisteredIsServed'
      BY <3>1, <3>2 DEF FeedInv, RegisteredIsServed
    <3> QED
      BY <3>1, <3>3, <3>4 DEF FeedInv, CallsInv, ActiveIsRegistered, Active
  <2>8. ASSUME Drop \/ NoticeDrop \/ ReconnectFails PROVE FeedInv'
    <3>1. /\ UNCHANGED <<mode, subs, leaving, doubled, phase, todo, calling, replay, retracts, registry>>
          /\ link' # "up"
      BY <2>8 DEF Drop, NoticeDrop, ReconnectFails, managerVars, callVars
    <3> QED
      BY <3>1 DEF FeedInv, CallsInv, NothingLeaves, ActiveIsRegistered, RegisteredIsServed, Active
  <2>9. ASSUME ReconnectSucceeds PROVE FeedInv'
    <3>1. /\ UNCHANGED <<mode, subs, leaving, doubled, phase, todo, calling, retracts, registry, served>>
          /\ replay' = registry
      BY <2>9 DEF ReconnectSucceeds, ToReplay, managerVars, callVars
    <3> QED
      BY <3>1 DEF FeedInv, CallsInv, NothingLeaves, ActiveIsRegistered, RegisteredIsServed, Active
  <2>10. ASSUME NEW k \in Conids, ReplaySend(k) PROVE FeedInv'
    <3>1. /\ UNCHANGED <<mode, subs, leaving, doubled, phase, todo, calling, link, retracts, registry>>
          /\ replay' = replay \ {k}
          /\ served' = IF link = "up" THEN served \cup {k} ELSE served
      BY <2>10 DEF ReplaySend, managerVars, callVars
    <3> QED
      BY <3>1 DEF FeedInv, CallsInv, NothingLeaves, ActiveIsRegistered, RegisteredIsServed, Active
  <2>11. CASE UNCHANGED vars
    BY <2>11 DEF vars, managerVars, callVars, linkVars, FeedInv, CallsInv, NothingLeaves,
                 ActiveIsRegistered, RegisteredIsServed, Active
  <2> QED
    BY <2>1, <2>2, <2>3, <2>4, <2>5, <2>6, <2>7, <2>8, <2>9, <2>10, <2>11 DEF Next
<1> QED
  BY <1>1, <1>2, TypeCorrect, BooksInvInvariant, PTL DEF Spec

\* After any number of drops, failed attempts and crossing subscribes, the feeds of
\* all consumers are restored when the replay is through.
THEOREM FeedsAreRestored == Spec => []ReconnectRestoresFeeds
<1>1. TypeOK /\ BooksInv /\ FeedInv => ReconnectRestoresFeeds
  <2> SUFFICES ASSUME TypeOK, BooksInv, FeedInv, mode = "ws", link = "up", replay = {},
                      NEW c \in Consumers, NEW o \in Held(c), o[1] \notin doubled \cup Underway
               PROVE  o[1] \in served
    BY DEF ReconnectRestoresFeeds
  <2>1. subs[o[1]] = o[2] /\ o[1] \in Conids /\ o[2] # NoSub
    BY HeldObjects DEF BooksInv, ConsumersKeepTheirSubscription
  <2>2. o[1] \in Active \ doubled
    BY <2>1 DEF Active
  <2>3. \A d \in Consumers : o[1] \notin todo[d] /\ o[1] \notin calling[d]
    BY DEF Underway
  <2>4. o[1] \in registry
    BY <2>2, <2>3 DEF FeedInv, ActiveIsRegistered
  <2> QED
    BY <2>2, <2>3, <2>4 DEF FeedInv, RegisteredIsServed
<1> QED
  BY <1>1, TypeCorrect, BooksInvInvariant, FeedInvInvariant, PTL

\* Polls and the gateway's subscriptions follow the manager's, for any consumers and conids.
THEOREM PollingFollows == Spec => []PollingFollowsSubscriptions
<1>1. OnePollPerConid /\ PollingForgottenIsUnsubscribed => PollingFollowsSubscriptions
  BY DEF PollingFollowsSubscriptions
<1> QED
  BY <1>1, PollsAreOne, PollingUnsubscribes, PTL
=============================================================================
