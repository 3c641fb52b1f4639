------------------------- MODULE OrderWrites_proofs -------------------------
(***************************************************************************)
(* Proofs about OrderWrites, for any number of handlers, keys and orders.  *)
(*                                                                         *)
(* The argument: a stored reply stands for the one order its key placed    *)
(* (KeyUse) and for a broker call that was made (StoredRepliesAreCalls).   *)
(***************************************************************************)
EXTENDS OrderWrites, TLAPS

-----------------------------------------------------------------------------
\* A request's scope and key name an entry of the store.
LEMMA ScopeType ==
    ASSUME NEW method \in Methods, NEW id, NEW key \in Keys,
           method = "PATCH" => id \in OrderIds
    PROVE  <<Scope(method, id), key>> \in ScopedKeys
  BY DEF Scope, ScopedKeys, Scopes, Methods

\* A replay leaves everything alone but the answers, and repeats an order's id.
LEMMA ReplayFacts ==
    ASSUME TypeOK, NEW method \in Methods, NEW id, NEW key \in Keys,
           method = "PATCH" => id \in OrderIds, Replay(method, id, key)
    PROVE  /\ Stored(method, id, key) \in 1..Len(orders)
           /\ TypeOK'
  <1>1. store[<<Scope(method, id), key>>] \in 0..Len(orders)
    BY ScopeType DEF TypeOK
  <1>2. Stored(method, id, key) \in 1..Len(orders)
    BY <1>1 DEF Replay, Stored, NoReply, TypeOK
  <1>3. DOMAIN orders = 1..Len(orders)
    BY DEF TypeOK
  <1>4. Scope(method, id)[2] \in OrderIds \cup {0}
    BY DEF Scope
  <1>5. answers' \subseteq
          [method : Methods, id : OrderIds \cup {0}, key : Keys, reply : DOMAIN orders]
    BY <1>2, <1>3, <1>4 DEF TypeOK, Replay, Answer
  <1> QED
    BY <1>2, <1>5 DEF Replay, TypeOK

\* Appending an order keeps the sequence of orders and the old ids.
LEMMA AppendOrder ==
    ASSUME NEW q \in Seq(Order), NEW o \in Order
    PROVE  /\ Append(q, o) \in Seq(Order)
           /\ Len(Append(q, o)) = Len(q) + 1
           /\ DOMAIN Append(q, o) = DOMAIN q \cup {Len(q) + 1}
           /\ Append(q, o)[Len(q) + 1] = o
           /\ \A i \in DOMAIN q : Append(q, o)[i] = q[i]
  OBVIOUS

\* Changing one order keeps the sequence of orders.
LEMMA ReplaceOrder ==
    ASSUME NEW q \in Seq(Order), NEW i \in DOMAIN q, NEW o \in Order
    PROVE  /\ [q EXCEPT ![i] = o] \in Seq(Order)
           /\ Len([q EXCEPT ![i] = o]) = Len(q)
           /\ DOMAIN [q EXCEPT ![i] = o] = DOMAIN q
  OBVIOUS

\* Remembering the id of an order keeps the type of the store.
LEMMA RememberType ==
    ASSUME NEW method, NEW id, NEW key, NEW n \in Nat, NEW reply \in 0..n,
           store \in [ScopedKeys -> 0..n], Remember(method, id, key, reply)
    PROVE  store' \in [ScopedKeys -> 0..n]
  <1> DEFINE T == 0..n
  <1>1. store \in [ScopedKeys -> T] /\ reply \in T
    OBVIOUS
  <1> HIDE DEF T
  <1>2. store' \in [ScopedKeys -> T]
    BY <1>1 DEF Remember
  <1> QED
    BY <1>2 DEF T

\* A failed modify and the broker's reports change one order, and not its key.
LEMMA OneOrderChanges ==
    ASSUME TypeOK, NEW id \in OrderIds,
           \/ \E k \in Keys, a \in Accounts, l \in Levels : ModifyFails(id, k, a, l)
           \/ OpenOrderReport(id)
           \/ OrderDone(id)
    PROVE  /\ id \in DOMAIN orders
           /\ \E r \in Order : /\ orders' = [orders EXCEPT ![id] = r]
                               /\ r.key = orders[id].key
           /\ UNCHANGED <<store, serving, histVars>>
  <1>1. id \in DOMAIN orders
    BY DEF ModifyFails, ModifyReached, OpenOrderReport, OrderDone
  <1>2. orders[id] \in Order
    BY <1>1 DEF TypeOK
  <1>3. CASE \E k \in Keys, a \in Accounts, l \in Levels : ModifyFails(id, k, a, l)
    <2>1. PICK l \in Levels : orders' = [orders EXCEPT ![id].level = l]
      BY <1>3 DEF ModifyFails
    <2> DEFINE r == [orders[id] EXCEPT !.level = l]
    <2>2. r \in Order /\ r.key = orders[id].key
      BY <1>2 DEF Order
    <2> QED
      BY <1>1, <1>3, <2>1, <2>2 DEF ModifyFails
  <1>4. CASE OpenOrderReport(id)
    <2> DEFINE r == [orders[id] EXCEPT !.level = orders[id].sent]
    <2>1. r \in Order /\ r.key = orders[id].key
      BY <1>2 DEF Order
    <2> QED
      BY <1>1, <1>4, <2>1 DEF OpenOrderReport
  <1>5. CASE OrderDone(id)
    <2> DEFINE r == [orders[id] EXCEPT !.open = FALSE]
    <2>1. r \in Order /\ r.key = orders[id].key
      BY <1>2 DEF Order
    <2> QED
      BY <1>1, <1>5, <2>1 DEF OrderDone
  <1> QED
    BY <1>3, <1>4, <1>5

\* A restart keeps the orders and their keys.
LEMMA RestartKeepsOrders ==
    ASSUME TypeOK, Restart
    PROVE  /\ orders' \in Seq(Order)
           /\ Len(orders') = Len(orders)
           /\ DOMAIN orders' = DOMAIN orders
           /\ \A i \in DOMAIN orders : orders'[i].key = orders[i].key
  <1>0. Len(orders) \in Nat /\ DOMAIN orders = 1..Len(orders)
    BY DEF TypeOK
  <1> DEFINE f(i) == [orders[i] EXCEPT !.known = @ /\ orders[i].open,
                                       !.level = orders[i].sent]
  <1>1. ASSUME NEW i \in 1..Len(orders)
        PROVE  f(i) \in Order /\ f(i).key = orders[i].key
    <2>1. orders[i] \in Order
      BY <1>0 DEF TypeOK
    <2> QED
      BY <2>1 DEF Order
  <1>2. orders' = [i \in 1..Len(orders) |-> f(i)]
    BY <1>0 DEF Restart
  <1> HIDE DEF f
  <1> QED
    BY <1>0, <1>1, <1>2

\* Every step keeps the types.
THEOREM TypeCorrect == Spec => []TypeOK
<1>1. Init => TypeOK
  BY OrderBoundAssumption DEF Init, TypeOK, NoReply
<1>2. TypeOK /\ [Next]_vars => TypeOK'
  <2> SUFFICES ASSUME TypeOK, [Next]_vars PROVE TypeOK'
    OBVIOUS
  <2>0. Len(orders) \in Nat /\ DOMAIN orders = 1..Len(orders) /\ MaxOrders \in Nat
    BY OrderBoundAssumption DEF TypeOK
  <2>1. CASE \E k \in Keys : PostReplay(k)
    BY <2>1, ReplayFacts DEF PostReplay, Methods
  <2>2. ASSUME NEW s \in Slots, NEW request \in Requests, PostStarts(s, request)
        PROVE  TypeOK'
    BY <2>2 DEF PostStarts, TypeOK, Requests
  <2>3. CASE \E s \in Slots : PostFails(s)
    BY <2>3 DEF PostFails, TypeOK, histVars
  <2>4. ASSUME NEW s \in Slots, PostPlaces(s) PROVE TypeOK'
    <3> DEFINE request == serving[s]
               id == Len(orders) + 1
               order == [key |-> request.key, account |-> request.account,
                         known |-> TRUE, open |-> TRUE,
                         level |-> request.level, sent |-> request.level]
    <3>1. request \in Requests /\ id \in OrderIds
      BY <2>4 DEF PostPlaces, TypeOK
    <3>2. order \in Order
      BY <3>1 DEF Order, Requests
    <3>3. orders' = Append(orders, order)
      BY <2>4 DEF PostPlaces
    <3>4. /\ orders' \in Seq(Order)
          /\ Len(orders') = id
          /\ DOMAIN orders' = DOMAIN orders \cup {id}
      BY <3>2, <3>3, AppendOrder DEF TypeOK
    <3>5. Len(orders') <= MaxOrders
      BY <3>1, <3>4, <2>0 DEF OrderIds
    <3>6. store' \in [ScopedKeys -> 0..Len(orders')]
      <4>1. /\ 0..Len(orders) \subseteq 0..Len(orders')
            /\ id \in 0..Len(orders')
        BY <2>0, <3>4
      <4>2. store \in [ScopedKeys -> 0..Len(orders)]
        BY DEF TypeOK
      <4>3. store' = [store EXCEPT ![<<Scope("POST", 0), request.key>>] = id]
        BY <2>4 DEF PostPlaces, Remember
      <4> QED
        BY <4>1, <4>2, <4>3
    <3>7. calls' \subseteq [method : Methods, id : DOMAIN orders', key : Keys]
      BY <2>4, <3>1, <3>4 DEF PostPlaces, Called, TypeOK, Requests, Methods
    <3>8. answers' \subseteq
            [method : Methods, id : OrderIds \cup {0}, key : Keys, reply : DOMAIN orders']
      BY <2>4, <3>1, <3>4 DEF PostPlaces, Answer, Scope, TypeOK, Requests, Methods
    <3>9. serving' \in [Slots -> Requests \cup {Idle}]
      BY <2>4 DEF PostPlaces, TypeOK
    <3> QED
      BY <2>4, <3>4, <3>5, <3>6, <3>7, <3>8, <3>9 DEF PostPlaces, TypeOK
  <2>5. CASE \E id \in OrderIds, k \in Keys : CancelReplay(id, k) \/ ModifyReplay(id, k)
    BY <2>5, ReplayFacts DEF CancelReplay, ModifyReplay, Methods
  <2>6. ASSUME NEW id \in OrderIds, NEW k \in Keys, NEW a \in Accounts, Cancel(id, k, a)
        PROVE  TypeOK'
    <3>1. store' \in [ScopedKeys -> 0..Len(orders)]
      BY <2>0, <2>6, RememberType DEF Cancel, TypeOK
    <3>2. calls' \subseteq [method : Methods, id : DOMAIN orders, key : Keys]
      BY <2>6 DEF Cancel, Called, TypeOK, Methods
    <3>3. answers' \subseteq
            [method : Methods, id : OrderIds \cup {0}, key : Keys, reply : DOMAIN orders]
      BY <2>6 DEF Cancel, Answer, Scope, TypeOK, Methods
    <3> QED
      BY <2>6, <3>1, <3>2, <3>3 DEF Cancel, TypeOK
  <2>7. ASSUME NEW id \in OrderIds, NEW k \in Keys, NEW a \in Accounts, NEW l \in Levels,
               Modify(id, k, a, l)
        PROVE  TypeOK'
    <3>0. id \in DOMAIN orders /\ orders[id] \in Order
      BY <2>7 DEF Modify, ModifyReached, TypeOK
    <3>1. /\ orders' \in Seq(Order) /\ Len(orders') = Len(orders)
          /\ DOMAIN orders' = DOMAIN orders
      <4>1. orders' = [orders EXCEPT ![id] = [orders[id] EXCEPT !.level = l, !.sent = l]]
        BY <2>7, <3>0 DEF Modify, TypeOK, Order
      <4>2. [orders[id] EXCEPT !.level = l, !.sent = l] \in Order
        BY <3>0 DEF Order
      <4> QED
        BY <4>1, <4>2, <3>0, ReplaceOrder DEF TypeOK
    <3>2. store' \in [ScopedKeys -> 0..Len(orders)]
      <4>1. id \in 0..Len(orders)
        BY <2>0, <3>0
      <4>2. store \in [ScopedKeys -> 0..Len(orders)] /\ Remember("PATCH", id, k, id)
        BY <2>7 DEF Modify, TypeOK
      <4>3. store' \in [ScopedKeys -> 0..Len(orders)]
        BY <2>0, <4>1, <4>2, RememberType
      <4> QED
        BY <4>3
    <3>3. calls' \subseteq [method : Methods, id : DOMAIN orders, key : Keys]
      BY <2>7, <3>0 DEF Modify, Called, TypeOK, Methods
    <3>4. answers' \subseteq
            [method : Methods, id : OrderIds \cup {0}, key : Keys, reply : DOMAIN orders]
      BY <2>7, <3>0 DEF Modify, Answer, Scope, TypeOK, Methods
    <3> QED
      BY <2>7, <3>1, <3>2, <3>3, <3>4 DEF Modify, TypeOK
  <2>8. ASSUME NEW id \in OrderIds,
               \/ \E k \in Keys, a \in Accounts, l \in Levels : ModifyFails(id, k, a, l)
               \/ OpenOrderReport(id)
               \/ OrderDone(id)
        PROVE  TypeOK'
    <3>1. /\ orders' \in Seq(Order) /\ Len(orders') = Len(orders)
          /\ DOMAIN orders' = DOMAIN orders
      BY <2>8, OneOrderChanges, ReplaceOrder, SMTT(30) DEF TypeOK
    <3> QED
      BY <2>8, <3>1, OneOrderChanges DEF TypeOK, histVars
  <2>9. ASSUME NEW entry \in ScopedKeys, Expire(entry) PROVE TypeOK'
    BY <2>0, <2>9 DEF Expire, TypeOK, NoReply
  <2>10. CASE Restart
    <3>1. store' \in [ScopedKeys -> 0..Len(orders)]
      <4>1. 0 \in 0..Len(orders)
        BY <2>0
      <4> QED
        BY <2>10, <4>1 DEF Restart, NoReply
    <3> QED
      BY <2>10, <3>1, RestartKeepsOrders DEF Restart, TypeOK
  <2>11. CASE UNCHANGED vars
    BY <2>11 DEF vars, histVars, TypeOK
  <2> QED
    BY <2>1, <2>2, <2>3, <2>4, <2>5, <2>6, <2>7, <2>8, <2>9, <2>10, <2>11 DEF Next
<1> QED
  BY <1>1, <1>2, PTL DEF Spec

-----------------------------------------------------------------------------
\* What RetryPlacesOnce rests on: of a key in orderly use, at most one POST is being
\* served, and then no order was placed yet; an order placed is the stored reply.
KeyUse ==
    \A k \in Keys : ~overlapped[k] /\ ~forgotten[k] =>
        /\ \A s, t \in ServingKey(k) : s = t
        /\ \A i \in PlacedWith(k) : Stored("POST", 0, k) = i /\ ServingKey(k) = {}

\* A reply to a cancel or a modify leaves the replies to POSTs alone.
LEMMA PostRepliesStay ==
    ASSUME NEW method \in {"DELETE", "PATCH"}, NEW id, NEW key, NEW reply, NEW k \in Keys,
           TypeOK, Remember(method, id, key, reply)
    PROVE  Stored("POST", 0, k)' = Stored("POST", 0, k)
  <1>1. <<Scope("POST", 0), k>> # <<Scope(method, id), key>>
    BY DEF Scope
  <1>2. <<Scope("POST", 0), k>> \in ScopedKeys
    BY ScopeType DEF Methods
  <1> QED
    BY <1>1, <1>2 DEF Remember, Stored, TypeOK

\* A step that keeps the orders' keys, the slots and the POST replies keeps KeyUse.
LEMMA KeyUseStays ==
    ASSUME TypeOK, KeyUse,
           DOMAIN orders' = DOMAIN orders,
           \A i \in DOMAIN orders : orders'[i].key = orders[i].key,
           UNCHANGED <<serving, overlapped>>,
           \A k \in Keys : ~forgotten'[k] =>
               ~forgotten[k] /\ Stored("POST", 0, k)' = Stored("POST", 0, k)
    PROVE  KeyUse'
  <1> SUFFICES ASSUME NEW k \in Keys, ~overlapped'[k], ~forgotten'[k]
               PROVE  /\ \A s, t \in ServingKey(k)' : s = t
                      /\ \A i \in PlacedWith(k)' :
                            Stored("POST", 0, k)' = i /\ ServingKey(k)' = {}
    BY DEF KeyUse
  <1>1. ServingKey(k)' = ServingKey(k)
    BY DEF ServingKey
  <1>2. PlacedWith(k)' = PlacedWith(k)
    BY DEF PlacedWith
  <1> QED
    BY <1>1, <1>2 DEF KeyUse

\* Orderly use of a key is kept by every step.
LEMMA KeyUseInvariant == Spec => []KeyUse
<1>1. Init => KeyUse
  BY DEF Init, KeyUse, PlacedWith, ServingKey
<1>2. TypeOK /\ KeyUse /\ [Next]_vars => KeyUse'
  <2> SUFFICES ASSUME TypeOK, KeyUse, [Next]_vars PROVE KeyUse'
    OBVIOUS
  <2>0. DOMAIN orders = 1..Len(orders) /\ Len(orders) \in Nat
    BY DEF TypeOK
  <2>1. CASE \E id \in OrderIds \cup {0}, k \in Keys, m \in Methods : Replay(m, id, k)
    BY <2>1, KeyUseStays DEF Replay, Stored
  <2>2. ASSUME NEW s \in Slots, NEW request \in Requests, PostStarts(s, request)
        PROVE  KeyUse'
    <3> SUFFICES ASSUME NEW k \in Keys, ~overlapped'[k], ~forgotten'[k]
                 PROVE  /\ \A t, u \in ServingKey(k)' : t = u
                        /\ \A i \in PlacedWith(k)' :
                              Stored("POST", 0, k)' = i /\ ServingKey(k)' = {}
      BY DEF KeyUse
    <3>1. serving' = [serving EXCEPT ![s] = request] /\ request.key \in Keys
      BY <2>2 DEF PostStarts, Requests
    <3>2. PlacedWith(k)' = PlacedWith(k) /\ Stored("POST", 0, k)' = Stored("POST", 0, k)
      BY <2>2 DEF PostStarts, PlacedWith, Stored
    <3>3. ~overlapped[k] /\ ~forgotten[k]
      BY <2>2 DEF PostStarts, TypeOK
    <3>4. CASE request.key = k
      <4>1. ServingKey(k) = {}
        BY <2>2, <3>4 DEF PostStarts, TypeOK
      <4>2. ServingKey(k)' \subseteq {s}
        BY <3>1, <4>1 DEF ServingKey, TypeOK
      <4>3. PlacedWith(k) = {}
        BY <2>0, <2>2, <3>3, <3>4 DEF PostStarts, KeyUse, PlacedWith, NoReply
      <4> QED
        BY <3>2, <4>2, <4>3
    <3>5. CASE request.key # k
      <4>1. ServingKey(k)' \subseteq ServingKey(k)
        BY <3>1, <3>5 DEF ServingKey, TypeOK
      <4> QED
        BY <3>2, <3>3, <4>1 DEF KeyUse
    <3> QED
      BY <3>4, <3>5
  <2>3. ASSUME NEW s \in Slots, PostFails(s) PROVE KeyUse'
    <3>1. \A k \in Keys : ServingKey(k)' \subseteq ServingKey(k)
      BY <2>3 DEF PostFails, ServingKey, TypeOK
    <3>2. \A k \in Keys : PlacedWith(k)' = PlacedWith(k)
      BY <2>3 DEF PostFails, PlacedWith
    <3>3. \A k \in Keys : Stored("POST", 0, k)' = Stored("POST", 0, k)
      BY <2>3 DEF PostFails, Stored
    <3>4. UNCHANGED <<overlapped, forgotten>>
      BY <2>3 DEF PostFails, histVars
    <3> QED
      BY <3>1, <3>2, <3>3, <3>4 DEF KeyUse
  <2>4. ASSUME NEW s \in Slots, PostPlaces(s) PROVE KeyUse'
    <3> DEFINE key == serving[s].key
               new == Len(orders) + 1
    <3> SUFFICES ASSUME NEW k \in Keys, ~overlapped'[k], ~forgotten'[k]
                 PROVE  /\ \A t, u \in ServingKey(k)' : t = u
                        /\ \A i \in PlacedWith(k)' :
                              Stored("POST", 0, k)' = i /\ ServingKey(k)' = {}
      BY DEF KeyUse
    <3>1. ~overlapped[k] /\ ~forgotten[k] /\ s \in ServingKey(key) /\ key \in Keys
      BY <2>4 DEF PostPlaces, ServingKey, TypeOK, Requests
    <3>2. ServingKey(k)' = ServingKey(k) \ {s}
      BY <2>4 DEF PostPlaces, ServingKey, TypeOK
    <3>3. /\ DOMAIN orders' = DOMAIN orders \cup {new}
          /\ orders'[new].key = key
          /\ \A i \in DOMAIN orders : orders'[i] = orders[i]
      BY <2>0, <2>4 DEF PostPlaces, TypeOK
    <3>4. CASE k = key
      <4>1. ServingKey(k)' = {}
        BY <3>1, <3>2, <3>4 DEF KeyUse
      <4>2. PlacedWith(k) = {}
        BY <3>1, <3>4 DEF KeyUse
      <4>3. PlacedWith(k)' = {new}
        BY <3>3, <3>4, <4>2 DEF PlacedWith
      <4>4. Stored("POST", 0, k)' = new
        <5>1. <<Scope("POST", 0), k>> \in ScopedKeys
          BY ScopeType DEF Methods
        <5> QED
          BY <2>4, <3>4, <5>1 DEF PostPlaces, Remember, Stored, TypeOK
      <4> QED
        BY <4>1, <4>3, <4>4
    <3>5. CASE k # key
      <4>1. ServingKey(k)' \subseteq ServingKey(k)
        BY <3>2
      <4>2. PlacedWith(k)' = PlacedWith(k)
        BY <2>0, <3>3, <3>5 DEF PlacedWith
      <4>3. Stored("POST", 0, k)' = Stored("POST", 0, k)
        <5>1. <<Scope("POST", 0), k>> # <<Scope("POST", 0), key>>
          BY <3>5
        <5>2. <<Scope("POST", 0), k>> \in ScopedKeys
          BY ScopeType DEF Methods
        <5> QED
          BY <2>4, <5>1, <5>2 DEF PostPlaces, Remember, Stored, TypeOK
      <4> QED
        BY <3>1, <4>1, <4>2, <4>3 DEF KeyUse
    <3> QED
      BY <3>4, <3>5
  <2>5. ASSUME NEW id \in OrderIds, NEW k \in Keys, NEW a \in Accounts, Cancel(id, k, a)
        PROVE  KeyUse'
    BY <2>5, KeyUseStays, PostRepliesStay DEF Cancel
  <2>6. ASSUME NEW id \in OrderIds, NEW k \in Keys, NEW a \in Accounts, NEW l \in Levels,
               Modify(id, k, a, l)
        PROVE  KeyUse'
    <3>1. orders' = [orders EXCEPT ![id] = [orders[id] EXCEPT !.level = l, !.sent = l]]
      BY <2>6 DEF Modify, ModifyReached, TypeOK, Order
    <3>2. /\ DOMAIN orders' = DOMAIN orders
          /\ \A i \in DOMAIN orders : orders'[i].key = orders[i].key
      BY <2>0, <3>1 DEF TypeOK, Order
    <3> QED
      BY <2>6, <3>2, KeyUseStays, PostRepliesStay DEF Modify
  <2>7. ASSUME NEW id \in OrderIds,
               \/ \E k \in Keys, a \in Accounts, l \in Levels : ModifyFails(id, k, a, l)
               \/ OpenOrderReport(id)
               \/ OrderDone(id)
        PROVE  KeyUse'
    <3>1. /\ DOMAIN orders' = DOMAIN orders
          /\ \A i \in DOMAIN orders : orders'[i].key = orders[i].key
      BY <2>0, <2>7, OneOrderChanges DEF TypeOK
    <3>2. UNCHANGED <<store, serving, overlapped, forgotten>>
      BY <2>7, OneOrderChanges DEF histVars
    <3> QED
      BY <3>1, <3>2, KeyUseStays DEF Stored
  <2>8. ASSUME NEW entry \in ScopedKeys, Expire(entry) PROVE KeyUse'
    <3>1. ASSUME NEW k \in Keys, ~forgotten'[k]
          PROVE  ~forgotten[k] /\ Stored("POST", 0, k)' = Stored("POST", 0, k)
      <4>1. ~forgotten[k] /\ entry # <<Scope("POST", 0), k>>
        BY <2>8, <3>1 DEF Expire
      <4>2. <<Scope("POST", 0), k>> \in ScopedKeys
        BY ScopeType DEF Methods
      <4> QED
        BY <2>8, <4>1, <4>2 DEF Expire, Stored, TypeOK
    <3> QED
      BY <2>8, <3>1, KeyUseStays DEF Expire
  <2>9. CASE Restart
    <3> SUFFICES ASSUME NEW k \in Keys, ~overlapped'[k], ~forgotten'[k]
                 PROVE  PlacedWith(k)' = {} /\ ServingKey(k)' = {}
      BY DEF KeyUse
    <3>1. ~overlapped[k] /\ ~forgotten[k] /\ Stored("POST", 0, k) = NoReply
      BY <2>9 DEF Restart
    <3>2. PlacedWith(k) = {}
      BY <2>0, <3>1 DEF KeyUse, PlacedWith, NoReply
    <3>3. PlacedWith(k)' = PlacedWith(k)
      BY <2>9, RestartKeepsOrders DEF PlacedWith
    <3>4. ServingKey(k)' = {}
      BY <2>9 DEF Restart, ServingKey
    <3> QED
      BY <3>2, <3>3, <3>4
  <2>10. CASE UNCHANGED vars
    BY <2>10, KeyUseStays DEF vars, histVars, Stored
  <2> QED
    BY <2>1, <2>2, <2>3, <2>4, <2>5, <2>6, <2>7, <2>8, <2>9, <2>10
    DEF Next, PostReplay, CancelReplay, ModifyReplay, Methods
<1> QED
  BY <1>1, <1>2, TypeCorrect, PTL DEF Spec

\* A caller that retries a POST only after its last attempt has ended places one
\* order, for any number of callers, keys and orders.
THEOREM RetriesPlaceOnce == Spec => []RetryPlacesOnce
<1>1. KeyUse => RetryPlacesOnce
  BY DEF KeyUse, RetryPlacesOnce
<1> QED
  BY <1>1, KeyUseInvariant, PTL

-----------------------------------------------------------------------------
\* What NoFalseOk rests on: a stored reply names an order on which its own method was
\* called under its own key, and the order of its scope for PATCH.
StoredRepliesAreCalls ==
    \A scope \in Scopes, key \in Keys :
        LET reply == store[<<scope, key>>] IN
        reply # NoReply =>
            /\ [method |-> scope[1], id |-> reply, key |-> key] \in calls
            /\ scope[1] = "PATCH" => reply = scope[2]

\* A POST that was called left an order with its key.
PlacedOrdersKeepKeys ==
    \A c \in calls : c.method = "POST" => orders[c.id].key = c.key

\* A replay answers with the stored reply, which was called for.
LEMMA ReplayIsTrue ==
    ASSUME TypeOK, StoredRepliesAreCalls, NoFalseOk,
           NEW method \in Methods, NEW id, NEW key \in Keys,
           method = "PATCH" => id \in OrderIds, Replay(method, id, key)
    PROVE  NoFalseOk'
  <1> DEFINE scope == Scope(method, id)
  <1>1. scope \in Scopes /\ scope[1] = method /\ (method = "PATCH" => scope[2] = id)
    BY DEF Scope, Scopes, Methods
  <1>2. /\ [method |-> method, id |-> Stored(method, id, key), key |-> key] \in calls
        /\ method = "PATCH" => Stored(method, id, key) = id
    BY <1>1 DEF StoredRepliesAreCalls, Replay, Stored
  <1> DEFINE new == [method |-> method, id |-> scope[2], key |-> key,
                     reply |-> Stored(method, id, key)]
  <1>3. answers' = answers \cup {new} /\ calls' = calls
    BY DEF Replay, Answer
  <1>4. /\ new.method = method /\ new.key = key /\ new.reply = Stored(method, id, key)
        /\ new.id = scope[2]
    OBVIOUS
  <1> HIDE DEF new, scope
  <1> QED
    BY <1>1, <1>2, <1>3, <1>4 DEF NoFalseOk

\* A call that is remembered and answered keeps replies and answers true.
LEMMA AnsweredCallIsTrue ==
    ASSUME TypeOK, StoredRepliesAreCalls, NoFalseOk,
           NEW method \in Methods, NEW id, NEW key \in Keys, NEW reply,
           method = "PATCH" => id \in OrderIds /\ reply = id,
           Called(method, reply, key), Remember(method, id, key, reply),
           Answer(method, id, key, reply)
    PROVE  StoredRepliesAreCalls' /\ NoFalseOk'
  <1>0. /\ Scope(method, id) \in Scopes
        /\ Scope(method, id)[1] = method
        /\ method = "PATCH" => Scope(method, id)[2] = id
    BY DEF Scope, Scopes, Methods
  <1>1. StoredRepliesAreCalls'
    <2> SUFFICES ASSUME NEW scope \in Scopes, NEW k \in Keys,
                        store'[<<scope, k>>] # NoReply
                 PROVE  /\ [method |-> scope[1], id |-> store'[<<scope, k>>], key |-> k] \in calls'
                        /\ scope[1] = "PATCH" => store'[<<scope, k>>] = scope[2]
      BY DEF StoredRepliesAreCalls
    <2>1. <<scope, k>> \in ScopedKeys
      BY DEF ScopedKeys
    <2>2. CASE scope = Scope(method, id) /\ k = key
      <3>1. store'[<<scope, k>>] = reply
        BY <2>1, <2>2 DEF Remember, TypeOK
      <3> QED
        BY <1>0, <2>2, <3>1 DEF Called
    <2>3. CASE ~(scope = Scope(method, id) /\ k = key)
      <3>1. <<scope, k>> # <<Scope(method, id), key>>
        BY <2>3
      <3>2. store'[<<scope, k>>] = store[<<scope, k>>]
        BY <2>1, <3>1 DEF Remember, TypeOK
      <3> QED
        BY <3>2 DEF StoredRepliesAreCalls, Called
    <2> QED
      BY <2>2, <2>3
  <1>2. NoFalseOk'
    <2> DEFINE scope == Scope(method, id)
               new == [method |-> method, id |-> scope[2], key |-> key, reply |-> reply]
               call == [method |-> method, id |-> reply, key |-> key]
    <2>1. answers' = answers \cup {new} /\ calls' = calls \cup {call}
      BY DEF Called, Answer
    <2>2. /\ new.method = method /\ new.key = key /\ new.reply = reply /\ new.id = scope[2]
          /\ [method |-> new.method, id |-> new.reply, key |-> new.key] = call
      OBVIOUS
    <2> HIDE DEF new, call, scope
    <2> QED
      BY <1>0, <2>1, <2>2 DEF NoFalseOk, scope
  <1> QED
    BY <1>1, <1>2

\* Every success reply, replayed or not, stands for a call that was made.
LEMMA RepliesInvariant ==
    Spec => [](StoredRepliesAreCalls /\ NoFalseOk /\ PlacedOrdersKeepKeys)
<1> DEFINE Replies == StoredRepliesAreCalls /\ NoFalseOk /\ PlacedOrdersKeepKeys
<1>1. Init => Replies
  BY DEF Init, StoredRepliesAreCalls, NoFalseOk, PlacedOrdersKeepKeys, ScopedKeys
<1>2. TypeOK /\ Replies /\ [Next]_vars => Replies'
  <2> SUFFICES ASSUME TypeOK, Replies, [Next]_vars PROVE Replies'
    OBVIOUS
  <2>0. DOMAIN orders = 1..Len(orders) /\ Len(orders) \in Nat
    BY DEF TypeOK
  <2>1. ASSUME UNCHANGED <<store, calls, answers>>,
               \A i \in DOMAIN orders : orders'[i].key = orders[i].key
        PROVE  Replies'
    BY <2>1 DEF StoredRepliesAreCalls, NoFalseOk, PlacedOrdersKeepKeys, TypeOK
  <2>2. CASE \E k \in Keys : PostReplay(k)
    BY <2>2, ReplayIsTrue
    DEF PostReplay, Replay, Methods, StoredRepliesAreCalls, PlacedOrdersKeepKeys
  <2>3. CASE \E s \in Slots : \/ \E request \in Requests : PostStarts(s, request)
                             \/ PostFails(s)
    BY <2>1, <2>3 DEF PostStarts, PostFails, histVars
  <2>4. ASSUME NEW s \in Slots, PostPlaces(s) PROVE Replies'
    <3> DEFINE key == serving[s].key
               new == Len(orders) + 1
    <3>1. key \in Keys
      BY <2>4 DEF PostPlaces, TypeOK, Requests
    <3>2. StoredRepliesAreCalls' /\ NoFalseOk'
      BY <2>4, <3>1, AnsweredCallIsTrue DEF PostPlaces, Methods
    <3>3. orders'[new].key = key /\ \A i \in DOMAIN orders : orders'[i] = orders[i]
      BY <2>0, <2>4 DEF PostPlaces, TypeOK
    <3>4. PlacedOrdersKeepKeys'
      BY <2>4, <3>3 DEF PlacedOrdersKeepKeys, PostPlaces, Called, TypeOK
    <3> QED
      BY <3>2, <3>4
  <2>5. CASE \E id \in OrderIds, k \in Keys : CancelReplay(id, k) \/ ModifyReplay(id, k)
    BY <2>5, ReplayIsTrue
    DEF CancelReplay, ModifyReplay, Replay, Methods, StoredRepliesAreCalls, PlacedOrdersKeepKeys
  <2>6. ASSUME NEW id \in OrderIds, NEW k \in Keys, NEW a \in Accounts, Cancel(id, k, a)
        PROVE  Replies'
    <3>1. StoredRepliesAreCalls' /\ NoFalseOk'
      BY <2>6, AnsweredCallIsTrue DEF Cancel, Methods
    <3>2. PlacedOrdersKeepKeys'
      BY <2>6 DEF PlacedOrdersKeepKeys, Cancel, Called
    <3> QED
      BY <3>1, <3>2
  <2>7. ASSUME NEW id \in OrderIds, NEW k \in Keys, NEW a \in Accounts, NEW l \in Levels,
               Modify(id, k, a, l)
        PROVE  Replies'
    <3>1. StoredRepliesAreCalls' /\ NoFalseOk'
      BY <2>7, AnsweredCallIsTrue DEF Modify, Methods
    <3>2. orders' = [orders EXCEPT ![id] = [orders[id] EXCEPT !.level = l, !.sent = l]]
      BY <2>7 DEF Modify, ModifyReached, TypeOK, Order
    <3>3. \A i \in DOMAIN orders : orders'[i].key = orders[i].key
      BY <2>0, <3>2 DEF TypeOK, Order
    <3>4. PlacedOrdersKeepKeys'
      BY <2>7, <3>3 DEF PlacedOrdersKeepKeys, Modify, Called, TypeOK
    <3> QED
      BY <3>1, <3>4
  <2>8. ASSUME NEW id \in OrderIds,
               \/ \E k \in Keys, a \in Accounts, l \in Levels : ModifyFails(id, k, a, l)
               \/ OpenOrderReport(id)
               \/ OrderDone(id)
        PROVE  Replies'
    BY <2>0, <2>1, <2>8, OneOrderChanges DEF TypeOK, histVars
  <2>9. ASSUME NEW entry \in ScopedKeys, Expire(entry) PROVE Replies'
    <3>1. \A e \in ScopedKeys : store'[e] = store[e] \/ store'[e] = NoReply
      BY <2>9 DEF Expire, TypeOK
    <3>2. \A scope \in Scopes, key \in Keys : <<scope, key>> \in ScopedKeys
      BY DEF ScopedKeys
    <3> QED
      BY <2>9, <3>1, <3>2
      DEF Expire, StoredRepliesAreCalls, NoFalseOk, PlacedOrdersKeepKeys
  <2>10. CASE Restart
    <3>1. StoredRepliesAreCalls'
      BY <2>10 DEF Restart, StoredRepliesAreCalls, ScopedKeys
    <3>2. NoFalseOk' /\ PlacedOrdersKeepKeys'
      BY <2>10, RestartKeepsOrders, ZenonT(40) DEF Restart, NoFalseOk, PlacedOrdersKeepKeys, TypeOK
    <3> QED
      BY <3>1, <3>2
  <2>11. CASE UNCHANGED vars
    BY <2>1, <2>11 DEF vars, histVars
  <2> QED
    BY <2>2, <2>3, <2>4, <2>5, <2>6, <2>7, <2>8, <2>9, <2>10, <2>11 DEF Next
<1> QED
  BY <1>1, <1>2, TypeCorrect, PTL DEF Spec

\* No success reply is ever given for a call of another method or key, nor, to a
\* PATCH, for another order.
THEOREM OkIsNeverFalse == Spec => []NoFalseOk
  BY RepliesInvariant, PTL

\* All replies to one key's POSTs name one order, under the same provisos as above.
THEOREM RepliesAgree == Spec => []ReplaysAgree
<1>1. TypeOK /\ KeyUse /\ NoFalseOk /\ PlacedOrdersKeepKeys => ReplaysAgree
  <2> SUFFICES ASSUME TypeOK, KeyUse, NoFalseOk, PlacedOrdersKeepKeys,
                      NEW a \in answers, NEW b \in answers,
                      a.method = "POST", b.method = "POST", a.key = b.key,
                      ~overlapped[a.key], ~forgotten[a.key]
               PROVE  a.reply = b.reply
    BY DEF ReplaysAgree
  <2>1. /\ [method |-> "POST", id |-> a.reply, key |-> a.key] \in calls
        /\ [method |-> "POST", id |-> b.reply, key |-> a.key] \in calls
    BY DEF NoFalseOk
  <2>2. a.reply \in PlacedWith(a.key) /\ b.reply \in PlacedWith(a.key) /\ a.key \in Keys
    BY <2>1 DEF PlacedOrdersKeepKeys, PlacedWith, TypeOK
  <2> QED
    BY <2>2 DEF KeyUse
<1> QED
  BY <1>1, TypeCorrect, KeyUseInvariant, RepliesInvariant, PTL

\* Every answer of a write names an order its own call was made on, and the answers to one
\* key agree (api/v1/orders.py place_order, modify_order, cancel_order).
THEOREM RepliesAreTrue == Spec => []RepliesCanBeTrusted
  BY OkIsNeverFalse, RepliesAgree, PTL DEF RepliesCanBeTrusted

-----------------------------------------------------------------------------
\* The promise of the header: a step that places no order and answers no POST is none
\* of AtMostOnce's, or one that lets promises lapse.
LEMMA QuietStep ==
    ASSUME DOMAIN orders' = DOMAIN orders,
           \A i \in DOMAIN orders : orders'[i].key = orders[i].key,
           \A k \in Keys : ToldOf(k)' = ToldOf(k),
           \A k \in Keys : overlapped[k] \/ forgotten[k] => overlapped'[k] \/ forgotten'[k]
    PROVE  Promise!Lapse
<1> DEFINE gone == {k \in Keys : overlapped[k] \/ forgotten[k]}
<1>1. [k \in Keys |-> PlacedWith(k)]' = [k \in Keys |-> PlacedWith(k)]
  BY DEF PlacedWith
<1>2. [k \in Keys |-> ToldOf(k)]' = [k \in Keys |-> ToldOf(k)]
  OBVIOUS
<1>3. gone' = gone \cup gone' /\ gone' \in SUBSET Keys
  OBVIOUS
<1> QED
  BY <1>1, <1>2, <1>3 DEF Promise!Lapse

\* An answer to a cancel or a modify tells nobody of a POST.
LEMMA OthersTellNothing ==
    ASSUME NEW method \in {"DELETE", "PATCH"}, NEW id, NEW key, NEW reply,
           Answer(method, id, key, reply), NEW k \in Keys
    PROVE  ToldOf(k)' = ToldOf(k)
  BY DEF Answer, ToldOf

\* An answer to a POST tells its own callers of one more order.
LEMMA PostTells ==
    ASSUME NEW key \in Keys, NEW reply, Answer("POST", 0, key, reply)
    PROVE  [k \in Keys |-> ToldOf(k)]' =
              [[k \in Keys |-> ToldOf(k)] EXCEPT ![key] = @ \cup {reply}]
<1> DEFINE new == [method |-> "POST", id |-> Scope("POST", 0)[2], key |-> key, reply |-> reply]
<1>1. answers' = answers \cup {new}
  BY DEF Answer
<1>2. new.method = "POST" /\ new.key = key /\ new.reply = reply
  OBVIOUS
<1> HIDE DEF new
<1>3. ToldOf(key)' = ToldOf(key) \cup {reply}
  BY <1>1, <1>2 DEF ToldOf
<1>4. ASSUME NEW k \in Keys, k # key PROVE ToldOf(k)' = ToldOf(k)
  BY <1>1, <1>2, <1>4 DEF ToldOf
<1> QED
  BY <1>3, <1>4

\* Handlers, store, scopes and session, for any numbers of them, keep the promise of the
\* Idempotency-Key: OrderWrites implements AtMostOnce.
THEOREM ThePromiseIsKept == Spec => KeepsThePromise
<1> DEFINE Inv == /\ TypeOK /\ KeyUse
                  /\ StoredRepliesAreCalls /\ NoFalseOk /\ PlacedOrdersKeepKeys
<1>1. Init => Promise!KeysInit
  BY DEF Init, Promise!KeysInit, PlacedWith, ToldOf
<1>2. Inv /\ [Next]_vars => [Promise!KeysNext]_(Promise!keyVars)
  <2> SUFFICES ASSUME Inv, [Next]_vars PROVE Promise!KeysNext
    BY DEF Promise!KeysNext
  <2>0. DOMAIN orders = 1..Len(orders) /\ Len(orders) \in Nat
    BY DEF TypeOK
  <2> USE DEF Promise!KeysNext
  <2>1. ASSUME UNCHANGED <<orders, answers>>,
               \A k \in Keys : overlapped[k] \/ forgotten[k] => overlapped'[k] \/ forgotten'[k]
        PROVE  Promise!KeysNext
    BY <2>1, QuietStep DEF ToldOf
  <2>2. ASSUME NEW k \in Keys, PostReplay(k) PROVE Promise!KeysNext
    <3> DEFINE reply == Stored("POST", 0, k)
    <3>1. reply \in PlacedWith(k)
      <4>1. <<"POST", 0>> \in Scopes /\ Scope("POST", 0) = <<"POST", 0>>
        BY DEF Scopes, Scope
      <4>2. [method |-> "POST", id |-> reply, key |-> k] \in calls
        BY <2>2, <4>1 DEF PostReplay, Replay, StoredRepliesAreCalls, Stored
      <4> QED
        BY <4>2 DEF PlacedOrdersKeepKeys, PlacedWith, TypeOK
    <3>2. Promise!Repeat(k)
      <4>1. Answer("POST", 0, k, reply)
        BY <2>2 DEF PostReplay, Replay
      <4>2. UNCHANGED <<orders, overlapped, forgotten>>
        BY <2>2 DEF PostReplay, Replay
      <4>3. UNCHANGED <<[key \in Keys |-> PlacedWith(key)],
                        {key \in Keys : overlapped[key] \/ forgotten[key]}>>
        BY <4>2 DEF PlacedWith
      <4> HIDE DEF reply
      <4>4. reply \in [key \in Keys |-> PlacedWith(key)][k]
        BY <3>1
      <4> QED
        BY <4>1, <4>3, <4>4, PostTells DEF Promise!Repeat
    <3> QED
      BY <3>2
  <2>3. ASSUME NEW s \in Slots, NEW request \in Requests, PostStarts(s, request)
        PROVE  Promise!KeysNext
    <3>1. \A k \in Keys : overlapped[k] => overlapped'[k]
      BY <2>3 DEF PostStarts, TypeOK
    <3> QED
      BY <2>1, <2>3, <3>1 DEF PostStarts
  <2>4. ASSUME NEW s \in Slots, PostFails(s) PROVE Promise!KeysNext
    BY <2>1, <2>4 DEF PostFails, histVars
  <2>5. ASSUME NEW s \in Slots, PostPlaces(s) PROVE Promise!KeysNext
    <3>0. serving[s].key \in Keys
      BY <2>5 DEF PostPlaces, TypeOK, Requests
    <3> PICK key \in Keys : key = serving[s].key
      BY <3>0
    <3> PICK new \in Nat : new = Len(orders) + 1
      BY <2>0
    <3> DEFINE placed == [k \in Keys |-> PlacedWith(k)]
    <3>1. key \in Keys /\ new \in OrderIds /\ Answer("POST", 0, key, new)
      BY <2>5 DEF PostPlaces
    <3>2. /\ DOMAIN orders' = DOMAIN orders \cup {new}
          /\ orders'[new].key = key
          /\ \A i \in DOMAIN orders : orders'[i] = orders[i]
          /\ new \notin DOMAIN orders
      BY <2>0, <2>5 DEF PostPlaces, TypeOK
    <3>3. placed' = [placed EXCEPT ![key] = @ \cup {new}]
      <4>1. PlacedWith(key)' = PlacedWith(key) \cup {new}
        BY <3>2 DEF PlacedWith
      <4>2. ASSUME NEW k \in Keys, k # key PROVE PlacedWith(k)' = PlacedWith(k)
        BY <3>2, <4>2 DEF PlacedWith
      <4> QED
        BY <4>1, <4>2
    <3>4. \A k \in Keys : new \notin placed[k]
      BY <3>2 DEF PlacedWith
    <3>5. ~overlapped[key] /\ ~forgotten[key] => placed[key] = {}
      <4>1. s \in ServingKey(key)
        BY <2>5 DEF PostPlaces, ServingKey
      <4> QED
        BY <3>1, <4>1 DEF KeyUse
    <3>6. UNCHANGED {k \in Keys : overlapped[k] \/ forgotten[k]}
      BY <2>5 DEF PostPlaces
    <3>7. Promise!Perform(key, new)
      <4>1. [k \in Keys |-> ToldOf(k)]' =
              [[k \in Keys |-> ToldOf(k)] EXCEPT ![key] = @ \cup {new}]
        <5>1. Answer("POST", 0, key, new)
          BY <3>1
        <5>2. key \in Keys
          OBVIOUS
        <5> HIDE DEF placed
        <5> QED
          BY <5>1, <5>2, PostTells
      <4>2. placed[key] = {} \/ key \in {k \in Keys : overlapped[k] \/ forgotten[k]}
        BY <3>5
      <4> QED
        BY <3>3, <3>4, <3>6, <4>1, <4>2 DEF Promise!Perform
    <3> QED
      BY <3>1, <3>7
  <2>6. CASE \E id \in OrderIds, k \in Keys : CancelReplay(id, k) \/ ModifyReplay(id, k)
    BY <2>6, OthersTellNothing, QuietStep DEF CancelReplay, ModifyReplay, Replay
  <2>7. CASE \E id \in OrderIds, k \in Keys, a \in Accounts : Cancel(id, k, a)
    BY <2>7, OthersTellNothing, QuietStep DEF Cancel
  <2>8. ASSUME NEW id \in OrderIds, NEW k \in Keys, NEW a \in Accounts, NEW l \in Levels,
               Modify(id, k, a, l)
        PROVE  Promise!KeysNext
    <3>1. orders' = [orders EXCEPT ![id] = [orders[id] EXCEPT !.level = l, !.sent = l]]
      BY <2>8 DEF Modify, ModifyReached, TypeOK, Order
    <3>2. /\ DOMAIN orders' = DOMAIN orders
          /\ \A i \in DOMAIN orders : orders'[i].key = orders[i].key
      BY <2>0, <3>1 DEF TypeOK, Order
    <3> QED
      BY <2>8, <3>2, OthersTellNothing, QuietStep DEF Modify
  <2>9. ASSUME NEW id \in OrderIds,
               \/ \E k \in Keys, a \in Accounts, l \in Levels : ModifyFails(id, k, a, l)
               \/ OpenOrderReport(id)
               \/ OrderDone(id)
        PROVE  Promise!KeysNext
    <3>1. /\ DOMAIN orders' = DOMAIN orders
          /\ \A i \in DOMAIN orders : orders'[i].key = orders[i].key
      BY <2>0, <2>9, OneOrderChanges DEF TypeOK
    <3>2. UNCHANGED <<answers, overlapped, forgotten>>
      BY <2>9, OneOrderChanges DEF histVars
    <3> QED
      BY <3>1, <3>2, QuietStep DEF ToldOf
  <2>10. CASE \E entry \in ScopedKeys : Expire(entry)
    BY <2>1, <2>10 DEF Expire
  <2>11. CASE Restart
    <3>1. UNCHANGED answers /\ UNCHANGED overlapped
      BY <2>11 DEF Restart
    <3>2. \A k \in Keys : forgotten[k] => forgotten'[k]
      BY <2>11 DEF Restart
    <3> QED
      BY <2>11, <3>1, <3>2, RestartKeepsOrders, QuietStep DEF ToldOf
  <2>12. CASE UNCHANGED vars
    BY <2>1, <2>12 DEF vars, histVars
  <2> QED
    BY <2>2, <2>3, <2>4, <2>5, <2>6, <2>7, <2>8, <2>9, <2>10, <2>11, <2>12 DEF Next
<1> QED
  BY <1>1, <1>2, TypeCorrect, KeyUseInvariant, RepliesInvariant, PTL
  DEF Spec, KeepsThePromise, Promise!KeysSpec
=============================================================================
