------------------------ MODULE TWSLifecycle_proofs ------------------------
(***************************************************************************)
(* Proofs about TWSLifecycle for any clients and any range of ids.         *)
(*                                                                         *)
(* The ids are an account that is always balanced: Conserved(q, h) says it *)
(* of a queue q of free ids and of a function h from clients to the ids    *)
(* they answer for.  Giving an id back and taking one keep the balance,    *)
(* and every action is one, the other, both in a row, or neither.          *)
(***************************************************************************)
EXTENDS TWSLifecycle, TLAPS

-----------------------------------------------------------------------------
Elems(q) == {q[i] : i \in DOMAIN q}

Distinct(q) == \A i, j \in DOMAIN q : q[i] = q[j] => i = j

Conserved(q, h) ==
    /\ Distinct(q)
    /\ \A c, d \in Clients : h[c] # None /\ h[c] = h[d] => c = d
    /\ \A id \in Ids : id \in Elems(q) <=> ~ \E c \in Clients : h[c] = id

HeldBy == [c \in Clients |-> Held(c)]

\* IdsConserved is the balance of the pool and the clients' ids.
LEMMA ConservedIsIdsConserved == IdsConserved <=> Conserved(pool, HeldBy)
  BY DEF IdsConserved, Conserved, HeldBy, Elems, Distinct

\* The same after a step.
LEMMA BalancedAfterwards ==
    ASSUME Conserved(pool', HeldBy')
    PROVE  IdsConserved'
  <1>1. \A c \in Clients : HeldBy'[c] = Held(c)'
    BY DEF HeldBy
  <1>2. \A c, d \in Clients : Held(c)' # None /\ Held(c)' = Held(d)' => c = d
    BY <1>1 DEF Conserved
  <1>3. \A id \in Ids : (\E i \in DOMAIN pool' : pool'[i] = id)
                            <=> ~ \E c \in Clients : Held(c)' = id
    BY <1>1 DEF Conserved, Elems
  <1> QED
    BY <1>2, <1>3 DEF Conserved, Distinct, IdsConserved

\* No id is None.
LEMMA IdsAreNotNone == None \notin Ids
  BY RangeAssumption DEF Ids, None

\* Appending an id that is not in the queue.
LEMMA AppendIds ==
    ASSUME NEW q \in Seq(Ids), NEW id \in Ids, Distinct(q), id \notin Elems(q)
    PROVE  /\ Append(q, id) \in Seq(Ids)
           /\ Distinct(Append(q, id))
           /\ Elems(Append(q, id)) = Elems(q) \cup {id}
  <1> DEFINE r == Append(q, id)
  <1>1. /\ r \in Seq(Ids)
        /\ DOMAIN r = DOMAIN q \cup {Len(q) + 1}
        /\ r[Len(q) + 1] = id
        /\ \A i \in DOMAIN q : r[i] = q[i]
    OBVIOUS
  <1> HIDE DEF r
  <1>2. Elems(r) = Elems(q) \cup {id}
    BY <1>1 DEF Elems
  <1>3. Distinct(r)
    BY <1>1 DEF Distinct, Elems
  <1> QED
    BY <1>1, <1>2, <1>3 DEF r

\* Taking the head off the queue.
LEMMA TailIds ==
    ASSUME NEW q \in Seq(Ids), q # <<>>, Distinct(q)
    PROVE  /\ Tail(q) \in Seq(Ids) /\ Head(q) \in Ids
           /\ Distinct(Tail(q))
           /\ Head(q) \notin Elems(Tail(q))
           /\ Elems(q) = Elems(Tail(q)) \cup {Head(q)}
  <1> DEFINE r == Tail(q)
  <1>1. /\ r \in Seq(Ids) /\ Head(q) \in Ids /\ Head(q) = q[1]
        /\ Len(q) \in Nat \ {0} /\ DOMAIN q = 1..Len(q)
        /\ DOMAIN r = 1..(Len(q) - 1)
        /\ \A i \in DOMAIN r : r[i] = q[i + 1] /\ i + 1 \in DOMAIN q
    OBVIOUS
  <1> HIDE DEF r
  <1>2. Distinct(r)
    BY <1>1 DEF Distinct
  <1>3. Head(q) \notin Elems(r)
    BY <1>1 DEF Distinct, Elems
  <1>4. \A i \in DOMAIN q : i = 1 \/ (i - 1 \in DOMAIN r /\ r[i - 1] = q[i])
    BY <1>1
  <1>5. Elems(q) = Elems(r) \cup {Head(q)}
    BY <1>1, <1>4 DEF Elems
  <1> QED
    BY <1>1, <1>2, <1>3, <1>5 DEF r

\* A client that gives its id back keeps the balance.
LEMMA GiveBack ==
    ASSUME NEW q \in Seq(Ids), NEW h \in [Clients -> Ids \cup {None}], NEW c \in Clients,
           Conserved(q, h), h[c] # None
    PROVE  /\ Append(q, h[c]) \in Seq(Ids)
           /\ Conserved(Append(q, h[c]), [h EXCEPT ![c] = None])
  <1>1. h[c] \in Ids /\ h[c] \notin Elems(q)
    BY DEF Conserved
  <1>2. /\ Append(q, h[c]) \in Seq(Ids) /\ Distinct(Append(q, h[c]))
        /\ Elems(Append(q, h[c])) = Elems(q) \cup {h[c]}
    BY <1>1, AppendIds DEF Conserved
  <1> DEFINE g == [h EXCEPT ![c] = None]
  <1>3. g[c] = None /\ \A d \in Clients \ {c} : g[d] = h[d]
    OBVIOUS
  <1> HIDE DEF g
  <1>4. \A d, e \in Clients : g[d] # None /\ g[d] = g[e] => d = e
    BY <1>3 DEF Conserved
  <1>5. ASSUME NEW id \in Ids
        PROVE  id \in Elems(Append(q, h[c])) <=> ~ \E d \in Clients : g[d] = id
    <2>1. CASE id = h[c]
      BY <1>1, <1>2, <1>3, <2>1, IdsAreNotNone DEF Conserved
    <2>2. CASE id # h[c]
      BY <1>2, <1>3, <2>2, IdsAreNotNone DEF Conserved
    <2> QED
      BY <2>1, <2>2
  <1> QED
    BY <1>2, <1>4, <1>5 DEF Conserved, g

\* A client that holds no id and takes the head of the queue keeps the balance.
LEMMA TakeHead ==
    ASSUME NEW q \in Seq(Ids), NEW h \in [Clients -> Ids \cup {None}], NEW c \in Clients,
           Conserved(q, h), h[c] = None, q # <<>>
    PROVE  /\ Tail(q) \in Seq(Ids) /\ Head(q) \in Ids
           /\ Conserved(Tail(q), [h EXCEPT ![c] = Head(q)])
  <1>1. /\ Tail(q) \in Seq(Ids) /\ Head(q) \in Ids /\ Distinct(Tail(q))
        /\ Head(q) \notin Elems(Tail(q))
        /\ Elems(q) = Elems(Tail(q)) \cup {Head(q)}
    BY TailIds DEF Conserved
  <1> DEFINE g == [h EXCEPT ![c] = Head(q)]
  <1>2. g[c] = Head(q) /\ \A d \in Clients \ {c} : g[d] = h[d]
    OBVIOUS
  <1> HIDE DEF g
  <1>3. ~ \E d \in Clients : h[d] = Head(q)
    BY <1>1 DEF Conserved
  <1>4. \A d, e \in Clients : g[d] # None /\ g[d] = g[e] => d = e
    BY <1>2, <1>3 DEF Conserved
  <1>5. ASSUME NEW id \in Ids
        PROVE  id \in Elems(Tail(q)) <=> ~ \E d \in Clients : g[d] = id
    <2>1. CASE id = Head(q)
      BY <1>1, <1>2, <2>1
    <2>2. CASE id # Head(q)
      BY <1>1, <1>2, <2>2, IdsAreNotNone DEF Conserved
    <2> QED
      BY <2>1, <2>2
  <1> QED
    BY <1>1, <1>4, <1>5 DEF Conserved, g

-----------------------------------------------------------------------------
\* Every step keeps the types of what is not an id.
StatusTypes ==
    /\ socket \in [Clients -> BOOLEAN]
    /\ loop \in [Clients -> Phases]
    /\ status \in [Clients -> {"tws_down", "session_lost", "ok"}]
    /\ failures \in [Clients -> 0..MaxFailures]
    /\ tws \in {"down", "accepting", "ready"}
    /\ row \in [Clients -> 0..MaxFailures]

\* Counting up stays within the bound and reaches it.
LEMMA CountUpType ==
    ASSUME NEW n \in 0..MaxFailures, NEW m \in 0..MaxFailures
    PROVE  /\ CountUp(n) \in 0..MaxFailures
           /\ m <= n => CountUp(m) <= CountUp(n)
  BY MaxFailuresAssumption DEF CountUp

\* The types of what is not an id are invariant.
LEMMA StatusTypesInvariant == Spec => []StatusTypes
<1>1. Init => StatusTypes
  BY MaxFailuresAssumption DEF Init, StatusTypes, Phases
<1>2. StatusTypes /\ [Next]_vars => StatusTypes'
  <2> SUFFICES ASSUME StatusTypes, [Next]_vars PROVE StatusTypes'
    OBVIOUS
  <2>0. 0 \in 0..MaxFailures
    BY MaxFailuresAssumption
  <2>1. ASSUME NEW c \in Clients, TickConnected(c) PROVE StatusTypes'
    BY <2>0, <2>1 DEF TickConnected, NoteSession, StatusTypes, Phases
  <2>2. ASSUME NEW c \in Clients, TickDisconnected(c) \/ Acquire(c) PROVE StatusTypes'
    BY <2>2 DEF TickDisconnected, Acquire, AcquireFrom, StatusTypes, Phases
  <2>3. ASSUME NEW c \in Clients, ConnectSucceeds(c) PROVE StatusTypes'
    BY <2>0, <2>3 DEF ConnectSucceeds, NoteSession, StatusTypes, Phases
  <2>4. ASSUME NEW c \in Clients, ConnectFails(c) PROVE StatusTypes'
    <3>1. CountUp(failures[c]) \in 0..MaxFailures /\ CountUp(row[c]) \in 0..MaxFailures
      BY CountUpType DEF StatusTypes
    <3> QED
      BY <2>4, <3>1 DEF ConnectFails, StatusTypes, Phases
  <2>5. ASSUME NEW c \in Clients, Stop(c) \/ SocketDrops(c) PROVE StatusTypes'
    BY <2>5 DEF Stop, SocketDrops, StatusTypes, Phases
  <2>6. ASSUME NEW state \in {"down", "accepting", "ready"}, TwsChanges(state)
        PROVE  StatusTypes'
    BY <2>6 DEF TwsChanges, StatusTypes
  <2>7. CASE UNCHANGED vars
    BY <2>7 DEF vars, StatusTypes
  <2> QED
    BY <2>1, <2>2, <2>3, <2>4, <2>5, <2>6, <2>7 DEF Next
<1> QED
  BY <1>1, <1>2, PTL DEF Spec

-----------------------------------------------------------------------------
\* The invariant about ids: SocketsHaveIds says in which phase which id is held, and
\* without it neither Stop nor TickDisconnected could be seen to balance.
IdTypes ==
    /\ pool \in Seq(Ids)
    /\ clientId \in [Clients -> Ids \cup {None}]
    /\ taken \in [Clients -> Ids \cup {None}]

IdInv == IdTypes /\ SocketsHaveIds /\ IdsConserved

\* HeldBy is a function to ids.
LEMMA HeldByType == IdTypes => HeldBy \in [Clients -> Ids \cup {None}]
  BY DEF IdTypes, HeldBy, Held

\* Acquiring from a balanced queue, by a client that holds nothing.
LEMMA AcquireBalances ==
    ASSUME NEW c \in Clients, NEW q \in Seq(Ids), NEW h \in [Clients -> Ids \cup {None}],
           Conserved(q, h), h[c] = None, AcquireFrom(c, q),
           taken \in [Clients -> Ids \cup {None}], taken[c] = None
    PROVE  /\ pool' \in Seq(Ids)
           /\ taken' \in [Clients -> Ids \cup {None}]
           /\ \A d \in Clients \ {c} : taken'[d] = taken[d]
           /\ Conserved(pool', [h EXCEPT ![c] = taken'[c]])
           /\ taken'[c] = None => q = <<>> /\ loop' = [loop EXCEPT ![c] = "acquiring"]
           /\ taken'[c] # None => q # <<>> /\ loop' = [loop EXCEPT ![c] = "connecting"]
           /\ taken'[c] # None => taken'[c] = Head(q)
  <1>1. CASE q = <<>>
    <2>1. [h EXCEPT ![c] = taken'[c]] = h
      BY <1>1 DEF AcquireFrom
    <2> QED
      BY <1>1, <2>1 DEF AcquireFrom
  <1>2. CASE q # <<>>
    <2>1. /\ Tail(q) \in Seq(Ids) /\ Head(q) \in Ids
          /\ Conserved(Tail(q), [h EXCEPT ![c] = Head(q)])
      BY <1>2, TakeHead
    <2>2. pool' = Tail(q) /\ taken' = [taken EXCEPT ![c] = Head(q)]
          /\ loop' = [loop EXCEPT ![c] = "connecting"]
      BY <1>2 DEF AcquireFrom
    <2> QED
      BY <1>2, <2>1, <2>2, IdsAreNotNone
  <1> QED
    BY <1>1, <1>2

\* The two steps that acquire: both start from a balance in which c holds nothing.
LEMMA AcquiringKeepsIds ==
    ASSUME IdInv, StatusTypes, NEW c \in Clients, TickDisconnected(c) \/ Acquire(c)
    PROVE  /\ IdInv'
           /\ clientId[c] # None /\ pool # <<>> => taken'[c] # clientId[c]
  <1> DEFINE q == IF Acquire(c) THEN pool ELSE Released(clientId[c])
             h == [HeldBy EXCEPT ![c] = None]
  <1>0. /\ loop[c] \in {"new", "waiting", "acquiring"}
        /\ taken[c] = None
        /\ loop[c] = "acquiring" => clientId[c] = None
        /\ HeldBy[c] = clientId[c]
        /\ HeldBy \in [Clients -> Ids \cup {None}]
        /\ Conserved(pool, HeldBy)
    BY HeldByType, ConservedIsIdsConserved
    DEF TickDisconnected, Acquire, IdInv, SocketsHaveIds, HeldBy, Held
  <1>1. q \in Seq(Ids) /\ Conserved(q, h) /\ h \in [Clients -> Ids \cup {None}] /\ h[c] = None
    <2>1. CASE HeldBy[c] = None
      <3>1. h = HeldBy
        BY <1>0, <2>1
      <3>2. q = pool
        BY <1>0, <2>1 DEF Released
      <3> QED
        BY <1>0, <2>1, <3>1, <3>2 DEF IdInv, IdTypes
    <2>2. CASE HeldBy[c] # None
      <3>1. ~Acquire(c) /\ q = Append(pool, HeldBy[c])
        BY <1>0, <2>2 DEF Released, Acquire
      <3>2. pool \in Seq(Ids)
        BY DEF IdInv, IdTypes
      <3>3. /\ Append(pool, HeldBy[c]) \in Seq(Ids)
            /\ Conserved(Append(pool, HeldBy[c]), [HeldBy EXCEPT ![c] = None])
        BY <1>0, <2>2, <3>2, GiveBack
      <3>4. h \in [Clients -> Ids \cup {None}] /\ h[c] = None
        BY <1>0
      <3> QED
        BY <3>1, <3>3, <3>4
    <2> QED
      BY <2>1, <2>2
  <1>2. /\ AcquireFrom(c, q)
        /\ clientId' = [clientId EXCEPT ![c] = None]
        /\ socket' = socket
    BY <1>0 DEF TickDisconnected, Acquire, IdInv, IdTypes
  <1>3. socket[c] = FALSE
    BY <1>0 DEF TickDisconnected, Acquire, IdInv, SocketsHaveIds, StatusTypes
  <1> HIDE DEF q, h
  <1>4. /\ pool' \in Seq(Ids)
        /\ taken' \in [Clients -> Ids \cup {None}]
        /\ \A d \in Clients \ {c} : taken'[d] = taken[d]
        /\ Conserved(pool', [h EXCEPT ![c] = taken'[c]])
        /\ taken'[c] = None => q = <<>> /\ loop' = [loop EXCEPT ![c] = "acquiring"]
        /\ taken'[c] # None => q # <<>> /\ loop' = [loop EXCEPT ![c] = "connecting"]
        /\ taken'[c] # None => taken'[c] = Head(q)
    BY <1>0, <1>1, <1>2, AcquireBalances DEF IdInv, IdTypes
  <1>5. IdTypes'
    BY <1>2, <1>4 DEF IdInv, IdTypes
  <1>6. SocketsHaveIds'
    BY <1>2, <1>3, <1>4 DEF IdInv, IdTypes, SocketsHaveIds, StatusTypes
  <1>7. HeldBy' = [h EXCEPT ![c] = taken'[c]]
    BY <1>2, <1>4 DEF IdInv, IdTypes, HeldBy, Held, h
  <1>8. IdsConserved'
    BY <1>4, <1>7, BalancedAfterwards
  <1>9. ASSUME clientId[c] # None, pool # <<>>
        PROVE  taken'[c] # clientId[c]
    <2>1. q = Append(pool, clientId[c]) /\ clientId[c] \in Ids
      BY <1>0, <1>9 DEF q, Released, Acquire, IdInv, IdTypes
    <2>2. Head(q) = pool[1] /\ 1 \in DOMAIN pool
      BY <1>9, <2>1 DEF IdInv, IdTypes
    <2>3. clientId[c] \notin Elems(pool)
      BY <1>0, <1>9, <2>1 DEF Conserved
    <2> QED
      BY <1>4, <1>9, <2>2, <2>3 DEF Elems
  <1> QED
    BY <1>5, <1>6, <1>8, <1>9 DEF IdInv

\* The two steps after which c holds nothing: its id, if any, goes back.
LEMMA ReleasingKeepsIds ==
    ASSUME IdInv, StatusTypes, NEW c \in Clients, ConnectFails(c) \/ Stop(c)
    PROVE  IdInv'
  <1>0. /\ HeldBy \in [Clients -> Ids \cup {None}]
        /\ Conserved(pool, HeldBy)
        /\ HeldBy[c] = Held(c)
    BY HeldByType, ConservedIsIdsConserved DEF IdInv, HeldBy
  <1>1. /\ pool' = Released(Held(c))
        /\ taken' = [taken EXCEPT ![c] = None]
        /\ clientId' = [clientId EXCEPT ![c] = None]
        /\ \/ loop' = [loop EXCEPT ![c] = "waiting"] /\ socket' = socket /\ ~socket[c]
           \/ loop' = [loop EXCEPT ![c] = "stopped"] /\ socket' = [socket EXCEPT ![c] = FALSE]
    <2>1. CASE ConnectFails(c)
      <3>1. clientId[c] = None /\ ~socket[c]
        BY <2>1 DEF ConnectFails, IdInv, SocketsHaveIds, StatusTypes
      <3> QED
        BY <2>1, <3>1 DEF ConnectFails, Held, IdInv, IdTypes
    <2>2. CASE Stop(c)
      BY <2>2 DEF Stop, Held
    <2> QED
      BY <2>1, <2>2
  <1>2. HeldBy' = [HeldBy EXCEPT ![c] = None]
    BY <1>1 DEF HeldBy, Held, IdInv, IdTypes
  <1>3. pool' \in Seq(Ids) /\ Conserved(pool', HeldBy')
    <2>1. CASE Held(c) = None
      <3>1. HeldBy' = HeldBy /\ pool' = pool
        BY <1>0, <1>1, <1>2, <2>1 DEF Released
      <3> QED
        BY <1>0, <3>1 DEF IdInv, IdTypes
    <2>2. CASE Held(c) # None
      BY <1>0, <1>1, <1>2, <2>2, GiveBack DEF Released, IdInv, IdTypes
    <2> QED
      BY <2>1, <2>2
  <1>4. IdsConserved'
    BY <1>3, BalancedAfterwards
  <1>5. IdTypes'
    BY <1>1, <1>3 DEF IdInv, IdTypes
  <1>6. SocketsHaveIds'
    BY <1>1 DEF IdInv, IdTypes, SocketsHaveIds, StatusTypes
  <1> QED
    BY <1>4, <1>5, <1>6 DEF IdInv

\* All other steps leave every client with the id it holds.
LEMMA HoldingKeepsIds ==
    ASSUME IdInv, pool' = pool, \A c \in Clients : Held(c)' = Held(c)
    PROVE  IdsConserved'
  <1>1. HeldBy' = HeldBy
    BY DEF HeldBy
  <1>2. Conserved(pool', HeldBy')
    BY <1>1, ConservedIsIdsConserved DEF IdInv
  <1> QED
    BY <1>2, BalancedAfterwards

\* The invariant about ids, and what it says of reconnects.
LEMMA IdInvInvariant == Spec => []IdInv
<1>1. Init => IdInv
  <2> SUFFICES ASSUME Init PROVE IdInv
    OBVIOUS
  <2> DEFINE n == LastId - FirstId + 1
  <2>1. n \in Nat
    BY RangeAssumption
  <2>2. pool = [i \in 1..n |-> FirstId + i - 1]
    BY DEF Init
  <2>3. \A i \in 1..n : FirstId + i - 1 \in Ids
    BY RangeAssumption DEF Ids
  <2>4. \A id \in Ids : id - FirstId + 1 \in 1..n /\ FirstId + (id - FirstId + 1) - 1 = id
    BY RangeAssumption DEF Ids
  <2> HIDE DEF n
  <2>5. pool \in Seq(Ids) /\ DOMAIN pool = 1..n
    BY <2>1, <2>2, <2>3
  <2>6. \A i, j \in DOMAIN pool : pool[i] = pool[j] => i = j
    BY <2>1, <2>2, <2>5, RangeAssumption
  <2>7. \A id \in Ids : \E i \in DOMAIN pool : pool[i] = id
    BY <2>2, <2>4, <2>5
  <2>8. \A c \in Clients : Held(c) = None
    BY DEF Init, Held
  <2>9. IdsConserved
    BY <2>6, <2>7, <2>8, IdsAreNotNone DEF IdsConserved
  <2>10. IdTypes /\ SocketsHaveIds
    BY <2>5 DEF Init, IdTypes, SocketsHaveIds
  <2> QED
    BY <2>9, <2>10 DEF IdInv
<1>2. StatusTypes /\ IdInv /\ [Next]_vars => IdInv'
  <2> SUFFICES ASSUME StatusTypes, IdInv, [Next]_vars PROVE IdInv'
    OBVIOUS
  <2>1. CASE \E c \in Clients : TickDisconnected(c) \/ Acquire(c)
    BY <2>1, AcquiringKeepsIds
  <2>2. CASE \E c \in Clients : ConnectFails(c) \/ Stop(c)
    BY <2>2, ReleasingKeepsIds
  <2>3. ASSUME NEW c \in Clients, ConnectSucceeds(c) PROVE IdInv'
    <3>1. clientId[c] = None /\ taken[c] # None
      BY <2>3 DEF ConnectSucceeds, IdInv, SocketsHaveIds
    <3>2. \A d \in Clients : Held(d)' = Held(d)
      BY <2>3, <3>1 DEF ConnectSucceeds, Held, IdInv, IdTypes
    <3>3. IdTypes' /\ SocketsHaveIds'
      BY <2>3, <3>1 DEF ConnectSucceeds, IdInv, IdTypes, SocketsHaveIds, StatusTypes
    <3> QED
      BY <2>3, <3>2, <3>3, HoldingKeepsIds DEF ConnectSucceeds, IdInv
  <2>4. ASSUME NEW c \in Clients, TickConnected(c) PROVE IdInv'
    <3>1. UNCHANGED <<pool, clientId, taken, socket>>
      BY <2>4 DEF TickConnected
    <3>2. SocketsHaveIds'
      BY <2>4, <3>1 DEF TickConnected, IdInv, SocketsHaveIds, StatusTypes
    <3> QED
      BY <3>1, <3>2, HoldingKeepsIds DEF IdInv, IdTypes, Held
  <2>5. CASE \/ \E c \in Clients : SocketDrops(c)
             \/ \E state \in {"down", "accepting", "ready"} : TwsChanges(state)
    <3>1. UNCHANGED <<pool, clientId, taken, loop>>
      BY <2>5 DEF SocketDrops, TwsChanges
    <3>2. \A d \in Clients : socket'[d] => socket[d]
      BY <2>5 DEF SocketDrops, TwsChanges, StatusTypes
    <3> QED
      BY <3>1, <3>2, HoldingKeepsIds DEF IdInv, IdTypes, SocketsHaveIds, Held
  <2>6. CASE UNCHANGED vars
    BY <2>6, HoldingKeepsIds DEF vars, IdInv, IdTypes, SocketsHaveIds, Held
  <2> QED
    BY <2>1, <2>2, <2>3, <2>4, <2>5, <2>6 DEF Next
<1> QED
  BY <1>1, <1>2, StatusTypesInvariant, PTL DEF Spec

-----------------------------------------------------------------------------
\* What is held and counted has its type.
THEOREM TypeCorrect == Spec => []TypeOK
<1>1. StatusTypes /\ IdInv => TypeOK
  BY DEF StatusTypes, IdInv, IdTypes, TypeOK
<1> QED
  BY <1>1, StatusTypesInvariant, IdInvInvariant, PTL

\* Through every connect, failure, drop and stop, of any number of clients, each id of
\* the range is in the pool once or with one client.
THEOREM IdsAreConserved == Spec => []IdsConserved
<1>1. IdInv => IdsConserved
  BY DEF IdInv
<1> QED
  BY <1>1, IdInvInvariant, PTL

\* Every socket has its id, and only a connect under way has one besides.
THEOREM SocketsAlwaysHaveIds == Spec => []SocketsHaveIds
<1>1. IdInv => SocketsHaveIds
  BY DEF IdInv
<1> QED
  BY <1>1, IdInvInvariant, PTL

\* A client that reconnects takes another id than its dead session's, if one is free.
THEOREM ReconnectsRotate == Spec => ReconnectTakesAnotherId
<1>1. ASSUME StatusTypes, IdInv, [Next]_vars,
             NEW c \in Clients, clientId[c] # None, pool # <<>>
      PROVE  taken'[c] # clientId[c]
  <2>1. taken[c] = None /\ loop[c] = "waiting"
    BY <1>1 DEF IdInv, SocketsHaveIds, StatusTypes, Phases
  <2>2. ASSUME taken'[c] = None PROVE taken'[c] # clientId[c]
    BY <1>1, <2>2
  <2>3. ASSUME NEW d \in Clients, TickDisconnected(d) \/ Acquire(d)
        PROVE  taken'[c] # clientId[c]
    <3>1. CASE d = c
      BY <1>1, <2>3, <3>1, AcquiringKeepsIds
    <3>2. CASE d # c
      <4>1. taken' = taken \/ taken' = [taken EXCEPT ![d] = taken'[d]]
        BY <2>3 DEF TickDisconnected, Acquire, AcquireFrom, IdInv, IdTypes
      <4>2. taken'[c] = taken[c]
        BY <3>2, <4>1, <1>1 DEF IdInv, IdTypes
      <4> QED
        BY <2>1, <2>2, <4>2
    <3> QED
      BY <3>1, <3>2
  <2>4. ASSUME NEW d \in Clients, ConnectSucceeds(d) \/ ConnectFails(d) \/ Stop(d)
        PROVE  taken'[c] # clientId[c]
    <3>1. taken' = [taken EXCEPT ![d] = None]
      BY <2>4 DEF ConnectSucceeds, ConnectFails, Stop
    <3> QED
      BY <1>1, <2>1, <2>2, <3>1 DEF IdInv, IdTypes
  <2>5. CASE UNCHANGED taken
    BY <2>1, <2>2, <2>5
  <2> QED
    BY <1>1, <2>3, <2>4, <2>5
    DEF Next, TickConnected, SocketDrops, TwsChanges, vars
<1>2. StatusTypes /\ IdInv /\ [Next]_vars
        => [\A c \in Clients :
              clientId[c] # None /\ pool # <<>> => taken'[c] # clientId[c]]_vars
  BY <1>1
<1> QED
  BY <1>2, StatusTypesInvariant, IdInvInvariant, PTL DEF Spec, ReconnectTakesAnotherId

-----------------------------------------------------------------------------
\* The two counters: failures never falls behind row, because only a session that is
\* ready resets it, and such a session starts with a connect that resets row.
CountInv ==
    \A c \in Clients :
        /\ row[c] <= failures[c]
        /\ socket[c] => row[c] = 0
        /\ row[c] >= MaxFailures => status[c] = "tws_down"

\* Counting once more reaches the bound only where the tick says TWS_DOWN.
LEMMA FailureIsCounted ==
    ASSUME StatusTypes, IdInv, CountInv, NEW c \in Clients, ConnectFails(c)
    PROVE  CountInv'
  <1>1. /\ loop[c] = "connecting" /\ socket' = socket /\ ~socket[c]
        /\ failures' = [failures EXCEPT ![c] = CountUp(failures[c])]
        /\ row' = [row EXCEPT ![c] = CountUp(row[c])]
        /\ status' = [status EXCEPT ![c] =
                         IF failures'[c] >= MaxFailures THEN "tws_down" ELSE status[c]]
    BY DEF ConnectFails, IdInv, SocketsHaveIds, StatusTypes
  <1>2. row[c] \in 0..MaxFailures /\ failures[c] \in 0..MaxFailures /\ row[c] <= failures[c]
    BY DEF StatusTypes, CountInv
  <1>3. /\ CountUp(row[c]) <= CountUp(failures[c])
        /\ CountUp(row[c]) \in 0..MaxFailures /\ CountUp(failures[c]) \in 0..MaxFailures
    BY <1>2, CountUpType
  <1>4. row'[c] <= failures'[c] /\ (row'[c] >= MaxFailures => status'[c] = "tws_down")
    BY <1>1, <1>3, MaxFailuresAssumption DEF StatusTypes
  <1> QED
    BY <1>1, <1>4 DEF CountInv, StatusTypes

\* The counters' invariant.
LEMMA CountInvInvariant == Spec => []CountInv
<1>1. Init => CountInv
  BY MaxFailuresAssumption DEF Init, CountInv
<1>2. StatusTypes /\ IdInv /\ CountInv /\ [Next]_vars => CountInv'
  <2> SUFFICES ASSUME StatusTypes, IdInv, CountInv, [Next]_vars PROVE CountInv'
    OBVIOUS
  <2>1. ASSUME NEW c \in Clients, TickConnected(c) PROVE CountInv'
    BY <2>1, MaxFailuresAssumption DEF TickConnected, NoteSession, StatusTypes, CountInv
  <2>2. ASSUME NEW c \in Clients, TickDisconnected(c) \/ Acquire(c) PROVE CountInv'
    BY <2>2 DEF TickDisconnected, Acquire, CountInv
  <2>3. ASSUME NEW c \in Clients, ConnectSucceeds(c) PROVE CountInv'
    BY <2>3, MaxFailuresAssumption DEF ConnectSucceeds, NoteSession, StatusTypes, CountInv
  <2>4. ASSUME NEW c \in Clients, ConnectFails(c) PROVE CountInv'
    BY <2>4, FailureIsCounted
  <2>5. ASSUME NEW c \in Clients, Stop(c) \/ SocketDrops(c) PROVE CountInv'
    BY <2>5 DEF Stop, SocketDrops, StatusTypes, CountInv
  <2>6. ASSUME NEW state \in {"down", "accepting", "ready"}, TwsChanges(state)
        PROVE  CountInv'
    BY <2>6 DEF TwsChanges, StatusTypes, CountInv
  <2>7. CASE UNCHANGED vars
    BY <2>7 DEF vars, CountInv
  <2> QED
    BY <2>1, <2>2, <2>3, <2>4, <2>5, <2>6, <2>7 DEF Next
<1> QED
  BY <1>1, <1>2, StatusTypesInvariant, IdInvInvariant, PTL DEF Spec

\* Any number of failed connects in a row, as soon as it is MaxFailures, is noticed.
THEOREM OutagesAreNoticed == Spec => []OutageIsNoticed
<1>1. CountInv => OutageIsNoticed
  BY DEF CountInv, OutageIsNoticed
<1> QED
  BY <1>1, CountInvInvariant, PTL

\* Ids and sockets go together, for any number of clients and ids.
THEOREM IdsGoWithSockets == Spec => []IdsFollowSockets
<1>1. IdsConserved /\ SocketsHaveIds => IdsFollowSockets
  BY DEF IdsFollowSockets
<1> QED
  BY <1>1, IdsAreConserved, SocketsAlwaysHaveIds, PTL
=============================================================================
