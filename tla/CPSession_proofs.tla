-------------------------- MODULE CPSession_proofs --------------------------
(***************************************************************************)
(* Proofs about the two halves of the CP session, for every value of the   *)
(* constants: CPSession (types) and AutoLogin (types, and the budget of    *)
(* sidecars).                                                              *)
(***************************************************************************)
EXTENDS MCCPSession, SequenceTheorems, FiniteSetTheorems, WellFoundedInduction, TLAPS

Attempts == [age : 0..Forever, outcome : Outcomes]
Launches == [age : 0..Forever, by : Callers, outcome : Outcomes]

-----------------------------------------------------------------------------
(* The throttle's memory and the sidecars that really ran.                 *)

\* What the throttle remembers is what was launched within a day, behind attempts that
\* the next _purge drops.
Mirrors(list, ls) ==
    LET n == Len(list) - Len(ls) IN
    /\ n \in Nat
    /\ \A i \in 1..n : list[i].age > Day
    /\ \A i \in 1..Len(ls) : list[n + i].age = ls[i].age /\ list[n + i].outcome = ls[i].outcome

AgesFall(ls) ==
    /\ \A i \in 1..Len(ls) : ls[i].age <= Day
    /\ \A i, j \in 1..Len(ls) : i <= j => ls[j].age <= ls[i].age

MemoryInv ==
    /\ attempts \in Seq(Attempts) /\ launches \in Seq(Launches)
    /\ Mirrors(attempts, launches) /\ AgesFall(launches)

\* The last launch is open exactly while its sidecar runs, and so is its attempt.
RunsInv ==
    /\ manual \in BOOLEAN
    /\ shown \in ShownStates
    /\ calls \in [Callers -> {"idle", "asking", "asking_twice", "running",
                              "running_then_again"}]
    /\ OneSidecarAtATime
    /\ pending = 0 => ~\E c \in Callers : Running(c)
    /\ pending # 0 =>
         /\ pending = Len(attempts) /\ launches # <<>>
         /\ Running(launches[Len(launches)].by)
         /\ launches[Len(launches)].outcome = "open"
         /\ launches[Len(launches)].age <= timeout_s

\* How many launches have ended: all, or all but the last.
EndedLaunches == IF pending = 0 THEN Len(launches) ELSE Len(launches) - 1

\* The streak is no shorter than the row of failures that ends the day.
StreakInv ==
    /\ streak \in 0..Len(backoff)
    /\ \A i \in 1..EndedLaunches :
         /\ launches[i].outcome # "open"
         /\ (\A j \in i..EndedLaunches : launches[j].outcome = "failure")
                => streak = Len(backoff) \/ streak >= EndedLaunches - i + 1

LoginInv == MemoryInv /\ RunsInv /\ StreakInv

-----------------------------------------------------------------------------
\* The ages, lengths and limits are numbers, the open sidecar's among the smallest.
LEMMA Lengths ==
    /\ Day \in Nat /\ Hour \in Nat /\ timeout_s \in Nat /\ min_interval \in Nat
    /\ Forever = Day + 1 /\ Forever \in Nat
    /\ timeout_s < min_interval /\ min_interval <= Day
    /\ Len(backoff) \in Nat \ {0}
    /\ \A i \in 1..Len(backoff) : backoff[i] \in Nat /\ min_interval <= backoff[i]
BY LoginAssumption DEF Forever

LEMMA AgesAreNumbers ==
    /\ \A a \in Attempts : a.age \in Int /\ a.age \in 0..Forever /\ a.outcome \in Outcomes
    /\ \A l \in Launches : l.age \in Int /\ l.age \in 0..Forever /\ l.outcome \in Outcomes
                           /\ l.by \in Callers
BY Lengths DEF Attempts, Launches

LEMMA LeastOfThem ==
    ASSUME NEW S \in SUBSET Nat, S # {}
    PROVE  \E x \in S : \A y \in S : x <= y
<1>1. PICK x \in S : \A y \in S : ~(<<y, x>> \in OpToRel(<, Nat))
  BY WFMin, NatLessThanWellFounded
<1>2. \A y \in S : <<y, x>> \in Nat \X Nat /\ <<y, x>>[1] = y /\ <<y, x>>[2] = x
  OBVIOUS
<1>3. \A y \in S : ~(y < x)
  BY <1>1, <1>2, Zenon DEF OpToRel
<1> QED  BY <1>3

\* So many of the list have expired: all that lead it up to the first that has not.
ExpiredAre(list, n) ==
    /\ n \in 0..Len(list)
    /\ \A i \in 1..n : list[i].age > Day
    /\ n < Len(list) => list[n + 1].age <= Day

\* As many as _purge drops there always are, and never two such numbers.
LEMMA ExpiredIs ==
    ASSUME NEW R, NEW list \in Seq(R), \A i \in 1..Len(list) : list[i].age \in Int
    PROVE  /\ ExpiredAre(list, Expired(list))
           /\ \A n : ExpiredAre(list, n) => Expired(list) = n
<1>1. PICK len \in Nat : len = Len(list)
  OBVIOUS
<1> DEFINE S == {i \in 1..(len + 1) : i = len + 1 \/ list[i].age <= Day}
<1>2. S \in SUBSET Nat /\ len + 1 \in S
  OBVIOUS
<1>3. PICK x \in S : \A y \in S : x <= y
  BY <1>2, LeastOfThem
<1>4. x \in 1..(len + 1) /\ x - 1 \in 0..len /\ (x - 1) + 1 = x
  OBVIOUS
<1>5. ASSUME NEW i \in 1..(x - 1)  PROVE list[i].age > Day
  <2>1. i \in 1..len /\ i < x /\ i # len + 1 /\ i \in 1..(len + 1)
    BY <1>4
  <2>2. i \notin S
    BY <1>3, <2>1
  <2> QED  BY <1>1, <2>1, <2>2, Lengths
<1>6. x - 1 < len => list[x].age <= Day
  BY <1>4
<1>7. ExpiredAre(list, x - 1)
  BY <1>1, <1>4, <1>5, <1>6 DEF ExpiredAre
<1>8. Expired(list) = CHOOSE n \in 0..Len(list) : ExpiredAre(list, n)
  BY DEF Expired, ExpiredAre
<1>9. ExpiredAre(list, Expired(list))
  BY <1>7, <1>8 DEF ExpiredAre
<1>10. ASSUME NEW m, NEW n, ExpiredAre(list, m), ExpiredAre(list, n), m < n  PROVE FALSE
  <2>1. m \in 0..len /\ n \in 0..len /\ m + 1 \in 1..n /\ m < len
    BY <1>1, <1>10 DEF ExpiredAre
  <2>2. list[m + 1].age > Day /\ list[m + 1].age <= Day /\ list[m + 1].age \in Int
    BY <1>1, <1>10, <2>1 DEF ExpiredAre
  <2> QED  BY <2>2, Lengths
<1>11. ASSUME NEW n, ExpiredAre(list, n)  PROVE Expired(list) = n
  <2>1. n \in Int /\ Expired(list) \in Int
    BY <1>9, <1>11 DEF ExpiredAre
  <2>2. ~(n < Expired(list)) /\ ~(Expired(list) < n)
    BY <1>9, <1>10, <1>11
  <2> QED  BY <2>1, <2>2
<1> QED  BY <1>9, <1>11

\* What is left of the list.
LEMMA PurgeDrops ==
    ASSUME NEW R, NEW list \in Seq(R), \A i \in 1..Len(list) : list[i].age \in Int,
           NEW n, ExpiredAre(list, n)
    PROVE  /\ Expired(list) = n
           /\ Purged(list) \in Seq(R) /\ Len(Purged(list)) = Len(list) - n
           /\ \A i \in 1..(Len(list) - n) : Purged(list)[i] = list[n + i]
<1>1. PICK len \in Nat : len = Len(list)
  OBVIOUS
<1>2. Expired(list) = n
  BY ExpiredIs
<1>3. n \in 0..len /\ n + 1 \in Int
  BY <1>1 DEF ExpiredAre
<1>4. Purged(list) = SubSeq(list, n + 1, len)
  BY <1>1, <1>2 DEF Purged
<1>5. \A i \in (n + 1)..len : list[i] \in R
  BY <1>1, <1>3
<1>6. /\ Purged(list) \in Seq(R)
      /\ Len(Purged(list)) = IF n + 1 <= len THEN len - (n + 1) + 1 ELSE 0
      /\ \A i \in 1..(len - (n + 1) + 1) : Purged(list)[i] = list[(n + 1) + i - 1]
  BY <1>3, <1>4, <1>5, SubSeqProperties
<1>8. Len(Purged(list)) = len - n
  BY <1>3, <1>6
<1>9. ASSUME NEW i \in 1..(len - n)  PROVE Purged(list)[i] = list[n + i]
  <2>1. i \in Int /\ i \in 1..(len - (n + 1) + 1) /\ (n + 1) + i - 1 = n + i
    BY <1>3
  <2> QED  BY <1>6, <2>1
<1> QED  BY <1>1, <1>2, <1>6, <1>8, <1>9

LEMMA PurgeMirrors ==
    ASSUME NEW list \in Seq(Attempts), NEW ls \in Seq(Launches), Mirrors(list, ls), AgesFall(ls)
    PROVE  /\ Expired(list) = Len(list) - Len(ls)
           /\ Purged(list) \in Seq(Attempts) /\ Len(Purged(list)) = Len(ls)
           /\ \A i \in 1..Len(ls) :
                 Purged(list)[i].age = ls[i].age /\ Purged(list)[i].outcome = ls[i].outcome
           /\ Mirrors(Purged(list), ls)
<1>1. PICK len \in Nat, k \in Nat : len = Len(list) /\ k = Len(ls)
  OBVIOUS
<1>2. PICK n \in Nat : n = len - k
  BY <1>1 DEF Mirrors
<1>3. /\ n \in 0..len /\ len - n = k /\ (n < len => 1 \in 1..k)
      /\ \A i \in 1..n : list[i].age > Day
      /\ \A i \in 1..k : list[n + i].age = ls[i].age /\ list[n + i].outcome = ls[i].outcome
  BY <1>1, <1>2 DEF Mirrors
<1>4. ExpiredAre(list, n)
  BY <1>1, <1>3 DEF ExpiredAre, AgesFall
<1>5. \A i \in 1..Len(list) : list[i].age \in Int
  BY AgesAreNumbers
<1>6. /\ Expired(list) = n /\ Purged(list) \in Seq(Attempts) /\ Len(Purged(list)) = Len(list) - n
      /\ \A i \in 1..(Len(list) - n) : Purged(list)[i] = list[n + i]
  <2>1. PICK R : R = Attempts
    OBVIOUS
  <2>2. list \in Seq(R)
    BY <2>1
  <2>3. Expired(list) = n
    BY <1>4, <1>5, <2>2, PurgeDrops
  <2>4. Purged(list) \in Seq(R)
    BY <1>4, <1>5, <2>2, PurgeDrops
  <2>5. Len(Purged(list)) = Len(list) - n
    BY <1>4, <1>5, <2>2, PurgeDrops
  <2>6. \A i \in 1..(Len(list) - n) : Purged(list)[i] = list[n + i]
    BY <1>4, <1>5, <2>2, PurgeDrops
  <2> QED  BY <2>1, <2>3, <2>4, <2>5, <2>6
<1>7. Len(Purged(list)) = k /\ \A i \in 1..k : Purged(list)[i] = list[n + i]
  BY <1>1, <1>3, <1>6
<1>8. Mirrors(Purged(list), ls)
  <2>1. Len(Purged(list)) - Len(ls) = 0 /\ \A i \in Int : 0 + i = i
    BY <1>1, <1>7
  <2> QED  BY <1>1, <1>3, <1>7, <2>1 DEF Mirrors
<1> QED  BY <1>1, <1>2, <1>3, <1>6, <1>7, <1>8

\* While the last attempt is younger than a sidecar may run, none is granted.
LEMMA YoungIsNotReady ==
    ASSUME NEW list \in Seq(Attempts), list # <<>>, list[Len(list)].age <= timeout_s,
           NEW fails \in 0..Len(backoff)
    PROVE  ThrottleState(list, fails) # "ready"
<1>1. Len(list) \in 1..Len(list)
  OBVIOUS
<1>2. list[Len(list)].age \in Int
  BY <1>1, AgesAreNumbers
<1>3. Cooldown(list[Len(list)], fails) \in Int /\ min_interval <= Cooldown(list[Len(list)], fails)
  <2>1. (IF fails = 0 THEN 1 ELSE fails) \in 1..Len(backoff)
    BY Lengths
  <2> QED  BY <2>1, Lengths DEF Cooldown
<1>4. list[Len(list)].age < Cooldown(list[Len(list)], fails)
  BY <1>2, <1>3, Lengths
<1> QED  BY <1>4 DEF ThrottleState

AgeAfter(age) == IF age < Forever THEN age + 1 ELSE age

\* A unit later, each is a unit older.
LEMMA OlderAttempts ==
    ASSUME NEW list \in Seq(Attempts)
    PROVE  /\ Older(list) \in Seq(Attempts) /\ Len(Older(list)) = Len(list)
           /\ \A i \in 1..Len(list) : /\ Older(list)[i].age = AgeAfter(list[i].age)
                                      /\ Older(list)[i].outcome = list[i].outcome
<1>1. PICK k \in Nat : k = Len(list) /\ DOMAIN list = 1..k
  OBVIOUS
<1> DEFINE later(a) == [a EXCEPT !.age = IF a.age < Forever THEN a.age + 1 ELSE a.age]
<1>2. ASSUME NEW a \in Attempts
      PROVE  /\ later(a) \in Attempts
             /\ later(a).age = AgeAfter(a.age) /\ later(a).outcome = a.outcome
  <2>1. a.age \in 0..Forever /\ AgeAfter(a.age) \in 0..Forever
    BY AgesAreNumbers, Lengths DEF AgeAfter
  <2> QED  BY <2>1 DEF Attempts, AgeAfter
<1>3. \A i \in 1..k : list[i] \in Attempts
  BY <1>1
<1>4. Older(list) = [i \in 1..k |-> later(list[i])]
  BY <1>1, <1>3 DEF Older, Attempts
<1> HIDE DEF later
<1>5. Older(list) \in [1..k -> Attempts]
  BY <1>2, <1>3, <1>4
<1>6. Older(list) \in Seq(Attempts) /\ Len(Older(list)) = k
  BY <1>5
<1>7. \A i \in 1..k : Older(list)[i] = later(list[i])
  BY <1>4
<1> QED  BY <1>1, <1>2, <1>3, <1>6, <1>7

LEMMA OlderLaunches ==
    ASSUME NEW list \in Seq(Launches)
    PROVE  /\ Older(list) \in Seq(Launches) /\ Len(Older(list)) = Len(list)
           /\ \A i \in 1..Len(list) : /\ Older(list)[i].age = AgeAfter(list[i].age)
                                      /\ Older(list)[i].outcome = list[i].outcome
                                      /\ Older(list)[i].by = list[i].by
<1>1. PICK k \in Nat : k = Len(list) /\ DOMAIN list = 1..k
  OBVIOUS
<1> DEFINE later(a) == [a EXCEPT !.age = IF a.age < Forever THEN a.age + 1 ELSE a.age]
<1>2. ASSUME NEW a \in Launches
      PROVE  /\ later(a) \in Launches
             /\ later(a).age = AgeAfter(a.age) /\ later(a).outcome = a.outcome
             /\ later(a).by = a.by
  <2>1. a.age \in 0..Forever /\ AgeAfter(a.age) \in 0..Forever
    BY AgesAreNumbers, Lengths DEF AgeAfter
  <2> QED  BY <2>1 DEF Launches, AgeAfter
<1>3. \A i \in 1..k : list[i] \in Launches
  BY <1>1
<1>4. Older(list) = [i \in 1..k |-> later(list[i])]
  BY <1>1, <1>3 DEF Older, Launches
<1> HIDE DEF later
<1>5. Older(list) \in [1..k -> Launches]
  BY <1>2, <1>3, <1>4
<1>6. Older(list) \in Seq(Launches) /\ Len(Older(list)) = k
  BY <1>5
<1>7. \A i \in 1..k : Older(list)[i] = later(list[i])
  BY <1>4
<1> QED  BY <1>1, <1>2, <1>3, <1>6, <1>7

\* Ages keep their order as they grow.
LEMMA AgesGrow ==
    ASSUME NEW a \in 0..Forever, NEW b \in 0..Forever
    PROVE  /\ AgeAfter(a) \in Int /\ AgeAfter(a) \in 0..Forever /\ a <= AgeAfter(a)
           /\ AgeAfter(a) <= a + 1
           /\ a <= b => AgeAfter(a) <= AgeAfter(b)
BY Lengths DEF AgeAfter

-----------------------------------------------------------------------------
CallStates == {"idle", "asking", "asking_twice", "running", "running_then_again"}

LEMMA CallMoves ==
    ASSUME RunsInv, NEW c \in Callers, NEW x \in CallStates, calls' = [calls EXCEPT ![c] = x]
    PROVE  /\ calls' \in [Callers -> CallStates] /\ calls'[c] = x
           /\ \A d \in Callers : d # c => calls'[d] = calls[d]
BY DEF RunsInv, CallStates

LEMMA StatesShown ==
    ASSUME NEW list, NEW fails
    PROVE  ThrottleState(list, fails) \in ShownStates \ {"running"}
BY DEF ThrottleState, ShownStates

\* A caller that runs a sidecar is the only one, and its launch the last.
LEMMA RunIsLast ==
    ASSUME LoginInv, NEW c \in Callers, Running(c)
    PROVE  /\ pending = Len(attempts) /\ pending # 0 /\ pending \in DOMAIN attempts
           /\ Len(launches) \in 1..Len(launches)
           /\ launches[Len(launches)].by = c /\ launches[Len(launches)].outcome = "open"
           /\ launches[Len(launches)].age <= timeout_s
           /\ EndedLaunches = Len(launches) - 1
           /\ \A d \in Callers : Running(d) => d = c
<1>1. pending # 0
  BY DEF LoginInv, RunsInv
<1>2. launches \in Seq(Launches) /\ launches # <<>> /\ attempts \in Seq(Attempts)
  BY <1>1 DEF LoginInv, RunsInv, MemoryInv
<1>3. Len(launches) \in 1..Len(launches)
  BY <1>2
<1>4. Len(attempts) \in Nat /\ DOMAIN attempts = 1..Len(attempts)
  BY <1>2
<1>5. pending = Len(attempts)
  BY <1>1 DEF LoginInv, RunsInv
<1>6. pending \in DOMAIN attempts
  BY <1>1, <1>4, <1>5
<1>7. launches[Len(launches)].by \in Callers
  BY <1>2, <1>3, AgesAreNumbers
<1>8. /\ Running(launches[Len(launches)].by)
      /\ launches[Len(launches)].outcome = "open"
      /\ launches[Len(launches)].age <= timeout_s
  BY <1>1 DEF LoginInv, RunsInv
<1>9. \A d \in Callers : Running(d) => d = c
  BY DEF LoginInv, RunsInv, OneSidecarAtATime
<1> QED  BY <1>1, <1>3, <1>5, <1>6, <1>7, <1>8, <1>9 DEF EndedLaunches

\* Calls that start or end no sidecar.
LEMMA LoginCalls ==
    ASSUME LoginInv, NEW c \in Callers,
           LoginCalled(c) \/ \E s \in AuthStatuses : Skipped(c, s)
    PROVE  LoginInv'
<1>1. UNCHANGED <<attempts, pending, streak, manual, shown, launches>>
  BY DEF LoginCalled, Skipped
<1>2. PICK x \in {"idle", "asking", "asking_twice"} : calls' = [calls EXCEPT ![c] = x]
  BY DEF LoginCalled, Skipped, AfterCall
<1>3. ~Running(c)
  BY DEF LoginCalled, Skipped, Asking, Running
<1>4. /\ calls' \in [Callers -> CallStates] /\ calls'[c] = x
      /\ \A d \in Callers : d # c => calls'[d] = calls[d]
  BY <1>2, CallMoves DEF LoginInv, CallStates
<1>5. \A d \in Callers : Running(d)' <=> Running(d)
  BY <1>3, <1>4 DEF Running
<1>6. MemoryInv' /\ StreakInv'
  BY <1>1 DEF LoginInv, MemoryInv, StreakInv, EndedLaunches
<1>7. pending # 0 => launches[Len(launches)].by \in Callers
  <2> SUFFICES ASSUME pending # 0 PROVE launches[Len(launches)].by \in Callers
    OBVIOUS
  <2>1. launches \in Seq(Launches) /\ launches # <<>>
    BY DEF LoginInv, RunsInv, MemoryInv
  <2>2. Len(launches) \in 1..Len(launches)
    BY <2>1
  <2> QED  BY <2>1, <2>2, AgesAreNumbers
<1>8. OneSidecarAtATime'
  BY <1>1, <1>5 DEF LoginInv, RunsInv, OneSidecarAtATime
<1>9. RunsInv'
  BY <1>1, <1>4, <1>5, <1>7, <1>8 DEF LoginInv, RunsInv, CallStates
<1> QED  BY <1>6, <1>9 DEF LoginInv

LEMMA LoginDeclined ==
    ASSUME LoginInv, NEW c \in Callers, NEW s \in AuthStatuses, Declined(c, s)
    PROVE  LoginInv'
<1>1. UNCHANGED <<streak, manual, shown, launches>> /\ attempts' = Purged(attempts)
      /\ pending' = PurgedIndex(attempts, pending)
  BY DEF Declined
<1>2. /\ Expired(attempts) = Len(attempts) - Len(launches)
      /\ Purged(attempts) \in Seq(Attempts) /\ Len(Purged(attempts)) = Len(launches)
      /\ Mirrors(Purged(attempts), launches)
  BY PurgeMirrors DEF LoginInv, MemoryInv
<1>3. MemoryInv'
  BY <1>1, <1>2 DEF LoginInv, MemoryInv
<1>4. PICK m \in Nat, k \in Nat : m = Len(attempts) /\ k = Len(launches) /\ m - k \in Nat
  <2>1. Len(attempts) \in Nat /\ Len(launches) \in Nat
    BY LenProperties DEF LoginInv, MemoryInv
  <2>2. Len(attempts) - Len(launches) \in Nat
    BY DEF LoginInv, MemoryInv, Mirrors
  <2> QED  BY <2>1, <2>2
<1>5. pending = 0 => pending' = 0
  <2> SUFFICES ASSUME pending = 0 PROVE pending' = 0
    OBVIOUS
  <2>1. ~(0 > m - k)
    BY <1>4
  <2> QED  BY <1>1, <1>2, <1>4, <2>1 DEF PurgedIndex
<1>6. pending # 0 => pending' = k /\ k # 0
  <2> SUFFICES ASSUME pending # 0 PROVE pending' = k /\ k # 0
    OBVIOUS
  <2>1. pending = m /\ launches # <<>> /\ launches \in Seq(Launches)
    BY <1>4 DEF LoginInv, RunsInv, MemoryInv
  <2>2. k # 0 /\ m > m - k /\ m - (m - k) = k
    BY <1>4, <2>1
  <2> QED  BY <1>1, <1>2, <1>4, <2>1, <2>2 DEF PurgedIndex
<1>7. EndedLaunches' = EndedLaunches
  BY <1>1, <1>5, <1>6 DEF EndedLaunches
<1>8. StreakInv'
  BY <1>1, <1>7 DEF LoginInv, StreakInv
<1>9. PICK x \in {"idle", "asking"} : calls' = [calls EXCEPT ![c] = x]
  BY DEF Declined, AfterCall
<1>10. ~Running(c)
  BY DEF Declined, Asking, Running
<1>11. /\ calls' \in [Callers -> CallStates] /\ calls'[c] = x
       /\ \A d \in Callers : d # c => calls'[d] = calls[d]
  BY <1>9, CallMoves DEF LoginInv, CallStates
<1>12. \A d \in Callers : Running(d)' <=> Running(d)
  BY <1>10, <1>11 DEF Running
<1>13. OneSidecarAtATime'
  BY <1>1, <1>12 DEF LoginInv, RunsInv, OneSidecarAtATime
<1>14. pending # 0 => launches[Len(launches)].by \in Callers
  <2> SUFFICES ASSUME pending # 0 PROVE launches[Len(launches)].by \in Callers
    OBVIOUS
  <2>1. launches \in Seq(Launches) /\ launches # <<>>
    BY DEF LoginInv, RunsInv, MemoryInv
  <2>2. Len(launches) \in 1..Len(launches)
    BY <2>1
  <2> QED  BY <2>1, <2>2, AgesAreNumbers
<1>15. pending' = 0 <=> pending = 0
  BY <1>5, <1>6
<1>16. pending' # 0 => pending' = Len(attempts')
  BY <1>1, <1>2, <1>4, <1>6, <1>15
<1>17. RunsInv'
  BY <1>1, <1>11, <1>12, <1>13, <1>14, <1>15, <1>16 DEF LoginInv, RunsInv, CallStates
<1> QED  BY <1>3, <1>8, <1>17 DEF LoginInv

\* Whoever is granted a slot finds no sidecar running, and the limits kept.
LEMMA GrantedAlone ==
    ASSUME LoginInv, ThrottleState(Purged(attempts), streak) = "ready"
    PROVE  pending = 0 /\ \A d \in Callers : ~Running(d)
<1>1. SUFFICES ASSUME pending # 0 PROVE FALSE
  BY DEF LoginInv, RunsInv
<1>2. launches \in Seq(Launches) /\ launches # <<>> /\ launches[Len(launches)].age <= timeout_s
  BY <1>1 DEF LoginInv, RunsInv, MemoryInv
<1>3. Len(launches) \in 1..Len(launches)
  BY <1>2
<1>4. /\ Purged(attempts) \in Seq(Attempts) /\ Len(Purged(attempts)) = Len(launches)
      /\ \A i \in 1..Len(launches) : Purged(attempts)[i].age = launches[i].age
  BY PurgeMirrors DEF LoginInv, MemoryInv
<1>5. PICK list : list = Purged(attempts)
  OBVIOUS
<1>6. list \in Seq(Attempts) /\ list # <<>> /\ list[Len(list)].age <= timeout_s
  BY <1>2, <1>3, <1>4, <1>5
<1>7. streak \in 0..Len(backoff)
  BY DEF LoginInv, StreakInv
<1> QED  BY <1>5, <1>6, <1>7, YoungIsNotReady

LEMMA LoginLaunched ==
    ASSUME LoginInv, NEW c \in Callers, NEW s \in AuthStatuses, Launched(c, s)
    PROVE  LoginInv'
<1> DEFINE a == [age |-> 0, outcome |-> "open"]
           l == [age |-> 0, by |-> c, outcome |-> "open"]
<1>1. PICK list, k : list = Purged(attempts) /\ k = Len(launches)
  OBVIOUS
<1>2. /\ list \in Seq(Attempts) /\ Len(list) = k /\ k \in Nat
      /\ launches \in Seq(Launches)
      /\ \A i \in 1..k : list[i].age = launches[i].age /\ list[i].outcome = launches[i].outcome
  BY <1>1, PurgeMirrors DEF LoginInv, MemoryInv
<1>3. pending = 0 /\ \A d \in Callers : ~Running(d)
  BY GrantedAlone DEF Launched
<1>4. /\ attempts' = Append(list, a) /\ launches' = Append(launches, l)
      /\ pending' = Len(attempts') /\ shown' = "running" /\ streak' = streak /\ manual' = manual
  BY <1>1 DEF Launched
<1>5. a \in Attempts /\ l \in Launches
  BY Lengths DEF Attempts, Launches, Outcomes
<1>6. a.age = 0 /\ a.outcome = "open" /\ l.age = 0 /\ l.outcome = "open" /\ l.by = c
  OBVIOUS
<1> HIDE DEF a, l
<1>7. /\ attempts' \in Seq(Attempts) /\ Len(attempts') = k + 1 /\ attempts'[k + 1] = a
      /\ \A i \in 1..k : attempts'[i] = list[i]
  BY <1>2, <1>4, <1>5
<1>8. /\ launches' \in Seq(Launches) /\ Len(launches') = k + 1 /\ launches'[k + 1] = l
      /\ \A i \in 1..k : launches'[i] = launches[i]
  BY <1>1, <1>2, <1>4, <1>5
<1>9. 1..(k + 1) = (1..k) \cup {k + 1} /\ (k + 1) - (k + 1) = 0 /\ k + 1 # 0
  BY <1>2
<1>10. Mirrors(attempts', launches')
  <2>1. Len(attempts') - Len(launches') = 0 /\ \A i \in 1..(k + 1) : 0 + i = i
    BY <1>2, <1>7, <1>8
  <2>2. \A i \in 1..(k + 1) : attempts'[i].age = launches'[i].age
                              /\ attempts'[i].outcome = launches'[i].outcome
    BY <1>2, <1>6, <1>7, <1>8, <1>9
  <2> QED  BY <1>8, <2>1, <2>2 DEF Mirrors
<1>11. AgesFall(launches')
  <2>1. \A i \in 1..k : launches[i].age <= Day /\ 0 <= launches[i].age
    BY <1>1, <1>2, AgesAreNumbers DEF LoginInv, MemoryInv, AgesFall
  <2>2. \A i \in 1..(k + 1) : launches'[i].age <= Day
    BY <1>6, <1>8, <1>9, <2>1, Lengths
  <2>3. ASSUME NEW i \in 1..(k + 1), NEW j \in 1..(k + 1), i <= j
        PROVE  launches'[j].age <= launches'[i].age
    <3>1. CASE j = k + 1
      BY <1>6, <1>8, <1>9, <2>1, <3>1
    <3>2. CASE j \in 1..k
      <4>1. i \in 1..k
        BY <2>3, <3>2, <1>2
      <4> QED  BY <1>1, <1>8, <2>3, <3>2, <4>1 DEF LoginInv, MemoryInv, AgesFall
    <3> QED  BY <1>9, <3>1, <3>2
  <2> QED  BY <1>8, <2>2, <2>3 DEF AgesFall
<1>12. MemoryInv'
  BY <1>7, <1>8, <1>10, <1>11 DEF MemoryInv
<1>13. PICK x \in {"running", "running_then_again"} : calls' = [calls EXCEPT ![c] = x]
  <2>1. calls' = [calls EXCEPT ![c] = IF calls[c] = "asking_twice" THEN "running_then_again"
                                      ELSE "running"]
    BY DEF Launched, LoginInv, RunsInv
  <2> QED  BY <2>1
<1>14. /\ calls' \in [Callers -> CallStates] /\ calls'[c] = x
       /\ \A d \in Callers : d # c => calls'[d] = calls[d]
  BY <1>13, CallMoves DEF LoginInv, CallStates
<1>15. \A d \in Callers : Running(d)' <=> d = c
  BY <1>3, <1>14 DEF Running
<1>16. pending' = k + 1 /\ pending' # 0 /\ launches' # <<>>
  BY <1>4, <1>7, <1>8, <1>9
<1>17. OneSidecarAtATime'
  BY <1>4, <1>15 DEF OneSidecarAtATime
<1>18. shown' \in ShownStates /\ manual' \in BOOLEAN
  BY <1>4 DEF ShownStates, LoginInv, RunsInv
<1>19. RunsInv'
  <2>1. launches'[Len(launches')] = l
    BY <1>8
  <2>2. Running(launches[Len(launches)].by)'
    BY <1>6, <1>14, <2>1 DEF Running
  <2>3. 0 <= timeout_s
    BY Lengths
  <2> QED  BY <1>4, <1>6, <1>14, <1>16, <1>17, <1>18, <2>1, <2>2, <2>3
           DEF RunsInv, CallStates
<1>20. EndedLaunches' = k /\ EndedLaunches = k
  BY <1>1, <1>2, <1>3, <1>8, <1>16 DEF EndedLaunches
<1>21. StreakInv'
  <2>1. \A i \in 1..k : \A j \in i..k : j \in 1..k
    BY <1>2
  <2> QED  BY <1>4, <1>8, <1>20, <2>1 DEF LoginInv, StreakInv
<1> QED  BY <1>12, <1>19, <1>21 DEF LoginInv

-----------------------------------------------------------------------------
\* A sidecar that ends closes the attempt and the launch that are open, no other.
LEMMA EndsLast ==
    ASSUME LoginInv, NEW c \in Callers, Running(c), NEW r \in {"success", "failure"},
           launches' = Ended(c, r)
    PROVE  /\ launches' \in Seq(Launches) /\ Len(launches') = Len(launches)
           /\ \A i \in 1..EndedLaunches : launches'[i] = launches[i]
           /\ launches'[Len(launches)].outcome = r
           /\ launches'[Len(launches)].age <= timeout_s
           /\ Closed(r) \in Seq(Attempts) /\ Len(Closed(r)) = Len(attempts)
           /\ Mirrors(Closed(r), launches') /\ AgesFall(launches')
<1>1. PICK k \in Nat, m \in Nat : k = Len(launches) /\ m = Len(attempts)
  BY DEF LoginInv, MemoryInv
<1>2. /\ launches \in Seq(Launches) /\ attempts \in Seq(Attempts)
      /\ DOMAIN launches = 1..k /\ DOMAIN attempts = 1..m
      /\ \A i \in 1..k : launches[i] \in Launches
      /\ \A i \in 1..m : attempts[i] \in Attempts
  BY <1>1 DEF LoginInv, MemoryInv
<1>3. /\ pending = m /\ m \in 1..m /\ k \in 1..k
      /\ launches[k].by = c /\ launches[k].outcome = "open" /\ launches[k].age <= timeout_s
      /\ EndedLaunches = k - 1
  BY <1>1, <1>2, RunIsLast
<1> DEFINE after(i) == IF launches[i].by = c /\ launches[i].outcome = "open"
                       THEN [launches[i] EXCEPT !.outcome = r] ELSE launches[i]
<1>4. launches' = [i \in 1..k |-> after(i)]
  BY <1>2 DEF Ended
<1>5. \A i \in 1..k : i # k => launches[i].outcome # "open"
  <2>1. \A i \in 1..k : i # k => i \in 1..(k - 1)
    OBVIOUS
  <2> QED  BY <1>3, <2>1 DEF LoginInv, StreakInv
<1>6. \A i \in 1..k : i # k => after(i) = launches[i]
  BY <1>5
<1>7. after(k) = [launches[k] EXCEPT !.outcome = r]
  BY <1>3
<1>8. /\ after(k) \in Launches /\ after(k).outcome = r /\ after(k).age = launches[k].age
      /\ after(k).by = launches[k].by
  BY <1>2, <1>3, <1>7 DEF Launches, Outcomes
<1> HIDE DEF after
<1>9. \A i \in 1..k : after(i) \in Launches /\ after(i).age = launches[i].age
  BY <1>2, <1>6, <1>8
<1>10. launches' \in [1..k -> Launches]
  BY <1>4, <1>9
<1>11. launches' \in Seq(Launches) /\ Len(launches') = k /\ \A i \in 1..k : launches'[i] = after(i)
  BY <1>4, <1>10
<1>12. \A i \in 1..(k - 1) : i \in 1..k /\ i # k
  BY <1>1
<1>13. \A i \in 1..EndedLaunches : launches'[i] = launches[i]
  BY <1>3, <1>6, <1>11, <1>12
<1>14. launches'[k].outcome = r /\ launches'[k].age <= timeout_s
  BY <1>3, <1>8, <1>11
<1> DEFINE shut == [attempts[m] EXCEPT !.outcome = r]
<1>15. shut \in Attempts /\ shut.outcome = r /\ shut.age = attempts[m].age
  BY <1>2, <1>3 DEF Attempts, Outcomes
<1>16. Closed(r) = [attempts EXCEPT ![m] = shut]
  BY <1>2, <1>3 DEF Closed
<1> HIDE DEF shut
<1>17. /\ Closed(r) \in Seq(Attempts) /\ Len(Closed(r)) = m
       /\ \A i \in 1..m : Closed(r)[i] = IF i = m THEN shut ELSE attempts[i]
  BY <1>1, <1>2, <1>3, <1>15, <1>16, ExceptSeq
<1>18. AgesFall(launches')
  <2>1. \A i \in 1..k : launches'[i].age = launches[i].age
    BY <1>9, <1>11
  <2> QED  BY <1>1, <1>11, <2>1 DEF LoginInv, MemoryInv, AgesFall
<1>19. Mirrors(Closed(r), launches')
  <2>1. PICK n \in Nat : n = m - k
    BY <1>1 DEF LoginInv, MemoryInv, Mirrors
  <2>2. /\ \A i \in 1..n : i \in 1..m /\ i # m
        /\ \A i \in 1..k : n + i \in 1..m /\ (n + i = m <=> i = k)
    BY <1>3, <2>1
  <2>3. /\ \A i \in 1..n : attempts[i].age > Day
        /\ \A i \in 1..k : attempts[n + i].age = launches[i].age
                           /\ attempts[n + i].outcome = launches[i].outcome
    BY <1>1, <2>1 DEF LoginInv, MemoryInv, Mirrors
  <2>4. \A i \in 1..n : Closed(r)[i].age > Day
    BY <1>17, <2>2, <2>3
  <2>5. ASSUME NEW i \in 1..k
        PROVE  Closed(r)[n + i].age = launches'[i].age
               /\ Closed(r)[n + i].outcome = launches'[i].outcome
    <3>1. CASE i = k
      <4>1. n + i = m /\ m \in 1..m /\ n + i \in 1..m
        BY <1>3, <2>2, <3>1
      <4>2. attempts[m].age = launches[k].age
        BY <2>3, <2>5, <3>1, <4>1
      <4> QED  BY <1>8, <1>11, <1>15, <1>17, <3>1, <4>1, <4>2
    <3>2. CASE i # k
      <4>1. n + i \in 1..m /\ n + i # m
        BY <2>2, <3>2
      <4> QED  BY <1>6, <1>11, <1>17, <2>3, <3>2, <4>1
    <3> QED  BY <3>1, <3>2
  <2>6. Len(Closed(r)) - Len(launches') = n
    BY <1>11, <1>17, <2>1
  <2> QED  BY <1>11, <2>4, <2>5, <2>6 DEF Mirrors
<1> QED  BY <1>1, <1>11, <1>13, <1>14, <1>17, <1>18, <1>19

\* The caller rests or asks again.
LEMMA RunOver ==
    ASSUME LoginInv, NEW c \in Callers, Running(c), calls' = [calls EXCEPT ![c] = AfterCall(c)]
    PROVE  calls' \in [Callers -> CallStates] /\ \A d \in Callers : ~Running(d)'
<1>1. PICK x \in {"idle", "asking"} : calls' = [calls EXCEPT ![c] = x]
  BY DEF AfterCall
<1>2. /\ calls' \in [Callers -> CallStates] /\ calls'[c] = x
      /\ \A d \in Callers : d # c => calls'[d] = calls[d]
  BY <1>1, CallMoves DEF LoginInv, CallStates
<1>3. \A d \in Callers : Running(d) => d = c
  BY RunIsLast
<1> QED  BY <1>2, <1>3 DEF Running

\* How a sidecar's end leaves the throttle.
SidecarEnded(c, r) ==
    /\ Running(c)
    /\ attempts' \in {Closed(r), Purged(Closed(r))}
    /\ streak' = IF r = "success" THEN 0 ELSE CountStreak(streak)
    /\ pending' = 0
    /\ shown' \in ShownStates \ {"running"}
    /\ calls' = [calls EXCEPT ![c] = AfterCall(c)]
    /\ launches' = Ended(c, r)
    /\ manual' \in BOOLEAN

LEMMA SidecarsEnd ==
    ASSUME LoginInv, NEW c \in Callers,
           SidecarSucceeds(c) \/ SidecarFails(c) \/ SidecarMeetsTwoFactor(c)
    PROVE  \E r \in {"success", "failure"} : SidecarEnded(c, r)
<1>1. Running(c)
  BY DEF SidecarSucceeds, SidecarFails, SidecarMeetsTwoFactor
<1>2. pending \in DOMAIN attempts
  BY <1>1, RunIsLast
<1>3. manual \in BOOLEAN
  BY DEF LoginInv, RunsInv
<1>4. CASE SidecarSucceeds(c)
  <2>1. SidecarEnded(c, "success")
    BY <1>1, <1>2, <1>3, <1>4, StatesShown DEF SidecarSucceeds, SidecarEnded
  <2> QED  BY <2>1
<1>5. CASE SidecarFails(c)
  <2>1. SidecarEnded(c, "failure")
    BY <1>1, <1>2, <1>3, <1>5, StatesShown DEF SidecarFails, SidecarEnded
  <2> QED  BY <2>1
<1>6. CASE SidecarMeetsTwoFactor(c)
  <2>1. SidecarEnded(c, "failure")
    BY <1>1, <1>2, <1>6 DEF SidecarMeetsTwoFactor, SidecarEnded, ShownStates
  <2> QED  BY <2>1
<1> QED  BY <1>4, <1>5, <1>6

\* The last attempt is still young then.
LEMMA EndedIsYoung ==
    ASSUME LoginInv, NEW c \in Callers, NEW r \in {"success", "failure"}, SidecarEnded(c, r)
    PROVE  /\ MemoryInv' /\ attempts' # <<>> /\ attempts'[Len(attempts')].age <= timeout_s
<1>1. /\ launches' \in Seq(Launches) /\ Len(launches') = Len(launches)
      /\ launches'[Len(launches)].age <= timeout_s
      /\ Closed(r) \in Seq(Attempts) /\ Mirrors(Closed(r), launches') /\ AgesFall(launches')
  BY EndsLast DEF SidecarEnded
<1>2. Len(launches) \in 1..Len(launches)
  BY RunIsLast DEF SidecarEnded
<1>3. attempts' \in Seq(Attempts) /\ Mirrors(attempts', launches')
  <2>1. CASE attempts' = Closed(r)
    BY <1>1, <2>1
  <2>2. CASE attempts' = Purged(Closed(r))
    <3>1. PICK list, ls : list = Closed(r) /\ ls = launches'
      OBVIOUS
    <3>2. list \in Seq(Attempts) /\ ls \in Seq(Launches) /\ Mirrors(list, ls) /\ AgesFall(ls)
      BY <1>1, <3>1
    <3>3. Purged(list) \in Seq(Attempts) /\ Mirrors(Purged(list), ls)
      BY <3>2, PurgeMirrors
    <3> QED  BY <2>2, <3>1, <3>3
  <2> QED  BY <2>1, <2>2 DEF SidecarEnded
<1>4. MemoryInv'
  BY <1>1, <1>3 DEF MemoryInv
<1>5. PICK k \in Nat, m \in Nat : k = Len(launches') /\ m = Len(attempts')
  BY <1>1, <1>3
<1>6. /\ (m - k) + k = m /\ k \in 1..k /\ m - k \in Nat /\ m # 0
      /\ attempts'[(m - k) + k].age = launches'[k].age
  <2>1. k \in 1..k
    BY <1>1, <1>2, <1>5
  <2>2. PICK n \in Nat : n = m - k
    BY <1>3, <1>5 DEF Mirrors
  <2>3. n + k = m /\ m # 0
    BY <2>1, <2>2
  <2>4. attempts'[n + k].age = launches'[k].age
    BY <1>3, <1>5, <2>1, <2>2 DEF Mirrors
  <2> QED  BY <2>1, <2>2, <2>3, <2>4
<1> QED  BY <1>1, <1>3, <1>4, <1>5, <1>6

LEMMA LoginEnded ==
    ASSUME LoginInv, NEW c \in Callers, NEW r \in {"success", "failure"}, SidecarEnded(c, r)
    PROVE  LoginInv'
<1>1. MemoryInv'
  BY EndedIsYoung
<1>2. RunsInv'
  <2>1. calls' \in [Callers -> CallStates] /\ \A d \in Callers : ~Running(d)'
    BY RunOver DEF SidecarEnded
  <2>2. pending' = 0 /\ shown' \in ShownStates /\ shown' # "running" /\ manual' \in BOOLEAN
    BY DEF SidecarEnded
  <2> QED  BY <2>1, <2>2 DEF RunsInv, OneSidecarAtATime, CallStates
<1>3. StreakInv'
  <2>1. PICK k \in Nat, n \in 0..Len(backoff) : k = Len(launches) /\ n = streak
    BY DEF LoginInv, MemoryInv, StreakInv
  <2>2. /\ Len(launches') = k /\ launches'[k].outcome = r
        /\ \A i \in 1..EndedLaunches : launches'[i] = launches[i]
    BY <2>1, EndsLast DEF SidecarEnded
  <2>3. EndedLaunches = k - 1 /\ k \in 1..k
    BY <2>1, RunIsLast DEF SidecarEnded
  <2>4. pending' = 0 /\ EndedLaunches' = k
    BY <2>2 DEF SidecarEnded, EndedLaunches
  <2>5. n \in 0..Len(backoff) /\ Len(backoff) \in Nat \ {0}
    BY <2>1, Lengths DEF LoginInv, StreakInv
  <2>6. \A i \in 1..k : i = k \/ i \in 1..(k - 1)
    OBVIOUS
  <2>7. \A i \in 1..k : launches'[i].outcome # "open"
    BY <2>2, <2>3, <2>6 DEF LoginInv, StreakInv
  <2>8. CASE r = "success"
    <3>1. streak' = 0
      BY <2>8 DEF SidecarEnded
    <3>2. \A i \in 1..k : k \in i..k /\ launches'[k].outcome # "failure"
      BY <2>2, <2>8
    <3> QED  BY <2>4, <2>5, <2>7, <3>1, <3>2 DEF StreakInv
  <2>9. CASE r = "failure"
    <3>1. streak' = IF n < Len(backoff) THEN n + 1 ELSE n
      BY <2>1, <2>9 DEF SidecarEnded, CountStreak
    <3>2. streak' \in 0..Len(backoff)
      BY <2>5, <3>1
    <3>3. ASSUME NEW i \in 1..k, \A j \in i..k : launches'[j].outcome = "failure"
          PROVE  streak' = Len(backoff) \/ streak' >= k - i + 1
      <4>1. CASE i = k
        BY <2>5, <3>1, <4>1
      <4>2. CASE i \in 1..(k - 1)
        <5>1. \A j \in i..(k - 1) : j \in i..k /\ j \in 1..(k - 1)
          BY <4>2
        <5>2. \A j \in i..(k - 1) : launches[j].outcome = "failure"
          BY <2>2, <2>3, <3>3, <5>1
        <5>3. n = Len(backoff) \/ n >= (k - 1) - i + 1
          BY <2>1, <2>3, <4>2, <5>2 DEF LoginInv, StreakInv
        <5> QED  BY <2>1, <2>5, <3>1, <4>2, <5>3
      <4> QED  BY <2>6, <4>1, <4>2
    <3> QED  BY <2>4, <2>7, <3>2, <3>3 DEF StreakInv
  <2> QED  BY <2>8, <2>9
<1> QED  BY <1>1, <1>2, <1>3 DEF LoginInv

-----------------------------------------------------------------------------
\* A unit passes: what expires leaves the front of the launches, and stays behind in front
\* of the attempts.
LEMMA MemoryAges ==
    ASSUME LoginInv, TimePasses, NEW k, k = Len(launches), NEW n, n = Expired(Older(launches))
    PROVE  /\ MemoryInv'
           /\ k \in Nat /\ n \in 0..k /\ Len(launches') = k - n /\ Len(attempts') = Len(attempts)
           /\ \A i \in 1..(k - n) : /\ n + i \in 1..k
                                    /\ launches'[i].age = AgeAfter(launches[n + i].age)
                                    /\ launches'[i].outcome = launches[n + i].outcome
                                    /\ launches'[i].by = launches[n + i].by
           /\ n = k /\ k # 0 => AgeAfter(launches[k].age) > Day
<1>1. launches \in Seq(Launches) /\ attempts \in Seq(Attempts) /\ k \in Nat
      /\ Mirrors(attempts, launches) /\ AgesFall(launches)
  BY DEF LoginInv, MemoryInv
<1>2. PICK m \in Nat : m = Len(attempts)
  BY <1>1
<1>3. PICK young : young = Older(launches)
  OBVIOUS
<1>4. /\ young \in Seq(Launches) /\ Len(young) = k
      /\ \A i \in 1..k : /\ young[i].age = AgeAfter(launches[i].age)
                         /\ young[i].outcome = launches[i].outcome
                         /\ young[i].by = launches[i].by
  BY <1>1, <1>3, OlderLaunches
<1>5. /\ attempts' \in Seq(Attempts) /\ Len(attempts') = m
      /\ \A i \in 1..m : /\ attempts'[i].age = AgeAfter(attempts[i].age)
                         /\ attempts'[i].outcome = attempts[i].outcome
  BY <1>1, <1>2, OlderAttempts DEF TimePasses
<1>6. launches' = Purged(young)
  BY <1>3 DEF TimePasses
<1>7. \A i \in 1..Len(young) : young[i].age \in Int
  BY <1>4, AgesAreNumbers
<1>8. ExpiredAre(young, n)
  BY <1>3, <1>4, <1>7, ExpiredIs
<1>9. launches' \in Seq(Launches)
  BY <1>4, <1>6, <1>7, <1>8, PurgeDrops
<1>10. Len(launches') = Len(young) - n
  BY <1>4, <1>6, <1>7, <1>8, PurgeDrops
<1>11. \A i \in 1..(Len(young) - n) : launches'[i] = young[n + i]
  BY <1>4, <1>6, <1>7, <1>8, PurgeDrops
<1>12. n \in 0..k /\ n \in Int /\ \A i \in 1..(k - n) : n + i \in 1..k
  BY <1>1, <1>4, <1>8 DEF ExpiredAre
<1>13. \A i \in 1..(k - n) : launches'[i] = young[n + i]
  BY <1>4, <1>11
<1>14. \A i \in 1..n : i \in 1..k /\ young[i].age > Day
  BY <1>4, <1>8, <1>12 DEF ExpiredAre
<1>15. \A i \in 1..k : launches[i].age \in 0..Forever /\ launches[i] \in Launches
  BY <1>1, AgesAreNumbers
<1>16. AgesFall(launches')
  <2>1. ASSUME NEW i \in 1..(k - n), NEW j \in 1..(k - n), i <= j
        PROVE  launches'[j].age <= launches'[i].age
    <3>1. n + i \in 1..k /\ n + j \in 1..k /\ n + i <= n + j
      BY <1>12, <2>1
    <3>2. launches[n + j].age <= launches[n + i].age
      BY <1>1, <3>1 DEF AgesFall
    <3>3. AgeAfter(launches[n + j].age) <= AgeAfter(launches[n + i].age)
      BY <1>15, <3>1, <3>2, AgesGrow
    <3> QED  BY <1>4, <1>13, <3>1, <3>3
  <2>2. ASSUME NEW i \in 1..(k - n)  PROVE launches'[i].age <= Day
    <3>1. n < k /\ 1 \in 1..(k - n) /\ 1 <= i
      BY <1>12, <2>2
    <3>2. launches'[1].age <= Day
      BY <1>4, <1>8, <1>13, <3>1 DEF ExpiredAre
    <3>3. launches'[i].age <= launches'[1].age
      BY <2>1, <3>1
    <3>4. launches'[i].age \in Int /\ launches'[1].age \in Int /\ Day \in Int
      <4>1. n + i \in 1..k /\ n + 1 \in 1..k
        BY <1>12, <2>2, <3>1
      <4>2. young[n + i].age \in Int /\ young[n + 1].age \in Int
        BY <1>4, <1>7, <4>1
      <4> QED  BY <1>13, <2>2, <3>1, <4>2, Lengths
    <3> QED  BY <3>2, <3>3, <3>4
  <2>3. Len(launches') = k - n
    BY <1>4, <1>10
  <2> QED  BY <2>1, <2>2, <2>3 DEF AgesFall
<1>17. Mirrors(attempts', launches')
  <2>1. PICK d \in Nat : d = m - k
    BY <1>1, <1>2 DEF Mirrors
  <2>2. /\ \A i \in 1..d : attempts[i].age > Day
        /\ \A i \in 1..k : attempts[d + i].age = launches[i].age
                           /\ attempts[d + i].outcome = launches[i].outcome
    BY <1>1, <1>2, <2>1 DEF Mirrors
  <2>3. PICK e \in Nat : e = d + n /\ Len(attempts') - Len(launches') = e
    <3>1. m - (k - n) = d + n /\ d + n \in Nat
      <4>1. k \in Int /\ m \in Int /\ n \in Nat /\ d \in Nat /\ d = m - k
        BY <1>1, <1>12, <2>1
      <4> QED  BY <4>1
    <3> QED  BY <1>4, <1>5, <1>10, <3>1
  <2>4. /\ \A i \in 1..k : d + i \in 1..m /\ d + i \in Int
        /\ \A i \in 1..d : i \in 1..m
        /\ \A i \in 1..e : i \in 1..d \/ (i - d \in 1..n /\ d + (i - d) = i)
        /\ \A i \in 1..(k - n) : e + i = d + (n + i)
    <3>1. k \in Nat /\ m \in Nat /\ n \in 0..k /\ d \in Nat /\ d = m - k /\ e = d + n
      BY <1>1, <1>12, <2>1, <2>3
    <3>2. \A i \in 1..k : d + i \in 1..m /\ d + i \in Int
      BY <3>1
    <3>3. \A i \in 1..d : i \in 1..m
      BY <3>1
    <3>4. \A i \in 1..e : i \in 1..d \/ (i - d \in 1..n /\ d + (i - d) = i)
      BY <3>1
    <3>5. \A i \in 1..(k - n) : e + i = d + (n + i)
      BY <3>1
    <3> QED  BY <3>2, <3>3, <3>4, <3>5
  <2>5. ASSUME NEW i \in 1..e  PROVE attempts'[i].age > Day
    <3>1. CASE i \in 1..d
      <4>1. attempts[i].age > Day /\ attempts[i] \in Attempts /\ i \in 1..m
        BY <1>1, <1>2, <2>2, <2>4, <3>1
      <4>2. attempts[i].age \in Int /\ attempts[i].age \in 0..Forever
        BY <4>1, AgesAreNumbers
      <4>3. attempts[i].age <= AgeAfter(attempts[i].age) /\ AgeAfter(attempts[i].age) \in Int
        BY <4>2, AgesGrow, Lengths
      <4> QED  BY <1>5, <4>1, <4>2, <4>3, Lengths
    <3>2. CASE i - d \in 1..n /\ d + (i - d) = i
      <4>1. PICK j \in 1..n : j = i - d /\ d + j = i
        BY <3>2
      <4>2. j \in 1..k /\ young[j].age > Day /\ d + j \in 1..m
        BY <1>14, <2>4
      <4>3. attempts'[d + j].age = AgeAfter(launches[j].age)
        BY <1>5, <2>2, <4>2
      <4> QED  BY <1>4, <4>1, <4>2, <4>3
    <3> QED  BY <2>4, <3>1, <3>2
  <2>6. ASSUME NEW i \in 1..(k - n)
        PROVE  attempts'[e + i].age = launches'[i].age
               /\ attempts'[e + i].outcome = launches'[i].outcome
    <3>1. PICK j \in 1..k : j = n + i /\ e + i = d + j
      BY <1>12, <2>4
    <3>2. d + j \in 1..m
      BY <2>4
    <3>3. attempts'[d + j].age = AgeAfter(launches[j].age)
          /\ attempts'[d + j].outcome = launches[j].outcome
      BY <1>5, <2>2, <3>2
    <3> QED  BY <1>4, <1>13, <3>1, <3>3
  <2> QED  BY <1>4, <1>10, <2>3, <2>5, <2>6 DEF Mirrors
<1>18. MemoryInv'
  BY <1>5, <1>9, <1>16, <1>17 DEF MemoryInv
<1>19. n = k /\ k # 0 => AgeAfter(launches[k].age) > Day
  <2> SUFFICES ASSUME n = k, k # 0 PROVE AgeAfter(launches[k].age) > Day
    OBVIOUS
  <2>1. k \in 1..n
    BY <1>1
  <2> QED  BY <1>4, <1>14, <2>1
<1> QED  BY <1>1, <1>2, <1>4, <1>5, <1>10, <1>12, <1>13, <1>18, <1>19

LEMMA LoginAges ==
    ASSUME LoginInv, TimePasses
    PROVE  LoginInv'
<1>1. PICK k, n : k = Len(launches) /\ n = Expired(Older(launches))
  OBVIOUS
<1>2. /\ MemoryInv'
      /\ k \in Nat /\ n \in 0..k /\ Len(launches') = k - n /\ Len(attempts') = Len(attempts)
      /\ \A i \in 1..(k - n) : /\ n + i \in 1..k
                               /\ launches'[i].age = AgeAfter(launches[n + i].age)
                               /\ launches'[i].outcome = launches[n + i].outcome
                               /\ launches'[i].by = launches[n + i].by
      /\ n = k /\ k # 0 => AgeAfter(launches[k].age) > Day
  BY <1>1, MemoryAges
<1>3. UNCHANGED <<pending, streak, manual, shown, calls>>
  BY DEF TimePasses
<1>4. OneSidecarAtATime' /\ \A c \in Callers : Running(c)' <=> Running(c)
  BY <1>3 DEF Running, LoginInv, RunsInv, OneSidecarAtATime
<1>5. ASSUME pending # 0
      PROVE  /\ n < k /\ n + (k - n) = k /\ k - n \in 1..(k - n)
             /\ launches'[k - n].outcome = "open" /\ launches'[k - n].age <= timeout_s
             /\ launches'[k - n].by = launches[k].by
             /\ launches[k].by \in Callers /\ Running(launches[k].by)
  <2>1. /\ pending = Len(attempts) /\ launches # <<>> /\ launches[k].outcome = "open"
        /\ launches \in Seq(Launches) /\ Running(launches[k].by)
    BY <1>1, <1>5 DEF LoginInv, RunsInv, MemoryInv
  <2>2. k \in 1..k /\ k # 0 /\ k \in DOMAIN launches
    BY <1>1, <1>2, <2>1
  <2>3. launches[k].age < timeout_s
    BY <2>1, <2>2 DEF TimePasses
  <2>4. launches[k].age \in Int /\ launches[k].age \in 0..Forever /\ launches[k].by \in Callers
    BY <1>1, <2>1, <2>2, AgesAreNumbers
  <2>5. AgeAfter(launches[k].age) <= timeout_s /\ AgeAfter(launches[k].age) \in Int
    <3>1. PICK x \in 0..Forever : x = launches[k].age /\ x < timeout_s /\ x \in Int
      BY <2>3, <2>4
    <3>2. AgeAfter(x) \in Int /\ AgeAfter(x) <= x + 1
      BY AgesGrow
    <3>3. x + 1 <= timeout_s
      BY <3>1, Lengths
    <3> QED  BY <3>1, <3>2, <3>3, Lengths
  <2>6. n # k
    BY <1>2, <2>2, <2>5, Lengths
  <2>7. n < k /\ n + (k - n) = k /\ k - n \in 1..(k - n)
    BY <1>2, <2>6
  <2> QED  BY <1>2, <2>1, <2>4, <2>5, <2>7
<1>6. RunsInv'
  <2>1. calls' \in [Callers -> CallStates] /\ manual' \in BOOLEAN /\ shown' \in ShownStates
    BY <1>3 DEF LoginInv, RunsInv, CallStates
  <2>2. pending' = 0 => ~\E c \in Callers : Running(c)'
    BY <1>3, <1>4 DEF LoginInv, RunsInv
  <2>3. ASSUME pending' # 0
        PROVE  /\ pending' = Len(attempts') /\ launches' # <<>>
               /\ Running(launches[Len(launches)].by)'
               /\ launches'[Len(launches')].outcome = "open"
               /\ launches'[Len(launches')].age <= timeout_s
    <3>1. pending # 0 /\ pending' = Len(attempts')
      BY <1>2, <1>3, <2>3 DEF LoginInv, RunsInv
    <3>2. launches' # <<>>
      BY <1>2, <1>5, <3>1
    <3>3. launches'[Len(launches')].by = launches[k].by
      BY <1>2, <1>5, <3>1
    <3>4. Running(launches[Len(launches)].by)'
      BY <1>3, <1>5, <3>1, <3>3 DEF Running
    <3> QED  BY <1>2, <1>5, <3>1, <3>2, <3>4
  <2> QED  BY <1>4, <2>1, <2>2, <2>3 DEF RunsInv, CallStates
<1>7. StreakInv'
  <2>1. PICK f : f = EndedLaunches
    OBVIOUS
  <2>2. f \in Int /\ f <= k /\ (f = k \/ (f = k - 1 /\ n < k))
    BY <1>1, <1>2, <1>5, <2>1 DEF EndedLaunches
  <2>3. EndedLaunches' = f - n
    <3>1. (k - n) - 1 = (k - 1) - n
      BY <1>2
    <3> QED  BY <1>1, <1>2, <1>3, <2>1, <3>1 DEF EndedLaunches
  <2>4. ASSUME NEW i \in 1..(f - n)  PROVE i \in 1..(k - n) /\ n + i \in 1..f
    BY <1>2, <2>2, <2>4
  <2>5. \A i \in 1..(f - n) : launches'[i].outcome # "open"
    BY <1>2, <2>1, <2>4 DEF LoginInv, StreakInv
  <2>6. ASSUME NEW i \in 1..(f - n), \A j \in i..(f - n) : launches'[j].outcome = "failure"
        PROVE  streak' = Len(backoff) \/ streak' >= (f - n) - i + 1
    <3>1. ASSUME NEW j \in (n + i)..f  PROVE launches[j].outcome = "failure"
      <4>1. PICK h \in i..(f - n) : n + h = j
        <5>1. j - n \in i..(f - n) /\ n + (j - n) = j
          BY <1>2, <2>2, <2>6, <3>1
        <5> QED  BY <5>1
      <4>2. h \in 1..(f - n)
        BY <2>6, <4>1
      <4> QED  BY <1>2, <2>4, <2>6, <4>1, <4>2
    <3>2. streak = Len(backoff) \/ streak >= f - (n + i) + 1
      BY <2>1, <2>4, <2>6, <3>1 DEF LoginInv, StreakInv
    <3>3. f - (n + i) + 1 = (f - n) - i + 1
      BY <1>2, <2>2, <2>6
    <3> QED  BY <1>3, <3>2, <3>3
  <2> QED  BY <1>3, <2>3, <2>5, <2>6 DEF LoginInv, StreakInv
<1> QED  BY <1>2, <1>6, <1>7 DEF LoginInv

LEMMA LoginStarts == LoginInit => LoginInv
<1> SUFFICES ASSUME LoginInit PROVE LoginInv
  OBVIOUS
<1>1. /\ attempts = <<>> /\ pending = 0 /\ streak = 0 /\ manual = FALSE /\ shown = "ready"
      /\ calls = [c \in Callers |-> "idle"] /\ launches = <<>>
  BY DEF LoginInit
<1>2. Len(launches) = 0 /\ Len(attempts) = 0 /\ 0 - 0 = 0
  BY <1>1
<1>3. MemoryInv
  <2>1. attempts \in Seq(Attempts) /\ launches \in Seq(Launches)
    BY <1>1
  <2>2. Mirrors(attempts, launches) /\ AgesFall(launches)
    BY <1>2 DEF Mirrors, AgesFall
  <2> QED  BY <2>1, <2>2 DEF MemoryInv
<1>4. \A c \in Callers : ~Running(c)
  BY <1>1 DEF Running
<1>5. RunsInv
  BY <1>1, <1>4 DEF RunsInv, OneSidecarAtATime, ShownStates
<1>6. StreakInv
  <2>1. EndedLaunches = 0
    BY <1>1, <1>2 DEF EndedLaunches
  <2> QED  BY <1>1, <2>1, Lengths DEF StreakInv
<1> QED  BY <1>3, <1>5, <1>6 DEF LoginInv

LEMMA LoginStepKeeps == LoginInv /\ [LoginNext]_loginVars => LoginInv'
<1> SUFFICES ASSUME LoginInv, [LoginNext]_loginVars PROVE LoginInv'
  OBVIOUS
<1>1. CASE UNCHANGED loginVars
  <2>1. UNCHANGED <<attempts, pending, streak, manual, shown, calls, launches>>
    BY <1>1 DEF loginVars
  <2>2. MemoryInv' /\ StreakInv'
    BY <2>1 DEF LoginInv, MemoryInv, StreakInv, EndedLaunches
  <2>3. OneSidecarAtATime' /\ \A c : Running(c)' <=> Running(c)
    BY <2>1 DEF Running, LoginInv, RunsInv, OneSidecarAtATime
  <2>4. RunsInv'
    BY <2>1, <2>3 DEF LoginInv, RunsInv
  <2> QED  BY <2>2, <2>4 DEF LoginInv
<1>2. CASE TimePasses
  BY <1>2, LoginAges
<1>3. ASSUME NEW c \in Callers, LoginStep(c)  PROVE LoginInv'
  <2>1. CASE LoginCalled(c) \/ \E s \in AuthStatuses : Skipped(c, s)
    BY <2>1, LoginCalls
  <2>2. CASE \E s \in AuthStatuses : Declined(c, s)
    BY <2>2, LoginDeclined
  <2>3. CASE \E s \in AuthStatuses : Launched(c, s)
    BY <2>3, LoginLaunched
  <2>4. CASE SidecarSucceeds(c) \/ SidecarFails(c) \/ SidecarMeetsTwoFactor(c)
    <3>1. PICK r \in {"success", "failure"} : SidecarEnded(c, r)
      BY <2>4, SidecarsEnd
    <3> QED  BY <3>1, LoginEnded
  <2> QED  BY <1>3, <2>1, <2>2, <2>3, <2>4 DEF LoginStep
<1> QED  BY <1>1, <1>2, <1>3 DEF LoginNext

LEMMA LoginInductive == LoginSpec => []LoginInv
BY LoginStarts, LoginStepKeeps, PTL DEF LoginSpec

LEMMA LoginTypes == LoginInv => LoginTypeOK
<1> SUFFICES ASSUME LoginInv PROVE LoginTypeOK
  OBVIOUS
<1>1. attempts \in Seq(Attempts) /\ launches \in Seq(Launches)
  BY DEF LoginInv, MemoryInv
<1>2. pending = 0 \/ pending = Len(attempts)
  BY DEF LoginInv, RunsInv
<1>3. pending \in 0..Len(attempts)
  BY <1>1, <1>2
<1> QED  BY <1>1, <1>3 DEF LoginTypeOK, LoginInv, RunsInv, StreakInv, Attempts, Launches

\* A step that ends the first run of a tick leaves no slot for its second call.
LEMMA TickIsDeclined ==
    ASSUME LoginInv, [LoginNext]_loginVars, NEW c \in Callers,
           calls[c] = "running_then_again", calls'[c] = "asking"
    PROVE  ThrottleState(attempts', streak') # "ready"
<1>1. LoginInv'
  BY LoginStepKeeps
<1>2. Running(c) /\ calls' # calls
  BY DEF Running
<1>3. PICK d \in Callers : LoginStep(d)
  BY <1>2 DEF LoginNext, loginVars, TimePasses
<1>4. CASE SidecarSucceeds(d) \/ SidecarFails(d) \/ SidecarMeetsTwoFactor(d)
  <2>1. PICK r \in {"success", "failure"} : SidecarEnded(d, r)
    BY <1>4, SidecarsEnd
  <2>2. MemoryInv' /\ attempts' # <<>> /\ attempts'[Len(attempts')].age <= timeout_s
    BY <2>1, EndedIsYoung
  <2>3. attempts' \in Seq(Attempts) /\ streak' \in 0..Len(backoff)
    BY <1>1, <2>2 DEF LoginInv, MemoryInv, StreakInv
  <2>4. PICK list, fails : list = attempts' /\ fails = streak'
    OBVIOUS
  <2>5. ThrottleState(list, fails) # "ready"
    BY <2>2, <2>3, <2>4, YoungIsNotReady
  <2> QED  BY <2>4, <2>5
<1>5. CASE \/ LoginCalled(d)
           \/ \E s \in AuthStatuses : Skipped(d, s) \/ Declined(d, s) \/ Launched(d, s)
  <2>1. calls[d] \in {"idle", "asking", "asking_twice"}
    BY <1>5 DEF LoginCalled, Skipped, Declined, Launched, Asking
  <2>2. d # c
    BY <2>1
  <2>3. PICK x : calls' = [calls EXCEPT ![d] = x]
    BY <1>5 DEF LoginCalled, Skipped, Declined, Launched
  <2>4. calls'[c] = calls[c]
    BY <2>2, <2>3 DEF LoginInv, RunsInv
  <2> QED  BY <2>4
<1> QED  BY <1>3, <1>4, <1>5 DEF LoginStep

-----------------------------------------------------------------------------
\* Each level of the backoff is as long as the one before it, or longer.
BackoffRises == \A i, j \in 1..Len(backoff) : i <= j => backoff[i] <= backoff[j]

\* Failures in a row are the last ones.
LEMMA RowOfFailures ==
    ASSUME LoginInv, pending = 0, NEW k, k = Len(launches), k # 0
    PROVE  \/ FailuresInARow = 0 /\ launches[k].outcome # "failure"
           \/ /\ FailuresInARow \in 1..k /\ launches[k].outcome = "failure"
              /\ streak = Len(backoff) \/ streak >= FailuresInARow
<1>1. launches \in Seq(Launches) /\ k \in Nat /\ DOMAIN launches = 1..k /\ k \in 1..k
  BY DEF LoginInv, MemoryInv
<1> DEFINE F == {i \in 1..k : \A j \in i..k : launches[j].outcome = "failure"}
<1>2. FailuresInARow = Cardinality(F)
  BY <1>1 DEF FailuresInARow
<1>3. CASE launches[k].outcome # "failure"
  <2>1. \A i \in 1..k : k \in i..k
    BY <1>1
  <2>2. F = {}
    BY <1>3, <2>1
  <2> QED  BY <1>2, <1>3, <2>2, FS_EmptySet
<1>4. CASE launches[k].outcome = "failure"
  <2>1. k \in F
    BY <1>1, <1>4
  <2>2. F \in SUBSET Nat
    BY <1>1
  <2>3. PICK f \in F : \A i \in F : f <= i
    BY <2>1, <2>2, LeastOfThem
  <2>4. f \in 1..k /\ f \in Int /\ \A j \in f..k : launches[j].outcome = "failure"
    BY <2>3
  <2>5. F = f..k
    <3>1. ASSUME NEW i \in F  PROVE i \in f..k
      BY <2>3, <2>4, <3>1
    <3>2. ASSUME NEW i \in f..k  PROVE i \in F
      <4>1. i \in 1..k /\ \A j \in i..k : j \in f..k
        BY <2>4, <3>2
      <4> QED  BY <2>4, <4>1
    <3> QED  BY <3>1, <3>2
  <2>6. Cardinality(f..k) = k - f + 1
    <3>1. f \in Int /\ k \in Int /\ ~(f > k)
      BY <1>1, <2>4
    <3> QED  BY <3>1, FS_Interval
  <2>7. FailuresInARow = k - f + 1 /\ k - f + 1 \in 1..k
    <3>1. FailuresInARow = Cardinality(f..k)
      BY <1>2, <2>5
    <3>2. k - f + 1 \in 1..k /\ ~(f > k)
      BY <1>1, <2>4
    <3> QED  BY <2>6, <3>1, <3>2
  <2>8. EndedLaunches = k
    BY DEF EndedLaunches
  <2>9. streak = Len(backoff) \/ streak >= k - f + 1
    BY <2>4, <2>8 DEF LoginInv, StreakInv
  <2> QED  BY <1>4, <2>7, <2>9
<1> QED  BY <1>3, <1>4

\* What is granted is within the limits, and late enough.
WithinBudget ==
    /\ ~manual
    /\ Cardinality({i \in DOMAIN launches : launches[i].age <= Day}) < max_per_day
    /\ Cardinality(LastHour(launches)) < max_per_hour
    /\ launches # <<>> =>
         launches[Len(launches)].age >=
             LET n == FailuresInARow
             IN IF n = 0 THEN min_interval
                ELSE backoff[IF n < Len(backoff) THEN n ELSE Len(backoff)]

LEMMA GrantIsInBudget ==
    ASSUME BackoffRises, LoginInv, ~manual,
           ThrottleState(Purged(attempts), streak) = "ready"
    PROVE  WithinBudget
<1>1. PICK list, k : list = Purged(attempts) /\ k = Len(launches)
  OBVIOUS
<1>2. /\ list \in Seq(Attempts) /\ Len(list) = k /\ k \in Nat
      /\ launches \in Seq(Launches) /\ DOMAIN launches = 1..k /\ DOMAIN list = 1..k
      /\ \A i \in 1..k : list[i].age = launches[i].age /\ list[i].outcome = launches[i].outcome
      /\ \A i \in 1..k : launches[i].age <= Day
  BY <1>1, PurgeMirrors, SMTT(30) DEF LoginInv, MemoryInv, AgesFall
<1>3. pending = 0
  BY GrantedAlone
<1>4. /\ ~(k >= max_per_day)
      /\ ~(Cardinality(LastHour(list)) >= max_per_hour)
      /\ ~(list # <<>> /\ list[Len(list)].age < Cooldown(list[Len(list)], streak))
  BY <1>1, <1>2 DEF ThrottleState
<1>5. Cardinality({i \in DOMAIN launches : launches[i].age <= Day}) < max_per_day
  <2>1. {i \in DOMAIN launches : launches[i].age <= Day} = 1..k
    BY <1>2
  <2>2. Cardinality(1..k) = k
    <3>1. 1 \in Int /\ k \in Int /\ (1 > k => k = 0) /\ k - 1 + 1 = k
      BY <1>2
    <3> QED  BY <3>1, FS_Interval
  <2>3. k < max_per_day
    <3>1. k \in Int /\ max_per_day \in Int
      BY <1>2, LoginAssumption
    <3> QED  BY <1>4, <3>1
  <2> QED  BY <2>1, <2>2, <2>3
<1>6. Cardinality(LastHour(launches)) < max_per_hour
  <2>1. LastHour(list) = LastHour(launches)
    BY <1>2 DEF LastHour
  <2>2. LastHour(launches) \subseteq 1..k /\ IsFiniteSet(1..k)
    BY <1>2, FS_Interval DEF LastHour
  <2>3. Cardinality(LastHour(launches)) \in Nat /\ max_per_hour \in Nat
    BY <2>2, FS_Subset, FS_CardinalityType, LoginAssumption
  <2> QED  BY <1>4, <2>1, <2>3
<1>7. ASSUME launches # <<>>
      PROVE  launches[k].age >= IF FailuresInARow = 0 THEN min_interval
             ELSE backoff[IF FailuresInARow < Len(backoff) THEN FailuresInARow ELSE Len(backoff)]
  <2>1. k # 0 /\ k \in 1..k /\ list # <<>>
    BY <1>1, <1>2, <1>7
  <2>2. PICK age, n : age \in Int /\ age = launches[k].age /\ n = FailuresInARow
    BY <1>2, <2>1, AgesAreNumbers
  <2>3. Cooldown(list[k], streak) = IF launches[k].outcome # "failure" THEN min_interval
                                    ELSE backoff[IF streak = 0 THEN 1 ELSE streak]
    BY <1>2, <2>1 DEF Cooldown
  <2>4. streak \in 0..Len(backoff) /\ Len(backoff) \in Nat \ {0}
    BY Lengths DEF LoginInv, StreakInv
  <2>5. ~(age < Cooldown(list[k], streak))
    BY <1>2, <1>4, <2>1, <2>2
  <2>6. CASE n = 0 /\ launches[k].outcome # "failure"
    BY <2>2, <2>3, <2>5, <2>6, Lengths
  <2>7. CASE /\ n \in 1..k /\ launches[k].outcome = "failure"
             /\ streak = Len(backoff) \/ streak >= n
    <3>1. PICK level \in 1..Len(backoff) :
             level = IF n < Len(backoff) THEN n ELSE Len(backoff)
      BY <1>2, <2>4, <2>7
    <3>2. streak # 0 /\ streak \in 1..Len(backoff) /\ level <= streak
      BY <1>2, <2>4, <2>7, <3>1
    <3>3. backoff[level] <= backoff[streak] /\ backoff[level] \in Int /\ backoff[streak] \in Int
      BY <3>2, Lengths DEF BackoffRises
    <3>4. ~(age < backoff[streak])
      BY <2>3, <2>5, <2>7, <3>2
    <3>5. age >= backoff[level]
      BY <2>2, <3>3, <3>4
    <3> QED  BY <1>2, <2>2, <2>7, <3>1, <3>5
  <2> QED  BY <1>1, <1>3, <2>1, <2>2, <2>6, <2>7, RowOfFailures
<1> QED  BY <1>1, <1>5, <1>6, <1>7 DEF WithinBudget

LEMMA LaunchIsInBudget ==
    ASSUME BackoffRises, LoginInv, [LoginNext]_loginVars, Len(launches') > Len(launches)
    PROVE  WithinBudget
<1>1. PICK k \in Nat : k = Len(launches)
  BY DEF LoginInv, MemoryInv
<1>2. launches' # launches /\ Len(launches') # k
  BY <1>1
<1>3. ~TimePasses
  <2> SUFFICES ASSUME TimePasses PROVE FALSE
    OBVIOUS
  <2>1. PICK n : n = Expired(Older(launches))
    OBVIOUS
  <2>2. n \in 0..k /\ Len(launches') = k - n
    BY <1>1, <2>1, MemoryAges
  <2> QED  BY <1>1, <2>2
<1>4. PICK c \in Callers : LoginStep(c)
  BY <1>2, <1>3 DEF LoginNext, loginVars
<1>5. ~(SidecarSucceeds(c) \/ SidecarFails(c) \/ SidecarMeetsTwoFactor(c))
  <2> SUFFICES ASSUME SidecarSucceeds(c) \/ SidecarFails(c) \/ SidecarMeetsTwoFactor(c)
               PROVE FALSE
    OBVIOUS
  <2>1. PICK r \in {"success", "failure"} : SidecarEnded(c, r)
    BY SidecarsEnd
  <2>2. Len(launches') = k
    BY <1>1, <2>1, EndsLast DEF SidecarEnded
  <2> QED  BY <1>2, <2>2
<1>6. PICK s \in AuthStatuses : Launched(c, s)
  BY <1>2, <1>4, <1>5 DEF LoginStep, LoginCalled, Skipped, Declined
<1> QED  BY <1>6, GrantIsInBudget DEF Launched

-----------------------------------------------------------------------------
\* All variables of the auto-login stay in their types, for any callers, limits and
\* backoff (cp/auto_login_throttle.py).
THEOREM LoginTypeCorrect == LoginSpec => []LoginTypeOK
BY LoginInductive, LoginTypes, PTL

\* For any callers, limits and rising backoff: one sidecar runs at a time, one tick starts
\* one, and of all that really ran no more than the limits allow in any hour and any day,
\* none after 2FA was seen, and none before the backoff of the failures in a row is over
\* (cp/auto_login_throttle.py, cp/auto_login.py).
THEOREM LockoutIsAvoided ==
    ASSUME BackoffRises
    PROVE  LoginSpec => LockoutBudget
<1>1. LoginInv => OneSidecarAtATime
  BY DEF LoginInv, RunsInv
<1>2. LoginInv /\ [LoginNext]_loginVars
        => [\A c \in Callers : calls[c] = "running_then_again" /\ calls'[c] = "asking"
              => ThrottleState(attempts', streak') # "ready" \/ manual']_loginVars
  BY TickIsDeclined
<1>3. LoginInv /\ [LoginNext]_loginVars
        => [Len(launches') > Len(launches) =>
            /\ ~manual
            /\ Cardinality({i \in DOMAIN launches : launches[i].age <= Day}) < max_per_day
            /\ Cardinality(LastHour(launches)) < max_per_hour
            /\ launches # <<>> =>
                 launches[Len(launches)].age >=
                     LET n == FailuresInARow
                     IN IF n = 0 THEN min_interval
                        ELSE backoff[IF n < Len(backoff) THEN n ELSE Len(backoff)]
           ]_loginVars
  BY LaunchIsInBudget DEF WithinBudget
<1> QED  BY <1>1, <1>2, <1>3, LoginInductive, PTL
         DEF LoginSpec, LockoutBudget, OneLaunchPerTick
-----------------------------------------------------------------------------
(* Types of the keep-alive.                                                *)

\* A task goes to an await of its own.
LEMMA GotoTypes ==
  ASSUME SessionTypeOK, NEW t \in Tasks, NEW place \in Awaits, Goto(t, place)
  PROVE  at' \in [Tasks -> Awaits]
BY DEF SessionTypeOK, Goto

LEMMA AfterTickTypes ==
  ASSUME NEW t, NEW s
  PROVE  AfterTick(t, s) \in Awaits
BY DEF AfterTick, Awaits, ProbeAwaits

LEMMA ReturnTypes ==
  ASSUME SessionTypeOK, NEW t \in Tasks, NEW place \in Awaits, Return(t, place)
  PROVE  at' \in [Tasks -> Awaits] /\ serving' \in BOOLEAN
<1>1. Goto(t, place)
  BY DEF Return
<1>2. serving' \in BOOLEAN
  BY DEF Return
<1> QED  BY <1>1, <1>2, GotoTypes

LEMMA HookTypes ==
  ASSUME SessionTypeOK, NEW t \in Tasks, NEW s, AutoLoginHook(t, s)
  PROVE  at' \in [Tasks -> Awaits] /\ serving' \in BOOLEAN
<1>1. CASE Goto(t, "sidecar") /\ UNCHANGED serving
  <2>1. "sidecar" \in Awaits
    BY DEF Awaits
  <2> QED  BY <1>1, <2>1, GotoTypes DEF SessionTypeOK
<1>2. CASE Return(t, AfterTick(t, s))
  BY <1>2, AfterTickTypes, ReturnTypes
<1> QED  BY <1>1, <1>2 DEF AutoLoginHook

\* A failed attempt counts, and the count never passes its maximum.
LEMMA AttemptTypes ==
  ASSUME SessionTypeOK, NEW t \in Tasks, AttemptFails(t)
  PROVE  /\ at' \in [Tasks -> Awaits] /\ serving' \in BOOLEAN
         /\ attempt' \in [Tasks -> 0..reauth_max_retries]
         /\ authStatus' \in Statuses
<1>1. CASE attempt[t] < reauth_max_retries
  <2>1. Goto(t, "reauth") /\ authStatus' = authStatus /\ serving' = serving
    BY <1>1 DEF AttemptFails
  <2>2. "reauth" \in Awaits
    BY DEF Awaits, TickAwaits
  <2>3. attempt[t] + 1 \in 0..reauth_max_retries
    BY <1>1, SessionAssumption DEF SessionTypeOK
  <2>4. attempt' \in [Tasks -> 0..reauth_max_retries]
    BY <1>1, <2>3 DEF AttemptFails, SessionTypeOK
  <2> QED  BY <2>1, <2>2, <2>4, GotoTypes DEF SessionTypeOK
<1>2. CASE ~(attempt[t] < reauth_max_retries)
  <2>1. AutoLoginHook(t, "auth_lost") /\ authStatus' = "auth_lost"
    BY <1>2 DEF AttemptFails
  <2>2. attempt' \in [Tasks -> 0..reauth_max_retries]
    BY <1>2, SessionAssumption DEF AttemptFails, SessionTypeOK
  <2> QED  BY <2>1, <2>2, HookTypes DEF Statuses
<1> QED  BY <1>1, <1>2

LEMMA StartTypes ==
  SessionInit => SessionTypeOK
<1> SUFFICES ASSUME SessionInit PROVE SessionTypeOK
  OBVIOUS
<1>1. at \in [Tasks -> Awaits]
  BY DEF SessionInit, Awaits
<1>2. sso \in [Tasks -> BOOLEAN] /\ attempt \in [Tasks -> 0..reauth_max_retries]
  BY SessionAssumption DEF SessionInit
<1>3. bridgeFailures \in 0..bridge_max_failures
  BY SessionAssumption DEF SessionInit
<1> QED  BY <1>1, <1>2, <1>3 DEF SessionInit, SessionTypeOK, Statuses

\* The steps of the loop that a seed handler has no part in, and the environment's.
LEMMA LoopStepTypes ==
  ASSUME SessionTypeOK,
         LoopTicks \/ ProbeFallsDue \/ StopSession \/ GatewayChanges
  PROVE  SessionTypeOK'
<1>1. Loop \in Tasks
  BY DEF Tasks
<1>2. CASE LoopTicks
  <2>1. "validate" \in Awaits
    BY DEF Awaits, TickAwaits
  <2> QED  BY <1>1, <1>2, <2>1, GotoTypes DEF LoopTicks, SessionTypeOK, bridgeVars
<1>3. CASE ProbeFallsDue
  BY <1>3 DEF ProbeFallsDue, SessionTypeOK
<1>4. CASE StopSession
  <2>1. "stopped" \in Awaits
    BY DEF Awaits
  <2>2. sso' \in [Tasks -> BOOLEAN]
    BY <1>4 DEF StopSession, SessionTypeOK
  <2>3. attempt' \in [Tasks -> 0..reauth_max_retries]
    <3>1. attempt' = [attempt EXCEPT ![Loop] = 0] /\ 0 \in 0..reauth_max_retries
      BY <1>4, SessionAssumption DEF StopSession
    <3> QED  BY <3>1 DEF SessionTypeOK
  <2> QED  BY <1>1, <1>4, <2>1, <2>2, <2>3, GotoTypes DEF StopSession, SessionTypeOK, bridgeVars
<1>5. CASE GatewayChanges
  BY <1>5 DEF GatewayChanges, SessionTypeOK, bridgeVars
<1> QED  BY <1>2, <1>3, <1>4, <1>5

\* Recovery fails or succeeds.
LEMMA BridgeTypes ==
  ASSUME SessionTypeOK, BridgeIsUp \/ BridgeIsDown
  PROVE  /\ at' \in [Tasks -> Awaits] /\ serving' \in BOOLEAN
         /\ bridgeOk' \in {"up", "down", Unprobed}
         /\ bridgeFailures' \in 0..bridge_max_failures
         /\ authStatus' \in Statuses
<1>1. Loop \in Tasks /\ "idle" \in Awaits
  BY DEF Tasks, Awaits
<1>2. CASE BridgeIsUp
  <2>1. at' \in [Tasks -> Awaits] /\ serving' \in BOOLEAN
    BY <1>1, <1>2, ReturnTypes DEF BridgeIsUp
  <2> QED  BY <1>2, <2>1, SessionAssumption DEF BridgeIsUp, SessionTypeOK
<1>3. CASE BridgeIsDown
  <2>1. at' \in [Tasks -> Awaits] /\ serving' \in BOOLEAN
    BY <1>1, <1>3, ReturnTypes DEF BridgeIsDown
  <2>2. bridgeFailures' \in 0..bridge_max_failures
    BY <1>3, SessionAssumption DEF BridgeIsDown, CountBridge, SessionTypeOK
  <2>3. authStatus' \in Statuses /\ bridgeOk' = bridgeOk
    BY <1>3 DEF BridgeIsDown, SessionTypeOK, Statuses
  <2> QED  BY <2>1, <2>2, <2>3 DEF SessionTypeOK
<1> QED  BY <1>2, <1>3

LEMMA ProbeTypes ==
  ASSUME SessionTypeOK, ProbeStep
  PROVE  SessionTypeOK'
<1>1. Loop \in Tasks /\ {"idle", "recover", "recheck"} \subseteq Awaits
  BY DEF Tasks, Awaits, ProbeAwaits
<1>2. CASE ProbeBridge
  <2>1. PICK reply :
          \/ Return(Loop, "idle") /\ UNCHANGED <<authStatus, bridgeVars>>
          \/ BridgeIsUp /\ probeDue' = FALSE
          \/ /\ bridgeOk' = "down" /\ probeDue' = FALSE
             /\ Goto(Loop, "recover")
             /\ UNCHANGED <<authStatus, bridgeFailures, serving>>
    BY <1>2 DEF ProbeBridge
  <2>2. /\ gateway' = gateway /\ cpReachable' = cpReachable
        /\ accountsReady' = accountsReady /\ sso' = sso /\ attempt' = attempt
    BY <1>2 DEF ProbeBridge
  <2>3. CASE Return(Loop, "idle") /\ UNCHANGED <<authStatus, bridgeVars>>
    BY <1>1, <2>2, <2>3, ReturnTypes DEF SessionTypeOK, bridgeVars
  <2>4. CASE BridgeIsUp /\ probeDue' = FALSE
    BY <2>2, <2>4, BridgeTypes DEF SessionTypeOK
  <2>5. CASE /\ bridgeOk' = "down" /\ probeDue' = FALSE
             /\ Goto(Loop, "recover")
             /\ UNCHANGED <<authStatus, bridgeFailures, serving>>
    BY <1>1, <2>2, <2>5, GotoTypes DEF SessionTypeOK
  <2> QED  BY <2>1, <2>3, <2>4, <2>5
<1>3. CASE RecoverBridge
  <2>1. /\ gateway' = gateway /\ cpReachable' = cpReachable
        /\ accountsReady' = accountsReady /\ sso' = sso /\ attempt' = attempt
        /\ probeDue' = probeDue
    BY <1>3 DEF RecoverBridge
  <2>2. \/ BridgeIsDown
        \/ /\ Goto(Loop, "recheck")
           /\ UNCHANGED <<authStatus, bridgeOk, bridgeFailures, serving>>
    BY <1>3 DEF RecoverBridge
  <2>3. CASE BridgeIsDown
    BY <2>1, <2>3, BridgeTypes DEF SessionTypeOK
  <2>4. CASE /\ Goto(Loop, "recheck")
             /\ UNCHANGED <<authStatus, bridgeOk, bridgeFailures, serving>>
    BY <1>1, <2>1, <2>4, GotoTypes DEF SessionTypeOK
  <2> QED  BY <2>2, <2>3, <2>4
<1>4. CASE RecheckBridge
  <2>1. /\ gateway' = gateway /\ cpReachable' = cpReachable
        /\ accountsReady' = accountsReady /\ sso' = sso /\ attempt' = attempt
    BY <1>4 DEF RecheckBridge
  <2>2. probeDue' \in BOOLEAN /\ (BridgeIsUp \/ BridgeIsDown)
    BY <1>4 DEF RecheckBridge
  <2> QED  BY <2>1, <2>2, BridgeTypes DEF SessionTypeOK
<1> QED  BY <1>2, <1>3, <1>4 DEF ProbeStep

\* What a task does between two awaits of a tick.
LEMMA TaskStepTypes ==
  ASSUME SessionTypeOK, NEW t \in Tasks, TaskStep(t)
  PROVE  SessionTypeOK'
<1>1. {"idle", "dead", "tickle", "accounts", "reauth", "check"} \subseteq Awaits
  BY DEF Awaits, TickAwaits
<1>2. CASE Validate(t)
  <2>1. PICK valid \in SsoReplies[gateway] : sso' = [sso EXCEPT ![t] = valid]
    BY <1>2 DEF Validate
  <2>2. valid \in BOOLEAN
    <3>1. gateway \in {"down", "out", "cold", "ready", "flaky"}
      BY DEF SessionTypeOK, Gateways
    <3>2. PICK replies : replies = SsoReplies
      OBVIOUS
    <3>3. /\ replies["down"] = {FALSE} /\ replies["out"] = {FALSE}
          /\ replies["cold"] = {TRUE} /\ replies["ready"] = {TRUE}
          /\ replies["flaky"] = BOOLEAN
      BY <3>2 DEF SsoReplies
    <3> QED  BY <2>1, <3>1, <3>2, <3>3
  <2>3. sso' \in [Tasks -> BOOLEAN]
    BY <2>1, <2>2 DEF SessionTypeOK
  <2>4. at' \in [Tasks -> Awaits]
    BY <1>1, <1>2, GotoTypes DEF Validate
  <2> QED  BY <1>2, <2>3, <2>4 DEF Validate, SessionTypeOK, bridgeVars
<1>3. CASE Tickle(t)
  <2>1. PICK reply :
          /\ cpReachable' = (reply # "error" \/ sso[t])
          /\ \/ SessionOk(t) /\ UNCHANGED attempt
             \/ AuthLoss(t)
             \/ /\ authStatus' = "cp_down" /\ AutoLoginHook(t, "cp_down")
                /\ UNCHANGED attempt
    BY <1>3 DEF Tickle
  <2>2. cpReachable' \in BOOLEAN
    BY <2>1 DEF SessionTypeOK
  <2>3. sso' \in [Tasks -> BOOLEAN]
    BY <1>3 DEF Tickle, SessionTypeOK
  <2>4. /\ gateway' = gateway /\ accountsReady' = accountsReady /\ bridgeOk' = bridgeOk
        /\ bridgeFailures' = bridgeFailures /\ probeDue' = probeDue
    BY <1>3 DEF Tickle, bridgeVars
  <2>5. CASE SessionOk(t) /\ UNCHANGED attempt
    <3>1. authStatus' \in Statuses
      BY <2>5 DEF SessionOk, Statuses
    <3>2. at' \in [Tasks -> Awaits] /\ serving' \in BOOLEAN
      <4>1. CASE accountsReady
        BY <2>5, <4>1, AfterTickTypes, ReturnTypes DEF SessionOk
      <4>2. CASE ~accountsReady
        BY <1>1, <2>5, <4>2, GotoTypes DEF SessionOk, SessionTypeOK
      <4> QED  BY <4>1, <4>2
    <3> QED  BY <2>2, <2>3, <2>4, <2>5, <3>1, <3>2 DEF SessionTypeOK
  <2>6. CASE AuthLoss(t)
    <3>1. attempt' \in [Tasks -> 0..reauth_max_retries]
      BY <2>6, SessionAssumption DEF AuthLoss, SessionTypeOK
    <3>2. authStatus' \in Statuses /\ serving' = serving
      BY <2>6 DEF AuthLoss, Statuses
    <3>3. at' \in [Tasks -> Awaits]
      BY <1>1, <2>6, GotoTypes DEF AuthLoss
    <3> QED  BY <2>2, <2>3, <2>4, <3>1, <3>2, <3>3 DEF SessionTypeOK
  <2>7. CASE /\ authStatus' = "cp_down" /\ AutoLoginHook(t, "cp_down")
             /\ UNCHANGED attempt
    <3>1. at' \in [Tasks -> Awaits] /\ serving' \in BOOLEAN
      BY <2>7, HookTypes
    <3>2. authStatus' \in Statuses
      BY <2>7 DEF Statuses
    <3> QED  BY <2>2, <2>3, <2>4, <2>7, <3>1, <3>2 DEF SessionTypeOK
  <2> QED  BY <2>1, <2>5, <2>6, <2>7
<1>4. CASE InitAccounts(t)
  <2>1. accountsReady' \in BOOLEAN
    BY <1>4 DEF InitAccounts
  <2>2. at' \in [Tasks -> Awaits] /\ serving' \in BOOLEAN
    BY <1>4, AfterTickTypes, ReturnTypes DEF InitAccounts
  <2> QED  BY <1>4, <2>1, <2>2 DEF InitAccounts, SessionTypeOK, bridgeVars
<1>5. CASE Reauthenticate(t)
  <2>1. \/ Goto(t, "check") /\ UNCHANGED <<authStatus, serving, attempt>>
        \/ AttemptFails(t)
    BY <1>5 DEF Reauthenticate
  <2>2. /\ at' \in [Tasks -> Awaits] /\ serving' \in BOOLEAN
        /\ attempt' \in [Tasks -> 0..reauth_max_retries]
        /\ authStatus' \in Statuses
    BY <1>1, <2>1, GotoTypes, AttemptTypes DEF SessionTypeOK
  <2> QED  BY <1>5, <2>2 DEF Reauthenticate, SessionTypeOK, bridgeVars
<1>6. CASE CheckReauth(t)
  <2>1. \/ /\ authStatus' = "ok" /\ attempt' = [attempt EXCEPT ![t] = 0]
           /\ Return(t, AfterTick(t, "ok"))
        \/ AttemptFails(t)
    BY <1>6 DEF CheckReauth
  <2>2. /\ at' \in [Tasks -> Awaits] /\ serving' \in BOOLEAN
        /\ attempt' \in [Tasks -> 0..reauth_max_retries]
        /\ authStatus' \in Statuses
    <3>1. CASE AttemptFails(t)
      BY <3>1, AttemptTypes
    <3>2. CASE /\ authStatus' = "ok" /\ attempt' = [attempt EXCEPT ![t] = 0]
               /\ Return(t, AfterTick(t, "ok"))
      <4>1. attempt' \in [Tasks -> 0..reauth_max_retries] /\ authStatus' \in Statuses
        BY <3>2, SessionAssumption DEF SessionTypeOK, Statuses
      <4> QED  BY <3>2, <4>1, AfterTickTypes, ReturnTypes
    <3> QED  BY <2>1, <3>1, <3>2
  <2> QED  BY <1>6, <2>2 DEF CheckReauth, SessionTypeOK, bridgeVars
<1>7. CASE SidecarEnds(t)
  <2>1. at' \in [Tasks -> Awaits] /\ serving' \in BOOLEAN
    BY <1>7, AfterTickTypes, ReturnTypes DEF SidecarEnds
  <2> QED  BY <1>7, <2>1 DEF SidecarEnds, SessionTypeOK, bridgeVars
<1>8. CASE GarbledReply(t)
  <2>1. at' \in [Tasks -> Awaits]
    BY <1>1, <1>8, GotoTypes DEF GarbledReply
  <2>2. sso' \in [Tasks -> BOOLEAN] /\ attempt' \in [Tasks -> 0..reauth_max_retries]
    BY <1>8, SessionAssumption DEF GarbledReply, SessionTypeOK
  <2> QED  BY <1>8, <2>1, <2>2 DEF GarbledReply, SessionTypeOK, bridgeVars
<1> QED  BY <1>2, <1>3, <1>4, <1>5, <1>6, <1>7, <1>8 DEF TaskStep

LEMMA SeedTypes ==
  ASSUME SessionTypeOK, NEW s \in Seeders, SeedCookies(s) \/ SsodhInit(s)
  PROVE  SessionTypeOK'
<1>1. s \in Tasks /\ {"init", "validate"} \subseteq Awaits
  BY DEF Tasks, Awaits, TickAwaits
<1>2. CASE SeedCookies(s)
  <2>1. gateway' \in Gateways
    BY <1>2 DEF SeedCookies, SessionTypeOK, Gateways
  <2>2. at' \in [Tasks -> Awaits]
    BY <1>1, <1>2, GotoTypes DEF SeedCookies
  <2> QED  BY <1>2, <2>1, <2>2 DEF SeedCookies, SessionTypeOK, bridgeVars
<1>3. CASE SsodhInit(s)
  <2>1. at' \in [Tasks -> Awaits]
    BY <1>1, <1>3, GotoTypes DEF SsodhInit
  <2> QED  BY <1>3, <2>1 DEF SsodhInit, SessionTypeOK, bridgeVars
<1> QED  BY <1>2, <1>3

LEMMA SessionStepTypes ==
  SessionTypeOK /\ [SessionNext]_sessionVars => SessionTypeOK'
<1> SUFFICES ASSUME SessionTypeOK, [SessionNext]_sessionVars PROVE SessionTypeOK'
  OBVIOUS
<1>1. CASE UNCHANGED sessionVars
  BY <1>1 DEF SessionTypeOK, sessionVars
<1>2. CASE SessionNext
  <2>1. CASE LoopTicks \/ ProbeFallsDue \/ StopSession \/ GatewayChanges
    BY <2>1, LoopStepTypes
  <2>2. CASE ProbeStep
    BY <2>2, ProbeTypes
  <2>3. CASE \E t \in Tasks : TaskStep(t)
    BY <2>3, TaskStepTypes
  <2>4. CASE \E s \in Seeders : SeedCookies(s) \/ SsodhInit(s)
    BY <2>4, SeedTypes
  <2> QED  BY <1>2, <2>1, <2>2, <2>3, <2>4 DEF SessionNext
<1> QED  BY <1>1, <1>2

\* CPSession: the status, the counters and every task stay in their types, for any
\* number of seed handlers and any maxima; no count passes its maximum.
THEOREM SessionTypeCorrect == SessionSpec => []SessionTypeOK
BY StartTypes, SessionStepTypes, PTL DEF SessionSpec
\* Both halves together, in every behaviour that the run explores: the types hold.
THEOREM TypesAreKept == MCSpec => []TypesOK
<1>1. MCInit => SessionTypeOK /\ LoginInv
  BY StartTypes, LoginStarts DEF MCInit
<1>2. SessionTypeOK /\ LoginInv /\ [MCNext]_<<half, sessionVars, loginVars>>
        => SessionTypeOK' /\ LoginInv'
  <2> SUFFICES ASSUME SessionTypeOK, LoginInv,
                      [MCNext]_<<half, sessionVars, loginVars>>
               PROVE  SessionTypeOK' /\ LoginInv'
    OBVIOUS
  <2>1. [SessionNext]_sessionVars /\ [LoginNext]_loginVars
    BY DEF MCNext
  <2> QED  BY <2>1, SessionStepTypes, LoginStepKeeps
<1>3. SessionTypeOK /\ LoginInv => TypesOK
  BY LoginTypes DEF TypesOK
<1> QED  BY <1>1, <1>2, <1>3, PTL DEF MCSpec
=============================================================================
