--------------------------- MODULE Services_proofs ---------------------------
(***************************************************************************)
(* Proofs about the paper tests, the lifespan of the process, the token store  *)
(* and the reads and orders of the TWS profile, for every value of their   *)
(* constants; and, with the theorems of CPCalls_proofs and                 *)
(* MarketData_proofs, about all the services of MCServices together.       *)
(***************************************************************************)
EXTENDS MCServices, CPCalls_proofs, MarketData_proofs

-----------------------------------------------------------------------------
(* Watchdog.                                                               *)

\* Between runs the state of the last run is what was saved; in a run it is the
\* phone that keeps step with it.
WatchdogInv ==
    /\ WatchdogTypeOK
    /\ ~running => work = file
    /\ PhoneShowsOutages

\* Time passing makes no entry ill-typed, nor an alarm or an outage forgotten.
LEMMA OlderKeeps ==
    ASSUME NEW e \in Entry
    PROVE  /\ Older(e) \in Entry
           /\ Older(e).down = e.down /\ Older(e).recreated = e.recreated
           /\ Older(e).lastAlert = NoAlert <=> e.lastAlert = NoAlert
BY WatchdogAssumption DEF Older, Entry, NoAlert

\* As long as no run was cut short, the operator's phone says "down" of exactly the
\* stacks whose outage was alarmed and not taken back, whatever pushes fail: for any
\* stacks, thresholds and alarm periods.
THEOREM PhoneIsRight == WatchdogSpec => [](WatchdogTypeOK /\ PhoneShowsOutages)
<1>. USE WatchdogAssumption DEF Fresh, Entry, NoAlert, Conditions
<1>0. Fresh \in Entry
  <2>1. 0 \in 0..CountMax /\ NoAlert \in NoAlert..RealertAfter
    OBVIOUS
  <2>. QED BY <2>1, Zenon
<1>1. WatchdogInit => WatchdogInv
  <2>. SUFFICES ASSUME WatchdogInit PROVE WatchdogInv
    OBVIOUS
  <2>2. work = file /\ file \in [Stacks -> Entry]
    BY <1>0 DEF WatchdogInit
  <2>3. /\ condition \in [Stacks -> Conditions] /\ pending \subseteq Stacks
        /\ running \in BOOLEAN /\ phone \in [Stacks -> {"ok", "down"}]
        /\ cut \in [Stacks -> BOOLEAN]
    BY DEF WatchdogInit
  <2>4. \A s \in Stacks : work[s] = Fresh /\ phone[s] = "ok"
    BY DEF WatchdogInit
  <2>. QED BY <2>2, <2>3, <2>4 DEF WatchdogInv, WatchdogTypeOK, PhoneShowsOutages
<1>2. WatchdogInv /\ [WatchdogNext]_watchdogVars => WatchdogInv'
  <2>. SUFFICES ASSUME WatchdogInv, [WatchdogNext]_watchdogVars PROVE WatchdogInv'
    OBVIOUS
  <2>. USE DEF WatchdogInv, WatchdogTypeOK, PhoneShowsOutages
  <2>1. CASE StartRun
    <3>1. \A s \in Stacks :
             /\ Older(file[s]) \in Entry
             /\ Older(file[s]).down = file[s].down
             /\ Older(file[s]).recreated = file[s].recreated
             /\ Older(file[s]).lastAlert = NoAlert <=> file[s].lastAlert = NoAlert
      BY OlderKeeps
    <3>. QED BY <2>1, <3>1 DEF StartRun
  <2>2. CASE SaveState
    BY <2>2 DEF SaveState
  <2>3. CASE RunIsCut
    <3>. HIDE DEF Fresh, Entry, NoAlert, Conditions
    <3>2. file' \in [Stacks -> Entry] /\ work' = file' /\ running' = FALSE /\ pending' = {}
      BY <2>3, <1>0 DEF RunIsCut
    <3>3. condition' = condition /\ phone' = phone /\ cut' = [s \in Stacks |-> TRUE]
      BY <2>3 DEF RunIsCut
    <3>4. PhoneShowsOutages'
      BY <3>3
    <3>5. WatchdogTypeOK'
      <4>1. cut' \in [Stacks -> BOOLEAN] /\ running' \in BOOLEAN
        BY <3>2, <3>3, Zenon
      <4>. QED BY <3>2, <3>3, <4>1
    <3>6. work' = file'
      BY <3>2
    <3>. QED BY <3>4, <3>5, <3>6
  <2>4. ASSUME NEW s \in Stacks, ProcessUp(s) PROVE WatchdogInv'
    <3>1. /\ condition' = condition /\ file' = file /\ running' = running /\ running
          /\ pending' = pending \ {s}
      BY <2>4 DEF ProcessUp
    <3>2. CASE UNCHANGED <<work, phone, cut>>
      BY <3>1, <3>2
    <3>3. CASE /\ work' = [work EXCEPT ![s] = Fresh] /\ phone' = [phone EXCEPT ![s] = "ok"]
               /\ cut' = [cut EXCEPT ![s] = FALSE]
      <4>1. work' \in [Stacks -> Entry] /\ phone' \in [Stacks -> {"ok", "down"}]
        <5>. HIDE DEF Fresh, Entry
        <5>. QED BY <1>0, <3>3
      <4>2. cut' \in [Stacks -> BOOLEAN]
        BY <3>3, Zenon
      <4>3. PhoneShowsOutages'
        BY <3>3
      <4>. QED BY <3>1, <4>1, <4>2, <4>3
    <3>4. CASE /\ work' = [work EXCEPT ![s] = Fresh] /\ UNCHANGED <<phone, cut>>
               /\ ~(work[s].down >= DownThreshold)
      <4>1. work' \in [Stacks -> Entry]
        <5>. HIDE DEF Fresh, Entry
        <5>. QED BY <1>0, <3>4
      <4>2. PhoneShowsOutages'
        BY <3>4
      <4>. QED BY <3>1, <3>4, <4>1, <4>2
    <3>. QED BY <2>4, <3>2, <3>3, <3>4 DEF ProcessUp
  <2>5. ASSUME NEW s \in Stacks, ProcessDown(s) PROVE WatchdogInv'
    BY <2>5 DEF ProcessDown, ShouldAlert
  <2>6. ASSUME NEW s \in Stacks, StackChanges(s) PROVE WatchdogInv'
    BY <2>6 DEF StackChanges
  <2>7. CASE UNCHANGED watchdogVars
    BY <2>7 DEF watchdogVars
  <2>. QED BY <2>1, <2>2, <2>3, <2>4, <2>5, <2>6, <2>7 DEF WatchdogNext
<1>. QED BY <1>1, <1>2, PTL DEF WatchdogSpec, WatchdogInv

-----------------------------------------------------------------------------
(* Command listener.                                                       *)

\* An open nonce was issued outside the cooldown, and each recreate used one up.
ListenerInv ==
    /\ now \in Nat /\ nonces \in Nat /\ nonce \in Nat /\ nonceExpires \in Nat
    /\ cooldownUntil \in Nat
    /\ recreates \in Seq(Nat)
    /\ nonce # 0 => now >= cooldownUntil /\ nonceExpires >= cooldownUntil + ConfirmTtl
    /\ Len(recreates) + (IF nonce = 0 THEN 0 ELSE 1) <= nonces
    /\ \A i \in DOMAIN recreates : cooldownUntil >= recreates[i] + CooldownTicks
    /\ OneRecreatePerWindow

\* For any waiting times: one process never recreates twice in a cooldown, nor twice
\* for one nonce, in whatever order commands arrive and are read.
THEOREM RecreatesAreSpaced == ListenerSpec => []OneRecreatePerWindow
<1>1. ListenerInit => ListenerInv
  BY ListenerAssumption DEF ListenerInit, ListenerInv, OneRecreatePerWindow
<1>2. ListenerInv /\ [ListenerNext]_listenerVars => ListenerInv'
  <2>. SUFFICES ASSUME ListenerInv, [ListenerNext]_listenerVars PROVE ListenerInv'
    OBVIOUS
  <2>. USE ListenerAssumption
  <2>1. ASSUME UNCHANGED <<now, nonce, nonceExpires, cooldownUntil, nonces, recreates>>
        PROVE  ListenerInv'
    BY <2>1 DEF ListenerInv, OneRecreatePerWindow
  <2>2. CASE IssueNonce
    BY <2>2 DEF IssueNonce, NextIs, ListenerInv, OneRecreatePerWindow
  <2>3. CASE Recreate
    <3>0. PICK t \in Nat, until \in Nat : t = now /\ until = cooldownUntil
      BY DEF ListenerInv
    <3>1. PICK r \in Seq(Nat) : r = recreates
      BY DEF ListenerInv
    <3>a. PICK n \in Nat : n = Len(r) /\ DOMAIN r = 1..n
      OBVIOUS
    <3>2. /\ nonce # 0 /\ nonce' = 0 /\ nonceExpires' = 0 /\ cooldownUntil' = t + CooldownTicks
          /\ recreates' = Append(r, t) /\ now' = t /\ nonces' = nonces
      BY <2>3, <3>0, <3>1 DEF Recreate, NextIs, Confirms
    <3>3. /\ t >= until /\ n + 1 <= nonces
          /\ \A i \in 1..n : until >= r[i] + CooldownTicks
          /\ \A i, j \in 1..n : i < j => r[j] >= r[i] + CooldownTicks
      <4>1. t >= until /\ n + 1 <= nonces
        BY <3>0, <3>1, <3>a, <3>2 DEF ListenerInv
      <4>2. \A i \in 1..n : until >= r[i] + CooldownTicks
        BY <3>0, <3>1, <3>a DEF ListenerInv
      <4>3. \A i, j \in 1..n : i < j => r[j] >= r[i] + CooldownTicks
        BY <3>1, <3>a DEF ListenerInv, OneRecreatePerWindow
      <4>. QED BY <4>1, <4>2, <4>3
    <3>4. PICK q \in Seq(Nat) : q = Append(r, t)
      BY AppendProperties
    <3>5. /\ Len(q) = n + 1 /\ DOMAIN q = 1..(n + 1) /\ q[n + 1] = t
          /\ \A i \in 1..n : q[i] = r[i]
      BY <3>a, <3>4
    <3>6. \A i \in 1..n : r[i] \in Nat
      BY <3>a
    <3>7. \A i \in 1..(n + 1) : t + CooldownTicks >= q[i] + CooldownTicks
      <4>1. ASSUME NEW i \in 1..n PROVE t + CooldownTicks >= q[i] + CooldownTicks
        <5>1. PICK x \in Nat : x = r[i] /\ x = q[i]
          BY <3>5, <3>6
        <5>2. until >= x + CooldownTicks /\ t >= until
          BY <3>3, <5>1
        <5>. QED BY <5>1, <5>2
      <4>2. \A i \in 1..(n + 1) : i \in 1..n \/ i = n + 1
        BY <3>a
      <4>3. t + CooldownTicks >= q[n + 1] + CooldownTicks
        BY <3>5
      <4>. QED BY <4>1, <4>2, <4>3
    <3>8. \A i, j \in 1..(n + 1) : i < j => q[j] >= q[i] + CooldownTicks
      <4>1. ASSUME NEW i \in 1..(n + 1), NEW j \in 1..(n + 1), i < j
            PROVE  q[j] >= q[i] + CooldownTicks
        <5>1. i \in 1..n /\ (j \in 1..n \/ j = n + 1)
          <6>1. i \in Nat /\ j \in Nat /\ i >= 1 /\ j <= n + 1
            BY <4>1
          <6>. QED BY <4>1, <6>1
        <5>2. CASE j \in 1..n
          BY <3>3, <3>5, <4>1, <5>1, <5>2
        <5>3. CASE j = n + 1
          <6>1. q[j] = t /\ q[i] = r[i] /\ r[i] \in Nat /\ until >= r[i] + CooldownTicks
            BY <3>3, <3>5, <3>6, <5>1, <5>3
          <6>. QED BY <3>3, <6>1
        <5>. QED BY <5>1, <5>2, <5>3
      <4>. QED BY <4>1
    <3>9. nonces \in Nat /\ Len(q) <= nonces /\ t + CooldownTicks \in Nat
      BY <3>3, <3>5 DEF ListenerInv
    <3>10. OneRecreatePerWindow'
      BY <3>2, <3>4, <3>5, <3>8, <3>9 DEF OneRecreatePerWindow
    <3>. QED BY <3>2, <3>4, <3>5, <3>7, <3>9, <3>10 DEF ListenerInv
  <2>4. CASE TimeGoesOn
    BY <2>4 DEF TimeGoesOn, ListenerInv, OneRecreatePerWindow
  <2>5. CASE ListenerRestarts
    BY <2>5 DEF ListenerRestarts, ListenerInv, OneRecreatePerWindow
  <2>6. ASSUME NEW command \in 0..nonces, Post(command) PROVE ListenerInv'
    BY <2>6, <2>1 DEF Post
  <2>7. CASE RefuseTrigger \/ RefuseConfirm \/ PollEnds \/ StreamBreaks \/ StreamReopens
    BY <2>7, <2>1 DEF RefuseTrigger, RefuseConfirm, PollEnds, StreamBreaks, StreamReopens
  <2>8. CASE UNCHANGED listenerVars
    BY <2>8, <2>1 DEF listenerVars
  <2>. QED BY <2>2, <2>3, <2>4, <2>5, <2>6, <2>7, <2>8 DEF ListenerNext
<1>. QED BY <1>1, <1>2, PTL DEF ListenerSpec, ListenerInv

-----------------------------------------------------------------------------
(* Reads of the TWS profile.                                               *)

\* Callers stand in a line once each, and those the line is for stand in it.
Lined(line, members) ==
    /\ line \in Seq(Askers)
    /\ \A i, j \in DOMAIN line : line[i] = line[j] => i = j
    /\ \A c \in Askers : c \in members <=> \E i \in DOMAIN line : line[i] = c

\* Who waits for the lock of the searches, or holds it; the same for subscriptions.
Searchers == {c \in Askers : doing[c] \in {"search_queued", "searching"}}
Subscribers == {c \in Askers : doing[c] \in {"subscribe_queued", "subscribing"}}

\* The head of a line holds its lock, so one caller at most is past it.
SearchInv ==
    /\ Lined(searchLine, Searchers)
    /\ \A c \in Askers : doing[c] = "searching" => Head(searchLine) = c
    /\ searches = IF \E c \in Askers : doing[c] = "searching" THEN 1 ELSE 0

\* The account c subscribes to just now.
IsSubscribing(c, a) == doing[c] = "subscribing" /\ wants[c] = a

AccountInv ==
    /\ Lined(accountLine, Subscribers)
    /\ \A c \in Askers : doing[c] = "subscribing" =>
          Head(accountLine) = c /\ wants[c] \notin subscribed
    /\ \A c \in Subscribers : wants[c] \in Accounts
    /\ DOMAIN wants = Askers /\ wants = [c \in Askers |-> wants[c]]
    /\ asked \in [Accounts -> Nat]
    /\ \A a \in Accounts :
          asked[a] = IF a \in subscribed \/ \E c \in Askers : IsSubscribing(c, a)
                     THEN 1 ELSE 0

ReadsInv ==
    /\ doing \in [Askers -> Stages]
    /\ SearchInv /\ AccountInv
    /\ details \in [Lookups -> {"none", "empty", "listing"}] /\ details["info"] # "empty"

\* The last of a line joins it.
LEMMA Joins ==
    ASSUME NEW line, NEW members, Lined(line, members), NEW c \in Askers, c \notin members
    PROVE  /\ Lined(Append(line, c), members \cup {c})
           /\ line # <<>> => Head(Append(line, c)) = Head(line)
BY AppendProperties DEF Lined

\* A line that somebody stands in is not empty.
LEMMA SomebodyWaits ==
    ASSUME NEW line, NEW members, Lined(line, members), NEW c \in Askers, c \in members
    PROVE  line # <<>>
BY DEF Lined

\* The head of a line leaves it.
LEMMA HeadLeaves ==
    ASSUME NEW line, NEW members, Lined(line, members), NEW c \in Askers, c \in members,
           Head(line) = c
    PROVE  Lined(Tail(line), members \ {c})
<1>1. line # <<>> /\ line[1] = c /\ line \in Seq(Askers)
  BY DEF Lined
<1>2. /\ Tail(line) \in Seq(Askers) /\ DOMAIN Tail(line) = 1..(Len(line) - 1)
      /\ \A i \in 1..(Len(line) - 1) : Tail(line)[i] = line[i + 1]
  BY <1>1, HeadTailProperties
<1>3. \A i, j \in DOMAIN Tail(line) : Tail(line)[i] = Tail(line)[j] => i = j
  BY <1>1, <1>2 DEF Lined
<1>4. ASSUME NEW d \in Askers
      PROVE  d \in members \ {c} <=> \E i \in DOMAIN Tail(line) : Tail(line)[i] = d
  <2>1. ASSUME d \in members, d # c
        PROVE  \E i \in DOMAIN Tail(line) : Tail(line)[i] = d
    <3>1. PICK i \in DOMAIN line : line[i] = d
      BY <2>1 DEF Lined
    <3>2. i # 1 /\ i \in 1..Len(line)
      BY <1>1, <2>1, <3>1
    <3>3. i - 1 \in 1..(Len(line) - 1) /\ Tail(line)[i - 1] = d
      BY <1>1, <1>2, <3>1, <3>2
    <3>. QED BY <1>2, <3>3
  <2>2. ASSUME NEW i \in DOMAIN Tail(line), Tail(line)[i] = d
        PROVE  d \in members /\ d # c
    <3>1. i \in 1..(Len(line) - 1) /\ i + 1 \in 1..Len(line) /\ line[i + 1] = d /\ i + 1 # 1
      BY <1>1, <1>2, <2>2
    <3>. QED BY <1>1, <3>1 DEF Lined
  <2>. QED BY <2>1, <2>2
<1>. QED BY <1>2, <1>3, <1>4 DEF Lined

LEMMA ReadsInductive == ReadsSpec => []ReadsInv
<1>1. ReadsInit => ReadsInv
  BY DEF ReadsInit, ReadsInv, SearchInv, AccountInv, IsSubscribing, Lined, Searchers,
         Subscribers, Stages, Lookups
<1>2. ReadsInv /\ [ReadsNext]_readVars => ReadsInv'
  <2>. SUFFICES ASSUME ReadsInv, [ReadsNext]_readVars PROVE ReadsInv'
    OBVIOUS
  <2>0. doing \in [Askers -> Stages] /\ SearchInv /\ AccountInv
    BY DEF ReadsInv
  <2>a. ASSUME NEW c \in Askers, NEW stop \in Stages, Go(c, stop)
        PROVE  /\ doing' \in [Askers -> Stages] /\ doing'[c] = stop
               /\ \A d \in Askers : d # c => doing'[d] = doing[d]
    BY <2>0, <2>a DEF Go
  <2>b. ASSUME NEW c \in Askers, NEW stop \in Stages, Go(c, stop),
               doing[c] \notin {"search_queued", "searching"},
               stop \notin {"search_queued", "searching"},
               UNCHANGED <<searchLine, searches>>
        PROVE  SearchInv'
    <3>1. Searchers' = Searchers
      BY <2>a, <2>b DEF Searchers
    <3>. QED BY <2>0, <2>a, <2>b, <3>1 DEF SearchInv
  <2>c. ASSUME NEW c \in Askers, NEW stop \in Stages, Go(c, stop),
               doing[c] \notin {"subscribe_queued", "subscribing"},
               stop \notin {"subscribe_queued", "subscribing"},
               UNCHANGED <<accountLine, subscribed, asked, wants>>
        PROVE  AccountInv'
    <3>1. Subscribers' = Subscribers
      BY <2>a, <2>c DEF Subscribers
    <3>2. \A d \in Askers, a \in Accounts : IsSubscribing(d, a)' <=> IsSubscribing(d, a)
      BY <2>a, <2>c DEF IsSubscribing
    <3>3. \A d \in Askers : doing'[d] = "subscribing" => doing[d] = "subscribing"
      BY <2>a, <2>c
    <3>. QED BY <2>0, <2>c, <3>1, <3>2, <3>3 DEF AccountInv
  <2>d. ASSUME UNCHANGED details
        PROVE  /\ details' \in [Lookups -> {"none", "empty", "listing"}]
               /\ details'["info"] # "empty"
    BY <2>d DEF ReadsInv
  <2>e. {"idle", "reading", "done", "search_queued", "searching", "subscribe_queued",
         "subscribing"} \cup Lookups \subseteq Stages
    BY DEF Stages
  <2>1. ASSUME NEW c \in Askers, Search(c) PROVE ReadsInv'
    <3>1. CASE Go(c, "done") /\ UNCHANGED searchLine
      BY <2>1, <2>a, <2>b, <2>c, <2>d, <2>e, <3>1 DEF Search, accountVars, ReadsInv
    <3>2. CASE Go(c, "search_queued") /\ searchLine' = Append(searchLine, c)
      <4>1. /\ doing[c] = "idle" /\ UNCHANGED <<searches, details, accountLine, subscribed>>
            /\ UNCHANGED <<asked, wants>>
        BY <2>1 DEF Search, accountVars
      <4>2. Searchers' = Searchers \cup {c} /\ c \notin Searchers
        BY <2>a, <2>e, <3>2, <4>1 DEF Searchers
      <4>3. /\ Lined(searchLine', Searchers')
            /\ searchLine # <<>> => Head(searchLine') = Head(searchLine)
        BY <2>0, <3>2, <4>2, Joins DEF SearchInv
      <4>4. \A d \in Askers : doing'[d] = "searching" <=> doing[d] = "searching"
        BY <2>a, <2>e, <3>2, <4>1
      <4>5. \A d \in Askers : doing[d] = "searching" => searchLine # <<>>
        BY <2>0, SomebodyWaits DEF SearchInv, Searchers
      <4>6. SearchInv'
        BY <2>0, <4>1, <4>3, <4>4, <4>5 DEF SearchInv
      <4>. QED BY <2>a, <2>c, <2>d, <2>e, <3>2, <4>1, <4>6 DEF ReadsInv
    <3>. QED BY <2>1, <3>1, <3>2 DEF Search
  <2>2. ASSUME NEW c \in Askers, AskIBKR(c) PROVE ReadsInv'
    <3>1. /\ doing[c] = "search_queued" /\ Head(searchLine) = c /\ Go(c, "searching")
          /\ searches' = searches + 1 /\ searchLine' = searchLine
          /\ UNCHANGED <<details, accountLine, subscribed, asked, wants>>
      BY <2>2 DEF AskIBKR, accountVars
    <3>2. Searchers' = Searchers
      BY <2>a, <2>e, <3>1 DEF Searchers
    <3>3. \A d \in Askers : doing[d] # "searching"
      BY <2>0, <3>1 DEF SearchInv
    <3>4. \A d \in Askers : doing'[d] = "searching" <=> d = c
      BY <2>a, <2>e, <3>1, <3>3
    <3>a. searches' = 1
      <4>1. ~\E d \in Askers : doing[d] = "searching"
        BY <3>3
      <4>2. searches = 0
        BY <2>0, <4>1 DEF SearchInv
      <4>3. searches' = searches + 1
        BY <3>1
      <4>4. searches' = 0 + 1
        BY <4>2, <4>3
      <4>. QED BY <4>4
    <3>5. SearchInv'
      <4>1. Lined(searchLine', Searchers')
        BY <2>0, <3>1, <3>2 DEF SearchInv
      <4>. QED BY <3>1, <3>4, <3>a, <4>1 DEF SearchInv
    <3>. QED BY <2>a, <2>c, <2>d, <2>e, <3>1, <3>5 DEF ReadsInv
  <2>3. ASSUME NEW c \in Askers, LeaveSearch(c) PROVE ReadsInv'
    <3>1. /\ doing[c] = "searching" /\ Go(c, "done") /\ searches' = searches - 1
          /\ searchLine' = Tail(searchLine)
          /\ UNCHANGED <<details, accountLine, subscribed, asked, wants>>
      BY <2>3 DEF LeaveSearch, accountVars
    <3>2. Searchers' = Searchers \ {c} /\ c \in Searchers
      BY <2>a, <2>e, <3>1 DEF Searchers
    <3>3. Lined(searchLine', Searchers')
      BY <2>0, <3>1, <3>2, HeadLeaves DEF SearchInv
    <3>4. \A d \in Askers : doing[d] = "searching" => d = c
      BY <2>0, <3>1 DEF SearchInv
    <3>5. \A d \in Askers : doing'[d] # "searching"
      BY <2>a, <2>e, <3>1, <3>4
    <3>6. searches' = 0
      BY <2>0, <3>1 DEF SearchInv
    <3>. QED BY <2>a, <2>c, <2>d, <2>e, <3>1, <3>3, <3>5, <3>6 DEF ReadsInv, SearchInv
  <2>4. ASSUME NEW c \in Askers, ReadPortfolio(c) PROVE ReadsInv'
    <3>0. PICK a \in Accounts :
             /\ doing[c] = "idle" /\ wants' = [wants EXCEPT ![c] = a]
             /\ \/ Go(c, "reading") /\ UNCHANGED accountLine
                \/ Go(c, "subscribe_queued") /\ accountLine' = Append(accountLine, c)
             /\ UNCHANGED <<subscribed, asked, searchLine, searches, details>>
      BY <2>4 DEF ReadPortfolio, searchVars
    <3>1. /\ DOMAIN wants' = Askers /\ wants' = [d \in Askers |-> wants'[d]] /\ wants'[c] = a
          /\ \A d \in Askers : d # c => wants'[d] = wants[d]
      BY <2>0, <3>0 DEF AccountInv
    <3>2. PICK stop \in {"reading", "subscribe_queued"} : Go(c, stop)
      BY <3>0
    <3>3. SearchInv' /\ doing' \in [Askers -> Stages]
      BY <2>a, <2>b, <2>e, <3>0, <3>2
    <3>4. \A d \in Askers : /\ doing'[d] = "subscribing" <=> doing[d] = "subscribing"
                            /\ doing[d] = "subscribing" => d # c
      BY <2>a, <2>e, <3>0, <3>2
    <3>5. \A d \in Askers, b \in Accounts : IsSubscribing(d, b)' <=> IsSubscribing(d, b)
      BY <3>1, <3>4 DEF IsSubscribing
    <3>6. /\ Lined(accountLine', Subscribers')
          /\ accountLine # <<>> => Head(accountLine') = Head(accountLine)
      <4>1. CASE Go(c, "reading") /\ UNCHANGED accountLine
        <5>1. Subscribers' = Subscribers
          BY <2>a, <2>e, <3>0, <4>1 DEF Subscribers
        <5>. QED BY <2>0, <4>1, <5>1 DEF AccountInv
      <4>2. CASE Go(c, "subscribe_queued") /\ accountLine' = Append(accountLine, c)
        <5>1. Subscribers' = Subscribers \cup {c} /\ c \notin Subscribers
          BY <2>a, <2>e, <3>0, <4>2 DEF Subscribers
        <5>. QED BY <2>0, <4>2, <5>1, Joins DEF AccountInv
      <4>. QED BY <3>0, <4>1, <4>2
    <3>7. \A d \in Askers : doing[d] = "subscribing" => accountLine # <<>>
      <4>1. \A d \in Askers : doing[d] = "subscribing" => d \in Subscribers
        BY DEF Subscribers
      <4>2. Lined(accountLine, Subscribers)
        BY <2>0 DEF AccountInv
      <4>. QED BY <4>1, <4>2, SomebodyWaits
    <3>8. \A d \in Askers : doing'[d] = "subscribing" =>
             Head(accountLine') = d /\ wants'[d] \notin subscribed'
      BY <2>0, <3>0, <3>1, <3>4, <3>6, <3>7 DEF AccountInv
    <3>9. \A d \in Subscribers' : wants'[d] \in Accounts
      <4>1. \A d \in Subscribers' : d = c \/ d \in Subscribers
        BY <2>a, <2>e, <3>2 DEF Subscribers
      <4>. QED BY <2>0, <3>1, <4>1 DEF AccountInv, Subscribers
    <3>10. AccountInv'
      BY <2>0, <3>0, <3>1, <3>5, <3>6, <3>8, <3>9 DEF AccountInv
    <3>. QED BY <2>d, <3>0, <3>3, <3>10 DEF ReadsInv
  <2>5. ASSUME NEW c \in Askers, AlreadySubscribed(c) PROVE ReadsInv'
    <3>1. /\ doing[c] = "subscribe_queued" /\ Head(accountLine) = c /\ Go(c, "reading")
          /\ accountLine' = Tail(accountLine)
          /\ UNCHANGED <<wants, subscribed, asked, searchLine, searches, details>>
      BY <2>5 DEF AlreadySubscribed, HasSubscribeLock, searchVars
    <3>2. Subscribers' = Subscribers \ {c} /\ c \in Subscribers
      BY <2>a, <2>e, <3>1 DEF Subscribers
    <3>3. Lined(accountLine', Subscribers')
      BY <2>0, <3>1, <3>2, HeadLeaves DEF AccountInv
    <3>a. \A d \in Askers : doing[d] # "subscribing"
      BY <2>0, <3>1 DEF AccountInv
    <3>4. \A d \in Askers : doing[d] # "subscribing" /\ doing'[d] # "subscribing"
      BY <2>a, <2>e, <3>1, <3>a
    <3>5. AccountInv'
      BY <2>0, <3>1, <3>2, <3>3, <3>4 DEF AccountInv, IsSubscribing
    <3>. QED BY <2>a, <2>b, <2>d, <2>e, <3>1, <3>5 DEF ReadsInv
  <2>6. ASSUME NEW c \in Askers, SubscribeAccount(c) PROVE ReadsInv'
    <3>1. /\ doing[c] = "subscribe_queued" /\ Head(accountLine) = c /\ Go(c, "subscribing")
          /\ wants[c] \notin subscribed
          /\ asked' = [asked EXCEPT ![wants[c]] = @ + 1]
          /\ UNCHANGED <<wants, accountLine, subscribed, searchLine, searches, details>>
      BY <2>6 DEF SubscribeAccount, HasSubscribeLock, AnotherSubscribed, searchVars
    <3>2. Subscribers' = Subscribers
      BY <2>a, <2>e, <3>1 DEF Subscribers
    <3>3. \A d \in Askers : doing[d] # "subscribing"
      BY <2>0, <3>1 DEF AccountInv
    <3>4. \A d \in Askers : doing'[d] = "subscribing" <=> d = c
      BY <2>a, <2>e, <3>1, <3>3
    <3>5. wants[c] \in Accounts
      BY <2>0, <3>1 DEF AccountInv, Subscribers
    <3>6. /\ asked' \in [Accounts -> Nat]
          /\ \A a \in Accounts : asked'[a] = IF a = wants[c] THEN asked[a] + 1 ELSE asked[a]
      <4>1. PICK f \in [Accounts -> Nat] : f = asked
        BY <2>0 DEF AccountInv
      <4>2. PICK w \in Accounts : w = wants[c]
        BY <3>5
      <4>3. asked' = [f EXCEPT ![w] = f[w] + 1]
        BY <3>1, <4>1, <4>2
      <4>. QED BY <4>1, <4>2, <4>3
    <3>7. \A a \in Accounts : asked'[a] =
             IF a \in subscribed' \/ \E d \in Askers : IsSubscribing(d, a)' THEN 1 ELSE 0
      <4>1. \A a \in Accounts : asked[a] = IF a \in subscribed THEN 1 ELSE 0
        BY <2>0, <3>3 DEF AccountInv, IsSubscribing
      <4>2. \A a \in Accounts : (\E d \in Askers : IsSubscribing(d, a)') <=> a = wants[c]
        BY <3>1, <3>4 DEF IsSubscribing
      <4>3. subscribed' = subscribed /\ wants[c] \notin subscribed
        BY <3>1
      <4>. QED BY <3>6, <4>1, <4>2, <4>3
    <3>8. AccountInv'
      BY <2>0, <3>1, <3>2, <3>4, <3>6, <3>7 DEF AccountInv
    <3>. QED BY <2>a, <2>b, <2>d, <2>e, <3>1, <3>8 DEF ReadsInv
  <2>7. ASSUME NEW c \in Askers, SubscribeEnds(c) PROVE ReadsInv'
    <3>1. /\ doing[c] = "subscribing" /\ Go(c, "reading")
          /\ accountLine' = Tail(accountLine) /\ subscribed' = subscribed \cup {wants[c]}
          /\ UNCHANGED <<wants, asked, searchLine, searches, details>>
      BY <2>7 DEF SubscribeEnds, searchVars
    <3>2. Subscribers' = Subscribers \ {c} /\ c \in Subscribers
      BY <2>a, <2>e, <3>1 DEF Subscribers
    <3>3. Lined(accountLine', Subscribers')
      BY <2>0, <3>1, <3>2, HeadLeaves DEF AccountInv
    <3>a. \A d \in Askers : doing[d] = "subscribing" <=> d = c
      BY <2>0, <3>1 DEF AccountInv
    <3>4. \A d \in Askers : (doing[d] = "subscribing" <=> d = c) /\ doing'[d] # "subscribing"
      BY <2>a, <2>e, <3>1, <3>a
    <3>5. \A a \in Accounts : asked'[a] =
             IF a \in subscribed' \/ \E d \in Askers : IsSubscribing(d, a)' THEN 1 ELSE 0
      BY <2>0, <3>1, <3>4 DEF AccountInv, IsSubscribing
    <3>6. AccountInv'
      BY <2>0, <3>1, <3>2, <3>3, <3>4, <3>5 DEF AccountInv
    <3>. QED BY <2>a, <2>b, <2>d, <2>e, <3>1, <3>6 DEF ReadsInv
  <2>8. ASSUME NEW c \in Askers, SubscribeFails(c) PROVE ReadsInv'
    <3>1. /\ doing[c] = "subscribing" /\ Go(c, "done")
          /\ accountLine' = Tail(accountLine)
          /\ asked' = [asked EXCEPT ![wants[c]] = @ - 1]
          /\ UNCHANGED <<wants, subscribed, searchLine, searches, details>>
      BY <2>8 DEF SubscribeFails, searchVars
    <3>2. Subscribers' = Subscribers \ {c} /\ c \in Subscribers
      BY <2>a, <2>e, <3>1 DEF Subscribers
    <3>3. Lined(accountLine', Subscribers')
      BY <2>0, <3>1, <3>2, HeadLeaves DEF AccountInv
    <3>a. \A d \in Askers : doing[d] = "subscribing" <=> d = c
      BY <2>0, <3>1 DEF AccountInv
    <3>4. \A d \in Askers : (doing[d] = "subscribing" <=> d = c) /\ doing'[d] # "subscribing"
      BY <2>a, <2>e, <3>1, <3>a
    <3>5. wants[c] \in Accounts /\ wants[c] \notin subscribed
      BY <2>0, <3>1 DEF AccountInv, Subscribers
    <3>6. asked[wants[c]] = 1
      BY <2>0, <3>1, <3>5 DEF AccountInv, IsSubscribing
    <3>7. /\ asked' \in [Accounts -> Nat]
          /\ \A a \in Accounts : asked'[a] = IF a = wants[c] THEN 0 ELSE asked[a]
      <4>1. PICK f \in [Accounts -> Nat] : f = asked
        BY <2>0 DEF AccountInv
      <4>2. PICK w \in Accounts : w = wants[c] /\ f[w] = 1
        BY <3>5, <3>6, <4>1
      <4>3. asked' = [f EXCEPT ![w] = 0]
        BY <3>1, <4>1, <4>2
      <4>. QED BY <4>1, <4>2, <4>3
    <3>8. \A a \in Accounts : asked'[a] =
             IF a \in subscribed' \/ \E d \in Askers : IsSubscribing(d, a)' THEN 1 ELSE 0
      <4>1. \A a \in Accounts : a # wants[c] => asked[a] = IF a \in subscribed THEN 1 ELSE 0
        BY <2>0, <3>4 DEF AccountInv, IsSubscribing
      <4>2. \A a \in Accounts : ~\E d \in Askers : IsSubscribing(d, a)'
        BY <3>4 DEF IsSubscribing
      <4>. QED BY <3>1, <3>5, <3>7, <4>1, <4>2
    <3>9. AccountInv'
      BY <2>0, <3>1, <3>2, <3>3, <3>4, <3>7, <3>8 DEF AccountInv
    <3>. QED BY <2>a, <2>b, <2>d, <2>e, <3>1, <3>9 DEF ReadsInv
  <2>. DEFINE Apart == {"idle", "reading", "done"} \cup Lookups
  <2>f. Apart \cap {"search_queued", "searching", "subscribe_queued", "subscribing"} = {}
        /\ Apart \subseteq Stages
    BY DEF Lookups, Stages
  <2>9. ASSUME NEW c \in Askers, NEW stop \in Apart, doing[c] \in Apart, Go(c, stop),
               UNCHANGED <<searchLine, searches, accountVars>>,
               details' \in [Lookups -> {"none", "empty", "listing"}],
               details'["info"] # "empty"
        PROVE  ReadsInv'
    <3>. HIDE DEF Apart
    <3>1. stop \in Stages
      BY <2>f, <2>9
    <3>2. UNCHANGED <<accountLine, subscribed, asked, wants>>
      BY <2>9 DEF accountVars
    <3>3. doing' \in [Askers -> Stages]
      BY <2>9, <2>a, <3>1
    <3>4. SearchInv'
      BY <2>9, <2>b, <2>f, <3>1
    <3>5. AccountInv'
      BY <2>9, <2>c, <2>f, <3>1, <3>2
    <3>. QED BY <2>9, <3>3, <3>4, <3>5 DEF ReadsInv
  <2>10. ASSUME UNCHANGED <<doing, searchLine, searches, wants, accountLine, subscribed, asked>>,
                details' \in [Lookups -> {"none", "empty", "listing"}],
                details'["info"] # "empty"
         PROVE  ReadsInv'
    BY <2>10 DEF ReadsInv, SearchInv, AccountInv, Searchers, Subscribers, IsSubscribing
  <2>11. ASSUME NEW c \in Askers, ReadItems(c) PROVE ReadsInv'
    BY <2>11, <2>9, <2>d DEF ReadItems, searchVars
  <2>12. ASSUME NEW c \in Askers, Finished(c) PROVE ReadsInv'
    BY <2>12, <2>9, <2>d DEF Finished, searchVars
  <2>13. ASSUME NEW c \in Askers, LookUpFails(c) PROVE ReadsInv'
    BY <2>13, <2>9, <2>d DEF LookUpFails, searchVars
  <2>14. ASSUME NEW c \in Askers, NEW what \in Lookups, LookUp(c, what) PROVE ReadsInv'
    BY <2>14, <2>9, <2>d DEF LookUp, searchVars
  <2>15. ASSUME NEW c \in Askers, NEW what \in Lookups, LookedUp(c, what) PROVE ReadsInv'
    <3>1. /\ details' \in [Lookups -> {"none", "empty", "listing"}]
          /\ details'["info"] # "empty"
      BY <2>15 DEF LookedUp, Remembered, ReadsInv, Lookups
    <3>. QED BY <2>15, <2>9, <3>1 DEF LookedUp
  <2>16. CASE RateLimitPasses \/ EntryExpires \/ SessionRenewed
    BY <2>16, <2>10, <2>d DEF RateLimitPasses, EntryExpires, SessionRenewed, accountVars,
          searchVars
  <2>17. ASSUME NEW what \in Lookups, DetailsExpire(what) PROVE ReadsInv'
    <3>1. /\ details' \in [Lookups -> {"none", "empty", "listing"}]
          /\ details'["info"] # "empty"
      BY <2>17 DEF DetailsExpire, ReadsInv, Lookups
    <3>. QED BY <2>17, <2>10, <3>1 DEF DetailsExpire, accountVars
  <2>18. CASE UNCHANGED readVars
    BY <2>18, <2>10, <2>d DEF readVars
  <2>. QED BY <2>1, <2>2, <2>3, <2>4, <2>5, <2>6, <2>7, <2>8, <2>11, <2>12, <2>13, <2>14,
              <2>15, <2>16, <2>17, <2>18 DEF ReadsNext, SearchAnswered, SearchFails
<1>. QED BY <1>1, <1>2, PTL DEF ReadsSpec

\* For any callers and accounts: one search at a time, one subscription per account
\* that did not fail, and no conid remembered as unknown.
THEOREM AsksComeOnce == ReadsSpec => []AsksAreNotRepeated
<1>1. ReadsInv => AsksAreNotRepeated
  BY DEF ReadsInv, SearchInv, AccountInv, AsksAreNotRepeated
<1>. QED BY <1>1, ReadsInductive, PTL

-----------------------------------------------------------------------------
(* The lifespan of the process.                                            *)

\* The shutdown from its n-th step on.
FromStep(n) == SubSeq(Teardown, n, 8)

\* A step taken leaves the steps behind it.
LEMMA TeardownSteps ==
    /\ Teardown \in Seq(Parts) /\ Len(Teardown) = 8 /\ ToSet(Teardown) \subseteq Parts
    /\ FromStep(1) = Teardown /\ FromStep(9) = <<>>
    /\ \A n \in 1..8 : /\ FromStep(n) # <<>> /\ Head(FromStep(n)) = Teardown[n]
                       /\ Tail(FromStep(n)) = FromStep(n + 1)
<1>1. Teardown \in Seq(Parts) /\ Len(Teardown) = 8
  BY DEF Teardown, Parts
<1>2. FromStep(1) = Teardown
  BY <1>1, SubSeqFull DEF FromStep
<1>3. FromStep(9) = <<>>
  BY SubSeqEmpty DEF FromStep
<1>4. ASSUME NEW n \in 1..8
      PROVE  /\ FromStep(n) # <<>> /\ Head(FromStep(n)) = Teardown[n]
             /\ Tail(FromStep(n)) = FromStep(n + 1)
  <2>1. n \in 1..Len(Teardown) /\ 8 \in n..Len(Teardown)
    BY <1>1
  <2>2. /\ Head(FromStep(n)) = Teardown[n] /\ Tail(FromStep(n)) = FromStep(n + 1)
    BY <1>1, <2>1, HeadTailOfSubSeq DEF FromStep
  <2>3. \A i \in n..8 : Teardown[i] \in Parts
    BY <1>1, <2>1
  <2>4. Len(FromStep(n)) = 8 - n + 1
    BY <2>1, <2>3, SubSeqProperties DEF FromStep
  <2>. QED BY <2>2, <2>4
<1>5. ToSet(Teardown) \subseteq Parts
  <2>1. \A i \in 1..8 : Teardown[i] \in Parts
    BY <1>1, ElementOfSeq
  <2>. QED BY <1>1, <2>1 DEF ToSet
<1>. QED BY <1>1, <1>2, <1>3, <1>4, <1>5

\* How far the start is, in the order of its steps.
Past(reached) ==
    CASE reached = "backend" -> progress \in {"backend_chosen", "auto_login_decided",
              "services_built", "lifecycle_started", "pump_started", "serving"}
      [] reached = "services" -> progress \in {"services_built", "lifecycle_started",
              "pump_started", "serving"}
      [] reached = "pump" -> progress \in {"pump_started", "serving"}

\* A part whose stop has been tried runs on only if that raised; what is still fed or
\* used is not stopped before what feeds or uses it.
StopsInOrder(n) ==
    /\ stopping = FromStep(n)
    /\ \A i \in 1..(n - 1) : Teardown[i] \in parts => Teardown[i] \in broken
    /\ n <= 2 => "broadcaster" \in parts
    /\ n <= 7 /\ env.backend = "cp" => "cp_client" \in parts
    /\ n >= 7 => "lifecycle" \notin parts

LifespanInv ==
    /\ env \in Environments /\ parts \subseteq Parts
    /\ progress \notin {"new", "refused"} => ConfigIsValid(env)
    /\ "auto_login" \in parts => env.kind = "paper"
    /\ "write_access" \in parts => ~env.readOnly
    /\ "tws_client" \in parts => env.backend = "tws"
    /\ "push_source" \in parts \/ "cp_client" \in parts => env.backend = "cp"
    /\ progress \notin {"stopping", "stopped"} => broken = {} /\ stopping = <<>>
    /\ Past("backend") =>
          /\ "tws_client" \in parts <=> env.backend = "tws"
          /\ "cp_client" \in parts <=> env.backend = "cp"
    /\ Past("services") => "broadcaster" \in parts
    /\ IF Past("pump") THEN "orders_pump" \in parts <=> env.backend = "tws"
                       ELSE progress \in {"stopping", "stopped"} \/ "orders_pump" \notin parts
    /\ progress \in {"stopping", "stopped"} \/ ("push_source" \in parts <=> "ws_client" \in parts)
    /\ progress = "stopping" => \E n \in 1..9 : StopsInOrder(n)
    /\ progress = "stopped" => LifespanIsOrderly

\* A shutdown in order so far keeps what it promises.
LEMMA StoppingIsOrderly ==
    ASSUME NEW n \in 1..9, StopsInOrder(n), progress = "stopping"
    PROVE  LifespanIsOrderly
<1>1. n > 2 => 1 \in 1..(n - 1)
  OBVIOUS
<1>2. Teardown[1] = "orders_pump"
  BY DEF Teardown
<1>3. "orders_pump" \in parts \ broken => "broadcaster" \in parts
  BY <1>1, <1>2 DEF StopsInOrder
<1>4. "lifecycle" \in parts /\ env.backend = "cp" => "cp_client" \in parts
  BY DEF StopsInOrder
<1>. QED BY <1>3, <1>4 DEF LifespanIsOrderly

\* For any environment: the guards hold of a process that serves, and the shutdown
\* leaves nothing behind but what would not stop.
THEOREM LifespanStaysOrderly == LifespanSpec => []LifespanIsOrderly
<1>1. LifespanInit => LifespanInv
  BY DEF LifespanInit, LifespanInv, Past
<1>2. LifespanInv /\ [LifespanNext]_lifespanVars => LifespanInv'
  <2>. SUFFICES ASSUME LifespanInv, [LifespanNext]_lifespanVars PROVE LifespanInv'
    OBVIOUS
  <2>1. CASE Validate
    BY <2>1 DEF Validate, LifespanInv, Past, ConfigIsValid
  <2>2. CASE ChooseBackend
    <3>1. progress = "validated" /\ progress' = "backend_chosen" /\ UNCHANGED <<env, broken, stopping>>
      BY <2>2 DEF ChooseBackend, Goes
    <3>2. ConfigIsValid(env) /\ ConfigIsValid(env)'
      BY <3>1 DEF LifespanInv, ConfigIsValid
    <3>3. env.backend = "tws" \/ env.backend = "cp"
      BY DEF LifespanInv, Environments
    <3>4. CASE env.backend = "tws"
      <4>1. parts' = parts \cup {"tws_client"} \cup (IF env.readOnly THEN {} ELSE {"write_access"})
        BY <2>2, <3>4 DEF ChooseBackend
      <4>2. "cp_client" \notin parts
        BY <3>1, <3>4 DEF LifespanInv
      <4>. QED BY <3>1, <3>2, <3>4, <4>1, <4>2 DEF LifespanInv, Past, Parts
    <3>5. CASE env.backend = "cp"
      <4>1. parts' = parts \cup {"cp_client"}
        BY <2>2, <3>5 DEF ChooseBackend
      <4>. QED BY <3>1, <3>2, <3>5, <4>1 DEF LifespanInv, Past, Parts
    <3>. QED BY <3>3, <3>4, <3>5
  <2>3. CASE AttachAutoLogin
    BY <2>3 DEF AttachAutoLogin, Goes, LifespanInv, Past, ConfigIsValid, Parts
  <2>4. CASE BuildServices
    BY <2>4 DEF BuildServices, Goes, LifespanInv, Past, ConfigIsValid, Parts
  <2>5. CASE StartLifecycle
    BY <2>5 DEF StartLifecycle, LifespanInv, Past, ConfigIsValid, Parts
  <2>6. CASE StartPump
    BY <2>6 DEF StartPump, Goes, LifespanInv, Past, ConfigIsValid, Parts
  <2>7. CASE BuildSubscriptions
    BY <2>7 DEF BuildSubscriptions, Goes, LifespanInv, Past, ConfigIsValid, Parts
  <2>8. CASE BeginShutdown
    <3>0. /\ progress = "serving" /\ progress' = "stopping" /\ stopping' = FromStep(1)
          /\ UNCHANGED <<env, parts, broken>>
      BY <2>8, TeardownSteps DEF BeginShutdown, Goes
    <3>1. /\ "broadcaster" \in parts /\ broken = {}
          /\ "orders_pump" \in parts <=> env.backend = "tws"
          /\ "cp_client" \in parts <=> env.backend = "cp"
      BY <3>0 DEF LifespanInv, Past
    <3>2. StopsInOrder(1)'
      BY <3>0, <3>1 DEF StopsInOrder, FromStep
    <3>4. \E n \in 1..9 : StopsInOrder(n)'
      BY <3>2
    <3>5. ConfigIsValid(env)'
      BY <3>0 DEF LifespanInv, ConfigIsValid
    <3>. QED BY <3>0, <3>4, <3>5 DEF LifespanInv, Past
  <2>a. ASSUME progress = "stopping", progress' = "stopping", UNCHANGED env,
               parts' \subseteq parts, NEW m \in 1..9, StopsInOrder(m)'
        PROVE  LifespanInv'
    BY <2>a DEF LifespanInv, Past, ConfigIsValid
  <2>b. ASSUME progress = "stopping", progress' = "stopped", UNCHANGED <<env, parts>>,
               LifespanIsOrderly'
        PROVE  LifespanInv'
    BY <2>b DEF LifespanInv, Past, ConfigIsValid
  <2>9. CASE StopNext
    <3>1. /\ progress = "stopping" /\ stopping # <<>> /\ progress' = "stopping"
          /\ parts' = parts \ {Head(stopping)} /\ stopping' = Tail(stopping)
          /\ UNCHANGED <<env, broken>>
      BY <2>9 DEF StopNext
    <3>2. PICK n \in 1..9 : StopsInOrder(n)
      BY <3>1 DEF LifespanInv
    <3>3. n \in 1..8
      BY <3>1, <3>2, TeardownSteps DEF StopsInOrder
    <3>4. Head(stopping) = Teardown[n] /\ stopping' = FromStep(n + 1)
      BY <3>1, <3>2, <3>3, TeardownSteps DEF StopsInOrder
    <3>5. StopsInOrder(n + 1)'
      <4>1. \A i \in 1..n : Teardown[i] \in parts' => Teardown[i] \in broken'
        <5>1. \A i \in 1..n : i \in 1..(n - 1) \/ i = n
          BY <3>3
        <5>. QED BY <3>1, <3>2, <3>4, <5>1 DEF StopsInOrder
      <4>2. n + 1 <= 2 => "broadcaster" \in parts'
        <5>1. n + 1 <= 2 => n = 1 /\ Teardown[n] = "orders_pump"
          BY <3>3 DEF Teardown
        <5>. QED BY <3>1, <3>2, <3>3, <3>4, <5>1 DEF StopsInOrder
      <4>3. n + 1 <= 7 /\ env'.backend = "cp" => "cp_client" \in parts'
        <5>1. n + 1 <= 7 => n <= 7 /\ Teardown[n] # "cp_client"
          BY <3>3 DEF Teardown
        <5>. QED BY <3>1, <3>2, <3>4, <5>1 DEF StopsInOrder
      <4>4. n + 1 >= 7 => "lifecycle" \notin parts'
        <5>1. n + 1 >= 7 => n >= 7 \/ Teardown[n] = "lifecycle"
          BY <3>3 DEF Teardown
        <5>. QED BY <3>1, <3>2, <3>4, <5>1 DEF StopsInOrder
      <4>5. stopping' = FromStep(n + 1)'
        BY <3>4 DEF FromStep
      <4>6. n + 1 - 1 = n
        BY <3>3
      <4>. QED BY <4>1, <4>2, <4>3, <4>4, <4>5, <4>6 DEF StopsInOrder
    <3>. QED BY <3>1, <3>3, <3>5, <2>a
  <2>10. CASE StopRaises
    <3>1. /\ progress = "stopping" /\ stopping # <<>> /\ Head(stopping) \in parts
          /\ broken' = broken \cup {Head(stopping)} /\ UNCHANGED <<env, parts>>
      BY <2>10 DEF StopRaises
    <3>2. PICK n \in 1..9 : StopsInOrder(n)
      BY <3>1 DEF LifespanInv
    <3>3. n \in 1..8
      BY <3>1, <3>2, TeardownSteps DEF StopsInOrder
    <3>4. Head(stopping) = Teardown[n] /\ Tail(stopping) = FromStep(n + 1)
      BY <3>1, <3>2, <3>3, TeardownSteps DEF StopsInOrder
    <3>5. CASE Teardown[n] \in Guarded
      <4>1. progress' = "stopping" /\ stopping' = FromStep(n + 1)'
        BY <2>10, <3>4, <3>5, <3>1 DEF StopRaises, FromStep
      <4>2. \A i \in 1..n : Teardown[i] \in parts' => Teardown[i] \in broken'
        <5>1. \A i \in 1..n : i \in 1..(n - 1) \/ i = n
          BY <3>3
        <5>. QED BY <3>1, <3>2, <3>4, <5>1 DEF StopsInOrder
      <4>3. n <= 5
        BY <3>3, <3>5 DEF Teardown, Guarded
      <4>4. n + 1 - 1 = n /\ n + 1 \in 1..9
        BY <3>3
      <4>5. StopsInOrder(n + 1)'
        BY <3>1, <3>2, <4>1, <4>2, <4>3, <4>4 DEF StopsInOrder
      <4>. QED BY <3>1, <4>1, <4>4, <4>5, <2>a
    <3>6. CASE Teardown[n] \notin Guarded
      <4>1. progress' = "stopped"
        BY <2>10, <3>4, <3>6 DEF StopRaises
      <4>2. LifespanIsOrderly
        BY <3>1, <3>2, StoppingIsOrderly
      <4>3. ~(broken' \subseteq Guarded)
        BY <3>1, <3>4, <3>6
      <4>4. LifespanIsOrderly'
        BY <3>1, <4>1, <4>2, <4>3 DEF LifespanIsOrderly
      <4>. QED BY <3>1, <4>1, <4>4, <2>b
    <3>. QED BY <3>5, <3>6
  <2>11. CASE ProcessExits
    <3>1. /\ progress = "stopping" /\ progress' = "stopped" /\ stopping = <<>>
          /\ UNCHANGED <<env, parts, broken>>
      BY <2>11 DEF ProcessExits, Goes
    <3>2. PICK n \in 1..9 : StopsInOrder(n)
      BY <3>1 DEF LifespanInv
    <3>3. n = 9
      <4>1. n \notin 1..8
        BY <3>1, <3>2, TeardownSteps DEF StopsInOrder
      <4>. QED BY <4>1
    <3>4. ToSet(Teardown) \cap parts \subseteq broken
      <4>1. \A i \in 1..8 : Teardown[i] \in parts => Teardown[i] \in broken
        BY <3>2, <3>3 DEF StopsInOrder
      <4>2. DOMAIN Teardown = 1..8
        BY TeardownSteps
      <4>. QED BY <4>1, <4>2 DEF ToSet
    <3>5. LifespanIsOrderly
      BY <3>1, <3>2, StoppingIsOrderly
    <3>6. LifespanIsOrderly'
      BY <3>1, <3>4, <3>5 DEF LifespanIsOrderly
    <3>. QED BY <3>1, <3>6, <2>b
  <2>12. CASE UNCHANGED lifespanVars
    BY <2>12 DEF lifespanVars, LifespanInv, Past, ConfigIsValid, StopsInOrder,
           LifespanIsOrderly
  <2>. QED BY <2>1, <2>2, <2>3, <2>4, <2>5, <2>6, <2>7, <2>8, <2>9, <2>10, <2>11, <2>12
           DEF LifespanNext
<1>3. LifespanInv => LifespanIsOrderly
  <2>1. ASSUME LifespanInv, progress = "stopping" PROVE LifespanIsOrderly
    BY <2>1, StoppingIsOrderly DEF LifespanInv
  <2>2. ASSUME LifespanInv, progress = "serving" PROVE LifespanIsOrderly
    <3>1. "push_source" \in parts => "tws_client" \notin parts
      BY <2>2 DEF LifespanInv
    <3>2. env.kind = "live" => parts \cap {"auto_login", "write_access"} = {}
      BY <2>2 DEF LifespanInv, ConfigIsValid
    <3>. QED BY <2>2, <3>1, <3>2 DEF LifespanInv, LifespanIsOrderly, Past
  <2>3. ASSUME LifespanInv, progress \notin {"stopping", "serving"} PROVE LifespanIsOrderly
    BY <2>3 DEF LifespanInv, LifespanIsOrderly
  <2>. QED BY <2>1, <2>2, <2>3
<1>. QED BY <1>1, <1>2, <1>3, PTL DEF LifespanSpec

-----------------------------------------------------------------------------
(* The orders that the paper tests place.                                  *)

\* What has been seen was cancelled or is warned about; what may still be open is on the
\* list of the round, warned about, or was not to be seen.
CleanupInv ==
    /\ seenIds \subseteq TestOrders /\ newIds \subseteq TestOrders \ seenIds
    /\ \A o \in seenIds : o \in warned \/ standing[o] \in {"cancelling", "gone"}
    /\ \A o \in newIds : standing[o] \in {"open", "cancelling", "gone"}
    /\ step \in {"clean", "done"} => \A o \in TestOrders :
            standing[o] \in {"pending", "open"} => o \in warned \cup unseen \cup newIds
    /\ step \notin {"clean", "raised"} => newIds = {}

CancelledOnce ==
    /\ cancelledIds \in Seq(seenIds)
    /\ \A i, j \in 1..Len(cancelledIds) : cancelledIds[i] = cancelledIds[j] => i = j

\* Whatever is placed or cancelled is of a paper account with the switch off.
ActsOnPaper ==
    /\ testOrder \subseteq TestOrders
    /\ step \in {"submitted", "cancel", "cancelled"} => ~KillSwitchActive /\ IsPaperAccount
    /\ step = "clean" => IsPaperAccount
    /\ OthersStayUntouched

PaperInv ==
    /\ standing \in [TestOrders \cup OthersOrders -> OrderStates]
    /\ CleanupInv /\ CancelledOnce /\ ActsOnPaper

\* The broker's orders only ever go on: one that is listed stays so, or ends.
LEMMA StandingMoves ==
    ASSUME PaperInv, NEW o \in TestOrders \cup OthersOrders, NEW state \in OrderStates,
           standing' = [standing EXCEPT ![o] = state]
    PROVE  /\ standing' \in [TestOrders \cup OthersOrders -> OrderStates]
           /\ standing'[o] = state
           /\ \A p \in TestOrders \cup OthersOrders : p # o => standing'[p] = standing[p]
BY DEF PaperInv

\* Without a key nothing is placed and nothing cancelled.
LEMMA KeylessIsRefused == ~Accepts(NoKey) /\ Accepts("key")
BY DEF Accepts, NoKey

LEMMA BrokerKeeps ==
    ASSUME PaperInv, NEW o \in TestOrders \cup OthersOrders, OrderAppears(o) \/ OrderEnds(o)
    PROVE  PaperInv'
<1>1. UNCHANGED <<killSwitch, account, step, testOrder, round, seenIds, newIds, cancelledIds,
                  warned, spent, unseen>>
  BY DEF OrderAppears, OrderEnds, setting, testVars
<1>2. PICK state \in {"open", "gone"} :
         /\ standing' = [standing EXCEPT ![o] = state]
         /\ state = "open" => standing[o] = "pending"
         /\ standing[o] \in {"pending", "open", "cancelling"}
  BY DEF OrderAppears, OrderEnds, AtBroker
<1>3. /\ standing' \in [TestOrders \cup OthersOrders -> OrderStates] /\ standing'[o] = state
      /\ \A p \in TestOrders \cup OthersOrders : p # o => standing'[p] = standing[p]
  BY <1>2, StandingMoves DEF OrderStates
<1>4. CleanupInv'
  BY <1>1, <1>2, <1>3 DEF PaperInv, CleanupInv
<1>5. CancelledOnce'
  BY <1>1 DEF PaperInv, CancelledOnce
<1>6. ActsOnPaper'
  BY <1>1, <1>2, <1>3 DEF PaperInv, ActsOnPaper, OthersStayUntouched, KillSwitchActive,
     IsPaperAccount
<1>. QED BY <1>3, <1>4, <1>5, <1>6 DEF PaperInv

\* A step of the test before its clean-up, which may place an order or cancel the one it
\* has placed.
LEMMA TestKeeps ==
    ASSUME PaperInv,
           \/ \E o \in TestOrders : PlacesFar(o, "key") \/ PlaceWithoutKey(o)
           \/ \E closed \in SUBSET TestOrders : FlattenPositions(closed)
           \/ PlaceRefused \/ StatusReached \/ WaitTimesOut
           \/ CancelTestOrder("key") \/ \E o \in testOrder : CancelWithoutKey(o)
    PROVE  PaperInv'
<1>1. /\ step \notin {"clean", "done", "list", "raised"} /\ step' \notin {"clean", "done"}
      /\ UNCHANGED <<killSwitch, account, seenIds, newIds, cancelledIds, warned, unseen>>
  BY DEF PlacesFar, PlaceWithoutKey, FlattenPositions, PlaceRefused, StatusReached,
     WaitTimesOut, CancelTestOrder, CancelWithoutKey, ToCleanup, setting
<1>2. \/ standing' = standing
      \/ \E o \in TestOrders : \E state \in {"pending", "cancelling"} :
            /\ standing' = [standing EXCEPT ![o] = state]
            /\ standing[o] \in (IF state = "pending" THEN {"none"} ELSE {"pending", "open"})
            /\ ~KillSwitchActive /\ IsPaperAccount
  <2>1. CASE \E o \in TestOrders : PlacesFar(o, "key")
    BY <2>1 DEF PlacesFar, AtBroker
  <2>2. CASE \/ \E o \in TestOrders : PlaceWithoutKey(o)
             \/ \E o \in testOrder : CancelWithoutKey(o)
             \/ PlaceRefused \/ StatusReached \/ WaitTimesOut
    BY <2>2, KeylessIsRefused DEF PlaceWithoutKey, CancelWithoutKey, PlaceRefused, StatusReached,
       WaitTimesOut
  <2>3. CASE \E closed \in SUBSET TestOrders : FlattenPositions(closed)
    <3>1. standing' = [o \in DOMAIN standing |-> standing[o]]
      BY <2>3, KeylessIsRefused DEF FlattenPositions
    <3>. QED BY <3>1 DEF PaperInv
  <2>4. CASE CancelTestOrder("key")
    <3>1. CASE \E o \in testOrder : Cancelling(o)
      <4>1. PICK o \in testOrder : Cancelling(o)
        BY <3>1
      <4>2. o \in TestOrders /\ ~KillSwitchActive /\ IsPaperAccount
        BY <2>4, <4>1 DEF CancelTestOrder, PaperInv, ActsOnPaper
      <4>3. CASE standing[o] \in {"pending", "open"}
        BY <4>1, <4>2, <4>3 DEF Cancelling, AtBroker
      <4>4. CASE standing[o] \notin {"pending", "open"}
        <5>1. standing' = [standing EXCEPT ![o] = standing[o]]
          BY <4>1, <4>4 DEF Cancelling, AtBroker
        <5>2. standing' = standing
          BY <5>1 DEF PaperInv
        <5>. QED BY <5>2
      <4>. QED BY <4>3, <4>4
    <3>2. CASE ~\E o \in testOrder : Cancelling(o)
      BY <2>4, <3>2 DEF CancelTestOrder
    <3>. QED BY <3>1, <3>2
  <2>. QED BY <2>1, <2>2, <2>3, <2>4
<1>3. /\ testOrder' \subseteq TestOrders
      /\ step' \in {"submitted", "cancel", "cancelled"} => ~KillSwitchActive /\ IsPaperAccount
  BY DEF PlacesFar, PlaceWithoutKey, FlattenPositions, PlaceRefused, StatusReached,
     WaitTimesOut, CancelTestOrder, CancelWithoutKey, ToCleanup, PaperInv, ActsOnPaper
<1>4. CASE standing' = standing
  <2>1. CleanupInv'
    BY <1>1, <1>4 DEF PaperInv, CleanupInv
  <2>2. CancelledOnce'
    BY <1>1 DEF PaperInv, CancelledOnce
  <2>3. ActsOnPaper'
    BY <1>1, <1>3, <1>4 DEF PaperInv, ActsOnPaper, OthersStayUntouched, KillSwitchActive,
       IsPaperAccount
  <2>. QED BY <1>4, <2>1, <2>2, <2>3 DEF PaperInv
<1>5. CASE standing' # standing
  <2>1. PICK o \in TestOrders : \E state \in {"pending", "cancelling"} :
            /\ standing' = [standing EXCEPT ![o] = state]
            /\ standing[o] \in (IF state = "pending" THEN {"none"} ELSE {"pending", "open"})
            /\ ~KillSwitchActive /\ IsPaperAccount
    BY <1>2, <1>5
  <2>2. PICK state \in {"pending", "cancelling"} :
            /\ standing' = [standing EXCEPT ![o] = state]
            /\ standing[o] \in (IF state = "pending" THEN {"none"} ELSE {"pending", "open"})
            /\ ~KillSwitchActive /\ IsPaperAccount
    BY <2>1
  <2>3. /\ standing' \in [TestOrders \cup OthersOrders -> OrderStates] /\ standing'[o] = state
        /\ \A p \in TestOrders \cup OthersOrders : p # o => standing'[p] = standing[p]
    BY <2>2, StandingMoves DEF OrderStates
  <2>4. CleanupInv'
    BY <1>1, <2>2, <2>3 DEF PaperInv, CleanupInv
  <2>5. CancelledOnce'
    BY <1>1 DEF PaperInv, CancelledOnce
  <2>6. o \notin OthersOrders
    BY PaperRunsAssumption
  <2>7. ActsOnPaper'
    BY <1>1, <1>3, <2>2, <2>3, <2>6 DEF PaperInv, ActsOnPaper, OthersStayUntouched, KillSwitchActive,
       IsPaperAccount
  <2>. QED BY <2>3, <2>4, <2>5, <2>7 DEF PaperInv
<1>. QED BY <1>4, <1>5

\* One DELETE of the clean-up.
LEMMA CancelKeeps ==
    ASSUME PaperInv, NEW o \in newIds, CleanupCancel(o, "key")
    PROVE  PaperInv'
<1>1. /\ step = "clean" /\ ~KillSwitchActive /\ IsPaperAccount /\ o \in TestOrders
      /\ o \notin OthersOrders /\ o \notin seenIds
      /\ newIds' = newIds \ {o} /\ seenIds' = seenIds \cup {o}
      /\ UNCHANGED <<killSwitch, account, step, testOrder, unseen>>
  BY PaperRunsAssumption DEF CleanupCancel, setting, PaperInv, ActsOnPaper, CleanupInv
<1>2. PICK state \in OrderStates :
         /\ standing' = [standing EXCEPT ![o] = state]
         /\ \/ /\ state \in {"cancelling", "gone"} /\ warned' = warned
               /\ cancelledIds' = Append(cancelledIds, o)
            \/ state = standing[o] /\ warned' = warned \cup {o} /\ cancelledIds' = cancelledIds
  <2>1. standing[o] \in {"open", "cancelling", "gone"} /\ standing[o] \in OrderStates
    BY <1>1 DEF PaperInv, CleanupInv, OrderStates
  <2>2. CASE Cancelling(o) /\ cancelledIds' = Append(cancelledIds, o) /\ UNCHANGED warned
    <3>1. CASE standing[o] = "open"
      BY <2>2, <3>1 DEF Cancelling, AtBroker, OrderStates
    <3>2. CASE standing[o] # "open"
      BY <2>1, <2>2, <3>2 DEF Cancelling, AtBroker, OrderStates
    <3>. QED BY <3>1, <3>2
  <2>3. CASE warned' = warned \cup {o} /\ UNCHANGED <<standing, cancelledIds>>
    <3>1. standing = [standing EXCEPT ![o] = standing[o]]
      BY <1>1 DEF PaperInv
    <3>. QED BY <2>1, <2>3, <3>1
  <2>. QED BY <2>2, <2>3 DEF CleanupCancel
<1>3. /\ standing' \in [TestOrders \cup OthersOrders -> OrderStates] /\ standing'[o] = state
      /\ \A p \in TestOrders \cup OthersOrders : p # o => standing'[p] = standing[p]
  BY <1>1, <1>2, StandingMoves
<1>4. CleanupInv'
  <2>1. warned \subseteq warned' /\ (o \in warned' \/ standing'[o] \in {"cancelling", "gone"})
    BY <1>2, <1>3
  <2>. QED BY <1>1, <1>3, <2>1 DEF PaperInv, CleanupInv
<1>5. CancelledOnce'
  <2>1. CASE cancelledIds' = cancelledIds
    <3>1. cancelledIds \in Seq(seenIds \cup {o})
      <4>1. cancelledIds \in Seq(seenIds)
        BY DEF PaperInv, CancelledOnce
      <4>. QED BY <4>1, SeqMonotonic
    <3>. QED BY <1>1, <2>1, <3>1 DEF PaperInv, CancelledOnce
  <2>2. CASE cancelledIds' = Append(cancelledIds, o)
    <3>1. PICK c \in Seq(seenIds \cup {o}) : c = cancelledIds /\ \A i \in 1..Len(c) : c[i] \in seenIds
      <4>1. cancelledIds \in Seq(seenIds) /\ \A i \in 1..Len(cancelledIds) : cancelledIds[i] \in seenIds
        BY ElementOfSeq DEF PaperInv, CancelledOnce
      <4>2. cancelledIds \in Seq(seenIds \cup {o})
        BY <4>1, SeqMonotonic
      <4>. QED BY <4>1, <4>2
    <3>2. PICK n \in Nat : n = Len(c)
      OBVIOUS
    <3>3. PICK t \in Seq(seenIds \cup {o}) :
             t = Append(c, o) /\ Len(t) = n + 1 /\ t[n + 1] = o /\ \A i \in 1..n : t[i] = c[i]
      <4>1. /\ Append(c, o) \in Seq(seenIds \cup {o}) /\ Len(Append(c, o)) = Len(c) + 1
            /\ Append(c, o)[Len(c) + 1] = o /\ \A i \in 1..Len(c) : Append(c, o)[i] = c[i]
        BY AppendProperties
      <4>. QED BY <3>2, <4>1
    <3>4. ASSUME NEW i \in 1..(n + 1), NEW j \in 1..(n + 1), t[i] = t[j] PROVE i = j
      <4>1. (i \in 1..n \/ i = n + 1) /\ (j \in 1..n \/ j = n + 1)
        BY <3>2
      <4>2. \A k \in 1..n : t[k] # o
        BY <1>1, <3>1, <3>2, <3>3
      <4>3. i \in 1..n /\ j \in 1..n => i = j
        BY <3>1, <3>2, <3>3, <3>4 DEF PaperInv, CancelledOnce
      <4>. QED BY <3>3, <3>4, <4>1, <4>2, <4>3
    <3>5. cancelledIds' = t
      BY <2>2, <3>1, <3>3
    <3>. QED BY <1>1, <3>3, <3>4, <3>5 DEF CancelledOnce
  <2>. QED BY <1>2, <2>1, <2>2
<1>6. ActsOnPaper'
  BY <1>1, <1>3 DEF PaperInv, ActsOnPaper, OthersStayUntouched, KillSwitchActive, IsPaperAccount
<1>. QED BY <1>3, <1>4, <1>5, <1>6 DEF PaperInv

\* A look at the list, and what ends a clean-up or starts the next test.
LEMMA LookKeeps ==
    ASSUME PaperInv, LookForOrders \/ LookFails \/ NextRound \/ NextTest
    PROVE  PaperInv'
<1>1. UNCHANGED <<killSwitch, account, standing>>
  BY DEF LookForOrders, LookFails, NextRound, NextTest, setting
<1>2. CASE LookForOrders
  <2>1. /\ newIds' = Listed \ seenIds /\ UNCHANGED <<testOrder, seenIds, cancelledIds, warned>>
        /\ step' = (IF newIds' = {} THEN "done" ELSE "clean")
        /\ unseen' = {o \in TestOrders : standing[o] = "pending"} /\ IsPaperAccount
    BY <1>2 DEF LookForOrders
  <2>2. CleanupInv'
    BY <1>1, <2>1 DEF PaperInv, CleanupInv, Listed
  <2>3. CancelledOnce'
    BY <2>1 DEF PaperInv, CancelledOnce
  <2>4. ActsOnPaper'
    BY <1>1, <2>1 DEF PaperInv, ActsOnPaper, OthersStayUntouched, KillSwitchActive, IsPaperAccount
  <2>. QED BY <1>1, <2>2, <2>3, <2>4 DEF PaperInv
<1>3. CASE LookFails \/ NextRound
  <2>1. /\ UNCHANGED <<testOrder, seenIds, newIds, cancelledIds, warned>>
        /\ step' \in {"done", "list"}
        /\ \/ step = "list" /\ unseen' = TestOrders /\ step' = "done"
           \/ step = "clean" /\ newIds = {} /\ unseen' = unseen
    BY <1>3 DEF LookFails, NextRound
  <2>2. CleanupInv'
    BY <1>1, <2>1 DEF PaperInv, CleanupInv
  <2>3. CancelledOnce'
    BY <2>1 DEF PaperInv, CancelledOnce
  <2>4. ActsOnPaper'
    BY <1>1, <2>1 DEF PaperInv, ActsOnPaper, OthersStayUntouched, KillSwitchActive, IsPaperAccount
  <2>. QED BY <1>1, <2>2, <2>3, <2>4 DEF PaperInv
<1>4. CASE NextTest
  <2>1. /\ step' = "place" /\ seenIds' = {} /\ newIds' = {} /\ cancelledIds' = << >>
        /\ testOrder' = {}
    BY <1>4 DEF NextTest
  <2>2. CleanupInv' /\ CancelledOnce'
    BY <2>1 DEF CleanupInv, CancelledOnce
  <2>3. ActsOnPaper'
    BY <1>1, <2>1 DEF PaperInv, ActsOnPaper, OthersStayUntouched, KillSwitchActive, IsPaperAccount
  <2>. QED BY <1>1, <2>2, <2>3 DEF PaperInv
<1>. QED BY <1>2, <1>3, <1>4

LEMMA RaiseKeeps ==
    ASSUME PaperInv, CleanupRaises
    PROVE  PaperInv'
<1>1. /\ step' = "raised"
      /\ UNCHANGED <<killSwitch, account, testOrder, seenIds, newIds, cancelledIds, warned, unseen>>
  BY DEF CleanupRaises, setting
<1>2. \/ standing' = standing
      \/ /\ ~KillSwitchActive /\ IsPaperAccount
         /\ \E o \in newIds : standing' = [standing EXCEPT ![o] = "cancelling"] /\ standing[o] = "open"
  <2>1. CASE standing' # standing
    <3>1. PICK o \in newIds : Cancelling(o)
      BY <2>1 DEF CleanupRaises
    <3>2. ~KillSwitchActive /\ IsPaperAccount
      BY <2>1 DEF CleanupRaises, PaperInv, ActsOnPaper
    <3>3. standing[o] = "open"
      <4>1. standing[o] \in {"open", "cancelling", "gone"}
        BY DEF PaperInv, CleanupInv
      <4>2. standing = [standing EXCEPT ![o] = standing[o]]
        BY DEF PaperInv, CleanupInv
      <4>. QED BY <2>1, <3>1, <4>1, <4>2 DEF Cancelling, AtBroker
    <3>4. standing' = [standing EXCEPT ![o] = "cancelling"]
      BY <3>1, <3>3 DEF Cancelling, AtBroker
    <3>. QED BY <3>2, <3>3, <3>4
  <2>. QED BY <2>1
<1>3. CancelledOnce'
  BY <1>1 DEF PaperInv, CancelledOnce
<1>4. CASE standing' = standing
  <2>1. CleanupInv'
    BY <1>1, <1>4 DEF PaperInv, CleanupInv
  <2>2. ActsOnPaper'
    BY <1>1, <1>4 DEF PaperInv, ActsOnPaper, OthersStayUntouched, KillSwitchActive, IsPaperAccount
  <2>. QED BY <1>3, <1>4, <2>1, <2>2 DEF PaperInv
<1>5. CASE standing' # standing
  <2>1. PICK o \in newIds : standing' = [standing EXCEPT ![o] = "cancelling"] /\ standing[o] = "open"
    BY <1>2, <1>5
  <2>2. o \in TestOrders /\ o \notin OthersOrders
    BY PaperRunsAssumption DEF PaperInv, CleanupInv
  <2>3. /\ standing' \in [TestOrders \cup OthersOrders -> OrderStates] /\ standing'[o] = "cancelling"
        /\ \A p \in TestOrders \cup OthersOrders : p # o => standing'[p] = standing[p]
    BY <2>1, <2>2, StandingMoves DEF OrderStates
  <2>4. CleanupInv'
    BY <1>1, <2>2, <2>3 DEF PaperInv, CleanupInv
  <2>5. ActsOnPaper'
    BY <1>1, <1>2, <1>5, <2>2, <2>3 DEF PaperInv, ActsOnPaper, OthersStayUntouched,
       KillSwitchActive, IsPaperAccount
  <2>. QED BY <1>3, <2>3, <2>4, <2>5 DEF PaperInv
<1>. QED BY <1>4, <1>5

LEMMA PaperInductive == PaperSpec => []PaperInv
<1>1. PaperInit => PaperInv
  <2>. SUFFICES ASSUME PaperInit PROVE PaperInv
    OBVIOUS
  <2>1. standing \in [TestOrders \cup OthersOrders -> OrderStates]
    BY DEF PaperInit, OrderStates
  <2>2. CleanupInv /\ CancelledOnce
    BY DEF PaperInit, CleanupInv, CancelledOnce
  <2>3. ActsOnPaper
    BY DEF PaperInit, ActsOnPaper, OthersStayUntouched
  <2>. QED BY <2>1, <2>2, <2>3 DEF PaperInv
<1>2. ASSUME PaperInv, PaperNext PROVE PaperInv'
  <2>1. DOMAIN standing = TestOrders \cup OthersOrders
    BY <1>2 DEF PaperInv
  <2>. QED BY <1>2, <2>1, TestKeeps, LookKeeps, CancelKeeps, RaiseKeeps, BrokerKeeps
           DEF PaperNext, PlaceFar, PlaceStopFar
<1>3. ASSUME PaperInv, UNCHANGED paperVars PROVE PaperInv'
  BY <1>3 DEF paperVars, PaperInv, CleanupInv, CancelledOnce, ActsOnPaper, OthersStayUntouched,
     KillSwitchActive, IsPaperAccount
<1>. QED BY <1>1, <1>2, <1>3, PTL DEF PaperSpec

\* For any accounts, orders and rounds: nothing is left behind unnoticed, each order is
\* cancelled once, and nothing but a paper account's orders is touched.
THEOREM NothingIsLeft == PaperSpec => []TestsTidyUp
<1>1. PaperInv => TestsTidyUp
  <2>. SUFFICES ASSUME PaperInv PROVE TestsTidyUp
    OBVIOUS
  <2>1. DOMAIN cancelledIds = 1..Len(cancelledIds)
    BY DEF PaperInv, CancelledOnce
  <2>2. IsInjective(cancelledIds)
    BY <2>1 DEF PaperInv, CancelledOnce, IsInjective
  <2>3. ASSUME step = "done", NEW o \in TestOrders, standing[o] = "open"
        PROVE  o \in warned \cup unseen
    BY <2>3 DEF PaperInv, CleanupInv
  <2>. QED BY <2>2, <2>3 DEF PaperInv, ActsOnPaper, TestsTidyUp, NothingForgotten
<1>. QED BY <1>1, PaperInductive, PTL

-----------------------------------------------------------------------------
(* What the TWS profile tells of its orders.                               *)

HeldInv ==
    /\ held \in Seq(Holding) /\ Len(held) <= MaxHeld
    /\ \A n \in 1..Len(held) :
            /\ held[n].permId \in {0, PermOf(n)}
            /\ held[n].limit = "price" <=> n \in LimitOrders

\* The session's orders bear orderIds of their own, all of them given already; those
\* without one have a permId.
CachedInv ==
    /\ cached \subseteq 1..Len(held)
    /\ nextOrderId \in 1..(Len(held) + 1)
    /\ \A n \in cached :
            /\ held[n].orderId < nextOrderId
            /\ held[n].orderId = 0 => held[n].permId # 0
    /\ \A m, n \in cached : held[m].orderId = held[n].orderId /\ held[n].orderId # 0 => m = n

\* The id is the permId of order n, or an orderId given already that no other order of
\* the session has.
Names(id, n) ==
    \/ id = PermOf(n) /\ held[n].permId = PermOf(n)
    \/ /\ id \in 1..(nextOrderId - 1)
       /\ \A m \in cached : held[m].orderId = id => m = n

\* Who is told an id is told one that names the order, until the numbering ends.
GivenInv ==
    /\ given \subseteq [id : Nat, order : 1..Len(held), stale : BOOLEAN]
    /\ \A g \in given : g.stale \/ Names(g.id, g.order)

\* What is executed has been echoed.
ExecsInv ==
    \A e \in execs : e.order \in 1..Len(held) /\ held[e.order].permId = PermOf(e.order)

ViewsInv == HeldInv /\ CachedInv /\ GivenInv /\ ExecsInv

LEMMA HeldIsDomain ==
    ASSUME HeldInv
    PROVE  /\ Held = 1..Len(held) /\ Len(held) \in Nat
           /\ \A n \in 1..Len(held) : held[n] \in Holding /\ PermOf(n) > MaxHeld
BY IdsAssumption DEF HeldInv, Held, PermOf

\* No permId is a permId of two orders, or an orderId.
LEMMA IdsDiffer ==
    ASSUME NEW m \in Nat, NEW n \in Nat
    PROVE  /\ PermOf(m) \in Nat /\ (PermOf(m) = PermOf(n) => m = n)
           /\ PermOf(m) \notin 0..MaxHeld
           /\ 1..MaxHeld \subseteq 0..MaxHeld /\ 0 \in 0..MaxHeld /\ 0 \notin 1..MaxHeld
BY IdsAssumption DEF PermOf

LEMMA MinOfOne == ASSUME NEW n \in Int PROVE Min({n}) = n
<1>1. n <= n
  OBVIOUS
<1>2. \A x \in {n} : (\A y \in {n} : x <= y) <=> x = n
  BY <1>1
<1> QED  BY <1>2 DEF Min

\* An order that changes keeps its orderId, its permId once it has one, and its account;
\* so every id still names what it named.
LEMMA OrderChanges ==
    ASSUME ViewsInv, NEW n \in 1..Len(held), NEW order \in Holding,
           held' = [held EXCEPT ![n] = order],
           order.orderId = held[n].orderId,
           order.permId \in {held[n].permId, PermOf(n)},
           held[n].permId # 0 => order.permId = held[n].permId,
           order.limit = "price" <=> held[n].limit = "price",
           UNCHANGED <<cached, nextOrderId>>
    PROVE  /\ HeldInv' /\ CachedInv'
           /\ \A m \in 1..Len(held), id \in Nat : Names(id, m) => Names(id, m)'
           /\ UNCHANGED given => GivenInv'
           /\ UNCHANGED execs => ExecsInv'
           /\ Len(held') = Len(held)
           /\ \A m \in 1..Len(held) : held'[m] = IF m = n THEN order ELSE held[m]
<1>1. held \in Seq(Holding) /\ Len(held) \in Nat /\ Held = 1..Len(held)
  BY HeldIsDomain DEF ViewsInv, HeldInv
<1>2. held' \in Seq(Holding) /\ Len(held') = Len(held)
  BY <1>1
<1>3. \A m \in 1..Len(held) : held'[m] = IF m = n THEN order ELSE held[m]
  BY <1>1 DEF Held
<1>4. \A m \in 1..Len(held) :
         /\ held'[m].orderId = held[m].orderId
         /\ held'[m].permId \in {0, PermOf(m)}
         /\ held[m].permId # 0 => held'[m].permId = held[m].permId
         /\ held'[m].limit = "price" <=> m \in LimitOrders
  BY <1>3 DEF ViewsInv, HeldInv
<1>5. HeldInv'
  BY <1>2, <1>4 DEF ViewsInv, HeldInv, PermOf
<1>6. CachedInv'
  BY <1>2, <1>4 DEF ViewsInv, CachedInv
<1>7. \A m \in 1..Len(held) : PermOf(m) # 0
  BY IdsAssumption, <1>1 DEF PermOf
<1>8. \A m \in 1..Len(held), id \in Nat : Names(id, m) => Names(id, m)'
  BY <1>4, <1>7 DEF ViewsInv, CachedInv, Names, PermOf
<1>9. ASSUME UNCHANGED given  PROVE GivenInv'
  BY <1>2, <1>8, <1>9 DEF ViewsInv, GivenInv
<1>10. ASSUME UNCHANGED execs  PROVE ExecsInv'
  BY <1>2, <1>4, <1>7, <1>10 DEF ViewsInv, ExecsInv, PermOf
<1> QED  BY <1>2, <1>3, <1>5, <1>6, <1>8, <1>9, <1>10

\* The id an order of the session is shown with names it.
LEMMA ShownIdNames ==
    ASSUME ViewsInv, NEW n \in cached
    PROVE  ShownId(n) \in Nat /\ Names(ShownId(n), n) /\ n \in 1..Len(held)
<1>1. /\ n \in 1..Len(held) /\ held[n] \in Holding /\ n \in Nat
      /\ nextOrderId \in Nat /\ held[n].orderId \in 0..MaxHeld /\ MaxHeld \in Nat
  BY HeldIsDomain, IdsAssumption DEF ViewsInv, CachedInv, Holding
<1>2. CASE held[n].permId # 0
  <2>1. ShownId(n) = PermOf(n) /\ held[n].permId = PermOf(n)
    BY <1>1, <1>2 DEF ShownId, ViewsInv, HeldInv
  <2> QED  BY <1>1, <2>1, IdsDiffer DEF Names
<1>3. CASE held[n].permId = 0
  <2>1. ShownId(n) = held[n].orderId /\ held[n].orderId # 0
    BY <1>3 DEF ShownId, ViewsInv, CachedInv
  <2>2. held[n].orderId \in 1..(nextOrderId - 1)
    BY <1>1, <2>1 DEF ViewsInv, CachedInv
  <2>3. \A m \in cached : held[m].orderId = held[n].orderId => m = n
    BY <2>1 DEF ViewsInv, CachedInv
  <2> QED  BY <1>1, <2>1, <2>2, <2>3 DEF Names
<1> QED  BY <1>2, <1>3

\* Telling more ids that name their order leaves all that were told right.
LEMMA MoreIsTold ==
    ASSUME ViewsInv, NEW more, given' = given \cup more,
           1..Len(held) \subseteq 1..Len(held'),
           \A m \in 1..Len(held), id \in Nat : Names(id, m) => Names(id, m)',
           \A g \in more : \E n \in 1..Len(held'), id \in Nat :
                g = Told(id, n) /\ Names(id, n)'
    PROVE  GivenInv'
<1>1. ASSUME NEW g \in given
      PROVE  /\ g \in [id : Nat, order : 1..Len(held'), stale : BOOLEAN]
             /\ g.stale \/ Names(g.id, g.order)'
  <2>1. g \in [id : Nat, order : 1..Len(held), stale : BOOLEAN]
    BY DEF ViewsInv, GivenInv
  <2>2. /\ g \in [id : Nat, order : 1..Len(held'), stale : BOOLEAN]
        /\ g.id \in Nat /\ g.order \in 1..Len(held)
    BY <2>1
  <2>3. g.stale \/ Names(g.id, g.order)
    BY DEF ViewsInv, GivenInv
  <2>. QED BY <2>2, <2>3
<1>2. ASSUME NEW g \in more
      PROVE  /\ g \in [id : Nat, order : 1..Len(held'), stale : BOOLEAN]
             /\ Names(g.id, g.order)'
  <2>1. PICK n \in 1..Len(held'), id \in Nat : g = Told(id, n) /\ Names(id, n)'
    OBVIOUS
  <2>2. g = [id |-> id, order |-> n, stale |-> FALSE]
    BY <2>1 DEF Told
  <2>3. g.id = id /\ g.order = n
    BY <2>2
  <2>. QED BY <2>1, <2>2, <2>3
<1>. QED BY <1>1, <1>2 DEF GivenInv

LEMMA OneMoreIsTold ==
    ASSUME ViewsInv, 1..Len(held) \subseteq 1..Len(held'),
           \A m \in 1..Len(held), id \in Nat : Names(id, m) => Names(id, m)',
           NEW n \in 1..Len(held'), NEW j \in Nat, Names(j, n)',
           given' = given \cup {Told(j, n)}
    PROVE  GivenInv'
<1>1. PICK more : more = {Told(j, n)}
  OBVIOUS
<1>2. given' = given \cup more
  BY <1>1
<1>3. \A g \in more : \E m \in 1..Len(held'), id \in Nat : g = Told(id, m) /\ Names(id, m)'
  BY <1>1
<1>. QED BY <1>2, <1>3, MoreIsTold

LEMMA ViewsPlaced ==
    ASSUME ViewsInv, NEW a \in Owners, OrderPlaced(a)
    PROVE  ViewsInv'
<1> DEFINE n == Len(held) + 1
           order == [orderId |-> nextOrderId, permId |-> 0, account |-> a,
                     limit |-> IF n \in LimitOrders THEN "price" ELSE "unset",
                     status |-> "PendingSubmit", filled |-> 0]
<1>1. held \in Seq(Holding) /\ Len(held) \in Nat /\ n \in Nat /\ n <= MaxHeld
  BY HeldIsDomain DEF ViewsInv, HeldInv, OrderPlaced
<1>2. held' = Append(held, order) /\ cached' = cached \cup {n}
      /\ nextOrderId' = nextOrderId + 1 /\ execs' = execs
      /\ given' = given \cup {Told(nextOrderId, n)}
  BY DEF OrderPlaced, Tell
<1>3. nextOrderId \in 1..n /\ nextOrderId \in Nat /\ nextOrderId \in 0..MaxHeld
  BY <1>1, IdsAssumption DEF ViewsInv, CachedInv
<1>4. order \in Holding
  BY <1>1, <1>3, IdsAssumption DEF Holding, LimitFields, IBStatuses
<1>5. order.orderId = nextOrderId /\ order.permId = 0 /\ nextOrderId # 0
      /\ (order.limit = "price" <=> n \in LimitOrders)
  BY <1>3
<1> HIDE DEF order
<1>6. /\ held' \in Seq(Holding) /\ Len(held') = n /\ held'[n] = order
      /\ \A m \in 1..Len(held) : held'[m] = held[m]
  BY <1>1, <1>2, <1>4
<1>7. 1..n = (1..Len(held)) \cup {n} /\ n \notin 1..Len(held)
  BY <1>1
<1> HIDE DEF n
<1>8. HeldInv'
  BY <1>1, <1>5, <1>6, <1>7, SMTT(30) DEF ViewsInv, HeldInv, PermOf
<1>9. \A m \in cached : m \in 1..Len(held) /\ held'[m] = held[m] /\ held[m].orderId < nextOrderId
                        /\ held[m].orderId \in Int
  BY <1>6, HeldIsDomain DEF ViewsInv, CachedInv, Holding
<1>10. CachedInv'
  <2>1. cached' \subseteq 1..n
    BY <1>2, <1>7 DEF ViewsInv, CachedInv
  <2>2. nextOrderId' \in 1..(n + 1)
    BY <1>1, <1>2, <1>3
  <2>3. \A m \in cached' : /\ held'[m].orderId < nextOrderId'
                           /\ held'[m].orderId = 0 => held'[m].permId # 0
    BY <1>2, <1>3, <1>5, <1>6, <1>9 DEF ViewsInv, CachedInv
  <2>4. \A m, k \in cached' : held'[m].orderId = held'[k].orderId /\ held'[k].orderId # 0 => m = k
    BY <1>2, <1>3, <1>5, <1>6, <1>9 DEF ViewsInv, CachedInv
  <2> QED  BY <1>6, <2>1, <2>2, <2>3, <2>4 DEF CachedInv
<1>11. GivenInv'
  <2>1. ASSUME NEW m \in 1..Len(held), NEW id \in Nat, Names(id, m)
        PROVE  Names(id, m)'
    <3>1. CASE id = PermOf(m) /\ held[m].permId = PermOf(m)
      BY <1>6, <3>1 DEF Names, PermOf
    <3>2. CASE /\ id \in 1..(nextOrderId - 1)
               /\ \A k \in cached : held[k].orderId = id => k = m
      <4>1. id \in 1..(nextOrderId' - 1) /\ id # nextOrderId
        BY <1>2, <1>3, <3>2
      <4>2. \A k \in cached' : held'[k].orderId = id => k = m
        BY <1>2, <1>5, <1>6, <1>9, <3>2, <4>1
      <4> QED  BY <4>1, <4>2 DEF Names
    <3> QED  BY <2>1, <3>1, <3>2 DEF Names
  <2>2. PICK id \in Nat : id = nextOrderId
    BY <1>3
  <2>3. PICK m \in 1..Len(held') : m = n
    BY <1>6, <1>7
  <2>4. Names(id, m)'
    <3>1. id \in 1..(nextOrderId' - 1)
      BY <1>2, <1>3, <2>2
    <3>2. ASSUME NEW k \in cached', held'[k].orderId = id  PROVE k = m
      <4>1. CASE k \in cached
        <5>1. held[k].orderId < nextOrderId /\ held[k].orderId = nextOrderId
          BY <1>9, <2>2, <3>2, <4>1
        <5>. QED BY <1>3, <5>1
      <4>. QED BY <1>2, <2>3, <4>1
    <3> QED  BY <3>1, <3>2 DEF Names
  <2>5. given' = given \cup {Told(id, m)}
    BY <1>2, <2>2, <2>3
  <2>6. 1..Len(held) \subseteq 1..Len(held')
    BY <1>6, <1>7
  <2> QED  BY <2>1, <2>4, <2>5, <2>6, OneMoreIsTold
<1>12. ExecsInv'
  BY <1>2, <1>6, <1>7 DEF ViewsInv, ExecsInv, PermOf
<1> QED  BY <1>8, <1>10, <1>11, <1>12 DEF ViewsInv

LEMMA ViewsEchoed ==
    ASSUME ViewsInv, NEW n \in Held, OrderEchoed(n)
    PROVE  ViewsInv'
<1>1. Held = 1..Len(held) /\ held[n] \in Holding /\ n \in 1..MaxHeld
      /\ held \in Seq(Holding)
  BY HeldIsDomain, IdsAssumption DEF ViewsInv, HeldInv
<1> DEFINE order == [held[n] EXCEPT !.permId = PermOf(n),
                          !.limit = IF held[n].limit = "unset" THEN "zero" ELSE held[n].limit]
<1>2. held' = [held EXCEPT ![n] = order]
  BY <1>1 DEF OrderEchoed, Holding
<1>3. order \in Holding
  BY <1>1 DEF Holding, LimitFields
<1>4. order.orderId = held[n].orderId /\ order.permId = PermOf(n) /\ held[n].permId = 0
      /\ (order.limit = "price" <=> held[n].limit = "price")
  BY <1>1 DEF Holding, OrderEchoed, LimitFields
<1>5. UNCHANGED <<cached, nextOrderId, execs, given>>
  BY DEF OrderEchoed
<1> HIDE DEF order
<1> QED  BY <1>1, <1>2, <1>3, <1>4, <1>5, OrderChanges DEF ViewsInv

LEMMA ViewsStatus ==
    ASSUME ViewsInv, NEW n \in Held, NEW status \in IBStatuses, NEW filled \in 0..Shares,
           StatusHeard(n, status, filled)
    PROVE  ViewsInv'
<1>1. Held = 1..Len(held) /\ held[n] \in Holding /\ n \in 1..Len(held)
  BY HeldIsDomain DEF ViewsInv
<1> DEFINE order == [held[n] EXCEPT !.status = status, !.filled = filled]
<1>2. held' = [held EXCEPT ![n] = order]
  BY <1>1 DEF StatusHeard, Holding
<1>3. order \in Holding
  BY <1>1 DEF Holding
<1>4. order.orderId = held[n].orderId /\ order.permId = held[n].permId
      /\ (order.limit = "price" <=> held[n].limit = "price")
  BY <1>1 DEF Holding
<1>5. UNCHANGED <<cached, nextOrderId, execs>> /\ given' = given \cup {Told(ShownId(n), n)}
  BY DEF StatusHeard, Tell
<1> HIDE DEF order
<1>6. HeldInv' /\ CachedInv' /\ ExecsInv' /\ Len(held') = Len(held)
      /\ \A m \in 1..Len(held), id \in Nat : Names(id, m) => Names(id, m)'
  BY <1>1, <1>2, <1>3, <1>4, <1>5, OrderChanges
<1>7. ShownId(n) \in Nat /\ Names(ShownId(n), n)
  BY ShownIdNames DEF StatusHeard
<1>8. GivenInv'
  <2>1. PICK id \in Nat : id = ShownId(n) /\ Names(id, n)
    BY <1>7
  <2>2. given' = given \cup {Told(id, n)} /\ Names(id, n)'
    BY <1>1, <1>5, <1>6, <2>1
  <2>3. n \in 1..Len(held') /\ 1..Len(held) \subseteq 1..Len(held')
    BY <1>1, <1>6
  <2> QED  BY <1>6, <2>2, <2>3, OneMoreIsTold
<1> QED  BY <1>6, <1>8 DEF ViewsInv

LEMMA ViewsOthers ==
    ASSUME ViewsInv,
           \/ \E n \in Held : FillHeard(n) \/ OrderRead(n)
           \/ \E a \in Owners : TradesRead(a)
    PROVE  ViewsInv'
<1>1. held' = held /\ cached' = cached /\ nextOrderId' = nextOrderId
  BY DEF FillHeard, OrderRead, TradesRead
<1>2. HeldInv' /\ CachedInv' /\ \A m, id : Names(id, m)' <=> Names(id, m)
  BY <1>1 DEF ViewsInv, HeldInv, CachedInv, Names, PermOf
<1>3. Held = 1..Len(held)
  BY HeldIsDomain DEF ViewsInv
<1>4. ASSUME NEW n \in Held, FillHeard(n)  PROVE ViewsInv'
  <2>1. held[n].permId = PermOf(n)
    BY <1>3, <1>4 DEF FillHeard, ViewsInv, HeldInv
  <2>2. execs' = execs \cup {[order |-> n, nth |-> Cardinality(FillsOf(n))]} /\ given' = given
    BY <1>4 DEF FillHeard
  <2>3. ExecsInv'
    BY <1>1, <1>3, <2>1, <2>2 DEF ViewsInv, ExecsInv, PermOf
  <2>4. GivenInv'
    BY <1>1, <1>2, <2>2 DEF ViewsInv, GivenInv
  <2> QED  BY <1>2, <2>3, <2>4 DEF ViewsInv
<1>5. ASSUME NEW n \in Held, OrderRead(n)  PROVE ViewsInv'
  <2>1. execs' = execs /\ given' = given \cup {Told(ShownId(n), n)}
    BY <1>5 DEF OrderRead, Tell
  <2>2. ShownId(n) \in Nat /\ Names(ShownId(n), n)
    BY <1>5, ShownIdNames DEF OrderRead
  <2>3. GivenInv'
    <3>1. PICK id \in Nat : id = ShownId(n) /\ Names(id, n)
      BY <2>2
    <3>2. given' = given \cup {Told(id, n)} /\ Names(id, n)' /\ n \in 1..Len(held')
      BY <1>1, <1>2, <1>3, <2>1, <3>1
    <3> QED  BY <1>1, <1>2, <3>2, OneMoreIsTold
  <2>4. ExecsInv'
    BY <1>1, <2>1 DEF ViewsInv, ExecsInv, PermOf
  <2> QED  BY <1>2, <2>3, <2>4 DEF ViewsInv
<1>6. ASSUME NEW a \in Owners, TradesRead(a)  PROVE ViewsInv'
  <2>1. /\ execs' = execs
        /\ given' = given \cup {Told(TradeRow(e).id, e.order) :
                                e \in ExecutionsOf(a, FillsFetched(execs))}
    BY <1>6 DEF TradesRead
  <2>2. ExecutionsOf(a, FillsFetched(execs)) \subseteq execs
    BY DEF ExecutionsOf, FillsFetched
  <2>3. \A e \in execs : e.order \in 1..Len(held) /\ Names(PermOf(e.order), e.order)
                         /\ PermOf(e.order) \in Nat
    <3> SUFFICES ASSUME NEW e \in execs
                 PROVE  /\ e.order \in 1..Len(held) /\ Names(PermOf(e.order), e.order)
                        /\ PermOf(e.order) \in Nat
      OBVIOUS
    <3>1. e.order \in 1..Len(held) /\ held[e.order].permId = PermOf(e.order)
      BY DEF ViewsInv, ExecsInv
    <3>2. e.order \in Nat
      BY <3>1, HeldIsDomain DEF ViewsInv
    <3> QED  BY <3>1, <3>2, IdsDiffer DEF Names
  <2>4. GivenInv'
    <3> DEFINE more == {Told(PermOf(e.order), e.order) : e \in ExecutionsOf(a, FillsFetched(execs))}
    <3>1. given' = given \cup more
      BY <2>1 DEF TradeRow
    <3>2. \A g \in more : \E n \in 1..Len(held), id \in Nat : g = Told(id, n) /\ Names(id, n)
      BY <2>2, <2>3
    <3> HIDE DEF more
    <3> QED  BY <1>1, <1>2, <3>1, <3>2, MoreIsTold
  <2>5. ExecsInv'
    BY <1>1, <2>1 DEF ViewsInv, ExecsInv, PermOf
  <2> QED  BY <1>2, <2>4, <2>5 DEF ViewsInv
<1> QED  BY <1>4, <1>5, <1>6

\* Orders found again have no orderId, or the one they had in the same numbering.
LEMMA ViewsFoundAgain ==
    ASSUME ViewsInv, NEW same \in BOOLEAN,
           NEW inactive \in SUBSET Held, NEW completed \in SUBSET Held,
           SessionFoundAgain(same, inactive, completed)
    PROVE  ViewsInv'
<1> DEFINE open == IF same THEN OpenTrades \cup inactive ELSE {}
           Again(n) == IF n \in completed
                       THEN [held[n] EXCEPT !.orderId = 0, !.filled = 0]
                       ELSE held[n]
<1>1. /\ held \in Seq(Holding) /\ Len(held) \in Nat /\ Held = 1..Len(held)
      /\ \A n \in 1..Len(held) : held[n] \in Holding
  BY HeldIsDomain DEF ViewsInv, HeldInv
<1>2. /\ held' = [n \in 1..Len(held) |-> Again(n)]
      /\ cached' = open \cup completed /\ execs' = execs
      /\ nextOrderId' = IF same THEN nextOrderId ELSE 1
      /\ given' = {[g EXCEPT !.stale = @ \/ (~same /\ g.id <= PermBase)] : g \in given}
  BY <1>1 DEF SessionFoundAgain
<1>3. open \subseteq cached /\ open \cap completed = {} /\ (~same => open = {})
  BY DEF SessionFoundAgain, OpenTrades
<1>4. \A n \in completed : n \in 1..Len(held) /\ held[n].permId # 0
  BY <1>1 DEF SessionFoundAgain
<1>5. \A n \in 1..Len(held) :
         /\ Again(n) \in Holding
         /\ Again(n).permId = held[n].permId /\ Again(n).limit = held[n].limit
         /\ n \in completed => Again(n).orderId = 0
         /\ n \notin completed => Again(n).orderId = held[n].orderId
  <2> SUFFICES ASSUME NEW n \in 1..Len(held)
               PROVE  /\ Again(n) \in Holding
                      /\ Again(n).permId = held[n].permId /\ Again(n).limit = held[n].limit
                      /\ n \in completed => Again(n).orderId = 0
                      /\ n \notin completed => Again(n).orderId = held[n].orderId
    OBVIOUS
  <2>1. held[n] \in Holding /\ 0 \in 0..MaxHeld /\ 0 \in 0..Shares
    BY <1>1, IdsAssumption
  <2>2. CASE n \in completed
    BY <2>1, <2>2 DEF Holding
  <2>3. CASE n \notin completed
    BY <2>1, <2>3
  <2> QED  BY <2>2, <2>3
<1>6. held' \in Seq(Holding) /\ Len(held') = Len(held)
      /\ \A n \in 1..Len(held) : held'[n] = Again(n)
  <2> HIDE DEF Again
  <2> QED  BY <1>1, <1>2, <1>5
<1> HIDE DEF Again
<1>7. HeldInv'
  BY <1>5, <1>6 DEF ViewsInv, HeldInv, PermOf
<1>8. ExecsInv'
  BY <1>2, <1>5, <1>6 DEF ViewsInv, ExecsInv, PermOf
<1>9. \A n \in cached' : /\ n \in 1..Len(held)
                         /\ \/ n \in completed /\ held'[n].orderId = 0
                            \/ n \in open /\ n \in cached /\ same
                               /\ held'[n].orderId = held[n].orderId
  BY <1>2, <1>3, <1>4, <1>5, <1>6 DEF ViewsInv, CachedInv
<1>10. CachedInv'
  <2>1. cached' \subseteq 1..Len(held')
    BY <1>6, <1>9
  <2>2. nextOrderId' \in 1..(Len(held') + 1)
    BY <1>1, <1>2, <1>6 DEF ViewsInv, CachedInv
  <2>3. ASSUME NEW n \in cached'
        PROVE  held'[n].orderId < nextOrderId' /\ (held'[n].orderId = 0 => held'[n].permId # 0)
    <3>1. held'[n].permId = held[n].permId
      BY <1>5, <1>6, <1>9
    <3>2. CASE n \in completed /\ held'[n].orderId = 0
      BY <1>1, <1>4, <2>2, <3>1, <3>2, <1>6
    <3>3. CASE n \in open /\ n \in cached /\ same /\ held'[n].orderId = held[n].orderId
      BY <1>2, <3>1, <3>3 DEF ViewsInv, CachedInv
    <3> QED  BY <1>9, <3>2, <3>3
  <2>4. \A m, n \in cached' :
           held'[m].orderId = held'[n].orderId /\ held'[n].orderId # 0 => m = n
    BY <1>9 DEF ViewsInv, CachedInv
  <2> QED  BY <2>1, <2>2, <2>3, <2>4 DEF CachedInv
<1>11. GivenInv'
  <2> DEFINE After(g) == [g EXCEPT !.stale = @ \/ (~same /\ g.id <= PermBase)]
  <2>1. ASSUME NEW g \in given
        PROVE  /\ After(g) \in [id : Nat, order : 1..Len(held), stale : BOOLEAN]
               /\ After(g).stale \/ Names(After(g).id, After(g).order)'
    <3>1. g \in [id : Nat, order : 1..Len(held), stale : BOOLEAN]
          /\ (g.stale \/ Names(g.id, g.order))
      BY DEF ViewsInv, GivenInv
    <3>2. /\ After(g) \in [id : Nat, order : 1..Len(held), stale : BOOLEAN]
          /\ After(g).id = g.id /\ After(g).order = g.order
          /\ After(g).stale = (g.stale \/ (~same /\ g.id <= PermBase))
      BY <3>1
    <3> HIDE DEF After
    <3>3. CASE g.id = PermOf(g.order) /\ held[g.order].permId = PermOf(g.order)
      <4>1. held'[g.order].permId = PermOf(g.order)
        BY <1>5, <1>6, <3>1, <3>3
      <4> QED  BY <3>2, <3>3, <4>1 DEF Names, PermOf
    <3>4. CASE /\ g.id \in 1..(nextOrderId - 1)
               /\ \A m \in cached : held[m].orderId = g.id => m = g.order
      <4>1. CASE same
        <5>1. g.id \in 1..(nextOrderId' - 1) /\ g.id # 0
          BY <1>2, <3>1, <3>4, <4>1
        <5>2. \A m \in cached' : held'[m].orderId = g.id => m = g.order
          BY <1>9, <3>4, <5>1
        <5> QED  BY <3>2, <5>1, <5>2 DEF Names
      <4>2. CASE ~same
        <5>1. nextOrderId \in 1..(Len(held) + 1) /\ Len(held) <= MaxHeld
          BY DEF ViewsInv, CachedInv, HeldInv
        <5>2. g.id <= PermBase
          BY <1>1, <3>4, <5>1, IdsAssumption
        <5> QED  BY <3>2, <4>2, <5>2
      <4> QED  BY <4>1, <4>2
    <3> QED  BY <3>1, <3>2, <3>3, <3>4 DEF Names
  <2>2. given' = {After(g) : g \in given}
    BY <1>2
  <2> HIDE DEF After
  <2> QED  BY <1>6, <2>1, <2>2 DEF GivenInv
<1> QED  BY <1>7, <1>8, <1>10, <1>11 DEF ViewsInv

LEMMA ViewsInductive == OrderViewsSpec => []ViewsInv
<1>1. OrderViewsInit => ViewsInv
  <2> SUFFICES ASSUME OrderViewsInit PROVE ViewsInv
    OBVIOUS
  <2>1. held = <<>> /\ Len(held) = 0 /\ held \in Seq(Holding)
    BY DEF OrderViewsInit
  <2> QED  BY <2>1, IdsAssumption
           DEF OrderViewsInit, ViewsInv, HeldInv, CachedInv, GivenInv, ExecsInv
<1>2. ViewsInv /\ [OrderViewsNext]_orderViewVars => ViewsInv'
  <2> SUFFICES ASSUME ViewsInv, [OrderViewsNext]_orderViewVars  PROVE ViewsInv'
    OBVIOUS
  <2>1. CASE UNCHANGED orderViewVars
    BY <2>1 DEF orderViewVars, ViewsInv, HeldInv, CachedInv, GivenInv, ExecsInv, Names, PermOf
  <2>2. CASE OrderViewsNext
    BY <2>2, ViewsPlaced, ViewsEchoed, ViewsStatus, ViewsOthers, ViewsFoundAgain
       DEF OrderViewsNext
  <2> QED  BY <2>1, <2>2
<1> QED  BY <1>1, <1>2, PTL DEF OrderViewsSpec

\* No order of the session has an id that names another one.
LEMMA OneHasTheId ==
    ASSUME ViewsInv, NEW m \in 1..Len(held), NEW id \in Nat, Names(id, m)
    PROVE  Min({m}) = m /\ \A n \in cached : HasId(n, id) => n = m
<1>0. Min({m}) = m
  <2>1. m \in Int
    BY HeldIsDomain DEF ViewsInv
  <2> QED  BY <2>1, MinOfOne
<1> SUFFICES ASSUME NEW n \in cached, HasId(n, id)  PROVE n = m
  BY <1>0
<1>1. /\ m \in Nat /\ n \in Nat /\ n \in 1..Len(held)
      /\ held[n].orderId \in 0..MaxHeld /\ held[n].permId \in {0, PermOf(n)}
      /\ nextOrderId \in 1..(MaxHeld + 1) /\ MaxHeld \in Nat
  BY HeldIsDomain, IdsAssumption DEF ViewsInv, HeldInv, CachedInv, Holding
<1>2. /\ PermOf(n) = PermOf(m) => n = m
      /\ PermOf(m) \notin 0..MaxHeld /\ PermOf(n) \notin 0..MaxHeld /\ 0 \in 0..MaxHeld
  BY <1>1, IdsDiffer
<1>3. id = held[n].permId \/ id = held[n].orderId
  BY DEF HasId
<1>4. CASE id = PermOf(m)
  BY <1>1, <1>2, <1>3, <1>4
<1>5. CASE id \in 1..(nextOrderId - 1) /\ \A k \in cached : held[k].orderId = id => k = m
  <2>1. id \in 0..MaxHeld /\ id # 0
    BY <1>1, <1>5
  <2> QED  BY <1>1, <1>2, <1>3, <1>5, <2>1
<1> QED  BY <1>4, <1>5 DEF Names

LEMMA ViewsHold == ViewsInv => OrderViewsTypeOK /\ IdsFindTheirOrder /\ EndingsAgree
<1> SUFFICES ASSUME ViewsInv PROVE OrderViewsTypeOK /\ IdsFindTheirOrder /\ EndingsAgree
  OBVIOUS
<1>1. Held = 1..Len(held) /\ Len(held) \in Nat /\ held \in Seq(Holding) /\ Len(held) <= MaxHeld
      /\ \A n \in 1..Len(held) : held[n] \in Holding /\ PermOf(n) > MaxHeld
  BY HeldIsDomain DEF ViewsInv, HeldInv
<1>2. OrderViewsTypeOK
  BY <1>1, IdsAssumption
     DEF OrderViewsTypeOK, ViewsInv, CachedInv, GivenInv, ExecsInv
<1>3. IdsFindTheirOrder
  <2> SUFFICES ASSUME NEW g \in given, ~g.stale,
                      NEW holder \in {"", held[g.order].account}
               PROVE  /\ FindTrade(g.id, holder) \in {0, g.order}
                      /\ g.order \in cached
                           /\ g.id \in {held[g.order].orderId, held[g.order].permId}
                         => FindTrade(g.id, holder) = g.order
    BY DEF IdsFindTheirOrder
  <2> DEFINE hits == {n \in cached : HasId(n, g.id) /\ holder \in {"", held[n].account}}
  <2>1. g.order \in 1..Len(held) /\ g.id \in Nat /\ Names(g.id, g.order)
    BY DEF ViewsInv, GivenInv
  <2>2. hits \subseteq {g.order}
    BY <2>1, OneHasTheId
  <2>3. FindTrade(g.id, holder) = IF hits = {} THEN 0 ELSE Min(hits)
    BY DEF FindTrade
  <2>4. Min({g.order}) = g.order
    BY <2>1, OneHasTheId
  <2>5. g.order \in cached /\ g.id \in {held[g.order].orderId, held[g.order].permId}
          => g.order \in hits
    BY DEF HasId
  <2> HIDE DEF hits
  <2>6. CASE hits = {}
    BY <2>3, <2>5, <2>6
  <2>7. CASE hits # {}
    <3>1. hits = {g.order}
      BY <2>2, <2>7
    <3> QED  BY <2>3, <2>4, <3>1, <2>7
  <2> QED  BY <2>6, <2>7
<1>4. EndingsAgree
  <2> SUFFICES ASSUME NEW n \in cached
               PROVE  /\ FrameView(n).status = "filled" <=> OrderView(n).status = "FILLED"
                      /\ FrameView(n).status = "cancelled" <=> OrderView(n).status = "CANCELLED"
                      /\ n \notin BootstrapOf(held[n].account)
                            <=> \/ FrameView(n).status \in {"filled", "cancelled"}
                                \/ FrameView(n).raw = "Inactive"
                      /\ OrderView(n).limit = "price" <=> n \in LimitOrders
    BY DEF EndingsAgree
  <2>1. n \in 1..Len(held)
    BY DEF ViewsInv, CachedInv
  <2>2. held[n].limit = "price" <=> n \in LimitOrders
    BY <2>1 DEF ViewsInv, HeldInv
  <2>3. /\ FrameView(n).status = FrameStatusOf(held[n].status)
        /\ FrameView(n).raw = held[n].status
        /\ OrderView(n).status = OrderStatusOf(held[n].status)
        /\ OrderView(n).limit = PriceOrNone(held[n].limit)
    BY DEF FrameView, OrderView
  <2>4. held[n].status \in IBStatuses
    BY <1>1, <2>1 DEF Holding
  <2>5. /\ FrameStatusOf(held[n].status) = "filled" <=> held[n].status = "Filled"
        /\ FrameStatusOf(held[n].status) = "cancelled" <=> held[n].status = "Cancelled"
    BY DEF FrameStatusOf
  <2>6. /\ OrderStatusOf(held[n].status) = "FILLED" <=> held[n].status = "Filled"
        /\ OrderStatusOf(held[n].status) = "CANCELLED" <=> held[n].status = "Cancelled"
    BY DEF OrderStatusOf
  <2>7. n \notin BootstrapOf(held[n].account)
          <=> held[n].status \in {"Filled", "Cancelled", "Inactive"}
    BY DEF BootstrapOf, OpenTrades, DoneStatuses, FinalStatuses
  <2>8. PriceOrNone(held[n].limit) = "price" <=> held[n].limit = "price"
    BY DEF PriceOrNone
  <2> QED  BY <2>2, <2>3, <2>5, <2>6, <2>7, <2>8
<1> QED  BY <1>2, <1>3, <1>4

\* For any number of accounts, orders and reconnects: an id once told leads to the order
\* it was told for and to no other while its numbering lasts; what is final in a frame is
\* final in a GET and gone from the bootstrap, whose gaps are just those orders and the
\* inactive ones (tws/orders.py:26-29, 126, 463).
THEOREM OrdersAreTold == OrderViewsSpec => [](OrderViewsTypeOK /\ OrdersAreToldTruly)
<1>1. ViewsInv => OrderViewsTypeOK /\ OrdersAreToldTruly
  BY ViewsHold DEF OrdersAreToldTruly
<1> QED  BY <1>1, ViewsInductive, PTL

-----------------------------------------------------------------------------
(* The token store.                                                        *)

\* Reading a token back keeps it a token, and reading it twice changes nothing more.
LEMMA ReadBack ==
    ASSUME NEW t \in Tokens \cup {NoToken}
    PROVE  /\ Deserialized(t) \in Tokens \cup {NoToken}
           /\ Deserialized(Deserialized(t)) = Deserialized(t)
           /\ t \in Tokens => Deserialized(t) # NoToken
           /\ t = NoToken => Deserialized(t) = NoToken
<1>1. CASE t = NoToken
  <2>1. t \notin Tokens
    BY <1>1 DEF NoToken, Tokens, AllScopes, Withdrawn
  <2>2. QED
    BY <1>1, <2>1 DEF Deserialized
<1>2. CASE t # NoToken
  <2>1. t \in Tokens
    BY <1>2
  <2>2. PICK s \in SUBSET (AllScopes \cup Withdrawn), e \in BOOLEAN :
          t = [scopes |-> s, expires |-> e]
    BY <2>1 DEF Tokens
  <2>3. Deserialized(t) = [scopes |-> s \cap AllScopes, expires |-> e]
    BY <1>2, <2>2 DEF Deserialized
  <2>4. Deserialized(t) # NoToken
    BY <2>3 DEF NoToken, AllScopes
  <2>5. Deserialized(Deserialized(t)) = [scopes |-> (s \cap AllScopes) \cap AllScopes,
                                         expires |-> e]
    BY <2>3, <2>4 DEF Deserialized
  <2>6. Deserialized(t) \in Tokens
    BY <2>3 DEF Tokens
  <2>7. (s \cap AllScopes) \cap AllScopes = s \cap AllScopes
    OBVIOUS
  <2>8. QED
    BY <1>2, <2>3, <2>4, <2>5, <2>6, <2>7
<1>3. QED
  BY <1>1, <1>2

\* A token that is issued reads back as itself.
LEMMA IssuedReadsBack ==
    ASSUME NEW t \in Issued
    PROVE  t \in Tokens /\ t # NoToken /\ Deserialized(t) = t
<1>1. PICK s \in SUBSET AllScopes, e \in BOOLEAN : t = [scopes |-> s, expires |-> e]
  BY TokensAssumption DEF AllScopes
<1>2. t \in Tokens
  BY <1>1 DEF Tokens
<1>3. t # NoToken
  BY <1>1 DEF NoToken, AllScopes
<1>4. s \cap AllScopes = s
  OBVIOUS
<1>5. QED
  BY <1>1, <1>2, <1>3, <1>4 DEF Deserialized

-----------------------------------------------------------------------------
\* What else holds of the store: a request in flight has a process, and what memory
\* holds has been read back.
TokenInv ==
    /\ TokensTypeOK
    /\ AnswersAreDurable
    /\ \A c \in Callers : request[c].op # "none" => serving
    /\ \A v \in Values : Deserialized(memory[v]) = memory[v]

LEMMA InitTokens == TokensInit => TokenInv
<1> SUFFICES ASSUME TokensInit PROVE TokenInv
  OBVIOUS
<1>1. NoToken \in Tokens \cup {NoToken} /\ Deserialized(NoToken) = NoToken
  BY DEF Deserialized
<1>2. request \in [Callers -> [op : {"none", "create", "revoke"}, target : Values]]
  BY TokensAssumption DEF TokensInit, NoRequest
<1>3. memory \in [Values -> Tokens \cup {NoToken}] /\ \A v \in Values : memory[v] = NoToken
  BY DEF TokensInit, NoTokens
<1>4. \A c \in Callers : request[c].op = "none"
  BY DEF TokensInit, NoRequest
<1> DEFINE Old == [scopes |-> {"orders:read"} \cup Withdrawn, expires |-> FALSE]
<1>5. Old \in Tokens
  BY DEF Tokens, AllScopes, Withdrawn
<1>6. Old # NoToken
  BY DEF NoToken, Withdrawn
<1>7. /\ disk \in [Values -> Tokens \cup {NoToken}]
      /\ acked \in [Values -> {"free", "created", "revoked", "unsure"}]
      /\ \A v \in Values : acked[v] = "free" \/ (acked[v] = "created" /\ disk[v] # NoToken)
  <2>1. CASE disk = NoTokens /\ acked = [v \in Values |-> "free"]
    BY <2>1 DEF NoTokens
  <2>2. CASE \E v \in Values \ {Bootstrap} :
               /\ disk = [NoTokens EXCEPT ![v] = Old]
               /\ acked = [u \in Values |-> IF u = v THEN "created" ELSE "free"]
    <3>1. PICK v \in Values \ {Bootstrap} :
               /\ disk = [NoTokens EXCEPT ![v] = Old]
               /\ acked = [u \in Values |-> IF u = v THEN "created" ELSE "free"]
      BY <2>2
    <3> HIDE DEF Old
    <3>2. QED
      BY <3>1, <1>5, <1>6 DEF NoTokens
  <2>3. QED
    BY <2>1, <2>2 DEF TokensInit
<1>8. serving = FALSE /\ late = FALSE /\ watching = {}
  BY DEF TokensInit
<1>9. TokensTypeOK
  BY <1>2, <1>3, <1>7, <1>8 DEF TokensTypeOK
<1>10. AnswersAreDurable
  BY <1>7, <1>8 DEF AnswersAreDurable
<1>11. QED
  BY <1>1, <1>3, <1>4, <1>9, <1>10 DEF TokenInv

-----------------------------------------------------------------------------
\* Every write of the store replaces the file by what memory is to hold, or fails.
\* Tokens that a step changes only in this way keep their answers.
LEMMA WriteKeepsAnswers ==
    ASSUME TokenInv, serving, NEW tokens \in [Values -> Tokens \cup {NoToken}],
           NEW done \in BOOLEAN, Persisted(tokens, done),
           NEW v \in Values \ {Bootstrap}, tokens[v] = memory[v]
    PROVE  /\ acked[v] = "revoked" => tokens[v] = NoToken /\ disk'[v] = NoToken
           /\ acked[v] = "created" =>
                 disk'[v] # NoToken /\ tokens[v] = Deserialized(disk'[v])
<1>1. disk'[v] \in {disk[v], memory[v]}
  BY DEF Persisted
<1>2. disk[v] \in Tokens \cup {NoToken} /\ memory[v] \in Tokens \cup {NoToken}
  BY DEF TokenInv, TokensTypeOK
<1>3. Deserialized(memory[v]) = memory[v]
  BY DEF TokenInv
<1>4. CASE acked[v] = "revoked"
  BY <1>1, <1>4 DEF TokenInv, AnswersAreDurable
<1>5. CASE acked[v] = "created"
  <2>1. disk[v] # NoToken /\ memory[v] = Deserialized(disk[v])
    BY <1>5 DEF TokenInv, AnswersAreDurable
  <2>2. memory[v] # NoToken
    BY <1>2, <2>1, ReadBack
  <2>3. QED
    BY <1>1, <1>3, <1>5, <2>1, <2>2
<1>6. QED
  BY <1>4, <1>5

LEMMA CreateKeeps ==
    ASSUME TokenInv, NEW c \in Callers, Create(c)
    PROVE  TokenInv'
<1>1. serving /\ serving' = serving /\ late' = late /\ watching' = watching
  BY DEF Create, TokenInv
<1>2. PICK u \in Values, t \in Issued, done \in BOOLEAN :
        /\ memory' = [memory EXCEPT ![u] = t]
        /\ Persisted(memory', done)
        /\ acked' = [acked EXCEPT ![u] = IF done THEN "created" ELSE "unsure"]
  BY DEF Create
<1>3. t \in Tokens /\ t # NoToken /\ Deserialized(t) = t
  BY IssuedReadsBack
<1>4. memory' \in [Values -> Tokens \cup {NoToken}] /\ disk' \in [Values -> Tokens \cup {NoToken}]
  BY <1>2, <1>3 DEF TokenInv, TokensTypeOK, Persisted
<1>5. acked' \in [Values -> {"free", "created", "revoked", "unsure"}]
  BY <1>2 DEF TokenInv, TokensTypeOK
<1>6. request' = [request EXCEPT ![c] = NoRequest]
  BY DEF Create
<1>7. request' \in [Callers -> [op : {"none", "create", "revoke"}, target : Values]]
  BY <1>6, TokensAssumption DEF TokenInv, TokensTypeOK, NoRequest
<1>8. TokensTypeOK'
  BY <1>1, <1>4, <1>5, <1>7 DEF TokenInv, TokensTypeOK
<1>9. \A v \in Values : Deserialized(memory'[v]) = memory'[v]
  BY <1>2, <1>3 DEF TokenInv, TokensTypeOK
<1>10. AnswersAreDurable'
  <2> SUFFICES ASSUME NEW v \in Values \ {Bootstrap}
               PROVE  /\ acked'[v] = "revoked" => memory'[v] = NoToken /\ disk'[v] = NoToken
                      /\ acked'[v] = "created" =>
                            /\ disk'[v] # NoToken
                            /\ serving' => memory'[v] = Deserialized(disk'[v])
    BY DEF AnswersAreDurable
  <2>1. CASE v = u
    BY <1>2, <1>3, <2>1 DEF TokenInv, TokensTypeOK, Persisted
  <2>2. CASE v # u
    <3>1. memory'[v] = memory[v] /\ acked'[v] = acked[v]
      BY <1>2, <2>2 DEF TokenInv, TokensTypeOK
    <3>2. QED
      BY <1>1, <1>2, <1>4, <3>1, WriteKeepsAnswers
  <2>3. QED
    BY <2>1, <2>2
<1>11. \A d \in Callers : request'[d].op # "none" => serving'
  BY <1>1
<1>12. QED
  BY <1>8, <1>9, <1>10, <1>11 DEF TokenInv

LEMMA RevokeKeeps ==
    ASSUME TokenInv, NEW c \in Callers, Revoke(c)
    PROVE  TokenInv'
<1> DEFINE u == request[c].target
<1>1. serving /\ serving' = serving /\ late' = late /\ watching' = watching
  BY DEF Revoke, TokenInv
<1>2. u \in Values
  BY DEF TokenInv, TokensTypeOK
<1>3. request' = [request EXCEPT ![c] = NoRequest]
  BY DEF Revoke
<1>4. request' \in [Callers -> [op : {"none", "create", "revoke"}, target : Values]]
  BY <1>3, TokensAssumption DEF TokenInv, TokensTypeOK, NoRequest
<1>5. CASE memory[u] = NoToken
  <2>1. memory' = memory /\ disk' = disk /\ acked' = acked
    BY <1>5 DEF Revoke
  <2>2. QED
    BY <1>1, <1>4, <2>1 DEF TokenInv, TokensTypeOK, AnswersAreDurable
<1>6. CASE memory[u] # NoToken
  <2>1. PICK done \in BOOLEAN :
          /\ memory' = [memory EXCEPT ![u] = NoToken]
          /\ Persisted(memory', done)
          /\ acked' = [acked EXCEPT ![u] = IF done THEN "revoked" ELSE "unsure"]
    BY <1>6 DEF Revoke
  <2>2. memory' \in [Values -> Tokens \cup {NoToken}]
         /\ disk' \in [Values -> Tokens \cup {NoToken}]
    BY <2>1 DEF TokenInv, TokensTypeOK, Persisted
  <2>3. acked' \in [Values -> {"free", "created", "revoked", "unsure"}]
    BY <2>1 DEF TokenInv, TokensTypeOK
  <2>4. TokensTypeOK'
    BY <1>1, <1>4, <2>2, <2>3 DEF TokenInv, TokensTypeOK
  <2>5. Deserialized(NoToken) = NoToken
    BY DEF Deserialized
  <2>6. \A v \in Values : Deserialized(memory'[v]) = memory'[v]
    BY <2>1, <2>5 DEF TokenInv, TokensTypeOK
  <2>7. AnswersAreDurable'
    <3> SUFFICES ASSUME NEW v \in Values \ {Bootstrap}
                 PROVE  /\ acked'[v] = "revoked" =>
                              memory'[v] = NoToken /\ disk'[v] = NoToken
                        /\ acked'[v] = "created" =>
                              /\ disk'[v] # NoToken
                              /\ serving' => memory'[v] = Deserialized(disk'[v])
      BY DEF AnswersAreDurable
    <3>1. CASE v = u
      BY <1>2, <2>1, <3>1 DEF TokenInv, TokensTypeOK, Persisted
    <3>2. CASE v # u
      <4>1. memory'[v] = memory[v] /\ acked'[v] = acked[v]
        BY <2>1, <3>2 DEF TokenInv, TokensTypeOK
      <4>2. QED
        BY <1>1, <2>1, <2>2, <4>1, WriteKeepsAnswers
    <3>3. QED
      BY <3>1, <3>2
  <2>8. QED
    BY <1>1, <2>4, <2>6, <2>7 DEF TokenInv
<1>7. QED
  BY <1>5, <1>6

\* The process ends, with a revoke on disk that nobody was told of, or without.
LEMMA EndingKeeps ==
    ASSUME TokenInv, ProcessEnds \/ \E c \in Callers : EndsAfterRename(c)
    PROVE  TokenInv'
<1>1. /\ serving' = FALSE /\ memory' = NoTokens /\ watching' = {} /\ late' = late
      /\ request' = [c \in Callers |-> NoRequest]
  BY DEF ProcessEnds, EndsAfterRename, StopProcess
<1>2. NoToken \in Tokens \cup {NoToken} /\ Deserialized(NoToken) = NoToken
  BY DEF Deserialized
<1>3. request' \in [Callers -> [op : {"none", "create", "revoke"}, target : Values]]
  BY <1>1, TokensAssumption DEF NoRequest
<1>4. \A c \in Callers : request'[c].op = "none"
  BY <1>1 DEF NoRequest
<1>5. memory' \in [Values -> Tokens \cup {NoToken}] /\ \A v \in Values : memory'[v] = NoToken
  BY <1>1 DEF NoTokens
<1>6. SUFFICES ASSUME TRUE
               PROVE  /\ disk' \in [Values -> Tokens \cup {NoToken}]
                      /\ acked' \in [Values -> {"free", "created", "revoked", "unsure"}]
                      /\ \A v \in Values \ {Bootstrap} :
                           /\ acked'[v] = "revoked" => disk'[v] = NoToken
                           /\ acked'[v] = "created" => disk'[v] # NoToken
  <2>1. TokensTypeOK'
    BY <1>1, <1>3, <1>5, <1>6 DEF TokenInv, TokensTypeOK
  <2>2. AnswersAreDurable'
    BY <1>1, <1>5, <1>6 DEF AnswersAreDurable
  <2>3. QED
    BY <1>2, <1>4, <1>5, <2>1, <2>2 DEF TokenInv
<1>7. CASE ProcessEnds
  BY <1>7 DEF ProcessEnds, TokenInv, TokensTypeOK, AnswersAreDurable
<1>8. CASE \E c \in Callers : EndsAfterRename(c)
  <2>1. PICK c \in Callers : EndsAfterRename(c)
    BY <1>8
  <2> DEFINE u == request[c].target
  <2>2. /\ disk' = [memory EXCEPT ![u] = NoToken]
        /\ acked' = [acked EXCEPT ![u] = "unsure"]
        /\ u \in Values /\ serving
    BY <2>1 DEF EndsAfterRename, TokenInv, TokensTypeOK
  <2> HIDE DEF u
  <2>3. disk' \in [Values -> Tokens \cup {NoToken}]
    BY <2>2 DEF TokenInv, TokensTypeOK
  <2>4. acked' \in [Values -> {"free", "created", "revoked", "unsure"}]
    BY <2>2 DEF TokenInv, TokensTypeOK
  <2>5. ASSUME NEW v \in Values \ {Bootstrap}
        PROVE  /\ acked'[v] = "revoked" => disk'[v] = NoToken
               /\ acked'[v] = "created" => disk'[v] # NoToken
    <3>1. CASE v = u
      BY <2>2, <3>1 DEF TokenInv, TokensTypeOK
    <3>2. CASE v # u
      <4>1. disk'[v] = memory[v] /\ acked'[v] = acked[v]
        BY <2>2, <3>2 DEF TokenInv, TokensTypeOK
      <4>2. disk[v] \in Tokens \cup {NoToken}
        BY DEF TokenInv, TokensTypeOK
      <4>3. QED
        BY <2>2, <4>1, <4>2, ReadBack DEF TokenInv, AnswersAreDurable
    <3>3. QED
      BY <3>1, <3>2
  <2>6. QED
    BY <2>3, <2>4, <2>5
<1>9. QED
  BY <1>7, <1>8

LEMMA StartKeeps ==
    ASSUME TokenInv, ProcessStarts
    PROVE  TokenInv'
<1> DEFINE loaded == [v \in Values |-> Deserialized(disk[v])]
           admin == [scopes |-> {"admin:*"}, expires |-> FALSE]
           booted == [loaded EXCEPT ![Bootstrap] = admin]
<1>1. ~serving /\ request' = request /\ late' = late /\ watching' = watching
  BY DEF ProcessStarts
<1>2. \A c \in Callers : request[c].op = "none"
  BY <1>1 DEF TokenInv
<1>3. \A v \in Values : disk[v] \in Tokens \cup {NoToken}
  BY DEF TokenInv, TokensTypeOK
<1>4. loaded \in [Values -> Tokens \cup {NoToken}]
  BY <1>3, ReadBack
<1>5. \A v \in Values : Deserialized(loaded[v]) = loaded[v]
  BY <1>3, ReadBack
<1>6. admin \in Tokens /\ admin # NoToken /\ Deserialized(admin) = admin
  <2>1. admin \in Tokens
    BY DEF Tokens, AllScopes
  <2>2. admin # NoToken
    BY DEF NoToken
  <2>3. {"admin:*"} \cap AllScopes = {"admin:*"}
    BY DEF AllScopes
  <2>4. QED
    BY <2>1, <2>2, <2>3 DEF Deserialized
<1>7. \A v \in Values \ {Bootstrap} :
        /\ acked[v] = "revoked" => disk[v] = NoToken /\ loaded[v] = NoToken
        /\ acked[v] = "created" => disk[v] # NoToken /\ loaded[v] # NoToken
  BY <1>3, ReadBack DEF TokenInv, AnswersAreDurable
<1> HIDE DEF admin
<1>8. CASE loaded[Bootstrap] # NoToken
  <2>1. memory' = loaded /\ serving' = TRUE /\ disk' = disk /\ acked' = acked
    BY <1>8 DEF ProcessStarts
  <2>2. TokensTypeOK'
    BY <1>1, <1>4, <2>1 DEF TokenInv, TokensTypeOK
  <2>3. AnswersAreDurable'
    BY <1>7, <2>1 DEF AnswersAreDurable
  <2>4. QED
    BY <1>5, <2>1, <2>2, <2>3 DEF TokenInv
<1>9. CASE loaded[Bootstrap] = NoToken
  <2>1. PICK done \in BOOLEAN :
          /\ Persisted(booted, done)
          /\ serving' = done
          /\ memory' = IF done THEN booted ELSE memory
          /\ acked' = IF done THEN [acked EXCEPT ![Bootstrap] = "created"] ELSE acked
    BY <1>9 DEF ProcessStarts, admin
  <2>2. CASE done
    <3>1. /\ memory' = booted /\ disk' = booted /\ serving' = TRUE
          /\ acked' = [acked EXCEPT ![Bootstrap] = "created"]
      BY <2>1, <2>2 DEF Persisted
    <3>2. booted \in [Values -> Tokens \cup {NoToken}]
      BY <1>4, <1>6
    <3>3. \A v \in Values : Deserialized(booted[v]) = booted[v]
      BY <1>4, <1>5, <1>6
    <3>4. \A v \in Values \ {Bootstrap} : booted[v] = loaded[v] /\ acked'[v] = acked[v]
      BY <1>4, <3>1 DEF TokenInv, TokensTypeOK
    <3>5. acked' \in [Values -> {"free", "created", "revoked", "unsure"}]
      BY <3>1 DEF TokenInv, TokensTypeOK
    <3> HIDE DEF booted, loaded
    <3>6. TokensTypeOK'
      BY <1>1, <3>1, <3>2, <3>5 DEF TokenInv, TokensTypeOK
    <3>7. AnswersAreDurable'
      BY <1>7, <3>1, <3>3, <3>4 DEF AnswersAreDurable
    <3>8. QED
      BY <3>1, <3>3, <3>6, <3>7 DEF TokenInv
  <2>3. CASE ~done
    <3>1. memory' = memory /\ disk' = disk /\ ~serving' /\ acked' = acked
      BY <2>1, <2>3 DEF Persisted
    <3>2. serving' \in BOOLEAN
      BY <2>1
    <3>3. TokensTypeOK'
      BY <1>1, <3>1, <3>2 DEF TokenInv, TokensTypeOK
    <3>4. AnswersAreDurable'
      BY <3>1 DEF TokenInv, AnswersAreDurable
    <3>5. QED
      BY <1>1, <1>2, <3>1, <3>3, <3>4 DEF TokenInv
  <2>4. QED
    BY <2>2, <2>3
<1>10. QED
  BY <1>8, <1>9

-----------------------------------------------------------------------------
LEMMA NextTokens == TokenInv /\ [TokensNext]_tokenVars => TokenInv'
<1> SUFFICES ASSUME TokenInv, [TokensNext]_tokenVars PROVE TokenInv'
  OBVIOUS
<1>1. ASSUME NEW c \in Callers, NEW v \in Values, NEW op \in {"create", "revoke"},
             NEW target \in Values, serving,
             request' = [request EXCEPT ![c] = [op |-> op, target |-> target]],
             UNCHANGED <<memory, disk, serving, late, watching, acked>>
      PROVE  TokenInv'
  <2>1. request' \in [Callers -> [op : {"none", "create", "revoke"}, target : Values]]
    BY <1>1 DEF TokenInv, TokensTypeOK
  <2>2. QED
    BY <1>1, <2>1 DEF TokenInv, TokensTypeOK, AnswersAreDurable
<1>2. CASE \E c \in Callers, v \in Values : StartCreate(c, v)
  BY <1>1, <1>2 DEF StartCreate, Accepted
<1>3. CASE \E c \in Callers, v, target \in Values : StartRevoke(c, v, target)
  BY <1>1, <1>3 DEF StartRevoke, Accepted
<1>4. CASE \E c \in Callers : Create(c)
  BY <1>4, CreateKeeps
<1>5. CASE \E c \in Callers : Revoke(c)
  BY <1>5, RevokeKeeps
<1>6. CASE ProcessEnds \/ \E c \in Callers : EndsAfterRename(c)
  BY <1>6, EndingKeeps
<1>7. CASE ProcessStarts
  BY <1>7, StartKeeps
<1>8. CASE ExpiryPasses \/ \E v \in Values : OpenSocket(v) \/ CloseSocket(v)
  <2>1. /\ memory' = memory /\ disk' = disk /\ serving' = serving
        /\ request' = request /\ acked' = acked
    BY <1>8 DEF ExpiryPasses, OpenSocket, CloseSocket
  <2>2. late' \in BOOLEAN /\ watching' \subseteq Values
    BY <1>8 DEF ExpiryPasses, OpenSocket, CloseSocket, TokenInv, TokensTypeOK
  <2>3. TokensTypeOK'
    BY <2>1, <2>2 DEF TokenInv, TokensTypeOK
  <2>4. QED
    BY <2>1, <2>3 DEF TokenInv, AnswersAreDurable
<1>9. CASE UNCHANGED tokenVars
  BY <1>9 DEF tokenVars, TokenInv, TokensTypeOK, AnswersAreDurable
<1>10. QED
  BY <1>2, <1>3, <1>4, <1>5, <1>6, <1>7, <1>8, <1>9 DEF TokensNext

LEMMA TokensInvariant == TokensSpec => []TokenInv
<1>1. QED
  BY InitTokens, NextTokens, PTL DEF TokensSpec

\* The store stays in its types, for any callers, values and issued tokens.
THEOREM TokensTypeCorrect == TokensSpec => []TokensTypeOK
<1>1. TokenInv => TokensTypeOK
  BY DEF TokenInv
<1>2. QED
  BY <1>1, TokensInvariant, PTL

\* For any number of callers and tokens, whatever writes fail and however often the
\* process restarts: what a 204 said is gone stays gone, what a 201 said is there stays
\* there (FileTokenStore.put, delete and __init__, auth/store.py).
THEOREM AnswersStand == TokensSpec => []AnswersAreDurable
<1>1. TokenInv => AnswersAreDurable
  BY DEF TokenInv
<1>2. QED
  BY <1>1, TokensInvariant, PTL

-----------------------------------------------------------------------------
(* The types of the parts whose promises are proved above.                 *)

\* Whatever TWS leaves out of its order state, a preview names a known currency or none.
LEMMA PreviewTypes == WhatIfSpec => []WhatIfTypeOK
<1>1. WhatIfInit => WhatIfTypeOK
  BY DEF WhatIfInit, WhatIfTypeOK, Phase, Numbers
<1>2. WhatIfTypeOK /\ [WhatIfNext]_whatIfVars => WhatIfTypeOK'
  <2>. SUFFICES ASSUME WhatIfTypeOK, [WhatIfNext]_whatIfVars PROVE WhatIfTypeOK'
    OBVIOUS
  <2>1. CASE UNCHANGED whatIfVars
    BY <2>1 DEF whatIfVars, WhatIfTypeOK
  <2>2. CASE WhatIfAsked \/ WhatIfFails
    BY <2>2 DEF WhatIfAsked, WhatIfFails, WhatIfTypeOK, Phase
  <2>3. ASSUME NEW a \in Amounts \cup {NoNumber}, NEW c \in PreviewCurrencies,
               NEW highest \in Numbers, NEW charged \in Numbers,
               NEW k \in Named, NEW base \in Named,
               WhatIfAnswered(a, c, highest, charged, k, base)
        PROVE  WhatIfTypeOK'
    <3>1. PICK amount, commission :
             /\ amount = MoneyOf(a, c)
             /\ commission = MoneyOf(FirstFinite(highest, charged), IF k = "" THEN c ELSE k)
      OBVIOUS
    <3>2. preview' = PreviewOf(amount, commission, base)
          /\ orderState' = [highest |-> highest, charged |-> charged]
      BY <2>3, <3>1 DEF WhatIfAnswered
    <3>3. a \in Int /\ FirstFinite(highest, charged) \in Int
      BY WhatIfAssumption DEF FirstFinite, Numbers, NoNumber
    <3>4. /\ amount \in [value : Int, currency : Named]
          /\ commission \in [value : Int, currency : Named]
      BY <3>1, <3>3 DEF MoneyOf, NoMoney, NoNumber, Named, PreviewCurrencies
    <3>5. TotalOf(amount, commission).currency \in Named
      BY <3>4 DEF TotalOf, NoMoney, Named
    <3>6. /\ preview'.amount = amount /\ preview'.commission = commission
          /\ preview'.total = TotalOf(amount, commission)
          /\ preview'.margin = base /\ preview'.phase = "answered"
      BY <3>2 DEF PreviewOf
    <3>. QED BY <3>2, <3>4, <3>5, <3>6 DEF WhatIfTypeOK
  <2>. QED BY <2>1, <2>2, <2>3 DEF WhatIfNext
<1>. QED BY <1>1, <1>2, PTL DEF WhatIfSpec

\* The commands that wait name nonces that were generated, and every deadline is within
\* its distance of the clock.
LEMMA ListenerTypes == ListenerSpec => []ListenerTypeOK
<1>. USE ListenerAssumption
<1>. DEFINE Inv == ListenerTypeOK /\ stream \in Seq(Nat)
<1>0. ASSUME NEW s, s = <<>>
      PROVE  s \in Seq(Nat) /\ Len(s) <= StreamMax /\ DOMAIN s = {}
  BY <1>0
<1>1. ListenerInit => Inv
  <2>. SUFFICES ASSUME ListenerInit PROVE Inv
    OBVIOUS
  <2>1. /\ stream = <<>> /\ now = 0 /\ nonce = 0 /\ nonceExpires = 0 /\ cooldownUntil = 0
        /\ nonces = 0 /\ polling = NotPolling /\ connected = FALSE
    BY DEF ListenerInit
  <2>2. Len(stream) <= StreamMax /\ stream \in Seq(Nat) /\ DOMAIN stream = {}
    BY <1>0, <2>1
  <2>3. \A i \in DOMAIN stream : stream[i] \in 0..nonces
    BY <2>2, Zenon
  <2>4. /\ 0 \in 0..TimeMax /\ 0 \in 0..NonceMax /\ 0 \in 0..0
        /\ 0 \in 0..(TimeMax + ConfirmTtl) /\ 0 \in 0..(TimeMax + CooldownTicks)
        /\ NotPolling \in NotPolling..PollTicks
    BY DEF NotPolling
  <2>. QED BY <2>1, <2>2, <2>3, <2>4, Zenon DEF ListenerTypeOK
<1>2. Inv /\ [ListenerNext]_listenerVars => Inv'
  <2>. SUFFICES ASSUME Inv, [ListenerNext]_listenerVars PROVE Inv'
    OBVIOUS
  <2>1. now \in Int /\ nonces \in Int /\ stream \in Seq(Nat)
    BY DEF ListenerTypeOK
  <2>2. ASSUME NEW command \in 0..nonces, Post(command)
        PROVE  Inv'
    <3>1. stream' = Append(stream, command)
      BY <2>2 DEF Post
    <3>2. command \in Nat
      BY <2>1, <2>2
    <3>3. /\ stream' \in Seq(Nat) /\ Len(stream') = Len(stream) + 1
          /\ \A i \in 1..Len(stream) : stream'[i] = stream[i]
          /\ stream'[Len(stream) + 1] = command
      BY <2>1, <3>1, <3>2, AppendProperties
    <3>4. \A i \in DOMAIN stream' : i \in 1..Len(stream) \/ i = Len(stream) + 1
      BY <2>1, <3>3
    <3>5. \A i \in DOMAIN stream' : stream'[i] \in 0..nonces
      <4>1. ASSUME NEW i \in 1..Len(stream) PROVE stream'[i] \in 0..nonces
        <5>1. stream[i] \in 0..nonces /\ stream'[i] = stream[i]
          BY <2>1, <3>3 DEF ListenerTypeOK
        <5>. QED BY <5>1
      <4>2. stream'[Len(stream) + 1] \in 0..nonces
        BY <2>2, <3>3
      <4>. QED BY <3>4, <4>1, <4>2
    <3>. QED BY <2>1, <2>2, <3>3, <3>5 DEF ListenerTypeOK, Post
  <2>3. ASSUME stream # <<>>, stream' = Tail(stream), nonces' \in nonces..NonceMax
        PROVE  /\ stream' \in Seq(Nat) /\ Len(stream') <= StreamMax
               /\ \A i \in DOMAIN stream' : stream'[i] \in 0..nonces'
    <3>1. /\ stream' \in Seq(Nat) /\ Len(stream') = Len(stream) - 1
          /\ \A i \in 1..Len(stream') : stream'[i] = stream[i + 1]
      BY <2>1, <2>3, HeadTailProperties
    <3>2. \A i \in 1..Len(stream') : i + 1 \in 1..Len(stream)
      BY <2>1, <3>1
    <3>3. \A i \in 1..Len(stream) : stream[i] \in 0..nonces
      BY <2>1 DEF ListenerTypeOK
    <3>4. \A i \in 1..Len(stream') : stream'[i] \in 0..nonces
      BY <3>1, <3>2, <3>3
    <3>. QED BY <2>1, <2>3, <3>1, <3>4 DEF ListenerTypeOK
  <2>4. CASE RefuseTrigger \/ RefuseConfirm
    <3>1. nonces' = nonces /\ nonces \in nonces..NonceMax
      BY <2>4 DEF RefuseTrigger, RefuseConfirm, ListenerTypeOK
    <3>2. stream # <<>> /\ stream' = Tail(stream)
      BY <2>4 DEF RefuseTrigger, RefuseConfirm, NextIs
    <3>. QED BY <2>1, <2>3, <2>4, <3>1, <3>2 DEF RefuseTrigger, RefuseConfirm, ListenerTypeOK
  <2>5. CASE IssueNonce
    <3>1. nonces' = nonces + 1 /\ nonces < NonceMax /\ nonces' \in nonces..NonceMax
      BY <2>1, <2>5 DEF IssueNonce, ListenerTypeOK
    <3>2. stream # <<>> /\ stream' = Tail(stream)
      BY <2>5 DEF IssueNonce, NextIs
    <3>3. /\ stream' \in Seq(Nat) /\ Len(stream') <= StreamMax
          /\ \A i \in DOMAIN stream' : stream'[i] \in 0..nonces'
      BY <2>3, <3>1, <3>2
    <3>4. nonceExpires' \in 0..(TimeMax + ConfirmTtl)
      BY <2>5 DEF IssueNonce, ListenerTypeOK
    <3>. QED BY <2>1, <2>5, <3>1, <3>3, <3>4 DEF IssueNonce, ListenerTypeOK
  <2>6. CASE Recreate
    <3>1. nonces' = nonces /\ nonces \in nonces..NonceMax
      BY <2>6 DEF Recreate, ListenerTypeOK
    <3>2. stream # <<>> /\ stream' = Tail(stream)
      BY <2>6 DEF Recreate, NextIs
    <3>3. /\ stream' \in Seq(Nat) /\ Len(stream') <= StreamMax
          /\ \A i \in DOMAIN stream' : stream'[i] \in 0..nonces'
      BY <2>3, <3>1, <3>2
    <3>4. cooldownUntil' \in 0..(TimeMax + CooldownTicks) /\ 0 \in 0..(TimeMax + ConfirmTtl)
      BY <2>6 DEF Recreate, ListenerTypeOK
    <3>5. polling' \in NotPolling..PollTicks
      BY <2>6 DEF Recreate, NotPolling
    <3>. QED BY <2>1, <2>6, <3>1, <3>3, <3>4, <3>5 DEF Recreate, ListenerTypeOK
  <2>7. CASE PollEnds \/ TimeGoesOn
    <3>1. now' \in 0..TimeMax /\ polling' \in NotPolling..PollTicks
      BY <2>7 DEF PollEnds, TimeGoesOn, ListenerTypeOK, NotPolling
    <3>. QED BY <2>7, <3>1 DEF PollEnds, TimeGoesOn, ListenerTypeOK
  <2>8. CASE StreamBreaks \/ StreamReopens
    <3>1. /\ UNCHANGED <<now, nonce, nonceExpires, cooldownUntil, nonces, polling>>
          /\ connected' \in BOOLEAN /\ stream' \in {stream, <<>>}
      BY <2>8 DEF StreamBreaks, StreamReopens
    <3>2. Len(stream') <= StreamMax /\ stream' \in Seq(Nat)
          /\ \A i \in DOMAIN stream' : stream'[i] \in 0..nonces
      BY <1>0, <3>1 DEF ListenerTypeOK
    <3>. QED BY <3>1, <3>2 DEF ListenerTypeOK
  <2>9. CASE ListenerRestarts
    <3>1. /\ UNCHANGED <<now, nonces>> /\ stream' = <<>> /\ connected' = FALSE
          /\ polling' = NotPolling /\ nonce' = 0 /\ nonceExpires' = 0 /\ cooldownUntil' = 0
      BY <2>9 DEF ListenerRestarts
    <3>2. Len(stream') <= StreamMax /\ stream' \in Seq(Nat) /\ DOMAIN stream' = {}
      BY <1>0, <3>1
    <3>3. \A i \in DOMAIN stream' : stream'[i] \in 0..nonces'
      BY <3>2, Zenon
    <3>4. now' \in 0..TimeMax /\ nonces' \in 0..NonceMax
      BY <3>1 DEF ListenerTypeOK
    <3>5. /\ nonce' \in 0..nonces' /\ nonceExpires' \in 0..(TimeMax + ConfirmTtl)
          /\ cooldownUntil' \in 0..(TimeMax + CooldownTicks)
          /\ polling' \in NotPolling..PollTicks /\ connected' \in BOOLEAN
      <4>1. /\ 0 \in 0..nonces /\ 0 \in 0..(TimeMax + ConfirmTtl)
            /\ 0 \in 0..(TimeMax + CooldownTicks) /\ -1 \in (-1)..PollTicks
        BY <3>4, <3>1
      <4>. QED BY <3>1, <4>1, Zenon DEF NotPolling
    <3>. QED BY <3>2, <3>3, <3>4, <3>5, Zenon DEF ListenerTypeOK
  <2>10. CASE UNCHANGED listenerVars
    BY <2>10 DEF listenerVars, ListenerTypeOK
  <2>. QED BY <2>2, <2>4, <2>5, <2>6, <2>7, <2>8, <2>9, <2>10 DEF ListenerNext
<1>. QED BY <1>1, <1>2, PTL DEF ListenerSpec

\* What the lifespan's types say of all but what is left to stop.
LifespanKinds ==
    /\ env \in Environments
    /\ progress \in {"new", "validated", "refused", "backend_chosen", "auto_login_decided",
                    "services_built", "lifecycle_started", "pump_started", "serving",
                    "stopping", "stopped"}
    /\ parts \subseteq Parts /\ broken \subseteq Parts

\* The shutdown takes the steps of the teardown from the front.
LEMMA LifespanTypes == LifespanSpec => []LifespanTypeOK
<1>. DEFINE Remaining == \E n \in 1..9 : stopping = FromStep(n)
<1>t. /\ FromStep(1) = Teardown /\ FromStep(9) = <<>>
      /\ \A n \in 1..8 : FromStep(n) # <<>> /\ Tail(FromStep(n)) = FromStep(n + 1)
      /\ Len(Teardown) = 8
  BY TeardownSteps
<1>1. LifespanInit => LifespanKinds /\ Remaining
  <2>1. 9 \in 1..9
    OBVIOUS
  <2>. QED BY <1>t, <2>1, Zenon DEF LifespanInit, LifespanKinds
<1>2. LifespanKinds /\ [LifespanNext]_lifespanVars => LifespanKinds'
  <2>. SUFFICES ASSUME LifespanKinds, [LifespanNext]_lifespanVars PROVE LifespanKinds'
    OBVIOUS
  <2>. USE DEF LifespanKinds
  <2>1. CASE Validate \/ StartLifecycle
    BY <2>1 DEF Validate, StartLifecycle, Parts
  <2>2. CASE ChooseBackend
    BY <2>2 DEF ChooseBackend, Goes, Parts
  <2>3. CASE AttachAutoLogin \/ BuildServices \/ StartPump
    BY <2>3 DEF AttachAutoLogin, BuildServices, StartPump, Goes, Parts
  <2>4. CASE BuildSubscriptions
    BY <2>4 DEF BuildSubscriptions, Goes, Parts
  <2>5. CASE StopNext \/ BeginShutdown \/ ProcessExits \/ UNCHANGED lifespanVars
    BY <2>5 DEF StopNext, BeginShutdown, ProcessExits, Goes, lifespanVars
  <2>6. CASE StopRaises
    BY <2>6 DEF StopRaises
  <2>. QED BY <2>1, <2>2, <2>3, <2>4, <2>5, <2>6 DEF LifespanNext
<1>3. Remaining /\ [LifespanNext]_lifespanVars => Remaining'
  <2>. SUFFICES ASSUME Remaining, [LifespanNext]_lifespanVars PROVE Remaining'
    OBVIOUS
  <2>1. CASE UNCHANGED stopping
    BY <2>1
  <2>2. CASE stopping' = Teardown
    <3>1. stopping' = FromStep(1) /\ 1 \in 1..9
      BY <1>t, <2>2
    <3>. QED BY <3>1
  <2>3. CASE stopping # <<>> /\ stopping' \in {Tail(stopping), <<>>}
    <3>1. PICK n \in 1..9 : stopping = FromStep(n)
      OBVIOUS
    <3>2. n # 9
      BY <1>t, <2>3, <3>1
    <3>3. n \in 1..8 /\ n + 1 \in 1..9 /\ 9 \in 1..9
      BY <3>2
    <3>4. Tail(stopping) = FromStep(n + 1)
      BY <1>t, <3>1, <3>3
    <3>. QED BY <1>t, <2>3, <3>3, <3>4, Zenon
  <2>. QED BY <2>1, <2>2, <2>3 DEF LifespanNext, Validate, ChooseBackend, AttachAutoLogin,
           BuildServices, StartLifecycle, StartPump, BuildSubscriptions, BeginShutdown,
           StopNext, StopRaises, ProcessExits, lifespanVars
<1>4. LifespanKinds /\ Remaining => LifespanTypeOK
  <2>. SUFFICES ASSUME LifespanKinds, Remaining PROVE LifespanTypeOK
    OBVIOUS
  <2>1. Len(Teardown) + 1 = 9
    BY <1>t
  <2>. QED BY <1>t, <2>1, Zenon DEF LifespanTypeOK, LifespanKinds, FromStep
<1>. QED BY <1>1, <1>2, <1>3, <1>4, PTL DEF LifespanSpec

\* What the types of the reads say beside their invariant.
ReadsRest ==
    /\ found \in {"none", "empty", "listing"} /\ rested \in BOOLEAN
    /\ wants \in [Askers -> Accounts]
    /\ subscribed \subseteq Accounts /\ streaming \subseteq subscribed

\* An account whose updates stream is one that counts as subscribed.
LEMMA ReadsTypes == ReadsSpec => []ReadsTypeOK
<1>. USE TWSReadsAssumption
<1>1. ReadsInit => ReadsRest
  <2>1. (CHOOSE a \in Accounts : TRUE) \in Accounts
    OBVIOUS
  <2>. QED BY <2>1 DEF ReadsInit, ReadsRest
<1>2. ReadsRest /\ [ReadsNext]_readVars => ReadsRest'
  <2>. SUFFICES ASSUME ReadsRest, [ReadsNext]_readVars PROVE ReadsRest'
    OBVIOUS
  <2>. USE DEF ReadsRest
  <2>1. CASE UNCHANGED readVars
    BY <2>1 DEF readVars
  <2>2. CASE RateLimitPasses \/ EntryExpires \/ SessionRenewed
             \/ \E what \in Lookups : DetailsExpire(what)
    BY <2>2 DEF RateLimitPasses, EntryExpires, SessionRenewed, DetailsExpire, accountVars,
       searchVars
  <2>3. ASSUME NEW c \in Askers,
               \/ Search(c) \/ AskIBKR(c) \/ SearchAnswered(c) \/ SearchFails(c)
               \/ ReadItems(c) \/ Finished(c) \/ LookUpFails(c)
               \/ \E what \in Lookups : LookUp(c, what) \/ LookedUp(c, what)
        PROVE  ReadsRest'
    BY <2>3 DEF Search, AskIBKR, SearchAnswered, SearchFails, LeaveSearch, ReadItems,
       Finished, LookUpFails, LookUp, LookedUp, accountVars, searchVars
  <2>4. ASSUME NEW c \in Askers,
               \/ ReadPortfolio(c) \/ AlreadySubscribed(c) \/ SubscribeAccount(c)
               \/ SubscribeEnds(c) \/ SubscribeFails(c)
        PROVE  ReadsRest'
    BY <2>4 DEF ReadPortfolio, AlreadySubscribed, SubscribeAccount, SubscribeEnds,
       SubscribeFails, searchVars
  <2>. QED BY <2>1, <2>2, <2>3, <2>4 DEF ReadsNext
<1>3. ReadsInv /\ ReadsRest => ReadsTypeOK
  <2>. SUFFICES ASSUME ReadsInv, ReadsRest PROVE ReadsTypeOK
    OBVIOUS
  <2>1. searchLine \in Seq(Askers) /\ accountLine \in Seq(Askers)
    BY DEF ReadsInv, SearchInv, AccountInv, Lined
  <2>2. searches \in Nat
    BY DEF ReadsInv, SearchInv
  <2>3. asked \in [Accounts -> 0..MaxAsks]
    <3>1. \A a \in Accounts : asked[a] \in 0..MaxAsks
      BY DEF ReadsInv, AccountInv
    <3>. QED BY <3>1 DEF ReadsInv, AccountInv
  <2>. QED BY <2>1, <2>2, <2>3 DEF ReadsTypeOK, ReadsInv, ReadsRest
<1>. QED BY <1>1, <1>2, <1>3, ReadsInductive, PTL DEF ReadsSpec

\* What the types of the paper tests say beside their invariant.
PaperRest ==
    /\ killSwitch \in {"off", "true", "on"} /\ account \in {"paper", "live"}
    /\ step \in {"place", "submitted", "cancel", "cancelled", "list", "clean", "done",
                 "raised"}
    /\ round \in 0..CleanupRounds
    /\ step \notin {"done", "raised"} => round < CleanupRounds
    /\ warned \subseteq TestOrders /\ unseen \subseteq TestOrders
    /\ spent \in 0..WorthInAll

\* The rounds of a clean-up and what a test spends stay within their limits.
LEMMA PaperTypes == PaperSpec => []PaperTypeOK
<1>. USE PaperRunsAssumption
<1>1. PaperInit => PaperRest
  BY DEF PaperInit, PaperRest
<1>2. PaperInv /\ PaperRest /\ [PaperNext]_paperVars => PaperRest'
  <2>. SUFFICES ASSUME PaperInv, PaperRest, [PaperNext]_paperVars PROVE PaperRest'
    OBVIOUS
  <2>. USE DEF PaperRest
  <2>1. CASE UNCHANGED paperVars
    BY <2>1 DEF paperVars
  <2>2. ASSUME NEW o \in TestOrders, PlaceFar(o, "key") \/ PlaceStopFar(o, "key")
        PROVE  PaperRest'
    BY <2>2 DEF PlaceFar, PlaceStopFar, PlacesFar, ToCleanup, setting
  <2>3. ASSUME NEW o \in TestOrders, PlaceWithoutKey(o)
        PROVE  PaperRest'
    BY <2>3, KeylessIsRefused DEF PlaceWithoutKey, ToCleanup, setting
  <2>4. CASE PlaceRefused \/ WaitTimesOut \/ \E closed \in SUBSET TestOrders :
                 FlattenPositions(closed)
    <3>1. /\ UNCHANGED <<killSwitch, account, warned, unseen>>
          /\ spent' = spent /\ step' = "list" /\ round' = 0
      BY <2>4 DEF PlaceRefused, WaitTimesOut, FlattenPositions, ToCleanup, setting
    <3>. QED BY <3>1
  <2>5. CASE StatusReached \/ CancelTestOrder("key") \/ \E o \in testOrder : CancelWithoutKey(o)
    BY <2>5 DEF StatusReached, CancelTestOrder, CancelWithoutKey, setting
  <2>6. CASE LookForOrders \/ LookFails \/ CleanupRaises
    BY <2>6 DEF LookForOrders, LookFails, CleanupRaises, setting
  <2>7. CASE NextRound \/ NextTest
    BY <2>7 DEF NextRound, NextTest, setting
  <2>8. ASSUME NEW o \in newIds, CleanupCancel(o, "key")
        PROVE  PaperRest'
    BY <2>8 DEF CleanupCancel, setting, PaperInv, CleanupInv
  <2>9. CASE \E o \in DOMAIN standing : OrderAppears(o) \/ OrderEnds(o)
    BY <2>9 DEF OrderAppears, OrderEnds, setting, testVars
  <2>. QED BY <2>1, <2>2, <2>3, <2>4, <2>5, <2>6, <2>7, <2>8, <2>9 DEF PaperNext
<1>3. PaperInv /\ PaperRest => PaperTypeOK
  <2>. SUFFICES ASSUME PaperInv, PaperRest PROVE PaperTypeOK
    OBVIOUS
  <2>1. cancelledIds \in Seq(TestOrders)
    <3>1. cancelledIds \in Seq(seenIds) /\ seenIds \subseteq TestOrders
      BY DEF PaperInv, CancelledOnce, CleanupInv
    <3>. QED BY <3>1, SeqMonotonic
  <2>2. /\ standing \in [TestOrders \cup OthersOrders -> OrderStates]
        /\ testOrder \subseteq TestOrders
        /\ seenIds \subseteq TestOrders /\ newIds \subseteq TestOrders
    BY DEF PaperInv, CleanupInv, ActsOnPaper
  <2>. QED BY <2>1, <2>2 DEF PaperTypeOK, PaperRest
<1>. QED BY <1>1, <1>2, <1>3, PaperInductive, PTL DEF PaperSpec

-----------------------------------------------------------------------------
(* All services together.                                                  *)

\* A step of the services together is a step of each of them, or leaves it alone.
LEMMA StepOfEach ==
    ASSUME [MCNext]_allVars
    PROVE  /\ [QuotesNext]_quoteVars /\ [TokensNext]_tokenVars
           /\ [ThrottleNext]_throttleVars /\ [CPOrdersNext]_cpOrderVars
           /\ [WatchdogNext]_watchdogVars /\ [ListenerNext]_listenerVars
           /\ [RequestsNext]_requestVars /\ [CachesNext]_cacheVars
           /\ [ReadsNext]_readVars /\ [LifespanNext]_lifespanVars
           /\ [TopicsNext]_topicVars /\ [PaperNext]_paperVars
           /\ [OrderViewsNext]_orderViewVars
           /\ [WhatIfNext]_whatIfVars /\ [WsNext]_wsVars
           /\ UNCHANGED part
<1>1. CASE MCNext
  BY <1>1, Zenon DEF MCNext
<1>2. CASE UNCHANGED allVars
  BY <1>2, Zenon DEF allVars
<1>. QED BY <1>1, <1>2

\* So a run of the services together is a run of each of them.
LEMMA RunOfEach ==
    MCSpec => /\ QuotesSpec /\ TokensSpec /\ ThrottleSpec /\ CPOrdersSpec
              /\ WatchdogSpec /\ ListenerSpec /\ RequestsSpec /\ CachesSpec
              /\ ReadsSpec /\ LifespanSpec /\ TopicsSpec /\ PaperSpec
              /\ OrderViewsSpec /\ WhatIfSpec /\ WsSpec
              /\ [](part \in ServiceParts)
<1>1. MCInit =>
        /\ QuotesInit /\ TokensInit /\ ThrottleInit /\ CPOrdersInit
        /\ WatchdogInit /\ ListenerInit /\ RequestsInit /\ CachesInit
        /\ ReadsInit /\ LifespanInit /\ TopicsInit /\ PaperInit
        /\ OrderViewsInit /\ WhatIfInit /\ WsInit /\ part \in ServiceParts
  BY DEF MCInit
<1>2. ASSUME [MCNext]_allVars
      PROVE  /\ [QuotesNext]_quoteVars /\ [TokensNext]_tokenVars
             /\ [ThrottleNext]_throttleVars /\ [CPOrdersNext]_cpOrderVars
             /\ [WatchdogNext]_watchdogVars /\ [ListenerNext]_listenerVars
             /\ [RequestsNext]_requestVars /\ [CachesNext]_cacheVars
             /\ [ReadsNext]_readVars /\ [LifespanNext]_lifespanVars
             /\ [TopicsNext]_topicVars /\ [PaperNext]_paperVars
             /\ [OrderViewsNext]_orderViewVars
             /\ [WhatIfNext]_whatIfVars /\ [WsNext]_wsVars
  BY <1>2, StepOfEach
<1>3. part \in ServiceParts /\ [MCNext]_allVars => (part \in ServiceParts)'
  BY StepOfEach DEF ServiceParts
<1>. QED BY <1>1, <1>2, <1>3, PTL DEF MCSpec, QuotesSpec, TokensSpec, ThrottleSpec, CPOrdersSpec, WatchdogSpec, ListenerSpec, RequestsSpec, CachesSpec, ReadsSpec, LifespanSpec, TopicsSpec, PaperSpec, OrderViewsSpec, WhatIfSpec, WsSpec

\* Every part of the services keeps its types, in any run of them and for every value of
\* the constants: rings, queues, caches and books within their limits, and what each part
\* remembers among what it can have met.
THEOREM ServicesTypeCorrect == MCSpec => []ServicesTypeOK
<1>1. CPOrdersInv => CPOrdersTypeOK
  BY DEF CPOrdersInv
<1>2. /\ part \in ServiceParts
      /\ QuotesTypeOK /\ TokensTypeOK /\ ThrottleTypeOK /\ CPOrdersInv
      /\ WatchdogTypeOK /\ ListenerTypeOK /\ RequestsTypeOK /\ CachesTypeOK
      /\ ReadsTypeOK /\ LifespanTypeOK /\ TopicsTypeOK /\ PaperTypeOK
      /\ OrderViewsTypeOK /\ WhatIfTypeOK /\ WsTypeOK
      => ServicesTypeOK
  BY <1>1, Zenon DEF ServicesTypeOK
<1>. QED BY <1>2, RunOfEach, QuotesTypeCorrect, TokensTypeCorrect, ThrottleTypeCorrect,
            CPOrdersInvariant, PhoneIsRight, ListenerTypes, RequestsTypeCorrect, OrdersShow,
            ReadsTypes, LifespanTypes, TopicsTypeCorrect, PaperTypes,
            OrdersAreTold, PreviewTypes, WsTypeCorrect, PTL

\* And each keeps what it promises: what the single theorems say of the services holds of
\* all of them in one run.
THEOREM ServicesKeepTheirPromises ==
    MCSpec => [](/\ WatchersAreServed /\ AnswersAreDurable /\ RateIsKept
                 /\ RepliesTellOfOrders /\ PhoneShowsOutages /\ OneRecreatePerWindow
                 /\ ErrorsFindTheirRequest /\ OrderShowsInPortfolio /\ AsksAreNotRepeated
                 /\ LifespanIsOrderly /\ FramesTellTheMarket /\ TestsTidyUp
                 /\ OrdersAreToldTruly /\ FramesReachTheSource)
BY RunOfEach, WatchersServed, AnswersStand, TheRateIsKept, RepliesTell, PhoneIsRight,
   RecreatesAreSpaced, ErrorsAreFound, OrdersShow, AsksComeOnce, LifespanStaysOrderly,
   FramesAreTrue, NothingIsLeft, OrdersAreTold, FramesArrive, PTL
=============================================================================
