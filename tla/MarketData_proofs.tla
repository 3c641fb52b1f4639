-------------------------- MODULE MarketData_proofs --------------------------
(***************************************************************************)
(* Proofs about the services that bring market data, for every value of    *)
(* their constants: the reads that share one ib_async handle (TWSRequests),*)
(* the frames of the CP WebSocket (TopicAdapters), and the quote streams   *)
(* of the TWS profile (TWSQuotes).                                         *)
(***************************************************************************)
EXTENDS TWSRequests, TopicAdapters, TWSQuotes, SequenceTheorems, FiniteSetTheorems,
        WellFoundedInduction, TLAPS
-----------------------------------------------------------------------------
(* The reads of the TWS profile that share one ib_async handle.            *)

\* Who stands in a line, each once.
Queues(line, members) ==
    /\ line \in Seq(Requests)
    /\ \A i, j \in 1..Len(line) : line[i] = line[j] => i = j
    /\ \A r \in Requests : r \in members <=> \E i \in 1..Len(line) : line[i] = r

InLine(k) == {r \in Requests : kind[r] = k /\ phase[r] \in {"queued", "asking"}}

\* The one that asks for bars is the head of their line, those that scan are among the
\* first MaxScans of theirs.
LinesInv ==
    /\ Queues(bars, InLine("historical")) /\ Queues(scans, InLine("scan"))
    /\ \A r \in Requests : phase[r] = "asking" =>
          /\ kind[r] = "historical" => Head(bars) = r
          /\ kind[r] = "scan" => \E i \in 1..Len(scans) : i <= MaxScans /\ scans[i] = r

\* The codes a request of this kind has been rejected with are all in its collection,
\* and what is there under its id it has been rejected with.
FindsItsOwn(errors, id, k, codes) ==
    /\ errors \in Seq(Nat \X Codes)
    /\ \A i \in 1..Len(errors) :
          errors[i][1] = id /\ ~IsBenign(errors[i][2]) => errors[i][2] \in codes
    /\ k # "fundamentals" => \A c \in codes :
          \E i \in 1..Len(errors) : errors[i] = <<id, c>>

AnswerIsRight(r, k, a, why, codes) ==
    /\ a.code \in Codes => a.code \in codes
    /\ a.status = 200 => \/ codes = {}
                         \/ k = "historical" /\ "no_data" \in codes
                         \/ k = "fundamentals" /\ why = "records"

ErrorsInv ==
    \A r \in Requests :
       /\ phase[r] \in {"idle", "resolving", "queued"} => rejected[r] = {}
       /\ phase[r] = "asking" => FindsItsOwn(collected[r], reqId[r], kind[r], rejected[r])
       /\ reject[r] \in rejected[r] \cup {NoCode, "records"}
       /\ phase[r] = "done" => AnswerIsRight(r, kind[r], answer[r], reject[r], rejected[r])

RequestsInv ==
    /\ phase \in [Requests -> {"idle", "resolving", "queued", "asking", "done"}]
    /\ kind \in [Requests -> Kinds]
    /\ reqId \in [Requests -> Nat] /\ nextId \in Nat
    /\ future \in [Requests -> {"pending", "data", "empty", "lost"}]
    /\ rejected \in [Requests -> SUBSET (Codes \ {"warning"})]
    /\ DOMAIN collected = Requests /\ collected = [r \in Requests |-> collected[r]]
    /\ reject = [r \in Requests |-> reject[r]] /\ answer = [r \in Requests |-> answer[r]]
    /\ LinesInv /\ ErrorsInv

\* Sets of numbers have a least one.
LEMMA LeastOne ==
    ASSUME NEW S \in SUBSET Nat, S # {}
    PROVE  Min(S) \in S /\ \A i \in S : Min(S) <= i
<1>1. PICK x \in S : \A y \in S : ~(<<y, x>> \in OpToRel(<, Nat))
  BY WFMin, NatLessThanWellFounded
<1>2. \A y \in S : <<y, x>> \in Nat \X Nat /\ <<y, x>>[1] = y /\ <<y, x>>[2] = x
  OBVIOUS
<1>3. \A y \in S : ~(y < x)
  BY <1>1, <1>2, Zenon DEF OpToRel
<1>4. \A y \in S : x <= y
  BY <1>3
<1>. QED BY <1>4 DEF Min

\* The first error of a question that is not benign.
LEMMA FirstFatalIs ==
    ASSUME NEW errors \in Seq(Nat \X Codes), NEW id \in Nat
    PROVE  \/ /\ FirstFatal(errors, id) = NoCode
              /\ \A i \in 1..Len(errors) : errors[i][1] = id => IsBenign(errors[i][2])
           \/ \E i \in 1..Len(errors) :
                 /\ errors[i][1] = id /\ ~IsBenign(errors[i][2])
                 /\ FirstFatal(errors, id) = errors[i][2]
<1>. DEFINE I == {i \in 1..Len(errors) : errors[i][1] = id /\ ~IsBenign(errors[i][2])}
<1>1. FirstFatal(errors, id) = IF I # {} /\ Min(I) # 0 THEN errors[Min(I)][2]
                               ELSE IF I # {} /\ Min(I) = 0 THEN NoCode ELSE NoCode
  BY DEF FirstFatal, SelectInSeq
<1>2. I \in SUBSET Nat /\ 0 \notin I
  OBVIOUS
<1>3. CASE I = {}
  BY <1>1, <1>3
<1>4. CASE I # {}
  <2>1. Min(I) \in I
    BY <1>2, <1>4, LeastOne
  <2>. QED BY <1>1, <1>2, <1>4, <2>1
<1>. QED BY <1>3, <1>4

\* Who leaves a line leaves the others where they are, or one place further ahead.
LEMMA LeavesLine ==
    ASSUME NEW line, NEW members, Queues(line, members), NEW r \in Requests
    PROVE  /\ Queues(RemoveFirst(line, r), members \ {r})
           /\ \A i \in 1..Len(line) : line[i] # r =>
                 \E j \in 1..Len(RemoveFirst(line, r)) :
                    j <= i /\ RemoveFirst(line, r)[j] = line[i]
<1>1. line \in Seq(Requests)
  BY DEF Queues
<1>2. PICK n \in Nat : n = Len(line)
  BY <1>1
<1>3. CASE ~\E i \in 1..Len(line) : line[i] = r
  BY <1>3 DEF RemoveFirst, Queues
<1>4. CASE \E i \in 1..Len(line) : line[i] = r
  <2>. DEFINE I == {i \in 1..Len(line) : line[i] = r}
  <2>1. I \in SUBSET Nat /\ I # {}
    BY <1>4
  <2>2. Min(I) \in I
    BY <2>1, LeastOne
  <2>3. PICK k \in 1..n : k = Min(I) /\ line[k] = r
    BY <1>2, <2>2
  <2>0. k \in Int /\ n \in Int /\ 1 <= k /\ k <= n /\ k \in 1..n /\ line[k] = r
    BY <1>2, <2>3
  <2>4. RemoveFirst(line, r) = SubSeq(line, 1, k - 1) \o SubSeq(line, k + 1, n)
    BY <1>2, <1>4, <2>1, <2>3 DEF RemoveFirst, RemoveAt, SelectInSeq
  <2>. HIDE DEF I
  <2>5. PICK a \in Seq(Requests) : /\ a = SubSeq(line, 1, k - 1) /\ Len(a) = k - 1
                                   /\ \A i \in 1..(k - 1) : a[i] = line[i]
    <3>1. \A i \in 1..(k - 1) : line[i] \in Requests
      BY <1>1, <1>2, <2>0
    <3>2. /\ SubSeq(line, 1, k - 1) \in Seq(Requests)
          /\ Len(SubSeq(line, 1, k - 1)) = IF 1 <= k - 1 THEN k - 1 - 1 + 1 ELSE 0
          /\ \A i \in 1..(k - 1 - 1 + 1) : SubSeq(line, 1, k - 1)[i] = line[1 + i - 1]
      BY <1>2, <2>0, <3>1, SubSeqProperties
    <3>3. Len(SubSeq(line, 1, k - 1)) = k - 1
      BY <2>0, <3>2
    <3>4. ASSUME NEW i \in 1..(k - 1) PROVE SubSeq(line, 1, k - 1)[i] = line[i]
      <4>1. i \in 1..(k - 1 - 1 + 1) /\ 1 + i - 1 = i
        BY <2>0
      <4>. QED BY <3>2, <4>1
    <3>. QED BY <3>2, <3>3, <3>4
  <2>6. PICK b \in Seq(Requests) : /\ b = SubSeq(line, k + 1, n) /\ Len(b) = n - k
                                   /\ \A i \in 1..(n - k) : b[i] = line[k + i]
    <3>1. \A i \in (k + 1)..n : line[i] \in Requests
      BY <1>1, <1>2, <2>0
    <3>2. /\ SubSeq(line, k + 1, n) \in Seq(Requests)
          /\ Len(SubSeq(line, k + 1, n)) = IF k + 1 <= n THEN n - (k + 1) + 1 ELSE 0
          /\ \A i \in 1..(n - (k + 1) + 1) : SubSeq(line, k + 1, n)[i] = line[k + 1 + i - 1]
      BY <1>2, <2>0, <3>1, SubSeqProperties
    <3>3. Len(SubSeq(line, k + 1, n)) = n - k
      BY <2>0, <3>2
    <3>4. ASSUME NEW i \in 1..(n - k) PROVE SubSeq(line, k + 1, n)[i] = line[k + i]
      <4>1. i \in 1..(n - (k + 1) + 1) /\ k + 1 + i - 1 = k + i
        BY <2>0
      <4>. QED BY <3>2, <4>1
    <3>. QED BY <3>2, <3>3, <3>4
  <2>7. PICK t \in Seq(Requests) :
           /\ t = RemoveFirst(line, r) /\ Len(t) = n - 1
           /\ \A j \in 1..(n - 1) : t[j] = line[IF j < k THEN j ELSE j + 1]
    <3>1. /\ a \o b \in Seq(Requests) /\ Len(a \o b) = Len(a) + Len(b)
          /\ \A j \in 1..(Len(a) + Len(b)) :
                (a \o b)[j] = IF j <= Len(a) THEN a[j] ELSE b[j - Len(a)]
      BY ConcatProperties
    <3>2. Len(a) + Len(b) = n - 1
      <4>1. k - 1 + (n - k) = n - 1
        BY <2>0
      <4>. QED BY <2>5, <2>6, <4>1
    <3>3. ASSUME NEW j \in 1..(n - 1) PROVE (a \o b)[j] = line[IF j < k THEN j ELSE j + 1]
      <4>1. CASE j < k
        <5>1. j <= Len(a) /\ j \in 1..(k - 1)
          BY <2>0, <2>5, <4>1
        <5>. QED BY <2>5, <3>1, <3>2, <4>1, <5>1
      <4>2. CASE ~(j < k)
        <5>1. ~(j <= Len(a)) /\ j - Len(a) \in 1..(n - k) /\ k + (j - Len(a)) = j + 1
          BY <1>2, <2>0, <2>5, <4>2
        <5>. QED BY <2>6, <3>1, <3>2, <4>2, <5>1
      <4>. QED BY <4>1, <4>2
    <3>. QED BY <2>4, <2>5, <2>6, <3>1, <3>2, <3>3
  <2>8. ASSUME NEW i \in 1..n, line[i] # r
        PROVE  \E j \in 1..(n - 1) : j <= i /\ t[j] = line[i]
    <3>1. i # k
      BY <2>0, <2>8
    <3>2. CASE i < k
      <4>1. i \in 1..(n - 1)
        BY <1>2, <2>0, <3>2
      <4>. QED BY <2>7, <3>2, <4>1, SMTT(30)
    <3>3. CASE i > k
      <4>1. i - 1 \in 1..(n - 1) /\ ~(i - 1 < k) /\ i - 1 + 1 = i /\ i - 1 <= i
        BY <1>2, <2>0, <3>3
      <4>. QED BY <2>7, <4>1
    <3>. QED BY <1>2, <2>0, <3>1, <3>2, <3>3
  <2>9. ASSUME NEW j \in 1..(n - 1)
        PROVE  (IF j < k THEN j ELSE j + 1) \in 1..n /\ (IF j < k THEN j ELSE j + 1) # k
    BY <1>2, <2>0
  <2>10. \A i, j \in 1..n : line[i] = line[j] => i = j
    BY <1>2 DEF Queues
  <2>11. \A i, j \in 1..(n - 1) : t[i] = t[j] => i = j
    <3>. SUFFICES ASSUME NEW i \in 1..(n - 1), NEW j \in 1..(n - 1), t[i] = t[j]
                  PROVE  i = j
      OBVIOUS
    <3>1. (IF i < k THEN i ELSE i + 1) = (IF j < k THEN j ELSE j + 1)
      BY <2>7, <2>9, <2>10, ZenonT(40)
    <3>. QED BY <1>2, <2>0, <3>1
  <2>12. ASSUME NEW q \in Requests
         PROVE  q \in members \ {r} <=> \E j \in 1..(n - 1) : t[j] = q
    <3>1. ASSUME q \in members \ {r} PROVE \E j \in 1..(n - 1) : t[j] = q
      <4>1. PICK i \in 1..n : line[i] = q
        BY <1>2, <3>1 DEF Queues
      <4>. QED BY <2>8, <3>1, <4>1
    <3>2. ASSUME NEW j \in 1..(n - 1), t[j] = q PROVE q \in members \ {r}
      <4>1. PICK i \in 1..n : i # k /\ line[i] = q
        BY <2>7, <2>9, <3>2
      <4>2. q # r
        BY <2>0, <2>10, <4>1
      <4>3. q \in members
        BY <1>2, <4>1 DEF Queues
      <4>. QED BY <4>2, <4>3
    <3>. QED BY <3>1, <3>2
  <2>13. Len(t) = n - 1 /\ n - 1 \in Nat
    BY <1>2, <2>0, <2>7
  <2>14. Queues(t, members \ {r})
    BY <2>7, <2>11, <2>12, <2>13 DEF Queues
  <2>. QED BY <1>2, <2>7, <2>8, <2>13, <2>14
<1>. QED BY <1>3, <1>4

\* Who joins a line is its last.
LEMMA JoinsLine ==
    ASSUME NEW line, NEW members, Queues(line, members), NEW r \in Requests, r \notin members
    PROVE  /\ Queues(Append(line, r), members \cup {r})
           /\ Len(Append(line, r)) = Len(line) + 1
           /\ \A i \in 1..Len(line) : Append(line, r)[i] = line[i]
<1>1. PICK n \in Nat : n = Len(line)
  BY DEF Queues
<1>2. line \in Seq(Requests)
  BY DEF Queues
<1>3. PICK t \in Seq(Requests) : /\ t = Append(line, r) /\ Len(t) = n + 1 /\ t[n + 1] = r
                                 /\ \A i \in 1..n : t[i] = line[i]
  <2>1. /\ Append(line, r) \in Seq(Requests) /\ Len(Append(line, r)) = Len(line) + 1
        /\ Append(line, r)[Len(line) + 1] = r
        /\ \A i \in 1..Len(line) : Append(line, r)[i] = line[i]
    BY <1>2, AppendProperties
  <2>. QED BY <1>1, <2>1
<1>4. \A i \in 1..n : line[i] # r
  BY <1>1 DEF Queues
<1>5. \A i \in 1..(n + 1) : i \in 1..n \/ i = n + 1
  BY <1>1
<1>6. \A i \in 1..n : i \in 1..(n + 1)
  BY <1>1
<1>7. \A i, j \in 1..(n + 1) : t[i] = t[j] => i = j
  BY <1>1, <1>3, <1>4, <1>5 DEF Queues
<1>8. ASSUME NEW q \in Requests
      PROVE  q \in members \cup {r} <=> \E i \in 1..(n + 1) : t[i] = q
  <2>1. q \in members => \E i \in 1..(n + 1) : t[i] = q
    BY <1>1, <1>3, <1>6 DEF Queues
  <2>2. q = r => \E i \in 1..(n + 1) : t[i] = q
    BY <1>1, <1>3
  <2>3. ASSUME NEW i \in 1..(n + 1), t[i] = q PROVE q \in members \cup {r}
    BY <1>1, <1>3, <1>5, <2>3 DEF Queues
  <2>. QED BY <2>1, <2>2, <2>3
<1>. QED BY <1>1, <1>3, <1>7, <1>8 DEF Queues

\* What a request makes of its collection: one of its rejections, or none if there were
\* none, which is all that a fundamentals request, with its many questions, can tell.
LEMMA Verdict ==
    ASSUME NEW errors, NEW id \in Nat, NEW k, NEW codes \in SUBSET (Codes \ {"warning"}),
           FindsItsOwn(errors, id, k, codes)
    PROVE  /\ FirstFatal(errors, id) \in codes \cup {NoCode}
           /\ FirstFatal(errors, id) = NoCode /\ k # "fundamentals" => codes = {}
<1>1. errors \in Seq(Nat \X Codes)
  BY DEF FindsItsOwn
<1>2. CASE /\ FirstFatal(errors, id) = NoCode
           /\ \A i \in 1..Len(errors) : errors[i][1] = id => IsBenign(errors[i][2])
  <2>1. ASSUME k # "fundamentals", NEW c \in codes PROVE FALSE
    <3>1. PICK i \in 1..Len(errors) : errors[i] = <<id, c>>
      BY <2>1 DEF FindsItsOwn
    <3>2. IsBenign(c)
      BY <1>2, <3>1
    <3>. QED BY <3>2 DEF IsBenign
  <2>. QED BY <1>2, <2>1
<1>3. CASE \E i \in 1..Len(errors) :
              /\ errors[i][1] = id /\ ~IsBenign(errors[i][2])
              /\ FirstFatal(errors, id) = errors[i][2]
  <2>1. FirstFatal(errors, id) \in codes
    BY <1>3 DEF FindsItsOwn
  <2>. QED BY <2>1 DEF Codes, NoCode
<1>. QED BY <1>1, <1>2, <1>3, FirstFatalIs

\* An error more, of this question or another.
LEMMA OneMoreError ==
    ASSUME NEW errors, NEW own \in Nat, NEW k, NEW codes, FindsItsOwn(errors, own, k, codes),
           NEW id \in Nat, NEW code \in Codes
    PROVE  FindsItsOwn(Append(errors, <<id, code>>), own, k,
                       IF own = id /\ ~IsBenign(code) THEN codes \cup {code} ELSE codes)
<1>1. errors \in Seq(Nat \X Codes)
  BY DEF FindsItsOwn
<1>2. PICK n \in Nat : n = Len(errors)
  BY <1>1
<1>3. PICK e \in Nat \X Codes : e = <<id, code>> /\ e[1] = id /\ e[2] = code
  <2>1. <<id, code>> \in Nat \X Codes /\ <<id, code>>[1] = id /\ <<id, code>>[2] = code
    OBVIOUS
  <2>. QED BY <2>1
<1>4. PICK t \in Seq(Nat \X Codes) : /\ t = Append(errors, e) /\ Len(t) = n + 1 /\ t[n + 1] = e
                                     /\ \A i \in 1..n : t[i] = errors[i]
  <2>1. /\ Append(errors, e) \in Seq(Nat \X Codes) /\ Len(Append(errors, e)) = Len(errors) + 1
        /\ Append(errors, e)[Len(errors) + 1] = e
        /\ \A i \in 1..Len(errors) : Append(errors, e)[i] = errors[i]
    BY <1>1, AppendProperties
  <2>. QED BY <1>2, <2>1
<1>5. PICK after : after = IF own = id /\ ~IsBenign(code) THEN codes \cup {code} ELSE codes
  OBVIOUS
<1>6. \A i \in 1..(n + 1) : i \in 1..n \/ i = n + 1
  BY <1>2
<1>7. \A i \in 1..(n + 1) : t[i][1] = own /\ ~IsBenign(t[i][2]) => t[i][2] \in after
  BY <1>2, <1>3, <1>4, <1>5, <1>6 DEF FindsItsOwn
<1>8. ASSUME k # "fundamentals", NEW c \in after
      PROVE  \E i \in 1..(n + 1) : t[i] = <<own, c>>
  <2>1. CASE c \in codes
    <3>1. PICK i \in 1..n : errors[i] = <<own, c>>
      BY <1>2, <1>8, <2>1 DEF FindsItsOwn
    <3>2. i \in 1..(n + 1) /\ t[i] = errors[i]
      BY <1>2, <1>4
    <3>. QED BY <3>1, <3>2
  <2>2. CASE c \notin codes
    <3>1. own = id /\ c = code
      BY <1>5, <1>8, <2>2
    <3>2. n + 1 \in 1..(n + 1)
      BY <1>2
    <3>. QED BY <1>3, <1>4, <3>1, <3>2
  <2>. QED BY <2>1, <2>2
<1>9. FindsItsOwn(t, own, k, after)
  BY <1>4, <1>7, <1>8 DEF FindsItsOwn
<1>. QED BY <1>3, <1>4, <1>5, <1>9

\* A question is asked: the request comes from the head of its line, or needs none.
LEMMA AskKeeps ==
    ASSUME RequestsInv, NEW r \in Requests, Ask(r),
           UNCHANGED <<kind, rejected, bars, scans>>,
           reject' = [q \in Requests |-> reject'[q]],
           \A q \in Requests : reject'[q] \in rejected[q] \cup {NoCode, "records"},
           \A q \in Requests : q # r => reject'[q] = reject[q],
           answer' = answer,
           \/ phase[r] \in {"resolving", "asking"} /\ kind[r] = "fundamentals"
           \/ /\ phase[r] = "queued"
              /\ \/ kind[r] = "historical" /\ Head(bars) = r
                 \/ kind[r] = "scan" /\ \E i \in 1..Len(scans) : i <= MaxScans /\ scans[i] = r
    PROVE  RequestsInv'
<1>1. /\ phase' \in [Requests -> {"idle", "resolving", "queued", "asking", "done"}]
      /\ phase'[r] = "asking" /\ \A q \in Requests : q # r => phase'[q] = phase[q]
      /\ reqId' \in [Requests -> Nat] /\ nextId' \in Nat
      /\ \A q \in Requests : q # r => reqId'[q] = reqId[q]
      /\ future' \in [Requests -> {"pending", "data", "empty", "lost"}]
  BY DEF RequestsInv, Ask
<1>2. /\ DOMAIN collected' = Requests /\ collected' = [q \in Requests |-> collected'[q]]
      /\ collected'[r] = <<>> /\ \A q \in Requests : q # r => collected'[q] = collected[q]
  BY ZenonT(40) DEF RequestsInv, Ask
<1>3. InLine("historical")' = InLine("historical") /\ InLine("scan")' = InLine("scan")
  <2>1. CASE phase[r] = "queued"
    BY <1>1, <2>1 DEF InLine
  <2>2. CASE kind[r] = "fundamentals" /\ phase[r] \in {"resolving", "asking"}
    BY <1>1, <2>2 DEF InLine
  <2>. QED BY <2>1, <2>2
<1>4. LinesInv'
  <2>1. Queues(bars, InLine("historical")) /\ Queues(scans, InLine("scan"))
    BY DEF RequestsInv, LinesInv
  <2>2. Queues(bars, InLine("historical"))' /\ Queues(scans, InLine("scan"))'
    BY <1>3, <2>1 DEF Queues
  <2>3. ASSUME NEW q \in Requests, phase'[q] = "asking"
        PROVE  /\ kind'[q] = "historical" => Head(bars') = q
               /\ kind'[q] = "scan" => \E i \in 1..Len(scans') : i <= MaxScans /\ scans'[i] = q
    <3>1. q = r \/ phase[q] = "asking"
      BY <1>1, <2>3
    <3>2. kind'[q] = kind[q] /\ bars' = bars /\ scans' = scans
      OBVIOUS
    <3>3. CASE phase[q] = "asking"
      BY <3>2, <3>3 DEF RequestsInv, LinesInv
    <3>4. CASE q = r
      BY <3>2, <3>4
    <3>. QED BY <3>1, <3>3, <3>4
  <2>. QED BY <2>2, <2>3 DEF LinesInv
<1>5. ASSUME NEW q \in Requests
      PROVE  /\ phase'[q] \in {"idle", "resolving", "queued"} => rejected'[q] = {}
             /\ phase'[q] = "asking" => FindsItsOwn(collected'[q], reqId'[q], kind'[q], rejected'[q])
             /\ reject'[q] \in rejected'[q] \cup {NoCode, "records"}
             /\ phase'[q] = "done" => AnswerIsRight(q, kind'[q], answer'[q], reject'[q], rejected'[q])
  <2>1. CASE q = r
    <3>1. kind[r] # "fundamentals" => rejected[r] = {}
      BY DEF RequestsInv, ErrorsInv
    <3>2. FindsItsOwn(<<>>, reqId'[r], kind[r], rejected[r])
      BY <3>1 DEF FindsItsOwn
    <3>. QED BY <1>1, <1>2, <2>1, <3>2
  <2>2. CASE q # r
    BY <1>1, <1>2, <2>2 DEF RequestsInv, ErrorsInv
  <2>. QED BY <2>1, <2>2
<1>6. ErrorsInv'
  BY <1>5 DEF ErrorsInv
<1>. QED BY <1>1, <1>2, <1>4, <1>6 DEF RequestsInv

\* A reply is given: the others keep their places, and go ahead.
LEMMA ReplyKeeps ==
    ASSUME RequestsInv, NEW r \in Requests, NEW a, Reply(r, a),
           phase[r] \in {"resolving", "asking"},
           UNCHANGED <<kind, rejected, nextId>>,
           reject' = [q \in Requests |-> reject'[q]],
           reject'[r] \in rejected[r] \cup {NoCode, "records"},
           \A q \in Requests : q # r => reject'[q] = reject[q],
           AnswerIsRight(r, kind[r], a, reject'[r], rejected[r])
    PROVE  RequestsInv'
<1>1. /\ phase' \in [Requests -> {"idle", "resolving", "queued", "asking", "done"}]
      /\ phase'[r] = "done" /\ \A q \in Requests : q # r => phase'[q] = phase[q]
      /\ reqId' \in [Requests -> Nat]
      /\ \A q \in Requests : q # r => reqId'[q] = reqId[q]
      /\ future' \in [Requests -> {"pending", "data", "empty", "lost"}]
  BY DEF RequestsInv, Reply, Foreign
<1>2. /\ DOMAIN collected' = Requests /\ collected' = [q \in Requests |-> collected'[q]]
      /\ \A q \in Requests : q # r => collected'[q] = collected[q]
      /\ answer' = [q \in Requests |-> answer'[q]]
      /\ answer'[r] = a /\ \A q \in Requests : q # r => answer'[q] = answer[q]
  BY ZenonT(40) DEF RequestsInv, Reply
<1>3. InLine("historical")' = InLine("historical") \ {r} /\ InLine("scan")' = InLine("scan") \ {r}
  BY <1>1 DEF InLine
<1>4. /\ Queues(bars, InLine("historical"))' /\ Queues(scans, InLine("scan"))'
      /\ \A i \in 1..Len(bars) : bars[i] # r =>
            \E j \in 1..Len(bars') : j <= i /\ bars'[j] = bars[i]
      /\ \A i \in 1..Len(scans) : scans[i] # r =>
            \E j \in 1..Len(scans') : j <= i /\ scans'[j] = scans[i]
  <2>1. Queues(bars, InLine("historical")) /\ Queues(scans, InLine("scan"))
    BY DEF RequestsInv, LinesInv
  <2>2. bars' = RemoveFirst(bars, r) /\ scans' = RemoveFirst(scans, r)
    BY DEF Reply
  <2>3. Queues(bars', InLine("historical") \ {r}) /\ Queues(scans', InLine("scan") \ {r})
    BY <2>1, <2>2, LeavesLine
  <2>4. Queues(bars, InLine("historical"))' /\ Queues(scans, InLine("scan"))'
    BY <1>3, <2>3 DEF Queues
  <2>. QED BY <2>1, <2>2, <2>4, LeavesLine
<1>5. ASSUME NEW q \in Requests, phase'[q] = "asking"
      PROVE  /\ kind'[q] = "historical" => Head(bars') = q
             /\ kind'[q] = "scan" => \E i \in 1..Len(scans') : i <= MaxScans /\ scans'[i] = q
  <2>1. q # r /\ phase[q] = "asking" /\ kind'[q] = kind[q]
    BY <1>1, <1>5
  <2>2. CASE kind[q] = "historical"
    <3>1. Head(bars) = q /\ bars \in Seq(Requests)
      BY <2>1, <2>2 DEF RequestsInv, LinesInv, Queues
    <3>2. 1 \in 1..Len(bars) /\ bars[1] = q
      <4>1. q \in InLine("historical")
        BY <2>1, <2>2 DEF InLine
      <4>2. \E i \in 1..Len(bars) : bars[i] = q
        BY <4>1 DEF RequestsInv, LinesInv, Queues
      <4>. QED BY <3>1, <4>2
    <3>3. PICK j \in 1..Len(bars') : j <= 1 /\ bars'[j] = q
      BY <1>4, <2>1, <3>2
    <3>4. bars'[1] = q
      BY <3>3
    <3>. QED BY <2>1, <2>2, <3>4
  <2>3. CASE kind[q] = "scan"
    <3>1. PICK i \in 1..Len(scans) : i <= MaxScans /\ scans[i] = q
      BY <2>1, <2>3 DEF RequestsInv, LinesInv
    <3>2. PICK j \in 1..Len(scans') : j <= i /\ scans'[j] = q
      BY <1>4, <2>1, <3>1
    <3>3. j <= MaxScans
      BY <3>1, <3>2, RequestsAssumption
    <3>. QED BY <2>1, <2>3, <3>2, <3>3
  <2>. QED BY <2>1, <2>2, <2>3
<1>6. LinesInv'
  BY <1>4, <1>5 DEF LinesInv
<1>7. ASSUME NEW q \in Requests
      PROVE  /\ phase'[q] \in {"idle", "resolving", "queued"} => rejected'[q] = {}
             /\ phase'[q] = "asking" => FindsItsOwn(collected'[q], reqId'[q], kind'[q], rejected'[q])
             /\ reject'[q] \in rejected'[q] \cup {NoCode, "records"}
             /\ phase'[q] = "done" => AnswerIsRight(q, kind'[q], answer'[q], reject'[q], rejected'[q])
  <2>1. CASE q = r
    BY <1>1, <1>2, <2>1 DEF AnswerIsRight
  <2>2. CASE q # r
    BY <1>1, <1>2, <2>2 DEF RequestsInv, ErrorsInv
  <2>. QED BY <2>1, <2>2
<1>8. ErrorsInv'
  BY <1>7 DEF ErrorsInv
<1>. QED BY <1>1, <1>2, <1>6, <1>8 DEF RequestsInv

\* Errors come one after another, to all that collect: each keeps track of its own.
LEMMA ErrorKeeps ==
    ASSUME RequestsInv, NEW id \in Nat, NEW code \in Codes, ErrorEvent(id, code)
    PROVE  RequestsInv'
<1>. DEFINE Hits(q) == q \in Collecting /\ reqId[q] = id /\ ~IsBenign(code)
<1>1. /\ UNCHANGED <<phase, kind, reqId, reject, answer, bars, scans, nextId>>
      /\ future' \in [Requests -> {"pending", "data", "empty", "lost"}]
      /\ DOMAIN collected' = Requests /\ collected' = [q \in Requests |-> collected'[q]]
      /\ rejected' \in [Requests -> SUBSET (Codes \ {"warning"})]
  BY DEF RequestsInv, ErrorEvent, IsBenign
<1>2. \A q \in Requests :
         /\ phase[q] # "asking" => collected'[q] = collected[q] /\ rejected'[q] = rejected[q]
         /\ phase[q] = "asking" =>
               /\ collected'[q] = Append(collected[q], <<id, code>>)
               /\ rejected'[q] = IF reqId[q] = id /\ ~IsBenign(code) THEN rejected[q] \cup {code}
                                 ELSE rejected[q]
  BY DEF RequestsInv, ErrorEvent, Collecting
<1>3. LinesInv'
  BY <1>1 DEF RequestsInv, LinesInv, Queues, InLine
<1>4. ASSUME NEW q \in Requests
      PROVE  /\ phase'[q] \in {"idle", "resolving", "queued"} => rejected'[q] = {}
             /\ phase'[q] = "asking" => FindsItsOwn(collected'[q], reqId'[q], kind'[q], rejected'[q])
             /\ reject'[q] \in rejected'[q] \cup {NoCode, "records"}
             /\ phase'[q] = "done" => AnswerIsRight(q, kind'[q], answer'[q], reject'[q], rejected'[q])
  <2>1. CASE phase[q] = "asking"
    <3>1. FindsItsOwn(collected[q], reqId[q], kind[q], rejected[q]) /\ reqId[q] \in Nat
      BY <2>1 DEF RequestsInv, ErrorsInv
    <3>2. FindsItsOwn(Append(collected[q], <<id, code>>), reqId[q], kind[q],
                      IF reqId[q] = id /\ ~IsBenign(code) THEN rejected[q] \cup {code}
                      ELSE rejected[q])
      BY <3>1, OneMoreError
    <3>3. FindsItsOwn(collected'[q], reqId'[q], kind'[q], rejected'[q])
      BY <1>1, <1>2, <2>1, <3>2
    <3>4. reject'[q] \in rejected'[q] \cup {NoCode, "records"}
      BY <1>1, <1>2, <2>1 DEF RequestsInv, ErrorsInv
    <3>. QED BY <1>1, <2>1, <3>3, <3>4
  <2>2. CASE phase[q] # "asking"
    BY <1>1, <1>2, <2>2 DEF RequestsInv, ErrorsInv
  <2>. QED BY <2>1, <2>2
<1>5. ErrorsInv'
  BY <1>4 DEF ErrorsInv
<1>. QED BY <1>1, <1>3, <1>5 DEF RequestsInv

\* What the rules of the line say of their holders.
LEMMA HoldersAreFew ==
    ASSUME RequestsInv
    PROVE  /\ Cardinality({r \in Collecting : kind[r] = "historical"}) <= 1
           /\ Cardinality({r \in Collecting : kind[r] = "scan"}) <= MaxScans
<1>1. Cardinality({r \in Collecting : kind[r] = "historical"}) <= 1
  <2>. DEFINE S == {r \in Collecting : kind[r] = "historical"}
  <2>1. S \in SUBSET {Head(bars)}
    BY DEF RequestsInv, LinesInv, Collecting
  <2>2. IsFiniteSet({Head(bars)}) /\ Cardinality({Head(bars)}) = 1
    BY FS_Singleton
  <2>3. Cardinality(S) <= Cardinality({Head(bars)})
    BY <2>1, <2>2, FS_Subset
  <2>. QED BY <2>2, <2>3
<1>2. Cardinality({r \in Collecting : kind[r] = "scan"}) <= MaxScans
  <2>. DEFINE S == {r \in Collecting : kind[r] = "scan"}
              At(r) == CHOOSE i \in 1..MaxScans : i \in 1..Len(scans) /\ scans[i] = r
              pos == [r \in S |-> At(r)]
  <2>1. \A r \in S : \E i \in 1..MaxScans : i \in 1..Len(scans) /\ scans[i] = r
    <3>1. ASSUME NEW r \in S PROVE \E i \in 1..Len(scans) : i <= MaxScans /\ scans[i] = r
      BY DEF RequestsInv, LinesInv, Collecting
    <3>. QED BY <3>1, RequestsAssumption
  <2>2. \A r \in S : At(r) \in 1..MaxScans /\ scans[At(r)] = r
    BY <2>1
  <2>3. pos \in [S -> 1..MaxScans] /\ \A r, q \in S : pos[r] = pos[q] => r = q
    BY <2>2
  <2>4. pos \in Injection(S, 1..MaxScans)
    BY <2>3 DEF Injection, IsInjective
  <2>5. MaxScans \in Nat \ {0} /\ IsFiniteSet(1..MaxScans) /\ Cardinality(1..MaxScans) = MaxScans
    <3>1. MaxScans \in Nat \ {0}
      BY RequestsAssumption
    <3>2. IsFiniteSet(1..MaxScans)
          /\ Cardinality(1..MaxScans) = IF 1 > MaxScans THEN 0 ELSE MaxScans - 1 + 1
      BY <3>1, FS_Interval
    <3>. QED BY <3>1, <3>2
  <2>. HIDE DEF S, pos
  <2>6. Cardinality(S) <= Cardinality(1..MaxScans)
    BY <2>4, <2>5, FS_Injection
  <2>. QED BY <2>5, <2>6 DEF S
<1>. QED BY <1>1, <1>2

LEMMA RequestsInductive == RequestsSpec => []RequestsInv
<1>. USE RequestsAssumption
<1>1. RequestsInit => RequestsInv
  <2>. SUFFICES ASSUME RequestsInit PROVE RequestsInv
    OBVIOUS
  <2>1. LinesInv
    <3>1. InLine("historical") = {} /\ InLine("scan") = {}
      BY DEF RequestsInit, InLine
    <3>. QED BY <3>1 DEF RequestsInit, LinesInv, Queues
  <2>2. ErrorsInv
    BY DEF RequestsInit, ErrorsInv
  <2>. QED BY <2>1, <2>2 DEF RequestsInit, RequestsInv, Kinds, Foreign
<1>2. ASSUME RequestsInv, NEW r \in Requests, StartRequest(r) PROVE RequestsInv'
  <2>1. PICK k \in Kinds :
           /\ phase[r] = "idle"
           /\ kind' = [kind EXCEPT ![r] = k]
           /\ phase' = [phase EXCEPT ![r] = IF k = "scan" THEN "queued" ELSE "resolving"]
           /\ scans' = (IF k = "scan" THEN Append(scans, r) ELSE scans)
           /\ UNCHANGED <<reqId, future, collected, reject, answer, bars, nextId, rejected>>
    BY <1>2 DEF StartRequest
  <2>2. /\ kind' \in [Requests -> Kinds] /\ kind'[r] = k
        /\ phase' \in [Requests -> {"idle", "resolving", "queued", "asking", "done"}]
        /\ phase'[r] = IF k = "scan" THEN "queued" ELSE "resolving"
        /\ \A q \in Requests : q # r => kind'[q] = kind[q] /\ phase'[q] = phase[q]
    <3>1. PICK p \in {"queued", "resolving"} : p = IF k = "scan" THEN "queued" ELSE "resolving"
      OBVIOUS
    <3>2. phase' = [phase EXCEPT ![r] = p]
      BY <2>1, <3>1
    <3>. QED BY <1>2, <2>1, <3>1, <3>2 DEF RequestsInv
  <2>3. InLine("historical")' = InLine("historical") /\ r \notin InLine("scan")
        /\ InLine("scan")' = (IF k = "scan" THEN InLine("scan") \cup {r} ELSE InLine("scan"))
    BY <2>1, <2>2 DEF InLine
  <2>4. Queues(bars, InLine("historical")) /\ Queues(scans, InLine("scan"))
    BY <1>2 DEF RequestsInv, LinesInv
  <2>5. /\ Queues(scans', InLine("scan")')
        /\ \A i \in 1..Len(scans) : i \in 1..Len(scans') /\ scans'[i] = scans[i]
    <3>1. CASE k = "scan"
      <4>1. /\ Queues(Append(scans, r), InLine("scan") \cup {r})
            /\ Len(Append(scans, r)) = Len(scans) + 1
            /\ \A i \in 1..Len(scans) : Append(scans, r)[i] = scans[i]
        BY <2>3, <2>4, JoinsLine
      <4>2. Len(scans) \in Nat
        BY <2>4 DEF Queues
      <4>3. \A i \in 1..Len(scans) : i \in 1..(Len(scans) + 1)
        BY <4>2
      <4>4. scans' = Append(scans, r) /\ InLine("scan")' = InLine("scan") \cup {r}
        BY <2>1, <2>3, <3>1
      <4>. QED BY <4>1, <4>3, <4>4
    <3>2. CASE k # "scan"
      BY <2>1, <2>3, <2>4, <3>2
    <3>. QED BY <3>1, <3>2
  <2>6. Queues(bars, InLine("historical"))' /\ Queues(scans, InLine("scan"))'
    <3>1. Queues(bars', InLine("historical")')
      BY <2>1, <2>3, <2>4
    <3>. QED BY <2>5, <3>1 DEF Queues
  <2>7. LinesInv'
    <3>1. ASSUME NEW q \in Requests, phase'[q] = "asking"
          PROVE  /\ kind'[q] = "historical" => Head(bars') = q
                 /\ kind'[q] = "scan" => \E i \in 1..Len(scans') : i <= MaxScans /\ scans'[i] = q
      <4>1. phase[q] = "asking" /\ kind'[q] = kind[q]
        BY <2>2, <3>1
      <4>2. /\ kind[q] = "historical" => Head(bars) = q
            /\ kind[q] = "scan" => \E i \in 1..Len(scans) : i <= MaxScans /\ scans[i] = q
        BY <1>2, <4>1 DEF RequestsInv, LinesInv
      <4>3. bars' = bars
        BY <2>1
      <4>. QED BY <2>5, <4>1, <4>2, <4>3
    <3>. QED BY <2>6, <3>1 DEF LinesInv
  <2>8. ErrorsInv'
    BY <1>2, <2>1, <2>2 DEF RequestsInv, ErrorsInv
  <2>. QED BY <1>2, <2>1, <2>2, <2>7, <2>8 DEF RequestsInv
<1>3. ASSUME RequestsInv, NEW r \in Requests, Resolved(r) PROVE RequestsInv'
  <2>1. CASE kind[r] = "fundamentals" /\ Ask(r) /\ UNCHANGED bars
    BY <1>3, <2>1, AskKeeps DEF Resolved, RequestsInv, ErrorsInv
  <2>2. CASE /\ kind[r] = "historical" /\ phase' = [phase EXCEPT ![r] = "queued"]
             /\ bars' = Append(bars, r) /\ UNCHANGED <<reqId, nextId, future, collected>>
    <3>1. phase[r] = "resolving" /\ UNCHANGED <<kind, reject, answer, scans, rejected>>
      BY <1>3 DEF Resolved
    <3>2. /\ phase' \in [Requests -> {"idle", "resolving", "queued", "asking", "done"}]
          /\ phase'[r] = "queued" /\ \A q \in Requests : q # r => phase'[q] = phase[q]
      BY <1>3, <2>2 DEF RequestsInv
    <3>3. /\ InLine("scan")' = InLine("scan") /\ r \notin InLine("historical")
          /\ InLine("historical")' = InLine("historical") \cup {r}
      BY <2>2, <3>1, <3>2 DEF InLine
    <3>4. Queues(bars, InLine("historical")) /\ Queues(scans, InLine("scan"))
      BY <1>3 DEF RequestsInv, LinesInv
    <3>5. /\ Queues(Append(bars, r), InLine("historical") \cup {r})
          /\ Len(Append(bars, r)) = Len(bars) + 1
          /\ \A i \in 1..Len(bars) : Append(bars, r)[i] = bars[i]
      BY <3>3, <3>4, JoinsLine
    <3>6. Queues(bars, InLine("historical"))' /\ Queues(scans, InLine("scan"))'
      BY <2>2, <3>1, <3>3, <3>4, <3>5 DEF Queues
    <3>7. ASSUME NEW q \in Requests, phase'[q] = "asking"
          PROVE  /\ kind'[q] = "historical" => Head(bars') = q
                 /\ kind'[q] = "scan" => \E i \in 1..Len(scans') : i <= MaxScans /\ scans'[i] = q
      <4>1. phase[q] = "asking" /\ kind'[q] = kind[q]
        BY <3>1, <3>2, <3>7
      <4>2. CASE kind[q] = "historical"
        <5>1. q \in InLine("historical") /\ Head(bars) = q /\ bars \in Seq(Requests)
          BY <1>3, <3>4, <4>1, <4>2 DEF RequestsInv, LinesInv, InLine, Queues
        <5>2. 1 \in 1..Len(bars)
          <6>1. \E i \in 1..Len(bars) : bars[i] = q
            BY <3>4, <5>1 DEF Queues
          <6>. QED BY <5>1, <6>1
        <5>3. bars'[1] = q
          BY <2>2, <3>5, <5>1, <5>2
        <5>. QED BY <4>1, <4>2, <5>3
      <4>3. CASE kind[q] # "historical"
        BY <1>3, <3>1, <4>1, <4>3 DEF RequestsInv, LinesInv
      <4>. QED BY <4>2, <4>3
    <3>8. LinesInv'
      BY <3>6, <3>7 DEF LinesInv
    <3>9. ErrorsInv'
      BY <1>3, <2>2, <3>1, <3>2 DEF RequestsInv, ErrorsInv
    <3>. QED BY <1>3, <2>2, <3>1, <3>2, <3>8, <3>9 DEF RequestsInv
  <2>. QED BY <1>3, <2>1, <2>2 DEF Resolved
<1>4. ASSUME RequestsInv, NEW r \in Requests, NotResolved(r) PROVE RequestsInv'
  <2>1. PICK a \in {Answer(404, "contract_not_found"), Answer(502, "lost")} :
           Reply(r, a) /\ phase[r] = "resolving" /\ UNCHANGED <<kind, left, reject, nextId, rejected>>
    BY <1>4 DEF NotResolved
  <2>2. a.code \notin Codes /\ a.status # 200
    BY DEF Answer, Codes
  <2>. QED BY <1>4, <2>1, <2>2, ReplyKeeps DEF AnswerIsRight, RequestsInv, ErrorsInv
<1>5. ASSUME RequestsInv, NEW r \in Requests, Granted(r) PROVE RequestsInv'
  <2>1. Ask(r) /\ phase[r] = "queued" /\ UNCHANGED <<kind, left, reject, answer, bars, scans, spaced, rejected>>
    BY <1>5 DEF Granted
  <2>2. \/ kind[r] = "historical" /\ Head(bars) = r
        \/ kind[r] = "scan" /\ \E i \in 1..Len(scans) : i <= MaxScans /\ scans[i] = r
    BY <1>5 DEF Granted, RequestsInv, LinesInv, Queues
  <2>. QED BY <1>5, <2>1, <2>2, AskKeeps DEF RequestsInv, ErrorsInv
<1>6. ASSUME RequestsInv, NEW r \in Requests, NEW how \in {"data", "empty", "lost"}, Ends(r, how)
      PROVE  RequestsInv'
  BY <1>6 DEF Ends, RequestsInv, LinesInv, ErrorsInv, Queues, InLine
<1>7. ASSUME RequestsInv, NEW r \in Requests, FinishBars(r) \/ FinishScan(r) \/ ScanTimesOut(r)
      PROVE  RequestsInv'
  <2>1. /\ phase[r] = "asking" /\ kind[r] \in {"historical", "scan"}
        /\ UNCHANGED <<kind, left, reject, nextId, rejected>>
    BY <1>7 DEF FinishBars, FinishScan, ScanTimesOut
  <2>2. PICK fatal : fatal = FirstFatal(collected[r], reqId[r])
    OBVIOUS
  <2>3. /\ fatal \in rejected[r] \cup {NoCode} /\ rejected[r] \in SUBSET (Codes \ {"warning"})
        /\ fatal = NoCode => rejected[r] = {}
    <3>1. /\ FindsItsOwn(collected[r], reqId[r], kind[r], rejected[r]) /\ reqId[r] \in Nat
          /\ rejected[r] \in SUBSET (Codes \ {"warning"})
      BY <1>7, <2>1 DEF RequestsInv, ErrorsInv
    <3>. QED BY <2>1, <2>2, <3>1, Verdict
  <2>4. PICK a : /\ Reply(r, a)
                 /\ \/ a \in {Answer(502, "lost"), Answer(504, "timeout")}
                    \/ /\ kind[r] = "historical" /\ fatal \in {NoCode, "no_data"}
                       /\ a = Answer(200, future[r])
                    \/ fatal # NoCode /\ a \in {HistoricalError(fatal), ScannerError(fatal)}
                    \/ kind[r] = "scan" /\ fatal = NoCode /\ a = Answer(200, future[r])
    <3>1. CASE FinishBars(r)
      BY <2>2, <3>1 DEF FinishBars
    <3>2. CASE FinishScan(r)
      BY <2>2, <3>2 DEF FinishScan
    <3>3. CASE ScanTimesOut(r)
      BY <3>3 DEF ScanTimesOut
    <3>. QED BY <1>7, <3>1, <3>2, <3>3
  <2>5. future[r] \notin Codes
    BY <1>7 DEF RequestsInv, Codes
  <2>6. AnswerIsRight(r, kind[r], a, reject[r], rejected[r])
    <3>1. CASE a \in {Answer(502, "lost"), Answer(504, "timeout")}
      BY <3>1 DEF AnswerIsRight, Answer, Codes
    <3>2. CASE /\ kind[r] = "historical" /\ fatal \in {NoCode, "no_data"}
               /\ a = Answer(200, future[r])
      <4>1. rejected[r] = {} \/ "no_data" \in rejected[r]
        BY <2>3, <3>2 DEF NoCode
      <4>. QED BY <2>5, <3>2, <4>1 DEF AnswerIsRight, Answer
    <3>3. CASE fatal # NoCode /\ a \in {HistoricalError(fatal), ScannerError(fatal)}
      <4>1. a.code = fatal /\ a.status # 200
        BY <3>3 DEF HistoricalError, ScannerError, Answer
      <4>. QED BY <2>3, <3>3, <4>1 DEF AnswerIsRight
    <3>4. CASE kind[r] = "scan" /\ fatal = NoCode /\ a = Answer(200, future[r])
      BY <2>3, <2>5, <3>4 DEF AnswerIsRight, Answer
    <3>. QED BY <2>4, <3>1, <3>2, <3>3, <3>4
  <2>. QED BY <1>7, <2>1, <2>4, <2>6, ReplyKeeps DEF RequestsInv, ErrorsInv
<1>9. ASSUME RequestsInv, NEW r \in Requests, NEW xml \in BOOLEAN,
             NEW why \in rejected[r] \cup {NoCode}, NextReport(r, xml, why),
             kind[r] = "fundamentals", phase[r] = "asking"
      PROVE  RequestsInv'
  <2>1. PICK first : first = IF xml \/ reject[r] = "records" THEN "records"
                             ELSE IF reject[r] = NoCode THEN why ELSE reject[r]
    OBVIOUS
  <2>2. first \in rejected[r] \cup {NoCode, "records"}
    BY <1>9, <2>1 DEF RequestsInv, ErrorsInv
  <2>3. /\ reject' = [reject EXCEPT ![r] = first] /\ UNCHANGED <<kind, rejected>>
        /\ \/ Ask(r) /\ UNCHANGED <<answer, bars, scans>>
           \/ /\ Reply(r, IF first = "records" THEN Answer(200, "data")
                           ELSE IF first = NoCode THEN Answer(404, "unavailable")
                           ELSE HistoricalError(first))
              /\ UNCHANGED nextId
    BY <1>9, <2>1 DEF NextReport
  <2>4. /\ reject' = [q \in Requests |-> reject'[q]] /\ reject'[r] = first
        /\ \A q \in Requests : q # r => reject'[q] = reject[q]
    BY <1>9, <2>3 DEF RequestsInv
  <2>5. CASE Ask(r) /\ UNCHANGED <<answer, bars, scans>>
    <3>1. \A q \in Requests : reject'[q] \in rejected[q] \cup {NoCode, "records"}
      BY <1>9, <2>2, <2>4 DEF RequestsInv, ErrorsInv
    <3>. QED BY <1>9, <2>3, <2>4, <2>5, <3>1, AskKeeps
  <2>6. ASSUME NEW a, Reply(r, a), UNCHANGED nextId,
               a = IF first = "records" THEN Answer(200, "data")
                   ELSE IF first = NoCode THEN Answer(404, "unavailable")
                   ELSE HistoricalError(first)
        PROVE  RequestsInv'
    <3>1. CASE first = "records"
      <4>1. AnswerIsRight(r, kind[r], a, reject'[r], rejected[r])
        BY <1>9, <2>4, <2>6, <3>1 DEF AnswerIsRight, Answer, Codes
      <4>. QED BY <1>9, <2>2, <2>3, <2>4, <2>6, <4>1, ReplyKeeps, ZenonT(40)
    <3>2. CASE first = NoCode
      <4>1. AnswerIsRight(r, kind[r], a, reject'[r], rejected[r])
        BY <2>6, <3>2 DEF AnswerIsRight, Answer, Codes, NoCode
      <4>. QED BY <1>9, <2>2, <2>3, <2>4, <2>6, <4>1, ReplyKeeps, ZenonT(40)
    <3>3. CASE first \notin {"records", NoCode}
      <4>1. a.code = first /\ a.status # 200 /\ first \in rejected[r]
        BY <2>2, <2>6, <3>3 DEF HistoricalError, Answer
      <4>2. AnswerIsRight(r, kind[r], a, reject'[r], rejected[r])
        BY <4>1 DEF AnswerIsRight
      <4>. QED BY <1>9, <2>2, <2>3, <2>4, <2>6, <4>2, ReplyKeeps, ZenonT(40)
    <3>. QED BY <3>1, <3>2, <3>3
  <2>. QED BY <2>3, <2>5, <2>6
<1>10. ASSUME RequestsInv, NEW r \in Requests, FinishReport(r) \/ ReportTimesOut(r)
       PROVE  RequestsInv'
  <2>1. kind[r] = "fundamentals" /\ phase[r] = "asking"
    BY <1>10 DEF FinishReport, ReportTimesOut
  <2>2. CASE ReportTimesOut(r)
    BY <1>9, <1>10, <2>1, <2>2 DEF ReportTimesOut
  <2>3. CASE FinishReport(r) /\ future[r] = "lost"
    <3>1. Reply(r, Answer(502, "lost")) /\ UNCHANGED <<kind, left, reject, nextId, rejected>>
      BY <2>3 DEF FinishReport
    <3>2. AnswerIsRight(r, kind[r], Answer(502, "lost"), reject[r], rejected[r])
      BY DEF AnswerIsRight, Answer, Codes
    <3>. QED BY <1>10, <2>1, <3>1, <3>2, ReplyKeeps DEF RequestsInv, ErrorsInv
  <2>4. CASE FinishReport(r) /\ future[r] # "lost"
    <3>1. /\ FindsItsOwn(collected[r], reqId[r], kind[r], rejected[r]) /\ reqId[r] \in Nat
          /\ rejected[r] \in SUBSET (Codes \ {"warning"})
      BY <1>10, <2>1 DEF RequestsInv, ErrorsInv
    <3>2. PICK fatal \in rejected[r] \cup {NoCode} : fatal = FirstFatal(collected[r], reqId[r])
      BY <3>1, Verdict
    <3>3. PICK xml \in BOOLEAN : xml = (fatal = NoCode /\ future[r] = "data")
      OBVIOUS
    <3>4. NextReport(r, fatal = NoCode /\ future[r] = "data", fatal)
      BY <2>4, <3>2 DEF FinishReport
    <3>5. NextReport(r, xml, fatal)
      BY <3>3, <3>4 DEF NextReport
    <3>. QED BY <1>9, <1>10, <2>1, <3>5
  <2>. QED BY <1>10, <2>2, <2>3, <2>4
<1>11. ASSUME RequestsInv, PacingElapses PROVE RequestsInv'
  BY <1>11 DEF PacingElapses, RequestsInv, LinesInv, ErrorsInv, Queues, InLine
<1>12. ASSUME RequestsInv, UNCHANGED requestVars PROVE RequestsInv'
  BY <1>12 DEF requestVars, RequestsInv, LinesInv, ErrorsInv, Queues, InLine
<1>13. ASSUME RequestsInv, NEW id \in 0..(nextId - 1), NEW code \in Codes, ErrorEvent(id, code)
       PROVE  RequestsInv'
  <2>1. id \in Nat
    BY <1>13 DEF RequestsInv
  <2>. QED BY <1>13, <2>1, ErrorKeeps
<1>14. RequestsInv /\ [RequestsNext]_requestVars => RequestsInv'
  BY <1>2, <1>3, <1>4, <1>5, <1>6, <1>7, <1>10, <1>11, <1>12, <1>13 DEF RequestsNext
<1>. QED BY <1>1, <1>14, PTL DEF RequestsSpec

\* For any requests, slots and report types: every reply of these reads is about the
\* rejections of its own questions, and no more of them run at a time than may.
THEOREM ErrorsAreFound == RequestsSpec => []ErrorsFindTheirRequest
<1>1. RequestsInv => ErrorsFindTheirRequest
  BY HoldersAreFew DEF RequestsInv, ErrorsInv, AnswerIsRight, ErrorsFindTheirRequest
<1>. QED BY <1>1, RequestsInductive, PTL

\* A fundamentals request under way still has a report to ask for.
RequestsRest ==
    /\ spaced \in BOOLEAN /\ left \in [Requests -> 0..Reports]
    /\ \A r \in Requests : collected[r] \in Seq(Nat \X Codes)
    /\ \A r \in Requests :
          kind[r] = "fundamentals" /\ phase[r] \in {"resolving", "asking"} => left[r] >= 1

\* A reply and a question leave the collections what they are.
LEMMA RepliesAndQuestions ==
    ASSUME RequestsInv, RequestsRest, NEW r \in Requests
    PROVE  /\ \A a : Reply(r, a) => /\ spaced' \in BOOLEAN
                                    /\ \A s \in Requests : collected'[s] \in Seq(Nat \X Codes)
                                    /\ phase'[r] = "done"
                                    /\ \A s \in Requests : s # r => phase'[s] = phase[s]
           /\ Ask(r) => /\ \A s \in Requests : collected'[s] \in Seq(Nat \X Codes)
                        /\ phase'[r] = "asking"
                        /\ \A s \in Requests : s # r => phase'[s] = phase[s]
<1>1. <<>> \in Seq(Nat \X Codes)
  OBVIOUS
<1>2. /\ phase = [s \in Requests |-> phase[s]] /\ DOMAIN phase = Requests
      /\ DOMAIN collected = Requests
  BY DEF RequestsInv
<1>3. \A s \in Requests : [collected EXCEPT ![r] = <<>>][s] \in Seq(Nat \X Codes)
  BY <1>1, <1>2 DEF RequestsRest
<1>4. ASSUME NEW x PROVE /\ [phase EXCEPT ![r] = x][r] = x
                         /\ \A s \in Requests : s # r => [phase EXCEPT ![r] = x][s] = phase[s]
  BY <1>2
<1>5. ASSUME NEW a, Reply(r, a) PROVE spaced' \in BOOLEAN
  BY <1>5 DEF Reply
<1>6. ASSUME NEW a, Reply(r, a)
      PROVE  /\ collected' = [collected EXCEPT ![r] = <<>>]
             /\ phase' = [phase EXCEPT ![r] = "done"]
  BY <1>6 DEF Reply
<1>7. Ask(r) => /\ collected' = [collected EXCEPT ![r] = <<>>]
                /\ phase' = [phase EXCEPT ![r] = "asking"]
  BY DEF Ask
<1>8. ASSUME NEW a, Reply(r, a)
      PROVE  /\ \A s \in Requests : collected'[s] \in Seq(Nat \X Codes)
             /\ phase'[r] = "done"
             /\ \A s \in Requests : s # r => phase'[s] = phase[s]
  <2>1. /\ collected' = [collected EXCEPT ![r] = <<>>]
        /\ phase' = [phase EXCEPT ![r] = "done"]
    BY <1>6, <1>8
  <2>. QED BY <1>3, <1>4, <2>1
<1>9. ASSUME Ask(r)
      PROVE  /\ \A s \in Requests : collected'[s] \in Seq(Nat \X Codes)
             /\ phase'[r] = "asking"
             /\ \A s \in Requests : s # r => phase'[s] = phase[s]
  <2>1. /\ collected' = [collected EXCEPT ![r] = <<>>]
        /\ phase' = [phase EXCEPT ![r] = "asking"]
    BY <1>7, <1>9
  <2>2. \A s \in Requests : collected'[s] \in Seq(Nat \X Codes)
    BY <1>3, <2>1, Zenon
  <2>3. phase'[r] = "asking" /\ \A s \in Requests : s # r => phase'[s] = phase[s]
    BY <1>4, <2>1, Zenon
  <2>. QED BY <2>2, <2>3
<1>. QED BY <1>5, <1>8, <1>9, Zenon

\* For any requests, slots and report types: what a request asks for and collects stays
\* what it is meant to be.
THEOREM RequestsTypeCorrect == RequestsSpec => []RequestsTypeOK
<1>. USE RequestsAssumption
<1>1. RequestsInit => RequestsRest
  <2>1. <<>> \in Seq(Nat \X Codes) /\ 0 \in 0..Reports
    OBVIOUS
  <2>. QED BY <2>1 DEF RequestsInit, RequestsRest
<1>2. RequestsInv /\ RequestsRest /\ [RequestsNext]_requestVars => RequestsRest'
  <2>. SUFFICES ASSUME RequestsInv, RequestsRest, [RequestsNext]_requestVars
                PROVE  RequestsRest'
    OBVIOUS
  <2>0. /\ DOMAIN phase = Requests /\ DOMAIN kind = Requests /\ DOMAIN left = Requests
        /\ left \in [Requests -> 0..Reports] /\ spaced \in BOOLEAN
        /\ \A r \in Requests : left[r] \in Int
    BY DEF RequestsInv, RequestsRest
  <2>1. ASSUME NEW r \in Requests, StartRequest(r) PROVE RequestsRest'
    <3>1. PICK k \in Kinds :
             /\ phase[r] = "idle" /\ kind' = [kind EXCEPT ![r] = k]
             /\ phase' = [phase EXCEPT ![r] = IF k = "scan" THEN "queued" ELSE "resolving"]
             /\ left' = [left EXCEPT ![r] = IF k = "fundamentals" THEN Reports ELSE 0]
             /\ collected' = collected /\ spaced' = spaced
      BY <2>1 DEF StartRequest
    <3>2. /\ Reports >= 1 /\ Reports \in 0..Reports /\ 0 \in 0..Reports
      OBVIOUS
    <3>3. left' \in [Requests -> 0..Reports]
      BY <2>0, <3>1, <3>2
    <3>4. /\ kind'[r] = k /\ left'[r] = IF k = "fundamentals" THEN Reports ELSE 0
          /\ \A s \in Requests : s # r => /\ kind'[s] = kind[s] /\ phase'[s] = phase[s]
                                          /\ left'[s] = left[s]
      BY <2>0, <3>1
    <3>. QED BY <3>1, <3>2, <3>3, <3>4 DEF RequestsRest
  <2>2. ASSUME NEW r \in Requests, Resolved(r) PROVE RequestsRest'
    <3>1. left' = left /\ kind' = kind /\ spaced' = spaced /\ phase[r] = "resolving"
      BY <2>2 DEF Resolved
    <3>2. CASE Ask(r)
      BY <3>1, <3>2, RepliesAndQuestions DEF RequestsRest
    <3>3. CASE kind[r] = "historical" /\ phase' = [phase EXCEPT ![r] = "queued"]
               /\ collected' = collected
      BY <2>0, <3>1, <3>3 DEF RequestsRest
    <3>. QED BY <2>2, <3>2, <3>3 DEF Resolved
  <2>3. ASSUME NEW r \in Requests,
               NotResolved(r) \/ FinishBars(r) \/ FinishScan(r) \/ ScanTimesOut(r)
        PROVE  RequestsRest'
    <3>1. PICK a : Reply(r, a) /\ kind' = kind /\ left' = left
      BY <2>3 DEF NotResolved, FinishBars, FinishScan, ScanTimesOut
    <3>. QED BY <3>1, RepliesAndQuestions DEF RequestsRest
  <2>4. ASSUME NEW r \in Requests, Granted(r) PROVE RequestsRest'
    <3>1. /\ Ask(r) /\ kind' = kind /\ left' = left /\ spaced' = spaced
          /\ kind[r] # "fundamentals"
      BY <2>4 DEF Granted
    <3>. QED BY <3>1, RepliesAndQuestions DEF RequestsRest
  <2>5. ASSUME NEW r \in Requests, NEW how, Ends(r, how) PROVE RequestsRest'
    BY <2>5 DEF Ends, RequestsRest
  <2>6. ASSUME NEW r \in Requests, NEW xml, NEW why, NextReport(r, xml, why),
               kind[r] = "fundamentals", phase[r] = "asking"
        PROVE  RequestsRest'
    <3>1. left' = [left EXCEPT ![r] = left[r] - 1] /\ kind' = kind
      BY <2>6 DEF NextReport
    <3>2. left[r] \in 0..Reports /\ left[r] >= 1
      BY <2>6 DEF RequestsRest
    <3>3. left[r] - 1 \in 0..Reports
      BY <3>2
    <3>4. left' \in [Requests -> 0..Reports] /\ left'[r] = left[r] - 1
          /\ \A s \in Requests : s # r => left'[s] = left[s]
      BY <2>0, <3>1, <3>3
    <3>5. CASE left[r] > 1
      <4>1. Ask(r) /\ spaced' = spaced
        BY <2>6, <3>5 DEF NextReport
      <4>2. left'[r] >= 1
        BY <3>2, <3>4, <3>5
      <4>. QED BY <3>1, <3>4, <4>1, <4>2, RepliesAndQuestions DEF RequestsRest
    <3>6. CASE ~(left[r] > 1)
      <4>1. PICK a : Reply(r, a)
        BY <2>6, <3>6 DEF NextReport
      <4>. QED BY <3>1, <3>4, <4>1, RepliesAndQuestions DEF RequestsRest
    <3>. QED BY <3>5, <3>6
  <2>7. ASSUME NEW r \in Requests, FinishReport(r) PROVE RequestsRest'
    <3>1. kind[r] = "fundamentals" /\ phase[r] = "asking"
      BY <2>7 DEF FinishReport
    <3>2. CASE future[r] = "lost"
      <4>1. Reply(r, Answer(502, "lost")) /\ kind' = kind /\ left' = left
        BY <2>7, <3>2 DEF FinishReport
      <4>. QED BY <4>1, RepliesAndQuestions DEF RequestsRest
    <3>3. CASE future[r] # "lost"
      <4>1. PICK fatal : fatal = FirstFatal(collected[r], reqId[r])
        OBVIOUS
      <4>2. NextReport(r, fatal = NoCode /\ future[r] = "data", fatal)
        BY <2>7, <3>3, <4>1 DEF FinishReport
      <4>. QED BY <2>6, <3>1, <4>2
    <3>. QED BY <3>2, <3>3
  <2>8. ASSUME NEW r \in Requests, ReportTimesOut(r) PROVE RequestsRest'
    BY <2>6, <2>8 DEF ReportTimesOut
  <2>9. ASSUME NEW id \in 0..(nextId - 1), NEW code \in Codes, ErrorEvent(id, code)
        PROVE  RequestsRest'
    <3>1. /\ collected' = [r \in Requests |->
                              IF r \in Collecting THEN Append(collected[r], <<id, code>>)
                              ELSE collected[r]]
          /\ UNCHANGED <<phase, kind, left, spaced>>
      BY <2>9 DEF ErrorEvent
    <3>2. PICK e \in Nat \X Codes : e = <<id, code>>
      <4>1. nextId \in Nat
        BY DEF RequestsInv
      <4>2. id \in Nat
        BY <4>1
      <4>. QED BY <4>2
    <3>3. ASSUME NEW r \in Requests PROVE collected'[r] \in Seq(Nat \X Codes)
      <4>1. PICK s \in Seq(Nat \X Codes) : s = collected[r]
        BY DEF RequestsRest
      <4>2. Append(s, e) \in Seq(Nat \X Codes)
        BY AppendProperties
      <4>. QED BY <3>1, <3>2, <4>1, <4>2
    <3>. QED BY <3>1, <3>3 DEF RequestsRest
  <2>10. CASE PacingElapses \/ UNCHANGED requestVars
    BY <2>10 DEF PacingElapses, requestVars, RequestsRest
  <2>. QED BY <2>1, <2>2, <2>3, <2>4, <2>5, <2>7, <2>8, <2>9, <2>10 DEF RequestsNext
<1>3. RequestsInv /\ RequestsRest => RequestsTypeOK
  <2>. SUFFICES ASSUME RequestsInv, RequestsRest PROVE RequestsTypeOK
    OBVIOUS
  <2>1. rejected \in [Requests -> SUBSET Codes]
    BY DEF RequestsInv
  <2>2. \A r \in Requests : reject[r] \in Codes \cup {NoCode, "records"}
    BY <2>1 DEF RequestsInv, ErrorsInv
  <2>3. reject = [r \in Requests |-> reject[r]]
    BY DEF RequestsInv
  <2>4. reject \in [Requests -> Codes \cup {NoCode, "records"}]
    BY <2>2, <2>3
  <2>. QED BY <2>1, <2>4 DEF RequestsTypeOK, RequestsInv, RequestsRest
<1>. QED BY <1>1, <1>2, <1>3, RequestsInductive, PTL DEF RequestsSpec

-----------------------------------------------------------------------------
(* From a frame of the CP WebSocket to a quote.                            *)

\* What a frame is behind a state of the market known before it: the same once more, or
\* what takes that state to the frame's own.
Continues(stamp, quote, frame) ==
    \/ frame.stamp = stamp /\ frame.truth = quote
    \/ frame.stamp # stamp /\ Merged(quote, frame.delta) = frame.truth

\* A stamp that is not ahead of the market, and its state of the market.
IsTold(stamp, quote) ==
    /\ stamp \in Nat /\ stamp <= market.stamp
    /\ stamp = market.stamp => quote = market.quote

Deltas == UNION {[changed -> Prices \cup AvailabilityCodes \cup {Junk}] :
                    changed \in SUBSET Fields}
TopicFrames == [stamp : Nat, delta : Deltas, truth : Quotes]

\* Whatever is on the wire continues the snapshot and one another, up to the market.
WireInv ==
    /\ wire \in Seq(TopicFrames) /\ (~live => wire = <<>>)
    /\ IsTold(snapshot.stamp, snapshot.quote)
    /\ \A i \in 1..Len(wire) :
          /\ IsTold(wire[i].stamp, wire[i].truth)
          /\ i = 1 => Continues(snapshot.stamp, snapshot.quote, wire[i])
          /\ i > 1 => Continues(wire[i - 1].stamp, wire[i - 1].truth, wire[i])
    /\ live => IF wire = <<>> THEN snapshot.stamp = market.stamp
               ELSE wire[Len(wire)].stamp = market.stamp

TopicsInv ==
    /\ market \in [quote : Quotes, stamp : Nat] /\ live \in BOOLEAN
    /\ snapshot = [quote |-> snapshot.quote, stamp |-> snapshot.stamp]
    /\ known = [exchange |-> known.exchange, calendar |-> known.calendar, raw |-> known.raw]
    /\ known.raw \in Schedules
    /\ WireInv /\ FramesTellTheMarket

\* The sessions of a day: one that is open now was published, and rth goes first.
LEMMA OpenSessions ==
    ASSUME NEW raw \in Schedules, NEW minute \in Nat
    PROVE  /\ ActiveSession(CollectSessions(raw), minute) # "closed" =>
                 \E i \in DOMAIN raw : raw[i].opens <= minute /\ minute <= raw[i].closes
           /\ RthOf(raw) # <<>> /\ RthOf(raw)[1].opens <= minute /\ minute <= RthOf(raw)[1].closes
                 => ActiveSession(CollectSessions(raw), minute) = "rth"
           /\ ActiveSession(CollectSessions(raw), minute) \in {"rth", "pre", "post", "closed"}
<1>. DEFINE entries == [prop : {"LIQUID", "EXT"}, opens : 0..Minutes, closes : 0..Minutes]
            liquid == {i \in DOMAIN raw : raw[i].prop = "LIQUID"}
            others == {i \in DOMAIN raw : raw[i].prop # "LIQUID"}
<1>1. raw \in Seq(entries) /\ DOMAIN raw \subseteq Nat \ {0}
  <2>1. raw \in Seq(entries)
    BY TopicsAssumption
  <2>2. DOMAIN raw = 1..Len(raw) /\ Len(raw) \in Nat
    BY <2>1
  <2>. QED BY <2>1, <2>2
<1>2. PICK rth : rth = RthOf(raw)
  OBVIOUS
<1>3. rth # <<>> => \E i \in DOMAIN raw :
                       /\ rth[1] = [type |-> "rth", opens |-> raw[i].opens, closes |-> raw[i].closes]
  <2>1. CASE liquid = {}
    BY <1>2, <2>1 DEF RthOf
  <2>2. CASE liquid # {}
    <3>1. Min(liquid) \in liquid
      BY <1>1, <2>2, LeastOne
    <3>2. rth = <<[type |-> "rth", opens |-> raw[Min(liquid)].opens,
                   closes |-> raw[Min(liquid)].closes]>>
      BY <1>2, <2>2 DEF RthOf, Min
    <3>. QED BY <3>1, <3>2
  <2>. QED BY <2>1, <2>2
<1>4. PICK sessions : sessions = CollectSessions(raw)
  OBVIOUS
<1>5. /\ DOMAIN sessions = (IF rth = <<>> THEN {} ELSE {0}) \cup others
      /\ \A i \in DOMAIN sessions :
            sessions[i] = IF i = 0 THEN rth[1]
                          ELSE [type |-> TypeBeside(rth, raw[i]),
                                opens |-> raw[i].opens, closes |-> raw[i].closes]
  BY <1>2, <1>4 DEF CollectSessions
<1>. DEFINE openNow == {i \in DOMAIN sessions : sessions[i].opens <= minute /\ minute <= sessions[i].closes}
<1>6. openNow \in SUBSET Nat
  BY <1>1, <1>5
<1>7. ActiveSession(sessions, minute) = IF openNow = {} THEN "closed" ELSE sessions[Min(openNow)].type
  BY DEF ActiveSession, Min
<1>8. ASSUME NEW i \in DOMAIN sessions
      PROVE  \E k \in DOMAIN raw : sessions[i].opens = raw[k].opens /\ sessions[i].closes = raw[k].closes
  <2>1. CASE i = 0
    <3>1. rth # <<>> /\ sessions[i] = rth[1]
      BY <1>1, <1>5, <1>8, <2>1
    <3>2. PICK k \in DOMAIN raw :
             rth[1] = [type |-> "rth", opens |-> raw[k].opens, closes |-> raw[k].closes]
      BY <1>3, <3>1
    <3>3. rth[1].opens = raw[k].opens /\ rth[1].closes = raw[k].closes
      BY <3>2
    <3>. QED BY <3>1, <3>3
  <2>2. CASE i # 0
    <3>1. i \in DOMAIN raw
      BY <1>5, <1>8, <2>2
    <3>2. sessions[i] = [type |-> TypeBeside(rth, raw[i]),
                         opens |-> raw[i].opens, closes |-> raw[i].closes]
      BY <1>5, <1>8, <2>2
    <3>. QED BY <3>1, <3>2
  <2>. QED BY <2>1, <2>2
<1>9. ASSUME ActiveSession(sessions, minute) # "closed"
      PROVE  \E i \in DOMAIN raw : raw[i].opens <= minute /\ minute <= raw[i].closes
  <2>1. PICK i \in openNow : TRUE
    BY <1>7, <1>9
  <2>. QED BY <1>8, <2>1
<1>10. ASSUME rth # <<>>, rth[1].opens <= minute, minute <= rth[1].closes
       PROVE  ActiveSession(sessions, minute) = "rth"
  <2>1. 0 \in openNow
    BY <1>5, <1>10
  <2>2. Min(openNow) \in openNow /\ Min(openNow) <= 0
    BY <1>6, <2>1, LeastOne
  <2>3. Min(openNow) = 0
    BY <1>6, <2>2
  <2>4. sessions[0] = rth[1]
    BY <1>5, <1>10
  <2>5. rth[1].type = "rth"
    <3>1. PICK k \in DOMAIN raw :
             rth[1] = [type |-> "rth", opens |-> raw[k].opens, closes |-> raw[k].closes]
      BY <1>3, <1>10
    <3>. QED BY <3>1
  <2>. QED BY <1>7, <2>1, <2>3, <2>4, <2>5
<1>11. ActiveSession(sessions, minute) \in {"rth", "pre", "post", "closed"}
  <2>1. ASSUME NEW i \in DOMAIN sessions PROVE sessions[i].type \in {"rth", "pre", "post"}
    <3>1. CASE i = 0
      <4>1. rth # <<>> /\ sessions[i] = rth[1]
        BY <1>1, <1>5, <2>1, <3>1
      <4>2. PICK k \in DOMAIN raw :
               rth[1] = [type |-> "rth", opens |-> raw[k].opens, closes |-> raw[k].closes]
        BY <1>3, <4>1
      <4>3. rth[1].type = "rth"
        BY <4>2
      <4>. QED BY <4>1, <4>3
    <3>2. CASE i # 0
      <4>1. sessions[i] = [type |-> TypeBeside(rth, raw[i]),
                           opens |-> raw[i].opens, closes |-> raw[i].closes]
        BY <1>5, <2>1, <3>2
      <4>2. TypeBeside(rth, raw[i]) \in {"pre", "post"}
        BY DEF TypeBeside
      <4>. QED BY <4>1, <4>2
    <3>. QED BY <3>1, <3>2
  <2>2. openNow # {} => Min(openNow) \in openNow
    BY <1>6, LeastOne
  <2>. QED BY <1>7, <2>1, <2>2
<1>. QED BY <1>2, <1>4, <1>9, <1>10, <1>11

\* A quote of the market is all fields, each decodable.
LEMMA QuotesAreWhole ==
    ASSUME NEW q \in Quotes
    PROVE  /\ q = [f \in Fields |-> q[f]] /\ q \in Deltas
           /\ \A f \in Fields : q[f] # Junk
           /\ \A old : Merged(old, q) = q
<1>1. /\ DOMAIN q = Fields /\ q = [f \in Fields |-> q[f]]
  BY DEF Quotes, Fields, PriceFields
<1>2. \A f \in Fields : q[f] \in Prices \cup AvailabilityCodes
  BY DEF Quotes, Fields, PriceFields
<1>3. \A f \in Fields : q[f] # Junk
  BY <1>2, TopicsAssumption DEF Junk, AvailabilityCodes
<1>4. q \in [Fields -> Prices \cup AvailabilityCodes \cup {Junk}]
  BY <1>1, <1>2
<1>5. q \in Deltas
  BY <1>4 DEF Deltas
<1>6. ASSUME NEW old PROVE Merged(old, q) = q
  BY <1>1, <1>3 DEF Merged
<1>. QED BY <1>1, <1>3, <1>5, <1>6

\* A change, whose last price may not be decodable, takes the market to its new state.
LEMMA ChangesContinue ==
    ASSUME NEW old \in Quotes, NEW q \in Quotes, NEW changed \in SUBSET Fields,
           NEW junk \in BOOLEAN, junk => "last" \in changed,
           \A f \in Fields : f \in changed <=> q[f] # old[f],
           NEW truth, truth = IF junk THEN [q EXCEPT !.last = old.last] ELSE q,
           NEW sent, sent = [f \in changed |-> IF junk /\ f = "last" THEN Junk ELSE q[f]]
    PROVE  truth \in Quotes /\ sent \in Deltas /\ Merged(old, sent) = truth
<1>1. truth \in Quotes
  BY DEF Quotes
<1>2. sent \in [changed -> Prices \cup AvailabilityCodes \cup {Junk}]
  BY DEF Quotes, Fields, PriceFields
<1>3. sent \in Deltas
  BY <1>2 DEF Deltas
<1>4. \A f \in Fields : truth[f] = IF junk /\ f = "last" THEN old[f] ELSE q[f]
  BY DEF Quotes, Fields, PriceFields
<1>5. \A f \in Fields : (IF f \in DOMAIN sent /\ sent[f] # Junk THEN sent[f] ELSE old[f]) = truth[f]
  BY <1>4, QuotesAreWhole
<1>6. truth = [f \in Fields |-> truth[f]]
  BY <1>1, QuotesAreWhole
<1>7. Merged(old, sent) = [f \in Fields |-> truth[f]]
  BY <1>5 DEF Merged
<1>. QED BY <1>1, <1>3, <1>6, <1>7

\* One more frame, which is the market's newest.
LEMMA WireGrows ==
    ASSUME WireInv, market.stamp \in Nat, market'.stamp \in Nat, market'.stamp >= market.stamp,
           market'.stamp = market.stamp => market' = market,
           NEW e \in TopicFrames, wire' = Append(wire, e), snapshot' = snapshot, live',
           e.stamp = market'.stamp, e.truth = market'.quote,
           wire = <<>> => Continues(snapshot.stamp, snapshot.quote, e),
           wire # <<>> => Continues(wire[Len(wire)].stamp, wire[Len(wire)].truth, e)
    PROVE  WireInv'
<1>1. PICK w \in Seq(TopicFrames) : w = wire
  BY DEF WireInv
<1>2. PICK n \in Nat : n = Len(w)
  OBVIOUS
<1>3. PICK t \in Seq(TopicFrames) : /\ t = Append(w, e) /\ Len(t) = n + 1 /\ t[n + 1] = e
                                    /\ \A i \in 1..n : t[i] = w[i]
  <2>1. /\ Append(w, e) \in Seq(TopicFrames) /\ Len(Append(w, e)) = Len(w) + 1
        /\ Append(w, e)[Len(w) + 1] = e /\ \A i \in 1..Len(w) : Append(w, e)[i] = w[i]
    BY AppendProperties
  <2>. QED BY <1>2, <2>1
<1>4. wire' = t /\ t # <<>>
  BY <1>1, <1>2, <1>3
<1>5. \A s, q : IsTold(s, q) => IsTold(s, q)'
  BY DEF IsTold
<1>6. IsTold(e.stamp, e.truth)'
  BY DEF IsTold
<1>7. ASSUME NEW i \in 1..(n + 1)
      PROVE  /\ IsTold(t[i].stamp, t[i].truth)'
             /\ i = 1 => Continues(snapshot.stamp, snapshot.quote, t[i])
             /\ i > 1 => Continues(t[i - 1].stamp, t[i - 1].truth, t[i])
  <2>1. CASE i \in 1..n
    <3>1. t[i] = w[i]
      BY <1>3, <2>1
    <3>2. i > 1 => i - 1 \in 1..n /\ t[i - 1] = w[i - 1]
      BY <1>2, <1>3, <2>1
    <3>3. /\ IsTold(w[i].stamp, w[i].truth)
          /\ i = 1 => Continues(snapshot.stamp, snapshot.quote, w[i])
          /\ i > 1 => Continues(w[i - 1].stamp, w[i - 1].truth, w[i])
      BY <1>1, <1>2, <2>1 DEF WireInv
    <3>. QED BY <1>5, <3>1, <3>2, <3>3
  <2>2. CASE i = n + 1
    <3>1. CASE n = 0
      <4>1. w = <<>> /\ i = 1 /\ t[i] = e
        BY <1>2, <1>3, <2>2, <3>1
      <4>. QED BY <1>1, <1>6, <4>1
    <3>2. CASE n # 0
      <4>1. w # <<>> /\ i > 1 /\ i - 1 = n /\ t[i] = e /\ t[i - 1] = w[n] /\ i # 1
        BY <1>2, <1>3, <2>2, <3>2
      <4>. QED BY <1>1, <1>2, <1>6, <4>1
    <3>. QED BY <3>1, <3>2
  <2>3. i \in 1..n \/ i = n + 1
    BY <1>2
  <2>. QED BY <2>1, <2>2, <2>3
<1>8. IsTold(snapshot.stamp, snapshot.quote)'
  BY <1>5 DEF WireInv
<1>9. \A i \in 1..Len(wire') :
         /\ IsTold(wire[i].stamp, wire[i].truth)'
         /\ i = 1 => Continues(snapshot.stamp, snapshot.quote, wire[i])'
         /\ i > 1 => Continues(wire[i - 1].stamp, wire[i - 1].truth, wire[i])'
  BY <1>3, <1>4, <1>7, SMTT(30) DEF Continues, IsTold
<1>10. wire'[Len(wire')].stamp = market'.stamp
  BY <1>3, <1>4
<1>. QED BY <1>3, <1>4, <1>8, <1>9, <1>10 DEF WireInv

\* One frame less: the snapshot is now what the frame told.
LEMMA WireShrinks ==
    ASSUME WireInv, market' = market, live' = live, wire # <<>>, wire' = Tail(wire),
           snapshot'.stamp = Head(wire).stamp, snapshot'.quote = Head(wire).truth
    PROVE  WireInv'
<1>1. PICK w \in Seq(TopicFrames) : w = wire
  BY DEF WireInv
<1>2. PICK n \in Nat : n = Len(w) /\ n >= 1
  BY <1>1
<1>3. PICK t \in Seq(TopicFrames) : /\ t = Tail(w) /\ Len(t) = n - 1
                                    /\ \A i \in 1..(n - 1) : t[i] = w[i + 1]
  <2>1. /\ Tail(w) \in Seq(TopicFrames) /\ Len(Tail(w)) = Len(w) - 1
        /\ \A i \in 1..Len(Tail(w)) : Tail(w)[i] = w[i + 1]
    BY <1>1, HeadTailProperties
  <2>. QED BY <1>2, <2>1
<1>4. wire' = t /\ Head(wire) = w[1]
  BY <1>1, <1>3
<1>5. \A i \in 1..n : IsTold(w[i].stamp, w[i].truth)
  BY <1>1, <1>2 DEF WireInv
<1>6. IsTold(snapshot.stamp, snapshot.quote)'
  BY <1>2, <1>4, <1>5 DEF IsTold
<1>7. ASSUME NEW i \in 1..(n - 1)
      PROVE  /\ IsTold(t[i].stamp, t[i].truth)
             /\ i = 1 => Continues(w[1].stamp, w[1].truth, t[i])
             /\ i > 1 => Continues(t[i - 1].stamp, t[i - 1].truth, t[i])
  <2>1. i + 1 \in 1..n /\ i + 1 > 1 /\ i + 1 - 1 = i
    BY <1>2
  <2>2. Continues(w[i].stamp, w[i].truth, w[i + 1])
    BY <1>1, <1>2, <2>1 DEF WireInv
  <2>3. t[i] = w[i + 1] /\ (i > 1 => t[i - 1] = w[i])
    <3>1. i > 1 => i - 1 \in 1..(n - 1) /\ i - 1 + 1 = i
      BY <1>2
    <3>. QED BY <1>3, <3>1
  <2>. QED BY <1>5, <2>1, <2>2, <2>3
<1>8. \A i \in 1..Len(wire') :
         /\ IsTold(wire[i].stamp, wire[i].truth)'
         /\ i = 1 => Continues(snapshot.stamp, snapshot.quote, wire[i])'
         /\ i > 1 => Continues(wire[i - 1].stamp, wire[i - 1].truth, wire[i])'
  <2>1. snapshot'.stamp = w[1].stamp /\ snapshot'.quote = w[1].truth
    BY <1>4
  <2>2. \A s, q : IsTold(s, q) => IsTold(s, q)'
    BY DEF IsTold
  <2>3. ASSUME NEW i \in 1..(n - 1)
        PROVE  /\ IsTold(t[i].stamp, t[i].truth)'
               /\ i = 1 => Continues(snapshot'.stamp, snapshot'.quote, t[i])
               /\ i > 1 => Continues(t[i - 1].stamp, t[i - 1].truth, t[i])
    BY <1>7, <2>1, <2>2
  <2>4. 1..Len(wire') = 1..(n - 1)
    BY <1>3, <1>4
  <2>. QED BY <1>4, <2>3, <2>4, ZenonT(40) DEF Continues, IsTold
<1>9. live => IF t = <<>> THEN w[1].stamp = market.stamp ELSE t[Len(t)].stamp = market.stamp
  <2>1. CASE n = 1
    <3>1. t = <<>> /\ w[Len(w)] = w[1]
      BY <1>2, <1>3, <2>1
    <3>2. live => w[Len(w)].stamp = market.stamp
      BY <1>1 DEF WireInv
    <3>3. live => w[1].stamp = market.stamp
      BY <3>1, <3>2
    <3>. QED BY <3>1, <3>3, Zenon
  <2>2. CASE n # 1
    <3>1. n - 1 \in 1..(n - 1) /\ n - 1 + 1 = n /\ t # <<>>
      <4>1. n - 1 \in 1..(n - 1) /\ n - 1 + 1 = n /\ n - 1 # 0
        BY <1>2, <2>2
      <4>2. t # <<>>
        <5>1. t = <<>> => Len(t) = 0
          OBVIOUS
        <5>. QED BY <1>3, <4>1, <5>1
      <4>. QED BY <4>1, <4>2
    <3>2. t[Len(t)] = w[n]
      BY <1>3, <3>1
    <3>. QED BY <1>1, <1>2, <3>1, <3>2 DEF WireInv
  <2>. QED BY <2>1, <2>2
<1>10. live /\ wire # <<>>
  BY DEF WireInv
<1>. QED BY <1>3, <1>4, <1>6, <1>8, <1>9, <1>10 DEF WireInv

LEMMA TopicsInductive == TopicsSpec => []TopicsInv
<1>1. TopicsInit => TopicsInv
  <2>. SUFFICES ASSUME TopicsInit PROVE TopicsInv
    OBVIOUS
  <2>1. market \in [quote : Quotes, stamp : Nat]
    <3>1. PICK p : p \in Prices
      BY TopicsAssumption
    <3>2. [last |-> p, bid |-> p, availability_code |-> "R"] \in Quotes
      BY <3>1 DEF Quotes, AvailabilityCodes
    <3>. QED BY <3>2 DEF TopicsInit
  <2>2. snapshot.stamp = 0 /\ market.stamp = 1 /\ wire = <<>> /\ live = FALSE
    BY DEF TopicsInit
  <2>3. WireInv
    BY <2>2 DEF WireInv, IsTold
  <2>4. FramesTellTheMarket
    BY DEF TopicsInit, FramesTellTheMarket
  <2>5. known.raw \in Schedules
        /\ known = [exchange |-> known.exchange, calendar |-> known.calendar, raw |-> known.raw]
        /\ snapshot = [quote |-> snapshot.quote, stamp |-> snapshot.stamp] /\ live \in BOOLEAN
    <3>1. PICK raw \in Schedules : known = [exchange |-> Nil, calendar |-> {}, raw |-> raw]
      BY DEF TopicsInit
    <3>2. known.exchange = Nil /\ known.calendar = {} /\ known.raw = raw
      BY <3>1
    <3>3. PICK q : snapshot = [quote |-> q, stamp |-> 0]
      BY DEF TopicsInit
    <3>4. snapshot.quote = q /\ snapshot.stamp = 0
      BY <3>3
    <3>. QED BY <2>2, <3>1, <3>2, <3>3, <3>4
  <2>. QED BY <2>1, <2>3, <2>4, <2>5 DEF TopicsInv
<1>2. ASSUME TopicsInv, SubscribeTopic \/ MarketMoves \/ SentTwice PROVE TopicsInv'
  <2>1. UNCHANGED <<snapshot, known, shown>> /\ WireInv /\ market.quote \in Quotes /\ market.stamp \in Nat
    BY <1>2 DEF TopicsInv, SubscribeTopic, MarketMoves, SentTwice
  <2>2. FramesTellTheMarket'
    BY <1>2, <2>1 DEF TopicsInv, FramesTellTheMarket
  <2>3. CASE SubscribeTopic
    <3>1. PICK e : e = Frame(market.stamp, market.quote, market.quote)
      OBVIOUS
    <3>2. market.quote \in Deltas /\ \A old : Merged(old, market.quote) = market.quote
      BY <2>1, QuotesAreWhole
    <3>3. /\ e.stamp = market.stamp /\ e.truth = market.quote /\ e.delta = market.quote
          /\ e \in TopicFrames
      BY <2>1, <3>1, <3>2 DEF Frame, TopicFrames
    <3>4. wire = <<>> /\ wire' = Append(wire, e) /\ market' = market /\ live' = TRUE
      BY <2>1, <2>3, <3>1 DEF SubscribeTopic, WireInv
    <3>5. Continues(snapshot.stamp, snapshot.quote, e)
      BY <2>1, <3>2, <3>3 DEF WireInv, IsTold, Continues
    <3>6. WireInv'
      BY <2>1, <3>3, <3>4, <3>5, WireGrows
    <3>. QED BY <1>2, <2>1, <2>2, <3>4, <3>6 DEF TopicsInv
  <2>4. CASE SentTwice
    <3>1. PICK e : e = wire[Len(wire)]
      OBVIOUS
    <3>2. wire # <<>> /\ wire' = Append(wire, e) /\ market' = market /\ live' = live /\ live
      BY <2>1, <2>4, <3>1 DEF SentTwice, WireInv
    <3>3. /\ e \in TopicFrames /\ e.stamp = market.stamp /\ e.truth = market.quote
      <4>1. Len(wire) \in 1..Len(wire) /\ wire \in Seq(TopicFrames)
        BY <2>1, <3>2 DEF WireInv
      <4>. QED BY <2>1, <3>1, <3>2, <4>1 DEF WireInv, IsTold
    <3>4. Continues(wire[Len(wire)].stamp, wire[Len(wire)].truth, e)
      BY <3>1 DEF Continues
    <3>5. WireInv'
      BY <2>1, <3>2, <3>3, <3>4, WireGrows
    <3>. QED BY <1>2, <2>1, <2>2, <3>2, <3>5 DEF TopicsInv
  <2>5. CASE MarketMoves
    <3>1. PICK changed \in SUBSET Fields, q \in Quotes, junk \in BOOLEAN :
             /\ \A f \in Fields : f \in changed <=> q[f] # market.quote[f]
             /\ junk => "last" \in changed
             /\ LET truth == IF junk THEN [q EXCEPT !.last = market.quote.last] ELSE q
                    sent == [f \in changed |-> IF junk /\ f = "last" THEN Junk ELSE q[f]] IN
                /\ market' = [quote |-> truth, stamp |-> market.stamp + 1]
                /\ IF live THEN wire' = Append(wire, Frame(market.stamp + 1, sent, truth))
                   ELSE UNCHANGED wire
      BY <2>5, ZenonT(40) DEF MarketMoves
    <3>2. PICK truth : truth = IF junk THEN [q EXCEPT !.last = market.quote.last] ELSE q
      OBVIOUS
    <3>3. PICK sent : sent = [f \in changed |-> IF junk /\ f = "last" THEN Junk ELSE q[f]]
      OBVIOUS
    <3>4. truth \in Quotes /\ sent \in Deltas /\ Merged(market.quote, sent) = truth
      BY <2>1, <3>1, <3>2, <3>3, ChangesContinue
    <3>5. /\ market' = [quote |-> truth, stamp |-> market.stamp + 1] /\ live' = live
          /\ IF live THEN wire' = Append(wire, Frame(market.stamp + 1, sent, truth))
             ELSE UNCHANGED wire
      BY <2>5, <3>1, <3>2, <3>3 DEF MarketMoves
    <3>6. /\ market'.stamp = market.stamp + 1 /\ market'.quote = truth
          /\ market' \in [quote : Quotes, stamp : Nat]
      BY <2>1, <3>4, <3>5
    <3>7. CASE ~live
      <4>1. wire = <<>> /\ wire' = <<>>
        BY <2>1, <3>5, <3>7 DEF WireInv
      <4>2. WireInv'
        BY <2>1, <3>5, <3>6, <3>7, <4>1 DEF WireInv, IsTold
      <4>. QED BY <1>2, <2>1, <2>2, <3>5, <3>6, <4>2 DEF TopicsInv
    <3>8. CASE live
      <4>1. PICK e : e = Frame(market.stamp + 1, sent, truth)
        OBVIOUS
      <4>2. /\ e.stamp = market.stamp + 1 /\ e.delta = sent /\ e.truth = truth
            /\ e \in TopicFrames
        BY <2>1, <3>4, <4>1 DEF Frame, TopicFrames
      <4>3. wire = <<>> => Continues(snapshot.stamp, snapshot.quote, e)
        BY <2>1, <3>4, <3>8, <4>2 DEF WireInv, IsTold, Continues
      <4>4. wire # <<>> => Continues(wire[Len(wire)].stamp, wire[Len(wire)].truth, e)
        <5>. SUFFICES ASSUME wire # <<>> PROVE Continues(wire[Len(wire)].stamp, wire[Len(wire)].truth, e)
          OBVIOUS
        <5>1. Len(wire) \in 1..Len(wire)
          BY <2>1 DEF WireInv
        <5>2. wire[Len(wire)].stamp = market.stamp /\ wire[Len(wire)].truth = market.quote
          BY <2>1, <3>8, <5>1 DEF WireInv, IsTold
        <5>. QED BY <2>1, <3>4, <4>2, <5>2 DEF Continues
      <4>5. wire' = Append(wire, e) /\ live'
        BY <3>5, <3>8, <4>1
      <4>6. WireInv'
        BY <2>1, <3>6, <4>2, <4>3, <4>4, <4>5, WireGrows
      <4>. QED BY <1>2, <2>1, <2>2, <3>5, <3>6, <4>6 DEF TopicsInv
    <3>. QED BY <3>7, <3>8
  <2>. QED BY <1>2, <2>3, <2>4, <2>5
<1>3. ASSUME TopicsInv, SocketDrops PROVE TopicsInv'
  <2>1. live' = FALSE /\ wire' = <<>> /\ UNCHANGED <<market, snapshot, known, service, today, shown>>
    BY <1>3 DEF SocketDrops
  <2>2. IsTold(snapshot.stamp, snapshot.quote)'
    BY <1>3, <2>1 DEF TopicsInv, WireInv, IsTold
  <2>3. WireInv'
    <3>1. wire' \in Seq(TopicFrames) /\ 1..Len(wire') = {}
      BY <2>1
    <3>. QED BY <2>1, <2>2, <3>1 DEF WireInv
  <2>4. FramesTellTheMarket'
    BY <1>3, <2>1 DEF TopicsInv, FramesTellTheMarket
  <2>. QED BY <1>3, <2>1, <2>3, <2>4 DEF TopicsInv
<1>4. ASSUME TopicsInv, Feed PROVE TopicsInv'
  <2>1. PICK h : h = Head(wire)
    OBVIOUS
  <2>2. /\ wire # <<>> /\ wire' = Tail(wire) /\ UNCHANGED <<market, live, known, service, today>>
        /\ WireInv
    BY <1>4 DEF Feed, TopicsInv
  <2>3. /\ h \in TopicFrames /\ IsTold(h.stamp, h.truth)
        /\ Continues(snapshot.stamp, snapshot.quote, h)
    <3>1. 1 \in 1..Len(wire) /\ wire[1] = h /\ wire \in Seq(TopicFrames)
      BY <2>1, <2>2 DEF WireInv
    <3>. QED BY <2>2, <3>1 DEF WireInv
  <2>4. CASE IsDuplicateFrame(h)
    <3>1. snapshot' = snapshot /\ shown' = shown /\ h.stamp = snapshot.stamp
      BY <1>4, <2>1, <2>4 DEF Feed, IsDuplicateFrame
    <3>2. h.truth = snapshot.quote
      BY <2>3, <3>1 DEF Continues
    <3>3. WireInv'
      BY <2>1, <2>2, <3>1, <3>2, WireShrinks
    <3>4. FramesTellTheMarket'
      BY <1>4, <2>2, <3>1 DEF TopicsInv, FramesTellTheMarket
    <3>. QED BY <1>4, <2>2, <3>1, <3>3, <3>4 DEF TopicsInv
  <2>5. CASE ~IsDuplicateFrame(h)
    <3>1. PICK minute \in 0..Minutes :
            LET quote == Merged(snapshot.quote, h.delta)
                trades == IF known.calendar = {} THEN <<FALSE, Nil>>
                          ELSE DeriveTradeability(known.calendar, known.raw, today, minute,
                                                  quote["availability_code"]) IN
            /\ snapshot' = [quote |-> quote, stamp |-> h.stamp]
            /\ shown' = [quote |-> quote, truth |-> h.truth, now |-> minute,
                         tradeable |-> trades[1], session |-> trades[2],
                         fresh |-> today \in known.calendar]
      BY <1>4, <2>1, <2>5 DEF Feed
    <3>2. PICK trades : trades = IF known.calendar = {} THEN <<FALSE, Nil>>
                                 ELSE DeriveTradeability(known.calendar, known.raw, today, minute,
                                         h.truth["availability_code"])
      OBVIOUS
    <3>3. Merged(snapshot.quote, h.delta) = h.truth
      BY <2>3, <2>5 DEF Continues, IsDuplicateFrame
    <3>4. /\ snapshot' = [quote |-> h.truth, stamp |-> h.stamp]
          /\ shown' = [quote |-> h.truth, truth |-> h.truth, now |-> minute,
                       tradeable |-> trades[1], session |-> trades[2],
                       fresh |-> today \in known.calendar]
      BY <3>1, <3>2, <3>3
    <3>5. snapshot'.stamp = h.stamp /\ snapshot'.quote = h.truth
      BY <3>4
    <3>6. WireInv'
      BY <2>1, <2>2, <3>5, WireShrinks
    <3>7. FramesTellTheMarket'
      <4>1. PICK raw \in Schedules : raw = known.raw /\ known'.raw = raw
        BY <1>4, <2>2 DEF TopicsInv
      <4>2. PICK code : code = h.truth["availability_code"]
        OBVIOUS
      <4>3. minute \in Nat
        BY TopicsAssumption
      <4>4. PICK period : period = ActiveSession(CollectSessions(raw), minute)
        OBVIOUS
      <4>5. trades[1] => /\ code = "R" /\ period # "closed"
        BY <3>2, <4>1, <4>2, <4>4 DEF DeriveTradeability
      <4>6. today \in known.calendar /\ code = "R" /\ period = "rth" => trades[1] /\ trades[2] = "rth"
        BY <3>2, <4>1, <4>2, <4>4 DEF DeriveTradeability
      <4>7. /\ shown'.quote = h.truth /\ shown'.truth = h.truth /\ shown'.now = minute
            /\ shown'.tradeable = trades[1] /\ shown'.session = trades[2]
            /\ shown'.fresh = (today \in known.calendar)
        BY <3>4
      <4>8. /\ period # "closed" =>
                  \E i \in DOMAIN raw : raw[i].opens <= minute /\ minute <= raw[i].closes
            /\ RthOf(raw) # <<>> /\ RthOf(raw)[1].opens <= minute /\ minute <= RthOf(raw)[1].closes
                  => period = "rth"
        BY <4>3, <4>4, OpenSessions
      <4>9. shown'.tradeable =>
              /\ shown'.quote["availability_code"] = "R"
              /\ \E i \in DOMAIN raw : raw[i].opens <= shown'.now /\ shown'.now <= raw[i].closes
        BY <4>2, <4>5, <4>7, <4>8
      <4>10. (/\ shown'.fresh /\ RthOf(raw) # <<>> /\ shown'.quote["availability_code"] = "R"
              /\ RthOf(raw)[1].opens <= shown'.now /\ shown'.now <= RthOf(raw)[1].closes)
                => shown'.tradeable /\ shown'.session = "rth"
        BY <4>2, <4>6, <4>7, <4>8
      <4>. QED BY <4>1, <4>7, <4>9, <4>10 DEF FramesTellTheMarket
    <3>. QED BY <1>4, <2>2, <3>5, <3>4, <3>6, <3>7 DEF TopicsInv
  <2>. QED BY <2>4, <2>5
<1>5. ASSUME TopicsInv, PreloadExchange \/ PreloadCalendar \/ PreloadCalendarFails
      PROVE  TopicsInv'
  <2>1. /\ known'.raw = known.raw
        /\ known' = [exchange |-> known'.exchange, calendar |-> known'.calendar, raw |-> known'.raw]
        /\ UNCHANGED <<market, wire, live, snapshot, today, shown>>
    BY <1>5 DEF TopicsInv, PreloadExchange, PreloadCalendar, PreloadCalendarFails
  <2>2. WireInv'
    BY <1>5, <2>1 DEF TopicsInv, WireInv, IsTold
  <2>3. FramesTellTheMarket'
    BY <1>5, <2>1 DEF TopicsInv, FramesTellTheMarket
  <2>. QED BY <1>5, <2>1, <2>2, <2>3 DEF TopicsInv
<1>6. ASSUME TopicsInv, CalendarRead \/ CalendarExpires \/ NextDay \/ UNCHANGED topicVars
      PROVE  TopicsInv'
  <2>1. UNCHANGED <<market, wire, live, snapshot, shown, known>>
    BY <1>6 DEF CalendarRead, CalendarExpires, NextDay, topicVars
  <2>. QED BY <1>6, <2>1 DEF TopicsInv, WireInv, IsTold, FramesTellTheMarket
<1>7. TopicsInv /\ [TopicsNext]_topicVars => TopicsInv'
  BY <1>2, <1>3, <1>4, <1>5, <1>6 DEF TopicsNext
<1>. QED BY <1>1, <1>7, PTL DEF TopicsSpec

\* For any prices, days and bounds: what a consumer is shown is the market of that stamp,
\* and nothing trades outside its hours.
THEOREM FramesAreTrue == TopicsSpec => []FramesTellTheMarket
<1>1. TopicsInv => FramesTellTheMarket
  BY DEF TopicsInv
<1>. QED BY <1>1, TopicsInductive, PTL

SessionNames == {Nil, "rth", "pre", "post", "closed", "halted"}

TopicsRest ==
    /\ market.stamp \in 1..MaxStamp /\ Len(wire) <= WireMax
    /\ \A f \in Fields : snapshot.quote[f] \in Readings(f) \cup {Nil}
    /\ known.exchange \in {Nil, "unknown", "asked", "known"}
    /\ service \subseteq 0..(LastDay + Horizon) /\ today \in 0..LastDay
    /\ shown.session \in SessionNames

\* For any prices, days and bounds: every field of the snapshot has a reading of its own,
\* and the calendar's days and the day's sessions are what they are meant to be.
THEOREM TopicsTypeCorrect == TopicsSpec => []TopicsTypeOK
<1>. USE TopicsAssumption
<1>0. 0..(LastDay + Horizon) \subseteq Nat /\ {LastDay, Horizon, MaxStamp, WireMax} \subseteq Nat
  OBVIOUS
<1>1. TopicsInit => TopicsRest
  <2>. SUFFICES ASSUME TopicsInit PROVE TopicsRest
    OBVIOUS
  <2>1. /\ market.stamp = 1 /\ wire = <<>> /\ service = {} /\ today = 0
        /\ snapshot.quote = [f \in Fields |-> Nil] /\ shown.session = Nil
    BY DEF TopicsInit
  <2>2. known.exchange = Nil
    BY DEF TopicsInit
  <2>3. 1 \in 1..MaxStamp /\ 0 \in 0..LastDay /\ Len(<<>>) <= WireMax
    BY <1>0
  <2>. QED BY <2>1, <2>2, <2>3 DEF TopicsRest, SessionNames
<1>2. TopicsInv /\ TopicsRest /\ [TopicsNext]_topicVars => TopicsRest'
  <2>. SUFFICES ASSUME TopicsInv, TopicsRest, [TopicsNext]_topicVars PROVE TopicsRest'
    OBVIOUS
  <2>0. PICK w \in Seq(TopicFrames) : w = wire /\ Len(w) \in Nat /\ Len(w) <= WireMax
    BY DEF TopicsInv, WireInv, TopicsRest
  <2>1. CASE SubscribeTopic \/ SentTwice
    <3>1. PICK e : wire' = Append(w, e) /\ e \in TopicFrames
      <4>1. PICK e : e = wire[Len(wire)]
        OBVIOUS
      <4>2. SentTwice => wire' = Append(w, e) /\ e \in TopicFrames
        BY <2>0, <4>1, ElementOfSeq DEF SentTwice
      <4>3. PICK d : d = Frame(market.stamp, market.quote, market.quote)
        OBVIOUS
      <4>4. market.quote \in Quotes /\ market.stamp \in Nat
        BY DEF TopicsInv
      <4>5. d \in TopicFrames
        BY <4>3, <4>4, QuotesAreWhole DEF Frame, TopicFrames
      <4>6. SubscribeTopic => wire' = Append(w, d)
        BY <2>0, <4>3 DEF SubscribeTopic
      <4>. QED BY <2>1, <4>2, <4>5, <4>6
    <3>2. Len(wire') = Len(w) + 1 /\ Len(w) < WireMax
      BY <2>0, <2>1, <3>1, AppendProperties DEF SubscribeTopic, SentTwice
    <3>3. Len(wire') <= WireMax
      BY <1>0, <2>0, <3>2
    <3>. QED BY <2>1, <3>3 DEF SubscribeTopic, SentTwice, TopicsRest
  <2>2. CASE MarketMoves
    <3>1. PICK changed, q, junk :
            /\ market.stamp < MaxStamp
            /\ LET truth == IF junk THEN [q EXCEPT !.last = market.quote.last] ELSE q
                   sent == [f \in changed |-> IF junk /\ f = "last" THEN Junk ELSE q[f]] IN
               /\ market' = [quote |-> truth, stamp |-> market.stamp + 1]
               /\ IF live
                  THEN /\ Len(wire) < WireMax
                       /\ wire' = Append(wire, Frame(market.stamp + 1, sent, truth))
                  ELSE UNCHANGED wire
            /\ UNCHANGED <<live, snapshot, known, service, today, shown>>
      BY <2>2, ZenonT(40) DEF MarketMoves
    <3>2. market'.stamp = market.stamp + 1 /\ market.stamp < MaxStamp
          /\ market.stamp \in 1..MaxStamp
      BY <3>1 DEF TopicsRest
    <3>3. market'.stamp \in 1..MaxStamp
      BY <1>0, <3>2
    <3>4. PICK e : \/ wire' = w
                   \/ wire' = Append(w, e) /\ Len(w) < WireMax
      BY <2>0, <3>1
    <3>5. Len(Append(w, e)) = Len(w) + 1
      BY <2>0
    <3>6. Len(wire') <= WireMax
      BY <1>0, <2>0, <3>4, <3>5
    <3>. QED BY <3>1, <3>3, <3>6 DEF TopicsRest
  <2>3. CASE SocketDrops
    BY <2>3, <1>0 DEF SocketDrops, TopicsRest
  <2>4. CASE Feed
    <3>1. PICK h : h = Head(wire)
      OBVIOUS
    <3>2. wire # <<>> /\ wire' = Tail(wire) /\ UNCHANGED <<market, live, known, service, today>>
      BY <2>4 DEF Feed
    <3>3. Len(wire') <= WireMax
      <4>1. Len(Tail(w)) = Len(w) - 1
        BY <2>0, <3>2, HeadTailProperties
      <4>. QED BY <1>0, <2>0, <3>2, <4>1
    <3>4. /\ h \in TopicFrames /\ Continues(snapshot.stamp, snapshot.quote, h)
      <4>1. 1 \in 1..Len(wire) /\ wire[1] = h /\ wire \in Seq(TopicFrames)
        BY <2>0, <3>1, <3>2
      <4>. QED BY <4>1 DEF TopicsInv, WireInv
    <3>5. CASE IsDuplicateFrame(h)
      <4>1. snapshot' = snapshot /\ shown' = shown
        BY <2>4, <3>1, <3>5 DEF Feed
      <4>. QED BY <3>2, <3>3, <4>1 DEF TopicsRest
    <3>6. CASE ~IsDuplicateFrame(h)
      <4>1. PICK minute \in 0..Minutes :
              LET quote == Merged(snapshot.quote, h.delta)
                  trades == IF known.calendar = {} THEN <<FALSE, Nil>>
                            ELSE DeriveTradeability(known.calendar, known.raw, today, minute,
                                                    quote["availability_code"]) IN
              /\ snapshot' = [quote |-> quote, stamp |-> h.stamp]
              /\ shown' = [quote |-> quote, truth |-> h.truth, now |-> minute,
                           tradeable |-> trades[1], session |-> trades[2],
                           fresh |-> today \in known.calendar]
        BY <2>4, <3>1, <3>6 DEF Feed
      <4>2. Merged(snapshot.quote, h.delta) = h.truth /\ h.truth \in Quotes
        BY <3>4, <3>6 DEF Continues, IsDuplicateFrame, TopicFrames
      <4>3. snapshot'.quote = h.truth
        BY <4>1, <4>2
      <4>4. \A f \in Fields : snapshot'.quote[f] \in Readings(f) \cup {Nil}
        BY <4>2, <4>3 DEF Quotes, Fields, PriceFields, Readings
      <4>5. PICK code : code = h.truth["availability_code"]
        OBVIOUS
      <4>6. PICK period : period = ActiveSession(CollectSessions(known.raw), minute)
        OBVIOUS
      <4>7. period \in {"rth", "pre", "post", "closed"}
        <5>1. known.raw \in Schedules /\ minute \in Nat
          BY <4>1 DEF TopicsInv
        <5>. QED BY <4>6, <5>1, OpenSessions
      <4>8. PICK told : told = DeriveTradeability(known.calendar, known.raw, today, minute, code)
        OBVIOUS
      <4>9. told[2] \in SessionNames
        BY <4>6, <4>7, <4>8 DEF DeriveTradeability, SessionNames
      <4>10. shown'.session = (IF known.calendar = {} THEN <<FALSE, Nil>> ELSE told)[2]
        BY <4>1, <4>2, <4>5, <4>8
      <4>11. shown'.session \in SessionNames
        BY <4>9, <4>10 DEF SessionNames
      <4>. QED BY <3>2, <3>3, <4>4, <4>11 DEF TopicsRest
    <3>. QED BY <3>5, <3>6
  <2>5. CASE PreloadExchange \/ PreloadCalendarFails
    <3>1. known'.exchange \in {Nil, "unknown", "asked", "known"}
      BY <2>5 DEF PreloadExchange, PreloadCalendarFails, TopicsInv
    <3>. QED BY <2>5, <3>1 DEF PreloadExchange, PreloadCalendarFails, TopicsRest
  <2>6. CalendarFrom \subseteq 0..(LastDay + Horizon)
    <3>1. service \subseteq 0..(LastDay + Horizon) /\ today \in 0..LastDay
      BY DEF TopicsRest
    <3>2. ASSUME NEW d \in today..(today + Horizon - 1)
          PROVE  d \in 0..(LastDay + Horizon)
      <4>1. LastDay \in Nat /\ Horizon \in Nat /\ today \in Nat /\ today <= LastDay
        BY <1>0, <3>1
      <4>2. d \in Int /\ today <= d /\ d <= today + Horizon - 1
        BY <3>2, <4>1
      <4>. QED BY <4>1, <4>2
    <3>3. today..(today + Horizon - 1) \subseteq 0..(LastDay + Horizon)
      BY <3>2
    <3>. QED BY <3>1, <3>3 DEF CalendarFrom
  <2>7. CASE PreloadCalendar
    <3>1. known'.exchange = "known"
      BY <2>7 DEF PreloadCalendar, TopicsInv
    <3>. QED BY <2>6, <2>7, <3>1 DEF PreloadCalendar, TopicsRest
  <2>8. CASE CalendarRead \/ CalendarExpires \/ UNCHANGED topicVars
    BY <2>6, <2>8 DEF CalendarRead, CalendarExpires, topicVars, TopicsRest
  <2>9. CASE NextDay
    <3>1. today' \in 0..LastDay
      BY <1>0, <2>9 DEF NextDay, TopicsRest
    <3>. QED BY <2>9, <3>1 DEF NextDay, TopicsRest
  <2>. QED BY <2>1, <2>2, <2>3, <2>4, <2>5, <2>7, <2>8, <2>9 DEF TopicsNext
<1>3. TopicsInv /\ TopicsRest => TopicsTypeOK
  BY DEF TopicsTypeOK, TopicsInv, TopicsRest, SessionNames
<1>. QED BY <1>1, <1>2, <1>3, TopicsInductive, PTL DEF TopicsSpec

-----------------------------------------------------------------------------
(* The quote streams over one TWS session.                                 *)

Members(s) == {s[i] : i \in 1..Len(s)}
Watched(w) == Members(attached[w])
WatcherEvents == {Event(c, n, t) : c \in Conids, n \in Nat, t \in Tickers}

QuoteShapes ==
    /\ subs = [c \in Conids |-> subs[c]]
    /\ \A c \in Conids :
          /\ subs[c] = [consumers |-> subs[c].consumers, ring |-> subs[c].ring,
                        next |-> subs[c].next]
          /\ subs[c].consumers \subseteq Watchers
          /\ subs[c] = NoSub \/ (subs[c].consumers # {} /\ subs[c].next \in Nat)
    /\ lines \subseteq Conids
    /\ place \in [Watchers -> Places]
    /\ todo \in [Watchers -> Seq(Conids)]
    /\ attached \in [Watchers -> Seq(Conids)]
    /\ since \in [Watchers -> [Conids -> Int]]
    /\ queue \in [Watchers -> Seq(WatcherEvents \cup {Sentinel})]
    /\ last = [w \in Watchers |-> [c \in Conids |-> last[w][c]]]

\* One watcher at a time waits for a contract, of a conid that nobody watches; and a
\* stream that replays has something to replay.
OneQualifies ==
    \A w \in Watchers :
        /\ place[w] = "qualifying" =>
              /\ \A v \in Watchers : place[v] = "qualifying" => v = w
              /\ todo[w] # <<>> /\ subs[Head(todo[w])] = NoSub
        /\ place[w] \in {"returned", "replaying"} => todo[w] # <<>>

\* Who is attached is a consumer, and the other way round until the service shuts down.
ConsumersAreAttached ==
    /\ IF session = "first" THEN lines = Registered ELSE lines \subseteq Registered
    /\ \A w \in Watchers : \A c \in Conids : w \in subs[c].consumers => c \in Watched(w)
    /\ ~closedDown => \A w \in Watchers : \A c \in Watched(w) : w \in subs[c].consumers

\* The end of the queue of a watcher of one conid is the newest quote of it.
Abreast(w, c) ==
    /\ queue[w] # <<>> => queue[w][Len(queue[w])].id = subs[c].next - 1
    /\ queue[w] = <<>> /\ subs[c].next > since[w][c] =>
          place[w] \in {"live", "leaving", "gone"} /\ last[w][c] = subs[c].next - 1

QueuesAreAbreast ==
    ~closedDown => \A w \in Watchers :
        /\ \A i \in 1..Len(queue[w]) :
              queue[w][i] \in WatcherEvents /\ queue[w][i].conid \in Watched(w)
        /\ \A c \in Conids : Watched(w) = {c} => Abreast(w, c)

QuotesInv == QuoteShapes /\ OneQualifies /\ ConsumersAreAttached /\ QueuesAreAbreast

LEMMA EventsAre ==
    ASSUME NEW e \in WatcherEvents
    PROVE  e.conid \in Conids /\ e.id \in Nat /\ e # Sentinel
BY DEF WatcherEvents, Event, Sentinel

\* The invariant is what the run checks, and more.
LEMMA InvServes == QuotesInv => WatchersAreServed
<1>. SUFFICES ASSUME QuotesInv PROVE WatchersAreServed
  OBVIOUS
<1>1. \A c \in Registered : subs[c].consumers # {}
  BY DEF QuotesInv, QuoteShapes, Registered
<1>2. \A w \in Watchers : /\ DOMAIN attached[w] = 1..Len(attached[w])
                          /\ Watched(w) = {attached[w][i] : i \in DOMAIN attached[w]}
  <2>1. \A w \in Watchers : attached[w] \in Seq(Conids)
    BY DEF QuotesInv, QuoteShapes
  <2>. QED BY <2>1 DEF Watched, Members
<1>3. LinesMatchConsumers
  BY <1>1, <1>2 DEF QuotesInv, ConsumersAreAttached, LinesMatchConsumers
<1>4. ASSUME NEW w \in Watchers, NEW c \in Conids, place[w] = "live", ~closedDown, queue[w] = <<>>,
             {attached[w][i] : i \in DOMAIN attached[w]} = {c}, subs[c].next > since[w][c]
      PROVE  last[w][c] = subs[c].next - 1
  <2>1. Watched(w) = {c}
    BY <1>2, <1>4
  <2>. QED BY <1>4, <2>1 DEF QuotesInv, QueuesAreAbreast, Abreast
<1>. QED BY <1>3, <1>4 DEF WatchersAreServed, DrainedWatcherIsCurrent

\* What Proceed does: it joins the objects up to the first conid without one.
JoinsUpTo(w, objects, rest, joined, all, t, stop) ==
    /\ joined \subseteq Conids /\ all \in Seq(Conids) /\ t \in Seq(Conids)
    /\ Members(all) = Members(attached[w]) \cup joined
    /\ \A c \in joined : objects[c] # NoSub
    /\ rest # <<>> /\ objects[Head(rest)] # NoSub => Head(rest) \in joined
    /\ stop \in {"qualifying", "live", "returned"}
    /\ stop = "qualifying" => t # <<>> /\ objects[Head(t)] = NoSub
    /\ stop = "returned" => t # <<>>
    /\ subs' = [c \in Conids |-> IF c \in joined THEN [objects[c] EXCEPT !.consumers = @ \cup {w}]
                                 ELSE objects[c]]
    /\ since' = [since EXCEPT ![w] = [c \in Conids |-> IF c \in joined THEN objects[c].next
                                                       ELSE @[c]]]
    /\ attached' = [attached EXCEPT ![w] = all]
    /\ todo' = [todo EXCEPT ![w] = t]
    /\ place' = [place EXCEPT ![w] = stop]

LEMMA ProceedJoins ==
    ASSUME NEW w \in Watchers, NEW objects, NEW rest \in Seq(Conids),
           attached \in [Watchers -> Seq(Conids)], Proceed(w, objects, rest)
    PROVE  \E joined, all, t, stop : JoinsUpTo(w, objects, rest, joined, all, t, stop)
<1>. DEFINE ends == {k \in 0..Len(rest) : k = Len(rest) \/ objects[rest[k + 1]] = NoSub}
            first(k) == \A i \in 1..k : objects[rest[i]] # NoSub
<1>1. PICK n \in Nat : /\ n = CHOOSE k \in 0..Len(rest) :
                               /\ \A i \in 1..k : objects[rest[i]] # NoSub
                               /\ k = Len(rest) \/ objects[rest[k + 1]] = NoSub
                       /\ n <= Len(rest) /\ first(n)
                       /\ n = Len(rest) \/ objects[rest[n + 1]] = NoSub
  <2>1. Len(rest) \in Nat /\ ends \in SUBSET Nat /\ Len(rest) \in ends
    OBVIOUS
  <2>2. PICK m : m = Min(ends)
    OBVIOUS
  <2>3. m \in ends /\ \A i \in ends : m <= i
    BY <2>1, <2>2, LeastOne
  <2>4. \A i \in 1..m : objects[rest[i]] # NoSub
    <3>. SUFFICES ASSUME NEW i \in 1..m, objects[rest[i]] = NoSub PROVE FALSE
      OBVIOUS
    <3>1. i \in Int /\ i - 1 \in 0..Len(rest) /\ i - 1 + 1 = i /\ i - 1 < m /\ m \in Nat
      BY <2>1, <2>3
    <3>2. i - 1 \in ends
      BY <3>1
    <3>3. m <= i - 1
      BY <2>3, <3>2
    <3>. QED BY <3>1, <3>3
  <2>5. \E k \in 0..Len(rest) : /\ \A i \in 1..k : objects[rest[i]] # NoSub
                                /\ k = Len(rest) \/ objects[rest[k + 1]] = NoSub
    BY <2>3, <2>4
  <2>. QED BY <2>1, <2>5
<1>2. PICK joined : joined = {rest[i] : i \in 1..n}
  OBVIOUS
<1>3. PICK part1 \in Seq(Conids) : part1 = SubSeq(rest, 1, n) /\ Members(part1) = joined
  <2>1. \A i \in 1..n : rest[i] \in Conids
    BY <1>1, ElementOfSeq
  <2>2. /\ SubSeq(rest, 1, n) \in Seq(Conids) /\ Len(SubSeq(rest, 1, n)) = n
        /\ \A i \in 1..n : SubSeq(rest, 1, n)[i] = rest[i]
    <3>1. PICK m \in Nat : m = n /\ m <= Len(rest) /\ Len(rest) \in Nat
      BY <1>1
    <3>2. SubSeq(rest, 1, m) \in Seq(Conids)
      BY <2>1, <3>1, SubSeqProperties
    <3>3. Len(SubSeq(rest, 1, m)) = m
      BY <3>1, SubSeqProperties
    <3>4. \A i \in 1..m : SubSeq(rest, 1, m)[i] = rest[i]
      BY <3>1, SubSeqProperties
    <3>. QED BY <3>1, <3>2, <3>3, <3>4
  <2>. QED BY <1>2, <2>2, ZenonT(40) DEF Members
<1>4. PICK all \in Seq(Conids) : /\ all = attached[w] \o SubSeq(rest, 1, n)
                                 /\ Members(all) = Members(attached[w]) \cup joined
  <2>1. PICK a \in Seq(Conids) : a = attached[w]
    OBVIOUS
  <2>2. PICK s \in Seq(Conids) : /\ s = a \o part1 /\ Len(s) = Len(a) + Len(part1)
                                 /\ \A i \in 1..(Len(a) + Len(part1)) :
                                       s[i] = IF i <= Len(a) THEN a[i] ELSE part1[i - Len(a)]
    <3>1. /\ a \o part1 \in Seq(Conids) /\ Len(a \o part1) = Len(a) + Len(part1)
          /\ \A i \in 1..(Len(a) + Len(part1)) :
                (a \o part1)[i] = IF i <= Len(a) THEN a[i] ELSE part1[i - Len(a)]
      BY ConcatProperties
    <3>. QED BY <3>1
  <2>3. Len(a) \in Nat /\ Len(part1) \in Nat
    OBVIOUS
  <2>4. Members(s) \subseteq Members(a) \cup Members(part1)
    <3>. SUFFICES ASSUME NEW i \in 1..(Len(a) + Len(part1))
                  PROVE  s[i] \in Members(a) \cup Members(part1)
      BY <2>2 DEF Members
    <3>1. CASE i <= Len(a)
      <4>1. i \in 1..Len(a) /\ s[i] = a[i]
        BY <2>2, <2>3, <3>1
      <4>. QED BY <4>1 DEF Members
    <3>2. CASE ~(i <= Len(a))
      <4>1. i - Len(a) \in 1..Len(part1)
        BY <2>3, <3>2
      <4>2. s[i] = part1[i - Len(a)]
        BY <2>2, <3>2
      <4>. QED BY <4>1, <4>2 DEF Members
    <3>. QED BY <3>1, <3>2
  <2>5. Members(a) \subseteq Members(s)
    <3>1. \A i \in 1..Len(a) : i \in 1..(Len(a) + Len(part1)) /\ s[i] = a[i]
      BY <2>2, <2>3
    <3>. QED BY <2>2, <3>1 DEF Members
  <2>6. Members(part1) \subseteq Members(s)
    <3>1. ASSUME NEW i \in 1..Len(part1)
          PROVE  Len(a) + i \in 1..(Len(a) + Len(part1)) /\ s[Len(a) + i] = part1[i]
      <4>1. /\ Len(a) + i \in 1..(Len(a) + Len(part1)) /\ ~(Len(a) + i <= Len(a))
            /\ Len(a) + i - Len(a) = i
        BY <2>3
      <4>. QED BY <2>2, <4>1
    <3>. QED BY <2>2, <3>1, ZenonT(40) DEF Members
  <2>. QED BY <1>3, <2>1, <2>2, <2>4, <2>5, <2>6
<1>5. joined \subseteq Conids /\ \A c \in joined : objects[c] # NoSub
  <2>1. \A i \in 1..n : rest[i] \in Conids
    BY <1>1, ElementOfSeq
  <2>. QED BY <1>1, <1>2, <2>1
<1>6. rest # <<>> /\ objects[Head(rest)] # NoSub => Head(rest) \in joined
  <2>. SUFFICES ASSUME rest # <<>>, objects[Head(rest)] # NoSub PROVE Head(rest) \in joined
    OBVIOUS
  <2>1. Head(rest) = rest[1] /\ Len(rest) \in Nat /\ Len(rest) # 0
    OBVIOUS
  <2>2. n # 0
    <3>1. n = 0 => n # Len(rest) /\ rest[n + 1] = Head(rest)
      BY <2>1
    <3>. QED BY <1>1, <3>1
  <2>3. 1 \in 1..n
    BY <2>2
  <2>. QED BY <1>2, <2>1, <2>3
<1>7. /\ subs' = [c \in Conids |-> IF c \in joined THEN [objects[c] EXCEPT !.consumers = @ \cup {w}]
                                   ELSE objects[c]]
      /\ since' = [since EXCEPT ![w] = [c \in Conids |-> IF c \in joined THEN objects[c].next
                                                         ELSE @[c]]]
      /\ attached' = [attached EXCEPT ![w] = all]
      /\ IF n < Len(rest)
         THEN /\ todo' = [todo EXCEPT ![w] = SubSeq(rest, n + 1, Len(rest))]
              /\ place' = [place EXCEPT ![w] = "qualifying"]
         ELSE /\ todo' = [todo EXCEPT ![w] = all]
              /\ place' = [place EXCEPT ![w] = IF all = <<>> THEN "live" ELSE "returned"]
  BY <1>1, <1>2, <1>4, Zenon DEF Proceed
<1>8. CASE n < Len(rest)
  <2>1. \A i \in (n + 1)..Len(rest) : rest[i] \in Conids
    BY <1>1, ElementOfSeq
  <2>2. PICK t \in Seq(Conids) : /\ t = SubSeq(rest, n + 1, Len(rest))
                                 /\ Len(t) = Len(rest) - n /\ t[1] = rest[n + 1]
    <3>1. PICK t : t = SubSeq(rest, n + 1, Len(rest))
      OBVIOUS
    <3>2. n + 1 \in Int /\ Len(rest) \in Int /\ n + 1 <= Len(rest)
      BY <1>8
    <3>3. /\ t \in Seq(Conids) /\ Len(t) = IF n + 1 <= Len(rest) THEN Len(rest) - (n + 1) + 1 ELSE 0
          /\ \A i \in 1..(Len(rest) - (n + 1) + 1) : t[i] = rest[n + 1 + i - 1]
      BY <2>1, <3>1, <3>2, SubSeqProperties
    <3>4. /\ 1 \in 1..(Len(rest) - (n + 1) + 1) /\ n + 1 + 1 - 1 = n + 1
          /\ Len(rest) - (n + 1) + 1 = Len(rest) - n
      BY <3>2
    <3>5. t[1] = rest[n + 1 + 1 - 1]
      BY <3>3, <3>4
    <3>6. Len(t) = Len(rest) - n
      BY <3>2, <3>3, <3>4
    <3>. QED BY <3>1, <3>3, <3>4, <3>5, <3>6
  <2>3. t # <<>> /\ Head(t) = rest[n + 1]
    <3>1. Len(t) # 0
      BY <1>8, <2>2
    <3>2. t # <<>>
      BY <3>1
    <3>3. Head(t) = t[1]
      BY <3>2
    <3>. QED BY <2>2, <3>2, <3>3
  <2>4. objects[Head(t)] = NoSub
    <3>1. n # Len(rest)
      BY <1>8
    <3>. QED BY <1>1, <2>3, <3>1
  <2>5. JoinsUpTo(w, objects, rest, joined, all, t, "qualifying")
    BY <1>4, <1>5, <1>6, <1>7, <1>8, <2>2, <2>3, <2>4 DEF JoinsUpTo
  <2>. QED BY <2>5
<1>9. CASE ~(n < Len(rest))
  <2>1. PICK stop : stop = IF all = <<>> THEN "live" ELSE "returned"
    OBVIOUS
  <2>2. JoinsUpTo(w, objects, rest, joined, all, all, stop)
    BY <1>4, <1>5, <1>6, <1>7, <1>9, <2>1 DEF JoinsUpTo
  <2>. QED BY <2>2
<1>. QED BY <1>8, <1>9

LEMMA ProceedKeeps ==
    ASSUME QuotesInv, NEW w \in Watchers, place[w] \in {"waiting", "qualifying"},
           \A v \in Watchers : place[v] = "qualifying" => v = w,
           NEW objects, NEW rest \in Seq(Conids), NEW fresh \in SUBSET Conids,
           \A c \in Conids \ fresh : objects[c] = subs[c],
           \A c \in fresh : /\ objects[c] = [NoSub EXCEPT !.next = 0] /\ subs[c] = NoSub
                            /\ rest # <<>> /\ Head(rest) = c,
           lines' = lines \cup fresh, Proceed(w, objects, rest),
           UNCHANGED <<session, closedDown, queue, last>>
    PROVE  QuotesInv'
<1>1. PICK joined, all, t, stop : JoinsUpTo(w, objects, rest, joined, all, t, stop)
  BY ProceedJoins DEF QuotesInv, QuoteShapes
<1>2. \A c \in fresh : c \in joined
  <2>. SUFFICES ASSUME NEW c \in fresh PROVE c \in joined
    OBVIOUS
  <2>1. objects[c] # NoSub
    BY DEF NoSub
  <2>. QED BY <1>1, <2>1 DEF JoinsUpTo
<1>3. ASSUME NEW c \in Conids
      PROVE  /\ c \in joined =>
                   /\ subs'[c] = [consumers |-> subs[c].consumers \cup {w},
                                  ring |-> subs'[c].ring, next |-> subs'[c].next]
                   /\ subs'[c].consumers = subs[c].consumers \cup {w}
                   /\ subs'[c].next \in Nat /\ since'[w][c] = subs'[c].next
             /\ c \notin joined => subs'[c] = subs[c] /\ since'[w][c] = since[w][c]
             /\ c \notin fresh => subs'[c].next = subs[c].next
             /\ subs'[c].next \in Int /\ since'[w][c] \in Int
  <2>0. /\ subs'[c] = IF c \in joined THEN [objects[c] EXCEPT !.consumers = @ \cup {w}] ELSE objects[c]
        /\ since'[w][c] = IF c \in joined THEN objects[c].next ELSE since[w][c]
    BY <1>1 DEF JoinsUpTo, QuotesInv, QuoteShapes
  <2>1. since[w][c] \in Int
    BY DEF QuotesInv, QuoteShapes
  <2>2. PICK old : old = objects[c]
    OBVIOUS
  <2>3. PICK new : new = subs'[c]
    OBVIOUS
  <2>4. /\ old = [consumers |-> subs[c].consumers, ring |-> old.ring, next |-> old.next]
        /\ old.next \in Int /\ (c \in joined => old.next \in Nat)
        /\ c \notin fresh => old = subs[c]
    <3>1. CASE c \in fresh
      <4>1. old = [consumers |-> {}, ring |-> <<>>, next |-> 0] /\ subs[c].consumers = {}
        BY <2>2, <3>1, ZenonT(40) DEF NoSub
      <4>. QED BY <3>1, <4>1
    <3>2. CASE c \notin fresh
      <4>1. old = subs[c] /\ (c \in joined => old # NoSub)
        BY <1>1, <2>2, <3>2 DEF JoinsUpTo
      <4>2. old = [consumers |-> old.consumers, ring |-> old.ring, next |-> old.next]
            /\ (old = NoSub \/ old.next \in Nat)
        BY <4>1 DEF QuotesInv, QuoteShapes
      <4>3. NoSub.next \in Int
        BY DEF NoSub
      <4>. QED BY <4>1, <4>2, <4>3
    <3>. QED BY <3>1, <3>2
  <2>5. CASE c \in joined
    <3>1. new = [consumers |-> subs[c].consumers \cup {w}, ring |-> old.ring, next |-> old.next]
      <4>1. new = [old EXCEPT !.consumers = @ \cup {w}]
        BY <2>0, <2>2, <2>3, <2>5
      <4>2. PICK cs : cs = subs[c].consumers
        OBVIOUS
      <4>3. old = [consumers |-> cs, ring |-> old.ring, next |-> old.next]
        BY <2>4, <4>2
      <4>4. new = [consumers |-> cs \cup {w}, ring |-> old.ring, next |-> old.next]
        <5>1. PICK r, m : r = old.ring /\ m = old.next
          OBVIOUS
        <5>2. old = [consumers |-> cs, ring |-> r, next |-> m]
          BY <4>3, <5>1
        <5>3. [old EXCEPT !.consumers = @ \cup {w}] = [consumers |-> cs \cup {w}, ring |-> r, next |-> m]
          <6>1. PICK d : d = cs \cup {w}
            OBVIOUS
          <6>2. old.consumers \cup {w} = d
            BY <5>2, <6>1
          <6>3. [old EXCEPT !.consumers = d] = [consumers |-> d, ring |-> r, next |-> m]
            BY <5>2
          <6>. QED BY <6>1, <6>2, <6>3
        <5>. QED BY <4>1, <5>1, <5>3
      <4>. QED BY <4>2, <4>4
    <3>2. /\ new.consumers = subs[c].consumers \cup {w} /\ new.ring = old.ring
          /\ new.next = old.next
      BY <3>1
    <3>3. since'[w][c] = old.next
      BY <2>0, <2>2, <2>5
    <3>4. c \notin fresh => new.next = subs[c].next
      BY <2>4, <3>2
    <3>. QED BY <2>3, <2>4, <2>5, <3>1, <3>2, <3>3, <3>4
  <2>6. CASE c \notin joined
    <3>1. c \notin fresh
      BY <1>2, <2>6
    <3>. QED BY <2>0, <2>1, <2>2, <2>4, <2>6, <3>1
  <2>. QED BY <2>5, <2>6
<1>4. ASSUME NEW c \in Conids
      PROVE  /\ subs'[c].consumers = IF c \in joined THEN subs[c].consumers \cup {w}
                                     ELSE subs[c].consumers
             /\ c \in joined => subs'[c] # NoSub
             /\ subs'[c] = NoSub <=> subs[c] = NoSub /\ c \notin fresh
  <2>1. c \in joined => w \in subs'[c].consumers
    BY <1>3
  <2>2. NoSub.consumers = {}
    BY DEF NoSub
  <2>3. c \in joined => subs'[c] # NoSub
    BY <2>1, <2>2
  <2>4. c \in joined /\ c \notin fresh => subs[c] # NoSub
    BY <1>1 DEF JoinsUpTo
  <2>. QED BY <1>2, <1>3, <2>3, <2>4
<1>5. \A v \in Watchers : v # w => /\ place'[v] = place[v] /\ todo'[v] = todo[v]
                                   /\ attached'[v] = attached[v] /\ since'[v] = since[v]
  BY <1>1 DEF JoinsUpTo, QuotesInv, QuoteShapes
<1>6. place'[w] = stop /\ todo'[w] = t /\ attached'[w] = all
  BY <1>1 DEF JoinsUpTo, QuotesInv, QuoteShapes
<1>7. QuoteShapes'
  <2>1. subs' = [c \in Conids |-> subs'[c]]
    BY <1>1 DEF JoinsUpTo
  <2>2. ASSUME NEW c \in Conids
        PROVE  /\ subs'[c] = [consumers |-> subs'[c].consumers, ring |-> subs'[c].ring,
                              next |-> subs'[c].next]
               /\ subs'[c].consumers \subseteq Watchers
               /\ subs'[c] = NoSub \/ (subs'[c].consumers # {} /\ subs'[c].next \in Nat)
    <3>1. subs[c] = [consumers |-> subs[c].consumers, ring |-> subs[c].ring, next |-> subs[c].next]
          /\ subs[c].consumers \subseteq Watchers
          /\ (subs[c] = NoSub \/ (subs[c].consumers # {} /\ subs[c].next \in Nat))
      BY DEF QuotesInv, QuoteShapes
    <3>2. CASE c \notin joined
      BY <1>3, <3>1, <3>2
    <3>3. CASE c \in joined
      <4>1. PICK cs : cs = subs[c].consumers \cup {w}
        OBVIOUS
      <4>2. /\ subs'[c] = [consumers |-> cs, ring |-> subs'[c].ring, next |-> subs'[c].next]
            /\ subs'[c].next \in Nat /\ cs \subseteq Watchers /\ cs # {}
        BY <1>3, <3>1, <3>3, <4>1
      <4>3. subs'[c].consumers = cs
        BY <4>2
      <4>. QED BY <4>2, <4>3
    <3>. QED BY <3>2, <3>3
  <2>3. since' \in [Watchers -> [Conids -> Int]]
    <3>1. PICK row : row = [c \in Conids |-> IF c \in joined THEN objects[c].next ELSE since[w][c]]
      OBVIOUS
    <3>2. since' = [since EXCEPT ![w] = row]
      BY <1>1, <3>1 DEF JoinsUpTo
    <3>3. since'[w] = row
      BY <3>2 DEF QuotesInv, QuoteShapes
    <3>4. \A c \in Conids : row[c] \in Int
      BY <1>3, <3>3
    <3>5. row \in [Conids -> Int]
      BY <3>1, <3>4
    <3>. QED BY <3>2, <3>5 DEF QuotesInv, QuoteShapes
  <2>4. place' \in [Watchers -> Places] /\ todo' \in [Watchers -> Seq(Conids)]
        /\ attached' \in [Watchers -> Seq(Conids)]
    BY <1>1 DEF JoinsUpTo, QuotesInv, QuoteShapes, Places
  <2>. QED BY <2>1, <2>2, <2>3, <2>4 DEF QuotesInv, QuoteShapes
<1>8. OneQualifies'
  <2>1. ASSUME NEW v \in Watchers, place'[v] = "qualifying" PROVE v = w
    BY <1>5, <2>1
  <2>2. ASSUME place'[w] = "qualifying" PROVE t # <<>> /\ subs'[Head(t)] = NoSub
    <3>1. t # <<>> /\ objects[Head(t)] = NoSub /\ Head(t) \in Conids
      BY <1>1, <1>6, <2>2 DEF JoinsUpTo
    <3>2. Head(t) \notin joined
      BY <1>1, <3>1 DEF JoinsUpTo
    <3>3. objects[Head(t)] = subs[Head(t)]
      BY <1>2, <3>1, <3>2
    <3>. QED BY <1>3, <3>1, <3>2, <3>3
  <2>3. place'[w] \in {"returned", "replaying"} => t # <<>>
    BY <1>1, <1>6 DEF JoinsUpTo
  <2>. QED BY <1>5, <1>6, <2>1, <2>2, <2>3 DEF QuotesInv, OneQualifies
<1>9. Watched(w)' = Watched(w) \cup joined /\ \A v \in Watchers : v # w => Watched(v)' = Watched(v)
  BY <1>1, <1>5, <1>6 DEF Watched, JoinsUpTo
<1>10. ConsumersAreAttached'
  <2>1. Registered' = Registered \cup fresh
    BY <1>4 DEF Registered
  <2>2. IF session' = "first" THEN lines' = Registered' ELSE lines' \subseteq Registered'
    BY <2>1 DEF QuotesInv, ConsumersAreAttached
  <2>3. ASSUME NEW v \in Watchers, NEW c \in Conids, v \in subs'[c].consumers
        PROVE  c \in Watched(v)'
    <3>1. v \in subs[c].consumers \/ (v = w /\ c \in joined)
      BY <1>4, <2>3, ZenonT(40)
    <3>. QED BY <1>9, <3>1 DEF QuotesInv, ConsumersAreAttached
  <2>4. ASSUME ~closedDown', NEW v \in Watchers, NEW c \in Watched(v)'
        PROVE  v \in subs'[c].consumers
    <3>1. c \in Watched(v) \/ (v = w /\ c \in joined)
      BY <1>9, <2>4
    <3>2. c \in Conids
      <4>1. Watched(v) \subseteq Conids
        BY ElementOfSeq, SMTT(30) DEF Watched, Members, QuotesInv, QuoteShapes
      <4>. QED BY <1>1, <3>1, <4>1 DEF JoinsUpTo
    <3>3. c \in Watched(v) => v \in subs[c].consumers
      BY <2>4 DEF QuotesInv, ConsumersAreAttached
    <3>. QED BY <1>4, <3>1, <3>2, <3>3
  <2>. QED BY <2>2, <2>3, <2>4 DEF ConsumersAreAttached
<1>11. ASSUME ~closedDown', NEW v \in Watchers
       PROVE  /\ \A i \in 1..Len(queue'[v]) :
                    queue'[v][i] \in WatcherEvents /\ queue'[v][i].conid \in Watched(v)'
              /\ \A c \in Conids : Watched(v)' = {c} => Abreast(v, c)'
  <2>1. \A i \in 1..Len(queue[v]) :
           queue[v][i] \in WatcherEvents /\ queue[v][i].conid \in Watched(v)
    BY <1>11 DEF QuotesInv, QueuesAreAbreast
  <2>2. \A i \in 1..Len(queue'[v]) :
           queue'[v][i] \in WatcherEvents /\ queue'[v][i].conid \in Watched(v)'
    BY <1>9, <2>1
  <2>3. ASSUME NEW c \in Conids, Watched(v) = {c}
        PROVE  Abreast(v, c) /\ c \notin fresh /\ subs'[c].next = subs[c].next
    <3>1. v \in subs[c].consumers
      BY <1>11, <2>3 DEF QuotesInv, ConsumersAreAttached
    <3>2. NoSub.consumers = {}
      BY DEF NoSub
    <3>3. c \notin fresh
      BY <3>1, <3>2
    <3>. QED BY <1>3, <1>11, <2>3, <3>3 DEF QuotesInv, QueuesAreAbreast
  <2>4. ASSUME NEW c \in Conids, Watched(v)' = {c} PROVE Abreast(v, c)'
    <3>1. CASE v # w
      <4>1. Watched(v) = {c}
        BY <1>9, <2>4, <3>1
      <4>. QED BY <1>5, <2>3, <3>1, <4>1 DEF Abreast
    <3>2. CASE v = w /\ Watched(w) = {c}
      <4>1. Abreast(w, c) /\ subs'[c].next = subs[c].next
        BY <2>3, <3>2
      <4>2. queue[w] = <<>> => ~(subs[c].next > since[w][c])
        BY <4>1 DEF Abreast
      <4>3. subs'[c].next \in Int /\ (c \in joined => ~(subs'[c].next > since'[w][c]))
        <5>1. \A x \in Int : ~(x > x)
          OBVIOUS
        <5>. QED BY <1>3, <5>1
      <4>4. c \notin joined => since'[w][c] = since[w][c]
        BY <1>3
      <4>. QED BY <3>2, <4>1, <4>2, <4>3, <4>4 DEF Abreast
    <3>3. CASE v = w /\ Watched(w) # {c}
      <4>1. c \in joined /\ Watched(w) = {}
        BY <1>9, <2>4, <3>3
      <4>2. queue[w] = <<>>
        <5>1. queue[w] \in Seq(WatcherEvents \cup {Sentinel})
          BY DEF QuotesInv, QuoteShapes
        <5>2. 1 \notin 1..Len(queue[w])
          BY <2>1, <3>3, <4>1
        <5>. QED BY <5>1, <5>2
      <4>3. ~(subs'[c].next > since'[w][c])
        <5>1. \A x \in Int : ~(x > x)
          OBVIOUS
        <5>. QED BY <1>3, <4>1, <5>1
      <4>. QED BY <3>3, <4>2, <4>3 DEF Abreast
    <3>. QED BY <3>1, <3>2, <3>3
  <2>. QED BY <2>2, <2>4
<1>. QED BY <1>7, <1>8, <1>10, <1>11 DEF QuotesInv, QueuesAreAbreast

\* A step that leaves the objects and the streams alone, but for places.
LEMMA PlacesMove ==
    ASSUME QuotesInv, NEW w \in Watchers, NEW there \in {"waiting", "gone", "leaving"},
           place[w] \in {"live", "leaving", "gone"} => there \in {"live", "leaving", "gone"},
           place' = [place EXCEPT ![w] = there],
           todo' \in [Watchers -> Seq(Conids)],
           \A v \in Watchers : v # w => todo'[v] = todo[v],
           UNCHANGED <<subs, lines, session, closedDown, attached, since, queue, last>>
    PROVE  QuotesInv'
<1>1. \A v \in Watchers : place'[v] = IF v = w THEN there ELSE place[v]
  BY DEF QuotesInv, QuoteShapes
<1>2. QuoteShapes'
  BY DEF QuotesInv, QuoteShapes, Places
<1>3. OneQualifies'
  BY <1>1 DEF QuotesInv, OneQualifies
<1>4. ConsumersAreAttached'
  BY DEF QuotesInv, ConsumersAreAttached, Watched, Registered
<1>5. QueuesAreAbreast'
  BY <1>1 DEF QuotesInv, QueuesAreAbreast, Abreast, Watched
<1>. QED BY <1>2, <1>3, <1>4, <1>5 DEF QuotesInv

LEMMA WishesAreConids ==
    ASSUME NEW wish \in Wishes
    PROVE  wish \in Seq(Conids)
<1>1. wish \in Seq({wish[i] : i \in DOMAIN wish}) /\ {wish[i] : i \in DOMAIN wish} \subseteq Conids
  BY QuotesAssumption DEF Conids
<1>. QED BY <1>1, SeqMonotonic

\* Every element of u is e, or one of q.
TakenFrom(u, q, e) == \A i \in 1..Len(u) : u[i] = e \/ \E j \in 1..Len(q) : u[i] = q[j]

\* A queue takes what comes, at the expense of what is oldest.
LEMMA QueuedTakes ==
    ASSUME NEW S, NEW q \in Seq(S), NEW e \in S
    PROVE  /\ Queued(q, e) \in Seq(S) /\ Queued(q, e) # <<>>
           /\ Queued(q, e)[Len(Queued(q, e))] = e
           /\ TakenFrom(Queued(q, e), q, e)
<1>1. PICK n \in Nat : n = Len(q)
  OBVIOUS
<1>2. PICK t \in Seq(S) : t = Append(q, e) /\ Len(t) = n + 1 /\ t[n + 1] = e
                          /\ \A i \in 1..n : t[i] = q[i]
  <2>1. /\ Append(q, e) \in Seq(S) /\ Len(Append(q, e)) = Len(q) + 1
        /\ Append(q, e)[Len(q) + 1] = e /\ \A i \in 1..Len(q) : Append(q, e)[i] = q[i]
    BY AppendProperties
  <2>. QED BY <1>1, <2>1
<1>3. PICK m \in Nat : /\ m = IF n + 1 > QuoteQueueMax THEN n + 1 - QuoteQueueMax + 1 ELSE 1
                       /\ 1 <= m /\ m <= n + 1
  <2>1. PICK room \in Int : room = QuoteQueueMax /\ 1 <= room
    BY QuotesAssumption
  <2>2. PICK b : b = IF n + 1 > room THEN n + 1 - room + 1 ELSE 1
    OBVIOUS
  <2>3. b \in Nat /\ 1 <= b /\ b <= n + 1
    BY <2>1, <2>2
  <2>. QED BY <2>1, <2>2, <2>3
<1>4. \A i \in 1..(n + 1) : t[i] \in S
  BY <1>2, ElementOfSeq
<1>5. PICK u : u = SubSeq(t, m, n + 1)
  OBVIOUS
<1>6. /\ u \in Seq(S) /\ Len(u) = n + 1 - m + 1
      /\ \A i \in 1..(n + 1 - m + 1) : u[i] = t[m + i - 1]
  <2>1. \A i \in m..(n + 1) : t[i] \in S
    BY <1>3, <1>4
  <2>. QED BY <1>3, <1>5, <2>1, SubSeqProperties, SMTT(30)
<1>7. Queued(q, e) = u
  <2>1. Queued(q, e) = SubSeq(t, IF Len(t) > QuoteQueueMax THEN Len(t) - QuoteQueueMax + 1 ELSE 1,
                              Len(t))
    BY <1>2 DEF Queued, Newest
  <2>2. Len(t) = n + 1 /\ QuoteQueueMax \in Int
    BY <1>2, QuotesAssumption
  <2>3. (IF Len(t) > QuoteQueueMax THEN Len(t) - QuoteQueueMax + 1 ELSE 1) = m
    BY <1>3, <2>2
  <2>. QED BY <1>5, <2>1, <2>2, <2>3
<1>8. PICK k \in Nat : k = n + 1 - m + 1 /\ k >= 1 /\ m + k - 1 = n + 1
  BY <1>3
<1>9. u # <<>> /\ u[Len(u)] = e
  <2>1. k \in 1..k /\ Len(u) = k /\ u[k] = t[m + k - 1]
    BY <1>6, <1>8
  <2>. QED BY <1>2, <1>8, <2>1
<1>10. ASSUME NEW i \in 1..Len(u) PROVE u[i] = e \/ \E j \in 1..n : u[i] = q[j]
  <2>1. PICK j \in Int : j = m + i - 1 /\ i \in 1..k
    BY <1>6, <1>8
  <2>2. u[i] = t[j]
    BY <1>6, <1>8, <2>1
  <2>4. i \in Int /\ 1 <= i /\ i <= k
    BY <1>8, <2>1
  <2>5. 1 <= j /\ j <= n + 1
    <3>1. 1 <= m /\ k = n + 1 - m + 1 /\ j = m + i - 1
      BY <1>3, <1>8, <2>1
    <3>. QED BY <2>4, <3>1
  <2>3. j \in 1..n \/ j = n + 1
    BY <2>5
  <2>. QED BY <1>2, <2>2, <2>3
<1>. QED BY <1>1, <1>6, <1>7, <1>9, <1>10 DEF TakenFrom

LEMMA ReplayKeeps ==
    ASSUME QuotesInv, NEW w \in Watchers, Replay(w)
    PROVE  QuotesInv'
<1>1. PICK c : c = Head(todo[w])
  OBVIOUS
<1>0. /\ place[w] \in {"returned", "replaying"} /\ todo' = [todo EXCEPT ![w] = Tail(@)]
      /\ UNCHANGED <<subs, lines, session, closedDown, attached, since, queue>>
  BY Zenon DEF Replay
<1>2. todo[w] \in Seq(Conids) /\ todo[w] # <<>> /\ c \in Conids
  BY <1>0, <1>1 DEF QuotesInv, QuoteShapes, OneQualifies
<1>3. PICK x : last' = [last EXCEPT ![w][c] = x]
  BY <1>1 DEF Replay
<1>4. PICK stop \in {"live", "replaying"} :
         place' = [place EXCEPT ![w] = stop] /\ (stop = "replaying" => Tail(todo[w]) # <<>>)
  <2>1. Len(todo[w]) # 1 => Tail(todo[w]) # <<>>
    <3>0. Len(Tail(todo[w])) = Len(todo[w]) - 1 /\ Len(todo[w]) \in Nat
      BY <1>2, HeadTailProperties
    <3>1. PICK rest : rest = Tail(todo[w])
      OBVIOUS
    <3>2. rest = <<>> => Len(rest) = 0
      OBVIOUS
    <3>. QED BY <3>0, <3>1, <3>2
  <2>. QED BY <2>1 DEF Replay
<1>5. /\ todo' = [todo EXCEPT ![w] = Tail(@)] /\ Tail(todo[w]) \in Seq(Conids)
      /\ UNCHANGED <<subs, lines, session, closedDown, attached, since, queue>>
      /\ place[w] \in {"returned", "replaying"}
  BY <1>0, <1>2
<1>6. \A v \in Watchers : v # w => place'[v] = place[v] /\ todo'[v] = todo[v] /\ last'[v] = last[v]
  BY <1>3, <1>4, <1>5 DEF QuotesInv, QuoteShapes
<1>7. place'[w] = stop /\ todo'[w] = Tail(todo[w])
  BY <1>4, <1>5 DEF QuotesInv, QuoteShapes
<1>8. QuoteShapes'
  <2>1. last' = [v \in Watchers |-> [d \in Conids |-> last'[v][d]]]
    BY <1>2, <1>3 DEF QuotesInv, QuoteShapes
  <2>. QED BY <1>4, <1>5, <2>1 DEF QuotesInv, QuoteShapes, Places
<1>9. OneQualifies'
  BY <1>4, <1>5, <1>6, <1>7 DEF QuotesInv, OneQualifies
<1>10. ConsumersAreAttached'
  BY <1>5 DEF QuotesInv, ConsumersAreAttached, Watched, Registered
<1>11. ASSUME ~closedDown', NEW v \in Watchers, NEW d \in Conids, Watched(v)' = {d}
       PROVE  Abreast(v, d)'
  <2>1. Abreast(v, d)
    BY <1>5, <1>11 DEF QuotesInv, QueuesAreAbreast, Watched
  <2>2. CASE v = w
    BY <1>5, <2>1, <2>2 DEF Abreast
  <2>3. CASE v # w
    BY <1>5, <1>6, <2>1, <2>3 DEF Abreast
  <2>. QED BY <2>2, <2>3
<1>12. QueuesAreAbreast'
  BY <1>5, <1>11 DEF QuotesInv, QueuesAreAbreast, Watched
<1>. QED BY <1>8, <1>9, <1>10, <1>12 DEF QuotesInv

LEMMA SendKeeps ==
    ASSUME QuotesInv, NEW w \in Watchers, SendQuote(w)
    PROVE  QuotesInv'
<1>1. PICK q \in Seq(WatcherEvents \cup {Sentinel}) : q = queue[w] /\ q # <<>>
  BY DEF SendQuote, QuotesInv, QuoteShapes
<1>2. PICK e : e = Head(q) /\ e = q[1]
  BY <1>1
<1>3. PICK n \in Nat : n = Len(q) /\ n >= 1
  BY <1>1
<1>4. PICK t \in Seq(WatcherEvents \cup {Sentinel}) :
         t = Tail(q) /\ Len(t) = n - 1 /\ \A i \in 1..(n - 1) : t[i] = q[i + 1]
  <2>1. /\ Tail(q) \in Seq(WatcherEvents \cup {Sentinel}) /\ Len(Tail(q)) = Len(q) - 1
        /\ \A i \in 1..Len(Tail(q)) : Tail(q)[i] = q[i + 1]
    BY <1>1, HeadTailProperties
  <2>. QED BY <1>3, <2>1
<1>5. /\ queue' = [queue EXCEPT ![w] = t]
      /\ UNCHANGED <<subs, lines, session, closedDown, todo, attached, since>>
      /\ place[w] = "live"
      /\ IF e = Sentinel THEN place' = [place EXCEPT ![w] = "leaving"] /\ last' = last
         ELSE last' = [last EXCEPT ![w][e.conid] = e.id] /\ place' = place
  BY <1>1, <1>2, <1>4 DEF SendQuote
<1>6. e = Sentinel \/ (e \in WatcherEvents /\ e.conid \in Conids)
  <2>1. e \in WatcherEvents \cup {Sentinel}
    BY <1>1, <1>2, <1>3, ElementOfSeq
  <2>. QED BY <2>1, EventsAre
<1>7. \A v \in Watchers : v # w => /\ place'[v] = place[v] /\ last'[v] = last[v]
                                   /\ queue'[v] = queue[v]
  BY <1>5, <1>6 DEF QuotesInv, QuoteShapes
<1>8. queue'[w] = t /\ place'[w] \in {"live", "leaving"}
  BY <1>5 DEF QuotesInv, QuoteShapes
<1>9. QuoteShapes'
  <2>1. last' = [v \in Watchers |-> [d \in Conids |-> last'[v][d]]]
    <3>1. CASE e = Sentinel
      BY <1>5, <3>1 DEF QuotesInv, QuoteShapes
    <3>2. CASE e # Sentinel
      <4>1. PICK c \in Conids : c = e.conid
        BY <1>6, <3>2
      <4>2. last' = [last EXCEPT ![w][c] = e.id]
        BY <1>5, <3>2, <4>1
      <4>. QED BY <4>2 DEF QuotesInv, QuoteShapes
    <3>. QED BY <3>1, <3>2
  <2>2. place' \in [Watchers -> Places] /\ queue' \in [Watchers -> Seq(WatcherEvents \cup {Sentinel})]
    BY <1>5 DEF QuotesInv, QuoteShapes, Places
  <2>. QED BY <1>5, <2>1, <2>2 DEF QuotesInv, QuoteShapes
<1>10. OneQualifies'
  BY <1>5, <1>7, <1>8 DEF QuotesInv, OneQualifies
<1>11. ConsumersAreAttached'
  BY <1>5 DEF QuotesInv, ConsumersAreAttached, Watched, Registered
<1>12. ASSUME ~closedDown', NEW v \in Watchers
       PROVE  /\ \A i \in 1..Len(queue'[v]) :
                    queue'[v][i] \in WatcherEvents /\ queue'[v][i].conid \in Watched(v)'
              /\ \A d \in Conids : Watched(v)' = {d} => Abreast(v, d)'
  <2>0. Watched(v)' = Watched(v)
    BY <1>5 DEF Watched
  <2>1. CASE v # w
    BY <1>5, <1>7, <1>12, <2>0, <2>1 DEF QuotesInv, QueuesAreAbreast, Abreast
  <2>2. CASE v = w
    <3>1. \A i \in 1..n : q[i] \in WatcherEvents /\ q[i].conid \in Watched(w)
      BY <1>1, <1>3, <1>5, <1>12 DEF QuotesInv, QueuesAreAbreast
    <3>2. \A i \in 1..(n - 1) : t[i] \in WatcherEvents /\ t[i].conid \in Watched(w)
      <4>1. \A i \in 1..(n - 1) : i + 1 \in 1..n
        BY <1>3
      <4>. QED BY <1>4, <3>1, <4>1
    <3>3. ASSUME NEW d \in Conids, Watched(w) = {d} PROVE Abreast(w, d)'
      <4>1. q[n].id = subs[d].next - 1
        BY <1>1, <1>3, <1>5, <1>12, <3>3 DEF QuotesInv, QueuesAreAbreast, Abreast
      <4>2. CASE n = 1
        <5>1. e \in WatcherEvents /\ e.conid = d /\ e # Sentinel /\ e.id = subs[d].next - 1
          <6>1. 1 \in 1..n
            BY <1>3
          <6>. QED BY <1>2, <3>1, <3>3, <4>1, <4>2, <6>1, EventsAre
        <5>2. last' = [last EXCEPT ![w][d] = subs[d].next - 1] /\ place' = place
          BY <1>5, <5>1
        <5>3. last'[w][d] = subs[d].next - 1
          BY <5>2 DEF QuotesInv, QuoteShapes
        <5>4. t = <<>>
          BY <1>4, <4>2
        <5>. QED BY <1>5, <1>8, <5>2, <5>3, <5>4 DEF Abreast
      <4>3. CASE n # 1
        <5>1. n - 1 \in 1..(n - 1) /\ n - 1 + 1 = n /\ n - 1 # 0
          BY <1>3, <4>3
        <5>2. t[n - 1] = q[n] /\ Len(t) = n - 1
          BY <1>4, <5>1
        <5>3. t # <<>>
          <6>1. t = <<>> => Len(t) = 0
            OBVIOUS
          <6>. QED BY <5>1, <5>2, <6>1
        <5>. QED BY <1>5, <1>8, <4>1, <5>2, <5>3 DEF Abreast
      <4>. QED BY <4>2, <4>3
    <3>4. Len(queue'[w]) = n - 1
      BY <1>4, <1>8
    <3>. QED BY <1>8, <2>0, <2>2, <3>2, <3>3, <3>4
  <2>. QED BY <2>1, <2>2
<1>. QED BY <1>9, <1>10, <1>11, <1>12 DEF QuotesInv, QueuesAreAbreast

LEMMA DetachKeeps ==
    ASSUME QuotesInv, NEW w \in Watchers, DetachWatcher(w)
    PROVE  QuotesInv'
<1>1. /\ subs' = [c \in Conids |-> IF w \in subs[c].consumers THEN Without(w, subs[c]) ELSE subs[c]]
      /\ lines' = lines \ {c \in Conids : subs[c].consumers = {w}}
      /\ UNCHANGED <<session, closedDown, todo>> /\ place[w] = "leaving"
      /\ place' = [place EXCEPT ![w] = "gone"] /\ attached' = [attached EXCEPT ![w] = <<>>]
      /\ since' = [since EXCEPT ![w] = [c \in Conids |-> 0]]
      /\ queue' = [queue EXCEPT ![w] = <<>>]
      /\ last' = [last EXCEPT ![w] = [c \in Conids |-> Nothing]]
  BY DEF DetachWatcher, Gone
<1>2. ASSUME NEW c \in Conids
      PROVE  /\ subs'[c] = NoSub \/ (/\ subs'[c].consumers # {} /\ subs'[c].next = subs[c].next
                                     /\ subs[c] # NoSub)
             /\ subs'[c] = [consumers |-> subs'[c].consumers, ring |-> subs'[c].ring,
                            next |-> subs'[c].next]
             /\ subs'[c].consumers = subs[c].consumers \ {w}
  <2>1. PICK old : old = subs[c]
    OBVIOUS
  <2>2. PICK cs, r, m : old = [consumers |-> cs, ring |-> r, next |-> m]
    BY <2>1 DEF QuotesInv, QuoteShapes
  <2>3. old.consumers = cs /\ old.next = m /\ (old = NoSub \/ cs # {})
    BY <2>1, <2>2 DEF QuotesInv, QuoteShapes
  <2>4. PICK others : others = cs \ {w}
    OBVIOUS
  <2>5. NoSub = [consumers |-> {}, ring |-> <<>>, next |-> -1]
    BY DEF NoSub
  <2>6. CASE w \in cs /\ others = {}
    <3>1. subs'[c] = NoSub
      BY <1>1, <2>1, <2>3, <2>4, <2>6 DEF Without
    <3>. QED BY <2>1, <2>3, <2>4, <2>5, <2>6, <3>1
  <2>7. CASE w \in cs /\ others # {}
    <3>1. subs'[c] = [old EXCEPT !.consumers = others]
      BY <1>1, <2>1, <2>3, <2>4, <2>7 DEF Without
    <3>2. subs'[c] = [consumers |-> others, ring |-> r, next |-> m]
      BY <2>2, <3>1
    <3>3. subs'[c].consumers = others /\ subs'[c].ring = r /\ subs'[c].next = m
      BY <3>2
    <3>4. old # NoSub
      BY <2>3, <2>5, <2>7
    <3>. QED BY <2>1, <2>3, <2>4, <2>7, <3>2, <3>3, <3>4
  <2>8. CASE w \notin cs
    <3>1. subs'[c] = old /\ others = cs
      BY <1>1, <2>1, <2>3, <2>4, <2>8
    <3>. QED BY <2>1, <2>2, <2>3, <2>4, <3>1
  <2>. QED BY <2>6, <2>7, <2>8
<1>3. \A v \in Watchers : v # w => /\ place'[v] = place[v] /\ attached'[v] = attached[v]
                                   /\ since'[v] = since[v] /\ queue'[v] = queue[v]
                                   /\ last'[v] = last[v]
  BY <1>1 DEF QuotesInv, QuoteShapes
<1>4. place'[w] = "gone" /\ attached'[w] = <<>> /\ queue'[w] = <<>>
  BY <1>1 DEF QuotesInv, QuoteShapes
<1>5. QuoteShapes'
  <2>1. ASSUME NEW c \in Conids
        PROVE  /\ subs'[c].consumers \subseteq Watchers
               /\ subs'[c] = NoSub \/ (subs'[c].consumers # {} /\ subs'[c].next \in Nat)
    BY <1>2 DEF QuotesInv, QuoteShapes
  <2>2. subs' = [c \in Conids |-> subs'[c]] /\ lines' \subseteq Conids
    BY <1>1 DEF QuotesInv, QuoteShapes
  <2>3. /\ place' \in [Watchers -> Places] /\ attached' \in [Watchers -> Seq(Conids)]
        /\ since' \in [Watchers -> [Conids -> Int]] /\ todo' \in [Watchers -> Seq(Conids)]
        /\ queue' \in [Watchers -> Seq(WatcherEvents \cup {Sentinel})]
    BY <1>1 DEF QuotesInv, QuoteShapes, Places
  <2>4. last' = [v \in Watchers |-> [d \in Conids |-> last'[v][d]]]
    BY <1>1 DEF QuotesInv, QuoteShapes
  <2>. QED BY <1>2, <2>1, <2>2, <2>3, <2>4 DEF QuoteShapes
<1>6. OneQualifies'
  <2>1. \A v \in Watchers : place'[v] # "qualifying"
    BY <1>3, <1>4 DEF DetachWatcher, LockFree
  <2>. QED BY <1>1, <1>3, <1>4, <2>1 DEF QuotesInv, OneQualifies
<1>7. Watched(w)' = {} /\ \A v \in Watchers : v # w => Watched(v)' = Watched(v)
  BY <1>3, <1>4 DEF Watched, Members
<1>8. ConsumersAreAttached'
  <2>1. Registered' = Registered \ {c \in Conids : subs[c].consumers = {w}}
    <3>1. ASSUME NEW c \in Conids
          PROVE  subs'[c] # NoSub <=> subs[c] # NoSub /\ subs[c].consumers # {w}
      <4>1. NoSub.consumers = {}
        BY DEF NoSub
      <4>2. subs[c] # NoSub <=> subs[c].consumers # {}
        BY <4>1 DEF QuotesInv, QuoteShapes
      <4>3. subs'[c] # NoSub <=> subs[c].consumers \ {w} # {}
        BY <1>2, <4>1
      <4>. QED BY <4>2, <4>3
    <3>. QED BY <3>1 DEF Registered
  <2>2. IF session' = "first" THEN lines' = Registered' ELSE lines' \subseteq Registered'
    BY <1>1, <2>1 DEF QuotesInv, ConsumersAreAttached
  <2>3. ASSUME NEW v \in Watchers, NEW c \in Conids, v \in subs'[c].consumers
        PROVE  c \in Watched(v)'
    <3>1. v # w /\ v \in subs[c].consumers
      BY <1>2, <2>3
    <3>. QED BY <1>7, <3>1 DEF QuotesInv, ConsumersAreAttached
  <2>4. ASSUME ~closedDown', NEW v \in Watchers, NEW c \in Watched(v)'
        PROVE  v \in subs'[c].consumers
    <3>1. v # w /\ c \in Watched(v) /\ v \in subs[c].consumers
      BY <1>1, <1>7, <2>4 DEF QuotesInv, ConsumersAreAttached
    <3>2. Watched(v) \subseteq Conids
      BY ElementOfSeq, SMTT(30) DEF Watched, Members, QuotesInv, QuoteShapes
    <3>. QED BY <1>2, <3>1, <3>2
  <2>. QED BY <2>2, <2>3, <2>4 DEF ConsumersAreAttached
<1>9. ASSUME ~closedDown', NEW v \in Watchers
      PROVE  /\ \A i \in 1..Len(queue'[v]) :
                   queue'[v][i] \in WatcherEvents /\ queue'[v][i].conid \in Watched(v)'
             /\ \A c \in Conids : Watched(v)' = {c} => Abreast(v, c)'
  <2>1. CASE v = w
    <3>1. 1..Len(queue'[w]) = {}
      BY <1>4
    <3>. QED BY <1>7, <2>1, <3>1
  <2>2. CASE v # w
    <3>1. ASSUME NEW c \in Conids, Watched(v) = {c} PROVE Abreast(v, c)'
      <4>1. v \in subs[c].consumers /\ Abreast(v, c)
        BY <1>1, <1>9, <3>1 DEF QuotesInv, ConsumersAreAttached, QueuesAreAbreast
      <4>2. v \in subs'[c].consumers
        BY <1>2, <2>2, <4>1
      <4>3. subs'[c].next = subs[c].next
        <5>1. NoSub.consumers = {}
          BY DEF NoSub
        <5>. QED BY <1>2, <4>2, <5>1
      <4>. QED BY <1>3, <2>2, <4>1, <4>3 DEF Abreast
    <3>. QED BY <1>1, <1>3, <1>7, <1>9, <2>2, <3>1 DEF QuotesInv, QueuesAreAbreast
  <2>. QED BY <2>1, <2>2
<1>. QED BY <1>5, <1>6, <1>8, <1>9 DEF QuotesInv, QueuesAreAbreast

\* What TickerUpdates does to the object of its conid and to the queues.
LEMMA TickerPushes ==
    ASSUME QuotesInv, NEW c \in Conids, NEW tick \in Tickers, TickerUpdates(c, tick)
    PROVE  LET e == Event(c, subs[c].next, tick) IN
           /\ subs[c] # NoSub /\ subs[c].next \in Nat /\ subs[c].next < MaxQuotes
           /\ subs'[c] = [consumers |-> subs[c].consumers,
                          ring |-> Newest(Append(subs[c].ring, e), RingSize),
                          next |-> subs[c].next + 1]
           /\ \A d \in Conids : d # c => subs'[d] = subs[d]
           /\ subs' = [d \in Conids |-> subs'[d]]
           /\ queue' = [w \in Watchers |-> IF w \in subs[c].consumers
                                           THEN Queued(queue[w], e) ELSE queue[w]]
           /\ UNCHANGED <<lines, session, closedDown, place, todo, attached, since, last>>
<1>1. PICK e : e = Event(c, subs[c].next, tick)
  OBVIOUS
<1>2. PICK old : old = subs[c]
  OBVIOUS
<1>3. /\ old # NoSub /\ old.next \in Nat /\ old.next < MaxQuotes
      /\ old = [consumers |-> old.consumers, ring |-> old.ring, next |-> old.next]
  BY <1>2 DEF TickerUpdates, Registered, QuotesInv, QuoteShapes
<1>4. /\ queue' = [w \in Watchers |-> IF w \in old.consumers THEN Queued(queue[w], e) ELSE queue[w]]
      /\ UNCHANGED <<lines, session, closedDown, place, todo, attached, since, last>>
      /\ subs' = [subs EXCEPT ![c].next = @ + 1, ![c].ring = Newest(Append(@, e), RingSize)]
  BY <1>1, <1>2 DEF TickerUpdates, Pushed
<1>5. subs'[c] = [consumers |-> old.consumers, ring |-> Newest(Append(old.ring, e), RingSize),
                  next |-> old.next + 1]
  <2>1. PICK new : new = subs'[c]
    OBVIOUS
  <2>2. PICK cs, r, m : old = [consumers |-> cs, ring |-> r, next |-> m]
    BY <1>3
  <2>3. old.consumers = cs /\ old.next = m /\ old.ring = r
    BY <2>2
  <2>4. PICK ring, n : ring = Newest(Append(r, e), RingSize) /\ n = m + 1
    OBVIOUS
  <2>5. subs' = [subs EXCEPT ![c].next = n, ![c].ring = ring]
    BY <1>2, <1>4, <2>3, <2>4
  <2>6. /\ new.consumers = cs /\ new.next = n /\ new.ring = ring
        /\ DOMAIN new = {"consumers", "ring", "next"} /\ new = [f \in DOMAIN new |-> new[f]]
    <3>1. PICK mid : mid = [subs EXCEPT ![c].next = n]
      OBVIOUS
    <3>2. mid[c] = [old EXCEPT !.next = n] /\ c \in DOMAIN mid
      BY <1>2, <3>1 DEF QuotesInv, QuoteShapes
    <3>3. mid[c] = [consumers |-> cs, ring |-> r, next |-> n]
      BY <2>2, <3>2
    <3>4. subs' = [mid EXCEPT ![c].ring = ring]
      BY <2>5, <3>1
    <3>5. new = [mid[c] EXCEPT !.ring = ring]
      BY <2>1, <3>2, <3>4
    <3>. QED BY <3>3, <3>5
  <2>7. new = [consumers |-> cs, ring |-> ring, next |-> n]
    BY <2>6
  <2>. QED BY <2>1, <2>3, <2>4, <2>7
<1>6. /\ \A d \in Conids : d # c => subs'[d] = subs[d]
      /\ subs' = [d \in Conids |-> subs'[d]]
  BY <1>4 DEF QuotesInv, QuoteShapes
<1>. QED BY <1>1, <1>2, <1>3, <1>4, <1>5, <1>6

LEMMA TickerKeeps ==
    ASSUME QuotesInv, NEW c \in Conids, NEW tick \in Tickers, TickerUpdates(c, tick)
    PROVE  QuotesInv'
<1>1. PICK e, old : e = Event(c, old.next, tick) /\ old = subs[c]
  OBVIOUS
<1>2. PICK ring : ring = Newest(Append(old.ring, e), RingSize)
  OBVIOUS
<1>3. /\ old # NoSub /\ old.next \in Nat
      /\ old = [consumers |-> old.consumers, ring |-> old.ring, next |-> old.next]
      /\ old.consumers # {} /\ old.consumers \subseteq Watchers
  BY <1>1, TickerPushes DEF QuotesInv, QuoteShapes
<1>4. e \in WatcherEvents /\ e.conid = c /\ e.id = old.next
  BY <1>1, <1>3 DEF WatcherEvents, Event
<1>5. /\ queue' = [w \in Watchers |-> IF w \in old.consumers THEN Queued(queue[w], e) ELSE queue[w]]
      /\ UNCHANGED <<lines, session, closedDown, place, todo, attached, since, last>>
  <2>1. queue' = [w \in Watchers |-> IF w \in subs[c].consumers
                                     THEN Queued(queue[w], Event(c, subs[c].next, tick))
                                     ELSE queue[w]]
    BY TickerPushes, Zenon
  <2>2. UNCHANGED <<lines, session, closedDown, place, todo, attached, since, last>>
    BY TickerPushes, Zenon
  <2>. QED BY <1>1, <2>1, <2>2
<1>6. subs'[c] = [consumers |-> old.consumers, ring |-> ring, next |-> old.next + 1]
  BY <1>1, <1>2, TickerPushes
<1>7. /\ \A d \in Conids : d # c => subs'[d] = subs[d]
      /\ subs' = [d \in Conids |-> subs'[d]]
  BY TickerPushes
<1>8. subs'[c].consumers = old.consumers /\ subs'[c].next = old.next + 1 /\ subs'[c].ring = ring
  BY <1>6
<1>9. \A d \in Conids : subs'[d].consumers = subs[d].consumers
  BY <1>1, <1>7, <1>8
<1>10. subs'[c] # NoSub
  <2>1. NoSub.consumers = {}
    BY DEF NoSub
  <2>. QED BY <1>3, <1>8, <2>1
<1>11. QuoteShapes'
  <2>1. ASSUME NEW d \in Conids
        PROVE  /\ subs'[d] = [consumers |-> subs'[d].consumers, ring |-> subs'[d].ring,
                              next |-> subs'[d].next]
               /\ subs'[d].consumers \subseteq Watchers
               /\ subs'[d] = NoSub \/ (subs'[d].consumers # {} /\ subs'[d].next \in Nat)
    <3>1. CASE d = c
      <4>1. old.next + 1 \in Nat
        BY <1>3
      <4>. QED BY <1>3, <1>6, <1>8, <3>1, <4>1
    <3>2. CASE d # c
      BY <1>7, <3>2 DEF QuotesInv, QuoteShapes
    <3>. QED BY <3>1, <3>2
  <2>2. ASSUME NEW w \in Watchers PROVE queue'[w] \in Seq(WatcherEvents \cup {Sentinel})
    <3>1. queue[w] \in Seq(WatcherEvents \cup {Sentinel}) /\ e \in WatcherEvents \cup {Sentinel}
      BY <1>4 DEF QuotesInv, QuoteShapes
    <3>2. Queued(queue[w], e) \in Seq(WatcherEvents \cup {Sentinel})
      BY <3>1, QueuedTakes
    <3>. QED BY <1>5, <3>1, <3>2
  <2>3. queue' \in [Watchers -> Seq(WatcherEvents \cup {Sentinel})]
    BY <1>5, <2>2
  <2>4. /\ lines' \subseteq Conids /\ place' \in [Watchers -> Places]
        /\ todo' \in [Watchers -> Seq(Conids)] /\ attached' \in [Watchers -> Seq(Conids)]
        /\ since' \in [Watchers -> [Conids -> Int]]
        /\ last' = [w \in Watchers |-> [d \in Conids |-> last'[w][d]]]
    BY <1>5 DEF QuotesInv, QuoteShapes
  <2>. QED BY <1>7, <2>1, <2>3, <2>4 DEF QuoteShapes
<1>12. OneQualifies'
  <2>1. ASSUME NEW w \in Watchers, place[w] = "qualifying" PROVE subs'[Head(todo[w])] = NoSub
    <3>1. subs[Head(todo[w])] = NoSub /\ todo[w] \in Seq(Conids) /\ todo[w] # <<>>
      BY <2>1 DEF QuotesInv, QuoteShapes, OneQualifies
    <3>2. Head(todo[w]) \in Conids /\ Head(todo[w]) # c
      BY <1>1, <1>3, <3>1
    <3>. QED BY <1>7, <3>1, <3>2
  <2>. QED BY <1>5, <2>1 DEF QuotesInv, OneQualifies
<1>13. \A w \in Watchers : Watched(w)' = Watched(w)
  BY <1>5 DEF Watched
<1>14. ConsumersAreAttached'
  <2>1. Registered' = Registered
    BY <1>1, <1>3, <1>7, <1>10 DEF Registered
  <2>2. \A w \in Watchers : Watched(w) \subseteq Conids
    BY ElementOfSeq DEF Watched, Members, QuotesInv, QuoteShapes
  <2>. QED BY <1>5, <1>9, <1>13, <2>1, <2>2 DEF QuotesInv, ConsumersAreAttached
<1>15. ASSUME ~closedDown', NEW w \in Watchers
       PROVE  /\ \A i \in 1..Len(queue'[w]) :
                    queue'[w][i] \in WatcherEvents /\ queue'[w][i].conid \in Watched(w)'
              /\ \A d \in Conids : Watched(w)' = {d} => Abreast(w, d)'
  <2>1. /\ \A i \in 1..Len(queue[w]) :
              queue[w][i] \in WatcherEvents /\ queue[w][i].conid \in Watched(w)
        /\ \A d \in Conids : Watched(w) = {d} => Abreast(w, d)
        /\ c \in Watched(w) <=> w \in old.consumers
    BY <1>1, <1>5, <1>15 DEF QuotesInv, QueuesAreAbreast, ConsumersAreAttached
  <2>2. CASE w \notin old.consumers
    <3>1. queue'[w] = queue[w] /\ c \notin Watched(w)
      BY <1>5, <2>1, <2>2
    <3>2. ASSUME NEW d \in Conids, Watched(w) = {d} PROVE Abreast(w, d)'
      <4>1. subs'[d] = subs[d]
        BY <1>7, <3>1, <3>2
      <4>. QED BY <1>5, <2>1, <3>1, <3>2, <4>1 DEF Abreast
    <3>. QED BY <1>13, <2>1, <3>1, <3>2
  <2>3. CASE w \in old.consumers
    <3>1. PICK t : t = Queued(queue[w], e) /\ queue'[w] = t
      BY <1>5, <2>3
    <3>2. /\ t # <<>> /\ t[Len(t)] = e
          /\ \A i \in 1..Len(t) : t[i] = e \/ \E j \in 1..Len(queue[w]) : t[i] = queue[w][j]
      <4>1. PICK S : S = WatcherEvents \cup {Sentinel}
        OBVIOUS
      <4>2. PICK q \in Seq(S) : q = queue[w]
        BY <4>1 DEF QuotesInv, QuoteShapes
      <4>3. e \in S /\ t = Queued(q, e)
        BY <1>4, <3>1, <4>1, <4>2
      <4>4. Queued(q, e) # <<>> /\ Queued(q, e)[Len(Queued(q, e))] = e
        BY <4>3, QueuedTakes
      <4>5. TakenFrom(Queued(q, e), q, e)
        BY <4>3, QueuedTakes
      <4>. QED BY <4>2, <4>3, <4>4, <4>5 DEF TakenFrom
    <3>3. ASSUME NEW d \in Conids, Watched(w) = {d} PROVE Abreast(w, d)'
      <4>1. d = c
        BY <2>1, <2>3, <3>3
      <4>2. t[Len(t)].id = subs'[d].next - 1
        BY <1>3, <1>4, <1>8, <3>2, <4>1
      <4>. QED BY <3>1, <3>2, <4>2 DEF Abreast
    <3>4. \A i \in 1..Len(t) : t[i] \in WatcherEvents /\ t[i].conid \in Watched(w)
      BY <1>4, <2>1, <2>3, <3>2
    <3>. QED BY <1>13, <3>1, <3>3, <3>4
  <2>. QED BY <2>2, <2>3
<1>. QED BY <1>11, <1>12, <1>14, <1>15 DEF QuotesInv, QueuesAreAbreast

LEMMA QuotesInductive == QuotesSpec => []QuotesInv
<1>1. QuotesInit => QuotesInv
  <2>. SUFFICES ASSUME QuotesInit PROVE QuotesInv
    OBVIOUS
  <2>1. \A c \in Conids : subs[c] = NoSub
    BY DEF QuotesInit
  <2>2. NoSub = [consumers |-> {}, ring |-> <<>>, next |-> -1] /\ NoSub.consumers = {}
        /\ NoSub.ring = <<>> /\ NoSub.next = -1
    BY DEF NoSub
  <2>3. Registered = {} /\ \A w \in Watchers : Watched(w) = {}
    BY <2>1 DEF QuotesInit, Registered, Watched, Members
  <2>4. QuoteShapes
    BY <2>1, <2>2 DEF QuotesInit, QuoteShapes, Places
  <2>5. OneQualifies /\ ConsumersAreAttached
    BY <2>1, <2>2, <2>3 DEF QuotesInit, OneQualifies, ConsumersAreAttached
  <2>6. QueuesAreAbreast
    <3>1. \A w \in Watchers : 1..Len(queue[w]) = {}
      BY DEF QuotesInit
    <3>. QED BY <2>3, <3>1 DEF QueuesAreAbreast
  <2>. QED BY <2>4, <2>5, <2>6 DEF QuotesInv
<1>2. ASSUME QuotesInv, NEW w \in Watchers, WatcherStep(w) PROVE QuotesInv'
  <2>1. todo[w] \in Seq(Conids) /\ todo \in [Watchers -> Seq(Conids)]
    BY <1>2 DEF QuotesInv, QuoteShapes
  <2>2. CASE Subscribe(w)
    <3>1. PICK there \in {"waiting", "gone", "leaving"} : place' = [place EXCEPT ![w] = there]
      BY <2>2 DEF Subscribe
    <3>2. \E rest \in Seq(Conids) : todo' = todo \/ todo' = [todo EXCEPT ![w] = rest]
      BY <2>1, <2>2, WishesAreConids DEF Subscribe
    <3>3. todo' \in [Watchers -> Seq(Conids)] /\ \A v \in Watchers : v # w => todo'[v] = todo[v]
      BY <2>1, <3>2
    <3>4. place[w] = "new" /\ UNCHANGED <<subs, lines, session, closedDown, attached, since, queue, last>>
      BY <2>2 DEF Subscribe
    <3>. QED BY <1>2, <3>1, <3>3, <3>4, PlacesMove
  <2>3. CASE EnterSubscribe(w)
    <3>1. \A v \in Watchers : place[v] # "qualifying"
      BY <2>3 DEF EnterSubscribe, LockFree
    <3>2. /\ place[w] = "waiting" /\ Proceed(w, subs, todo[w]) /\ lines' = lines \cup {}
          /\ UNCHANGED <<session, closedDown, queue, last>>
      BY <2>3 DEF EnterSubscribe
    <3>3. PICK objects : objects = subs
      OBVIOUS
    <3>6. PICK rest \in Seq(Conids) : rest = todo[w]
      BY <2>1
    <3>4. PICK fresh \in SUBSET Conids : fresh = {}
      OBVIOUS
    <3>5. /\ \A c \in Conids \ fresh : objects[c] = subs[c]
          /\ \A c \in fresh : /\ objects[c] = [NoSub EXCEPT !.next = 0] /\ subs[c] = NoSub
                              /\ rest # <<>> /\ Head(rest) = c
          /\ lines' = lines \cup fresh /\ Proceed(w, objects, rest)
          /\ place[w] \in {"waiting", "qualifying"}
      BY <3>2, <3>3, <3>6, <3>4
    <3>. QED BY <1>2, <3>1, <3>2, <3>5, ProceedKeeps
  <2>4. CASE Qualified(w) \/ NotQualified(w)
    <3>1. /\ place[w] = "qualifying" /\ \A v \in Watchers : place[v] = "qualifying" => v = w
          /\ todo[w] # <<>> /\ subs[Head(todo[w])] = NoSub
      BY <1>2, <2>4 DEF Qualified, NotQualified, QuotesInv, OneQualifies
    <3>2. Head(todo[w]) \in Conids /\ Tail(todo[w]) \in Seq(Conids)
      BY <2>1, <3>1, HeadTailProperties
    <3>3. CASE Qualified(w)
      <4>1. PICK c \in Conids : c = Head(todo[w])
        BY <3>2
      <4>2. PICK objects : objects = [subs EXCEPT ![c] = [NoSub EXCEPT !.next = 0]]
        OBVIOUS
      <4>3. /\ lines' = lines \cup {c} /\ Proceed(w, objects, todo[w])
            /\ UNCHANGED <<session, closedDown, queue, last>>
        BY <3>3, <4>1, <4>2 DEF Qualified
      <4>4. /\ objects[c] = [NoSub EXCEPT !.next = 0]
            /\ \A d \in Conids \ {c} : objects[d] = subs[d]
        BY <1>2, <4>2 DEF QuotesInv, QuoteShapes
      <4>5. {c} \in SUBSET Conids /\ place[w] \in {"waiting", "qualifying"}
            /\ \A d \in {c} : /\ objects[d] = [NoSub EXCEPT !.next = 0] /\ subs[d] = NoSub
                              /\ todo[w] # <<>> /\ Head(todo[w]) = d
        BY <3>1, <4>1, <4>4
      <4>6. PICK rest \in Seq(Conids), fresh \in SUBSET Conids : rest = todo[w] /\ fresh = {c}
        BY <2>1, <4>5
      <4>7. /\ \A d \in Conids \ fresh : objects[d] = subs[d]
            /\ \A d \in fresh : /\ objects[d] = [NoSub EXCEPT !.next = 0] /\ subs[d] = NoSub
                                /\ rest # <<>> /\ Head(rest) = d
            /\ lines' = lines \cup fresh /\ Proceed(w, objects, rest)
        BY <4>3, <4>4, <4>5, <4>6
      <4>. QED BY <1>2, <3>1, <4>3, <4>5, <4>7, ProceedKeeps
    <3>4. CASE NotQualified(w)
      <4>1. /\ Proceed(w, subs, Tail(todo[w])) /\ lines' = lines \cup {}
            /\ UNCHANGED <<session, closedDown, queue, last>>
        BY <3>4 DEF NotQualified
      <4>2. PICK objects : objects = subs
        OBVIOUS
      <4>5. PICK rest \in Seq(Conids) : rest = Tail(todo[w])
        BY <3>2
      <4>3. PICK fresh \in SUBSET Conids : fresh = {}
        OBVIOUS
      <4>4. /\ \A c \in Conids \ fresh : objects[c] = subs[c]
            /\ \A c \in fresh : /\ objects[c] = [NoSub EXCEPT !.next = 0] /\ subs[c] = NoSub
                                /\ rest # <<>> /\ Head(rest) = c
            /\ lines' = lines \cup fresh /\ Proceed(w, objects, rest)
            /\ place[w] \in {"waiting", "qualifying"}
        BY <3>1, <4>1, <4>2, <4>5, <4>3
      <4>. QED BY <1>2, <3>1, <4>1, <4>4, ProceedKeeps
    <3>. QED BY <2>4, <3>3, <3>4
  <2>5. CASE Replay(w)
    BY <1>2, <2>5, ReplayKeeps
  <2>6. CASE AbandonStream(w) \/ CloseStream(w)
    <3>1. PICK there \in {"waiting", "gone", "leaving"} :
             place' = [place EXCEPT ![w] = there] /\ there \in {"gone", "leaving"}
      BY <2>6 DEF AbandonStream, CloseStream
    <3>2. todo' \in [Watchers -> Seq(Conids)] /\ \A v \in Watchers : v # w => todo'[v] = todo[v]
      <4>1. <<>> \in Seq(Conids)
        OBVIOUS
      <4>. QED BY <2>1, <2>6, <4>1 DEF AbandonStream, CloseStream
    <3>3. UNCHANGED <<subs, lines, session, closedDown, attached, since, queue, last>>
      BY <2>6 DEF AbandonStream, CloseStream
    <3>. QED BY <1>2, <3>1, <3>2, <3>3, PlacesMove
  <2>7. CASE SendQuote(w)
    BY <1>2, <2>7, SendKeeps
  <2>8. CASE DetachWatcher(w)
    BY <1>2, <2>8, DetachKeeps
  <2>. QED BY <1>2, <2>2, <2>3, <2>4, <2>5, <2>6, <2>7, <2>8 DEF WatcherStep
<1>3. ASSUME QuotesInv, NEW c \in Conids, NEW t \in Tickers, TickerUpdates(c, t) PROVE QuotesInv'
  BY <1>3, TickerKeeps
<1>4. ASSUME QuotesInv, SessionDrops \/ SessionReturns \/ UNCHANGED quoteVars PROVE QuotesInv'
  <2>1. UNCHANGED <<subs, closedDown, place, todo, attached, since, queue, last>>
    BY <1>4 DEF SessionDrops, SessionReturns, watcherVars, quoteVars
  <2>2. lines' \subseteq Conids
    BY <1>4 DEF SessionDrops, SessionReturns, quoteVars, QuotesInv, QuoteShapes
  <2>3. ConsumersAreAttached'
    <3>1. Registered' = Registered /\ \A w \in Watchers : Watched(w)' = Watched(w)
      BY <2>1 DEF Registered, Watched
    <3>2. IF session' = "first" THEN lines' = Registered ELSE lines' \subseteq Registered
      BY <1>4 DEF SessionDrops, SessionReturns, quoteVars, QuotesInv, ConsumersAreAttached
    <3>. QED BY <1>4, <2>1, <3>1, <3>2 DEF QuotesInv, ConsumersAreAttached
  <2>4. QuoteShapes'
    BY <1>4, <2>1, <2>2 DEF QuotesInv, QuoteShapes
  <2>5. OneQualifies'
    BY <1>4, <2>1 DEF QuotesInv, OneQualifies
  <2>6. QueuesAreAbreast'
    BY <1>4, <2>1 DEF QuotesInv, QueuesAreAbreast, Abreast, Watched
  <2>. QED BY <2>3, <2>4, <2>5, <2>6 DEF QuotesInv
<1>5. ASSUME QuotesInv, Shutdown PROVE QuotesInv'
  <2>1. /\ closedDown' = TRUE /\ subs' = [c \in Conids |-> NoSub] /\ lines' = {}
        /\ UNCHANGED <<session, place, todo, attached, since, last>>
        /\ \A w \in Watchers : place[w] # "qualifying"
    BY <1>5 DEF Shutdown, LockFree
  <2>2. NoSub = [consumers |-> {}, ring |-> <<>>, next |-> -1] /\ NoSub.consumers = {}
        /\ NoSub.ring = <<>> /\ NoSub.next = -1
    BY DEF NoSub
  <2>3. queue' \in [Watchers -> Seq(WatcherEvents \cup {Sentinel})]
    <3>1. ASSUME NEW w \in Watchers
          PROVE  /\ queue[w] \in Seq(WatcherEvents \cup {Sentinel})
                 /\ Append(queue[w], Sentinel) \in Seq(WatcherEvents \cup {Sentinel})
      <4>1. queue[w] \in Seq(WatcherEvents \cup {Sentinel})
            /\ Sentinel \in WatcherEvents \cup {Sentinel}
        BY <1>5 DEF QuotesInv, QuoteShapes
      <4>. QED BY <4>1, AppendProperties
    <3>. QED BY <1>5, <3>1 DEF Shutdown
  <2>4. QuoteShapes'
    BY <1>5, <2>1, <2>2, <2>3 DEF QuotesInv, QuoteShapes
  <2>5. OneQualifies'
    BY <1>5, <2>1 DEF QuotesInv, OneQualifies
  <2>6. ConsumersAreAttached'
    <3>1. Registered' = {} /\ \A c \in Conids : subs'[c].consumers = {}
      BY <2>1, <2>2 DEF Registered
    <3>. QED BY <2>1, <3>1 DEF ConsumersAreAttached
  <2>. QED BY <2>1, <2>4, <2>5, <2>6 DEF QuotesInv, QueuesAreAbreast
<1>6. QuotesInv /\ [QuotesNext]_quoteVars => QuotesInv'
  BY <1>2, <1>3, <1>4, <1>5 DEF QuotesNext
<1>. QED BY <1>1, <1>6, PTL DEF QuotesSpec

\* For any consumers, wishes and bounds: lines, objects and consumers stay together, and a
\* watcher that has sent all it was given shows the newest quote.
THEOREM WatchersServed == QuotesSpec => []WatchersAreServed
BY QuotesInductive, InvServes, PTL

\* What the streams and their rings keep within: event ids below the bound, a ring and a
\* queue of limited length.
BoundedEvents == {Event(c, n, t) : c \in Conids, n \in 0..MaxQuotes, t \in Tickers}

QuoteBounds ==
    /\ session \in Sessions /\ closedDown \in BOOLEAN
    /\ \A c \in Conids : /\ subs[c].next \in Int /\ subs[c].next <= MaxQuotes
                         /\ subs[c].ring \in Seq(BoundedEvents)
                         /\ Len(subs[c].ring) <= RingSize
    /\ \A w \in Watchers : /\ queue[w] \in Seq(BoundedEvents \cup {Sentinel})
                           /\ Len(queue[w]) <= QuoteQueueMax
    /\ since \in [Watchers -> [Conids -> 0..MaxQuotes]]
    /\ last \in [Watchers -> [Conids -> -1..MaxQuotes]]

LEMMA BoundedIds ==
    ASSUME NEW e \in BoundedEvents
    PROVE  e.id \in 0..MaxQuotes /\ e.conid \in Conids /\ e # Sentinel
<1>1. PICK c \in Conids, n \in 0..MaxQuotes, t \in Tickers : e = Event(c, n, t)
  BY DEF BoundedEvents
<1>2. e.id = n /\ e.conid = c /\ n # -1
  BY <1>1, QuotesAssumption DEF Event
<1>3. Sentinel.id = -1
  BY DEF Sentinel
<1>. QED BY <1>1, <1>2, <1>3

\* The newest n elements of a sequence are at most n of its elements.
LEMMA NewestIsShort ==
    ASSUME NEW S, NEW s \in Seq(S), NEW max \in Nat \ {0}
    PROVE  Newest(s, max) \in Seq(S) /\ Len(Newest(s, max)) <= max
<1>1. PICK n \in Nat : n = Len(s)
  OBVIOUS
<1>2. PICK m \in Nat : m = (IF n > max THEN n - max + 1 ELSE 1) /\ 1 <= m /\ m <= n + 1
  <2>1. PICK b : b = IF n > max THEN n - max + 1 ELSE 1
    OBVIOUS
  <2>2. b \in Nat /\ 1 <= b /\ b <= n + 1
    BY <2>1
  <2>. QED BY <2>1, <2>2
<1>3. \A i \in m..n : s[i] \in S
  <2>1. \A i \in 1..Len(s) : s[i] \in S
    BY ElementOfSeq
  <2>. QED BY <1>1, <1>2, <2>1
<1>4. PICK u : u = SubSeq(s, m, n)
  OBVIOUS
<1>5. Newest(s, max) = u
  BY <1>1, <1>2, <1>4 DEF Newest
<1>6. u \in Seq(S) /\ Len(u) = IF m <= n THEN n - m + 1 ELSE 0
  BY <1>2, <1>3, <1>4, SubSeqProperties
<1>7. Len(u) <= max
  <2>1. CASE n > max
    <3>1. m = n - max + 1
      BY <1>2, <2>1
    <3>. QED BY <1>6, <3>1
  <2>2. CASE ~(n > max)
    <3>1. m = 1
      BY <1>2, <2>2
    <3>. QED BY <1>6, <2>2, <3>1
  <2>. QED BY <2>1, <2>2
<1>. QED BY <1>5, <1>6, <1>7

\* What a replay sends last is an event of the ring, if it sends any.
LEMMA ReplayedIsRecorded ==
    ASSUME NEW ring \in Seq(BoundedEvents), NEW from \in Int, NEW before \in -1..MaxQuotes
    PROVE  LastSent(ring, from, before) \in -1..MaxQuotes
<1>0. PICK n \in Nat : n = Len(ring) /\ DOMAIN ring = 1..n
  OBVIOUS
<1>1. PICK sent : sent = {i \in 1..n : ring[i].id > from}
  OBVIOUS
<1>2. LastSent(ring, from, before) =
         IF sent = {} THEN before ELSE ring[CHOOSE i \in sent : \A j \in sent : j <= i].id
  BY <1>0, <1>1 DEF LastSent
<1>3. CASE sent = {}
  BY <1>2, <1>3
<1>4. CASE sent # {}
  <2>1. sent \subseteq 1..n
    BY <1>1
  <2>2. PICK back : back = {k \in 0..n : n - k \in sent}
    OBVIOUS
  <2>3. back \in SUBSET Nat
    BY <2>2
  <2>4. back # {}
    <3>1. PICK i \in 1..n : i \in sent
      BY <1>4, <2>1
    <3>2. n - i \in 0..n /\ n - (n - i) = i
      BY <3>1
    <3>. QED BY <2>2, <3>1, <3>2
  <2>5. PICK m : m = Min(back)
    OBVIOUS
  <2>6. m \in back /\ \A k \in back : m <= k
    BY <2>3, <2>4, <2>5, LeastOne
  <2>7. ASSUME NEW j \in sent PROVE j <= n - m
    <3>1. j \in 1..n
      BY <2>1
    <3>2. n - j \in 0..n /\ n - (n - j) = j
      BY <3>1
    <3>3. n - j \in back
      BY <2>2, <3>2
    <3>4. m <= n - j /\ m \in Nat
      BY <2>3, <2>6, <3>3
    <3>. QED BY <3>1, <3>4
  <2>8. n - m \in sent
    BY <2>2, <2>6
  <2>9. (CHOOSE i \in sent : \A j \in sent : j <= i) \in sent
    BY <2>7, <2>8
  <2>10. PICK k \in 1..n : k = CHOOSE i \in sent : \A j \in sent : j <= i
    BY <2>1, <2>9
  <2>11. ring[k] \in BoundedEvents
    BY <1>0, <2>10, ElementOfSeq
  <2>12. ring[k].id \in -1..MaxQuotes
    BY <2>11, BoundedIds, QuotesAssumption
  <2>. QED BY <1>2, <1>4, <2>10, <2>12
<1>. QED BY <1>3, <1>4

\* Attaching to objects within the bounds, and to new ones, stays within them.
LEMMA ProceedIsBounded ==
    ASSUME QuotesInv, QuoteBounds, NEW w \in Watchers, NEW objects, NEW rest \in Seq(Conids),
           \A c \in Conids : objects[c] = subs[c] \/ objects[c] = [NoSub EXCEPT !.next = 0],
           Proceed(w, objects, rest), UNCHANGED <<session, closedDown, queue, last>>
    PROVE  QuoteBounds'
<1>1. PICK joined, all, t, stop : JoinsUpTo(w, objects, rest, joined, all, t, stop)
  BY ProceedJoins DEF QuotesInv, QuoteShapes
<1>2. ASSUME NEW c \in Conids
      PROVE  /\ objects[c] = [consumers |-> objects[c].consumers, ring |-> objects[c].ring,
                              next |-> objects[c].next]
             /\ objects[c].next \in Int /\ objects[c].next <= MaxQuotes
             /\ objects[c].ring \in Seq(BoundedEvents) /\ Len(objects[c].ring) <= RingSize
             /\ objects[c] # NoSub => objects[c].next >= 0
  <2>1. PICK old : old = objects[c]
    OBVIOUS
  <2>2. CASE old = [NoSub EXCEPT !.next = 0]
    <3>1. old = [consumers |-> {}, ring |-> <<>>, next |-> 0]
      BY <2>2 DEF NoSub
    <3>2. old.ring = <<>> /\ old.next = 0 /\ old.consumers = {}
      BY <3>1
    <3>3. ASSUME NEW s, s = <<>> PROVE s \in Seq(BoundedEvents) /\ Len(s) <= RingSize
      BY <3>3, QuotesAssumption
    <3>4. 0 <= MaxQuotes
      BY QuotesAssumption
    <3>5. old = [consumers |-> old.consumers, ring |-> old.ring, next |-> old.next]
      BY <3>1, <3>2
    <3>. QED BY <2>1, <3>2, <3>3, <3>4, <3>5
  <2>3. CASE old = subs[c]
    <3>1. old = [consumers |-> old.consumers, ring |-> old.ring, next |-> old.next]
          /\ (old # NoSub => old.next \in Nat)
      BY <2>3 DEF QuotesInv, QuoteShapes
    <3>2. /\ old.next \in Int /\ old.next <= MaxQuotes
          /\ old.ring \in Seq(BoundedEvents) /\ Len(old.ring) <= RingSize
      BY <2>3 DEF QuoteBounds
    <3>. QED BY <2>1, <3>1, <3>2
  <2>. QED BY <2>1, <2>2, <2>3
<1>3. ASSUME NEW c \in Conids
      PROVE  /\ subs'[c].next = objects[c].next /\ subs'[c].ring = objects[c].ring
             /\ since'[w][c] \in 0..MaxQuotes
  <2>1. /\ subs'[c] = IF c \in joined THEN [objects[c] EXCEPT !.consumers = @ \cup {w}] ELSE objects[c]
        /\ since'[w][c] = IF c \in joined THEN objects[c].next ELSE since[w][c]
        /\ c \in joined => objects[c] # NoSub
    BY <1>1 DEF JoinsUpTo, QuotesInv, QuoteShapes
  <2>0. PICK old : old = objects[c]
    OBVIOUS
  <2>2. PICK cs, r, m : old = [consumers |-> cs, ring |-> r, next |-> m]
    <3>1. old = [consumers |-> old.consumers, ring |-> old.ring, next |-> old.next]
      BY <1>2, <2>0
    <3>. QED BY <3>1
  <2>3. PICK some : some = cs \cup {w}
    OBVIOUS
  <2>4. [objects[c] EXCEPT !.consumers = @ \cup {w}] = [consumers |-> some, ring |-> r, next |-> m]
    <3>1. old.consumers \cup {w} = some
      BY <2>2, <2>3
    <3>2. [old EXCEPT !.consumers = some] = [consumers |-> some, ring |-> r, next |-> m]
      BY <2>2
    <3>. QED BY <2>0, <3>1, <3>2
  <2>5. subs'[c].next = m /\ subs'[c].ring = r /\ objects[c].next = m /\ objects[c].ring = r
    <3>0. objects[c].next = m /\ objects[c].ring = r
      BY <2>0, <2>2
    <3>1. CASE c \in joined
      <4>1. subs'[c] = [consumers |-> some, ring |-> r, next |-> m]
        BY <2>1, <2>4, <3>1
      <4>. QED BY <3>0, <4>1
    <3>2. CASE c \notin joined
      <4>1. subs'[c] = [consumers |-> cs, ring |-> r, next |-> m]
        BY <2>0, <2>1, <2>2, <3>2
      <4>. QED BY <3>0, <4>1
    <3>. QED BY <3>1, <3>2
  <2>6. since[w][c] \in 0..MaxQuotes
    BY DEF QuoteBounds
  <2>7. c \in joined => objects[c].next \in 0..MaxQuotes
    <3>1. /\ objects[c].next \in Int /\ objects[c].next <= MaxQuotes
          /\ objects[c] # NoSub => objects[c].next >= 0
      BY <1>2
    <3>. QED BY <2>1, <3>1, QuotesAssumption
  <2>. QED BY <2>1, <2>5, <2>6, <2>7
<1>4. since' \in [Watchers -> [Conids -> 0..MaxQuotes]]
  <2>1. since' = [since EXCEPT ![w] = [c \in Conids |-> IF c \in joined THEN objects[c].next
                                                        ELSE @[c]]]
    BY <1>1 DEF JoinsUpTo
  <2>2. PICK f : f = [c \in Conids |-> IF c \in joined THEN objects[c].next ELSE since[w][c]]
    OBVIOUS
  <2>3. since' = [since EXCEPT ![w] = f]
    BY <2>1, <2>2
  <2>4. since'[w] = f
    BY <2>3 DEF QuoteBounds
  <2>5. f \in [Conids -> 0..MaxQuotes]
    BY <1>3, <2>2, <2>4
  <2>. QED BY <2>3, <2>5 DEF QuoteBounds
<1>. QED BY <1>2, <1>3, <1>4 DEF QuoteBounds

LEMMA ReplayIsBounded ==
    ASSUME QuotesInv, QuoteBounds, NEW w \in Watchers, Replay(w)
    PROVE  QuoteBounds'
<1>1. /\ UNCHANGED <<subs, lines, session, closedDown, attached, since, queue>>
      /\ place[w] \in {"returned", "replaying"}
  BY Zenon DEF Replay
<1>2. todo[w] \in Seq(Conids) /\ todo[w] # <<>>
  BY <1>1 DEF QuotesInv, QuoteShapes, OneQualifies
<1>3. PICK c \in Conids : c = Head(todo[w])
  BY <1>2
<1>4. PICK ring \in Seq(BoundedEvents) : ring = subs[c].ring
  BY DEF QuoteBounds
<1>5. PICK from \in {Nothing, 0} : last' = [last EXCEPT ![w][c] = LastSent(ring, from, @)]
  BY <1>3, <1>4, Zenon DEF Replay
<1>6. PICK before \in -1..MaxQuotes : before = last[w][c]
  BY DEF QuoteBounds
<1>7. PICK x \in -1..MaxQuotes : last' = [last EXCEPT ![w][c] = x]
  <2>1. from \in Int
    BY DEF Nothing
  <2>2. LastSent(ring, from, before) \in -1..MaxQuotes
    BY <2>1, ReplayedIsRecorded
  <2>3. PICK x \in -1..MaxQuotes : x = LastSent(ring, from, before)
    BY <2>2
  <2>4. last' = [last EXCEPT ![w][c] = x]
    BY <1>5, <1>6, <2>3 DEF QuoteBounds
  <2>. QED BY <2>4
<1>8. last' \in [Watchers -> [Conids -> -1..MaxQuotes]]
  BY <1>7 DEF QuoteBounds
<1>. QED BY <1>1, <1>8 DEF QuoteBounds

LEMMA SendIsBounded ==
    ASSUME QuotesInv, QuoteBounds, NEW w \in Watchers, SendQuote(w)
    PROVE  QuoteBounds'
<1>1. PICK q \in Seq(BoundedEvents \cup {Sentinel}) : q = queue[w] /\ q # <<>>
  BY DEF SendQuote, QuoteBounds
<1>2. PICK e \in BoundedEvents \cup {Sentinel} : e = Head(q)
  BY <1>1
<1>3. /\ queue' = [queue EXCEPT ![w] = Tail(q)]
      /\ UNCHANGED <<subs, session, closedDown, since>>
      /\ IF e = Sentinel THEN last' = last ELSE last' = [last EXCEPT ![w][e.conid] = e.id]
  BY <1>1, <1>2 DEF SendQuote, QuoteBounds
<1>4. last' \in [Watchers -> [Conids -> -1..MaxQuotes]]
  <2>1. CASE e = Sentinel
    BY <1>3, <2>1 DEF QuoteBounds
  <2>2. CASE e # Sentinel
    <3>1. PICK c \in Conids, n \in -1..MaxQuotes : c = e.conid /\ n = e.id
      BY <1>2, <2>2, BoundedIds, QuotesAssumption
    <3>2. last' = [last EXCEPT ![w][c] = n]
      BY <1>3, <2>2, <3>1
    <3>. QED BY <3>2 DEF QuoteBounds
  <2>. QED BY <2>1, <2>2
<1>5. PICK s : s = Tail(q) /\ s \in Seq(BoundedEvents \cup {Sentinel}) /\ Len(s) <= QuoteQueueMax
  <2>1. Tail(q) \in Seq(BoundedEvents \cup {Sentinel}) /\ Len(Tail(q)) = Len(q) - 1
    BY <1>1, HeadTailProperties
  <2>2. Len(q) <= QuoteQueueMax /\ QuoteQueueMax \in Int /\ Len(q) \in Nat
    BY <1>1, QuotesAssumption DEF QuoteBounds
  <2>3. Len(Tail(q)) <= QuoteQueueMax
    BY <2>1, <2>2
  <2>. QED BY <2>1, <2>3
<1>6. \A v \in Watchers : queue'[v] = IF v = w THEN s ELSE queue[v]
  BY <1>3, <1>5 DEF QuotesInv, QuoteShapes
<1>. QED BY <1>3, <1>4, <1>5, <1>6 DEF QuoteBounds

LEMMA DetachIsBounded ==
    ASSUME QuotesInv, QuoteBounds, NEW w \in Watchers, DetachWatcher(w)
    PROVE  QuoteBounds'
<1>1. /\ subs' = [c \in Conids |-> IF w \in subs[c].consumers THEN Without(w, subs[c]) ELSE subs[c]]
      /\ UNCHANGED <<session, closedDown>>
      /\ since' = [since EXCEPT ![w] = [c \in Conids |-> 0]]
      /\ queue' = [queue EXCEPT ![w] = <<>>]
      /\ last' = [last EXCEPT ![w] = [c \in Conids |-> Nothing]]
  BY DEF DetachWatcher, Gone
<1>2. ASSUME NEW c \in Conids
      PROVE  \/ subs'[c] = NoSub
             \/ subs'[c].ring = subs[c].ring /\ subs'[c].next = subs[c].next
  <2>1. PICK old : old = subs[c]
    OBVIOUS
  <2>2. PICK cs, r, m : old = [consumers |-> cs, ring |-> r, next |-> m]
    BY <2>1 DEF QuotesInv, QuoteShapes
  <2>3. PICK others : others = cs \ {w} /\ old.consumers = cs
    BY <2>2
  <2>4. CASE w \in cs /\ others # {}
    <3>1. subs'[c] = [old EXCEPT !.consumers = others]
      BY <1>1, <2>1, <2>3, <2>4 DEF Without
    <3>2. subs'[c] = [consumers |-> others, ring |-> r, next |-> m]
      BY <2>2, <3>1
    <3>. QED BY <2>1, <2>2, <3>2
  <2>5. CASE w \in cs /\ others = {}
    BY <1>1, <2>1, <2>3, <2>5 DEF Without
  <2>6. CASE w \notin cs
    BY <1>1, <2>1, <2>3, <2>6
  <2>. QED BY <2>3, <2>4, <2>5, <2>6
<1>3. NoSub.next \in Int /\ NoSub.next <= MaxQuotes /\ NoSub.ring = <<>>
  BY QuotesAssumption DEF NoSub
<1>4. ASSUME NEW S, NEW s, s = <<>>
      PROVE  s \in Seq(S) /\ Len(s) <= RingSize /\ Len(s) <= QuoteQueueMax
  BY <1>4, QuotesAssumption
<1>5. \A c \in Conids : /\ subs'[c].next \in Int /\ subs'[c].next <= MaxQuotes
                        /\ subs'[c].ring \in Seq(BoundedEvents)
                        /\ Len(subs'[c].ring) <= RingSize
  <2>. SUFFICES ASSUME NEW c \in Conids
                PROVE  /\ subs'[c].next \in Int /\ subs'[c].next <= MaxQuotes
                       /\ subs'[c].ring \in Seq(BoundedEvents)
                       /\ Len(subs'[c].ring) <= RingSize
    OBVIOUS
  <2>1. CASE subs'[c] = NoSub
    <3>1. NoSub.ring \in Seq(BoundedEvents) /\ Len(NoSub.ring) <= RingSize
      BY <1>3, <1>4
    <3>. QED BY <1>3, <2>1, <3>1
  <2>2. CASE subs'[c].ring = subs[c].ring /\ subs'[c].next = subs[c].next
    BY <2>2 DEF QuoteBounds
  <2>. QED BY <1>2, <2>1, <2>2
<1>6. \A v \in Watchers : /\ queue'[v] \in Seq(BoundedEvents \cup {Sentinel})
                          /\ Len(queue'[v]) <= QuoteQueueMax
  <2>. SUFFICES ASSUME NEW v \in Watchers
                PROVE  /\ queue'[v] \in Seq(BoundedEvents \cup {Sentinel})
                       /\ Len(queue'[v]) <= QuoteQueueMax
    OBVIOUS
  <2>1. CASE v = w
    <3>1. queue'[v] = <<>>
      BY <1>1, <2>1 DEF QuotesInv, QuoteShapes
    <3>. QED BY <1>4, <3>1
  <2>2. CASE v # w
    <3>1. queue'[v] = queue[v]
      BY <1>1, <2>2 DEF QuotesInv, QuoteShapes
    <3>. QED BY <3>1 DEF QuoteBounds
  <2>. QED BY <2>1, <2>2
<1>7. since' \in [Watchers -> [Conids -> 0..MaxQuotes]] /\ last' \in [Watchers -> [Conids -> -1..MaxQuotes]]
  BY <1>1, QuotesAssumption DEF QuoteBounds, Nothing
<1>. QED BY <1>1, <1>5, <1>6, <1>7 DEF QuoteBounds

LEMMA TickerIsBounded ==
    ASSUME QuotesInv, QuoteBounds, NEW c \in Conids, NEW tick \in Tickers, TickerUpdates(c, tick)
    PROVE  QuoteBounds'
<1>1. PICK e, old : e = Event(c, old.next, tick) /\ old = subs[c]
  OBVIOUS
<1>2. /\ old.next \in Nat /\ old.next < MaxQuotes
      /\ subs'[c] = [consumers |-> old.consumers, ring |-> Newest(Append(old.ring, e), RingSize),
                     next |-> old.next + 1]
      /\ \A d \in Conids : d # c => subs'[d] = subs[d]
      /\ queue' = [w \in Watchers |-> IF w \in old.consumers THEN Queued(queue[w], e) ELSE queue[w]]
      /\ UNCHANGED <<session, closedDown, since, last>>
  BY <1>1, TickerPushes
<1>3. e \in BoundedEvents
  <2>1. old.next \in 0..MaxQuotes
    BY <1>2, QuotesAssumption
  <2>. QED BY <1>1, <2>1 DEF BoundedEvents
<1>4. PICK r \in Seq(BoundedEvents) : r = old.ring
  BY <1>1 DEF QuoteBounds
<1>5. PICK ring \in Seq(BoundedEvents) : ring = Newest(Append(r, e), RingSize) /\ Len(ring) <= RingSize
  <2>1. Append(r, e) \in Seq(BoundedEvents)
    BY <1>3, AppendProperties
  <2>. QED BY <2>1, NewestIsShort, QuotesAssumption
<1>6. /\ subs'[c].next = old.next + 1 /\ subs'[c].ring = ring
      /\ old.next + 1 \in Int /\ old.next + 1 <= MaxQuotes
  <2>1. old.next + 1 \in Int /\ old.next + 1 <= MaxQuotes
    BY <1>2, QuotesAssumption
  <2>. QED BY <1>2, <1>4, <1>5, <2>1
<1>7. ASSUME NEW d \in Conids
      PROVE  /\ subs'[d].next \in Int /\ subs'[d].next <= MaxQuotes
             /\ subs'[d].ring \in Seq(BoundedEvents) /\ Len(subs'[d].ring) <= RingSize
  <2>1. CASE d = c
    BY <1>5, <1>6, <2>1
  <2>2. CASE d # c
    <3>1. subs'[d] = subs[d]
      BY <1>2, <2>2
    <3>. QED BY <3>1 DEF QuoteBounds
  <2>. QED BY <2>1, <2>2
<1>8. ASSUME NEW w \in Watchers
      PROVE  queue'[w] \in Seq(BoundedEvents \cup {Sentinel}) /\ Len(queue'[w]) <= QuoteQueueMax
  <2>1. PICK S : S = BoundedEvents \cup {Sentinel}
    OBVIOUS
  <2>2. PICK q \in Seq(S) : q = queue[w] /\ Len(q) <= QuoteQueueMax
    BY <2>1 DEF QuoteBounds
  <2>3. Append(q, e) \in Seq(S)
    BY <1>3, <2>1, AppendProperties
  <2>4. Queued(q, e) \in Seq(S) /\ Len(Queued(q, e)) <= QuoteQueueMax
    BY <2>3, NewestIsShort, QuotesAssumption DEF Queued
  <2>5. queue'[w] = Queued(q, e) \/ queue'[w] = q
    BY <1>2, <2>2
  <2>. QED BY <2>1, <2>2, <2>4, <2>5
<1>. QED BY <1>2, <1>7, <1>8 DEF QuoteBounds

LEMMA ShutdownIsBounded ==
    ASSUME QuoteBounds, Shutdown
    PROVE  QuoteBounds'
<1>1. /\ closedDown' = TRUE /\ subs' = [c \in Conids |-> NoSub]
      /\ UNCHANGED <<session, since, last>>
      /\ queue' = [w \in Watchers |->
                      IF (\E c \in Conids : w \in subs[c].consumers) /\ Len(queue[w]) < QuoteQueueMax
                      THEN Append(queue[w], Sentinel) ELSE queue[w]]
  BY DEF Shutdown
<1>2. NoSub.next = -1 /\ NoSub.ring = <<>>
  BY DEF NoSub
<1>3. ASSUME NEW s, s = <<>> PROVE s \in Seq(BoundedEvents) /\ Len(s) <= RingSize
  BY <1>3, QuotesAssumption
<1>4. \A c \in Conids : /\ subs'[c].next \in Int /\ subs'[c].next <= MaxQuotes
                        /\ subs'[c].ring \in Seq(BoundedEvents)
                        /\ Len(subs'[c].ring) <= RingSize
  <2>1. NoSub.next \in Int /\ NoSub.next <= MaxQuotes
    BY <1>2, QuotesAssumption
  <2>2. NoSub.ring \in Seq(BoundedEvents) /\ Len(NoSub.ring) <= RingSize
    BY <1>2, <1>3
  <2>. QED BY <1>1, <2>1, <2>2
<1>5. ASSUME NEW w \in Watchers
      PROVE  queue'[w] \in Seq(BoundedEvents \cup {Sentinel}) /\ Len(queue'[w]) <= QuoteQueueMax
  <2>1. PICK S : S = BoundedEvents \cup {Sentinel}
    OBVIOUS
  <2>2. PICK q \in Seq(S) : q = queue[w] /\ Len(q) <= QuoteQueueMax
    BY <2>1 DEF QuoteBounds
  <2>3. Append(q, Sentinel) \in Seq(S) /\ Len(Append(q, Sentinel)) = Len(q) + 1
    BY <2>1, AppendProperties
  <2>4. Len(q) < QuoteQueueMax => Len(q) + 1 <= QuoteQueueMax
    BY <2>2, QuotesAssumption
  <2>5. \/ queue'[w] = q
        \/ queue'[w] = Append(q, Sentinel) /\ Len(q) < QuoteQueueMax
    BY <1>1, <2>2
  <2>. QED BY <2>1, <2>2, <2>3, <2>4, <2>5
<1>. QED BY <1>1, <1>4, <1>5 DEF QuoteBounds

\* For any watchers, conids and bounds: rings and queues keep within their limits, event ids
\* are those of published quotes, and lines, places and consumers are what they should be.
THEOREM QuotesTypeCorrect == QuotesSpec => []QuotesTypeOK
<1>1. QuotesInit => QuoteBounds
  <2>. SUFFICES ASSUME QuotesInit PROVE QuoteBounds
    OBVIOUS
  <2>1. NoSub.next = -1 /\ NoSub.ring = <<>>
    BY DEF NoSub
  <2>2. ASSUME NEW S, NEW s, s = <<>>
        PROVE  s \in Seq(S) /\ Len(s) <= RingSize /\ Len(s) <= QuoteQueueMax
    BY <2>2, QuotesAssumption
  <2>3. \A c \in Conids : /\ subs[c].next \in Int /\ subs[c].next <= MaxQuotes
                          /\ subs[c].ring \in Seq(BoundedEvents) /\ Len(subs[c].ring) <= RingSize
    <3>1. NoSub.next \in Int /\ NoSub.next <= MaxQuotes
      BY <2>1, QuotesAssumption
    <3>2. NoSub.ring \in Seq(BoundedEvents) /\ Len(NoSub.ring) <= RingSize
      BY <2>1, <2>2
    <3>. QED BY <3>1, <3>2 DEF QuotesInit
  <2>4. \A w \in Watchers : /\ queue[w] \in Seq(BoundedEvents \cup {Sentinel})
                            /\ Len(queue[w]) <= QuoteQueueMax
    <3>1. \A w \in Watchers : queue[w] = <<>>
      BY DEF QuotesInit
    <3>. QED BY <2>2, <3>1
  <2>5. since \in [Watchers -> [Conids -> 0..MaxQuotes]] /\ last \in [Watchers -> [Conids -> -1..MaxQuotes]]
    BY QuotesAssumption DEF QuotesInit, Nothing
  <2>. QED BY <2>3, <2>4, <2>5 DEF QuotesInit, QuoteBounds, Sessions
<1>2. ASSUME QuotesInv, QuoteBounds, NEW w \in Watchers, WatcherStep(w) PROVE QuoteBounds'
  <2>1. CASE Subscribe(w) \/ AbandonStream(w) \/ CloseStream(w)
    <3>1. UNCHANGED <<subs, session, closedDown, since, queue, last>>
      BY <2>1 DEF Subscribe, AbandonStream, CloseStream
    <3>. QED BY <1>2, <3>1 DEF QuoteBounds
  <2>2. CASE EnterSubscribe(w)
    <3>1. PICK objects : objects = subs
      OBVIOUS
    <3>2. PICK rest \in Seq(Conids) : rest = todo[w]
      BY <1>2 DEF QuotesInv, QuoteShapes
    <3>3. /\ Proceed(w, objects, rest) /\ UNCHANGED <<session, closedDown, queue, last>>
          /\ \A c \in Conids : objects[c] = subs[c] \/ objects[c] = [NoSub EXCEPT !.next = 0]
      BY <2>2, <3>1, <3>2 DEF EnterSubscribe
    <3>. QED BY <1>2, <3>3, ProceedIsBounded
  <2>3. CASE Qualified(w)
    <3>1. PICK rest \in Seq(Conids) : rest = todo[w] /\ rest # <<>>
      BY <1>2, <2>3 DEF Qualified, QuotesInv, QuoteShapes, OneQualifies
    <3>2. PICK c \in Conids : c = Head(rest)
      BY <3>1
    <3>3. PICK objects : objects = [subs EXCEPT ![c] = [NoSub EXCEPT !.next = 0]]
      OBVIOUS
    <3>4. Proceed(w, objects, rest) /\ UNCHANGED <<session, closedDown, queue, last>>
      BY <2>3, <3>1, <3>2, <3>3 DEF Qualified
    <3>5. \A d \in Conids : objects[d] = subs[d] \/ objects[d] = [NoSub EXCEPT !.next = 0]
      BY <1>2, <3>3 DEF QuotesInv, QuoteShapes
    <3>. QED BY <1>2, <3>4, <3>5, ProceedIsBounded
  <2>4. CASE NotQualified(w)
    <3>1. PICK objects : objects = subs
      OBVIOUS
    <3>2. todo[w] \in Seq(Conids) /\ todo[w] # <<>>
      BY <1>2, <2>4 DEF NotQualified, QuotesInv, QuoteShapes, OneQualifies
    <3>3. PICK rest \in Seq(Conids) : rest = Tail(todo[w])
      BY <3>2, HeadTailProperties
    <3>4. /\ Proceed(w, objects, rest) /\ UNCHANGED <<session, closedDown, queue, last>>
          /\ \A c \in Conids : objects[c] = subs[c] \/ objects[c] = [NoSub EXCEPT !.next = 0]
      BY <2>4, <3>1, <3>3 DEF NotQualified
    <3>. QED BY <1>2, <3>4, ProceedIsBounded
  <2>5. CASE Replay(w)
    BY <1>2, <2>5, ReplayIsBounded
  <2>6. CASE SendQuote(w)
    BY <1>2, <2>6, SendIsBounded
  <2>7. CASE DetachWatcher(w)
    BY <1>2, <2>7, DetachIsBounded
  <2>. QED BY <1>2, <2>1, <2>2, <2>3, <2>4, <2>5, <2>6, <2>7 DEF WatcherStep
<1>3. QuotesInv /\ QuoteBounds /\ [QuotesNext]_quoteVars => QuoteBounds'
  <2>. SUFFICES ASSUME QuotesInv, QuoteBounds, [QuotesNext]_quoteVars PROVE QuoteBounds'
    OBVIOUS
  <2>1. CASE SessionDrops \/ SessionReturns \/ UNCHANGED quoteVars
    <3>1. UNCHANGED <<subs, closedDown, since, queue, last>> /\ session' \in Sessions
      BY <2>1 DEF SessionDrops, SessionReturns, quoteVars, watcherVars, QuoteBounds, Sessions
    <3>. QED BY <3>1 DEF QuoteBounds
  <2>2. CASE Shutdown
    BY <2>2, ShutdownIsBounded
  <2>3. CASE \E c \in Conids, t \in Tickers : TickerUpdates(c, t)
    BY <2>3, TickerIsBounded
  <2>. QED BY <1>2, <2>1, <2>2, <2>3 DEF QuotesNext
<1>4. QuotesInv /\ QuoteBounds => QuotesTypeOK
  <2>. SUFFICES ASSUME QuotesInv, QuoteBounds PROVE QuotesTypeOK
    OBVIOUS
  <2>1. ASSUME NEW c \in Conids PROVE subs[c].next \in -1..MaxQuotes
    <3>1. NoSub.next = -1
      BY DEF NoSub
    <3>2. subs[c].next \in Nat \/ subs[c].next = -1
      BY <3>1 DEF QuotesInv, QuoteShapes
    <3>3. subs[c].next <= MaxQuotes /\ MaxQuotes \in Nat
      BY QuotesAssumption DEF QuoteBounds
    <3>. QED BY <3>2, <3>3
  <2>. QED BY <2>1 DEF QuotesTypeOK, QuotesInv, QuoteShapes, QuoteBounds
<1>. QED BY <1>1, <1>3, <1>4, QuotesInductive, PTL DEF QuotesSpec
=============================================================================
