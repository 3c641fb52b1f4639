---------------------------- MODULE TWSRequests ----------------------------
(***************************************************************************)
(* The one-shot reads of the TWS profile that share one ib_async handle:   *)
(* historical bars and fundamentals (tws/historical.py), the market scan   *)
(* (tws/scanner.py), and how they find the rejection meant for them        *)
(* (tws/ib_errors.py).                                                     *)
(*                                                                         *)
(* With RaiseRequestErrors=False ib_async never raises a rejection: it     *)
(* ends the request with an empty result and emits the error to EVERY      *)
(* handler of errorEvent.  Each request therefore collects all errors for  *)
(* as long as it runs and picks its own afterwards.                        *)
(*                                                                         *)
(* A message of IBKR is one of Codes; "no_data" is code 162 with the text  *)
(* "query returned no data", "pacing" any other 162.                       *)
(***************************************************************************)
EXTENDS Naturals, FiniteSets, Sequences, SequencesExt

CONSTANTS Requests,   \* the HTTP requests under way
          MaxScans,   \* MAX_CONCURRENT_SCANS
          Reports,    \* how many report types a fundamentals request names
          MaxErrors   \* bound: errors one request collects

ASSUME RequestsAssumption ==
    /\ IsFiniteSet(Requests)
    /\ {MaxScans, Reports} \subseteq Nat \ {0}
    /\ MaxErrors \in Nat

VARIABLES phase,     \* what each request is doing
          kind,      \* historical, scan or fundamentals
          reqId,     \* the id of the question it has at IBKR
          future,    \* how far that question is
          collected, \* the <<id, code>> its errorEvent handler has seen
          left,      \* report types a fundamentals request still has to ask for
          reject,    \* the first rejection of a fundamentals request
          answer,    \* the HTTP status and code of the reply
          bars,      \* FIFO of the historical lock; its head holds it
          scans,     \* FIFO of the scan semaphore; the first MaxScans hold it
          spaced,    \* the pacing interval since the last bars is over
          nextId,    \* ib_async's counter of request ids
          rejected   \* history: codes IBKR rejected a request's questions with

requestVars == <<phase, kind, reqId, future, collected, left, reject, answer,
                 bars, scans, spaced, nextId, rejected>>

Kinds == {"historical", "scan", "fundamentals"}
Codes == {"pacing", "no_data", "no_definition", "not_subscribed", "warning"}
NoCode == "-"
Answer(s, c) == [status |-> s, code |-> c]

\* The ids of errors that belong to none of these requests (an order, a quote).
Foreign == 0

IsBenign(code) == code = "warning"

\* A plausible bug: errors of other requests count too.
FirstFatalOfAny(errors, id) ==
    LET first == SelectInSeq(errors, LAMBDA e : ~IsBenign(e[2]))
    IN  IF first = 0 THEN NoCode ELSE errors[first][2]

\* first_fatal_ib_error: the first collected error of this id that is not benign.
FirstFatal(errors, id) ==
    LET first == SelectInSeq(errors, LAMBDA e : e[1] = id /\ ~IsBenign(e[2]))
    IN  IF first = 0 THEN NoCode ELSE errors[first][2]

\* _map_historical_error_code
HistoricalError(code) ==
    CASE code \in {"pacing", "no_data"} -> Answer(429, code)
      [] OTHER -> Answer(404, code)

\* _map_scanner_error_code
ScannerError(code) ==
    IF code \in {"pacing", "no_data"} THEN Answer(429, code) ELSE Answer(422, code)

Collecting == {r \in Requests : phase[r] = "asking"}

----------------------------------------------------------------------------
(* A request comes in.  The bars and the fundamentals resolve the contract *)
(* first; the scan queues for its slot.                                    *)
StartRequest(r) == \E k \in Kinds :
    /\ phase[r] = "idle"
    /\ kind' = [kind EXCEPT ![r] = k]
    /\ phase' = [phase EXCEPT ![r] = IF k = "scan" THEN "queued" ELSE "resolving"]
    /\ scans' = IF k = "scan" THEN Append(scans, r) ELSE scans
    /\ left' = [left EXCEPT ![r] = IF k = "fundamentals" THEN Reports ELSE 0]
    /\ UNCHANGED <<reqId, future, collected, reject, answer, bars, spaced, nextId,
                   rejected>>

\* startReq: a fresh id, an empty collection, a pending future.
Ask(r) ==
    /\ phase' = [phase EXCEPT ![r] = "asking"]
    /\ reqId' = [reqId EXCEPT ![r] = nextId]
    /\ nextId' = nextId + 1
    /\ future' = [future EXCEPT ![r] = "pending"]
    /\ collected' = [collected EXCEPT ![r] = <<>>]

\* _resolve_contract found the contract.
Resolved(r) ==
    /\ phase[r] = "resolving"
    /\ \/ /\ kind[r] = "historical"
          /\ phase' = [phase EXCEPT ![r] = "queued"]
          /\ bars' = Append(bars, r)
          /\ UNCHANGED <<reqId, nextId, future, collected>>
       \/ /\ kind[r] = "fundamentals"
          /\ Ask(r)
          /\ UNCHANGED bars
    /\ UNCHANGED <<kind, left, reject, answer, scans, spaced, rejected>>

\* The end of a request: its handler leaves errorEvent, its lock or slot goes to the
\* next in line.
Reply(r, a) ==
    /\ phase' = [phase EXCEPT ![r] = "done"]
    /\ answer' = [answer EXCEPT ![r] = a]
    /\ bars' = RemoveFirst(bars, r)
    /\ scans' = RemoveFirst(scans, r)
    /\ spaced' = (spaced /\ ~(kind[r] = "historical" /\ phase[r] = "asking"))
    /\ reqId' = [reqId EXCEPT ![r] = Foreign]
    /\ future' = [future EXCEPT ![r] = "pending"]
    /\ collected' = [collected EXCEPT ![r] = <<>>]

\* _resolve_contract: IBKR does not know the conid, or the socket is gone.
NotResolved(r) == \E a \in {Answer(404, "contract_not_found"), Answer(502, "lost")} :
    /\ phase[r] = "resolving"
    /\ Reply(r, a)
    /\ UNCHANGED <<kind, left, reject, nextId, rejected>>

\* The historical lock and its pacing sleep, or a slot of the scan semaphore.
Granted(r) ==
    /\ phase[r] = "queued"
    /\ \/ kind[r] = "historical" /\ Head(bars) = r /\ spaced
       \/ kind[r] = "scan" /\ r \in {scans[i] : i \in (1..MaxScans) \cap DOMAIN scans}
    /\ Ask(r)
    /\ UNCHANGED <<kind, left, reject, answer, bars, scans, spaced, rejected>>

PacingElapses ==
    /\ ~spaced
    /\ spaced' = TRUE
    /\ UNCHANGED <<phase, kind, reqId, future, collected, left, reject, answer, bars,
                   scans, nextId, rejected>>

----------------------------------------------------------------------------
(* IBKR and ib_async.                                                      *)

\* errorEvent: every collecting request sees it; a rejection ends its question.
ErrorEvent(id, code) ==
    /\ \A r \in Collecting : Len(collected[r]) < MaxErrors
    /\ Collecting # {}
    /\ collected' = [r \in Requests |->
                        IF r \in Collecting THEN Append(collected[r], <<id, code>>)
                        ELSE collected[r]]
    /\ LET hit == {r \in Collecting : reqId[r] = id /\ ~IsBenign(code)} IN
       /\ future' = [r \in Requests |->
                        IF r \in hit /\ future[r] = "pending" THEN "empty" ELSE future[r]]
       /\ rejected' = [r \in Requests |->
                          IF r \in hit THEN rejected[r] \cup {code} ELSE rejected[r]]
    /\ UNCHANGED <<phase, kind, reqId, left, reject, answer, bars, scans, spaced, nextId>>

\* The result, an empty one (ib_async ends overdue bars that way), or a lost socket.
Ends(r, how) ==
    /\ phase[r] = "asking" /\ future[r] = "pending"
    /\ future' = [future EXCEPT ![r] = how]
    /\ UNCHANGED <<phase, kind, reqId, collected, left, reject, answer, bars, scans,
                   spaced, nextId, rejected>>

----------------------------------------------------------------------------
(* The request goes on when its future is done.                            *)

\* _reqHistoricalData after the await
FinishBars(r) ==
    /\ kind[r] = "historical" /\ phase[r] = "asking" /\ future[r] # "pending"
    /\ LET fatal == FirstFatal(collected[r], reqId[r]) IN
       Reply(r, IF future[r] = "lost" THEN Answer(502, "lost")
                ELSE IF fatal \in {NoCode, "no_data"} THEN Answer(200, future[r])
                ELSE HistoricalError(fatal))
    /\ UNCHANGED <<kind, left, reject, nextId, rejected>>

\* scan after the await
FinishScan(r) ==
    /\ kind[r] = "scan" /\ phase[r] = "asking" /\ future[r] # "pending"
    /\ LET fatal == FirstFatal(collected[r], reqId[r]) IN
       Reply(r, IF future[r] = "lost" THEN Answer(502, "lost")
                ELSE IF fatal = NoCode THEN Answer(200, future[r])
                ELSE ScannerError(fatal))
    /\ UNCHANGED <<kind, left, reject, nextId, rejected>>

\* wait_for around the scan: 504, the slot is free again.
ScanTimesOut(r) ==
    /\ kind[r] = "scan" /\ phase[r] = "asking" /\ future[r] = "pending"
    /\ Reply(r, Answer(504, "timeout"))
    /\ UNCHANGED <<kind, left, reject, nextId, rejected>>

\* fundamentals: what _fetch_one_fundamental returned for one report type.  A
\* report makes the request a success; the first rejection is kept.
NextReport(r, xml, why) ==
    LET records == xml \/ reject[r] = "records"
        first == IF records THEN "records"
                 ELSE IF reject[r] = NoCode THEN why ELSE reject[r] IN
    /\ reject' = [reject EXCEPT ![r] = first]
    /\ left' = [left EXCEPT ![r] = @ - 1]
    /\ IF left[r] > 1
       THEN Ask(r) /\ UNCHANGED <<answer, bars, scans, spaced>>
       ELSE /\ Reply(r, IF first = "records" THEN Answer(200, "data")
                        ELSE IF first = NoCode THEN Answer(404, "unavailable")
                        ELSE HistoricalError(first))
            /\ UNCHANGED nextId
    /\ UNCHANGED <<kind, rejected>>

\* _fetch_one_fundamental: a rejection, a report, an empty report or a lost socket.
FinishReport(r) ==
    /\ kind[r] = "fundamentals" /\ phase[r] = "asking" /\ future[r] # "pending"
    /\ IF future[r] = "lost"
       THEN /\ Reply(r, Answer(502, "lost"))
            /\ UNCHANGED <<kind, left, reject, nextId, rejected>>
       ELSE LET fatal == FirstFatal(collected[r], reqId[r])
            IN  NextReport(r, fatal = NoCode /\ future[r] = "data", fatal)

\* _fetch_one_fundamental: the timeout counts as "no report", whatever was collected.
ReportTimesOut(r) ==
    /\ kind[r] = "fundamentals" /\ phase[r] = "asking" /\ future[r] = "pending"
    /\ NextReport(r, FALSE, NoCode)

----------------------------------------------------------------------------
RequestsInit ==
    /\ phase = [r \in Requests |-> "idle"]
    /\ kind = [r \in Requests |-> "scan"]
    /\ reqId = [r \in Requests |-> Foreign]
    /\ future = [r \in Requests |-> "pending"]
    /\ collected = [r \in Requests |-> <<>>]
    /\ left = [r \in Requests |-> 0]
    /\ reject = [r \in Requests |-> NoCode]
    /\ answer = [r \in Requests |-> Answer(0, NoCode)]
    /\ bars = <<>> /\ scans = <<>>
    /\ spaced = TRUE
    /\ nextId = 1
    /\ rejected = [r \in Requests |-> {}]

RequestsNext ==
    \/ \E r \in Requests :
          \/ StartRequest(r) \/ Resolved(r) \/ NotResolved(r) \/ Granted(r)
          \/ \E how \in {"data", "empty", "lost"} : Ends(r, how)
          \/ FinishBars(r) \/ FinishScan(r) \/ ScanTimesOut(r)
          \/ FinishReport(r) \/ ReportTimesOut(r)
    \/ \E id \in 0 .. nextId - 1, code \in Codes : ErrorEvent(id, code)
    \/ PacingElapses

RequestsSpec == RequestsInit /\ [][RequestsNext]_requestVars

RequestsTypeOK ==
    /\ phase \in [Requests -> {"idle", "resolving", "queued", "asking", "done"}]
    /\ kind \in [Requests -> Kinds]
    /\ reqId \in [Requests -> Nat] /\ nextId \in Nat
    /\ future \in [Requests -> {"pending", "data", "empty", "lost"}]
    /\ \A r \in Requests : collected[r] \in Seq(Nat \X Codes)
    /\ left \in [Requests -> 0..Reports]
    /\ reject \in [Requests -> Codes \cup {NoCode, "records"}]
    /\ spaced \in BOOLEAN
    /\ rejected \in [Requests -> SUBSET Codes]

\* Requests that run side by side on the one handle do not take each other's
\* errors, and none loses its own: the IBKR code of an error reply was sent for
\* a question of that very request; a request IBKR rejected while it was asking
\* is never told 200, unless IBKR said "no data" of bars or gave another report;
\* and at most one bars question and MaxScans scans are at IBKR at a time
\* (ib_errors.py:51, historical.py:306, scanner.py:207).
ErrorsFindTheirRequest ==
    /\ \A r \in Requests : phase[r] = "done" =>
          /\ answer[r].code \in Codes => answer[r].code \in rejected[r]
          /\ answer[r].status = 200 =>
                \/ rejected[r] = {}
                \/ kind[r] = "historical" /\ "no_data" \in rejected[r]
                \/ kind[r] = "fundamentals" /\ reject[r] = "records"
    /\ Cardinality({r \in Collecting : kind[r] = "historical"}) <= 1
    /\ Cardinality({r \in Collecting : kind[r] = "scan"}) <= MaxScans
============================================================================
