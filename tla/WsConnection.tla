---------------------------- MODULE WsConnection ----------------------------
(***************************************************************************)
(* The WebSocket to the CP gateway: the connect of the lifespan with its   *)
(* fallback to polling, the reader task of CPWebSocketClient with its      *)
(* reconnects, and the iterator by which WSPushSource gets the frames.     *)
(*                                                                         *)
(* A frame is <<connection, number>>.  The pinger and the replay of the    *)
(* subscriptions only send; WsQuotes has the replay.                       *)
(***************************************************************************)
EXTENDS Integers, Sequences, SequencesExt

CONSTANTS
    MaxReconnectAttempts,  \* attempts before the client gives up
    FramesPerConnection,   \* bound of the model: frames the gateway sends on one
    MaxConnections         \* bound of the model: connections ever opened

ASSUME WsAssumption ==
    /\ MaxReconnectAttempts \in Nat \ {0} /\ MaxConnections \in Nat \ {0}
    /\ FramesPerConnection \in Nat

VARIABLES
    wsTask,       \* the client: new, opening, reading, retrying, ended
    closing,      \* CPWebSocketClient._closing
    connection,   \* the number of the last connection opened
    inFlight,         \* what the gateway sent on it and nobody received yet
    sentOnIt,   \* frames the gateway sent on it after the ack
    attempt,      \* CPWebSocketClient.reconnect_attempt
    frameQueue,   \* CPWebSocketClient._frame_queue
    source,       \* the iterating task: none, iterating, stopped
    iterated,     \* history: the frames it got
    quoteLayer    \* the quotes of the profile: undecided, polling, ws

wsVars == <<wsTask, closing, connection, inFlight, sentOnIt, attempt, frameQueue, source,
            iterated, quoteLayer>>

-----------------------------------------------------------------------------
EndOfFrames == <<0, 0>>
Ack(ok) == [kind |-> "sts", ok |-> ok]
Data(n) == [kind |-> "data", n |-> n]

\* The gateway answers the auth frame by an sts, perhaps after other frames, and
\* refuses or accepts; after that it pushes frames.
GatewaySends(frame) ==
    /\ wsTask \in {"opening", "retrying", "reading"} /\ connection > 0
    /\ Len(inFlight) < 2
    /\ frame.kind = "sts" =>
            wsTask # "reading" /\ \A i \in DOMAIN inFlight : inFlight[i].kind # "sts"
    /\ frame.kind = "data" =>
            sentOnIt < FramesPerConnection /\ frame.n = sentOnIt + 1
    /\ inFlight' = Append(inFlight, frame)
    /\ sentOnIt' = IF frame.kind = "data" THEN frame.n ELSE sentOnIt
    /\ UNCHANGED <<wsTask, closing, connection, attempt, frameQueue, source, iterated,
                   quoteLayer>>

\* _build_subscription_layer: without a session, or asked for polling, no WebSocket.
LayerPolls ==
    /\ quoteLayer = "undecided" /\ wsTask = "new"
    /\ quoteLayer' = "polling"
    /\ UNCHANGED <<wsTask, closing, connection, inFlight, sentOnIt, attempt, frameQueue,
                   source, iterated>>

\* connect(): once per client.
WsConnect ==
    /\ quoteLayer = "undecided" /\ wsTask = "new"
    /\ wsTask' = "opening"
    /\ connection' = 1
    /\ inFlight' = <<>> /\ sentOnIt' = 0
    /\ UNCHANGED <<closing, attempt, frameQueue, source, iterated, quoteLayer>>

\* Awaiting the ack, frames of other topics are dropped.
FrameBeforeAck ==
    /\ wsTask \in {"opening", "retrying"} /\ inFlight # <<>> /\ Head(inFlight).kind = "data"
    /\ inFlight' = Tail(inFlight)
    /\ UNCHANGED <<wsTask, closing, connection, sentOnIt, attempt, frameQueue, source,
                   iterated, quoteLayer>>

AckReceived(task) ==
    /\ wsTask = task /\ inFlight # <<>> /\ Head(inFlight) = Ack(TRUE)
    /\ wsTask' = "reading"
    /\ inFlight' = Tail(inFlight)
    /\ attempt' = 0

\* The lifespan's connect: then the source is built and iterates ...
ConnectAccepted ==
    /\ AckReceived("opening")
    /\ quoteLayer' = "ws"
    /\ source' = "iterating"
    /\ UNCHANGED <<closing, connection, sentOnIt, frameQueue, iterated>>

\* ... or the socket does not open, says no, or stays silent: the client is closed
\* and the profile polls.
ConnectRefused ==
    /\ wsTask = "opening"
    /\ wsTask' = "ended" /\ closing' = TRUE
    /\ frameQueue' = Append(frameQueue, EndOfFrames)
    /\ quoteLayer' = "polling"
    /\ inFlight' = <<>>
    /\ UNCHANGED <<connection, sentOnIt, attempt, source, iterated>>

\* _read_loop: a frame received goes into the queue.
FrameReceived ==
    /\ wsTask = "reading" /\ inFlight # <<>> /\ Head(inFlight).kind = "data"
    /\ inFlight' = Tail(inFlight)
    /\ frameQueue' = Append(frameQueue, <<connection, Head(inFlight).n>>)
    /\ UNCHANGED <<wsTask, closing, connection, sentOnIt, attempt, source, iterated,
                   quoteLayer>>

\* recv raises: the old connection goes, with what was on it, and a new one is tried.
ReceiveFails ==
    /\ wsTask = "reading" /\ connection < MaxConnections
    /\ wsTask' = "retrying"
    /\ attempt' = 1
    /\ connection' = connection + 1
    /\ inFlight' = <<>> /\ sentOnIt' = 0
    /\ UNCHANGED <<closing, frameQueue, source, iterated, quoteLayer>>

ReconnectAccepted ==
    /\ AckReceived("retrying")
    /\ UNCHANGED <<closing, connection, sentOnIt, frameQueue, source, iterated, quoteLayer>>

\* An attempt fails: the next one after the backoff ...
AttemptRefused ==
    /\ wsTask = "retrying" /\ attempt < MaxReconnectAttempts /\ connection < MaxConnections
    /\ attempt' = attempt + 1
    /\ connection' = connection + 1
    /\ inFlight' = <<>> /\ sentOnIt' = 0
    /\ UNCHANGED <<wsTask, closing, frameQueue, source, iterated, quoteLayer>>

\* Faulty variant: a client that gives up does not tell its iterator.
GivesUpSilently ==
    /\ wsTask = "retrying" /\ attempt = MaxReconnectAttempts
    /\ wsTask' = "ended" /\ closing' = TRUE
    /\ inFlight' = <<>>
    /\ UNCHANGED <<connection, sentOnIt, attempt, frameQueue, source, iterated, quoteLayer>>

\* ... and after the last the reader ends, and its iterator behind the frames queued.
GivesUp ==
    /\ wsTask = "retrying" /\ attempt = MaxReconnectAttempts
    /\ wsTask' = "ended" /\ closing' = TRUE
    /\ frameQueue' = Append(frameQueue, EndOfFrames)
    /\ inFlight' = <<>>
    /\ UNCHANGED <<connection, sentOnIt, attempt, source, iterated, quoteLayer>>

\* aclose(), whatever the reader is at: it ends with a sentinel, and the first
\* close of a client puts one more.
WsCloses ==
    LET reading == wsTask \in {"reading", "retrying"}
        ends    == (IF reading THEN 1 ELSE 0) + (IF closing THEN 0 ELSE 1)
    IN
    /\ quoteLayer = "ws" /\ ends > 0
    /\ wsTask' = "ended" /\ closing' = TRUE
    /\ frameQueue' = frameQueue \o [i \in 1..ends |-> EndOfFrames]
    /\ inFlight' = <<>>
    /\ UNCHANGED <<connection, sentOnIt, attempt, source, iterated, quoteLayer>>

-----------------------------------------------------------------------------
\* __anext__: the next frame, or the end of the iteration.
FrameIterated ==
    /\ source = "iterating" /\ frameQueue # <<>>
    /\ frameQueue' = Tail(frameQueue)
    /\ IF Head(frameQueue) = EndOfFrames
       THEN source' = "stopped" /\ UNCHANGED iterated
       ELSE iterated' = Append(iterated, Head(frameQueue)) /\ UNCHANGED source
    /\ UNCHANGED <<wsTask, closing, connection, inFlight, sentOnIt, attempt, quoteLayer>>

\* WSPushSource.stop() cancels the task.
SourceStops ==
    /\ source = "iterating"
    /\ source' = "stopped"
    /\ UNCHANGED <<wsTask, closing, connection, inFlight, sentOnIt, attempt, frameQueue,
                   iterated, quoteLayer>>

-----------------------------------------------------------------------------
WsInit ==
    /\ wsTask = "new" /\ closing = FALSE /\ connection = 0 /\ inFlight = <<>>
    /\ sentOnIt = 0 /\ attempt = 0 /\ frameQueue = <<>>
    /\ source = "none" /\ iterated = <<>> /\ quoteLayer = "undecided"

WsNext ==
    \/ \E ok \in BOOLEAN : GatewaySends(Ack(ok))
    \/ \E n \in 1..FramesPerConnection : GatewaySends(Data(n))
    \/ LayerPolls
    \/ WsConnect
    \/ FrameBeforeAck
    \/ ConnectAccepted
    \/ ConnectRefused
    \/ FrameReceived
    \/ ReceiveFails
    \/ ReconnectAccepted
    \/ AttemptRefused
    \/ GivesUp
    \/ WsCloses
    \/ FrameIterated
    \/ SourceStops

WsSpec == WsInit /\ [][WsNext]_wsVars

WsTypeOK ==
    /\ wsTask \in {"new", "opening", "reading", "retrying", "ended"}
    /\ closing \in BOOLEAN /\ connection \in 0..MaxConnections
    /\ sentOnIt \in 0..FramesPerConnection /\ attempt \in 0..MaxReconnectAttempts
    /\ ToSet(frameQueue \o iterated)
         \subseteq {EndOfFrames} \cup ((1..MaxConnections) \X (1..FramesPerConnection))
    /\ source \in {"none", "iterating", "stopped"}
    /\ quoteLayer \in {"undecided", "polling", "ws"}

-----------------------------------------------------------------------------
\* What the iterator got, and what it will still get.
Coming == iterated \o frameQueue

\* A frame is the next one of its connection, or of a later connection.
Follows(e, f) == f = <<e[1], e[2] + 1>> \/ f[1] > e[1]

\* Frames come in the order they were sent, and of each connection without a gap:
\* what was on one that died is lost with its end, never from its middle, and nothing
\* of it comes after a frame of the next, nor anything after the end
\* (cp/ws_client.py:318-345).
FramesInOrder ==
    \A i \in 1..Len(Coming) - 1 : Coming[i + 1] # EndOfFrames =>
        Coming[i] # EndOfFrames /\ Follows(Coming[i], Coming[i + 1])

\* "Endet, sobald die Verbindung endgueltig verloren ist" (cp/ws_client.py:118-120):
\* an iterator of a client that gave up or was closed finds its end in the queue.
NobodyIsLeftWaiting ==
    wsTask = "ended" /\ source = "iterating" => Contains(frameQueue, EndOfFrames)

FramesReachTheSource == FramesInOrder /\ NobodyIsLeftWaiting
=============================================================================
