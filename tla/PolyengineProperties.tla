------------------------ MODULE PolyengineProperties ------------------------
(***************************************************************************)
(* What the JS host guarantees, and its refinement of WsContract.          *)
(***************************************************************************)
EXTENDS PolyengineHost, FiniteSets

MsgIds   == 1 .. MaxMsgs
Outcomes == {Unset, NoFrame} \cup PeerCodes

FieldsTyped ==
  /\ conn \in {"none", "handshake", "opened", "open", "held", "failed",
               "invalidUrl", "invalidArgument"}
  /\ readyState \in {"NONE", "CONNECTING", "OPEN", "CLOSING", "CLOSED"}
  /\ stage \in {"none", "shown", "ended", "done"}
  /\ {aborted, netDone, localClosed, streamClaimed, closeSettled, waiting,
      overflowed, closed} \subseteq BOOLEAN
  /\ closeInfo \in Outcomes /\ waited \subseteq Outcomes \ {Unset}
  /\ closeDeadline \in Timers \cup {NoTimer} /\ timers \subseteq Timers
  /\ {messages, taken, element} \subseteq Seq(MsgIds)
  /\ Waiting \subseteq Receives \cup {"stream"}
  /\ buffered \in 0 .. Limit
  /\ recvSt \in [Receives -> {"unused", "pending", "message", "viaStream",
                              "overflow", "closed"}]
  /\ strm \in {"none", "idle", "pulling", "ended", "dropped"}
  /\ sendSt \in [Sends -> {"unused", "polling", "ok", "closed"}]
  /\ via \in {"unused", "next", "item", "ok", "closed", "other"}
  /\ viaSent =< viaTaken /\ viaTaken \in 0 .. MaxItems

QueuedBytes == IF messages = <<>> THEN 0
               ELSE Offset[messages[Len(messages)]] - Offset[Head(messages) - 1]

QueueConsistent ==
  /\ buffered = QueuedBytes
  /\ waiters # <<>> => messages = <<>> /\ ~closed
  /\ Waiting \ {"stream"} = {r \in Receives : recvSt[r] = "pending"}

\* The types of the resource's fields, of its queue and of the calls.  What is
\* buffered is counted exactly and stays within the bound; a pending waiter implies
\* an empty queue, on which the bound relies, and nobody waits on a queue that has
\* ended, or is still queued once its call was answered (incomingQueue).
TypeOK == FieldsTyped /\ QueueConsistent

\* What a failed receive reports is true (next, end, discard, receive).
ReceiveErrorsHonest ==
  \A r \in Receives :
    /\ recvSt[r] = "closed" =>
         localClosed \/ (closed /\ messages = <<>> /\ ~overflowed)
    /\ recvSt[r] = "overflow" => overflowed /\ (localClosed \/ messages = <<>>)
    /\ recvSt[r] = "viaStream" => streamClaimed

\* After a local close no message leaves the queue, and after the claim none is
\* handed to a receive, though it was pending before (rejectWaiters, discard).
SignalsWin ==
  [][/\ localClosed => taken' = taken
     /\ streamClaimed => \A r \in Receives :
                           recvSt'[r] = "message" => recvSt[r] = "message"]_vars

\* `sent` is the number of elements that were handed to the platform, whatever
\* stops the stream (sendViaStream).
SentCountExact ==
  /\ viaSent = Cardinality({k \in DOMAIN out : out[k].kind = "via"})
  /\ via = "ok" => viaSent = viaTaken

\* A connect that failed, or was discarded, leaves no platform socket open:
\* timeout, refused subprotocol, and an abort at any moment (connect).
NoSocketLeaked ==
  conn = "failed" \/ (conn = "open" /\ aborted)
    => readyState \notin {"CONNECTING", "OPEN"}

\* A local close and an overflow settle although the peer never answers and the
\* platform never reports an end, and no send still waits for room (close,
\* #transportClosing, #settleClosed, send).
ClosingIsBounded ==
  (localClosed \/ overflowed) ~>
    closeSettled /\ \A s \in Sends : sendSt[s] # "polling"

\* What ClosingIsBounded rests on at each moment: until it has settled, a close or an
\* overflow has a timer that runs; once settled, nobody waits, be it for the
\* outcome or for a message; and a pull of the stream that is pending is in
\* the queue that will answer it (close, #transportClosing, #settleClosed,
\* incomingQueue).
ClosingIsTimed ==
  /\ (localClosed \/ overflowed) /\ ~closeSettled => closeDeadline \in timers
  /\ closeSettled => closed /\ waiters = <<>> /\ ~waiting
  /\ strm = "pulling" => "stream" \in Waiting
-----------------------------------------------------------------------------
(***************************************************************************)
(* The contract.  `closed` is mapped to the settlement: between the end of *)
(* the platform's connection and its `close` event `state` already says    *)
(* closed, and a close() in between turns that into closing.               *)
(***************************************************************************)
WireFrames == SubSeq(out, 1, left)

Contract == INSTANCE WsContract
  WITH Infos <- Outcomes \ {Unset},
       Unset <- Unset,
       phase <- IF closeSettled THEN "closed"
                ELSE IF State = "open" THEN "open" ELSE "closing",
       local <- localClosed,
       inbox <- messages,
       got   <- taken,
       ended <- closeSettled,
       out   <- [k \in DOMAIN WireFrames |->
                   IF WireFrames[k].kind = "close" THEN "close" ELSE "data"],
       info  <- closeInfo

\* Every step of the event loop, the guest and the peer is a step of the
\* contract, or none (websocket.ts against wit/websocket.wit).
ImplementsContract == Contract!CSpec
=============================================================================
