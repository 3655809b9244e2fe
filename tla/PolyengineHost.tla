--------------------------- MODULE PolyengineHost ---------------------------
(***************************************************************************)
(* One connection of the JS host, js/polyengine/websocket.ts: the resource *)
(* and its inbound queue over the platform's WebSocket, from `connect` on. *)
(*                                                                         *)
(* Everything runs on one event loop: a step is what runs between two      *)
(* awaits, or one event's listener, with guest calls anywhere in between.  *)
(*                                                                         *)
(* The platform's WebSocket is external, the W3C interface as the code     *)
(* uses it: readyState changes before the event that tells of it, messages *)
(* are reported in order and only while OPEN, an `error` event precedes    *)
(* the `close` event of a failed connection, and the guest may run between *)
(* the two, and between two listeners of one event.                        *)
(*                                                                         *)
(* A message of the peer is its number, Offset its sizes, as for the other *)
(* hosts; MaxBuffered is MAX_BUFFERED_AMOUNT counted in messages.          *)
(***************************************************************************)
EXTENDS Integers, Sequences

CONSTANTS
  Receives,      \* the guest's readers: each calls `receive`, one call at a time
  Sends,         \* the `send` calls the guest may make, each at most once
  MaxItems,      \* bound: elements of the stream given to send-via-stream
  CloseRequests, \* the [code, reasonLen] arguments the guest may pass `close`
  PeerCodes,     \* the codes a peer's close frame shows as in a CloseEvent
  AbnormalCodes, \* the codes the platform shows for an end without one
  MaxMsgs,       \* bound: data messages the peer sends
  Offset,        \* Offset[i]: payload bytes of the peer's first i messages
  Limit,         \* maxInboundBuffered
  MaxBuffered    \* bufferedAmount above which `send` waits

ASSUME ReadersAssumption == "stream" \notin Receives

ASSUME SizesAssumption ==
  /\ MaxMsgs \in Nat /\ MaxItems \in Nat /\ Limit \in Nat
  /\ Offset \in [0 .. MaxMsgs -> Nat]
  /\ \A i, j \in 0 .. MaxMsgs : i =< j => Offset[i] =< Offset[j]

\* The codes of the platform's own making are the ones #settleClosed knows.
ASSUME CodesAssumption ==
  PeerCodes \subseteq Nat /\ AbnormalCodes \subseteq {0, 1006, 1015}

VARIABLES
  conn,          \* connect: "none", "handshake", "opened", then its outcome
  aborted,       \* the AbortSignal has fired
  readyState,    \* the platform's readyState
  tasks,         \* events the platform has yet to report
  stage,         \* how far the reporting of the connection's end has come
  out,           \* frames handed to the platform, in order
  left,          \* how many of them are on the wire
  peerSent,      \* data messages the peer has sent
  netDone,       \* the transport brings nothing more
  localClosed,   \* #localClosed
  streamClaimed, \* #streamClaimed
  closeSettled,  \* #closeSettled
  closeInfo,     \* #closeInfo
  closeDeadline, \* #closeDeadline: NoTimer, or the timer it holds
  timers,        \* timers that run
  waiting,       \* #closeWaiters is not empty
  messages,      \* incomingQueue: messages
  waiters,       \* incomingQueue: waiters
  buffered,      \* incomingQueue: buffered
  overflowed,    \* incomingQueue: overflowed
  closed,        \* incomingQueue: closed
  recvSt,        \* the outcome of each reader's last `receive`
  strm,          \* the claimed stream: its source's state
  element,       \* the element the stream holds ready for the guest
  sendSt,        \* the outcome of each `send` call
  via,           \* sendViaStream's control point, then its outcome
  viaSent,       \* sendViaStream's sent
  viaTaken,      \* elements sendViaStream took from its stream
  taken,         \* messages taken from the queue, in order
  waited         \* the values `wait-closed` has resolved with

connecting == <<conn, aborted>>
platform   == <<readyState, tasks, stage>>
outward    == <<out, left>>
net        == <<peerSent, netDone>>
flags      == <<localClosed, streamClaimed>>
settling   == <<closeSettled, closeInfo, closeDeadline, timers, waiting, waited>>
queue      == <<messages, waiters, buffered, overflowed, closed>>
inward     == <<recvSt, strm, element, taken>>
sending    == <<sendSt, via, viaSent, viaTaken>>

vars == <<connecting, platform, outward, net, flags, settling, queue, inward,
          sending>>

NoCode  == -1
NoFrame == -1
Unset   == -2
NoTimer == "none"

\* Mutant: the codes browsers make up, without the one Deno does.
BrowserSynthesized == {1006, 1015}

\* SYNTHESIZED_CLOSE_CODES: no close frame carried them.
Synthesized == {0, 1006, 1015}

Size(i)    == Offset[i] - Offset[i - 1]
Data(i)    == [kind |-> "data", arg |-> i]
Ending(c)  == [kind |-> "closed", arg |-> c]
Waiting    == {waiters[k] : k \in DOMAIN waiters}
CloseFrame == [kind |-> "close", from |-> NoCode]

Init ==
  /\ conn = "none" /\ aborted = FALSE
  /\ readyState = "NONE" /\ tasks = <<>> /\ stage = "none"
  /\ out = <<>> /\ left = 0 /\ peerSent = 0 /\ netDone = FALSE
  /\ localClosed = FALSE /\ streamClaimed = FALSE
  /\ closeSettled = FALSE /\ closeInfo = Unset /\ closeDeadline = NoTimer
  /\ timers = {} /\ waiting = FALSE /\ waited = {}
  /\ messages = <<>> /\ waiters = <<>> /\ buffered = 0
  /\ overflowed = FALSE /\ closed = FALSE
  /\ recvSt = [r \in Receives |-> "unused"] /\ strm = "none" /\ element = <<>>
  /\ taken = <<>>
  /\ sendSt = [s \in Sends |-> "unused"]
  /\ via = "unused" /\ viaSent = 0 /\ viaTaken = 0
-----------------------------------------------------------------------------
(***************************************************************************)
(* connect                                                                 *)
(***************************************************************************)

\* ws.close(): nothing once the platform is closing.
WsClose ==
  /\ readyState' = IF readyState \in {"CONNECTING", "OPEN"} THEN "CLOSING"
                                                            ELSE readyState
  /\ out' = IF readyState = "OPEN" THEN Append(out, CloseFrame) ELSE out
  /\ UNCHANGED <<tasks, stage, left>>

\* Validation fails eagerly, before there is a platform socket; an abort that
\* came first, or a platform that refuses, fails the call as well.
ConnectRefused ==
  /\ conn = "none"
  /\ conn' \in {"invalidUrl", "invalidArgument", "failed"}
  /\ UNCHANGED <<aborted, platform, outward, net, flags, settling,
                 queue, inward, sending>>

Connect ==
  /\ conn = "none" /\ ~aborted
  /\ conn' = "handshake" /\ readyState' = "CONNECTING"
  /\ UNCHANGED <<aborted, tasks, stage, outward, net, flags, settling, queue,
                 inward, sending>>

\* The handshake failed: the `error` event is waited out for the `close` event.
ConnectFails ==
  /\ conn = "handshake" /\ readyState = "CONNECTING"
  /\ conn' = "failed" /\ readyState' = "CLOSED" /\ netDone' = TRUE
  /\ UNCHANGED <<aborted, tasks, stage, outward, peerSent, flags,
                 settling, queue, inward, sending>>

\* Mutant: a connect that gives up without closing what it opened.
GivesUpOnly == UNCHANGED <<platform, outward>>

\* What connect does with the platform's socket when it gives up on it.
GivesUp == WsClose

\* The connect bound passes, or an abort arrives, while the handshake is pending.
ConnectTimesOut ==
  /\ conn = "handshake" /\ readyState = "CONNECTING"
  /\ conn' = "failed" /\ GivesUp
  /\ UNCHANGED <<aborted, net, flags, settling, queue, inward, sending>>

Opens ==
  /\ conn = "handshake" /\ readyState = "CONNECTING"
  /\ conn' = "opened" /\ readyState' = "OPEN"
  /\ UNCHANGED <<aborted, tasks, stage, outward, net, flags, settling,
                 queue, inward, sending>>

\* The `await` returns: the server's subprotocol is checked against the offer,
\* then an abort that arrived after the `open` event is honoured.
ConnectReturns ==
  /\ conn = "opened"
  /\ \E agreed \in BOOLEAN :
       /\ conn' = IF agreed THEN "open" ELSE "failed"
       /\ IF agreed /\ ~aborted THEN UNCHANGED <<platform, outward>> ELSE GivesUp
  /\ UNCHANGED <<aborted, net, flags, settling, queue, inward, sending>>

\* The guest is handed the resource.  No abort comes after that.
Delivered ==
  /\ conn = "open" /\ ~aborted /\ conn' = "held"
  /\ UNCHANGED <<aborted, platform, outward, net, flags, settling, queue,
                 inward, sending>>

\* The guest's cancellation discards the call: the abort listener, if one is
\* registered, runs.  None is between the `open` event and the return.
Abort ==
  /\ conn # "held" /\ ~aborted /\ aborted' = TRUE
  /\ conn' = IF conn = "handshake" THEN "failed" ELSE conn
  /\ IF conn \in {"handshake", "open"} THEN GivesUp
                                       ELSE UNCHANGED <<platform, outward>>
  /\ UNCHANGED <<net, flags, settling, queue, inward, sending>>
-----------------------------------------------------------------------------
(***************************************************************************)
(* The inbound queue                                                       *)
(***************************************************************************)
\* Mutant: the end of the queue does not tell an overflow apart.
EndIsClosed == "closed"

EndError == IF overflowed THEN "overflow" ELSE "closed"

\* Every waiter is rejected; a rejected pull closes the stream.
Reject(error) ==
  /\ recvSt' = [r \in Receives |-> IF r \in Waiting THEN error ELSE recvSt[r]]
  /\ strm' = IF "stream" \in Waiting /\ strm = "pulling" THEN "ended" ELSE strm
  /\ waiters' = <<>>
  /\ UNCHANGED <<element, taken>>

QueueEnds ==
  IF closed THEN UNCHANGED <<queue, inward>>
  ELSE /\ closed' = TRUE /\ Reject(EndError)
       /\ UNCHANGED <<messages, buffered, overflowed>>

\* Mutant: a discard that forgets the byte count.
DiscardMessages ==
  /\ messages' = <<>> /\ closed' = TRUE
  /\ UNCHANGED <<buffered, overflowed>> /\ Reject("closed")

Discard ==
  /\ messages' = <<>> /\ buffered' = 0 /\ closed' = TRUE
  /\ UNCHANGED overflowed /\ Reject("closed")

\* A message reaches whoever asked for it.
Hands(who, m) ==
  /\ taken' = Append(taken, m)
  /\ recvSt' = [r \in Receives |-> IF r = who THEN "message" ELSE recvSt[r]]
  /\ IF who = "stream" /\ strm \in {"idle", "pulling"}
     THEN strm' = "idle" /\ element' = <<m>>
     ELSE UNCHANGED <<strm, element>>

TakesNext(who) ==
  /\ messages # <<>>
  /\ messages' = Tail(messages) /\ buffered' = buffered - Size(Head(messages))
  /\ Hands(who, Head(messages))
  /\ UNCHANGED <<waiters, overflowed, closed>>

NextFails == messages = <<>> /\ (overflowed \/ closed)

Waits(who) ==
  /\ messages = <<>> /\ ~overflowed /\ ~closed
  /\ waiters' = Append(waiters, who)
  /\ UNCHANGED <<messages, buffered, overflowed, closed>>

Receive(r) ==
  /\ conn = "held" /\ recvSt[r] # "pending"
  /\ \/ /\ localClosed \/ streamClaimed
        /\ recvSt' = [recvSt EXCEPT ![r] = IF localClosed THEN "closed"
                                                          ELSE "viaStream"]
        /\ UNCHANGED <<queue, strm, element, taken>>
     \/ /\ ~localClosed /\ ~streamClaimed /\ TakesNext(r)
     \/ /\ ~localClosed /\ ~streamClaimed /\ NextFails
        /\ recvSt' = [recvSt EXCEPT ![r] = EndError]
        /\ UNCHANGED <<queue, strm, element, taken>>
     \/ /\ ~localClosed /\ ~streamClaimed /\ Waits(r)
        /\ recvSt' = [recvSt EXCEPT ![r] = "pending"]
        /\ UNCHANGED <<strm, element, taken>>
  /\ UNCHANGED <<connecting, platform, outward, net, flags, settling, sending>>

\* Mutant: the claim leaves the pending receives in the queue of waiters.
ClaimsOnly == UNCHANGED <<waiters, recvSt>>

ClaimRejects ==
  /\ waiters' = <<>>
  /\ recvSt' = [r \in Receives |-> IF r \in Waiting THEN "viaStream" ELSE recvSt[r]]

ReceiveViaStream ==
  /\ conn = "held" /\ ~localClosed /\ ~streamClaimed
  /\ streamClaimed' = TRUE /\ strm' = "idle"
  /\ ClaimRejects
  /\ UNCHANGED <<connecting, platform, outward, net, localClosed, settling,
                 messages, buffered, overflowed, closed, element, taken, sending>>

\* The stream pulls while it holds no element: that is, one element ahead.
StreamPulls ==
  /\ strm = "idle" /\ element = <<>>
  /\ \/ TakesNext("stream")
     \/ /\ NextFails /\ strm' = "ended"
        /\ UNCHANGED <<queue, recvSt, element, taken>>
     \/ /\ Waits("stream") /\ strm' = "pulling"
        /\ UNCHANGED <<recvSt, element, taken>>
  /\ UNCHANGED <<connecting, platform, outward, net, flags, settling, sending>>

StreamRead ==
  /\ element # <<>> /\ element' = <<>>
  /\ UNCHANGED <<connecting, platform, outward, net, flags, settling, queue,
                 recvSt, strm, taken, sending>>

\* The guest drops the stream; a pending pull keeps its place in the queue.
StreamDropped ==
  /\ strm \in {"idle", "pulling"} /\ strm' = "dropped" /\ element' = <<>>
  /\ UNCHANGED <<connecting, platform, outward, net, flags, settling, queue,
                 recvSt, taken, sending>>
-----------------------------------------------------------------------------
(***************************************************************************)
(* Sending                                                                 *)
(***************************************************************************)
\* The platform's bufferedAmount, in messages.
BufferedAmount == Len(SelectSeq(SubSeq(out, left + 1, Len(out)),
                                LAMBDA f : f # CloseFrame))

SendRefused == localClosed \/ readyState # "OPEN"
SendGoes    == ~SendRefused /\ BufferedAmount =< MaxBuffered
SendWaits   == ~SendRefused /\ BufferedAmount > MaxBuffered

WsSend(frame) == out' = Append(out, frame) /\ UNCHANGED left

\* `send`, and each turn of its poll.
Send(s) ==
  /\ conn = "held" /\ sendSt[s] \in {"unused", "polling"}
  /\ \/ /\ SendRefused /\ sendSt' = [sendSt EXCEPT ![s] = "closed"]
        /\ UNCHANGED outward
     \/ /\ SendGoes /\ sendSt' = [sendSt EXCEPT ![s] = "ok"]
        /\ WsSend([kind |-> "send", from |-> s])
     \/ /\ SendWaits /\ sendSt' = [sendSt EXCEPT ![s] = "polling"]
        /\ UNCHANGED outward
  /\ UNCHANGED <<connecting, platform, net, flags, settling, queue, inward,
                 via, viaSent, viaTaken>>

\* The guest hands sendViaStream its next element, with its payload, or the end.
SendViaStream ==
  /\ conn = "held" /\ via \in {"unused", "next"}
  /\ via' \in IF viaTaken < MaxItems THEN {"item", "ok"} ELSE {"ok"}
  /\ viaTaken' = IF via' = "item" THEN viaTaken + 1 ELSE viaTaken
  /\ UNCHANGED <<connecting, platform, outward, net, flags, settling, queue,
                 inward, sendSt, viaSent>>

\* Mutant: an element counts before it is sent.
SentCounting(goes) == viaSent + 1

\* `sent` after an attempt to send one element.
SentAfter(goes) == IF goes THEN viaSent + 1 ELSE viaSent

\* The payload, which may not be what the element declares, is checked, then
\* sent as by `send`.
ViaSends ==
  /\ via = "item"
  /\ \/ via' = "other" /\ UNCHANGED <<outward, viaSent>>
     \/ /\ ~SendWaits /\ viaSent' = SentAfter(SendGoes)
        /\ \/ SendRefused /\ via' = "closed" /\ UNCHANGED outward
           \/ SendGoes /\ via' = "next" /\ WsSend([kind |-> "via", from |-> viaTaken])
  /\ UNCHANGED <<connecting, platform, net, flags, settling, queue, inward,
                 sendSt, viaTaken>>

\* External: what the platform took reaches the wire.
Drains ==
  /\ left < Len(out) /\ left' = left + 1
  /\ UNCHANGED <<connecting, platform, out, net, flags, settling, queue, inward,
                 sending>>
-----------------------------------------------------------------------------
(***************************************************************************)
(* Closing                                                                 *)
(***************************************************************************)
CloseArgsValid(req) ==
  /\ req.code \in {NoCode, 1000} \cup 3000 .. 4999
  /\ req.reasonLen =< 123
  /\ req.code = NoCode => req.reasonLen = 0

\* `close` with valid arguments, and the dtor.  A second one does nothing.
Closes ==
  /\ conn = "held" /\ ~localClosed /\ localClosed' = TRUE
  /\ Discard
  /\ closeDeadline' = "close" /\ timers' = timers \cup {"close"}
  /\ WsClose
  /\ UNCHANGED <<connecting, net, streamClaimed, closeSettled, closeInfo,
                 waiting, waited, sending>>

Close(req) == CloseArgsValid(req) /\ Closes

Drop == Closes

WaitClosed ==
  /\ conn = "held"
  /\ IF closeSettled THEN waited' = waited \cup {closeInfo} /\ UNCHANGED waiting
                     ELSE waiting' = TRUE /\ UNCHANGED waited
  /\ UNCHANGED <<connecting, platform, outward, net, flags, closeSettled,
                 closeInfo, closeDeadline, timers, queue, inward, sending>>

\* #currentState.
State ==
  IF closeSettled THEN "closed"
  ELSE IF localClosed THEN "closing"
  ELSE CASE readyState = "CLOSING" -> "closing"
         [] readyState = "CLOSED" -> "closed"
         [] OTHER -> "open"

\* #settleClosed, with the code of the CloseEvent, or without one.
Settles(code) ==
  /\ closeSettled' = TRUE
  /\ closeInfo' = IF code \in Synthesized THEN NoFrame ELSE code
  /\ closeDeadline' = NoTimer
  /\ waited' = IF waiting THEN waited \cup {closeInfo'} ELSE waited
  /\ waiting' = FALSE
  /\ QueueEnds

\* Mutant: the bound of a close is not armed for an overflow.
OverflowUnbounded == UNCHANGED <<closeDeadline, timers>>

\* #transportClosing.
TransportClosing ==
  IF ~closeSettled /\ closeDeadline = NoTimer
  THEN closeDeadline' = "overflow" /\ timers' = timers \cup {"overflow"}
  ELSE UNCHANGED <<closeDeadline, timers>>

\* A timer of closeTimeoutMs fires; it may be one the resource lost hold of.
TimerFires(t) ==
  /\ t \in timers
  /\ IF closeSettled
     THEN /\ timers' = timers \ {t}
          /\ UNCHANGED <<closeSettled, closeInfo, closeDeadline, waiting, waited,
                         queue, inward>>
     ELSE timers' = timers \ {t, closeDeadline} /\ Settles(NoFrame)
  /\ UNCHANGED <<connecting, platform, outward, net, flags, sending>>
-----------------------------------------------------------------------------
(***************************************************************************)
(* What the platform reports                                               *)
(***************************************************************************)
Reported(kind) ==
  /\ conn \in {"open", "held"} /\ stage = "none" /\ tasks # <<>>
  /\ Head(tasks).kind = kind /\ tasks' = Tail(tasks)

Fits(size) == buffered + size =< Limit

\* The `message` listener.
MessageEvent ==
  /\ Reported("data")
  /\ LET m == Head(tasks).arg IN
     \/ /\ readyState # "OPEN" \/ overflowed
        /\ UNCHANGED <<readyState, stage, outward, settling, queue, inward>>
     \/ /\ readyState = "OPEN" /\ ~overflowed /\ ~Fits(Size(m))
        /\ overflowed' = TRUE
        /\ readyState' = "CLOSING" /\ out' = Append(out, CloseFrame)
        /\ TransportClosing
        /\ UNCHANGED <<stage, left, closeSettled, closeInfo, waiting, waited,
                       messages, waiters, buffered, closed, inward>>
     \/ /\ readyState = "OPEN" /\ ~overflowed /\ Fits(Size(m)) /\ waiters # <<>>
        /\ Hands(Head(waiters), m) /\ waiters' = Tail(waiters)
        /\ UNCHANGED <<readyState, stage, outward, settling, messages, buffered,
                       overflowed, closed>>
     \/ /\ readyState = "OPEN" /\ ~overflowed /\ Fits(Size(m)) /\ waiters = <<>>
        /\ messages' = Append(messages, m) /\ buffered' = buffered + Size(m)
        /\ UNCHANGED <<readyState, stage, outward, settling, waiters, overflowed,
                       closed, inward>>
  /\ UNCHANGED <<connecting, net, flags, sending>>

\* External: the peer's close frame shows in readyState before the close event.
ClosingShows ==
  /\ Reported("closing")
  /\ readyState' = IF readyState = "OPEN" THEN "CLOSING" ELSE readyState
  /\ UNCHANGED <<connecting, stage, outward, net, flags, settling, queue, inward,
                 sending>>

EndCode == Head(tasks).arg

\* The connection has ended: readyState says so first, and if it failed an
\* `error` event does, whose listener ends the queue.
EndShows ==
  /\ conn \in {"open", "held"} /\ stage = "none"
  /\ tasks # <<>> /\ Head(tasks).kind = "closed"
  /\ readyState' = "CLOSED" /\ stage' = "shown"
  /\ IF EndCode \in Synthesized THEN QueueEnds ELSE UNCHANGED <<queue, inward>>
  /\ UNCHANGED <<connecting, tasks, outward, net, flags, settling, sending>>

\* The `close` event's first listener ends the queue.
CloseEventEnds ==
  /\ stage = "shown" /\ stage' = "ended" /\ QueueEnds
  /\ UNCHANGED <<connecting, readyState, tasks, outward, net, flags, settling,
                 sending>>

\* Its second listener settles the close.
CloseEventSettles ==
  /\ stage = "ended" /\ stage' = "done" /\ tasks' = <<>>
  /\ IF closeSettled
     THEN UNCHANGED <<settling, queue, inward>>
     ELSE timers' = timers \ {closeDeadline} /\ Settles(EndCode)
  /\ UNCHANGED <<connecting, readyState, outward, net, flags, sending>>
-----------------------------------------------------------------------------
(***************************************************************************)
(* The peer and the transport                                              *)
(***************************************************************************)
NetOnly(events) ==
  /\ readyState \in {"OPEN", "CLOSING"} /\ conn \in {"open", "held"} /\ ~netDone
  /\ tasks' = tasks \o events
  /\ UNCHANGED <<connecting, readyState, stage, outward, flags, settling, queue,
                 inward, sending>>

PeerData ==
  /\ peerSent < MaxMsgs /\ peerSent' = peerSent + 1 /\ UNCHANGED netDone
  /\ NetOnly(<<Data(peerSent + 1)>>)

\* The peer's close frame, its own or the reply to ours; then the end.
PeerClose(code) ==
  /\ netDone' = TRUE /\ UNCHANGED peerSent
  /\ NetOnly(<<[kind |-> "closing", arg |-> code], Ending(code)>>)

TransportEnds ==
  /\ netDone' = TRUE /\ UNCHANGED peerSent
  /\ \E code \in AbnormalCodes : NetOnly(<<Ending(code)>>)
-----------------------------------------------------------------------------
GuestCalls ==
  \/ \E r \in Receives : Receive(r)
  \/ \E s \in Sends : sendSt[s] = "unused" /\ Send(s)
  \/ \E req \in CloseRequests : Close(req)
  \/ ReceiveViaStream \/ StreamRead \/ StreamDropped \/ SendViaStream
  \/ WaitClosed \/ Drop

ConnectStep ==
  \/ ConnectRefused \/ Connect \/ ConnectFails \/ ConnectTimesOut \/ Opens
  \/ ConnectReturns \/ Delivered \/ Abort

\* Promise reactions and the polls of the drain.
Continues ==
  \/ StreamPulls \/ ViaSends
  \/ \E s \in Sends : sendSt[s] = "polling" /\ Send(s)

Reports ==
  MessageEvent \/ ClosingShows \/ EndShows \/ CloseEventEnds \/ CloseEventSettles

Timers == {"close", "overflow"}

PeerStep ==
  PeerData \/ (\E code \in PeerCodes : PeerClose(code)) \/ TransportEnds \/ Drains

Next ==
  \/ ConnectStep \/ GuestCalls \/ Continues \/ Reports
  \/ \E t \in Timers : TimerFires(t)
  \/ PeerStep

Spec == Init /\ [][Next]_vars

(***************************************************************************)
(* The event loop runs what is ready, and time passes.  Nothing is assumed *)
(* of the guest, of the peer or of the transport.                          *)
(***************************************************************************)
Fairness ==
  /\ WF_vars(Continues) /\ WF_vars(Reports)
  /\ WF_vars(\E t \in Timers : TimerFires(t))

FairSpec == Spec /\ Fairness
=============================================================================
