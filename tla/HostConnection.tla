--------------------------- MODULE HostConnection ---------------------------
(***************************************************************************)
(* One open connection of the Wasmtime host, src/rust/wasmtime: the pump   *)
(* task that owns the socket (websocket.rs), and the resource's operations *)
(* as the guest calls them (host.rs).                                      *)
(*                                                                         *)
(* Two threads share the connection.  The pump runs on the runtime's own   *)
(* thread.  The guest's operations run inside the component's store, one   *)
(* at a time: `op` is the control point of the operation that is running,  *)
(* and every other guest action waits until it is "idle" again.  The pump  *)
(* interleaves with the guest at every shared cell: the state cell, the    *)
(* local-close signal, the command channel, the inbound queue, the byte    *)
(* budget, the close-info latch and the closed signal.                     *)
(*                                                                         *)
(* The peer and the TCP transport are external: the peer may send data,    *)
(* pings, one close frame and an oversized message, the transport may      *)
(* accept a write, fail it, stall it forever, or die in either direction.  *)
(*                                                                         *)
(* A data message of the peer is its number, 1, 2, 3, ...; the payload     *)
(* size of message i is Offset[i] - Offset[i-1].  A deadline is "none",    *)
(* "armed" or "expired": time only matters where it bounds a wait.         *)
(***************************************************************************)
EXTENDS CloseArgs, Sequences, FiniteSets

CONSTANTS
  Sends,         \* the `send` calls the guest may make, each at most once
  Receives,      \* the `receive` calls the guest may make, each at most once
  CloseRequests, \* the [code, reasonLen] arguments the guest may pass `close`
  PeerCodes,     \* the codes a close frame of the peer may carry
  MaxMsgs,       \* bound: data messages the peer sends
  Offset,        \* Offset[i]: payload bytes of the peer's first i messages
  Limit,         \* max_inbound_buffer_bytes
  MaxPings,      \* bound: pings the peer sends, unless it floods
  Flood,         \* the peer pings without bound
  MaxWire,       \* bound: frames in flight from the peer
  NoCall         \* a value that is no call: the inbound lock is free

ASSUME CallsAssumption ==
  /\ NoCall \notin Receives
  /\ "stream" \notin Receives
  /\ NoCall # "stream"

ASSUME SizesAssumption ==
  /\ MaxMsgs \in Nat
  /\ Limit \in Nat
  /\ Offset \in [0 .. MaxMsgs -> Nat]
  /\ Offset[0] = 0
  /\ \A i, j \in 0 .. MaxMsgs : i =< j => Offset[i] =< Offset[j]

ASSUME CodesAssumption ==
  /\ PeerCodes \subseteq CloseCode
  /\ CloseRequests \subseteq [code : CloseCode, reasonLen : Nat]

ASSUME BoundsAssumption ==
  /\ MaxPings \in Nat
  /\ MaxWire \in Nat
  /\ Flood \in BOOLEAN

VARIABLES
  state,       \* ConnShared.state: the lifecycle cell
  closeInfo,   \* ConnShared.close_info: Unset, NoFrame, or the peer's code
  closedFired, \* ConnShared.closed
  localClosed, \* Websocket.local_closed
  claimed,     \* Websocket.stream_receiving
  dropped,     \* the resource was dropped
  cmdq,        \* the command channel, guest to pump
  cmdOpen,     \* the pump has not closed the command channel
  inq,         \* the inbound queue, pump to guest
  inOpen,      \* the pump still holds in_tx
  buffered,    \* InboundBudget.buffered
  overflowed,  \* InboundBudget.overflowed
  holder,      \* who holds the async lock around the inbound queue
  op,          \* the guest operation that is running
  inHand,      \* the message a reader took and has not accounted for yet
  closeCode,   \* the code of the `close` call that is running
  sendSt,      \* the outcome of each `send` call
  recvSt,      \* the outcome of each `receive` call
  streamSt,    \* the claimed stream: its producer's state
  pump,        \* the pump's control point
  writing,     \* the transport write the pump is in
  reserved,    \* the message whose reservation is being made
  wireClosing, \* Pump.wire_closing
  writeDead,   \* Pump.write_dead
  peerFrame,   \* Pump.peer_frame
  deadline,    \* Pump.deadline
  cmdsDone,    \* Pump::run's cmds_done
  wire,        \* frames from the peer the pump has not read
  wireDead,    \* the transport will bring nothing more
  peerSent,    \* data messages the peer has sent
  peerClosed,  \* the peer has sent its close frame
  pings,       \* pings sent, while they are counted
  toPeer,      \* frames handed to the transport, in order
  delivered,   \* messages handed to the guest, in order
  discarded,   \* a data message was read and thrown away
  waited       \* the values `wait-closed` has resolved with

shared    == <<state, closeInfo, closedFired>>
resource  == <<localClosed, claimed, dropped>>
channels  == <<cmdq, cmdOpen, inq, inOpen>>
budget    == <<buffered, overflowed>>
guestVars == <<holder, op, inHand, closeCode, sendSt, recvSt, streamSt>>
pumpRest  == <<writing, reserved, wireClosing, writeDead, peerFrame, deadline,
               cmdsDone>>
pumpVars  == <<pump, pumpRest>>
peerVars  == <<wire, wireDead, peerSent, peerClosed, pings>>
seen      == <<toPeer, delivered, discarded, waited>>

vars == <<shared, resource, channels, budget, guestVars, pumpVars, peerVars,
          seen>>
-----------------------------------------------------------------------------
Size(i) == Offset[i] - Offset[i - 1]

Rank(s) == CASE s = "open" -> 0 [] s = "closing" -> 1 [] s = "closed" -> 2

\* Mutant: a state cell that takes whatever it is given.
AdvanceAlways(next) == state' = next

\* StateCell::advance: forward only, and "closed" latches.
Advance(next) == state' = IF Rank(state) < Rank(next) THEN next ELSE state

\* Pump::arm_deadline, idempotent.
Armed(d) == IF d = "none" THEN "armed" ELSE d

\* Close outcomes that are no code: the latch is unset, no close frame came.
NoFrame == -1
Unset   == -2

\* What the pump hands the transport: a guest's message, a close frame of its
\* own, or a reply tungstenite queued and the pump flushes.
DataFrame(s)     == [kind |-> "send", from |-> s, code |-> NoCode]
CloseFrame(code) == [kind |-> "close", from |-> NoCall, code |-> code]
CloseReply       == [kind |-> "reply", from |-> NoCall, code |-> NoCode]
Pong             == [kind |-> "pong", from |-> NoCall, code |-> NoCode]

NoWrite == [frame |-> Pong, bound |-> "local", then |-> "select"]

Init ==
  /\ state = "open" /\ closeInfo = Unset /\ closedFired = FALSE
  /\ localClosed = FALSE /\ claimed = FALSE /\ dropped = FALSE
  /\ cmdq = <<>> /\ cmdOpen = TRUE /\ inq = <<>> /\ inOpen = TRUE
  /\ buffered = 0 /\ overflowed = FALSE
  /\ holder = NoCall /\ op = "idle" /\ inHand = 0 /\ closeCode = NoCode
  /\ sendSt = [s \in Sends |-> "unused"]
  /\ recvSt = [r \in Receives |-> "unused"]
  /\ streamSt = "unclaimed"
  /\ pump = "select" /\ writing = NoWrite /\ reserved = 0
  /\ wireClosing = FALSE /\ writeDead = FALSE /\ peerFrame = NoFrame
  /\ deadline = "none" /\ cmdsDone = FALSE
  /\ wire = <<>> /\ wireDead = FALSE /\ peerSent = 0
  /\ peerClosed = FALSE /\ pings = 0
  /\ toPeer = <<>> /\ delivered = <<>> /\ discarded = FALSE /\ waited = {}
-----------------------------------------------------------------------------
(***************************************************************************)
(* The guest's operations (host.rs, and the methods of Websocket).         *)
(***************************************************************************)

\* SendHandle::send: fail fast after a local close or once the pump has
\* closed the command channel, otherwise queue the message and await the ack.
Send(s) ==
  /\ op = "idle" /\ ~dropped /\ sendSt[s] = "unused"
  /\ IF localClosed \/ ~cmdOpen
       THEN sendSt' = [sendSt EXCEPT ![s] = "closed"] /\ UNCHANGED cmdq
       ELSE /\ sendSt' = [sendSt EXCEPT ![s] = "queued"]
            /\ cmdq' = Append(cmdq, DataFrame(s))
  /\ UNCHANGED <<shared, resource, cmdOpen, inq, inOpen, budget, holder, op,
                 inHand, closeCode, recvSt, streamSt, pumpVars, peerVars,
                 seen>>

\* Websocket::close, first part: arguments, then the local-close guard, then
\* the state cell.  The pump may run between this step and the next two.
Close(req) ==
  /\ op = "idle" /\ ~dropped
  /\ CloseArgsValid(req.code, req.reasonLen)
  /\ ~localClosed
  /\ Advance("closing")
  /\ op' = "closeFire" /\ closeCode' = req.code
  /\ UNCHANGED <<closeInfo, closedFired, resource, channels, budget, holder,
                 inHand, sendSt, recvSt, streamSt, pumpVars, peerVars, seen>>

\* Websocket::drop: the resource goes, and implies close(none, "").
Drop ==
  /\ op = "idle" /\ ~dropped
  /\ dropped' = TRUE
  /\ IF localClosed
       THEN UNCHANGED <<state, op, closeCode>>
       ELSE Advance("closing") /\ op' = "closeFire" /\ closeCode' = NoCode
  /\ UNCHANGED <<closeInfo, closedFired, localClosed, claimed, channels,
                 budget, holder, inHand, sendSt, recvSt, streamSt, pumpVars,
                 peerVars, seen>>

\* Websocket::close, second part: fire the local-close signal.
CloseFires ==
  /\ op = "closeFire"
  /\ localClosed' = TRUE /\ op' = "closeSend"
  /\ UNCHANGED <<shared, claimed, dropped, channels, budget, holder, inHand,
                 closeCode, sendSt, recvSt, streamSt, pumpVars, peerVars,
                 seen>>

\* Websocket::close, last part: enqueue Cmd::Close; a closed channel is ignored.
CloseEnqueues ==
  /\ op = "closeSend"
  /\ cmdq' = IF cmdOpen THEN Append(cmdq, CloseFrame(closeCode)) ELSE cmdq
  /\ op' = "idle" /\ closeCode' = NoCode
  /\ UNCHANGED <<shared, resource, cmdOpen, inq, inOpen, budget, holder,
                 inHand, sendSt, recvSt, streamSt, pumpVars, peerVars, seen>>

\* HostWebsocket::receive, up to its first await.
Receive(r) ==
  /\ op = "idle" /\ ~dropped /\ recvSt[r] = "unused"
  /\ recvSt' = [recvSt EXCEPT ![r] = CASE localClosed -> "closed"
                                       [] ~localClosed /\ claimed -> "viaStream"
                                       [] OTHER -> "pending"]
  /\ UNCHANGED <<shared, resource, channels, budget, holder, op, inHand,
                 closeCode, sendSt, streamSt, pumpVars, peerVars, seen>>

\* Mutant: a dropped future keeps the queue lock.
ReleasedNever(c) == holder

\* A future that ends, or is dropped, gives the queue lock back.
Released(c) == IF holder = c THEN NoCall ELSE holder

\* Mutant: the queue is polled before the stream-started signal.
NotSignalledLocally == ~dropped /\ ~localClosed

\* The two signal arms of receive's select_biased, polled before the queue:
\* the stream was claimed (or the resource dropped unclaimed), or closed here.
NotSignalled == ~claimed /\ ~dropped /\ ~localClosed

ReceiveSignalled(r) ==
  /\ op = "idle" /\ recvSt[r] = "pending"
  /\ ~NotSignalled
  /\ recvSt' = [recvSt EXCEPT ![r] = IF claimed THEN "viaStream" ELSE "closed"]
  /\ holder' = Released(r)
  /\ UNCHANGED <<shared, resource, channels, budget, op, inHand, closeCode,
                 sendSt, streamSt, pumpVars, peerVars, seen>>

\* next_inbound takes the queue lock.
ReceiveLocks(r) ==
  /\ op = "idle" /\ recvSt[r] = "pending" /\ holder = NoCall
  /\ NotSignalled
  /\ holder' = r
  /\ UNCHANGED <<shared, resource, channels, budget, op, inHand, closeCode,
                 sendSt, recvSt, streamSt, pumpVars, peerVars, seen>>

\* InboundQueue::next, first part: take the head of the queue.  The reader's
\* bytes stay in the budget until ReaderReleases.
TakeHead ==
  /\ inq # <<>>
  /\ inq' = Tail(inq) /\ inHand' = Head(inq)
  /\ delivered' = Append(delivered, Head(inq))
  /\ holder' = NoCall /\ op' = "release"

ReceiveTakes(r) ==
  /\ op = "idle" /\ recvSt[r] = "pending" /\ holder = r
  /\ NotSignalled
  /\ TakeHead
  /\ recvSt' = [recvSt EXCEPT ![r] = "message"]
  /\ UNCHANGED <<shared, resource, cmdq, cmdOpen, inOpen, budget, closeCode,
                 sendSt, streamSt, pumpVars, peerVars, toPeer, discarded,
                 waited>>

\* InboundQueue::next, second part: release the bytes that were taken.
ReaderReleases ==
  /\ op = "release"
  /\ buffered' = buffered - Size(inHand)
  /\ op' = "idle" /\ inHand' = 0
  /\ UNCHANGED <<shared, resource, channels, overflowed, holder, closeCode,
                 sendSt, recvSt, streamSt, pumpVars, peerVars, seen>>

\* Mutant: every end of the queue is a close.
EndAlwaysClosed == "closed"

\* next_inbound at the queue's end: the overflow is told apart from a close.
EndOutcome == IF overflowed THEN "overflow" ELSE "closed"

ReceiveEnds(r) ==
  /\ op = "idle" /\ recvSt[r] = "pending" /\ holder = r
  /\ NotSignalled
  /\ inq = <<>> /\ ~inOpen
  /\ recvSt' = [recvSt EXCEPT ![r] = EndOutcome]
  /\ holder' = NoCall
  /\ UNCHANGED <<shared, resource, channels, budget, op, inHand, closeCode,
                 sendSt, streamSt, pumpVars, peerVars, seen>>

\* receive_via_stream: claim the inbound messages, waking pending receives.
\* Its other outcomes (closed, already claimed) change nothing.
ReceiveViaStream ==
  /\ op = "idle" /\ ~dropped /\ ~localClosed /\ ~claimed
  /\ claimed' = TRUE /\ streamSt' = "idle"
  /\ UNCHANGED <<shared, localClosed, dropped, channels, budget, holder, op,
                 inHand, closeCode, sendSt, recvSt, pumpVars, peerVars, seen>>

\* poll_produce: the guest reads the stream, which starts a `pending` future
\* that outlives a cancelled read.
StreamRead ==
  /\ op = "idle" /\ streamSt = "idle"
  /\ streamSt' = "pending"
  /\ UNCHANGED <<shared, resource, channels, budget, holder, op, inHand,
                 closeCode, sendSt, recvSt, pumpVars, peerVars, seen>>

StreamLocks ==
  /\ op = "idle" /\ streamSt = "pending" /\ ~localClosed /\ holder = NoCall
  /\ holder' = "stream"
  /\ UNCHANGED <<shared, resource, channels, budget, op, inHand, closeCode,
                 sendSt, recvSt, streamSt, pumpVars, peerVars, seen>>

StreamTakes ==
  /\ op = "idle" /\ streamSt = "pending" /\ ~localClosed /\ holder = "stream"
  /\ TakeHead
  /\ streamSt' = "idle"
  /\ UNCHANGED <<shared, resource, cmdq, cmdOpen, inOpen, budget, closeCode,
                 sendSt, recvSt, pumpVars, peerVars, toPeer, discarded,
                 waited>>

\* The stream ends: the local-close arm is polled first, else the queue ended.
StreamEnds ==
  /\ op = "idle" /\ streamSt = "pending"
  /\ localClosed \/ (holder = "stream" /\ inq = <<>> /\ ~inOpen)
  /\ streamSt' = "ended" /\ holder' = Released("stream")
  /\ UNCHANGED <<shared, resource, channels, budget, op, inHand, closeCode,
                 sendSt, recvSt, pumpVars, peerVars, seen>>

\* The guest drops the stream's reader, and the producer with it.
StreamDropped ==
  /\ op = "idle" /\ streamSt \in {"idle", "pending"}
  /\ streamSt' = "ended" /\ holder' = Released("stream")
  /\ UNCHANGED <<shared, resource, channels, budget, op, inHand, closeCode,
                 sendSt, recvSt, pumpVars, peerVars, seen>>

\* Mutant: wait-closed is woken by the local close too.
SignalledEarly == closedFired \/ localClosed

ClosedSignalled == closedFired

\* ClosedHandle::wait: once the signal fired, read the latch; an unset latch
\* reads as none.
WaitClosed ==
  /\ op = "idle" /\ ~dropped /\ ClosedSignalled
  /\ waited' = waited \cup {IF closeInfo = Unset THEN NoFrame ELSE closeInfo}
  /\ UNCHANGED <<shared, resource, channels, budget, guestVars, pumpVars,
                 peerVars, toPeer, delivered, discarded>>
-----------------------------------------------------------------------------
(***************************************************************************)
(* The pump (Pump::run).                                                   *)
(***************************************************************************)

\* Pump::bounded_write's beginning, under the deadline d: nothing more is
\* written once the write half is dead.
StartWrite(frame, d, then) ==
  IF writeDead
    THEN pump' = then /\ writing' = NoWrite
    ELSE /\ pump' = "write"
         /\ writing' = [frame |-> frame, then |-> then,
                        bound |-> IF d = "none" THEN "local" ELSE "deadline"]

\* Pump::begin_close, idempotent; control continues at `then`.
BeginClose(code, then) ==
  IF wireClosing
    THEN /\ pump' = then
         /\ UNCHANGED <<state, wireClosing, deadline, writing>>
    ELSE /\ wireClosing' = TRUE
         /\ Advance("closing")
         /\ deadline' = Armed(deadline)
         /\ StartWrite(CloseFrame(code), Armed(deadline), then)

\* Every sender is gone: the resource was dropped and no send awaits its ack.
NoSender == dropped /\ op = "idle" /\ \A s \in Sends : sendSt[s] # "queued"

\* The first arm of the biased select has something to do.
CmdReady == ~cmdsDone /\ (cmdq # <<>> \/ NoSender)

\* Mutant: closing alone does not stop sends.
RefusedIfDead == writeDead

\* Cmd::Send: refused once closing or dead, otherwise written.
Refused == wireClosing \/ writeDead

PumpSend ==
  /\ pump = "select" /\ ~cmdsDone /\ cmdq # <<>> /\ Head(cmdq).kind = "send"
  /\ cmdq' = Tail(cmdq)
  /\ IF Refused
       THEN /\ sendSt' = [sendSt EXCEPT ![Head(cmdq).from] = "closed"]
            /\ UNCHANGED <<pump, writing>>
       ELSE /\ StartWrite(Head(cmdq), deadline, "select")
            /\ UNCHANGED sendSt
  /\ UNCHANGED <<shared, resource, cmdOpen, inq, inOpen, budget, holder, op,
                 inHand, closeCode, recvSt, streamSt, reserved, wireClosing,
                 writeDead, peerFrame, deadline, cmdsDone, peerVars, seen>>

\* Cmd::Close.
PumpClose ==
  /\ pump = "select" /\ ~cmdsDone /\ cmdq # <<>> /\ Head(cmdq).kind = "close"
  /\ cmdq' = Tail(cmdq)
  /\ BeginClose(Head(cmdq).code, "select")
  /\ UNCHANGED <<closeInfo, closedFired, resource, cmdOpen, inq, inOpen,
                 budget, guestVars, reserved, writeDead, peerFrame, cmdsDone,
                 peerVars, seen>>

\* The command channel is exhausted: drop-implies-close.
PumpCmdsDone ==
  /\ pump = "select" /\ ~cmdsDone /\ cmdq = <<>> /\ NoSender
  /\ cmdsDone' = TRUE
  /\ BeginClose(NoCode, "select")
  /\ UNCHANGED <<closeInfo, closedFired, resource, channels, budget, guestVars,
                 reserved, writeDead, peerFrame, peerVars, seen>>

\* The second arm: a frame of this kind was read.
Reads(kind) ==
  /\ pump = "select" /\ ~CmdReady
  /\ wire # <<>> /\ Head(wire).kind = kind
  /\ wire' = Tail(wire)
  /\ UNCHANGED <<wireDead, peerSent, peerClosed, pings>>

\* Data arriving during a closing handshake is discarded.
Discards == wireClosing

\* Mutant: the bound is checked before the message is counted.
FitsBefore(i) == ~overflowed /\ buffered < Limit

\* InboundBudget::reserve's check.
Fits(i) == ~overflowed /\ buffered + Size(i) =< Limit

\* Mutant: what does not fit is skipped, and the connection goes on.
OverflowSkips ==
  /\ discarded' = TRUE /\ pump' = "select"
  /\ UNCHANGED <<overflowed, state, wireClosing, deadline, writing>>

\* A message that does not fit: latch the overflow and close toward the peer.
Overflow == overflowed' = TRUE /\ discarded' = TRUE /\ BeginClose(NoCode, "select")

\* Pump::deliver and InboundBudget::reserve, up to the addition.
PumpData ==
  /\ Reads("data")
  /\ LET i == Head(wire).arg
     IN  \/ /\ Discards
            /\ discarded' = TRUE
            /\ UNCHANGED <<state, overflowed, pump, reserved, wireClosing,
                           deadline, writing>>
         \/ /\ ~Discards /\ Fits(i)
            /\ pump' = "reserve" /\ reserved' = i
            /\ UNCHANGED <<state, overflowed, discarded, wireClosing, deadline,
                           writing>>
         \/ /\ ~Discards /\ ~Fits(i)
            /\ Overflow /\ UNCHANGED reserved
  /\ UNCHANGED <<closeInfo, closedFired, resource, channels, buffered,
                 guestVars, writeDead, peerFrame, cmdsDone, toPeer, delivered,
                 waited>>

\* Mutant: the bytes are never added.
AddsNothing == buffered' = buffered

Adds == buffered' = buffered + Size(reserved)

\* InboundBudget::reserve's addition, then the push.  A reader may release
\* bytes between the check and this step.
PumpReserves ==
  /\ pump = "reserve"
  /\ Adds
  /\ inq' = Append(inq, reserved)
  /\ pump' = "select" /\ reserved' = 0
  /\ UNCHANGED <<shared, resource, cmdq, cmdOpen, inOpen, overflowed,
                 guestVars, writing, wireClosing, writeDead, peerFrame,
                 deadline, cmdsDone, peerVars, seen>>

\* The peer's close frame.  tungstenite has queued the reply; it is flushed
\* when this side has not closed yet.
PumpPeerClose ==
  /\ Reads("close")
  /\ peerFrame' = IF peerFrame = NoFrame THEN CloseInfoFrom(Head(wire).arg)
                                         ELSE peerFrame
  /\ Advance("closing")
  /\ deadline' = Armed(deadline)
  /\ IF wireClosing
       THEN UNCHANGED <<wireClosing, pump, writing>>
       ELSE wireClosing' = TRUE /\ StartWrite(CloseReply, Armed(deadline), "select")
  /\ UNCHANGED <<closeInfo, closedFired, resource, channels, budget, guestVars,
                 reserved, writeDead, cmdsDone, seen>>

\* A ping: flush the pong tungstenite queued.
PumpPing ==
  /\ Reads("ping")
  /\ StartWrite(Pong, deadline, "select")
  /\ UNCHANGED <<shared, resource, channels, budget, guestVars, reserved,
                 wireClosing, writeDead, peerFrame, deadline, cmdsDone, seen>>

\* Error::Capacity: a message past the transport's cap is an overflow too,
\* and the loop ends once the close frame was tried.
PumpCapacity ==
  /\ Reads("big")
  /\ overflowed' = TRUE /\ discarded' = TRUE
  /\ BeginClose(NoCode, "publish")
  /\ UNCHANGED <<closeInfo, closedFired, resource, channels, buffered,
                 guestVars, reserved, writeDead, peerFrame, cmdsDone, toPeer,
                 delivered, waited>>

\* A read error or the end of the transport ends the loop.
PumpEnd ==
  /\ Reads("eof")
  /\ pump' = "publish"
  /\ UNCHANGED <<shared, resource, channels, budget, guestVars, pumpRest,
                 seen>>

\* The last arm: the deadline, only when neither other arm is ready.
PumpDeadline ==
  /\ pump = "select" /\ ~CmdReady /\ wire = <<>> /\ deadline = "expired"
  /\ pump' = "publish"
  /\ UNCHANGED <<shared, resource, channels, budget, guestVars, pumpRest,
                 peerVars, seen>>
-----------------------------------------------------------------------------
(***************************************************************************)
(* Inside Pump::bounded_write.                                             *)
(***************************************************************************)

\* Mutant: a failed write ends the loop instead of the write half.
EndWriteQuits(result) ==
  /\ pump' = IF result = "ok" THEN writing.then ELSE "publish"
  /\ writing' = NoWrite
  /\ sendSt' = IF writing.frame.kind = "send"
                 THEN [sendSt EXCEPT ![writing.frame.from] = result]
                 ELSE sendSt

\* The write ends with this result; a guest's send gets it as its ack.
EndWrite(result) ==
  /\ pump' = writing.then /\ writing' = NoWrite
  /\ sendSt' = IF writing.frame.kind = "send"
                 THEN [sendSt EXCEPT ![writing.frame.from] = result]
                 ELSE sendSt

\* The frame goes out; a pong is of no interest to any property.
HandOver == toPeer' = IF writing.frame = Pong THEN toPeer
                                              ELSE Append(toPeer, writing.frame)

\* The transport took the frame.
WriteAccepted ==
  /\ pump = "write"
  /\ EndWrite("ok") /\ HandOver
  /\ UNCHANGED <<shared, resource, channels, budget, holder, op, inHand,
                 closeCode, recvSt, streamSt, reserved, wireClosing, writeDead,
                 peerFrame, deadline, cmdsDone, peerVars, delivered, discarded,
                 waited>>

\* The transport failed the write.  map_write_err tells "closed" from "other";
\* the frame may still have reached the peer.
WriteFails ==
  /\ pump = "write"
  /\ \E result \in {"closed", "other"} : EndWrite(result)
  /\ writeDead' = TRUE /\ deadline' = Armed(deadline)
  /\ HandOver \/ UNCHANGED toPeer
  /\ UNCHANGED <<shared, resource, channels, budget, holder, op, inHand,
                 closeCode, recvSt, streamSt, reserved, wireClosing, peerFrame,
                 cmdsDone, peerVars, delivered, discarded, waited>>

\* Mutant: a write does not race the local close.
WriteIgnoresLocalClose == FALSE /\ UNCHANGED vars

\* A close was requested mid-write: the deadline bounds the rest of it.
WriteSeesLocalClose ==
  /\ pump = "write" /\ writing.bound = "local" /\ localClosed
  /\ deadline' = Armed(deadline)
  /\ writing' = [writing EXCEPT !.bound = "deadline"]
  /\ UNCHANGED <<shared, resource, channels, budget, guestVars, pump, reserved,
                 wireClosing, writeDead, peerFrame, cmdsDone, peerVars, seen>>

\* Mutant: a write that timed out is acked as written.
TimedOutAsOk == "ok"

TimedOut == "closed"

\* The deadline passed mid-write.  What was handed over may still go out.
WriteTimesOut ==
  /\ pump = "write" /\ writing.bound = "deadline" /\ deadline = "expired"
  /\ EndWrite(TimedOut)
  /\ writeDead' = TRUE
  /\ HandOver \/ UNCHANGED toPeer
  /\ UNCHANGED <<shared, resource, channels, budget, holder, op, inHand,
                 closeCode, recvSt, streamSt, reserved, wireClosing, peerFrame,
                 deadline, cmdsDone, peerVars, delivered, discarded, waited>>
-----------------------------------------------------------------------------
(***************************************************************************)
(* The end of Pump::run, one shared cell at a time.                        *)
(***************************************************************************)

\* close_info.set: the outcome is published before anyone is told.
PumpPublishes ==
  /\ pump = "publish"
  /\ closeInfo' = IF closeInfo = Unset THEN peerFrame ELSE closeInfo
  /\ pump' = "endQueue"
  /\ UNCHANGED <<state, closedFired, resource, channels, budget, guestVars,
                 pumpRest, peerVars, seen>>

\* drop(in_tx): readers drain the backlog, then see the end.
PumpEndsQueue ==
  /\ pump = "endQueue"
  /\ inOpen' = FALSE /\ pump' = "closeCmds"
  /\ UNCHANGED <<shared, resource, cmdq, cmdOpen, inq, budget, guestVars,
                 pumpRest, peerVars, seen>>

\* Mutant: the sends still queued are left alone.
PumpClosesOnly ==
  /\ pump = "closeCmds"
  /\ cmdOpen' = FALSE /\ pump' = "latch"
  /\ UNCHANGED <<shared, resource, cmdq, inq, inOpen, budget, guestVars,
                 pumpRest, peerVars, seen>>

\* cmd_rx.close(): later sends fail at the channel.
PumpClosesCmds ==
  /\ pump = "closeCmds"
  /\ cmdOpen' = FALSE /\ pump' = "drain"
  /\ UNCHANGED <<shared, resource, cmdq, inq, inOpen, budget, guestVars,
                 pumpRest, peerVars, seen>>

\* The drain loop: every send still queued is acked closed.
PumpDrains ==
  /\ pump = "drain"
  /\ sendSt' = [s \in Sends |-> IF DataFrame(s) \in {cmdq[k] : k \in DOMAIN cmdq}
                                  THEN "closed" ELSE sendSt[s]]
  /\ cmdq' = <<>> /\ pump' = "latch"
  /\ UNCHANGED <<shared, resource, cmdOpen, inq, inOpen, budget, holder, op,
                 inHand, closeCode, recvSt, streamSt, pumpRest, peerVars,
                 seen>>

\* state.advance(Closing), state.advance(Closed).
PumpLatches ==
  /\ pump = "latch"
  /\ Advance("closed") /\ pump' = "fire"
  /\ UNCHANGED <<closeInfo, closedFired, resource, channels, budget, guestVars,
                 pumpRest, peerVars, seen>>

\* closed_trigger.fire(): wait-closed resolves.
PumpFires ==
  /\ pump = "fire"
  /\ closedFired' = TRUE /\ pump' = "done"
  /\ UNCHANGED <<state, closeInfo, resource, channels, budget, guestVars,
                 pumpRest, peerVars, seen>>
-----------------------------------------------------------------------------
(***************************************************************************)
(* The environment: the peer, the transport and the clock.                 *)
(***************************************************************************)
PeerCanSend == ~wireDead /\ ~peerClosed /\ Len(wire) < MaxWire

PeerPuts(kind, arg) == wire' = Append(wire, [kind |-> kind, arg |-> arg])

PeerOnly == UNCHANGED <<shared, resource, channels, budget, guestVars,
                        pumpVars, seen>>

PeerData ==
  /\ PeerCanSend /\ peerSent < MaxMsgs
  /\ peerSent' = peerSent + 1
  /\ PeerPuts("data", peerSent + 1)
  /\ UNCHANGED <<wireDead, peerClosed, pings>> /\ PeerOnly

PeerPing ==
  /\ PeerCanSend /\ (Flood \/ pings < MaxPings)
  /\ pings' = IF Flood THEN pings ELSE pings + 1
  /\ PeerPuts("ping", 0)
  /\ UNCHANGED <<wireDead, peerSent, peerClosed>> /\ PeerOnly

\* A message past the transport's cap; its read error ends the transport.
PeerBig ==
  /\ PeerCanSend /\ MaxMsgs > 0
  /\ PeerPuts("big", 0) /\ wireDead' = TRUE
  /\ UNCHANGED <<peerSent, peerClosed, pings>> /\ PeerOnly

\* The peer's close frame, its own or the reply to ours: its last frame.
PeerClose(code) ==
  /\ PeerCanSend
  /\ PeerPuts("close", code) /\ peerClosed' = TRUE
  /\ UNCHANGED <<wireDead, peerSent, pings>> /\ PeerOnly

\* The transport ends: a reset may lose any frames not yet read.
TransportEnds ==
  /\ ~wireDead /\ wireDead' = TRUE
  /\ \E k \in 0 .. Len(wire) :
       wire' = Append(SubSeq(wire, 1, k), [kind |-> "eof", arg |-> 0])
  /\ UNCHANGED <<peerSent, peerClosed, pings>> /\ PeerOnly

\* close_timeout passes since the deadline was armed.
DeadlineExpires ==
  /\ deadline = "armed" /\ deadline' = "expired"
  /\ UNCHANGED <<shared, resource, channels, budget, guestVars, pump, writing,
                 reserved, wireClosing, writeDead, peerFrame, cmdsDone,
                 peerVars, seen>>
-----------------------------------------------------------------------------
GuestCalls ==
  \/ \E s \in Sends : Send(s)
  \/ \E req \in CloseRequests : Close(req)
  \/ \E r \in Receives : Receive(r)
  \/ Drop \/ ReceiveViaStream \/ StreamRead \/ StreamDropped \/ WaitClosed

\* What the component's event loop does once an operation is under way.
GuestStep == CloseFires \/ CloseEnqueues \/ ReaderReleases

ReceivePoll(r) ==
  ReceiveSignalled(r) \/ ReceiveLocks(r) \/ ReceiveTakes(r) \/ ReceiveEnds(r)

StreamPoll == StreamLocks \/ StreamTakes \/ StreamEnds

\* The pump's steps that only wait for the pump to be scheduled.
PumpStep ==
  \/ PumpSend \/ PumpClose \/ PumpCmdsDone
  \/ PumpData \/ PumpReserves \/ PumpPeerClose \/ PumpPing \/ PumpCapacity
  \/ PumpEnd \/ PumpDeadline
  \/ WriteSeesLocalClose \/ WriteTimesOut
  \/ PumpPublishes \/ PumpEndsQueue \/ PumpClosesCmds \/ PumpDrains
  \/ PumpLatches \/ PumpFires

\* The pump's steps that wait for the transport.
TransportStep == WriteAccepted \/ WriteFails

PeerStep ==
  \/ PeerData \/ PeerPing \/ PeerBig \/ TransportEnds
  \/ \E code \in PeerCodes : PeerClose(code)

Next ==
  \/ GuestCalls \/ GuestStep
  \/ \E r \in Receives : ReceivePoll(r)
  \/ StreamPoll
  \/ PumpStep \/ TransportStep
  \/ PeerStep \/ DeadlineExpires

Spec == Init /\ [][Next]_vars

(***************************************************************************)
(* The runtime schedules the pump, the store polls what was woken, time    *)
(* passes.  Nothing is assumed of the guest's further calls, of the peer,  *)
(* or of the transport: a write may stall forever.                         *)
(***************************************************************************)
Fairness ==
  /\ WF_vars(PumpStep)
  /\ WF_vars(GuestStep)
  /\ \A r \in Receives : WF_vars(ReceivePoll(r))
  /\ WF_vars(StreamPoll)
  /\ WF_vars(DeadlineExpires)

FairSpec == Spec /\ Fairness

\* The same, over a transport that eventually takes or fails every write.
FairTransportSpec == FairSpec /\ WF_vars(TransportStep)
=============================================================================
