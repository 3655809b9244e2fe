--------------------------- MODULE HostProperties ---------------------------
(***************************************************************************)
(* What the Wasmtime host's connection guarantees: a type invariant, the   *)
(* safety invariants, action and liveness properties of HostConnection,    *)
(* its refinement of WsContract, and the statements of the documents that  *)
(* the code does not keep.                                                 *)
(***************************************************************************)
EXTENDS HostConnection

Frames    ==
  {f \in [kind : {"send", "close", "reply", "pong"},
          from : Sends \cup {NoCall}, code : CloseCode] :
     /\ IF f.kind = "send" THEN f.from \in Sends ELSE f.from = NoCall
     /\ f.kind # "close" => f.code = NoCode}
MsgIds    == 1 .. MaxMsgs
Outcomes  == NoFrame .. MaxCode
Finishing == {"publish", "endQueue", "closeCmds", "drain", "latch", "fire", "done"}

In(frame, q) == \E k \in DOMAIN q : q[k] = frame
Writes(frame) == pump = "write" /\ writing.frame = frame
Closes(frame) == frame.kind \in {"close", "reply"}
SentCodes == SendableCodes \cup {NoCode}

WireFrames ==
  {f \in [kind : {"data", "ping", "big", "close", "eof"}, arg : Int] :
     /\ f.kind = "data" => f.arg \in MsgIds
     /\ f.kind = "close" => f.arg \in CloseCode}

FlagsTyped ==
  /\ closedFired \in BOOLEAN /\ localClosed \in BOOLEAN
  /\ claimed \in BOOLEAN /\ dropped \in BOOLEAN
  /\ cmdOpen \in BOOLEAN /\ inOpen \in BOOLEAN /\ overflowed \in BOOLEAN
  /\ wireClosing \in BOOLEAN /\ writeDead \in BOOLEAN /\ cmdsDone \in BOOLEAN
  /\ wireDead \in BOOLEAN /\ peerClosed \in BOOLEAN /\ discarded \in BOOLEAN

ChannelsTyped ==
  /\ state \in {"open", "closing", "closed"} /\ closeInfo \in Unset .. MaxCode
  /\ cmdq \in Seq(Frames) /\ inq \in Seq(MsgIds) /\ buffered \in Int

GuestTyped ==
  /\ holder \in Receives \cup {NoCall, "stream"}
  /\ op \in {"idle", "closeFire", "closeSend", "release"}
  /\ inHand \in 0 .. MaxMsgs /\ (op = "release" => inHand \in MsgIds)
  /\ closeCode \in CloseCode
  /\ sendSt \in [Sends -> {"unused", "queued", "ok", "closed", "other"}]
  /\ recvSt \in [Receives -> {"unused", "pending", "message", "viaStream",
                              "overflow", "closed"}]
  /\ streamSt \in {"unclaimed", "idle", "pending", "ended"}

PumpTyped ==
  /\ pump \in {"select", "write", "reserve"} \cup Finishing
  /\ writing \in [frame : Frames, bound : {"local", "deadline"},
                  then : {"select", "publish"}]
  /\ reserved \in 0 .. MaxMsgs /\ (pump = "reserve" => reserved \in MsgIds)
  /\ peerFrame \in Outcomes
  /\ deadline \in {"none", "armed", "expired"}

PeerTyped ==
  /\ wire \in Seq(WireFrames) /\ peerSent \in 0 .. MaxMsgs /\ pings \in Nat

SeenTyped ==
  /\ toPeer \in Seq(Frames) /\ delivered \in Seq(MsgIds)
  /\ waited \subseteq Outcomes

Typed == /\ FlagsTyped /\ ChannelsTyped /\ GuestTyped
         /\ PumpTyped /\ PeerTyped /\ SeenTyped

\* The types of the connection's cells, of the pump's fields and of the calls;
\* the budget's counter never goes below zero, where a usize would wrap
\* (InboundBudget::release).
TypeOK == Typed /\ buffered >= 0

\* No message is lost, repeated or reordered between the pump and the readers:
\* what they took, followed by what is queued, is the peer's messages from the
\* first on, whichever of `receive` and the stream took each
\* (InboundQueue::next, Pump::deliver).
NoGap == delivered \o inq = [i \in 1 .. Len(delivered) + Len(inq) |-> i]

\* Bytes of a run of consecutive messages.
QueuedBytes == IF inq = <<>> THEN 0
               ELSE Offset[inq[Len(inq)]] - Offset[Head(inq) - 1]
InHandBytes == IF op = "release" THEN Size(inHand) ELSE 0

\* The budget counts exactly the bytes queued and those a reader took but has
\* not accounted for, so it never underflows, and it never passes the bound,
\* whatever a reader releases while the pump reserves (InboundBudget).
BudgetExact == /\ buffered = QueuedBytes + InHandBytes
               /\ buffered =< Limit

\* A message the pump read is thrown away only because of a local close or an
\* overflow: a remote close, a dead write half or a failing transport loses
\* nothing that came before it (Pump::deliver, the close contract).
LossOnlyByContract == discarded => localClosed \/ overflowed

\* What a failed receive reports is true: `closed` means a local close, or
\* that everything was drained and nothing lost; `overflow` means the bound was
\* passed and the backlog came first; `viaStream` means the stream was claimed
\* (receive, next_inbound).
ReceiveErrorsHonest ==
  \A r \in Receives :
    /\ recvSt[r] = "closed" =>
         localClosed \/ (~inOpen /\ inq = <<>> /\ ~overflowed /\ ~discarded)
    /\ recvSt[r] = "overflow" => overflowed /\ ~inOpen /\ inq = <<>>
    /\ recvSt[r] = "viaStream" => claimed

\* A send that succeeded is on the wire, and no message goes out twice
\* (Pump::run's acks, SendHandle::send).
SendAckHonest ==
  \A s \in Sends :
    /\ sendSt[s] = "ok" => In(DataFrame(s), toPeer)
    /\ \A j, k \in DOMAIN toPeer :
         toPeer[j] = DataFrame(s) /\ toPeer[k] = DataFrame(s) => j = k

\* The peer sees at most one close frame, nothing after it, and only a code a
\* client may send (Pump::begin_close, wire_closing).
CloseFrameIsLast ==
  \A k \in DOMAIN toPeer :
    Closes(toPeer[k]) => k = Len(toPeer) /\ toPeer[k].code \in SentCodes

\* wait-closed is the one authority: it only resolves once the state is closed,
\* always with the same value, and that value is the peer's frame as the pump
\* read it, or none; never none when the frame was answered (Pump::run's end,
\* ClosedHandle::wait).
WaitClosedLatched ==
  waited # {} =>
    /\ waited = {peerFrame} /\ state = "closed"
    /\ In(CloseReply, toPeer) => peerFrame # NoFrame

\* A close frame that is still to come is missed only if the closing bound
\* passed, the transport ended, or the read stream is beyond use: a failed
\* write alone never ends the reading (Pump's write_dead).
CloseFrameNotMissed ==
  pump \in Finishing /\ peerFrame = NoFrame =>
    deadline = "expired" \/ wireDead \/ overflowed

\* Closed means settled: the outcome is published, readers see the end, no
\* send can be queued any more and none is left unanswered (Pump::run's end).
ClosedIsSettled ==
  state = "closed" =>
    /\ closeInfo # Unset /\ ~inOpen /\ ~cmdOpen
    /\ \A s \in Sends : sendSt[s] # "queued"

\* The state only advances, and closed is terminal, although close() and the
\* pump advance it from two threads (StateCell::advance).
StateOnlyAdvances == [][Rank(state) =< Rank(state')]_vars

\* The two signals win over the queue: after a local close no message is handed
\* to anyone, and after the claim none to a receive (receive, poll_produce).
SignalsWin ==
  [][/\ localClosed => delivered' = delivered
     /\ claimed => \A r \in Receives :
                     recvSt'[r] = "message" => recvSt[r] = "message"]_vars

\* Once closing starts, from either side, or the write half dies, the connection
\* reaches closed, and a send in flight is answered, whatever the transport does
\* (bounded_write's deadline, the drain at the end of Pump::run).
ClosingIsBounded ==
  /\ (state # "open" \/ writeDead) ~> closedFired
  /\ \A s \in Sends : (sendSt[s] = "queued" /\ state # "open") ~> sendSt[s] # "queued"

\* A pending receive is woken by what ends it: the claim, a local close, the
\* end of the queue; a stream read is woken by a close (receive, poll_produce).
ReadersWoken ==
  /\ \A r \in Receives : (recvSt[r] = "pending" /\ (claimed \/ localClosed \/ closedFired))
                            ~> recvSt[r] # "pending"
  /\ (streamSt = "pending" /\ (localClosed \/ closedFired)) ~> streamSt # "pending"

\* If the transport ends every write, every send is answered, closed or not
\* (Pump::run's read arm is reached again and again).
TransportFair == WF_vars(TransportStep)
SendsAnswered ==
  TransportFair => \A s \in Sends : sendSt[s] = "queued" ~> sendSt[s] # "queued"

\* A close of this side of which the pump will hear.
CloseComing ==
  op \in {"closeFire", "closeSend"} \/ \E k \in DOMAIN cmdq : cmdq[k].kind = "close"

\* What ClosingIsBounded rests on at each moment: once closing starts or the write
\* half dies, the deadline runs or the close that arms it is on its way; a write
\* is bounded by it, or else by the local close; and a send that is unanswered is in
\* the pump's write, or queued where the pump has yet to take or drain it (close,
\* begin_close, bounded_write, the end of Pump::run).
ClosingIsTimed ==
  /\ (state # "open" \/ writeDead) /\ pump \notin Finishing =>
       deadline # "none" \/ CloseComing
  /\ pump = "write" => (writing.bound = "local" <=> deadline = "none")
  /\ \A s \in Sends : sendSt[s] = "queued" =>
       \/ Writes(DataFrame(s))
       \/ In(DataFrame(s), cmdq) /\ pump \notin {"latch", "fire", "done"}

\* What ReadersWoken rests on: whoever holds the lock around the inbound queue still
\* waits for a message, so no reader waits behind one that is gone (receive,
\* poll_produce, StreamDropped).
LockIsAwaited ==
  /\ holder \in Receives => recvSt[holder] = "pending"
  /\ holder = "stream" => streamSt = "pending"
-----------------------------------------------------------------------------
(***************************************************************************)
(* Why the invariants hold: what every step keeps, between the program's   *)
(* steps as well as at their end.                                          *)
(***************************************************************************)
Accepted == Len(delivered) + Len(inq)

\* What was taken and what is queued are the messages 1 .. Accepted; the one
\* in hand is the last one taken, the one being reserved is the next.
OrderKept ==
  /\ Accepted \in 0 .. MaxMsgs
  /\ \A i \in DOMAIN delivered : delivered[i] = i
  /\ \A i \in DOMAIN inq : inq[i] = Len(delivered) + i
  /\ op = "release" => inHand = Len(delivered)
  /\ pump = "reserve" => reserved = Accepted + 1 /\ ~wireClosing

WireNext == IF pump = "reserve" THEN Accepted + 2 ELSE Accepted + 1
DataAt(k, m) == wire[k].kind = "data" /\ wire[k].arg = m

\* While nothing has started to close, the frames in flight bring the messages
\* from WireNext on, each once and none before the one it follows.
WireKept ==
  ~wireClosing =>
    /\ WireNext =< peerSent + 1
    /\ \A k \in DOMAIN wire : \A m \in MsgIds : DataAt(k, m) =>
         /\ WireNext =< m /\ m =< peerSent
         /\ \A j \in DOMAIN wire : DataAt(j, m) => j = k
         /\ \A n \in WireNext .. m - 1 : \E j \in 1 .. k - 1 : DataAt(j, n)
    /\ ~wireDead => \A n \in WireNext .. peerSent : \E k \in DOMAIN wire : DataAt(k, n)

\* The counter is the bytes of the messages queued and in hand, and what is
\* being reserved still fits: a reader only makes room.
BudgetKept ==
  /\ buffered = Offset[Accepted] - Offset[Len(delivered)] + InHandBytes
  /\ buffered =< Limit
  /\ pump = "reserve" => buffered + Size(reserved) =< Limit

\* The shared cells say how far the end of the pump has come.
LifeKept ==
  /\ closeInfo = IF pump \in Finishing \ {"publish"} THEN peerFrame ELSE Unset
  /\ inOpen <=> pump \notin Finishing \ {"publish", "endQueue"}
  /\ cmdOpen <=> pump \notin {"drain", "latch", "fire", "done"}
  /\ state = "closed" <=> pump \in {"fire", "done"}
  /\ closedFired <=> pump = "done"
  /\ waited # {} => closedFired /\ waited = {peerFrame}
  /\ pump \in {"latch", "fire", "done"} => cmdq = <<>>

\* No message is in this sequence of frames twice.
Once(q) == \A j, k \in DOMAIN q : q[j].kind = "send" /\ q[j] = q[k] => j = k

\* A message is in one place: queued, being written, or handed over; a send
\* waits for its ack as long as its message is in one of the first two.
SendsKept ==
  /\ Once(cmdq) /\ Once(toPeer)
  /\ \A s \in Sends :
       /\ sendSt[s] = "queued" <=> In(DataFrame(s), cmdq) \/ Writes(DataFrame(s))
       /\ ~(In(DataFrame(s), cmdq) /\ Writes(DataFrame(s)))
       /\ In(DataFrame(s), toPeer) => sendSt[s] \notin {"unused", "queued"}
       /\ sendSt[s] = "ok" => In(DataFrame(s), toPeer)

\* Once a close frame went out, or the reply to the peer's, only pongs follow.
CloseKept ==
  /\ \A k \in DOMAIN toPeer :
       /\ toPeer[k].code \in SentCodes
       /\ Closes(toPeer[k]) => wireClosing /\ k = Len(toPeer)
  /\ pump = "write" =>
       /\ Closes(writing.frame) =>
            wireClosing /\ \A k \in DOMAIN toPeer : ~Closes(toPeer[k])
       /\ wireClosing => writing.frame.kind # "send"
  /\ closeCode \in SentCodes /\ writing.frame.code \in SentCodes
  /\ \A k \in DOMAIN cmdq :
       cmdq[k].kind \in {"send", "close"} /\ cmdq[k].code \in SentCodes
  /\ Writes(CloseReply) \/ In(CloseReply, toPeer) => peerFrame # NoFrame

\* Nothing follows the peer's close frame but the transport's end.
WireEndKept ==
  /\ \A k \in DOMAIN wire : wire[k].kind = "close" =>
       peerClosed /\ \A j \in DOMAIN wire : j > k => wire[j].kind = "eof"
  /\ \A k \in DOMAIN wire : wire[k].kind \in {"big", "eof"} => wireDead

\* The pump hears of a close from this side only after the signal fired.
SignalKept ==
  /\ dropped => localClosed \/ op = "closeFire"
  /\ op = "closeSend" => localClosed
  /\ \A k \in DOMAIN cmdq : cmdq[k].kind = "close" => localClosed

\* Closing has a cause, and only a local close or an overflow can leave data
\* behind it.
CauseKept ==
  /\ wireClosing => \/ localClosed \/ overflowed
                    \/ peerClosed /\ \A k \in DOMAIN wire : wire[k].kind # "data"
  /\ pump = "write" /\ writing.then = "publish" => overflowed

\* All of it together, inductive once the types are known.
Kept == /\ OrderKept /\ WireKept /\ BudgetKept /\ LifeKept
        /\ SendsKept /\ CloseKept
        /\ WireEndKept /\ SignalKept /\ CauseKept
        /\ LossOnlyByContract /\ ReceiveErrorsHonest /\ CloseFrameNotMissed
-----------------------------------------------------------------------------
(***************************************************************************)
(* The connection implements the contract every implementation shares.  A  *)
(* local close makes the queued messages unreachable at once; a reply to   *)
(* the peer's close frame is a close frame as well.                        *)
(***************************************************************************)
Contract == INSTANCE WsContract
  WITH Infos <- {NoFrame} \cup {CloseInfoFrom(code) : code \in PeerCodes},
       Unset <- Unset,
       phase <- state,
       local <- localClosed,
       inbox <- IF localClosed THEN <<>> ELSE inq,
       got   <- delivered,
       ended <- ~inOpen,
       out   <- [k \in DOMAIN toPeer |-> IF toPeer[k].kind = "send" THEN "data"
                                                                   ELSE "close"],
       info  <- closeInfo

\* Every step of pump, guest and peer is a step of the contract, or none
\* (websocket.rs and host.rs against wit/websocket.wit).
ImplementsContract == Contract!CSpec
-----------------------------------------------------------------------------
(***************************************************************************)
(* What the documents say of the program and the code does not do.         *)
(***************************************************************************)

\* wit/websocket.wit:270, "closing an already-closing or closed connection
\* succeeds and is a no-op": such a close() throws no unread message away.
\* Websocket::close only looks at its own local-close signal.
CloseOfClosedIsNoOp ==
  [][\A req \in CloseRequests : Close(req) => state = "open" \/ inq = <<>>]_vars

\* wit/README.md:85, "The closing procedure is bounded end to end", against a
\* peer that never stops sending: the biased select looks at the deadline only
\* when nothing was read.
ClosingIsBoundedUnderFlood == localClosed ~> closedFired
=============================================================================
