--------------------------- MODULE ProviderProofs ---------------------------
(***************************************************************************)
(* Proofs about the in-guest provider, for any calls, messages, sizes,     *)
(* codes, pings and bounds: the safety properties of ProviderProperties.   *)
(***************************************************************************)
EXTENDS ProviderProperties, SequenceTheorems, TLAPS

\* Codes of a close frame, frames and commands, and what the peer puts.
ClientCodes == SendableCodes \cup {NoCode}

Frames == {DataFrame(s) : s \in Sends} \cup {CloseFrame(code) : code \in ClientCodes}
            \cup {CloseReply, Pong, ClaimStream}

WireFrames == [kind : {"data"}, arg : MsgIds] \cup [kind : {"close"}, arg : PeerCodes]
                \cup [kind : {"ping", "big", "bad", "eof"}, arg : {0}]

Msg(n) == [kind |-> "data", arg |-> n]
Eof    == [kind |-> "eof", arg |-> 0]
-----------------------------------------------------------------------------
(***************************************************************************)
(* The types.                                                              *)
(***************************************************************************)
FlagsTyped ==
  /\ state \in {"open", "closing", "closed"}
  /\ closeInfo \in Outcomes /\ peerFrame \in Outcomes /\ waited \subseteq Outcomes
  /\ localClosed \in BOOLEAN /\ claimed \in BOOLEAN /\ dropped \in BOOLEAN
  /\ inOpen \in BOOLEAN /\ overflowed \in BOOLEAN /\ streamHeld \in BOOLEAN
  /\ closed \in BOOLEAN /\ wireClosing \in BOOLEAN /\ writeDead \in BOOLEAN
  /\ wireDead \in BOOLEAN /\ peerClosed \in BOOLEAN /\ discarded \in BOOLEAN
  /\ deadline \in {"none", "armed", "expired"}

InboxTyped ==
  /\ inq \in Seq(MsgIds) /\ delivered \in Seq(MsgIds) /\ streamed \in Seq(MsgIds)
  /\ queueLock \in Receives \cup {NoCall, "feeder"}
  /\ budgetUsed \in 0 .. Limit /\ inHand \in 0 .. MaxMsgs
  /\ recvSt \in [Receives -> {"unused", "pending", "message", "viaStream",
                              "overflow", "closed"}]
  /\ feeder \in {"none", "locking", "next", "element", "payload", "ended"}
  /\ feeder = "element" => inHand \in MsgIds

\* What tungstenite may owe the peer.
Owed == {NoReply, Pong, CloseReply}

Places == [pc : {"loop", "lock", "write", "end", "done"}, then : Sends \cup {"loop", "end"}]

OutTyped ==
  /\ cmdq \in Seq(Frames) /\ outbound \in Seq(Frames) /\ writing \in Seq(Frames)
  /\ toPeer \in Seq(Frames) /\ reply \in Owed
  /\ sendSt \in [Sends -> {"unused", "queued", "ok", "closed"}]
  /\ at \in [Tasks -> Places]
  /\ writeLock \in Tasks \cup {NoCall} /\ bound \in {"local", "deadline"}

PeerTyped ==
  /\ inbound \in Seq(WireFrames) /\ wire \in Seq(WireFrames)
  /\ peerSent \in 0 .. MaxMsgs

Typed == FlagsTyped /\ InboxTyped /\ OutTyped /\ PeerTyped

LEMMA TypedIsTypeOK == Typed => TypeOK
BY DEF Typed, FlagsTyped, InboxTyped, OutTyped, TypeOK, Places, Owed
-----------------------------------------------------------------------------
(***************************************************************************)
(* The inductive invariant.                                                *)
(***************************************************************************)

\* The write lock is held by the task that writes, as long as it has frames
\* left; the reader holds in_tx until it is done.
LockKept ==
  /\ \A t \in Tasks : writeLock = t <=> at[t].pc = "write"
  /\ writeLock = NoCall <=> writing = <<>>
  /\ inOpen <=> at["reader"].pc # "done"
  /\ at["cmd"].pc # "done"

Accepted == Len(delivered) + Len(inq)

\* What was accepted is what the peer sent, from the first message on, and the
\* budget counts what of it is queued.
InboxKept ==
  /\ \A k \in DOMAIN delivered : delivered[k] = k
  /\ \A k \in DOMAIN inq : inq[k] = Len(delivered) + k
  /\ Accepted =< peerSent
  /\ budgetUsed = Offset[Accepted] - Offset[Len(delivered)]

\* The frames `q` bring the messages from `next` to `last` in order: none comes
\* before those it follows.
Brings(q, next, last) ==
  \A k \in DOMAIN q : q[k].kind = "data" =>
    /\ q[k].arg \in next .. last
    /\ \A j \in 1 .. k - 1 : q[j].kind = "data" => q[j].arg < q[k].arg
    /\ \A n \in next .. q[k].arg - 1 : \E j \in 1 .. k - 1 : q[j] = Msg(n)

\* ... and all of them.
BringsAll(q, next, last) == \A n \in next .. last : \E k \in DOMAIN q : q[k] = Msg(n)

\* Nothing but the end of the peer follows its close frame.
ClosesLast(q) ==
  \A j, k \in DOMAIN q : q[k].kind = "close" /\ k < j => q[j].kind # "data"

NoClose(q) == \A k \in DOMAIN q : q[k].kind # "close"
NoData(q)  == \A k \in DOMAIN q : q[k].kind # "data"

\* The frames the reader has not read.
Coming == inbound \o wire

\* While nothing closes, the frames to come bring the next messages; while only
\* the peer closes, they bring none.
ComingKept == inOpen =>
  /\ ClosesLast(Coming) /\ (~peerClosed => NoClose(Coming))
  /\ ~wireClosing =>
       /\ Brings(Coming, Accepted + 1, peerSent)
       /\ ~wireDead => BringsAll(Coming, Accepted + 1, peerSent)
  /\ wireClosing /\ ~localClosed /\ ~overflowed =>
       peerClosed /\ NoData(Coming)

\* Why the connection closes, and where its outcome is.
CauseKept ==
  /\ \A k \in DOMAIN cmdq : cmdq[k].kind = "close" => localClosed
  /\ discarded => localClosed \/ overflowed
  /\ overflowed => wireClosing
  /\ peerFrame # Unset
  /\ IF inOpen THEN closeInfo = Unset ELSE closeInfo = peerFrame

\* Where the messages are: each in one place, and acked once it is with the peer.
Msgs(q) == {s \in Sends : \E k \in DOMAIN q : q[k] = DataFrame(s)}

Once(q) == \A j, k \in DOMAIN q : q[j].kind = "send" /\ q[j] = q[k] => j = k

Apart(c, o, w, p, st) ==
  /\ Once(c) /\ Once(o) /\ Once(w) /\ Once(p)
  /\ Msgs(c) \cap (Msgs(o) \cup Msgs(w) \cup Msgs(p)) = {}
  /\ Msgs(o) \cap (Msgs(w) \cup Msgs(p)) = {}
  /\ Msgs(w) \cap Msgs(p) = {}
  /\ \A s \in Msgs(c) \cup Msgs(o) \cup Msgs(w) \cup Msgs(p) : st[s] # "unused"
  /\ \A s \in Sends : st[s] = "ok" => s \in Msgs(p)

\* What a task waits for is on its way.
Follows(t) ==
  at[t].then \in Sends =>
    /\ at[t].pc = "write" => at[t].then \in Msgs(writing) \cup Msgs(toPeer)
    /\ at[t].pc = "lock" /\ ~writeDead =>
         at[t].then \in Msgs(outbound) \cup Msgs(writing) \cup Msgs(toPeer)

SendsKept ==
  /\ Apart(cmdq, outbound, writing, toPeer, sendSt)
  /\ \A t \in Tasks : Follows(t)

\* Behind a close frame, of either side's close, there is nothing but pongs, and
\* none is before it is written.
Closing(frame) == frame.kind \in {"close", "reply"}

LastOf(q) == \A j, k \in DOMAIN q : Closing(q[k]) /\ k < j => q[j] = Pong
Open(q)   == \A k \in DOMAIN q : ~Closing(q[k])
Pongs(q)  == \A k \in DOMAIN q : q[k] = Pong
NoPong(q) == \A k \in DOMAIN q : q[k] # Pong

FinalFrame(o, w, p, written) ==
  /\ LastOf(o) /\ LastOf(w) /\ LastOf(p) /\ NoPong(p)
  /\ ~Open(p) => Pongs(w) /\ Pongs(o)
  /\ ~Open(w) => Pongs(o)
  /\ ~written => Open(o) /\ Open(w) /\ Open(p)

\* A close frame is written with the first step of closing, unless it is a reply
\* that tungstenite still owes.
CloseWritten == wireClosing /\ reply # CloseReply

CloseKept ==
  /\ FinalFrame(outbound, writing, toPeer, CloseWritten)
  /\ reply = CloseReply => wireClosing

Kept ==
  /\ Typed /\ LockKept /\ InboxKept /\ ComingKept /\ CauseKept
  /\ SendsKept /\ CloseKept /\ BufferIsWatched /\ ReceiveErrorsHonest
-----------------------------------------------------------------------------
(***************************************************************************)
(* Sequences.                                                              *)
(***************************************************************************)
LEMMA TailAt ==
  ASSUME NEW S, NEW q \in Seq(S), q # <<>>
  PROVE  /\ Tail(q) \in Seq(S) /\ Head(q) \in S /\ Head(q) = q[1]
         /\ Len(q) \in Nat /\ Len(q) >= 1 /\ DOMAIN q = 1 .. Len(q)
         /\ Len(Tail(q)) = Len(q) - 1 /\ DOMAIN Tail(q) = 1 .. Len(q) - 1
         /\ \A k \in 1 .. Len(q) - 1 : Tail(q)[k] = q[k + 1]
OBVIOUS

LEMMA AppendAt ==
  ASSUME NEW S, NEW q \in Seq(S), NEW e \in S
  PROVE  /\ Append(q, e) \in Seq(S) /\ Append(q, e) # <<>>
         /\ Len(q) \in Nat /\ DOMAIN q = 1 .. Len(q)
         /\ Len(Append(q, e)) = Len(q) + 1 /\ DOMAIN Append(q, e) = 1 .. Len(q) + 1
         /\ \A k \in 1 .. Len(q) : Append(q, e)[k] = q[k]
         /\ Append(q, e)[Len(q) + 1] = e
OBVIOUS

\* The messages the peer may send have sizes.
LEMMA Sizes ==
  /\ MaxMsgs \in Nat /\ Limit \in Nat /\ Offset[0] = 0
  /\ \A i \in MsgIds : Offset[i] \in Nat /\ Offset[i - 1] \in Nat /\ Offset[i - 1] =< Offset[i]
  /\ \A i \in MsgIds : Size(i) \in Nat
  /\ \A i \in 0 .. MaxMsgs : Offset[i] \in Nat
  /\ \A i, j \in 0 .. MaxMsgs : i =< j => Offset[i] =< Offset[j]
<1>1. MaxMsgs \in Nat /\ Limit \in Nat /\ Offset[0] = 0 BY ProviderSizesAssumption
<1>2. \A i \in 0 .. MaxMsgs : Offset[i] \in Nat BY ProviderSizesAssumption
<1>3. \A i, j \in 0 .. MaxMsgs : i =< j => Offset[i] =< Offset[j]
  BY ProviderSizesAssumption
<1>4. ASSUME NEW i \in MsgIds
      PROVE  Offset[i] \in Nat /\ Offset[i - 1] \in Nat /\ Offset[i - 1] =< Offset[i]
  <2>1. i \in 0 .. MaxMsgs /\ i - 1 \in 0 .. MaxMsgs /\ i - 1 =< i
    BY <1>1 DEF MsgIds
  <2> QED BY <2>1, <1>2, <1>3
<1>5. ASSUME NEW i \in MsgIds PROVE Size(i) \in Nat BY <1>4 DEF Size
<1> QED BY <1>1, <1>2, <1>3, <1>4, <1>5

\* What tells the frames apart.
LEMMA FrameKinds ==
  /\ \A s \in Sends : DataFrame(s).kind = "send" /\ DataFrame(s).from = s
                      /\ DataFrame(s) \in Frames
  /\ \A code \in ClientCodes : CloseFrame(code).kind = "close" /\ CloseFrame(code).code = code
                               /\ CloseFrame(code) \in Frames
  /\ CloseReply.kind = "reply" /\ Pong.kind = "pong" /\ ClaimStream.kind = "claim"
  /\ CloseReply \in Frames /\ Pong \in Frames /\ ClaimStream \in Frames
  /\ NoCode \in ClientCodes
  /\ \A f \in Frames : /\ f.kind = "send" => f.from \in Sends /\ f = DataFrame(f.from)
                       /\ f.kind = "pong" => f = Pong
                       /\ f.code \in ClientCodes
                       /\ f.kind \in {"send", "close", "reply", "pong", "claim"}
<1>1. ASSUME NEW f \in Frames
      PROVE  /\ f.kind = "send" => f.from \in Sends /\ f = DataFrame(f.from)
             /\ f.kind = "pong" => f = Pong
             /\ f.code \in ClientCodes
             /\ f.kind \in {"send", "close", "reply", "pong", "claim"}
  <2>1. CASE \E s \in Sends : f = DataFrame(s) BY <2>1 DEF DataFrame, ClientCodes
  <2>2. CASE \E code \in ClientCodes : f = CloseFrame(code) BY <2>2 DEF CloseFrame
  <2>3. CASE f \in {CloseReply, Pong, ClaimStream}
    BY <2>3 DEF CloseReply, Pong, ClaimStream, ClientCodes
  <2> QED BY <2>1, <2>2, <2>3 DEF Frames
<1>2. \A s \in Sends : DataFrame(s).kind = "send" /\ DataFrame(s).from = s
                       /\ DataFrame(s) \in Frames
  BY DEF DataFrame, Frames
<1>3. \A code \in ClientCodes : CloseFrame(code).kind = "close" /\ CloseFrame(code).code = code
                                /\ CloseFrame(code) \in Frames
  BY DEF CloseFrame, Frames
<1>4. CloseReply.kind = "reply" /\ Pong.kind = "pong" /\ ClaimStream.kind = "claim"
      /\ CloseReply \in Frames /\ Pong \in Frames /\ ClaimStream \in Frames
      /\ NoCode \in ClientCodes
  BY DEF CloseReply, Pong, ClaimStream, Frames, ClientCodes
<1> QED BY <1>1, <1>2, <1>3, <1>4

\* What is owed, and what it is not.
LEMMA ReplyKinds ==
  ASSUME reply \in Owed
  PROVE  /\ NoReply # Pong /\ NoReply # CloseReply /\ Pong # CloseReply
         /\ reply # NoReply => reply \in Frames /\ reply.kind \in {"pong", "reply"}
         /\ reply # CloseReply => ~Closing(reply)
<1>1. NoReply.kind = "none" BY DEF NoReply
<1>2. NoReply # Pong /\ NoReply # CloseReply /\ Pong # CloseReply BY <1>1, FrameKinds
<1>3. CASE reply = NoReply BY <1>1, <1>2, <1>3 DEF Closing
<1>4. CASE reply = Pong BY <1>2, <1>4, FrameKinds DEF Closing
<1>5. CASE reply = CloseReply BY <1>2, <1>5, FrameKinds
<1> QED BY <1>2, <1>3, <1>4, <1>5 DEF Owed

\* The buffer with what is owed behind it.
LEMMA WithReplyTyped ==
  ASSUME reply \in Owed, NEW out \in Seq(Frames)
  PROVE  WithReply(out) \in Seq(Frames)
BY AppendAt, ReplyKinds DEF WithReply

\* A close that passes the checks has a code a client may send.
LEMMA ClosableCodes ==
  ASSUME NEW req \in CloseRequests, CloseArgsValid(req.code, req.reasonLen)
  PROVE  req.code \in ClientCodes
BY DEF CloseArgsValid, ClientCodes

\* The frames the peer puts, and how they are read.
LEMMA WireKinds ==
  ASSUME NEW f \in WireFrames
  PROVE  /\ f.kind = "data" => f.arg \in MsgIds /\ f = Msg(f.arg)
         /\ f.kind = "close" => f.arg \in PeerCodes
BY DEF WireFrames, Msg
-----------------------------------------------------------------------------
(***************************************************************************)
(* Types.                                                                  *)
(***************************************************************************)
LEMMA ClosesTyped ==
  ASSUME FlagsTyped, NEW t, NEW then, NEW code, BeginsClose(t, then, code)
  PROVE  wireClosing' = TRUE /\ deadline' \in {"none", "armed", "expired"}
<1>1. CASE wireClosing BY <1>1 DEF BeginsClose, FlagsTyped
<1>2. CASE ~wireClosing BY <1>2 DEF BeginsClose, FlagsTyped, Armed
<1> QED BY <1>1, <1>2

LEMMA FlagsNext == Typed /\ [Next]_vars => FlagsTyped'
<1> SUFFICES ASSUME Typed, [Next]_vars PROVE FlagsTyped'
  OBVIOUS
<1> USE DEF Typed, FlagsTyped, shared, queue, budget, calls, stream, writes, flags,
            peerVars, seen
<1>0. NoFrame \in Outcomes BY DEF Outcomes
<1>1. CASE GuestCalls
  <2>1. ASSUME NEW s \in Sends, Send(s) PROVE FlagsTyped' BY <2>1 DEF Send
  <2>2. ASSUME NEW req \in CloseRequests, Close(req) PROVE FlagsTyped'
    BY <2>2 DEF Close, Closes, Advance
  <2>3. ASSUME NEW r \in Receives, Receive(r) PROVE FlagsTyped' BY <2>3 DEF Receive
  <2>4. CASE Drop
    <3>1. CASE localClosed BY <2>4, <3>1 DEF Drop
    <3>2. CASE ~localClosed BY <2>4, <3>2 DEF Drop, Closes, Advance
    <3> QED BY <3>1, <3>2
  <2>5. CASE ReceiveViaStream BY <2>5 DEF ReceiveViaStream
  <2>8. CASE StreamDropped
    <3>1. streamHeld' \in BOOLEAN
          /\ UNCHANGED <<shared, inOpen, overflowed, flags, wireDead, peerClosed, discarded, waited>>
      BY <2>8 DEF StreamDropped
    <3> QED BY <3>1
  <2>7. CASE ElementRead \/ PayloadRead \/ ReaderGone
    BY <2>7 DEF ElementRead, PayloadRead, ReaderGone, FeederOnly
  <2>6. CASE WaitClosed BY <1>0, <2>6 DEF WaitClosed
  <2> QED BY <1>1, <2>1, <2>2, <2>3, <2>4, <2>5, <2>6, <2>7, <2>8 DEF GuestCalls
<1>2. CASE FeederStep
  BY <1>2 DEF FeederStep, FeederLocks, FeederTakes, FeederEnds, ReaderGone, FeederOnly
<1>3. ASSUME NEW r \in Receives, ReceivePoll(r) PROVE FlagsTyped'
  BY <1>3 DEF ReceivePoll, ReceiveLocks, ReceiveSignalled, ReceiveTakes, ReceiveEnds
<1>4. CASE CmdSend \/ CmdClaim BY <1>4 DEF CmdSend, CmdClaim
<1>5. CASE CmdClose
  <2>1. wireClosing' \in BOOLEAN /\ deadline' \in {"none", "armed", "expired"}
    <3>1. CASE closed BY <1>5, <3>1 DEF CmdClose
    <3>2. CASE ~closed BY <1>5, <3>2, ClosesTyped DEF CmdClose
    <3> QED BY <3>1, <3>2
  <2> QED BY <1>5, <2>1 DEF CmdClose
<1>6. ASSUME NEW t \in Tasks, FlushStep(t) \/ TransportStep(t) PROVE FlagsTyped'
  <2> USE DEF WriteOnly, Armed
  <2>1. CASE Locks(t) BY <2>1 DEF Locks
  <2>2. CASE WriteSeesLocalClose(t) BY <2>2 DEF WriteSeesLocalClose
  <2>3. CASE WriteTimesOut(t) BY <2>3 DEF WriteTimesOut
  <2>4. CASE WriteTakes(t) BY <2>4 DEF WriteTakes
  <2>5. CASE WriteFails(t) BY <2>5 DEF WriteFails
  <2> QED BY <1>6, <2>1, <2>2, <2>3, <2>4, <2>5 DEF FlushStep, TransportStep
<1>7. CASE ReaderData
  <2>1. UNCHANGED <<state, closeInfo, peerFrame, waited, localClosed, claimed, dropped, inOpen,
                    streamHeld, closed, writeDead, wireDead, peerClosed>>
    BY <1>7 DEF ReaderData, Reads
  <2>2. /\ wireClosing' \in BOOLEAN /\ deadline' \in {"none", "armed", "expired"}
        /\ overflowed' \in BOOLEAN /\ discarded' \in BOOLEAN
    <3>1. CASE Overflows BY <3>1, ClosesTyped DEF Overflows
    <3>2. CASE UNCHANGED <<overflowed, wireClosing, deadline>> /\ discarded' \in BOOLEAN
      BY <3>2
    <3> QED BY <1>7, <3>1, <3>2 DEF ReaderData
  <2> QED BY <2>1, <2>2
<1>8. CASE ReaderPing BY <1>8 DEF ReaderPing, Reads
<1>9. CASE ReaderPeerClose
  <2>1. Head(inbound) \in WireFrames /\ Head(inbound).kind = "close"
    BY <1>9, TailAt DEF ReaderPeerClose, Reads, PeerTyped
  <2>2. CloseInfoFrom(Head(inbound).arg) \in Outcomes BY <2>1, WireKinds DEF Outcomes
  <2> QED BY <1>9, <2>2 DEF ReaderPeerClose, Reads, Armed, Advance
<1>10. CASE ReaderCapacity
  <2>1. wireClosing' = TRUE /\ deadline' \in {"none", "armed", "expired"}
    BY <1>10, ClosesTyped DEF ReaderCapacity
  <2> QED BY <1>10, <2>1 DEF ReaderCapacity, Reads
<1>11. CASE ReaderReads \/ ReaderWritesReply
  BY <1>11 DEF ReaderReads, ReaderWritesReply
<1>12. CASE ReaderEnds
  <2>1. state' \in {"open", "closing", "closed"} BY <1>12 DEF ReaderEnds, Finalizes, Advance
  <2>2. closeInfo' \in Outcomes /\ inOpen' = FALSE /\ closed' = TRUE
    BY <1>12 DEF ReaderEnds, Finalizes
  <2>3. UNCHANGED <<localClosed, claimed, dropped, overflowed, streamHeld, wireClosing, writeDead,
                    deadline, peerFrame, wireDead, peerClosed, discarded, waited>>
    BY <1>12 DEF ReaderEnds
  <2>4. inOpen' \in BOOLEAN /\ closed' \in BOOLEAN BY <2>2
  <2> HIDE <1>12
  <2> QED BY <2>1, <2>2, <2>3, <2>4
<1>13. CASE PeerStep \/ DeadlineExpires
  <2>1. CASE PeerStep
    <3> USE DEF PeerOnly
    <3>1. CASE PeerData \/ PeerPing BY <3>1 DEF PeerData, PeerPing
    <3>2. CASE TransportEnds BY <3>2 DEF TransportEnds
    <3>3. ASSUME NEW kind, PeerBreaks(kind) PROVE FlagsTyped' BY <3>3 DEF PeerBreaks
    <3>4. ASSUME NEW code, PeerClose(code) PROVE FlagsTyped' BY <3>4 DEF PeerClose
    <3> QED BY <2>1, <3>1, <3>2, <3>3, <3>4 DEF PeerStep
  <2>2. CASE DeadlineExpires BY <2>2 DEF DeadlineExpires
  <2> QED BY <1>13, <2>1, <2>2
<1>14. CASE UNCHANGED vars BY <1>14 DEF vars
<1> QED
  BY <1>1, <1>2, <1>3, <1>4, <1>5, <1>6, <1>7, <1>8, <1>9, <1>10, <1>11, <1>12, <1>13,
     <1>14 DEF Next, CmdStep, ReaderStep, Tasks

LEMMA InboxTypedNext == Typed /\ [Next]_vars => InboxTyped'
<1> SUFFICES ASSUME Typed, [Next]_vars PROVE InboxTyped'
  OBVIOUS
<1> USE DEF Typed, InboxTyped, shared, queue, budget, calls, stream, writes, flags,
            peerVars, seen
<1> DEFINE inboxVars == <<inq, delivered, streamed, queueLock, budgetUsed, inHand, recvSt, feeder>>
<1>0. ASSUME UNCHANGED inboxVars PROVE InboxTyped' BY <1>0
<1>1. ASSUME TakeHead
      PROVE  /\ inq' \in Seq(MsgIds) /\ delivered' \in Seq(MsgIds)
             /\ budgetUsed' \in 0 .. Limit /\ Head(inq) \in MsgIds
  <2>1. inq' \in Seq(MsgIds) /\ Head(inq) \in MsgIds BY <1>1, TailAt DEF TakeHead
  <2>2. delivered' \in Seq(MsgIds) BY <1>1, <2>1, AppendAt DEF TakeHead
  <2>3. Size(Head(inq)) \in Nat /\ Limit \in Nat BY <2>1, Sizes
  <2>4. budgetUsed' \in 0 .. Limit BY <1>1, <2>3 DEF TakeHead, Releases
  <2> QED BY <2>1, <2>2, <2>4
<1>2. ASSUME NEW r \in Receives, NEW o \in {"viaStream", "closed", "overflow", "message"},
             ReceiveResolves(r, o)
      PROVE  /\ recvSt' \in [Receives -> {"unused", "pending", "message", "viaStream",
                                          "overflow", "closed"}]
             /\ queueLock' \in Receives \cup {NoCall, "feeder"}
  BY <1>2 DEF ReceiveResolves
<1>3. CASE GuestCalls
  <2>1. ASSUME NEW s \in Sends, Send(s) PROVE UNCHANGED inboxVars BY <2>1 DEF Send
  <2>2. ASSUME NEW req \in CloseRequests, Close(req) PROVE UNCHANGED inboxVars
    BY <2>2 DEF Close
  <2>3. ASSUME NEW r \in Receives, Receive(r) PROVE InboxTyped' BY <2>3 DEF Receive
  <2>4. CASE Drop \/ ReceiveViaStream \/ StreamDropped \/ WaitClosed
    BY <2>4 DEF Drop, ReceiveViaStream, StreamDropped, WaitClosed
  <2>5. CASE ElementRead
    <3>1. streamed' \in Seq(MsgIds) BY <2>5, AppendAt DEF ElementRead
    <3> QED BY <2>5, <3>1 DEF ElementRead, FeederOnly
  <2>6. CASE PayloadRead \/ ReaderGone
    BY <2>6, Sizes DEF PayloadRead, ReaderGone, FeederStops, FeederOnly
  <2> QED BY <1>0, <1>3, <2>1, <2>2, <2>3, <2>4, <2>5, <2>6 DEF GuestCalls
<1>4. CASE FeederStep
  <2>1. CASE FeederLocks BY <2>1 DEF FeederLocks, FeederOnly
  <2>2. CASE FeederTakes
    <3>1. TakeHead /\ feeder' = "element" /\ inHand' = Head(inq)
          /\ UNCHANGED <<queueLock, streamed, recvSt>>
      BY <2>2 DEF FeederTakes, FeederOnly
    <3>2. Head(inq) \in 0 .. MaxMsgs BY <1>1, <3>1, Sizes DEF MsgIds
    <3> QED BY <1>1, <3>1, <3>2
  <2>3. CASE FeederEnds \/ ReaderGone
    BY <2>3, Sizes DEF FeederEnds, ReaderGone, FeederStops, FeederOnly
  <2> QED BY <1>4, <2>1, <2>2, <2>3 DEF FeederStep
<1>5. ASSUME NEW r \in Receives, ReceivePoll(r) PROVE InboxTyped'
  <2>1. CASE ReceiveLocks(r) BY <2>1 DEF ReceiveLocks
  <2>2. CASE ReceiveSignalled(r)
    <3>1. PICK o \in {"viaStream", "closed"} : ReceiveResolves(r, o)
      BY <2>2 DEF ReceiveSignalled
    <3> QED BY <2>2, <3>1, <1>2 DEF ReceiveSignalled
  <2>3. CASE ReceiveTakes(r) BY <2>3, <1>1, <1>2 DEF ReceiveTakes
  <2>4. CASE ReceiveEnds(r)
    <3>1. PICK o \in {"overflow", "closed"} : ReceiveResolves(r, o)
      BY <2>4 DEF ReceiveEnds, EndOutcome
    <3> QED BY <2>4, <3>1, <1>2 DEF ReceiveEnds
  <2> QED BY <1>5, <2>1, <2>2, <2>3, <2>4 DEF ReceivePoll
<1>6. CASE CmdSend \/ CmdClose BY <1>0, <1>6 DEF CmdSend, CmdClose
<1>7. CASE CmdClaim BY <1>7 DEF CmdClaim
<1>8. ASSUME NEW t \in Tasks, FlushStep(t) \/ TransportStep(t) PROVE UNCHANGED inboxVars
  BY <1>8 DEF FlushStep, TransportStep, Locks, WriteSeesLocalClose, WriteTimesOut,
     WriteTakes, WriteFails, WriteOnly
<1>9. CASE ReaderData
  <2>0. UNCHANGED <<delivered, streamed, queueLock, inHand, recvSt, feeder>>
    BY <1>9 DEF ReaderData, Reads
  <2>1. CASE UNCHANGED <<inq, budgetUsed>> BY <1>0, <2>0, <2>1
  <2>2. CASE Fits(Head(inbound).arg) /\ inq' = Append(inq, Head(inbound).arg)
             /\ budgetUsed' = budgetUsed + Size(Head(inbound).arg)
    <3>1. Head(inbound) \in WireFrames /\ Head(inbound).kind = "data"
      BY <1>9, TailAt DEF ReaderData, Reads, PeerTyped
    <3>2. Head(inbound).arg \in MsgIds /\ Size(Head(inbound).arg) \in Nat /\ Limit \in Nat
      BY <3>1, WireKinds, Sizes
    <3>3. budgetUsed' \in 0 .. Limit BY <2>2, <3>2 DEF Fits
    <3>4. inq' \in Seq(MsgIds) BY <2>2, <3>2, AppendAt
    <3> QED BY <2>0, <3>3, <3>4
  <2> QED BY <1>9, <2>1, <2>2 DEF ReaderData, budget
<1>10. CASE \/ ReaderPing \/ ReaderPeerClose \/ ReaderCapacity \/ ReaderReads \/ ReaderEnds
            \/ ReaderWritesReply
  BY <1>0, <1>10
     DEF ReaderPing, ReaderPeerClose, ReaderCapacity, ReaderReads, ReaderEnds, Reads,
         ReaderWritesReply
<1>11. CASE PeerStep \/ DeadlineExpires
  BY <1>0, <1>11 DEF PeerStep, PeerData, PeerPing, PeerBreaks, PeerClose, TransportEnds,
     PeerOnly, DeadlineExpires
<1>12. CASE UNCHANGED vars BY <1>0, <1>12 DEF vars
<1> QED
  BY <1>0, <1>3, <1>4, <1>5, <1>6, <1>7, <1>8, <1>9, <1>10, <1>11, <1>12
     DEF Next, CmdStep, ReaderStep, Tasks
-----------------------------------------------------------------------------
LEMMA PeerTypedNext == Typed /\ [Next]_vars => PeerTyped'
<1> SUFFICES ASSUME Typed, [Next]_vars PROVE PeerTyped'
  OBVIOUS
<1> USE DEF Typed, PeerTyped, shared, queue, budget, calls, stream, writes, flags,
            peerVars, seen
<1>0. ASSUME UNCHANGED <<inbound, wire, peerSent>> PROVE PeerTyped' BY <1>0
<1>1. CASE GuestCalls
  <2>1. ASSUME NEW s \in Sends, Send(s) PROVE PeerTyped' BY <1>0, <2>1 DEF Send
  <2>2. ASSUME NEW req \in CloseRequests, Close(req) PROVE PeerTyped'
    BY <1>0, <2>2 DEF Close
  <2>3. ASSUME NEW r \in Receives, Receive(r) PROVE PeerTyped' BY <1>0, <2>3 DEF Receive
  <2>4. CASE Drop \/ ReceiveViaStream \/ StreamDropped \/ WaitClosed
    BY <1>0, <2>4 DEF Drop, ReceiveViaStream, StreamDropped, WaitClosed
  <2>5. CASE ElementRead \/ PayloadRead \/ ReaderGone
    BY <1>0, <2>5 DEF ElementRead, PayloadRead, ReaderGone, FeederOnly
  <2> QED BY <1>1, <2>1, <2>2, <2>3, <2>4, <2>5 DEF GuestCalls
<1>2. CASE FeederStep
  BY <1>0, <1>2 DEF FeederStep, FeederLocks, FeederTakes, FeederEnds, ReaderGone, FeederOnly
<1>3. ASSUME NEW r \in Receives, ReceivePoll(r) PROVE PeerTyped'
  BY <1>0, <1>3 DEF ReceivePoll, ReceiveLocks, ReceiveSignalled, ReceiveTakes, ReceiveEnds
<1>4. CASE CmdStep
  BY <1>0, <1>4 DEF CmdStep, CmdSend, CmdClose, CmdClaim, FlushStep, Locks,
     WriteSeesLocalClose, WriteTimesOut, WriteOnly
<1>5. ASSUME NEW kind, Reads(kind) PROVE PeerTyped'
  BY <1>5, TailAt DEF Reads
<1>6. CASE ReaderData \/ ReaderPing \/ ReaderPeerClose \/ ReaderCapacity
  BY <1>5, <1>6 DEF ReaderData, ReaderPing, ReaderPeerClose, ReaderCapacity
<1>7. CASE ReaderReads
  <2>1. PICK n \in 1 .. Len(wire) : inbound' = SubSeq(wire, 1, n)
                                    /\ wire' = SubSeq(wire, n + 1, Len(wire))
    BY <1>7 DEF ReaderReads
  <2>2. inbound' \in Seq(WireFrames) /\ wire' \in Seq(WireFrames) BY <2>1
  <2> QED BY <1>7, <2>2 DEF ReaderReads
<1>8. CASE ReaderEnds \/ ReaderWritesReply
  <2>1. CASE ReaderEnds
    <3>1. inbound' = <<>> /\ UNCHANGED <<wire, peerSent>> BY <2>1 DEF ReaderEnds
    <3> QED BY <3>1
  <2>2. CASE ReaderWritesReply BY <1>0, <2>2 DEF ReaderWritesReply
  <2> QED BY <1>8, <2>1, <2>2
<1>9. ASSUME NEW t \in Tasks, FlushStep(t) \/ TransportStep(t) PROVE PeerTyped'
  BY <1>0, <1>9 DEF FlushStep, TransportStep, Locks, WriteSeesLocalClose, WriteTimesOut,
     WriteTakes, WriteFails, WriteOnly
<1>10. CASE PeerStep
  <2> USE DEF PeerOnly, PeerPuts
  <2>1. CASE PeerData
    <3>1. peerSent + 1 \in MsgIds BY <2>1, Sizes DEF PeerData, MsgIds
    <3>2. [kind |-> "data", arg |-> peerSent + 1] \in WireFrames BY <3>1 DEF WireFrames
    <3>3. wire' \in Seq(WireFrames) BY <2>1, <3>2, AppendAt DEF PeerData
    <3> QED BY <2>1, <3>1, <3>3 DEF PeerData, MsgIds
  <2>2. ASSUME NEW kind \in {"ping", "big", "bad"}, PeerPuts(kind, 0),
               UNCHANGED <<inbound, peerSent>>
        PROVE  PeerTyped'
    <3>1. [kind |-> kind, arg |-> 0] \in WireFrames BY DEF WireFrames
    <3>2. wire' \in Seq(WireFrames) BY <2>2, <3>1, AppendAt
    <3> QED BY <2>2, <3>2
  <2>3. CASE PeerPing BY <2>2, <2>3 DEF PeerPing
  <2>4. ASSUME NEW kind \in {"big", "bad"}, PeerBreaks(kind) PROVE PeerTyped'
    BY <2>2, <2>4 DEF PeerBreaks
  <2>5. ASSUME NEW code \in PeerCodes, PeerClose(code) PROVE PeerTyped'
    <3>1. [kind |-> "close", arg |-> code] \in WireFrames BY DEF WireFrames
    <3>2. wire' \in Seq(WireFrames) BY <2>5, <3>1, AppendAt DEF PeerClose
    <3> QED BY <2>5, <3>2 DEF PeerClose
  <2>6. CASE TransportEnds
    <3>1. PICK k \in 0 .. Len(wire) : wire' = Append(SubSeq(wire, 1, k), Eof)
      BY <2>6 DEF TransportEnds, Eof
    <3>2. Eof \in WireFrames /\ SubSeq(wire, 1, k) \in Seq(WireFrames)
      <4>1. Eof \in WireFrames BY DEF Eof, WireFrames
      <4> QED BY <4>1
    <3>3. wire' \in Seq(WireFrames) BY <3>1, <3>2, AppendAt
    <3> QED BY <2>6, <3>3 DEF TransportEnds
  <2> QED BY <1>10, <2>1, <2>3, <2>4, <2>5, <2>6 DEF PeerStep
<1>11. CASE DeadlineExpires BY <1>0, <1>11 DEF DeadlineExpires
<1>12. CASE UNCHANGED vars BY <1>0, <1>12 DEF vars
<1> QED
  BY <1>1, <1>2, <1>3, <1>4, <1>6, <1>7, <1>8, <1>9, <1>10, <1>11, <1>12
     DEF Next, ReaderStep, Tasks
-----------------------------------------------------------------------------
(***************************************************************************)
(* Flushing: the types, and who holds the lock.                            *)
(***************************************************************************)
Thens == Sends \cup {"loop", "end"}

LEMMA TaskNames == "cmd" \in Tasks /\ "reader" \in Tasks /\ NoCall \notin Tasks
BY ProviderCallsAssumption DEF Tasks

\* The end of a flush.
LEMMA ResumesTyped ==
  ASSUME OutTyped, NEW t \in Tasks, NEW then \in Thens, NEW result \in {"ok", "closed"},
         Resumes(t, then, result)
  PROVE  /\ at' \in [Tasks -> Places]
         /\ at'[t].pc \in {"loop", "end"} /\ at'[t].then = "loop"
         /\ \A u \in Tasks : u # t => at'[u] = at[u]
         /\ sendSt' \in [Sends -> {"unused", "queued", "ok", "closed"}]
<1> DEFINE place == [pc |-> IF then = "end" THEN "end" ELSE "loop", then |-> "loop"]
<1>1. place \in Places /\ place.pc \in {"loop", "end"} /\ place.then = "loop" BY DEF Places
<1>2. at' = [at EXCEPT ![t] = place] BY DEF Resumes
<1> HIDE DEF place
<1>3. at' \in [Tasks -> Places] /\ at'[t] = place /\ \A u \in Tasks : u # t => at'[u] = at[u]
  BY <1>1, <1>2 DEF OutTyped
<1>4. sendSt' \in [Sends -> {"unused", "queued", "ok", "closed"}]
  BY DEF Resumes, OutTyped
<1> QED BY <1>1, <1>3, <1>4

\* A task stops to wait for the lock, or for the transport.
LEMMA WaitsTyped ==
  ASSUME OutTyped, NEW t \in Tasks, NEW then \in Thens, NEW pc \in {"lock", "write"},
         at' = [at EXCEPT ![t] = [pc |-> pc, then |-> then]]
  PROVE  /\ at' \in [Tasks -> Places] /\ at'[t].pc = pc /\ at'[t].then = then
         /\ \A u \in Tasks : u # t => at'[u] = at[u]
<1> DEFINE place == [pc |-> pc, then |-> then]
<1>1. place \in Places /\ place.pc = pc /\ place.then = then BY DEF Places, Thens
<1> HIDE DEF place
<1>2. at' \in [Tasks -> Places] /\ at'[t] = place /\ \A u \in Tasks : u # t => at'[u] = at[u]
  BY <1>1 DEF OutTyped, place
<1> QED BY <1>1, <1>2

\* The parts of the state a flush touches, well typed and consistent.
FlushTyped ==
  /\ outbound \in Seq(Frames) /\ writing \in Seq(Frames)
  /\ sendSt \in [Sends -> {"unused", "queued", "ok", "closed"}]
  /\ at \in [Tasks -> Places]
  /\ writeLock \in Tasks \cup {NoCall} /\ bound \in {"local", "deadline"}

LEMMA WritesLock ==
  ASSUME OutTyped, LockKept, NEW t \in Tasks, NEW then \in Thens, NEW out \in Seq(Frames),
         Writes(t, then, out), writeLock = NoCall, at[t].pc # "done", inOpen' = inOpen,
         inOpen \in BOOLEAN
  PROVE  FlushTyped' /\ LockKept'
<1>1. outbound' = <<>> /\ outbound' \in Seq(Frames) BY DEF Writes
<1>2. CASE out = <<>> \/ writeDead
  <2>1. PICK result \in {"ok", "closed"} : Resumes(t, then, result)
    BY <1>2 DEF Writes, UnwrittenResult
  <2>2. UNCHANGED <<writeLock, writing, bound>> BY <1>2 DEF Writes
  <2>3. FlushTyped' BY <1>1, <2>1, <2>2, ResumesTyped DEF FlushTyped, OutTyped
  <2>4. LockKept'
    <3>1. \A u \in Tasks : u # t => at'[u] = at[u] BY <2>1, ResumesTyped
    <3>2. at'[t].pc \in {"loop", "end"} BY <2>1, ResumesTyped
    <3> QED BY <2>2, <3>1, <3>2, TaskNames DEF LockKept
  <2> QED BY <2>3, <2>4
<1>3. CASE ~(out = <<>> \/ writeDead)
  <2>1. /\ at' = [at EXCEPT ![t] = [pc |-> "write", then |-> then]]
        /\ writeLock' = t /\ writing' = out /\ sendSt' = sendSt
    BY <1>3 DEF Writes
  <2>2. bound' \in {"local", "deadline"} BY <1>3 DEF Writes
  <2>3. /\ at' \in [Tasks -> Places] /\ at'[t].pc = "write"
        /\ \A u \in Tasks : u # t => at'[u] = at[u]
    BY <2>1, WaitsTyped
  <2>4. FlushTyped' BY <1>1, <2>1, <2>2, <2>3 DEF FlushTyped, OutTyped
  <2>5. LockKept' BY <1>3, <2>1, <2>3, TaskNames DEF LockKept
  <2> QED BY <2>4, <2>5
<1> QED BY <1>2, <1>3

LEMMA FlushesLock ==
  ASSUME OutTyped, LockKept, NEW t \in Tasks, NEW then \in Thens, NEW out \in Seq(Frames),
         Flushes(t, then, out), at[t].pc = "loop", inOpen' = inOpen, inOpen \in BOOLEAN
  PROVE  FlushTyped' /\ LockKept'
<1>1. CASE writeLock = NoCall
  <2>1. Writes(t, then, out) BY <1>1 DEF Flushes
  <2> QED BY <1>1, <2>1, WritesLock
<1>2. CASE writeLock # NoCall
  <2>1. /\ at' = [at EXCEPT ![t] = [pc |-> "lock", then |-> then]] /\ outbound' = out
        /\ UNCHANGED <<writeLock, writing, bound, sendSt>>
    BY <1>2 DEF Flushes
  <2>2. /\ at' \in [Tasks -> Places] /\ at'[t].pc = "lock"
        /\ \A u \in Tasks : u # t => at'[u] = at[u]
    BY <2>1, WaitsTyped
  <2>3. FlushTyped' BY <2>1, <2>2 DEF FlushTyped, OutTyped
  <2>4. LockKept' BY <2>1, <2>2, TaskNames DEF LockKept
  <2> QED BY <2>3, <2>4
<1> QED BY <1>1, <1>2

LEMMA BeginsCloseLock ==
  ASSUME OutTyped, LockKept, NEW t \in Tasks, NEW then \in {"loop", "end"},
         NEW code \in ClientCodes,
         BeginsClose(t, then, code), at[t].pc = "loop", inOpen' = inOpen, inOpen \in BOOLEAN
  PROVE  FlushTyped' /\ LockKept' /\ reply' \in Owed
<1>0. then \in Thens BY DEF Thens
<1>1. CASE wireClosing
  <2>1. Resumes(t, then, "ok") /\ UNCHANGED <<outbound, reply, writeLock, writing, bound>>
    BY <1>1 DEF BeginsClose
  <2>2. FlushTyped' BY <1>0, <2>1, ResumesTyped DEF FlushTyped, OutTyped
  <2>3. \A u \in Tasks : u # t => at'[u] = at[u] BY <1>0, <2>1, ResumesTyped
  <2>4. at'[t].pc \in {"loop", "end"} BY <1>0, <2>1, ResumesTyped
  <2>5. LockKept' BY <2>1, <2>3, <2>4, TaskNames DEF LockKept
  <2> QED BY <2>1, <2>2, <2>5 DEF OutTyped
<1>2. CASE ~wireClosing
  <2> DEFINE out == WithReply(Append(outbound, CloseFrame(code)))
  <2>1. Flushes(t, then, out) /\ reply' \in Owed BY <1>2 DEF BeginsClose, SendsFrame, Owed
  <2>2. out \in Seq(Frames)
    BY FrameKinds, AppendAt, WithReplyTyped DEF OutTyped
  <2> HIDE DEF out
  <2> QED BY <1>0, <2>1, <2>2, FlushesLock
<1> QED BY <1>1, <1>2
-----------------------------------------------------------------------------
\* The frames and the calls are well typed, and the lock is where it belongs.
LEMMA OutNext == Typed /\ LockKept /\ [Next]_vars => OutTyped' /\ LockKept'
<1> SUFFICES ASSUME Typed, LockKept, [Next]_vars PROVE OutTyped' /\ LockKept'
  OBVIOUS
<1> USE DEF Typed, shared, queue, budget, calls, stream, writes, flags, peerVars, seen
<1> DEFINE Goal == OutTyped' /\ LockKept'
<1>0. inOpen \in BOOLEAN /\ wireClosing \in BOOLEAN BY DEF FlagsTyped
<1>1. ASSUME UNCHANGED <<cmdq, toPeer, sendSt, writes, inOpen>> PROVE Goal
  BY <1>1 DEF OutTyped, LockKept
<1>2. ASSUME UNCHANGED <<toPeer, sendSt, writes, inOpen>>, cmdq' \in Seq(Frames) PROVE Goal
  BY <1>2 DEF OutTyped, LockKept
<1>3. ASSUME FlushTyped', LockKept', cmdq' \in Seq(Frames), toPeer' \in Seq(Frames), reply' \in Owed
      PROVE  Goal
  BY <1>3 DEF OutTyped, FlushTyped
<1>4. ASSUME NEW f \in Frames PROVE Append(cmdq, f) \in Seq(Frames)
  BY AppendAt DEF OutTyped
<1>5. ASSUME NEW kind, CmdReady(kind)
      PROVE  cmdq' \in Seq(Frames) /\ Head(cmdq) \in Frames /\ Head(cmdq).kind = kind
             /\ at["cmd"].pc = "loop" /\ cmdq' = Tail(cmdq)
  BY <1>5, TailAt DEF CmdReady, OutTyped
<1>6. CASE GuestCalls
  <2>1. ASSUME NEW s \in Sends, Send(s) PROVE Goal
    <3>1. CASE localClosed
      <4>1. sendSt' = [sendSt EXCEPT ![s] = "closed"] /\ UNCHANGED <<cmdq, toPeer, writes, inOpen>>
        BY <2>1, <3>1 DEF Send
      <4> QED BY <4>1 DEF OutTyped, LockKept
    <3>2. CASE ~localClosed
      <4>1. sendSt' = [sendSt EXCEPT ![s] = "queued"] /\ cmdq' = Append(cmdq, DataFrame(s))
            /\ UNCHANGED <<toPeer, writes, inOpen>>
        BY <2>1, <3>2 DEF Send
      <4>2. cmdq' \in Seq(Frames) BY <4>1, <1>4, FrameKinds
      <4> QED BY <4>1, <4>2 DEF OutTyped, LockKept
    <3> QED BY <3>1, <3>2
  <2>2. ASSUME NEW req \in CloseRequests, Close(req) PROVE Goal
    BY <2>2, <1>2, <1>4, ClosableCodes, FrameKinds DEF Close, Closes
  <2>3. ASSUME NEW r \in Receives, Receive(r) PROVE Goal BY <1>1, <2>3 DEF Receive
  <2>4. CASE Drop
    <3>1. CASE localClosed BY <1>1, <2>4, <3>1 DEF Drop
    <3>2. CASE ~localClosed BY <1>2, <1>4, <2>4, <3>2, FrameKinds DEF Drop, Closes
    <3> QED BY <3>1, <3>2
  <2>5. CASE ReceiveViaStream BY <1>2, <1>4, <2>5, FrameKinds DEF ReceiveViaStream
  <2>6. CASE StreamDropped \/ WaitClosed BY <1>1, <2>6 DEF StreamDropped, WaitClosed
  <2>7. CASE ElementRead \/ PayloadRead \/ ReaderGone
    BY <1>1, <2>7 DEF ElementRead, PayloadRead, ReaderGone, FeederOnly
  <2> QED BY <1>6, <2>1, <2>2, <2>3, <2>4, <2>5, <2>6, <2>7 DEF GuestCalls
<1>7. CASE FeederStep
  BY <1>1, <1>7 DEF FeederStep, FeederLocks, FeederTakes, FeederEnds, ReaderGone, FeederOnly
<1>8. ASSUME NEW r \in Receives, ReceivePoll(r) PROVE Goal
  BY <1>1, <1>8 DEF ReceivePoll, ReceiveLocks, ReceiveSignalled, ReceiveTakes, ReceiveEnds
<1>9. CASE CmdSend
  <2>1. CmdReady("send") /\ UNCHANGED <<toPeer, inOpen>> BY <1>9 DEF CmdSend
  <2>2. cmdq' \in Seq(Frames) /\ Head(cmdq) \in Frames /\ at["cmd"].pc = "loop"
        /\ Head(cmdq).from \in Sends
    BY <1>5, <2>1, FrameKinds
  <2>3. toPeer' \in Seq(Frames) BY <2>1 DEF OutTyped
  <2>4. CASE Refused
    <3>1. sendSt' = [sendSt EXCEPT ![Head(cmdq).from] = "closed"] /\ UNCHANGED writes
      BY <1>9, <2>4 DEF CmdSend
    <3> QED BY <2>1, <2>2, <2>3, <3>1 DEF OutTyped, LockKept
  <2>5. CASE ~Refused
    <3> DEFINE out == WithReply(Append(outbound, Head(cmdq)))
    <3>1. Flushes("cmd", Head(cmdq).from, out) /\ reply' \in Owed
      BY <1>9, <2>5 DEF CmdSend, SendsFrame, Owed
    <3>2. out \in Seq(Frames) BY <2>2, AppendAt, WithReplyTyped DEF OutTyped
    <3>3. Head(cmdq).from \in Thens BY <2>2 DEF Thens
    <3> HIDE DEF out
    <3> QED BY <1>0, <1>3, <2>1, <2>2, <2>3, <3>1, <3>2, <3>3, FlushesLock, TaskNames
  <2> QED BY <2>4, <2>5
<1>10. CASE CmdClose
  <2>1. CmdReady("close") /\ UNCHANGED <<toPeer, inOpen>> BY <1>10 DEF CmdClose
  <2>2. cmdq' \in Seq(Frames) /\ at["cmd"].pc = "loop" /\ Head(cmdq).code \in ClientCodes
    BY <1>5, <2>1, FrameKinds
  <2>3. toPeer' \in Seq(Frames) BY <2>1 DEF OutTyped
  <2>4. CASE closed BY <1>2, <1>10, <2>1, <2>2, <2>4 DEF CmdClose
  <2>5. CASE ~closed
    <3>1. BeginsClose("cmd", "loop", Head(cmdq).code) BY <1>10, <2>5 DEF CmdClose
    <3> QED BY <1>0, <1>3, <2>1, <2>2, <2>3, <3>1, BeginsCloseLock, TaskNames
  <2> QED BY <2>4, <2>5
<1>11. CASE CmdClaim BY <1>2, <1>5, <1>11 DEF CmdClaim
<1>12. ASSUME NEW t \in Tasks, Locks(t) PROVE Goal
  <2>1. at[t].pc = "lock" /\ writeLock = NoCall /\ Writes(t, at[t].then, outbound)
        /\ UNCHANGED <<cmdq, toPeer, inOpen, reply>>
    BY <1>12 DEF Locks
  <2>2. at[t].then \in Thens BY DEF OutTyped, Places, Thens
  <2>3. FlushTyped' /\ LockKept' BY <1>0, <2>1, <2>2, WritesLock DEF OutTyped
  <2> QED BY <1>3, <2>1, <2>3 DEF OutTyped
<1>13. ASSUME NEW t \in Tasks, NEW result \in {"ok", "closed"}, at[t].pc = "write",
              WriteEnds(t, result), toPeer' \in Seq(Frames), UNCHANGED <<cmdq, inOpen, reply>>
       PROVE  Goal
  <2>1. at[t].then \in Thens BY DEF OutTyped, Places, Thens
  <2>2. Resumes(t, at[t].then, result) /\ writeLock' = NoCall /\ writing' = <<>>
        /\ UNCHANGED <<outbound, bound>>
    BY <1>13 DEF WriteEnds
  <2>3. FlushTyped' BY <2>1, <2>2, ResumesTyped DEF FlushTyped, OutTyped
  <2>4. \A u \in Tasks : u # t => at'[u] = at[u] BY <2>1, <2>2, ResumesTyped
  <2>5. at'[t].pc \in {"loop", "end"} BY <2>1, <2>2, ResumesTyped
  <2>6. writeLock = t BY <1>13 DEF LockKept
  <2>7. LockKept' BY <1>13, <2>2, <2>4, <2>5, <2>6, TaskNames DEF LockKept
  <2> QED BY <1>3, <1>13, <2>3, <2>7 DEF OutTyped
<1>14. ASSUME NEW t \in Tasks, at[t].pc = "write"
       PROVE  /\ writing # <<>> /\ Head(writing) \in Frames /\ Tail(writing) \in Seq(Frames)
              /\ Len(writing) # 1 => Tail(writing) # <<>>
              /\ Handed(Head(writing)) => toPeer' \in Seq(Frames)
  <2>1. writing # <<>> BY <1>14, TaskNames DEF LockKept
  <2>2. Head(writing) \in Frames /\ Tail(writing) \in Seq(Frames)
    BY <2>1, TailAt DEF OutTyped
  <2>3. ASSUME Len(writing) # 1 PROVE Tail(writing) # <<>>
    <3>1. Len(writing) - 1 # 0 /\ Len(Tail(writing)) = Len(writing) - 1
      BY <2>1, <2>3, TailAt DEF OutTyped
    <3> QED BY <3>1
  <2>4. Handed(Head(writing)) => toPeer' \in Seq(Frames)
    BY <2>2, AppendAt DEF Handed, OutTyped
  <2> QED BY <2>1, <2>2, <2>3, <2>4
<1>15. ASSUME NEW t \in Tasks, WriteTakes(t) PROVE Goal
  <2>1. at[t].pc = "write" /\ Handed(Head(writing)) /\ UNCHANGED <<cmdq, inOpen, reply>>
    BY <1>15 DEF WriteTakes, WriteOnly
  <2>2. CASE Len(writing) = 1
    BY <1>13, <1>14, <1>15, <2>1, <2>2 DEF WriteTakes
  <2>3. CASE Len(writing) # 1
    <3>1. writing' = Tail(writing) /\ UNCHANGED <<at, outbound, writeLock, bound, sendSt>>
      BY <1>15, <2>3 DEF WriteTakes
    <3>2. writing' # <<>> /\ writing # <<>> /\ writing' \in Seq(Frames) /\ toPeer' \in Seq(Frames)
      BY <1>14, <2>1, <2>3, <3>1
    <3> QED BY <2>1, <3>1, <3>2 DEF OutTyped, LockKept
  <2> QED BY <2>2, <2>3
<1>16. ASSUME NEW t \in Tasks, WriteFails(t) PROVE Goal
  BY <1>13, <1>16 DEF WriteFails, WriteOnly, OutTyped
<1>17. ASSUME NEW t \in Tasks, WriteSeesLocalClose(t) PROVE Goal
  BY <1>17 DEF WriteSeesLocalClose, WriteOnly, OutTyped, LockKept
<1>18. ASSUME NEW t \in Tasks, WriteTimesOut(t) PROVE Goal
  <2>1. at[t].pc = "write" /\ WriteEnds(t, "closed") /\ UNCHANGED <<cmdq, inOpen, reply>>
    BY <1>18 DEF WriteTimesOut, WriteOnly
  <2>2. toPeer' \in Seq(Frames)
    <3>1. CASE UNCHANGED toPeer BY <3>1 DEF OutTyped
    <3>2. CASE Handed(Head(writing)) BY <1>14, <2>1, <3>2
    <3> QED BY <1>18, <3>1, <3>2 DEF WriteTimesOut
  <2> QED BY <1>13, <2>1, <2>2
<1>19. ASSUME NEW kind, Reads(kind)
       PROVE  at["reader"].pc = "loop" /\ UNCHANGED <<cmdq, toPeer, inOpen>>
  BY <1>19 DEF Reads, ReadsOn
<1>20. ASSUME NEW f \in {Pong, CloseReply}, Owes(f), Flushes("reader", "loop", outbound),
              at["reader"].pc = "loop", UNCHANGED <<cmdq, toPeer, inOpen>>
       PROVE  Goal
  <2>1. "loop" \in Thens /\ outbound \in Seq(Frames) /\ reply' \in Owed
    BY <1>20 DEF Thens, OutTyped, Owes, Owed
  <2> QED BY <1>0, <1>3, <1>20, <2>1, FlushesLock, TaskNames DEF OutTyped
<1>21. ASSUME NEW then \in {"loop", "end"}, BeginsClose("reader", then, NoCode),
              at["reader"].pc = "loop", UNCHANGED <<cmdq, toPeer, inOpen>>
       PROVE  Goal
  BY <1>0, <1>3, <1>21, BeginsCloseLock, TaskNames, FrameKinds DEF OutTyped
<1>22. CASE ReaderWritesReply
  <2>1. /\ outbound' = WithReply(outbound) /\ reply' \in Owed
        /\ UNCHANGED <<cmdq, toPeer, sendSt, at, writeLock, writing, bound, inOpen>>
    BY <1>22 DEF ReaderWritesReply, Owed
  <2>2. outbound' \in Seq(Frames) BY <2>1, WithReplyTyped DEF OutTyped
  <2> QED BY <2>1, <2>2 DEF OutTyped, LockKept
<1>23. CASE ReaderData
  <2>1. CASE UNCHANGED <<sendSt, writes>> BY <1>1, <1>19, <1>23, <2>1 DEF ReaderData
  <2>2. CASE Overflows BY <1>19, <1>21, <1>23, <2>2 DEF ReaderData, Overflows
  <2> QED BY <1>23, <2>1, <2>2 DEF ReaderData
<1>24. CASE ReaderPing BY <1>19, <1>20, <1>24 DEF ReaderPing
<1>25. CASE ReaderPeerClose BY <1>19, <1>20, <1>25 DEF ReaderPeerClose
<1>26. CASE ReaderCapacity BY <1>19, <1>21, <1>26 DEF ReaderCapacity
<1>27. CASE ReaderReads BY <1>1, <1>27 DEF ReaderReads
<1>28. CASE ReaderEnds
  <2> DEFINE place == [pc |-> "done", then |-> "loop"]
  <2>1. /\ at' = [at EXCEPT !["reader"] = place] /\ inOpen' = FALSE
        /\ UNCHANGED <<cmdq, sendSt, toPeer, outbound, reply, writeLock, writing, bound>>
    BY <1>28 DEF ReaderEnds, Finalizes
  <2>2. place \in Places /\ place.pc = "done" BY DEF Places
  <2>3. at["reader"].pc \in {"loop", "end"}
    BY <1>28 DEF ReaderEnds, ReaderLeaves, Awaits, ReadsOn
  <2> HIDE DEF place
  <2>4. at' \in [Tasks -> Places] /\ at'["reader"] = place /\ at'["cmd"] = at["cmd"]
    BY <2>1, <2>2, TaskNames DEF OutTyped
  <2>5. LockKept' BY <2>1, <2>2, <2>3, <2>4, TaskNames DEF LockKept, Tasks
  <2> QED BY <2>1, <2>4, <2>5 DEF OutTyped
<1>29. CASE PeerStep \/ DeadlineExpires
  BY <1>1, <1>29 DEF PeerStep, PeerData, PeerPing, PeerBreaks, PeerClose, TransportEnds,
     PeerOnly, DeadlineExpires
<1>30. CASE UNCHANGED vars BY <1>1, <1>30 DEF vars
<1> QED
  BY <1>6, <1>7, <1>8, <1>9, <1>10, <1>11, <1>12, <1>15, <1>16, <1>17, <1>18, <1>22, <1>23, <1>24,
     <1>25, <1>26, <1>27, <1>28, <1>29, <1>30
     DEF Next, CmdStep, ReaderStep, FlushStep, TransportStep, Tasks
-----------------------------------------------------------------------------
(***************************************************************************)
(* The frames to come.                                                     *)
(***************************************************************************)
LEMMA JoinAt ==
  ASSUME NEW S, NEW a \in Seq(S), NEW b \in Seq(S)
  PROVE  /\ a \o b \in Seq(S) /\ Len(a) \in Nat /\ Len(b) \in Nat
         /\ Len(a \o b) = Len(a) + Len(b)
         /\ \A k \in 1 .. Len(a) + Len(b) :
              (a \o b)[k] = IF k =< Len(a) THEN a[k] ELSE b[k - Len(a)]
BY ConcatProperties

LEMMA JoinAssoc ==
  ASSUME NEW S, NEW a \in Seq(S), NEW b \in Seq(S), NEW c \in Seq(S)
  PROVE  a \o (b \o c) = (a \o b) \o c
<1>1. (a \o b) \o c = a \o (b \o c) BY ConcatAssociative
<1> QED BY <1>1

LEMMA JoinTail ==
  ASSUME NEW S, NEW a \in Seq(S), NEW b \in Seq(S), a # <<>>
  PROVE  a \o b # <<>> /\ Head(a \o b) = Head(a) /\ Tail(a \o b) = Tail(a) \o b
<1> DEFINE q == a \o b
           t == Tail(a) \o b
<1>1. /\ Len(a) >= 1 /\ Head(a) = a[1] /\ Tail(a) \in Seq(S) /\ Len(Tail(a)) = Len(a) - 1
      /\ \A k \in 1 .. Len(a) - 1 : Tail(a)[k] = a[k + 1]
  BY TailAt
<1>2. /\ q \in Seq(S) /\ Len(a) \in Nat /\ Len(b) \in Nat /\ Len(q) = Len(a) + Len(b)
      /\ \A k \in 1 .. Len(a) + Len(b) : q[k] = IF k =< Len(a) THEN a[k] ELSE b[k - Len(a)]
  BY JoinAt
<1>3. /\ t \in Seq(S) /\ Len(t) = Len(Tail(a)) + Len(b)
      /\ \A k \in 1 .. Len(Tail(a)) + Len(b) :
           t[k] = IF k =< Len(Tail(a)) THEN Tail(a)[k] ELSE b[k - Len(Tail(a))]
  BY <1>1, JoinAt
<1> HIDE DEF q, t
<1>4. q # <<>> BY <1>1, <1>2
<1>5. /\ Head(q) = q[1] /\ Tail(q) \in Seq(S) /\ Len(Tail(q)) = Len(q) - 1
      /\ \A k \in 1 .. Len(q) - 1 : Tail(q)[k] = q[k + 1]
  BY <1>2, <1>4, TailAt
<1>6. Head(q) = Head(a) BY <1>1, <1>2, <1>5
<1>7. Len(t) = Len(Tail(q)) BY <1>1, <1>2, <1>3, <1>5
<1>8. ASSUME NEW k \in 1 .. Len(t) PROVE t[k] = Tail(q)[k]
  <2>1. k \in 1 .. Len(q) - 1 /\ k + 1 \in 1 .. Len(q) /\ k \in Nat
    BY <1>2, <1>5, <1>7
  <2>2. Tail(q)[k] = q[k + 1] BY <1>5, <2>1
  <2>3. CASE k =< Len(a) - 1 BY <1>1, <1>2, <1>3, <2>1, <2>2, <2>3
  <2>4. CASE k > Len(a) - 1
    <3>1. t[k] = b[k - (Len(a) - 1)] BY <1>1, <1>2, <1>3, <2>1, <2>4
    <3>2. q[k + 1] = b[(k + 1) - Len(a)] BY <1>2, <2>1, <2>4
    <3>3. k - (Len(a) - 1) = (k + 1) - Len(a) BY <1>2, <2>1
    <3> QED BY <2>2, <3>1, <3>2, <3>3
  <2> QED BY <1>2, <2>1, <2>3, <2>4
<1>9. t = Tail(q) BY <1>3, <1>5, <1>7, <1>8, SeqEqual
<1> QED BY <1>4, <1>6, <1>9 DEF q, t

LEMMA JoinCut ==
  ASSUME NEW S, NEW a \in Seq(S), NEW b \in Seq(S), NEW n \in 0 .. Len(b)
  PROVE  /\ Len(a) + n \in 0 .. Len(a \o b)
         /\ a \o SubSeq(b, 1, n) = SubSeq(a \o b, 1, Len(a) + n)
<1> DEFINE m == Len(a) + n
           q == a \o SubSeq(b, 1, n)
           full == a \o b
<1>1. Len(b) \in Nat /\ Len(a) \in Nat /\ n \in Nat /\ n =< Len(b) OBVIOUS
<1>2. /\ SubSeq(b, 1, n) \in Seq(S) /\ Len(SubSeq(b, 1, n)) = n
      /\ \A k \in 1 .. n : SubSeq(b, 1, n)[k] = b[k]
  BY <1>1
<1>3. /\ full \in Seq(S) /\ Len(full) = Len(a) + Len(b)
      /\ \A k \in 1 .. Len(a) + Len(b) : full[k] = IF k =< Len(a) THEN a[k] ELSE b[k - Len(a)]
  BY JoinAt
<1>4. /\ q \in Seq(S) /\ Len(q) = m
      /\ \A k \in 1 .. m : q[k] = IF k =< Len(a) THEN a[k] ELSE SubSeq(b, 1, n)[k - Len(a)]
  BY <1>1, <1>2, ConcatProperties
<1>5. m \in 0 .. Len(full) /\ m \in Nat /\ m =< Len(a) + Len(b) BY <1>1, <1>3
<1> HIDE DEF q, full
<1>6. /\ SubSeq(full, 1, m) \in Seq(S) /\ Len(SubSeq(full, 1, m)) = m
      /\ \A k \in 1 .. m : SubSeq(full, 1, m)[k] = full[k]
  <2> HIDE DEF m
  <2> QED BY <1>3, <1>5
<1>7. ASSUME NEW k \in 1 .. m PROVE q[k] = SubSeq(full, 1, m)[k]
  <2>1. k \in 1 .. Len(a) + Len(b) /\ k \in Nat BY <1>1, <1>5
  <2>2. CASE k =< Len(a) BY <1>3, <1>4, <1>6, <2>1, <2>2
  <2>3. CASE k > Len(a)
    <3>1. k - Len(a) \in 1 .. n /\ ~(k =< Len(a)) BY <1>1, <2>1, <2>3
    <3>2. q[k] = b[k - Len(a)] BY <1>2, <1>4, <3>1
    <3> QED BY <1>3, <1>6, <2>1, <3>1, <3>2
  <2> QED BY <1>1, <2>1, <2>2, <2>3
<1> HIDE DEF m
<1>8. q = SubSeq(full, 1, m) BY <1>4, <1>6, <1>7, SeqEqual
<1> QED BY <1>5, <1>8 DEF q, m, full

\* Reading the next frame.
LEMMA ComingTail ==
  ASSUME PeerTyped, inbound # <<>>, inbound' = Tail(inbound), wire' = wire
  PROVE  Coming # <<>> /\ Head(Coming) = Head(inbound) /\ Coming' = Tail(Coming)
<1>1. inbound \in Seq(WireFrames) /\ wire \in Seq(WireFrames) BY DEF PeerTyped
<1>2. inbound \o wire # <<>> /\ Head(inbound \o wire) = Head(inbound)
      /\ Tail(inbound \o wire) = Tail(inbound) \o wire
  BY <1>1, JoinTail
<1> QED BY <1>2 DEF Coming

LEMMA ComingSeq == ASSUME PeerTyped PROVE Coming \in Seq(WireFrames)
BY JoinAt DEF PeerTyped, Coming

\* The next chunk of the byte stream.
LEMMA ComingSame ==
  ASSUME PeerTyped, NEW n \in 1 .. Len(wire), inbound = <<>>,
         inbound' = SubSeq(wire, 1, n), wire' = SubSeq(wire, n + 1, Len(wire))
  PROVE  Coming' = Coming
<1>1. wire \in Seq(WireFrames) /\ Len(wire) \in Nat BY DEF PeerTyped
<1>2. Coming = wire BY <1>1, ConcatEmptySeq DEF Coming
<1>3. SubSeq(wire, 1, n) \o SubSeq(wire, n + 1, Len(wire)) = SubSeq(wire, 1, Len(wire))
  <2>1. 1 \in 1 .. Len(wire) + 1 /\ n \in 1 - 1 .. Len(wire) /\ Len(wire) \in n .. Len(wire)
    BY <1>1
  <2> QED BY <1>1, <2>1, ConcatAdjacentSubSeq
<1>4. SubSeq(wire, 1, Len(wire)) = wire BY <1>1, SubSeqFull
<1> QED BY <1>2, <1>3, <1>4 DEF Coming

\* The peer puts a frame.
LEMMA ComingAppend ==
  ASSUME PeerTyped, NEW f \in WireFrames, inbound' = inbound, wire' = Append(wire, f)
  PROVE  Coming' = Append(Coming, f)
<1>1. inbound \in Seq(WireFrames) /\ wire \in Seq(WireFrames) BY DEF PeerTyped
<1>2. <<f>> \in Seq(WireFrames) OBVIOUS
<1>3. wire' = wire \o <<f>> BY <1>1, AppendIsConcat
<1>4. Append(Coming, f) = Coming \o <<f>> BY <1>1, JoinAt, AppendIsConcat DEF Coming
<1>5. inbound \o (wire \o <<f>>) = (inbound \o wire) \o <<f>>
  BY <1>1, <1>2, ConcatAssociative
<1> QED BY <1>3, <1>4, <1>5 DEF Coming

\* The byte stream ends, with the frames from some point on lost.
LEMMA ComingCut ==
  ASSUME PeerTyped, NEW n \in 0 .. Len(wire), inbound' = inbound,
         wire' = Append(SubSeq(wire, 1, n), Eof)
  PROVE  \E m \in 0 .. Len(Coming) : Coming' = Append(SubSeq(Coming, 1, m), Eof)
<1> DEFINE m == Len(inbound) + n
<1>1. inbound \in Seq(WireFrames) /\ wire \in Seq(WireFrames) /\ Len(wire) \in Nat
      /\ n \in Nat /\ n =< Len(wire)
  BY DEF PeerTyped
<1>2. Eof \in WireFrames /\ <<Eof>> \in Seq(WireFrames)
  <2>1. Eof \in WireFrames BY DEF Eof, WireFrames
  <2> QED BY <2>1
<1>3. SubSeq(wire, 1, n) \in Seq(WireFrames) BY <1>1
<1>4. m \in 0 .. Len(Coming) /\ inbound \o SubSeq(wire, 1, n) = SubSeq(Coming, 1, m)
  BY <1>1, JoinCut DEF Coming
<1>5. wire' = SubSeq(wire, 1, n) \o <<Eof>> BY <1>2, <1>3, AppendIsConcat
<1>6. inbound \o (SubSeq(wire, 1, n) \o <<Eof>>) = (inbound \o SubSeq(wire, 1, n)) \o <<Eof>>
  <2> HIDE DEF m
  <2> QED BY <1>1, <1>2, <1>3, JoinAssoc
<1>7. inbound \o SubSeq(wire, 1, n) \in Seq(WireFrames) BY <1>1, <1>3, JoinAt
<1>8. Append(inbound \o SubSeq(wire, 1, n), Eof) = (inbound \o SubSeq(wire, 1, n)) \o <<Eof>>
  BY <1>2, <1>7, AppendIsConcat
<1>9. Coming' = Append(SubSeq(Coming, 1, m), Eof)
  <2> HIDE DEF m
  <2> QED BY <1>4, <1>5, <1>6, <1>8 DEF Coming
<1> QED BY <1>4, <1>9
-----------------------------------------------------------------------------
\* What brings the next messages goes on to when its head is read.
LEMMA BringsTail ==
  ASSUME NEW q \in Seq(WireFrames), q # <<>>, NEW next \in Nat, NEW last \in Nat,
         Brings(q, next, last)
  PROVE  /\ Head(q).kind = "data" =>
              Head(q) = Msg(next) /\ next =< last /\ Brings(Tail(q), next + 1, last)
         /\ Head(q).kind # "data" => Brings(Tail(q), next, last)
<1>1. /\ Len(q) \in Nat /\ Len(q) >= 1 /\ DOMAIN q = 1 .. Len(q) /\ Head(q) = q[1]
      /\ Tail(q) \in Seq(WireFrames) /\ DOMAIN Tail(q) = 1 .. Len(q) - 1
      /\ \A k \in 1 .. Len(q) - 1 : Tail(q)[k] = q[k + 1]
      /\ Head(q) \in WireFrames
  BY TailAt
<1>2. ASSUME Head(q).kind = "data" PROVE Head(q) = Msg(next) /\ next =< last
  <2>1. q[1].kind = "data" /\ 1 \in DOMAIN q BY <1>1, <1>2
  <2>2. q[1].arg \in next .. last /\ \A n \in next .. q[1].arg - 1 : \E j \in 1 .. 1 - 1 : q[j] = Msg(n)
    BY <2>1 DEF Brings
  <2>3. q[1].arg = next BY <2>2
  <2> QED BY <1>1, <2>1, <2>2, <2>3, WireKinds
<1>3. ASSUME NEW from \in {next, next + 1}, IF Head(q).kind = "data" THEN from = next + 1 ELSE from = next,
             NEW k \in DOMAIN Tail(q), Tail(q)[k].kind = "data"
      PROVE  /\ Tail(q)[k].arg \in from .. last
             /\ \A j \in 1 .. k - 1 : Tail(q)[j].kind = "data" => Tail(q)[j].arg < Tail(q)[k].arg
             /\ \A n \in from .. Tail(q)[k].arg - 1 : \E j \in 1 .. k - 1 : Tail(q)[j] = Msg(n)
  <2>1. k \in 1 .. Len(q) - 1 /\ k + 1 \in DOMAIN q /\ Tail(q)[k] = q[k + 1] /\ k \in Nat
    BY <1>1
  <2>2. /\ q[k + 1].arg \in next .. last
        /\ \A j \in 1 .. (k + 1) - 1 : q[j].kind = "data" => q[j].arg < q[k + 1].arg
        /\ \A n \in next .. q[k + 1].arg - 1 : \E j \in 1 .. (k + 1) - 1 : q[j] = Msg(n)
    BY <1>3, <2>1 DEF Brings
  <2>3. Tail(q)[k].arg \in from .. last
    <3>1. CASE Head(q).kind = "data"
      <4>1. q[1].kind = "data" /\ q[1].arg = next /\ 1 \in 1 .. (k + 1) - 1
        BY <1>1, <1>2, <2>1, <3>1 DEF Msg
      <4> QED BY <1>3, <2>1, <2>2, <3>1, <4>1
    <3>2. CASE Head(q).kind # "data" BY <1>3, <2>1, <2>2, <3>2
    <3> QED BY <3>1, <3>2
  <2>4. ASSUME NEW j \in 1 .. k - 1, Tail(q)[j].kind = "data"
        PROVE  Tail(q)[j].arg < Tail(q)[k].arg
    <3>1. j \in 1 .. Len(q) - 1 /\ j + 1 \in 1 .. (k + 1) - 1 /\ Tail(q)[j] = q[j + 1]
      BY <1>1, <2>1
    <3> QED BY <2>1, <2>2, <2>4, <3>1
  <2>5. ASSUME NEW n \in from .. Tail(q)[k].arg - 1
        PROVE  \E j \in 1 .. k - 1 : Tail(q)[j] = Msg(n)
    <3>1. n \in next .. q[k + 1].arg - 1 BY <2>1, <2>2
    <3>2. PICK j \in 1 .. (k + 1) - 1 : q[j] = Msg(n) BY <2>2, <3>1
    <3>3. j # 1
      <4>1. SUFFICES ASSUME j = 1 PROVE FALSE OBVIOUS
      <4>2. Head(q) = Msg(n) /\ Head(q).kind = "data" /\ Head(q).arg = n
        BY <1>1, <3>2, <4>1 DEF Msg
      <4>3. Head(q).arg = next /\ from = next + 1 BY <1>2, <1>3, <4>2 DEF Msg
      <4> QED BY <4>2, <4>3
    <3>4. j - 1 \in 1 .. k - 1 /\ Tail(q)[j - 1] = q[(j - 1) + 1] /\ (j - 1) + 1 = j
      BY <1>1, <2>1, <3>3
    <3> QED BY <3>2, <3>4
  <2> QED BY <2>3, <2>4, <2>5
<1>4. ASSUME Head(q).kind = "data" PROVE Brings(Tail(q), next + 1, last)
  BY <1>3, <1>4 DEF Brings
<1>5. ASSUME Head(q).kind # "data" PROVE Brings(Tail(q), next, last)
  BY <1>3, <1>5 DEF Brings
<1> QED BY <1>2, <1>4, <1>5

LEMMA BringsAllTail ==
  ASSUME NEW q \in Seq(WireFrames), q # <<>>, NEW next \in Nat, NEW last \in Nat,
         BringsAll(q, next, last),
         NEW from \in {next, next + 1},
         Head(q).kind = "data" => from = next + 1 /\ Head(q).arg = next
  PROVE  BringsAll(Tail(q), from, last)
<1>1. /\ Len(q) \in Nat /\ Len(q) >= 1 /\ DOMAIN q = 1 .. Len(q) /\ Head(q) = q[1]
      /\ DOMAIN Tail(q) = 1 .. Len(q) - 1
      /\ \A k \in 1 .. Len(q) - 1 : Tail(q)[k] = q[k + 1]
  BY TailAt
<1>2. ASSUME NEW n \in from .. last PROVE \E k \in DOMAIN Tail(q) : Tail(q)[k] = Msg(n)
  <2>1. PICK k \in DOMAIN q : q[k] = Msg(n) BY DEF BringsAll
  <2>2. k # 1
    <3>1. SUFFICES ASSUME k = 1 PROVE FALSE OBVIOUS
    <3>2. Head(q).kind = "data" /\ Head(q).arg = n BY <1>1, <2>1, <3>1 DEF Msg
    <3> QED BY <3>2
  <2>3. k - 1 \in 1 .. Len(q) - 1 /\ (k - 1) + 1 = k BY <1>1, <2>2
  <2>4. k - 1 \in DOMAIN Tail(q) /\ Tail(q)[k - 1] = q[k] BY <1>1, <2>3
  <2> QED BY <2>1, <2>4
<1> QED BY <1>2 DEF BringsAll

\* A frame that is no message, a message in its turn, and frames that are lost.
LEMMA BringsAppend ==
  ASSUME NEW q \in Seq(WireFrames), NEW f \in WireFrames, NEW next \in Nat, NEW last \in Nat
  PROVE  /\ f.kind # "data" /\ Brings(q, next, last) => Brings(Append(q, f), next, last)
         /\ BringsAll(q, next, last) => BringsAll(Append(q, f), next, last)
<1> DEFINE p == Append(q, f)
<1>1. /\ Len(q) \in Nat /\ DOMAIN q = 1 .. Len(q) /\ DOMAIN p = 1 .. Len(q) + 1
      /\ \A k \in 1 .. Len(q) : p[k] = q[k]
      /\ p[Len(q) + 1] = f
  BY AppendAt
<1> HIDE DEF p
<1>2. ASSUME f.kind # "data", Brings(q, next, last), NEW k \in DOMAIN p, p[k].kind = "data"
      PROVE  /\ p[k].arg \in next .. last
             /\ \A j \in 1 .. k - 1 : p[j].kind = "data" => p[j].arg < p[k].arg
             /\ \A n \in next .. p[k].arg - 1 : \E j \in 1 .. k - 1 : p[j] = Msg(n)
  <2>1. k \in 1 .. Len(q) /\ p[k] = q[k] /\ \A j \in 1 .. k - 1 : p[j] = q[j] BY <1>1, <1>2
  <2>2. /\ q[k].arg \in next .. last
        /\ \A j \in 1 .. k - 1 : q[j].kind = "data" => q[j].arg < q[k].arg
        /\ \A n \in next .. q[k].arg - 1 : \E j \in 1 .. k - 1 : q[j] = Msg(n)
    BY <1>1, <1>2, <2>1 DEF Brings
  <2> QED BY <2>1, <2>2
<1>3. ASSUME BringsAll(q, next, last), NEW n \in next .. last
      PROVE  \E k \in DOMAIN p : p[k] = Msg(n)
  <2>1. PICK k \in DOMAIN q : q[k] = Msg(n) BY <1>3 DEF BringsAll
  <2> QED BY <1>1, <2>1
<1> QED BY <1>2, <1>3 DEF Brings, BringsAll, p

LEMMA BringsMore ==
  ASSUME NEW q \in Seq(WireFrames), NEW next \in Nat, NEW last \in Nat, last + 1 \in MsgIds,
         next =< last + 1, Brings(q, next, last), BringsAll(q, next, last)
  PROVE  LET p == Append(q, Msg(last + 1))
         IN  Brings(p, next, last + 1) /\ BringsAll(p, next, last + 1)
<1> DEFINE p == Append(q, Msg(last + 1))
<1>0. Msg(last + 1) \in WireFrames /\ Msg(last + 1).kind = "data" /\ Msg(last + 1).arg = last + 1
  BY DEF Msg, WireFrames
<1>1. /\ Len(q) \in Nat /\ DOMAIN q = 1 .. Len(q) /\ DOMAIN p = 1 .. Len(q) + 1
      /\ \A k \in 1 .. Len(q) : p[k] = q[k]
      /\ p[Len(q) + 1] = Msg(last + 1)
  BY <1>0, AppendAt
<1> HIDE DEF p
<1>2. ASSUME NEW k \in DOMAIN p, p[k].kind = "data"
      PROVE  /\ p[k].arg \in next .. last + 1
             /\ \A j \in 1 .. k - 1 : p[j].kind = "data" => p[j].arg < p[k].arg
             /\ \A n \in next .. p[k].arg - 1 : \E j \in 1 .. k - 1 : p[j] = Msg(n)
  <2>1. CASE k \in 1 .. Len(q)
    <3>1. p[k] = q[k] /\ \A j \in 1 .. k - 1 : p[j] = q[j] BY <1>1, <2>1
    <3>2. /\ q[k].arg \in next .. last
          /\ \A j \in 1 .. k - 1 : q[j].kind = "data" => q[j].arg < q[k].arg
          /\ \A n \in next .. q[k].arg - 1 : \E j \in 1 .. k - 1 : q[j] = Msg(n)
      BY <1>1, <1>2, <2>1, <3>1 DEF Brings
    <3>3. p[k].arg \in next .. last + 1 BY <3>1, <3>2
    <3>4. \A j \in 1 .. k - 1 : p[j].kind = "data" => p[j].arg < p[k].arg BY <3>1, <3>2
    <3>5. \A n \in next .. p[k].arg - 1 : \E j \in 1 .. k - 1 : p[j] = Msg(n)
      <4>1. ASSUME NEW n \in next .. q[k].arg - 1
            PROVE  \E j \in 1 .. k - 1 : p[j] = Msg(n)
        <5>1. PICK j \in 1 .. k - 1 : q[j] = Msg(n) BY <3>2
        <5> QED BY <3>1, <5>1
      <4> QED BY <3>1, <4>1
    <3> QED BY <3>3, <3>4, <3>5
  <2>2. CASE k = Len(q) + 1
    <3>1. p[k].arg = last + 1 BY <1>0, <1>1, <2>2
    <3>2. ASSUME NEW j \in 1 .. k - 1, p[j].kind = "data" PROVE p[j].arg < p[k].arg
      <4>1. j \in DOMAIN q /\ p[j] = q[j] BY <1>1, <2>2
      <4>2. q[j].arg \in next .. last BY <3>2, <4>1 DEF Brings
      <4> QED BY <3>1, <4>1, <4>2
    <3>3. ASSUME NEW n \in next .. p[k].arg - 1 PROVE \E j \in 1 .. k - 1 : p[j] = Msg(n)
      <4>1. n \in next .. last BY <3>1
      <4>2. PICK j \in DOMAIN q : q[j] = Msg(n) BY <4>1 DEF BringsAll
      <4>3. j \in 1 .. k - 1 /\ p[j] = q[j] BY <1>1, <2>2, <4>2
      <4> QED BY <4>2, <4>3
    <3> QED BY <3>1, <3>2, <3>3
  <2> QED BY <1>1, <2>1, <2>2
<1>3. ASSUME NEW n \in next .. last + 1 PROVE \E k \in DOMAIN p : p[k] = Msg(n)
  <2>1. CASE n = last + 1 BY <1>1, <2>1
  <2>2. CASE n \in next .. last
    <3>1. PICK k \in DOMAIN q : q[k] = Msg(n) BY <2>2 DEF BringsAll
    <3> QED BY <1>1, <3>1
  <2> QED BY <2>1, <2>2
<1> QED BY <1>2, <1>3 DEF Brings, BringsAll, p

LEMMA FrontAt ==
  ASSUME NEW S, NEW q \in Seq(S), NEW m \in 0 .. Len(q)
  PROVE  /\ SubSeq(q, 1, m) \in Seq(S) /\ DOMAIN SubSeq(q, 1, m) = 1 .. m
         /\ DOMAIN q = 1 .. Len(q) /\ Len(q) \in Nat /\ m =< Len(q) /\ m \in Nat
         /\ \A k \in 1 .. m : SubSeq(q, 1, m)[k] = q[k]
OBVIOUS

LEMMA BringsFront ==
  ASSUME NEW q \in Seq(WireFrames), NEW m \in 0 .. Len(q), NEW next \in Nat, NEW last \in Nat,
         Brings(q, next, last)
  PROVE  Brings(SubSeq(q, 1, m), next, last)
<1> DEFINE p == SubSeq(q, 1, m)
<1>1. /\ DOMAIN p = 1 .. m /\ m \in Nat /\ DOMAIN q = 1 .. Len(q) /\ Len(q) \in Nat
      /\ m =< Len(q) /\ \A k \in 1 .. m : p[k] = q[k]
  BY FrontAt
<1> HIDE DEF p
<1>2. ASSUME NEW k \in DOMAIN p, p[k].kind = "data"
      PROVE  /\ p[k].arg \in next .. last
             /\ \A j \in 1 .. k - 1 : p[j].kind = "data" => p[j].arg < p[k].arg
             /\ \A n \in next .. p[k].arg - 1 : \E j \in 1 .. k - 1 : p[j] = Msg(n)
  <2>1. k \in DOMAIN q /\ p[k] = q[k] /\ \A j \in 1 .. k - 1 : p[j] = q[j] BY <1>1
  <2>2. /\ q[k].arg \in next .. last
        /\ \A j \in 1 .. k - 1 : q[j].kind = "data" => q[j].arg < q[k].arg
        /\ \A n \in next .. q[k].arg - 1 : \E j \in 1 .. k - 1 : q[j] = Msg(n)
    BY <1>2, <2>1 DEF Brings
  <2> QED BY <2>1, <2>2
<1> QED BY <1>2 DEF Brings, p

\* Where a close frame may be.
LEMMA ClosesTail ==
  ASSUME NEW q \in Seq(WireFrames), q # <<>>, ClosesLast(q)
  PROVE  /\ ClosesLast(Tail(q)) /\ (NoClose(q) => NoClose(Tail(q)))
         /\ (NoData(q) => NoData(Tail(q)))
         /\ Head(q).kind = "close" => ~NoClose(q) /\ NoData(Tail(q))
<1>1. /\ Len(q) \in Nat /\ Len(q) >= 1 /\ DOMAIN q = 1 .. Len(q) /\ Head(q) = q[1]
      /\ DOMAIN Tail(q) = 1 .. Len(q) - 1
      /\ \A k \in 1 .. Len(q) - 1 : Tail(q)[k] = q[k + 1]
  BY TailAt
<1>2. \A k \in DOMAIN Tail(q) : k + 1 \in DOMAIN q /\ Tail(q)[k] = q[k + 1] /\ k + 1 > 1 /\ k \in Nat
  BY <1>1
<1>3. ClosesLast(Tail(q)) BY <1>2 DEF ClosesLast
<1>4. (NoClose(q) => NoClose(Tail(q))) /\ (NoData(q) => NoData(Tail(q)))
  BY <1>2 DEF NoClose, NoData
<1>5. ASSUME Head(q).kind = "close" PROVE ~NoClose(q) /\ NoData(Tail(q))
  <2>1. 1 \in DOMAIN q /\ q[1].kind = "close" BY <1>1, <1>5
  <2>2. NoData(Tail(q)) BY <1>2, <2>1 DEF ClosesLast, NoData
  <2> QED BY <2>1, <2>2 DEF NoClose
<1> QED BY <1>3, <1>4, <1>5

LEMMA ClosesAppend ==
  ASSUME NEW q \in Seq(WireFrames), NEW f \in WireFrames, ClosesLast(q)
  PROVE  /\ (f.kind # "data" \/ NoClose(q)) => ClosesLast(Append(q, f))
         /\ f.kind # "close" /\ NoClose(q) => NoClose(Append(q, f))
         /\ f.kind # "data" /\ NoData(q) => NoData(Append(q, f))
<1> DEFINE p == Append(q, f)
<1>1. /\ Len(q) \in Nat /\ DOMAIN q = 1 .. Len(q) /\ DOMAIN p = 1 .. Len(q) + 1
      /\ \A k \in 1 .. Len(q) : p[k] = q[k]
      /\ p[Len(q) + 1] = f
  BY AppendAt
<1> HIDE DEF p
<1>2. ASSUME f.kind # "data" \/ NoClose(q), NEW j \in DOMAIN p, NEW k \in DOMAIN p,
             p[k].kind = "close", k < j
      PROVE  p[j].kind # "data"
  <2>1. k \in DOMAIN q /\ q[k].kind = "close" /\ ~NoClose(q) BY <1>1, <1>2 DEF NoClose
  <2>2. CASE j \in DOMAIN q BY <1>1, <1>2, <2>1, <2>2 DEF ClosesLast
  <2>3. CASE j = Len(q) + 1 BY <1>1, <1>2, <2>1, <2>3
  <2> QED BY <1>1, <2>2, <2>3
<1>3. f.kind # "close" /\ NoClose(q) => NoClose(p) BY <1>1 DEF NoClose
<1>4. f.kind # "data" /\ NoData(q) => NoData(p) BY <1>1 DEF NoData
<1> QED BY <1>2, <1>3, <1>4 DEF ClosesLast, p

LEMMA ClosesFront ==
  ASSUME NEW q \in Seq(WireFrames), NEW m \in 0 .. Len(q), ClosesLast(q)
  PROVE  /\ ClosesLast(SubSeq(q, 1, m)) /\ (NoClose(q) => NoClose(SubSeq(q, 1, m)))
         /\ (NoData(q) => NoData(SubSeq(q, 1, m)))
<1>1. \A k \in DOMAIN SubSeq(q, 1, m) : k \in DOMAIN q /\ SubSeq(q, 1, m)[k] = q[k]
  BY FrontAt
<1> QED BY <1>1 DEF ClosesLast, NoClose, NoData
-----------------------------------------------------------------------------
(***************************************************************************)
(* The inbox.                                                              *)
(***************************************************************************)

\* Taking a message moves the head of the queue, and its bytes.
LEMMA TakesOne ==
  ASSUME Typed, InboxKept, TakeHead
  PROVE  /\ Len(inq) >= 1 /\ Accepted' = Accepted /\ Accepted \in Nat
         /\ \A k \in DOMAIN delivered' : delivered'[k] = k
         /\ \A k \in DOMAIN inq' : inq'[k] = Len(delivered') + k
         /\ budgetUsed' = Offset[Accepted] - Offset[Len(delivered')]
<1> DEFINE D == Len(delivered)
<1>1. /\ inq \in Seq(MsgIds) /\ delivered \in Seq(MsgIds) /\ inq # <<>> /\ peerSent \in 0 .. MaxMsgs
      /\ inq' = Tail(inq) /\ delivered' = Append(delivered, Head(inq)) /\ Releases(Head(inq))
  BY DEF Typed, InboxTyped, PeerTyped, TakeHead
<1>2. /\ Head(inq) \in MsgIds /\ Head(inq) = inq[1] /\ Len(inq) >= 1 /\ DOMAIN inq = 1 .. Len(inq)
      /\ Len(inq') = Len(inq) - 1 /\ DOMAIN inq' = 1 .. Len(inq) - 1 /\ Len(inq) \in Nat
      /\ \A k \in 1 .. Len(inq) - 1 : inq'[k] = inq[k + 1]
  BY <1>1, TailAt
<1>3. /\ D \in Nat /\ DOMAIN delivered = 1 .. D /\ DOMAIN delivered' = 1 .. D + 1
      /\ Len(delivered') = D + 1 /\ \A k \in 1 .. D : delivered'[k] = delivered[k]
      /\ delivered'[D + 1] = Head(inq)
  BY <1>1, <1>2, AppendAt
<1>4. Head(inq) = D + 1 BY <1>2 DEF InboxKept
<1> HIDE DEF D
<1>5. \A k \in DOMAIN delivered' : delivered'[k] = k BY <1>3, <1>4 DEF InboxKept
<1>6. ASSUME NEW k \in DOMAIN inq' PROVE inq'[k] = Len(delivered') + k
  <2>1. k + 1 \in DOMAIN inq /\ inq'[k] = inq[k + 1] /\ k \in Nat BY <1>2
  <2>2. inq[k + 1] = D + (k + 1) BY <2>1 DEF InboxKept, D
  <2> QED BY <1>3, <2>1, <2>2
<1>7. Accepted' = Accepted /\ Accepted \in Nat /\ Accepted = D + Len(inq)
  BY <1>2, <1>3 DEF Accepted, D
<1>8. D \in 0 .. MaxMsgs /\ D + 1 \in MsgIds /\ Accepted \in 0 .. MaxMsgs /\ D + 1 =< Accepted
      /\ D + 1 \in 0 .. MaxMsgs
  <2>1. Accepted =< MaxMsgs /\ MaxMsgs \in Nat BY <1>1, Sizes, <1>7 DEF InboxKept
  <2> QED BY <1>2, <1>3, <1>7, <2>1 DEF MsgIds
<1>9. /\ Offset[D] \in Nat /\ Offset[D + 1] \in Nat /\ Offset[Accepted] \in Nat
      /\ Offset[D + 1] =< Offset[Accepted]
  BY <1>8, Sizes
<1>10. Size(D + 1) = Offset[D + 1] - Offset[D]
  <2>1. (D + 1) - 1 = D BY <1>3
  <2> QED BY <2>1 DEF Size
<1>11. budgetUsed = Offset[Accepted] - Offset[D] BY DEF InboxKept, D
<1>12. budgetUsed' = IF Size(D + 1) =< budgetUsed THEN budgetUsed - Size(D + 1) ELSE 0
  BY <1>1, <1>4 DEF Releases
<1>13. budgetUsed' = Offset[Accepted] - Offset[D + 1] BY <1>9, <1>10, <1>11, <1>12
<1> QED BY <1>2, <1>3, <1>5, <1>6, <1>7, <1>13

\* The reader is in its loop: it still holds in_tx.
LEMMA ReadsOpen ==
  ASSUME Typed, LockKept, NEW kind, Reads(kind)
  PROVE  inOpen /\ inOpen' = inOpen /\ Head(inbound) \in WireFrames /\ Head(inbound).kind = kind
         /\ inbound # <<>> /\ inbound' = Tail(inbound) /\ wire' = wire
         /\ UNCHANGED <<peerSent, peerClosed, wireDead, localClosed, delivered>>
BY TailAt, TaskNames DEF Reads, ReadsOn, LockKept, Typed, PeerTyped, peerVars

\* While nothing closes, the message read is the next one.
LEMMA ReadsNext ==
  ASSUME Typed, LockKept, InboxKept, ComingKept, Reads("data"), ~wireClosing
  PROVE  /\ Head(inbound).arg = Accepted + 1 /\ Accepted + 1 =< peerSent
         /\ Accepted + 1 \in MsgIds /\ Accepted \in Nat /\ Accepted \in 0 .. MaxMsgs
<1>1. Head(Coming) = Head(inbound) /\ Coming # <<>> /\ Coming \in Seq(WireFrames)
  BY ReadsOpen, ComingTail, ComingSeq DEF Typed
<1>2. Accepted \in Nat /\ peerSent \in Nat /\ peerSent =< MaxMsgs /\ MaxMsgs \in Nat
  <2>1. Len(delivered) \in Nat /\ Len(inq) \in Nat BY DEF Typed, InboxTyped
  <2> QED BY <2>1, Sizes DEF Accepted, Typed, PeerTyped
<1>3. Brings(Coming, Accepted + 1, peerSent) BY ReadsOpen DEF ComingKept
<1>4. Head(Coming) = Msg(Accepted + 1) /\ Accepted + 1 =< peerSent
  <2>1. Head(Coming).kind = "data" /\ Accepted + 1 \in Nat BY <1>1, <1>2, ReadsOpen
  <2> QED BY <1>1, <1>2, <1>3, <2>1, BringsTail
<1> QED BY <1>1, <1>2, <1>4 DEF Msg, MsgIds

\* Who touches the inbox.
LEMMA InboxSteps ==
  ASSUME Typed, [Next]_vars
  PROVE  \/ UNCHANGED <<inq, delivered, budgetUsed, peerSent>>
         \/ TakeHead /\ UNCHANGED peerSent
         \/ ReaderData
         \/ PeerData /\ UNCHANGED <<inq, delivered, budgetUsed>>
<1> USE DEF shared, queue, budget, calls, stream, writes, flags, peerVars, seen
<1> DEFINE Same == UNCHANGED <<inq, delivered, budgetUsed, peerSent>>
           Takes == TakeHead /\ UNCHANGED peerSent
<1>1. CASE GuestCalls
  <2>1. ASSUME NEW s \in Sends, Send(s) PROVE Same BY <2>1 DEF Send
  <2>2. ASSUME NEW req \in CloseRequests, Close(req) PROVE Same BY <2>2 DEF Close
  <2>3. ASSUME NEW r \in Receives, Receive(r) PROVE Same BY <2>3 DEF Receive
  <2>4. CASE Drop \/ ReceiveViaStream \/ StreamDropped \/ WaitClosed
    BY <2>4 DEF Drop, ReceiveViaStream, StreamDropped, WaitClosed
  <2>5. CASE ElementRead \/ PayloadRead \/ ReaderGone
    BY <2>5 DEF ElementRead, PayloadRead, ReaderGone, FeederOnly
  <2> QED BY <1>1, <2>1, <2>2, <2>3, <2>4, <2>5 DEF GuestCalls
<1>2. CASE FeederStep
  BY <1>2 DEF FeederStep, FeederLocks, FeederTakes, FeederEnds, ReaderGone, FeederOnly
<1>3. ASSUME NEW r \in Receives, ReceivePoll(r) PROVE Same \/ Takes
  <2>1. CASE ReceiveTakes(r) BY <2>1 DEF ReceiveTakes
  <2>2. CASE ReceiveLocks(r) \/ ReceiveSignalled(r) \/ ReceiveEnds(r)
    BY <2>2 DEF ReceiveLocks, ReceiveSignalled, ReceiveEnds
  <2> QED BY <1>3, <2>1, <2>2 DEF ReceivePoll
<1>4. CASE CmdStep
  BY <1>4 DEF CmdStep, CmdSend, CmdClose, CmdClaim, FlushStep, Locks,
     WriteSeesLocalClose, WriteTimesOut, WriteOnly
<1>5. CASE ReaderPing \/ ReaderPeerClose \/ ReaderCapacity
  BY <1>5 DEF ReaderPing, ReaderPeerClose, ReaderCapacity, Reads
<1>6. CASE ReaderReads \/ ReaderEnds \/ ReaderWritesReply
  BY <1>6 DEF ReaderReads, ReaderEnds, ReaderWritesReply
<1>7. ASSUME NEW t \in Tasks, FlushStep(t) \/ TransportStep(t) PROVE Same
  BY <1>7 DEF FlushStep, TransportStep, Locks, WriteSeesLocalClose, WriteTimesOut,
     WriteTakes, WriteFails, WriteOnly
<1>8. CASE PeerStep
  BY <1>8 DEF PeerStep, PeerData, PeerPing, PeerBreaks, PeerClose, TransportEnds, PeerOnly
<1>9. CASE DeadlineExpires BY <1>9 DEF DeadlineExpires
<1>10. CASE UNCHANGED vars BY <1>10 DEF vars
<1> QED
  BY <1>1, <1>2, <1>3, <1>4, <1>5, <1>6, <1>7, <1>8, <1>9, <1>10
     DEF Next, ReaderStep, Tasks

\* What the reader accepts is the next message, and counted.
LEMMA AcceptsOne ==
  ASSUME Typed, LockKept, InboxKept, ComingKept, ReaderData
  PROVE  /\ delivered' = delivered /\ peerSent' = peerSent
         /\ \/ UNCHANGED <<inq, budgetUsed>>
            \/ /\ ~wireClosing /\ UNCHANGED wireClosing
               /\ inq' = Append(inq, Accepted + 1)
               /\ budgetUsed' = Offset[Accepted + 1] - Offset[Len(delivered)]
               /\ Accepted' = Accepted + 1
<1>1. Reads("data") /\ UNCHANGED <<delivered, peerSent>> BY ReadsOpen DEF ReaderData
<1>2. CASE UNCHANGED <<inq, budgetUsed>> BY <1>1, <1>2
<1>3. CASE /\ ~Discards /\ inq' = Append(inq, Head(inbound).arg)
           /\ budgetUsed' = budgetUsed + Size(Head(inbound).arg)
           /\ UNCHANGED wireClosing
  <2>1. /\ Head(inbound).arg = Accepted + 1 /\ Accepted + 1 \in MsgIds /\ Accepted \in Nat
        /\ Accepted \in 0 .. MaxMsgs /\ ~wireClosing
    BY <1>1, <1>3, ReadsNext DEF Discards
  <2>2. inq' = Append(inq, Accepted + 1) /\ budgetUsed' = budgetUsed + Size(Accepted + 1)
    BY <1>3, <2>1
  <2>3. Len(inq') = Len(inq) + 1 /\ Len(inq) \in Nat /\ Len(delivered) \in Nat
    BY <2>1, <2>2, AppendAt DEF Typed, InboxTyped
  <2>4. Accepted' = Accepted + 1 BY <1>1, <2>3 DEF Accepted
  <2>5. Offset[Accepted] \in Nat /\ Offset[Accepted + 1] \in Nat BY <2>1, Sizes
  <2>6. Size(Accepted + 1) = Offset[Accepted + 1] - Offset[Accepted]
    <3>1. (Accepted + 1) - 1 = Accepted BY <2>1
    <3> QED BY <3>1 DEF Size
  <2>7. Offset[Len(delivered)] \in Nat
    <3>0. Accepted = Len(delivered) + Len(inq) /\ MaxMsgs \in Nat BY Sizes DEF Accepted
    <3>1. Len(delivered) \in 0 .. MaxMsgs BY <2>1, <2>3, <3>0
    <3> QED BY <3>1, Sizes
  <2>8. budgetUsed' = Offset[Accepted + 1] - Offset[Len(delivered)]
    BY <2>2, <2>5, <2>6, <2>7 DEF InboxKept
  <2> QED BY <1>1, <1>3, <2>1, <2>2, <2>4, <2>8
<1> QED BY <1>2, <1>3 DEF ReaderData, budget

LEMMA InboxNext ==
  Typed /\ LockKept /\ InboxKept /\ ComingKept /\ [Next]_vars => InboxKept'
<1> SUFFICES ASSUME Typed, LockKept, InboxKept, ComingKept, [Next]_vars PROVE InboxKept'
  OBVIOUS
<1>0. Len(delivered) \in Nat /\ Len(inq) \in Nat /\ Accepted \in Nat /\ peerSent \in Nat
      /\ inq \in Seq(MsgIds)
  BY Sizes DEF Accepted, Typed, InboxTyped, PeerTyped
<1>1. CASE UNCHANGED <<inq, delivered, budgetUsed, peerSent>> BY <1>1 DEF InboxKept, Accepted
<1>2. CASE TakeHead /\ UNCHANGED peerSent BY <1>2, TakesOne DEF InboxKept
<1>3. CASE ReaderData
  <2>1. CASE UNCHANGED <<inq, budgetUsed>> BY <1>3, <2>1, AcceptsOne DEF InboxKept, Accepted
  <2>2. CASE ~wireClosing /\ inq' = Append(inq, Accepted + 1)
             /\ budgetUsed' = Offset[Accepted + 1] - Offset[Len(delivered)]
             /\ Accepted' = Accepted + 1
    <3>1. Accepted + 1 =< peerSent /\ Accepted + 1 \in MsgIds
      BY <1>3, <2>2, ReadsNext DEF ReaderData
    <3>2. /\ DOMAIN inq = 1 .. Len(inq) /\ DOMAIN inq' = 1 .. Len(inq) + 1
          /\ \A k \in 1 .. Len(inq) : inq'[k] = inq[k]
          /\ inq'[Len(inq) + 1] = Accepted + 1
      BY <1>0, <2>2, <3>1, AppendAt
    <3>3. delivered' = delivered /\ peerSent' = peerSent BY <1>3, AcceptsOne
    <3>4. ASSUME NEW k \in DOMAIN inq' PROVE inq'[k] = Len(delivered') + k
      <4>1. CASE k \in 1 .. Len(inq) BY <3>2, <3>3, <4>1 DEF InboxKept
      <4>2. CASE k = Len(inq) + 1 BY <1>0, <3>2, <3>3, <4>2 DEF Accepted
      <4> QED BY <1>0, <3>2, <4>1, <4>2
    <3> QED BY <2>2, <3>1, <3>3, <3>4 DEF InboxKept
  <2> QED BY <1>3, <2>1, <2>2, AcceptsOne
<1>4. CASE PeerData /\ UNCHANGED <<inq, delivered, budgetUsed>>
  <2>1. peerSent' = peerSent + 1 BY <1>4 DEF PeerData
  <2> QED BY <1>0, <1>4, <2>1 DEF InboxKept, Accepted
<1> QED BY <1>1, <1>2, <1>3, <1>4, InboxSteps
-----------------------------------------------------------------------------
(***************************************************************************)
(* Why it closes, and where the outcome is.                                *)
(***************************************************************************)

\* The commands before and after one is put or taken.
CloseWanted(q, closing) == \A k \in DOMAIN q : q[k].kind = "close" => closing

LEMMA WantedAppend ==
  ASSUME NEW q \in Seq(Frames), NEW f \in Frames, NEW b \in BOOLEAN, NEW c \in BOOLEAN,
         CloseWanted(q, b), b => c, f.kind = "close" => c
  PROVE  CloseWanted(Append(q, f), c)
<1> DEFINE p == Append(q, f)
<1>1. /\ Len(q) \in Nat /\ DOMAIN q = 1 .. Len(q) /\ DOMAIN p = 1 .. Len(q) + 1
      /\ \A k \in 1 .. Len(q) : p[k] = q[k]
      /\ p[Len(q) + 1] = f
  BY AppendAt
<1> HIDE DEF p
<1>2. ASSUME NEW k \in DOMAIN p, p[k].kind = "close" PROVE c
  <2>1. CASE k \in 1 .. Len(q) BY <1>1, <1>2, <2>1 DEF CloseWanted
  <2>2. CASE k = Len(q) + 1 BY <1>1, <1>2, <2>2
  <2> QED BY <1>1, <2>1, <2>2
<1> QED BY <1>2 DEF CloseWanted, p

LEMMA WantedTail ==
  ASSUME NEW q \in Seq(Frames), q # <<>>, NEW b \in BOOLEAN, CloseWanted(q, b)
  PROVE  CloseWanted(Tail(q), b) /\ (Head(q).kind = "close" => b)
<1>1. /\ Len(q) \in Nat /\ Len(q) >= 1 /\ DOMAIN q = 1 .. Len(q) /\ Head(q) = q[1]
      /\ DOMAIN Tail(q) = 1 .. Len(q) - 1
      /\ \A k \in 1 .. Len(q) - 1 : Tail(q)[k] = q[k + 1]
  BY TailAt
<1>2. \A k \in DOMAIN Tail(q) : k + 1 \in DOMAIN q /\ Tail(q)[k] = q[k + 1] BY <1>1
<1>3. 1 \in DOMAIN q BY <1>1
<1> QED BY <1>1, <1>2, <1>3 DEF CloseWanted

\* Beginning to close leaves no way back.
LEMMA BeginsCloseFlags ==
  ASSUME NEW t, NEW then, NEW code, BeginsClose(t, then, code)
  PROVE  wireClosing' = TRUE \/ (wireClosing /\ wireClosing' = wireClosing)
BY DEF BeginsClose

LEMMA InfoSet == ASSUME NEW code \in CloseCode PROVE CloseInfoFrom(code) # Unset
<1>1. code >= -1 /\ code \in Int
  <2>1. MaxCode \in Nat BY DEF MaxCode
  <2>2. NoCode = -1 BY DEF NoCode
  <2>3. CloseCode = NoCode .. MaxCode BY DEF CloseCode
  <2> HIDE DEF CloseCode, NoCode, MaxCode
  <2> QED BY <2>1, <2>2, <2>3
<1>2. CASE code = NoCode BY <1>2 DEF CloseInfoFrom, NoStatusReceived, Unset
<1>3. CASE code # NoCode BY <1>1, <1>3 DEF CloseInfoFrom, Unset
<1> QED BY <1>2, <1>3

\* What is thrown away was sent across a close or an overflow.
LEMMA ReadsStale ==
  ASSUME Typed, LockKept, ComingKept, Reads("data"), wireClosing
  PROVE  localClosed \/ overflowed
<1>1. Head(Coming) = Head(inbound) /\ Coming # <<>> /\ Coming \in Seq(WireFrames)
  BY ReadsOpen, ComingTail, ComingSeq DEF Typed
<1>2. Head(Coming).kind = "data" /\ inOpen BY <1>1, ReadsOpen
<1>3. 1 \in DOMAIN Coming /\ Coming[1].kind = "data" BY <1>1, <1>2, TailAt
<1> QED BY <1>2, <1>3 DEF ComingKept, NoData

LEMMA CauseNext ==
  Typed /\ LockKept /\ ComingKept /\ CauseKept /\ [Next]_vars => CauseKept'
<1> SUFFICES ASSUME Typed, LockKept, ComingKept, CauseKept, [Next]_vars PROVE CauseKept'
  OBVIOUS
<1> USE DEF shared, queue, budget, calls, stream, writes, flags, peerVars, seen
<1>0. /\ cmdq \in Seq(Frames) /\ localClosed \in BOOLEAN /\ CloseWanted(cmdq, localClosed)
      /\ wireClosing \in BOOLEAN /\ overflowed \in BOOLEAN /\ discarded \in BOOLEAN
  BY DEF Typed, FlagsTyped, OutTyped, CauseKept, CloseWanted
<1>1. ASSUME UNCHANGED <<discarded, overflowed, wireClosing, peerFrame, inOpen, closeInfo>>,
             localClosed => localClosed', CloseWanted(cmdq', localClosed')
      PROVE  CauseKept'
  BY <1>1 DEF CauseKept, CloseWanted
<1>2. ASSUME UNCHANGED <<cmdq, localClosed, discarded, overflowed, wireClosing, peerFrame, inOpen,
                         closeInfo>>
      PROVE  CauseKept'
  BY <1>0, <1>1, <1>2
<1>3. ASSUME NEW code \in ClientCodes, Closes(code),
             UNCHANGED <<discarded, overflowed, wireClosing, peerFrame, inOpen, closeInfo>>
      PROVE  CauseKept'
  <2>1. localClosed' = TRUE /\ cmdq' = Append(cmdq, CloseFrame(code)) /\ CloseFrame(code) \in Frames
    BY <1>3, FrameKinds DEF Closes
  <2>2. CloseWanted(cmdq', TRUE) BY <1>0, <2>1, WantedAppend
  <2> QED BY <1>1, <1>3, <2>1, <2>2
<1>4. CASE GuestCalls
  <2>1. ASSUME NEW s \in Sends, Send(s) PROVE CauseKept'
    <3>1. CASE localClosed BY <1>2, <2>1, <3>1 DEF Send
    <3>2. CASE ~localClosed
      <4>1. cmdq' = Append(cmdq, DataFrame(s)) /\ DataFrame(s) \in Frames
            /\ DataFrame(s).kind # "close" /\ localClosed' = localClosed
        BY <2>1, <3>2, FrameKinds DEF Send
      <4>2. CloseWanted(cmdq', localClosed) BY <1>0, <4>1, WantedAppend
      <4> QED BY <1>1, <2>1, <4>1, <4>2 DEF Send
    <3> QED BY <3>1, <3>2
  <2>2. ASSUME NEW req \in CloseRequests, Close(req) PROVE CauseKept'
    BY <1>3, <2>2, ClosableCodes DEF Close
  <2>3. ASSUME NEW r \in Receives, Receive(r) PROVE CauseKept' BY <1>2, <2>3 DEF Receive
  <2>4. CASE Drop
    <3>1. CASE localClosed BY <1>2, <2>4, <3>1 DEF Drop
    <3>2. CASE ~localClosed BY <1>3, <2>4, <3>2, FrameKinds DEF Drop
    <3> QED BY <3>1, <3>2
  <2>5. CASE ReceiveViaStream
    <3>1. cmdq' = Append(cmdq, ClaimStream) /\ ClaimStream \in Frames
          /\ ClaimStream.kind # "close" /\ localClosed' = localClosed
      BY <2>5, FrameKinds DEF ReceiveViaStream
    <3>2. CloseWanted(cmdq', localClosed) BY <1>0, <3>1, WantedAppend
    <3> QED BY <1>1, <2>5, <3>1, <3>2 DEF ReceiveViaStream
  <2>6. CASE StreamDropped \/ WaitClosed BY <1>2, <2>6 DEF StreamDropped, WaitClosed
  <2>7. CASE ElementRead \/ PayloadRead \/ ReaderGone
    BY <1>2, <2>7 DEF ElementRead, PayloadRead, ReaderGone, FeederOnly
  <2> QED BY <1>4, <2>1, <2>2, <2>3, <2>4, <2>5, <2>6, <2>7 DEF GuestCalls
<1>5. CASE FeederStep
  BY <1>2, <1>5 DEF FeederStep, FeederLocks, FeederTakes, FeederEnds, ReaderGone, FeederOnly
<1>6. ASSUME NEW r \in Receives, ReceivePoll(r) PROVE CauseKept'
  BY <1>2, <1>6 DEF ReceivePoll, ReceiveLocks, ReceiveSignalled, ReceiveTakes, ReceiveEnds
<1>7. ASSUME NEW kind, CmdReady(kind)
      PROVE  CloseWanted(cmdq', localClosed) /\ (kind = "close" => localClosed)
  BY <1>0, <1>7, WantedTail DEF CmdReady
<1>8. CASE CmdSend \/ CmdClaim
  <2>1. /\ UNCHANGED <<localClosed, discarded, overflowed, wireClosing, peerFrame, inOpen, closeInfo>>
        /\ \E kind : CmdReady(kind)
    BY <1>8 DEF CmdSend, CmdClaim
  <2> QED BY <1>1, <1>7, <2>1
<1>9. CASE CmdClose
  <2>1. /\ UNCHANGED <<localClosed, discarded, overflowed, peerFrame, inOpen, closeInfo>>
        /\ CmdReady("close")
    BY <1>9 DEF CmdClose
  <2>2. localClosed /\ CloseWanted(cmdq', localClosed') BY <1>7, <2>1
  <2>3. overflowed' => wireClosing'
    <3>1. CASE closed BY <1>9, <2>1, <3>1 DEF CmdClose, CauseKept
    <3>2. CASE ~closed
      <4>1. BeginsClose("cmd", "loop", Head(cmdq).code) BY <1>9, <3>2 DEF CmdClose
      <4> QED BY <1>0, <2>1, <4>1, BeginsCloseFlags DEF CauseKept
    <3> QED BY <3>1, <3>2
  <2> QED BY <2>1, <2>2, <2>3 DEF CauseKept, CloseWanted
<1>10. ASSUME NEW t \in Tasks, FlushStep(t) \/ TransportStep(t) PROVE CauseKept'
  BY <1>2, <1>10 DEF FlushStep, TransportStep, Locks, WriteSeesLocalClose, WriteTimesOut,
     WriteTakes, WriteFails, WriteOnly
<1>11. CASE ReaderData
  <2>1. UNCHANGED <<cmdq, localClosed, peerFrame, inOpen, closeInfo>>
    BY <1>11 DEF ReaderData, Reads
  <2>2. CASE UNCHANGED <<discarded, overflowed, wireClosing>> BY <1>2, <2>1, <2>2
  <2>3. CASE Overflows
    <3>1. overflowed' = TRUE /\ wireClosing' = TRUE
      BY <1>0, <2>3, BeginsCloseFlags DEF Overflows
    <3> QED BY <2>1, <3>1 DEF CauseKept
  <2>4. CASE Discards /\ UNCHANGED <<overflowed, wireClosing>>
    <3>1. CASE localClosed \/ overflowed BY <2>1, <2>4, <3>1 DEF CauseKept
    <3>2. localClosed \/ overflowed BY <1>11, <2>4, ReadsStale DEF ReaderData, Discards
    <3> QED BY <3>1, <3>2
  <2> QED BY <1>11, <2>2, <2>3, <2>4 DEF ReaderData, budget
<1>12. CASE ReaderPing BY <1>2, <1>12 DEF ReaderPing, Reads
<1>13. CASE ReaderPeerClose
  <2>1. /\ UNCHANGED <<cmdq, localClosed, discarded, overflowed, inOpen, closeInfo>>
        /\ wireClosing' = TRUE /\ Reads("close")
        /\ peerFrame' = IF peerFrame = NoFrame THEN CloseInfoFrom(Head(inbound).arg) ELSE peerFrame
    BY <1>13 DEF ReaderPeerClose, Reads
  <2>2. inOpen /\ Head(inbound).arg \in CloseCode
    BY <2>1, ReadsOpen, WireKinds, ProviderCodesAssumption
  <2>3. CloseInfoFrom(Head(inbound).arg) # Unset
    BY <2>2, InfoSet
  <2>4. peerFrame' # Unset BY <2>1, <2>3 DEF CauseKept
  <2> QED BY <2>1, <2>2, <2>4 DEF CauseKept
<1>14. CASE ReaderCapacity
  <2>1. /\ UNCHANGED <<cmdq, localClosed, peerFrame, inOpen, closeInfo>> /\ overflowed' = TRUE
        /\ BeginsClose("reader", "end", NoCode)
    BY <1>14 DEF ReaderCapacity, Reads
  <2>2. wireClosing' = TRUE BY <1>0, <2>1, BeginsCloseFlags
  <2> QED BY <2>1, <2>2 DEF CauseKept
<1>15. CASE ReaderReads \/ ReaderWritesReply
  BY <1>2, <1>15 DEF ReaderReads, ReaderWritesReply
<1>16. CASE ReaderEnds
  <2>1. /\ UNCHANGED <<cmdq, localClosed, peerFrame, discarded, overflowed, wireClosing>>
        /\ inOpen' = FALSE /\ closeInfo' = peerFrame
    BY <1>16 DEF ReaderEnds, Finalizes
  <2> QED BY <2>1 DEF CauseKept
<1>17. CASE PeerStep
  BY <1>2, <1>17 DEF PeerStep, PeerData, PeerPing, PeerBreaks, PeerClose, TransportEnds, PeerOnly
<1>18. CASE DeadlineExpires BY <1>2, <1>18 DEF DeadlineExpires
<1>19. CASE UNCHANGED vars BY <1>2, <1>19 DEF vars
<1> QED
  BY <1>4, <1>5, <1>6, <1>8, <1>9, <1>10, <1>11, <1>12, <1>13, <1>14, <1>15, <1>16, <1>17,
     <1>18, <1>19 DEF Next, CmdStep, ReaderStep, Tasks
-----------------------------------------------------------------------------
(***************************************************************************)
(* The frames to come.                                                     *)
(***************************************************************************)
LEMMA ComingStill ==
  ASSUME ComingKept, Coming' = Coming, Accepted' = Accepted,
         UNCHANGED <<inOpen, peerSent, peerClosed, wireDead>>,
         localClosed => localClosed', overflowed => overflowed', wireClosing => wireClosing',
         wireClosing' => wireClosing \/ localClosed' \/ overflowed'
  PROVE  ComingKept'
BY DEF ComingKept

\* Reading: what is left, and which message is next.
LEMMA ComingRead ==
  ASSUME Typed, LockKept, InboxKept, ComingKept, NEW kind, Reads(kind)
  PROVE  /\ ClosesLast(Coming') /\ (~peerClosed' => NoClose(Coming'))
         /\ ~wireClosing => LET next == IF kind = "data" THEN Accepted + 2 ELSE Accepted + 1
                            IN  /\ Brings(Coming', next, peerSent')
                                /\ ~wireDead' => BringsAll(Coming', next, peerSent')
         /\ wireClosing /\ ~localClosed' /\ ~overflowed => peerClosed' /\ NoData(Coming')
         /\ kind = "close" => peerClosed' /\ NoData(Coming')
<1>1. /\ Head(Coming) = Head(inbound) /\ Coming # <<>> /\ Coming \in Seq(WireFrames)
      /\ Coming' = Tail(Coming)
  BY ReadsOpen, ComingTail, ComingSeq DEF Typed
<1>2. /\ inOpen /\ UNCHANGED <<peerSent, peerClosed, wireDead, localClosed>>
      /\ Head(Coming).kind = kind
  BY <1>1, ReadsOpen
<1>3. ClosesLast(Coming) /\ (~peerClosed => NoClose(Coming)) BY <1>2 DEF ComingKept
<1>4. /\ ClosesLast(Coming') /\ (NoClose(Coming) => NoClose(Coming'))
      /\ (NoData(Coming) => NoData(Coming'))
      /\ kind = "close" => ~NoClose(Coming) /\ NoData(Coming')
  BY <1>1, <1>2, <1>3, ClosesTail
<1>5. ASSUME ~wireClosing
      PROVE  LET next == IF kind = "data" THEN Accepted + 2 ELSE Accepted + 1
             IN  /\ Brings(Coming', next, peerSent')
                 /\ ~wireDead' => BringsAll(Coming', next, peerSent')
  <2>1. Accepted + 1 \in Nat /\ peerSent \in Nat /\ Accepted \in Nat
        /\ (Accepted + 1) + 1 = Accepted + 2
    BY DEF Accepted, Typed, InboxTyped, PeerTyped
  <2>2. /\ Brings(Coming, Accepted + 1, peerSent)
        /\ ~wireDead => BringsAll(Coming, Accepted + 1, peerSent)
    BY <1>2, <1>5 DEF ComingKept
  <2>3. CASE kind = "data"
    <3>1. Head(Coming) = Msg(Accepted + 1) /\ Brings(Tail(Coming), Accepted + 2, peerSent)
      BY <1>1, <1>2, <2>1, <2>2, <2>3, BringsTail
    <3>2. Head(Coming).arg = Accepted + 1 BY <3>1 DEF Msg
    <3>3. ~wireDead => BringsAll(Tail(Coming), Accepted + 2, peerSent)
      BY <1>1, <2>1, <2>2, <3>2, BringsAllTail
    <3> QED BY <1>1, <1>2, <2>3, <3>1, <3>3
  <2>4. CASE kind # "data"
    <3>1. Brings(Tail(Coming), Accepted + 1, peerSent)
      BY <1>1, <1>2, <2>1, <2>2, <2>4, BringsTail
    <3>2. ~wireDead => BringsAll(Tail(Coming), Accepted + 1, peerSent)
      BY <1>1, <1>2, <2>1, <2>2, <2>4, BringsAllTail
    <3> QED BY <1>1, <1>2, <2>4, <3>1, <3>2
  <2> QED BY <2>3, <2>4
<1>6. wireClosing /\ ~localClosed' /\ ~overflowed => peerClosed' /\ NoData(Coming')
  BY <1>2, <1>4 DEF ComingKept
<1> QED BY <1>2, <1>3, <1>4, <1>5, <1>6

LEMMA ComingNext ==
  Typed /\ LockKept /\ InboxKept /\ ComingKept /\ CauseKept /\ [Next]_vars => ComingKept'
<1> SUFFICES ASSUME Typed, LockKept, InboxKept, ComingKept, CauseKept, [Next]_vars
             PROVE  ComingKept'
  OBVIOUS
<1> USE DEF shared, queue, budget, calls, stream, writes, flags, peerVars, seen
<1>0. /\ localClosed \in BOOLEAN /\ wireClosing \in BOOLEAN /\ overflowed \in BOOLEAN
      /\ wireDead \in BOOLEAN /\ peerClosed \in BOOLEAN
  BY DEF Typed, FlagsTyped
<1>1. ASSUME UNCHANGED <<inbound, wire, inOpen, peerSent, peerClosed, wireDead, overflowed>>,
             Accepted' = Accepted, localClosed => localClosed', wireClosing => wireClosing',
             wireClosing' => wireClosing \/ localClosed'
      PROVE  ComingKept'
  <2>1. Coming' = Coming BY <1>1 DEF Coming
  <2> QED BY <1>1, <2>1, ComingStill
<1>2. ASSUME UNCHANGED <<inbound, wire, inOpen, peerSent, peerClosed, wireDead, overflowed,
                         inq, delivered, localClosed, wireClosing>>
      PROVE  ComingKept'
  <2>1. Accepted' = Accepted BY <1>2 DEF Accepted
  <2> QED BY <1>1, <1>2, <2>1
<1>3. ASSUME TakeHead, UNCHANGED <<inbound, wire, inOpen, peerSent, peerClosed, wireDead,
                                   overflowed, localClosed, wireClosing>>
      PROVE  ComingKept'
  BY <1>1, <1>3, TakesOne
<1>4. CASE GuestCalls
  <2>1. ASSUME NEW s \in Sends, Send(s) PROVE ComingKept' BY <1>2, <2>1 DEF Send
  <2>2. ASSUME NEW code, Closes(code),
               UNCHANGED <<inbound, wire, inOpen, peerSent, peerClosed, wireDead, overflowed,
                           inq, delivered, wireClosing>>
        PROVE  ComingKept'
    <3>1. Accepted' = Accepted /\ localClosed' = TRUE BY <2>2 DEF Accepted, Closes
    <3> QED BY <1>1, <2>2, <3>1
  <2>3. ASSUME NEW req \in CloseRequests, Close(req) PROVE ComingKept'
    BY <2>2, <2>3 DEF Close
  <2>4. CASE Drop
    <3>1. CASE localClosed BY <1>2, <2>4, <3>1 DEF Drop
    <3>2. CASE ~localClosed BY <2>2, <2>4, <3>2 DEF Drop
    <3> QED BY <3>1, <3>2
  <2>5. ASSUME NEW r \in Receives, Receive(r) PROVE ComingKept' BY <1>2, <2>5 DEF Receive
  <2>6. CASE ReceiveViaStream \/ StreamDropped \/ WaitClosed
    BY <1>2, <2>6 DEF ReceiveViaStream, StreamDropped, WaitClosed
  <2>7. CASE ElementRead \/ PayloadRead \/ ReaderGone
    BY <1>2, <2>7 DEF ElementRead, PayloadRead, ReaderGone, FeederOnly
  <2> QED BY <1>4, <2>1, <2>3, <2>4, <2>5, <2>6, <2>7 DEF GuestCalls
<1>5. CASE FeederStep
  <2>1. CASE FeederTakes BY <1>3, <2>1 DEF FeederTakes, FeederOnly
  <2>2. CASE FeederLocks \/ FeederEnds \/ ReaderGone
    BY <1>2, <2>2 DEF FeederLocks, FeederEnds, ReaderGone, FeederOnly
  <2> QED BY <1>5, <2>1, <2>2 DEF FeederStep
<1>6. ASSUME NEW r \in Receives, ReceivePoll(r) PROVE ComingKept'
  <2>1. CASE ReceiveTakes(r) BY <1>3, <2>1 DEF ReceiveTakes
  <2>2. CASE ReceiveLocks(r) \/ ReceiveSignalled(r) \/ ReceiveEnds(r)
    BY <1>2, <2>2 DEF ReceiveLocks, ReceiveSignalled, ReceiveEnds
  <2> QED BY <1>6, <2>1, <2>2 DEF ReceivePoll
<1>7. CASE CmdSend \/ CmdClaim BY <1>2, <1>7 DEF CmdSend, CmdClaim
<1>8. CASE CmdClose
  <2>1. /\ UNCHANGED <<inbound, wire, inOpen, peerSent, peerClosed, wireDead, overflowed,
                       localClosed, inq, delivered>>
        /\ CmdReady("close")
    BY <1>8 DEF CmdClose
  <2>2. CloseWanted(cmdq, localClosed) /\ cmdq \in Seq(Frames)
    BY DEF CauseKept, CloseWanted, Typed, OutTyped
  <2>3. localClosed BY <1>0, <2>1, <2>2, WantedTail DEF CmdReady
  <2>4. wireClosing => wireClosing'
    <3>1. CASE closed BY <1>8, <3>1 DEF CmdClose
    <3>2. CASE ~closed
      <4>1. BeginsClose("cmd", "loop", Head(cmdq).code) BY <1>8, <3>2 DEF CmdClose
      <4> QED BY <1>0, <4>1, BeginsCloseFlags
    <3> QED BY <3>1, <3>2
  <2>5. Accepted' = Accepted BY <2>1 DEF Accepted
  <2> QED BY <1>1, <2>1, <2>3, <2>4, <2>5
<1>9. ASSUME NEW t \in Tasks, FlushStep(t) \/ TransportStep(t) PROVE ComingKept'
  BY <1>2, <1>9 DEF FlushStep, TransportStep, Locks, WriteSeesLocalClose, WriteTimesOut,
     WriteTakes, WriteFails, WriteOnly
<1>10. CASE ReaderData
  <2>1. Reads("data") /\ peerSent' = peerSent /\ delivered' = delivered
    BY <1>10, AcceptsOne DEF ReaderData
  <2>2. CASE Discards /\ UNCHANGED <<inq, overflowed, wireClosing>>
    <3>1. Accepted' = Accepted /\ wireClosing /\ wireClosing' = wireClosing
      BY <2>1, <2>2 DEF Accepted, Discards
    <3> QED BY <2>1, <2>2, <3>1, ComingRead DEF ComingKept
  <2>3. CASE ~Discards /\ UNCHANGED <<overflowed, wireClosing>>
             /\ inq' = Append(inq, Head(inbound).arg)
    <3>1. ~wireClosing /\ wireClosing' = wireClosing BY <2>3 DEF Discards
    <3>2. Accepted' + 1 = Accepted + 2
      <4>1. Accepted' = Accepted + 1 /\ Accepted \in Nat
        <5>1. Head(inbound).arg \in MsgIds BY <2>1, ReadsOpen, WireKinds
        <5>2. Len(inq') = Len(inq) + 1 /\ Len(inq) \in Nat /\ Len(delivered) \in Nat
          BY <2>3, <5>1, AppendAt DEF Typed, InboxTyped
        <5> QED BY <2>1, <5>2 DEF Accepted
      <4> QED BY <4>1
    <3> QED BY <2>1, <3>1, <3>2, ComingRead DEF ComingKept
  <2>4. CASE Overflows /\ UNCHANGED inq
    <3>1. overflowed' = TRUE /\ wireClosing' = TRUE
      BY <1>0, <2>4, BeginsCloseFlags DEF Overflows
    <3> QED BY <2>1, <3>1, ComingRead DEF ComingKept
  <2> QED BY <1>10, <2>2, <2>3, <2>4 DEF ReaderData
<1>11. CASE ReaderPing
  <2>1. Reads("ping") /\ UNCHANGED <<inq, delivered, overflowed, wireClosing>>
    BY <1>11 DEF ReaderPing, Reads
  <2>2. Accepted' = Accepted BY <2>1 DEF Accepted
  <2> QED BY <2>1, <2>2, ComingRead DEF ComingKept
<1>12. CASE ReaderPeerClose
  <2>1. Reads("close") /\ wireClosing' = TRUE BY <1>12 DEF ReaderPeerClose
  <2> QED BY <2>1, ComingRead DEF ComingKept
<1>13. CASE ReaderCapacity
  <2>1. Reads("big") /\ overflowed' = TRUE /\ BeginsClose("reader", "end", NoCode)
    BY <1>13 DEF ReaderCapacity
  <2>2. wireClosing' = TRUE BY <1>0, <2>1, BeginsCloseFlags
  <2> QED BY <2>1, <2>2, ComingRead DEF ComingKept
<1>14. CASE ReaderReads
  <2>1. PICK n \in 1 .. Len(wire) : inbound' = SubSeq(wire, 1, n)
                                    /\ wire' = SubSeq(wire, n + 1, Len(wire))
    BY <1>14 DEF ReaderReads
  <2>2. Coming' = Coming
    BY <1>14, <2>1, ComingSame DEF ReaderReads, Awaits, Typed
  <2>3. /\ UNCHANGED <<inOpen, peerSent, peerClosed, wireDead, overflowed, localClosed,
                       wireClosing, inq, delivered>>
    BY <1>14 DEF ReaderReads
  <2>4. Accepted' = Accepted BY <2>3 DEF Accepted
  <2> QED BY <2>2, <2>3, <2>4, ComingStill
<1>15. CASE ReaderEnds
  <2>1. inOpen' = FALSE BY <1>15 DEF ReaderEnds, Finalizes
  <2> QED BY <2>1 DEF ComingKept
<1>16. CASE PeerStep
  <2> USE DEF PeerOnly, PeerPuts, PeerCanSend
  <2>0. ASSUME UNCHANGED <<inq, delivered>>
        PROVE  Accepted' = Accepted /\ Accepted \in Nat /\ Accepted + 1 \in Nat
               /\ peerSent \in Nat /\ Accepted =< peerSent /\ Coming \in Seq(WireFrames)
               /\ PeerTyped
    BY <2>0, ComingSeq DEF Accepted, Typed, InboxTyped, PeerTyped, InboxKept
  <2>1. CASE PeerData
    <3>1. /\ ~peerClosed /\ ~wireDead /\ peerSent' = peerSent + 1 /\ inbound' = inbound
          /\ wire' = Append(wire, Msg(peerSent + 1)) /\ peerSent < MaxMsgs
          /\ UNCHANGED <<peerClosed, wireDead, inOpen, wireClosing, localClosed, overflowed,
                         inq, delivered>>
      BY <2>1 DEF PeerData, Msg
    <3>2. peerSent + 1 \in MsgIds /\ Msg(peerSent + 1) \in WireFrames
          /\ Msg(peerSent + 1).kind = "data"
      <4>1. peerSent + 1 \in MsgIds BY <2>0, <3>1, Sizes DEF MsgIds
      <4> QED BY <4>1 DEF Msg, WireFrames
    <3>3. Coming' = Append(Coming, Msg(peerSent + 1)) BY <2>0, <3>1, <3>2, ComingAppend
    <3>4. ASSUME inOpen PROVE ClosesLast(Coming') /\ NoClose(Coming')
      BY <2>0, <3>1, <3>2, <3>3, <3>4, ClosesAppend DEF ComingKept
    <3>5. ASSUME inOpen, ~wireClosing
          PROVE  Brings(Coming', Accepted + 1, peerSent + 1)
                 /\ BringsAll(Coming', Accepted + 1, peerSent + 1)
      <4>1. Brings(Coming, Accepted + 1, peerSent) /\ BringsAll(Coming, Accepted + 1, peerSent)
        BY <3>1, <3>5 DEF ComingKept
      <4>2. Accepted + 1 =< peerSent + 1 BY <2>0, <3>1
      <4> QED BY <2>0, <3>1, <3>2, <3>3, <4>1, <4>2, BringsMore
    <3> QED BY <2>0, <3>1, <3>4, <3>5 DEF ComingKept
  <2>2. ASSUME NEW f \in WireFrames, f.kind # "data", wire' = Append(wire, f),
               f.kind = "close" => peerClosed', peerClosed => peerClosed',
               wireDead => wireDead',
               UNCHANGED <<inbound, peerSent, inOpen, wireClosing, localClosed, overflowed,
                           inq, delivered>>
        PROVE  ComingKept'
    <3>1. Coming' = Append(Coming, f) BY <2>0, <2>2, ComingAppend
    <3>2. ASSUME inOpen
          PROVE  /\ ClosesLast(Coming') /\ (~peerClosed' => NoClose(Coming'))
                 /\ (NoData(Coming) => NoData(Coming'))
      BY <2>0, <2>2, <3>1, <3>2, ClosesAppend DEF ComingKept
    <3>3. /\ Brings(Coming, Accepted + 1, peerSent) => Brings(Coming', Accepted + 1, peerSent)
          /\ BringsAll(Coming, Accepted + 1, peerSent) => BringsAll(Coming', Accepted + 1, peerSent)
      BY <2>0, <2>2, <3>1, BringsAppend
    <3> QED BY <2>0, <2>2, <3>2, <3>3 DEF ComingKept
  <2>3. CASE PeerPing
    <3>1. [kind |-> "ping", arg |-> 0] \in WireFrames BY DEF WireFrames
    <3> QED BY <2>2, <2>3, <3>1 DEF PeerPing
  <2>4. ASSUME NEW kind \in {"big", "bad"}, PeerBreaks(kind) PROVE ComingKept'
    <3>1. [kind |-> kind, arg |-> 0] \in WireFrames BY DEF WireFrames
    <3> QED BY <2>2, <2>4, <3>1 DEF PeerBreaks
  <2>5. ASSUME NEW code \in PeerCodes, PeerClose(code) PROVE ComingKept'
    <3>1. [kind |-> "close", arg |-> code] \in WireFrames BY DEF WireFrames
    <3> QED BY <2>2, <2>5, <3>1 DEF PeerClose
  <2>6. CASE TransportEnds
    <3>1. PICK n \in 0 .. Len(wire) : wire' = Append(SubSeq(wire, 1, n), Eof)
      BY <2>6 DEF TransportEnds, Eof
    <3>2. UNCHANGED <<inbound, peerSent, peerClosed, inOpen, wireClosing, localClosed, overflowed,
                      inq, delivered>> /\ wireDead' = TRUE
      BY <2>6 DEF TransportEnds
    <3>3. PICK m \in 0 .. Len(Coming) : Coming' = Append(SubSeq(Coming, 1, m), Eof)
      BY <2>0, <3>1, <3>2, ComingCut
    <3>4. SubSeq(Coming, 1, m) \in Seq(WireFrames) BY <2>0, <3>2, <3>3, FrontAt
    <3>5. Eof \in WireFrames /\ Eof.kind = "eof" BY DEF Eof, WireFrames
    <3>6. ASSUME inOpen
          PROVE  /\ ClosesLast(Coming') /\ (~peerClosed => NoClose(Coming'))
                 /\ (NoData(Coming) => NoData(Coming'))
      <4>1. ClosesLast(Coming) /\ (~peerClosed => NoClose(Coming)) BY <3>6 DEF ComingKept
      <4>2. /\ ClosesLast(SubSeq(Coming, 1, m)) /\ (~peerClosed => NoClose(SubSeq(Coming, 1, m)))
            /\ (NoData(Coming) => NoData(SubSeq(Coming, 1, m)))
        BY <2>0, <3>2, <3>3, <4>1, ClosesFront
      <4> QED BY <3>3, <3>4, <3>5, <4>2, ClosesAppend
    <3>7. Brings(Coming, Accepted + 1, peerSent) => Brings(Coming', Accepted + 1, peerSent)
      <4>1. Brings(Coming, Accepted + 1, peerSent)
              => Brings(SubSeq(Coming, 1, m), Accepted + 1, peerSent)
        BY <2>0, <3>2, <3>3, BringsFront
      <4> QED BY <2>0, <3>2, <3>3, <3>4, <3>5, <4>1, BringsAppend
    <3> QED BY <2>0, <3>2, <3>6, <3>7 DEF ComingKept
  <2> QED BY <1>16, <2>1, <2>3, <2>4, <2>5, <2>6 DEF PeerStep
<1>17. CASE DeadlineExpires \/ ReaderWritesReply
  BY <1>2, <1>17 DEF DeadlineExpires, ReaderWritesReply
<1>18. CASE UNCHANGED vars BY <1>2, <1>18 DEF vars
<1> QED
  BY <1>4, <1>5, <1>6, <1>7, <1>8, <1>9, <1>10, <1>11, <1>12, <1>13, <1>14, <1>15, <1>16,
     <1>17, <1>18 DEF Next, CmdStep, ReaderStep, Tasks
-----------------------------------------------------------------------------
(***************************************************************************)
(* What is buffered is watched.                                            *)
(***************************************************************************)

\* A frame that a task put there, not a reply.
Ours(q) == \E k \in DOMAIN q : q[k].kind \in {"send", "close"}

LEMMA OursAppend ==
  ASSUME NEW q \in Seq(Frames), NEW f \in Frames, f.kind \in {"pong", "reply"},
         Ours(Append(q, f))
  PROVE  Ours(q)
<1>1. PICK k \in DOMAIN Append(q, f) : Append(q, f)[k].kind \in {"send", "close"} BY DEF Ours
<1>2. k \in 1 .. Len(q) BY <1>1, AppendAt
<1> QED BY <1>1, <1>2, AppendAt DEF Ours

\* A flush leaves nothing buffered, or waits.
LEMMA FlushesWatched ==
  ASSUME OutTyped, NEW t \in Tasks, NEW then \in Thens, NEW out, Flushes(t, then, out)
  PROVE  outbound' = <<>> \/ at'[t].pc = "lock"
<1>1. CASE writeLock = NoCall BY <1>1 DEF Flushes, Writes
<1>2. CASE writeLock # NoCall BY <1>2, WaitsTyped DEF Flushes
<1> QED BY <1>1, <1>2

\* A task that goes on was not the one that waits for the lock.
LEMMA ResumesWatched ==
  ASSUME OutTyped, BufferIsWatched, NEW t \in Tasks, NEW then \in Thens,
         NEW result \in {"ok", "closed"}, at[t].pc # "lock", Resumes(t, then, result),
         outbound' = outbound
  PROVE  BufferIsWatched'
<1>1. \A u \in Tasks : u # t => at'[u] = at[u] BY ResumesTyped
<1> QED BY <1>1 DEF BufferIsWatched

LEMMA WatchedNext == Typed /\ LockKept /\ BufferIsWatched /\ [Next]_vars => BufferIsWatched'
<1> SUFFICES ASSUME Typed, LockKept, BufferIsWatched, [Next]_vars PROVE BufferIsWatched'
  OBVIOUS
<1> USE DEF shared, queue, budget, calls, stream, writes, flags, peerVars, seen
<1>0. OutTyped BY DEF Typed
<1>1. ASSUME UNCHANGED <<at, outbound>> PROVE BufferIsWatched' BY <1>1 DEF BufferIsWatched
<1>2. ASSUME NEW t \in Tasks, NEW then \in Thens, NEW out, Flushes(t, then, out)
      PROVE  BufferIsWatched'
  <2>1. DOMAIN <<>> = {} OBVIOUS
  <2> QED BY <1>0, <1>2, <2>1, FlushesWatched DEF BufferIsWatched
<1>3. "loop" \in Thens /\ "end" \in Thens BY DEF Thens
<1>4. ASSUME NEW t \in Tasks, NEW then \in {"loop", "end"}, NEW code, at[t].pc = "loop",
             BeginsClose(t, then, code)
      PROVE  BufferIsWatched'
  <2>1. CASE wireClosing
    <3>1. Resumes(t, then, "ok") /\ outbound' = outbound BY <1>4, <2>1 DEF BeginsClose
    <3> QED BY <1>0, <1>3, <1>4, <3>1, ResumesWatched
  <2>2. CASE ~wireClosing BY <1>2, <1>3, <1>4, <2>2 DEF BeginsClose, SendsFrame
  <2> QED BY <2>1, <2>2
<1>5. CASE GuestCalls
  BY <1>1, <1>5 DEF GuestCalls, Send, Close, Receive, Drop, ReceiveViaStream, StreamDropped,
     WaitClosed, ElementRead, PayloadRead, ReaderGone, FeederOnly
<1>6. CASE FeederStep
  BY <1>1, <1>6 DEF FeederStep, FeederLocks, FeederTakes, FeederEnds, ReaderGone, FeederOnly
<1>7. ASSUME NEW r \in Receives, ReceivePoll(r) PROVE BufferIsWatched'
  BY <1>1, <1>7 DEF ReceivePoll, ReceiveLocks, ReceiveSignalled, ReceiveTakes, ReceiveEnds
<1>8. CASE CmdSend
  <2>1. cmdq # <<>> /\ Head(cmdq).kind = "send" BY <1>8 DEF CmdSend, CmdReady
  <2>2. Head(cmdq).from \in Thens BY <1>0, <2>1, TailAt, FrameKinds DEF OutTyped, Thens
  <2> QED BY <1>1, <1>2, <1>8, <2>2, TaskNames DEF CmdSend, SendsFrame
<1>9. CASE CmdClose BY <1>1, <1>4, <1>9, TaskNames DEF CmdClose, CmdReady
<1>10. CASE CmdClaim BY <1>1, <1>10 DEF CmdClaim
<1>11. ASSUME NEW t \in Tasks, NEW result \in {"ok", "closed"}, at[t].pc = "write",
              WriteEnds(t, result)
       PROVE  BufferIsWatched'
  <2>1. at[t].then \in Thens BY <1>0 DEF OutTyped, Places, Thens
  <2> QED BY <1>0, <1>11, <2>1, ResumesWatched DEF WriteEnds
<1>12. ASSUME NEW t \in Tasks, FlushStep(t) \/ TransportStep(t) PROVE BufferIsWatched'
  <2>1. CASE Locks(t)
    <3>1. outbound' = <<>> /\ DOMAIN <<>> = {} BY <2>1 DEF Locks, Writes
    <3> QED BY <3>1 DEF BufferIsWatched
  <2>2. CASE WriteTakes(t) BY <1>1, <1>11, <2>2 DEF WriteTakes
  <2>3. CASE WriteFails(t) \/ WriteTimesOut(t) BY <1>11, <2>3 DEF WriteFails, WriteTimesOut
  <2>4. CASE WriteSeesLocalClose(t) BY <1>1, <2>4 DEF WriteSeesLocalClose
  <2> QED BY <1>12, <2>1, <2>2, <2>3, <2>4 DEF FlushStep, TransportStep
<1>13. CASE ReaderData
  <2>1. at["reader"].pc = "loop" BY <1>13 DEF ReaderData, Reads, ReadsOn
  <2> QED BY <1>1, <1>4, <1>13, <2>1, TaskNames DEF ReaderData, Overflows
<1>14. CASE ReaderPing BY <1>2, <1>3, <1>14, TaskNames DEF ReaderPing
<1>15. CASE ReaderPeerClose BY <1>2, <1>3, <1>15, TaskNames DEF ReaderPeerClose
<1>16. CASE ReaderCapacity BY <1>4, <1>16, TaskNames DEF ReaderCapacity, Reads, ReadsOn
<1>17. CASE ReaderReads BY <1>1, <1>17 DEF ReaderReads
<1>18. CASE ReaderEnds
  <2>1. at["reader"].pc \in {"loop", "end"} BY <1>18 DEF ReaderEnds, ReaderLeaves, Awaits, ReadsOn
  <2>2. outbound' = outbound /\ \A u \in Tasks : u # "reader" => at'[u] = at[u]
    BY <1>0, <1>18 DEF ReaderEnds, OutTyped
  <2> QED BY <2>1, <2>2 DEF BufferIsWatched
<1>19. CASE PeerStep
  BY <1>1, <1>19 DEF PeerStep, PeerData, PeerPing, PeerBreaks, PeerClose, TransportEnds, PeerOnly
<1>20. CASE DeadlineExpires BY <1>1, <1>20 DEF DeadlineExpires
<1>21. CASE UNCHANGED vars BY <1>1, <1>21 DEF vars
<1>22. CASE ReaderWritesReply
  <2>1. outbound' = WithReply(outbound) /\ at' = at /\ reply # NoReply
    BY <1>22 DEF ReaderWritesReply
  <2>2. outbound' = Append(outbound, reply) BY <2>1 DEF WithReply
  <2>3. reply \in Frames /\ reply.kind \in {"pong", "reply"} /\ outbound \in Seq(Frames)
    BY <1>0, <2>1, ReplyKinds DEF OutTyped
  <2>4. Ours(outbound') => Ours(outbound) BY <2>2, <2>3, OursAppend
  <2> QED BY <2>1, <2>4 DEF BufferIsWatched, Ours
<1> QED
  BY <1>5, <1>6, <1>7, <1>8, <1>9, <1>10, <1>12, <1>13, <1>14, <1>15, <1>16, <1>17, <1>18,
     <1>19, <1>20, <1>21, <1>22 DEF Next, CmdStep, ReaderStep, Tasks
-----------------------------------------------------------------------------
(***************************************************************************)
(* What a failed receive reported stays true.                              *)
(***************************************************************************)
EndStays ==
  /\ claimed => claimed'
  /\ localClosed => localClosed'
  /\ ~inOpen => ~inOpen' /\ UNCHANGED <<overflowed, discarded>>
  /\ ~inOpen /\ inq = <<>> => inq' = <<>>

LEMMA EndStaysNext == Typed /\ LockKept /\ [Next]_vars => EndStays
<1> SUFFICES ASSUME Typed, LockKept, [Next]_vars PROVE EndStays
  OBVIOUS
<1> USE DEF shared, queue, budget, calls, stream, writes, flags, peerVars, seen
<1>0. inOpen \in BOOLEAN /\ localClosed \in BOOLEAN /\ claimed \in BOOLEAN
  BY DEF Typed, FlagsTyped
<1>1. ASSUME UNCHANGED <<claimed, localClosed, inOpen, overflowed, discarded, inq>>
      PROVE  EndStays
  BY <1>1 DEF EndStays
<1>2. ASSUME TakeHead, UNCHANGED <<claimed, localClosed, inOpen, overflowed, discarded>>
      PROVE  EndStays
  BY <1>2 DEF EndStays, TakeHead
<1>3. ASSUME UNCHANGED <<inOpen, overflowed, discarded, inq>>, claimed => claimed',
             localClosed => localClosed'
      PROVE  EndStays
  BY <1>3 DEF EndStays
<1>4. CASE GuestCalls
  <2>1. ASSUME NEW s \in Sends, Send(s) PROVE EndStays BY <1>1, <2>1 DEF Send
  <2>2. ASSUME NEW req \in CloseRequests, Close(req) PROVE EndStays
    BY <1>3, <2>2 DEF Close, Closes
  <2>3. ASSUME NEW r \in Receives, Receive(r) PROVE EndStays BY <1>1, <2>3 DEF Receive
  <2>4. CASE Drop
    <3>1. CASE localClosed BY <1>1, <2>4, <3>1 DEF Drop
    <3>2. CASE ~localClosed BY <1>3, <2>4, <3>2 DEF Drop
    <3> QED BY <3>1, <3>2
  <2>5. CASE ReceiveViaStream BY <1>3, <2>5 DEF ReceiveViaStream
  <2>6. CASE StreamDropped \/ WaitClosed BY <1>1, <2>6 DEF StreamDropped, WaitClosed
  <2>7. CASE ElementRead \/ PayloadRead \/ ReaderGone
    BY <1>1, <2>7 DEF ElementRead, PayloadRead, ReaderGone, FeederOnly
  <2> QED BY <1>4, <2>1, <2>2, <2>3, <2>4, <2>5, <2>6, <2>7 DEF GuestCalls
<1>5. CASE FeederStep
  <2>1. CASE FeederTakes BY <1>2, <2>1 DEF FeederTakes, FeederOnly
  <2>2. CASE FeederLocks \/ FeederEnds \/ ReaderGone
    BY <1>1, <2>2 DEF FeederLocks, FeederEnds, ReaderGone, FeederOnly
  <2> QED BY <1>5, <2>1, <2>2 DEF FeederStep
<1>6. ASSUME NEW r \in Receives, ReceivePoll(r) PROVE EndStays
  <2>1. CASE ReceiveTakes(r) BY <1>2, <2>1 DEF ReceiveTakes
  <2>2. CASE ReceiveLocks(r) \/ ReceiveSignalled(r) \/ ReceiveEnds(r)
    BY <1>1, <2>2 DEF ReceiveLocks, ReceiveSignalled, ReceiveEnds
  <2> QED BY <1>6, <2>1, <2>2 DEF ReceivePoll
<1>7. CASE CmdSend \/ CmdClose \/ CmdClaim BY <1>1, <1>7 DEF CmdSend, CmdClose, CmdClaim
<1>8. ASSUME NEW t \in Tasks, FlushStep(t) \/ TransportStep(t) PROVE EndStays
  BY <1>1, <1>8 DEF FlushStep, TransportStep, Locks, WriteSeesLocalClose, WriteTimesOut,
     WriteTakes, WriteFails, WriteOnly
<1>9. ASSUME NEW kind, Reads(kind) PROVE EndStays
  <2>1. inOpen /\ inOpen' = inOpen /\ UNCHANGED <<claimed, localClosed>>
    BY <1>9, ReadsOpen DEF Reads
  <2> QED BY <2>1 DEF EndStays
<1>10. CASE ReaderData \/ ReaderPing \/ ReaderPeerClose \/ ReaderCapacity
  BY <1>9, <1>10 DEF ReaderData, ReaderPing, ReaderPeerClose, ReaderCapacity
<1>11. CASE ReaderReads \/ ReaderWritesReply
  BY <1>1, <1>11 DEF ReaderReads, ReaderWritesReply
<1>12. CASE ReaderEnds
  BY <1>12 DEF ReaderEnds, Finalizes, EndStays
<1>13. CASE PeerStep
  BY <1>1, <1>13 DEF PeerStep, PeerData, PeerPing, PeerBreaks, PeerClose, TransportEnds, PeerOnly
<1>14. CASE DeadlineExpires BY <1>1, <1>14 DEF DeadlineExpires
<1>15. CASE UNCHANGED vars BY <1>1, <1>15 DEF vars
<1> QED
  BY <1>4, <1>5, <1>6, <1>7, <1>8, <1>10, <1>11, <1>12, <1>13, <1>14, <1>15
     DEF Next, CmdStep, ReaderStep, Tasks

\* Who answers a receive.
Honest(r) ==
  /\ recvSt[r] = "closed" =>
       localClosed \/ (~inOpen /\ inq = <<>> /\ ~overflowed /\ ~discarded)
  /\ recvSt[r] = "overflow" => overflowed /\ ~inOpen /\ inq = <<>>
  /\ recvSt[r] = "viaStream" => claimed

LEMMA HonestNext ==
  Typed /\ LockKept /\ CauseKept /\ ReceiveErrorsHonest /\ [Next]_vars => ReceiveErrorsHonest'
<1> SUFFICES ASSUME Typed, LockKept, CauseKept, ReceiveErrorsHonest, [Next]_vars,
                    NEW r \in Receives
             PROVE  Honest(r)'
  BY DEF ReceiveErrorsHonest, Honest
<1> USE DEF shared, queue, budget, calls, stream, writes, flags, peerVars, seen
<1>0. /\ EndStays /\ Honest(r) /\ recvSt \in [Receives -> {"unused", "pending", "message", "viaStream",
                                                           "overflow", "closed"}]
      /\ inOpen \in BOOLEAN /\ localClosed \in BOOLEAN /\ claimed \in BOOLEAN
      /\ overflowed \in BOOLEAN /\ discarded \in BOOLEAN
  BY EndStaysNext DEF ReceiveErrorsHonest, Honest, Typed, InboxTyped, FlagsTyped
<1>1. ASSUME recvSt'[r] = recvSt[r] PROVE Honest(r)'
  BY <1>0, <1>1 DEF EndStays, Honest
<1>2. ASSUME recvSt'[r] \in {"pending", "message"} PROVE Honest(r)' BY <1>2 DEF Honest
<1>3. CASE GuestCalls
  <2>1. ASSUME NEW s \in Receives, Receive(s) PROVE Honest(r)'
    <3>1. PICK outcome \in {"pending", "closed", "viaStream"} :
            /\ recvSt' = [recvSt EXCEPT ![s] = outcome] /\ UNCHANGED <<localClosed, claimed>>
            /\ outcome = "closed" => localClosed
            /\ outcome = "viaStream" => claimed
      BY <1>0, <2>1 DEF Receive
    <3>2. CASE s # r BY <1>0, <1>1, <3>1, <3>2
    <3>3. CASE s = r
      <4>1. recvSt'[r] = outcome BY <1>0, <3>1, <3>3
      <4> QED BY <1>0, <3>1, <4>1 DEF Honest
    <3> QED BY <3>2, <3>3
  <2>2. ASSUME UNCHANGED recvSt PROVE Honest(r)' BY <1>1, <2>2
  <2> QED
    BY <1>3, <2>1, <2>2 DEF GuestCalls, Send, Close, Drop, ReceiveViaStream, StreamDropped,
       WaitClosed, ElementRead, PayloadRead, ReaderGone, FeederOnly
<1>4. CASE FeederStep
  BY <1>1, <1>4 DEF FeederStep, FeederLocks, FeederTakes, FeederEnds, ReaderGone, FeederOnly
<1>5. ASSUME NEW s \in Receives, ReceivePoll(s) PROVE Honest(r)'
  <2>1. CASE ReceiveLocks(s) BY <1>1, <2>1 DEF ReceiveLocks
  <2>2. ASSUME NEW outcome, ReceiveResolves(s, outcome),
               s = r /\ recvSt'[r] = outcome => Honest(r)'
        PROVE  Honest(r)'
    BY <1>0, <1>1, <2>2 DEF ReceiveResolves
  <2>3. CASE ReceiveSignalled(s)
    <3>1. /\ ReceiveResolves(s, IF claimed THEN "viaStream" ELSE "closed")
          /\ (claimed \/ localClosed) /\ UNCHANGED <<claimed, localClosed>>
      BY <2>3 DEF ReceiveSignalled, NotSignalled
    <3> QED BY <1>0, <2>2, <3>1 DEF Honest
  <2>4. CASE ReceiveTakes(s)
    BY <1>2, <2>2, <2>4 DEF ReceiveTakes
  <2>5. CASE ReceiveEnds(s)
    <3>1. /\ ReceiveResolves(s, EndOutcome) /\ inq = <<>> /\ ~inOpen /\ ~localClosed
          /\ UNCHANGED <<inq, inOpen, overflowed, discarded>>
      BY <2>5 DEF ReceiveEnds, NotSignalled
    <3>2. ~overflowed => ~discarded BY <3>1 DEF CauseKept
    <3> QED BY <1>0, <2>2, <3>1, <3>2 DEF EndOutcome, Honest
  <2> QED BY <1>5, <2>1, <2>3, <2>4, <2>5 DEF ReceivePoll
<1>6. CASE CmdSend \/ CmdClose \/ CmdClaim BY <1>1, <1>6 DEF CmdSend, CmdClose, CmdClaim
<1>7. ASSUME NEW t \in Tasks, FlushStep(t) \/ TransportStep(t) PROVE Honest(r)'
  BY <1>1, <1>7 DEF FlushStep, TransportStep, Locks, WriteSeesLocalClose, WriteTimesOut,
     WriteTakes, WriteFails, WriteOnly
<1>8. CASE ReaderData \/ ReaderPing \/ ReaderPeerClose \/ ReaderCapacity
  BY <1>1, <1>8 DEF ReaderData, ReaderPing, ReaderPeerClose, ReaderCapacity, Reads
<1>9. CASE ReaderReads \/ ReaderEnds \/ ReaderWritesReply
  BY <1>1, <1>9 DEF ReaderReads, ReaderEnds, ReaderWritesReply
<1>10. CASE PeerStep
  BY <1>1, <1>10 DEF PeerStep, PeerData, PeerPing, PeerBreaks, PeerClose, TransportEnds, PeerOnly
<1>11. CASE DeadlineExpires BY <1>1, <1>11 DEF DeadlineExpires
<1>12. CASE UNCHANGED vars BY <1>1, <1>12 DEF vars
<1> QED
  BY <1>3, <1>4, <1>5, <1>6, <1>7, <1>8, <1>9, <1>10, <1>11, <1>12
     DEF Next, CmdStep, ReaderStep, Tasks
-----------------------------------------------------------------------------
(***************************************************************************)
(* The messages in a sequence of frames, and its close frame.              *)
(***************************************************************************)
LEMMA NoFrames ==
  Msgs(<<>>) = {} /\ Once(<<>>) /\ LastOf(<<>>) /\ Open(<<>>) /\ Pongs(<<>>)
<1>1. DOMAIN <<>> = {} OBVIOUS
<1> QED BY <1>1 DEF Msgs, Once, LastOf, Open, Pongs

Carried(f) == IF f.kind = "send" THEN {f.from} ELSE {}

LEMMA MsgsAppend ==
  ASSUME NEW q \in Seq(Frames), NEW f \in Frames
  PROVE  /\ Msgs(Append(q, f)) = Msgs(q) \cup Carried(f)
         /\ Once(q) /\ Carried(f) \cap Msgs(q) = {} => Once(Append(q, f))
<1> DEFINE p == Append(q, f)
<1>1. /\ q \in Seq(Frames) /\ Len(q) \in Nat /\ DOMAIN q = 1 .. Len(q)
      /\ DOMAIN p = 1 .. Len(q) + 1 /\ \A k \in 1 .. Len(q) : p[k] = q[k] /\ q[k] \in Frames
      /\ p[Len(q) + 1] = f
  BY AppendAt
<1> HIDE DEF p
<1>2. f.kind = "send" => f.from \in Sends /\ f = DataFrame(f.from) BY FrameKinds
<1>3. \A s \in Sends : DataFrame(s).kind = "send" /\ DataFrame(s).from = s BY FrameKinds
<1>4. ASSUME NEW s \in Sends
      PROVE  (\E k \in DOMAIN p : p[k] = DataFrame(s))
               <=> (\E k \in DOMAIN q : q[k] = DataFrame(s)) \/ f = DataFrame(s)
  BY <1>1
<1>5. \A s \in Sends : f = DataFrame(s) <=> s \in Carried(f) BY <1>2, <1>3 DEF Carried
<1>6. Carried(f) \subseteq Sends BY <1>2 DEF Carried
<1>7. Msgs(p) = Msgs(q) \cup Carried(f) BY <1>4, <1>5, <1>6 DEF Msgs
<1>8. ASSUME Once(q), Carried(f) \cap Msgs(q) = {}, NEW j \in DOMAIN p, NEW k \in DOMAIN p,
             p[j].kind = "send", p[j] = p[k]
      PROVE  j = k
  <2>1. CASE j \in 1 .. Len(q) /\ k \in 1 .. Len(q) BY <1>1, <1>8, <2>1 DEF Once
  <2>2. ASSUME f.kind = "send", NEW i \in 1 .. Len(q), q[i] = f PROVE FALSE
    <3>1. f.from \in Carried(f) /\ f.from \in Sends BY <1>2, <2>2 DEF Carried
    <3>2. f.from \in Msgs(q) BY <1>1, <1>2, <2>2 DEF Msgs
    <3> QED BY <1>8, <3>1, <3>2
  <2>3. CASE j = Len(q) + 1 BY <1>1, <1>8, <2>2, <2>3
  <2>4. CASE k = Len(q) + 1 BY <1>1, <1>8, <2>2, <2>4
  <2> QED BY <1>1, <2>1, <2>3, <2>4
<1> QED BY <1>7, <1>8 DEF Once, p

LEMMA MsgsTail ==
  ASSUME NEW q \in Seq(Frames), q # <<>>, Once(q)
  PROVE  /\ Once(Tail(q)) /\ Carried(Head(q)) \subseteq Msgs(q)
         /\ Msgs(Tail(q)) = Msgs(q) \ Carried(Head(q))
<1> DEFINE t == Tail(q)
<1>1. /\ Len(q) \in Nat /\ Len(q) >= 1 /\ DOMAIN q = 1 .. Len(q) /\ Head(q) = q[1]
      /\ DOMAIN t = 1 .. Len(q) - 1 /\ \A k \in 1 .. Len(q) - 1 : t[k] = q[k + 1]
      /\ Head(q) \in Frames
  BY TailAt
<1> HIDE DEF t
<1>2. \A k \in DOMAIN t : k + 1 \in DOMAIN q /\ t[k] = q[k + 1] /\ k \in Int BY <1>1
<1>3. Once(t)
  <2>1. ASSUME NEW j \in DOMAIN t, NEW k \in DOMAIN t, t[j].kind = "send", t[j] = t[k]
        PROVE  j = k
    <3>1. j + 1 = k + 1 BY <1>2, <2>1 DEF Once
    <3> QED BY <1>2, <3>1
  <2> QED BY <2>1 DEF Once
<1>4. Head(q).kind = "send" => Head(q).from \in Sends /\ Head(q) = DataFrame(Head(q).from)
  BY <1>1, FrameKinds
<1>5. 1 \in DOMAIN q BY <1>1
<1>6. Carried(Head(q)) \subseteq Msgs(q) BY <1>1, <1>4, <1>5 DEF Carried, Msgs
<1>7. ASSUME NEW s \in Sends
      PROVE  s \in Msgs(t) <=> s \in Msgs(q) /\ s \notin Carried(Head(q))
  <2>1. DataFrame(s).kind = "send" /\ DataFrame(s).from = s BY FrameKinds
  <2>2. ASSUME s \in Msgs(t) PROVE s \in Msgs(q) /\ s \notin Carried(Head(q))
    <3>1. PICK k \in DOMAIN t : t[k] = DataFrame(s) BY <2>2 DEF Msgs
    <3>2. k + 1 \in DOMAIN q /\ q[k + 1] = DataFrame(s) /\ k + 1 # 1 BY <1>1, <1>2, <3>1
    <3>3. s \in Msgs(q) BY <3>2 DEF Msgs
    <3>4. s \notin Carried(Head(q))
      <4>1. SUFFICES ASSUME s \in Carried(Head(q)) PROVE FALSE OBVIOUS
      <4>2. q[1] = DataFrame(s) BY <1>1, <1>4, <4>1 DEF Carried
      <4> QED BY <1>5, <2>1, <3>2, <4>2 DEF Once
    <3> QED BY <3>3, <3>4
  <2>3. ASSUME s \in Msgs(q), s \notin Carried(Head(q)) PROVE s \in Msgs(t)
    <3>1. PICK k \in DOMAIN q : q[k] = DataFrame(s) BY <2>3 DEF Msgs
    <3>2. k # 1 BY <1>1, <2>1, <2>3, <3>1 DEF Carried
    <3>3. k - 1 \in DOMAIN t /\ (k - 1) + 1 = k BY <1>1, <3>2
    <3>4. t[k - 1] = DataFrame(s) BY <1>2, <3>1, <3>3
    <3> QED BY <3>3, <3>4 DEF Msgs
  <2> QED BY <2>2, <2>3
<1>8. Msgs(t) = Msgs(q) \ Carried(Head(q))
  <2>1. Msgs(t) \subseteq Sends /\ Msgs(q) \subseteq Sends BY DEF Msgs
  <2> QED BY <1>7, <2>1
<1> QED BY <1>3, <1>6, <1>8 DEF t

LEMMA LastAppend ==
  ASSUME NEW q \in Seq(Frames), NEW f \in Frames
  PROVE  /\ Open(q) => LastOf(Append(q, f)) /\ (~Closing(f) => Open(Append(q, f)))
         /\ LastOf(q) /\ f = Pong => LastOf(Append(q, f))
         /\ Pongs(q) /\ f = Pong => Pongs(Append(q, f))
         /\ NoPong(q) /\ f # Pong => NoPong(Append(q, f))
<1> DEFINE p == Append(q, f)
<1>1. /\ Len(q) \in Nat /\ DOMAIN q = 1 .. Len(q) /\ DOMAIN p = 1 .. Len(q) + 1
      /\ \A k \in 1 .. Len(q) : p[k] = q[k]
      /\ p[Len(q) + 1] = f
  BY AppendAt
<1> HIDE DEF p
<1>2. ASSUME NEW k \in DOMAIN p
      PROVE  (k \in DOMAIN q /\ p[k] = q[k]) \/ (k = Len(q) + 1 /\ p[k] = f)
  BY <1>1, <1>2
<1>3. ASSUME NEW j \in DOMAIN p, NEW k \in DOMAIN p, k < j
      PROVE  k \in DOMAIN q /\ p[k] = q[k]
  BY <1>1, <1>3
<1>4. ASSUME Open(q) PROVE LastOf(p) /\ (~Closing(f) => Open(p))
  <2>1. LastOf(p) BY <1>3, <1>4 DEF LastOf, Open
  <2>2. ~Closing(f) => Open(p) BY <1>2, <1>4 DEF Open
  <2> QED BY <2>1, <2>2
<1>5. ASSUME LastOf(q), f = Pong PROVE LastOf(p)
  BY <1>2, <1>3, <1>5 DEF LastOf
<1>6. Pongs(q) /\ f = Pong => Pongs(p) BY <1>2 DEF Pongs
<1>7. NoPong(q) /\ f # Pong => NoPong(p) BY <1>2 DEF NoPong
<1> QED BY <1>4, <1>5, <1>6, <1>7 DEF p

LEMMA NoLength == ASSUME NEW S, NEW q \in Seq(S), Len(q) = 0 PROVE q = <<>>
OBVIOUS

LEMMA LastTail ==
  ASSUME NEW q \in Seq(Frames), q # <<>>, LastOf(q)
  PROVE  /\ LastOf(Tail(q)) /\ (Open(q) => Open(Tail(q)) /\ ~Closing(Head(q)))
         /\ Closing(Head(q)) => Pongs(Tail(q)) /\ ~Open(q)
         /\ Pongs(q) => Pongs(Tail(q)) /\ Head(q) = Pong
<1>1. /\ Len(q) \in Nat /\ Len(q) >= 1 /\ DOMAIN q = 1 .. Len(q) /\ Head(q) = q[1]
      /\ DOMAIN Tail(q) = 1 .. Len(q) - 1
      /\ \A k \in 1 .. Len(q) - 1 : Tail(q)[k] = q[k + 1]
  BY TailAt
<1>2. \A k \in DOMAIN Tail(q) : /\ k + 1 \in DOMAIN q /\ Tail(q)[k] = q[k + 1]
                                /\ k \in Int /\ 1 < k + 1
  BY <1>1
<1>3. 1 \in DOMAIN q BY <1>1
<1>4. ASSUME NEW j \in DOMAIN Tail(q), NEW k \in DOMAIN Tail(q), Closing(Tail(q)[k]), k < j
      PROVE  Tail(q)[j] = Pong
  <2>1. k + 1 < j + 1 BY <1>2, <1>4
  <2> QED BY <1>2, <1>4, <2>1 DEF LastOf
<1>5. Open(q) => Open(Tail(q)) /\ ~Closing(Head(q)) BY <1>1, <1>2, <1>3 DEF Open
<1>6. ASSUME Closing(Head(q)) PROVE Pongs(Tail(q)) /\ ~Open(q)
  <2>1. ASSUME NEW k \in DOMAIN Tail(q) PROVE Tail(q)[k] = Pong
    BY <1>1, <1>2, <1>3, <1>6, <2>1 DEF LastOf
  <2> QED BY <1>5, <1>6, <2>1 DEF Pongs
<1>7. Pongs(q) => Pongs(Tail(q)) /\ Head(q) = Pong BY <1>1, <1>2, <1>3 DEF Pongs
<1> QED BY <1>4, <1>5, <1>6, <1>7 DEF LastOf
-----------------------------------------------------------------------------
(***************************************************************************)
(* Each message in one place, and acked with the peer.                     *)
(***************************************************************************)
Results == {"unused", "queued", "ok", "closed"}

LEMMA LoopNoSend == "loop" \notin Sends /\ "end" \notin Sends
BY ProviderCallsAssumption

\* A send is answered.
LEMMA ApartAnswered ==
  ASSUME NEW c, NEW o, NEW w, NEW p, NEW st \in [Sends -> Results], Apart(c, o, w, p, st),
         NEW s \in Sends, NEW result \in {"ok", "closed"}, result = "ok" => s \in Msgs(p)
  PROVE  Apart(c, o, w, p, [st EXCEPT ![s] = result])
<1> DEFINE new == [st EXCEPT ![s] = result]
<1>1. new[s] = result /\ \A r \in Sends : r # s => new[r] = st[r] OBVIOUS
<1>2. \A r \in Msgs(c) \cup Msgs(o) \cup Msgs(w) \cup Msgs(p) : r \in Sends BY DEF Msgs
<1> HIDE DEF new
<1>3. ASSUME NEW r \in Msgs(c) \cup Msgs(o) \cup Msgs(w) \cup Msgs(p) PROVE new[r] # "unused"
  BY <1>1, <1>2 DEF Apart
<1>4. ASSUME NEW r \in Sends, new[r] = "ok" PROVE r \in Msgs(p)
  BY <1>1, <1>4 DEF Apart
<1>5. Apart(c, o, w, p, new) BY <1>3, <1>4 DEF Apart
<1> QED BY <1>5 DEF new

\* What is buffered is taken, or dropped.
LEMMA ApartTaken ==
  ASSUME NEW c, NEW o, NEW p, NEW st, Apart(c, o, <<>>, p, st)
  PROVE  Apart(c, <<>>, o, p, st) /\ Apart(c, <<>>, <<>>, p, st)
BY NoFrames DEF Apart

LEMMA ApartDropped ==
  ASSUME NEW c, NEW o, NEW w, NEW p, NEW st, Apart(c, o, w, p, st)
  PROVE  Apart(c, o, <<>>, p, st)
BY NoFrames DEF Apart

\* The end of a flush answers the send that waits for it.
LEMMA ResumesSends ==
  ASSUME OutTyped, NEW t \in Tasks, NEW then \in Thens, NEW result \in {"ok", "closed"},
         Resumes(t, then, result), NEW c, NEW o, NEW w, NEW p, Apart(c, o, w, p, sendSt),
         then \in Sends /\ result = "ok" => then \in Msgs(p)
  PROVE  Apart(c, o, w, p, sendSt') /\ at'[t].then \notin Sends
<1>1. sendSt \in [Sends -> Results] BY DEF OutTyped, Results
<1>2. CASE then \in Sends
  <2>1. sendSt' = [sendSt EXCEPT ![then] = result] BY <1>2 DEF Resumes
  <2>2. Apart(c, o, w, p, [sendSt EXCEPT ![then] = result]) BY <1>1, <1>2, ApartAnswered
  <2> QED BY <2>1, <2>2, ResumesTyped, LoopNoSend
<1>3. CASE then \notin Sends
  <2>1. sendSt' = sendSt BY <1>3 DEF Resumes
  <2> QED BY <2>1, ResumesTyped, LoopNoSend
<1> QED BY <1>2, <1>3

\* A flush that has the lock.
LEMMA WritesSends ==
  ASSUME OutTyped, NEW t \in Tasks, NEW then \in Thens, NEW out \in Seq(Frames),
         Writes(t, then, out), writing = <<>>, UNCHANGED <<toPeer, writeDead>>,
         Apart(cmdq', out, <<>>, toPeer, sendSt),
         then \in Sends /\ ~writeDead => then \in Msgs(out) \cup Msgs(toPeer),
         \A u \in Tasks : u # t /\ at[u].then \in Sends =>
           /\ at[u].pc # "write"
           /\ at[u].pc = "lock" /\ ~writeDead => at[u].then \in Msgs(out) \cup Msgs(toPeer)
  PROVE  SendsKept'
<1>1. outbound' = <<>> BY DEF Writes
<1>2. CASE out = <<>> \/ writeDead
  <2> DEFINE result == UnwrittenResult(out)
  <2>1. Resumes(t, then, result) /\ writing' = <<>> BY <1>2 DEF Writes
  <2>2. /\ result \in {"ok", "closed"} /\ (result = "ok" => ~writeDead)
        /\ (~writeDead => Msgs(out) = {})
    BY <1>2, NoFrames DEF UnwrittenResult
  <2> HIDE DEF result
  <2>3. Apart(cmdq', <<>>, <<>>, toPeer, sendSt) BY ApartTaken
  <2>4. then \in Sends /\ result = "ok" => then \in Msgs(toPeer) BY <2>2
  <2>5. Apart(cmdq', <<>>, <<>>, toPeer, sendSt') /\ at'[t].then \notin Sends
    BY <2>1, <2>2, <2>3, <2>4, ResumesSends
  <2>6. \A u \in Tasks : u # t => at'[u] = at[u] BY <2>1, <2>2, ResumesTyped
  <2>7. ASSUME NEW u \in Tasks PROVE Follows(u)'
    BY <2>2, <2>5, <2>6 DEF Follows
  <2> QED BY <1>1, <2>1, <2>5, <2>7 DEF SendsKept
<1>3. CASE ~(out = <<>> \/ writeDead)
  <2>1. /\ at' = [at EXCEPT ![t] = [pc |-> "write", then |-> then]]
        /\ writing' = out /\ sendSt' = sendSt
    BY <1>3 DEF Writes
  <2>2. Apart(cmdq', <<>>, out, toPeer, sendSt) BY ApartTaken
  <2>3. at'[t].pc = "write" /\ at'[t].then = then /\ \A u \in Tasks : u # t => at'[u] = at[u]
    BY <2>1, WaitsTyped
  <2>4. Follows(t)' BY <1>3, <2>1, <2>3 DEF Follows
  <2>5. ASSUME NEW u \in Tasks, u # t PROVE Follows(u)'
    BY <1>3, <2>1, <2>3, <2>5 DEF Follows
  <2> QED BY <1>1, <2>1, <2>2, <2>4, <2>5 DEF SendsKept
<1> QED BY <1>2, <1>3

\* Any flush.
LEMMA FlushesSends ==
  ASSUME OutTyped, LockKept, NEW t \in Tasks, NEW then \in Thens, NEW out \in Seq(Frames),
         Flushes(t, then, out), UNCHANGED <<toPeer, writeDead>>,
         Apart(cmdq', out, writing, toPeer, sendSt), \A u \in Tasks : Follows(u),
         Msgs(outbound) \subseteq Msgs(out),
         then \in Sends => then \in Msgs(out)
  PROVE  SendsKept'
<1>1. CASE writeLock = NoCall
  <2>1. Writes(t, then, out) /\ writing = <<>> /\ Msgs(writing) = {}
    BY <1>1, NoFrames DEF Flushes, LockKept
  <2>2. ASSUME NEW u \in Tasks, at[u].then \in Sends
        PROVE  /\ at[u].pc # "write"
               /\ at[u].pc = "lock" /\ ~writeDead => at[u].then \in Msgs(out) \cup Msgs(toPeer)
    BY <1>1, <2>1, <2>2, TaskNames DEF Follows, LockKept
  <2> QED BY <2>1, <2>2, WritesSends
<1>2. CASE writeLock # NoCall
  <2>1. /\ at' = [at EXCEPT ![t] = [pc |-> "lock", then |-> then]] /\ outbound' = out
        /\ UNCHANGED <<writing, sendSt>>
    BY <1>2 DEF Flushes
  <2>2. at'[t].pc = "lock" /\ at'[t].then = then /\ \A u \in Tasks : u # t => at'[u] = at[u]
    BY <2>1, WaitsTyped
  <2>3. Follows(t)' BY <2>1, <2>2 DEF Follows
  <2>4. ASSUME NEW u \in Tasks, u # t PROVE Follows(u)'
    BY <2>1, <2>2, <2>4 DEF Follows
  <2> QED BY <2>1, <2>3, <2>4 DEF SendsKept
<1> QED BY <1>1, <1>2

\* A frame that is no message is buffered or put as a command.
LEMMA ApartFrame ==
  ASSUME NEW c \in Seq(Frames), NEW o \in Seq(Frames), NEW w, NEW p, NEW st,
         Apart(c, o, w, p, st), NEW f \in Frames, f.kind # "send"
  PROVE  /\ Apart(c, Append(o, f), w, p, st) /\ Msgs(Append(o, f)) = Msgs(o)
         /\ Apart(Append(c, f), o, w, p, st)
<1>1. Carried(f) = {} BY DEF Carried
<1>0. Once(c) /\ Once(o) BY DEF Apart
<1>2. Msgs(Append(o, f)) = Msgs(o) /\ Once(Append(o, f)) BY <1>0, <1>1, MsgsAppend
<1>3. Msgs(Append(c, f)) = Msgs(c) /\ Once(Append(c, f)) BY <1>0, <1>1, MsgsAppend
<1> QED BY <1>2, <1>3 DEF Apart

\* What is owed is no message.
LEMMA ReplyApart ==
  ASSUME reply \in Owed, NEW c \in Seq(Frames), NEW o \in Seq(Frames), NEW w, NEW p, NEW st,
         Apart(c, o, w, p, st)
  PROVE  /\ WithReply(o) \in Seq(Frames) /\ Msgs(WithReply(o)) = Msgs(o)
         /\ Apart(c, WithReply(o), w, p, st)
<1>1. CASE reply = NoReply BY <1>1 DEF WithReply
<1>2. CASE reply # NoReply
  <2>1. WithReply(o) = Append(o, reply) /\ reply \in Frames /\ reply.kind # "send"
    BY <1>2, ReplyKinds DEF WithReply
  <2>2. Apart(c, Append(o, reply), w, p, st) /\ Msgs(Append(o, reply)) = Msgs(o)
    BY <2>1, ApartFrame
  <2> QED BY <2>1, <2>2, WithReplyTyped
<1> QED BY <1>1, <1>2

\* The reader's flush.
LEMMA ReaderFlushSends ==
  ASSUME OutTyped, LockKept, SendsKept, cmdq' = cmdq, UNCHANGED <<toPeer, writeDead>>,
         Flushes("reader", "loop", outbound)
  PROVE  SendsKept'
<1>1. outbound \in Seq(Frames) BY DEF OutTyped
<1>2. "loop" \in Thens /\ \A u \in Tasks : Follows(u) BY DEF Thens, SendsKept
<1>3. Apart(cmdq', outbound, writing, toPeer, sendSt) BY DEF SendsKept
<1> QED BY <1>1, <1>2, <1>3, TaskNames, LoopNoSend, FlushesSends

\* A close that begins.
LEMMA BeginsCloseSends ==
  ASSUME OutTyped, LockKept, NEW t \in Tasks, NEW then \in {"loop", "end"},
         NEW code \in ClientCodes, BeginsClose(t, then, code), cmdq' \in Seq(Frames),
         UNCHANGED <<toPeer, writeDead>>, Apart(cmdq', outbound, writing, toPeer, sendSt),
         \A u \in Tasks : Follows(u)
  PROVE  SendsKept'
<1>0. then \in Thens /\ then \notin Sends BY LoopNoSend DEF Thens
<1>1. CASE wireClosing
  <2>1. Resumes(t, then, "ok") /\ UNCHANGED <<outbound, writing>> BY <1>1 DEF BeginsClose
  <2>2. Apart(cmdq', outbound, writing, toPeer, sendSt') /\ at'[t].then \notin Sends
    BY <1>0, <2>1, ResumesSends
  <2>3. \A u \in Tasks : u # t => at'[u] = at[u] BY <1>0, <2>1, ResumesTyped
  <2>4. ASSUME NEW u \in Tasks PROVE Follows(u)'
    <3>1. CASE u = t BY <2>2, <3>1 DEF Follows
    <3>2. CASE u # t BY <2>1, <2>3, <3>2 DEF Follows
    <3> QED BY <3>1, <3>2
  <2> QED BY <2>1, <2>2, <2>4 DEF SendsKept
<1>2. CASE ~wireClosing
  <2> DEFINE f   == CloseFrame(code)
             out == WithReply(Append(outbound, f))
  <2>1. Flushes(t, then, out) BY <1>2 DEF BeginsClose, SendsFrame
  <2>2. f \in Frames /\ f.kind # "send" /\ outbound \in Seq(Frames)
    BY FrameKinds DEF OutTyped
  <2>3. out \in Seq(Frames) /\ Apart(cmdq', out, writing, toPeer, sendSt)
        /\ Msgs(out) = Msgs(outbound)
    <3> HIDE DEF f
    <3>1. /\ Append(outbound, f) \in Seq(Frames) /\ Msgs(Append(outbound, f)) = Msgs(outbound)
          /\ Apart(cmdq', Append(outbound, f), writing, toPeer, sendSt)
      BY <2>2, AppendAt, ApartFrame
    <3> QED BY <3>1, ReplyApart DEF OutTyped
  <2> HIDE DEF out
  <2> QED BY <1>0, <2>1, <2>3, FlushesSends
<1> QED BY <1>1, <1>2
-----------------------------------------------------------------------------
\* The command task takes a command; a message it takes may be buffered.
LEMMA ApartCommand ==
  ASSUME NEW c \in Seq(Frames), c # <<>>, NEW o \in Seq(Frames), NEW w, NEW p, NEW st,
         Apart(c, o, w, p, st)
  PROVE  /\ Apart(Tail(c), o, w, p, st)
         /\ Head(c).kind = "send" =>
              /\ Head(c).from \in Msgs(Append(o, Head(c))) /\ Msgs(o) \subseteq Msgs(Append(o, Head(c)))
              /\ Apart(Tail(c), Append(o, Head(c)), w, p, st)
<1>0. Once(c) /\ Once(o) /\ Head(c) \in Frames BY TailAt DEF Apart
<1>1. /\ Once(Tail(c)) /\ Carried(Head(c)) \subseteq Msgs(c)
      /\ Msgs(Tail(c)) = Msgs(c) \ Carried(Head(c))
  BY <1>0, MsgsTail
<1>2. Msgs(Append(o, Head(c))) = Msgs(o) \cup Carried(Head(c)) BY <1>0, MsgsAppend
<1>3. Carried(Head(c)) \cap Msgs(o) = {} BY <1>1 DEF Apart
<1>4. Once(Append(o, Head(c))) BY <1>0, <1>3, MsgsAppend
<1>5. Apart(Tail(c), o, w, p, st) BY <1>1 DEF Apart
<1>6. Apart(Tail(c), Append(o, Head(c)), w, p, st) BY <1>1, <1>2, <1>4 DEF Apart
<1>7. Head(c).kind = "send" => Head(c).from \in Carried(Head(c)) BY DEF Carried
<1> QED BY <1>2, <1>5, <1>6, <1>7

\* The transport takes a frame.
WithHead(p, w) == IF Head(w) = Pong THEN p ELSE Append(p, Head(w))

LEMMA ApartHanded ==
  ASSUME NEW c, NEW o, NEW w \in Seq(Frames), w # <<>>, NEW p \in Seq(Frames), NEW st,
         Apart(c, o, w, p, st)
  PROVE  /\ Apart(c, o, Tail(w), WithHead(p, w), st)
         /\ Msgs(w) \cup Msgs(p) = Msgs(Tail(w)) \cup Msgs(WithHead(p, w))
<1> DEFINE q == WithHead(p, w)
<1>0. Once(w) /\ Once(p) /\ Head(w) \in Frames BY TailAt DEF Apart
<1>1. /\ Once(Tail(w)) /\ Carried(Head(w)) \subseteq Msgs(w)
      /\ Msgs(Tail(w)) = Msgs(w) \ Carried(Head(w))
  BY <1>0, MsgsTail
<1>2. Msgs(q) = Msgs(p) \cup Carried(Head(w)) /\ Once(q)
  <2>1. CASE Head(w) = Pong
    <3>1. Carried(Head(w)) = {} BY <2>1, FrameKinds DEF Carried
    <3> QED BY <1>0, <2>1, <3>1 DEF WithHead
  <2>2. CASE Head(w) # Pong
    <3>1. q = Append(p, Head(w)) BY <2>2 DEF WithHead
    <3>2. Carried(Head(w)) \cap Msgs(p) = {} BY <1>1 DEF Apart
    <3> QED BY <1>0, <3>1, <3>2, MsgsAppend
  <2> QED BY <2>1, <2>2
<1>3. Apart(c, o, Tail(w), q, st) BY <1>1, <1>2 DEF Apart
<1> QED BY <1>1, <1>2, <1>3

\* A write that ends.
LEMMA WriteEndsSends ==
  ASSUME OutTyped, LockKept, SendsKept, NEW t \in Tasks, at[t].pc = "write",
         NEW result \in {"ok", "closed"}, WriteEnds(t, result), cmdq' = cmdq,
         Apart(cmdq, outbound, <<>>, toPeer', sendSt),
         IF result = "ok"
           THEN Msgs(writing) \cup Msgs(toPeer) \subseteq Msgs(toPeer') /\ writeDead' = writeDead
           ELSE writeDead'
  PROVE  SendsKept'
<1>1. /\ Resumes(t, at[t].then, result) /\ writing' = <<>> /\ outbound' = outbound
      /\ writeLock = t /\ at[t].then \in Thens
  BY DEF WriteEnds, LockKept, OutTyped, Places, Thens
<1>2. Follows(t) BY DEF SendsKept
<1>3. at[t].then \in Sends /\ result = "ok" => at[t].then \in Msgs(toPeer')
  BY <1>2 DEF Follows
<1>4. Apart(cmdq, outbound, <<>>, toPeer', sendSt') /\ at'[t].then \notin Sends
  BY <1>1, <1>3, ResumesSends
<1>5. \A u \in Tasks : u # t => at'[u] = at[u] BY <1>1, ResumesTyped
<1>6. ASSUME NEW u \in Tasks PROVE Follows(u)'
  <2>1. CASE u = t BY <1>4, <2>1 DEF Follows
  <2>2. CASE u # t
    <3>1. at[u].pc # "write" /\ at'[u] = at[u] BY <1>1, <1>5, <2>2 DEF LockKept
    <3>2. CASE result = "ok"
      <4>1. Follows(u) BY DEF SendsKept
      <4> QED BY <1>1, <3>1, <3>2, <4>1 DEF Follows
    <3>3. CASE result # "ok" BY <3>1, <3>3 DEF Follows
    <3> QED BY <3>2, <3>3
  <2> QED BY <2>1, <2>2
<1> QED BY <1>1, <1>4, <1>6 DEF SendsKept
-----------------------------------------------------------------------------
LEMMA SendsNext == Typed /\ LockKept /\ SendsKept /\ [Next]_vars => SendsKept'
<1> SUFFICES ASSUME Typed, LockKept, SendsKept, [Next]_vars PROVE SendsKept'
  OBVIOUS
<1> USE DEF shared, queue, budget, calls, stream, writes, flags, peerVars, seen
<1>0. /\ OutTyped /\ cmdq \in Seq(Frames) /\ outbound \in Seq(Frames) /\ writing \in Seq(Frames)
      /\ toPeer \in Seq(Frames) /\ sendSt \in [Sends -> Results]
      /\ Apart(cmdq, outbound, writing, toPeer, sendSt) /\ \A t \in Tasks : Follows(t)
  BY DEF Typed, OutTyped, SendsKept, Results
<1>1. ASSUME UNCHANGED <<at, outbound, writing, toPeer, writeDead>>,
             Apart(cmdq', outbound, writing, toPeer, sendSt')
      PROVE  SendsKept'
  BY <1>0, <1>1 DEF SendsKept, Follows
<1>2. ASSUME UNCHANGED <<at, outbound, writing, toPeer, writeDead, cmdq, sendSt>>
      PROVE  SendsKept'
  BY <1>0, <1>1, <1>2
<1>3. ASSUME NEW f \in Frames, f.kind # "send", cmdq' = Append(cmdq, f),
             UNCHANGED <<at, outbound, writing, toPeer, writeDead, sendSt>>
      PROVE  SendsKept'
  BY <1>0, <1>1, <1>3, ApartFrame
<1>4. ASSUME NEW code \in ClientCodes, Closes(code),
             UNCHANGED <<at, outbound, writing, toPeer, writeDead, sendSt>>
      PROVE  SendsKept'
  BY <1>3, <1>4, FrameKinds DEF Closes
<1>5. CASE GuestCalls
  <2>1. ASSUME NEW s \in Sends, Send(s) PROVE SendsKept'
    <3>1. sendSt[s] = "unused" /\ UNCHANGED <<at, outbound, writing, toPeer, writeDead>>
      BY <2>1 DEF Send
    <3>2. CASE localClosed
      <4>1. sendSt' = [sendSt EXCEPT ![s] = "closed"] /\ cmdq' = cmdq BY <2>1, <3>2 DEF Send
      <4>2. Apart(cmdq, outbound, writing, toPeer, [sendSt EXCEPT ![s] = "closed"])
        BY <1>0, ApartAnswered
      <4> QED BY <1>1, <3>1, <4>1, <4>2
    <3>3. CASE ~localClosed
      <4>1. sendSt' = [sendSt EXCEPT ![s] = "queued"] /\ cmdq' = Append(cmdq, DataFrame(s))
        BY <2>1, <3>3 DEF Send
      <4>2. Carried(DataFrame(s)) = {s} /\ DataFrame(s) \in Frames BY FrameKinds DEF Carried
      <4>3. s \notin Msgs(cmdq) \cup Msgs(outbound) \cup Msgs(writing) \cup Msgs(toPeer)
        BY <1>0, <3>1 DEF Apart
      <4>4. Once(cmdq) BY <1>0 DEF Apart
      <4>5. Msgs(cmdq') = Msgs(cmdq) \cup {s} /\ Once(cmdq')
        BY <1>0, <4>1, <4>2, <4>3, <4>4, MsgsAppend
      <4>6. sendSt'[s] = "queued" /\ \A r \in Sends : r # s => sendSt'[r] = sendSt[r]
        BY <1>0, <4>1
      <4>7. \A r \in Msgs(cmdq) \cup Msgs(outbound) \cup Msgs(writing) \cup Msgs(toPeer) : r \in Sends
        BY DEF Msgs
      <4>8. ASSUME NEW r \in Msgs(cmdq') \cup Msgs(outbound) \cup Msgs(writing) \cup Msgs(toPeer)
            PROVE  sendSt'[r] # "unused"
        BY <1>0, <4>5, <4>6, <4>7 DEF Apart
      <4>9. ASSUME NEW r \in Sends, sendSt'[r] = "ok" PROVE r \in Msgs(toPeer)
        BY <1>0, <4>6, <4>9 DEF Apart
      <4>10. Apart(cmdq', outbound, writing, toPeer, sendSt')
        BY <1>0, <4>3, <4>5, <4>8, <4>9 DEF Apart
      <4> QED BY <1>1, <3>1, <4>10
    <3> QED BY <3>2, <3>3
  <2>2. ASSUME NEW req \in CloseRequests, Close(req) PROVE SendsKept'
    BY <1>4, <2>2, ClosableCodes DEF Close
  <2>3. ASSUME NEW r \in Receives, Receive(r) PROVE SendsKept' BY <1>2, <2>3 DEF Receive
  <2>4. CASE Drop
    <3>1. CASE localClosed BY <1>2, <2>4, <3>1 DEF Drop
    <3>2. CASE ~localClosed BY <1>4, <2>4, <3>2, FrameKinds DEF Drop
    <3> QED BY <3>1, <3>2
  <2>5. CASE ReceiveViaStream BY <1>3, <2>5, FrameKinds DEF ReceiveViaStream
  <2>6. CASE StreamDropped \/ WaitClosed BY <1>2, <2>6 DEF StreamDropped, WaitClosed
  <2>7. CASE ElementRead \/ PayloadRead \/ ReaderGone
    BY <1>2, <2>7 DEF ElementRead, PayloadRead, ReaderGone, FeederOnly
  <2> QED BY <1>5, <2>1, <2>2, <2>3, <2>4, <2>5, <2>6, <2>7 DEF GuestCalls
<1>6. CASE FeederStep
  BY <1>2, <1>6 DEF FeederStep, FeederLocks, FeederTakes, FeederEnds, ReaderGone, FeederOnly
<1>7. ASSUME NEW r \in Receives, ReceivePoll(r) PROVE SendsKept'
  BY <1>2, <1>7 DEF ReceivePoll, ReceiveLocks, ReceiveSignalled, ReceiveTakes, ReceiveEnds
<1>8. ASSUME NEW kind, CmdReady(kind)
      PROVE  /\ Head(cmdq) \in Frames /\ Head(cmdq).kind = kind /\ cmdq' = Tail(cmdq)
             /\ cmdq' \in Seq(Frames) /\ Apart(cmdq', outbound, writing, toPeer, sendSt)
             /\ kind = "send" =>
                  /\ Head(cmdq).from \in Msgs(Append(outbound, Head(cmdq)))
                  /\ Msgs(outbound) \subseteq Msgs(Append(outbound, Head(cmdq)))
                  /\ Apart(cmdq', Append(outbound, Head(cmdq)), writing, toPeer, sendSt)
  <2>1. cmdq # <<>> /\ Head(cmdq).kind = kind /\ cmdq' = Tail(cmdq) BY <1>8 DEF CmdReady
  <2>2. Head(cmdq) \in Frames /\ cmdq' \in Seq(Frames) BY <1>0, <2>1, TailAt
  <2> QED BY <1>0, <2>1, <2>2, ApartCommand
<1>9. CASE CmdSend
  <2>1. CmdReady("send") /\ UNCHANGED <<toPeer, writeDead>> BY <1>9 DEF CmdSend
  <2>2. Head(cmdq) \in Frames /\ Head(cmdq).from \in Sends BY <1>8, <2>1, FrameKinds
  <2>3. CASE Refused
    <3>1. /\ sendSt' = [sendSt EXCEPT ![Head(cmdq).from] = "closed"]
          /\ UNCHANGED <<at, outbound, writing>>
      BY <1>9, <2>3 DEF CmdSend
    <3>2. Apart(cmdq', outbound, writing, toPeer, sendSt) BY <1>8, <2>1
    <3>3. Apart(cmdq', outbound, writing, toPeer, [sendSt EXCEPT ![Head(cmdq).from] = "closed"])
      BY <1>0, <2>2, <3>2, ApartAnswered
    <3> QED BY <1>1, <2>1, <3>1, <3>3
  <2>4. CASE ~Refused
    <3> DEFINE own == Append(outbound, Head(cmdq))
               out == WithReply(own)
    <3>1. Flushes("cmd", Head(cmdq).from, out) BY <1>9, <2>4 DEF CmdSend, SendsFrame
    <3>2. own \in Seq(Frames) /\ Head(cmdq).from \in Thens BY <1>0, <2>2, AppendAt DEF Thens
    <3>3. /\ Head(cmdq).from \in Msgs(own) /\ Msgs(outbound) \subseteq Msgs(own)
          /\ Apart(cmdq', own, writing, toPeer, sendSt) /\ cmdq' \in Seq(Frames)
      BY <1>8, <2>1
    <3> HIDE DEF own
    <3>4. /\ out \in Seq(Frames) /\ Msgs(out) = Msgs(own)
          /\ Apart(cmdq', out, writing, toPeer, sendSt)
      BY <1>0, <3>2, <3>3, ReplyApart DEF OutTyped
    <3> HIDE DEF out
    <3> QED BY <1>0, <2>1, <3>1, <3>2, <3>3, <3>4, TaskNames, FlushesSends
  <2> QED BY <2>3, <2>4
<1>10. CASE CmdClose
  <2>1. CmdReady("close") /\ UNCHANGED <<toPeer, writeDead>> BY <1>10 DEF CmdClose
  <2>2. Head(cmdq).code \in ClientCodes BY <1>8, <2>1, FrameKinds
  <2>3. cmdq' \in Seq(Frames) /\ Apart(cmdq', outbound, writing, toPeer, sendSt)
    BY <1>8, <2>1
  <2>4. CASE closed
    <3>1. UNCHANGED <<at, outbound, writing, sendSt>> BY <1>10, <2>4 DEF CmdClose
    <3> QED BY <1>1, <2>1, <2>3, <3>1
  <2>5. CASE ~closed
    <3>1. BeginsClose("cmd", "loop", Head(cmdq).code) BY <1>10, <2>5 DEF CmdClose
    <3> QED BY <1>0, <2>1, <2>2, <2>3, <3>1, TaskNames, BeginsCloseSends
  <2> QED BY <2>4, <2>5
<1>11. CASE CmdClaim
  <2>1. CmdReady("claim") /\ UNCHANGED <<at, outbound, writing, toPeer, writeDead, sendSt>>
    BY <1>11 DEF CmdClaim
  <2>2. Apart(cmdq', outbound, writing, toPeer, sendSt) BY <1>8, <2>1
  <2> QED BY <1>1, <2>1, <2>2
<1>12. ASSUME NEW t \in Tasks, Locks(t) PROVE SendsKept'
  <2>1. /\ at[t].pc = "lock" /\ writeLock = NoCall /\ Writes(t, at[t].then, outbound)
        /\ UNCHANGED <<cmdq, toPeer, writeDead>>
    BY <1>12 DEF Locks
  <2>2. writing = <<>> /\ Msgs(writing) = {} /\ at[t].then \in Thens
    BY <1>0, <2>1, NoFrames DEF LockKept, OutTyped, Places, Thens
  <2>3. ASSUME NEW u \in Tasks, at[u].then \in Sends
        PROVE  /\ at[u].pc # "write"
               /\ at[u].pc = "lock" /\ ~writeDead => at[u].then \in Msgs(outbound) \cup Msgs(toPeer)
    BY <1>0, <2>1, <2>2, <2>3, TaskNames DEF Follows, LockKept
  <2>4. Apart(cmdq', outbound, <<>>, toPeer, sendSt) BY <1>0, <2>1, <2>2
  <2> QED BY <1>0, <2>1, <2>2, <2>3, <2>4, WritesSends
<1>13. ASSUME NEW t \in Tasks, at[t].pc = "write", Handed(Head(writing))
       PROVE  /\ Apart(cmdq, outbound, Tail(writing), toPeer', sendSt)
              /\ Msgs(writing) \cup Msgs(toPeer) = Msgs(Tail(writing)) \cup Msgs(toPeer')
              /\ Tail(writing) \in Seq(Frames) /\ Len(Tail(writing)) = Len(writing) - 1
  <2>1. writing # <<>> BY <1>13, TaskNames DEF LockKept
  <2>2. toPeer' = WithHead(toPeer, writing) BY <1>13 DEF Handed, WithHead
  <2>3. Tail(writing) \in Seq(Frames) /\ Len(Tail(writing)) = Len(writing) - 1
    BY <1>0, <2>1, TailAt
  <2>4. /\ Apart(cmdq, outbound, writing, toPeer, sendSt)
        /\ writing \in Seq(Frames) /\ toPeer \in Seq(Frames)
    BY <1>0
  <2>5. /\ Apart(cmdq, outbound, Tail(writing), WithHead(toPeer, writing), sendSt)
        /\ Msgs(writing) \cup Msgs(toPeer) = Msgs(Tail(writing)) \cup Msgs(WithHead(toPeer, writing))
    <3>1. Apart(cmdq, outbound, Tail(writing), WithHead(toPeer, writing), sendSt)
      BY <2>1, <2>4, ApartHanded
    <3> QED BY <2>1, <2>4, <3>1, ApartHanded
  <2> QED BY <2>2, <2>3, <2>5
<1>14. ASSUME NEW t \in Tasks, WriteTakes(t) PROVE SendsKept'
  <2>1. at[t].pc = "write" /\ Handed(Head(writing)) /\ UNCHANGED <<cmdq, writeDead>>
    BY <1>14 DEF WriteTakes, WriteOnly
  <2>2. CASE Len(writing) = 1
    <3>1. Tail(writing) = <<>>
      <4>1. Len(Tail(writing)) = 0 BY <1>13, <2>1, <2>2
      <4> QED BY <1>13, <2>1, <4>1, NoLength
    <3>2. WriteEnds(t, "ok") BY <1>14, <2>2 DEF WriteTakes
    <3>3. Apart(cmdq, outbound, <<>>, toPeer', sendSt)
          /\ Msgs(writing) \cup Msgs(toPeer) \subseteq Msgs(toPeer')
      BY <1>13, <2>1, <3>1, NoFrames
    <3> QED BY <1>0, <2>1, <3>2, <3>3, WriteEndsSends
  <2>3. CASE Len(writing) # 1
    <3>1. writing' = Tail(writing) /\ UNCHANGED <<at, outbound, sendSt>>
      BY <1>14, <2>3 DEF WriteTakes
    <3>2. /\ Apart(cmdq', outbound', writing', toPeer', sendSt')
          /\ Msgs(writing) \cup Msgs(toPeer) = Msgs(writing') \cup Msgs(toPeer')
      BY <1>13, <2>1, <3>1
    <3>3. ASSUME NEW u \in Tasks PROVE Follows(u)'
      BY <1>0, <2>1, <3>1, <3>2 DEF Follows
    <3> QED BY <3>2, <3>3 DEF SendsKept
  <2> QED BY <2>2, <2>3
<1>15. ASSUME NEW t \in Tasks, WriteFails(t) PROVE SendsKept'
  <2>1. at[t].pc = "write" /\ WriteEnds(t, "closed") /\ UNCHANGED <<cmdq, toPeer>> /\ writeDead'
    BY <1>15 DEF WriteFails, WriteOnly
  <2>2. Apart(cmdq, outbound, <<>>, toPeer', sendSt) BY <1>0, <2>1, ApartDropped
  <2> QED BY <1>0, <2>1, <2>2, WriteEndsSends
<1>16. ASSUME NEW t \in Tasks, WriteTimesOut(t) PROVE SendsKept'
  <2>1. /\ at[t].pc = "write" /\ WriteEnds(t, "closed") /\ cmdq' = cmdq /\ writeDead'
        /\ UNCHANGED toPeer \/ Handed(Head(writing))
    BY <1>16 DEF WriteTimesOut, WriteOnly
  <2>2. Apart(cmdq, outbound, <<>>, toPeer', sendSt)
    <3>1. CASE UNCHANGED toPeer BY <1>0, <3>1, ApartDropped
    <3>2. CASE Handed(Head(writing)) BY <1>13, <2>1, <3>2, ApartDropped
    <3> QED BY <2>1, <3>1, <3>2
  <2> QED BY <1>0, <2>1, <2>2, WriteEndsSends
<1>17. ASSUME NEW t \in Tasks, WriteSeesLocalClose(t) PROVE SendsKept'
  BY <1>2, <1>17 DEF WriteSeesLocalClose, WriteOnly
<1>18. ASSUME NEW then \in {"loop", "end"}, BeginsClose("reader", then, NoCode),
              UNCHANGED <<cmdq, toPeer, writeDead>>
       PROVE  SendsKept'
  <2>1. cmdq' \in Seq(Frames) /\ Apart(cmdq', outbound, writing, toPeer, sendSt)
    BY <1>0, <1>18
  <2> QED BY <1>0, <1>18, <2>1, TaskNames, FrameKinds, BeginsCloseSends
<1>19. CASE ReaderData
  <2>1. UNCHANGED <<cmdq, toPeer, writeDead>> BY <1>19 DEF ReaderData, Reads
  <2>2. CASE UNCHANGED <<sendSt, writes>> BY <1>2, <2>1, <2>2
  <2>3. CASE Overflows BY <1>18, <2>1, <2>3 DEF Overflows
  <2> QED BY <1>19, <2>2, <2>3 DEF ReaderData
<1>20. CASE ReaderPing
  <2>1. UNCHANGED <<cmdq, toPeer, writeDead>> /\ Flushes("reader", "loop", outbound)
    BY <1>20 DEF ReaderPing, Reads
  <2> QED BY <1>0, <2>1, ReaderFlushSends
<1>21. CASE ReaderPeerClose
  <2>1. UNCHANGED <<cmdq, toPeer, writeDead>> /\ Flushes("reader", "loop", outbound)
    BY <1>21 DEF ReaderPeerClose, Reads
  <2> QED BY <1>0, <2>1, ReaderFlushSends
<1>22. CASE ReaderCapacity BY <1>18, <1>22 DEF ReaderCapacity, Reads
<1>23. CASE ReaderReads BY <1>2, <1>23 DEF ReaderReads
<1>24. CASE ReaderEnds
  <2> DEFINE place == [pc |-> "done", then |-> "loop"]
  <2>1. /\ at' = [at EXCEPT !["reader"] = place]
        /\ UNCHANGED <<cmdq, sendSt, toPeer, outbound, writing, writeDead>>
    BY <1>24 DEF ReaderEnds
  <2>2. place.then \notin Sends BY LoopNoSend
  <2> HIDE DEF place
  <2>3. at'["reader"] = place /\ \A u \in Tasks : u # "reader" => at'[u] = at[u]
    BY <1>0, <2>1, TaskNames DEF OutTyped
  <2>4. ASSUME NEW u \in Tasks PROVE Follows(u)'
    BY <1>0, <2>1, <2>2, <2>3 DEF Follows
  <2> QED BY <1>0, <2>1, <2>4 DEF SendsKept
<1>25. CASE PeerStep
  BY <1>2, <1>25 DEF PeerStep, PeerData, PeerPing, PeerBreaks, PeerClose, TransportEnds, PeerOnly
<1>26. CASE DeadlineExpires BY <1>2, <1>26 DEF DeadlineExpires
<1>27. CASE UNCHANGED vars BY <1>2, <1>27 DEF vars
<1>28. CASE ReaderWritesReply
  <2>1. /\ outbound' = WithReply(outbound)
        /\ UNCHANGED <<cmdq, writing, toPeer, sendSt, at, writeDead>>
    BY <1>28 DEF ReaderWritesReply
  <2>2. Apart(cmdq, WithReply(outbound), writing, toPeer, sendSt)
        /\ Msgs(WithReply(outbound)) = Msgs(outbound)
    BY <1>0, ReplyApart DEF OutTyped
  <2>3. ASSUME NEW u \in Tasks PROVE Follows(u)' BY <1>0, <2>1, <2>2 DEF Follows
  <2> QED BY <2>1, <2>2, <2>3 DEF SendsKept
<1> QED
  BY <1>5, <1>6, <1>7, <1>9, <1>10, <1>11, <1>12, <1>14, <1>15, <1>16, <1>17, <1>19, <1>20,
     <1>21, <1>22, <1>23, <1>24, <1>25, <1>26, <1>27, <1>28
     DEF Next, CmdStep, ReaderStep, FlushStep, TransportStep, Tasks
-----------------------------------------------------------------------------
(***************************************************************************)
(* The close frame is the last of all.                                     *)
(***************************************************************************)
LEMMA FinalTaken ==
  ASSUME NEW o, NEW p, NEW c, FinalFrame(o, <<>>, p, c)
  PROVE  FinalFrame(<<>>, o, p, c) /\ FinalFrame(<<>>, <<>>, p, c)
BY NoFrames DEF FinalFrame

LEMMA FinalDropped ==
  ASSUME NEW o, NEW w, NEW p, NEW c, FinalFrame(o, w, p, c)
  PROVE  FinalFrame(o, <<>>, p, c)
BY NoFrames DEF FinalFrame

\* Before a close frame is written, any frame may be.
LEMMA FinalBuffered ==
  ASSUME NEW o \in Seq(Frames), NEW w, NEW p, NEW b, FinalFrame(o, w, p, b), ~b,
         NEW f \in Frames, NEW c, Closing(f) => c
  PROVE  FinalFrame(Append(o, f), w, p, c)
<1>1. Open(o) /\ Open(w) /\ Open(p) /\ LastOf(w) /\ LastOf(p) /\ NoPong(p) BY DEF FinalFrame
<1>2. LastOf(Append(o, f)) /\ (~Closing(f) => Open(Append(o, f))) BY <1>1, LastAppend
<1> QED BY <1>1, <1>2 DEF FinalFrame

\* A pong may be written at any time.
LEMMA FinalPong ==
  ASSUME NEW o \in Seq(Frames), NEW w, NEW p, NEW c, FinalFrame(o, w, p, c)
  PROVE  FinalFrame(Append(o, Pong), w, p, c)
<1>1. Pong \in Frames /\ ~Closing(Pong) BY FrameKinds DEF Closing
<1>2. LastOf(Append(o, Pong)) /\ (Pongs(o) => Pongs(Append(o, Pong)))
      /\ (Open(o) => Open(Append(o, Pong)))
  BY <1>1, LastAppend DEF FinalFrame
<1> QED BY <1>2 DEF FinalFrame

LEMMA FinalHanded ==
  ASSUME NEW o, NEW w \in Seq(Frames), w # <<>>, NEW p \in Seq(Frames), NEW c,
         FinalFrame(o, w, p, c)
  PROVE  FinalFrame(o, Tail(w), WithHead(p, w), c)
<1>1. LastOf(w) /\ LastOf(p) /\ LastOf(o) /\ NoPong(p) /\ Head(w) \in Frames
  BY TailAt DEF FinalFrame
<1>2. /\ LastOf(Tail(w)) /\ (Open(w) => Open(Tail(w)) /\ ~Closing(Head(w)))
      /\ Closing(Head(w)) => Pongs(Tail(w)) /\ ~Open(w)
      /\ Pongs(w) => Pongs(Tail(w)) /\ Head(w) = Pong
  BY <1>1, LastTail
<1>3. /\ ~Open(p) => Pongs(w) /\ Pongs(o)
      /\ ~Open(w) => Pongs(o)
      /\ ~c => Open(o) /\ Open(w) /\ Open(p)
  BY DEF FinalFrame
<1>4. CASE Head(w) = Pong
  <2>1. WithHead(p, w) = p BY <1>4 DEF WithHead
  <2>2. FinalFrame(o, Tail(w), p, c) BY <1>1, <1>2, <1>3 DEF FinalFrame
  <2> QED BY <2>1, <2>2
<1>5. CASE Head(w) # Pong
  <2> DEFINE q == Append(p, Head(w))
  <2>1. WithHead(p, w) = q BY <1>5 DEF WithHead
  <2>2. LastOf(q) /\ NoPong(q) /\ (~Closing(Head(w)) => Open(q)) BY <1>1, <1>2, <1>3, <1>5, LastAppend
  <2> HIDE DEF q
  <2>3. FinalFrame(o, Tail(w), q, c) BY <1>1, <1>2, <1>3, <2>2 DEF FinalFrame
  <2> QED BY <2>1, <2>3
<1> QED BY <1>4, <1>5

LEMMA FlushesClose ==
  ASSUME LockKept, NEW t, NEW then, NEW out, Flushes(t, then, out), toPeer' = toPeer,
         NEW c, FinalFrame(out, writing, toPeer, c), c => CloseWritten',
         reply' = CloseReply => wireClosing'
  PROVE  CloseKept'
<1>0. FinalFrame(out, writing, toPeer, CloseWritten') BY DEF FinalFrame
<1>1. CASE writeLock = NoCall
  <2>1. Writes(t, then, out) /\ writing = <<>> BY <1>1 DEF Flushes, LockKept
  <2>2. outbound' = <<>> /\ (writing' = <<>> \/ writing' = out) BY <2>1 DEF Writes
  <2>3. /\ FinalFrame(<<>>, out, toPeer, CloseWritten')
        /\ FinalFrame(<<>>, <<>>, toPeer, CloseWritten')
    BY <1>0, <2>1, FinalTaken
  <2> QED BY <2>2, <2>3 DEF CloseKept
<1>2. CASE writeLock # NoCall
  <2>1. outbound' = out /\ writing' = writing BY <1>2 DEF Flushes
  <2> QED BY <1>0, <2>1 DEF CloseKept
<1> QED BY <1>1, <1>2

\* A frame of our own is written before anything closes, with a pong behind it
\* that may be owed.
LEMMA SendsFrameFinal ==
  ASSUME OutTyped, LockKept, CloseKept, ~wireClosing, NEW t, NEW then, NEW f \in Frames,
         SendsFrame(t, then, f), toPeer' = toPeer, Closing(f) => wireClosing'
  PROVE  CloseKept'
<1>1. outbound \in Seq(Frames) /\ reply \in Owed /\ reply # CloseReply
  BY DEF OutTyped, CloseKept
<1>2. ~CloseWritten /\ FinalFrame(outbound, writing, toPeer, CloseWritten)
  BY DEF CloseWritten, CloseKept
<1>3. FinalFrame(Append(outbound, f), writing, toPeer, Closing(f)) BY <1>1, <1>2, FinalBuffered
<1>4. Append(outbound, f) \in Seq(Frames) BY <1>1, AppendAt
<1> DEFINE out == WithReply(Append(outbound, f))
<1>5. FinalFrame(out, writing, toPeer, Closing(f))
  <2>1. CASE reply = NoReply BY <1>3, <2>1 DEF WithReply
  <2>2. CASE reply = Pong
    <3>1. out = Append(Append(outbound, f), Pong) BY <1>1, <2>2, ReplyKinds DEF WithReply
    <3> QED BY <1>3, <1>4, <3>1, FinalPong
  <2> QED BY <1>1, <2>1, <2>2 DEF Owed
<1>6. Flushes(t, then, out) /\ reply' = NoReply BY DEF SendsFrame
<1> HIDE DEF out
<1>7. reply' # CloseReply BY <1>1, <1>6, ReplyKinds
<1>8. Closing(f) => CloseWritten' BY <1>7 DEF CloseWritten
<1> QED BY <1>5, <1>6, <1>7, <1>8, FlushesClose

LEMMA BeginsCloseFinal ==
  ASSUME OutTyped, LockKept, CloseKept, wireClosing \in BOOLEAN, NEW t, NEW then,
         NEW code \in ClientCodes, BeginsClose(t, then, code), toPeer' = toPeer
  PROVE  CloseKept'
<1>1. CASE wireClosing
  <2>1. UNCHANGED <<wireClosing, outbound, reply, writing>> BY <1>1 DEF BeginsClose
  <2> QED BY <2>1 DEF CloseKept, CloseWritten
<1>2. CASE ~wireClosing
  <2>1. wireClosing' = TRUE /\ SendsFrame(t, then, CloseFrame(code)) BY <1>2 DEF BeginsClose
  <2> QED BY <1>2, <2>1, FrameKinds, SendsFrameFinal
<1> QED BY <1>1, <1>2

LEMMA CloseNext == Typed /\ LockKept /\ CloseKept /\ [Next]_vars => CloseKept'
<1> SUFFICES ASSUME Typed, LockKept, CloseKept, [Next]_vars PROVE CloseKept'
  OBVIOUS
<1> USE DEF shared, queue, budget, calls, stream, writes, flags, peerVars, seen
<1>0. /\ OutTyped /\ wireClosing \in BOOLEAN /\ outbound \in Seq(Frames)
      /\ writing \in Seq(Frames) /\ toPeer \in Seq(Frames)
      /\ FinalFrame(outbound, writing, toPeer, CloseWritten)
      /\ reply = CloseReply => wireClosing
      /\ reply \in Owed
  BY DEF Typed, FlagsTyped, OutTyped, CloseKept
<1>1. ASSUME UNCHANGED <<outbound, reply, writing, toPeer, wireClosing>> PROVE CloseKept'
  BY <1>1 DEF CloseKept, CloseWritten
<1>2. ASSUME NEW f \in {Pong, CloseReply}, Owes(f), reply = NoReply, toPeer' = toPeer,
             Flushes("reader", "loop", outbound),
             wireClosing' = wireClosing \/ (wireClosing' /\ f = CloseReply),
             f = CloseReply => wireClosing'
      PROVE  CloseKept'
  <2>1. NoReply # Pong /\ NoReply # CloseReply /\ Pong # CloseReply BY <1>0, ReplyKinds
  <2>2. CloseWritten => CloseWritten' BY <1>2, <2>1 DEF CloseWritten, Owes
  <2>3. reply' = CloseReply => wireClosing' BY <1>2, <2>1 DEF Owes
  <2> QED BY <1>0, <1>2, <2>2, <2>3, FlushesClose
<1>3. CASE GuestCalls
  BY <1>1, <1>3 DEF GuestCalls, Send, Close, Receive, Drop, ReceiveViaStream, StreamDropped,
     WaitClosed, ElementRead, PayloadRead, ReaderGone, FeederOnly
<1>4. CASE FeederStep
  BY <1>1, <1>4 DEF FeederStep, FeederLocks, FeederTakes, FeederEnds, ReaderGone, FeederOnly
<1>5. ASSUME NEW r \in Receives, ReceivePoll(r) PROVE CloseKept'
  BY <1>1, <1>5 DEF ReceivePoll, ReceiveLocks, ReceiveSignalled, ReceiveTakes, ReceiveEnds
<1>6. ASSUME NEW kind, CmdReady(kind) PROVE Head(cmdq) \in Frames /\ Head(cmdq).kind = kind
  BY <1>6, TailAt DEF CmdReady, Typed, OutTyped
<1>7. CASE CmdSend
  <2>1. CmdReady("send") /\ UNCHANGED <<toPeer, wireClosing>> BY <1>7 DEF CmdSend
  <2>2. Head(cmdq) \in Frames /\ Head(cmdq).kind = "send" BY <1>6, <2>1
  <2>3. CASE Refused BY <1>1, <1>7, <2>1, <2>3 DEF CmdSend
  <2>4. CASE ~Refused
    <3>1. SendsFrame("cmd", Head(cmdq).from, Head(cmdq)) /\ ~wireClosing
      BY <1>7, <2>4 DEF CmdSend, Refused
    <3>2. ~Closing(Head(cmdq)) BY <2>2 DEF Closing
    <3> QED BY <1>0, <2>1, <2>2, <3>1, <3>2, SendsFrameFinal
  <2> QED BY <2>3, <2>4
<1>8. CASE CmdClose
  <2>1. CmdReady("close") /\ toPeer' = toPeer BY <1>8 DEF CmdClose
  <2>2. Head(cmdq).code \in ClientCodes BY <1>6, <2>1, FrameKinds
  <2>3. CASE closed BY <1>1, <1>8, <2>1, <2>3 DEF CmdClose
  <2>4. CASE ~closed
    <3>1. BeginsClose("cmd", "loop", Head(cmdq).code) BY <1>8, <2>4 DEF CmdClose
    <3> QED BY <1>0, <2>1, <2>2, <3>1, BeginsCloseFinal
  <2> QED BY <2>3, <2>4
<1>9. CASE CmdClaim BY <1>1, <1>9 DEF CmdClaim
<1>10. ASSUME NEW t \in Tasks, Locks(t) PROVE CloseKept'
  <2>1. /\ writeLock = NoCall /\ Writes(t, at[t].then, outbound)
        /\ UNCHANGED <<toPeer, wireClosing, reply>>
    BY <1>10 DEF Locks
  <2>2. Flushes(t, at[t].then, outbound) BY <2>1 DEF Flushes
  <2>3. CloseWritten => CloseWritten' BY <2>1 DEF CloseWritten
  <2> QED BY <1>0, <2>1, <2>2, <2>3, FlushesClose
<1>11. ASSUME NEW t \in Tasks, at[t].pc = "write", Handed(Head(writing))
       PROVE  /\ FinalFrame(outbound, Tail(writing), toPeer', CloseWritten)
              /\ FinalFrame(outbound, <<>>, toPeer', CloseWritten)
  <2>1. writing # <<>> BY <1>11, TaskNames DEF LockKept
  <2>2. toPeer' = WithHead(toPeer, writing) BY <1>11 DEF Handed, WithHead
  <2>3. FinalFrame(outbound, Tail(writing), WithHead(toPeer, writing), CloseWritten)
    BY <1>0, <2>1, FinalHanded
  <2> QED BY <2>2, <2>3, FinalDropped
<1>12. ASSUME NEW t \in Tasks, WriteTakes(t) PROVE CloseKept'
  <2>1. at[t].pc = "write" /\ Handed(Head(writing)) /\ UNCHANGED <<outbound, reply, wireClosing>>
    BY <1>12 DEF WriteTakes, WriteEnds, WriteOnly
  <2>2. writing' = <<>> \/ writing' = Tail(writing) BY <1>12 DEF WriteTakes, WriteEnds
  <2> QED BY <1>0, <1>11, <2>1, <2>2 DEF CloseKept, CloseWritten
<1>13. ASSUME NEW t \in Tasks, WriteFails(t) \/ WriteTimesOut(t) PROVE CloseKept'
  <2>1. /\ at[t].pc = "write" /\ writing' = <<>> /\ UNCHANGED <<outbound, reply, wireClosing>>
        /\ UNCHANGED toPeer \/ Handed(Head(writing))
    BY <1>13 DEF WriteFails, WriteTimesOut, WriteEnds, WriteOnly
  <2>2. CASE UNCHANGED toPeer
    <3>1. FinalFrame(outbound, <<>>, toPeer, CloseWritten) BY <1>0, FinalDropped
    <3> QED BY <1>0, <2>1, <2>2, <3>1 DEF CloseKept, CloseWritten
  <2>3. CASE Handed(Head(writing)) BY <1>0, <1>11, <2>1, <2>3 DEF CloseKept, CloseWritten
  <2> QED BY <2>1, <2>2, <2>3
<1>14. ASSUME NEW t \in Tasks, WriteSeesLocalClose(t) PROVE CloseKept'
  BY <1>1, <1>14 DEF WriteSeesLocalClose, WriteOnly
<1>15. CASE ReaderData
  <2>1. toPeer' = toPeer BY <1>15 DEF ReaderData, Reads
  <2>2. CASE UNCHANGED <<wireClosing, writes>> BY <1>1, <2>1, <2>2
  <2>3. CASE Overflows BY <1>0, <2>1, <2>3, FrameKinds, BeginsCloseFinal DEF Overflows
  <2> QED BY <1>15, <2>2, <2>3 DEF ReaderData
<1>16. CASE ReaderWritesReply
  <2>1. /\ outbound' = WithReply(outbound) /\ reply # NoReply /\ reply' = NoReply
        /\ UNCHANGED <<writing, toPeer, wireClosing>>
    BY <1>16 DEF ReaderWritesReply
  <2>2. outbound' = Append(outbound, reply) BY <2>1 DEF WithReply
  <2>3. reply' # CloseReply /\ Pong # CloseReply BY <1>0, <2>1, ReplyKinds
  <2>4. CloseWritten' <=> wireClosing BY <2>1, <2>3 DEF CloseWritten
  <2>5. CASE reply = Pong
    <3>1. FinalFrame(Append(outbound, Pong), writing, toPeer, CloseWritten) BY <1>0, FinalPong
    <3>2. CloseWritten <=> CloseWritten' BY <2>3, <2>4, <2>5 DEF CloseWritten
    <3>3. FinalFrame(outbound', writing', toPeer', CloseWritten')
      BY <2>1, <2>2, <2>5, <3>1, <3>2 DEF FinalFrame
    <3> QED BY <2>3, <3>3 DEF CloseKept
  <2>6. CASE reply = CloseReply
    <3>1. ~CloseWritten /\ CloseWritten' /\ CloseReply \in Frames
      BY <1>0, <2>4, <2>6, FrameKinds DEF CloseWritten
    <3>2. FinalFrame(Append(outbound, CloseReply), writing, toPeer, TRUE)
      <4>1. FinalFrame(outbound, writing, toPeer, FALSE) BY <1>0, <3>1 DEF FinalFrame
      <4>2. Closing(CloseReply) => TRUE OBVIOUS
      <4> QED BY <1>0, <3>1, <4>1, <4>2, FinalBuffered
    <3>3. FinalFrame(outbound', writing', toPeer', CloseWritten')
      BY <2>1, <2>2, <2>6, <3>1, <3>2 DEF FinalFrame
    <3> QED BY <2>3, <3>3 DEF CloseKept
  <2> QED BY <1>0, <2>1, <2>5, <2>6 DEF Owed
<1>17. CASE ReaderPing
  <2>1. /\ Owes(Pong) /\ Flushes("reader", "loop", outbound) /\ reply = NoReply
        /\ UNCHANGED <<toPeer, wireClosing>>
    BY <1>17 DEF ReaderPing, Reads, ReadsOn
  <2>2. Pong # CloseReply BY <1>0, ReplyKinds
  <2> QED BY <1>2, <2>1, <2>2
<1>18. CASE ReaderPeerClose
  <2>1. /\ Owes(CloseReply) /\ Flushes("reader", "loop", outbound) /\ reply = NoReply
        /\ toPeer' = toPeer /\ wireClosing' = TRUE
    BY <1>18 DEF ReaderPeerClose, Reads, ReadsOn
  <2> QED BY <1>2, <2>1
<1>19. CASE ReaderCapacity
  <2>1. BeginsClose("reader", "end", NoCode) /\ toPeer' = toPeer
    BY <1>19 DEF ReaderCapacity, Reads
  <2> QED BY <1>0, <2>1, FrameKinds, BeginsCloseFinal
<1>20. CASE ReaderReads \/ ReaderEnds BY <1>1, <1>20 DEF ReaderReads, ReaderEnds
<1>21. CASE PeerStep
  BY <1>1, <1>21 DEF PeerStep, PeerData, PeerPing, PeerBreaks, PeerClose, TransportEnds, PeerOnly
<1>22. CASE DeadlineExpires BY <1>1, <1>22 DEF DeadlineExpires
<1>23. CASE UNCHANGED vars BY <1>1, <1>23 DEF vars
<1> QED
  BY <1>3, <1>4, <1>5, <1>7, <1>8, <1>9, <1>10, <1>12, <1>13, <1>14, <1>15, <1>16, <1>17, <1>18,
     <1>19, <1>20, <1>21, <1>22, <1>23
     DEF Next, CmdStep, ReaderStep, FlushStep, TransportStep, Tasks
-----------------------------------------------------------------------------
(***************************************************************************)
(* The theorems.                                                           *)
(***************************************************************************)
LEMMA InitTyped == Init => Typed /\ LockKept
<1> SUFFICES ASSUME Init PROVE Typed /\ LockKept
  OBVIOUS
<1>1. Unset \in Outcomes /\ NoFrame \in Outcomes BY DEF Outcomes
<1>2. FlagsTyped BY <1>1 DEF Init, FlagsTyped
<1>3. \A S : <<>> \in Seq(S) OBVIOUS
<1>4. InboxTyped
  <2>1. 0 \in 0 .. Limit /\ 0 \in 0 .. MaxMsgs BY Sizes
  <2>2. inq \in Seq(MsgIds) /\ delivered \in Seq(MsgIds) /\ streamed \in Seq(MsgIds)
    BY <1>3 DEF Init
  <2>3. recvSt \in [Receives -> {"unused", "pending", "message", "viaStream", "overflow", "closed"}]
    BY DEF Init
  <2>4. queueLock = NoCall /\ budgetUsed = 0 /\ inHand = 0 /\ feeder = "none" BY DEF Init
  <2> QED BY <2>1, <2>2, <2>3, <2>4 DEF InboxTyped
<1>5. at = [cmd |-> Looping, reader |-> Looping] BY DEF Init
<1>6. at \in [Tasks -> Places] /\ at["cmd"] = Looping /\ at["reader"] = Looping
  <2>1. Looping \in Places BY DEF Looping, Places
  <2>2. DOMAIN at = Tasks BY <1>5 DEF Tasks
  <2> QED BY <1>5, <2>1, <2>2 DEF Tasks
<1>7. OutTyped
  <2>1. cmdq \in Seq(Frames) /\ outbound \in Seq(Frames) /\ writing \in Seq(Frames)
        /\ toPeer \in Seq(Frames)
    BY <1>3 DEF Init
  <2>2. sendSt \in [Sends -> {"unused", "queued", "ok", "closed"}] BY DEF Init
  <2>3. writeLock = NoCall /\ bound = "local" /\ reply \in Owed BY DEF Init, Owed
  <2> QED BY <1>6, <2>1, <2>2, <2>3 DEF OutTyped
<1>8. PeerTyped
  <2>1. inbound \in Seq(WireFrames) /\ wire \in Seq(WireFrames) BY <1>3 DEF Init
  <2>2. peerSent \in 0 .. MaxMsgs BY Sizes DEF Init
  <2> QED BY <2>1, <2>2 DEF PeerTyped
<1>9. LockKept
  <2>1. writeLock = NoCall /\ writing = <<>> /\ inOpen = TRUE BY DEF Init
  <2> QED BY <1>6, <2>1, TaskNames DEF LockKept, Looping, Tasks
<1> QED BY <1>2, <1>4, <1>7, <1>8, <1>9 DEF Typed

LEMMA InitKept == Init => Kept
<1> SUFFICES ASSUME Init PROVE Kept
  OBVIOUS
<1>1. Typed /\ LockKept BY InitTyped
<1>2. DOMAIN <<>> = {} /\ Len(<<>>) = 0 OBVIOUS
<1>3. /\ cmdq = <<>> /\ outbound = <<>> /\ writing = <<>> /\ toPeer = <<>> /\ inq = <<>>
      /\ delivered = <<>> /\ inbound = <<>> /\ wire = <<>> /\ peerSent = 0 /\ budgetUsed = 0
      /\ discarded = FALSE /\ overflowed = FALSE /\ wireClosing = FALSE /\ inOpen = TRUE
      /\ closeInfo = Unset /\ peerFrame = NoFrame
  BY DEF Init
<1>4. Accepted = 0 BY <1>2, <1>3 DEF Accepted
<1>5. InboxKept BY <1>2, <1>3, <1>4, Sizes DEF InboxKept
<1>6. ComingKept
  <2>1. Coming = <<>>
    <3>1. <<>> \in Seq(WireFrames) OBVIOUS
    <3> QED BY <1>3, <3>1, ConcatEmptySeq DEF Coming
  <2>2. ClosesLast(Coming) /\ NoClose(Coming) /\ Brings(Coming, 1, 0) /\ BringsAll(Coming, 1, 0)
    BY <1>2, <2>1 DEF ClosesLast, NoClose, Brings, BringsAll
  <2> QED BY <1>3, <1>4, <2>2 DEF ComingKept
<1>7. CauseKept BY <1>2, <1>3 DEF CauseKept, NoFrame, Unset
<1>8. SendsKept
  <2>1. ASSUME NEW s \in Sends PROVE sendSt[s] = "unused" BY DEF Init
  <2>2. Apart(cmdq, outbound, writing, toPeer, sendSt)
    BY <1>3, <2>1, NoFrames DEF Apart
  <2>3. at["cmd"] = Looping /\ at["reader"] = Looping BY DEF Init
  <2>4. \A t \in Tasks : Follows(t) BY <2>3, LoopNoSend DEF Follows, Tasks, Looping
  <2> QED BY <2>2, <2>4 DEF SendsKept
<1>9. CloseKept
  <2>1. reply = NoReply BY DEF Init
  <2>2. reply # CloseReply BY <2>1, ReplyKinds DEF Owed
  <2> QED BY <1>2, <1>3, <2>2, NoFrames DEF CloseKept, CloseWritten, FinalFrame, NoPong
<1>10. BufferIsWatched BY <1>2, <1>3 DEF BufferIsWatched
<1>11. ReceiveErrorsHonest
  <2>1. ASSUME NEW r \in Receives PROVE recvSt[r] = "unused" BY DEF Init
  <2> QED BY <2>1 DEF ReceiveErrorsHonest
<1> QED BY <1>1, <1>5, <1>6, <1>7, <1>8, <1>9, <1>10, <1>11 DEF Kept

\* The invariant holds, whatever the guest, the peer, the transport and the
\* two tasks do in whatever order.
THEOREM ProviderInductive == Spec => []Kept
<1>1. Kept /\ [Next]_vars => Kept'
  <2>1. Typed /\ LockKept /\ [Next]_vars => Typed' /\ LockKept'
    BY FlagsNext, InboxTypedNext, OutNext, PeerTypedNext DEF Typed
  <2> QED
    BY <2>1, InboxNext, ComingNext, CauseNext, SendsNext, CloseNext, WatchedNext, HonestNext
       DEF Kept
<1> QED BY <1>1, InitKept, PTL DEF Spec

\* The types of the shared cells and the tasks: the budget never goes past its
\* bound (Shared::reserve).
THEOREM ProviderTypesCorrect == Spec => []TypeOK
<1>1. Kept => TypeOK BY TypedIsTypeOK DEF Kept
<1> QED BY <1>1, ProviderInductive, PTL

\* No message is lost, repeated or reordered on its way through the queue, and
\* none is thrown away before a local close or an overflow (deliver, receive).
THEOREM ProviderHasNoGap == Spec => []NoGap
<1>1. Kept => NoGap
  <2> SUFFICES ASSUME Kept PROVE NoGap
    OBVIOUS
  <2>1. /\ delivered \in Seq(MsgIds) /\ inq \in Seq(MsgIds)
        /\ \A k \in DOMAIN delivered : delivered[k] = k
        /\ \A k \in DOMAIN inq : inq[k] = Len(delivered) + k
        /\ discarded => localClosed \/ overflowed
    BY DEF Kept, Typed, InboxTyped, InboxKept, CauseKept
  <2>2. Len(delivered) \in Nat /\ Len(inq) \in Nat /\ DOMAIN delivered = 1 .. Len(delivered)
        /\ DOMAIN inq = 1 .. Len(inq)
    BY <2>1
  <2> DEFINE n    == Len(delivered) + Len(inq)
             all  == delivered \o inq
             want == [i \in 1 .. n |-> i]
  <2>3. /\ all \in Seq(MsgIds) /\ Len(all) = n
        /\ \A k \in 1 .. n : all[k] = IF k =< Len(delivered) THEN delivered[k]
                                                            ELSE inq[k - Len(delivered)]
    BY <2>1, JoinAt
  <2>4. n \in Nat BY <2>2
  <2>5. DOMAIN all = 1 .. n BY <2>3
  <2>6. ASSUME NEW k \in 1 .. n PROVE all[k] = k
    <3>1. CASE k =< Len(delivered) BY <2>1, <2>2, <2>3, <3>1
    <3>2. CASE k > Len(delivered)
      <4>1. k - Len(delivered) \in DOMAIN inq /\ ~(k =< Len(delivered)) BY <2>2, <3>2
      <4>2. all[k] = inq[k - Len(delivered)] BY <2>3, <4>1
      <4>3. inq[k - Len(delivered)] = Len(delivered) + (k - Len(delivered)) BY <2>1, <4>1
      <4> QED BY <2>2, <4>2, <4>3
    <3> QED BY <2>2, <3>1, <3>2
  <2> HIDE DEF all, n
  <2>7. all \in [1 .. n -> MsgIds] BY <2>3, LenProperties
  <2>8. all = want BY <2>6, <2>7
  <2> QED BY <2>1, <2>8 DEF NoGap, all, n
<1> QED BY <1>1, ProviderInductive, PTL

\* The budget counts exactly the queued bytes, whoever takes them
\* (Shared::reserve, Shared::release_budget).
THEOREM ProviderCountsExactly == Spec => []BudgetExact
<1>1. Kept => BudgetExact
  <2> SUFFICES ASSUME Kept PROVE BudgetExact
    OBVIOUS
  <2>1. /\ delivered \in Seq(MsgIds) /\ inq \in Seq(MsgIds) /\ InboxKept /\ peerSent \in 0 .. MaxMsgs
    BY DEF Kept, Typed, InboxTyped, PeerTyped
  <2>2. Len(delivered) \in Nat /\ Len(inq) \in Nat /\ Accepted = Len(delivered) + Len(inq)
    BY <2>1 DEF Accepted
  <2>3. budgetUsed = Offset[Accepted] - Offset[Len(delivered)] /\ Accepted =< peerSent
    BY <2>1 DEF InboxKept
  <2>4. Offset[Accepted] \in Nat /\ Offset[Len(delivered)] \in Nat
    <3>1. MaxMsgs \in Nat BY Sizes
    <3>2. Accepted \in 0 .. MaxMsgs /\ Len(delivered) \in 0 .. MaxMsgs
      BY <2>1, <2>2, <2>3, <3>1
    <3> QED BY <3>2, Sizes
  <2>5. CASE inq = <<>>
    <3>1. Len(inq) = 0 BY <2>5
    <3>2. Accepted = Len(delivered) BY <2>2, <3>1
    <3> QED BY <2>3, <2>4, <2>5, <3>2 DEF BudgetExact, QueuedBytes
  <2>6. CASE inq # <<>>
    <3>1. Len(inq) >= 1 /\ Head(inq) = inq[1] /\ DOMAIN inq = 1 .. Len(inq)
      BY <2>1, <2>6, TailAt
    <3>2. inq[1] = Len(delivered) + 1 /\ inq[Len(inq)] = Len(delivered) + Len(inq)
      BY <2>1, <2>2, <3>1 DEF InboxKept
    <3>3. Head(inq) - 1 = Len(delivered) /\ inq[Len(inq)] = Accepted BY <2>2, <3>1, <3>2
    <3> QED BY <2>3, <2>6, <3>3 DEF BudgetExact, QueuedBytes
  <2> QED BY <2>5, <2>6
<1> QED BY <1>1, ProviderInductive, PTL

\* What a failed receive reports is true, and stays true (receive,
\* map_queue_end).
THEOREM ProviderErrorsAreHonest == Spec => []ReceiveErrorsHonest
<1>1. Kept => ReceiveErrorsHonest BY DEF Kept
<1> QED BY <1>1, ProviderInductive, PTL

\* A send that succeeded is with the peer, and no message is there twice, though
\* either task may flush the other's frames; nothing but a pong follows the one
\* close frame (Proto::send, begin_close, flush_outbound).
THEOREM ProviderWireIsHonest == Spec => []WireHonest
<1>1. Kept => WireHonest
  <2> SUFFICES ASSUME Kept PROVE WireHonest
    OBVIOUS
  <2>1. /\ toPeer \in Seq(Frames) /\ Apart(cmdq, outbound, writing, toPeer, sendSt)
        /\ LastOf(toPeer) /\ NoPong(toPeer)
    BY DEF Kept, Typed, OutTyped, SendsKept, CloseKept, FinalFrame
  <2>2. ASSUME NEW s \in Sends
        PROVE  /\ sendSt[s] = "ok" => In(DataFrame(s), toPeer)
               /\ \A j, k \in DOMAIN toPeer :
                    toPeer[j] = DataFrame(s) /\ toPeer[k] = DataFrame(s) => j = k
    <3>1. sendSt[s] = "ok" => s \in Msgs(toPeer) BY <2>1 DEF Apart
    <3>2. Once(toPeer) BY <2>1 DEF Apart
    <3>3. DataFrame(s).kind = "send" BY FrameKinds
    <3> QED BY <3>1, <3>2, <3>3 DEF Msgs, Once, In
  <2>3. ASSUME NEW k \in DOMAIN toPeer, toPeer[k].kind \in {"close", "reply"}
        PROVE  k = Len(toPeer) /\ toPeer[k].code \in SendableCodes \cup {NoCode}
    <3>1. k = Len(toPeer)
      <4>1. k \in 1 .. Len(toPeer) /\ Len(toPeer) \in DOMAIN toPeer /\ Len(toPeer) \in Nat
        BY <2>1, <2>3
      <4>2. ~(k < Len(toPeer)) BY <2>1, <2>3, <4>1 DEF LastOf, Closing, NoPong
      <4> QED BY <4>1, <4>2
    <3>2. toPeer[k] \in Frames BY <2>1
    <3>3. toPeer[k].code \in ClientCodes BY <3>2, FrameKinds
    <3> QED BY <3>1, <3>3 DEF ClientCodes
  <2> QED BY <2>2, <2>3 DEF WireHonest
<1> QED BY <1>1, ProviderInductive, PTL

\* What a task buffers while the other writes is about to be taken: the task that
\* buffered it waits for the lock (flush_outbound).
THEOREM ProviderBufferIsWatched == Spec => []BufferIsWatched
<1>1. Kept => BufferIsWatched BY DEF Kept
<1> QED BY <1>1, ProviderInductive, PTL
-----------------------------------------------------------------------------

\* After a local close nothing is taken from the queue, and after the claim no
\* receive gets a message (receive's select, receive_via_stream).
THEOREM ProviderSignalsWin == Spec => SignalsWin
<1> DEFINE Wins ==
      /\ localClosed => delivered' = delivered
      /\ claimed => \A r \in Receives : recvSt'[r] = "message" => recvSt[r] = "message"
<1>1. Kept /\ [Next]_vars => Wins
  <2> SUFFICES ASSUME Kept, [Next]_vars PROVE Wins
    OBVIOUS
  <2> USE DEF shared, queue, budget, calls, stream, writes, flags, peerVars, seen
  <2>0. /\ Typed /\ LockKept
        /\ recvSt \in [Receives -> {"unused", "pending", "message", "viaStream",
                                    "overflow", "closed"}]
    BY DEF Kept, Typed, InboxTyped
  <2>1. ASSUME UNCHANGED <<delivered, recvSt>> PROVE Wins BY <2>1
  <2>2. ASSUME NEW q \in Receives, NEW outcome, outcome # "message", UNCHANGED delivered,
               recvSt' = [recvSt EXCEPT ![q] = outcome]
        PROVE  Wins
    BY <2>0, <2>2
  <2>3. CASE GuestCalls
    <3>1. ASSUME NEW q \in Receives, Receive(q) PROVE Wins
      <4>1. PICK outcome \in {"pending", "closed", "viaStream"} :
              recvSt' = [recvSt EXCEPT ![q] = outcome]
        BY <3>1 DEF Receive
      <4> QED BY <2>2, <3>1, <4>1 DEF Receive
    <3> HIDE DEF Wins
    <3> QED
      BY <2>1, <2>3, <3>1 DEF GuestCalls, Send, Close, Drop, ReceiveViaStream, StreamDropped,
         WaitClosed, ElementRead, PayloadRead, ReaderGone, FeederOnly
  <2>4. CASE FeederTakes BY <2>4 DEF FeederTakes, FeederOnly
  <2>5. CASE FeederLocks \/ FeederEnds \/ ReaderGone
    BY <2>1, <2>5 DEF FeederLocks, FeederEnds, ReaderGone, FeederOnly
  <2>6. ASSUME NEW q \in Receives, ReceivePoll(q) PROVE Wins
    <3>1. CASE ReceiveLocks(q) BY <2>1, <3>1 DEF ReceiveLocks
    <3>2. CASE ReceiveTakes(q) BY <3>2 DEF ReceiveTakes, NotSignalled
    <3>3. CASE ReceiveSignalled(q)
      BY <2>2, <3>3 DEF ReceiveSignalled, ReceiveResolves
    <3>4. CASE ReceiveEnds(q)
      BY <2>2, <3>4 DEF ReceiveEnds, ReceiveResolves, EndOutcome
    <3> QED BY <2>6, <3>1, <3>2, <3>3, <3>4 DEF ReceivePoll
  <2> HIDE DEF Wins
  <2>7. CASE CmdSend \/ CmdClose \/ CmdClaim BY <2>1, <2>7 DEF CmdSend, CmdClose, CmdClaim
  <2>8. ASSUME NEW t \in Tasks, FlushStep(t) \/ TransportStep(t) PROVE Wins
    BY <2>1, <2>8 DEF FlushStep, TransportStep, Locks, WriteSeesLocalClose, WriteTimesOut,
       WriteTakes, WriteFails, WriteOnly
  <2>9. CASE ReaderData \/ ReaderPing \/ ReaderPeerClose \/ ReaderCapacity
    BY <2>1, <2>9 DEF ReaderData, ReaderPing, ReaderPeerClose, ReaderCapacity, Reads
  <2>10. CASE ReaderReads \/ ReaderEnds \/ ReaderWritesReply
    BY <2>1, <2>10 DEF ReaderReads, ReaderEnds, ReaderWritesReply
  <2>11. CASE PeerStep
    BY <2>1, <2>11 DEF PeerStep, PeerData, PeerPing, PeerBreaks, PeerClose, TransportEnds,
       PeerOnly
  <2>12. CASE DeadlineExpires BY <2>1, <2>12 DEF DeadlineExpires
  <2>13. CASE UNCHANGED vars BY <2>1, <2>13 DEF vars
  <2> QED
    BY <2>3, <2>4, <2>5, <2>6, <2>7, <2>8, <2>9, <2>10, <2>11, <2>12, <2>13
       DEF Next, CmdStep, ReaderStep, FeederStep, Tasks
<1>2. Kept /\ [Next]_vars => [Wins]_vars BY <1>1
<1> HIDE DEF Wins
<1>3. Spec => [][Wins]_vars BY <1>2, ProviderInductive, PTL DEF Spec
<1> QED BY <1>3 DEF SignalsWin, Wins
-----------------------------------------------------------------------------
(***************************************************************************)
(* The contract: every step of the tasks, the guest and the peer is one    *)
(* step of WsContract, or none.                                            *)
(***************************************************************************)

\* A claim is a command and never a frame, and no pong is counted as handed over.
Plain(q) == \A k \in DOMAIN q : q[k].kind # "claim"
Shows(q) == \A k \in DOMAIN q : q[k].kind \notin {"claim", "pong"}

PlainKept == Plain(outbound) /\ Plain(writing) /\ Shows(toPeer)

LEMMA PlainAppend ==
  ASSUME NEW q \in Seq(Frames), NEW f \in Frames
  PROVE  /\ Plain(q) /\ f.kind # "claim" => Plain(Append(q, f))
         /\ Shows(q) /\ f.kind \notin {"claim", "pong"} => Shows(Append(q, f))
<1>1. /\ DOMAIN q = 1 .. Len(q) /\ DOMAIN Append(q, f) = 1 .. Len(q) + 1 /\ Len(q) \in Nat
      /\ \A k \in 1 .. Len(q) : Append(q, f)[k] = q[k]
      /\ Append(q, f)[Len(q) + 1] = f
  BY AppendAt
<1>2. \A k \in DOMAIN Append(q, f) : \/ k \in DOMAIN q /\ Append(q, f)[k] = q[k]
                                    \/ Append(q, f)[k] = f
  BY <1>1
<1> HIDE DEF Frames
<1> QED BY <1>2 DEF Plain, Shows

LEMMA PlainTail ==
  ASSUME NEW q \in Seq(Frames), q # <<>>, Plain(q)
  PROVE  Plain(Tail(q)) /\ Head(q).kind # "claim"
<1>1. /\ DOMAIN Tail(q) = 1 .. Len(q) - 1 /\ DOMAIN q = 1 .. Len(q) /\ Head(q) = q[1]
      /\ Len(q) \in Nat /\ Len(q) >= 1 /\ \A k \in 1 .. Len(q) - 1 : Tail(q)[k] = q[k + 1]
  BY TailAt
<1>2. \A k \in DOMAIN Tail(q) : k + 1 \in DOMAIN q /\ Tail(q)[k] = q[k + 1] BY <1>1
<1>3. 1 \in DOMAIN q BY <1>1
<1> QED BY <1>1, <1>2, <1>3 DEF Plain

LEMMA FlushesPlain ==
  ASSUME PlainKept, NEW t, NEW then, NEW out, Plain(out), Flushes(t, then, out),
         toPeer' = toPeer
  PROVE  PlainKept'
<1>1. Plain(<<>>) BY DEF Plain
<1> QED BY <1>1 DEF Flushes, Writes, PlainKept

LEMMA ReplyPlain ==
  ASSUME reply \in Owed, NEW q \in Seq(Frames), Plain(q)
  PROVE  Plain(WithReply(q))
<1>1. CASE reply = NoReply BY <1>1 DEF WithReply
<1>2. CASE reply # NoReply
  <2>1. reply \in Frames /\ reply.kind # "claim" BY <1>2, ReplyKinds
  <2> QED BY <1>2, <2>1, PlainAppend DEF WithReply
<1> QED BY <1>1, <1>2

LEMMA BeginsClosePlain ==
  ASSUME OutTyped, PlainKept, NEW t, NEW then, NEW code \in ClientCodes,
         BeginsClose(t, then, code), toPeer' = toPeer
  PROVE  PlainKept'
<1>1. CASE wireClosing
  <2>1. UNCHANGED <<outbound, writing>> BY <1>1 DEF BeginsClose
  <2> QED BY <2>1 DEF PlainKept
<1>2. CASE ~wireClosing
  <2>1. Flushes(t, then, WithReply(Append(outbound, CloseFrame(code))))
    BY <1>2 DEF BeginsClose, SendsFrame
  <2>2. CloseFrame(code) \in Frames /\ CloseFrame(code).kind = "close" /\ outbound \in Seq(Frames)
    BY FrameKinds DEF OutTyped
  <2>3. Plain(Append(outbound, CloseFrame(code))) BY <2>2, PlainAppend DEF PlainKept
  <2>4. Append(outbound, CloseFrame(code)) \in Seq(Frames) BY <2>2, AppendAt
  <2>5. Plain(WithReply(Append(outbound, CloseFrame(code)))) BY <2>3, <2>4, ReplyPlain DEF OutTyped
  <2> QED BY <2>1, <2>5, FlushesPlain
<1> QED BY <1>1, <1>2

LEMMA PlainNext == Typed /\ LockKept /\ PlainKept /\ [Next]_vars => PlainKept'
<1> SUFFICES ASSUME Typed, LockKept, PlainKept, [Next]_vars PROVE PlainKept'
  OBVIOUS
<1> USE DEF shared, queue, budget, calls, stream, writes, flags, peerVars, seen
<1>0. /\ OutTyped /\ outbound \in Seq(Frames) /\ writing \in Seq(Frames)
      /\ toPeer \in Seq(Frames) /\ Plain(outbound) /\ Plain(writing) /\ Shows(toPeer)
      /\ Plain(<<>>)
  BY DEF Typed, OutTyped, PlainKept, Plain
<1>1. ASSUME UNCHANGED <<outbound, writing, toPeer>> PROVE PlainKept'
  BY <1>1 DEF PlainKept
<1>2. CASE GuestCalls
  BY <1>1, <1>2 DEF GuestCalls, Send, Close, Receive, Drop, ReceiveViaStream, StreamDropped,
     WaitClosed, ElementRead, PayloadRead, ReaderGone, FeederOnly
<1>3. CASE FeederStep
  BY <1>1, <1>3 DEF FeederStep, FeederLocks, FeederTakes, FeederEnds, ReaderGone, FeederOnly
<1>4. ASSUME NEW r \in Receives, ReceivePoll(r) PROVE PlainKept'
  BY <1>1, <1>4 DEF ReceivePoll, ReceiveLocks, ReceiveSignalled, ReceiveTakes, ReceiveEnds
<1>5. ASSUME NEW kind, CmdReady(kind) PROVE Head(cmdq) \in Frames /\ Head(cmdq).kind = kind
  BY <1>5, TailAt DEF CmdReady, Typed, OutTyped
<1>6. CASE CmdSend
  <2>1. CmdReady("send") /\ UNCHANGED toPeer BY <1>6 DEF CmdSend
  <2>2. Head(cmdq) \in Frames /\ Head(cmdq).kind = "send" BY <1>5, <2>1
  <2>3. CASE Refused BY <1>1, <1>6, <2>1, <2>3 DEF CmdSend
  <2>4. CASE ~Refused
    <3> DEFINE own == Append(outbound, Head(cmdq))
    <3>1. Flushes("cmd", Head(cmdq).from, WithReply(own)) BY <1>6, <2>4 DEF CmdSend, SendsFrame
    <3>2. own \in Seq(Frames) /\ Plain(own) BY <1>0, <2>2, AppendAt, PlainAppend
    <3> HIDE DEF own
    <3>3. Plain(WithReply(own)) BY <1>0, <3>2, ReplyPlain DEF OutTyped
    <3> QED BY <2>1, <3>1, <3>3, FlushesPlain
  <2> QED BY <2>3, <2>4
<1>7. CASE CmdClose
  <2>1. CmdReady("close") /\ toPeer' = toPeer BY <1>7 DEF CmdClose
  <2>2. Head(cmdq).code \in ClientCodes BY <1>5, <2>1, FrameKinds
  <2>3. CASE closed BY <1>1, <1>7, <2>1, <2>3 DEF CmdClose
  <2>4. CASE ~closed
    <3>1. BeginsClose("cmd", "loop", Head(cmdq).code) BY <1>7, <2>4 DEF CmdClose
    <3> QED BY <1>0, <2>1, <2>2, <3>1, BeginsClosePlain
  <2> QED BY <2>3, <2>4
<1>8. CASE CmdClaim BY <1>1, <1>8 DEF CmdClaim
<1>9. ASSUME NEW t \in Tasks, Locks(t) PROVE PlainKept'
  <2>1. Flushes(t, at[t].then, outbound) /\ UNCHANGED toPeer BY <1>9 DEF Locks, Flushes
  <2> QED BY <1>0, <2>1, FlushesPlain
<1>10. ASSUME NEW t \in Tasks, at[t].pc = "write", UNCHANGED toPeer \/ Handed(Head(writing)),
              outbound' = outbound, writing' = <<>> \/ writing' = Tail(writing)
       PROVE  PlainKept'
  <2>1. writing # <<>> BY <1>10, TaskNames DEF LockKept
  <2>2. Plain(Tail(writing)) /\ Head(writing).kind # "claim" /\ Head(writing) \in Frames
    BY <1>0, <2>1, PlainTail, TailAt
  <2>3. Head(writing) # Pong => Head(writing).kind # "pong" BY <2>2, FrameKinds
  <2>4. Shows(toPeer')
    BY <1>0, <1>10, <2>2, <2>3, PlainAppend DEF Handed
  <2> QED BY <1>0, <1>10, <2>2, <2>4 DEF PlainKept
<1>11. ASSUME NEW t \in Tasks, WriteTakes(t) \/ WriteFails(t) \/ WriteTimesOut(t)
       PROVE  PlainKept'
  BY <1>10, <1>11 DEF WriteTakes, WriteFails, WriteTimesOut, WriteEnds
<1>12. ASSUME NEW t \in Tasks, WriteSeesLocalClose(t) PROVE PlainKept'
  BY <1>1, <1>12 DEF WriteSeesLocalClose
<1>13. CASE ReaderData
  <2>1. toPeer' = toPeer BY <1>13 DEF ReaderData, Reads
  <2>2. CASE UNCHANGED writes BY <1>1, <2>1, <2>2
  <2>3. CASE Overflows BY <1>0, <2>1, <2>3, FrameKinds, BeginsClosePlain DEF Overflows
  <2> QED BY <1>13, <2>2, <2>3 DEF ReaderData
<1>14. CASE ReaderWritesReply
  <2>1. outbound' = WithReply(outbound) /\ UNCHANGED <<writing, toPeer>>
    BY <1>14 DEF ReaderWritesReply
  <2>2. Plain(WithReply(outbound)) BY <1>0, ReplyPlain DEF OutTyped
  <2> QED BY <1>0, <2>1, <2>2 DEF PlainKept
<1>15. CASE ReaderPing \/ ReaderPeerClose
  <2>1. Flushes("reader", "loop", outbound) /\ toPeer' = toPeer
    BY <1>15 DEF ReaderPing, ReaderPeerClose, Reads
  <2> QED BY <1>0, <2>1, FlushesPlain
<1>16. CASE ReaderCapacity
  <2>1. BeginsClose("reader", "end", NoCode) /\ toPeer' = toPeer
    BY <1>16 DEF ReaderCapacity, Reads
  <2> QED BY <1>0, <2>1, FrameKinds, BeginsClosePlain
<1>17. CASE ReaderReads \/ ReaderEnds BY <1>1, <1>17 DEF ReaderReads, ReaderEnds
<1>18. CASE PeerStep
  BY <1>1, <1>18 DEF PeerStep, PeerData, PeerPing, PeerBreaks, PeerClose, TransportEnds, PeerOnly
<1>19. CASE DeadlineExpires BY <1>1, <1>19 DEF DeadlineExpires
<1>20. CASE UNCHANGED vars BY <1>1, <1>20 DEF vars
<1> QED
  BY <1>2, <1>3, <1>4, <1>6, <1>7, <1>8, <1>9, <1>11, <1>12, <1>13, <1>14, <1>15, <1>16, <1>17,
     <1>18, <1>19, <1>20
     DEF Next, CmdStep, ReaderStep, FlushStep, TransportStep, Tasks
-----------------------------------------------------------------------------
\* The state is latched closed with the end of the queue.
EndsLate == inOpen => state # "closed"

LEMMA EndsLateNext == Typed /\ LockKept /\ EndsLate /\ [Next]_vars => EndsLate'
<1> SUFFICES ASSUME Typed, LockKept, EndsLate, [Next]_vars PROVE EndsLate'
  OBVIOUS
<1> USE DEF shared, queue, budget, calls, stream, writes, flags, peerVars, seen
<1>0. state \in {"open", "closing", "closed"} /\ (inOpen' => inOpen) /\ inOpen \in BOOLEAN
  BY EndStaysNext DEF EndStays, Typed, FlagsTyped
<1>1. ASSUME state' = state \/ Advance("closing") PROVE EndsLate'
  BY <1>0, <1>1 DEF EndsLate, Advance, Rank
<1>2. CASE GuestCalls
  <2>1. ASSUME NEW req \in CloseRequests, Close(req) PROVE EndsLate'
    BY <1>1, <2>1 DEF Close, Closes
  <2>2. CASE Drop BY <1>1, <2>2 DEF Drop, Closes
  <2> QED
    BY <1>1, <1>2, <2>1, <2>2 DEF GuestCalls, Send, Receive, ReceiveViaStream, StreamDropped,
       WaitClosed, ElementRead, PayloadRead, ReaderGone, FeederOnly
<1>3. CASE FeederStep
  BY <1>1, <1>3 DEF FeederStep, FeederLocks, FeederTakes, FeederEnds, ReaderGone, FeederOnly
<1>4. ASSUME NEW r \in Receives, ReceivePoll(r) PROVE EndsLate'
  BY <1>1, <1>4 DEF ReceivePoll, ReceiveLocks, ReceiveSignalled, ReceiveTakes, ReceiveEnds
<1>5. CASE CmdSend \/ CmdClose \/ CmdClaim BY <1>1, <1>5 DEF CmdSend, CmdClose, CmdClaim
<1>6. ASSUME NEW t \in Tasks, FlushStep(t) \/ TransportStep(t) PROVE EndsLate'
  BY <1>1, <1>6 DEF FlushStep, TransportStep, Locks, WriteSeesLocalClose, WriteTimesOut,
     WriteTakes, WriteFails, WriteOnly
<1>7. CASE ReaderData \/ ReaderPing \/ ReaderPeerClose \/ ReaderCapacity
  BY <1>1, <1>7 DEF ReaderData, ReaderPing, ReaderPeerClose, ReaderCapacity
<1>8. CASE ReaderReads \/ ReaderWritesReply
  BY <1>1, <1>8 DEF ReaderReads, ReaderWritesReply
<1>9. CASE ReaderEnds BY <1>9 DEF ReaderEnds, Finalizes, EndsLate
<1>10. CASE PeerStep
  BY <1>1, <1>10 DEF PeerStep, PeerData, PeerPing, PeerBreaks, PeerClose, TransportEnds, PeerOnly
<1>11. CASE DeadlineExpires BY <1>1, <1>11 DEF DeadlineExpires
<1>12. CASE UNCHANGED vars BY <1>1, <1>12 DEF vars
<1> QED
  BY <1>2, <1>3, <1>4, <1>5, <1>6, <1>7, <1>8, <1>9, <1>10, <1>11, <1>12
     DEF Next, CmdStep, ReaderStep, Tasks

\* What the contract sees: the inbox is empty once the close is local, and a
\* frame in toPeer is a message or the end of them.
Inbox == IF localClosed THEN <<>> ELSE inq

Shown(frame) == IF frame.kind = "send" THEN "data" ELSE "close"

Out == [k \in DOMAIN toPeer |-> Shown(toPeer[k])]

Rest == UNCHANGED <<localClosed, inq, delivered, inOpen, toPeer, closeInfo>>
Same == Rest /\ UNCHANGED state

\* A step that leaves the contract's view alone.
LEMMA SameStutters == Same => UNCHANGED Contract!cvars
BY DEF Same, Rest, Contract!cvars

\* A step that starts to close, and does no more that shows.
LEMMA StartsClosing ==
  ASSUME Typed, Rest, UNCHANGED state \/ Advance("closing")
  PROVE  [Contract!CNext]_(Contract!cvars)
<1>1. state \in {"open", "closing", "closed"} BY DEF Typed, FlagsTyped
<1>2. CASE Same BY <1>2, SameStutters
<1>3. CASE state = "open" /\ state' = "closing"
  BY <1>3 DEF Rest, Contract!CNext, Contract!StartClosing
<1> QED BY <1>1, <1>2, <1>3 DEF Advance, Rank, Same

\* The head of the queue goes to a reader (ReceiveTakes, FeederTakes).
LEMMA TakeRefines ==
  ASSUME TakeHead, ~localClosed, UNCHANGED <<state, localClosed, inOpen, toPeer, closeInfo>>
  PROVE  Contract!CNext
BY DEF TakeHead, Contract!CNext, Contract!Take

\* The first close of the guest's, by either call.
LEMMA CloseRefines ==
  ASSUME Typed, NEW code, Closes(code), ~localClosed,
         UNCHANGED <<inq, delivered, inOpen, toPeer, closeInfo>>
  PROVE  Contract!CNext
<1>1. state \in {"open", "closing", "closed"} BY DEF Typed, FlagsTyped
<1>2. state' = IF state = "open" THEN "closing" ELSE state
  BY <1>1 DEF Closes, Advance, Rank
<1>3. Contract!LocalClose BY <1>2 DEF Closes, Contract!LocalClose
<1> QED BY <1>3 DEF Contract!CNext

\* A sequence is the function of its elements.
LEMMA SequenceIsFunction ==
  ASSUME NEW S, NEW q \in Seq(S)
  PROVE  q = [k \in DOMAIN q |-> q[k]]
OBVIOUS

\* A frame goes out, and it is not behind a close frame.
LEMMA WriteRefines ==
  ASSUME Typed, LockKept, CloseKept, PlainKept, NEW t \in Tasks, at[t].pc = "write",
         UNCHANGED toPeer \/ Handed(Head(writing)),
         UNCHANGED <<state, localClosed, inq, delivered, inOpen, closeInfo>>
  PROVE  [Contract!CNext]_(Contract!cvars)
<1>1. CASE UNCHANGED toPeer BY <1>1, SameStutters DEF Same, Rest
<1>2. CASE Handed(Head(writing)) /\ Head(writing) # Pong
  <2> DEFINE frame == Head(writing)
             last  == <<Shown(frame)>>
  <2>0. writing # <<>> /\ writing \in Seq(Frames)
    BY TaskNames DEF LockKept, Typed, OutTyped
  <2>1. toPeer' = Append(toPeer, frame) BY <1>2 DEF Handed
  <2>2. toPeer \in Seq(Frames) /\ frame \in Frames
    BY <2>0, TailAt DEF Typed, OutTyped
  <2>3. \A k \in DOMAIN toPeer : toPeer[k].kind = "send"
    <3>1. Open(toPeer)
      <4>1. Pongs(writing) => Head(writing) = Pong BY <2>0, TailAt DEF Pongs
      <4> QED BY <1>2, <4>1 DEF CloseKept, FinalFrame
    <3>2. \A k \in DOMAIN toPeer : toPeer[k] \in Frames BY <2>2
    <3> QED BY <3>1, <3>2, FrameKinds DEF Open, Closing, PlainKept, Shows
  <2> HIDE DEF frame
  <2>4. Out' = Out \o last
    <3>1. DOMAIN Out = 1 .. Len(toPeer) /\ Len(toPeer) \in Nat BY <2>2 DEF Out
    <3>2. Out \in Seq({"data", "close"}) /\ Len(Out) = Len(toPeer)
      <4>1. \A k \in 1 .. Len(toPeer) : Out[k] \in {"data", "close"}
        BY <3>1 DEF Out, Shown
      <4>2. Out \in [1 .. Len(toPeer) -> {"data", "close"}] BY <3>1, <4>1 DEF Out
      <4> QED BY <3>1, <4>2
    <3>3. last \in Seq({"data", "close"}) /\ Len(last) = 1 /\ last[1] = Shown(frame)
      BY DEF Shown
    <3>4. toPeer' \in Seq(Frames) /\ Len(toPeer') = Len(toPeer) + 1
          /\ toPeer'[Len(toPeer) + 1] = frame
          /\ \A k \in 1 .. Len(toPeer) : toPeer'[k] = toPeer[k]
      BY <2>1, <2>2
    <3>5. DOMAIN (Out') = 1 .. Len(toPeer) + 1
          /\ \A k \in 1 .. Len(toPeer) + 1 : (Out')[k] = Shown(toPeer'[k])
      BY <3>4 DEF Out
    <3> HIDE DEF last
    <3>6. /\ Out \o last \in Seq({"data", "close"}) /\ DOMAIN (Out \o last) = 1 .. Len(toPeer) + 1
          /\ \A k \in 1 .. Len(toPeer) : (Out \o last)[k] = Out[k]
          /\ (Out \o last)[Len(toPeer) + 1] = last[1]
      <4>1. last = <<last[1]>> /\ last[1] \in {"data", "close"} BY DEF last, Shown
      <4>2. Out \o last = Append(Out, last[1])
        BY <3>2, <4>1, AppendIsConcat
      <4>3. /\ Append(Out, last[1]) \in Seq({"data", "close"})
            /\ DOMAIN Append(Out, last[1]) = 1 .. Len(Out) + 1
            /\ \A k \in 1 .. Len(Out) : Append(Out, last[1])[k] = Out[k]
            /\ Append(Out, last[1])[Len(Out) + 1] = last[1]
        <5> HIDE DEF Out
        <5> QED BY <3>2, <4>1
      <4> QED BY <3>2, <4>2, <4>3
    <3>7. \A k \in 1 .. Len(toPeer) : Out[k] = Shown(toPeer[k]) BY <3>1 DEF Out
    <3>8. ASSUME NEW k \in 1 .. Len(toPeer) + 1 PROVE (Out')[k] = (Out \o last)[k]
      <4>1. CASE k \in 1 .. Len(toPeer) BY <3>4, <3>5, <3>6, <3>7, <4>1
      <4>2. CASE k = Len(toPeer) + 1 BY <3>3, <3>4, <3>5, <3>6, <4>2
      <4>3. k \in 1 .. Len(toPeer) \/ k = Len(toPeer) + 1
        <5> DEFINE n == Len(toPeer)
        <5>1. n \in Nat /\ k \in 1 .. n + 1 BY <3>1
        <5> HIDE DEF n
        <5>2. k \in 1 .. n \/ k = n + 1 BY <5>1
        <5> QED BY <5>2 DEF n
      <4> QED BY <4>1, <4>2, <4>3
    <3>9. Out' = [k \in DOMAIN (Out') |-> (Out')[k]] BY DEF Out
    <3>10. Out \o last = [k \in DOMAIN (Out \o last) |-> (Out \o last)[k]]
      BY <3>6, SequenceIsFunction
    <3> QED BY <3>5, <3>6, <3>8, <3>9, <3>10
  <2>5. \A k \in DOMAIN Out : Out[k] # "close" BY <2>3 DEF Out, Shown
  <2>6. last \in {<<"data">>, <<"close">>} BY DEF Shown
  <2> HIDE DEF last
  <2>7. CASE last = <<"data">>
    <3>1. Contract!Transmit(<<"data">>)
      BY <2>4, <2>5, <2>7 DEF Contract!Transmit, Out, Shown
    <3> QED BY <3>1 DEF Contract!CNext
  <2>8. CASE last = <<"close">>
    <3>1. Contract!Transmit(<<"close">>)
      BY <2>4, <2>5, <2>8 DEF Contract!Transmit, Out, Shown
    <3> QED BY <3>1 DEF Contract!CNext
  <2> QED BY <2>6, <2>7, <2>8
<1> QED BY <1>1, <1>2 DEF Handed
-----------------------------------------------------------------------------
\* What the refinement needs beyond Kept.
View == PlainKept /\ EndsLate

\* The guest's calls, and the readers' steps.
LEMMA GuestRefines ==
  ASSUME Kept, View, GuestCalls \/ FeederStep \/ \E r \in Receives : ReceivePoll(r)
  PROVE  [Contract!CNext]_(Contract!cvars)
<1> USE DEF shared, queue, budget, calls, stream, writes, flags, peerVars, seen
<1> DEFINE Goal == [Contract!CNext]_(Contract!cvars)
<1>0. Typed BY DEF Kept
<1>1. ASSUME NEW s \in Sends, Send(s) PROVE Goal
  BY <1>1, SameStutters DEF Send, Same, Rest
<1>2. ASSUME NEW req \in CloseRequests, Close(req) PROVE Goal
  BY <1>0, <1>2, CloseRefines DEF Close
<1>3. ASSUME NEW r \in Receives, Receive(r) PROVE Goal
  BY <1>3, SameStutters DEF Receive, Same, Rest
<1>4. CASE Drop
  <2>1. CASE localClosed BY <1>4, <2>1, SameStutters DEF Drop, Same, Rest
  <2>2. CASE ~localClosed BY <1>0, <1>4, <2>2, CloseRefines DEF Drop
  <2> QED BY <2>1, <2>2
<1>5. CASE ReceiveViaStream \/ StreamDropped \/ WaitClosed
  BY <1>5, SameStutters DEF ReceiveViaStream, StreamDropped, WaitClosed, Same, Rest
<1>6. CASE ElementRead \/ PayloadRead \/ ReaderGone
  BY <1>6, SameStutters DEF ElementRead, PayloadRead, ReaderGone, FeederOnly, Same, Rest
<1>7. CASE FeederTakes
  <2>1. TakeHead /\ ~localClosed /\ UNCHANGED <<state, localClosed, inOpen, toPeer, closeInfo>>
    BY <1>7 DEF FeederTakes, FeederOnly
  <2> QED BY <2>1, TakeRefines
<1>8. CASE FeederLocks \/ FeederEnds
  BY <1>8, SameStutters DEF FeederLocks, FeederEnds, FeederOnly, Same, Rest
<1>9. ASSUME NEW r \in Receives, ReceivePoll(r) PROVE Goal
  <2>1. CASE ReceiveTakes(r)
    <3>1. TakeHead /\ ~localClosed /\ UNCHANGED <<state, localClosed, inOpen, toPeer, closeInfo>>
      BY <2>1 DEF ReceiveTakes, NotSignalled
    <3> QED BY <3>1, TakeRefines
  <2>2. CASE ReceiveSignalled(r) \/ ReceiveLocks(r) \/ ReceiveEnds(r)
    BY <2>2, SameStutters DEF ReceiveSignalled, ReceiveLocks, ReceiveEnds, Same, Rest
  <2> QED BY <1>9, <2>1, <2>2 DEF ReceivePoll
<1> QED
  BY <1>1, <1>2, <1>3, <1>4, <1>5, <1>6, <1>7, <1>8, <1>9 DEF GuestCalls, FeederStep

\* The two tasks, and the transport that takes their frames.
LEMMA TasksRefine ==
  ASSUME Kept, View,
         CmdStep \/ ReaderStep \/ \E t \in Tasks : TransportStep(t)
  PROVE  [Contract!CNext]_(Contract!cvars)
<1> USE DEF shared, queue, budget, calls, stream, writes, flags, peerVars, seen
<1> DEFINE Goal == [Contract!CNext]_(Contract!cvars)
<1>0. /\ Typed /\ LockKept /\ InboxKept /\ ComingKept /\ CloseKept /\ PlainKept
      /\ state \in {"open", "closing", "closed"}
  BY DEF Kept, View, Typed, FlagsTyped
<1>1. CASE CmdSend \/ CmdClose \/ CmdClaim
  BY <1>1, SameStutters DEF CmdSend, CmdClose, CmdClaim, Same, Rest
<1>2. ASSUME NEW t \in Tasks, Locks(t) \/ WriteSeesLocalClose(t) PROVE Goal
  BY <1>2, SameStutters DEF Locks, WriteSeesLocalClose, WriteOnly, Same, Rest
<1>3. ASSUME NEW t \in Tasks, WriteTakes(t) \/ WriteFails(t) \/ WriteTimesOut(t) PROVE Goal
  <2>1. at[t].pc = "write" BY <1>3 DEF WriteTakes, WriteFails, WriteTimesOut
  <2>2. UNCHANGED toPeer \/ Handed(Head(writing))
    BY <1>3 DEF WriteTakes, WriteFails, WriteTimesOut
  <2>3. UNCHANGED <<state, localClosed, inq, delivered, inOpen, closeInfo>>
    BY <1>3 DEF WriteTakes, WriteFails, WriteTimesOut, WriteOnly
  <2> HIDE <1>3 DEF Goal
  <2>4. Goal BY <1>0, <2>1, <2>2, <2>3, WriteRefines DEF Goal
  <2> QED BY <2>4
<1>4. CASE ReaderData
  <2>1. /\ UNCHANGED <<state, localClosed, delivered, inOpen, toPeer, closeInfo>> /\ inOpen
        /\ inq' = inq \/ inq' = Append(inq, Accepted + 1)
    <3>1. Reads("data") /\ state' = state BY <1>4 DEF ReaderData
    <3>2. inOpen BY <1>0, <3>1, ReadsOpen
    <3> QED BY <1>0, <1>4, <3>1, <3>2, AcceptsOne DEF Reads
  <2>2. CASE inq' = inq BY <2>1, <2>2, SameStutters DEF Same, Rest
  <2>3. CASE localClosed BY <2>1, <2>3 DEF Contract!cvars
  <2>4. CASE ~localClosed /\ inq' = Append(inq, Len(delivered) + Len(inq) + 1)
    <3>1. Contract!Arrive BY <2>1, <2>4 DEF Contract!Arrive
    <3> QED BY <3>1 DEF Contract!CNext
  <2> QED BY <2>1, <2>2, <2>3, <2>4 DEF Accepted
<1>5. CASE ReaderPing
  BY <1>5, SameStutters DEF ReaderPing, Reads, Same, Rest
<1>6. CASE ReaderPeerClose
  BY <1>0, <1>6, StartsClosing DEF ReaderPeerClose, Reads, Rest
<1>7. CASE ReaderCapacity
  BY <1>7, SameStutters DEF ReaderCapacity, Reads, Same, Rest
<1>8. CASE ReaderReads \/ ReaderWritesReply
  BY <1>8, SameStutters DEF ReaderReads, ReaderWritesReply, Same, Rest
<1>9. CASE ReaderEnds
  <2>1. inOpen /\ state # "closed"
    <3>1. at["reader"].pc # "done" BY <1>9 DEF ReaderEnds, ReaderLeaves, Awaits, ReadsOn
    <3> QED BY <1>0, <3>1 DEF LockKept, View, EndsLate
  <2>2. closeInfo = Unset /\ peerFrame \in Outcomes \ {Unset}
    BY <2>1 DEF Kept, CauseKept, Typed, FlagsTyped
  <2>3. state' = "closed" BY <1>0, <1>9, <2>1 DEF ReaderEnds, Finalizes, Advance, Rank
  <2>4. Contract!Settle(peerFrame)
    BY <1>9, <2>2, <2>3 DEF ReaderEnds, Finalizes, Contract!Settle
  <2> QED BY <2>2, <2>4 DEF Contract!CNext
<1> QED
  BY <1>1, <1>2, <1>3, <1>4, <1>5, <1>6, <1>7, <1>8, <1>9, TaskNames
     DEF CmdStep, ReaderStep, FlushStep, TransportStep

\* Every step is a step of the contract, or none.
LEMMA StepRefines == Kept /\ View /\ [Next]_vars => [Contract!CNext]_(Contract!cvars)
<1> SUFFICES ASSUME Kept, View, [Next]_vars PROVE [Contract!CNext]_(Contract!cvars)
  OBVIOUS
<1> USE DEF shared, queue, budget, calls, stream, writes, flags, peerVars, seen
<1>1. CASE PeerStep \/ DeadlineExpires
  BY <1>1, SameStutters
     DEF PeerStep, PeerData, PeerPing, PeerBreaks, PeerClose, TransportEnds, PeerOnly,
         DeadlineExpires, Same, Rest
<1>2. CASE UNCHANGED vars BY <1>2, SameStutters DEF vars, Same, Rest
<1> QED BY <1>1, <1>2, GuestRefines, TasksRefine DEF Next

\* It starts where the contract starts.
LEMMA InitRefines == Init => View /\ Contract!CInit
<1> SUFFICES ASSUME Init PROVE View /\ Contract!CInit
  OBVIOUS
<1>1. /\ outbound = <<>> /\ writing = <<>> /\ toPeer = <<>> /\ state = "open"
      /\ localClosed = FALSE /\ inq = <<>> /\ delivered = <<>> /\ inOpen = TRUE
      /\ closeInfo = Unset
  BY DEF Init
<1>2. View BY <1>1 DEF View, PlainKept, Plain, Shows, EndsLate
<1>3. [k \in DOMAIN toPeer |-> IF toPeer[k].kind = "send" THEN "data" ELSE "close"] = <<>>
  BY <1>1
<1> QED BY <1>1, <1>2, <1>3 DEF Contract!CInit

\* The in-guest provider's connection implements the contract that all
\* implementations share (lib.rs, pump.rs against wit/websocket.wit).
THEOREM ProviderImplementsContract == Spec => ImplementsContract
<1>1. Kept /\ View /\ [Next]_vars => View'
  BY PlainNext, EndsLateNext DEF View, Kept
<1>2. Spec => []View BY <1>1, InitRefines, ProviderInductive, PTL DEF Spec
<1>3. Init => Contract!CInit BY InitRefines
<1> QED
  BY <1>2, <1>3, StepRefines, ProviderInductive, PTL
     DEF Spec, ImplementsContract, Contract!CSpec
-----------------------------------------------------------------------------
(***************************************************************************)
(* What the liveness properties rest on: whoever waits, waits for          *)
(* something that ends the wait.                                           *)
(***************************************************************************)
LEMMA InAppend ==
  ASSUME NEW q \in Seq(Frames), NEW f \in Frames
  PROVE  In(f, Append(q, f)) /\ \A e : In(e, q) => In(e, Append(q, f))
<1>1. /\ DOMAIN q = 1 .. Len(q) /\ DOMAIN Append(q, f) = 1 .. Len(q) + 1 /\ Len(q) \in Nat
      /\ \A k \in 1 .. Len(q) : Append(q, f)[k] = q[k]
      /\ Append(q, f)[Len(q) + 1] = f
  BY AppendAt
<1>2. \A k \in DOMAIN q : k \in DOMAIN Append(q, f) /\ Append(q, f)[k] = q[k] BY <1>1
<1>3. Len(q) + 1 \in DOMAIN Append(q, f) BY <1>1
<1> HIDE DEF Frames
<1> QED BY <1>1, <1>2, <1>3 DEF In

LEMMA InTail ==
  ASSUME NEW q \in Seq(Frames), q # <<>>
  PROVE  \A e : In(e, q) => e = Head(q) \/ In(e, Tail(q))
<1>1. /\ DOMAIN Tail(q) = 1 .. Len(q) - 1 /\ DOMAIN q = 1 .. Len(q) /\ Head(q) = q[1]
      /\ Len(q) \in Nat /\ Len(q) >= 1 /\ \A k \in 1 .. Len(q) - 1 : Tail(q)[k] = q[k + 1]
  BY TailAt
<1>2. \A k \in DOMAIN q : k = 1 \/ (k - 1 \in DOMAIN Tail(q) /\ Tail(q)[k - 1] = q[k])
  BY <1>1
<1> HIDE DEF Frames
<1> QED BY <1>1, <1>2 DEF In

\* A close that the command task has not taken.
HasClose(q) == \E k \in DOMAIN q : q[k].kind = "close"

LEMMA HasCloseSteps ==
  ASSUME NEW q \in Seq(Frames)
  PROVE  /\ \A f \in Frames : HasClose(q) \/ f.kind = "close" => HasClose(Append(q, f))
         /\ q # <<>> /\ HasClose(q) => Head(q).kind = "close" \/ HasClose(Tail(q))
<1>1. \A r : HasClose(r) <=> \E e : In(e, r) /\ e.kind = "close" BY DEF HasClose, In
<1>2. ASSUME NEW f \in Frames, HasClose(q) \/ f.kind = "close" PROVE HasClose(Append(q, f))
  <2> HIDE DEF Frames
  <2> QED BY <1>1, <1>2, InAppend
<1>3. ASSUME q # <<>>, HasClose(q) PROVE Head(q).kind = "close" \/ HasClose(Tail(q))
  <2> HIDE DEF Frames
  <2> QED BY <1>1, <1>3, InTail
<1> QED BY <1>2, <1>3

-----------------------------------------------------------------------------
\* A closing connection has a deadline, a local close one or its command, and so
\* has a write that waits for one.
TimedKept ==
  /\ wireClosing => deadline # "none"
  /\ localClosed /\ ~closed => deadline # "none" \/ HasClose(cmdq)
  /\ writeLock # NoCall /\ bound = "deadline" => deadline # "none"

\* A flush does not wait for a deadline that is not armed.
LEMMA FlushesTimed ==
  ASSUME NEW t, NEW then, NEW out, Flushes(t, then, out),
         deadline # "none" => deadline' # "none",
         writeLock # NoCall /\ bound = "deadline" => deadline # "none"
  PROVE  writeLock' # NoCall /\ bound' = "deadline" => deadline' # "none"
<1>1. CASE writeLock # NoCall BY <1>1 DEF Flushes
<1>2. CASE writeLock = NoCall
  <2>1. CASE out = <<>> \/ writeDead BY <1>2, <2>1 DEF Flushes, Writes
  <2>2. CASE ~(out = <<>> \/ writeDead) BY <1>2, <2>2 DEF Flushes, Writes
  <2> QED BY <2>1, <2>2
<1> QED BY <1>1, <1>2

\* A close arms the deadline before it flushes, if the one before has not.
LEMMA BeginsCloseTimed ==
  ASSUME TimedKept, NEW t, NEW then, NEW code, BeginsClose(t, then, code)
  PROVE  /\ wireClosing' /\ deadline' # "none"
         /\ writeLock' # NoCall /\ bound' = "deadline" => deadline' # "none"
<1>1. CASE wireClosing BY <1>1 DEF BeginsClose, TimedKept
<1>2. CASE ~wireClosing BY <1>2 DEF BeginsClose, Armed
<1> QED BY <1>1, <1>2

LEMMA TimedNext == Typed /\ LockKept /\ TimedKept /\ [Next]_vars => TimedKept'
<1> SUFFICES ASSUME Typed, LockKept, TimedKept, [Next]_vars PROVE TimedKept'
  OBVIOUS
<1> USE DEF shared, queue, budget, calls, stream, writes, flags, peerVars, seen
<1>0. OutTyped /\ cmdq \in Seq(Frames) BY DEF Typed, OutTyped
<1>1. ASSUME UNCHANGED <<wireClosing, deadline, writeLock, bound>>, localClosed' = localClosed,
             closed => closed', HasClose(cmdq) => HasClose(cmdq')
      PROVE  TimedKept'
  BY <1>1 DEF TimedKept
<1>2. ASSUME UNCHANGED <<wireClosing, deadline, writeLock, bound, localClosed, closed, cmdq>>
      PROVE  TimedKept'
  BY <1>1, <1>2
<1>3. ASSUME NEW code \in ClientCodes, Closes(code),
             UNCHANGED <<wireClosing, deadline, writeLock, bound>>
      PROVE  TimedKept'
  <2>1. HasClose(cmdq') BY <1>0, <1>3, FrameKinds, HasCloseSteps DEF Closes
  <2> QED BY <1>3, <2>1 DEF TimedKept
<1>4. ASSUME NEW f \in Frames, cmdq' = Append(cmdq, f) PROVE HasClose(cmdq) => HasClose(cmdq')
  BY <1>0, <1>4, HasCloseSteps
<1>5. ASSUME NEW kind, CmdReady(kind), kind # "close" PROVE HasClose(cmdq) => HasClose(cmdq')
  BY <1>0, <1>5, HasCloseSteps DEF CmdReady
<1>6. CASE GuestCalls
  <2>1. ASSUME NEW s \in Sends, Send(s) PROVE TimedKept'
    <3>1. cmdq' = cmdq \/ cmdq' = Append(cmdq, DataFrame(s)) BY <2>1 DEF Send
    <3>2. HasClose(cmdq) => HasClose(cmdq') BY <1>4, <3>1, FrameKinds
    <3>3. UNCHANGED <<wireClosing, deadline, writeLock, bound, localClosed, closed>>
      BY <2>1 DEF Send
    <3> QED BY <1>1, <3>2, <3>3
  <2>2. ASSUME NEW req \in CloseRequests, Close(req) PROVE TimedKept'
    BY <1>3, <2>2, ClosableCodes DEF Close
  <2>3. CASE Drop
    <3>1. CASE localClosed BY <1>2, <2>3, <3>1 DEF Drop
    <3>2. CASE ~localClosed BY <1>3, <2>3, <3>2, FrameKinds DEF Drop
    <3> QED BY <3>1, <3>2
  <2>4. CASE ReceiveViaStream
    <3>1. /\ cmdq' = Append(cmdq, ClaimStream)
          /\ UNCHANGED <<wireClosing, deadline, writeLock, bound, localClosed, closed>>
      BY <2>4 DEF ReceiveViaStream
    <3> QED BY <1>1, <1>4, <3>1, FrameKinds
  <2>5. ASSUME NEW r \in Receives, Receive(r) PROVE TimedKept' BY <1>2, <2>5 DEF Receive
  <2>6. CASE StreamDropped \/ WaitClosed \/ ElementRead \/ PayloadRead \/ ReaderGone
    BY <1>2, <2>6 DEF StreamDropped, WaitClosed, ElementRead, PayloadRead, ReaderGone, FeederOnly
  <2> QED BY <1>6, <2>1, <2>2, <2>3, <2>4, <2>5, <2>6 DEF GuestCalls
<1>7. CASE FeederStep
  BY <1>2, <1>7 DEF FeederStep, FeederLocks, FeederTakes, FeederEnds, ReaderGone, FeederOnly
<1>8. ASSUME NEW r \in Receives, ReceivePoll(r) PROVE TimedKept'
  BY <1>2, <1>8 DEF ReceivePoll, ReceiveLocks, ReceiveSignalled, ReceiveTakes, ReceiveEnds
<1>9. ASSUME NEW t, NEW then, NEW out, Flushes(t, then, out),
             UNCHANGED <<wireClosing, deadline, localClosed, closed>>,
             HasClose(cmdq) => HasClose(cmdq')
      PROVE  TimedKept'
  <2>1. writeLock' # NoCall /\ bound' = "deadline" => deadline' # "none"
    BY <1>9, FlushesTimed DEF TimedKept
  <2> QED BY <1>9, <2>1 DEF TimedKept
<1>10. CASE CmdSend
  <2>1. /\ HasClose(cmdq) => HasClose(cmdq')
        /\ UNCHANGED <<wireClosing, deadline, localClosed, closed>>
    BY <1>5, <1>10 DEF CmdSend
  <2>2. CASE Refused BY <1>1, <1>10, <2>1, <2>2 DEF CmdSend
  <2>3. CASE ~Refused BY <1>9, <1>10, <2>1, <2>3 DEF CmdSend, SendsFrame
  <2> QED BY <2>2, <2>3
<1>11. ASSUME NEW t, NEW then, NEW code, BeginsClose(t, then, code),
              UNCHANGED <<localClosed, closed>>
       PROVE  TimedKept'
  BY <1>11, BeginsCloseTimed DEF TimedKept
<1>12. CASE CmdClose
  <2>1. UNCHANGED <<localClosed, closed>> BY <1>12 DEF CmdClose
  <2>2. CASE closed
    <3>1. UNCHANGED <<wireClosing, deadline, writeLock, bound>> BY <1>12, <2>2 DEF CmdClose
    <3> QED BY <2>1, <2>2, <3>1 DEF TimedKept
  <2>3. CASE ~closed BY <1>11, <1>12, <2>1, <2>3 DEF CmdClose
  <2> QED BY <2>2, <2>3
<1>13. CASE CmdClaim BY <1>1, <1>5, <1>13 DEF CmdClaim
<1>14. ASSUME NEW t \in Tasks, FlushStep(t) \/ TransportStep(t) PROVE TimedKept'
  <2>1. CASE Locks(t)
    <3>1. Flushes(t, at[t].then, outbound) BY <2>1 DEF Locks, Flushes
    <3> QED BY <1>9, <2>1, <3>1 DEF Locks
  <2>2. CASE WriteSeesLocalClose(t)
    BY <2>2 DEF WriteSeesLocalClose, WriteOnly, TimedKept, Armed
  <2>3. CASE WriteTimesOut(t)
    BY <2>3 DEF WriteTimesOut, WriteEnds, WriteOnly, TimedKept
  <2>4. CASE WriteTakes(t)
    BY <2>4 DEF WriteTakes, WriteEnds, WriteOnly, TimedKept
  <2>5. CASE WriteFails(t)
    BY <2>5 DEF WriteFails, WriteEnds, WriteOnly, TimedKept, Armed
  <2> QED BY <1>14, <2>1, <2>2, <2>3, <2>4, <2>5 DEF FlushStep, TransportStep
<1>15. CASE ReaderData
  <2>1. UNCHANGED <<localClosed, closed, cmdq>> BY <1>15 DEF ReaderData, Reads
  <2>2. CASE UNCHANGED <<wireClosing, deadline, writes>> BY <1>2, <2>1, <2>2
  <2>3. CASE Overflows BY <1>11, <2>1, <2>3 DEF Overflows
  <2> QED BY <1>15, <2>2, <2>3 DEF ReaderData
<1>16. CASE ReaderPing BY <1>9, <1>16 DEF ReaderPing, Reads
<1>17. CASE ReaderPeerClose
  <2>1. /\ deadline' = Armed(deadline) /\ Flushes("reader", "loop", outbound)
        /\ UNCHANGED <<localClosed, closed>>
    BY <1>17 DEF ReaderPeerClose, Reads
  <2>2. deadline' # "none" BY <2>1 DEF Armed
  <2> QED BY <2>1, <2>2 DEF TimedKept
<1>18. CASE ReaderCapacity BY <1>11, <1>18 DEF ReaderCapacity, Reads
<1>19. CASE ReaderReads \/ ReaderWritesReply
  BY <1>2, <1>19 DEF ReaderReads, ReaderWritesReply
<1>20. CASE ReaderEnds BY <1>1, <1>20 DEF ReaderEnds, Finalizes
<1>21. CASE PeerStep
  BY <1>2, <1>21 DEF PeerStep, PeerData, PeerPing, PeerBreaks, PeerClose, TransportEnds, PeerOnly
<1>22. CASE DeadlineExpires BY <1>22 DEF DeadlineExpires, TimedKept
<1>23. CASE UNCHANGED vars BY <1>2, <1>23 DEF vars
<1> QED
  BY <1>6, <1>7, <1>8, <1>10, <1>12, <1>13, <1>14, <1>15, <1>16, <1>17, <1>18, <1>19, <1>20,
     <1>21, <1>22, <1>23 DEF Next, CmdStep, ReaderStep, Tasks
-----------------------------------------------------------------------------
\* An unanswered send is in the command channel, or a task answers it at the end
\* of its flush.
Flushing(t, s) == at[t].pc \in {"lock", "write"} /\ at[t].then = s

Awaited(s) == In(DataFrame(s), cmdq) \/ \E t \in Tasks : Flushing(t, s)

SendsAwaited == \A s \in Sends : sendSt[s] = "queued" => Awaited(s)

\* As long as `t` answers `then`, the others are awaited.
OthersAwaited(t, then) ==
  \A s \in Sends : sendSt[s] = "queued" =>
    s = then \/ In(DataFrame(s), cmdq') \/ \E u \in Tasks \ {t} : Flushing(u, s)

LEMMA ResumesAwaited ==
  ASSUME OutTyped, NEW t \in Tasks, NEW then \in Thens, NEW result \in {"ok", "closed"},
         Resumes(t, then, result), OthersAwaited(t, then)
  PROVE  SendsAwaited'
<1>1. \A u \in Tasks : u # t => at'[u] = at[u] BY ResumesTyped
<1>2. ASSUME NEW s \in Sends, sendSt'[s] = "queued" PROVE sendSt[s] = "queued" /\ s # then
  <2>1. CASE then \in Sends
    <3>1. sendSt' = [sendSt EXCEPT ![then] = result] BY <2>1 DEF Resumes
    <3> QED BY <1>2, <2>1, <3>1 DEF OutTyped
  <2>2. CASE then \notin Sends BY <1>2, <2>2 DEF Resumes
  <2> QED BY <2>1, <2>2
<1>3. ASSUME NEW s \in Sends, sendSt'[s] = "queued" PROVE Awaited(s)'
  <2>1. In(DataFrame(s), cmdq') \/ \E u \in Tasks \ {t} : Flushing(u, s)
    BY <1>2, <1>3 DEF OthersAwaited
  <2>2. ASSUME NEW u \in Tasks \ {t}, Flushing(u, s) PROVE Flushing(u, s)'
    BY <1>1, <2>2 DEF Flushing
  <2> QED BY <2>1, <2>2 DEF Awaited, In, DataFrame
<1> QED BY <1>3 DEF SendsAwaited

LEMMA WaitsAwaited ==
  ASSUME OutTyped, NEW t \in Tasks, NEW then \in Thens, NEW pc \in {"lock", "write"},
         at' = [at EXCEPT ![t] = [pc |-> pc, then |-> then]], sendSt' = sendSt,
         OthersAwaited(t, then)
  PROVE  SendsAwaited'
<1>1. at'[t].pc = pc /\ at'[t].then = then /\ \A u \in Tasks : u # t => at'[u] = at[u]
  BY WaitsTyped
<1>2. ASSUME NEW s \in Sends, sendSt'[s] = "queued" PROVE Awaited(s)'
  <2>1. \/ s = then \/ In(DataFrame(s), cmdq')
        \/ \E u \in Tasks \ {t} : Flushing(u, s)
    BY <1>2 DEF OthersAwaited
  <2>2. ASSUME NEW u \in Tasks \ {t}, Flushing(u, s) PROVE Flushing(u, s)'
    BY <1>1, <2>2 DEF Flushing
  <2>3. s = then => Flushing(t, s)' BY <1>1 DEF Flushing
  <2> QED BY <2>1, <2>2, <2>3 DEF Awaited, In, DataFrame
<1> QED BY <1>2 DEF SendsAwaited

LEMMA FlushesAwaited ==
  ASSUME OutTyped, NEW t \in Tasks, NEW then \in Thens, NEW out,
         Flushes(t, then, out), OthersAwaited(t, then)
  PROVE  SendsAwaited'
<1>1. CASE writeLock = NoCall /\ (out = <<>> \/ writeDead)
  <2>1. Resumes(t, then, UnwrittenResult(out)) BY <1>1 DEF Flushes, Writes
  <2>2. UnwrittenResult(out) \in {"ok", "closed"} BY DEF UnwrittenResult
  <2> QED BY <2>1, <2>2, ResumesAwaited
<1>2. CASE writeLock = NoCall /\ ~(out = <<>> \/ writeDead)
  <2>1. at' = [at EXCEPT ![t] = [pc |-> "write", then |-> then]] /\ sendSt' = sendSt
    BY <1>2 DEF Flushes, Writes
  <2> QED BY <2>1, WaitsAwaited
<1>3. CASE writeLock # NoCall
  <2>1. at' = [at EXCEPT ![t] = [pc |-> "lock", then |-> then]] /\ sendSt' = sendSt
    BY <1>3 DEF Flushes
  <2> QED BY <2>1, WaitsAwaited
<1> QED BY <1>1, <1>2, <1>3

LEMMA BeginsCloseAwaited ==
  ASSUME OutTyped, NEW t \in Tasks, NEW then \in {"loop", "end"}, NEW code,
         BeginsClose(t, then, code), OthersAwaited(t, then)
  PROVE  SendsAwaited'
<1>0. then \in Thens BY DEF Thens
<1>1. CASE wireClosing BY <1>0, <1>1, ResumesAwaited DEF BeginsClose
<1>2. CASE ~wireClosing BY <1>0, <1>2, FlushesAwaited DEF BeginsClose, SendsFrame
<1> QED BY <1>1, <1>2

LEMMA AwaitedNext == Typed /\ LockKept /\ SendsAwaited /\ [Next]_vars => SendsAwaited'
<1> SUFFICES ASSUME Typed, LockKept, SendsAwaited, [Next]_vars PROVE SendsAwaited'
  OBVIOUS
<1> USE DEF shared, queue, budget, calls, stream, writes, flags, peerVars, seen
<1>0. /\ OutTyped /\ cmdq \in Seq(Frames)
      /\ sendSt \in [Sends -> {"unused", "queued", "ok", "closed"}]
  BY DEF Typed, OutTyped
\* The channel keeps every message.
<1>1. ASSUME UNCHANGED <<at, sendSt>>, \A s \in Sends : In(DataFrame(s), cmdq) => In(DataFrame(s), cmdq')
      PROVE  SendsAwaited'
  BY <1>1 DEF SendsAwaited, Awaited, Flushing, In, DataFrame
<1>2. ASSUME UNCHANGED <<at, sendSt, cmdq>> PROVE SendsAwaited' BY <1>1, <1>2
<1>3. ASSUME NEW f \in Frames, cmdq' = Append(cmdq, f), UNCHANGED <<at, sendSt>>
      PROVE  SendsAwaited'
  BY <1>0, <1>1, <1>3, InAppend
<1>4. ASSUME NEW kind, CmdReady(kind)
      PROVE  /\ Head(cmdq) \in Frames /\ Head(cmdq).kind = kind /\ at["cmd"].pc = "loop"
             /\ \A s \in Sends : In(DataFrame(s), cmdq) =>
                  \/ kind = "send" /\ s = Head(cmdq).from
                  \/ In(DataFrame(s), cmdq')
  <2>1. cmdq # <<>> /\ cmdq' = Tail(cmdq) /\ Head(cmdq).kind = kind /\ at["cmd"].pc = "loop"
    BY <1>4 DEF CmdReady
  <2>2. \A s \in Sends : In(DataFrame(s), cmdq) => DataFrame(s) = Head(cmdq) \/ In(DataFrame(s), cmdq')
    BY <1>0, <2>1, InTail
  <2>3. Head(cmdq) \in Frames BY <1>0, <2>1, TailAt
  <2>4. \A s \in Sends : DataFrame(s).kind = "send" /\ DataFrame(s).from = s BY FrameKinds
  <2> QED BY <2>1, <2>2, <2>3, <2>4
\* A task in its loop has no send to answer; one that flushes answers its own.
<1>5. ASSUME NEW t \in Tasks, NEW then,
             at[t].pc \in {"lock", "write"} => then = at[t].then,
             \A s \in Sends : In(DataFrame(s), cmdq) => s = then \/ In(DataFrame(s), cmdq')
      PROVE  OthersAwaited(t, then)
  BY <1>5 DEF OthersAwaited, SendsAwaited, Awaited, Flushing
<1>6. CASE GuestCalls
  <2>1. ASSUME NEW s \in Sends, Send(s) PROVE SendsAwaited'
    <3>1. CASE localClosed
      <4>1. sendSt' = [sendSt EXCEPT ![s] = "closed"] /\ UNCHANGED <<cmdq, at>>
        BY <2>1, <3>1 DEF Send
      <4>2. \A r \in Sends : sendSt'[r] = "queued" => sendSt[r] = "queued" BY <1>0, <4>1
      <4> QED BY <4>1, <4>2 DEF SendsAwaited, Awaited, Flushing, In
    <3>2. CASE ~localClosed
      <4>1. /\ sendSt' = [sendSt EXCEPT ![s] = "queued"] /\ cmdq' = Append(cmdq, DataFrame(s))
            /\ at' = at
        BY <2>1, <3>2 DEF Send
      <4>2. In(DataFrame(s), cmdq') /\ \A e : In(e, cmdq) => In(e, cmdq')
        BY <1>0, <4>1, FrameKinds, InAppend
      <4>3. \A r \in Sends : r # s /\ sendSt'[r] = "queued" => sendSt[r] = "queued"
        BY <1>0, <4>1
      <4>4. ASSUME NEW r \in Sends, sendSt'[r] = "queued" PROVE Awaited(r)'
        <5>1. CASE r = s BY <4>2, <5>1 DEF Awaited, In, DataFrame
        <5>2. CASE r # s
          <6>1. Awaited(r) BY <4>3, <4>4, <5>2 DEF SendsAwaited
          <6> QED BY <4>1, <4>2, <6>1 DEF Awaited, Flushing, In, DataFrame
        <5> QED BY <5>1, <5>2
      <4> QED BY <4>4 DEF SendsAwaited
    <3> QED BY <3>1, <3>2
  <2>2. ASSUME NEW req \in CloseRequests, Close(req) PROVE SendsAwaited'
    BY <1>3, <2>2, ClosableCodes, FrameKinds DEF Close, Closes
  <2>3. CASE Drop
    <3>1. CASE localClosed BY <1>2, <2>3, <3>1 DEF Drop
    <3>2. CASE ~localClosed BY <1>3, <2>3, <3>2, FrameKinds DEF Drop, Closes
    <3> QED BY <3>1, <3>2
  <2>4. CASE ReceiveViaStream BY <1>3, <2>4, FrameKinds DEF ReceiveViaStream
  <2>5. ASSUME NEW r \in Receives, Receive(r) PROVE SendsAwaited' BY <1>2, <2>5 DEF Receive
  <2>6. CASE StreamDropped \/ WaitClosed \/ ElementRead \/ PayloadRead \/ ReaderGone
    BY <1>2, <2>6 DEF StreamDropped, WaitClosed, ElementRead, PayloadRead, ReaderGone, FeederOnly
  <2> QED BY <1>6, <2>1, <2>2, <2>3, <2>4, <2>5, <2>6 DEF GuestCalls
<1>7. CASE FeederStep
  BY <1>2, <1>7 DEF FeederStep, FeederLocks, FeederTakes, FeederEnds, ReaderGone, FeederOnly
<1>8. ASSUME NEW r \in Receives, ReceivePoll(r) PROVE SendsAwaited'
  BY <1>2, <1>8 DEF ReceivePoll, ReceiveLocks, ReceiveSignalled, ReceiveTakes, ReceiveEnds
<1>9. CASE CmdSend
  <2> DEFINE s == Head(cmdq).from
  <2>1. CmdReady("send") BY <1>9 DEF CmdSend
  <2>2. s \in Sends /\ s \in Thens BY <1>4, <2>1, FrameKinds DEF Thens
  <2>3. OthersAwaited("cmd", s) BY <1>4, <1>5, <2>1, TaskNames
  <2>4. CASE Refused
    <3>1. sendSt' = [sendSt EXCEPT ![s] = "closed"] /\ at' = at BY <1>9, <2>4 DEF CmdSend
    <3>2. \A r \in Sends : sendSt'[r] = "queued" => r # s /\ sendSt[r] = "queued"
      BY <1>0, <2>2, <3>1
    <3>3. ASSUME NEW r \in Sends, sendSt'[r] = "queued" PROVE Awaited(r)'
      <4>1. In(DataFrame(r), cmdq') \/ \E u \in Tasks \ {"cmd"} : Flushing(u, r)
        BY <2>3, <3>2, <3>3 DEF OthersAwaited
      <4> QED BY <3>1, <4>1 DEF Awaited, Flushing, In, DataFrame
    <3> QED BY <3>3 DEF SendsAwaited
  <2>5. CASE ~Refused
    <3>1. Flushes("cmd", s, WithReply(Append(outbound, Head(cmdq))))
      BY <1>9, <2>5 DEF CmdSend, SendsFrame
    <3> QED BY <1>0, <2>2, <2>3, <3>1, FlushesAwaited, TaskNames
  <2> QED BY <2>4, <2>5
<1>10. ASSUME NEW t \in Tasks, NEW then \in {"loop", "end"}, NEW code, at[t].pc = "loop",
              BeginsClose(t, then, code),
              \A s \in Sends : In(DataFrame(s), cmdq) => In(DataFrame(s), cmdq')
       PROVE  SendsAwaited'
  <2>1. OthersAwaited(t, then) BY <1>5, <1>10
  <2> QED BY <1>0, <1>10, <2>1, BeginsCloseAwaited
<1>11. CASE CmdClose
  <2>1. at["cmd"].pc = "loop" /\ \A s \in Sends : In(DataFrame(s), cmdq) => In(DataFrame(s), cmdq')
    BY <1>4, <1>11 DEF CmdClose
  <2>2. CASE closed BY <1>1, <1>11, <2>1, <2>2 DEF CmdClose
  <2>3. CASE ~closed
    <3>1. BeginsClose("cmd", "loop", Head(cmdq).code) BY <1>11, <2>3 DEF CmdClose
    <3> QED BY <1>10, <2>1, <3>1, TaskNames
  <2> QED BY <2>2, <2>3
<1>12. CASE CmdClaim
  <2>1. \A s \in Sends : In(DataFrame(s), cmdq) => In(DataFrame(s), cmdq')
    BY <1>4, <1>12 DEF CmdClaim
  <2> QED BY <1>1, <1>12, <2>1 DEF CmdClaim
<1>13. ASSUME NEW t \in Tasks, FlushStep(t) \/ TransportStep(t) PROVE SendsAwaited'
  <2>1. at[t].then \in Thens BY <1>0 DEF OutTyped, Places, Thens
  <2>2. cmdq' = cmdq => OthersAwaited(t, at[t].then)
    <3>1. cmdq' = cmdq => \A s \in Sends : In(DataFrame(s), cmdq) => In(DataFrame(s), cmdq')
      OBVIOUS
    <3> QED BY <1>5, <3>1
  <2>3. CASE Locks(t)
    <3>1. Flushes(t, at[t].then, outbound) /\ cmdq' = cmdq BY <2>3 DEF Locks, Flushes
    <3> QED BY <1>0, <2>1, <2>2, <3>1, FlushesAwaited
  <2>4. ASSUME NEW result \in {"ok", "closed"}, WriteEnds(t, result), cmdq' = cmdq
        PROVE  SendsAwaited'
    BY <1>0, <2>1, <2>2, <2>4, ResumesAwaited DEF WriteEnds
  <2>5. CASE WriteSeesLocalClose(t) BY <1>2, <2>5 DEF WriteSeesLocalClose, WriteOnly
  <2>6. CASE WriteTimesOut(t) \/ WriteFails(t)
    BY <2>4, <2>6 DEF WriteTimesOut, WriteFails, WriteOnly
  <2>7. CASE WriteTakes(t) BY <1>2, <2>4, <2>7 DEF WriteTakes, WriteOnly
  <2> QED BY <1>13, <2>3, <2>5, <2>6, <2>7 DEF FlushStep, TransportStep
<1>14. CASE ReaderData
  <2>1. at["reader"].pc = "loop" /\ cmdq' = cmdq BY <1>14 DEF ReaderData, Reads, ReadsOn
  <2>2. CASE UNCHANGED <<sendSt, writes>> BY <1>2, <2>1, <2>2
  <2>3. CASE Overflows BY <1>10, <2>1, <2>3, TaskNames DEF Overflows
  <2> QED BY <1>14, <2>2, <2>3 DEF ReaderData
<1>15. ASSUME NEW out, Flushes("reader", "loop", out), at["reader"].pc = "loop", cmdq' = cmdq
       PROVE  SendsAwaited'
  <2>1. "loop" \in Thens BY DEF Thens
  <2>2. OthersAwaited("reader", "loop") BY <1>5, <1>15, TaskNames
  <2> QED BY <1>0, <1>15, <2>1, <2>2, FlushesAwaited, TaskNames
<1>16. CASE ReaderPing \/ ReaderPeerClose
  BY <1>15, <1>16 DEF ReaderPing, ReaderPeerClose, Reads, ReadsOn
<1>17. CASE ReaderCapacity
  <2>1. at["reader"].pc = "loop" /\ cmdq' = cmdq /\ BeginsClose("reader", "end", NoCode)
    BY <1>17 DEF ReaderCapacity, Reads, ReadsOn
  <2> QED BY <1>10, <2>1, TaskNames
<1>18. CASE ReaderReads \/ ReaderWritesReply
  BY <1>2, <1>18 DEF ReaderReads, ReaderWritesReply
<1>19. CASE ReaderEnds
  <2>1. at["reader"].pc \in {"loop", "end"} BY <1>19 DEF ReaderEnds, ReaderLeaves, Awaits, ReadsOn
  <2>2. UNCHANGED <<cmdq, sendSt>> /\ \A u \in Tasks : u # "reader" => at'[u] = at[u]
    BY <1>0, <1>19 DEF ReaderEnds, OutTyped
  <2>3. ASSUME NEW u \in Tasks, NEW s, Flushing(u, s) PROVE Flushing(u, s)'
    BY <2>1, <2>2, <2>3 DEF Flushing
  <2>4. ASSUME NEW s \in Sends, sendSt'[s] = "queued" PROVE Awaited(s)'
    BY <2>2, <2>3, <2>4 DEF SendsAwaited, Awaited
  <2> QED BY <2>4 DEF SendsAwaited
<1>20. CASE PeerStep
  BY <1>2, <1>20 DEF PeerStep, PeerData, PeerPing, PeerBreaks, PeerClose, TransportEnds, PeerOnly
<1>21. CASE DeadlineExpires BY <1>2, <1>21 DEF DeadlineExpires
<1>22. CASE UNCHANGED vars BY <1>2, <1>22 DEF vars
<1> QED
  BY <1>6, <1>7, <1>8, <1>9, <1>11, <1>12, <1>13, <1>14, <1>16, <1>17, <1>18, <1>19, <1>20,
     <1>21, <1>22 DEF Next, CmdStep, ReaderStep, Tasks
-----------------------------------------------------------------------------
\* A claim is one command, put with the claim and taken with the feeder's spawn.
OneClaim(q) == \A j, k \in DOMAIN q : q[j].kind = "claim" /\ q[k].kind = "claim" => j = k

ClaimKept(q, taken, runs) ==
  IF taken /\ ~runs THEN In(ClaimStream, q) /\ OneClaim(q) ELSE Plain(q)

LEMMA ClaimPut ==
  ASSUME NEW q \in Seq(Frames), NEW f \in Frames
  PROVE  /\ Plain(q) => OneClaim(Append(q, f))
         /\ OneClaim(q) /\ f.kind # "claim" => OneClaim(Append(q, f))
<1>1. /\ DOMAIN q = 1 .. Len(q) /\ DOMAIN Append(q, f) = 1 .. Len(q) + 1 /\ Len(q) \in Nat
      /\ \A k \in 1 .. Len(q) : Append(q, f)[k] = q[k]
      /\ Append(q, f)[Len(q) + 1] = f
  BY AppendAt
<1> DEFINE p == Append(q, f)
<1>2. ASSUME NEW k \in DOMAIN p
      PROVE  (k \in DOMAIN q /\ p[k] = q[k]) \/ (k = Len(q) + 1 /\ p[k] = f)
  <2>1. k \in 1 .. Len(q) \/ k = Len(q) + 1 BY <1>1, <1>2
  <2> QED BY <1>1, <2>1
<1> HIDE DEF Frames, p
<1> QED BY <1>2 DEF Plain, OneClaim, p

LEMMA ClaimTaken ==
  ASSUME NEW q \in Seq(Frames), q # <<>>, OneClaim(q)
  PROVE  IF Head(q).kind = "claim" THEN Plain(Tail(q)) ELSE OneClaim(Tail(q))
<1>1. /\ DOMAIN Tail(q) = 1 .. Len(q) - 1 /\ DOMAIN q = 1 .. Len(q) /\ Head(q) = q[1]
      /\ Len(q) \in Nat /\ Len(q) >= 1 /\ \A k \in 1 .. Len(q) - 1 : Tail(q)[k] = q[k + 1]
  BY TailAt
<1>2. \A k \in DOMAIN Tail(q) : k \in Int /\ k + 1 \in DOMAIN q /\ k + 1 # 1 /\ Tail(q)[k] = q[k + 1]
  BY <1>1
<1>3. 1 \in DOMAIN q BY <1>1
<1>4. CASE Head(q).kind = "claim" BY <1>1, <1>2, <1>3, <1>4 DEF OneClaim, Plain
<1>5. ASSUME NEW j \in DOMAIN Tail(q), NEW k \in DOMAIN Tail(q), Tail(q)[j].kind = "claim",
             Tail(q)[k].kind = "claim"
      PROVE  j = k
  <2>1. j + 1 = k + 1 BY <1>2, <1>5 DEF OneClaim
  <2> QED BY <1>2, <2>1
<1> QED BY <1>4, <1>5 DEF OneClaim

\* Any other command put or taken leaves it as it is.
LEMMA ClaimStays ==
  ASSUME NEW q \in Seq(Frames), NEW taken, NEW runs, ClaimKept(q, taken, runs)
  PROVE  /\ \A f \in Frames : f.kind # "claim" => ClaimKept(Append(q, f), taken, runs)
         /\ q # <<>> /\ Head(q).kind # "claim" => ClaimKept(Tail(q), taken, runs)
<1>1. ASSUME NEW f \in Frames, f.kind # "claim" PROVE ClaimKept(Append(q, f), taken, runs)
  BY <1>1, ClaimPut, InAppend, PlainAppend DEF ClaimKept
<1>2. ASSUME q # <<>>, Head(q).kind # "claim" PROVE ClaimKept(Tail(q), taken, runs)
  BY <1>2, ClaimTaken, InTail, PlainTail, FrameKinds DEF ClaimKept
<1> QED BY <1>1, <1>2

\* Who holds the lock around the inbound queue goes on to release it.
HolderKept ==
  /\ queueLock \in Receives => recvSt[queueLock] = "pending"
  /\ queueLock = "feeder" <=> feeder \in {"next", "element", "payload"}

FeederKept ==
  /\ ~claimed => feeder = "none"
  /\ ClaimKept(cmdq, claimed, feeder # "none")

LEMMA HolderNext == Typed /\ HolderKept /\ FeederKept /\ [Next]_vars => HolderKept'
<1> SUFFICES ASSUME Typed, HolderKept, FeederKept, [Next]_vars PROVE HolderKept'
  OBVIOUS
<1> USE DEF shared, queue, budget, calls, stream, writes, flags, peerVars, seen
<1>0. /\ recvSt \in [Receives -> {"unused", "pending", "message", "viaStream",
                                  "overflow", "closed"}]
      /\ queueLock \in Receives \cup {NoCall, "feeder"}
      /\ "feeder" \notin Receives /\ NoCall \notin Receives /\ NoCall # "feeder"
  BY ProviderCallsAssumption DEF Typed, InboxTyped
<1>1. ASSUME UNCHANGED <<queueLock, recvSt, feeder>> PROVE HolderKept'
  BY <1>1 DEF HolderKept
<1>2. ASSUME NEW r \in Receives, NEW outcome, ReceiveResolves(r, outcome), feeder' = feeder
      PROVE  HolderKept'
  BY <1>0, <1>2 DEF ReceiveResolves, HolderKept
<1>3. CASE GuestCalls
  <2>1. ASSUME NEW r \in Receives, Receive(r) PROVE HolderKept'
    <3>1. /\ recvSt[r] = "unused" /\ feeder' = feeder
          /\ queueLock' = queueLock \/ (queueLock' = r /\ queueLock = NoCall)
          /\ \A q \in Receives : q # r => recvSt'[q] = recvSt[q]
          /\ queueLock' # queueLock => recvSt'[r] = "pending"
      BY <1>0, <2>1 DEF Receive
    <3>2. queueLock \in Receives => queueLock # r BY <3>1 DEF HolderKept
    <3> QED BY <1>0, <3>1, <3>2 DEF HolderKept
  <2>2. CASE ElementRead \/ PayloadRead
    BY <1>0, <2>2 DEF ElementRead, PayloadRead, FeederOnly, HolderKept
  <2>3. CASE ReaderGone BY <1>0, <2>3 DEF ReaderGone, FeederStops, FeederOnly, HolderKept
  <2> QED
    BY <1>1, <1>3, <2>1, <2>2, <2>3
       DEF GuestCalls, Send, Close, Drop, ReceiveViaStream, StreamDropped, WaitClosed
<1>4. CASE FeederStep
  <2>1. CASE FeederLocks BY <1>0, <2>1 DEF FeederLocks, FeederOnly, HolderKept
  <2>2. CASE FeederTakes BY <1>0, <2>2 DEF FeederTakes, FeederOnly, HolderKept
  <2>3. CASE FeederEnds \/ ReaderGone
    BY <1>0, <2>3 DEF FeederEnds, ReaderGone, FeederStops, FeederOnly, HolderKept
  <2> QED BY <1>4, <2>1, <2>2, <2>3 DEF FeederStep
<1>5. ASSUME NEW r \in Receives, ReceivePoll(r) PROVE HolderKept'
  <2>1. CASE ReceiveLocks(r) BY <1>0, <2>1 DEF ReceiveLocks, HolderKept
  <2>2. CASE ReceiveSignalled(r) BY <1>2, <2>2 DEF ReceiveSignalled
  <2>3. CASE ReceiveTakes(r) BY <1>2, <2>3 DEF ReceiveTakes
  <2>4. CASE ReceiveEnds(r) BY <1>2, <2>4 DEF ReceiveEnds
  <2> QED BY <1>5, <2>1, <2>2, <2>3, <2>4 DEF ReceivePoll
<1>6. CASE CmdSend \/ CmdClose BY <1>1, <1>6 DEF CmdSend, CmdClose
<1>7. CASE CmdClaim
  <2>1. cmdq # <<>> /\ Head(cmdq).kind = "claim" /\ feeder' = "locking" /\ UNCHANGED <<queueLock, recvSt>>
    BY <1>7 DEF CmdClaim, CmdReady
  <2>2. cmdq \in Seq(Frames) BY DEF Typed, OutTyped
  <2>3. feeder = "none" BY <2>1, <2>2, PlainTail DEF FeederKept, ClaimKept
  <2> QED BY <2>1, <2>3 DEF HolderKept
<1>8. ASSUME NEW t \in Tasks, FlushStep(t) \/ TransportStep(t) PROVE HolderKept'
  BY <1>1, <1>8 DEF FlushStep, TransportStep, Locks, WriteSeesLocalClose, WriteTimesOut,
     WriteTakes, WriteFails, WriteOnly
<1>9. CASE ReaderStep /\ ~FlushStep("reader")
  BY <1>1, <1>9 DEF ReaderStep, ReaderData, ReaderPing, ReaderPeerClose, ReaderCapacity, ReaderReads,
     ReaderEnds, ReaderWritesReply, Reads
<1>10. CASE PeerStep \/ DeadlineExpires
  BY <1>1, <1>10 DEF PeerStep, PeerData, PeerPing, PeerBreaks, PeerClose, TransportEnds,
     PeerOnly, DeadlineExpires
<1>11. CASE UNCHANGED vars BY <1>1, <1>11 DEF vars
<1> QED
  BY <1>3, <1>4, <1>5, <1>6, <1>7, <1>8, <1>9, <1>10, <1>11 DEF Next, CmdStep, ReaderStep, Tasks

LEMMA FeederNext == Typed /\ FeederKept /\ [Next]_vars => FeederKept'
<1> SUFFICES ASSUME Typed, FeederKept, [Next]_vars PROVE FeederKept'
  OBVIOUS
<1> USE DEF shared, queue, budget, calls, stream, writes, flags, peerVars, seen
<1>0. cmdq \in Seq(Frames) /\ claimed \in BOOLEAN BY DEF Typed, OutTyped, FlagsTyped
<1>1. ASSUME UNCHANGED claimed, feeder' = feeder \/ (feeder # "none" /\ feeder' # "none"),
             ClaimKept(cmdq', claimed, feeder # "none")
      PROVE  FeederKept'
  BY <1>1 DEF FeederKept, ClaimKept, In, OneClaim, Plain, ClaimStream
<1>2. ASSUME UNCHANGED <<claimed, cmdq>>, feeder' = feeder \/ (feeder # "none" /\ feeder' # "none")
      PROVE  FeederKept'
  BY <1>1, <1>2 DEF FeederKept
<1>3. ASSUME NEW f \in Frames, f.kind # "claim", cmdq' = Append(cmdq, f), UNCHANGED <<claimed, feeder>>
      PROVE  FeederKept'
  BY <1>0, <1>1, <1>3, ClaimStays DEF FeederKept
<1>4. ASSUME NEW kind, CmdReady(kind), kind # "claim", UNCHANGED <<claimed, feeder>>
      PROVE  FeederKept'
  BY <1>0, <1>1, <1>4, ClaimStays DEF FeederKept, CmdReady
<1>5. CASE GuestCalls
  <2>1. ASSUME NEW s \in Sends, Send(s) PROVE FeederKept'
    BY <1>2, <1>3, <2>1, FrameKinds DEF Send
  <2>2. ASSUME NEW req \in CloseRequests, Close(req) PROVE FeederKept'
    BY <1>3, <2>2, ClosableCodes, FrameKinds DEF Close, Closes
  <2>3. CASE Drop BY <1>2, <1>3, <2>3, FrameKinds DEF Drop, Closes
  <2>4. CASE ReceiveViaStream
    <3>1. /\ ~claimed /\ claimed' = TRUE /\ cmdq' = Append(cmdq, ClaimStream) /\ feeder' = feeder
      BY <2>4 DEF ReceiveViaStream
    <3>2. feeder = "none" /\ Plain(cmdq) BY <3>1 DEF FeederKept, ClaimKept
    <3>3. In(ClaimStream, cmdq') /\ OneClaim(cmdq')
      BY <1>0, <3>1, <3>2, FrameKinds, InAppend, ClaimPut
    <3> QED BY <3>1, <3>2, <3>3 DEF FeederKept, ClaimKept, In, OneClaim, ClaimStream
  <2>5. ASSUME NEW r \in Receives, Receive(r) PROVE FeederKept' BY <1>2, <2>5 DEF Receive
  <2>6. CASE StreamDropped \/ WaitClosed BY <1>2, <2>6 DEF StreamDropped, WaitClosed
  <2>7. CASE ElementRead \/ PayloadRead \/ ReaderGone
    BY <1>2, <2>7 DEF ElementRead, PayloadRead, ReaderGone, FeederStops, FeederOnly
  <2> QED BY <1>5, <2>1, <2>2, <2>3, <2>4, <2>5, <2>6, <2>7 DEF GuestCalls
<1>6. CASE FeederStep
  BY <1>2, <1>6 DEF FeederStep, FeederLocks, FeederTakes, FeederEnds, ReaderGone, FeederStops,
     FeederOnly
<1>7. ASSUME NEW r \in Receives, ReceivePoll(r) PROVE FeederKept'
  BY <1>2, <1>7 DEF ReceivePoll, ReceiveLocks, ReceiveSignalled, ReceiveTakes, ReceiveEnds
<1>8. CASE CmdSend \/ CmdClose BY <1>4, <1>8 DEF CmdSend, CmdClose
<1>9. CASE CmdClaim
  <2>1. /\ cmdq # <<>> /\ Head(cmdq).kind = "claim" /\ cmdq' = Tail(cmdq) /\ feeder' = "locking"
        /\ claimed' = claimed
    BY <1>9 DEF CmdClaim, CmdReady
  <2>2. claimed /\ OneClaim(cmdq) BY <1>0, <2>1, PlainTail DEF FeederKept, ClaimKept
  <2>3. Plain(cmdq') BY <1>0, <2>1, <2>2, ClaimTaken
  <2> QED BY <2>1, <2>2, <2>3 DEF FeederKept, ClaimKept, Plain
<1>10. ASSUME NEW t \in Tasks, FlushStep(t) \/ TransportStep(t) PROVE FeederKept'
  BY <1>2, <1>10 DEF FlushStep, TransportStep, Locks, WriteSeesLocalClose, WriteTimesOut,
     WriteTakes, WriteFails, WriteOnly
<1>11. CASE ReaderStep /\ ~FlushStep("reader")
  BY <1>2, <1>11 DEF ReaderStep, ReaderData, ReaderPing, ReaderPeerClose, ReaderCapacity, ReaderReads,
     ReaderEnds, ReaderWritesReply, Reads
<1>12. CASE PeerStep \/ DeadlineExpires
  BY <1>2, <1>12 DEF PeerStep, PeerData, PeerPing, PeerBreaks, PeerClose, TransportEnds,
     PeerOnly, DeadlineExpires
<1>13. CASE UNCHANGED vars BY <1>2, <1>13 DEF vars
<1> QED
  BY <1>5, <1>6, <1>7, <1>8, <1>9, <1>10, <1>11, <1>12, <1>13 DEF Next, CmdStep, ReaderStep, Tasks
-----------------------------------------------------------------------------
WaitsKept == TimedKept /\ SendsAwaited /\ HolderKept /\ FeederKept

LEMMA InitWaits == Init => WaitsKept
<1> SUFFICES ASSUME Init PROVE WaitsKept
  OBVIOUS
<1>1. /\ wireClosing = FALSE /\ localClosed = FALSE /\ writeLock = NoCall /\ queueLock = NoCall
      /\ claimed = FALSE /\ feeder = "none" /\ cmdq = <<>>
  BY DEF Init
<1>2. TimedKept BY <1>1 DEF TimedKept
<1>3. SendsAwaited BY DEF Init, SendsAwaited
<1>4. HolderKept BY <1>1, ProviderCallsAssumption DEF HolderKept, Init
<1>5. FeederKept BY <1>1 DEF FeederKept, ClaimKept, Plain
<1> QED BY <1>2, <1>3, <1>4, <1>5 DEF WaitsKept

LEMMA WaitsInductive == Spec => []WaitsKept
<1>1. Kept /\ WaitsKept /\ [Next]_vars => WaitsKept'
  BY TimedNext, AwaitedNext, HolderNext, FeederNext DEF WaitsKept, Kept
<1> QED BY <1>1, InitWaits, ProviderInductive, PTL DEF Spec

\* Until the connection is closed a local close has a running deadline or its
\* command on the way, and an unanswered send one who will answer it (close,
\* begin_close, flush_outbound, cmd_task).
THEOREM ProviderClosingIsTimed == Spec => []ClosingIsTimed
<1>1. WaitsKept => ClosingIsTimed
  BY DEF WaitsKept, TimedKept, HasClose, SendsAwaited, Awaited, Flushing, ClosingIsTimed
<1> QED BY <1>1, WaitsInductive, PTL

\* The lock around the inbound queue is held by a pending receive or a feeder that
\* runs, and a claimed stream has a feeder or the command that spawns it (receive,
\* receive_via_stream, cmd_task).
THEOREM ProviderLockIsAwaited == Spec => []LockIsAwaited
<1>1. WaitsKept => LockIsAwaited
  BY DEF WaitsKept, HolderKept, FeederKept, ClaimKept, LockIsAwaited
<1> QED BY <1>1, WaitsInductive, PTL
=============================================================================
