----------------------------- MODULE HostSteps -----------------------------
(***************************************************************************)
(* Lemmas about the building blocks of HostConnection's steps: what taking *)
(* from and appending to its queues preserves, and what the beginning and  *)
(* the end of a write do to the invariants of HostProperties.              *)
(***************************************************************************)
EXTENDS HostTyping

\* The write the pump is in: its frame, and where control goes after it.
LEMMA WriteTypes == Typed => writing.then \in {"select", "publish"} /\ writing.frame \in Frames
BY DEF Typed, PumpTyped

\* Taking the head of the inbound queue hands over the next message and leaves
\* the rest in order.
LEMMA Taken ==
  ASSUME Typed, OrderKept, TakeHead
  PROVE  /\ Len(delivered') = Len(delivered) + 1 /\ Len(inq') = Len(inq) - 1
         /\ inHand' = Len(delivered')
         /\ \A i \in DOMAIN delivered' : delivered'[i] = i
         /\ \A i \in DOMAIN inq' : inq'[i] = Len(delivered') + i
<1>1. inq \in Seq(MsgIds) /\ delivered \in Seq(MsgIds)
  BY DEF Typed, ChannelsTyped, SeenTyped
<1>2. Len(inq) > 0 BY <1>1 DEF TakeHead
<1>3. Head(inq) = Len(delivered) + 1 BY <1>1, <1>2 DEF OrderKept
<1>4. Len(delivered') = Len(delivered) + 1 /\ Len(inq') = Len(inq) - 1
  BY <1>1, <1>2 DEF TakeHead
<1>5. \A i \in DOMAIN delivered' : delivered'[i] = i
  BY <1>1, <1>2, <1>3, <1>4 DEF TakeHead, OrderKept
<1>6. \A i \in DOMAIN inq' : inq'[i] = Len(delivered') + i
  BY <1>1, <1>2, <1>3, <1>4 DEF TakeHead, OrderKept
<1> QED BY <1>3, <1>4, <1>5, <1>6 DEF TakeHead

\* The two halves of the message sequence have a length.
LEMMA Lens == Typed => Len(inq) \in Nat /\ Len(delivered) \in Nat
BY DEF Typed, ChannelsTyped, SeenTyped

\* The next data frame to be read carries the next message: none is skipped
\* while nothing has started to close.
LEMMA NextOfWire ==
  ASSUME Typed, Kept, pump = "select", ~wireClosing, wire # <<>>, Head(wire).kind = "data"
  PROVE  Head(wire).arg = Accepted + 1
<1> DEFINE m == Head(wire).arg
<1>1. m \in MsgIds BY HeadTypes
<1>2. wire \in Seq(WireFrames) BY DEF Typed, PeerTyped
<1>3. 1 \in DOMAIN wire /\ DataAt(1, m) BY <1>2 DEF DataAt
<1>4. Accepted \in Nat BY Lens DEF Accepted
<1>5. WireNext = Accepted + 1 BY DEF WireNext
<1>6. WireNext =< m /\ \A n \in WireNext .. m - 1 : \E j \in 1 .. 1 - 1 : DataAt(j, n)
  BY <1>1, <1>3 DEF Kept, WireKept
<1>7. WireNext .. m - 1 = {} BY <1>6
<1> QED BY <1>1, <1>4, <1>5, <1>6, <1>7 DEF MsgIds

\* What tells the frames apart.
LEMMA FrameKinds ==
  /\ \A s \in Sends : DataFrame(s).kind = "send" /\ DataFrame(s).from = s
  /\ \A code \in CloseCode : CloseFrame(code).kind = "close"
  /\ CloseReply.kind = "reply" /\ Pong.kind = "pong" /\ NoWrite.frame = Pong
  /\ \A f \in Frames : f.kind = "send" => f.from \in Sends /\ f = DataFrame(f.from)
BY DEF DataFrame, CloseFrame, CloseReply, Pong, NoWrite, Frames

\* A queue of frames without its head.
LEMMA TailAt ==
  ASSUME NEW q \in Seq(Frames), q # <<>>
  PROVE  /\ Len(q) \in Nat /\ Len(q) >= 1 /\ Head(q) = q[1]
         /\ DOMAIN q = 1 .. Len(q) /\ DOMAIN Tail(q) = 1 .. Len(q) - 1
         /\ \A k \in 1 .. Len(q) - 1 : Tail(q)[k] = q[k + 1]
OBVIOUS

\* A queue of frames with one more at its end.
LEMMA AppendAt ==
  ASSUME NEW q \in Seq(Frames), NEW f \in Frames
  PROVE  /\ Len(q) \in Nat /\ DOMAIN q = 1 .. Len(q)
         /\ DOMAIN Append(q, f) = 1 .. Len(q) + 1
         /\ \A k \in 1 .. Len(q) : Append(q, f)[k] = q[k]
         /\ Append(q, f)[Len(q) + 1] = f
OBVIOUS

\* What is in a queue is its head or in the rest.
LEMMA InTail ==
  ASSUME NEW q \in Seq(Frames), q # <<>>, NEW f
  PROVE  In(f, q) <=> f = Head(q) \/ In(f, Tail(q))
<1>1. ASSUME In(f, Tail(q)) PROVE In(f, q) BY <1>1, TailAt DEF In
<1>2. ASSUME In(f, q), f # Head(q) PROVE In(f, Tail(q))
  <2>1. PICK k \in DOMAIN q : q[k] = f BY <1>2 DEF In
  <2>2. k # 1 BY <2>1, <1>2, TailAt
  <2>3. k - 1 \in 1 .. Len(q) - 1 BY <2>1, <2>2, TailAt
  <2>4. Tail(q)[k - 1] = q[(k - 1) + 1] BY <2>3, TailAt
  <2>5. (k - 1) + 1 = k BY <2>1, TailAt
  <2> QED BY <2>1, <2>3, <2>4, <2>5, TailAt DEF In
<1>3. In(Head(q), q) BY TailAt DEF In
<1> QED BY <1>1, <1>2, <1>3

\* What is in a queue with one more frame.
LEMMA InAppend ==
  ASSUME NEW q \in Seq(Frames), NEW e \in Frames, NEW f
  PROVE  In(f, Append(q, e)) <=> In(f, q) \/ f = e
BY AppendAt DEF In

\* Taking the head keeps every message unique, and the head is gone.
LEMMA OnceTail ==
  ASSUME NEW q \in Seq(Frames), q # <<>>, Once(q)
  PROVE  Once(Tail(q)) /\ (Head(q).kind = "send" => ~In(Head(q), Tail(q)))
<1>1. Once(Tail(q))
  <2>1. SUFFICES ASSUME NEW j \in DOMAIN Tail(q), NEW k \in DOMAIN Tail(q),
                        Tail(q)[j].kind = "send", Tail(q)[j] = Tail(q)[k]
                 PROVE  j = k
    BY DEF Once
  <2>2. Tail(q)[j] = q[j + 1] /\ Tail(q)[k] = q[k + 1] BY TailAt
  <2>3. j + 1 \in DOMAIN q /\ k + 1 \in DOMAIN q BY TailAt
  <2>4. j + 1 = k + 1 BY <2>1, <2>2, <2>3 DEF Once
  <2> QED BY <2>4, TailAt
<1>2. ASSUME Head(q).kind = "send", In(Head(q), Tail(q)) PROVE FALSE
  <2>1. PICK k \in DOMAIN Tail(q) : Tail(q)[k] = Head(q) BY <1>2 DEF In
  <2>2. q[k + 1] = q[1] /\ k + 1 \in DOMAIN q /\ 1 \in DOMAIN q BY <2>1, TailAt
  <2>3. k + 1 = 1 BY <2>2, <1>2, TailAt DEF Once
  <2> QED BY <2>1, <2>3, TailAt
<1> QED BY <1>1, <1>2

\* Appending a new message keeps every message unique.
LEMMA OnceAppend ==
  ASSUME NEW q \in Seq(Frames), NEW e \in Frames, Once(q), e.kind = "send" => ~In(e, q)
  PROVE  Once(Append(q, e))
<1>1. SUFFICES ASSUME NEW j \in DOMAIN Append(q, e), NEW k \in DOMAIN Append(q, e),
                      Append(q, e)[j].kind = "send", Append(q, e)[j] = Append(q, e)[k]
               PROVE  j = k
  BY DEF Once
<1>2. CASE j \in DOMAIN q /\ k \in DOMAIN q BY <1>1, <1>2, AppendAt DEF Once
<1>3. CASE j = Len(q) + 1 /\ k = Len(q) + 1 BY <1>3
<1>4. CASE j = Len(q) + 1 /\ k \in DOMAIN q BY <1>1, <1>4, AppendAt DEF In
<1>5. CASE j \in DOMAIN q /\ k = Len(q) + 1 BY <1>1, <1>5, AppendAt DEF In
<1> QED BY <1>2, <1>3, <1>4, <1>5, AppendAt

\* The types of the pump's input, of its output and of the acks.
LEMMA Queues == Typed => cmdq \in Seq(Frames) /\ toPeer \in Seq(Frames) /\ sendSt \in [Sends -> {"unused", "queued", "ok", "closed", "other"}]
BY DEF Typed, ChannelsTyped, SeenTyped, GuestTyped

\* A pump step that starts no guest's message leaves every message where it
\* was.
LEMMA OwnFrame ==
  ASSUME Typed, SendsKept, pump = "select", pump' = "write" => writing'.frame.kind # "send",
         UNCHANGED <<cmdq, sendSt, toPeer>>
  PROVE  SendsKept'
<1>1. \A s \in Sends : ~Writes(DataFrame(s)) /\ ~Writes(DataFrame(s))'
  BY FrameKinds DEF Writes
<1> QED BY <1>1 DEF SendsKept

\* The end of a write moves the message it carried, if any, from the pump to
\* its ack, and to the wire when it is acked ok.
LEMMA Written ==
  ASSUME Typed, SendsKept, pump = "write", UNCHANGED cmdq,
         NEW result \in {"ok", "closed", "other"}, EndWrite(result),
         HandOver \/ (UNCHANGED toPeer /\ result # "ok")
  PROVE  SendsKept'
<1>0. PICK f \in Frames : f = writing.frame BY WriteTypes
<1>1. f \in Frames /\ f = writing.frame /\ pump' # "write"
  BY <1>0, WriteTypes DEF EndWrite
<1>11. toPeer \in Seq(Frames) BY Queues
<1>2. \A s \in Sends : ~Writes(DataFrame(s))' BY <1>1 DEF Writes
<1>3. \A s \in Sends : Writes(DataFrame(s)) <=> f = DataFrame(s)
  BY <1>0 DEF Writes
<1>12. \A g : In(g, Append(toPeer, f)) <=> In(g, toPeer) \/ g = f
  BY <1>1, <1>11, InAppend
<1>13. toPeer' = toPeer \/ toPeer' = Append(toPeer, f)
  BY <1>1 DEF HandOver
<1>4. \A g : In(g, toPeer') => In(g, toPeer) \/ g = f
  BY <1>12, <1>13
<1>5. \A g : In(g, toPeer) => In(g, toPeer')
  BY <1>12, <1>13
<1>6. Once(toPeer)'
  <2>1. f.kind = "send" => ~In(f, toPeer)
    BY <1>1, <1>3, FrameKinds DEF SendsKept
  <2> QED BY <1>1, <2>1, Queues, OnceAppend DEF HandOver, SendsKept
<1>7. ASSUME NEW s \in Sends, f = DataFrame(s)
      PROVE  /\ ~(sendSt'[s] = "queued") /\ ~In(DataFrame(s), cmdq) /\ sendSt'[s] # "unused"
             /\ sendSt'[s] = "ok" => In(DataFrame(s), toPeer')
  <2>1. f.kind = "send" /\ f.from = s BY <1>7, FrameKinds
  <2>2. sendSt'[s] = result BY <1>0, <2>1, Queues DEF EndWrite
  <2>3. ~In(DataFrame(s), cmdq) BY <1>3, <1>7 DEF SendsKept
  <2>4. result = "ok" => In(f, toPeer')
    <3>1. ASSUME result = "ok" PROVE toPeer' = Append(toPeer, f)
      BY <3>1, <1>0, <2>1, FrameKinds DEF HandOver
    <3>2. In(f, Append(toPeer, f)) BY <1>1, <1>11, InAppend
    <3> QED BY <3>1, <3>2
  <2> QED BY <2>2, <2>3, <2>4, <1>7
<1>8. ASSUME NEW s \in Sends, f # DataFrame(s)
      PROVE  sendSt'[s] = sendSt[s] /\ (In(DataFrame(s), toPeer') <=> In(DataFrame(s), toPeer))
  <2>1. f.kind = "send" => f.from # s BY <1>1, <1>8, FrameKinds
  <2>2. sendSt'[s] = sendSt[s] BY <1>0, <2>1, Queues DEF EndWrite
  <2> QED BY <2>2, <1>4, <1>5, <1>8
<1>9. ASSUME NEW s \in Sends
      PROVE  /\ sendSt'[s] = "queued" <=> In(DataFrame(s), cmdq) \/ Writes(DataFrame(s))'
             /\ ~(In(DataFrame(s), cmdq) /\ Writes(DataFrame(s))')
             /\ In(DataFrame(s), toPeer') => sendSt'[s] \notin {"unused", "queued"}
             /\ sendSt'[s] = "ok" => In(DataFrame(s), toPeer')
  <2>1. CASE f = DataFrame(s) BY <2>1, <1>2, <1>7
  <2>2. CASE f # DataFrame(s) BY <2>2, <1>2, <1>3, <1>8 DEF SendsKept
  <2> QED BY <2>1, <2>2
<1>10. UNCHANGED cmdq /\ Once(cmdq)' BY DEF SendsKept, Once
<1> QED BY <1>6, <1>9, <1>10 DEF SendsKept, In

\* Reading one frame keeps the frames in flight gapless, seen from the message
\* that is due next.
LEMMA WireRest ==
  ASSUME Typed, Kept, ~wireClosing, pump = "select", wire # <<>>,
         wire' = Tail(wire), UNCHANGED <<peerSent, wireDead>>,
         NEW next,
         next = IF Head(wire).kind = "data" THEN Accepted + 2 ELSE Accepted + 1
  PROVE  /\ next =< peerSent + 1
         /\ \A k \in DOMAIN wire' : \A m \in MsgIds : DataAt(k, m)' =>
              /\ next =< m /\ m =< peerSent
              /\ \A j \in DOMAIN wire' : DataAt(j, m)' => j = k
              /\ \A n \in next .. m - 1 : \E j \in 1 .. k - 1 : DataAt(j, n)'
         /\ ~wireDead => \A n \in next .. peerSent : \E k \in DOMAIN wire' : DataAt(k, n)'
<1>1. /\ wire \in Seq(WireFrames) /\ Accepted \in Nat /\ peerSent \in Nat
      /\ peerSent \in 0 .. MaxMsgs /\ MaxMsgs \in Nat
  BY Lens, SizesAssumption DEF Typed, PeerTyped, Accepted
<1>2. Len(wire) \in Nat /\ Len(wire) >= 1 /\ DOMAIN wire = 1 .. Len(wire)
      /\ DOMAIN wire' = 1 .. Len(wire) - 1
  BY <1>1
<1>3. \A k \in 1 .. Len(wire) - 1 : wire'[k] = wire[k + 1]
  BY <1>1, <1>2
<1>4. ASSUME NEW m, NEW k \in 1 .. Len(wire) - 1 PROVE DataAt(k, m)' <=> DataAt(k + 1, m)
  BY <1>3 DEF DataAt
<1>5. WireNext = Accepted + 1 BY DEF WireNext
<1>6. Head(wire) = wire[1] BY <1>1, <1>2
<1>7. ASSUME Head(wire).kind = "data"
      PROVE DataAt(1, Accepted + 1) /\ Accepted + 1 \in MsgIds /\ Accepted + 1 =< peerSent
  <2>1. Head(wire).arg = Accepted + 1 /\ Accepted + 1 \in MsgIds
    BY <1>7, NextOfWire, HeadTypes
  <2>2. DataAt(1, Accepted + 1) BY <1>6, <1>7, <2>1 DEF DataAt
  <2> QED BY <2>1, <2>2, <1>2 DEF Kept, WireKept
<1>8. next =< peerSent + 1 /\ next \in Nat /\ WireNext =< next
  BY <1>1, <1>5, <1>7 DEF Kept, WireKept
<1>9. ASSUME NEW n, DataAt(1, n), n >= next PROVE FALSE
  <2>1. Head(wire).kind = "data" /\ Head(wire).arg = n BY <1>6, <1>9 DEF DataAt
  <2>2. n = Accepted + 1 BY <2>1, NextOfWire
  <2> QED BY <2>1, <2>2, <1>1, <1>9
<1>10. ASSUME NEW k \in DOMAIN wire', NEW m \in MsgIds, DataAt(k, m)'
       PROVE  /\ next =< m /\ m =< peerSent
              /\ \A j \in DOMAIN wire' : DataAt(j, m)' => j = k
              /\ \A n \in next .. m - 1 : \E j \in 1 .. k - 1 : DataAt(j, n)'
  <2>1. k + 1 \in DOMAIN wire /\ DataAt(k + 1, m) BY <1>2, <1>4, <1>10
  <2>2. /\ WireNext =< m /\ m =< peerSent
        /\ \A j \in DOMAIN wire : DataAt(j, m) => j = k + 1
        /\ \A n \in WireNext .. m - 1 : \E j \in 1 .. (k + 1) - 1 : DataAt(j, n)
    BY <2>1 DEF Kept, WireKept
  <2>3. next =< m
    BY <2>2, <1>1, <1>2, <1>5, <1>7, <1>10 DEF MsgIds
  <2>4. ASSUME NEW j \in DOMAIN wire', DataAt(j, m)' PROVE j = k
    <3>1. j + 1 \in DOMAIN wire /\ DataAt(j + 1, m) BY <1>2, <1>4, <2>4
    <3> QED BY <3>1, <2>2, <1>2
  <2>5. ASSUME NEW n \in next .. m - 1 PROVE \E j \in 1 .. k - 1 : DataAt(j, n)'
    <3>1. n \in WireNext .. m - 1 BY <1>1, <1>5, <1>8
    <3>2. PICK j \in 1 .. (k + 1) - 1 : DataAt(j, n) BY <2>2, <3>1
    <3>3. j # 1 BY <3>2, <1>9, <1>8
    <3>4. j - 1 \in 1 .. k - 1 /\ j - 1 \in 1 .. Len(wire) - 1
      BY <3>2, <3>3, <1>2
    <3>5. DataAt(j - 1, n)' <=> DataAt((j - 1) + 1, n) BY <3>4, <1>4
    <3>6. (j - 1) + 1 = j BY <3>2
    <3> QED BY <3>2, <3>4, <3>5, <3>6
  <2> QED BY <2>2, <2>3, <2>4, <2>5
<1>11. ASSUME ~wireDead, NEW n \in next .. peerSent
       PROVE \E k \in DOMAIN wire' : DataAt(k, n)'
  <2>1. n \in WireNext .. peerSent BY <1>1, <1>5, <1>8
  <2>2. PICK k \in DOMAIN wire : DataAt(k, n) BY <2>1, <1>11 DEF Kept, WireKept
  <2>3. k # 1 BY <2>2, <1>9, <1>8
  <2>4. k - 1 \in 1 .. Len(wire) - 1 BY <2>2, <2>3, <1>2
  <2>5. DataAt(k - 1, n)' <=> DataAt((k - 1) + 1, n) BY <2>4, <1>4
  <2>6. (k - 1) + 1 = k BY <2>2, <1>2
  <2> QED BY <2>2, <2>4, <2>5, <2>6, <1>2
<1> QED BY <1>8, <1>10, <1>11

\* Where the guest is and where the queue ends, in bytes.
LEMMA Offsets ==
  ASSUME Typed, OrderKept
  PROVE  /\ Accepted \in Nat /\ Len(delivered) \in Nat /\ Len(delivered) =< Accepted
         /\ Offset[Accepted] \in Nat /\ Offset[Len(delivered)] \in Nat
         /\ Offset[Len(delivered)] =< Offset[Accepted]
         /\ buffered \in Int
<1>1. Accepted \in 0 .. MaxMsgs /\ Len(delivered) \in 0 .. MaxMsgs /\ Len(delivered) =< Accepted
  BY Lens, SizesAssumption DEF OrderKept, Accepted
<1> QED BY <1>1, SizesAssumption DEF Typed, ChannelsTyped

\* A command with a code a client may send keeps the command channel so.
LEMMA Enqueued ==
  ASSUME Typed, CloseKept, NEW f \in Frames, f.kind \in {"send", "close"}, f.code \in SentCodes,
         cmdq' = Append(cmdq, f)
  PROVE  \A k \in DOMAIN cmdq' : cmdq'[k].kind \in {"send", "close"} /\ cmdq'[k].code \in SentCodes
<1>1. /\ DOMAIN cmdq' = 1 .. Len(cmdq) + 1 /\ DOMAIN cmdq = 1 .. Len(cmdq) /\ Len(cmdq) \in Nat
      /\ \A k \in 1 .. Len(cmdq) : cmdq'[k] = cmdq[k]
      /\ cmdq'[Len(cmdq) + 1] = f
  BY Queues, AppendAt
<1> QED BY <1>1 DEF CloseKept

\* The codes of the frames the pump makes are codes a client may send, or none.
LEMMA FrameCodes ==
  /\ NoCode \in SentCodes
  /\ \A s \in Sends : DataFrame(s).code \in SentCodes
  /\ \A code \in SentCodes : CloseFrame(code).code \in SentCodes
  /\ CloseReply.code \in SentCodes /\ Pong.code \in SentCodes
BY DEF SentCodes, DataFrame, CloseFrame, CloseReply, Pong

\* Starting a write, or none, keeps close frames last: a close frame is only
\* started by the step that sets wire_closing.
LEMMA Starts ==
  ASSUME Typed, CloseKept, pump = "select", UNCHANGED <<toPeer, closeCode>>,
         UNCHANGED cmdq \/ (cmdq # <<>> /\ cmdq' = Tail(cmdq)),
         wireClosing => wireClosing',
         writing'.frame.code \in SentCodes,
         pump' = "write" => /\ Closes(writing'.frame) => ~wireClosing /\ wireClosing'
                            /\ wireClosing' => writing'.frame.kind # "send"
                            /\ writing'.frame = CloseReply => peerFrame' # NoFrame,
         peerFrame # NoFrame => peerFrame' # NoFrame
  PROVE  CloseKept'
<1>1. \A k \in DOMAIN cmdq' : cmdq'[k].kind \in {"send", "close"} /\ cmdq'[k].code \in SentCodes
  <2>1. CASE UNCHANGED cmdq BY <2>1 DEF CloseKept
  <2>2. CASE cmdq # <<>> /\ cmdq' = Tail(cmdq)
    <3>1. \A k \in DOMAIN cmdq' : k + 1 \in DOMAIN cmdq /\ cmdq'[k] = cmdq[k + 1]
      BY <2>2, Queues, TailAt
    <3> QED BY <3>1 DEF CloseKept
  <2> QED BY <2>1, <2>2
<1>2. \A k \in DOMAIN toPeer' :
       /\ toPeer'[k].code \in SentCodes
       /\ Closes(toPeer'[k]) => wireClosing' /\ k = Len(toPeer')
  BY DEF CloseKept
<1>3. Writes(CloseReply)' \/ In(CloseReply, toPeer') => peerFrame' # NoFrame
  BY DEF CloseKept, Writes
<1>4. pump' = "write" =>
       /\ Closes(writing'.frame) =>
            wireClosing' /\ \A k \in DOMAIN toPeer' : ~Closes(toPeer'[k])
       /\ wireClosing' => writing'.frame.kind # "send"
  BY DEF CloseKept
<1>5. closeCode' \in SentCodes BY DEF CloseKept
<1> QED BY <1>1, <1>2, <1>3, <1>4, <1>5 DEF CloseKept, Closes

\* Ending a write keeps close frames last.
LEMMA Ends ==
  ASSUME Typed, CloseKept, pump = "write", pump' # "write", writing' = NoWrite,
         UNCHANGED <<cmdq, closeCode, wireClosing, peerFrame>>,
         HandOver \/ UNCHANGED toPeer
  PROVE  CloseKept'
<1> DEFINE f == writing.frame
<1>1. f \in Frames /\ toPeer \in Seq(Frames) BY WriteTypes, Queues
<1>2. writing'.frame.code \in SentCodes BY FrameKinds, FrameCodes
<1>3. ~Writes(CloseReply)' BY DEF Writes
<1>4. toPeer' = toPeer \/ (toPeer' = Append(toPeer, f) /\ f # Pong)
  BY DEF HandOver
<1>5. CASE toPeer' = toPeer BY <1>2, <1>3, <1>5 DEF CloseKept
<1>6. CASE toPeer' = Append(toPeer, f) /\ f # Pong
  <2>1. /\ DOMAIN toPeer = 1 .. Len(toPeer) /\ DOMAIN toPeer' = 1 .. Len(toPeer) + 1
        /\ Len(toPeer) \in Nat /\ Len(toPeer') = Len(toPeer) + 1
        /\ \A k \in 1 .. Len(toPeer) : toPeer'[k] = toPeer[k]
        /\ toPeer'[Len(toPeer) + 1] = f
    BY <1>1, <1>6, AppendAt
  <2>2. f.kind # "pong" BY <1>1, <1>6 DEF Frames, Pong
  <2>3. f.code \in SentCodes /\ (Closes(f) => wireClosing) BY DEF CloseKept
  <2>4. \A k \in DOMAIN toPeer : ~Closes(toPeer[k])
    BY <1>1, <2>2 DEF CloseKept, Closes, Frames
  <2>5. In(CloseReply, toPeer') => peerFrame # NoFrame
    <3>1. In(CloseReply, Append(toPeer, f)) <=> In(CloseReply, toPeer) \/ CloseReply = f
      BY <1>1, FrameTypes, InAppend
    <3> QED BY <3>1, <1>6 DEF CloseKept, Writes
  <2> QED BY <1>2, <1>3, <2>1, <2>3, <2>4, <2>5 DEF CloseKept
<1> QED BY <1>4, <1>5, <1>6

\* The frames in flight with one more.
LEMMA Puts ==
  ASSUME Typed, NEW f, wire' = Append(wire, f)
  PROVE  /\ DOMAIN wire = 1 .. Len(wire) /\ DOMAIN wire' = 1 .. Len(wire) + 1
         /\ Len(wire) \in Nat
         /\ \A k \in 1 .. Len(wire) : wire'[k] = wire[k]
         /\ wire'[Len(wire) + 1] = f
<1>1. wire \in Seq(WireFrames) BY DEF Typed, PeerTyped
<1> QED BY <1>1

\* A frame that carries no message, put behind the frames in flight, leaves the
\* messages in flight as they are.
LEMMA ControlPut ==
  ASSUME Typed, WireKept, NEW f, f.kind # "data", wire' = Append(wire, f),
         UNCHANGED <<wireClosing, peerSent, pump, delivered, inq>>,
         wireDead => wireDead'
  PROVE  WireKept'
<1>1. /\ DOMAIN wire = 1 .. Len(wire) /\ DOMAIN wire' = 1 .. Len(wire) + 1
      /\ Len(wire) \in Nat
      /\ \A k \in 1 .. Len(wire) : wire'[k] = wire[k]
      /\ wire'[Len(wire) + 1] = f
  BY Puts
<1>2. WireNext' = WireNext /\ UNCHANGED <<wireClosing, peerSent>>
  BY DEF WireNext, Accepted
<1>3. ASSUME NEW k \in DOMAIN wire', NEW m, DataAt(k, m)'
      PROVE  k \in DOMAIN wire /\ DataAt(k, m)
  <2>1. wire'[k].kind = "data" BY <1>3 DEF DataAt
  <2>2. k # Len(wire) + 1 BY <1>1, <2>1
  <2>3. k \in DOMAIN wire /\ wire'[k] = wire[k] BY <1>1, <2>2
  <2> QED BY <1>3, <2>3 DEF DataAt
<1>4. ASSUME NEW k \in DOMAIN wire, NEW m, DataAt(k, m)
      PROVE  k \in DOMAIN wire' /\ DataAt(k, m)'
  <2>1. k \in DOMAIN wire' /\ wire'[k] = wire[k] BY <1>1
  <2> QED BY <1>4, <2>1 DEF DataAt
<1>5. ASSUME ~wireClosing, NEW k \in DOMAIN wire', NEW m \in MsgIds, DataAt(k, m)'
      PROVE  /\ WireNext =< m /\ m =< peerSent
             /\ \A j \in DOMAIN wire' : DataAt(j, m)' => j = k
             /\ \A n \in WireNext .. m - 1 : \E j \in 1 .. k - 1 : DataAt(j, n)'
  <2>1. k \in DOMAIN wire /\ DataAt(k, m) BY <1>3, <1>5
  <2>2. /\ WireNext =< m /\ m =< peerSent
        /\ \A j \in DOMAIN wire : DataAt(j, m) => j = k
        /\ \A n \in WireNext .. m - 1 : \E j \in 1 .. k - 1 : DataAt(j, n)
    BY <1>5, <2>1 DEF WireKept
  <2>3. ASSUME NEW n \in WireNext .. m - 1
        PROVE  \E j \in 1 .. k - 1 : DataAt(j, n)'
    <3>1. PICK j \in 1 .. k - 1 : DataAt(j, n) BY <2>2
    <3>2. j \in DOMAIN wire BY <1>1, <2>1
    <3> QED BY <1>4, <3>1, <3>2
  <2> QED BY <1>3, <2>2, <2>3
<1>6. ASSUME ~wireClosing, ~wireDead', NEW n \in WireNext .. peerSent
      PROVE  \E k \in DOMAIN wire' : DataAt(k, n)'
  <2>1. PICK k \in DOMAIN wire : DataAt(k, n) BY <1>6 DEF WireKept
  <2> QED BY <1>4, <2>1
<1>7. ~wireClosing => WireNext =< peerSent + 1 BY DEF WireKept
<1> QED BY <1>2, <1>5, <1>6, <1>7 DEF WireKept

\* The frames in flight after one is read.
LEMMA WireTail ==
  ASSUME Typed, wire # <<>>, wire' = Tail(wire)
  PROVE  /\ DOMAIN wire = 1 .. Len(wire) /\ DOMAIN wire' = 1 .. Len(wire) - 1
         /\ Len(wire) \in Nat /\ Len(wire) >= 1 /\ Head(wire) = wire[1]
         /\ \A k \in 1 .. Len(wire) - 1 : wire'[k] = wire[k + 1]
<1>1. wire \in Seq(WireFrames) BY DEF Typed, PeerTyped
<1> QED BY <1>1

\* Adding the reserved message's bytes keeps the budget exact and within its
\* bound, whatever a reader released since the check.
LEMMA Reserving ==
  ASSUME Typed, OrderKept, BudgetKept, pump = "reserve", Adds,
         inq' = Append(inq, reserved), UNCHANGED <<delivered, op, inHand>>
  PROVE  /\ buffered' = Offset[Accepted'] - Offset[Len(delivered')] + InHandBytes'
         /\ buffered' =< Limit
<1>1. /\ reserved = Accepted + 1 /\ reserved \in MsgIds
      /\ Size(reserved) \in Nat
  BY SizeTypes DEF OrderKept, Typed, PumpTyped
<1>2. inq \in Seq(MsgIds) BY DEF Typed, ChannelsTyped
<1>3. Accepted' = Accepted + 1 BY <1>1, <1>2, Lens DEF Accepted
<1>4. Size(reserved) = Offset[Accepted + 1] - Offset[Accepted]
  BY <1>1, Offsets DEF Size
<1>5. Offset[Accepted + 1] \in Nat BY <1>1, SizesAssumption DEF MsgIds
<1>6. InHandBytes' = InHandBytes /\ InHandBytes \in Nat
  BY SizeTypes DEF InHandBytes, Typed, GuestTyped
<1>7. buffered' = buffered + Size(reserved) /\ buffered + Size(reserved) =< Limit
  BY DEF Adds, BudgetKept
<1>8. buffered = Offset[Accepted] - Offset[Len(delivered)] + InHandBytes
  BY DEF BudgetKept
<1>9. buffered' = Offset[Accepted + 1] - Offset[Len(delivered)] + InHandBytes
  <2> DEFINE a == Offset[Accepted]
             b == Offset[Accepted + 1]
             d == Offset[Len(delivered)]
  <2>1. a \in Nat /\ b \in Nat /\ d \in Nat BY <1>5, Offsets
  <2>2. buffered = a - d + InHandBytes /\ buffered' = buffered + (b - a)
    BY <1>4, <1>7, <1>8
  <2> HIDE DEF a, b, d
  <2>3. buffered' = b - d + InHandBytes BY <1>6, <2>1, <2>2
  <2> QED BY <2>3 DEF b, d
<1>10. Offset[Accepted'] = Offset[Accepted + 1] /\ Len(delivered') = Len(delivered)
  BY <1>3
<1> QED BY <1>6, <1>7, <1>9, <1>10
=============================================================================
