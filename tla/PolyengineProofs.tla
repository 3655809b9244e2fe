--------------------------- MODULE PolyengineProofs ---------------------------
(***************************************************************************)
(* The JS host's queue, its readers, its count of streamed messages and    *)
(* its platform socket, for any readers, messages, sizes, codes and bound: *)
(* the properties of PolyengineProperties but ClosingIsBounded, and that   *)
(* the host implements WsContract, proved.                                 *)
(***************************************************************************)
EXTENDS PolyengineProperties, FiniteSetTheorems, SequenceTheorems, TLAPS

\* Where connect is says what the platform's socket can be.  Nothing opens it
\* again, so that what was refused, aborted, closed or overflowed stays so.
SocketKept ==
  /\ conn \in {"none", "invalidUrl", "invalidArgument"} => readyState = "NONE"
  /\ readyState = "CONNECTING" <=> conn = "handshake"
  /\ conn = "opened" => readyState = "OPEN"
  /\ readyState = "OPEN" => conn \in {"opened", "open", "held"}
  /\ conn = "held" => ~aborted
  /\ conn = "open" /\ aborted => readyState # "OPEN"
  /\ stage # "none" => readyState = "CLOSED" /\ conn \in {"open", "held"}
  /\ localClosed \/ overflowed \/ closed => conn \in {"open", "held"} /\ readyState # "OPEN"
  /\ closeDeadline # NoTimer \/ timers # {} => localClosed \/ overflowed
  /\ localClosed => conn = "held" /\ closed /\ messages = <<>>
  /\ closeSettled => closeInfo # Unset

Events == [kind : {"data", "closing", "closed"}, arg : Int]

\* The platform reports the messages in order, up to the last that was sent, and
\* the end after them.
IsData(k) == k \in DOMAIN tasks /\ tasks[k].kind = "data"

TasksKept ==
  /\ tasks \in Seq(Events) /\ peerSent \in 0 .. MaxMsgs
  /\ \A k \in DOMAIN tasks : tasks[k].kind # "data" =>
       netDone /\ \A j \in DOMAIN tasks : k < j => tasks[j].kind # "data"
  /\ \A k \in DOMAIN tasks : tasks[k].kind = "data" =>
       /\ tasks[k].arg \in MsgIds
       /\ IsData(k + 1) => tasks[k + 1].arg = tasks[k].arg + 1
       /\ ~IsData(k + 1) => tasks[k].arg = peerSent
  /\ \A k \in DOMAIN tasks : tasks[k].kind = "closed" =>
       tasks[k].arg \in PeerCodes \cup AbnormalCodes
  /\ stage \in {"shown", "ended"} => tasks # <<>> /\ tasks[1].kind = "closed"

\* What is queued is consecutive, and the next message to arrive follows it.
QueueKept ==
  /\ \A k \in DOMAIN messages : messages[k] = messages[1] + k - 1
  /\ messages # <<>> => conn \in {"open", "held"}
  /\ messages # <<>> /\ readyState = "OPEN" =>
       IF IsData(1) THEN tasks[1].arg = messages[Len(messages)] + 1
                    ELSE messages[Len(messages)] = peerSent

\* A waiter waits once, and only the stream still waits after the claim.
WaitersKept ==
  /\ waiters \in Seq(Receives \cup {"stream"})
  /\ \A j, k \in DOMAIN waiters : waiters[j] = waiters[k] => j = k
  /\ "stream" \in Waiting => strm \in {"pulling", "dropped"}
  /\ streamClaimed => Waiting \subseteq {"stream"}
  /\ streamClaimed <=> strm # "none"

Frames == [kind : {"close", "send", "via"}, from : Int \cup Sends]

\* The elements sendViaStream took are those it sent, and the one it holds.
ViaKept ==
  /\ out \in Seq(Frames) /\ viaSent \in Nat
  /\ via = "unused" => viaTaken = 0
  /\ via \in {"unused", "next", "ok"} => viaSent = viaTaken
  /\ via = "item" => viaTaken = viaSent + 1

Kept ==
  /\ FieldsTyped /\ SocketKept /\ TasksKept /\ QueueKept /\ WaitersKept /\ ViaKept
  /\ QueueConsistent /\ ReceiveErrorsHonest /\ SentCountExact
-----------------------------------------------------------------------------
LEMMA InitKept == Init => Kept
<1> SUFFICES ASSUME Init PROVE Kept
  OBVIOUS
<1> USE DEF Init
<1>1. FieldsTyped
  <2>1. {aborted, netDone, localClosed, streamClaimed, closeSettled, waiting,
         overflowed, closed} \subseteq BOOLEAN
    OBVIOUS
  <2>2. {messages, taken, element} \subseteq Seq(MsgIds)
    OBVIOUS
  <2>3. Waiting = {} BY DEF Waiting
  <2> QED BY <2>1, <2>2, <2>3, SizesAssumption DEF FieldsTyped, Outcomes
<1>2. SocketKept BY DEF SocketKept
<1>3. TasksKept BY SizesAssumption DEF TasksKept
<1>4. QueueKept BY DEF QueueKept
<1>5. WaitersKept BY DEF WaitersKept, Waiting
<1>6. ViaKept BY DEF ViaKept
<1>7. QueueConsistent BY DEF QueueConsistent, QueuedBytes, Waiting
<1>8. ReceiveErrorsHonest
  <2>1. ASSUME NEW r \in Receives PROVE recvSt[r] = "unused" OBVIOUS
  <2> HIDE DEF Init
  <2> QED BY <2>1 DEF ReceiveErrorsHonest
<1>9. SentCountExact
  <2>1. {k \in DOMAIN out : out[k].kind = "via"} = {} OBVIOUS
  <2> QED BY <2>1, FS_EmptySet DEF SentCountExact
<1> QED BY <1>1, <1>2, <1>3, <1>4, <1>5, <1>6, <1>7, <1>8, <1>9 DEF Kept

\* What the types say of each field.
LEMMA Fields ==
  ASSUME FieldsTyped
  PROVE  /\ aborted \in BOOLEAN /\ netDone \in BOOLEAN /\ localClosed \in BOOLEAN
         /\ streamClaimed \in BOOLEAN /\ closeSettled \in BOOLEAN
         /\ waiting \in BOOLEAN /\ overflowed \in BOOLEAN /\ closed \in BOOLEAN
         /\ messages \in Seq(MsgIds) /\ taken \in Seq(MsgIds)
         /\ element \in Seq(MsgIds)
<1>1. {aborted, netDone, localClosed, streamClaimed, closeSettled, waiting,
       overflowed, closed} \subseteq BOOLEAN
  BY DEF FieldsTyped
<1>2. {messages, taken, element} \subseteq Seq(MsgIds) BY DEF FieldsTyped
<1> QED BY <1>1, <1>2

\* What a close event settles is an outcome.
LEMMA OutcomeOfEnd ==
  ASSUME Kept, stage = "ended"
  PROVE  (IF EndCode \in Synthesized THEN NoFrame ELSE EndCode) \in Outcomes \ {Unset}
<1>1. tasks # <<>> /\ tasks[1].kind = "closed" /\ tasks \in Seq(Events)
  BY DEF Kept, TasksKept
<1>2. EndCode = tasks[1].arg /\ tasks[1].arg \in PeerCodes \cup AbnormalCodes
  BY <1>1 DEF EndCode, Kept, TasksKept
<1>3. EndCode \in Synthesized \/ (EndCode \in PeerCodes /\ EndCode \in Nat)
  <2>1. CASE tasks[1].arg \in PeerCodes
    <3>1. PeerCodes \subseteq Nat BY CodesAssumption
    <3> QED BY <1>2, <2>1, <3>1
  <2>2. CASE tasks[1].arg \in AbnormalCodes
    <3>1. AbnormalCodes \subseteq Synthesized BY CodesAssumption DEF Synthesized
    <3> QED BY <1>2, <2>2, <3>1
  <2> QED BY <1>2, <2>1, <2>2
<1>4. Unset \notin Nat /\ NoFrame # Unset BY DEF Unset, NoFrame
<1> QED BY <1>3, <1>4 DEF Outcomes

\* Every step keeps what is known of the platform's socket.
LEMMA SocketNext == Kept /\ [Next]_vars => SocketKept'
<1> SUFFICES ASSUME Kept, [Next]_vars PROVE SocketKept'
  OBVIOUS
<1> USE DEF Kept, SocketKept, vars, connecting, platform, outward, net, flags,
            settling, queue, inward, sending
<1>0. FieldsTyped /\ overflowed \in BOOLEAN /\ closed \in BOOLEAN /\ aborted \in BOOLEAN
      /\ localClosed \in BOOLEAN
  BY Fields
<1>1. CASE ConnectStep
  BY <1>0, <1>1 DEF ConnectStep, ConnectRefused, Connect, ConnectFails, ConnectTimesOut,
     Opens, ConnectReturns, Delivered, Abort, GivesUp, WsClose
<1>2. ASSUME NEW r \in Receives, Receive(r) PROVE SocketKept'
  BY <1>0, <1>2 DEF Receive, TakesNext, Waits
<1>3. ASSUME NEW s \in Sends, Send(s) PROVE SocketKept'
  BY <1>3 DEF Send
<1>4. CASE Closes
  BY <1>0, <1>4 DEF Closes, Discard, Reject, WsClose
<1>5. CASE WaitClosed BY <1>5 DEF WaitClosed
<1>6. CASE ReceiveViaStream \/ StreamRead \/ StreamDropped \/ SendViaStream \/ StreamPulls
           \/ ViaSends
  BY <1>0, <1>6 DEF ReceiveViaStream, StreamRead, StreamDropped, SendViaStream, StreamPulls,
     ViaSends, ClaimRejects, TakesNext, Waits
<1>7. CASE MessageEvent
  BY <1>0, <1>7 DEF MessageEvent, Reported, TransportClosing
<1>8. CASE ClosingShows \/ EndShows \/ CloseEventEnds
  BY <1>0, <1>8 DEF ClosingShows, EndShows, CloseEventEnds, Reported, QueueEnds, Reject
<1>9. CASE CloseEventSettles
  BY <1>0, <1>9, OutcomeOfEnd DEF CloseEventSettles, Settles, QueueEnds, Reject
<1>10. ASSUME NEW t \in Timers, TimerFires(t) PROVE SocketKept'
  <2>1. CASE closeSettled BY <1>0, <1>10, <2>1 DEF TimerFires
  <2>2. CASE ~closeSettled
    <3>1. closeSettled' /\ closeInfo' # Unset
      BY <1>10, <2>2 DEF TimerFires, Settles, Synthesized, NoFrame, Unset
    <3> QED BY <1>0, <1>10, <2>2, <3>1 DEF TimerFires, Settles, QueueEnds, Reject
  <2> QED BY <2>1, <2>2
<1>11. CASE PeerStep
  <2>1. UNCHANGED <<conn, readyState, aborted, stage, localClosed, overflowed, closed,
                    closeDeadline, timers, messages, closeSettled, closeInfo>>
    BY <1>11 DEF PeerStep, PeerData, PeerClose, TransportEnds, Drains, NetOnly
  <2> QED BY <2>1
<1>12. CASE UNCHANGED vars BY <1>12
<1> QED
  BY <1>1, <1>2, <1>3, <1>4, <1>5, <1>6, <1>7, <1>8, <1>9, <1>10, <1>11, <1>12
     DEF Next, GuestCalls, Continues, Reports, Close, Drop

\* Reporting an event leaves the others in order.
LEMMA TasksTail ==
  ASSUME TasksKept, tasks # <<>>, stage = "none", tasks' = Tail(tasks),
         UNCHANGED <<peerSent, netDone, stage>>
  PROVE  TasksKept'
<1>1. tasks \in Seq(Events) /\ peerSent \in 0 .. MaxMsgs BY DEF TasksKept
<1>2. tasks' \in Seq(Events) /\ Len(tasks') = Len(tasks) - 1
      /\ Len(tasks) \in Nat \ {0}
  BY <1>1
<1>3. \A k \in DOMAIN tasks' : k + 1 \in DOMAIN tasks /\ tasks'[k] = tasks[k + 1]
  BY <1>1, <1>2
<1>4. \A k \in DOMAIN tasks' : IsData(k + 1)' <=> IsData(k + 2)
  BY <1>1, <1>2, <1>3 DEF IsData
<1> HIDE DEF Events
<1>5. ASSUME NEW k \in DOMAIN tasks', tasks'[k].kind # "data"
      PROVE  netDone' /\ \A j \in DOMAIN tasks' : k < j => tasks'[j].kind # "data"
  BY <1>1, <1>2, <1>3, <1>5 DEF TasksKept
<1>6. ASSUME NEW k \in DOMAIN tasks', tasks'[k].kind = "data"
      PROVE  /\ tasks'[k].arg \in MsgIds
             /\ IsData(k + 1)' => tasks'[k + 1].arg = tasks'[k].arg + 1
             /\ ~IsData(k + 1)' => tasks'[k].arg = peerSent'
  <2>1. k \in Int /\ k + 1 \in DOMAIN tasks /\ tasks[k + 1].kind = "data" /\ k + 2 = (k + 1) + 1
    BY <1>1, <1>2, <1>3, <1>6
  <2>2. /\ tasks[k + 1].arg \in MsgIds
        /\ IsData((k + 1) + 1) => tasks[(k + 1) + 1].arg = tasks[k + 1].arg + 1
        /\ ~IsData((k + 1) + 1) => tasks[k + 1].arg = peerSent
    BY <2>1 DEF TasksKept
  <2>3. IsData(k + 1)' => k + 1 \in DOMAIN tasks' BY DEF IsData
  <2> QED BY <1>3, <1>4, <2>1, <2>2, <2>3
<1>7. ASSUME NEW k \in DOMAIN tasks', tasks'[k].kind = "closed"
      PROVE  tasks'[k].arg \in PeerCodes \cup AbnormalCodes
  BY <1>3, <1>7 DEF TasksKept
<1> QED BY <1>1, <1>2, <1>5, <1>6, <1>7 DEF TasksKept

\* One more message of the peer.
LEMMA TasksMore ==
  ASSUME TasksKept, NEW e \in Events, tasks' = Append(tasks, e), stage' = stage,
         e.kind = "data", e.arg = peerSent + 1, peerSent < MaxMsgs,
         peerSent' = peerSent + 1, ~netDone, netDone' = netDone
  PROVE  TasksKept'
<1>1. tasks \in Seq(Events) /\ peerSent \in 0 .. MaxMsgs BY DEF TasksKept
<1>2. tasks' \in Seq(Events) /\ Len(tasks') = Len(tasks) + 1 /\ Len(tasks) \in Nat
      /\ DOMAIN tasks = 1 .. Len(tasks) /\ DOMAIN tasks' = 1 .. Len(tasks) + 1
      /\ tasks'[Len(tasks) + 1] = e
  BY <1>1
<1>3. \A k \in DOMAIN tasks : tasks'[k] = tasks[k] BY <1>1
<1>4. peerSent' \in 0 .. MaxMsgs /\ e.arg \in MsgIds
  BY <1>1, SizesAssumption DEF MsgIds
<1>5. ~netDone => \A k \in DOMAIN tasks : tasks[k].kind = "data" BY DEF TasksKept
<1>6. \A k \in DOMAIN tasks' : tasks'[k].kind = "data"
  BY <1>2, <1>3, <1>5
<1>7. ASSUME NEW k \in DOMAIN tasks', tasks'[k].kind = "data"
      PROVE  /\ tasks'[k].arg \in MsgIds
             /\ IsData(k + 1)' => tasks'[k + 1].arg = tasks'[k].arg + 1
             /\ ~IsData(k + 1)' => tasks'[k].arg = peerSent'
  <2>1. CASE k = Len(tasks) + 1
    <3>1. ~IsData(k + 1)' BY <1>2, <2>1 DEF IsData
    <3> QED BY <1>2, <1>4, <1>7, <2>1, <3>1
  <2>2. CASE k \in DOMAIN tasks
    <3>1. /\ tasks[k].kind = "data" /\ tasks[k].arg \in MsgIds
          /\ IsData(k + 1) => tasks[k + 1].arg = tasks[k].arg + 1
          /\ ~IsData(k + 1) => tasks[k].arg = peerSent
      BY <1>3, <1>7, <2>2 DEF TasksKept
    <3>2. CASE k + 1 \in DOMAIN tasks
      <4>1. IsData(k + 1)' /\ IsData(k + 1) BY <1>2, <1>3, <1>5, <3>2 DEF IsData
      <4> QED BY <1>3, <2>2, <3>1, <3>2, <4>1
    <3>3. CASE k = Len(tasks)
      <4>1. ~IsData(k + 1) /\ IsData(k + 1)' BY <1>2, <3>3 DEF IsData
      <4> QED BY <1>2, <1>3, <2>2, <3>1, <3>3, <4>1
    <3> QED BY <1>2, <2>2, <3>2, <3>3
  <2>3. k = Len(tasks) + 1 \/ k \in DOMAIN tasks BY <1>2
  <2> QED BY <2>1, <2>2, <2>3
<1>9. stage' \in {"shown", "ended"} => tasks' # <<>> /\ tasks'[1].kind = "closed"
  BY <1>1, <1>2, <1>3 DEF TasksKept
<1> QED BY <1>2, <1>4, <1>6, <1>7, <1>9 DEF TasksKept

\* The peer's close frame, or the end: no message comes after it.
LEMMA TasksEnd ==
  ASSUME TasksKept, NEW events \in Seq(Events), tasks' = tasks \o events, stage' = stage,
         \A k \in DOMAIN events :
           /\ events[k].kind # "data"
           /\ events[k].kind = "closed" => events[k].arg \in PeerCodes \cup AbnormalCodes,
         netDone', peerSent' = peerSent
  PROVE  TasksKept'
<1> DEFINE n == Len(tasks)
<1>1. tasks \in Seq(Events) /\ peerSent \in 0 .. MaxMsgs BY DEF TasksKept
<1>2. /\ n \in Nat /\ Len(events) \in Nat /\ tasks' \in Seq(Events)
      /\ DOMAIN tasks = 1 .. n /\ DOMAIN events = 1 .. Len(events)
      /\ DOMAIN tasks' = 1 .. n + Len(events)
      /\ \A k \in 1 .. n : tasks'[k] = tasks[k]
      /\ \A k \in n + 1 .. n + Len(events) : tasks'[k] = events[k - n]
  BY <1>1, ConcatProperties
<1> HIDE DEF n, Events
<1>3. ASSUME NEW k \in DOMAIN tasks'
      PROVE  \/ k \in DOMAIN tasks /\ tasks'[k] = tasks[k]
             \/ k > n /\ k - n \in DOMAIN events /\ tasks'[k] = events[k - n]
  <2>1. k \in 1 .. n \/ k \in n + 1 .. n + Len(events) BY <1>2
  <2> QED BY <1>2, <2>1
<1>4. \A k \in DOMAIN tasks' : tasks'[k].kind = "data" <=> IsData(k)
  BY <1>2, <1>3 DEF IsData
<1>5. ASSUME NEW k \in DOMAIN tasks', tasks'[k].kind # "data",
             NEW j \in DOMAIN tasks', k < j
      PROVE  tasks'[j].kind # "data"
  <2>1. CASE k > n BY <1>2, <1>3, <1>5, <2>1
  <2>2. CASE k \in DOMAIN tasks
    <3>1. j \in DOMAIN tasks => tasks[j].kind # "data" BY <1>2, <1>5, <2>2 DEF TasksKept
    <3> QED BY <1>2, <1>3, <3>1
  <2> QED BY <1>3, <2>1, <2>2
<1>6. ASSUME NEW k \in DOMAIN tasks', tasks'[k].kind = "data"
      PROVE  /\ tasks'[k].arg \in MsgIds
             /\ IsData(k + 1)' => tasks'[k + 1].arg = tasks'[k].arg + 1
             /\ ~IsData(k + 1)' => tasks'[k].arg = peerSent'
  <2>1. k \in DOMAIN tasks /\ tasks[k].kind = "data" BY <1>3, <1>6
  <2>2. /\ tasks[k].arg \in MsgIds
        /\ IsData(k + 1) => tasks[k + 1].arg = tasks[k].arg + 1
        /\ ~IsData(k + 1) => tasks[k].arg = peerSent
    BY <2>1 DEF TasksKept
  <2>3. IsData(k + 1)' <=> IsData(k + 1) BY <1>2, <1>3, <1>4, <2>1 DEF IsData
  <2>4. IsData(k + 1) => k + 1 \in 1 .. n BY <1>2 DEF IsData
  <2> QED BY <1>2, <2>1, <2>2, <2>3, <2>4
<1>7. \A k \in DOMAIN tasks' : tasks'[k].kind = "closed" =>
        tasks'[k].arg \in PeerCodes \cup AbnormalCodes
  BY <1>3 DEF TasksKept
<1>8. stage' \in {"shown", "ended"} => tasks' # <<>> /\ tasks'[1].kind = "closed"
  BY <1>1, <1>2 DEF TasksKept
<1> QED BY <1>1, <1>2, <1>5, <1>6, <1>7, <1>8 DEF TasksKept

\* Every step keeps the events in order.
LEMMA TasksNext == Kept /\ [Next]_vars => TasksKept'
<1> SUFFICES ASSUME Kept, [Next]_vars PROVE TasksKept'
  OBVIOUS
<1> USE DEF vars, connecting, platform, outward, net, flags, settling, queue, inward,
            sending
<1>0. TasksKept /\ tasks \in Seq(Events) /\ netDone \in BOOLEAN
  BY Fields DEF Kept, TasksKept
<1>1. ASSUME UNCHANGED <<tasks, peerSent, stage>>, netDone => netDone'
      PROVE  TasksKept'
  BY <1>0, <1>1 DEF TasksKept, IsData
<1>2. CASE ConnectStep
  <2>1. UNCHANGED <<tasks, peerSent, stage>> /\ (netDone => netDone')
    BY <1>2 DEF ConnectStep, ConnectRefused, Connect, ConnectFails, ConnectTimesOut,
       Opens, ConnectReturns, Delivered, Abort, GivesUp, WsClose
  <2> QED BY <1>1, <2>1
<1>3. CASE GuestCalls \/ Continues
  <2>1. UNCHANGED <<tasks, peerSent, stage, netDone>>
    BY <1>3 DEF GuestCalls, Continues, Receive, Send, Close, Drop, Closes, WsClose,
       WaitClosed, ReceiveViaStream, StreamRead, StreamDropped, SendViaStream,
       StreamPulls, ViaSends
  <2> QED BY <1>1, <2>1
<1>4. CASE MessageEvent \/ ClosingShows
  <2>1. tasks # <<>> /\ stage = "none" /\ tasks' = Tail(tasks)
        /\ UNCHANGED <<peerSent, netDone, stage>>
    BY <1>4 DEF MessageEvent, ClosingShows, Reported
  <2> QED BY <1>0, <2>1, TasksTail
<1>5. CASE EndShows
  <2>1. stage' = "shown" /\ tasks # <<>> /\ tasks[1].kind = "closed"
        /\ UNCHANGED <<tasks, peerSent, netDone>>
    BY <1>0, <1>5 DEF EndShows
  <2> QED BY <1>0, <2>1 DEF TasksKept, IsData
<1>6. CASE CloseEventEnds
  <2>1. stage = "shown" /\ stage' = "ended" /\ UNCHANGED <<tasks, peerSent, netDone>>
    BY <1>6 DEF CloseEventEnds
  <2> QED BY <1>0, <2>1 DEF TasksKept, IsData
<1>7. CASE CloseEventSettles
  <2>1. stage' = "done" /\ tasks' = <<>> /\ UNCHANGED <<peerSent, netDone>>
    BY <1>7 DEF CloseEventSettles
  <2> QED BY <1>0, <2>1 DEF TasksKept, IsData
<1>8. ASSUME NEW t \in Timers, TimerFires(t) PROVE TasksKept'
  <2>1. UNCHANGED <<tasks, peerSent, stage, netDone>> BY <1>8 DEF TimerFires
  <2> QED BY <1>1, <2>1
<1>9. CASE PeerData
  <2>1. Data(peerSent + 1) \in Events BY <1>0 DEF Data, Events, TasksKept
  <2>2. tasks' = Append(tasks, Data(peerSent + 1)) /\ ~netDone /\ peerSent < MaxMsgs
        /\ peerSent' = peerSent + 1 /\ UNCHANGED <<netDone, stage>>
    BY <1>0, <1>9 DEF PeerData, NetOnly
  <2> QED BY <1>0, <2>1, <2>2, TasksMore DEF Data
<1>10. ASSUME NEW code \in PeerCodes, PeerClose(code) PROVE TasksKept'
  <2> DEFINE events == <<[kind |-> "closing", arg |-> code], Ending(code)>>
  <2>1. events \in Seq(Events) BY CodesAssumption DEF Ending, Events
  <2>2. tasks' = tasks \o events /\ netDone' /\ peerSent' = peerSent /\ stage' = stage
    BY <1>10 DEF PeerClose, NetOnly
  <2>3. \A k \in DOMAIN events :
          /\ events[k].kind # "data"
          /\ events[k].kind = "closed" => events[k].arg \in PeerCodes \cup AbnormalCodes
    BY DEF Ending
  <2> HIDE DEF events
  <2> QED BY <1>0, <2>1, <2>2, <2>3, TasksEnd
<1>11. CASE TransportEnds
  <2>1. PICK code \in AbnormalCodes : NetOnly(<<Ending(code)>>)
    BY <1>11 DEF TransportEnds
  <2> DEFINE events == <<Ending(code)>>
  <2>2. events \in Seq(Events) BY CodesAssumption DEF Ending, Events
  <2>3. tasks' = tasks \o events /\ netDone' /\ peerSent' = peerSent /\ stage' = stage
    BY <1>11, <2>1 DEF TransportEnds, NetOnly
  <2>4. \A k \in DOMAIN events :
          /\ events[k].kind # "data"
          /\ events[k].kind = "closed" => events[k].arg \in PeerCodes \cup AbnormalCodes
    BY DEF Ending
  <2> HIDE DEF events
  <2> QED BY <1>0, <2>2, <2>3, <2>4, TasksEnd
<1>12. CASE Drains \/ UNCHANGED vars
  <2>1. UNCHANGED <<tasks, peerSent, stage, netDone>> BY <1>12 DEF Drains
  <2> QED BY <1>1, <2>1
<1> QED
  BY <1>2, <1>3, <1>4, <1>5, <1>6, <1>7, <1>8, <1>9, <1>10, <1>11, <1>12
     DEF Next, Reports, PeerStep
-----------------------------------------------------------------------------
\* The readers: who waits, and what each was told.
ReadersKept ==
  /\ WaitersKept
  /\ Waiting \subseteq Receives \cup {"stream"}
  /\ Waiting \ {"stream"} = {r \in Receives : recvSt[r] = "pending"}
  /\ recvSt \in [Receives -> {"unused", "pending", "message", "viaStream",
                              "overflow", "closed"}]
  /\ strm \in {"none", "idle", "pulling", "ended", "dropped"}

LEMMA KeptReaders == Kept => ReadersKept
BY DEF Kept, ReadersKept, FieldsTyped, QueueConsistent

\* One more waiter, or one fewer.
LEMMA WaitingMore ==
  ASSUME NEW w \in Receives \cup {"stream"}, WaitersKept, w \notin Waiting,
         waiters' = Append(waiters, w)
  PROVE  /\ Waiting' = Waiting \cup {w} /\ waiters' \in Seq(Receives \cup {"stream"})
         /\ \A j, k \in DOMAIN waiters' : waiters'[j] = waiters'[k] => j = k
<1>1. waiters \in Seq(Receives \cup {"stream"}) BY DEF WaitersKept
<1>2. /\ waiters' \in Seq(Receives \cup {"stream"}) /\ Len(waiters) \in Nat
      /\ DOMAIN waiters = 1 .. Len(waiters) /\ DOMAIN waiters' = 1 .. Len(waiters) + 1
      /\ waiters'[Len(waiters) + 1] = w
  BY <1>1
<1>3. \A k \in DOMAIN waiters : waiters'[k] = waiters[k] BY <1>1
<1>4. \A k \in DOMAIN waiters' : k \in DOMAIN waiters \/ k = Len(waiters) + 1 BY <1>2
<1>5. Waiting' = Waiting \cup {w} BY <1>2, <1>3, <1>4 DEF Waiting
<1>6. \A k \in DOMAIN waiters : waiters[k] # w BY DEF Waiting
<1>7. ASSUME NEW j \in DOMAIN waiters', NEW k \in DOMAIN waiters', waiters'[j] = waiters'[k]
      PROVE  j = k
  BY <1>2, <1>3, <1>4, <1>6, <1>7 DEF WaitersKept
<1> QED BY <1>2, <1>5, <1>7

LEMMA WaitersHead ==
  ASSUME waiters \in Seq(Receives \cup {"stream"}), waiters # <<>>
  PROVE  Head(waiters) \in Waiting
<1>1. 1 \in DOMAIN waiters /\ Head(waiters) = waiters[1] OBVIOUS
<1> QED BY <1>1 DEF Waiting

LEMMA WaitingLess ==
  ASSUME WaitersKept, waiters # <<>>, waiters' = Tail(waiters)
  PROVE  /\ Waiting' = Waiting \ {Head(waiters)} /\ Head(waiters) \in Waiting
         /\ waiters' \in Seq(Receives \cup {"stream"})
         /\ \A j, k \in DOMAIN waiters' : waiters'[j] = waiters'[k] => j = k
<1>1. waiters \in Seq(Receives \cup {"stream"}) BY DEF WaitersKept
<1>2. /\ waiters' \in Seq(Receives \cup {"stream"}) /\ Len(waiters) \in Nat \ {0}
      /\ DOMAIN waiters = 1 .. Len(waiters) /\ DOMAIN waiters' = 1 .. Len(waiters) - 1
      /\ Head(waiters) = waiters[1]
  BY <1>1
<1>3. \A k \in DOMAIN waiters' : waiters'[k] = waiters[k + 1] BY <1>1, <1>2
<1>4. \A j, k \in DOMAIN waiters : waiters[j] = waiters[k] => j = k BY DEF WaitersKept
<1>5. ASSUME NEW j \in DOMAIN waiters', NEW k \in DOMAIN waiters', waiters'[j] = waiters'[k]
      PROVE  j = k
  <2>1. j + 1 \in DOMAIN waiters /\ k + 1 \in DOMAIN waiters
        /\ waiters[j + 1] = waiters[k + 1]
    BY <1>2, <1>3, <1>5
  <2>2. j + 1 = k + 1 BY <1>4, <2>1
  <2> QED BY <1>2, <2>2
<1>6. Waiting' \subseteq Waiting \ {Head(waiters)}
  <2> SUFFICES ASSUME NEW k \in DOMAIN waiters'
               PROVE  waiters'[k] \in Waiting \ {Head(waiters)}
    BY DEF Waiting
  <2>1. k + 1 \in DOMAIN waiters /\ k + 1 # 1 /\ 1 \in DOMAIN waiters BY <1>2
  <2> QED BY <1>2, <1>3, <1>4, <2>1 DEF Waiting
<1>7. Waiting \ {Head(waiters)} \subseteq Waiting'
  <2> SUFFICES ASSUME NEW k \in DOMAIN waiters, waiters[k] # Head(waiters)
               PROVE  waiters[k] \in Waiting'
    BY DEF Waiting
  <2>1. k - 1 \in DOMAIN waiters' /\ (k - 1) + 1 = k BY <1>2
  <2>2. waiters'[k - 1] = waiters[k] BY <1>3, <2>1
  <2> QED BY <2>1, <2>2 DEF Waiting
<1>8. Head(waiters) \in Waiting BY <1>2 DEF Waiting
<1> QED BY <1>2, <1>5, <1>6, <1>7, <1>8

\* When all are rejected nobody waits.
LEMMA ReadersRejected ==
  ASSUME ReadersKept, NEW error \in {"overflow", "closed"}, Reject(error),
         UNCHANGED streamClaimed
  PROVE  ReadersKept' /\ Waiting' = {}
<1>1. Waiting' = {} /\ waiters' = <<>> BY DEF Reject, Waiting
<1>2. ASSUME NEW r \in Receives PROVE recvSt'[r] # "pending"
  BY ReadersAssumption DEF Reject, ReadersKept
<1>3. WaitersKept' BY <1>1 DEF Reject, ReadersKept, WaitersKept
<1>4. recvSt' \in [Receives -> {"unused", "pending", "message", "viaStream",
                               "overflow", "closed"}]
  BY DEF Reject, ReadersKept
<1>5. strm' \in {"none", "idle", "pulling", "ended", "dropped"}
  BY DEF Reject, ReadersKept
<1> QED BY <1>1, <1>2, <1>3, <1>4, <1>5 DEF ReadersKept

\* A message handed to whoever asks on his own leaves nobody waiting, since nobody
\* was; one handed to the first waiter takes him out.
LEMMA ReadersHanded ==
  ASSUME ReadersKept, NEW who \in Receives \cup {"stream"}, NEW m, Hands(who, m),
         UNCHANGED streamClaimed,
         \/ UNCHANGED waiters /\ waiters = <<>>
         \/ waiters # <<>> /\ waiters' = Tail(waiters) /\ who = Head(waiters)
  PROVE  ReadersKept'
<1>1. /\ Waiting' = Waiting \ {who} /\ waiters' \in Seq(Receives \cup {"stream"})
      /\ \A j, k \in DOMAIN waiters' : waiters'[j] = waiters'[k] => j = k
  <2>1. CASE waiters = <<>> /\ UNCHANGED waiters BY <2>1 DEF Waiting
  <2>2. CASE waiters # <<>> /\ waiters' = Tail(waiters) /\ who = Head(waiters)
    BY <2>2, WaitingLess DEF ReadersKept
  <2> QED BY <2>1, <2>2
<1>2. recvSt' = [r \in Receives |-> IF r = who THEN "message" ELSE recvSt[r]]
  BY DEF Hands
<1>3. recvSt' \in [Receives -> {"unused", "pending", "message", "viaStream",
                               "overflow", "closed"}]
  BY <1>2 DEF ReadersKept
<1>4. ASSUME NEW r \in Receives PROVE recvSt'[r] = "pending" <=> r # who /\ recvSt[r] = "pending"
  BY <1>2
<1>5. Waiting' \ {"stream"} = {r \in Receives : recvSt'[r] = "pending"}
  BY <1>1, <1>4 DEF ReadersKept
<1>6. /\ strm' = strm \/ (strm \in {"idle", "pulling"} /\ strm' = "idle" /\ who = "stream")
      /\ strm \in {"none", "idle", "pulling", "ended", "dropped"}
  BY DEF Hands, ReadersKept
<1>7. "stream" \in Waiting' => strm' \in {"pulling", "dropped"}
  BY <1>1, <1>6 DEF ReadersKept, WaitersKept
<1>8. streamClaimed' => Waiting' \subseteq {"stream"}
  BY <1>1 DEF ReadersKept, WaitersKept
<1>9. streamClaimed' <=> strm' # "none" BY <1>6 DEF ReadersKept, WaitersKept
<1> QED BY <1>1, <1>3, <1>5, <1>6, <1>7, <1>8, <1>9 DEF ReadersKept, WaitersKept

\* Every step keeps the readers.
LEMMA ReadersNext == Kept /\ [Next]_vars => ReadersKept'
<1> SUFFICES ASSUME Kept, [Next]_vars PROVE ReadersKept'
  OBVIOUS
<1> USE DEF vars, connecting, platform, outward, net, flags, settling, queue, inward,
            sending
<1>0. ReadersKept /\ (waiters # <<>> => messages = <<>>) /\ overflowed \in BOOLEAN
      /\ waiters \in Seq(Receives \cup {"stream"})
  BY KeptReaders, Fields DEF Kept, QueueConsistent, WaitersKept
<1>1. ASSUME UNCHANGED <<waiters, recvSt, strm, streamClaimed>> PROVE ReadersKept'
  BY <1>0, <1>1 DEF ReadersKept, WaitersKept, Waiting
<1>2. ASSUME QueueEnds, UNCHANGED streamClaimed PROVE ReadersKept'
  <2>1. CASE closed BY <1>1, <1>2, <2>1 DEF QueueEnds
  <2>2. CASE ~closed
    <3>1. EndError \in {"overflow", "closed"} BY DEF EndError
    <3> QED BY <1>0, <1>2, <2>2, <3>1, ReadersRejected DEF QueueEnds
  <2> QED BY <2>1, <2>2
<1>3. CASE ConnectStep
  <2>1. UNCHANGED <<waiters, recvSt, strm, streamClaimed>>
    BY <1>3 DEF ConnectStep, ConnectRefused, Connect, ConnectFails, ConnectTimesOut,
       Opens, ConnectReturns, Delivered, Abort, GivesUp, WsClose
  <2> QED BY <1>1, <2>1
<1>4. ASSUME NEW r \in Receives, Receive(r) PROVE ReadersKept'
  <2> DEFINE Errors == {"closed", "viaStream", "overflow"}
  <2>1. CASE TakesNext(r)
    <3>1. Hands(r, Head(messages)) /\ UNCHANGED <<waiters, streamClaimed>> /\ waiters = <<>>
      BY <1>0, <1>4, <2>1 DEF Receive, TakesNext
    <3> QED BY <1>0, <3>1, ReadersHanded
  <2>2. ASSUME NEW e \in Errors, recvSt' = [recvSt EXCEPT ![r] = e],
               UNCHANGED <<waiters, strm>>
        PROVE  ReadersKept'
    <3>1. recvSt[r] # "pending" /\ UNCHANGED streamClaimed BY <1>4 DEF Receive
    <3>2. \A q \in Receives : recvSt'[q] = "pending" <=> recvSt[q] = "pending"
      BY <1>0, <2>2, <3>1 DEF ReadersKept
    <3>3. {q \in Receives : recvSt'[q] = "pending"} = {q \in Receives : recvSt[q] = "pending"}
      BY <3>2
    <3> QED BY <1>0, <2>2, <3>1, <3>3 DEF ReadersKept, WaitersKept, Waiting
  <2>3. CASE Waits(r) /\ ~streamClaimed /\ recvSt' = [recvSt EXCEPT ![r] = "pending"]
             /\ UNCHANGED strm
    <3>1. recvSt[r] # "pending" /\ UNCHANGED streamClaimed BY <1>4 DEF Receive
    <3>2. r \notin Waiting /\ r # "stream" BY <1>0, <3>1, ReadersAssumption DEF ReadersKept
    <3>3. /\ Waiting' = Waiting \cup {r} /\ waiters' \in Seq(Receives \cup {"stream"})
          /\ \A j, k \in DOMAIN waiters' : waiters'[j] = waiters'[k] => j = k
      BY <1>0, <2>3, <3>2, WaitingMore DEF Waits, ReadersKept
    <3>4. {q \in Receives : recvSt'[q] = "pending"}
             = {q \in Receives : recvSt[q] = "pending"} \cup {r}
      BY <1>0, <2>3 DEF ReadersKept
    <3> QED BY <1>0, <2>3, <3>1, <3>2, <3>3, <3>4 DEF ReadersKept, WaitersKept
  <2>4. \/ TakesNext(r)
        \/ \E e \in Errors : recvSt' = [recvSt EXCEPT ![r] = e] /\ UNCHANGED <<waiters, strm>>
        \/ Waits(r) /\ ~streamClaimed /\ recvSt' = [recvSt EXCEPT ![r] = "pending"]
             /\ UNCHANGED strm
    <3>1. EndError \in Errors BY DEF EndError
    <3> QED BY <1>4, <3>1 DEF Receive
  <2> QED BY <2>1, <2>2, <2>3, <2>4
<1>5. CASE Closes
  <2>1. Reject("closed") /\ UNCHANGED streamClaimed BY <1>5 DEF Closes, Discard
  <2> QED BY <1>0, <2>1, ReadersRejected
<1>6. CASE ReceiveViaStream
  <2>1. Waiting' = {} /\ waiters' = <<>> /\ streamClaimed' /\ strm' = "idle"
    BY <1>6 DEF ReceiveViaStream, ClaimRejects, Waiting
  <2>2. recvSt' = [r \in Receives |-> IF r \in Waiting THEN "viaStream" ELSE recvSt[r]]
    BY <1>6 DEF ReceiveViaStream, ClaimRejects
  <2>3. \A r \in Receives : recvSt'[r] # "pending"
    BY <1>0, <2>2, ReadersAssumption DEF ReadersKept
  <2>4. recvSt' \in [Receives -> {"unused", "pending", "message", "viaStream",
                                 "overflow", "closed"}]
    BY <1>0, <2>2 DEF ReadersKept
  <2> QED BY <2>1, <2>3, <2>4 DEF ReadersKept, WaitersKept
<1>7. CASE StreamPulls
  <2>0. "stream" \notin Waiting /\ strm = "idle" /\ UNCHANGED streamClaimed
    BY <1>0, <1>7 DEF StreamPulls, ReadersKept, WaitersKept
  <2>1. CASE TakesNext("stream")
    <3>1. Hands("stream", Head(messages)) /\ UNCHANGED <<waiters, streamClaimed>>
          /\ waiters = <<>>
      BY <1>0, <2>0, <2>1 DEF TakesNext
    <3> QED BY <1>0, <3>1, ReadersHanded
  <2>2. CASE strm' = "ended" /\ UNCHANGED <<queue, recvSt, element, taken>>
    <3>1. waiters' = waiters /\ recvSt' = recvSt /\ Waiting' = Waiting BY <2>2 DEF queue, Waiting
    <3>2. WaitersKept
      BY <1>0 DEF ReadersKept
    <3>3. /\ waiters' \in Seq(Receives \cup {"stream"})
          /\ \A j, k \in DOMAIN waiters' : waiters'[j] = waiters'[k] => j = k
      BY <3>1, <3>2 DEF WaitersKept
    <3>4. "stream" \notin Waiting' /\ (streamClaimed' => Waiting' \subseteq {"stream"})
          /\ (streamClaimed' <=> strm' # "none")
      <4> HIDE DEF Waiting
      <4> QED BY <2>0, <2>2, <3>1, <3>2 DEF WaitersKept
    <3>5. WaitersKept' BY <3>3, <3>4 DEF WaitersKept
    <3> QED BY <1>0, <2>0, <2>2, <3>1, <3>5 DEF ReadersKept
  <2>3. CASE Waits("stream") /\ strm' = "pulling" /\ UNCHANGED recvSt
    <3>1. /\ Waiting' = Waiting \cup {"stream"} /\ waiters' \in Seq(Receives \cup {"stream"})
          /\ \A j, k \in DOMAIN waiters' : waiters'[j] = waiters'[k] => j = k
      BY <1>0, <2>0, <2>3, WaitingMore DEF Waits, ReadersKept
    <3> QED BY <1>0, <2>0, <2>3, <3>1, ReadersAssumption DEF ReadersKept, WaitersKept
  <2> QED BY <1>7, <2>1, <2>2, <2>3 DEF StreamPulls
<1>8. CASE StreamDropped
  <2>1. strm \in {"idle", "pulling"} /\ strm' = "dropped"
        /\ UNCHANGED <<waiters, recvSt, streamClaimed>>
    BY <1>8 DEF StreamDropped
  <2> QED BY <1>0, <2>1 DEF ReadersKept, WaitersKept, Waiting
<1>9. CASE MessageEvent
  <2>1. UNCHANGED streamClaimed BY <1>9 DEF MessageEvent
  <2>2. CASE UNCHANGED <<waiters, recvSt, strm>> BY <1>1, <2>1, <2>2
  <2>3. CASE waiters # <<>> /\ Hands(Head(waiters), Head(tasks).arg) /\ waiters' = Tail(waiters)
    <3>1. Head(waiters) \in Receives \cup {"stream"} BY <1>0, <2>3
    <3> QED BY <1>0, <2>1, <2>3, <3>1, ReadersHanded
  <2> QED BY <1>9, <2>2, <2>3 DEF MessageEvent
<1>10. CASE EndShows \/ CloseEventEnds \/ CloseEventSettles
  <2>1. UNCHANGED streamClaimed /\ (QueueEnds \/ UNCHANGED <<waiters, recvSt, strm>>)
    BY <1>10 DEF EndShows, CloseEventEnds, CloseEventSettles, Settles
  <2> QED BY <1>1, <1>2, <2>1
<1>11. ASSUME NEW t \in Timers, TimerFires(t) PROVE ReadersKept'
  <2>1. UNCHANGED streamClaimed /\ (QueueEnds \/ UNCHANGED <<waiters, recvSt, strm>>)
    BY <1>11 DEF TimerFires, Settles
  <2> QED BY <1>1, <1>2, <2>1
<1>12. CASE \/ \E s \in Sends : Send(s)
            \/ WaitClosed \/ StreamRead \/ SendViaStream \/ ViaSends \/ ClosingShows
            \/ PeerStep \/ UNCHANGED vars
  <2>1. UNCHANGED <<waiters, recvSt, strm, streamClaimed>>
    BY <1>12 DEF Send, WaitClosed, StreamRead, SendViaStream, ViaSends, ClosingShows,
       PeerStep, PeerData, PeerClose, TransportEnds, Drains, NetOnly
  <2> QED BY <1>1, <2>1
<1> QED
  BY <1>3, <1>4, <1>5, <1>6, <1>7, <1>8, <1>9, <1>10, <1>11, <1>12
     DEF Next, GuestCalls, Continues, Reports, Close, Drop
-----------------------------------------------------------------------------
\* The messages that wait, and those that were taken.
InboxKept ==
  /\ QueueKept
  /\ messages \in Seq(MsgIds) /\ taken \in Seq(MsgIds) /\ element \in Seq(MsgIds)
  /\ buffered = QueuedBytes /\ buffered \in 0 .. Limit
  /\ waiters # <<>> => messages = <<>> /\ ~closed

LEMMA KeptInbox == Kept => InboxKept
BY Fields DEF Kept, InboxKept, FieldsTyped, QueueConsistent

\* The first and the last message that are queued.
LEMMA Ends ==
  ASSUME QueueKept, messages \in Seq(MsgIds), messages # <<>>
  PROVE  /\ Len(messages) \in Nat \ {0} /\ 1 \in DOMAIN messages
         /\ DOMAIN messages = 1 .. Len(messages)
         /\ messages[1] \in MsgIds /\ Head(messages) = messages[1]
         /\ messages[Len(messages)] \in MsgIds
         /\ messages[Len(messages)] = messages[1] + Len(messages) - 1
         /\ \A i \in MsgIds : i \in 1 .. MaxMsgs /\ i - 1 \in 0 .. MaxMsgs
<1>1. Len(messages) \in Nat \ {0} /\ DOMAIN messages = 1 .. Len(messages)
      /\ Head(messages) = messages[1]
      /\ \A k \in 1 .. Len(messages) : messages[k] \in MsgIds
  OBVIOUS
<1>2. \A k \in 1 .. Len(messages) : messages[k] = messages[1] + k - 1
  BY <1>1 DEF QueueKept
<1>3. \A i \in MsgIds : i \in 1 .. MaxMsgs /\ i - 1 \in 0 .. MaxMsgs
  BY SizesAssumption DEF MsgIds
<1> QED BY <1>1, <1>2, <1>3

\* Where a step leaves the queue alone, or empties it.
LEMMA InboxStill ==
  ASSUME InboxKept,
         conn \in {"open", "held"} => conn' \in {"open", "held"},
         \/ UNCHANGED <<messages, buffered>>
         \/ messages' = <<>> /\ buffered' = 0,
         messages' # <<>> /\ readyState' = "OPEN" =>
           readyState = "OPEN" /\ UNCHANGED <<tasks, peerSent>>,
         \/ UNCHANGED <<waiters, closed>>
         \/ waiters' = <<>>
         \/ messages' = <<>> /\ ~closed',
         taken' \in Seq(MsgIds), element' \in Seq(MsgIds)
  PROVE  InboxKept'
<1>1. messages' \in Seq(MsgIds)
  <2>1. messages \in Seq(MsgIds) /\ << >> \in Seq(MsgIds) BY DEF InboxKept
  <2> QED BY <2>1
<1>2. QueueKept'
  <2>1. CASE messages' = <<>> BY <2>1 DEF QueueKept
  <2>2. CASE messages' # <<>>
    <3>1. messages' = messages BY <2>2
    <3>2. readyState' = "OPEN" => (IsData(1)' <=> IsData(1)) BY <2>2 DEF IsData
    <3> QED BY <2>2, <3>1, <3>2 DEF InboxKept, QueueKept
  <2> QED BY <2>1, <2>2
<1>3. buffered' = QueuedBytes' /\ buffered' \in 0 .. Limit
  <2>1. Limit \in Nat BY SizesAssumption
  <2>2. CASE messages' = <<>> /\ buffered' = 0 BY <2>1, <2>2 DEF QueuedBytes
  <2>3. CASE UNCHANGED <<messages, buffered>>
    <3>1. QueuedBytes' = QueuedBytes BY <2>3 DEF QueuedBytes
    <3> QED BY <2>3, <3>1 DEF InboxKept
  <2> QED BY <2>2, <2>3
<1> QED BY <1>1, <1>2, <1>3 DEF InboxKept

\* The first message is taken.
LEMMA InboxTaken ==
  ASSUME InboxKept, NEW who, TakesNext(who),
         UNCHANGED <<conn, readyState, tasks, peerSent>>
  PROVE  InboxKept'
<1> DEFINE h == messages[1]
           n == Len(messages)
<1>1. messages \in Seq(MsgIds) /\ messages # <<>> /\ messages' = Tail(messages)
      /\ waiters' = <<>>
  BY DEF InboxKept, TakesNext
<1>2. /\ n \in Nat \ {0} /\ h \in MsgIds /\ Head(messages) = h
      /\ messages[n] \in MsgIds /\ messages[n] = h + n - 1
      /\ \A i \in MsgIds : i \in 1 .. MaxMsgs /\ i - 1 \in 0 .. MaxMsgs
  BY <1>1, Ends DEF InboxKept
<1>3. messages' \in Seq(MsgIds) /\ Len(messages') = n - 1 /\ DOMAIN messages' = 1 .. n - 1
  BY <1>1
<1>4. \A k \in DOMAIN messages' : messages'[k] = messages[k + 1] /\ k + 1 \in DOMAIN messages
  BY <1>1, <1>3
<1>5. \A k \in DOMAIN messages' : messages'[k] = h + k
  BY <1>2, <1>3, <1>4 DEF InboxKept, QueueKept
<1> HIDE DEF h, n
<1>6. taken' \in Seq(MsgIds) /\ element' \in Seq(MsgIds)
  <2>1. <<h>> \in Seq(MsgIds) /\ taken \in Seq(MsgIds) /\ element \in Seq(MsgIds)
    BY <1>2 DEF InboxKept
  <2>2. taken' = Append(taken, h) /\ (element' = <<h>> \/ element' = element)
    BY <1>2 DEF TakesNext, Hands
  <2>3. taken' \in Seq(MsgIds) BY <1>2, <2>1, <2>2
  <2> QED BY <2>1, <2>2, <2>3
<1>7. QueueKept'
  <2>1. \A k \in DOMAIN messages' : messages'[k] = messages'[1] + k - 1
    <3>1. ASSUME NEW k \in DOMAIN messages' PROVE 1 \in DOMAIN messages' /\ k \in Int
      BY <1>2, <1>3
    <3> QED BY <1>2, <1>5, <3>1 DEF MsgIds
  <2>2. messages' # <<>> => messages'[Len(messages')] = messages[n]
    <3>1. messages' # <<>> => n - 1 \in DOMAIN messages' BY <1>2, <1>3
    <3> QED BY <1>2, <1>3, <1>5, <3>1
  <2>3. IsData(1)' <=> IsData(1) BY DEF IsData
  <2> QED BY <1>1, <1>2, <2>1, <2>2, <2>3 DEF InboxKept, QueueKept, n
<1>8. buffered = Offset[messages[n]] - Offset[h - 1]
  BY <1>1, <1>2 DEF InboxKept, QueuedBytes, n
<1>9. buffered' = buffered - (Offset[h] - Offset[h - 1])
  BY <1>2 DEF TakesNext, Size
<1>10. /\ Offset[h - 1] \in Nat /\ Offset[h] \in Nat /\ Offset[messages[n]] \in Nat
       /\ Offset[h - 1] =< Offset[h] /\ Offset[h] =< Offset[messages[n]]
  <2>1. /\ h \in 0 .. MaxMsgs /\ h - 1 \in 0 .. MaxMsgs /\ messages[n] \in 0 .. MaxMsgs
        /\ h - 1 =< h /\ h =< messages[n]
    <3>1. MaxMsgs \in Nat /\ h \in 1 .. MaxMsgs /\ messages[n] \in 1 .. MaxMsgs
      BY <1>2, SizesAssumption
    <3>2. n \in Nat \ {0} /\ messages[n] = h + n - 1 BY <1>2
    <3> QED BY <3>1, <3>2
  <2> QED BY <2>1, SizesAssumption
<1>11. buffered' = Offset[messages[n]] - Offset[h] BY <1>8, <1>9, <1>10
<1>12. buffered' \in 0 .. Limit
  <2>1. Limit \in Nat /\ buffered \in Nat /\ buffered =< Limit
    BY SizesAssumption DEF InboxKept
  <2> QED BY <1>8, <1>9, <1>10, <1>11, <2>1
<1>13. buffered' = QueuedBytes'
  <2>1. CASE messages' = <<>>
    <3>1. n = 1 /\ messages[n] = h BY <1>2, <1>3, <2>1 DEF MsgIds
    <3> QED BY <1>10, <1>11, <2>1, <3>1 DEF QueuedBytes
  <2>2. CASE messages' # <<>>
    <3>0. 1 \in DOMAIN messages' /\ n - 1 \in DOMAIN messages' BY <1>2, <1>3, <2>2
    <3>1. Head(messages') = messages'[1] /\ messages'[1] = h + 1
      BY <1>3, <1>5, <2>2, <3>0
    <3>3. h \in Int /\ messages'[n - 1] = h + (n - 1) BY <1>2, <1>5, <3>0 DEF MsgIds
    <3>4. messages'[Len(messages')] = messages[n] BY <1>2, <1>3, <3>3
    <3>2. (h + 1) - 1 = h BY <1>2 DEF MsgIds
    <3> QED BY <1>11, <2>2, <3>1, <3>2, <3>4 DEF QueuedBytes
  <2> QED BY <2>1, <2>2
<1> QED BY <1>1, <1>3, <1>6, <1>7, <1>12, <1>13 DEF InboxKept

\* What follows the first message: the next one, or none was sent.
LEMMA TaskAfter ==
  ASSUME TasksKept, IsData(1), tasks' = Tail(tasks), UNCHANGED peerSent
  PROVE  IF IsData(1)' THEN tasks'[1].arg = tasks[1].arg + 1 ELSE tasks[1].arg = peerSent'
<1>1. tasks \in Seq(Events) /\ tasks # <<>> BY DEF IsData, TasksKept
<1>2. IsData(1)' <=> IsData(1 + 1) BY <1>1 DEF IsData
<1>3. IsData(1 + 1) => tasks'[1] = tasks[1 + 1] BY <1>1 DEF IsData
<1>4. /\ IsData(1 + 1) => tasks[1 + 1].arg = tasks[1].arg + 1
      /\ ~IsData(1 + 1) => tasks[1].arg = peerSent
  BY DEF TasksKept, IsData
<1> QED BY <1>2, <1>3, <1>4

\* A message that fits is queued.
LEMMA InboxArrives ==
  ASSUME InboxKept, TasksKept, NEW m, IsData(1), m = tasks[1].arg, readyState = "OPEN",
         conn \in {"open", "held"}, tasks' = Tail(tasks), buffered + Size(m) =< Limit,
         messages' = Append(messages, m), buffered' = buffered + Size(m), waiters = <<>>,
         UNCHANGED <<conn, readyState, peerSent, waiters, taken, element>>
  PROVE  InboxKept'
<1> DEFINE n == Len(messages)
<1>1. m \in MsgIds /\ tasks \in Seq(Events) /\ tasks # <<>> BY DEF IsData, TasksKept
<1>2. messages \in Seq(MsgIds) BY DEF InboxKept
<1>3. /\ messages' \in Seq(MsgIds) /\ n \in Nat /\ Len(messages') = n + 1
      /\ DOMAIN messages' = 1 .. n + 1 /\ messages'[n + 1] = m /\ messages' # <<>>
      /\ DOMAIN messages = 1 .. n /\ (n = 0 <=> messages = <<>>)
  BY <1>1, <1>2
<1>4. \A k \in 1 .. n : messages'[k] = messages[k] BY <1>2, <1>3
<1>5. messages # <<>> => m = messages[n] + 1 /\ messages[n] = messages[1] + n - 1
                         /\ messages[n] \in MsgIds /\ messages[1] \in MsgIds
  BY <1>1, <1>2, Ends DEF InboxKept, QueueKept
<1>6. \A k \in DOMAIN messages' : messages'[k] = messages'[1] + k - 1
  <2>1. CASE n = 0 BY <1>1, <1>3, <2>1 DEF MsgIds
  <2>2. CASE n # 0
    <3>1. messages'[1] = messages[1] BY <1>3, <1>4, <2>2
    <3>2. messages'[n + 1] = messages'[1] + (n + 1) - 1
      BY <1>3, <1>5, <2>2, <3>1 DEF MsgIds
    <3>3. \A k \in 1 .. n : messages'[k] = messages'[1] + k - 1
      BY <1>3, <1>4, <3>1 DEF InboxKept, QueueKept
    <3>4. \A k \in DOMAIN messages' : k \in 1 .. n \/ k = n + 1 BY <1>3
    <3> QED BY <3>2, <3>3, <3>4
  <2> QED BY <2>1, <2>2
<1>7. IF IsData(1)' THEN tasks'[1].arg = m + 1 ELSE m = peerSent' BY TaskAfter
<1>8. QueueKept' BY <1>3, <1>6, <1>7 DEF QueueKept
<1>9. m \in 0 .. MaxMsgs /\ m - 1 \in 0 .. MaxMsgs /\ m - 1 =< m
  <2>1. MaxMsgs \in Nat BY SizesAssumption
  <2>2. m \in 1 .. MaxMsgs BY <1>1 DEF MsgIds
  <2> QED BY <2>1, <2>2
<1>10. Offset[m] \in Nat /\ Offset[m - 1] \in Nat /\ Offset[m - 1] =< Offset[m]
  BY <1>9, SizesAssumption
<1>11. buffered' \in 0 .. Limit /\ buffered' = buffered + (Offset[m] - Offset[m - 1])
  <2>1. Limit \in Nat /\ buffered \in Nat BY SizesAssumption DEF InboxKept
  <2>2. Size(m) = Offset[m] - Offset[m - 1] BY DEF Size
  <2> QED BY <1>10, <2>1, <2>2
<1>12. Head(messages') = messages'[1] /\ messages'[Len(messages')] = m BY <1>3
<1>13. QueuedBytes' = Offset[m] - Offset[messages'[1] - 1] BY <1>3, <1>12 DEF QueuedBytes
<1>14. buffered' = QueuedBytes'
  <2>1. CASE messages = <<>>
    <3>1. buffered = 0 /\ messages'[1] = m BY <1>3, <2>1 DEF InboxKept, QueuedBytes
    <3> QED BY <1>10, <1>11, <1>13, <3>1
  <2>2. CASE messages # <<>>
    <3>1. buffered = Offset[messages[n]] - Offset[messages[1] - 1] /\ messages'[1] = messages[1]
      BY <1>2, <1>3, <1>4, <2>2, Ends DEF InboxKept, QueuedBytes
    <3>2. m - 1 = messages[n] BY <1>5, <2>2 DEF MsgIds
    <3>3. messages[1] - 1 \in 0 .. MaxMsgs BY <1>2, <2>2, Ends DEF InboxKept
    <3>4. Offset[messages[1] - 1] \in Nat BY <3>3, SizesAssumption
    <3>5. buffered = Offset[m - 1] - Offset[messages[1] - 1] BY <3>1, <3>2
    <3>6. buffered' = Offset[m] - Offset[messages[1] - 1]
      BY <1>10, <1>11, <3>4, <3>5
    <3> QED BY <1>13, <3>1, <3>6
  <2> QED BY <2>1, <2>2
<1> QED BY <1>3, <1>8, <1>11, <1>14 DEF InboxKept

\* Once the first event is no message, none comes.  Otherwise the first message
\* is the same after a step of the peer, or it is the one that was just sent.
LEMMA FirstEvent ==
  ASSUME Kept, PeerStep
  PROVE  \/ IsData(1) /\ IsData(1)' /\ tasks'[1] = tasks[1]
         \/ ~IsData(1) /\ ~IsData(1)' /\ UNCHANGED peerSent
         \/ ~IsData(1) /\ IsData(1)' /\ tasks'[1].arg = peerSent + 1
<1> USE DEF vars, connecting, platform, outward, net, flags, settling, queue, inward,
            sending
<1> DEFINE Goal == \/ IsData(1) /\ IsData(1)' /\ tasks'[1] = tasks[1]
                   \/ ~IsData(1) /\ ~IsData(1)' /\ UNCHANGED peerSent
                   \/ ~IsData(1) /\ IsData(1)' /\ tasks'[1].arg = peerSent + 1
<1>0. TasksKept /\ tasks \in Seq(Events) /\ peerSent \in Nat BY DEF Kept, TasksKept
<1>1. CASE PeerData
  <2>1. tasks' = Append(tasks, Data(peerSent + 1)) /\ ~netDone
    BY <1>1 DEF PeerData, NetOnly
  <2>2. CASE tasks = <<>> BY <2>1, <2>2 DEF IsData, Data
  <2>3. CASE tasks # <<>>
    <3>1. 1 \in DOMAIN tasks /\ 1 \in DOMAIN tasks' /\ tasks'[1] = tasks[1]
      BY <1>0, <2>1, <2>3
    <3> QED BY <1>0, <2>1, <3>1 DEF TasksKept, IsData
  <2> QED BY <2>2, <2>3
<1>2. ASSUME NEW events \in Seq(Events), NetOnly(events), events # <<>>,
             events[1].kind # "data", UNCHANGED peerSent
      PROVE  Goal
  <2>1. tasks' = tasks \o events BY <1>2 DEF NetOnly
  <2>2. CASE tasks = <<>>
    <3>1. tasks' = events BY <1>2, <2>1, <2>2, ConcatEmptySeq
    <3> QED BY <1>2, <2>2, <3>1 DEF IsData
  <2>3. CASE tasks # <<>>
    <3>1. 1 \in DOMAIN tasks /\ 1 \in DOMAIN tasks' /\ tasks'[1] = tasks[1]
      BY <1>0, <1>2, <2>1, <2>3, ConcatProperties
    <3> QED BY <1>2, <3>1 DEF IsData
  <2> QED BY <2>2, <2>3
<1>3. ASSUME NEW code \in PeerCodes, PeerClose(code) PROVE Goal
  <2> DEFINE events == <<[kind |-> "closing", arg |-> code], Ending(code)>>
  <2>1. events \in Seq(Events) BY CodesAssumption DEF Ending, Events
  <2>2. events # <<>> /\ events[1].kind # "data" OBVIOUS
  <2>3. NetOnly(events) /\ UNCHANGED peerSent BY <1>3 DEF PeerClose
  <2> HIDE DEF events, Goal
  <2> QED BY <1>2, <2>1, <2>2, <2>3
<1>4. CASE TransportEnds
  <2>1. PICK code \in AbnormalCodes : NetOnly(<<Ending(code)>>) BY <1>4 DEF TransportEnds
  <2> DEFINE events == <<Ending(code)>>
  <2>2. events \in Seq(Events) BY CodesAssumption DEF Ending, Events
  <2>3. events # <<>> /\ events[1].kind # "data" BY DEF Ending
  <2>4. NetOnly(events) /\ UNCHANGED peerSent BY <1>4, <2>1 DEF TransportEnds
  <2> HIDE DEF events
  <2>5. Goal
    <3> HIDE DEF Goal
    <3> QED BY <1>2, <2>2, <2>3, <2>4
  <2> QED BY <2>5
<1>5. CASE Drains BY <1>5 DEF Drains, IsData
<1> QED BY <1>1, <1>3, <1>4, <1>5 DEF PeerStep

\* Every step keeps the queue in order and its bytes counted.
LEMMA InboxNext == Kept /\ [Next]_vars => InboxKept'
<1> SUFFICES ASSUME Kept, [Next]_vars PROVE InboxKept'
  OBVIOUS
<1> USE DEF vars, connecting, platform, outward, net, flags, settling, queue, inward,
            sending
<1>0. /\ InboxKept /\ TasksKept /\ SocketKept /\ ReadersKept
      /\ messages \in Seq(MsgIds) /\ taken \in Seq(MsgIds) /\ element \in Seq(MsgIds)
      /\ waiters \in Seq(Receives \cup {"stream"})
      /\ << >> \in Seq(MsgIds) /\ \A i \in MsgIds : <<i>> \in Seq(MsgIds)
  BY KeptInbox, KeptReaders, Fields DEF Kept, ReadersKept, WaitersKept
<1>1. ASSUME UNCHANGED <<conn, messages, buffered, waiters, closed, taken>>,
             element' = element \/ element' = <<>>,
             readyState' = "OPEN" => readyState = "OPEN" /\ UNCHANGED <<tasks, peerSent>>
      PROVE  InboxKept'
  BY <1>0, <1>1, InboxStill
<1>2. ASSUME NEW m \in MsgIds, NEW who, Hands(who, m)
      PROVE  taken' \in Seq(MsgIds) /\ element' \in Seq(MsgIds)
  <2>1. taken' = Append(taken, m) /\ (element' = <<m>> \/ element' = element)
    BY <1>2 DEF Hands
  <2>2. taken' \in Seq(MsgIds) BY <1>0, <2>1
  <2> QED BY <1>0, <2>1, <2>2
<1>3. ASSUME UNCHANGED conn, readyState' # "OPEN", QueueEnds PROVE InboxKept'
  <2>1. /\ UNCHANGED <<messages, buffered, taken, element>>
        /\ UNCHANGED <<waiters, closed>> \/ waiters' = <<>>
    BY <1>3 DEF QueueEnds, Reject
  <2> QED BY <1>0, <1>3, <2>1, InboxStill
<1>4. CASE ConnectStep
  <2>1. /\ UNCHANGED <<messages, buffered, waiters, closed, taken, element, tasks, peerSent>>
        /\ conn \in {"open", "held"} => conn' \in {"open", "held"}
    BY <1>4 DEF ConnectStep, ConnectRefused, Connect, ConnectFails, ConnectTimesOut,
       Opens, ConnectReturns, Delivered, Abort, GivesUp, WsClose
  <2>2. messages # <<>> /\ readyState' = "OPEN" => readyState = "OPEN"
    BY <1>0, <1>4 DEF InboxKept, QueueKept, ConnectStep, ConnectRefused, Connect,
       ConnectFails, ConnectTimesOut, Opens, ConnectReturns, Delivered, Abort, GivesUp, WsClose
  <2> QED BY <1>0, <2>1, <2>2, InboxStill
<1>5. ASSUME NEW r \in Receives, Receive(r) PROVE InboxKept'
  <2>1. UNCHANGED <<conn, readyState, tasks, peerSent>> BY <1>5 DEF Receive
  <2>2. CASE TakesNext(r) BY <1>0, <2>1, <2>2, InboxTaken
  <2>3. CASE UNCHANGED <<queue, element, taken>> BY <1>1, <2>1, <2>3
  <2>4. CASE Waits(r) /\ UNCHANGED <<element, taken>>
    BY <1>0, <2>1, <2>4, InboxStill DEF Waits
  <2> QED BY <1>5, <2>2, <2>3, <2>4 DEF Receive
<1>6. CASE StreamPulls
  <2>1. UNCHANGED <<conn, readyState, tasks, peerSent>> BY <1>6 DEF StreamPulls
  <2>2. CASE TakesNext("stream") BY <1>0, <2>1, <2>2, InboxTaken
  <2>3. CASE UNCHANGED <<queue, element, taken>> BY <1>1, <2>1, <2>3
  <2>4. CASE Waits("stream") /\ UNCHANGED <<element, taken>>
    BY <1>0, <2>1, <2>4, InboxStill DEF Waits
  <2> QED BY <1>6, <2>2, <2>3, <2>4 DEF StreamPulls
<1>7. CASE Closes
  <2>1. /\ UNCHANGED <<conn, taken, element>> /\ messages' = <<>> /\ buffered' = 0
        /\ waiters' = <<>>
    BY <1>7 DEF Closes, Discard, Reject
  <2> QED BY <1>0, <2>1, InboxStill
<1>8. CASE ReceiveViaStream
  <2>1. /\ UNCHANGED <<conn, readyState, tasks, peerSent, messages, buffered, taken, element>>
        /\ waiters' = <<>>
    BY <1>8 DEF ReceiveViaStream, ClaimRejects
  <2> QED BY <1>0, <2>1, InboxStill
<1>9. CASE MessageEvent
  <2> DEFINE m == Head(tasks).arg
  <2>1. IsData(1) /\ m = tasks[1].arg /\ m \in MsgIds /\ tasks' = Tail(tasks)
        /\ conn \in {"open", "held"} /\ UNCHANGED <<conn, peerSent>>
    <3>1. tasks # <<>> /\ Head(tasks).kind = "data" /\ tasks \in Seq(Events)
          /\ tasks' = Tail(tasks) /\ conn \in {"open", "held"} /\ UNCHANGED <<conn, peerSent>>
      BY <1>0, <1>9 DEF MessageEvent, Reported, TasksKept
    <3>2. 1 \in DOMAIN tasks /\ Head(tasks) = tasks[1] BY <3>1
    <3> QED BY <1>0, <3>1, <3>2 DEF TasksKept, IsData
  <2> HIDE DEF m
  <2>2. CASE (readyState # "OPEN" \/ overflowed) /\ UNCHANGED <<readyState, queue, inward>>
    BY <1>0, <1>1, <2>1, <2>2 DEF SocketKept
  <2>3. CASE readyState' = "CLOSING" /\ UNCHANGED <<messages, waiters, buffered, closed, inward>>
    BY <1>1, <2>1, <2>3
  <2>4. CASE /\ waiters # <<>> /\ Hands(Head(waiters), m) /\ waiters' = Tail(waiters)
             /\ UNCHANGED <<readyState, messages, buffered, closed>>
    <3>1. messages = <<>> /\ ~closed BY <1>0, <2>4 DEF InboxKept
    <3>2. taken' \in Seq(MsgIds) /\ element' \in Seq(MsgIds) BY <1>2, <2>1, <2>4
    <3> QED BY <1>0, <2>1, <2>4, <3>1, <3>2, InboxStill
  <2>5. CASE /\ readyState = "OPEN" /\ Fits(Size(m)) /\ waiters = <<>>
             /\ messages' = Append(messages, m) /\ buffered' = buffered + Size(m)
             /\ UNCHANGED <<readyState, waiters, inward>>
    BY <1>0, <2>1, <2>5, InboxArrives DEF Fits
  <2> QED BY <1>9, <2>2, <2>3, <2>4, <2>5 DEF MessageEvent, m
<1>10. CASE EndShows
  <2>1. UNCHANGED conn /\ readyState' = "CLOSED" /\ (QueueEnds \/ UNCHANGED <<queue, inward>>)
    BY <1>10 DEF EndShows
  <2> QED BY <1>1, <1>3, <2>1
<1>11. CASE CloseEventEnds \/ CloseEventSettles
  <2>1. UNCHANGED <<conn, readyState>> /\ (QueueEnds \/ UNCHANGED <<queue, inward>>)
        /\ stage # "none"
    BY <1>11 DEF CloseEventEnds, CloseEventSettles, Settles
  <2> QED BY <1>0, <1>1, <1>3, <2>1 DEF SocketKept
<1>12. ASSUME NEW t \in Timers, TimerFires(t) PROVE InboxKept'
  <2>1. UNCHANGED <<conn, readyState, tasks, peerSent>> /\ (QueueEnds \/ UNCHANGED <<queue, inward>>)
        /\ timers # {}
    BY <1>12 DEF TimerFires, Settles
  <2>2. readyState # "OPEN" BY <1>0, <2>1 DEF SocketKept
  <2> QED BY <1>1, <1>3, <2>1, <2>2
<1>13. CASE PeerStep
  <2>1. UNCHANGED <<conn, readyState, messages, buffered, waiters, closed, taken, element>>
    BY <1>13 DEF PeerStep, PeerData, PeerClose, TransportEnds, Drains, NetOnly
  <2>2. QueuedBytes' = QueuedBytes BY <2>1 DEF QueuedBytes
  <2>3. QueueKept'
    BY <1>0, <1>13, <2>1, FirstEvent DEF InboxKept, QueueKept
  <2> QED BY <1>0, <2>1, <2>2, <2>3 DEF InboxKept
<1>14. CASE \/ \E s \in Sends : Send(s)
            \/ WaitClosed \/ StreamRead \/ StreamDropped \/ SendViaStream \/ ViaSends
            \/ ClosingShows \/ UNCHANGED vars
  <2>1. /\ UNCHANGED <<conn, messages, buffered, waiters, closed, taken>>
        /\ element' = element \/ element' = <<>>
    BY <1>14 DEF Send, WaitClosed, StreamRead, StreamDropped, SendViaStream, ViaSends,
       ClosingShows
  <2>2. readyState' = "OPEN" => readyState = "OPEN" /\ UNCHANGED <<tasks, peerSent>>
    BY <1>14 DEF Send, WaitClosed, StreamRead, StreamDropped, SendViaStream, ViaSends,
       ClosingShows
  <2> QED BY <1>1, <2>1, <2>2
<1> QED
  BY <1>4, <1>5, <1>6, <1>7, <1>8, <1>9, <1>10, <1>11, <1>12, <1>13, <1>14
     DEF Next, GuestCalls, Continues, Reports, Close, Drop
-----------------------------------------------------------------------------
\* The elements that were sent, as the platform was handed them.
ViaSent == {k \in DOMAIN out : out[k].kind = "via"}

LEMMA ViaFinite ==
  ASSUME out \in Seq(Frames)
  PROVE  IsFiniteSet(ViaSent) /\ Cardinality(ViaSent) \in Nat
<1>1. ViaSent \subseteq 1 .. Len(out) /\ Len(out) \in Nat BY DEF ViaSent
<1>2. IsFiniteSet(1 .. Len(out)) BY <1>1, FS_Interval
<1> QED BY <1>1, <1>2, FS_Subset, FS_CardinalityType

\* One more frame is one more element, if it carries one.
LEMMA ViaMore ==
  ASSUME out \in Seq(Frames), NEW frame \in Frames, out' = Append(out, frame)
  PROVE  /\ out' \in Seq(Frames)
         /\ frame.kind = "via" => Cardinality(ViaSent') = Cardinality(ViaSent) + 1
         /\ frame.kind # "via" => ViaSent' = ViaSent
<1> DEFINE n == Len(out)
<1>1. /\ n \in Nat /\ DOMAIN out = 1 .. n /\ DOMAIN out' = 1 .. n + 1
      /\ out'[n + 1] = frame /\ out' \in Seq(Frames)
  OBVIOUS
<1>2. \A k \in 1 .. n : out'[k] = out[k] OBVIOUS
<1> HIDE DEF n
<1>3. n + 1 \notin DOMAIN out /\ \A k \in DOMAIN out' : k \in 1 .. n \/ k = n + 1 BY <1>1
<1>4. CASE frame.kind = "via"
  <2>1. ViaSent' = ViaSent \cup {n + 1} /\ n + 1 \notin ViaSent
    BY <1>1, <1>2, <1>3, <1>4 DEF ViaSent
  <2> QED BY <1>1, <1>4, <2>1, ViaFinite, FS_AddElement
<1>5. CASE frame.kind # "via"
  <2>1. ViaSent' = ViaSent BY <1>1, <1>2, <1>3, <1>5 DEF ViaSent
  <2> QED BY <1>1, <1>5, <2>1
<1> QED BY <1>4, <1>5

ViaCounted ==
  ViaKept /\ SentCountExact /\ viaTaken \in 0 .. MaxItems /\ viaSent =< viaTaken
          /\ via \in {"unused", "next", "item", "ok", "closed", "other"}

\* Every step keeps the count of the streamed elements.
LEMMA ViaNext == Kept /\ [Next]_vars => ViaCounted'
<1> SUFFICES ASSUME Kept, [Next]_vars PROVE ViaCounted'
  OBVIOUS
<1> USE DEF vars, connecting, platform, outward, net, flags, settling, queue, inward,
            sending
<1>0. /\ out \in Seq(Frames) /\ viaSent = Cardinality(ViaSent) /\ viaSent \in Nat
      /\ via = "unused" => viaTaken = 0
      /\ via \in {"unused", "next", "ok"} => viaSent = viaTaken
      /\ via = "item" => viaTaken = viaSent + 1
      /\ viaTaken \in 0 .. MaxItems /\ MaxItems \in Nat /\ viaSent =< viaTaken
      /\ via \in {"unused", "next", "item", "ok", "closed", "other"}
  BY SizesAssumption DEF Kept, ViaKept, SentCountExact, ViaSent, FieldsTyped
<1>1. ASSUME out' \in Seq(Frames), ViaSent' = ViaSent, UNCHANGED <<via, viaSent, viaTaken>>
      PROVE  ViaCounted'
  BY <1>0, <1>1 DEF ViaCounted, ViaKept, SentCountExact, ViaSent
<1>2. ASSUME out' = out \/ out' = Append(out, CloseFrame), UNCHANGED <<via, viaSent, viaTaken>>
      PROVE  ViaCounted'
  <2>1. CloseFrame \in Frames /\ CloseFrame.kind # "via" BY DEF CloseFrame, Frames, NoCode
  <2>2. CASE out' = out BY <1>0, <1>1, <1>2, <2>2 DEF ViaSent
  <2>3. CASE out' = Append(out, CloseFrame) BY <1>0, <1>1, <1>2, <2>1, <2>3, ViaMore
  <2> QED BY <1>2, <2>2, <2>3
<1>3. CASE ConnectStep
  <2>1. (out' = out \/ out' = Append(out, CloseFrame)) /\ UNCHANGED <<via, viaSent, viaTaken>>
    BY <1>3 DEF ConnectStep, ConnectRefused, Connect, ConnectFails, ConnectTimesOut,
       Opens, ConnectReturns, Delivered, Abort, GivesUp, WsClose
  <2> QED BY <1>2, <2>1
<1>4. ASSUME NEW s \in Sends, Send(s) PROVE ViaCounted'
  <2> DEFINE frame == [kind |-> "send", from |-> s]
  <2>1. frame \in Frames /\ frame.kind # "via" BY DEF Frames
  <2>2. (out' = out \/ out' = Append(out, frame)) /\ UNCHANGED <<via, viaSent, viaTaken>>
    BY <1>4 DEF Send, WsSend
  <2> HIDE DEF frame
  <2>3. CASE out' = out BY <1>2, <2>2, <2>3
  <2>4. CASE out' = Append(out, frame) BY <1>0, <1>1, <2>1, <2>2, <2>4, ViaMore
  <2> QED BY <2>2, <2>3, <2>4
<1>5. CASE Closes \/ MessageEvent
  <2>1. (out' = out \/ out' = Append(out, CloseFrame)) /\ UNCHANGED <<via, viaSent, viaTaken>>
    BY <1>5 DEF Closes, WsClose, MessageEvent
  <2> QED BY <1>2, <2>1
<1>6. CASE SendViaStream
  <2>1. out' = out /\ viaSent' = viaSent /\ viaSent = viaTaken
    BY <1>0, <1>6 DEF SendViaStream
  <2>2. \/ via' = "item" /\ viaTaken' = viaTaken + 1 /\ viaTaken < MaxItems
        \/ via' = "ok" /\ viaTaken' = viaTaken
    BY <1>6 DEF SendViaStream
  <2> QED BY <1>0, <2>1, <2>2 DEF ViaCounted, ViaKept, SentCountExact, ViaSent
<1>7. CASE ViaSends
  <2>0. via = "item" /\ viaTaken = viaSent + 1 /\ viaTaken' = viaTaken
    BY <1>0, <1>7 DEF ViaSends
  <2>1. CASE via' \in {"other", "closed"} /\ UNCHANGED <<out, viaSent>>
    BY <1>0, <2>0, <2>1 DEF ViaCounted, ViaKept, SentCountExact, ViaSent
  <2>2. CASE viaSent' = viaSent + 1 /\ via' = "next"
             /\ out' = Append(out, [kind |-> "via", from |-> viaTaken])
    <3> DEFINE frame == [kind |-> "via", from |-> viaTaken]
    <3>1. frame \in Frames /\ frame.kind = "via" BY <1>0 DEF Frames
    <3> HIDE DEF frame
    <3>2. out' \in Seq(Frames) /\ Cardinality(ViaSent') = Cardinality(ViaSent) + 1
      BY <1>0, <2>2, <3>1, ViaMore DEF frame
    <3>3. viaSent' = Cardinality(ViaSent') /\ viaSent' \in Nat /\ viaSent' = viaTaken'
          /\ viaSent' =< viaTaken'
      BY <1>0, <2>0, <2>2, <3>2
    <3> QED BY <1>0, <2>0, <2>2, <3>2, <3>3 DEF ViaCounted, ViaKept, SentCountExact, ViaSent
  <2>3. SendRefused => ~SendGoes BY DEF SendGoes
  <2> QED BY <1>7, <2>1, <2>2, <2>3 DEF ViaSends, WsSend, SentAfter
<1>8. CASE \/ \E r \in Receives : Receive(r)
           \/ ReceiveViaStream \/ StreamRead \/ StreamDropped \/ StreamPulls \/ WaitClosed
           \/ ClosingShows \/ EndShows \/ CloseEventEnds \/ CloseEventSettles
           \/ \E t \in Timers : TimerFires(t)
           \/ PeerStep \/ UNCHANGED vars
  <2>1. out' = out /\ UNCHANGED <<via, viaSent, viaTaken>>
    BY <1>8 DEF Receive, ReceiveViaStream, StreamRead, StreamDropped, StreamPulls,
       WaitClosed, ClosingShows, EndShows, CloseEventEnds, CloseEventSettles, TimerFires,
       PeerStep, PeerData, PeerClose, TransportEnds, Drains, NetOnly
  <2> QED BY <1>2, <2>1
<1> QED
  BY <1>3, <1>4, <1>5, <1>6, <1>7, <1>8
     DEF Next, GuestCalls, Continues, Reports, Close, Drop

\* Every step keeps the errors of the readers true.
LEMMA ErrorsNext == Kept /\ [Next]_vars => ReceiveErrorsHonest'
<1> SUFFICES ASSUME Kept, [Next]_vars, NEW r \in Receives
             PROVE  /\ recvSt'[r] = "closed" =>
                         localClosed' \/ (closed' /\ messages' = <<>> /\ ~overflowed')
                    /\ recvSt'[r] = "overflow" =>
                         overflowed' /\ (localClosed' \/ messages' = <<>>)
                    /\ recvSt'[r] = "viaStream" => streamClaimed'
  BY DEF ReceiveErrorsHonest
<1> USE DEF vars, connecting, platform, outward, net, flags, settling, queue, inward,
            sending
<1>0. /\ recvSt[r] = "closed" => localClosed \/ (closed /\ messages = <<>> /\ ~overflowed)
      /\ recvSt[r] = "overflow" => overflowed /\ (localClosed \/ messages = <<>>)
      /\ recvSt[r] = "viaStream" => streamClaimed
      /\ recvSt \in [Receives -> {"unused", "pending", "message", "viaStream",
                                  "overflow", "closed"}]
      /\ overflowed \in BOOLEAN /\ closed \in BOOLEAN /\ localClosed \in BOOLEAN
      /\ localClosed \/ overflowed \/ closed => readyState # "OPEN"
      /\ waiters # <<>> => messages = <<>>
      /\ r \in Waiting => waiters # <<>>
  BY Fields DEF Kept, ReceiveErrorsHonest, FieldsTyped, SocketKept, QueueConsistent, Waiting
<1>1. CASE UNCHANGED <<recvSt, localClosed, overflowed, closed, messages, streamClaimed>>
  BY <1>0, <1>1
<1>2. ASSUME UNCHANGED <<localClosed, streamClaimed>>, QueueEnds
      PROVE  /\ recvSt'[r] = "closed" =>
                  localClosed' \/ (closed' /\ messages' = <<>> /\ ~overflowed')
             /\ recvSt'[r] = "overflow" =>
                  overflowed' /\ (localClosed' \/ messages' = <<>>)
             /\ recvSt'[r] = "viaStream" => streamClaimed'
  <2>1. CASE closed BY <1>0, <1>2, <2>1 DEF QueueEnds
  <2>2. CASE ~closed BY <1>0, <1>2, <2>2 DEF QueueEnds, Reject, EndError
  <2> QED BY <2>1, <2>2
<1>3. ASSUME NEW q \in Receives, Receive(q)
      PROVE  /\ recvSt'[r] = "closed" =>
                  localClosed' \/ (closed' /\ messages' = <<>> /\ ~overflowed')
             /\ recvSt'[r] = "overflow" =>
                  overflowed' /\ (localClosed' \/ messages' = <<>>)
             /\ recvSt'[r] = "viaStream" => streamClaimed'
  <2>0. UNCHANGED <<localClosed, streamClaimed>> BY <1>3 DEF Receive
  <2>1. CASE TakesNext(q)
    BY <1>0, <2>0, <2>1 DEF TakesNext, Hands
  <2>2. CASE /\ localClosed \/ streamClaimed
             /\ recvSt' = [recvSt EXCEPT ![q] = IF localClosed THEN "closed" ELSE "viaStream"]
             /\ UNCHANGED queue
    BY <1>0, <2>0, <2>2
  <2>3. CASE NextFails /\ recvSt' = [recvSt EXCEPT ![q] = EndError] /\ UNCHANGED queue
    BY <1>0, <2>0, <2>3 DEF NextFails, EndError
  <2>4. CASE Waits(q) /\ recvSt' = [recvSt EXCEPT ![q] = "pending"]
    BY <1>0, <2>0, <2>4 DEF Waits
  <2> QED BY <1>3, <2>1, <2>2, <2>3, <2>4 DEF Receive
<1>4. CASE Closes BY <1>0, <1>4 DEF Closes, Discard, Reject
<1>5. CASE ReceiveViaStream BY <1>0, <1>5 DEF ReceiveViaStream, ClaimRejects
<1>6. CASE StreamPulls BY <1>0, <1>6 DEF StreamPulls, TakesNext, Hands, Waits
<1>7. CASE MessageEvent BY <1>0, <1>7 DEF MessageEvent, Hands
<1>8. CASE EndShows \/ CloseEventEnds \/ CloseEventSettles \/ \E t \in Timers : TimerFires(t)
  <2>1. /\ UNCHANGED <<localClosed, streamClaimed>>
        /\ QueueEnds \/ UNCHANGED <<queue, recvSt>>
    BY <1>8 DEF EndShows, CloseEventEnds, CloseEventSettles, TimerFires, Settles
  <2> QED BY <1>1, <1>2, <2>1
<1>9. CASE \/ ConnectStep \/ \E s \in Sends : Send(s)
           \/ WaitClosed \/ StreamRead \/ StreamDropped \/ SendViaStream \/ ViaSends
           \/ ClosingShows \/ PeerStep \/ UNCHANGED vars
  <2>1. UNCHANGED <<recvSt, localClosed, overflowed, closed, messages, streamClaimed>>
    BY <1>9 DEF ConnectStep, ConnectRefused, Connect, ConnectFails, ConnectTimesOut,
       Opens, ConnectReturns, Delivered, Abort, GivesUp, WsClose, Send, WaitClosed,
       StreamRead, StreamDropped, SendViaStream, ViaSends, ClosingShows, PeerStep,
       PeerData, PeerClose, TransportEnds, Drains, NetOnly
  <2> QED BY <1>1, <2>1
<1> QED
  BY <1>3, <1>4, <1>5, <1>6, <1>7, <1>8, <1>9
     DEF Next, GuestCalls, Continues, Reports, Close, Drop
-----------------------------------------------------------------------------
\* The fields that are left: control points, flags, and the settlement.
RestTyped ==
  /\ conn \in {"none", "handshake", "opened", "open", "held", "failed",
               "invalidUrl", "invalidArgument"}
  /\ readyState \in {"NONE", "CONNECTING", "OPEN", "CLOSING", "CLOSED"}
  /\ stage \in {"none", "shown", "ended", "done"}
  /\ aborted \in BOOLEAN /\ netDone \in BOOLEAN /\ localClosed \in BOOLEAN
  /\ streamClaimed \in BOOLEAN /\ closeSettled \in BOOLEAN /\ waiting \in BOOLEAN
  /\ overflowed \in BOOLEAN /\ closed \in BOOLEAN
  /\ closeInfo \in Outcomes /\ waited \subseteq Outcomes \ {Unset}
  /\ closeDeadline \in Timers \cup {NoTimer} /\ timers \subseteq Timers
  /\ sendSt \in [Sends -> {"unused", "polling", "ok", "closed"}]

LEMMA RestNext == Kept /\ [Next]_vars => RestTyped'
<1> SUFFICES ASSUME Kept, [Next]_vars PROVE RestTyped'
  OBVIOUS
<1> USE DEF vars, connecting, platform, outward, net, flags, settling, queue, inward,
            sending
<1>0. RestTyped /\ (closeSettled => closeInfo # Unset)
  BY Fields DEF Kept, FieldsTyped, RestTyped, SocketKept
<1>1. ASSUME QueueEnds PROVE closed' \in BOOLEAN /\ UNCHANGED overflowed
  BY <1>0, <1>1 DEF QueueEnds, RestTyped
<1>2. ASSUME NEW code, Settles(code),
             (IF code \in Synthesized THEN NoFrame ELSE code) \in Outcomes \ {Unset}
      PROVE  /\ closeSettled' \in BOOLEAN /\ waiting' \in BOOLEAN /\ closeInfo' \in Outcomes
             /\ waited' \subseteq Outcomes \ {Unset} /\ closeDeadline' \in Timers \cup {NoTimer}
             /\ closed' \in BOOLEAN /\ UNCHANGED overflowed
  BY <1>0, <1>1, <1>2 DEF Settles, RestTyped
<1>3. CASE ConnectStep
  <2> USE <1>3 DEF ConnectStep, ConnectRefused, Connect, ConnectFails, ConnectTimesOut,
                   Opens, ConnectReturns, Delivered, Abort, GivesUp, WsClose
  <2>1. conn' \in {"none", "handshake", "opened", "open", "held", "failed",
                  "invalidUrl", "invalidArgument"}
    BY <1>0 DEF RestTyped
  <2>2. readyState' \in {"NONE", "CONNECTING", "OPEN", "CLOSING", "CLOSED"}
    BY <1>0 DEF RestTyped
  <2>3. aborted' \in BOOLEAN /\ netDone' \in BOOLEAN BY <1>0 DEF RestTyped
  <2>4. UNCHANGED <<stage, flags, settling, overflowed, closed, sendSt>> OBVIOUS
  <2> QED BY <1>0, <2>1, <2>2, <2>3, <2>4 DEF RestTyped
<1>4. ASSUME NEW r \in Receives, Receive(r) PROVE RestTyped'
  BY <1>0, <1>4 DEF RestTyped, Receive, TakesNext, Waits
<1>5. ASSUME NEW s \in Sends, Send(s) PROVE RestTyped'
  BY <1>0, <1>5 DEF RestTyped, Send
<1>6. CASE Closes
  BY <1>0, <1>6 DEF RestTyped, Closes, WsClose, Discard, Reject, Timers
<1>7. CASE WaitClosed
  <2>1. waiting' \in BOOLEAN /\ waited' \subseteq Outcomes \ {Unset}
    <3>1. CASE closeSettled BY <1>0, <1>7, <3>1 DEF RestTyped, WaitClosed
    <3>2. CASE ~closeSettled BY <1>0, <1>7, <3>2 DEF RestTyped, WaitClosed
    <3> QED BY <3>1, <3>2
  <2>2. UNCHANGED <<connecting, platform, net, flags, closeSettled, closeInfo,
                    closeDeadline, timers, overflowed, closed, sendSt>>
    BY <1>7 DEF WaitClosed
  <2> QED BY <1>0, <2>1, <2>2 DEF RestTyped
<1>8. CASE ReceiveViaStream \/ StreamRead \/ StreamDropped \/ StreamPulls \/ SendViaStream
           \/ ViaSends \/ PeerStep \/ UNCHANGED vars
  <2> USE <1>8 DEF ReceiveViaStream, StreamRead, StreamDropped, StreamPulls,
                   TakesNext, Waits, SendViaStream, ViaSends, PeerStep, PeerData,
                   PeerClose, TransportEnds, Drains, NetOnly
  <2>1. UNCHANGED <<connecting, readyState, stage, localClosed, settling, overflowed,
                    closed, sendSt>>
    OBVIOUS
  <2>2. streamClaimed' \in BOOLEAN /\ netDone' \in BOOLEAN BY <1>0 DEF RestTyped
  <2> QED BY <1>0, <2>1, <2>2 DEF RestTyped
<1>9. CASE MessageEvent
  <2>1. UNCHANGED <<connecting, net, flags, stage, closeSettled, closeInfo, waiting, waited,
                    closed, sendSt>>
    BY <1>9 DEF MessageEvent
  <2>2. readyState' \in {readyState, "CLOSING"} /\ overflowed' \in {overflowed, TRUE}
    BY <1>9 DEF MessageEvent
  <2>3. \/ UNCHANGED <<closeDeadline, timers>>
        \/ closeDeadline' = "overflow" /\ timers' = timers \cup {"overflow"}
    BY <1>9 DEF MessageEvent, TransportClosing
  <2>4. closeDeadline' \in Timers \cup {NoTimer} /\ timers' \subseteq Timers
    BY <1>0, <2>3 DEF RestTyped, Timers
  <2>5. readyState' \in {"NONE", "CONNECTING", "OPEN", "CLOSING", "CLOSED"}
        /\ overflowed' \in BOOLEAN
    BY <1>0, <2>2 DEF RestTyped
  <2> QED BY <1>0, <2>1, <2>4, <2>5 DEF RestTyped
<1>10. CASE ClosingShows \/ EndShows \/ CloseEventEnds
  BY <1>0, <1>1, <1>10 DEF RestTyped, ClosingShows, EndShows, CloseEventEnds, Reported
<1>11. CASE CloseEventSettles
  <2>1. CASE closeSettled BY <1>0, <1>11, <2>1 DEF RestTyped, CloseEventSettles
  <2>2. CASE ~closeSettled
    <3>1. Settles(EndCode) /\ stage = "ended" /\ stage' = "done" /\ timers' \subseteq timers
          /\ UNCHANGED <<conn, readyState, aborted, netDone, localClosed, streamClaimed, sendSt>>
      BY <1>11, <2>2 DEF CloseEventSettles
    <3>2. (IF EndCode \in Synthesized THEN NoFrame ELSE EndCode) \in Outcomes \ {Unset}
      BY <3>1, OutcomeOfEnd
    <3> HIDE DEF EndCode
    <3> QED BY <1>0, <1>2, <3>1, <3>2 DEF RestTyped
  <2> QED BY <2>1, <2>2
<1>12. ASSUME NEW t \in Timers, TimerFires(t) PROVE RestTyped'
  <2>1. CASE closeSettled BY <1>0, <1>12, <2>1 DEF RestTyped, TimerFires
  <2>2. CASE ~closeSettled
    <3>1. Settles(NoFrame) /\ timers' \subseteq timers
          /\ UNCHANGED <<conn, readyState, stage, aborted, netDone, localClosed,
                         streamClaimed, sendSt>>
      BY <1>12, <2>2 DEF TimerFires
    <3>2. (IF NoFrame \in Synthesized THEN NoFrame ELSE NoFrame) \in Outcomes \ {Unset}
      BY DEF Outcomes, NoFrame, Unset
    <3> QED BY <1>0, <1>2, <3>1, <3>2 DEF RestTyped
  <2> QED BY <2>1, <2>2
<1> QED
  BY <1>3, <1>4, <1>5, <1>6, <1>7, <1>8, <1>9, <1>10, <1>11, <1>12
     DEF Next, GuestCalls, Continues, Reports, Close, Drop

LEMMA NextKept == Kept /\ [Next]_vars => Kept'
<1> SUFFICES ASSUME Kept, [Next]_vars PROVE Kept'
  OBVIOUS
<1>1. SocketKept' /\ TasksKept' /\ ReadersKept' /\ InboxKept' /\ ViaCounted'
      /\ ReceiveErrorsHonest' /\ RestTyped'
  BY SocketNext, TasksNext, ReadersNext, InboxNext, ViaNext, ErrorsNext, RestNext
<1>2. FieldsTyped'
  <2>1. {aborted', netDone', localClosed', streamClaimed', closeSettled', waiting',
         overflowed', closed'} \subseteq BOOLEAN
    BY <1>1 DEF RestTyped
  <2>2. {messages', taken', element'} \subseteq Seq(MsgIds) BY <1>1 DEF InboxKept
  <2> QED BY <1>1, <2>1, <2>2 DEF FieldsTyped, RestTyped, ReadersKept, InboxKept, ViaCounted
<1>3. QueueConsistent' BY <1>1 DEF QueueConsistent, InboxKept, ReadersKept
<1> QED BY <1>1, <1>2, <1>3 DEF Kept, ReadersKept, InboxKept, ViaCounted

\* The inductive invariant behind the theorems below.
THEOREM PolyengineInductive == Spec => []Kept
<1>1. Init => Kept BY InitKept
<1>2. Kept /\ [Next]_vars => Kept' BY NextKept
<1> QED BY <1>1, <1>2, PTL DEF Spec

\* The queue counts its bytes exactly, stays within the bound, and nobody waits on
\* messages that are there (incomingQueue).
THEOREM PolyengineTypesCorrect == Spec => []TypeOK
<1>1. Kept => TypeOK BY DEF Kept, TypeOK
<1> QED BY <1>1, PolyengineInductive, PTL

\* A receive that fails says why: closed only after a local close or with nothing
\* left, overflow only after one, via-stream only after the claim (receive).
THEOREM PolyengineErrorsAreHonest == Spec => []ReceiveErrorsHonest
<1>1. Kept => ReceiveErrorsHonest BY DEF Kept
<1> QED BY <1>1, PolyengineInductive, PTL

\* `sent` is exact whatever stops the stream (sendViaStream).
THEOREM PolyengineCountsExactly == Spec => []SentCountExact
<1>1. Kept => SentCountExact BY DEF Kept
<1> QED BY <1>1, PolyengineInductive, PTL

\* A connect that failed or was discarded leaves nothing open (connect).
THEOREM PolyengineLeaksNothing == Spec => []NoSocketLeaked
<1>1. Kept => NoSocketLeaked BY DEF Kept, SocketKept, NoSocketLeaked
<1> QED BY <1>1, PolyengineInductive, PTL

\* Once closed locally nothing is taken, once claimed nothing is received, by a call
\* that was pending before either (discard, rejectWaiters).
THEOREM PolyengineSignalsWin == Spec => SignalsWin
<1> DEFINE Wins ==
      /\ localClosed => taken' = taken
      /\ streamClaimed => \A r \in Receives :
                            recvSt'[r] = "message" => recvSt[r] = "message"
<1>1. Kept /\ [Next]_vars => Wins \/ UNCHANGED vars
  <2> SUFFICES ASSUME Kept, Next PROVE Wins
    OBVIOUS
  <2> USE DEF vars, connecting, platform, outward, net, flags, settling, queue, inward,
              sending
  <2>0. /\ localClosed => messages = <<>> /\ readyState # "OPEN"
        /\ streamClaimed => \A r \in Receives : r \notin Waiting
        /\ recvSt \in [Receives -> {"unused", "pending", "message", "viaStream",
                                    "overflow", "closed"}]
    BY ReadersAssumption DEF Kept, SocketKept, WaitersKept, FieldsTyped
  <2>1. ASSUME UNCHANGED <<taken, recvSt>> PROVE Wins BY <2>1
  <2>2. ASSUME NEW e, e # "message", Reject(e) PROVE Wins BY <2>0, <2>2 DEF Reject
  <2>3. ASSUME QueueEnds PROVE Wins
    BY <2>1, <2>2, <2>3 DEF QueueEnds, EndError
  <2>4. ASSUME NEW q \in Receives, Receive(q) PROVE Wins
    BY <2>0, <2>4 DEF Receive, NextFails, EndError
  <2>5. CASE Closes BY <2>2, <2>5 DEF Closes, Discard
  <2>6. CASE ReceiveViaStream BY <2>6 DEF ReceiveViaStream, ClaimRejects
  <2>7. CASE StreamPulls
    <3>1. CASE TakesNext("stream")
      BY <2>0, <3>1, ReadersAssumption DEF TakesNext, Hands
    <3> QED BY <2>1, <2>7, <3>1 DEF StreamPulls
  <2>8. CASE MessageEvent
    <3>1. CASE /\ waiters # <<>> /\ readyState = "OPEN"
               /\ Hands(Head(waiters), Head(tasks).arg)
      <4>1. Head(waiters) \in Waiting
        BY <3>1, WaitersHead DEF Kept, WaitersKept
      <4> QED BY <2>0, <3>1, <4>1 DEF Hands
    <3> QED BY <2>1, <2>8, <3>1 DEF MessageEvent
  <2>9. CASE EndShows \/ CloseEventEnds \/ CloseEventSettles
             \/ \E t \in Timers : TimerFires(t)
    <3>1. QueueEnds \/ UNCHANGED <<taken, recvSt>>
      BY <2>9 DEF EndShows, CloseEventEnds, CloseEventSettles, TimerFires, Settles
    <3> QED BY <2>1, <2>3, <3>1
  <2>10. CASE \/ ConnectStep \/ \E s \in Sends : Send(s)
              \/ WaitClosed \/ StreamRead \/ StreamDropped \/ SendViaStream \/ ViaSends
              \/ ClosingShows \/ PeerStep
    <3>1. UNCHANGED <<taken, recvSt>>
      BY <2>10 DEF ConnectStep, ConnectRefused, Connect, ConnectFails, ConnectTimesOut,
         Opens, ConnectReturns, Delivered, Abort, GivesUp, WsClose, Send, WaitClosed,
         StreamRead, StreamDropped, SendViaStream, ViaSends, ClosingShows, PeerStep,
         PeerData, PeerClose, TransportEnds, Drains, NetOnly
    <3> QED BY <2>1, <3>1
  <2> HIDE DEF Wins
  <2> QED
    BY <2>4, <2>5, <2>6, <2>7, <2>8, <2>9, <2>10
       DEF Next, GuestCalls, Continues, Reports, Close, Drop
<1>2. Kept /\ [Next]_vars => [Wins]_vars BY <1>1
<1> HIDE DEF Wins
<1>3. Spec => [][Wins]_vars BY <1>2, PolyengineInductive, PTL DEF Spec
<1> QED BY <1>3 DEF SignalsWin, Wins
-----------------------------------------------------------------------------
(***************************************************************************)
(* What the liveness property rests on.                                    *)
(***************************************************************************)

\* A timer the resource holds runs until the close has settled, and whatever starts to
\* close has one; what has settled has ended the queue and answered wait-closed.
SettlingKept ==
  /\ ~closeSettled /\ closeDeadline # NoTimer => closeDeadline \in timers
  /\ ~closeSettled /\ (localClosed \/ overflowed) => closeDeadline # NoTimer
  /\ closeSettled => closed /\ ~waiting

LEMMA QueueHasEnded == ASSUME QueueEnds PROVE closed'
BY DEF QueueEnds, queue

LEMMA SettlingNext == Kept /\ SettlingKept /\ [Next]_vars => SettlingKept'
<1> SUFFICES ASSUME Kept, SettlingKept, [Next]_vars PROVE SettlingKept'
  OBVIOUS
<1> USE DEF vars, connecting, platform, outward, net, flags, settling, queue, inward,
            sending
<1>0. closed \in BOOLEAN BY DEF Kept, FieldsTyped
<1>1. ASSUME UNCHANGED <<settling, localClosed, overflowed>>, closed' = closed \/ closed'
      PROVE  SettlingKept'
  BY <1>0, <1>1 DEF SettlingKept
<1>2. ASSUME NEW code, Settles(code) PROVE SettlingKept'
  BY <1>2, QueueHasEnded DEF Settles, SettlingKept
<1>3. CASE Closes
  BY <1>3 DEF Closes, Discard, SettlingKept, NoTimer
<1>4. CASE WaitClosed BY <1>4 DEF WaitClosed, SettlingKept
<1>5. CASE MessageEvent
  <2>1. UNCHANGED <<localClosed, closeSettled, waiting, closed>> BY <1>5 DEF MessageEvent
  <2>2. \/ UNCHANGED <<closeDeadline, timers, overflowed>>
        \/ TransportClosing
    BY <1>5 DEF MessageEvent
  <2>3. CASE TransportClosing
    BY <2>1, <2>3 DEF TransportClosing, SettlingKept, NoTimer
  <2> QED BY <2>1, <2>2, <2>3 DEF SettlingKept
<1>6. CASE EndShows \/ CloseEventEnds
  <2>1. UNCHANGED <<settling, localClosed>> /\ (QueueEnds \/ UNCHANGED queue)
    BY <1>6 DEF EndShows, CloseEventEnds
  <2>2. UNCHANGED overflowed BY <2>1 DEF QueueEnds
  <2>3. closed' = closed \/ closed' BY <2>1, QueueHasEnded
  <2> QED BY <1>1, <2>1, <2>2, <2>3
<1>7. CASE CloseEventSettles
  <2>1. CASE closeSettled BY <1>1, <1>7, <2>1 DEF CloseEventSettles
  <2>2. CASE ~closeSettled BY <1>2, <1>7, <2>2 DEF CloseEventSettles
  <2> QED BY <2>1, <2>2
<1>8. ASSUME NEW t \in Timers, TimerFires(t) PROVE SettlingKept'
  <2>1. CASE closeSettled BY <1>8, <2>1 DEF TimerFires, SettlingKept
  <2>2. CASE ~closeSettled BY <1>2, <1>8, <2>2 DEF TimerFires
  <2> QED BY <2>1, <2>2
<1>9. CASE \/ ConnectStep \/ \E s \in Sends : Send(s)
           \/ \E r \in Receives : Receive(r)
           \/ ReceiveViaStream \/ StreamRead \/ StreamDropped \/ StreamPulls
           \/ SendViaStream \/ ViaSends \/ ClosingShows \/ PeerStep \/ UNCHANGED vars
  <2>1. UNCHANGED <<settling, localClosed, overflowed, closed>>
    BY <1>9 DEF ConnectStep, ConnectRefused, Connect, ConnectFails, ConnectTimesOut,
       Opens, ConnectReturns, Delivered, Abort, GivesUp, WsClose, Send, Receive, TakesNext,
       Waits, ReceiveViaStream, StreamRead, StreamDropped, StreamPulls, SendViaStream,
       ViaSends, ClosingShows, PeerStep, PeerData, PeerClose, TransportEnds, Drains, NetOnly
  <2> QED BY <1>1, <2>1
<1> QED
  BY <1>3, <1>4, <1>5, <1>6, <1>7, <1>8, <1>9
     DEF Next, GuestCalls, Continues, Reports, Close, Drop

\* A pull that is pending is in the queue.
PullKept == strm = "pulling" => "stream" \in Waiting

LEMMA PullNext == Kept /\ PullKept /\ [Next]_vars => PullKept'
<1> SUFFICES ASSUME Kept, PullKept, [Next]_vars PROVE PullKept'
  OBVIOUS
<1> USE DEF vars, connecting, platform, outward, net, flags, settling, queue, inward,
            sending
<1>0. /\ ReadersKept /\ WaitersKept /\ (waiters # <<>> => messages = <<>>)
      /\ waiters \in Seq(Receives \cup {"stream"}) /\ "stream" \notin Receives
  BY KeptReaders, ReadersAssumption DEF Kept, QueueConsistent, WaitersKept
<1>1. ASSUME UNCHANGED waiters, strm' = strm \/ strm' # "pulling" PROVE PullKept'
  BY <1>1 DEF PullKept, Waiting
<1>2. ASSUME NEW e, Reject(e) PROVE PullKept'
  BY <1>2 DEF Reject, PullKept
<1>3. ASSUME QueueEnds PROVE PullKept'
  BY <1>1, <1>2, <1>3 DEF QueueEnds
<1>4. ASSUME NEW r \in Receives, Receive(r) PROVE PullKept'
  <2>1. CASE Waits(r) /\ recvSt[r] # "pending" /\ UNCHANGED strm
    <3>1. r \notin Waiting BY <1>0, <2>1 DEF ReadersKept
    <3>2. Waiting' = Waiting \cup {r} BY <1>0, <2>1, <3>1, WaitingMore DEF Waits
    <3> QED BY <2>1, <3>2 DEF PullKept
  <2>2. CASE TakesNext(r)
    <3>1. UNCHANGED waiters /\ (strm' = strm \/ strm' = "idle")
      BY <2>2 DEF TakesNext, Hands
    <3> QED BY <1>1, <3>1
  <2> QED BY <1>1, <1>4, <2>1, <2>2 DEF Receive
<1>5. CASE Closes BY <1>2, <1>5 DEF Closes, Discard
<1>6. CASE ReceiveViaStream BY <1>6 DEF ReceiveViaStream, PullKept
<1>7. CASE StreamPulls
  <2>1. CASE TakesNext("stream")
    <3>1. UNCHANGED waiters /\ (strm' = strm \/ strm' = "idle")
      BY <2>1 DEF TakesNext, Hands
    <3> QED BY <1>1, <3>1
  <2>2. CASE Waits("stream")
    <3>1. strm = "idle" BY <1>7 DEF StreamPulls
    <3>2. "stream" \notin Waiting BY <1>0, <3>1 DEF WaitersKept
    <3>3. Waiting' = Waiting \cup {"stream"} BY <1>0, <2>2, <3>2, WaitingMore DEF Waits
    <3> QED BY <3>3 DEF PullKept
  <2> QED BY <1>1, <1>7, <2>1, <2>2 DEF StreamPulls
<1>8. CASE MessageEvent
  <2>1. CASE waiters # <<>> /\ Hands(Head(waiters), Head(tasks).arg) /\ waiters' = Tail(waiters)
    <3>1. Waiting' = Waiting \ {Head(waiters)} BY <1>0, <2>1, WaitingLess
    <3>2. CASE Head(waiters) = "stream"
      <4>1. strm' # "pulling" BY <2>1, <3>2 DEF Hands
      <4> QED BY <4>1 DEF PullKept
    <3>3. CASE Head(waiters) # "stream"
      <4>1. UNCHANGED strm BY <2>1, <3>3 DEF Hands
      <4> QED BY <3>1, <3>3, <4>1 DEF PullKept
    <3> QED BY <3>2, <3>3
  <2>2. CASE UNCHANGED <<waiters, strm>> BY <1>1, <2>2
  <2> QED BY <1>8, <2>1, <2>2 DEF MessageEvent
<1>9. CASE EndShows \/ CloseEventEnds \/ CloseEventSettles
           \/ \E t \in Timers : TimerFires(t)
  <2>1. QueueEnds \/ UNCHANGED <<waiters, strm>>
    BY <1>9 DEF EndShows, CloseEventEnds, CloseEventSettles, TimerFires, Settles
  <2> QED BY <1>1, <1>3, <2>1
<1>10. CASE \/ ConnectStep \/ \E s \in Sends : Send(s)
            \/ WaitClosed \/ StreamRead \/ StreamDropped \/ SendViaStream \/ ViaSends
            \/ ClosingShows \/ PeerStep \/ UNCHANGED vars
  <2>1. UNCHANGED waiters /\ (strm' = strm \/ strm' = "dropped")
    BY <1>10 DEF ConnectStep, ConnectRefused, Connect, ConnectFails, ConnectTimesOut,
       Opens, ConnectReturns, Delivered, Abort, GivesUp, WsClose, Send, WaitClosed,
       StreamRead, StreamDropped, SendViaStream, ViaSends, ClosingShows, PeerStep,
       PeerData, PeerClose, TransportEnds, Drains, NetOnly
  <2> QED BY <1>1, <2>1
<1> QED
  BY <1>4, <1>5, <1>6, <1>7, <1>8, <1>9, <1>10
     DEF Next, GuestCalls, Continues, Reports, Close, Drop

\* At each moment a close or an overflow has a timer that runs until it has settled; then
\* nobody waits; and a pull of the stream is where it will be answered (close,
\* #transportClosing, #settleClosed, incomingQueue).
THEOREM PolyengineClosingIsTimed == Spec => []ClosingIsTimed
<1>1. Init => SettlingKept /\ PullKept
  BY DEF Init, SettlingKept, PullKept, NoTimer
<1>2. Kept /\ SettlingKept /\ PullKept /\ [Next]_vars => SettlingKept' /\ PullKept'
  BY SettlingNext, PullNext
<1>3. Kept /\ SettlingKept /\ PullKept => ClosingIsTimed
  BY DEF Kept, QueueConsistent, SettlingKept, PullKept, ClosingIsTimed
<1> QED BY <1>1, <1>2, <1>3, PolyengineInductive, PTL DEF Spec
-----------------------------------------------------------------------------
(***************************************************************************)
(* The refinement.  View is what it needs beyond Kept: every message is    *)
(* accounted for, and a close frame is the last that was handed over.      *)
(***************************************************************************)

\* The connection is over, or ending.
Past == readyState \in {"CLOSING", "CLOSED"}

FreshKept ==
  /\ readyState = "NONE" => conn \in {"none", "invalidUrl", "invalidArgument", "failed"}
  /\ conn \notin {"open", "held"} =>
       tasks = <<>> /\ peerSent = 0 /\ messages = <<>> /\ taken = <<>>

\* The messages that were taken, and those that are queued.
Received == Len(taken) + Len(messages)

\* The next message to arrive is the one after those.
FollowsKept ==
  readyState = "OPEN" => IF IsData(1) THEN tasks[1].arg = Received + 1
                                      ELSE peerSent = Received

FramesKept ==
  /\ left \in 0 .. Len(out)
  /\ \A k \in DOMAIN out : out[k].kind = "close" => k = Len(out) /\ Past

SettledKept == IF closeSettled THEN Past ELSE closeInfo = Unset

View == FreshKept /\ FollowsKept /\ FramesKept /\ SettledKept

LEMMA InitView == Init => View
<1> SUFFICES ASSUME Init PROVE View
  OBVIOUS
<1>1. FreshKept /\ FollowsKept /\ SettledKept
  BY DEF Init, FreshKept, FollowsKept, SettledKept
<1>2. DOMAIN out = {} /\ Len(out) = 0 /\ left = 0 BY DEF Init
<1> QED BY <1>1, <1>2 DEF View, FramesKept

\* Nothing is sent or received before the connection is handed over.
LEMMA FreshNext == Kept /\ FreshKept /\ [Next]_vars => FreshKept'
<1> SUFFICES ASSUME Kept, FreshKept, [Next]_vars PROVE FreshKept'
  OBVIOUS
<1> USE DEF vars, connecting, platform, outward, net, flags, settling, queue, inward,
            sending
<1>1. ASSUME UNCHANGED conn, readyState' \in {readyState, "CLOSING", "CLOSED"},
             conn \in {"open", "held"} \/ UNCHANGED <<tasks, peerSent, messages, taken>>
      PROVE  FreshKept'
  BY <1>1 DEF FreshKept
<1>2. CASE ConnectStep
  <2>1. SocketKept BY DEF Kept
  <2>2. UNCHANGED <<tasks, peerSent, messages, taken>>
    BY <1>2 DEF ConnectStep, ConnectRefused, Connect, ConnectFails, ConnectTimesOut, Opens,
       ConnectReturns, Delivered, Abort, GivesUp, WsClose
  <2>3. conn \in {"open", "held"} => conn' \in {"open", "held"}
    BY <1>2 DEF ConnectStep, ConnectRefused, Connect, ConnectFails, ConnectTimesOut, Opens,
       ConnectReturns, Delivered, Abort, GivesUp, WsClose
  <2>4. readyState' = "NONE" => conn' \in {"none", "invalidUrl", "invalidArgument", "failed"}
    BY <1>2, <2>1 DEF FreshKept, SocketKept, ConnectStep, ConnectRefused, Connect,
       ConnectFails, ConnectTimesOut, Opens, ConnectReturns, Delivered, Abort, GivesUp, WsClose
  <2> QED BY <2>2, <2>3, <2>4 DEF FreshKept
<1>3. CASE \/ \E r \in Receives : Receive(r)
           \/ \E s \in Sends : Send(s)
           \/ WaitClosed \/ ReceiveViaStream \/ SendViaStream \/ Closes
  <2>1. conn = "held" /\ UNCHANGED conn /\ readyState' \in {readyState, "CLOSING"}
    BY <1>3 DEF Receive, Send, WaitClosed, ReceiveViaStream, SendViaStream, Closes, WsClose
  <2> QED BY <1>1, <2>1
<1>4. CASE StreamRead \/ StreamDropped \/ ViaSends \/ \E t \in Timers : TimerFires(t)
  BY <1>1, <1>4 DEF StreamRead, StreamDropped, ViaSends, TimerFires, Settles, QueueEnds, Reject
<1>5. CASE StreamPulls
  <2>1. messages # <<>> => conn \in {"open", "held"} BY DEF FreshKept
  <2> QED BY <1>1, <1>5, <2>1 DEF StreamPulls, TakesNext, Waits
<1>6. CASE Reports
  <2>1. conn \in {"open", "held"}
    BY <1>6 DEF Kept, SocketKept, Reports, MessageEvent, ClosingShows, EndShows,
       CloseEventEnds, CloseEventSettles, Reported
  <2>2. UNCHANGED conn /\ readyState' \in {readyState, "CLOSING", "CLOSED"}
    BY <1>6 DEF Reports, MessageEvent, ClosingShows, EndShows, CloseEventEnds,
       CloseEventSettles
  <2> QED BY <1>1, <2>1, <2>2
<1>7. CASE PeerStep
  BY <1>1, <1>7 DEF PeerStep, PeerData, PeerClose, TransportEnds, Drains, NetOnly
<1>8. CASE UNCHANGED vars BY <1>1, <1>8
<1> QED
  BY <1>2, <1>3, <1>4, <1>5, <1>6, <1>7, <1>8 DEF Next, GuestCalls, Continues, Close, Drop

\* What the platform is handed leaves what is on the wire.
LEMMA FramesMore ==
  ASSUME out \in Seq(Frames), FramesKept, NEW frame \in Frames, out' = Append(out, frame),
         left' = left, ~Past, frame.kind = "close" => Past'
  PROVE  FramesKept'
<1>1. /\ Len(out') = Len(out) + 1 /\ Len(out) \in Nat /\ DOMAIN out = 1 .. Len(out)
      /\ DOMAIN out' = 1 .. Len(out) + 1 /\ out'[Len(out) + 1] = frame
  OBVIOUS
<1>2. \A k \in DOMAIN out : out'[k] = out[k] /\ out[k].kind # "close"
  BY <1>1 DEF FramesKept
<1>3. left' \in 0 .. Len(out') BY <1>1 DEF FramesKept
<1>4. ASSUME NEW k \in DOMAIN out', out'[k].kind = "close" PROVE k = Len(out') /\ Past'
  <2>1. k \in DOMAIN out \/ k = Len(out) + 1 BY <1>1
  <2> QED BY <1>1, <1>2, <1>4, <2>1
<1> QED BY <1>3, <1>4 DEF FramesKept

\* A connection that is over, or ending, stays so.
LEMMA PastStays == Kept /\ [Next]_vars /\ Past => Past'
<1> SUFFICES ASSUME Kept, [Next]_vars, Past PROVE Past'
  OBVIOUS
<1> USE DEF vars, connecting, platform, outward, net, flags, settling, queue, inward,
            sending
<1>1. CASE ConnectStep
  <2>1. SocketKept BY DEF Kept
  <2>2. ~Connect /\ ~Opens BY <2>1 DEF SocketKept, Past, Connect, Opens
  <2> QED
    BY <1>1, <2>2 DEF Past, ConnectStep, ConnectRefused, ConnectFails, ConnectTimesOut,
       ConnectReturns, Delivered, Abort, GivesUp, WsClose
<1>2. CASE GuestCalls \/ Continues
  <2>1. readyState' = readyState
    BY <1>2 DEF Past, GuestCalls, Continues, Receive, Send, Close, Drop, Closes, WsClose,
       WaitClosed, ReceiveViaStream, StreamRead, StreamDropped, SendViaStream,
       StreamPulls, ViaSends
  <2> QED BY <2>1 DEF Past
<1>3. CASE Reports
  BY <1>3 DEF Past, Reports, MessageEvent, ClosingShows, EndShows, CloseEventEnds,
     CloseEventSettles
<1>4. CASE (\E t \in Timers : TimerFires(t)) \/ PeerStep \/ UNCHANGED vars
  <2>1. readyState' = readyState
    BY <1>4 DEF TimerFires, PeerStep, PeerData, PeerClose, TransportEnds, Drains, NetOnly
  <2> QED BY <2>1 DEF Past
<1> QED BY <1>1, <1>2, <1>3, <1>4 DEF Next

\* A close frame is handed over once, and after the messages.
LEMMA FramesNext == Kept /\ FramesKept /\ [Next]_vars => FramesKept'
<1> SUFFICES ASSUME Kept, FramesKept, [Next]_vars PROVE FramesKept'
  OBVIOUS
<1> USE DEF vars, connecting, platform, outward, net, flags, settling, queue, inward,
            sending
<1>0. out \in Seq(Frames) /\ left \in 0 .. Len(out) /\ viaTaken \in Int
  BY SizesAssumption DEF Kept, ViaKept, FramesKept, FieldsTyped
<1>1. ASSUME out' = out, left' \in 0 .. Len(out) PROVE FramesKept'
  BY <1>1, PastStays DEF FramesKept
<1>2. ASSUME WsClose PROVE FramesKept'
  <2>1. CASE readyState = "OPEN"
    <3>1. CloseFrame \in Frames BY DEF CloseFrame, Frames, NoCode
    <3>2. out' = Append(out, CloseFrame) /\ left' = left /\ ~Past /\ Past'
      BY <1>2, <2>1 DEF WsClose, Past
    <3> QED BY <1>0, <3>1, <3>2, FramesMore
  <2>2. CASE readyState # "OPEN" BY <1>0, <1>1, <1>2, <2>2 DEF WsClose
  <2> QED BY <2>1, <2>2
<1>3. CASE ConnectStep
  <2>1. WsClose \/ UNCHANGED outward
    BY <1>3 DEF ConnectStep, ConnectRefused, Connect, ConnectFails, ConnectTimesOut, Opens,
       ConnectReturns, Delivered, Abort, GivesUp
  <2> QED BY <1>0, <1>1, <1>2, <2>1
<1>4. CASE Closes BY <1>2, <1>4 DEF Closes
<1>5. ASSUME NEW frame \in Frames, frame.kind # "close", WsSend(frame), SendGoes
      PROVE  FramesKept'
  <2>1. ~Past BY <1>5 DEF SendGoes, SendRefused, Past
  <2> QED BY <1>0, <1>5, <2>1, FramesMore DEF WsSend
<1>6. ASSUME NEW s \in Sends, Send(s) PROVE FramesKept'
  <2>1. [kind |-> "send", from |-> s] \in Frames BY DEF Frames
  <2> QED BY <1>0, <1>1, <1>5, <1>6, <2>1 DEF Send
<1>7. CASE ViaSends
  <2>1. [kind |-> "via", from |-> viaTaken] \in Frames BY <1>0 DEF Frames
  <2> QED BY <1>0, <1>1, <1>5, <1>7, <2>1 DEF ViaSends
<1>8. CASE MessageEvent
  <2>1. CASE /\ readyState = "OPEN" /\ readyState' = "CLOSING"
             /\ out' = Append(out, CloseFrame) /\ left' = left
    <3>1. CloseFrame \in Frames /\ ~Past /\ Past' BY <2>1 DEF CloseFrame, Frames, NoCode, Past
    <3> QED BY <1>0, <2>1, <3>1, FramesMore
  <2>2. CASE UNCHANGED outward BY <1>0, <1>1, <2>2
  <2> QED BY <1>8, <2>1, <2>2 DEF MessageEvent
<1>9. CASE \/ \E r \in Receives : Receive(r)
           \/ ReceiveViaStream \/ StreamRead \/ StreamDropped \/ StreamPulls
           \/ SendViaStream \/ WaitClosed
           \/ ClosingShows \/ EndShows \/ CloseEventEnds \/ CloseEventSettles
           \/ \E t \in Timers : TimerFires(t)
           \/ UNCHANGED vars
  <2>1. UNCHANGED outward
    BY <1>9 DEF Receive, ReceiveViaStream, StreamRead, StreamDropped, StreamPulls,
       SendViaStream, WaitClosed, ClosingShows, EndShows, CloseEventEnds,
       CloseEventSettles, TimerFires
  <2> QED BY <1>0, <1>1, <2>1
<1>10. CASE PeerStep
  <2>1. out' = out /\ (left' = left \/ (left < Len(out) /\ left' = left + 1))
    BY <1>10 DEF PeerStep, PeerData, PeerClose, TransportEnds, Drains, NetOnly
  <2>2. left' \in 0 .. Len(out) BY <1>0, <2>1
  <2> QED BY <1>1, <2>1, <2>2
<1> QED
  BY <1>3, <1>4, <1>6, <1>7, <1>8, <1>9, <1>10
     DEF Next, GuestCalls, Continues, Reports, Close, Drop

\* The outcome comes with the settlement, once the connection is ending.
LEMMA SettledNext == Kept /\ FreshKept /\ SettledKept /\ [Next]_vars => SettledKept'
<1> SUFFICES ASSUME Kept, FreshKept, SettledKept, [Next]_vars PROVE SettledKept'
  OBVIOUS
<1> USE DEF vars, connecting, platform, outward, net, flags, settling, queue, inward,
            sending
<1>1. ASSUME UNCHANGED <<closeSettled, closeInfo>> PROVE SettledKept'
  BY <1>1, PastStays DEF SettledKept
<1>2. ASSUME conn \in {"open", "held"}, readyState # "OPEN" PROVE Past
  BY <1>2 DEF Kept, SocketKept, FieldsTyped, FreshKept, Past
<1>3. CASE CloseEventSettles
  <2>1. CASE closeSettled BY <1>1, <1>3, <2>1 DEF CloseEventSettles
  <2>2. CASE ~closeSettled
    <3>1. stage = "ended" /\ Settles(EndCode) BY <1>3, <2>2 DEF CloseEventSettles
    <3>2. readyState = "CLOSED" BY <3>1 DEF Kept, SocketKept
    <3>3. Past' BY <3>2, PastStays DEF Past
    <3> QED BY <3>1, <3>3 DEF Settles, SettledKept
  <2> QED BY <2>1, <2>2
<1>4. ASSUME NEW t \in Timers, TimerFires(t) PROVE SettledKept'
  <2>1. CASE closeSettled BY <1>1, <1>4, <2>1 DEF TimerFires
  <2>2. CASE ~closeSettled
    <3>1. timers # {} /\ Settles(NoFrame) BY <1>4, <2>2 DEF TimerFires
    <3>2. conn \in {"open", "held"} /\ readyState # "OPEN" BY <3>1 DEF Kept, SocketKept
    <3>3. Past' BY <1>2, <3>2, PastStays
    <3> QED BY <3>1, <3>3 DEF Settles, SettledKept
  <2> QED BY <2>1, <2>2
<1>5. CASE \/ ConnectStep \/ GuestCalls \/ Continues \/ PeerStep
           \/ MessageEvent \/ ClosingShows \/ EndShows \/ CloseEventEnds \/ UNCHANGED vars
  <2>1. UNCHANGED <<closeSettled, closeInfo>>
    BY <1>5 DEF ConnectStep, ConnectRefused, Connect, ConnectFails, ConnectTimesOut, Opens,
       ConnectReturns, Delivered, Abort, GivesUp, GuestCalls, Continues, Receive, Send,
       Close, Drop, Closes, WaitClosed, ReceiveViaStream, StreamRead, StreamDropped,
       SendViaStream, StreamPulls, ViaSends, PeerStep, PeerData, PeerClose, TransportEnds,
       Drains, NetOnly, MessageEvent, ClosingShows, EndShows, CloseEventEnds
  <2> QED BY <1>1, <2>1
<1> QED BY <1>3, <1>4, <1>5 DEF Next, Reports

\* No message is skipped: the next to arrive is the one after all that did.
LEMMA FollowsNext == Kept /\ FreshKept /\ FollowsKept /\ [Next]_vars => FollowsKept'
<1> SUFFICES ASSUME Kept, FreshKept, FollowsKept, [Next]_vars PROVE FollowsKept'
  OBVIOUS
<1> USE DEF vars, connecting, platform, outward, net, flags, settling, queue, inward,
            sending
<1>0. /\ TasksKept /\ SocketKept /\ messages \in Seq(MsgIds) /\ taken \in Seq(MsgIds)
      /\ Len(messages) \in Nat /\ Len(taken) \in Nat
  BY Fields DEF Kept
<1>1. ASSUME UNCHANGED <<tasks, peerSent>>, Received' = Received,
             readyState' = "OPEN" => readyState = "OPEN"
      PROVE  FollowsKept'
  BY <1>1 DEF FollowsKept, IsData
<1>2. ASSUME readyState' # "OPEN" PROVE FollowsKept' BY <1>2 DEF FollowsKept
<1>3. ASSUME NEW who, TakesNext(who), UNCHANGED <<readyState, tasks, peerSent>>
      PROVE  FollowsKept'
  <2>1. Head(messages) \in MsgIds /\ Len(messages') = Len(messages) - 1
    BY <1>0, <1>3 DEF TakesNext
  <2>2. Len(taken') = Len(taken) + 1
    <3>1. taken' = Append(taken, Head(messages)) BY <1>3 DEF TakesNext, Hands
    <3> QED BY <1>0, <2>1, <3>1
  <2>3. Received' = Received BY <1>0, <2>1, <2>2 DEF Received
  <2> QED BY <1>1, <1>3, <2>3
<1>4. CASE ConnectStep
  <2>1. UNCHANGED <<tasks, peerSent, messages, taken>>
    BY <1>4 DEF ConnectStep, ConnectRefused, Connect, ConnectFails, ConnectTimesOut, Opens,
       ConnectReturns, Delivered, Abort, GivesUp, WsClose
  <2>2. CASE Opens
    <3>1. tasks = <<>> /\ peerSent = 0 /\ messages = <<>> /\ taken = <<>>
      BY <2>2 DEF Opens, FreshKept
    <3> QED BY <2>1, <3>1 DEF FollowsKept, IsData, Received
  <2>3. CASE ~Opens
    <3>1. readyState' = "OPEN" => readyState = "OPEN"
      BY <1>4, <2>3 DEF ConnectStep, ConnectRefused, Connect, ConnectFails,
         ConnectTimesOut, ConnectReturns, Delivered, Abort, GivesUp, WsClose
    <3> QED BY <1>1, <2>1, <3>1 DEF Received
  <2> QED BY <2>2, <2>3
<1>5. ASSUME NEW r \in Receives, Receive(r) PROVE FollowsKept'
  <2>1. UNCHANGED <<readyState, tasks, peerSent>> BY <1>5 DEF Receive
  <2>2. TakesNext(r) \/ UNCHANGED <<messages, taken>> BY <1>5 DEF Receive, Waits
  <2> QED BY <1>1, <1>3, <2>1, <2>2 DEF Received
<1>6. CASE StreamPulls
  <2>1. UNCHANGED <<readyState, tasks, peerSent>> BY <1>6 DEF StreamPulls
  <2>2. TakesNext("stream") \/ UNCHANGED <<messages, taken>> BY <1>6 DEF StreamPulls, Waits
  <2> QED BY <1>1, <1>3, <2>1, <2>2 DEF Received
<1>7. CASE Closes
  <2>1. readyState' # "OPEN" BY <1>7 DEF Closes, WsClose
  <2> QED BY <1>2, <2>1
<1>8. CASE MessageEvent
  <2> DEFINE m == Head(tasks).arg
  <2>1. IsData(1) /\ m = tasks[1].arg /\ m \in MsgIds /\ tasks' = Tail(tasks) /\ UNCHANGED peerSent
    <3>1. tasks # <<>> /\ Head(tasks).kind = "data" /\ tasks \in Seq(Events)
          /\ tasks' = Tail(tasks) /\ UNCHANGED peerSent
      BY <1>0, <1>8 DEF MessageEvent, Reported, TasksKept
    <3>2. 1 \in DOMAIN tasks /\ Head(tasks) = tasks[1] BY <3>1
    <3> QED BY <1>0, <3>1, <3>2 DEF TasksKept, IsData
  <2> HIDE DEF m
  <2>2. CASE readyState' # "OPEN" BY <1>2, <2>2
  <2>3. CASE Received' = Received + 1 /\ readyState = "OPEN"
    <3>1. m = Received + 1 BY <2>1, <2>3 DEF FollowsKept
    <3>2. IF IsData(1)' THEN tasks'[1].arg = m + 1 ELSE m = peerSent' BY <1>0, <2>1, TaskAfter
    <3> QED BY <2>3, <3>1, <3>2 DEF FollowsKept
  <2>4. CASE Hands(Head(waiters), m) /\ messages' = messages /\ readyState = "OPEN"
    <3>1. Len(taken') = Len(taken) + 1 BY <1>0, <2>1, <2>4 DEF Hands
    <3>2. Received' = Received + 1 BY <1>0, <2>4, <3>1 DEF Received
    <3> QED BY <2>3, <2>4, <3>2
  <2>5. CASE messages' = Append(messages, m) /\ taken' = taken /\ readyState = "OPEN"
    <3>1. Len(messages') = Len(messages) + 1 BY <1>0, <2>1, <2>5
    <3>2. Received' = Received + 1 BY <1>0, <2>5, <3>1 DEF Received
    <3> QED BY <2>3, <2>5, <3>2
  <2>6. overflowed => readyState # "OPEN" BY <1>0 DEF SocketKept
  <2> QED BY <1>8, <2>2, <2>4, <2>5, <2>6 DEF MessageEvent, m
<1>9. CASE ClosingShows \/ EndShows \/ CloseEventEnds \/ CloseEventSettles
  <2>1. readyState' # "OPEN"
    BY <1>0, <1>9 DEF ClosingShows, EndShows, CloseEventEnds, CloseEventSettles, SocketKept
  <2> QED BY <1>2, <2>1
<1>10. ASSUME NEW t \in Timers, TimerFires(t) PROVE FollowsKept'
  <2>1. readyState' # "OPEN"
    BY <1>0, <1>10 DEF TimerFires, SocketKept
  <2> QED BY <1>2, <2>1
<1>11. CASE PeerStep
  <2>1. UNCHANGED <<readyState, messages, taken>>
    BY <1>11 DEF PeerStep, PeerData, PeerClose, TransportEnds, Drains, NetOnly
  <2>2. Received' = Received BY <2>1 DEF Received
  <2> QED BY <1>11, <2>1, <2>2, FirstEvent DEF FollowsKept
<1>12. CASE \/ \E s \in Sends : Send(s)
            \/ WaitClosed \/ ReceiveViaStream \/ StreamRead \/ StreamDropped
            \/ SendViaStream \/ ViaSends \/ UNCHANGED vars
  <2>1. UNCHANGED <<readyState, tasks, peerSent, messages, taken>>
    BY <1>12 DEF Send, WaitClosed, ReceiveViaStream, StreamRead, StreamDropped,
       SendViaStream, ViaSends
  <2> QED BY <1>1, <2>1 DEF Received
<1> QED
  BY <1>4, <1>5, <1>6, <1>7, <1>8, <1>9, <1>10, <1>11, <1>12
     DEF Next, GuestCalls, Continues, Reports, Close, Drop

LEMMA ViewNext == Kept /\ View /\ [Next]_vars => View'
BY FreshNext, FollowsNext, FramesNext, SettledNext DEF View
-----------------------------------------------------------------------------
\* What the contract sees of a frame, of those on the wire, and of `state`.
Shown(frame) == IF frame.kind = "close" THEN "close" ELSE "data"
Wire  == [k \in DOMAIN WireFrames |-> IF WireFrames[k].kind = "close" THEN "close" ELSE "data"]
Phase == IF closeSettled THEN "closed" ELSE IF State = "open" THEN "open" ELSE "closing"

Rest == UNCHANGED <<localClosed, messages, taken, closeSettled, closeInfo>> /\ Wire' = Wire
Same == Rest /\ Phase' = Phase

\* A step that leaves the contract's view alone.
LEMMA SameStutters == Same => UNCHANGED Contract!cvars
BY DEF Same, Rest, Wire, Phase, Contract!cvars

LEMMA WireAt ==
  ASSUME out \in Seq(Frames), left \in 0 .. Len(out)
  PROVE  Wire = [k \in 1 .. left |-> Shown(out[k])]
<1>1. left \in Nat /\ Len(out) \in Nat /\ left =< Len(out) OBVIOUS
<1>2. WireFrames = [k \in 1 .. left |-> out[k]] BY <1>1 DEF WireFrames
<1> QED BY <1>2 DEF Wire, Shown

\* What the platform is handed is not on the wire yet.
LEMMA WireStill ==
  ASSUME Kept, Kept', View, View', [Next]_vars, left' = left
  PROVE  Wire' = Wire
<1>1. /\ out \in Seq(Frames) /\ left \in 0 .. Len(out)
      /\ out' \in Seq(Frames) /\ left' \in 0 .. Len(out')
  BY DEF Kept, ViaKept, View, FramesKept
<1>2. \A k \in 1 .. left : out'[k] = out[k]
  <2>1. \/ out' = out \/ \E frame : out' = Append(out, frame)
    <3> USE DEF vars, connecting, platform, outward, net, flags, settling, queue, inward,
                sending
    <3>1. CASE ConnectStep
      BY <3>1 DEF ConnectStep, ConnectRefused, Connect, ConnectFails, ConnectTimesOut, Opens,
         ConnectReturns, Delivered, Abort, GivesUp, WsClose
    <3>2. CASE GuestCalls \/ Continues
      BY <3>2 DEF GuestCalls, Continues, Receive, Send, WsSend, Close, Drop, Closes,
         WsClose, WaitClosed, ReceiveViaStream, StreamRead, StreamDropped, SendViaStream,
         StreamPulls, ViaSends
    <3>3. CASE Reports
      BY <3>3 DEF Reports, MessageEvent, ClosingShows, EndShows, CloseEventEnds,
         CloseEventSettles
    <3>4. CASE (\E t \in Timers : TimerFires(t)) \/ PeerStep \/ UNCHANGED vars
      BY <3>4 DEF TimerFires, PeerStep, PeerData, PeerClose, TransportEnds, Drains, NetOnly
    <3> QED BY <3>1, <3>2, <3>3, <3>4 DEF Next
  <2>2. CASE out' = out BY <2>2
  <2>3. ASSUME NEW frame, out' = Append(out, frame) PROVE \A k \in 1 .. left : out'[k] = out[k]
    BY <1>1, <2>3
  <2> QED BY <2>1, <2>2, <2>3
<1>3. Wire = [k \in 1 .. left |-> Shown(out[k])] BY <1>1, WireAt
<1>4. Wire' = [k \in 1 .. left' |-> Shown((out')[k])]
  <2>1. left' \in Nat /\ Len(out') \in Nat /\ left' =< Len(out') BY <1>1
  <2>2. WireFrames' = [k \in 1 .. left' |-> (out')[k]] BY <1>1, <2>1 DEF WireFrames
  <2> QED BY <2>2 DEF Wire, Shown
<1> QED BY <1>2, <1>3, <1>4

\* A step that may start to close, and does no more that shows.
LEMMA PhaseMoves ==
  ASSUME Kept, Rest,
         \/ readyState' = readyState
         \/ Past'
         \/ {readyState, readyState'} \subseteq {"NONE", "CONNECTING", "OPEN"}
  PROVE  [Contract!CNext]_(Contract!cvars)
<1>1. localClosed' = localClosed /\ closeSettled' = closeSettled BY DEF Rest
<1>2. CASE Phase' = Phase BY <1>2, SameStutters DEF Same
<1>3. CASE Phase' # Phase
  <2>1. ~closeSettled /\ ~localClosed BY <1>1, <1>3 DEF Phase, State
  <2>2. Past' BY <1>1, <1>3, <2>1 DEF Phase, State
  <2>3. Phase' = "closing" BY <1>1, <2>1, <2>2 DEF Past, Phase, State
  <2>4. Phase = "open" BY <1>3, <2>1, <2>3 DEF Phase
  <2>5. Contract!StartClosing BY <2>3, <2>4 DEF Contract!StartClosing, Rest, Wire, Phase
  <2> QED BY <2>5 DEF Contract!CNext
<1> QED BY <1>2, <1>3

\* The same, said of the flags.
LEMMA PhaseStays ==
  ASSUME UNCHANGED <<readyState, localClosed, closeSettled>>
  PROVE  Phase' = Phase
BY DEF Phase, State

\* The oldest message is handed to the guest, or to its stream.
LEMMA TakeRefines ==
  ASSUME NEW who, TakesNext(who), ~localClosed, Phase' = Phase, Wire' = Wire,
         UNCHANGED <<localClosed, closeSettled, closeInfo>>
  PROVE  Contract!CNext
<1>1. Contract!Take BY DEF TakesNext, Hands, Contract!Take, Wire, Phase
<1> QED BY <1>1 DEF Contract!CNext

\* A sequence is the function of its elements.
LEMMA SequenceIsFunction ==
  ASSUME NEW S, NEW q \in Seq(S)
  PROVE  q = [k \in DOMAIN q |-> q[k]]
OBVIOUS

\* A frame reaches the wire, and none did after a close frame (Drains).
LEMMA DrainRefines ==
  ASSUME Kept, View, View', Drains
  PROVE  Contract!CNext
<1> USE DEF connecting, platform, net, flags, settling, queue, inward, sending
<1> DEFINE last == Shown(out[left + 1])
<1>1. /\ out \in Seq(Frames) /\ left \in 0 .. Len(out) /\ out' = out /\ left' = left + 1
      /\ left \in Nat /\ left + 1 \in 1 .. Len(out) /\ DOMAIN out = 1 .. Len(out)
  BY DEF Kept, ViaKept, View, FramesKept, Drains
<1>2. Wire = [k \in 1 .. left |-> Shown(out[k])] BY <1>1, WireAt
<1>3. Wire' = [k \in 1 .. left + 1 |-> Shown(out[k])]
  <2>1. WireFrames' = [k \in 1 .. left + 1 |-> out[k]] BY <1>1 DEF WireFrames
  <2> QED BY <2>1 DEF Wire, Shown
<1>4. \A k \in 1 .. left : Wire[k] = "data"
  <2> DEFINE n == Len(out)
  <2>1. left \in Nat /\ n \in Nat /\ left + 1 \in 1 .. n /\ DOMAIN out = 1 .. n BY <1>1
  <2>2. \A k \in DOMAIN out : out[k].kind = "close" => k = n BY DEF View, FramesKept
  <2> HIDE DEF n
  <2>3. \A k \in 1 .. left : k \in 1 .. n /\ k # n BY <2>1
  <2> QED BY <1>2, <2>1, <2>2, <2>3 DEF Shown
<1>5. last \in {"data", "close"} BY DEF Shown
<1> HIDE DEF last
<1>6. Wire' = Wire \o <<last>>
  <2>1. Wire \in Seq({"data", "close"}) /\ Len(Wire) = left /\ DOMAIN Wire = 1 .. left
    BY <1>1, <1>2 DEF Shown
  <2>2. Wire \o <<last>> = Append(Wire, last) BY <1>5, <2>1, AppendIsConcat
  <2>3. Append(Wire, last) = [k \in 1 .. left + 1 |-> IF k = left + 1 THEN last ELSE Wire[k]]
    <3> DEFINE q == Append(Wire, last)
    <3> HIDE DEF Wire
    <3>1. q \in Seq({"data", "close"}) /\ DOMAIN q = 1 .. left + 1 /\ q[left + 1] = last
      BY <1>1, <1>5, <2>1
    <3>2. \A k \in 1 .. left : q[k] = Wire[k] BY <1>1, <1>5, <2>1
    <3> HIDE DEF q
    <3>3. q = [k \in DOMAIN q |-> q[k]] BY <3>1, SequenceIsFunction
    <3>4. ASSUME NEW k \in 1 .. left + 1 PROVE k \in 1 .. left \/ k = left + 1 BY <1>1
    <3>5. ASSUME NEW k \in 1 .. left + 1
          PROVE  q[k] = IF k = left + 1 THEN last ELSE Wire[k]
      BY <3>1, <3>2, <3>4
    <3>6. q = [k \in 1 .. left + 1 |-> IF k = left + 1 THEN last ELSE Wire[k]]
      BY <3>1, <3>3, <3>5
    <3> QED BY <3>6 DEF q
  <2>4. ASSUME NEW k \in 1 .. left + 1
        PROVE  Shown(out[k]) = IF k = left + 1 THEN last ELSE Wire[k]
    <3>1. k = left + 1 \/ k \in 1 .. left BY <1>1
    <3> QED BY <1>1, <1>2, <3>1 DEF last
  <2> QED BY <1>3, <2>2, <2>3, <2>4
<1>7. UNCHANGED <<localClosed, messages, taken, closeSettled, closeInfo>> /\ Phase' = Phase
  BY PhaseStays DEF Drains
<1>8. \A k \in DOMAIN Wire : Wire[k] # "close" BY <1>2, <1>4
<1>9. CASE last = "data"
  <2>1. Contract!Transmit(<<"data">>)
    BY <1>6, <1>7, <1>8, <1>9 DEF Contract!Transmit, Wire, Phase
  <2> QED BY <2>1 DEF Contract!CNext
<1>10. CASE last = "close"
  <2>1. Contract!Transmit(<<"close">>)
    BY <1>6, <1>7, <1>8, <1>10 DEF Contract!Transmit, Wire, Phase
  <2> QED BY <2>1 DEF Contract!CNext
<1> QED BY <1>5, <1>9, <1>10

\* The close settles: the outcome and the end are seen at once (#settleClosed).
LEMMA SettleRefines ==
  ASSUME View, NEW code, Settles(code), ~closeSettled, UNCHANGED localClosed, Wire' = Wire,
         (IF code \in Synthesized THEN NoFrame ELSE code) \in Outcomes \ {Unset}
  PROVE  Contract!CNext
<1> USE DEF queue, inward
<1>1. closeInfo = Unset /\ closeSettled' /\ closeInfo' \in Outcomes \ {Unset}
  BY DEF View, SettledKept, Settles
<1>2. UNCHANGED <<messages, taken>> BY DEF Settles, QueueEnds, Reject
<1>3. Contract!Settle(closeInfo') BY <1>1, <1>2 DEF Contract!Settle, Wire
<1> QED BY <1>1, <1>3 DEF Contract!CNext

\* A message is queued, or handed to whoever waits for it (the `message` listener).
LEMMA MessageRefines ==
  ASSUME Kept, Kept', View, View', [Next]_vars, MessageEvent
  PROVE  [Contract!CNext]_(Contract!cvars)
<1> USE DEF vars, connecting, platform, outward, net, flags, settling, queue, inward,
            sending
<1> DEFINE m    == Head(tasks).arg
           Goal == [Contract!CNext]_(Contract!cvars)
<1>1. IsData(1) /\ m = tasks[1].arg
  <2>1. tasks # <<>> /\ Head(tasks).kind = "data" /\ tasks \in Seq(Events)
    BY DEF MessageEvent, Reported, Kept, TasksKept
  <2>2. 1 \in DOMAIN tasks /\ Head(tasks) = tasks[1] BY <2>1
  <2> QED BY <2>1, <2>2 DEF IsData
<1> HIDE DEF m
<1>2. UNCHANGED <<localClosed, closeSettled, closeInfo>> /\ left' = left
  BY DEF MessageEvent
<1>3. Wire' = Wire BY <1>2, WireStill
<1>4. CASE UNCHANGED <<messages, taken>> /\ (readyState' = readyState \/ Past')
  <2>1. Rest BY <1>2, <1>3, <1>4 DEF Rest
  <2> QED BY <1>4, <2>1, PhaseMoves
<1>5. CASE /\ readyState = "OPEN" /\ readyState' = readyState
           /\ \/ waiters # <<>> /\ Hands(Head(waiters), m) /\ messages' = messages
              \/ messages' = Append(messages, m) /\ taken' = taken
  <2>1. ~localClosed /\ ~closeSettled
    BY <1>5 DEF Kept, SocketKept, View, SettledKept, Past
  <2>2. m = Len(taken) + Len(messages) + 1
    BY <1>1, <1>5 DEF View, FollowsKept, Received
  <2>3. Phase' = Phase BY <1>2, <1>5, PhaseStays
  <2>4. CASE waiters # <<>> /\ Hands(Head(waiters), m) /\ messages' = messages
    <3>1. messages = <<>> BY <2>4 DEF Kept, QueueConsistent
    <3>2. Len(taken) \in Nat /\ Len(messages) = 0 BY <3>1, Fields DEF Kept
    <3>3. taken' = Append(taken, m) /\ m = Len(taken) + 1 BY <2>2, <2>4, <3>2 DEF Hands
    <3>4. Contract!Pass
      BY <1>2, <1>3, <2>1, <2>3, <2>4, <3>1, <3>3 DEF Contract!Pass, Wire, Phase
    <3> QED BY <3>4 DEF Contract!CNext
  <2>5. CASE messages' = Append(messages, m) /\ taken' = taken
    <3>1. Contract!Arrive
      BY <1>2, <1>3, <2>1, <2>2, <2>3, <2>5 DEF Contract!Arrive, Wire, Phase
    <3> QED BY <3>1 DEF Contract!CNext
  <2> QED BY <1>5, <2>4, <2>5
<1> HIDE DEF Goal
<1>6. CASE readyState' = "CLOSING" BY <1>4, <1>6 DEF MessageEvent, Past
<1> QED BY <1>4, <1>5, <1>6 DEF MessageEvent, m

\* Every step is a step of the contract, or none.
LEMMA StepRefines ==
  Kept /\ Kept' /\ View /\ View' /\ [Next]_vars => [Contract!CNext]_(Contract!cvars)
<1> DEFINE Goal == [Contract!CNext]_(Contract!cvars)
<1> SUFFICES ASSUME Kept, Kept', View, View', [Next]_vars PROVE Goal
  OBVIOUS
<1> USE DEF vars, connecting, platform, outward, net, flags, settling, queue, inward,
            sending
<1>1. ASSUME UNCHANGED <<left, localClosed, messages, taken, closeSettled, closeInfo>>,
             \/ readyState' = readyState
             \/ Past'
             \/ {readyState, readyState'} \subseteq {"NONE", "CONNECTING", "OPEN"}
      PROVE  Goal
  <2>1. Rest BY <1>1, WireStill DEF Rest
  <2> QED BY <1>1, <2>1, PhaseMoves
<1>2. ASSUME NEW who, TakesNext(who),
             UNCHANGED <<left, localClosed, closeSettled, closeInfo, readyState>>
      PROVE  Goal
  <2>1. ~localClosed BY <1>2 DEF TakesNext, Kept, SocketKept
  <2>2. Phase' = Phase /\ Wire' = Wire BY <1>2, WireStill, PhaseStays
  <2> QED BY <1>2, <2>1, <2>2, TakeRefines
<1> HIDE DEF Goal
<1>3. CASE ConnectStep
  <2>1. UNCHANGED <<left, localClosed, messages, taken, closeSettled, closeInfo>>
    BY <1>3 DEF ConnectStep, ConnectRefused, Connect, ConnectFails, ConnectTimesOut, Opens,
       ConnectReturns, Delivered, Abort, GivesUp, WsClose
  <2>2. CASE Connect \/ Opens
    <3>1. readyState \in {"NONE", "CONNECTING"} /\ readyState' \in {"CONNECTING", "OPEN"}
      BY <2>2 DEF Connect, Opens, Kept, SocketKept
    <3> QED BY <1>1, <2>1, <3>1
  <2>3. CASE ~Connect /\ ~Opens
    <3>1. readyState' = readyState \/ Past'
      BY <1>3, <2>3 DEF Past, ConnectStep, ConnectRefused, ConnectFails, ConnectTimesOut,
         ConnectReturns, Delivered, Abort, GivesUp, WsClose
    <3> QED BY <1>1, <2>1, <3>1
  <2> QED BY <2>2, <2>3
<1>4. ASSUME NEW r \in Receives, Receive(r) PROVE Goal
  <2>1. UNCHANGED <<left, localClosed, closeSettled, closeInfo, readyState>>
    BY <1>4 DEF Receive
  <2>2. TakesNext(r) \/ UNCHANGED <<messages, taken>> BY <1>4 DEF Receive, Waits
  <2> QED BY <1>1, <1>2, <2>1, <2>2
<1>5. CASE StreamPulls
  <2>1. UNCHANGED <<left, localClosed, closeSettled, closeInfo, readyState>>
    BY <1>5 DEF StreamPulls
  <2>2. TakesNext("stream") \/ UNCHANGED <<messages, taken>> BY <1>5 DEF StreamPulls, Waits
  <2> QED BY <1>1, <1>2, <2>1, <2>2
<1>6. CASE Closes
  <2>1. /\ ~localClosed /\ localClosed' = TRUE /\ messages' = <<>> /\ left' = left
        /\ UNCHANGED <<taken, closeSettled, closeInfo>>
    BY <1>6 DEF Closes, Discard, Reject, WsClose
  <2>2. Wire' = Wire BY <2>1, WireStill
  <2>3. Phase' = IF Phase = "open" THEN "closing" ELSE Phase
    <3>1. closeSettled \in BOOLEAN BY Fields DEF Kept
    <3> QED BY <2>1, <3>1 DEF Phase, State
  <2>4. Contract!LocalClose BY <2>1, <2>2, <2>3 DEF Contract!LocalClose, Wire, Phase
  <2> QED BY <2>4 DEF Contract!CNext, Goal
<1>7. CASE MessageEvent BY <1>7, MessageRefines DEF Goal
<1>8. CASE ClosingShows \/ EndShows \/ CloseEventEnds
  <2>1. UNCHANGED <<left, localClosed, messages, taken, closeSettled, closeInfo>>
        /\ (readyState' = readyState \/ Past')
    BY <1>8 DEF ClosingShows, EndShows, CloseEventEnds, QueueEnds, Reject, Past
  <2> QED BY <1>1, <2>1
<1>9. CASE CloseEventSettles
  <2>1. CASE closeSettled BY <1>1, <1>9, <2>1 DEF CloseEventSettles
  <2>2. CASE ~closeSettled
    <3>1. Settles(EndCode) /\ stage = "ended" /\ UNCHANGED <<left, localClosed>>
      BY <1>9, <2>2 DEF CloseEventSettles
    <3>2. (IF EndCode \in Synthesized THEN NoFrame ELSE EndCode) \in Outcomes \ {Unset}
      BY <3>1, OutcomeOfEnd
    <3>3. Wire' = Wire BY <3>1, WireStill
    <3> QED BY <2>2, <3>1, <3>2, <3>3, SettleRefines DEF Goal
  <2> QED BY <2>1, <2>2
<1>10. ASSUME NEW t \in Timers, TimerFires(t) PROVE Goal
  <2>1. CASE closeSettled BY <1>1, <1>10, <2>1 DEF TimerFires
  <2>2. CASE ~closeSettled
    <3>1. Settles(NoFrame) /\ UNCHANGED <<left, localClosed>> BY <1>10, <2>2 DEF TimerFires
    <3>2. (IF NoFrame \in Synthesized THEN NoFrame ELSE NoFrame) \in Outcomes \ {Unset}
      BY DEF Outcomes, NoFrame, Unset
    <3>3. Wire' = Wire BY <3>1, WireStill
    <3> QED BY <2>2, <3>1, <3>2, <3>3, SettleRefines DEF Goal
  <2> QED BY <2>1, <2>2
<1>11. CASE Drains BY <1>11, DrainRefines DEF Goal
<1>12. CASE \/ \E s \in Sends : Send(s)
            \/ WaitClosed \/ ReceiveViaStream \/ StreamRead \/ StreamDropped
            \/ SendViaStream \/ ViaSends
            \/ PeerData \/ (\E code \in PeerCodes : PeerClose(code)) \/ TransportEnds
            \/ UNCHANGED vars
  <2>1. UNCHANGED <<left, localClosed, messages, taken, closeSettled, closeInfo, readyState>>
    BY <1>12 DEF Send, WsSend, WaitClosed, ReceiveViaStream, StreamRead, StreamDropped,
       SendViaStream, ViaSends, PeerData, PeerClose, TransportEnds, NetOnly
  <2> QED BY <1>1, <2>1
<1> QED
  BY <1>3, <1>4, <1>5, <1>6, <1>7, <1>8, <1>9, <1>10, <1>11, <1>12
     DEF Next, GuestCalls, Continues, Reports, PeerStep, Close, Drop

\* It starts where the contract starts.
LEMMA InitRefines == Init => Contract!CInit
<1> SUFFICES ASSUME Init PROVE Contract!CInit
  OBVIOUS
<1>1. WireFrames = <<>> BY DEF Init, WireFrames
<1>2. [k \in DOMAIN WireFrames |-> IF WireFrames[k].kind = "close" THEN "close" ELSE "data"]
        = <<>>
  BY <1>1
<1> QED BY <1>2 DEF Init, Contract!CInit, State

\* The JS host implements the contract that all implementations share: every step of
\* the event loop is one step of it, or none (websocket.ts against wit/websocket.wit).
THEOREM PolyengineImplementsContract == Spec => ImplementsContract
<1>1. Kept /\ View /\ [Next]_vars => View' BY ViewNext
<1>2. Spec => []View BY <1>1, InitView, PolyengineInductive, PTL DEF Spec
<1>3. Init => Contract!CInit BY InitRefines
<1> QED
  BY <1>2, <1>3, StepRefines, PolyengineInductive, PTL
     DEF Spec, ImplementsContract, Contract!CSpec
=============================================================================
