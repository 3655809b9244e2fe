----------------------------- MODULE HostProofs -----------------------------
(***************************************************************************)
(* What the Wasmtime host's connection guarantees, for any number of       *)
(* calls, messages and frames, any message sizes and any bound: each       *)
(* theorem follows from the inductive invariant (HostKept).  The second     *)
(* half proves that it implements the contract (WsContract): every step of *)
(* pump, guest and peer is one step of the contract, or none.              *)
(***************************************************************************)
EXTENDS HostKept, SequenceTheorems

\* The inbound byte budget counts exactly the bytes queued and in hand, and
\* stays within the bound, though readers release bytes between the pump's
\* check and its addition (InboundBudget::reserve, release).
LEMMA KeptBudget == Typed /\ Kept => BudgetExact /\ buffered >= 0
<1> SUFFICES ASSUME Typed, Kept PROVE BudgetExact /\ buffered >= 0
  OBVIOUS
<1>1. OrderKept /\ BudgetKept BY DEF Kept
<1>2. inq \in Seq(MsgIds) /\ Len(inq) \in Nat /\ Len(delivered) \in Nat
  BY Lens DEF Typed, ChannelsTyped
<1>3. QueuedBytes = Offset[Accepted] - Offset[Len(delivered)]
  <2>1. CASE inq = <<>>
    BY <2>1, <1>1, <1>2, Offsets DEF QueuedBytes, Accepted
  <2>2. CASE inq # <<>>
    <3>1. Head(inq) = inq[1] /\ 1 \in DOMAIN inq /\ Len(inq) \in DOMAIN inq
      BY <1>2, <2>2
    <3>2. inq[1] = Len(delivered) + 1 /\ inq[Len(inq)] = Accepted
      BY <1>1, <3>1 DEF OrderKept, Accepted
    <3>3. Head(inq) - 1 = Len(delivered) BY <3>1, <3>2, <1>2
    <3> QED BY <2>2, <3>2, <3>3 DEF QueuedBytes
  <2> QED BY <2>1, <2>2
<1>4. InHandBytes \in Nat
  BY SizeTypes DEF InHandBytes, Typed, GuestTyped
<1>5. buffered = QueuedBytes + InHandBytes /\ buffered =< Limit
  BY <1>1, <1>3 DEF BudgetKept
<1>6. buffered >= 0
  BY <1>1, <1>3, <1>4, <1>5, Offsets
<1> QED BY <1>5, <1>6 DEF BudgetExact

\* What was taken, followed by what is queued, is 1, 2, 3, ...
LEMMA KeptNoGap == Typed /\ Kept => NoGap
<1> SUFFICES ASSUME Typed, Kept PROVE NoGap
  OBVIOUS
<1>1. OrderKept /\ inq \in Seq(MsgIds) /\ delivered \in Seq(MsgIds)
  BY DEF Kept, Typed, ChannelsTyped, SeenTyped
<1> DEFINE both == delivered \o inq
           n == Len(delivered) + Len(inq)
<1>2. n \in Nat /\ Len(delivered) \in Nat /\ Len(inq) \in Nat BY <1>1
<1>3. both \in Seq(MsgIds) /\ Len(both) = n BY <1>1
<1>4. ASSUME NEW i \in 1 .. n PROVE both[i] = i
  <2>1. CASE i =< Len(delivered)
    <3>1. i \in DOMAIN delivered /\ both[i] = delivered[i] BY <1>1, <1>2, <2>1
    <3> QED BY <1>1, <3>1 DEF OrderKept
  <2>2. CASE i > Len(delivered)
    <3>1. i - Len(delivered) \in DOMAIN inq /\ both[i] = inq[i - Len(delivered)]
      BY <1>1, <1>2, <2>2
    <3>2. inq[i - Len(delivered)] = Len(delivered) + (i - Len(delivered))
      BY <1>1, <3>1 DEF OrderKept
    <3> QED BY <1>2, <3>1, <3>2
  <2> QED BY <1>2, <2>1, <2>2
<1>5. both = [i \in 1 .. n |-> i]
  <2> HIDE DEF both, n
  <2>1. both = [i \in DOMAIN both |-> both[i]] /\ DOMAIN both = 1 .. n
    BY <1>2, <1>3
  <2> QED BY <1>4, <2>1
<1> QED BY <1>5 DEF NoGap

\* Every cell is well typed and the budget's counter never goes below zero,
\* where a usize would wrap.
THEOREM TypesCorrect == Spec => []TypeOK
<1>1. Typed /\ Kept => TypeOK BY KeptBudget DEF TypeOK
<1> QED BY <1>1, Inductive, PTL

\* The inbound byte budget is exact and bounded (InboundBudget).
THEOREM BudgetIsExact == Spec => []BudgetExact
BY KeptBudget, Inductive, PTL

\* No message is lost, repeated or reordered between the pump and the readers
\* (InboundQueue::next, Pump::deliver).
THEOREM MessagesInOrder == Spec => []NoGap
BY KeptNoGap, Inductive, PTL

\* A message that was read is thrown away only after a local close or an
\* overflow (Pump::deliver).
THEOREM LossesAreAllowed == Spec => []LossOnlyByContract
<1>1. Kept => LossOnlyByContract BY DEF Kept
<1> QED BY <1>1, Inductive, PTL

\* The error of a failed receive is true when it is reported, and stays true
\* (receive, next_inbound).
THEOREM ReceiveErrorsAreHonest == Spec => []ReceiveErrorsHonest
<1>1. Kept => ReceiveErrorsHonest BY DEF Kept
<1> QED BY <1>1, Inductive, PTL

\* A send that succeeded is on the wire, and no message goes out twice
\* (SendHandle::send, Pump::run's acks).
THEOREM SendAcksAreHonest == Spec => []SendAckHonest
<1>1. Typed /\ Kept => SendAckHonest
  BY FrameKinds DEF Kept, SendsKept, SendAckHonest, Once
<1> QED BY <1>1, Inductive, PTL

\* The peer sees at most one close frame and nothing after it, with a code a
\* client may send (Pump::begin_close).
THEOREM CloseFramesAreLast == Spec => []CloseFrameIsLast
<1>1. Kept => CloseFrameIsLast BY DEF Kept, CloseKept, CloseFrameIsLast
<1> QED BY <1>1, Inductive, PTL

\* wait-closed resolves only at the end, always with the peer's close frame as
\* the pump read it, or none (Pump::run's end, ClosedHandle::wait).
THEOREM WaitClosedIsLatched == Spec => []WaitClosedLatched
<1>1. Kept => WaitClosedLatched
  BY DEF Kept, LifeKept, CloseKept, WaitClosedLatched
<1> QED BY <1>1, Inductive, PTL

\* The pump stops reading without the peer's close frame only when it may.
THEOREM CloseFramesAreAwaited == Spec => []CloseFrameNotMissed
<1>1. Kept => CloseFrameNotMissed BY DEF Kept
<1> QED BY <1>1, Inductive, PTL

\* Closed means settled: outcome published, queue ended, no send unanswered.
THEOREM ClosedMeansSettled == Spec => []ClosedIsSettled
<1>1. ASSUME Typed, Kept PROVE ClosedIsSettled
  <2>1. SUFFICES ASSUME state = "closed"
                 PROVE  /\ closeInfo # Unset /\ ~inOpen /\ ~cmdOpen
                        /\ \A s \in Sends : sendSt[s] # "queued"
    BY DEF ClosedIsSettled
  <2>2. pump \in {"fire", "done"} /\ cmdq = <<>> BY <1>1, <2>1 DEF Kept, LifeKept
  <2>3. ~inOpen /\ ~cmdOpen /\ closeInfo = peerFrame
    BY <1>1, <2>2 DEF Kept, LifeKept, Finishing
  <2>4. peerFrame # Unset
    BY <1>1, CodeTypes DEF Typed, PumpTyped, Outcomes, NoFrame, Unset
  <2>5. \A s \in Sends : sendSt[s] # "queued"
    BY <1>1, <2>2 DEF Kept, SendsKept, In, Writes
  <2> QED BY <2>3, <2>4, <2>5
<1> QED BY <1>1, Inductive, PTL

\* The state cell only takes a later state than the one it has.
LEMMA AdvanceForward ==
  ASSUME Typed, NEW next \in {"closing", "closed"}, UNCHANGED state \/ Advance(next)
  PROVE  Rank(state) =< Rank(state')
<1>1. state \in {"open", "closing", "closed"} BY DEF Typed, ChannelsTyped
<1> QED BY <1>1 DEF Advance, Rank

\* Every step leaves the state cell alone or advances it.
LEMMA StateMoves ==
  ASSUME Typed, [Next]_vars
  PROVE  \E next \in {"closing", "closed"} : UNCHANGED state \/ Advance(next)
<1> USE DEF shared, resource, channels, budget, guestVars, pumpVars, pumpRest, peerVars, seen
<1> DEFINE Moves == \E next \in {"closing", "closed"} :
                      UNCHANGED state \/ Advance(next)
<1>1. ASSUME GuestCalls \/ GuestStep PROVE Moves
  <2>1. ASSUME NEW s \in Sends, Send(s) PROVE Moves BY <2>1 DEF Send
  <2>2. ASSUME NEW req \in CloseRequests, Close(req) PROVE Moves BY <2>2 DEF Close
  <2>3. ASSUME NEW r \in Receives, Receive(r) PROVE Moves BY <2>3 DEF Receive
  <2>4. CASE Drop BY <2>4 DEF Drop
  <2>5. CASE ReceiveViaStream \/ StreamRead \/ StreamDropped \/ WaitClosed
    BY <2>5 DEF ReceiveViaStream, StreamRead, StreamDropped, WaitClosed
  <2>6. CASE CloseFires \/ CloseEnqueues \/ ReaderReleases
    BY <2>6 DEF CloseFires, CloseEnqueues, ReaderReleases
  <2> QED
    BY <1>1, <2>1, <2>2, <2>3, <2>4, <2>5, <2>6 DEF GuestCalls, GuestStep
<1>2. ASSUME NEW r \in Receives, ReceivePoll(r) PROVE Moves
  BY <1>2 DEF ReceivePoll, ReceiveSignalled, ReceiveLocks, ReceiveTakes,
              ReceiveEnds
<1>3. CASE StreamPoll
  BY <1>3 DEF StreamPoll, StreamLocks, StreamTakes, StreamEnds
<1>4. CASE PumpStep
  <2>1. CASE PumpSend \/ PumpReserves \/ PumpPing \/ PumpEnd \/ PumpDeadline
    BY <2>1 DEF PumpSend, PumpReserves, PumpPing, PumpEnd, PumpDeadline
  <2>2. CASE PumpClose \/ PumpCmdsDone
    BY <2>2 DEF PumpClose, PumpCmdsDone, BeginClose
  <2>3. CASE PumpData BY <2>3 DEF PumpData, Overflow, BeginClose
  <2>4. CASE PumpPeerClose \/ PumpCapacity
    BY <2>4 DEF PumpPeerClose, PumpCapacity, BeginClose
  <2>5. CASE WriteSeesLocalClose \/ WriteTimesOut
    BY <2>5 DEF WriteSeesLocalClose, WriteTimesOut
  <2>6. CASE PumpPublishes \/ PumpEndsQueue \/ PumpClosesCmds \/ PumpDrains
    BY <2>6 DEF PumpPublishes, PumpEndsQueue, PumpClosesCmds, PumpDrains
  <2>7. CASE PumpLatches \/ PumpFires BY <2>7 DEF PumpLatches, PumpFires
  <2> QED
    BY <1>4, <2>1, <2>2, <2>3, <2>4, <2>5, <2>6, <2>7 DEF PumpStep
<1>5. CASE TransportStep BY <1>5 DEF TransportStep, WriteAccepted, WriteFails
<1>6. CASE PeerStep \/ DeadlineExpires
  BY <1>6 DEF PeerStep, PeerData, PeerPing, PeerBig, PeerClose, TransportEnds,
              PeerOnly, DeadlineExpires
<1>7. CASE UNCHANGED vars BY <1>7 DEF vars
<1> QED BY <1>1, <1>2, <1>3, <1>4, <1>5, <1>6, <1>7 DEF Next

\* The state only advances, and closed is terminal (StateCell::advance).
THEOREM StateNeverGoesBack == Spec => StateOnlyAdvances
<1>1. Typed /\ [Next]_vars => Rank(state) =< Rank(state')
  BY StateMoves, AdvanceForward
<1> QED BY <1>1, TypesHold, PTL DEF Spec, StateOnlyAdvances

\* Only the two steps that take the head of the queue hand a message over.
LEMMA Deliveries ==
  ASSUME Typed, [Next]_vars
  PROVE  \/ UNCHANGED delivered
            /\ \A r \in Receives : recvSt'[r] = "message" => recvSt[r] = "message"
         \/ \E r \in Receives : ReceiveTakes(r)
         \/ StreamTakes
<1> USE DEF shared, resource, channels, budget, guestVars, pumpVars, pumpRest, peerVars, seen
<1> DEFINE Same == /\ UNCHANGED delivered
                   /\ \A r \in Receives : recvSt'[r] = "message" => recvSt[r] = "message"
<1>0. recvSt \in [Receives -> {"unused", "pending", "message", "viaStream",
                               "overflow", "closed"}]
  BY DEF Typed, GuestTyped
<1>1. ASSUME GuestCalls \/ GuestStep PROVE Same
  <2>1. ASSUME NEW s \in Sends, Send(s) PROVE Same BY <2>1 DEF Send
  <2>2. ASSUME NEW req \in CloseRequests, Close(req) PROVE Same BY <2>2 DEF Close
  <2>3. ASSUME NEW r \in Receives, Receive(r) PROVE Same
    BY <1>0, <2>3 DEF Receive
  <2>4. CASE Drop BY <2>4 DEF Drop
  <2>5. CASE ReceiveViaStream \/ StreamRead \/ StreamDropped \/ WaitClosed
    BY <2>5 DEF ReceiveViaStream, StreamRead, StreamDropped, WaitClosed
  <2>6. CASE CloseFires \/ CloseEnqueues \/ ReaderReleases
    BY <2>6 DEF CloseFires, CloseEnqueues, ReaderReleases
  <2> QED
    BY <1>1, <2>1, <2>2, <2>3, <2>4, <2>5, <2>6 DEF GuestCalls, GuestStep
<1>2. ASSUME NEW r \in Receives, ReceivePoll(r) PROVE Same \/ ReceiveTakes(r)
  <2>1. CASE ReceiveSignalled(r) BY <1>0, <2>1 DEF ReceiveSignalled
  <2>2. CASE ReceiveLocks(r) BY <2>2 DEF ReceiveLocks
  <2>3. CASE ReceiveEnds(r) BY <1>0, <2>3 DEF ReceiveEnds, EndOutcome
  <2> QED BY <1>2, <2>1, <2>2, <2>3 DEF ReceivePoll
<1>3. ASSUME StreamPoll PROVE Same \/ StreamTakes
  BY <1>3 DEF StreamPoll, StreamLocks, StreamEnds
<1>4. CASE PumpStep
  <2>1. CASE PumpSend \/ PumpReserves \/ PumpPing \/ PumpEnd \/ PumpDeadline
    BY <2>1 DEF PumpSend, PumpReserves, PumpPing, PumpEnd, PumpDeadline
  <2>2. CASE PumpClose \/ PumpCmdsDone BY <2>2 DEF PumpClose, PumpCmdsDone
  <2>3. CASE PumpData \/ PumpPeerClose \/ PumpCapacity
    BY <2>3 DEF PumpData, PumpPeerClose, PumpCapacity
  <2>4. CASE WriteSeesLocalClose \/ WriteTimesOut
    BY <2>4 DEF WriteSeesLocalClose, WriteTimesOut
  <2>5. CASE PumpPublishes \/ PumpEndsQueue \/ PumpClosesCmds \/ PumpDrains
    BY <2>5 DEF PumpPublishes, PumpEndsQueue, PumpClosesCmds, PumpDrains
  <2>6. CASE PumpLatches \/ PumpFires BY <2>6 DEF PumpLatches, PumpFires
  <2> QED BY <1>4, <2>1, <2>2, <2>3, <2>4, <2>5, <2>6 DEF PumpStep
<1>5. CASE TransportStep BY <1>5 DEF TransportStep, WriteAccepted, WriteFails
<1>6. CASE PeerStep \/ DeadlineExpires
  BY <1>6 DEF PeerStep, PeerData, PeerPing, PeerBig, PeerClose, TransportEnds,
              PeerOnly, DeadlineExpires
<1>7. CASE UNCHANGED vars BY <1>7 DEF vars
<1> QED BY <1>1, <1>2, <1>3, <1>4, <1>5, <1>6, <1>7 DEF Next

\* After a local close no message is handed to anyone, and after the claim
\* none to a receive (receive, poll_produce).
THEOREM SignalsAlwaysWin == Spec => SignalsWin
<1> DEFINE Wins == /\ localClosed => delivered' = delivered
                   /\ claimed => \A r \in Receives :
                                   recvSt'[r] = "message" => recvSt[r] = "message"
<1>1. ASSUME Typed, [Next]_vars PROVE Wins
  <2>1. ASSUME NEW r \in Receives, ReceiveTakes(r) PROVE Wins
    BY <2>1 DEF ReceiveTakes, NotSignalled
  <2>2. CASE StreamTakes BY <2>2 DEF StreamTakes
  <2> QED BY <1>1, <2>1, <2>2, Deliveries
<1> QED BY <1>1, TypesHold, PTL DEF Spec, SignalsWin
-----------------------------------------------------------------------------
(***************************************************************************)
(* What the liveness properties rest on.                                   *)
(***************************************************************************)

\* A pump that has begun to close, or may not write any more, runs against the
\* deadline; until then a state that has moved on owes it to a close to come.
Timed ==
  /\ wireClosing \/ writeDead => deadline # "none"
  /\ state # "open" /\ pump \notin Finishing => deadline # "none" \/ CloseComing
  /\ pump = "write" => (writing.bound = "local" <=> deadline = "none")

\* A step of the guest: it moves the state only with a close, and a close stays
\* until the pump takes it.
LEMMA GuestTimed ==
  ASSUME Timed, UNCHANGED pumpVars, CloseComing' \/ (UNCHANGED state /\ ~CloseComing)
  PROVE  Timed'
BY DEF Timed, pumpVars, pumpRest

LEMMA ComingStays ==
  ASSUME Typed, CloseComing, UNCHANGED cmdq, op' = op \/ op = "idle"
  PROVE  CloseComing'
BY DEF CloseComing

LEMMA ComingBehind ==
  ASSUME Typed, NEW f \in Frames, cmdq' = Append(cmdq, f)
  PROVE  /\ f.kind = "close" => CloseComing'
         /\ CloseComing /\ op' = op => CloseComing'
<1>1. cmdq \in Seq(Frames) BY Queues
<1>2. /\ DOMAIN cmdq \subseteq DOMAIN cmdq' /\ Len(cmdq) + 1 \in DOMAIN cmdq'
      /\ \A k \in DOMAIN cmdq : cmdq'[k] = cmdq[k]
      /\ cmdq'[Len(cmdq) + 1] = f
  BY <1>1, AppendAt
<1> QED BY <1>2 DEF CloseComing

LEMMA ComingPastSend ==
  ASSUME Typed, CloseComing, cmdq # <<>>, Head(cmdq).kind = "send", cmdq' = Tail(cmdq),
         UNCHANGED op
  PROVE  CloseComing'
<1>1. cmdq \in Seq(Frames) BY Queues
<1>2. CASE op \in {"closeFire", "closeSend"} BY <1>2 DEF CloseComing
<1>3. ASSUME NEW k \in DOMAIN cmdq, cmdq[k].kind = "close" PROVE CloseComing'
  <2>1. k # 1 BY <1>1, <1>3, TailAt
  <2>2. k - 1 \in DOMAIN cmdq' /\ cmdq'[k - 1] = cmdq[k] BY <1>1, <2>1, TailAt
  <2> QED BY <1>3, <2>2 DEF CloseComing
<1> QED BY <1>2, <1>3 DEF CloseComing

\* The steps of the guest.
LEMMA GuestStepTimed ==
  ASSUME Typed, Kept, Timed,
         \/ GuestCalls \/ GuestStep \/ StreamPoll
         \/ \E r \in Receives : ReceivePoll(r)
  PROVE  Timed'
<1> USE DEF shared, resource, channels, budget, guestVars, peerVars, seen
<1>1. ASSUME NEW s \in Sends, Send(s) PROVE Timed'
  <2>1. UNCHANGED <<state, op, pumpVars>> BY <1>1 DEF Send
  <2>2. UNCHANGED cmdq \/ cmdq' = Append(cmdq, DataFrame(s)) BY <1>1 DEF Send
  <2>3. DataFrame(s) \in Frames BY FrameTypes
  <2>4. CloseComing => CloseComing' BY <2>1, <2>2, <2>3, ComingStays, ComingBehind
  <2> QED BY <2>1, <2>4, GuestTimed
<1>2. ASSUME UNCHANGED pumpVars, op' = "closeFire" PROVE Timed'
  BY <1>2, GuestTimed DEF CloseComing
<1>3. ASSUME UNCHANGED <<state, cmdq, pumpVars>>, op' = op \/ op = "idle" PROVE Timed'
  BY <1>3, ComingStays, GuestTimed
<1>4. ASSUME NEW req \in CloseRequests, Close(req) PROVE Timed'
  BY <1>2, <1>4 DEF Close
<1>5. ASSUME NEW r \in Receives, Receive(r) \/ ReceivePoll(r) PROVE Timed'
  BY <1>3, <1>5 DEF Receive, ReceivePoll, ReceiveSignalled, ReceiveLocks, ReceiveTakes,
                    ReceiveEnds
<1>6. CASE Drop BY <1>2, <1>3, <1>6 DEF Drop
<1>7. CASE ReceiveViaStream \/ StreamRead \/ StreamDropped \/ WaitClosed
  BY <1>3, <1>7 DEF ReceiveViaStream, StreamRead, StreamDropped, WaitClosed
<1>8. CASE StreamPoll
  BY <1>3, <1>8 DEF StreamPoll, StreamLocks, StreamTakes, StreamEnds
<1>9. CASE CloseFires
  <2>1. CloseComing' /\ UNCHANGED pumpVars BY <1>9 DEF CloseFires, CloseComing
  <2> QED BY <2>1, GuestTimed
<1>10. CASE ReaderReleases
  <2>1. /\ UNCHANGED <<state, cmdq, pumpVars>>
        /\ op = "release"
    BY <1>10 DEF ReaderReleases
  <2>2. CloseComing => CloseComing' BY <2>1 DEF CloseComing
  <2> QED BY <2>1, <2>2, GuestTimed
<1>11. CASE CloseEnqueues
  <2>1. UNCHANGED <<state, pumpVars>> BY <1>11 DEF CloseEnqueues
  <2>2. CASE cmdOpen
    <3>1. cmdq' = Append(cmdq, CloseFrame(closeCode)) BY <1>11, <2>2 DEF CloseEnqueues
    <3>2. closeCode \in CloseCode BY DEF Typed, GuestTyped
    <3>3. CloseFrame(closeCode) \in Frames /\ CloseFrame(closeCode).kind = "close"
      BY <3>2, FrameTypes, FrameKinds
    <3> QED BY <2>1, <3>1, <3>3, ComingBehind, GuestTimed
  <2>3. CASE ~cmdOpen
    <3>1. pump \in Finishing BY <2>3 DEF Kept, LifeKept, Finishing
    <3>2. pump' = pump BY <2>1 DEF pumpVars
    <3> QED BY <2>1, <3>1, <3>2 DEF Timed, pumpVars, pumpRest, Finishing
  <2> QED BY <2>2, <2>3
<1> QED BY <1>1, <1>4, <1>5, <1>6, <1>7, <1>8, <1>9, <1>10, <1>11 DEF GuestCalls, GuestStep

\* The pump goes on, perhaps with a write, under a deadline that is not taken back.
LEMMA PumpTimed ==
  ASSUME Timed,
         deadline # "none" => deadline' # "none",
         wireClosing' \/ writeDead' => deadline' # "none",
         state' # "open" /\ pump' \notin Finishing =>
           \/ deadline' # "none" \/ CloseComing'
           \/ state # "open" /\ pump \notin Finishing /\ (CloseComing => CloseComing'),
         pump' = "write" => (writing'.bound = "local" <=> deadline' = "none")
  PROVE  Timed'
<1> USE DEF Finishing
<1>1. ASSUME state # "open", pump \notin Finishing, CloseComing => CloseComing'
      PROVE  deadline' # "none" \/ CloseComing'
  BY <1>1 DEF Timed
<1> QED BY <1>1 DEF Timed

\* A write starts bounded by the deadline that runs, or by the local close.
LEMMA StartTimed ==
  ASSUME Typed, NEW frame, NEW d, NEW then \in {"select", "publish"}, StartWrite(frame, d, then)
  PROVE  pump' = "write" => (writing'.bound = "local" <=> d = "none")
BY DEF StartWrite

LEMMA ArmedRuns == \A d : Armed(d) # "none"
BY DEF Armed

\* A pump that begins to close arms the deadline.
LEMMA BeginTimed ==
  ASSUME Typed, Timed, NEW code, NEW then \in {"select", "publish"}, BeginClose(code, then),
         UNCHANGED writeDead
  PROVE  Timed'
<1>1. CASE wireClosing
  <2>1. deadline # "none" /\ pump' = then /\ UNCHANGED <<deadline, wireClosing, writing>>
    BY <1>1 DEF Timed, BeginClose
  <2> QED BY <2>1, PumpTimed
<1>2. CASE ~wireClosing
  <2>1. deadline' = Armed(deadline) /\ StartWrite(CloseFrame(code), deadline', then)
    BY <1>2 DEF BeginClose
  <2>2. pump' = "write" => (writing'.bound = "local" <=> deadline' = "none")
    BY <2>1, StartTimed
  <2> QED BY <2>1, <2>2, ArmedRuns, PumpTimed
<1> QED BY <1>1, <1>2

\* The steps of the pump, and everyone else's.
LEMMA PumpStepTimed ==
  ASSUME Typed, Kept, Timed, PumpStep \/ TransportStep \/ PeerStep \/ DeadlineExpires
  PROVE  Timed'
<1> USE DEF shared, resource, channels, budget, guestVars, pumpVars, pumpRest, peerVars, seen
<1>0. writing.then \in {"select", "publish"} /\ deadline \in {"none", "armed", "expired"}
  BY DEF Typed, PumpTyped
<1>1. CASE PumpSend
  <2>1. /\ pump = "select" /\ UNCHANGED <<state, op, wireClosing, writeDead, deadline>>
        /\ cmdq # <<>> /\ Head(cmdq).kind = "send" /\ cmdq' = Tail(cmdq)
    BY <1>1 DEF PumpSend
  <2>2. CloseComing => CloseComing' BY <2>1, ComingPastSend
  <2>3. pump' = "write" => (writing'.bound = "local" <=> deadline' = "none")
    <3>1. CASE Refused BY <1>1, <3>1 DEF PumpSend
    <3>2. CASE ~Refused
      <4>1. StartWrite(Head(cmdq), deadline, "select") BY <1>1, <3>2 DEF PumpSend
      <4> QED BY <2>1, <4>1, StartTimed
    <3> QED BY <3>1, <3>2
  <2>4. pump \notin Finishing /\ (wireClosing \/ writeDead => deadline # "none")
    BY <2>1 DEF Finishing, Timed
  <2> QED BY <2>1, <2>2, <2>3, <2>4, PumpTimed
<1>2. CASE PumpClose
  BY <1>2, BeginTimed DEF PumpClose
<1>3. CASE PumpCmdsDone
  BY <1>3, BeginTimed DEF PumpCmdsDone
<1>4. CASE PumpCapacity
  BY <1>4, BeginTimed DEF PumpCapacity
<1>5. ASSUME UNCHANGED <<state, op, cmdq, wireClosing, writeDead, deadline>>,
             pump \notin Finishing,
             pump' = "write" => (writing'.bound = "local" <=> deadline' = "none")
      PROVE  Timed'
  BY <1>5, PumpTimed DEF CloseComing, Timed
<1>6. CASE PumpData
  <2>1. CASE ~Discards /\ ~Fits(Head(wire).arg) /\ Overflow
    BY <1>6, <2>1, BeginTimed DEF PumpData, Overflow
  <2>2. CASE ~(~Discards /\ ~Fits(Head(wire).arg) /\ Overflow)
    <3>1. /\ UNCHANGED <<state, op, cmdq, wireClosing, writeDead, deadline>>
          /\ pump = "select" /\ pump' # "write"
      BY <1>6, <2>2 DEF PumpData, Reads
    <3> QED BY <1>5, <3>1 DEF Finishing
  <2> QED BY <2>1, <2>2
<1>7. CASE PumpReserves
  BY <1>5, <1>7 DEF PumpReserves, Finishing
<1>8. CASE PumpPeerClose
  <2>1. deadline' = Armed(deadline) BY <1>8 DEF PumpPeerClose
  <2>2. pump' = "write" => (writing'.bound = "local" <=> deadline' = "none")
    <3>1. CASE wireClosing BY <1>8, <3>1 DEF PumpPeerClose, Reads
    <3>2. CASE ~wireClosing
      <4>1. StartWrite(CloseReply, deadline', "select") BY <1>8, <3>2 DEF PumpPeerClose
      <4> QED BY <4>1, StartTimed
    <3> QED BY <3>1, <3>2
  <2> QED BY <2>1, <2>2, ArmedRuns, PumpTimed
<1>9. CASE PumpPing
  <2>1. StartWrite(Pong, deadline, "select") BY <1>9 DEF PumpPing
  <2>2. pump' = "write" => (writing'.bound = "local" <=> deadline = "none")
    BY <2>1, StartTimed
  <2>3. /\ pump = "select" /\ UNCHANGED <<state, op, cmdq, wireClosing, writeDead, deadline>>
    BY <1>9 DEF PumpPing, Reads
  <2>4. /\ CloseComing => CloseComing'
        /\ pump \notin Finishing /\ (wireClosing \/ writeDead => deadline # "none")
    BY <2>3 DEF CloseComing, Finishing, Timed
  <2> QED BY <2>2, <2>3, <2>4, PumpTimed
<1>10. CASE PumpEnd \/ PumpDeadline
  <2>1. pump' = "publish" /\ UNCHANGED <<wireClosing, writeDead, deadline>>
    BY <1>10 DEF PumpEnd, PumpDeadline
  <2> QED BY <2>1, PumpTimed DEF Timed, Finishing
<1>11. CASE WriteAccepted
  <2>1. /\ pump = "write" /\ pump' = writing.then
        /\ UNCHANGED <<state, op, cmdq, wireClosing, writeDead, deadline>>
    BY <1>11 DEF WriteAccepted, EndWrite
  <2> QED BY <1>0, <1>5, <2>1 DEF Finishing
<1>12. CASE WriteFails
  <2>1. deadline' = Armed(deadline) /\ pump' = writing.then
    BY <1>12 DEF WriteFails, EndWrite
  <2> QED BY <1>0, <2>1, ArmedRuns, PumpTimed
<1>13. CASE WriteSeesLocalClose
  <2>1. /\ deadline' = Armed(deadline)
        /\ writing' = [writing EXCEPT !.bound = "deadline"]
    BY <1>13 DEF WriteSeesLocalClose
  <2>2. writing'.bound = "deadline" BY <2>1 DEF Typed, PumpTyped
  <2> QED BY <2>1, <2>2, ArmedRuns, PumpTimed
<1>14. CASE WriteTimesOut
  <2>1. deadline' = "expired" /\ pump' = writing.then
    BY <1>14 DEF WriteTimesOut, EndWrite
  <2> QED BY <1>0, <2>1, PumpTimed
<1>15. CASE PumpPublishes \/ PumpEndsQueue \/ PumpClosesCmds \/ PumpDrains
            \/ PumpLatches \/ PumpFires
  <2>1. pump' \in Finishing /\ UNCHANGED <<wireClosing, writeDead, deadline>>
    BY <1>15 DEF PumpPublishes, PumpEndsQueue, PumpClosesCmds, PumpDrains, PumpLatches,
                 PumpFires, Finishing
  <2> QED BY <2>1, PumpTimed DEF Timed, Finishing
<1>16. CASE PeerStep
  <2>1. UNCHANGED <<state, op, cmdq, pumpVars>>
    BY <1>16 DEF PeerStep, PeerData, PeerPing, PeerBig, PeerClose, TransportEnds, PeerOnly
  <2> QED BY <2>1 DEF Timed, CloseComing
<1>17. CASE DeadlineExpires
  <2>1. /\ UNCHANGED <<state, op, cmdq, pump, writing, wireClosing, writeDead>>
        /\ deadline = "armed" /\ deadline' = "expired"
    BY <1>17 DEF DeadlineExpires
  <2> QED BY <2>1 DEF Timed, CloseComing
<1> QED
  BY <1>1, <1>2, <1>3, <1>4, <1>6, <1>7, <1>8, <1>9, <1>10, <1>11, <1>12, <1>13, <1>14, <1>15,
     <1>16, <1>17
     DEF PumpStep, TransportStep

\* At each moment a closing connection, its write and every unanswered send have what
\* ends the wait: the deadline, the local close, the pump that has them
\* (close, begin_close, bounded_write, the end of Pump::run).
THEOREM ClosingIsAlwaysTimed == Spec => []ClosingIsTimed
<1>1. Init => Timed
  BY DEF Init, Timed
<1>2. Typed /\ Kept /\ Timed /\ [Next]_vars => Timed'
  <2> SUFFICES ASSUME Typed, Kept, Timed, [Next]_vars PROVE Timed'
    OBVIOUS
  <2>1. CASE UNCHANGED vars
    BY <2>1 DEF vars, shared, channels, guestVars, pumpVars, pumpRest, Timed, CloseComing
  <2> QED BY <2>1, GuestStepTimed, PumpStepTimed DEF Next
<1>3. Typed /\ Kept /\ Timed => ClosingIsTimed
  <2> SUFFICES ASSUME Typed, Kept, Timed PROVE ClosingIsTimed
    OBVIOUS
  <2>1. ASSUME NEW s \in Sends, sendSt[s] = "queued", ~Writes(DataFrame(s))
        PROVE  In(DataFrame(s), cmdq) /\ pump \notin {"latch", "fire", "done"}
    <3>1. In(DataFrame(s), cmdq) BY <2>1 DEF Kept, SendsKept
    <3>2. cmdq # <<>> BY <3>1 DEF In
    <3> QED BY <3>1, <3>2 DEF Kept, LifeKept
  <2>2. writeDead /\ pump \notin Finishing => deadline # "none" BY DEF Timed
  <2> QED BY <2>1, <2>2 DEF Timed, ClosingIsTimed
<1> QED BY <1>1, <1>2, <1>3, Inductive, PTL DEF Spec

\* There is no stream before the claim, and so none whose read could hold the lock.
ReadersKept == LockIsAwaited /\ (streamSt = "unclaimed" \/ claimed)

LEMMA LockNext ==
  ASSUME Typed, ReadersKept, [Next]_vars
  PROVE  ReadersKept'
<1> USE DEF ReadersKept, LockIsAwaited, shared, resource, channels, budget, guestVars,
            pumpVars, pumpRest, peerVars, seen
<1>0. /\ recvSt \in [Receives -> {"unused", "pending", "message", "viaStream",
                                  "overflow", "closed"}]
      /\ NoCall \notin Receives /\ "stream" \notin Receives /\ NoCall # "stream"
  BY CallsAssumption DEF Typed, GuestTyped
<1>1. ASSUME UNCHANGED <<holder, recvSt, streamSt, claimed>> PROVE ReadersKept'
  BY <1>1
<1>2. ASSUME NEW r \in Receives, Receive(r) PROVE ReadersKept'
  BY <1>0, <1>2 DEF Receive
<1>3. ASSUME NEW r \in Receives, ReceivePoll(r) PROVE ReadersKept'
  <2>1. CASE ReceiveSignalled(r) BY <1>0, <2>1 DEF ReceiveSignalled, Released
  <2>2. CASE ReceiveLocks(r) BY <1>0, <2>2 DEF ReceiveLocks
  <2>3. CASE ReceiveTakes(r) BY <1>0, <2>3 DEF ReceiveTakes, TakeHead
  <2>4. CASE ReceiveEnds(r) BY <1>0, <2>4 DEF ReceiveEnds
  <2> QED BY <1>3, <2>1, <2>2, <2>3, <2>4 DEF ReceivePoll
<1>4. CASE StreamPoll
  BY <1>0, <1>4 DEF StreamPoll, StreamLocks, StreamTakes, StreamEnds, TakeHead, Released
<1>5. CASE GuestCalls
  <2>1. ASSUME NEW s \in Sends, Send(s) PROVE ReadersKept' BY <1>1, <2>1 DEF Send
  <2>2. ASSUME NEW req \in CloseRequests, Close(req) PROVE ReadersKept'
    BY <1>1, <2>2 DEF Close
  <2>3. CASE Drop \/ WaitClosed BY <1>1, <2>3 DEF Drop, WaitClosed
  <2>4. CASE ReceiveViaStream \/ StreamRead \/ StreamDropped
    BY <1>0, <2>4 DEF ReceiveViaStream, StreamRead, StreamDropped, Released,
                      Typed, GuestTyped
  <2> QED BY <1>2, <1>5, <2>1, <2>2, <2>3, <2>4 DEF GuestCalls
<1>6. CASE GuestStep
  BY <1>1, <1>6 DEF GuestStep, CloseFires, CloseEnqueues, ReaderReleases
<1>7. CASE PumpStep \/ TransportStep \/ PeerStep \/ DeadlineExpires
  BY <1>1, <1>7
     DEF PumpStep, PumpSend, PumpClose, PumpCmdsDone, PumpData, PumpReserves, PumpPeerClose,
         PumpPing, PumpCapacity, PumpEnd, PumpDeadline, WriteSeesLocalClose, WriteTimesOut,
         PumpPublishes, PumpEndsQueue, PumpClosesCmds, PumpDrains, PumpLatches, PumpFires,
         TransportStep, WriteAccepted, WriteFails, PeerStep, PeerData, PeerPing, PeerBig,
         PeerClose, TransportEnds, PeerOnly, DeadlineExpires
<1>8. CASE UNCHANGED vars BY <1>1, <1>8 DEF vars
<1> QED BY <1>3, <1>4, <1>5, <1>6, <1>7, <1>8 DEF Next

\* No reader waits behind one that is gone: the lock around the inbound queue is free or
\* held by a receive, or a read of the stream, that is still pending (receive,
\* poll_produce, StreamDropped).
THEOREM LockIsAlwaysAwaited == Spec => []LockIsAwaited
<1>1. Init => ReadersKept
  BY CallsAssumption DEF Init, ReadersKept, LockIsAwaited
<1>2. Typed /\ ReadersKept /\ [Next]_vars => ReadersKept' BY LockNext
<1>3. ReadersKept => LockIsAwaited BY DEF ReadersKept
<1> QED BY <1>1, <1>2, <1>3, TypesHold, PTL DEF Spec
-----------------------------------------------------------------------------
(***************************************************************************)
(* The contract.                                                           *)
(***************************************************************************)
\* What `wait-closed` may resolve with.
Reports == {NoFrame} \cup {CloseInfoFrom(code) : code \in PeerCodes}

\* A close() that has begun moved the state on before it fires the signal.
Started == op = "closeFire" => state # "open"

\* The outcome is the code of a frame that the peer sent.
Reported ==
  /\ peerFrame \in Reports
  /\ \A k \in DOMAIN wire : wire[k].kind = "close" => wire[k].arg \in PeerCodes

\* A frame in toPeer is a message, a close frame or the reply to one.
NoPongs == \A k \in DOMAIN toPeer : toPeer[k].kind # "pong"

\* The contract's view of a frame: a message, or the end of them.
Shown(frame) == IF frame.kind = "send" THEN "data" ELSE "close"

Rest == UNCHANGED <<localClosed, inq, delivered, inOpen, toPeer, closeInfo>>
Same == Rest /\ UNCHANGED state
-----------------------------------------------------------------------------
\* Only Close and Drop begin a close, and they move the state.
LEMMA CloseBegins ==
  ASSUME Typed, [Next]_vars, op' = "closeFire"
  PROVE  op = "closeFire" \/ Advance("closing")
<1> USE DEF shared, resource, channels, budget, guestVars, pumpVars, pumpRest, peerVars, seen
<1> DEFINE Goal == op = "closeFire" \/ Advance("closing")
<1>1. CASE GuestCalls
  <2>1. ASSUME NEW s \in Sends, Send(s) PROVE Goal BY <2>1 DEF Send
  <2>2. ASSUME NEW req \in CloseRequests, Close(req) PROVE Goal BY <2>2 DEF Close
  <2>3. ASSUME NEW r \in Receives, Receive(r) PROVE Goal BY <2>3 DEF Receive
  <2>4. CASE Drop BY <2>4 DEF Drop
  <2>5. CASE ReceiveViaStream \/ StreamRead \/ StreamDropped \/ WaitClosed
    BY <2>5 DEF ReceiveViaStream, StreamRead, StreamDropped, WaitClosed
  <2> QED BY <1>1, <2>1, <2>2, <2>3, <2>4, <2>5 DEF GuestCalls
<1>2. CASE GuestStep
  BY <1>2 DEF GuestStep, CloseFires, CloseEnqueues, ReaderReleases
<1>3. ASSUME NEW r \in Receives, ReceivePoll(r) PROVE Goal
  BY <1>3 DEF ReceivePoll, ReceiveSignalled, ReceiveLocks, ReceiveTakes, ReceiveEnds, TakeHead
<1>4. CASE StreamPoll
  BY <1>4 DEF StreamPoll, StreamLocks, StreamTakes, StreamEnds, TakeHead
<1>5. CASE PumpStep
  <2>1. CASE PumpSend \/ PumpReserves \/ PumpPing \/ PumpEnd \/ PumpDeadline
    BY <2>1 DEF PumpSend, PumpReserves, PumpPing, PumpEnd, PumpDeadline
  <2>2. CASE PumpClose \/ PumpCmdsDone BY <2>2 DEF PumpClose, PumpCmdsDone
  <2>3. CASE PumpData \/ PumpPeerClose \/ PumpCapacity
    BY <2>3 DEF PumpData, PumpPeerClose, PumpCapacity
  <2>4. CASE WriteSeesLocalClose \/ WriteTimesOut
    BY <2>4 DEF WriteSeesLocalClose, WriteTimesOut
  <2>5. CASE PumpPublishes \/ PumpEndsQueue \/ PumpClosesCmds \/ PumpDrains
    BY <2>5 DEF PumpPublishes, PumpEndsQueue, PumpClosesCmds, PumpDrains
  <2>6. CASE PumpLatches \/ PumpFires BY <2>6 DEF PumpLatches, PumpFires
  <2> QED BY <1>5, <2>1, <2>2, <2>3, <2>4, <2>5, <2>6 DEF PumpStep
<1>6. CASE TransportStep BY <1>6 DEF TransportStep, WriteAccepted, WriteFails
<1>7. CASE PeerStep \/ DeadlineExpires
  BY <1>7 DEF PeerStep, PeerData, PeerPing, PeerBig, PeerClose, TransportEnds,
              PeerOnly, DeadlineExpires
<1>8. CASE UNCHANGED vars BY <1>8 DEF vars
<1> QED BY <1>1, <1>2, <1>3, <1>4, <1>5, <1>6, <1>7, <1>8 DEF Next

LEMMA StartedKept == Typed /\ Typed' /\ Started /\ [Next]_vars => Started'
<1> SUFFICES ASSUME Typed, Typed', Started, [Next]_vars, op' = "closeFire"
             PROVE  state' # "open"
  BY DEF Started
<1>1. state \in {"open", "closing", "closed"} /\ state' \in {"open", "closing", "closed"}
  BY DEF Typed, ChannelsTyped
<1>2. Rank(state) =< Rank(state') BY StateMoves, AdvanceForward
<1>3. CASE op = "closeFire" BY <1>1, <1>2, <1>3 DEF Started, Rank
<1>4. CASE Advance("closing") BY <1>1, <1>4 DEF Advance, Rank
<1> QED BY <1>3, <1>4, CloseBegins

\* The peer's frames in flight: read from the front, added at the end, or cut
\* off by the end of the transport.
LEMMA ReportedKept == Typed /\ Reported /\ [Next]_vars => Reported'
<1> SUFFICES ASSUME Typed, Reported, [Next]_vars PROVE Reported'
  OBVIOUS
<1> USE DEF shared, resource, channels, budget, guestVars, pumpVars, pumpRest, peerVars, seen
<1>0. wire \in Seq(WireFrames) BY DEF Typed, PeerTyped
<1>1. ASSUME UNCHANGED <<wire, peerFrame>> PROVE Reported' BY <1>1 DEF Reported
<1>2. ASSUME NEW kind, Reads(kind), UNCHANGED peerFrame PROVE Reported'
  <2>1. wire' = Tail(wire) /\ wire # <<>> BY <1>2 DEF Reads
  <2>2. \A k \in DOMAIN wire' : k + 1 \in DOMAIN wire /\ wire'[k] = wire[k + 1]
    BY <1>0, <2>1
  <2> QED BY <1>2, <2>2 DEF Reported
<1>3. ASSUME NEW frame \in WireFrames, wire' = Append(wire, frame), UNCHANGED peerFrame,
             frame.kind = "close" => frame.arg \in PeerCodes
      PROVE  Reported'
  <2>1. \A k \in DOMAIN wire' : \/ k \in DOMAIN wire /\ wire'[k] = wire[k]
                               \/ wire'[k] = frame
    BY <1>0, <1>3
  <2> QED BY <1>3, <2>1 DEF Reported
<1>4. CASE GuestCalls
  <2>1. ASSUME NEW s \in Sends, Send(s) PROVE Reported' BY <1>1, <2>1 DEF Send
  <2>2. ASSUME NEW req \in CloseRequests, Close(req) PROVE Reported'
    BY <1>1, <2>2 DEF Close
  <2>3. ASSUME NEW r \in Receives, Receive(r) PROVE Reported' BY <1>1, <2>3 DEF Receive
  <2>4. CASE Drop BY <1>1, <2>4 DEF Drop
  <2>5. CASE ReceiveViaStream \/ StreamRead \/ StreamDropped \/ WaitClosed
    BY <1>1, <2>5 DEF ReceiveViaStream, StreamRead, StreamDropped, WaitClosed
  <2> QED BY <1>4, <2>1, <2>2, <2>3, <2>4, <2>5 DEF GuestCalls
<1>5. CASE GuestStep
  BY <1>1, <1>5 DEF GuestStep, CloseFires, CloseEnqueues, ReaderReleases
<1>6. ASSUME NEW r \in Receives, ReceivePoll(r) PROVE Reported'
  BY <1>1, <1>6 DEF ReceivePoll, ReceiveSignalled, ReceiveLocks, ReceiveTakes, ReceiveEnds
<1>7. CASE StreamPoll BY <1>1, <1>7 DEF StreamPoll, StreamLocks, StreamTakes, StreamEnds
<1>8. CASE PumpStep
  <2>1. CASE PumpSend \/ PumpReserves \/ PumpDeadline
    BY <1>1, <2>1 DEF PumpSend, PumpReserves, PumpDeadline
  <2>2. CASE PumpClose \/ PumpCmdsDone BY <1>1, <2>2 DEF PumpClose, PumpCmdsDone
  <2>3. CASE PumpData BY <1>2, <2>3 DEF PumpData
  <2>4. CASE PumpPing BY <1>2, <2>4 DEF PumpPing
  <2>5. CASE PumpCapacity BY <1>2, <2>5 DEF PumpCapacity
  <2>6. CASE PumpEnd BY <1>2, <2>6 DEF PumpEnd
  <2>7. CASE PumpPeerClose
    <3>1. Reads("close") /\ wire' = Tail(wire) /\ wire # <<>> /\ wire[1].kind = "close"
      BY <1>0, <2>7 DEF PumpPeerClose, Reads
    <3>2. 1 \in DOMAIN wire /\ Head(wire) = wire[1] BY <1>0, <3>1
    <3>3. peerFrame' \in Reports
      BY <2>7, <3>1, <3>2 DEF PumpPeerClose, Reported, Reports
    <3>4. \A k \in DOMAIN wire' : k + 1 \in DOMAIN wire /\ wire'[k] = wire[k + 1]
      BY <1>0, <3>1
    <3> QED BY <3>3, <3>4 DEF Reported
  <2>8. CASE WriteSeesLocalClose \/ WriteTimesOut
    BY <1>1, <2>8 DEF WriteSeesLocalClose, WriteTimesOut
  <2>9. CASE PumpPublishes \/ PumpEndsQueue \/ PumpClosesCmds \/ PumpDrains
    BY <1>1, <2>9 DEF PumpPublishes, PumpEndsQueue, PumpClosesCmds, PumpDrains
  <2>10. CASE PumpLatches \/ PumpFires BY <1>1, <2>10 DEF PumpLatches, PumpFires
  <2> QED
    BY <1>8, <2>1, <2>2, <2>3, <2>4, <2>5, <2>6, <2>7, <2>8, <2>9, <2>10 DEF PumpStep
<1>9. CASE TransportStep BY <1>1, <1>9 DEF TransportStep, WriteAccepted, WriteFails
<1>10. CASE DeadlineExpires BY <1>1, <1>10 DEF DeadlineExpires
<1>11. CASE PeerStep
  <2> USE DEF PeerOnly, PeerPuts
  <2>1. CASE PeerData
    <3>1. peerSent + 1 \in MsgIds
      BY <2>1, SizesAssumption DEF PeerData, MsgIds, Typed, PeerTyped
    <3> QED BY <1>3, <2>1, <3>1 DEF PeerData, WireFrames
  <2>2. CASE PeerPing BY <1>3, <2>2 DEF PeerPing, WireFrames
  <2>3. CASE PeerBig BY <1>3, <2>3 DEF PeerBig, WireFrames
  <2>4. ASSUME NEW code \in PeerCodes, PeerClose(code) PROVE Reported'
    <3>1. code \in CloseCode /\ code \in Int
      BY CodesAssumption, CodeBound DEF CloseCode, NoCode
    <3> QED BY <1>3, <2>4, <3>1 DEF PeerClose, WireFrames
  <2>5. CASE TransportEnds
    <3>1. PICK n \in 0 .. Len(wire) :
            wire' = Append(SubSeq(wire, 1, n), [kind |-> "eof", arg |-> 0])
      BY <2>5 DEF TransportEnds
    <3>2. \A k \in DOMAIN wire' : \/ k \in DOMAIN wire /\ wire'[k] = wire[k]
                                 \/ wire'[k].kind = "eof"
      <4>1. /\ SubSeq(wire, 1, n) \in Seq(WireFrames) /\ Len(SubSeq(wire, 1, n)) = n
            /\ \A k \in 1 .. n : k \in DOMAIN wire /\ SubSeq(wire, 1, n)[k] = wire[k]
        BY <1>0
      <4> QED BY <3>1, <4>1
    <3> QED BY <2>5, <3>2 DEF Reported, TransportEnds
  <2> QED BY <1>11, <2>1, <2>2, <2>3, <2>4, <2>5 DEF PeerStep
<1>12. CASE UNCHANGED vars BY <1>1, <1>12 DEF vars
<1> QED
  BY <1>4, <1>5, <1>6, <1>7, <1>8, <1>9, <1>10, <1>11, <1>12 DEF Next
-----------------------------------------------------------------------------
\* The contract's view of what was handed to the transport.
Out == [k \in DOMAIN toPeer |-> Shown(toPeer[k])]

\* A step that leaves the contract's view alone.
LEMMA SameStutters == Same => UNCHANGED Contract!cvars
BY DEF Same, Rest, Contract!cvars

\* A step that starts to close, and does no more that shows.
LEMMA StartsClosing ==
  ASSUME Typed, Rest, UNCHANGED state \/ Advance("closing")
  PROVE  [Contract!CNext]_(Contract!cvars)
<1>1. state \in {"open", "closing", "closed"} BY DEF Typed, ChannelsTyped
<1>2. CASE Same BY <1>2, SameStutters
<1>3. CASE state = "open" /\ state' = "closing"
  BY <1>3 DEF Rest, Contract!CNext, Contract!StartClosing
<1> QED BY <1>1, <1>2, <1>3 DEF Advance, Rank, Same

\* The head of the queue goes to a reader (ReceiveTakes, StreamTakes).
LEMMA TakeRefines ==
  ASSUME TakeHead, ~localClosed, UNCHANGED <<state, localClosed, inOpen, toPeer, closeInfo>>
  PROVE  Contract!CNext
BY DEF TakeHead, Contract!CNext, Contract!Take

\* A pong is not handed over: the transport's frames are messages and closes.
LEMMA NoPongsKept == Typed /\ NoPongs /\ [Next]_vars => NoPongs'
<1> SUFFICES ASSUME Typed, NoPongs, [Next]_vars PROVE NoPongs'
  OBVIOUS
<1> USE DEF shared, resource, channels, budget, guestVars, pumpVars, pumpRest, peerVars, seen
<1>1. ASSUME UNCHANGED toPeer PROVE NoPongs' BY <1>1 DEF NoPongs
<1>2. ASSUME HandOver PROVE NoPongs'
  <2>1. toPeer \in Seq(Frames) /\ writing.frame \in Frames
    BY DEF Typed, SeenTyped, PumpTyped
  <2>2. CASE writing.frame # Pong
    <3>1. writing.frame.kind # "pong" BY <2>1, <2>2 DEF Frames, Pong
    <3>2. \A k \in DOMAIN toPeer' : \/ k \in DOMAIN toPeer /\ toPeer'[k] = toPeer[k]
                                   \/ toPeer'[k] = writing.frame
      BY <1>2, <2>1, <2>2 DEF HandOver
    <3> QED BY <3>1, <3>2 DEF NoPongs
  <2> QED BY <1>1, <1>2, <2>2 DEF HandOver
<1>3. CASE GuestCalls
  <2>1. ASSUME NEW s \in Sends, Send(s) PROVE NoPongs' BY <1>1, <2>1 DEF Send
  <2>2. ASSUME NEW req \in CloseRequests, Close(req) PROVE NoPongs'
    BY <1>1, <2>2 DEF Close
  <2>3. ASSUME NEW r \in Receives, Receive(r) PROVE NoPongs' BY <1>1, <2>3 DEF Receive
  <2>4. CASE Drop BY <1>1, <2>4 DEF Drop
  <2>5. CASE ReceiveViaStream \/ StreamRead \/ StreamDropped \/ WaitClosed
    BY <1>1, <2>5 DEF ReceiveViaStream, StreamRead, StreamDropped, WaitClosed
  <2> QED BY <1>3, <2>1, <2>2, <2>3, <2>4, <2>5 DEF GuestCalls
<1>4. CASE GuestStep
  BY <1>1, <1>4 DEF GuestStep, CloseFires, CloseEnqueues, ReaderReleases
<1>5. ASSUME NEW r \in Receives, ReceivePoll(r) PROVE NoPongs'
  BY <1>1, <1>5 DEF ReceivePoll, ReceiveSignalled, ReceiveLocks, ReceiveTakes, ReceiveEnds
<1>6. CASE StreamPoll BY <1>1, <1>6 DEF StreamPoll, StreamLocks, StreamTakes, StreamEnds
<1>7. CASE PumpStep
  <2>1. CASE PumpSend \/ PumpReserves \/ PumpPing \/ PumpEnd \/ PumpDeadline
    BY <1>1, <2>1 DEF PumpSend, PumpReserves, PumpPing, PumpEnd, PumpDeadline
  <2>2. CASE PumpClose \/ PumpCmdsDone BY <1>1, <2>2 DEF PumpClose, PumpCmdsDone
  <2>3. CASE PumpData \/ PumpPeerClose \/ PumpCapacity
    BY <1>1, <2>3 DEF PumpData, PumpPeerClose, PumpCapacity
  <2>4. CASE WriteSeesLocalClose BY <1>1, <2>4 DEF WriteSeesLocalClose
  <2>5. CASE WriteTimesOut BY <1>1, <1>2, <2>5 DEF WriteTimesOut
  <2>6. CASE PumpPublishes \/ PumpEndsQueue \/ PumpClosesCmds \/ PumpDrains
    BY <1>1, <2>6 DEF PumpPublishes, PumpEndsQueue, PumpClosesCmds, PumpDrains
  <2>7. CASE PumpLatches \/ PumpFires BY <1>1, <2>7 DEF PumpLatches, PumpFires
  <2> QED BY <1>7, <2>1, <2>2, <2>3, <2>4, <2>5, <2>6, <2>7 DEF PumpStep
<1>8. CASE TransportStep BY <1>1, <1>2, <1>8 DEF TransportStep, WriteAccepted, WriteFails
<1>9. CASE PeerStep \/ DeadlineExpires
  BY <1>1, <1>9 DEF PeerStep, PeerData, PeerPing, PeerBig, PeerClose, TransportEnds,
              PeerOnly, DeadlineExpires
<1>10. CASE UNCHANGED vars BY <1>1, <1>10 DEF vars
<1> QED BY <1>3, <1>4, <1>5, <1>6, <1>7, <1>8, <1>9, <1>10 DEF Next

\* A sequence is the function of its elements.
LEMMA SequenceIsFunction ==
  ASSUME NEW S, NEW q \in Seq(S)
  PROVE  q = [k \in DOMAIN q |-> q[k]]
OBVIOUS

\* A frame goes out, and it is not behind a close frame (EndWrite, HandOver).
LEMMA WriteRefines ==
  ASSUME Typed, Kept, NoPongs, pump = "write", HandOver \/ UNCHANGED toPeer,
         UNCHANGED <<state, localClosed, inq, delivered, inOpen, closeInfo>>
  PROVE  [Contract!CNext]_(Contract!cvars)
<1>1. CASE UNCHANGED toPeer BY <1>1, SameStutters DEF Same, Rest
<1>2. CASE HandOver /\ writing.frame # Pong
  <2> DEFINE frame == writing.frame
             last  == <<Shown(frame)>>
  <2>1. toPeer' = Append(toPeer, frame) BY <1>2 DEF HandOver
  <2>2. toPeer \in Seq(Frames) /\ frame \in Frames
    BY DEF Typed, SeenTyped, PumpTyped
  <2>3. \A k \in DOMAIN toPeer : toPeer[k].kind = "send"
    <3>1. \A k \in DOMAIN toPeer : ~Closes(toPeer[k])
      <4>1. CASE Closes(frame) BY <4>1 DEF Kept, CloseKept
      <4>2. CASE frame.kind = "send" BY <4>2 DEF Kept, CloseKept
      <4> QED BY <1>2, <2>2, <4>1, <4>2 DEF Frames, Pong, Closes
    <3> QED BY <2>2, <3>1 DEF Closes, Frames, NoPongs
  <2>4. Out' = Out \o last
    <3>1. DOMAIN Out = 1 .. Len(toPeer) /\ Len(toPeer) \in Nat BY <2>2 DEF Out
    <3>2. Out \in Seq({"data", "close"}) /\ Len(Out) = Len(toPeer)
      <4>1. \A k \in 1 .. Len(toPeer) : Out[k] \in {"data", "close"}
        BY <3>1 DEF Out, Shown
      <4>2. Out \in [1 .. Len(toPeer) -> {"data", "close"}] BY <3>1, <4>1 DEF Out
      <4> QED BY <3>1, <4>2
    <3>3. last \in Seq({"data", "close"}) /\ Len(last) = 1 /\ last[1] = Shown(frame)
      BY DEF Shown
    <3>4. toPeer' \in Seq(Frames) /\ Len(toPeer') = Len(toPeer) + 1
          /\ toPeer'[Len(toPeer) + 1] = frame
          /\ \A k \in 1 .. Len(toPeer) : toPeer'[k] = toPeer[k]
      BY <2>1, <2>2
    <3>5. DOMAIN (Out') = 1 .. Len(toPeer) + 1
          /\ \A k \in 1 .. Len(toPeer) + 1 : (Out')[k] = Shown(toPeer'[k])
      BY <3>4 DEF Out
    <3> HIDE DEF last
    <3>6. /\ Out \o last \in Seq({"data", "close"}) /\ DOMAIN (Out \o last) = 1 .. Len(toPeer) + 1
          /\ \A k \in 1 .. Len(toPeer) : (Out \o last)[k] = Out[k]
          /\ (Out \o last)[Len(toPeer) + 1] = last[1]
      <4>1. last = <<last[1]>> /\ last[1] \in {"data", "close"} BY DEF last, Shown
      <4>2. Out \o last = Append(Out, last[1])
        BY <3>2, <4>1, AppendIsConcat
      <4>3. /\ Append(Out, last[1]) \in Seq({"data", "close"})
            /\ DOMAIN Append(Out, last[1]) = 1 .. Len(Out) + 1
            /\ \A k \in 1 .. Len(Out) : Append(Out, last[1])[k] = Out[k]
            /\ Append(Out, last[1])[Len(Out) + 1] = last[1]
        <5> HIDE DEF Out
        <5> QED BY <3>2, <4>1
      <4> QED BY <3>2, <4>2, <4>3
    <3>7. \A k \in 1 .. Len(toPeer) : Out[k] = Shown(toPeer[k]) BY <3>1 DEF Out
    <3>8. ASSUME NEW k \in 1 .. Len(toPeer) + 1 PROVE (Out')[k] = (Out \o last)[k]
      <4>1. CASE k \in 1 .. Len(toPeer) BY <3>4, <3>5, <3>6, <3>7, <4>1
      <4>2. CASE k = Len(toPeer) + 1 BY <3>3, <3>4, <3>5, <3>6, <4>2
      <4>3. k \in 1 .. Len(toPeer) \/ k = Len(toPeer) + 1
        <5> DEFINE n == Len(toPeer)
        <5>1. n \in Nat /\ k \in 1 .. n + 1 BY <3>1
        <5> HIDE DEF n
        <5>2. k \in 1 .. n \/ k = n + 1 BY <5>1
        <5> QED BY <5>2 DEF n
      <4> QED BY <4>1, <4>2, <4>3
    <3>9. Out' = [k \in DOMAIN (Out') |-> (Out')[k]] BY DEF Out
    <3>10. Out \o last = [k \in DOMAIN (Out \o last) |-> (Out \o last)[k]]
      BY <3>6, SequenceIsFunction
    <3> QED BY <3>5, <3>6, <3>8, <3>9, <3>10
  <2>5. \A k \in DOMAIN Out : Out[k] # "close" BY <2>3 DEF Out, Shown
  <2>6. last \in {<<"data">>, <<"close">>} BY DEF Shown
  <2> HIDE DEF last
  <2>7. CASE last = <<"data">>
    <3>1. Contract!Transmit(<<"data">>)
      BY <2>4, <2>5, <2>7 DEF Contract!Transmit, Out, Shown
    <3> QED BY <3>1 DEF Contract!CNext
  <2>8. CASE last = <<"close">>
    <3>1. Contract!Transmit(<<"close">>)
      BY <2>4, <2>5, <2>8 DEF Contract!Transmit, Out, Shown
    <3> QED BY <3>1 DEF Contract!CNext
  <2> QED BY <2>6, <2>7, <2>8
<1> QED BY <1>1, <1>2 DEF HandOver
-----------------------------------------------------------------------------
\* What the refinement needs beyond Kept.
View == Started /\ Reported /\ NoPongs

\* The guest's calls and the steps of its operations.
LEMMA GuestRefines ==
  ASSUME Typed, Kept, View,
         GuestCalls \/ GuestStep \/ StreamPoll \/ \E r \in Receives : ReceivePoll(r)
  PROVE  [Contract!CNext]_(Contract!cvars)
<1> USE DEF shared, resource, channels, budget, guestVars, pumpVars, pumpRest, peerVars, seen
<1> DEFINE Goal == [Contract!CNext]_(Contract!cvars)
<1>1. ASSUME NEW s \in Sends, Send(s) PROVE Goal
  BY <1>1, SameStutters DEF Send, Same, Rest
<1>2. ASSUME NEW req \in CloseRequests, Close(req) PROVE Goal
  BY <1>2, StartsClosing DEF Close, Rest
<1>3. ASSUME NEW r \in Receives, Receive(r) PROVE Goal
  BY <1>3, SameStutters DEF Receive, Same, Rest
<1>4. CASE Drop BY <1>4, StartsClosing DEF Drop, Rest
<1>5. CASE ReceiveViaStream \/ StreamRead \/ StreamDropped \/ WaitClosed
  BY <1>5, SameStutters
     DEF ReceiveViaStream, StreamRead, StreamDropped, WaitClosed, Same, Rest
<1>6. CASE CloseFires
  <2>1. state # "open" BY <1>6 DEF CloseFires, View, Started
  <2>2. CASE localClosed BY <1>6, <2>2, SameStutters DEF CloseFires, Same, Rest
  <2>3. CASE ~localClosed
    <3>1. Contract!LocalClose BY <1>6, <2>1, <2>3 DEF CloseFires, Contract!LocalClose
    <3> QED BY <3>1 DEF Contract!CNext
  <2> QED BY <2>2, <2>3
<1>7. CASE CloseEnqueues \/ ReaderReleases
  BY <1>7, SameStutters DEF CloseEnqueues, ReaderReleases, Same, Rest
<1>8. ASSUME NEW r \in Receives, ReceivePoll(r) PROVE Goal
  <2>1. CASE ReceiveTakes(r)
    <3>1. TakeHead /\ ~localClosed /\ UNCHANGED <<state, localClosed, inOpen, toPeer, closeInfo>>
      BY <2>1 DEF ReceiveTakes, NotSignalled
    <3> QED BY <3>1, TakeRefines
  <2>2. CASE ReceiveSignalled(r) \/ ReceiveLocks(r) \/ ReceiveEnds(r)
    BY <2>2, SameStutters DEF ReceiveSignalled, ReceiveLocks, ReceiveEnds, Same, Rest
  <2> QED BY <1>8, <2>1, <2>2 DEF ReceivePoll
<1>9. CASE StreamPoll
  <2>1. CASE StreamTakes
    <3>1. TakeHead /\ ~localClosed /\ UNCHANGED <<state, localClosed, inOpen, toPeer, closeInfo>>
      BY <2>1 DEF StreamTakes
    <3> QED BY <3>1, TakeRefines
  <2>2. CASE StreamLocks \/ StreamEnds
    BY <2>2, SameStutters DEF StreamLocks, StreamEnds, Same, Rest
  <2> QED BY <1>9, <2>1, <2>2 DEF StreamPoll
<1> QED
  BY <1>1, <1>2, <1>3, <1>4, <1>5, <1>6, <1>7, <1>8, <1>9 DEF GuestCalls, GuestStep

\* The pump's steps.
LEMMA PumpRefines ==
  ASSUME Typed, Kept, View, PumpStep \/ TransportStep
  PROVE  [Contract!CNext]_(Contract!cvars)
<1> USE DEF shared, resource, channels, budget, guestVars, pumpVars, pumpRest, peerVars, seen
<1> DEFINE Goal == [Contract!CNext]_(Contract!cvars)
<1>1. CASE PumpSend \/ PumpPing \/ PumpEnd \/ PumpDeadline
  BY <1>1, SameStutters DEF PumpSend, PumpPing, PumpEnd, PumpDeadline, Same, Rest
<1>2. CASE PumpClose \/ PumpCmdsDone
  BY <1>2, StartsClosing DEF PumpClose, PumpCmdsDone, BeginClose, Rest
<1>3. CASE PumpData
  BY <1>3, StartsClosing DEF PumpData, Overflow, BeginClose, Rest
<1>4. CASE PumpPeerClose BY <1>4, StartsClosing DEF PumpPeerClose, Rest
<1>5. CASE PumpCapacity BY <1>5, StartsClosing DEF PumpCapacity, BeginClose, Rest
<1>6. CASE PumpReserves
  <2>1. UNCHANGED <<state, localClosed, delivered, inOpen, toPeer, closeInfo>>
        /\ inq' = Append(inq, reserved) /\ pump = "reserve"
    BY <1>6 DEF PumpReserves
  <2>2. CASE localClosed BY <2>1, <2>2 DEF Contract!cvars
  <2>3. CASE ~localClosed
    <3>1. inOpen /\ reserved = Len(delivered) + Len(inq) + 1
      BY <2>1 DEF Kept, LifeKept, OrderKept, Accepted, Finishing
    <3>2. Contract!Arrive BY <2>1, <2>3, <3>1 DEF Contract!Arrive
    <3> QED BY <3>2 DEF Contract!CNext
  <2> QED BY <2>2, <2>3
<1>7. CASE WriteSeesLocalClose
  BY <1>7, SameStutters DEF WriteSeesLocalClose, Same, Rest
<1>8. CASE WriteTimesOut BY <1>8, WriteRefines DEF WriteTimesOut, View
<1>9. CASE TransportStep
  BY <1>9, WriteRefines DEF TransportStep, WriteAccepted, WriteFails, View
<1>10. CASE PumpPublishes
  <2>1. closeInfo = Unset /\ closeInfo' = peerFrame
    BY <1>10 DEF PumpPublishes, Kept, LifeKept, Finishing
  <2>2. peerFrame \in Reports BY DEF View, Reported
  <2>3. Contract!Publish(peerFrame)
    BY <1>10, <2>1 DEF PumpPublishes, Contract!Publish
  <2> QED BY <2>2, <2>3 DEF Contract!CNext, Reports
<1>11. CASE PumpEndsQueue
  <2>1. closeInfo = peerFrame /\ inOpen
    BY <1>11 DEF PumpEndsQueue, Kept, LifeKept, Finishing
  <2>2. peerFrame # Unset
    BY CodeTypes DEF Typed, PumpTyped, Outcomes, NoFrame, Unset
  <2>3. Contract!EndInbox
    BY <1>11, <2>1, <2>2 DEF PumpEndsQueue, Contract!EndInbox
  <2> QED BY <2>3 DEF Contract!CNext
<1>12. CASE PumpClosesCmds \/ PumpDrains \/ PumpFires
  BY <1>12, SameStutters DEF PumpClosesCmds, PumpDrains, PumpFires, Same, Rest
<1>13. CASE PumpLatches
  <2>1. state \in {"open", "closing"} /\ ~inOpen
    BY <1>13 DEF PumpLatches, Typed, ChannelsTyped, Kept, LifeKept, Finishing
  <2>2. state' = "closed" BY <1>13, <2>1 DEF PumpLatches, Advance, Rank
  <2>3. Contract!Finish
    BY <1>13, <2>1, <2>2 DEF PumpLatches, Contract!Finish
  <2> QED BY <2>3 DEF Contract!CNext
<1> QED
  BY <1>1, <1>2, <1>3, <1>4, <1>5, <1>6, <1>7, <1>8, <1>9, <1>10, <1>11, <1>12, <1>13
     DEF PumpStep

\* Every step is a step of the contract, or none.
LEMMA StepRefines ==
  Typed /\ Kept /\ View /\ [Next]_vars => [Contract!CNext]_(Contract!cvars)
<1> SUFFICES ASSUME Typed, Kept, View, [Next]_vars
             PROVE  [Contract!CNext]_(Contract!cvars)
  OBVIOUS
<1> USE DEF shared, resource, channels, budget, guestVars, pumpVars, pumpRest, peerVars, seen
<1>1. CASE PeerStep \/ DeadlineExpires
  BY <1>1, SameStutters
     DEF PeerStep, PeerData, PeerPing, PeerBig, PeerClose, TransportEnds, PeerOnly,
         DeadlineExpires, Same, Rest
<1>2. CASE UNCHANGED vars BY <1>2, SameStutters DEF vars, Same, Rest
<1> QED BY <1>1, <1>2, GuestRefines, PumpRefines DEF Next

\* It starts where the contract starts.
LEMMA InitRefines == Init => View /\ Contract!CInit
<1> SUFFICES ASSUME Init PROVE View /\ Contract!CInit
  OBVIOUS
<1>1. DOMAIN toPeer = {} /\ DOMAIN wire = {} BY DEF Init
<1>2. View BY <1>1 DEF Init, View, Started, Reported, Reports, NoPongs
<1>3. [k \in DOMAIN toPeer |-> IF toPeer[k].kind = "send" THEN "data" ELSE "close"] = <<>>
  BY <1>1
<1> QED BY <1>2, <1>3 DEF Init, Contract!CInit

\* The Wasmtime host's connection implements the contract that all
\* implementations share (websocket.rs, host.rs against wit/websocket.wit).
THEOREM HostImplementsContract == Spec => ImplementsContract
<1>1. View /\ Typed /\ Typed' /\ [Next]_vars => View'
  BY StartedKept, ReportedKept, NoPongsKept DEF View
<1>2. Spec => []View BY <1>1, InitRefines, TypesHold, PTL DEF Spec
<1>3. Init => Contract!CInit BY InitRefines
<1> QED
  BY <1>2, <1>3, StepRefines, TypesHold, Inductive, PTL
     DEF Spec, ImplementsContract, Contract!CSpec
=============================================================================
