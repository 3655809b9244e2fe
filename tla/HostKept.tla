------------------------------ MODULE HostKept ------------------------------
(***************************************************************************)
(* The inductive invariant Kept of HostConnection: it holds initially and  *)
(* every step of the guest, the pump, the peer, the transport and the      *)
(* clock keeps it, for every value of the constants.  One step of the      *)
(* proof for each action; under it a leaf for each part that needs an      *)
(* argument of its own, and one for the parts that follow from the         *)
(* action's definition alone.                                              *)
(***************************************************************************)
EXTENDS HostSteps

\* The invariant holds when the handshake has just been done.
LEMMA InitKept == Init => Kept
<1> SUFFICES ASSUME Init PROVE Kept
  OBVIOUS
<1>1. Len(inq) = 0 /\ Len(delivered) = 0 /\ Accepted = 0 /\ DOMAIN inq = {}
      /\ DOMAIN delivered = {}
  BY DEF Init, Accepted
<1>2. DOMAIN cmdq = {} /\ DOMAIN toPeer = {} /\ DOMAIN wire = {}
  BY DEF Init
<1>3. OrderKept BY <1>1, SizesAssumption DEF Init, OrderKept
<1>4. WireKept BY <1>1, <1>2 DEF Init, WireKept, WireNext
<1>5. BudgetKept
  BY <1>1, SizesAssumption DEF Init, BudgetKept, InHandBytes
<1>6. LifeKept BY DEF Init, LifeKept, Finishing
<1>7. SendsKept BY <1>2 DEF Init, SendsKept, Once, In, Writes
<1>8. CloseKept
  BY <1>2, FrameCodes, FrameKinds DEF Init, CloseKept, In, Writes
<1>9. WireEndKept /\ SignalKept /\ CauseKept
  BY <1>2 DEF Init, WireEndKept, SignalKept, CauseKept
<1>10. LossOnlyByContract /\ ReceiveErrorsHonest
  BY DEF Init, LossOnlyByContract, ReceiveErrorsHonest
<1>11. CloseFrameNotMissed
  BY DEF Init, CloseFrameNotMissed, Finishing
<1> QED
  BY <1>3, <1>4, <1>5, <1>6, <1>7, <1>8, <1>9, <1>10, <1>11 DEF Kept

\* Every step keeps it.
LEMMA NextKept == Typed /\ Typed' /\ Kept /\ [Next]_vars => Kept'
<1> SUFFICES ASSUME Typed, Typed', Kept, [Next]_vars PROVE Kept'
  OBVIOUS
<1> USE DEF shared, resource, channels, budget, guestVars, pumpVars, pumpRest,
            peerVars, seen
<1>1. ASSUME NEW s \in Sends, Send(s) PROVE Kept'
  <2>1. SendsKept'
    <3> USE <1>1 DEF Kept, Send
    <3> DEFINE f == DataFrame(s)
    <3>1. f \in Frames /\ cmdq \in Seq(Frames) BY FrameTypes, Queues
    <3>2. CASE localClosed \/ ~cmdOpen
      <4>1. cmdq' = cmdq /\ sendSt' = [sendSt EXCEPT ![s] = "closed"] BY <3>2
      <4> QED BY <4>1, Queues DEF SendsKept, Writes
    <3>3. CASE ~localClosed /\ cmdOpen
      <4>1. cmdq' = Append(cmdq, f) /\ sendSt' = [sendSt EXCEPT ![s] = "queued"]
        BY <3>3
      <4>2. ~In(f, cmdq) /\ ~Writes(f) /\ ~In(f, toPeer) BY DEF SendsKept
      <4>3. Once(cmdq') BY <4>1, <4>2, <3>1, OnceAppend DEF SendsKept
      <4>4. \A g : In(g, cmdq') <=> In(g, cmdq) \/ g = f
        BY <4>1, <3>1, InAppend
      <4>5. \A t \in Sends : DataFrame(t) = f => t = s BY FrameKinds
      <4> QED BY <4>1, <4>2, <4>3, <4>4, <4>5, Queues DEF SendsKept, Writes
    <3> QED BY <3>2, <3>3
  <2>2. CloseKept'
    <3> USE <1>1 DEF Kept, Send
    <3>1. DataFrame(s) \in Frames /\ DataFrame(s).kind = "send" /\
          DataFrame(s).code \in SentCodes
      BY FrameTypes, FrameKinds, FrameCodes
    <3>2. \A k \in DOMAIN cmdq' : cmdq'[k].kind \in {"send", "close"} /\ cmdq'[k].code \in SentCodes
      BY <3>1, Enqueued DEF CloseKept
    <3> QED BY <3>2 DEF CloseKept, Writes
  <2>3. SignalKept'
    <3> USE <1>1 DEF Kept, Send
    <3>1. CASE UNCHANGED cmdq BY <3>1 DEF SignalKept
    <3>2. CASE cmdq' = Append(cmdq, DataFrame(s))
      <4>1. DataFrame(s) \in Frames /\ DataFrame(s).kind # "close" /\ cmdq \in
            Seq(Frames)
        BY FrameTypes, FrameKinds, Queues
      <4>2. \A k \in DOMAIN cmdq' : cmdq'[k].kind = "close" => localClosed
        BY <3>2, <4>1, AppendAt DEF SignalKept
      <4> QED BY <4>2 DEF SignalKept
    <3> QED BY <3>1, <3>2
  <2>4. OrderKept' /\ WireKept' /\ BudgetKept' /\ LifeKept' /\ WireEndKept' /\ CauseKept' /\ LossOnlyByContract' /\ ReceiveErrorsHonest' /\ CloseFrameNotMissed'
    BY <1>1 DEF Kept, Send, OrderKept, Accepted, WireKept, WireNext, DataAt,
       BudgetKept, InHandBytes, LifeKept, Finishing, WireEndKept, CauseKept,
       LossOnlyByContract, ReceiveErrorsHonest, CloseFrameNotMissed
  <2> QED BY <2>1, <2>2, <2>3, <2>4 DEF Kept
<1>2. ASSUME NEW req \in CloseRequests, Close(req) PROVE Kept'
  <2>1. LifeKept' BY <1>2 DEF Kept, Close, Advance, LifeKept, Finishing, Rank
  <2>2. CloseKept'
    <3> USE <1>2 DEF Kept, Close, Advance
    <3>1. closeCode' \in SentCodes BY DEF CloseArgsValid, SentCodes
    <3> QED BY <3>1 DEF CloseKept, Writes
  <2>3. OrderKept' /\ WireKept' /\ BudgetKept' /\ SendsKept' /\ WireEndKept' /\ SignalKept' /\ CauseKept' /\ LossOnlyByContract' /\ ReceiveErrorsHonest' /\ CloseFrameNotMissed'
    BY <1>2 DEF Kept, Close, Advance, OrderKept, Accepted, WireKept, WireNext,
       DataAt, BudgetKept, InHandBytes, SendsKept, Writes, WireEndKept,
       SignalKept, CauseKept, LossOnlyByContract, ReceiveErrorsHonest,
       CloseFrameNotMissed, Finishing
  <2> QED BY <2>1, <2>2, <2>3 DEF Kept
<1>3. ASSUME NEW r \in Receives, Receive(r) PROVE Kept'
  <2>1. Kept'
    BY <1>3 DEF Kept, Receive, OrderKept, Accepted, WireKept, WireNext, DataAt,
       BudgetKept, InHandBytes, LifeKept, Finishing, SendsKept, Writes,
       CloseKept, WireEndKept, SignalKept, CauseKept, LossOnlyByContract,
       ReceiveErrorsHonest, CloseFrameNotMissed
  <2> QED BY <2>1 DEF Kept
<1>4. CASE Drop
  <2>1. OrderKept' BY <1>4 DEF Kept, Drop, Advance, OrderKept, Accepted
  <2>2. BudgetKept'
    BY <1>4 DEF Kept, Drop, Advance, BudgetKept, Accepted, InHandBytes
  <2>3. LifeKept' BY <1>4 DEF Kept, Drop, Advance, LifeKept, Finishing, Rank
  <2>4. CloseKept'
    BY <1>4, FrameCodes DEF Kept, Drop, Advance, CloseKept, Writes, Closes
  <2>5. SignalKept' BY <1>4 DEF Kept, Drop, Advance, SignalKept
  <2>6. WireKept' /\ SendsKept' /\ WireEndKept' /\ CauseKept' /\ LossOnlyByContract' /\ ReceiveErrorsHonest' /\ CloseFrameNotMissed'
    BY <1>4 DEF Kept, Drop, Advance, WireKept, Accepted, WireNext, DataAt,
       SendsKept, Writes, WireEndKept, CauseKept, LossOnlyByContract,
       ReceiveErrorsHonest, CloseFrameNotMissed, Finishing
  <2> QED BY <2>1, <2>2, <2>3, <2>4, <2>5, <2>6 DEF Kept
<1>5. CASE ReceiveViaStream
  <2>1. Kept'
    BY <1>5 DEF Kept, ReceiveViaStream, OrderKept, Accepted, WireKept,
       WireNext, DataAt, BudgetKept, InHandBytes, LifeKept, Finishing,
       SendsKept, Writes, CloseKept, WireEndKept, SignalKept, CauseKept,
       LossOnlyByContract, ReceiveErrorsHonest, CloseFrameNotMissed
  <2> QED BY <2>1 DEF Kept
<1>6. CASE StreamRead
  <2>1. Kept'
    BY <1>6 DEF Kept, StreamRead, OrderKept, Accepted, WireKept, WireNext,
       DataAt, BudgetKept, InHandBytes, LifeKept, Finishing, SendsKept, Writes,
       CloseKept, WireEndKept, SignalKept, CauseKept, LossOnlyByContract,
       ReceiveErrorsHonest, CloseFrameNotMissed
  <2> QED BY <2>1 DEF Kept
<1>7. CASE StreamDropped
  <2>1. Kept'
    BY <1>7 DEF Kept, StreamDropped, Released, OrderKept, Accepted, WireKept,
       WireNext, DataAt, BudgetKept, InHandBytes, LifeKept, Finishing,
       SendsKept, Writes, CloseKept, WireEndKept, SignalKept, CauseKept,
       LossOnlyByContract, ReceiveErrorsHonest, CloseFrameNotMissed
  <2> QED BY <2>1 DEF Kept
<1>8. CASE WaitClosed
  <2>1. LifeKept'
    <3> USE <1>8 DEF Kept, WaitClosed, ClosedSignalled
    <3>1. closedFired /\ pump = "done" BY DEF LifeKept, Finishing
    <3>2. closeInfo = peerFrame BY <3>1 DEF LifeKept, Finishing
    <3>3. peerFrame # Unset
      BY CodeTypes DEF Typed, PumpTyped, Outcomes, NoFrame, Unset
    <3>4. waited' = {peerFrame} BY <3>1, <3>2, <3>3 DEF LifeKept
    <3> QED BY <3>1, <3>4 DEF LifeKept, Finishing
  <2>2. OrderKept' /\ WireKept' /\ BudgetKept' /\ SendsKept' /\ CloseKept' /\ WireEndKept' /\ SignalKept' /\ CauseKept' /\ LossOnlyByContract' /\ ReceiveErrorsHonest' /\ CloseFrameNotMissed'
    BY <1>8 DEF Kept, WaitClosed, ClosedSignalled, OrderKept, Accepted,
       WireKept, WireNext, DataAt, BudgetKept, InHandBytes, SendsKept, Writes,
       CloseKept, WireEndKept, SignalKept, CauseKept, LossOnlyByContract,
       ReceiveErrorsHonest, CloseFrameNotMissed, Finishing
  <2> QED BY <2>1, <2>2 DEF Kept
<1>9. CASE CloseFires
  <2>1. Kept'
    BY <1>9 DEF Kept, CloseFires, OrderKept, Accepted, WireKept, WireNext,
       DataAt, BudgetKept, InHandBytes, LifeKept, Finishing, SendsKept, Writes,
       CloseKept, WireEndKept, SignalKept, CauseKept, LossOnlyByContract,
       ReceiveErrorsHonest, CloseFrameNotMissed
  <2> QED BY <2>1 DEF Kept
<1>10. CASE CloseEnqueues
  <2>1. SendsKept'
    <3> USE <1>10 DEF Kept, CloseEnqueues
    <3> DEFINE f == CloseFrame(closeCode)
    <3>1. f \in Frames /\ cmdq \in Seq(Frames) /\ f.kind = "close"
      BY FrameTypes, FrameKinds, Queues DEF Typed, GuestTyped
    <3>2. CASE ~cmdOpen BY <3>2 DEF SendsKept, Writes
    <3>3. CASE cmdOpen
      <4>1. cmdq' = Append(cmdq, f) BY <3>3
      <4>2. Once(cmdq') BY <4>1, <3>1, OnceAppend DEF SendsKept
      <4>3. \A s \in Sends : In(DataFrame(s), cmdq') <=> In(DataFrame(s), cmdq)
        BY <4>1, <3>1, InAppend, FrameKinds
      <4> QED BY <4>2, <4>3 DEF SendsKept, Writes
    <3> QED BY <3>2, <3>3
  <2>2. CloseKept'
    <3> USE <1>10 DEF Kept, CloseEnqueues
    <3>1. /\ CloseFrame(closeCode) \in Frames /\ CloseFrame(closeCode).kind = "close"
          /\ CloseFrame(closeCode).code \in SentCodes
      BY FrameTypes, FrameKinds, FrameCodes DEF Typed, GuestTyped, CloseKept
    <3>2. \A k \in DOMAIN cmdq' : cmdq'[k].kind \in {"send", "close"} /\ cmdq'[k].code \in SentCodes
      BY <3>1, Enqueued DEF CloseKept
    <3>3. closeCode' \in SentCodes BY FrameCodes
    <3> QED BY <3>2, <3>3 DEF CloseKept, Writes
  <2>3. OrderKept' /\ WireKept' /\ BudgetKept' /\ LifeKept' /\ WireEndKept' /\ SignalKept' /\ CauseKept' /\ LossOnlyByContract' /\ ReceiveErrorsHonest' /\ CloseFrameNotMissed'
    BY <1>10 DEF Kept, CloseEnqueues, OrderKept, Accepted, WireKept, WireNext,
       DataAt, BudgetKept, InHandBytes, LifeKept, Finishing, WireEndKept,
       SignalKept, CauseKept, LossOnlyByContract, ReceiveErrorsHonest,
       CloseFrameNotMissed
  <2> QED BY <2>1, <2>2, <2>3 DEF Kept
<1>11. CASE ReaderReleases
  <2>1. BudgetKept'
    <3> USE <1>11 DEF Kept, ReaderReleases
    <3>1. inHand = Len(delivered) /\ inHand \in MsgIds
      BY DEF OrderKept, Typed, GuestTyped
    <3>2. Size(inHand) \in Nat BY <3>1, SizeTypes
    <3>3. InHandBytes = Size(inHand) /\ InHandBytes' = 0 BY DEF InHandBytes
    <3>4. buffered' =< buffered BY <3>2, Offsets
    <3>5. buffered' = Offset[Accepted'] - Offset[Len(delivered')] + InHandBytes'
      BY <3>2, <3>3, Offsets DEF BudgetKept, Accepted
    <3>6. buffered' =< Limit
      BY <3>2, <3>4, Offsets, SizesAssumption DEF BudgetKept
    <3>7. pump' = "reserve" => buffered' + Size(reserved') =< Limit'
      <4>1. SUFFICES ASSUME pump = "reserve" PROVE buffered' + Size(reserved)
            =< Limit OBVIOUS
      <4>2. Size(reserved) \in Nat BY <4>1, SizeTypes DEF Typed, PumpTyped
      <4>3. buffered + Size(reserved) =< Limit BY <4>1 DEF BudgetKept
      <4>4. buffered' \in Int /\ buffered \in Int /\ Limit \in Nat
        BY <3>2, Offsets, SizesAssumption
      <4> HIDE DEF ReaderReleases
      <4> QED BY <4>2, <4>3, <4>4, <3>4
    <3> QED BY <3>5, <3>6, <3>7 DEF BudgetKept
  <2>2. OrderKept' /\ WireKept' /\ LifeKept' /\ SendsKept' /\ CloseKept' /\ WireEndKept' /\ SignalKept' /\ CauseKept' /\ LossOnlyByContract' /\ ReceiveErrorsHonest' /\ CloseFrameNotMissed'
    BY <1>11 DEF Kept, ReaderReleases, OrderKept, Accepted, WireKept, WireNext,
       DataAt, LifeKept, Finishing, SendsKept, Writes, CloseKept, WireEndKept,
       SignalKept, CauseKept, LossOnlyByContract, ReceiveErrorsHonest,
       CloseFrameNotMissed
  <2> QED BY <2>1, <2>2 DEF Kept
<1>12. ASSUME NEW r \in Receives, ReceiveSignalled(r) PROVE Kept'
  <2>1. ReceiveErrorsHonest'
    <3> USE <1>12
    <3>1. claimed \/ localClosed
      BY DEF Kept, SignalKept, ReceiveSignalled, Released, NotSignalled
    <3>2. recvSt' = [recvSt EXCEPT ![r] = IF claimed THEN "viaStream" ELSE "closed"]
      BY DEF ReceiveSignalled, Released, NotSignalled
    <3>3. UNCHANGED <<localClosed, claimed, inOpen, inq, overflowed, discarded>>
      BY DEF ReceiveSignalled, Released, NotSignalled
    <3>4. recvSt \in [Receives -> {"unused", "pending", "message", "viaStream", "overflow", "closed"}]
      BY DEF Typed, GuestTyped
    <3> QED BY <3>1, <3>2, <3>3, <3>4 DEF Kept, ReceiveErrorsHonest
  <2>2. OrderKept' /\ WireKept' /\ BudgetKept' /\ LifeKept' /\ SendsKept' /\ CloseKept' /\ WireEndKept' /\ SignalKept' /\ CauseKept' /\ LossOnlyByContract' /\ CloseFrameNotMissed'
    BY <1>12 DEF Kept, ReceiveSignalled, Released, NotSignalled, OrderKept,
       Accepted, WireKept, WireNext, DataAt, BudgetKept, InHandBytes, LifeKept,
       Finishing, SendsKept, Writes, CloseKept, WireEndKept, SignalKept,
       CauseKept, LossOnlyByContract, CloseFrameNotMissed
  <2> QED BY <2>1, <2>2 DEF Kept
<1>13. ASSUME NEW r \in Receives, ReceiveLocks(r) PROVE Kept'
  <2>1. Kept'
    BY <1>13 DEF Kept, ReceiveLocks, OrderKept, Accepted, WireKept, WireNext,
       DataAt, BudgetKept, InHandBytes, LifeKept, Finishing, SendsKept, Writes,
       CloseKept, WireEndKept, SignalKept, CauseKept, LossOnlyByContract,
       ReceiveErrorsHonest, CloseFrameNotMissed
  <2> QED BY <2>1 DEF Kept
<1>14. ASSUME NEW r \in Receives, ReceiveTakes(r) PROVE Kept'
  <2>1. OrderKept'
    <3> USE <1>14 DEF Kept, ReceiveTakes, TakeHead
    <3>1. OrderKept /\ TakeHead OBVIOUS
    <3> QED BY <3>1, Taken, Lens DEF OrderKept, Accepted
  <2>2. BudgetKept'
    <3> USE <1>14 DEF Kept, ReceiveTakes, TakeHead
    <3>1. Accepted' = Accepted /\ Len(delivered') = Len(delivered) + 1 /\
          inHand' = Len(delivered')
     BY Taken, Lens DEF Accepted
    <3>2. Len(delivered) \in Nat /\ Len(delivered) + 1 =< MaxMsgs
     BY Lens, Offsets, <3>1 DEF Typed, GuestTyped, MsgIds, TakeHead
    <3>3. Offset[Len(delivered)] \in Nat /\ Offset[Len(delivered) + 1] \in Nat
      BY <3>2, SizesAssumption
    <3>4. InHandBytes' = Size(Len(delivered) + 1)
      BY <3>1 DEF InHandBytes, TakeHead, Size
    <3>5. Size(Len(delivered) + 1) = Offset[Len(delivered) + 1] - Offset[Len(delivered)]
      BY <3>2 DEF Size
    <3>6. InHandBytes = 0 BY DEF InHandBytes
    <3>7. buffered' = Offset[Accepted'] - Offset[Len(delivered')] + InHandBytes'
      BY <3>1, <3>3, <3>4, <3>5, <3>6, Offsets DEF BudgetKept
    <3> QED BY <3>7 DEF BudgetKept
  <2>3. WireKept' /\ LifeKept' /\ SendsKept' /\ CloseKept' /\ WireEndKept' /\ SignalKept' /\ CauseKept' /\ LossOnlyByContract' /\ ReceiveErrorsHonest' /\ CloseFrameNotMissed'
    BY <1>14 DEF Kept, ReceiveTakes, TakeHead, WireKept, Accepted, WireNext,
       DataAt, LifeKept, Finishing, SendsKept, Writes, CloseKept, WireEndKept,
       SignalKept, CauseKept, LossOnlyByContract, ReceiveErrorsHonest,
       CloseFrameNotMissed
  <2> QED BY <2>1, <2>2, <2>3 DEF Kept
<1>15. ASSUME NEW r \in Receives, ReceiveEnds(r) PROVE Kept'
  <2>1. ReceiveErrorsHonest'
    <3> USE <1>15
    <3>1. ~overflowed => ~discarded
      BY DEF Kept, LossOnlyByContract, ReceiveEnds, EndOutcome, NotSignalled
    <3>2. recvSt' = [recvSt EXCEPT ![r] = EndOutcome] /\ inq = <<>> /\ ~inOpen
      BY DEF ReceiveEnds
    <3>3. UNCHANGED <<localClosed, claimed, inOpen, inq, overflowed, discarded>>
      BY DEF ReceiveEnds, EndOutcome
    <3>4. recvSt \in [Receives -> {"unused", "pending", "message", "viaStream", "overflow", "closed"}]
      BY DEF Typed, GuestTyped
    <3>5. (overflowed => EndOutcome = "overflow") /\ (~overflowed => EndOutcome = "closed")
      BY DEF EndOutcome
    <3> QED BY <3>1, <3>2, <3>3, <3>4, <3>5 DEF Kept, ReceiveErrorsHonest
  <2>2. OrderKept' /\ WireKept' /\ BudgetKept' /\ LifeKept' /\ SendsKept' /\ CloseKept' /\ WireEndKept' /\ SignalKept' /\ CauseKept' /\ LossOnlyByContract' /\ CloseFrameNotMissed'
    BY <1>15 DEF Kept, ReceiveEnds, EndOutcome, OrderKept, Accepted, WireKept,
       WireNext, DataAt, BudgetKept, InHandBytes, LifeKept, Finishing,
       SendsKept, Writes, CloseKept, WireEndKept, SignalKept, CauseKept,
       LossOnlyByContract, CloseFrameNotMissed
  <2> QED BY <2>1, <2>2 DEF Kept
<1>16. CASE StreamLocks
  <2>1. Kept'
    BY <1>16 DEF Kept, StreamLocks, OrderKept, Accepted, WireKept, WireNext,
       DataAt, BudgetKept, InHandBytes, LifeKept, Finishing, SendsKept, Writes,
       CloseKept, WireEndKept, SignalKept, CauseKept, LossOnlyByContract,
       ReceiveErrorsHonest, CloseFrameNotMissed
  <2> QED BY <2>1 DEF Kept
<1>17. CASE StreamTakes
  <2>1. OrderKept'
    <3> USE <1>17 DEF Kept, StreamTakes, TakeHead
    <3>1. OrderKept /\ TakeHead OBVIOUS
    <3> QED BY <3>1, Taken, Lens DEF OrderKept, Accepted
  <2>2. BudgetKept'
    <3> USE <1>17 DEF Kept, StreamTakes, TakeHead
    <3>1. Accepted' = Accepted /\ Len(delivered') = Len(delivered) + 1 /\
          inHand' = Len(delivered')
     BY Taken, Lens DEF Accepted
    <3>2. Len(delivered) \in Nat /\ Len(delivered) + 1 =< MaxMsgs
     BY Lens, Offsets, <3>1 DEF Typed, GuestTyped, MsgIds, TakeHead
    <3>3. Offset[Len(delivered)] \in Nat /\ Offset[Len(delivered) + 1] \in Nat
      BY <3>2, SizesAssumption
    <3>4. InHandBytes' = Size(Len(delivered) + 1)
      BY <3>1 DEF InHandBytes, TakeHead, Size
    <3>5. Size(Len(delivered) + 1) = Offset[Len(delivered) + 1] - Offset[Len(delivered)]
      BY <3>2 DEF Size
    <3>6. InHandBytes = 0 BY DEF InHandBytes
    <3>7. buffered' = Offset[Accepted'] - Offset[Len(delivered')] + InHandBytes'
      BY <3>1, <3>3, <3>4, <3>5, <3>6, Offsets DEF BudgetKept
    <3> QED BY <3>7 DEF BudgetKept
  <2>3. WireKept' /\ LifeKept' /\ SendsKept' /\ CloseKept' /\ WireEndKept' /\ SignalKept' /\ CauseKept' /\ LossOnlyByContract' /\ ReceiveErrorsHonest' /\ CloseFrameNotMissed'
    BY <1>17 DEF Kept, StreamTakes, TakeHead, WireKept, Accepted, WireNext,
       DataAt, LifeKept, Finishing, SendsKept, Writes, CloseKept, WireEndKept,
       SignalKept, CauseKept, LossOnlyByContract, ReceiveErrorsHonest,
       CloseFrameNotMissed
  <2> QED BY <2>1, <2>2, <2>3 DEF Kept
<1>18. CASE StreamEnds
  <2>1. Kept'
    BY <1>18 DEF Kept, StreamEnds, Released, OrderKept, Accepted, WireKept,
       WireNext, DataAt, BudgetKept, InHandBytes, LifeKept, Finishing,
       SendsKept, Writes, CloseKept, WireEndKept, SignalKept, CauseKept,
       LossOnlyByContract, ReceiveErrorsHonest, CloseFrameNotMissed
  <2> QED BY <2>1 DEF Kept
<1>19. CASE PumpSend
  <2>1. SendsKept'
    <3> USE <1>19 DEF Kept, PumpSend, StartWrite
    <3> DEFINE f == Head(cmdq)
    <3>1. cmdq \in Seq(Frames) /\ f \in Frames /\ f.from \in Sends /\ f = DataFrame(f.from)
      BY Queues, HeadTypes, FrameKinds
    <3>2. Once(cmdq') /\ ~In(f, cmdq') BY <3>1, OnceTail DEF SendsKept
    <3>3. \A g : In(g, cmdq) <=> g = f \/ In(g, cmdq') BY <3>1, InTail
    <3>4. \A s \in Sends : f = DataFrame(s) <=> s = f.from BY <3>1, FrameKinds
    <3>5. \A s \in Sends : ~Writes(DataFrame(s)) BY DEF Writes
    <3>6. sendSt[f.from] = "queued" /\ ~In(f, toPeer)
      BY <3>1, <3>3 DEF SendsKept
    <3>7. CASE Refused
      <4>1. sendSt' = [sendSt EXCEPT ![f.from] = "closed"] /\ pump' = "select"
        BY <3>7
      <4>2. \A s \in Sends : ~Writes(DataFrame(s))' BY <4>1 DEF Writes
      <4> QED
        BY <3>1, <3>2, <3>3, <3>4, <3>5, <3>6, <4>1, <4>2, Queues DEF SendsKept
    <3>8. CASE ~Refused
      <4>1. sendSt' = sendSt /\ pump' = "write" /\ writing'.frame = f
        BY <3>8 DEF Refused
      <4>2. \A s \in Sends : Writes(DataFrame(s))' <=> s = f.from
        BY <4>1, <3>4 DEF Writes
      <4> QED
        BY <3>1, <3>2, <3>3, <3>4, <3>5, <3>6, <4>1, <4>2, Queues DEF SendsKept
    <3> QED BY <3>7, <3>8
  <2>2. CloseKept'
    <3> USE <1>19
    <3>0. Head(cmdq).code \in SentCodes /\ Head(cmdq) \in Frames
      BY HeadTypes, Queues, TailAt DEF Kept, CloseKept, PumpSend, PumpClose
    <3>1. writing'.frame.code \in SentCodes
      BY <3>0, FrameKinds, FrameCodes DEF Kept, CloseKept, PumpSend,
         StartWrite, Refused
    <3>2. ASSUME pump' = "write"
          PROVE  /\ Closes(writing'.frame) => ~wireClosing /\ wireClosing'
                 /\ wireClosing' => writing'.frame.kind # "send"
                 /\ writing'.frame = CloseReply => peerFrame' # NoFrame
      BY <3>2, FrameKinds, HeadTypes DEF Closes, PumpSend, StartWrite, Refused
    <3>3. (wireClosing => wireClosing') /\ (peerFrame # NoFrame => peerFrame' #
          NoFrame)
      BY DEF PumpSend, StartWrite, Refused
    <3>4. pump = "select" /\ UNCHANGED <<toPeer, closeCode>> /\ (cmdq # <<>> /\
          cmdq' = Tail(cmdq))
      BY DEF PumpSend, StartWrite
    <3>5. CloseKept BY DEF Kept
    <3> QED BY <3>1, <3>2, <3>3, <3>4, <3>5, Starts
  <2>3. SignalKept'
    <3> USE <1>19 DEF Kept, PumpSend, StartWrite
    <3>1. \A k \in DOMAIN cmdq' : cmdq'[k].kind = "close" => localClosed
     BY Queues, TailAt DEF SignalKept
    <3> QED BY <3>1 DEF SignalKept
  <2>4. OrderKept' /\ WireKept' /\ BudgetKept' /\ LifeKept' /\ WireEndKept' /\ CauseKept' /\ LossOnlyByContract' /\ ReceiveErrorsHonest' /\ CloseFrameNotMissed'
    BY <1>19 DEF Kept, PumpSend, StartWrite, OrderKept, Accepted, WireKept,
       WireNext, DataAt, BudgetKept, InHandBytes, LifeKept, Finishing,
       WireEndKept, CauseKept, LossOnlyByContract, ReceiveErrorsHonest,
       CloseFrameNotMissed
  <2> QED BY <2>1, <2>2, <2>3, <2>4 DEF Kept
<1>20. CASE PumpClose
  <2>1. SendsKept'
    <3> USE <1>20 DEF Kept, PumpClose, BeginClose, StartWrite, Advance, Armed
    <3>1. cmdq \in Seq(Frames) BY Queues
    <3>2. Once(cmdq') BY <3>1, OnceTail DEF SendsKept
    <3>3. \A s \in Sends : In(DataFrame(s), cmdq') <=> In(DataFrame(s), cmdq)
      BY <3>1, InTail, FrameKinds
    <3>4. Head(cmdq).code \in CloseCode BY HeadTypes
    <3>5. \A s \in Sends : ~Writes(DataFrame(s)) /\ ~Writes(DataFrame(s))'
      BY <3>4, FrameKinds DEF Writes
    <3> QED BY <3>2, <3>3, <3>5 DEF SendsKept
  <2>2. CloseKept'
    <3> USE <1>20
    <3>0. Head(cmdq).code \in SentCodes /\ Head(cmdq) \in Frames
      BY HeadTypes, Queues, TailAt DEF Kept, CloseKept, PumpSend, PumpClose
    <3>1. writing'.frame.code \in SentCodes
      BY <3>0, FrameKinds, FrameCodes DEF Kept, CloseKept, PumpClose,
         BeginClose, StartWrite, Advance, Armed, Refused
    <3>2. ASSUME pump' = "write"
          PROVE  /\ Closes(writing'.frame) => ~wireClosing /\ wireClosing'
                 /\ wireClosing' => writing'.frame.kind # "send"
                 /\ writing'.frame = CloseReply => peerFrame' # NoFrame
      BY <3>2, FrameKinds, HeadTypes DEF Closes, PumpClose, BeginClose,
         StartWrite, Advance, Armed, Refused
    <3>3. (wireClosing => wireClosing') /\ (peerFrame # NoFrame => peerFrame' #
          NoFrame)
      BY DEF PumpClose, BeginClose, StartWrite, Advance, Armed, Refused
    <3>4. pump = "select" /\ UNCHANGED <<toPeer, closeCode>> /\ (cmdq # <<>> /\
          cmdq' = Tail(cmdq))
      BY DEF PumpClose, BeginClose, StartWrite, Advance, Armed
    <3>5. CloseKept BY DEF Kept
    <3> QED BY <3>1, <3>2, <3>3, <3>4, <3>5, Starts
  <2>3. SignalKept'
    <3> USE <1>20 DEF Kept, PumpClose, BeginClose, StartWrite, Advance, Armed
    <3>1. \A k \in DOMAIN cmdq' : cmdq'[k].kind = "close" => localClosed
     BY Queues, TailAt DEF SignalKept
    <3> QED BY <3>1 DEF SignalKept
  <2>4. CauseKept'
    <3> USE <1>20 DEF Kept, PumpClose, BeginClose, StartWrite, Advance, Armed
    <3>1. localClosed BY Queues, TailAt DEF SignalKept
    <3> QED BY <3>1 DEF CauseKept
  <2>5. OrderKept' /\ WireKept' /\ BudgetKept' /\ LifeKept' /\ WireEndKept' /\ LossOnlyByContract' /\ ReceiveErrorsHonest' /\ CloseFrameNotMissed'
    BY <1>20 DEF Kept, PumpClose, BeginClose, StartWrite, Advance, Armed,
       OrderKept, Accepted, WireKept, WireNext, DataAt, BudgetKept,
       InHandBytes, LifeKept, Finishing, WireEndKept, LossOnlyByContract,
       ReceiveErrorsHonest, CloseFrameNotMissed
  <2> QED BY <2>1, <2>2, <2>3, <2>4, <2>5 DEF Kept
<1>21. CASE PumpCmdsDone
  <2>1. SendsKept'
    <3> USE <1>21 DEF Kept, PumpCmdsDone, BeginClose, StartWrite, Advance,
          Armed
    <3>1. pump' = "write" => writing'.frame.kind # "send"
      BY FrameKinds, CodeTypes
    <3> QED BY <3>1, OwnFrame
  <2>2. CloseKept'
    <3> USE <1>21
    <3>1. writing'.frame.code \in SentCodes
      BY FrameKinds, FrameCodes DEF Kept, CloseKept, PumpCmdsDone, BeginClose,
         StartWrite, Advance, Armed
    <3>2. ASSUME pump' = "write"
          PROVE  /\ Closes(writing'.frame) => ~wireClosing /\ wireClosing'
                 /\ wireClosing' => writing'.frame.kind # "send"
                 /\ writing'.frame = CloseReply => peerFrame' # NoFrame
      BY <3>2, CodeTypes, FrameKinds DEF Closes, PumpCmdsDone, BeginClose,
         StartWrite, Advance, Armed
    <3>3. (wireClosing => wireClosing') /\ (peerFrame # NoFrame => peerFrame' #
          NoFrame)
      BY DEF PumpCmdsDone, BeginClose, StartWrite, Advance, Armed
    <3>4. pump = "select" /\ UNCHANGED <<toPeer, closeCode>> /\ (UNCHANGED
          cmdq)
      BY DEF PumpCmdsDone, BeginClose, StartWrite, Advance, Armed
    <3>5. CloseKept BY DEF Kept
    <3> QED BY <3>1, <3>2, <3>3, <3>4, <3>5, Starts
  <2>3. CauseKept'
    <3> USE <1>21 DEF Kept, PumpCmdsDone, BeginClose, StartWrite, Advance,
          Armed
    <3>1. localClosed BY DEF SignalKept, NoSender
    <3> QED BY <3>1 DEF CauseKept
  <2>4. OrderKept' /\ WireKept' /\ BudgetKept' /\ LifeKept' /\ WireEndKept' /\ SignalKept' /\ LossOnlyByContract' /\ ReceiveErrorsHonest' /\ CloseFrameNotMissed'
    BY <1>21 DEF Kept, PumpCmdsDone, BeginClose, StartWrite, Advance, Armed,
       OrderKept, Accepted, WireKept, WireNext, DataAt, BudgetKept,
       InHandBytes, LifeKept, Finishing, WireEndKept, SignalKept,
       LossOnlyByContract, ReceiveErrorsHonest, CloseFrameNotMissed
  <2> QED BY <2>1, <2>2, <2>3, <2>4 DEF Kept
<1>22. CASE PumpData
  <2>1. OrderKept'
    <3> USE <1>22 DEF Kept, PumpData, Reads
    <3>1. pump' = "reserve" => reserved' = Accepted' + 1 /\ ~wireClosing'
     BY NextOfWire DEF Accepted, Discards, Overflow, BeginClose, StartWrite
    <3> QED BY <3>1 DEF OrderKept, Accepted
  <2>2. WireKept'
    <3> USE <1>22 DEF Kept, PumpData, Reads
    <3> DEFINE next == IF Head(wire).kind = "data" THEN Accepted + 2 ELSE
          Accepted + 1
    <3>1. CASE ~wireClosing /\ ~wireClosing'
      <4>1. next = Accepted + 2 /\ next = WireNext'
     BY <3>1 DEF WireNext, Accepted, Discards, Overflow, BeginClose
      <4>2. UNCHANGED <<peerSent, wireDead>> /\ wire' = Tail(wire) /\ pump =
            "select" /\ wire # <<>> OBVIOUS
      <4> QED BY <3>1, <4>1, <4>2, WireRest DEF WireKept
    <3>2. CASE wireClosing \/ wireClosing'
      BY <3>2 DEF WireKept, Discards, Overflow, BeginClose
    <3> QED BY <3>1, <3>2
  <2>3. BudgetKept'
    <3> USE <1>22 DEF Kept, PumpData, Reads
    <3>1. pump' = "reserve" => buffered + Size(reserved') =< Limit
      BY DEF Fits, Overflow, BeginClose, StartWrite
    <3> QED BY <3>1 DEF BudgetKept, Accepted, InHandBytes
  <2>4. LifeKept'
    BY <1>22 DEF Kept, PumpData, Reads, LifeKept, Finishing, Discards,
       Overflow, BeginClose, StartWrite, Advance
  <2>5. SendsKept'
    <3> USE <1>22 DEF Kept, PumpData, Reads
    <3>1. pump' = "write" => writing'.frame.kind # "send"
      BY FrameKinds, CodeTypes DEF Overflow, BeginClose, StartWrite
    <3> QED BY <3>1, OwnFrame
  <2>6. CloseKept'
    <3> USE <1>22
    <3>1. writing'.frame.code \in SentCodes
      BY FrameKinds, FrameCodes DEF Kept, CloseKept, PumpData, Reads, Overflow,
         BeginClose, StartWrite, Discards
    <3>2. ASSUME pump' = "write"
          PROVE  /\ Closes(writing'.frame) => ~wireClosing /\ wireClosing'
                 /\ wireClosing' => writing'.frame.kind # "send"
                 /\ writing'.frame = CloseReply => peerFrame' # NoFrame
      BY <3>2, CodeTypes, FrameKinds DEF Closes, PumpData, Reads, Overflow,
         BeginClose, StartWrite, Discards
    <3>3. (wireClosing => wireClosing') /\ (peerFrame # NoFrame => peerFrame' #
          NoFrame)
      BY DEF PumpData, Reads, Overflow, BeginClose, StartWrite, Discards
    <3>4. pump = "select" /\ UNCHANGED <<toPeer, closeCode>> /\ (UNCHANGED
          cmdq)
      BY DEF PumpData, Reads
    <3>5. CloseKept BY DEF Kept
    <3> QED BY <3>1, <3>2, <3>3, <3>4, <3>5, Starts
  <2>7. WireEndKept'
    <3> USE <1>22
    <3>1. wire # <<>> /\ wire' = Tail(wire) /\ UNCHANGED <<peerClosed, wireDead>>
      BY DEF PumpData, Reads
    <3> QED BY <3>1, WireTail DEF Kept, WireEndKept
  <2>8. CauseKept'
    <3> USE <1>22
    <3>1. peerClosed /\ (\A k \in DOMAIN wire : wire[k].kind # "data") => peerClosed' /\ \A k \in DOMAIN wire' : wire'[k].kind # "data"
      BY WireTail DEF PumpData, Reads
    <3>2. wireClosing' => wireClosing \/ overflowed'
      BY DEF PumpData, Reads, Overflow, BeginClose, StartWrite
    <3>3. ~(pump' = "write" /\ writing'.then = "publish")
      BY DEF PumpData, Reads, Overflow, BeginClose, StartWrite
    <3>4. UNCHANGED localClosed /\ (overflowed => overflowed')
      BY DEF PumpData, Reads, Overflow
    <3> QED BY <3>1, <3>2, <3>3, <3>4 DEF Kept, CauseKept
  <2>9. LossOnlyByContract'
    <3> USE <1>22
    <3>1. 1 \in DOMAIN wire /\ wire[1].kind = "data"
      BY WireTail DEF PumpData, Reads
    <3>2. wireClosing => localClosed \/ overflowed BY <3>1 DEF Kept, CauseKept
    <3>3. discarded' => discarded \/ wireClosing \/ overflowed'
      BY DEF PumpData, Reads, Discards, Overflow
    <3>4. (overflowed => overflowed') /\ UNCHANGED localClosed
      BY DEF PumpData, Reads, Overflow
    <3> QED BY <3>2, <3>3, <3>4 DEF Kept, LossOnlyByContract
  <2>10. ReceiveErrorsHonest'
    <3> USE <1>22
    <3>1. inOpen BY DEF Kept, LifeKept, Finishing, PumpData, Reads
    <3>2. UNCHANGED <<recvSt, localClosed, claimed>> BY DEF PumpData, Reads
    <3> QED BY <3>1, <3>2 DEF Kept, ReceiveErrorsHonest
  <2>11. CloseFrameNotMissed'
    <3> USE <1>22
    <3>1. pump' \notin Finishing
      BY DEF PumpData, Reads, Overflow, BeginClose, StartWrite, Finishing
    <3> QED BY <3>1 DEF CloseFrameNotMissed
  <2>12. SignalKept' BY <1>22 DEF Kept, PumpData, Reads, SignalKept
  <2> QED
    BY <2>1, <2>2, <2>3, <2>4, <2>5, <2>6, <2>7, <2>8, <2>9, <2>10, <2>11,
       <2>12 DEF Kept
<1>23. CASE PumpReserves
  <2>1. OrderKept'
    <3> USE <1>23 DEF Kept, PumpReserves, Adds
    <3>1. inq \in Seq(MsgIds) /\ Len(delivered) \in Nat /\ reserved = Accepted + 1
      BY Lens DEF Typed, ChannelsTyped, OrderKept
    <3>2. Len(inq') = Len(inq) + 1 BY <3>1
    <3>3. Accepted' = Accepted + 1 BY <3>1, <3>2 DEF Accepted
    <3>5. reserved \in MsgIds BY DEF Typed, PumpTyped
    <3>4. \A i \in DOMAIN inq' : inq'[i] = Len(delivered') + i
      <4>1. reserved = Len(delivered) + Len(inq) + 1 /\ Len(inq) \in Nat
        BY <3>1, Lens DEF Accepted
      <4>2. DOMAIN inq' = 1 .. Len(inq) + 1 /\ DOMAIN inq = 1 .. Len(inq)
        BY <3>1, <3>2, <3>5
      <4>3. \A i \in 1 .. Len(inq) : inq'[i] = inq[i] BY <3>1, <3>5
      <4>4. inq'[Len(inq) + 1] = reserved BY <3>1, <3>5
      <4>5. delivered' = delivered OBVIOUS
      <4>6. \A i \in DOMAIN inq : inq[i] = Len(delivered) + i BY DEF OrderKept
      <4> HIDE DEF Kept, PumpReserves, Adds
      <4>7. ASSUME NEW i \in DOMAIN inq' PROVE inq'[i] = Len(delivered) + i
        <5>1. CASE i \in 1 .. Len(inq) BY <4>2, <4>3, <4>6, <5>1
        <5>2. CASE i = Len(inq) + 1 BY <3>1, <4>1, <4>4, <5>2
        <5> QED BY <4>1, <4>2, <5>1, <5>2
      <4> QED BY <4>5, <4>7
    <3>6. Accepted' \in 0 .. MaxMsgs
      BY <3>1, <3>3, <3>5, SizesAssumption DEF MsgIds
    <3> QED BY <3>4, <3>6 DEF OrderKept
  <2>2. BudgetKept'
    <3> USE <1>23
    <3>1. OrderKept /\ BudgetKept BY DEF Kept
    <3>2. pump = "reserve" /\ pump' = "select" /\ Adds /\ inq' = Append(inq,
          reserved)
      BY DEF PumpReserves, Adds
    <3>3. UNCHANGED <<delivered, op, inHand>> BY DEF PumpReserves, Adds
    <3>4. /\ buffered' = Offset[Accepted'] - Offset[Len(delivered')] + InHandBytes'
          /\ buffered' =< Limit
      BY <3>1, <3>2, <3>3, Reserving
    <3> QED BY <3>2, <3>4 DEF BudgetKept
  <2>3. ReceiveErrorsHonest'
    <3> USE <1>23
    <3>1. inOpen BY DEF Kept, LifeKept, Finishing, PumpReserves, Adds
    <3>2. UNCHANGED <<recvSt, localClosed, claimed>> BY DEF PumpReserves, Adds
    <3> QED BY <3>1, <3>2 DEF Kept, ReceiveErrorsHonest
  <2>4. WireKept' /\ LifeKept' /\ SendsKept' /\ CloseKept' /\ WireEndKept' /\ SignalKept' /\ CauseKept' /\ LossOnlyByContract' /\ CloseFrameNotMissed'
    BY <1>23 DEF Kept, PumpReserves, Adds, WireKept, Accepted, WireNext,
       DataAt, LifeKept, Finishing, SendsKept, Writes, CloseKept, WireEndKept,
       SignalKept, CauseKept, LossOnlyByContract, CloseFrameNotMissed
  <2> QED BY <2>1, <2>2, <2>3, <2>4 DEF Kept
<1>24. CASE PumpPeerClose
  <2>1. SendsKept'
    <3> USE <1>24 DEF Kept, PumpPeerClose, Reads, StartWrite, Advance, Armed
    <3>1. pump' = "write" => writing'.frame.kind # "send"
      BY FrameKinds, CodeTypes
    <3> QED BY <3>1, OwnFrame
  <2>2. CloseKept'
    <3> USE <1>24
    <3>1. writing'.frame.code \in SentCodes
      BY FrameKinds, FrameCodes DEF Kept, CloseKept, PumpPeerClose, Reads,
         StartWrite, Advance, Armed
    <3>2. ASSUME pump' = "write"
          PROVE  /\ Closes(writing'.frame) => ~wireClosing /\ wireClosing'
                 /\ wireClosing' => writing'.frame.kind # "send"
                 /\ writing'.frame = CloseReply => peerFrame' # NoFrame
      BY <3>2, CodeTypes, FrameKinds, HeadTypes DEF Closes, PumpPeerClose,
         Reads, StartWrite, Advance, Armed
    <3>3. (wireClosing => wireClosing') /\ (peerFrame # NoFrame => peerFrame' #
          NoFrame)
      BY DEF PumpPeerClose, Reads, StartWrite, Advance, Armed
    <3>4. pump = "select" /\ UNCHANGED <<toPeer, closeCode>> /\ (UNCHANGED
          cmdq)
      BY DEF PumpPeerClose, Reads, StartWrite, Advance, Armed
    <3>5. CloseKept BY DEF Kept
    <3> QED BY <3>1, <3>2, <3>3, <3>4, <3>5, Starts
  <2>3. WireEndKept'
    <3> USE <1>24
    <3>1. wire # <<>> /\ wire' = Tail(wire) /\ UNCHANGED <<peerClosed, wireDead>>
      BY DEF PumpPeerClose, Reads, StartWrite, Advance, Armed
    <3> QED BY <3>1, WireTail DEF Kept, WireEndKept
  <2>4. CauseKept'
    <3> USE <1>24
    <3>1. peerClosed' /\ \A k \in DOMAIN wire' : wire'[k].kind # "data"
      BY WireTail DEF Kept, WireEndKept, PumpPeerClose, Reads, StartWrite,
         Advance, Armed
    <3>2. ~(pump' = "write" /\ writing'.then = "publish")
      BY DEF Kept, CauseKept, PumpPeerClose, Reads, StartWrite, Advance, Armed
    <3> QED BY <3>1, <3>2 DEF CauseKept
  <2>5. OrderKept' /\ WireKept' /\ BudgetKept' /\ LifeKept' /\ SignalKept' /\ LossOnlyByContract' /\ ReceiveErrorsHonest' /\ CloseFrameNotMissed'
    BY <1>24 DEF Kept, PumpPeerClose, Reads, StartWrite, Advance, Armed,
       OrderKept, Accepted, WireKept, WireNext, DataAt, BudgetKept,
       InHandBytes, LifeKept, Finishing, SignalKept, LossOnlyByContract,
       ReceiveErrorsHonest, CloseFrameNotMissed
  <2> QED BY <2>1, <2>2, <2>3, <2>4, <2>5 DEF Kept
<1>25. CASE PumpPing
  <2>1. WireKept'
    <3> USE <1>25 DEF Kept, PumpPing, Reads, StartWrite
    <3> DEFINE next == IF Head(wire).kind = "data" THEN Accepted + 2 ELSE
          Accepted + 1
    <3>1. CASE ~wireClosing
      <4>1. next = Accepted + 1 /\ next = WireNext'
     BY DEF WireNext, Accepted, StartWrite
      <4>2. UNCHANGED <<peerSent, wireDead, wireClosing>> /\ wire' = Tail(wire)
            /\ pump = "select" /\ wire # <<>> OBVIOUS
      <4> QED BY <3>1, <4>1, <4>2, WireRest DEF WireKept
    <3> QED BY <3>1 DEF WireKept
  <2>2. SendsKept'
    <3> USE <1>25 DEF Kept, PumpPing, Reads, StartWrite
    <3>1. pump' = "write" => writing'.frame.kind # "send"
      BY FrameKinds, CodeTypes
    <3> QED BY <3>1, OwnFrame
  <2>3. CloseKept'
    <3> USE <1>25
    <3>1. writing'.frame.code \in SentCodes
      BY FrameKinds, FrameCodes DEF Kept, CloseKept, PumpPing, Reads,
         StartWrite
    <3>2. ASSUME pump' = "write"
          PROVE  /\ Closes(writing'.frame) => ~wireClosing /\ wireClosing'
                 /\ wireClosing' => writing'.frame.kind # "send"
                 /\ writing'.frame = CloseReply => peerFrame' # NoFrame
      BY <3>2, CodeTypes, FrameKinds DEF Closes, PumpPing, Reads, StartWrite
    <3>3. (wireClosing => wireClosing') /\ (peerFrame # NoFrame => peerFrame' #
          NoFrame)
      BY DEF PumpPing, Reads, StartWrite
    <3>4. pump = "select" /\ UNCHANGED <<toPeer, closeCode>> /\ (UNCHANGED
          cmdq)
      BY DEF PumpPing, Reads, StartWrite
    <3>5. CloseKept BY DEF Kept
    <3> QED BY <3>1, <3>2, <3>3, <3>4, <3>5, Starts
  <2>4. WireEndKept'
    <3> USE <1>25
    <3>1. wire # <<>> /\ wire' = Tail(wire) /\ UNCHANGED <<peerClosed, wireDead>>
      BY DEF PumpPing, Reads, StartWrite
    <3> QED BY <3>1, WireTail DEF Kept, WireEndKept
  <2>5. CauseKept'
    <3> USE <1>25
    <3>1. peerClosed /\ (\A k \in DOMAIN wire : wire[k].kind # "data") => peerClosed' /\ \A k \in DOMAIN wire' : wire'[k].kind # "data"
      BY WireTail DEF PumpPing, Reads, StartWrite
    <3>2. ~(pump' = "write" /\ writing'.then = "publish")
      BY DEF PumpPing, Reads, StartWrite
    <3>3. UNCHANGED <<localClosed, overflowed, wireClosing>>
      BY DEF PumpPing, Reads, StartWrite
    <3> QED BY <3>1, <3>2, <3>3 DEF Kept, CauseKept
  <2>6. OrderKept' /\ BudgetKept' /\ LifeKept' /\ SignalKept' /\ LossOnlyByContract' /\ ReceiveErrorsHonest' /\ CloseFrameNotMissed'
    BY <1>25 DEF Kept, PumpPing, Reads, StartWrite, OrderKept, Accepted,
       BudgetKept, InHandBytes, LifeKept, Finishing, SignalKept,
       LossOnlyByContract, ReceiveErrorsHonest, CloseFrameNotMissed
  <2> QED BY <2>1, <2>2, <2>3, <2>4, <2>5, <2>6 DEF Kept
<1>26. CASE PumpCapacity
  <2>1. SendsKept'
    <3> USE <1>26 DEF Kept, PumpCapacity, Reads, BeginClose, StartWrite,
          Advance, Armed
    <3>1. pump' = "write" => writing'.frame.kind # "send"
      BY FrameKinds, CodeTypes
    <3> QED BY <3>1, OwnFrame
  <2>2. CloseKept'
    <3> USE <1>26
    <3>1. writing'.frame.code \in SentCodes
      BY FrameKinds, FrameCodes DEF Kept, CloseKept, PumpCapacity, Reads,
         BeginClose, StartWrite, Advance, Armed
    <3>2. ASSUME pump' = "write"
          PROVE  /\ Closes(writing'.frame) => ~wireClosing /\ wireClosing'
                 /\ wireClosing' => writing'.frame.kind # "send"
                 /\ writing'.frame = CloseReply => peerFrame' # NoFrame
      BY <3>2, CodeTypes, FrameKinds DEF Closes, PumpCapacity, Reads,
         BeginClose, StartWrite, Advance, Armed
    <3>3. (wireClosing => wireClosing') /\ (peerFrame # NoFrame => peerFrame' #
          NoFrame)
      BY DEF PumpCapacity, Reads, BeginClose, StartWrite, Advance, Armed
    <3>4. pump = "select" /\ UNCHANGED <<toPeer, closeCode>> /\ (UNCHANGED
          cmdq)
      BY DEF PumpCapacity, Reads, BeginClose, StartWrite, Advance, Armed
    <3>5. CloseKept BY DEF Kept
    <3> QED BY <3>1, <3>2, <3>3, <3>4, <3>5, Starts
  <2>3. WireEndKept'
    <3> USE <1>26
    <3>1. wire # <<>> /\ wire' = Tail(wire) /\ UNCHANGED <<peerClosed, wireDead>>
      BY DEF PumpCapacity, Reads, BeginClose, StartWrite, Advance, Armed
    <3> QED BY <3>1, WireTail DEF Kept, WireEndKept
  <2>4. CauseKept'
    <3> USE <1>26
    <3>1. overflowed'
      BY DEF PumpCapacity, Reads, BeginClose, StartWrite, Advance, Armed
    <3> QED BY <3>1 DEF CauseKept
  <2>5. ReceiveErrorsHonest'
    <3> USE <1>26
    <3>1. inOpen
      BY DEF Kept, LifeKept, Finishing, PumpCapacity, Reads, BeginClose,
         StartWrite, Advance, Armed
    <3>2. UNCHANGED <<recvSt, localClosed, claimed>>
      BY DEF PumpCapacity, Reads, BeginClose, StartWrite, Advance, Armed
    <3> QED BY <3>1, <3>2 DEF Kept, ReceiveErrorsHonest
  <2>6. OrderKept' /\ WireKept' /\ BudgetKept' /\ LifeKept' /\ SignalKept' /\ LossOnlyByContract' /\ CloseFrameNotMissed'
    BY <1>26 DEF Kept, PumpCapacity, Reads, BeginClose, StartWrite, Advance,
       Armed, OrderKept, Accepted, WireKept, WireNext, DataAt, BudgetKept,
       InHandBytes, LifeKept, Finishing, SignalKept, LossOnlyByContract,
       CloseFrameNotMissed
  <2> QED BY <2>1, <2>2, <2>3, <2>4, <2>5, <2>6 DEF Kept
<1>27. CASE PumpEnd
  <2>1. OrderKept' BY <1>27 DEF Kept, PumpEnd, Reads, OrderKept, Accepted
  <2>2. WireKept'
    <3> USE <1>27 DEF Kept, PumpEnd, Reads
    <3> DEFINE next == IF Head(wire).kind = "data" THEN Accepted + 2 ELSE
          Accepted + 1
    <3>1. CASE ~wireClosing
      <4>1. next = Accepted + 1 /\ next = WireNext'
     BY DEF WireNext, Accepted
      <4>2. UNCHANGED <<peerSent, wireDead, wireClosing>> /\ wire' = Tail(wire)
            /\ pump = "select" /\ wire # <<>> OBVIOUS
      <4> QED BY <3>1, <4>1, <4>2, WireRest DEF WireKept
    <3> QED BY <3>1 DEF WireKept
  <2>3. BudgetKept'
    BY <1>27 DEF Kept, PumpEnd, Reads, BudgetKept, Accepted, InHandBytes
  <2>4. LifeKept' BY <1>27 DEF Kept, PumpEnd, Reads, LifeKept, Finishing
  <2>5. SendsKept' BY <1>27 DEF Kept, PumpEnd, Reads, SendsKept, Writes
  <2>6. CloseKept' BY <1>27 DEF Kept, PumpEnd, Reads, CloseKept, Writes, Closes
  <2>7. WireEndKept'
    <3> USE <1>27
    <3>1. wire # <<>> /\ wire' = Tail(wire) /\ UNCHANGED <<peerClosed, wireDead>>
      BY DEF PumpEnd, Reads
    <3> QED BY <3>1, WireTail DEF Kept, WireEndKept
  <2>8. CauseKept'
    <3>1. /\ UNCHANGED <<wireClosing, localClosed, overflowed, peerClosed>> /\ pump' = "publish"
          /\ wire' = Tail(wire) /\ wire # <<>> /\ wire \in Seq(WireFrames)
      BY <1>27 DEF PumpEnd, Reads, Typed, PeerTyped
    <3>2. \A k \in DOMAIN wire' : k + 1 \in DOMAIN wire /\ wire'[k] = wire[k + 1] BY <3>1
    <3>3. CauseKept BY DEF Kept
    <3> HIDE <1>27
    <3> QED BY <3>1, <3>2, <3>3 DEF CauseKept
  <2>9. CloseFrameNotMissed'
    <3> USE <1>27
    <3>1. 1 \in DOMAIN wire /\ wire[1].kind = "eof"
      BY WireTail DEF PumpEnd, Reads
    <3>2. wireDead /\ UNCHANGED wireDead
      BY <3>1 DEF Kept, WireEndKept, PumpEnd, Reads
    <3> QED BY <3>2 DEF CloseFrameNotMissed
  <2>10. SignalKept' /\ LossOnlyByContract' /\ ReceiveErrorsHonest'
    BY <1>27 DEF Kept, PumpEnd, Reads, SignalKept, LossOnlyByContract,
       ReceiveErrorsHonest
  <2> QED
    BY <2>1, <2>2, <2>3, <2>4, <2>5, <2>6, <2>7, <2>8, <2>9, <2>10 DEF Kept
<1>28. CASE PumpDeadline
  <2>1. Kept'
    BY <1>28 DEF Kept, PumpDeadline, OrderKept, Accepted, WireKept, WireNext,
       DataAt, BudgetKept, InHandBytes, LifeKept, Finishing, SendsKept, Writes,
       CloseKept, WireEndKept, SignalKept, CauseKept, LossOnlyByContract,
       ReceiveErrorsHonest, CloseFrameNotMissed
  <2> QED BY <2>1 DEF Kept
<1>29. CASE WriteSeesLocalClose
  <2>1. Kept'
    BY <1>29 DEF Kept, WriteSeesLocalClose, Armed, OrderKept, Accepted,
       WireKept, WireNext, DataAt, BudgetKept, InHandBytes, LifeKept,
       Finishing, SendsKept, Writes, CloseKept, WireEndKept, SignalKept,
       CauseKept, LossOnlyByContract, ReceiveErrorsHonest, CloseFrameNotMissed
  <2> QED BY <2>1 DEF Kept
<1>30. CASE WriteTimesOut
  <2>1. OrderKept'
    BY <1>30, WriteTypes DEF Kept, WriteTimesOut, EndWrite, TimedOut, HandOver,
       OrderKept, Accepted
  <2>2. WireKept'
    BY <1>30, WriteTypes DEF Kept, WriteTimesOut, EndWrite, TimedOut, HandOver,
       WireKept, Accepted, WireNext, DataAt
  <2>3. BudgetKept'
    BY <1>30, WriteTypes DEF Kept, WriteTimesOut, EndWrite, TimedOut, HandOver,
       BudgetKept, Accepted, InHandBytes
  <2>4. LifeKept'
    BY <1>30, WriteTypes DEF Kept, WriteTimesOut, EndWrite, TimedOut, HandOver,
       LifeKept, Finishing
  <2>5. SendsKept'
    BY <1>30, Written DEF Kept, WriteTimesOut, EndWrite, TimedOut, HandOver,
       SendsKept
  <2>6. CloseKept'
    BY <1>30, WriteTypes, Ends DEF Kept, WriteTimesOut, EndWrite, TimedOut,
       HandOver, CloseKept, EndWrite
  <2>7. CauseKept'
    BY <1>30, WriteTypes DEF Kept, WriteTimesOut, EndWrite, TimedOut, HandOver,
       CauseKept
  <2>8. CloseFrameNotMissed'
    <3> USE <1>30
    <3>1. pump' = "select" \/ (pump' = "publish" /\ overflowed)
      BY WriteTypes DEF Kept, CauseKept, WriteTimesOut, EndWrite, TimedOut,
         HandOver
    <3>2. UNCHANGED overflowed
      BY DEF WriteTimesOut, EndWrite, TimedOut, HandOver
    <3> QED BY <3>1, <3>2 DEF CloseFrameNotMissed, Finishing
  <2>9. WireEndKept' /\ SignalKept' /\ LossOnlyByContract' /\ ReceiveErrorsHonest'
    BY <1>30 DEF Kept, WriteTimesOut, EndWrite, TimedOut, HandOver,
       WireEndKept, SignalKept, LossOnlyByContract, ReceiveErrorsHonest
  <2> QED BY <2>1, <2>2, <2>3, <2>4, <2>5, <2>6, <2>7, <2>8, <2>9 DEF Kept
<1>31. CASE PumpPublishes
  <2>1. Kept'
    BY <1>31 DEF Kept, PumpPublishes, OrderKept, Accepted, WireKept, WireNext,
       DataAt, BudgetKept, InHandBytes, LifeKept, Finishing, SendsKept, Writes,
       CloseKept, WireEndKept, SignalKept, CauseKept, LossOnlyByContract,
       ReceiveErrorsHonest, CloseFrameNotMissed
  <2> QED BY <2>1 DEF Kept
<1>32. CASE PumpEndsQueue
  <2>1. Kept'
    BY <1>32 DEF Kept, PumpEndsQueue, OrderKept, Accepted, WireKept, WireNext,
       DataAt, BudgetKept, InHandBytes, LifeKept, Finishing, SendsKept, Writes,
       CloseKept, WireEndKept, SignalKept, CauseKept, LossOnlyByContract,
       ReceiveErrorsHonest, CloseFrameNotMissed
  <2> QED BY <2>1 DEF Kept
<1>33. CASE PumpClosesCmds
  <2>1. Kept'
    BY <1>33 DEF Kept, PumpClosesCmds, OrderKept, Accepted, WireKept, WireNext,
       DataAt, BudgetKept, InHandBytes, LifeKept, Finishing, SendsKept, Writes,
       CloseKept, WireEndKept, SignalKept, CauseKept, LossOnlyByContract,
       ReceiveErrorsHonest, CloseFrameNotMissed
  <2> QED BY <2>1 DEF Kept
<1>34. CASE PumpDrains
  <2>1. SendsKept'
    <3> USE <1>34 DEF Kept, PumpDrains
    <3>1. cmdq' = <<>> /\ pump' = "latch" /\ pump = "drain" OBVIOUS
    <3>2. Once(cmdq') BY <3>1 DEF Once
    <3>3. \A g : ~In(g, cmdq') BY <3>1 DEF In
    <3>4. \A s \in Sends : ~Writes(DataFrame(s)) /\ ~Writes(DataFrame(s))'
      BY <3>1 DEF Writes
    <3>5. \A s \in Sends : DataFrame(s) \in {cmdq[k] : k \in DOMAIN cmdq} <=> In(DataFrame(s), cmdq)
      BY DEF In
    <3>6. \A s \in Sends : sendSt'[s] = IF In(DataFrame(s), cmdq) THEN "closed" ELSE sendSt[s]
      BY <3>5
    <3>7. \A s \in Sends : sendSt[s] = "queued" <=> In(DataFrame(s), cmdq)
      BY <3>4 DEF SendsKept
    <3> QED BY <3>2, <3>3, <3>4, <3>6, <3>7 DEF SendsKept
  <2>2. OrderKept' /\ WireKept' /\ BudgetKept' /\ LifeKept' /\ CloseKept' /\ WireEndKept' /\ SignalKept' /\ CauseKept' /\ LossOnlyByContract' /\ ReceiveErrorsHonest' /\ CloseFrameNotMissed'
    BY <1>34 DEF Kept, PumpDrains, OrderKept, Accepted, WireKept, WireNext,
       DataAt, BudgetKept, InHandBytes, LifeKept, Finishing, CloseKept, Writes,
       WireEndKept, SignalKept, CauseKept, LossOnlyByContract,
       ReceiveErrorsHonest, CloseFrameNotMissed
  <2> QED BY <2>1, <2>2 DEF Kept
<1>35. CASE PumpLatches
  <2>1. LifeKept'
    <3> USE <1>35 DEF Kept, PumpLatches, Advance
    <3>1. state \in {"open", "closing", "closed"} BY DEF Typed, ChannelsTyped
    <3>2. state' = "closed" BY <3>1 DEF Rank
    <3> QED BY <3>2 DEF LifeKept, Finishing
  <2>2. OrderKept' /\ WireKept' /\ BudgetKept' /\ SendsKept' /\ CloseKept' /\ WireEndKept' /\ SignalKept' /\ CauseKept' /\ LossOnlyByContract' /\ ReceiveErrorsHonest' /\ CloseFrameNotMissed'
    BY <1>35 DEF Kept, PumpLatches, Advance, OrderKept, Accepted, WireKept,
       WireNext, DataAt, BudgetKept, InHandBytes, SendsKept, Writes, CloseKept,
       WireEndKept, SignalKept, CauseKept, LossOnlyByContract,
       ReceiveErrorsHonest, CloseFrameNotMissed, Finishing
  <2> QED BY <2>1, <2>2 DEF Kept
<1>36. CASE PumpFires
  <2>1. Kept'
    BY <1>36 DEF Kept, PumpFires, OrderKept, Accepted, WireKept, WireNext,
       DataAt, BudgetKept, InHandBytes, LifeKept, Finishing, SendsKept, Writes,
       CloseKept, WireEndKept, SignalKept, CauseKept, LossOnlyByContract,
       ReceiveErrorsHonest, CloseFrameNotMissed
  <2> QED BY <2>1 DEF Kept
<1>37. CASE WriteAccepted
  <2>1. OrderKept'
    BY <1>37, WriteTypes DEF Kept, WriteAccepted, EndWrite, HandOver,
       OrderKept, Accepted
  <2>2. WireKept'
    BY <1>37, WriteTypes DEF Kept, WriteAccepted, EndWrite, HandOver, WireKept,
       Accepted, WireNext, DataAt
  <2>3. BudgetKept'
    BY <1>37, WriteTypes DEF Kept, WriteAccepted, EndWrite, HandOver,
       BudgetKept, Accepted, InHandBytes
  <2>4. LifeKept'
    BY <1>37, WriteTypes DEF Kept, WriteAccepted, EndWrite, HandOver, LifeKept,
       Finishing
  <2>5. SendsKept'
    BY <1>37, Written DEF Kept, WriteAccepted, EndWrite, HandOver, SendsKept
  <2>6. CloseKept'
    BY <1>37, WriteTypes, Ends DEF Kept, WriteAccepted, EndWrite, HandOver,
       CloseKept, EndWrite
  <2>7. CauseKept'
    BY <1>37, WriteTypes DEF Kept, WriteAccepted, EndWrite, HandOver, CauseKept
  <2>8. CloseFrameNotMissed'
    <3> USE <1>37
    <3>1. pump' = "select" \/ (pump' = "publish" /\ overflowed)
      BY WriteTypes DEF Kept, CauseKept, WriteAccepted, EndWrite, HandOver
    <3>2. UNCHANGED overflowed BY DEF WriteAccepted, EndWrite, HandOver
    <3> QED BY <3>1, <3>2 DEF CloseFrameNotMissed, Finishing
  <2>9. WireEndKept' /\ SignalKept' /\ LossOnlyByContract' /\ ReceiveErrorsHonest'
    BY <1>37 DEF Kept, WriteAccepted, EndWrite, HandOver, WireEndKept,
       SignalKept, LossOnlyByContract, ReceiveErrorsHonest
  <2> QED BY <2>1, <2>2, <2>3, <2>4, <2>5, <2>6, <2>7, <2>8, <2>9 DEF Kept
<1>38. CASE WriteFails
  <2>1. OrderKept'
    BY <1>38, WriteTypes DEF Kept, WriteFails, EndWrite, HandOver, Armed,
       OrderKept, Accepted
  <2>2. WireKept'
    BY <1>38, WriteTypes DEF Kept, WriteFails, EndWrite, HandOver, Armed,
       WireKept, Accepted, WireNext, DataAt
  <2>3. BudgetKept'
    BY <1>38, WriteTypes DEF Kept, WriteFails, EndWrite, HandOver, Armed,
       BudgetKept, Accepted, InHandBytes
  <2>4. LifeKept'
    BY <1>38, WriteTypes DEF Kept, WriteFails, EndWrite, HandOver, Armed,
       LifeKept, Finishing
  <2>5. SendsKept'
    <3> USE <1>38 DEF Kept, WriteFails, EndWrite, HandOver, Armed
    <3>1. PICK result \in {"closed", "other"} : EndWrite(result) OBVIOUS
    <3> QED BY <3>1, Written
  <2>6. CloseKept'
    BY <1>38, WriteTypes, Ends DEF Kept, WriteFails, EndWrite, HandOver, Armed,
       CloseKept, EndWrite
  <2>7. CauseKept'
    BY <1>38, WriteTypes DEF Kept, WriteFails, EndWrite, HandOver, Armed,
       CauseKept
  <2>8. CloseFrameNotMissed'
    <3> USE <1>38
    <3>1. pump' = "select" \/ (pump' = "publish" /\ overflowed)
      BY WriteTypes DEF Kept, CauseKept, WriteFails, EndWrite, HandOver, Armed
    <3>2. UNCHANGED overflowed BY DEF WriteFails, EndWrite, HandOver, Armed
    <3> QED BY <3>1, <3>2 DEF CloseFrameNotMissed, Finishing
  <2>9. WireEndKept' /\ SignalKept' /\ LossOnlyByContract' /\ ReceiveErrorsHonest'
    BY <1>38 DEF Kept, WriteFails, EndWrite, HandOver, Armed, WireEndKept,
       SignalKept, LossOnlyByContract, ReceiveErrorsHonest
  <2> QED BY <2>1, <2>2, <2>3, <2>4, <2>5, <2>6, <2>7, <2>8, <2>9 DEF Kept
<1>39. CASE PeerData
  <2>1. WireKept'
    <3> USE <1>39 DEF Kept, PeerData, PeerOnly, PeerPuts
    <3>1. CASE ~wireClosing
      <4>1. wire \in Seq(WireFrames) /\ peerSent \in 0 .. MaxMsgs /\ Len(wire)
            \in Nat /\ MaxMsgs \in Nat
        BY SizesAssumption DEF Typed, PeerTyped
      <4>2. PICK last \in Nat : last = Len(wire) + 1
        BY <4>1
      <4>3. /\ DOMAIN wire = 1 .. last - 1 /\ DOMAIN wire' = 1 .. last
            /\ \A k \in 1 .. last - 1 : wire'[k] = wire[k]
            /\ wire'[last] = [kind |-> "data", arg |-> peerSent + 1]
        BY <4>1, <4>2
      <4>5. WireNext' = WireNext /\ WireNext \in Nat /\ peerSent' = peerSent +
            1 /\ ~wireDead
        BY Lens DEF WireNext, Accepted, PeerCanSend
      <4>6. ASSUME NEW k \in 1 .. last - 1, NEW m PROVE DataAt(k, m)' <=>
            DataAt(k, m)
        BY <4>3 DEF DataAt
      <4>7. ASSUME NEW m PROVE DataAt(last, m)' <=> m = peerSent + 1
        BY <4>3 DEF DataAt
      <4>8. /\ WireNext =< peerSent + 1
            /\ \A n \in WireNext .. peerSent : \E k \in DOMAIN wire : DataAt(k, n)
            /\ \A k \in DOMAIN wire : \A m \in MsgIds : DataAt(k, m) =>
                 /\ WireNext =< m /\ m =< peerSent
                 /\ \A j \in DOMAIN wire : DataAt(j, m) => j = k
                 /\ \A n \in WireNext .. m - 1 : \E j \in 1 .. k - 1 : DataAt(j, n)
        BY <3>1, <4>5 DEF WireKept
      <4>9. ASSUME NEW k \in DOMAIN wire', NEW m \in MsgIds, DataAt(k, m)'
            PROVE  /\ WireNext =< m /\ m =< peerSent + 1
                   /\ \A j \in DOMAIN wire' : DataAt(j, m)' => j = k
                   /\ \A n \in WireNext .. m - 1 : \E j \in 1 .. k - 1 : DataAt(j, n)'
        <5>1. CASE k \in 1 .. last - 1
          <6>1. DataAt(k, m) /\ k \in DOMAIN wire BY <4>3, <4>6, <4>9, <5>1
          <6>2. \A j \in DOMAIN wire' : DataAt(j, m)' => j = k
            BY <4>1, <4>3, <4>6, <4>7, <4>8, <6>1
          <6>3. \A n \in WireNext .. m - 1 : \E j \in 1 .. k - 1 : DataAt(j, n)'
            BY <4>6, <4>8, <5>1, <6>1
          <6>4. WireNext =< m /\ m =< peerSent BY <4>8, <6>1
          <6>5. m \in Nat BY <4>1 DEF MsgIds
          <6>6. m =< peerSent + 1 BY <4>1, <6>4, <6>5
          <6> QED BY <6>2, <6>3, <6>4, <6>6
        <5>2. CASE k = last
          <6>1. m = peerSent + 1 BY <4>7, <4>9, <5>2
          <6>2. \A j \in DOMAIN wire' : DataAt(j, m)' => j = k
            BY <4>1, <4>3, <4>6, <4>8, <5>2, <6>1
          <6>3. \A n \in WireNext .. m - 1 : \E j \in 1 .. k - 1 : DataAt(j, n)'
            BY <4>1, <4>3, <4>6, <4>8, <5>2, <6>1
          <6> QED BY <4>1, <4>8, <6>1, <6>2, <6>3
        <5> QED BY <4>2, <4>3, <5>1, <5>2
      <4>10. \A n \in WireNext .. peerSent + 1 : \E k \in DOMAIN wire' : DataAt(k, n)'
        BY <4>1, <4>2, <4>3, <4>5, <4>6, <4>7, <4>8
      <4> QED BY <4>1, <4>5, <4>8, <4>9, <4>10 DEF WireKept
    <3> QED BY <3>1 DEF WireKept
  <2>2. WireEndKept'
    <3> USE <1>39
    <3>1. wire' = Append(wire, [kind |-> "data", arg |-> peerSent + 1]) /\ ~peerClosed
      BY DEF PeerData, PeerOnly, PeerPuts, PeerCanSend
    <3>2. \A k \in DOMAIN wire : wire[k].kind # "close"
      BY <3>1 DEF Kept, WireEndKept
    <3> QED
      BY <3>1, <3>2, Puts DEF Kept, WireEndKept, PeerData, PeerOnly, PeerPuts
  <2>3. CauseKept'
    <3> USE <1>39
    <3>1. ~peerClosed /\ UNCHANGED <<localClosed, overflowed, wireClosing, pump, writing>>
      BY DEF PeerData, PeerOnly, PeerPuts, PeerCanSend
    <3> QED BY <3>1 DEF Kept, CauseKept
  <2>4. OrderKept' /\ BudgetKept' /\ LifeKept' /\ SendsKept' /\ CloseKept' /\ SignalKept' /\ LossOnlyByContract' /\ ReceiveErrorsHonest' /\ CloseFrameNotMissed'
    BY <1>39 DEF Kept, PeerData, PeerOnly, PeerPuts, OrderKept, Accepted,
       BudgetKept, InHandBytes, LifeKept, Finishing, SendsKept, Writes,
       CloseKept, SignalKept, LossOnlyByContract, ReceiveErrorsHonest,
       CloseFrameNotMissed
  <2> QED BY <2>1, <2>2, <2>3, <2>4 DEF Kept
<1>40. CASE PeerPing
  <2>1. WireKept'
    BY <1>40, ControlPut
    DEF Kept, PeerPing, PeerOnly, PeerPuts, pumpVars, seen, channels, pumpRest
  <2>2. WireEndKept'
    <3> USE <1>40
    <3>1. wire' = Append(wire, [kind |-> "ping", arg |-> 0]) /\ ~peerClosed
      BY DEF PeerPing, PeerOnly, PeerPuts, PeerCanSend
    <3>2. \A k \in DOMAIN wire : wire[k].kind # "close"
      BY <3>1 DEF Kept, WireEndKept
    <3> QED
      BY <3>1, <3>2, Puts DEF Kept, WireEndKept, PeerPing, PeerOnly, PeerPuts
  <2>3. CauseKept' BY <1>40 DEF Kept, PeerPing, PeerOnly, PeerPuts, CauseKept
  <2>4. OrderKept' /\ BudgetKept' /\ LifeKept' /\ SendsKept' /\ CloseKept' /\ SignalKept' /\ LossOnlyByContract' /\ ReceiveErrorsHonest' /\ CloseFrameNotMissed'
    BY <1>40 DEF Kept, PeerPing, PeerOnly, PeerPuts, OrderKept, Accepted,
       BudgetKept, InHandBytes, LifeKept, Finishing, SendsKept, Writes,
       CloseKept, SignalKept, LossOnlyByContract, ReceiveErrorsHonest,
       CloseFrameNotMissed
  <2> QED BY <2>1, <2>2, <2>3, <2>4 DEF Kept
<1>41. CASE PeerBig
  <2>1. WireEndKept'
    <3> USE <1>41
    <3>1. wire' = Append(wire, [kind |-> "big", arg |-> 0]) /\ ~peerClosed
      BY DEF PeerBig, PeerOnly, PeerPuts, PeerCanSend
    <3>2. \A k \in DOMAIN wire : wire[k].kind # "close"
      BY <3>1 DEF Kept, WireEndKept
    <3> QED
      BY <3>1, <3>2, Puts DEF Kept, WireEndKept, PeerBig, PeerOnly, PeerPuts
  <2>2. OrderKept' /\ BudgetKept' /\ LifeKept' /\ SendsKept' /\ CloseKept' /\ SignalKept' /\ CauseKept' /\ LossOnlyByContract' /\ ReceiveErrorsHonest' /\ CloseFrameNotMissed'
    BY <1>41 DEF Kept, PeerBig, PeerOnly, PeerPuts, OrderKept, Accepted,
       BudgetKept, InHandBytes, LifeKept,
       Finishing, SendsKept, Writes, CloseKept, SignalKept, CauseKept,
       LossOnlyByContract, ReceiveErrorsHonest, CloseFrameNotMissed
  <2>3. WireKept'
    BY <1>41, ControlPut
    DEF Kept, PeerBig, PeerOnly, PeerPuts, pumpVars, seen, channels, pumpRest
  <2> QED BY <2>1, <2>2, <2>3 DEF Kept
<1>42. ASSUME NEW code \in PeerCodes, PeerClose(code) PROVE Kept'
  <2>1. WireEndKept'
    <3> USE <1>42
    <3>1. wire' = Append(wire, [kind |-> "close", arg |-> code]) /\ ~peerClosed
      BY DEF PeerClose, PeerOnly, PeerPuts, PeerCanSend
    <3>2. \A k \in DOMAIN wire : wire[k].kind # "close"
      BY <3>1 DEF Kept, WireEndKept
    <3> QED
      BY <3>1, <3>2, Puts DEF Kept, WireEndKept, PeerClose, PeerOnly, PeerPuts
  <2>2. OrderKept' /\ BudgetKept' /\ LifeKept' /\ SendsKept' /\ CloseKept' /\ SignalKept' /\ CauseKept' /\ LossOnlyByContract' /\ ReceiveErrorsHonest' /\ CloseFrameNotMissed'
    BY <1>42 DEF Kept, PeerClose, PeerOnly, PeerPuts, OrderKept, Accepted,
       BudgetKept, InHandBytes, LifeKept,
       Finishing, SendsKept, Writes, CloseKept, SignalKept, CauseKept,
       LossOnlyByContract, ReceiveErrorsHonest, CloseFrameNotMissed
  <2>3. WireKept'
    BY <1>42, ControlPut
    DEF Kept, PeerClose, PeerOnly, PeerPuts, pumpVars, seen, channels, pumpRest
  <2> QED BY <2>1, <2>2, <2>3 DEF Kept
<1>43. CASE TransportEnds
  <2>1. WireKept'
    <3> USE <1>43
    <3>1. PICK n \in 0 .. Len(wire) : wire' = Append(SubSeq(wire, 1, n), [kind
          |-> "eof", arg |-> 0])
      BY DEF TransportEnds, PeerOnly
    <3>2. wire \in Seq(WireFrames) BY DEF Typed, PeerTyped
    <3>3. /\ DOMAIN wire = 1 .. Len(wire) /\ DOMAIN wire' = 1 .. n + 1 /\ n \in Nat /\ n =< Len(wire)
          /\ Len(wire) \in Nat
          /\ \A k \in 1 .. n : wire'[k] = wire[k]
          /\ wire'[n + 1].kind = "eof"
      BY <3>1, <3>2
    <3>4. \A k \in DOMAIN wire' : \A m \in MsgIds :
            DataAt(k, m)' => k \in 1 .. n /\ k \in DOMAIN wire /\ DataAt(k, m)
      BY <3>3 DEF DataAt
    <3>5. \A k \in 1 .. n : \A m : DataAt(k, m) => DataAt(k, m)' /\ k \in DOMAIN wire'
      BY <3>3 DEF DataAt
    <3>6. wireDead' /\ WireNext' = WireNext /\ UNCHANGED <<wireClosing,
          peerSent>>
      BY DEF TransportEnds, PeerOnly, WireNext, Accepted
    <3>7. WireKept BY DEF Kept
    <3>8. ASSUME ~wireClosing, NEW k \in DOMAIN wire', NEW m \in MsgIds,
          DataAt(k, m)'
          PROVE  /\ WireNext =< m /\ m =< peerSent
                 /\ \A j \in DOMAIN wire' : DataAt(j, m)' => j = k
                 /\ \A i \in WireNext .. m - 1 : \E j \in 1 .. k - 1 : DataAt(j, i)'
      <4>1. k \in 1 .. n /\ k \in DOMAIN wire /\ DataAt(k, m) BY <3>4, <3>8
      <4>2. /\ WireNext =< m /\ m =< peerSent
            /\ \A j \in DOMAIN wire : DataAt(j, m) => j = k
            /\ \A i \in WireNext .. m - 1 : \E j \in 1 .. k - 1 : DataAt(j, i)
        BY <3>7, <3>8, <4>1 DEF WireKept
      <4>3. \A j \in DOMAIN wire' : DataAt(j, m)' => j = k BY <4>2, <3>4
      <4>4. \A j \in 1 .. k - 1 : j \in 1 .. n BY <4>1, <3>3
      <4>5. \A i \in WireNext .. m - 1 : \E j \in 1 .. k - 1 : DataAt(j, i)'
        BY <4>2, <4>4, <3>5
      <4> QED BY <4>2, <4>3, <4>5
    <3> QED BY <3>6, <3>7, <3>8 DEF WireKept
  <2>2. WireEndKept' BY <1>43 DEF Kept, TransportEnds, PeerOnly, WireEndKept
  <2>3. CauseKept' BY <1>43 DEF Kept, TransportEnds, PeerOnly, CauseKept
  <2>4. CloseFrameNotMissed'
    BY <1>43 DEF Kept, TransportEnds, PeerOnly, CloseFrameNotMissed, Finishing
  <2>5. OrderKept' /\ BudgetKept' /\ LifeKept' /\ SendsKept' /\ CloseKept' /\ SignalKept' /\ LossOnlyByContract' /\ ReceiveErrorsHonest'
    BY <1>43 DEF Kept, TransportEnds, PeerOnly, OrderKept, Accepted,
       BudgetKept, InHandBytes, LifeKept, Finishing, SendsKept, Writes,
       CloseKept, SignalKept, LossOnlyByContract, ReceiveErrorsHonest
  <2> QED BY <2>1, <2>2, <2>3, <2>4, <2>5 DEF Kept
<1>44. CASE DeadlineExpires
  <2>1. Kept'
    BY <1>44 DEF Kept, DeadlineExpires, OrderKept, Accepted, WireKept,
       WireNext, DataAt, BudgetKept, InHandBytes, LifeKept, Finishing,
       SendsKept, Writes, CloseKept, WireEndKept, SignalKept, CauseKept,
       LossOnlyByContract, ReceiveErrorsHonest, CloseFrameNotMissed
  <2> QED BY <2>1 DEF Kept
<1>45. CASE UNCHANGED vars
  <2>1. Kept'
    BY <1>45 DEF Kept, vars, OrderKept, Accepted, WireKept, WireNext, DataAt,
       BudgetKept, InHandBytes, LifeKept, Finishing, SendsKept, Writes,
       CloseKept, WireEndKept, SignalKept, CauseKept, LossOnlyByContract,
       ReceiveErrorsHonest, CloseFrameNotMissed
  <2> QED BY <2>1 DEF Kept
<1> QED
  BY <1>1, <1>2, <1>3, <1>4, <1>5, <1>6, <1>7, <1>8, <1>9, <1>10, <1>11, <1>12,
     <1>13, <1>14, <1>15, <1>16, <1>17, <1>18, <1>19, <1>20, <1>21, <1>22,
     <1>23, <1>24, <1>25, <1>26, <1>27, <1>28, <1>29, <1>30, <1>31, <1>32,
     <1>33, <1>34, <1>35, <1>36, <1>37, <1>38, <1>39, <1>40, <1>41, <1>42,
     <1>43, <1>44, <1>45 DEF Next, GuestCalls, GuestStep, ReceivePoll,
     StreamPoll, PumpStep, TransportStep, PeerStep

\* The types and the invariant hold in every reachable state.
THEOREM Inductive == Spec => [](Typed /\ Kept)
<1>1. Init => Typed /\ Kept BY InitTyped, InitKept
<1>2. Typed /\ Kept /\ [Next]_vars => (Typed /\ Kept)' BY NextTyped, NextKept
<1> QED BY <1>1, <1>2, PTL DEF Spec
=============================================================================
