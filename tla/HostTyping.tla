----------------------------- MODULE HostTyping -----------------------------
(***************************************************************************)
(* Type correctness of HostConnection, for every value of its constants:   *)
(* whatever the numbers of calls, messages and frames, and whatever the    *)
(* sizes and the limit, every step keeps every variable in its type.       *)
(*                                                                         *)
(* The close codes are used through CodeTypes only, so that their numerals *)
(* stay out of the obligations.                                            *)
(***************************************************************************)
EXTENDS HostProperties, TLAPS

\* The largest code leaves room for the code of a missing status.
LEMMA CodeBound ==
  MaxCode \in Nat /\ MaxCode >= NoStatusReceived /\ NoStatusReceived \in Nat
BY DEF MaxCode, NoStatusReceived

\* A missing code is a close code, and what close_info_from reports of a code
\* is an outcome, never the one that stands for no frame.
LEMMA CodeTypes ==
  /\ MaxCode \in Nat /\ NoCode \in CloseCode
  /\ \A code \in CloseCode : CloseInfoFrom(code) \in Outcomes \ {NoFrame}
BY CodeBound DEF CloseCode, NoCode, Outcomes, NoFrame, CloseInfoFrom

\* What the pump writes is a frame.
LEMMA FrameTypes ==
  /\ \A s \in Sends : DataFrame(s) \in Frames
  /\ \A code \in CloseCode : CloseFrame(code) \in Frames
  /\ CloseReply \in Frames /\ Pong \in Frames
  /\ NoWrite \in [frame : Frames, bound : {"local", "deadline"},
                  then : {"select", "publish"}]
<1>1. CloseReply \in Frames /\ Pong \in Frames
  BY CodeTypes DEF CloseReply, Pong, Frames
<1>2. \A s \in Sends : DataFrame(s) \in Frames
  BY CodeTypes DEF DataFrame, Frames
<1>3. \A code \in CloseCode : CloseFrame(code) \in Frames
  BY DEF CloseFrame, Frames
<1> QED BY <1>1, <1>2, <1>3 DEF NoWrite

\* The size of a message is a number of bytes.
LEMMA SizeTypes == \A i \in MsgIds : Size(i) \in Nat
BY SizesAssumption DEF Size, MsgIds

\* The heads of the three queues: a command, a message number, a frame of the
\* peer whose argument is what its kind says.
LEMMA HeadTypes ==
  ASSUME Typed
  PROVE  /\ cmdq # <<>> => Head(cmdq) \in Frames /\ Head(cmdq).code \in CloseCode
         /\ inq # <<>> => Head(inq) \in MsgIds
         /\ wire # <<>> => /\ Head(wire).kind = "data" => Head(wire).arg \in MsgIds
                           /\ Head(wire).kind = "close" => Head(wire).arg \in CloseCode
<1>1. cmdq # <<>> => Head(cmdq) \in Frames BY DEF Typed, ChannelsTyped
<1>2. inq # <<>> => Head(inq) \in MsgIds BY DEF Typed, ChannelsTyped
<1>3. wire # <<>> => Head(wire) \in WireFrames BY DEF Typed, PeerTyped
<1> QED BY <1>1, <1>2, <1>3 DEF Frames, WireFrames

\* The connection starts well typed.
LEMMA InitTyped == Init => Typed
<1> SUFFICES ASSUME Init PROVE Typed
  OBVIOUS
<1> USE DEF Init
<1>1. FlagsTyped BY DEF FlagsTyped
<1>2. ChannelsTyped BY CodeTypes DEF ChannelsTyped, Unset
<1>3. GuestTyped BY SizesAssumption, CodeTypes DEF GuestTyped
<1>4. PumpTyped
  BY SizesAssumption, CodeTypes, FrameTypes DEF PumpTyped, Outcomes, NoFrame
<1>5. PeerTyped /\ SeenTyped BY SizesAssumption DEF PeerTyped, SeenTyped
<1> QED BY <1>1, <1>2, <1>3, <1>4, <1>5 DEF Typed

\* Every step of the guest, the pump, the peer and the clock keeps the types:
\* one step of the proof for each action, one leaf for each group it disturbs.
LEMMA NextTyped == Typed /\ [Next]_vars => Typed'
<1> SUFFICES ASSUME Typed, [Next]_vars PROVE Typed'
  OBVIOUS
<1> USE DEF Typed, shared, resource, channels, budget, guestVars, pumpVars,
            pumpRest, peerVars, seen
<1>1. ASSUME NEW s \in Sends, Send(s) PROVE Typed'
  <2> USE <1>1 DEF Send
  <2>1. FlagsTyped' BY DEF FlagsTyped
  <2>2. ChannelsTyped'
    <3>1. DataFrame(s) \in Frames BY FrameTypes
    <3> QED BY <3>1 DEF ChannelsTyped
  <2>3. GuestTyped' BY DEF GuestTyped
  <2>4. PumpTyped' /\ PeerTyped' /\ SeenTyped' BY DEF PumpTyped, PeerTyped,
        SeenTyped
  <2> QED BY <2>1, <2>2, <2>3, <2>4
<1>2. ASSUME NEW req \in CloseRequests, Close(req) PROVE Typed'
  <2> USE <1>2 DEF Close, Advance
  <2>1. FlagsTyped' BY DEF FlagsTyped
  <2>2. ChannelsTyped' BY DEF ChannelsTyped
  <2>3. GuestTyped' BY CodesAssumption DEF GuestTyped
  <2>4. PumpTyped' /\ PeerTyped' /\ SeenTyped' BY DEF PumpTyped, PeerTyped,
        SeenTyped
  <2> QED BY <2>1, <2>2, <2>3, <2>4
<1>3. ASSUME NEW r \in Receives, Receive(r) PROVE Typed'
  <2> USE <1>3 DEF Receive
  <2>1. FlagsTyped' BY DEF FlagsTyped
  <2>2. GuestTyped' BY DEF GuestTyped
  <2>3. ChannelsTyped' /\ PumpTyped' /\ PeerTyped' /\ SeenTyped' BY DEF
        ChannelsTyped, PumpTyped, PeerTyped, SeenTyped
  <2> QED BY <2>1, <2>2, <2>3
<1>4. CASE Drop
  <2> USE <1>4 DEF Drop, Advance
  <2>1. FlagsTyped' BY DEF FlagsTyped
  <2>2. ChannelsTyped' BY DEF ChannelsTyped
  <2>3. GuestTyped' BY CodeTypes DEF GuestTyped
  <2>4. PumpTyped' /\ PeerTyped' /\ SeenTyped' BY DEF PumpTyped, PeerTyped,
        SeenTyped
  <2> QED BY <2>1, <2>2, <2>3, <2>4
<1>5. CASE ReceiveViaStream
  <2> USE <1>5 DEF ReceiveViaStream
  <2>1. FlagsTyped' BY DEF FlagsTyped
  <2>2. GuestTyped' BY DEF GuestTyped
  <2>3. ChannelsTyped' /\ PumpTyped' /\ PeerTyped' /\ SeenTyped' BY DEF
        ChannelsTyped, PumpTyped, PeerTyped, SeenTyped
  <2> QED BY <2>1, <2>2, <2>3
<1>6. CASE StreamRead
  <2> USE <1>6 DEF StreamRead
  <2>1. FlagsTyped' BY DEF FlagsTyped
  <2>2. GuestTyped' BY DEF GuestTyped
  <2>3. ChannelsTyped' /\ PumpTyped' /\ PeerTyped' /\ SeenTyped' BY DEF
        ChannelsTyped, PumpTyped, PeerTyped, SeenTyped
  <2> QED BY <2>1, <2>2, <2>3
<1>7. CASE StreamDropped
  <2> USE <1>7 DEF StreamDropped, Released
  <2>1. FlagsTyped' BY DEF FlagsTyped
  <2>2. GuestTyped' BY DEF GuestTyped
  <2>3. ChannelsTyped' /\ PumpTyped' /\ PeerTyped' /\ SeenTyped' BY DEF
        ChannelsTyped, PumpTyped, PeerTyped, SeenTyped
  <2> QED BY <2>1, <2>2, <2>3
<1>8. CASE WaitClosed
  <2> USE <1>8 DEF WaitClosed, ClosedSignalled
  <2>1. FlagsTyped' BY DEF FlagsTyped
  <2>2. SeenTyped' BY CodeTypes DEF SeenTyped, Outcomes, NoFrame, Unset,
        ChannelsTyped
  <2>3. ChannelsTyped' /\ GuestTyped' /\ PumpTyped' /\ PeerTyped' BY DEF
        ChannelsTyped, GuestTyped, PumpTyped, PeerTyped
  <2> QED BY <2>1, <2>2, <2>3
<1>9. CASE CloseFires
  <2> USE <1>9 DEF CloseFires
  <2>1. FlagsTyped' BY DEF FlagsTyped
  <2>2. GuestTyped' BY DEF GuestTyped
  <2>3. ChannelsTyped' /\ PumpTyped' /\ PeerTyped' /\ SeenTyped' BY DEF
        ChannelsTyped, PumpTyped, PeerTyped, SeenTyped
  <2> QED BY <2>1, <2>2, <2>3
<1>10. CASE CloseEnqueues
  <2> USE <1>10 DEF CloseEnqueues
  <2>1. FlagsTyped' BY DEF FlagsTyped
  <2>2. ChannelsTyped' BY FrameTypes DEF ChannelsTyped, GuestTyped
  <2>3. GuestTyped' BY CodeTypes DEF GuestTyped
  <2>4. PumpTyped' /\ PeerTyped' /\ SeenTyped' BY DEF PumpTyped, PeerTyped,
        SeenTyped
  <2> QED BY <2>1, <2>2, <2>3, <2>4
<1>11. CASE ReaderReleases
  <2> USE <1>11 DEF ReaderReleases
  <2>1. FlagsTyped' BY DEF FlagsTyped
  <2>2. ChannelsTyped' BY SizeTypes DEF ChannelsTyped, GuestTyped
  <2>3. GuestTyped' BY SizesAssumption DEF GuestTyped
  <2>4. PumpTyped' /\ PeerTyped' /\ SeenTyped' BY DEF PumpTyped, PeerTyped,
        SeenTyped
  <2> QED BY <2>1, <2>2, <2>3, <2>4
<1>12. ASSUME NEW r \in Receives, ReceiveSignalled(r) PROVE Typed'
  <2> USE <1>12 DEF ReceiveSignalled, Released, NotSignalled
  <2>1. FlagsTyped' BY DEF FlagsTyped
  <2>2. GuestTyped' BY DEF GuestTyped
  <2>3. ChannelsTyped' /\ PumpTyped' /\ PeerTyped' /\ SeenTyped' BY DEF
        ChannelsTyped, PumpTyped, PeerTyped, SeenTyped
  <2> QED BY <2>1, <2>2, <2>3
<1>13. ASSUME NEW r \in Receives, ReceiveLocks(r) PROVE Typed'
  <2> USE <1>13 DEF ReceiveLocks
  <2>1. FlagsTyped' BY DEF FlagsTyped
  <2>2. GuestTyped' BY DEF GuestTyped
  <2>3. ChannelsTyped' /\ PumpTyped' /\ PeerTyped' /\ SeenTyped' BY DEF
        ChannelsTyped, PumpTyped, PeerTyped, SeenTyped
  <2> QED BY <2>1, <2>2, <2>3
<1>14. ASSUME NEW r \in Receives, ReceiveTakes(r) PROVE Typed'
  <2> USE <1>14 DEF ReceiveTakes, TakeHead
  <2>1. FlagsTyped' BY DEF FlagsTyped
  <2>2. ChannelsTyped' BY DEF ChannelsTyped
  <2>3. GuestTyped' BY SizesAssumption, HeadTypes DEF GuestTyped,
        ChannelsTyped, MsgIds
  <2>4. SeenTyped' BY DEF SeenTyped, ChannelsTyped
  <2>5. PumpTyped' /\ PeerTyped' BY DEF PumpTyped, PeerTyped
  <2> QED BY <2>1, <2>2, <2>3, <2>4, <2>5
<1>15. ASSUME NEW r \in Receives, ReceiveEnds(r) PROVE Typed'
  <2> USE <1>15 DEF ReceiveEnds, EndOutcome
  <2>1. FlagsTyped' BY DEF FlagsTyped
  <2>2. GuestTyped' BY DEF GuestTyped
  <2>3. ChannelsTyped' /\ PumpTyped' /\ PeerTyped' /\ SeenTyped' BY DEF
        ChannelsTyped, PumpTyped, PeerTyped, SeenTyped
  <2> QED BY <2>1, <2>2, <2>3
<1>16. CASE StreamLocks
  <2> USE <1>16 DEF StreamLocks
  <2>1. FlagsTyped' BY DEF FlagsTyped
  <2>2. GuestTyped' BY DEF GuestTyped
  <2>3. ChannelsTyped' /\ PumpTyped' /\ PeerTyped' /\ SeenTyped' BY DEF
        ChannelsTyped, PumpTyped, PeerTyped, SeenTyped
  <2> QED BY <2>1, <2>2, <2>3
<1>17. CASE StreamTakes
  <2> USE <1>17 DEF StreamTakes, TakeHead
  <2>1. FlagsTyped' BY DEF FlagsTyped
  <2>2. ChannelsTyped' BY DEF ChannelsTyped
  <2>3. GuestTyped'
    <3>1. Head(inq) \in MsgIds /\ MaxMsgs \in Nat BY HeadTypes, SizesAssumption
    <3>2. inHand' \in MsgIds /\ inHand' \in 0 .. MaxMsgs BY <3>1 DEF MsgIds
    <3>3. streamSt' \in {"unclaimed", "idle", "pending", "ended"} /\ op' = "release"
          /\ holder' \in Receives \cup {NoCall, "stream"}
      BY DEF GuestTyped
    <3>4. UNCHANGED <<closeCode, sendSt, recvSt>> OBVIOUS
    <3> HIDE DEF StreamTakes, TakeHead
    <3> QED BY <3>2, <3>3, <3>4 DEF GuestTyped
  <2>4. SeenTyped' BY DEF SeenTyped, ChannelsTyped
  <2>5. PumpTyped' /\ PeerTyped' BY DEF PumpTyped, PeerTyped
  <2> QED BY <2>1, <2>2, <2>3, <2>4, <2>5
<1>18. CASE StreamEnds
  <2> USE <1>18 DEF StreamEnds, Released
  <2>1. FlagsTyped' BY DEF FlagsTyped
  <2>2. GuestTyped' BY DEF GuestTyped
  <2>3. ChannelsTyped' /\ PumpTyped' /\ PeerTyped' /\ SeenTyped' BY DEF
        ChannelsTyped, PumpTyped, PeerTyped, SeenTyped
  <2> QED BY <2>1, <2>2, <2>3
<1>19. CASE PumpSend
  <2> USE <1>19 DEF PumpSend, StartWrite
  <2>1. FlagsTyped' BY DEF FlagsTyped
  <2>2. ChannelsTyped' BY DEF ChannelsTyped
  <2>3. GuestTyped' BY DEF GuestTyped
  <2>4. PumpTyped' BY FrameTypes DEF PumpTyped, ChannelsTyped
  <2>5. PeerTyped' /\ SeenTyped' BY DEF PeerTyped, SeenTyped
  <2> QED BY <2>1, <2>2, <2>3, <2>4, <2>5
<1>20. CASE PumpClose
  <2> USE <1>20 DEF PumpClose, BeginClose, StartWrite, Advance, Armed
  <2>1. FlagsTyped'
    <3>1. wireClosing' \in BOOLEAN BY DEF FlagsTyped
    <3> QED BY <3>1 DEF FlagsTyped
  <2>2. ChannelsTyped' BY DEF ChannelsTyped
  <2>3. PumpTyped' BY FrameTypes, HeadTypes DEF PumpTyped, ChannelsTyped
  <2>4. GuestTyped' /\ PeerTyped' /\ SeenTyped' BY DEF GuestTyped, PeerTyped,
        SeenTyped
  <2> QED BY <2>1, <2>2, <2>3, <2>4
<1>21. CASE PumpCmdsDone
  <2> USE <1>21 DEF PumpCmdsDone, BeginClose, StartWrite, Advance, Armed
  <2>1. FlagsTyped'
    <3>1. wireClosing' \in BOOLEAN /\ cmdsDone' = TRUE BY DEF FlagsTyped
    <3> QED BY <3>1 DEF FlagsTyped
  <2>2. ChannelsTyped' BY DEF ChannelsTyped
  <2>3. PumpTyped' BY CodeTypes, FrameTypes DEF PumpTyped
  <2>4. GuestTyped' /\ PeerTyped' /\ SeenTyped' BY DEF GuestTyped, PeerTyped,
        SeenTyped
  <2> QED BY <2>1, <2>2, <2>3, <2>4
<1>22. CASE PumpData
  <2> USE <1>22 DEF PumpData, Reads
  <2>1. FlagsTyped'
    <3>1. overflowed' \in BOOLEAN /\ discarded' \in BOOLEAN BY DEF FlagsTyped,
            Overflow
    <3>2. wireClosing' \in BOOLEAN BY DEF FlagsTyped, Overflow, BeginClose
    <3> QED BY <3>1, <3>2 DEF FlagsTyped
  <2>2. ChannelsTyped' BY DEF ChannelsTyped, Overflow, BeginClose, Advance
  <2>3. PumpTyped' BY CodeTypes, FrameTypes, HeadTypes DEF PumpTyped,
        PeerTyped, MsgIds, Overflow, BeginClose, StartWrite, Armed
  <2>4. PeerTyped' BY DEF PeerTyped
  <2>5. GuestTyped' /\ SeenTyped' BY DEF GuestTyped, SeenTyped
  <2> QED BY <2>1, <2>2, <2>3, <2>4, <2>5
<1>23. CASE PumpReserves
  <2> USE <1>23 DEF PumpReserves, Adds
  <2>1. FlagsTyped' BY DEF FlagsTyped
  <2>2. ChannelsTyped' BY SizeTypes DEF ChannelsTyped, PumpTyped
  <2>3. PumpTyped' BY SizesAssumption DEF PumpTyped
  <2>4. GuestTyped' /\ PeerTyped' /\ SeenTyped' BY DEF GuestTyped, PeerTyped,
        SeenTyped
  <2> QED BY <2>1, <2>2, <2>3, <2>4
<1>24. CASE PumpPeerClose
  <2> USE <1>24 DEF PumpPeerClose, Reads, StartWrite, Advance, Armed
  <2>1. FlagsTyped'
    <3>1. wireClosing' \in BOOLEAN BY DEF FlagsTyped
    <3> QED BY <3>1 DEF FlagsTyped
  <2>2. ChannelsTyped' BY DEF ChannelsTyped
  <2>3. PumpTyped' BY FrameTypes, CodeTypes, HeadTypes DEF PumpTyped, PeerTyped
  <2>4. PeerTyped' BY DEF PeerTyped
  <2>5. GuestTyped' /\ SeenTyped' BY DEF GuestTyped, SeenTyped
  <2> QED BY <2>1, <2>2, <2>3, <2>4, <2>5
<1>25. CASE PumpPing
  <2> USE <1>25 DEF PumpPing, Reads, StartWrite
  <2>1. FlagsTyped' BY DEF FlagsTyped
  <2>2. PumpTyped' BY FrameTypes DEF PumpTyped
  <2>3. PeerTyped' BY DEF PeerTyped
  <2>4. ChannelsTyped' /\ GuestTyped' /\ SeenTyped' BY DEF ChannelsTyped,
        GuestTyped, SeenTyped
  <2> QED BY <2>1, <2>2, <2>3, <2>4
<1>26. CASE PumpCapacity
  <2> USE <1>26 DEF PumpCapacity, Reads, BeginClose, StartWrite, Advance, Armed
  <2>1. FlagsTyped' BY DEF FlagsTyped
  <2>2. ChannelsTyped' BY DEF ChannelsTyped
  <2>3. PumpTyped' BY CodeTypes, FrameTypes DEF PumpTyped, Finishing
  <2>4. PeerTyped' BY DEF PeerTyped
  <2>5. GuestTyped' /\ SeenTyped' BY DEF GuestTyped, SeenTyped
  <2> QED BY <2>1, <2>2, <2>3, <2>4, <2>5
<1>27. CASE PumpEnd
  <2> USE <1>27 DEF PumpEnd, Reads
  <2>1. FlagsTyped' BY DEF FlagsTyped
  <2>2. PumpTyped' BY DEF PumpTyped, Finishing
  <2>3. PeerTyped' BY DEF PeerTyped
  <2>4. ChannelsTyped' /\ GuestTyped' /\ SeenTyped' BY DEF ChannelsTyped,
        GuestTyped, SeenTyped
  <2> QED BY <2>1, <2>2, <2>3, <2>4
<1>28. CASE PumpDeadline
  <2> USE <1>28 DEF PumpDeadline
  <2>1. FlagsTyped' BY DEF FlagsTyped
  <2>2. PumpTyped' BY DEF PumpTyped, Finishing
  <2>3. ChannelsTyped' /\ GuestTyped' /\ PeerTyped' /\ SeenTyped' BY DEF
        ChannelsTyped, GuestTyped, PeerTyped, SeenTyped
  <2> QED BY <2>1, <2>2, <2>3
<1>29. CASE WriteSeesLocalClose
  <2> USE <1>29 DEF WriteSeesLocalClose, Armed
  <2>1. FlagsTyped' BY DEF FlagsTyped
  <2>2. PumpTyped' BY DEF PumpTyped
  <2>3. ChannelsTyped' /\ GuestTyped' /\ PeerTyped' /\ SeenTyped' BY DEF
        ChannelsTyped, GuestTyped, PeerTyped, SeenTyped
  <2> QED BY <2>1, <2>2, <2>3
<1>30. CASE WriteTimesOut
  <2> USE <1>30 DEF WriteTimesOut, EndWrite, TimedOut, HandOver
  <2>1. FlagsTyped' BY DEF FlagsTyped
  <2>2. GuestTyped' BY DEF GuestTyped
  <2>3. PumpTyped' BY FrameTypes DEF PumpTyped, Finishing
  <2>4. SeenTyped' BY DEF SeenTyped, PumpTyped
  <2>5. ChannelsTyped' /\ PeerTyped' BY DEF ChannelsTyped, PeerTyped
  <2> QED BY <2>1, <2>2, <2>3, <2>4, <2>5
<1>31. CASE PumpPublishes
  <2> USE <1>31 DEF PumpPublishes
  <2>1. FlagsTyped' BY DEF FlagsTyped
  <2>2. ChannelsTyped' BY CodeTypes DEF ChannelsTyped, PumpTyped, Outcomes,
        NoFrame, Unset
  <2>3. PumpTyped' BY DEF PumpTyped, Finishing
  <2>4. GuestTyped' /\ PeerTyped' /\ SeenTyped' BY DEF GuestTyped, PeerTyped,
        SeenTyped
  <2> QED BY <2>1, <2>2, <2>3, <2>4
<1>32. CASE PumpEndsQueue
  <2> USE <1>32 DEF PumpEndsQueue
  <2>1. FlagsTyped'
    <3>1. inOpen' \in BOOLEAN OBVIOUS
    <3> QED BY <3>1 DEF FlagsTyped
  <2>2. PumpTyped' BY DEF PumpTyped, Finishing
  <2>3. ChannelsTyped' /\ GuestTyped' /\ PeerTyped' /\ SeenTyped' BY DEF
        ChannelsTyped, GuestTyped, PeerTyped, SeenTyped
  <2> QED BY <2>1, <2>2, <2>3
<1>33. CASE PumpClosesCmds
  <2> USE <1>33 DEF PumpClosesCmds
  <2>1. FlagsTyped'
    <3>1. cmdOpen' \in BOOLEAN OBVIOUS
    <3> QED BY <3>1 DEF FlagsTyped
  <2>2. PumpTyped' BY DEF PumpTyped, Finishing
  <2>3. ChannelsTyped' /\ GuestTyped' /\ PeerTyped' /\ SeenTyped' BY DEF
        ChannelsTyped, GuestTyped, PeerTyped, SeenTyped
  <2> QED BY <2>1, <2>2, <2>3
<1>34. CASE PumpDrains
  <2> USE <1>34 DEF PumpDrains
  <2>1. FlagsTyped' BY DEF FlagsTyped
  <2>2. ChannelsTyped' BY DEF ChannelsTyped
  <2>3. GuestTyped' BY DEF GuestTyped
  <2>4. PumpTyped' BY DEF PumpTyped, Finishing
  <2>5. PeerTyped' /\ SeenTyped' BY DEF PeerTyped, SeenTyped
  <2> QED BY <2>1, <2>2, <2>3, <2>4, <2>5
<1>35. CASE PumpLatches
  <2> USE <1>35 DEF PumpLatches, Advance
  <2>1. FlagsTyped' BY DEF FlagsTyped
  <2>2. ChannelsTyped' BY DEF ChannelsTyped
  <2>3. PumpTyped' BY DEF PumpTyped, Finishing
  <2>4. GuestTyped' /\ PeerTyped' /\ SeenTyped' BY DEF GuestTyped, PeerTyped,
        SeenTyped
  <2> QED BY <2>1, <2>2, <2>3, <2>4
<1>36. CASE PumpFires
  <2> USE <1>36 DEF PumpFires
  <2>1. FlagsTyped' BY DEF FlagsTyped
  <2>2. PumpTyped' BY DEF PumpTyped, Finishing
  <2>3. ChannelsTyped' /\ GuestTyped' /\ PeerTyped' /\ SeenTyped' BY DEF
        ChannelsTyped, GuestTyped, PeerTyped, SeenTyped
  <2> QED BY <2>1, <2>2, <2>3
<1>37. CASE WriteAccepted
  <2> USE <1>37 DEF WriteAccepted, EndWrite, HandOver
  <2>1. FlagsTyped' BY DEF FlagsTyped
  <2>2. GuestTyped' BY DEF GuestTyped
  <2>3. PumpTyped' BY FrameTypes DEF PumpTyped, Finishing
  <2>4. SeenTyped' BY DEF SeenTyped, PumpTyped
  <2>5. ChannelsTyped' /\ PeerTyped' BY DEF ChannelsTyped, PeerTyped
  <2> QED BY <2>1, <2>2, <2>3, <2>4, <2>5
<1>38. CASE WriteFails
  <2> USE <1>38 DEF WriteFails, EndWrite, HandOver, Armed
  <2>1. FlagsTyped' BY DEF FlagsTyped
  <2>2. GuestTyped' BY DEF GuestTyped
  <2>3. PumpTyped' BY FrameTypes DEF PumpTyped, Finishing
  <2>4. SeenTyped' BY DEF SeenTyped, PumpTyped
  <2>5. ChannelsTyped' /\ PeerTyped' BY DEF ChannelsTyped, PeerTyped
  <2> QED BY <2>1, <2>2, <2>3, <2>4, <2>5
<1>39. CASE PeerData
  <2> USE <1>39 DEF PeerData, PeerOnly, PeerPuts
  <2>1. FlagsTyped' BY DEF FlagsTyped
  <2>2. PeerTyped' BY SizesAssumption DEF PeerTyped, WireFrames, MsgIds
  <2>3. ChannelsTyped' /\ GuestTyped' /\ PumpTyped' /\ SeenTyped' BY DEF
        ChannelsTyped, GuestTyped, PumpTyped, SeenTyped
  <2> QED BY <2>1, <2>2, <2>3
<1>40. CASE PeerPing
  <2> USE <1>40 DEF PeerPing, PeerOnly, PeerPuts
  <2>1. FlagsTyped' BY DEF FlagsTyped
  <2>2. PeerTyped' BY DEF PeerTyped, WireFrames
  <2>3. ChannelsTyped' /\ GuestTyped' /\ PumpTyped' /\ SeenTyped' BY DEF
        ChannelsTyped, GuestTyped, PumpTyped, SeenTyped
  <2> QED BY <2>1, <2>2, <2>3
<1>41. CASE PeerBig
  <2> USE <1>41 DEF PeerBig, PeerOnly, PeerPuts
  <2>1. FlagsTyped' BY DEF FlagsTyped
  <2>2. PeerTyped' BY DEF PeerTyped, WireFrames
  <2>3. ChannelsTyped' /\ GuestTyped' /\ PumpTyped' /\ SeenTyped' BY DEF
        ChannelsTyped, GuestTyped, PumpTyped, SeenTyped
  <2> QED BY <2>1, <2>2, <2>3
<1>42. ASSUME NEW code \in PeerCodes, PeerClose(code) PROVE Typed'
  <2> USE <1>42 DEF PeerClose, PeerOnly, PeerPuts
  <2>1. FlagsTyped' BY DEF FlagsTyped
  <2>2. PeerTyped' BY CodeTypes, CodesAssumption DEF PeerTyped, WireFrames,
        CloseCode, NoCode
  <2>3. ChannelsTyped' /\ GuestTyped' /\ PumpTyped' /\ SeenTyped' BY DEF
        ChannelsTyped, GuestTyped, PumpTyped, SeenTyped
  <2> QED BY <2>1, <2>2, <2>3
<1>43. CASE TransportEnds
  <2> USE <1>43 DEF TransportEnds, PeerOnly
  <2>1. FlagsTyped' BY DEF FlagsTyped
  <2>2. PeerTyped' BY DEF PeerTyped, WireFrames
  <2>3. ChannelsTyped' /\ GuestTyped' /\ PumpTyped' /\ SeenTyped' BY DEF
        ChannelsTyped, GuestTyped, PumpTyped, SeenTyped
  <2> QED BY <2>1, <2>2, <2>3
<1>44. CASE DeadlineExpires
  <2> USE <1>44 DEF DeadlineExpires
  <2>1. FlagsTyped' BY DEF FlagsTyped
  <2>2. PumpTyped' BY DEF PumpTyped
  <2>3. ChannelsTyped' /\ GuestTyped' /\ PeerTyped' /\ SeenTyped' BY DEF
        ChannelsTyped, GuestTyped, PeerTyped, SeenTyped
  <2> QED BY <2>1, <2>2, <2>3
<1>45. CASE UNCHANGED vars
  <2> USE <1>45 DEF vars
  <2>1. FlagsTyped' BY DEF FlagsTyped
  <2>2. ChannelsTyped' /\ GuestTyped' /\ PumpTyped' /\ PeerTyped' /\ SeenTyped'
        BY DEF ChannelsTyped, GuestTyped, PumpTyped, PeerTyped, SeenTyped
  <2> QED BY <2>1, <2>2
<1> QED BY <1>1, <1>2, <1>3, <1>4, <1>5, <1>6, <1>7, <1>8, <1>9, <1>10, <1>11,
       <1>12, <1>13, <1>14, <1>15, <1>16, <1>17, <1>18, <1>19, <1>20, <1>21,
       <1>22, <1>23, <1>24, <1>25, <1>26, <1>27, <1>28, <1>29, <1>30, <1>31,
       <1>32, <1>33, <1>34, <1>35, <1>36, <1>37, <1>38, <1>39, <1>40, <1>41,
       <1>42, <1>43, <1>44, <1>45 DEF Next, GuestCalls, GuestStep, ReceivePoll,
       StreamPoll, PumpStep, TransportStep, PeerStep

\* Every reachable state is well typed.
THEOREM TypesHold == Spec => []Typed
BY InitTyped, NextTyped, PTL DEF Spec
=============================================================================
