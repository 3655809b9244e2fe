------------------------ MODULE ProviderProperties ------------------------
(***************************************************************************)
(* What the in-guest provider's connection guarantees, its refinement of   *)
(* WsContract, and the statements of the documents and comments that its   *)
(* code does not keep.                                                     *)
(***************************************************************************)
EXTENDS GuestProvider

MsgIds   == 1 .. MaxMsgs
Outcomes == {Unset, NoFrame} \cup {CloseInfoFrom(code) : code \in PeerCodes}

In(frame, q) == \E k \in DOMAIN q : q[k] = frame

\* The types of the shared cells and of the tasks; the budget stays within its
\* bound (Shared::reserve).
TypeOK ==
  /\ state \in {"open", "closing", "closed"}
  /\ {closeInfo, peerFrame} \subseteq Outcomes /\ waited \subseteq Outcomes
  /\ {localClosed, claimed, dropped, inOpen, overflowed, streamHeld, closed,
      wireClosing, writeDead, wireDead, peerClosed, discarded} \subseteq BOOLEAN
  /\ {inq, delivered, streamed} \subseteq Seq(MsgIds)
  /\ queueLock \in Receives \cup {NoCall, "feeder"}
  /\ budgetUsed \in 0 .. Limit /\ inHand \in 0 .. MaxMsgs
  /\ sendSt \in [Sends -> {"unused", "queued", "ok", "closed"}]
  /\ recvSt \in [Receives -> {"unused", "pending", "message", "viaStream",
                              "overflow", "closed"}]
  /\ feeder \in {"none", "locking", "next", "element", "payload", "ended"}
  /\ at \in [Tasks -> [pc : {"loop", "lock", "write", "end", "done"},
                       then : Sends \cup {"loop", "end"}]]
  /\ reply \in {NoReply, Pong, CloseReply}
  /\ writeLock \in Tasks \cup {NoCall} /\ bound \in {"local", "deadline"}
  /\ deadline \in {"none", "armed", "expired"}

\* No message is lost, repeated or reordered between the reader task and those
\* who take from the queue, and what the reader read is thrown away only after a
\* local close or an overflow (deliver, receive, the feeder; wit/README.md,
\* "Close contract").
NoGap ==
  /\ delivered \o inq = [i \in 1 .. Len(delivered) + Len(inq) |-> i]
  /\ discarded => localClosed \/ overflowed

QueuedBytes == IF inq = <<>> THEN 0
               ELSE Offset[inq[Len(inq)]] - Offset[Head(inq) - 1]

\* The budget counts exactly the queued bytes, whoever takes them
\* (Shared::reserve, Shared::release_budget).
BudgetExact == budgetUsed = QueuedBytes

\* What a failed receive reports is true (receive, map_queue_end).
ReceiveErrorsHonest ==
  \A r \in Receives :
    /\ recvSt[r] = "closed" =>
         localClosed \/ (~inOpen /\ inq = <<>> /\ ~overflowed /\ ~discarded)
    /\ recvSt[r] = "overflow" => overflowed /\ ~inOpen /\ inq = <<>>
    /\ recvSt[r] = "viaStream" => claimed

\* What the peer sees: a send that succeeded, once, although the other task may
\* have flushed it; at most one close frame and nothing but a pong after it, with a
\* code a client may send, whichever task began the close (Proto::send,
\* begin_close, flush_outbound's shared buffer).
WireHonest ==
  /\ \A s \in Sends :
       /\ sendSt[s] = "ok" => In(DataFrame(s), toPeer)
       /\ \A j, k \in DOMAIN toPeer :
            toPeer[j] = DataFrame(s) /\ toPeer[k] = DataFrame(s) => j = k
  /\ \A k \in DOMAIN toPeer :
       toPeer[k].kind \in {"close", "reply"} =>
         k = Len(toPeer) /\ toPeer[k].code \in SendableCodes \cup {NoCode}

\* Nobody is stranded with its frames: what a task put in the buffer is about to
\* be taken by one that waits for the write lock (Proto::send, begin_close,
\* flush_outbound).  It says nothing of tungstenite's replies: see RepliesAreFlushed.
BufferIsWatched ==
  (\E k \in DOMAIN outbound : outbound[k].kind \in {"send", "close"})
    => \E t \in Tasks : at[t].pc = "lock"

\* After a local close no message is taken from the queue, and after the claim
\* none is handed to a receive (receive, receive_via_stream).
SignalsWin ==
  [][/\ localClosed => delivered' = delivered
     /\ claimed => \A r \in Receives :
                     recvSt'[r] = "message" => recvSt[r] = "message"]_vars

\* A local close is bounded, and answers a send in flight, though the transport
\* may stall the write of either task (reader_task's deadline, flush_outbound's
\* bound, cmd_task's two loops).
LocalCloseIsBounded ==
  /\ localClosed ~> closed
  /\ \A s \in Sends : (sendSt[s] = "queued" /\ localClosed) ~> sendSt[s] # "queued"

\* A pending receive is woken by what ends it, and a feeder that is not writing
\* ends at a close; here with one receive (receive, receive_via_stream).
ReadersWoken ==
  /\ \A r \in Receives : (recvSt[r] = "pending" /\ (localClosed \/ closed \/ claimed))
                           ~> recvSt[r] # "pending"
  /\ (feeder \in {"locking", "next"} /\ (localClosed \/ closed))
       ~> feeder \notin {"locking", "next"}

\* What LocalCloseIsBounded rests on at each moment: until the connection is closed, a
\* local close runs against the deadline or its command is yet to be taken; a write
\* that the deadline bounds has one; and a send that is unanswered is in the command
\* channel, or a task will answer it when its flush ends (close, begin_close,
\* flush_outbound, cmd_task).
ClosingIsTimed ==
  /\ localClosed /\ ~closed =>
       deadline # "none" \/ \E k \in DOMAIN cmdq : cmdq[k].kind = "close"
  /\ writeLock # NoCall /\ bound = "deadline" => deadline # "none"
  /\ \A s \in Sends : sendSt[s] = "queued" =>
       \/ In(DataFrame(s), cmdq)
       \/ \E t \in Tasks : at[t].pc \in {"lock", "write"} /\ at[t].then = s

\* What ReadersWoken rests on: whoever holds the lock around the inbound queue is a
\* receive that still waits, or the feeder while it lives; and a claimed stream has
\* its feeder, or the command that spawns it (receive, receive_via_stream, cmd_task).
LockIsAwaited ==
  /\ queueLock \in Receives => recvSt[queueLock] = "pending"
  /\ queueLock = "feeder" <=> feeder \in {"next", "element", "payload"}
  /\ claimed /\ feeder = "none" => In(ClaimStream, cmdq)
-----------------------------------------------------------------------------
Contract == INSTANCE WsContract
  WITH Infos <- Outcomes \ {Unset},
       Unset <- Unset,
       phase <- state,
       local <- localClosed,
       inbox <- IF localClosed THEN <<>> ELSE inq,
       got   <- delivered,
       ended <- ~inOpen,
       out   <- [k \in DOMAIN toPeer |-> IF toPeer[k].kind = "send" THEN "data"
                                                                   ELSE "close"],
       info  <- closeInfo

\* Every step of the tasks, the guest and the peer is a step of the contract,
\* or none (pump.rs and lib.rs against wit/websocket.wit).
ImplementsContract == Contract!CSpec
-----------------------------------------------------------------------------
(***************************************************************************)
(* What the documents and comments say and the code does not do.           *)
(***************************************************************************)

\* pump.rs:496, "an armed deadline that expires tears the connection down
\* whatever the peer is doing".  A write of the command task that began before
\* the deadline was armed waits for a local close only; the reader, waiting to
\* flush behind it, never looks at the deadline.
DeadlineTearsDown == deadline = "expired" ~> closed

\* pump.rs:463-464, "tungstenite queued the reply (completing the handshake from
\* our side) in the same read", and 468-469, "flush the reply": when the reader
\* awaits bytes, a reply has been taken from the buffer, or is about to be.  But it
\* is the next read that puts it there, behind the flush, so that the reader awaits
\* bytes while the reply stays behind.
RepliesAreFlushed ==
  Awaits /\ outbound # <<>> => \E t \in Tasks : at[t].pc = "lock"
=============================================================================
