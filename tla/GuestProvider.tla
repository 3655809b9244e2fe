--------------------------- MODULE GuestProvider ---------------------------
(***************************************************************************)
(* One open connection of the in-guest provider, src/rust/guest-provider:  *)
(* the exported operations (lib.rs), the command task and the reader task  *)
(* (pump.rs), and the in-memory transport tungstenite runs over (io.rs).   *)
(*                                                                         *)
(* Everything runs on one thread and every task keeps it until it awaits:  *)
(* a step of this model is what happens between two awaits.  The two tasks *)
(* share one outbound buffer and one write lock.  A task that wants to     *)
(* flush waits for the lock, then takes all that is buffered, frames of    *)
(* the other task included.                                                *)
(*                                                                         *)
(* Both async locks are futures::lock::Mutex: a task that asks for a free  *)
(* lock gets it, whoever else was woken for it.                            *)
(*                                                                         *)
(* The peer, the byte streams to it, and tungstenite are external.  The    *)
(* buffer it writes to is a sequence of frames, and a read returns the     *)
(* next frame.  The reply to a ping or a close is kept back by the read    *)
(* that returns it: it is written to the buffer by the next read, or       *)
(* behind the next frame that is written.  A flush of the buffer alone     *)
(* does not bring it out.                                                  *)
(***************************************************************************)
EXTENDS CloseArgs, Sequences, FiniteSets

CONSTANTS
  Sends,         \* the `send` calls the guest may make, each at most once
  Receives,      \* the `receive` calls the guest may make, each at most once
  CloseRequests, \* the [code, reasonLen] arguments the guest may pass `close`
  PeerCodes,     \* the codes a close frame of the peer may carry
  MaxMsgs,       \* bound: data messages the peer sends
  Offset,        \* Offset[i]: payload bytes of the peer's first i messages
  Limit,         \* max_inbound_buffer_bytes
  MaxPings,      \* bound: pings the peer sends
  MaxWire,       \* bound: frames in flight from the peer
  NoCall         \* a value that is no call

ASSUME ProviderCallsAssumption ==
  /\ NoCall \notin Sends \cup Receives \cup {"feeder", "cmd", "reader"}
  /\ "feeder" \notin Receives /\ {"loop", "end"} \cap Sends = {}

ASSUME ProviderSizesAssumption ==
  /\ MaxMsgs \in Nat /\ Limit \in Nat
  /\ Offset \in [0 .. MaxMsgs -> Nat] /\ Offset[0] = 0
  /\ \A i, j \in 0 .. MaxMsgs : i =< j => Offset[i] =< Offset[j]

ASSUME ProviderCodesAssumption == PeerCodes \subseteq CloseCode

VARIABLES
  state, closeInfo, closed, \* Shared: the lifecycle, the latch, its signal
  localClosed, \* Shared.local_closed
  claimed,     \* Shared.stream_claimed, and stream_started with it
  dropped,     \* the resource was dropped
  cmdq,        \* the command channel
  inq,         \* the inbound queue
  inOpen,      \* the reader task still holds in_tx
  budgetUsed,  \* Shared.budget_used
  overflowed,  \* Shared.overflowed
  queueLock,   \* who holds the lock around the inbound queue
  sendSt,      \* the outcome of each `send` call
  recvSt,      \* the outcome of each `receive` call
  feeder,      \* the claimed stream's feeder: its control point
  inHand,      \* the message the feeder is handing over
  streamHeld,  \* the guest holds the stream's reader
  at,          \* the two pump tasks: control point, and what follows a flush
  outbound,    \* IoHandle: frames tungstenite wrote, not yet taken
  reply,       \* the reply tungstenite owes the peer and has not written
  writeLock,   \* the task that holds Proto.write_lock
  writing,     \* the frames its write has left
  bound,       \* what its write races: the "local" close or the "deadline"
  wireClosing, \* PumpFlags.wire_closing
  writeDead,   \* PumpFlags.write_dead
  deadline,    \* PumpFlags.deadline: "none", "armed" or "expired"
  peerFrame,   \* reader_task's peer_frame
  inbound,     \* IoHandle: frames fed and not read
  wire,        \* frames from the peer the reader has not been given
  wireDead,    \* the transport will bring nothing more
  peerSent, peerClosed, pings, \* what the peer has sent
  toPeer,      \* frames the transport took, in order
  delivered,   \* messages taken from the inbound queue, in order
  streamed,    \* those the guest read from the stream
  discarded,   \* a data message was read and thrown away
  waited       \* the values `wait-closed` has resolved with

shared   == <<state, closeInfo, closed, localClosed, claimed, dropped>>
budget   == <<budgetUsed, overflowed>>
queue    == <<inq, inOpen, queueLock>>
calls    == <<sendSt, recvSt>>
stream   == <<feeder, inHand, streamHeld, streamed>>
writes   == <<at, outbound, reply, writeLock, writing, bound>>
flags    == <<wireClosing, writeDead, deadline, peerFrame>>
peerVars == <<wire, wireDead, peerSent, peerClosed, pings>>
seen     == <<toPeer, delivered, discarded, waited>>

vars == <<shared, cmdq, queue, budget, calls, stream, writes, flags, inbound,
          peerVars, seen>>
-----------------------------------------------------------------------------
Size(i) == Offset[i] - Offset[i - 1]

Rank(s) == CASE s = "open" -> 0 [] s = "closing" -> 1 [] s = "closed" -> 2

\* StateCell::advance: forward only, and "closed" latches.
Advance(next) == state' = IF Rank(state) < Rank(next) THEN next ELSE state

\* PumpFlags::arm_deadline, idempotent.
Armed(d) == IF d = "none" THEN "armed" ELSE d

NoFrame == -1
Unset   == -2

DataFrame(s)     == [kind |-> "send", from |-> s, code |-> NoCode]
CloseFrame(code) == [kind |-> "close", from |-> NoCall, code |-> code]
CloseReply       == [kind |-> "reply", from |-> NoCall, code |-> NoCode]
Pong             == [kind |-> "pong", from |-> NoCall, code |-> NoCode]
NoReply          == [kind |-> "none", from |-> NoCall, code |-> NoCode]
ClaimStream      == [kind |-> "claim", from |-> NoCall, code |-> NoCode]

Looping == [pc |-> "loop", then |-> "loop"]

Init ==
  /\ state = "open" /\ closeInfo = Unset /\ closed = FALSE
  /\ localClosed = FALSE /\ claimed = FALSE /\ dropped = FALSE
  /\ cmdq = <<>> /\ inq = <<>> /\ inOpen = TRUE /\ queueLock = NoCall
  /\ budgetUsed = 0 /\ overflowed = FALSE
  /\ sendSt = [s \in Sends |-> "unused"]
  /\ recvSt = [r \in Receives |-> "unused"]
  /\ feeder = "none" /\ inHand = 0 /\ streamHeld = FALSE /\ streamed = <<>>
  /\ at = [cmd |-> Looping, reader |-> Looping]
  /\ outbound = <<>> /\ reply = NoReply
  /\ writeLock = NoCall /\ writing = <<>> /\ bound = "local"
  /\ wireClosing = FALSE /\ writeDead = FALSE /\ deadline = "none"
  /\ peerFrame = NoFrame /\ inbound = <<>>
  /\ wire = <<>> /\ wireDead = FALSE /\ peerSent = 0 /\ peerClosed = FALSE
  /\ pings = 0
  /\ toPeer = <<>> /\ delivered = <<>> /\ discarded = FALSE /\ waited = {}
-----------------------------------------------------------------------------
(***************************************************************************)
(* The exported operations.                                                *)
(***************************************************************************)

\* send, up to the await of its ack.  The command task never drops its
\* receiver, so the channel itself refuses nothing.
Send(s) ==
  /\ ~dropped /\ sendSt[s] = "unused"
  /\ IF localClosed
       THEN sendSt' = [sendSt EXCEPT ![s] = "closed"] /\ UNCHANGED cmdq
       ELSE /\ sendSt' = [sendSt EXCEPT ![s] = "queued"]
            /\ cmdq' = Append(cmdq, DataFrame(s))
  /\ UNCHANGED <<shared, queue, budget, recvSt, stream, writes, flags, inbound,
                 peerVars, seen>>

\* close, after its checks: state, signal and command in one step.
Closes(code) ==
  /\ Advance("closing")
  /\ localClosed' = TRUE /\ cmdq' = Append(cmdq, CloseFrame(code))

Close(req) ==
  /\ ~dropped /\ CloseArgsValid(req.code, req.reasonLen) /\ ~localClosed
  /\ Closes(req.code)
  /\ UNCHANGED <<closeInfo, closed, claimed, dropped, queue, budget, calls,
                 stream, writes, flags, inbound, peerVars, seen>>

\* Websocket's Drop.  A resource that a call still borrows cannot be dropped.
Drop ==
  /\ ~dropped /\ dropped' = TRUE
  /\ \A s \in Sends : sendSt[s] # "queued"
  /\ \A r \in Receives : recvSt[r] # "pending"
  /\ IF localClosed THEN UNCHANGED <<state, localClosed, cmdq>> ELSE Closes(NoCode)
  /\ UNCHANGED <<closeInfo, closed, claimed, queue, budget, calls, stream,
                 writes, flags, inbound, peerVars, seen>>

\* receive, up to its first suspension: the queue lock is taken when it is free.
Receive(r) ==
  /\ ~dropped /\ recvSt[r] = "unused"
  /\ LET outcome == CASE localClosed -> "closed"
                      [] ~localClosed /\ claimed -> "viaStream"
                      [] OTHER -> "pending"
     IN  /\ recvSt' = [recvSt EXCEPT ![r] = outcome]
         /\ queueLock' = IF outcome = "pending" /\ queueLock = NoCall THEN r ELSE queueLock
  /\ UNCHANGED <<shared, cmdq, inq, inOpen, budget, sendSt, stream, writes,
                 flags, inbound, peerVars, seen>>

\* A receive that waited for the lock.
ReceiveLocks(r) ==
  /\ recvSt[r] = "pending" /\ queueLock = NoCall
  /\ queueLock' = r
  /\ UNCHANGED <<shared, cmdq, inq, inOpen, budget, calls, stream, writes,
                 flags, inbound, peerVars, seen>>

\* Mutant: a receive that ends keeps the lock.
ReceiveKeepsLock(r, outcome) ==
  /\ recvSt[r] = "pending" /\ queueLock = r
  /\ recvSt' = [recvSt EXCEPT ![r] = outcome] /\ UNCHANGED queueLock

\* The select of receive, polled under the lock: stream_started, local_closed,
\* then the queue.
ReceiveResolves(r, outcome) ==
  /\ recvSt[r] = "pending" /\ queueLock = r
  /\ recvSt' = [recvSt EXCEPT ![r] = outcome] /\ queueLock' = NoCall

\* Mutant: the queue is polled first.
NotSignalledYet == inq # <<>> \/ (~claimed /\ ~localClosed)

NotSignalled == ~claimed /\ ~localClosed

ReceiveSignalled(r) ==
  /\ ~NotSignalled
  /\ ReceiveResolves(r, IF claimed THEN "viaStream" ELSE "closed")
  /\ UNCHANGED <<shared, cmdq, inq, inOpen, budget, sendSt, stream, writes,
                 flags, inbound, peerVars, seen>>

\* Mutant: a message is taken without its bytes.
ReleasesNothing(i) == budgetUsed' = budgetUsed

\* Shared::release_budget: saturating, though it never needs to be.
Releases(i) ==
  budgetUsed' = IF Size(i) =< budgetUsed THEN budgetUsed - Size(i) ELSE 0

TakeHead ==
  /\ inq # <<>> /\ inq' = Tail(inq)
  /\ Releases(Head(inq)) /\ delivered' = Append(delivered, Head(inq))

ReceiveTakes(r) ==
  /\ NotSignalled /\ TakeHead
  /\ ReceiveResolves(r, "message")
  /\ UNCHANGED <<shared, cmdq, inOpen, overflowed, sendSt, stream, writes,
                 flags, inbound, peerVars, toPeer, discarded, waited>>

\* Mutant: every end of the queue is a close.
EndAlwaysClosed == "closed"

\* Shared::map_queue_end.
EndOutcome == IF overflowed THEN "overflow" ELSE "closed"

ReceiveEnds(r) ==
  /\ NotSignalled /\ inq = <<>> /\ ~inOpen
  /\ ReceiveResolves(r, EndOutcome)
  /\ UNCHANGED <<shared, cmdq, inq, inOpen, budget, sendSt, stream, writes,
                 flags, inbound, peerVars, seen>>

\* receive_via_stream: claim, and have the command task spawn the feeder.
ReceiveViaStream ==
  /\ ~dropped /\ ~localClosed /\ ~claimed
  /\ claimed' = TRUE /\ streamHeld' = TRUE
  /\ cmdq' = Append(cmdq, ClaimStream)
  /\ UNCHANGED <<state, closeInfo, closed, localClosed, dropped, queue, budget,
                 calls, feeder, inHand, streamed, writes, flags, inbound,
                 peerVars, seen>>

\* The guest drops the stream's reader.
StreamDropped ==
  /\ streamHeld /\ streamHeld' = FALSE
  /\ UNCHANGED <<shared, cmdq, queue, budget, calls, feeder, inHand, streamed,
                 writes, flags, inbound, peerVars, seen>>

\* wait_closed: after the signal, the latch; an unset latch reads as none.
WaitClosed ==
  /\ ~dropped /\ closed
  /\ waited' = waited \cup {IF closeInfo = Unset THEN NoFrame ELSE closeInfo}
  /\ UNCHANGED <<shared, cmdq, queue, budget, calls, stream, writes, flags,
                 inbound, peerVars, toPeer, delivered, discarded>>
-----------------------------------------------------------------------------
(***************************************************************************)
(* The feeder of the claimed stream.                                       *)
(***************************************************************************)
FeederOnly == UNCHANGED <<shared, cmdq, inOpen, overflowed, calls, writes,
                          flags, inbound, peerVars, toPeer, discarded, waited>>

FeederLocks ==
  /\ feeder = "locking" /\ queueLock = NoCall
  /\ feeder' = "next" /\ queueLock' = "feeder"
  /\ FeederOnly /\ UNCHANGED <<inq, budgetUsed, inHand, streamHeld, streamed, delivered>>

\* The next message leaves the queue, and the budget, before the guest reads.
FeederTakes ==
  /\ feeder = "next" /\ ~localClosed
  /\ TakeHead
  /\ feeder' = "element" /\ inHand' = Head(inq)
  /\ FeederOnly /\ UNCHANGED <<queueLock, streamHeld, streamed>>

\* The feeder is done, and the lock and the stream's writer go with it.
FeederStops == feeder' = "ended" /\ inHand' = 0 /\ queueLock' = NoCall

FeederEnds ==
  /\ feeder = "next" /\ (localClosed \/ (inq = <<>> /\ ~inOpen))
  /\ FeederStops
  /\ FeederOnly /\ UNCHANGED <<inq, budgetUsed, streamHeld, streamed, delivered>>

\* The guest reads the element the feeder is writing.
ElementRead ==
  /\ feeder = "element" /\ streamHeld
  /\ feeder' = "payload" /\ streamed' = Append(streamed, inHand)
  /\ FeederOnly /\ UNCHANGED <<inq, queueLock, budgetUsed, inHand, streamHeld, delivered>>

\* The guest reads its payload to the end.
PayloadRead ==
  /\ feeder = "payload"
  /\ feeder' = "next" /\ inHand' = 0
  /\ FeederOnly /\ UNCHANGED <<inq, queueLock, budgetUsed, streamHeld, streamed, delivered>>

\* A write the guest will not read any more ends the feeder: the stream's
\* reader is gone, or that of one payload.
ReaderGone ==
  /\ \/ feeder = "element" /\ ~streamHeld
     \/ feeder = "payload"
  /\ FeederStops
  /\ FeederOnly /\ UNCHANGED <<inq, budgetUsed, streamHeld, streamed, delivered>>
-----------------------------------------------------------------------------
(***************************************************************************)
(* Proto: what both tasks do to the protocol and the outbound stream.      *)
(***************************************************************************)

\* A task's flush ends with this result; a guest's send gets it as its ack.
Resumes(t, then, result) ==
  /\ at' = [at EXCEPT ![t] = [pc |-> IF then = "end" THEN "end" ELSE "loop", then |-> "loop"]]
  /\ sendSt' = IF then \in Sends THEN [sendSt EXCEPT ![then] = result] ELSE sendSt

\* Mutant: an empty buffer means everything was written.
EmptyIsOk(out) == IF out = <<>> THEN "ok" ELSE "closed"

\* The result of a flush with nothing to write, or nowhere to write it.
UnwrittenResult(out) == IF writeDead THEN "closed" ELSE "ok"

\* flush_outbound once the lock is free: take all of `out` and write it.
Writes(t, then, out) ==
  /\ outbound' = <<>>
  /\ IF out = <<>> \/ writeDead
       THEN /\ Resumes(t, then, UnwrittenResult(out))
            /\ UNCHANGED <<writeLock, writing, bound>>
       ELSE /\ at' = [at EXCEPT ![t] = [pc |-> "write", then |-> then]]
            /\ writeLock' = t /\ writing' = out
            /\ bound' = IF deadline' = "none" THEN "local" ELSE "deadline"
            /\ UNCHANGED sendSt

\* Mutant: a task that finds the lock taken leaves its frames to the holder.
LeavesToHolder(t, then, out) ==
  IF writeLock = NoCall
    THEN Writes(t, then, out)
    ELSE /\ outbound' = out /\ Resumes(t, then, "ok")
         /\ UNCHANGED <<writeLock, writing, bound>>

\* flush_outbound with `out` buffered.
Flushes(t, then, out) ==
  IF writeLock = NoCall
    THEN Writes(t, then, out)
    ELSE /\ outbound' = out
         /\ at' = [at EXCEPT ![t] = [pc |-> "lock", then |-> then]]
         /\ UNCHANGED <<writeLock, writing, bound, sendSt>>

\* What tungstenite leaves in the buffer `out` when it writes: what it owes
\* the peer comes last.
WithReply(out) == IF reply = NoReply THEN out ELSE Append(out, reply)

\* A frame of our own is written, with what is owed behind it, and flushed.
SendsFrame(t, then, frame) ==
  reply' = NoReply /\ Flushes(t, then, WithReply(Append(outbound, frame)))

\* begin_close, idempotent.  Unlike the host's it leaves the state cell alone.
BeginsClose(t, then, code) ==
  IF wireClosing
    THEN /\ Resumes(t, then, "ok")
         /\ UNCHANGED <<wireClosing, deadline, outbound, reply, writeLock, writing, bound>>
    ELSE /\ wireClosing' = TRUE /\ deadline' = Armed(deadline)
         /\ SendsFrame(t, then, CloseFrame(code))

Locks(t) ==
  /\ at[t].pc = "lock" /\ writeLock = NoCall
  /\ UNCHANGED flags
  /\ Writes(t, at[t].then, outbound)
  /\ UNCHANGED <<shared, cmdq, queue, budget, recvSt, stream, reply, inbound,
                 peerVars, seen>>

WriteEnds(t, result) ==
  /\ writeLock' = NoCall /\ writing' = <<>>
  /\ Resumes(t, at[t].then, result)
  /\ UNCHANGED <<outbound, bound>>

WriteOnly == UNCHANGED <<shared, cmdq, queue, budget, recvSt, stream, reply,
                         inbound, peerVars, delivered, discarded, waited>>

\* A frame handed to the transport; a pong is of no interest to any property.
Handed(frame) == toPeer' = IF frame = Pong THEN toPeer ELSE Append(toPeer, frame)

\* The transport takes one more frame; the write ends with the last.
WriteTakes(t) ==
  /\ at[t].pc = "write"
  /\ Handed(Head(writing))
  /\ IF Len(writing) = 1
       THEN WriteEnds(t, "ok")
       ELSE writing' = Tail(writing) /\ UNCHANGED <<at, outbound, writeLock, bound, sendSt>>
  /\ UNCHANGED flags /\ WriteOnly

\* The write returns a leftover.
WriteFails(t) ==
  /\ at[t].pc = "write"
  /\ writeDead' = TRUE /\ deadline' = Armed(deadline)
  /\ WriteEnds(t, "closed")
  /\ UNCHANGED <<wireClosing, peerFrame, toPeer>> /\ WriteOnly

\* Mutant: a write does not race the local close.
WriteIgnoresLocalClose(t) == FALSE /\ UNCHANGED vars

\* A local close lands mid-write: the deadline bounds the rest.
WriteSeesLocalClose(t) ==
  /\ at[t].pc = "write" /\ bound = "local" /\ localClosed
  /\ bound' = "deadline" /\ deadline' = Armed(deadline)
  /\ UNCHANGED <<at, outbound, writeLock, writing, sendSt, wireClosing,
                 writeDead, peerFrame, toPeer>> /\ WriteOnly

\* The deadline passes mid-write.  The transport may have taken one more frame, the
\* last one included, without the cancelled write being told.
WriteTimesOut(t) ==
  /\ at[t].pc = "write" /\ bound = "deadline" /\ deadline = "expired"
  /\ writeDead' = TRUE
  /\ WriteEnds(t, "closed")
  /\ UNCHANGED toPeer \/ Handed(Head(writing))
  /\ UNCHANGED <<wireClosing, deadline, peerFrame>> /\ WriteOnly
-----------------------------------------------------------------------------
(***************************************************************************)
(* The command task.  pump_done fires with the closed signal, in one step, *)
(* and sends the task into its second loop.                                *)
(***************************************************************************)
CmdReady(kind) ==
  /\ at["cmd"].pc = "loop" /\ cmdq # <<>> /\ Head(cmdq).kind = kind
  /\ cmdq' = Tail(cmdq)

\* Mutant: closing alone does not stop sends.
RefusedIfDead == writeDead \/ closed

Refused == wireClosing \/ writeDead \/ closed

CmdSend ==
  /\ CmdReady("send")
  /\ UNCHANGED flags
  /\ IF Refused
       THEN /\ sendSt' = [sendSt EXCEPT ![Head(cmdq).from] = "closed"]
            /\ UNCHANGED writes
       ELSE SendsFrame("cmd", Head(cmdq).from, Head(cmdq))
  /\ UNCHANGED <<shared, queue, budget, recvSt, stream, inbound, peerVars, seen>>

CmdClose ==
  /\ CmdReady("close")
  /\ IF closed THEN UNCHANGED <<wireClosing, deadline, writes, sendSt>>
               ELSE BeginsClose("cmd", "loop", Head(cmdq).code)
  /\ UNCHANGED <<shared, queue, budget, recvSt, stream, writeDead, peerFrame,
                 inbound, peerVars, seen>>

\* The feeder is spawned in either loop.
CmdClaim ==
  /\ CmdReady("claim")
  /\ feeder' = "locking"
  /\ UNCHANGED <<shared, queue, budget, calls, inHand, streamHeld, streamed,
                 writes, flags, inbound, peerVars, seen>>
-----------------------------------------------------------------------------
(***************************************************************************)
(* The reader task.                                                        *)
(***************************************************************************)

\* A read first writes what is owed, also the read that finds nothing to
\* return.  It is a step of its own here, before the read goes on: that lets
\* the other tasks run more often than the awaits of the program do.
ReaderWritesReply ==
  /\ at["reader"].pc = "loop" /\ reply # NoReply
  /\ outbound' = WithReply(outbound) /\ reply' = NoReply
  /\ UNCHANGED <<shared, cmdq, queue, budget, calls, stream, at, writeLock,
                 writing, bound, flags, inbound, peerVars, seen>>

\* The reader is in its loop, and its read has nothing left to write.
ReadsOn == at["reader"].pc = "loop" /\ reply = NoReply

Reads(kind) ==
  /\ ReadsOn /\ inbound # <<>> /\ Head(inbound).kind = kind
  /\ inbound' = Tail(inbound)
  /\ UNCHANGED <<closeInfo, closed, localClosed, claimed, dropped, cmdq, inOpen,
                 queueLock, recvSt, stream, peerVars, toPeer, delivered,
                 waited>>

\* Mutant: the bound is checked before the message is counted.
FitsBefore(i) == ~overflowed /\ budgetUsed < Limit

Fits(i) == ~overflowed /\ budgetUsed + Size(i) =< Limit

\* Data arriving during a closing handshake is discarded.
Discards == wireClosing

\* Mutant: what does not fit is skipped, and the connection goes on.
OverflowSkips ==
  /\ discarded' = TRUE
  /\ UNCHANGED <<overflowed, sendSt, wireClosing, deadline, writes>>

\* A message that does not fit: latch the overflow and close toward the peer.
Overflows ==
  overflowed' = TRUE /\ discarded' = TRUE /\ BeginsClose("reader", "loop", NoCode)

\* deliver and Shared::reserve, and the close that follows an overflow.
ReaderData ==
  /\ Reads("data")
  /\ LET i == Head(inbound).arg
     IN  \/ /\ Discards
            /\ discarded' = TRUE
            /\ UNCHANGED <<inq, budget, sendSt, wireClosing, deadline, writes>>
         \/ /\ ~Discards /\ Fits(i)
            /\ inq' = Append(inq, i) /\ budgetUsed' = budgetUsed + Size(i)
            /\ UNCHANGED <<overflowed, discarded, sendSt, wireClosing, deadline, writes>>
         \/ /\ ~Discards /\ ~Fits(i)
            /\ Overflows /\ UNCHANGED <<inq, budgetUsed>>
  /\ UNCHANGED <<state, writeDead, peerFrame>>

\* tungstenite owes a reply as long as neither side has closed.
Owes(frame) == reply' = IF wireClosing THEN NoReply ELSE frame

\* The flush that follows finds what others have buffered, not this reply.
ReaderPing ==
  /\ Reads("ping")
  /\ UNCHANGED flags
  /\ Owes(Pong) /\ Flushes("reader", "loop", outbound)
  /\ UNCHANGED <<state, inq, budget, discarded>>

\* The peer's close frame: the first one is latched.
ReaderPeerClose ==
  /\ Reads("close")
  /\ peerFrame' = IF peerFrame = NoFrame THEN CloseInfoFrom(Head(inbound).arg)
                                         ELSE peerFrame
  /\ Advance("closing")
  /\ deadline' = Armed(deadline) /\ wireClosing' = TRUE
  /\ Owes(CloseReply) /\ Flushes("reader", "loop", outbound)
  /\ UNCHANGED <<inq, budget, discarded, writeDead>>

\* Error::Capacity: an overflow too, and the reader ends once it has flushed.
ReaderCapacity ==
  /\ Reads("big")
  /\ overflowed' = TRUE /\ discarded' = TRUE
  /\ BeginsClose("reader", "end", NoCode)
  /\ UNCHANGED <<state, inq, budgetUsed, writeDead, peerFrame>>

\* The reader has read all it was fed, and awaits more or the deadline.
Awaits == ReadsOn /\ inbound = <<>>

\* The next chunk of the byte stream: any number of frames.
ReaderReads ==
  /\ Awaits /\ deadline # "expired"
  /\ \E n \in 1 .. Len(wire) :
       /\ \A k \in 1 .. n : wire[k].kind # "eof"
       /\ inbound' = SubSeq(wire, 1, n)
       /\ wire' = SubSeq(wire, n + 1, Len(wire))
  /\ UNCHANGED <<shared, cmdq, queue, budget, calls, stream, writes, flags,
                 wireDead, peerSent, peerClosed, pings, seen>>

AtEof == wire # <<>> /\ Head(wire).kind = "eof"

\* Why the loop is left: past Capacity's flush, at a protocol error, at the
\* deadline, or at the end of the byte stream.
ReaderLeaves ==
  \/ at["reader"].pc = "end"
  \/ ReadsOn /\ inbound # <<>> /\ Head(inbound).kind = "bad"
  \/ Awaits /\ (deadline = "expired" \/ AtEof)

\* Mutant: the sender of the inbound queue is kept.
FinalizesOpen ==
  /\ closeInfo' = peerFrame /\ Advance("closed") /\ UNCHANGED inOpen /\ closed' = TRUE

\* The finalization: close_info, state, in_tx, pump_done and closed.
Finalizes ==
  /\ closeInfo' = peerFrame /\ Advance("closed") /\ inOpen' = FALSE /\ closed' = TRUE

ReaderEnds ==
  /\ ReaderLeaves /\ Finalizes
  /\ at' = [at EXCEPT !["reader"] = [pc |-> "done", then |-> "loop"]]
  /\ inbound' = <<>>
  /\ UNCHANGED <<localClosed, claimed, dropped, cmdq, inq, queueLock, budget,
                 calls, stream, outbound, reply, writeLock, writing, bound,
                 flags, peerVars, seen>>
-----------------------------------------------------------------------------
(***************************************************************************)
(* The environment: the peer, the transport and the clock.                 *)
(***************************************************************************)
PeerCanSend == ~wireDead /\ ~peerClosed /\ Len(wire) < MaxWire

PeerPuts(kind, arg) == wire' = Append(wire, [kind |-> kind, arg |-> arg])

PeerOnly == UNCHANGED <<shared, cmdq, queue, budget, calls, stream, writes,
                        flags, inbound, seen>>

PeerData ==
  /\ PeerCanSend /\ peerSent < MaxMsgs
  /\ peerSent' = peerSent + 1
  /\ PeerPuts("data", peerSent + 1)
  /\ UNCHANGED <<wireDead, peerClosed, pings>> /\ PeerOnly

PeerPing ==
  /\ PeerCanSend /\ pings < MaxPings
  /\ pings' = pings + 1
  /\ PeerPuts("ping", 0)
  /\ UNCHANGED <<wireDead, peerSent, peerClosed>> /\ PeerOnly

\* A message past the transport's cap, or a violation of the protocol: the
\* last thing that is read.
PeerBreaks(kind) ==
  /\ PeerCanSend /\ MaxMsgs > 0
  /\ PeerPuts(kind, 0) /\ wireDead' = TRUE
  /\ UNCHANGED <<peerSent, peerClosed, pings>> /\ PeerOnly

\* The peer's close frame, its own or the reply to ours: its last frame.
PeerClose(code) ==
  /\ PeerCanSend
  /\ PeerPuts("close", code) /\ peerClosed' = TRUE
  /\ UNCHANGED <<wireDead, peerSent, pings>> /\ PeerOnly

\* The byte stream ends: a reset may lose any frames not yet read.
TransportEnds ==
  /\ ~wireDead /\ wireDead' = TRUE
  /\ \E k \in 0 .. Len(wire) :
       wire' = Append(SubSeq(wire, 1, k), [kind |-> "eof", arg |-> 0])
  /\ UNCHANGED <<peerSent, peerClosed, pings>> /\ PeerOnly

DeadlineExpires ==
  /\ deadline = "armed" /\ deadline' = "expired"
  /\ UNCHANGED <<shared, cmdq, queue, budget, calls, stream, writes,
                 wireClosing, writeDead, peerFrame, inbound, peerVars, seen>>
-----------------------------------------------------------------------------
Tasks == {"cmd", "reader"}

GuestCalls ==
  \/ \E s \in Sends : Send(s)
  \/ \E req \in CloseRequests : Close(req)
  \/ \E r \in Receives : Receive(r)
  \/ Drop \/ ReceiveViaStream \/ StreamDropped \/ WaitClosed
  \/ ElementRead \/ PayloadRead \/ (feeder = "payload" /\ ReaderGone)

ReceivePoll(r) ==
  ReceiveLocks(r) \/ ReceiveSignalled(r) \/ ReceiveTakes(r) \/ ReceiveEnds(r)

FeederStep ==
  \/ FeederLocks \/ FeederTakes \/ FeederEnds
  \/ (feeder = "element" /\ ReaderGone)

FlushStep(t) == Locks(t) \/ WriteSeesLocalClose(t) \/ WriteTimesOut(t)

CmdStep == CmdSend \/ CmdClose \/ CmdClaim \/ FlushStep("cmd")

ReaderStep ==
  \/ ReaderWritesReply
  \/ ReaderData \/ ReaderPing \/ ReaderPeerClose \/ ReaderCapacity
  \/ ReaderReads \/ ReaderEnds \/ FlushStep("reader")

TransportStep(t) == WriteTakes(t) \/ WriteFails(t)

PeerStep ==
  \/ PeerData \/ PeerPing \/ TransportEnds
  \/ \E kind \in {"big", "bad"} : PeerBreaks(kind)
  \/ \E code \in PeerCodes : PeerClose(code)

Next ==
  \/ GuestCalls \/ FeederStep \/ CmdStep \/ ReaderStep
  \/ \E r \in Receives : ReceivePoll(r)
  \/ \E t \in Tasks : TransportStep(t)
  \/ PeerStep \/ DeadlineExpires

Spec == Init /\ [][Next]_vars

(***************************************************************************)
(* The executor polls every task that can go on, and time passes.  Once    *)
(* the reader has dropped the transport, a write to it ends.  Nothing is   *)
(* assumed of the guest, of the peer, or of a transport that is in use.    *)
(***************************************************************************)
Fairness ==
  /\ WF_vars(CmdStep) /\ WF_vars(ReaderStep) /\ WF_vars(FeederStep)
  /\ \A r \in Receives : WF_vars(ReceivePoll(r))
  /\ WF_vars(closed /\ TransportStep("cmd"))
  /\ WF_vars(DeadlineExpires)

FairSpec == Spec /\ Fairness
=============================================================================
