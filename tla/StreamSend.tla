----------------------------- MODULE StreamSend -----------------------------
(***************************************************************************)
(* One call of send-via-stream over an open connection: the guest writes   *)
(* stream-messages and their payloads, the implementation collects each    *)
(* payload and sends it as one message (rust/wasmtime/src/host.rs,         *)
(* rust/guest-provider/src/lib.rs).                                        *)
(*                                                                         *)
(* A payload is its sizes and whether its bytes fit its kind.  The send of *)
(* one message is one command and its answer: HostConnection and           *)
(* GuestProvider model what happens to it in between.                      *)
(***************************************************************************)
EXTENDS Implementations, Naturals, Sequences, FiniteSets

CONSTANTS
  Shapes,      \* the stream-messages a guest may write
  MaxElements  \* bound: stream-messages of the call

ASSUME ShapesAssumption ==
  /\ Shapes \subseteq [declared : Nat, actual : Nat, fits : BOOLEAN]
  /\ MaxElements \in Nat

VARIABLES
  elems,       \* the stream-messages written to the stream, in order
  written,     \* bytes written to the payload of each
  ended,       \* those whose payload writer was dropped
  finished,    \* the writer of the stream was dropped
  closeCalled, \* the connection's local-close signal fired
  taken,       \* stream-messages read from the stream
  payloads,    \* what was collected of each: bytes kept, bytes counted only
  stage,       \* where the call is
  sent,        \* messages it counted
  result,      \* what it returned
  cmd,         \* the message handed to the connection, and its answer
  connOver,    \* the connection takes no more commands
  handed       \* the messages handed to the transport

guestSide  == <<elems, written, ended, finished, closeCalled>>
callSide   == <<taken, payloads, stage, sent, result>>
connSide   == <<cmd, connOver, handed>>
streamVars == <<guestSide, callSide, connSide, impl>>

Elements   == 1 .. MaxElements
Errors     == {"closed", "other"}
NoBytes    == [kept |-> 0, excess |-> 0]

StreamInit ==
  /\ elems = <<>> /\ written = [k \in Elements |-> 0] /\ ended = {}
  /\ finished = FALSE /\ closeCalled = FALSE
  /\ taken = 0 /\ payloads = [k \in Elements |-> NoBytes]
  /\ stage = "idle" /\ sent = 0 /\ result = "none"
  /\ cmd = "none" /\ connOver = FALSE /\ handed = <<>>
-----------------------------------------------------------------------------
(***************************************************************************)
(* The guest.                                                              *)
(***************************************************************************)
\* A returned call of the provider has dropped the stream's reader; the host's
\* consumer stays and reads on.
Listening == Host \/ stage # "done"

WriteElement(shape) ==
  /\ ~finished /\ Listening /\ Len(elems) < MaxElements
  /\ elems' = Append(elems, shape)
  /\ UNCHANGED <<written, ended, finished, closeCalled, callSide, connSide, impl>>

WriteByte(k) ==
  /\ k \in DOMAIN elems \ ended /\ written[k] < elems[k].actual /\ Listening
  /\ written' = [written EXCEPT ![k] = @ + 1]
  /\ UNCHANGED <<elems, ended, finished, closeCalled, callSide, connSide, impl>>

EndPayload(k) ==
  /\ k \in DOMAIN elems \ ended /\ written[k] = elems[k].actual
  /\ ended' = ended \cup {k}
  /\ UNCHANGED <<elems, written, finished, closeCalled, callSide, connSide, impl>>

EndStream ==
  /\ ~finished /\ finished' = TRUE
  /\ UNCHANGED <<elems, written, ended, closeCalled, callSide, connSide, impl>>

\* close() from another task of the guest.
CloseCall ==
  /\ ~closeCalled /\ closeCalled' = TRUE
  /\ UNCHANGED <<elems, written, ended, finished, callSide, connSide, impl>>
-----------------------------------------------------------------------------
(***************************************************************************)
(* Collecting.                                                             *)
(***************************************************************************)
Arrived(k)  == payloads[k].kept + payloads[k].excess

\* Mutant: as many bytes as were declared are taken for the end.
CompleteEarly(k) == Arrived(k) >= elems[k].declared

Complete(k) == k \in ended /\ Arrived(k) = written[k]
Sendable(k) == /\ payloads[k].excess = 0
               /\ payloads[k].kept = elems[k].declared
               /\ elems[k].fits

Min2(a, b) == IF a < b THEN a ELSE b

\* Mutant: the declared length bounds nothing.
CollectedWhole(k) == [payloads[k] EXCEPT !.kept = written[k]]

\* A chunk fills the buffer up to the declared length, the rest is counted.
Collected(k) ==
  LET chunk == written[k] - Arrived(k)
      room  == elems[k].declared - payloads[k].kept
  IN  [kept   |-> payloads[k].kept + Min2(chunk, room),
       excess |-> payloads[k].excess + (chunk - Min2(chunk, room))]

\* The host's consumer reads every stream-message there is, sent or not.
DrainElements ==
  /\ Host /\ stage # "idle" /\ taken < Len(elems)
  /\ taken' = Len(elems)
  /\ UNCHANGED <<guestSide, payloads, stage, sent, result, connSide, impl>>

\* The host collects all payloads it has at once, the provider the one it is at.
Collect(k) ==
  /\ k =< taken /\ Arrived(k) < written[k]
  /\ Provider => stage = "payload" /\ k = taken
  /\ payloads' = [payloads EXCEPT ![k] = Collected(k)]
  /\ UNCHANGED <<guestSide, taken, stage, sent, result, connSide, impl>>
-----------------------------------------------------------------------------
(***************************************************************************)
(* The call.                                                               *)
(***************************************************************************)
Current == sent + 1

\* The two biased selects: the host looks at its input first, the provider at
\* the local close.
Proceeds(ready) == ready /\ (Provider => ~closeCalled)
Aborts(ready)   == closeCalled /\ (Host => ~ready)

Return(r) == stage' = "done" /\ result' = r

Call ==
  /\ stage = "idle"
  /\ IF closeCalled THEN Return("closed") ELSE stage' = "next" /\ UNCHANGED result
  /\ UNCHANGED <<guestSide, taken, payloads, sent, connSide, impl>>

HasNext == IF Host THEN taken >= Current ELSE Len(elems) >= Current
AtEnd   == finished /\ sent = Len(elems) /\ sent = taken

NextElement ==
  /\ stage = "next" /\ Proceeds(HasNext)
  /\ stage' = "payload" /\ taken' = IF Host THEN taken ELSE Current
  /\ UNCHANGED <<guestSide, payloads, sent, result, connSide, impl>>

StreamEnds ==
  /\ stage = "next" /\ Proceeds(AtEnd) /\ Return("ok")
  /\ UNCHANGED <<guestSide, taken, payloads, sent, connSide, impl>>

\* The complete payload is checked and its message handed to the connection,
\* which refuses it at once when it is over.
SendPayload ==
  /\ stage = "payload" /\ Proceeds(Complete(Current))
  /\ IF Sendable(Current)
       THEN /\ stage' = "send" /\ UNCHANGED result
            /\ cmd' = IF closeCalled \/ connOver THEN "closed" ELSE "queued"
       ELSE Return("other") /\ UNCHANGED cmd
  /\ UNCHANGED <<guestSide, taken, payloads, sent, connOver, handed, impl>>

\* The answer; the provider waits for it whatever happens.
SendAnswered ==
  /\ stage = "send" /\ cmd # "queued"
  /\ IF cmd = "ok"
       THEN stage' = "next" /\ sent' = sent + 1 /\ cmd' = "none" /\ UNCHANGED result
       ELSE Return(cmd) /\ UNCHANGED <<sent, cmd>>
  /\ UNCHANGED <<guestSide, taken, payloads, connOver, handed, impl>>

\* Mutant: the wait for a payload does not look at the close.
AbortElsewhere ==
  /\ \/ stage = "next" /\ Aborts(HasNext \/ AtEnd)
     \/ stage = "send" /\ Host /\ Aborts(cmd # "queued")
  /\ Return("closed")
  /\ UNCHANGED <<guestSide, taken, payloads, sent, connSide, impl>>

AbortCall ==
  /\ \/ stage = "next"    /\ Aborts(HasNext \/ AtEnd)
     \/ stage = "payload" /\ Aborts(Complete(Current))
     \/ stage = "send"    /\ Host /\ Aborts(cmd # "queued")
  /\ Return("closed")
  /\ UNCHANGED <<guestSide, taken, payloads, sent, connSide, impl>>
-----------------------------------------------------------------------------
(***************************************************************************)
(* The connection.                                                         *)
(***************************************************************************)
\* The write of a message ends well, though the call may have abandoned it, and
\* though a close of the peer may have been read while the write ran.
Transmit ==
  /\ cmd = "queued"
  /\ handed' = Append(handed, Current) /\ cmd' = "ok"
  /\ UNCHANGED <<guestSide, callSide, connOver, impl>>

\* A connection that closes, or whose write half is dead, writes nothing more.
Refuse ==
  /\ cmd = "queued" /\ (closeCalled \/ connOver)
  /\ cmd' = "closed"
  /\ UNCHANGED <<guestSide, callSide, connOver, handed, impl>>

\* The write fails, or the deadline cuts it off: the message may be with the
\* transport all the same.  The write half is dead.
WriteFails(err) ==
  /\ cmd = "queued" /\ (Provider => err = "closed")
  /\ cmd' = err /\ connOver' = TRUE
  /\ handed' \in {handed, Append(handed, Current)}
  /\ UNCHANGED <<guestSide, callSide, impl>>

ConnectionEnds ==
  /\ ~connOver /\ connOver' = TRUE
  /\ UNCHANGED <<guestSide, callSide, cmd, handed, impl>>

CallStep ==
  \/ Call \/ NextElement \/ StreamEnds \/ SendPayload \/ SendAnswered \/ AbortCall

GuestStep ==
  \/ \E shape \in Shapes : WriteElement(shape)
  \/ \E k \in Elements : WriteByte(k) \/ EndPayload(k)
  \/ EndStream
  \/ CloseCall

CollectStep == DrainElements \/ \E k \in Elements : Collect(k)
ConnStep    == \/ Transmit \/ Refuse \/ ConnectionEnds
               \/ \E err \in Errors : WriteFails(err)

StreamNext == CallStep \/ GuestStep \/ CollectStep \/ ConnStep

StreamSpec == StreamInit /\ impl \in Impls /\ [][StreamNext]_streamVars
-----------------------------------------------------------------------------
StreamTypeOK ==
  /\ impl \in Impls
  /\ elems \in Seq(Shapes) /\ Len(elems) =< MaxElements
  /\ written \in [Elements -> Nat] /\ ended \subseteq DOMAIN elems
  /\ {finished, closeCalled, connOver} \subseteq BOOLEAN
  /\ taken \in 0 .. Len(elems) /\ sent \in 0 .. MaxElements
  /\ payloads \in [Elements -> [kept : Nat, excess : Nat]]
  /\ stage \in {"idle", "next", "payload", "send", "done"}
  /\ result \in {"none", "ok"} \cup Errors
  /\ cmd \in {"none", "queued", "ok"} \cup Errors
  /\ handed \in Seq(Elements)

\* No more is kept of a payload than its declared length, and the provider
\* holds one payload at a time (ByteCollector, collect_payload, read_one).
PayloadsBounded ==
  /\ \A k \in DOMAIN elems : payloads[k].kept =< elems[k].declared
  /\ Provider => taken =< sent + 1

\* The transport gets the messages in the order of the stream, none skipped,
\* only those whose payload is what was declared, and `sent` counts them.  It
\* is one behind only when the call failed, and with an error of two kinds: the
\* write of the last message failed, after which nothing is written, or a local
\* close made the host's call abandon it (send_via_stream of either
\* implementation, bounded_write, flush_outbound; wit/websocket.wit:96).
SentIsHonest ==
  /\ handed = [i \in 1 .. Len(handed) |-> i]
  /\ \A i \in DOMAIN handed :
       elems[i].fits /\ elems[i].actual = elems[i].declared
  /\ Len(handed) \in {sent, sent + 1}
  /\ result = "ok" => sent = Len(elems) /\ Len(handed) = sent
  /\ result # "none" /\ Len(handed) # sent =>
       \/ result \in Errors /\ cmd = result /\ connOver
       \/ result = "closed" /\ closeCalled /\ Host
=============================================================================
