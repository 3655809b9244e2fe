-------------------------- MODULE ComponentizeShim --------------------------
(***************************************************************************)
(* The browser's WebSocket class over the contract, for JS guests:         *)
(* js/componentize/websocket.js.  One thread runs the application and the  *)
(* continuations of the class's promises; a call of the contract is        *)
(* answered by the host at any moment, and its continuation runs later, in *)
(* any order with the others.                                              *)
(*                                                                         *)
(* The connection is WsContract itself: the class must be right over       *)
(* whatever the contract lets an implementation do.                        *)
(***************************************************************************)
EXTENDS CloseArgs, SequencesExt

CONSTANTS
  Payloads,     \* what send is given: [size : Nat, blob : BOOLEAN]
  CloseCalls,   \* what close is given: [code : CloseCode, reasonLen : Nat]
  PeerCodes,    \* what the peer's close frame is reported as
  MaxSends,     \* bound: sends accepted
  MaxDiscarded, \* bound: bytes given to send once it discards them
  MaxMsgs       \* bound: messages of the peer

\* What the types of the code allow: a size and a reported code are numbers, no
\* argument of close has a length of NoClose.
ASSUME ShimAssumption ==
  /\ Payloads \subseteq [size : Nat, blob : BOOLEAN]
  /\ CloseCalls \subseteq [code : CloseCode, reasonLen : Nat]
  /\ PeerCodes \subseteq Nat
  /\ {MaxSends, MaxDiscarded, MaxMsgs} \subseteq Nat

Unset   == -3
NoFrame == -2
Infos   == PeerCodes \cup {NoFrame}
NoClose == [code |-> NoCode, reasonLen |-> -1]

VARIABLES
  ready,        \* #readyState
  ws,           \* #ws is set
  buffered,     \* #bufferedAmount
  queue,        \* #sendQueue: the sends on the chain, oldest first
  pendingClose, \* #pendingClose
  closeDispatched, \* #closeDispatched
  loop,         \* where #receiveLoop is; "turn": listeners run
  settle,       \* where #settle is
  events,       \* what was dispatched
  accepted,     \* sends put on the chain so far
  passed,       \* the sends passed to the connection, in that order
  unread,       \* the sends whose Blob could not be read
  discarded,    \* bytes discarded since the class was not open
  conn          \* the connect future

VARIABLES phase, local, inbox, got, ended, out, info \* the connection

Ws == INSTANCE WsContract

wsVars   == <<phase, local, inbox, got, ended, out, info>>
sendVars == <<queue, accepted, passed, unread>>
vars == <<ready, ws, buffered, sendVars, pendingClose, closeDispatched, loop, settle,
          events, discarded, conn, wsVars>>

ShimInit ==
  /\ ready = "connecting" /\ ws = FALSE /\ buffered = 0 /\ queue = <<>>
  /\ pendingClose = NoClose /\ closeDispatched = FALSE
  /\ loop = "none" /\ settle = "none" /\ events = <<>>
  /\ accepted = 0 /\ passed = <<>> /\ unread = {} /\ discarded = 0 /\ conn = "connecting"
  /\ Ws!CInit

Event(type)    == [type |-> type, message |-> 0, code |-> 0, clean |-> FALSE]
MessageEvent   == [Event("message") EXCEPT !.message = got[Len(got)]]
CloseEvent(c, clean) == [Event("close") EXCEPT !.code = c, !.clean = clean]

\* No listener is running: a continuation may.
Quiet == loop # "turn"
-----------------------------------------------------------------------------
(***************************************************************************)
(* The application: its own tasks, and the listeners of the events.        *)
(***************************************************************************)

\* #sendPayload, and the same steps of send for a Blob.
Send(p) ==
  /\ ready # "connecting"
  /\ buffered' = buffered + p.size
  /\ \/ /\ ready = "open" /\ accepted < MaxSends
        /\ accepted' = accepted + 1
        /\ queue' = Append(queue, [id |-> accepted', size |-> p.size, blob |-> p.blob,
                                   at |-> "waiting"])
        /\ UNCHANGED discarded
     \/ /\ ready # "open" /\ discarded + p.size =< MaxDiscarded
        /\ discarded' = discarded + p.size
        /\ UNCHANGED <<queue, accepted>>
  /\ UNCHANGED <<ready, ws, passed, unread, pendingClose, closeDispatched, loop, settle,
                 events, conn, wsVars>>

\* The checks of close; what fails them throws.
Closable(c) ==
  /\ c.code = NoCode \/ c.code = 1000 \/ c.code \in 3000 .. 4999
  /\ c.reasonLen =< 123

\* Mutant: the arguments are passed on as they are.
PassedCodeAsIs(c) == c.code

\* The contract wants a code with a reason.
PassedCode(c) == IF c.reasonLen > 0 /\ c.code = NoCode THEN 1000 ELSE c.code

\* #closeUnderlying: what the connection refuses is caught.
CloseUnderlying(c) ==
  IF CloseArgsValid(PassedCode(c), c.reasonLen) /\ ~local
    THEN Ws!LocalClose ELSE UNCHANGED wsVars

\* close(), when it is not a no-op.
Close(c) ==
  /\ Closable(c)
  /\ \/ /\ ready = "connecting" /\ pendingClose' = c /\ UNCHANGED wsVars
     \/ /\ ready = "open" /\ CloseUnderlying(c) /\ UNCHANGED pendingClose
  /\ ready' = "closing"
  /\ UNCHANGED <<ws, buffered, sendVars, closeDispatched, loop, settle, events, discarded,
                 conn>>
-----------------------------------------------------------------------------
(***************************************************************************)
(* The continuations of connect.                                           *)
(***************************************************************************)

\* #established: the open event, whose listeners run before the first receive.
Opens ==
  /\ conn = "connected" /\ ~ws /\ pendingClose = NoClose
  /\ ws' = TRUE /\ ready' = "open"
  /\ events' = Append(events, Event("open")) /\ loop' = "turn"
  /\ UNCHANGED <<buffered, sendVars, pendingClose, closeDispatched, settle, discarded,
                 conn, wsVars>>

\* #established after a close() during CONNECTING: nothing is received.
ClosesAtOnce ==
  /\ conn = "connected" /\ ~ws /\ pendingClose # NoClose
  /\ ws' = TRUE /\ settle' = "waiting"
  /\ CloseUnderlying(pendingClose)
  /\ UNCHANGED <<ready, buffered, sendVars, pendingClose, closeDispatched, loop, events,
                 discarded, conn>>

\* #failed.
Fails ==
  /\ conn = "failed" /\ ~closeDispatched
  /\ ready' = "closed" /\ closeDispatched' = TRUE
  /\ events' = events \o <<Event("error"), CloseEvent(1006, FALSE)>>
  /\ UNCHANGED <<ws, buffered, sendVars, pendingClose, loop, settle, discarded, conn,
                 wsVars>>
-----------------------------------------------------------------------------
(***************************************************************************)
(* #sendQueue: each send starts when the one before it was answered.       *)
(***************************************************************************)

\* Mutant: the sends are not chained.
AnyOnChain(k) == queue[k].at # "none"

OnTurn(k) == k = 1

At(k, where) == OnTurn(k) /\ queue[k].at = where
Move(k, where) == queue' = [queue EXCEPT ![k].at = where]

\* The bytes of a Blob are read first.
BlobIsRead(k) ==
  /\ Quiet /\ At(k, "waiting") /\ queue[k].blob /\ Move(k, "reading")
  /\ UNCHANGED <<ready, ws, buffered, accepted, passed, unread, pendingClose,
                 closeDispatched, loop, settle, events, discarded, conn, wsVars>>

\* They cannot be read: this send is not passed on, and the next one has its turn.
\* Nobody is told, in whatever state the connection is.
BlobFails(k) ==
  /\ Quiet /\ At(k, "reading") /\ Move(k, "unread")
  /\ unread' = unread \cup {queue[k].id}
  /\ UNCHANGED <<ready, ws, buffered, accepted, passed, pendingClose, closeDispatched,
                 loop, settle, events, discarded, conn, wsVars>>

Passes(k) ==
  /\ Quiet
  /\ At(k, "reading") \/ (At(k, "waiting") /\ ~queue[k].blob)
  /\ Move(k, "sending") /\ passed' = Append(passed, queue[k].id)
  /\ UNCHANGED <<ready, ws, buffered, accepted, unread, pendingClose, closeDispatched,
                 loop, settle, events, discarded, conn, wsVars>>

\* Mutant: a send that fails stays counted.
ReleasedIfOk(k) == IF queue[k].at = "refused" THEN 0 ELSE queue[k].size

Released(k) == queue[k].size

\* Both continuations of a send: its bytes are no longer buffered.
SendEnds(k) ==
  /\ Quiet
  /\ At(k, "sent") \/ At(k, "refused") \/ At(k, "unread")
  /\ buffered' = buffered - Released(k) /\ queue' = RemoveAt(queue, k)
  /\ UNCHANGED <<ready, ws, accepted, passed, unread, pendingClose, closeDispatched, loop,
                 settle, events, discarded, conn, wsVars>>
-----------------------------------------------------------------------------
(***************************************************************************)
(* #receiveLoop and #settle.                                               *)
(***************************************************************************)

\* The listeners of open or message returned: the next receive; after open, the
\* wait for the close.
Receives ==
  /\ loop = "turn" /\ loop' = "pending"
  /\ settle' = IF settle = "none" THEN "waiting" ELSE settle
  /\ UNCHANGED <<ready, ws, buffered, sendVars, pendingClose, closeDispatched, events,
                 discarded, conn, wsVars>>

Dispatches ==
  /\ loop = "handed" /\ loop' = "turn" /\ events' = Append(events, MessageEvent)
  /\ UNCHANGED <<ready, ws, buffered, sendVars, pendingClose, closeDispatched, settle,
                 discarded, conn, wsVars>>

\* Mutant: a frame makes the close clean, whether the socket opened or not.
CleanIfFrame == info # NoFrame

WasClean == info # NoFrame /\ pendingClose = NoClose

\* The continuation of wait-closed.
Settles ==
  /\ Quiet /\ settle = "answered" /\ settle' = "done"
  /\ ready' = "closed" /\ closeDispatched' = TRUE
  /\ events' = IF closeDispatched THEN events
               ELSE events \o (IF WasClean THEN <<>> ELSE <<Event("error")>>)
                           \o <<CloseEvent(IF info = NoFrame THEN 1006 ELSE info, WasClean)>>
  /\ UNCHANGED <<ws, buffered, sendVars, pendingClose, loop, discarded, conn, wsVars>>
-----------------------------------------------------------------------------
(***************************************************************************)
(* The host: the answers to the calls in flight, and the connection's own  *)
(* steps.                                                                  *)
(***************************************************************************)
shimVars == <<ready, ws, buffered, pendingClose, closeDispatched, events, accepted, passed,
              unread, discarded>>

ConnectEnds ==
  /\ conn = "connecting" /\ conn' \in {"connected", "failed"}
  /\ UNCHANGED <<shimVars, queue, loop, settle, wsVars>>

SendAnswered(k) ==
  /\ queue[k].at = "sending"
  /\ \/ Ws!Transmit(<<"data">>) /\ Move(k, "sent")
     \/ phase # "open" /\ Move(k, "refused") /\ UNCHANGED wsVars
  /\ UNCHANGED <<shimVars, loop, settle, conn>>

ReceiveAnswered ==
  /\ loop = "pending"
  /\ \/ Ws!Take /\ loop' = "handed"
     \/ Ws!Pass /\ Len(got) < MaxMsgs /\ loop' = "handed"
     \/ /\ local \/ (ended /\ inbox = <<>>)
        /\ loop' = "done" /\ UNCHANGED wsVars
  /\ UNCHANGED <<shimVars, queue, settle, conn>>

WaitClosedAnswered ==
  /\ settle = "waiting" /\ phase = "closed" /\ settle' = "answered"
  /\ UNCHANGED <<shimVars, queue, loop, conn, wsVars>>

\* A connection that is closing gets to its end.
Closing ==
  \/ \E i \in Infos : Ws!Publish(i) \/ Ws!Settle(i)
  \/ Ws!EndInbox \/ Ws!Finish

ConnectionStep ==
  /\ conn = "connected"
  /\ \/ Ws!Arrive /\ Len(got) + Len(inbox) < MaxMsgs
     \/ Ws!StartClosing \/ Closing
     \/ phase # "open" /\ Ws!Transmit(<<"close">>)
  /\ UNCHANGED <<shimVars, queue, loop, settle, conn>>
-----------------------------------------------------------------------------
\* What a send of the chain does next.
Proceeds(k) == BlobIsRead(k) \/ BlobFails(k) \/ Passes(k) \/ SendEnds(k)

ShimNext ==
  \/ \E p \in Payloads : Send(p)
  \/ \E c \in CloseCalls : Close(c)
  \/ Opens \/ ClosesAtOnce \/ Fails \/ Receives \/ Dispatches \/ Settles
  \/ \E k \in DOMAIN queue : Proceeds(k) \/ SendAnswered(k)
  \/ ConnectEnds \/ ReceiveAnswered \/ WaitClosedAnswered \/ ConnectionStep

\* The event loop runs every continuation and the runtime reads a Blob or fails to.
\* A connect ends (ConnectSettles), an answer that is due comes, and a connection
\* that is closing closes (ClosingIsBounded, LocalCloseIsBounded).
Fairness ==
  /\ WF_vars(ConnectEnds) /\ WF_vars(Opens \/ ClosesAtOnce \/ Fails)
  /\ WF_vars(\E k \in DOMAIN queue : Proceeds(k))
  /\ WF_vars(\E k \in DOMAIN queue : SendAnswered(k) /\ phase # "open")
  /\ WF_vars(Receives) /\ WF_vars(Dispatches) /\ WF_vars(Settles)
  /\ WF_vars(ReceiveAnswered) /\ WF_vars(WaitClosedAnswered)
  /\ WF_vars(/\ conn = "connected" /\ phase # "open" /\ Closing
             /\ UNCHANGED <<shimVars, queue, loop, settle, conn>>)

ShimSpec == ShimInit /\ [][ShimNext]_vars /\ Fairness
-----------------------------------------------------------------------------
(***************************************************************************)
(* Properties.                                                             *)
(***************************************************************************)
EventTypes == {"open", "message", "error", "close"}
Events     == [type : EventTypes, message : 0 .. MaxMsgs, code : Int, clean : BOOLEAN]
Places     == {"waiting", "reading", "unread", "sending", "sent", "refused"}

\* The bytes of the sends on the chain.
QueuedBytes ==
  LET total[k \in 0 .. Len(queue)] ==
        IF k = 0 THEN 0 ELSE total[k - 1] + queue[k].size
  IN  total[Len(queue)]

\* The types of the fields, the chain, the two tasks and the events; and
\* bufferedAmount is what is on the chain and what was discarded, whatever
\* became of each send (#sendPayload).
TypeOK ==
  /\ ready \in {"connecting", "open", "closing", "closed"}
  /\ {ws, closeDispatched} \subseteq BOOLEAN /\ pendingClose \in CloseCalls \cup {NoClose}
  /\ conn \in {"connecting", "connected", "failed"}
  /\ loop \in {"none", "turn", "pending", "handed", "done"}
  /\ settle \in {"none", "waiting", "answered", "done"}
  /\ queue \in Seq([id : 1 .. MaxSends, size : Nat, blob : BOOLEAN, at : Places])
  /\ events \in Seq(Events) /\ accepted \in 0 .. MaxSends
  /\ buffered = QueuedBytes + discarded

\* The places of the first n events that are of a type.
OfType(type, n) == {k \in 1 .. n : events[k].type = type}
Count(type) == Cardinality(OfType(type, Len(events)))

\* The events tell the truth, in an order an application can rely on: open first
\* and once; every message the connection handed over, in order; one close, in
\* CLOSED, clean exactly if an opened connection got the peer's frame, with that
\* frame's code, and right behind an error if it is not clean (#established,
\* #receiveLoop, #settle, #failed).
EventsHonest ==
  /\ \A k \in DOMAIN events : events[k].type = "open" <=> (k = 1 /\ loop # "none")
  /\ \A k \in DOMAIN events : events[k].type = "message" =>
       events[k].message = got[Cardinality(OfType("message", k))]
  /\ Count("message") = Len(got) - (IF loop = "handed" THEN 1 ELSE 0)
  /\ Count("close") = (IF closeDispatched THEN 1 ELSE 0)
  /\ closeDispatched <=> ready = "closed"
  /\ \A k \in DOMAIN events : events[k].type = "close" =>
       /\ events[k].clean <=> (loop # "none" /\ info \in PeerCodes)
       /\ events[k].code = (IF info \in PeerCodes THEN info ELSE 1006)
       /\ events[k].clean <=> (k = 1 \/ events[k - 1].type # "error")

\* The sends that await their turn, or the bytes of their Blob.
Ahead == {queue[k].id : k \in {j \in DOMAIN queue : queue[j].at \in {"waiting", "reading"}}}

\* The sends reach the connection in the order of the calls, none twice, and none is
\* lost on the way but a Blob that could not be read, although the bytes of a Blob
\* come later; whatever became of one, those behind it follow (#sendQueue).
SendsInOrder ==
  /\ \A j, k \in DOMAIN passed : j < k => passed[j] < passed[k]
  /\ Range(passed) \cup unread \cup Ahead = 1 .. accepted
  /\ Range(passed) \cap unread = {}
  /\ \A i \in Ahead : \A j \in Range(passed) \cup unread : j < i

\* A close, asked for in any state, by the peer or by a connect that fails, ends
\* in the close event with nothing left on the chain; and unless the application
\* closed, it is shown every message that came before the end.
ClosingCompletes ==
  /\ ready = "closing" \/ phase # "open" \/ conn = "failed"
       ~> closeDispatched /\ queue = <<>>
  /\ ended /\ ~local ~> local \/ (inbox = <<>> /\ loop = "done")

\* What ClosingCompletes rests on: a close that was accepted waits for the
\* connection or was told to it, which does not refuse what close let through; a
\* class that has its connection waits for its end, or will when the listeners
\* of open return; the receive loop stops only at the end; and what is on the
\* chain has a connection to answer it (close, #established, #receiveLoop).
EndIsAwaited ==
  /\ ready = "closing" => IF ws THEN local ELSE pendingClose # NoClose
  /\ ws /\ ~closeDispatched => settle \in {"waiting", "answered"} \/ loop = "turn"
  /\ ws => local \/ loop \in {"turn", "pending", "handed"} \/ (ended /\ inbox = <<>>)
  /\ queue # <<>> => ws
-----------------------------------------------------------------------------
\* websocket.js:473, "Per spec, bufferedAmount grows even in CLOSING/CLOSED, where
\* the data is silently discarded": data sent while OPEN is not.  But the chain
\* passes it on in a later job, and close() goes to the connection at once.
OpenDataIsPassed ==
  local => \A k \in DOMAIN queue : queue[k].at \notin {"waiting", "reading"}
=============================================================================
