------------------------------ MODULE Session ------------------------------
(***************************************************************************)
(* What a guest does first: connect, and over the connection it gets, one  *)
(* call of send-via-stream.  The properties of both calls.                 *)
(***************************************************************************)
EXTENDS Connect, StreamSend

CONSTANT Streamed \* bound: the connects whose connection is streamed over

sessionVars == <<connectVars, streamVars>>
Connected   == outcome = "ok"
Streaming   == Connected /\ request \in Streamed

SessionInit == ConnectInit /\ StreamInit /\ impl \in Impls
SessionNext == \/ ConnectNext /\ UNCHANGED streamVars
               \/ Streaming /\ StreamNext /\ UNCHANGED connectVars

\* The executor runs what waits for nobody and polls the call and its
\* collectors, the clock runs on, and a connection that is closing answers
\* every command (ClosingIsBounded, LocalCloseIsBounded).
Fairness ==
  /\ WF_sessionVars(OwnStep /\ UNCHANGED streamVars)
  /\ WF_sessionVars(TimesOut /\ UNCHANGED streamVars)
  /\ WF_sessionVars(Streaming /\ CallStep /\ UNCHANGED connectVars)
  /\ WF_sessionVars(Streaming /\ CollectStep /\ UNCHANGED connectVars)
  /\ WF_sessionVars(/\ Streaming /\ (closeCalled \/ connOver)
                    /\ (Transmit \/ Refuse) /\ UNCHANGED connectVars)

SessionSpec == SessionInit /\ [][SessionNext]_sessionVars /\ Fairness
-----------------------------------------------------------------------------
ConnectTypeOK ==
  /\ request \in Requests
  /\ step \in {"arguments", "roots", "resolve", "tcp", "tls", "upgrade", "reply",
               "agree", "done"}
  /\ untried \in 0 .. MaxAddresses /\ tried \in 0 .. MaxAddresses
  /\ open \subseteq {"socket", "tls", "pipe", "pump"}
  /\ {touched, timedOut} \subseteq BOOLEAN
  /\ negotiated \in Selections \cup {NoProtocol}
  /\ outcome \in {"none", "ok", "invalidUrl", "invalidArgument", "connectFailed"}

\* The types of both calls' state; no more is kept of a payload than was
\* declared, whatever its writer sends, and the provider has one payload in
\* hand at a time (ByteCollector, collect_payload, read_one).
TypeOK == ConnectTypeOK /\ StreamTypeOK /\ PayloadsBounded

\* A connection is only handed out after everything was checked and agreed,
\* with every layer its URL asks for, before the bound; and a call whose
\* arguments are wrong, or a provider without trust anchors for wss, never
\* touches the network (connect of either implementation; connect.rs:115,
\* "fail closed before any network activity").
ConnectHonest ==
  /\ Connected => /\ ValidUrl(Url) /\ ValidOffer(Offer) /\ Agreed /\ ~timedOut
                  /\ {"socket", "pump"} \subseteq open /\ (Secure <=> "tls" \in open)
  /\ "pump" \in open => Connected
  /\ outcome \in {"invalidUrl", "invalidArgument"} => ~touched
  /\ Provider /\ Secure /\ request.roots # "some" => ~touched

\* A connect ends although the network may stay silent at every step, and one
\* that fails leaves no socket and no task behind (connect's bound, the select
\* over establish, the task of pipe).
ConnectSettles ==
  step # "done" ~> step = "done" /\ (~Connected => open = {})

\* A local close ends the call wherever it is; so does the end of the stream
\* when the connection is over (send_via_stream's selects).
CallEnds ==
  /\ Connected /\ closeCalled ~> stage = "done"
  /\ Connected /\ finished /\ ended = DOMAIN elems /\ connOver ~> stage = "done"

\* What both rest on at each moment: all that a failed connect leaves is a task that
\* ends by itself; the call waits for a payload that it has read from the stream
\* and of which nothing is counted that was not written, or for the answer to a
\* command that is under way; and what the provider has read it has sent, before it
\* looks for the end (pipe, collect_payload, ByteCollector, read_one).
CallsCanEnd ==
  /\ step = "done" /\ ~Connected => open \subseteq {"pipe"}
  /\ stage = "payload" => Current =< taken
  /\ stage = "send" => cmd # "none"
  /\ stage = "next" /\ Provider => taken = sent
  /\ \A k \in DOMAIN elems : Arrived(k) =< written[k]
=============================================================================
