-------------------------- MODULE MCHostConnection --------------------------
(***************************************************************************)
(* Small instances of HostConnection for TLC.                              *)
(***************************************************************************)
EXTENDS HostProperties, TLC

CONSTANTS s1, s2, r1, r2

\* Message sizes 1, 2, 1: with a bound of 2, messages that fit, one that fits
\* only alone, and one that overflows behind it.
MCOffset == [i \in 0 .. MaxMsgs |-> <<0, 1, 3, 4>>[i + 1]]

\* One valid close, and three that must be refused: a code a client may not
\* send, a reason without a code, a reason too long.
MCCloseRequests ==
  {[code |-> 3000, reasonLen |-> 123], [code |-> 1005, reasonLen |-> 0],
   [code |-> NoCode, reasonLen |-> 4], [code |-> 3000, reasonLen |-> 124]}

MCPeerCodes   == {NoCode, 1000}
MCOnePeerCode == {NoCode}

\* Explore the two sides of the connection one at a time: all messages, the
\* receive and the stream, or all sends and a message or a ping, each with the
\* closes.
InboundSide  == pings = 0 /\ \A s \in Sends : sendSt[s] = "unused"
OutboundSide == peerSent + pings =< 1 /\ ~claimed /\ \A r \in Receives : recvSt[r] = "unused"
EitherSide   == InboundSide \/ OutboundSide

\* For liveness: the guest sends, or reads by receive, by the stream, or by both
\* while the peer sends nothing.  No fairness makes the guest begin a call or the
\* peer send a message, so what has begun is explored to its end.
OneKind ==
  \/ /\ \A s \in Sends : sendSt[s] = "unused"
     /\ (claimed /\ \E r \in Receives : recvSt[r] # "unused") => peerSent = 0
  \/ ~claimed /\ \A r \in Receives : recvSt[r] = "unused"

CallSymmetry == Permutations({s1, s2}) \cup Permutations({r1, r2})
=============================================================================
