-------------------------- MODULE MCGuestProvider --------------------------
(***************************************************************************)
(* Small instances of GuestProvider for TLC.                               *)
(***************************************************************************)
EXTENDS ProviderProperties, TLC

CONSTANTS s1, s2, r1, r2

\* Message sizes 1, 2, 1, as for the host.
MCOffset == [i \in 0 .. MaxMsgs |-> <<0, 1, 3, 4>>[i + 1]]

\* One valid close, and one the arguments forbid.
MCCloseRequests == {[code |-> 3000, reasonLen |-> 123], [code |-> 1005, reasonLen |-> 0]}

MCPeerCodes   == {NoCode, 1000}
MCOnePeerCode == {NoCode}

\* Explore the two sides of the connection one at a time: all messages, the
\* receives and the stream, or all sends with two pings or with a message and
\* the stream, each with the closes.
InboundSide  == pings = 0 /\ \A s \in Sends : sendSt[s] = "unused"
OutboundSide == /\ \A r \in Receives : recvSt[r] = "unused"
                /\ peerSent =< 1 /\ (pings > 0 => peerSent = 0 /\ ~claimed)
EitherSide   == InboundSide \/ OutboundSide

CallSymmetry == Permutations({s1, s2}) \cup Permutations({r1, r2})
=============================================================================
