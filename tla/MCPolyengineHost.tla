-------------------------- MODULE MCPolyengineHost --------------------------
(***************************************************************************)
(* Small instances of PolyengineHost for TLC.                              *)
(***************************************************************************)
EXTENDS PolyengineProperties

CONSTANTS s1, r1

\* Message sizes 1, 2, 1, as for the other hosts.
MCOffset == [i \in 0 .. MaxMsgs |-> <<0, 1, 3, 4>>[i + 1]]

MCCloseRequests == {[code |-> 3000, reasonLen |-> 123], [code |-> 1005, reasonLen |-> 0]}
=============================================================================
