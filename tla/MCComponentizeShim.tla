------------------------- MODULE MCComponentizeShim -------------------------
(***************************************************************************)
(* A small instance of ComponentizeShim for TLC.                           *)
(***************************************************************************)
EXTENDS ComponentizeShim

MCPayloads == {[size |-> 1, blob |-> FALSE], [size |-> 2, blob |-> TRUE]}

\* A close without a code, one with a reason only, a valid one, and two that throw.
MCCloseCalls ==
  {[code |-> NoCode, reasonLen |-> 0], [code |-> NoCode, reasonLen |-> 4],
   [code |-> 3000, reasonLen |-> 123], [code |-> 1005, reasonLen |-> 0],
   [code |-> 1000, reasonLen |-> 124]}
=============================================================================
