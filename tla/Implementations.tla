-------------------------- MODULE Implementations --------------------------
(***************************************************************************)
(* The two Rust implementations that Connect and StreamSend describe side  *)
(* by side: the code is the same algorithm twice, with differences that    *)
(* the definitions name.                                                   *)
(***************************************************************************)
CONSTANT Impls \* the implementations of this instance
ASSUME ImplsAssumption == Impls \subseteq {"host", "provider"}

VARIABLE impl  \* the one that runs, fixed from the start

Host     == impl = "host"
Provider == impl = "provider"
=============================================================================
