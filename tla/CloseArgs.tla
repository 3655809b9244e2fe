----------------------------- MODULE CloseArgs -----------------------------
(***************************************************************************)
(* The close codes of the `polymorph:websocket` contract: what `close`     *)
(* accepts from the guest, and how a received close frame is reported by   *)
(* `wait-closed`.  A code is an integer; NoCode stands for the `none` of   *)
(* `option<u16>`, and for a close frame with an empty body.  A reason is   *)
(* abstracted to its length in UTF-8 bytes, the only thing the checks of   *)
(* the code look at.                                                       *)
(***************************************************************************)
EXTENDS Integers

\* The `none` close code: outside u16, so no wire code is mistaken for it.
NoCode == -1

\* The largest u16.
MaxCode == 65535

CloseCode == NoCode .. MaxCode

\* The codes a client may send, and the bound on a reason.
SendableCodes == {1000} \cup (3000 .. 4999)
MaxReasonBytes == 123

(***************************************************************************)
(* validate_close_args: a given code must be sendable, a missing code      *)
(* forbids a reason, and the reason is bounded in every case.              *)
(***************************************************************************)
CloseArgsValid(code, reasonLen) ==
  /\ IF code = NoCode THEN reasonLen = 0 ELSE code \in SendableCodes
  /\ reasonLen =< MaxReasonBytes

\* What a close frame without a code is reported as; never sent on the wire.
NoStatusReceived == 1005

(***************************************************************************)
(* close_info_from: the code `wait-closed` reports for a received frame.   *)
(***************************************************************************)
CloseInfoFrom(code) == IF code = NoCode THEN NoStatusReceived ELSE code
=============================================================================
