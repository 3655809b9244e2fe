----------------------------- MODULE WsContract -----------------------------
(***************************************************************************)
(* What every implementation of `polymorph:websocket` promises the guest   *)
(* about one open connection (wit/websocket.wit, wit/README.md "Close      *)
(* contract"), free of tasks, channels and transports.  It is the          *)
(* abstraction the implementations are checked against; it models no code  *)
(* of its own.                                                             *)
(*                                                                         *)
(* Messages are numbered in the order the peer sent them.                  *)
(***************************************************************************)
EXTENDS Naturals, Sequences

CONSTANTS
  Infos, \* what wait-closed may resolve with
  Unset  \* no outcome yet: none of Infos

VARIABLES
  phase, \* what `state` reports
  local, \* a local close was observed
  inbox, \* messages that are still receivable
  got,   \* messages the guest was handed
  ended, \* readers that find the inbox empty see the end
  out,   \* what was handed to the transport: "data" and "close"
  info   \* what wait-closed resolves with

cvars == <<phase, local, inbox, got, ended, out, info>>

CInit ==
  /\ phase = "open" /\ local = FALSE /\ ended = FALSE /\ info = Unset
  /\ inbox = <<>> /\ got = <<>> /\ out = <<>>

\* The next message of the peer becomes receivable: none is skipped.
Arrive ==
  /\ ~local /\ ~ended
  /\ inbox' = Append(inbox, Len(got) + Len(inbox) + 1)
  /\ UNCHANGED <<phase, local, got, ended, out, info>>

\* The oldest receivable message is handed to the guest, once.
Take ==
  /\ ~local /\ inbox # <<>>
  /\ got' = Append(got, Head(inbox)) /\ inbox' = Tail(inbox)
  /\ UNCHANGED <<phase, local, ended, out, info>>

\* A message is handed over as it arrives.
Pass ==
  /\ ~local /\ ~ended /\ inbox = <<>>
  /\ got' = Append(got, Len(got) + 1)
  /\ UNCHANGED <<phase, local, inbox, ended, out, info>>

\* Some side starts the closing handshake.  The backlog stays.
StartClosing ==
  /\ phase = "open" /\ phase' = "closing"
  /\ UNCHANGED <<local, inbox, got, ended, out, info>>

\* A local close is observed: unread messages are discarded for good.
LocalClose ==
  /\ ~local /\ local' = TRUE
  /\ phase' = IF phase = "open" THEN "closing" ELSE phase
  /\ inbox' = <<>>
  /\ UNCHANGED <<got, ended, out, info>>

\* Frames go out, a close frame once and last.
Transmit(frames) ==
  /\ \A k \in DOMAIN out : out[k] # "close"
  /\ out' = out \o frames
  /\ UNCHANGED <<phase, local, inbox, got, ended, info>>

\* The outcome is latched before anything reports the end.
Publish(i) ==
  /\ info = Unset /\ info' = i
  /\ UNCHANGED <<phase, local, inbox, got, ended, out>>

EndInbox ==
  /\ info # Unset /\ ~ended /\ ended' = TRUE
  /\ UNCHANGED <<phase, local, inbox, got, out, info>>

Finish ==
  /\ ended /\ phase # "closed" /\ phase' = "closed"
  /\ UNCHANGED <<local, inbox, got, ended, out, info>>

\* The same three, seen at once.
Settle(i) ==
  /\ info = Unset /\ info' = i /\ ended' = TRUE /\ phase' = "closed"
  /\ UNCHANGED <<local, inbox, got, out>>

CNext ==
  \/ Arrive \/ Take \/ Pass \/ StartClosing \/ LocalClose
  \/ \E frames \in {<<"data">>, <<"close">>, <<"data", "close">>} : Transmit(frames)
  \/ \E i \in Infos : Publish(i) \/ Settle(i)
  \/ EndInbox \/ Finish

CSpec == CInit /\ [][CNext]_cvars
=============================================================================
