------------------------------ MODULE Connect ------------------------------
(***************************************************************************)
(* One call of connect: the checks of its arguments, the trust anchors,    *)
(* name resolution, TCP, TLS, the opening handshake and the subprotocol,   *)
(* under the connect bound (rust/guest-provider/src/connect.rs,            *)
(* rust/wasmtime/src/websocket.rs; the host leaves the steps between the   *)
(* checks and the reply to a library).                                     *)
(*                                                                         *)
(* The network and the server do what they like: they answer, refuse,      *)
(* break off or stay silent at every step.                                 *)
(***************************************************************************)
EXTENDS Implementations, Naturals, Sequences

CONSTANTS
  Requests,    \* the calls of this instance: url, offer and configured roots
  Tokens,      \* the strings that are subprotocol tokens
  Selections,  \* what a server may select; NoProtocol is none
  NoProtocol,
  MaxAddresses \* bound: addresses a name resolves to

ASSUME ConnectAssumption == MaxAddresses \in Nat \ {0} /\ NoProtocol \notin Tokens

VARIABLES
  request,    \* the call's arguments, and its configuration
  step,       \* what it does next
  untried,    \* addresses not yet tried
  tried,      \* addresses that failed
  open,       \* what the call holds: "socket", "tls", "pipe", "pump"
  touched,    \* the network was used
  timedOut,   \* the connect bound passed
  negotiated, \* the server's selection
  outcome     \* what connect returned

connectVars ==
  <<request, step, untried, tried, open, touched, timedOut, negotiated, outcome, impl>>

ConnectInit ==
  /\ request \in Requests /\ step = "arguments"
  /\ untried = 0 /\ tried = 0 /\ open = {} /\ touched = FALSE
  /\ timedOut = FALSE /\ negotiated = NoProtocol /\ outcome = "none"

Url    == request.url
Offer  == request.offer
Secure == Url.scheme = "wss"
-----------------------------------------------------------------------------
\* validate_url: absolute, ws or wss, with a host, without fragment or userinfo.
ValidUrl(url) ==
  ~url.fragment /\ url.scheme \in {"ws", "wss"} /\ url.host /\ ~url.userinfo

\* validate_protocols: tokens, each once.
ValidOffer(offer) ==
  /\ \A i \in DOMAIN offer : offer[i] \in Tokens
  /\ \A i, j \in DOMAIN offer : offer[i] = offer[j] => i = j

\* The same two as the provider checks them, a copy line for line.
UrlRefused   == ~ValidUrl(Url)
OfferRefused == ~ValidOffer(Offer)

\* Extra roots of the host that do not parse fail every connect, secure or not.
ExtraRootsParse == request.roots # "malformed"

\* Mutant: a bundle without certificates, or none, is taken for one.
AnchorsParse == Secure => request.roots # "malformed"

\* The provider has no other roots: wss needs at least one.
AnchorsConfigured == Secure => request.roots = "some"

RootsUsable == IF Host THEN ExtraRootsParse ELSE AnchorsConfigured

\* An offer binds the server; without one it may select nothing.
Agreed == IF Offer = <<>> THEN negotiated = NoProtocol
                          ELSE \E i \in DOMAIN Offer : Offer[i] = negotiated

Ends(o, kept) == step' = "done" /\ outcome' = o /\ open' = kept

\* A failed connect drops what it holds.  The provider's pipe is a task of its
\* own: it ends when it sees its streams dropped.
Fails == Ends("connectFailed", open \cap {"pipe"})

Arguments ==
  /\ step = "arguments"
  /\ \/ UrlRefused /\ Ends("invalidUrl", {})
     \/ ~UrlRefused /\ OfferRefused /\ Ends("invalidArgument", {})
     \/ ~UrlRefused /\ ~OfferRefused /\ step' = "roots" /\ UNCHANGED <<open, outcome>>
  /\ UNCHANGED <<request, untried, tried, touched, timedOut, negotiated, impl>>

Roots ==
  /\ step = "roots"
  /\ IF RootsUsable THEN step' = "resolve" /\ UNCHANGED <<open, outcome>> ELSE Fails
  /\ UNCHANGED <<request, untried, tried, touched, timedOut, negotiated, impl>>

\* A literal address needs no lookup; a lookup may fail or find none.
Resolve ==
  /\ step = "resolve" /\ touched' = TRUE
  /\ \E found \in IF Url.literal THEN {1} ELSE 0 .. MaxAddresses :
       /\ untried' = found
       /\ IF found = 0 THEN Fails ELSE step' = "tcp" /\ UNCHANGED <<open, outcome>>
  /\ UNCHANGED <<request, tried, timedOut, negotiated, impl>>

TcpConnects ==
  /\ step = "tcp"
  /\ step' = IF Secure THEN "tls" ELSE "upgrade"
  /\ open' = {"socket"} \cup (IF Secure THEN {"tls"} ELSE {})
                         \cup (IF Secure /\ Provider THEN {"pipe"} ELSE {})
  /\ UNCHANGED <<request, untried, tried, touched, timedOut, negotiated, outcome, impl>>

\* The next address is tried only when this one failed.
TcpFails ==
  /\ step = "tcp"
  /\ untried' = untried - 1 /\ tried' = tried + 1
  /\ IF untried = 1 THEN Fails ELSE UNCHANGED <<step, open, outcome>>
  /\ UNCHANGED <<request, touched, timedOut, negotiated, impl>>

\* TLS is up, or the request of the upgrade is written.
Passes ==
  /\ step \in {"tls", "upgrade"}
  /\ step' = IF step = "tls" THEN "upgrade" ELSE "reply"
  /\ UNCHANGED <<request, untried, tried, open, touched, timedOut, negotiated, outcome, impl>>

\* The server switches protocols, with a selection or without.
Reply(selection) ==
  /\ step = "reply" /\ step' = "agree" /\ negotiated' = selection
  /\ UNCHANGED <<request, untried, tried, open, touched, timedOut, outcome, impl>>

\* TLS fails, the transport ends or breaks, the server refuses the upgrade.
Breaks ==
  /\ step \in {"tls", "upgrade", "reply"} /\ Fails
  /\ UNCHANGED <<request, untried, tried, touched, timedOut, negotiated, impl>>

\* The subprotocol is checked last; only then does the pump start.
Agree ==
  /\ step = "agree"
  /\ IF Agreed THEN Ends("ok", open \cup {"pump"}) ELSE Fails
  /\ UNCHANGED <<request, untried, tried, touched, timedOut, negotiated, impl>>

\* Mutant: the bound is put around the upgrade only.
TimesOutLate ==
  /\ step \in {"upgrade", "reply"}
  /\ timedOut' = TRUE /\ Fails
  /\ UNCHANGED <<request, untried, tried, touched, negotiated, impl>>

\* The bound covers everything from the lookup to the reply, and in the
\* provider the reading of the roots, which does not wait.
TimesOut ==
  /\ step \in {"resolve", "tcp", "tls", "upgrade", "reply"}
  /\ timedOut' = TRUE /\ Fails
  /\ UNCHANGED <<request, untried, tried, touched, negotiated, impl>>

PipeEnds ==
  /\ "pipe" \in open /\ outcome = "connectFailed" /\ open' = open \ {"pipe"}
  /\ UNCHANGED <<request, step, untried, tried, touched, timedOut, negotiated, outcome, impl>>

OwnStep    == Arguments \/ Roots \/ Agree \/ PipeEnds
RemoteStep == \/ Resolve \/ TcpConnects \/ TcpFails \/ Passes \/ Breaks
              \/ \E selection \in Selections : Reply(selection)

ConnectNext == OwnStep \/ RemoteStep \/ TimesOut

ConnectSpec == ConnectInit /\ impl \in Impls /\ [][ConnectNext]_connectVars
=============================================================================
