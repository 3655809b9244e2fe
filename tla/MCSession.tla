----------------------------- MODULE MCSession -----------------------------
(***************************************************************************)
(* A small instance of Session for TLC.                                    *)
(***************************************************************************)
EXTENDS Session

\* A sound message, one shorter and one longer than declared, and one whose
\* bytes are no text.
MCShapes ==
  {[declared |-> 2, actual |-> 2, fits |-> TRUE],
   [declared |-> 2, actual |-> 1, fits |-> TRUE],
   [declared |-> 1, actual |-> 2, fits |-> TRUE],
   [declared |-> 1, actual |-> 1, fits |-> FALSE]}

WsUrl == [scheme |-> "ws", fragment |-> FALSE, host |-> TRUE, userinfo |-> FALSE,
          literal |-> FALSE]

\* Every reason to refuse a URL or an offer, alone and together.
BadUrls ==
  {[WsUrl EXCEPT !.scheme = "http"], [WsUrl EXCEPT !.fragment = TRUE],
   [WsUrl EXCEPT !.host = FALSE], [WsUrl EXCEPT !.userinfo = TRUE]}
BadOffers == {<<"a", "a">>, <<"a", "no token">>}

MCRequests ==
  [url : {WsUrl, [WsUrl EXCEPT !.scheme = "wss"], [WsUrl EXCEPT !.literal = TRUE]},
   offer : {<<>>, <<"a", "b">>}, roots : {"none", "malformed", "empty", "some"}]
    \cup [url : BadUrls \cup {WsUrl}, offer : BadOffers, roots : {"none"}]
    \cup [url : BadUrls, offer : {<<>>}, roots : {"none"}]

OneRequest == {[url |-> [WsUrl EXCEPT !.literal = TRUE], offer |-> <<>>, roots |-> "none"]}
=============================================================================
