---------------------------- MODULE SessionProofs ----------------------------
(***************************************************************************)
(* Connect and send-via-stream keep their promises for any requests,       *)
(* servers, messages and bounds: the types, ConnectHonest and SentIsHonest *)
(* of Session, proved.                                                     *)
(***************************************************************************)
EXTENDS Session, SequenceTheorems, TLAPS

\* Where connect has got to says what it has checked and what it holds.
ConnectKept ==
  /\ step = "done" <=> outcome # "none"
  /\ step \notin {"arguments", "done"} => ValidUrl(Url) /\ ValidOffer(Offer)
  /\ step \in {"arguments", "roots", "resolve"} => ~touched /\ tried = 0
  /\ step \notin {"arguments", "roots", "done"} => RootsUsable
  /\ step # "done" => ~timedOut /\ "pump" \notin open
  /\ step \in {"arguments", "roots", "resolve", "tcp"} => open = {}
  /\ step \in {"tls", "upgrade", "reply", "agree"} =>
       "socket" \in open /\ (Secure <=> "tls" \in open)
  /\ untried + tried =< MaxAddresses /\ (step = "tcp" => untried > 0)

\* A message of the call is in one place, and a payload that ended is whole.
Sound(k) == /\ k \in DOMAIN elems
            /\ elems[k].fits /\ elems[k].actual = elems[k].declared

StreamKept ==
  /\ stage = "done" <=> result # "none"
  /\ stage \in {"idle", "next", "payload"} => cmd = "none"
  /\ stage = "send" => cmd # "none"
  /\ Len(handed) \in {sent, sent + 1}
  /\ cmd = "ok" => Len(handed) = sent + 1
  /\ cmd \in {"none", "queued"} => Len(handed) = sent
  /\ Len(handed) # sent => cmd = "ok" \/ connOver
  /\ \A i \in 1 .. Len(handed) : handed[i] = i /\ Sound(i)
  /\ cmd = "queued" => Sound(Current)
  /\ cmd # "none" /\ stage = "done" => \/ cmd = result /\ cmd \in Errors
                                       \/ Host /\ closeCalled /\ result = "closed"
  /\ result = "ok" => finished /\ sent = Len(elems)
  /\ \A k \in ended : written[k] = elems[k].actual
  /\ \A k \in Elements : Arrived(k) =< written[k]
  /\ \A k \in Elements : k \notin DOMAIN elems => payloads[k] = NoBytes
-----------------------------------------------------------------------------
\* What a call of connect was given does not change, nor what follows from it.
Given == <<ValidUrl(Url), ValidOffer(Offer), RootsUsable, Secure, Provider, request.roots>>

LEMMA GivenKept == UNCHANGED <<request, impl>> => UNCHANGED Given
BY DEF Given, ValidUrl, ValidOffer, RootsUsable, ExtraRootsParse, AnchorsConfigured,
       Url, Offer, Secure, Host, Provider

\* A provider that reads its roots without finding any fails a secure connect.
LEMMA RootsNeeded == RootsUsable /\ Provider /\ Secure => request.roots = "some"
BY DEF RootsUsable, AnchorsConfigured, Host, Provider

LEMMA ConnectInitKept ==
  ASSUME ConnectInit PROVE ConnectKept /\ ConnectTypeOK /\ ConnectHonest
<1> USE ConnectAssumption DEF ConnectInit
<1>1. ConnectKept BY DEF ConnectKept
<1>2. ConnectTypeOK
  <2>1. {touched, timedOut} \subseteq BOOLEAN /\ open \subseteq {"socket", "tls", "pipe", "pump"}
    OBVIOUS
  <2> QED BY <2>1 DEF ConnectTypeOK
<1>3. ConnectHonest BY DEF ConnectHonest, Connected
<1> QED BY <1>1, <1>2, <1>3

\* Every step of connect keeps the types.
LEMMA ConnectNextTyped ==
  ASSUME ConnectTypeOK, ConnectKept, [ConnectNext]_connectVars
  PROVE  ConnectTypeOK'
<1> USE ConnectAssumption DEF ConnectTypeOK
<1>0. tried \in Nat /\ untried \in Nat /\ untried + tried =< MaxAddresses
  BY DEF ConnectKept
<1>1. CASE Arguments BY <1>1 DEF Arguments, Ends
<1>2. CASE Roots BY <1>2 DEF Roots, Fails, Ends
<1>3. CASE Agree BY <1>3 DEF Agree, Fails, Ends
<1>4. CASE PipeEnds BY <1>4 DEF PipeEnds
<1>5. CASE Resolve
  <2>1. untried' \in 0 .. MaxAddresses BY <1>5 DEF Resolve
  <2> QED BY <1>5, <2>1 DEF Resolve, Fails, Ends
<1>6. CASE TcpConnects BY <1>6 DEF TcpConnects
<1>7. CASE TcpFails
  <2>1. untried' \in 0 .. MaxAddresses /\ tried' \in 0 .. MaxAddresses
    BY <1>0, <1>7 DEF TcpFails, ConnectKept
  <2> QED BY <1>7, <2>1 DEF TcpFails, Fails, Ends
<1>8. CASE Passes BY <1>8 DEF Passes
<1>9. CASE Breaks BY <1>9 DEF Breaks, Fails, Ends
<1>10. ASSUME NEW selection \in Selections, Reply(selection) PROVE ConnectTypeOK'
  BY <1>10 DEF Reply
<1>11. CASE TimesOut BY <1>11 DEF TimesOut, Fails, Ends
<1>12. CASE UNCHANGED connectVars BY <1>12 DEF connectVars
<1> QED
  BY <1>1, <1>2, <1>3, <1>4, <1>5, <1>6, <1>7, <1>8, <1>9, <1>10, <1>11, <1>12
     DEF ConnectNext, OwnStep, RemoteStep

\* Every step of connect keeps the rest.
LEMMA ConnectNextKept ==
  ASSUME ConnectTypeOK, ConnectTypeOK', ConnectKept, [ConnectNext]_connectVars
  PROVE  ConnectKept'
<1> USE ConnectAssumption, GivenKept DEF ConnectKept, Given
<1>0. tried \in Nat /\ untried \in Nat BY DEF ConnectTypeOK
<1>1. CASE Arguments BY <1>1 DEF Arguments, Ends, UrlRefused, OfferRefused
<1>2. CASE Roots BY <1>2 DEF Roots, Fails, Ends
<1>3. CASE Agree BY <1>3 DEF Agree, Fails, Ends
<1>4. CASE PipeEnds BY <1>4 DEF PipeEnds
<1>5. CASE Resolve BY <1>0, <1>5 DEF Resolve, Fails, Ends
<1>6. CASE TcpConnects
  <2>1. "socket" \in open' /\ "pump" \notin open' /\ (Secure <=> "tls" \in open')
    BY <1>6 DEF TcpConnects
  <2> QED BY <1>6, <2>1 DEF TcpConnects
<1>7. CASE TcpFails BY <1>0, <1>7 DEF TcpFails, Fails, Ends
<1>8. CASE Passes BY <1>8 DEF Passes
<1>9. CASE Breaks BY <1>9 DEF Breaks, Fails, Ends
<1>10. ASSUME NEW selection \in Selections, Reply(selection) PROVE ConnectKept'
  BY <1>10 DEF Reply
<1>11. CASE TimesOut BY <1>11 DEF TimesOut, Fails, Ends
<1>12. CASE UNCHANGED connectVars BY <1>12 DEF connectVars
<1> QED
  BY <1>1, <1>2, <1>3, <1>4, <1>5, <1>6, <1>7, <1>8, <1>9, <1>10, <1>11, <1>12
     DEF ConnectNext, OwnStep, RemoteStep

\* Every step of connect keeps its promise.
LEMMA ConnectNextHonest ==
  ASSUME ConnectTypeOK, ConnectKept, ConnectHonest, [ConnectNext]_connectVars
  PROVE  ConnectHonest'
<1> USE GivenKept, RootsNeeded DEF ConnectHonest, Connected, ConnectKept, Given
<1>1. CASE Arguments BY <1>1 DEF Arguments, Ends
<1>2. CASE Roots BY <1>2 DEF Roots, Fails, Ends
<1>3. CASE Agree
  <2>1. Agreed' <=> Agreed BY <1>3 DEF Agree, Agreed, Offer
  <2> QED BY <1>3, <2>1 DEF Agree, Fails, Ends
<1>4. CASE PipeEnds BY <1>4 DEF PipeEnds
<1>5. CASE Resolve BY <1>5 DEF Resolve, Fails, Ends
<1>6. CASE TcpConnects BY <1>6 DEF TcpConnects
<1>7. CASE TcpFails BY <1>7 DEF TcpFails, Fails, Ends
<1>8. CASE Passes BY <1>8 DEF Passes
<1>9. CASE Breaks BY <1>9 DEF Breaks, Fails, Ends
<1>10. ASSUME NEW selection \in Selections, Reply(selection) PROVE ConnectHonest'
  BY <1>10 DEF Reply
<1>11. CASE TimesOut BY <1>11 DEF TimesOut, Fails, Ends
<1>12. CASE UNCHANGED connectVars
  <2>1. Agreed' <=> Agreed BY <1>12 DEF connectVars, Agreed, Offer
  <2> QED BY <1>12, <2>1 DEF connectVars
<1> QED
  BY <1>1, <1>2, <1>3, <1>4, <1>5, <1>6, <1>7, <1>8, <1>9, <1>10, <1>11, <1>12
     DEF ConnectNext, OwnStep, RemoteStep
-----------------------------------------------------------------------------
\* What a shape of the guest is, and an element of the stream.
LEMMA ElementTypes ==
  ASSUME StreamTypeOK, NEW k \in DOMAIN elems
  PROVE  k \in Elements /\ elems[k].declared \in Nat /\ elems[k].actual \in Nat
<1>1. elems \in Seq(Shapes) /\ Len(elems) =< MaxElements /\ MaxElements \in Nat
  BY ShapesAssumption DEF StreamTypeOK
<1>2. elems[k] \in Shapes /\ k \in 1 .. Len(elems) BY <1>1
<1>3. elems[k] \in [declared : Nat, actual : Nat, fits : BOOLEAN]
  BY <1>2, ShapesAssumption
<1> QED BY <1>1, <1>2, <1>3 DEF Elements

\* The elements written stay what they are.
LEMMA ElementsStay ==
  ASSUME StreamTypeOK, NEW shape \in Shapes, elems' = Append(elems, shape)
  PROVE  /\ Len(elems') = Len(elems) + 1 /\ elems' \in Seq(Shapes)
         /\ DOMAIN elems' = DOMAIN elems \cup {Len(elems) + 1}
         /\ Len(elems) + 1 \notin DOMAIN elems
         /\ \A k \in DOMAIN elems : elems'[k] = elems[k]
         /\ \A k \in Nat : Sound(k) => Sound(k)'
<1>1. elems \in Seq(Shapes) BY DEF StreamTypeOK
<1>2. /\ Len(elems') = Len(elems) + 1 /\ elems' \in Seq(Shapes)
      /\ DOMAIN elems' = DOMAIN elems \cup {Len(elems) + 1}
      /\ Len(elems) + 1 \notin DOMAIN elems
      /\ \A k \in DOMAIN elems : elems'[k] = elems[k]
  BY <1>1
<1> QED BY <1>2 DEF Sound

\* What a chunk adds to a payload: all of it is counted, and no more is kept
\* than was declared.
LEMMA Collecting ==
  ASSUME StreamTypeOK, PayloadsBounded, NEW k \in DOMAIN elems,
         Arrived(k) =< written[k]
  PROVE  /\ Collected(k) \in [kept : Nat, excess : Nat]
         /\ Collected(k).kept =< elems[k].declared
         /\ Collected(k).kept + Collected(k).excess = written[k]
<1>1. k \in Elements /\ elems[k].declared \in Nat BY ElementTypes
<1>2. payloads[k] \in [kept : Nat, excess : Nat] /\ written[k] \in Nat
  BY <1>1 DEF StreamTypeOK
<1>3. payloads[k].kept =< elems[k].declared BY DEF PayloadsBounded
<1> QED BY <1>1, <1>2, <1>3 DEF Collected, Min2, Arrived

LEMMA StreamInitKept ==
  ASSUME StreamInit, impl \in Impls PROVE StreamTypeOK /\ PayloadsBounded /\ StreamKept
<1> USE ShapesAssumption DEF StreamInit
<1>1. NoBytes \in [kept : Nat, excess : Nat] BY DEF NoBytes
<1>2. {finished, closeCalled, connOver} \subseteq BOOLEAN OBVIOUS
<1>3. elems \in Seq(Shapes) /\ Len(elems) = 0 /\ DOMAIN elems = {} OBVIOUS
<1>4. handed \in Seq(Elements) /\ Len(handed) = 0 OBVIOUS
<1>5. StreamTypeOK BY <1>1, <1>2, <1>3, <1>4 DEF StreamTypeOK
<1>6. PayloadsBounded BY <1>3 DEF PayloadsBounded
<1>7. \A k \in Elements : Arrived(k) = 0 BY DEF Arrived, NoBytes
<1>8. StreamKept BY <1>3, <1>4, <1>7 DEF StreamKept
<1> QED BY <1>5, <1>6, <1>8

\* Every step of the call, of its guest and of the connection keeps the types.
LEMMA StreamNextTyped ==
  ASSUME StreamTypeOK, PayloadsBounded, StreamKept, [StreamNext]_streamVars
  PROVE  StreamTypeOK'
<1> USE ShapesAssumption DEF StreamTypeOK, guestSide, callSide, connSide
<1>0. elems \in Seq(Shapes) /\ Len(elems) \in Nat /\ sent \in Nat /\ taken \in Nat
      /\ DOMAIN elems = 1 .. Len(elems)
  OBVIOUS
<1>1. ASSUME NEW shape \in Shapes, WriteElement(shape) PROVE StreamTypeOK'
  <2>1. Len(elems') = Len(elems) + 1 /\ elems' \in Seq(Shapes)
        /\ DOMAIN elems' = DOMAIN elems \cup {Len(elems) + 1}
    BY <1>1, ElementsStay DEF WriteElement
  <2> QED BY <1>0, <1>1, <2>1 DEF WriteElement
<1>2. ASSUME NEW k \in Elements, WriteByte(k) PROVE StreamTypeOK'
  <2>1. written' = [written EXCEPT ![k] = @ + 1] /\ UNCHANGED elems BY <1>2 DEF WriteByte
  <2>2. written' \in [Elements -> Nat] BY <2>1
  <2> QED BY <1>2, <2>2 DEF WriteByte
<1>3. ASSUME NEW k \in Elements, EndPayload(k) PROVE StreamTypeOK'
  BY <1>3 DEF EndPayload
<1>4. CASE EndStream BY <1>4 DEF EndStream
<1>5. CASE CloseCall BY <1>5 DEF CloseCall
<1>6. CASE DrainElements BY <1>0, <1>6 DEF DrainElements
<1>7. ASSUME NEW k \in Elements, Collect(k) PROVE StreamTypeOK'
  <2>1. k \in DOMAIN elems BY <1>0, <1>7 DEF Collect, Elements
  <2>2. Collected(k) \in [kept : Nat, excess : Nat] BY <2>1, Collecting DEF StreamKept
  <2> QED BY <1>7, <2>2 DEF Collect
<1>8. CASE Call BY <1>8 DEF Call, Return, Errors
<1>9. CASE NextElement
  <2>1. taken' \in 0 .. Len(elems)
    BY <1>0, <1>9 DEF NextElement, Proceeds, HasNext, Current
  <2> QED BY <1>9, <2>1 DEF NextElement
<1>10. CASE StreamEnds BY <1>10 DEF StreamEnds, Return
<1>11. CASE SendPayload BY <1>11 DEF SendPayload, Return, Errors
<1>12. CASE SendAnswered
  <2>1. cmd = "ok" => sent + 1 \in 0 .. MaxElements
    <3>1. cmd = "ok" => Len(handed) = sent + 1 BY DEF StreamKept
    <3>2. \A i \in 1 .. Len(handed) : i \in Elements
      BY ElementTypes DEF StreamKept, Sound
    <3> QED BY <1>0, <3>1, <3>2 DEF Elements
  <2> QED BY <1>12, <2>1 DEF SendAnswered, Return, Errors
<1>13. CASE AbortCall BY <1>13 DEF AbortCall, Return, Errors
<1>14. CASE Transmit
  <2>1. Current \in Elements
    BY <1>14, ElementTypes DEF Transmit, StreamKept, Sound
  <2> QED BY <1>14, <2>1 DEF Transmit
<1>15. CASE ConnectionEnds BY <1>15 DEF ConnectionEnds
<1>16. CASE Refuse BY <1>16 DEF Refuse, Errors
<1>18. ASSUME NEW err \in Errors, WriteFails(err) PROVE StreamTypeOK'
  <2>1. Current \in Elements
    BY <1>18, ElementTypes DEF WriteFails, StreamKept, Sound
  <2>2. cmd' \in Errors /\ connOver' = TRUE
        /\ UNCHANGED <<elems, written, ended, finished, closeCalled, taken, payloads, stage,
                       sent, result, impl>>
    BY <1>18 DEF WriteFails
  <2>3. handed' \in Seq(Elements)
    <3>1. handed' = handed \/ handed' = Append(handed, Current) BY <1>18 DEF WriteFails
    <3>2. handed \in Seq(Elements) OBVIOUS
    <3>3. Append(handed, Current) \in Seq(Elements) BY <2>1, <3>2
    <3> QED BY <3>1, <3>2, <3>3
  <2> QED BY <2>2, <2>3
<1>17. CASE UNCHANGED streamVars BY <1>17 DEF streamVars
<1> QED
  BY <1>1, <1>2, <1>3, <1>4, <1>5, <1>6, <1>7, <1>8, <1>9, <1>10, <1>11, <1>12, <1>13,
     <1>14, <1>15, <1>16, <1>17, <1>18 DEF StreamNext, CallStep, GuestStep, CollectStep, ConnStep

\* Every step keeps the payloads within their declared lengths.
LEMMA StreamNextBounded ==
  ASSUME StreamTypeOK, PayloadsBounded, StreamKept, [StreamNext]_streamVars
  PROVE  PayloadsBounded'
<1> USE ShapesAssumption DEF guestSide, callSide, connSide, Provider, Host
<1>0. elems \in Seq(Shapes) /\ Len(elems) \in Nat /\ sent \in Nat /\ taken \in Nat
      /\ DOMAIN elems = 1 .. Len(elems) /\ taken =< Len(elems)
      /\ payloads \in [Elements -> [kept : Nat, excess : Nat]]
  BY DEF StreamTypeOK
<1>1. ASSUME UNCHANGED <<elems, payloads, impl>>,
             Provider => taken' =< sent' + 1
      PROVE  PayloadsBounded'
  BY <1>1 DEF PayloadsBounded
<1>2. Provider => taken =< sent + 1 BY DEF PayloadsBounded
<1>3. ASSUME NEW shape \in Shapes, WriteElement(shape) PROVE PayloadsBounded'
  <2>1. /\ DOMAIN elems' = DOMAIN elems \cup {Len(elems) + 1}
        /\ \A k \in DOMAIN elems : elems'[k] = elems[k]
        /\ elems' \in Seq(Shapes) /\ Len(elems') = Len(elems) + 1
    BY <1>3, ElementsStay DEF WriteElement
  <2>2. Len(elems) + 1 \in Elements /\ Len(elems) + 1 \notin DOMAIN elems
    BY <1>0, <1>3 DEF WriteElement, Elements
  <2>3. payloads[Len(elems) + 1].kept = 0 BY <2>2 DEF StreamKept, NoBytes
  <2>4. elems'[Len(elems) + 1] \in Shapes BY <1>0, <2>1
  <2>5. elems'[Len(elems) + 1].declared \in Nat BY <2>4
  <2> QED BY <1>3, <2>1, <2>3, <2>5 DEF WriteElement, PayloadsBounded
<1>4. ASSUME NEW k \in Elements, Collect(k) PROVE PayloadsBounded'
  <2>1. k \in DOMAIN elems BY <1>0, <1>4 DEF Collect, Elements
  <2>2. Collected(k).kept =< elems[k].declared BY <2>1, Collecting DEF StreamKept
  <2> QED BY <1>0, <1>4, <2>2 DEF Collect, PayloadsBounded
<1>5. ASSUME NEW k \in Elements, WriteByte(k) \/ EndPayload(k) PROVE PayloadsBounded'
  BY <1>1, <1>2, <1>5 DEF WriteByte, EndPayload
<1>6. CASE EndStream \/ CloseCall BY <1>1, <1>2, <1>6 DEF EndStream, CloseCall
<1>7. CASE DrainElements
  BY <1>1, <1>7 DEF DrainElements
<1>8. CASE NextElement
  BY <1>0, <1>1, <1>8 DEF NextElement, Current
<1>9. CASE Call \/ StreamEnds \/ SendPayload \/ AbortCall
  BY <1>1, <1>2, <1>9 DEF Call, StreamEnds, SendPayload, AbortCall
<1>10. CASE SendAnswered BY <1>0, <1>1, <1>2, <1>10 DEF SendAnswered
<1>11. CASE ConnStep
  BY <1>1, <1>2, <1>11 DEF ConnStep, Transmit, ConnectionEnds, Refuse, WriteFails
<1>12. CASE UNCHANGED streamVars BY <1>1, <1>2, <1>12 DEF streamVars
<1> QED
  BY <1>3, <1>4, <1>5, <1>6, <1>7, <1>8, <1>9, <1>10, <1>11, <1>12
     DEF StreamNext, CallStep, GuestStep, CollectStep

\* The next message joins those that were handed over.
LEMMA HandsOver ==
  ASSUME handed \in Seq(Elements), sent \in Nat, Len(handed) = sent, Current \in Elements,
         handed' = Append(handed, Current)
  PROVE  /\ Len(handed') = sent + 1 /\ handed'[sent + 1] = Current
         /\ \A i \in 1 .. Len(handed) : handed'[i] = handed[i]
OBVIOUS

\* Every step keeps the rest.
LEMMA StreamNextKept ==
  ASSUME StreamTypeOK, StreamTypeOK', PayloadsBounded, StreamKept, impl \in Impls,
         [StreamNext]_streamVars
  PROVE  StreamKept'
<1> USE ShapesAssumption, ImplsAssumption DEF guestSide, callSide, connSide
<1>0. elems \in Seq(Shapes) /\ Len(elems) \in Nat /\ sent \in Nat /\ taken \in Nat
      /\ DOMAIN elems = 1 .. Len(elems) /\ taken =< Len(elems)
      /\ payloads \in [Elements -> [kept : Nat, excess : Nat]]
      /\ written \in [Elements -> Nat] /\ ended \subseteq DOMAIN elems
      /\ handed \in Seq(Elements) /\ Len(handed) \in Nat
  BY DEF StreamTypeOK
<1> DEFINE Count == /\ Len(handed) \in {sent, sent + 1}
                    /\ cmd = "ok" => Len(handed) = sent + 1
                    /\ cmd \in {"none", "queued"} => Len(handed) = sent
                    /\ Len(handed) # sent => cmd = "ok" \/ connOver
           Counted == \A i \in 1 .. Len(handed) : handed[i] = i /\ Sound(i)
<1>19. Count /\ Counted BY DEF StreamKept
<1>22. cmd = "queued" => Sound(Current) BY DEF StreamKept
<1>20. \A k \in ended : written[k] = elems[k].actual BY DEF StreamKept
<1>21. \A k \in Elements : /\ Arrived(k) \in Nat /\ written[k] \in Nat
                            /\ Arrived(k) =< written[k]
  <2>1. \A k \in Elements : payloads[k] \in [kept : Nat, excess : Nat] /\ written[k] \in Nat
    BY <1>0
  <2>2. \A k \in Elements : Arrived(k) =< written[k] BY DEF StreamKept
  <2> QED BY <2>1, <2>2 DEF Arrived
<1>1. ASSUME UNCHANGED elems PROVE \A k \in Nat : Sound(k)' <=> Sound(k)
  BY <1>1 DEF Sound
<1>2. ASSUME UNCHANGED payloads PROVE \A k \in Elements : Arrived(k)' = Arrived(k)
  BY <1>2 DEF Arrived
<1>23. ASSUME UNCHANGED elems, Sound(Current), Len(handed) = sent, Len(handed') = sent + 1,
               handed'[sent + 1] = Current, \A i \in 1 .. Len(handed) : handed'[i] = handed[i]
       PROVE  Counted'
  <2> SUFFICES ASSUME NEW i \in 1 .. sent + 1 PROVE handed'[i] = i /\ Sound(i)'
    BY <1>23
  <2>1. CASE i = Current BY <1>0, <1>1, <1>23, <2>1 DEF Current
  <2>2. CASE i # Current BY <1>0, <1>1, <1>19, <1>23, <2>2 DEF Current
  <2> QED BY <2>1, <2>2
<1>3. ASSUME NEW shape \in Shapes, WriteElement(shape) PROVE StreamKept'
  <2>1. /\ Len(elems') = Len(elems) + 1
        /\ DOMAIN elems' = DOMAIN elems \cup {Len(elems) + 1}
        /\ \A k \in DOMAIN elems : elems'[k] = elems[k]
        /\ \A k \in Nat : Sound(k) => Sound(k)'
    BY <1>3, ElementsStay DEF WriteElement
  <2>2. UNCHANGED <<stage, result, cmd, connOver, handed, sent, impl, closeCalled,
                    payloads, written, ended, finished>> /\ ~finished
    BY <1>3 DEF WriteElement
  <2>3. Current \in Nat /\ Current' = Current BY <1>0, <2>2 DEF Current
  <2>4. \A k \in ended' : written'[k] = elems'[k].actual
    BY <1>0, <1>20, <2>1, <2>2
  <2>5. \A i \in 1 .. Len(handed') : handed'[i] = i /\ Sound(i)'
    <3>1. handed' = handed /\ \A i \in 1 .. Len(handed) : i \in Nat BY <1>0, <2>2
    <3> QED BY <1>19, <2>1, <3>1
  <2>6. cmd' = "queued" => Sound(Current)' BY <2>1, <2>2, <2>3 DEF StreamKept, Sound
  <2> QED
    BY <1>2, <2>1, <2>2, <2>4, <2>5, <2>6 DEF StreamKept, Host
<1>4. ASSUME NEW k \in Elements, WriteByte(k) PROVE StreamKept'
  <2> USE <1>4 DEF WriteByte
  <2>1. \A j \in Elements : Arrived(j)' =< written'[j]
    <3>1. \A j \in Elements : written'[j] \in {written[j], written[j] + 1} BY <1>0
    <3> QED BY <1>2, <1>21, <3>1
  <2>2. \A j \in ended' : written'[j] = elems'[j].actual
    <3>1. k \notin ended /\ ended' = ended /\ elems' = elems OBVIOUS
    <3>2. \A j \in ended : written'[j] = written[j] BY <1>0, <3>1
    <3> QED BY <1>20, <3>1, <3>2
  <2> QED BY <1>0, <1>1, <2>1, <2>2 DEF StreamKept, Host, Sound, Current
<1>5. ASSUME NEW k \in Elements, EndPayload(k) PROVE StreamKept'
  <2>1. \A j \in ended' : written'[j] = elems'[j].actual
    BY <1>0, <1>5 DEF StreamKept, EndPayload
  <2> QED BY <1>0, <1>1, <1>2, <1>5, <2>1 DEF EndPayload, StreamKept, Host, Sound, Current
<1>6. CASE EndStream \/ CloseCall
  BY <1>0, <1>1, <1>2, <1>6 DEF EndStream, CloseCall, StreamKept, Host, Sound, Current
<1>7. CASE DrainElements
  BY <1>0, <1>1, <1>2, <1>7 DEF DrainElements, StreamKept, Host, Sound, Current
<1>8. ASSUME NEW k \in Elements, Collect(k) PROVE StreamKept'
  <2>1. k \in DOMAIN elems BY <1>0, <1>8 DEF Collect, Elements
  <2>2. Collected(k).kept + Collected(k).excess = written[k]
    BY <2>1, Collecting DEF StreamKept
  <2>3. \A j \in Elements : Arrived(j)' =< written'[j]
    <3>1. payloads' = [payloads EXCEPT ![k] = Collected(k)] /\ UNCHANGED written
      BY <1>8 DEF Collect
    <3>2. Arrived(k)' = written[k] BY <1>0, <2>2, <3>1 DEF Arrived
    <3>3. \A j \in Elements : j # k => Arrived(j)' = Arrived(j) BY <1>0, <3>1 DEF Arrived
    <3> QED BY <1>21, <3>1, <3>2, <3>3
  <2>4. \A j \in Elements : j \notin DOMAIN elems' => payloads'[j] = NoBytes
    BY <1>0, <1>8, <2>1 DEF Collect, StreamKept
  <2> QED BY <1>0, <1>1, <1>8, <2>3, <2>4 DEF Collect, StreamKept, Host, Sound, Current
<1>9. CASE Call
  BY <1>0, <1>1, <1>2, <1>9 DEF Call, Return, StreamKept, Host, Sound, Current
<1>10. CASE NextElement
  BY <1>0, <1>1, <1>2, <1>10 DEF NextElement, StreamKept, Host, Sound, Current
<1>11. CASE StreamEnds
  <2>1. cmd = "none" /\ finished /\ sent = Len(elems)
    BY <1>11 DEF StreamEnds, StreamKept, Proceeds, AtEnd
  <2> QED
    BY <1>0, <1>1, <1>2, <1>11, <2>1
       DEF StreamEnds, Return, StreamKept, Host, Sound, Current
<1>12. CASE SendPayload
  <2>1. Sendable(Current) => Sound(Current)
    <3>1. Current \in ended /\ Arrived(Current) = written[Current]
      BY <1>12 DEF SendPayload, Proceeds, Complete
    <3>2. Current \in Elements /\ Current \in DOMAIN elems
      BY <1>0, <3>1, ElementTypes
    <3>3. written[Current] = elems[Current].actual BY <3>1 DEF StreamKept
    <3> QED BY <1>0, <3>1, <3>2, <3>3 DEF Sendable, Sound, Arrived
  <2>2. cmd = "none" BY <1>12 DEF SendPayload, StreamKept
  <2> QED
    BY <1>0, <1>1, <1>2, <1>12, <2>1, <2>2
       DEF SendPayload, Return, StreamKept, Host, Sound, Current
<1>13. CASE SendAnswered
  <2>1. Count' /\ Counted'
    <3>1. CASE cmd = "ok" BY <1>0, <1>1, <1>13, <1>19, <3>1 DEF SendAnswered
    <3>2. CASE cmd # "ok" BY <1>0, <1>1, <1>13, <1>19, <3>2 DEF SendAnswered
    <3> QED BY <3>1, <3>2
  <2>2. cmd' # "queued" /\ (cmd' # "none" /\ stage' = "done" => cmd' = result' /\ cmd' \in Errors)
        /\ (stage' = "done" <=> result' # "none") /\ stage' # "send"
        /\ (stage' \in {"idle", "next", "payload"} => cmd' = "none")
        /\ result' # "ok"
    <3>1. cmd \in {"none", "ok"} \cup Errors /\ cmd # "queued" /\ stage = "send"
      BY <1>13 DEF SendAnswered, StreamTypeOK
    <3>2. result = "none" /\ cmd # "none" BY <3>1 DEF StreamKept
    <3> QED BY <1>13, <3>1, <3>2 DEF SendAnswered, Return, Errors
  <2>3. UNCHANGED <<elems, written, ended, payloads>> BY <1>13 DEF SendAnswered
  <2> QED BY <1>2, <1>20, <2>1, <2>2, <2>3 DEF StreamKept
<1>14. CASE AbortCall
  <2>1. cmd # "none" => stage = "send" /\ Host /\ closeCalled
    BY <1>14 DEF AbortCall, StreamKept, Aborts
  <2> QED
    BY <1>0, <1>1, <1>2, <1>14, <2>1
       DEF AbortCall, Return, Aborts, StreamKept, Host, Sound, Current
<1>15. CASE Transmit
  <2>1. cmd = "queued" /\ handed' = Append(handed, Current) /\ cmd' = "ok"
        /\ UNCHANGED <<guestSide, callSide, connOver, impl>>
    BY <1>15 DEF Transmit
  <2>2. Sound(Current) /\ Len(handed) = sent BY <1>0, <1>19, <1>22, <2>1
  <2>3. Current \in Elements /\ Current = Len(handed) + 1
    BY <2>2, ElementTypes DEF Sound, Current
  <2>4. /\ Len(handed') = sent + 1 /\ handed'[sent + 1] = Current
        /\ \A i \in 1 .. Len(handed) : handed'[i] = handed[i]
    BY <1>0, <2>1, <2>2, <2>3, HandsOver
  <2>5. Count' BY <1>0, <2>1, <2>2, <2>4
  <2>6. Counted' BY <1>0, <2>1, <2>2, <2>4, <1>23
  <2>7. stage' = "done" => Host' /\ closeCalled' /\ result' = "closed"
    BY <2>1 DEF StreamKept, Host, Errors
  <2> QED BY <1>2, <1>20, <2>1, <2>5, <2>6, <2>7 DEF StreamKept
<1>16. CASE Refuse
  BY <1>0, <1>1, <1>2, <1>16 DEF Refuse, Errors, StreamKept, Host, Sound, Current
<1>24. ASSUME NEW err \in Errors, WriteFails(err) PROVE StreamKept'
  <2>1. cmd = "queued" /\ cmd' = err /\ connOver' /\ handed' \in {handed, Append(handed, Current)}
        /\ UNCHANGED <<guestSide, callSide, impl>>
    BY <1>24 DEF WriteFails
  <2>2. Sound(Current) /\ Len(handed) = sent BY <1>0, <1>19, <1>22, <2>1
  <2>3. err \in Errors /\ err \notin {"none", "queued", "ok"} BY DEF Errors
  <2>4. CASE handed' = handed
    <3>1. Count' BY <1>0, <2>1, <2>2, <2>3, <2>4
    <3>2. Counted' BY <1>0, <1>1, <1>19, <2>1, <2>4
    <3>3. stage' = "done" => Host' /\ closeCalled' /\ result' = "closed"
      BY <2>1 DEF StreamKept, Host, Errors
    <3> QED BY <1>2, <1>20, <2>1, <2>3, <3>1, <3>2, <3>3 DEF StreamKept
  <2>5. CASE handed' = Append(handed, Current)
    <3>0. Current \in Elements BY <2>2, ElementTypes DEF Sound
    <3>1. /\ Len(handed') = sent + 1 /\ handed'[sent + 1] = Current
          /\ \A i \in 1 .. Len(handed) : handed'[i] = handed[i]
      BY <1>0, <2>2, <2>5, <3>0, HandsOver
    <3>2. Count' BY <1>0, <2>1, <2>2, <2>3, <3>1
    <3>3. Counted' BY <1>0, <2>1, <2>2, <3>1, <1>23
    <3>4. stage' = "done" => Host' /\ closeCalled' /\ result' = "closed"
      BY <2>1 DEF StreamKept, Host, Errors
    <3> QED BY <1>2, <1>20, <2>1, <2>3, <3>2, <3>3, <3>4 DEF StreamKept
  <2> QED BY <2>1, <2>4, <2>5
<1>17. CASE ConnectionEnds
  BY <1>0, <1>1, <1>2, <1>17 DEF ConnectionEnds, StreamKept, Host, Sound, Current
<1>18. CASE UNCHANGED streamVars
  BY <1>0, <1>1, <1>2, <1>18 DEF streamVars, StreamKept, Host, Sound, Current
<1> QED
  BY <1>3, <1>4, <1>5, <1>6, <1>7, <1>8, <1>9, <1>10, <1>11, <1>12, <1>13, <1>14, <1>15,
     <1>16, <1>17, <1>18, <1>24 DEF StreamNext, CallStep, GuestStep, CollectStep, ConnStep
-----------------------------------------------------------------------------
LEMMA SequenceIsFunction ==
  ASSUME NEW S, NEW q \in Seq(S)
  PROVE  q = [k \in DOMAIN q |-> q[k]]
OBVIOUS

\* What the call has handed over, counted and answered is true.
LEMMA KeptSentIsHonest ==
  ASSUME StreamTypeOK, StreamKept
  PROVE  SentIsHonest
<1>1. handed \in Seq(Elements) /\ Len(handed) \in Nat /\ sent \in Nat
      /\ DOMAIN handed = 1 .. Len(handed)
      /\ cmd \in {"none", "queued", "ok"} \cup Errors
  BY DEF StreamTypeOK
<1>2. \A i \in 1 .. Len(handed) : handed[i] = i /\ Sound(i) BY DEF StreamKept
<1>3. handed = [i \in 1 .. Len(handed) |-> i]
  <2>1. handed = [i \in DOMAIN handed |-> handed[i]] BY <1>1, SequenceIsFunction
  <2> QED BY <1>1, <1>2, <2>1
<1>4. Len(handed) \in {sent, sent + 1} BY DEF StreamKept
<1>5. result # "none" /\ Len(handed) # sent =>
        \/ result \in Errors /\ cmd = result /\ connOver
        \/ result = "closed" /\ closeCalled /\ Host
  <2>1. Len(handed) # sent => cmd # "none" /\ (cmd = "ok" \/ connOver) BY DEF StreamKept
  <2>2. cmd = "ok" => cmd \notin Errors BY DEF Errors
  <2> QED BY <2>1, <2>2 DEF StreamKept
<1>6. \A i \in DOMAIN handed : elems[i].fits /\ elems[i].actual = elems[i].declared
  BY <1>1, <1>2 DEF Sound
<1>7. result = "ok" => sent = Len(elems) /\ Len(handed) = sent
  <2>1. result = "ok" => stage = "done" /\ result \notin Errors /\ result # "closed"
    BY DEF StreamKept, Errors
  <2> QED BY <1>5, <2>1 DEF StreamKept
<1> QED BY <1>3, <1>4, <1>5, <1>6, <1>7 DEF SentIsHonest

Inv == /\ impl \in Impls
       /\ ConnectTypeOK /\ ConnectKept /\ ConnectHonest
       /\ StreamTypeOK /\ PayloadsBounded /\ StreamKept

\* A step is one of connect or one of the call, and the other stays.
LEMMA SessionInductive == SessionSpec => []Inv
<1>1. SessionInit => Inv
  BY ConnectInitKept, StreamInitKept DEF SessionInit, Inv
<1>2. ASSUME Inv, [SessionNext]_sessionVars PROVE Inv'
  <2>1. [ConnectNext]_connectVars /\ [StreamNext]_streamVars
    BY <1>2 DEF SessionNext, sessionVars
  <2>2. impl' = impl
    <3>1. CASE UNCHANGED streamVars BY <3>1 DEF streamVars
    <3>2. CASE UNCHANGED connectVars BY <3>2 DEF connectVars
    <3> QED BY <1>2, <3>1, <3>2 DEF SessionNext, sessionVars
  <2>3. ConnectTypeOK' BY <1>2, <2>1, ConnectNextTyped DEF Inv
  <2>4. ConnectKept' BY <1>2, <2>1, <2>3, ConnectNextKept DEF Inv
  <2>5. ConnectHonest' BY <1>2, <2>1, ConnectNextHonest DEF Inv
  <2>6. StreamTypeOK' BY <1>2, <2>1, StreamNextTyped DEF Inv
  <2>7. PayloadsBounded' BY <1>2, <2>1, StreamNextBounded DEF Inv
  <2>8. StreamKept' BY <1>2, <2>1, <2>6, StreamNextKept DEF Inv
  <2> QED BY <1>2, <2>2, <2>3, <2>4, <2>5, <2>6, <2>7, <2>8 DEF Inv
<1> QED BY <1>1, <1>2, PTL DEF SessionSpec

\* The types of both calls' state; no more is kept of a payload than was
\* declared (ByteCollector, collect_payload, read_one).
THEOREM SessionTypesCorrect == SessionSpec => []TypeOK
<1>1. Inv => TypeOK BY DEF Inv, TypeOK
<1> QED BY <1>1, SessionInductive, PTL

\* Nobody gets a connection whose arguments, server or time were wrong, and
\* wrong arguments and missing trust anchors never touch the network (connect
\* of either implementation).
THEOREM ConnectIsHonest == SessionSpec => []ConnectHonest
<1>1. Inv => ConnectHonest BY DEF Inv
<1> QED BY <1>1, SessionInductive, PTL

\* The messages of a stream go out in order and whole, and the count is exact but
\* for the last write, when it failed, or when the host abandoned it at a local close
\* (send_via_stream of either implementation, bounded_write, flush_outbound).
THEOREM SentCountIsHonest == SessionSpec => []SentIsHonest
<1>1. Inv => SentIsHonest BY KeptSentIsHonest DEF Inv
<1> QED BY <1>1, SessionInductive, PTL
-----------------------------------------------------------------------------
(***************************************************************************)
(* What the liveness properties rest on.                                   *)
(***************************************************************************)

\* What was read from the stream: by the host's consumer as much as there is, by
\* the provider what it has sent and the element it is at.
TakenKept ==
  /\ stage = "payload" => Current =< taken
  /\ Provider => taken = IF stage \in {"payload", "send"} THEN Current
                         ELSE IF stage = "done" THEN taken ELSE sent

\* A failed connect has let go of everything but the task of the provider's pipe.
LetGo == step = "done" /\ ~Connected => open \subseteq {"pipe"}

LEMMA LetGoNext == ConnectTypeOK /\ ConnectKept /\ LetGo /\ [ConnectNext]_connectVars => LetGo'
<1> SUFFICES ASSUME ConnectTypeOK, ConnectKept, LetGo, [ConnectNext]_connectVars PROVE LetGo'
  OBVIOUS
<1> USE DEF LetGo, Connected
<1>1. ASSUME Fails PROVE LetGo' BY <1>1 DEF Fails, Ends
<1>2. CASE Arguments BY <1>2 DEF Arguments, Ends
<1>3. CASE Roots BY <1>1, <1>3 DEF Roots
<1>4. CASE Agree BY <1>1, <1>4 DEF Agree, Ends
<1>5. CASE PipeEnds BY <1>5 DEF PipeEnds, ConnectKept
<1>6. CASE Resolve BY <1>1, <1>6 DEF Resolve
<1>7. CASE TcpConnects BY <1>7 DEF TcpConnects
<1>8. CASE TcpFails BY <1>1, <1>8 DEF TcpFails
<1>9. CASE Passes BY <1>9 DEF Passes
<1>10. CASE Breaks \/ TimesOut BY <1>1, <1>10 DEF Breaks, TimesOut
<1>11. ASSUME NEW selection \in Selections, Reply(selection) PROVE LetGo'
  BY <1>11 DEF Reply
<1>12. CASE UNCHANGED connectVars BY <1>12 DEF connectVars
<1> QED
  BY <1>2, <1>3, <1>4, <1>5, <1>6, <1>7, <1>8, <1>9, <1>10, <1>11, <1>12
     DEF ConnectNext, OwnStep, RemoteStep

LEMMA TakenNext ==
  StreamTypeOK /\ StreamKept /\ impl \in Impls /\ TakenKept /\ [StreamNext]_streamVars => TakenKept'
<1> SUFFICES ASSUME StreamTypeOK, StreamKept, impl \in Impls, TakenKept, [StreamNext]_streamVars
             PROVE  TakenKept'
  OBVIOUS
<1> USE ImplsAssumption DEF guestSide, callSide, connSide, Provider, Host, TakenKept, Current
<1>0. Len(elems) \in Nat /\ sent \in Nat /\ taken \in Nat /\ taken =< Len(elems)
  BY DEF StreamTypeOK
<1>1. ASSUME UNCHANGED <<taken, stage, sent, impl>> PROVE TakenKept' BY <1>1
<1>2. CASE GuestStep
  BY <1>1, <1>2 DEF GuestStep, WriteElement, WriteByte, EndPayload, EndStream, CloseCall
<1>3. CASE ConnStep
  BY <1>1, <1>3 DEF ConnStep, Transmit, ConnectionEnds, Refuse, WriteFails
<1>4. CASE DrainElements BY <1>0, <1>4 DEF DrainElements
<1>5. ASSUME NEW k \in Elements, Collect(k) PROVE TakenKept' BY <1>1, <1>5 DEF Collect
<1>6. CASE Call BY <1>0, <1>6 DEF Call, Return
<1>7. CASE NextElement BY <1>0, <1>7 DEF NextElement, Proceeds, HasNext
<1>8. CASE StreamEnds \/ AbortCall BY <1>0, <1>8 DEF StreamEnds, AbortCall, Return
<1>9. CASE SendPayload BY <1>0, <1>9 DEF SendPayload, Return
<1>10. CASE SendAnswered BY <1>0, <1>10 DEF SendAnswered, Return
<1>11. CASE UNCHANGED streamVars BY <1>1, <1>11 DEF streamVars
<1> QED
  BY <1>2, <1>3, <1>4, <1>5, <1>6, <1>7, <1>8, <1>9, <1>10, <1>11
     DEF StreamNext, CallStep, CollectStep

\* A failed connect has only the pipe's task to wait for, and send-via-stream only
\* what is under way (establish, pipe, collect_payload, read_one).
THEOREM CallsCanAlwaysEnd == SessionSpec => []CallsCanEnd
<1>1. SessionInit => LetGo /\ TakenKept
  BY DEF SessionInit, ConnectInit, StreamInit, LetGo, TakenKept
<1>2. Inv /\ LetGo /\ TakenKept /\ [SessionNext]_sessionVars => LetGo' /\ TakenKept'
  <2>1. [SessionNext]_sessionVars => [ConnectNext]_connectVars /\ [StreamNext]_streamVars
    BY DEF SessionNext, sessionVars
  <2> QED BY <2>1, LetGoNext, TakenNext DEF Inv
<1>3. Inv /\ LetGo /\ TakenKept => CallsCanEnd
  <2> SUFFICES ASSUME Inv, LetGo, TakenKept PROVE CallsCanEnd
    OBVIOUS
  <2>1. \A k \in DOMAIN elems : Arrived(k) =< written[k]
    BY ElementTypes DEF Inv, StreamKept
  <2>2. stage = "send" => cmd # "none" BY DEF Inv, StreamKept
  <2>3. stage = "next" /\ Provider => taken = sent BY DEF TakenKept
  <2> QED BY <2>1, <2>2, <2>3 DEF LetGo, TakenKept, CallsCanEnd
<1> QED BY <1>1, <1>2, <1>3, SessionInductive, PTL DEF SessionSpec
=============================================================================
