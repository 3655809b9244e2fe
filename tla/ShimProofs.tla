----------------------------- MODULE ShimProofs -----------------------------
(***************************************************************************)
(* What the browser's WebSocket class over the contract guarantees, for    *)
(* any payloads, arguments of close, codes and bounds, and over any        *)
(* connection that the contract allows.                                    *)
(***************************************************************************)
EXTENDS ComponentizeShim, FiniteSetTheorems, SequenceTheorems, TLAPS

\* The connection numbers its messages in order and keeps its outcome; it does
\* nothing before the class has it.
ConnKept ==
  /\ phase \in {"open", "closing", "closed"} /\ {local, ended} \subseteq BOOLEAN
  /\ inbox \in Seq(Nat) /\ got \in Seq(Nat) /\ Len(got) + Len(inbox) =< MaxMsgs
  /\ \A k \in DOMAIN got : got[k] = k
  /\ \A k \in DOMAIN inbox : inbox[k] = Len(got) + k
  /\ info \in Infos \cup {Unset}
  /\ ended \/ phase = "closed" => info # Unset
  /\ conn # "connected" => info = Unset
  /\ loop = "none" => got = <<>>

\* The fields.
FieldsTyped ==
  /\ ready \in {"connecting", "open", "closing", "closed"}
  /\ {ws, closeDispatched} \subseteq BOOLEAN /\ pendingClose \in CloseCalls \cup {NoClose}
  /\ conn \in {"connecting", "connected", "failed"}
  /\ loop \in {"none", "turn", "pending", "handed", "done"}
  /\ settle \in {"none", "waiting", "answered", "done"}

\* How far the class has come with its connection: until it has one it connects
\* or a close waits; the receive loop runs unless one did; the settlement is the
\* only end of a class that has one.
FieldsKept ==
  /\ ws => conn = "connected"
  /\ ~ws => loop = "none" /\ settle = "none" /\ ready # "open"
  /\ ~ws /\ conn # "failed" => ~closeDispatched /\ (ready = "closing" <=> pendingClose # NoClose)
  /\ ready = "connecting" => ~ws /\ pendingClose = NoClose
  /\ ws => (loop = "none" <=> pendingClose # NoClose)
  /\ ready = "open" => loop # "none"
  /\ closeDispatched <=> ready = "closed"
  /\ ws /\ closeDispatched => settle = "done"
  /\ settle \in {"answered", "done"} => phase = "closed"
  /\ loop = "handed" => got # <<>>

\* What was dispatched, before the close as well.
EventsKept ==
  /\ events \in Seq(Events)
  /\ loop = "none" /\ ~closeDispatched => events = <<>>
  /\ loop # "none" => events # <<>>
  /\ ~closeDispatched => \A k \in DOMAIN events : events[k].type # "error"
  /\ EventsHonest

Entries == [id : 1 .. MaxSends, size : Nat, blob : BOOLEAN, at : Places]

\* How many sends have been passed on, or could not be read.
Begun == accepted - Len(queue)
           + (IF queue # <<>> /\ queue[1].at \notin {"waiting", "reading"} THEN 1 ELSE 0)

\* Of the sends up to there each is one or the other.
PassedKept ==
  /\ passed \in Seq(Nat)
  /\ \A k \in DOMAIN passed : passed[k] \in 1 .. Begun
  /\ \A j, k \in DOMAIN passed : j < k => passed[j] < passed[k]
  /\ unread \subseteq 1 .. Begun
  /\ \A i \in 1 .. Begun : i \in unread <=> \A k \in DOMAIN passed : passed[k] # i

\* The chain holds the last sends; only the first of them has begun.
ChainKept ==
  /\ queue \in Seq(Entries) /\ accepted \in 0 .. MaxSends
  /\ \A k \in DOMAIN queue : queue[k].id = accepted - Len(queue) + k
  /\ \A k \in DOMAIN queue : k # 1 => queue[k].at = "waiting"
  /\ PassedKept

\* t[k] is the bytes of the first k sends of q.
Sums(t, q) == t = [k \in 0 .. Len(q) |-> IF k = 0 THEN 0 ELSE t[k - 1] + q[k].size]

BytesKept ==
  /\ discarded \in 0 .. MaxDiscarded
  /\ \E t \in [0 .. Len(queue) -> Int] :
       Sums(t, queue) /\ buffered = t[Len(queue)] + discarded

Kept == ConnKept /\ FieldsTyped /\ FieldsKept /\ EventsKept /\ ChainKept /\ BytesKept
-----------------------------------------------------------------------------
(***************************************************************************)
(* Sums over a sequence.                                                   *)
(***************************************************************************)

\* A set of numbers has a least one.
LEMMA Least ==
  ASSUME NEW T \in SUBSET Nat, T # {}
  PROVE  \E x \in T : \A y \in T : x =< y
<1> DEFINE Less == {ss \in Nat \X Nat : ss[1] < ss[2]}
<1>1. IsWellFoundedOn(Less, Nat)
  BY NatLessThanWellFounded DEF OpToRel
<1>2. PICK x \in T : \A y \in T : <<y, x>> \notin Less
  <2> HIDE DEF Less
  <2> QED BY <1>1, WFMin
<1>3. \A y \in T : ~(y < x) BY <1>2
<1> QED BY <1>3

\* The sums of a sequence are its only ones.
LEMMA SumsUnique ==
  ASSUME NEW q \in Seq(Entries),
         NEW t \in [0 .. Len(q) -> Int], Sums(t, q),
         NEW u, Sums(u, q)
  PROVE  u[Len(q)] = t[Len(q)]
<1> DEFINE T == {k \in 0 .. Len(q) : u[k] # t[k]}
<1>1. CASE T = {}
  <2>1. Len(q) \in 0 .. Len(q) BY LenProperties
  <2> QED BY <1>1, <2>1
<1>2. CASE T # {}
  <2>1. T \in SUBSET Nat OBVIOUS
  <2>2. PICK k \in T : \A y \in T : k =< y
    <3> HIDE DEF T
    <3> QED BY <1>2, <2>1, Least
  <2>3. CASE k = 0
    <3>1. u[0] = 0 /\ t[0] = 0 BY LenProperties DEF Sums
    <3> QED BY <2>3, <3>1
  <2>4. CASE k # 0
    <3>1. k - 1 \in 0 .. Len(q) /\ k \in 0 .. Len(q) BY <2>4
    <3>2. k - 1 \notin T BY <2>2, <3>1
    <3>3. u[k - 1] = t[k - 1] BY <3>1, <3>2
    <3>4. u[k] = u[k - 1] + q[k].size BY <2>4, <3>1 DEF Sums
    <3>5. t[k] = t[k - 1] + q[k].size BY <2>4, <3>1 DEF Sums
    <3> QED BY <3>3, <3>4, <3>5
  <2> QED BY <2>3, <2>4
<1> QED BY <1>1, <1>2

\* One more send: its size is added.
LEMMA SumsAppend ==
  ASSUME NEW q \in Seq(Entries),
         NEW e \in Entries,
         NEW t \in [0 .. Len(q) -> Int], Sums(t, q)
  PROVE  \E u \in [0 .. Len(Append(q, e)) -> Int] :
            Sums(u, Append(q, e)) /\ u[Len(Append(q, e))] = t[Len(q)] + e.size
<1> DEFINE r == Append(q, e)
           u == [k \in 0 .. Len(r) |-> IF k =< Len(q) THEN t[k] ELSE t[Len(q)] + e.size]
<1>1. /\ Len(q) \in Nat /\ Len(r) = Len(q) + 1 /\ r[Len(r)] = e
      /\ \A k \in 1 .. Len(q) : r[k] = q[k]
  BY AppendProperties, LenProperties
<1>2. u \in [0 .. Len(r) -> Int]
  <2>1. e.size \in Nat BY DEF Entries
  <2>2. t[Len(q)] \in Int BY <1>1
  <2>3. ASSUME NEW k \in 0 .. Len(r), k =< Len(q) PROVE t[k] \in Int BY <1>1, <2>3
  <2> QED BY <2>1, <2>2, <2>3
<1>3. \A k \in 0 .. Len(r) : u[k] = IF k = 0 THEN 0 ELSE u[k - 1] + r[k].size
  <2> TAKE k \in 0 .. Len(r)
  <2>1. CASE k = 0 BY <1>1, <2>1 DEF Sums
  <2>2. CASE k \in 1 .. Len(q)
    <3>1. u[k] = t[k] /\ u[k - 1] = t[k - 1] /\ r[k] = q[k] BY <1>1, <2>2
    <3>2. k \in 0 .. Len(q) /\ k # 0 BY <1>1, <2>2
    <3>3. t[k] = t[k - 1] + q[k].size BY <3>2 DEF Sums
    <3> QED BY <2>2, <3>1, <3>3
  <2>3. CASE k = Len(r) BY <1>1, <2>3
  <2> QED BY <1>1, <2>1, <2>2, <2>3
<1>4. Sums(u, r) BY <1>3 DEF Sums
<1>5. u[Len(r)] = t[Len(q)] + e.size BY <1>1
<1> QED BY <1>2, <1>4, <1>5

\* The first send is gone: its size is taken off.
LEMMA SumsTail ==
  ASSUME NEW q \in Seq(Entries),
         q # <<>>, NEW t \in [0 .. Len(q) -> Int], Sums(t, q)
  PROVE  \E u \in [0 .. Len(Tail(q)) -> Int] :
            Sums(u, Tail(q)) /\ u[Len(Tail(q))] = t[Len(q)] - q[1].size
<1> DEFINE r == Tail(q)
           u == [k \in 0 .. Len(r) |-> t[k + 1] - q[1].size]
<1>1. /\ Len(q) \in Nat \ {0} /\ Len(r) = Len(q) - 1
      /\ \A k \in 1 .. Len(r) : r[k] = q[k + 1]
      /\ \A k \in 1 .. Len(q) : q[k].size \in Nat
  <2>1. Len(q) \in Nat /\ Len(q) # 0 BY LenProperties, EmptySeq
  <2>2. Len(r) = Len(q) - 1 /\ \A k \in 1 .. Len(r) : r[k] = q[k + 1]
    BY HeadTailProperties
  <2>3. ASSUME NEW k \in 1 .. Len(q) PROVE q[k].size \in Nat
    BY <2>3, ElementOfSeq DEF Entries
  <2> QED BY <2>1, <2>2, <2>3
<1>2. u \in [0 .. Len(r) -> Int] BY <1>1
<1>3. \A k \in 0 .. Len(r) : u[k] = IF k = 0 THEN 0 ELSE u[k - 1] + r[k].size
  <2>1. \A k \in 0 .. Len(r) : u[k] = t[k + 1] - q[1].size OBVIOUS
  <2> HIDE DEF u, r
  <2> TAKE k \in 0 .. Len(r)
  <2>2. k + 1 \in 1 .. Len(q) /\ k \in 0 .. Len(q) BY <1>1
  <2>3. t[k + 1] = t[k] + q[k + 1].size BY <2>2 DEF Sums
  <2>4. t[k] \in Int BY <2>2
  <2>5. q[1].size \in Nat BY <1>1
  <2>6. q[k + 1].size \in Nat BY <1>1, <2>2
  <2>7. u[k] = t[k + 1] - q[1].size BY <2>1
  <2>8. CASE k = 0
    <3>1. t[0] = 0 BY <1>1 DEF Sums
    <3>2. u[k] = 0 BY <2>3, <2>5, <2>7, <2>8, <3>1
    <3> QED BY <2>8, <3>2
  <2>9. CASE k # 0
    <3>1. u[k - 1] = t[k] - q[1].size BY <2>1, <2>9, <1>1
    <3>2. r[k].size = q[k + 1].size BY <1>1, <2>9
    <3>3. t[k + 1] - q[1].size = (t[k] - q[1].size) + q[k + 1].size
      BY <2>3, <2>4, <2>5, <2>6
    <3> QED BY <2>7, <2>9, <3>1, <3>2, <3>3
  <2> QED BY <2>8, <2>9
<1>4. Sums(u, r) BY <1>3 DEF Sums
<1>5. u[Len(r)] = t[Len(q)] - q[1].size BY <1>1
<1> QED BY <1>2, <1>4, <1>5
-----------------------------------------------------------------------------
(***************************************************************************)
(* The chain and the bytes on it.                                          *)
(***************************************************************************)

\* A send gets on: the chain keeps its length and its sizes.
LEMMA Moves ==
  ASSUME NEW k \in DOMAIN queue, NEW where \in Places, queue \in Seq(Entries), Move(k, where)
  PROVE  /\ queue' \in Seq(Entries) /\ Len(queue') = Len(queue)
         /\ DOMAIN queue' = DOMAIN queue
         /\ \A j \in DOMAIN queue :
              /\ queue'[j].id = queue[j].id /\ queue'[j].size = queue[j].size
              /\ queue'[j].blob = queue[j].blob
              /\ queue'[j].at = IF j = k THEN where ELSE queue[j].at
<1> DEFINE e == [queue[k] EXCEPT !.at = where]
<1>1. k \in 1 .. Len(queue) /\ DOMAIN queue = 1 .. Len(queue) BY LenProperties
<1>2. queue[k] \in Entries BY <1>1, ElementOfSeq
<1>3. e \in Entries /\ e.id = queue[k].id /\ e.size = queue[k].size
      /\ e.blob = queue[k].blob /\ e.at = where
  BY <1>2 DEF Entries
<1>4. queue' = [queue EXCEPT ![k] = e] BY DEF Move
<1> HIDE DEF e
<1>5. queue' \in Seq(Entries) /\ Len(queue') = Len(queue)
      /\ \A j \in 1 .. Len(queue) : queue'[j] = IF j = k THEN e ELSE queue[j]
  BY <1>1, <1>3, <1>4, ExceptSeq
<1>6. DOMAIN queue' = DOMAIN queue BY <1>1, <1>4
<1> QED BY <1>1, <1>3, <1>5, <1>6

\* The sums depend on the sizes only.
LEMMA BytesMoved ==
  ASSUME BytesKept, UNCHANGED <<buffered, discarded>>,
         Len(queue') = Len(queue), Len(queue) \in Nat,
         \A j \in 1 .. Len(queue) : queue'[j].size = queue[j].size
  PROVE  BytesKept'
<1>1. PICK t \in [0 .. Len(queue) -> Int] :
             Sums(t, queue) /\ buffered = t[Len(queue)] + discarded
  BY DEF BytesKept
<1>2. \A k \in 0 .. Len(queue) : t[k] = IF k = 0 THEN 0 ELSE t[k - 1] + queue[k].size
  BY <1>1 DEF Sums
<1>3. \A k \in 0 .. Len(queue) : t[k] = IF k = 0 THEN 0 ELSE t[k - 1] + queue'[k].size
  BY <1>2
<1>4. t = [k \in 0 .. Len(queue') |-> IF k = 0 THEN 0 ELSE t[k - 1] + queue'[k].size]
  BY <1>3
<1> QED BY <1>1, <1>4 DEF BytesKept, Sums

\* A send leaves the chain from its front.
LEMMA FirstEnds ==
  ASSUME queue \in Seq(Entries), queue # <<>>
  PROVE  RemoveAt(queue, 1) = Tail(queue)
<1>1. Len(queue) \in Nat \ {0} BY EmptySeq
<1> QED BY <1>1, SubSeqProperties DEF RemoveAt

\* What the actions of the chain leave as it was.
LEMMA ChainIdle ==
  ASSUME ChainKept, BytesKept, UNCHANGED <<sendVars, buffered, discarded>>
  PROVE  ChainKept' /\ BytesKept'
<1>1. UNCHANGED <<queue, accepted, passed, unread>> BY DEF sendVars
<1>2. Begun' = Begun BY <1>1 DEF Begun
<1>3. PassedKept' BY <1>1, <1>2 DEF ChainKept, PassedKept
<1>4. ChainKept' BY <1>1, <1>3 DEF ChainKept
<1>5. BytesKept' BY <1>1 DEF BytesKept
<1> QED BY <1>4, <1>5

\* No send begins, or one more does.
LEMMA PassedIdle ==
  ASSUME PassedKept, UNCHANGED <<passed, unread>>, Begun' = Begun
  PROVE  PassedKept'
BY DEF PassedKept

LEMMA PassedMore ==
  ASSUME PassedKept, Begun \in Nat, Begun' = Begun + 1,
         passed' = Append(passed, Begun + 1), unread' = unread
  PROVE  PassedKept'
<1>1. /\ passed \in Seq(Nat) /\ Len(passed) \in Nat /\ DOMAIN passed = 1 .. Len(passed)
  BY LenProperties DEF PassedKept
<1>2. /\ passed' \in Seq(Nat) /\ Len(passed') = Len(passed) + 1
      /\ DOMAIN passed' = 1 .. Len(passed) + 1
      /\ \A k \in DOMAIN passed : passed'[k] = passed[k]
      /\ passed'[Len(passed) + 1] = Begun + 1
  BY <1>1, AppendProperties, LenProperties
<1>3. \A k \in DOMAIN passed : passed[k] \in 1 .. Begun BY DEF PassedKept
<1>4. \A k \in DOMAIN passed' : passed'[k] \in 1 .. Begun' BY <1>1, <1>2, <1>3
<1>5. ASSUME NEW j \in DOMAIN passed', NEW k \in DOMAIN passed', j < k
      PROVE  passed'[j] < passed'[k]
  <2>1. j \in DOMAIN passed /\ passed'[j] = passed[j] BY <1>1, <1>2, <1>5
  <2>2. CASE k = Len(passed) + 1 BY <2>1, <2>2, <1>2, <1>3
  <2>3. CASE k # Len(passed) + 1
    <3>1. k \in DOMAIN passed /\ passed'[k] = passed[k] BY <2>3, <1>1, <1>2
    <3> QED BY <2>1, <3>1, <1>5 DEF PassedKept
  <2> QED BY <2>2, <2>3
<1>6. unread' \subseteq 1 .. Begun' BY DEF PassedKept
<1>7. ASSUME NEW i \in 1 .. Begun'
      PROVE  i \in unread' <=> \A k \in DOMAIN passed' : passed'[k] # i
  <2>1. CASE i = Begun + 1
    <3>1. i \notin unread BY <2>1 DEF PassedKept
    <3>2. Len(passed) + 1 \in DOMAIN passed' BY <1>1, <1>2
    <3> QED BY <2>1, <3>1, <3>2, <1>2
  <2>2. CASE i # Begun + 1
    <3>1. i \in 1 .. Begun BY <2>2
    <3>2. i \in unread <=> \A k \in DOMAIN passed : passed[k] # i BY <3>1 DEF PassedKept
    <3>3. (\A k \in DOMAIN passed' : passed'[k] # i) <=> \A k \in DOMAIN passed : passed[k] # i
      BY <1>1, <1>2, <2>2
    <3> QED BY <3>2, <3>3
  <2> QED BY <2>1, <2>2
<1> QED BY <1>2, <1>4, <1>5, <1>6, <1>7 DEF PassedKept

LEMMA UnreadMore ==
  ASSUME PassedKept, Begun \in Nat, Begun' = Begun + 1,
         passed' = passed, unread' = unread \cup {Begun + 1}
  PROVE  PassedKept'
<1>1. \A k \in DOMAIN passed : passed[k] \in 1 .. Begun BY DEF PassedKept
<1>2. unread' \subseteq 1 .. Begun' BY DEF PassedKept
<1>3. ASSUME NEW i \in 1 .. Begun'
      PROVE  i \in unread' <=> \A k \in DOMAIN passed' : passed'[k] # i
  <2>1. CASE i = Begun + 1 BY <1>1, <2>1
  <2>2. CASE i # Begun + 1
    <3>1. i \in 1 .. Begun BY <2>2
    <3> QED BY <2>2, <3>1 DEF PassedKept
  <2> QED BY <2>1, <2>2
<1> QED BY <1>1, <1>2, <1>3 DEF PassedKept

LEMMA ChainSend ==
  ASSUME ChainKept, BytesKept, NEW p \in Payloads, Send(p)
  PROVE  ChainKept' /\ BytesKept'
<1>1. p.size \in Nat /\ p.blob \in BOOLEAN BY ShimAssumption DEF ShimAssumption
<1>2. PICK t \in [0 .. Len(queue) -> Int] :
             Sums(t, queue) /\ buffered = t[Len(queue)] + discarded
  BY DEF BytesKept
<1>3. /\ queue \in Seq(Entries) /\ Len(queue) \in Nat /\ DOMAIN queue = 1 .. Len(queue)
      /\ accepted \in Nat /\ discarded \in Nat /\ t[Len(queue)] \in Int
  BY LenProperties DEF ChainKept, BytesKept
<1>4. CASE ready = "open"
  <2> DEFINE e == [id |-> accepted', size |-> p.size, blob |-> p.blob, at |-> "waiting"]
  <2>1. /\ accepted' = accepted + 1 /\ accepted < MaxSends /\ queue' = Append(queue, e)
        /\ UNCHANGED <<discarded, passed, unread>> /\ buffered' = buffered + p.size
    BY <1>4 DEF Send
  <2>2. e \in Entries
    BY <1>1, <1>3, <2>1, ShimAssumption DEF ShimAssumption, Entries, Places
  <2>3. e.id = accepted + 1 /\ e.at = "waiting" /\ e.size = p.size BY <2>1
  <2> HIDE DEF e
  <2>4. /\ queue' \in Seq(Entries) /\ Len(queue') = Len(queue) + 1
        /\ queue'[Len(queue')] = e /\ \A k \in 1 .. Len(queue) : queue'[k] = queue[k]
        /\ DOMAIN queue' = 1 .. Len(queue')
    BY <1>3, <2>1, <2>2, AppendProperties, LenProperties
  <2>5. ChainKept'
    <3>1. accepted' \in 0 .. MaxSends
      BY <1>3, <2>1, ShimAssumption DEF ShimAssumption
    <3>2. \A k \in DOMAIN queue' : queue'[k].id = accepted' - Len(queue') + k
      BY <1>3, <2>1, <2>3, <2>4 DEF ChainKept
    <3>3. ASSUME NEW k \in DOMAIN queue', k # 1 PROVE queue'[k].at = "waiting"
      <4>1. CASE k = Len(queue') BY <4>1, <2>3, <2>4
      <4>2. CASE k # Len(queue')
        <5>1. k \in DOMAIN queue /\ queue'[k] = queue[k] BY <4>2, <1>3, <2>4
        <5> QED BY <3>3, <5>1 DEF ChainKept
      <4> QED BY <4>1, <4>2
    <3>4. Begun' = Begun
      <4>1. CASE queue = <<>>
        <5>1. Len(queue) = 0 /\ queue'[1].at = "waiting" BY <4>1, <2>3, <2>4
        <5> QED BY <4>1, <5>1, <1>3, <2>1, <2>4 DEF Begun
      <4>2. CASE queue # <<>>
        <5>1. Len(queue) # 0 BY <4>2, <1>3, EmptySeq
        <5>2. queue'[1] = queue[1] /\ queue' # <<>> BY <5>1, <1>3, <2>4
        <5> QED BY <4>2, <5>2, <1>3, <2>1, <2>4 DEF Begun
      <4> QED BY <4>1, <4>2
    <3>5. PassedKept' BY <2>1, <3>4, PassedIdle DEF ChainKept
    <3> QED BY <2>4, <3>1, <3>2, <3>3, <3>5 DEF ChainKept
  <2>6. PICK u \in [0 .. Len(queue') -> Int] :
               Sums(u, queue') /\ u[Len(queue')] = t[Len(queue)] + e.size
    BY <1>2, <1>3, <2>1, <2>2, SumsAppend
  <2>7. buffered' = u[Len(queue')] + discarded'
    BY <1>1, <1>2, <1>3, <2>1, <2>3, <2>6
  <2> QED BY <2>1, <2>5, <2>6, <2>7 DEF BytesKept
<1>5. CASE ready # "open"
  <2>1. /\ discarded' = discarded + p.size /\ discarded' =< MaxDiscarded
        /\ UNCHANGED <<queue, accepted, passed, unread>> /\ buffered' = buffered + p.size
    BY <1>5 DEF Send
  <2>2. discarded' \in 0 .. MaxDiscarded
    BY <1>1, <1>3, <2>1, ShimAssumption DEF ShimAssumption
  <2>3. buffered' = t[Len(queue')] + discarded' BY <1>1, <1>2, <1>3, <2>1
  <2>4. ChainKept' BY <2>1 DEF ChainKept, PassedKept, Begun
  <2> QED BY <1>2, <2>1, <2>2, <2>3, <2>4 DEF BytesKept
<1> QED BY <1>4, <1>5

\* The first send gets on.
LEMMA ChainMoves ==
  ASSUME ChainKept, BytesKept, NEW k \in DOMAIN queue,
         BlobIsRead(k) \/ BlobFails(k) \/ Passes(k) \/ SendAnswered(k)
  PROVE  ChainKept' /\ BytesKept'
<1>1. /\ queue \in Seq(Entries) /\ Len(queue) \in Nat /\ DOMAIN queue = 1 .. Len(queue)
      /\ accepted \in Nat
  BY LenProperties DEF ChainKept
<1>2. /\ k = 1 /\ UNCHANGED <<accepted, buffered, discarded>>
      /\ \/ /\ queue[1].at = "waiting" /\ Move(1, "reading") /\ UNCHANGED <<passed, unread>>
         \/ /\ queue[1].at = "reading" /\ Move(1, "unread")
            /\ passed' = passed /\ unread' = unread \cup {queue[1].id}
         \/ /\ queue[1].at \in {"waiting", "reading"} /\ Move(1, "sending")
            /\ passed' = Append(passed, queue[1].id) /\ unread' = unread
         \/ /\ queue[1].at = "sending" /\ UNCHANGED <<passed, unread>>
            /\ Move(1, "sent") \/ Move(1, "refused")
  BY DEF ChainKept, BlobIsRead, BlobFails, Passes, SendAnswered, At, OnTurn, shimVars
<1>3. PICK where \in Places :
        /\ Move(1, where)
        /\ \/ /\ UNCHANGED <<passed, unread>>
              /\ where \in {"waiting", "reading"} <=> queue[1].at \in {"waiting", "reading"}
           \/ /\ queue[1].at \in {"waiting", "reading"} /\ where \notin {"waiting", "reading"}
              /\ \/ passed' = Append(passed, queue[1].id) /\ unread' = unread
                 \/ passed' = passed /\ unread' = unread \cup {queue[1].id}
  BY <1>2 DEF Places
<1>4. /\ queue' \in Seq(Entries) /\ Len(queue') = Len(queue)
      /\ DOMAIN queue' = DOMAIN queue
      /\ \A j \in DOMAIN queue :
           /\ queue'[j].id = queue[j].id /\ queue'[j].size = queue[j].size
           /\ queue'[j].at = IF j = 1 THEN where ELSE queue[j].at
  BY <1>1, <1>2, <1>3, Moves
<1>5. BytesKept' BY <1>1, <1>2, <1>4, BytesMoved
<1>6. queue # <<>> /\ queue' # <<>> /\ queue[1].id \in Nat /\ queue'[1].at = where
      /\ queue[1].id = accepted - Len(queue) + 1
  <2>1. 1 \in DOMAIN queue /\ 1 \in 1 .. Len(queue) BY <1>1, <1>2
  <2>2. queue # <<>> /\ queue' # <<>> BY <2>1, <1>1, <1>4
  <2>3. queue[1].id \in Nat
    <3>1. queue[1] \in Entries BY <2>1, <1>1, ElementOfSeq
    <3> QED BY <3>1 DEF Entries
  <2>4. queue[1].id = accepted - Len(queue) + 1 BY <2>1 DEF ChainKept
  <2> QED BY <2>1, <2>2, <2>3, <2>4, <1>4
<1>7. /\ \A j \in DOMAIN queue' : queue'[j].id = accepted' - Len(queue') + j
      /\ \A j \in DOMAIN queue' : j # 1 => queue'[j].at = "waiting"
      /\ accepted' \in 0 .. MaxSends
  BY <1>2, <1>4 DEF ChainKept
<1>8. Begun' = accepted - Len(queue) + (IF where \in {"waiting", "reading"} THEN 0 ELSE 1)
  BY <1>2, <1>4, <1>6 DEF Begun
<1>9. Begun = accepted - Len(queue)
                + (IF queue[1].at \in {"waiting", "reading"} THEN 0 ELSE 1)
  BY <1>6 DEF Begun
<1>10. PassedKept'
  <2>1. CASE /\ UNCHANGED <<passed, unread>>
             /\ where \in {"waiting", "reading"} <=> queue[1].at \in {"waiting", "reading"}
    <3>1. Begun' = Begun BY <1>8, <1>9, <2>1
    <3> QED BY <2>1, <3>1, PassedIdle DEF ChainKept
  <2>2. CASE /\ queue[1].at \in {"waiting", "reading"} /\ where \notin {"waiting", "reading"}
             /\ \/ passed' = Append(passed, queue[1].id) /\ unread' = unread
                \/ passed' = passed /\ unread' = unread \cup {queue[1].id}
    <3>1. Begun \in Int /\ Begun' = Begun + 1 /\ queue[1].id = Begun + 1
      BY <1>1, <1>6, <1>8, <1>9, <2>2
    <3>2. queue[1] \in Entries BY <1>1, <1>2, ElementOfSeq
    <3>3. Begun \in Nat BY <3>1, <3>2 DEF Entries
    <3> QED BY <2>2, <3>1, <3>3, PassedMore, UnreadMore DEF ChainKept
  <2> QED BY <1>3, <2>1, <2>2
<1> QED BY <1>4, <1>5, <1>7, <1>10 DEF ChainKept

\* The first send ends.
LEMMA ChainEnds ==
  ASSUME ChainKept, BytesKept, NEW k \in DOMAIN queue, SendEnds(k)
  PROVE  ChainKept' /\ BytesKept'
<1>1. /\ queue \in Seq(Entries) /\ Len(queue) \in Nat /\ DOMAIN queue = 1 .. Len(queue)
      /\ accepted \in Nat /\ discarded \in Nat
  BY LenProperties DEF ChainKept, BytesKept
<1>2. /\ k = 1 /\ queue[1].at \in {"sent", "refused", "unread"} /\ queue # <<>>
      /\ UNCHANGED <<accepted, passed, unread, discarded>>
      /\ buffered' = buffered - queue[1].size /\ queue' = RemoveAt(queue, 1)
  BY <1>1, EmptySeq DEF SendEnds, At, OnTurn, Released
<1>3. queue' = Tail(queue) BY <1>1, <1>2, FirstEnds
<1>4. /\ queue' \in Seq(Entries) /\ Len(queue') = Len(queue) - 1
      /\ DOMAIN queue' = 1 .. Len(queue')
      /\ \A j \in DOMAIN queue' : /\ j \in Nat \ {0} /\ queue'[j] = queue[j + 1]
                                 /\ j + 1 \in DOMAIN queue
  <2>1. /\ Tail(queue) \in Seq(Entries) /\ Len(Tail(queue)) = Len(queue) - 1
        /\ \A j \in 1 .. Len(Tail(queue)) : Tail(queue)[j] = queue[j + 1]
    BY <1>1, <1>2, HeadTailProperties
  <2>2. /\ queue' \in Seq(Entries) /\ Len(queue') = Len(queue) - 1
        /\ \A j \in 1 .. Len(queue') : queue'[j] = queue[j + 1]
    BY <1>3, <2>1, Zenon
  <2>3. DOMAIN queue' = 1 .. Len(queue') BY <2>2, LenProperties
  <2>4. \A j \in 1 .. Len(queue') : j \in Nat \ {0} /\ j + 1 \in 1 .. Len(queue)
    BY <2>2, <1>1
  <2> QED BY <1>1, <2>2, <2>3, <2>4
<1>5. \A j \in DOMAIN queue' : queue'[j].at = "waiting"
  BY <1>1, <1>4 DEF ChainKept
<1>6. ASSUME NEW j \in DOMAIN queue' PROVE queue'[j].id = accepted' - Len(queue') + j
  <2>1. queue'[j].id = accepted - Len(queue) + (j + 1) BY <1>4 DEF ChainKept
  <2> QED BY <2>1, <1>1, <1>2, <1>4
<1>7. Begun' = Begun
  <2>1. Begun = accepted - Len(queue) + 1 BY <1>2 DEF Begun
  <2>2. CASE queue' = <<>>
    <3>1. Len(queue') = 0 BY <2>2
    <3>2. Len(queue') = Len(queue) - 1 BY <1>4
    <3>3. Len(queue) = 1 BY <3>1, <3>2, <1>1
    <3> QED BY <2>1, <2>2, <3>2, <3>3, <1>1, <1>2 DEF Begun
  <2>3. CASE queue' # <<>>
    <3>1. 1 \in DOMAIN queue' BY <2>3, <1>4, EmptySeq
    <3>2. queue'[1].at = "waiting" BY <3>1, <1>5
    <3>3. Begun' = accepted' - Len(queue') + 0 BY <3>2 DEF Begun
    <3>4. accepted \in Int /\ Len(queue) \in Int BY <1>1
    <3>5. accepted' = accepted BY <1>2
    <3>6. Len(queue') = Len(queue) - 1 BY <1>4
    <3> QED BY <2>1, <3>3, <3>4, <3>5, <3>6
  <2> QED BY <2>2, <2>3
<1>14. PassedKept' BY <1>2, <1>7, PassedIdle DEF ChainKept
<1>8. ChainKept' BY <1>2, <1>4, <1>5, <1>6, <1>14 DEF ChainKept
<1>9. PICK t \in [0 .. Len(queue) -> Int] :
             Sums(t, queue) /\ buffered = t[Len(queue)] + discarded
  BY DEF BytesKept
<1>10. PICK u \in [0 .. Len(queue') -> Int] :
              Sums(u, queue') /\ u[Len(queue')] = t[Len(queue)] - queue[1].size
  BY <1>1, <1>2, <1>3, <1>9, SumsTail
<1>11. queue[1].size \in Nat /\ t[Len(queue)] \in Int
  <2>1. queue[1] \in Entries BY <1>1, <1>2, ElementOfSeq
  <2>2. Len(queue) \in 0 .. Len(queue) BY <1>1
  <2> QED BY <1>9, <2>1, <2>2 DEF Entries
<1>12. buffered' = u[Len(queue')] + discarded' BY <1>1, <1>2, <1>9, <1>10, <1>11
<1>13. BytesKept' BY <1>2, <1>10, <1>12 DEF BytesKept
<1> QED BY <1>8, <1>13

\* Every step keeps the chain and its bytes.
LEMMA ChainStep ==
  ASSUME ChainKept, BytesKept, [ShimNext]_vars
  PROVE  ChainKept' /\ BytesKept'
<1>1. CASE \E p \in Payloads : Send(p) BY <1>1, ChainSend
<1>2. CASE \E k \in DOMAIN queue : Proceeds(k) \/ SendAnswered(k)
  BY <1>2, ChainMoves, ChainEnds DEF Proceeds
<1>3. CASE \E c \in CloseCalls : Close(c) BY <1>3, ChainIdle DEF Close
<1>4. CASE Opens \/ ClosesAtOnce \/ Fails BY <1>4, ChainIdle DEF Opens, ClosesAtOnce, Fails
<1>5. CASE Receives \/ Dispatches \/ Settles
  BY <1>5, ChainIdle DEF Receives, Dispatches, Settles
<1>6. CASE ConnectEnds \/ ReceiveAnswered \/ WaitClosedAnswered \/ ConnectionStep
  BY <1>6, ChainIdle
     DEF ConnectEnds, ReceiveAnswered, WaitClosedAnswered, ConnectionStep, shimVars, sendVars
<1>7. CASE UNCHANGED vars BY <1>7, ChainIdle DEF vars
<1> QED BY <1>1, <1>2, <1>3, <1>4, <1>5, <1>6, <1>7 DEF ShimNext
-----------------------------------------------------------------------------
(***************************************************************************)
(* The connection.                                                         *)
(***************************************************************************)

\* The codes are numbers, so neither mark is one.
LEMMA Marks == Unset \notin Infos /\ NoFrame \notin PeerCodes /\ NoClose \notin CloseCalls
BY ShimAssumption DEF ShimAssumption, Unset, Infos, NoFrame, NoClose, CloseCode, NoCode

LEMMA ConnLens ==
  ASSUME ConnKept
  PROVE  /\ Len(got) \in Nat /\ DOMAIN got = 1 .. Len(got)
         /\ Len(inbox) \in Nat /\ DOMAIN inbox = 1 .. Len(inbox)
BY LenProperties DEF ConnKept

\* What a step leaves alone of the connection.
LEMMA ConnIdle ==
  ASSUME ConnKept, UNCHANGED wsVars, conn = "connected" => conn' = "connected",
         loop' = "none" => loop = "none"
  PROVE  ConnKept'
BY DEF ConnKept, wsVars

\* A close from here: the inbox is discarded.
LEMMA ConnCloses ==
  ASSUME ConnKept, Ws!LocalClose, UNCHANGED <<conn, loop>>
  PROVE  ConnKept'
<1>1. inbox' = <<>> /\ UNCHANGED <<got, ended, info>> /\ local' = TRUE
      /\ phase' = (IF phase = "open" THEN "closing" ELSE phase)
  BY DEF Ws!LocalClose
<1>2. inbox' \in Seq(Nat) /\ Len(inbox') = 0 /\ DOMAIN inbox' = {} BY <1>1
<1>3. Len(got') + Len(inbox') =< MaxMsgs
  BY <1>1, <1>2, ConnLens, ShimAssumption DEF ConnKept, ShimAssumption
<1> QED BY <1>1, <1>2, <1>3 DEF ConnKept

\* A message arrives, or is taken, or is passed on as it arrives.
LEMMA ConnArrives ==
  ASSUME ConnKept, Ws!Arrive, Len(got) + Len(inbox) < MaxMsgs, UNCHANGED <<conn, loop>>
  PROVE  ConnKept'
<1>1. inbox' = Append(inbox, Len(got) + Len(inbox) + 1)
      /\ UNCHANGED <<phase, local, got, ended, info>>
  BY DEF Ws!Arrive
<1>2. inbox \in Seq(Nat) /\ Len(got) + Len(inbox) + 1 \in Nat BY ConnLens DEF ConnKept
<1>3. /\ inbox' \in Seq(Nat) /\ Len(inbox') = Len(inbox) + 1
      /\ \A k \in 1 .. Len(inbox) : inbox'[k] = inbox[k]
      /\ inbox'[Len(inbox')] = Len(got) + Len(inbox')
      /\ DOMAIN inbox' = 1 .. Len(inbox')
  BY <1>1, <1>2, ConnLens, AppendProperties, LenProperties
<1>4. ASSUME NEW k \in DOMAIN inbox' PROVE inbox'[k] = Len(got') + k
  <2>1. CASE k = Len(inbox') BY <2>1, <1>1, <1>3
  <2>2. CASE k # Len(inbox')
    <3>1. k \in DOMAIN inbox /\ inbox'[k] = inbox[k] BY <2>2, <1>3, ConnLens
    <3> QED BY <3>1, <1>1 DEF ConnKept
  <2> QED BY <2>1, <2>2
<1>5. Len(got') + Len(inbox') =< MaxMsgs
  BY <1>1, <1>3, ConnLens, ShimAssumption DEF ShimAssumption
<1> QED BY <1>1, <1>3, <1>4, <1>5 DEF ConnKept

LEMMA ConnHands ==
  ASSUME ConnKept, UNCHANGED conn, loop' = "handed",
         conn = "connected", Ws!Take \/ (Ws!Pass /\ Len(got) < MaxMsgs)
  PROVE  ConnKept' /\ Len(got') = Len(got) + 1 /\ got' # <<>>
         /\ got'[Len(got')] = Len(got') /\ UNCHANGED <<phase, info>>
         /\ \A k \in 1 .. Len(got) : got'[k] = got[k]
<1>1. got' = Append(got, Len(got) + 1) /\ UNCHANGED <<phase, local, ended, info>>
  <2>1. CASE Ws!Take
    <3>1. 1 \in DOMAIN inbox /\ Head(inbox) = inbox[1]
      BY <2>1, EmptySeq, ConnLens DEF Ws!Take, ConnKept
    <3> QED BY <2>1, <3>1 DEF Ws!Take, ConnKept
  <2>2. CASE Ws!Pass BY <2>2 DEF Ws!Pass
  <2> QED BY <2>1, <2>2
<1>2. got \in Seq(Nat) /\ Len(got) + 1 \in Nat BY ConnLens DEF ConnKept
<1>3. /\ got' \in Seq(Nat) /\ Len(got') = Len(got) + 1
      /\ \A k \in 1 .. Len(got) : got'[k] = got[k]
      /\ got'[Len(got')] = Len(got') /\ DOMAIN got' = 1 .. Len(got')
  BY <1>1, <1>2, ConnLens, AppendProperties, LenProperties
<1>4. got' # <<>> BY <1>3, <1>2
<1>5. ASSUME NEW k \in DOMAIN got' PROVE got'[k] = k
  <2>1. CASE k = Len(got') BY <2>1, <1>3
  <2>2. CASE k # Len(got')
    <3>1. k \in DOMAIN got /\ got'[k] = got[k] BY <2>2, <1>3, ConnLens
    <3> QED BY <3>1 DEF ConnKept
  <2> QED BY <2>1, <2>2
<1>6. /\ inbox' \in Seq(Nat) /\ Len(got') + Len(inbox') =< MaxMsgs
      /\ \A k \in DOMAIN inbox' : inbox'[k] = Len(got') + k
  <2>1. CASE Ws!Take
    <3>1. inbox' = Tail(inbox) /\ inbox # <<>> /\ inbox \in Seq(Nat)
      BY <2>1 DEF Ws!Take, ConnKept
    <3>2. /\ Tail(inbox) \in Seq(Nat) /\ Len(Tail(inbox)) = Len(inbox) - 1
          /\ \A k \in 1 .. Len(Tail(inbox)) : Tail(inbox)[k] = inbox[k + 1]
      BY <3>1, HeadTailProperties
    <3>3. /\ inbox' \in Seq(Nat) /\ Len(inbox') = Len(inbox) - 1
          /\ \A k \in 1 .. Len(inbox') : inbox'[k] = inbox[k + 1]
      BY <3>1, <3>2, Zenon
    <3>4. DOMAIN inbox' = 1 .. Len(inbox') BY <3>3, LenProperties
    <3>5. Len(got') + Len(inbox') =< MaxMsgs
      BY <1>3, <3>3, ConnLens, ShimAssumption DEF ShimAssumption, ConnKept
    <3>6. ASSUME NEW k \in DOMAIN inbox' PROVE inbox'[k] = Len(got') + k
      <4>1. k \in Nat /\ k + 1 \in DOMAIN inbox BY <3>3, <3>4, ConnLens
      <4>2. inbox'[k] = Len(got) + (k + 1) BY <3>3, <3>4, <4>1 DEF ConnKept
      <4> QED BY <4>1, <4>2, <1>3, ConnLens
    <3> QED BY <3>3, <3>5, <3>6
  <2>2. CASE Ws!Pass /\ Len(got) < MaxMsgs
    <3>1. inbox' = <<>> /\ inbox = <<>> BY <2>2 DEF Ws!Pass
    <3>2. Len(inbox') = 0 /\ DOMAIN inbox' = {} /\ inbox' \in Seq(Nat) BY <3>1
    <3>3. Len(got') + Len(inbox') =< MaxMsgs
      BY <1>3, <3>2, <2>2, ConnLens, ShimAssumption DEF ShimAssumption
    <3> QED BY <3>2, <3>3
  <2> QED BY <2>1, <2>2
<1>7. ConnKept' BY <1>1, <1>3, <1>5, <1>6 DEF ConnKept
<1> QED BY <1>1, <1>3, <1>4, <1>7

\* Every other step of the connection moves only what tells its end.
LEMMA ConnEnds ==
  ASSUME ConnKept, UNCHANGED <<conn, loop>>,
         \/ conn = "connected" /\ (Ws!StartClosing \/ Closing)
         \/ \E frames \in {<<"data">>, <<"close">>} : Ws!Transmit(frames)
  PROVE  ConnKept'
<1>1. CASE conn = "connected" /\ Ws!StartClosing BY <1>1 DEF Ws!StartClosing, ConnKept
<1>2. CASE conn = "connected" /\ Closing
  <2>1. CASE \E i \in Infos : Ws!Publish(i) \/ Ws!Settle(i)
    BY <1>2, <2>1, Marks DEF Ws!Publish, Ws!Settle, ConnKept
  <2>2. CASE Ws!EndInbox \/ Ws!Finish BY <1>2, <2>2 DEF Ws!EndInbox, Ws!Finish, ConnKept
  <2> QED BY <1>2, <2>1, <2>2 DEF Closing
<1>3. CASE \E frames \in {<<"data">>, <<"close">>} : Ws!Transmit(frames)
  BY <1>3 DEF Ws!Transmit, ConnKept
<1> QED BY <1>1, <1>2, <1>3

\* The outcome is latched, and a connection that is closed stays so.
LEMMA ConnStep ==
  ASSUME ConnKept, FieldsTyped, FieldsKept, [ShimNext]_vars
  PROVE  /\ ConnKept' /\ (phase = "closed" => phase' = "closed")
         /\ info # Unset => info' = info
<1> DEFINE Goal == /\ ConnKept' /\ (phase = "closed" => phase' = "closed")
                   /\ info # Unset => info' = info
<1>1. CASE \E p \in Payloads : Send(p) BY <1>1, ConnIdle DEF Send, wsVars
<1>2. ASSUME NEW c \in CloseCalls, Close(c) PROVE Goal
  BY <1>2, ConnIdle, ConnCloses DEF Close, CloseUnderlying, wsVars, Ws!LocalClose
<1>3. CASE Opens BY <1>3, ConnIdle DEF Opens, wsVars
<1>4. CASE ClosesAtOnce
  BY <1>4, ConnIdle, ConnCloses DEF ClosesAtOnce, CloseUnderlying, wsVars, Ws!LocalClose
<1>5. CASE Fails BY <1>5, ConnIdle DEF Fails, wsVars
<1>6. CASE Receives \/ Dispatches \/ Settles
  BY <1>6, ConnIdle DEF Receives, Dispatches, Settles, wsVars
<1>7. ASSUME NEW k \in DOMAIN queue, Proceeds(k) PROVE Goal
  BY <1>7, ConnIdle DEF Proceeds, BlobIsRead, BlobFails, Passes, SendEnds, wsVars
<1>8. ASSUME NEW k \in DOMAIN queue, SendAnswered(k) PROVE Goal
  <2>1. UNCHANGED <<conn, loop, phase, info>> BY <1>8 DEF SendAnswered, Ws!Transmit, wsVars
  <2>2. UNCHANGED wsVars \/ Ws!Transmit(<<"data">>) BY <1>8 DEF SendAnswered
  <2> QED BY <2>1, <2>2, ConnIdle, ConnEnds
<1>9. CASE ConnectEnds BY <1>9, ConnIdle DEF ConnectEnds, wsVars
<1>10. CASE ReceiveAnswered
  <2>1. UNCHANGED conn /\ conn = "connected"
    BY <1>10 DEF ReceiveAnswered, FieldsTyped, FieldsKept
  <2>2. CASE Ws!Take \/ (Ws!Pass /\ Len(got) < MaxMsgs)
    <3>1. loop' = "handed" BY <1>10, <2>2 DEF ReceiveAnswered, Ws!Take, Ws!Pass, wsVars
    <3> QED BY <2>1, <2>2, <3>1, ConnHands
  <2>3. CASE UNCHANGED wsVars /\ loop' = "done" BY <2>1, <2>3, ConnIdle DEF wsVars
  <2> QED BY <1>10, <2>2, <2>3 DEF ReceiveAnswered
<1>11. CASE WaitClosedAnswered BY <1>11, ConnIdle DEF WaitClosedAnswered, wsVars
<1>12. CASE ConnectionStep
  <2>1. /\ UNCHANGED <<conn, loop>>
        /\ \/ Ws!Arrive /\ Len(got) + Len(inbox) < MaxMsgs
           \/ conn = "connected" /\ (Ws!StartClosing \/ Closing)
           \/ Ws!Transmit(<<"close">>)
    BY <1>12 DEF ConnectionStep
  <2>2. ConnKept' BY <2>1, ConnArrives, ConnEnds
  <2>3. (phase = "closed" => phase' = "closed") /\ (info # Unset => info' = info)
    BY <2>1 DEF Closing, Ws!Arrive, Ws!StartClosing, Ws!Publish, Ws!Settle, Ws!EndInbox,
                Ws!Finish, Ws!Transmit
  <2> QED BY <2>2, <2>3
<1>13. CASE UNCHANGED vars BY <1>13, ConnIdle DEF vars, wsVars
<1> QED
  BY <1>1, <1>2, <1>3, <1>4, <1>5, <1>6, <1>7, <1>8, <1>9, <1>10, <1>11, <1>12, <1>13
     DEF ShimNext
-----------------------------------------------------------------------------
(***************************************************************************)
(* The fields.                                                             *)
(***************************************************************************)

\* What the steps of the connection and of the chain do not touch.
fields == <<ready, ws, pendingClose, closeDispatched, loop, settle, conn>>

LEMMA FieldsIdle ==
  ASSUME FieldsTyped, FieldsKept, UNCHANGED <<fields, got>>,
         phase = "closed" => phase' = "closed"
  PROVE  FieldsTyped' /\ FieldsKept'
BY DEF FieldsTyped, FieldsKept, fields

LEMMA FieldsStep ==
  ASSUME ConnKept, FieldsTyped, FieldsKept, [ShimNext]_vars
  PROVE  FieldsTyped' /\ FieldsKept'
<1> DEFINE Goal == FieldsTyped' /\ FieldsKept'
<1>1. phase = "closed" => phase' = "closed" BY ConnStep
<1>2. CASE \E p \in Payloads : Send(p) BY <1>1, <1>2, FieldsIdle DEF Send, fields, wsVars
<1>3. ASSUME NEW c \in CloseCalls, Close(c) PROVE Goal
  <2>1. /\ \/ ready = "connecting" /\ pendingClose' = c
           \/ ready = "open" /\ UNCHANGED pendingClose
        /\ ready' = "closing" /\ UNCHANGED <<ws, closeDispatched, loop, settle, conn, got>>
    BY <1>3 DEF Close, CloseUnderlying, Ws!LocalClose, wsVars
  <2>2. c # NoClose BY Marks
  <2>3. FieldsTyped' BY <2>1 DEF FieldsTyped
  <2>4. FieldsKept'
    BY <1>1, <2>1, <2>2 DEF FieldsTyped, FieldsKept
  <2> QED BY <2>3, <2>4
<1>4. CASE Opens BY <1>1, <1>4 DEF Opens, FieldsTyped, FieldsKept, wsVars
<1>5. CASE ClosesAtOnce
  <2>1. UNCHANGED got BY <1>5 DEF ClosesAtOnce, CloseUnderlying, Ws!LocalClose, wsVars
  <2> QED BY <1>1, <1>5, <2>1 DEF ClosesAtOnce, FieldsTyped, FieldsKept
<1>6. CASE Fails BY <1>1, <1>6 DEF Fails, FieldsTyped, FieldsKept, wsVars
<1>7. CASE Receives BY <1>1, <1>7 DEF Receives, FieldsTyped, FieldsKept, wsVars
<1>8. CASE Dispatches BY <1>1, <1>8 DEF Dispatches, FieldsTyped, FieldsKept, wsVars
<1>9. CASE Settles BY <1>1, <1>9 DEF Settles, FieldsTyped, FieldsKept, wsVars
<1>10. ASSUME NEW k \in DOMAIN queue,
              Proceeds(k) \/ SendAnswered(k)
       PROVE  Goal
  <2>1. UNCHANGED <<fields, got>>
    BY <1>10
       DEF Proceeds, BlobIsRead, BlobFails, Passes, SendEnds, SendAnswered, fields, shimVars,
           wsVars, Ws!Transmit
  <2> QED BY <1>1, <2>1, FieldsIdle
<1>11. CASE ConnectEnds
  BY <1>1, <1>11 DEF ConnectEnds, shimVars, FieldsTyped, FieldsKept, wsVars
<1>12. CASE ReceiveAnswered
  <2>1. /\ loop = "pending" /\ UNCHANGED <<ready, ws, pendingClose, closeDispatched, settle, conn>>
        /\ loop' \in {"handed", "done"} /\ (loop' = "handed" => got' # <<>>)
    <3>1. conn = "connected"
      BY <1>12 DEF ReceiveAnswered, FieldsKept, FieldsTyped
    <3> QED BY <1>12, <3>1, ConnHands DEF ReceiveAnswered, shimVars
  <2> QED BY <1>1, <2>1 DEF FieldsTyped, FieldsKept
<1>13. CASE WaitClosedAnswered
  BY <1>1, <1>13 DEF WaitClosedAnswered, shimVars, FieldsTyped, FieldsKept, wsVars
<1>14. CASE ConnectionStep
  <2>1. UNCHANGED <<fields, got>>
    BY <1>14 DEF ConnectionStep, Closing, Ws!Arrive, Ws!StartClosing, Ws!Publish, Ws!Settle,
                 Ws!EndInbox, Ws!Finish, Ws!Transmit, fields, shimVars
  <2> QED BY <1>1, <2>1, FieldsIdle
<1>15. CASE UNCHANGED vars BY <1>1, <1>15, FieldsIdle DEF vars, fields, wsVars
<1> QED
  BY <1>2, <1>3, <1>4, <1>5, <1>6, <1>7, <1>8, <1>9, <1>10, <1>11, <1>12, <1>13, <1>14,
     <1>15 DEF ShimNext
-----------------------------------------------------------------------------
(***************************************************************************)
(* The events.                                                             *)
(***************************************************************************)

\* OfType, of any sequence.
Of(type, n, s) == {k \in 1 .. n : s[k].type = type}

LEMMA OfFinite ==
  ASSUME NEW type, NEW n \in Nat, NEW s
  PROVE  IsFiniteSet(Of(type, n, s)) /\ Cardinality(Of(type, n, s)) \in Nat
<1>1. IsFiniteSet(1 .. n) BY FS_Interval
<1>2. Of(type, n, s) \subseteq 1 .. n BY DEF Of
<1> QED BY <1>1, <1>2, FS_Subset, FS_CardinalityType

\* r is s with e behind it: e is counted where it belongs.
Grown(s, e, r) ==
  /\ r \in Seq(Events) /\ Len(r) = Len(s) + 1 /\ Len(s) \in Nat
  /\ DOMAIN s = 1 .. Len(s) /\ DOMAIN r = 1 .. Len(r)
  /\ r[Len(r)] = e /\ \A k \in 1 .. Len(s) : r[k] = s[k]
  /\ \A type : \A n \in 0 .. Len(s) : Of(type, n, r) = Of(type, n, s)
  /\ \A type : Cardinality(Of(type, Len(r), r))
                = Cardinality(Of(type, Len(s), s)) + (IF e.type = type THEN 1 ELSE 0)

LEMMA OfAppend ==
  ASSUME NEW s \in Seq(Events), NEW e \in Events
  PROVE  Grown(s, e, Append(s, e))
<1> DEFINE r == Append(s, e)
<1>1. /\ r \in Seq(Events) /\ Len(r) = Len(s) + 1 /\ Len(s) \in Nat
      /\ DOMAIN s = 1 .. Len(s) /\ DOMAIN r = 1 .. Len(r)
      /\ r[Len(r)] = e /\ \A k \in 1 .. Len(s) : r[k] = s[k]
  BY AppendProperties, LenProperties
<1>2. ASSUME NEW type, NEW n \in 0 .. Len(s) PROVE Of(type, n, r) = Of(type, n, s)
  <2>1. \A k \in 1 .. n : r[k] = s[k] BY <1>1
  <2> QED BY <2>1 DEF Of
<1>3. ASSUME NEW type
      PROVE  Cardinality(Of(type, Len(r), r))
               = Cardinality(Of(type, Len(s), s)) + (IF e.type = type THEN 1 ELSE 0)
  <2> DEFINE A == Of(type, Len(s), s)
             B == Of(type, Len(r), r)
  <2>1. IsFiniteSet(A) /\ Cardinality(A) \in Nat BY <1>1, OfFinite
  <2>2. 1 .. Len(r) = (1 .. Len(s)) \cup {Len(r)} /\ Len(r) \notin 1 .. Len(s) BY <1>1
  <2>3. CASE e.type = type
    <3>1. B = A \cup {Len(r)} /\ Len(r) \notin A BY <1>1, <2>2, <2>3 DEF Of
    <3> HIDE DEF A, B
    <3>2. Cardinality(B) = Cardinality(A) + 1 BY <2>1, <3>1, FS_AddElement
    <3> QED BY <2>3, <3>2 DEF A, B
  <2>4. CASE e.type # type
    <3>1. B = A BY <1>1, <2>2, <2>4 DEF Of
    <3> HIDE DEF A, B
    <3>2. Cardinality(B) = Cardinality(A) + 0 BY <2>1, <3>1
    <3> QED BY <2>4, <3>2 DEF A, B
  <2> QED BY <2>3, <2>4
<1> QED BY <1>1, <1>2, <1>3 DEF Grown

LEMMA Counts ==
  \A type : /\ Count(type) = Cardinality(Of(type, Len(events), events))
            /\ Count(type)' = Cardinality(Of(type, Len(events'), events'))
BY DEF Count, OfType, Of

\* The place of a message among the messages is one of those handed over.
LEMMA Placed ==
  ASSUME ConnKept, FieldsKept, EventsKept, NEW k \in DOMAIN events, events[k].type = "message"
  PROVE  Cardinality(OfType("message", k)) \in 1 .. Len(got)
<1> DEFINE A == OfType("message", k)
           B == OfType("message", Len(events))
<1>1. Len(events) \in Nat /\ k \in 1 .. Len(events) /\ Len(got) \in Nat
  BY LenProperties, ConnLens DEF EventsKept
<1>2. A \subseteq B /\ k \in A BY <1>1 DEF OfType
<1>3. IsFiniteSet(B) BY <1>1, OfFinite DEF OfType, Of
<1>4. Cardinality(B) =< Len(got) BY <1>1 DEF EventsKept, EventsHonest, Count
<1> HIDE DEF A, B
<1>5. IsFiniteSet(A) /\ Cardinality(A) \in Nat /\ Cardinality(B) \in Nat
      /\ Cardinality(A) =< Cardinality(B)
  BY <1>2, <1>3, FS_Subset, FS_CardinalityType
<1>6. Cardinality(A) # 0 BY <1>2, <1>5, FS_EmptySet
<1>7. Cardinality(A) \in 1 .. Len(got) BY <1>1, <1>4, <1>5, <1>6
<1> QED BY <1>7 DEF A

\* No close event before the close is dispatched.
LEMMA NoCloseYet ==
  ASSUME EventsKept, ~closeDispatched, NEW k \in DOMAIN events
  PROVE  events[k].type # "close"
<1>1. Len(events) \in Nat /\ k \in 1 .. Len(events) BY LenProperties DEF EventsKept
<1> DEFINE B == OfType("close", Len(events))
<1>2. IsFiniteSet(B) BY <1>1, OfFinite DEF OfType, Of
<1>3. Cardinality(B) = 0 BY DEF EventsKept, EventsHonest, Count
<1>4. B = {}
  <2> HIDE DEF B
  <2> QED BY <1>2, <1>3, FS_EmptySet
<1> QED BY <1>1, <1>4 DEF OfType

\* What is about to be dispatched is an event.
LEMMA EventsAre ==
  ASSUME ConnKept
  PROVE  /\ Event("open") \in Events /\ Event("error") \in Events
         /\ Event("close") \in Events
         /\ \A code \in Int, clean \in BOOLEAN : CloseEvent(code, clean) \in Events
         /\ got # <<>> => MessageEvent \in Events
<1>1. MaxMsgs \in Nat BY ShimAssumption DEF ShimAssumption
<1>2. 0 \in 0 .. MaxMsgs BY <1>1
<1>3. ASSUME got # <<>> PROVE got[Len(got)] \in 0 .. MaxMsgs
  <2>1. Len(got) \in DOMAIN got BY <1>3, ConnLens, EmptySeq DEF ConnKept
  <2>2. got[Len(got)] = Len(got) BY <2>1 DEF ConnKept
  <2> QED BY <1>1, <2>2, ConnLens DEF ConnKept
<1>4. \A type \in EventTypes : Event(type) \in Events BY <1>2 DEF Event, Events
<1>5. ASSUME NEW code \in Int, NEW clean \in BOOLEAN
      PROVE  CloseEvent(code, clean) \in Events
  <2> DEFINE e == Event("close")
  <2>1. e \in Events BY <1>4 DEF EventTypes
  <2>2. CloseEvent(code, clean) = [e EXCEPT !.code = code, !.clean = clean] BY DEF CloseEvent
  <2> HIDE DEF e
  <2> QED BY <2>1, <2>2 DEF Events
<1>6. ASSUME got # <<>> PROVE MessageEvent \in Events
  <2> DEFINE e == Event("message")
  <2>1. e \in Events BY <1>4 DEF EventTypes
  <2>2. MessageEvent = [e EXCEPT !.message = got[Len(got)]] BY DEF MessageEvent
  <2> HIDE DEF e
  <2> QED BY <2>1, <2>2, <1>3, <1>6 DEF Events
<1> QED BY <1>4, <1>5, <1>6 DEF EventTypes

\* The outcome does not change behind the close event.
LEMMA OutcomeStays ==
  ASSUME ConnKept, FieldsTyped, FieldsKept, [ShimNext]_vars, closeDispatched
  PROVE  info' = info
<1>1. CASE ws
  <2>1. info # Unset BY <1>1 DEF FieldsKept, ConnKept
  <2> QED BY <2>1, ConnStep
<1>2. CASE ~ws
  <2>1. conn = "failed" BY <1>2 DEF FieldsKept, FieldsTyped
  <2>2. conn' = "failed"
    BY <2>1 DEF ShimNext, vars, Send, Close, Opens, ClosesAtOnce, Fails, Receives, Dispatches,
      Settles, Proceeds, BlobIsRead, BlobFails, Passes, SendEnds, SendAnswered, ConnectEnds,
      ReceiveAnswered,
      WaitClosedAnswered, ConnectionStep
  <2>3. info = Unset /\ info' = Unset BY <2>1, <2>2, ConnStep DEF ConnKept
  <2> QED BY <2>3
<1> QED BY <1>1, <1>2 DEF FieldsTyped

\* Nothing is dispatched.
LEMMA EventsIdle ==
  ASSUME ConnKept, FieldsTyped, FieldsKept, EventsKept, [ShimNext]_vars,
         UNCHANGED <<events, closeDispatched>>, loop' = "none" <=> loop = "none",
         \/ got' = got /\ (loop' = "handed" <=> loop = "handed")
         \/ /\ Len(got') = Len(got) + 1 /\ \A k \in 1 .. Len(got) : got'[k] = got[k]
            /\ loop' = "handed" /\ loop # "handed"
  PROVE  EventsKept'
<1>1. FieldsKept' BY FieldsStep
<1>2. ASSUME NEW k \in DOMAIN events', events'[k].type = "message"
      PROVE  events'[k].message = got'[Cardinality(OfType("message", k)')]
  <2>1. Cardinality(OfType("message", k)) \in 1 .. Len(got) BY <1>2, Placed
  <2>2. OfType("message", k)' = OfType("message", k) BY DEF OfType
  <2>3. events[k].message = got[Cardinality(OfType("message", k))]
    BY <1>2 DEF EventsKept, EventsHonest
  <2> QED BY <2>1, <2>2, <2>3
<1>3. Count("message")' = Count("message") /\ Count("close")' = Count("close")
  BY DEF Count, OfType
<1>4. Count("message")' = Len(got') - (IF loop' = "handed" THEN 1 ELSE 0)
  BY <1>3, ConnLens DEF EventsKept, EventsHonest
<1>5. ASSUME NEW k \in DOMAIN events', events'[k].type = "close"
      PROVE  /\ events'[k].clean <=> (loop' # "none" /\ info' \in PeerCodes)
             /\ events'[k].code = (IF info' \in PeerCodes THEN info' ELSE 1006)
             /\ events'[k].clean <=> (k = 1 \/ events'[k - 1].type # "error")
  <2>1. closeDispatched BY <1>5, NoCloseYet
  <2>2. info' = info BY <2>1, OutcomeStays
  <2> QED BY <1>5, <2>2 DEF EventsKept, EventsHonest
<1>6. closeDispatched' <=> ready' = "closed" BY <1>1 DEF FieldsKept
<1>7. \A k \in DOMAIN events' : events'[k].type = "open" <=> (k = 1 /\ loop' # "none")
  BY DEF EventsKept, EventsHonest
<1>8. EventsHonest'
  BY <1>2, <1>3, <1>4, <1>5, <1>6, <1>7 DEF EventsKept, EventsHonest
<1> QED BY <1>8 DEF EventsKept

LEMMA EventsOpen ==
  ASSUME ConnKept, FieldsTyped, FieldsKept, EventsKept, [ShimNext]_vars, Opens
  PROVE  EventsKept'
<1>1. /\ FieldsKept' /\ events = <<>> /\ events' = Append(events, Event("open"))
      /\ UNCHANGED <<got, closeDispatched, info>> /\ ~closeDispatched /\ loop' = "turn"
      /\ got = <<>>
  <2>1. conn # "failed" /\ loop = "none" /\ ~closeDispatched BY DEF Opens, FieldsKept
  <2> QED BY <2>1, FieldsStep DEF Opens, wsVars, EventsKept, ConnKept
<1>2. Event("open") \in Events /\ Event("open").type = "open"
  BY EventsAre DEF Event
<1>3. events \in Seq(Events) /\ Len(events) = 0 BY <1>1 DEF EventsKept
<1>4. /\ events' \in Seq(Events) /\ Len(events') = 1 /\ DOMAIN events' = 1 .. 1
      /\ events'[1].type = "open"
      /\ \A type : Cardinality(Of(type, 1, events'))
                    = Cardinality(Of(type, 0, events)) + (IF "open" = type THEN 1 ELSE 0)
  <2>1. Grown(events, Event("open"), events') BY <1>1, <1>2, <1>3, OfAppend
  <2>2. \A type : Cardinality(Of(type, Len(events'), events'))
                  = Cardinality(Of(type, Len(events), events))
                      + (IF Event("open").type = type THEN 1 ELSE 0)
    BY <2>1 DEF Grown
  <2>3. /\ events' \in Seq(Events) /\ Len(events') = Len(events) + 1
        /\ DOMAIN events' = 1 .. Len(events') /\ events'[Len(events')] = Event("open")
    BY <2>1 DEF Grown
  <2> QED BY <1>2, <1>3, <2>2, <2>3
<1>5. Count("message")' = Count("message") /\ Count("close")' = Count("close")
  <2>1. \A type : Cardinality(Of(type, 0, events)) \in Nat BY OfFinite
  <2> QED BY <1>3, <1>4, <2>1, Counts
<1>6. Count("message")' = 0 /\ Count("close")' = 0
  <2>1. Len(got) = 0 /\ loop # "handed"
    BY <1>1 DEF Opens, FieldsKept
  <2> QED BY <1>1, <1>5, <2>1 DEF EventsKept, EventsHonest
<1>7. Len(got') = 0 BY <1>1
<1>8. EventsHonest'
  BY <1>1, <1>4, <1>6, <1>7 DEF EventsHonest, FieldsKept
<1> QED BY <1>1, <1>4, <1>8 DEF EventsKept

LEMMA EventsMessage ==
  ASSUME ConnKept, FieldsTyped, FieldsKept, EventsKept, [ShimNext]_vars, Dispatches
  PROVE  EventsKept'
<1>1. /\ FieldsKept' /\ events' = Append(events, MessageEvent) /\ loop = "handed"
      /\ UNCHANGED <<got, closeDispatched, info>> /\ loop' = "turn" /\ got # <<>>
  BY FieldsStep DEF Dispatches, wsVars, FieldsKept
<1>2. /\ MessageEvent \in Events /\ MessageEvent.type = "message"
      /\ MessageEvent.message = got[Len(got)]
  BY <1>1, EventsAre DEF MessageEvent, Event
<1>3. events \in Seq(Events) BY DEF EventsKept
<1>4. /\ events' \in Seq(Events) /\ Len(events') = Len(events) + 1 /\ Len(events) \in Nat
      /\ DOMAIN events = 1 .. Len(events) /\ DOMAIN events' = 1 .. Len(events')
      /\ events'[Len(events')] = MessageEvent
      /\ \A k \in 1 .. Len(events) : events'[k] = events[k]
      /\ \A type : \A n \in 0 .. Len(events) : Of(type, n, events') = Of(type, n, events)
      /\ \A type : Cardinality(Of(type, Len(events'), events'))
                    = Cardinality(Of(type, Len(events), events))
                        + (IF MessageEvent.type = type THEN 1 ELSE 0)
  <2>1. Grown(events, MessageEvent, events') BY <1>1, <1>2, <1>3, OfAppend
  <2> QED BY <2>1 DEF Grown
<1>5. Count("message") = Len(got) - 1 /\ Len(got) \in Nat
  BY <1>1, ConnLens DEF EventsKept, EventsHonest
<1>6. Count("message")' = Len(got) /\ Count("close")' = Count("close")
  <2>1. Cardinality(Of("close", Len(events), events)) \in Nat BY <1>4, OfFinite
  <2>2. Count("close")' = Count("close") + 0 BY <1>2, <1>4, Counts
  <2>3. Count("message")' = Count("message") + 1 BY <1>2, <1>4, Counts
  <2> QED BY <1>5, <2>1, <2>2, <2>3, Counts
<1>7. ASSUME NEW k \in DOMAIN events', events'[k].type = "message"
      PROVE  events'[k].message = got'[Cardinality(OfType("message", k)')]
  <2>1. CASE k = Len(events')
    <3>1. Cardinality(OfType("message", k)') = Len(got) BY <1>6, <2>1 DEF Count, OfType
    <3> QED BY <1>1, <1>2, <1>4, <2>1, <3>1
  <2>2. CASE k # Len(events')
    <3>1. k \in DOMAIN events /\ k \in 0 .. Len(events) /\ events'[k] = events[k]
      BY <1>4, <2>2
    <3>2. OfType("message", k)' = OfType("message", k) BY <1>4, <3>1 DEF OfType, Of
    <3> QED BY <1>1, <1>7, <3>1, <3>2 DEF EventsKept, EventsHonest
  <2> QED BY <2>1, <2>2
<1>8. ASSUME NEW k \in DOMAIN events', events'[k].type = "close"
      PROVE  /\ events'[k].clean <=> (loop' # "none" /\ info' \in PeerCodes)
             /\ events'[k].code = (IF info' \in PeerCodes THEN info' ELSE 1006)
             /\ events'[k].clean <=> (k = 1 \/ events'[k - 1].type # "error")
  <2>1. k \in DOMAIN events /\ events'[k] = events[k] BY <1>2, <1>4, <1>8
  <2>2. k = 1 \/ (k - 1 \in DOMAIN events /\ events'[k - 1] = events[k - 1])
    BY <1>4, <2>1
  <2> QED BY <1>1, <1>8, <2>1, <2>2 DEF EventsKept, EventsHonest
<1>9. ASSUME NEW k \in DOMAIN events'
      PROVE  /\ events'[k].type = "open" <=> (k = 1 /\ loop' # "none")
             /\ ~closeDispatched' => events'[k].type # "error"
  <2>1. CASE k = Len(events')
    <3>1. Len(events) # 0 BY <1>1, <1>3, EmptySeq DEF EventsKept
    <3> QED BY <1>2, <1>4, <2>1, <3>1
  <2>2. CASE k # Len(events')
    <3>1. k \in DOMAIN events /\ events'[k] = events[k] BY <1>4, <2>2
    <3> QED BY <1>1, <3>1 DEF EventsKept, EventsHonest
  <2> QED BY <2>1, <2>2
<1>10. EventsHonest'
  BY <1>1, <1>6, <1>7, <1>8, <1>9 DEF EventsKept, EventsHonest, FieldsKept
<1> QED BY <1>1, <1>4, <1>9, <1>10 DEF EventsKept

\* What the events are, or the events and an error, before the close.
Unclosed(s) ==
  /\ s \in Seq(Events) /\ (loop # "none" => s # <<>>)
  /\ \A k \in DOMAIN s : s[k].type # "close"
  /\ \A k \in DOMAIN s : s[k].type = "open" <=> (k = 1 /\ loop # "none")
  /\ \A k \in DOMAIN s : s[k].type = "message" =>
       s[k].message = got[Cardinality(Of("message", k, s))]
  /\ Cardinality(Of("message", Len(s), s)) = Len(got) - (IF loop = "handed" THEN 1 ELSE 0)
  /\ Cardinality(Of("close", Len(s), s)) = 0

LEMMA UnclosedEvents ==
  ASSUME EventsKept, ~closeDispatched
  PROVE  Unclosed(events)
<1>1. \A k \in DOMAIN events : events[k].type = "message" =>
        events[k].message = got[Cardinality(Of("message", k, events))]
  BY DEF EventsKept, EventsHonest, OfType, Of
<1> QED BY <1>1, NoCloseYet, Counts DEF Unclosed, EventsKept, EventsHonest

LEMMA UnclosedError ==
  ASSUME ConnKept, EventsKept, ~closeDispatched
  PROVE  Unclosed(Append(events, Event("error")))
<1> DEFINE e == Event("error")
           s == Append(events, e)
<1>1. Unclosed(events) BY UnclosedEvents
<1>2. e \in Events /\ e.type = "error" BY EventsAre DEF Event
<1> HIDE DEF e
<1>3. Grown(events, e, s) BY <1>1, <1>2, OfAppend DEF Unclosed
<1> HIDE DEF s
<1>4. /\ s \in Seq(Events) /\ Len(s) = Len(events) + 1 /\ Len(events) \in Nat
      /\ DOMAIN events = 1 .. Len(events) /\ DOMAIN s = 1 .. Len(s)
      /\ s[Len(s)] = e /\ \A k \in 1 .. Len(events) : s[k] = events[k]
  BY <1>3 DEF Grown
<1>5. \A type : \A n \in 0 .. Len(events) : Of(type, n, s) = Of(type, n, events)
  BY <1>3 DEF Grown
<1>6. \A type : Cardinality(Of(type, Len(s), s))
                = Cardinality(Of(type, Len(events), events)) + (IF e.type = type THEN 1 ELSE 0)
  BY <1>3 DEF Grown
<1>7. \A type : Cardinality(Of(type, Len(events), events)) \in Nat BY <1>4, OfFinite
<1>8. /\ Cardinality(Of("message", Len(s), s)) = Len(got) - (IF loop = "handed" THEN 1 ELSE 0)
      /\ Cardinality(Of("close", Len(s), s)) = 0
  BY <1>1, <1>2, <1>6, <1>7, ConnLens DEF Unclosed
<1>9. ASSUME NEW k \in DOMAIN s
      PROVE  /\ s[k].type # "close" /\ (s[k].type = "open" <=> (k = 1 /\ loop # "none"))
             /\ s[k].type = "message" =>
                  s[k].message = got[Cardinality(Of("message", k, s))]
  <2>1. CASE k = Len(s)
    <3>1. loop # "none" => Len(events) # 0 BY EmptySeq DEF EventsKept
    <3> QED BY <1>2, <1>4, <2>1, <3>1
  <2>2. CASE k # Len(s)
    <3>1. k \in DOMAIN events /\ k \in 0 .. Len(events) /\ s[k] = events[k]
      BY <1>4, <2>2
    <3> QED BY <1>1, <1>5, <3>1 DEF Unclosed
  <2> QED BY <2>1, <2>2
<1>10. s # <<>> BY <1>4
<1> QED BY <1>4, <1>8, <1>9, <1>10 DEF Unclosed, s, e

\* The close event that tells the outcome.
Code  == IF info \in PeerCodes THEN info ELSE 1006
Clean == loop # "none" /\ info \in PeerCodes
Outcome == CloseEvent(Code, Clean)

LEMMA OutcomeIs ==
  ASSUME ConnKept
  PROVE  /\ Outcome \in Events /\ Outcome.type = "close"
         /\ Outcome.code = Code /\ (Outcome.clean <=> Clean)
<1> DEFINE b == Event("close")
<1>1. b \in Events /\ b.type = "close" BY EventsAre DEF Event
<1>2. Outcome = [b EXCEPT !.code = Code, !.clean = Clean] BY DEF Outcome, CloseEvent
<1>3. Clean \in BOOLEAN BY DEF Clean
<1>4. Code \in Int
  <2>1. PeerCodes \subseteq Int BY ShimAssumption DEF ShimAssumption
  <2>2. CASE info \in PeerCodes BY <2>1, <2>2 DEF Code
  <2>3. CASE info \notin PeerCodes BY <2>3 DEF Code
  <2> QED BY <2>2, <2>3
<1> HIDE DEF b
<1> QED BY <1>1, <1>2, <1>3, <1>4 DEF Events

\* The close event comes behind them.
LEMMA EventsClosed ==
  ASSUME ConnKept, FieldsKept', closeDispatched', UNCHANGED <<got, info, loop>>,
         NEW s, Unclosed(s), events' = Append(s, Outcome),
         Clean <=> (s = <<>> \/ s[Len(s)].type # "error")
  PROVE  EventsKept'
<1> DEFINE e == Outcome
<1>1. e \in Events /\ e.type = "close" /\ (e.clean <=> Clean) /\ e.code = Code
  BY OutcomeIs
<1> HIDE DEF e
<1>2. Grown(s, e, events') BY <1>1, OfAppend DEF Unclosed, e
<1>3. /\ events' \in Seq(Events) /\ Len(events') = Len(s) + 1 /\ Len(s) \in Nat
      /\ DOMAIN s = 1 .. Len(s) /\ DOMAIN events' = 1 .. Len(events')
      /\ events'[Len(events')] = e /\ \A k \in 1 .. Len(s) : events'[k] = s[k]
  BY <1>2 DEF Grown
<1>4. \A type : \A n \in 0 .. Len(s) : Of(type, n, events') = Of(type, n, s)
  BY <1>2 DEF Grown
<1>5. \A type : Cardinality(Of(type, Len(events'), events'))
                = Cardinality(Of(type, Len(s), s)) + (IF e.type = type THEN 1 ELSE 0)
  BY <1>2 DEF Grown
<1>6. \A type : Cardinality(Of(type, Len(s), s)) \in Nat BY <1>3, OfFinite
<1>7. /\ Count("message")' = Len(got') - (IF loop' = "handed" THEN 1 ELSE 0)
      /\ Count("close")' = 1
  BY <1>1, <1>5, <1>6, Counts, ConnLens DEF Unclosed
<1>8. ASSUME NEW k \in DOMAIN events'
      PROVE  /\ events'[k].type = "open" <=> (k = 1 /\ loop' # "none")
             /\ events'[k].type = "message" =>
                  events'[k].message = got'[Cardinality(OfType("message", k)')]
             /\ events'[k].type = "close" => k = Len(events')
  <2>1. CASE k = Len(events')
    <3>1. loop # "none" => Len(s) # 0 BY EmptySeq DEF Unclosed
    <3> QED BY <1>1, <1>3, <2>1, <3>1
  <2>2. CASE k # Len(events')
    <3>1. k \in DOMAIN s /\ k \in 0 .. Len(s) /\ events'[k] = s[k] BY <1>3, <2>2
    <3>2. OfType("message", k)' = Of("message", k, s) BY <1>4, <3>1 DEF OfType, Of
    <3> QED BY <3>1, <3>2 DEF Unclosed
  <2> QED BY <2>1, <2>2
<1>9. Clean <=> (Len(events') = 1 \/ events'[Len(events') - 1].type # "error")
  <2>1. CASE s = <<>>
    <3>1. Len(events') = 1 BY <1>3, <2>1
    <3> QED BY <2>1, <3>1
  <2>2. CASE s # <<>>
    <3>1. Len(s) # 0 BY <2>2, EmptySeq DEF Unclosed
    <3>2. Len(events') - 1 = Len(s) /\ Len(events') # 1 /\ Len(s) \in 1 .. Len(s)
      BY <1>3, <3>1
    <3>3. events'[Len(events') - 1] = s[Len(s)] BY <1>3, <3>2
    <3> QED BY <2>2, <3>2, <3>3
  <2> QED BY <2>1, <2>2
<1>10. ASSUME NEW k \in DOMAIN events', events'[k].type = "close"
       PROVE  /\ events'[k].clean <=> (loop' # "none" /\ info' \in PeerCodes)
              /\ events'[k].code = (IF info' \in PeerCodes THEN info' ELSE 1006)
              /\ events'[k].clean <=> (k = 1 \/ events'[k - 1].type # "error")
  <2>1. k = Len(events') BY <1>8, <1>10
  <2>2. (events'[k].clean <=> Clean) /\ events'[k].code = Code BY <1>1, <1>3, <2>1
  <2>3. Clean <=> (k = 1 \/ events'[k - 1].type # "error") BY <1>9, <2>1
  <2> QED BY <2>2, <2>3 DEF Clean, Code
<1>11. EventsHonest' BY <1>7, <1>8, <1>10 DEF EventsHonest, FieldsKept
<1>12. events' # <<>> BY <1>3
<1> QED BY <1>3, <1>11, <1>12 DEF EventsKept

LEMMA TwoBehind ==
  ASSUME NEW s \in Seq(Events), NEW a \in Events, NEW b \in Events
  PROVE  s \o <<a, b>> = Append(Append(s, a), b)
<1> DEFINE l == s \o <<a, b>>
           r == Append(Append(s, a), b)
<1>1. l \in Seq(Events) /\ r \in Seq(Events) /\ Len(l) = Len(r) OBVIOUS
<1>2. \A k \in 1 .. Len(l) : l[k] = r[k] OBVIOUS
<1> HIDE DEF l, r
<1>3. l = r BY <1>1, <1>2, SeqEqual
<1> QED BY <1>3 DEF l, r

LEMMA EventsFail ==
  ASSUME ConnKept, FieldsTyped, FieldsKept, EventsKept, [ShimNext]_vars, Fails
  PROVE  EventsKept'
<1> DEFINE s == Append(events, Event("error"))
<1>1. /\ FieldsKept' /\ ~closeDispatched /\ closeDispatched' /\ loop = "none"
      /\ UNCHANGED <<got, info, loop>> /\ info \notin PeerCodes
      /\ events' = events \o <<Event("error"), CloseEvent(1006, FALSE)>>
  <2>1. conn = "failed" BY DEF Fails
  <2>2. info = Unset BY <2>1 DEF ConnKept
  <2>3. info \notin PeerCodes BY <2>2, Marks DEF Infos
  <2>4. ~ws BY <2>1 DEF FieldsKept
  <2> QED BY <2>3, <2>4, FieldsStep DEF Fails, wsVars, FieldsKept, FieldsTyped
<1>2. Unclosed(s) BY <1>1, UnclosedError
<1>3. Code = 1006 /\ ~Clean BY <1>1 DEF Code, Clean
<1>4. CloseEvent(1006, FALSE) = Outcome
  <2> DEFINE code  == 1006
             clean == FALSE
  <2>1. code = Code /\ (clean <=> Clean) BY <1>3
  <2> HIDE DEF code, clean
  <2>2. CloseEvent(code, clean) = Outcome BY <2>1 DEF Outcome, CloseEvent
  <2> QED BY <2>2 DEF code, clean
<1>5. events \in Seq(Events) /\ Event("error") \in Events /\ Outcome \in Events
  BY EventsAre, OutcomeIs DEF EventsKept
<1>6. events' = events \o <<Event("error"), Outcome>> BY <1>1, <1>4
<1>7. events' = Append(s, Outcome) BY <1>5, <1>6, TwoBehind
<1>8. s # <<>> /\ s[Len(s)] = Event("error") BY <1>5, AppendProperties
<1>9. s[Len(s)].type = "error" BY <1>8 DEF Event
<1> HIDE DEF s
<1> QED BY <1>1, <1>2, <1>3, <1>7, <1>8, <1>9, EventsClosed

LEMMA EventsSettle ==
  ASSUME ConnKept, FieldsTyped, FieldsKept, EventsKept, [ShimNext]_vars, Settles
  PROVE  EventsKept'
<1> DEFINE code == IF info = NoFrame THEN 1006 ELSE info
           s == IF WasClean THEN events ELSE Append(events, Event("error"))
<1>1. /\ FieldsKept' /\ ~closeDispatched /\ closeDispatched' /\ ws
      /\ UNCHANGED <<got, info, loop>> /\ phase = "closed"
      /\ events' = events \o (IF WasClean THEN <<>> ELSE <<Event("error")>>)
                         \o <<CloseEvent(code, WasClean)>>
  <2>1. settle = "answered" /\ ws /\ ~closeDispatched BY DEF Settles, FieldsKept
  <2> QED BY <2>1, FieldsStep DEF Settles, wsVars, FieldsKept, FieldsTyped
<1>2. info \in Infos BY <1>1 DEF ConnKept
<1>3. /\ info \in PeerCodes <=> info # NoFrame
      /\ code = (IF info \in PeerCodes THEN info ELSE 1006) /\ code \in Int
  BY <1>2, Marks, ShimAssumption DEF Infos, ShimAssumption
<1>4. WasClean <=> Clean BY <1>1, <1>3 DEF WasClean, FieldsKept, Clean
<1>5. CloseEvent(code, WasClean) = Outcome
  <2>1. code = Code BY <1>3 DEF Code
  <2> HIDE DEF code
  <2> QED BY <1>4, <2>1 DEF Outcome, CloseEvent
<1>6. events \in Seq(Events) /\ Event("error") \in Events /\ Outcome \in Events
  BY EventsAre, OutcomeIs DEF EventsKept
<1>7. Unclosed(s) BY <1>1, UnclosedEvents, UnclosedError
<1>8. events' = Append(s, Outcome)
  <2>1. CASE WasClean
    <3>1. s = events BY <2>1
    <3> HIDE DEF code
    <3>2. events \o <<>> = events BY <1>6
    <3>3. events' = events \o <<Outcome>> BY <1>1, <1>5, <2>1, <3>2
    <3> HIDE DEF s, code
    <3> QED BY <1>6, <3>1, <3>3, AppendIsConcat
  <2>2. CASE ~WasClean
    <3>1. s = events \o <<Event("error")>> /\ s \in Seq(Events)
      BY <1>6, <2>2, AppendIsConcat, AppendProperties
    <3> HIDE DEF s
    <3> QED BY <1>1, <1>5, <1>6, <2>2, <3>1, AppendIsConcat
  <2> QED BY <2>1, <2>2
<1>9. WasClean <=> (s = <<>> \/ s[Len(s)].type # "error")
  <2>1. CASE WasClean
    <3>1. s = events BY <2>1
    <3>2. events # <<>> BY <1>4, <2>1 DEF EventsKept, Clean
    <3>3. Len(events) \in DOMAIN events BY <1>6, <3>2, EmptySeq, LenProperties
    <3>4. events[Len(events)].type # "error" BY <1>1, <3>3 DEF EventsKept
    <3> QED BY <2>1, <3>1, <3>4
  <2>2. CASE ~WasClean
    <3>1. s = Append(events, Event("error")) BY <2>2
    <3>2. s # <<>> /\ s[Len(s)] = Event("error") BY <1>6, <3>1, AppendProperties
    <3>3. s[Len(s)].type = "error" BY <3>2 DEF Event
    <3> QED BY <2>2, <3>2, <3>3
  <2> QED BY <2>1, <2>2
<1> HIDE DEF s, code
<1> QED BY <1>1, <1>4, <1>7, <1>8, <1>9, EventsClosed

LEMMA EventsStep ==
  ASSUME ConnKept, FieldsTyped, FieldsKept, EventsKept, [ShimNext]_vars
  PROVE  EventsKept'
<1>1. CASE \E p \in Payloads : Send(p) BY <1>1, EventsIdle DEF Send, wsVars
<1>2. ASSUME NEW c \in CloseCalls, Close(c) PROVE EventsKept'
  <2>1. UNCHANGED <<events, closeDispatched, loop, got>>
    BY <1>2 DEF Close, CloseUnderlying, Ws!LocalClose, wsVars
  <2> QED BY <2>1, EventsIdle
<1>3. CASE Opens \/ Fails \/ Dispatches \/ Settles
  BY <1>3, EventsOpen, EventsFail, EventsMessage, EventsSettle
<1>4. CASE ClosesAtOnce
  <2>1. UNCHANGED <<events, closeDispatched, loop, got>>
    BY <1>4 DEF ClosesAtOnce, CloseUnderlying, Ws!LocalClose, wsVars
  <2> QED BY <2>1, EventsIdle
<1>5. CASE Receives BY <1>5, EventsIdle DEF Receives, wsVars
<1>6. ASSUME NEW k \in DOMAIN queue,
             Proceeds(k) \/ SendAnswered(k)
      PROVE  EventsKept'
  <2>1. UNCHANGED <<events, closeDispatched, loop, got>>
    BY <1>6 DEF Proceeds, BlobIsRead, BlobFails, Passes, SendEnds, SendAnswered, shimVars, wsVars,
                Ws!Transmit
  <2> QED BY <2>1, EventsIdle
<1>7. CASE ConnectEnds \/ WaitClosedAnswered
  BY <1>7, EventsIdle DEF ConnectEnds, WaitClosedAnswered, shimVars, wsVars
<1>8. CASE ReceiveAnswered
  <2>1. /\ UNCHANGED <<events, closeDispatched, conn>> /\ loop = "pending"
        /\ loop' \in {"handed", "done"} /\ conn = "connected"
    BY <1>8 DEF ReceiveAnswered, shimVars, FieldsKept, FieldsTyped
  <2>2. CASE loop' = "done" /\ UNCHANGED wsVars BY <2>1, <2>2, EventsIdle DEF wsVars
  <2>3. CASE loop' = "handed" /\ (Ws!Take \/ (Ws!Pass /\ Len(got) < MaxMsgs))
    <3>1. Len(got') = Len(got) + 1 /\ \A k \in 1 .. Len(got) : got'[k] = got[k]
      BY <2>1, <2>3, ConnHands
    <3> QED BY <2>1, <2>3, <3>1, EventsIdle
  <2> QED BY <1>8, <2>2, <2>3 DEF ReceiveAnswered
<1>9. CASE ConnectionStep
  <2>1. UNCHANGED <<events, closeDispatched, loop, got>>
    BY <1>9 DEF ConnectionStep, Closing, Ws!Arrive, Ws!StartClosing, Ws!Publish, Ws!Settle,
                Ws!EndInbox, Ws!Finish, Ws!Transmit, shimVars
  <2> QED BY <2>1, EventsIdle
<1>10. CASE UNCHANGED vars BY <1>10, EventsIdle DEF vars, wsVars
<1> QED
  BY <1>1, <1>2, <1>3, <1>4, <1>5, <1>6, <1>7, <1>8, <1>9, <1>10 DEF ShimNext
-----------------------------------------------------------------------------
(***************************************************************************)
(* The theorems.                                                           *)
(***************************************************************************)

LEMMA KeptInit == ShimInit => Kept
<1> SUFFICES ASSUME ShimInit PROVE Kept
  OBVIOUS
<1>1. /\ phase = "open" /\ local = FALSE /\ ended = FALSE /\ info = Unset
      /\ inbox = <<>> /\ got = <<>>
  BY DEF ShimInit, Ws!CInit
<1>2. MaxMsgs \in Nat /\ MaxSends \in Nat /\ MaxDiscarded \in Nat
  BY ShimAssumption DEF ShimAssumption
<1>3. ConnKept
  <2>1. /\ Len(got) = 0 /\ DOMAIN got = {} /\ got \in Seq(Nat)
        /\ Len(inbox) = 0 /\ DOMAIN inbox = {} /\ inbox \in Seq(Nat)
    BY <1>1
  <2>2. conn # "connected" /\ loop = "none" BY DEF ShimInit
  <2>3. Len(got) + Len(inbox) =< MaxMsgs BY <1>2, <2>1
  <2>4. {local, ended} \subseteq BOOLEAN BY <1>1
  <2>5. /\ \A k \in DOMAIN got : got[k] = k
        /\ \A k \in DOMAIN inbox : inbox[k] = Len(got) + k
    BY <2>1
  <2>6. phase \in {"open", "closing", "closed"} /\ ~ended /\ phase # "closed" BY <1>1
  <2> QED BY <1>1, <2>1, <2>2, <2>3, <2>4, <2>5, <2>6, Zenon DEF ConnKept
<1>4. FieldsTyped /\ FieldsKept BY <1>1 DEF FieldsTyped, FieldsKept, ShimInit
<1>5. EventsKept
  <2>1. \A type : Of(type, 0, events) = {} BY DEF Of
  <2>2. \A type : Cardinality(Of(type, 0, events)) = 0 BY <2>1, FS_EmptySet
  <2>3. Len(events) = 0 /\ DOMAIN events = {} /\ events \in Seq(Events) BY DEF ShimInit
  <2>4. Count("message") = 0 /\ Count("close") = 0 BY <2>2, <2>3, Counts
  <2>5. Len(got) = 0 BY <1>1
  <2> QED BY <2>3, <2>4, <2>5 DEF EventsKept, EventsHonest, ShimInit
<1>6. ChainKept
  <2>1. queue = <<>> /\ passed = <<>> /\ unread = {} /\ accepted = 0 BY DEF ShimInit
  <2>2. /\ Len(queue) = 0 /\ DOMAIN queue = {} /\ queue \in Seq(Entries)
        /\ Len(passed) = 0 /\ DOMAIN passed = {} /\ passed \in Seq(Nat)
    BY <2>1
  <2>3. accepted \in 0 .. MaxSends BY <1>2, <2>1
  <2>4. Begun = 0
    <3>1. 0 = 0 - 0 + 0 OBVIOUS
    <3> QED BY <2>1, <2>2, <3>1, Zenon DEF Begun
  <2>5. PassedKept BY <2>1, <2>2, <2>4 DEF PassedKept
  <2> QED BY <2>2, <2>3, <2>5, Zenon DEF ChainKept
<1>7. BytesKept
  <2> DEFINE t == [k \in 0 .. 0 |-> 0]
  <2>1. Len(queue) = 0 BY DEF ShimInit
  <2>2. t \in [0 .. Len(queue) -> Int] /\ t[Len(queue)] = 0 BY <2>1
  <2>3. Sums(t, queue) BY <2>1 DEF Sums
  <2>4. discarded = 0 /\ buffered = t[Len(queue)] + discarded BY <2>2 DEF ShimInit
  <2> HIDE DEF t
  <2> QED BY <1>2, <2>2, <2>3, <2>4 DEF BytesKept
<1> QED BY <1>3, <1>4, <1>5, <1>6, <1>7 DEF Kept

\* Kept is inductive.
LEMMA KeptStep == Kept /\ [ShimNext]_vars => Kept'
BY ConnStep, FieldsStep, EventsStep, ChainStep DEF Kept

LEMMA Inductive == ShimSpec => []Kept
BY KeptInit, KeptStep, PTL DEF ShimSpec

\* The types, and bufferedAmount is what is on the chain and what was discarded.
THEOREM TypesHold == ShimSpec => []TypeOK
<1>1. ASSUME Kept PROVE TypeOK
  <2>1. buffered = QueuedBytes + discarded
    <3>1. PICK t \in [0 .. Len(queue) -> Int] :
                 Sums(t, queue) /\ buffered = t[Len(queue)] + discarded
      BY <1>1 DEF Kept, BytesKept
    <3> DEFINE u == CHOOSE v : Sums(v, queue)
    <3>2. Sums(u, queue) BY <3>1
    <3>3. QueuedBytes = u[Len(queue)] BY DEF QueuedBytes, Sums
    <3> HIDE DEF u
    <3>4. u[Len(queue)] = t[Len(queue)] BY <1>1, <3>1, <3>2, SumsUnique DEF Kept, ChainKept
    <3> QED BY <3>1, <3>3, <3>4
  <2>2. queue \in Seq([id : 1 .. MaxSends, size : Nat, blob : BOOLEAN, at : Places])
    BY <1>1 DEF Kept, ChainKept, Entries
  <2> QED BY <1>1, <2>1, <2>2 DEF Kept, FieldsTyped, EventsKept, ChainKept, TypeOK
<1> QED BY <1>1, Inductive, PTL

\* What the application is shown is what happened, in an order it can rely on.
THEOREM EventsAlwaysHonest == ShimSpec => []EventsHonest
<1>1. Kept => EventsHonest BY DEF Kept, EventsKept
<1> QED BY <1>1, Inductive, PTL

\* No send overtakes or repeats one, and none is lost but a Blob that could not be
\* read; what is on the chain comes after all that left it (#sendQueue).
THEOREM SendsAlwaysInOrder == ShimSpec => []SendsInOrder
<1>1. ASSUME Kept PROVE SendsInOrder
  <2>1. /\ queue \in Seq(Entries) /\ Len(queue) \in Nat /\ DOMAIN queue = 1 .. Len(queue)
        /\ accepted \in Nat
        /\ \A k \in DOMAIN queue : queue[k].id = accepted - Len(queue) + k
        /\ \A k \in DOMAIN queue : k # 1 => queue[k].at = "waiting"
        /\ PassedKept
    BY <1>1, LenProperties DEF Kept, ChainKept
  <2>2. ASSUME NEW k \in DOMAIN queue
        PROVE  /\ queue[k].at \in {"waiting", "reading"} <=> queue[k].id > Begun
               /\ queue[k].id \in 1 .. accepted
    <3>1. queue # <<>> /\ k \in Nat BY <2>1
    <3>2. queue[k].id = accepted - Len(queue) + k BY <2>1
    <3>3. queue[k].id \in 1 .. accepted
      <4>1. queue[k] \in Entries BY <2>1, ElementOfSeq
      <4> QED BY <2>1, <3>2, <4>1 DEF Entries
    <3>6. Begun = accepted - Len(queue)
                    + (IF queue[1].at \in {"waiting", "reading"} THEN 0 ELSE 1)
      BY <3>1 DEF Begun
    <3>4. CASE k = 1 BY <2>1, <3>2, <3>3, <3>4, <3>6
    <3>5. CASE k # 1 BY <2>1, <3>1, <3>2, <3>3, <3>5, <3>6
    <3> QED BY <3>3, <3>4, <3>5
  <2>3. ASSUME NEW n \in Begun + 1 .. accepted
        PROVE  n \in Ahead
    <3> DEFINE k == n - (accepted - Len(queue))
    <3>1. k \in DOMAIN queue /\ n > Begun BY <2>1 DEF Begun
    <3>2. queue[k].id = accepted - Len(queue) + k BY <2>1, <3>1
    <3>3. queue[k].id = n BY <2>1, <3>2
    <3>4. queue[k].at \in {"waiting", "reading"} BY <2>2, <3>1, <3>3
    <3> HIDE DEF k
    <3> QED BY <3>1, <3>3, <3>4 DEF Ahead
  <2>4. Begun \in Int /\ Begun =< accepted
    <3>1. queue # <<>> => Len(queue) > 0 BY <2>1, EmptySeq
    <3> QED BY <2>1, <3>1 DEF Begun
  <2>5. \A i \in Ahead : i \in 1 .. accepted /\ i > Begun BY <2>2 DEF Ahead
  <2>6. /\ \A j \in Range(passed) \cup unread : j \in 1 .. Begun
        /\ 1 .. Begun \subseteq Range(passed) \cup unread
        /\ Range(passed) \cap unread = {}
    <3>1. \A j : j \in Range(passed) <=> \E k \in DOMAIN passed : passed[k] = j
      BY DEF Range
    <3>2. /\ \A k \in DOMAIN passed : passed[k] \in 1 .. Begun
          /\ unread \subseteq 1 .. Begun
          /\ \A i \in 1 .. Begun : i \in unread <=> \A k \in DOMAIN passed : passed[k] # i
      BY <2>1 DEF PassedKept
    <3>3. \A j \in Range(passed) \cup unread : j \in 1 .. Begun BY <3>1, <3>2
    <3>4. 1 .. Begun \subseteq Range(passed) \cup unread BY <3>1, <3>2
    <3>5. Range(passed) \cap unread = {} BY <3>1, <3>2
    <3> QED BY <3>3, <3>4, <3>5
  <2>7. Range(passed) \cup unread \cup Ahead = 1 .. accepted
    BY <2>1, <2>3, <2>4, <2>5, <2>6
  <2>8. \A i \in Ahead : \A j \in Range(passed) \cup unread : j < i
    BY <2>4, <2>5, <2>6
  <2> QED BY <2>1, <2>6, <2>7, <2>8 DEF PassedKept, SendsInOrder
<1> QED BY <1>1, Inductive, PTL
-----------------------------------------------------------------------------
(***************************************************************************)
(* What the end of a close rests on.                                       *)
(***************************************************************************)

\* What waits for the connection is a close that the checks of close let through;
\* who has settled has dispatched the close.
AwaitedKept ==
  /\ EndIsAwaited
  /\ pendingClose # NoClose => Closable(pendingClose)
  /\ settle = "done" => closeDispatched

LEMMA CallsTyped == \A c \in CloseCalls : c.code \in Int /\ c.reasonLen \in Nat
<1>1. CloseCode \subseteq Int BY DEF CloseCode, NoCode, MaxCode
<1>2. \A c \in CloseCalls : c.code \in CloseCode /\ c.reasonLen \in Nat
  BY ShimAssumption DEF ShimAssumption
<1> QED BY <1>1, <1>2

\* A close that passed the checks is not refused: the connection is told of it.
LEMMA ToldOfClose ==
  ASSUME NEW c, c.code \in Int, c.reasonLen \in Nat, Closable(c), CloseUnderlying(c),
         local \in BOOLEAN
  PROVE  local' /\ UNCHANGED ended /\ (inbox = <<>> => inbox' = <<>>)
<1>1. CloseArgsValid(PassedCode(c), c.reasonLen)
  BY DEF Closable, PassedCode, CloseArgsValid, SendableCodes, MaxReasonBytes, NoCode
<1>2. CASE local BY <1>1, <1>2 DEF CloseUnderlying, wsVars
<1>3. CASE ~local BY <1>1, <1>3 DEF CloseUnderlying, Ws!LocalClose
<1> QED BY <1>2, <1>3

\* What the connection does by itself: what came is kept, and no more comes
\* behind the end.
LEMMA EndStays ==
  ASSUME ConnectionStep
  PROVE  UNCHANGED <<fields, queue, local>> /\ (ended => ended' /\ inbox' = inbox)
BY DEF ConnectionStep, Closing, Ws!Arrive, Ws!StartClosing, Ws!Publish, Ws!Settle,
       Ws!EndInbox, Ws!Finish, Ws!Transmit, fields, shimVars

\* AwaitedKept is inductive, given Kept.
LEMMA AwaitedStep == Kept /\ AwaitedKept /\ [ShimNext]_vars => AwaitedKept'
<1> SUFFICES ASSUME Kept, AwaitedKept, [ShimNext]_vars PROVE AwaitedKept'
  OBVIOUS
<1> USE DEF Kept, AwaitedKept, EndIsAwaited, Closable
<1>1. ConnKept /\ FieldsTyped /\ FieldsKept /\ local \in BOOLEAN BY DEF ConnKept
<1>2. CASE \E p \in Payloads : Send(p)
  BY <1>1, <1>2, SMTT(20) DEF Send, wsVars, FieldsTyped, FieldsKept
<1>3. ASSUME NEW c \in CloseCalls, Close(c) PROVE AwaitedKept'
  <2>1. c.code \in Int /\ c.reasonLen \in Nat BY CallsTyped
  <2>2. /\ ready' = "closing" /\ Closable(c)
        /\ UNCHANGED <<ws, closeDispatched, loop, settle, queue>>
    BY <1>3, SMTT(20) DEF Close, sendVars
  <2>3. CASE ready = "connecting" /\ pendingClose' = c /\ UNCHANGED wsVars
    <3>1. c # NoClose /\ ~ws BY <1>1, <2>3, Marks DEF FieldsKept
    <3> QED BY <2>2, <2>3, <3>1
  <2>4. CASE ready = "open" /\ CloseUnderlying(c) /\ UNCHANGED pendingClose
    <3>1. ws BY <1>1, <2>4 DEF FieldsKept, FieldsTyped
    <3>2. local' BY <1>1, <2>1, <2>2, <2>4, ToldOfClose
    <3> QED BY <2>2, <2>4, <3>1, <3>2
  <2>5. \/ ready = "connecting" /\ pendingClose' = c /\ UNCHANGED wsVars
        \/ ready = "open" /\ CloseUnderlying(c) /\ UNCHANGED pendingClose
    BY <1>3 DEF Close
  <2> HIDE DEF Kept, AwaitedKept, EndIsAwaited, Closable
  <2> QED BY <2>3, <2>4, <2>5
<1>4. CASE Opens BY <1>1, <1>4 DEF Opens, wsVars, sendVars, FieldsKept
<1>5. CASE ClosesAtOnce
  <2>1. /\ ws' /\ settle' = "waiting" /\ CloseUnderlying(pendingClose)
        /\ pendingClose # NoClose
        /\ UNCHANGED <<ready, pendingClose, closeDispatched, loop, queue>>
    BY <1>5 DEF ClosesAtOnce, sendVars
  <2>2. pendingClose.code \in Int /\ pendingClose.reasonLen \in Nat
    BY <1>1, <2>1, CallsTyped DEF FieldsTyped
  <2>3. local' BY <1>1, <2>1, <2>2, ToldOfClose
  <2> QED BY <2>1, <2>3
<1>6. CASE Fails
  <2>1. /\ ready' = "closed" /\ closeDispatched'
        /\ UNCHANGED <<ws, pendingClose, loop, settle, queue, local, ended, inbox>>
    BY <1>6 DEF Fails, wsVars, sendVars
  <2> QED BY <2>1
<1>7. CASE Receives BY <1>1, <1>7 DEF Receives, wsVars, sendVars, FieldsTyped
<1>8. CASE Dispatches BY <1>1, <1>8 DEF Dispatches, wsVars, sendVars, FieldsTyped
<1>9. CASE Settles
  <2>1. /\ ready' = "closed" /\ closeDispatched' /\ settle' = "done"
        /\ UNCHANGED <<ws, pendingClose, loop, queue, local, ended, inbox>>
    BY <1>9 DEF Settles, wsVars, sendVars
  <2> QED BY <2>1
<1>10. ASSUME NEW k \in DOMAIN queue,
              Proceeds(k) \/ SendAnswered(k)
       PROVE  AwaitedKept'
  <2>1. queue # <<>> BY <1>10
  <2>2. UNCHANGED <<fields, local, ended, inbox>>
    BY <1>10
       DEF Proceeds, BlobIsRead, BlobFails, Passes, SendEnds, SendAnswered, fields, shimVars,
           wsVars, Ws!Transmit
  <2> QED BY <2>1, <2>2 DEF fields
<1>11. CASE ConnectEnds BY <1>11 DEF ConnectEnds, shimVars, wsVars
<1>12. CASE ReceiveAnswered
  <2>1. /\ loop = "pending" /\ UNCHANGED <<ready, ws, pendingClose, closeDispatched, settle, queue>>
        /\ \/ loop' = "handed" /\ (Ws!Take \/ Ws!Pass)
           \/ (local \/ (ended /\ inbox = <<>>)) /\ loop' = "done" /\ UNCHANGED wsVars
    BY <1>12 DEF ReceiveAnswered, shimVars
  <2>2. UNCHANGED local BY <2>1 DEF Ws!Take, Ws!Pass, wsVars
  <2> QED BY <2>1, <2>2 DEF wsVars
<1>13. CASE WaitClosedAnswered BY <1>13 DEF WaitClosedAnswered, shimVars, wsVars
<1>14. CASE ConnectionStep BY <1>14, EndStays DEF fields
<1>15. CASE UNCHANGED vars BY <1>15 DEF vars, wsVars, sendVars
<1> HIDE DEF Kept, AwaitedKept, EndIsAwaited, Closable
<1> QED
  BY <1>2, <1>3, <1>4, <1>5, <1>6, <1>7, <1>8, <1>9, <1>10, <1>11, <1>12, <1>13, <1>14,
     <1>15 DEF ShimNext

\* An accepted close waits for the connection or was told to it, the class waits
\* for the end of its connection, and what is on the chain has one to answer it.
THEOREM EndIsAlwaysAwaited == ShimSpec => []EndIsAwaited
<1>1. ShimInit => AwaitedKept BY DEF ShimInit, AwaitedKept, EndIsAwaited
<1>2. AwaitedKept => EndIsAwaited BY DEF AwaitedKept
<1> QED BY <1>1, <1>2, Inductive, AwaitedStep, PTL DEF ShimSpec
=============================================================================
