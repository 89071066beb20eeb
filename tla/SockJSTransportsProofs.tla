----------------------- MODULE SockJSTransportsProofs -----------------------
(***************************************************************************)
(* Safety of the transports that talk to the server themselves, for any    *)
(* number of frames, polls and messages: whatever fails or comes late, the *)
(* frames are heard in order, what is sent arrives in order, and a closed  *)
(* transport stays closed.                                                 *)
(***************************************************************************)
EXTENDS SockJSTransports, SequenceLemmas

Rec ==
    [phase : {"scheduled", "open", "cut", "over"}, first : 0 .. MaxFrames + 2,
     pos : 0 .. MaxFrames + 1, listens : BOOLEAN,
     late : SUBSET {"network", "permanent", "user", "onerror"}, loading : BOOLEAN]

APost ==
    [msgs : Seq(1 .. MaxSends), phase : {"scheduled", "open", "over"},
     arrived : BOOLEAN, calls : BOOLEAN]

Transport ==
    [listens : BOOLEAN, heard : Seq(1 .. MaxFrames), told : 0 .. 1, closing : BOOLEAN,
     poll : Nat, receivers : Seq(Rec), sent : 0 .. MaxSends, buffer : Seq(1 .. MaxSends),
     stop : {"null", "wait", "abort"}, post : Nat, posts : Seq(APost)]

Session ==
    [frames : 0 .. MaxFrames, over : BOOLEAN, written : 0 .. 2 * (MaxFrames + 1),
     got : Seq(1 .. MaxSends)]

\* Of the receivers only the last may be polling; those before it are over.
InPhase(rec) ==
    /\ rec.phase = "scheduled" => rec.pos = 0 /\ (Ajax \/ kind = "htmlfile")
    /\ rec.late # {} => kind = "jsonp" \/ (kind = "eventsource" /\ rec.phase = "over")
    /\ rec.loading => kind \in {"htmlfile", "jsonp"}

PollCore(x) ==
    /\ x.receivers # <<>> /\ x.poll \in {0, Len(x.receivers)}
    /\ \A r \in DOMAIN x.receivers : InPhase(x.receivers[r])
    /\ IF kind = "websocket" THEN Len(x.receivers) = 1 /\ x.poll = 1
       ELSE \A r \in DOMAIN x.receivers : r # x.poll =>
              x.receivers[r].phase = "over" /\ ~x.receivers[r].listens

\* A transport that SockJS listens to has one, which Polling listens to, and has
\* let go of no response that is still loading.
PollInv(x) ==
    /\ PollCore(x)
    /\ x.listens => x.told = 0 /\ \A r \in DOMAIN x.receivers : ~x.receivers[r].loading
    /\ IF kind = "websocket" THEN x.listens <=> x.receivers[1].phase = "open"
       ELSE IF x.listens THEN x.poll # 0 /\ ~x.closing /\ x.receivers[x.poll].listens
            ELSE x.closing \/ x.poll = 0

\* Of the posts only the last may be under way, and it can be aborted until the
\* transport is closed.
Idle(x) == x.post = 0 \/ x.posts[x.post].phase = "over"

SenderCore(x) ==
    /\ x.post = Len(x.posts)
    /\ kind = "websocket" => x.post = 0 /\ x.stop = "null"
    /\ \A p \in DOMAIN x.posts :
         /\ p # x.post => x.posts[p].phase = "over"
         /\ x.posts[p].phase = "scheduled" => kind # "jsonp" /\ ~x.posts[p].arrived
         /\ kind # "jsonp" => x.posts[p].calls
         /\ p = x.post /\ ~x.posts[p].calls => x.stop = "null"
    /\ x.stop = "abort" <=> ~Idle(x) /\ x.stop # "null"

SenderInv(x) ==
    /\ SenderCore(x)
    /\ x.listens /\ x.stop = "null" => Idle(x) /\ (kind = "websocket" \/ x.buffer = <<>>)

\* What has arrived, what is under way and what waits, in this order, ...
Pending(x) == IF Idle(x) \/ x.posts[x.post].arrived THEN <<>> ELSE x.posts[x.post].msgs
Line(x, got) == (got \o Pending(x)) \o x.buffer

\* ... is all that was sent, unless the transport has been closed by a failure,
\* and then nothing more arrives.  A form may be lost.
Gone(x) == kind # "websocket" /\ x.stop = "null" /\ Idle(x)

OrderCore(x, got) ==
    IF kind = "jsonp" THEN Increasing(Line(x, got)) /\ AtMost(Line(x, got), x.sent)
    ELSE /\ got = FirstNumbers(Len(got))
         /\ Gone(x) \/ Line(x, got) = FirstNumbers(Len(Line(x, got)))

OrderInv(x, got) ==
    /\ OrderCore(x, got)
    /\ x.listens /\ kind # "jsonp" => Line(x, got) = FirstNumbers(x.sent)

\* What has been heard are the frames before the place where the response is read
\* on; a new response begins after what is written.
Made(s) == s.frames + (IF s.over THEN 1 ELSE 0)
ReadOn(rec) == rec.first + rec.pos

HearCore(x, s) ==
    /\ x.heard = FirstNumbers(Len(x.heard)) /\ Len(x.heard) <= s.frames
    /\ s.written <= 2 * Made(s)
    /\ IF Ajax
         THEN \A r \in DOMAIN x.receivers : x.receivers[r].phase = "open" =>
                x.receivers[r].first >= 1 /\ ReadOn(x.receivers[r]) - 1 <= s.written \div 2
         ELSE s.written % 2 = 0

HearInv(x, s) ==
    /\ HearCore(x, s)
    /\ x.listens =>
         IF Ajax
           THEN \A r \in DOMAIN x.receivers :
                  /\ x.receivers[r].phase = "open" => Len(x.heard) = ReadOn(x.receivers[r]) - 1
                  /\ x.receivers[r].phase = "scheduled" => Len(x.heard) = s.written \div 2
           ELSE 2 * Len(x.heard) = s.written \/ (s.over /\ s.written = 2 * s.frames)

Good(x, s) ==
    /\ x \in Transport
    /\ PollInv(x) /\ SenderInv(x) /\ OrderInv(x, s.got) /\ HearInv(x, s)

\* The inductive invariant.
IInv == kind \in Kinds /\ srv \in Session /\ Good(t, srv)

-----------------------------------------------------------------------------
(* What changes of a transport, and what does not *)

SameSender(x, y) ==
    /\ y.sent = x.sent /\ y.buffer = x.buffer
    /\ y.stop = x.stop /\ y.post = x.post /\ y.posts = x.posts

SameReceiving(x, y) == y.closing = x.closing /\ y.poll = x.poll /\ y.receivers = x.receivers

SameForSockJS(x, y) == y.listens = x.listens /\ y.heard = x.heard /\ y.told = x.told

\* The sender's part of the invariant says nothing of receivers.
LEMMA SenderKept ==
    ASSUME NEW x, NEW y, SameSender(x, y), y.listens => x.listens
    PROVE  /\ SenderCore(x) => SenderCore(y)
           /\ SenderInv(x) => SenderInv(y)
           /\ \A got : OrderCore(x, got) => OrderCore(y, got)
           /\ \A got : OrderInv(x, got) => OrderInv(y, got)
<1>1. Idle(y) = Idle(x)
  BY DEF SameSender, Idle
<1>2. Pending(y) = Pending(x)
  BY <1>1 DEF SameSender, Pending
<1>3. Gone(y) = Gone(x) /\ \A got : Line(y, got) = Line(x, got)
  BY <1>1, <1>2 DEF SameSender, Gone, Line
<1>4. SenderCore(x) => SenderCore(y)
  BY <1>1 DEF SameSender, SenderCore
<1>5. \A got : OrderCore(x, got) => OrderCore(y, got)
  BY <1>3 DEF OrderCore, SameSender
<1>6. SenderInv(x) => SenderInv(y)
  BY <1>1, <1>4 DEF SenderInv, SameSender
<1>7. \A got : OrderInv(x, got) => OrderInv(y, got)
  BY <1>3, <1>5 DEF OrderInv, SameSender
<1> QED
  BY <1>4, <1>5, <1>6, <1>7

\* One receiver is replaced.
ReceiverReplaced(x, y, r, rec) ==
    /\ y \in Transport
    /\ Len(y.receivers) = Len(x.receivers) /\ DOMAIN y.receivers = DOMAIN x.receivers
    /\ \A j \in DOMAIN x.receivers : y.receivers[j] = IF j = r THEN rec ELSE x.receivers[j]
    /\ y.poll = x.poll /\ y.closing = x.closing
    /\ SameSender(x, y) /\ SameForSockJS(x, y)

LEMMA WithReceiver ==
    ASSUME NEW x \in Transport, NEW r \in DOMAIN x.receivers, NEW rec \in Rec
    PROVE  ReceiverReplaced(x, withReceiver(x, r, rec), r, rec)
<1> DEFINE old == x.receivers
           q == SetElement(old, r, rec)
           y == withReceiver(x, r, rec)
<1>1. old \in Seq(Rec) /\ r \in DOMAIN old /\ rec \in Rec
  BY DEF Transport
<1> HIDE DEF old
<1>2. /\ q \in Seq(Rec) /\ Len(q) = Len(old) /\ DOMAIN q = DOMAIN old
      /\ \A j \in DOMAIN old : q[j] = IF j = r THEN rec ELSE old[j]
  BY ONLY <1>1, ElementSet, SMTT(20)
<1>3. y = [x EXCEPT !.receivers = q]
  BY DEF withReceiver, SetElement, old
<1> HIDE DEF q, y
<1>4. y \in Transport /\ y.receivers = q /\ y.poll = x.poll /\ y.closing = x.closing
  BY <1>2, <1>3 DEF Transport
<1>5. SameSender(x, y) /\ SameForSockJS(x, y)
  BY <1>3 DEF Transport, SameSender, SameForSockJS
<1>6. ReceiverReplaced(x, y, r, rec)
  BY <1>2, <1>4, <1>5 DEF ReceiverReplaced, old
<1> QED
  BY <1>6 DEF y

\* A receiver of a transport.
LEMMA ReceiverTypes ==
    ASSUME NEW x \in Transport
    PROVE  /\ Len(x.receivers) \in Nat /\ DOMAIN x.receivers = 1 .. Len(x.receivers)
           /\ \A r \in DOMAIN x.receivers : x.receivers[r] \in Rec
<1>1. x.receivers \in Seq(Rec)
  BY DEF Transport
<1> QED
  BY <1>1, LenProperties, ElementOfSeq

LEMMA PostTypes ==
    ASSUME NEW x \in Transport
    PROVE  /\ Len(x.posts) \in Nat /\ DOMAIN x.posts = 1 .. Len(x.posts)
           /\ \A p \in DOMAIN x.posts : x.posts[p] \in APost
<1>1. x.posts \in Seq(APost)
  BY DEF Transport
<1> QED
  BY <1>1, LenProperties, ElementOfSeq

-----------------------------------------------------------------------------
(* Closing *)

\* Aborting leaves the receiver over, or before its first task.
Aborted(rec, rec2) ==
    /\ rec2 \in Rec /\ InPhase(rec2)
    /\ rec2.phase \in {"scheduled", "over"}
    /\ rec2.phase = "scheduled" => rec.phase = "scheduled"

LEMMA AbortingReceiver ==
    ASSUME NEW x \in Transport, kind \in Kinds, kind # "websocket", NEW r \in DOMAIN x.receivers,
           InPhase(x.receivers[r])
    PROVE  \E rec \in Rec : /\ Aborted(x.receivers[r], rec)
                            /\ ReceiverReplaced(x, abortReceiver(x, r), r, rec)
<1> DEFINE old == x.receivers[r]
<1>1. old \in Rec
  BY ReceiverTypes
<1>2. kind \in {"xhr", "xdr", "eventsource", "htmlfile", "jsonp"}
  BY TransportsAssumption
<1>3. CASE Ajax
  <2> DEFINE rec == [old EXCEPT !.listens = FALSE, !.phase = IF @ = "scheduled" THEN @ ELSE "over"]
  <2>1. rec \in Rec /\ Aborted(old, rec)
    BY <1>1, <1>3 DEF Rec, Aborted, InPhase, Ajax
  <2>2. abortReceiver(x, r) = withReceiver(x, r, rec)
    BY <1>3 DEF abortReceiver, abortXhr, Ajax
  <2> HIDE DEF rec
  <2> QED
    BY <2>1, <2>2, WithReceiver
<1>4. CASE kind = "eventsource"
  <2> DEFINE rec == [old EXCEPT !.phase = "over", !.late = @ \cup {"user"}]
  <2>1. rec \in Rec /\ Aborted(old, rec)
    BY <1>1, <1>4 DEF Rec, Aborted, InPhase, Ajax
  <2>2. abortReceiver(x, r) = withReceiver(x, r, rec)
    BY <1>4 DEF abortReceiver, abortEventSource, Ajax
  <2> HIDE DEF rec
  <2> QED
    BY <2>1, <2>2, WithReceiver
<1> DEFINE silenced == [old EXCEPT !.loading = @ \/ old.phase # "over", !.phase = "over",
                                   !.listens = FALSE]
<1>5. CASE kind \in {"htmlfile", "jsonp"}
  <2>1. silenced \in Rec /\ Aborted(old, silenced)
    BY <1>1, <1>5 DEF Rec, Aborted, InPhase, Ajax
  <2>2. abortHtmlfile(x, r) = withReceiver(x, r, silenced)
    BY DEF abortHtmlfile
  <2> HIDE DEF silenced
  <2>3. ReceiverReplaced(x, abortHtmlfile(x, r), r, silenced)
    BY <2>1, <2>2, WithReceiver
  <2>4. CASE abortReceiver(x, r) = abortHtmlfile(x, r)
    BY <2>1, <2>3, <2>4
  <2>5. CASE kind = "jsonp" /\ old.phase = "over"
    <3>1. abortReceiver(x, r) = x
      BY <2>5 DEF abortReceiver, abortJsonp, Ajax
    <3>2. ReceiverReplaced(x, x, r, old)
      BY DEF ReceiverReplaced, SameSender, SameForSockJS
    <3>3. Aborted(old, old)
      BY <1>1, <2>5 DEF Aborted
    <3> QED
      BY <1>1, <3>1, <3>2, <3>3
  <2> QED
    BY <1>5, <2>4, <2>5 DEF abortReceiver, abortJsonp, Ajax
<1> QED
  BY <1>2, <1>3, <1>4, <1>5 DEF Ajax

\* What closing a transport does.
NoneOpen(x) ==
    /\ \A r \in DOMAIN x.receivers : x.receivers[r].phase # "open"
    /\ kind # "jsonp" => \A p \in DOMAIN x.posts : x.posts[p].phase # "open"

Closes(x, y) ==
    /\ y \in Transport /\ ~y.listens /\ PollInv(y) /\ SenderInv(y)
    /\ Len(y.receivers) = Len(x.receivers) /\ DOMAIN y.receivers = DOMAIN x.receivers
    /\ \A r \in DOMAIN x.receivers :
         /\ y.receivers[r].phase = "open" => y.receivers[r] = x.receivers[r]
         /\ x.receivers[r].phase = "over" => y.receivers[r].phase = "over"
         /\ r # x.poll => y.receivers[r] = x.receivers[r]
    /\ \A got : OrderCore(x, got) => OrderInv(y, got)

\* A transport whose closing can abort everything.
Closable(x) == kind # "websocket" => ~x.closing /\ (x.stop = "null" => Idle(x))

\* One post is replaced.
PostReplaced(x, y, p, post) ==
    /\ y \in Transport
    /\ Len(y.posts) = Len(x.posts) /\ DOMAIN y.posts = DOMAIN x.posts
    /\ \A j \in DOMAIN x.posts : y.posts[j] = IF j = p THEN post ELSE x.posts[j]
    /\ y.sent = x.sent /\ y.buffer = x.buffer /\ y.stop = x.stop /\ y.post = x.post
    /\ SameReceiving(x, y) /\ SameForSockJS(x, y)

LEMMA WithPost ==
    ASSUME NEW x \in Transport, NEW p \in DOMAIN x.posts, NEW post \in APost
    PROVE  PostReplaced(x, [x EXCEPT !.posts[p] = post], p, post)
<1> DEFINE old == x.posts
           q == SetElement(old, p, post)
           y == [x EXCEPT !.posts[p] = post]
<1>1. old \in Seq(APost) /\ p \in DOMAIN old /\ post \in APost
  BY DEF Transport
<1> HIDE DEF old
<1>2. /\ q \in Seq(APost) /\ Len(q) = Len(old) /\ DOMAIN q = DOMAIN old
      /\ \A j \in DOMAIN old : q[j] = IF j = p THEN post ELSE old[j]
  BY ONLY <1>1, ElementSet, SMTT(20)
<1>3. y = [x EXCEPT !.posts = q]
  BY DEF SetElement, old
<1> HIDE DEF q, y
<1>4. /\ y \in Transport /\ y.posts = q
      /\ y.sent = x.sent /\ y.buffer = x.buffer /\ y.stop = x.stop /\ y.post = x.post
  BY <1>2, <1>3 DEF Transport
<1>5. SameReceiving(x, y) /\ SameForSockJS(x, y)
  BY <1>3 DEF Transport, SameReceiving, SameForSockJS
<1>6. PostReplaced(x, y, p, post)
  BY <1>2, <1>4, <1>5 DEF PostReplaced, old
<1> QED
  BY <1>6 DEF y

\* The sender stops: a timer is cleared, or a post aborted if it can be.
Stops(x, y) ==
    /\ y \in Transport /\ y.stop = "null" /\ SenderCore(y)
    /\ SameReceiving(x, y) /\ SameForSockJS(x, y)
    /\ \A got : OrderCore(x, got) => OrderCore(y, got)
    /\ kind # "jsonp" /\ (x.stop = "null" => Idle(x)) =>
         \A p \in DOMAIN y.posts : y.posts[p].phase # "open"

LEMMA Stopping ==
    ASSUME NEW x \in Transport, kind \in Kinds, kind # "websocket", SenderCore(x)
    PROVE  Stops(x, stopSending(x))
<1> DEFINE z == [x EXCEPT !.stop = "null"]
<1>1. /\ z \in Transport /\ z.stop = "null" /\ SameReceiving(x, z) /\ SameForSockJS(x, z)
      /\ z.sent = x.sent /\ z.buffer = x.buffer /\ z.post = x.post /\ z.posts = x.posts
  BY DEF Transport, SameReceiving, SameForSockJS
<1>2. /\ Len(x.posts) \in Nat /\ DOMAIN x.posts = 1 .. Len(x.posts)
      /\ \A p \in DOMAIN x.posts : x.posts[p] \in APost
  BY PostTypes
<1> HIDE DEF z
<1>3. CASE x.stop # "abort"
  <2>1. stopSending(x) = z
    BY <1>3 DEF stopSending, z
  <2>2. Idle(z) = Idle(x) /\ Pending(z) = Pending(x)
    BY <1>1 DEF Idle, Pending
  <2>3. Idle(x) \/ x.stop = "null"
    BY <1>3 DEF SenderCore
  <2>4. SenderCore(z)
    BY <1>1, <1>3, <2>2, <2>3 DEF SenderCore
  <2>5. \A got : Line(z, got) = Line(x, got)
    BY <1>1, <2>2 DEF Line
  <2>6. Gone(x) => Gone(z)
    BY <1>1, <2>2 DEF Gone
  <2>7. \A got : OrderCore(x, got) => OrderCore(z, got)
    BY <1>1, <2>5, <2>6 DEF OrderCore
  <2>8. (x.stop = "null" => Idle(x)) => \A p \in DOMAIN z.posts : z.posts[p].phase # "open"
    BY <1>1, <1>2, <2>3 DEF SenderCore, Idle
  <2> QED
    BY <1>1, <2>1, <2>4, <2>7, <2>8 DEF Stops
<1>4. CASE x.stop = "abort"
  <2> DEFINE p == x.post
             old == x.posts[p]
  <2>1. ~Idle(x) /\ p \in DOMAIN x.posts /\ old \in APost /\ old.phase # "over"
    BY <1>2, <1>4 DEF SenderCore, Idle
  <2>2. CASE kind = "jsonp"
    <3> DEFINE post == [old EXCEPT !.calls = FALSE]
               y == [z EXCEPT !.posts[p] = post]
    <3>1. /\ post \in APost /\ post.phase = old.phase /\ post.arrived = old.arrived
          /\ post.msgs = old.msgs /\ post.calls = FALSE
      BY <2>1 DEF APost
    <3>2. stopSending(x) = y
      BY <1>1, <1>4, <2>2 DEF stopSending, abortForm, z
    <3>3. PostReplaced(z, y, p, post)
      BY <1>1, <2>1, <3>1, WithPost
    <3> HIDE DEF post, y
    <3>4. Idle(y) = Idle(x) /\ Pending(y) = Pending(x)
      BY <1>1, <2>1, <3>1, <3>3 DEF PostReplaced, Idle, Pending
    <3>5. SenderCore(y)
      BY <1>1, <1>2, <1>4, <2>1, <2>2, <3>1, <3>3, <3>4 DEF SenderCore, PostReplaced
    <3>6. \A got : Line(y, got) = Line(x, got)
      BY <1>1, <3>3, <3>4 DEF Line, PostReplaced
    <3>7. \A got : OrderCore(x, got) => OrderCore(y, got)
      BY <1>1, <2>2, <3>3, <3>6 DEF OrderCore, PostReplaced
    <3> QED
      BY <1>1, <2>2, <3>2, <3>3, <3>5, <3>7 DEF Stops, PostReplaced, SameReceiving, SameForSockJS
  <2>3. CASE kind # "jsonp"
    <3> DEFINE post == [old EXCEPT !.phase = IF @ = "scheduled" THEN @ ELSE "over"]
               y == [z EXCEPT !.posts[p] = post]
    <3>1. /\ post \in APost /\ post.arrived = old.arrived
          /\ post.msgs = old.msgs /\ post.calls = old.calls
          /\ post.phase = IF old.phase = "scheduled" THEN "scheduled" ELSE "over"
      BY <2>1 DEF APost
    <3>2. stopSending(x) = y
      BY <1>1, <1>4, <2>3 DEF stopSending, abortAjax, z
    <3>3. PostReplaced(z, y, p, post)
      BY <1>1, <2>1, <3>1, WithPost
    <3> HIDE DEF post, y
    <3>4. SenderCore(y)
      BY <1>1, <1>2, <1>4, <2>1, <2>3, <3>1, <3>3 DEF SenderCore, PostReplaced, Idle
    <3>5. ASSUME NEW got, OrderCore(x, got) PROVE OrderCore(y, got)
      <4>1. CASE old.phase = "scheduled"
        <5>1. Idle(y) = Idle(x) /\ Pending(y) = Pending(x)
          BY <1>1, <2>1, <3>1, <3>3, <4>1 DEF PostReplaced, Idle, Pending
        <5>2. Line(y, got) = Line(x, got)
          BY <1>1, <3>3, <5>1 DEF Line, PostReplaced
        <5> QED
          BY <1>1, <1>4, <2>3, <3>3, <3>5, <5>2 DEF OrderCore, PostReplaced, Gone
      <4>2. CASE old.phase # "scheduled"
        <5>1. Idle(y)
          BY <1>1, <2>1, <3>1, <3>3, <4>2 DEF PostReplaced, Idle
        <5>2. Gone(y)
          BY <1>1, <2>3, <3>3, <5>1 DEF PostReplaced, Gone
        <5> QED
          BY <2>3, <3>5, <5>2 DEF OrderCore
      <4> QED
        BY <4>1, <4>2
    <3>6. \A q \in DOMAIN y.posts : y.posts[q].phase # "open"
      BY <1>1, <2>1, <3>1, <3>3 DEF PostReplaced, SenderCore
    <3> QED
      BY <1>1, <2>3, <3>2, <3>3, <3>4, <3>5, <3>6
      DEF Stops, PostReplaced, SameReceiving, SameForSockJS
  <2> QED
    BY <2>2, <2>3
<1> QED
  BY <1>3, <1>4

\* Polling is left alone.
LEMMA PollingKept ==
    ASSUME NEW x, NEW y, SameReceiving(x, y)
    PROVE  PollCore(x) => PollCore(y)
BY DEF SameReceiving, PollCore

\* close, when SockJS does not listen any more.
LEMMA ClosingPolling ==
    ASSUME NEW x \in Transport, kind \in Kinds, kind # "websocket", PollCore(x), SenderCore(x),
           ~x.listens, NEW y, y = abortPolling(x)
    PROVE  /\ Closes(x, y) /\ y.heard = x.heard /\ y.told = x.told /\ SameSender(x, y)
           /\ ~x.closing => \A r \in DOMAIN y.receivers : y.receivers[r].phase # "open"
<1>1. /\ Len(x.receivers) \in Nat /\ DOMAIN x.receivers = 1 .. Len(x.receivers)
      /\ \A r \in DOMAIN x.receivers : x.receivers[r] \in Rec
  BY ReceiverTypes
<1>2. CASE x.closing \/ x.poll = 0
  <2>1. y = x
    BY <1>2 DEF abortPolling
  <2>2. PollInv(x) /\ SenderInv(x)
    BY <1>2 DEF PollInv, SenderInv
  <2>3. \A got : OrderCore(x, got) => OrderInv(x, got)
    BY DEF OrderInv
  <2>4. Closes(x, x)
    BY <2>2, <2>3 DEF Closes
  <2>5. ~x.closing => \A r \in DOMAIN x.receivers : x.receivers[r].phase # "open"
    BY <1>1, <1>2 DEF PollCore
  <2> QED
    BY <2>1, <2>4, <2>5 DEF SameSender
<1>3. CASE ~x.closing /\ x.poll # 0
  <2> DEFINE r == x.poll
             z == [x EXCEPT !.closing = TRUE]
  <2>1. /\ z \in Transport /\ z.closing = TRUE /\ z.receivers = x.receivers /\ z.poll = x.poll
        /\ SameSender(x, z) /\ SameForSockJS(x, z)
    BY DEF Transport, SameSender, SameForSockJS
  <2>2. y = abortReceiver(z, r)
    BY <1>3 DEF abortPolling
  <2> HIDE DEF z
  <2>3. r \in DOMAIN z.receivers /\ InPhase(z.receivers[r]) /\ r = Len(x.receivers)
    BY <1>1, <1>3, <2>1 DEF PollCore
  <2>4. PICK rec \in Rec : Aborted(z.receivers[r], rec) /\ ReceiverReplaced(z, y, r, rec)
    BY <2>1, <2>2, <2>3, AbortingReceiver
  <2>5. /\ y \in Transport /\ y.closing /\ y.poll = x.poll /\ SameForSockJS(x, y) /\ SameSender(x, y)
        /\ Len(y.receivers) = Len(x.receivers) /\ DOMAIN y.receivers = DOMAIN x.receivers
        /\ \A j \in DOMAIN x.receivers : y.receivers[j] = IF j = r THEN rec ELSE x.receivers[j]
    BY <2>1, <2>4 DEF ReceiverReplaced, SameForSockJS, SameSender
  <2>6. PollCore(y)
    <3>1. y.receivers # <<>>
      BY <1>1, <1>3, <2>3, <2>5
    <3>2. \A j \in DOMAIN y.receivers : InPhase(y.receivers[j])
      BY <2>4, <2>5 DEF PollCore, Aborted
    <3> QED
      BY <2>5, <3>1, <3>2 DEF PollCore
  <2>7. PollInv(y)
    BY <2>5, <2>6 DEF PollInv, SameForSockJS
  <2>8. SenderInv(y) /\ \A got : OrderCore(x, got) => OrderInv(y, got)
    <3>1. ~y.listens /\ SenderCore(y) /\ \A got : OrderCore(x, got) => OrderCore(y, got)
      BY <2>5, SenderKept DEF SameForSockJS
    <3> QED
      BY <3>1 DEF SenderInv, OrderInv
  <2>9. \A j \in DOMAIN x.receivers :
          /\ y.receivers[j].phase # "open"
          /\ x.receivers[j].phase = "over" => y.receivers[j].phase = "over"
    BY <2>1, <2>3, <2>4, <2>5 DEF Aborted, PollCore
  <2>10. Closes(x, y)
    BY <2>5, <2>7, <2>8, <2>9 DEF Closes, SameForSockJS
  <2> QED
    BY <2>5, <2>9, <2>10 DEF SameForSockJS
<1> QED
  BY <1>2, <1>3

LEMMA ClosingWebSocket ==
    ASSUME NEW x \in Transport, kind = "websocket", PollCore(x), SenderCore(x),
           NEW y, y = closeWebSocket(x)
    PROVE  Closes(x, y) /\ y.heard = x.heard /\ y.told = x.told /\ NoneOpen(y)
<1> DEFINE z == [x EXCEPT !.listens = FALSE]
           rec == [x.receivers[1] EXCEPT !.phase = "over"]
<1>1. /\ z \in Transport /\ z.listens = FALSE /\ z.heard = x.heard /\ z.told = x.told
      /\ SameReceiving(x, z) /\ SameSender(x, z)
  BY DEF Transport, SameReceiving, SameSender
<1>2. DOMAIN x.receivers = {1} /\ Len(x.receivers) = 1 /\ x.receivers[1] \in Rec
  <2>1. DOMAIN x.receivers = 1 .. Len(x.receivers) /\ Len(x.receivers) = 1
    BY ReceiverTypes DEF PollCore
  <2>2. DOMAIN x.receivers = {1}
    BY <2>1
  <2> QED
    BY <2>1, <2>2, ReceiverTypes
<1>3. rec \in Rec /\ InPhase(rec) /\ rec.phase = "over"
  BY <1>2 DEF Rec, PollCore, InPhase
<1>4. y = withReceiver(z, 1, rec)
  BY DEF closeWebSocket, withReceiver
<1> HIDE DEF z, rec
<1>5. ReceiverReplaced(z, y, 1, rec)
  BY <1>1, <1>2, <1>3, <1>4, WithReceiver DEF SameReceiving
<1>6. /\ y \in Transport /\ ~y.listens /\ y.heard = x.heard /\ y.told = x.told /\ y.poll = x.poll
      /\ Len(y.receivers) = 1 /\ DOMAIN y.receivers = {1} /\ y.receivers[1] = rec
      /\ SameSender(x, y)
  BY <1>1, <1>2, <1>5 DEF ReceiverReplaced, SameReceiving, SameSender, SameForSockJS
<1>7. PollInv(y)
  <2>1. y.receivers # <<>>
    BY <1>6
  <2>2. PollCore(y)
    BY <1>3, <1>6, <2>1 DEF PollCore
  <2> QED
    BY <1>3, <1>6, <2>2 DEF PollInv
<1>8. SenderInv(y) /\ \A got : OrderCore(x, got) => OrderInv(y, got)
  <2>1. SenderCore(y) /\ \A got : OrderCore(x, got) => OrderCore(y, got)
    BY <1>6, SenderKept
  <2> QED
    BY <1>6, <2>1 DEF SenderInv, OrderInv
<1>9. Closes(x, y)
  BY <1>2, <1>3, <1>6, <1>7, <1>8 DEF Closes, PollCore
<1>10. NoneOpen(y)
  <2>1. Len(y.posts) = 0
    BY <1>6 DEF SenderCore, SameSender
  <2>2. DOMAIN y.posts = {}
    BY <1>6, <2>1, PostTypes
  <2> QED
    BY <1>3, <1>6, <2>2 DEF NoneOpen
<1> QED
  BY <1>6, <1>9, <1>10

LEMMA Closing ==
    ASSUME NEW x \in Transport, kind \in Kinds, PollCore(x), SenderCore(x),
           NEW y, y = close(x)
    PROVE  /\ Closes(x, y) /\ y.heard = x.heard /\ y.told = x.told
           /\ Closable(x) => NoneOpen(y)
<1>1. CASE kind = "websocket"
  BY <1>1, ClosingWebSocket DEF close
<1>2. CASE kind # "websocket"
  <2> DEFINE a == [x EXCEPT !.listens = FALSE]
             b == stopSending(a)
  <2>1. /\ a \in Transport /\ a.listens = FALSE /\ a.heard = x.heard /\ a.told = x.told
        /\ SameReceiving(x, a) /\ SameSender(x, a)
    BY DEF Transport, SameReceiving, SameSender
  <2>2. y = abortPolling(b)
    BY <1>2 DEF close
  <2> HIDE DEF a
  <2>3. SenderCore(a) /\ \A got : OrderCore(x, got) => OrderCore(a, got)
    BY <2>1, SenderKept
  <2>4. Stops(a, b)
    BY <1>2, <2>1, <2>3, Stopping
  <2> HIDE DEF b
  <2>5. PollCore(b)
    BY <2>1, <2>4, PollingKept DEF Stops
  <2>6. /\ b \in Transport /\ ~b.listens /\ SenderCore(b) /\ b.heard = x.heard /\ b.told = x.told
        /\ b.receivers = x.receivers /\ b.poll = x.poll /\ b.closing = x.closing
    BY <2>1, <2>4 DEF Stops, SameForSockJS, SameReceiving
  <2>7. /\ Closes(b, y) /\ y.heard = b.heard /\ y.told = b.told /\ SameSender(b, y)
        /\ ~b.closing => \A r \in DOMAIN y.receivers : y.receivers[r].phase # "open"
    BY <1>2, <2>2, <2>5, <2>6, ClosingPolling
  <2>8. \A got : OrderCore(x, got) => OrderInv(y, got)
    BY <2>3, <2>4, <2>7 DEF Stops, Closes
  <2>9. Closes(x, y)
    BY <2>6, <2>7, <2>8 DEF Closes
  <2>10. Closable(x) => NoneOpen(y)
    <3>1. Closable(x) => ~b.closing /\ (a.stop = "null" => Idle(a))
      BY <1>2, <2>1, <2>6 DEF Closable, SameSender, Idle
    <3>2. y.posts = b.posts
      BY <2>7 DEF SameSender
    <3> QED
      BY <2>4, <2>7, <3>1, <3>2 DEF Stops, NoneOpen
  <2> QED
    BY <2>6, <2>7, <2>9, <2>10
<1> QED
  BY <1>1, <1>2

\* SockJS is told only if it listens.
LEMMA ClosingItself ==
    ASSUME NEW x \in Transport, kind \in Kinds, PollCore(x), SenderCore(x),
           x.listens => x.told = 0, NEW y, y = emitClose(x)
    PROVE  /\ Closes(x, y) /\ y.heard = x.heard /\ (Closable(x) => NoneOpen(y))
           /\ y.told = x.told + (IF x.listens THEN 1 ELSE 0)
<1> DEFINE told == x.told + (IF x.listens THEN 1 ELSE 0)
           z == [x EXCEPT !.told = told, !.listens = FALSE]
<1>1. told \in 0 .. 1
  BY DEF Transport
<1>2. y = close(z)
  BY DEF emitClose
<1> HIDE DEF told
<1>3. /\ z \in Transport /\ z.listens = FALSE /\ z.heard = x.heard /\ z.told = told
      /\ SameReceiving(x, z) /\ SameSender(x, z)
  BY <1>1 DEF Transport, SameReceiving, SameSender
<1> HIDE DEF z
<1>4. /\ PollCore(z) /\ SenderCore(z)
      /\ \A got : OrderCore(x, got) => OrderCore(z, got)
  BY <1>3, PollingKept, SenderKept
<1>5. Closes(z, y) /\ y.heard = z.heard /\ y.told = z.told /\ (Closable(z) => NoneOpen(y))
  BY <1>2, <1>3, <1>4, Closing
<1>6. Closes(x, y)
  BY <1>3, <1>4, <1>5 DEF Closes, SameReceiving
<1>7. Closable(x) => Closable(z)
  BY <1>3 DEF Closable, SameReceiving, SameSender, Idle
<1> QED
  BY <1>3, <1>5, <1>6, <1>7 DEF told

-----------------------------------------------------------------------------
(* Hearing frames *)

LEMMA WithHeard ==
    ASSUME NEW x \in Transport, NEW n \in 0 .. MaxFrames
    PROVE  /\ [x EXCEPT !.heard = FirstNumbers(n)] \in Transport
           /\ [x EXCEPT !.heard = FirstNumbers(n)].heard = FirstNumbers(n)
           /\ [x EXCEPT !.heard = FirstNumbers(n)].listens = x.listens
           /\ [x EXCEPT !.heard = FirstNumbers(n)].told = x.told
           /\ SameSender(x, [x EXCEPT !.heard = FirstNumbers(n)])
           /\ SameReceiving(x, [x EXCEPT !.heard = FirstNumbers(n)])
           /\ Len(FirstNumbers(n)) = n
<1> DEFINE h == FirstNumbers(n)
           y == [x EXCEPT !.heard = h]
<1>1. n \in Nat /\ 1 .. n \subseteq 1 .. MaxFrames
  BY TransportsAssumption
<1>2. h \in Seq(1 .. MaxFrames) /\ Len(h) = n
  BY ONLY <1>1, FirstNumbersAre
<1> HIDE DEF h
<1>3. y \in Transport /\ y.heard = h /\ y.listens = x.listens /\ y.told = x.told
  BY <1>2 DEF Transport
<1>4. SameSender(x, y) /\ SameReceiving(x, y)
  BY DEF Transport, SameSender, SameReceiving
<1> QED
  BY <1>2, <1>3, <1>4 DEF h

\* What passing frames on, up to frame n, comes to: nothing if SockJS does not
\* listen any more; the transport is closed; or the frames are heard.
ClosedBy(x, y, n) ==
    /\ IsClose(n) /\ Closes(x, y) /\ y.told = x.told /\ (Closable(x) => NoneOpen(y))
    /\ y.heard \in {x.heard, FirstNumbers(srv.frames)}

HeardTo(x, y, n) == n <= srv.frames /\ y = [x EXCEPT !.heard = FirstNumbers(n)]

Passed(x, y, n) == IF x.listens THEN ClosedBy(x, y, n) \/ HeardTo(x, y, n) ELSE y = x

\* What was heard so far.
HeardWell(x) == x.heard = FirstNumbers(Len(x.heard)) /\ Len(x.heard) <= srv.frames

LEMMA HeardTypes ==
    ASSUME srv \in Session, NEW x \in Transport
    PROVE  /\ srv.frames \in Nat /\ srv.frames <= MaxFrames /\ MaxFrames \in Nat
           /\ Len(x.heard) \in Nat /\ made \in Nat /\ made <= MaxFrames + 1
           /\ made = srv.frames \/ (made = srv.frames + 1 /\ srv.over)
           /\ made = Made(srv) /\ srv.written \in Nat /\ srv.written <= 2 * (MaxFrames + 1)
<1>1. x.heard \in Seq(1 .. MaxFrames)
  BY DEF Transport
<1>2. Len(x.heard) \in Nat
  BY <1>1, LenProperties
<1> QED
  BY <1>2, TransportsAssumption DEF Session, made, Made

\* Nothing is added to what was heard by frame n, if n is all of it.
LEMMA NothingNew ==
    ASSUME NEW x \in Transport, NEW n, x.heard = FirstNumbers(n)
    PROVE  x = [x EXCEPT !.heard = FirstNumbers(n)]
BY DEF Transport

\* The next frame is heard.
LEMMA EmittingMessage ==
    ASSUME srv \in Session, NEW x \in Transport, x.listens, HeardWell(x),
           NEW n, n = Len(x.heard) + 1, n <= made, ~IsClose(n)
    PROVE  n <= srv.frames /\ emitMessage(x, n) = [x EXCEPT !.heard = FirstNumbers(n)]
<1> DEFINE h == x.heard
<1>1. /\ Len(h) \in Nat /\ made \in Nat /\ srv.frames \in Nat /\ srv.frames <= MaxFrames
      /\ MaxFrames \in Nat
      /\ made = srv.frames \/ (made = srv.frames + 1 /\ srv.over)
  BY HeardTypes
<1>2. n <= srv.frames
  BY <1>1 DEF IsClose
<1>3. h \in Seq(1 .. MaxFrames) /\ h = FirstNumbers(Len(h)) /\ Len(h) + 1 \in 1 .. MaxFrames
  BY <1>1, <1>2 DEF Transport, HeardWell
<1>4. emitMessage(x, n) = [x EXCEPT !.heard = Append(h, n)]
  BY DEF emitMessage
<1> HIDE DEF h
<1>5. Append(h, Len(h) + 1) = FirstNumbers(Len(h) + 1)
  BY ONLY <1>3, NumberAppended
<1> QED
  BY <1>2, <1>4, <1>5 DEF h

\* emitMessage of a frame that may be the last.
LEMMA Emitting ==
    ASSUME srv \in Session, kind \in Kinds, NEW x \in Transport, PollCore(x), SenderCore(x),
           HeardWell(x), NEW n \in Nat, n <= made, ~IsClose(n) => n = Len(x.heard) + 1 \/ ~x.listens
    PROVE  Passed(x, emitMessage(x, n), n)
<1>1. CASE ~x.listens
  BY <1>1 DEF emitMessage, Passed
<1>2. CASE x.listens /\ IsClose(n)
  <2> DEFINE y == emitMessage(x, n)
  <2>1. y = close(x)
    BY <1>2 DEF emitMessage
  <2> HIDE DEF y
  <2>2. Closes(x, y) /\ y.heard = x.heard /\ y.told = x.told /\ (Closable(x) => NoneOpen(y))
    BY <2>1, Closing
  <2>3. Passed(x, y, n)
    BY <1>2, <2>2 DEF Passed, ClosedBy
  <2> QED
    BY <2>3 DEF y
<1>3. CASE x.listens /\ ~IsClose(n)
  <2>1. n <= srv.frames /\ emitMessage(x, n) = [x EXCEPT !.heard = FirstNumbers(n)]
    BY <1>3, EmittingMessage
  <2> QED
    BY <1>3, <2>1 DEF Passed, HeardTo
<1> QED
  BY <1>1, <1>2, <1>3

\* PassOn, without recursion.
PassedUpTo(x, start, n) ==
    IF ~x.listens \/ n < start THEN x
    ELSE IF IsClose(n) THEN close([x EXCEPT !.heard = FirstNumbers(srv.frames)])
    ELSE [x EXCEPT !.heard = FirstNumbers(n)]

PassedNext(x, start, g, n) == IF n < start THEN x ELSE emitMessage(g[n - 1], n)

LEMMA PassingOn ==
    ASSUME srv \in Session, kind \in Kinds, NEW x \in Transport, PollCore(x), SenderCore(x),
           NEW start \in Nat, start >= 1, NEW last \in Nat, last <= made,
           x.listens => HeardWell(x) /\ start = Len(x.heard) + 1
    PROVE  PassOn(x, start, last) = PassedUpTo(x, start, last)
<1> DEFINE f == [n \in 0 .. last |-> PassedUpTo(x, start, n)]
           g == CHOOSE h : h = [n \in 0 .. last |-> PassedNext(x, start, h, n)]
<1>1. PassOn(x, start, last) = g[last]
  BY DEF PassOn, PassedNext
<1>2. /\ made \in Nat /\ srv.frames \in Nat /\ srv.frames <= MaxFrames /\ MaxFrames \in Nat
      /\ Len(x.heard) \in Nat
      /\ made = srv.frames \/ (made = srv.frames + 1 /\ srv.over)
  BY HeardTypes
<1>3. ASSUME NEW n \in 0 .. last
      PROVE  f[n] = PassedNext(x, start, f, n)
  <2>1. CASE n < start
    BY <2>1 DEF PassedUpTo, PassedNext
  <2>2. CASE ~(n < start)
    <3>1. /\ n - 1 \in 0 .. last /\ f[n - 1] = PassedUpTo(x, start, n - 1)
          /\ f[n] = PassedUpTo(x, start, n)
      BY <2>2
    <3> HIDE DEF f
    <3>2. PassedNext(x, start, f, n) = emitMessage(PassedUpTo(x, start, n - 1), n)
      BY <2>2, <3>1 DEF PassedNext
    <3>3. CASE ~x.listens
      BY <3>1, <3>2, <3>3 DEF PassedUpTo, emitMessage
    <3>4. CASE x.listens
      <4> DEFINE z == [x EXCEPT !.heard = FirstNumbers(n - 1)]
      <4>1. n - 1 \in 0 .. MaxFrames /\ n - 1 <= srv.frames /\ n <= made /\ n \in Nat
        BY <1>2, <2>2
      <4>2. /\ z \in Transport /\ z.heard = FirstNumbers(n - 1) /\ Len(z.heard) = n - 1
            /\ z.listens
        BY <3>4, <4>1, WithHeard
      <4>3. PassedUpTo(x, start, n - 1) = z
        <5>1. CASE n = start
          <6>1. n - 1 < start /\ x.heard = FirstNumbers(n - 1)
            BY <1>2, <3>4, <5>1 DEF HeardWell
          <6>2. x = z
            BY <6>1, NothingNew
          <6> QED
            BY <6>1, <6>2 DEF PassedUpTo
        <5>2. CASE n # start
          <6>1. ~(n - 1 < start) /\ ~IsClose(n - 1)
            BY <1>2, <2>2, <4>1, <5>2 DEF IsClose
          <6> QED
            BY <3>4, <6>1 DEF PassedUpTo
        <5> QED
          BY <5>1, <5>2
      <4> HIDE DEF z
      <4>4. CASE IsClose(n)
        <5>1. n - 1 = srv.frames
          BY <1>2, <4>4 DEF IsClose
        <5>2. PassedUpTo(x, start, n) = close(z)
          BY <2>2, <3>4, <4>4, <5>1 DEF PassedUpTo, z
        <5>3. emitMessage(z, n) = close(z)
          BY <4>2, <4>4 DEF emitMessage
        <5> QED
          BY <3>1, <3>2, <4>3, <5>2, <5>3
      <4>5. CASE ~IsClose(n)
        <5>1. HeardWell(z) /\ n = Len(z.heard) + 1
          BY <4>1, <4>2 DEF HeardWell
        <5>2. emitMessage(z, n) = [z EXCEPT !.heard = FirstNumbers(n)]
          BY <4>1, <4>2, <4>5, <5>1, EmittingMessage
        <5>3. [z EXCEPT !.heard = FirstNumbers(n)] = [x EXCEPT !.heard = FirstNumbers(n)]
          BY DEF z, Transport
        <5>4. PassedUpTo(x, start, n) = [x EXCEPT !.heard = FirstNumbers(n)]
          BY <2>2, <3>4, <4>5 DEF PassedUpTo
        <5> QED
          BY <3>1, <3>2, <4>3, <5>2, <5>3, <5>4
      <4> QED
        BY <4>4, <4>5
    <3> QED
      BY <3>3, <3>4
  <2> QED
    BY <2>1, <2>2
<1>4. f = [n \in 0 .. last |-> PassedNext(x, start, f, n)]
  BY <1>3
<1> HIDE DEF f
<1>5. g = [n \in 0 .. last |-> PassedNext(x, start, g, n)]
  BY <1>4
<1> HIDE DEF g
<1> DEFINE Same == {n \in Nat : n <= last => g[n] = f[n]}
<1>6. 0 \in Same
  <2>1. 0 \in 0 .. last /\ 0 < start
    OBVIOUS
  <2>2. g[0] = PassedNext(x, start, g, 0) /\ f[0] = PassedNext(x, start, f, 0)
    BY <1>4, <1>5, <2>1
  <2> QED
    BY <2>1, <2>2 DEF PassedNext
<1>7. ASSUME NEW n \in Nat, n \in Same
      PROVE  n + 1 \in Same
  <2> SUFFICES ASSUME n + 1 <= last PROVE g[n + 1] = f[n + 1]
    OBVIOUS
  <2>1. n + 1 \in 0 .. last /\ n + 1 - 1 = n
    OBVIOUS
  <2>2. /\ g[n + 1] = PassedNext(x, start, g, n + 1)
        /\ f[n + 1] = PassedNext(x, start, f, n + 1)
    BY <1>4, <1>5, <2>1
  <2>3. g[n] = f[n]
    BY <1>7
  <2> QED
    BY <2>1, <2>2, <2>3 DEF PassedNext
<1> HIDE DEF Same
<1>8. last \in Same
  BY <1>6, <1>7, SetInduction
<1>9. g[last] = f[last]
  BY <1>8 DEF Same
<1>10. f[last] = PassedUpTo(x, start, last)
  BY DEF f
<1> QED
  BY <1>1, <1>9, <1>10

\* The frames after those heard so far are passed on.
LEMMA PassingFrames ==
    ASSUME srv \in Session, kind \in Kinds, NEW x \in Transport, PollCore(x), SenderCore(x),
           NEW start \in Nat, start >= 1, NEW last \in Nat, last <= made, start <= last + 1,
           x.listens => HeardWell(x) /\ start = Len(x.heard) + 1
    PROVE  Passed(x, PassOn(x, start, last), last)
<1> DEFINE y == PassOn(x, start, last)
<1>1. y = PassedUpTo(x, start, last)
  BY PassingOn
<1>2. /\ made \in Nat /\ srv.frames \in Nat /\ srv.frames <= MaxFrames /\ MaxFrames \in Nat
      /\ Len(x.heard) \in Nat
      /\ made = srv.frames \/ (made = srv.frames + 1 /\ srv.over)
  BY HeardTypes
<1> HIDE DEF y
<1>3. CASE ~x.listens
  BY <1>1, <1>3 DEF PassedUpTo, Passed, y
<1>4. CASE x.listens /\ last < start
  <2>1. last = Len(x.heard) /\ x.heard = FirstNumbers(last) /\ last <= srv.frames
    BY <1>2, <1>4 DEF HeardWell
  <2>2. y = [x EXCEPT !.heard = FirstNumbers(last)]
    BY <1>1, <1>4, <2>1, NothingNew DEF PassedUpTo
  <2> QED
    BY <1>4, <2>1, <2>2 DEF Passed, HeardTo, y
<1>5. CASE x.listens /\ ~(last < start) /\ IsClose(last)
  <2> DEFINE z == [x EXCEPT !.heard = FirstNumbers(srv.frames)]
  <2>1. y = close(z)
    BY <1>1, <1>5 DEF PassedUpTo
  <2>2. /\ z \in Transport /\ z.heard = FirstNumbers(srv.frames) /\ z.told = x.told
        /\ z.listens = x.listens /\ SameSender(x, z) /\ SameReceiving(x, z)
    BY <1>2, WithHeard
  <2> HIDE DEF z
  <2>3. PollCore(z) /\ SenderCore(z) /\ \A got : OrderCore(x, got) => OrderCore(z, got)
    BY <2>2, PollingKept, SenderKept
  <2>4. Closes(z, y) /\ y.heard = z.heard /\ y.told = z.told /\ (Closable(z) => NoneOpen(y))
    BY <2>1, <2>2, <2>3, Closing
  <2>5. Closes(x, y)
    BY <2>2, <2>3, <2>4 DEF Closes, SameReceiving
  <2>6. Closable(x) => Closable(z)
    BY <2>2 DEF Closable, SameReceiving, SameSender, Idle
  <2>7. ClosedBy(x, y, last)
    BY <1>5, <2>2, <2>4, <2>5, <2>6 DEF ClosedBy
  <2> QED
    BY <1>5, <2>7 DEF Passed, y
<1>6. CASE x.listens /\ ~(last < start) /\ ~IsClose(last)
  <2>1. y = [x EXCEPT !.heard = FirstNumbers(last)]
    BY <1>1, <1>6 DEF PassedUpTo
  <2>2. last <= srv.frames
    BY <1>2, <1>6 DEF IsClose
  <2> QED
    BY <1>6, <2>1, <2>2 DEF Passed, HeardTo, y
<1> QED
  BY <1>3, <1>4, <1>5, <1>6 DEF y

\* What is so after passing frames on.
PassedWell(x, y, n) ==
    /\ y \in Transport /\ PollInv(y) /\ SenderInv(y) /\ HeardWell(y)
    /\ \A got : OrderInv(x, got) => OrderInv(y, got)
    /\ Len(x.heard) <= Len(y.heard)
    /\ Len(y.receivers) = Len(x.receivers) /\ DOMAIN y.receivers = DOMAIN x.receivers
    /\ \A r \in DOMAIN x.receivers :
         /\ y.receivers[r].phase = "open" => y.receivers[r] = x.receivers[r]
         /\ x.receivers[r].phase = "over" => y.receivers[r].phase = "over"
         /\ r # x.poll => y.receivers[r] = x.receivers[r]
    /\ ~x.listens => y = x
    /\ y.listens => /\ x.listens /\ SameReceiving(x, y)
                    /\ n <= srv.frames /\ Len(y.heard) = n
    /\ x.listens /\ ~y.listens => NoneOpen(y) /\ IsClose(n)

LEMMA AfterPassing ==
    ASSUME srv \in Session, NEW x \in Transport, PollInv(x), SenderInv(x), HeardWell(x),
           NEW n \in Nat, Len(x.heard) <= n \/ ~x.listens \/ IsClose(n), NEW y, Passed(x, y, n)
    PROVE  PassedWell(x, y, n)
<1>1. srv.frames \in Nat /\ srv.frames <= MaxFrames /\ MaxFrames \in Nat /\ Len(x.heard) \in Nat
  BY HeardTypes
<1>2. CASE ~x.listens
  <2>1. y = x
    BY <1>2 DEF Passed
  <2> QED
    BY <1>1, <1>2, <2>1 DEF PassedWell
<1>3. CASE x.listens /\ ClosedBy(x, y, n)
  <2>1. Closable(x)
    BY <1>3 DEF PollInv, SenderInv, Closable
  <2>2. HeardWell(y) /\ Len(x.heard) <= Len(y.heard)
    <3>1. srv.frames \in 0 .. MaxFrames
      BY <1>1
    <3> DEFINE k == srv.frames
    <3> HIDE DEF k
    <3>4. Len(FirstNumbers(k)) = k
      BY <3>1, WithHeard DEF k
    <3>2. CASE y.heard = x.heard
      BY <1>1, <3>2 DEF HeardWell
    <3>3. CASE y.heard = FirstNumbers(srv.frames)
      BY <1>1, <3>3, <3>4 DEF HeardWell, k
    <3> QED
      BY <1>3, <3>2, <3>3 DEF ClosedBy
  <2>3. \A got : OrderInv(x, got) => OrderInv(y, got)
    BY <1>3 DEF ClosedBy, Closes, OrderInv
  <2> QED
    BY <1>3, <2>1, <2>2, <2>3 DEF PassedWell, ClosedBy, Closes
<1>4. CASE x.listens /\ HeardTo(x, y, n)
  <2>1. n \in 0 .. MaxFrames /\ n <= srv.frames
    BY <1>1, <1>4 DEF HeardTo
  <2>2. /\ y \in Transport /\ y.heard = FirstNumbers(n) /\ Len(y.heard) = n
        /\ y.listens = x.listens /\ y.told = x.told /\ SameSender(x, y) /\ SameReceiving(x, y)
    BY <1>4, <2>1, WithHeard DEF HeardTo
  <2>3. PollInv(y)
    BY <2>2 DEF PollInv, PollCore, SameReceiving
  <2>4. SenderInv(y) /\ \A got : OrderInv(x, got) => OrderInv(y, got)
    BY <2>2, SenderKept
  <2>5. HeardWell(y)
    BY <2>1, <2>2 DEF HeardWell
  <2>6. Len(x.heard) <= n
    BY <1>1, <1>4, <2>1 DEF IsClose
  <2> QED
    BY <1>4, <2>1, <2>2, <2>3, <2>4, <2>5, <2>6 DEF PassedWell, SameReceiving
<1> QED
  BY <1>2, <1>3, <1>4 DEF Passed

-----------------------------------------------------------------------------
(* A receiver is over *)

\* The invariant when one receiver is replaced.
LEMMA ReceiverChanged ==
    ASSUME NEW x \in Transport, kind # "websocket", PollInv(x), NEW r \in DOMAIN x.receivers,
           NEW rec, NEW y, ReceiverReplaced(x, y, r, rec), InPhase(rec),
           IF r = x.poll THEN x.listens => rec.listens ELSE rec.phase = "over" /\ ~rec.listens,
           rec.loading => x.receivers[r].loading
    PROVE  /\ PollInv(y)
           /\ SenderInv(x) => SenderInv(y)
           /\ \A got : OrderInv(x, got) => OrderInv(y, got)
<1>1. /\ Len(x.receivers) \in Nat /\ DOMAIN x.receivers = 1 .. Len(x.receivers)
      /\ y.poll = x.poll /\ y.closing = x.closing /\ y.listens = x.listens /\ y.told = x.told
      /\ Len(y.receivers) = Len(x.receivers) /\ DOMAIN y.receivers = DOMAIN x.receivers
      /\ \A j \in DOMAIN x.receivers : y.receivers[j] = IF j = r THEN rec ELSE x.receivers[j]
  BY ReceiverTypes DEF ReceiverReplaced, SameForSockJS
<1>2. y.receivers # <<>>
  BY <1>1
<1>3. PollCore(y)
  BY <1>1, <1>2 DEF PollInv, PollCore
<1>4. x.listens => x.poll \in DOMAIN x.receivers
  BY <1>1 DEF PollInv, PollCore
<1>5. PollInv(y)
  BY <1>1, <1>3, <1>4 DEF PollInv
<1>6. SenderInv(x) => SenderInv(y)
  BY SenderKept DEF ReceiverReplaced, SameForSockJS
<1>7. \A got : OrderInv(x, got) => OrderInv(y, got)
  BY SenderKept DEF ReceiverReplaced, SameForSockJS
<1> QED
  BY <1>5, <1>6, <1>7

\* If it was not polled on meanwhile, what has been heard is still what was read.
LEMMA HearingKept ==
    ASSUME NEW x \in Transport, NEW r \in DOMAIN x.receivers, NEW rec, NEW y,
           ReceiverReplaced(x, y, r, rec),
           rec.phase \in {"scheduled", "open"} =>
             rec.phase = x.receivers[r].phase /\ rec.first = x.receivers[r].first
               /\ rec.pos = x.receivers[r].pos
    PROVE  \A s : HearInv(x, s) => HearInv(y, s)
<1>1. /\ y.heard = x.heard /\ y.listens = x.listens /\ DOMAIN y.receivers = DOMAIN x.receivers
      /\ \A j \in DOMAIN x.receivers : y.receivers[j] = IF j = r THEN rec ELSE x.receivers[j]
  BY DEF ReceiverReplaced, SameForSockJS
<1>2. ASSUME NEW j \in DOMAIN y.receivers, y.receivers[j].phase \in {"scheduled", "open"}
      PROVE  /\ y.receivers[j].phase = x.receivers[j].phase
             /\ y.receivers[j].first = x.receivers[j].first
             /\ ReadOn(y.receivers[j]) = ReadOn(x.receivers[j])
  BY <1>1, <1>2 DEF ReadOn
<1>3. ASSUME NEW s, HearInv(x, s) PROVE HearCore(y, s)
  BY <1>1, <1>2, <1>3 DEF HearInv, HearCore
<1> QED
  BY <1>1, <1>2, <1>3 DEF HearInv

\* Without requests by objects only what was heard matters.
LEMMA HearingOfOthers ==
    ASSUME ~Ajax, NEW x, NEW y, y.heard = x.heard, y.listens => x.listens
    PROVE  \A s : HearInv(x, s) => HearInv(y, s)
BY DEF HearInv, HearCore

LEMMA Ended ==
    ASSUME NEW x \in Transport, kind # "websocket", PollInv(x), NEW r \in DOMAIN x.receivers
    PROVE  /\ ended(x, r) \in Transport
           /\ ReceiverReplaced(x, ended(x, r), r, [x.receivers[r] EXCEPT !.phase = "over"])
           /\ PollInv(ended(x, r))
           /\ SenderInv(x) => SenderInv(ended(x, r))
           /\ \A got : OrderInv(x, got) => OrderInv(ended(x, r), got)
           /\ \A s : HearInv(x, s) => HearInv(ended(x, r), s)
<1> DEFINE rec == [x.receivers[r] EXCEPT !.phase = "over"]
           y == ended(x, r)
<1>1. rec \in Rec /\ rec.phase = "over" /\ rec.listens = x.receivers[r].listens
      /\ rec.late = x.receivers[r].late /\ rec.loading = x.receivers[r].loading
  BY ReceiverTypes DEF Rec
<1>2. y = withReceiver(x, r, rec)
  BY DEF ended, withReceiver
<1> HIDE DEF rec, y
<1>3. ReceiverReplaced(x, y, r, rec)
  BY <1>1, <1>2, WithReceiver
<1>4. InPhase(rec)
  BY <1>1 DEF InPhase, PollInv, PollCore
<1>5. IF r = x.poll THEN x.listens => rec.listens ELSE rec.phase = "over" /\ ~rec.listens
  BY <1>1 DEF PollInv, PollCore
<1>6. /\ PollInv(y) /\ (SenderInv(x) => SenderInv(y))
      /\ \A got : OrderInv(x, got) => OrderInv(y, got)
  BY <1>1, <1>3, <1>4, <1>5, ReceiverChanged
<1>7. \A s : HearInv(x, s) => HearInv(y, s)
  BY <1>1, <1>3, HearingKept
<1>8. y \in Transport
  BY <1>3 DEF ReceiverReplaced
<1> QED
  BY <1>3, <1>6, <1>7, <1>8 DEF y, rec

\* What Polling does when it hears that.
PollOver(x, y, r, reason) ==
    /\ y \in Transport /\ PollInv(y) /\ SenderInv(y) /\ y.heard = x.heard
    /\ \A got : OrderInv(x, got) => OrderInv(y, got)
    /\ \A s : HearInv(x, s) /\ (x.listens /\ reason = "network" => Len(x.heard) = s.written \div 2)
         => HearInv(y, s)
    /\ y.listens => x.listens
    /\ ~x.listens => Len(y.receivers) = Len(x.receivers) /\ SameSender(x, y)
    /\ x.listens /\ ~y.listens => NoneOpen(y)
    /\ r # x.poll => y = x
    /\ r = x.poll /\ reason # "network" => ~y.listens
    /\ DOMAIN x.receivers \subseteq DOMAIN y.receivers
    /\ \A j \in DOMAIN x.receivers :
         /\ y.receivers[j].phase = "open" => x.receivers[j].phase = "open"
         /\ j # r => y.receivers[j].late = x.receivers[j].late
    /\ Ajax => \A j \in DOMAIN y.receivers \ DOMAIN x.receivers : y.receivers[j].phase = "scheduled"

\* It has another poll made ...
LEMMA Scheduling ==
    ASSUME NEW x \in Transport, kind \in Kinds, kind # "websocket",
           \A j \in DOMAIN x.receivers : x.receivers[j].phase = "over" /\ ~x.receivers[j].listens,
           \A j \in DOMAIN x.receivers : InPhase(x.receivers[j]),
           \A j \in DOMAIN x.receivers : ~x.receivers[j].loading,
           x.listens, ~x.closing, x.told = 0, NEW y, y = _scheduleReceiver(x)
    PROVE  /\ y \in Transport /\ PollInv(y) /\ SameSender(x, y) /\ SameForSockJS(x, y)
           /\ DOMAIN x.receivers \subseteq DOMAIN y.receivers
           /\ \A j \in DOMAIN x.receivers : y.receivers[j] = x.receivers[j]
           /\ \A j \in DOMAIN y.receivers \ DOMAIN x.receivers : y.receivers[j] = Receiver
<1> DEFINE q == x.receivers
           a == Append(q, Receiver)
           n == Len(q)
<1>1. n \in Nat /\ DOMAIN q = 1 .. n /\ q \in Seq(Rec)
  BY ReceiverTypes DEF Transport
<1>2. /\ Receiver \in Rec /\ InPhase(Receiver) /\ Receiver.listens /\ ~Receiver.loading
      /\ Receiver.phase \in {"scheduled", "open"}
  BY TransportsAssumption DEF Receiver, Rec, InPhase
<1> HIDE DEF q
<1>3. /\ a \in Seq(Rec) /\ Len(a) = n + 1 /\ a[n + 1] = Receiver /\ a # <<>>
      /\ \A j \in 1 .. n : a[j] = q[j]
  BY <1>1, <1>2, AppendProperties
<1>4. DOMAIN a = 1 .. n + 1
  BY <1>3, LenProperties
<1>5. y = [x EXCEPT !.receivers = a, !.poll = n + 1]
  BY DEF _scheduleReceiver, q
<1> HIDE DEF a, n
<1>6. /\ y \in Transport /\ y.receivers = a /\ y.poll = n + 1 /\ y.closing = x.closing
      /\ SameSender(x, y) /\ SameForSockJS(x, y)
  <2> DEFINE last == n + 1
  <2>1. last \in Nat /\ a \in Seq(Rec) /\ y = [x EXCEPT !.receivers = a, !.poll = last]
    BY <1>1, <1>3, <1>5
  <2> HIDE DEF last
  <2>2. y \in Transport /\ y.receivers = a /\ y.poll = last /\ y.closing = x.closing
    BY <2>1 DEF Transport
  <2>3. SameSender(x, y) /\ SameForSockJS(x, y)
    BY <2>1 DEF Transport, SameSender, SameForSockJS
  <2> QED
    BY <2>2, <2>3 DEF last
<1>7. \A j \in 1 .. n + 1 : j \in 1 .. n \/ j = n + 1
  BY <1>1
<1>8. \A j \in DOMAIN a :
        InPhase(a[j]) /\ ~a[j].loading /\ (j # n + 1 => a[j].phase = "over" /\ ~a[j].listens)
  BY <1>1, <1>2, <1>3, <1>4, <1>7 DEF q
<1>9. PollCore(y)
  BY <1>3, <1>6, <1>8 DEF PollCore
<1>10. y.listens /\ y.told = 0 /\ y.poll # 0 /\ ~y.closing /\ y.receivers[y.poll].listens
  BY <1>1, <1>2, <1>3, <1>6 DEF SameForSockJS
<1>11. PollInv(y)
  BY <1>6, <1>8, <1>9, <1>10 DEF PollInv
<1> QED
  BY <1>1, <1>3, <1>4, <1>6, <1>7, <1>11 DEF q

\* ... or it closes.
LEMMA PollClosing ==
    ASSUME NEW x \in Transport, kind \in Kinds, kind # "websocket", PollInv(x), SenderInv(x),
           NEW r \in DOMAIN x.receivers, x.receivers[r].phase = "over", NEW reason
    PROVE  PollOver(x, pollClosed(x, r, reason), r, reason)
<1> DEFINE y == pollClosed(x, r, reason)
<1>1. /\ Len(x.receivers) \in Nat /\ DOMAIN x.receivers = 1 .. Len(x.receivers)
      /\ x.receivers[r] \in Rec
  BY ReceiverTypes
<1>2. CASE ~x.receivers[r].listens
  <2>1. y = x
    BY <1>2 DEF pollClosed
  <2>2. ~(x.listens /\ r = x.poll)
    BY <1>2 DEF PollInv
  <2> QED
    BY <1>2, <2>1, <2>2 DEF PollOver, SameSender
<1>3. CASE x.receivers[r].listens
  <2> DEFINE rec == [x.receivers[r] EXCEPT !.listens = FALSE]
             z == withReceiver(x, r, rec)
             done == [x EXCEPT !.receivers[r].listens = FALSE, !.poll = 0]
  <2>1. r = x.poll /\ r # 0
    BY <1>1, <1>3 DEF PollInv, PollCore
  <2>2. /\ rec \in Rec /\ rec.phase = "over" /\ rec.listens = FALSE
        /\ rec.late = x.receivers[r].late /\ rec.loading = x.receivers[r].loading
    BY <1>1 DEF Rec
  <2>3. done = [z EXCEPT !.poll = 0]
    BY DEF withReceiver
  <2>4. y = IF done.closing THEN done
            ELSE IF reason = "network" THEN _scheduleReceiver(done) ELSE emitClose(done)
    BY <1>3 DEF pollClosed
  <2> HIDE DEF rec, z, done, y
  <2>5. ReceiverReplaced(x, z, r, rec)
    BY <2>2, WithReceiver DEF z
  <2>6. /\ done \in Transport /\ done.poll = 0 /\ done.closing = x.closing
        /\ SameSender(x, done) /\ SameForSockJS(x, done)
        /\ Len(done.receivers) = Len(x.receivers) /\ DOMAIN done.receivers = DOMAIN x.receivers
        /\ \A j \in DOMAIN x.receivers : done.receivers[j] = IF j = r THEN rec ELSE x.receivers[j]
    <3>1. /\ done \in Transport /\ done.poll = 0 /\ done.closing = z.closing
          /\ SameSender(z, done) /\ SameForSockJS(z, done) /\ done.receivers = z.receivers
      BY <2>3, <2>5 DEF ReceiverReplaced, Transport, SameSender, SameForSockJS
    <3> QED
      BY <2>5, <3>1 DEF ReceiverReplaced, SameSender, SameForSockJS
  <2>7. \A j \in DOMAIN done.receivers :
          /\ done.receivers[j].phase = "over" /\ ~done.receivers[j].listens
          /\ InPhase(done.receivers[j])
          /\ done.receivers[j].late = x.receivers[j].late
          /\ done.receivers[j].loading = x.receivers[j].loading
    <3>1. InPhase(rec)
      BY <2>2 DEF InPhase, PollInv, PollCore
    <3> QED
      BY <2>1, <2>2, <2>6, <3>1 DEF PollInv, PollCore
  <2>8. PollCore(done)
    <3>1. done.receivers # <<>>
      BY <1>1, <2>6
    <3> QED
      BY <2>6, <2>7, <3>1 DEF PollCore
  <2>9. /\ SenderInv(done) /\ SenderCore(done)
        /\ \A got : OrderInv(x, got) => OrderInv(done, got)
        /\ \A got : OrderInv(x, got) => OrderCore(done, got)
    BY <2>6, SenderKept DEF SenderInv, OrderInv, SameForSockJS
  <2>10. x.closing <=> ~x.listens
    BY <2>1 DEF PollInv
  <2>11. CASE x.closing
    <3>1. y = done /\ ~done.listens /\ ~x.listens
      BY <2>4, <2>6, <2>10, <2>11 DEF SameForSockJS
    <3>2. PollInv(done)
      BY <2>6, <2>8, <3>1 DEF PollInv
    <3>3. \A s : HearInv(x, s) => HearInv(done, s)
      BY <2>6, <2>7, <3>1 DEF HearInv, HearCore, SameForSockJS
    <3> QED
      BY <2>1, <2>6, <2>7, <2>9, <3>1, <3>2, <3>3 DEF PollOver, SameForSockJS, y
  <2>12. CASE ~x.closing /\ reason = "network"
    <3>1. y = _scheduleReceiver(done) /\ x.listens /\ done.listens /\ ~done.closing /\ done.told = 0
      BY <2>4, <2>6, <2>10, <2>12 DEF SameForSockJS, PollInv
    <3>0. \A j \in DOMAIN done.receivers : ~done.receivers[j].loading
      BY <2>6, <2>7, <3>1 DEF PollInv
    <3>2. /\ y \in Transport /\ PollInv(y) /\ SameSender(done, y) /\ SameForSockJS(done, y)
          /\ DOMAIN done.receivers \subseteq DOMAIN y.receivers
          /\ \A j \in DOMAIN done.receivers : y.receivers[j] = done.receivers[j]
          /\ \A j \in DOMAIN y.receivers \ DOMAIN done.receivers : y.receivers[j] = Receiver
      BY <2>6, <2>7, <3>0, <3>1, Scheduling
    <3>3. /\ SenderInv(y) /\ y.heard = x.heard /\ y.listens
          /\ \A got : OrderInv(x, got) => OrderInv(y, got)
      BY <2>6, <2>9, <3>1, <3>2, SenderKept DEF SameForSockJS
    <3>4. Ajax => Receiver.phase = "scheduled"
      BY DEF Receiver
    <3>5. Ajax => /\ \A j \in DOMAIN y.receivers : y.receivers[j].phase # "open"
                  /\ \A j \in DOMAIN y.receivers \ DOMAIN x.receivers : y.receivers[j].phase = "scheduled"
      BY <2>6, <2>7, <3>2, <3>4
    <3>6. ASSUME NEW s, HearInv(x, s), Len(x.heard) = s.written \div 2 PROVE HearInv(y, s)
      <4>1. CASE ~Ajax
        BY <3>1, <3>3, <3>6, <4>1, HearingOfOthers
      <4>2. CASE Ajax
        BY <3>3, <3>5, <3>6, <4>2 DEF HearInv, HearCore
      <4> QED
        BY <4>1, <4>2
    <3>7. \A j \in DOMAIN x.receivers :
            y.receivers[j].phase # "open" /\ y.receivers[j].late = x.receivers[j].late
      BY <2>6, <2>7, <3>2
    <3>8. DOMAIN x.receivers \subseteq DOMAIN y.receivers
      BY <2>6, <3>2
    <3> HIDE DEF y
    <3>9. PollOver(x, y, r, reason)
      BY <2>1, <2>12, <3>1, <3>2, <3>3, <3>5, <3>6, <3>7, <3>8 DEF PollOver
    <3> QED
      BY <3>9 DEF y
  <2>13. CASE ~x.closing /\ reason # "network"
    <3>1. y = emitClose(done) /\ x.listens /\ done.told = 0
      BY <2>4, <2>6, <2>10, <2>13 DEF SameForSockJS, PollInv
    <3>2. Closes(done, y) /\ y.heard = done.heard /\ (Closable(done) => NoneOpen(y))
      BY <2>6, <2>8, <2>9, <3>1, ClosingItself
    <3>3. Closable(done)
      BY <2>6, <2>9, <2>13, <3>1 DEF Closable, SenderInv, SameForSockJS
    <3>4. /\ ~y.listens /\ y.heard = x.heard /\ DOMAIN y.receivers = DOMAIN x.receivers
          /\ \A j \in DOMAIN x.receivers :
               y.receivers[j].phase # "open" /\ (j # r => y.receivers[j].late = x.receivers[j].late)
      BY <2>1, <2>6, <2>7, <3>2 DEF Closes, SameForSockJS
    <3>5. \A s : HearInv(x, s) => HearInv(y, s)
      BY <3>4 DEF HearInv, HearCore
    <3>6. PollOver(x, y, r, reason)
      BY <2>1, <2>9, <2>13, <3>1, <3>2, <3>3, <3>4, <3>5 DEF PollOver, Closes
    <3> QED
      BY <3>6 DEF y
  <2> QED
    BY <2>11, <2>12, <2>13 DEF y
<1> QED
  BY <1>2, <1>3

-----------------------------------------------------------------------------
(* What every step keeps to *)

\* A closed transport does nothing any more, and neither do old timers.
OldTimersStep(x, y) ==
    \A r \in DOMAIN x.receivers :
      y.receivers[r].late # x.receivers[r].late /\ r # x.poll =>
        /\ y.listens = x.listens /\ y.told = x.told
        /\ y.poll = x.poll /\ Len(y.receivers) = Len(x.receivers)

Steps(x, y) ==
    /\ x.listens /\ ~y.listens => NoneOpen(y)
    /\ ~x.listens => ~y.listens /\ Len(y.receivers) = Len(x.receivers) /\ y.heard = x.heard
    /\ HeardWell(y) /\ Len(x.heard) <= Len(y.heard)
    /\ OldTimersStep(x, y)

StepTo(y, s) == s \in Session /\ Good(y, s) /\ Steps(t, y)

LEMMA Facts ==
    ASSUME IInv
    PROVE  /\ kind \in Kinds /\ srv \in Session /\ t \in Transport
           /\ PollInv(t) /\ PollCore(t) /\ SenderInv(t) /\ SenderCore(t)
           /\ OrderInv(t, srv.got) /\ HearInv(t, srv) /\ HeardWell(t)
BY DEF IInv, Good, PollInv, SenderInv, HearInv, HearCore, HeardWell

\* The receiver that is not over is the one Polling has.
LEMMA Polling ==
    ASSUME IInv, kind # "websocket", NEW r \in DOMAIN t.receivers, t.receivers[r].phase # "over"
    PROVE  /\ r = t.poll /\ r = Len(t.receivers)
           /\ \A j \in DOMAIN t.receivers : j # r =>
                t.receivers[j].phase = "over" /\ ~t.receivers[j].listens
BY Facts, ReceiverTypes DEF PollCore

\* Nothing to do with receivers.
LEMMA StepKept ==
    ASSUME IInv, NEW y, SameReceiving(t, y), SameForSockJS(t, y)
    PROVE  PollInv(y) /\ HearInv(y, srv) /\ Steps(t, y)
<1>1. PollInv(t) /\ HearInv(t, srv) /\ HeardWell(t) /\ Len(t.heard) \in Nat
  BY Facts, HeardTypes
<1>2. PollInv(y)
  BY <1>1 DEF PollInv, PollCore, SameReceiving, SameForSockJS
<1>3. HearInv(y, srv)
  BY <1>1 DEF HearInv, HearCore, SameReceiving, SameForSockJS
<1>4. Steps(t, y)
  BY <1>1 DEF Steps, OldTimersStep, HeardWell, SameReceiving, SameForSockJS
<1> QED
  BY <1>2, <1>3, <1>4

\* A receiver is replaced and nothing is heard.
LEMMA StepOfReceiver ==
    ASSUME IInv, NEW y, NEW r \in DOMAIN t.receivers, NEW rec, ReceiverReplaced(t, y, r, rec)
    PROVE  Steps(t, y)
<1>1. HeardWell(t) /\ Len(t.heard) \in Nat
  BY Facts, HeardTypes
<1>2. /\ y.listens = t.listens /\ y.heard = t.heard /\ y.told = t.told /\ y.poll = t.poll
      /\ Len(y.receivers) = Len(t.receivers)
  BY DEF ReceiverReplaced, SameForSockJS
<1> QED
  BY <1>1, <1>2 DEF Steps, OldTimersStep, HeardWell

\* Closing is a step, if it can abort everything.
LEMMA StepOfClosing ==
    ASSUME IInv, NEW y, Closes(t, y), y.heard = t.heard, t.listens => NoneOpen(y)
    PROVE  Good(y, srv) /\ Steps(t, y)
<1>1. /\ OrderInv(t, srv.got) /\ HearInv(t, srv) /\ HeardWell(t) /\ Len(t.heard) \in Nat
  BY Facts, HeardTypes
<1>2. HearInv(y, srv)
  BY <1>1 DEF Closes, HearInv, HearCore
<1>3. OrderInv(y, srv.got)
  BY <1>1 DEF Closes, OrderInv
<1>4. Good(y, srv)
  BY <1>2, <1>3 DEF Good, Closes
<1>5. Steps(t, y)
  BY <1>1 DEF Steps, OldTimersStep, HeardWell, Closes
<1> QED
  BY <1>4, <1>5

\* The last step of several: Polling hears that the receiver is over.  x is what
\* the transport is then.
Before(x, r) ==
    /\ x \in Transport /\ PollInv(x) /\ SenderInv(x) /\ OrderInv(x, srv.got) /\ HeardWell(x)
    /\ Len(t.heard) <= Len(x.heard)
    /\ t.listens /\ ~x.listens => NoneOpen(x)
    /\ ~t.listens => ~x.listens /\ x.heard = t.heard
    /\ Len(x.receivers) = Len(t.receivers) /\ DOMAIN x.receivers = DOMAIN t.receivers
    /\ x.receivers[r].phase = "over"
    /\ \A j \in DOMAIN t.receivers : j # r => x.receivers[j].late = t.receivers[j].late

LEMMA StepOfPolling ==
    ASSUME IInv, kind # "websocket", NEW r \in DOMAIN t.receivers, r = t.poll,
           NEW x, Before(x, r), NEW reason, NEW y, y = pollClosed(x, r, reason)
    PROVE  PollOver(x, y, r, reason) /\ Steps(t, y)
<1>1. kind \in Kinds
  BY Facts
<1>2. PollOver(x, y, r, reason)
  BY <1>1, PollClosing DEF Before
<1>3. t.listens /\ ~y.listens => NoneOpen(y)
  <2>1. CASE x.listens
    BY <1>2, <2>1 DEF PollOver
  <2>2. CASE ~x.listens
    <3>1. ASSUME NoneOpen(x) PROVE NoneOpen(y)
      <4>1. DOMAIN y.receivers = DOMAIN x.receivers /\ y.posts = x.posts
        BY <1>2, <2>2, ReceiverTypes DEF PollOver, SameSender, Before
      <4> QED
        BY <1>2, <3>1, <4>1 DEF PollOver, NoneOpen
    <3> QED
      BY <2>2, <3>1 DEF Before
  <2> QED
    BY <2>1, <2>2
<1>4. HeardWell(y) /\ Len(t.heard) <= Len(y.heard)
  BY <1>2 DEF PollOver, Before, HeardWell
<1>5. OldTimersStep(t, y)
  BY <1>2 DEF PollOver, Before, OldTimersStep
<1>6. ~t.listens => ~y.listens /\ Len(y.receivers) = Len(t.receivers) /\ y.heard = t.heard
  BY <1>2 DEF PollOver, Before
<1> QED
  BY <1>2, <1>3, <1>4, <1>5, <1>6 DEF Steps

LEMMA BeforeEnd ==
    ASSUME IInv, kind # "websocket", NEW r \in DOMAIN t.receivers
    PROVE  Before(ended(t, r), r) /\ HearInv(ended(t, r), srv)
<1> DEFINE x == ended(t, r)
           rec == [t.receivers[r] EXCEPT !.phase = "over"]
<1>1. /\ t \in Transport /\ PollInv(t) /\ SenderInv(t) /\ OrderInv(t, srv.got) /\ HeardWell(t)
      /\ HearInv(t, srv) /\ Len(t.heard) \in Nat
  BY Facts, HeardTypes
<1>2. rec.phase = "over"
  BY <1>1, ReceiverTypes DEF Rec
<1>3. /\ x \in Transport /\ ReceiverReplaced(t, x, r, rec) /\ PollInv(x) /\ SenderInv(x)
      /\ OrderInv(x, srv.got) /\ HearInv(x, srv)
  BY <1>1, Ended
<1> HIDE DEF x, rec
<1>4. Before(x, r)
  BY <1>1, <1>2, <1>3 DEF Before, ReceiverReplaced, HeardWell, SameForSockJS
<1> QED
  BY <1>3, <1>4 DEF x

-----------------------------------------------------------------------------
(* What the server does *)

LEMMA InterruptedIs ==
    ASSUME IInv
    PROVE  /\ Interrupted \in Session /\ Interrupted.over = TRUE
           /\ Interrupted.frames = srv.frames /\ srv.frames \in Nat
           /\ Interrupted.written = 2 * srv.frames /\ Interrupted.got = srv.got
<1> DEFINE w == 2 * srv.frames
<1>1. srv \in Session /\ srv.frames \in Nat /\ w \in 0 .. 2 * (MaxFrames + 1)
  BY Facts, HeardTypes
<1>2. Interrupted = [srv EXCEPT !.over = TRUE, !.written = w]
  BY DEF Interrupted
<1> HIDE DEF w
<1>3. /\ Interrupted \in Session /\ Interrupted.over = TRUE
      /\ Interrupted.frames = srv.frames
      /\ Interrupted.written = w /\ Interrupted.got = srv.got
  BY <1>1, <1>2 DEF Session
<1> QED
  BY <1>1, <1>3 DEF w

\* Without requests by objects, all that matters of what is written is how much.
LEMMA InterruptedOthers ==
    ASSUME IInv, ~Ajax, NEW y, HearInv(y, srv)
    PROVE  Interrupted \in Session /\ HearInv(y, Interrupted) /\ Interrupted.got = srv.got
<1>1. srv.frames \in Nat
  BY InterruptedIs
<1>2. /\ Interrupted \in Session /\ Interrupted.over = TRUE /\ Interrupted.frames = srv.frames
      /\ Interrupted.written = 2 * srv.frames /\ Interrupted.got = srv.got
  BY InterruptedIs
<1>3. (2 * srv.frames) % 2 = 0 /\ 2 * srv.frames <= 2 * (srv.frames + 1)
  BY <1>1
<1> QED
  BY <1>2, <1>3 DEF HearInv, HearCore, Made

LEMMA InterruptedAjax ==
    ASSUME IInv, Ajax, NEW y, HeardWell(y), ~y.listens,
           \A j \in DOMAIN y.receivers : y.receivers[j].phase # "open"
    PROVE  Interrupted \in Session /\ HearInv(y, Interrupted) /\ Interrupted.got = srv.got
<1>1. srv.frames \in Nat
  BY InterruptedIs
<1>2. /\ Interrupted \in Session /\ Interrupted.over = TRUE /\ Interrupted.frames = srv.frames
      /\ Interrupted.written = 2 * srv.frames /\ Interrupted.got = srv.got
  BY InterruptedIs
<1>3. 2 * srv.frames <= 2 * (srv.frames + 1)
  BY <1>1
<1> QED
  BY <1>2, <1>3 DEF HearInv, HearCore, Made, HeardWell

LEMMA GoodServerMakes ==
    ASSUME IInv, ServerMakes
    PROVE  StepTo(t', srv')
<1>1. /\ srv \in Session /\ srv.frames \in Nat /\ srv.frames <= MaxFrames /\ MaxFrames \in Nat
      /\ t' = t /\ t \in Transport /\ PollInv(t) /\ SenderInv(t) /\ OrderInv(t, srv.got)
      /\ HearInv(t, srv) /\ ~srv.over /\ Len(t.heard) \in Nat
  BY Facts, HeardTypes DEF ServerMakes
<1>2. /\ srv' \in Session /\ srv'.got = srv.got /\ srv'.written = srv.written
      /\ srv'.frames \in {srv.frames, srv.frames + 1}
      /\ srv'.over => srv'.frames = srv.frames
      /\ ~srv'.over => srv'.frames = srv.frames + 1
  <2>1. CASE srv' = [srv EXCEPT !.over = TRUE]
    BY <1>1, <2>1 DEF Session
  <2>2. CASE srv.frames < MaxFrames /\ srv' = [srv EXCEPT !.frames = @ + 1]
    <3> DEFINE n == srv.frames + 1
    <3>1. n \in 0 .. MaxFrames /\ srv' = [srv EXCEPT !.frames = n]
      BY <1>1, <2>2
    <3> HIDE DEF n
    <3>2. /\ srv' \in Session /\ srv'.got = srv.got /\ srv'.written = srv.written
          /\ srv'.frames = n /\ ~srv'.over
      BY <1>1, <3>1 DEF Session
    <3> QED
      BY <3>2 DEF n
  <2> QED
    BY <2>1, <2>2 DEF ServerMakes
<1>3. srv.written <= 2 * srv.frames /\ Made(srv') = srv.frames + 1
  <2>1. Made(srv) = srv.frames
    BY <1>1 DEF Made
  <2>2. Made(srv') = srv.frames + 1
    BY <1>1, <1>2 DEF Made
  <2> QED
    BY <1>1, <2>1, <2>2 DEF HearInv, HearCore
<1>4. HearInv(t, srv')
  <2>1. srv.written \in Nat /\ srv.written <= 2 * Made(srv')
    BY <1>1, <1>3, HeardTypes
  <2>2. Len(t.heard) <= srv'.frames
    BY <1>1, <1>2 DEF HearInv, HearCore
  <2>3. HearCore(t, srv')
    BY <1>1, <1>2, <2>1, <2>2 DEF HearInv, HearCore
  <2> QED
    BY <1>1, <1>2, <2>3 DEF HearInv
<1>5. Steps(t, t)
  BY StepKept DEF SameReceiving, SameForSockJS
<1> QED
  BY <1>1, <1>2, <1>4, <1>5 DEF StepTo, Good

-----------------------------------------------------------------------------
(* Requests by objects *)

LEMMA Halves ==
    ASSUME NEW w \in Nat
    PROVE  w \div 2 \in Nat /\ 2 * (w \div 2) <= w /\ w <= 2 * (w \div 2) + 1
OBVIOUS

LEMMA HalvesOrdered ==
    ASSUME NEW v \in Nat, NEW w \in Nat, v <= w
    PROVE  v \div 2 <= w \div 2
BY Halves

LEMMA GoodXhrStarts ==
    ASSUME IInv, NEW r \in DOMAIN t.receivers, XhrStarts(r)
    PROVE  StepTo(t', srv')
<1> DEFINE old == t.receivers[r]
           f == srv.written \div 2 + 1
           rec == [old EXCEPT !.phase = "open", !.first = f]
           y == withReceiver(t, r, rec)
<1>1. /\ srv \in Session /\ t \in Transport /\ PollInv(t) /\ PollCore(t) /\ SenderInv(t)
      /\ OrderInv(t, srv.got) /\ HearInv(t, srv) /\ Ajax /\ kind # "websocket"
      /\ old.phase = "scheduled" /\ old.pos = 0 /\ old \in Rec
  BY Facts, ReceiverTypes DEF XhrStarts, Ajax, PollCore, InPhase
<1>2. /\ r = t.poll
      /\ \A j \in DOMAIN t.receivers : j # r =>
           t.receivers[j].phase = "over" /\ ~t.receivers[j].listens
  BY <1>1, Polling
<1>3. f \in 0 .. MaxFrames + 2 /\ f >= 1 /\ srv.written \in Nat /\ f - 1 = srv.written \div 2
  BY <1>1, HeardTypes, Halves
<1>4. t' = y /\ srv' = srv
  BY DEF XhrStarts
<1> HIDE DEF f
<1>5. /\ rec \in Rec /\ rec.phase = "open" /\ rec.first = f /\ rec.pos = 0
      /\ rec.listens = old.listens /\ rec.late = old.late /\ rec.loading = old.loading
  BY <1>1, <1>3 DEF Rec
<1> HIDE DEF rec, old
<1>6. ReceiverReplaced(t, y, r, rec)
  BY <1>1, <1>5, WithReceiver
<1> HIDE DEF y
<1>7. InPhase(rec)
  BY <1>1, <1>5 DEF InPhase, PollCore, old
<1>8. IF r = t.poll THEN t.listens => rec.listens ELSE rec.phase = "over" /\ ~rec.listens
  BY <1>1, <1>2, <1>5 DEF PollInv, old
<1>9. /\ PollInv(y) /\ SenderInv(y) /\ OrderInv(y, srv.got)
  BY <1>1, <1>5, <1>6, <1>7, <1>8, ReceiverChanged DEF old
<1>10. HearInv(y, srv)
  <2>1. /\ y.heard = t.heard /\ y.listens = t.listens /\ DOMAIN y.receivers = DOMAIN t.receivers
        /\ \A j \in DOMAIN t.receivers : y.receivers[j] = IF j = r THEN rec ELSE t.receivers[j]
    BY <1>6 DEF ReceiverReplaced, SameForSockJS
  <2>2. ReadOn(rec) - 1 = srv.written \div 2 /\ rec.first >= 1
    BY <1>3, <1>5 DEF ReadOn
  <2>3. HearCore(y, srv)
    <3>1. \A j \in DOMAIN y.receivers : y.receivers[j].phase = "open" => j = r
      BY <1>2, <2>1
    <3>2. ReadOn(rec) - 1 <= srv.written \div 2
      BY <1>3, <2>2
    <3> QED
      BY <1>1, <2>1, <2>2, <3>1, <3>2 DEF HearInv, HearCore
  <2>4. \A j \in DOMAIN y.receivers : j # r => y.receivers[j].phase = "over"
    BY <1>2, <2>1
  <2>5. t.listens => Len(t.heard) = srv.written \div 2
    BY <1>1 DEF HearInv, old
  <2> QED
    BY <1>1, <1>5, <2>1, <2>2, <2>3, <2>4, <2>5 DEF HearInv
<1>11. Steps(t, y)
  BY <1>6, StepOfReceiver
<1>12. y \in Transport
  BY <1>6 DEF ReceiverReplaced
<1> QED
  BY <1>1, <1>4, <1>9, <1>10, <1>11, <1>12 DEF StepTo, Good

\* What has arrived is read.
LEMMA Chunk ==
    ASSUME IInv, Ajax, NEW r \in DOMAIN t.receivers, IsOpen(r), NEW halves \in Nat,
           srv.written <= halves, halves <= 2 * made,
           NEW s \in Session, s.frames = srv.frames, s.over = srv.over, s.written = halves,
           NEW y, y = _chunkHandler(t, r, halves)
    PROVE  /\ y \in Transport /\ PollInv(y) /\ SenderInv(y) /\ OrderInv(y, srv.got)
           /\ HeardWell(y) /\ Len(t.heard) <= Len(y.heard) /\ HearInv(y, s)
           /\ y.listens => Len(y.heard) = halves \div 2
           /\ t.listens /\ ~y.listens => NoneOpen(y)
           /\ ~t.listens => ~y.listens /\ y.heard = t.heard
           /\ Len(y.receivers) = Len(t.receivers) /\ DOMAIN y.receivers = DOMAIN t.receivers
           /\ \A j \in DOMAIN t.receivers : j # r => y.receivers[j] = t.receivers[j]
<1> DEFINE old == t.receivers[r]
           last == halves \div 2
           pos == last - old.first + 1
           rec == [old EXCEPT !.pos = pos]
           z == withReceiver(t, r, rec)
<1>1. /\ kind \in Kinds /\ srv \in Session /\ t \in Transport /\ PollInv(t) /\ PollCore(t)
      /\ SenderInv(t) /\ OrderInv(t, srv.got) /\ HearInv(t, srv) /\ HeardWell(t)
      /\ kind # "websocket" /\ old.phase = "open" /\ old \in Rec
  BY Facts, ReceiverTypes DEF Ajax, IsOpen
<1>2. /\ r = t.poll
      /\ \A j \in DOMAIN t.receivers : j # r =>
           t.receivers[j].phase = "over" /\ ~t.receivers[j].listens
  BY <1>1, Polling
<1>3. /\ srv.frames \in Nat /\ srv.frames <= MaxFrames /\ MaxFrames \in Nat
      /\ Len(t.heard) \in Nat /\ made \in Nat /\ made <= MaxFrames + 1
      /\ made = Made(srv) /\ srv.written \in Nat
  BY <1>1, HeardTypes
<1>4. last \in Nat /\ last <= made /\ srv.written \div 2 <= last /\ srv.written \div 2 \in Nat
  BY <1>3, Halves, HalvesOrdered
<1>5. /\ old.first \in Nat /\ old.pos \in Nat /\ old.first >= 1
      /\ old.first + old.pos - 1 <= srv.written \div 2
      /\ t.listens => Len(t.heard) = old.first + old.pos - 1
  BY <1>1, <1>3 DEF HearInv, HearCore, Rec, ReadOn
<1>6. y = PassOn(z, old.first + old.pos, last)
  BY DEF _chunkHandler, withReceiver
<1> HIDE DEF last
<1>7. pos \in 0 .. MaxFrames + 1 /\ old.first + pos - 1 = last
  <2> DEFINE a == old.first
             b == old.pos
             w == srv.written \div 2
  <2>1. /\ a \in Nat /\ b \in Nat /\ a >= 1 /\ a + b - 1 <= w /\ w <= last /\ w \in Nat
        /\ last \in Nat /\ last <= made /\ made <= MaxFrames + 1
        /\ made \in Nat /\ MaxFrames \in Nat
    BY <1>3, <1>4, <1>5
  <2> HIDE DEF a, b, w
  <2>2. last - a + 1 \in 0 .. MaxFrames + 1 /\ a + (last - a + 1) - 1 = last
    BY <2>1
  <2> QED
    BY <2>2 DEF a
<1> HIDE DEF pos
<1>8. /\ rec \in Rec /\ rec.phase = "open" /\ rec.first = old.first /\ rec.pos = pos
      /\ rec.listens = old.listens /\ rec.late = old.late /\ rec.loading = old.loading
  BY <1>1, <1>7 DEF Rec
<1> HIDE DEF rec, old
<1>9. ReceiverReplaced(t, z, r, rec)
  BY <1>1, <1>8, WithReceiver
<1> HIDE DEF z
<1>10. InPhase(rec)
  BY <1>1, <1>8 DEF InPhase, PollCore, old
<1>11. IF r = t.poll THEN t.listens => rec.listens ELSE rec.phase = "over" /\ ~rec.listens
  BY <1>1, <1>2, <1>8 DEF PollInv, old
<1>12. /\ PollInv(z) /\ SenderInv(z) /\ OrderInv(z, srv.got)
  BY <1>1, <1>8, <1>9, <1>10, <1>11, ReceiverChanged DEF old
<1>13. /\ z \in Transport /\ z.heard = t.heard /\ z.listens = t.listens /\ z.poll = t.poll
       /\ Len(z.receivers) = Len(t.receivers) /\ DOMAIN z.receivers = DOMAIN t.receivers
       /\ \A j \in DOMAIN t.receivers : z.receivers[j] = IF j = r THEN rec ELSE t.receivers[j]
  BY <1>9 DEF ReceiverReplaced, SameForSockJS
<1>14. HeardWell(z) /\ PollCore(z) /\ SenderCore(z)
  BY <1>1, <1>12, <1>13 DEF HeardWell, PollInv, SenderInv
<1> DEFINE start == old.first + old.pos
<1>15. start \in Nat /\ start >= 1 /\ start <= last + 1 /\ (z.listens => start = Len(z.heard) + 1)
  <2>1. start \in Nat /\ start >= 1 /\ start - 1 <= srv.written \div 2
    BY <1>5
  <2>2. t.listens => Len(t.heard) = start - 1
    BY <1>5
  <2> HIDE DEF start
  <2>3. start <= last + 1
    <3> DEFINE w == srv.written \div 2
    <3>1. w \in Nat /\ start - 1 <= w /\ w <= last
      BY <1>4, <2>1
    <3> HIDE DEF w
    <3> QED
      BY <1>4, <2>1, <3>1
  <2>4. z.listens => start = Len(z.heard) + 1
    BY <1>3, <1>13, <2>1, <2>2
  <2> QED
    BY <2>1, <2>3, <2>4
<1>16. y = PassOn(z, start, last)
  BY <1>6
<1> HIDE DEF start
<1>17. Passed(z, y, last)
  BY <1>1, <1>4, <1>13, <1>14, <1>15, <1>16, PassingFrames
<1>18. Len(z.heard) <= last \/ ~z.listens
  BY <1>3, <1>4, <1>13, <1>15
<1>19. PassedWell(z, y, last)
  BY <1>1, <1>4, <1>12, <1>13, <1>14, <1>17, <1>18, AfterPassing
<1>20. HearInv(y, s)
  <2>1. /\ DOMAIN y.receivers = DOMAIN t.receivers
        /\ \A j \in DOMAIN t.receivers : j # r => y.receivers[j].phase = "over"
        /\ y.receivers[r].phase = "open" => y.receivers[r] = rec
    BY <1>2, <1>13, <1>19 DEF PassedWell
  <2>2. ReadOn(rec) - 1 = last /\ rec.first >= 1
    BY <1>5, <1>7, <1>8 DEF ReadOn
  <2>3. halves <= 2 * Made(s) /\ last = s.written \div 2 /\ last <= last
    BY <1>3, <1>4 DEF Made, last
  <2>4. HearCore(y, s)
    BY <1>19, <2>1, <2>2, <2>3 DEF HearCore, PassedWell, HeardWell
  <2>5. y.listens => y.receivers[r] = rec /\ Len(y.heard) = last
    BY <1>13, <1>19 DEF PassedWell, SameReceiving
  <2> QED
    BY <1>8, <2>1, <2>2, <2>3, <2>4, <2>5 DEF HearInv
<1>21. y.listens => Len(y.heard) = halves \div 2
  BY <1>19 DEF PassedWell, last
<1> QED
  BY <1>2, <1>12, <1>13, <1>19, <1>20, <1>21 DEF PassedWell

LEMMA GoodReads ==
    ASSUME IInv, Ajax, NEW r \in DOMAIN t.receivers, NEW halves \in Nat,
           Arrives(r, halves), t' \in {t, _chunkHandler(t, r, halves)}
    PROVE  StepTo(t', srv')
<1>1. /\ srv \in Session /\ t \in Transport /\ PollInv(t) /\ SenderInv(t)
      /\ OrderInv(t, srv.got) /\ HearInv(t, srv) /\ kind # "websocket"
      /\ IsOpen(r) /\ halves \in srv.written + 1 .. 2 * made
      /\ t.receivers[r] \in Rec
  BY Facts, ReceiverTypes DEF Ajax, Arrives
<1>2. /\ made \in Nat /\ made <= MaxFrames + 1 /\ made = Made(srv) /\ srv.written \in Nat
      /\ MaxFrames \in Nat /\ Len(t.heard) \in Nat
  BY <1>1, HeardTypes
<1>3. srv.written <= halves /\ halves <= 2 * made /\ halves \in 0 .. 2 * (MaxFrames + 1)
  BY <1>1, <1>2
<1>4. /\ srv' \in Session /\ srv'.frames = srv.frames /\ srv'.over = srv.over
      /\ srv'.written = halves /\ srv'.got = srv.got
  <2>1. srv' = [srv EXCEPT !.written = halves]
    BY DEF Arrives
  <2> QED
    BY <1>1, <1>3, <2>1 DEF Session
<1>5. CASE t' = t
  <2>1. \A j \in DOMAIN t.receivers : j # r => t.receivers[j].phase = "over"
    BY <1>1, Polling DEF IsOpen
  <2>2. halves <= 2 * Made(srv') /\ srv.written \div 2 <= halves \div 2
    BY <1>2, <1>3, <1>4, HalvesOrdered DEF Made
  <2>3. HearCore(t, srv')
    <3>1. /\ t.receivers[r].first >= 1 /\ ReadOn(t.receivers[r]) - 1 <= srv.written \div 2
          /\ ReadOn(t.receivers[r]) \in Nat
      BY <1>1 DEF HearInv, HearCore, IsOpen, ReadOn, Rec
    <3>2. ReadOn(t.receivers[r]) - 1 <= halves \div 2
      BY <1>2, <2>2, <3>1, Halves
    <3> QED
      BY <1>1, <1>4, <2>1, <2>2, <3>1, <3>2 DEF HearInv, HearCore
  <2>4. HearInv(t, srv')
    BY <1>1, <2>1, <2>3 DEF HearInv, IsOpen
  <2>5. Steps(t, t)
    BY StepKept DEF SameReceiving, SameForSockJS
  <2> QED
    BY <1>1, <1>4, <1>5, <2>4, <2>5 DEF StepTo, Good
<1>6. CASE t' = _chunkHandler(t, r, halves)
  <2> DEFINE y == t'
             s == srv'
  <2>1. y = _chunkHandler(t, r, halves) /\ s \in Session /\ s.frames = srv.frames
        /\ s.over = srv.over /\ s.written = halves /\ s.got = srv.got
    BY <1>4, <1>6
  <2> HIDE DEF y, s
  <2>2. /\ y \in Transport /\ PollInv(y) /\ SenderInv(y) /\ OrderInv(y, srv.got)
        /\ HeardWell(y) /\ Len(t.heard) <= Len(y.heard) /\ HearInv(y, s)
        /\ t.listens /\ ~y.listens => NoneOpen(y)
        /\ ~t.listens => ~y.listens /\ y.heard = t.heard
        /\ Len(y.receivers) = Len(t.receivers) /\ DOMAIN y.receivers = DOMAIN t.receivers
        /\ \A j \in DOMAIN t.receivers : j # r => y.receivers[j] = t.receivers[j]
    BY <1>1, <1>3, <2>1, Chunk
  <2>3. r = t.poll
    BY <1>1, Polling DEF IsOpen
  <2>4. Steps(t, y)
    BY <2>2, <2>3 DEF Steps, OldTimersStep
  <2>5. StepTo(y, s)
    BY <2>1, <2>2, <2>4 DEF StepTo, Good
  <2> QED
    BY <2>5 DEF y, s
<1> QED
  BY <1>5, <1>6

LEMMA GoodXhrFinishes ==
    ASSUME IInv, NEW r \in DOMAIN t.receivers, XhrFinishes(r)
    PROVE  StepTo(t', srv')
<1> DEFINE w == srv.written
           x == _chunkHandler(t, r, w)
           e == ended(x, r)
           y == pollClosed(e, r, "network")
<1>1. /\ kind \in Kinds /\ srv \in Session /\ t \in Transport /\ HearInv(t, srv)
      /\ kind # "websocket" /\ Ajax /\ IsOpen(r) /\ t' = y /\ srv' = srv
      /\ w \in Nat /\ made = Made(srv)
  BY Facts, HeardTypes DEF XhrFinishes, Ajax
<1>2. r = t.poll
  BY <1>1, Polling DEF IsOpen
<1>3. w <= w /\ w <= 2 * made
  BY <1>1 DEF HearInv, HearCore
<1> HIDE DEF x
<1>4. /\ x \in Transport /\ PollInv(x) /\ SenderInv(x) /\ OrderInv(x, srv.got)
      /\ HeardWell(x) /\ Len(t.heard) <= Len(x.heard) /\ HearInv(x, srv)
      /\ x.listens => Len(x.heard) = w \div 2
      /\ t.listens /\ ~x.listens => NoneOpen(x)
      /\ ~t.listens => ~x.listens /\ x.heard = t.heard
      /\ Len(x.receivers) = Len(t.receivers) /\ DOMAIN x.receivers = DOMAIN t.receivers
      /\ \A j \in DOMAIN t.receivers : j # r => x.receivers[j] = t.receivers[j]
  BY <1>1, <1>3, Chunk DEF x
<1> DEFINE rec == [x.receivers[r] EXCEPT !.phase = "over"]
<1>5. rec.phase = "over"
  BY <1>4, ReceiverTypes DEF Rec
<1>6. /\ e \in Transport /\ ReceiverReplaced(x, e, r, rec) /\ PollInv(e) /\ SenderInv(e)
      /\ OrderInv(e, srv.got) /\ HearInv(e, srv)
  BY <1>1, <1>4, Ended
<1> HIDE DEF e, rec
<1>7. e.listens = x.listens /\ e.heard = x.heard
  BY <1>6 DEF ReceiverReplaced, SameForSockJS
<1>8. NoneOpen(x) => NoneOpen(e)
  BY <1>5, <1>6 DEF NoneOpen, ReceiverReplaced, SameSender
<1>9. Before(e, r)
  BY <1>4, <1>5, <1>6, <1>7, <1>8 DEF Before, ReceiverReplaced, HeardWell
<1> HIDE DEF y
<1>10. PollOver(e, y, r, "network") /\ Steps(t, y)
  BY <1>1, <1>2, <1>9, StepOfPolling DEF y
<1>11. HearInv(y, srv)
  BY <1>4, <1>6, <1>7, <1>10 DEF PollOver
<1>12. OrderInv(y, srv.got) /\ y \in Transport /\ PollInv(y) /\ SenderInv(y)
  BY <1>6, <1>10 DEF PollOver
<1> QED
  BY <1>1, <1>10, <1>11, <1>12 DEF StepTo, Good

LEMMA GoodXhrFails ==
    ASSUME IInv, NEW r \in DOMAIN t.receivers, XhrFails(r)
    PROVE  StepTo(t', srv')
<1> DEFINE e == ended(t, r)
           y == pollClosed(e, r, "permanent")
<1>1. /\ kind # "websocket" /\ Ajax /\ IsOpen(r) /\ t' = y /\ srv' = Interrupted
  BY DEF XhrFails, Ajax
<1>2. /\ r = t.poll
      /\ \A j \in DOMAIN t.receivers : j # r => t.receivers[j].phase = "over"
  BY <1>1, Polling DEF IsOpen
<1>3. Before(e, r)
  BY <1>1, BeforeEnd
<1>4. \A j \in DOMAIN e.receivers : e.receivers[j].phase = "over"
  <2>1. /\ PollInv(t) /\ t \in Transport
    BY Facts
  <2>2. ReceiverReplaced(t, e, r, [t.receivers[r] EXCEPT !.phase = "over"])
    BY <1>1, <2>1, Ended
  <2> QED
    BY <1>2, <1>3, <2>2 DEF ReceiverReplaced, Before
<1>5. e.poll = t.poll
  <2>1. /\ PollInv(t) /\ t \in Transport
    BY Facts
  <2>2. ReceiverReplaced(t, e, r, [t.receivers[r] EXCEPT !.phase = "over"])
    BY <1>1, <2>1, Ended
  <2> QED
    BY <2>2 DEF ReceiverReplaced
<1> HIDE DEF e
<1> HIDE DEF y
<1>6. PollOver(e, y, r, "permanent") /\ Steps(t, y)
  BY <1>1, <1>2, <1>3, StepOfPolling DEF y
<1>7. /\ OrderInv(y, srv.got) /\ y \in Transport /\ PollInv(y) /\ SenderInv(y)
      /\ ~y.listens /\ HeardWell(y)
  BY <1>2, <1>3, <1>5, <1>6 DEF PollOver, Before, HeardWell
<1>8. \A j \in DOMAIN y.receivers : y.receivers[j].phase # "open"
  BY <1>1, <1>4, <1>6 DEF PollOver
<1>9. Interrupted \in Session /\ HearInv(y, Interrupted) /\ Interrupted.got = srv.got
  BY <1>1, <1>7, <1>8, InterruptedAjax
<1> QED
  BY <1>1, <1>6, <1>7, <1>9 DEF StepTo, Good

-----------------------------------------------------------------------------
(* The other receivers *)

\* A frame arrives, after those heard so far.
LEMMA FrameHeard ==
    ASSUME IInv, ~Ajax, NEW x \in Transport, PollInv(x), SenderInv(x), HeardWell(x),
           HearInv(x, srv), srv.written < 2 * made,
           NEW y, y = emitMessage(x, srv.written \div 2 + 1),
           NEW s, s = [srv EXCEPT !.written = @ + 2]
    PROVE  /\ PassedWell(x, y, srv.written \div 2 + 1)
           /\ s \in Session /\ s.got = srv.got /\ HearInv(y, s)
<1> DEFINE n == srv.written \div 2 + 1
           w == 2 * n
<1>1. /\ kind \in Kinds /\ srv \in Session /\ srv.written \in Nat /\ made \in Nat
      /\ made <= MaxFrames + 1 /\ made = Made(srv) /\ MaxFrames \in Nat /\ srv.frames \in Nat
      /\ Len(x.heard) \in Nat
      /\ made = srv.frames \/ (made = srv.frames + 1 /\ srv.over)
  BY Facts, HeardTypes
<1>2. srv.written % 2 = 0
  BY DEF HearInv, HearCore
<1>3. n \in Nat /\ w = srv.written + 2 /\ n <= made /\ 2 * n = srv.written + 2
  BY <1>1, <1>2
<1>4. ~x.listens \/ n = Len(x.heard) + 1 \/ (srv.over /\ n = srv.frames + 1)
  <2>1. x.listens => 2 * Len(x.heard) = srv.written \/ (srv.over /\ srv.written = 2 * srv.frames)
    BY DEF HearInv
  <2> HIDE DEF n, w
  <2> QED
    BY ONLY <1>1, <1>3, <2>1
<1>5. y = emitMessage(x, n) /\ PollCore(x) /\ SenderCore(x)
  BY DEF PollInv, SenderInv
<1> HIDE DEF n, w
<1>6. ~IsClose(n) => n = Len(x.heard) + 1 \/ ~x.listens
  BY <1>4 DEF IsClose
<1>7. Passed(x, y, n)
  BY <1>1, <1>3, <1>5, <1>6, Emitting
<1>8. Len(x.heard) <= n \/ ~x.listens \/ IsClose(n)
  BY <1>1, <1>4 DEF IsClose
<1>9. PassedWell(x, y, n)
  BY <1>1, <1>3, <1>7, <1>8, AfterPassing
<1>10. s = [srv EXCEPT !.written = w]
  BY <1>3
<1>11. w \in 0 .. 2 * (MaxFrames + 1) /\ w <= 2 * made /\ w % 2 = 0
  BY <1>1, <1>3 DEF w
<1>12. /\ s \in Session /\ s.got = srv.got /\ s.frames = srv.frames /\ s.over = srv.over
       /\ s.written = w
  BY <1>1, <1>10, <1>11 DEF Session
<1>13. HearCore(y, s)
  <2>1. Made(s) = made
    BY <1>1, <1>12 DEF Made
  <2> QED
    BY <1>9, <1>11, <1>12, <2>1 DEF HearCore, PassedWell, HeardWell
<1>14. HearInv(y, s)
  BY <1>9, <1>12, <1>13 DEF HearInv, PassedWell, w
<1> QED
  BY <1>9, <1>12, <1>14 DEF n

LEMMA StepOfPassing ==
    ASSUME IInv, NEW y, NEW n, PassedWell(t, y, n)
    PROVE  Steps(t, y)
BY DEF PassedWell, Steps, OldTimersStep

LEMMA GoodFrameEvent ==
    ASSUME IInv, NEW r \in DOMAIN t.receivers, FrameEvent(r)
    PROVE  StepTo(t', srv')
<1> DEFINE y == t'
           s == srv'
<1>1. /\ t \in Transport /\ PollInv(t) /\ SenderInv(t) /\ HeardWell(t) /\ HearInv(t, srv)
      /\ OrderInv(t, srv.got)
  BY Facts
<1>2. /\ ~Ajax /\ srv.written < 2 * made /\ y = emitMessage(t, srv.written \div 2 + 1)
      /\ s = [srv EXCEPT !.written = @ + 2]
  BY DEF FrameEvent, Ajax
<1> HIDE DEF y, s
<1>3. /\ PassedWell(t, y, srv.written \div 2 + 1)
      /\ s \in Session /\ s.got = srv.got /\ HearInv(y, s)
  BY <1>1, <1>2, FrameHeard
<1>4. Steps(t, y)
  BY <1>3, StepOfPassing
<1>5. y \in Transport /\ PollInv(y) /\ SenderInv(y) /\ OrderInv(y, srv.got)
  BY <1>1, <1>3 DEF PassedWell
<1> QED
  BY <1>3, <1>4, <1>5 DEF StepTo, Good, y, s

\* SockJS, or the page, closes it.
LEMMA GoodClose ==
    ASSUME IInv, Close
    PROVE  StepTo(t', srv')
<1>1. /\ kind \in Kinds /\ srv \in Session /\ t \in Transport /\ PollCore(t) /\ SenderCore(t)
      /\ PollInv(t) /\ SenderInv(t)
  BY Facts
<1>2. t.listens /\ t' = close(t) /\ srv' = srv
  BY DEF Close
<1>3. Closes(t, t') /\ t'.heard = t.heard /\ (Closable(t) => NoneOpen(t'))
  BY <1>1, <1>2, Closing
<1>4. Closable(t)
  BY <1>1, <1>2 DEF Closable, PollInv, SenderInv
<1>5. Good(t', srv) /\ Steps(t, t')
  BY <1>3, <1>4, StepOfClosing
<1> QED
  BY <1>1, <1>2, <1>5 DEF StepTo

LEMMA GoodWebSocketClosed ==
    ASSUME IInv, WebSocketClosed
    PROVE  StepTo(t', srv')
<1> DEFINE c == emitClose(t)
           y == t'
<1>1. /\ kind \in Kinds /\ srv \in Session /\ t \in Transport /\ PollCore(t) /\ SenderCore(t)
      /\ PollInv(t) /\ SenderInv(t) /\ OrderInv(t, srv.got)
  BY Facts
<1>2. kind = "websocket" /\ y = [c EXCEPT !.buffer = <<>>] /\ srv' = srv
  BY DEF WebSocketClosed
<1>3. t.listens => t.told = 0
  BY <1>1 DEF PollInv
<1> HIDE DEF c, y
<1>4. Closes(t, c) /\ c.heard = t.heard /\ (Closable(t) => NoneOpen(c))
  BY <1>1, <1>3, ClosingItself DEF c
<1>5. Closable(t)
  BY <1>2 DEF Closable
<1>6. Good(c, srv) /\ Steps(t, c)
  BY <1>4, <1>5, StepOfClosing
<1>7. /\ y \in Transport /\ y.buffer = <<>> /\ y.posts = c.posts /\ y.post = c.post
      /\ y.stop = c.stop /\ y.sent = c.sent /\ SameReceiving(c, y) /\ SameForSockJS(c, y)
  <2>1. c \in Transport /\ <<>> \in Seq(1 .. MaxSends)
    BY <1>6 DEF Good
  <2> QED
    BY <1>2, <2>1 DEF Transport, SameReceiving, SameForSockJS
<1>8. Idle(c) /\ Idle(y) /\ c.post = 0
  BY <1>2, <1>6, <1>7 DEF Good, SenderInv, SenderCore, Idle
<1>9. SenderInv(y)
  BY <1>2, <1>6, <1>7, <1>8 DEF Good, SenderInv, SenderCore
<1>10. OrderInv(y, srv.got)
  <2>1. srv.got \in Seq(1 .. MaxSends) /\ srv.got = FirstNumbers(Len(srv.got))
    BY <1>1, <1>2 DEF Session, OrderInv, OrderCore
  <2>2. Line(y, srv.got) = srv.got
    BY <1>7, <1>8, <2>1, ConcatEmptySeq DEF Line, Pending
  <2>3. ~y.listens
    BY <1>4, <1>7 DEF Closes, SameForSockJS
  <2> QED
    BY <1>2, <2>1, <2>2, <2>3 DEF OrderInv, OrderCore
<1>11. PollInv(y) /\ HearInv(y, srv)
  BY <1>6, <1>7 DEF Good, PollInv, PollCore, HearInv, HearCore, SameReceiving, SameForSockJS
<1>12. Steps(t, y)
  BY <1>6, <1>7 DEF Steps, NoneOpen, OldTimersStep, HeardWell, SameReceiving, SameForSockJS
<1> QED
  BY <1>1, <1>2, <1>7, <1>9, <1>10, <1>11, <1>12 DEF StepTo, Good, y

\* Polling hears of the end of what was its receiver.
LEMMA OverOthers ==
    ASSUME IInv, ~Ajax, kind # "websocket", NEW r \in DOMAIN t.receivers, r = t.poll,
           NEW x, Before(x, r), NEW s \in Session, s.got = srv.got, HearInv(x, s),
           NEW reason, NEW y, y = pollClosed(x, r, reason)
    PROVE  StepTo(y, s)
<1>1. PollOver(x, y, r, reason) /\ Steps(t, y)
  BY StepOfPolling
<1>2. /\ y \in Transport /\ PollInv(y) /\ SenderInv(y) /\ OrderInv(y, s.got)
      /\ y.heard = x.heard /\ (y.listens => x.listens)
  BY <1>1 DEF PollOver, Before
<1>3. HearInv(y, s)
  BY <1>2, HearingOfOthers
<1> QED
  BY <1>1, <1>2, <1>3 DEF StepTo, Good

\* ... or is told, by a timer, of one that it may not have any more.
LEMMA TimerOver ==
    ASSUME IInv, ~Ajax, kind # "websocket", NEW r \in DOMAIN t.receivers,
           NEW x, NEW rec, ReceiverReplaced(t, x, r, rec), rec.phase = "over",
           PollInv(x), NEW reason, NEW y, y = pollClosed(x, r, reason)
    PROVE  StepTo(y, srv)
<1>1. /\ kind \in Kinds /\ srv \in Session /\ t \in Transport /\ SenderInv(t)
      /\ OrderInv(t, srv.got) /\ HearInv(t, srv) /\ HeardWell(t) /\ Len(t.heard) \in Nat
  BY Facts, HeardTypes
<1>2. /\ x \in Transport /\ SameSender(t, x) /\ SameForSockJS(t, x) /\ x.poll = t.poll
      /\ x.receivers[r].phase = "over" /\ DOMAIN x.receivers = DOMAIN t.receivers
  BY DEF ReceiverReplaced
<1>3. SenderInv(x) /\ OrderInv(x, srv.got)
  BY <1>1, <1>2, SenderKept DEF SameForSockJS
<1>4. HearInv(x, srv)
  BY <1>1, <1>2, HearingOfOthers DEF SameForSockJS
<1>5. CASE r = t.poll
  <2>1. Before(x, r)
    BY <1>1, <1>2, <1>3 DEF Before, ReceiverReplaced, SameForSockJS, HeardWell
  <2> QED
    BY <1>1, <1>4, <1>5, <2>1, OverOthers
<1>6. CASE r # t.poll
  <2>1. PollOver(x, y, r, reason)
    BY <1>1, <1>2, <1>3, PollClosing
  <2>2. y = x
    BY <1>2, <1>6, <2>1 DEF PollOver
  <2>3. Steps(t, x)
    BY StepOfReceiver
  <2> QED
    BY <1>1, <1>2, <1>3, <1>4, <2>2, <2>3 DEF StepTo, Good
<1> QED
  BY <1>5, <1>6

\* A receiver that is not over changes.
LEMMA StepOfOther ==
    ASSUME IInv, ~Ajax, kind # "websocket", NEW r \in DOMAIN t.receivers,
           t.receivers[r].phase # "over", NEW rec \in Rec, InPhase(rec),
           rec.listens = t.receivers[r].listens, rec.loading = t.receivers[r].loading,
           NEW y, y = withReceiver(t, r, rec), NEW s \in {srv, Interrupted}
    PROVE  StepTo(y, s)
<1>1. /\ srv \in Session /\ t \in Transport /\ PollInv(t) /\ SenderInv(t)
      /\ OrderInv(t, srv.got) /\ HearInv(t, srv)
  BY Facts
<1>2. ReceiverReplaced(t, y, r, rec)
  BY <1>1, WithReceiver
<1>3. r = t.poll
  BY Polling
<1>4. IF r = t.poll THEN t.listens => rec.listens ELSE rec.phase = "over" /\ ~rec.listens
  BY <1>1, <1>3 DEF PollInv
<1>5. PollInv(y) /\ SenderInv(y) /\ OrderInv(y, srv.got)
  BY <1>1, <1>2, <1>4, ReceiverChanged
<1>6. y \in Transport /\ HearInv(y, srv)
  BY <1>1, <1>2, HearingOfOthers DEF ReceiverReplaced, SameForSockJS
<1>7. s \in Session /\ HearInv(y, s) /\ s.got = srv.got
  BY <1>1, <1>6, InterruptedOthers
<1>8. Steps(t, y)
  BY <1>2, StepOfReceiver
<1> QED
  BY <1>5, <1>6, <1>7, <1>8 DEF StepTo, Good

\* Less is loading.
LEMMA LessLoading ==
    ASSUME IInv, ~Ajax, kind # "websocket", NEW r \in DOMAIN t.receivers,
           NEW rec \in Rec, rec.phase = t.receivers[r].phase,
           rec.listens = t.receivers[r].listens, rec.late = t.receivers[r].late,
           rec.pos = t.receivers[r].pos, rec.loading => t.receivers[r].loading,
           NEW y, y = withReceiver(t, r, rec)
    PROVE  StepTo(y, srv)
<1>1. /\ srv \in Session /\ t \in Transport /\ PollInv(t) /\ SenderInv(t)
      /\ OrderInv(t, srv.got) /\ HearInv(t, srv) /\ InPhase(t.receivers[r])
  BY Facts DEF PollCore
<1>2. ReceiverReplaced(t, y, r, rec)
  BY <1>1, WithReceiver
<1>3. InPhase(rec)
  BY <1>1 DEF InPhase
<1>4. IF r = t.poll THEN t.listens => rec.listens ELSE rec.phase = "over" /\ ~rec.listens
  BY <1>1 DEF PollInv, PollCore
<1>5. PollInv(y) /\ SenderInv(y) /\ OrderInv(y, srv.got)
  BY <1>1, <1>2, <1>3, <1>4, ReceiverChanged
<1>6. y \in Transport /\ HearInv(y, srv)
  BY <1>1, <1>2, HearingOfOthers DEF ReceiverReplaced, SameForSockJS
<1>7. Steps(t, y)
  BY <1>2, StepOfReceiver
<1> QED
  BY <1>1, <1>5, <1>6, <1>7 DEF StepTo, Good

LEMMA GoodEventSourceError ==
    ASSUME IInv, NEW r \in DOMAIN t.receivers, EventSourceError(r)
    PROVE  StepTo(t', srv')
<1> DEFINE old == t.receivers[r]
<1>1. /\ kind = "eventsource" /\ ~Ajax /\ old \in Rec /\ old.phase = "open"
      /\ srv' \in {srv, Interrupted}
  BY Facts, ReceiverTypes DEF EventSourceError, Ajax, IsOpen
<1>2. PICK reason \in {"network", "permanent"} :
        t' = withReceiver(t, r, [old EXCEPT !.phase = "over", !.late = {reason}])
  BY DEF EventSourceError
<1> DEFINE rec == [old EXCEPT !.phase = "over", !.late = {reason}]
<1>3. /\ rec \in Rec /\ rec.phase = "over" /\ rec.listens = old.listens
      /\ rec.loading = old.loading
  BY <1>1 DEF Rec
<1>0. InPhase(old)
  BY Facts DEF PollCore
<1>4. InPhase(rec)
  BY <1>0, <1>1, <1>3 DEF InPhase
<1> HIDE DEF rec
<1>5. t' = withReceiver(t, r, rec)
  BY <1>2 DEF rec
<1> QED
  BY <1>1, <1>3, <1>4, <1>5, StepOfOther

LEMMA GoodEventSourceClosed ==
    ASSUME IInv, NEW r \in DOMAIN t.receivers, EventSourceClosed(r)
    PROVE  StepTo(t', srv')
<1> DEFINE old == t.receivers[r]
<1>1. /\ kind = "eventsource" /\ ~Ajax /\ old \in Rec /\ srv' = srv
      /\ t \in Transport /\ PollInv(t)
  BY Facts, ReceiverTypes DEF EventSourceClosed, Ajax
<1>2. PICK reason \in old.late :
        t' = pollClosed([t EXCEPT !.receivers[r].late = @ \ {reason}], r, reason)
  BY DEF EventSourceClosed
<1> DEFINE rec == [old EXCEPT !.late = @ \ {reason}]
           x == withReceiver(t, r, rec)
<1>3. /\ rec \in Rec /\ rec.phase = old.phase /\ rec.listens = old.listens
      /\ rec.late \subseteq old.late /\ rec.loading = old.loading
  BY <1>1 DEF Rec
<1>4. old.phase = "over" /\ ~old.loading
  BY <1>1, <1>2 DEF PollInv, PollCore, InPhase
<1>5. InPhase(rec)
  BY <1>1, <1>3, <1>4 DEF InPhase
<1>6. t' = pollClosed(x, r, reason)
  BY <1>2 DEF withReceiver
<1> HIDE DEF rec
<1>7. ReceiverReplaced(t, x, r, rec)
  BY <1>1, <1>3, WithReceiver
<1> HIDE DEF x
<1>8. IF r = t.poll THEN t.listens => rec.listens ELSE rec.phase = "over" /\ ~rec.listens
  BY <1>1, <1>3, <1>4 DEF PollInv, PollCore
<1>9. PollInv(x)
  BY <1>1, <1>3, <1>4, <1>5, <1>7, <1>8, ReceiverChanged
<1> QED
  BY <1>1, <1>3, <1>4, <1>6, <1>7, <1>9, TimerOver

LEMMA GoodHtmlfileStarts ==
    ASSUME IInv, NEW r \in DOMAIN t.receivers, HtmlfileStarts(r)
    PROVE  StepTo(t', srv')
<1> DEFINE old == t.receivers[r]
           rec == [old EXCEPT !.phase = "open"]
<1>1. /\ kind = "htmlfile" /\ ~Ajax /\ old \in Rec /\ old.phase = "scheduled" /\ srv' = srv
      /\ InPhase(old)
  BY Facts, ReceiverTypes DEF HtmlfileStarts, Ajax, PollCore
<1>2. /\ rec \in Rec /\ rec.phase = "open" /\ rec.listens = old.listens /\ rec.late = old.late
      /\ rec.loading = old.loading
  BY <1>1 DEF Rec
<1>3. InPhase(rec)
  BY <1>1, <1>2 DEF InPhase
<1>4. t' = withReceiver(t, r, rec)
  BY DEF HtmlfileStarts, withReceiver
<1> HIDE DEF rec
<1> QED
  BY <1>1, <1>2, <1>3, <1>4, StepOfOther

LEMMA GoodHtmlfileCut ==
    ASSUME IInv, NEW r \in DOMAIN t.receivers, HtmlfileCut(r)
    PROVE  StepTo(t', srv')
<1> DEFINE old == t.receivers[r]
           rec == [old EXCEPT !.phase = "cut"]
<1>1. /\ kind = "htmlfile" /\ ~Ajax /\ old \in Rec /\ old.phase = "open" /\ srv' = Interrupted
      /\ InPhase(old)
  BY Facts, ReceiverTypes DEF HtmlfileCut, Ajax, PollCore, IsOpen
<1>2. /\ rec \in Rec /\ rec.phase = "cut" /\ rec.listens = old.listens /\ rec.late = old.late
      /\ rec.loading = old.loading
  BY <1>1 DEF Rec
<1>3. InPhase(rec)
  BY <1>1, <1>2 DEF InPhase
<1>4. t' = withReceiver(t, r, rec)
  BY DEF HtmlfileCut, withReceiver
<1> HIDE DEF rec
<1> QED
  BY <1>1, <1>2, <1>3, <1>4, StepOfOther

LEMMA GoodJsonpScriptError ==
    ASSUME IInv, NEW r \in DOMAIN t.receivers, JsonpScriptError(r)
    PROVE  StepTo(t', srv')
<1> DEFINE old == t.receivers[r]
           rec == [old EXCEPT !.late = {"onerror"}]
<1>1. /\ kind = "jsonp" /\ ~Ajax /\ old \in Rec /\ old.phase = "open" /\ srv' = srv
  BY Facts, ReceiverTypes DEF JsonpScriptError, Ajax, IsOpen
<1>2. /\ rec \in Rec /\ rec.phase = "open" /\ rec.listens = old.listens
      /\ rec.loading = old.loading
  BY <1>1 DEF Rec
<1>3. InPhase(rec)
  BY <1>1, <1>2 DEF InPhase
<1>4. t' = withReceiver(t, r, rec)
  BY DEF JsonpScriptError, withReceiver
<1> HIDE DEF rec
<1> QED
  BY <1>1, <1>2, <1>3, <1>4, StepOfOther

\* What the browser still loads does not matter to a transport that is closed.
LEMMA GivenUp ==
    ASSUME IInv, kind \in {"htmlfile", "jsonp"}, NEW r \in DOMAIN t.receivers,
           NEW y, StepTo(y, srv), ~y.listens, DOMAIN t.receivers \subseteq DOMAIN y.receivers
    PROVE  StepTo(givenUp(y, r), srv)
<1> DEFINE old == y.receivers[r]
           rec == [old EXCEPT !.loading = TRUE]
           z == givenUp(y, r)
<1>1. /\ srv \in Session /\ y \in Transport /\ PollInv(y) /\ SenderInv(y)
      /\ OrderInv(y, srv.got) /\ HearInv(y, srv) /\ Steps(t, y) /\ ~Ajax
      /\ kind # "websocket" /\ kind \in Kinds /\ old \in Rec
  BY Facts, ReceiverTypes DEF StepTo, Good, Ajax
<1>2. /\ rec \in Rec /\ rec.phase = old.phase /\ rec.listens = old.listens
      /\ rec.late = old.late /\ rec.pos = old.pos
  BY <1>1 DEF Rec
<1>3. z = withReceiver(y, r, rec)
  BY DEF givenUp, withReceiver
<1> HIDE DEF rec, old, z
<1>4. ReceiverReplaced(y, z, r, rec)
  BY <1>1, <1>2, <1>3, WithReceiver
<1>5. /\ z \in Transport /\ SameSender(y, z) /\ SameForSockJS(y, z) /\ z.poll = y.poll
      /\ z.closing = y.closing /\ Len(z.receivers) = Len(y.receivers)
      /\ DOMAIN z.receivers = DOMAIN y.receivers
      /\ \A j \in DOMAIN y.receivers : z.receivers[j] = IF j = r THEN rec ELSE y.receivers[j]
  BY <1>4 DEF ReceiverReplaced
<1>6. SenderInv(z) /\ OrderInv(z, srv.got)
  BY <1>1, <1>5, SenderKept DEF SameForSockJS
<1>7. HearInv(z, srv)
  BY <1>1, <1>5, HearingOfOthers DEF SameForSockJS
<1>8. \A j \in DOMAIN y.receivers :
        /\ z.receivers[j].phase = y.receivers[j].phase
        /\ z.receivers[j].listens = y.receivers[j].listens
        /\ z.receivers[j].late = y.receivers[j].late
        /\ z.receivers[j].pos = y.receivers[j].pos
  BY <1>2, <1>5 DEF old
<1>9. PollCore(z)
  <2>1. z.receivers # <<>>
    BY <1>1, <1>5, ReceiverTypes, EmptySeq DEF PollInv, PollCore
  <2>2. \A j \in DOMAIN z.receivers : InPhase(z.receivers[j])
    BY <1>1, <1>5, <1>8 DEF PollInv, PollCore, InPhase
  <2> QED
    BY <1>1, <1>5, <1>8, <2>1, <2>2 DEF PollInv, PollCore
<1>10. PollInv(z)
  BY <1>1, <1>5, <1>9 DEF PollInv, SameForSockJS
<1>11. Steps(t, z)
  <2>1. NoneOpen(y) => NoneOpen(z)
    BY <1>5, <1>8 DEF NoneOpen, SameSender
  <2>2. OldTimersStep(t, z)
    BY <1>1, <1>5, <1>8 DEF Steps, OldTimersStep, SameForSockJS
  <2> QED
    BY <1>1, <1>5, <2>1, <2>2 DEF Steps, HeardWell, SameForSockJS
<1>12. StepTo(z, srv)
  BY <1>1, <1>5, <1>6, <1>7, <1>10, <1>11 DEF StepTo, Good
<1> QED
  BY <1>12 DEF z

\* The actions that end a receiver at once.
LEMMA GoodEnds ==
    ASSUME IInv, NEW r \in DOMAIN t.receivers,
           HtmlfileStops(r) \/ HtmlfileError(r) \/ JsonpAborts(r)
    PROVE  StepTo(t', srv')
<1> DEFINE x == ended(t, r)
           y(reason) == pollClosed(x, r, reason)
<1>1. /\ ~Ajax /\ kind # "websocket" /\ srv' = srv /\ t.receivers[r].phase # "over"
      /\ srv \in Session /\ kind \in {"htmlfile", "jsonp"}
  BY Facts DEF HtmlfileStops, HtmlfileError, JsonpAborts, Ajax, IsOpen
<1>2. r = t.poll
  BY <1>1, Polling
<1>3. Before(x, r) /\ HearInv(x, srv)
  BY <1>1, BeforeEnd
<1> HIDE DEF x
<1>4. ASSUME NEW reason PROVE StepTo(y(reason), srv) /\ PollOver(x, y(reason), r, reason)
  BY <1>1, <1>2, <1>3, OverOthers, StepOfPolling
<1>5. CASE HtmlfileStops(r)
  <2>1. t' = y("network")
    BY <1>5 DEF HtmlfileStops, x
  <2> QED
    BY <1>1, <1>4, <2>1
<1>6. CASE HtmlfileError(r) \/ JsonpAborts(r)
  <2>1. PICK reason \in {"permanent", "abnormally"} : t' \in {y(reason), givenUp(y(reason), r)}
    BY <1>6 DEF HtmlfileError, JsonpAborts, x
  <2> DEFINE z == y(reason)
  <2>2. StepTo(z, srv) /\ PollOver(x, z, r, reason) /\ x.poll = t.poll
    BY <1>1, <1>4, Facts, Ended DEF ReceiverReplaced, x
  <2>3. ~z.listens /\ DOMAIN t.receivers \subseteq DOMAIN z.receivers
    BY <1>2, <1>3, <2>2 DEF PollOver, Before
  <2>4. t' = z \/ t' = givenUp(z, r)
    BY <2>1
  <2> HIDE DEF z
  <2>5. StepTo(givenUp(z, r), srv)
    BY <1>1, <2>2, <2>3, GivenUp
  <2> QED
    BY <1>1, <2>2, <2>4, <2>5
<1> QED
  BY <1>5, <1>6

LEMMA GoodJsonpCallback ==
    ASSUME IInv, NEW r \in DOMAIN t.receivers, JsonpCallback(r)
    PROVE  StepTo(t', srv')
<1> DEFINE e == ended(t, r)
           x == emitMessage(e, srv.written \div 2 + 1)
           y == t'
           s == srv'
<1>1. /\ ~Ajax /\ kind # "websocket" /\ t.receivers[r].phase # "over"
      /\ srv.written < 2 * made /\ y = pollClosed(x, r, "network")
      /\ s = [srv EXCEPT !.written = @ + 2]
  BY DEF JsonpCallback, Ajax, IsOpen
<1>2. r = t.poll
  BY <1>1, Polling
<1>3. Before(e, r) /\ HearInv(e, srv)
  BY <1>1, BeforeEnd
<1>4. ReceiverReplaced(t, e, r, [t.receivers[r] EXCEPT !.phase = "over"])
  BY <1>1, Facts, Ended
<1> HIDE DEF e, s, y
<1>5. e.listens = t.listens /\ e.heard = t.heard /\ e.poll = t.poll
  BY <1>4 DEF ReceiverReplaced, SameForSockJS
<1>6. x = emitMessage(e, srv.written \div 2 + 1)
  OBVIOUS
<1> HIDE DEF x
<1>7. /\ PassedWell(e, x, srv.written \div 2 + 1)
      /\ s \in Session /\ s.got = srv.got /\ HearInv(x, s)
  BY <1>1, <1>3, <1>6, FrameHeard DEF Before
<1>8. Before(x, r)
  BY <1>2, <1>3, <1>5, <1>7 DEF Before, PassedWell
<1>9. StepTo(y, s)
  BY <1>1, <1>2, <1>7, <1>8, OverOthers
<1> QED
  BY <1>9 DEF y, s

LEMMA GoodJsonpErrorTimer ==
    ASSUME IInv, NEW r \in DOMAIN t.receivers, JsonpErrorTimer(r)
    PROVE  StepTo(t', srv')
<1> DEFINE e == ended(t, r)
           rec == [t.receivers[r] EXCEPT !.phase = "over"]
           rec2 == [e.receivers[r] EXCEPT !.late = {}]
           x == withReceiver(e, r, rec2)
<1> DEFINE z == pollClosed(x, r, "onerror")
<1>1. /\ kind = "jsonp" /\ ~Ajax /\ kind # "websocket" /\ srv' = srv
      /\ (t' = z \/ (IsOpen(r) /\ t' = givenUp(z, r))) /\ t \in Transport /\ PollInv(t)
      /\ t.receivers[r] \in Rec /\ kind \in Kinds /\ SenderInv(t)
  BY Facts, ReceiverTypes DEF JsonpErrorTimer, Ajax, withReceiver
<1>2. e \in Transport /\ ReceiverReplaced(t, e, r, rec) /\ PollInv(e)
  BY <1>1, Ended
<1>3. /\ rec \in Rec /\ rec.phase = "over" /\ rec.loading = t.receivers[r].loading
  BY <1>1 DEF Rec
<1> HIDE DEF e, rec
<1>4. e.receivers[r] = rec /\ r \in DOMAIN e.receivers /\ e.listens = t.listens /\ e.poll = t.poll
  BY <1>2 DEF ReceiverReplaced, SameForSockJS
<1>5. rec2 \in Rec /\ rec2.phase = "over" /\ rec2.listens = rec.listens /\ rec2.late = {}
      /\ rec2.loading = rec.loading
  BY <1>3, <1>4 DEF Rec
<1> HIDE DEF rec2
<1>6. ReceiverReplaced(e, x, r, rec2)
  BY <1>2, <1>4, <1>5, WithReceiver
<1> HIDE DEF x
<1>7. InPhase(rec2)
  BY <1>1, <1>5 DEF InPhase
<1>8. IF r = e.poll THEN e.listens => rec2.listens ELSE rec2.phase = "over" /\ ~rec2.listens
  BY <1>1, <1>2, <1>4, <1>5 DEF PollInv, PollCore
<1>9. PollInv(x)
  BY <1>1, <1>2, <1>4, <1>5, <1>6, <1>7, <1>8, ReceiverChanged
<1>10. ReceiverReplaced(t, x, r, rec2)
  BY <1>2, <1>6 DEF ReceiverReplaced, SameSender, SameForSockJS
<1> HIDE DEF z
<1>11. StepTo(z, srv)
  BY <1>1, <1>5, <1>9, <1>10, TimerOver DEF z
<1>12. CASE IsOpen(r) /\ t' = givenUp(z, r)
  <2>1. r = t.poll
    BY <1>1, <1>12, Polling DEF IsOpen
  <2>2. /\ x \in Transport /\ x.poll = t.poll /\ DOMAIN x.receivers = DOMAIN t.receivers
        /\ x.receivers[r].phase = "over" /\ SenderInv(x)
    BY <1>1, <1>5, <1>10, SenderKept DEF ReceiverReplaced, SameForSockJS
  <2>3. PollOver(x, z, r, "onerror")
    BY <1>1, <1>9, <2>2, PollClosing DEF z
  <2>4. ~z.listens /\ DOMAIN t.receivers \subseteq DOMAIN z.receivers
    BY <2>1, <2>2, <2>3 DEF PollOver
  <2> QED
    BY <1>1, <1>11, <1>12, <2>4, GivenUp
<1> QED
  BY <1>1, <1>11, <1>12

\* The iframe of a receiver that was let go of is removed.
LEMMA GoodHtmlfileRemoved ==
    ASSUME IInv, NEW r \in DOMAIN t.receivers, HtmlfileRemoved(r)
    PROVE  StepTo(t', srv')
<1> DEFINE old == t.receivers[r]
           rec == [old EXCEPT !.loading = FALSE]
<1>1. /\ kind = "htmlfile" /\ ~Ajax /\ old \in Rec /\ srv' = srv /\ srv \in Session
      /\ t \in Transport /\ PollInv(t) /\ SenderInv(t) /\ OrderInv(t, srv.got)
      /\ HearInv(t, srv) /\ InPhase(old) /\ kind # "websocket"
  BY Facts, ReceiverTypes DEF HtmlfileRemoved, Ajax, PollCore
<1>2. /\ rec \in Rec /\ rec.phase = old.phase /\ rec.listens = old.listens
      /\ rec.late = old.late /\ rec.pos = old.pos /\ rec.loading = FALSE
  BY <1>1 DEF Rec
<1>3. t' = withReceiver(t, r, rec)
  BY DEF HtmlfileRemoved, withReceiver
<1> HIDE DEF rec
<1> QED
  BY <1>1, <1>2, <1>3, LessLoading

\* The server has answered a poll that nobody hears of.
LEMMA GoodUnheardFrame ==
    ASSUME IInv, NEW r \in DOMAIN t.receivers, UnheardFrame(r)
    PROVE  StepTo(t', srv')
<1> DEFINE old == t.receivers[r]
           rec == [old EXCEPT !.loading = kind # "jsonp"]
           w == srv.written + 2
<1>1. /\ ~Ajax /\ old \in Rec /\ srv \in Session /\ old.loading
      /\ t \in Transport /\ PollInv(t) /\ SenderInv(t) /\ OrderInv(t, srv.got)
      /\ HearInv(t, srv) /\ InPhase(old) /\ kind # "websocket" /\ srv.written < 2 * made
  BY Facts, ReceiverTypes DEF UnheardFrame, Ajax, PollCore, InPhase
<1>2. /\ rec \in Rec /\ rec.phase = old.phase /\ rec.listens = old.listens
      /\ rec.late = old.late /\ rec.pos = old.pos /\ (rec.loading => old.loading)
  BY <1>1 DEF Rec
<1>3. t' = withReceiver(t, r, rec)
  BY DEF UnheardFrame, withReceiver
<1> HIDE DEF rec
<1>4. StepTo(t', srv) /\ t'.listens = t.listens
  BY <1>1, <1>2, <1>3, LessLoading, WithReceiver DEF ReceiverReplaced, SameForSockJS
<1>5. ~t.listens
  BY <1>1 DEF PollInv
<1>6. /\ srv.written \in Nat /\ made \in Nat /\ made <= MaxFrames + 1 /\ made = Made(srv)
      /\ MaxFrames \in Nat /\ srv.written % 2 = 0
  BY <1>1, HeardTypes DEF HearInv, HearCore
<1>7. w \in 0 .. 2 * (MaxFrames + 1) /\ w <= 2 * made /\ w % 2 = 0
  BY <1>1, <1>6
<1>8. srv' = [srv EXCEPT !.written = w]
  BY DEF UnheardFrame
<1> HIDE DEF w
<1>9. /\ srv' \in Session /\ srv'.got = srv.got /\ srv'.frames = srv.frames
      /\ srv'.over = srv.over /\ srv'.written = w
  BY <1>1, <1>7, <1>8 DEF Session
<1>10. HearInv(t', srv')
  BY <1>1, <1>4, <1>5, <1>6, <1>7, <1>9 DEF StepTo, Good, HearInv, HearCore, Made
<1> QED
  BY <1>4, <1>9, <1>10 DEF StepTo, Good

-----------------------------------------------------------------------------
(* The sender *)

\* A step of the sender leaves the receivers alone; of the session it changes what
\* the server has got.
LEMMA StepOfSender ==
    ASSUME IInv, NEW y \in Transport, SameReceiving(t, y), SameForSockJS(t, y), SenderInv(y),
           NEW q \in Seq(1 .. MaxSends), NEW s, s = [srv EXCEPT !.got = q], OrderInv(y, q)
    PROVE  StepTo(y, s)
<1>1. srv \in Session
  BY Facts
<1>2. PollInv(y) /\ HearInv(y, srv) /\ Steps(t, y)
  BY StepKept
<1>3. /\ s \in Session /\ s.got = q
      /\ s.frames = srv.frames /\ s.over = srv.over /\ s.written = srv.written
  BY <1>1 DEF Session
<1>4. HearInv(y, s)
  BY <1>2, <1>3 DEF HearInv, HearCore, Made
<1> QED
  BY <1>2, <1>3, <1>4 DEF StepTo, Good

\* The same when the server gets nothing.
LEMMA StepOfSenderAlone ==
    ASSUME IInv, NEW y \in Transport, SameReceiving(t, y), SameForSockJS(t, y), SenderInv(y),
           OrderInv(y, srv.got)
    PROVE  StepTo(y, srv)
<1>1. srv \in Session /\ srv.got \in Seq(1 .. MaxSends)
  BY Facts DEF Session
<1>2. PollInv(y) /\ HearInv(y, srv) /\ Steps(t, y)
  BY StepKept
<1> QED
  BY <1>1, <1>2 DEF StepTo, Good

\* The order as long as nothing has failed.
InLine(x, got) ==
    IF kind = "jsonp" THEN Increasing(Line(x, got)) /\ AtMost(Line(x, got), x.sent)
    ELSE /\ got = FirstNumbers(Len(got))
         /\ Line(x, got) = FirstNumbers(Len(Line(x, got)))
         /\ x.listens => Line(x, got) = FirstNumbers(x.sent)

LEMMA OrderOfLine ==
    ASSUME NEW x, NEW got
    PROVE  /\ InLine(x, got) => OrderInv(x, got)
           /\ OrderInv(x, got) /\ ~Gone(x) => InLine(x, got)
BY DEF InLine, OrderInv, OrderCore

\* What waits is of the right type.
LEMMA LineTypes ==
    ASSUME NEW x \in Transport, SenderCore(x), NEW got \in Seq(1 .. MaxSends)
    PROVE  /\ Pending(x) \in Seq(1 .. MaxSends) /\ x.buffer \in Seq(1 .. MaxSends)
           /\ got \o Pending(x) \in Seq(1 .. MaxSends) /\ Line(x, got) \in Seq(1 .. MaxSends)
<1> DEFINE S == 1 .. MaxSends
<1>1. x.buffer \in Seq(S) /\ x.post \in Nat /\ x.post = Len(x.posts)
  BY DEF Transport, SenderCore
<1>2. <<>> \in Seq(S)
  OBVIOUS
<1>3. ~Idle(x) => x.posts[x.post].msgs \in Seq(S)
  BY <1>1, PostTypes DEF Idle, APost
<1>4. Pending(x) \in Seq(S)
  BY <1>2, <1>3 DEF Pending
<1> HIDE DEF S
<1>5. got \in Seq(S)
  BY DEF S
<1>6. got \o Pending(x) \in Seq(S)
  BY <1>4, <1>5, ConcatProperties
<1>7. Line(x, got) \in Seq(S)
  BY <1>1, <1>6, ConcatProperties DEF Line
<1> QED
  BY <1>1, <1>4, <1>6, <1>7 DEF S

\* A post is added.
newPost(x, post) ==
    [x EXCEPT !.posts = Append(@, post), !.post = Len(x.posts) + 1,
              !.stop = "abort", !.buffer = <<>>]

PostAdded(x, y, post) ==
    /\ y \in Transport /\ y.stop = "abort" /\ y.buffer = <<>> /\ y.sent = x.sent
    /\ y.post = Len(x.posts) + 1 /\ Len(y.posts) = Len(x.posts) + 1
    /\ \A p \in DOMAIN x.posts : y.posts[p] = x.posts[p]
    /\ y.posts[y.post] = post
    /\ SameReceiving(x, y) /\ SameForSockJS(x, y)

LEMMA WithNewPost ==
    ASSUME NEW x \in Transport, NEW post \in APost
    PROVE  PostAdded(x, newPost(x, post), post)
<1> DEFINE y == newPost(x, post)
           old == x.posts
           q == Append(old, post)
           n == Len(old) + 1
<1>1. old \in Seq(APost) /\ <<>> \in Seq(1 .. MaxSends)
  BY DEF Transport
<1> HIDE DEF old
<1>2. /\ q \in Seq(APost) /\ Len(q) = n /\ q[n] = post /\ n \in Nat
      /\ \A p \in DOMAIN old : q[p] = old[p]
  <2>1. Len(old) \in Nat /\ DOMAIN old = 1 .. Len(old)
    BY <1>1, LenProperties
  <2> QED
    BY <1>1, <2>1, AppendProperties
<1> HIDE DEF q, n
<1>3. y = [x EXCEPT !.posts = q, !.post = n, !.stop = "abort", !.buffer = <<>>]
  BY DEF newPost, q, n, old
<1> HIDE DEF y
<1>4. /\ y \in Transport /\ y.stop = "abort" /\ y.buffer = <<>> /\ y.sent = x.sent
      /\ y.post = n /\ y.posts = q
      /\ SameReceiving(x, y) /\ SameForSockJS(x, y)
  BY <1>1, <1>2, <1>3 DEF Transport, SameReceiving, SameForSockJS
<1>5. PostAdded(x, y, post)
  BY <1>2, <1>4 DEF PostAdded, n, old
<1> QED
  BY <1>5 DEF y

\* What waits becomes a post: the order is the same.
Scheduled(x, y) ==
    /\ y \in Transport /\ SenderInv(y) /\ y.sent = x.sent
    /\ SameReceiving(x, y) /\ SameForSockJS(x, y)
    /\ \A got \in Seq(1 .. MaxSends) : Line(y, got) = Line(x, got)

LEMMA SchedulingPost ==
    ASSUME NEW x \in Transport, kind # "websocket", SenderCore(x), Idle(x), x.stop = "null"
    PROVE  Scheduled(x, sendSchedule(x))
<1> DEFINE y == sendSchedule(x)
           new == IF kind = "jsonp" THEN FormPost(x.buffer) ELSE AjaxPost(x.buffer)
<1>1. CASE x.buffer = <<>>
  <2>1. y = x
    BY <1>1 DEF sendSchedule
  <2>2. SenderInv(x)
    BY <1>1 DEF SenderInv
  <2> QED
    BY <2>1, <2>2 DEF Scheduled, SameReceiving, SameForSockJS
<1>2. CASE x.buffer # <<>>
  <2>1. y = newPost(x, new)
    BY <1>2 DEF sendSchedule, newPost
  <2>2. x.buffer \in Seq(1 .. MaxSends)
    BY DEF Transport
  <2>3. /\ new \in APost /\ new.calls /\ ~new.arrived /\ new.msgs = x.buffer
        /\ new.phase \in {"scheduled", "open"} /\ (new.phase = "scheduled" => kind # "jsonp")
    BY <2>2 DEF APost, FormPost, AjaxPost
  <2> HIDE DEF y, new
  <2>4. /\ y \in Transport /\ y.stop = "abort" /\ y.buffer = <<>> /\ y.sent = x.sent
        /\ y.post = Len(x.posts) + 1 /\ Len(y.posts) = Len(x.posts) + 1
        /\ \A p \in DOMAIN x.posts : y.posts[p] = x.posts[p]
        /\ y.posts[y.post] = new
        /\ SameReceiving(x, y) /\ SameForSockJS(x, y)
    BY <2>1, <2>3, WithNewPost DEF PostAdded
  <2>5. /\ Len(x.posts) \in Nat /\ DOMAIN x.posts = 1 .. Len(x.posts)
        /\ DOMAIN y.posts = 1 .. Len(x.posts) + 1
    BY <2>4, PostTypes
  <2>6. ~Idle(y)
    BY <2>3, <2>4, <2>5 DEF Idle
  <2>7. \A p \in DOMAIN x.posts : x.posts[p].phase = "over"
    BY DEF SenderCore, Idle
  <2>8. SenderCore(y)
    BY <2>3, <2>4, <2>5, <2>6, <2>7 DEF SenderCore
  <2>9. Pending(y) = x.buffer /\ Pending(x) = <<>>
    BY <2>3, <2>4, <2>6 DEF Pending
  <2>10. ASSUME NEW got \in Seq(1 .. MaxSends)
         PROVE  Line(y, got) = Line(x, got)
    <3>1. got \o x.buffer \in Seq(1 .. MaxSends)
      BY <2>2, ConcatProperties
    <3>2. Line(x, got) = got \o x.buffer
      BY <2>9, ConcatEmptySeq DEF Line
    <3>3. Line(y, got) = got \o x.buffer
      BY <2>4, <2>9, <3>1, ConcatEmptySeq DEF Line
    <3> QED
      BY <3>2, <3>3
  <2>11. SenderInv(y)
    BY <2>4, <2>8 DEF SenderInv
  <2> QED
    BY <2>4, <2>10, <2>11 DEF Scheduled, y
<1> QED
  BY <1>1, <1>2

\* A message is added to those that wait.
Buffered(x, y) ==
    /\ y \in Transport /\ y.sent = x.sent + 1 /\ y.stop = x.stop
    /\ y.post = x.post /\ y.posts = x.posts
    /\ y.buffer = Append(x.buffer, x.sent + 1)
    /\ SameReceiving(x, y) /\ SameForSockJS(x, y)

LEMMA Buffering ==
    ASSUME NEW x \in Transport, x.sent < MaxSends
    PROVE  Buffered(x, [x EXCEPT !.sent = @ + 1, !.buffer = Append(@, x.sent + 1)])
<1> DEFINE y == [x EXCEPT !.sent = @ + 1, !.buffer = Append(@, x.sent + 1)]
           n == x.sent + 1
           b == Append(x.buffer, n)
<1>1. n \in 0 .. MaxSends /\ n \in 1 .. MaxSends
  BY TransportsAssumption DEF Transport
<1>2. b \in Seq(1 .. MaxSends)
  <2>1. x.buffer \in Seq(1 .. MaxSends)
    BY DEF Transport
  <2> HIDE DEF n
  <2> QED
    BY <1>1, <2>1, AppendProperties
<1>3. y = [x EXCEPT !.sent = n, !.buffer = b]
  OBVIOUS
<1> HIDE DEF y, n, b
<1>4. /\ y \in Transport /\ y.sent = n /\ y.stop = x.stop
      /\ y.post = x.post /\ y.posts = x.posts /\ y.buffer = b
      /\ SameReceiving(x, y) /\ SameForSockJS(x, y)
  BY <1>1, <1>2, <1>3 DEF Transport, SameReceiving, SameForSockJS
<1>5. Buffered(x, y)
  BY <1>4 DEF Buffered, n, b
<1> QED
  BY <1>5 DEF y

\* It is the last in line.
LEMMA BufferedInLine ==
    ASSUME NEW x \in Transport, SenderCore(x), NEW y, Buffered(x, y), x.sent < MaxSends,
           NEW got \in Seq(1 .. MaxSends), InLine(x, got), x.listens
    PROVE  SenderCore(y) /\ InLine(y, got) /\ Idle(y) = Idle(x)
<1> DEFINE S == 1 .. MaxSends
           l == Line(x, got)
           n == x.sent
<1>1. Idle(y) = Idle(x) /\ Pending(y) = Pending(x)
  BY DEF Buffered, Idle, Pending
<1>2. SenderCore(y)
  BY <1>1 DEF Buffered, SenderCore
<1>3. /\ Pending(x) \in Seq(S) /\ x.buffer \in Seq(S) /\ got \o Pending(x) \in Seq(S)
      /\ l \in Seq(S)
  BY LineTypes
<1>4. n \in Nat /\ n + 1 \in S /\ S \in SUBSET Nat /\ 1 .. n \subseteq S
  BY TransportsAssumption DEF Transport
<1>5. Line(y, got) = Append(l, n + 1)
  <2> DEFINE a == got \o Pending(x)
             b == x.buffer
  <2>1. a \in Seq(S) /\ b \in Seq(S) /\ n + 1 \in S
    BY <1>3, <1>4
  <2>2. y.buffer = Append(b, n + 1) /\ Line(y, got) = a \o y.buffer /\ l = a \o b
    BY <1>1 DEF Buffered, Line
  <2> HIDE DEF a, b, l, n, S
  <2> QED
    BY <2>1, <2>2, AppendOfConcat
<1> HIDE DEF S, l, n
<1>6. CASE kind = "jsonp"
  <2>1. Increasing(l) /\ AtMost(l, n)
    BY <1>6 DEF InLine, l, n
  <2>2. Increasing(Append(l, n + 1)) /\ AtMost(Append(l, n + 1), n + 1)
    BY <1>3, <1>4, <2>1, GreaterAppended
  <2>3. y.sent = n + 1
    BY DEF Buffered, n
  <2> QED
    BY <1>1, <1>2, <1>5, <1>6, <2>2, <2>3 DEF InLine
<1>7. CASE kind # "jsonp"
  <2>1. got = FirstNumbers(Len(got)) /\ l = FirstNumbers(n)
    BY <1>7 DEF InLine, l, n
  <2>2. Len(l) = n
    BY <1>4, <2>1, FirstNumbersAre
  <2>3. l = FirstNumbers(Len(l)) /\ Len(l) + 1 \in S
    BY <1>4, <2>1, <2>2
  <2>4. Append(l, Len(l) + 1) = FirstNumbers(Len(l) + 1) /\ Len(Append(l, Len(l) + 1)) = Len(l) + 1
    BY <1>3, <2>3, NumberAppended
  <2>5. y.sent = n + 1
    BY DEF Buffered, n
  <2> QED
    BY <1>1, <1>2, <1>5, <1>7, <2>1, <2>2, <2>4, <2>5 DEF InLine
<1> QED
  BY <1>6, <1>7

LEMMA Goodsend ==
    ASSUME IInv, send \/ wsSend
    PROVE  StepTo(t', srv')
<1> DEFINE b == [t EXCEPT !.sent = @ + 1, !.buffer = Append(@, t.sent + 1)]
           y == t'
<1>1. /\ kind \in Kinds /\ srv \in Session /\ t \in Transport /\ SenderInv(t) /\ SenderCore(t)
      /\ OrderInv(t, srv.got) /\ srv.got \in Seq(1 .. MaxSends)
  BY Facts DEF Session
<1>2. /\ t.listens /\ t.sent < MaxSends /\ srv' = srv
      /\ y = IF kind # "websocket" /\ t.stop = "null" THEN sendSchedule(b) ELSE b
  BY DEF send, wsSend
<1>3. Buffered(t, b)
  BY <1>1, <1>2, Buffering
<1> HIDE DEF b
<1>4. InLine(t, srv.got)
  <2>1. kind = "jsonp" \/ kind # "jsonp"
    OBVIOUS
  <2>2. kind # "jsonp" => Line(t, srv.got) = FirstNumbers(t.sent)
    BY <1>1, <1>2 DEF OrderInv
  <2>3. t.sent \in Nat /\ 1 .. t.sent \subseteq 1 .. MaxSends
    BY <1>1, TransportsAssumption DEF Transport
  <2>4. Len(FirstNumbers(t.sent)) = t.sent
    BY <2>3, FirstNumbersAre
  <2> QED
    BY <1>1, <2>2, <2>4 DEF InLine, OrderInv, OrderCore
<1>5. SenderCore(b) /\ InLine(b, srv.got) /\ Idle(b) = Idle(t)
  BY <1>1, <1>2, <1>3, <1>4, BufferedInLine
<1> HIDE DEF y
<1>6. CASE kind # "websocket" /\ t.stop = "null"
  <2>1. Idle(t)
    BY <1>1, <1>2, <1>6 DEF SenderInv
  <2>2. b \in Transport /\ b.stop = "null" /\ Idle(b)
    BY <1>3, <1>5, <1>6, <2>1 DEF Buffered
  <2>3. Scheduled(b, y)
    BY <1>2, <1>5, <1>6, <2>2, SchedulingPost
  <2>4. y.listens = b.listens /\ y.sent = b.sent /\ Line(y, srv.got) = Line(b, srv.got)
    BY <1>1, <2>3 DEF Scheduled, SameForSockJS
  <2>5. InLine(y, srv.got)
    BY <1>5, <2>4 DEF InLine
  <2>6. OrderInv(y, srv.got)
    BY <2>5, OrderOfLine
  <2>7. y \in Transport /\ SameReceiving(t, y) /\ SameForSockJS(t, y) /\ SenderInv(y)
    BY <1>3, <2>3 DEF Buffered, Scheduled, SameReceiving, SameForSockJS
  <2>8. StepTo(y, srv)
    BY <2>6, <2>7, StepOfSenderAlone
  <2> QED
    BY <1>2, <2>8 DEF y
<1>7. CASE ~(kind # "websocket" /\ t.stop = "null")
  <2>1. y = b
    BY <1>2, <1>7
  <2>2. SenderInv(b)
    BY <1>1, <1>2, <1>3, <1>5, <1>7 DEF SenderInv, Buffered
  <2>3. OrderInv(b, srv.got)
    BY <1>5, OrderOfLine
  <2>4. StepTo(b, srv)
    BY <1>3, <2>2, <2>3, StepOfSenderAlone DEF Buffered
  <2> QED
    BY <1>2, <2>1, <2>4 DEF y
<1> QED
  BY <1>6, <1>7

\* Waiting is over.
LEMMA GoodWaitOver ==
    ASSUME IInv, WaitOver
    PROVE  StepTo(t', srv')
<1> DEFINE x == [t EXCEPT !.stop = "null"]
           y == t'
<1>1. /\ kind \in Kinds /\ srv \in Session /\ t \in Transport /\ SenderInv(t) /\ SenderCore(t)
      /\ OrderInv(t, srv.got) /\ srv.got \in Seq(1 .. MaxSends)
  BY Facts DEF Session
<1>2. t.stop = "wait" /\ srv' = srv /\ y = sendSchedule(x)
  BY DEF WaitOver
<1>3. /\ x \in Transport /\ x.stop = "null" /\ x.sent = t.sent /\ x.post = t.post
      /\ x.posts = t.posts /\ x.buffer = t.buffer
      /\ SameReceiving(t, x) /\ SameForSockJS(t, x)
  BY <1>1 DEF Transport, SameReceiving, SameForSockJS
<1> HIDE DEF x, y
<1>4. kind # "websocket" /\ Idle(t) /\ ~Gone(t)
  BY <1>1, <1>2 DEF SenderCore, Gone
<1>5. Idle(x) /\ SenderCore(x)
  BY <1>1, <1>2, <1>3, <1>4 DEF SenderCore, Idle
<1>6. Scheduled(x, y)
  BY <1>2, <1>3, <1>4, <1>5, SchedulingPost
<1>7. Line(x, srv.got) = Line(t, srv.got)
  BY <1>3, <1>4, <1>5 DEF Line, Pending
<1>8. /\ y.listens = t.listens /\ y.sent = t.sent /\ Line(y, srv.got) = Line(t, srv.got)
      /\ y \in Transport /\ SenderInv(y) /\ SameReceiving(t, y) /\ SameForSockJS(t, y)
  BY <1>1, <1>3, <1>6, <1>7 DEF Scheduled, SameReceiving, SameForSockJS
<1>9. InLine(t, srv.got)
  BY <1>1, <1>4, OrderOfLine
<1>10. InLine(y, srv.got)
  BY <1>8, <1>9 DEF InLine
<1>11. OrderInv(y, srv.got)
  BY <1>10, OrderOfLine
<1>12. StepTo(y, srv)
  BY <1>8, <1>11, StepOfSenderAlone
<1> QED
  BY <1>2, <1>12 DEF y

\* A message arrives over a WebSocket.
LEMMA GoodWsArrives ==
    ASSUME IInv, wsArrives
    PROVE  StepTo(t', srv')
<1> DEFINE b == t.buffer
           got == srv.got
           q == Append(got, Head(b))
           y == t'
           S == 1 .. MaxSends
<1>1. /\ kind \in Kinds /\ srv \in Session /\ t \in Transport /\ SenderInv(t) /\ SenderCore(t)
      /\ OrderInv(t, got) /\ got \in Seq(S) /\ b \in Seq(S)
  BY Facts DEF Session, Transport
<1>2. /\ kind = "websocket" /\ b # <<>> /\ y = [t EXCEPT !.buffer = Tail(b)]
      /\ srv' = [srv EXCEPT !.got = q]
  BY DEF wsArrives
<1> HIDE DEF b, got, y, S
<1>3. /\ Tail(b) \in Seq(S) /\ q \in Seq(S) /\ q \o Tail(b) = got \o b
  BY <1>1, <1>2, HeadMoved
<1> HIDE DEF q
<1>4. /\ y \in Transport /\ y.stop = t.stop /\ y.sent = t.sent /\ y.post = t.post
      /\ y.posts = t.posts /\ y.buffer = Tail(b)
      /\ SameReceiving(t, y) /\ SameForSockJS(t, y)
  BY <1>1, <1>2, <1>3 DEF Transport, SameReceiving, SameForSockJS, S
<1>5. Idle(t) /\ Idle(y) /\ ~Gone(t) /\ Pending(t) = <<>> /\ Pending(y) = <<>>
  BY <1>1, <1>2, <1>4 DEF SenderCore, Idle, Gone, Pending
<1>6. SenderInv(y)
  BY <1>1, <1>2, <1>4, <1>5 DEF SenderInv, SenderCore
<1>7. InLine(t, got)
  BY <1>1, <1>5, OrderOfLine
<1>8. Line(t, got) = got \o b /\ Line(y, q) = got \o b
  BY <1>1, <1>3, <1>4, <1>5, ConcatEmptySeq DEF Line, b
<1>9. q = FirstNumbers(Len(q))
  <2>1. q \o Tail(b) = FirstNumbers(Len(q \o Tail(b)))
    BY <1>2, <1>3, <1>7, <1>8 DEF InLine
  <2> QED
    BY <1>3, <2>1, BeginningOf
<1>10. InLine(y, q)
  BY <1>2, <1>4, <1>7, <1>8, <1>9 DEF InLine, SameForSockJS
<1>11. OrderInv(y, q)
  BY <1>10, OrderOfLine
<1>12. StepTo(y, [srv EXCEPT !.got = q])
  BY <1>3, <1>4, <1>6, <1>11, StepOfSender DEF S
<1> QED
  BY <1>2, <1>12 DEF y

\* The post that is not over is the last.
LEMMA Posting ==
    ASSUME IInv, NEW p \in DOMAIN t.posts, t.posts[p].phase # "over"
    PROVE  /\ p = t.post /\ p # 0 /\ ~Idle(t) /\ ~Gone(t) /\ kind # "websocket"
           /\ InLine(t, srv.got)
<1>1. t \in Transport /\ SenderCore(t) /\ OrderInv(t, srv.got)
  BY Facts
<1>2. Len(t.posts) \in Nat /\ DOMAIN t.posts = 1 .. Len(t.posts)
  BY <1>1, PostTypes
<1>3. p = t.post /\ p # 0 /\ kind # "websocket"
  BY <1>1, <1>2 DEF SenderCore
<1>4. ~Idle(t)
  BY <1>3 DEF Idle
<1> QED
  BY <1>1, <1>3, <1>4, OrderOfLine DEF Gone

LEMMA GoodPostStarts ==
    ASSUME IInv, NEW p \in DOMAIN t.posts, PostStarts(p)
    PROVE  StepTo(t', srv')
<1> DEFINE y == t'
           old == t.posts[p]
           post == [old EXCEPT !.phase = "open"]
<1>1. /\ kind \in Kinds /\ srv \in Session /\ t \in Transport /\ SenderInv(t) /\ SenderCore(t)
  BY Facts
<1>2. old.phase = "scheduled" /\ y = [t EXCEPT !.posts[p] = post] /\ srv' = srv
  BY DEF PostStarts
<1>3. /\ p = t.post /\ p # 0 /\ ~Idle(t) /\ ~Gone(t) /\ kind # "websocket"
      /\ InLine(t, srv.got)
  BY <1>2, Posting
<1>4. /\ post \in APost /\ post.phase = "open" /\ post.calls = old.calls
      /\ post.arrived = old.arrived /\ post.msgs = old.msgs
  BY <1>1, PostTypes DEF APost
<1> HIDE DEF y, post
<1>5. PostReplaced(t, y, p, post)
  BY <1>1, <1>2, <1>4, WithPost
<1>6. ~Idle(y) /\ Pending(y) = Pending(t)
  BY <1>3, <1>4, <1>5 DEF PostReplaced, Idle, Pending
<1>7. SenderInv(y)
  BY <1>1, <1>2, <1>3, <1>4, <1>5, <1>6
  DEF PostReplaced, SenderInv, SenderCore, SameForSockJS
<1>8. InLine(y, srv.got)
  BY <1>3, <1>5, <1>6 DEF InLine, Line, PostReplaced, SameForSockJS
<1>9. OrderInv(y, srv.got)
  BY <1>8, OrderOfLine
<1>10. StepTo(y, srv)
  BY <1>5, <1>7, <1>9, StepOfSenderAlone DEF PostReplaced
<1> QED
  BY <1>2, <1>10 DEF y

\* What is under way arrives.
LEMMA GoodPostArrives ==
    ASSUME IInv, NEW p \in DOMAIN t.posts, PostArrives(p)
    PROVE  StepTo(t', srv')
<1> DEFINE y == t'
           old == t.posts[p]
           post == [old EXCEPT !.arrived = TRUE]
           got == srv.got
           q == got \o old.msgs
           S == 1 .. MaxSends
<1>1. /\ kind \in Kinds /\ srv \in Session /\ t \in Transport /\ SenderInv(t) /\ SenderCore(t)
      /\ got \in Seq(S) /\ t.buffer \in Seq(S)
  BY Facts DEF Session, Transport
<1>2. /\ old.phase = "open" /\ ~old.arrived /\ y = [t EXCEPT !.posts[p] = post]
      /\ srv' = [srv EXCEPT !.got = q]
  BY DEF PostArrives
<1>3. /\ p = t.post /\ p # 0 /\ ~Idle(t) /\ ~Gone(t) /\ kind # "websocket"
      /\ InLine(t, got)
  BY <1>2, Posting
<1>4. /\ post \in APost /\ post.phase = "open" /\ post.calls = old.calls
      /\ post.arrived /\ old.msgs \in Seq(S)
  BY <1>1, <1>2, PostTypes DEF APost
<1>5. Pending(t) = old.msgs
  BY <1>2, <1>3 DEF Pending
<1> HIDE DEF y, post, got, S
<1>6. q \in Seq(S) /\ Line(t, got) = q \o t.buffer
  BY <1>1, <1>4, <1>5, ConcatProperties DEF Line
<1> HIDE DEF q
<1>7. PostReplaced(t, y, p, post)
  BY <1>1, <1>2, <1>4, WithPost
<1>8. ~Idle(y) /\ Pending(y) = <<>>
  BY <1>3, <1>4, <1>7 DEF PostReplaced, Idle, Pending
<1>9. SenderInv(y)
  BY <1>1, <1>2, <1>3, <1>4, <1>7, <1>8
  DEF PostReplaced, SenderInv, SenderCore, SameForSockJS
<1>10. Line(y, q) = Line(t, got) /\ y.sent = t.sent /\ y.listens = t.listens
  BY <1>6, <1>7, <1>8, ConcatEmptySeq DEF Line, PostReplaced, SameForSockJS
<1>11. kind # "jsonp" => q = FirstNumbers(Len(q))
  <2>1. kind # "jsonp" => q \o t.buffer = FirstNumbers(Len(q \o t.buffer))
    BY <1>3, <1>6 DEF InLine
  <2> QED
    BY <1>1, <1>6, <2>1, BeginningOf
<1>12. InLine(y, q)
  BY <1>3, <1>10, <1>11 DEF InLine
<1>13. OrderInv(y, q)
  BY <1>12, OrderOfLine
<1>14. StepTo(y, [srv EXCEPT !.got = q])
  BY <1>6, <1>7, <1>9, <1>13, StepOfSender DEF PostReplaced, S
<1> QED
  BY <1>2, <1>14 DEF y

\* A post is replaced, and what sendStop does.
withPostAndStop(x, p, post, stop) == [[x EXCEPT !.posts[p] = post] EXCEPT !.stop = stop]

PostAndStop(x, y, p, post, stop) ==
    /\ y \in Transport /\ y.stop = stop
    /\ Len(y.posts) = Len(x.posts) /\ DOMAIN y.posts = DOMAIN x.posts
    /\ \A j \in DOMAIN x.posts : y.posts[j] = IF j = p THEN post ELSE x.posts[j]
    /\ y.sent = x.sent /\ y.buffer = x.buffer /\ y.post = x.post
    /\ SameReceiving(x, y) /\ SameForSockJS(x, y)

LEMMA WithPostAndStop ==
    ASSUME NEW x \in Transport, NEW p \in DOMAIN x.posts, NEW post \in APost,
           NEW stop \in {"null", "wait", "abort"}
    PROVE  PostAndStop(x, withPostAndStop(x, p, post, stop), p, post, stop)
<1> DEFINE a == [x EXCEPT !.posts[p] = post]
           y == [a EXCEPT !.stop = stop]
<1>1. PostReplaced(x, a, p, post)
  BY WithPost
<1> HIDE DEF a
<1>2. a \in Transport
  BY <1>1 DEF PostReplaced
<1>3. /\ y \in Transport /\ y.stop = stop /\ y.posts = a.posts
      /\ y.sent = a.sent /\ y.buffer = a.buffer /\ y.post = a.post
      /\ SameReceiving(a, y) /\ SameForSockJS(a, y)
  BY <1>2 DEF Transport, SameReceiving, SameForSockJS
<1> HIDE DEF y
<1>4. PostAndStop(x, y, p, post, stop)
  BY <1>1, <1>3 DEF PostAndStop, PostReplaced, SameReceiving, SameForSockJS
<1> QED
  BY <1>4 DEF y, a, withPostAndStop

\* A post is over, and was answered or was a form.
LEMMA GoodDone ==
    ASSUME IInv, NEW p \in DOMAIN t.posts, t.posts[p].phase = "open",
           t.posts[p].arrived \/ kind = "jsonp", t' = postDone(p), srv' = srv
    PROVE  StepTo(t', srv')
<1> DEFINE y == t'
           old == t.posts[p]
           post == [old EXCEPT !.phase = "over"]
           stop == IF old.calls THEN "wait" ELSE t.stop
           got == srv.got
           S == 1 .. MaxSends
<1>1. /\ kind \in Kinds /\ srv \in Session /\ t \in Transport /\ SenderInv(t) /\ SenderCore(t)
      /\ got \in Seq(S) /\ t.buffer \in Seq(S)
  BY Facts DEF Session, Transport
<1>2. y = withPostAndStop(t, p, post, stop)
  BY <1>1 DEF postDone, Transport, withPostAndStop
<1>3. /\ p = t.post /\ p # 0 /\ ~Idle(t) /\ ~Gone(t) /\ kind # "websocket"
      /\ InLine(t, got)
  BY Posting
<1>4. /\ post \in APost /\ post.phase = "over" /\ post.calls = old.calls
      /\ post.arrived = old.arrived /\ old.calls \in BOOLEAN
  BY <1>1, PostTypes DEF APost
<1>5. stop \in {"null", "wait", "abort"} /\ (~old.calls => stop = "null" /\ t.stop = "null")
      /\ (old.calls => stop = "wait")
  BY <1>1, <1>3 DEF SenderCore, Transport
<1> HIDE DEF y, post, stop, got, S
<1>6. /\ y \in Transport /\ y.stop = stop
      /\ Len(y.posts) = Len(t.posts) /\ DOMAIN y.posts = DOMAIN t.posts
      /\ \A j \in DOMAIN t.posts : y.posts[j] = IF j = p THEN post ELSE t.posts[j]
      /\ y.sent = t.sent /\ y.buffer = t.buffer /\ y.post = t.post
      /\ SameReceiving(t, y) /\ SameForSockJS(t, y)
  BY <1>1, <1>2, <1>4, <1>5, WithPostAndStop DEF PostAndStop
<1>7. Idle(y) /\ Pending(y) = <<>>
  BY <1>3, <1>4, <1>6 DEF Idle, Pending
<1>8. SenderCore(y)
  BY <1>1, <1>3, <1>4, <1>5, <1>6, <1>7 DEF SenderCore
<1>9. SenderInv(y)
  BY <1>1, <1>3, <1>5, <1>6, <1>7, <1>8 DEF SenderInv, SameForSockJS
<1>10. Line(y, got) = got \o t.buffer
  BY <1>1, <1>6, <1>7, ConcatEmptySeq DEF Line
<1>11. InLine(y, got)
  <2>1. CASE old.arrived
    <3>1. Line(t, got) = got \o t.buffer
      BY <1>1, <1>3, <2>1, ConcatEmptySeq DEF Line, Pending
    <3> QED
      BY <1>3, <1>6, <1>10, <3>1 DEF InLine, SameForSockJS
  <2>2. CASE kind = "jsonp" /\ ~old.arrived
    <3> DEFINE m == Pending(t)
               b == t.buffer
    <3>1. m \in Seq(S)
      BY <1>1, LineTypes DEF S
    <3>2. Increasing((got \o m) \o b) /\ AtMost((got \o m) \o b, t.sent)
      BY <1>3, <2>2 DEF InLine, Line
    <3> HIDE DEF m
    <3>3. Increasing(got \o b) /\ AtMost(got \o b, t.sent)
      BY <1>1, <3>1, <3>2, MiddleLeftOut
    <3> QED
      BY <1>6, <1>10, <2>2, <3>3 DEF InLine
  <2> QED
    BY <2>1, <2>2
<1>12. OrderInv(y, got)
  BY <1>11, OrderOfLine
<1>13. StepTo(y, srv)
  BY <1>6, <1>9, <1>12, StepOfSenderAlone DEF got
<1> QED
  BY <1>13 DEF y

LEMMA GoodPostDone ==
    ASSUME IInv, NEW p \in DOMAIN t.posts, PostDone(p) \/ FormFails(p)
    PROVE  StepTo(t', srv')
BY GoodDone DEF PostDone, FormFails

\* The post fails: the transport closes.
LEMMA GoodAjaxFails ==
    ASSUME IInv, NEW p \in DOMAIN t.posts, AjaxFails(p)
    PROVE  StepTo(t', srv')
<1> DEFINE y == t'
           old == t.posts[p]
           post == [old EXCEPT !.phase = "over"]
           x == withPostAndStop(t, p, post, "null")
<1>1. /\ kind \in Kinds /\ srv \in Session /\ t \in Transport /\ PollInv(t) /\ PollCore(t)
      /\ SenderCore(t)
  BY Facts
<1>2. old.phase = "open" /\ kind # "jsonp" /\ y = emitClose(x) /\ srv' = srv
  BY <1>1 DEF AjaxFails, Transport, withPostAndStop
<1>3. /\ p = t.post /\ p # 0 /\ ~Idle(t) /\ kind # "websocket"
  BY <1>2, Posting
<1>4. post \in APost /\ post.phase = "over" /\ post.calls = old.calls
  BY <1>1, PostTypes DEF APost
<1>5. "null" \in {"null", "wait", "abort"}
  OBVIOUS
<1> HIDE DEF y, post, x
<1>6. /\ x \in Transport /\ x.stop = "null"
      /\ Len(x.posts) = Len(t.posts) /\ DOMAIN x.posts = DOMAIN t.posts
      /\ \A j \in DOMAIN t.posts : x.posts[j] = IF j = p THEN post ELSE t.posts[j]
      /\ x.sent = t.sent /\ x.buffer = t.buffer /\ x.post = t.post
      /\ SameReceiving(t, x) /\ SameForSockJS(t, x)
  BY <1>1, <1>4, <1>5, WithPostAndStop DEF PostAndStop, x
<1>7. Idle(x)
  BY <1>3, <1>4, <1>6 DEF Idle
<1>8. SenderCore(x)
  BY <1>1, <1>2, <1>3, <1>4, <1>6, <1>7 DEF SenderCore
<1>9. \A got : OrderCore(t, got) => OrderCore(x, got)
  BY <1>2, <1>3, <1>6, <1>7 DEF OrderCore, Gone
<1>10. PollCore(x) /\ (x.listens => x.told = 0)
  BY <1>1, <1>6, PollingKept DEF PollInv, SameForSockJS
<1>11. Closes(x, y) /\ y.heard = x.heard /\ (Closable(x) => NoneOpen(y))
  BY <1>1, <1>2, <1>6, <1>8, <1>10, ClosingItself
<1>12. Closes(t, y) /\ y.heard = t.heard
  BY <1>6, <1>9, <1>11 DEF Closes, SameReceiving, SameForSockJS
<1>13. t.listens => Closable(x)
  BY <1>1, <1>3, <1>6, <1>7 DEF Closable, PollInv, SameReceiving
<1>14. Good(y, srv) /\ Steps(t, y)
  BY <1>11, <1>12, <1>13, StepOfClosing
<1> QED
  BY <1>1, <1>2, <1>14 DEF StepTo, y

-----------------------------------------------------------------------------
(* The invariant *)

LEMMA InitInv == Init => IInv
<1> SUFFICES ASSUME Init PROVE IInv
  OBVIOUS
<1> DEFINE rec == Receiver
           E == <<>>
<1>1. /\ kind \in Kinds /\ t = NewTransport
      /\ srv = [frames |-> 0, over |-> FALSE, written |-> 0, got |-> <<>>]
  BY DEF Init
<1>2. /\ rec \in Rec /\ rec.pos = 0 /\ rec.first = 0 /\ rec.late = {} /\ rec.listens
      /\ rec.loading = FALSE
      /\ rec.phase = IF Ajax \/ kind = "htmlfile" THEN "scheduled" ELSE "open"
  BY TransportsAssumption DEF Receiver, Rec
<1>3. /\ E \in Seq(1 .. MaxSends) /\ E \in Seq(1 .. MaxFrames) /\ E \in Seq(APost) /\ Len(E) = 0
      /\ E \o E = E
  BY ConcatEmptySeq
<1>4. t = [listens |-> TRUE, heard |-> E, told |-> 0, closing |-> FALSE,
           poll |-> 1, receivers |-> <<rec>>,
           sent |-> 0, buffer |-> E, stop |-> "null", post |-> 0, posts |-> E]
  BY <1>1 DEF NewTransport
<1> HIDE DEF rec
<1>5. <<rec>> \in Seq(Rec) /\ Len(<<rec>>) = 1 /\ DOMAIN <<rec>> = {1} /\ <<rec>>[1] = rec
  BY <1>2
<1> HIDE DEF E
<1>6. t \in Transport
  BY <1>2, <1>3, <1>4, <1>5, TransportsAssumption DEF Transport
<1>7. srv \in Session
  BY <1>1, <1>3, TransportsAssumption DEF Session, E
<1>8. PollInv(t)
  <2> DEFINE q == <<rec>>
  <2>1. /\ Len(q) = 1 /\ DOMAIN q = {1} /\ q[1] = rec /\ q # <<>>
    BY <1>5
  <2>2. /\ t.receivers = q /\ t.poll = 1 /\ t.listens = TRUE /\ t.told = 0 /\ t.closing = FALSE
    BY <1>4
  <2> HIDE DEF q
  <2>3. InPhase(rec)
    BY <1>2 DEF InPhase
  <2>4. kind = "websocket" => rec.phase = "open"
    BY <1>2 DEF Ajax
  <2>5. PollCore(t)
    BY <2>1, <2>2, <2>3 DEF PollCore
  <2> QED
    BY <1>2, <2>1, <2>2, <2>4, <2>5 DEF PollInv
<1>9. Idle(t) /\ DOMAIN t.posts = {}
  BY <1>3, <1>4 DEF Idle, E
<1>10. SenderInv(t)
  BY <1>3, <1>4, <1>9 DEF SenderInv, SenderCore, E
<1>11. FirstNumbers(0) = E
  <2>1. 0 \in Nat /\ 1 .. 0 \subseteq Nat
    OBVIOUS
  <2> QED
    BY <2>1, FirstNumbersAre DEF E
<1>12. Line(t, E) = E
  BY <1>3, <1>4, <1>9 DEF Line, Pending, E
<1>13. Increasing(E) /\ AtMost(E, 0)
  BY <1>3 DEF Increasing, AtMost, E
<1>14. OrderInv(t, srv.got)
  <2>1. srv.got = E /\ t.sent = 0
    BY <1>1, <1>4 DEF E
  <2> QED
    BY <2>1, <1>3, <1>11, <1>12, <1>13 DEF OrderInv, OrderCore
<1>15. HearInv(t, srv)
  BY <1>1, <1>2, <1>3, <1>4, <1>5, <1>11 DEF HearInv, HearCore, Made, ReadOn, Ajax
<1> QED
  BY <1>1, <1>6, <1>7, <1>8, <1>10, <1>14, <1>15 DEF IInv, Good

\* What each step of Next comes to.
LEMMA NextStep ==
    ASSUME IInv, [Next]_vars
    PROVE  kind' = kind /\ StepTo(t', srv')
<1>1. CASE UNCHANGED vars
  <2>1. kind' = kind /\ t' = t /\ srv' = srv
    BY <1>1 DEF vars
  <2>2. StepTo(t, srv)
    BY Facts, HeardTypes DEF StepTo, Good, Steps, OldTimersStep
  <2> QED
    BY <2>1, <2>2
<1>2. CASE ServerMakes
  BY <1>2, GoodServerMakes DEF ServerMakes
<1>3. CASE send \/ wsSend
  BY <1>3, Goodsend DEF send, wsSend
<1>4. CASE wsArrives
  BY <1>4, GoodWsArrives DEF wsArrives
<1>5. CASE WaitOver
  BY <1>5, GoodWaitOver DEF WaitOver
<1>6. CASE WebSocketClosed
  BY <1>6, GoodWebSocketClosed DEF WebSocketClosed
<1>7. CASE Close
  BY <1>7, GoodClose DEF Close
<1>8. ASSUME NEW p \in DOMAIN t.posts, PostStep(p)
      PROVE  kind' = kind /\ StepTo(t', srv')
  <2>1. CASE PostStarts(p)
    BY <2>1, GoodPostStarts DEF PostStarts
  <2>2. CASE PostArrives(p)
    BY <2>2, GoodPostArrives DEF PostArrives
  <2>3. CASE PostDone(p) \/ FormFails(p)
    BY <2>3, GoodPostDone DEF PostDone, FormFails
  <2>4. CASE AjaxFails(p)
    BY <2>4, GoodAjaxFails DEF AjaxFails
  <2> QED
    BY <1>8, <2>1, <2>2, <2>3, <2>4 DEF PostStep
<1>9. ASSUME NEW r \in DOMAIN t.receivers, ReceiverStep(r)
      PROVE  kind' = kind /\ StepTo(t', srv')
  <2>1. CASE XhrStarts(r)
    BY <2>1, GoodXhrStarts DEF XhrStarts
  <2>2. CASE XhrReads(r) \/ XdrReads(r)
    <3>1. made \in Nat
      BY Facts, HeardTypes
    <3>2. PICK halves \in 1 .. 2 * made :
            Arrives(r, halves) /\ t' \in {t, _chunkHandler(t, r, halves)}
      BY <2>2 DEF XhrReads, XdrReads
    <3>3. Ajax /\ halves \in Nat
      BY <2>2, <3>1 DEF XhrReads, XdrReads, Ajax
    <3>4. StepTo(t', srv')
      BY <3>2, <3>3, GoodReads
    <3> QED
      BY <3>2, <3>4 DEF Arrives
  <2>3. CASE XhrFinishes(r)
    BY <2>3, GoodXhrFinishes DEF XhrFinishes
  <2>4. CASE XhrFails(r)
    BY <2>4, GoodXhrFails DEF XhrFails
  <2>5. CASE FrameEvent(r)
    BY <2>5, GoodFrameEvent DEF FrameEvent
  <2>6. CASE EventSourceError(r)
    BY <2>6, GoodEventSourceError DEF EventSourceError
  <2>7. CASE EventSourceClosed(r)
    BY <2>7, GoodEventSourceClosed DEF EventSourceClosed
  <2>8. CASE HtmlfileStarts(r)
    BY <2>8, GoodHtmlfileStarts DEF HtmlfileStarts
  <2>9. CASE HtmlfileCut(r)
    BY <2>9, GoodHtmlfileCut DEF HtmlfileCut
  <2>10. CASE HtmlfileStops(r) \/ HtmlfileError(r) \/ JsonpAborts(r)
    BY <2>10, GoodEnds DEF HtmlfileStops, HtmlfileError, JsonpAborts
  <2>11. CASE JsonpCallback(r)
    BY <2>11, GoodJsonpCallback DEF JsonpCallback
  <2>12. CASE JsonpScriptError(r)
    BY <2>12, GoodJsonpScriptError DEF JsonpScriptError
  <2>13. CASE JsonpErrorTimer(r)
    BY <2>13, GoodJsonpErrorTimer DEF JsonpErrorTimer
  <2>14. CASE HtmlfileRemoved(r)
    BY <2>14, GoodHtmlfileRemoved DEF HtmlfileRemoved
  <2>15. CASE UnheardFrame(r)
    BY <2>15, GoodUnheardFrame DEF UnheardFrame
  <2> QED
    BY <1>9, <2>1, <2>2, <2>3, <2>4, <2>5, <2>6, <2>7, <2>8, <2>9, <2>10, <2>11, <2>12, <2>13,
       <2>14, <2>15
    DEF ReceiverStep
<1> QED
  BY <1>1, <1>2, <1>3, <1>4, <1>5, <1>6, <1>7, <1>8, <1>9 DEF Next

LEMMA NextInv == IInv /\ [Next]_vars => IInv'
<1> SUFFICES ASSUME IInv, [Next]_vars PROVE IInv'
  OBVIOUS
<1>1. kind' = kind /\ StepTo(t', srv') /\ kind \in Kinds
  BY NextStep, Facts
<1>2. /\ srv' \in Session /\ t' \in Transport
      /\ PollInv(t') /\ SenderInv(t') /\ OrderInv(t', srv'.got) /\ HearInv(t', srv')
  BY <1>1 DEF StepTo, Good
<1>3. PollInv(t)'
  BY <1>1, <1>2 DEF PollInv, PollCore, InPhase, Ajax
<1>4. SenderInv(t)'
  BY <1>1, <1>2 DEF SenderInv, SenderCore, Idle
<1>5. OrderInv(t, srv.got)'
  BY <1>1, <1>2 DEF OrderInv, OrderCore, Gone, Line, Pending, Idle
<1>6. HearInv(t, srv)'
  BY <1>1, <1>2 DEF HearInv, HearCore, Ajax, Made, ReadOn
<1>7. (t \in Transport)' /\ (srv \in Session)' /\ (kind \in Kinds)'
  BY <1>1, <1>2 DEF Transport, Session, Rec, APost
<1> QED
  BY <1>3, <1>4, <1>5, <1>6, <1>7 DEF IInv, Good

\* The invariant holds in every state, for any number of frames, polls and messages.
THEOREM Invariance == Spec => []IInv
<1>1. Init => IInv
  BY InitInv
<1>2. IInv /\ [Next]_vars => IInv'
  BY NextInv
<1> QED
  BY <1>1, <1>2, PTL DEF Spec

-----------------------------------------------------------------------------
(* What follows *)

LEMMA InvTypes ==
    ASSUME IInv
    PROVE  TypeOK
<1>1. /\ kind \in Kinds /\ srv \in Session /\ t \in Transport /\ PollCore(t) /\ SenderCore(t)
  BY Facts
<1>2. /\ Len(t.receivers) \in Nat /\ DOMAIN t.receivers = 1 .. Len(t.receivers)
      /\ Len(t.posts) \in Nat /\ DOMAIN t.posts = 1 .. Len(t.posts)
      /\ t.receivers # <<>> => Len(t.receivers) # 0
  <2>1. t.receivers \in Seq(Rec)
    BY <1>1 DEF Transport
  <2> QED
    BY <1>1, <2>1, ReceiverTypes, PostTypes, EmptySeq
<1>3. t.poll \in {0} \cup DOMAIN t.receivers
  BY <1>1, <1>2 DEF PollCore
<1>4. t.post \in {0} \cup DOMAIN t.posts
  BY <1>1, <1>2 DEF SenderCore
<1>5. /\ t.listens \in BOOLEAN /\ t.closing \in BOOLEAN /\ t.told \in 0 .. 1
      /\ t.heard \in Seq(1 .. MaxFrames) /\ t.receivers \in Seq(Rec)
      /\ t.sent \in 0 .. MaxSends /\ t.buffer \in Seq(1 .. MaxSends)
      /\ t.stop \in {"null", "wait", "abort"} /\ t.posts \in Seq(APost)
  BY <1>1 DEF Transport
<1> QED
  BY <1>1, <1>3, <1>4, <1>5 DEF TypeOK, Session, Rec, APost

LEMMA InvOrder ==
    ASSUME IInv
    PROVE  GotInOrder
<1> DEFINE S == 1 .. MaxSends
           got == srv.got
           n == Len(got)
<1>1. /\ t \in Transport /\ SenderCore(t) /\ OrderInv(t, got) /\ got \in Seq(S)
  BY Facts DEF Session
<1>2. /\ got \o Pending(t) \in Seq(S) /\ Pending(t) \in Seq(S) /\ t.buffer \in Seq(S)
  BY <1>1, LineTypes
<1>3. n \in Nat /\ DOMAIN got = 1 .. n
  BY <1>1, LenProperties
<1> HIDE DEF S, got, n
<1>4. CASE kind = "jsonp"
  <2>1. Increasing((got \o Pending(t)) \o t.buffer)
    BY <1>1, <1>4 DEF OrderInv, OrderCore, Line
  <2>2. Increasing(got \o Pending(t))
    BY <1>2, <2>1, BeginningOf
  <2>3. Increasing(got)
    BY <1>1, <1>2, <2>2, BeginningOf
  <2>4. \A i \in 1 .. n : i > 1 => got[i - 1] < got[i]
    BY <1>3, <2>3 DEF Increasing, n
  <2> QED
    BY <1>3, <1>4, <2>4, InvTypes DEF GotInOrder, got
<1>5. CASE kind # "jsonp"
  <2>1. got = FirstNumbers(n)
    BY <1>1, <1>5 DEF OrderInv, OrderCore, n
  <2>2. \A i \in 1 .. n : got[i] = i
    BY <1>3, <2>1 DEF FirstNumbers
  <2>3. \A i \in 1 .. n : i > 1 => got[i - 1] < got[i]
    BY <1>3, <2>2
  <2> QED
    BY <1>3, <1>5, <2>2, <2>3, InvTypes DEF GotInOrder, got
<1> QED
  BY <1>4, <1>5

\* GotInOrder: whatever is lost, answered late or aborted, and however often the
\* page sends and the transport posts, the server gets the messages in the order of
\* sending, each at most once; with requests and WebSockets, without a gap.
THEOREM GotAlwaysInOrder == Spec => []GotInOrder
<1>1. IInv => GotInOrder
  BY InvOrder
<1> QED
  BY <1>1, Invariance, PTL

\* ClosesForGood: however a transport comes to be closed - by the page, by a frame
\* "c" amid others, by a failed post or poll - the page has let go of its poll and
\* of the post the server is busy with, only a script or an iframe is still loaded,
\* and a closed transport never polls again.
THEOREM AlwaysClosesForGood == Spec => ClosesForGood
<1> DEFINE A == /\ t.listens /\ ~t'.listens =>
                     /\ \A r \in DOMAIN t'.receivers :
                          /\ t'.receivers[r].phase # "open"
                          /\ t'.receivers[r].loading => kind \in {"htmlfile", "jsonp"}
                     /\ kind # "jsonp" => \A p \in DOMAIN t'.posts : t'.posts[p].phase # "open"
                /\ ~t.listens => Len(t'.receivers) = Len(t.receivers)
<1>1. IInv /\ [Next]_vars => A
  <2> SUFFICES ASSUME IInv, [Next]_vars PROVE A
    OBVIOUS
  <2>1. PollInv(t') /\ Steps(t, t')
    BY NextStep DEF StepTo, Good
  <2> QED
    BY <2>1 DEF PollInv, PollCore, InPhase, Steps, NoneOpen
<1>2. IInv /\ [Next]_vars => [A]_vars
  BY <1>1
<1> QED
  BY <1>2, Invariance, PTL DEF Spec, ClosesForGood

\* OldTimersHarmless: the close events that EventSource and JSONP receivers raise by
\* timers, after the transport has gone on to another receiver, change nothing.
THEOREM OldTimersAlwaysHarmless == Spec => OldTimersHarmless
<1> DEFINE A == \A r \in DOMAIN t.receivers :
                  t'.receivers[r].late # t.receivers[r].late /\ r # t.poll =>
                    /\ t'.listens = t.listens /\ t'.told = t.told
                    /\ t'.poll = t.poll /\ Len(t'.receivers) = Len(t.receivers)
<1>1. IInv /\ [Next]_vars => A
  BY NextStep DEF StepTo, Steps, OldTimersStep
<1>2. IInv /\ [Next]_vars => [A]_vars
  BY <1>1
<1> QED
  BY <1>2, Invariance, PTL DEF Spec, OldTimersHarmless

-----------------------------------------------------------------------------
(* A transport is a channel *)

\* Only the server makes frames, and then nothing else happens.
LEMMA FramesMade ==
    ASSUME IInv, [Next]_vars
    PROVE  \/ srv'.frames = srv.frames
           \/ srv'.frames = srv.frames + 1 /\ t' = t
<1>1. srv \in Session
  BY Facts
<1>2. Interrupted.frames = srv.frames
  BY <1>1 DEF Interrupted, Session
<1>3. CASE UNCHANGED vars
  BY <1>3 DEF vars
<1>4. CASE ServerMakes
  BY <1>1, <1>4 DEF ServerMakes, Session
<1>5. CASE send \/ wsSend \/ wsArrives \/ WaitOver \/ WebSocketClosed \/ Close
  BY <1>1, <1>5 DEF send, wsSend, wsArrives, WaitOver, WebSocketClosed, Close, Session
<1>6. ASSUME NEW p \in DOMAIN t.posts, PostStep(p)
      PROVE  srv'.frames = srv.frames
  BY <1>1, <1>6 DEF PostStep, PostStarts, PostArrives, PostDone, AjaxFails, FormFails, Session
<1>7. ASSUME NEW r \in DOMAIN t.receivers, ReceiverStep(r)
      PROVE  srv'.frames = srv.frames
  <2>1. CASE XhrReads(r) \/ XdrReads(r)
    <3>1. PICK halves \in 1 .. 2 * made : srv' = [srv EXCEPT !.written = halves]
      BY <2>1 DEF XhrReads, XdrReads, Arrives
    <3> QED
      BY <1>1, <3>1 DEF Session
  <2>2. CASE FrameEvent(r) \/ JsonpCallback(r) \/ UnheardFrame(r)
    BY <1>1, <2>2 DEF FrameEvent, JsonpCallback, UnheardFrame, Session
  <2>3. CASE XhrFails(r) \/ EventSourceError(r) \/ HtmlfileCut(r)
    BY <1>2, <2>3 DEF XhrFails, EventSourceError, HtmlfileCut
  <2>4. CASE \/ XhrStarts(r) \/ XhrFinishes(r) \/ EventSourceClosed(r)
             \/ HtmlfileStarts(r) \/ HtmlfileStops(r) \/ HtmlfileError(r) \/ HtmlfileRemoved(r)
             \/ JsonpAborts(r) \/ JsonpScriptError(r) \/ JsonpErrorTimer(r)
    BY <2>4 DEF XhrStarts, XhrFinishes, EventSourceClosed, HtmlfileStarts, HtmlfileStops,
                HtmlfileError, HtmlfileRemoved, JsonpAborts, JsonpScriptError, JsonpErrorTimer
  <2> QED
    BY <1>7, <2>1, <2>2, <2>3, <2>4 DEF ReceiverStep
<1> QED
  BY <1>3, <1>4, <1>5, <1>6, <1>7 DEF Next

LEMMA NextChannel ==
    ASSUME IInv, [Next]_vars
    PROVE  [Abstract!Next]_(Abstract!vars)
<1> DEFINE n == Len(t'.heard)
<1>1. /\ t \in Transport /\ srv \in Session /\ t' \in Transport /\ Steps(t, t')
  BY Facts, NextStep DEF StepTo, Good
<1>2. CASE srv'.frames = srv.frames + 1 /\ t' = t
  BY <1>2 DEF Abstract!Next, Abstract!Makes
<1>3. CASE srv'.frames = srv.frames
  <2>1. CASE t.listens
    <3>1. /\ t'.heard = FirstNumbers(n) /\ n <= srv.frames /\ Len(t.heard) <= n
      BY <1>1 DEF Steps, HeardWell
    <3>2. n \in Nat /\ Len(t.heard) \in Nat /\ srv.frames \in Nat
      BY <1>1, HeardTypes
    <3>3. (~t'.listens) \in BOOLEAN
      OBVIOUS
    <3> HIDE DEF n
    <3>4. n \in Len(t.heard) .. srv.frames /\ t'.heard = Abstract!FirstFrames(n)
      BY <3>1, <3>2 DEF FirstNumbers, Abstract!FirstFrames
    <3> QED
      BY <1>3, <2>1, <3>3, <3>4 DEF Abstract!Next, Abstract!Hears
  <2>2. CASE ~t.listens
    BY <1>1, <1>3, <2>2 DEF Steps, Abstract!vars
  <2> QED
    BY <2>1, <2>2
<1> QED
  BY <1>2, <1>3, FramesMade

\* ImplementsChannel: whatever the transport - one connection, or poll after poll by
\* whatever means of the browser - SockJS hears the server's frames in order, each
\* once, none left out, and nothing any more when the transport is closed.
THEOREM AlwaysAChannel == Spec => ImplementsChannel
<1>1. Init => Abstract!Init
  BY DEF Init, NewTransport, Abstract!Init
<1>2. IInv /\ [Next]_vars => [Abstract!Next]_(Abstract!vars)
  BY NextChannel
<1> QED
  BY <1>1, <1>2, Invariance, PTL DEF Spec, ImplementsChannel, Abstract!Spec
=============================================================================
