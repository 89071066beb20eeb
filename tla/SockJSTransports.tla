-------------------------- MODULE SockJSTransports --------------------------
(***************************************************************************)
(* The transports of the SockJS client that talk to the server themselves  *)
(* (data/user/sockjs.js): WebSocket, and those made of a sender, which     *)
(* posts what is sent, and a polling receiver, which asks for frames again *)
(* and again: by XMLHttpRequest or XDomainRequest (streaming and polling), *)
(* EventSource, an iframe of script calls (htmlfile), or JSONP.            *)
(*                                                                         *)
(* A step is one task of the page's event loop with all calls it makes, or *)
(* something at the server, which is external: it makes frames, writes them *)
(* to the poll it has, and ends a response between frames.  When a poll is *)
(* cut it closes the session, and answers every further poll with "c".     *)
(***************************************************************************)
EXTENDS SequencesExt, Integers

CONSTANTS
    Kinds,
    MaxFrames,      \* bound on the frames the server makes, "c" not counted
    MaxReceivers,   \* bound on the polls of one transport
    MaxSends        \* bound on the messages the page sends

ASSUME TransportsAssumption ==
    /\ Kinds \subseteq {"websocket", "xhr", "xdr", "eventsource", "htmlfile", "jsonp"}
    /\ {MaxFrames, MaxSends} \subseteq Nat
    /\ MaxReceivers \in Nat \ {0}

VARIABLES
    kind,
    srv,            \* the session at the server
    t               \* the transport with its receivers and posts

vars == <<kind, srv, t>>

\* The frames of a session are numbered; the one after the last is "c".
made == srv.frames + (IF srv.over THEN 1 ELSE 0)
IsClose(f) == srv.over /\ f = srv.frames + 1

\* Polls by request objects.
Ajax == kind \in {"xhr", "xdr"}

-----------------------------------------------------------------------------
(* The transport.  Methods call each other, so they are functions from what  *)
(* the transport is to what it becomes.                                      *)

\* A receiver: its request waits for its first task ("scheduled"; for htmlfile
\* the iframe loads), is answered ("open"), or is over.  first is the frame its
\* response begins with, pos how many of them it has passed on, listens whether
\* Polling listens to it, late the timers that will close it.  loading: the
\* browser goes on loading a response that the page has let go of.
Receiver ==
    [phase |-> IF Ajax \/ kind = "htmlfile" THEN "scheduled" ELSE "open",
     first |-> 0, pos |-> 0, listens |-> TRUE, late |-> {}, loading |-> FALSE]

\* listens: SockJS listens to the transport.  closing is pollIsClosing, poll the
\* receiver of Polling (0 for null), stop what sendStop does ("null" without),
\* and post the request it aborts.
NewTransport ==
    [listens |-> TRUE, heard |-> <<>>, told |-> 0, closing |-> FALSE,
     poll |-> 1, receivers |-> <<Receiver>>,
     sent |-> 0, buffer |-> <<>>, stop |-> "null", post |-> 0, posts |-> <<>>]

_scheduleReceiver(x) ==
    [x EXCEPT !.receivers = Append(@, Receiver),
              !.poll = Len(x.receivers) + 1]

withReceiver(x, r, rec) == [x EXCEPT !.receivers[r] = rec]

\* The aborts of the receivers.  Closing a request object before its first task
\* does nothing: the request is made all the same.
abortXhr(x, r) ==
    withReceiver(x, r, [x.receivers[r] EXCEPT
        !.listens = FALSE, !.phase = IF @ = "scheduled" THEN @ ELSE "over"])

\* The EventSource is closed at once, but its close event comes 200 ms later.
abortEventSource(x, r) ==
    withReceiver(x, r, [x.receivers[r] EXCEPT !.phase = "over", !.late = @ \cup {"user"}])

\* The iframe's functions are deleted at once; it is removed in a later task.
abortHtmlfile(x, r) ==
    withReceiver(x, r, [x.receivers[r] EXCEPT
        !.loading = @ \/ x.receivers[r].phase # "over", !.phase = "over", !.listens = FALSE])

\* "You can't really abort script loading": the callback is deleted, and that is
\* all.  A script that has called back is not aborted, and keeps its listeners.
abortJsonp(x, r) == IF x.receivers[r].phase = "over" THEN x ELSE abortHtmlfile(x, r)

abortReceiver(x, r) ==
    CASE Ajax -> abortXhr(x, r)
      [] kind = "eventsource" -> abortEventSource(x, r)
      [] kind = "htmlfile" -> abortHtmlfile(x, r)
      [] kind = "jsonp" -> abortJsonp(x, r)

\* Slip: Polling does not know that it is closing.
abortPolling_Unmarked(x) == IF x.poll = 0 THEN x ELSE abortReceiver(x, x.poll)

\* The sender has let go of its Polling by then if that closed before.
abortPolling(x) ==
    IF x.closing \/ x.poll = 0 THEN x
    ELSE abortReceiver([x EXCEPT !.closing = TRUE], x.poll)

\* sendStop of a post by request: closing it does nothing before its first task,
\* and then it calls back when it is done.
abortAjax(x, p) == [x EXCEPT !.posts[p].phase = IF @ = "scheduled" THEN @ ELSE "over"]

\* sendStop of a form: it cannot be aborted, but does not call back any more.
abortForm(x, p) == [x EXCEPT !.posts[p].calls = FALSE]

\* close of BufferedSender: clear the 25 ms timer, or abort the post.  (The abort
\* calls back with an error, which closes what is closing anyway.)
stopSending(x) ==
    LET stopped == [x EXCEPT !.stop = "null"] IN
    IF x.stop # "abort" THEN stopped
    ELSE IF kind = "jsonp" THEN abortForm(stopped, x.post) ELSE abortAjax(stopped, x.post)

\* A WebSocket's handlers are taken away before it is closed.
closeWebSocket(x) == [x EXCEPT !.listens = FALSE, !.receivers[1].phase = "over"]

\* close of a transport: the sender, then the receiver.
close(x) ==
    IF kind = "websocket" THEN closeWebSocket(x)
    ELSE abortPolling(stopSending([x EXCEPT !.listens = FALSE]))

\* emit('close'): SockJS takes its listeners away.  Every emitter then closes.
emitClose(x) ==
    close([x EXCEPT !.told = @ + (IF x.listens THEN 1 ELSE 0), !.listens = FALSE])

\* emit('message'): frame "c" makes SockJS close the transport, in the midst of
\* what passes the frames on.
emitMessage(x, f) ==
    IF ~x.listens THEN x
    ELSE IF IsClose(f) THEN close(x)
    ELSE [x EXCEPT !.heard = Append(@, f)]

\* Slip: a close event is heard again.
pollClosed_Again(x, r, reason) ==
    IF x.closing THEN x
    ELSE IF reason = "network" THEN _scheduleReceiver(x) ELSE emitClose([x EXCEPT !.poll = 0])

\* Slip: a poll that ended in order ends the transport's receiving.
pollClosed_Once(x, r, reason) ==
    LET done == [x EXCEPT !.receivers[r].listens = FALSE, !.poll = 0] IN
    IF x.receivers[r].listens /\ ~done.closing /\ reason # "network" THEN emitClose(done) ELSE done

\* Polling hears the close event of a receiver, once.
pollClosed(x, r, reason) ==
    IF ~x.receivers[r].listens THEN x
    ELSE LET done == [x EXCEPT !.receivers[r].listens = FALSE, !.poll = 0] IN
         IF done.closing THEN done
         ELSE IF reason = "network" THEN _scheduleReceiver(done)
         ELSE emitClose(done)

\* The frames from start to last are passed on.
PassOn(x, start, last) ==
    LET after[n \in 0 .. last] == IF n < start THEN x ELSE emitMessage(after[n - 1], n)
    IN  after[last]

\* Slip: every chunk is read from the start of the response.
_chunkHandler_FromStart(x, r, halves) ==
    PassOn(x, x.receivers[r].first, halves \div 2)

\* XhrReceiver: a response is text, read as far as it has arrived, in halves of a
\* frame; what is heard of it are the complete lines after bufferPosition.
_chunkHandler(x, r, halves) ==
    LET rec == x.receivers[r]
        last == halves \div 2
    IN  PassOn([x EXCEPT !.receivers[r].pos = last - rec.first + 1], rec.first + rec.pos, last)

ended(x, r) == [x EXCEPT !.receivers[r].phase = "over"]

\* A receiver has given up, its browser perhaps not yet.
givenUp(x, r) == [x EXCEPT !.receivers[r].loading = TRUE]

-----------------------------------------------------------------------------
(* The sender *)

\* A post by a request object, which is made in its first task.
AjaxPost(msgs) == [msgs |-> msgs, phase |-> "scheduled", arrived |-> FALSE, calls |-> TRUE]

\* A form that is submitted into an iframe.
FormPost(msgs) == [AjaxPost(msgs) EXCEPT !.phase = "open"]

\* Make a post of all that waits.
sendSchedule(x) ==
    IF x.buffer = <<>> THEN x
    ELSE [x EXCEPT
            !.posts = Append(@, IF kind = "jsonp" THEN FormPost(x.buffer) ELSE AjaxPost(x.buffer)),
            !.post = Len(x.posts) + 1, !.stop = "abort", !.buffer = <<>>]

\* Slip: posts do not wait for each other.
send_AtOnce ==
    /\ t.listens /\ t.heard # <<>> /\ kind # "websocket" /\ t.sent < MaxSends
    /\ t' = sendSchedule([t EXCEPT !.sent = @ + 1, !.buffer = Append(@, t.sent + 1)])
    /\ UNCHANGED <<kind, srv>>

\* SockJS sends when frame "o", the first, has been heard.  One post at a time.
send ==
    /\ t.listens /\ t.heard # <<>> /\ kind # "websocket" /\ t.sent < MaxSends
    /\ LET buffered == [t EXCEPT !.sent = @ + 1, !.buffer = Append(@, t.sent + 1)]
       IN  t' = IF t.stop = "null" THEN sendSchedule(buffered) ELSE buffered
    /\ UNCHANGED <<kind, srv>>

\* The first task of a post.
PostStarts(p) ==
    /\ t.posts[p].phase = "scheduled"
    /\ t' = [t EXCEPT !.posts[p].phase = "open"]
    /\ UNCHANGED <<kind, srv>>

PostArrives(p) ==
    /\ t.posts[p].phase = "open" /\ ~t.posts[p].arrived
    /\ t' = [t EXCEPT !.posts[p].arrived = TRUE]
    /\ srv' = [srv EXCEPT !.got = @ \o t.posts[p].msgs]
    /\ UNCHANGED kind

\* The callback of a post that is done: the next one waits for 25 ms.
postDone(p) == [t EXCEPT !.posts[p].phase = "over",
                         !.stop = IF t.posts[p].calls THEN "wait" ELSE @]

\* Answered with 200 or 204; also when the transport has been closed meanwhile
\* and could not abort it.
PostDone(p) ==
    /\ t.posts[p].phase = "open" /\ t.posts[p].arrived
    /\ t' = postDone(p)
    /\ UNCHANGED <<kind, srv>>

\* The post or its answer is lost, and the transport closes.
AjaxFails(p) ==
    /\ kind # "jsonp" /\ t.posts[p].phase = "open"
    /\ t' = emitClose([t EXCEPT !.posts[p].phase = "over", !.stop = "null"])
    /\ UNCHANGED <<kind, srv>>

\* A form's failure cannot be told from its success.
FormFails(p) ==
    /\ kind = "jsonp" /\ t.posts[p].phase = "open"
    /\ t' = postDone(p)
    /\ UNCHANGED <<kind, srv>>

\* The 25 ms after a post are over.
WaitOver ==
    /\ t.stop = "wait"
    /\ t' = sendSchedule([t EXCEPT !.stop = "null"])
    /\ UNCHANGED <<kind, srv>>

\* WebSocket sends at once, and what was sent before a close still arrives.
wsSend ==
    /\ t.listens /\ t.heard # <<>> /\ kind = "websocket" /\ t.sent < MaxSends
    /\ t' = [t EXCEPT !.sent = @ + 1, !.buffer = Append(@, t.sent + 1)]
    /\ UNCHANGED <<kind, srv>>

wsArrives ==
    /\ kind = "websocket" /\ t.buffer # <<>>
    /\ t' = [t EXCEPT !.buffer = Tail(@)]
    /\ srv' = [srv EXCEPT !.got = Append(@, Head(t.buffer))]
    /\ UNCHANGED kind

-----------------------------------------------------------------------------
(* The server, and what the browser tells the receivers *)

ServerMakes ==
    /\ ~srv.over
    /\ \/ srv.frames < MaxFrames /\ srv' = [srv EXCEPT !.frames = @ + 1]
       \/ srv' = [srv EXCEPT !.over = TRUE]
    /\ UNCHANGED <<kind, t>>

\* A response that is cut: what is not written is lost, "c" is all that follows.
Interrupted == [srv EXCEPT !.over = TRUE, !.written = 2 * srv.frames]

IsOpen(r) == t.receivers[r].phase = "open"
MayPollAgain == Len(t.receivers) < MaxReceivers

\* The first task of a request makes it.
XhrStarts(r) ==
    /\ Ajax /\ t.receivers[r].phase = "scheduled"
    /\ t' = withReceiver(t, r, [t.receivers[r] EXCEPT
                !.phase = "open", !.first = srv.written \div 2 + 1])
    /\ UNCHANGED <<kind, srv>>

\* More of the response arrives, which may end within a frame.
Arrives(r, halves) ==
    /\ IsOpen(r)
    /\ halves \in srv.written + 1 .. 2 * made
    /\ srv' = [srv EXCEPT !.written = halves]
    /\ UNCHANGED kind

\* There is a chunk event, or none: not all browsers show the text before its end.
XhrReads(r) ==
    /\ kind = "xhr"
    /\ \E halves \in 1 .. 2 * made :
         /\ Arrives(r, halves)
         /\ t' \in {t, _chunkHandler(t, r, halves)}

\* XDomainRequest tells all progress.
XdrReads(r) ==
    /\ kind = "xdr"
    /\ \E halves \in 1 .. 2 * made :
         /\ Arrives(r, halves)
         /\ t' = _chunkHandler(t, r, halves)

\* The response is complete: the rest of it is read, and the next poll begins.
XhrFinishes(r) ==
    /\ Ajax /\ IsOpen(r) /\ MayPollAgain
    /\ srv.written % 2 = 0 /\ srv.written >= 2 * t.receivers[r].first
    /\ t' = pollClosed(ended(_chunkHandler(t, r, srv.written), r), r, "network")
    /\ UNCHANGED <<kind, srv>>

\* Status 0 or an error, or _error of XDomainRequest: the text is not looked at.
XhrFails(r) ==
    /\ Ajax /\ IsOpen(r)
    /\ t' = pollClosed(ended(t, r), r, "permanent")
    /\ srv' = Interrupted
    /\ UNCHANGED kind

\* A message of a WebSocket or an EventSource, or a script call of an htmlfile.
FrameEvent(r) ==
    /\ kind \in {"websocket", "eventsource", "htmlfile"} /\ IsOpen(r)
    /\ srv.written < 2 * made
    /\ srv' = [srv EXCEPT !.written = @ + 2]
    /\ t' = emitMessage(t, srv.written \div 2 + 1)
    /\ UNCHANGED kind

WebSocketClosed ==
    /\ kind = "websocket" /\ IsOpen(1)
    /\ t' = [emitClose(t) EXCEPT !.buffer = <<>>]
    /\ UNCHANGED <<kind, srv>>

\* EventSource tells errors it will reconnect after from others.  Its receiver
\* is silenced at once, and closes 200 ms later.
EventSourceError(r) ==
    /\ kind = "eventsource" /\ IsOpen(r) /\ MayPollAgain
    /\ \E reason \in {"network", "permanent"} :
         t' = withReceiver(t, r, [t.receivers[r] EXCEPT !.phase = "over", !.late = {reason}])
    /\ srv' \in {srv, Interrupted}
    /\ UNCHANGED kind

EventSourceClosed(r) ==
    /\ kind = "eventsource"
    /\ \E reason \in t.receivers[r].late :
         t' = pollClosed([t EXCEPT !.receivers[r].late = @ \ {reason}], r, reason)
    /\ UNCHANGED <<kind, srv>>

\* The iframe's first script call: from here on no failure is noticed.
HtmlfileStarts(r) ==
    /\ kind = "htmlfile" /\ t.receivers[r].phase = "scheduled"
    /\ t' = [t EXCEPT !.receivers[r].phase = "open"]
    /\ UNCHANGED <<kind, srv>>

\* stop is the last script call of a response.
HtmlfileStops(r) ==
    /\ kind = "htmlfile" /\ IsOpen(r) /\ MayPollAgain
    /\ t' = pollClosed(ended(t, r), r, "network")
    /\ UNCHANGED <<kind, srv>>

\* Before the first script call, an error or the timeout of the iframe is final.
HtmlfileError(r) ==
    /\ kind = "htmlfile" /\ t.receivers[r].phase = "scheduled"
    /\ LET closed == pollClosed(ended(t, r), r, "permanent")
       IN  t' \in {closed, givenUp(closed, r)}
    /\ UNCHANGED <<kind, srv>>

\* The later task of an abort.
HtmlfileRemoved(r) ==
    /\ kind = "htmlfile" /\ t.receivers[r].loading
    /\ t' = [t EXCEPT !.receivers[r].loading = FALSE]
    /\ UNCHANGED <<kind, srv>>

\* An iframe whose response is cut says nothing.
HtmlfileCut(r) ==
    /\ kind = "htmlfile" /\ IsOpen(r)
    /\ t' = [t EXCEPT !.receivers[r].phase = "cut"]
    /\ srv' = Interrupted
    /\ UNCHANGED kind

\* The script calls back with a frame: it is cleaned up before it is heard.
JsonpCallback(r) ==
    /\ kind = "jsonp" /\ IsOpen(r) /\ MayPollAgain
    /\ srv.written < 2 * made
    /\ srv' = [srv EXCEPT !.written = @ + 2]
    /\ t' = pollClosed(emitMessage(ended(t, r), srv.written \div 2 + 1), r, "network")
    /\ UNCHANGED kind

\* A script loaded without calling back, or 35 seconds are over.
JsonpAborts(r) ==
    /\ kind = "jsonp" /\ IsOpen(r)
    /\ LET closed == pollClosed(ended(t, r), r, "abnormally")
       IN  t' \in {closed, givenUp(closed, r)}
    /\ UNCHANGED <<kind, srv>>

\* A script's error may come before its call: it counts one second later.
JsonpScriptError(r) ==
    /\ kind = "jsonp" /\ IsOpen(r) /\ t.receivers[r].late = {}
    /\ t' = [t EXCEPT !.receivers[r].late = {"onerror"}]
    /\ UNCHANGED <<kind, srv>>

JsonpErrorTimer(r) ==
    /\ kind = "jsonp" /\ t.receivers[r].late # {}
    /\ LET closed == pollClosed([ended(t, r) EXCEPT !.receivers[r].late = {}], r, "onerror")
       IN  \/ t' = closed
           \/ IsOpen(r) /\ t' = givenUp(closed, r)
    /\ UNCHANGED <<kind, srv>>

\* The server answers a poll the page has let go of: the script calls a function
\* that has been deleted.
UnheardFrame(r) ==
    /\ t.receivers[r].loading
    /\ srv.written < 2 * made
    /\ srv' = [srv EXCEPT !.written = @ + 2]
    /\ t' = [t EXCEPT !.receivers[r].loading = kind # "jsonp"]
    /\ UNCHANGED kind

\* SockJS closes the transport: the page does, or the transport has timed out.
Close ==
    /\ t.listens
    /\ t' = close(t)
    /\ UNCHANGED <<kind, srv>>

-----------------------------------------------------------------------------

Init ==
    /\ kind \in Kinds
    /\ srv = [frames |-> 0, over |-> FALSE, written |-> 0, got |-> <<>>]
    /\ t = NewTransport

ReceiverStep(r) ==
    \/ XhrStarts(r) \/ XhrReads(r) \/ XdrReads(r) \/ XhrFinishes(r) \/ XhrFails(r)
    \/ FrameEvent(r)
    \/ EventSourceError(r) \/ EventSourceClosed(r)
    \/ HtmlfileStarts(r) \/ HtmlfileStops(r) \/ HtmlfileError(r) \/ HtmlfileCut(r)
    \/ HtmlfileRemoved(r)
    \/ JsonpCallback(r) \/ JsonpAborts(r) \/ JsonpScriptError(r) \/ JsonpErrorTimer(r)
    \/ UnheardFrame(r)

PostStep(p) == PostStarts(p) \/ PostArrives(p) \/ PostDone(p) \/ AjaxFails(p) \/ FormFails(p)

Next ==
    \/ ServerMakes \/ send \/ wsSend \/ wsArrives \/ WaitOver \/ WebSocketClosed \/ Close
    \/ \E r \in DOMAIN t.receivers : ReceiverStep(r)
    \/ \E p \in DOMAIN t.posts : PostStep(p)

Spec == Init /\ [][Next]_vars

\* The server writes what it has to the poll it has and answers posts; timers and
\* first tasks run.
Fairness ==
    /\ WF_vars(wsArrives) /\ WF_vars(WaitOver)
    /\ \A r \in 1 .. MaxReceivers :
         WF_vars(r \in DOMAIN t.receivers
                   /\ (XhrStarts(r) \/ FrameEvent(r) \/ EventSourceClosed(r)
                         \/ HtmlfileStarts(r) \/ JsonpCallback(r)))
    /\ \A r \in 1 .. MaxReceivers :
         WF_vars(r \in DOMAIN t.receivers /\ (XhrReads(r) \/ XdrReads(r)))
    /\ \A r \in 1 .. MaxReceivers : WF_vars(r \in DOMAIN t.receivers /\ XhrFinishes(r))
    /\ \A p \in 1 .. MaxSends :
         WF_vars(p \in DOMAIN t.posts /\ (PostStarts(p) \/ PostArrives(p) \/ PostDone(p)))

FairSpec == Spec /\ Fairness

-----------------------------------------------------------------------------
(* Properties *)

TypeOK ==
    /\ kind \in Kinds
    /\ srv \in [frames : 0 .. MaxFrames, over : BOOLEAN, written : 0 .. 2 * (MaxFrames + 1),
                got : Seq(1 .. MaxSends)]
    /\ t.listens \in BOOLEAN /\ t.closing \in BOOLEAN /\ t.told \in 0 .. 1
    /\ t.heard \in Seq(1 .. MaxFrames)
    /\ t.poll \in {0} \cup DOMAIN t.receivers
    /\ t.receivers \in Seq([phase : {"scheduled", "open", "cut", "over"},
                            first : 0 .. MaxFrames + 2, pos : 0 .. MaxFrames + 1,
                            listens : BOOLEAN,
                            late : SUBSET {"network", "permanent", "user", "onerror"},
                            loading : BOOLEAN])
    /\ t.sent \in 0 .. MaxSends /\ t.buffer \in Seq(1 .. MaxSends)
    /\ t.stop \in {"null", "wait", "abort"} /\ t.post \in {0} \cup DOMAIN t.posts
    /\ t.posts \in Seq([msgs : Seq(1 .. MaxSends), phase : {"scheduled", "open", "over"},
                        arrived : BOOLEAN, calls : BOOLEAN])

\* What the page sent reaches the server in the order of sending, each message
\* once, also when posts outlive the transport; nothing before it is missing,
\* except with forms, where a lost post cannot be told.  (The types are checked
\* along with it.)
GotInOrder ==
    /\ TypeOK
    /\ \A i \in DOMAIN srv.got :
         /\ i > 1 => srv.got[i - 1] < srv.got[i]
         /\ kind # "jsonp" => srv.got[i] = i

\* However a transport comes to be closed, the page lets go of its poll, the server
\* is rid of it unless it is a script or an iframe, which the browser goes on
\* loading, and of its post unless that is a form.  (A request whose first task has
\* not come yet is missed, and made afterwards.)  And from then on the transport
\* does not poll, whatever is answered late, even if it was closed by a frame in
\* the midst of a response.
ClosesForGood ==
    [][/\ t.listens /\ ~t'.listens =>
            /\ \A r \in DOMAIN t'.receivers :
                 /\ t'.receivers[r].phase # "open"
                 /\ t'.receivers[r].loading => kind \in {"htmlfile", "jsonp"}
            /\ kind # "jsonp" => \A p \in DOMAIN t'.posts : t'.posts[p].phase # "open"
       /\ ~t.listens => Len(t'.receivers) = Len(t.receivers)]_vars

\* The timer of a receiver that is not polling any more does nothing to the
\* transport, which may be polling with another one.
OldTimersHarmless ==
    [][\A r \in DOMAIN t.receivers :
         t'.receivers[r].late # t.receivers[r].late /\ r # t.poll =>
            /\ t'.listens = t.listens /\ t'.told = t.told
            /\ t'.poll = t.poll /\ Len(t'.receivers) = Len(t.receivers)]_vars

\* A transport is a channel: frames are heard in order, once, without gaps.
Abstract == INSTANCE Channel WITH made <- srv.frames, heard <- t.heard, over <- ~t.listens
ImplementsChannel == Abstract!Spec

\* Frames are heard in the end, and messages arrive, unless the transport is
\* closed or an iframe was cut, which nobody notices.
Delivers ==
    LET Gone == ~t.listens \/ \E r \in DOMAIN t.receivers : t.receivers[r].phase = "cut" IN
    /\ \A n \in 1 .. MaxFrames : srv.frames >= n ~> (Len(t.heard) >= n \/ Gone)
    /\ \A m \in 1 .. MaxSends :
         kind # "jsonp" /\ t.sent >= m ~> (m \in Range(srv.got) \/ Gone)
=============================================================================
