------------------------------- MODULE SockJS -------------------------------
(***************************************************************************)
(* The connection object of the SockJS client (data/user/sockjs.js), which *)
(* the transfer pages use for their connections.  It asks the server for   *)
(* its info, then tries one kind of transport after the other until one    *)
(* opens, and turns what transports say into the events of a WebSocket.    *)
(*                                                                         *)
(* Everything runs in the event loop of the page, so an action is one task *)
(* with all the calls it makes: a timer, an event of a transport, the load *)
(* event, or a call by the page.  Transports are what they emit: frames    *)
(* and at most one close event, and nothing after they were closed or have *)
(* lost their listeners.  SockJSTransports and SockJSIframe model how they *)
(* do that.                                                                *)
(***************************************************************************)
EXTENDS SequencesExt, Integers

CONSTANTS
    Browsers,       \* what browsers offer: see Capabilities
    Infos,          \* the answers of the server to /info
    MaxFrames       \* bound on the frames and close events heard of transports

Capabilities == {"WebSocket", "EventSource", "XHR", "CORS", "XDR", "iframe", "opera"}

ASSUME SockJSAssumption ==
    /\ Browsers \subseteq SUBSET Capabilities
    /\ Infos \subseteq [websocket : BOOLEAN, cookie_needed : BOOLEAN]
    /\ MaxFrames \in Nat

VARIABLES
    browser,
    doc,            \* document.readyState
    sock            \* the SockJS object with its timers and listeners

vars == <<browser, doc, sock>>

-----------------------------------------------------------------------------
(* Which transports there are *)

transportList ==
    <<"websocket", "xhr-streaming", "xdr-streaming", "eventsource",
      "iframe-eventsource", "htmlfile", "iframe-htmlfile", "xhr-polling",
      "xdr-polling", "iframe-xhr-polling", "jsonp-polling">>

\* The page and the transports are of one origin, so urlInfo has sameOrigin and
\* sameScheme, and no nullOrigin.
XhrStreamingEnabled == "opera" \notin browser /\ "CORS" \in browser
XdrStreamingEnabled(info) == ~info.cookie_needed /\ "XDR" \in browser
EventSourceEnabled == "EventSource" \in browser
HtmlFileEnabled == "iframe" \in browser
XhrPollingEnabled == "XHR" \in browser \/ "CORS" \in browser

\* enabled of iframe-wrap is called with one argument and takes it for the url:
\* the wrapped transport is asked about {sameOrigin: true} and nothing else.
IframeWrapEnabled(transportEnabled) == transportEnabled /\ "iframe" \in browser

filterToEnabled(info) ==
    LET enabled == {t \in Range(transportList) :
          \/ t = "websocket" /\ info.websocket /\ "WebSocket" \in browser
          \/ t = "xhr-streaming" /\ XhrStreamingEnabled
          \/ t \in {"xdr-streaming", "xdr-polling"} /\ XdrStreamingEnabled(info)
          \/ t = "eventsource" /\ EventSourceEnabled
          \/ t = "iframe-eventsource" /\ IframeWrapEnabled(EventSourceEnabled)
          \/ t = "htmlfile" /\ HtmlFileEnabled
          \/ t = "iframe-htmlfile" /\ IframeWrapEnabled(HtmlFileEnabled)
          \/ t = "xhr-polling" /\ XhrPollingEnabled
          \/ t = "iframe-xhr-polling" /\ IframeWrapEnabled(XhrPollingEnabled)
          \/ t = "jsonp-polling"}
        main[i \in 0 .. Len(transportList)] ==
          IF i = 0 THEN <<>>
          ELSE IF transportList[i] \in enabled THEN Append(main[i - 1], transportList[i])
          ELSE main[i - 1]
    IN  main[Len(transportList)]

IframeKinds == {"iframe-eventsource", "iframe-htmlfile", "iframe-xhr-polling"}

needBody(t) == t \in IframeKinds \cup {"xhr-streaming", "jsonp-polling"}

roundTrips(t) == IF t \in IframeKinds THEN 3 ELSE IF t = "jsonp-polling" THEN 1 ELSE 2

-----------------------------------------------------------------------------
(* The object.  Its methods call each other, so they are functions from what *)
(* the object is to what it becomes.                                         *)

\* The fields of the source are readyState, ir (the info request: scheduled,
\* asked, or null again), pending (_transports, the kinds not tried yet),
\* transport (0 for null) and timerId (the attempt _transportTimeoutId is of).
\* attempts are the transport objects made so far, timers those whose timeout
\* has not run, loads the load listeners that call _connect, closeTasks the
\* tasks of _close, frames what was heard of transports so far.  onclose, told and
\* thrown: the page's handlers are set, how often onclose was called, "SockJS has
\* already been closed" was thrown.
NewSockJS ==
    [readyState |-> "connecting", ir |-> "scheduled", pending |-> <<>>,
     attempts |-> <<>>, transport |-> 0, timerId |-> 0, timers |-> {}, loads |-> 0,
     waited |-> FALSE, closeTasks |-> 0, frames |-> 0, onclose |-> TRUE, told |-> 0,
     thrown |-> FALSE]

\* The transport is closed or loses its listeners: it is not heard again.
DropTransport(s) ==
    IF s.transport = 0 THEN s
    ELSE [s EXCEPT !.attempts[s.transport].heard = FALSE, !.transport = 0]

\* Slip: the listeners of the transport are kept.
_close_KeepsTransport(s) ==
    IF s.readyState = "closed" THEN [s EXCEPT !.thrown = TRUE]
    ELSE [s EXCEPT !.ir = "null", !.readyState = "closing", !.closeTasks = @ + 1]

\* The info request and the transport are closed first, also when it throws.
_close(s) ==
    LET quiet == [DropTransport(s) EXCEPT !.ir = "null"] IN
    IF s.readyState = "closed" THEN [quiet EXCEPT !.thrown = TRUE]
    ELSE [quiet EXCEPT !.readyState = "closing", !.closeTasks = @ + 1]

\* Make the next transport and set its timeout, wait for the body if it needs
\* one, or give up when none is left.
_connect(s) ==
    IF s.pending = <<>> THEN _close(s)
    ELSE IF needBody(Head(s.pending)) /\ doc = "loading"
      THEN [s EXCEPT !.loads = @ + 1, !.waited = TRUE]
    ELSE LET n == Len(s.attempts) + 1 IN
         [s EXCEPT !.pending = Tail(@), !.transport = n, !.timerId = n,
                   !.attempts = Append(@, [kind |-> Head(s.pending), heard |-> TRUE]),
                   !.timers = @ \cup {n}]

\* Slip: nothing is tried when a transport has failed.
_transportClose_Waits(s, code) ==
    IF code = "abnormal" /\ s.readyState = "connecting" THEN DropTransport(s)
    ELSE _close(DropTransport(s))

\* A transport that fails before the connection is open gives way to the next
\* one, unless it was closed with one of the codes a user may set.
_transportClose(s, code) ==
    IF code = "abnormal" /\ s.readyState = "connecting" THEN _connect(DropTransport(s))
    ELSE _close(DropTransport(s))

\* Slip: a second opening is taken for the first.
_open_Again(s) == [s EXCEPT !.readyState = "open"]

\* The timeout cleared is the one of the last transport.
_open(s) ==
    IF s.readyState = "connecting"
      THEN [s EXCEPT !.timers = @ \ {s.timerId}, !.readyState = "open"]
    ELSE _close(s)

-----------------------------------------------------------------------------
(* Tasks *)

Init ==
    /\ browser \in Browsers
    /\ doc \in {"loading", "interactive", "complete"}
    /\ sock = NewSockJS

\* The InfoReceiver's first task makes the request.  (One that was closed before
\* makes it too, but has no listeners any more.)
doXhr ==
    /\ sock.ir = "scheduled"
    /\ sock' = [sock EXCEPT !.ir = "asked"]
    /\ UNCHANGED <<browser, doc>>

\* InfoAjax: an answer that is no object counts as {}, which forbids nothing.
InfoAnswers == Infos \cup {[websocket |-> TRUE, cookie_needed |-> FALSE]}

\* _receiveInfo: the server's info is there, and says which transports to try.
InfoReceived ==
    /\ sock.ir = "asked"
    /\ \E info \in InfoAnswers :
         sock' = _connect([sock EXCEPT !.ir = "null", !.pending = filterToEnabled(info)])
    /\ UNCHANGED <<browser, doc>>

\* _receiveInfo without info: the request has failed, or run into its timeout.
InfoFailed ==
    /\ sock.ir = "asked"
    /\ sock' = _close([sock EXCEPT !.ir = "null"])
    /\ UNCHANGED <<browser, doc>>

\* Timeouts are round trips long, so an earlier one that is no longer is over first.
DueBefore(a, b) == a < b /\ roundTrips(sock.attempts[a].kind) <= roundTrips(sock.attempts[b].kind)

\* _transportTimeout, set for attempt a: it ends whatever transport is tried now.
TransportTimeout(a) ==
    /\ a \in sock.timers
    /\ \A b \in sock.timers : ~DueBefore(b, a)
    /\ LET over == [sock EXCEPT !.timers = @ \ {a}] IN
       sock' = IF sock.readyState = "connecting"
                 THEN _transportClose(DropTransport(over), "abnormal") ELSE over
    /\ UNCHANGED <<browser, doc>>

Hears(a) == sock.attempts[a].heard /\ sock.frames < MaxFrames
Counted(s) == [s EXCEPT !.frames = @ + 1]

\* Frame "o" of a transport.
OpenFrame(a) ==
    /\ Hears(a)
    /\ sock' = _open(Counted(sock))
    /\ UNCHANGED <<browser, doc>>

\* Frame "c": the server closes the session.  Frames "h", "a" and "m" only
\* dispatch events and change nothing here.
CloseFrame(a) ==
    /\ Hears(a)
    /\ sock' = _close(Counted(sock))
    /\ UNCHANGED <<browser, doc>>

\* The close event of a transport, which is heard once.
TransportClosed(a) ==
    /\ Hears(a)
    /\ \E code \in {"normal", "abnormal"} :
         sock' = _transportClose([Counted(sock) EXCEPT !.attempts[a].heard = FALSE], code)
    /\ UNCHANGED <<browser, doc>>

\* The page calls close(); on a closing or closed connection that does nothing.
Close ==
    /\ sock.readyState \in {"connecting", "open"}
    /\ sock' = _close(sock)
    /\ UNCHANGED <<browser, doc>>

\* Slip: the page's handlers stay.
CloseEvent_KeepsHandlers ==
    /\ sock.closeTasks > 0
    /\ sock' = [sock EXCEPT !.closeTasks = @ - 1, !.readyState = "closed", !.told = @ + 1]
    /\ UNCHANGED <<browser, doc>>

\* The task of _close dispatches the close event and takes the handlers away.
CloseEvent ==
    /\ sock.closeTasks > 0
    /\ sock' = [sock EXCEPT !.closeTasks = @ - 1, !.readyState = "closed",
                            !.told = @ + (IF sock.onclose THEN 1 ELSE 0), !.onclose = FALSE]
    /\ UNCHANGED <<browser, doc>>

\* The document is parsed, and later the load event fires.
DocumentProceeds ==
    /\ \/ doc = "loading" /\ doc' = "interactive"
       \/ doc = "interactive" /\ doc' = "complete"
    /\ UNCHANGED <<browser, sock>>

\* A listener of the load event, which is never detached.
LoadListener ==
    /\ doc = "complete" /\ sock.loads > 0
    /\ sock' = _connect([sock EXCEPT !.loads = @ - 1])
    /\ UNCHANGED <<browser, doc>>

\* Nothing else runs between the listeners of one event.
Loading == doc = "complete" /\ sock.loads > 0

FromTransport(a) == OpenFrame(a) \/ CloseFrame(a) \/ TransportClosed(a)

Next ==
    \/ LoadListener
    \/ /\ ~Loading
       /\ \/ doXhr \/ InfoReceived \/ InfoFailed
          \/ Close \/ CloseEvent \/ DocumentProceeds
          \/ \E a \in DOMAIN sock.attempts : TransportTimeout(a) \/ FromTransport(a)

Spec == Init /\ [][Next]_vars

\* Timers run, the document gets complete, and the info request has a timeout.
\* Transports need not say anything.
FairSpec ==
    /\ Spec
    /\ WF_vars(LoadListener)
    /\ WF_vars(~Loading /\ doXhr)
    /\ WF_vars(~Loading /\ InfoFailed)
    /\ WF_vars(~Loading /\ CloseEvent)
    /\ WF_vars(~Loading /\ DocumentProceeds)
    /\ \A a \in 1 .. Len(transportList) :
         WF_vars(a \in DOMAIN sock.attempts /\ ~Loading /\ TransportTimeout(a))

-----------------------------------------------------------------------------
(* Properties *)

TypeOK ==
    /\ browser \in Browsers
    /\ doc \in {"loading", "interactive", "complete"}
    /\ sock.readyState \in {"connecting", "open", "closing", "closed"}
    /\ sock.ir \in {"scheduled", "asked", "null"}
    /\ sock.pending \in Seq(Range(transportList))
    /\ sock.attempts \in Seq([kind : Range(transportList), heard : BOOLEAN])
    /\ sock.transport \in {0} \cup DOMAIN sock.attempts
    /\ sock.timerId \in {0} \cup DOMAIN sock.attempts
    /\ sock.timers \subseteq DOMAIN sock.attempts
    /\ {sock.loads, sock.closeTasks} \subseteq Nat /\ sock.told \in 0 .. 1
    /\ sock.frames \in 0 .. MaxFrames
    /\ sock.waited \in BOOLEAN /\ sock.onclose \in BOOLEAN /\ sock.thrown \in BOOLEAN

\* At most one transport can speak, the one the object holds, and none once the
\* connection is closing, nor does _close throw "SockJS has already been closed":
\* whatever timeouts, failures and late frames came before.  Having waited for the
\* body is the exception: a load listener connects even a closed object, and two
\* of them make two transports.  In either case send() of an open connection has a
\* transport to send with.
OneVoice ==
    /\ ~sock.waited =>
         /\ ~sock.thrown
         /\ \A a \in DOMAIN sock.attempts :
              sock.attempts[a].heard =>
                /\ a = sock.transport
                /\ sock.readyState \in {"connecting", "open"}
    /\ sock.readyState = "open" =>
         sock.transport # 0 /\ sock.attempts[sock.transport].heard

\* To the page it is a Socket, with one close event, in every case.
Abstract == INSTANCE Socket WITH readyState <- sock.readyState, told <- sock.told
ImplementsSocket == Abstract!Spec

\* Every attempt to connect comes to an end, and so does closing.
Settles ==
    /\ sock.readyState = "connecting" ~> sock.readyState # "connecting"
    /\ sock.readyState = "closing" ~> sock.readyState = "closed"
=============================================================================
