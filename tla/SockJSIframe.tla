---------------------------- MODULE SockJSIframe ----------------------------
(***************************************************************************)
(* The transports of the SockJS client that run another transport within   *)
(* an iframe (data/user/sockjs.js): IframeTransport in the page,           *)
(* bootstrap_iframe and FacadeJS in the iframe, messages both ways between *)
(* them.  SockJS tries several of them, one after the other, so messages   *)
(* of the last one's iframe may still come when the next one listens.      *)
(*                                                                         *)
(* Page and iframe are of one origin and share an event loop: a step is    *)
(* one task.  The transport within the iframe makes frames and may close;  *)
(* SockJSTransports models how.                                            *)
(*                                                                         *)
(* Assumed of the browser: timers set with a delay of 0 run in the order   *)
(* they were set in.  HTML keeps the order of timers of equal delay and    *)
(* lengthens the delay of those nested more than five deep, which would    *)
(* need a page that sends from within such a chain of timers; the pages    *)
(* here send one message, from onopen.                                     *)
(***************************************************************************)
EXTENDS SequencesExt, Integers

CONSTANTS
    Windows,        \* how many such transports are tried: 1 .. Windows
    MaxFrames,      \* bound on the frames a transport within an iframe makes
    MaxSends        \* bound on the messages sent through one transport

ASSUME IframeAssumption ==
    Windows \in Nat \ {0} /\ MaxFrames \in Nat /\ MaxSends \in Nat

WindowIds == 1 .. Windows

VARIABLES
    trs,            \* [WindowIds -> transport in the page with its iframe element]
    frames,         \* [WindowIds -> what runs in the iframe]
    tasks,          \* the page's setTimeout(..., 0) tasks, in order
    toPage,         \* messages on their way to the page
    current         \* the window id of the transport SockJS has made last

vars == <<trs, frames, tasks, toPage, current>>

\* iframeObj: not null.  listens: SockJS listens to it.  attached: it listens to
\* messages.  timer: the one of createIframe.  onload: the handler is set.
NewTransport ==
    [iframeObj |-> TRUE, listens |-> TRUE, attached |-> TRUE, timer |-> "15s", onload |-> TRUE,
     heard |-> <<>>, told |-> 0, sent |-> 0]

\* phase of the iframe's document; loadEvent: still to come; inbox: messages to it.
NewFrame ==
    [phase |-> "loading", loadEvent |-> TRUE, inbox |-> <<>>, facade |-> "undefined",
     made |-> 0, over |-> FALSE, got |-> <<>>, thrown |-> FALSE]

\* A transport or an iframe not made yet.
NoTransport == [NewTransport EXCEPT !.iframeObj = FALSE, !.listens = FALSE,
                                    !.attached = FALSE, !.timer = "none", !.onload = FALSE]
NoFrame == [NewFrame EXCEPT !.phase = "none"]

Init ==
    /\ trs = [w \in WindowIds |-> IF w = 1 THEN NewTransport ELSE NoTransport]
    /\ frames = [w \in WindowIds |-> IF w = 1 THEN NewFrame ELSE NoFrame]
    /\ tasks = <<>> /\ toPage = <<>>
    /\ current = 1

\* SockJS tries the next one when it has let go of the last.
NextTransport ==
    /\ ~trs[current].listens /\ current < Windows
    /\ current' = current + 1
    /\ trs' = [trs EXCEPT ![current'] = NewTransport]
    /\ frames' = [frames EXCEPT ![current'] = NewFrame]
    /\ UNCHANGED <<tasks, toPage>>

Msg(w, type, data) == [windowId |-> w, type |-> type, data |-> data]
Post(w, type, data) == [task |-> "post", msg |-> Msg(w, type, data)]
RemovalOf(w) == [task |-> "remove", msg |-> Msg(w, "", 0)]

-----------------------------------------------------------------------------
(* The page *)

\* createIframe: loaded stops the timer and takes the handlers away.
unattach(tr) == [tr EXCEPT !.timer = "none", !.onload = FALSE]

\* Slip: only the timer is stopped.
loaded_KeepsOnload(tr) == [tr EXCEPT !.timer = "none"]
loaded(tr) == unattach(tr)

\* Slip: the iframe stays in the document.
closeTasks_Stay(w) == <<Post(w, "c", 0)>>

\* postMessage('c'), then the task that removes the iframe.
closeTasks(w) == <<Post(w, "c", 0), RemovalOf(w)>>

\* close takes the timer, the listeners and the iframe element away.
closed(tr) == [unattach(tr) EXCEPT !.listens = FALSE, !.attached = FALSE, !.iframeObj = FALSE]

\* IframeTransport.close, called by SockJS.
Close ==
    /\ trs[current].listens
    /\ trs' = [trs EXCEPT ![current] = closed(@)]
    /\ tasks' = tasks \o closeTasks(current)
    /\ UNCHANGED <<frames, toPage, current>>

\* emit('close') and close(), when the iframe could not be loaded or the transport
\* in it has closed.
told(tr) == [closed(tr) EXCEPT !.told = @ + (IF tr.listens THEN 1 ELSE 0)]

\* onerror of the iframe, or its timer; the iframe is removed by both of the calls.
LoadError(w) ==
    /\ frames[w].phase # "removed"
    /\ trs[w].timer # "none"
    /\ trs' = [trs EXCEPT ![w] = told(@)]
    /\ tasks' = tasks \o <<RemovalOf(w)>> \o closeTasks(w)
    /\ UNCHANGED <<frames, toPage, current>>

\* The load event of the iframe, before its scripts have run or after: they are
\* given two more seconds, unless it was seen to be loaded already.
Onload(w) ==
    /\ frames[w].phase \in {"loading", "running"} /\ frames[w].loadEvent
    /\ frames' = [frames EXCEPT ![w].loadEvent = FALSE]
    /\ trs' = [trs EXCEPT ![w].timer = IF trs[w].onload THEN "2s" ELSE @]
    /\ UNCHANGED <<tasks, toPage, current>>

\* Slip: messages overtake each other.
send_AtOnce ==
    /\ trs[current].listens /\ trs[current].heard # <<>> /\ trs[current].sent < MaxSends
    /\ trs' = [trs EXCEPT ![current].sent = @ + 1]
    /\ tasks' = <<Post(current, "m", trs[current].sent + 1)>> \o tasks
    /\ UNCHANGED <<frames, toPage, current>>

\* SockJS sends once frame "o", the first, was heard.
send ==
    /\ trs[current].listens /\ trs[current].heard # <<>> /\ trs[current].sent < MaxSends
    /\ trs' = [trs EXCEPT ![current].sent = @ + 1]
    /\ tasks' = Append(tasks, Post(current, "m", trs[current].sent + 1))
    /\ UNCHANGED <<frames, toPage, current>>

\* A task of post hands a message to the iframe if it is there still; the task of
\* cleanup removes the iframe and everything that runs in it.
RunTask ==
    /\ tasks # <<>>
    /\ LET w == Head(tasks).msg.windowId
           fr == frames[w]
       IN  frames' = [frames EXCEPT ![w] =
             IF fr.phase = "removed" THEN fr
             ELSE IF Head(tasks).task = "remove"
               THEN [fr EXCEPT !.phase = "removed", !.inbox = <<>>]
             ELSE [fr EXCEPT !.inbox = Append(@, Head(tasks).msg)]]
    /\ tasks' = Tail(tasks)
    /\ UNCHANGED <<trs, toPage, current>>

\* Slip: the window id is not compared.
HeardBy_All(w, msg) == trs[w].attached
HeardBy(w, msg) == trs[w].attached /\ msg.windowId = w

IsClose(w, f) == frames[w].over /\ f = frames[w].made + 1

\* What a transport does with a message of its iframe: 's' is answered with what
\* the iframe shall run, 't' brings a frame ("c" makes SockJS close the transport),
\* 'c' tells that the transport in the iframe has closed.
_message(tr, msg) ==
    CASE msg.type = "s" -> loaded(tr)
      [] msg.type = "t" /\ IsClose(msg.windowId, msg.data) -> closed(tr)
      [] msg.type = "t" /\ ~IsClose(msg.windowId, msg.data) ->
           [tr EXCEPT !.heard = Append(@, msg.data)]
      [] msg.type = "c" -> told(tr)

answers(w, msg) ==
    IF msg.type = "s" THEN <<Post(w, "s", 0)>>
    ELSE IF msg.type = "c" \/ IsClose(msg.windowId, msg.data) THEN closeTasks(w) ELSE <<>>

\* The tasks after the listeners of one message, in the order they were attached.
Replies(msg) ==
    LET after[n \in 0 .. Windows] ==
          IF n = 0 THEN tasks
          ELSE IF HeardBy(n, msg) THEN after[n - 1] \o answers(n, msg) ELSE after[n - 1]
    IN  after[Windows]

PageMessage ==
    /\ toPage # <<>>
    /\ LET msg == Head(toPage) IN
       /\ trs' = [w \in WindowIds |-> IF HeardBy(w, msg) THEN _message(trs[w], msg) ELSE trs[w]]
       /\ tasks' = Replies(msg)
    /\ toPage' = Tail(toPage)
    /\ UNCHANGED <<frames, current>>

-----------------------------------------------------------------------------
(* The iframe *)

\* bootstrap_iframe: listen for messages, and say so.
Bootstrap(w) ==
    /\ frames[w].phase = "loading"
    /\ frames' = [frames EXCEPT ![w].phase = "running"]
    /\ toPage' = Append(toPage, Msg(w, "s", 0))
    /\ UNCHANGED <<trs, tasks, current>>

\* 's' makes the transport, 'm' is sent by it, 'c' closes it.
onMessage(w) ==
    /\ frames[w].phase = "running" /\ frames[w].inbox # <<>>
    /\ LET msg == Head(frames[w].inbox)
           rest == [frames[w] EXCEPT !.inbox = Tail(@)]
       IN  frames' = [frames EXCEPT ![w] =
             CASE msg.type = "s" -> [rest EXCEPT !.facade = "there"]
               [] msg.type = "m" /\ rest.facade = "there" -> [rest EXCEPT !.got = Append(@, msg.data)]
               [] msg.type = "m" /\ rest.facade # "there" -> [rest EXCEPT !.thrown = TRUE]
               [] msg.type = "c" -> [rest EXCEPT !.facade = "null"]]
    /\ UNCHANGED <<trs, tasks, toPage, current>>

Talks(w) == frames[w].phase = "running" /\ frames[w].facade = "there" /\ ~frames[w].over

\* FacadeJS passes on a frame; the last one may be "c", the server's.
_transportMessage(w) ==
    /\ Talks(w)
    /\ \/ frames[w].made < MaxFrames /\ frames' = [frames EXCEPT ![w].made = @ + 1]
       \/ frames' = [frames EXCEPT ![w].over = TRUE]
    /\ toPage' = Append(toPage, Msg(w, "t", frames[w].made + 1))
    /\ UNCHANGED <<trs, tasks, current>>

\* FacadeJS passes on that the transport has closed.
_transportClose(w) ==
    /\ Talks(w)
    /\ frames' = [frames EXCEPT ![w].over = TRUE]
    /\ toPage' = Append(toPage, Msg(w, "c", 0))
    /\ UNCHANGED <<trs, tasks, current>>

-----------------------------------------------------------------------------

InFrame(w) ==
    \/ LoadError(w) \/ Onload(w) \/ Bootstrap(w) \/ onMessage(w)
    \/ _transportMessage(w) \/ _transportClose(w)

Next ==
    \/ NextTransport \/ Close \/ send \/ RunTask \/ PageMessage
    \/ \E w \in WindowIds : InFrame(w)

Spec == Init /\ [][Next]_vars

\* Tasks, messages and timers come in the end.
Fairness ==
    /\ WF_vars(RunTask)
    /\ WF_vars(PageMessage)
    /\ \A w \in WindowIds : WF_vars(onMessage(w)) /\ WF_vars(LoadError(w))

FairSpec == Spec /\ Fairness

-----------------------------------------------------------------------------
(* Properties *)

TypeOK ==
    /\ trs \in [WindowIds ->
         [iframeObj : BOOLEAN, listens : BOOLEAN, attached : BOOLEAN, onload : BOOLEAN,
          timer : {"none", "15s", "2s"}, heard : Seq(1 .. MaxFrames), told : 0 .. 1,
          sent : 0 .. MaxSends]]
    /\ frames \in [WindowIds ->
         [phase : {"none", "loading", "running", "removed"}, loadEvent : BOOLEAN,
          inbox : Seq([windowId : WindowIds, type : {"s", "m", "c"}, data : 0 .. MaxSends]),
          facade : {"undefined", "there", "null"}, made : 0 .. MaxFrames, over : BOOLEAN,
          got : Seq(1 .. MaxSends), thrown : BOOLEAN]]
    /\ current \in WindowIds

\* A message for the server always finds the transport in the iframe, between the
\* 's' that makes and the 'c' that closes it, and none overtakes another.  (The
\* types are checked along with it.)
FacadeThere ==
    /\ TypeOK
    /\ \A w \in WindowIds :
         /\ ~frames[w].thrown
         /\ frames[w].got = [i \in 1 .. Len(frames[w].got) |-> i]

\* The timers of loading are over once the iframe has spoken: whatever the order of
\* the load event and the iframe's first message, they end no running transport.
LoadedForGood ==
    [][\A w \in WindowIds :
         trs[w].heard # <<>> /\ trs'[w].listens = FALSE /\ trs[w].listens => trs[w].timer = "none"]_vars

\* Every transport is a channel of its own: what the iframe of another one still
\* says is not heard.
Abstract(w) == INSTANCE Channel WITH made <- frames[w].made, heard <- trs[w].heard,
                                     over <- w <= current /\ ~trs[w].listens
ImplementsChannel ==
    /\ \A w \in WindowIds : Abstract(w)!Init
    /\ [][\A w \in WindowIds : [Abstract(w)!Next]_(Abstract(w)!vars)]_vars

\* Whoever closes the transport, its iframe is removed, and what runs in it ends;
\* and an iframe that says nothing does not keep SockJS waiting.
Removed ==
    \A w \in WindowIds :
        /\ w <= current /\ ~trs[w].listens ~> frames[w].phase = "removed"
        /\ trs[w].listens /\ frames[w].phase = "loading" ~> frames[w].phase # "loading"
=============================================================================
