------------------------- MODULE SockJSIframeProofs -------------------------
(***************************************************************************)
(* Safety of the transports that run within an iframe, for any number of   *)
(* them, of frames and of messages: whatever comes when, nothing is sent   *)
(* to a transport that is not there, no timer ends one that runs, and each *)
(* is a channel of its own.                                                *)
(***************************************************************************)
EXTENDS SockJSIframe, SequenceLemmas

Transport ==
    [iframeObj : BOOLEAN, listens : BOOLEAN, attached : BOOLEAN, onload : BOOLEAN,
     timer : {"none", "15s", "2s"}, heard : Seq(1 .. MaxFrames), told : 0 .. 1,
     sent : 0 .. MaxSends]

ToFrame == [windowId : WindowIds, type : {"s", "m", "c"}, data : 0 .. MaxSends]
FromFrame == [windowId : WindowIds, type : {"s", "t", "c"}, data : 0 .. MaxFrames + 1]

Frame ==
    [phase : {"none", "loading", "running", "removed"}, loadEvent : BOOLEAN,
     inbox : Seq(ToFrame), facade : {"undefined", "there", "null"}, made : 0 .. MaxFrames,
     over : BOOLEAN, got : Seq(1 .. MaxSends), thrown : BOOLEAN]

Removal == [windowId : WindowIds, type : {""}, data : {0}]
Task == [task : {"post"}, msg : ToFrame] \cup [task : {"remove"}, msg : Removal]

TypeInv ==
    /\ trs \in [WindowIds -> Transport]
    /\ frames \in [WindowIds -> Frame]
    /\ current \in WindowIds
    /\ tasks \in Seq(Task)
    /\ toPage \in Seq(FromFrame)

\* What is under way to the iframe of window w, in its inbox or posted by tasks q.
IsPost(t, w) == t.task = "post" /\ t.msg.windowId = w
PostsTo(q, w) == {t.msg : t \in {t \in ToSet(q) : IsPost(t, w)}}
PostOrder(q, w) ==
    {<<p[1].msg, p[2].msg>> : p \in {p \in InOrder(q) : IsPost(p[1], w) /\ IsPost(p[2], w)}}

Out(inbox, q, w) == ToSet(inbox) \cup PostsTo(q, w)
OutOrder(inbox, q, w) == InOrder(inbox) \cup (ToSet(inbox) \X PostsTo(q, w)) \cup PostOrder(q, w)

\* What is under way from it.
In(q, w) == {m \in ToSet(q) : m.windowId = w}
ArrivalOrder(q, w) == {p \in InOrder(q) : p[1].windowId = w /\ p[2].windowId = w}

\* Message h is in front of all others of S; without it these are in S2.
Leads(h, S, S2, pairs, pairs2) ==
    /\ S = {h} \cup S2 /\ pairs2 \subseteq pairs
    /\ \A e \in S2 : <<h, e>> \in pairs

\* The transport in the iframe is not closed before SockJS has let go of it.
Closing(tr, fr, out) ==
    /\ tr.attached = tr.listens
    /\ tr.listens => tr.told = 0 /\ fr.facade # "null" /\ \A m \in out : m.type # "c"

\* It is made when loading is over, and only then there is something to hear.
Settled(tr) == tr.timer = "none" /\ ~tr.onload
Loading(tr, fr, out, in) ==
    /\ out # {} \/ fr.facade # "undefined" => Settled(tr)
    /\ tr.heard # <<>> => fr.facade # "undefined"
    /\ \A m \in in : m.type # "s" => fr.facade # "undefined"

\* Of the messages for the server, none is behind one with a higher number or
\* behind the 'c' that closes, ...
Precedes(a, b) == b.type = "m" => a.type # "c" /\ (a.type = "m" => a.data < b.data)

\* ... and none that was sent is missing while the iframe is there.
Sending(tr, fr, out, pairs) ==
    /\ ~fr.thrown
    /\ fr.got = FirstNumbers(Len(fr.got)) /\ Len(fr.got) <= tr.sent
    /\ \A m \in out : m.type = "m" =>
         fr.facade = "there" /\ m.data \in Len(fr.got) + 1 .. tr.sent
    /\ \A p \in pairs : Precedes(p[1], p[2])
    /\ fr.phase # "removed" =>
         \A n \in Len(fr.got) + 1 .. tr.sent : \E m \in out : m.type = "m" /\ m.data = n

\* Likewise of the frames on their way to SockJS, while it listens.
Latest(fr) == IF fr.over THEN fr.made + 1 ELSE fr.made
Hearing(tr, fr, in, pairs) ==
    /\ tr.heard = FirstNumbers(Len(tr.heard)) /\ Len(tr.heard) <= fr.made
    /\ \A m \in in : m.type = "t" => m.data \in 1 .. Latest(fr)
    /\ tr.listens =>
         /\ \A m \in in : m.type = "t" => m.data > Len(tr.heard)
         /\ \A p \in pairs : p[1].type = "t" /\ p[2].type = "t" => p[1].data < p[2].data
         /\ \A n \in Len(tr.heard) + 1 .. fr.made : \E m \in in : m.type = "t" /\ m.data = n

Window(tr, fr, out, outOrder, in, inOrder) ==
    /\ Closing(tr, fr, out)
    /\ Loading(tr, fr, out, in)
    /\ Sending(tr, fr, out, outOrder)
    /\ Hearing(tr, fr, in, inOrder)

WindowInv(w) ==
    Window(trs[w], frames[w], Out(frames[w].inbox, tasks, w), OutOrder(frames[w].inbox, tasks, w),
           In(toPage, w), ArrivalOrder(toPage, w))

\* Nothing is there of a transport that was not made yet.
NotYet ==
    /\ \A w \in WindowIds : w > current => trs[w] = NoTransport /\ frames[w] = NoFrame
    /\ \A t \in ToSet(tasks) : t.msg.windowId <= current
    /\ \A m \in ToSet(toPage) : m.windowId <= current

\* The inductive invariant.
IInv == TypeInv /\ NotYet /\ \A w \in WindowIds : WindowInv(w)

-----------------------------------------------------------------------------
(* Messages under way *)

\* What tasks post, when others are put behind them.
LEMMA PostsAdded ==
    ASSUME NEW q \in Seq(Task), NEW r \in Seq(Task), NEW w
    PROVE  /\ q \o r \in Seq(Task)
           /\ PostsTo(q \o r, w) = PostsTo(q, w) \cup PostsTo(r, w)
           /\ PostOrder(q \o r, w) \subseteq
                PostOrder(q, w) \cup PostOrder(r, w) \cup (PostsTo(q, w) \X PostsTo(r, w))
<1>1. /\ q \o r \in Seq(Task)
      /\ ToSet(q \o r) = ToSet(q) \cup ToSet(r)
      /\ InOrder(q \o r) \subseteq InOrder(q) \cup InOrder(r) \cup (ToSet(q) \X ToSet(r))
  BY OrderOfConcat
<1> DEFINE c == q \o r
<1>2. /\ ToSet(c) = ToSet(q) \cup ToSet(r)
      /\ InOrder(c) \subseteq InOrder(q) \cup InOrder(r) \cup (ToSet(q) \X ToSet(r))
  BY <1>1
<1> HIDE DEF c
<1>3. PostsTo(c, w) = PostsTo(q, w) \cup PostsTo(r, w)
  BY <1>2 DEF PostsTo
<1>4. ASSUME NEW p \in InOrder(c), IsPost(p[1], w), IsPost(p[2], w)
      PROVE  <<p[1].msg, p[2].msg>> \in
               PostOrder(q, w) \cup PostOrder(r, w) \cup (PostsTo(q, w) \X PostsTo(r, w))
  <2>1. p \in InOrder(q) \/ p \in InOrder(r) \/ p \in ToSet(q) \X ToSet(r)
    BY <1>2, <1>4
  <2> QED
    BY <1>4, <2>1 DEF PostOrder, PostsTo
<1>5. PostOrder(c, w) \subseteq
        PostOrder(q, w) \cup PostOrder(r, w) \cup (PostsTo(q, w) \X PostsTo(r, w))
  BY <1>4 DEF PostOrder
<1> QED
  BY <1>1, <1>3, <1>5 DEF c

\* What is under way then.
LEMMA OutAdded ==
    ASSUME NEW q \in Seq(Task), NEW r \in Seq(Task), NEW w, NEW inbox
    PROVE  /\ q \o r \in Seq(Task)
           /\ Out(inbox, q \o r, w) = Out(inbox, q, w) \cup PostsTo(r, w)
           /\ OutOrder(inbox, q \o r, w) \subseteq
                OutOrder(inbox, q, w) \cup PostOrder(r, w) \cup (Out(inbox, q, w) \X PostsTo(r, w))
<1> DEFINE c == q \o r
<1>1. /\ c \in Seq(Task) /\ PostsTo(c, w) = PostsTo(q, w) \cup PostsTo(r, w)
      /\ PostOrder(c, w) \subseteq
           PostOrder(q, w) \cup PostOrder(r, w) \cup (PostsTo(q, w) \X PostsTo(r, w))
  BY PostsAdded
<1> HIDE DEF c
<1>2. Out(inbox, c, w) = Out(inbox, q, w) \cup PostsTo(r, w)
  BY <1>1 DEF Out
<1>3. ToSet(inbox) \X PostsTo(c, w) \subseteq
        (ToSet(inbox) \X PostsTo(q, w)) \cup (ToSet(inbox) \X PostsTo(r, w))
  BY <1>1
<1>4. /\ ToSet(inbox) \X PostsTo(r, w) \subseteq Out(inbox, q, w) \X PostsTo(r, w)
      /\ PostsTo(q, w) \X PostsTo(r, w) \subseteq Out(inbox, q, w) \X PostsTo(r, w)
  BY DEF Out
<1>5. OutOrder(inbox, c, w) \subseteq
        OutOrder(inbox, q, w) \cup PostOrder(r, w) \cup (Out(inbox, q, w) \X PostsTo(r, w))
  BY <1>1, <1>3, <1>4 DEF OutOrder
<1> QED
  BY <1>1, <1>2, <1>5 DEF c

\* A single task, and the two of closing.
LEMMA OneTask ==
    ASSUME NEW e \in Task, NEW w
    PROVE  /\ <<e>> \in Seq(Task) /\ ToSet(<<e>>) = {e}
           /\ PostsTo(<<e>>, w) = IF IsPost(e, w) THEN {e.msg} ELSE {}
           /\ PostOrder(<<e>>, w) = {}
<1>1. <<e>> \in Seq(Task) /\ Len(<<e>>) = 1 /\ <<e>>[1] = e
  OBVIOUS
<1>2. DOMAIN <<e>> = {1} /\ ToSet(<<e>>) = {e}
  <2> DEFINE s == <<e>>
  <2>1. s \in Seq(Task) /\ Len(s) = 1 /\ s[1] = e
    BY <1>1
  <2> HIDE DEF s
  <2>2. DOMAIN s = 1 .. Len(s) /\ ToSet(s) = {s[i] : i \in 1 .. Len(s)}
    BY <2>1, MembersOf
  <2>3. DOMAIN s = {1} /\ ToSet(s) = {e}
    BY <2>1, <2>2
  <2> QED
    BY <2>3 DEF s
<1>3. InOrder(<<e>>) = {}
  BY <1>2 DEF InOrder
<1>4. PostsTo(<<e>>, w) = IF IsPost(e, w) THEN {e.msg} ELSE {}
  BY <1>2 DEF PostsTo
<1>5. PostOrder(<<e>>, w) = {}
  BY <1>3 DEF PostOrder
<1> QED
  BY <1>1, <1>2, <1>4, <1>5

LEMMA ClosingTasks ==
    ASSUME NEW v \in WindowIds, NEW w
    PROVE  /\ closeTasks(v) \in Seq(Task)
           /\ \A t \in ToSet(closeTasks(v)) : t.msg.windowId = v
           /\ PostsTo(closeTasks(v), w) = IF w = v THEN {Msg(v, "c", 0)} ELSE {}
           /\ PostOrder(closeTasks(v), w) = {}
<1> DEFINE a == Post(v, "c", 0)
           b == RemovalOf(v)
<1>1. a \in Task /\ b \in Task
  BY IframeAssumption DEF Task, Post, RemovalOf, Msg, ToFrame, Removal
<1>2. closeTasks(v) = <<a>> \o <<b>>
  BY DEF closeTasks
<1>3. /\ IsPost(a, w) <=> w = v
      /\ a.msg = Msg(v, "c", 0) /\ ~IsPost(b, w)
      /\ a.msg.windowId = v /\ b.msg.windowId = v
  BY DEF IsPost, Post, RemovalOf, Msg
<1> HIDE DEF a, b
<1>4. /\ <<a>> \in Seq(Task) /\ ToSet(<<a>>) = {a} /\ PostOrder(<<a>>, w) = {}
      /\ PostsTo(<<a>>, w) = IF w = v THEN {Msg(v, "c", 0)} ELSE {}
  BY <1>1, <1>3, OneTask
<1>5. /\ <<b>> \in Seq(Task) /\ ToSet(<<b>>) = {b} /\ PostOrder(<<b>>, w) = {}
      /\ PostsTo(<<b>>, w) = {}
  BY <1>1, <1>3, OneTask
<1>6. /\ <<a>> \o <<b>> \in Seq(Task)
      /\ PostsTo(<<a>> \o <<b>>, w) = PostsTo(<<a>>, w) \cup PostsTo(<<b>>, w)
      /\ PostOrder(<<a>> \o <<b>>, w) \subseteq
           PostOrder(<<a>>, w) \cup PostOrder(<<b>>, w) \cup (PostsTo(<<a>>, w) \X PostsTo(<<b>>, w))
  BY <1>4, <1>5, PostsAdded
<1>7. ToSet(<<a>> \o <<b>>) = {a} \cup {b}
  <2> DEFINE x == <<a>>
             y == <<b>>
  <2>1. x \in Seq(Task) /\ y \in Seq(Task) /\ ToSet(x) = {a} /\ ToSet(y) = {b}
    BY <1>4, <1>5
  <2> HIDE DEF x, y
  <2>2. ToSet(x \o y) = {a} \cup {b}
    BY ONLY <2>1, OrderOfConcat
  <2> QED
    BY <2>2 DEF x, y
<1>8. PostsTo(<<a>>, w) \X PostsTo(<<b>>, w) = {}
  BY <1>5
<1> QED
  BY <1>2, <1>3, <1>4, <1>5, <1>6, <1>7, <1>8

\* The first task run.
LEMMA TaskTaken ==
    ASSUME NEW q \in Seq(Task), q # <<>>, NEW w
    PROVE  /\ Head(q) \in Task /\ Tail(q) \in Seq(Task)
           /\ ToSet(q) = {Head(q)} \cup ToSet(Tail(q))
           /\ PostsTo(q, w) =
                PostsTo(Tail(q), w) \cup (IF IsPost(Head(q), w) THEN {Head(q).msg} ELSE {})
           /\ PostOrder(Tail(q), w) \subseteq PostOrder(q, w)
           /\ IsPost(Head(q), w) => {Head(q).msg} \X PostsTo(Tail(q), w) \subseteq PostOrder(q, w)
<1> DEFINE h == Head(q)
           t == Tail(q)
<1>1. /\ h \in Task /\ t \in Seq(Task)
      /\ ToSet(q) = {h} \cup ToSet(t)
      /\ InOrder(t) \subseteq InOrder(q)
      /\ \A e \in ToSet(t) : <<h, e>> \in InOrder(q)
  BY OrderOfTail
<1> HIDE DEF h, t
<1>2. PostsTo(q, w) = PostsTo(t, w) \cup (IF IsPost(h, w) THEN {h.msg} ELSE {})
  BY <1>1 DEF PostsTo
<1>3. PostOrder(t, w) \subseteq PostOrder(q, w)
  BY <1>1 DEF PostOrder
<1>4. ASSUME IsPost(h, w), NEW e \in ToSet(t), IsPost(e, w)
      PROVE  <<h.msg, e.msg>> \in PostOrder(q, w)
  <2> DEFINE p == <<h, e>>
  <2>1. p \in InOrder(q) /\ p[1] = h /\ p[2] = e
    BY <1>1
  <2> HIDE DEF p
  <2> QED
    BY <1>4, <2>1 DEF PostOrder
<1>5. IsPost(h, w) => {h.msg} \X PostsTo(t, w) \subseteq PostOrder(q, w)
  BY <1>4 DEF PostsTo
<1> QED
  BY <1>1, <1>2, <1>3, <1>5 DEF h, t

\* A message that is handed over is still under way, ...
LEMMA OutMoved ==
    ASSUME NEW q \in Seq(Task), q # <<>>, NEW w, NEW inbox \in Seq(ToFrame),
           IsPost(Head(q), w)
    PROVE  /\ Append(inbox, Head(q).msg) \in Seq(ToFrame)
           /\ Out(Append(inbox, Head(q).msg), Tail(q), w) = Out(inbox, q, w)
           /\ OutOrder(Append(inbox, Head(q).msg), Tail(q), w) \subseteq OutOrder(inbox, q, w)
<1> DEFINE m == Head(q).msg
           t == Tail(q)
           b == Append(inbox, m)
<1>1. Head(q) \in Task
  BY TaskTaken
<1>2. m \in ToFrame
  BY <1>1 DEF IsPost, Task
<1>3. /\ PostsTo(q, w) = PostsTo(t, w) \cup {m}
      /\ PostOrder(t, w) \subseteq PostOrder(q, w)
      /\ {m} \X PostsTo(t, w) \subseteq PostOrder(q, w)
  BY TaskTaken
<1> HIDE DEF m, t
<1>4. /\ b \in Seq(ToFrame) /\ ToSet(b) = ToSet(inbox) \cup {m}
      /\ InOrder(b) \subseteq InOrder(inbox) \cup (ToSet(inbox) \X {m})
  BY <1>2, OrderOfAppend
<1> HIDE DEF b
<1>5. Out(b, t, w) = Out(inbox, q, w)
  BY <1>3, <1>4 DEF Out
<1>6. ToSet(b) \X PostsTo(t, w) \subseteq
        (ToSet(inbox) \X PostsTo(q, w)) \cup PostOrder(q, w)
  BY <1>3, <1>4
<1>7. InOrder(b) \subseteq InOrder(inbox) \cup (ToSet(inbox) \X PostsTo(q, w))
  BY <1>3, <1>4
<1>8. OutOrder(b, t, w) \subseteq OutOrder(inbox, q, w)
  BY <1>3, <1>6, <1>7 DEF OutOrder
<1> QED
  BY <1>4, <1>5, <1>8 DEF b, m, t

\* ... another window's says nothing to this one, ...
LEMMA OutKept ==
    ASSUME NEW q \in Seq(Task), q # <<>>, NEW w, NEW inbox,
           ~IsPost(Head(q), w)
    PROVE  /\ Out(inbox, Tail(q), w) = Out(inbox, q, w)
           /\ OutOrder(inbox, Tail(q), w) \subseteq OutOrder(inbox, q, w)
<1> DEFINE t == Tail(q)
<1>1. /\ PostsTo(q, w) = PostsTo(t, w) \cup (IF IsPost(Head(q), w) THEN {Head(q).msg} ELSE {})
      /\ PostOrder(t, w) \subseteq PostOrder(q, w)
  BY TaskTaken
<1> HIDE DEF t
<1>2. PostsTo(q, w) = PostsTo(t, w)
  BY <1>1
<1>3. /\ Out(inbox, t, w) = Out(inbox, q, w)
      /\ OutOrder(inbox, t, w) \subseteq OutOrder(inbox, q, w)
  BY <1>1, <1>2 DEF Out, OutOrder
<1> QED
  BY <1>3 DEF t

\* ... and with the iframe goes what is in its inbox.
LEMMA OutDropped ==
    ASSUME NEW q \in Seq(Task), q # <<>>, NEW w, NEW inbox, NEW left \in {inbox, <<>>}
    PROVE  /\ Out(left, Tail(q), w) \subseteq Out(inbox, q, w)
           /\ OutOrder(left, Tail(q), w) \subseteq OutOrder(inbox, q, w)
<1>1. /\ PostsTo(Tail(q), w) \subseteq PostsTo(q, w)
      /\ PostOrder(Tail(q), w) \subseteq PostOrder(q, w)
  BY TaskTaken
<1>2. ToSet(left) \subseteq ToSet(inbox) /\ InOrder(left) \subseteq InOrder(inbox)
  BY DEF ToSet, InOrder
<1>3. ToSet(left) \X PostsTo(Tail(q), w) \subseteq ToSet(inbox) \X PostsTo(q, w)
  BY <1>1, <1>2
<1> QED
  BY <1>1, <1>2, <1>3 DEF Out, OutOrder

\* The iframe reads the message in front of all others.
LEMMA OutRead ==
    ASSUME NEW q, NEW w, NEW inbox \in Seq(ToFrame), inbox # <<>>
    PROVE  /\ Head(inbox) \in ToFrame /\ Tail(inbox) \in Seq(ToFrame)
           /\ Leads(Head(inbox), Out(inbox, q, w), Out(Tail(inbox), q, w),
                    OutOrder(inbox, q, w), OutOrder(Tail(inbox), q, w))
<1> DEFINE h == Head(inbox)
           t == Tail(inbox)
<1>1. /\ h \in ToFrame /\ t \in Seq(ToFrame)
      /\ ToSet(inbox) = {h} \cup ToSet(t)
      /\ InOrder(t) \subseteq InOrder(inbox)
      /\ \A e \in ToSet(t) : <<h, e>> \in InOrder(inbox)
  BY OrderOfTail
<1> HIDE DEF h, t
<1>2. Out(inbox, q, w) = {h} \cup Out(t, q, w)
  BY <1>1 DEF Out
<1>3. ToSet(t) \X PostsTo(q, w) \subseteq ToSet(inbox) \X PostsTo(q, w)
  BY <1>1
<1>4. OutOrder(t, q, w) \subseteq OutOrder(inbox, q, w)
  BY <1>1, <1>3 DEF OutOrder
<1>5. \A m \in Out(t, q, w) : <<h, m>> \in OutOrder(inbox, q, w)
  BY <1>1 DEF Out, OutOrder
<1> QED
  BY <1>1, <1>2, <1>4, <1>5 DEF h, t, Leads

\* The page is sent a message, behind all others, ...
LEMMA Arriving ==
    ASSUME NEW q \in Seq(FromFrame), NEW m \in FromFrame, NEW w
    PROVE  /\ Append(q, m) \in Seq(FromFrame)
           /\ ToSet(Append(q, m)) = ToSet(q) \cup {m}
           /\ In(Append(q, m), w) = In(q, w) \cup (IF m.windowId = w THEN {m} ELSE {})
           /\ ArrivalOrder(Append(q, m), w) \subseteq
                ArrivalOrder(q, w) \cup (IF m.windowId = w THEN In(q, w) \X {m} ELSE {})
<1> DEFINE a == Append(q, m)
<1>1. /\ a \in Seq(FromFrame) /\ ToSet(a) = ToSet(q) \cup {m}
      /\ InOrder(a) \subseteq InOrder(q) \cup (ToSet(q) \X {m})
  BY OrderOfAppend
<1> HIDE DEF a
<1>2. In(a, w) = In(q, w) \cup (IF m.windowId = w THEN {m} ELSE {})
  BY <1>1 DEF In
<1>3. ArrivalOrder(a, w) \subseteq
        ArrivalOrder(q, w) \cup (IF m.windowId = w THEN In(q, w) \X {m} ELSE {})
  BY <1>1 DEF ArrivalOrder, In
<1> QED
  BY <1>1, <1>2, <1>3 DEF a

\* ... and hears the one in front of them.
LEMMA Arrived ==
    ASSUME NEW q \in Seq(FromFrame), q # <<>>, NEW w
    PROVE  /\ Head(q) \in FromFrame /\ Tail(q) \in Seq(FromFrame)
           /\ ToSet(q) = {Head(q)} \cup ToSet(Tail(q))
           /\ In(q, w) = In(Tail(q), w) \cup (IF Head(q).windowId = w THEN {Head(q)} ELSE {})
           /\ ArrivalOrder(Tail(q), w) \subseteq ArrivalOrder(q, w)
           /\ Head(q).windowId = w =>
                Leads(Head(q), In(q, w), In(Tail(q), w), ArrivalOrder(q, w), ArrivalOrder(Tail(q), w))
<1> DEFINE h == Head(q)
           t == Tail(q)
<1>1. /\ h \in FromFrame /\ t \in Seq(FromFrame)
      /\ ToSet(q) = {h} \cup ToSet(t)
      /\ InOrder(t) \subseteq InOrder(q)
      /\ \A e \in ToSet(t) : <<h, e>> \in InOrder(q)
  BY OrderOfTail
<1> HIDE DEF h, t
<1>2. In(q, w) = In(t, w) \cup (IF h.windowId = w THEN {h} ELSE {})
  BY <1>1 DEF In
<1>3. ArrivalOrder(t, w) \subseteq ArrivalOrder(q, w)
  BY <1>1 DEF ArrivalOrder
<1>4. h.windowId = w => \A m \in In(t, w) : <<h, m>> \in ArrivalOrder(q, w)
  BY <1>1 DEF ArrivalOrder, In
<1>5. h.windowId = w => Leads(h, In(q, w), In(t, w), ArrivalOrder(q, w), ArrivalOrder(t, w))
  BY <1>2, <1>3, <1>4 DEF Leads
<1> QED
  BY <1>1, <1>2, <1>3, <1>5 DEF h, t

-----------------------------------------------------------------------------
(* One window, step by step *)

SameFrame(fr, fr2) ==
    /\ fr2.facade = fr.facade /\ fr2.made = fr.made /\ fr2.over = fr.over
    /\ fr2.got = fr.got /\ fr2.thrown = fr.thrown

SameTransport(tr, tr2) ==
    /\ tr2.listens = tr.listens /\ tr2.attached = tr.attached /\ tr2.told = tr.told
    /\ tr2.heard = tr.heard /\ tr2.sent = tr.sent

\* Nothing happens to it, or its loading goes on.
LEMMA WindowKept ==
    ASSUME NEW tr, NEW fr, NEW out, NEW pairs, NEW in, NEW order,
           Window(tr, fr, out, pairs, in, order),
           NEW tr2, SameTransport(tr, tr2), Settled(tr) => Settled(tr2),
           NEW fr2, SameFrame(fr, fr2), fr.phase = "removed" => fr2.phase = "removed",
           NEW pairs2, pairs2 \subseteq pairs, NEW order2, order2 \subseteq order
    PROVE  Window(tr2, fr2, out, pairs2, in, order2)
<1>1. Closing(tr2, fr2, out)
  BY DEF Window, Closing, SameTransport, SameFrame
<1>2. Loading(tr2, fr2, out, in)
  BY DEF Window, Loading, SameTransport, SameFrame
<1>3. Sending(tr2, fr2, out, pairs2)
  BY DEF Window, Sending, SameTransport, SameFrame
<1>4. Hearing(tr2, fr2, in, order2)
  BY DEF Window, Hearing, SameTransport, SameFrame, Latest
<1> QED
  BY <1>1, <1>2, <1>3, <1>4 DEF Window

\* SockJS does not listen any more: what its iframe says is lost.
LEMMA WindowIgnored ==
    ASSUME NEW tr, NEW fr, NEW out, NEW pairs, NEW in, NEW order,
           Window(tr, fr, out, pairs, in, order), ~tr.listens,
           NEW in2, in2 \subseteq in, NEW order2
    PROVE  Window(tr, fr, out, pairs, in2, order2)
<1>1. Loading(tr, fr, out, in2)
  BY DEF Window, Loading
<1>2. Hearing(tr, fr, in2, order2)
  BY DEF Window, Hearing
<1> QED
  BY <1>1, <1>2 DEF Window

LEMMA ClosedTransport ==
    ASSUME NEW tr \in Transport, tr.listens => tr.told = 0, NEW tr2 \in {closed(tr), told(tr)}
    PROVE  /\ tr2 \in Transport /\ tr2.heard = tr.heard /\ tr2.sent = tr.sent
           /\ tr2.listens = FALSE /\ tr2.attached = FALSE /\ Settled(tr2)
<1> DEFINE a == unattach(tr)
           b == closed(tr)
           c == told(tr)
<1>1. /\ a \in Transport /\ a.heard = tr.heard /\ a.sent = tr.sent /\ a.told = tr.told
      /\ a.timer = "none" /\ a.onload = FALSE
  BY DEF unattach, Transport
<1> HIDE DEF a
<1>2. b = [a EXCEPT !.listens = FALSE, !.attached = FALSE, !.iframeObj = FALSE]
  BY DEF closed, a
<1> HIDE DEF b
<1>3. /\ b \in Transport /\ b.heard = tr.heard /\ b.sent = tr.sent /\ b.told = tr.told
      /\ b.timer = "none" /\ b.onload = FALSE /\ b.listens = FALSE /\ b.attached = FALSE
  BY <1>1, <1>2 DEF Transport
<1>4. tr.told + (IF tr.listens THEN 1 ELSE 0) \in 0 .. 1
  BY DEF Transport
<1>5. c = [b EXCEPT !.told = tr.told + (IF tr.listens THEN 1 ELSE 0)]
  BY <1>3 DEF told, b
<1> HIDE DEF c
<1>6. /\ c \in Transport /\ c.heard = tr.heard /\ c.sent = tr.sent
      /\ c.timer = "none" /\ c.onload = FALSE /\ c.listens = FALSE /\ c.attached = FALSE
  BY <1>3, <1>4, <1>5 DEF Transport
<1>7. tr2 = b \/ tr2 = c
  BY DEF b, c
<1> QED
  BY <1>3, <1>6, <1>7 DEF Settled

\* It is closed, by SockJS, for an error of loading or by what was heard.
LEMMA WindowClosed ==
    ASSUME NEW tr \in Transport, NEW fr, NEW out, NEW pairs, NEW in, NEW order,
           Window(tr, fr, out, pairs, in, order),
           NEW tr2 \in {closed(tr), told(tr)},
           NEW w, NEW out2, out2 = out \cup {Msg(w, "c", 0)},
           NEW pairs2, pairs2 \subseteq pairs \cup (out \X {Msg(w, "c", 0)}),
           NEW in2, in2 \subseteq in, NEW order2
    PROVE  /\ Window(tr2, fr, out2, pairs2, in2, order2)
           /\ tr2 \in Transport /\ tr2.heard = tr.heard /\ ~tr2.listens
<1>1. tr.told \in 0 .. 1 /\ (tr.listens => tr.told = 0)
  BY DEF Window, Closing, Transport
<1>2. /\ tr2 \in Transport /\ tr2.heard = tr.heard /\ tr2.sent = tr.sent
      /\ tr2.listens = FALSE /\ tr2.attached = FALSE /\ Settled(tr2)
  BY <1>1, ClosedTransport
<1> DEFINE c == Msg(w, "c", 0)
<1>3. c.type = "c"
  BY DEF Msg
<1> HIDE DEF c
<1>4. Closing(tr2, fr, out2)
  BY <1>2 DEF Closing
<1>5. Loading(tr2, fr, out2, in2)
  BY <1>2 DEF Window, Loading
<1>6. Sending(tr2, fr, out2, pairs2)
  <2>1. \A m \in out2 : m.type = "m" => m \in out
    BY <1>3 DEF c
  <2>2. \A p \in pairs2 : p \in pairs \/ p[2].type = "c"
    BY <1>3 DEF c
  <2>3. \A p \in pairs2 : Precedes(p[1], p[2])
    BY <2>2 DEF Window, Sending, Precedes
  <2>4. out \subseteq out2
    OBVIOUS
  <2> QED
    BY <1>2, <2>1, <2>3, <2>4 DEF Window, Sending
<1>7. Hearing(tr2, fr, in2, order2)
  BY <1>2 DEF Window, Hearing
<1> QED
  BY <1>2, <1>4, <1>5, <1>6, <1>7 DEF Window

\* Its iframe is removed, or was: what is under way to it comes to nothing.
LEMMA WindowRemoved ==
    ASSUME NEW tr, NEW fr, NEW out, NEW pairs, NEW in, NEW order,
           Window(tr, fr, out, pairs, in, order),
           NEW fr2, SameFrame(fr, fr2), fr2.phase = "removed",
           NEW out2, out2 \subseteq out, NEW pairs2, pairs2 \subseteq pairs
    PROVE  Window(tr, fr2, out2, pairs2, in, order)
<1>1. Closing(tr, fr2, out2)
  BY DEF Window, Closing, SameFrame
<1>2. Loading(tr, fr2, out2, in)
  BY DEF Window, Loading, SameFrame
<1>3. Sending(tr, fr2, out2, pairs2)
  BY DEF Window, Sending, SameFrame
<1>4. Hearing(tr, fr2, in, order)
  BY DEF Window, Hearing, SameFrame, Latest
<1> QED
  BY <1>1, <1>2, <1>3, <1>4 DEF Window

\* A message for the server is sent, behind the others.
LEMMA WindowSends ==
    ASSUME NEW tr \in Transport, NEW fr \in Frame, NEW out, out \subseteq ToFrame,
           NEW pairs, NEW in, NEW order,
           Window(tr, fr, out, pairs, in, order),
           tr.listens, tr.heard # <<>>, tr.sent < MaxSends,
           NEW tr2, tr2 = [tr EXCEPT !.sent = @ + 1],
           NEW m, m.type = "m", m.data = tr.sent + 1,
           NEW out2, out2 = out \cup {m},
           NEW pairs2, pairs2 \subseteq pairs \cup (out \X {m})
    PROVE  /\ Window(tr2, fr, out2, pairs2, in, order)
           /\ tr2 \in Transport
<1>1. tr.sent \in Nat /\ tr.sent + 1 \in 0 .. MaxSends
  BY IframeAssumption DEF Transport
<1>2. /\ tr2 \in Transport /\ SameTransport(tr, [tr2 EXCEPT !.sent = tr.sent])
      /\ tr2.listens /\ tr2.listens = tr.listens /\ tr2.attached = tr.attached
      /\ tr2.told = tr.told /\ tr2.heard = tr.heard /\ tr2.sent = tr.sent + 1
      /\ (Settled(tr) => Settled(tr2))
  BY <1>1 DEF Transport, SameTransport, Settled
<1>3. fr.facade = "there"
  BY DEF Window, Loading, Closing, Frame
<1>4. Len(fr.got) \in Nat /\ Len(fr.got) <= tr.sent
  <2>1. fr.got \in Seq(1 .. MaxSends)
    BY DEF Frame
  <2> QED
    BY <2>1, LenProperties DEF Window, Sending
<1>5. Closing(tr2, fr, out \cup {m})
  BY <1>2 DEF Window, Closing
<1>6. Loading(tr2, fr, out \cup {m}, in)
  BY <1>2, <1>3 DEF Window, Loading
<1>7. Sending(tr2, fr, out \cup {m}, pairs2)
  <2>1. \A e \in out : e.type = "m" => e.data \in Len(fr.got) + 1 .. tr.sent
    BY DEF Window, Sending
  <2>2. ASSUME NEW e \in out \cup {m}, e.type = "m"
        PROVE  fr.facade = "there" /\ e.data \in Len(fr.got) + 1 .. tr2.sent
    BY <1>1, <1>2, <1>3, <1>4, <2>1, <2>2
  <2>3. ASSUME NEW e \in out
        PROVE  Precedes(e, m)
    BY <1>1, <1>4, <2>1 DEF Window, Closing, Precedes
  <2>4. \A p \in pairs2 : Precedes(p[1], p[2])
    <3>1. \A p \in pairs2 : p \in pairs \/ (p[1] \in out /\ p[2] = m)
      OBVIOUS
    <3> QED
      BY <2>3, <3>1 DEF Window, Sending
  <2>5. ASSUME fr.phase # "removed", NEW n \in Len(fr.got) + 1 .. tr2.sent
        PROVE  \E e \in out \cup {m} : e.type = "m" /\ e.data = n
    <3>1. CASE n = tr.sent + 1
      BY <3>1
    <3>2. CASE n # tr.sent + 1
      <4>1. n \in Len(fr.got) + 1 .. tr.sent
        BY <1>1, <1>2, <1>4, <2>5, <3>2
      <4> QED
        BY <2>5, <4>1 DEF Window, Sending
    <3> QED
      BY <3>1, <3>2
  <2>6. Len(fr.got) <= tr2.sent
    BY <1>1, <1>2, <1>4
  <2> QED
    BY <2>2, <2>4, <2>5, <2>6 DEF Window, Sending
<1>8. Hearing(tr2, fr, in, order)
  BY <1>2 DEF Window, Hearing
<1> QED
  BY <1>2, <1>5, <1>6, <1>7, <1>8 DEF Window

\* The iframe has loaded: 's' is answered.
LEMMA WindowLoaded ==
    ASSUME NEW tr \in Transport, NEW fr, NEW out, NEW pairs, NEW in, NEW order,
           Window(tr, fr, out, pairs, in, order), tr.listens,
           NEW h, h.type = "s", NEW in2, NEW order2, Leads(h, in, in2, order, order2),
           NEW m, m.type = "s", NEW out2, out2 = out \cup {m},
           NEW pairs2, pairs2 \subseteq pairs \cup (out \X {m}), NEW tr2, tr2 = loaded(tr)
    PROVE  /\ Window(tr2, fr, out2, pairs2, in2, order2)
           /\ tr2 \in Transport /\ tr2.heard = tr.heard /\ tr2.listens
<1>1. /\ tr2 \in Transport /\ tr2.listens = tr.listens /\ tr2.attached = tr.attached
      /\ tr2.told = tr.told /\ tr2.heard = tr.heard /\ tr2.sent = tr.sent /\ Settled(tr2)
  BY DEF loaded, unattach, Transport, Settled
<1>2. Closing(tr2, fr, out \cup {m})
  BY <1>1 DEF Window, Closing
<1>3. Loading(tr2, fr, out \cup {m}, in2)
  BY <1>1 DEF Window, Loading, Leads
<1>4. Sending(tr2, fr, out \cup {m}, pairs2)
  <2>1. \A p \in pairs2 : p \in pairs \/ p[2] = m
    OBVIOUS
  <2>2. \A p \in pairs2 : Precedes(p[1], p[2])
    BY <2>1 DEF Window, Sending, Precedes
  <2>3. \A e \in out \cup {m} : e.type = "m" => e \in out
    OBVIOUS
  <2> QED
    BY <1>1, <2>2, <2>3 DEF Window, Sending
<1>5. Hearing(tr2, fr, in2, order2)
  <2>1. \A e \in in : e.type = "t" => e \in in2
    BY DEF Leads
  <2>2. in2 \subseteq in /\ order2 \subseteq order
    BY DEF Leads
  <2> QED
    BY <1>1, <2>1, <2>2 DEF Window, Hearing
<1> QED
  BY <1>1, <1>2, <1>3, <1>4, <1>5 DEF Window

\* The next frame is heard, and it was made.
NextHeard(tr, fr, tr2) ==
    /\ Len(tr.heard) + 1 \in Len(tr.heard) .. fr.made
    /\ tr2.heard = FirstNumbers(Len(tr.heard) + 1)

\* The frame that SockJS hears is the next one.
LEMMA WindowHears ==
    ASSUME NEW tr \in Transport, NEW fr \in Frame, NEW out, NEW pairs, NEW in, NEW order,
           Window(tr, fr, out, pairs, in, order), tr.listens, in \subseteq FromFrame,
           NEW h, h.type = "t", ~(fr.over /\ h.data = fr.made + 1),
           NEW in2, NEW order2, Leads(h, in, in2, order, order2),
           NEW tr2, tr2 = [tr EXCEPT !.heard = Append(@, h.data)]
    PROVE  /\ Window(tr2, fr, out, pairs, in2, order2)
           /\ tr2 \in Transport /\ tr2.listens /\ NextHeard(tr, fr, tr2)
<1> DEFINE n == Len(tr.heard)
<1>1. fr.made \in 0 .. MaxFrames /\ MaxFrames \in Nat /\ tr.heard \in Seq(1 .. MaxFrames)
  BY IframeAssumption DEF Frame, Transport
<1>2. n \in Nat /\ n <= fr.made /\ tr.heard = FirstNumbers(n)
  BY <1>1, LenProperties DEF Window, Hearing
<1>3. h.data \in n + 1 .. fr.made
  <2>1. h \in in
    BY DEF Leads
  <2>2. h.data \in 1 .. Latest(fr) /\ h.data > n
    BY <2>1 DEF Window, Hearing
  <2>3. h.data \in Nat
    BY <2>1, IframeAssumption DEF FromFrame
  <2>4. h.data <= fr.made
    <3>1. CASE fr.over
      <4>1. h.data \in 1 .. fr.made + 1 /\ h.data # fr.made + 1
        BY <2>2, <3>1 DEF Latest
      <4> QED
        BY <1>1, <4>1
    <3>2. CASE ~fr.over
      BY <2>2, <3>2 DEF Latest
    <3> QED
      BY <3>1, <3>2
  <2> QED
    BY <1>1, <1>2, <2>2, <2>3, <2>4
<1>4. h.data = n + 1
  <2> SUFFICES ASSUME n + 1 < h.data PROVE FALSE
    BY <1>2, <1>3
  <2>1. n + 1 \in n + 1 .. fr.made
    BY <1>1, <1>2, <1>3
  <2>2. PICK e \in in : e.type = "t" /\ e.data = n + 1
    BY <2>1 DEF Window, Hearing
  <2>3. e \in in2
    BY <1>1, <1>2, <1>3, <2>2 DEF Leads
  <2> DEFINE p == <<h, e>>
  <2>4. p \in order /\ p[1] = h /\ p[2] = e
    BY <2>3 DEF Leads
  <2> HIDE DEF p
  <2>5. h.data < e.data
    BY <2>2, <2>4 DEF Window, Hearing
  <2> QED
    BY <1>2, <1>3, <2>2, <2>5
<1>5. n + 1 \in 1 .. MaxFrames /\ n + 1 \in n .. fr.made
  BY <1>1, <1>2, <1>3, <1>4
<1> DEFINE a == Append(tr.heard, n + 1)
<1>6. /\ a \in Seq(1 .. MaxFrames) /\ Len(a) = n + 1 /\ a # <<>> /\ a = FirstNumbers(n + 1)
  BY <1>1, <1>2, <1>5, NumberAppended
<1> HIDE DEF a
<1>7. tr2 = [tr EXCEPT !.heard = a]
  BY <1>4 DEF a
<1> HIDE DEF n
<1>8. /\ tr2 \in Transport /\ tr2.listens = tr.listens /\ tr2.attached = tr.attached
      /\ tr2.told = tr.told /\ tr2.heard = a /\ tr2.sent = tr.sent
      /\ (Settled(tr) => Settled(tr2))
  BY <1>6, <1>7 DEF Transport, Settled
<1>9. Closing(tr2, fr, out)
  BY <1>8 DEF Window, Closing
<1>10. Loading(tr2, fr, out, in2)
  BY <1>8 DEF Window, Loading, Leads
<1>11. Sending(tr2, fr, out, pairs)
  BY <1>8 DEF Window, Sending
<1>12. Hearing(tr2, fr, in2, order2)
  <2>1. in2 \subseteq in /\ in = {h} \cup in2 /\ order2 \subseteq order
    BY DEF Leads
  <2>2. ASSUME NEW e \in in2, e.type = "t" PROVE e.data > n + 1
    <3> DEFINE p == <<h, e>>
    <3>1. p \in order /\ p[1] = h /\ p[2] = e
      BY DEF Leads
    <3> HIDE DEF p
    <3> QED
      BY <1>4, <2>2, <3>1 DEF Window, Hearing
  <2>3. ASSUME NEW k \in n + 2 .. fr.made
        PROVE  \E e \in in2 : e.type = "t" /\ e.data = k
    <3>1. k \in n + 1 .. fr.made /\ k # n + 1
      BY <1>1, <1>2, <2>3
    <3>2. PICK e \in in : e.type = "t" /\ e.data = k
      BY <3>1 DEF Window, Hearing, n
    <3> QED
      BY <1>4, <2>1, <3>1, <3>2
  <2>4. n + 1 + 1 = n + 2 /\ n + 1 <= fr.made
    BY <1>2, <1>5
  <2>5. \A m \in in2 : m.type = "t" => m.data \in 1 .. Latest(fr)
    BY <2>1 DEF Window, Hearing
  <2>6. \A p \in order2 : p[1].type = "t" /\ p[2].type = "t" => p[1].data < p[2].data
    BY <2>1 DEF Window, Hearing
  <2> QED
    BY <1>6, <1>8, <2>2, <2>3, <2>4, <2>5, <2>6 DEF Hearing
<1> QED
  BY <1>5, <1>6, <1>8, <1>9, <1>10, <1>11, <1>12 DEF Window, NextHeard, n

\* The iframe's document says that it is there.
LEMMA WindowBoots ==
    ASSUME NEW tr, NEW fr, NEW out, NEW pairs, NEW in, NEW order,
           Window(tr, fr, out, pairs, in, order), fr.phase # "removed",
           NEW fr2, SameFrame(fr, fr2),
           NEW m, m.type = "s", NEW in2, in2 = in \cup {m},
           NEW order2, order2 \subseteq order \cup (in \X {m})
    PROVE  Window(tr, fr2, out, pairs, in2, order2)
<1>1. Window(tr, fr2, out, pairs, in, order)
  BY WindowKept DEF SameTransport
<1>2. Loading(tr, fr2, out, in \cup {m})
  BY <1>1 DEF Window, Loading
<1>3. \A p \in order2 : p \in order \/ p[2].type = "s"
  OBVIOUS
<1>4. Hearing(tr, fr2, in2, order2)
  BY <1>1, <1>3 DEF Window, Hearing
<1> QED
  BY <1>1, <1>2, <1>4 DEF Window

\* It reads a message: the transport in it may be made, or sent what it passes on, or closed.
Reads(fr, fr2) ==
    /\ fr2.made = fr.made /\ fr2.over = fr.over /\ fr2.thrown = fr.thrown
    /\ fr2.phase = fr.phase

\* It makes the transport, ...
LEMMA WindowMakes ==
    ASSUME NEW tr, NEW fr, NEW out, NEW pairs, NEW in, NEW order,
           Window(tr, fr, out, pairs, in, order),
           NEW h, h.type = "s", NEW out2, NEW pairs2, Leads(h, out, out2, pairs, pairs2),
           NEW fr2, Reads(fr, fr2), fr2.facade = "there", fr2.got = fr.got
    PROVE  Window(tr, fr2, out2, pairs2, in, order)
<1>1. /\ fr2.facade = "there" /\ fr2.made = fr.made /\ fr2.over = fr.over
      /\ fr2.got = fr.got /\ fr2.thrown = fr.thrown /\ fr2.phase = fr.phase
  BY DEF Reads
<1>2. (\A m \in out : m.type = "m" => m \in out2) /\ h \in out /\ out2 \subseteq out /\ pairs2 \subseteq pairs
  BY DEF Leads
<1>3. Closing(tr, fr2, out2)
  BY <1>1, <1>2 DEF Window, Closing
<1>4. Loading(tr, fr2, out2, in)
  BY <1>1, <1>2 DEF Window, Loading
<1>5. Sending(tr, fr2, out2, pairs2)
  BY <1>1, <1>2 DEF Window, Sending
<1>6. Hearing(tr, fr2, in, order)
  BY <1>1 DEF Window, Hearing, Latest
<1> QED
  BY <1>3, <1>4, <1>5, <1>6 DEF Window

\* ... sends what it is told to, in order, ...
LEMMA WindowPassesOn ==
    ASSUME NEW tr \in Transport, NEW fr \in Frame, fr.phase # "removed",
           NEW out, out \subseteq ToFrame, NEW pairs, NEW in, NEW order,
           Window(tr, fr, out, pairs, in, order),
           NEW h, h.type = "m", NEW out2, NEW pairs2, Leads(h, out, out2, pairs, pairs2),
           NEW fr2, Reads(fr, fr2), fr2.facade = fr.facade, fr2.got = Append(fr.got, h.data)
    PROVE  /\ Window(tr, fr2, out2, pairs2, in, order)
           /\ fr2.got \in Seq(1 .. MaxSends)
<1> DEFINE n == Len(fr.got)
<1>1. tr.sent \in 0 .. MaxSends /\ MaxSends \in Nat /\ fr.got \in Seq(1 .. MaxSends)
  BY IframeAssumption DEF Frame, Transport
<1>2. n \in Nat /\ n <= tr.sent /\ fr.got = FirstNumbers(n)
  BY <1>1, LenProperties DEF Window, Sending
<1>3. h \in out /\ out = {h} \cup out2 /\ pairs2 \subseteq pairs /\ h.data \in n + 1 .. tr.sent
  BY DEF Window, Sending, Leads
<1>4. ASSUME NEW e \in out2, e.type = "m" PROVE h.data < e.data
  <2> DEFINE p == <<h, e>>
  <2>1. p \in pairs /\ p[1] = h /\ p[2] = e
    BY DEF Leads
  <2> HIDE DEF p
  <2> QED
    BY <1>4, <2>1 DEF Window, Sending, Precedes
<1>5. h.data = n + 1
  <2> SUFFICES ASSUME n + 1 < h.data PROVE FALSE
    BY <1>2, <1>3
  <2>1. n + 1 \in n + 1 .. tr.sent
    BY <1>1, <1>2, <1>3
  <2>2. PICK e \in out : e.type = "m" /\ e.data = n + 1
    BY <2>1 DEF Window, Sending
  <2>3. e \in out2
    BY <1>1, <1>2, <1>3, <2>2
  <2>4. h.data < e.data
    BY <1>4, <2>2, <2>3
  <2> QED
    BY <1>2, <1>3, <2>2, <2>4
<1>6. n + 1 \in 1 .. MaxSends /\ n + 1 <= tr.sent
  BY <1>1, <1>2, <1>3, <1>5
<1> DEFINE a == Append(fr.got, n + 1)
<1>7. /\ a \in Seq(1 .. MaxSends) /\ Len(a) = n + 1 /\ a = FirstNumbers(n + 1)
  BY <1>1, <1>2, <1>6, NumberAppended
<1>8. fr2.got = a
  BY <1>5
<1> HIDE DEF a
<1>9. /\ fr2.facade = fr.facade /\ fr2.made = fr.made /\ fr2.over = fr.over
      /\ fr2.got = a /\ fr2.thrown = fr.thrown /\ fr2.phase = fr.phase
  BY <1>8 DEF Reads
<1>10. out2 \subseteq out
  BY <1>3
<1>11. Closing(tr, fr2, out2)
  BY <1>9, <1>10 DEF Window, Closing
<1>12. Loading(tr, fr2, out2, in)
  BY <1>9, <1>10 DEF Window, Loading
<1>13. Sending(tr, fr2, out2, pairs2)
  <2>1. ASSUME NEW e \in out2, e.type = "m"
        PROVE  fr.facade = "there" /\ e.data \in n + 2 .. tr.sent
    <3>1. fr.facade = "there" /\ e.data \in n + 1 .. tr.sent
      BY <1>10, <2>1 DEF Window, Sending
    <3>2. n + 1 < e.data
      BY <1>4, <1>5, <2>1
    <3> QED
      BY <1>2, <3>1, <3>2
  <2>2. ASSUME NEW k \in n + 2 .. tr.sent
        PROVE  \E e \in out2 : e.type = "m" /\ e.data = k
    <3>1. k \in n + 1 .. tr.sent /\ k # n + 1
      BY <1>1, <1>2, <2>2
    <3>2. PICK e \in out : e.type = "m" /\ e.data = k
      BY <3>1 DEF Window, Sending
    <3> QED
      BY <1>3, <1>5, <3>1, <3>2
  <2>3. n + 1 + 1 = n + 2
    BY <1>2
  <2>4. ~fr.thrown /\ \A p \in pairs2 : Precedes(p[1], p[2])
    BY <1>3 DEF Window, Sending
  <2> HIDE DEF n
  <2> QED
    BY <1>6, <1>7, <1>9, <2>1, <2>2, <2>3, <2>4 DEF Sending
<1>14. Hearing(tr, fr2, in, order)
  BY <1>9 DEF Window, Hearing, Latest
<1> QED
  BY <1>7, <1>9, <1>11, <1>12, <1>13, <1>14 DEF Window

\* ... and ends it.
LEMMA WindowEnds ==
    ASSUME NEW tr, NEW fr, NEW out, NEW pairs, NEW in, NEW order,
           Window(tr, fr, out, pairs, in, order),
           NEW h, h.type = "c", NEW out2, NEW pairs2, Leads(h, out, out2, pairs, pairs2),
           NEW fr2, Reads(fr, fr2), fr2.facade = "null", fr2.got = fr.got
    PROVE  Window(tr, fr2, out2, pairs2, in, order)
<1>1. /\ fr2.facade = "null" /\ fr2.made = fr.made /\ fr2.over = fr.over
      /\ fr2.got = fr.got /\ fr2.thrown = fr.thrown /\ fr2.phase = fr.phase
  BY DEF Reads
<1>2. (\A m \in out : m.type = "m" => m \in out2) /\ h \in out /\ out2 \subseteq out /\ pairs2 \subseteq pairs
  BY DEF Leads
<1>3. ASSUME NEW e \in out2 PROVE e.type # "m"
  <2> DEFINE p == <<h, e>>
  <2>1. p \in pairs /\ p[1] = h /\ p[2] = e
    BY DEF Leads
  <2> HIDE DEF p
  <2> QED
    BY <2>1 DEF Window, Sending, Precedes
<1>4. ~tr.listens
  BY <1>2 DEF Window, Closing
<1>5. Closing(tr, fr2, out2)
  BY <1>4 DEF Window, Closing
<1>6. Loading(tr, fr2, out2, in)
  BY <1>1, <1>2 DEF Window, Loading
<1>7. Sending(tr, fr2, out2, pairs2)
  BY <1>1, <1>2, <1>3 DEF Window, Sending
<1>8. Hearing(tr, fr2, in, order)
  BY <1>1 DEF Window, Hearing, Latest
<1> QED
  BY <1>5, <1>6, <1>7, <1>8 DEF Window

\* The transport in it makes a frame, the last one or not, ...
LEMMA WindowSpeaks ==
    ASSUME NEW tr \in Transport, NEW fr \in Frame, NEW out, NEW pairs, NEW in, NEW order,
           Window(tr, fr, out, pairs, in, order), fr.facade = "there", ~fr.over,
           NEW fr2, \/ fr.made < MaxFrames /\ fr2 = [fr EXCEPT !.made = @ + 1]
                    \/ fr2 = [fr EXCEPT !.over = TRUE],
           NEW m, m.type = "t", m.data = fr.made + 1,
           NEW in2, in2 = in \cup {m},
           NEW order2, order2 \subseteq order \cup (in \X {m})
    PROVE  /\ Window(tr, fr2, out, pairs, in2, order2)
           /\ fr2 \in Frame
<1>1. fr.made \in Nat /\ fr.made <= MaxFrames /\ MaxFrames \in Nat /\ Latest(fr) = fr.made
  BY IframeAssumption DEF Frame, Latest
<1>2. /\ fr2 \in Frame /\ fr2.facade = fr.facade /\ fr2.got = fr.got
      /\ fr2.thrown = fr.thrown /\ fr2.phase = fr.phase /\ Latest(fr2) = fr.made + 1
      /\ (fr2.made = fr.made \/ fr2.made = fr.made + 1)
  <2>1. CASE fr.made < MaxFrames /\ fr2 = [fr EXCEPT !.made = @ + 1]
    BY <1>1, <2>1 DEF Frame, Latest
  <2>2. CASE fr2 = [fr EXCEPT !.over = TRUE]
    BY <1>1, <2>2 DEF Frame, Latest
  <2> QED
    BY <2>1, <2>2
<1>3. Closing(tr, fr2, out)
  BY <1>2 DEF Window, Closing
<1>4. Loading(tr, fr2, out, in \cup {m})
  BY <1>2 DEF Window, Loading
<1>5. Sending(tr, fr2, out, pairs)
  BY <1>2 DEF Window, Sending
<1>6. Hearing(tr, fr2, in2, order2)
  <2>1. \A e \in in : e.type = "t" => e.data \in 1 .. fr.made
    BY <1>1 DEF Window, Hearing
  <2>2. \A e \in in \cup {m} : e.type = "t" => e.data \in 1 .. Latest(fr2)
    BY <1>1, <1>2, <2>1
  <2>3. tr.heard = FirstNumbers(Len(tr.heard)) /\ Len(tr.heard) <= fr.made
    BY DEF Window, Hearing
  <2>4. ASSUME tr.listens
        PROVE  /\ \A e \in in \cup {m} : e.type = "t" => e.data > Len(tr.heard)
               /\ \A p \in order2 :
                    p[1].type = "t" /\ p[2].type = "t" => p[1].data < p[2].data
               /\ \A n \in Len(tr.heard) + 1 .. fr2.made :
                    \E e \in in \cup {m} : e.type = "t" /\ e.data = n
    <3>1. Len(tr.heard) \in Nat
      BY LenProperties DEF Transport
    <3>2. \A e \in in \cup {m} : e.type = "t" => e.data > Len(tr.heard)
      BY <1>1, <2>3, <2>4, <3>1 DEF Window, Hearing
    <3>3. \A p \in order2 : p \in order \/ (p[1] \in in /\ p[2] = m)
      OBVIOUS
    <3>4. \A p \in order2 : p[1].type = "t" /\ p[2].type = "t" => p[1].data < p[2].data
      BY <1>1, <2>1, <2>4, <3>3 DEF Window, Hearing
    <3>5. ASSUME NEW n \in Len(tr.heard) + 1 .. fr2.made
          PROVE  \E e \in in \cup {m} : e.type = "t" /\ e.data = n
      <4>1. n = fr.made + 1 \/ n \in Len(tr.heard) + 1 .. fr.made
        BY <1>1, <1>2, <3>1
      <4> QED
        BY <2>4, <4>1 DEF Window, Hearing
    <3> QED
      BY <3>2, <3>4, <3>5
  <2> QED
    BY <1>1, <1>2, <2>2, <2>3, <2>4 DEF Hearing
<1> QED
  BY <1>2, <1>3, <1>4, <1>5, <1>6 DEF Window

\* ... and tells that it has closed.
LEMMA WindowTells ==
    ASSUME NEW tr, NEW fr \in Frame, NEW out, NEW pairs, NEW in, NEW order,
           Window(tr, fr, out, pairs, in, order), fr.facade = "there", ~fr.over,
           NEW fr2, fr2 = [fr EXCEPT !.over = TRUE],
           NEW m, m.type = "c", NEW in2, in2 = in \cup {m},
           NEW order2, order2 \subseteq order \cup (in \X {m})
    PROVE  /\ Window(tr, fr2, out, pairs, in2, order2)
           /\ fr2 \in Frame
<1>1. fr.made \in Nat /\ Latest(fr) = fr.made
  BY IframeAssumption DEF Frame, Latest
<1>2. /\ fr2 \in Frame /\ fr2.facade = fr.facade /\ fr2.got = fr.got /\ fr2.made = fr.made
      /\ fr2.thrown = fr.thrown /\ fr2.phase = fr.phase /\ Latest(fr2) = fr.made + 1
  BY DEF Frame, Latest
<1>3. Closing(tr, fr2, out)
  BY <1>2 DEF Window, Closing
<1>4. Loading(tr, fr2, out, in \cup {m})
  BY <1>2 DEF Window, Loading
<1>5. Sending(tr, fr2, out, pairs)
  BY <1>2 DEF Window, Sending
<1>6. Hearing(tr, fr2, in2, order2)
  <2>1. \A e \in in : e.type = "t" => e.data \in 1 .. fr.made
    BY <1>1 DEF Window, Hearing
  <2>2. \A e \in in \cup {m} : e.type = "t" => e.data \in 1 .. Latest(fr2)
    BY <1>1, <1>2, <2>1
  <2>3. \A p \in order2 : p \in order \/ p[2].type = "c"
    OBVIOUS
  <2> QED
    BY <1>2, <2>2, <2>3 DEF Window, Hearing
<1> QED
  BY <1>2, <1>3, <1>4, <1>5, <1>6 DEF Window

\* Nothing has happened yet.
LEMMA FreshWindow ==
    ASSUME NEW tr, NEW fr,
           tr.attached = tr.listens, tr.heard = <<>>, tr.told = 0, tr.sent = 0,
           fr.facade = "undefined", fr.thrown = FALSE, fr.got = <<>>, fr.made = 0
    PROVE  Window(tr, fr, {}, {}, {}, {})
<1>1. Len(<<>>) = 0 /\ <<>> = FirstNumbers(0)
  <2>1. 1 .. 0 = {}
    OBVIOUS
  <2> QED
    BY <2>1 DEF FirstNumbers
<1>2. \A n \in 0 + 1 .. 0 : FALSE
  OBVIOUS
<1>3. Closing(tr, fr, {})
  BY DEF Closing
<1>4. Loading(tr, fr, {}, {})
  BY DEF Loading
<1>5. Sending(tr, fr, {}, {})
  BY <1>1, <1>2 DEF Sending
<1>6. Hearing(tr, fr, {}, {})
  BY <1>1, <1>2 DEF Hearing
<1> QED
  BY <1>3, <1>4, <1>5, <1>6 DEF Window

\* A transport not made yet, and a new one.
LEMMA NewWindow ==
    /\ NewTransport \in Transport /\ NewFrame \in Frame
    /\ NoTransport \in Transport /\ NoFrame \in Frame
    /\ Window(NewTransport, NewFrame, {}, {}, {}, {})
    /\ Window(NoTransport, NoFrame, {}, {}, {}, {})
    /\ NoTransport.heard = <<>> /\ NoTransport.listens = FALSE /\ NoFrame.made = 0
    /\ NewTransport.heard = <<>> /\ NewTransport.listens = TRUE /\ NewFrame.made = 0
    /\ NoTransport.timer = "none" /\ NoTransport.attached = FALSE
    /\ NoFrame.phase = "none" /\ NoFrame.inbox = <<>> /\ NewFrame.inbox = <<>>
<1>1. /\ <<>> \in Seq(1 .. MaxFrames) /\ <<>> \in Seq(1 .. MaxSends) /\ <<>> \in Seq(ToFrame)
      /\ 0 \in 0 .. MaxFrames /\ 0 \in 0 .. MaxSends
  BY IframeAssumption
<1>3. /\ NewTransport \in Transport /\ NewFrame \in Frame
      /\ NewTransport.heard = <<>> /\ NewTransport.listens = TRUE /\ NewFrame.made = 0
      /\ NewTransport.attached = TRUE /\ NewTransport.told = 0 /\ NewTransport.sent = 0
      /\ NewFrame.facade = "undefined" /\ NewFrame.thrown = FALSE /\ NewFrame.got = <<>>
      /\ NewFrame.inbox = <<>> /\ NewFrame.over = FALSE
  BY <1>1 DEF NewTransport, NewFrame, Transport, Frame
<1>4. /\ NoTransport \in Transport
      /\ NoTransport.heard = <<>> /\ NoTransport.listens = FALSE /\ NoTransport.timer = "none"
      /\ NoTransport.attached = FALSE /\ NoTransport.told = 0 /\ NoTransport.sent = 0
  BY <1>3 DEF NoTransport, Transport
<1>5. /\ NoFrame \in Frame /\ NoFrame.phase = "none" /\ NoFrame.made = 0
      /\ NoFrame.facade = "undefined" /\ NoFrame.thrown = FALSE /\ NoFrame.got = <<>>
      /\ NoFrame.inbox = <<>> /\ NoFrame.over = FALSE
  BY <1>3 DEF NoFrame, Frame
<1>6. Window(NewTransport, NewFrame, {}, {}, {}, {})
  BY <1>3, FreshWindow
<1>7. Window(NoTransport, NoFrame, {}, {}, {}, {})
  BY <1>4, <1>5, FreshWindow
<1> QED
  BY <1>3, <1>4, <1>5, <1>6, <1>7

-----------------------------------------------------------------------------
(* The listeners of a message *)

RepliesUpTo(msg, g, n) ==
    IF n = 0 THEN tasks
    ELSE IF HeardBy(n, msg) THEN g[n - 1] \o answers(n, msg) ELSE g[n - 1]

\* Only the transport whose iframe it comes from does something with it.
LEMMA RepliesOfOne ==
    ASSUME NEW msg, msg.windowId \in WindowIds
    PROVE  Replies(msg) =
             IF trs[msg.windowId].attached THEN tasks \o answers(msg.windowId, msg) ELSE tasks
<1> DEFINE u == msg.windowId
           r == IF trs[u].attached THEN tasks \o answers(u, msg) ELSE tasks
           f == [n \in 0 .. Windows |-> IF u <= n THEN r ELSE tasks]
           g == CHOOSE h : h = [n \in 0 .. Windows |-> RepliesUpTo(msg, h, n)]
<1>1. Windows \in Nat /\ u \in 1 .. Windows
  BY IframeAssumption DEF WindowIds
<1>2. Replies(msg) = g[Windows]
  BY DEF Replies, RepliesUpTo
<1>3. ASSUME NEW n \in 0 .. Windows
      PROVE  f[n] = RepliesUpTo(msg, f, n)
  <2>1. HeardBy(n, msg) <=> trs[u].attached /\ n = u
    BY DEF HeardBy
  <2>2. CASE n = 0
    BY <1>1, <2>2 DEF RepliesUpTo
  <2>3. CASE n # 0
    <3>1. n - 1 \in 0 .. Windows /\ f[n - 1] = IF u <= n - 1 THEN r ELSE tasks
      BY <1>1, <2>3
    <3>2. f[n] = IF u <= n THEN r ELSE tasks
      OBVIOUS
    <3> HIDE DEF f
    <3>3. RepliesUpTo(msg, f, n) =
            IF HeardBy(n, msg) THEN f[n - 1] \o answers(n, msg) ELSE f[n - 1]
      BY <2>3 DEF RepliesUpTo
    <3>4. CASE n = u
      <4>1. f[n] = r /\ f[n - 1] = tasks
        BY <1>1, <3>1, <3>2, <3>4
      <4> QED
        BY <2>1, <3>3, <3>4, <4>1
    <3>5. CASE n # u
      <4>1. f[n] = f[n - 1]
        BY <1>1, <3>1, <3>2, <3>5
      <4> QED
        BY <2>1, <3>3, <3>5, <4>1
    <3> QED
      BY <3>4, <3>5
  <2> QED
    BY <2>2, <2>3
<1>4. f = [n \in 0 .. Windows |-> RepliesUpTo(msg, f, n)]
  BY <1>3
<1> HIDE DEF f
<1>5. g = [n \in 0 .. Windows |-> RepliesUpTo(msg, g, n)]
  BY <1>4
<1> HIDE DEF g
<1> DEFINE Same == {n \in Nat : n <= Windows => g[n] = f[n]}
<1>6. 0 \in Same
  <2>1. 0 \in 0 .. Windows
    BY <1>1
  <2>2. g[0] = RepliesUpTo(msg, g, 0) /\ f[0] = RepliesUpTo(msg, f, 0)
    BY <1>4, <1>5, <2>1
  <2> QED
    BY <2>2 DEF RepliesUpTo
<1>7. ASSUME NEW n \in Nat, n \in Same
      PROVE  n + 1 \in Same
  <2> SUFFICES ASSUME n + 1 <= Windows PROVE g[n + 1] = f[n + 1]
    OBVIOUS
  <2>1. n + 1 \in 0 .. Windows /\ n + 1 # 0 /\ n + 1 - 1 = n
    BY <1>1
  <2>2. g[n + 1] = RepliesUpTo(msg, g, n + 1) /\ f[n + 1] = RepliesUpTo(msg, f, n + 1)
    BY <1>4, <1>5, <2>1
  <2>3. g[n] = f[n]
    BY <1>1, <1>7
  <2> QED
    BY <2>1, <2>2, <2>3 DEF RepliesUpTo
<1> HIDE DEF Same
<1>8. Windows \in Same
  BY <1>1, <1>6, <1>7, SetInduction
<1>9. g[Windows] = f[Windows]
  BY <1>1, <1>8 DEF Same
<1>10. f[Windows] = r
  BY <1>1 DEF f
<1> QED
  BY <1>2, <1>9, <1>10

-----------------------------------------------------------------------------
(* The invariant, step by step *)

\* What one window has to do with.
LEMMA WindowTypes ==
    ASSUME TypeInv, NEW w \in WindowIds
    PROVE  /\ trs[w] \in Transport /\ frames[w] \in Frame /\ frames[w].inbox \in Seq(ToFrame)
           /\ Out(frames[w].inbox, tasks, w) \subseteq ToFrame
           /\ In(toPage, w) \subseteq FromFrame
<1>1. /\ trs[w] \in Transport /\ frames[w] \in Frame /\ frames[w].inbox \in Seq(ToFrame)
      /\ tasks \in Seq(Task) /\ toPage \in Seq(FromFrame)
  BY DEF TypeInv, Frame
<1>2. /\ ToSet(frames[w].inbox) \subseteq ToFrame /\ ToSet(tasks) \subseteq Task
      /\ ToSet(toPage) \subseteq FromFrame
  BY <1>1, MembersOf
<1>3. PostsTo(tasks, w) \subseteq ToFrame
  BY <1>2 DEF PostsTo, IsPost, Task
<1> QED
  BY <1>1, <1>2, <1>3 DEF Out, In

\* A step that does nothing with window w.
Elsewhere(w) ==
    /\ trs'[w] = trs[w] /\ frames'[w] = frames[w]
    /\ Out(frames[w].inbox, tasks', w) = Out(frames[w].inbox, tasks, w)
    /\ OutOrder(frames[w].inbox, tasks', w) \subseteq OutOrder(frames[w].inbox, tasks, w)
    /\ In(toPage', w) = In(toPage, w)
    /\ ArrivalOrder(toPage', w) \subseteq ArrivalOrder(toPage, w)

LEMMA OneWindow ==
    ASSUME IInv, TypeInv', NEW v \in WindowIds, v <= current, UNCHANGED current,
           \A w \in WindowIds : w # v => Elsewhere(w),
           \A t \in ToSet(tasks') : t.msg.windowId <= current,
           \A m \in ToSet(toPage') : m.windowId <= current,
           WindowInv(v)'
    PROVE  IInv'
<1>1. TypeInv /\ NotYet /\ \A w \in WindowIds : WindowInv(w)
  BY DEF IInv
<1>2. NotYet'
  <2>1. \A w \in WindowIds : w > current => w # v
    BY <1>1 DEF TypeInv, WindowIds
  <2> QED
    BY <1>1, <2>1 DEF NotYet, Elsewhere
<1>3. ASSUME NEW w \in WindowIds, w # v
      PROVE  WindowInv(w)'
  <2>1. Elsewhere(w)
    BY <1>3
  <2>2. Window(trs[w], frames[w], Out(frames[w].inbox, tasks, w),
               OutOrder(frames[w].inbox, tasks, w), In(toPage, w), ArrivalOrder(toPage, w))
    BY <1>1 DEF WindowInv
  <2>3. Window(trs[w], frames[w], Out(frames[w].inbox, tasks, w),
               OutOrder(frames[w].inbox, tasks', w), In(toPage, w), ArrivalOrder(toPage', w))
    BY <2>1, <2>2, WindowKept DEF SameTransport, SameFrame, Elsewhere
  <2> QED
    BY <2>1, <2>3 DEF WindowInv, Elsewhere
<1> QED
  BY <1>2, <1>3 DEF IInv

\* The steps that let go of the transport of window v.
LEMMA ClosesIInv ==
    ASSUME IInv, NEW v \in WindowIds, v <= current,
           NEW tr2 \in {closed(trs[v]), told(trs[v])}, trs' = [trs EXCEPT ![v] = tr2],
           NEW q \in Seq(Task), tasks' = q \o closeTasks(v),
           \A t \in ToSet(q) : t.msg.windowId <= current,
           \A w \in WindowIds : /\ PostsTo(q, w) = PostsTo(tasks, w)
                                /\ PostOrder(q, w) \subseteq PostOrder(tasks, w),
           toPage' \in Seq(FromFrame), ToSet(toPage') \subseteq ToSet(toPage),
           \A w \in WindowIds : /\ In(toPage', w) \subseteq In(toPage, w)
                                /\ w # v => In(toPage', w) = In(toPage, w)
                                /\ ArrivalOrder(toPage', w) \subseteq ArrivalOrder(toPage, w),
           UNCHANGED <<frames, current>>
    PROVE  IInv'
<1> DEFINE r == closeTasks(v)
           c == Msg(v, "c", 0)
<1>1. TypeInv /\ NotYet /\ \A w \in WindowIds : WindowInv(w)
  BY DEF IInv
<1>2. \A w \in WindowIds :
        /\ r \in Seq(Task) /\ PostOrder(r, w) = {}
        /\ \A t \in ToSet(r) : t.msg.windowId = v
        /\ PostsTo(r, w) = IF w = v THEN {c} ELSE {}
  BY ClosingTasks
<1> HIDE DEF r, c
<1>3. ASSUME NEW w \in WindowIds
      PROVE  /\ Out(frames[w].inbox, tasks', w) =
                  Out(frames[w].inbox, tasks, w) \cup (IF w = v THEN {c} ELSE {})
             /\ OutOrder(frames[w].inbox, tasks', w) \subseteq
                  OutOrder(frames[w].inbox, tasks, w)
                    \cup (IF w = v THEN Out(frames[w].inbox, tasks, w) \X {c} ELSE {})
  <2> DEFINE b == frames[w].inbox
  <2>1. /\ Out(b, q \o r, w) = Out(b, q, w) \cup PostsTo(r, w)
        /\ OutOrder(b, q \o r, w) \subseteq
             OutOrder(b, q, w) \cup PostOrder(r, w) \cup (Out(b, q, w) \X PostsTo(r, w))
    BY <1>2, OutAdded
  <2>2. PostsTo(q, w) = PostsTo(tasks, w) /\ PostOrder(q, w) \subseteq PostOrder(tasks, w)
    OBVIOUS
  <2>3. Out(b, q, w) = Out(b, tasks, w) /\ OutOrder(b, q, w) \subseteq OutOrder(b, tasks, w)
    BY <2>2 DEF Out, OutOrder
  <2>4. tasks' = q \o r
    BY DEF r
  <2> HIDE DEF b
  <2>5. /\ Out(b, tasks', w) = Out(b, tasks, w) \cup (IF w = v THEN {c} ELSE {})
        /\ OutOrder(b, tasks', w) \subseteq
             OutOrder(b, tasks, w) \cup (IF w = v THEN Out(b, tasks, w) \X {c} ELSE {})
    BY <1>2, <2>1, <2>3, <2>4
  <2> QED
    BY <2>5 DEF b
<1>4. trs[v] \in Transport
  BY <1>1, WindowTypes
<1>5. Window(trs[v], frames[v], Out(frames[v].inbox, tasks, v), OutOrder(frames[v].inbox, tasks, v),
             In(toPage, v), ArrivalOrder(toPage, v))
  BY <1>1 DEF WindowInv
<1>6. /\ Window(tr2, frames[v], Out(frames[v].inbox, tasks', v),
                OutOrder(frames[v].inbox, tasks', v), In(toPage', v), ArrivalOrder(toPage', v))
      /\ tr2 \in Transport
  <2> DEFINE out2 == Out(frames[v].inbox, tasks', v)
             pairs2 == OutOrder(frames[v].inbox, tasks', v)
             out == Out(frames[v].inbox, tasks, v)
             pairs == OutOrder(frames[v].inbox, tasks, v)
             in == In(toPage, v)
             order == ArrivalOrder(toPage, v)
  <2>1. out2 = out \cup {Msg(v, "c", 0)} /\ pairs2 \subseteq pairs \cup (out \X {Msg(v, "c", 0)})
    BY <1>3 DEF c
  <2>2. In(toPage', v) \subseteq in
    OBVIOUS
  <2>3. Window(trs[v], frames[v], out, pairs, in, order)
    BY <1>5
  <2> DEFINE tr == trs[v]
             fr == frames[v]
             in2 == In(toPage', v)
             order2 == ArrivalOrder(toPage', v)
  <2> HIDE DEF out2, pairs2, out, pairs, in, order, tr, fr, in2, order2
  <2>4. /\ tr \in Transport /\ tr2 \in {closed(tr), told(tr)}
        /\ Window(tr, fr, out, pairs, in, order) /\ out2 = out \cup {Msg(v, "c", 0)}
        /\ pairs2 \subseteq pairs \cup (out \X {Msg(v, "c", 0)}) /\ in2 \subseteq in
    BY <1>4, <2>1, <2>2, <2>3 DEF tr, fr, in2
  <2>5. Window(tr2, fr, out2, pairs2, in2, order2) /\ tr2 \in Transport
    BY ONLY <2>4, WindowClosed
  <2> QED
    BY <2>5 DEF out2, pairs2, in2, order2, fr
<1>7. TypeInv'
  <2>1. trs' \in [WindowIds -> Transport]
    BY <1>1, <1>6 DEF TypeInv
  <2>2. tasks' \in Seq(Task)
    BY <1>2, PostsAdded DEF r
  <2> QED
    BY <1>1, <2>1, <2>2 DEF TypeInv
<1>8. \A t \in ToSet(tasks') : t.msg.windowId <= current
  <2>1. ToSet(tasks') = ToSet(q) \cup ToSet(r)
    BY <1>2, OrderOfConcat DEF r
  <2> QED
    BY <1>2, <2>1
<1>9. WindowInv(v)'
  <2>1. trs'[v] = tr2 /\ frames'[v] = frames[v]
    BY <1>1 DEF TypeInv
  <2> QED
    BY <1>6, <2>1 DEF WindowInv
<1>10. ASSUME NEW w \in WindowIds, w # v
       PROVE  Elsewhere(w)
  BY <1>1, <1>3, <1>10 DEF Elsewhere, TypeInv
<1>11. \A m \in ToSet(toPage') : m.windowId <= current
  BY <1>1 DEF NotYet
<1> QED
  BY <1>7, <1>8, <1>9, <1>10, <1>11, OneWindow

LEMMA CloseIInv == IInv /\ Close => IInv'
<1> SUFFICES ASSUME IInv, Close PROVE IInv'
  OBVIOUS
<1>1. TypeInv /\ NotYet
  BY DEF IInv
<1>2. current \in WindowIds /\ current <= current /\ tasks \in Seq(Task) /\ toPage \in Seq(FromFrame)
  BY <1>1 DEF TypeInv, WindowIds
<1> DEFINE v == current
           tr2 == closed(trs[current])
<1>3. /\ tr2 \in {closed(trs[v]), told(trs[v])} /\ trs' = [trs EXCEPT ![v] = tr2]
      /\ tasks' = tasks \o closeTasks(v) /\ UNCHANGED <<frames, toPage, current>>
  BY DEF Close
<1>4. \A t \in ToSet(tasks) : t.msg.windowId <= current
  BY <1>1 DEF NotYet
<1> HIDE DEF v, tr2
<1>5. v \in WindowIds /\ v <= current
  BY <1>2 DEF v
<1> QED
  BY <1>2, <1>3, <1>4, <1>5, ClosesIInv

LEMMA LoadErrorIInv == IInv /\ (\E w \in WindowIds : LoadError(w)) => IInv'
<1> SUFFICES ASSUME IInv, NEW v \in WindowIds, LoadError(v) PROVE IInv'
  OBVIOUS
<1>1. TypeInv /\ NotYet
  BY DEF IInv
<1>2. current \in WindowIds /\ tasks \in Seq(Task) /\ toPage \in Seq(FromFrame)
  BY <1>1 DEF TypeInv
<1>3. v <= current
  <2>1. v > current => trs[v].timer = "none"
    BY <1>1, NewWindow DEF NotYet
  <2> QED
    BY <1>2, <2>1 DEF LoadError, WindowIds
<1> DEFINE e == RemovalOf(v)
           q == tasks \o <<e>>
           tr2 == told(trs[v])
<1>4. e \in Task /\ e.msg.windowId = v /\ \A w : ~IsPost(e, w)
  BY DEF Task, RemovalOf, Msg, Removal, IsPost
<1>5. /\ <<e>> \in Seq(Task) /\ ToSet(<<e>>) = {e}
      /\ \A w : PostsTo(<<e>>, w) = {} /\ PostOrder(<<e>>, w) = {}
  BY <1>4, OneTask
<1>6. /\ trs' = [trs EXCEPT ![v] = tr2] /\ tasks' = q \o closeTasks(v)
      /\ UNCHANGED <<frames, toPage, current>> /\ tr2 \in {closed(trs[v]), told(trs[v])}
  BY DEF LoadError
<1> DEFINE x == <<e>>
<1>7. /\ x \in Seq(Task) /\ ToSet(x) = {e} /\ q = tasks \o x
      /\ \A w : PostsTo(x, w) = {} /\ PostOrder(x, w) = {}
  BY <1>5
<1> HIDE DEF e, q, tr2, x
<1>8. q \in Seq(Task) /\ ToSet(q) = ToSet(tasks) \cup {e}
  BY <1>2, <1>7, OrderOfConcat
<1>9. \A t \in ToSet(q) : t.msg.windowId <= current
  BY <1>1, <1>3, <1>4, <1>8 DEF NotYet
<1>10. ASSUME NEW w \in WindowIds
       PROVE  /\ PostsTo(q, w) = PostsTo(tasks, w)
              /\ PostOrder(q, w) \subseteq PostOrder(tasks, w)
  <2>1. /\ PostsTo(q, w) = PostsTo(tasks, w) \cup PostsTo(x, w)
        /\ PostOrder(q, w) \subseteq
             PostOrder(tasks, w) \cup PostOrder(x, w) \cup (PostsTo(tasks, w) \X PostsTo(x, w))
    BY <1>2, <1>7, PostsAdded
  <2> QED
    BY <1>7, <2>1
<1> QED
  BY <1>2, <1>3, <1>6, <1>8, <1>9, <1>10, ClosesIInv

LEMMA InitIInv == Init => IInv
<1> SUFFICES ASSUME Init PROVE IInv
  OBVIOUS
<1>1. 1 \in WindowIds
  BY IframeAssumption DEF WindowIds
<1>2. TypeInv
  BY <1>1, NewWindow DEF Init, TypeInv
<1>3. ToSet(tasks) = {} /\ ToSet(toPage) = {} /\ \A w \in WindowIds : ToSet(frames[w].inbox) = {}
  BY NewWindow DEF Init, ToSet
<1>4. NotYet
  BY <1>3 DEF NotYet, Init, WindowIds
<1>5. ASSUME NEW w \in WindowIds
      PROVE  WindowInv(w)
  <2>1. Out(frames[w].inbox, tasks, w) = {} /\ In(toPage, w) = {}
    BY <1>3 DEF Out, PostsTo, In
  <2>2. OutOrder(frames[w].inbox, tasks, w) = {} /\ ArrivalOrder(toPage, w) = {}
    BY <1>3 DEF OutOrder, PostOrder, ArrivalOrder, InOrder
  <2>3. Window(trs[w], frames[w], {}, {}, {}, {})
    BY NewWindow DEF Init
  <2> QED
    BY <2>1, <2>2, <2>3 DEF WindowInv
<1> QED
  BY <1>2, <1>4, <1>5 DEF IInv

LEMMA NextTransportIInv == IInv /\ NextTransport => IInv'
<1> SUFFICES ASSUME IInv, NextTransport PROVE IInv'
  OBVIOUS
<1>1. TypeInv /\ NotYet /\ \A w \in WindowIds : WindowInv(w)
  BY DEF IInv
<1> DEFINE v == current + 1
<1>2. /\ current \in WindowIds /\ current \in Nat /\ v \in WindowIds /\ v > current
      /\ current' = v
  BY <1>1, IframeAssumption DEF TypeInv, WindowIds, NextTransport
<1>3. /\ trs' = [trs EXCEPT ![v] = NewTransport] /\ frames' = [frames EXCEPT ![v] = NewFrame]
      /\ tasks' = tasks /\ toPage' = toPage
  BY DEF NextTransport
<1> HIDE DEF v
<1>4. TypeInv'
  BY <1>1, <1>2, <1>3, NewWindow DEF TypeInv
<1>5. NotYet'
  <2>1. \A w \in WindowIds : w > v => w > current /\ w # v
    BY <1>2 DEF WindowIds
  <2>2. /\ \A t \in ToSet(tasks) : t.msg.windowId <= v
        /\ \A m \in ToSet(toPage) : m.windowId <= v
    <3>1. tasks \in Seq(Task) /\ toPage \in Seq(FromFrame)
      BY <1>1 DEF TypeInv
    <3>2. ToSet(tasks) \subseteq Task /\ ToSet(toPage) \subseteq FromFrame
      BY <3>1, MembersOf
    <3>3. \A t \in Task : t.msg.windowId \in Int
      <4>1. ASSUME NEW t \in [task : {"post"}, msg : ToFrame] PROVE t.msg.windowId \in Int
        BY DEF ToFrame, WindowIds
      <4>2. ASSUME NEW t \in [task : {"remove"}, msg : Removal] PROVE t.msg.windowId \in Int
        <5>1. t.msg \in Removal
          OBVIOUS
        <5>2. t.msg.windowId \in WindowIds
          BY <5>1 DEF Removal
        <5> QED
          BY <5>2 DEF WindowIds
      <4> QED
        BY <4>1, <4>2 DEF Task
    <3>4. \A m \in FromFrame : m.windowId \in Int
      BY DEF FromFrame, WindowIds
    <3>5. v \in Int
      BY <1>2 DEF WindowIds
    <3> QED
      BY <1>1, <1>2, <3>2, <3>3, <3>4, <3>5 DEF NotYet
  <2> QED
    BY <1>1, <1>2, <1>3, <2>1, <2>2 DEF NotYet, TypeInv
<1>6. ASSUME NEW w \in WindowIds
      PROVE  WindowInv(w)'
  <2>1. CASE w = v
    <3>1. trs'[w] = NewTransport /\ frames'[w] = NewFrame
      BY <1>1, <1>3, <2>1 DEF TypeInv
    <3>2. /\ \A t \in ToSet(tasks) : t.msg.windowId # w
          /\ \A m \in ToSet(toPage) : m.windowId # w
      <4>1. ~(w <= current)
        BY <1>2, <2>1 DEF WindowIds
      <4> QED
        BY <1>1, <4>1 DEF NotYet
    <3>3. ToSet(NewFrame.inbox) = {}
      BY NewWindow DEF ToSet
    <3>4. Out(NewFrame.inbox, tasks, w) = {} /\ In(toPage, w) = {}
      BY <3>2, <3>3 DEF Out, PostsTo, IsPost, In
    <3>5. OutOrder(NewFrame.inbox, tasks, w) = {} /\ ArrivalOrder(toPage, w) = {}
      BY <3>2, <3>3 DEF OutOrder, PostOrder, IsPost, ArrivalOrder, InOrder
    <3>6. Window(NewTransport, NewFrame, {}, {}, {}, {})
      BY NewWindow
    <3> QED
      BY <1>3, <3>1, <3>4, <3>5, <3>6 DEF WindowInv
  <2>2. CASE w # v
    <3>1. trs'[w] = trs[w] /\ frames'[w] = frames[w]
      BY <1>1, <1>3, <2>2 DEF TypeInv
    <3> QED
      BY <1>1, <1>3, <3>1 DEF WindowInv
  <2> QED
    BY <2>1, <2>2
<1> QED
  BY <1>4, <1>5, <1>6 DEF IInv

LEMMA sendIInv == IInv /\ send => IInv'
<1> SUFFICES ASSUME IInv, send PROVE IInv'
  OBVIOUS
<1>1. TypeInv /\ NotYet /\ \A w \in WindowIds : WindowInv(w)
  BY DEF IInv
<1>2. current \in WindowIds /\ tasks \in Seq(Task) /\ toPage \in Seq(FromFrame)
  BY <1>1 DEF TypeInv
<1>0. PICK v \in WindowIds : v = current
  BY <1>2
<1> DEFINE tr == trs[v]
           fr == frames[v]
           tr2 == [tr EXCEPT !.sent = @ + 1]
           m == Msg(v, "m", tr.sent + 1)
           e == Post(v, "m", tr.sent + 1)
           x == <<e>>
<1>3. tr \in Transport /\ tr.listens /\ tr.heard # <<>> /\ tr.sent < MaxSends
  BY <1>0, <1>1, WindowTypes DEF send
<1>4. tr.sent + 1 \in 0 .. MaxSends
  BY <1>3, IframeAssumption DEF Transport
<1>5. /\ e \in Task /\ e.msg = m /\ m.type = "m" /\ m.data = tr.sent + 1
      /\ e.msg.windowId = v /\ \A w : IsPost(e, w) <=> w = v
  BY <1>4 DEF Post, Msg, Task, ToFrame, IsPost
<1>6. /\ trs' = [trs EXCEPT ![v] = tr2] /\ tasks' = tasks \o x
      /\ UNCHANGED <<frames, toPage, current>>
  <2>1. Append(tasks, e) = tasks \o <<e>>
    BY <1>2, <1>5, AppendIsConcat
  <2> QED
    BY <1>0, <2>1 DEF send
<1>7. /\ x \in Seq(Task) /\ ToSet(x) = {e}
      /\ \A w : PostsTo(x, w) = (IF w = v THEN {m} ELSE {}) /\ PostOrder(x, w) = {}
  BY <1>5, OneTask
<1> HIDE DEF tr, tr2, m, e, x
<1>8. ASSUME NEW w \in WindowIds
      PROVE  /\ Out(frames[w].inbox, tasks', w) =
                  Out(frames[w].inbox, tasks, w) \cup (IF w = v THEN {m} ELSE {})
             /\ OutOrder(frames[w].inbox, tasks', w) \subseteq
                  OutOrder(frames[w].inbox, tasks, w)
                    \cup (IF w = v THEN Out(frames[w].inbox, tasks, w) \X {m} ELSE {})
  <2> DEFINE b == frames[w].inbox
  <2>1. /\ Out(b, tasks \o x, w) = Out(b, tasks, w) \cup PostsTo(x, w)
        /\ OutOrder(b, tasks \o x, w) \subseteq
             OutOrder(b, tasks, w) \cup PostOrder(x, w) \cup (Out(b, tasks, w) \X PostsTo(x, w))
    BY <1>2, <1>7, OutAdded
  <2> HIDE DEF b
  <2>2. /\ Out(b, tasks', w) = Out(b, tasks, w) \cup (IF w = v THEN {m} ELSE {})
        /\ OutOrder(b, tasks', w) \subseteq
             OutOrder(b, tasks, w) \cup (IF w = v THEN Out(b, tasks, w) \X {m} ELSE {})
    BY <1>6, <1>7, <2>1
  <2> QED
    BY <2>2 DEF b
<1> DEFINE out == Out(fr.inbox, tasks, v)
           pairs == OutOrder(fr.inbox, tasks, v)
           pairs2 == OutOrder(fr.inbox, tasks', v)
           in == In(toPage, v)
           order == ArrivalOrder(toPage, v)
<1>9. v \in WindowIds /\ v <= current
  BY <1>0 DEF WindowIds
<1>10. /\ fr \in Frame /\ out \subseteq ToFrame
       /\ Window(tr, fr, out, pairs, in, order)
  BY <1>1, <1>9, WindowTypes DEF WindowInv, tr
<1>11. Out(fr.inbox, tasks', v) = out \cup {m} /\ pairs2 \subseteq pairs \cup (out \X {m})
  BY <1>8, <1>9
<1> HIDE DEF fr, out, pairs, pairs2, in, order
<1>12. Window(tr2, fr, out \cup {m}, pairs2, in, order) /\ tr2 \in Transport
  <2>1. /\ tr \in Transport /\ fr \in Frame /\ out \subseteq ToFrame
        /\ Window(tr, fr, out, pairs, in, order)
        /\ tr.listens /\ tr.heard # <<>> /\ tr.sent < MaxSends
        /\ tr2 = [tr EXCEPT !.sent = @ + 1]
        /\ m.type = "m" /\ m.data = tr.sent + 1 /\ pairs2 \subseteq pairs \cup (out \X {m})
    BY <1>3, <1>5, <1>10, <1>11 DEF tr2
  <2> DEFINE out2 == out \cup {m}
  <2>2. out2 = out \cup {m}
    OBVIOUS
  <2> HIDE DEF out2
  <2>3. Window(tr2, fr, out2, pairs2, in, order) /\ tr2 \in Transport
    BY ONLY <2>1, <2>2, WindowSends
  <2> QED
    BY <2>3 DEF out2
<1>13. TypeInv'
  <2>1. tasks' \in Seq(Task)
    BY <1>2, <1>6, <1>7, PostsAdded
  <2> QED
    BY <1>1, <1>6, <1>12, <2>1 DEF TypeInv
<1>14. WindowInv(v)'
  <2>1. trs'[v] = tr2 /\ frames'[v] = fr /\ toPage' = toPage
    BY <1>1, <1>6, <1>9 DEF TypeInv, fr
  <2> QED
    BY <1>11, <1>12, <2>1 DEF WindowInv, in, order, out, pairs2
<1>15. \A w \in WindowIds : w # v => Elsewhere(w)
  BY <1>1, <1>6, <1>8 DEF Elsewhere, TypeInv
<1>16. \A t \in ToSet(tasks') : t.msg.windowId <= current
  <2>1. ToSet(tasks') = ToSet(tasks) \cup {e}
    BY <1>2, <1>6, <1>7, OrderOfConcat
  <2> QED
    BY <1>1, <1>5, <1>9, <2>1 DEF NotYet
<1>17. \A t \in ToSet(toPage') : t.windowId <= current
  BY <1>1, <1>6 DEF NotYet
<1> QED
  BY <1>6, <1>9, <1>13, <1>14, <1>15, <1>16, <1>17, OneWindow

\* What runs has been made.
LEMMA MadeAlready ==
    ASSUME TypeInv, NotYet, NEW w \in WindowIds, frames[w].phase # "none"
    PROVE  w <= current
<1>1. w > current => frames[w].phase = "none"
  BY NewWindow DEF NotYet
<1> QED
  BY <1>1 DEF TypeInv, WindowIds

\* The steps of an iframe: it may say something.
LEMMA FrameStep ==
    ASSUME IInv, NEW v \in WindowIds, v <= current,
           NEW fr2 \in Frame, frames' = [frames EXCEPT ![v] = fr2],
           UNCHANGED <<trs, tasks, current>>,
           \/ toPage' = toPage
           \/ \E m \in FromFrame : m.windowId = v /\ toPage' = Append(toPage, m),
           Window(trs[v], fr2, Out(fr2.inbox, tasks, v), OutOrder(fr2.inbox, tasks, v),
                  In(toPage', v), ArrivalOrder(toPage', v))
    PROVE  IInv'
<1>1. TypeInv /\ NotYet /\ \A w \in WindowIds : WindowInv(w)
  BY DEF IInv
<1>2. /\ toPage' \in Seq(FromFrame)
      /\ \A m \in ToSet(toPage') : m.windowId <= current
      /\ \A w \in WindowIds : w # v =>
           /\ In(toPage', w) = In(toPage, w)
           /\ ArrivalOrder(toPage', w) \subseteq ArrivalOrder(toPage, w)
  <2>1. toPage \in Seq(FromFrame) /\ \A m \in ToSet(toPage) : m.windowId <= current
    BY <1>1 DEF TypeInv, NotYet
  <2>2. CASE toPage' = toPage
    BY <2>1, <2>2
  <2>3. CASE \E m \in FromFrame : m.windowId = v /\ toPage' = Append(toPage, m)
    <3>1. PICK m \in FromFrame : m.windowId = v /\ toPage' = Append(toPage, m)
      BY <2>3
    <3>2. /\ Append(toPage, m) \in Seq(FromFrame)
          /\ ToSet(Append(toPage, m)) = ToSet(toPage) \cup {m}
      BY <2>1, Arriving
    <3>3. ASSUME NEW w \in WindowIds, w # v
          PROVE  /\ In(toPage', w) = In(toPage, w)
                 /\ ArrivalOrder(toPage', w) \subseteq ArrivalOrder(toPage, w)
      <4> DEFINE a == Append(toPage, m)
      <4>1. /\ In(a, w) = In(toPage, w) \cup (IF m.windowId = w THEN {m} ELSE {})
            /\ ArrivalOrder(a, w) \subseteq
                 ArrivalOrder(toPage, w) \cup (IF m.windowId = w THEN In(toPage, w) \X {m} ELSE {})
        BY <2>1, Arriving
      <4>2. m.windowId # w /\ toPage' = a
        BY <3>1, <3>3
      <4> HIDE DEF a
      <4> QED
        BY <4>1, <4>2
    <3> QED
      BY <2>1, <3>1, <3>2, <3>3
  <2> QED
    BY <2>2, <2>3
<1>3. TypeInv'
  BY <1>1, <1>2 DEF TypeInv
<1>4. WindowInv(v)'
  <2>1. trs'[v] = trs[v] /\ frames'[v] = fr2 /\ tasks' = tasks
    BY <1>1 DEF TypeInv
  <2> QED
    BY <2>1 DEF WindowInv
<1>5. \A w \in WindowIds : w # v => Elsewhere(w)
  BY <1>1, <1>2 DEF Elsewhere, TypeInv
<1>6. \A t \in ToSet(tasks') : t.msg.windowId <= current
  BY <1>1 DEF NotYet
<1> QED
  BY <1>2, <1>3, <1>4, <1>5, <1>6, OneWindow

LEMMA BootstrapIInv == IInv /\ (\E w \in WindowIds : Bootstrap(w)) => IInv'
<1> SUFFICES ASSUME IInv, NEW v \in WindowIds, Bootstrap(v) PROVE IInv'
  OBVIOUS
<1>1. TypeInv /\ NotYet /\ WindowInv(v)
  BY DEF IInv
<1> DEFINE fr == frames[v]
           fr2 == [fr EXCEPT !.phase = "running"]
           m == Msg(v, "s", 0)
           in == In(toPage, v)
           order == ArrivalOrder(toPage, v)
           in2 == In(toPage', v)
           order2 == ArrivalOrder(toPage', v)
<1>2. /\ fr.phase = "loading" /\ frames' = [frames EXCEPT ![v] = fr2]
      /\ toPage' = Append(toPage, m) /\ UNCHANGED <<trs, tasks, current>>
  BY DEF Bootstrap
<1>3. fr \in Frame /\ trs[v] \in Transport /\ toPage \in Seq(FromFrame)
  BY <1>1, WindowTypes DEF TypeInv
<1>4. fr2 \in Frame /\ SameFrame(fr, fr2) /\ fr2.inbox = fr.inbox
  BY <1>3 DEF Frame, SameFrame
<1>5. m \in FromFrame /\ m.windowId = v /\ m.type = "s"
  BY IframeAssumption DEF Msg, FromFrame
<1>6. v <= current
  BY <1>1, <1>2, MadeAlready
<1> HIDE DEF m
<1>7. in2 = in \cup {m} /\ order2 \subseteq order \cup (in \X {m})
  BY <1>2, <1>3, <1>5, Arriving
<1> DEFINE tr == trs[v]
           out == Out(fr.inbox, tasks, v)
           pairs == OutOrder(fr.inbox, tasks, v)
<1>8. Window(tr, fr, out, pairs, in, order)
  BY <1>1 DEF WindowInv
<1> HIDE DEF fr, fr2, in, order, in2, order2, tr, out, pairs
<1>9. Window(tr, fr2, out, pairs, in2, order2)
  BY <1>2, <1>4, <1>5, <1>7, <1>8, WindowBoots
<1>10. Window(trs[v], fr2, Out(fr2.inbox, tasks, v), OutOrder(fr2.inbox, tasks, v),
              In(toPage', v), ArrivalOrder(toPage', v))
  BY <1>4, <1>9 DEF tr, out, pairs, in2, order2
<1> QED
  BY <1>2, <1>4, <1>5, <1>6, <1>10, FrameStep

LEMMA TalksIInv ==
    IInv /\ (\E w \in WindowIds : _transportMessage(w) \/ _transportClose(w)) => IInv'
<1> SUFFICES ASSUME IInv, NEW v \in WindowIds, _transportMessage(v) \/ _transportClose(v)
             PROVE  IInv'
  OBVIOUS
<1>1. TypeInv /\ NotYet /\ WindowInv(v)
  BY DEF IInv
<1> DEFINE fr == frames[v]
           fr2 == frames'[v]
           m == IF _transportMessage(v) THEN Msg(v, "t", fr.made + 1) ELSE Msg(v, "c", 0)
           tr == trs[v]
           out == Out(fr.inbox, tasks, v)
           pairs == OutOrder(fr.inbox, tasks, v)
           in == In(toPage, v)
           order == ArrivalOrder(toPage, v)
           in2 == In(toPage', v)
           order2 == ArrivalOrder(toPage', v)
<1>2. fr \in Frame /\ tr \in Transport /\ toPage \in Seq(FromFrame)
  BY <1>1, WindowTypes DEF TypeInv
<1>3. /\ fr.phase = "running" /\ fr.facade = "there" /\ ~fr.over
      /\ toPage' = Append(toPage, m) /\ UNCHANGED <<trs, tasks, current>>
  BY DEF _transportMessage, _transportClose, Talks
<1>4. v <= current
  BY <1>1, <1>3, MadeAlready
<1>5. m \in FromFrame /\ m.windowId = v
  BY <1>2, IframeAssumption DEF Msg, FromFrame, Frame
<1> HIDE DEF m
<1>6. in2 = in \cup {m} /\ order2 \subseteq order \cup (in \X {m})
  BY <1>2, <1>3, <1>5, Arriving
<1>7. Window(tr, fr, out, pairs, in, order)
  BY <1>1 DEF WindowInv
<1>8. /\ frames' = [frames EXCEPT ![v] = fr2]
      /\ fr2 = [fr EXCEPT !.made = @ + 1] \/ fr2 = [fr EXCEPT !.over = TRUE]
  BY <1>1 DEF TypeInv, _transportMessage, _transportClose
<1>9. fr2.inbox = fr.inbox
  BY <1>2, <1>8 DEF Frame
<1>10. Window(tr, fr2, out, pairs, in2, order2) /\ fr2 \in Frame
  <2>1. CASE _transportMessage(v)
    <3>1. m.type = "t" /\ m.data = fr.made + 1
      BY <2>1 DEF m, Msg
    <3>2. \/ fr.made < MaxFrames /\ fr2 = [fr EXCEPT !.made = @ + 1]
          \/ fr2 = [fr EXCEPT !.over = TRUE]
      BY <1>1, <2>1 DEF TypeInv, _transportMessage
    <3> HIDE DEF fr, fr2, in, order, in2, order2, tr, out, pairs
    <3>3. /\ tr \in Transport /\ fr \in Frame /\ Window(tr, fr, out, pairs, in, order)
          /\ fr.facade = "there" /\ ~fr.over /\ in2 = in \cup {m}
          /\ order2 \subseteq order \cup (in \X {m})
      BY <1>2, <1>3, <1>6, <1>7
    <3> QED
      BY ONLY <3>1, <3>2, <3>3, WindowSpeaks
  <2>2. CASE ~_transportMessage(v)
    <3>1. m.type = "c"
      BY <2>2 DEF m, Msg
    <3>2. fr2 = [fr EXCEPT !.over = TRUE]
      BY <1>1, <2>2 DEF TypeInv, _transportClose
    <3> HIDE DEF fr, fr2, in, order, in2, order2, tr, out, pairs
    <3> QED
      BY <1>2, <1>3, <1>6, <1>7, <3>1, <3>2, WindowTells
  <2> QED
    BY <2>1, <2>2
<1> HIDE DEF fr2
<1>11. Window(trs[v], fr2, Out(fr2.inbox, tasks, v), OutOrder(fr2.inbox, tasks, v),
              In(toPage', v), ArrivalOrder(toPage', v))
  BY <1>9, <1>10
<1> QED
  BY <1>3, <1>4, <1>5, <1>8, <1>10, <1>11, FrameStep

LEMMA onMessageIInv == IInv /\ (\E w \in WindowIds : onMessage(w)) => IInv'
<1> SUFFICES ASSUME IInv, NEW v \in WindowIds, onMessage(v) PROVE IInv'
  OBVIOUS
<1>1. TypeInv /\ NotYet /\ WindowInv(v)
  BY DEF IInv
<1> DEFINE fr == frames[v]
           h == Head(fr.inbox)
           b == Tail(fr.inbox)
           rest == [fr EXCEPT !.inbox = b]
           tr == trs[v]
           out == Out(fr.inbox, tasks, v)
           pairs == OutOrder(fr.inbox, tasks, v)
           out2 == Out(b, tasks, v)
           pairs2 == OutOrder(b, tasks, v)
           in == In(toPage, v)
           order == ArrivalOrder(toPage, v)
           fr2 == frames'[v]
<1>2. fr \in Frame /\ tr \in Transport /\ fr.inbox \in Seq(ToFrame) /\ out \subseteq ToFrame
  BY <1>1, WindowTypes
<1>3. /\ fr.phase = "running" /\ fr.inbox # <<>>
      /\ UNCHANGED <<trs, tasks, toPage, current>>
  BY DEF onMessage
<1>4. v <= current
  BY <1>1, <1>3, MadeAlready
<1>5. h \in ToFrame /\ b \in Seq(ToFrame) /\ Leads(h, out, out2, pairs, pairs2)
  BY <1>2, <1>3, OutRead
<1>6. Window(tr, fr, out, pairs, in, order)
  BY <1>1 DEF WindowInv
<1>7. /\ frames' = [frames EXCEPT ![v] = fr2]
      /\ fr2 = CASE h.type = "s" -> [rest EXCEPT !.facade = "there"]
                 [] h.type = "m" /\ rest.facade = "there" -> [rest EXCEPT !.got = Append(@, h.data)]
                 [] h.type = "m" /\ rest.facade # "there" -> [rest EXCEPT !.thrown = TRUE]
                 [] h.type = "c" -> [rest EXCEPT !.facade = "null"]
  <2> DEFINE x ==
        CASE h.type = "s" -> [rest EXCEPT !.facade = "there"]
          [] h.type = "m" /\ rest.facade = "there" -> [rest EXCEPT !.got = Append(@, h.data)]
          [] h.type = "m" /\ rest.facade # "there" -> [rest EXCEPT !.thrown = TRUE]
          [] h.type = "c" -> [rest EXCEPT !.facade = "null"]
  <2>1. frames' = [frames EXCEPT ![v] = x]
    BY Zenon DEF onMessage
  <2> HIDE DEF x
  <2>2. fr2 = x
    BY <1>1, <2>1 DEF TypeInv
  <2> HIDE DEF fr2
  <2> QED
    BY <2>1, <2>2 DEF x
<1>8. /\ rest.facade = fr.facade /\ rest.got = fr.got
      /\ [rest EXCEPT !.facade = "there"] = [fr EXCEPT !.inbox = b, !.facade = "there"]
      /\ [rest EXCEPT !.facade = "null"] = [fr EXCEPT !.inbox = b, !.facade = "null"]
      /\ [rest EXCEPT !.got = Append(@, h.data)] = [fr EXCEPT !.inbox = b, !.got = Append(@, h.data)]
  BY <1>2 DEF Frame
<1>9. h.type \in {"s", "m", "c"}
  BY <1>5 DEF ToFrame
<1>10. h.type = "m" => fr.facade = "there"
  BY <1>5, <1>6 DEF Window, Sending, Leads
<1> HIDE DEF fr, h, b, rest, tr, out, pairs, out2, pairs2, in, order, fr2
<1>11. /\ tr \in Transport /\ fr \in Frame /\ fr.phase # "removed" /\ out \subseteq ToFrame
       /\ Window(tr, fr, out, pairs, in, order)
       /\ Leads(h, out, out2, pairs, pairs2) /\ b \in Seq(ToFrame)
  BY <1>2, <1>3, <1>5, <1>6 DEF fr
<1>12. Window(tr, fr2, out2, pairs2, in, order) /\ fr2 \in Frame /\ fr2.inbox = b
  <2>1. CASE h.type = "s"
    <3>1. fr2 = [fr EXCEPT !.inbox = b, !.facade = "there"]
      BY <1>7, <1>8, <2>1
    <3>2. /\ fr2 \in Frame /\ fr2.inbox = b
          /\ Reads(fr, fr2) /\ fr2.facade = "there" /\ fr2.got = fr.got
      BY <1>11, <3>1 DEF Frame, Reads
    <3> QED
      BY <1>11, <2>1, <3>2, WindowMakes
  <2>2. CASE h.type = "m"
    <3>1. fr2 = [fr EXCEPT !.inbox = b, !.got = Append(@, h.data)]
      BY <1>7, <1>8, <1>10, <2>2
    <3>2. /\ fr2.inbox = b /\ Reads(fr, fr2) /\ fr2.facade = fr.facade
          /\ fr2.got = Append(fr.got, h.data)
      BY <1>11, <3>1 DEF Frame, Reads
    <3>3. Window(tr, fr2, out2, pairs2, in, order) /\ fr2.got \in Seq(1 .. MaxSends)
      BY ONLY <1>11, <2>2, <3>2, WindowPassesOn
    <3>4. Append(fr.got, h.data) \in Seq(1 .. MaxSends)
      BY <3>2, <3>3
    <3>5. fr2 \in Frame
      BY <1>11, <3>1, <3>4 DEF Frame
    <3> QED
      BY <3>2, <3>3, <3>5
  <2>3. CASE h.type = "c"
    <3>1. fr2 = [fr EXCEPT !.inbox = b, !.facade = "null"]
      BY <1>7, <1>8, <2>3
    <3>2. /\ fr2 \in Frame /\ fr2.inbox = b
          /\ Reads(fr, fr2) /\ fr2.facade = "null" /\ fr2.got = fr.got
      BY <1>11, <3>1 DEF Frame, Reads
    <3> QED
      BY <1>11, <2>3, <3>2, WindowEnds
  <2> QED
    BY <1>9, <2>1, <2>2, <2>3
<1>13. Window(trs[v], fr2, Out(fr2.inbox, tasks, v), OutOrder(fr2.inbox, tasks, v),
              In(toPage', v), ArrivalOrder(toPage', v))
  BY <1>3, <1>12 DEF tr, out2, pairs2, in, order
<1> QED
  BY <1>3, <1>4, <1>7, <1>12, <1>13, FrameStep

LEMMA OnloadIInv == IInv /\ (\E w \in WindowIds : Onload(w)) => IInv'
<1> SUFFICES ASSUME IInv, NEW v \in WindowIds, Onload(v) PROVE IInv'
  OBVIOUS
<1>1. TypeInv /\ NotYet /\ WindowInv(v)
  BY DEF IInv
<1> DEFINE fr == frames[v]
           fr2 == [fr EXCEPT !.loadEvent = FALSE]
           tr == trs[v]
           tr2 == [tr EXCEPT !.timer = IF tr.onload THEN "2s" ELSE @]
<1>2. /\ fr.phase # "none" /\ frames' = [frames EXCEPT ![v] = fr2]
      /\ trs' = [trs EXCEPT ![v] = tr2] /\ UNCHANGED <<tasks, toPage, current>>
  BY <1>1 DEF Onload, TypeInv
<1>3. fr \in Frame /\ tr \in Transport
  BY <1>1, WindowTypes
<1>4. v <= current
  BY <1>1, <1>2, MadeAlready
<1>5. fr2 \in Frame /\ SameFrame(fr, fr2) /\ fr2.inbox = fr.inbox /\ fr2.phase = fr.phase
  BY <1>3 DEF Frame, SameFrame
<1>6. tr2 \in Transport /\ SameTransport(tr, tr2) /\ (Settled(tr) => Settled(tr2))
  BY <1>3 DEF Transport, SameTransport, Settled
<1>7. TypeInv'
  BY <1>1, <1>2, <1>5, <1>6 DEF TypeInv
<1>8. WindowInv(v)'
  <2> DEFINE out == Out(fr.inbox, tasks, v)
             pairs == OutOrder(fr.inbox, tasks, v)
             in == In(toPage, v)
             order == ArrivalOrder(toPage, v)
  <2>1. Window(tr, fr, out, pairs, in, order)
    BY <1>1 DEF WindowInv
  <2>2. trs'[v] = tr2 /\ frames'[v] = fr2
    BY <1>1, <1>2 DEF TypeInv
  <2> HIDE DEF fr, fr2, tr, tr2, out, pairs, in, order
  <2>3. Window(tr2, fr2, out, pairs, in, order)
    BY <1>5, <1>6, <2>1, WindowKept
  <2> QED
    BY <1>2, <1>5, <2>2, <2>3 DEF WindowInv, out, pairs, in, order
<1>9. \A w \in WindowIds : w # v => Elsewhere(w)
  BY <1>1, <1>2 DEF Elsewhere, TypeInv
<1>10. /\ \A t \in ToSet(tasks') : t.msg.windowId <= current
       /\ \A m \in ToSet(toPage') : m.windowId <= current
  BY <1>1, <1>2 DEF NotYet
<1> QED
  BY <1>2, <1>4, <1>7, <1>8, <1>9, <1>10, OneWindow

LEMMA RunTaskIInv == IInv /\ RunTask => IInv'
<1> SUFFICES ASSUME IInv, RunTask PROVE IInv'
  OBVIOUS
<1>1. TypeInv /\ NotYet /\ \A w \in WindowIds : WindowInv(w)
  BY DEF IInv
<1>2. tasks \in Seq(Task) /\ tasks # <<>>
  BY <1>1 DEF TypeInv, RunTask
<1> DEFINE h == Head(tasks)
<1>3. h \in Task /\ Tail(tasks) \in Seq(Task) /\ ToSet(tasks) = {h} \cup ToSet(Tail(tasks))
  BY <1>2, TaskTaken
<1>4. h.msg.windowId \in WindowIds
  <2>1. CASE h \in [task : {"post"}, msg : ToFrame]
    BY <2>1 DEF ToFrame
  <2>2. CASE h \in [task : {"remove"}, msg : Removal]
    <3>1. h.msg \in Removal
      BY <2>2
    <3> QED
      BY <3>1 DEF Removal
  <2> QED
    BY <1>3, <2>1, <2>2 DEF Task
<1>5. PICK v \in WindowIds : v = h.msg.windowId
  BY <1>4
<1>6. v <= current
  BY <1>1, <1>3, <1>5 DEF NotYet
<1> DEFINE fr == frames[v]
           fr2 == frames'[v]
           tr == trs[v]
           out == Out(fr.inbox, tasks, v)
           pairs == OutOrder(fr.inbox, tasks, v)
           in == In(toPage, v)
           order == ArrivalOrder(toPage, v)
<1>7. fr \in Frame /\ tr \in Transport /\ fr.inbox \in Seq(ToFrame)
  BY <1>1, WindowTypes
<1>8. Window(tr, fr, out, pairs, in, order)
  BY <1>1 DEF WindowInv
<1>9. /\ frames' = [frames EXCEPT ![v] = fr2]
      /\ fr2 = IF fr.phase = "removed" THEN fr
               ELSE IF h.task = "remove" THEN [fr EXCEPT !.phase = "removed", !.inbox = <<>>]
               ELSE [fr EXCEPT !.inbox = Append(@, h.msg)]
      /\ tasks' = Tail(tasks) /\ UNCHANGED <<trs, toPage, current>>
  <2> DEFINE x == IF fr.phase = "removed" THEN fr
                  ELSE IF h.task = "remove" THEN [fr EXCEPT !.phase = "removed", !.inbox = <<>>]
                  ELSE [fr EXCEPT !.inbox = Append(@, h.msg)]
  <2>1. frames' = [frames EXCEPT ![v] = x]
    BY <1>5, Zenon DEF RunTask
  <2> HIDE DEF x
  <2>2. fr2 = x
    BY <1>1, <2>1 DEF TypeInv
  <2>3. tasks' = Tail(tasks) /\ UNCHANGED <<trs, toPage, current>>
    BY DEF RunTask
  <2> HIDE DEF fr2
  <2> QED
    BY <2>1, <2>2, <2>3 DEF x
<1> HIDE DEF h
<1>10. /\ fr2 \in Frame
       /\ Window(tr, fr2, Out(fr2.inbox, tasks', v), OutOrder(fr2.inbox, tasks', v), in, order)
  <2> DEFINE out2 == Out(fr2.inbox, tasks', v)
             pairs2 == OutOrder(fr2.inbox, tasks', v)
  <2>1. CASE fr.phase = "removed" \/ h.task = "remove"
    <3>1. fr2 \in Frame /\ SameFrame(fr, fr2) /\ fr2.phase = "removed"
          /\ fr2.inbox \in {fr.inbox, <<>>}
      <4>1. CASE fr.phase = "removed"
        BY <1>7, <1>9, <4>1 DEF SameFrame
      <4>2. CASE fr.phase # "removed" /\ h.task = "remove"
        <5>1. <<>> \in Seq(ToFrame)
          OBVIOUS
        <5>2. fr2 = [fr EXCEPT !.phase = "removed", !.inbox = <<>>]
          BY <1>9, <4>2
        <5> HIDE DEF fr2
        <5> QED
          BY <1>7, <5>1, <5>2 DEF Frame, SameFrame
      <4> QED
        BY <2>1, <4>1, <4>2
    <3>2. out2 \subseteq out /\ pairs2 \subseteq pairs
      BY <1>2, <1>9, <3>1, OutDropped
    <3> HIDE DEF fr, fr2, tr, out, pairs, in, order, out2, pairs2
    <3>3. Window(tr, fr2, out2, pairs2, in, order)
      BY <1>8, <3>1, <3>2, WindowRemoved
    <3> QED
      BY <3>1, <3>3 DEF out2, pairs2
  <2>2. CASE fr.phase # "removed" /\ h.task # "remove"
    <3>1. IsPost(h, v)
      BY <1>3, <1>5, <2>2 DEF Task, IsPost
    <3>2. /\ Append(fr.inbox, h.msg) \in Seq(ToFrame)
          /\ Out(Append(fr.inbox, h.msg), Tail(tasks), v) = out
          /\ OutOrder(Append(fr.inbox, h.msg), Tail(tasks), v) \subseteq pairs
      BY <1>2, <1>7, <3>1, OutMoved DEF h
    <3>3. fr2 = [fr EXCEPT !.inbox = Append(@, h.msg)]
      BY <1>9, <2>2
    <3> HIDE DEF fr2
    <3>4. /\ fr2 \in Frame /\ SameFrame(fr, fr2) /\ fr2.phase = fr.phase
          /\ fr2.inbox = Append(fr.inbox, h.msg)
      BY <1>7, <3>2, <3>3 DEF Frame, SameFrame
    <3>5. out2 = out /\ pairs2 \subseteq pairs
      BY <1>9, <3>2, <3>4
    <3> HIDE DEF fr, tr, out, pairs, in, order, out2, pairs2
    <3>6. Window(tr, fr2, out, pairs2, in, order)
      BY <1>8, <3>4, <3>5, WindowKept DEF SameTransport
    <3> QED
      BY <3>4, <3>5, <3>6 DEF out2, pairs2
  <2> QED
    BY <2>1, <2>2
<1>11. TypeInv'
  BY <1>1, <1>3, <1>9, <1>10 DEF TypeInv
<1>12. WindowInv(v)'
  BY <1>9, <1>10 DEF WindowInv
<1>13. ASSUME NEW w \in WindowIds, w # v
       PROVE  Elsewhere(w)
  <2>1. ~IsPost(h, w)
    BY <1>5, <1>13 DEF IsPost
  <2>2. /\ Out(frames[w].inbox, Tail(tasks), w) = Out(frames[w].inbox, tasks, w)
        /\ OutOrder(frames[w].inbox, Tail(tasks), w) \subseteq OutOrder(frames[w].inbox, tasks, w)
    BY <1>2, <2>1, OutKept DEF h
  <2>3. frames'[w] = frames[w]
    BY <1>1, <1>9, <1>13 DEF TypeInv
  <2> QED
    BY <1>9, <2>2, <2>3 DEF Elsewhere
<1>14. /\ \A t \in ToSet(tasks') : t.msg.windowId <= current
       /\ \A m \in ToSet(toPage') : m.windowId <= current
  BY <1>1, <1>3, <1>9 DEF NotYet
<1> QED
  BY <1>6, <1>9, <1>11, <1>12, <1>13, <1>14, OneWindow

\* One message is taken from those on their way to the page.
LEMMA MessageTaken ==
    ASSUME TypeInv, NotYet, toPage # <<>>, toPage' = Tail(toPage),
           NEW v \in WindowIds, v = Head(toPage).windowId
    PROVE  /\ Head(toPage) \in FromFrame /\ Head(toPage) \in ToSet(toPage) /\ v <= current
           /\ toPage' \in Seq(FromFrame) /\ ToSet(toPage') \subseteq ToSet(toPage)
           /\ \A w \in WindowIds : /\ In(toPage', w) \subseteq In(toPage, w)
                                   /\ w # v => In(toPage', w) = In(toPage, w)
                                   /\ ArrivalOrder(toPage', w) \subseteq ArrivalOrder(toPage, w)
           /\ Leads(Head(toPage), In(toPage, v), In(toPage', v),
                    ArrivalOrder(toPage, v), ArrivalOrder(toPage', v))
<1> DEFINE h == Head(toPage)
           t == Tail(toPage)
<1>1. toPage \in Seq(FromFrame)
  BY DEF TypeInv
<1>2. /\ h \in FromFrame /\ t \in Seq(FromFrame) /\ ToSet(toPage) = {h} \cup ToSet(t)
      /\ \A w \in WindowIds :
           /\ In(toPage, w) = In(t, w) \cup (IF h.windowId = w THEN {h} ELSE {})
           /\ ArrivalOrder(t, w) \subseteq ArrivalOrder(toPage, w)
      /\ Leads(h, In(toPage, v), In(t, v), ArrivalOrder(toPage, v), ArrivalOrder(t, v))
  BY <1>1, Arrived
<1>3. toPage' = t /\ h.windowId = v
  OBVIOUS
<1> HIDE DEF h, t
<1>4. v <= current
  BY <1>2, <1>3 DEF NotYet
<1>5. \A w \in WindowIds : /\ In(toPage', w) \subseteq In(toPage, w)
                           /\ w # v => In(toPage', w) = In(toPage, w)
                           /\ ArrivalOrder(toPage', w) \subseteq ArrivalOrder(toPage, w)
  BY <1>2, <1>3
<1> QED
  BY <1>2, <1>3, <1>4, <1>5 DEF h

LEMMA PageMessageIInv == IInv /\ PageMessage => IInv'
<1> SUFFICES ASSUME IInv, PageMessage PROVE IInv'
  OBVIOUS
<1>1. TypeInv /\ NotYet /\ \A w \in WindowIds : WindowInv(w)
  BY DEF IInv
<1> DEFINE h == Head(toPage)
<1>2. /\ toPage # <<>> /\ toPage' = Tail(toPage) /\ UNCHANGED <<frames, current>>
      /\ trs' = [w \in WindowIds |-> IF HeardBy(w, h) THEN _message(trs[w], h) ELSE trs[w]]
      /\ tasks' = Replies(h)
  BY DEF PageMessage
<1>3. h.windowId \in WindowIds
  <2>1. h \in FromFrame
    BY <1>1, <1>2, Arrived DEF TypeInv
  <2> QED
    BY <2>1 DEF FromFrame
<1>4. PICK v \in WindowIds : v = h.windowId
  BY <1>3
<1> DEFINE tr == trs[v]
           fr == frames[v]
           out == Out(fr.inbox, tasks, v)
           pairs == OutOrder(fr.inbox, tasks, v)
           in == In(toPage, v)
           order == ArrivalOrder(toPage, v)
           in2 == In(toPage', v)
           order2 == ArrivalOrder(toPage', v)
<1>5. /\ h \in FromFrame /\ h \in ToSet(toPage) /\ v <= current
      /\ toPage' \in Seq(FromFrame) /\ ToSet(toPage') \subseteq ToSet(toPage)
      /\ \A w \in WindowIds : /\ In(toPage', w) \subseteq In(toPage, w)
                              /\ w # v => In(toPage', w) = In(toPage, w)
                              /\ ArrivalOrder(toPage', w) \subseteq ArrivalOrder(toPage, w)
      /\ Leads(h, in, in2, order, order2)
  BY <1>1, <1>2, <1>4, MessageTaken
<1> HIDE DEF h
<1>6. /\ tr \in Transport /\ fr \in Frame /\ in \subseteq FromFrame /\ tasks \in Seq(Task)
      /\ Window(tr, fr, out, pairs, in, order)
  BY <1>1, WindowTypes DEF WindowInv, TypeInv
<1>7. tr.attached = tr.listens
  BY <1>6 DEF Window, Closing
<1>8. trs' = [trs EXCEPT ![v] = IF tr.attached THEN _message(tr, h) ELSE tr]
  BY <1>1, <1>2, <1>4 DEF HeardBy, TypeInv
<1>9. tasks' = IF tr.attached THEN tasks \o answers(v, h) ELSE tasks
  BY <1>2, <1>4, RepliesOfOne
<1>10. in2 \subseteq in /\ order2 \subseteq order
  BY <1>5
<1>11. /\ \A t \in ToSet(tasks) : t.msg.windowId <= current
       /\ \A m \in ToSet(toPage') : m.windowId <= current
  BY <1>1, <1>5 DEF NotYet
<1>12. CASE ~tr.attached
  <2>1. trs' = trs /\ tasks' = tasks
    BY <1>1, <1>8, <1>9, <1>12 DEF TypeInv
  <2>2. Window(tr, fr, out, pairs, in2, order2)
    BY <1>6, <1>7, <1>10, <1>12, WindowIgnored
  <2>3. WindowInv(v)'
    BY <1>2, <2>1, <2>2 DEF WindowInv
  <2>4. TypeInv'
    BY <1>1, <1>2, <1>5, <2>1 DEF TypeInv
  <2>5. \A w \in WindowIds : w # v => Elsewhere(w)
    BY <1>2, <1>5, <2>1 DEF Elsewhere
  <2> QED
    BY <1>2, <1>5, <1>11, <2>1, <2>3, <2>4, <2>5, OneWindow
<1>13. CASE tr.attached /\ (h.type = "c" \/ (h.type = "t" /\ IsClose(v, h.data)))
  <2> DEFINE tr2 == _message(tr, h)
  <2>1. tr2 \in {closed(tr), told(tr)} /\ answers(v, h) = closeTasks(v)
    BY <1>4, <1>13 DEF _message, answers
  <2> HIDE DEF tr2
  <2>2. trs' = [trs EXCEPT ![v] = tr2] /\ tasks' = tasks \o closeTasks(v)
    BY <1>8, <1>9, <1>13, <2>1 DEF tr2
  <2> QED
    BY <1>2, <1>5, <1>6, <1>11, <2>1, <2>2, ClosesIInv
<1>14. CASE tr.attached /\ h.type = "t" /\ ~IsClose(v, h.data)
  <2> DEFINE tr2 == _message(tr, h)
  <2>1. tr2 = [tr EXCEPT !.heard = Append(@, h.data)] /\ answers(v, h) = <<>>
    BY <1>4, <1>14 DEF _message, answers
  <2> HIDE DEF tr2
  <2>2. trs' = [trs EXCEPT ![v] = tr2] /\ tasks' = tasks
    BY <1>6, <1>8, <1>9, <1>14, <2>1, ConcatEmptySeq DEF tr2
  <2>3. ~(fr.over /\ h.data = fr.made + 1)
    BY <1>14 DEF IsClose
  <2>4. /\ tr \in Transport /\ fr \in Frame /\ Window(tr, fr, out, pairs, in, order)
        /\ tr.listens /\ in \subseteq FromFrame /\ h.type = "t"
        /\ ~(fr.over /\ h.data = fr.made + 1) /\ Leads(h, in, in2, order, order2)
        /\ tr2 = [tr EXCEPT !.heard = Append(@, h.data)]
    BY <1>5, <1>6, <1>7, <1>14, <2>1, <2>3
  <2>5. Window(tr2, fr, out, pairs, in2, order2) /\ tr2 \in Transport
    <3> HIDE DEF tr, fr, out, pairs, in, order, in2, order2
    <3> QED
      BY ONLY <2>4, WindowHears
  <2>6. WindowInv(v)'
    <3>1. trs'[v] = tr2 /\ frames'[v] = fr
      BY <1>1, <1>2, <2>2 DEF TypeInv
    <3> QED
      BY <2>2, <2>5, <3>1 DEF WindowInv
  <2>7. TypeInv'
    BY <1>1, <1>2, <1>5, <2>2, <2>5 DEF TypeInv
  <2>8. \A w \in WindowIds : w # v => Elsewhere(w)
    BY <1>1, <1>2, <1>5, <2>2 DEF Elsewhere, TypeInv
  <2> QED
    BY <1>2, <1>5, <1>11, <2>2, <2>6, <2>7, <2>8, OneWindow
<1>15. CASE tr.attached /\ h.type = "s"
  <2> DEFINE tr2 == loaded(tr)
             e == Post(v, "s", 0)
             m == Msg(v, "s", 0)
             x == <<e>>
             out2 == Out(fr.inbox, tasks', v)
             pairs2 == OutOrder(fr.inbox, tasks', v)
  <2>1. _message(tr, h) = tr2 /\ answers(v, h) = x
    BY <1>15 DEF _message, answers
  <2>2. e \in Task /\ e.msg = m /\ m.type = "s" /\ e.msg.windowId = v /\ \A w : IsPost(e, w) <=> w = v
    BY IframeAssumption DEF Post, Msg, Task, ToFrame, IsPost
  <2>3. /\ x \in Seq(Task) /\ ToSet(x) = {e}
        /\ \A w : PostsTo(x, w) = (IF w = v THEN {m} ELSE {}) /\ PostOrder(x, w) = {}
    BY <2>2, OneTask
  <2>4. trs' = [trs EXCEPT ![v] = tr2] /\ tasks' = tasks \o x
    BY <1>8, <1>9, <1>15, <2>1
  <2> HIDE DEF tr2, e, m, x
  <2>5. ASSUME NEW w \in WindowIds
        PROVE  /\ Out(frames[w].inbox, tasks', w) =
                    Out(frames[w].inbox, tasks, w) \cup (IF w = v THEN {m} ELSE {})
               /\ OutOrder(frames[w].inbox, tasks', w) \subseteq
                    OutOrder(frames[w].inbox, tasks, w)
                      \cup (IF w = v THEN Out(frames[w].inbox, tasks, w) \X {m} ELSE {})
    <3> DEFINE b == frames[w].inbox
    <3>1. /\ Out(b, tasks \o x, w) = Out(b, tasks, w) \cup PostsTo(x, w)
          /\ OutOrder(b, tasks \o x, w) \subseteq
               OutOrder(b, tasks, w) \cup PostOrder(x, w) \cup (Out(b, tasks, w) \X PostsTo(x, w))
      BY <1>6, <2>3, OutAdded
    <3> HIDE DEF b
    <3>2. /\ Out(b, tasks', w) = Out(b, tasks, w) \cup (IF w = v THEN {m} ELSE {})
          /\ OutOrder(b, tasks', w) \subseteq
               OutOrder(b, tasks, w) \cup (IF w = v THEN Out(b, tasks, w) \X {m} ELSE {})
      BY <2>3, <2>4, <3>1
    <3> QED
      BY <3>2 DEF b
  <2>6. out2 = out \cup {m} /\ pairs2 \subseteq pairs \cup (out \X {m})
    BY <2>5
  <2>7. /\ tr \in Transport /\ Window(tr, fr, out, pairs, in, order) /\ tr.listens
        /\ h.type = "s" /\ Leads(h, in, in2, order, order2) /\ m.type = "s"
        /\ out2 = out \cup {m} /\ pairs2 \subseteq pairs \cup (out \X {m}) /\ tr2 = loaded(tr)
    BY <1>5, <1>6, <1>7, <1>15, <2>2, <2>6 DEF tr2
  <2>8. Window(tr2, fr, out2, pairs2, in2, order2) /\ tr2 \in Transport
    <3> HIDE DEF tr, fr, out, pairs, in, order, in2, order2, out2, pairs2
    <3> QED
      BY ONLY <2>7, WindowLoaded
  <2>9. WindowInv(v)'
    <3>1. trs'[v] = tr2 /\ frames'[v] = fr
      BY <1>1, <1>2, <2>4 DEF TypeInv
    <3> QED
      BY <2>8, <3>1 DEF WindowInv
  <2>10. TypeInv'
    <3>1. tasks' \in Seq(Task)
      BY <1>6, <2>3, <2>4, PostsAdded
    <3> QED
      BY <1>1, <1>2, <1>5, <2>4, <2>8, <3>1 DEF TypeInv
  <2>11. \A w \in WindowIds : w # v => Elsewhere(w)
    BY <1>1, <1>2, <1>5, <2>4, <2>5 DEF Elsewhere, TypeInv
  <2>12. \A t \in ToSet(tasks') : t.msg.windowId <= current
    <3>1. ToSet(tasks') = ToSet(tasks) \cup {e}
      BY <1>6, <2>3, <2>4, OrderOfConcat
    <3> QED
      BY <1>5, <1>11, <2>2, <3>1
  <2> QED
    BY <1>2, <1>5, <1>11, <2>9, <2>10, <2>11, <2>12, OneWindow
<1>16. h.type \in {"s", "t", "c"}
  BY <1>5 DEF FromFrame
<1> QED
  BY <1>12, <1>13, <1>14, <1>15, <1>16

-----------------------------------------------------------------------------

\* The inductive invariant is inductive.
LEMMA NextIInv == IInv /\ [Next]_vars => IInv'
<1> SUFFICES ASSUME IInv, [Next]_vars PROVE IInv'
  OBVIOUS
<1>1. CASE UNCHANGED vars
  BY <1>1 DEF vars, IInv, TypeInv, NotYet, WindowInv
<1>2. CASE \E w \in WindowIds : InFrame(w)
  BY <1>2, LoadErrorIInv, OnloadIInv, BootstrapIInv, onMessageIInv, TalksIInv DEF InFrame
<1> QED
  BY <1>1, <1>2, NextTransportIInv, CloseIInv, sendIInv, RunTaskIInv, PageMessageIInv DEF Next

\* The inductive invariant always holds.
THEOREM Invariance == Spec => []IInv
BY InitIInv, NextIInv, PTL DEF Spec

\* Messages for the server find the transport in the iframe, and get there in order
\* (onMessage of FacadeJS after 's', 'm' and 'c' of IframeTransport).
THEOREM FacadeAlwaysThere == Spec => []FacadeThere
<1>1. IInv => FacadeThere
  <2> SUFFICES ASSUME IInv PROVE FacadeThere
    OBVIOUS
  <2>1. TypeInv /\ \A w \in WindowIds : WindowInv(w)
    BY DEF IInv
  <2>2. TypeOK
    BY <2>1 DEF TypeInv, TypeOK, Transport, Frame, ToFrame
  <2>3. ASSUME NEW w \in WindowIds
        PROVE  /\ ~frames[w].thrown
               /\ frames[w].got = [i \in 1 .. Len(frames[w].got) |-> i]
    BY <2>1 DEF WindowInv, Window, Sending, FirstNumbers
  <2> QED
    BY <2>2, <2>3 DEF FacadeThere
<1> QED
  BY <1>1, Invariance, PTL

\* The timers of createIframe end no transport that has been heard.
THEOREM AlwaysLoadedForGood == Spec => LoadedForGood
<1>1. IInv => \A w \in WindowIds : trs[w].heard # <<>> => trs[w].timer = "none"
  BY DEF IInv, WindowInv, Window, Loading, Settled
<1>2. IInv /\ [Next]_vars =>
        [\A w \in WindowIds :
           trs[w].heard # <<>> /\ trs'[w].listens = FALSE /\ trs[w].listens => trs[w].timer = "none"]_vars
  BY <1>1
<1> QED
  BY <1>2, Invariance, PTL DEF Spec, LoadedForGood

-----------------------------------------------------------------------------
(* Every transport is a channel *)

ChannelStep(w) == [Abstract(w)!Next]_(Abstract(w)!vars)

\* Nothing is made or heard; SockJS may let go of the transport.
LEMMA QuietStep ==
    ASSUME IInv, NEW w \in WindowIds, current' = current,
           frames'[w].made = frames[w].made, trs'[w].heard = trs[w].heard,
           trs'[w].listens \in {trs[w].listens, FALSE}
    PROVE  ChannelStep(w)
<1>1. TypeInv /\ WindowInv(w)
  BY DEF IInv
<1>2. trs[w] \in Transport /\ frames[w] \in Frame
  BY <1>1, WindowTypes
<1>3. CASE trs'[w].listens = trs[w].listens
  BY <1>3 DEF ChannelStep, Abstract!vars
<1>4. CASE trs[w].listens /\ trs'[w].listens = FALSE
  <2> DEFINE n == Len(trs[w].heard)
  <2>1. n \in Nat /\ frames[w].made \in Nat
    BY <1>2, LenProperties, IframeAssumption DEF Transport, Frame
  <2>2. n \in n .. frames[w].made /\ trs'[w].heard = FirstNumbers(n)
    BY <1>1, <2>1 DEF WindowInv, Window, Hearing
  <2>3. Abstract(w)!FirstFrames(n) = FirstNumbers(n)
    BY DEF Abstract!FirstFrames, FirstNumbers
  <2> HIDE DEF n
  <2>4. Abstract(w)!Hears
    BY <1>4, <2>2, <2>3 DEF Abstract!Hears, n
  <2> QED
    BY <2>4 DEF ChannelStep, Abstract!Next
<1> QED
  BY <1>2, <1>3, <1>4 DEF Transport

\* A frame is made, or heard.
LEMMA MakesStep ==
    ASSUME NEW w \in WindowIds, UNCHANGED <<trs, current>>,
           frames'[w].made = frames[w].made + 1
    PROVE  ChannelStep(w)
BY DEF ChannelStep, Abstract!Next, Abstract!Makes

LEMMA HearsStep ==
    ASSUME NEW w \in WindowIds, UNCHANGED <<frames, current>>,
           trs[w].listens, trs'[w].listens = trs[w].listens,
           NEW n \in Len(trs[w].heard) .. frames[w].made, trs'[w].heard = FirstNumbers(n)
    PROVE  ChannelStep(w)
<1>1. Abstract(w)!FirstFrames(n) = FirstNumbers(n)
  BY DEF Abstract!FirstFrames, FirstNumbers
<1>2. Abstract(w)!Hears
  BY <1>1 DEF Abstract!Hears
<1> QED
  BY <1>2 DEF ChannelStep, Abstract!Next

\* SockJS lets go of window v's transport.
LEMMA ClosesStep ==
    ASSUME IInv, NEW v \in WindowIds, NEW tr2 \in {closed(trs[v]), told(trs[v])},
           trs' = [trs EXCEPT ![v] = tr2], UNCHANGED <<frames, current>>, NEW w \in WindowIds
    PROVE  ChannelStep(w)
<1>1. TypeInv /\ WindowInv(v)
  BY DEF IInv
<1>2. trs[v] \in Transport /\ (trs[v].listens => trs[v].told = 0)
  BY <1>1, WindowTypes DEF WindowInv, Window, Closing
<1>3. tr2.heard = trs[v].heard /\ tr2.listens = FALSE
  BY <1>2, ClosedTransport
<1>4. trs'[w] = IF w = v THEN tr2 ELSE trs[w]
  BY <1>1 DEF TypeInv
<1> QED
  BY <1>3, <1>4, QuietStep

\* Only the iframe of window v changes, and makes no frame.
LEMMA SilentStep ==
    ASSUME IInv, NEW v \in WindowIds, NEW fr2, fr2.made = frames[v].made,
           frames' = [frames EXCEPT ![v] = fr2], UNCHANGED <<trs, current>>, NEW w \in WindowIds
    PROVE  ChannelStep(w)
<1>1. frames'[w] = IF w = v THEN fr2 ELSE frames[w]
  BY DEF IInv, TypeInv
<1> QED
  BY <1>1, QuietStep

\* Only a transport in the page changes, not in what it has heard.
LEMMA DeafStep ==
    ASSUME IInv, NEW v \in WindowIds, NEW tr2, tr2.heard = trs[v].heard,
           tr2.listens = trs[v].listens, trs' = [trs EXCEPT ![v] = tr2],
           \A u \in WindowIds : frames'[u].made = frames[u].made,
           UNCHANGED current, NEW w \in WindowIds
    PROVE  ChannelStep(w)
<1>1. trs'[w] = IF w = v THEN tr2 ELSE trs[w]
  BY DEF IInv, TypeInv
<1> QED
  BY <1>1, QuietStep

LEMMA NextTransportStep ==
    ASSUME IInv, NextTransport, NEW w \in WindowIds
    PROVE  ChannelStep(w)
<1>1. TypeInv /\ NotYet
  BY DEF IInv
<1> DEFINE v == current + 1
<1>2. /\ current \in WindowIds /\ v \in WindowIds /\ current' = v
      /\ w <= v <=> w <= current \/ w = v
      /\ ~(v <= current) /\ v > current
  BY <1>1, IframeAssumption DEF TypeInv, WindowIds, NextTransport
<1>3. trs' = [trs EXCEPT ![v] = NewTransport] /\ frames' = [frames EXCEPT ![v] = NewFrame]
  BY DEF NextTransport
<1> HIDE DEF v
<1>4. CASE w = v
  <2>1. trs[w] = NoTransport /\ frames[w] = NoFrame
    BY <1>1, <1>2, <1>4 DEF NotYet
  <2>2. trs'[w] = NewTransport /\ frames'[w] = NewFrame
    BY <1>1, <1>3, <1>4 DEF TypeInv
  <2>3. /\ frames'[w].made = frames[w].made /\ trs'[w].heard = trs[w].heard
        /\ ~(w <= current) /\ trs'[w].listens
    BY <1>2, <1>4, <2>1, <2>2, NewWindow
  <2> QED
    BY <2>3 DEF ChannelStep, Abstract!vars
<1>5. CASE w # v
  <2>1. trs'[w] = trs[w] /\ frames'[w] = frames[w]
    BY <1>1, <1>3, <1>5 DEF TypeInv
  <2>2. w <= current' <=> w <= current
    BY <1>2, <1>5
  <2> QED
    BY <2>1, <2>2 DEF ChannelStep, Abstract!vars
<1> QED
  BY <1>4, <1>5

LEMMA FrameSteps ==
    ASSUME IInv, NEW v \in WindowIds, InFrame(v), NEW w \in WindowIds
    PROVE  ChannelStep(w)
<1> DEFINE fr == frames[v]
<1>1. TypeInv
  BY DEF IInv
<1>2. fr \in Frame /\ trs[v] \in Transport
  BY <1>1, WindowTypes
<1>3. CASE LoadError(v)
  BY <1>3, ClosesStep DEF LoadError
<1>4. CASE Onload(v)
  <2>1. PICK tr2 : /\ trs' = [trs EXCEPT ![v] = tr2]
                   /\ tr2.heard = trs[v].heard /\ tr2.listens = trs[v].listens
    <3> DEFINE t2 == [trs[v] EXCEPT !.timer = IF trs[v].onload THEN "2s" ELSE @]
    <3>1. trs' = [trs EXCEPT ![v] = t2]
      BY <1>4 DEF Onload
    <3>2. t2.heard = trs[v].heard /\ t2.listens = trs[v].listens
      BY <1>2 DEF Transport
    <3> HIDE DEF t2
    <3> QED
      BY <3>1, <3>2
  <2>2. \A u \in WindowIds : frames'[u].made = frames[u].made
    BY <1>1, <1>2, <1>4 DEF Onload, TypeInv, Frame
  <2>3. current' = current
    BY <1>4 DEF Onload
  <2> QED
    BY <2>1, <2>2, <2>3, DeafStep
<1>5. CASE Bootstrap(v)
  <2> DEFINE fr2 == [fr EXCEPT !.phase = "running"]
  <2>1. fr2.made = fr.made
    BY <1>2 DEF Frame
  <2>2. frames' = [frames EXCEPT ![v] = fr2] /\ UNCHANGED <<trs, current>>
    BY <1>5 DEF Bootstrap
  <2> HIDE DEF fr2
  <2> QED
    BY <2>1, <2>2, SilentStep
<1>6. CASE onMessage(v)
  <2> DEFINE h == Head(fr.inbox)
             rest == [fr EXCEPT !.inbox = Tail(@)]
             fr2 == CASE h.type = "s" -> [rest EXCEPT !.facade = "there"]
                      [] h.type = "m" /\ rest.facade = "there" ->
                           [rest EXCEPT !.got = Append(@, h.data)]
                      [] h.type = "m" /\ rest.facade # "there" -> [rest EXCEPT !.thrown = TRUE]
                      [] h.type = "c" -> [rest EXCEPT !.facade = "null"]
  <2>1. frames' = [frames EXCEPT ![v] = fr2]
    BY <1>6, Zenon DEF onMessage
  <2>2. UNCHANGED <<trs, current>>
    BY <1>6 DEF onMessage
  <2>3. fr2.made = fr.made
    <3>1. h.type \in {"s", "m", "c"}
      <4>1. fr.inbox \in Seq(ToFrame) /\ fr.inbox # <<>>
        BY <1>1, <1>6, WindowTypes DEF onMessage
      <4>2. h \in ToFrame
        BY <4>1
      <4> QED
        BY <4>2 DEF ToFrame
    <3>2. /\ [rest EXCEPT !.facade = "there"].made = fr.made
          /\ [rest EXCEPT !.got = Append(@, h.data)].made = fr.made
          /\ [rest EXCEPT !.thrown = TRUE].made = fr.made
          /\ [rest EXCEPT !.facade = "null"].made = fr.made
      BY <1>2 DEF Frame
    <3> HIDE DEF h, rest
    <3> QED
      BY <3>1, <3>2
  <2> HIDE DEF fr2
  <2> QED
    BY <2>1, <2>2, <2>3, SilentStep
<1>7. CASE _transportMessage(v)
  <2>1. CASE frames' = [frames EXCEPT ![v].made = @ + 1]
    <3>1. frames'[w].made = IF w = v THEN frames[w].made + 1 ELSE frames[w].made
      BY <1>1, <1>2, <2>1 DEF TypeInv, Frame
    <3>2. UNCHANGED <<trs, current>>
      BY <1>7 DEF _transportMessage
    <3> QED
      BY <3>1, <3>2, MakesStep, QuietStep
  <2>2. CASE frames' = [frames EXCEPT ![v].over = TRUE]
    <3> DEFINE fr2 == [fr EXCEPT !.over = TRUE]
    <3>1. fr2.made = fr.made
      BY <1>2 DEF Frame
    <3>2. frames' = [frames EXCEPT ![v] = fr2] /\ UNCHANGED <<trs, current>>
      BY <1>7, <2>2 DEF _transportMessage
    <3> HIDE DEF fr2
    <3> QED
      BY <3>1, <3>2, SilentStep
  <2> QED
    BY <1>7, <2>1, <2>2 DEF _transportMessage
<1>8. CASE _transportClose(v)
  <2> DEFINE fr2 == [fr EXCEPT !.over = TRUE]
  <2>1. fr2.made = fr.made
    BY <1>2 DEF Frame
  <2>2. frames' = [frames EXCEPT ![v] = fr2] /\ UNCHANGED <<trs, current>>
    BY <1>8 DEF _transportClose
  <2> HIDE DEF fr2
  <2> QED
    BY <2>1, <2>2, SilentStep
<1> QED
  BY <1>3, <1>4, <1>5, <1>6, <1>7, <1>8 DEF InFrame

LEMMA RunTaskStep ==
    ASSUME IInv, RunTask, NEW w \in WindowIds
    PROVE  ChannelStep(w)
<1>1. TypeInv
  BY DEF IInv
<1>2. frames \in [WindowIds -> Frame]
  BY <1>1 DEF TypeInv
<1>3. frames'[w].made = frames[w].made
  BY <1>2 DEF RunTask, Frame
<1>4. UNCHANGED <<trs, current>>
  BY DEF RunTask
<1> QED
  BY <1>3, <1>4, QuietStep

\* What is heard is the next frame, for it is in front of all others.
LEMMA PageMessageStep ==
    ASSUME IInv, PageMessage, NEW w \in WindowIds
    PROVE  ChannelStep(w)
<1>1. TypeInv /\ NotYet /\ \A u \in WindowIds : WindowInv(u)
  BY DEF IInv
<1> DEFINE h == Head(toPage)
<1>2. /\ toPage # <<>> /\ toPage' = Tail(toPage) /\ UNCHANGED <<frames, current>>
      /\ trs' = [u \in WindowIds |-> IF HeardBy(u, h) THEN _message(trs[u], h) ELSE trs[u]]
  BY DEF PageMessage
<1>3. h \in FromFrame
  BY <1>1, <1>2, Arrived DEF TypeInv
<1>4. PICK v \in WindowIds : v = h.windowId
  BY <1>3 DEF FromFrame
<1> DEFINE tr == trs[v]
           fr == frames[v]
           out == Out(fr.inbox, tasks, v)
           pairs == OutOrder(fr.inbox, tasks, v)
           in == In(toPage, v)
           order == ArrivalOrder(toPage, v)
           in2 == In(toPage', v)
           order2 == ArrivalOrder(toPage', v)
<1>5. Leads(h, in, in2, order, order2)
  BY <1>1, <1>2, <1>4, MessageTaken
<1> HIDE DEF h
<1>6. /\ tr \in Transport /\ fr \in Frame /\ in \subseteq FromFrame
      /\ Window(tr, fr, out, pairs, in, order)
  BY <1>1, WindowTypes DEF WindowInv
<1>7. tr.attached = tr.listens
  BY <1>6 DEF Window, Closing
<1>8. trs' = [trs EXCEPT ![v] = IF tr.attached THEN _message(tr, h) ELSE tr]
  BY <1>1, <1>2, <1>4 DEF HeardBy, TypeInv
<1> DEFINE tr2 == IF tr.attached THEN _message(tr, h) ELSE tr
<1>9. CASE ~tr.attached
  <2>1. tr2.heard = tr.heard /\ tr2.listens = tr.listens
    BY <1>9
  <2> QED
    BY <1>2, <1>8, <2>1, DeafStep
<1>10. CASE tr.attached /\ (h.type = "c" \/ (h.type = "t" /\ IsClose(v, h.data)))
  <2>1. tr2 \in {closed(tr), told(tr)}
    BY <1>4, <1>10 DEF _message
  <2> HIDE DEF tr2
  <2>2. trs' = [trs EXCEPT ![v] = tr2]
    BY <1>8 DEF tr2
  <2> QED
    BY <1>2, <2>1, <2>2, ClosesStep
<1>11. CASE tr.attached /\ h.type = "t" /\ ~IsClose(v, h.data)
  <2>1. tr2 = [tr EXCEPT !.heard = Append(@, h.data)]
    BY <1>4, <1>11 DEF _message
  <2>2. trs' = [trs EXCEPT ![v] = tr2]
    BY <1>8
  <2> HIDE DEF tr2
  <2>3. ~(fr.over /\ h.data = fr.made + 1)
    BY <1>11 DEF IsClose
  <2>4. /\ tr \in Transport /\ fr \in Frame /\ Window(tr, fr, out, pairs, in, order)
        /\ tr.listens /\ in \subseteq FromFrame /\ h.type = "t"
        /\ ~(fr.over /\ h.data = fr.made + 1) /\ Leads(h, in, in2, order, order2)
        /\ tr2 = [tr EXCEPT !.heard = Append(@, h.data)]
    BY <1>5, <1>6, <1>7, <1>11, <2>1, <2>3
  <2>5. /\ Window(tr2, fr, out, pairs, in2, order2)
        /\ tr2 \in Transport /\ tr2.listens /\ NextHeard(tr, fr, tr2)
    <3> HIDE DEF tr, fr, out, pairs, in, order, in2, order2
    <3> QED
      BY ONLY <2>4, WindowHears
  <2>6. CASE w = v
    <3>1. trs'[w] = tr2
      BY <1>1, <2>2, <2>6 DEF TypeInv
    <3>2. tr2.listens = tr.listens
      BY <1>6, <2>4, <2>5 DEF Transport
    <3> QED
      BY <1>2, <2>4, <2>5, <2>6, <3>1, <3>2, HearsStep DEF NextHeard
  <2>7. CASE w # v
    <3>1. trs'[w] = trs[w]
      BY <1>1, <2>2, <2>7 DEF TypeInv
    <3> QED
      BY <1>2, <3>1, QuietStep
  <2> QED
    BY <2>6, <2>7
<1>12. CASE tr.attached /\ h.type = "s"
  <2>1. tr2 = loaded(tr)
    BY <1>12 DEF _message
  <2>2. tr2.heard = tr.heard /\ tr2.listens = tr.listens
    BY <1>6, <2>1 DEF loaded, unattach, Transport
  <2> HIDE DEF tr2
  <2>3. trs' = [trs EXCEPT ![v] = tr2]
    BY <1>8 DEF tr2
  <2> QED
    BY <1>2, <2>2, <2>3, DeafStep
<1>13. h.type \in {"s", "t", "c"}
  BY <1>3 DEF FromFrame
<1> QED
  BY <1>9, <1>10, <1>11, <1>12, <1>13

LEMMA NextChannel ==
    ASSUME IInv, [Next]_vars, NEW w \in WindowIds
    PROVE  ChannelStep(w)
<1>1. CASE UNCHANGED vars
  BY <1>1 DEF vars, ChannelStep, Abstract!vars
<1>2. CASE Close
  <2>1. current \in WindowIds
    BY DEF IInv, TypeInv
  <2>2. PICK v \in WindowIds : v = current
    BY <2>1
  <2>3. trs' = [trs EXCEPT ![v] = closed(trs[v])] /\ UNCHANGED <<frames, current>>
    BY <1>2, <2>2 DEF Close
  <2> QED
    BY <2>3, ClosesStep
<1>3. CASE send
  <2>1. current \in WindowIds
    BY DEF IInv, TypeInv
  <2>2. PICK v \in WindowIds : v = current
    BY <2>1
  <2> DEFINE tr2 == [trs[v] EXCEPT !.sent = @ + 1]
  <2>3. trs' = [trs EXCEPT ![v] = tr2] /\ UNCHANGED <<frames, current>>
    BY <1>3, <2>2 DEF send
  <2>4. trs[v] \in Transport
    BY WindowTypes DEF IInv
  <2>5. tr2.heard = trs[v].heard /\ tr2.listens = trs[v].listens
    BY <2>4 DEF Transport
  <2> HIDE DEF tr2
  <2> QED
    BY <2>3, <2>5, DeafStep
<1> QED
  BY <1>1, <1>2, <1>3, NextTransportStep, FrameSteps, RunTaskStep, PageMessageStep DEF Next

\* Each transport is a channel: of its iframe it hears every frame, once and in
\* order, until SockJS lets go of it, and nothing of the others' iframes.
THEOREM AlwaysAChannel == Spec => ImplementsChannel
<1>1. Init => \A w \in WindowIds : Abstract(w)!Init
  BY NewWindow, IframeAssumption DEF Init, Abstract!Init, WindowIds
<1>2. IInv /\ [Next]_vars =>
        [\A w \in WindowIds : [Abstract(w)!Next]_(Abstract(w)!vars)]_vars
  BY NextChannel DEF ChannelStep
<1> QED
  BY <1>1, <1>2, Invariance, PTL DEF Spec, ImplementsChannel
=============================================================================
