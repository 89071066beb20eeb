----------------------------- MODULE SockJSProofs -----------------------------
(***************************************************************************)
(* Safety of the connection object for every set of browsers and server    *)
(* infos and any number of attempts, timeouts and frames.  The methods of  *)
(* the object are functions from object to object, so what they preserve   *)
(* is stated of an object s, and the actions follow.                       *)
(***************************************************************************)
EXTENDS SockJS, SequenceLemmas

\* An object whose fields are as the methods expect them.  What kinds of
\* transports are left to try makes no difference here.
Fields(kinds, lists) ==
    [readyState : {"connecting", "open", "closing", "closed"},
     ir : {"scheduled", "asked", "null"}, pending : lists,
     attempts : Seq([kind : kinds, heard : BOOLEAN]),
     transport : Nat, timerId : Nat, timers : SUBSET Nat, loads : Nat,
     waited : BOOLEAN, closeTasks : Nat, frames : Nat, onclose : BOOLEAN,
     told : Nat, thrown : BOOLEAN]

Object(s) == \E kinds, lists : s \in Fields(kinds, lists)

\* The attempts that can still speak.
Heard(s) == {a \in DOMAIN s.attempts : s.attempts[a].heard}

\* The task of _close exists only after _close, and the handlers are there until
\* it has run.
PageInv(s) ==
    /\ s.readyState \in {"connecting", "open"} => s.closeTasks = 0
    /\ s.readyState # "closed" => s.told = 0 /\ s.onclose
    /\ s.readyState = "closed" => ~s.onclose

Base(s) ==
    /\ Object(s)
    /\ s.transport \in {0} \cup DOMAIN s.attempts
    /\ PageInv(s)
    /\ (s.thrown \/ s.loads > 0) => s.waited

\* No load listener has connected.
Alone(s) == ~s.waited \/ doc = "loading"

Ended(s) == s.readyState \in {"closing", "closed"}

\* Who can speak.
VoiceInv(s) ==
    /\ Alone(s) => Heard(s) \subseteq {s.transport}
    /\ s.transport # 0 => s.transport \in Heard(s)
    /\ s.readyState = "connecting" /\ s.transport = 0 => Heard(s) = {}
    /\ s.readyState = "open" => s.transport # 0
    /\ ~s.waited /\ Ended(s) => Heard(s) = {} /\ s.ir = "null"
    /\ s.ir # "null" => s.attempts = <<>> /\ s.loads = 0 /\ s.readyState = "connecting"

\* The inductive invariant.
IInv == Base(sock) /\ VoiceInv(sock)

\* What a method may do to the page's view of the object.
PageStep(s, t) ==
    /\ t.told = s.told
    /\ \/ t.readyState = s.readyState
       \/ s.readyState = "connecting" /\ t.readyState = "open"
       \/ s.readyState \in {"connecting", "open"} /\ t.readyState = "closing"

-----------------------------------------------------------------------------
(* The methods *)

\* Without its listeners an attempt is not heard; nothing else changes.
LEMMA Silenced ==
    ASSUME NEW s, Object(s), NEW a \in DOMAIN s.attempts,
           NEW t, t = [s EXCEPT !.attempts[a].heard = FALSE]
    PROVE  /\ Object(t)
           /\ DOMAIN t.attempts = DOMAIN s.attempts
           /\ Heard(t) = Heard(s) \ {a}
<1>1. PICK kinds, lists : s \in Fields(kinds, lists)
  BY DEF Object
<1> DEFINE A == [kind : kinds, heard : BOOLEAN]
           q == s.attempts
<1>2. q \in Seq(A) /\ t.attempts = [q EXCEPT ![a].heard = FALSE]
  BY <1>1 DEF Fields
<1>3. /\ DOMAIN q = 1 .. Len(q) /\ Len(q) \in Nat
      /\ \A b \in DOMAIN q : q[b] \in A
  <2> HIDE DEF A, q
  <2> QED
    BY <1>2, LenProperties, ElementOfSeq
<1>4. PICK e \in A : e = [q[a] EXCEPT !.heard = FALSE] /\ e.heard = FALSE
  <2> DEFINE b == q[a]
  <2>1. b \in A
    BY <1>3
  <2> HIDE DEF b
  <2>2. [b EXCEPT !.heard = FALSE] \in A /\ [b EXCEPT !.heard = FALSE].heard = FALSE
    BY <2>1
  <2> QED
    BY <2>2 DEF b
<1>5. t.attempts = [q EXCEPT ![a] = e]
  BY <1>2, <1>4
<1>6. a \in 1 .. Len(q)
  BY <1>3
<1>7. /\ t.attempts \in Seq(A)
      /\ Len(t.attempts) = Len(q)
      /\ \A j \in 1 .. Len(q) : t.attempts[j] = IF j = a THEN e ELSE q[j]
  <2> HIDE DEF A, q
  <2>1. /\ [q EXCEPT ![a] = e] \in Seq(A)
        /\ Len([q EXCEPT ![a] = e]) = Len(q)
        /\ \A j \in 1 .. Len(q) : [q EXCEPT ![a] = e][j] = IF j = a THEN e ELSE q[j]
    BY <1>2, <1>6, ExceptSeq
  <2> QED
    BY <1>5, <2>1
<1>8. DOMAIN t.attempts = DOMAIN q
  <2> HIDE DEF A, q
  <2> QED
    BY <1>3, <1>7, LenProperties
<1>9. t = [s EXCEPT !.attempts = t.attempts]
  BY <1>1 DEF Fields
<1>10. Object(t)
  BY <1>1, <1>7, <1>9 DEF Object, Fields
<1>11. Heard(t) = Heard(s) \ {a}
  BY <1>3, <1>4, <1>7, <1>8 DEF Heard
<1> QED
  BY <1>8, <1>10, <1>11

\* The fields that say nothing of transports.
Kept(s, t) ==
    /\ t.readyState = s.readyState /\ t.ir = s.ir /\ t.loads = s.loads
    /\ t.waited = s.waited /\ t.closeTasks = s.closeTasks /\ t.onclose = s.onclose
    /\ t.told = s.told /\ t.thrown = s.thrown

\* DropTransport leaves all but the transport.
LEMMA Dropped ==
    ASSUME NEW s, Base(s), NEW t, t = DropTransport(s)
    PROVE  /\ Base(t) /\ Kept(s, t)
           /\ t.transport = 0
           /\ Heard(t) = Heard(s) \ {s.transport}
<1>1. CASE s.transport = 0
  <2>1. 0 \notin DOMAIN s.attempts
    <3>1. PICK A : s.attempts \in Seq(A)
      BY DEF Base, Object, Fields
    <3>2. DOMAIN s.attempts = 1 .. Len(s.attempts) /\ Len(s.attempts) \in Nat
      BY <3>1, LenProperties
    <3> QED
      BY <3>2
  <2> QED
    BY <1>1, <2>1 DEF DropTransport, Kept, Heard
<1>2. CASE s.transport # 0
  <2> DEFINE r == [s EXCEPT !.attempts[s.transport].heard = FALSE]
  <2>1. s.transport \in DOMAIN s.attempts /\ Object(s)
    BY <1>2 DEF Base
  <2>2. /\ Object(r)
        /\ DOMAIN r.attempts = DOMAIN s.attempts
        /\ Heard(r) = Heard(s) \ {s.transport}
    BY <2>1, Silenced
  <2>3. Kept(s, r)
    BY <2>1 DEF Object, Fields, Kept
  <2>4. t = [r EXCEPT !.transport = 0]
    BY <1>2, <2>1 DEF DropTransport, Object, Fields
  <2> HIDE DEF r
  <2>5. Object(t) /\ t.attempts = r.attempts /\ t.transport = 0 /\ Kept(r, t)
    <3>1. PICK kinds, lists : r \in Fields(kinds, lists)
      BY <2>2 DEF Object
    <3>2. t \in Fields(kinds, lists)
      BY <2>4, <3>1 DEF Fields
    <3>3. t.attempts = r.attempts /\ t.transport = 0 /\ Kept(r, t)
      BY <2>4, <3>1 DEF Fields, Kept
    <3> QED
      BY <3>2, <3>3 DEF Object
  <2>6. Heard(t) = Heard(r)
    BY <2>5 DEF Heard
  <2>7. Kept(s, t)
    BY <2>3, <2>5 DEF Kept
  <2> QED
    BY <2>2, <2>5, <2>6, <2>7 DEF Base, PageInv, Kept
<1> QED
  BY <1>1, <1>2

\* Closing: nobody is heard after it who was not heard beside the transport.
LEMMA Closing ==
    ASSUME NEW s, Base(s),
           Alone(s) => Heard(s) \subseteq {s.transport},
           s.readyState = "closed" => s.waited
    PROVE  Base(_close(s)) /\ VoiceInv(_close(s)) /\ PageStep(s, _close(s))
<1> DEFINE d == DropTransport(s)
           q == [d EXCEPT !.ir = "null"]
           t == _close(s)
<1>1. /\ Base(d) /\ Kept(s, d) /\ d.transport = 0
      /\ Heard(d) = Heard(s) \ {s.transport}
  BY Dropped
<1>2. t = IF s.readyState = "closed" THEN [q EXCEPT !.thrown = TRUE]
          ELSE [q EXCEPT !.readyState = "closing", !.closeTasks = @ + 1]
  BY DEF _close
<1> HIDE DEF d, t
<1>3. /\ Object(t) /\ t.attempts = d.attempts /\ t.transport = 0 /\ t.ir = "null"
      /\ t.loads = d.loads /\ t.waited = d.waited /\ t.onclose = d.onclose
      /\ t.told = d.told
  <2>1. PICK kinds, lists : d \in Fields(kinds, lists)
    BY <1>1 DEF Base, Object
  <2>2. t \in Fields(kinds, lists)
    <3>1. q \in Fields(kinds, lists)
      BY <2>1 DEF Fields
    <3> HIDE DEF q
    <3>2. [q EXCEPT !.thrown = TRUE] \in Fields(kinds, lists)
      BY <3>1 DEF Fields
    <3>3. q.closeTasks + 1 \in Nat
      BY <3>1 DEF Fields
    <3>4. [q EXCEPT !.readyState = "closing", !.closeTasks = @ + 1] \in Fields(kinds, lists)
      BY <3>1, <3>3 DEF Fields
    <3> QED
      BY <1>2, <3>2, <3>4
  <2>3. /\ t.attempts = d.attempts /\ t.transport = d.transport /\ t.ir = "null"
        /\ t.loads = d.loads /\ t.waited = d.waited /\ t.onclose = d.onclose
        /\ t.told = d.told
    BY <1>2, <2>1 DEF Fields
  <2> QED
    BY <1>1, <2>2, <2>3 DEF Object
<1>4. CASE s.readyState = "closed"
  <2>1. t.readyState = "closed" /\ t.closeTasks = d.closeTasks
    BY <1>1, <1>2, <1>4 DEF Object, Fields, Base, Kept
  <2>2. Heard(t) = Heard(d)
    BY <1>3 DEF Heard
  <2>3. Base(t)
    BY <1>1, <1>3, <1>4, <2>1 DEF Base, PageInv, Kept
  <2>4. VoiceInv(t)
    BY <1>1, <1>3, <1>4, <2>1, <2>2 DEF VoiceInv, Kept, Alone, Ended
  <2> QED
    BY <1>1, <1>3, <1>4, <2>1, <2>3, <2>4 DEF PageStep, Kept, t
<1>5. CASE s.readyState # "closed"
  <2>1. t.readyState = "closing" /\ t.thrown = d.thrown
    BY <1>1, <1>2, <1>5 DEF Object, Fields, Base, Kept
  <2>2. Heard(t) = Heard(d)
    BY <1>3 DEF Heard
  <2>3. Base(t)
    BY <1>1, <1>3, <1>5, <2>1 DEF Base, PageInv, Kept
  <2>4. VoiceInv(t)
    BY <1>1, <1>3, <2>1, <2>2 DEF VoiceInv, Kept, Alone, Ended
  <2>5. s.readyState \in {"connecting", "open", "closing"}
    BY <1>5 DEF Base, Object, Fields
  <2> QED
    BY <1>1, <1>3, <2>1, <2>3, <2>4, <2>5 DEF PageStep, Kept, t
<1> QED
  BY <1>4, <1>5

\* A new attempt can be heard and is the one the object holds.
LEMMA Attempted ==
    ASSUME NEW s, Base(s), NEW k,
           NEW t, t = [s EXCEPT !.pending = Tail(@), !.transport = Len(s.attempts) + 1,
                                !.timerId = Len(s.attempts) + 1,
                                !.attempts = Append(@, [kind |-> k, heard |-> TRUE]),
                                !.timers = @ \cup {Len(s.attempts) + 1}]
    PROVE  /\ Base(t) /\ Kept(s, t)
           /\ t.transport # 0
           /\ Heard(t) = Heard(s) \cup {t.transport}
<1>1. PICK kinds, lists : s \in Fields(kinds, lists)
  BY DEF Base, Object
<1> DEFINE A == [kind : kinds \cup {k}, heard : BOOLEAN]
           q == s.attempts
           e == [kind |-> k, heard |-> TRUE]
           n == Len(q) + 1
<1>2. q \in Seq([kind : kinds, heard : BOOLEAN])
  BY <1>1 DEF Fields
<1>3. q \in Seq(A)
  <2>1. [kind : kinds, heard : BOOLEAN] \subseteq A
    OBVIOUS
  <2> QED
    BY <1>2, <2>1, SeqMonotonic
<1>4. e \in A /\ e.heard = TRUE
  OBVIOUS
<1>5. t.attempts = Append(q, e) /\ t.transport = n
  BY <1>1 DEF Fields
<1>6. /\ Len(q) \in Nat /\ DOMAIN q = 1 .. Len(q)
      /\ Append(q, e) \in Seq(A) /\ DOMAIN Append(q, e) = 1 .. n
      /\ \A i \in 1 .. Len(q) : Append(q, e)[i] = q[i]
      /\ Append(q, e)[n] = e
  <2> HIDE DEF A, q, e
  <2> QED
    BY <1>3, <1>4, AppendProperties, LenProperties
<1>7. t \in Fields(kinds \cup {k}, {t.pending})
  <2>1. /\ t = [s EXCEPT !.pending = t.pending, !.transport = n, !.timerId = n,
                         !.attempts = t.attempts, !.timers = t.timers]
        /\ t.timers = s.timers \cup {n}
    BY <1>1, <1>5 DEF Fields
  <2>2. n \in Nat /\ t.timers \in SUBSET Nat /\ t.attempts \in Seq(A)
    BY <1>1, <1>5, <1>6, <2>1 DEF Fields
  <2> HIDE DEF n
  <2> QED
    BY <1>1, <2>1, <2>2 DEF Fields
<1>8. Kept(s, t)
  BY <1>1 DEF Fields, Kept
<1>9. t.transport \in DOMAIN t.attempts /\ t.transport # 0
  BY <1>5, <1>6
<1>10. Heard(t) = Heard(s) \cup {t.transport}
  <2> HIDE DEF q, e
  <2>1. DOMAIN t.attempts = DOMAIN q \cup {n} /\ n \notin DOMAIN q
    BY <1>5, <1>6
  <2>2. \A i \in DOMAIN q : t.attempts[i] = q[i]
    BY <1>5, <1>6
  <2>3. t.attempts[n].heard
    BY <1>4, <1>5, <1>6
  <2> QED
    BY <1>5, <2>1, <2>2, <2>3 DEF Heard, q
<1>11. Base(t)
  BY <1>7, <1>8, <1>9 DEF Base, Object, PageInv, Kept
<1> QED
  BY <1>8, <1>9, <1>10, <1>11

\* Trying the next transport, when the last one is gone.
LEMMA Connecting ==
    ASSUME NEW s, Base(s), s.ir = "null",
           Alone(s) => Heard(s) = {} /\ s.transport = 0 /\ s.readyState = "connecting"
    PROVE  Base(_connect(s)) /\ VoiceInv(_connect(s)) /\ PageStep(s, _connect(s))
<1> DEFINE t == _connect(s)
<1>1. CASE s.pending = <<>>
  <2>1. t = _close(s)
    BY <1>1 DEF _connect
  <2>2. Alone(s) => Heard(s) \subseteq {s.transport}
    OBVIOUS
  <2>3. s.readyState = "closed" => s.waited
    BY DEF Alone
  <2> QED
    BY <2>1, <2>2, <2>3, Closing
<1>2. CASE s.pending # <<>> /\ needBody(Head(s.pending)) /\ doc = "loading"
  <2>1. t = [s EXCEPT !.loads = @ + 1, !.waited = TRUE]
    BY <1>2 DEF _connect
  <2>2. PICK kinds, lists : s \in Fields(kinds, lists)
    BY DEF Base, Object
  <2>3. t \in Fields(kinds, lists)
    <3>1. s.loads + 1 \in Nat
      BY <2>2 DEF Fields
    <3> QED
      BY <2>1, <2>2, <3>1 DEF Fields
  <2>4. /\ t.readyState = s.readyState /\ t.attempts = s.attempts /\ t.ir = "null"
        /\ t.transport = s.transport /\ t.waited /\ t.closeTasks = s.closeTasks
        /\ t.onclose = s.onclose /\ t.told = s.told
    BY <2>1, <2>2 DEF Fields
  <2>5. Base(t)
    BY <2>3, <2>4 DEF Base, Object, PageInv
  <2>6. Heard(t) = {} /\ t.transport = 0 /\ t.readyState = "connecting"
    BY <1>2, <2>4 DEF Alone, Heard
  <2>7. VoiceInv(t)
    BY <2>4, <2>6 DEF VoiceInv, Ended
  <2> QED
    BY <2>4, <2>5, <2>7 DEF PageStep
<1>3. CASE s.pending # <<>> /\ ~(needBody(Head(s.pending)) /\ doc = "loading")
  <2>1. t = [s EXCEPT !.pending = Tail(@), !.transport = Len(s.attempts) + 1,
                      !.timerId = Len(s.attempts) + 1,
                      !.attempts = Append(@, [kind |-> Head(s.pending), heard |-> TRUE]),
                      !.timers = @ \cup {Len(s.attempts) + 1}]
    <3>1. PICK kinds, lists : s \in Fields(kinds, lists)
      BY DEF Base, Object
    <3> QED
      BY <1>3, <3>1 DEF _connect, Fields
  <2> HIDE DEF t
  <2>2. /\ Base(t) /\ Kept(s, t)
        /\ t.transport # 0
        /\ Heard(t) = Heard(s) \cup {t.transport}
    BY <2>1, Attempted
  <2>3. VoiceInv(t)
    BY <2>2 DEF VoiceInv, Kept, Alone, Ended
  <2> QED
    BY <2>2, <2>3 DEF PageStep, Kept, t
<1> QED
  BY <1>1, <1>2, <1>3

\* The end of a transport, heard of or decided by the timeout.
LEMMA Ending ==
    ASSUME NEW s, Base(s), s.ir = "null", NEW code,
           Alone(s) => Heard(s) \subseteq {s.transport},
           s.readyState = "closed" => s.waited
    PROVE  /\ Base(_transportClose(s, code)) /\ VoiceInv(_transportClose(s, code))
           /\ PageStep(s, _transportClose(s, code))
<1> DEFINE d == DropTransport(s)
           t == _transportClose(s, code)
<1>1. /\ Base(d) /\ Kept(s, d) /\ d.transport = 0
      /\ Heard(d) = Heard(s) \ {s.transport}
  BY Dropped
<1>2. t = IF code = "abnormal" /\ s.readyState = "connecting" THEN _connect(d) ELSE _close(d)
  BY DEF _transportClose
<1>3. Alone(d) => Heard(d) = {}
  BY <1>1 DEF Kept, Alone
<1> HIDE DEF d, t
<1>4. Base(t) /\ VoiceInv(t) /\ PageStep(d, t)
  <2>1. CASE code = "abnormal" /\ s.readyState = "connecting"
    <3>1. d.ir = "null" /\ d.readyState = "connecting"
      BY <1>1, <2>1 DEF Kept
    <3> QED
      BY <1>1, <1>2, <1>3, <2>1, <3>1, Connecting
  <2>2. CASE ~(code = "abnormal" /\ s.readyState = "connecting")
    <3>1. d.readyState = "closed" => d.waited
      BY <1>1 DEF Kept
    <3> QED
      BY <1>1, <1>2, <1>3, <2>2, <3>1, Closing
  <2> QED
    BY <2>1, <2>2
<1>5. PageStep(s, t)
  BY <1>1, <1>4 DEF PageStep, Kept
<1> QED
  BY <1>4, <1>5 DEF t

\* A connection opens with the transport it holds.
LEMMA Opening ==
    ASSUME NEW s, Base(s), VoiceInv(s), Heard(s) # {}
    PROVE  Base(_open(s)) /\ VoiceInv(_open(s)) /\ PageStep(s, _open(s))
<1> DEFINE t == _open(s)
<1>1. CASE s.readyState = "connecting"
  <2>1. t = [s EXCEPT !.timers = @ \ {s.timerId}, !.readyState = "open"]
    BY <1>1 DEF _open
  <2>2. PICK kinds, lists : s \in Fields(kinds, lists)
    BY DEF Base, Object
  <2>3. t \in Fields(kinds, lists)
    BY <2>1, <2>2 DEF Fields
  <2>4. /\ t.readyState = "open" /\ t.attempts = s.attempts /\ t.ir = s.ir
        /\ t.transport = s.transport /\ t.waited = s.waited /\ t.closeTasks = s.closeTasks
        /\ t.onclose = s.onclose /\ t.told = s.told /\ t.loads = s.loads
        /\ t.thrown = s.thrown
    BY <2>1, <2>2 DEF Fields
  <2>5. Base(t)
    BY <1>1, <2>3, <2>4 DEF Base, Object, PageInv
  <2>6. Heard(t) = Heard(s) /\ s.transport # 0 /\ s.attempts # <<>>
    BY <1>1, <2>4 DEF VoiceInv, Heard
  <2>7. VoiceInv(t)
    BY <1>1, <2>4, <2>6 DEF VoiceInv, Alone, Ended
  <2> QED
    BY <1>1, <2>4, <2>5, <2>7 DEF PageStep
<1>2. CASE s.readyState # "connecting"
  <2>1. t = _close(s)
    BY <1>2 DEF _open
  <2>2. /\ Alone(s) => Heard(s) \subseteq {s.transport}
        /\ s.readyState = "closed" => s.waited
    BY DEF VoiceInv, Ended
  <2> QED
    BY <2>1, <2>2, Closing
<1> QED
  BY <1>1, <1>2

-----------------------------------------------------------------------------
(* The tasks *)

\* What a task may show the page: a step of a method, or the close event.
Shown ==
    \/ PageStep(sock, sock')
    \/ /\ sock.readyState = "closing" /\ sock'.readyState = "closed"
       /\ sock'.told = sock.told + 1

\* Fields that no clause but the object's shape speaks of may change.
LEMMA Elsewhere ==
    ASSUME NEW s, Base(s), NEW t, Object(t),
           t.readyState = s.readyState, t.attempts = s.attempts,
           t.transport = s.transport, t.waited = s.waited,
           t.closeTasks = s.closeTasks, t.onclose = s.onclose, t.told = s.told,
           t.thrown = s.thrown, t.loads > 0 => s.waited
    PROVE  Base(t) /\ Heard(t) = Heard(s) /\ PageStep(s, t)
BY DEF Base, PageInv, Heard, PageStep

\* A new object has no transport and nothing to close.
LEMMA InitInv == Init => IInv
<1> SUFFICES ASSUME Init PROVE IInv
  OBVIOUS
<1>1. sock = NewSockJS
  BY DEF Init
<1>2. sock \in Fields({}, {<<>>})
  <2>1. <<>> \in Seq([kind : {}, heard : BOOLEAN])
    BY EmptySeq
  <2> QED
    BY <1>1, <2>1 DEF NewSockJS, Fields
<1>3. Base(sock)
  BY <1>1, <1>2 DEF Base, Object, PageInv, NewSockJS
<1>4. Heard(sock) = {}
  BY <1>1 DEF Heard, NewSockJS
<1>5. VoiceInv(sock)
  BY <1>1, <1>4 DEF VoiceInv, NewSockJS, Ended
<1> QED
  BY <1>3, <1>5 DEF IInv

\* While the info request is under way there is no transport.
LEMMA Asking ==
    ASSUME IInv, sock.ir # "null"
    PROVE  /\ sock.attempts = <<>> /\ sock.transport = 0 /\ sock.loads = 0
           /\ sock.readyState = "connecting" /\ Heard(sock) = {}
BY DEF IInv, Base, VoiceInv, Heard

\* The request is made.
LEMMA doXhrInv == IInv /\ doXhr => IInv' /\ Shown
<1> SUFFICES ASSUME IInv, doXhr PROVE IInv' /\ Shown
  OBVIOUS
<1> USE DEF doXhr
<1>1. PICK kinds, lists : sock \in Fields(kinds, lists)
  BY DEF IInv, Base, Object
<1>2. sock' \in Fields(kinds, lists)
  BY <1>1 DEF Fields
<1>3. /\ sock'.readyState = sock.readyState /\ sock'.attempts = sock.attempts
      /\ sock'.transport = sock.transport /\ sock'.waited = sock.waited
      /\ sock'.closeTasks = sock.closeTasks /\ sock'.onclose = sock.onclose
      /\ sock'.told = sock.told /\ sock'.thrown = sock.thrown
      /\ sock'.loads = sock.loads
  BY <1>1 DEF Fields
<1>4. Base(sock') /\ Heard(sock') = Heard(sock) /\ PageStep(sock, sock')
  BY <1>2, <1>3, Elsewhere DEF Object, IInv, Base
<1>5. sock.ir # "null"
  OBVIOUS
<1>6. VoiceInv(sock)'
  BY <1>3, <1>4, <1>5, Asking DEF VoiceInv, Alone, Ended
<1> QED
  BY <1>4, <1>6 DEF IInv, Shown

\* Info or none: the first transport is tried, or none.
LEMMA InfoInv == IInv /\ (InfoReceived \/ InfoFailed) => IInv' /\ Shown
<1> SUFFICES ASSUME IInv, InfoReceived \/ InfoFailed PROVE IInv' /\ Shown
  OBVIOUS
<1>1. sock.ir # "null" /\ UNCHANGED doc
  BY DEF InfoReceived, InfoFailed
<1>2. PICK kinds, lists : sock \in Fields(kinds, lists)
  BY DEF IInv, Base, Object
<1>3. ASSUME NEW s, NEW list,
             s = [sock EXCEPT !.ir = "null", !.pending = list]
      PROVE  Base(s) /\ PageStep(sock, s) /\ s.ir = "null" /\ s.readyState = "connecting"
             /\ Heard(s) = {} /\ s.transport = 0
  <2>1. s \in Fields(kinds, {list})
    BY <1>2, <1>3 DEF Fields
  <2>2. /\ s.readyState = sock.readyState /\ s.attempts = sock.attempts
        /\ s.transport = sock.transport /\ s.waited = sock.waited
        /\ s.closeTasks = sock.closeTasks /\ s.onclose = sock.onclose
        /\ s.told = sock.told /\ s.thrown = sock.thrown
        /\ s.loads = sock.loads /\ s.ir = "null"
    BY <1>2, <1>3 DEF Fields
  <2>3. Base(s) /\ Heard(s) = Heard(sock) /\ PageStep(sock, s)
    BY <2>1, <2>2, Elsewhere DEF Object, IInv, Base
  <2> QED
    BY <1>1, <2>2, <2>3, Asking
<1>4. CASE InfoReceived
  <2>1. PICK info : sock' = _connect([sock EXCEPT !.ir = "null", !.pending = filterToEnabled(info)])
    BY <1>4 DEF InfoReceived
  <2>2. PICK s : s = [sock EXCEPT !.ir = "null", !.pending = filterToEnabled(info)]
    OBVIOUS
  <2>3. Base(s) /\ PageStep(sock, s) /\ s.ir = "null" /\ s.readyState = "connecting"
        /\ Heard(s) = {} /\ s.transport = 0
    BY <1>3, <2>2
  <2>4. sock' = _connect(s)
    BY <2>1, <2>2
  <2>5. Base(sock') /\ VoiceInv(sock') /\ PageStep(s, sock')
    BY <2>3, <2>4, Connecting
  <2> QED
    BY <1>1, <2>3, <2>5 DEF IInv, Shown, PageStep, VoiceInv, Alone, Ended, Heard
<1>5. CASE InfoFailed
  <2>1. PICK s : s = [sock EXCEPT !.ir = "null", !.pending = sock.pending]
    OBVIOUS
  <2>2. s = [sock EXCEPT !.ir = "null"]
    BY <1>2, <2>1 DEF Fields
  <2>3. Base(s) /\ PageStep(sock, s) /\ s.ir = "null" /\ s.readyState = "connecting"
        /\ Heard(s) = {} /\ s.transport = 0
    BY <1>3, <2>1
  <2>4. sock' = _close(s)
    BY <1>5, <2>2 DEF InfoFailed
  <2>5. Base(sock') /\ VoiceInv(sock') /\ PageStep(s, sock')
    BY <2>3, <2>4, Closing
  <2> QED
    BY <1>1, <2>3, <2>5 DEF IInv, Shown, PageStep, VoiceInv, Alone, Ended, Heard
<1> QED
  BY <1>4, <1>5

\* While a transport is there, the info request is over.
LEMMA Answered ==
    ASSUME IInv, NEW a \in DOMAIN sock.attempts
    PROVE  sock.ir = "null"
BY DEF IInv, VoiceInv

\* Counting what is heard changes nothing else.
LEMMA Counting ==
    ASSUME IInv, NEW s, s = Counted(sock)
    PROVE  /\ Base(s) /\ VoiceInv(s) /\ PageStep(sock, s) /\ Kept(sock, s)
           /\ s.attempts = sock.attempts /\ s.transport = sock.transport
<1>1. PICK kinds, lists : sock \in Fields(kinds, lists)
  BY DEF IInv, Base, Object
<1>2. s \in Fields(kinds, lists)
  <2>1. sock.frames + 1 \in Nat
    BY <1>1 DEF Fields
  <2> QED
    BY <1>1, <2>1 DEF Fields, Counted
<1>3. /\ Kept(sock, s)
      /\ s.attempts = sock.attempts /\ s.transport = sock.transport
  BY <1>1 DEF Fields, Kept, Counted
<1>4. Base(s) /\ Heard(s) = Heard(sock) /\ PageStep(sock, s)
  BY <1>2, <1>3, Elsewhere DEF Object, IInv, Base, Kept
<1>5. VoiceInv(s)
  BY <1>3, <1>4 DEF IInv, VoiceInv, Alone, Ended, Kept
<1> QED
  BY <1>3, <1>4, <1>5

\* Frames of a transport.
LEMMA FrameInv ==
    ASSUME IInv, NEW a \in DOMAIN sock.attempts, OpenFrame(a) \/ CloseFrame(a)
    PROVE  IInv' /\ Shown
<1>1. PICK s : s = Counted(sock)
  OBVIOUS
<1>2. /\ Base(s) /\ VoiceInv(s) /\ PageStep(sock, s) /\ Kept(sock, s)
      /\ s.attempts = sock.attempts /\ s.transport = sock.transport
  BY <1>1, Counting
<1>3. Heard(s) # {} /\ UNCHANGED doc
  BY <1>2 DEF OpenFrame, CloseFrame, Hears, Heard
<1>4. Base(sock') /\ VoiceInv(sock') /\ PageStep(s, sock')
  <2>1. CASE OpenFrame(a)
    <3>1. sock' = _open(s)
      BY <1>1, <2>1 DEF OpenFrame
    <3> QED
      BY <1>2, <1>3, <3>1, Opening
  <2>2. CASE CloseFrame(a)
    <3>1. sock' = _close(s)
      BY <1>1, <2>2 DEF CloseFrame
    <3>2. /\ Alone(s) => Heard(s) \subseteq {s.transport}
          /\ s.readyState = "closed" => s.waited
      BY <1>2, <1>3 DEF VoiceInv, Ended
    <3> QED
      BY <1>2, <3>1, <3>2, Closing
  <2> QED
    BY <2>1, <2>2
<1> QED
  BY <1>2, <1>3, <1>4 DEF IInv, Shown, PageStep, VoiceInv, Alone, Ended, Heard

\* The close event of a transport.
LEMMA TransportClosedInv ==
    ASSUME IInv, NEW a \in DOMAIN sock.attempts, TransportClosed(a)
    PROVE  IInv' /\ Shown
<1>1. PICK s : s = Counted(sock)
  OBVIOUS
<1>2. /\ Base(s) /\ VoiceInv(s) /\ PageStep(sock, s) /\ Kept(sock, s)
      /\ s.attempts = sock.attempts /\ s.transport = sock.transport
  BY <1>1, Counting
<1>3. PICK r : r = [s EXCEPT !.attempts[a].heard = FALSE]
  OBVIOUS
<1>4. PICK code : sock' = _transportClose(r, code)
  BY <1>1, <1>3 DEF TransportClosed
<1>5. /\ Object(r) /\ DOMAIN r.attempts = DOMAIN s.attempts
      /\ Heard(r) = Heard(s) \ {a}
  BY <1>2, <1>3, Silenced DEF Base
<1>6. Kept(s, r) /\ r.transport = s.transport
  <2>1. PICK kinds, lists : s \in Fields(kinds, lists)
    BY <1>2 DEF Base, Object
  <2> QED
    BY <1>3, <2>1 DEF Fields, Kept
<1>7. Base(r) /\ PageStep(s, r)
  BY <1>2, <1>5, <1>6 DEF Base, PageInv, Kept, PageStep
<1>8. a \in Heard(s) /\ UNCHANGED doc
  BY <1>2 DEF TransportClosed, Hears, Heard
<1>9. r.ir = "null"
  BY <1>2, <1>6, Answered DEF Kept
<1>10. /\ Alone(r) => Heard(r) \subseteq {r.transport}
       /\ r.readyState = "closed" => r.waited
  BY <1>2, <1>5, <1>6, <1>8 DEF VoiceInv, Alone, Ended, Kept
<1>11. Base(sock') /\ VoiceInv(sock') /\ PageStep(r, sock')
  BY <1>4, <1>7, <1>9, <1>10, Ending
<1>12. PageStep(sock, sock')
  BY <1>2, <1>6, <1>11 DEF PageStep, Kept
<1> QED
  BY <1>8, <1>11, <1>12 DEF IInv, Shown, VoiceInv, Alone, Ended, Heard

\* The timeout of an attempt, whoever's turn it is.
LEMMA TransportTimeoutInv ==
    ASSUME IInv, NEW a \in DOMAIN sock.attempts, TransportTimeout(a)
    PROVE  IInv' /\ Shown
<1>1. PICK s : s = [sock EXCEPT !.timers = @ \ {a}]
  OBVIOUS
<1>2. PICK kinds, lists : sock \in Fields(kinds, lists)
  BY DEF IInv, Base, Object
<1>3. s \in Fields(kinds, lists)
  BY <1>1, <1>2 DEF Fields
<1>4. /\ Kept(sock, s)
      /\ s.attempts = sock.attempts /\ s.transport = sock.transport
  BY <1>1, <1>2 DEF Fields, Kept
<1>5. Base(s) /\ Heard(s) = Heard(sock) /\ PageStep(sock, s)
  BY <1>3, <1>4, Elsewhere DEF Object, IInv, Base, Kept
<1>6. VoiceInv(s)
  BY <1>4, <1>5 DEF IInv, VoiceInv, Alone, Ended, Kept
<1>7. UNCHANGED doc
  BY DEF TransportTimeout
<1>8. Base(sock') /\ VoiceInv(sock') /\ PageStep(s, sock')
  <2>1. CASE sock.readyState = "connecting"
    <3>1. PICK d : d = DropTransport(s)
      OBVIOUS
    <3>2. sock' = _transportClose(d, "abnormal")
      BY <1>1, <2>1, <3>1 DEF TransportTimeout
    <3>3. /\ Base(d) /\ Kept(s, d) /\ d.transport = 0
          /\ Heard(d) = Heard(s) \ {s.transport}
      BY <1>5, <3>1, Dropped
    <3>4. d.ir = "null" /\ d.readyState = "connecting"
      BY <1>4, <2>1, <3>3, Answered DEF Kept
    <3>5. Alone(d) => Heard(d) \subseteq {d.transport}
      BY <1>6, <3>3 DEF VoiceInv, Alone, Kept
    <3>6. Base(sock') /\ VoiceInv(sock') /\ PageStep(d, sock')
      BY <3>2, <3>3, <3>4, <3>5, Ending
    <3> QED
      BY <3>3, <3>6 DEF PageStep, Kept
  <2>2. CASE sock.readyState # "connecting"
    <3>1. sock' = s
      BY <1>1, <2>2 DEF TransportTimeout
    <3> QED
      BY <1>5, <1>6, <3>1 DEF PageStep
  <2> QED
    BY <2>1, <2>2
<1>9. PageStep(sock, sock')
  BY <1>4, <1>8 DEF PageStep, Kept
<1> QED
  BY <1>7, <1>8, <1>9 DEF IInv, Shown, VoiceInv, Alone, Ended, Heard

\* The page closes the connection.
LEMMA CloseInv == IInv /\ Close => IInv' /\ Shown
<1> SUFFICES ASSUME IInv, Close PROVE IInv' /\ Shown
  OBVIOUS
<1>1. sock' = _close(sock) /\ UNCHANGED doc /\ sock.readyState # "closed"
  BY DEF Close
<1>2. Alone(sock) => Heard(sock) \subseteq {sock.transport}
  BY DEF IInv, VoiceInv
<1>3. Base(sock') /\ VoiceInv(sock') /\ PageStep(sock, sock')
  BY <1>1, <1>2, Closing DEF IInv
<1> QED
  BY <1>1, <1>3 DEF IInv, Shown, VoiceInv, Alone, Ended, Heard

\* The close event is dispatched by the first task only.
LEMMA CloseEventInv == IInv /\ CloseEvent => IInv' /\ Shown
<1> SUFFICES ASSUME IInv, CloseEvent PROVE IInv' /\ Shown
  OBVIOUS
<1>1. PICK kinds, lists : sock \in Fields(kinds, lists)
  BY DEF IInv, Base, Object
<1>2. sock.closeTasks > 0 /\ Ended(sock)
  BY <1>1 DEF CloseEvent, IInv, Base, PageInv, Ended, Fields
<1>3. sock.closeTasks - 1 \in Nat /\ sock.told + (IF sock.onclose THEN 1 ELSE 0) \in Nat
  BY <1>1, <1>2 DEF Fields
<1>4. sock' \in Fields(kinds, lists)
  BY <1>1, <1>3 DEF Fields, CloseEvent
<1>5. /\ sock'.readyState = "closed" /\ sock'.attempts = sock.attempts
      /\ sock'.transport = sock.transport /\ sock'.waited = sock.waited
      /\ ~sock'.onclose /\ sock'.loads = sock.loads /\ sock'.ir = sock.ir
      /\ sock'.told = sock.told + (IF sock.onclose THEN 1 ELSE 0)
      /\ sock'.thrown = sock.thrown
  BY <1>1 DEF Fields, CloseEvent
<1>6. Base(sock') /\ Heard(sock') = Heard(sock)
  BY <1>4, <1>5 DEF Base, Object, PageInv, Heard, IInv
<1>7. UNCHANGED doc
  BY DEF CloseEvent
<1>8. VoiceInv(sock)'
  BY <1>2, <1>5, <1>6, <1>7 DEF IInv, VoiceInv, Alone, Ended
<1>9. Shown
  <2>1. CASE sock.readyState = "closing"
    BY <1>5, <2>1 DEF Shown, IInv, Base, PageInv
  <2>2. CASE sock.readyState = "closed"
    <3>1. sock'.told = sock.told
      BY <1>1, <1>5, <2>2 DEF Fields, IInv, Base, PageInv
    <3> QED
      BY <1>5, <2>2, <3>1 DEF Shown, PageStep
  <2> QED
    BY <1>2, <2>1, <2>2 DEF Ended
<1> QED
  BY <1>6, <1>8, <1>9 DEF IInv

\* A load listener connects whatever the object is at.
LEMMA LoadListenerInv == IInv /\ LoadListener => IInv' /\ Shown
<1> SUFFICES ASSUME IInv, LoadListener PROVE IInv' /\ Shown
  OBVIOUS
<1>1. PICK kinds, lists : sock \in Fields(kinds, lists)
  BY DEF IInv, Base, Object
<1>2. PICK s : s = [sock EXCEPT !.loads = @ - 1]
  OBVIOUS
<1>3. doc = "complete" /\ sock.loads > 0 /\ UNCHANGED doc /\ sock' = _connect(s)
  BY <1>2 DEF LoadListener
<1>4. sock.waited /\ sock.ir = "null"
  BY <1>1, <1>3 DEF IInv, Base, VoiceInv, Fields
<1>5. s \in Fields(kinds, lists)
  <2>1. sock.loads - 1 \in Nat
    BY <1>1, <1>3 DEF Fields
  <2> QED
    BY <1>1, <1>2, <2>1 DEF Fields
<1>6. /\ s.readyState = sock.readyState /\ s.attempts = sock.attempts
      /\ s.transport = sock.transport /\ s.waited = sock.waited
      /\ s.closeTasks = sock.closeTasks /\ s.onclose = sock.onclose
      /\ s.told = sock.told /\ s.thrown = sock.thrown
      /\ s.ir = sock.ir
  BY <1>1, <1>2 DEF Fields
<1>7. Base(s) /\ PageStep(sock, s)
  BY <1>4, <1>5, <1>6, Elsewhere DEF Object, IInv, Base
<1>8. s.ir = "null" /\ ~Alone(s)
  BY <1>3, <1>4, <1>6 DEF Alone
<1>9. Base(sock') /\ VoiceInv(sock') /\ PageStep(s, sock')
  BY <1>3, <1>7, <1>8, Connecting
<1>10. PageStep(sock, sock')
  BY <1>6, <1>9 DEF PageStep
<1> QED
  BY <1>3, <1>9, <1>10 DEF IInv, Shown, VoiceInv, Alone, Ended, Heard

\* The document only gets further.
LEMMA DocumentInv == IInv /\ DocumentProceeds => IInv' /\ Shown
<1> SUFFICES ASSUME IInv, DocumentProceeds PROVE IInv' /\ Shown
  OBVIOUS
<1>1. sock' = sock /\ (doc' = "loading" => doc = "loading")
  BY DEF DocumentProceeds
<1>2. PageStep(sock, sock')
  BY <1>1 DEF PageStep
<1> QED
  BY <1>1, <1>2 DEF IInv, Shown, VoiceInv, Alone, Ended, Heard, Base

-----------------------------------------------------------------------------
(* Types: which transports are tried, and what the counters count *)

Kinds == Range(transportList)

\* An object of the type the run checks.  Fields says nothing of the length of
\* attempts, which transport and the timers refer to.
Typed(s) ==
    /\ s \in Fields(Kinds, Seq(Kinds))
    /\ s.transport \in {0} \cup DOMAIN s.attempts
    /\ s.timerId \in {0} \cup DOMAIN s.attempts
    /\ s.timers \subseteq DOMAIN s.attempts
    /\ s.told <= 1
    /\ s.frames <= MaxFrames

TypeInv ==
    /\ browser \in Browsers
    /\ doc \in {"loading", "interactive", "complete"}
    /\ Typed(sock)

\* There are as many positions in the list as it is long, and a kind at each.
LEMMA Listed ==
    /\ Len(transportList) \in Nat
    /\ \A i \in 1 .. Len(transportList) : transportList[i] \in Kinds
BY DEF transportList, Kinds, Range

\* What is left of the list are kinds of it, whatever the server and the browser
\* say.
LEMMA FilteredType == \A info : filterToEnabled(info) \in Seq(Kinds)
<1> SUFFICES ASSUME NEW info PROVE filterToEnabled(info) \in Seq(Kinds)
  OBVIOUS
<1> DEFINE n == Len(transportList)
           enabled == {t \in Range(transportList) :
             \/ t = "websocket" /\ info.websocket /\ "WebSocket" \in browser
             \/ t = "xhr-streaming" /\ XhrStreamingEnabled
             \/ t \in {"xdr-streaming", "xdr-polling"} /\ XdrStreamingEnabled(info)
             \/ t = "eventsource" /\ EventSourceEnabled
             \/ t = "iframe-eventsource" /\ IframeWrapEnabled(EventSourceEnabled)
             \/ t = "htmlfile" /\ HtmlFileEnabled
             \/ t = "iframe-htmlfile" /\ IframeWrapEnabled(HtmlFileEnabled)
             \/ t = "xhr-polling" /\ XhrPollingEnabled
             \/ t = "iframe-xhr-polling" /\ IframeWrapEnabled(XhrPollingEnabled)
             \/ t = "jsonp-polling"}
           Step(h) == [i \in 0 .. n |->
             IF i = 0 THEN <<>>
             ELSE IF transportList[i] \in enabled THEN Append(h[i - 1], transportList[i])
             ELSE h[i - 1]]
           main == CHOOSE h : h = Step(h)
           G == [i \in 1 .. n |-> [q \in Seq(Kinds) |->
                  IF transportList[i] \in enabled THEN Append(q, transportList[i]) ELSE q]]
<1>1. filterToEnabled(info) = main[n]
  BY DEF filterToEnabled
<1>2. n \in Nat /\ \A i \in 1 .. n : transportList[i] \in Kinds
  BY Listed
<1> HIDE DEF n, enabled, main
<1>3. \A q \in Seq(Kinds), i \in 1 .. n : Append(q, transportList[i]) \in Seq(Kinds)
  BY <1>2, AppendProperties
<1>4. G \in [1 .. n -> [Seq(Kinds) -> Seq(Kinds)]]
  BY <1>3
<1>5. \A i \in 1 .. n, q \in Seq(Kinds) :
        G[i][q] = IF transportList[i] \in enabled THEN Append(q, transportList[i]) ELSE q
  OBVIOUS
<1> HIDE DEF G
<1>6. PICK f \in [0 .. n -> Seq(Kinds)] : Recurs(f, <<>>, G, n)
  <2>1. <<>> \in Seq(Kinds)
    BY EmptySeq
  <2> QED
    BY <1>2, <1>4, <2>1, Recursion
<1>7. f = Step(f)
  <2>1. ASSUME NEW i \in 0 .. n PROVE f[i] = Step(f)[i]
    <3>1. CASE i = 0
      BY <1>6, <3>1 DEF Recurs
    <3>2. CASE i # 0
      <4>1. i \in 1 .. n /\ i - 1 \in 0 .. n
        BY <1>2, <3>2
      <4>2. f[i - 1] \in Seq(Kinds) /\ f[i] = G[i][f[i - 1]]
        BY <1>6, <4>1 DEF Recurs
      <4> QED
        BY <1>5, <3>2, <4>1, <4>2
    <3> QED
      BY <3>1, <3>2
  <2> QED
    BY <2>1
<1> HIDE DEF Step
<1>8. main = Step(main)
  BY <1>7, Zenon DEF main
<1>9. \A i \in 0 .. n : main[i] = IF i = 0 THEN <<>>
                                  ELSE IF transportList[i] \in enabled
                                    THEN Append(main[i - 1], transportList[i])
                                  ELSE main[i - 1]
  <2>1. main = [i \in 0 .. n |->
                 IF i = 0 THEN <<>>
                 ELSE IF transportList[i] \in enabled THEN Append(main[i - 1], transportList[i])
                 ELSE main[i - 1]]
    BY <1>8 DEF Step
  <2> QED
    BY <2>1
<1>10. \A i \in Nat : i \in 0 .. n => main[i] \in Seq(Kinds)
  <2> DEFINE T == {i \in Nat : i \in 0 .. n => main[i] \in Seq(Kinds)}
  <2>1. 0 \in T
    <3>1. <<>> \in Seq(Kinds)
      BY EmptySeq
    <3> QED
      BY <1>9, <3>1
  <2>2. ASSUME NEW i \in Nat, i \in T PROVE i + 1 \in T
    <3> SUFFICES ASSUME i + 1 \in 0 .. n PROVE main[i + 1] \in Seq(Kinds)
      OBVIOUS
    <3>1. i \in 0 .. n /\ i + 1 \in 1 .. n /\ (i + 1) - 1 = i /\ i + 1 # 0
      BY <1>2
    <3>2. main[i] \in Seq(Kinds)
      BY <2>2, <3>1
    <3>3. Append(main[i], transportList[i + 1]) \in Seq(Kinds)
      BY <1>3, <3>1, <3>2
    <3> QED
      BY <1>9, <3>1, <3>2, <3>3
  <2> HIDE DEF T
  <2>3. \A i \in Nat : i \in T
    BY <2>1, <2>2, SetInduction
  <2> QED
    BY <2>3 DEF T
<1>11. n \in 0 .. n
  BY <1>2
<1> QED
  BY <1>1, <1>10, <1>11

\* Without its listeners an attempt is one still.
LEMMA SilencedType ==
    ASSUME NEW s, Typed(s), NEW a \in DOMAIN s.attempts,
           NEW t, t = [s EXCEPT !.attempts[a].heard = FALSE]
    PROVE  Typed(t) /\ t.transport = s.transport
<1> DEFINE A == [kind : Kinds, heard : BOOLEAN]
           q == s.attempts
           e == [q[a] EXCEPT !.heard = FALSE]
<1>1. q \in Seq(A) /\ s \in Fields(Kinds, Seq(Kinds)) /\ a \in DOMAIN q
  BY DEF Typed, Fields
<1>2. t = [s EXCEPT !.attempts = [q EXCEPT ![a] = e]]
  BY <1>1 DEF Fields
<1>3. DOMAIN q = 1 .. Len(q) /\ Len(q) \in Nat /\ q[a] \in A
  <2> HIDE DEF A, q
  <2> QED
    BY <1>1, LenProperties, ElementOfSeq
<1>4. e \in A
  <2> DEFINE b == q[a]
  <2> HIDE DEF b
  <2>1. [b EXCEPT !.heard = FALSE] \in A
    BY <1>3 DEF b
  <2> QED
    BY <2>1 DEF b
<1> HIDE DEF A, q, e
<1>5. /\ [q EXCEPT ![a] = e] \in Seq(A) /\ DOMAIN [q EXCEPT ![a] = e] = DOMAIN q
  BY <1>1, <1>3, <1>4, ExceptSeq
<1>6. t \in Fields(Kinds, Seq(Kinds)) /\ t.attempts = [q EXCEPT ![a] = e]
  BY <1>1, <1>2, <1>5 DEF Fields, A
<1>7. /\ t.transport = s.transport /\ t.timerId = s.timerId /\ t.timers = s.timers
      /\ t.told = s.told /\ t.frames = s.frames
  BY <1>1, <1>2 DEF Fields
<1> QED
  BY <1>5, <1>6, <1>7 DEF Typed, q

LEMMA DroppedType ==
    ASSUME NEW s, Typed(s), NEW t, t = DropTransport(s)
    PROVE  Typed(t)
<1>1. CASE s.transport = 0
  BY <1>1 DEF DropTransport
<1>2. CASE s.transport # 0
  <2>1. PICK r : r = [s EXCEPT !.attempts[s.transport].heard = FALSE]
    OBVIOUS
  <2>2. Typed(r)
    BY <1>2, <2>1, SilencedType DEF Typed
  <2>3. t = [r EXCEPT !.transport = 0]
    BY <1>2, <2>1 DEF DropTransport, Typed, Fields
  <2>4. t \in Fields(Kinds, Seq(Kinds))
    <3> DEFINE lists == Seq(Kinds)
    <3>1. r \in Fields(Kinds, lists)
      BY <2>2 DEF Typed
    <3> HIDE DEF lists
    <3>2. t \in Fields(Kinds, lists)
      BY <2>3, <3>1 DEF Fields
    <3> QED
      BY <3>2 DEF lists
  <2>5. /\ t.transport = 0 /\ t.timerId = r.timerId /\ t.timers = r.timers
        /\ t.attempts = r.attempts /\ t.told = r.told /\ t.frames = r.frames
    BY <2>2, <2>3 DEF Typed, Fields
  <2> QED
    BY <2>2, <2>4, <2>5 DEF Typed
<1> QED
  BY <1>1, <1>2

LEMMA ClosingType == ASSUME NEW s, Typed(s) PROVE Typed(_close(s))
<1>1. PICK d : d = DropTransport(s)
  OBVIOUS
<1>2. Typed(d)
  BY <1>1, DroppedType
<1>3. PICK q : q = [d EXCEPT !.ir = "null"]
  OBVIOUS
<1>4. Typed(q)
  BY <1>2, <1>3 DEF Typed, Fields
<1>5. Typed([q EXCEPT !.thrown = TRUE])
  BY <1>4 DEF Typed, Fields
<1>6. Typed([q EXCEPT !.readyState = "closing", !.closeTasks = @ + 1])
  <2>1. q.closeTasks + 1 \in Nat
    BY <1>4 DEF Typed, Fields
  <2> QED
    BY <1>4, <2>1 DEF Typed, Fields
<1> QED
  BY <1>1, <1>3, <1>5, <1>6 DEF _close

\* The attempt made is of the first kind left, and its timer refers to it.
LEMMA ConnectingType == ASSUME NEW s, Typed(s) PROVE Typed(_connect(s))
<1> DEFINE A == [kind : Kinds, heard : BOOLEAN]
           t == _connect(s)
<1>1. /\ s \in Fields(Kinds, Seq(Kinds)) /\ s.attempts \in Seq(A)
      /\ s.pending \in Seq(Kinds)
  BY DEF Typed, Fields
<1>2. CASE s.pending = <<>>
  BY <1>2, ClosingType DEF _connect
<1>3. CASE s.pending # <<>> /\ needBody(Head(s.pending)) /\ doc = "loading"
  <2>1. t = [s EXCEPT !.loads = @ + 1, !.waited = TRUE]
    BY <1>3 DEF _connect
  <2>2. s.loads + 1 \in Nat
    BY <1>1 DEF Fields
  <2> HIDE DEF t
  <2>3. Typed(t)
    BY <2>1, <2>2 DEF Typed, Fields
  <2> QED
    BY <2>3 DEF t
<1>4. CASE s.pending # <<>> /\ ~(needBody(Head(s.pending)) /\ doc = "loading")
  <2> DEFINE q == s.attempts
             n == Len(q) + 1
             e == [kind |-> Head(s.pending), heard |-> TRUE]
  <2>1. t = [s EXCEPT !.pending = Tail(s.pending), !.transport = n, !.timerId = n,
                      !.attempts = Append(q, e), !.timers = s.timers \cup {n}]
    BY <1>1, <1>4 DEF _connect, Fields
  <2>2. Head(s.pending) \in Kinds /\ Tail(s.pending) \in Seq(Kinds)
    BY <1>1, <1>4, HeadTailProperties
  <2>3. e \in A
    BY <2>2
  <2> HIDE DEF t, A, q, e
  <2>4. /\ q \in Seq(A) /\ Len(q) \in Nat /\ DOMAIN q = 1 .. Len(q)
    BY <1>1, LenProperties DEF q
  <2>5. Append(q, e) \in Seq(A) /\ DOMAIN Append(q, e) = 1 .. n
    BY <2>3, <2>4, AppendProperties, LenProperties
  <2>6. n \in Nat /\ n \in 1 .. n /\ DOMAIN q \subseteq 1 .. n
    BY <2>4
  <2>7. s.timers \cup {n} \subseteq 1 .. n /\ s.timers \cup {n} \in SUBSET Nat
    BY <1>1, <2>6 DEF Typed, Fields, q
  <2> HIDE DEF n
  <2>8. t \in Fields(Kinds, Seq(Kinds))
    BY <1>1, <2>1, <2>2, <2>5, <2>6, <2>7 DEF Fields, A
  <2>9. /\ t.transport = n /\ t.timerId = n /\ t.attempts = Append(q, e)
        /\ t.timers = s.timers \cup {n} /\ t.told = s.told /\ t.frames = s.frames
    BY <1>1, <2>1 DEF Fields
  <2>10. Typed(t)
    BY <2>5, <2>6, <2>7, <2>8, <2>9 DEF Typed
  <2> QED
    BY <2>10 DEF t
<1> QED
  BY <1>2, <1>3, <1>4

LEMMA EndingType == ASSUME NEW s, Typed(s), NEW code PROVE Typed(_transportClose(s, code))
<1>1. PICK d : d = DropTransport(s)
  OBVIOUS
<1>2. Typed(d)
  BY <1>1, DroppedType
<1> QED
  BY <1>1, <1>2, ConnectingType, ClosingType DEF _transportClose

LEMMA OpeningType == ASSUME NEW s, Typed(s) PROVE Typed(_open(s))
<1>1. Typed([s EXCEPT !.timers = @ \ {s.timerId}, !.readyState = "open"])
  BY DEF Typed, Fields
<1> QED
  BY <1>1, ClosingType DEF _open

\* Each task leaves an object of the type.  The close event is told once only, for
\* the handlers are gone when the object is closed.
LEMMA StepType == TypeInv /\ IInv /\ [Next]_vars => TypeInv'
<1> SUFFICES ASSUME TypeInv, IInv, [Next]_vars PROVE TypeInv'
  OBVIOUS
<1>1. Typed(sock) /\ sock \in Fields(Kinds, Seq(Kinds)) /\ MaxFrames \in Nat
  BY SockJSAssumption DEF TypeInv, Typed
<1>2. browser' = browser /\ doc' \in {"loading", "interactive", "complete"}
  BY DEF TypeInv, Next, vars, LoadListener, doXhr, InfoReceived, InfoFailed, Close,
         CloseEvent, DocumentProceeds, TransportTimeout, FromTransport, OpenFrame,
         CloseFrame, TransportClosed
<1>3. CASE LoadListener
  <2>1. PICK s : s = [sock EXCEPT !.loads = @ - 1]
    OBVIOUS
  <2>2. sock' = _connect(s) /\ sock.loads - 1 \in Nat
    BY <1>1, <1>3, <2>1 DEF LoadListener, Fields
  <2>3. Typed(s)
    BY <1>1, <2>1, <2>2 DEF Typed, Fields
  <2> QED
    BY <1>2, <2>2, <2>3, ConnectingType DEF TypeInv
<1>4. CASE doXhr
  <2>1. sock' = [sock EXCEPT !.ir = "asked"]
    BY <1>4 DEF doXhr
  <2>2. Typed(sock')
    BY <1>1, <2>1 DEF Typed, Fields
  <2> QED
    BY <1>2, <2>2 DEF TypeInv
<1>5. CASE InfoReceived
  <2>1. PICK info : sock' = _connect([sock EXCEPT !.ir = "null", !.pending = filterToEnabled(info)])
    BY <1>5 DEF InfoReceived
  <2>2. PICK list : list = filterToEnabled(info)
    OBVIOUS
  <2>3. PICK s : s = [sock EXCEPT !.ir = "null", !.pending = list]
    OBVIOUS
  <2>4. list \in Seq(Kinds)
    BY <2>2, FilteredType
  <2>5. Typed(s)
    BY <1>1, <2>3, <2>4 DEF Typed, Fields
  <2> QED
    BY <1>2, <2>1, <2>2, <2>3, <2>5, ConnectingType DEF TypeInv
<1>6. CASE InfoFailed
  <2>1. PICK s : s = [sock EXCEPT !.ir = "null"]
    OBVIOUS
  <2>2. sock' = _close(s)
    BY <1>6, <2>1 DEF InfoFailed
  <2>3. Typed(s)
    BY <1>1, <2>1 DEF Typed, Fields
  <2> QED
    BY <1>2, <2>2, <2>3, ClosingType DEF TypeInv
<1>7. CASE Close
  BY <1>1, <1>2, <1>7, ClosingType DEF Close, TypeInv
<1>8. CASE CloseEvent
  <2> DEFINE told == sock.told + (IF sock.onclose THEN 1 ELSE 0)
  <2>1. told \in Nat /\ told <= 1
    BY <1>1 DEF Typed, Fields, IInv, Base, PageInv
  <2>2. sock.closeTasks - 1 \in Nat
    BY <1>1, <1>8 DEF CloseEvent, Fields
  <2>3. sock' = [sock EXCEPT !.closeTasks = sock.closeTasks - 1, !.readyState = "closed",
                             !.told = told, !.onclose = FALSE]
    BY <1>1, <1>8 DEF CloseEvent, Fields
  <2> HIDE DEF told
  <2>4. Typed(sock')
    BY <1>1, <2>1, <2>2, <2>3 DEF Typed, Fields
  <2> QED
    BY <1>2, <2>4 DEF TypeInv
<1>9. CASE \E a \in DOMAIN sock.attempts : TransportTimeout(a)
  <2>1. PICK a \in DOMAIN sock.attempts : TransportTimeout(a)
    BY <1>9
  <2>2. PICK s : s = [sock EXCEPT !.timers = @ \ {a}]
    OBVIOUS
  <2>3. Typed(s)
    BY <1>1, <2>2 DEF Typed, Fields
  <2>4. PICK d : d = DropTransport(s)
    OBVIOUS
  <2>5. Typed(d)
    BY <2>3, <2>4, DroppedType
  <2>6. sock' = s \/ sock' = _transportClose(d, "abnormal")
    BY <2>1, <2>2, <2>4 DEF TransportTimeout
  <2> QED
    BY <1>2, <2>3, <2>5, <2>6, EndingType DEF TypeInv
<1>10. CASE \E a \in DOMAIN sock.attempts : FromTransport(a)
  <2>1. PICK a \in DOMAIN sock.attempts : FromTransport(a)
    BY <1>10
  <2>2. PICK s : s = Counted(sock)
    OBVIOUS
  <2>3. sock.frames < MaxFrames
    BY <2>1 DEF FromTransport, OpenFrame, CloseFrame, TransportClosed, Hears
  <2>4. Typed(s) /\ DOMAIN s.attempts = DOMAIN sock.attempts
    <3>1. sock.frames + 1 \in Nat /\ sock.frames + 1 <= MaxFrames
      BY <1>1, <2>3 DEF Fields
    <3>2. s = [sock EXCEPT !.frames = sock.frames + 1]
      BY <1>1, <2>2 DEF Counted, Fields
    <3> QED
      BY <1>1, <3>1, <3>2 DEF Typed, Fields
  <2>5. PICK r : r = [s EXCEPT !.attempts[a].heard = FALSE]
    OBVIOUS
  <2>6. Typed(r)
    BY <2>4, <2>5, SilencedType
  <2>7. \/ sock' = _open(s)
        \/ sock' = _close(s)
        \/ \E code : sock' = _transportClose(r, code)
    BY <2>1, <2>2, <2>5 DEF FromTransport, OpenFrame, CloseFrame, TransportClosed
  <2> QED
    BY <1>2, <2>4, <2>6, <2>7, OpeningType, ClosingType, EndingType DEF TypeInv
<1>11. CASE DocumentProceeds \/ UNCHANGED vars
  BY <1>1, <1>2, <1>11 DEF DocumentProceeds, vars, TypeInv
<1> QED
  BY <1>3, <1>4, <1>5, <1>6, <1>7, <1>8, <1>9, <1>10, <1>11 DEF Next

-----------------------------------------------------------------------------
(* The theorems *)

\* Every task keeps the invariant and shows the page a legal change.
LEMMA StepInv == IInv /\ [Next]_vars => IInv' /\ (Shown \/ UNCHANGED sock)
<1> SUFFICES ASSUME IInv, [Next]_vars PROVE IInv' /\ (Shown \/ UNCHANGED sock)
  OBVIOUS
<1>1. CASE LoadListener
  BY <1>1, LoadListenerInv
<1>2. CASE doXhr
  BY <1>2, doXhrInv
<1>3. CASE InfoReceived \/ InfoFailed
  BY <1>3, InfoInv
<1>4. CASE Close
  BY <1>4, CloseInv
<1>5. CASE CloseEvent
  BY <1>5, CloseEventInv
<1>6. CASE DocumentProceeds
  BY <1>6, DocumentInv
<1>7. CASE \E a \in DOMAIN sock.attempts : TransportTimeout(a) \/ FromTransport(a)
  <2>1. PICK a \in DOMAIN sock.attempts : TransportTimeout(a) \/ FromTransport(a)
    BY <1>7
  <2> QED
    BY <2>1, TransportTimeoutInv, FrameInv, TransportClosedInv DEF FromTransport
<1>8. CASE UNCHANGED vars
  BY <1>8 DEF vars, IInv, Base, VoiceInv, Alone, Ended, Heard
<1> QED
  BY <1>1, <1>2, <1>3, <1>4, <1>5, <1>6, <1>7, <1>8 DEF Next

\* The invariant holds in every reachable state.
THEOREM Invariance == Spec => []IInv
<1>1. Init => IInv
  BY InitInv
<1>2. IInv /\ [Next]_vars => IInv'
  BY StepInv
<1> QED
  BY <1>1, <1>2, PTL DEF Spec

\* Every object is of the type: the kinds tried are those the filter leaves, the
\* transport and the timers refer to attempts made, and the page is told of the
\* closing once at most.
THEOREM AlwaysTyped == Spec => []TypeOK
<1>1. Init => TypeInv
  <2> SUFFICES ASSUME Init PROVE TypeInv
    OBVIOUS
  <2>1. sock = NewSockJS /\ MaxFrames \in Nat
    BY SockJSAssumption DEF Init
  <2>2. <<>> \in Seq(Kinds) /\ <<>> \in Seq([kind : Kinds, heard : BOOLEAN])
    BY EmptySeq
  <2>3. Typed(sock)
    BY <2>1, <2>2 DEF Typed, Fields, NewSockJS
  <2> QED
    BY <2>3 DEF TypeInv, Init
<1>2. TypeInv /\ IInv /\ [Next]_vars => TypeInv'
  BY StepType
<1>3. TypeInv => TypeOK
  <2> SUFFICES ASSUME TypeInv PROVE TypeOK
    OBVIOUS
  <2>1. sock \in Fields(Kinds, Seq(Kinds)) /\ MaxFrames \in Nat
    BY SockJSAssumption DEF TypeInv, Typed
  <2>2. /\ sock.pending \in Seq(Kinds)
        /\ sock.attempts \in Seq([kind : Kinds, heard : BOOLEAN])
    BY <2>1 DEF Fields
  <2>3. sock.told \in 0 .. 1 /\ sock.frames \in 0 .. MaxFrames
    BY <2>1 DEF Fields, TypeInv, Typed
  <2> QED
    BY <2>1, <2>2, <2>3 DEF Fields, TypeInv, Typed, TypeOK, Kinds
<1> QED
  BY <1>1, <1>2, <1>3, Invariance, PTL DEF Spec

\* As long as _connect never waited for the body, only the transport that the
\* object holds is listened to, none once the connection is closing, and _close
\* never throws; and an open connection has a transport in any case.
THEOREM SpeaksWithOneVoice == Spec => []OneVoice
<1>1. IInv => OneVoice
  <2> SUFFICES ASSUME IInv PROVE OneVoice
    OBVIOUS
  <2>1. ~sock.waited => ~sock.thrown
    BY DEF IInv, Base
  <2>2. ASSUME ~sock.waited, NEW a \in DOMAIN sock.attempts, sock.attempts[a].heard
        PROVE  a = sock.transport /\ sock.readyState \in {"connecting", "open"}
    <3>1. a \in Heard(sock)
      BY <2>2 DEF Heard
    <3>2. sock.readyState \in {"connecting", "open", "closing", "closed"}
      BY DEF IInv, Base, Object, Fields
    <3> QED
      BY <2>2, <3>1, <3>2 DEF IInv, VoiceInv, Alone, Ended
  <2>3. sock.readyState = "open" =>
          sock.transport # 0 /\ sock.attempts[sock.transport].heard
    BY DEF IInv, VoiceInv, Heard
  <2> QED
    BY <2>1, <2>2, <2>3 DEF OneVoice
<1> QED
  BY <1>1, Invariance, PTL

\* To the page the object is a Socket: it opens at most once, closes for good and
\* tells so once, whatever transports, timers and load listeners do.
THEOREM SockJSIsSocket == Spec => ImplementsSocket
<1>1. Init => Abstract!Init
  BY DEF Init, NewSockJS, Abstract!Init
<1>2. IInv /\ [Next]_vars => [Abstract!Next]_(Abstract!vars)
  <2> SUFFICES ASSUME IInv, [Next]_vars PROVE [Abstract!Next]_(Abstract!vars)
    OBVIOUS
  <2>1. Shown \/ UNCHANGED sock
    BY StepInv
  <2> QED
    BY <2>1 DEF Shown, PageStep, Abstract!Next, Abstract!vars, Abstract!Opens,
                Abstract!Closes, Abstract!IsClosed
<1> QED
  BY <1>1, <1>2, Invariance, PTL DEF Spec, ImplementsSocket, Abstract!Spec
=============================================================================
