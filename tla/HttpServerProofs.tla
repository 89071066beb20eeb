-------------------------- MODULE HttpServerProofs --------------------------
(***************************************************************************)
(* Safety of the server's sessions for any number of clients, of threads   *)
(* and of requests: answers in order, bodies consumed, connections closed  *)
(* gracefully.  Then of the multipart replies a session may write, for any *)
(* parts, chunk size and width of size_t: all of the message is sent, and  *)
(* the last buffer alone says that no more follows.                        *)
(***************************************************************************)
EXTENDS HttpServer, MultiPart, SequenceLemmas

Item == [part : {"head"}, req : Request] \cup [part : {"body"}, body : Bodies]
          \cup {Rest}

Replied == [id : 0 .. MaxRequests, status : Statuses, close : BOOLEAN]

TypeInv ==
    /\ TypeOK
    /\ wire \in [Clients -> Seq(Item)]
    /\ answered \in [Clients -> Seq(Replied)]
    /\ keepAlive \in [Clients -> BOOLEAN]
    /\ held \in [Clients -> BOOLEAN]
    /\ shut \in [Clients -> BOOLEAN]
    /\ misread \in [Clients -> BOOLEAN]

\* A head whose body follows it, on the wire or still to be sent.
Announces(item) == item.part = "head" /\ item.req.body # "none"

\* Bodies are where they are announced, and nowhere else.
Framed(w, u) ==
    /\ \A i \in 1 .. Len(w) - 1 : w[i + 1].part # "head" <=> Announces(w[i])
    /\ w # <<>> => (u # "none" <=> Announces(w[Len(w)]))

\* What the session reads next, now or later, is a body.
NextIsBody(w, u) == IF w = <<>> THEN u # "none" ELSE w[1].part # "head"

\* The heads on the wire are numbered upwards, from above low to high.
Ascending(w, low, high) ==
    /\ \A i \in 1 .. Len(w) : w[i].part = "head" => low < w[i].req.id /\ w[i].req.id <= high
    /\ \A i, j \in 1 .. Len(w) :
         i < j /\ w[i].part = "head" /\ w[j].part = "head" => w[i].req.id < w[j].req.id

\* None of them is missing.
Gapless(w, low, high) ==
    \A n \in low + 1 .. high : \E i \in 1 .. Len(w) : w[i].part = "head" /\ w[i].req.id = n

InHand == {"authorize", "handleRequest", "handleResponse", "write", "internalError"}

\* doSession's local and the request agree on keep-alive where either is asked,
\* and the last reply has said what they say.
LoopInv(c) ==
    /\ pc[c] \in {"away", "backlog", "handshake"} =>
         /\ wire[c] = <<>> /\ unsent[c] = "none" /\ answered[c] = <<>>
         /\ asked[c] = 0 /\ req[c] = NoRequest
    /\ shut[c] <=> pc[c] = "closed"
    /\ held[c] => ~keepAlive[c] /\ ~req[c].keepAlive
    /\ pc[c] \in {"authorize", "handleRequest", "handleResponse"} => ~held[c]
    /\ pc[c] \in {"handleRequest", "handleResponse", "write"} =>
         (keepAlive[c] <=> req[c].keepAlive)
    /\ pc[c] = "shutdown" => ~keepAlive[c]
    /\ status[c] = "unauthorized" => held[c]
    /\ IF pc[c] \in {"shutdown", "closed"}
         THEN answered[c] # <<>> /\ answered[c][Len(answered[c])].close
         ELSE answered[c] # <<>> => ~answered[c][Len(answered[c])].close

\* Where the session stands among the heads and bodies, until it loses count.
BodyInv(c) ==
    ~misread[c] =>
        /\ Framed(wire[c], unsent[c])
        /\ crash = "no" /\ pc[c] \in {"authorize", "handleRequest"} =>
             (NextIsBody(wire[c], unsent[c]) <=> req[c].body # "none")
        /\ \/ pc[c] = "readHeader"
           \/ pc[c] \in {"handleResponse", "write"} /\ ~held[c]
           => (NextIsBody(wire[c], unsent[c]) => req[c].body # "none" /\ ~ReadsBody(req[c].kind))

\* The request in hand is the next one after those answered, and the ones after
\* it are on the wire.
OrderInv(c) ==
    ~misread[c] =>
        /\ req[c].id <= asked[c]
        /\ Ascending(wire[c], req[c].id, asked[c])
        /\ pc[c] # "aborted" => Gapless(wire[c], req[c].id, asked[c])
        /\ Len(answered[c]) <= req[c].id
        /\ pc[c] \in InHand => Len(answered[c]) + 1 = req[c].id
        /\ pc[c] \notin InHand \cup {"aborted"} => Len(answered[c]) = req[c].id
        /\ \A i \in 1 .. Len(answered[c]) : answered[c][i].id = i

SessionInv(c) == LoopInv(c) /\ BodyInv(c) /\ OrderInv(c)

\* The inductive invariant.
IInv == TypeInv /\ \A c \in Clients : SessionInv(c)

-----------------------------------------------------------------------------
(* What is on the wire *)

LEMMA RequestIds ==
    ASSUME NEW r \in Request \cup {NoRequest}
    PROVE  r.id \in 0 .. MaxRequests /\ r.keepAlive \in BOOLEAN
<1>1. CASE r \in Request
  BY <1>1, ServerAssumption DEF Request
<1>2. CASE r = NoRequest
  BY <1>2, ServerAssumption DEF NoRequest
<1> QED
  BY <1>1, <1>2

LEMMA ItemType ==
    ASSUME NEW w \in Seq(Item), NEW i \in 1 .. Len(w)
    PROVE  /\ w[i].part \in {"head", "body", "rest"}
           /\ w[i].part = "head" => w[i].req \in Request /\ w[i].req.id \in 0 .. MaxRequests
<1>1. w[i] \in Item
  BY ElementOfSeq
<1> QED
  BY <1>1 DEF Item, Rest, Request

LEMMA WireStart ==
    ASSUME NEW w \in Seq(Item), w # <<>>
    PROVE  /\ Len(w) \in Nat \ {0} /\ Head(w) = w[1] /\ w[1] \in Item
           /\ Tail(w) \in Seq(Item) /\ Len(Tail(w)) = Len(w) - 1
           /\ \A i \in 1 .. Len(w) - 1 : Tail(w)[i] = w[i + 1]
<1>1. Len(w) \in Nat \ {0}
  BY EmptySeq
<1>2. Head(w) = w[1]
  OBVIOUS
<1>3. w[1] \in Item
  BY <1>1, ElementOfSeq
<1> QED
  BY <1>1, <1>2, <1>3, HeadTailProperties

LEMMA WireEnd ==
    ASSUME NEW w \in Seq(Item), NEW e \in Item
    PROVE  /\ Append(w, e) \in Seq(Item) /\ Len(w) \in Nat
           /\ Len(Append(w, e)) = Len(w) + 1 /\ Append(w, e) # <<>>
           /\ Append(w, e)[Len(w) + 1] = e
           /\ \A i \in 1 .. Len(w) : Append(w, e)[i] = w[i]
<1>1. Len(w) \in Nat
  BY LenProperties
<1>2. /\ Append(w, e) \in Seq(Item) /\ Len(Append(w, e)) = Len(w) + 1
      /\ Append(w, e)[Len(w) + 1] = e
      /\ \A i \in 1 .. Len(w) : Append(w, e)[i] = w[i]
  BY AppendProperties
<1>3. Append(w, e) # <<>>
  BY <1>1, <1>2, EmptySeq
<1> QED
  BY <1>1, <1>2, <1>3

\* What is left of the wire after reading astray is made of the same things.
LEMMA AstrayTypes ==
    ASSUME NEW w \in Seq(Item), NEW left \in Astray(w)
    PROVE  left \in Seq(Item)
<1>1. Len(w) \in Nat
  BY LenProperties
<1>2. ASSUME NEW n \in 1 .. Len(w)
      PROVE  SubSeq(w, n + 1, Len(w)) \in Seq(Item)
  BY <1>1, ElementOfSeq, SubSeqProperties
<1>3. <<Rest>> \in Seq(Item)
  BY DEF Item
<1>4. ASSUME NEW n \in 1 .. Len(w)
      PROVE  <<Rest>> \o SubSeq(w, n + 1, Len(w)) \in Seq(Item)
  BY <1>2, <1>3, ConcatProperties
<1> QED
  BY <1>2, <1>4 DEF Astray

\* Reading an item: what comes next is a body iff the item announces one.
LEMMA ReadFramed ==
    ASSUME NEW w \in Seq(Item), NEW u, w # <<>>, Framed(w, u)
    PROVE  Framed(Tail(w), u) /\ (NextIsBody(Tail(w), u) <=> Announces(w[1]))
<1> DEFINE t == Tail(w)
<1>1. /\ Len(w) \in Nat \ {0} /\ t \in Seq(Item) /\ Len(t) = Len(w) - 1
      /\ \A i \in 1 .. Len(w) - 1 : t[i] = w[i + 1]
  BY WireStart
<1>2. t = <<>> <=> Len(w) = 1
  <2>1. Len(t) = 0 <=> t = <<>>
    BY <1>1, EmptySeq
  <2> QED
    BY <1>1, <2>1
<1> HIDE DEF t
<1>3. Framed(t, u)
  <2>1. ASSUME NEW i \in 1 .. Len(t) - 1
        PROVE  t[i + 1].part # "head" <=> Announces(t[i])
    <3>1. i \in 1 .. Len(w) - 1 /\ i + 1 \in 1 .. Len(w) - 1
      BY <1>1
    <3>2. t[i] = w[i + 1] /\ t[i + 1] = w[i + 1 + 1]
      BY <1>1, <3>1
    <3> QED
      BY <3>1, <3>2 DEF Framed
  <2>2. ASSUME t # <<>>
        PROVE  u # "none" <=> Announces(t[Len(t)])
    <3>1. Len(w) > 1
      BY <1>1, <1>2, <2>2
    <3>2. t[Len(t)] = w[Len(w)]
      BY <1>1, <3>1
    <3> QED
      BY <3>2 DEF Framed
  <2> QED
    BY <2>1, <2>2 DEF Framed
<1>4. NextIsBody(t, u) <=> Announces(w[1])
  <2>1. CASE t = <<>>
    BY <1>2, <2>1 DEF Framed, NextIsBody
  <2>2. CASE t # <<>>
    <3>1. Len(w) > 1
      BY <1>1, <1>2, <2>2
    <3>2. t[1] = w[1 + 1] /\ 1 \in 1 .. Len(w) - 1
      BY <1>1, <3>1
    <3> QED
      BY <2>2, <3>2 DEF Framed, NextIsBody
  <2> QED
    BY <2>1, <2>2
<1> QED
  BY <1>3, <1>4 DEF t

\* Sending a head, or the body of the last one, changes nothing for the reader.
LEMMA HeadFramed ==
    ASSUME NEW w \in Seq(Item), Framed(w, "none"), NEW r \in Request, NEW e \in Item,
           e = [part |-> "head", req |-> r]
    PROVE  /\ Framed(Append(w, e), r.body)
           /\ NextIsBody(Append(w, e), r.body) <=> NextIsBody(w, "none")
<1> DEFINE a == Append(w, e)
<1>1. /\ Len(w) \in Nat /\ Len(a) = Len(w) + 1 /\ a # <<>> /\ a[Len(w) + 1] = e
      /\ \A i \in 1 .. Len(w) : a[i] = w[i]
  BY WireEnd
<1>2. w # <<>> => Len(w) # 0 /\ ~Announces(w[Len(w)])
  BY EmptySeq DEF Framed
<1> HIDE DEF a
<1>3. e.part = "head" /\ e.req = r
  OBVIOUS
<1>4. \A i \in 1 .. Len(a) - 1 : a[i + 1].part # "head" <=> Announces(a[i])
  <2> SUFFICES ASSUME NEW i \in 1 .. Len(w)
               PROVE  a[i + 1].part # "head" <=> Announces(w[i])
    BY <1>1
  <2>1. CASE i = Len(w)
    <3>1. w # <<>>
      BY <2>1, <1>1, EmptySeq
    <3> QED
      BY <1>1, <1>2, <1>3, <2>1, <3>1
  <2>2. CASE i < Len(w)
    <3>1. a[i + 1] = w[i + 1] /\ i \in 1 .. Len(w) - 1
      BY <1>1, <2>2
    <3> QED
      BY <3>1 DEF Framed
  <2> QED
    BY <1>1, <2>1, <2>2
<1>5. r.body # "none" <=> Announces(a[Len(a)])
  BY <1>1, <1>3 DEF Announces
<1>6. NextIsBody(a, r.body) <=> NextIsBody(w, "none")
  <2>1. CASE w = <<>>
    <3>1. a[1] = e
      BY <1>1, <2>1
    <3> QED
      BY <1>1, <1>3, <2>1, <3>1 DEF NextIsBody
  <2>2. CASE w # <<>>
    <3>1. a[1] = w[1]
      BY <1>1, <1>2, <2>2
    <3> QED
      BY <1>1, <2>2, <3>1 DEF NextIsBody
  <2> QED
    BY <2>1, <2>2
<1> QED
  BY <1>4, <1>5, <1>6 DEF Framed, a

LEMMA BodyFramed ==
    ASSUME NEW w \in Seq(Item), NEW u, u # "none", Framed(w, u), NEW e \in Item,
           e = [part |-> "body", body |-> u]
    PROVE  /\ Framed(Append(w, e), "none")
           /\ NextIsBody(Append(w, e), "none") <=> NextIsBody(w, u)
<1> DEFINE a == Append(w, e)
<1>1. /\ Len(w) \in Nat /\ Len(a) = Len(w) + 1 /\ a # <<>> /\ a[Len(w) + 1] = e
      /\ \A i \in 1 .. Len(w) : a[i] = w[i]
  BY WireEnd
<1>2. w # <<>> => Len(w) # 0 /\ Announces(w[Len(w)])
  BY EmptySeq DEF Framed
<1> HIDE DEF a
<1>3. e.part # "head"
  OBVIOUS
<1>4. \A i \in 1 .. Len(a) - 1 : a[i + 1].part # "head" <=> Announces(a[i])
  <2> SUFFICES ASSUME NEW i \in 1 .. Len(w)
               PROVE  a[i + 1].part # "head" <=> Announces(w[i])
    BY <1>1
  <2>1. CASE i = Len(w)
    <3>1. w # <<>>
      BY <2>1, <1>1, EmptySeq
    <3> QED
      BY <1>1, <1>2, <1>3, <2>1, <3>1
  <2>2. CASE i < Len(w)
    <3>1. a[i + 1] = w[i + 1] /\ i \in 1 .. Len(w) - 1
      BY <1>1, <2>2
    <3> QED
      BY <3>1 DEF Framed
  <2> QED
    BY <1>1, <2>1, <2>2
<1>5. ~Announces(a[Len(a)])
  BY <1>1, <1>3 DEF Announces
<1>6. NextIsBody(a, "none") <=> NextIsBody(w, u)
  <2>1. CASE w = <<>>
    <3>1. a[1] = e
      BY <1>1, <2>1
    <3> QED
      BY <1>1, <1>3, <2>1, <3>1 DEF NextIsBody
  <2>2. CASE w # <<>>
    <3>1. a[1] = w[1]
      BY <1>1, <1>2, <2>2
    <3> QED
      BY <1>1, <2>2, <3>1 DEF NextIsBody
  <2> QED
    BY <2>1, <2>2
<1> QED
  BY <1>4, <1>5, <1>6 DEF Framed, a

\* Reading an item leaves the order of the others, and a head read is the next.
LEMMA ReadAscending ==
    ASSUME NEW w \in Seq(Item), w # <<>>, NEW low \in Nat, NEW high \in Nat,
           Ascending(w, low, high)
    PROVE  /\ Ascending(Tail(w), low, high)
           /\ w[1].part = "head" => Ascending(Tail(w), w[1].req.id, high)
<1> DEFINE t == Tail(w)
<1>1. /\ Len(w) \in Nat \ {0} /\ t \in Seq(Item) /\ Len(t) = Len(w) - 1
      /\ \A i \in 1 .. Len(w) - 1 : t[i] = w[i + 1]
  BY WireStart
<1> HIDE DEF t
<1>2. ASSUME NEW i \in 1 .. Len(t)
      PROVE  i + 1 \in 1 .. Len(w) /\ 1 < i + 1 /\ t[i] = w[i + 1]
  BY <1>1
<1>3. ASSUME NEW i \in 1 .. Len(t), NEW j \in 1 .. Len(t),
             i < j, t[i].part = "head", t[j].part = "head"
      PROVE  t[i].req.id < t[j].req.id
  <2>1. /\ i + 1 \in 1 .. Len(w) /\ t[i] = w[i + 1]
        /\ j + 1 \in 1 .. Len(w) /\ t[j] = w[j + 1]
    BY <1>2
  <2>2. i + 1 < j + 1
    BY <1>1, <1>3
  <2> QED
    BY <1>3, <2>1, <2>2 DEF Ascending
<1>4. Ascending(t, low, high)
  BY <1>2, <1>3 DEF Ascending
<1>5. ASSUME w[1].part = "head"
      PROVE  Ascending(t, w[1].req.id, high)
  <2>1. ASSUME NEW i \in 1 .. Len(t), t[i].part = "head"
        PROVE  w[1].req.id < t[i].req.id /\ t[i].req.id <= high
    <3>1. 1 \in 1 .. Len(w)
      BY <1>1
    <3> QED
      BY <1>2, <1>5, <2>1, <3>1 DEF Ascending
  <2> QED
    BY <1>3, <2>1 DEF Ascending
<1> QED
  BY <1>4, <1>5 DEF t

LEMMA ReadGapless ==
    ASSUME NEW w \in Seq(Item), w # <<>>, NEW low \in Nat, NEW high \in Nat,
           Ascending(w, low, high), Gapless(w, low, high)
    PROVE  /\ w[1].part # "head" => Gapless(Tail(w), low, high)
           /\ w[1].part = "head" => /\ w[1].req.id = low + 1 /\ low + 1 <= high
                                    /\ Gapless(Tail(w), low + 1, high)
<1> DEFINE t == Tail(w)
<1>1. /\ Len(w) \in Nat \ {0} /\ t \in Seq(Item) /\ Len(t) = Len(w) - 1
      /\ \A i \in 1 .. Len(w) - 1 : t[i] = w[i + 1]
  BY WireStart
<1> HIDE DEF t
<1>2. ASSUME NEW n \in low + 1 .. high, w[1].part = "head" => w[1].req.id # n
      PROVE  \E i \in 1 .. Len(t) : t[i].part = "head" /\ t[i].req.id = n
  <2>1. PICK i \in 1 .. Len(w) : w[i].part = "head" /\ w[i].req.id = n
    BY <1>2 DEF Gapless
  <2>2. i # 1
    BY <1>2, <2>1
  <2>3. i - 1 \in 1 .. Len(t) /\ t[i - 1] = w[i]
    BY <1>1, <2>1, <2>2
  <2> QED
    BY <2>1, <2>3
<1>3. ASSUME w[1].part # "head"
      PROVE  Gapless(t, low, high)
  BY <1>2, <1>3 DEF Gapless
<1>4. ASSUME w[1].part = "head"
      PROVE  w[1].req.id = low + 1 /\ low + 1 <= high
  <2>1. 1 \in 1 .. Len(w)
    BY <1>1
  <2>2. w[1].req.id \in Nat /\ low < w[1].req.id /\ w[1].req.id <= high
    <3>1. w[1].req.id \in 0 .. MaxRequests /\ MaxRequests \in Nat
      BY <1>4, <2>1, ItemType, ServerAssumption
    <3>2. low < w[1].req.id /\ w[1].req.id <= high
      BY <1>4, <2>1 DEF Ascending
    <3> QED
      BY <3>1, <3>2
  <2>3. PICK i \in 1 .. Len(w) : w[i].part = "head" /\ w[i].req.id = low + 1
    BY <2>2 DEF Gapless
  <2>4. i = 1 \/ w[1].req.id < w[i].req.id
    BY <1>4, <2>1, <2>3 DEF Ascending
  <2> QED
    BY <2>2, <2>3, <2>4
<1>5. ASSUME w[1].part = "head"
      PROVE  Gapless(t, low + 1, high)
  <2>1. ASSUME NEW n \in low + 1 + 1 .. high
        PROVE  \E i \in 1 .. Len(t) : t[i].part = "head" /\ t[i].req.id = n
    <3>1. n \in low + 1 .. high /\ n # low + 1
      BY <2>1
    <3> QED
      BY <1>2, <1>4, <1>5, <3>1
  <2> QED
    BY <2>1 DEF Gapless
<1> QED
  BY <1>3, <1>4, <1>5 DEF t

\* A head sent is numbered next; a body has no number.
LEMMA HeadOrdered ==
    ASSUME NEW w \in Seq(Item), NEW low \in Nat, NEW high \in Nat, low <= high,
           Ascending(w, low, high), NEW e \in Item, e.part = "head", e.req.id = high + 1
    PROVE  /\ Ascending(Append(w, e), low, high + 1)
           /\ Gapless(w, low, high) => Gapless(Append(w, e), low, high + 1)
<1> DEFINE a == Append(w, e)
<1>1. /\ Len(w) \in Nat /\ Len(a) = Len(w) + 1 /\ a[Len(w) + 1] = e
      /\ \A i \in 1 .. Len(w) : a[i] = w[i]
  BY WireEnd
<1> HIDE DEF a
<1>2. \A i \in 1 .. Len(w) : w[i].part = "head" => w[i].req.id \in Nat
  BY ItemType, ServerAssumption
<1>3. ASSUME NEW i \in 1 .. Len(a), a[i].part = "head"
      PROVE  low < a[i].req.id /\ a[i].req.id <= high + 1
  <2>1. CASE i = Len(w) + 1
    BY <1>1, <2>1
  <2>2. CASE i \in 1 .. Len(w)
    <3>1. a[i] = w[i]
      BY <1>1, <2>2
    <3> QED
      BY <1>2, <1>3, <2>2, <3>1 DEF Ascending
  <2> QED
    BY <1>1, <2>1, <2>2
<1>4. ASSUME NEW i \in 1 .. Len(a), NEW j \in 1 .. Len(a), i < j,
             a[i].part = "head", a[j].part = "head"
      PROVE  a[i].req.id < a[j].req.id
  <2>1. i \in 1 .. Len(w) /\ a[i] = w[i]
    BY <1>1, <1>4
  <2>2. CASE j = Len(w) + 1
    <3>1. a[j].req.id = high + 1
      BY <1>1, <2>2
    <3>2. w[i].req.id \in Nat /\ w[i].req.id <= high
      BY <1>2, <1>4, <2>1 DEF Ascending
    <3> QED
      BY <2>1, <3>1, <3>2
  <2>3. CASE j \in 1 .. Len(w)
    <3>1. a[j] = w[j]
      BY <1>1, <2>3
    <3> QED
      BY <1>4, <2>1, <2>3, <3>1 DEF Ascending
  <2> QED
    BY <1>1, <2>2, <2>3
<1>5. ASSUME Gapless(w, low, high), NEW n \in low + 1 .. high + 1
      PROVE  \E i \in 1 .. Len(a) : a[i].part = "head" /\ a[i].req.id = n
  <2>1. CASE n = high + 1
    <3>1. Len(w) + 1 \in 1 .. Len(a)
      BY <1>1
    <3> QED
      BY <1>1, <2>1, <3>1
  <2>2. CASE n # high + 1
    <3>1. n \in low + 1 .. high
      BY <2>2
    <3>2. PICK i \in 1 .. Len(w) : w[i].part = "head" /\ w[i].req.id = n
      BY <1>5, <3>1 DEF Gapless
    <3>3. i \in 1 .. Len(a) /\ a[i] = w[i]
      BY <1>1
    <3> QED
      BY <3>2, <3>3
  <2> QED
    BY <2>1, <2>2
<1> QED
  BY <1>3, <1>4, <1>5 DEF a, Ascending, Gapless

LEMMA BodyOrdered ==
    ASSUME NEW w \in Seq(Item), NEW low, NEW high,
           Ascending(w, low, high), NEW e \in Item, e.part # "head"
    PROVE  /\ Ascending(Append(w, e), low, high)
           /\ Gapless(w, low, high) => Gapless(Append(w, e), low, high)
<1> DEFINE a == Append(w, e)
<1>1. /\ Len(w) \in Nat /\ Len(a) = Len(w) + 1 /\ a[Len(w) + 1] = e
      /\ \A i \in 1 .. Len(w) : a[i] = w[i]
  BY WireEnd
<1> HIDE DEF a
<1>2. ASSUME NEW i \in 1 .. Len(a), a[i].part = "head"
      PROVE  i \in 1 .. Len(w) /\ a[i] = w[i]
  <2>1. i # Len(w) + 1
    BY <1>1, <1>2
  <2> QED
    BY <1>1, <2>1
<1>3. Ascending(a, low, high)
  BY <1>2 DEF Ascending
<1>4. ASSUME Gapless(w, low, high), NEW n \in low + 1 .. high
      PROVE  \E i \in 1 .. Len(a) : a[i].part = "head" /\ a[i].req.id = n
  <2>1. PICK i \in 1 .. Len(w) : w[i].part = "head" /\ w[i].req.id = n
    BY <1>4 DEF Gapless
  <2>2. i \in 1 .. Len(a) /\ a[i] = w[i]
    BY <1>1
  <2> QED
    BY <2>1, <2>2
<1> QED
  BY <1>3, <1>4 DEF a, Gapless

-----------------------------------------------------------------------------
(* Steps of one client or session *)

\* What the invariant asks about a client is as it was.
Same(d) ==
    /\ pc'[d] = pc[d] /\ asked'[d] = asked[d] /\ unsent'[d] = unsent[d]
    /\ wire'[d] = wire[d] /\ req'[d] = req[d] /\ keepAlive'[d] = keepAlive[d]
    /\ held'[d] = held[d] /\ status'[d] = status[d] /\ shut'[d] = shut[d]
    /\ answered'[d] = answered[d] /\ misread'[d] = misread[d]

LEMMA OneStep ==
    ASSUME IInv, NEW c \in Clients, \A d \in Clients \ {c} : Same(d),
           crash' = "no" => crash = "no", TypeInv', SessionInv(c)'
    PROVE  IInv'
<1>1. ASSUME NEW d \in Clients, d # c
      PROVE  SessionInv(d)'
  <2>1. SessionInv(d) /\ Same(d)
    BY <1>1 DEF IInv
  <2>2. LoopInv(d)'
    BY <2>1 DEF SessionInv, LoopInv, Same
  <2>3. BodyInv(d)'
    BY <2>1 DEF SessionInv, BodyInv, Same
  <2>4. OrderInv(d)'
    BY <2>1 DEF SessionInv, OrderInv, Same
  <2> QED
    BY <2>2, <2>3, <2>4 DEF SessionInv
<1> QED
  BY <1>1 DEF IInv

LEMMA ConnectIInv ==
    ASSUME IInv, NEW c \in Clients, Connect(c)
    PROVE  IInv'
<1>1. TypeInv /\ SessionInv(c)
  BY DEF IInv
<1>2. \A d \in Clients \ {c} : Same(d)
  BY <1>1 DEF TypeInv, TypeOK, Connect, Same
<1>3. TypeInv'
  BY <1>1 DEF TypeInv, TypeOK, Connect, Steps
<1>4. pc[c] = "away" /\ pc'[c] = "backlog"
  BY <1>1 DEF TypeInv, TypeOK, Connect
<1>5. LoopInv(c)'
  BY <1>1, <1>4 DEF Connect, SessionInv, LoopInv
<1>6. BodyInv(c)'
  BY <1>1, <1>4 DEF Connect, SessionInv, BodyInv
<1>7. OrderInv(c)'
  BY <1>1, <1>4 DEF Connect, SessionInv, OrderInv, InHand
<1> QED
  BY <1>2, <1>3, <1>5, <1>6, <1>7, OneStep DEF Connect, SessionInv

LEMMA LeaveIInv ==
    ASSUME IInv, NEW c \in Clients, Leave(c)
    PROVE  IInv'
<1>1. TypeInv /\ SessionInv(c)
  BY DEF IInv
<1>2. \A d \in Clients : Same(d)
  BY DEF Leave, Same
<1>3. TypeInv'
  BY <1>1 DEF TypeInv, TypeOK, Leave
<1>4. SessionInv(c)'
  BY <1>1 DEF Leave, SessionInv, LoopInv, BodyInv, OrderInv
<1> QED
  BY <1>2, <1>3, <1>4, OneStep DEF Leave

\* The local values of a session, with their types.
LEMMA LocalTypes ==
    ASSUME IInv, NEW c \in Clients
    PROVE  /\ wire[c] \in Seq(Item) /\ answered[c] \in Seq(Replied)
           /\ Len(answered[c]) \in Nat /\ asked[c] \in Nat
           /\ req[c] \in Request \cup {NoRequest} /\ req[c].id \in 0 .. MaxRequests
           /\ req[c].id \in Nat /\ req[c].keepAlive \in BOOLEAN
<1>1. /\ wire[c] \in Seq(Item) /\ answered[c] \in Seq(Replied) /\ asked[c] \in Nat
      /\ req[c] \in Request \cup {NoRequest}
  BY ServerAssumption DEF IInv, TypeInv, TypeOK
<1> QED
  BY <1>1, LenProperties, RequestIds, ServerAssumption

LEMMA SendHeadIInv ==
    ASSUME IInv, NEW c \in Clients, SendHead(c)
    PROVE  IInv'
<1>1. TypeInv /\ SessionInv(c)
  BY DEF IInv
<1>2. PICK r \in Request :
        /\ r.id = asked[c] + 1
        /\ wire' = [wire EXCEPT ![c] = Append(@, [part |-> "head", req |-> r])]
        /\ unsent' = [unsent EXCEPT ![c] = r.body]
  BY DEF SendHead
<1> DEFINE e == [part |-> "head", req |-> r]
<1>3. e \in Item /\ e.part = "head" /\ e.req = r
  BY DEF Item
<1>4. asked[c] < MaxRequests /\ asked' = [asked EXCEPT ![c] = @ + 1] /\ unsent[c] = "none"
      /\ pc[c] \notin {"away", "backlog", "handshake", "closed", "aborted"}
  BY DEF SendHead, Connected
<1>5. UNCHANGED <<crash, listening, acceptor, pc, peer, req, keepAlive, held, status, shut,
                  answered, misread>>
  BY DEF SendHead
<1>6. \A d \in Clients \ {c} : Same(d)
  BY <1>1, <1>2, <1>4, <1>5 DEF TypeInv, TypeOK, Same
<1>7. /\ wire[c] \in Seq(Item) /\ asked[c] \in Nat /\ req[c].id \in Nat
      /\ Len(answered[c]) \in Nat
  BY LocalTypes
<1>8. /\ wire'[c] = Append(wire[c], e) /\ unsent'[c] = r.body /\ asked'[c] = asked[c] + 1
  BY <1>1, <1>2, <1>4 DEF TypeInv, TypeOK
<1>9. TypeInv'
  <2>1. wire' \in [Clients -> Seq(Item)]
    <3>1. Append(wire[c], e) \in Seq(Item)
      BY <1>3, <1>7, WireEnd
    <3> QED
      BY <1>1, <1>2, <3>1 DEF TypeInv
  <2>2. asked' \in [Clients -> 0 .. MaxRequests]
    BY <1>1, <1>4, ServerAssumption DEF TypeInv, TypeOK
  <2>3. unsent' \in [Clients -> Bodies]
    BY <1>1, <1>2 DEF TypeInv, TypeOK, Request
  <2> QED
    BY <1>1, <1>5, <2>1, <2>2, <2>3 DEF TypeInv, TypeOK
<1> HIDE DEF e
<1>10. LoopInv(c)'
  BY <1>1, <1>4, <1>5 DEF SessionInv, LoopInv
<1>11. BodyInv(c)'
  <2> SUFFICES ASSUME ~misread[c]
               PROVE  BodyInv(c)'
    BY <1>5 DEF BodyInv
  <2>1. /\ Framed(Append(wire[c], e), r.body)
        /\ NextIsBody(Append(wire[c], e), r.body) <=> NextIsBody(wire[c], "none")
    BY <1>1, <1>3, <1>4, <1>7, HeadFramed DEF SessionInv, BodyInv, e
  <2> QED
    BY <1>1, <1>4, <1>5, <1>8, <2>1 DEF SessionInv, BodyInv
<1>12. OrderInv(c)'
  <2> SUFFICES ASSUME ~misread[c]
               PROVE  OrderInv(c)'
    BY <1>5 DEF OrderInv
  <2>1. /\ Ascending(Append(wire[c], e), req[c].id, asked[c] + 1)
        /\ Gapless(wire[c], req[c].id, asked[c]) =>
             Gapless(Append(wire[c], e), req[c].id, asked[c] + 1)
    BY <1>1, <1>2, <1>3, <1>7, HeadOrdered DEF SessionInv, OrderInv
  <2> QED
    BY <1>1, <1>5, <1>7, <1>8, <2>1 DEF SessionInv, OrderInv
<1> QED
  BY <1>5, <1>6, <1>9, <1>10, <1>11, <1>12, OneStep DEF SessionInv

LEMMA SendBodyIInv ==
    ASSUME IInv, NEW c \in Clients, SendBody(c)
    PROVE  IInv'
<1> DEFINE e == [part |-> "body", body |-> unsent[c]]
<1>1. TypeInv /\ SessionInv(c)
  BY DEF IInv
<1>2. /\ wire' = [wire EXCEPT ![c] = Append(@, e)] /\ unsent' = [unsent EXCEPT ![c] = "none"]
      /\ unsent[c] # "none"
      /\ UNCHANGED <<crash, listening, acceptor, pc, peer, asked, req, keepAlive, held, status,
                     shut, answered, misread>>
  BY DEF SendBody
<1>3. e \in Item /\ e.part # "head"
  BY <1>1 DEF Item, TypeInv, TypeOK
<1>4. \A d \in Clients \ {c} : Same(d)
  BY <1>1, <1>2 DEF TypeInv, TypeOK, Same
<1>5. /\ wire[c] \in Seq(Item) /\ asked[c] \in Nat /\ req[c].id \in Nat
  BY LocalTypes
<1>6. wire'[c] = Append(wire[c], e) /\ unsent'[c] = "none"
  BY <1>1, <1>2 DEF TypeInv, TypeOK
<1>7. TypeInv'
  <2>1. Append(wire[c], e) \in Seq(Item)
    BY <1>3, <1>5, WireEnd
  <2>2. wire' \in [Clients -> Seq(Item)]
    BY <1>1, <1>2, <2>1 DEF TypeInv
  <2>3. unsent' \in [Clients -> Bodies]
    BY <1>1, <1>2 DEF TypeInv, TypeOK, Bodies
  <2> QED
    BY <1>1, <1>2, <2>2, <2>3 DEF TypeInv, TypeOK
<1>8. pc[c] \notin {"away", "backlog", "handshake"}
  BY <1>1, <1>2 DEF SessionInv, LoopInv
<1>9. LoopInv(c)'
  BY <1>1, <1>2, <1>8 DEF SessionInv, LoopInv
<1>10. BodyInv(c)'
  <2> SUFFICES ASSUME ~misread[c]
               PROVE  BodyInv(c)'
    BY <1>2 DEF BodyInv
  <2>1. /\ Framed(Append(wire[c], e), "none")
        /\ NextIsBody(Append(wire[c], e), "none") <=> NextIsBody(wire[c], unsent[c])
    BY <1>1, <1>2, <1>3, <1>5, BodyFramed DEF SessionInv, BodyInv
  <2> HIDE DEF e
  <2> QED
    BY <1>1, <1>2, <1>6, <2>1 DEF SessionInv, BodyInv
<1>11. OrderInv(c)'
  <2> HIDE DEF e
  <2> SUFFICES ASSUME ~misread[c]
               PROVE  OrderInv(c)'
    BY <1>2 DEF OrderInv
  <2>1. /\ Ascending(Append(wire[c], e), req[c].id, asked[c])
        /\ Gapless(wire[c], req[c].id, asked[c]) =>
             Gapless(Append(wire[c], e), req[c].id, asked[c])
    BY <1>1, <1>3, <1>5, BodyOrdered DEF SessionInv, OrderInv
  <2> QED
    BY <1>1, <1>2, <1>6, <2>1 DEF SessionInv, OrderInv
<1> QED
  BY <1>2, <1>4, <1>7, <1>9, <1>10, <1>11, OneStep DEF SessionInv

LEMMA AcceptIInv ==
    ASSUME IInv, NEW c \in Clients, Accept(c)
    PROVE  IInv'
<1>1. TypeInv /\ SessionInv(c)
  BY DEF IInv
<1>2. \A d \in Clients \ {c} : Same(d)
  BY <1>1 DEF TypeInv, TypeOK, Accept, Goto, Same
<1>3. pc[c] = "backlog" /\ pc' = [pc EXCEPT ![c] = "handshake"] /\ pc'[c] = "handshake"
  BY <1>1 DEF TypeInv, TypeOK, Accept, Goto
<1>4. UNCHANGED <<crash, listening, peer, asked, unsent, wire, req, keepAlive, held, status,
                  shut, answered, misread>>
  BY DEF Accept
<1>5. TypeInv'
  <2>1. pc' \in [Clients -> Steps]
    BY <1>1, <1>3 DEF TypeInv, TypeOK, Steps
  <2>2. \A d \in Clients : acceptor' = d <=> pc'[d] = "handshake"
    BY <1>1, <1>3, ServerAssumption DEF TypeInv, TypeOK, Accept
  <2> QED
    BY <1>1, <1>3, <1>4, <2>1, <2>2 DEF TypeInv, TypeOK, Accept
<1>6. LoopInv(c)'
  BY <1>1, <1>3, <1>4 DEF SessionInv, LoopInv
<1>7. BodyInv(c)'
  BY <1>1, <1>3, <1>4 DEF SessionInv, BodyInv
<1>8. OrderInv(c)'
  BY <1>1, <1>3, <1>4 DEF SessionInv, OrderInv, InHand
<1> QED
  BY <1>2, <1>4, <1>5, <1>6, <1>7, <1>8, OneStep DEF SessionInv

\* The connections in the backlog have sent nothing that anybody read.
LEMMA AcceptFailsIInv ==
    ASSUME IInv, AcceptFails
    PROVE  IInv'
<1>1. TypeInv
  BY DEF IInv
<1>2. /\ pc' = [c \in Clients |-> IF pc[c] = "backlog" THEN "aborted" ELSE pc[c]]
      /\ listening' = FALSE
      /\ UNCHANGED <<crash, acceptor, peer, asked, unsent, wire, req, keepAlive, held, status,
                     shut, answered, misread>>
  BY DEF AcceptFails
<1>3. TypeInv'
  <2>1. pc' \in [Clients -> Steps]
    BY <1>1, <1>2 DEF TypeInv, TypeOK, Steps
  <2>2. \A d \in Clients : /\ acceptor' = d <=> pc'[d] = "handshake"
                           /\ status'[d] # "none" <=> pc'[d] = "write"
    BY <1>1, <1>2 DEF TypeInv, TypeOK
  <2> QED
    BY <1>1, <1>2, <2>1, <2>2 DEF TypeInv, TypeOK
<1>4. ASSUME NEW d \in Clients
      PROVE  SessionInv(d)'
  <2>1. SessionInv(d)
    BY DEF IInv
  <2>2. CASE pc[d] # "backlog"
    <3>1. Same(d) /\ crash' = crash
      BY <1>2, <2>2 DEF Same
    <3> QED
      BY <2>1, <3>1 DEF Same, SessionInv, LoopInv, BodyInv, OrderInv
  <2>3. CASE pc[d] = "backlog"
    <3>1. pc'[d] = "aborted"
      BY <1>2, <2>3
    <3>2. LoopInv(d)'
      BY <1>2, <2>1, <2>3, <3>1 DEF SessionInv, LoopInv
    <3>3. BodyInv(d)'
      BY <1>2, <2>1, <2>3, <3>1 DEF SessionInv, BodyInv
    <3>4. OrderInv(d)'
      BY <1>2, <2>1, <2>3, <3>1 DEF SessionInv, OrderInv, InHand
    <3> QED
      BY <3>2, <3>3, <3>4 DEF SessionInv
  <2> QED
    BY <2>2, <2>3
<1> QED
  BY <1>3, <1>4 DEF IInv

LEMMA HandshakeIInv ==
    ASSUME IInv, NEW c \in Clients, Handshake(c)
    PROVE  IInv'
<1>1. TypeInv /\ SessionInv(c)
  BY DEF IInv
<1>2. \A d \in Clients \ {c} : Same(d)
  BY <1>1 DEF TypeInv, TypeOK, Handshake, Goto, Same
<1>3. pc[c] = "handshake" /\ pc' = [pc EXCEPT ![c] = "readHeader"] /\ pc'[c] = "readHeader"
  BY <1>1 DEF TypeInv, TypeOK, Handshake, Goto
<1>4. UNCHANGED <<crash, listening, peer, asked, unsent, wire, req, keepAlive, held, status,
                  shut, answered, misread>>
  BY DEF Handshake
<1>5. TypeInv'
  <2>1. pc' \in [Clients -> Steps]
    BY <1>1, <1>3 DEF TypeInv, TypeOK, Steps
  <2>2. \A d \in Clients : acceptor' = d <=> pc'[d] = "handshake"
    BY <1>1, <1>3, ServerAssumption DEF TypeInv, TypeOK, Handshake
  <2> QED
    BY <1>1, <1>3, <1>4, <2>1, <2>2 DEF TypeInv, TypeOK, Handshake
<1>6. LoopInv(c)'
  BY <1>1, <1>3, <1>4 DEF SessionInv, LoopInv
<1>7. BodyInv(c)'
  <2>1. ~NextIsBody(wire[c], unsent[c])
    BY <1>1, <1>3 DEF SessionInv, LoopInv, NextIsBody
  <2> QED
    BY <1>1, <1>3, <1>4, <2>1 DEF SessionInv, BodyInv
<1>8. OrderInv(c)'
  BY <1>1, <1>3, <1>4 DEF SessionInv, OrderInv, InHand
<1> QED
  BY <1>2, <1>4, <1>5, <1>6, <1>7, <1>8, OneStep DEF SessionInv

\* Nothing left to read and the client gone.
LEMMA ReadNothingIInv ==
    ASSUME IInv, NEW c \in Clients, pc[c] = "readHeader",
           pc' = [pc EXCEPT ![c] = "aborted"], held' = [held EXCEPT ![c] = FALSE],
           UNCHANGED <<crash, listening, acceptor, peer, asked, unsent, wire, req, keepAlive, status,
                       shut, answered, misread>>
    PROVE  IInv'
<1>1. TypeInv /\ SessionInv(c)
  BY DEF IInv
<1>2. \A d \in Clients \ {c} : Same(d)
  BY <1>1 DEF TypeInv, TypeOK, Same
<1>3. pc'[c] = "aborted" /\ ~held'[c]
  BY <1>1 DEF TypeInv, TypeOK
<1>4. TypeInv'
  BY <1>1 DEF TypeInv, TypeOK, Steps
<1>5. status[c] # "unauthorized"
  BY <1>1 DEF TypeInv, TypeOK
<1>6. LoopInv(c)'
  BY <1>1, <1>3, <1>5 DEF SessionInv, LoopInv
<1>7. BodyInv(c)'
  BY <1>1, <1>3 DEF SessionInv, BodyInv
<1>8. OrderInv(c)'
  BY <1>1, <1>3 DEF SessionInv, OrderInv, InHand
<1> QED
  BY <1>2, <1>4, <1>6, <1>7, <1>8, OneStep DEF SessionInv

\* An item read that is no request, or beyond the limits.
LEMMA ReadRefusedIInv ==
    ASSUME IInv, NEW c \in Clients, pc[c] = "readHeader", wire[c] # <<>>,
           pc' = [pc EXCEPT ![c] = "aborted"], held' = [held EXCEPT ![c] = FALSE],
           misread' = [misread EXCEPT ![c] = @ \/ wire[c][1].part # "head"],
           wire' = [wire EXCEPT ![c] = Tail(@)],
           UNCHANGED <<crash, listening, acceptor, peer, asked, unsent, req, keepAlive, status,
                       shut, answered>>
    PROVE  IInv'
<1>1. TypeInv /\ SessionInv(c)
  BY DEF IInv
<1>2. \A d \in Clients \ {c} : Same(d)
  BY <1>1 DEF TypeInv, TypeOK, Same
<1>3. /\ pc'[c] = "aborted" /\ ~held'[c] /\ wire'[c] = Tail(wire[c])
      /\ misread[c] => misread'[c]
  BY <1>1 DEF TypeInv, TypeOK
<1>4. wire[c] \in Seq(Item) /\ req[c].id \in Nat /\ asked[c] \in Nat
  BY LocalTypes
<1>5. TypeInv'
  <2>1. Tail(wire[c]) \in Seq(Item)
    BY <1>4, WireStart
  <2>2. wire' \in [Clients -> Seq(Item)]
    BY <1>1, <2>1 DEF TypeInv
  <2>3. pc' \in [Clients -> Steps] /\ held' \in [Clients -> BOOLEAN]
    BY <1>1 DEF TypeInv, TypeOK, Steps
  <2>4. misread' \in [Clients -> BOOLEAN]
    BY <1>1 DEF TypeInv
  <2>5. \A d \in Clients : /\ acceptor' = d <=> pc'[d] = "handshake"
                           /\ status'[d] # "none" <=> pc'[d] = "write"
    BY <1>1 DEF TypeInv, TypeOK
  <2> QED
    BY <1>1, <2>2, <2>3, <2>4, <2>5 DEF TypeInv, TypeOK
<1>6. status[c] # "unauthorized"
  BY <1>1 DEF TypeInv, TypeOK
<1>7. LoopInv(c)'
  BY <1>1, <1>3, <1>6 DEF SessionInv, LoopInv
<1>8. BodyInv(c)'
  <2> SUFFICES ASSUME ~misread[c]
               PROVE  BodyInv(c)'
    BY <1>3 DEF BodyInv
  <2>1. Framed(Tail(wire[c]), unsent[c])
    BY <1>1, <1>4, ReadFramed DEF SessionInv, BodyInv
  <2> QED
    BY <1>3, <2>1 DEF BodyInv
<1>9. OrderInv(c)'
  <2> SUFFICES ASSUME ~misread[c]
               PROVE  OrderInv(c)'
    BY <1>3 DEF OrderInv
  <2>1. Ascending(Tail(wire[c]), req[c].id, asked[c])
    BY <1>1, <1>4, ReadAscending DEF SessionInv, OrderInv
  <2> QED
    BY <1>1, <1>3, <2>1 DEF SessionInv, OrderInv, InHand
<1> QED
  BY <1>2, <1>5, <1>7, <1>8, <1>9, OneStep DEF SessionInv

\* A head read: the next request, whose body is next if it has one.
LEMMA ReadRequestIInv ==
    ASSUME IInv, NEW c \in Clients, pc[c] = "readHeader", wire[c] # <<>>,
           wire[c][1].part = "head",
           pc' = [pc EXCEPT ![c] = "authorize"], held' = [held EXCEPT ![c] = FALSE],
           req' = [req EXCEPT ![c] = wire[c][1].req],
           wire' = [wire EXCEPT ![c] = Tail(@)],
           UNCHANGED <<crash, listening, acceptor, peer, asked, unsent, keepAlive, status,
                       shut, answered, misread>>
    PROVE  IInv'
<1> DEFINE r == wire[c][1].req
<1>1. TypeInv /\ SessionInv(c)
  BY DEF IInv
<1>2. \A d \in Clients \ {c} : Same(d)
  BY <1>1 DEF TypeInv, TypeOK, Same
<1>3. /\ pc'[c] = "authorize" /\ ~held'[c] /\ wire'[c] = Tail(wire[c]) /\ req'[c] = r
  BY <1>1 DEF TypeInv, TypeOK
<1>4. /\ wire[c] \in Seq(Item) /\ req[c].id \in Nat /\ asked[c] \in Nat
      /\ Len(answered[c]) \in Nat
  BY LocalTypes
<1>5. r \in Request
  <2>1. 1 \in 1 .. Len(wire[c])
    BY <1>4, WireStart
  <2> QED
    BY <1>4, <2>1, ItemType
<1>6. TypeInv'
  <2>1. Tail(wire[c]) \in Seq(Item)
    BY <1>4, WireStart
  <2>2. wire' \in [Clients -> Seq(Item)]
    BY <1>1, <2>1 DEF TypeInv
  <2>3. pc' \in [Clients -> Steps] /\ held' \in [Clients -> BOOLEAN]
    BY <1>1 DEF TypeInv, TypeOK, Steps
  <2>4. misread' \in [Clients -> BOOLEAN]
    BY <1>1 DEF TypeInv
  <2>5. req' \in [Clients -> Request \cup {NoRequest}]
    BY <1>1, <1>5 DEF TypeInv, TypeOK
  <2>6. \A d \in Clients : /\ acceptor' = d <=> pc'[d] = "handshake"
                           /\ status'[d] # "none" <=> pc'[d] = "write"
    BY <1>1 DEF TypeInv, TypeOK
  <2> QED
    BY <1>1, <2>2, <2>3, <2>4, <2>5, <2>6 DEF TypeInv, TypeOK
<1>7. status[c] # "unauthorized"
  BY <1>1 DEF TypeInv, TypeOK
<1> HIDE DEF r
<1>8. LoopInv(c)'
  BY <1>1, <1>3, <1>7 DEF SessionInv, LoopInv
<1>9. BodyInv(c)'
  <2> SUFFICES ASSUME ~misread[c]
               PROVE  BodyInv(c)'
    BY <1>3 DEF BodyInv
  <2>1. /\ Framed(Tail(wire[c]), unsent[c])
        /\ NextIsBody(Tail(wire[c]), unsent[c]) <=> r.body # "none"
    BY <1>1, <1>4, ReadFramed DEF SessionInv, BodyInv, Announces, r
  <2> QED
    BY <1>3, <2>1 DEF BodyInv
<1>10. OrderInv(c)'
  <2> SUFFICES ASSUME ~misread[c]
               PROVE  OrderInv(c)'
    BY <1>3 DEF OrderInv
  <2>1. /\ Ascending(wire[c], req[c].id, asked[c]) /\ Gapless(wire[c], req[c].id, asked[c])
        /\ Len(answered[c]) = req[c].id
        /\ \A i \in 1 .. Len(answered[c]) : answered[c][i].id = i
    BY <1>1 DEF SessionInv, OrderInv, InHand
  <2>2. /\ r.id = req[c].id + 1 /\ req[c].id + 1 <= asked[c]
        /\ Gapless(Tail(wire[c]), req[c].id + 1, asked[c])
    BY <1>4, <2>1, ReadGapless DEF r
  <2>3. Ascending(Tail(wire[c]), r.id, asked[c])
    BY <1>4, <2>1, ReadAscending DEF r
  <2> QED
    BY <1>3, <1>4, <2>1, <2>2, <2>3 DEF OrderInv, InHand
<1> QED
  BY <1>2, <1>6, <1>8, <1>9, <1>10, OneStep DEF SessionInv

\* Bytes of a body taken for a head: nothing is known of the wire from then on.
LEMMA ReadBodyIInv ==
    ASSUME IInv, NEW c \in Clients, pc[c] = "readHeader",
           NEW r \in Request, NEW left \in Astray(wire[c]),
           pc' = [pc EXCEPT ![c] = "authorize"], held' = [held EXCEPT ![c] = FALSE],
           misread' = [misread EXCEPT ![c] = TRUE],
           req' = [req EXCEPT ![c] = r],
           wire' = [wire EXCEPT ![c] = left],
           UNCHANGED <<crash, listening, acceptor, peer, asked, unsent, keepAlive, status,
                       shut, answered>>
    PROVE  IInv'
<1>1. TypeInv /\ SessionInv(c)
  BY DEF IInv
<1>2. \A d \in Clients \ {c} : Same(d)
  BY <1>1 DEF TypeInv, TypeOK, Same
<1>3. pc'[c] = "authorize" /\ ~held'[c] /\ misread'[c]
  BY <1>1 DEF TypeInv, TypeOK
<1>4. left \in Seq(Item)
  BY LocalTypes, AstrayTypes
<1>5. TypeInv'
  <2>1. wire' \in [Clients -> Seq(Item)]
    BY <1>1, <1>4 DEF TypeInv
  <2>2. pc' \in [Clients -> Steps] /\ held' \in [Clients -> BOOLEAN]
    BY <1>1 DEF TypeInv, TypeOK, Steps
  <2>3. misread' \in [Clients -> BOOLEAN]
    BY <1>1 DEF TypeInv
  <2>4. req' \in [Clients -> Request \cup {NoRequest}]
    BY <1>1 DEF TypeInv, TypeOK
  <2>5. \A d \in Clients : /\ acceptor' = d <=> pc'[d] = "handshake"
                           /\ status'[d] # "none" <=> pc'[d] = "write"
    BY <1>1 DEF TypeInv, TypeOK
  <2> QED
    BY <1>1, <2>1, <2>2, <2>3, <2>4, <2>5 DEF TypeInv, TypeOK
<1>6. status[c] # "unauthorized"
  BY <1>1 DEF TypeInv, TypeOK
<1>7. LoopInv(c)'
  BY <1>1, <1>3, <1>6 DEF SessionInv, LoopInv
<1>8. BodyInv(c)' /\ OrderInv(c)'
  BY <1>3 DEF BodyInv, OrderInv
<1> QED
  BY <1>2, <1>5, <1>7, <1>8, OneStep DEF SessionInv

LEMMA ReadHeaderIInv ==
    ASSUME IInv, NEW c \in Clients, ReadHeader(c)
    PROVE  IInv'
<1>1. /\ pc[c] = "readHeader" /\ held' = [held EXCEPT ![c] = FALSE]
      /\ UNCHANGED <<crash, listening, acceptor, peer, asked, unsent, keepAlive, status, shut,
                     answered>>
  BY DEF ReadHeader
<1>2. wire[c] # <<>> => Head(wire[c]) = wire[c][1]
  BY LocalTypes, WireStart
<1>3. CASE Abort(c) /\ UNCHANGED <<req, wire, misread>>
  BY <1>1, <1>3, ReadNothingIInv DEF Abort, Goto
<1>4. CASE /\ wire[c] # <<>> /\ Abort(c)
           /\ misread' = [misread EXCEPT ![c] = @ \/ Head(wire[c]).part # "head"]
           /\ wire' = [wire EXCEPT ![c] = Tail(@)]
           /\ UNCHANGED req
  BY <1>1, <1>2, <1>4, ReadRefusedIInv DEF Abort, Goto
<1>5. CASE /\ wire[c] # <<>> /\ Head(wire[c]).part = "head" /\ Goto(c, "authorize")
           /\ req' = [req EXCEPT ![c] = Head(wire[c]).req]
           /\ wire' = [wire EXCEPT ![c] = Tail(@)]
           /\ UNCHANGED misread
  BY <1>1, <1>2, <1>5, ReadRequestIInv DEF Goto
<1>6. ASSUME NEW r \in Request, NEW left \in Astray(wire[c]), Goto(c, "authorize"),
             req' = [req EXCEPT ![c] = r], wire' = [wire EXCEPT ![c] = left],
             misread' = [misread EXCEPT ![c] = TRUE]
      PROVE  IInv'
  BY <1>1, <1>6, ReadBodyIInv DEF Goto
<1> QED
  BY <1>3, <1>4, <1>5, <1>6 DEF ReadHeader

\* The process has died: no session goes on.
LEMMA CrashIInv ==
    ASSUME IInv, NEW c \in Clients, crash' \in {"absolute", "missingField", "emptyRequest"},
           UNCHANGED <<listening, acceptor, pc, peer, asked, unsent, wire, req, keepAlive, held, status,
                       shut, answered, misread>>
    PROVE  IInv'
<1>1. TypeInv /\ SessionInv(c)
  BY DEF IInv
<1>2. \A d \in Clients : Same(d)
  BY DEF Same
<1>3. TypeInv'
  BY <1>1 DEF TypeInv, TypeOK
<1>4. LoopInv(c)' /\ OrderInv(c)'
  BY <1>1 DEF SessionInv, LoopInv, OrderInv
<1>5. BodyInv(c)'
  BY <1>1 DEF SessionInv, BodyInv
<1> QED
  BY <1>2, <1>3, <1>4, <1>5, OneStep DEF SessionInv

\* A session moves on with its local keep_alive, its request's, the connection
\* it holds and the reply it makes, and reads nothing.
LEMMA MoveTypes ==
    ASSUME IInv, NEW c \in Clients, pc[c] # "handshake",
           NEW p \in Steps \ {"handshake"}, pc' = [pc EXCEPT ![c] = p],
           NEW v \in Statuses, status' = [status EXCEPT ![c] = v], v # "none" <=> p = "write",
           req' \in [Clients -> Request \cup {NoRequest}],
           keepAlive' \in [Clients -> BOOLEAN], held' \in [Clients -> BOOLEAN],
           wire' \in [Clients -> Seq(Item)],
           UNCHANGED <<crash, listening, acceptor, asked, unsent, shut, answered, misread>>,
           peer' \in [Clients -> {"open", "left", "broken"}]
    PROVE  TypeInv'
<1>1. TypeInv
  BY DEF IInv
<1>2. pc' \in [Clients -> Steps] /\ status' \in [Clients -> Statuses]
  BY <1>1 DEF TypeInv, TypeOK
<1>3. \A d \in Clients : acceptor' = d <=> pc'[d] = "handshake"
  BY <1>1 DEF TypeInv, TypeOK
<1>4. \A d \in Clients : status'[d] # "none" <=> pc'[d] = "write"
  BY <1>1 DEF TypeInv, TypeOK
<1> QED
  BY <1>1, <1>2, <1>3, <1>4 DEF TypeInv, TypeOK

LEMMA AllowedIInv ==
    ASSUME IInv, NEW c \in Clients, crash = "no", pc[c] = "authorize",
           keepAlive' = [keepAlive EXCEPT ![c] = req[c].keepAlive],
           pc' = [pc EXCEPT ![c] = "handleRequest"],
           UNCHANGED <<crash, listening, acceptor, peer, asked, unsent, wire, req, held, status, shut,
                       answered, misread>>
    PROVE  IInv'
<1>1. TypeInv /\ SessionInv(c)
  BY DEF IInv
<1>2. \A d \in Clients \ {c} : Same(d)
  BY <1>1 DEF TypeInv, TypeOK, Same
<1>3. pc'[c] = "handleRequest" /\ keepAlive'[c] = req[c].keepAlive
  BY <1>1 DEF TypeInv, TypeOK
<1>4. TypeInv'
  <2>1. keepAlive' \in [Clients -> BOOLEAN]
    BY <1>1, LocalTypes DEF TypeInv
  <2> QED
    BY <1>1, <2>1 DEF TypeInv, TypeOK, Steps
<1>5. ~held[c]
  BY <1>1 DEF SessionInv, LoopInv
<1>6. LoopInv(c)'
  BY <1>1, <1>3, <1>5 DEF SessionInv, LoopInv
<1>7. BodyInv(c)'
  BY <1>1, <1>3 DEF SessionInv, BodyInv
<1>8. OrderInv(c)'
  BY <1>1, <1>3 DEF SessionInv, OrderInv, InHand
<1> QED
  BY <1>2, <1>4, <1>6, <1>7, <1>8, OneStep DEF SessionInv

LEMMA RefusedIInv ==
    ASSUME IInv, NEW c \in Clients, pc[c] = "authorize", req[c].kind # "none",
           req' = [req EXCEPT ![c].keepAlive = FALSE],
           held' = [held EXCEPT ![c] = TRUE],
           status' = [status EXCEPT ![c] = "unauthorized"],
           keepAlive' = [keepAlive EXCEPT ![c] = FALSE],
           pc' = [pc EXCEPT ![c] = "write"],
           UNCHANGED <<crash, listening, acceptor, peer, asked, unsent, wire, shut, answered, misread>>
    PROVE  IInv'
<1>1. TypeInv /\ SessionInv(c)
  BY DEF IInv
<1>2. \A d \in Clients \ {c} : Same(d)
  BY <1>1 DEF TypeInv, TypeOK, Same
<1>3. /\ pc'[c] = "write" /\ ~keepAlive'[c] /\ held'[c] /\ status'[c] = "unauthorized"
      /\ ~req'[c].keepAlive /\ req'[c].id = req[c].id
  BY <1>1 DEF TypeInv, TypeOK, Request, NoRequest
<1>4. TypeInv'
  <2>1. pc[c] # "handshake" /\ "write" \in Steps \ {"handshake"} /\ "unauthorized" \in Statuses
    BY DEF Steps, Statuses
  <2>2. req' \in [Clients -> Request \cup {NoRequest}]
    <3>1. req[c] # NoRequest => [req[c] EXCEPT !.keepAlive = FALSE] \in Request
      BY LocalTypes DEF Request
    <3>2. req[c] # NoRequest
      BY DEF NoRequest
    <3> QED
      BY <1>1, <3>1, <3>2 DEF TypeInv, TypeOK
  <2> QED
    BY <1>1, <2>1, <2>2, MoveTypes DEF TypeInv, TypeOK
<1>5. LoopInv(c)'
  BY <1>1, <1>3 DEF SessionInv, LoopInv
<1>6. BodyInv(c)'
  BY <1>1, <1>3 DEF SessionInv, BodyInv
<1>7. OrderInv(c)'
  BY <1>1, <1>3 DEF SessionInv, OrderInv, InHand
<1> QED
  BY <1>2, <1>4, <1>5, <1>6, <1>7, OneStep DEF SessionInv

LEMMA AuthorizeIInv ==
    ASSUME IInv, NEW c \in Clients, Authorize(c)
    PROVE  IInv'
<1>1. /\ crash = "no" /\ pc[c] = "authorize"
      /\ UNCHANGED <<listening, acceptor, peer, asked, unsent, wire, shut, answered, misread>>
  BY DEF Authorize, Running
<1>2. CASE Crash("absolute") /\ UNCHANGED <<keepAlive, req>>
  BY <1>1, <1>2, CrashIInv DEF Crash
<1>3. CASE /\ keepAlive' = [keepAlive EXCEPT ![c] = req[c].keepAlive]
           /\ Goto(c, "handleRequest")
           /\ UNCHANGED <<crash, req, held, status>>
  BY <1>1, <1>3, AllowedIInv DEF Goto
<1>4. CASE /\ req[c].kind \in {"json", "download", "unrouted"}
           /\ req' = [req EXCEPT ![c].keepAlive = FALSE]
           /\ held' = [held EXCEPT ![c] = TRUE]
           /\ status' = [status EXCEPT ![c] = "unauthorized"]
           /\ keepAlive' = [keepAlive EXCEPT ![c] = FALSE]
           /\ Goto(c, "write")
           /\ UNCHANGED crash
  <2>1. req[c].kind # "none"
    BY <1>4
  <2> QED
    BY <1>1, <1>4, <2>1, RefusedIInv DEF Goto
<1> QED
  BY <1>2, <1>3, <1>4 DEF Authorize

\* A handler that has no body to wait for, or has none of its business.
LEMMA HandledIInv ==
    ASSUME IInv, NEW c \in Clients, crash = "no", pc[c] = "handleRequest", ~AwaitsBody(c),
           pc' = [pc EXCEPT ![c] = "handleResponse"],
           UNCHANGED <<crash, listening, acceptor, peer, asked, unsent, wire, req, keepAlive, held, status,
                       shut, answered, misread>>
    PROVE  IInv'
<1>1. TypeInv /\ SessionInv(c)
  BY DEF IInv
<1>2. \A d \in Clients \ {c} : Same(d)
  BY <1>1 DEF TypeInv, TypeOK, Same
<1>3. pc'[c] = "handleResponse"
  BY <1>1 DEF TypeInv, TypeOK
<1>4. TypeInv'
  BY <1>1 DEF TypeInv, TypeOK, Steps
<1>5. LoopInv(c)'
  BY <1>1, <1>3 DEF SessionInv, LoopInv
<1>6. BodyInv(c)'
  BY <1>1, <1>3 DEF SessionInv, BodyInv, AwaitsBody
<1>7. OrderInv(c)'
  BY <1>1, <1>3 DEF SessionInv, OrderInv, InHand
<1> QED
  BY <1>2, <1>4, <1>5, <1>6, <1>7, OneStep DEF SessionInv

\* A body read, and what the handler makes of it.
LEMMA BodyReadIInv ==
    ASSUME IInv, NEW c \in Clients, crash = "no", pc[c] = "handleRequest",
           AwaitsBody(c), wire[c] # <<>>, NEW left \in BodyRead(c),
           wire' = [wire EXCEPT ![c] = left],
           \/ pc' = [pc EXCEPT ![c] = "handleResponse"] /\ UNCHANGED crash
           \/ UNCHANGED pc /\ crash' = "missingField",
           UNCHANGED <<listening, acceptor, peer, asked, unsent, req, keepAlive, held, status,
                       shut, answered, misread>>
    PROVE  IInv'
<1>1. TypeInv /\ SessionInv(c)
  BY DEF IInv
<1>2. \A d \in Clients \ {c} : Same(d)
  BY <1>1 DEF TypeInv, TypeOK, Same
<1>3. wire'[c] = left
  BY <1>1 DEF TypeInv
<1>4. \/ pc'[c] = "handleResponse"
      \/ pc'[c] = "handleRequest" /\ crash' # "no"
  BY <1>1 DEF TypeInv, TypeOK
<1>5. /\ wire[c] \in Seq(Item) /\ req[c].id \in Nat /\ asked[c] \in Nat
      /\ Len(answered[c]) \in Nat
  BY LocalTypes
<1>6. ~misread[c] => left = Tail(wire[c]) /\ wire[c][1].part # "head"
  <2> SUFFICES ASSUME ~misread[c]
               PROVE  left = Tail(wire[c]) /\ wire[c][1].part # "head"
    OBVIOUS
  <2>1. req[c].id # 0
    BY <1>1, <1>5 DEF SessionInv, OrderInv, InHand
  <2>2. wire[c][1].part # "head"
    BY <1>1 DEF SessionInv, BodyInv, AwaitsBody, NextIsBody
  <2> QED
    BY <2>1, <2>2 DEF BodyRead
<1>7. TypeInv'
  <2>1. left \in Seq(Item)
    BY <1>5, WireStart, AstrayTypes DEF BodyRead
  <2>2. wire' \in [Clients -> Seq(Item)]
    BY <1>1, <2>1 DEF TypeInv
  <2>3. pc' \in [Clients -> Steps]
    BY <1>1 DEF TypeInv, TypeOK, Steps
  <2>4. \A d \in Clients : acceptor' = d <=> pc'[d] = "handshake"
    BY <1>1 DEF TypeInv, TypeOK
  <2>5. \A d \in Clients : status'[d] # "none" <=> pc'[d] = "write"
    BY <1>1 DEF TypeInv, TypeOK
  <2>6. crash' \in {"no", "absolute", "missingField", "emptyRequest"}
    BY <1>1 DEF TypeInv, TypeOK
  <2> QED
    BY <1>1, <2>2, <2>3, <2>4, <2>5, <2>6 DEF TypeInv, TypeOK
<1>8. LoopInv(c)'
  BY <1>1, <1>3, <1>4 DEF SessionInv, LoopInv
<1>9. BodyInv(c)'
  <2> SUFFICES ASSUME ~misread[c]
               PROVE  BodyInv(c)'
    BY DEF BodyInv
  <2>1. Framed(Tail(wire[c]), unsent[c]) /\ ~NextIsBody(Tail(wire[c]), unsent[c])
    BY <1>1, <1>5, <1>6, ReadFramed DEF SessionInv, BodyInv, Announces
  <2> QED
    BY <1>3, <1>4, <1>6, <2>1 DEF BodyInv
<1>10. OrderInv(c)'
  <2> SUFFICES ASSUME ~misread[c]
               PROVE  OrderInv(c)'
    BY DEF OrderInv
  <2>1. Ascending(wire[c], req[c].id, asked[c]) /\ Gapless(wire[c], req[c].id, asked[c])
    BY <1>1 DEF SessionInv, OrderInv
  <2>2. /\ Ascending(Tail(wire[c]), req[c].id, asked[c])
        /\ Gapless(Tail(wire[c]), req[c].id, asked[c])
    BY <1>5, <1>6, <2>1, ReadAscending, ReadGapless
  <2> QED
    BY <1>1, <1>3, <1>4, <1>6, <2>2 DEF SessionInv, OrderInv, InHand
<1> QED
  BY <1>2, <1>7, <1>8, <1>9, <1>10, OneStep DEF SessionInv

\* An exception: doSession goes to its reply of 500.
LEMMA ExceptionIInv ==
    ASSUME IInv, NEW c \in Clients, pc[c] \in {"handleRequest", "handleResponse"},
           pc' = [pc EXCEPT ![c] = "internalError"],
           UNCHANGED <<crash, listening, acceptor, peer, asked, unsent, wire, req, keepAlive, held, status,
                       shut, answered, misread>>
    PROVE  IInv'
<1>1. TypeInv /\ SessionInv(c)
  BY DEF IInv
<1>2. \A d \in Clients \ {c} : Same(d)
  BY <1>1 DEF TypeInv, TypeOK, Same
<1>3. pc'[c] = "internalError"
  BY <1>1 DEF TypeInv, TypeOK
<1>4. TypeInv'
  BY <1>1 DEF TypeInv, TypeOK, Steps
<1>5. LoopInv(c)'
  BY <1>1, <1>3 DEF SessionInv, LoopInv
<1>6. BodyInv(c)'
  BY <1>1, <1>3 DEF SessionInv, BodyInv
<1>7. OrderInv(c)'
  BY <1>1, <1>3 DEF SessionInv, OrderInv, InHand
<1> QED
  BY <1>2, <1>4, <1>5, <1>6, <1>7, OneStep DEF SessionInv

LEMMA HandleRequestIInv ==
    ASSUME IInv, NEW c \in Clients, HandleRequest(c)
    PROVE  IInv'
<1>1. /\ crash = "no" /\ pc[c] = "handleRequest"
      /\ UNCHANGED <<listening, acceptor, peer, asked, unsent, req, keepAlive, shut, answered, misread>>
  BY DEF HandleRequest, Running
<1>2. CASE ~AwaitsBody(c) /\ Handled(c) /\ UNCHANGED wire
  <2>1. CASE Crash("missingField")
    BY <1>1, <1>2, <2>1, CrashIInv DEF Crash
  <2>2. CASE Goto(c, "handleResponse") /\ UNCHANGED <<crash, held, status>>
    BY <1>1, <1>2, <2>2, HandledIInv DEF Goto
  <2> QED
    BY <1>2, <2>1, <2>2 DEF Handled
<1>3. ASSUME AwaitsBody(c), wire[c] # <<>>, NEW left \in BodyRead(c),
             wire' = [wire EXCEPT ![c] = left], Handled(c)
      PROVE  IInv'
  <2>1. \/ pc' = [pc EXCEPT ![c] = "handleResponse"] /\ UNCHANGED crash
        \/ UNCHANGED pc /\ crash' = "missingField"
    BY <1>3 DEF Handled, Crash, Goto
  <2>2. UNCHANGED <<held, status>>
    BY <1>3 DEF Handled, Crash
  <2> QED
    BY <1>1, <1>3, <2>1, <2>2, BodyReadIInv
<1>4. CASE Goto(c, "internalError") /\ UNCHANGED <<crash, held, status, wire>>
  BY <1>1, <1>4, ExceptionIInv DEF Goto
<1> QED
  BY <1>2, <1>3, <1>4 DEF HandleRequest

LEMMA RespondIInv ==
    ASSUME IInv, NEW c \in Clients, pc[c] = "handleResponse",
           NEW reply \in Statuses \ {"none", "unauthorized"},
           status' = [status EXCEPT ![c] = reply],
           pc' = [pc EXCEPT ![c] = "write"],
           UNCHANGED <<crash, listening, acceptor, peer, asked, unsent, wire, req, keepAlive, held,
                       shut, answered, misread>>
    PROVE  IInv'
<1>1. TypeInv /\ SessionInv(c)
  BY DEF IInv
<1>2. \A d \in Clients \ {c} : Same(d)
  BY <1>1 DEF TypeInv, TypeOK, Same
<1>3. pc'[c] = "write" /\ status'[c] = reply
  BY <1>1 DEF TypeInv, TypeOK
<1>4. TypeInv'
  <2>1. pc[c] # "handshake" /\ "write" \in Steps \ {"handshake"} /\ reply \in Statuses
        /\ reply # "none"
    BY DEF Steps
  <2> QED
    BY <1>1, <2>1, MoveTypes DEF TypeInv, TypeOK
<1>5. LoopInv(c)'
  BY <1>1, <1>3 DEF SessionInv, LoopInv
<1>6. BodyInv(c)'
  BY <1>1, <1>3 DEF SessionInv, BodyInv
<1>7. OrderInv(c)'
  BY <1>1, <1>3 DEF SessionInv, OrderInv, InHand
<1> QED
  BY <1>2, <1>4, <1>5, <1>6, <1>7, OneStep DEF SessionInv

LEMMA HandleResponseIInv ==
    ASSUME IInv, NEW c \in Clients, HandleResponse(c)
    PROVE  IInv'
<1>1. /\ pc[c] = "handleResponse"
      /\ UNCHANGED <<crash, listening, acceptor, peer, asked, unsent, wire, req, keepAlive, held,
                     shut, answered, misread>>
  BY DEF HandleResponse
<1>2. ASSUME NEW reply \in Replies(req[c].kind), status' = [status EXCEPT ![c] = reply],
             Goto(c, "write")
      PROVE  IInv'
  <2>1. reply \in Statuses \ {"none", "unauthorized"}
    BY <1>2 DEF Replies, Statuses
  <2> QED
    BY <1>1, <1>2, <2>1, RespondIInv DEF Goto
<1>3. CASE Goto(c, "internalError") /\ UNCHANGED status
  BY <1>1, <1>3, ExceptionIInv DEF Goto
<1> QED
  BY <1>2, <1>3 DEF HandleResponse

\* A reply is the next in order and says whether the connection goes on.
LEMMA WriteReplyIInv ==
    ASSUME IInv, NEW c \in Clients, WriteReply(c)
    PROVE  IInv'
<1> DEFINE r == Reply(c)
           p == AfterReply(c)
<1>1. TypeInv /\ SessionInv(c)
  BY DEF IInv
<1>2. /\ pc[c] = "write" /\ answered' = [answered EXCEPT ![c] = Append(@, r)]
      /\ status' = [status EXCEPT ![c] = "none"] /\ pc' = [pc EXCEPT ![c] = p]
      /\ UNCHANGED <<crash, listening, acceptor, peer, asked, unsent, wire, req, keepAlive, held,
                     shut, misread>>
  BY DEF WriteReply, Goto
<1>3. /\ answered[c] \in Seq(Replied) /\ Len(answered[c]) \in Nat /\ req[c].id \in Nat
      /\ req[c].id \in 0 .. MaxRequests /\ req[c].keepAlive \in BOOLEAN
  BY LocalTypes
<1>4. /\ r \in Replied /\ r.id = req[c].id
      /\ r.close <=> ~req[c].keepAlive \/ status[c] = "unauthorized"
  BY <1>1, <1>3 DEF Reply, Replied, TypeInv, TypeOK
<1>5. keepAlive[c] <=> req[c].keepAlive
  BY <1>1, <1>2 DEF SessionInv, LoopInv
<1>6. \/ p = "shutdown" /\ ~req[c].keepAlive
      \/ p = "readHeader" /\ req[c].keepAlive
  BY <1>5 DEF AfterReply
<1>7. status[c] = "unauthorized" => ~req[c].keepAlive
  BY <1>1 DEF SessionInv, LoopInv
<1> HIDE DEF r, p
<1>8. \A d \in Clients \ {c} : Same(d)
  BY <1>1, <1>2 DEF TypeInv, TypeOK, Same
<1>9. pc'[c] = p /\ status'[c] = "none" /\ answered'[c] = Append(answered[c], r)
  BY <1>1, <1>2 DEF TypeInv, TypeOK
<1>10. /\ Append(answered[c], r) \in Seq(Replied)
       /\ Len(Append(answered[c], r)) = Len(answered[c]) + 1
       /\ Append(answered[c], r)[Len(answered[c]) + 1] = r
       /\ \A i \in 1 .. Len(answered[c]) : Append(answered[c], r)[i] = answered[c][i]
       /\ Append(answered[c], r) # <<>>
  <2>1. /\ Append(answered[c], r) \in Seq(Replied)
        /\ Len(Append(answered[c], r)) = Len(answered[c]) + 1
        /\ Append(answered[c], r)[Len(answered[c]) + 1] = r
        /\ \A i \in 1 .. Len(answered[c]) : Append(answered[c], r)[i] = answered[c][i]
    BY <1>3, <1>4, AppendProperties
  <2> QED
    BY <1>3, <2>1, EmptySeq
<1>11. TypeInv'
  <2>1. answered' \in [Clients -> Seq(Replied)]
    BY <1>1, <1>2, <1>10 DEF TypeInv
  <2>2. pc' \in [Clients -> Steps] /\ status' \in [Clients -> Statuses]
    BY <1>1, <1>2, <1>6 DEF TypeInv, TypeOK, Steps, Statuses
  <2>3. \A d \in Clients : acceptor' = d <=> pc'[d] = "handshake"
    BY <1>1, <1>2, <1>6 DEF TypeInv, TypeOK
  <2>4. \A d \in Clients : status'[d] # "none" <=> pc'[d] = "write"
    BY <1>1, <1>2, <1>6 DEF TypeInv, TypeOK
  <2> QED
    BY <1>1, <1>2, <2>1, <2>2, <2>3, <2>4 DEF TypeInv, TypeOK
<1>12. LoopInv(c)'
  <2>1. answered'[c][Len(answered'[c])] = r /\ answered'[c] # <<>>
    BY <1>3, <1>9, <1>10
  <2>2. r.close <=> ~req[c].keepAlive
    BY <1>4, <1>7
  <2> QED
    BY <1>1, <1>2, <1>5, <1>6, <1>9, <2>1, <2>2 DEF SessionInv, LoopInv
<1>13. BodyInv(c)'
  <2>1. p = "readHeader" => ~held[c]
    BY <1>1, <1>6 DEF SessionInv, LoopInv
  <2> QED
    BY <1>1, <1>2, <1>6, <1>9, <2>1 DEF SessionInv, BodyInv
<1>14. OrderInv(c)'
  <2> SUFFICES ASSUME ~misread[c]
               PROVE  OrderInv(c)'
    BY <1>2 DEF OrderInv
  <2>1. Len(answered[c]) + 1 = req[c].id /\ \A i \in 1 .. Len(answered[c]) : answered[c][i].id = i
    BY <1>1, <1>2 DEF SessionInv, OrderInv, InHand
  <2>2. Len(answered'[c]) = req[c].id
    BY <1>9, <1>10, <2>1
  <2>3. \A i \in 1 .. Len(answered'[c]) : answered'[c][i].id = i
    BY <1>3, <1>4, <1>9, <1>10, <2>1
  <2> QED
    BY <1>1, <1>2, <1>3, <1>6, <1>9, <2>2, <2>3 DEF SessionInv, OrderInv, InHand
<1> QED
  BY <1>2, <1>8, <1>11, <1>12, <1>13, <1>14, OneStep DEF SessionInv

\* A reply that cannot be written is taken back, or gives way to another.
LEMMA WriteFailsIInv ==
    ASSUME IInv, NEW c \in Clients, WriteFails(c)
    PROVE  IInv'
<1>1. TypeInv /\ SessionInv(c)
  BY DEF IInv
<1>2. /\ pc[c] = "write" /\ peer' = [peer EXCEPT ![c] = "broken"]
      /\ UNCHANGED <<crash, listening, acceptor, asked, unsent, wire, req, keepAlive, held, shut,
                     answered, misread>>
  BY DEF WriteFails
<1>3. PICK p \in {"write", "aborted", "internalError"}, v \in {"none", "notFound"} :
        /\ pc' = [pc EXCEPT ![c] = p] /\ status' = [status EXCEPT ![c] = v]
        /\ v # "none" <=> p = "write"
  <2>1. CASE status' = [status EXCEPT ![c] = "notFound"] /\ UNCHANGED pc
    <3>1. pc' = [pc EXCEPT ![c] = "write"]
      BY <1>1, <1>2, <2>1 DEF TypeInv, TypeOK
    <3> QED
      BY <2>1, <3>1
  <2>2. CASE /\ status' = [status EXCEPT ![c] = "none"]
             /\ Goto(c, IF status[c] = "internalError" THEN "aborted" ELSE "internalError")
    BY <2>2 DEF Goto
  <2> QED
    BY <2>1, <2>2 DEF WriteFails
<1>4. \A d \in Clients \ {c} : Same(d)
  BY <1>1, <1>2, <1>3 DEF TypeInv, TypeOK, Same
<1>5. pc'[c] = p /\ status'[c] = v
  BY <1>1, <1>3 DEF TypeInv, TypeOK
<1>6. TypeInv'
  <2>1. /\ pc[c] # "handshake" /\ p \in Steps \ {"handshake"} /\ v \in Statuses
    BY <1>2 DEF Steps, Statuses
  <2>2. peer' \in [Clients -> {"open", "left", "broken"}]
    BY <1>1, <1>2 DEF TypeInv, TypeOK
  <2> QED
    BY <1>1, <1>2, <1>3, <2>1, <2>2, MoveTypes DEF TypeInv, TypeOK
<1>7. LoopInv(c)'
  BY <1>1, <1>2, <1>5 DEF SessionInv, LoopInv
<1>8. BodyInv(c)'
  BY <1>1, <1>2, <1>5 DEF SessionInv, BodyInv
<1>9. OrderInv(c)'
  BY <1>1, <1>2, <1>5 DEF SessionInv, OrderInv, InHand
<1> QED
  BY <1>2, <1>4, <1>6, <1>7, <1>8, <1>9, OneStep DEF SessionInv

LEMMA ShutdownIInv ==
    ASSUME IInv, NEW c \in Clients, Shutdown(c)
    PROVE  IInv'
<1>1. TypeInv /\ SessionInv(c)
  BY DEF IInv
<1>2. ~keepAlive[c] /\ pc[c] = "shutdown"
  BY <1>1 DEF Shutdown, SessionInv, LoopInv
<1>3. /\ pc' = [pc EXCEPT ![c] = "closed"] /\ shut' = [shut EXCEPT ![c] = TRUE]
      /\ UNCHANGED <<crash, listening, acceptor, peer, asked, unsent, wire, req, keepAlive, held,
                     status, answered, misread>>
  BY <1>2 DEF Shutdown, Goto
<1>4. \A d \in Clients \ {c} : Same(d)
  BY <1>1, <1>3 DEF TypeInv, TypeOK, Same
<1>5. pc'[c] = "closed" /\ shut'[c]
  BY <1>1, <1>3 DEF TypeInv, TypeOK
<1>6. TypeInv'
  BY <1>1, <1>2, <1>3 DEF TypeInv, TypeOK, Steps
<1>7. LoopInv(c)'
  BY <1>1, <1>2, <1>3, <1>5 DEF SessionInv, LoopInv
<1>8. BodyInv(c)'
  BY <1>1, <1>2, <1>3, <1>5 DEF SessionInv, BodyInv
<1>9. OrderInv(c)'
  BY <1>1, <1>2, <1>3, <1>5 DEF SessionInv, OrderInv, InHand
<1> QED
  BY <1>3, <1>4, <1>6, <1>7, <1>8, <1>9, OneStep DEF SessionInv

LEMMA InternalErrorIInv ==
    ASSUME IInv, NEW c \in Clients, InternalError(c)
    PROVE  IInv'
<1>1. TypeInv /\ SessionInv(c)
  BY DEF IInv
<1>2. /\ pc[c] = "internalError"
      /\ UNCHANGED <<listening, acceptor, peer, asked, unsent, wire, req, shut, answered, misread>>
  BY DEF InternalError
<1>3. CASE ~held[c]
  BY <1>2, <1>3, CrashIInv DEF InternalError, Crash
<1>4. CASE held[c]
  <2>1. /\ status' = [status EXCEPT ![c] = "internalError"]
        /\ keepAlive' = [keepAlive EXCEPT ![c] = FALSE]
        /\ pc' = [pc EXCEPT ![c] = "write"] /\ UNCHANGED <<crash, held>>
    BY <1>4 DEF InternalError, Goto
  <2>2. \A d \in Clients \ {c} : Same(d)
    BY <1>1, <1>2, <2>1 DEF TypeInv, TypeOK, Same
  <2>3. pc'[c] = "write" /\ status'[c] = "internalError" /\ ~keepAlive'[c] /\ ~req[c].keepAlive
    BY <1>1, <1>4, <2>1 DEF TypeInv, TypeOK, SessionInv, LoopInv
  <2>4. TypeInv'
    BY <1>1, <1>2, <2>1 DEF TypeInv, TypeOK, Steps, Statuses
  <2>5. LoopInv(c)'
    BY <1>1, <1>2, <1>4, <2>1, <2>3 DEF SessionInv, LoopInv
  <2>6. BodyInv(c)'
    BY <1>1, <1>2, <1>4, <2>1, <2>3 DEF SessionInv, BodyInv
  <2>7. OrderInv(c)'
    BY <1>1, <1>2, <2>1, <2>3 DEF SessionInv, OrderInv, InHand
  <2> QED
    BY <2>1, <2>2, <2>4, <2>5, <2>6, <2>7, OneStep DEF SessionInv
<1> QED
  BY <1>3, <1>4

-----------------------------------------------------------------------------
(* The server *)

THEOREM InitIInv == Init => IInv
<1> SUFFICES ASSUME Init PROVE IInv
  OBVIOUS
<1>1. TypeInv
  <2>1. <<>> \in Seq(Item) /\ <<>> \in Seq(Replied)
    BY EmptySeq
  <2>2. NoClient \notin Clients /\ MaxRequests \in Nat
    BY ServerAssumption
  <2> QED
    BY <2>1, <2>2 DEF Init, TypeInv, TypeOK, Steps, Statuses, Bodies
<1>2. ASSUME NEW c \in Clients
      PROVE  SessionInv(c)
  <2>1. /\ pc[c] = "away" /\ asked[c] = 0 /\ unsent[c] = "none" /\ wire[c] = <<>>
        /\ req[c] = NoRequest /\ req[c].id = 0 /\ ~held[c] /\ status[c] = "none"
        /\ ~shut[c] /\ answered[c] = <<>> /\ Len(answered[c]) = 0 /\ Len(wire[c]) = 0
    BY <1>2 DEF Init, NoRequest
  <2>2. LoopInv(c)
    BY <2>1 DEF LoopInv
  <2>3. BodyInv(c)
    BY <2>1 DEF BodyInv, Framed
  <2>4. OrderInv(c)
    BY <2>1 DEF OrderInv, Ascending, Gapless, InHand
  <2> QED
    BY <2>2, <2>3, <2>4 DEF SessionInv
<1> QED
  BY <1>1, <1>2 DEF IInv

THEOREM NextIInv == IInv /\ [Next]_vars => IInv'
<1> SUFFICES ASSUME IInv, [Next]_vars PROVE IInv'
  OBVIOUS
<1>1. CASE UNCHANGED vars
  <2>1. TypeInv'
    BY <1>1 DEF vars, IInv, TypeInv, TypeOK
  <2>2. ASSUME NEW c \in Clients
        PROVE  SessionInv(c)'
    <3>1. SessionInv(c) /\ Same(c) /\ crash' = crash
      BY <1>1 DEF vars, IInv, Same
    <3> QED
      BY <3>1 DEF Same, SessionInv, LoopInv, BodyInv, OrderInv
  <2> QED
    BY <2>1, <2>2 DEF IInv
<1>2. ASSUME NEW c \in Clients, Client(c)
      PROVE  IInv'
  BY <1>2, ConnectIInv, SendHeadIInv, SendBodyIInv, LeaveIInv DEF Client
<1>3. ASSUME NEW c \in Clients, Session(c)
      PROVE  IInv'
  BY <1>3, ReadHeaderIInv, AuthorizeIInv, HandleRequestIInv, HandleResponseIInv,
     WriteReplyIInv, WriteFailsIInv, InternalErrorIInv DEF Session
<1>4. ASSUME NEW c \in Clients, Accept(c) \/ Handshake(c) \/ Shutdown(c)
      PROVE  IInv'
  BY <1>4, AcceptIInv, HandshakeIInv, ShutdownIInv
<1>5. CASE AcceptFails
  BY <1>5, AcceptFailsIInv
<1> QED
  BY <1>1, <1>2, <1>3, <1>4, <1>5 DEF Next

\* The sessions keep their invariant.
THEOREM Invariance == Spec => []IInv
<1> QED
  BY InitIInv, NextIInv, PTL DEF Spec

\* Requests are answered at most once and in order, however much a client sends
\* ahead and whichever replies fail, as long as no body was taken for a request.
THEOREM AlwaysInOrder == Spec => []AnswersInOrder
<1>1. ASSUME IInv PROVE AnswersInOrder
  <2>1. ASSUME NEW c \in Clients, ~misread[c]
        PROVE  /\ Len(answered[c]) <= asked[c]
               /\ \A i \in DOMAIN answered[c] : answered[c][i].id = i
    <3>1. OrderInv(c)
      BY <1>1 DEF IInv, SessionInv
    <3>2. /\ Len(answered[c]) \in Nat /\ req[c].id \in Nat /\ asked[c] \in Nat
          /\ answered[c] \in Seq(Replied)
      BY <1>1, LocalTypes
    <3>3. DOMAIN answered[c] = 1 .. Len(answered[c])
      BY <3>2, LenProperties
    <3> QED
      BY <2>1, <3>1, <3>2, <3>3 DEF OrderInv
  <2> QED
    BY <1>1, <2>1 DEF AnswersInOrder, IInv, TypeInv
<1> QED
  BY <1>1, Invariance, PTL

\* A session looks for a head where a body begins only after a request whose
\* handler reads none, as long as it has not lost count of them.
THEOREM BodiesAlwaysConsumed == Spec => []BodiesConsumed
<1>1. ASSUME IInv PROVE BodiesConsumed
  <2> SUFFICES ASSUME NEW c \in Clients, ~misread[c], pc[c] = "readHeader", wire[c] # <<>>,
                      Head(wire[c]).part # "head"
               PROVE  ~ReadsBody(req[c].kind)
    BY DEF BodiesConsumed
  <2>1. BodyInv(c) /\ wire[c] \in Seq(Item)
    BY <1>1, LocalTypes DEF IInv, SessionInv
  <2>2. wire[c][1].part # "head"
    BY <2>1, WireStart
  <2> QED
    BY <2>1, <2>2 DEF BodyInv, NextIsBody
<1> QED
  BY <1>1, Invariance, PTL

\* A session ends by leaving the loop only after saying so and shutting TLS
\* down, and goes on reading only if it has done neither.
THEOREM AlwaysClosedGracefully == Spec => []ClosedGracefully
<1>1. ASSUME IInv PROVE ClosedGracefully
  <2> SUFFICES ASSUME NEW c \in Clients
               PROVE  /\ pc[c] = "closed" =>
                           shut[c] /\ answered[c] # <<>> /\ Last(answered[c]).close
                      /\ pc[c] = "readHeader" =>
                           ~shut[c] /\ (answered[c] # <<>> => ~Last(answered[c]).close)
    BY DEF ClosedGracefully
  <2>1. LoopInv(c)
    BY <1>1 DEF IInv, SessionInv
  <2> QED
    BY <2>1 DEF LoopInv, Last
<1> QED
  BY <1>1, Invariance, PTL

-----------------------------------------------------------------------------
(* Multipart replies: the text *)

\* The symbols of a reply.
Text == Symbols \cup {CRLF, DashBoundary, "--boundary--", "Content-Disposition",
                      "Content-Type", "field"}

\* What is sent for each part, for all of the first n, and for the whole reply.
Sections(reply) == [i \in DOMAIN reply |-> PartHeader(reply[i]) \o Content(reply[i])]
SectionsTo(reply, n) == FlattenedTo(Sections(reply), n)
Whole(reply) == FlattenSeq(Sections(reply)) \o Closing

\* A sequence with elements of a larger set.
LEMMA Widened ==
    ASSUME NEW S, NEW T, S \subseteq T, NEW seqs \in Seq(Seq(S))
    PROVE  seqs \in Seq(Seq(T))
<1>1. \A q \in Seq(S) : q \in Seq(T)
  BY SeqMonotonic
<1>2. Seq(S) \subseteq Seq(T)
  BY <1>1
<1> QED
  BY <1>2, SeqMonotonic

\* The fields added are text.
LEMMA FieldLinesText == ASSUME NEW n \in Nat PROVE FieldLines(n) \in Seq(Text)
<1> DEFINE q == [i \in 1 .. n |-> <<"field", CRLF>>]
<1>1. <<"field", CRLF>> \in Seq(Text)
  BY DEF Text
<1>2. q \in Seq(Seq(Text))
  BY <1>1
<1> HIDE DEF q
<1>3. Len(q) \in Nat /\ Len(q) \in 0 .. Len(q)
  BY <1>2, LenProperties
<1>4. FlattenSeq(q) \in Seq(Text)
  BY <1>2, <1>3, Flattening
<1> QED
  BY <1>4 DEF q, FieldLines

\* They are what the reader of the reply is to get of them.
LEMMA FieldLinesAre ==
    ASSUME NEW n \in Nat
    PROVE  /\ AddedLines(n) \in Seq(Text) /\ Len(AddedLines(n)) = 2 * n
           /\ FieldLines(n) = AddedLines(n)
<1> DEFINE pair == <<"field", "CRLF">>
           q == [i \in 1 .. n |-> pair]
<1>1. /\ pair \in Seq(Text) /\ Len(pair) = 2 /\ pair[1] = "field" /\ pair[2] = "CRLF"
  BY DEF Text, CRLF
<1> HIDE DEF pair
<1>2. q \in Seq(Seq(Text)) /\ Len(q) = n /\ \A i \in 1 .. n : q[i] = pair
  BY <1>1
<1>3. FieldLines(n) = FlattenSeq(q)
  BY DEF FieldLines, CRLF, pair
<1> HIDE DEF q
<1>4. \A k \in Nat : /\ AddedLines(k) \in Seq(Text) /\ Len(AddedLines(k)) = 2 * k
                    /\ \A i \in 1 .. 2 * k :
                         AddedLines(k)[i] = IF i % 2 = 1 THEN "field" ELSE "CRLF"
  <2> TAKE k \in Nat
  <2>1. AddedLines(k) \in [1 .. 2 * k -> Text]
    BY DEF AddedLines, Text, CRLF
  <2> QED
    BY <2>1 DEF AddedLines
<1> DEFINE T == {k \in Nat : k <= n => FlattenedTo(q, k) = AddedLines(k)}
<1>5. 0 \in T
  <2>1. FlattenedTo(q, 0) = <<>>
    BY <1>2, Flattening
  <2>2. AddedLines(0) = <<>>
    BY <1>4, EmptySeq
  <2> QED
    BY <2>1, <2>2
<1>6. ASSUME NEW k \in Nat, k \in T PROVE k + 1 \in T
  <2> SUFFICES ASSUME k + 1 <= n PROVE FlattenedTo(q, k + 1) = AddedLines(k + 1)
    OBVIOUS
  <2>1. k + 1 \in 1 .. Len(q) /\ (k + 1) - 1 = k /\ k <= n
    BY <1>2
  <2>2. FlattenedTo(q, k + 1) = AddedLines(k) \o pair
    BY <1>2, <1>6, <2>1, Flattening
  <2> DEFINE a == AddedLines(k)
             m == k + 1
             b == AddedLines(m)
             c == a \o pair
  <2>3. /\ a \in Seq(Text) /\ Len(a) = 2 * k
        /\ \A i \in 1 .. 2 * k : a[i] = IF i % 2 = 1 THEN "field" ELSE "CRLF"
    BY <1>4
  <2>4. /\ b \in Seq(Text) /\ Len(b) = 2 * k + 2
        /\ \A i \in 1 .. 2 * k + 2 : b[i] = IF i % 2 = 1 THEN "field" ELSE "CRLF"
    <3>1. m \in Nat /\ 2 * m = 2 * k + 2
      OBVIOUS
    <3> HIDE DEF m
    <3> QED
      BY <1>4, <3>1
  <2> HIDE DEF a, b
  <2>5. /\ c \in Seq(Text) /\ Len(c) = Len(a) + Len(pair)
        /\ \A i \in 1 .. Len(a) + Len(pair) :
             c[i] = IF i <= Len(a) THEN a[i] ELSE pair[i - Len(a)]
    BY <1>1, <2>3, ConcatProperties
  <2> HIDE DEF c
  <2>6. Len(c) = Len(b)
    BY <1>1, <2>3, <2>4, <2>5
  <2>7. ASSUME NEW i \in 1 .. Len(c) PROVE c[i] = b[i]
    <3>1. i \in 1 .. 2 * k + 2
      BY <1>1, <2>3, <2>5
    <3>2. CASE i <= 2 * k
      <4>1. i \in 1 .. 2 * k
        BY <3>1, <3>2
      <4>2. c[i] = a[i]
        BY <1>1, <2>3, <2>5, <3>1, <3>2
      <4> QED
        BY <2>3, <2>4, <3>1, <4>1, <4>2
    <3>3. CASE i = 2 * k + 1
      <4>1. c[i] = pair[1]
        BY <1>1, <2>3, <2>5, <3>1, <3>3
      <4>2. i % 2 = 1
        BY <3>3
      <4> QED
        BY <1>1, <2>4, <3>1, <4>1, <4>2
    <3>4. CASE i = 2 * k + 2
      <4>1. c[i] = pair[2]
        BY <1>1, <2>3, <2>5, <3>1, <3>4
      <4>2. i % 2 = 0
        BY <3>4
      <4> QED
        BY <1>1, <2>4, <3>1, <4>1, <4>2
    <3> QED
      BY <3>1, <3>2, <3>3, <3>4
  <2>8. c = b
    BY <2>4, <2>5, <2>6, <2>7, SeqEqual
  <2> QED
    BY <2>2, <2>8 DEF a, b, c
<1> HIDE DEF T
<1>7. n \in T
  BY <1>5, <1>6, SetInduction
<1>8. FlattenedTo(q, n) = AddedLines(n)
  BY <1>7 DEF T
<1>9. AddedLines(n) \in Seq(Text) /\ Len(AddedLines(n)) = 2 * n
  BY <1>4
<1>10. FlattenedTo(q, n) = FlattenSeq(q)
  BY <1>2, Flattening
<1> QED
  BY <1>3, <1>8, <1>9, <1>10

\* A part is text, and its content is what its pieces are.
LEMMA PartText ==
    ASSUME NEW part \in Part
    PROVE  /\ PartHeader(part) \in Seq(Text)
           /\ part.content \in Seq(Seq(Text))
           /\ Content(part) \in Seq(Text)
           /\ part.dynamic \in BOOLEAN
<1>1. part.content \in Seq(Seq(Text))
  <2>1. part.content \in Seq(Seq(Symbols)) /\ Symbols \subseteq Text
    BY MultiPartAssumption DEF Part, Text
  <2> QED
    BY <2>1, Widened
<1>2. Content(part) \in Seq(Text)
  <2>1. Len(part.content) \in 0 .. Len(part.content)
    <3>1. Len(part.content) \in Nat
      BY <1>1, LenProperties
    <3> QED
      BY <3>1
  <2> QED
    BY <1>1, <2>1, Flattening DEF Content
<1>3. PartHeader(part) \in Seq(Text)
  <2>1. MadeHeader \in Seq(Text)
    BY DEF MadeHeader, Text
  <2>2. ASSUME NEW n \in Nat PROVE addFields(MadeHeader, n) \in Seq(Text)
    <3>1. Len(MadeHeader) \in Nat /\ \A i \in 1 .. Len(MadeHeader) : MadeHeader[i] \in Text
      BY <2>1, LenProperties, ElementOfSeq
    <3>2. \A i \in 1 .. Len(MadeHeader) - 1 : MadeHeader[i] \in Text
      BY <3>1
    <3>3. SubSeq(MadeHeader, 1, Len(MadeHeader) - 1) \in Seq(Text)
      BY <3>1, <3>2, SubSeqProperties
    <3> QED
      BY <3>3, FieldLinesText, ConcatProperties DEF addFields, Front
  <2>3. part.fields = NoFields \/ part.fields \in Nat
    BY MultiPartAssumption DEF Part
  <2> QED
    BY <2>1, <2>2, <2>3 DEF PartHeader
<1> QED
  BY <1>1, <1>2, <1>3 DEF Part

\* The header the code makes, against the lines of it written out.
LEMMA HeaderIs ==
    ASSUME NEW part \in Part
    PROVE  /\ HeadLines \in Seq(Text) /\ Len(HeadLines) = 6
           /\ part.fields = NoFields => PartHeader(part) = HeadLines \o <<"CRLF">>
           /\ part.fields # NoFields => /\ part.fields \in Nat
                                        /\ PartHeader(part) = HeadLines \o AddedLines(part.fields)
<1>1. HeadLines \in Seq(Text) /\ Len(HeadLines) = 6
  BY DEF HeadLines, Text, CRLF, DashBoundary
<1>2. MadeHeader = HeadLines \o <<"CRLF">>
  BY DEF MadeHeader, HeadLines, CRLF, DashBoundary
<1>3. Front(MadeHeader) = HeadLines
  <2> DEFINE f == SubSeq(MadeHeader, 1, 6)
  <2>1. /\ Len(MadeHeader) = 7
        /\ \A i \in 1 .. 6 : MadeHeader[i] \in Text
        /\ \A i \in 1 .. 6 : MadeHeader[i] = HeadLines[i]
    BY DEF MadeHeader, HeadLines, Text, CRLF, DashBoundary
  <2>2. /\ f \in Seq(Text) /\ Len(f) = 6
        /\ \A i \in 1 .. 6 : f[i] = MadeHeader[i]
    BY <2>1, SubSeqProperties
  <2>3. Front(MadeHeader) = f
    BY <2>1 DEF Front
  <2> HIDE DEF f
  <2>4. f = HeadLines
    BY <1>1, <2>1, <2>2, SeqEqual
  <2> QED
    BY <2>3, <2>4
<1>4. part.fields # NoFields => part.fields \in Nat
  BY MultiPartAssumption DEF Part
<1> QED
  BY <1>1, <1>2, <1>3, <1>4, FieldLinesAre DEF PartHeader, addFields

LEMMA SectionIs ==
    ASSUME NEW part \in Part
    PROVE  Section(part) = PartHeader(part) \o Content(part)
BY HeaderIs DEF Section

\* The sections of a reply, and what their sequence is like.
LEMMA SectionsText ==
    ASSUME NEW reply \in Seq(Part)
    PROVE  /\ Len(reply) \in Nat /\ DOMAIN reply = 1 .. Len(reply)
           /\ \A i \in 1 .. Len(reply) : reply[i] \in Part
           /\ Sections(reply) \in Seq(Seq(Text)) /\ Len(Sections(reply)) = Len(reply)
           /\ SectionsTo(reply, 0) = <<>>
           /\ SectionsTo(reply, Len(reply)) = FlattenSeq(Sections(reply))
           /\ \A n \in 0 .. Len(reply) : SectionsTo(reply, n) \in Seq(Text)
           /\ \A n \in 1 .. Len(reply) :
                SectionsTo(reply, n)
                  = SectionsTo(reply, n - 1) \o (PartHeader(reply[n]) \o Content(reply[n]))
<1> DEFINE q == Sections(reply)
<1>1. /\ Len(reply) \in Nat /\ DOMAIN reply = 1 .. Len(reply)
      /\ \A i \in 1 .. Len(reply) : reply[i] \in Part
  BY LenProperties, ElementOfSeq
<1>2. \A i \in 1 .. Len(reply) : PartHeader(reply[i]) \o Content(reply[i]) \in Seq(Text)
  BY <1>1, PartText, ConcatProperties
<1>3. q = [i \in 1 .. Len(reply) |-> PartHeader(reply[i]) \o Content(reply[i])]
  BY <1>1 DEF Sections
<1>4. q \in Seq(Seq(Text)) /\ Len(q) = Len(reply)
  BY <1>1, <1>2, <1>3
<1>5. \A i \in 1 .. Len(reply) : q[i] = PartHeader(reply[i]) \o Content(reply[i])
  BY <1>3
<1> HIDE DEF q
<1>6. /\ FlattenedTo(q, 0) = <<>>
      /\ FlattenedTo(q, Len(q)) = FlattenSeq(q)
      /\ \A n \in 0 .. Len(q) : FlattenedTo(q, n) \in Seq(Text)
      /\ \A n \in 1 .. Len(q) : FlattenedTo(q, n) = FlattenedTo(q, n - 1) \o q[n]
  BY <1>4, Flattening
<1> QED
  BY <1>1, <1>4, <1>5, <1>6 DEF q, SectionsTo

\* The whole of a reply ends with the closing boundary.
LEMMA WholeText ==
    ASSUME NEW reply \in Seq(Part)
    PROVE  /\ FlattenSeq(Sections(reply)) \in Seq(Text) /\ Closing \in Seq(Text)
           /\ Whole(reply) \in Seq(Text)
           /\ Len(Closing) = 3
           /\ Len(Whole(reply)) = Len(FlattenSeq(Sections(reply))) + 3
           /\ Len(FlattenSeq(Sections(reply))) \in Nat
<1>1. Closing \in Seq(Text) /\ Len(Closing) = 3
  BY DEF Closing, Text
<1>2. FlattenSeq(Sections(reply)) \in Seq(Text)
  <2>1. Len(reply) \in 0 .. Len(reply)
    BY SectionsText
  <2> QED
    BY <2>1, SectionsText
<1> DEFINE q == FlattenSeq(Sections(reply))
<1>3. Whole(reply) = q \o Closing
  BY DEF Whole
<1> HIDE DEF q
<1>4. q \o Closing \in Seq(Text) /\ Len(q \o Closing) = Len(q) + 3 /\ Len(q) \in Nat
  <2>1. q \in Seq(Text)
    BY <1>2 DEF q
  <2>2. q \o Closing \in Seq(Text) /\ Len(q \o Closing) = Len(q) + Len(Closing)
    BY <1>1, <2>1, ConcatProperties
  <2>3. Len(q) \in Nat
    BY <2>1, LenProperties
  <2> QED
    BY <1>1, <2>2, <2>3
<1> QED
  BY <1>1, <1>2, <1>3, <1>4 DEF q

\* The whole is the message of the parts.
LEMMA MessageIsWhole ==
    ASSUME NEW reply \in Seq(Part)
    PROVE  Message(reply) = Whole(reply)
<1>1. DOMAIN reply = 1 .. Len(reply) /\ \A i \in 1 .. Len(reply) : reply[i] \in Part
  BY SectionsText
<1>2. [i \in DOMAIN reply |-> Section(reply[i])] = Sections(reply)
  BY <1>1, SectionIs DEF Sections
<1>3. <<"CRLF", "--boundary--", "CRLF">> = Closing
  BY DEF Closing, CRLF
<1> QED
  BY <1>2, <1>3 DEF Message, Whole

\* Sum adds one size after the other.
LEMMA Summing ==
    ASSUME NEW sizes \in Seq(Nat)
    PROVE  \E total \in [0 .. Len(sizes) -> Nat] :
             /\ total[0] = 0
             /\ \A i \in 1 .. Len(sizes) : total[i] = total[i - 1] + sizes[i]
             /\ Sum(sizes) = total[Len(sizes)]
<1> DEFINE n == Len(sizes)
           G == [i \in 1 .. n |-> [v \in Nat |-> v + sizes[i]]]
           Step(h) == [i \in 0 .. n |-> IF i = 0 THEN 0 ELSE h[i - 1] + sizes[i]]
           k == CHOOSE h : h = Step(h)
<1>1. n \in Nat /\ \A i \in 1 .. n : sizes[i] \in Nat
  BY LenProperties, ElementOfSeq
<1>2. G \in [1 .. n -> [Nat -> Nat]]
  <2>1. \A i \in 1 .. n, v \in Nat : v + sizes[i] \in Nat
    BY <1>1
  <2> QED
    BY <2>1
<1>3. \A i \in 1 .. n, v \in Nat : G[i][v] = v + sizes[i]
  OBVIOUS
<1>4. Sum(sizes) = k[n]
  BY DEF Sum
<1> HIDE DEF G, k, n
<1>5. PICK f \in [0 .. n -> Nat] : Recurs(f, 0, G, n)
  BY <1>1, <1>2, Recursion
<1>6. f[0] = 0 /\ \A i \in 1 .. n : f[i] = f[i - 1] + sizes[i]
  <2>1. ASSUME NEW i \in 1 .. n PROVE f[i] = f[i - 1] + sizes[i]
    <3>1. i - 1 \in 0 .. n
      BY <1>1
    <3>2. f[i - 1] \in Nat /\ f[i] = G[i][f[i - 1]]
      BY <1>5, <3>1 DEF Recurs
    <3> QED
      BY <1>3, <3>2
  <2> QED
    BY <1>5, <2>1 DEF Recurs
<1>7. f = Step(f)
  BY <1>1, <1>6
<1> HIDE DEF Step
<1>8. k = Step(k)
  BY <1>7, Zenon DEF k
<1>9. /\ k = [i \in 0 .. n |-> k[i]] /\ k[0] = 0
      /\ \A i \in 1 .. n : k[i] = k[i - 1] + sizes[i]
  <2>1. k = [i \in 0 .. n |-> IF i = 0 THEN 0 ELSE k[i - 1] + sizes[i]]
    BY <1>8 DEF Step
  <2>2. 0 \in 0 .. n /\ \A i \in 1 .. n : i \in 0 .. n /\ i # 0
    BY <1>1
  <2> QED
    BY <2>1, <2>2
<1>10. \A i \in 0 .. n : k[i] = f[i]
  <2> DEFINE T == {i \in Nat : i \in 0 .. n => k[i] = f[i]}
  <2>1. 0 \in T
    BY <1>6, <1>9
  <2>2. ASSUME NEW i \in Nat, i \in T PROVE i + 1 \in T
    <3> SUFFICES ASSUME i + 1 \in 0 .. n PROVE k[i + 1] = f[i + 1]
      OBVIOUS
    <3>1. i \in 0 .. n /\ i + 1 \in 1 .. n /\ (i + 1) - 1 = i
      BY <1>1
    <3> QED
      BY <1>6, <1>9, <2>2, <3>1
  <2> HIDE DEF T
  <2>3. \A i \in Nat : i \in T
    BY <2>1, <2>2, SetInduction
  <2> QED
    BY <2>3 DEF T
<1>11. k \in [0 .. n -> Nat]
  BY <1>9, <1>10
<1> QED
  BY <1>4, <1>9, <1>11 DEF n

\* A size that a size_t can count is not reduced.
LEMMA NotReduced ==
    ASSUME NEW m \in Nat \ {0}, NEW x \in Nat, x < m
    PROVE  x % m = x
OBVIOUS

\* A reply of truthful sizes is short enough.
LEMMA TruthfulFits ==
    ASSUME NEW reply \in Seq(Part), Len(reply) <= MaxParts,
           \A i \in 1 .. Len(reply) : Truthful(reply[i])
    PROVE  Len(Whole(reply)) < NPOS
<1> DEFINE n == Len(reply)
<1>1. n \in 0 .. MaxParts
  BY SectionsText, MultiPartAssumption
<1>2. reply \in [1 .. n -> Part]
  BY LenProperties
<1> HIDE DEF n
<1>3. \A i \in 1 .. n : Truthful(reply[i])
  BY DEF n
<1>4. Len(Message(reply)) < NPOS
  BY <1>1, <1>2, <1>3, SizesFit
<1> QED
  BY <1>4, MessageIsWhole

\* What is sent of n parts is no shorter than any of them.
LEMMA SectionFits ==
    ASSUME NEW reply \in Seq(Part), NEW i \in 1 .. Len(reply)
    PROVE  LET section == PartHeader(reply[i]) \o Content(reply[i])
           IN  /\ section \in Seq(Text) /\ Len(section) \in Nat
               /\ Len(section) = Len(PartHeader(reply[i])) + Len(Content(reply[i]))
               /\ Len(PartHeader(reply[i])) \in Nat /\ Len(Content(reply[i])) \in Nat
               /\ Len(section) <= Len(Whole(reply))
<1>1. i - 1 \in 0 .. Len(reply) /\ i \in 0 .. Len(reply) /\ reply[i] \in Part
  <2>1. Len(reply) \in Nat /\ reply[i] \in Part
    BY SectionsText
  <2> QED
    BY <2>1
<1> DEFINE front == SectionsTo(reply, i - 1)
           head == PartHeader(reply[i])
           content == Content(reply[i])
           section == head \o content
           all == FlattenSeq(Sections(reply))
<1>2. head \in Seq(Text) /\ content \in Seq(Text) /\ front \in Seq(Text)
  BY <1>1, SectionsText, PartText
<1>3. SectionsTo(reply, i) = front \o section
  BY SectionsText
<1>4. /\ SectionsTo(reply, i) \in Seq(Text) /\ Beginning(Text, SectionsTo(reply, i), all)
      /\ all \in Seq(Text) /\ Len(Whole(reply)) = Len(all) + 3
  BY <1>1, SectionsText, FlattenedBegins, WholeText DEF SectionsTo
<1>5. Len(SectionsTo(reply, i)) <= Len(all)
  BY <1>4, BeginningIsPrefix
<1> HIDE DEF front, head, content, all
<1>6. section \in Seq(Text) /\ Len(section) = Len(head) + Len(content)
  BY <1>2, ConcatProperties
<1>7. Len(head) \in Nat /\ Len(content) \in Nat /\ Len(front) \in Nat /\ Len(all) \in Nat
  BY <1>2, <1>4, LenProperties
<1> HIDE DEF section
<1>8. Len(front \o section) = Len(front) + Len(section)
  BY <1>2, <1>6, ConcatProperties
<1>9. Len(section) <= Len(Whole(reply))
  BY <1>3, <1>4, <1>5, <1>6, <1>7, <1>8
<1> QED
  BY <1>6, <1>7, <1>9 DEF head, content, section

\* The size computed before anything is sent is the length of the whole, if the sizes
\* are declared rightly: nothing of it is lost in a size_t.
LEMMA TotalIsLength ==
    ASSUME NEW reply \in Seq(Part), Len(reply) <= MaxParts,
           \A i \in 1 .. Len(reply) : Truthful(reply[i])
    PROVE  /\ Total(reply) = Len(Whole(reply))
           /\ \A i \in 1 .. Len(reply) : SizeKnown(reply[i])
<1> DEFINE sizes == [i \in DOMAIN reply |-> SizeOf(reply[i])]
           n == Len(reply)
<1>1. n \in Nat /\ DOMAIN reply = 1 .. n /\ \A i \in 1 .. n : reply[i] \in Part
  BY SectionsText
<1>2. /\ SIZE_MOD \in Nat \ {0} /\ NPOS = SIZE_MOD - 1
      /\ Len(Whole(reply)) < NPOS /\ Len(Whole(reply)) \in Nat
  BY MultiPartAssumption, TruthfulFits, WholeText, LenProperties DEF NPOS
<1>3. ASSUME NEW i \in 1 .. n
      PROVE  /\ SizeOf(reply[i]) \in Nat /\ SizeOf(reply[i]) # NPOS
             /\ SizeOf(reply[i]) = Len(PartHeader(reply[i]) \o Content(reply[i]))
             /\ PartHeader(reply[i]) \o Content(reply[i]) \in Seq(Text)
  <2> DEFINE h == Len(PartHeader(reply[i]))
             k == Len(Content(reply[i]))
             l == Len(PartHeader(reply[i]) \o Content(reply[i]))
  <2>1. /\ PartHeader(reply[i]) \o Content(reply[i]) \in Seq(Text)
        /\ l = h + k /\ l \in Nat /\ h \in Nat /\ k \in Nat /\ l <= Len(Whole(reply))
    BY SectionFits
  <2>2. reply[i].dynamic => reply[i].content_size = k
    BY DEF Truthful
  <2> HIDE DEF h, k, l
  <2>3. l < NPOS /\ k # NPOS /\ l < SIZE_MOD
    BY <1>2, <2>1
  <2>4. l % SIZE_MOD = l
    BY <1>2, <2>1, <2>3, NotReduced
  <2>5. SizeOf(reply[i]) = l
    <3>1. CASE ~reply[i].dynamic
      <4>1. SizeOf(reply[i]) = (h + k) % SIZE_MOD
        BY <3>1 DEF SizeOf, h, k
      <4> QED
        BY <2>1, <2>4, <4>1
    <3>2. CASE reply[i].dynamic
      <4>1. SizeOf(reply[i]) = (k + h) % SIZE_MOD
        BY <2>2, <2>3, <3>2 DEF SizeOf, h
      <4>2. k + h = l
        BY <2>1
      <4> QED
        BY <2>4, <4>1, <4>2
    <3> QED
      BY <3>1, <3>2
  <2> QED
    BY <1>2, <2>1, <2>3, <2>5 DEF l
<1>4. sizes \in Seq(Nat) /\ Len(sizes) = n /\ \A i \in 1 .. n : sizes[i] = SizeOf(reply[i])
  BY <1>1, <1>3
<1> HIDE DEF sizes, n
<1>5. PICK total \in [0 .. n -> Nat] :
        /\ total[0] = 0
        /\ \A i \in 1 .. n : total[i] = total[i - 1] + sizes[i]
        /\ Sum(sizes) = total[n]
  BY <1>4, Summing
<1>6. \A i \in 0 .. n : Len(SectionsTo(reply, i)) = total[i]
  <2> DEFINE T == {i \in Nat : i \in 0 .. n => Len(SectionsTo(reply, i)) = total[i]}
  <2>1. 0 \in T
    BY <1>5, SectionsText
  <2>2. ASSUME NEW i \in Nat, i \in T PROVE i + 1 \in T
    <3> SUFFICES ASSUME i + 1 \in 0 .. n
                 PROVE  Len(SectionsTo(reply, i + 1)) = total[i + 1]
      OBVIOUS
    <3>1. i \in 0 .. n /\ i + 1 \in 1 .. n /\ (i + 1) - 1 = i
      BY <1>1
    <3>2. /\ SectionsTo(reply, i) \in Seq(Text)
          /\ SectionsTo(reply, i + 1) = SectionsTo(reply, i)
               \o (PartHeader(reply[i + 1]) \o Content(reply[i + 1]))
      BY <3>1, SectionsText DEF n
    <3> DEFINE front == SectionsTo(reply, i)
               section == PartHeader(reply[i + 1]) \o Content(reply[i + 1])
    <3>3. /\ front \in Seq(Text) /\ SectionsTo(reply, i + 1) = front \o section
          /\ section \in Seq(Text) /\ Len(section) = SizeOf(reply[i + 1])
      BY <1>3, <3>1, <3>2
    <3> HIDE DEF front, section
    <3>4. Len(front \o section) = Len(front) + Len(section)
      BY <3>3, ConcatProperties
    <3>5. Len(SectionsTo(reply, i + 1)) = Len(SectionsTo(reply, i)) + SizeOf(reply[i + 1])
      BY <3>3, <3>4 DEF front
    <3> QED
      BY <1>4, <1>5, <2>2, <3>1, <3>5
  <2> HIDE DEF T
  <2>3. \A i \in Nat : i \in T
    BY <2>1, <2>2, SetInduction
  <2> QED
    BY <2>3 DEF T
<1>7. n \in 0 .. n /\ Sum(sizes) = Len(FlattenSeq(Sections(reply)))
  <2>1. n \in 0 .. n
    BY <1>1
  <2> QED
    BY <1>5, <1>6, <2>1, SectionsText DEF n
<1>8. Total(reply) = Len(Whole(reply)) % SIZE_MOD
  BY <1>7, WholeText DEF Total, sizes
<1>9. Total(reply) = Len(Whole(reply))
  <2>1. Len(Whole(reply)) < SIZE_MOD
    BY <1>2
  <2> QED
    BY <1>2, <1>8, <2>1, NotReduced
<1> QED
  BY <1>3, <1>9 DEF SizeKnown, n

\* A static part is shorter than a size_t can count, for it could be sent alone.
LEMMA StaticContentFits ==
    ASSUME NEW part \in Part, ~part.dynamic, MaxParts >= 1
    PROVE  Len(Content(part)) \in Nat /\ Len(Content(part)) < SIZE_MOD
<1> DEFINE reply == [i \in 1 .. 1 |-> part]
<1>1. SIZE_MOD \in Nat \ {0} /\ NPOS = SIZE_MOD - 1
  BY MultiPartAssumption DEF NPOS
<1>2. reply[1] = part /\ reply \in Seq(Part) /\ Len(reply) = 1
  OBVIOUS
<1> HIDE DEF reply
<1>3. Truthful(part)
  BY DEF Truthful
<1>4. 1 \in 1 .. Len(reply) /\ \A i \in 1 .. Len(reply) : Truthful(reply[i])
  BY <1>2, <1>3
<1>5. Len(Whole(reply)) < NPOS
  BY <1>2, <1>4, TruthfulFits
<1>6. /\ Len(PartHeader(part)) \in Nat /\ Len(Content(part)) \in Nat
      /\ Len(PartHeader(part)) + Len(Content(part)) <= Len(Whole(reply))
  BY <1>2, <1>4, SectionFits
<1>7. Len(Whole(reply)) \in Nat
  BY <1>2, WholeText, LenProperties
<1> QED
  BY <1>1, <1>5, <1>6, <1>7

-----------------------------------------------------------------------------
(* Multipart replies: what has been put into buffers *)

\* Of the content of a part.
ContentTo(part, offset, pieces) ==
    IF part.dynamic THEN FlattenedTo(part.content, pieces)
    ELSE SubSeq(Content(part), 1, offset)

\* Of the reply, when it is at a phase, and in it at a part.
FilledAt(reply, phase, i, offset, pieces) ==
    IF phase = "part_header" THEN <<>>
    ELSE IF phase = "done" THEN Whole(reply)
    ELSE (SectionsTo(reply, i - 1) \o PartHeader(reply[i])) \o ContentTo(reply[i], offset, pieces)

\* The part of a phase, and how far its content can be sent.
PlaceOk(reply, phase, i, offset, pieces) ==
    /\ phase \in {"part_header", "part_content", "done"}
    /\ phase = "part_header" => i = 1
    /\ phase = "part_content" =>
         /\ i \in 1 .. Len(reply)
         /\ reply[i].dynamic => pieces \in 0 .. Len(reply[i].content)
         /\ ~reply[i].dynamic => offset \in 0 .. Len(Content(reply[i]))

\* The content sent of a part is a beginning of it.
LEMMA ContentBegins ==
    ASSUME NEW part \in Part, NEW offset, NEW pieces,
           part.dynamic => pieces \in 0 .. Len(part.content),
           ~part.dynamic => offset \in 0 .. Len(Content(part))
    PROVE  /\ ContentTo(part, offset, pieces) \in Seq(Text)
           /\ Beginning(Text, ContentTo(part, offset, pieces), Content(part))
<1>1. part.content \in Seq(Seq(Text)) /\ Content(part) \in Seq(Text) /\ part.dynamic \in BOOLEAN
  BY PartText
<1>2. CASE part.dynamic
  <2>1. ContentTo(part, offset, pieces) = FlattenedTo(part.content, pieces)
    BY <1>2 DEF ContentTo
  <2> QED
    BY <1>1, <1>2, <2>1, Flattening, FlattenedBegins DEF Content
<1>3. CASE ~part.dynamic
  <2> DEFINE q == Content(part)
             a == SubSeq(q, 1, offset)
             b == SubSeq(q, offset + 1, Len(q))
  <2>1. q \in Seq(Text) /\ Len(q) \in Nat /\ offset \in Nat /\ offset <= Len(q)
    BY <1>1, <1>3, LenProperties
  <2>2. ContentTo(part, offset, pieces) = a
    BY <1>3 DEF ContentTo
  <2> HIDE DEF q
  <2>3. a \o b = SubSeq(q, 1, Len(q))
    <3>1. 1 \in 1 .. Len(q) + 1 /\ offset \in 1 - 1 .. Len(q) /\ Len(q) \in offset .. Len(q)
      BY <2>1
    <3> QED
      BY <2>1, <3>1, ConcatAdjacentSubSeq
  <2>4. SubSeq(q, 1, Len(q)) = q
    BY <2>1, SubSeqFull
  <2>5. a \in Seq(Text) /\ b \in Seq(Text)
    <3>1. \A i \in 1 .. Len(q) : q[i] \in Text
      BY <2>1, ElementOfSeq
    <3>2. /\ \A i \in 1 .. offset : q[i] \in Text
          /\ \A i \in offset + 1 .. Len(q) : q[i] \in Text
      BY <2>1, <3>1
    <3> QED
      BY <2>1, <3>2, SubSeqProperties
  <2> QED
    BY <2>2, <2>3, <2>4, <2>5 DEF Beginning, q
<1> QED
  BY <1>1, <1>2, <1>3

\* What has been put into buffers is a beginning of the whole, and a proper one before
\* the phase is done.
LEMMA FilledBegins ==
    ASSUME NEW reply \in Seq(Part), NEW phase, NEW i, NEW offset, NEW pieces,
           PlaceOk(reply, phase, i, offset, pieces)
    PROVE  /\ FilledAt(reply, phase, i, offset, pieces) \in Seq(Text)
           /\ Beginning(Text, FilledAt(reply, phase, i, offset, pieces), Whole(reply))
           /\ phase # "done" =>
                Len(FilledAt(reply, phase, i, offset, pieces)) < Len(Whole(reply))
<1> DEFINE q == FilledAt(reply, phase, i, offset, pieces)
           all == FlattenSeq(Sections(reply))
<1>1. /\ all \in Seq(Text) /\ Whole(reply) \in Seq(Text) /\ Closing \in Seq(Text)
      /\ Len(Whole(reply)) = Len(all) + 3 /\ Len(all) \in Nat /\ Whole(reply) = all \o Closing
  BY WholeText DEF Whole
<1> HIDE DEF all
<1>2. CASE phase = "done"
  <2>1. q = Whole(reply)
    BY <1>2 DEF FilledAt
  <2> QED
    BY <1>1, <1>2, <2>1, BeginningSelf
<1>3. ASSUME q \in Seq(Text), Beginning(Text, q, all)
      PROVE  Beginning(Text, q, Whole(reply)) /\ Len(q) < Len(Whole(reply))
  <2>1. Len(q) <= Len(all) /\ Len(q) \in Nat
    BY <1>1, <1>3, BeginningIsPrefix, LenProperties
  <2>2. Beginning(Text, q, Whole(reply))
    BY <1>1, <1>3, BeginningExtended
  <2> QED
    BY <1>1, <2>1, <2>2
<1>4. CASE phase = "part_header"
  <2>1. q = <<>>
    BY <1>4 DEF FilledAt
  <2>2. <<>> \in Seq(Text) /\ all = <<>> \o all
    BY <1>1, ConcatEmptySeq
  <2> QED
    BY <1>1, <1>3, <1>4, <2>1, <2>2 DEF Beginning
<1>5. CASE phase = "part_content"
  <2> DEFINE front == SectionsTo(reply, i - 1)
             head == PartHeader(reply[i])
             content == Content(reply[i])
             part == ContentTo(reply[i], offset, pieces)
  <2>1. q = (front \o head) \o part
    BY <1>5 DEF FilledAt
  <2>2. /\ i \in 1 .. Len(reply) /\ reply[i] \in Part
        /\ reply[i].dynamic => pieces \in 0 .. Len(reply[i].content)
        /\ ~reply[i].dynamic => offset \in 0 .. Len(Content(reply[i]))
    BY <1>5, SectionsText DEF PlaceOk
  <2>3. i \in 0 .. Len(reply) /\ i - 1 \in 0 .. Len(reply)
    BY <2>2, SectionsText
  <2>4. /\ front \in Seq(Text) /\ head \in Seq(Text) /\ content \in Seq(Text)
        /\ part \in Seq(Text) /\ Beginning(Text, part, content)
    BY <2>2, <2>3, SectionsText, PartText, ContentBegins
  <2>5. SectionsTo(reply, i) = front \o (head \o content)
    BY <2>2, SectionsText
  <2>6. SectionsTo(reply, i) \in Seq(Text) /\ Beginning(Text, SectionsTo(reply, i), all)
    BY <2>3, SectionsText, FlattenedBegins DEF SectionsTo, all
  <2> HIDE DEF front, head, content, part
  <2>7. /\ front \o head \in Seq(Text)
        /\ SectionsTo(reply, i) = (front \o head) \o content
        /\ (front \o head) \o part \in Seq(Text)
    <3>1. front \in Seq(Text) /\ head \in Seq(Text) /\ content \in Seq(Text)
      BY <2>4
    <3>2. (front \o head) \o content = front \o (head \o content)
      BY <3>1, ConcatAssociative
    <3>3. front \o head \in Seq(Text)
      BY <3>1, ConcatProperties
    <3>4. part \in Seq(Text)
      BY <2>4
    <3>5. (front \o head) \o part \in Seq(Text)
      BY <3>3, <3>4, ConcatProperties
    <3> QED
      BY <2>5, <3>2, <3>3, <3>5
  <2>8. Beginning(Text, q, SectionsTo(reply, i)) /\ q \in Seq(Text)
    BY <2>1, <2>4, <2>7, BeginningBehind
  <2>9. Beginning(Text, q, all)
    BY <1>1, <2>6, <2>8, BeginningOfBeginning
  <2> QED
    BY <1>3, <1>5, <2>8, <2>9
<1> QED
  BY <1>2, <1>4, <1>5 DEF PlaceOk

-----------------------------------------------------------------------------
(* Multipart replies: the invariant and the steps *)

ReplySteps == {"totalSize", "fillBuffer", "write", "failed", "done"}

Filled == FilledAt(parts, current_phase_, part_index_, content_offset_, yielded)

ReplyTypeInv ==
    /\ parts \in Seq(Part) /\ Len(parts) <= MaxParts
    /\ PlaceOk(parts, current_phase_, part_index_, content_offset_, yielded)
    /\ step \in ReplySteps
    /\ sent \in Seq(Text)
    /\ step = "write" => body.data \in Seq(Text)

\* What has been sent, and what is in the buffer, is what has been filled in.
SentInv ==
    /\ step = "totalSize" => current_phase_ = "part_header" /\ sent = <<>>
    /\ step = "fillBuffer" => sent = Filled
    /\ step = "write" => /\ sent \o body.data = Filled
                         /\ body.more <=> current_phase_ # "done"
    /\ step = "failed" => Beginning(Text, sent, Whole(parts))
    /\ step = "done" => sent = Whole(parts)

\* The length announced is the one of the whole, if all sizes are declared rightly.
LengthInv ==
    /\ step = "totalSize" => ~use_trunk_
    /\ step # "totalSize" /\ (\A i \in 1 .. Len(parts) : Truthful(parts[i])) =>
         ~use_trunk_ /\ content_length = Len(Whole(parts))

\* The inductive invariant of a reply.
ReplyInv == ReplyTypeInv /\ SentInv /\ LengthInv

LEMMA ReplyInitInv == ReplyInit => ReplyInv
<1> SUFFICES ASSUME ReplyInit PROVE ReplyInv
  OBVIOUS
<1>1. parts \in Seq(Part) /\ Len(parts) <= MaxParts
  <2>1. PICK n \in 0 .. MaxParts : parts \in [1 .. n -> Part]
    BY DEF ReplyInit
  <2>2. n \in Nat /\ n <= MaxParts
    BY <2>1, MultiPartAssumption
  <2> QED
    BY <2>1, <2>2
<1>2. <<>> \in Seq(Text)
  OBVIOUS
<1> QED
  BY <1>1, <1>2 DEF ReplyInit, ReplyInv, ReplyTypeInv, SentInv, LengthInv, PlaceOk, ReplySteps

\* The sizes that are declared rightly are known, and so is their sum.
LEMMA TotalSizeInv == ReplyInv /\ TotalSize => ReplyInv'
<1> SUFFICES ASSUME ReplyInv, TotalSize PROVE ReplyInv'
  OBVIOUS
<1>1. /\ parts \in Seq(Part) /\ Len(parts) <= MaxParts /\ DOMAIN parts = 1 .. Len(parts)
      /\ step = "totalSize" /\ step' = "fillBuffer" /\ ~use_trunk_ /\ parts' = parts
  BY SectionsText DEF TotalSize, ReplyInv, ReplyTypeInv, LengthInv
<1>2. ASSUME \A i \in 1 .. Len(parts) : Truthful(parts[i])
      PROVE  ~use_trunk_' /\ content_length' = Len(Whole(parts))
  <2>1. /\ Total(parts) = Len(Whole(parts))
        /\ \A i \in DOMAIN parts : SizeKnown(parts[i])
    BY <1>1, <1>2, TotalIsLength
  <2>2. content_length' = Total(parts) /\ use_trunk_' = use_trunk_
    BY <2>1 DEF TotalSize
  <2> QED
    BY <1>1, <2>1, <2>2
<1>3. LengthInv'
  BY <1>1, <1>2 DEF LengthInv
<1>4. ReplyTypeInv' /\ SentInv'
  BY DEF TotalSize, ReplyInv, ReplyTypeInv, SentInv, ReplySteps, Filled, FilledAt
<1> QED
  BY <1>3, <1>4 DEF ReplyInv

\* What a call of fillBuffer does: the buffer continues what was filled in before, and
\* says more unless it was the last.
Fills(reply, filled) ==
    /\ PlaceOk(reply, current_phase_', part_index_', content_offset_', yielded')
    /\ body'.data \in Seq(Text)
    /\ filled \o body'.data
         = FilledAt(reply, current_phase_', part_index_', content_offset_', yielded')
    /\ body'.more <=> current_phase_' # "done"

\* The header of part i comes after all of the parts before.
LEMMA FillHeaderFills ==
    ASSUME NEW i, parts \in Seq(Part), i \in 1 .. Len(parts) + 1, FillHeader(i)
    PROVE  Fills(parts, SectionsTo(parts, i - 1))
<1>1. Len(parts) \in Nat
  BY SectionsText
<1>2. CASE i > Len(parts)
  <2>1. /\ body' = [data |-> Closing, more |-> FALSE]
        /\ current_phase_' = "done" /\ part_index_' = i
    BY <1>2 DEF FillHeader, Buffer
  <2>2. i - 1 = Len(parts)
    BY <1>1, <1>2
  <2>3. SectionsTo(parts, i - 1) \o Closing = Whole(parts)
    BY <2>2, SectionsText DEF Whole
  <2> QED
    BY <2>1, <2>3, WholeText DEF Fills, PlaceOk, FilledAt
<1>3. CASE ~(i > Len(parts))
  <2>1. /\ body' = [data |-> PartHeader(parts[i]), more |-> TRUE]
        /\ current_phase_' = "part_content" /\ part_index_' = i
        /\ content_offset_' = 0 /\ yielded' = 0
    BY <1>3 DEF FillHeader, Buffer
  <2>2. i \in 1 .. Len(parts) /\ i - 1 \in 0 .. Len(parts)
    BY <1>1, <1>3
  <2>3. parts[i] \in Part /\ SectionsTo(parts, i - 1) \in Seq(Text)
    BY <2>2, SectionsText
  <2>4. /\ PartHeader(parts[i]) \in Seq(Text) /\ Content(parts[i]) \in Seq(Text)
        /\ parts[i].content \in Seq(Seq(Text)) /\ parts[i].dynamic \in BOOLEAN
    BY <2>3, PartText
  <2>5. Len(Content(parts[i])) \in Nat /\ Len(parts[i].content) \in Nat
    BY <2>4, LenProperties
  <2>6. ContentTo(parts[i], 0, 0) = <<>>
    <3>1. FlattenedTo(parts[i].content, 0) = <<>>
      BY <2>4, Flattening
    <3>2. SubSeq(Content(parts[i]), 1, 0) = <<>>
      BY SubSeqEmpty
    <3> QED
      BY <3>1, <3>2 DEF ContentTo
  <2> DEFINE q == SectionsTo(parts, i - 1) \o PartHeader(parts[i])
  <2>7. q \in Seq(Text) /\ q \o <<>> = q
    BY <2>3, <2>4, ConcatProperties, ConcatEmptySeq
  <2>8. FilledAt(parts, "part_content", i, 0, 0) = q \o ContentTo(parts[i], 0, 0)
    BY DEF FilledAt
  <2>9. PlaceOk(parts, "part_content", i, 0, 0)
    BY <2>2, <2>5 DEF PlaceOk
  <2> QED
    BY <2>1, <2>4, <2>6, <2>7, <2>8, <2>9 DEF Fills
<1> QED
  BY <1>2, <1>3

\* Behind the content of a part all of the part has been filled in.
LEMMA PartFilled ==
    ASSUME NEW reply \in Seq(Part), NEW i \in 1 .. Len(reply), NEW offset, NEW pieces,
           ContentTo(reply[i], offset, pieces) = Content(reply[i])
    PROVE  FilledAt(reply, "part_content", i, offset, pieces) = SectionsTo(reply, i)
<1>1. Len(reply) \in Nat /\ i - 1 \in 0 .. Len(reply)
  BY SectionsText
<1> DEFINE front == SectionsTo(reply, i - 1)
           head == PartHeader(reply[i])
           content == Content(reply[i])
<1>2. front \in Seq(Text) /\ head \in Seq(Text) /\ content \in Seq(Text)
  BY <1>1, SectionsText, PartText
<1>3. SectionsTo(reply, i) = front \o (head \o content)
  BY SectionsText
<1>4. FilledAt(reply, "part_content", i, offset, pieces) = (front \o head) \o content
  BY DEF FilledAt
<1> HIDE DEF front, head, content
<1>5. (front \o head) \o content = front \o (head \o content)
  BY <1>2, ConcatAssociative
<1> QED
  BY <1>3, <1>4, <1>5

\* All that goes before the content of a part.
BeforeContent(reply, i) == SectionsTo(reply, i - 1) \o PartHeader(reply[i])

\* It is text, so what is added to the content is added to what has been filled in.
LEMMA BeforeContentText ==
    ASSUME NEW reply \in Seq(Part), NEW i \in 1 .. Len(reply)
    PROVE  BeforeContent(reply, i) \in Seq(Text)
<1>1. Len(reply) \in Nat /\ i - 1 \in 0 .. Len(reply)
  BY SectionsText
<1>2. SectionsTo(reply, i - 1) \in Seq(Text) /\ PartHeader(reply[i]) \in Seq(Text)
  BY <1>1, SectionsText, PartText
<1> QED
  BY <1>2, ConcatProperties DEF BeforeContent

\* A generated part: the next piece, or the next part's header when there is none.
LEMMA FillDynamicFills ==
    ASSUME ReplyTypeInv, current_phase_ = "part_content", parts[part_index_].dynamic,
           FillDynamic(parts[part_index_])
    PROVE  Fills(parts, Filled)
<1> DEFINE i == part_index_
           pieces == parts[i].content
<1>1. /\ parts \in Seq(Part) /\ i \in 1 .. Len(parts) /\ parts[i] \in Part
      /\ yielded \in 0 .. Len(pieces) /\ Len(parts) \in Nat
  BY SectionsText DEF ReplyTypeInv, PlaceOk
<1>2. pieces \in Seq(Seq(Text)) /\ Len(pieces) \in Nat
  BY <1>1, PartText, LenProperties
<1>3. \A offset, n : ContentTo(parts[i], offset, n) = FlattenedTo(pieces, n)
  BY DEF ContentTo
<1>4. Filled = FilledAt(parts, "part_content", i, content_offset_, yielded)
  BY DEF Filled
<1>5. CASE yielded = Len(pieces)
  <2>1. FillHeader(i + 1) /\ i + 1 \in 1 .. Len(parts) + 1 /\ (i + 1) - 1 = i
    BY <1>1, <1>5 DEF FillDynamic
  <2>2. ContentTo(parts[i], content_offset_, yielded) = Content(parts[i])
    BY <1>2, <1>3, <1>5, Flattening DEF Content
  <2>3. Filled = SectionsTo(parts, i)
    BY <1>1, <1>4, <2>2, PartFilled
  <2>4. Fills(parts, SectionsTo(parts, (i + 1) - 1))
    BY <1>1, <2>1, FillHeaderFills
  <2> QED
    BY <2>1, <2>3, <2>4
<1>6. CASE yielded # Len(pieces)
  <2>1. /\ body' = [data |-> pieces[yielded + 1], more |-> TRUE]
        /\ yielded' = yielded + 1
        /\ current_phase_' = current_phase_ /\ part_index_' = i
        /\ content_offset_' = content_offset_
    BY <1>6 DEF FillDynamic, Buffer
  <2>2. /\ yielded + 1 \in 1 .. Len(pieces) /\ yielded + 1 \in 0 .. Len(pieces)
        /\ (yielded + 1) - 1 = yielded
    BY <1>1, <1>2, <1>6
  <2>3. /\ pieces[yielded + 1] \in Seq(Text) /\ FlattenedTo(pieces, yielded) \in Seq(Text)
        /\ FlattenedTo(pieces, yielded + 1)
             = FlattenedTo(pieces, yielded) \o pieces[yielded + 1]
    BY <1>1, <1>2, <2>2, Flattening, ElementOfSeq
  <2>4. FilledAt(parts, "part_content", i, content_offset_, yielded + 1)
          = Filled \o pieces[yielded + 1]
    <3> DEFINE data == pieces[yielded + 1]
    <3>1. ContentTo(parts[i], content_offset_, yielded + 1)
            = ContentTo(parts[i], content_offset_, yielded) \o data
      BY <1>3, <2>3
    <3>2. ContentTo(parts[i], content_offset_, yielded) \in Seq(Text) /\ data \in Seq(Text)
      BY <1>3, <2>3
    <3> HIDE DEF data
    <3> DEFINE before == BeforeContent(parts, i)
               content0 == ContentTo(parts[i], content_offset_, yielded)
    <3>3. before \in Seq(Text)
      BY <1>1, BeforeContentText
    <3>4. Filled = before \o content0
      BY <1>4 DEF FilledAt, BeforeContent
    <3>5. FilledAt(parts, "part_content", i, content_offset_, yielded + 1)
            = before \o ContentTo(parts[i], content_offset_, yielded + 1)
      BY DEF FilledAt, BeforeContent
    <3> HIDE DEF before, content0
    <3>6. (before \o content0) \o data = before \o (content0 \o data)
      BY <3>2, <3>3, ConcatAssociative DEF content0
    <3> QED
      BY <3>1, <3>4, <3>5, <3>6 DEF content0, data
  <2>5. PlaceOk(parts, "part_content", i, content_offset_, yielded + 1)
    BY <1>1, <2>2 DEF PlaceOk
  <2> QED
    BY <2>1, <2>3, <2>4, <2>5 DEF Fills
<1> QED
  BY <1>5, <1>6

\* A static part: the next chunk.  The offset never gets beyond the content, so nothing
\* behind it is read and the subtraction does not wrap around.
LEMMA FillStaticFills ==
    ASSUME ReplyTypeInv, current_phase_ = "part_content", ~parts[part_index_].dynamic,
           FillStatic(parts[part_index_])
    PROVE  Fills(parts, Filled)
<1> DEFINE i == part_index_
           content == Content(parts[i])
           remaining == (Len(content) - content_offset_) % SIZE_MOD
           chunk == Min({remaining, CHUNK})
           data == [k \in 1 .. chunk |-> MemoryAt(content, content_offset_ + k)]
<1>1. /\ parts \in Seq(Part) /\ i \in 1 .. Len(parts) /\ parts[i] \in Part
      /\ content_offset_ \in 0 .. Len(content) /\ Len(parts) \in Nat
      /\ Len(parts) <= MaxParts
  BY SectionsText DEF ReplyTypeInv, PlaceOk
<1>2. MaxParts \in Nat /\ CHUNK \in Nat \ {0} /\ SIZE_MOD \in Nat \ {0}
  BY MultiPartAssumption
<1>3. content \in Seq(Text) /\ Len(content) \in Nat /\ Len(content) < SIZE_MOD
  <2>1. MaxParts >= 1
    BY <1>1, <1>2
  <2> QED
    BY <1>1, <2>1, PartText, StaticContentFits
<1>4. \A offset, n : ContentTo(parts[i], offset, n) = SubSeq(content, 1, offset)
  BY DEF ContentTo
<1>5. Filled = FilledAt(parts, "part_content", i, content_offset_, yielded)
  BY DEF Filled
<1>6. IF remaining = 0 THEN FillHeader(i + 1)
      ELSE /\ body' = [data |-> data, more |-> TRUE]
           /\ content_offset_' = content_offset_ + chunk
           /\ current_phase_' = current_phase_ /\ part_index_' = i /\ yielded' = yielded
  BY DEF FillStatic, Buffer
<1> HIDE DEF content
<1>7. remaining = Len(content) - content_offset_ /\ remaining \in Nat
  <2>1. /\ Len(content) - content_offset_ \in Nat
        /\ Len(content) - content_offset_ < SIZE_MOD
    BY <1>1, <1>2, <1>3
  <2> QED
    BY <1>2, <2>1, NotReduced
<1>8. CASE remaining = 0
  <2>1. FillHeader(i + 1) /\ i + 1 \in 1 .. Len(parts) + 1 /\ (i + 1) - 1 = i
    BY <1>1, <1>6, <1>8
  <2>2. content_offset_ = Len(content)
    BY <1>1, <1>3, <1>7, <1>8
  <2>3. ContentTo(parts[i], content_offset_, yielded) = Content(parts[i])
    BY <1>3, <1>4, <2>2, SubSeqFull DEF content
  <2>4. Filled = SectionsTo(parts, i)
    BY <1>1, <1>5, <2>3, PartFilled
  <2>5. Fills(parts, SectionsTo(parts, (i + 1) - 1))
    BY <1>1, <2>1, FillHeaderFills
  <2> QED
    BY <2>1, <2>4, <2>5
<1>9. CASE remaining # 0
  <2>1. /\ body' = [data |-> data, more |-> TRUE]
        /\ content_offset_' = content_offset_ + chunk
        /\ current_phase_' = current_phase_ /\ part_index_' = i /\ yielded' = yielded
    BY <1>6, <1>9
  <2>2. chunk \in Nat /\ chunk <= remaining
    <3> HIDE DEF remaining
    <3>1. chunk = IF remaining <= CHUNK THEN remaining ELSE CHUNK
      BY <1>2, <1>7 DEF Min
    <3> QED
      BY <1>2, <1>7, <3>1
  <2> HIDE DEF chunk, remaining
  <2> DEFINE offset == content_offset_ + chunk
  <2>3. /\ content_offset_ \in Nat /\ offset \in Nat /\ content_offset_ <= offset
        /\ offset <= Len(content) /\ offset - content_offset_ = chunk
    BY <1>1, <1>3, <1>7, <2>2
  <2>4. data = SubSeq(content, content_offset_ + 1, offset) /\ data \in Seq(Text)
    <3>1. /\ DOMAIN content = 1 .. Len(content)
          /\ \A k \in 1 .. Len(content) : content[k] \in Text
      BY <1>3, LenProperties, ElementOfSeq
    <3>2. \A k \in 1 .. chunk : content_offset_ + k \in 1 .. Len(content)
      BY <1>3, <2>2, <2>3
    <3>3. /\ \A k \in 1 .. chunk : data[k] = content[content_offset_ + k]
          /\ \A k \in 1 .. chunk : data[k] \in Text
      BY <3>1, <3>2 DEF MemoryAt
    <3>4. data = [k \in 1 .. chunk |-> data[k]]
      OBVIOUS
    <3> HIDE DEF data
    <3>5. data \in Seq(Text) /\ Len(data) = chunk
      BY <2>2, <3>3, <3>4
    <3> DEFINE part == SubSeq(content, content_offset_ + 1, offset)
    <3>6. \A k \in content_offset_ + 1 .. offset : content[k] \in Text
      BY <1>3, <2>3, <3>1
    <3>7. /\ part \in Seq(Text)
          /\ Len(part) = IF content_offset_ + 1 <= offset THEN offset - (content_offset_ + 1) + 1 ELSE 0
          /\ \A k \in 1 .. offset - (content_offset_ + 1) + 1 :
               part[k] = content[(content_offset_ + 1) + k - 1]
      BY <2>3, <3>6, SubSeqProperties
    <3> HIDE DEF part
    <3>8. Len(part) = chunk /\ \A k \in 1 .. chunk : part[k] = content[content_offset_ + k]
      BY <2>2, <2>3, <3>7
    <3>9. data = part
      BY <3>3, <3>5, <3>7, <3>8, SeqEqual
    <3> QED
      BY <3>5, <3>9 DEF part
  <2> HIDE DEF data, offset
  <2>5. SubSeq(content, 1, offset) = SubSeq(content, 1, content_offset_) \o data
    <3>1. /\ 1 \in 1 .. Len(content) + 1 /\ content_offset_ \in 1 - 1 .. Len(content)
          /\ offset \in content_offset_ .. Len(content)
      BY <1>3, <2>3
    <3> QED
      BY <1>3, <2>4, <3>1, ConcatAdjacentSubSeq
  <2>6. SubSeq(content, 1, content_offset_) \in Seq(Text)
    <3>1. \A k \in 1 .. Len(content) : content[k] \in Text
      BY <1>3, ElementOfSeq
    <3>2. \A k \in 1 .. content_offset_ : content[k] \in Text
      BY <1>3, <2>3, <3>1
    <3> QED
      BY <2>3, <3>2, SubSeqProperties
  <2>7. FilledAt(parts, "part_content", i, offset, yielded) = Filled \o data
    <3>1. ContentTo(parts[i], offset, yielded)
            = ContentTo(parts[i], content_offset_, yielded) \o data
      BY <1>4, <2>5
    <3>2. ContentTo(parts[i], content_offset_, yielded) \in Seq(Text) /\ data \in Seq(Text)
      BY <1>4, <2>4, <2>6
    <3> DEFINE before == BeforeContent(parts, i)
               content0 == ContentTo(parts[i], content_offset_, yielded)
    <3>3. before \in Seq(Text)
      BY <1>1, BeforeContentText
    <3>4. Filled = before \o content0
      BY <1>5 DEF FilledAt, BeforeContent
    <3>5. FilledAt(parts, "part_content", i, offset, yielded)
            = before \o ContentTo(parts[i], offset, yielded)
      BY DEF FilledAt, BeforeContent
    <3> HIDE DEF before, content0
    <3>6. (before \o content0) \o data = before \o (content0 \o data)
      BY <3>2, <3>3, ConcatAssociative DEF content0
    <3> QED
      BY <3>1, <3>4, <3>5, <3>6 DEF content0
  <2>8. offset \in 0 .. Len(content)
    BY <1>3, <2>3
  <2>9. PlaceOk(parts, "part_content", i, offset, yielded)
    BY <1>1, <2>8 DEF PlaceOk, content
  <2> QED
    BY <2>1, <2>4, <2>7, <2>9 DEF Fills, offset
<1> QED
  BY <1>8, <1>9

LEMMA FillBufferInv == ReplyInv /\ FillBuffer => ReplyInv'
<1> SUFFICES ASSUME ReplyInv, FillBuffer PROVE ReplyInv'
  OBVIOUS
<1>1. /\ ReplyTypeInv /\ parts \in Seq(Part) /\ Len(parts) \in Nat /\ sent = Filled
      /\ current_phase_ \in {"part_header", "part_content"}
      /\ parts' = parts /\ sent' = sent /\ step' = "write"
      /\ use_trunk_' = use_trunk_ /\ content_length' = content_length
      /\ step # "totalSize"
  BY SectionsText DEF FillBuffer, ReplyInv, ReplyTypeInv, SentInv, PlaceOk
<1>2. Fills(parts, Filled)
  <2>1. CASE current_phase_ = "part_header"
    <3>1. part_index_ = 1 /\ FillHeader(part_index_)
      BY <2>1 DEF FillBuffer, ReplyInv, ReplyTypeInv, PlaceOk
    <3>2. 1 \in 1 .. Len(parts) + 1 /\ 1 - 1 = 0
      BY <1>1
    <3>3. Fills(parts, SectionsTo(parts, 1 - 1))
      BY <1>1, <3>1, <3>2, FillHeaderFills
    <3>4. Filled = SectionsTo(parts, 0)
      BY <1>1, <2>1, SectionsText DEF Filled, FilledAt
    <3> QED
      BY <3>2, <3>3, <3>4
  <2>2. CASE current_phase_ = "part_content" /\ parts[part_index_].dynamic
    <3>1. FillDynamic(parts[part_index_])
      BY <2>2 DEF FillBuffer
    <3> QED
      BY <1>1, <2>2, <3>1, FillDynamicFills
  <2>3. CASE current_phase_ = "part_content" /\ ~parts[part_index_].dynamic
    <3>1. FillStatic(parts[part_index_])
      BY <2>3 DEF FillBuffer
    <3> QED
      BY <1>1, <2>3, <3>1, FillStaticFills
  <2> QED
    BY <1>1, <2>1, <2>2, <2>3
<1>3. ReplyTypeInv'
  BY <1>1, <1>2 DEF ReplyTypeInv, Fills, ReplySteps
<1>4. SentInv'
  BY <1>1, <1>2 DEF SentInv, Fills, Filled
<1>5. LengthInv'
  BY <1>1 DEF ReplyInv, LengthInv
<1> QED
  BY <1>3, <1>4, <1>5 DEF ReplyInv

LEMMA FinishInv == ReplyInv /\ Finish => ReplyInv'
<1> SUFFICES ASSUME ReplyInv, Finish PROVE ReplyInv'
  OBVIOUS
<1>1. sent = Whole(parts)
  BY DEF Finish, ReplyInv, SentInv, Filled, FilledAt
<1> QED
  BY <1>1 DEF Finish, ReplyInv, ReplyTypeInv, SentInv, LengthInv, ReplySteps

LEMMA WriteInv == ReplyInv /\ Write => ReplyInv'
<1> SUFFICES ASSUME ReplyInv, Write PROVE ReplyInv'
  OBVIOUS
<1>1. sent' = Filled /\ sent' \in Seq(Text)
  BY ConcatProperties DEF Write, ReplyInv, ReplyTypeInv, SentInv
<1> QED
  BY <1>1 DEF Write, ReplyInv, ReplyTypeInv, SentInv, LengthInv, ReplySteps, Filled

LEMMA WriteErrorInv == ReplyInv /\ WriteError => ReplyInv'
<1> SUFFICES ASSUME ReplyInv, WriteError PROVE ReplyInv'
  OBVIOUS
<1>1. /\ parts \in Seq(Part) /\ sent \in Seq(Text) /\ body.data \in Seq(Text)
      /\ sent \o body.data = Filled
      /\ PlaceOk(parts, current_phase_, part_index_, content_offset_, yielded)
  BY DEF WriteError, ReplyInv, ReplyTypeInv, SentInv
<1>2. Filled \in Seq(Text) /\ Beginning(Text, Filled, Whole(parts))
  BY <1>1, FilledBegins DEF Filled
<1>3. Beginning(Text, sent, Filled)
  BY <1>1 DEF Beginning
<1>4. Beginning(Text, sent, Whole(parts))
  BY <1>1, <1>2, <1>3, WholeText, BeginningOfBeginning
<1> QED
  BY <1>4 DEF WriteError, ReplyInv, ReplyTypeInv, SentInv, LengthInv, ReplySteps, Filled

-----------------------------------------------------------------------------
(* Multipart replies: the theorems *)

\* The invariant of a reply holds in every reachable state.
THEOREM ReplyInvariance == ReplySpec => []ReplyInv
<1>1. ReplyInv /\ [ReplyNext]_replyVars => ReplyInv'
  <2>1. ReplyInv /\ UNCHANGED replyVars => ReplyInv'
    BY DEF replyVars, ReplyInv, ReplyTypeInv, SentInv, LengthInv, Filled
  <2> QED
    BY <2>1, TotalSizeInv, FillBufferInv, FinishInv, WriteInv, WriteErrorInv DEF ReplyNext
<1> QED
  BY <1>1, ReplyInitInv, PTL DEF ReplySpec

\* Whatever the parts, chunks and pieces, what has been sent is a prefix of the message
\* written out of its lines and contents, and at the end all of it; and the Content-Length
\* announced is the length of it if the sizes given for generators are right.
THEOREM MessageAlwaysSent == ReplySpec => []SendsMessage
<1>1. ReplyInv => SendsMessage
  <2> SUFFICES ASSUME ReplyInv PROVE SendsMessage
    OBVIOUS
  <2>1. /\ parts \in Seq(Part) /\ sent \in Seq(Text) /\ step \in ReplySteps
        /\ PlaceOk(parts, current_phase_, part_index_, content_offset_, yielded)
    BY DEF ReplyInv, ReplyTypeInv
  <2>2. Message(parts) = Whole(parts) /\ Whole(parts) \in Seq(Text)
    BY <2>1, WholeText, MessageIsWhole
  <2>3. Filled \in Seq(Text) /\ Beginning(Text, Filled, Whole(parts))
    BY <2>1, FilledBegins DEF Filled
  <2>4. Beginning(Text, sent, Whole(parts))
    <3>1. CASE step = "totalSize"
      BY <2>3, <3>1 DEF ReplyInv, SentInv, Filled, FilledAt
    <3>2. CASE step = "fillBuffer"
      BY <2>3, <3>2 DEF ReplyInv, SentInv
    <3>3. CASE step = "write"
      <4>1. body.data \in Seq(Text) /\ sent \o body.data = Filled
        BY <3>3 DEF ReplyInv, ReplyTypeInv, SentInv
      <4>2. Beginning(Text, sent, Filled)
        BY <4>1 DEF Beginning
      <4> QED
        BY <2>1, <2>2, <2>3, <4>2, BeginningOfBeginning
    <3>4. CASE step = "failed"
      BY <3>4 DEF ReplyInv, SentInv
    <3>5. CASE step = "done"
      BY <2>2, <3>5, BeginningSelf DEF ReplyInv, SentInv
    <3> QED
      BY <2>1, <3>1, <3>2, <3>3, <3>4, <3>5 DEF ReplySteps
  <2>5. IsPrefix(sent, Message(parts))
    BY <2>1, <2>2, <2>4, BeginningIsPrefix
  <2>6. step = "done" => sent = Message(parts)
    BY <2>2 DEF ReplyInv, SentInv
  <2>7. step = "done" /\ (\A i \in DOMAIN parts : Truthful(parts[i])) =>
          ~use_trunk_ /\ content_length = Len(sent)
    <3>1. DOMAIN parts = 1 .. Len(parts)
      BY <2>1, SectionsText
    <3> QED
      BY <2>2, <2>6, <3>1 DEF ReplyInv, LengthInv
  <2> QED
    BY <2>5, <2>6, <2>7 DEF SendsMessage
<1> QED
  BY <1>1, ReplyInvariance, PTL

\* The documented form of a part, against the one that is sent: a line end more for each
\* part but the first, and for each part with fields added.
LEMMA DocumentedIs ==
    ASSUME NEW part \in Part, NEW first \in BOOLEAN
    PROVE  /\ Section(part) \in Seq(Text) /\ DocumentedSection(part, first) \in Seq(Text)
           /\ Len(Section(part)) \in Nat /\ Len(DocumentedSection(part, first)) \in Nat
           /\ Len(Section(part)) <= Len(DocumentedSection(part, first))
           /\ Len(Section(part)) = Len(DocumentedSection(part, first)) =>
                first /\ part.fields = NoFields
           /\ first /\ part.fields = NoFields => DocumentedSection(part, first) = Section(part)
<1> DEFINE c == Content(part)
           e == <<"CRLF">>
           f == IF part.fields = NoFields THEN <<>> ELSE AddedLines(part.fields)
           g == IF part.fields = NoFields THEN <<"CRLF">> ELSE AddedLines(part.fields)
           p == IF first THEN <<>> ELSE <<"CRLF">>
           h == HeadLines
<1>1. /\ c \in Seq(Text) /\ h \in Seq(Text) /\ e \in Seq(Text) /\ <<>> \in Seq(Text)
      /\ Len(h) = 6 /\ Len(e) = 1 /\ Len(<<>>) = 0
  BY PartText, HeaderIs DEF Text, CRLF
<1>2. /\ f \in Seq(Text) /\ g \in Seq(Text) /\ p \in Seq(Text)
      /\ Len(f) \in Nat /\ Len(c) \in Nat
      /\ Len(g) = IF part.fields = NoFields THEN 1 ELSE Len(f)
      /\ part.fields = NoFields => Len(f) = 0
      /\ Len(p) = IF first THEN 0 ELSE 1
  <2>1. /\ f \in Seq(Text) /\ g \in Seq(Text) /\ p \in Seq(Text)
    BY <1>1, HeaderIs, FieldLinesAre
  <2>2. Len(f) \in Nat /\ Len(c) \in Nat
    BY <1>1, <2>1, LenProperties
  <2> QED
    BY <1>1, <2>1, <2>2
<1>3. Section(part) = (h \o g) \o c
  BY DEF Section
<1>4. DocumentedSection(part, first) = (((p \o h) \o f) \o e) \o c
  BY DEF DocumentedSection
<1>5. part.fields = NoFields => f = <<>> /\ g = e
  OBVIOUS
<1>6. first => p = <<>>
  OBVIOUS
<1> DEFINE hg == h \o g
           ph == p \o h
           phf == ph \o f
           phfe == phf \o e
<1> HIDE DEF c, e, f, g, p, h
<1>7. /\ c \in Seq(Text) /\ e \in Seq(Text) /\ f \in Seq(Text) /\ g \in Seq(Text)
      /\ p \in Seq(Text) /\ h \in Seq(Text)
  BY <1>1, <1>2
<1>8. hg \in Seq(Text) /\ Len(hg) = Len(h) + Len(g)
  BY <1>7, ConcatProperties
<1>9. ph \in Seq(Text) /\ Len(ph) = Len(p) + Len(h)
  BY <1>7, ConcatProperties
<1>10. first /\ part.fields = NoFields => (ph \o f) \o e = h \o g
  <2>1. p = <<>> => p \o h = h
    BY <1>7, ConcatEmptySeq
  <2>2. f = <<>> => h \o f = h
    BY <1>7, ConcatEmptySeq
  <2> QED
    BY <1>5, <1>6, <2>1, <2>2
<1> HIDE DEF hg, ph
<1>11. phf \in Seq(Text) /\ Len(phf) = Len(ph) + Len(f)
  BY <1>7, <1>9, ConcatProperties
<1>12. first /\ part.fields = NoFields => phf \o e = hg
  BY <1>10 DEF hg
<1> HIDE DEF phf
<1>13. phfe \in Seq(Text) /\ Len(phfe) = Len(phf) + Len(e)
  BY <1>7, <1>11, ConcatProperties
<1>14. first /\ part.fields = NoFields => phfe = hg
  BY <1>12
<1>15. Section(part) = hg \o c
  BY <1>3 DEF hg
<1>16. DocumentedSection(part, first) = phfe \o c
  BY <1>4 DEF phfe, phf, ph
<1> HIDE DEF phfe
<1>17. Section(part) \in Seq(Text) /\ Len(Section(part)) = Len(hg) + Len(c)
  BY <1>7, <1>8, <1>15, ConcatProperties
<1>18. /\ DocumentedSection(part, first) \in Seq(Text)
       /\ Len(DocumentedSection(part, first)) = Len(phfe) + Len(c)
  BY <1>7, <1>13, <1>16, ConcatProperties
<1>19. first /\ part.fields = NoFields => DocumentedSection(part, first) = Section(part)
  BY <1>14, <1>15, <1>16
<1> DEFINE lc == Len(c)
           lf == Len(f)
           lg == Len(g)
           lp == Len(p)
<1>20. /\ lc \in Nat /\ lf \in Nat
       /\ lg = IF part.fields = NoFields THEN 1 ELSE lf
       /\ part.fields = NoFields => lf = 0
       /\ lp = IF first THEN 0 ELSE 1
  BY <1>2
<1>21. Len(Section(part)) = 6 + lg + lc
  BY <1>1, <1>8, <1>17
<1>22. Len(DocumentedSection(part, first)) = lp + 6 + lf + 1 + lc
  BY <1>1, <1>9, <1>11, <1>13, <1>18
<1> HIDE DEF lc, lf, lg, lp
<1>23. /\ Len(Section(part)) \in Nat /\ Len(DocumentedSection(part, first)) \in Nat
       /\ Len(Section(part)) <= Len(DocumentedSection(part, first))
       /\ Len(Section(part)) = Len(DocumentedSection(part, first)) =>
            first /\ part.fields = NoFields
  BY <1>20, <1>21, <1>22
<1> QED
  BY <1>17, <1>18, <1>19, <1>23

LEMMA Sums ==
    ASSUME NEW a \in Nat, NEW b \in Nat, NEW x \in Nat, NEW y \in Nat, a <= b, x <= y
    PROVE  a + x <= b + y /\ (a + x = b + y => a = b /\ x = y)
  OBVIOUS

\* The same for a reply: it is as documented when it is plain, and otherwise shorter.
LEMMA PlainAsDocumented ==
    ASSUME NEW reply \in Seq(Part)
    PROVE  Message(reply) = Documented(reply)
             <=> Len(reply) <= 1 /\ \A i \in DOMAIN reply : reply[i].fields = NoFields
<1> DEFINE n == Len(reply)
           s == [i \in DOMAIN reply |-> Section(reply[i])]
           d == [i \in DOMAIN reply |-> DocumentedSection(reply[i], i = 1)]
           e == <<"CRLF", "--boundary--", "CRLF">>
           Plain(k) == k <= 1 /\ \A i \in 1 .. k : reply[i].fields = NoFields
<1>1. n \in Nat /\ DOMAIN reply = 1 .. n /\ \A i \in 1 .. n : reply[i] \in Part
  BY SectionsText
<1>2. /\ \A i \in 1 .. n : s[i] = Section(reply[i]) /\ s[i] \in Seq(Text)
      /\ \A i \in 1 .. n : d[i] = DocumentedSection(reply[i], i = 1) /\ d[i] \in Seq(Text)
  BY <1>1, DocumentedIs
<1>3. s \in Seq(Seq(Text)) /\ Len(s) = n /\ d \in Seq(Seq(Text)) /\ Len(d) = n
  BY <1>1, <1>2
<1>4. ASSUME NEW i \in 1 .. n
      PROVE  /\ Len(s[i]) \in Nat /\ Len(d[i]) \in Nat /\ Len(s[i]) <= Len(d[i])
             /\ Len(s[i]) = Len(d[i]) => i = 1 /\ reply[i].fields = NoFields
             /\ i = 1 /\ reply[i].fields = NoFields => d[i] = s[i]
  BY <1>1, <1>2, DocumentedIs
<1>5. Message(reply) = FlattenSeq(s) \o e /\ Documented(reply) = FlattenSeq(d) \o e
  BY DEF Message, Documented
<1>6. e \in Seq(Text) /\ Len(e) = 3
  BY DEF Text, CRLF
<1> HIDE DEF n, s, d, e
<1>7. ASSUME NEW q \in Seq(Seq(Text)), Len(q) = n
      PROVE  /\ FlattenedTo(q, 0) = <<>> /\ FlattenedTo(q, n) = FlattenSeq(q)
             /\ \A k \in 0 .. n : FlattenedTo(q, k) \in Seq(Text)
             /\ \A k \in 1 .. n : FlattenedTo(q, k) = FlattenedTo(q, k - 1) \o q[k]
  BY <1>7, Flattening
<1> DEFINE S(k) == FlattenedTo(s, k)
           D(k) == FlattenedTo(d, k)
           T == {k \in Nat : k <= n =>
                   /\ Len(S(k)) <= Len(D(k))
                   /\ Len(S(k)) = Len(D(k)) => Plain(k)
                   /\ Plain(k) => S(k) = D(k)}
<1>8. 0 \in T
  <2>1. S(0) = <<>> /\ D(0) = <<>>
    BY <1>3, <1>7
  <2>2. Plain(0)
    OBVIOUS
  <2> HIDE DEF S, D, Plain
  <2> QED
    BY <2>1, <2>2
<1>9. ASSUME NEW k \in Nat, k \in T PROVE k + 1 \in T
  <2> SUFFICES ASSUME k + 1 <= n
               PROVE  /\ Len(S(k + 1)) <= Len(D(k + 1))
                      /\ Len(S(k + 1)) = Len(D(k + 1)) => Plain(k + 1)
                      /\ Plain(k + 1) => S(k + 1) = D(k + 1)
    OBVIOUS
  <2>1. k + 1 \in 1 .. n /\ (k + 1) - 1 = k /\ k \in 0 .. n /\ k <= n
    BY <1>1
  <2>2. /\ S(k + 1) = S(k) \o s[k + 1] /\ S(k) \in Seq(Text) /\ s[k + 1] \in Seq(Text)
        /\ D(k + 1) = D(k) \o d[k + 1] /\ D(k) \in Seq(Text) /\ d[k + 1] \in Seq(Text)
    <3>1. s[k + 1] \in Seq(Text) /\ d[k + 1] \in Seq(Text)
      BY <1>2, <2>1
    <3>2. S(k) \in Seq(Text) /\ FlattenedTo(s, k + 1) = FlattenedTo(s, (k + 1) - 1) \o s[k + 1]
      BY <1>3, <1>7, <2>1
    <3>3. D(k) \in Seq(Text) /\ FlattenedTo(d, k + 1) = FlattenedTo(d, (k + 1) - 1) \o d[k + 1]
      BY <1>3, <1>7, <2>1
    <3> QED
      BY <2>1, <3>1, <3>2, <3>3
  <2>3. /\ Len(S(k)) <= Len(D(k))
        /\ Len(S(k)) = Len(D(k)) => Plain(k)
        /\ Plain(k) => S(k) = D(k)
    BY <1>9, <2>1
  <2> HIDE DEF S, D
  <2>4. /\ Len(S(k + 1)) = Len(S(k)) + Len(s[k + 1]) /\ Len(S(k)) \in Nat
        /\ Len(D(k + 1)) = Len(D(k)) + Len(d[k + 1]) /\ Len(D(k)) \in Nat
    BY <2>2, ConcatProperties, LenProperties
  <2>5. /\ Len(s[k + 1]) \in Nat /\ Len(d[k + 1]) \in Nat /\ Len(s[k + 1]) <= Len(d[k + 1])
        /\ Len(s[k + 1]) = Len(d[k + 1]) => k + 1 = 1 /\ reply[k + 1].fields = NoFields
        /\ k + 1 = 1 /\ reply[k + 1].fields = NoFields => d[k + 1] = s[k + 1]
    BY <1>4, <2>1
  <2> DEFINE ls == Len(S(k))
             ld == Len(D(k))
             as == Len(s[k + 1])
             ad == Len(d[k + 1])
             ms == Len(S(k + 1))
             md == Len(D(k + 1))
  <2>6. ls \in Nat /\ ld \in Nat /\ as \in Nat /\ ad \in Nat /\ ls <= ld /\ as <= ad
    BY <2>3, <2>4, <2>5
  <2>7. ms = ls + as /\ md = ld + ad
    BY <2>4
  <2> HIDE DEF ls, ld, as, ad, ms, md
  <2>8. ms <= md /\ (ms = md => as = ad)
    BY <2>6, <2>7, Sums
  <2>9. Len(S(k + 1)) <= Len(D(k + 1))
    BY <2>8 DEF ms, md
  <2>10. ASSUME Len(S(k + 1)) = Len(D(k + 1)) PROVE Plain(k + 1)
    <3>0. as = ad
      BY <2>8, <2>10 DEF ms, md
    <3>1. Len(s[k + 1]) = Len(d[k + 1])
      BY <3>0 DEF as, ad
    <3>2. k = 0 /\ reply[1].fields = NoFields
      BY <2>5, <3>1
    <3> QED
      BY <3>2
  <2>11. ASSUME Plain(k + 1) PROVE S(k + 1) = D(k + 1)
    <3>1. k = 0 /\ reply[1].fields = NoFields
      BY <2>11
    <3>2. d[k + 1] = s[k + 1] /\ S(k) = D(k)
      BY <2>3, <2>5, <3>1
    <3> QED
      BY <2>2, <3>2
  <2> QED
    BY <2>9, <2>10, <2>11
<1> HIDE DEF T, Plain
<1>10. n \in T
  BY <1>1, <1>8, <1>9, SetInduction
<1>11. /\ FlattenSeq(s) = S(n) /\ FlattenSeq(d) = D(n) /\ S(n) \in Seq(Text) /\ D(n) \in Seq(Text)
  <2>1. n \in 0 .. n
    BY <1>1
  <2>2. FlattenSeq(s) = S(n) /\ S(n) \in Seq(Text)
    BY <1>3, <1>7, <2>1
  <2>3. FlattenSeq(d) = D(n) /\ D(n) \in Seq(Text)
    BY <1>3, <1>7, <2>1
  <2> QED
    BY <2>2, <2>3
<1>12. /\ Len(S(n)) = Len(D(n)) => Plain(n)
       /\ Plain(n) => S(n) = D(n)
  BY <1>1, <1>10 DEF T
<1> HIDE DEF S, D
<1>13. S(n) \o e = D(n) \o e => Len(S(n)) = Len(D(n))
  <2> DEFINE a == S(n)
             b == D(n)
  <2>1. a \in Seq(Text) /\ b \in Seq(Text)
    BY <1>11
  <2> HIDE DEF a, b
  <2>2. Len(a \o e) = Len(a) + Len(e) /\ Len(a) \in Nat
    BY <1>6, <2>1, ConcatProperties, LenProperties
  <2>3. Len(b \o e) = Len(b) + Len(e) /\ Len(b) \in Nat
    BY <1>6, <2>1, ConcatProperties, LenProperties
  <2>4. a \o e = b \o e => Len(a) = Len(b)
    BY <1>6, <2>2, <2>3
  <2> QED
    BY <2>4 DEF a, b
<1>14. Message(reply) = Documented(reply) <=> Plain(n)
  BY <1>5, <1>11, <1>12, <1>13
<1> QED
  BY <1>1, <1>14 DEF Plain, n

\* What the comments of MultiPart.hpp describe is sent for a reply of one part at most
\* to which no field has been added, and for no other.
THEOREM DocumentedOnlyIfPlain == ReplySpec => []DocumentedIfPlain
<1>1. ReplyInv => DocumentedIfPlain
  <2> SUFFICES ASSUME ReplyInv, step = "done"
               PROVE  sent = Documented(parts)
                        <=> Len(parts) <= 1 /\ \A i \in DOMAIN parts : parts[i].fields = NoFields
    BY DEF DocumentedIfPlain
  <2>1. parts \in Seq(Part) /\ sent = Whole(parts)
    BY DEF ReplyInv, ReplyTypeInv, SentInv
  <2> QED
    BY <2>1, MessageIsWhole, PlainAsDocumented
<1> QED
  BY <1>1, ReplyInvariance, PTL

\* more is withdrawn with the buffer that completes the message, and with no other.
THEOREM MoreAlwaysUntilLast == ReplySpec => []MoreUntilLast
<1>1. ReplyInv => MoreUntilLast
  <2> SUFFICES ASSUME ReplyInv, step = "write"
               PROVE  body.more <=> Len(sent \o body.data) < Len(Message(parts))
    BY DEF MoreUntilLast
  <2>1. /\ parts \in Seq(Part) /\ sent \o body.data = Filled
        /\ PlaceOk(parts, current_phase_, part_index_, content_offset_, yielded)
        /\ body.more <=> current_phase_ # "done"
    BY DEF ReplyInv, ReplyTypeInv, SentInv
  <2>2. Message(parts) = Whole(parts) /\ Len(Whole(parts)) \in Nat
    BY <2>1, WholeText, LenProperties, MessageIsWhole
  <2>3. current_phase_ # "done" => Len(Filled) < Len(Whole(parts))
    BY <2>1, FilledBegins DEF Filled
  <2>4. current_phase_ = "done" => Filled = Whole(parts)
    BY DEF Filled, FilledAt
  <2> QED
    BY <2>1, <2>2, <2>3, <2>4
<1> QED
  BY <1>1, ReplyInvariance, PTL

=============================================================================
