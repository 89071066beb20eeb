--------------------------- MODULE TransferProofs ---------------------------
(***************************************************************************)
(* Safety of the transfer pages for any number of transfers, connections   *)
(* lost and files.                                                         *)
(***************************************************************************)
EXTENDS Transfer, SequenceTheorems, FiniteSetTheorems, TLAPS

SocketOf(n) ==
    [state : {"connecting", "open", "closing", "closed"}, announced : BOOLEAN,
     reports : 1 .. n]

\* Only the newest connection, which sj holds, is in use, and an older one is
\* still closing only if the newest has not opened.
SocketsInv ==
    /\ sj = Len(sockets)
    /\ sockets # <<>> => loaded
    /\ \A s \in DOMAIN sockets :
         /\ s # sj => sockets[s].state \in {"closing", "closed"}
         /\ s # sj /\ sockets[sj].state = "open" => sockets[s].state = "closed"
         /\ s # sj /\ Underway # {} => sockets[s].state = "closed"
         /\ sockets[s].state = "connecting" => ~sockets[s].announced

\* What is under way belongs to the session the page holds; during the login
\* that is the session of the newest connection, and the button is off.
RequestsInv ==
    /\ panel = "status" <=> transferring
    /\ transferring => Underway = {Request("transfer", sessionID)}
    /\ ~transferring /\ Underway # {} =>
         /\ Underway = {Request("login", sessionID)}
         /\ page = "batchUpload" /\ ~enabled
         /\ sj # 0 /\ sessionID = sj /\ sockets[sj].announced

\* A connection reports its own session until a transfer is under way.
ReportsInv ==
    sj # 0 => /\ sockets[sj].state = "connecting" => sockets[sj].reports = sj
              /\ ~transferring /\ Live(sj) => sockets[sj].reports = sj
              /\ ~transferring /\ Underway = {} /\ sockets[sj].announced => ~Live(sj)

\* The inductive invariant.
IInv ==
    /\ TypeOK
    /\ SocketsInv
    /\ RequestsInv
    /\ ReportsInv
    /\ Watched
    /\ ClickableOnlyWhenIdle

-----------------------------------------------------------------------------
(* Sequences of sockets *)

States == {"connecting", "open", "closing", "closed"}

\* Setting a field of one socket.
SetElement(q, s, e) == [q EXCEPT ![s] = e]
SetState(q, s, v) == [q EXCEPT ![s].state = v]
SetAnnounced(q, s) == [q EXCEPT ![s].announced = TRUE]
SetReports(q, s, k) == [q EXCEPT ![s].reports = k]

LEMMA ElementSet ==
    ASSUME NEW S, NEW q \in Seq(S), NEW s \in DOMAIN q, NEW e \in S
    PROVE  /\ SetElement(q, s, e) \in Seq(S)
           /\ Len(SetElement(q, s, e)) = Len(q)
           /\ DOMAIN SetElement(q, s, e) = DOMAIN q
           /\ \A j \in DOMAIN q : SetElement(q, s, e)[j] = IF j = s THEN e ELSE q[j]
<1>1. DOMAIN q = 1 .. Len(q)
  BY LenProperties
<1>2. /\ SetElement(q, s, e) \in Seq(S)
      /\ Len(SetElement(q, s, e)) = Len(q)
      /\ \A j \in 1 .. Len(q) : SetElement(q, s, e)[j] = IF j = s THEN e ELSE q[j]
  BY <1>1, ExceptSeq DEF SetElement
<1> QED
  BY <1>1, <1>2, LenProperties

LEMMA StateSet ==
    ASSUME NEW n, NEW q \in Seq(SocketOf(n)), NEW s \in DOMAIN q, NEW v \in States
    PROVE  /\ SetState(q, s, v) \in Seq(SocketOf(n))
           /\ Len(SetState(q, s, v)) = Len(q) /\ DOMAIN SetState(q, s, v) = DOMAIN q
           /\ SetState(q, s, v)[s].state = v /\ SetState(q, s, v)[s].announced = q[s].announced
           /\ SetState(q, s, v)[s].reports = q[s].reports
           /\ \A j \in DOMAIN q : j # s => SetState(q, s, v)[j] = q[j]
<1> DEFINE e == [q[s] EXCEPT !.state = v]
<1>1. q[s] \in SocketOf(n)
  BY LenProperties, ElementOfSeq
<1>2. e \in SocketOf(n) /\ e.state = v /\ e.announced = q[s].announced
      /\ e.reports = q[s].reports
  BY <1>1 DEF SocketOf, States
<1>3. SetState(q, s, v) = SetElement(q, s, e)
  BY DEF SetState, SetElement
<1> HIDE DEF e
<1>4. /\ SetElement(q, s, e) \in Seq(SocketOf(n))
      /\ Len(SetElement(q, s, e)) = Len(q)
      /\ DOMAIN SetElement(q, s, e) = DOMAIN q
      /\ \A j \in DOMAIN q : SetElement(q, s, e)[j] = IF j = s THEN e ELSE q[j]
  BY <1>2, ElementSet
<1> QED
  BY <1>2, <1>3, <1>4

LEMMA AnnouncedSet ==
    ASSUME NEW n, NEW q \in Seq(SocketOf(n)), NEW s \in DOMAIN q
    PROVE  /\ SetAnnounced(q, s) \in Seq(SocketOf(n))
           /\ Len(SetAnnounced(q, s)) = Len(q) /\ DOMAIN SetAnnounced(q, s) = DOMAIN q
           /\ SetAnnounced(q, s)[s].announced /\ SetAnnounced(q, s)[s].state = q[s].state
           /\ SetAnnounced(q, s)[s].reports = q[s].reports
           /\ \A j \in DOMAIN q : j # s => SetAnnounced(q, s)[j] = q[j]
<1> DEFINE e == [q[s] EXCEPT !.announced = TRUE]
<1>1. q[s] \in SocketOf(n)
  BY LenProperties, ElementOfSeq
<1>2. e \in SocketOf(n) /\ e.announced /\ e.state = q[s].state
      /\ e.reports = q[s].reports
  BY <1>1 DEF SocketOf, States
<1>3. SetAnnounced(q, s) = SetElement(q, s, e)
  BY DEF SetAnnounced, SetElement
<1> HIDE DEF e
<1>4. /\ SetElement(q, s, e) \in Seq(SocketOf(n))
      /\ Len(SetElement(q, s, e)) = Len(q)
      /\ DOMAIN SetElement(q, s, e) = DOMAIN q
      /\ \A j \in DOMAIN q : SetElement(q, s, e)[j] = IF j = s THEN e ELSE q[j]
  BY <1>2, ElementSet
<1> QED
  BY <1>2, <1>3, <1>4

LEMMA ReportsSet ==
    ASSUME NEW n \in Nat, NEW q \in Seq(SocketOf(n)), NEW s \in DOMAIN q,
           NEW k \in Nat \ {0}, k <= n
    PROVE  /\ SetReports(q, s, k) \in Seq(SocketOf(n))
           /\ Len(SetReports(q, s, k)) = Len(q) /\ DOMAIN SetReports(q, s, k) = DOMAIN q
           /\ SetReports(q, s, k)[s].reports = k /\ SetReports(q, s, k)[s].state = q[s].state
           /\ SetReports(q, s, k)[s].announced = q[s].announced
           /\ \A j \in DOMAIN q : j # s => SetReports(q, s, k)[j] = q[j]
<1> DEFINE e == [q[s] EXCEPT !.reports = k]
<1>1. q[s] \in SocketOf(n)
  BY LenProperties, ElementOfSeq
<1>2. e \in SocketOf(n) /\ e.reports = k /\ e.state = q[s].state
      /\ e.announced = q[s].announced
  BY <1>1 DEF SocketOf, States
<1>3. SetReports(q, s, k) = SetElement(q, s, e)
  BY DEF SetReports, SetElement
<1> HIDE DEF e
<1>4. /\ SetElement(q, s, e) \in Seq(SocketOf(n))
      /\ Len(SetElement(q, s, e)) = Len(q)
      /\ DOMAIN SetElement(q, s, e) = DOMAIN q
      /\ \A j \in DOMAIN q : SetElement(q, s, e)[j] = IF j = s THEN e ELSE q[j]
  BY <1>2, ElementSet
<1> QED
  BY <1>2, <1>3, <1>4

\* A socket more, whose session is its own number.
LEMMA SocketAdded ==
    ASSUME NEW n \in Nat, NEW q \in Seq(SocketOf(n)), Len(q) = n, NEW e \in SocketOf(n + 1)
    PROVE  /\ Append(q, e) \in Seq(SocketOf(n + 1))
           /\ Len(Append(q, e)) = n + 1
           /\ DOMAIN Append(q, e) = 1 .. n + 1
           /\ \A j \in DOMAIN q : Append(q, e)[j] = q[j]
           /\ Append(q, e)[n + 1] = e
<1>1. DOMAIN q = 1 .. n
  BY LenProperties
<1>2. SocketOf(n) \subseteq SocketOf(n + 1)
  BY DEF SocketOf
<1>3. q \in Seq(SocketOf(n + 1))
  BY <1>2, SeqMonotonic
<1>4. /\ Append(q, e) \in Seq(SocketOf(n + 1))
      /\ Len(Append(q, e)) = n + 1
      /\ \A j \in 1 .. n : Append(q, e)[j] = q[j]
      /\ Append(q, e)[n + 1] = e
  BY <1>3, AppendProperties
<1> QED
  BY <1>1, <1>4, LenProperties

-----------------------------------------------------------------------------
(* The invariant *)

\* The type of sockets, with the domain spelled out.
LEMMA SocketsType ==
    ASSUME IInv
    PROVE  /\ sockets \in Seq(SocketOf(Len(sockets)))
           /\ Len(sockets) \in Nat /\ DOMAIN sockets = 1 .. Len(sockets)
           /\ sj = Len(sockets)
           /\ \A j \in DOMAIN sockets : sockets[j] \in SocketOf(Len(sockets))
<1>1. sj = Len(sockets) /\ sj \in 0 .. Len(sockets)
  BY DEF IInv, TypeOK, SocketsInv
<1>2. PICK S : sockets \in Seq(S)
  BY DEF IInv, TypeOK
<1>3. Len(sockets) \in Nat /\ DOMAIN sockets = 1 .. Len(sockets)
  BY <1>2, LenProperties
<1>4. sockets \in Seq(SocketOf(Len(sockets)))
  BY <1>3 DEF IInv, TypeOK, SocketOf
<1> QED
  BY <1>1, <1>3, <1>4, ElementOfSeq

THEOREM InitIInv == Init => IInv
<1> SUFFICES ASSUME Init PROVE IInv
  OBVIOUS
<1>1. sockets = <<>> /\ Len(sockets) = 0 /\ DOMAIN sockets = {} /\ Underway = {}
  BY DEF Init, Underway
<1>2. TypeOK
  <2>1. sockets \in Seq([state : {"connecting", "open", "closing", "closed"},
                        announced : BOOLEAN, reports : DOMAIN sockets])
    BY <1>1, EmptySeq
  <2>2. sj \in 0 .. Len(sockets) /\ sessionID \in DOMAIN sockets \cup {-1}
    BY <1>1 DEF Init
  <2>3. page \in Pages /\ loaded \in BOOLEAN /\ transferring \in BOOLEAN /\ enabled \in BOOLEAN
    BY DEF Init
  <2>4. totalNum \in 0 .. MaxFiles
    BY TransferAssumption DEF Init
  <2> QED
    BY <2>1, <2>2, <2>3, <2>4 DEF Init, TypeOK
<1> QED
  BY <1>1, <1>2 DEF Init, IInv, SocketsInv, RequestsInv, ReportsInv, Watched, ClickableOnlyWhenIdle

\* What a login or a transfer under way tells.
LEMMA LoginUnderway ==
    ASSUME IInv, NEW k, Request("login", k) \in requests
    PROVE  /\ ~transferring /\ panel = "form" /\ page = "batchUpload" /\ ~enabled
           /\ k = sessionID /\ k = sj /\ sj # 0 /\ sockets[sj].announced
           /\ Underway = {Request("login", k)}
<1>1. Request("login", k) \in Underway
  BY DEF Underway, Request
<1>2. ~transferring
  BY <1>1 DEF IInv, RequestsInv, Request
<1>3. Underway = {Request("login", sessionID)} /\ k = sessionID
  BY <1>1, <1>2 DEF IInv, RequestsInv, Request
<1> QED
  BY <1>2, <1>3 DEF IInv, RequestsInv, TypeOK

LEMMA TransferUnderway ==
    ASSUME IInv, NEW k, Request("transfer", k) \in requests
    PROVE  transferring /\ k = sessionID /\ Underway = {Request("transfer", k)}
<1>1. Request("transfer", k) \in Underway
  BY DEF Underway, Request
<1>2. transferring
  BY <1>1 DEF IInv, RequestsInv, Request
<1> QED
  BY <1>1, <1>2 DEF IInv, RequestsInv, Request

\* The newest connection opens, and asks for the session of a transfer.
LEMMA OpenedSockets ==
    ASSUME IInv, NEW s \in DOMAIN sockets, Opened(s)
    PROVE  /\ s = sj /\ sj # 0 /\ sockets[s].state = "connecting"
           /\ sockets' \in Seq(SocketOf(Len(sockets))) /\ Len(sockets') = Len(sockets)
           /\ DOMAIN sockets' = DOMAIN sockets
           /\ sockets'[s].state = "open" /\ sockets'[s].announced = sockets[s].announced
           /\ sockets'[s].reports = IF transferring THEN sessionID ELSE sockets[s].reports
           /\ \A j \in DOMAIN sockets : j # s => sockets'[j] = sockets[j]
<1> DEFINE opened == SetState(sockets, s, "open")
<1>1. /\ sockets \in Seq(SocketOf(Len(sockets))) /\ Len(sockets) \in Nat
      /\ DOMAIN sockets = 1 .. Len(sockets) /\ sj = Len(sockets)
  BY SocketsType
<1>2. s = sj /\ sockets[s].state = "connecting" /\ sj # 0
  BY <1>1 DEF Opened, IInv, SocketsInv
<1>3. /\ opened \in Seq(SocketOf(Len(sockets))) /\ Len(opened) = Len(sockets)
      /\ DOMAIN opened = DOMAIN sockets
      /\ opened[s].state = "open"
      /\ opened[s].announced = sockets[s].announced /\ opened[s].reports = sockets[s].reports
      /\ \A j \in DOMAIN sockets : j # s => opened[j] = sockets[j]
  <2>1. "open" \in States
    BY DEF States
  <2> QED
    BY <1>1, <2>1, StateSet
<1> HIDE DEF opened
<1>4. sockets' = IF transferring THEN SetReports(opened, s, sessionID) ELSE opened
  BY <1>1, <1>2, <1>3 DEF Opened, opened, SetState, SetReports
<1>5. transferring => sessionID \in 1 .. Len(sockets)
  <2>1. transferring => Request("transfer", sessionID) \in requests
    BY DEF IInv, RequestsInv, Underway
  <2> QED
    BY <1>1, <2>1 DEF IInv, TypeOK, Request
<1>6. /\ sockets' \in Seq(SocketOf(Len(sockets))) /\ Len(sockets') = Len(sockets)
      /\ DOMAIN sockets' = DOMAIN sockets
      /\ sockets'[s].state = "open" /\ sockets'[s].announced = sockets[s].announced
      /\ sockets'[s].reports = IF transferring THEN sessionID ELSE sockets[s].reports
      /\ \A j \in DOMAIN sockets : j # s => sockets'[j] = sockets[j]
  <2>1. CASE ~transferring
    BY <1>3, <1>4, <2>1
  <2>2. CASE transferring
    <3> DEFINE r == SetReports(opened, s, sessionID)
    <3>1. /\ r \in Seq(SocketOf(Len(sockets))) /\ Len(r) = Len(opened)
          /\ DOMAIN r = DOMAIN opened
          /\ r[s].reports = sessionID /\ r[s].state = opened[s].state
          /\ r[s].announced = opened[s].announced
          /\ \A j \in DOMAIN opened : j # s => r[j] = opened[j]
      <4>1. s \in DOMAIN opened /\ sessionID \in Nat \ {0} /\ sessionID <= Len(sockets)
        BY <1>1, <1>3, <1>5, <2>2
      <4> QED
        BY <1>1, <1>3, <4>1, ReportsSet
    <3> HIDE DEF r
    <3>2. sockets' = r
      BY <1>4, <2>2 DEF r
    <3> QED
      BY <1>3, <2>2, <3>1, <3>2
  <2> QED
    BY <2>1, <2>2
<1> QED
  BY <1>2, <1>6

LEMMA OpenedIInv ==
    ASSUME IInv, NEW s \in DOMAIN sockets, Opened(s)
    PROVE  IInv'
<1>1. /\ sockets \in Seq(SocketOf(Len(sockets))) /\ Len(sockets) \in Nat
      /\ DOMAIN sockets = 1 .. Len(sockets) /\ sj = Len(sockets)
  BY SocketsType
<1>2. s = sj /\ sockets[s].state = "connecting" /\ sj # 0
  BY OpenedSockets
<1>3. transferring => sessionID \in 1 .. Len(sockets)
  <2>1. transferring => Request("transfer", sessionID) \in requests
    BY DEF IInv, RequestsInv, Underway
  <2> QED
    BY <1>1, <2>1 DEF IInv, TypeOK, Request
<1>6. /\ sockets' \in Seq(SocketOf(Len(sockets))) /\ Len(sockets') = Len(sockets)
      /\ DOMAIN sockets' = DOMAIN sockets
      /\ sockets'[s].state = "open" /\ sockets'[s].announced = sockets[s].announced
      /\ sockets'[s].reports = IF transferring THEN sessionID ELSE sockets[s].reports
      /\ \A j \in DOMAIN sockets : j # s => sockets'[j] = sockets[j]
  BY OpenedSockets
<1>7. TypeOK'
  BY <1>1, <1>6 DEF IInv, TypeOK, Opened, pageVars, SocketOf
<1>8. Underway' = Underway
  BY DEF Opened, Underway
<1>9. SocketsInv'
  BY <1>1, <1>2, <1>6, <1>8 DEF IInv, SocketsInv, Opened, pageVars
<1>10. RequestsInv'
  BY <1>1, <1>2, <1>6, <1>8 DEF IInv, RequestsInv, Opened, pageVars, Request
<1>11. (ReportsInv /\ Watched /\ ClickableOnlyWhenIdle)'
  BY <1>1, <1>2, <1>6, <1>8
     DEF IInv, ReportsInv, SocketsInv, Watched, ClickableOnlyWhenIdle, Clickable, Live, Opened, pageVars
<1> QED
  BY <1>7, <1>9, <1>10, <1>11 DEF IInv

\* A live connection is the newest; it is told its session while nothing is
\* under way, or while a transfer is.
LEMMA AnnouncedIInv ==
    ASSUME IInv, NEW s \in DOMAIN sockets, SessionAnnounced(s)
    PROVE  IInv'
<1>1. /\ sockets \in Seq(SocketOf(Len(sockets))) /\ Len(sockets) \in Nat
      /\ DOMAIN sockets = 1 .. Len(sockets) /\ sj = Len(sockets)
  BY SocketsType
<1>2. s = sj /\ sockets[s].state = "open" /\ ~sockets[s].announced /\ sj # 0
  BY <1>1 DEF SessionAnnounced, IInv, SocketsInv
<1>3. sockets' = SetAnnounced(sockets, s)
  BY DEF SessionAnnounced, SetAnnounced
<1>4. /\ sockets' \in Seq(SocketOf(Len(sockets))) /\ Len(sockets') = Len(sockets)
      /\ DOMAIN sockets' = DOMAIN sockets
      /\ sockets'[s].announced /\ sockets'[s].state = sockets[s].state
      /\ sockets'[s].reports = sockets[s].reports
      /\ \A j \in DOMAIN sockets : j # s => sockets'[j] = sockets[j]
  BY <1>1, <1>3, AnnouncedSet
<1>5. UNCHANGED <<page, loaded, sj, totalNum, enabled>>
  BY DEF SessionAnnounced
<1>6. CASE transferring
  <2>1. UNCHANGED <<sessionID, transferring, panel, requests>>
    BY <1>6 DEF SessionAnnounced
  <2>2. Underway' = Underway
    BY <2>1 DEF Underway
  <2>3. TypeOK'
    BY <1>1, <1>4, <1>5, <2>1 DEF IInv, TypeOK, SocketOf
  <2>4. SocketsInv' /\ RequestsInv'
    BY <1>1, <1>2, <1>4, <1>5, <1>6, <2>1, <2>2 DEF IInv, SocketsInv, RequestsInv, Request
  <2>5. (ReportsInv /\ Watched /\ ClickableOnlyWhenIdle)'
    BY <1>1, <1>2, <1>4, <1>5, <1>6, <2>1, <2>2
       DEF IInv, ReportsInv, RequestsInv, Watched, ClickableOnlyWhenIdle, Clickable, Live
  <2> QED
    BY <2>3, <2>4, <2>5 DEF IInv
<1>7. CASE ~transferring
  <2>1. Underway = {} /\ ~enabled /\ panel = "form"
    BY <1>1, <1>2, <1>7
       DEF IInv, RequestsInv, ClickableOnlyWhenIdle, Clickable, Live, TypeOK
  <2>2. sessionID' = s /\ sockets[s].reports = s
    BY <1>2, <1>7 DEF SessionAnnounced, IInv, ReportsInv, Live
  <2>3. Request("login", s) \notin requests /\ Request("transfer", s) \notin requests
    BY <2>1 DEF Underway, Request
  <2>4. CASE page = "batchUpload"
    <3>1. /\ requests' = requests \cup {Request("login", s)}
          /\ UNCHANGED <<transferring, panel>>
      BY <1>7, <2>4 DEF SessionAnnounced
    <3>2. Underway' = {Request("login", s)}
      BY <2>1, <3>1 DEF Underway, Request
    <3>3. TypeOK'
      BY <1>1, <1>4, <1>5, <2>2, <3>1 DEF IInv, TypeOK, SocketOf, Request
    <3>4. SocketsInv'
      BY <1>1, <1>2, <1>4, <1>5 DEF IInv, SocketsInv
    <3>5. RequestsInv'
      BY <1>2, <1>4, <1>5, <1>7, <2>1, <2>2, <2>4, <3>1, <3>2 DEF IInv, RequestsInv
    <3>6. (ReportsInv /\ Watched /\ ClickableOnlyWhenIdle)'
      BY <1>2, <1>4, <1>5, <1>7, <2>1, <2>2, <3>1, <3>2
         DEF ReportsInv, Watched, ClickableOnlyWhenIdle, Clickable, Live
    <3> QED
      BY <3>3, <3>4, <3>5, <3>6 DEF IInv
  <2>5. CASE page # "batchUpload"
    <3>1. SendTransferRequest(s)
      BY <1>7, <2>5 DEF SessionAnnounced
    <3>2. Underway' = {Request("transfer", s)}
      BY <2>1, <3>1 DEF Underway, Request, SendTransferRequest
    <3>3. TypeOK'
      BY <1>1, <1>4, <1>5, <2>2, <3>1 DEF IInv, TypeOK, SocketOf, Request, SendTransferRequest
    <3>4. SocketsInv'
      BY <1>1, <1>2, <1>4, <1>5 DEF IInv, SocketsInv
    <3>5. RequestsInv'
      BY <2>2, <3>1, <3>2 DEF RequestsInv, SendTransferRequest
    <3>6. (ReportsInv /\ Watched /\ ClickableOnlyWhenIdle)'
      BY <1>2, <1>4, <1>5, <2>2, <3>1
         DEF ReportsInv, Watched, ClickableOnlyWhenIdle, Clickable, SendTransferRequest
    <3> QED
      BY <3>3, <3>4, <3>5, <3>6 DEF IInv
  <2> QED
    BY <2>4, <2>5
<1> QED
  BY <1>6, <1>7 DEF IInv, TypeOK

LEMMA ProgressIInv ==
    ASSUME IInv, NEW s \in DOMAIN sockets, Progress(s)
    PROVE  IInv' /\ totalNum' >= totalNum
<1>1. PICK id \in 1 .. MaxFiles : totalNum' = IF totalNum > id THEN totalNum ELSE id
  BY DEF Progress, UpdateStatus
<1>2. totalNum \in 0 .. MaxFiles
  BY DEF IInv, TypeOK
<1>3. totalNum' \in 0 .. MaxFiles /\ totalNum' >= totalNum
  BY <1>1, <1>2, TransferAssumption
<1>4. UNCHANGED <<page, loaded, sockets, sj, sessionID, transferring, panel, enabled, requests>>
  BY DEF Progress
<1> QED
  BY <1>3, <1>4
     DEF IInv, TypeOK, SocketsInv, RequestsInv, ReportsInv, Watched, ClickableOnlyWhenIdle,
         Clickable, Underway, Live

LEMMA DroppedIInv ==
    ASSUME IInv, NEW s \in DOMAIN sockets, Dropped(s)
    PROVE  IInv'
<1>1. /\ sockets \in Seq(SocketOf(Len(sockets))) /\ Len(sockets) \in Nat
      /\ DOMAIN sockets = 1 .. Len(sockets) /\ sj = Len(sockets)
  BY SocketsType
<1>2. s = sj /\ sj # 0
  BY <1>1 DEF Dropped, Live, IInv, SocketsInv
<1>3. sockets' = SetState(sockets, s, "closing")
  BY DEF Dropped, SetState
<1>4. /\ sockets' \in Seq(SocketOf(Len(sockets))) /\ Len(sockets') = Len(sockets)
      /\ DOMAIN sockets' = DOMAIN sockets
      /\ sockets'[s].state = "closing" /\ sockets'[s].announced = sockets[s].announced
      /\ \A j \in DOMAIN sockets : j # s => sockets'[j] = sockets[j]
  <2>1. "closing" \in States
    BY DEF States
  <2> QED
    BY <1>1, <1>3, <2>1, StateSet
<1>5. UNCHANGED <<page, loaded, sj, sessionID, transferring, totalNum, panel, enabled, requests>>
  BY DEF Dropped, pageVars
<1>6. Underway' = Underway
  BY <1>5 DEF Underway
<1>7. TypeOK'
  BY <1>1, <1>4, <1>5 DEF IInv, TypeOK, SocketOf
<1>8. SocketsInv' /\ RequestsInv'
  BY <1>1, <1>2, <1>4, <1>5, <1>6 DEF IInv, SocketsInv, RequestsInv, Request
<1>9. (ReportsInv /\ Watched /\ ClickableOnlyWhenIdle)'
  BY <1>1, <1>2, <1>4, <1>5, <1>6
     DEF IInv, ReportsInv, Watched, ClickableOnlyWhenIdle, Clickable, Live
<1> QED
  BY <1>7, <1>8, <1>9 DEF IInv

\* The next connection.
LEMMA NewSocketType ==
    ASSUME IInv
    PROVE  /\ NewSocket \in SocketOf(Len(sockets) + 1)
           /\ NewSocket.state = "connecting" /\ NewSocket.announced = FALSE
           /\ NewSocket.reports = Len(sockets) + 1
BY SocketsType DEF NewSocket, SocketOf

\* A closed connection, and the one that replaces it during a transfer.
LEMMA ClosedSockets ==
    ASSUME IInv, NEW s \in DOMAIN sockets, Closed(s)
    PROVE  /\ sockets[s].state = "closing"
           /\ \A j \in DOMAIN sockets : j # s => sockets'[j] = sockets[j]
           /\ sockets'[s].state = "closed" /\ sockets'[s].announced = sockets[s].announced
           /\ sockets'[s].reports = sockets[s].reports
           /\ transferring => /\ sockets' \in Seq(SocketOf(Len(sockets) + 1))
                              /\ Len(sockets') = Len(sockets) + 1 /\ sj' = Len(sockets) + 1
                              /\ DOMAIN sockets' = 1 .. Len(sockets) + 1
                              /\ sockets'[Len(sockets) + 1] = NewSocket
           /\ ~transferring => /\ sockets' \in Seq(SocketOf(Len(sockets)))
                               /\ Len(sockets') = Len(sockets) /\ sj' = sj
                               /\ DOMAIN sockets' = DOMAIN sockets
<1> DEFINE closed == SetState(sockets, s, "closed")
<1>1. /\ sockets \in Seq(SocketOf(Len(sockets))) /\ Len(sockets) \in Nat
      /\ DOMAIN sockets = 1 .. Len(sockets) /\ sj = Len(sockets)
  BY SocketsType
<1>2. sockets[s].state = "closing"
  BY DEF Closed
<1>3. /\ closed \in Seq(SocketOf(Len(sockets))) /\ Len(closed) = Len(sockets)
      /\ DOMAIN closed = DOMAIN sockets
      /\ closed[s].state = "closed" /\ closed[s].announced = sockets[s].announced
      /\ closed[s].reports = sockets[s].reports
      /\ \A j \in DOMAIN sockets : j # s => closed[j] = sockets[j]
  <2>1. "closed" \in States
    BY DEF States
  <2> QED
    BY <1>1, <2>1, StateSet
<1>4. \/ transferring /\ sockets' = Append(closed, NewSocket) /\ sj' = Len(sockets) + 1
      \/ ~transferring /\ sockets' = closed /\ sj' = sj
  BY DEF Closed, SetState
<1> HIDE DEF closed
<1>5. CASE transferring
  <2>1. NewSocket \in SocketOf(Len(sockets) + 1)
    BY NewSocketType
  <2>2. /\ sockets' \in Seq(SocketOf(Len(sockets) + 1)) /\ Len(sockets') = Len(sockets) + 1
        /\ DOMAIN sockets' = 1 .. Len(sockets) + 1
        /\ \A j \in DOMAIN sockets : sockets'[j] = closed[j]
        /\ sockets'[Len(sockets) + 1] = NewSocket
    BY <1>1, <1>3, <1>4, <1>5, <2>1, SocketAdded
  <2> QED
    BY <1>1, <1>2, <1>3, <1>4, <1>5, <2>2
<1>6. CASE ~transferring
  BY <1>2, <1>3, <1>4, <1>6
<1> QED
  BY <1>5, <1>6

LEMMA ClosedIInv ==
    ASSUME IInv, NEW s \in DOMAIN sockets, Closed(s)
    PROVE  IInv'
<1>1. /\ sockets \in Seq(SocketOf(Len(sockets))) /\ Len(sockets) \in Nat
      /\ DOMAIN sockets = 1 .. Len(sockets) /\ sj = Len(sockets)
  BY SocketsType
<1>2. sockets[s].state = "closing"
  BY ClosedSockets
<1>3. /\ \A j \in DOMAIN sockets : j # s => sockets'[j] = sockets[j]
      /\ sockets'[s].state = "closed" /\ sockets'[s].announced = sockets[s].announced
      /\ sockets'[s].reports = sockets[s].reports
  BY ClosedSockets
<1>5. UNCHANGED <<page, loaded, sessionID, transferring, totalNum, panel, enabled, requests>>
  BY DEF Closed, pageVars
<1>6. Underway' = Underway
  BY <1>5 DEF Underway
<1>7. CASE transferring
  <2>1. /\ sockets' \in Seq(SocketOf(Len(sockets) + 1)) /\ Len(sockets') = Len(sockets) + 1
        /\ DOMAIN sockets' = 1 .. Len(sockets) + 1
        /\ sockets'[Len(sockets) + 1] = NewSocket
    BY <1>7, ClosedSockets
  <2>2. s = sj
    BY <1>2, <1>7 DEF IInv, SocketsInv, RequestsInv
  <2>3. /\ NewSocket.state = "connecting" /\ NewSocket.announced = FALSE
        /\ NewSocket.reports = Len(sockets) + 1
    BY NewSocketType
  <2>4. sj' = Len(sockets) + 1
    BY <1>7, ClosedSockets
  <2>5. TypeOK'
    BY <1>1, <1>5, <2>1, <2>4 DEF IInv, TypeOK, SocketOf
  <2>6. \A j \in DOMAIN sockets : sockets'[j].state = "closed"
    BY <1>1, <1>3, <1>7, <2>1, <2>2 DEF IInv, SocketsInv, RequestsInv
  <2>7. SocketsInv' /\ RequestsInv'
    BY <1>1, <1>5, <1>6, <1>7, <2>1, <2>2, <2>3, <2>4, <2>6
       DEF IInv, SocketsInv, RequestsInv, Request
  <2>8. (ReportsInv /\ Watched /\ ClickableOnlyWhenIdle)'
    BY <1>1, <1>5, <1>6, <1>7, <2>1, <2>3, <2>4, <2>6
       DEF IInv, RequestsInv, ReportsInv, Watched, ClickableOnlyWhenIdle, Clickable, Live
  <2> QED
    BY <2>5, <2>7, <2>8 DEF IInv
<1>8. CASE ~transferring
  <2>1. /\ sockets' \in Seq(SocketOf(Len(sockets))) /\ Len(sockets') = Len(sockets)
        /\ DOMAIN sockets' = DOMAIN sockets /\ sj' = sj
    BY <1>8, ClosedSockets
  <2>2. TypeOK'
    BY <1>1, <1>3, <1>5, <2>1 DEF IInv, TypeOK, SocketOf
  <2>3. SocketsInv' /\ RequestsInv'
    BY <1>1, <1>2, <1>3, <1>5, <1>6, <2>1 DEF IInv, SocketsInv, RequestsInv, Request
  <2>4. (ReportsInv /\ Watched /\ ClickableOnlyWhenIdle)'
    BY <1>1, <1>2, <1>3, <1>5, <1>6, <1>8, <2>1
       DEF IInv, ReportsInv, Watched, ClickableOnlyWhenIdle, Clickable, Live
  <2> QED
    BY <2>2, <2>3, <2>4 DEF IInv
<1> QED
  BY <1>7, <1>8

\* sj.close() leaves no connection in use, and changes nothing else of it.
LEMMA SocketClosed ==
    ASSUME IInv, CloseSocket
    PROVE  /\ sockets' \in Seq(SocketOf(Len(sockets))) /\ Len(sockets') = Len(sockets)
           /\ DOMAIN sockets' = DOMAIN sockets
           /\ sj # 0 => /\ sockets'[sj].state \notin {"connecting", "open"}
                        /\ sockets[sj].state \in {"closing", "closed"} =>
                              sockets'[sj].state = sockets[sj].state
                        /\ sockets'[sj].announced = sockets[sj].announced
           /\ \A j \in DOMAIN sockets : j # sj => sockets'[j] = sockets[j]
<1>1. /\ sockets \in Seq(SocketOf(Len(sockets))) /\ Len(sockets) \in Nat
      /\ DOMAIN sockets = 1 .. Len(sockets) /\ sj = Len(sockets)
  BY SocketsType
<1>2. CASE sj # 0 /\ Live(sj)
  <2>1. sockets' = SetState(sockets, sj, "closing") /\ sj \in DOMAIN sockets
    BY <1>1, <1>2 DEF CloseSocket, SetState
  <2>2. "closing" \in States
    BY DEF States
  <2>3. /\ sockets' \in Seq(SocketOf(Len(sockets))) /\ Len(sockets') = Len(sockets)
        /\ DOMAIN sockets' = DOMAIN sockets
        /\ sockets'[sj].state = "closing" /\ sockets'[sj].announced = sockets[sj].announced
        /\ \A j \in DOMAIN sockets : j # sj => sockets'[j] = sockets[j]
    BY <1>1, <2>1, <2>2, StateSet
  <2> QED
    BY <1>2, <2>3 DEF Live
<1>3. CASE ~(sj # 0 /\ Live(sj))
  BY <1>1, <1>3 DEF CloseSocket, Live
<1> QED
  BY <1>2, <1>3

LEMMA LoginAnsweredIInv ==
    ASSUME IInv, NEW k \in DOMAIN sockets, LoginAnswered(k)
    PROVE  IInv'
<1>1. /\ sockets \in Seq(SocketOf(Len(sockets))) /\ Len(sockets) \in Nat
      /\ DOMAIN sockets = 1 .. Len(sockets) /\ sj = Len(sockets)
  BY SocketsType
<1>2. /\ ~transferring /\ panel = "form" /\ page = "batchUpload" /\ ~enabled
      /\ k = sessionID /\ k = sj /\ sj # 0 /\ sockets[sj].announced
      /\ Underway = {Request("login", k)}
  BY LoginUnderway DEF LoginAnswered
<1>3. UNCHANGED <<page, loaded, sj, sessionID, totalNum>> /\ enabled' = TRUE
  BY DEF LoginAnswered
<1>4. CASE SendTransferRequest(k) /\ UNCHANGED sockets
  <2>1. Underway' = {Request("transfer", k)}
    BY <1>2, <1>4 DEF SendTransferRequest, Underway, Request
  <2>2. TypeOK'
    BY <1>3, <1>4 DEF IInv, TypeOK, SendTransferRequest, Request
  <2>3. SocketsInv' /\ RequestsInv'
    BY <1>2, <1>3, <1>4, <2>1 DEF IInv, SocketsInv, RequestsInv, SendTransferRequest
  <2>4. (ReportsInv /\ Watched /\ ClickableOnlyWhenIdle)'
    BY <1>2, <1>3, <1>4
       DEF IInv, ReportsInv, Watched, ClickableOnlyWhenIdle, Clickable, SendTransferRequest, Live
  <2> QED
    BY <2>2, <2>3, <2>4 DEF IInv
<1>5. CASE /\ CloseSocket
           /\ requests' = requests \ {Request("login", k)}
           /\ UNCHANGED <<transferring, panel>>
  <2>1. Underway' = {}
    BY <1>2, <1>5 DEF Underway
  <2>2. /\ sockets' \in Seq(SocketOf(Len(sockets))) /\ Len(sockets') = Len(sockets)
        /\ DOMAIN sockets' = DOMAIN sockets
        /\ sockets'[sj].state \notin {"connecting", "open"}
        /\ \A j \in DOMAIN sockets : j # sj => sockets'[j] = sockets[j]
    BY <1>2, <1>5, SocketClosed
  <2>3. TypeOK'
    BY <1>1, <1>3, <1>5, <2>2 DEF IInv, TypeOK, SocketOf
  <2>4. SocketsInv' /\ RequestsInv'
    BY <1>1, <1>2, <1>3, <1>5, <2>1, <2>2 DEF IInv, SocketsInv, RequestsInv
  <2>5. (ReportsInv /\ Watched /\ ClickableOnlyWhenIdle)'
    BY <1>1, <1>2, <1>3, <1>5, <2>1, <2>2
       DEF IInv, SocketsInv, ReportsInv, Watched, ClickableOnlyWhenIdle, Clickable, Live
  <2> QED
    BY <2>3, <2>4, <2>5 DEF IInv
<1> QED
  BY <1>4, <1>5 DEF LoginAnswered

LEMMA TransferAnsweredIInv ==
    ASSUME IInv, NEW k \in DOMAIN sockets, TransferAnswered(k)
    PROVE  IInv'
<1>1. /\ sockets \in Seq(SocketOf(Len(sockets))) /\ Len(sockets) \in Nat
      /\ DOMAIN sockets = 1 .. Len(sockets) /\ sj = Len(sockets)
  BY SocketsType
<1>2. transferring /\ k = sessionID /\ Underway = {Request("transfer", k)}
  BY TransferUnderway DEF TransferAnswered
<1>3. /\ UNCHANGED <<page, loaded, sj, sessionID>> /\ enabled' = TRUE
      /\ transferring' = FALSE /\ panel' = "form" /\ totalNum' = 0
      /\ requests' = requests \ {Request("transfer", k)} /\ CloseSocket
  BY DEF TransferAnswered, ResetCommonInfos
<1>4. Underway' = {}
  BY <1>2, <1>3 DEF Underway
<1>5. /\ sockets' \in Seq(SocketOf(Len(sockets))) /\ Len(sockets') = Len(sockets)
      /\ DOMAIN sockets' = DOMAIN sockets /\ sj # 0
      /\ sockets'[sj].state \notin {"connecting", "open"}
      /\ \A j \in DOMAIN sockets : j # sj => sockets'[j] = sockets[j]
  BY <1>1, <1>3, SocketClosed
<1>6. TypeOK'
  <2>1. 0 \in 0 .. MaxFiles
    BY TransferAssumption
  <2> QED
    BY <1>1, <1>3, <1>5, <2>1 DEF IInv, TypeOK, SocketOf
<1>7. SocketsInv' /\ RequestsInv'
  BY <1>1, <1>3, <1>4, <1>5 DEF IInv, SocketsInv, RequestsInv
<1>8. (ReportsInv /\ Watched /\ ClickableOnlyWhenIdle)'
  BY <1>1, <1>3, <1>4, <1>5
     DEF IInv, SocketsInv, ReportsInv, Watched, ClickableOnlyWhenIdle, Clickable, Live
<1> QED
  BY <1>6, <1>7, <1>8 DEF IInv

\* A stop request is no part of what is under way.
LEMMA StopIInv ==
    ASSUME IInv, NEW k \in DOMAIN sockets,
           requests' \in {requests \cup {Request("stop", k)}, requests \ {Request("stop", k)}},
           UNCHANGED <<page, loaded, sockets, sj, pageVars, enabled>>
    PROVE  IInv'
<1>1. Underway' = Underway
  <2>1. Request("stop", k).kind = "stop"
    BY DEF Request
  <2> QED
    BY <2>1 DEF Underway
<1>2. requests' \subseteq [kind : {"login", "transfer", "stop"}, session : DOMAIN sockets]
  <2>1. Request("stop", k) \in [kind : {"login", "transfer", "stop"}, session : DOMAIN sockets]
    BY DEF Request
  <2> QED
    BY <2>1 DEF IInv, TypeOK
<1> QED
  BY <1>1, <1>2
     DEF IInv, TypeOK, SocketsInv, RequestsInv, ReportsInv, Watched, ClickableOnlyWhenIdle,
         Clickable, Live, pageVars, Request

\* The session of a transfer is one of a connection.
LEMMA TransferHasSession ==
    ASSUME IInv, transferring
    PROVE  Request("transfer", sessionID) \in requests /\ sessionID \in DOMAIN sockets
<1>1. Request("transfer", sessionID) \in requests
  BY DEF IInv, RequestsInv, Underway
<1> QED
  BY <1>1 DEF IInv, TypeOK, Request

LEMMA StartTransferIInv ==
    ASSUME IInv, StartTransfer
    PROVE  IInv'
<1>1. /\ sockets \in Seq(SocketOf(Len(sockets))) /\ Len(sockets) \in Nat
      /\ DOMAIN sockets = 1 .. Len(sockets) /\ sj = Len(sockets)
  BY SocketsType
<1>2. /\ ~transferring /\ Underway = {}
      /\ \A j \in DOMAIN sockets : ~Live(j)
  BY DEF StartTransfer, IInv, ClickableOnlyWhenIdle
<1>3. UNCHANGED <<page, loaded, sessionID, transferring, totalNum, panel, requests>>
  BY DEF StartTransfer, pageVars
<1>4. Underway' = {}
  BY <1>2, <1>3 DEF Underway
<1>5. CASE ~loaded
  <2>1. UNCHANGED <<sockets, sj>> /\ enabled' = TRUE
    BY <1>5 DEF StartTransfer, RecoverSockJS
  <2> QED
    BY <1>2, <1>3, <1>4, <2>1
       DEF IInv, TypeOK, SocketsInv, RequestsInv, ReportsInv, Watched, ClickableOnlyWhenIdle,
           Clickable, Live
<1>6. CASE loaded
  <2>1. sockets' = Append(sockets, NewSocket) /\ sj' = Len(sockets) + 1 /\ enabled' = FALSE
    BY <1>6 DEF StartTransfer, RecoverSockJS
  <2>2. /\ NewSocket \in SocketOf(Len(sockets) + 1)
        /\ NewSocket.state = "connecting" /\ NewSocket.announced = FALSE
        /\ NewSocket.reports = Len(sockets) + 1
    BY NewSocketType
  <2>3. /\ sockets' \in Seq(SocketOf(Len(sockets) + 1)) /\ Len(sockets') = Len(sockets) + 1
        /\ DOMAIN sockets' = 1 .. Len(sockets) + 1
        /\ \A j \in DOMAIN sockets : sockets'[j] = sockets[j]
        /\ sockets'[Len(sockets) + 1] = NewSocket
    BY <1>1, <2>1, <2>2, SocketAdded
  <2>4. TypeOK'
    <3>1. sockets' \in Seq([state : States, announced : BOOLEAN, reports : DOMAIN sockets'])
      BY <2>3 DEF SocketOf, States
    <3>2. DOMAIN sockets \subseteq DOMAIN sockets' /\ sj' \in 0 .. Len(sockets')
      BY <1>1, <2>1, <2>3
    <3>3. requests' \subseteq [kind : {"login", "transfer", "stop"}, session : DOMAIN sockets']
      BY <1>3, <3>2 DEF IInv, TypeOK
    <3> QED
      BY <1>3, <2>1, <3>1, <3>2, <3>3 DEF IInv, TypeOK, States
  <2>5. \A j \in DOMAIN sockets : sockets'[j].state \in {"closing", "closed"}
    <3>1. \A j \in DOMAIN sockets : sockets[j] \in SocketOf(Len(sockets))
      BY SocketsType
    <3> QED
      BY <1>2, <2>3, <3>1 DEF Live, SocketOf
  <2>6. SocketsInv' /\ RequestsInv'
    BY <1>1, <1>2, <1>3, <1>4, <1>6, <2>1, <2>2, <2>3, <2>5 DEF IInv, SocketsInv, RequestsInv
  <2>7. (ReportsInv /\ Watched /\ ClickableOnlyWhenIdle)'
    BY <1>1, <1>2, <1>3, <1>4, <2>1, <2>2, <2>3
       DEF ReportsInv, Watched, ClickableOnlyWhenIdle, Clickable, Live
  <2> QED
    BY <2>4, <2>6, <2>7 DEF IInv
<1> QED
  BY <1>5, <1>6

THEOREM NextIInv == IInv /\ [Next]_vars => IInv'
<1> SUFFICES ASSUME IInv, [Next]_vars PROVE IInv'
  OBVIOUS
<1>1. CASE UNCHANGED vars
  BY <1>1
     DEF vars, pageVars, IInv, TypeOK, SocketsInv, RequestsInv, ReportsInv, Watched,
         ClickableOnlyWhenIdle, Clickable, Underway, Live
<1>2. CASE StartTransfer
  BY <1>2, StartTransferIInv
<1>3. CASE StopTransfer
  <2>1. sessionID \in DOMAIN sockets
    BY <1>3, TransferHasSession DEF StopTransfer, IInv, RequestsInv
  <2> QED
    BY <1>3, <2>1, StopIInv DEF StopTransfer
<1>4. ASSUME NEW s \in DOMAIN sockets, SocketEvent(s)
      PROVE  IInv'
  BY <1>4, OpenedIInv, AnnouncedIInv, ProgressIInv, DroppedIInv, ClosedIInv DEF SocketEvent
<1>5. ASSUME NEW s \in DOMAIN sockets, Answer(s)
      PROVE  IInv'
  BY <1>5, LoginAnsweredIInv, TransferAnsweredIInv, StopIInv DEF Answer, StopAnswered
<1> QED
  BY <1>1, <1>2, <1>3, <1>4, <1>5 DEF Next

\* The pages keep their invariant.
THEOREM Invariance == Spec => []IInv
<1> QED
  BY InitIInv, NextIInv, PTL DEF Spec

\* A set that has at most one element counts so.
LEMMA AtMostOne ==
  ASSUME NEW S, NEW x, S \subseteq {x}
  PROVE  Cardinality(S) <= 1
<1>1. CASE S = {}
  BY <1>1, FS_EmptySet
<1>2. CASE S = {x}
  BY <1>2, FS_Singleton
<1> QED
  BY <1>1, <1>2

\* At most one transfer is under way and one connection in use, whatever the
\* number of connections made, lost and announced.
THEOREM OnlyOneAtATime == Spec => []OneAtATime
<1>1. ASSUME IInv PROVE OneAtATime
  <2>1. Cardinality(Underway) <= 1
    <3>1. Underway = {} \/ \E r : Underway = {r}
      BY <1>1 DEF IInv, RequestsInv, TypeOK
    <3>2. PICK r : Underway \subseteq {r}
      BY <3>1
    <3> QED
      BY <3>2, AtMostOne
  <2>2. Cardinality({s \in DOMAIN sockets : Live(s)}) <= 1
    <3>1. {s \in DOMAIN sockets : Live(s)} \subseteq {sj}
      BY <1>1 DEF IInv, SocketsInv, Live
    <3> QED
      BY <3>1, AtMostOne
  <2> QED
    BY <1>1, <2>1, <2>2 DEF OneAtATime, IInv
<1> QED
  BY <1>1, Invariance, PTL

\* The button works only when nothing is left of an earlier transfer.
THEOREM OnlyWhenIdle == Spec => []ClickableOnlyWhenIdle
<1>1. IInv => ClickableOnlyWhenIdle
  BY DEF IInv
<1> QED
  BY <1>1, Invariance, PTL

\* A running transfer has a connection for its progress, or gets one, but for
\* an upload whose connection was lost during the login.
THEOREM AlwaysWatched == Spec => []Watched
<1>1. IInv => Watched
  BY DEF IInv
<1> QED
  BY <1>1, Invariance, PTL

-----------------------------------------------------------------------------
(* Steps *)

\* Only the transfer that runs is ever asked to stop.
THEOREM AlwaysStopsTheRunning == Spec => StopsTheRunning
<1>1. ASSUME IInv, [Next]_vars, NEW k \in DOMAIN sockets,
             Request("stop", k) \in requests' \ requests
      PROVE  Request("transfer", k) \in requests
  <2>1. CASE UNCHANGED vars
    BY <1>1, <2>1 DEF vars
  <2>2. CASE StopTransfer
    <3>1. transferring /\ k = sessionID
      BY <1>1, <2>2 DEF StopTransfer, Request, IInv, RequestsInv
    <3> QED
      BY <1>1, <3>1, TransferHasSession
  <2>3. CASE StartTransfer
    BY <1>1, <2>3 DEF StartTransfer
  <2>4. ASSUME NEW s \in DOMAIN sockets, SocketEvent(s)
        PROVE  FALSE
    BY <1>1, <2>4
       DEF SocketEvent, Opened, SessionAnnounced, Progress, Dropped, Closed,
           SendTransferRequest, Request
  <2>5. ASSUME NEW s \in DOMAIN sockets, Answer(s)
        PROVE  FALSE
    BY <1>1, <2>5
       DEF Answer, LoginAnswered, TransferAnswered, StopAnswered, SendTransferRequest, Request
  <2> QED
    BY <1>1, <2>1, <2>2, <2>3, <2>4, <2>5 DEF Next
<1>2. IInv /\ [Next]_vars =>
        [\A k \in DOMAIN sockets :
           Request("stop", k) \in requests' \ requests => Request("transfer", k) \in requests]_vars
  BY <1>1
<1> QED
  BY <1>2, Invariance, PTL DEF Spec, StopsTheRunning

\* The number of files shown does not fall while a transfer goes on.
THEOREM NumberNeverFallsInATransfer == Spec => NumberNeverFalls
<1>1. ASSUME IInv, [Next]_vars, transferring, transferring'
      PROVE  totalNum' >= totalNum
  <2>1. totalNum \in Int
    BY <1>1 DEF IInv, TypeOK
  <2>2. CASE UNCHANGED vars
    BY <2>1, <2>2 DEF vars, pageVars
  <2>3. CASE StartTransfer \/ StopTransfer
    <3>1. totalNum' = totalNum
      BY <2>3 DEF StartTransfer, StopTransfer, pageVars
    <3> QED
      BY <2>1, <3>1
  <2>4. ASSUME NEW s \in DOMAIN sockets, SocketEvent(s)
        PROVE  totalNum' >= totalNum
    BY <1>1, <2>1, <2>4, ProgressIInv
       DEF SocketEvent, Opened, SessionAnnounced, Dropped, Closed, pageVars
  <2>5. ASSUME NEW s \in DOMAIN sockets, Answer(s)
        PROVE  totalNum' >= totalNum
    BY <1>1, <2>1, <2>5
       DEF Answer, LoginAnswered, TransferAnswered, StopAnswered, pageVars
  <2> QED
    BY <1>1, <2>2, <2>3, <2>4, <2>5 DEF Next
<1>2. IInv /\ [Next]_vars => [transferring /\ transferring' => totalNum' >= totalNum]_vars
  BY <1>1
<1> QED
  BY <1>2, Invariance, PTL DEF Spec, NumberNeverFalls
=============================================================================
