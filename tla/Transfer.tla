------------------------------ MODULE Transfer ------------------------------
(***************************************************************************)
(* The transfer pages of the web client: batchUploadFiles.js, which logs   *)
(* in to another host first, and downloadAndExtract.js, which does not.    *)
(* Both open a SockJS connection, are told a session on it, request the    *)
(* transfer of that session with fetch, and show the progress the          *)
(* connection reports until the request is answered.                       *)
(*                                                                         *)
(* A page is single-threaded: an action is one callback with the promise   *)
(* callbacks it leads to.  What interleaves is the user, two kinds of      *)
(* requests in flight, and connections that open, speak and drop whenever  *)
(* they like.                                                              *)
(***************************************************************************)
EXTENDS SequencesExt, Integers

CONSTANTS
    Pages,          \* the pages to model, of "batchUpload" and "download"
    MaxTransfers,   \* bound on how often the user starts a transfer
    MaxDrops,       \* bound on connections lost
    MaxFiles        \* bound on the files of a transfer

ASSUME TransferAssumption ==
    /\ Pages \subseteq {"batchUpload", "download"}
    /\ MaxTransfers \in Nat /\ MaxDrops \in Nat /\ MaxFiles \in Nat

VARIABLES
    page,
    loaded,         \* sockjs.js was loaded, so the constructor does not throw
    sockets,        \* the SockJS objects made so far, oldest first
    sj,             \* the one the page's variable sj holds, 0 before the first
    sessionID,
    transferring,
    totalNum,       \* number of the file the status panel shows
    enabled,        \* the button's onclick is startTransfer
    panel,          \* what is displayed: the form or the transfer's status
    requests,       \* fetches in flight: login, transfer, stop
    started, drops  \* counted for their bounds

pageVars == <<sessionID, transferring, totalNum, panel>>
vars == <<page, loaded, sockets, sj, pageVars, enabled, requests, started, drops>>

\* announced: the server has told its session on this connection.  The number
\* of a session is the connection's own.  reports: the session whose progress
\* the server sends on it.
NewSocket == [state |-> "connecting", announced |-> FALSE, reports |-> Len(sockets) + 1]

Live(s) == sockets[s].state \in {"connecting", "open"}

Request(kind, k) == [kind |-> kind, session |-> k]

Init ==
    /\ page \in Pages
    /\ loaded \in BOOLEAN
    /\ sockets = <<>>
    /\ sj = 0
    /\ sessionID = -1
    /\ transferring = FALSE
    /\ totalNum = 0
    /\ enabled = TRUE
    /\ panel = "form"
    /\ requests = {}
    /\ started = 0
    /\ drops = 0

-----------------------------------------------------------------------------

\* sj.close() of SockJS: nothing if the connection is closing or closed.
CloseSocket ==
    sockets' = IF sj # 0 /\ Live(sj) THEN [sockets EXCEPT ![sj].state = "closing"]
               ELSE sockets

\* Making the SockJS object; without the library the button is given back.
RecoverSockJS(usable) ==
    \/ /\ loaded
       /\ sockets' = Append(sockets, NewSocket)
       /\ sj' = Len(sockets) + 1
       /\ enabled' = usable
    \/ /\ ~loaded
       /\ enabled' = TRUE
       /\ UNCHANGED <<sockets, sj>>

Clickable == panel = "form" /\ enabled

\* A click on the button with a form that is filled in.  With wrong input the
\* button is disabled and enabled again within the call.
StartTransfer ==
    /\ Clickable
    /\ started < MaxTransfers
    /\ started' = started + 1
    /\ RecoverSockJS(FALSE)
    /\ UNCHANGED <<page, loaded, pageVars, requests, drops>>

\* The request of the transfer itself, for the session the page holds.
SendTransferRequest(k) ==
    /\ transferring' = TRUE
    /\ panel' = "status"
    /\ requests' = (requests \ {Request("login", k)}) \cup {Request("transfer", k)}

\* Slip: a new connection does not ask for the session's progress.
Opened_Silent(s) ==
    /\ sockets[s].state = "connecting"
    /\ \A r \in DOMAIN sockets : sockets[r].state # "closing"
    /\ sockets' = [sockets EXCEPT ![s].state = "open"]
    /\ UNCHANGED <<page, loaded, sj, pageVars, enabled, requests, started, drops>>

\* onopen: while a transfer runs, ask for the progress of its session.  A
\* connection takes round trips to open, and the close event of another one
\* only a turn of the event loop (setTimeout(..., 0) in sockjs.js).
Opened(s) ==
    /\ sockets[s].state = "connecting"
    /\ \A r \in DOMAIN sockets : sockets[r].state # "closing"
    /\ sockets' = LET opened == [sockets EXCEPT ![s].state = "open"]
                  IN  IF transferring /\ opened[sj].state = "open"
                        THEN [opened EXCEPT ![sj].reports = sessionID] ELSE opened
    /\ UNCHANGED <<page, loaded, sj, pageVars, enabled, requests, started, drops>>

\* Slip: no look at transferring, so a reconnection starts the transfer again.
SessionAnnounced_Always(s) ==
    /\ sockets[s].state = "open" /\ ~sockets[s].announced
    /\ sockets' = [sockets EXCEPT ![s].announced = TRUE]
    /\ sessionID' = s
    /\ \/ /\ page = "batchUpload"
          /\ requests' = requests \cup {Request("login", s)}
          /\ UNCHANGED <<transferring, panel>>
       \/ /\ page = "download"
          /\ SendTransferRequest(s)
    /\ UNCHANGED <<page, loaded, sj, totalNum, enabled, started, drops>>

\* Slip: the session is kept before transferring is looked at.
SessionAnnounced_KeepsLast(s) ==
    /\ sockets[s].state = "open" /\ ~sockets[s].announced
    /\ sockets' = [sockets EXCEPT ![s].announced = TRUE]
    /\ sessionID' = s
    /\ \/ transferring /\ UNCHANGED <<transferring, panel, requests>>
       \/ /\ ~transferring /\ page = "batchUpload"
          /\ requests' = requests \cup {Request("login", s)}
          /\ UNCHANGED <<transferring, panel>>
       \/ ~transferring /\ page = "download" /\ SendTransferRequest(s)
    /\ UNCHANGED <<page, loaded, sj, totalNum, enabled, started, drops>>

\* onmessage with currentId: start with the session unless a transfer runs.
SessionAnnounced(s) ==
    /\ sockets[s].state = "open" /\ ~sockets[s].announced
    /\ sockets' = [sockets EXCEPT ![s].announced = TRUE]
    /\ \/ /\ transferring
          /\ UNCHANGED <<sessionID, transferring, panel, requests>>
       \/ /\ ~transferring
          /\ sessionID' = s
          /\ \/ /\ page = "batchUpload"
                /\ requests' = requests \cup {Request("login", s)}
                /\ UNCHANGED <<transferring, panel>>
             \/ /\ page = "download"
                /\ SendTransferRequest(s)
    /\ UNCHANGED <<page, loaded, sj, totalNum, enabled, started, drops>>

\* Slip: no early return.
UpdateStatus_Latest(id) == totalNum' = id

\* updateStatus: a file with a smaller number than the one shown is old news.
\* (Files of a transfer have different names, so the name tells no more.)
UpdateStatus(id) == totalNum' = IF totalNum > id THEN totalNum ELSE id

\* onmessage with the progress of a file.  The server may send the news of
\* several files in any order, and again after a reconnection.
Progress(s) ==
    /\ sockets[s].state = "open"
    /\ Request("transfer", sockets[s].reports) \in requests
    /\ \E id \in 1 .. MaxFiles : UpdateStatus(id)
    /\ UNCHANGED <<page, loaded, sockets, sj, sessionID, transferring, panel,
                   enabled, requests, started, drops>>

\* The server or the network closes the connection, or it never opens.
Dropped(s) ==
    /\ Live(s)
    /\ drops < MaxDrops
    /\ drops' = drops + 1
    /\ sockets' = [sockets EXCEPT ![s].state = "closing"]
    /\ UNCHANGED <<page, loaded, sj, pageVars, enabled, requests, started>>

\* onclose: while a transfer runs, connect anew.
Closed(s) ==
    /\ sockets[s].state = "closing"
    /\ LET closed == [sockets EXCEPT ![s].state = "closed"] IN
       \/ /\ transferring
          /\ sockets' = Append(closed, NewSocket)
          /\ sj' = Len(sockets) + 1
       \/ /\ ~transferring
          /\ sockets' = closed
          /\ UNCHANGED sj
    /\ UNCHANGED <<page, loaded, pageVars, enabled, requests, started, drops>>

\* Slip: the button is given back with the transfer only, not in finally.
LoginAnswered_NoFinally(k) ==
    /\ Request("login", k) \in requests
    /\ \/ /\ SendTransferRequest(k)
          /\ enabled' = TRUE
          /\ UNCHANGED sockets
       \/ /\ CloseSocket
          /\ requests' = requests \ {Request("login", k)}
          /\ UNCHANGED <<transferring, panel, enabled>>
    /\ UNCHANGED <<page, loaded, sj, sessionID, totalNum, started, drops>>

\* The answer to a login: the transfer is requested or the connection closed,
\* and the button given back in finally either way.
LoginAnswered(k) ==
    /\ Request("login", k) \in requests
    /\ enabled' = TRUE
    /\ \/ /\ SendTransferRequest(k)
          /\ UNCHANGED sockets
       \/ /\ CloseSocket
          /\ requests' = requests \ {Request("login", k)}
          /\ UNCHANGED <<transferring, panel>>
    /\ UNCHANGED <<page, loaded, sj, sessionID, totalNum, started, drops>>

\* The next transfer counts its files anew.
ResetCommonInfos == totalNum' = 0

\* Slip: the connection is left open when the transfer is over.
TransferAnswered_KeepsSocket(k) ==
    /\ Request("transfer", k) \in requests
    /\ requests' = requests \ {Request("transfer", k)}
    /\ transferring' = FALSE
    /\ panel' = "form"
    /\ ResetCommonInfos
    /\ enabled' = TRUE
    /\ UNCHANGED <<page, loaded, sockets, sj, sessionID, started, drops>>

\* The answer to a transfer, or the failure to get one: handlers and finally.
TransferAnswered(k) ==
    /\ Request("transfer", k) \in requests
    /\ requests' = requests \ {Request("transfer", k)}
    /\ transferring' = FALSE
    /\ panel' = "form"
    /\ ResetCommonInfos
    /\ enabled' = TRUE
    /\ CloseSocket
    /\ UNCHANGED <<page, loaded, sj, sessionID, started, drops>>

\* The stop button of the status panel.
StopTransfer ==
    /\ panel = "status"
    /\ requests' = requests \cup {Request("stop", sessionID)}
    /\ UNCHANGED <<page, loaded, sockets, sj, pageVars, enabled, started, drops>>

\* Its answer is only shown; the transfer's own request ends the transfer.
StopAnswered(k) ==
    /\ Request("stop", k) \in requests
    /\ requests' = requests \ {Request("stop", k)}
    /\ UNCHANGED <<page, loaded, sockets, sj, pageVars, enabled, started, drops>>

SocketEvent(s) == Opened(s) \/ SessionAnnounced(s) \/ Progress(s) \/ Dropped(s) \/ Closed(s)

Answer(k) == LoginAnswered(k) \/ TransferAnswered(k) \/ StopAnswered(k)

Next ==
    \/ StartTransfer
    \/ StopTransfer
    \/ \E s \in DOMAIN sockets : SocketEvent(s) \/ Answer(s)

Spec == Init /\ [][Next]_vars

\* The event loop runs what is due, and the other side of a connection or a
\* request gets to its next message.  Progress, drops and clicks may not come.
FairSpec ==
    /\ Spec
    /\ \A s \in 1 .. MaxTransfers + MaxDrops :
         /\ WF_vars(s \in DOMAIN sockets /\ Opened(s))
         /\ WF_vars(s \in DOMAIN sockets /\ SessionAnnounced(s))
         /\ WF_vars(s \in DOMAIN sockets /\ Closed(s))
         /\ WF_vars(s \in DOMAIN sockets /\ LoginAnswered(s))
         /\ WF_vars(s \in DOMAIN sockets /\ TransferAnswered(s))

-----------------------------------------------------------------------------
(* Properties *)

Underway == {r \in requests : r.kind \in {"login", "transfer"}}

\* Types, and that sj and sessionID name connections that were made.
TypeOK ==
    /\ page \in Pages /\ loaded \in BOOLEAN
    /\ sockets \in Seq([state : {"connecting", "open", "closing", "closed"},
                        announced : BOOLEAN, reports : DOMAIN sockets])
    /\ sj \in 0 .. Len(sockets)
    /\ sessionID \in DOMAIN sockets \cup {-1}
    /\ transferring \in BOOLEAN /\ enabled \in BOOLEAN
    /\ totalNum \in 0 .. MaxFiles
    /\ panel \in {"form", "status"}
    /\ requests \subseteq [kind : {"login", "transfer", "stop"}, session : DOMAIN sockets]

\* The page never has two transfers under way or two connections in use, though
\* every connection announces a session and a lost one is replaced while the
\* answer to the transfer may already be arriving.  (The types are checked along
\* with it.)
OneAtATime ==
    /\ TypeOK
    /\ Cardinality(Underway) <= 1
    /\ Cardinality({s \in DOMAIN sockets : Live(s)}) <= 1

\* The button can be pressed only when nothing is left of an earlier transfer,
\* neither a request nor a connection: although the answer to the login gives
\* it back before the transfer has begun.
ClickableOnlyWhenIdle ==
    Clickable => /\ ~transferring /\ Underway = {}
                 /\ \A s \in DOMAIN sockets : ~Live(s)

\* While a transfer runs the page has a connection for its progress or is about
\* to replace the one it lost, and an open one reports the running session.  Only
\* the connection that announced an upload's session is not replaced, if it was
\* lost during the login.
Watched ==
    transferring =>
        /\ sockets[sj].state = "closed" => page = "batchUpload" /\ sj = sessionID
        /\ sockets[sj].state = "open" => sockets[sj].reports = sessionID

\* A stop request names the session of the transfer that runs, however many
\* connections have announced sessions since it began.
StopsTheRunning ==
    [][\A k \in DOMAIN sockets :
         Request("stop", k) \in requests' \ requests => Request("transfer", k) \in requests]_vars

\* The number of files the status shows does not fall during a transfer.
NumberNeverFalls ==
    [][transferring /\ transferring' => totalNum' >= totalNum]_vars

\* The connection was lost before it had announced its session.
LostBeforeSession == sj # 0 /\ ~Live(sj) /\ ~sockets[sj].announced

\* Whatever fails -- the login, the transfer, a connection during either -- the
\* button comes back, unless the connection was lost before its session.
ButtonComesBack == ~Clickable ~> Clickable \/ LostBeforeSession

\* batchUploadFiles.js:209 tells the user of a connection that cannot be made,
\* after giving the button back: it always comes back.
ConnectionErrorHandled == ~Clickable ~> Clickable
=============================================================================
