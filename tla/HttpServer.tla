----------------------------- MODULE HttpServer -----------------------------
(***************************************************************************)
(* Server::run, doListen and doSession (Server.cpp) with the replies of    *)
(* Connection.cpp: one coroutine accepts connections and awaits each TLS   *)
(* handshake itself, one coroutine per connection reads requests and       *)
(* answers them, and all of them are run by the threads of one io_context. *)
(*                                                                         *)
(* A connection is named by its client.  What a client has sent and the    *)
(* session has not read yet (kernel, TLS stream and the flat_buffer that   *)
(* persists across reads) is wire[c], a sequence of request heads and      *)
(* bodies.  Targets are abstracted to the way they are routed.             *)
(***************************************************************************)
EXTENDS SequencesExt, Integers

CONSTANTS
    Clients,
    Kinds,          \* the kinds of request the clients send
    THREADS,        \* threads that run the io_context
    MaxRequests,    \* bound on the requests of a client
    NoClient

\* How a request is routed, by its method and target:
\*   page       an exact route of the request router whose handler discards
\*              the body (UserServiceController.cpp)
\*   json       an exact route whose handler parses the body as JSON
\*   download   GET /service/file/batchDownload: exact route, body not read
\*   static     GET under /user/
\*   staticPost another method under /user/: the static request handler runs,
\*              the static response handler does not
\*   unrouted   no handler at all
\*   options    OPTIONS, which only the reply side knows
\*   absolute   a target parse_relative_ref rejects, e.g. the absolute form
AllKinds == {"page", "json", "download", "static", "staticPost", "unrouted",
             "options", "absolute"}

ASSUME ServerAssumption ==
    /\ Kinds \subseteq AllKinds
    /\ THREADS \in Nat \ {0}
    /\ MaxRequests \in Nat
    /\ NoClient \notin Clients

\* none: no body; good: what the handler expects; wrongType: the JSON fields
\* are there and are no strings; missing: JSON with a field missing; notJson.
Bodies == {"none", "good", "wrongType", "missing", "notJson"}

\* id 0: no client has sent it.
Request == [id : 0 .. MaxRequests, kind : Kinds, body : Bodies, keepAlive : BOOLEAN]

\* The body kinds differ for JSON routes only.
Sendable(r) == r.kind # "json" => r.body \in {"none", "good"}

VARIABLES
    crash,      \* why the process died, "no" while it runs
    listening,  \* doListen runs
    acceptor,   \* the client whose handshake doListen awaits
    pc,         \* where the session of each client is
    peer,       \* the client's end: open, left, or a write to it has failed
    asked,      \* requests sent
    unsent,     \* a body the client has still to send after its head
    wire,       \* sent by the client and not read by the session
    req,        \* the request in hand
    keepAlive,  \* doSession's local keep_alive
    held,       \* doSession's own connection holds a request (request_)
    status,     \* the reply being written
    shut,       \* TLS shutdown done
    answered,   \* replies written: request id, status, Connection: close
    misread     \* history: bytes of a body were read as a request head

vars == <<crash, listening, acceptor, pc, peer, asked, unsent, wire, req, keepAlive, held,
          status, shut, answered, misread>>

clientVars == <<peer, asked, unsent>>

NoRequest == [id |-> 0, kind |-> "none", body |-> "none", keepAlive |-> TRUE]

Init ==
    /\ crash = "no"
    /\ listening = TRUE
    /\ acceptor = NoClient
    /\ pc = [c \in Clients |-> "away"]
    /\ peer = [c \in Clients |-> "open"]
    /\ asked = [c \in Clients |-> 0]
    /\ unsent = [c \in Clients |-> "none"]
    /\ wire = [c \in Clients |-> <<>>]
    /\ req = [c \in Clients |-> NoRequest]
    /\ keepAlive = [c \in Clients |-> TRUE]
    /\ held = [c \in Clients |-> FALSE]
    /\ status = [c \in Clients |-> "none"]
    /\ shut = [c \in Clients |-> FALSE]
    /\ answered = [c \in Clients |-> <<>>]
    /\ misread = [c \in Clients |-> FALSE]

-----------------------------------------------------------------------------
(* Clients. *)

Connected(c) == pc[c] \notin {"away", "closed", "aborted"}

Connect(c) ==
    /\ listening /\ pc[c] = "away"
    /\ pc' = [pc EXCEPT ![c] = "backlog"]
    /\ UNCHANGED <<crash, listening, acceptor, peer, asked, unsent, wire, req, keepAlive,
                   held, status, shut, answered, misread>>

\* A client may send its next request before the last one is answered.
SendHead(c) ==
    /\ Connected(c) /\ pc[c] \notin {"backlog", "handshake"}
    /\ peer[c] = "open" /\ unsent[c] = "none" /\ asked[c] < MaxRequests
    /\ \E r \in Request :
         /\ r.id = asked[c] + 1
         /\ Sendable(r)
         /\ wire' = [wire EXCEPT ![c] = Append(@, [part |-> "head", req |-> r])]
         /\ unsent' = [unsent EXCEPT ![c] = r.body]
    /\ asked' = [asked EXCEPT ![c] = @ + 1]
    /\ UNCHANGED <<crash, listening, acceptor, pc, peer, req, keepAlive, held, status, shut,
                   answered, misread>>

SendBody(c) ==
    /\ Connected(c) /\ peer[c] = "open" /\ unsent[c] # "none"
    /\ wire' = [wire EXCEPT ![c] = Append(@, [part |-> "body", body |-> unsent[c]])]
    /\ unsent' = [unsent EXCEPT ![c] = "none"]
    /\ UNCHANGED <<crash, listening, acceptor, pc, peer, asked, req, keepAlive, held, status,
                   shut, answered, misread>>

Leave(c) ==
    /\ Connected(c) /\ peer[c] = "open"
    /\ peer' = [peer EXCEPT ![c] = "left"]
    /\ UNCHANGED <<crash, listening, acceptor, pc, asked, unsent, wire, req, keepAlive, held,
                   status, shut, answered, misread>>

-----------------------------------------------------------------------------
(* The io_context.  socket_.shutdown in COMMON_SHUTDOWN_SSL is the blocking
   call: it occupies its thread until the client answers it. *)

Blocked == {c \in Clients : pc[c] = "shutdown"}

ThreadFree == Cardinality(Blocked) < THREADS

Running == crash = "no" /\ ThreadFree

Goto(c, step) == pc' = [pc EXCEPT ![c] = step]

(* doListen *)

Accept(c) ==
    /\ Running /\ listening
    /\ acceptor = NoClient
    /\ pc[c] = "backlog"
    /\ acceptor' = c
    /\ Goto(c, "handshake")
    /\ UNCHANGED <<crash, listening, peer, asked, unsent, wire, req, keepAlive, held, status,
                   shut, answered, misread>>

\* async_accept is outside the try blocks: its exception ends doListen, the
\* completion handler ignores it, and with the acceptor goes the backlog.  The
\* sessions go on.
AcceptFails ==
    /\ Running /\ listening
    /\ acceptor = NoClient
    /\ \E c \in Clients : pc[c] = "backlog"
    /\ listening' = FALSE
    /\ pc' = [c \in Clients |-> IF pc[c] = "backlog" THEN "aborted" ELSE pc[c]]
    /\ UNCHANGED <<crash, acceptor, peer, asked, unsent, wire, req, keepAlive, held,
                   status, shut, answered, misread>>

\* The handshake ends, well or not: a failure is logged and the session is
\* started on the stream all the same.
Handshake(c) ==
    /\ Running
    /\ acceptor = c
    /\ acceptor' = NoClient
    /\ Goto(c, "readHeader")
    /\ UNCHANGED <<crash, listening, peer, asked, unsent, wire, req, keepAlive, held, status,
                   shut, answered, misread>>

-----------------------------------------------------------------------------
(* doSession *)

\* A failure outside the try block ends the coroutine without a word.
Abort(c) == Goto(c, "aborted")

\* The rest of a head or a body some of which has been read.
Rest == [part |-> "rest"]

\* What reading that has lost the boundaries may leave of the wire: it has taken
\* one head or body at least, and perhaps some of the next.
Astray(w) ==
    {SubSeq(w, n + 1, Len(w)) : n \in 1 .. Len(w)}
      \cup {<<Rest>> \o SubSeq(w, n + 1, Len(w)) : n \in {m \in 1 .. Len(w) : w[m] # Rest}}

\* async_read_header.  What it finds may be no request head, or one beyond a
\* limit of the parser.  Bytes of a body that nobody read stand where the next
\* head is expected; now and then they look like a request, which may announce
\* a body of its own and end amid whatever follows.
ReadHeader(c) ==
    /\ Running
    /\ pc[c] = "readHeader"
    /\ held' = [held EXCEPT ![c] = FALSE]
    /\ \/ /\ wire[c] = <<>> /\ peer[c] # "open"
          /\ Abort(c)
          /\ UNCHANGED <<req, wire, misread>>
       \/ /\ wire[c] # <<>> /\ Abort(c)
          /\ misread' = [misread EXCEPT ![c] = @ \/ Head(wire[c]).part # "head"]
          /\ wire' = [wire EXCEPT ![c] = Tail(@)]
          /\ UNCHANGED req
       \/ /\ wire[c] # <<>> /\ Head(wire[c]).part = "head" /\ Goto(c, "authorize")
          /\ req' = [req EXCEPT ![c] = Head(wire[c]).req]
          /\ wire' = [wire EXCEPT ![c] = Tail(@)]
          /\ UNCHANGED misread
       \/ /\ wire[c] # <<>> /\ Head(wire[c]).part # "head" /\ Goto(c, "authorize")
          /\ \E r \in Request : r.id = 0 /\ Sendable(r) /\ req' = [req EXCEPT ![c] = r]
          /\ \E left \in Astray(wire[c]) : wire' = [wire EXCEPT ![c] = left]
          /\ misread' = [misread EXCEPT ![c] = TRUE]
    /\ UNCHANGED <<crash, listening, acceptor, peer, asked, unsent, keepAlive, status,
                   shut, answered>>

\* The process dies: undefined behaviour that dereferences a null pointer.
Crash(why) == crash' = why /\ UNCHANGED <<pc, held, status>>

\* The refused request stays keep-alive.
Authorize_KeepsAlive(c) ==
    /\ Running
    /\ pc[c] = "authorize"
    /\ req[c].kind # "absolute"
    /\ \/ /\ keepAlive' = [keepAlive EXCEPT ![c] = req[c].keepAlive]
          /\ Goto(c, "handleRequest")
          /\ UNCHANGED <<held, status>>
       \/ /\ req[c].kind \in {"json", "download", "unrouted"}
          /\ held' = [held EXCEPT ![c] = TRUE]
          /\ status' = [status EXCEPT ![c] = "unauthorized"]
          /\ keepAlive' = [keepAlive EXCEPT ![c] = FALSE]
          /\ Goto(c, "write")
    /\ UNCHANGED <<crash, listening, acceptor, peer, asked, unsent, wire, req, shut, answered,
                   misread>>

\* authorization_handler_: its first act is *parse_relative_ref(target),
\* which has no value for an absolute target.  The 401 reply is made for a
\* request that is no longer keep-alive.
Authorize(c) ==
    /\ Running
    /\ pc[c] = "authorize"
    /\ \/ /\ req[c].kind = "absolute"
          /\ Crash("absolute")
          /\ UNCHANGED <<keepAlive, req>>
       \/ /\ req[c].kind # "absolute"
          /\ keepAlive' = [keepAlive EXCEPT ![c] = req[c].keepAlive]
          /\ Goto(c, "handleRequest")
          /\ UNCHANGED <<crash, req, held, status>>
       \/ /\ req[c].kind \in {"json", "download", "unrouted"}
          /\ req' = [req EXCEPT ![c].keepAlive = FALSE]
          /\ held' = [held EXCEPT ![c] = TRUE]
          /\ status' = [status EXCEPT ![c] = "unauthorized"]
          /\ keepAlive' = [keepAlive EXCEPT ![c] = FALSE]
          /\ Goto(c, "write")
          /\ UNCHANGED crash
    /\ UNCHANGED <<listening, acceptor, peer, asked, unsent, wire, shut, answered, misread>>

ReadsBody(kind) == kind \in {"page", "json", "static", "staticPost"}

\* The handlers that only discard the body do not read it.
AwaitsBody_JsonOnly(c) == req[c].kind = "json" /\ req[c].body # "none"

\* A body is awaited where none was announced.
AwaitsBody_Always(c) == ReadsBody(req[c].kind)

AwaitsBody(c) == ReadsBody(req[c].kind) /\ req[c].body # "none"

\* What reading the body leaves of the wire.
BodyRead(c) == IF req[c].id = 0 THEN Astray(wire[c]) ELSE {Tail(wire[c])}

\* What the handler makes of the request: a response to write, an exception,
\* or, for JSON that lacks a field, try_at(...)-> on an empty result.
Handled(c) ==
    IF req[c].kind = "json" /\ req[c].body = "missing"
      THEN Crash("missingField")
      ELSE /\ req[c].kind = "json" => req[c].body \notin {"none", "notJson"}
           /\ Goto(c, "handleResponse")
           /\ UNCHANGED <<crash, held, status>>

\* handleRequest and handleStaticFileRequest.  The request goes into the
\* connection and, with the handleResponse: held stays FALSE.  Reading
\* the body and handling it can throw: the client has gone, the body is too
\* large or no JSON, also when there is none, the database is out of order.
HandleRequest(c) ==
    /\ Running
    /\ pc[c] = "handleRequest"
    /\ \/ /\ ~AwaitsBody(c)
          /\ Handled(c)
          /\ UNCHANGED wire
       \/ /\ AwaitsBody(c) /\ wire[c] # <<>>
          /\ \E left \in BodyRead(c) : wire' = [wire EXCEPT ![c] = left]
          /\ Handled(c)
       \/ /\ IF AwaitsBody(c) THEN wire[c] # <<>> \/ peer[c] # "open" ELSE req[c].kind = "json"
          /\ Goto(c, "internalError")
          /\ UNCHANGED <<crash, held, status, wire>>
    /\ UNCHANGED <<listening, acceptor, peer, asked, unsent, req, keepAlive, shut,
                   answered, misread>>

\* The replies handleResponse can pick.
Replies(kind) ==
    CASE kind = "page" -> {"ok", "notModified"}
      [] kind \in {"json", "download"} -> {"ok", "badRequest"}
      [] kind = "static" -> {"ok", "notModified", "notFound"}
      [] kind = "options" -> {"noContent"}
      [] OTHER -> {"notFound"}

\* The handlers of the exact routes may throw as well: no Host to redirect to,
\* a directory that cannot be listed.
HandleResponse(c) ==
    /\ Running
    /\ pc[c] = "handleResponse"
    /\ \/ /\ \E reply \in Replies(req[c].kind) : status' = [status EXCEPT ![c] = reply]
          /\ Goto(c, "write")
       \/ /\ req[c].kind \in {"page", "json", "download"}
          /\ Goto(c, "internalError")
          /\ UNCHANGED status
    /\ UNCHANGED <<crash, listening, acceptor, peer, asked, unsent, wire, req, keepAlive, held,
                   shut, answered, misread>>

\* After a reply: COMMON_SHUTDOWN_SSL asks the request, doSession its local.
AfterReply(c) ==
    IF ~req[c].keepAlive THEN "shutdown"
    ELSE IF keepAlive[c] THEN "readHeader" ELSE "closed"

Reply(c) == [id     |-> req[c].id,
             status |-> status[c],
             close  |-> ~req[c].keepAlive \/ status[c] = "unauthorized"]

\* The static file handler has no co_return after its reply and goes on to the
\* reply for a missing file.
WriteReply_FallsThrough(c) ==
    /\ Running
    /\ pc[c] = "write"
    /\ peer[c] # "broken"
    /\ answered' = [answered EXCEPT ![c] = Append(@, Reply(c))]
    /\ IF req[c].kind = "static" /\ status[c] = "ok"
         THEN status' = [status EXCEPT ![c] = "notFound"] /\ UNCHANGED pc
         ELSE status' = [status EXCEPT ![c] = "none"] /\ Goto(c, AfterReply(c))
    /\ UNCHANGED <<crash, listening, acceptor, peer, asked, unsent, wire, req, keepAlive, held,
                   shut, misread>>

WriteReply(c) ==
    /\ Running
    /\ pc[c] = "write"
    /\ peer[c] # "broken"
    /\ answered' = [answered EXCEPT ![c] = Append(@, Reply(c))]
    /\ status' = [status EXCEPT ![c] = "none"]
    /\ Goto(c, AfterReply(c))
    /\ UNCHANGED <<crash, listening, acceptor, peer, asked, unsent, wire, req, keepAlive, held,
                   shut, misread>>

\* A write fails once the client has gone, and so does every later one.  The
\* static file handler takes any exception for a missing file and replies 404.
WriteFails(c) ==
    /\ Running
    /\ pc[c] = "write"
    /\ peer[c] # "open"
    /\ peer' = [peer EXCEPT ![c] = "broken"]
    /\ IF req[c].kind = "static" /\ status[c] \in {"ok", "notModified"}
         THEN /\ status' = [status EXCEPT ![c] = "notFound"]
              /\ UNCHANGED pc
         ELSE /\ status' = [status EXCEPT ![c] = "none"]
              /\ Goto(c, IF status[c] = "internalError" THEN "aborted" ELSE "internalError")
    /\ UNCHANGED <<crash, listening, acceptor, asked, unsent, wire, req, keepAlive, held, shut,
                   answered, misread>>

\* The blocking shutdown returns: the client has answered it or has gone.
Shutdown(c) ==
    /\ crash = "no"
    /\ pc[c] = "shutdown"
    /\ shut' = [shut EXCEPT ![c] = TRUE]
    /\ Goto(c, IF keepAlive[c] THEN "readHeader" ELSE "closed")
    /\ UNCHANGED <<crash, listening, acceptor, peer, asked, unsent, wire, req, keepAlive, held,
                   status, answered, misread>>

\* The reply after an exception uses doSession's connection, whose request_ is
\* empty unless the exception came from the 401 reply.
InternalError(c) ==
    /\ Running
    /\ pc[c] = "internalError"
    /\ IF held[c]
         THEN /\ status' = [status EXCEPT ![c] = "internalError"]
              /\ keepAlive' = [keepAlive EXCEPT ![c] = FALSE]
              /\ Goto(c, "write")
              /\ UNCHANGED <<crash, held>>
         ELSE Crash("emptyRequest") /\ UNCHANGED keepAlive
    /\ UNCHANGED <<listening, acceptor, peer, asked, unsent, wire, req, shut, answered, misread>>

-----------------------------------------------------------------------------
Client(c) == Connect(c) \/ SendHead(c) \/ SendBody(c) \/ Leave(c)

Session(c) ==
    \/ ReadHeader(c)
    \/ Authorize(c)
    \/ HandleRequest(c)
    \/ HandleResponse(c)
    \/ WriteReply(c)
    \/ WriteFails(c)
    \/ InternalError(c)

Next ==
    \/ AcceptFails
    \/ \E c \in Clients :
        Client(c) \/ Accept(c) \/ Handshake(c) \/ Session(c) \/ Shutdown(c)

Spec == Init /\ [][Next]_vars

\* What the io_context's threads do without the client's help.  A write to a
\* client that does not read may stay where it is; it fails when the client has
\* gone.
Works(c) ==
    ReadHeader(c) \/ Authorize(c) \/ HandleRequest(c) \/ HandleResponse(c)
      \/ WriteFails(c) \/ InternalError(c)

\* The threads run what can run.  No client is supposed to do anything.
FairSpec == Spec /\ \A c \in Clients : WF_vars(Accept(c)) /\ WF_vars(Works(c))

-----------------------------------------------------------------------------
(* Properties *)

Steps == {"away", "backlog", "handshake", "readHeader", "authorize",
          "handleRequest", "handleResponse", "write", "shutdown",
          "internalError", "closed", "aborted"}

Statuses == {"none", "ok", "notModified", "noContent", "notFound", "badRequest",
             "unauthorized", "internalError"}

\* The types of the variables, and the acceptor's part in the handshake step.
TypeOK ==
    /\ crash \in {"no", "absolute", "missingField", "emptyRequest"}
    /\ listening \in BOOLEAN
    /\ acceptor \in Clients \cup {NoClient}
    /\ pc \in [Clients -> Steps]
    /\ \A c \in Clients : acceptor = c <=> pc[c] = "handshake"
    /\ peer \in [Clients -> {"open", "left", "broken"}]
    /\ asked \in [Clients -> 0 .. MaxRequests]
    /\ unsent \in [Clients -> Bodies]
    /\ req \in [Clients -> Request \cup {NoRequest}]
    /\ status \in [Clients -> Statuses]
    /\ \A c \in Clients : status[c] # "none" <=> pc[c] = "write"

\* Every request is answered at most once and in the order of the requests,
\* whatever a client sends ahead, wherever replies fail and retries to reply
\* happen -- as long as no body was taken for a request.  (The types are checked
\* along with it.)
AnswersInOrder ==
    /\ TypeOK
    /\ \A c \in Clients : ~misread[c] =>
         /\ Len(answered[c]) <= asked[c]
         /\ \A i \in DOMAIN answered[c] : answered[c][i].id = i

\* A session comes to look for a request head where a body begins only after a
\* request that no body-reading handler took: an unrouted one, OPTIONS or a batch
\* download.  Until then every handler leaves the stream at a request boundary.
BodiesConsumed ==
    \A c \in Clients :
        ~misread[c] /\ pc[c] = "readHeader" /\ wire[c] # <<>> /\ Head(wire[c]).part # "head"
            => ~ReadsBody(req[c].kind)

\* "At this point the connection is closed gracefully": a session that ends by
\* leaving the loop has told the client so in its last reply and has shut TLS
\* down, and one that goes on reading has done neither, though the reply asks
\* the request and the loop its own keep_alive.
ClosedGracefully ==
    \A c \in Clients :
        /\ pc[c] = "closed" => shut[c] /\ answered[c] # <<>> /\ Last(answered[c]).close
        /\ pc[c] = "readHeader" => ~shut[c] /\ (answered[c] # <<>> => ~Last(answered[c]).close)

\* A session waits for its own client: for a request, for a body the client has
\* announced, or one a misread head has announced, or for the client to read.
AwaitsClient(c) ==
    \/ pc[c] = "readHeader"
    \/ pc[c] = "handleRequest" /\ (unsent[c] # "none" \/ req[c].id = 0)
    \/ pc[c] = "write" /\ peer[c] = "open"

\* As long as the blocking shutdowns leave a thread again and again, a session
\* that has a request in hand comes to wait for its own client, to shut down or to
\* its end, whatever the other clients do or fail to do, unless the process dies.
\* A client in the backlog gets a session or is refused, if in addition nobody
\* drags out a TLS handshake, which doListen awaits itself.
Served ==
    []<>ThreadFree =>
      /\ \A c \in Clients :
           pc[c] \in {"authorize", "handleRequest", "handleResponse", "write", "internalError"}
             ~> \/ AwaitsClient(c) \/ pc[c] \in {"shutdown", "closed", "aborted"}
                \/ crash # "no"
      /\ []<>(acceptor = NoClient) =>
           \A c \in Clients : pc[c] = "backlog" ~> pc[c] # "backlog" \/ crash # "no"

\* Server.cpp:245 means an exception to cost its own session a 500 reply: the
\* reply needs a connection that holds a request.
InternalErrorHasRequest ==
    \A c \in Clients : pc[c] = "internalError" => held[c]
=============================================================================
