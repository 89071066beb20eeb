# A verification of netdisk-cpp

netdisk-cpp is an HTTPS server for sharing the files of a machine, written in
C++ coroutines (Boost.Beast, Boost.Cobalt, oneTBB), with a small web client in
JavaScript. This directory holds TLA+ models of its core logic, the TLC runs
that check them on small instances, and TLAPS proofs of the properties that
matter most for every instance. Paths below are relative to `src/`.

## 1. The system

| component | code | state | operations |
|---|---|---|---|
| accept loop and sessions | `lib/core/http/Server.cpp` | io_context threads, one coroutine per connection, the read buffer, the request in hand | `run`, `doListen`, `doSession`, `handleRequest`, `handleResponse` |
| replies | `lib/core/http/Connection.cpp` | the request proxy `request_`, the TLS stream | `staticBodyReply`, `...WithETag`, `multiPartReply`, `fileReply`, `redirectReply`, `errorReply`, `optionsReply`, TLS shutdown |
| multipart replies | `lib/core/http/message/MultiPart.cpp` | phase, part index, content offset, sizes, chunked or not | `makePart`, `addFields`, `totalSize`, `fillBuffer` |
| token cache | `lib/controller/generic/security/UserAuthenticator.cpp` (`TokenList`) | an LRU list and an index of tokens per user | `add`, `validateAndRefresh`, `remove` |
| user authenticator | same file, `login` and `verifyUserToken` under `lib/controller/http/security/` | `map_` (user to `TokenList`, locked per entry), `login_users_` (user to record, lock-free) | `loginUser`, `hasToken`, `removeToken`, `getUser` |
| authorization | `AuthorizationManager.cpp`, `AuthorizationRules.cpp`, `Controller.cpp` | rules per method and pattern, fixed at start | `authorize` |
| controllers | `FileController.cpp`, `StaticFileController.cpp`, `UserServiceController.cpp`, `LoginController.cpp` | none beyond one request's `extra_data` | one request and one response handler per route |
| router | `lib/utils/url/RouterImpl.cpp` (after a Boost.URL example) | a tree of segment templates, fixed at start | `insert`, `find` with backtracking |
| file service | `lib/service/http/FileService.cpp`, `lib/utils/filesystem/` | none | `getShareableFiles`, `batchDownloadLinks`, `moveFileCmd`, `pathMapping` |
| CORS | `lib/core/http/config/CORS.cpp` | mappings, fixed at start | `addMapping`, `addHeaders` |
| encodings | `HTTPParamEncodings.cpp`, `StringUtils.cpp` | none | Base64, RFC 5987, joining lines |
| command line | `tools/netdisk/` | one static parse state | validators of options |
| users table | `lib/repository/` | SQLite, only read by the server | `queryUserByUsername` |
| file page | `data/user/files.js`, `commonFiles.js` | list, selection, links, uploads | event handlers, answers to requests |
| transfer pages | `data/user/batchUploadFiles.js`, `downloadAndExtract.js`, `commonTransfer.js` | `sj`, `sessionID`, `transferring`, `totalNum`, the button | clicks, events of the connection, answers to requests |
| SockJS object | `data/user/sockjs.js`, SockJS and InfoReceiver | `readyState`, `_transports`, `_transport`, `_transportTimeoutId`, `_ir` | `_receiveInfo`, `_connect`, `_transportTimeout`, `_transportMessage`, `_transportClose`, `_open`, `_close`, `close` |
| SockJS transports | the same file, transports, senders and receivers | polls, posts, send buffer, timers | `send`, `close`, `_scheduleReceiver`, `_chunkHandler`, the browser's callbacks |
| SockJS in an iframe | the same file, IframeTransport, bootstrap_iframe, FacadeJS | the iframe element, its timer and listeners, `facade` | `postMessage` both ways, `close` |

How they interact: `doListen` accepts a connection, awaits its TLS handshake and
spawns a `doSession`; an `async_accept` that fails ends it. A session reads a request head, asks the authorization
handler (`verifyUserToken`, which calls the authorization manager and the user
authenticator), lets the routed request handler read the body, and lets the
response handler reply through a `Connection`. Sessions run on all threads of
the io_context, so every call into the user authenticator interleaves with those
of the other sessions; everything else a session touches is its own. The web
client also posts to endpoints the server has no route for
(`/service/file/upload`, `/service/util/*`, `/webSocket/*`). A transfer page
talks through one SockJS object at a time; that object makes one transport after
another and hears their events; a transport inside an iframe is run by a second
copy of the script there, and the two copies exchange messages.

The hard parts, and what makes them correct:

* **Authenticator.** Two concurrent maps, three calls per verification that each
  take the lock anew, and an unchecked dereference of a lock-free lookup.
  Correct if no interleaving shows a token without its user's record, loses a
  live token, grants an account to another's token, breaks list against index,
  or leaves an entry locked.
* **Sessions.** Keep-alive decided in two places, bodies some handlers do not
  read, replies that fail and are tried again, exceptions that arrive with the
  request moved away, a handshake inside the accept loop, a blocking call on the
  threads of the loop. Correct if requests are answered once and in order,
  the stream stays at request boundaries, a connection is closed exactly when
  it was announced, and no client is held up by what others fail to do, as far as
  a thread is left.
* **Multipart.** A state machine called once per buffer. Correct if the
  buffers add up to the message, `Content-Length` is right, `more` is withdrawn
  with the last buffer, and the message has the form its comments give it.
* **Web client.** Answers and connections that come in any order, globals that
  callbacks of different requests share, controls that a callback has to give
  back. Correct if what is shown, selected and linked belongs together, an
  upload goes where it was meant to, and one transfer leaves nothing to the
  next.
* **SockJS.** Attempts that fail, time out or open while timers and listeners of
  earlier attempts are still around; requests aborted before their first task;
  callbacks that close the object which is calling; two documents that talk by
  messages while one of them is being loaded or removed. Correct if the page sees
  a socket that opens at most once and closes once, frames and messages arrive
  in order, once and in the end, and nothing goes on after `close()`.

There are no tests in the repository and its README is a title, so the
statements a run can contradict are comments and log messages.

## 2. Modules

| module | what it models |
|---|---|
| `TokenList` | the class `TokenList`: one operator per member function, on a record of the list and the index |
| `TokenCache` | the abstract promise: a per-user set of tokens that evicts the least recently used; no list, lock or thread |
| `UserAuthenticator` | login and verification by concurrent sessions, one action per piece of code between two points where another thread can intervene |
| `HttpServer` | accept loop, sessions, replies, clients |
| `MultiPart` | multipart contexts and the loop of `multiPartReply` |
| `Transfer` | the pages of batch upload and of download: SockJS connections, sessions, requests, controls |
| `FilePanel` | the file page: directory requests, list, selection, links, control panel, uploads |
| `Socket` | the abstract promise of one connection object: opens at most once, closes for good, says so once |
| `SockJS` | the SockJS object: info, choice of transports, attempts, timeouts, close |
| `Channel` | the abstract promise of one transport: frames in order, each once, none after its end |
| `SockJSTransports` | the transports that talk to the server themselves, with sender and receivers |
| `SockJSIframe` | the transports that run another one within an iframe, page and iframe |
| `MCUserAuthenticator`, `MCHttpServer`, `MCMultiPart`, `MCTransfer`, `MCFilePanel`, `MCSockJS`, `MCSockJSTransports`, `MCSockJSIframe` | constants and symmetry for TLC |
| `UserAuthenticatorProofs` | facts about the `TokenList` operations, the inductive invariants of `UserAuthenticator`, its theorems, and that it implements `TokenCache` |
| `HttpServerProofs` | the inductive invariants of the sessions and of multipart replies, and their theorems |
| `TransferProofs` | the inductive invariant of the transfer pages, and its theorems |
| `FilePanelProofs` | the inductive invariant of the file page, and its theorems |
| `SockJSProofs` | the inductive invariant of the SockJS object, its theorems, and that it implements `Socket` |
| `SockJSTransportsProofs` | the inductive invariant of the other transports, its theorems, and that each kind implements `Channel` |
| `SockJSIframeProofs` | the inductive invariant of the iframe transports, its theorems, and that each implements `Channel` |
| `SequenceLemmas` | facts about sequences the others share: elements set, removed and appended, which element comes before which, recursive functions and flattening, beginnings |

How the client modules fit together: `SockJS` implements `Socket`
(`ImplementsSocket`, proved), and the connections of `Transfer` open, drop and
close under the same conditions as a `Socket` does; that is written into its
environment actions, not checked. `SockJS` in turn hears of its
transports frames and one close event, and `SockJSTransports` and `SockJSIframe`
implement `Channel` (`ImplementsChannel`, proved), which says what
frames may be heard and when no more. What a transport within an iframe does there is again
`SockJSTransports`.

Operators named `Definition_Slip` (for example `AddToken`'s list operation
`add_NoRefresh`) are not part of any model: each is its definition after a
slip one could make in the code, kept to show which property notices it
(`mutants` in `PROJECT.json`).

### TokenList, UserAuthenticator

A token is the pair of its claims that differ between tokens: the user and the
second of issue. That is what the string is determined by: header, algorithm,
key and lifetime are constants, so two logins of a user in one second give the
*same* string. The clock is finer than seconds (`TICKS` per second), because
expiry compares the exact present with a whole second.

`map_` is a partial function from users to `TokenList` records. `accessor[u]`
is the session that holds the TBB accessor of `u`'s entry. `login_users_` maps a
user to the version of the row that was stored for it: insertion never
overwrites, so the record of the first login stays until restart, whatever is
edited in the table (`EditRow`). `usedSince` is a history variable: for every
token ever added, the tokens of the same user added or validated after its last
use. It is what "least recently used" means without the list.

Actions by code: `QueryUser` (`LoginController.cpp` 49-84), `CreateUserToken`
(`JWT.cpp` 10-28, signing may fail), `AcquireForLogin`, `PublishUser`,
`AddToken` (the three statements of `loginUser`); `VerifyRequest`,
`AcquireForCheck`, `CheckToken` (`hasToken`), `VerifyJwt`, `GetUser`,
`Authorize`, `AcquireForRemove`, `RemoveToken` (`verifyUserToken` and what it
calls). Only a target with an authorization rule is modelled there: without a
rule `verifyUserToken` returns before it touches any of this state. The member
functions `getTokens`, `getAll`, `empty` and `clear` change nothing a session
sees (the last runs at destruction) and have no caller.

A request may carry any token, including one that nobody was ever given; it is
then simply not in the list.

### HttpServer

A connection is named by its client. `wire[c]` is everything the client has sent
and the session has not read, wherever it is buffered. Targets are abstracted
to how they are routed (`AllKinds`), bodies to what the handler makes of them
(`Bodies`). `held[c]` says whether `doSession`'s own `Connection` holds a
request when an exception arrives: only the 401 path sets it and keeps it.
`answered[c]` is the sequence of replies. `misread[c]` is a history flag: the
bytes of an unread body were taken for a request head. Such bytes can look like
any request (id 0), one with a body included, and where it ends nothing is
known: `Astray` lets it take at least one head or body from the wire and end
amid another (`Rest`). Its handler may then eat, or wait for, what the client
means as its next request.

`AcceptFails` is the exception of `async_accept`, which no try block in
`doListen` catches: it ends the coroutine, and `listening` with it. Who was in
the backlog is refused; sessions go on.

The threads are modelled where they matter: the TLS shutdown is the blocking
member function, so a session inside it occupies a thread (`Blocked`,
`ThreadFree`); everything else suspends. `crash` records undefined behaviour
that dereferences a null pointer: the process ends. There are three such steps
(a target in absolute form, a missing JSON field, a 500 reply without a
request); the model has all of them, and no action of the server is enabled
afterwards.

### MultiPart

Text is a sequence of symbols, with one symbol each for CRLF, the dash-boundary
and a header field. Content is a sequence of the pieces a generator yields; a
static part holds their concatenation and is cut into chunks of `CHUNK`. Sizes
are taken modulo `SIZE_MOD`, so an underflow of `remaining` would show. The
phase `closing` is passed through inside one call, as in the code. Its actions are
`TotalSize` (what `multiPartReply` does before its loop), `FillBuffer` and `Finish`
(the two ways through `fillBuffer`), `Write` and `WriteError`; initial states,
next-state relation and specification are called `ReplyInit`, `ReplyNext`,
`ReplySpec`, since `HttpServerProofs` extends `HttpServer` as well.

A generated part has a `content_size` of its own, declared or `NPOS`, which need
not be what the generator yields: `Truthful` says that it is. No controller of the
repository calls `multiPartReply` yet, so what callers declare is open. What is
sent is compared with two descriptions that use nothing of the code's
operators: `Message`, the form a reply is found to have, and `Documented`, the one
the comments in `MultiPart.hpp` give it (72-75 and 121: a blank line ends each header, the next header
is a delimiter). `SendsMessage` says that the first is sent in every case, with the
announced length when all sizes are truthful; `DocumentedIfPlain` that the second
is sent for a reply of one part at most without added fields, and for no
other. That a truthful reply has fewer symbols than `SIZE_MOD` counts is
assumed (`SizesFit`): static contents are in memory and generators read files,
while `size_t` has 64 bits. A generator is assumed to yield no empty piece.

### Transfer

A page runs one callback at a time, so an action is a callback with the promise
callbacks (`then`, `catch`, `finally`) that follow it without a turn of the event
loop. `sockets` are the SockJS objects in the order they were made; connection
`s` announces session `s`, once, and `reports` says whose progress the server
sends on it after `onopen` has asked for a session. The two pages differ in the
login that batch upload puts between session and transfer. The endpoints are
not part of this repository's server; they are taken as the pages use them. An
`onclose` follows a loss by one turn of the event loop (`setTimeout(..., 0)` in
`sockjs.js`), so no other connection opens in between; the answer to a request
may. The number of a file stands for its name too, and is assumed to be there.
`resetCommonInfos` empties the numbers shown.

### SockJS

One object, with the methods as functions from its record to its record, since
they call each other; an action is a task of the event loop. `attempts` are the
transports made so far, `heard` whether their listeners are still there,
`timers` the attempts whose timeout has not run: `_connect` overwrites
`_transportTimeoutId` without clearing it, so those of failed attempts stay and
end a later one (`TransportTimeout`). `loads` counts the listeners of the load
event that `_connect` has attached for a transport that needs the body. They are
never detached, and the model says what follows: `waited` marks that one was
attached, and what `OneVoice` says of several transports is stated apart from that
case, whereas `ImplementsSocket` holds in every case.
Browsers are sets of capabilities from which `filterToEnabled` finds the kinds as
the `enabled` functions do, the one of iframe-wrap, which is called with one
argument less than it expects, included. Pages and endpoint are of one origin.

### SockJSTransports

One transport of one `kind` and the session at the server, which is external:
it makes numbered frames, the last of them "c", writes them to the poll it has,
and may see a response cut. Responses are read in halves of a frame, so a chunk
may end within one. A receiver is `scheduled` until the first task of its request
has run; aborting it before that does nothing (`abortXhr`). Aborting a script or
an iframe stops the page from listening, not the browser from loading: the
receiver is then `loading`, until the server has answered a poll that nobody
hears any more (`UnheardFrame`) or the task of `cleanup` has taken the iframe out
(`HtmlfileRemoved`). `listens` of receiver
and transport are their listeners, `late` are the timers that outlive a receiver,
`stop` is what `sendStop` would do. Posts may arrive after the transport was
closed; the answer of a form cannot be told from a failure.

### SockJSIframe

`WindowIds` are transports tried one after the other. `tasks` are the page's
`setTimeout(..., 0)` tasks, `inbox` and `toPage` the messages to an iframe and
to the page: messages from one window are in order, and since both documents are
of one origin they share an event loop. `phase` is the iframe's document, which
loads, runs its script (`Bootstrap`) or fails, and is removed with everything
in it. The load event may come before or after the first message. The order of
`tasks` is an assumption on the browser: timers of delay 0 run in the order they
were set in. HTML promises that for equal delays and lengthens the delay of timers
nested more than five deep; a transport sets its timers from messages and user
events, and the pages send one message, from `onopen`, so no chain gets there.

### FilePanel

An entry is the pair of the directory it is listed in and its name. `nodes` are
the elements of the list with what the code reads back from them (the attribute
`selected` and the checkbox), `links` the entries the download links lead to.
A directory request takes its answer (`HandleRequest`) before the page shows it
(`ShowAnswer`), so lists can be old when they arrive. The answer follows
`FileService.cpp` (paths that are typed in are directories or nothing; a path
to a file or a relative one is left out). An upload keeps `fileInfo` and, as
history, the directory that was shown when it began and whether the user has
agreed to overwrite. `/service/file/upload` is external. Two things in the code
that look odd are modelled as they are: the first branch of `clickFileListNode`
also runs for an element that was selected, since clearing the selection resets
its mark; and opening a directory empties the selection but not the marks.

## 3. Runs

Each run finishes in a minute or so. The types of `HttpServer`, `Transfer`, `FilePanel`,
`SockJSTransports` and `SockJSIframe` (`TypeOK`) are a conjunct of the first
invariant named.

| run | shows | instance |
|---|---|---|
| `tokens_lru` | `ListMatchesIndex`, `KeptWhileFresh`, and that `UserAuthenticator` implements `TokenCache` (`ImplementsTokenCache`, a refinement with `held <- Held`), and `AccessorReleased` | one account, two sessions, `MAX_TOKENS` 2, tokens of five seconds, expiry at two |
| `accounts` | `TypeOK`, `AccessorExclusive`, `GrantedToOwner`, `GetUserFound` | two accounts and a user name without one, two sessions, each row edited once |
| `session` | `AnswersInOrder`, `BodiesConsumed`, `ClosedGracefully` | one client, two pipelined requests of every kind and body |
| `served` | `Served` | two clients and **one** thread, so the handshake and the blocking shutdown of one are in the way of the other; clients may stop at any point, accepts may fail; under `FairSpec` |
| `multipart_send` | `SendsMessage`, `DocumentedIfPlain`, `MoreUntilLast`, `Ends` | up to two parts, static and dynamic, of sizes declared rightly, wrongly (up to an overflow of the sum) or not, with and without fields, contents shorter and longer than a chunk |
| `transfer` | `OneAtATime`, `ClickableOnlyWhenIdle`, `Watched`, `StopsTheRunning`, `NumberNeverFalls`, `ButtonComesBack` | both pages, two transfers, three lost connections; under `FairSpec` |
| `files` | `ListIsOfCurrentPath`, `SelectionShown`, `LinksMatchSelection`, `FilesLandWhereChosen` | a directory with a file and a directory in it, one request by the user at a time besides the refreshes, one upload |
| `sockjs` | `TypeOK`, `OneVoice`, `ImplementsSocket` (a refinement), `Settles` | four browsers (all there is today, iframe and JSONP only, XDomainRequest, scripts only), every info, every state of the document, four frames or close events; under `FairSpec` |
| `transports` | `GotInOrder`, `ClosesForGood`, `OldTimersHarmless`, `ImplementsChannel` (a refinement), `Delivers` | each of the six kinds, three frames and "c", two messages, five polls; under `FairSpec` |
| `iframe` | `FacadeThere`, `LoadedForGood`, `ImplementsChannel`, `Removed` | two transports in sequence, two frames, two messages; under `FairSpec` |
| `error500` | violation of `InternalErrorHasRequest` | one client, one request |
| `transfer_lost` | violation of `ConnectionErrorHandled` | one transfer, one lost connection |

**Bounds.** In `tokens_lru`, `MAX_TOKENS` is 2 instead of 10 and the clock allows
tokens of five different seconds, so that promotion, refresh, eviction and expiry
all happen and matter. The other two runs need an eviction only, hence
`MAX_TOKENS` 1. The proofs hold for any value. `MaxClock`, `MaxEdits`, `MaxRequests` and `MaxParts`
bound counters by guards (or, for parts, by the initial state). Two sessions
suffice for the pairwise races of an entry. The properties of `session` concern
one connection at a time; sessions only share the threads, which is the subject
of `served`. In `transfer`, a connection can be lost before its session, during
the login and during the transfer of the same run, and the second transfer shows
what the first has left. In `files`, the refresh after an upload is the second
request in flight that lets answers overtake each other; two entries in one
directory are enough for every order and subset of a selection. In `sockjs`, four
frames or close events reach a second open frame, an open frame after a timeout,
and several failed attempts before the connection opens or gives up. In
`transports`, three frames and the closing one can come in one chunk, in chunks
that end anywhere, or in four polls; two messages make a post that waits for
another. In `iframe`, the second transport is there to hear what the first one's
iframe still says.

**Fairness.** `UserAuthenticator!FairSpec` gives weak fairness to every session:
the io_context threads keep resuming coroutines and running functions. A waiter
for an accessor is given no strong fairness, since a TBB accessor is no fair
lock, and `AccessorReleased` needs none. `HttpServer!FairSpec` is about the threads
of the io_context alone: what can run runs (`Accept`, and `Works` of each session).
No client has to finish a handshake, a body or a TLS shutdown, to read or to
leave, and there is no time limit anywhere in the code, so `Served` says what is
left: a session with a request in hand gets on until it waits for its *own*
client, and the backlog moves. It names what that takes: blocking shutdowns leave a thread again and
again (`[]<>ThreadFree`), for each occupies one until its client answers; and, for
the backlog, no handshake goes on for ever (`[]<>(acceptor = NoClient)`), for
`doListen` awaits each itself. Without the one or the other the server does come to
a stop, and TLC shows it when the antecedent is dropped. `MultiPart!FairReplySpec` supposes that writes
succeed or fail, `Transfer!FairSpec` says that requests are answered or fail,
and that a connection opens and announces its session or is lost; clicks,
progress and losses are under no fairness. `SockJS!FairSpec`: timers and tasks
run, the document gets complete and the info request has a timeout; transports
need not say anything at all, for the timeouts are what `Settles` rests on.
`SockJSTransports!FairSpec`: first tasks and timers run, the server writes what
it has made to the poll it has, ends responses and answers posts; nothing is
said of cuts, refusals and `close()`. `SockJSIframe!FairSpec`: tasks and messages
are handled and the timer of an iframe runs; what the iframe does is under no
fairness.

**Deadlock** is checked for `UserAuthenticator`, whose sessions can always start
another request. It is not for the other models, which do stop:
sessions end, clients have a bounded number of requests, a process that has died
does nothing, a reply is over once it is sent, a user has had his transfers, a
page that has gone to the login is gone, and a connection that has closed is.

### What the violation runs show

1. `error500`: after an exception the 500 reply dereferences an empty request
   proxy (`Server.cpp:246`); the comment above it asks "why this crash?". It is
   empty because it was either not set yet or moved into `handleResponse`.
2. `transfer_lost`: a connection lost before it has announced a session leaves
   the button without its handler; the message for that case
   (`batchUploadFiles.js:209`) is in a branch that is not reached.

Further disagreements met while modelling, visible in the models but without a
run of their own:

* `try_at(...)->` on a missing field (`LoginController.cpp:49`,
  `FileController.cpp:37`, `:90`) comes before the branch that reports wrong
  JSON (`HttpServer` has the step);
* `addFieldsImpl` leaves no empty line at the end of a part's header, against the
  comments at `MultiPart.hpp:72` and `:121`, and the header of the next part lacks
  the CRLF that would make it the delimiter the comment at `MultiPart.hpp:74` takes
  it for; `DocumentedIfPlain` says exactly which replies are affected;
* an error of `async_accept` ends the accept loop without a word, while the process
  goes on (`Server.cpp:140`, `AcceptFails`);
* SockJS does not clear the timeout of an attempt that has failed
  (`sockjs.js:819`), which cuts a later attempt short;
* a load listener of `_connect` (`sockjs.js:813`) outlives the attempt, and even
  the connection: a closed object may connect once more, or throw "SockJS has
  already been closed" (`sockjs.js:951`) out of an event listener;
* a session waits for ever for a silent client: "Set the timeout." stands above
  a call that is commented out (`Server.cpp:178`);
* a directory that does not exist is answered with 200 and an empty list
  (`FileService.cpp:22`), so the page's "directory not found" (`files.js:512`)
  is never shown;
* "upload complete" (`files.js:631`) is shown when the existence check has been
  requested and nothing is uploaded yet;
* the existence check asks for directory and name without a separator
  (`files.js:609`).

## 4. Proofs

All theorems are checked by TLAPS for every value of the constants that
satisfies the assumptions the models name: `TokenAssumption`, `SessionAssumption`,
`ServerAssumption`, `TransferAssumption`, `PanelAssumption`, `TransportsAssumption`,
`IframeAssumption`
(accounts are users, special values are no ordinary ones, bounds and counts are
natural numbers), `MultiPartAssumption` and `SizesFit` (contents are sequences of
pieces of symbols, none of them empty; declared sizes are below `NPOS`, and a reply
whose sizes are declared rightly has one below it), and for the type of the SockJS object `SockJSAssumption`.

For each component there is one inductive invariant `IInv`, a conjunction of
named parts, with one lemma per action (`<Action>IInv`, or one for a group of
actions that differ in the target step only), then `Invariance`, and the
properties of the runs as consequences.

**TokenList.** `UserAuthenticatorProofs` first shows what removing an element and pushing
one to the front do to a sequence and to its set of elements, and then that
`add`, `validateAndRefresh` and `remove` take a `WellFormed` list (list and index
name the same tokens, without repetition, at most `MAX_TOKENS`) to a well-formed
one and change the set of tokens exactly as they should. `AddDropsOldest` says
which token `add` drops: none while there is room, otherwise one that has all
that stay in front of it.

**UserAuthenticator.** `IInv` joins the properties with what they need to be
inductive:

* `SessionInv`: what a session carries at each step. Without it nothing says
  that the user a session is about to release is one it has locked, or that a
  token being added is of the session's own user.
* `PublishedInv`: a token in the cache implies a record in `login_users_`. This
  is why `GetUserFound` holds: `loginUser` publishes the record before it adds
  the token, the token is looked up after, and records are never removed. It
  does not depend on the accessor.
* `EntriesInv`: only accounts have an entry.
* `TypeOK`, `AccessorExclusive`, `ListMatchesIndex`, `GrantedToOwner` themselves.

`TypeCorrect`, `AccessorIsExclusive`, `ListAlwaysMatchesIndex`,
`GrantedOnlyToOwner` and `GetUserAlwaysFound` follow.

`FreshTokenKept` says that an unexpired token is only missing after `MAX_TOKENS`
others of its user were used since it was. The property is not inductive, for it
says nothing of the tokens still in the list. `FreshInv` adds to `IInv`

* `RecencyInv`: every token in front of `t` in its list has been used since `t`
  was (`Before(list, t) \subseteq usedSince[t]`). A token that is evicted has all
  others of a full list in front of it, so at least `MAX_TOKENS` tokens were
  used after it, counting the one that is being added;
* `HistoryInv`: the history knows accounts only, its sets are finite, and a
  session on its way to `removeToken` carries a token that has expired. The
  last part is why `verifyUserToken` may remove by string after the accessor
  was released in between: whatever happened meanwhile, a string that had
  expired stays expired.

It is where the theorems on cardinalities of finite sets are used: list lemmas
first (`RemoveBefore`, `PushBefore`, `FrontBefore`, `PromoteBefore`,
`AddBefore`), then one lemma per action.

`CacheImplemented` is the refinement to `TokenCache`. Only three actions change
`Held`, the set of tokens by user: `AddToken` is the cache's use of a token, where
`AddDropsOldest` with `RecencyInv` gives that the token dropped is the cache's
oldest one; `CheckToken` is a use or none; `RemoveToken` removes a token that
`HistoryInv` says has expired. All else is a stutter.

**HttpServer.** `IInv` is the types and, for every session, three parts:

* `LoopInv`: the two places that decide on keep-alive, `doSession`'s local and
  the request's flag, agree wherever one of them is asked, and the last reply
  said what they say. `ClosedGracefully` follows;
* `BodyInv`: as long as no body was taken for a head, bodies on the wire stand where a
  head announces them (`Framed`), and whether the session reads a body next
  depends on the request in hand and on whether its handler reads bodies.
  `BodiesConsumed` follows. After a misreading nothing is left of it, since
  what is then read may announce a body of its own (`AstrayTypes`);
* `OrderInv`: the requests answered, the one in hand and those on the wire are
  numbered consecutively, unless a body was taken for a head. `AnswersInOrder`
  follows. That none is missing (`Gapless`) is what makes the next one read the
  one after the last answered.

**MultiPart.** The message is defined from the parts alone. What the phase, the part
index, the content offset and the generator's position say of it is `Filled`: the
sections of the parts before the present one, its header, and its content up to
the offset or, of a generator, the pieces yielded. The invariant `ReplyInv` is

* `ReplyTypeInv`, with where the context may stand (`PlaceOk`): the offset is never
  beyond a static part's content, nor the position beyond a generator's pieces;
* `SentInv`: between two buffers what was sent is `Filled`; before a buffer is
  written, what was sent and the buffer together are; and the buffer says that no
  more follows exactly when the context is done;
* `LengthInv`: if all sizes are truthful, the encoding is not chunked and the length
  announced is that of the message.

A filled buffer continues `Filled` (`Fills`), with one lemma for each way through
`fillBuffer`: `FillHeaderFills`, `FillDynamicFills`, `FillStaticFills`. The
last one is where the arithmetic modulo `SIZE_MOD` matters: the content is
shorter (`StaticContentFits`, from `SizesFit`) and the offset not beyond it, so
`remaining` does not wrap around and no byte behind the content is read. `Filled` is
a beginning of the message, a proper one until the context is done, since the
closing boundary is still to come (`FilledBegins`). That the code's headers and
contents make up the independent `Message` is `MessageIsWhole`, from `HeaderIs` (what
`makePartImpl` and `addFieldsImpl` leave of a header) and `SectionIs`. `SendsMessage` and
`MoreUntilLast` follow. `TotalIsLength` says that the sum over the parts, if they are truthful, is the length
of the message: both are recursive functions, and the lemmas `Recursion` and
`Flattening` give such a function's values step by step. For `DocumentedIfPlain`,
`DocumentedIs` compares a documented section with one sent, which is never
longer and as long only if it is the first and without added fields; by
induction over the parts, the lengths of the two messages differ for any reply that is not
plain (`PlainAsDocumented`).

**Transfer.** The core of `IInv` is `SocketsInv`: every connection but the one in
`sj` is closing or closed, and closed once anything is under way, so a late event
of an old one finds nothing to disturb. `RequestsInv` says that what is under way
is a transfer of the page's session or, on batch upload with the button off, the
login of it; `ReportsInv` whose progress the newest connection reports. From them
follow `OneAtATime`, `ClickableOnlyWhenIdle`, `Watched`, and the action properties
`StopsTheRunning` and `NumberNeverFalls`.

**FilePanel.** The answers to several requests may come in any order, so
`RequestsInv` says of each what does not depend on when it is shown: what it lists
is of the path it asked for. `ListInv` is then kept by whichever answer is shown,
since list, elements and path are set together. `SelectionInv` (`SelectionShown`
and `LinksMatchSelection`) rests on a few lemmas about what the steps do to it: one
that is emptied is always right (`NothingSelected`), one that an entry is taken
from stays without repetition (`WithoutInjective`), a click leaves one entry. `UploadsInv` gives `FilesLandWhereChosen`: the
directory of an upload is that of its beginning, and it overwrites only after
the user was asked. What the sorted list consists of (`SortedType`) is shown by
induction over the names in their order.

**SockJS.** `SpeaksWithOneVoice` and the refinement `SockJSIsSocket` hold for any
browsers, infos and number of attempts. Since the methods of the object call
each other, what each of them preserves is a lemma about an object `s`
(`Dropped`, `Closing`, `Attempted`, `Connecting`, `Ending`, `Opening`), with the
hypotheses its callers can give, and an action's lemma composes them. `IInv`
has two parts:

* `PageInv`: tasks of `_close` exist only when the connection is closing or
  closed, and the handlers are set until the first of them has run. This is why
  a second `_close`, of which there may be any number, tells the page nothing;
* `VoiceInv`: who can still speak, in relation to `_transport`, `_ir` and what the
  document is at. As long as the document is loading, no load listener has run,
  so there is one voice even after waiting: without that clause `_connect` could
  not be shown to leave the object in order when it waits.

`AlwaysTyped` is a second invariant on top of it (`TypeInv`), again with one lemma
per method. `FilteredType` says that whatever the server and the browser say, the
filter leaves kinds of the list, by induction over the list; that the page is
told of the closing once at most needs `PageInv`.

**SockJSIframe.** Messages are under way in three queues: tasks of the page, the
inbox of the iframe, and those on their way to the page, shared by all windows.
The invariant reads off them, for each window, the set of messages under way and
which of them comes before which (`Out`, `OutOrder`, `In`, `ArrivalOrder`): a
message handed from a task to the inbox changes neither, so most steps keep both.
`WindowInv` then has four parts:

* `Closing`: while SockJS listens, no 'c' is under way to the iframe and its
  facade was not given up; a transport listens to messages exactly as long;
* `Loading`: whatever is under way to the iframe, or comes from it after 's',
  shows that the timer of loading is over. `LoadedForGood` follows;
* `Sending`: the messages sent and not received are all under way, in order, with
  none behind a 'c', and meet a facade. `FacadeThere` follows;
* `Hearing`: the frames made and not heard are all under way, in order, while
  SockJS listens. So the first one that arrives is the next one, which is the
  step of the refinement `AlwaysAChannel` (`PageMessageStep`).

`NotYet` says that no window that is still to be made is talked about, and
`OneWindow` that a step in one window keeps the others' invariants.

**SockJSTransports.** `IInv` is stated of a transport `x` and a session `s` at the
server (`Good`), since most steps take the transport through several states, one
method calling the next. Each method has a lemma on what it does to such a state
(`Closing`, `ClosingItself`, `Scheduling`, `PollClosing`, `Emitting`,
`SchedulingPost`), and each action a lemma `Good<Action>` that composes them. The
parts are:

* `PollInv`: only the last receiver may not be over, Polling holds it or none, and
  while SockJS listens there is one Polling listens to and nothing is closing.
  Its first half, `PollCore`, is what holds in the middle of a close as well, when
  a method finds `listens` taken away and the receiver still there;
* `SenderInv`: only the last post may be under way, and as long as SockJS listens
  it can be aborted. With `PollInv` this gives `ClosesForGood`;
* `OrderInv`: what has arrived, what is under way and what waits are, in this
  order, all that was sent (`Line`): most steps of the sender move messages
  within it. After a failure of a post there is a gap, but then nothing more
  arrives (`Gone`); a form may be lost from the middle, which keeps the order;
* `HearInv`: what was heard are the frames before the place where the response is
  read on (`ReadOn`), which a request's first task sets to what is written. That
  the loop over a chunk passes on each frame once, even if one of them closes the
  transport, is an induction over frames (`PassingOn`).

`Steps` collects what each step promises of its successor, from which the action
properties and the steps of `Channel` follow.

What the library offers for induction takes an operator as a parameter, so
`SetInduction` (`SequenceLemmas`) states it for a set of natural numbers; the
recursive functions of the models (`InOrderOf`, `Replies`, `PassOn`, `Sum`, `FlattenSeq`
and the one in `filterToEnabled`) are reasoned about with it. Such a function is a
`CHOOSE` of the functions that satisfy its equation, so there has to be one:
`Recursion` gives the values of any recursion of finitely many steps.

Only model-checked: liveness (`AccessorReleased`, `Served`, `Ends`, `ButtonComesBack`,
`Settles`, `Delivers`, `Removed`), which is out of the prover's reach. Every
invariant, action property and refinement of the passing runs is proved.

## 5. Not modelled, and the plan

Not modelled:

* library set-up (logging, SSL context, signal handler), build-time generators,
  SQL, and the vendored Live2D viewer with its assets, which nothing else reads;
* of `sockjs.js`: URLs, escaping, random strings, event plumbing and polyfills,
  and what only a foreign or null origin reaches (`InfoIframe`,
  `InfoReceiverIframe`, `XHRFake`): page and endpoint are of one origin. The
  SockJS server is external, taken as the client relies on it;
* the options of the pages (compression method and level, proxy,
  `commonFiles.js`). They live in `localStorage`, which tabs share, while each tab
  keeps copies: a level chosen in one tab is written for the method another tab
  has selected since. No comment says which should win;
* the router, CORS and the encodings, sequential algorithms over data fixed at
  start, and the command line, whose validators share one static parse state
  (`CommandLine.cpp:27`: a later valid option hides an earlier failure);
* archives, links and move commands of the file service: aliases and move
  commands number the same tree by different traversals (`FileService.cpp:103`);
* what the pages give no promise about that a property could state: the timer of
  a held finger (`files.js:385`), the links that stay when a new list has emptied
  the selection (`files.js:503`), a refresh after an upload that overtakes another
  request (`files.js:682`); and the bytes of a reply (a body after HEAD,
  `Server.cpp:315`; an empty piece under chunked encoding, `MultiPart.cpp:243`;
  content followed directly by the next part's header, `MultiPart.cpp:35`).

The plan, in this order:

1. `Router` (matching against a reference definition over bounded patterns and
   paths), and `FileService`: numbering of links against move commands.
2. Composition of `UserAuthenticator` with `HttpServer`: the authorization of
   a session refined into the steps of the verification.
3. Proofs: with each of these, that the model keeps the reference definition.

The hazards of the code, each at its line with the properties that cover it,
are listed in `PROJECT.json`; those without a property say why.
