------------------------- MODULE UserAuthenticator -------------------------
(***************************************************************************)
(* The login and the token check of netdisk-cpp, as run by sessions that   *)
(* execute on several threads:                                             *)
(*                                                                         *)
(*   LoginController.cpp  request::login      queryUser, createUserToken,  *)
(*   UserAuthenticator    loginUser           AcquireForLogin, PublishUser,*)
(*                                            AddToken                     *)
(*   VerifyUserToken.cpp  verifyUserToken     Verify*, GetUser, Authorize  *)
(*   UserAuthenticator    hasToken            AcquireForCheck, CheckToken  *)
(*                        removeToken         AcquireForRemove, RemoveToken*)
(*                        getUser             GetUser                      *)
(*                                                                         *)
(* map_ is a tbb::concurrent_hash_map: an accessor is an exclusive lock on *)
(* one entry, held until the end of the member function.  login_users_ is  *)
(* a tbb::concurrent_unordered_map, inserted into and read with no lock.   *)
(***************************************************************************)
EXTENDS TokenList

CONSTANTS
    Accounts,   \* users with a row in the users table
    Sessions,   \* sessions (Server::doSession coroutines) running at a time
    MaxEdits,   \* bound on how often the users table is edited
    NoSession, NoUser, NoRow, NoToken

ASSUME SessionAssumption ==
    /\ Accounts \subseteq Users
    /\ MaxEdits \in Nat
    /\ NoSession \notin Sessions
    /\ NoUser \notin Users
    /\ NoRow \notin 0 .. MaxEdits
    /\ NoToken \notin Token

VARIABLES
    clock,          \* system_clock, in ticks
    rows,           \* users table: the version of each account's row
    map_,           \* user -> TokenList, for the users with an entry
    accessor,       \* user -> the session holding the accessor of its entry
    login_users_,   \* user -> the row stored for it, NoRow when absent
    pc,             \* what each session does next
    user, token,    \* the user name and the token a session works with
    row,            \* the row a login read
    usedSince       \* history: the tokens ever added, each with the tokens
                    \* of the same user added or validated after its last use

vars == <<clock, rows, map_, accessor, login_users_, pc, user, token, row,
          usedSince>>

Record == 0 .. MaxEdits

\* A session between requests: nothing asked yet, or the last outcome.
Resting == {"idle", "loggedIn", "loginFailed", "granted", "refused"}

\* The steps at which a session holds an accessor.
Holding == {"publishUser", "addToken", "checkToken", "removeToken"}

Waiting == {"acquireForLogin", "acquireForCheck", "acquireForRemove"}

Control == Resting \cup Holding \cup Waiting
             \cup {"createUserToken", "verifyJwt", "getUser", "authorize"}

Init ==
    /\ clock = 0
    /\ rows = [u \in Accounts |-> 0]
    /\ map_ = [u \in {} |-> EmptyTokenList]
    /\ accessor = [u \in Users |-> NoSession]
    /\ login_users_ = [u \in Users |-> NoRow]
    /\ pc = [s \in Sessions |-> "idle"]
    /\ user = [s \in Sessions |-> NoUser]
    /\ token = [s \in Sessions |-> NoToken]
    /\ row = [s \in Sessions |-> NoRow]
    /\ usedSince = [t \in {} |-> {}]

-----------------------------------------------------------------------------
(* Steps shared by the handlers. *)

Goto(s, step) == pc' = [pc EXCEPT ![s] = step]

\* A shared accessor where an exclusive one is needed.
Acquire_Shared(s) == accessor' = [accessor EXCEPT ![user[s]] = s]

Acquire(s) ==
    /\ accessor[user[s]] = NoSession
    /\ accessor' = [accessor EXCEPT ![user[s]] = s]

Release(s) == accessor' = [accessor EXCEPT ![user[s]] = NoSession]

\* A use of a token, an addition or a successful validation, as the history
\* sees it.
Touch(t) ==
    usedSince' = [x \in DOMAIN usedSince \cup {t} |->
                    IF x = t THEN {}
                    ELSE IF x.sub = t.sub THEN usedSince[x] \cup {t}
                    ELSE usedSince[x]]

-----------------------------------------------------------------------------
(* request::login *)

\* queryUserByUsername, with the id and password tests: an unknown user comes
\* back with the invalid id, a known one may have sent a wrong password.
QueryUser(s, u, passwordMatches) ==
    /\ pc[s] \in Resting
    /\ user' = [user EXCEPT ![s] = u]
    /\ token' = [token EXCEPT ![s] = NoToken]
    /\ IF u \in Accounts /\ passwordMatches
         THEN /\ Goto(s, "createUserToken")
              /\ row' = [row EXCEPT ![s] = rows[u]]
         ELSE /\ Goto(s, "loginFailed")
              /\ UNCHANGED row
    /\ UNCHANGED <<clock, rows, map_, accessor, login_users_, usedSince>>

\* Dates finer than the seconds a JWT carries.
CreateUserToken_FineDate(s) ==
    /\ pc[s] = "createUserToken"
    /\ token' = [token EXCEPT ![s] = [sub |-> user[s], iat |-> clock]]
    /\ Goto(s, "acquireForLogin")
    /\ UNCHANGED <<clock, rows, map_, accessor, login_users_, user, row, usedSince>>

\* jwt::createUserToken: the claims are the user and the present second;
\* signing can fail.
CreateUserToken(s) ==
    /\ pc[s] = "createUserToken"
    /\ \/ /\ token' = [token EXCEPT ![s] =
                         [sub |-> user[s], iat |-> SecondOf(clock)]]
          /\ Goto(s, "acquireForLogin")
          /\ UNCHANGED row
       \/ /\ Goto(s, "loginFailed")
          /\ row' = [row EXCEPT ![s] = NoRow]
          /\ UNCHANGED token
    /\ UNCHANGED <<clock, rows, map_, accessor, login_users_, user, usedSince>>

\* map_.insert: finds the entry of u or creates an empty one.
InsertEntry(u) ==
    [v \in DOMAIN map_ \cup {u} |->
        IF v \in DOMAIN map_ THEN map_[v] ELSE EmptyTokenList]

\* The token is added before its user is published, under an accessor of its
\* own.
AcquireForLogin_AddsFirst(s) ==
    /\ pc[s] = "acquireForLogin"
    /\ accessor[user[s]] = NoSession
    /\ map_' = [InsertEntry(user[s]) EXCEPT ![user[s]] = add(@, token[s])]
    /\ Touch(token[s])
    /\ Goto(s, "publishUser")
    /\ UNCHANGED <<clock, rows, accessor, login_users_, user, token, row>>

\* loginUser: map_.insert(acc, username).
AcquireForLogin(s) ==
    /\ pc[s] = "acquireForLogin"
    /\ Acquire(s)
    /\ map_' = InsertEntry(user[s])
    /\ Goto(s, "publishUser")
    /\ UNCHANGED <<clock, rows, login_users_, user, token, row, usedSince>>

\* login_users_.insert leaves a record that is already there alone.
StoredUser(s) ==
    IF login_users_[user[s]] = NoRow THEN row[s] ELSE login_users_[user[s]]

PublishUser(s) ==
    /\ pc[s] = "publishUser"
    /\ login_users_' = [login_users_ EXCEPT ![user[s]] = StoredUser(s)]
    /\ row' = [row EXCEPT ![s] = NoRow]
    /\ Goto(s, "addToken")
    /\ UNCHANGED <<clock, rows, map_, accessor, user, token, usedSince>>

AddToken(s) ==
    /\ pc[s] = "addToken"
    /\ map_' = [map_ EXCEPT ![user[s]] = add(@, token[s])]
    /\ Touch(token[s])
    /\ Release(s)
    /\ Goto(s, "loggedIn")
    /\ UNCHANGED <<clock, rows, login_users_, user, token, row>>

-----------------------------------------------------------------------------
(* verifyUserToken, for a target that has an authorization rule: the first
   authorize call has refused the default user.  A target without a rule is
   let through there and touches none of this state. *)

VerifyRequest(s, u, t) ==
    /\ pc[s] \in Resting
    /\ user' = [user EXCEPT ![s] = u]
    /\ token' = [token EXCEPT ![s] = t]
    /\ Goto(s, "acquireForCheck")
    /\ UNCHANGED <<clock, rows, map_, accessor, login_users_, row, usedSince>>

\* hasToken: map_.find(acc, username).
AcquireForCheck(s) ==
    /\ pc[s] = "acquireForCheck"
    /\ IF user[s] \in DOMAIN map_
         THEN Acquire(s) /\ Goto(s, "checkToken")
         ELSE Goto(s, "refused") /\ UNCHANGED accessor
    /\ UNCHANGED <<clock, rows, map_, login_users_, user, token, row, usedSince>>

\* The result of validateAndRefresh is not looked at.
CheckToken_EntryIsEnough(s) ==
    /\ pc[s] = "checkToken"
    /\ map_' = [map_ EXCEPT ![user[s]] = validateAndRefresh(@, token[s])]
    /\ Goto(s, "verifyJwt")
    /\ Release(s)
    /\ UNCHANGED <<clock, rows, login_users_, user, token, row, usedSince>>

\* A failed check returns with the accessor held.
CheckToken_KeepsAccessor(s) ==
    /\ pc[s] = "checkToken"
    /\ map_' = [map_ EXCEPT ![user[s]] = validateAndRefresh(@, token[s])]
    /\ IF token[s] \in map_[user[s]].index_
         THEN Touch(token[s]) /\ Goto(s, "verifyJwt") /\ Release(s)
         ELSE UNCHANGED <<usedSince, accessor>> /\ Goto(s, "refused")
    /\ UNCHANGED <<clock, rows, login_users_, user, token, row>>

\* The rest of hasToken: validateAndRefresh, and the accessor goes.
CheckToken(s) ==
    /\ pc[s] = "checkToken"
    /\ map_' = [map_ EXCEPT ![user[s]] = validateAndRefresh(@, token[s])]
    /\ IF token[s] \in map_[user[s]].index_
         THEN Touch(token[s]) /\ Goto(s, "verifyJwt")
         ELSE UNCHANGED usedSince /\ Goto(s, "refused")
    /\ Release(s)
    /\ UNCHANGED <<clock, rows, login_users_, user, token, row>>

\* jwt::verifyUserToken, with no lock held.
VerifyJwt(s) ==
    /\ pc[s] = "verifyJwt"
    /\ Goto(s, IF Expired(token[s], clock) THEN "acquireForRemove" ELSE "getUser")
    /\ UNCHANGED <<clock, rows, map_, accessor, login_users_, user, token, row,
                   usedSince>>

\* *getUser(user_name): a reference into login_users_, not tested for nullopt
\* and used with no lock; what it refers to is read by Authorize.
GetUser(s) ==
    /\ pc[s] = "getUser"
    /\ Goto(s, "authorize")
    /\ UNCHANGED <<clock, rows, map_, accessor, login_users_, user, token, row,
                   usedSince>>

\* The rule of the target: every row of the table has a valid id and at least
\* the auth the rules of Controller.cpp ask for.
Authorize(s) ==
    /\ pc[s] = "authorize"
    /\ Goto(s, IF login_users_[user[s]] # NoRow THEN "granted" ELSE "refused")
    /\ UNCHANGED <<clock, rows, map_, accessor, login_users_, user, token, row,
                   usedSince>>

AcquireForRemove(s) ==
    /\ pc[s] = "acquireForRemove"
    /\ IF user[s] \in DOMAIN map_
         THEN Acquire(s) /\ Goto(s, "removeToken")
         ELSE Goto(s, "refused") /\ UNCHANGED accessor
    /\ UNCHANGED <<clock, rows, map_, login_users_, user, token, row, usedSince>>

RemoveToken(s) ==
    /\ pc[s] = "removeToken"
    /\ map_' = [map_ EXCEPT ![user[s]] = remove(@, token[s])]
    /\ Release(s)
    /\ Goto(s, "refused")
    /\ UNCHANGED <<clock, rows, login_users_, user, token, row, usedSince>>

-----------------------------------------------------------------------------
(* The environment: time passes, and the users table, which the server only
   reads, is edited beside it. *)

Tick ==
    /\ clock < MaxClock
    /\ clock' = clock + 1
    /\ UNCHANGED <<rows, map_, accessor, login_users_, pc, user, token, row,
                   usedSince>>

EditRow(u) ==
    /\ rows[u] < MaxEdits
    /\ rows' = [rows EXCEPT ![u] = @ + 1]
    /\ UNCHANGED <<clock, map_, accessor, login_users_, pc, user, token, row,
                   usedSince>>

\* What a session does on its own, once it has a request.
Step(s) ==
    \/ CreateUserToken(s)
    \/ AcquireForLogin(s)
    \/ PublishUser(s)
    \/ AddToken(s)
    \/ AcquireForCheck(s)
    \/ CheckToken(s)
    \/ VerifyJwt(s)
    \/ GetUser(s)
    \/ Authorize(s)
    \/ AcquireForRemove(s)
    \/ RemoveToken(s)

Next ==
    \/ \E s \in Sessions, u \in Users :
         \/ \E matches \in BOOLEAN : QueryUser(s, u, matches)
         \/ \E t \in Token : VerifyRequest(s, u, t)
    \/ \E s \in Sessions : Step(s)
    \/ Tick
    \/ \E u \in Accounts : EditRow(u)

Spec == Init /\ [][Next]_vars

\* The io_context threads keep running every session that can move.  The lock
\* of an entry is not fair: a session that waits for it has only weak fairness.
FairSpec == Spec /\ \A s \in Sessions : WF_vars(Step(s))

-----------------------------------------------------------------------------
(* Properties *)

\* The types of the variables; a session that is past acquireForLogin or
\* verifies something works for a user with an entry or none at all.
TypeOK ==
    /\ clock \in 0 .. MaxClock
    /\ rows \in [Accounts -> Record]
    /\ DOMAIN map_ \subseteq Users
    /\ \A u \in DOMAIN map_ :
         map_[u] \in [lru_list_ : Seq(Token), index_ : SUBSET Token]
    /\ accessor \in [Users -> Sessions \cup {NoSession}]
    /\ login_users_ \in [Users -> Record \cup {NoRow}]
    /\ pc \in [Sessions -> Control]
    /\ user \in [Sessions -> Users \cup {NoUser}]
    /\ token \in [Sessions -> Token \cup {NoToken}]
    /\ row \in [Sessions -> Record \cup {NoRow}]
    /\ DOMAIN usedSince \subseteq Token
    /\ \A t \in DOMAIN usedSince : usedSince[t] \subseteq DOMAIN usedSince

\* The accessor of an entry is held by exactly the session that is inside a
\* member function for that user: nobody else changes its TokenList, and no
\* path out of a member function leaves the entry locked.
AccessorExclusive ==
    \A u \in Users, s \in Sessions :
        accessor[u] = s <=> user[s] = u /\ pc[s] \in Holding

\* The list and the index of every entry name the same tokens, each token has
\* one node, and there are never more than MAX_TOKENS_: no index pointer
\* dangles, no node leaks and the cache does not grow with the logins.
ListMatchesIndex ==
    \A u \in DOMAIN map_ :
        LET list == map_[u].lru_list_
        IN  /\ ToSet(list) = map_[u].index_
            /\ IsInjective(list)
            /\ Len(list) <= MAX_TOKENS

\* An entry only holds tokens signed for its own user, and only tokens some
\* login added, so a request is let through to an account only with a token
\* that a login to that very account handed out.
GrantedToOwner ==
    /\ \A u \in DOMAIN map_ : \A t \in map_[u].index_ :
         t.sub = u /\ t \in DOMAIN usedSince
    /\ \A s \in Sessions : pc[s] \in {"verifyJwt", "getUser", "authorize", "granted"} =>
         user[s] \in Accounts /\ token[s].sub = user[s] /\ token[s] \in DOMAIN usedSince

\* The unchecked dereference of getUser in verifyUserToken always finds a
\* record: a token becomes visible only after the record of its user, though
\* the two are kept in different maps and the record is read with no lock.
GetUserFound ==
    \A s \in Sessions :
        pc[s] \in {"getUser", "authorize"} => login_users_[user[s]] # NoRow

\* A token that a login added keeps working: it is gone from its entry only
\* once it has expired or once MAX_TOKENS_ other tokens of the user have been
\* added or validated after its own last use.  In particular no interleaving
\* of a login with a request that removes an expired token loses a live one.
KeptWhileFresh ==
    \A t \in DOMAIN usedSince :
        \/ t \in map_[t.sub].index_
        \/ Expired(t, clock)
        \/ Cardinality(usedSince[t]) >= MAX_TOKENS

\* No session keeps the accessor of an entry for ever, on any path through the
\* member functions: a user's entry cannot stay locked.
AccessorReleased ==
    \A u \in Users, s \in Sessions : accessor[u] = s ~> accessor[u] # s

-----------------------------------------------------------------------------
(* The abstract cache that login and verification implement. *)

Held == [u \in Users |-> IF u \in DOMAIN map_ THEN map_[u].index_ ELSE {}]

Cache == INSTANCE TokenCache WITH held <- Held

\* Lists, indices, accessors and handlers implement a per-user cache of the
\* most recently used tokens that loses nothing else but expired tokens.
ImplementsTokenCache == Cache!Spec
=============================================================================
