----------------------------- MODULE TokenList -----------------------------
(***************************************************************************)
(* The TokenList class of UserAuthenticator.hpp / UserAuthenticator.cpp:   *)
(* an intrusive list ordered from the newest to the oldest token, and a    *)
(* hash index from the token string to its list node.  A TokenList value   *)
(* is a record of the two; a node is named by the token it carries, so the *)
(* index is the set of its keys and a key that is in the index and not in  *)
(* the list is an index entry whose node pointer dangles.                  *)
(*                                                                         *)
(* Every operation runs under the exclusive accessor of its owner's entry  *)
(* (see UserAuthenticator), hence one operator per member function.        *)
(*                                                                         *)
(* Here and in the other modules, an operator whose name has the form      *)
(* Definition_Slip is not part of the model: it is the definition after a  *)
(* slip one could make in the code, kept to see that the properties notice.*)
(***************************************************************************)
EXTENDS SequencesExt

CONSTANTS
    Users,        \* user names a request may carry
    MAX_TOKENS,   \* TokenList::MAX_TOKENS_, 10 in the code
    TICKS,        \* clock ticks per second: the clock is finer than a JWT date
    TTL,          \* life of a token in seconds, two hours in the code
    MaxClock      \* bound on the clock, for TLC

ASSUME TokenAssumption ==
    /\ MAX_TOKENS \in Nat \ {0}
    /\ TICKS \in Nat \ {0}
    /\ TTL \in Nat
    /\ MaxClock \in Nat

\* The second a clock reading falls in: JWT dates are whole seconds.
SecondOf(tick) == tick \div TICKS

\* A signed token string is determined by its claims: the same user and the
\* same second give the same string, and nothing else does.
Token == [sub : Users, iat : 0 .. SecondOf(MaxClock)]

\* jwt::verify compares the exact present with the whole-second expiry.
Expired(token, tick) == tick > (token.iat + TTL) * TICKS

EmptyTokenList == [lru_list_ |-> <<>>, index_ |-> {}]

\* lru_list_.iterator_to(*node), for the node of a token in the list.
IteratorTo(list, token) == CHOOSE i \in DOMAIN list : list[i] = token

promoteToFront(tl, token) ==
    [lru_list_ |-> <<token>> \o RemoveAt(tl.lru_list_, IteratorTo(tl.lru_list_, token)),
     index_    |-> tl.index_]

\* The node leaves the list and its key stays in the index.
removeNode_KeepsKey(tl, token) ==
    [tl EXCEPT !.lru_list_ = RemoveAt(@, IteratorTo(@, token))]

removeNode(tl, token) ==
    [lru_list_ |-> RemoveAt(tl.lru_list_, IteratorTo(tl.lru_list_, token)),
     index_    |-> tl.index_ \ {token}]

\* The eviction loop of add: back() is removed until the list fits.
evictOldest(tl) ==
    LET size == Len(tl.lru_list_)
        dropped == {tl.lru_list_[i] : i \in MAX_TOKENS + 1 .. size}
    IN  IF size > MAX_TOKENS
          THEN [lru_list_ |-> SubSeq(tl.lru_list_, 1, MAX_TOKENS),
                index_    |-> tl.index_ \ dropped]
          ELSE tl

\* A token that is there already is left where it is.
add_NoRefresh(tl, token) ==
    IF token \in tl.index_
      THEN tl
      ELSE evictOldest([lru_list_ |-> <<token>> \o tl.lru_list_,
                        index_    |-> tl.index_ \cup {token}])

add(tl, token) ==
    IF token \in tl.index_
      THEN promoteToFront(tl, token)
      ELSE evictOldest([lru_list_ |-> <<token>> \o tl.lru_list_,
                        index_    |-> tl.index_ \cup {token}])

\* Validation does not count as a use.
validateAndRefresh_NoRefresh(tl, token) == tl

\* The new list of validateAndRefresh; its result is token \in tl.index_.
validateAndRefresh(tl, token) ==
    IF token \in tl.index_ THEN promoteToFront(tl, token) ELSE tl

remove(tl, token) ==
    IF token \in tl.index_ THEN removeNode(tl, token) ELSE tl
=============================================================================
