----------------------------- MODULE TokenCache -----------------------------
(***************************************************************************)
(* What UserAuthenticator promises about tokens, with no list, index, lock *)
(* or thread: every user holds a set of at most MAX_TOKENS tokens, and     *)
(*   - adding a token that makes the set too large drops the one token     *)
(*     after whose last use all the others have been used;                 *)
(*   - validating a held token counts as a use;                            *)
(*   - apart from that only an expired token is ever dropped.              *)
(***************************************************************************)
EXTENDS TokenList

VARIABLES
    clock,       \* the present, in ticks
    held,        \* user -> the tokens held for it
    usedSince    \* token -> the tokens of its user used after its last use

cacheVars == <<clock, held, usedSince>>

Init ==
    /\ clock = 0
    /\ held = [u \in Users |-> {}]
    /\ usedSince = [t \in {} |-> {}]

Use(t) ==
    usedSince' = [x \in DOMAIN usedSince \cup {t} |->
                    IF x = t THEN {}
                    ELSE IF x.sub = t.sub THEN usedSince[x] \cup {t}
                    ELSE usedSince[x]]

\* The oldest of a set of tokens, by last use.
Oldest(tokens, x) == tokens \ {x} \subseteq usedSince'[x]

\* loginUser
Add(u, t) ==
    LET tokens == held[u] \cup {t}
    IN  /\ t.sub = u
        /\ Use(t)
        /\ IF Cardinality(tokens) <= MAX_TOKENS
             THEN held' = [held EXCEPT ![u] = tokens]
             ELSE \E x \in tokens :
                    /\ Oldest(tokens, x)
                    /\ held' = [held EXCEPT ![u] = tokens \ {x}]
        /\ UNCHANGED clock

\* hasToken, when it says yes
Validate(u, t) ==
    /\ t \in held[u]
    /\ Use(t)
    /\ UNCHANGED <<clock, held>>

\* removeToken, as verifyUserToken calls it
Drop(u, t) ==
    /\ t \in held[u]
    /\ Expired(t, clock)
    /\ held' = [held EXCEPT ![u] = @ \ {t}]
    /\ UNCHANGED <<clock, usedSince>>

Advance ==
    /\ clock' \in clock + 1 .. MaxClock
    /\ UNCHANGED <<held, usedSince>>

Next ==
    \/ \E u \in Users, t \in Token : Add(u, t) \/ Validate(u, t) \/ Drop(u, t)
    \/ Advance

Spec == Init /\ [][Next]_cacheVars
=============================================================================
