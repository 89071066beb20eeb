----------------------- MODULE UserAuthenticatorProofs -----------------------
(***************************************************************************)
(* Safety of login and token verification for every set of users, accounts *)
(* and sessions and every MAX_TOKENS, with no bound on what is interleaved.*)
(* First come facts about the TokenList operations.                        *)
(***************************************************************************)
EXTENDS UserAuthenticator, SequenceTheorems, FiniteSetTheorems, TLAPS

-----------------------------------------------------------------------------
(* The operations of a TokenList *)

\* A TokenList as every member function finds and leaves it: the list and the
\* index name the same tokens, one node per token, at most MAX_TOKENS_ of them.
WellFormed(tl) ==
    /\ tl \in [lru_list_ : Seq(Token), index_ : SUBSET Token]
    /\ ToSet(tl.lru_list_) = tl.index_
    /\ IsInjective(tl.lru_list_)
    /\ Len(tl.lru_list_) <= MAX_TOKENS

\* Whole-number division keeps the order: a later clock reading never falls in
\* an earlier second.
LEMMA DivMono ==
    ASSUME NEW T \in Nat \ {0}, NEW a \in Nat, NEW b \in Nat, a <= b
    PROVE  a \div T \in Nat /\ a \div T <= b \div T
<1> DEFINE q == a \div T
           p == b \div T
<1>1. q \in Int /\ a = T * q + (a % T) /\ a % T \in 0 .. (T - 1)
  BY Z3
<1>2. p \in Int /\ b = T * p + (b % T) /\ b % T \in 0 .. (T - 1)
  BY Z3
<1> HIDE DEF p, q
<1>3. q >= 0
  BY <1>1, Z3
<1>4. q <= p
  <2>1. CASE q > p
    <3>1. q >= p + 1
      BY <1>1, <1>2, <2>1
    <3>2. T * q >= T * (p + 1)
      BY <1>1, <1>2, <3>1
    <3>3. T * (p + 1) = T * p + T
      BY <1>2
    <3> QED
      BY <1>1, <1>2, <3>2, <3>3
  <2> QED
    BY <1>1, <1>2, <2>1
<1> QED
  BY <1>1, <1>3, <1>4 DEF p, q

\* RemoveAt takes out one element and closes the gap.
LEMMA RemoveAtElements ==
    ASSUME NEW S, NEW list \in Seq(S), NEW i \in 1 .. Len(list)
    PROVE  /\ RemoveAt(list, i) \in Seq(S)
           /\ Len(RemoveAt(list, i)) = Len(list) - 1
           /\ \A j \in 1 .. Len(list) - 1 :
                RemoveAt(list, i)[j] = IF j < i THEN list[j] ELSE list[j + 1]
<1> DEFINE left == SubSeq(list, 1, i - 1)
           right == SubSeq(list, i + 1, Len(list))
<1>1. left \in Seq(S) /\ Len(left) = i - 1 /\ \A j \in 1 .. i - 1 : left[j] = list[j]
  OBVIOUS
<1>2. /\ right \in Seq(S)
      /\ Len(right) = Len(list) - i
      /\ \A j \in 1 .. Len(list) - i : right[j] = list[i + j]
  OBVIOUS
<1> HIDE DEF left, right
<1>3. left \o right \in Seq(S) /\ Len(left \o right) = Len(list) - 1
  <2>1. left \in Seq(S) /\ right \in Seq(S)
    BY <1>1, <1>2
  <2>2. left \o right \in Seq(S) /\ Len(left \o right) = Len(left) + Len(right)
    BY <2>1
  <2> QED
    BY <1>1, <1>2, <2>2
<1>4. ASSUME NEW j \in 1 .. Len(list) - 1
      PROVE  (left \o right)[j] = IF j < i THEN list[j] ELSE list[j + 1]
  <2>1. CASE j < i
    BY <1>1, <1>2, <2>1
  <2>2. CASE ~(j < i)
    <3>1. (left \o right)[j] = right[j - (i - 1)]
      BY <1>1, <1>2, <2>2
    <3>2. j - (i - 1) \in 1 .. Len(list) - i
      BY <2>2
    <3> QED
      BY <1>2, <2>2, <3>1, <3>2
  <2> QED
    BY <2>1, <2>2
<1> QED
  BY <1>3, <1>4 DEF RemoveAt, left, right

\* Taking out one element of a list without repetitions takes out its token.
LEMMA RemoveAtSet ==
    ASSUME NEW S, NEW list \in Seq(S), NEW i \in 1 .. Len(list), IsInjective(list)
    PROVE  /\ ToSet(RemoveAt(list, i)) = ToSet(list) \ {list[i]}
           /\ IsInjective(RemoveAt(list, i))
<1> DEFINE rest == RemoveAt(list, i)
<1>1. /\ rest \in Seq(S)
      /\ Len(rest) = Len(list) - 1
      /\ \A j \in 1 .. Len(list) - 1 :
           rest[j] = IF j < i THEN list[j] ELSE list[j + 1]
  BY RemoveAtElements
<1> HIDE DEF rest
<1>2. DOMAIN list = 1 .. Len(list) /\ DOMAIN rest = 1 .. Len(list) - 1
  BY <1>1
<1>3. \A a, b \in 1 .. Len(list) : list[a] = list[b] => a = b
  BY <1>2 DEF IsInjective
<1>4. IsInjective(rest)
  <2> SUFFICES ASSUME NEW a \in 1 .. Len(list) - 1, NEW b \in 1 .. Len(list) - 1,
                      rest[a] = rest[b]
               PROVE  a = b
    BY <1>2 DEF IsInjective
  <2> QED
    BY <1>1, <1>3
<1>5. ASSUME NEW t \in ToSet(rest)
      PROVE  t \in ToSet(list) \ {list[i]}
  <2>1. PICK j \in 1 .. Len(list) - 1 : t = rest[j]
    BY <1>2 DEF ToSet
  <2> QED
    BY <1>1, <1>2, <1>3, <2>1 DEF ToSet
<1>6. ASSUME NEW t \in ToSet(list), t # list[i]
      PROVE  t \in ToSet(rest)
  <2>1. PICK k \in 1 .. Len(list) : t = list[k]
    BY <1>2 DEF ToSet
  <2>2. CASE k < i
    <3>1. k \in 1 .. Len(list) - 1 /\ t = rest[k]
      BY <1>1, <2>1, <2>2
    <3> QED
      BY <1>2, <3>1 DEF ToSet
  <2>3. CASE k > i
    <3>1. k - 1 \in 1 .. Len(list) - 1 /\ t = rest[k - 1]
      BY <1>1, <2>1, <2>3
    <3> QED
      BY <1>2, <3>1 DEF ToSet
  <2> QED
    BY <1>6, <2>1, <2>2, <2>3
<1> QED
  BY <1>4, <1>5, <1>6 DEF rest

\* A new front element.
LEMMA PushFrontElements ==
    ASSUME NEW S, NEW list \in Seq(S), NEW t \in S
    PROVE  /\ <<t>> \o list \in Seq(S)
           /\ Len(<<t>> \o list) = Len(list) + 1
           /\ (<<t>> \o list)[1] = t
           /\ \A j \in 1 .. Len(list) : (<<t>> \o list)[j + 1] = list[j]
<1> DEFINE one == <<t>>
<1>1. one \in Seq(S) /\ Len(one) = 1 /\ one[1] = t
  OBVIOUS
<1> HIDE DEF one
<1>2. /\ one \o list \in Seq(S)
      /\ Len(one \o list) = Len(one) + Len(list)
      /\ \A j \in 1 .. Len(one) + Len(list) :
           (one \o list)[j] = IF j <= Len(one) THEN one[j] ELSE list[j - Len(one)]
  BY <1>1, ConcatProperties
<1>3. Len(list) \in Nat
  OBVIOUS
<1>4. (one \o list)[1] = t
  BY <1>1, <1>2, <1>3
<1>5. \A j \in 1 .. Len(list) : (one \o list)[j + 1] = list[j]
  BY <1>1, <1>2, <1>3
<1> QED
  BY <1>1, <1>2, <1>4, <1>5 DEF one

\* Pushing a token that is not in the list yet repeats no token.
LEMMA PushFrontSet ==
    ASSUME NEW S, NEW list \in Seq(S), NEW t \in S,
           IsInjective(list), t \notin ToSet(list)
    PROVE  /\ ToSet(<<t>> \o list) = ToSet(list) \cup {t}
           /\ IsInjective(<<t>> \o list)
<1> DEFINE new == <<t>> \o list
<1>1. /\ new \in Seq(S)
      /\ Len(new) = Len(list) + 1
      /\ new[1] = t
      /\ \A j \in 1 .. Len(list) : new[j + 1] = list[j]
  BY PushFrontElements
<1> HIDE DEF new
<1>2. DOMAIN list = 1 .. Len(list) /\ DOMAIN new = 1 .. Len(list) + 1
  BY <1>1
<1>3. \A j \in 2 .. Len(list) + 1 : j - 1 \in 1 .. Len(list) /\ new[j] = list[j - 1]
  BY <1>1
<1>4. \A j \in 1 .. Len(list) : list[j] # t
  BY <1>2 DEF ToSet
<1>5. IsInjective(new)
  <2> SUFFICES ASSUME NEW a \in 1 .. Len(list) + 1, NEW b \in 1 .. Len(list) + 1,
                      new[a] = new[b]
               PROVE  a = b
    BY <1>2 DEF IsInjective
  <2>1. CASE a = 1 \/ b = 1
    BY <1>1, <1>3, <1>4, <2>1
  <2>2. CASE a # 1 /\ b # 1
    <3>1. list[a - 1] = list[b - 1]
      BY <1>3, <2>2
    <3> QED
      BY <1>2, <1>3, <2>2, <3>1 DEF IsInjective
  <2> QED
    BY <2>1, <2>2
<1>6. ToSet(new) \subseteq ToSet(list) \cup {t}
  BY <1>1, <1>2, <1>3 DEF ToSet
<1>7. ToSet(list) \subseteq ToSet(new)
  <2> SUFFICES ASSUME NEW j \in 1 .. Len(list)
               PROVE  list[j] \in ToSet(new)
    BY <1>2 DEF ToSet
  <2>1. j + 1 \in DOMAIN new /\ new[j + 1] = list[j]
    BY <1>1, <1>2
  <2> QED
    BY <2>1 DEF ToSet
<1>8. t \in ToSet(new)
  BY <1>1, <1>2 DEF ToSet
<1> QED
  BY <1>5, <1>6, <1>7, <1>8 DEF new
-----------------------------------------------------------------------------
(* The member functions. *)

\* The node of an indexed token is in the list.
LEMMA IteratorToNode ==
    ASSUME NEW list, NEW t \in ToSet(list)
    PROVE  IteratorTo(list, t) \in DOMAIN list /\ list[IteratorTo(list, t)] = t
<1>1. \E i \in DOMAIN list : list[i] = t
  BY DEF ToSet
<1> QED
  BY <1>1 DEF IteratorTo

\* map_.insert creates an entry with nothing in it.
LEMMA EmptyWellFormed == WellFormed(EmptyTokenList)
<1>1. <<>> \in Seq(Token) /\ Len(<<>>) = 0 /\ DOMAIN <<>> = {}
  OBVIOUS
<1>2. ToSet(<<>>) = {} /\ IsInjective(<<>>)
  BY <1>1 DEF ToSet, IsInjective
<1> QED
  BY <1>1, <1>2, TokenAssumption DEF WellFormed, EmptyTokenList

\* promoteToFront moves a token and changes nothing else.
LEMMA PromoteWellFormed ==
    ASSUME NEW tl, WellFormed(tl), NEW t \in tl.index_
    PROVE  /\ WellFormed(promoteToFront(tl, t))
           /\ promoteToFront(tl, t).index_ = tl.index_
<1> DEFINE list == tl.lru_list_
           i == IteratorTo(list, t)
           rest == RemoveAt(list, i)
           new == <<t>> \o rest
<1>1. /\ list \in Seq(Token) /\ tl.index_ \in SUBSET Token
      /\ ToSet(list) = tl.index_ /\ IsInjective(list) /\ Len(list) <= MAX_TOKENS
  BY DEF WellFormed
<1>2. i \in 1 .. Len(list) /\ list[i] = t
  BY <1>1, IteratorToNode
<1> HIDE DEF i, list
<1>3. rest \in Seq(Token) /\ Len(rest) = Len(list) - 1
  BY <1>1, <1>2, RemoveAtElements
<1>4. ToSet(rest) = tl.index_ \ {t} /\ IsInjective(rest)
  BY <1>1, <1>2, RemoveAtSet
<1> HIDE DEF rest
<1>5. t \in Token /\ t \notin ToSet(rest)
  BY <1>1, <1>4
<1>6. new \in Seq(Token) /\ Len(new) = Len(list)
  <2>1. new \in Seq(Token) /\ Len(new) = Len(rest) + 1
    BY <1>3, <1>5, PushFrontElements
  <2>2. Len(list) \in Nat
    BY <1>1
  <2> QED
    BY <1>3, <2>1, <2>2
<1>7. ToSet(new) = tl.index_ /\ IsInjective(new)
  <2>1. ToSet(new) = ToSet(rest) \cup {t} /\ IsInjective(new)
    BY <1>3, <1>4, <1>5, PushFrontSet
  <2> QED
    BY <1>4, <2>1
<1> HIDE DEF new
<1>8. promoteToFront(tl, t) = [lru_list_ |-> new, index_ |-> tl.index_]
  BY DEF promoteToFront, new, rest, i, list
<1> QED
  BY <1>1, <1>6, <1>7, <1>8 DEF WellFormed

\* Eviction keeps the front of the list and drops the same tokens from both.
LEMMA EvictWellFormed ==
    ASSUME NEW list \in Seq(Token), IsInjective(list)
    PROVE  LET kept == evictOldest([lru_list_ |-> list, index_ |-> ToSet(list)])
           IN  WellFormed(kept) /\ kept.index_ \subseteq ToSet(list)
<1> DEFINE tl == [lru_list_ |-> list, index_ |-> ToSet(list)]
           front == SubSeq(list, 1, MAX_TOKENS)
           dropped == {list[i] : i \in MAX_TOKENS + 1 .. Len(list)}
<1>1. DOMAIN list = 1 .. Len(list) /\ Len(list) \in Nat
      /\ \A i \in 1 .. Len(list) : list[i] \in Token
  OBVIOUS
<1>2. ToSet(list) \subseteq Token
  BY <1>1 DEF ToSet
<1>3. MAX_TOKENS \in Nat
  BY TokenAssumption
<1>4. CASE Len(list) > MAX_TOKENS
  <2>1. /\ front \in Seq(Token) /\ Len(front) = MAX_TOKENS
        /\ \A i \in 1 .. MAX_TOKENS : front[i] = list[i]
    BY <1>1, <1>3, <1>4
  <2> HIDE DEF front
  <2>2. DOMAIN front = 1 .. MAX_TOKENS
    BY <2>1
  <2>3. \A a, b \in 1 .. Len(list) : list[a] = list[b] => a = b
    BY <1>1 DEF IsInjective
  <2>4. IsInjective(front)
    BY <1>3, <1>4, <2>1, <2>2, <2>3 DEF IsInjective
  <2>5. ToSet(front) = ToSet(list) \ dropped
    <3>1. ToSet(front) = {list[i] : i \in 1 .. MAX_TOKENS}
      BY <2>1, <2>2 DEF ToSet
    <3>2. ToSet(list) = {list[i] : i \in 1 .. Len(list)}
      BY <1>1 DEF ToSet
    <3>3. ASSUME NEW i \in 1 .. MAX_TOKENS
          PROVE  list[i] \in ToSet(list) /\ list[i] \notin dropped
      BY <1>3, <1>4, <1>1, <2>3, <3>2
    <3>4. ASSUME NEW i \in 1 .. Len(list), list[i] \notin dropped
          PROVE  i \in 1 .. MAX_TOKENS
      BY <1>1, <1>3, <3>4
    <3> QED
      BY <3>1, <3>2, <3>3, <3>4
  <2>6. evictOldest(tl) = [lru_list_ |-> front, index_ |-> ToSet(list) \ dropped]
    BY <1>4 DEF evictOldest, front
  <2> HIDE DEF dropped
  <2>7. WellFormed([lru_list_ |-> front, index_ |-> ToSet(list) \ dropped])
    BY <1>2, <1>3, <2>1, <2>4, <2>5 DEF WellFormed
  <2> QED
    BY <2>6, <2>7
<1>5. CASE ~(Len(list) > MAX_TOKENS)
  <2>1. evictOldest(tl) = tl
    BY <1>5 DEF evictOldest
  <2> QED
    BY <1>1, <1>2, <1>3, <1>5, <2>1 DEF WellFormed
<1> QED
  BY <1>4, <1>5

\* add keeps a TokenList well formed, whether it moves, pushes or evicts, and
\* puts no other token in than the one it is called with.
THEOREM AddWellFormed ==
    ASSUME NEW tl, WellFormed(tl), NEW t \in Token
    PROVE  WellFormed(add(tl, t)) /\ add(tl, t).index_ \subseteq tl.index_ \cup {t}
<1>1. CASE t \in tl.index_
  BY <1>1, PromoteWellFormed DEF add
<1>2. CASE t \notin tl.index_
  <2> DEFINE new == <<t>> \o tl.lru_list_
  <2>1. /\ tl.lru_list_ \in Seq(Token) /\ ToSet(tl.lru_list_) = tl.index_
        /\ IsInjective(tl.lru_list_)
    BY DEF WellFormed
  <2>2. new \in Seq(Token)
    BY <2>1, PushFrontElements
  <2>3. ToSet(new) = tl.index_ \cup {t} /\ IsInjective(new)
    BY <1>2, <2>1, PushFrontSet
  <2>4. add(tl, t) = evictOldest([lru_list_ |-> new, index_ |-> ToSet(new)])
    BY <1>2, <2>3 DEF add
  <2> HIDE DEF new
  <2> QED
    BY <2>2, <2>3, <2>4, EvictWellFormed
<1> QED
  BY <1>1, <1>2

\* validateAndRefresh reorders the list and changes nothing else.
THEOREM ValidateWellFormed ==
    ASSUME NEW tl, WellFormed(tl), NEW t
    PROVE  /\ WellFormed(validateAndRefresh(tl, t))
           /\ validateAndRefresh(tl, t).index_ = tl.index_
BY PromoteWellFormed DEF validateAndRefresh

\* remove takes the token, and only it, out of the list and the index.
THEOREM RemoveWellFormed ==
    ASSUME NEW tl, WellFormed(tl), NEW t
    PROVE  WellFormed(remove(tl, t)) /\ remove(tl, t).index_ = tl.index_ \ {t}
<1>1. CASE t \in tl.index_
  <2> DEFINE list == tl.lru_list_
             i == IteratorTo(list, t)
             rest == RemoveAt(list, i)
  <2>1. /\ list \in Seq(Token) /\ tl.index_ \in SUBSET Token
        /\ ToSet(list) = tl.index_ /\ IsInjective(list) /\ Len(list) <= MAX_TOKENS
    BY DEF WellFormed
  <2>2. i \in 1 .. Len(list) /\ list[i] = t
    BY <1>1, <2>1, IteratorToNode
  <2>3. remove(tl, t) = [lru_list_ |-> rest, index_ |-> tl.index_ \ {t}]
    BY <1>1 DEF remove, removeNode
  <2> HIDE DEF i, list
  <2>4. rest \in Seq(Token) /\ Len(rest) = Len(list) - 1
    BY <2>1, <2>2, RemoveAtElements
  <2>5. ToSet(rest) = tl.index_ \ {t} /\ IsInjective(rest)
    BY <2>1, <2>2, RemoveAtSet
  <2> HIDE DEF rest
  <2>6. Len(rest) <= MAX_TOKENS
    BY <2>1, <2>4, TokenAssumption
  <2> QED
    BY <2>1, <2>3, <2>4, <2>5, <2>6 DEF WellFormed
<1>2. CASE t \notin tl.index_
  BY <1>2 DEF remove, WellFormed
<1> QED
  BY <1>1, <1>2

-----------------------------------------------------------------------------
(* The order of the list: what stands in front of what. *)

\* The tokens in front of a token.
Before(list, t) ==
    {list[j] : j \in {k \in DOMAIN list : \E i \in DOMAIN list : list[i] = t /\ k < i}}

-----------------------------------------------------------------------------
(* Lists: how the operations on sequences change what is in front of what. *)

\* A list without repetitions has as many elements as it is long.
LEMMA CardinalityOfList ==
    ASSUME NEW S, NEW list \in Seq(S), IsInjective(list)
    PROVE  IsFiniteSet(ToSet(list)) /\ Cardinality(ToSet(list)) = Len(list)
<1> DEFINE n == Len(list)
           T == ToSet(list)
<1>1. n \in Nat /\ DOMAIN list = 1 .. n /\ list = [i \in 1 .. n |-> list[i]]
  OBVIOUS
<1>2. IsFiniteSet(1 .. n) /\ Cardinality(1 .. n) = n
  <2>1. n \in Int /\ 1 \in Int /\ n \in Nat
    BY <1>1
  <2> HIDE DEF n
  <2>2. IsFiniteSet(1 .. n) /\ Cardinality(1 .. n) = IF 1 > n THEN 0 ELSE n - 1 + 1
    BY <2>1, FS_Interval
  <2> QED
    BY <2>1, <2>2
<1>3. list \in [1 .. n -> T]
  BY <1>1 DEF ToSet
<1>4. list \in Surjection(1 .. n, T)
  BY <1>1, <1>3 DEF Surjection, ToSet
<1>5. list \in Injection(1 .. n, T)
  BY <1>1, <1>3 DEF Injection, IsInjective
<1> HIDE DEF n, T
<1>6. IsFiniteSet(T) /\ Cardinality(T) = Cardinality(1 .. n)
  BY <1>2, <1>4, <1>5, FS_Surjection
<1> QED
  BY <1>2, <1>6 DEF n, T

\* Taking an element out puts nothing in front of another.
LEMMA RemoveBefore ==
    ASSUME NEW S, NEW list \in Seq(S), NEW i \in 1 .. Len(list), NEW x
    PROVE  Before(RemoveAt(list, i), x) \subseteq Before(list, x)
<1> DEFINE rest == RemoveAt(list, i)
           At(j) == IF j < i THEN j ELSE j + 1
<1>1. /\ rest \in Seq(S)
      /\ Len(rest) = Len(list) - 1
      /\ \A j \in 1 .. Len(list) - 1 :
           rest[j] = IF j < i THEN list[j] ELSE list[j + 1]
  BY RemoveAtElements
<1> HIDE DEF rest
<1> SUFFICES ASSUME NEW p \in 1 .. Len(list) - 1, NEW q \in 1 .. Len(list) - 1,
                    rest[p] = x, q < p
             PROVE  rest[q] \in Before(list, x)
  BY <1>1 DEF Before, rest
<1>2. /\ At(p) \in 1 .. Len(list) /\ At(q) \in 1 .. Len(list) /\ At(q) < At(p)
      /\ rest[p] = list[At(p)] /\ rest[q] = list[At(q)]
  BY <1>1
<1> HIDE DEF At
<1> QED
  BY <1>2 DEF Before

\* Pushing t puts t in front of the others and nothing in front of t.
LEMMA PushBefore ==
    ASSUME NEW S, NEW list \in Seq(S), NEW t \in S, t \notin ToSet(list)
    PROVE  /\ \A x : Before(<<t>> \o list, x) \subseteq Before(list, x) \cup {t}
           /\ Before(<<t>> \o list, t) = {}
<1> DEFINE new == <<t>> \o list
<1>1. /\ new \in Seq(S)
      /\ Len(new) = Len(list) + 1
      /\ new[1] = t
      /\ \A j \in 1 .. Len(list) : new[j + 1] = list[j]
  BY PushFrontElements
<1> HIDE DEF new
<1>2. DOMAIN list = 1 .. Len(list) /\ DOMAIN new = 1 .. Len(list) + 1
  BY <1>1
<1>3. \A j \in 2 .. Len(list) + 1 : j - 1 \in 1 .. Len(list) /\ new[j] = list[j - 1]
  BY <1>1
<1>4. ASSUME NEW x, NEW p \in DOMAIN new, NEW q \in DOMAIN new, new[p] = x, q < p
      PROVE  new[q] \in Before(list, x) \cup {t}
  <2>1. CASE q = 1
    BY <1>1, <2>1
  <2>2. CASE q # 1
    <3>1. /\ p - 1 \in 1 .. Len(list) /\ q - 1 \in 1 .. Len(list) /\ q - 1 < p - 1
          /\ list[p - 1] = x /\ new[q] = list[q - 1]
      BY <1>2, <1>3, <1>4, <2>2
    <3> QED
      BY <1>2, <3>1 DEF Before
  <2> QED
    BY <2>1, <2>2
<1>5. ASSUME NEW p \in DOMAIN new, new[p] = t
      PROVE  p = 1
  BY <1>2, <1>3, <1>5 DEF ToSet
<1>6. Before(new, t) = {}
  BY <1>2, <1>5 DEF Before
<1>7. \A x : Before(new, x) \subseteq Before(list, x) \cup {t}
  BY <1>4 DEF Before
<1> QED
  BY <1>6, <1>7 DEF new

\* Cutting the end off changes nothing in front, and all that is left was in
\* front of what is cut off.
LEMMA FrontBefore ==
    ASSUME NEW S, NEW list \in Seq(S), NEW m \in Nat, m <= Len(list),
           IsInjective(list)
    PROVE  LET front == SubSeq(list, 1, m)
           IN  /\ \A x : Before(front, x) \subseteq Before(list, x)
               /\ \A x \in ToSet(list) \ ToSet(front) :
                    ToSet(front) \subseteq Before(list, x)
<1> DEFINE front == SubSeq(list, 1, m)
<1>1. /\ front \in Seq(S) /\ Len(front) = m
      /\ \A i \in 1 .. m : front[i] = list[i]
  OBVIOUS
<1> HIDE DEF front
<1>2. DOMAIN list = 1 .. Len(list) /\ DOMAIN front = 1 .. m /\ Len(list) \in Nat
  BY <1>1
<1>3. \A i \in 1 .. m : i \in 1 .. Len(list)
  BY <1>2
<1>4. \A x : Before(front, x) \subseteq Before(list, x)
  BY <1>1, <1>2, <1>3 DEF Before
<1>5. ASSUME NEW x \in ToSet(list), x \notin ToSet(front)
      PROVE  ToSet(front) \subseteq Before(list, x)
  <2>1. PICK p \in 1 .. Len(list) : list[p] = x
    BY <1>2 DEF ToSet
  <2>2. p \notin 1 .. m
    BY <1>1, <1>2, <1>5, <2>1 DEF ToSet
  <2>3. \A q \in 1 .. m : q < p
    BY <2>2
  <2>4. \A q \in 1 .. m : list[q] \in Before(list, x)
    BY <1>2, <1>3, <2>1, <2>3 DEF Before
  <2> QED
    BY <1>1, <1>2, <2>4 DEF ToSet
<1> QED
  BY <1>4, <1>5 DEF front

-----------------------------------------------------------------------------
(* The member functions. *)

\* The promoted token is in front of all others.
LEMMA PromoteBefore ==
    ASSUME NEW tl, WellFormed(tl), NEW t \in tl.index_
    PROVE  LET new == promoteToFront(tl, t)
           IN  /\ \A x : Before(new.lru_list_, x) \subseteq Before(tl.lru_list_, x) \cup {t}
               /\ Before(new.lru_list_, t) = {}
<1> DEFINE list == tl.lru_list_
           i == IteratorTo(list, t)
           rest == RemoveAt(list, i)
<1>1. /\ list \in Seq(Token) /\ tl.index_ \in SUBSET Token
      /\ ToSet(list) = tl.index_ /\ IsInjective(list)
  BY DEF WellFormed
<1>2. i \in 1 .. Len(list) /\ list[i] = t
  BY <1>1, IteratorToNode
<1>3. promoteToFront(tl, t).lru_list_ = <<t>> \o rest
  BY DEF promoteToFront
<1> HIDE DEF i, list
<1>4. rest \in Seq(Token) /\ t \notin ToSet(rest) /\ t \in Token
  BY <1>1, <1>2, RemoveAtElements, RemoveAtSet
<1>5. \A x : Before(rest, x) \subseteq Before(list, x)
  BY <1>1, <1>2, RemoveBefore
<1> HIDE DEF rest
<1>6. /\ \A x : Before(<<t>> \o rest, x) \subseteq Before(rest, x) \cup {t}
      /\ Before(<<t>> \o rest, t) = {}
  BY <1>4, PushBefore
<1> QED
  BY <1>3, <1>5, <1>6 DEF list

\* The added token is in front of all others, and a token that is evicted had
\* at least MAX_TOKENS tokens in front of it then.
LEMMA AddBefore ==
    ASSUME NEW tl, WellFormed(tl), NEW t \in Token
    PROVE  LET new == add(tl, t)
           IN  /\ t \in new.index_
               /\ \A x : Before(new.lru_list_, x) \subseteq Before(tl.lru_list_, x) \cup {t}
               /\ Before(new.lru_list_, t) = {}
               /\ \A x \in tl.index_ \ new.index_ :
                    \E kept \in SUBSET (Before(tl.lru_list_, x) \cup {t}) :
                      IsFiniteSet(kept) /\ Cardinality(kept) = MAX_TOKENS
<1>1. CASE t \in tl.index_
  BY <1>1, PromoteBefore, PromoteWellFormed DEF add
<1>2. CASE t \notin tl.index_
  <2> DEFINE list == tl.lru_list_
             long == <<t>> \o list
             front == SubSeq(long, 1, MAX_TOKENS)
             new == add(tl, t)
  <2>1. list \in Seq(Token) /\ ToSet(list) = tl.index_ /\ IsInjective(list)
    BY DEF WellFormed
  <2>2. /\ long \in Seq(Token) /\ Len(long) = Len(list) + 1 /\ long[1] = t
        /\ Len(list) \in Nat
    BY <2>1, PushFrontElements
  <2>3. ToSet(long) = tl.index_ \cup {t} /\ IsInjective(long)
    BY <1>2, <2>1, PushFrontSet
  <2>4. /\ \A x : Before(long, x) \subseteq Before(list, x) \cup {t}
        /\ Before(long, t) = {}
    BY <1>2, <2>1, PushBefore
  <2>5. new = evictOldest([lru_list_ |-> long, index_ |-> tl.index_ \cup {t}])
    BY <1>2 DEF add
  <2>6. WellFormed(new)
    BY AddWellFormed
  <2> HIDE DEF long, list, new
  <2>7. CASE Len(long) > MAX_TOKENS
    <3>1. new.lru_list_ = front
      BY <2>5, <2>7 DEF evictOldest
    <3>2. MAX_TOKENS \in Nat \ {0} /\ MAX_TOKENS <= Len(long)
      BY <2>2, <2>7, TokenAssumption
    <3>3. /\ \A x : Before(front, x) \subseteq Before(long, x)
          /\ \A x \in ToSet(long) \ ToSet(front) : ToSet(front) \subseteq Before(long, x)
      BY <2>2, <2>3, <3>2, FrontBefore
    <3>4. /\ front \in Seq(Token) /\ Len(front) = MAX_TOKENS /\ front[1] = t
          /\ DOMAIN front = 1 .. MAX_TOKENS
      BY <2>2, <3>2
    <3> HIDE DEF front
    <3>5. new.index_ = ToSet(front) /\ IsInjective(front)
      BY <2>6, <3>1 DEF WellFormed
    <3>6. t \in new.index_
      BY <3>2, <3>4, <3>5 DEF ToSet
    <3>7. IsFiniteSet(ToSet(front)) /\ Cardinality(ToSet(front)) = MAX_TOKENS
      BY <3>4, <3>5, CardinalityOfList
    <3>8. ASSUME NEW x \in tl.index_, x \notin new.index_
          PROVE  ToSet(front) \subseteq Before(list, x) \cup {t}
      BY <2>3, <2>4, <3>3, <3>5, <3>8
    <3> QED
      BY <2>4, <3>1, <3>3, <3>6, <3>7, <3>8 DEF list, new
  <2>8. CASE ~(Len(long) > MAX_TOKENS)
    <3>1. new = [lru_list_ |-> long, index_ |-> tl.index_ \cup {t}]
      BY <2>5, <2>8 DEF evictOldest
    <3> QED
      BY <2>4, <3>1 DEF list, new
  <2> QED
    BY <2>7, <2>8
<1> QED
  BY <1>1, <1>2

\* Removing a token puts nothing in front of another.
LEMMA RemoveKeepsBefore ==
    ASSUME NEW tl, WellFormed(tl), NEW t, NEW x
    PROVE  Before(remove(tl, t).lru_list_, x) \subseteq Before(tl.lru_list_, x)
<1>1. CASE t \in tl.index_
  <2>1. tl.lru_list_ \in Seq(Token) /\ ToSet(tl.lru_list_) = tl.index_
    BY DEF WellFormed
  <2>2. IteratorTo(tl.lru_list_, t) \in 1 .. Len(tl.lru_list_)
    BY <1>1, <2>1, IteratorToNode
  <2>3. remove(tl, t).lru_list_
          = RemoveAt(tl.lru_list_, IteratorTo(tl.lru_list_, t))
    BY <1>1 DEF remove, removeNode
  <2> QED
    BY <2>1, <2>2, <2>3, RemoveBefore
<1>2. CASE t \notin tl.index_
  BY <1>2 DEF remove
<1> QED
  BY <1>1, <1>2

\* What add keeps: everything while there is room, all but the last of the list
\* otherwise, and that one has all that is kept in front of it.
LEMMA AddDropsOldest ==
    ASSUME NEW tl, WellFormed(tl), NEW t \in Token
    PROVE  LET tokens == tl.index_ \cup {t}
               new == add(tl, t)
           IN  /\ Cardinality(tokens) <= MAX_TOKENS => new.index_ = tokens
               /\ ~(Cardinality(tokens) <= MAX_TOKENS) =>
                    \E x \in tl.index_ \ {t} :
                      /\ new.index_ = tokens \ {x}
                      /\ tokens \ {x} \subseteq Before(tl.lru_list_, x) \cup {t}
<1> DEFINE list == tl.lru_list_
           tokens == tl.index_ \cup {t}
           new == add(tl, t)
<1>1. /\ list \in Seq(Token) /\ ToSet(list) = tl.index_ /\ IsInjective(list)
      /\ Len(list) <= MAX_TOKENS /\ Len(list) \in Nat /\ MAX_TOKENS \in Nat \ {0}
  BY TokenAssumption DEF WellFormed
<1>2. CASE t \in tl.index_
  <2>1. tokens = tl.index_
    BY <1>2
  <2>2. Cardinality(tokens) = Len(list)
    BY <1>1, <2>1, CardinalityOfList
  <2>3. new.index_ = tl.index_
    BY <1>2, PromoteWellFormed DEF add
  <2> QED
    BY <1>1, <2>1, <2>2, <2>3
<1>3. CASE t \notin tl.index_
  <2> DEFINE long == <<t>> \o list
             front == SubSeq(long, 1, MAX_TOKENS)
             dropped == {long[i] : i \in MAX_TOKENS + 1 .. Len(long)}
  <2>1. /\ long \in Seq(Token) /\ Len(long) = Len(list) + 1 /\ long[1] = t
        /\ ToSet(long) = tokens /\ IsInjective(long)
    BY <1>1, <1>3, PushFrontElements, PushFrontSet
  <2>2. Cardinality(tokens) = Len(list) + 1
    BY <2>1, CardinalityOfList
  <2>3. \A x : Before(long, x) \subseteq Before(list, x) \cup {t}
    BY <1>1, <1>3, PushBefore
  <2>4. new = evictOldest([lru_list_ |-> long, index_ |-> tokens])
    BY <1>3 DEF add
  <2> HIDE DEF long, tokens, new
  <2>5. CASE Len(long) > MAX_TOKENS
    <3>1. new.lru_list_ = front /\ new.index_ = tokens \ dropped
      BY <2>4, <2>5 DEF evictOldest
    <3>2. Len(list) = MAX_TOKENS /\ Len(long) = MAX_TOKENS + 1
      BY <1>1, <2>1, <2>5
    <3> DEFINE x == long[MAX_TOKENS + 1]
    <3>3. dropped = {x}
      BY <1>1, <3>2
    <3>4. DOMAIN long = 1 .. MAX_TOKENS + 1
      BY <2>1, <3>2
    <3>5. x \in tokens /\ x # t
      BY <1>1, <2>1, <3>4 DEF ToSet, IsInjective
    <3>6. tokens \ {x} \subseteq ToSet(front)
      <4>1. \A i \in 1 .. MAX_TOKENS : front[i] = long[i]
        BY <1>1, <2>1, <3>2
      <4>2. DOMAIN front = 1 .. MAX_TOKENS
        BY <1>1, <2>1, <3>2
      <4>3. \A e \in tokens \ {x} : \E i \in 1 .. MAX_TOKENS : e = long[i]
        BY <1>1, <2>1, <3>4 DEF ToSet
      <4> HIDE DEF front
      <4> QED
        BY <4>1, <4>2, <4>3 DEF ToSet
    <3>7. x \notin ToSet(front)
      <4>1. WellFormed(new)
        BY AddWellFormed DEF new
      <4>2. ToSet(front) = tokens \ {x}
        BY <3>1, <3>3, <4>1 DEF WellFormed
      <4> QED
        BY <4>2
    <3>8. ToSet(front) \subseteq Before(long, x)
      <4>1. MAX_TOKENS \in Nat /\ MAX_TOKENS <= Len(long) /\ x \in ToSet(long) \ ToSet(front)
        BY <1>1, <2>1, <3>2, <3>5, <3>7
      <4> HIDE DEF front, x
      <4> QED
        BY <2>1, <4>1, FrontBefore DEF front
    <3> HIDE DEF x, dropped, front
    <3>9. new.index_ = tokens \ {x} /\ tokens \ {x} \subseteq Before(list, x) \cup {t}
      BY <2>3, <3>1, <3>3, <3>6, <3>8
    <3>10. x \in tl.index_ \ {t}
      BY <3>5 DEF tokens
    <3>11. ~(Cardinality(tokens) <= MAX_TOKENS)
      BY <1>1, <2>2, <3>2
    <3> QED
      BY <3>9, <3>10, <3>11 DEF tokens, new, list
  <2>6. CASE ~(Len(long) > MAX_TOKENS)
    <3>1. new.index_ = tokens
      BY <2>4, <2>6 DEF evictOldest
    <3>2. Cardinality(tokens) <= MAX_TOKENS
      BY <1>1, <2>1, <2>2, <2>6
    <3> QED
      BY <3>1, <3>2 DEF tokens, new
  <2> QED
    BY <2>5, <2>6
<1> QED
  BY <1>2, <1>3

-----------------------------------------------------------------------------
(* The authenticator *)

\* What a session carries at each step of the two handlers.
SessionInv ==
    \A s \in Sessions :
        /\ pc[s] \notin Resting => user[s] \in Users
        /\ pc[s] \in Holding \cup {"verifyJwt", "getUser", "authorize"}
             => user[s] \in DOMAIN map_
        /\ pc[s] \in {"createUserToken", "acquireForLogin", "publishUser"}
             => row[s] \in Record /\ user[s] \in Accounts
        /\ pc[s] = "addToken" => user[s] \in Accounts
        /\ pc[s] \in {"acquireForLogin", "publishUser", "addToken"}
             => token[s] \in Token /\ token[s].sub = user[s]
        /\ pc[s] \in {"acquireForCheck", "checkToken", "verifyJwt", "getUser",
                      "authorize", "acquireForRemove", "removeToken"}
             => token[s] \in Token

\* The record of a user is published before any token of the user is in the
\* cache, and stays published.
PublishedInv ==
    /\ \A u \in DOMAIN map_ : map_[u].index_ # {} => login_users_[u] # NoRow
    /\ \A s \in Sessions :
         pc[s] \in {"addToken", "verifyJwt", "getUser", "authorize"}
           => login_users_[user[s]] # NoRow

\* Only users with an account have an entry.
EntriesInv == DOMAIN map_ \subseteq Accounts

\* The inductive invariant.
IInv ==
    /\ TypeOK
    /\ SessionInv
    /\ AccessorExclusive
    /\ ListMatchesIndex
    /\ PublishedInv
    /\ EntriesInv
    /\ GrantedToOwner

\* The type of map_ and ListMatchesIndex say together that every entry is as
\* the member functions expect it; this is the form their theorems take.
EntriesWellFormed ==
    /\ DOMAIN map_ \subseteq Users
    /\ \A u \in DOMAIN map_ : WellFormed(map_[u])

\* IInv gives it.
LEMMA EntriesFromInv == IInv => EntriesWellFormed
BY DEF IInv, TypeOK, ListMatchesIndex, EntriesWellFormed, WellFormed

\* Nobody is logged in when the server starts.
LEMMA InitInv == Init => IInv
<1> SUFFICES ASSUME Init PROVE IInv
  OBVIOUS
<1> USE DEF Init
<1>1. TypeOK
  BY SessionAssumption, TokenAssumption DEF TypeOK, Control, Resting, Record
<1>2. SessionInv
  BY DEF SessionInv, Resting, Holding
<1>3. AccessorExclusive
  BY SessionAssumption DEF AccessorExclusive, Holding
<1>4. ListMatchesIndex /\ PublishedInv /\ EntriesInv /\ GrantedToOwner
  BY DEF ListMatchesIndex, PublishedInv, EntriesInv, GrantedToOwner
<1> QED
  BY <1>1, <1>2, <1>3, <1>4 DEF IInv

\* The second of a clock reading is one a token can carry.
LEMMA SecondInRange ==
    ASSUME NEW tick \in 0 .. MaxClock
    PROVE  SecondOf(tick) \in 0 .. SecondOf(MaxClock)
<1>1. tick \in Nat /\ MaxClock \in Nat /\ TICKS \in Nat \ {0} /\ tick <= MaxClock
  BY TokenAssumption
<1> QED
  BY <1>1, DivMono DEF SecondOf

-----------------------------------------------------------------------------
(* The steps of a login. *)

\* A new login changes what its session does and nothing else.
LEMMA QueryUserInv ==
    ASSUME IInv, NEW s \in Sessions, NEW u \in Users, NEW matches \in BOOLEAN,
           QueryUser(s, u, matches)
    PROVE  IInv'
<1> USE DEF IInv, QueryUser, Goto
<1>1. TypeOK'
  BY DEF TypeOK, Control, Resting
<1>2. SessionInv'
  BY DEF SessionInv, TypeOK, Resting, Holding
<1>3. AccessorExclusive'
  BY DEF AccessorExclusive, TypeOK, Resting, Holding
<1>4. ListMatchesIndex' /\ EntriesInv'
  BY DEF ListMatchesIndex, EntriesInv
<1>5. PublishedInv'
  BY DEF PublishedInv, TypeOK
<1>6. GrantedToOwner'
  BY DEF GrantedToOwner, TypeOK
<1> QED
  BY <1>1, <1>2, <1>3, <1>4, <1>5, <1>6

\* A token that is signed belongs to the session's user.
LEMMA CreateUserTokenInv ==
    ASSUME IInv, NEW s \in Sessions, CreateUserToken(s)
    PROVE  IInv'
<1> USE DEF IInv, CreateUserToken, Goto
<1>1. user[s] \in Users /\ pc[s] = "createUserToken"
  BY DEF SessionInv, Resting
<1>2. [sub |-> user[s], iat |-> SecondOf(clock)] \in Token
  <2>1. clock \in 0 .. MaxClock
    BY DEF TypeOK
  <2> QED
    BY <1>1, <2>1, SecondInRange DEF Token
<1>3. TypeOK'
  BY <1>2 DEF TypeOK, Control, Resting, Waiting
<1>4. SessionInv'
  BY <1>2 DEF SessionInv, TypeOK, Resting, Holding
<1>5. AccessorExclusive'
  BY DEF AccessorExclusive, TypeOK, Resting, Holding
<1>6. ListMatchesIndex' /\ EntriesInv'
  BY DEF ListMatchesIndex, EntriesInv
<1>7. PublishedInv'
  BY DEF PublishedInv, TypeOK
<1>8. GrantedToOwner'
  BY DEF GrantedToOwner, TypeOK
<1> QED
  BY <1>3, <1>4, <1>5, <1>6, <1>7, <1>8

\* Taking the accessor gives the user an entry, and the session holds it alone.
LEMMA AcquireForLoginInv ==
    ASSUME IInv, NEW s \in Sessions, AcquireForLogin(s)
    PROVE  IInv'
<1> USE DEF IInv, AcquireForLogin, Goto, Acquire
<1>1. user[s] \in Accounts /\ user[s] \in Users /\ pc[s] = "acquireForLogin"
  BY DEF SessionInv, Resting
<1>2. /\ DOMAIN map_' = DOMAIN map_ \cup {user[s]}
      /\ \A u \in DOMAIN map_ : map_'[u] = map_[u]
      /\ user[s] \notin DOMAIN map_ => map_'[user[s]] = EmptyTokenList
  BY DEF InsertEntry
<1>3. EntriesWellFormed'
  <2>1. EntriesWellFormed
    BY EntriesFromInv
  <2> QED
    BY <1>1, <1>2, <2>1, EmptyWellFormed DEF EntriesWellFormed, WellFormed
<1>4. TypeOK' /\ ListMatchesIndex'
  <2>1. /\ DOMAIN map_' \subseteq Users
        /\ \A u \in DOMAIN map_' :
             map_'[u] \in [lru_list_ : Seq(Token), index_ : SUBSET Token]
        /\ ListMatchesIndex'
    BY <1>3 DEF EntriesWellFormed, ListMatchesIndex, WellFormed
  <2>2. accessor' \in [Users -> Sessions \cup {NoSession}] /\ pc' \in [Sessions -> Control]
    BY <1>1 DEF TypeOK, Control, Holding
  <2> QED
    BY <2>1, <2>2 DEF TypeOK
<1>5. SessionInv'
  BY <1>1, <1>2 DEF SessionInv, TypeOK, Resting, Holding
<1>6. AccessorExclusive'
  BY <1>1, SessionAssumption DEF AccessorExclusive, TypeOK, Holding
<1>7. PublishedInv' /\ EntriesInv'
  BY <1>1, <1>2 DEF PublishedInv, EntriesInv, TypeOK, EmptyTokenList
<1>8. GrantedToOwner'
  BY <1>1, <1>2 DEF GrantedToOwner, TypeOK, EmptyTokenList
<1> QED
  BY <1>4, <1>5, <1>6, <1>7, <1>8

\* The record of the user is there from now on.
LEMMA PublishUserInv ==
    ASSUME IInv, NEW s \in Sessions, PublishUser(s)
    PROVE  IInv'
<1> USE DEF IInv, PublishUser, Goto, StoredUser
<1>1. user[s] \in Accounts /\ user[s] \in Users /\ row[s] \in Record /\ pc[s] = "publishUser"
  BY DEF SessionInv, Resting
<1>2. NoRow \notin Record
  BY SessionAssumption DEF Record
<1>3. /\ StoredUser(s) \in Record
      /\ login_users_'[user[s]] = StoredUser(s)
      /\ \A u \in Users : u # user[s] => login_users_'[u] = login_users_[u]
  BY <1>1 DEF TypeOK
<1>4. TypeOK'
  BY <1>1, <1>3 DEF TypeOK, Control, Holding
<1>5. SessionInv'
  BY <1>1 DEF SessionInv, TypeOK, Resting, Holding
<1>6. AccessorExclusive'
  BY DEF AccessorExclusive, TypeOK, Holding
<1>7. ListMatchesIndex' /\ EntriesInv'
  BY DEF ListMatchesIndex, EntriesInv
<1>8. PublishedInv'
  <2>1. \A u \in Users : login_users_[u] # NoRow => login_users_'[u] # NoRow
    BY <1>2, <1>3
  <2>2. login_users_'[user[s]] # NoRow
    BY <1>2, <1>3
  <2>3. \A t \in Sessions : pc[t] \notin Resting => user[t] \in Users
    BY DEF SessionInv
  <2> QED
    BY <2>1, <2>2, <2>3 DEF PublishedInv, TypeOK, Resting
<1>9. GrantedToOwner'
  BY DEF GrantedToOwner, TypeOK
<1> QED
  BY <1>4, <1>5, <1>6, <1>7, <1>8, <1>9

\* The token of a login goes into the entry of its own user.
LEMMA AddTokenInv ==
    ASSUME IInv, NEW s \in Sessions, AddToken(s)
    PROVE  IInv'
<1> USE DEF IInv, AddToken, Goto, Release
<1>1. /\ pc[s] = "addToken" /\ user[s] \in Accounts /\ user[s] \in Users
      /\ user[s] \in DOMAIN map_ /\ token[s] \in Token /\ token[s].sub = user[s]
  BY DEF SessionInv, Resting, Holding
<1>2. /\ DOMAIN map_' = DOMAIN map_
      /\ map_'[user[s]] = add(map_[user[s]], token[s])
      /\ \A u \in DOMAIN map_ : u # user[s] => map_'[u] = map_[u]
  BY <1>1
<1>3. /\ WellFormed(map_'[user[s]])
      /\ map_'[user[s]].index_ \subseteq map_[user[s]].index_ \cup {token[s]}
  BY <1>1, <1>2, EntriesFromInv, AddWellFormed DEF EntriesWellFormed
<1>4. EntriesWellFormed'
  BY <1>2, <1>3, EntriesFromInv DEF EntriesWellFormed, WellFormed
<1>5. DOMAIN usedSince' = DOMAIN usedSince \cup {token[s]}
  BY DEF Touch
<1>6. TypeOK' /\ ListMatchesIndex'
  <2>1. /\ DOMAIN map_' \subseteq Users
        /\ \A u \in DOMAIN map_' :
             map_'[u] \in [lru_list_ : Seq(Token), index_ : SUBSET Token]
        /\ ListMatchesIndex'
    BY <1>4 DEF EntriesWellFormed, ListMatchesIndex, WellFormed
  <2>2. accessor' \in [Users -> Sessions \cup {NoSession}] /\ pc' \in [Sessions -> Control]
    BY <1>1 DEF TypeOK, Control, Resting
  <2>3. \A t \in DOMAIN usedSince' : usedSince'[t] \subseteq DOMAIN usedSince'
    BY <1>5 DEF TypeOK, Touch
  <2> QED
    BY <1>1, <1>5, <2>1, <2>2, <2>3 DEF TypeOK
<1>7. SessionInv'
  BY <1>1, <1>2 DEF SessionInv, TypeOK, Resting, Holding
<1>8. AccessorExclusive'
  BY <1>1, SessionAssumption DEF AccessorExclusive, TypeOK, Holding
<1>9. PublishedInv' /\ EntriesInv'
  BY <1>1, <1>2 DEF PublishedInv, EntriesInv, TypeOK
<1>10. GrantedToOwner'
  BY <1>1, <1>2, <1>3, <1>5 DEF GrantedToOwner, TypeOK
<1> QED
  BY <1>6, <1>7, <1>8, <1>9, <1>10

-----------------------------------------------------------------------------
(* The steps of a verification. *)

\* A request brings any user name and any token.
LEMMA VerifyRequestInv ==
    ASSUME IInv, NEW s \in Sessions, NEW u \in Users, NEW t \in Token,
           VerifyRequest(s, u, t)
    PROVE  IInv'
<1> USE DEF IInv, VerifyRequest, Goto
<1>1. TypeOK'
  BY DEF TypeOK, Control, Waiting
<1>2. SessionInv'
  BY DEF SessionInv, TypeOK, Resting, Holding
<1>3. AccessorExclusive'
  BY DEF AccessorExclusive, TypeOK, Resting, Holding
<1>4. ListMatchesIndex' /\ EntriesInv'
  BY DEF ListMatchesIndex, EntriesInv
<1>5. PublishedInv'
  BY DEF PublishedInv, TypeOK
<1>6. GrantedToOwner'
  BY DEF GrantedToOwner, TypeOK
<1> QED
  BY <1>1, <1>2, <1>3, <1>4, <1>5, <1>6

\* find gives the accessor of an entry that is there, and none otherwise; the
\* two lookups differ in the step that follows.
LEMMA AcquireFoundInv ==
    ASSUME IInv, NEW s \in Sessions, AcquireForCheck(s) \/ AcquireForRemove(s)
    PROVE  IInv'
<1> USE DEF IInv, AcquireForCheck, AcquireForRemove, Goto, Acquire
<1>1. /\ pc[s] \in Waiting /\ user[s] \in Users /\ token[s] \in Token
      /\ UNCHANGED <<clock, rows, map_, login_users_, user, token, row, usedSince>>
  BY DEF SessionInv, Resting, Waiting
<1>2. \/ /\ user[s] \in DOMAIN map_ /\ accessor[user[s]] = NoSession
         /\ accessor' = [accessor EXCEPT ![user[s]] = s]
         /\ \/ pc' = [pc EXCEPT ![s] = "checkToken"]
            \/ pc' = [pc EXCEPT ![s] = "removeToken"]
      \/ accessor' = accessor /\ pc' = [pc EXCEPT ![s] = "refused"]
  OBVIOUS
<1> USE <1>1, <1>2
<1> HIDE DEF AcquireForCheck, AcquireForRemove
<1>3. TypeOK'
  BY DEF TypeOK, Control, Resting, Holding
<1>4. SessionInv'
  BY DEF SessionInv, TypeOK, Resting, Holding
<1>5. AccessorExclusive'
  BY SessionAssumption DEF AccessorExclusive, TypeOK, Holding, Waiting
<1>6. ListMatchesIndex' /\ EntriesInv'
  BY DEF ListMatchesIndex, EntriesInv
<1>7. PublishedInv'
  BY DEF PublishedInv, TypeOK
<1>8. GrantedToOwner'
  BY DEF GrantedToOwner, TypeOK
<1> QED
  BY <1>3, <1>4, <1>5, <1>6, <1>7, <1>8

\* A token that is found is one of its user's, and its user is published.
LEMMA CheckTokenInv ==
    ASSUME IInv, NEW s \in Sessions, CheckToken(s)
    PROVE  IInv'
<1> USE DEF IInv, CheckToken, Goto, Release
<1>1. /\ pc[s] = "checkToken" /\ user[s] \in Users /\ user[s] \in DOMAIN map_
      /\ token[s] \in Token /\ user[s] \in Accounts
  BY DEF SessionInv, Resting, Holding, EntriesInv
<1>2. /\ DOMAIN map_' = DOMAIN map_
      /\ map_'[user[s]] = validateAndRefresh(map_[user[s]], token[s])
      /\ \A u \in DOMAIN map_ : u # user[s] => map_'[u] = map_[u]
  BY <1>1
<1>3. WellFormed(map_'[user[s]]) /\ map_'[user[s]].index_ = map_[user[s]].index_
  BY <1>1, <1>2, EntriesFromInv, ValidateWellFormed DEF EntriesWellFormed
<1>4. EntriesWellFormed'
  BY <1>2, <1>3, EntriesFromInv DEF EntriesWellFormed, WellFormed
<1>5. token[s] \in map_[user[s]].index_ =>
        token[s].sub = user[s] /\ token[s] \in DOMAIN usedSince
          /\ login_users_[user[s]] # NoRow
  BY <1>1 DEF GrantedToOwner, PublishedInv
<1>6. DOMAIN usedSince' = DOMAIN usedSince
  BY <1>5 DEF Touch
<1>7. TypeOK' /\ ListMatchesIndex'
  <2>1. /\ DOMAIN map_' \subseteq Users
        /\ \A u \in DOMAIN map_' :
             map_'[u] \in [lru_list_ : Seq(Token), index_ : SUBSET Token]
        /\ ListMatchesIndex'
    BY <1>4 DEF EntriesWellFormed, ListMatchesIndex, WellFormed
  <2>2. accessor' \in [Users -> Sessions \cup {NoSession}] /\ pc' \in [Sessions -> Control]
    BY <1>1 DEF TypeOK, Control, Resting
  <2>3. \A t \in DOMAIN usedSince' : usedSince'[t] \subseteq DOMAIN usedSince'
    BY <1>5, <1>6 DEF TypeOK, Touch
  <2> QED
    BY <1>6, <2>1, <2>2, <2>3 DEF TypeOK
<1>8. SessionInv'
  BY <1>1, <1>2 DEF SessionInv, TypeOK, Resting, Holding
<1>9. AccessorExclusive'
  BY <1>1, SessionAssumption DEF AccessorExclusive, TypeOK, Holding, Resting
<1>10. PublishedInv' /\ EntriesInv'
  BY <1>1, <1>2, <1>3, <1>5 DEF PublishedInv, EntriesInv, TypeOK
<1>11. GrantedToOwner'
  BY <1>1, <1>2, <1>3, <1>5, <1>6 DEF GrantedToOwner, TypeOK
<1> QED
  BY <1>7, <1>8, <1>9, <1>10, <1>11

\* The steps that only read: the signature, the record, the rule.
LEMMA ReadingInv ==
    ASSUME IInv, NEW s \in Sessions, VerifyJwt(s) \/ GetUser(s) \/ Authorize(s)
    PROVE  IInv'
<1> USE DEF IInv, VerifyJwt, GetUser, Authorize, Goto
<1>1. /\ UNCHANGED <<clock, rows, map_, accessor, login_users_, user, token, row,
                     usedSince>>
      /\ pc[s] \in {"verifyJwt", "getUser", "authorize"}
      /\ user[s] \in Users /\ user[s] \in DOMAIN map_ /\ token[s] \in Token
  BY DEF SessionInv, Resting
<1>2. \E step \in {"acquireForRemove", "getUser", "authorize", "granted", "refused"} :
        pc' = [pc EXCEPT ![s] = step]
  OBVIOUS
<1> USE <1>1, <1>2
<1> HIDE DEF VerifyJwt, GetUser, Authorize
<1>3. TypeOK'
  BY DEF TypeOK, Control, Resting, Waiting
<1>4. SessionInv'
  BY DEF SessionInv, TypeOK, Resting, Holding
<1>5. AccessorExclusive'
  BY DEF AccessorExclusive, TypeOK, Holding
<1>6. ListMatchesIndex' /\ EntriesInv'
  BY DEF ListMatchesIndex, EntriesInv
<1>7. PublishedInv'
  BY DEF PublishedInv, TypeOK
<1>8. GrantedToOwner'
  BY DEF GrantedToOwner, TypeOK
<1> QED
  BY <1>3, <1>4, <1>5, <1>6, <1>7, <1>8

\* A token that has expired leaves the entry.
LEMMA RemoveTokenInv ==
    ASSUME IInv, NEW s \in Sessions, RemoveToken(s)
    PROVE  IInv'
<1> USE DEF IInv, RemoveToken, Goto, Release
<1>1. /\ pc[s] = "removeToken" /\ user[s] \in Users /\ user[s] \in DOMAIN map_
      /\ token[s] \in Token
  BY DEF SessionInv, Resting, Holding
<1>2. /\ DOMAIN map_' = DOMAIN map_
      /\ map_'[user[s]] = remove(map_[user[s]], token[s])
      /\ \A u \in DOMAIN map_ : u # user[s] => map_'[u] = map_[u]
  BY <1>1
<1>3. WellFormed(map_'[user[s]])
      /\ map_'[user[s]].index_ \subseteq map_[user[s]].index_
  BY <1>1, <1>2, EntriesFromInv, RemoveWellFormed DEF EntriesWellFormed
<1>4. EntriesWellFormed'
  BY <1>2, <1>3, EntriesFromInv DEF EntriesWellFormed, WellFormed
<1>5. TypeOK' /\ ListMatchesIndex'
  <2>1. /\ DOMAIN map_' \subseteq Users
        /\ \A u \in DOMAIN map_' :
             map_'[u] \in [lru_list_ : Seq(Token), index_ : SUBSET Token]
        /\ ListMatchesIndex'
    BY <1>4 DEF EntriesWellFormed, ListMatchesIndex, WellFormed
  <2>2. accessor' \in [Users -> Sessions \cup {NoSession}] /\ pc' \in [Sessions -> Control]
    BY <1>1 DEF TypeOK, Control, Resting
  <2> QED
    BY <2>1, <2>2 DEF TypeOK
<1>6. SessionInv'
  BY <1>1, <1>2 DEF SessionInv, TypeOK, Resting, Holding
<1>7. AccessorExclusive'
  BY <1>1, SessionAssumption DEF AccessorExclusive, TypeOK, Holding, Resting
<1>8. PublishedInv' /\ EntriesInv'
  BY <1>1, <1>2, <1>3 DEF PublishedInv, EntriesInv, TypeOK
<1>9. GrantedToOwner'
  BY <1>1, <1>2, <1>3 DEF GrantedToOwner, TypeOK
<1> QED
  BY <1>5, <1>6, <1>7, <1>8, <1>9

-----------------------------------------------------------------------------
(* The invariant and what follows from it. *)

\* No step of a session, of the clock or of the users table breaks IInv.
LEMMA NextInv == IInv /\ [Next]_vars => IInv'
<1> SUFFICES ASSUME IInv, [Next]_vars PROVE IInv'
  OBVIOUS
<1>1. ASSUME NEW s \in Sessions, NEW u \in Users, NEW matches \in BOOLEAN,
             QueryUser(s, u, matches)
      PROVE  IInv'
  BY <1>1, QueryUserInv
<1>2. ASSUME NEW s \in Sessions, NEW u \in Users, NEW t \in Token,
             VerifyRequest(s, u, t)
      PROVE  IInv'
  BY <1>2, VerifyRequestInv
<1>3. ASSUME NEW s \in Sessions, Step(s)
      PROVE  IInv'
  BY <1>3, CreateUserTokenInv, AcquireForLoginInv, PublishUserInv, AddTokenInv,
     AcquireFoundInv, CheckTokenInv, ReadingInv, RemoveTokenInv DEF Step
<1>4. CASE Tick
  <2>1. clock' \in 0 .. MaxClock
    BY <1>4, TokenAssumption DEF Tick, IInv, TypeOK
  <2> QED
    BY <1>4, <2>1 DEF Tick, IInv, TypeOK, SessionInv, AccessorExclusive,
       ListMatchesIndex, PublishedInv, EntriesInv, GrantedToOwner
<1>5. ASSUME NEW u \in Accounts, EditRow(u)
      PROVE  IInv'
  <2>1. rows' \in [Accounts -> Record]
    BY <1>5, SessionAssumption DEF EditRow, IInv, TypeOK, Record
  <2> QED
    BY <1>5, <2>1 DEF EditRow, IInv, TypeOK, SessionInv, AccessorExclusive,
       ListMatchesIndex, PublishedInv, EntriesInv, GrantedToOwner
<1>6. CASE UNCHANGED vars
  BY <1>6 DEF vars, IInv, TypeOK, SessionInv, AccessorExclusive,
     ListMatchesIndex, PublishedInv, EntriesInv, GrantedToOwner
<1> QED
  BY <1>1, <1>2, <1>3, <1>4, <1>5, <1>6 DEF Next

\* IInv holds in every reachable state.
THEOREM Invariance == Spec => []IInv
BY InitInv, NextInv, PTL DEF Spec

\* Type correctness of login and verification.
THEOREM TypeCorrect == Spec => []TypeOK
<1>1. IInv => TypeOK
  BY DEF IInv
<1> QED
  BY <1>1, Invariance, PTL

\* The lock of an entry is held by the one session inside a member function of
\* UserAuthenticator for that user, and by nobody else.
THEOREM AccessorIsExclusive == Spec => []AccessorExclusive
<1>1. IInv => AccessorExclusive
  BY DEF IInv
<1> QED
  BY <1>1, Invariance, PTL

\* However logins and checks interleave, the list and the index of every entry
\* name the same tokens, with one node each and at most MAX_TOKENS_ of them.
THEOREM ListAlwaysMatchesIndex == Spec => []ListMatchesIndex
<1>1. IInv => ListMatchesIndex
  BY DEF IInv
<1> QED
  BY <1>1, Invariance, PTL

\* No request is let through with a token that no login to its account added.
THEOREM GrantedOnlyToOwner == Spec => []GrantedToOwner
<1>1. IInv => GrantedToOwner
  BY DEF IInv
<1> QED
  BY <1>1, Invariance, PTL

\* The result of getUser that verifyUserToken dereferences is never empty.
THEOREM GetUserAlwaysFound == Spec => []GetUserFound
<1>1. IInv => GetUserFound
  BY DEF IInv, PublishedInv, GetUserFound
<1> QED
  BY <1>1, Invariance, PTL

-----------------------------------------------------------------------------
(* A fresh token keeps working.  Whatever stands in front of a token in its
   list has been used after it, so a token that falls off the end of a full
   list has seen MAX_TOKENS other tokens used since its own last use. *)

\* The list is in the order of the last use.
RecencyInv ==
    \A u \in DOMAIN map_ : \A t \in map_[u].index_ :
        Before(map_[u].lru_list_, t) \subseteq usedSince[t]

\* What is known of every token that was ever added.
HistoryInv ==
    /\ \A t \in DOMAIN usedSince : t.sub \in DOMAIN map_ /\ IsFiniteSet(usedSince[t])
    /\ \A s \in Sessions :
         pc[s] \in {"acquireForRemove", "removeToken"} => Expired(token[s], clock)

\* The inductive invariant.
FreshInv == IInv /\ RecencyInv /\ HistoryInv /\ KeptWhileFresh

\* FreshInv less IInv, which NextInv takes care of.
FreshRest == RecencyInv /\ HistoryInv /\ KeptWhileFresh

\* Nobody has used a token when the server starts.
LEMMA InitFresh == Init => FreshInv
BY InitInv DEF Init, FreshInv, RecencyInv, HistoryInv, KeptWhileFresh

\* A token that has expired stays so.
LEMMA ExpiredStays ==
    ASSUME NEW t \in Token, NEW now \in 0 .. MaxClock, Expired(t, now)
    PROVE  Expired(t, now + 1)
<1> DEFINE limit == (t.iat + TTL) * TICKS
<1>1. t.iat \in Nat /\ TTL \in Nat /\ TICKS \in Nat /\ now \in Nat
  <2>1. t.iat \in 0 .. SecondOf(MaxClock)
    BY DEF Token
  <2>2. t.iat \in Int /\ t.iat >= 0
    BY <2>1
  <2> QED
    BY <2>2, TokenAssumption
<1>2. limit \in Int
  BY <1>1
<1> HIDE DEF limit
<1>3. now > limit
  BY DEF Expired, limit
<1>4. now + 1 > limit
  BY <1>1, <1>2, <1>3
<1> QED
  BY <1>4 DEF Expired, limit

\* What a use of a token does to the history.
LEMMA TouchFacts ==
    ASSUME NEW t, Touch(t)
    PROVE  /\ DOMAIN usedSince' = DOMAIN usedSince \cup {t}
           /\ usedSince'[t] = {}
           /\ \A x \in DOMAIN usedSince : x # t =>
                /\ x.sub = t.sub => usedSince'[x] = usedSince[x] \cup {t}
                /\ x.sub # t.sub => usedSince'[x] = usedSince[x]
BY DEF Touch

\* A set of tokens used only grows, and so does their number.
LEMMA MoreUsed ==
    ASSUME NEW x, IsFiniteSet(usedSince[x]), NEW t,
           usedSince'[x] \in {usedSince[x], usedSince[x] \cup {t}}
    PROVE  /\ IsFiniteSet(usedSince'[x])
           /\ \A kept \in SUBSET usedSince'[x] :
                Cardinality(kept) >= MAX_TOKENS => Cardinality(usedSince'[x]) >= MAX_TOKENS
<1>1. IsFiniteSet(usedSince'[x])
  BY FS_AddElement
<1>2. ASSUME NEW kept \in SUBSET usedSince'[x], Cardinality(kept) >= MAX_TOKENS
      PROVE  Cardinality(usedSince'[x]) >= MAX_TOKENS
  <2>1. IsFiniteSet(kept) /\ Cardinality(kept) <= Cardinality(usedSince'[x])
    BY <1>1, FS_Subset
  <2>2. Cardinality(kept) \in Nat /\ Cardinality(usedSince'[x]) \in Nat
    BY <1>1, <2>1, FS_CardinalityType
  <2> QED
    BY <1>2, <2>1, <2>2, TokenAssumption
<1> QED
  BY <1>1, <1>2

\* A step that leaves the cache, the history and the clock alone.
LEMMA QuietFresh ==
    ASSUME FreshInv, UNCHANGED <<clock, map_, usedSince>>,
           \A s \in Sessions : pc'[s] \in {"acquireForRemove", "removeToken"}
             => Expired(token'[s], clock)
    PROVE  FreshRest'
BY DEF FreshInv, FreshRest, RecencyInv, HistoryInv, KeptWhileFresh

\* A new entry is empty.
LEMMA AcquireForLoginFresh ==
    ASSUME FreshInv, NEW s \in Sessions, AcquireForLogin(s)
    PROVE  FreshRest'
<1> USE DEF FreshInv, AcquireForLogin, Goto
<1>1. /\ DOMAIN map_' = DOMAIN map_ \cup {user[s]}
      /\ \A u \in DOMAIN map_ : map_'[u] = map_[u]
      /\ user[s] \notin DOMAIN map_ => map_'[user[s]] = EmptyTokenList
  BY DEF InsertEntry
<1>2. RecencyInv'
  BY <1>1 DEF RecencyInv, EmptyTokenList
<1>3. HistoryInv'
  BY <1>1 DEF HistoryInv, IInv, TypeOK
<1>4. KeptWhileFresh'
  BY <1>1 DEF KeptWhileFresh, HistoryInv
<1> QED
  BY <1>2, <1>3, <1>4 DEF FreshRest

\* The added token goes to the front; a token that falls off the end had
\* MAX_TOKENS tokens in front of it.
LEMMA AddTokenFresh ==
    ASSUME FreshInv, NEW s \in Sessions, AddToken(s)
    PROVE  FreshRest'
<1> DEFINE u == user[s]
           t == token[s]
           list == map_[u].lru_list_
           new == add(map_[u], t)
<1>1. /\ u \in DOMAIN map_ /\ t \in Token /\ t.sub = u
      /\ WellFormed(map_[u])
      /\ Touch(t) /\ clock' = clock /\ token' = token
      /\ pc' = [pc EXCEPT ![s] = "loggedIn"]
  BY EntriesFromInv DEF FreshInv, IInv, SessionInv, AddToken, Goto, Holding,
     Resting, EntriesWellFormed
<1>2. /\ DOMAIN map_' = DOMAIN map_ /\ map_'[u] = new
      /\ \A v \in DOMAIN map_ : v # u => map_'[v] = map_[v]
  BY <1>1 DEF AddToken
<1>3. /\ t \in new.index_
      /\ \A x : Before(new.lru_list_, x) \subseteq Before(list, x) \cup {t}
      /\ Before(new.lru_list_, t) = {}
      /\ \A x \in map_[u].index_ \ new.index_ :
           \E kept \in SUBSET (Before(list, x) \cup {t}) :
             IsFiniteSet(kept) /\ Cardinality(kept) = MAX_TOKENS
  BY <1>1, AddBefore
<1>4. new.index_ \subseteq map_[u].index_ \cup {t}
  BY <1>1, AddWellFormed
<1>5. /\ DOMAIN usedSince' = DOMAIN usedSince \cup {t}
      /\ usedSince'[t] = {}
      /\ \A x \in DOMAIN usedSince : x # t =>
           /\ x.sub = u => usedSince'[x] = usedSince[x] \cup {t}
           /\ x.sub # u => usedSince'[x] = usedSince[x]
  <2> HIDE DEF u, t
  <2>1. t.sub = u
    BY <1>1
  <2>2. /\ DOMAIN usedSince' = DOMAIN usedSince \cup {t}
        /\ usedSince'[t] = {}
        /\ \A x \in DOMAIN usedSince : x # t =>
             /\ x.sub = t.sub => usedSince'[x] = usedSince[x] \cup {t}
             /\ x.sub # t.sub => usedSince'[x] = usedSince[x]
    BY <1>1, TouchFacts
  <2> QED
    BY <2>1, <2>2
<1>6. \A v \in DOMAIN map_ : \A x \in map_[v].index_ :
        x.sub = v /\ x \in DOMAIN usedSince /\ Before(map_[v].lru_list_, x) \subseteq usedSince[x]
  BY DEF FreshInv, IInv, GrantedToOwner, RecencyInv
<1> HIDE DEF u, t, list, new
<1>7. RecencyInv'
  <2> SUFFICES ASSUME NEW v \in DOMAIN map_, NEW x \in map_'[v].index_
               PROVE  Before(map_'[v].lru_list_, x) \subseteq usedSince'[x]
    BY <1>2 DEF RecencyInv
  <2>1. CASE v # u
    BY <1>1, <1>2, <1>5, <1>6, <2>1
  <2>2. CASE v = u /\ x # t
    <3>1. x \in map_[u].index_ /\ x \in DOMAIN usedSince /\ x.sub = u
          /\ Before(list, x) \subseteq usedSince[x]
      BY <1>1, <1>2, <1>4, <1>6, <2>2 DEF list
    <3> QED
      BY <1>2, <1>3, <1>5, <2>2, <3>1
  <2>3. CASE v = u /\ x = t
    BY <1>2, <1>3, <2>3
  <2> QED
    BY <2>1, <2>2, <2>3
<1>8. ASSUME NEW x \in DOMAIN usedSince, x # t
      PROVE  /\ usedSince'[x] \in {usedSince[x], usedSince[x] \cup {t}}
             /\ IsFiniteSet(usedSince[x]) /\ x.sub \in DOMAIN map_
  BY <1>5, <1>8 DEF FreshInv, HistoryInv
<1>9. HistoryInv'
  <2>1. \A x \in DOMAIN usedSince' : x.sub \in DOMAIN map_' /\ IsFiniteSet(usedSince'[x])
    <3> SUFFICES ASSUME NEW x \in DOMAIN usedSince'
                 PROVE  x.sub \in DOMAIN map_' /\ IsFiniteSet(usedSince'[x])
      OBVIOUS
    <3>1. CASE x = t
      BY <1>1, <1>2, <1>5, <3>1, FS_EmptySet
    <3>2. CASE x # t
      BY <1>2, <1>5, <1>8, <3>2, MoreUsed
    <3> QED
      BY <3>1, <3>2
  <2>2. \A r \in Sessions :
          pc'[r] \in {"acquireForRemove", "removeToken"} => Expired(token'[r], clock')
    BY <1>1 DEF FreshInv, HistoryInv, IInv, TypeOK
  <2> QED
    BY <2>1, <2>2 DEF HistoryInv
<1>10. KeptWhileFresh'
  <2> SUFFICES ASSUME NEW x \in DOMAIN usedSince', ~Expired(x, clock),
                      x \notin map_'[x.sub].index_
               PROVE  Cardinality(usedSince'[x]) >= MAX_TOKENS
    BY <1>1 DEF KeptWhileFresh
  <2>1. x # t /\ x \in DOMAIN usedSince
    BY <1>1, <1>2, <1>3, <1>5
  <2>2. CASE x \in map_[x.sub].index_
    <3>1. x.sub = u
      BY <1>2, <1>8, <2>1, <2>2
    <3>2. Before(list, x) \cup {t} \subseteq usedSince'[x]
      BY <1>5, <1>6, <1>1, <2>1, <2>2, <3>1 DEF list
    <3>3. PICK kept \in SUBSET (Before(list, x) \cup {t}) :
            IsFiniteSet(kept) /\ Cardinality(kept) = MAX_TOKENS
      BY <1>2, <1>3, <2>2, <3>1
    <3>4. Cardinality(kept) >= MAX_TOKENS
      BY <3>3, TokenAssumption
    <3> QED
      BY <1>8, <2>1, <3>2, <3>4, MoreUsed
  <2>3. CASE x \notin map_[x.sub].index_
    <3>1. Cardinality(usedSince[x]) >= MAX_TOKENS
      BY <2>1, <2>3 DEF FreshInv, KeptWhileFresh
    <3>2. usedSince[x] \subseteq usedSince'[x]
      BY <1>8, <2>1
    <3> QED
      BY <1>8, <2>1, <3>1, <3>2, MoreUsed
  <2> QED
    BY <2>2, <2>3
<1> QED
  BY <1>7, <1>9, <1>10 DEF FreshRest

\* A token that is found goes to the front; the cache loses nothing.
LEMMA CheckTokenFresh ==
    ASSUME FreshInv, NEW s \in Sessions, CheckToken(s)
    PROVE  FreshRest'
<1> DEFINE u == user[s]
           t == token[s]
           list == map_[u].lru_list_
           new == validateAndRefresh(map_[u], t)
<1>1. /\ u \in DOMAIN map_ /\ t \in Token /\ WellFormed(map_[u])
      /\ clock' = clock /\ token' = token
      /\ \/ pc' = [pc EXCEPT ![s] = "verifyJwt"]
         \/ pc' = [pc EXCEPT ![s] = "refused"]
  BY EntriesFromInv DEF FreshInv, IInv, SessionInv, CheckToken, Goto, Holding,
     Resting, EntriesWellFormed
<1>2. /\ DOMAIN map_' = DOMAIN map_ /\ map_'[u] = new
      /\ \A v \in DOMAIN map_ : v # u => map_'[v] = map_[v]
  BY <1>1 DEF CheckToken
<1>3. new.index_ = map_[u].index_
  BY <1>1, ValidateWellFormed
<1>4. \A v \in DOMAIN map_ : \A x \in map_[v].index_ :
        x.sub = v /\ x \in DOMAIN usedSince /\ Before(map_[v].lru_list_, x) \subseteq usedSince[x]
  BY DEF FreshInv, IInv, GrantedToOwner, RecencyInv
<1>5. \A r \in Sessions :
        pc'[r] \in {"acquireForRemove", "removeToken"} => Expired(token'[r], clock')
  BY <1>1 DEF FreshInv, HistoryInv, IInv, TypeOK
<1>6. CASE t \in map_[u].index_
  <2>1. /\ \A x : Before(new.lru_list_, x) \subseteq Before(list, x) \cup {t}
        /\ Before(new.lru_list_, t) = {}
    BY <1>1, <1>6, PromoteBefore DEF validateAndRefresh
  <2>2. Touch(t)
    BY <1>6 DEF CheckToken
  <2> HIDE DEF u, t, list, new
  <2>3. t.sub = u /\ t \in DOMAIN usedSince
    BY <1>1, <1>4, <1>6
  <2>4. /\ DOMAIN usedSince' = DOMAIN usedSince
        /\ usedSince'[t] = {}
        /\ \A x \in DOMAIN usedSince : x # t =>
             /\ x.sub = t.sub => usedSince'[x] = usedSince[x] \cup {t}
             /\ x.sub # t.sub => usedSince'[x] = usedSince[x]
    <3>1. /\ DOMAIN usedSince' = DOMAIN usedSince \cup {t}
          /\ usedSince'[t] = {}
          /\ \A x \in DOMAIN usedSince : x # t =>
               /\ x.sub = t.sub => usedSince'[x] = usedSince[x] \cup {t}
               /\ x.sub # t.sub => usedSince'[x] = usedSince[x]
      BY <2>2, TouchFacts
    <3>2. DOMAIN usedSince \cup {t} = DOMAIN usedSince
      BY <2>3
    <3> QED
      BY <3>1, <3>2
  <2>5. ASSUME NEW x \in DOMAIN usedSince, x # t
        PROVE  /\ usedSince'[x] \in {usedSince[x], usedSince[x] \cup {t}}
               /\ IsFiniteSet(usedSince[x]) /\ x.sub \in DOMAIN map_
    BY <2>4, <2>5 DEF FreshInv, HistoryInv
  <2>6. RecencyInv'
    <3> SUFFICES ASSUME NEW v \in DOMAIN map_, NEW x \in map_'[v].index_
                 PROVE  Before(map_'[v].lru_list_, x) \subseteq usedSince'[x]
      BY <1>2 DEF RecencyInv
    <3>1. CASE v # u
      BY <1>2, <1>4, <2>3, <2>4, <3>1
    <3>2. CASE v = u /\ x # t
      <4>1. x \in DOMAIN usedSince /\ x.sub = t.sub /\ Before(list, x) \subseteq usedSince[x]
        BY <1>2, <1>3, <1>4, <2>3, <3>2 DEF list
      <4> QED
        BY <1>2, <2>1, <2>4, <3>2, <4>1
    <3>3. CASE v = u /\ x = t
      BY <1>2, <2>1, <3>3
    <3> QED
      BY <3>1, <3>2, <3>3
  <2>7. HistoryInv'
    <3>1. ASSUME NEW x \in DOMAIN usedSince'
          PROVE  x.sub \in DOMAIN map_' /\ IsFiniteSet(usedSince'[x])
      <4>1. CASE x = t
        BY <1>1, <1>2, <2>3, <2>4, <4>1, FS_EmptySet
      <4>2. CASE x # t
        BY <1>2, <2>4, <2>5, <4>2, MoreUsed
      <4> QED
        BY <4>1, <4>2
    <3> QED
      BY <1>5, <3>1 DEF HistoryInv
  <2>8. KeptWhileFresh'
    <3> SUFFICES ASSUME NEW x \in DOMAIN usedSince, ~Expired(x, clock),
                        x \notin map_'[x.sub].index_
                 PROVE  Cardinality(usedSince'[x]) >= MAX_TOKENS
      BY <1>1, <2>4 DEF KeptWhileFresh
    <3>1. x.sub \in DOMAIN map_
      BY DEF FreshInv, HistoryInv
    <3>2. x \notin map_[x.sub].index_
      BY <1>2, <1>3, <3>1
    <3>3. x # t
      BY <1>6, <2>3, <3>2
    <3>4. Cardinality(usedSince[x]) >= MAX_TOKENS
      BY <3>2 DEF FreshInv, KeptWhileFresh
    <3>5. usedSince[x] \subseteq usedSince'[x]
      BY <2>5, <3>3
    <3>6. /\ usedSince'[x] \in {usedSince[x], usedSince[x] \cup {t}}
          /\ IsFiniteSet(usedSince[x])
      BY <2>5, <3>3
    <3>7. \A kept \in SUBSET usedSince'[x] :
            Cardinality(kept) >= MAX_TOKENS => Cardinality(usedSince'[x]) >= MAX_TOKENS
      BY <3>6, MoreUsed
    <3> QED
      BY <3>4, <3>5, <3>7
  <2> QED
    BY <2>6, <2>7, <2>8 DEF FreshRest
<1>7. CASE t \notin map_[u].index_
  <2>1. usedSince' = usedSince
    BY <1>7 DEF CheckToken
  <2>2. \A v \in DOMAIN map_ : map_'[v] = map_[v]
    BY <1>2, <1>7 DEF validateAndRefresh
  <2> QED
    BY <1>1, <1>2, <1>5, <2>1, <2>2
       DEF FreshInv, FreshRest, RecencyInv, HistoryInv, KeptWhileFresh
<1> QED
  BY <1>6, <1>7

\* Only an expired token is removed, and it may not be any other by now: what
\* is removed is named by its string.
LEMMA RemoveTokenFresh ==
    ASSUME FreshInv, NEW s \in Sessions, RemoveToken(s)
    PROVE  FreshRest'
<1> DEFINE u == user[s]
           t == token[s]
           new == remove(map_[u], t)
<1>1. /\ u \in DOMAIN map_ /\ t \in Token /\ WellFormed(map_[u])
      /\ UNCHANGED <<clock, token, usedSince>>
      /\ pc' = [pc EXCEPT ![s] = "refused"]
      /\ Expired(t, clock)
  BY EntriesFromInv DEF FreshInv, IInv, SessionInv, HistoryInv, RemoveToken, Goto,
     Holding, Resting, EntriesWellFormed
<1>2. /\ DOMAIN map_' = DOMAIN map_ /\ map_'[u] = new
      /\ \A v \in DOMAIN map_ : v # u => map_'[v] = map_[v]
  BY <1>1 DEF RemoveToken
<1>3. /\ new.index_ = map_[u].index_ \ {t}
      /\ \A x : Before(new.lru_list_, x) \subseteq Before(map_[u].lru_list_, x)
  BY <1>1, RemoveWellFormed, RemoveKeepsBefore
<1> HIDE DEF u, t, new
<1>4. RecencyInv'
  BY <1>1, <1>2, <1>3 DEF FreshInv, RecencyInv
<1>5. HistoryInv'
  BY <1>1, <1>2 DEF FreshInv, HistoryInv, IInv, TypeOK
<1>6. KeptWhileFresh'
  BY <1>1, <1>2, <1>3 DEF FreshInv, KeptWhileFresh, HistoryInv
<1> QED
  BY <1>4, <1>5, <1>6 DEF FreshRest

\* Time only makes tokens expire.
LEMMA TickFresh ==
    ASSUME FreshInv, Tick
    PROVE  FreshRest'
<1>1. /\ UNCHANGED <<map_, usedSince, pc, token>> /\ clock' = clock + 1
      /\ clock \in 0 .. MaxClock
  BY DEF Tick, FreshInv, IInv, TypeOK
<1>2. \A t \in Token : Expired(t, clock) => Expired(t, clock')
  BY <1>1, ExpiredStays
<1>3. RecencyInv'
  BY <1>1 DEF FreshInv, RecencyInv
<1>4. HistoryInv'
  <2>1. \A s \in Sessions :
          pc[s] \in {"acquireForRemove", "removeToken"} => token[s] \in Token
    BY DEF FreshInv, IInv, SessionInv
  <2> QED
    BY <1>1, <1>2, <2>1 DEF FreshInv, HistoryInv
<1>5. KeptWhileFresh'
  BY <1>1, <1>2 DEF FreshInv, KeptWhileFresh, IInv, TypeOK
<1> QED
  BY <1>3, <1>4, <1>5 DEF FreshRest

\* The steps of a session that leave cache and history alone.
LEMMA SessionQuietFresh ==
    ASSUME FreshInv, NEW s \in Sessions,
           \/ CreateUserToken(s) \/ PublishUser(s)
           \/ AcquireForCheck(s) \/ AcquireForRemove(s)
           \/ VerifyJwt(s) \/ GetUser(s) \/ Authorize(s)
    PROVE  FreshRest'
<1>1. UNCHANGED <<clock, map_, usedSince>>
  BY DEF CreateUserToken, PublishUser, AcquireForCheck, AcquireForRemove, VerifyJwt,
     GetUser, Authorize
<1>2. pc \in [Sessions -> Control] /\ token \in [Sessions -> Token \cup {NoToken}]
  BY DEF FreshInv, IInv, TypeOK
<1>3. \A r \in Sessions : r # s => pc'[r] = pc[r] /\ token'[r] = token[r]
  BY <1>2 DEF CreateUserToken, PublishUser, AcquireForCheck, AcquireForRemove,
     VerifyJwt, GetUser, Authorize, Goto
<1>4. pc'[s] \in {"acquireForRemove", "removeToken"} => Expired(token'[s], clock)
  BY <1>2 DEF CreateUserToken, PublishUser, AcquireForCheck, AcquireForRemove,
     VerifyJwt, GetUser, Authorize, Goto, FreshInv, HistoryInv
<1> QED
  BY <1>1, <1>3, <1>4, QuietFresh DEF FreshInv, HistoryInv

\* No step breaks FreshInv.
LEMMA NextFresh == FreshInv /\ [Next]_vars => FreshInv'
<1> SUFFICES ASSUME FreshInv, [Next]_vars PROVE FreshRest'
  BY NextInv DEF FreshInv, FreshRest
<1>1. ASSUME NEW s \in Sessions, NEW u \in Users,
             \/ \E matches \in BOOLEAN : QueryUser(s, u, matches)
             \/ \E t \in Token : VerifyRequest(s, u, t)
      PROVE  FreshRest'
  <2>1. UNCHANGED <<clock, map_, usedSince>>
    BY <1>1 DEF QueryUser, VerifyRequest
  <2>2. \A r \in Sessions : pc'[r] \in {"acquireForRemove", "removeToken"} =>
          pc[r] = pc'[r] /\ token[r] = token'[r]
    BY <1>1 DEF QueryUser, VerifyRequest, Goto, FreshInv, IInv, TypeOK
  <2> QED
    BY <2>1, <2>2, QuietFresh DEF FreshInv, HistoryInv
<1>2. ASSUME NEW s \in Sessions, Step(s)
      PROVE  FreshRest'
  BY <1>2, SessionQuietFresh, AcquireForLoginFresh, AddTokenFresh, CheckTokenFresh,
     RemoveTokenFresh DEF Step
<1>3. CASE Tick
  BY <1>3, TickFresh
<1>4. ASSUME NEW u \in Accounts, EditRow(u)
      PROVE  FreshRest'
  BY <1>4, QuietFresh DEF EditRow, FreshInv, HistoryInv
<1>5. CASE UNCHANGED vars
  BY <1>5, QuietFresh DEF vars, FreshInv, HistoryInv
<1> QED
  BY <1>1, <1>2, <1>3, <1>4, <1>5 DEF Next

\* A token that a login added is found by every request until it expires, or
\* until MAX_TOKENS_ other tokens of the same user have been used after it,
\* whatever logins, checks and removals run at the same time.
THEOREM FreshTokenKept == Spec => []KeptWhileFresh
<1>1. FreshInv => KeptWhileFresh
  BY DEF FreshInv
<1> QED
  BY <1>1, InitFresh, NextFresh, PTL DEF Spec

-----------------------------------------------------------------------------
(* The abstract cache. *)

\* The set held for a user changes with the entry of the user.
LEMMA HeldOfEntry ==
    ASSUME IInv, NEW u \in DOMAIN map_, NEW T,
           DOMAIN map_' = DOMAIN map_, map_'[u].index_ = T,
           \A v \in DOMAIN map_ : v # u => map_'[v] = map_[v]
    PROVE  Held[u] = map_[u].index_ /\ Held' = [Held EXCEPT ![u] = T]
<1>1. u \in Users
  BY DEF IInv, TypeOK
<1> QED
  BY <1>1 DEF Held

\* The cache counts as the system does.
LEMMA SameCardinality == \A S : Cache!Cardinality(S) = Cardinality(S)
BY Zenon DEF Cache!Cardinality, Cardinality

\* A login's token is added to the cache.
LEMMA AddTokenAdds ==
    ASSUME FreshInv, NEW s \in Sessions, AddToken(s)
    PROVE  Cache!Next
<1> DEFINE u == user[s]
           t == token[s]
           tokens == map_[u].index_ \cup {t}
           new == add(map_[u], t)
<1>1. /\ u \in DOMAIN map_ /\ u \in Users /\ t \in Token /\ t.sub = u
      /\ WellFormed(map_[u]) /\ Touch(t) /\ clock' = clock
  BY EntriesFromInv DEF FreshInv, IInv, SessionInv, AddToken, Holding, Resting,
     EntriesWellFormed
<1>2. /\ DOMAIN map_' = DOMAIN map_ /\ map_'[u] = new
      /\ \A v \in DOMAIN map_ : v # u => map_'[v] = map_[v]
  BY <1>1 DEF AddToken
<1>3. \A x \in map_[u].index_ :
        x.sub = u /\ x \in DOMAIN usedSince /\ Before(map_[u].lru_list_, x) \subseteq usedSince[x]
  BY <1>1 DEF FreshInv, IInv, GrantedToOwner, RecencyInv
<1>4. /\ Cardinality(tokens) <= MAX_TOKENS => new.index_ = tokens
      /\ ~(Cardinality(tokens) <= MAX_TOKENS) =>
           \E x \in map_[u].index_ \ {t} :
             /\ new.index_ = tokens \ {x}
             /\ tokens \ {x} \subseteq Before(map_[u].lru_list_, x) \cup {t}
  BY <1>1, AddDropsOldest
<1> HIDE DEF u, t, new
<1>5. Held[u] = map_[u].index_ /\ Held' = [Held EXCEPT ![u] = new.index_]
  BY <1>1, <1>2, HeldOfEntry DEF FreshInv
<1>6. Cache!Use(t)
  BY <1>1 DEF Touch, Cache!Use
<1>7. ASSUME ~(Cardinality(tokens) <= MAX_TOKENS)
      PROVE  \E x \in tokens : Cache!Oldest(tokens, x) /\ new.index_ = tokens \ {x}
  <2>1. PICK x \in map_[u].index_ \ {t} :
          /\ new.index_ = tokens \ {x}
          /\ tokens \ {x} \subseteq Before(map_[u].lru_list_, x) \cup {t}
    BY <1>4, <1>7
  <2>2. usedSince'[x] = usedSince[x] \cup {t}
    BY <1>1, <1>3, <2>1, TouchFacts
  <2>3. tokens \ {x} \subseteq usedSince'[x]
    BY <1>3, <2>1, <2>2
  <2> QED
    BY <2>1, <2>3 DEF Cache!Oldest
<1>8. Cache!Add(u, t)
  <2>1. Held[u] \cup {t} = tokens
    BY <1>5
  <2>2. Cache!Cardinality(tokens) = Cardinality(tokens)
    BY SameCardinality
  <2> HIDE DEF tokens
  <2>3. IF Cache!Cardinality(tokens) <= MAX_TOKENS
          THEN Held' = [Held EXCEPT ![u] = tokens]
          ELSE \E x \in tokens :
                 Cache!Oldest(tokens, x) /\ Held' = [Held EXCEPT ![u] = tokens \ {x}]
    BY <1>4, <1>5, <1>7, <2>2
  <2> QED
    BY <1>1, <1>6, <2>1, <2>3 DEF Cache!Add
<1> QED
  BY <1>1, <1>8 DEF Cache!Next, Cache!Token, Token, Cache!SecondOf, SecondOf

\* Every step of the system is one of the cache, or none that it shows.
LEMMA NextCached == FreshInv /\ [Next]_vars => [Cache!Next]_(Cache!cacheVars)
<1> SUFFICES ASSUME FreshInv, [Next]_vars
             PROVE  Cache!Next \/ UNCHANGED <<clock, Held, usedSince>>
  BY DEF Cache!cacheVars
<1>1. ASSUME UNCHANGED <<clock, map_, usedSince>>
      PROVE  UNCHANGED <<clock, Held, usedSince>>
  BY <1>1 DEF Held
<1>2. ASSUME NEW s \in Sessions, AcquireForLogin(s)
      PROVE  UNCHANGED <<clock, Held, usedSince>>
  BY <1>2 DEF AcquireForLogin, InsertEntry, EmptyTokenList, Held
<1>3. ASSUME NEW s \in Sessions, CheckToken(s)
      PROVE  Cache!Next \/ UNCHANGED <<clock, Held, usedSince>>
  <2>1. /\ user[s] \in DOMAIN map_ /\ user[s] \in Users /\ token[s] \in Token
        /\ WellFormed(map_[user[s]]) /\ clock' = clock
    BY <1>3, EntriesFromInv DEF FreshInv, IInv, SessionInv, CheckToken, Holding, Resting,
       EntriesWellFormed
  <2>2. /\ DOMAIN map_' = DOMAIN map_
        /\ map_'[user[s]] = validateAndRefresh(map_[user[s]], token[s])
        /\ \A v \in DOMAIN map_ : v # user[s] => map_'[v] = map_[v]
    BY <1>3, <2>1 DEF CheckToken
  <2>3. map_'[user[s]].index_ = map_[user[s]].index_
    BY <2>1, <2>2, ValidateWellFormed
  <2>4. Held[user[s]] = map_[user[s]].index_ /\ Held' = Held
    BY <2>1, <2>2, <2>3 DEF Held
  <2>5. CASE token[s] \in map_[user[s]].index_
    <3>1. Cache!Validate(user[s], token[s])
      BY <1>3, <2>1, <2>4, <2>5 DEF CheckToken, Touch, Cache!Validate, Cache!Use
    <3> QED
      BY <2>1, <3>1 DEF Cache!Next, Cache!Token, Token, Cache!SecondOf, SecondOf
  <2>6. CASE token[s] \notin map_[user[s]].index_
    BY <1>3, <2>1, <2>4, <2>6 DEF CheckToken
  <2> QED
    BY <2>5, <2>6
<1>4. ASSUME NEW s \in Sessions, RemoveToken(s)
      PROVE  Cache!Next \/ UNCHANGED <<clock, Held, usedSince>>
  <2>1. /\ user[s] \in DOMAIN map_ /\ user[s] \in Users /\ token[s] \in Token
        /\ WellFormed(map_[user[s]]) /\ UNCHANGED <<clock, usedSince>>
        /\ Expired(token[s], clock)
    BY <1>4, EntriesFromInv DEF FreshInv, IInv, SessionInv, HistoryInv, RemoveToken, Holding,
       Resting, EntriesWellFormed
  <2>2. /\ DOMAIN map_' = DOMAIN map_
        /\ map_'[user[s]] = remove(map_[user[s]], token[s])
        /\ \A v \in DOMAIN map_ : v # user[s] => map_'[v] = map_[v]
    BY <1>4, <2>1 DEF RemoveToken
  <2>3. map_'[user[s]].index_ = map_[user[s]].index_ \ {token[s]}
    BY <2>1, <2>2, RemoveWellFormed
  <2>4. /\ Held[user[s]] = map_[user[s]].index_
        /\ Held' = [Held EXCEPT ![user[s]] = map_[user[s]].index_ \ {token[s]}]
    BY <2>1, <2>2, <2>3, HeldOfEntry DEF FreshInv
  <2>5. CASE token[s] \in map_[user[s]].index_
    <3>1. Cache!Drop(user[s], token[s])
      BY <2>1, <2>4, <2>5 DEF Cache!Drop, Cache!Expired, Expired
    <3> QED
      BY <2>1, <3>1 DEF Cache!Next, Cache!Token, Token, Cache!SecondOf, SecondOf
  <2>6. CASE token[s] \notin map_[user[s]].index_
    <3>1. map_'[user[s]].index_ = map_[user[s]].index_
      BY <2>3, <2>6
    <3>2. Held' = Held
      BY <2>1, <2>2, <3>1 DEF Held
    <3> QED
      BY <2>1, <3>2
  <2> QED
    BY <2>5, <2>6
<1>5. ASSUME NEW s \in Sessions, Step(s)
      PROVE  Cache!Next \/ UNCHANGED <<clock, Held, usedSince>>
  <2>1. CASE \/ CreateUserToken(s) \/ PublishUser(s)
             \/ AcquireForCheck(s) \/ AcquireForRemove(s)
             \/ VerifyJwt(s) \/ GetUser(s) \/ Authorize(s)
    BY <1>1, <2>1 DEF CreateUserToken, PublishUser, AcquireForCheck, AcquireForRemove,
       VerifyJwt, GetUser, Authorize
  <2> QED
    BY <1>2, <1>3, <1>4, <1>5, <2>1, AddTokenAdds DEF Step
<1>6. CASE Tick
  <2>1. clock' \in clock + 1 .. MaxClock /\ UNCHANGED <<map_, usedSince>>
    BY <1>6, TokenAssumption DEF Tick, FreshInv, IInv, TypeOK
  <2> QED
    BY <2>1 DEF Cache!Next, Cache!Advance, Held
<1> QED
  BY <1>1, <1>5, <1>6 DEF Next, QueryUser, VerifyRequest, EditRow, vars

\* Logins, checks and removals, with the lists and indexes they work on and
\* however they interleave, are a cache of each user's most recently used tokens.
THEOREM CacheImplemented == Spec => ImplementsTokenCache
<1>1. Init => Cache!Init
  BY DEF Init, Cache!Init, Held
<1> QED
  BY <1>1, InitFresh, NextFresh, NextCached, PTL DEF Spec, ImplementsTokenCache, Cache!Spec
=============================================================================
