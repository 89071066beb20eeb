--------------------------- MODULE SequenceLemmas ---------------------------
(***************************************************************************)
(* Facts about natural numbers and sequences that the proofs of several    *)
(* modules use.                                                            *)
(***************************************************************************)
EXTENDS SequencesExt, Integers, SequenceTheorems, WellFoundedInduction, TLAPS

-----------------------------------------------------------------------------
(* Induction, over the members of a set of naturals. *)

Below == OpToRel(<, Nat)

\* Counting down ends.
LEMMA BelowWellFounded == IsWellFoundedOn(Below, Nat)
BY NatLessThanWellFounded DEF Below

\* What the relation relates.
LEMMA BelowIsLess == \A m, n \in Nat : <<m, n>> \in Below <=> m < n
BY Zenon DEF Below, OpToRel

\* A set of naturals has a least member.
LEMMA LeastNatural ==
    ASSUME NEW T, T \subseteq Nat, T # {}
    PROVE  \E m \in T : \A n \in T : m <= n
<1>1. PICK m \in T : \A n \in T : ~ (<<n, m>> \in Below)
  BY BelowWellFounded, WFMin
<1>2. \A n \in T : ~ (n < m)
  BY <1>1, BelowIsLess, Zenon
<1> QED
  BY <1>2, SMT

\* Induction, for a set S that stands for what is to be shown of a number.  (The
\* induction theorems of the library take it as an operator, which the provers
\* cannot instantiate.)
LEMMA SetInduction ==
    ASSUME NEW S, 0 \in S, \A n \in Nat : n \in S => n + 1 \in S
    PROVE  \A n \in Nat : n \in S
<1> SUFFICES ASSUME Nat \ S # {} PROVE FALSE
  OBVIOUS
<1>1. PICK m \in Nat \ S : \A n \in Nat \ S : m <= n
  BY LeastNatural
<1>2. m - 1 \in Nat /\ m - 1 \in S
  BY <1>1
<1> QED
  BY <1>1, <1>2

-----------------------------------------------------------------------------
(* Sequences with an element replaced, or left out. *)

\* EXCEPT on a sequence, as an operator the provers do not look into.
SetElement(q, k, e) == [q EXCEPT ![k] = e]

\* One element of a sequence replaced.
LEMMA ElementSet ==
    ASSUME NEW S, NEW q \in Seq(S), NEW k \in DOMAIN q, NEW e \in S
    PROVE  /\ SetElement(q, k, e) \in Seq(S)
           /\ Len(SetElement(q, k, e)) = Len(q)
           /\ DOMAIN SetElement(q, k, e) = DOMAIN q
           /\ \A j \in DOMAIN q : SetElement(q, k, e)[j] = IF j = k THEN e ELSE q[j]
<1>1. DOMAIN q = 1 .. Len(q)
  BY LenProperties
<1>2. /\ SetElement(q, k, e) \in Seq(S)
      /\ Len(SetElement(q, k, e)) = Len(q)
      /\ \A j \in 1 .. Len(q) : SetElement(q, k, e)[j] = IF j = k THEN e ELSE q[j]
  BY <1>1, ExceptSeq DEF SetElement
<1> QED
  BY <1>1, <1>2, LenProperties

\* One element taken out: those after it move up.
LEMMA ElementRemoved ==
    ASSUME NEW S, NEW q \in Seq(S), NEW k \in DOMAIN q
    PROVE  /\ RemoveAt(q, k) \in Seq(S)
           /\ Len(RemoveAt(q, k)) = Len(q) - 1
           /\ DOMAIN RemoveAt(q, k) = 1 .. Len(q) - 1
           /\ \A j \in 1 .. Len(q) - 1 : RemoveAt(q, k)[j] = IF j < k THEN q[j] ELSE q[j + 1]
<1> DEFINE a == SubSeq(q, 1, k - 1)
           b == SubSeq(q, k + 1, Len(q))
<1>1. Len(q) \in Nat /\ DOMAIN q = 1 .. Len(q) /\ \A i \in 1 .. Len(q) : q[i] \in S
  BY LenProperties, ElementOfSeq
<1>2. k \in 1 .. Len(q) /\ k - 1 \in Int /\ k + 1 \in Int /\ Len(q) \in Int
  BY <1>1
<1>3. /\ a \in Seq(S) /\ Len(a) = k - 1
      /\ \A i \in 1 .. k - 1 : a[i] = q[i]
  <2>1. \A i \in 1 .. k - 1 : q[i] \in S
    BY <1>1, <1>2
  <2>2. /\ a \in Seq(S) /\ Len(a) = IF 1 <= k - 1 THEN k - 1 - 1 + 1 ELSE 0
        /\ \A i \in 1 .. k - 1 - 1 + 1 : a[i] = q[1 + i - 1]
    BY <1>2, <2>1, SubSeqProperties
  <2> QED
    BY <1>2, <2>2
<1>4. /\ b \in Seq(S) /\ Len(b) = Len(q) - k
      /\ \A i \in 1 .. Len(q) - k : b[i] = q[k + i]
  <2>1. \A i \in k + 1 .. Len(q) : q[i] \in S
    BY <1>1, <1>2
  <2>2. /\ b \in Seq(S)
        /\ Len(b) = IF k + 1 <= Len(q) THEN Len(q) - (k + 1) + 1 ELSE 0
        /\ \A i \in 1 .. Len(q) - (k + 1) + 1 : b[i] = q[(k + 1) + i - 1]
    BY <1>2, <2>1, SubSeqProperties
  <2> QED
    BY <1>2, <2>2
<1>5. RemoveAt(q, k) = a \o b
  BY DEF RemoveAt
<1> HIDE DEF a, b
<1>6. /\ a \o b \in Seq(S) /\ Len(a \o b) = Len(a) + Len(b)
      /\ \A i \in 1 .. Len(a) + Len(b) : (a \o b)[i] = IF i <= Len(a) THEN a[i] ELSE b[i - Len(a)]
  BY <1>3, <1>4, ConcatProperties
<1>7. Len(a) + Len(b) = Len(q) - 1
  BY <1>2, <1>3, <1>4
<1>8. ASSUME NEW j \in 1 .. Len(q) - 1
      PROVE  (a \o b)[j] = IF j < k THEN q[j] ELSE q[j + 1]
  <2>1. CASE j < k
    BY <1>2, <1>3, <1>6, <1>7, <2>1
  <2>2. CASE ~(j < k)
    <3>1. j - Len(a) \in 1 .. Len(q) - k /\ k + (j - Len(a)) = j + 1
      BY <1>2, <1>3, <2>2
    <3>2. (a \o b)[j] = b[j - Len(a)]
      BY <1>2, <1>3, <1>6, <1>7, <2>2
    <3> QED
      BY <1>4, <2>2, <3>1, <3>2
  <2> QED
    BY <2>1, <2>2
<1>9. DOMAIN (a \o b) = 1 .. Len(q) - 1
  BY <1>6, <1>7, LenProperties
<1> QED
  BY <1>5, <1>6, <1>7, <1>8, <1>9

-----------------------------------------------------------------------------
(* The order of a sequence, as a set of pairs: queues are reasoned about by *)
(* what is in them and what is in front of what.                            *)

InOrder(q) ==
    {p \in ToSet(q) \X ToSet(q) : \E i, j \in DOMAIN q : i < j /\ p = <<q[i], q[j]>>}

\* Members and domain of a sequence.
LEMMA MembersOf ==
    ASSUME NEW S, NEW q \in Seq(S)
    PROVE  /\ Len(q) \in Nat /\ DOMAIN q = 1 .. Len(q)
           /\ ToSet(q) = {q[i] : i \in 1 .. Len(q)}
           /\ ToSet(q) \subseteq S
<1>1. Len(q) \in Nat /\ DOMAIN q = 1 .. Len(q) /\ \A i \in 1 .. Len(q) : q[i] \in S
  BY LenProperties, ElementOfSeq
<1> QED
  BY <1>1 DEF ToSet

\* What is put behind another sequence comes after all of it.
LEMMA OrderOfConcat ==
    ASSUME NEW S, NEW q \in Seq(S), NEW r \in Seq(S)
    PROVE  /\ q \o r \in Seq(S)
           /\ ToSet(q \o r) = ToSet(q) \cup ToSet(r)
           /\ InOrder(q \o r) \subseteq InOrder(q) \cup InOrder(r) \cup (ToSet(q) \X ToSet(r))
<1> DEFINE c == q \o r
           m == Len(q)
           n == Len(r)
<1>1. /\ m \in Nat /\ DOMAIN q = 1 .. m /\ ToSet(q) = {q[i] : i \in 1 .. m}
      /\ n \in Nat /\ DOMAIN r = 1 .. n /\ ToSet(r) = {r[i] : i \in 1 .. n}
  BY MembersOf
<1>2. /\ c \in Seq(S) /\ Len(c) = m + n
      /\ \A i \in 1 .. m + n : c[i] = IF i <= m THEN q[i] ELSE r[i - m]
  BY ConcatProperties
<1> HIDE DEF c, m, n
<1>3. DOMAIN c = 1 .. m + n /\ ToSet(c) = {c[i] : i \in 1 .. m + n}
  BY <1>2, MembersOf
<1>4. /\ \A i \in 1 .. m : i \in 1 .. m + n /\ c[i] = q[i]
      /\ \A i \in 1 .. n : m + i \in 1 .. m + n /\ c[m + i] = r[i]
      /\ \A i \in 1 .. m + n : i \in 1 .. m \/ (i - m \in 1 .. n /\ i = m + (i - m))
  BY <1>1, <1>2
<1>5. ToSet(c) = ToSet(q) \cup ToSet(r)
  <2>1. ToSet(c) \subseteq ToSet(q) \cup ToSet(r)
    BY <1>1, <1>2, <1>3, <1>4
  <2>2. ToSet(q) \subseteq ToSet(c) /\ ToSet(r) \subseteq ToSet(c)
    BY <1>1, <1>3, <1>4
  <2> QED
    BY <2>1, <2>2
<1>6. ASSUME NEW i \in 1 .. m + n, NEW j \in 1 .. m + n, i < j
      PROVE  <<c[i], c[j]>> \in InOrder(q) \cup InOrder(r) \cup (ToSet(q) \X ToSet(r))
  <2>1. CASE j \in 1 .. m
    <3>1. i \in 1 .. m /\ c[i] = q[i] /\ c[j] = q[j]
      BY <1>1, <1>4, <1>6, <2>1
    <3> QED
      BY <1>1, <1>6, <2>1, <3>1 DEF InOrder
  <2>2. CASE i \in 1 .. m /\ j \notin 1 .. m
    <3>1. c[i] = q[i] /\ j - m \in 1 .. n /\ c[j] = r[j - m]
      BY <1>4, <2>2
    <3> QED
      BY <1>1, <2>2, <3>1
  <2>3. CASE i \notin 1 .. m /\ j \notin 1 .. m
    <3>1. i - m \in 1 .. n /\ c[i] = r[i - m] /\ j - m \in 1 .. n /\ c[j] = r[j - m]
      BY <1>4, <2>3
    <3>2. i - m < j - m
      BY <1>1, <1>6
    <3> QED
      BY <1>1, <3>1, <3>2 DEF InOrder
  <2> QED
    BY <2>1, <2>2, <2>3
<1>7. InOrder(c) \subseteq InOrder(q) \cup InOrder(r) \cup (ToSet(q) \X ToSet(r))
  BY <1>3, <1>6 DEF InOrder
<1> QED
  BY <1>2, <1>5, <1>7 DEF c

\* So does an element appended.
LEMMA OrderOfAppend ==
    ASSUME NEW S, NEW q \in Seq(S), NEW e \in S
    PROVE  /\ Append(q, e) \in Seq(S)
           /\ ToSet(Append(q, e)) = ToSet(q) \cup {e}
           /\ InOrder(Append(q, e)) \subseteq InOrder(q) \cup (ToSet(q) \X {e})
<1>1. /\ Append(q, e) \in Seq(S) /\ Len(Append(q, e)) = Len(q) + 1
      /\ Append(q, e)[Len(q) + 1] = e
      /\ \A i \in 1 .. Len(q) : Append(q, e)[i] = q[i]
  BY AppendProperties
<1>2. Len(q) \in Nat /\ DOMAIN q = 1 .. Len(q) /\ ToSet(q) = {q[i] : i \in 1 .. Len(q)}
  BY MembersOf
<1> DEFINE a == Append(q, e)
<1> HIDE DEF a
<1>3. DOMAIN a = 1 .. Len(q) + 1 /\ ToSet(a) = {a[i] : i \in 1 .. Len(q) + 1}
  BY <1>1, MembersOf DEF a
<1>4. a[Len(q) + 1] = e /\ \A i \in 1 .. Len(q) : a[i] = q[i]
  BY <1>1 DEF a
<1>5. \A i \in 1 .. Len(q) + 1 : i \in 1 .. Len(q) \/ i = Len(q) + 1
  BY <1>2
<1>6. ToSet(a) = ToSet(q) \cup {e}
  BY <1>2, <1>3, <1>4, <1>5
<1>7. ASSUME NEW i \in 1 .. Len(q) + 1, NEW j \in 1 .. Len(q) + 1, i < j
      PROVE  <<a[i], a[j]>> \in InOrder(q) \cup (ToSet(q) \X {e})
  <2>1. i \in 1 .. Len(q) /\ a[i] = q[i]
    BY <1>2, <1>4, <1>7
  <2>2. CASE j = Len(q) + 1
    BY <1>2, <1>4, <2>1, <2>2
  <2>3. CASE j \in 1 .. Len(q)
    BY <1>2, <1>4, <1>7, <2>1, <2>3 DEF InOrder
  <2> QED
    BY <1>5, <2>2, <2>3
<1>8. InOrder(a) \subseteq InOrder(q) \cup (ToSet(q) \X {e})
  BY <1>3, <1>7 DEF InOrder
<1> QED
  BY <1>1, <1>6, <1>8 DEF a

\* The head is in front of everything else.
LEMMA OrderOfTail ==
    ASSUME NEW S, NEW q \in Seq(S), q # <<>>
    PROVE  /\ Head(q) \in S /\ Tail(q) \in Seq(S)
           /\ ToSet(q) = {Head(q)} \cup ToSet(Tail(q))
           /\ InOrder(Tail(q)) \subseteq InOrder(q)
           /\ \A e \in ToSet(Tail(q)) : <<Head(q), e>> \in InOrder(q)
<1> DEFINE t == Tail(q)
           n == Len(q)
<1>1. /\ n \in Nat /\ DOMAIN q = 1 .. n /\ ToSet(q) = {q[i] : i \in 1 .. n}
      /\ n # 0
  BY MembersOf, EmptySeq
<1>2. /\ t \in Seq(S) /\ Len(t) = n - 1 /\ Head(q) = q[1] /\ Head(q) \in S
      /\ \A i \in 1 .. n - 1 : t[i] = q[i + 1]
  BY HeadTailProperties, ElementOfSeq
<1> HIDE DEF t, n
<1>3. DOMAIN t = 1 .. n - 1 /\ ToSet(t) = {t[i] : i \in 1 .. n - 1}
  BY <1>2, MembersOf
<1>4. /\ \A i \in 1 .. n - 1 : i + 1 \in 1 .. n /\ 1 < i + 1 /\ t[i] = q[i + 1]
      /\ \A i \in 1 .. n : i = 1 \/ (i - 1 \in 1 .. n - 1 /\ t[i - 1] = q[i])
      /\ 1 \in 1 .. n
  BY <1>1, <1>2
<1>5. ToSet(q) = {q[1]} \cup ToSet(t)
  <2>1. ToSet(q) \subseteq {q[1]} \cup ToSet(t)
    BY <1>1, <1>3, <1>4
  <2>2. {q[1]} \cup ToSet(t) \subseteq ToSet(q)
    BY <1>1, <1>3, <1>4
  <2> QED
    BY <2>1, <2>2
<1>6. ASSUME NEW i \in 1 .. n - 1, NEW j \in 1 .. n - 1, i < j
      PROVE  <<t[i], t[j]>> \in InOrder(q)
  <2>1. i + 1 \in 1 .. n /\ j + 1 \in 1 .. n /\ i + 1 < j + 1
    BY <1>1, <1>6
  <2> QED
    BY <1>1, <1>4, <2>1 DEF InOrder
<1>7. InOrder(t) \subseteq InOrder(q)
  BY <1>3, <1>6 DEF InOrder
<1>8. ASSUME NEW i \in 1 .. n - 1
      PROVE  <<q[1], t[i]>> \in InOrder(q)
  <2>1. /\ 1 \in DOMAIN q /\ i + 1 \in DOMAIN q /\ 1 < i + 1 /\ t[i] = q[i + 1]
        /\ q[1] \in ToSet(q) /\ q[i + 1] \in ToSet(q)
    BY <1>1, <1>4
  <2> QED
    BY ONLY <2>1 DEF InOrder
<1>9. \A e \in ToSet(t) : <<q[1], e>> \in InOrder(q)
  BY <1>3, <1>8
<1> QED
  BY <1>2, <1>5, <1>7, <1>9 DEF t

-----------------------------------------------------------------------------
(* Sequences of numbers: the first ones, or increasing ones. *)

FirstNumbers(n) == [i \in 1 .. n |-> i]

LEMMA FirstNumbersAre ==
    ASSUME NEW S, NEW n \in Nat, 1 .. n \subseteq S
    PROVE  /\ FirstNumbers(n) \in Seq(S) /\ Len(FirstNumbers(n)) = n
           /\ n = 0 => FirstNumbers(n) = <<>>
<1> DEFINE q == FirstNumbers(n)
<1>1. q \in [1 .. n -> S]
  BY DEF FirstNumbers
<1> HIDE DEF q
<1>2. q \in Seq(S) /\ Len(q) = n
  BY <1>1
<1>3. n = 0 => q = <<>>
  BY <1>2, EmptySeq
<1> QED
  BY <1>2, <1>3 DEF q

\* One number more.
LEMMA NumberAppended ==
    ASSUME NEW S, NEW q \in Seq(S), q = FirstNumbers(Len(q)), Len(q) + 1 \in S
    PROVE  /\ Len(q) \in Nat
           /\ Append(q, Len(q) + 1) \in Seq(S)
           /\ Len(Append(q, Len(q) + 1)) = Len(q) + 1
           /\ Append(q, Len(q) + 1) # <<>>
           /\ Append(q, Len(q) + 1) = FirstNumbers(Len(q) + 1)
<1> DEFINE n == Len(q)
           a == Append(q, n + 1)
<1>1. n \in Nat
  BY LenProperties
<1>2. /\ a \in Seq(S) /\ Len(a) = n + 1 /\ a[n + 1] = n + 1
      /\ \A i \in 1 .. n : a[i] = q[i]
  BY AppendProperties
<1>3. a \in [1 .. Len(a) -> S]
  BY <1>2, LenProperties
<1>4. \A i \in 1 .. n : q[i] = i
  BY DEF FirstNumbers
<1> HIDE DEF n, a
<1>5. \A i \in 1 .. n + 1 : a[i] = i
  BY <1>1, <1>2, <1>4
<1>6. a = FirstNumbers(n + 1)
  BY <1>2, <1>3, <1>5 DEF FirstNumbers
<1>7. a # <<>>
  BY <1>1, <1>2, EmptySeq
<1> QED
  BY <1>1, <1>2, <1>6, <1>7 DEF a, n

Increasing(q) == \A i, j \in 1 .. Len(q) : i < j => q[i] < q[j]
AtMost(q, n) == \A i \in 1 .. Len(q) : q[i] <= n

\* The beginning of first numbers, or of increasing ones, is that too.
LEMMA BeginningOf ==
    ASSUME NEW S, NEW q \in Seq(S), NEW r \in Seq(S)
    PROVE  /\ q \o r = FirstNumbers(Len(q \o r)) => q = FirstNumbers(Len(q))
           /\ Increasing(q \o r) => Increasing(q)
<1> DEFINE c == q \o r
           m == Len(q)
           n == Len(r)
<1>1. /\ Len(c) = m + n /\ m \in Nat /\ n \in Nat
      /\ \A i \in 1 .. m + n : c[i] = IF i <= m THEN q[i] ELSE r[i - m]
      /\ q \in [1 .. m -> S]
  BY ConcatProperties, LenProperties
<1> HIDE DEF c, m, n
<1>2. \A i \in 1 .. m : i \in 1 .. m + n /\ c[i] = q[i]
  BY <1>1
<1>3. ASSUME c = FirstNumbers(Len(c)) PROVE q = FirstNumbers(m)
  <2>1. \A i \in 1 .. m : q[i] = i
    BY <1>1, <1>2, <1>3 DEF FirstNumbers
  <2> QED
    BY <1>1, <2>1 DEF FirstNumbers
<1>4. ASSUME Increasing(c) PROVE Increasing(q)
  BY <1>1, <1>2, <1>4 DEF Increasing, m
<1> QED
  BY <1>3, <1>4 DEF c, m

\* Increasing numbers stay so when some in the middle are left out.
LEMMA MiddleLeftOut ==
    ASSUME NEW S, NEW a \in Seq(S), NEW b \in Seq(S), NEW c \in Seq(S), NEW k,
           Increasing((a \o b) \o c), AtMost((a \o b) \o c, k)
    PROVE  Increasing(a \o c) /\ AtMost(a \o c, k)
<1> DEFINE ab == a \o b
           all == ab \o c
           ac == a \o c
           l == Len(a)
           m == Len(b)
           n == Len(c)
<1>1. /\ ab \in Seq(S) /\ Len(ab) = l + m
      /\ \A i \in 1 .. l + m : ab[i] = IF i <= l THEN a[i] ELSE b[i - l]
      /\ l \in Nat /\ m \in Nat /\ n \in Nat
  BY ConcatProperties, LenProperties
<1>2. Len(ac) = l + n /\ \A i \in 1 .. l + n : ac[i] = IF i <= l THEN a[i] ELSE c[i - l]
  BY ConcatProperties
<1> HIDE DEF ab, ac
<1>3. /\ Len(all) = Len(ab) + n
      /\ \A i \in 1 .. Len(ab) + n : all[i] = IF i <= Len(ab) THEN ab[i] ELSE c[i - Len(ab)]
  <2>1. ab \in Seq(S) /\ c \in Seq(S)
    BY <1>1
  <2>2. /\ Len(ab \o c) = Len(ab) + Len(c)
        /\ \A i \in 1 .. Len(ab) + Len(c) :
             (ab \o c)[i] = IF i <= Len(ab) THEN ab[i] ELSE c[i - Len(ab)]
    BY ONLY <2>1, ConcatProperties
  <2> QED
    BY <2>2
<1> HIDE DEF all, l, m, n
<1> DEFINE at(i) == IF i <= l THEN i ELSE i + m
<1>4. ASSUME NEW i \in 1 .. l + n
      PROVE  at(i) \in 1 .. Len(all) /\ ac[i] = all[at(i)]
  <2>1. CASE i <= l
    <3>1. i \in 1 .. l + m /\ i \in 1 .. Len(ab) + n /\ i <= Len(ab)
      BY <1>1, <2>1
    <3>2. ab[i] = a[i] /\ ac[i] = a[i]
      BY <1>1, <1>2, <2>1, <3>1
    <3> QED
      BY <1>3, <2>1, <3>1, <3>2
  <2>2. CASE ~(i <= l)
    <3>1. i + m \in 1 .. Len(ab) + n /\ ~(i + m <= Len(ab)) /\ i + m - Len(ab) = i - l
      BY <1>1, <2>2
    <3> QED
      BY <1>1, <1>2, <1>3, <2>2, <3>1
  <2> QED
    BY <2>1, <2>2
<1>5. \A i, j \in 1 .. l + n : i < j => at(i) < at(j)
  BY <1>1
<1>6. Increasing(all) /\ AtMost(all, k)
  BY DEF all, ab
<1> HIDE DEF at
<1>7. Increasing(ac)
  BY <1>2, <1>4, <1>5, <1>6 DEF Increasing
<1>8. AtMost(ac, k)
  BY <1>2, <1>4, <1>6 DEF AtMost
<1> QED
  BY <1>7, <1>8 DEF ac

\* A number above all others is put behind them.
LEMMA GreaterAppended ==
    ASSUME NEW S \in SUBSET Nat, NEW q \in Seq(S), NEW k \in Nat, k + 1 \in S,
           Increasing(q), AtMost(q, k)
    PROVE  Increasing(Append(q, k + 1)) /\ AtMost(Append(q, k + 1), k + 1)
<1> DEFINE a == Append(q, k + 1)
           n == Len(q)
<1>1. /\ Len(a) = n + 1 /\ n \in Nat /\ a[n + 1] = k + 1
      /\ \A i \in 1 .. n : a[i] = q[i] /\ q[i] \in Nat
  <2>1. /\ Len(a) = n + 1 /\ a[n + 1] = k + 1
        /\ \A i \in 1 .. n : a[i] = q[i]
    BY AppendProperties
  <2>2. n \in Nat /\ \A i \in 1 .. n : q[i] \in S
    BY LenProperties, ElementOfSeq
  <2>3. S \subseteq Nat
    OBVIOUS
  <2> QED
    BY <2>1, <2>2, <2>3
<1>2. \A i \in 1 .. n : q[i] <= k
  BY DEF AtMost
<1> HIDE DEF a
<1>3. \A i \in 1 .. n + 1 : i \in 1 .. n \/ i = n + 1
  BY <1>1
<1>4. AtMost(a, k + 1)
  BY <1>1, <1>2, <1>3 DEF AtMost
<1>5. ASSUME NEW i \in 1 .. n + 1, NEW j \in 1 .. n + 1, i < j
      PROVE  a[i] < a[j]
  <2>1. i \in 1 .. n
    BY <1>1, <1>5
  <2>2. CASE j \in 1 .. n
    BY <1>1, <1>5, <2>1, <2>2 DEF Increasing, n
  <2>3. CASE j = n + 1
    BY <1>1, <1>2, <2>1, <2>3
  <2> QED
    BY <1>3, <2>2, <2>3
<1>6. Increasing(a)
  BY <1>1, <1>5 DEF Increasing
<1> QED
  BY <1>4, <1>6 DEF a

\* Appending to the second of two sequences in a row.
LEMMA AppendOfConcat ==
    ASSUME NEW S, NEW a \in Seq(S), NEW b \in Seq(S), NEW e \in S
    PROVE  a \o Append(b, e) = Append(a \o b, e)
<1>1. <<e>> \in Seq(S) /\ a \o b \in Seq(S)
  BY ConcatProperties
<1>2. Append(b, e) = b \o <<e>> /\ Append(a \o b, e) = (a \o b) \o <<e>>
  BY <1>1, AppendIsConcat
<1> QED
  BY <1>1, <1>2, ConcatAssociative

\* Moving the head of the second to the end of the first.
LEMMA HeadMoved ==
    ASSUME NEW S, NEW a \in Seq(S), NEW b \in Seq(S), b # <<>>
    PROVE  /\ Head(b) \in S /\ Tail(b) \in Seq(S) /\ Append(a, Head(b)) \in Seq(S)
           /\ Append(a, Head(b)) \o Tail(b) = a \o b
<1>1. /\ Head(b) \in S /\ Tail(b) \in Seq(S)
      /\ Len(Tail(b)) = Len(b) - 1 /\ \A i \in 1 .. Len(b) - 1 : Tail(b)[i] = b[i + 1]
  BY HeadTailProperties
<1> DEFINE h == Head(b)
           r == Tail(b)
           n == Len(b)
<1>2. h \in S /\ r \in Seq(S) /\ <<h>> \in Seq(S) /\ h = b[1] /\ Len(<<h>>) = 1 /\ <<h>>[1] = h
      /\ n \in Nat /\ Len(r) = n - 1 /\ \A i \in 1 .. n - 1 : r[i] = b[i + 1]
  BY <1>1, HeadTailProperties, LenProperties
<1> HIDE DEF h, r, n
<1>5. b = <<h>> \o r
  <2> DEFINE c == <<h>> \o r
  <2>1. /\ c \in Seq(S) /\ Len(c) = 1 + (n - 1)
        /\ \A i \in 1 .. 1 + (n - 1) : c[i] = IF i <= 1 THEN <<h>>[i] ELSE r[i - 1]
    BY <1>2, ConcatProperties
  <2> HIDE DEF c
  <2>2. Len(c) = Len(b) /\ \A i \in 1 .. Len(b) : c[i] = b[i]
    BY <1>2, <2>1 DEF n
  <2>3. b = c
    BY <2>1, <2>2, SeqEqual
  <2> QED
    BY <2>3 DEF c
<1>3. Append(a, h) \in Seq(S) /\ Append(a, h) = a \o <<h>>
  BY <1>2, AppendProperties, AppendIsConcat
<1>4. (a \o <<h>>) \o r = a \o b
  BY <1>2, <1>5, ConcatAssociative
<1> QED
  BY <1>2, <1>3, <1>4 DEF h, r

-----------------------------------------------------------------------------
(* Recursive functions: sequences made or taken step by step. *)

\* The values h[0] .. h[n] are those of a recursion: b, and what G makes of the last.
Recurs(h, b, G, n) == h[0] = b /\ \A i \in 1 .. n : h[i] = G[i][h[i - 1]]

\* Every recursion of n steps has such values.
LEMMA Recursion ==
    ASSUME NEW V, NEW b \in V, NEW n \in Nat, NEW G \in [1 .. n -> [V -> V]]
    PROVE  \E h \in [0 .. n -> V] : Recurs(h, b, G, n)
<1> DEFINE S == {m \in Nat : m <= n => \E h \in [0 .. m -> V] : Recurs(h, b, G, m)}
<1>1. 0 \in S
  <2> DEFINE h == [i \in 0 .. 0 |-> b]
  <2>1. h \in [0 .. 0 -> V] /\ Recurs(h, b, G, 0)
    BY DEF Recurs
  <2>2. \E g \in [0 .. 0 -> V] : Recurs(g, b, G, 0)
    BY <2>1
  <2> QED
    BY <2>2
<1>2. ASSUME NEW m \in Nat, m \in S PROVE m + 1 \in S
  <2> SUFFICES ASSUME m + 1 <= n PROVE \E h \in [0 .. m + 1 -> V] : Recurs(h, b, G, m + 1)
    OBVIOUS
  <2>1. PICK h \in [0 .. m -> V] : Recurs(h, b, G, m)
    BY <1>2
  <2> DEFINE v == G[m + 1][h[m]]
             k == [i \in 0 .. m + 1 |-> IF i = m + 1 THEN v ELSE h[i]]
  <2>2. v \in V
    <3>1. m + 1 \in 1 .. n /\ h[m] \in V
      OBVIOUS
    <3> QED
      BY <3>1
  <2>3. k[m + 1] = v /\ \A i \in 0 .. m : k[i] = h[i]
    OBVIOUS
  <2>4. k \in [0 .. m + 1 -> V]
    <3> HIDE DEF v
    <3> QED
      BY <2>1, <2>2
  <2> HIDE DEF k
  <2>5. ASSUME NEW i \in 1 .. m + 1 PROVE k[i] = G[i][k[i - 1]]
    <3>1. CASE i = m + 1
      <4>1. i - 1 = m /\ k[i - 1] = h[m]
        BY <2>3, <3>1
      <4> QED
        BY <2>3, <3>1, <4>1
    <3>2. CASE i # m + 1
      <4>1. i \in 1 .. m /\ k[i] = h[i] /\ k[i - 1] = h[i - 1]
        BY <2>3, <3>2
      <4> QED
        BY <2>1, <4>1 DEF Recurs
    <3> QED
      BY <3>1, <3>2
  <2>6. k[0] = b
    BY <2>1, <2>3 DEF Recurs
  <2> QED
    BY <2>4, <2>5, <2>6 DEF Recurs
<1> HIDE DEF S
<1>3. \A m \in Nat : m \in S
  BY <1>1, <1>2, SetInduction
<1> QED
  BY <1>3 DEF S

\* The first n sequences of a sequence of them, one after the other.
FlattenedTo(seqs, n) == FlattenSeq([i \in 1 .. n |-> seqs[i]])

FlattenStep(seqs, h, i) == IF i = 1 THEN seqs[i] ELSE h[i - 1] \o seqs[i]

\* FlattenSeq for some sequences is a recursive function that there is.
LEMMA FlattenedBy ==
    ASSUME NEW S, NEW seqs \in Seq(Seq(S)), NEW n \in 1 .. Len(seqs)
    PROVE  \E h \in [1 .. n -> Seq(S)] :
             /\ h = [i \in 1 .. n |-> FlattenStep(seqs, h, i)]
             /\ FlattenedTo(seqs, n) = h[n]
<1> DEFINE q == [i \in 1 .. n |-> seqs[i]]
           g == CHOOSE h : h = [i \in 1 .. n |-> IF i = 1 THEN q[i] ELSE h[i - 1] \o q[i]]
           k == CHOOSE h : h = [i \in 1 .. n |-> FlattenStep(seqs, h, i)]
<1>1. n \in Nat /\ n >= 1 /\ \A i \in 1 .. n : seqs[i] \in Seq(S)
  BY LenProperties, ElementOfSeq
<1>2. Len(q) = n
  BY <1>1
<1>3. FlattenedTo(seqs, n) = g[n]
  BY <1>1, <1>2 DEF FlattenedTo, FlattenSeq
<1>4. \A h : [i \in 1 .. n |-> IF i = 1 THEN q[i] ELSE h[i - 1] \o q[i]]
               = [i \in 1 .. n |-> FlattenStep(seqs, h, i)]
  BY DEF FlattenStep
<1>5. g = k
  BY <1>4
<1> DEFINE G == [i \in 1 .. n |-> [r \in Seq(S) |-> r \o seqs[i]]]
<1>6. G \in [1 .. n -> [Seq(S) -> Seq(S)]]
  <2>1. \A i \in 1 .. n, r \in Seq(S) : r \o seqs[i] \in Seq(S)
    BY <1>1, ConcatProperties
  <2> QED
    BY <2>1
<1>7. \A i \in 1 .. n, r \in Seq(S) : G[i][r] = r \o seqs[i]
  OBVIOUS
<1> HIDE DEF G, q, g, k
<1>8. PICK f \in [0 .. n -> Seq(S)] :
        f[0] = <<>> /\ \A i \in 1 .. n : f[i] = G[i][f[i - 1]]
  <2> DEFINE V == Seq(S)
             b == <<>>
  <2>1. b \in V /\ G \in [1 .. n -> [V -> V]] /\ n \in Nat
    BY <1>1, <1>6
  <2> HIDE DEF V, b
  <2>2. \E f \in [0 .. n -> V] : Recurs(f, b, G, n)
    BY <2>1, Recursion
  <2> QED
    BY <2>2 DEF V, b, Recurs
<1>9. ASSUME NEW i \in 1 .. n
      PROVE  i - 1 \in 0 .. n /\ f[i - 1] \in Seq(S) /\ f[i] = f[i - 1] \o seqs[i]
  <2>1. i - 1 \in 0 .. n
    BY <1>1
  <2>2. f[i - 1] \in Seq(S)
    BY <2>1
  <2> QED
    BY <1>7, <1>8, <2>1, <2>2
<1> DEFINE h == [i \in 1 .. n |-> f[i]]
<1>10. ASSUME NEW i \in 1 .. n PROVE h[i] = FlattenStep(seqs, h, i)
  <2>1. h[i] = f[i]
    OBVIOUS
  <2>2. CASE i = 1
    <3>1. f[i] = <<>> \o seqs[i] /\ seqs[i] \in Seq(S)
      <4>1. i - 1 = 0
        BY <2>2
      <4> HIDE DEF h
      <4> QED
        BY <1>1, <1>8, <1>9, <4>1
    <3>2. <<>> \o seqs[i] = seqs[i]
      BY <3>1, ConcatEmptySeq
    <3> HIDE DEF h
    <3> QED
      BY <2>1, <2>2, <3>1, <3>2 DEF FlattenStep
  <2>3. CASE i # 1
    <3>1. i - 1 \in 1 .. n
      BY <1>1, <2>3
    <3>2. h[i - 1] = f[i - 1]
      BY <3>1
    <3> HIDE DEF h
    <3> QED
      BY <1>9, <2>1, <2>3, <3>2 DEF FlattenStep
  <2> QED
    BY <2>2, <2>3
<1>11. h \in [1 .. n -> Seq(S)]
  <2>1. \A i \in 1 .. n : i \in 0 .. n
    BY <1>1
  <2> QED
    BY <2>1
<1>12. h = [i \in 1 .. n |-> FlattenStep(seqs, h, i)]
  BY <1>10
<1> HIDE DEF h
<1>13. k = [i \in 1 .. n |-> FlattenStep(seqs, k, i)]
  BY <1>12, Zenon DEF k
<1>14. \A i \in 1 .. n : k[i] = FlattenStep(seqs, k, i)
  BY <1>13
<1>15. ASSUME NEW i \in 1 .. n PROVE k[i] \in Seq(S)
  <2> DEFINE T == {j \in Nat : j \in 1 .. n => k[j] \in Seq(S)}
  <2>1. 0 \in T
    OBVIOUS
  <2>2. ASSUME NEW j \in Nat, j \in T PROVE j + 1 \in T
    <3> SUFFICES ASSUME j + 1 \in 1 .. n PROVE k[j + 1] \in Seq(S)
      OBVIOUS
    <3>1. k[j + 1] = FlattenStep(seqs, k, j + 1)
      BY <1>14
    <3>2. CASE j = 0
      BY <1>1, <3>1, <3>2 DEF FlattenStep
    <3>3. CASE j # 0
      <4>1. j \in 1 .. n /\ j + 1 # 1 /\ (j + 1) - 1 = j
        BY <1>1, <3>3
      <4>2. k[j] \in Seq(S)
        BY <2>2, <4>1
      <4>3. k[j + 1] = k[j] \o seqs[j + 1]
        BY <3>1, <4>1 DEF FlattenStep
      <4> QED
        BY <1>1, <4>2, <4>3, ConcatProperties
    <3> QED
      BY <3>2, <3>3
  <2> HIDE DEF T
  <2>3. \A j \in Nat : j \in T
    BY <2>1, <2>2, SetInduction
  <2> QED
    BY <2>3 DEF T
<1>16. k \in [1 .. n -> Seq(S)]
  BY <1>13, <1>15
<1> QED
  BY <1>3, <1>5, <1>13, <1>16

\* FlattenedTo takes one sequence after the other.
LEMMA Flattening ==
    ASSUME NEW S, NEW seqs \in Seq(Seq(S))
    PROVE  /\ FlattenedTo(seqs, 0) = <<>>
           /\ FlattenedTo(seqs, Len(seqs)) = FlattenSeq(seqs)
           /\ \A n \in 0 .. Len(seqs) : FlattenedTo(seqs, n) \in Seq(S)
           /\ \A n \in 1 .. Len(seqs) :
                FlattenedTo(seqs, n) = FlattenedTo(seqs, n - 1) \o seqs[n]
<1>1. /\ Len(seqs) \in Nat /\ seqs = [i \in 1 .. Len(seqs) |-> seqs[i]]
      /\ \A i \in 1 .. Len(seqs) : seqs[i] \in Seq(S)
  BY LenProperties, ElementOfSeq
<1>2. FlattenedTo(seqs, Len(seqs)) = FlattenSeq(seqs)
  BY <1>1 DEF FlattenedTo
<1>3. FlattenedTo(seqs, 0) = <<>>
  <2> DEFINE q == [i \in 1 .. 0 |-> seqs[i]]
  <2>1. q = <<>> /\ Len(q) = 0
    OBVIOUS
  <2> HIDE DEF q
  <2>2. FlattenSeq(q) = q
    BY <2>1 DEF FlattenSeq
  <2> QED
    BY <2>1, <2>2 DEF FlattenedTo, q
<1>4. ASSUME NEW n \in 0 .. Len(seqs)
      PROVE  FlattenedTo(seqs, n) \in Seq(S)
  <2>1. CASE n = 0
    BY <1>3, <2>1, EmptySeq
  <2>2. CASE n # 0
    <3>1. n \in 1 .. Len(seqs)
      BY <1>1, <2>2
    <3>2. PICK h \in [1 .. n -> Seq(S)] : FlattenedTo(seqs, n) = h[n]
      BY <3>1, FlattenedBy
    <3>3. n \in 1 .. n
      BY <1>1, <3>1
    <3> QED
      BY <3>2, <3>3
  <2> QED
    BY <2>1, <2>2
<1>5. ASSUME NEW n \in 1 .. Len(seqs)
      PROVE  FlattenedTo(seqs, n) = FlattenedTo(seqs, n - 1) \o seqs[n]
  <2>1. PICK h \in [1 .. n -> Seq(S)] :
          /\ h = [i \in 1 .. n |-> FlattenStep(seqs, h, i)]
          /\ FlattenedTo(seqs, n) = h[n]
    BY FlattenedBy
  <2>2. n \in Nat /\ n \in 1 .. n /\ seqs[n] \in Seq(S) /\ h[n] = FlattenStep(seqs, h, n)
    <3>1. n \in Nat /\ n \in 1 .. n
      BY <1>1
    <3>2. seqs[n] \in Seq(S)
      BY <1>1
    <3> QED
      BY <2>1, <3>1, <3>2
  <2>3. CASE n = 1
    <3>1. n - 1 = 0
      BY <2>3
    <3>2. FlattenedTo(seqs, n - 1) \o seqs[n] = seqs[n]
      BY <1>3, <2>2, <3>1, ConcatEmptySeq
    <3> QED
      BY <2>1, <2>2, <2>3, <3>2 DEF FlattenStep
  <2>4. CASE n # 1
    <3>1. n - 1 \in 1 .. Len(seqs)
      BY <1>1, <2>4
    <3>2. PICK k \in [1 .. n - 1 -> Seq(S)] :
            /\ k = [i \in 1 .. n - 1 |-> FlattenStep(seqs, k, i)]
            /\ FlattenedTo(seqs, n - 1) = k[n - 1]
      BY <3>1, FlattenedBy
    <3> DEFINE T == {j \in Nat : j \in 1 .. n - 1 => h[j] = k[j]}
    <3>3. 0 \in T
      OBVIOUS
    <3>4. ASSUME NEW j \in Nat, j \in T PROVE j + 1 \in T
      <4> SUFFICES ASSUME j + 1 \in 1 .. n - 1 PROVE h[j + 1] = k[j + 1]
        OBVIOUS
      <4>1. h[j + 1] = FlattenStep(seqs, h, j + 1) /\ k[j + 1] = FlattenStep(seqs, k, j + 1)
        <5>1. j + 1 \in 1 .. n
          BY <2>2
        <5> QED
          BY <2>1, <3>2, <5>1
      <4>2. CASE j = 0
        BY <4>1, <4>2 DEF FlattenStep
      <4>3. CASE j # 0
        <5>1. h[(j + 1) - 1] = k[(j + 1) - 1]
          BY <2>2, <3>4, <4>3
        <5> QED
          BY <4>1, <5>1 DEF FlattenStep
      <4> QED
        BY <4>2, <4>3
    <3> HIDE DEF T
    <3>5. \A j \in Nat : j \in T
      BY <3>3, <3>4, SetInduction
    <3>6. h[n - 1] = k[n - 1]
      <4>1. n - 1 \in 1 .. n - 1 /\ n - 1 \in Nat
        BY <2>2, <2>4
      <4> QED
        BY <3>5, <4>1 DEF T
    <3> QED
      BY <2>1, <2>2, <2>4, <3>2, <3>6 DEF FlattenStep
  <2> QED
    BY <2>3, <2>4
<1> QED
  BY <1>2, <1>3, <1>4, <1>5

-----------------------------------------------------------------------------
(* Beginnings of sequences. *)

Beginning(S, s, t) == \E r \in Seq(S) : t = s \o r

\* What is appended leaves a sequence the beginning.
LEMMA BeginningExtended ==
    ASSUME NEW S, NEW s \in Seq(S), NEW t \in Seq(S), Beginning(S, s, t), NEW u \in Seq(S)
    PROVE  Beginning(S, s, t \o u)
<1>1. PICK r \in Seq(S) : t = s \o r
  BY DEF Beginning
<1>2. r \o u \in Seq(S) /\ t \o u = s \o (r \o u)
  BY <1>1, ConcatProperties, ConcatAssociative
<1> QED
  BY <1>2 DEF Beginning

\* A sequence is a beginning of itself.
LEMMA BeginningSelf == ASSUME NEW S, NEW s \in Seq(S) PROVE Beginning(S, s, s)
<1>1. s = s \o <<>> /\ <<>> \in Seq(S)
  BY ConcatEmptySeq
<1> QED
  BY <1>1 DEF Beginning

\* The same sequence in front of both changes nothing.
LEMMA BeginningBehind ==
    ASSUME NEW S, NEW s \in Seq(S), NEW t \in Seq(S), Beginning(S, s, t), NEW p \in Seq(S)
    PROVE  Beginning(S, p \o s, p \o t)
<1>1. PICK r \in Seq(S) : t = s \o r
  BY DEF Beginning
<1>2. p \o t = (p \o s) \o r
  BY <1>1, ConcatAssociative
<1> QED
  BY <1>2 DEF Beginning

\* A beginning of a beginning is one, too.
LEMMA BeginningOfBeginning ==
    ASSUME NEW S, NEW s \in Seq(S), NEW t \in Seq(S), NEW u \in Seq(S),
           Beginning(S, s, t), Beginning(S, t, u)
    PROVE  Beginning(S, s, u)
<1>1. PICK r \in Seq(S) : u = t \o r
  BY DEF Beginning
<1> QED
  BY <1>1, BeginningExtended

\* It is what the community modules call a prefix.
LEMMA BeginningIsPrefix ==
    ASSUME NEW S, NEW s \in Seq(S), NEW t \in Seq(S), Beginning(S, s, t)
    PROVE  IsPrefix(s, t) /\ Len(s) <= Len(t)
<1>1. PICK r \in Seq(S) : t = s \o r
  BY DEF Beginning
<1>2. /\ Len(s) \in Nat /\ Len(r) \in Nat /\ Len(t) = Len(s) + Len(r)
      /\ \A i \in 1 .. Len(s) : t[i] = s[i]
  BY <1>1, ConcatProperties, LenProperties
<1>3. SubSeq(s, 1, Len(s)) = SubSeq(t, 1, Len(s))
  <2>1. \A i \in 1 .. Len(s) : s[i] \in S /\ t[i] \in S
    BY <1>2, ElementOfSeq
  <2>2. /\ SubSeq(s, 1, Len(s)) \in Seq(S) /\ SubSeq(t, 1, Len(s)) \in Seq(S)
        /\ Len(SubSeq(s, 1, Len(s))) = Len(s) /\ Len(SubSeq(t, 1, Len(s))) = Len(s)
        /\ \A i \in 1 .. Len(s) : SubSeq(s, 1, Len(s))[i] = s[i]
        /\ \A i \in 1 .. Len(s) : SubSeq(t, 1, Len(s))[i] = t[i]
    BY <1>2, <2>1, SubSeqProperties
  <2> QED
    BY <1>2, <2>2, SeqEqual
<1> QED
  BY <1>2, <1>3 DEF IsPrefix

\* What has been flattened so far is the beginning of what will be.
LEMMA FlattenedBegins ==
    ASSUME NEW S, NEW seqs \in Seq(Seq(S)), NEW n \in 0 .. Len(seqs)
    PROVE  Beginning(S, FlattenedTo(seqs, n), FlattenSeq(seqs))
<1> DEFINE T == {m \in Nat : m \in n .. Len(seqs) =>
                   Beginning(S, FlattenedTo(seqs, n), FlattenedTo(seqs, m))}
<1>1. Len(seqs) \in Nat /\ n \in Nat /\ n <= Len(seqs)
  BY LenProperties
<1>2. \A m \in 0 .. Len(seqs) : FlattenedTo(seqs, m) \in Seq(S)
  BY Flattening
<1>3. FlattenedTo(seqs, n) \in Seq(S)
  BY <1>1, <1>2
<1>4. Beginning(S, FlattenedTo(seqs, n), FlattenedTo(seqs, n))
  BY <1>3, BeginningSelf
<1>5. 0 \in T
  <2>1. 0 \in n .. Len(seqs) => n = 0
    BY <1>1
  <2> QED
    BY <1>4, <2>1
<1>6. ASSUME NEW m \in Nat, m \in T PROVE m + 1 \in T
  <2> SUFFICES ASSUME m + 1 \in n .. Len(seqs)
               PROVE  Beginning(S, FlattenedTo(seqs, n), FlattenedTo(seqs, m + 1))
    OBVIOUS
  <2>1. CASE m + 1 = n
    BY <1>4, <2>1
  <2>2. CASE m + 1 # n
    <3>1. /\ m \in n .. Len(seqs) /\ m \in 0 .. Len(seqs) /\ m + 1 \in 1 .. Len(seqs)
          /\ (m + 1) - 1 = m
      BY <1>1, <2>2
    <3>2. Beginning(S, FlattenedTo(seqs, n), FlattenedTo(seqs, m))
      BY <1>6, <3>1
    <3>3. FlattenedTo(seqs, m + 1) = FlattenedTo(seqs, m) \o seqs[m + 1]
      BY <3>1, Flattening
    <3>4. seqs[m + 1] \in Seq(S) /\ FlattenedTo(seqs, m) \in Seq(S)
      BY <1>2, <3>1, ElementOfSeq
    <3> QED
      BY <1>3, <3>2, <3>3, <3>4, BeginningExtended
  <2> QED
    BY <2>1, <2>2
<1> HIDE DEF T
<1>7. \A m \in Nat : m \in T
  BY <1>5, <1>6, SetInduction
<1>8. Len(seqs) \in n .. Len(seqs)
  BY <1>1
<1>9. Beginning(S, FlattenedTo(seqs, n), FlattenedTo(seqs, Len(seqs)))
  BY <1>1, <1>7, <1>8 DEF T
<1> QED
  BY <1>9, Flattening
=============================================================================
