--------------------------- MODULE MtQueueProofs ---------------------------
(***************************************************************************)
(* What the helpers on queues return: the range, the type and the          *)
(* injectivity of a queue after a push, a pop, a removal or a filter.      *)
(***************************************************************************)
EXTENDS MtQueues, WellFoundedInduction, TLAPS

\* A set of naturals that is not empty has a least element.
LEMMA LeastNat ==
    ASSUME NEW T \in SUBSET Nat, T # {}
    PROVE  \E m \in T : \A n \in T : m <= n
<1> DEFINE R == OpToRel(<, Nat)
<1>1. IsWellFoundedOn(R, Nat)
  BY Zenon, NatLessThanWellFounded
<1>2. PICK x \in T : \A y \in T : ~ (<<y, x>> \in R)
  <2> HIDE DEF R
  <2> QED BY Zenon, <1>1, WFMin
<1>3. \A y \in T : ~ (y < x)
  BY Zenon, <1>2 DEF OpToRel
<1> QED
  BY <1>3

\* Induction over the naturals, for a property given as a set.
LEMMA NatInd ==
    ASSUME NEW S, 0 \in S, \A n \in Nat : n \in S => n + 1 \in S
    PROVE  Nat \subseteq S
<1> DEFINE T == Nat \ S
<1> SUFFICES ASSUME T # {} PROVE FALSE
  OBVIOUS
<1>1. PICK m \in T : \A n \in T : m <= n
  BY Zenon, LeastNat
<1>2. m # 0 /\ m - 1 \in Nat /\ m - 1 \notin T
  BY <1>1
<1> QED
  BY <1>2

-----------------------------------------------------------------------------
\* The function by which Keep goes through q.
KeptBy(q, S, g) ==
    g = [i \in 0 .. Len(q) |->
            IF i = 0 THEN <<>>
            ELSE IF q[i] \in S THEN Append(g[i - 1], q[i]) ELSE g[i - 1]]

\* That function exists: a prefix of it extends by one element.
LEMMA KeptExists ==
    ASSUME NEW X, NEW q \in Seq(X), NEW S
    PROVE  \E g : KeptBy(q, S, g)
<1> DEFINE Step(g, i) == IF q[i] \in S THEN Append(g[i - 1], q[i]) ELSE g[i - 1]
           Good(g, n) == /\ g \in [0 .. n -> Seq(X)]
                         /\ g[0] = <<>>
                         /\ \A i \in 1 .. n : g[i] = Step(g, i)
           T == {n \in Nat : n <= Len(q) => \E g : Good(g, n)}
<1> HIDE DEF Good
<1>1. 0 \in T
  <2> DEFINE g == [i \in 0 .. 0 |-> <<>>]
  <2>1. Good(g, 0)
    BY DEF Good
  <2> QED
    BY <2>1
<1>2. ASSUME NEW n \in Nat, n \in T PROVE n + 1 \in T
  <2> SUFFICES ASSUME n + 1 <= Len(q) PROVE \E g : Good(g, n + 1)
    OBVIOUS
  <2>1. PICK g : Good(g, n)
    BY <1>2
  <2>2. q[n + 1] \in X
    OBVIOUS
  <2> DEFINE h == [i \in 0 .. n + 1 |->
                     IF i <= n THEN g[i]
                     ELSE IF q[n + 1] \in S THEN Append(g[n], q[n + 1]) ELSE g[n]]
  <2>3. h \in [0 .. n + 1 -> Seq(X)]
    BY <2>1, <2>2 DEF Good
  <2>4. h[0] = <<>>
    BY <2>1 DEF Good
  <2>5. ASSUME NEW i \in 1 .. n + 1 PROVE h[i] = Step(h, i)
    <3>1. CASE i <= n
      <4>1. h[i] = g[i] /\ h[i - 1] = g[i - 1]
        BY <3>1
      <4>2. g[i] = Step(g, i)
        BY <2>1, <3>1 DEF Good
      <4> QED
        BY <4>1, <4>2
    <3>2. CASE i = n + 1
      <4>1. h[i - 1] = g[n]
        BY <3>2
      <4> QED
        BY <3>2, <4>1
    <3> QED
      BY <3>1, <3>2
  <2> HIDE DEF h
  <2>6. Good(h, n + 1)
    BY <2>3, <2>4, <2>5 DEF Good
  <2> QED
    BY <2>6
<1>3. Nat \subseteq T
  <2> HIDE DEF T
  <2> QED BY <1>1, <1>2, NatInd
<1>4. PICK g : Good(g, Len(q))
  BY <1>3
<1> DEFINE h == [i \in 0 .. Len(q) |-> IF i = 0 THEN <<>> ELSE Step(g, i)]
<1>5. ASSUME NEW i \in 0 .. Len(q) PROVE g[i] = h[i]
  <2>1. CASE i = 0
    BY <1>4, <2>1 DEF Good
  <2>2. CASE i \in 1 .. Len(q)
    BY Zenon, <1>4, <2>2 DEF Good
  <2> QED
    BY <2>1, <2>2
<1>6. g = h
  <2>1. g = [i \in 0 .. Len(q) |-> g[i]]
    BY <1>4 DEF Good
  <2>2. h = [i \in 0 .. Len(q) |-> h[i]]
    OBVIOUS
  <2> HIDE DEF h
  <2> QED
    BY <2>1, <2>2, <1>5
<1> QED
  BY <1>6 DEF KeptBy

\* What that function says of each prefix of q.
LEMMA KeptSteps ==
    ASSUME NEW X, NEW q \in Seq(X), NEW S, NEW g, KeptBy(q, S, g)
    PROVE  /\ g[0] = <<>>
           /\ \A n \in Nat : n + 1 <= Len(q) =>
                 g[n + 1] = IF q[n + 1] \in S THEN Append(g[n], q[n + 1]) ELSE g[n]
<1> DEFINE h == [i \in 0 .. Len(q) |->
                   IF i = 0 THEN <<>>
                   ELSE IF q[i] \in S THEN Append(g[i - 1], q[i]) ELSE g[i - 1]]
<1>1. g = h
  BY Zenon DEF KeptBy
<1>2. \A i \in 0 .. Len(q) : g[i] = h[i]
  BY Zenon, <1>1
<1>3. h[0] = <<>>
  OBVIOUS
<1>4. ASSUME NEW n \in Nat, n + 1 <= Len(q)
      PROVE  h[n + 1] = IF q[n + 1] \in S THEN Append(g[n], q[n + 1]) ELSE g[n]
  BY <1>4
<1> HIDE DEF h
<1>5. g[0] = h[0]
  BY <1>2
<1>6. ASSUME NEW n \in Nat, n + 1 <= Len(q) PROVE g[n + 1] = h[n + 1]
  BY <1>2, <1>6
<1> QED
  BY <1>3, <1>4, <1>5, <1>6

\* s is what is kept of the first n elements of q.
KeptOf(q, S, s, n) ==
    /\ \A k \in 1 .. Len(s) : \E j \in 1 .. n : q[j] \in S /\ q[j] = s[k]
    /\ \A j \in 1 .. n : q[j] \in S => \E k \in 1 .. Len(s) : s[k] = q[j]
    /\ IsInjective(q) => \A k, l \in 1 .. Len(s) : s[k] = s[l] => k = l

\* One more element is kept.
LEMMA KeptAppend ==
    ASSUME NEW X, NEW q \in Seq(X), NEW S, NEW s \in Seq(X), NEW n \in Nat,
           n + 1 <= Len(q), q[n + 1] \in S, KeptOf(q, S, s, n)
    PROVE  KeptOf(q, S, Append(s, q[n + 1]), n + 1)
<1> DEFINE r == Append(s, q[n + 1])
<1>1. /\ Len(r) = Len(s) + 1
      /\ r[Len(s) + 1] = q[n + 1]
      /\ \A k \in 1 .. Len(s) : r[k] = s[k]
      /\ Len(s) \in Nat
  OBVIOUS
<1> HIDE DEF r
<1>2. ASSUME NEW k \in 1 .. Len(r) PROVE \E j \in 1 .. n + 1 : q[j] \in S /\ q[j] = r[k]
  <2>1. CASE k = Len(s) + 1
    BY <2>1, <1>1
  <2>2. CASE k \in 1 .. Len(s)
    <3>1. PICK j \in 1 .. n : q[j] \in S /\ q[j] = s[k]
      BY <2>2 DEF KeptOf
    <3> QED
      BY <3>1, <2>2, <1>1
  <2> QED
    BY <2>1, <2>2, <1>1
<1>3. ASSUME NEW j \in 1 .. n + 1, q[j] \in S PROVE \E k \in 1 .. Len(r) : r[k] = q[j]
  <2>1. CASE j = n + 1
    BY <2>1, <1>1
  <2>2. CASE j \in 1 .. n
    <3>1. PICK k \in 1 .. Len(s) : s[k] = q[j]
      BY <2>2, <1>3 DEF KeptOf
    <3> QED
      BY <3>1, <1>1
  <2> QED
    BY <2>1, <2>2
<1>4. ASSUME IsInjective(q), NEW k \in 1 .. Len(r), NEW l \in 1 .. Len(r), r[k] = r[l]
      PROVE  k = l
  <2>1. ASSUME NEW m \in 1 .. Len(s) PROVE s[m] # q[n + 1]
    <3>1. PICK j \in 1 .. n : q[j] = s[m]
      BY <2>1 DEF KeptOf
    <3>2. q[j] # q[n + 1]
      BY <1>4 DEF IsInjective
    <3> QED
      BY <3>1, <3>2
  <2>2. CASE k \in 1 .. Len(s) /\ l \in 1 .. Len(s)
    <3>1. s[k] = s[l]
      BY <2>2, <1>1, <1>4
    <3> QED
      BY <3>1, <2>2, <1>4 DEF KeptOf
  <2>3. CASE k = Len(s) + 1 /\ l \in 1 .. Len(s)
    BY <2>1, <2>3, <1>1, <1>4
  <2>4. CASE k \in 1 .. Len(s) /\ l = Len(s) + 1
    BY <2>1, <2>4, <1>1, <1>4
  <2>5. CASE k = Len(s) + 1 /\ l = Len(s) + 1
    BY <2>5
  <2> QED
    BY <2>2, <2>3, <2>4, <2>5, <1>1
<1> QED
  BY Zenon, <1>2, <1>3, <1>4 DEF KeptOf, r

\* One more element is left out.
LEMMA KeptSkip ==
    ASSUME NEW X, NEW q \in Seq(X), NEW S, NEW s \in Seq(X), NEW n \in Nat,
           n + 1 <= Len(q), q[n + 1] \notin S, KeptOf(q, S, s, n)
    PROVE  KeptOf(q, S, s, n + 1)
<1>1. \A k \in 1 .. Len(s) : \E j \in 1 .. n + 1 : q[j] \in S /\ q[j] = s[k]
  BY DEF KeptOf
<1>2. \A j \in 1 .. n + 1 : q[j] \in S => \E k \in 1 .. Len(s) : s[k] = q[j]
  BY DEF KeptOf
<1> QED
  BY <1>1, <1>2 DEF KeptOf

\* Keep(q, S) is a queue of exactly the elements of q that are in S, without
\* repetition if q has none.
LEMMA KeepFacts ==
    ASSUME NEW X, NEW q \in Seq(X), NEW S
    PROVE  /\ Keep(q, S) \in Seq(X)
           /\ Range(Keep(q, S)) = Range(q) \cap S
           /\ IsInjective(q) => IsInjective(Keep(q, S))
<1> DEFINE g == CHOOSE g : KeptBy(q, S, g)
<1>1. KeptBy(q, S, g)
  BY KeptExists
<1>2. Keep(q, S) = g[Len(q)]
  BY DEF Keep, KeptBy
<1> HIDE DEF g
<1>3. /\ g[0] = <<>>
      /\ \A n \in Nat : n + 1 <= Len(q) =>
            g[n + 1] = IF q[n + 1] \in S THEN Append(g[n], q[n + 1]) ELSE g[n]
  BY <1>1, KeptSteps
<1> DEFINE T == {n \in Nat : n <= Len(q) => g[n] \in Seq(X) /\ KeptOf(q, S, g[n], n)}
<1>4. 0 \in T
  <2>1. KeptOf(q, S, <<>>, 0)
    BY DEF KeptOf
  <2>2. <<>> \in Seq(X)
    OBVIOUS
  <2> QED
    BY Zenon, <1>3, <2>1, <2>2
<1>5. ASSUME NEW n \in Nat, n \in T PROVE n + 1 \in T
  <2> SUFFICES ASSUME n + 1 <= Len(q)
               PROVE  g[n + 1] \in Seq(X) /\ KeptOf(q, S, g[n + 1], n + 1)
    OBVIOUS
  <2>1. g[n] \in Seq(X) /\ KeptOf(q, S, g[n], n)
    BY <1>5
  <2>2. q[n + 1] \in X
    OBVIOUS
  <2>3. CASE q[n + 1] \in S
    <3>1. g[n + 1] = Append(g[n], q[n + 1])
      BY Zenon, <1>3, <2>3
    <3> QED
      BY <3>1, <2>1, <2>2, <2>3, KeptAppend
  <2>4. CASE q[n + 1] \notin S
    <3>1. g[n + 1] = g[n]
      BY <1>3, <2>4
    <3> QED
      BY <3>1, <2>1, <2>4, KeptSkip
  <2> QED
    BY <2>3, <2>4
<1>6. Nat \subseteq T
  <2> HIDE DEF T
  <2> QED BY <1>4, <1>5, NatInd
<1>7. Len(q) \in T
  BY <1>6
<1> DEFINE s == Keep(q, S)
<1>8. s \in Seq(X) /\ KeptOf(q, S, s, Len(q))
  BY <1>2, <1>7
<1> HIDE DEF s
<1>9. \A x : x \in Range(s) <=> x \in Range(q) /\ x \in S
  <2>1. DOMAIN s = 1 .. Len(s) /\ DOMAIN q = 1 .. Len(q)
    BY <1>8
  <2>2. ASSUME NEW k \in 1 .. Len(s) PROVE s[k] \in Range(q) /\ s[k] \in S
    BY Zenon, <2>1, <1>8 DEF Range, KeptOf
  <2>3. ASSUME NEW j \in 1 .. Len(q), q[j] \in S PROVE q[j] \in Range(s)
    BY Zenon, <2>1, <2>3, <1>8 DEF Range, KeptOf
  <2> QED
    BY <2>1, <2>2, <2>3 DEF Range
<1>10. IsInjective(q) => IsInjective(s)
  <2>1. DOMAIN s = 1 .. Len(s)
    BY <1>8
  <2> QED
    BY <2>1, <1>8 DEF IsInjective, KeptOf
<1>11. Range(s) = Range(q) \cap S
  BY <1>9
<1> QED
  BY <1>8, <1>10, <1>11 DEF s

-----------------------------------------------------------------------------
\* The range of a queue.
LEMMA RangeFacts ==
    ASSUME NEW X, NEW q \in Seq(X)
    PROVE  /\ Range(q) \subseteq X
           /\ \A x : x \in Range(q) <=> \E i \in 1 .. Len(q) : q[i] = x
           /\ DOMAIN q = 1 .. Len(q)
  BY DEF Range

\* Removing an element.
LEMMA WithoutFacts ==
    ASSUME NEW X, NEW q \in Seq(X), NEW t
    PROVE  /\ Without(q, t) \in Seq(X)
           /\ Range(Without(q, t)) = Range(q) \ {t}
           /\ IsInjective(q) => IsInjective(Without(q, t))
<1>1. Range(q) \cap {u \in Range(q) : u # t} = Range(q) \ {t}
  OBVIOUS
<1> QED
  BY <1>1, KeepFacts DEF Without

\* Two queues one after the other.
LEMMA ConcatFacts ==
    ASSUME NEW X, NEW p \in Seq(X), NEW q \in Seq(X)
    PROVE  /\ p \o q \in Seq(X)
           /\ Range(p \o q) = Range(p) \cup Range(q)
           /\ IsInjective(p) /\ IsInjective(q) /\ Range(p) \cap Range(q) = {}
                 => IsInjective(p \o q)
<1> DEFINE r == p \o q
<1>1. /\ r \in Seq(X)
      /\ Len(r) = Len(p) + Len(q)
      /\ \A i \in 1 .. Len(r) : r[i] = IF i <= Len(p) THEN p[i] ELSE q[i - Len(p)]
      /\ Len(p) \in Nat /\ Len(q) \in Nat
  OBVIOUS
<1> HIDE DEF r
<1>2. DOMAIN r = 1 .. Len(r) /\ DOMAIN p = 1 .. Len(p) /\ DOMAIN q = 1 .. Len(q)
  BY <1>1
<1>3. ASSUME NEW i \in 1 .. Len(r) PROVE r[i] \in Range(p) \cup Range(q)
  <2>1. CASE i <= Len(p)
    <3>1. i \in 1 .. Len(p) /\ r[i] = p[i]
      BY <2>1, <1>1
    <3> QED
      BY <3>1, <1>2 DEF Range
  <2>2. CASE i > Len(p)
    <3>1. i - Len(p) \in 1 .. Len(q) /\ r[i] = q[i - Len(p)]
      BY <2>2, <1>1
    <3> QED
      BY <3>1, <1>2 DEF Range
  <2> QED
    BY <2>1, <2>2, <1>1
<1>4. ASSUME NEW i \in 1 .. Len(p) PROVE p[i] \in Range(r)
  <2>1. i \in 1 .. Len(r) /\ r[i] = p[i]
    BY <1>1
  <2> QED
    BY <2>1, <1>2 DEF Range
<1>5. ASSUME NEW i \in 1 .. Len(q) PROVE q[i] \in Range(r)
  <2>1. i + Len(p) \in 1 .. Len(r) /\ ~(i + Len(p) <= Len(p)) /\ (i + Len(p)) - Len(p) = i
    BY <1>1
  <2>2. r[i + Len(p)] = q[i]
    BY <2>1, <1>1
  <2> QED
    BY <2>1, <2>2, <1>2 DEF Range
<1>6. Range(r) = Range(p) \cup Range(q)
  BY <1>2, <1>3, <1>4, <1>5 DEF Range
<1>7. ASSUME IsInjective(p), IsInjective(q), Range(p) \cap Range(q) = {},
             NEW i \in 1 .. Len(r), NEW j \in 1 .. Len(r), r[i] = r[j]
      PROVE  i = j
  <2>1. ASSUME NEW k \in 1 .. Len(p), NEW l \in 1 .. Len(q) PROVE p[k] # q[l]
    BY Zenon, <1>2, <1>7 DEF Range
  <2>2. CASE i <= Len(p) /\ j <= Len(p)
    BY <2>2, <1>1, <1>2, <1>7 DEF IsInjective
  <2>3. CASE i > Len(p) /\ j > Len(p)
    <3>1. i - Len(p) \in 1 .. Len(q) /\ j - Len(p) \in 1 .. Len(q)
      BY <2>3, <1>1
    <3>2. q[i - Len(p)] = q[j - Len(p)]
      BY <2>3, <1>1, <1>7
    <3>3. i - Len(p) = j - Len(p)
      BY <3>1, <3>2, <1>2, <1>7 DEF IsInjective
    <3> QED
      BY <3>3, <1>1
  <2>4. CASE i <= Len(p) /\ j > Len(p)
    <3>1. i \in 1 .. Len(p) /\ j - Len(p) \in 1 .. Len(q) /\ ~(j <= Len(p))
      BY <2>4, <1>1
    <3>2. r[i] = p[i] /\ r[j] = q[j - Len(p)]
      BY <2>4, <3>1, <1>1
    <3>3. p[i] # q[j - Len(p)]
      BY <3>1, <2>1
    <3> QED
      BY <3>2, <3>3, <1>7
  <2>5. CASE i > Len(p) /\ j <= Len(p)
    <3>1. j \in 1 .. Len(p) /\ i - Len(p) \in 1 .. Len(q) /\ ~(i <= Len(p))
      BY <2>5, <1>1
    <3>2. r[j] = p[j] /\ r[i] = q[i - Len(p)]
      BY <2>5, <3>1, <1>1
    <3>3. p[j] # q[i - Len(p)]
      BY <3>1, <2>1
    <3> QED
      BY <3>2, <3>3, <1>7
  <2> QED
    BY <2>2, <2>3, <2>4, <2>5, <1>1
<1>8. IsInjective(p) /\ IsInjective(q) /\ Range(p) \cap Range(q) = {} => IsInjective(r)
  BY <1>2, <1>7 DEF IsInjective
<1> QED
  BY <1>1, <1>6, <1>8 DEF r

\* A queue of one element.
LEMMA SingletonFacts ==
    ASSUME NEW X, NEW x \in X
    PROVE  <<x>> \in Seq(X) /\ Range(<<x>>) = {x} /\ IsInjective(<<x>>)
<1>1. DOMAIN <<x>> = {1} /\ <<x>>[1] = x
  OBVIOUS
<1> QED
  BY <1>1 DEF Range, IsInjective

\* A push at the end.
LEMMA AppendFacts ==
    ASSUME NEW X, NEW q \in Seq(X), NEW x \in X
    PROVE  /\ Append(q, x) \in Seq(X)
           /\ Range(Append(q, x)) = Range(q) \cup {x}
           /\ IsInjective(q) /\ x \notin Range(q) => IsInjective(Append(q, x))
<1> DEFINE one == <<x>>
<1>1. Append(q, x) = q \o one
  OBVIOUS
<1>2. one \in Seq(X) /\ Range(one) = {x} /\ IsInjective(one)
  BY SingletonFacts
<1> HIDE DEF one
<1> QED
  BY <1>1, <1>2, ConcatFacts

\* A push to one of a family of queues.
LEMMA QueuedAppend ==
    ASSUME NEW I, NEW X, NEW f \in [I -> Seq(X)], NEW i \in I, NEW x \in X
    PROVE  [f EXCEPT ![i] = Append(@, x)] \in [I -> Seq(X)]
<1>1. Append(f[i], x) \in Seq(X)
  OBVIOUS
<1> QED
  BY <1>1

\* The part of a queue between two positions.
LEMMA SubSeqFacts ==
    ASSUME NEW X, NEW q \in Seq(X), NEW m \in 1 .. Len(q) + 1, NEW n \in 0 .. Len(q)
    PROVE  /\ SubSeq(q, m, n) \in Seq(X)
           /\ \A x : x \in Range(SubSeq(q, m, n)) <=> \E i \in m .. n : q[i] = x
           /\ IsInjective(q) => IsInjective(SubSeq(q, m, n))
<1> DEFINE r == SubSeq(q, m, n)
<1>1. r \in Seq(X)
  OBVIOUS
<1>2. /\ Len(r) = IF m <= n THEN n - m + 1 ELSE 0
      /\ \A i \in 1 .. Len(r) : r[i] = q[m + i - 1]
  OBVIOUS
<1> HIDE DEF r
<1>3. DOMAIN r = 1 .. Len(r) /\ DOMAIN q = 1 .. Len(q)
  BY <1>1
<1>4. ASSUME NEW i \in m .. n PROVE q[i] \in Range(r)
  <2>1. i - m + 1 \in 1 .. Len(r) /\ r[i - m + 1] = q[i]
    BY <1>2
  <2> QED
    BY <2>1, <1>3 DEF Range
<1>5. ASSUME NEW i \in 1 .. Len(r) PROVE \E j \in m .. n : q[j] = r[i]
  <2>1. m + i - 1 \in m .. n /\ q[m + i - 1] = r[i]
    BY <1>2
  <2> QED
    BY <2>1
<1>6. \A x : x \in Range(r) <=> \E i \in m .. n : q[i] = x
  BY <1>3, <1>4, <1>5 DEF Range
<1>7. ASSUME IsInjective(q), NEW i \in 1 .. Len(r), NEW j \in 1 .. Len(r), r[i] = r[j]
      PROVE  i = j
  <2>1. m + i - 1 \in 1 .. Len(q) /\ m + j - 1 \in 1 .. Len(q)
    BY <1>2
  <2>2. q[m + i - 1] = q[m + j - 1]
    BY <1>2, <1>7
  <2>3. m + i - 1 = m + j - 1
    BY <2>1, <2>2, <1>3, <1>7 DEF IsInjective
  <2> QED
    BY <2>3, <1>2
<1>8. IsInjective(q) => IsInjective(r)
  BY <1>3, <1>7 DEF IsInjective
<1> QED
  BY <1>1, <1>6, <1>8 DEF r

\* The first n elements and the rest.
LEMMA SplitFacts ==
    ASSUME NEW X, NEW q \in Seq(X), NEW n \in 0 .. Len(q)
    PROVE  LET front == SubSeq(q, 1, n)
               rest  == SubSeq(q, n + 1, Len(q))
           IN  /\ front \in Seq(X) /\ rest \in Seq(X)
               /\ Range(q) = Range(front) \cup Range(rest)
               /\ IsInjective(q) => /\ IsInjective(front) /\ IsInjective(rest)
                                    /\ Range(front) \cap Range(rest) = {}
<1> DEFINE front == SubSeq(q, 1, n)
           rest  == SubSeq(q, n + 1, Len(q))
<1>1. Len(q) \in Nat /\ 1 \in 1 .. Len(q) + 1 /\ n + 1 \in 1 .. Len(q) + 1 /\ Len(q) \in 0 .. Len(q)
  OBVIOUS
<1>2. /\ front \in Seq(X)
      /\ \A x : x \in Range(front) <=> \E i \in 1 .. n : q[i] = x
      /\ IsInjective(q) => IsInjective(front)
  BY <1>1, SubSeqFacts
<1>3. /\ rest \in Seq(X)
      /\ \A x : x \in Range(rest) <=> \E i \in n + 1 .. Len(q) : q[i] = x
      /\ IsInjective(q) => IsInjective(rest)
  BY <1>1, SubSeqFacts
<1> HIDE DEF front, rest
<1>4. \A x : x \in Range(q) <=> \E i \in 1 .. Len(q) : q[i] = x
  BY RangeFacts
<1>5. \A x : x \in Range(q) <=> x \in Range(front) \/ x \in Range(rest)
  BY <1>2, <1>3, <1>4, <1>1
<1>6. ASSUME IsInjective(q), NEW x, x \in Range(front), x \in Range(rest) PROVE FALSE
  <2>1. PICK i \in 1 .. n : q[i] = x
    BY <1>2, <1>6
  <2>2. PICK j \in n + 1 .. Len(q) : q[j] = x
    BY <1>3, <1>6
  <2>3. i = j
    BY <2>1, <2>2, <1>6, <1>1 DEF IsInjective
  <2> QED
    BY <2>3
<1> QED
  BY <1>2, <1>3, <1>5, <1>6 DEF front, rest

\* A pop.
LEMMA PopFacts ==
    ASSUME NEW X, NEW q \in Seq(X), q # <<>>
    PROVE  /\ Head(q) \in X /\ Head(q) \in Range(q)
           /\ Tail(q) \in Seq(X)
           /\ Range(q) = Range(Tail(q)) \cup {Head(q)}
           /\ IsInjective(q) => IsInjective(Tail(q)) /\ Head(q) \notin Range(Tail(q))
<1>1. Len(q) \in Nat /\ Len(q) >= 1 /\ DOMAIN q = 1 .. Len(q)
  OBVIOUS
<1>2. Tail(q) = SubSeq(q, 2, Len(q)) /\ Head(q) = q[1] /\ Tail(q) \in Seq(X) /\ q[1] \in X
  BY <1>1
<1>3. /\ \A x : x \in Range(Tail(q)) <=> \E i \in 2 .. Len(q) : q[i] = x
      /\ IsInjective(q) => IsInjective(Tail(q))
  <2>1. 2 \in 1 .. Len(q) + 1 /\ Len(q) \in 0 .. Len(q)
    BY <1>1
  <2>2. /\ \A x : x \in Range(SubSeq(q, 2, Len(q))) <=> \E i \in 2 .. Len(q) : q[i] = x
        /\ IsInjective(q) => IsInjective(SubSeq(q, 2, Len(q)))
    BY <2>1, SubSeqFacts
  <2> QED
    BY Zenon, <2>2, <1>2
<1>4. \A x : x \in Range(q) <=> \E i \in 1 .. Len(q) : q[i] = x
  BY RangeFacts
<1>5. \A x : x \in Range(q) <=> x \in Range(Tail(q)) \/ x = q[1]
  BY <1>1, <1>3, <1>4
<1>6. IsInjective(q) => q[1] \notin Range(Tail(q))
  BY <1>1, <1>3 DEF IsInjective
<1> QED
  BY <1>2, <1>3, <1>5, <1>6

\* An insertion anywhere.
LEMMA InsertFacts ==
    ASSUME NEW X, NEW q \in Seq(X), NEW x \in X, NEW i \in 1 .. Len(q) + 1
    PROVE  /\ Inserted(q, i, x) \in Seq(X)
           /\ Range(Inserted(q, i, x)) = Range(q) \cup {x}
           /\ IsInjective(q) /\ x \notin Range(q) => IsInjective(Inserted(q, i, x))
<1> DEFINE front == SubSeq(q, 1, i - 1)
           rest  == SubSeq(q, i, Len(q))
           one   == <<x>>
           mid   == front \o one
<1>1. i - 1 \in 0 .. Len(q) /\ (i - 1) + 1 = i
  OBVIOUS
<1>2. /\ front \in Seq(X) /\ rest \in Seq(X)
      /\ Range(q) = Range(front) \cup Range(rest)
      /\ IsInjective(q) => /\ IsInjective(front) /\ IsInjective(rest)
                           /\ Range(front) \cap Range(rest) = {}
  BY <1>1, SplitFacts
<1>3. one \in Seq(X) /\ Range(one) = {x} /\ IsInjective(one)
  BY SingletonFacts
<1> HIDE DEF front, rest, one
<1>4. /\ mid \in Seq(X) /\ Range(mid) = Range(front) \cup {x}
      /\ IsInjective(q) /\ x \notin Range(q) => IsInjective(mid)
  BY <1>2, <1>3, ConcatFacts
<1>5. Inserted(q, i, x) = mid \o rest
  BY DEF Inserted, front, rest, one
<1> HIDE DEF mid
<1> QED
  BY <1>2, <1>4, <1>5, ConcatFacts
=============================================================================
