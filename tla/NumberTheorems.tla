---------------------------- MODULE NumberTheorems ----------------------------
(***************************************************************************)
(* Facts about numbers that the proofs share: numbers modulo m, as the     *)
(* counters of this code wrap; induction over the natural numbers for a    *)
(* set; sums over sequences, as FoldLeft makes them; and sequences of      *)
(* sequences, joined as FlattenSeq joins them.                             *)
(***************************************************************************)
EXTENDS Integers, Sequences, SequencesExt, WellFoundedInduction, SequenceTheorems, TLAPS

LEMMA DivMod ==
    ASSUME NEW a \in Int, NEW m \in Nat \ {0}
    PROVE  a % m \in 0 .. m - 1 /\ a \div m \in Int /\ a = m * (a \div m) + (a % m)
OBVIOUS

\* Quotient and remainder are unique.
LEMMA ModUnique ==
    ASSUME NEW m \in Nat \ {0}, NEW q \in Int, NEW r \in 0 .. m - 1
    PROVE  (m * q + r) % m = r /\ (m * q + r) \div m = q
<1> DEFINE a == m * q + r
           d == a \div m
           s == a % m
<1>1. a \in Int
  OBVIOUS
<1>2. d \in Int /\ s \in 0 .. m - 1 /\ a = m * d + s
  BY <1>1, DivMod
<1> HIDE DEF a, d, s
<1>3. m * q + r = m * d + s
  BY <1>2 DEF a
<1>4. ~ (q < d)
  <2> SUFFICES ASSUME q + 1 <= d PROVE FALSE
    BY <1>2
  <2>1. m * (q + 1) <= m * d
    BY <1>2
  <2> QED BY <2>1, <1>2, <1>3
<1>5. ~ (d < q)
  <2> SUFFICES ASSUME d + 1 <= q PROVE FALSE
    BY <1>2
  <2>1. m * (d + 1) <= m * q
    BY <1>2
  <2> QED BY <2>1, <1>2, <1>3
<1>6. q = d
  BY <1>4, <1>5, <1>2
<1> QED BY <1>6, <1>3, <1>2 DEF a, d, s

\* What is modulo m already stays.
LEMMA ModSmall ==
    ASSUME NEW m \in Nat \ {0}, NEW a \in 0 .. m - 1
    PROVE  a % m = a
<1>1. (m * 0 + a) % m = a
  BY ModUnique
<1> QED BY <1>1

\* A sum may be taken modulo m at once or term by term.
LEMMA ModAdd ==
    ASSUME NEW m \in Nat \ {0}, NEW a \in Int, NEW b \in Int
    PROVE  ((a % m) + b) % m = (a + b) % m
<1> DEFINE q == a \div m
           s == a % m
           u == (s + b) \div m
           v == (s + b) % m
<1>1. q \in Int /\ s \in 0 .. m - 1 /\ a = m * q + s
  BY DivMod
<1> HIDE DEF q, s
<1>2. s + b \in Int
  BY <1>1
<1>3. u \in Int /\ v \in 0 .. m - 1 /\ s + b = m * u + v
  BY <1>2, DivMod
<1> HIDE DEF u, v
<1>4. a + b = m * (q + u) + v
  BY <1>1, <1>3
<1>5. (m * (q + u) + v) % m = v
  BY <1>1, <1>3, ModUnique
<1> QED BY <1>4, <1>5 DEF v, s

\* Numbers that count r things in each of F groups.
LEMMA ModScale ==
    ASSUME NEW F \in Nat \ {0}, NEW r \in Nat \ {0}, NEW a \in Int, NEW i \in 0 .. r - 1
    PROVE  (r * a + i) % (r * F) = r * (a % F) + i
<1> DEFINE q == a \div F
           s == a % F
<1>1. q \in Int /\ s \in 0 .. F - 1 /\ a = F * q + s
  BY DivMod
<1> HIDE DEF q, s
<1>2. r * a + i = (r * F) * q + (r * s + i)
  BY <1>1
<1>3. r * s + i \in 0 .. r * F - 1
  <2>1. r * s <= r * (F - 1) /\ r * s >= 0
    BY <1>1
  <2> QED BY <2>1, <1>1
<1>4. r * F \in Nat \ {0}
  OBVIOUS
<1>5. ((r * F) * q + (r * s + i)) % (r * F) = r * s + i
  BY <1>1, <1>3, <1>4, ModUnique
<1> QED BY <1>5, <1>2 DEF s
------------------------------------------------------------------------------
\* A set that has 0 and with every number the next one has all of them.
LEMMA SetInduction ==
    ASSUME NEW S, 0 \in S, \A n \in Nat : n \in S => n + 1 \in S
    PROVE  Nat \subseteq S
<1> DEFINE R == {ss \in Nat \X Nat : ss[1] < ss[2]}
           T == Nat \ S
<1>1. IsWellFoundedOn(R, Nat)
  BY NatLessThanWellFounded DEF OpToRel
<1>2. SUFFICES ASSUME T # {} PROVE FALSE
  OBVIOUS
<1>3. PICK x \in T : \A y \in T : ~ (<<y, x>> \in R)
  <2> HIDE DEF R, T
  <2>1. T \subseteq Nat
    BY DEF T
  <2> QED BY <1>1, <1>2, <2>1, WFMin
<1>4. \A y \in T : ~ (y < x)
  BY <1>3
<1>5. x # 0 /\ x \in Nat /\ x - 1 \in Nat
  OBVIOUS
<1>6. x - 1 \in T
  BY <1>5
<1> QED BY <1>4, <1>6, <1>5
------------------------------------------------------------------------------
\* The largest element of a set of numbers up to n + 1 that has n + 1.
LEMMA MaxOfInterval ==
    ASSUME NEW n \in Nat, NEW S \in SUBSET (1 .. n + 1), n + 1 \in S
    PROVE  Max(S) = n + 1 /\ S \ {n + 1} \in SUBSET (1 .. n)
<1>1. \A x \in S : x \in Int /\ x <= n + 1
  OBVIOUS
<1>2. \A x \in S : (\A y \in S : x >= y) => x = n + 1
  BY <1>1
<1>3. \A y \in S : n + 1 >= y
  BY <1>1
<1>4. Max(S) = n + 1
  BY <1>2, <1>3 DEF Max
<1> QED BY <1>4

\* What FoldLeft is defined by: h[S] is the sum of the items of s at the indices in S.
Iter(h, s, n) ==
    h = [S \in SUBSET (1 .. n) |-> IF S = {} THEN 0 ELSE h[S \ {Max(S)}] + s[Max(S)]]

\* There is such a function: from one for the indices up to k one makes one for
\* those up to k + 1.
LEMMA IterExists ==
    ASSUME NEW s, NEW n \in Nat
    PROVE  \E h : Iter(h, s, n)
<1> DEFINE N == {k \in Nat : \E h : Iter(h, s, k)}
<1>1. 0 \in N
  <2> DEFINE h == [S \in SUBSET (1 .. 0) |-> 0]
  <2>1. \A S \in SUBSET (1 .. 0) : S = {}
    OBVIOUS
  <2>2. Iter(h, s, 0)
    BY <2>1 DEF Iter
  <2> QED BY <2>2
<1>2. ASSUME NEW k \in Nat, k \in N PROVE k + 1 \in N
  <2>1. PICK h : Iter(h, s, k)
    BY <1>2
  <2> DEFINE g == [S \in SUBSET (1 .. k + 1) |->
                      IF k + 1 \in S THEN h[S \ {k + 1}] + s[k + 1] ELSE h[S]]
  <2>2. ASSUME NEW S \in SUBSET (1 .. k + 1)
        PROVE  g[S] = IF S = {} THEN 0 ELSE g[S \ {Max(S)}] + s[Max(S)]
    <3>1. CASE k + 1 \in S
      <4>1. Max(S) = k + 1 /\ S \ {k + 1} \in SUBSET (1 .. k)
        BY <3>1, MaxOfInterval
      <4>2. S \ {k + 1} \in SUBSET (1 .. k + 1) /\ k + 1 \notin S \ {k + 1} /\ S # {}
        BY <3>1
      <4>3. g[S \ {k + 1}] = h[S \ {k + 1}]
        BY <4>2
      <4> QED BY <3>1, <4>1, <4>2, <4>3
    <3>2. CASE k + 1 \notin S
      <4>1. S \in SUBSET (1 .. k)
        BY <3>2
      <4>2. h[S] = IF S = {} THEN 0 ELSE h[S \ {Max(S)}] + s[Max(S)]
        BY <2>1, <4>1 DEF Iter
      <4>3. S \ {Max(S)} \in SUBSET (1 .. k + 1) /\ k + 1 \notin S \ {Max(S)}
        BY <3>2
      <4>4. g[S \ {Max(S)}] = h[S \ {Max(S)}] /\ g[S] = h[S]
        BY <3>2, <4>3
      <4> QED BY <4>2, <4>4
    <3> QED BY <3>1, <3>2
  <2>3. Iter(g, s, k + 1)
    <3> HIDE DEF g
    <3>1. DOMAIN g = SUBSET (1 .. k + 1) /\ g = [S \in DOMAIN g |-> g[S]]
      BY DEF g
    <3> QED BY <2>2, <3>1 DEF Iter
  <2> QED BY <2>3
<1> HIDE DEF N
<1>3. Nat \subseteq N
  BY <1>1, <1>2, SetInduction
<1> QED BY <1>3 DEF N

Total(s) == FoldLeft(+, 0, s)

LEMMA TotalIsIter ==
    ASSUME NEW s, NEW n \in Nat, DOMAIN s = 1 .. n
    PROVE  \E h : Iter(h, s, n) /\ Total(s) = h[1 .. n]
<1> DEFINE h == CHOOSE h : Iter(h, s, n)
<1>1. Iter(h, s, n) BY IterExists
<1>2. Total(s) = h[1 .. n] BY DEF Total, FoldLeft, MapThenFoldSet, Iter
<1> QED BY <1>1, <1>2
\* t[k] is the sum of the first k of the n items of s.
IsSum(t, s, n) == /\ t \in [0 .. n -> Int] /\ t[0] = 0
                  /\ \A k \in 1 .. n : t[k] = t[k - 1] + s[k]

LEMMA TotalSum ==
    ASSUME NEW n \in Nat, NEW s \in [1 .. n -> Int]
    PROVE  \E t : IsSum(t, s, n) /\ Total(s) = t[n]
<1>1. PICK h : Iter(h, s, n) /\ Total(s) = h[1 .. n]
  BY TotalIsIter
<1> DEFINE t == [k \in 0 .. n |-> h[1 .. k]]
<1>2. t[0] = 0 /\ t[n] = h[1 .. n]
  <2>1. 1 .. 0 = {} /\ {} \in SUBSET (1 .. n)
    OBVIOUS
  <2>2. h[{}] = 0
    BY <1>1, <2>1 DEF Iter
  <2> QED BY <2>1, <2>2
<1>3. ASSUME NEW k \in 1 .. n
      PROVE  t[k] = t[k - 1] + s[k]
  <2>1. k - 1 \in Nat /\ k - 1 + 1 = k /\ k - 1 \in 0 .. n /\ k \in 0 .. n
    OBVIOUS
  <2>2. 1 .. k \in SUBSET (1 .. n) /\ k \in 1 .. k /\ 1 .. k # {}
    OBVIOUS
  <2>3. Max(1 .. k) = k
    BY <2>1, <2>2, MaxOfInterval
  <2>4. (1 .. k) \ {k} = 1 .. k - 1
    OBVIOUS
  <2>5. h[1 .. k] = h[(1 .. k) \ {k}] + s[k]
    BY <1>1, <2>2, <2>3 DEF Iter
  <2> QED BY <2>1, <2>4, <2>5
<1>4. t \in [0 .. n -> Int]
  <2> DEFINE N == {k \in Nat : k <= n => t[k] \in Int}
  <2>1. 0 \in N
    BY <1>2
  <2>2. ASSUME NEW k \in Nat, k \in N PROVE k + 1 \in N
    <3>1. k + 1 <= n => t[k + 1] = t[k] + s[k + 1]
      <4> SUFFICES ASSUME k + 1 <= n PROVE t[k + 1] = t[k] + s[k + 1]
        OBVIOUS
      <4>1. k + 1 \in 1 .. n /\ (k + 1) - 1 = k
        OBVIOUS
      <4> HIDE DEF t
      <4> QED BY <4>1, <1>3
    <3> HIDE DEF t
    <3> QED BY <2>2, <3>1
  <2> HIDE DEF N
  <2>3. Nat \subseteq N
    BY <2>1, <2>2, SetInduction
  <2>4. \A k \in 0 .. n : t[k] \in Int
    <3> HIDE DEF t
    <3> QED BY <2>3 DEF N
  <2> QED BY <2>4
<1>5. IsSum(t, s, n)
  BY <1>2, <1>3, <1>4 DEF IsSum
<1> QED BY <1>1, <1>2, <1>5

\* Sums over beginnings that agree are the same.
LEMMA SumUnique ==
    ASSUME NEW n \in Nat, NEW n2 \in Nat, NEW s, NEW s2, NEW t, NEW t2, IsSum(t, s, n), IsSum(t2, s2, n2),
           NEW m \in Nat, m <= n, m <= n2, \A k \in 1 .. m : s[k] = s2[k]
    PROVE  t[m] = t2[m]
<1> DEFINE N == {k \in Nat : k <= m => t[k] = t2[k]}
<1>1. 0 \in N
  BY DEF IsSum
<1>2. ASSUME NEW k \in Nat, k \in N PROVE k + 1 \in N
  <2> SUFFICES ASSUME k + 1 <= m PROVE t[k + 1] = t2[k + 1]
    OBVIOUS
  <2>1. k + 1 \in 1 .. n /\ k + 1 \in 1 .. n2 /\ k + 1 \in 1 .. m /\ (k + 1) - 1 = k
    OBVIOUS
  <2>2. t[k + 1] = t[k] + s[k + 1] /\ t2[k + 1] = t2[k] + s2[k + 1]
    BY <2>1 DEF IsSum
  <2> QED BY <1>2, <2>1, <2>2
<1> HIDE DEF N
<1>3. Nat \subseteq N
  BY <1>1, <1>2, SetInduction
<1> QED BY <1>3 DEF N

\* One item more.
LEMMA TotalStep ==
    ASSUME NEW n \in Nat, NEW s \in [1 .. n -> Int], NEW s2 \in [1 .. n + 1 -> Int],
           \A k \in 1 .. n : s2[k] = s[k]
    PROVE  Total(s2) = Total(s) + s2[n + 1] /\ Total(s) \in Int
<1>1. PICK t : IsSum(t, s, n) /\ Total(s) = t[n]
  BY TotalSum
<1>2. n + 1 \in Nat
  OBVIOUS
<1>3. PICK t2 : IsSum(t2, s2, n + 1) /\ Total(s2) = t2[n + 1]
  BY <1>2, TotalSum
<1>4. t[n] = t2[n]
  BY <1>1, <1>2, <1>3, SumUnique
<1>5. n + 1 \in 1 .. n + 1 /\ (n + 1) - 1 = n /\ n \in 0 .. n
  OBVIOUS
<1> QED BY <1>1, <1>3, <1>4, <1>5 DEF IsSum

\* Of no items.
LEMMA TotalEmpty == Total(<< >>) = 0
<1>1. << >> \in [1 .. 0 -> Int] /\ 0 \in Nat
  OBVIOUS
<1>2. PICK t : IsSum(t, << >>, 0) /\ Total(<< >>) = t[0]
  BY <1>1, TotalSum
<1> QED BY <1>2 DEF IsSum

\* No item is more than the sum of them.
LEMMA TotalBounds ==
    ASSUME NEW n \in Nat, NEW s \in [1 .. n -> Nat]
    PROVE  Total(s) \in Nat /\ \A k \in 1 .. n : s[k] <= Total(s)
<1>1. s \in [1 .. n -> Int] OBVIOUS
<1>2. PICK t : IsSum(t, s, n) /\ Total(s) = t[n]
  BY <1>1, TotalSum
<1> DEFINE N == {m \in Nat : m <= n => t[m] \in Nat /\ \A k \in 1 .. m : s[k] <= t[m]}
<1>3. 0 \in N
  BY <1>2 DEF IsSum
<1>4. ASSUME NEW m \in Nat, m \in N PROVE m + 1 \in N
  <2> SUFFICES ASSUME m + 1 <= n PROVE t[m + 1] \in Nat /\ \A k \in 1 .. m + 1 : s[k] <= t[m + 1]
    OBVIOUS
  <2>1. m + 1 \in 1 .. n /\ (m + 1) - 1 = m
    OBVIOUS
  <2>2. t[m + 1] = t[m] + s[m + 1] /\ s[m + 1] \in Nat
    BY <1>2, <2>1 DEF IsSum
  <2>3. t[m] \in Nat /\ \A k \in 1 .. m : s[k] <= t[m] /\ s[k] \in Nat
    BY <1>4
  <2>4. \A k \in 1 .. m + 1 : k = m + 1 \/ k \in 1 .. m
    OBVIOUS
  <2> QED BY <2>2, <2>3, <2>4
<1> HIDE DEF N
<1>5. Nat \subseteq N
  BY <1>3, <1>4, SetInduction
<1> QED BY <1>2, <1>5 DEF N
-------------------------------------------------------------------------------
\* Two sequences, one behind the other.
LEMMA ConcatFacts ==
    ASSUME NEW S, NEW s \in Seq(S), NEW t \in Seq(S)
    PROVE  LET z == s \o t
           IN  /\ z \in Seq(S) /\ Len(z) = Len(s) + Len(t) /\ Len(s) \in Nat /\ Len(t) \in Nat
               /\ (\A i \in 1 .. Len(s) : z[i] = s[i]) /\ \A i \in 1 .. Len(t) : z[Len(s) + i] = t[i]
OBVIOUS

\* f[i] is the first i of the n members of s, one after another, as FlattenSeq joins them.
Concats(f, s, n) == f = [i \in 1 .. n |-> IF i = 1 THEN s[i] ELSE f[i - 1] \o s[i]]

\* One member more.
LEMMA ConcatsStep ==
    ASSUME NEW n \in Nat, NEW s, NEW f, Concats(f, s, n), NEW t, \A i \in 1 .. n : t[i] = s[i]
    PROVE  \E g : Concats(g, t, n + 1)
<1> DEFINE g == [i \in 1 .. n + 1 |-> IF i <= n THEN f[i] ELSE IF i = 1 THEN t[i] ELSE f[n] \o t[i]]
<1>1. ASSUME NEW i \in 1 .. n + 1
      PROVE  g[i] = IF i = 1 THEN t[i] ELSE g[i - 1] \o t[i]
  <2>1. CASE i = n + 1
    <3>1. g[i] = IF i = 1 THEN t[i] ELSE f[n] \o t[i]
      BY <2>1
    <3>2. i # 1 => n \in 1 .. n + 1 /\ n <= n /\ i - 1 = n
      BY <2>1
    <3>3. i # 1 => g[i - 1] = f[n]
      BY <3>2
    <3> HIDE DEF g
    <3> QED BY <3>1, <3>3
  <2>2. CASE i # n + 1
    <3>1. i \in 1 .. n /\ i <= n
      BY <2>2
    <3>2. g[i] = f[i] /\ f[i] = (IF i = 1 THEN s[i] ELSE f[i - 1] \o s[i])
      BY <3>1 DEF Concats
    <3>3. i # 1 => i - 1 \in 1 .. n + 1 /\ i - 1 <= n
      BY <3>1
    <3>4. i # 1 => g[i - 1] = f[i - 1]
      BY <3>3
    <3> HIDE DEF g
    <3> QED BY <3>1, <3>2, <3>4
  <2> QED BY <2>1, <2>2
<1>2. g = [i \in 1 .. n + 1 |-> g[i]]
  OBVIOUS
<1> HIDE DEF g
<1>3. g = [i \in 1 .. n + 1 |-> IF i = 1 THEN t[i] ELSE g[i - 1] \o t[i]]
  BY <1>1, <1>2
<1> QED BY <1>3 DEF Concats

LEMMA ConcatsExists ==
    ASSUME NEW n \in Nat, NEW s
    PROVE  \E f : Concats(f, s, n)
<1> DEFINE N == {m \in Nat : \E f : Concats(f, s, m)}
<1>1. 0 \in N
  <2> DEFINE f == [i \in 1 .. 0 |-> << >>]
  <2>1. f = [i \in 1 .. 0 |-> IF i = 1 THEN s[i] ELSE f[i - 1] \o s[i]]
    OBVIOUS
  <2> HIDE DEF f
  <2> QED BY <2>1 DEF Concats
<1>2. \A m \in Nat : m \in N => m + 1 \in N
  BY ConcatsStep
<1> HIDE DEF N
<1>3. Nat \subseteq N
  BY <1>1, <1>2, SetInduction
<1> QED BY <1>3 DEF N

\* Beginnings that agree are joined alike.
LEMMA ConcatsUnique ==
    ASSUME NEW n \in Nat, NEW m \in Nat, NEW s, NEW t, NEW f, NEW g, Concats(f, s, n), Concats(g, t, m),
           NEW k \in Nat, k <= n, k <= m, k > 0, \A i \in 1 .. k : s[i] = t[i]
    PROVE  f[k] = g[k]
<1> DEFINE N == {j \in Nat : j < k => f[j + 1] = g[j + 1]}
<1>1. 0 \in N
  <2>1. 1 \in 1 .. n /\ 1 \in 1 .. m /\ 1 \in 1 .. k
    OBVIOUS
  <2>2. f[1] = s[1] /\ g[1] = t[1]
    BY <2>1 DEF Concats
  <2>3. f[0 + 1] = g[0 + 1]
    BY <2>1, <2>2
  <2> QED BY <2>3
<1>2. ASSUME NEW j \in Nat, j \in N PROVE j + 1 \in N
  <2> SUFFICES ASSUME j + 1 < k PROVE f[j + 1 + 1] = g[j + 1 + 1]
    OBVIOUS
  <2> DEFINE i == j + 1 + 1
  <2>1. i \in 1 .. n /\ i \in 1 .. m /\ i \in 1 .. k /\ i # 1 /\ i - 1 = j + 1 /\ j < k
    OBVIOUS
  <2>2. f[j + 1] = g[j + 1]
    BY <1>2, <2>1
  <2> HIDE DEF i
  <2>3. f[i] = f[i - 1] \o s[i] /\ g[i] = g[i - 1] \o t[i]
    BY <2>1 DEF Concats
  <2>4. f[i] = g[i]
    BY <2>1, <2>2, <2>3
  <2> QED BY <2>4 DEF i
<1> HIDE DEF N
<1>3. Nat \subseteq N
  BY <1>1, <1>2, SetInduction
<1>4. k - 1 \in Nat /\ k - 1 < k /\ (k - 1) + 1 = k
  OBVIOUS
<1>5. k - 1 \in N
  BY <1>3, <1>4
<1> QED BY <1>4, <1>5 DEF N

LEMMA FlattenIsConcats ==
    ASSUME NEW s, NEW n \in Nat, Len(s) = n, n > 0, NEW f, Concats(f, s, n)
    PROVE  FlattenSeq(s) = f[n]
<1> DEFINE g == CHOOSE g : Concats(g, s, Len(s))
<1>1. Concats(g, s, n)
  OBVIOUS
<1>2. FlattenSeq(s) = g[Len(s)]
  BY DEF FlattenSeq, Concats
<1> HIDE DEF g
<1>3. f[n] = g[n]
  BY <1>1, ConcatsUnique
<1> QED BY <1>2, <1>3

LEMMA FlattenEmpty == FlattenSeq(<< >>) = << >>
BY DEF FlattenSeq

LEMMA FlattenAppendAny ==
    ASSUME NEW T, NEW s \in Seq(Seq(T)), NEW x \in Seq(T)
    PROVE  FlattenSeq(Append(s, x)) = IF s = << >> THEN x ELSE FlattenSeq(s) \o x
<1> DEFINE n == Len(s)
           t == Append(s, x)
<1>1. n \in Nat /\ Len(t) = n + 1 /\ t[n + 1] = x /\ (\A i \in 1 .. n : t[i] = s[i]) /\ (s = << >> <=> n = 0)
      /\ n + 1 \in Nat /\ n + 1 > 0 /\ n + 1 \in 1 .. n + 1 /\ (n + 1) - 1 = n
  OBVIOUS
<1>2. Len(s) = n
  OBVIOUS
<1> HIDE DEF n, t
<1>3. PICK g : Concats(g, t, n + 1)
  BY <1>1, ConcatsExists
<1>4. FlattenSeq(t) = g[n + 1]
  BY <1>1, <1>3, FlattenIsConcats
<1>5. g[n + 1] = IF n + 1 = 1 THEN x ELSE g[n] \o x
  BY <1>1, <1>3 DEF Concats
<1>6. CASE n = 0
  BY <1>1, <1>4, <1>5, <1>6 DEF t
<1>7. CASE n # 0
  <2>1. PICK f : Concats(f, s, n)
    BY <1>1, ConcatsExists
  <2>2. FlattenSeq(s) = f[n]
    BY <1>1, <1>2, <1>7, <2>1, FlattenIsConcats
  <2>3. n <= n + 1 /\ n > 0 /\ n + 1 # 1 /\ s # << >> /\ \A i \in 1 .. n : s[i] = t[i]
    BY <1>1, <1>7
  <2>4. n <= n
    BY <1>1
  <2>5. f[n] = g[n]
    BY <1>1, <1>3, <2>1, <2>3, <2>4, ConcatsUnique
  <2> QED BY <1>4, <1>5, <2>2, <2>3, <2>5 DEF t
<1> QED BY <1>6, <1>7

\* A sequence up to its member k + 1.
LEMMA PrefixStep ==
    ASSUME NEW S, NEW s \in Seq(S), NEW k \in Nat, k < Len(s)
    PROVE  /\ SubSeq(s, 1, k + 1) = Append(SubSeq(s, 1, k), s[k + 1])
           /\ SubSeq(s, 1, k) \in Seq(S) /\ s[k + 1] \in S /\ Len(SubSeq(s, 1, k)) = k
<1>1. k + 1 \in 1 .. Len(s)
  OBVIOUS
<1> QED BY <1>1

LEMMA FlattenType ==
    ASSUME NEW T, NEW s \in Seq(Seq(T))
    PROVE  FlattenSeq(s) \in Seq(T)
<1> DEFINE N == {k \in Nat : k <= Len(s) => FlattenSeq(SubSeq(s, 1, k)) \in Seq(T)}
<1>1. Len(s) \in Nat /\ SubSeq(s, 1, 0) = << >> /\ << >> \in Seq(T) /\ SubSeq(s, 1, Len(s)) = s
  OBVIOUS
<1>2. 0 \in N
  BY <1>1, FlattenEmpty
<1>3. ASSUME NEW k \in Nat, k \in N PROVE k + 1 \in N
  <2> SUFFICES ASSUME k + 1 <= Len(s) PROVE FlattenSeq(SubSeq(s, 1, k + 1)) \in Seq(T)
    OBVIOUS
  <2> DEFINE p == SubSeq(s, 1, k)
             x == s[k + 1]
  <2>1. k < Len(s)
    BY <1>1
  <2>2. SubSeq(s, 1, k + 1) = Append(p, x) /\ p \in Seq(Seq(T)) /\ x \in Seq(T)
    BY <2>1, PrefixStep
  <2>3. FlattenSeq(p) \in Seq(T)
    BY <1>1, <1>3, <2>1
  <2> HIDE DEF p, x
  <2>4. FlattenSeq(Append(p, x)) = IF p = << >> THEN x ELSE FlattenSeq(p) \o x
    BY <2>2, FlattenAppendAny
  <2>5. FlattenSeq(p) \o x \in Seq(T)
    BY <2>2, <2>3
  <2> QED BY <2>2, <2>4, <2>5
<1> HIDE DEF N
<1>4. Nat \subseteq N
  BY <1>2, <1>3, SetInduction
<1>5. FlattenSeq(SubSeq(s, 1, Len(s))) \in Seq(T)
  BY <1>1, <1>4 DEF N
<1> QED BY <1>1, <1>5

LEMMA FlattenAppend ==
    ASSUME NEW T, NEW s \in Seq(Seq(T)), NEW x \in Seq(T)
    PROVE  FlattenSeq(Append(s, x)) = FlattenSeq(s) \o x
<1>1. FlattenSeq(Append(s, x)) = IF s = << >> THEN x ELSE FlattenSeq(s) \o x
  BY FlattenAppendAny
<1>2. << >> \o x = x
  OBVIOUS
<1> QED BY <1>1, <1>2, FlattenEmpty

LEMMA FlattenCons ==
    ASSUME NEW T, NEW s \in Seq(Seq(T)), NEW x \in Seq(T)
    PROVE  FlattenSeq(<<x>> \o s) = x \o FlattenSeq(s)
<1> DEFINE Holds(p) == FlattenSeq(<<x>> \o p) = x \o FlattenSeq(p)
           N == {k \in Nat : k <= Len(s) => Holds(SubSeq(s, 1, k))}
<1>1. Len(s) \in Nat /\ SubSeq(s, 1, 0) = << >> /\ SubSeq(s, 1, Len(s)) = s
  OBVIOUS
<1>2. Holds(<< >>)
  <2>1. << >> \in Seq(Seq(T)) /\ <<x>> \o << >> = Append(<< >>, x) /\ x \o << >> = x
    OBVIOUS
  <2>2. FlattenSeq(Append(<< >>, x)) = x
    BY <2>1, FlattenAppendAny
  <2> QED BY <2>1, <2>2, FlattenEmpty
<1>3. ASSUME NEW p \in Seq(Seq(T)), NEW y \in Seq(T), Holds(p) PROVE Holds(Append(p, y))
  <2>1. <<x>> \o Append(p, y) = Append(<<x>> \o p, y) /\ <<x>> \o p \in Seq(Seq(T))
    OBVIOUS
  <2>2. FlattenSeq(p) \in Seq(T)
    BY FlattenType
  <2>3. FlattenSeq(<<x>> \o Append(p, y)) = FlattenSeq(<<x>> \o p) \o y
    <3> DEFINE q == <<x>> \o p
    <3>1. q \in Seq(Seq(T)) /\ <<x>> \o Append(p, y) = Append(q, y)
      BY <2>1
    <3> HIDE DEF q
    <3>2. FlattenSeq(Append(q, y)) = FlattenSeq(q) \o y
      BY <3>1, FlattenAppend
    <3> QED BY <3>1, <3>2 DEF q
  <2>4. (x \o FlattenSeq(p)) \o y = x \o (FlattenSeq(p) \o y)
    <3> DEFINE z == FlattenSeq(p)
    <3>1. z \in Seq(T)
      BY <2>2
    <3> HIDE DEF z
    <3>2. (x \o z) \o y = x \o (z \o y)
      BY <3>1, ConcatAssociative
    <3> QED BY <3>2 DEF z
  <2>5. FlattenSeq(Append(p, y)) = FlattenSeq(p) \o y
    BY FlattenAppend
  <2> QED BY <1>3, <2>3, <2>4, <2>5
<1> HIDE DEF Holds
<1>4. 0 \in N
  BY <1>1, <1>2
<1>5. ASSUME NEW k \in Nat, k \in N PROVE k + 1 \in N
  <2> SUFFICES ASSUME k + 1 <= Len(s) PROVE Holds(SubSeq(s, 1, k + 1))
    OBVIOUS
  <2> DEFINE p == SubSeq(s, 1, k)
             y == s[k + 1]
  <2>1. k < Len(s)
    BY <1>1
  <2>2. SubSeq(s, 1, k + 1) = Append(p, y) /\ p \in Seq(Seq(T)) /\ y \in Seq(T)
    BY <2>1, PrefixStep
  <2>3. Holds(p)
    BY <1>1, <1>5, <2>1
  <2> HIDE DEF p, y
  <2>4. Holds(Append(p, y))
    BY <1>3, <2>2, <2>3
  <2> QED BY <2>2, <2>4
<1> HIDE DEF N
<1>6. Nat \subseteq N
  BY <1>4, <1>5, SetInduction
<1>7. Holds(SubSeq(s, 1, Len(s)))
  BY <1>1, <1>6 DEF N
<1> QED BY <1>1, <1>7 DEF Holds

\* A member's place in what the members are joined to: behind those before it.
LEMMA FlattenAt ==
    ASSUME NEW T, NEW s \in Seq(Seq(T)), NEW k \in Nat, k < Len(s)
    PROVE  LET a == FlattenSeq(SubSeq(s, 1, k))
               b == FlattenSeq(SubSeq(s, 1, k + 1))
           IN  /\ a \in Seq(T) /\ Len(b) = Len(a) + Len(s[k + 1]) /\ Len(b) <= Len(FlattenSeq(s))
               /\ \A j \in 1 .. Len(s[k + 1]) : FlattenSeq(s)[Len(a) + j] = s[k + 1][j]
<1> DEFINE F(m) == FlattenSeq(SubSeq(s, 1, m))
           x == s[k + 1]
           N == {m \in Nat : k + 1 + m <= Len(s) =>
                    Len(F(k + 1)) <= Len(F(k + 1 + m)) /\ \A j \in 1 .. Len(F(k + 1)) : F(k + 1 + m)[j] = F(k + 1)[j]}
<1>1. ASSUME NEW m \in Nat, m < Len(s)
      PROVE  /\ F(m) \in Seq(T) /\ F(m + 1) \in Seq(T) /\ s[m + 1] \in Seq(T)
             /\ F(m + 1) = F(m) \o s[m + 1]
  <2> DEFINE p == SubSeq(s, 1, m)
             y == s[m + 1]
  <2>1. SubSeq(s, 1, m + 1) = Append(p, y) /\ p \in Seq(Seq(T)) /\ y \in Seq(T)
    BY <1>1, PrefixStep
  <2> HIDE DEF p, y
  <2>2. FlattenSeq(Append(p, y)) = FlattenSeq(p) \o y /\ FlattenSeq(p) \in Seq(T)
    BY <2>1, FlattenAppend, FlattenType
  <2>3. FlattenSeq(p) \o y \in Seq(T)
    BY <2>1, <2>2
  <2> QED BY <2>1, <2>2, <2>3 DEF p, y
<1>2. Len(s) \in Nat /\ SubSeq(s, 1, Len(s)) = s /\ k + 1 \in Nat
  OBVIOUS
<1> HIDE DEF F
<1>3. 0 \in N
  <2>1. k + 1 + 0 = k + 1 /\ F(k + 1) \in Seq(T)
    BY <1>1
  <2>2. Len(F(k + 1)) \in Nat
    BY <2>1
  <2> QED BY <2>1, <2>2
<1>4. ASSUME NEW m \in Nat, m \in N PROVE m + 1 \in N
  <2> DEFINE u == k + 1 + m
  <2>1. u \in Nat /\ k + 1 + (m + 1) = u + 1
    BY <1>2
  <2> SUFFICES ASSUME u + 1 <= Len(s)
               PROVE  Len(F(k + 1)) <= Len(F(u + 1)) /\ \A j \in 1 .. Len(F(k + 1)) : F(u + 1)[j] = F(k + 1)[j]
    BY <2>1
  <2>2. u < Len(s)
    BY <1>2, <2>1
  <2>3. Len(F(k + 1)) <= Len(F(u)) /\ \A j \in 1 .. Len(F(k + 1)) : F(u)[j] = F(k + 1)[j]
    BY <1>2, <1>4, <2>2
  <2>4. F(u) \in Seq(T) /\ s[u + 1] \in Seq(T) /\ F(u + 1) = F(u) \o s[u + 1] /\ F(k + 1) \in Seq(T)
    BY <1>1, <2>1, <2>2
  <2> DEFINE f == F(u)
             y == s[u + 1]
             g == F(k + 1)
  <2> HIDE DEF u, f, y, g
  <2>5. f \in Seq(T) /\ y \in Seq(T) /\ F(u + 1) = f \o y /\ Len(g) \in Nat /\ Len(g) <= Len(f)
    BY <2>3, <2>4 DEF f, y, g
  <2>6. Len(f \o y) = Len(f) + Len(y) /\ Len(f) \in Nat /\ Len(y) \in Nat /\ \A j \in 1 .. Len(f) : (f \o y)[j] = f[j]
    BY <2>5
  <2>7. \A j \in 1 .. Len(g) : j \in 1 .. Len(f) /\ f[j] = g[j]
    BY <2>3, <2>5, <2>6 DEF f, g
  <2> QED BY <2>5, <2>6, <2>7 DEF g
<1> HIDE DEF N
<1>5. Nat \subseteq N
  BY <1>3, <1>4, SetInduction
<1>6. Len(s) - (k + 1) \in Nat /\ k + 1 + (Len(s) - (k + 1)) = Len(s)
  BY <1>2
<1>7. Len(F(k + 1)) <= Len(F(Len(s))) /\ \A j \in 1 .. Len(F(k + 1)) : F(Len(s))[j] = F(k + 1)[j]
  <2> DEFINE d == Len(s) - (k + 1)
  <2>1. d \in N /\ k + 1 + d = Len(s)
    BY <1>5, <1>6
  <2> HIDE DEF d
  <2> QED BY <1>2, <2>1 DEF N
<1>8. F(Len(s)) = FlattenSeq(s)
  BY <1>2 DEF F
<1> DEFINE a == F(k)
           b == F(k + 1)
           z == FlattenSeq(s)
<1>9. a \in Seq(T) /\ x \in Seq(T) /\ b = a \o x
  BY <1>1
<1> HIDE DEF a, x
<1>10. Len(b) = Len(a) + Len(x) /\ Len(a) \in Nat /\ Len(x) \in Nat /\ \A j \in 1 .. Len(x) : (a \o x)[Len(a) + j] = x[j]
  BY <1>9
<1>11. \A j \in 1 .. Len(b) : z[j] = b[j]
  BY <1>7, <1>8
<1>12. Len(b) <= Len(z)
  BY <1>7, <1>8
<1>13. ASSUME NEW j \in 1 .. Len(x) PROVE z[Len(a) + j] = x[j]
  <2>1. Len(a) + j \in 1 .. Len(b)
    BY <1>10
  <2>2. b[Len(a) + j] = x[j]
    BY <1>9, <1>10
  <2> QED BY <1>11, <2>1, <2>2
<1> QED BY <1>9, <1>10, <1>12, <1>13 DEF F, a, b, x, z
==============================================================================
