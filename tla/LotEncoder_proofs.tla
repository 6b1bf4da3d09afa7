------------------------ MODULE LotEncoder_proofs ------------------------
(***************************************************************************)
(* Proofs about the LOT encoder, for any clients, kinds of command and     *)
(* number of them, and any messages: commands that arrive one after        *)
(* another are acted on in that order (InOrder); a whole one waits only    *)
(* behind others of its message (NothingWaits); and pieces that do not go  *)
(* together cost one command each at most (LossBounded).                   *)
(***************************************************************************)
EXTENDS LotEncoder, NumberTheorems, FiniteSetTheorems

\* Unit i of command k.
Unit == (DOMAIN kinds) \X (Nat \ {0})

\* The type invariant.
LotTypes ==
    /\ kinds \in Seq(Kinds) /\ wire \in [Clients -> Seq(Unit)]
    /\ command_buffer \in Seq(Unit) /\ arrival \in Seq(DOMAIN kinds)
    /\ acted \in Seq(ToSet(acted))
    /\ (last = None \/ last \in Unit) /\ joins \in Nat /\ surplus \in Nat
    /\ missing \subseteq {k \in DOMAIN kinds : kinds[k] = "missing"}
    /\ alive \in BOOLEAN

\* The commands not acted on.
Open == SubSeq(arrival, Len(acted) + 1, Len(arrival))

\* b holds the units of some commands, up to l in the last of them.
Held(b, ks, l) ==
    IF ks = << >> THEN b = << >> /\ (l = None \/ l[2] = Header + Size(l[1]))
    ELSE LET k == ks[Len(ks)]
         IN  /\ l[1] = k /\ l[2] \in 1 .. Header + Size(k)
             /\ b = Stream(SubSeq(ks, 1, Len(ks) - 1)) \o SubSeq(Units(k, Size(k)), 1, l[2])

\* What has arrived was acted on, in order, or is held.
Ordered == ActedInOrder /\ Len(acted) <= Len(arrival) /\ Held(command_buffer, Open, last)
\* The inductive invariants of InOrder and of NothingWaits.
OrderIInv == LotTypes /\ (Orderly => Ordered)
WaitIInv == OrderIInv /\ NothingWaits
-------------------------------------------------------------------------------
\* Data have no unit or two.
LEMMA SizeFacts ==
    ASSUME NEW k
    PROVE  Size(k) \in {0, 2} /\ Header = 2 /\ Header + Size(k) \in Nat /\ Header + Size(k) \in 2 .. 4
BY DEF Size, Header

\* The units of a command, one by one.
LEMMA UnitsFacts ==
    ASSUME NEW k \in DOMAIN kinds
    PROVE  /\ Units(k, Size(k)) \in Seq(Unit) /\ Len(Units(k, Size(k))) = Header + Size(k)
           /\ \A i \in 1 .. Header + Size(k) : Units(k, Size(k))[i] = <<k, i>>
<1> DEFINE m == Header + Size(k)
<1>1. m \in Nat
  BY SizeFacts
<1>2. Units(k, Size(k)) = [i \in 1 .. m |-> <<k, i>>]
  BY DEF Units
<1> HIDE DEF m
<1>3. \A i \in 1 .. m : <<k, i>> \in Unit
  BY <1>1 DEF Unit
<1>4. [i \in 1 .. m |-> <<k, i>>] \in Seq(Unit) /\ Len([i \in 1 .. m |-> <<k, i>>]) = m
  BY <1>1, <1>3
<1> QED BY <1>2, <1>4 DEF m

\* The first r units of a command.
LEMMA FrontFacts ==
    ASSUME NEW k \in DOMAIN kinds, NEW r \in 1 .. Header + Size(k)
    PROVE  LET p == SubSeq(Units(k, Size(k)), 1, r)
           IN  /\ p \in Seq(Unit) /\ Len(p) = r /\ \A i \in 1 .. r : p[i] = <<k, i>>
               /\ r < Header + Size(k) => Append(p, <<k, r + 1>>) = SubSeq(Units(k, Size(k)), 1, r + 1)
               /\ r = Header + Size(k) => p = Units(k, Size(k))
<1> DEFINE u == Units(k, Size(k))
           m == Header + Size(k)
<1>1. u \in Seq(Unit) /\ Len(u) = m /\ \A i \in 1 .. m : u[i] = <<k, i>>
  BY UnitsFacts
<1>2. m \in Nat /\ r \in 1 .. m
  BY SizeFacts
<1> HIDE DEF u, m
<1>3. SubSeq(u, 1, r) \in Seq(Unit) /\ Len(SubSeq(u, 1, r)) = r /\ \A i \in 1 .. r : SubSeq(u, 1, r)[i] = <<k, i>>
  BY <1>1, <1>2
<1>4. r < m => Append(SubSeq(u, 1, r), <<k, r + 1>>) = SubSeq(u, 1, r + 1)
  <2> SUFFICES ASSUME r < m PROVE Append(SubSeq(u, 1, r), <<k, r + 1>>) = SubSeq(u, 1, r + 1)
    OBVIOUS
  <2>1. r + 1 \in 1 .. m
    BY <1>2
  <2>2. u[r + 1] = <<k, r + 1>>
    BY <1>1, <2>1
  <2>3. r \in Nat /\ r < Len(u)
    BY <1>1, <1>2
  <2>4. SubSeq(u, 1, r + 1) = Append(SubSeq(u, 1, r), u[r + 1])
    BY <1>1, <2>3, PrefixStep
  <2> QED BY <2>2, <2>4
<1>5. r = m => SubSeq(u, 1, r) = u
  BY <1>1
<1> QED BY <1>3, <1>4, <1>5 DEF u, m

\* A stream is built one command at a time.
LEMMA StreamFacts ==
    /\ Stream(<< >>) = << >>
    /\ \A ks \in Seq(DOMAIN kinds) : Stream(ks) \in Seq(Unit)
    /\ \A ks \in Seq(DOMAIN kinds), k \in DOMAIN kinds :
          /\ Stream(Append(ks, k)) = Stream(ks) \o Units(k, Size(k))
          /\ Stream(<<k>> \o ks) = Units(k, Size(k)) \o Stream(ks)
<1> DEFINE All(ks) == [i \in DOMAIN ks |-> Units(ks[i], Size(ks[i]))]
<1>1. \A ks : Stream(ks) = FlattenSeq(All(ks))
  BY DEF Stream
<1>2. ASSUME NEW k \in DOMAIN kinds PROVE Units(k, Size(k)) \in Seq(Unit)
  BY UnitsFacts
<1>3. ASSUME NEW ks \in Seq(DOMAIN kinds) PROVE All(ks) \in Seq(Seq(Unit)) /\ Len(All(ks)) = Len(ks)
  <2>1. \A i \in 1 .. Len(ks) : Units(ks[i], Size(ks[i])) \in Seq(Unit)
    BY <1>2
  <2>2. DOMAIN ks = 1 .. Len(ks) /\ Len(ks) \in Nat
    OBVIOUS
  <2> QED BY <2>1, <2>2
<1>4. All(<< >>) = << >>
  OBVIOUS
<1>5. ASSUME NEW ks \in Seq(DOMAIN kinds), NEW k \in DOMAIN kinds
      PROVE  /\ All(Append(ks, k)) = Append(All(ks), Units(k, Size(k)))
             /\ All(<<k>> \o ks) = <<Units(k, Size(k))>> \o All(ks)
  <2> DEFINE u(j) == Units(j, Size(j))
             n == Len(ks)
             s == Append(ks, k)
             t == <<k>> \o ks
  <2>1. n \in Nat /\ DOMAIN ks = 1 .. n /\ DOMAIN s = 1 .. n + 1 /\ DOMAIN t = 1 .. n + 1
        /\ s \in Seq(DOMAIN kinds) /\ t \in Seq(DOMAIN kinds) /\ Len(s) = n + 1 /\ Len(t) = n + 1
        /\ (\A i \in 1 .. n : s[i] = ks[i] /\ t[i + 1] = ks[i]) /\ s[n + 1] = k /\ t[1] = k
    OBVIOUS
  <2>2. /\ All(s) \in Seq(Seq(Unit)) /\ Len(All(s)) = n + 1 /\ All(t) \in Seq(Seq(Unit)) /\ Len(All(t)) = n + 1
        /\ All(ks) \in Seq(Seq(Unit)) /\ Len(All(ks)) = n /\ u(k) \in Seq(Unit)
    BY <1>2, <1>3, <2>1
  <2>3. /\ \A i \in 1 .. n + 1 : All(s)[i] = u(s[i]) /\ All(t)[i] = u(t[i])
        /\ \A i \in 1 .. n : All(ks)[i] = u(ks[i])
    BY <2>1
  <2> HIDE DEF s, t, u, n, All
  <2>4. All(s) = Append(All(ks), u(k))
    <3>1. ASSUME NEW i \in 1 .. n + 1 PROVE All(s)[i] = Append(All(ks), u(k))[i]
      <4>1. i = n + 1 \/ i \in 1 .. n
        BY <2>1
      <4> QED BY <2>1, <2>2, <2>3, <4>1
    <3>2. Append(All(ks), u(k)) \in Seq(Seq(Unit)) /\ Len(Append(All(ks), u(k))) = n + 1
      BY <2>2
    <3> QED BY <2>2, <3>1, <3>2, SeqEqual
  <2>5. All(t) = <<u(k)>> \o All(ks)
    <3>1. ASSUME NEW i \in 1 .. n + 1 PROVE All(t)[i] = (<<u(k)>> \o All(ks))[i]
      <4>1. CASE i = 1
        BY <2>1, <2>2, <2>3, <4>1
      <4>2. CASE i # 1
        <5>1. i - 1 \in 1 .. n /\ (i - 1) + 1 = i
          BY <2>1, <4>2
        <5>2. All(t)[i] = u(ks[i - 1])
          BY <2>1, <2>3, <5>1
        <5>3. (<<u(k)>> \o All(ks))[i] = All(ks)[i - 1]
          BY <2>1, <2>2, <4>2, <5>1, SMTT(30)
        <5> QED BY <2>3, <5>1, <5>2, <5>3
      <4> QED BY <4>1, <4>2
    <3>2. <<u(k)>> \o All(ks) \in Seq(Seq(Unit)) /\ Len(<<u(k)>> \o All(ks)) = n + 1
      BY <2>1, <2>2
    <3> QED BY <2>2, <3>1, <3>2, SeqEqual
  <2> QED BY <2>4, <2>5 DEF s, t, u
<1> HIDE DEF All
<1>6. Stream(<< >>) = << >>
  BY <1>1, <1>4, FlattenEmpty
<1>7. \A ks \in Seq(DOMAIN kinds) : Stream(ks) \in Seq(Unit)
  BY <1>1, <1>3, FlattenType
<1>8. ASSUME NEW ks \in Seq(DOMAIN kinds), NEW k \in DOMAIN kinds
      PROVE  /\ Stream(Append(ks, k)) = Stream(ks) \o Units(k, Size(k))
             /\ Stream(<<k>> \o ks) = Units(k, Size(k)) \o Stream(ks)
  <2>1. All(ks) \in Seq(Seq(Unit)) /\ Units(k, Size(k)) \in Seq(Unit)
    BY <1>2, <1>3
  <2>2. FlattenSeq(Append(All(ks), Units(k, Size(k)))) = FlattenSeq(All(ks)) \o Units(k, Size(k))
    BY <2>1, FlattenAppend
  <2>3. FlattenSeq(<<Units(k, Size(k))>> \o All(ks)) = Units(k, Size(k)) \o FlattenSeq(All(ks))
    BY <2>1, FlattenCons
  <2> QED BY <1>1, <1>5, <2>2, <2>3
<1> QED BY <1>6, <1>7, <1>8

\* The commands begun, one unit at a time.
LEMMA BegunFacts ==
    /\ Begun(<< >>) = << >>
    /\ \A s \in Seq(Unit) : Begun(s) \in Seq(DOMAIN kinds)
    /\ \A s \in Seq(Unit), v \in Unit :
          Begun(Append(s, v)) = Begun(s) \o (IF v[2] = 1 THEN <<v[1]>> ELSE << >>)
<1> DEFINE one(u) == IF u[2] = 1 THEN <<u[1]>> ELSE << >>
           All(s) == [i \in DOMAIN s |-> one(s[i])]
<1>1. \A s : Begun(s) = FlattenSeq(All(s))
  BY DEF Begun
<1>2. ASSUME NEW u \in Unit PROVE one(u) \in Seq(DOMAIN kinds)
  <2> DEFINE k == u[1]
  <2>1. k \in DOMAIN kinds
    BY DEF Unit
  <2> HIDE DEF k
  <2>2. <<k>> \in Seq(DOMAIN kinds) /\ << >> \in Seq(DOMAIN kinds)
    BY <2>1
  <2> QED BY <2>2 DEF k
<1>3. ASSUME NEW s \in Seq(Unit) PROVE All(s) \in Seq(Seq(DOMAIN kinds)) /\ Len(All(s)) = Len(s)
  <2>1. \A i \in 1 .. Len(s) : one(s[i]) \in Seq(DOMAIN kinds)
    BY <1>2
  <2>2. DOMAIN s = 1 .. Len(s) /\ Len(s) \in Nat
    OBVIOUS
  <2> HIDE DEF one
  <2> QED BY <2>1, <2>2
<1>4. All(<< >>) = << >>
  OBVIOUS
<1>5. ASSUME NEW s \in Seq(Unit), NEW v \in Unit PROVE All(Append(s, v)) = Append(All(s), one(v))
  <2> DEFINE n == Len(s)
             t == Append(s, v)
  <2>1. n \in Nat /\ DOMAIN s = 1 .. n /\ DOMAIN t = 1 .. n + 1 /\ t \in Seq(Unit) /\ Len(t) = n + 1
        /\ (\A i \in 1 .. n : t[i] = s[i]) /\ t[n + 1] = v
    OBVIOUS
  <2>2. /\ All(t) \in Seq(Seq(DOMAIN kinds)) /\ Len(All(t)) = n + 1
        /\ All(s) \in Seq(Seq(DOMAIN kinds)) /\ Len(All(s)) = n /\ one(v) \in Seq(DOMAIN kinds)
    BY <1>2, <1>3, <2>1
  <2> HIDE DEF one
  <2>3. (\A i \in 1 .. n + 1 : All(t)[i] = one(t[i])) /\ \A i \in 1 .. n : All(s)[i] = one(s[i])
    BY <2>1
  <2> HIDE DEF t, n, All
  <2>4. ASSUME NEW i \in 1 .. n + 1 PROVE All(t)[i] = Append(All(s), one(v))[i]
    <3>1. i = n + 1 \/ i \in 1 .. n
      BY <2>1
    <3> QED BY <2>1, <2>2, <2>3, <3>1
  <2>5. Append(All(s), one(v)) \in Seq(Seq(DOMAIN kinds)) /\ Len(Append(All(s), one(v))) = n + 1
    BY <2>2
  <2>6. All(t) = Append(All(s), one(v))
    BY <2>2, <2>4, <2>5, SeqEqual
  <2> QED BY <2>6 DEF t
<1> HIDE DEF All
<1>6. Begun(<< >>) = << >>
  BY <1>1, <1>4, FlattenEmpty
<1>7. \A s \in Seq(Unit) : Begun(s) \in Seq(DOMAIN kinds)
  BY <1>1, <1>3, FlattenType
<1>8. ASSUME NEW s \in Seq(Unit), NEW v \in Unit
      PROVE  Begun(Append(s, v)) = Begun(s) \o one(v)
  <2>1. All(s) \in Seq(Seq(DOMAIN kinds)) /\ one(v) \in Seq(DOMAIN kinds)
    BY <1>2, <1>3
  <2> HIDE DEF one
  <2>2. FlattenSeq(Append(All(s), one(v))) = FlattenSeq(All(s)) \o one(v)
    BY <2>1, FlattenAppend
  <2> QED BY <1>1, <1>5, <2>2
<1> QED BY <1>6, <1>7, <1>8

\* One unit more.
LEMMA UnitAppend ==
    \A s, t \in Seq(Unit), v \in Unit : Append(s \o t, v) = s \o Append(t, v)
<1> DEFINE S == Unit
<1> HIDE DEF S
<1>1. ASSUME NEW s \in Seq(S), NEW t \in Seq(S), NEW v \in S PROVE Append(s \o t, v) = s \o Append(t, v)
  <2>1. Append(s \o t, v) = (s \o t) \o <<v>> /\ Append(t, v) = t \o <<v>> /\ <<v>> \in Seq(S)
    OBVIOUS
  <2>2. (s \o t) \o <<v>> = s \o (t \o <<v>>)
    BY <2>1, ConcatAssociative
  <2> QED BY <2>1, <2>2
<1> QED BY <1>1 DEF S

\* A unit comes, and it follows the last one.
LEMMA HeldUnit ==
    ASSUME LotTypes, NEW b \in Seq(Unit), NEW ks \in Seq(DOMAIN kinds), NEW l, Held(b, ks, l),
           NEW v \in Unit, Follows(l, v)
    PROVE  Held(Append(b, v), ks \o (IF v[2] = 1 THEN <<v[1]>> ELSE << >>), v)
<1>1. v = <<v[1], v[2]>> /\ v[1] \in DOMAIN kinds /\ v[2] \in Nat \ {0}
  BY DEF Unit
<1>2. DOMAIN kinds \subseteq Nat \ {0}
  BY DEF LotTypes
<1>3. CASE (l = None \/ l[2] = Header + Size(l[1])) /\ (ks # << >> => b = Stream(ks))
  <2> DEFINE k == v[1]
             js == Append(ks, k)
  <2>1. v[2] = 1
    BY <1>3 DEF Follows
  <2>2. v = <<k, 1>> /\ k \in DOMAIN kinds
    BY <1>1, <2>1
  <2>3. js # << >> /\ js[Len(js)] = k /\ SubSeq(js, 1, Len(js) - 1) = ks /\ ks \o <<k>> = js
    BY <2>2
  <2>4. b = Stream(ks)
    BY <1>3, StreamFacts DEF Held
  <2>5. 1 \in 1 .. Header + Size(k)
    BY SizeFacts
  <2> DEFINE p == SubSeq(Units(k, Size(k)), 1, 1)
  <2>6. p = <<v>>
    <3>1. p \in Seq(Unit) /\ Len(p) = 1 /\ \A i \in 1 .. 1 : p[i] = <<k, i>>
      BY <2>2, <2>5, FrontFacts
    <3> HIDE DEF p, k
    <3>2. p[1] = v
      BY <2>2, <3>1
    <3> QED BY <3>1, <3>2
  <2>7. Append(b, v) = Stream(ks) \o p
    <3> HIDE DEF p
    <3> QED BY <2>4, <2>6
  <2> HIDE DEF k, js
  <2>8. Held(Append(b, v), js, v)
    BY <2>2, <2>3, <2>5, <2>7 DEF Held
  <2> QED BY <2>1, <2>3, <2>8 DEF k
<1>4. CASE ks # << >> /\ l[2] # Header + Size(l[1])
  <2> DEFINE k == ks[Len(ks)]
             r == l[2]
             front == SubSeq(ks, 1, Len(ks) - 1)
  <2>1. /\ l[1] = k /\ r \in 1 .. Header + Size(k)
        /\ b = Stream(front) \o SubSeq(Units(k, Size(k)), 1, r)
    BY <1>4 DEF Held
  <2>2. k \in DOMAIN kinds /\ front \in Seq(DOMAIN kinds)
    BY <1>4
  <2>3. Header + Size(k) \in Nat
    BY SizeFacts
  <2>4. l # None
    BY <1>2, <2>1, <2>2 DEF None
  <2>5. v = <<k, r + 1>> /\ r < Header + Size(k)
    BY <1>4, <2>1, <2>3, <2>4 DEF Follows
  <2> DEFINE p == SubSeq(Units(k, Size(k)), 1, r)
             q == SubSeq(Units(k, Size(k)), 1, r + 1)
  <2>6. p \in Seq(Unit) /\ Append(p, v) = q
    <3>1. k \in DOMAIN kinds /\ r \in 1 .. Header + Size(k)
      BY <2>1, <2>2
    <3> HIDE DEF k, r
    <3> QED BY <2>5, <3>1, FrontFacts
  <2>7. Stream(front) \in Seq(Unit)
    BY <2>2, StreamFacts
  <2> HIDE DEF p, q, front, k, r
  <2>8. Append(Stream(front) \o p, v) = Stream(front) \o Append(p, v)
    <3> DEFINE x == Stream(front)
    <3>1. x \in Seq(Unit) /\ p \in Seq(Unit) /\ v \in Unit
      BY <2>6, <2>7
    <3> HIDE DEF x
    <3>2. \A s, t \in Seq(Unit), w \in Unit : Append(s \o t, w) = s \o Append(t, w)
      BY UnitAppend
    <3>3. Append(x \o p, v) = x \o Append(p, v)
      BY <3>1, <3>2
    <3> QED BY <3>3 DEF x
  <2>9. Append(b, v) = Stream(front) \o q
    BY <2>1, <2>6, <2>8 DEF p
  <2>10. v[1] = k /\ v[2] = r + 1 /\ r + 1 \in 1 .. Header + Size(k) /\ r + 1 # 1
    BY <2>1, <2>3, <2>5
  <2>11. Held(Append(b, v), ks, v)
    BY <1>4, <2>9, <2>10 DEF Held, k, q, front
  <2>12. v[2] # 1
    BY <2>10
  <2>13. ks \o << >> = ks
    OBVIOUS
  <2> QED BY <2>11, <2>12, <2>13
<1>5. CASE ks # << >> /\ l[2] = Header + Size(l[1])
  <2> DEFINE k == ks[Len(ks)]
             front == SubSeq(ks, 1, Len(ks) - 1)
  <2>1. /\ l[1] = k /\ l[2] \in 1 .. Header + Size(k)
        /\ b = Stream(front) \o SubSeq(Units(k, Size(k)), 1, l[2])
    BY <1>5 DEF Held
  <2>2. k \in DOMAIN kinds /\ front \in Seq(DOMAIN kinds) /\ Append(front, k) = ks
    BY <1>5
  <2> HIDE DEF k, front
  <2>3. SubSeq(Units(k, Size(k)), 1, l[2]) = Units(k, Size(k))
    BY <1>5, <2>1, <2>2, FrontFacts
  <2>4. b = Stream(ks)
    BY <2>1, <2>2, <2>3, StreamFacts
  <2> QED BY <1>3, <1>5, <2>4
<1>6. CASE ks = << >>
  <2>1. l = None \/ l[2] = Header + Size(l[1])
    BY <1>6 DEF Held
  <2> QED BY <1>3, <1>6, <2>1
<1> QED BY <1>4, <1>5, <1>6

\* Units with no join all follow each other.
LEMMA NoJoins ==
    ASSUME NEW u \in Seq(Unit \cup {None}), Joins(u) = 0
    PROVE  \A i \in 2 .. Len(u) : Follows(u[i - 1], u[i])
<1> DEFINE J == {i \in 2 .. Len(u) : ~ Follows(u[i - 1], u[i])}
<1>1. IsFiniteSet(2 .. Len(u)) /\ J \subseteq 2 .. Len(u)
  BY FS_Interval
<1>2. Cardinality(J) = 0
  BY DEF Joins
<1> HIDE DEF J
<1>3. IsFiniteSet(J)
  BY <1>1, FS_Subset
<1>4. J = {}
  BY <1>2, <1>3, FS_EmptySet
<1> QED BY <1>4 DEF J

\* A piece of whole commands comes.
LEMMA HeldData ==
    ASSUME LotTypes, NEW b \in Seq(Unit), NEW ks \in Seq(DOMAIN kinds), NEW l \in Unit \cup {None},
           Held(b, ks, l), NEW data \in Seq(Unit), Len(data) > 0, Joins(<<l>> \o data) = 0
    PROVE  Held(b \o data, ks \o Begun(data), data[Len(data)])
<1> DEFINE n == Len(data)
           p(m) == SubSeq(data, 1, m)
           at(m) == IF m = 0 THEN l ELSE data[m]
           N == {m \in Nat : m <= n => Held(b \o p(m), ks \o Begun(p(m)), at(m))}
<1>1. n \in Nat /\ n > 0 /\ p(0) = << >> /\ p(n) = data /\ at(0) = l /\ at(n) = data[n]
  OBVIOUS
<1>2. 0 \in N
  <2>1. b \o << >> = b /\ ks \o << >> = ks
    OBVIOUS
  <2>2. Held(b \o p(0), ks \o Begun(p(0)), at(0))
    BY <1>1, <2>1, BegunFacts
  <2> QED BY <2>2
<1>3. ASSUME NEW m \in Nat, m \in N PROVE m + 1 \in N
  <2> SUFFICES ASSUME m + 1 <= n PROVE Held(b \o p(m + 1), ks \o Begun(p(m + 1)), at(m + 1))
    OBVIOUS
  <2> DEFINE v == data[m + 1]
             w == p(m)
             e == IF v[2] = 1 THEN <<v[1]>> ELSE << >>
  <2>1. m < n /\ m + 1 # 0
    BY <1>1
  <2>2. p(m + 1) = Append(w, v) /\ w \in Seq(Unit) /\ v \in Unit
    BY <2>1, PrefixStep
  <2>3. Held(b \o w, ks \o Begun(w), at(m))
    BY <1>3, <2>1
  <2>4. at(m + 1) = v
    BY <2>1
  <2>5. Follows(at(m), v)
    <3> DEFINE u == <<l>> \o data
    <3>1. u \in Seq(Unit \cup {None}) /\ Len(u) = n + 1 /\ u[1] = l /\ \A i \in 1 .. n : u[i + 1] = data[i]
      OBVIOUS
    <3>2. m + 2 \in 2 .. n + 1 /\ (m + 2) - 1 = m + 1 /\ m + 1 \in 1 .. n /\ (m + 1) + 1 = m + 2 /\ (m # 0 => m \in 1 .. n)
      BY <1>1, <2>1
    <3> HIDE DEF u, n
    <3>3. \A i \in 2 .. Len(u) : Follows(u[i - 1], u[i])
      BY <3>1, NoJoins DEF u
    <3>4. Follows(u[m + 1], u[m + 2])
      BY <3>1, <3>2, <3>3
    <3>5. u[m + 1] = at(m) /\ u[m + 2] = v
      BY <3>1, <3>2
    <3> QED BY <3>4, <3>5
  <2>6. Begun(w) \in Seq(DOMAIN kinds) /\ Begun(Append(w, v)) = Begun(w) \o e /\ e \in Seq(DOMAIN kinds)
    <3> DEFINE k == v[1]
    <3>1. k \in DOMAIN kinds
      BY <2>2 DEF Unit
    <3> HIDE DEF k, v
    <3>2. <<k>> \in Seq(DOMAIN kinds) /\ << >> \in Seq(DOMAIN kinds)
      BY <3>1
    <3> HIDE DEF w
    <3>3. e \in Seq(DOMAIN kinds)
      BY <3>2 DEF k
    <3> QED BY <2>2, <3>3, BegunFacts
  <2> HIDE DEF p, w, v, at, n
  <2>7. b \o Append(w, v) = Append(b \o w, v)
    BY <2>2, UnitAppend
  <2>8. ks \o (Begun(w) \o e) = (ks \o Begun(w)) \o e
    <3> DEFINE x == Begun(w)
    <3>1. x \in Seq(DOMAIN kinds) /\ e \in Seq(DOMAIN kinds) /\ ks \in Seq(DOMAIN kinds)
      BY <2>6
    <3> HIDE DEF x, e
    <3>2. ks \o (x \o e) = (ks \o x) \o e
      BY <3>1, ConcatAssociative, SMTT(30)
    <3> QED BY <3>2 DEF x
  <2>9. b \o w \in Seq(Unit) /\ ks \o Begun(w) \in Seq(DOMAIN kinds)
    <3> DEFINE x == Begun(w)
    <3>1. x \in Seq(DOMAIN kinds)
      BY <2>6
    <3> HIDE DEF x
    <3>2. b \o w \in Seq(Unit) /\ ks \o x \in Seq(DOMAIN kinds)
      BY <2>2, <3>1
    <3> QED BY <3>2 DEF x
  <2>10. Held(Append(b \o w, v), (ks \o Begun(w)) \o e, v)
    BY <2>2, <2>3, <2>5, <2>9, HeldUnit
  <2> QED BY <2>2, <2>4, <2>6, <2>7, <2>8, <2>10
<1> HIDE DEF N
<1>4. Nat \subseteq N
  BY <1>2, <1>3, SetInduction
<1>5. Held(b \o p(n), ks \o Begun(p(n)), at(n))
  BY <1>1, <1>4 DEF N
<1> QED BY <1>1, <1>5

\* What follows the first units of a sequence.
LEMMA AfterFirst ==
    ASSUME NEW S, NEW u \in Seq(S), NEW t \in Seq(S)
    PROVE  /\ SubSeq(u \o t, Len(u) + 1, Len(u \o t)) = t /\ Len(u \o t) >= Len(u)
           /\ \A i \in 1 .. Len(u) : (u \o t)[i] = u[i]
<1> DEFINE b == u \o t
           s == SubSeq(b, Len(u) + 1, Len(b))
<1>1. /\ b \in Seq(S) /\ Len(b) = Len(u) + Len(t) /\ Len(u) \in Nat /\ Len(t) \in Nat
      /\ (\A i \in 1 .. Len(u) : b[i] = u[i]) /\ \A i \in 1 .. Len(t) : b[Len(u) + i] = t[i]
  OBVIOUS
<1> HIDE DEF b
<1>2. s \in Seq(S) /\ Len(s) = Len(t) /\ \A i \in 1 .. Len(t) : s[i] = b[Len(u) + i]
  BY <1>1
<1> HIDE DEF s
<1>3. s = t
  BY <1>1, <1>2, SeqEqual
<1> QED BY <1>1, <1>3 DEF b, s

\* The first, the last and those between.
LEMMA TailFront ==
    ASSUME NEW S, NEW s \in Seq(S), s # << >>
    PROVE  LET n == Len(s)
               front == SubSeq(s, 1, n - 1)
           IN  /\ n = 1 => s[n] = s[1] /\ front = << >> /\ Tail(s) = << >>
               /\ n > 1 => /\ front = <<s[1]>> \o Tail(front) /\ Tail(front) \in Seq(S)
                           /\ Tail(s) # << >> /\ Tail(s)[n - 1] = s[n]
                           /\ SubSeq(Tail(s), 1, n - 1 - 1) = Tail(front)
<1> DEFINE n == Len(s)
           front == SubSeq(s, 1, n - 1)
           mid == Tail(front)
           t == Tail(s)
<1>1. n \in Nat /\ n > 0
  OBVIOUS
<1>2. n = 1 => front = << >> /\ t = << >>
  <2> SUFFICES ASSUME n = 1 PROVE front = << >> /\ t = << >>
    OBVIOUS
  <2>1. Len(t) = 0 /\ t \in Seq(S)
    OBVIOUS
  <2>2. front = << >>
    OBVIOUS
  <2> HIDE DEF t
  <2> QED BY <2>1, <2>2
<1>3. n > 1 => /\ front = <<s[1]>> \o mid /\ mid \in Seq(S)
               /\ t # << >> /\ t[n - 1] = s[n] /\ SubSeq(t, 1, n - 1 - 1) = mid
  <2> SUFFICES ASSUME n > 1 PROVE /\ front = <<s[1]>> \o mid /\ mid \in Seq(S)
                                  /\ t # << >> /\ t[n - 1] = s[n] /\ SubSeq(t, 1, n - 1 - 1) = mid
    OBVIOUS
  <2>1. front \in Seq(S) /\ Len(front) = n - 1 /\ \A i \in 1 .. n - 1 : front[i] = s[i]
    BY <1>1
  <2>2. t \in Seq(S) /\ Len(t) = n - 1 /\ \A i \in 1 .. n - 1 : t[i] = s[i + 1]
    BY <1>1
  <2> HIDE DEF n, front, t
  <2>3. mid \in Seq(S) /\ Len(mid) = n - 2 /\ \A i \in 1 .. n - 2 : mid[i] = front[i + 1]
    BY <1>1, <2>1
  <2> HIDE DEF mid
  <2> DEFINE g == <<s[1]>> \o mid
             h == SubSeq(t, 1, n - 1 - 1)
  <2>4. s[1] \in S
    BY <1>1 DEF n
  <2>5. front = g
    <3>1. g \in Seq(S) /\ Len(g) = n - 1 /\ g[1] = s[1] /\ \A i \in 2 .. n - 1 : g[i] = mid[i - 1]
      BY <1>1, <2>3, <2>4
    <3> HIDE DEF g
    <3>2. \A i \in 1 .. n - 1 : front[i] = g[i]
      BY <1>1, <2>1, <2>3, <3>1
    <3> QED BY <2>1, <3>1, <3>2, SeqEqual
  <2>6. h = mid
    <3>1. h \in Seq(S) /\ Len(h) = n - 2 /\ \A i \in 1 .. n - 2 : h[i] = t[i]
      BY <1>1, <2>2
    <3> HIDE DEF h
    <3>2. \A i \in 1 .. n - 2 : h[i] = mid[i]
      BY <1>1, <2>1, <2>2, <2>3, <3>1
    <3> QED BY <2>3, <3>1, <3>2, SeqEqual
  <2>7. t # << >> /\ t[n - 1] = s[n]
    BY <1>1, <2>2
  <2> QED BY <2>3, <2>5, <2>6, <2>7
<1>4. n = 1 => s[n] = s[1]
  OBVIOUS
<1> QED BY <1>2, <1>3, <1>4

\* The first command held: its units come first, and if it is all there, the
\* other commands are held behind it.
LEMMA HeldFirst ==
    ASSUME LotTypes, NEW b \in Seq(Unit), NEW ks \in Seq(DOMAIN kinds), NEW l, Held(b, ks, l), ks # << >>
    PROVE  LET k == ks[1]
               m == Header + Size(k)
           IN  /\ Len(b) >= 1 /\ \A i \in 1 .. Len(b) : i <= m => b[i] = <<k, i>>
               /\ Len(b) >= m => Held(SubSeq(b, m + 1, Len(b)), Tail(ks), l)
<1> DEFINE n == Len(ks)
           j == ks[n]
           front == SubSeq(ks, 1, n - 1)
           r == l[2]
           p == SubSeq(Units(j, Size(j)), 1, r)
           k == ks[1]
           m == Header + Size(k)
<1>1. /\ l[1] = j /\ r \in 1 .. Header + Size(j) /\ b = Stream(front) \o p
  BY DEF Held
<1>2. n \in Nat /\ n > 0 /\ j \in DOMAIN kinds /\ front \in Seq(DOMAIN kinds) /\ k \in DOMAIN kinds
      /\ Tail(ks) \in Seq(DOMAIN kinds) /\ Len(Tail(ks)) = n - 1
  OBVIOUS
<1>3. p \in Seq(Unit) /\ Len(p) = r /\ (\A i \in 1 .. r : p[i] = <<j, i>>) /\ r \in Nat
  <2>1. j \in DOMAIN kinds /\ r \in 1 .. Header + Size(j)
    BY <1>1, <1>2
  <2> HIDE DEF j, r
  <2>2. p \in Seq(Unit) /\ Len(p) = r /\ \A i \in 1 .. r : p[i] = <<j, i>>
    BY <2>1, FrontFacts
  <2>3. r \in Nat
    BY <2>1, SizeFacts
  <2> QED BY <2>2, <2>3
<1>4. m \in 2 .. 4
  BY SizeFacts
<1>5. CASE n = 1
  <2>1. j = k /\ front = << >> /\ Tail(ks) = << >>
    BY <1>5, TailFront
  <2>2. b = p
    <3> HIDE DEF p, front
    <3>1. b = << >> \o p
      BY <1>1, <2>1, StreamFacts
    <3> QED BY <1>3, <3>1
  <2>3. r <= m /\ r >= 1 /\ r \in Nat
    BY <1>1, <1>3, <1>4, <2>1
  <2> HIDE DEF p, front, n, r, m, k, j
  <2>4. Len(b) >= 1 /\ \A i \in 1 .. Len(b) : i <= m => b[i] = <<k, i>>
    BY <1>3, <2>1, <2>2, <2>3
  <2>5. ASSUME Len(b) >= m PROVE Held(SubSeq(b, m + 1, Len(b)), Tail(ks), l)
    <3>1. r = m /\ Len(b) = m
      BY <1>3, <1>4, <2>2, <2>3, <2>5
    <3>2. SubSeq(b, m + 1, Len(b)) = << >>
      BY <1>4, <3>1
    <3>3. l[2] = Header + Size(l[1])
      BY <1>1, <2>1, <3>1 DEF r, m
    <3> QED BY <2>1, <3>2, <3>3 DEF Held
  <2> QED BY <2>4, <2>5 DEF k, m
<1>6. CASE n # 1
  <2> DEFINE mid == Tail(front)
             u == Units(k, Size(k))
             t == Stream(mid) \o p
  <2>1. /\ front = <<k>> \o mid /\ mid \in Seq(DOMAIN kinds) /\ Tail(ks) # << >>
        /\ Tail(ks)[n - 1] = j /\ SubSeq(Tail(ks), 1, n - 1 - 1) = mid
    <3>1. n > 1
      BY <1>2, <1>6
    <3> QED BY <3>1, TailFront
  <2>2. u \in Seq(Unit) /\ Len(u) = m /\ \A i \in 1 .. m : u[i] = <<k, i>>
    BY <1>2, UnitsFacts
  <2> HIDE DEF front, mid, p, n, r, m, k, j, u
  <2>3. Stream(front) = u \o Stream(mid) /\ Stream(mid) \in Seq(Unit)
    BY <1>2, <2>1, StreamFacts DEF u
  <2>4. t \in Seq(Unit) /\ b = u \o t
    <3> DEFINE x == Stream(mid)
               y == Stream(front)
    <3>1. x \in Seq(Unit) /\ p \in Seq(Unit) /\ u \in Seq(Unit) /\ y = u \o x /\ b = y \o p
      BY <1>1, <1>3, <2>2, <2>3
    <3> HIDE DEF x, y
    <3>2. x \o p \in Seq(Unit)
      BY <3>1
    <3>3. (u \o x) \o p = u \o (x \o p)
      BY <3>1, ConcatAssociative, SMTT(30)
    <3> QED BY <3>1, <3>2, <3>3 DEF x
  <2> HIDE DEF t
  <2>5. SubSeq(b, m + 1, Len(b)) = t /\ Len(b) >= m /\ \A i \in 1 .. m : b[i] = u[i]
    BY <2>2, <2>4, AfterFirst
  <2>6. Len(b) >= 1 /\ \A i \in 1 .. Len(b) : i <= m => b[i] = <<k, i>>
    BY <1>4, <2>2, <2>5
  <2>7. Held(t, Tail(ks), l)
    <3>1. Len(Tail(ks)) = n - 1
      BY <1>2
    <3> DEFINE s == Tail(ks)
    <3>2. s # << >> /\ s[Len(s)] = j /\ SubSeq(s, 1, Len(s) - 1) = mid
      BY <2>1, <3>1
    <3> HIDE DEF s
    <3>3. Held(t, s, l)
      BY <1>1, <3>2 DEF Held, t, p, r
    <3> QED BY <3>3 DEF s
  <2> QED BY <2>5, <2>6, <2>7 DEF k, m
<1> QED BY <1>5, <1>6

\* The least of some numbers.
LEMMA MinFacts ==
    ASSUME NEW S \in SUBSET Nat, S # {}
    PROVE  Min(S) \in S /\ \A y \in S : Min(S) <= y
<1>1. \E x \in S : \A y \in S : x <= y
  <2> SUFFICES ASSUME \A x \in S : \E y \in S : ~ x <= y PROVE FALSE
    OBVIOUS
  <2> DEFINE N == {n \in Nat : \A m \in 0 .. n : m \notin S}
  <2>1. 0 \in N
    OBVIOUS
  <2>2. ASSUME NEW n \in Nat, n \in N PROVE n + 1 \in N
    <3>1. ASSUME n + 1 \in S PROVE FALSE
      <4>1. PICK y \in S : ~ n + 1 <= y
        BY <3>1
      <4>2. y \in 0 .. n
        BY <4>1
      <4> QED BY <2>2, <4>2
    <3>2. \A m \in 0 .. n + 1 : m = n + 1 \/ m \in 0 .. n
      OBVIOUS
    <3> QED BY <2>2, <3>1, <3>2
  <2> HIDE DEF N
  <2>3. Nat \subseteq N
    BY <2>1, <2>2, SetInduction
  <2>4. PICK x \in S : TRUE
    OBVIOUS
  <2>5. x \in N /\ x \in 0 .. x
    BY <2>3
  <2> QED BY <2>5 DEF N
<1> QED BY <1>1 DEF Min

\* CommandEnd is 0, or the first newline's place.
LEMMA EndFacts ==
    ASSUME NEW b \in Seq(Unit)
    PROVE  LET e == CommandEnd(b)
           IN  \/ e = 0 /\ \A i \in 1 .. Len(b) : ~ IsNewline(b[i])
               \/ e \in 1 .. Len(b) /\ IsNewline(b[e]) /\ \A i \in 1 .. e - 1 : ~ IsNewline(b[i])
<1> DEFINE I == {i \in 1 .. Len(b) : IsNewline(b[i])}
<1>1. CommandEnd(b) = IF I # {} THEN Min(I) ELSE 0
  BY DEF CommandEnd, SelectInSeq
<1>2. I \in SUBSET Nat /\ Len(b) \in Nat
  OBVIOUS
<1>3. CASE I = {}
  BY <1>1, <1>3
<1>4. CASE I # {}
  <2> DEFINE e == Min(I)
  <2>1. e \in I /\ \A y \in I : e <= y
    <3> HIDE DEF I
    <3> QED BY <1>2, <1>4, MinFacts
  <2> HIDE DEF e
  <2>2. e \in 1 .. Len(b) /\ IsNewline(b[e])
    BY <2>1
  <2>3. ASSUME NEW i \in 1 .. e - 1 PROVE ~ IsNewline(b[i])
    <3>1. i \in 1 .. Len(b) /\ ~ e <= i
      BY <1>2, <2>2
    <3> QED BY <2>1, <3>1
  <2> QED BY <1>1, <1>4, <2>2, <2>3 DEF e
<1> QED BY <1>3, <1>4

\* What handle_new_file may do.
LEMMA HandlerCases ==
    ASSUME LotTypes, NEW data \in Seq(Unit), HandleNewFile(data)
    PROVE  LET b == command_buffer \o data
               e == CommandEnd(b)
           IN  /\ b \in Seq(Unit) /\ alive' \in BOOLEAN
               /\ \/ acted' = acted /\ command_buffer' = b
                  \/ /\ acted' = acted /\ e \in 1 .. Len(b)
                     /\ ~ IsHeader(SubSeq(b, 1, e - 1)) /\ command_buffer' = SubSeq(b, e + 1, Len(b))
                  \/ \E k \in DOMAIN kinds : \E d :
                         /\ e # 0 /\ SubSeq(b, 1, e - 1) = <<<<k, 1>>>>
                         /\ acted' = Append(acted, [command |-> k, data |-> d])
                         /\ \/ kinds[k] = "stream" /\ command_buffer' = SubSeq(b, e + Size(k) + 1, Len(b))
                            \/ kinds[k] # "stream" /\ command_buffer' = SubSeq(b, e + 1, Len(b))
<1> DEFINE b == command_buffer \o data
           e == CommandEnd(b)
           line == SubSeq(b, 1, e - 1)
           k == line[1][1]
<1>1. b \in Seq(Unit)
  BY DEF LotTypes
<1>2. e = 0 \/ e \in 1 .. Len(b)
  BY <1>1, EndFacts
<1>3. alive \in BOOLEAN
  BY DEF LotTypes
<1> HIDE DEF b, e, line, k
<1>4. CASE e = 0
  <2>1. Wait(b)
    BY <1>4 DEF HandleNewFile, b, e
  <2> QED BY <1>1, <1>3, <2>1 DEF Wait, b
<1>5. CASE e # 0 /\ ~ IsHeader(line)
  <2>1. Skip(0, b, e) \/ Raise(b)
    BY <1>5 DEF HandleNewFile, b, e, line
  <2>2. CASE Skip(0, b, e)
    BY <1>1, <1>2, <1>3, <1>5, <2>2 DEF Skip, Rest, b, e, line
  <2>3. CASE Raise(b)
    BY <1>1, <2>3 DEF Raise, Left, b
  <2> QED BY <2>1, <2>2, <2>3
<1>6. CASE e # 0 /\ IsHeader(line)
  <2>1. line = <<<<k, 1>>>> /\ k \in DOMAIN kinds
    <3>1. PICK j \in DOMAIN kinds : line = <<<<j, 1>>>>
      BY <1>6 DEF IsHeader
    <3>2. k = j
      BY <3>1 DEF k
    <3> QED BY <3>1, <3>2
  <2>2. CASE kinds[k] = "stream"
    <3>1. Take(k, SubSeq(b, e + 1, e + Size(k)), b, e + Size(k)) \/ Wait(b)
      BY <1>6, <2>2 DEF HandleNewFile, b, e, line, k
    <3>2. CASE Wait(b)
      BY <1>1, <1>3, <3>2 DEF Wait, b
    <3>3. CASE Take(k, SubSeq(b, e + 1, e + Size(k)), b, e + Size(k))
      <4>1. /\ acted' = Append(acted, [command |-> k, data |-> SubSeq(b, e + 1, e + Size(k))]) /\ alive' = alive
            /\ command_buffer' = SubSeq(b, e + Size(k) + 1, Len(b))
        BY <3>3 DEF Take, Rest
      <4> QED BY <1>1, <1>3, <1>6, <2>1, <2>2, <4>1 DEF b, e, line
    <3> QED BY <3>1, <3>2, <3>3
  <2>3. CASE kinds[k] \in {"file", "missing"}
    <3>1. Take(k, << >>, b, e) \/ Raise(b)
      BY <1>6, <2>3 DEF HandleNewFile, b, e, line, k
    <3>2. CASE Raise(b)
      BY <1>1, <3>2 DEF Raise, Left, b
    <3>3. CASE Take(k, << >>, b, e)
      <4>1. /\ acted' = Append(acted, [command |-> k, data |-> << >>]) /\ alive' = alive
            /\ command_buffer' = SubSeq(b, e + 1, Len(b))
        BY <3>3 DEF Take, Rest
      <4> QED BY <1>1, <1>3, <1>6, <2>1, <2>3, <4>1 DEF b, e, line
    <3> QED BY <3>1, <3>2, <3>3
  <2>4. CASE kinds[k] \in {"invalid", "refused"}
    <3>1. Skip(k, b, e)
      BY <1>6, <2>4 DEF HandleNewFile, b, e, line, k
    <3>2. k # 0
      BY <2>1 DEF LotTypes
    <3>3. /\ acted' = Append(acted, [command |-> k, data |-> << >>]) /\ alive' = alive
          /\ command_buffer' = SubSeq(b, e + 1, Len(b))
      BY <3>1, <3>2 DEF Skip, Rest
    <3> QED BY <1>1, <1>3, <1>6, <2>1, <2>4, <3>3 DEF b, e, line
  <2>5. CASE kinds[k] = "barred"
    <3>1. Raise(b) \/ Wait(b)
      BY <1>6, <2>5 DEF HandleNewFile, b, e, line, k
    <3>2. acted' = acted /\ command_buffer' = b /\ alive' \in BOOLEAN
      BY <1>3, <3>1 DEF Raise, Left, Wait
    <3> QED BY <1>1, <3>2 DEF b
  <2>6. kinds[k] \in AllKinds
    BY <2>1, LotAssumption DEF LotTypes
  <2> QED BY <2>2, <2>3, <2>4, <2>5, <2>6 DEF AllKinds
<1> QED BY <1>4, <1>5, <1>6

\* An element more of a sequence.
LEMMA AppendType ==
    ASSUME NEW s, s \in Seq(ToSet(s)), NEW x
    PROVE  /\ Append(s, x) \in Seq(ToSet(Append(s, x))) /\ Len(Append(s, x)) = Len(s) + 1 /\ Len(s) \in Nat
           /\ Append(s, x)[Len(s) + 1] = x /\ \A i \in 1 .. Len(s) : Append(s, x)[i] = s[i]
<1> DEFINE S == ToSet(s) \cup {x}
           t == Append(s, x)
<1>1. s \in Seq(S) /\ x \in S
  OBVIOUS
<1> HIDE DEF S
<1>2. t \in Seq(S) /\ Len(t) = Len(s) + 1 /\ Len(s) \in Nat /\ t[Len(s) + 1] = x /\ \A i \in 1 .. Len(s) : t[i] = s[i]
  BY <1>1
<1> HIDE DEF t
<1>3. t \in Seq(ToSet(t))
  <2>1. \A i \in 1 .. Len(t) : t[i] \in ToSet(t)
    BY <1>2 DEF ToSet
  <2> QED BY <1>2, <2>1
<1> QED BY <1>2, <1>3 DEF t

\* The type invariant holds at the start, and no step breaks it.
LEMMA TypesInit == Init => LotTypes
<1> SUFFICES ASSUME Init PROVE LotTypes
  OBVIOUS
<1>1. /\ kinds = << >> /\ wire = [c \in Clients |-> << >>] /\ missing = {} /\ alive = TRUE /\ command_buffer = << >>
      /\ acted = << >> /\ arrival = << >> /\ last = None /\ joins = 0 /\ surplus = 0
  BY DEF Init
<1>2. kinds \in Seq(Kinds) /\ command_buffer \in Seq(Unit) /\ arrival \in Seq(DOMAIN kinds) /\ acted \in Seq(ToSet(acted))
  BY <1>1
<1>3. wire \in [Clients -> Seq(Unit)]
  <2>1. << >> \in Seq(Unit)
    OBVIOUS
  <2> QED BY <1>1, <2>1
<1> QED BY <1>1, <1>2, <1>3 DEF LotTypes

\* Submit keeps it: the new command's units are units.
LEMMA TypesSubmit ==
    ASSUME LotTypes, NEW c \in Clients, NEW kind \in Kinds, Submit(c, kind)
    PROVE  LotTypes'
<1> DEFINE k == Len(kinds) + 1
           size == IF kind \in Streamed THEN 2 ELSE 0
           u == Units(k, size)
<1>1. /\ kinds' = Append(kinds, kind) /\ wire' = [wire EXCEPT ![c] = @ \o u]
      /\ missing' = (IF kind = "missing" THEN missing \cup {k} ELSE missing)
      /\ alive' = alive /\ command_buffer' = command_buffer /\ acted' = acted /\ arrival' = arrival
      /\ last' = last /\ joins' = joins /\ surplus' = surplus
  BY DEF Submit, encoder, history
<1>2. /\ kinds \in Seq(Kinds) /\ wire \in [Clients -> Seq(Unit)] /\ command_buffer \in Seq(Unit)
      /\ arrival \in Seq(DOMAIN kinds) /\ acted \in Seq(ToSet(acted))
      /\ (last = None \/ last \in Unit) /\ joins \in Nat /\ surplus \in Nat
      /\ missing \subseteq {j \in DOMAIN kinds : kinds[j] = "missing"} /\ alive \in BOOLEAN
  BY DEF LotTypes
<1>3. /\ kinds' \in Seq(Kinds) /\ DOMAIN kinds' = 1 .. k /\ DOMAIN kinds = 1 .. k - 1 /\ k \in Nat \ {0}
      /\ kinds'[k] = kind /\ \A j \in DOMAIN kinds : kinds'[j] = kinds[j]
  BY <1>1, <1>2
<1>4. Unit \subseteq Unit' /\ DOMAIN kinds \subseteq DOMAIN kinds'
  BY <1>3 DEF Unit
<1>5. u \in Seq(Unit')
  <2>1. size \in Nat
    OBVIOUS
  <2> HIDE DEF size
  <2>2. \A i \in 1 .. Header + size : <<k, i>> \in Unit'
    BY <1>3, <2>1 DEF Unit, Header
  <2>3. Header + size \in Nat
    BY <2>1 DEF Header
  <2> HIDE DEF k
  <2>4. [i \in 1 .. Header + size |-> <<k, i>>] \in Seq(Unit')
    BY <2>2, <2>3
  <2> QED BY <2>4 DEF Units
<1> HIDE DEF u, k
<1>6. wire' \in [Clients -> Seq(Unit')]
  <2>1. \A d \in Clients : wire[d] \in Seq(Unit')
    BY <1>2, <1>4
  <2>2. wire[c] \o u \in Seq(Unit')
    BY <1>5, <2>1
  <2> QED BY <1>1, <1>2, <2>1, <2>2
<1>7. command_buffer' \in Seq(Unit') /\ arrival' \in Seq(DOMAIN kinds') /\ (last' = None \/ last' \in Unit')
  BY <1>1, <1>2, <1>4
<1>8. missing' \subseteq {j \in DOMAIN kinds' : kinds'[j] = "missing"}
  BY <1>1, <1>2, <1>3
<1> QED BY <1>1, <1>2, <1>3, <1>6, <1>7, <1>8 DEF LotTypes

\* Deliver keeps it: the buffer is cut from units.
LEMMA TypesDeliver ==
    ASSUME LotTypes, NEW c \in Clients, Deliver(c)
    PROVE  LotTypes'
<1>1. PICK n \in 1 .. Len(wire[c]) :
        LET data == SubSeq(wire[c], 1, n)
        IN /\ HandleNewFile(data)
           /\ wire' = [wire EXCEPT ![c] = SubSeq(@, n + 1, Len(@))]
           /\ arrival' = arrival \o Begun(data)
           /\ last' = data[n]
           /\ joins' = joins + Joins(<<last>> \o data)
           /\ surplus' = surplus + (IF Completed(data) > 1 THEN Completed(data) - 1 ELSE 0)
           /\ UNCHANGED <<kinds, missing, broken>>
  BY DEF Deliver
<1> DEFINE data == SubSeq(wire[c], 1, n)
           b == command_buffer \o data
           e == CommandEnd(b)
<1>2. /\ kinds \in Seq(Kinds) /\ wire \in [Clients -> Seq(Unit)] /\ command_buffer \in Seq(Unit)
      /\ arrival \in Seq(DOMAIN kinds) /\ acted \in Seq(ToSet(acted))
      /\ (last = None \/ last \in Unit) /\ joins \in Nat /\ surplus \in Nat
      /\ missing \subseteq {j \in DOMAIN kinds : kinds[j] = "missing"} /\ alive \in BOOLEAN
  BY DEF LotTypes
<1>3. kinds' = kinds /\ missing' = missing /\ Unit' = Unit
  BY <1>1 DEF Unit
<1>4. wire[c] \in Seq(Unit) /\ data \in Seq(Unit) /\ Len(data) = n /\ n \in Nat /\ n > 0 /\ data[n] \in Unit
  BY <1>2
<1>5. wire' \in [Clients -> Seq(Unit)]
  <2>1. SubSeq(wire[c], n + 1, Len(wire[c])) \in Seq(Unit)
    BY <1>4
  <2> QED BY <1>1, <1>2, <2>1
<1>6. arrival' \in Seq(DOMAIN kinds)
  <2> DEFINE x == Begun(data)
  <2>1. x \in Seq(DOMAIN kinds) /\ arrival' = arrival \o x
    BY <1>1, <1>4, BegunFacts
  <2> HIDE DEF x
  <2> QED BY <1>2, <2>1
<1>7. joins' \in Nat /\ surplus' \in Nat
  <2> HIDE DEF data
  <2>1. Joins(<<last>> \o data) \in Nat /\ Completed(data) \in Nat
    <3> DEFINE u == <<last>> \o data
    <3>1. Len(u) \in Nat
      BY <1>2, <1>4
    <3> HIDE DEF u
    <3>2. IsFiniteSet(2 .. Len(u)) /\ {i \in 2 .. Len(u) : ~ Follows(u[i - 1], u[i])} \in SUBSET (2 .. Len(u))
      BY <3>1, FS_Interval
    <3>3. Joins(u) \in Nat
      BY <3>2, FS_Subset, FS_CardinalityType DEF Joins
    <3>4. DOMAIN data = 1 .. n
      BY <1>4
    <3>5. IsFiniteSet(1 .. n) /\ {i \in DOMAIN data : data[i][2] = Header + Size(data[i][1])} \in SUBSET (1 .. n)
      BY <1>4, <3>4, FS_Interval
    <3>6. Completed(data) \in Nat
      BY <3>5, FS_Subset, FS_CardinalityType DEF Completed
    <3> QED BY <3>3, <3>6 DEF u
  <2> DEFINE x == Joins(<<last>> \o data)
             y == Completed(data)
  <2>2. joins' = joins + x /\ surplus' = surplus + (IF y > 1 THEN y - 1 ELSE 0)
    BY <1>1 DEF data
  <2>3. x \in Nat /\ y \in Nat
    BY <2>1
  <2> HIDE DEF x, y
  <2> QED BY <1>2, <2>2, <2>3
<1>8. last' \in Unit
  BY <1>1, <1>4
<1> HIDE DEF data
<1>9. /\ b \in Seq(Unit) /\ alive' \in BOOLEAN
      /\ \/ acted' = acted /\ command_buffer' = b
         \/ acted' = acted /\ command_buffer' = SubSeq(b, e + 1, Len(b))
         \/ \E k \in DOMAIN kinds : \E d :
                /\ acted' = Append(acted, [command |-> k, data |-> d])
                /\ \/ command_buffer' = SubSeq(b, e + Size(k) + 1, Len(b))
                   \/ command_buffer' = SubSeq(b, e + 1, Len(b))
  BY <1>1, <1>4, HandlerCases DEF data
<1>10. acted' \in Seq(ToSet(acted'))
  <2>1. acted' = acted \/ \E x : acted' = Append(acted, x)
    BY <1>9
  <2>2. CASE acted' = acted
    BY <1>2, <2>2
  <2>3. ASSUME NEW x, acted' = Append(acted, x) PROVE acted' \in Seq(ToSet(acted'))
    <3>1. acted \in Seq(ToSet(acted))
      BY <1>2
    <3>2. Append(acted, x) \in Seq(ToSet(Append(acted, x)))
      BY <3>1, AppendType
    <3> QED BY <2>3, <3>2
  <2> QED BY <2>1, <2>2, <2>3
<1>11. command_buffer' \in Seq(Unit)
  <2>1. e \in Nat /\ Len(b) \in Nat
    <3>1. e = 0 \/ e \in 1 .. Len(b)
      BY <1>9, EndFacts
    <3> QED BY <1>9, <3>1
  <2>2. \A m \in Nat : SubSeq(b, m + 1, Len(b)) \in Seq(Unit)
    <3> HIDE DEF b
    <3> QED BY <1>9
  <2>3. \A k : e + Size(k) \in Nat
    BY <2>1, SizeFacts
  <2> HIDE DEF b, e
  <2> QED BY <1>9, <2>1, <2>2, <2>3
<1> QED BY <1>2, <1>3, <1>5, <1>6, <1>7, <1>8, <1>9, <1>10, <1>11 DEF LotTypes

\* So do all steps.
LEMMA TypesNext == LotTypes /\ [Next]_vars => LotTypes'
<1> SUFFICES ASSUME LotTypes, [Next]_vars PROVE LotTypes'
  OBVIOUS
<1>1. CASE \E c \in Clients, kind \in Kinds : Submit(c, kind)
  BY <1>1, TypesSubmit
<1>2. ASSUME NEW c \in Clients, Break(c) PROVE LotTypes'
  <2>1. PICK n \in 0 .. Len(wire[c]) - 1 : wire' = [wire EXCEPT ![c] = SubSeq(@, 1, n)]
    BY <1>2 DEF Break
  <2>2. UNCHANGED <<kinds, missing, encoder, history>>
    BY <1>2 DEF Break
  <2>3. SubSeq(wire[c], 1, n) \in Seq(Unit)
    BY DEF LotTypes
  <2>4. wire' \in [Clients -> Seq(Unit)]
    BY <2>1, <2>3 DEF LotTypes
  <2> QED BY <2>2, <2>4 DEF LotTypes, Unit, encoder, history
<1>3. CASE FileAppears
  BY <1>3 DEF FileAppears, LotTypes, Unit, encoder, history
<1>4. CASE \E c \in Clients : Deliver(c)
  BY <1>4, TypesDeliver
<1>5. CASE UNCHANGED vars
  BY <1>5 DEF vars, io, encoder, history, LotTypes, Unit
<1> QED BY <1>1, <1>2, <1>3, <1>4, <1>5 DEF Next

\* Short pieces.
LEMMA Pieces ==
    ASSUME NEW S, NEW s \in Seq(S)
    PROVE  /\ Len(s) >= 1 => SubSeq(s, 1, 1) = <<s[1]>>
           /\ Len(s) >= 4 => SubSeq(s, 3, 4) = <<s[3], s[4]>>
           /\ SubSeq(s, 3, 2) = << >>
<1>1. ASSUME Len(s) >= 1 PROVE SubSeq(s, 1, 1) = <<s[1]>>
  <2> DEFINE t == SubSeq(s, 1, 1)
  <2>1. t \in Seq(S) /\ Len(t) = 1 /\ t[1] = s[1]
    BY <1>1
  <2> HIDE DEF t
  <2>2. t = <<t[1]>>
    BY <2>1
  <2> QED BY <2>1, <2>2 DEF t
<1>2. ASSUME Len(s) >= 4 PROVE SubSeq(s, 3, 4) = <<s[3], s[4]>>
  <2> DEFINE t == SubSeq(s, 3, 4)
             p == <<s[3], s[4]>>
  <2>1. Len(s) \in Nat /\ s[3] \in S /\ s[4] \in S
    BY <1>2
  <2>2. t \in Seq(S) /\ Len(t) = 2 /\ t[1] = s[3] /\ t[2] = s[4]
    BY <1>2, <2>1
  <2>3. p \in Seq(S) /\ Len(p) = 2 /\ p[1] = s[3] /\ p[2] = s[4]
    BY <2>1
  <2> HIDE DEF t, p
  <2>4. \A i \in 1 .. 2 : t[i] = p[i]
    <3>1. \A i \in 1 .. 2 : i = 1 \/ i = 2
      OBVIOUS
    <3> QED BY <2>2, <2>3, <3>1
  <2>5. t = p
    BY <2>2, <2>3, <2>4, SeqEqual
  <2> QED BY <2>5 DEF t, p
<1>3. SubSeq(s, 3, 2) = << >>
  OBVIOUS
<1> QED BY <1>1, <1>2, <1>3

\* The newline of a command's text.
LEMMA FirstEnd ==
    ASSUME NEW b \in Seq(Unit), NEW k, Len(b) >= 1, b[1] = <<k, 1>>, Len(b) >= 2 => b[2] = <<k, 2>>
    PROVE  (Len(b) = 1 => CommandEnd(b) = 0) /\ (Len(b) >= 2 => CommandEnd(b) = 2)
<1> DEFINE e == CommandEnd(b)
           N == {i \in 1 .. Len(b) : IsNewline(b[i])}
<1>1. (e = 0 /\ N = {}) \/ (e \in N /\ \A i \in 1 .. e - 1 : i \notin N)
  <2>1. CASE e = 0 /\ \A i \in 1 .. Len(b) : ~ IsNewline(b[i])
    BY <2>1
  <2>2. CASE e \in 1 .. Len(b) /\ IsNewline(b[e]) /\ \A i \in 1 .. e - 1 : ~ IsNewline(b[i])
    <3>1. e \in N
      BY <2>2
    <3>2. \A i \in 1 .. e - 1 : i \notin N
      BY <2>2
    <3> QED BY <3>1, <3>2
  <2> QED BY <2>1, <2>2, EndFacts
<1>2. 1 \notin N
  <2>1. ~ IsNewline(b[1])
    BY DEF IsNewline, Header
  <2> QED BY <2>1
<1>3. Len(b) >= 2 => 2 \in N
  <2> SUFFICES ASSUME Len(b) >= 2 PROVE 2 \in N
    OBVIOUS
  <2>1. b[2] = <<k, 2>>
    OBVIOUS
  <2>2. IsNewline(b[2])
    BY <2>1 DEF IsNewline, Header
  <2> QED BY <2>2
<1>4. N \subseteq 1 .. Len(b) /\ Len(b) \in Nat
  OBVIOUS
<1> HIDE DEF e, N
<1>5. Len(b) = 1 => e = 0
  <2> SUFFICES ASSUME Len(b) = 1, e # 0 PROVE FALSE
    OBVIOUS
  <2>1. e \in N
    BY <1>1
  <2>2. e \in 1 .. Len(b)
    BY <1>4, <2>1
  <2>3. e = 1
    BY <2>2
  <2> QED BY <1>2, <2>1, <2>3
<1>6. Len(b) >= 2 => e = 2
  <2> SUFFICES ASSUME Len(b) >= 2 PROVE e = 2
    OBVIOUS
  <2>3. e \in N /\ e # 1
    BY <1>1, <1>2, <1>3
  <2>4. e \in 1 .. Len(b)
    BY <1>4, <2>3
  <2>1. e \in N /\ e # 1 /\ e \in Nat /\ e >= 1
    BY <1>4, <2>3, <2>4
  <2>2. ~ 2 \in 1 .. e - 1
    BY <1>1, <1>3, <2>1
  <2> QED BY <2>1, <2>2
<1> QED BY <1>5, <1>6 DEF e

\* The data of command k.
Data(k) == SubSeq(Units(k, Size(k)), Header + 1, Header + Size(k))

\* handle_new_file on a buffer that begins with command k: it waits for the rest of
\* the command, or raises because the file is missing or refused, or acts on it and
\* cuts it off.
LEMMA HandlerFirst ==
    ASSUME LotTypes, NEW data \in Seq(Unit), HandleNewFile(data), NEW k \in DOMAIN kinds, kinds[k] # "refused",
           NEW b, b = command_buffer \o data, NEW m, m = Header + Size(k), Len(b) >= 1,
           \A i \in 1 .. Len(b) : i <= m => b[i] = <<k, i>>
    PROVE  \/ acted' = acted /\ command_buffer' = b /\ (k \in missing \/ kinds[k] = "barred" \/ Len(b) < m)
           \/ /\ acted' = Append(acted, [command |-> k, data |-> Data(k)])
              /\ command_buffer' = SubSeq(b, m + 1, Len(b)) /\ Len(b) >= m
<1> DEFINE e == CommandEnd(b)
           line == SubSeq(b, 1, e - 1)
<1>1. b \in Seq(Unit) /\ Len(b) \in Nat
  BY DEF LotTypes
<1>2. m \in 2 .. 4 /\ Header = 2 /\ (kinds[k] = "stream" => Size(k) = 2 /\ m = 4)
      /\ (kinds[k] \notin {"stream", "barred"} => Size(k) = 0 /\ m = 2)
  <2>1. kinds[k] \in AllKinds
    BY LotAssumption DEF LotTypes
  <2>2. kinds[k] \in Streamed <=> kinds[k] \in {"stream", "barred"}
    BY DEF Streamed
  <2> QED BY <2>2 DEF Size, Header
<1>4. b[1] = <<k, 1>>
  BY <1>1, <1>2
<1>5. CASE Len(b) = 1
  <2>1. e = 0
    <3>1. b \in Seq(Unit) /\ Len(b) >= 1 /\ b[1] = <<k, 1>> /\ (Len(b) >= 2 => b[2] = <<k, 2>>) /\ Len(b) = 1
      BY <1>1, <1>4, <1>5
    <3> QED BY <3>1, FirstEnd
  <2>2. Wait(b)
    BY <2>1 DEF HandleNewFile
  <2> QED BY <1>2, <1>5, <2>2 DEF Wait
<1>6. CASE Len(b) # 1
  <2>1. 2 \in 1 .. Len(b) /\ b[2] = <<k, 2>>
    <3>1. 2 \in 1 .. Len(b)
      BY <1>1, <1>6
    <3>2. 2 <= m
      BY <1>2
    <3> QED BY <3>1, <3>2
  <2>2. Len(b) >= 2
    BY <2>1
  <2>3. e = 2
    BY <1>1, <1>4, <2>1, <2>2, FirstEnd
  <2>4. line = <<<<k, 1>>>>
    <3>1. line = SubSeq(b, 1, 1)
      BY <2>3
    <3>2. SubSeq(b, 1, 1) = <<b[1]>>
      BY <1>1, Pieces
    <3> HIDE DEF line
    <3> QED BY <1>4, <3>1, <3>2
  <2>5. IsHeader(line) /\ line[1][1] = k /\ e # 0
    <3> HIDE DEF line, e
    <3>1. IsHeader(line)
      BY <2>4 DEF IsHeader
    <3> QED BY <2>3, <2>4, <3>1
  <2> HIDE DEF line, e
  <2>6. CASE kinds[k] = "stream"
    <3>1. IF StreamComplete(b, e, Size(k))
          THEN Take(k, SubSeq(b, e + 1, e + Size(k)), b, e + Size(k))
          ELSE Wait(b)
      BY <2>5, <2>6 DEF HandleNewFile, line, e
    <3>2. CASE Len(b) < 4
      <4>1. ~ StreamComplete(b, e, Size(k))
        BY <1>1, <1>2, <2>3, <2>6, <3>2 DEF StreamComplete
      <4>2. Wait(b)
        BY <3>1, <4>1
      <4> QED BY <1>2, <2>6, <3>2, <4>2 DEF Wait
    <3>3. CASE Len(b) >= 4
      <4>1. StreamComplete(b, e, Size(k))
        BY <1>1, <1>2, <2>3, <2>6, <3>3 DEF StreamComplete
      <4>2. Take(k, SubSeq(b, 3, 4), b, 4)
        BY <1>2, <2>3, <2>6, <3>1, <4>1
      <4>3. SubSeq(b, 3, 4) = Data(k)
        <5> DEFINE u == Units(k, Size(k))
        <5>1. u \in Seq(Unit) /\ Len(u) = 4 /\ \A i \in 1 .. 4 : u[i] = <<k, i>>
          BY <1>2, <2>6, UnitsFacts
        <5> HIDE DEF u
        <5>2. SubSeq(b, 3, 4) = <<b[3], b[4]>>
          BY <1>1, <3>3, Pieces
        <5>6. SubSeq(u, 3, 4) = <<u[3], u[4]>>
          <6>1. Len(u) >= 4
            BY <5>1
          <6> QED BY <5>1, <6>1, Pieces
        <5>3. b[3] = <<k, 3>> /\ b[4] = <<k, 4>>
          <6>1. 3 \in 1 .. Len(b) /\ 4 \in 1 .. Len(b) /\ 3 <= m /\ 4 <= m
            BY <1>1, <1>2, <2>6, <3>3
          <6> QED BY <6>1
        <5>4. u[3] = <<k, 3>> /\ u[4] = <<k, 4>>
          BY <5>1
        <5>5. Data(k) = SubSeq(u, 3, 4)
          BY <1>2, <2>6 DEF Data, u
        <5> QED BY <5>2, <5>3, <5>4, <5>5, <5>6
      <4>4. acted' = Append(acted, [command |-> k, data |-> SubSeq(b, 3, 4)]) /\ command_buffer' = SubSeq(b, 4 + 1, Len(b))
        BY <4>2 DEF Take, Rest
      <4> QED BY <1>2, <2>6, <3>3, <4>3, <4>4
    <3>4. Len(b) < 4 \/ Len(b) >= 4
      BY <1>1
    <3> QED BY <3>2, <3>3, <3>4
  <2>7. CASE kinds[k] \notin {"stream", "barred"}
    <3>1. Data(k) = << >>
      <4> DEFINE u == Units(k, Size(k))
      <4>1. Data(k) = SubSeq(u, 3, 2)
        BY <1>2, <2>7 DEF Data
      <4>2. u \in Seq(Unit)
        BY UnitsFacts
      <4> HIDE DEF u
      <4> QED BY <4>1, <4>2, Pieces
    <3>2. Len(b) >= m
      BY <1>1, <1>2, <1>6, <2>7
    <3>3. CASE kinds[k] \in {"file", "missing"}
      <4>1. IF k \in missing THEN Raise(b) ELSE Take(k, << >>, b, e)
        BY <2>5, <3>3 DEF HandleNewFile, line, e
      <4>2. CASE k \in missing
        BY <4>1, <4>2 DEF Raise, Left
      <4>3. CASE k \notin missing
        BY <1>2, <2>3, <2>7, <3>1, <3>2, <4>1, <4>3 DEF Take, Rest
      <4> QED BY <4>2, <4>3
    <3>4. CASE kinds[k] = "invalid"
      <4>1. Skip(k, b, e)
        BY <2>5, <3>4 DEF HandleNewFile, line, e
      <4>2. k # 0
        BY DEF LotTypes
      <4> QED BY <1>2, <2>3, <2>7, <3>1, <3>2, <4>1, <4>2 DEF Skip, Rest
    <3>5. kinds[k] \in AllKinds
      BY LotAssumption DEF LotTypes
    <3> QED BY <2>7, <3>3, <3>4, <3>5 DEF AllKinds
  <2>8. CASE kinds[k] = "barred"
    <3>1. Raise(b) \/ Wait(b)
      BY <2>5, <2>8 DEF HandleNewFile, line, e
    <3> QED BY <2>8, <3>1 DEF Raise, Left, Wait
  <2> QED BY <2>6, <2>7, <2>8
<1> QED BY <1>5, <1>6

\* A command keeps its units.
LEMMA SizeSame ==
    ASSUME \A k \in DOMAIN kinds : kinds'[k] = kinds[k]
    PROVE  \A k \in DOMAIN kinds : Size(k)' = Size(k)
BY DEF Size

\* Commands hold the same after a step that does not touch what is held.
LEMMA OrderSame ==
    ASSUME LotTypes, \A k \in DOMAIN kinds : kinds'[k] = kinds[k],
           UNCHANGED <<command_buffer, history>>, Orderly => Ordered
    PROVE  Orderly' => Ordered'
<1>1. command_buffer' = command_buffer /\ acted' = acted /\ arrival' = arrival /\ last' = last /\ joins' = joins
      /\ Open' = Open
  BY DEF history, Open
<1>2. arrival \in Seq(DOMAIN kinds) /\ acted \in Seq(ToSet(acted)) /\ Len(acted) \in Nat /\ Len(arrival) \in Nat
  BY DEF LotTypes
<1>3. Arrived' = Arrived /\ Arrived \subseteq DOMAIN kinds
  BY <1>1, <1>2 DEF Arrived, ToSet
<1> SUFFICES ASSUME Orderly' PROVE Ordered'
  OBVIOUS
<1>4. Ordered
  <2>1. Orderly
    BY <1>1, <1>3 DEF Orderly
  <2> QED BY <2>1
<1>5. \A k \in DOMAIN kinds : Size(k)' = Size(k)
  BY SizeSame
<1>6. ActedInOrder'
  <2>1. ASSUME NEW i \in DOMAIN acted
        PROVE  /\ acted[i].command = arrival[i] /\ acted[i].command \in DOMAIN kinds
               /\ acted[i].data = SubSeq(Units(acted[i].command, Size(acted[i].command)), Header + 1,
                                         Header + Size(acted[i].command))
    <3>1. i \in 1 .. Len(arrival)
      BY <1>2, <1>4, <2>1 DEF Ordered
    <3> QED BY <1>2, <1>4, <3>1 DEF Ordered, ActedInOrder
  <2> QED BY <1>1, <1>5, <2>1 DEF ActedInOrder
<1>7. Held(command_buffer, Open, last)'
  <2> DEFINE ks == Open
             front == SubSeq(ks, 1, Len(ks) - 1)
             k == ks[Len(ks)]
  <2>1. ks \in Seq(DOMAIN kinds)
    BY <1>2, <1>4 DEF Open, Ordered
  <2>2. Held(command_buffer, ks, last)
    BY <1>4 DEF Ordered
  <2> HIDE DEF ks
  <2>3. CASE ks = << >>
    <3>1. command_buffer = << >> /\ (last = None \/ last[2] = Header + Size(last[1]))
      BY <2>2, <2>3 DEF Held
    <3>2. last # None => last[1] \in DOMAIN kinds
      BY DEF LotTypes, Unit
    <3>3. last = None \/ kinds'[last[1]] = kinds[last[1]]
      BY <3>2
    <3> QED BY <1>1, <2>3, <3>1, <3>3 DEF Held, ks, Size
  <2>4. CASE ks # << >>
    <3>1. /\ last[1] = k /\ last[2] \in 1 .. Header + Size(k)
          /\ command_buffer = Stream(front) \o SubSeq(Units(k, Size(k)), 1, last[2])
      BY <2>2, <2>4 DEF Held
    <3>2. k \in DOMAIN kinds /\ front \in Seq(DOMAIN kinds)
      BY <2>1, <2>4
    <3>3. k' = k /\ Size(k)' = Size(k)
      <4>1. kinds'[k] = kinds[k]
        BY <3>2
      <4>2. k' = k
        BY <1>1 DEF ks
      <4> HIDE DEF k
      <4> QED BY <4>1, <4>2 DEF Size
    <3>4. Stream(front)' = Stream(front)
      <4>1. \A i \in DOMAIN front : Units(front[i], Size(front[i]))' = Units(front[i], Size(front[i]))
        <5>1. \A i \in DOMAIN front : front[i] \in DOMAIN kinds
          BY <3>2
        <5> QED BY <1>1, <1>5, <5>1 DEF ks, Units
      <4> QED BY <1>1, <4>1 DEF Stream, ks
    <3> QED BY <1>1, <2>4, <3>1, <3>3, <3>4 DEF Held, ks
  <2> QED BY <2>3, <2>4
<1> QED BY <1>1, <1>4, <1>6, <1>7 DEF Ordered

\* A piece without its first member.
LEMMA TailPiece ==
    ASSUME NEW S, NEW s \in Seq(S), NEW a \in Nat, a < Len(s)
    PROVE  SubSeq(s, a + 1 + 1, Len(s)) = Tail(SubSeq(s, a + 1, Len(s)))
<1> DEFINE p == SubSeq(s, a + 1, Len(s))
           q == SubSeq(s, a + 1 + 1, Len(s))
           n == Len(s)
<1>1. p \in Seq(S) /\ Len(p) = n - a /\ (\A i \in 1 .. n - a : p[i] = s[a + i]) /\ n \in Nat
  OBVIOUS
<1>2. q \in Seq(S) /\ Len(q) = n - a - 1 /\ \A i \in 1 .. n - a - 1 : q[i] = s[a + 1 + i]
  OBVIOUS
<1> HIDE DEF p, q, n
<1>3. Tail(p) \in Seq(S) /\ Len(Tail(p)) = n - a - 1 /\ \A i \in 1 .. n - a - 1 : Tail(p)[i] = p[i + 1]
  <2>1. p # << >>
    BY <1>1 DEF n
  <2>2. Tail(p) \in Seq(S) /\ Len(Tail(p)) = Len(p) - 1 /\ \A i \in 1 .. Len(p) - 1 : Tail(p)[i] = p[i + 1]
    BY <1>1, <2>1
  <2> QED BY <1>1, <2>2
<1> DEFINE t == Tail(p)
<1> HIDE DEF t
<1>4. \A i \in 1 .. n - a - 1 : q[i] = t[i]
  <2>1. ASSUME NEW i \in 1 .. n - a - 1 PROVE q[i] = t[i]
    <3>1. i + 1 \in 1 .. n - a /\ a + (i + 1) = a + 1 + i
      BY <1>1
    <3>2. t[i] = p[i + 1] /\ p[i + 1] = s[a + 1 + i] /\ q[i] = s[a + 1 + i]
      BY <1>1, <1>2, <1>3, <3>1 DEF t
    <3> QED BY <3>2
  <2> QED BY <2>1
<1>5. q = t
  BY <1>2, <1>3, <1>4, SeqEqual DEF t
<1> QED BY <1>5 DEF p, q, n, t

\* The rest of a sequence.
LEMMA PieceFacts ==
    ASSUME NEW S, NEW s \in Seq(S), NEW a \in Nat, a <= Len(s)
    PROVE  LET x == SubSeq(s, a + 1, Len(s))
           IN  x \in Seq(S) /\ Len(x) = Len(s) - a /\ \A i \in 1 .. Len(s) - a : x[i] = s[a + i]
OBVIOUS

\* A sequence is its beginning and the rest.
LEMMA SplitAt ==
    ASSUME NEW S, NEW b \in Seq(S), NEW m \in Nat, m <= Len(b)
    PROVE  SubSeq(b, 1, m) \o SubSeq(b, m + 1, Len(b)) = b
<1> DEFINE p == SubSeq(b, 1, m)
           q == SubSeq(b, m + 1, Len(b))
           z == p \o q
<1>1. p \in Seq(S) /\ Len(p) = m /\ (\A i \in 1 .. m : p[i] = b[i]) /\ Len(b) \in Nat
  OBVIOUS
<1>2. q \in Seq(S) /\ Len(q) = Len(b) - m /\ \A i \in 1 .. Len(b) - m : q[i] = b[m + i]
  BY PieceFacts
<1> HIDE DEF p, q
<1>3. /\ z \in Seq(S) /\ Len(z) = Len(p) + Len(q)
      /\ (\A i \in 1 .. Len(p) : z[i] = p[i]) /\ \A i \in 1 .. Len(q) : z[Len(p) + i] = q[i]
  <2>1. p \in Seq(S) /\ q \in Seq(S)
    BY <1>1, <1>2
  <2> QED BY <2>1, ConcatFacts
<1> HIDE DEF z
<1>4. Len(z) = Len(b) /\ Len(q) \in Nat
  BY <1>1, <1>2, <1>3
<1>5. ASSUME NEW i \in 1 .. Len(b) PROVE z[i] = b[i]
  <2>1. CASE i <= m
    BY <1>1, <1>3, <2>1
  <2>2. CASE i > m
    <3> DEFINE j == i - m
    <3>1. j \in 1 .. Len(q) /\ j \in 1 .. Len(b) - m /\ m + j = i
      BY <1>1, <1>2, <2>2
    <3> HIDE DEF j
    <3> QED BY <1>1, <1>2, <1>3, <3>1
  <2> QED BY <1>1, <2>1, <2>2
<1>6. z = b
  BY <1>3, <1>4, <1>5, SeqEqual
<1> QED BY <1>6 DEF p, q, z

\* A piece with more behind it.
LEMMA RestPiece ==
    ASSUME NEW S, NEW s \in Seq(S), NEW t \in Seq(S), NEW a \in Nat, a <= Len(s)
    PROVE  SubSeq(s \o t, a + 1, Len(s \o t)) = SubSeq(s, a + 1, Len(s)) \o t
<1> DEFINE z == s \o t
           x == SubSeq(s, a + 1, Len(s))
           y == SubSeq(z, a + 1, Len(z))
           w == x \o t
<1>1. z \in Seq(S) /\ Len(z) = Len(s) + Len(t) /\ Len(s) \in Nat /\ Len(t) \in Nat
      /\ (\A i \in 1 .. Len(s) : z[i] = s[i]) /\ \A i \in 1 .. Len(t) : z[Len(s) + i] = t[i]
  BY ConcatFacts
<1>2. x \in Seq(S) /\ Len(x) = Len(s) - a /\ \A i \in 1 .. Len(s) - a : x[i] = s[a + i]
  BY PieceFacts
<1>3. y \in Seq(S) /\ Len(y) = Len(z) - a /\ \A i \in 1 .. Len(z) - a : y[i] = z[a + i]
  <2>1. a <= Len(z)
    BY <1>1
  <2> HIDE DEF z
  <2> QED BY <1>1, <2>1, PieceFacts
<1>4. w \in Seq(S) /\ Len(w) = Len(x) + Len(t)
      /\ (\A i \in 1 .. Len(x) : w[i] = x[i]) /\ \A i \in 1 .. Len(t) : w[Len(x) + i] = t[i]
  <2>1. x \in Seq(S)
    BY <1>2
  <2> HIDE DEF x
  <2> QED BY <2>1, ConcatFacts
<1> HIDE DEF x, y, z, w
<1>5. ASSUME NEW i \in 1 .. Len(y) PROVE y[i] = w[i]
  <2>1. CASE i <= Len(x)
    <3>1. i \in 1 .. Len(x) /\ a + i \in 1 .. Len(s) /\ i \in 1 .. Len(z) - a /\ i \in 1 .. Len(s) - a
      BY <1>1, <1>2, <1>3, <2>1
    <3> QED BY <1>1, <1>2, <1>3, <1>4, <3>1
  <2>2. CASE i > Len(x)
    <3> DEFINE j == i - Len(x)
    <3>1. j \in 1 .. Len(t) /\ Len(x) + j = i /\ a + i = Len(s) + j /\ i \in 1 .. Len(z) - a
      BY <1>1, <1>2, <1>3, <2>2
    <3> HIDE DEF j
    <3>2. w[i] = t[j] /\ z[a + i] = t[j] /\ y[i] = z[a + i]
      BY <1>1, <1>3, <1>4, <3>1
    <3> QED BY <3>2
  <2> QED BY <1>2, <2>1, <2>2
<1>6. Len(y) = Len(w)
  BY <1>1, <1>2, <1>3, <1>4
<1>7. y = w
  BY <1>3, <1>4, <1>5, <1>6, SeqEqual
<1> QED BY <1>7 DEF x, y, z, w

\* A message comes, and command k is the first in the buffer.
Comes(data, k) ==
    LET b == command_buffer \o data
        m == Header + Size(k)
    IN  /\ b \in Seq(Unit) /\ \A i \in 1 .. Len(b) : i <= m => b[i] = <<k, i>>
        /\ surplus' = surplus + (IF Completed(data) > 1 THEN Completed(data) - 1 ELSE 0)
        /\ \/ command_buffer' = b /\ (k \in missing \/ kinds[k] = "barred" \/ Len(b) < m)
           \/ command_buffer' = SubSeq(b, m + 1, Len(b)) /\ Len(b) >= m

\* A message that keeps the stream orderly keeps what was acted on and what is held so.
LEMMA OrderDeliver ==
    ASSUME OrderIInv, NEW c \in Clients, Deliver(c), Orderly'
    PROVE  /\ Ordered' /\ Orderly /\ Arrived \subseteq Arrived'
           /\ \E data \in Seq(Unit) : \E k \in Arrived' : Comes(data, k)
<1>1. PICK n \in 1 .. Len(wire[c]) :
        LET data == SubSeq(wire[c], 1, n)
        IN /\ HandleNewFile(data)
           /\ arrival' = arrival \o Begun(data)
           /\ last' = data[n]
           /\ joins' = joins + Joins(<<last>> \o data)
           /\ surplus' = surplus + (IF Completed(data) > 1 THEN Completed(data) - 1 ELSE 0)
           /\ kinds' = kinds
  BY DEF Deliver
<1> DEFINE data == SubSeq(wire[c], 1, n)
           more == Begun(data)
           a == Len(acted)
           ks == SubSeq(arrival', a + 1, Len(arrival'))
           k == ks[1]
           m == Header + Size(k)
           b == command_buffer \o data
           new == [command |-> k, data |-> Data(k)]
<1>2. /\ wire[c] \in Seq(Unit) /\ command_buffer \in Seq(Unit) /\ arrival \in Seq(DOMAIN kinds)
      /\ acted \in Seq(ToSet(acted)) /\ a \in Nat /\ last \in Unit \cup {None} /\ joins \in Nat /\ LotTypes
  BY DEF OrderIInv, LotTypes
<1>3. data \in Seq(Unit) /\ Len(data) = n /\ Len(data) > 0 /\ data # << >>
  <2> DEFINE w == wire[c]
  <2>1. w \in Seq(Unit) /\ n \in 1 .. Len(w)
    BY <1>2
  <2> HIDE DEF w
  <2> DEFINE p == SubSeq(w, 1, n)
  <2>2. p \in Seq(Unit) /\ Len(p) = n /\ n > 0
    BY <2>1
  <2> HIDE DEF p
  <2>3. p # << >>
    BY <2>2
  <2> QED BY <2>2, <2>3 DEF w, p
<1>4. more \in Seq(DOMAIN kinds)
  BY <1>3, BegunFacts
<1>5. Joins(<<last>> \o data) \in Nat
  <2> DEFINE u == <<last>> \o data
  <2>1. Len(u) \in Nat
    BY <1>2, <1>3
  <2> HIDE DEF u
  <2>2. IsFiniteSet(2 .. Len(u)) /\ {i \in 2 .. Len(u) : ~ Follows(u[i - 1], u[i])} \in SUBSET (2 .. Len(u))
    BY <2>1, FS_Interval
  <2>3. Joins(u) \in Nat
    BY <2>2, FS_Subset, FS_CardinalityType DEF Joins
  <2> QED BY <2>3 DEF u
<1>6. arrival' = arrival \o more /\ joins' = joins + Joins(<<last>> \o data) /\ HandleNewFile(data) /\ last' = data[Len(data)]
      /\ surplus' = surplus + (IF Completed(data) > 1 THEN Completed(data) - 1 ELSE 0)
  BY <1>1, <1>3
<1>7. joins = 0 /\ Joins(<<last>> \o data) = 0
  <2> DEFINE j == Joins(<<last>> \o data)
  <2>1. j \in Nat /\ joins' = 0 /\ joins' = joins + j
    BY <1>5, <1>6 DEF Orderly
  <2> HIDE DEF j
  <2> QED BY <1>2, <2>1 DEF j
<1> HIDE DEF data, more
<1>8. Ordered /\ Orderly /\ Arrived \subseteq Arrived'
  <2>1. Arrived \subseteq Arrived'
    <3>1. \A i \in DOMAIN arrival : i \in DOMAIN arrival' /\ arrival'[i] = arrival[i]
      BY <1>2, <1>4, <1>6
    <3> QED BY <3>1 DEF Arrived, ToSet
  <2>2. Orderly
    BY <1>1, <1>7, <2>1 DEF Orderly
  <2> QED BY <2>1, <2>2 DEF OrderIInv
<1>9. ks = Open \o more /\ Open \in Seq(DOMAIN kinds) /\ ks \in Seq(DOMAIN kinds)
      /\ Len(arrival') \in Nat /\ Len(arrival') >= Len(arrival) /\ arrival' \in Seq(DOMAIN kinds)
      /\ Len(ks) = Len(arrival') - a /\ a <= Len(arrival)
      /\ (\A i \in 1 .. Len(arrival) : arrival'[i] = arrival[i]) /\ \A i \in 1 .. Len(ks) : ks[i] = arrival'[a + i]
  <2>1. a <= Len(arrival)
    BY <1>8 DEF Ordered
  <2> DEFINE S == DOMAIN kinds
  <2>2. arrival \in Seq(S) /\ more \in Seq(S) /\ a \in Nat
    BY <1>2, <1>4
  <2> HIDE DEF S, a
  <2> DEFINE z == arrival'
  <2>3. z = arrival \o more /\ z \in Seq(S) /\ Len(z) \in Nat /\ Len(z) >= Len(arrival)
        /\ (\A i \in 1 .. Len(arrival) : z[i] = arrival[i]) /\ a <= Len(z)
    <3> DEFINE w == arrival \o more
    <3>1. w \in Seq(S) /\ Len(w) = Len(arrival) + Len(more) /\ Len(arrival) \in Nat /\ Len(more) \in Nat
          /\ \A i \in 1 .. Len(arrival) : w[i] = arrival[i]
      BY <2>2, ConcatFacts
    <3>2. z = w
      BY <1>6
    <3> HIDE DEF w, z
    <3> QED BY <2>1, <2>2, <3>1, <3>2 DEF w
  <2> HIDE DEF z
  <2> DEFINE x == SubSeq(arrival, a + 1, Len(arrival))
             y == SubSeq(z, a + 1, Len(z))
  <2>4. x \in Seq(S)
    BY <2>1, <2>2, PieceFacts
  <2>5. y \in Seq(S) /\ Len(y) = Len(z) - a /\ \A i \in 1 .. Len(z) - a : y[i] = z[a + i]
    BY <2>2, <2>3, PieceFacts
  <2>6. y = x \o more
    BY <2>1, <2>2, <2>3, RestPiece
  <2>7. ks = y /\ Open = x
    BY DEF Open, a, z
  <2> HIDE DEF ks, x, y
  <2>8. ks = Open \o more /\ Open \in Seq(S) /\ ks \in Seq(S) /\ Len(z) \in Nat /\ Len(z) >= Len(arrival)
        /\ z \in Seq(S) /\ Len(ks) = Len(z) - a /\ a <= Len(arrival)
        /\ (\A i \in 1 .. Len(arrival) : z[i] = arrival[i]) /\ \A i \in 1 .. Len(ks) : ks[i] = z[a + i]
    BY <2>1, <2>3, <2>4, <2>5, <2>6, <2>7
  <2> QED BY <2>8 DEF z, S
<1>10. Held(b, ks, last')
  <2>1. Held(command_buffer, Open, last)
    BY <1>8 DEF Ordered
  <2>2. Held(command_buffer \o data, Open \o more, data[Len(data)])
    BY <1>2, <1>3, <1>7, <1>9, <2>1, HeldData DEF more
  <2> QED BY <1>6, <1>9, <2>2
<1>11. b \in Seq(Unit) /\ b # << >>
  BY <1>2, <1>3
<1>12. ks # << >>
  BY <1>10, <1>11 DEF Held
<1>13. k \in DOMAIN kinds /\ k = arrival'[a + 1] /\ a + 1 <= Len(arrival')
  BY <1>2, <1>9, <1>12
<1>14. kinds[k] # "refused" /\ k \in Arrived'
  <2>1. k \in Arrived'
    <3>1. a + 1 \in DOMAIN arrival'
      <4> DEFINE s == arrival'
      <4>1. s \in Seq(DOMAIN kinds) /\ a \in Nat /\ a + 1 <= Len(s)
        BY <1>2, <1>9, <1>13
      <4> HIDE DEF s, a
      <4>2. a + 1 \in DOMAIN s
        BY <4>1
      <4> QED BY <4>2 DEF s
    <3> HIDE DEF k, ks, a
    <3> QED BY <1>13, <3>1 DEF Arrived, ToSet
  <2> QED BY <1>1, <2>1 DEF Orderly
<1>15. /\ Len(b) >= 1 /\ \A i \in 1 .. Len(b) : i <= m => b[i] = <<k, i>>
       /\ Len(b) >= m => Held(SubSeq(b, m + 1, Len(b)), Tail(ks), last')
  BY <1>2, <1>9, <1>10, <1>11, <1>12, HeldFirst
<1>16. \/ acted' = acted /\ command_buffer' = b /\ (k \in missing \/ kinds[k] = "barred" \/ Len(b) < m)
       \/ acted' = Append(acted, new) /\ command_buffer' = SubSeq(b, m + 1, Len(b)) /\ Len(b) >= m
  BY <1>2, <1>3, <1>6, <1>13, <1>14, <1>15, HandlerFirst
<1>19. Comes(data, k)
  BY <1>6, <1>11, <1>15, <1>16 DEF Comes
<1> HIDE DEF ks, b, k, m
<1>17. Held(command_buffer, Open, last)' /\ Len(acted') <= Len(arrival') /\ DOMAIN acted' = 1 .. Len(acted')
       /\ \A i \in 1 .. Len(acted') : (i <= a /\ acted'[i] = acted[i]) \/ (i = a + 1 /\ acted'[i] = new)
  <2> DEFINE X == command_buffer'
             Y == Open'
             z == last'
  <2>1. Held(X, Y, z) /\ Len(acted') <= Len(arrival') /\ DOMAIN acted' = 1 .. Len(acted')
        /\ \A i \in 1 .. Len(acted') : (i <= a /\ acted'[i] = acted[i]) \/ (i = a + 1 /\ acted'[i] = new)
    <3>1. CASE acted' = acted /\ command_buffer' = b
      <4>1. Open' = ks
        BY <3>1 DEF Open, ks
      <4>2. Held(X, Y, z)
        BY <1>10, <3>1, <4>1
      <4>3. DOMAIN acted = 1 .. a
        BY <1>2
      <4> QED BY <1>2, <1>9, <3>1, <4>2, <4>3
    <3>2. CASE acted' = Append(acted, new) /\ command_buffer' = SubSeq(b, m + 1, Len(b)) /\ Len(b) >= m
      <4>1. Len(acted') = a + 1 /\ DOMAIN acted' = 1 .. a + 1
            /\ (\A i \in 1 .. a : acted'[i] = acted[i]) /\ acted'[a + 1] = new
        <5> HIDE DEF new
        <5> QED BY <1>2, <3>2, AppendType
      <4>2. Open' = Tail(ks)
        <5> DEFINE s == arrival'
        <5>1. Open' = SubSeq(s, a + 1 + 1, Len(s)) /\ ks = SubSeq(s, a + 1, Len(s))
          BY <4>1 DEF Open, ks
        <5>2. s \in Seq(DOMAIN kinds) /\ a < Len(s) /\ a \in Nat
          BY <1>2, <1>9, <1>13
        <5> HIDE DEF s, a
        <5> QED BY <5>1, <5>2, TailPiece
      <4>3. Held(X, Y, z)
        BY <1>15, <3>2, <4>2
      <4>4. Len(acted') <= Len(arrival')
        BY <1>13, <4>1
      <4>5. ASSUME NEW i \in 1 .. a + 1 PROVE (i <= a /\ i \in 1 .. a) \/ i = a + 1
        BY <1>2
      <4> QED BY <4>1, <4>3, <4>4, <4>5
    <3> QED BY <1>16, <3>1, <3>2
  <2>2. Held(command_buffer, Open, last)'
    BY <1>1, <2>1 DEF Held, Stream, Size
  <2> QED BY <2>1, <2>2
<1>18. ActedInOrder'
  <2>1. ASSUME NEW i \in 1 .. Len(acted')
        PROVE  /\ acted'[i].command = arrival'[i]
               /\ acted'[i].data = SubSeq(Units(acted'[i].command, Size(acted'[i].command)), Header + 1,
                                          Header + Size(acted'[i].command))
    <3>1. CASE i <= a /\ acted'[i] = acted[i]
      <4>1. i \in DOMAIN acted /\ i \in 1 .. Len(arrival)
        BY <1>2, <1>9, <3>1
      <4>2. /\ acted[i].command = arrival[i]
            /\ acted[i].data = SubSeq(Units(acted[i].command, Size(acted[i].command)), Header + 1,
                                      Header + Size(acted[i].command))
        BY <1>8, <4>1 DEF Ordered, ActedInOrder
      <4> QED BY <1>9, <3>1, <4>1, <4>2
    <3>2. CASE i = a + 1 /\ acted'[i] = new
      <4>1. new.command = k /\ new.data = Data(k)
        OBVIOUS
      <4>2. arrival'[i] = k
        BY <1>13, <3>2
      <4> HIDE DEF new
      <4> QED BY <3>2, <4>1, <4>2 DEF Data
    <3> QED BY <1>17, <3>1, <3>2
  <2> QED BY <1>1, <1>17, <2>1 DEF ActedInOrder, Size
<1> QED BY <1>3, <1>8, <1>14, <1>17, <1>18, <1>19 DEF Ordered

\* The beginning of a sequence behind another.
LEMMA PrefixFacts ==
    ASSUME NEW S, NEW s \in Seq(S), NEW u \in Seq(S), NEW r \in 1 .. Len(u)
    PROVE  LET b == s \o SubSeq(u, 1, r)
           IN  IsPrefix(b, s \o u) /\ Last(b) = u[r] /\ b # << >>
<1> DEFINE p == SubSeq(u, 1, r)
           b == s \o p
           t == s \o u
<1>1. p \in Seq(S) /\ Len(p) = r /\ (\A i \in 1 .. r : p[i] = u[i]) /\ r \in Nat /\ r >= 1 /\ r <= Len(u)
  OBVIOUS
<1> HIDE DEF p
<1>2. /\ b \in Seq(S) /\ Len(b) = Len(s) + r /\ Len(s) \in Nat
      /\ (\A i \in 1 .. Len(s) : b[i] = s[i]) /\ \A i \in 1 .. r : b[Len(s) + i] = p[i]
  <2>1. p \in Seq(S)
    BY <1>1
  <2>2. /\ b \in Seq(S) /\ Len(b) = Len(s) + Len(p) /\ Len(s) \in Nat
        /\ (\A i \in 1 .. Len(s) : b[i] = s[i]) /\ \A i \in 1 .. Len(p) : b[Len(s) + i] = p[i]
    BY <2>1, ConcatFacts
  <2> HIDE DEF b
  <2> QED BY <1>1, <2>2
<1>3. /\ t \in Seq(S) /\ Len(t) = Len(s) + Len(u) /\ Len(u) \in Nat
      /\ (\A i \in 1 .. Len(s) : t[i] = s[i]) /\ \A i \in 1 .. Len(u) : t[Len(s) + i] = u[i]
  BY ConcatFacts
<1> HIDE DEF b, t
<1> DEFINE n == Len(b)
<1>4. n \in Nat /\ n <= Len(t) /\ n = Len(s) + r
  BY <1>1, <1>2, <1>3
<1>5. ASSUME NEW i \in 1 .. n PROVE b[i] = t[i]
  <2>1. CASE i <= Len(s)
    BY <1>2, <1>3, <2>1
  <2>2. CASE i > Len(s)
    <3> DEFINE j == i - Len(s)
    <3>1. j \in 1 .. r /\ j \in 1 .. Len(u) /\ i = Len(s) + j
      BY <1>1, <1>2, <1>3, <1>4, <2>2
    <3> HIDE DEF j
    <3> QED BY <1>1, <1>2, <1>3, <3>1
  <2> QED BY <1>2, <2>1, <2>2
<1>6. SubSeq(b, 1, n) = SubSeq(t, 1, n)
  <2> DEFINE x == SubSeq(b, 1, n)
             y == SubSeq(t, 1, n)
  <2>1. x \in Seq(S) /\ Len(x) = n /\ \A i \in 1 .. n : x[i] = b[i]
    BY <1>2
  <2> HIDE DEF n
  <2>2. y \in Seq(S) /\ Len(y) = n /\ \A i \in 1 .. n : y[i] = t[i]
    BY <1>3, <1>4
  <2> HIDE DEF x, y
  <2>3. x = y
    BY <1>5, <2>1, <2>2, SeqEqual
  <2> QED BY <2>3 DEF x, y
<1>7. IsPrefix(b, t)
  BY <1>4, <1>6 DEF IsPrefix
<1>8. b[n] = u[r]
  BY <1>1, <1>2, <1>4
<1>9. b # << >>
  <2>1. Len(b) > 0
    BY <1>1, <1>4
  <2> QED BY <2>1
<1> QED BY <1>7, <1>8, <1>9 DEF b, p, t, Last

\* What is ordered so is what InOrder says.
LEMMA HeldInOrder ==
    ASSUME NEW b \in Seq(Unit), NEW ks \in Seq(DOMAIN kinds), NEW l \in Unit \cup {None}, Held(b, ks, l)
    PROVE  IsPrefix(b, Stream(ks)) /\ (b = << >> \/ Last(b) = l) /\ (b = << >> => ks = << >>)
<1>1. CASE ks = << >>
  <2>1. b = << >>
    BY <1>1 DEF Held
  <2>2. IsPrefix(<< >>, << >>)
    BY DEF IsPrefix
  <2> QED BY <1>1, <2>1, <2>2, StreamFacts
<1>2. CASE ks # << >>
  <2> DEFINE k == ks[Len(ks)]
             front == SubSeq(ks, 1, Len(ks) - 1)
             u == Units(k, Size(k))
             s == Stream(front)
             r == l[2]
  <2>1. /\ l[1] = k /\ r \in 1 .. Header + Size(k) /\ b = s \o SubSeq(u, 1, r)
    BY <1>2 DEF Held
  <2>2. k \in DOMAIN kinds /\ front \in Seq(DOMAIN kinds) /\ Append(front, k) = ks
    BY <1>2
  <2> HIDE DEF k, front
  <2>3. u \in Seq(Unit) /\ Len(u) = Header + Size(k) /\ \A i \in 1 .. Header + Size(k) : u[i] = <<k, i>>
    BY <2>2, UnitsFacts
  <2>4. s \in Seq(Unit)
    BY <2>2, StreamFacts
  <2>5. Stream(ks) = s \o u
    BY <2>2, StreamFacts
  <2>6. l = <<k, r>>
    <3>1. l # None
      BY <2>1, SizeFacts DEF None
    <3> QED BY <2>1, <3>1 DEF Unit
  <2>7. r \in 1 .. Len(u) /\ u[r] = l
    BY <2>1, <2>3, <2>6
  <2> HIDE DEF s, u, r
  <2>8. IsPrefix(b, s \o u) /\ Last(b) = u[r] /\ b # << >>
    BY <2>1, <2>3, <2>4, <2>7, PrefixFacts
  <2> QED BY <2>5, <2>7, <2>8
<1> QED BY <1>1, <1>2

\* The inductive invariant of InOrder.
LEMMA OrderInvariance == Spec => []OrderIInv
<1>1. Init => OrderIInv
  <2> SUFFICES ASSUME Init PROVE OrderIInv
    OBVIOUS
  <2>1. LotTypes
    BY TypesInit
  <2>2. command_buffer = << >> /\ acted = << >> /\ arrival = << >> /\ last = None
    BY DEF Init
  <2>3. Open = << >> /\ Len(acted) <= Len(arrival) /\ DOMAIN acted = {}
    BY <2>2 DEF Open
  <2>4. Held(command_buffer, Open, last)
    BY <2>2, <2>3 DEF Held
  <2> QED BY <2>1, <2>3, <2>4 DEF OrderIInv, Ordered, ActedInOrder
<1>2. OrderIInv /\ [Next]_vars => OrderIInv'
  <2> SUFFICES ASSUME OrderIInv, [Next]_vars PROVE Orderly' => Ordered'
    BY TypesNext DEF OrderIInv
  <2>1. LotTypes /\ (Orderly => Ordered)
    BY DEF OrderIInv
  <2>2. CASE \E c \in Clients, kind \in Kinds : Submit(c, kind)
    <3>1. PICK c \in Clients, kind \in Kinds : kinds' = Append(kinds, kind) /\ UNCHANGED <<encoder, history>>
      BY <2>2 DEF Submit
    <3>2. \A k \in DOMAIN kinds : kinds'[k] = kinds[k]
      <4>1. kinds \in Seq(Kinds)
        BY <2>1 DEF LotTypes
      <4> QED BY <3>1, <4>1
    <3>3. UNCHANGED <<command_buffer, history>>
      BY <3>1 DEF encoder
    <3> QED BY <2>1, <3>2, <3>3, OrderSame
  <2>3. CASE (\E c \in Clients : Break(c)) \/ FileAppears \/ UNCHANGED vars
    <3>1. UNCHANGED <<kinds, command_buffer, history>>
      BY <2>3 DEF Break, FileAppears, vars, io, encoder
    <3>2. UNCHANGED <<command_buffer, history>> /\ \A k \in DOMAIN kinds : kinds'[k] = kinds[k]
      BY <3>1
    <3> QED BY <2>1, <3>2, OrderSame
  <2>4. CASE \E c \in Clients : Deliver(c)
    BY <2>4, OrderDeliver
  <2> QED BY <2>2, <2>3, <2>4 DEF Next
<1> QED BY <1>1, <1>2, PTL DEF Spec

(***************************************************************************)
(* Commands that arrive one after another are acted on in that order, each *)
(* once, with their own data, whatever messages they are cut into.         *)
(***************************************************************************)
THEOREM CommandsInOrder == Spec => []InOrder
<1>1. OrderIInv => InOrder
  <2> SUFFICES ASSUME OrderIInv, Orderly PROVE ActedInOrder /\ NothingLost
    BY DEF InOrder
  <2>1. ActedInOrder /\ Len(acted) <= Len(arrival) /\ Held(command_buffer, Open, last)
    BY DEF OrderIInv, Ordered
  <2>2. /\ command_buffer \in Seq(Unit) /\ arrival \in Seq(DOMAIN kinds) /\ Len(acted) \in Nat /\ last \in Unit \cup {None}
    BY DEF OrderIInv, LotTypes
  <2>3. Open \in Seq(DOMAIN kinds)
    <3> DEFINE a == Len(acted)
    <3>1. a \in Nat /\ a <= Len(arrival) /\ arrival \in Seq(DOMAIN kinds)
      BY <2>1, <2>2
    <3> HIDE DEF a
    <3>2. SubSeq(arrival, a + 1, Len(arrival)) \in Seq(DOMAIN kinds)
      BY <3>1, PieceFacts
    <3> QED BY <3>2 DEF Open, a
  <2>4. /\ IsPrefix(command_buffer, Stream(Open)) /\ (command_buffer = << >> \/ Last(command_buffer) = last)
        /\ (command_buffer = << >> => Open = << >>)
    BY <2>1, <2>2, <2>3, HeldInOrder
  <2> QED BY <2>1, <2>4 DEF NothingLost, Open
<1> QED BY <1>1, OrderInvariance, PTL

\* As many of one as of the other.
LEMMA BijCard ==
    ASSUME NEW S, NEW T, IsFiniteSet(S), NEW f \in [S -> T],
           \A x, y \in S : f[x] = f[y] => x = y, \A z \in T : \E x \in S : f[x] = z
    PROVE  IsFiniteSet(T) /\ Cardinality(T) = Cardinality(S)
<1>1. f \in Injection(S, T)
  BY DEF Injection, IsInjective
<1>2. f \in Surjection(S, T)
  BY DEF Surjection
<1>3. ExistsBijection(S, T)
  BY <1>1, <1>2 DEF ExistsBijection, Bijection
<1> QED BY <1>3, FS_Bijection

\* No more of one than of the other.
LEMMA InjCard ==
    ASSUME NEW S, NEW T, IsFiniteSet(T), NEW f \in [S -> T], \A x, y \in S : f[x] = f[y] => x = y
    PROVE  IsFiniteSet(S) /\ Cardinality(S) <= Cardinality(T)
<1>1. f \in Injection(S, T)
  BY DEF Injection, IsInjective
<1> QED BY <1>1, FS_Injection

\* The numbers of a set, n further.
Shift(n, B) == {n + i : i \in B}

\* Numbers up to n, and numbers behind n.
LEMMA JoinCard ==
    ASSUME NEW n \in Int, NEW A, NEW B, IsFiniteSet(A), IsFiniteSet(B),
           \A i \in A : i \in Int /\ i <= n, \A i \in B : i \in Int /\ i > 0
    PROVE  /\ Cardinality(A \cup Shift(n, B)) = Cardinality(A) + Cardinality(B)
           /\ Cardinality(A) \in Nat /\ Cardinality(B) \in Nat
<1> DEFINE D == Shift(n, B)
           f == [i \in B |-> n + i]
<1>1. IsFiniteSet(D) /\ Cardinality(D) = Cardinality(B)
  <2>1. f \in [B -> D]
    BY DEF Shift
  <2>2. \A x, y \in B : f[x] = f[y] => x = y
    OBVIOUS
  <2>3. \A z \in D : \E x \in B : f[x] = z
    BY DEF Shift
  <2> HIDE DEF D, f
  <2> QED BY <2>1, <2>2, <2>3, BijCard
<1>2. A \cap D = {}
  BY DEF Shift
<1>3. Cardinality(A) \in Nat /\ Cardinality(B) \in Nat
  BY FS_CardinalityType
<1> HIDE DEF D
<1>4. Cardinality(A \cup D) = Cardinality(A) + Cardinality(D) - Cardinality(A \cap D)
  BY <1>1, FS_Union
<1>5. Cardinality(A \cap D) = 0
  BY <1>2, FS_EmptySet
<1>6. Cardinality(A \cup D) = Cardinality(A) + Cardinality(B)
  <2> DEFINE a == Cardinality(A)
             b == Cardinality(B)
  <2>1. a \in Nat /\ b \in Nat
    BY <1>3
  <2> HIDE DEF a, b
  <2>2. Cardinality(A \cup D) = a + b - 0
    BY <1>1, <1>4, <1>5 DEF a, b
  <2>3. Cardinality(A \cup D) = a + b
    BY <2>1, <2>2
  <2> QED BY <2>3 DEF a, b
<1> QED BY <1>3, <1>6 DEF D

\* The ends of commands in two pieces.
LEMMA CompletedConcat ==
    ASSUME NEW s \in Seq(Unit), NEW t \in Seq(Unit)
    PROVE  Completed(s \o t) = Completed(s) + Completed(t) /\ Completed(s) \in Nat /\ Completed(t) \in Nat
<1> DEFINE E(u) == u[2] = Header + Size(u[1])
           n == Len(s)
           m == Len(t)
           z == s \o t
           A == {i \in 1 .. n : E(s[i])}
           B == {i \in 1 .. m : E(t[i])}
           C == {i \in 1 .. n + m : E(z[i])}
<1>1. z \in Seq(Unit) /\ Len(z) = n + m /\ n \in Nat /\ m \in Nat
      /\ (\A i \in 1 .. n : z[i] = s[i]) /\ \A i \in 1 .. m : z[n + i] = t[i]
  BY ConcatFacts
<1>2. DOMAIN s = 1 .. n /\ DOMAIN t = 1 .. m
  OBVIOUS
<1> HIDE DEF z
<1>3. DOMAIN z = 1 .. n + m
  BY <1>1
<1>4. Completed(s) = Cardinality(A) /\ Completed(t) = Cardinality(B) /\ Completed(z) = Cardinality(C)
  BY <1>2, <1>3 DEF Completed
<1> HIDE DEF E, n, m
<1>5. A \in SUBSET (1 .. n) /\ B \in SUBSET (1 .. m) /\ C \in SUBSET (1 .. n + m)
  OBVIOUS
<1>6. ASSUME NEW i \in 1 .. n PROVE i \in C <=> i \in A
  <2>1. i \in 1 .. n + m /\ z[i] = s[i]
    BY <1>1
  <2> QED BY <2>1
<1>7. ASSUME NEW i \in 1 .. m PROVE n + i \in C <=> i \in B
  <2>1. n + i \in 1 .. n + m /\ z[n + i] = t[i]
    BY <1>1
  <2> QED BY <2>1
<1> HIDE DEF A, B, C
<1>8. Cardinality(C) = Cardinality(A) + Cardinality(B) /\ Cardinality(A) \in Nat /\ Cardinality(B) \in Nat
  <2>1. n \in Nat /\ m \in Nat
    BY <1>1
  <2>2. (\A i \in 1 .. n : i \in C <=> i \in A) /\ \A i \in 1 .. m : n + i \in C <=> i \in B
    BY <1>6, <1>7
  <2>3. C = A \cup Shift(n, B)
    <3>1. ASSUME NEW i \in C PROVE i \in A \cup Shift(n, B)
      <4>1. CASE i <= n
        BY <1>5, <2>1, <2>2, <4>1
      <4>2. CASE i > n
        <5>1. i - n \in 1 .. m /\ n + (i - n) = i
          BY <1>5, <2>1, <4>2
        <5>2. i - n \in B
          BY <2>2, <5>1
        <5> QED BY <5>1, <5>2 DEF Shift
      <4> QED BY <1>5, <2>1, <4>1, <4>2
    <3>2. ASSUME NEW i \in A PROVE i \in C
      BY <1>5, <2>2
    <3>3. ASSUME NEW i \in Shift(n, B) PROVE i \in C
      BY <1>5, <2>2 DEF Shift
    <3> QED BY <3>1, <3>2, <3>3
  <2>4. IsFiniteSet(A) /\ IsFiniteSet(B)
    <3>1. IsFiniteSet(1 .. n) /\ IsFiniteSet(1 .. m)
      BY <2>1, FS_Interval
    <3> QED BY <1>5, <3>1, FS_Subset
  <2>5. n \in Int /\ (\A i \in A : i \in Int /\ i <= n) /\ \A i \in B : i \in Int /\ i > 0
    BY <1>5, <2>1
  <2>6. Cardinality(A \cup Shift(n, B)) = Cardinality(A) + Cardinality(B)
        /\ Cardinality(A) \in Nat /\ Cardinality(B) \in Nat
    BY <2>4, <2>5, JoinCard, ZenonT(40)
  <2> QED BY <2>3, <2>6
<1> QED BY <1>4, <1>8 DEF z

\* The end of the first command.
LEMMA CompletedFirst ==
    ASSUME NEW b \in Seq(Unit), NEW k, NEW m, m = Header + Size(k), \A i \in 1 .. Len(b) : i <= m => b[i] = <<k, i>>
    PROVE  /\ Len(b) < m => Completed(b) = 0
           /\ Len(b) >= m => /\ Completed(b) = 1 + Completed(SubSeq(b, m + 1, Len(b)))
                             /\ Completed(SubSeq(b, m + 1, Len(b))) \in Nat
<1> DEFINE E(u) == u[2] = Header + Size(u[1])
           C(s) == {i \in DOMAIN s : E(s[i])}
<1>1. m \in 2 .. 4 /\ Len(b) \in Nat /\ DOMAIN b = 1 .. Len(b)
  BY SizeFacts
<1>2. \A i \in 1 .. m : E(<<k, i>>) <=> i = m
  OBVIOUS
<1>3. \A s : Completed(s) = Cardinality(C(s))
  BY DEF Completed
<1> HIDE DEF E
<1>4. ASSUME Len(b) < m PROVE Completed(b) = 0
  <2>1. ASSUME NEW i \in DOMAIN b PROVE ~ E(b[i])
    <3>1. i \in 1 .. m /\ i # m /\ i <= m /\ i \in 1 .. Len(b)
      BY <1>1, <1>4
    <3>2. b[i] = <<k, i>>
      BY <3>1
    <3> QED BY <1>2, <3>1, <3>2
  <2>2. C(b) = {}
    BY <2>1
  <2> QED BY <1>3, <2>2, FS_EmptySet
<1>5. ASSUME Len(b) >= m
      PROVE  /\ Completed(b) = 1 + Completed(SubSeq(b, m + 1, Len(b))) /\ Completed(SubSeq(b, m + 1, Len(b))) \in Nat
  <2> DEFINE p == SubSeq(b, 1, m)
             q == SubSeq(b, m + 1, Len(b))
  <2>1. p \in Seq(Unit) /\ Len(p) = m /\ (\A i \in 1 .. m : p[i] = b[i]) /\ m \in Nat
    BY <1>1, <1>5
  <2>2. q \in Seq(Unit) /\ Len(q) = Len(b) - m /\ \A i \in 1 .. Len(b) - m : q[i] = b[m + i]
    BY <1>1, <1>5, PieceFacts, SMTT(30)
  <2>3. p \o q = b
    <3>1. b \in Seq(Unit) /\ m \in Nat /\ m <= Len(b)
      BY <1>1, <1>5
    <3> QED BY <3>1, SplitAt
  <2> HIDE DEF p, q
  <2>4. Completed(p) = 1
    <3>1. ASSUME NEW i \in 1 .. m PROVE E(p[i]) <=> i = m
      <4>1. i \in 1 .. Len(b) /\ i <= m
        BY <1>1, <1>5
      <4> QED BY <1>2, <2>1, <4>1
    <3>2. DOMAIN p = 1 .. m /\ m \in 1 .. m
      BY <1>1, <2>1
    <3>3. C(p) = {m}
      BY <3>1, <3>2
    <3> QED BY <1>3, <3>3, FS_Singleton
  <2>5. Completed(p \o q) = Completed(p) + Completed(q) /\ Completed(q) \in Nat
    BY <2>1, <2>2, CompletedConcat
  <2> QED BY <2>3, <2>4, <2>5 DEF q
<1> QED BY <1>4, <1>5

\* A message adds to what waits no more than to surplus: the handler takes one.
LEMMA WaitDeliver ==
    ASSUME WaitIInv, NEW c \in Clients, Deliver(c)
    PROVE  NothingWaits'
<1> SUFFICES ASSUME Orderly', \A k \in Arrived' : kinds'[k] \notin {"missing", "barred"}
             PROVE  Completed(command_buffer)' <= surplus'
  BY DEF NothingWaits
<1>1. kinds' = kinds
  BY DEF Deliver
<1>2. OrderIInv /\ NothingWaits
  BY DEF WaitIInv
<1>3. Orderly /\ Arrived \subseteq Arrived'
  BY <1>2, OrderDeliver
<1>4. PICK data \in Seq(Unit), k \in Arrived' : Comes(data, k)
  BY <1>2, OrderDeliver
<1> DEFINE b == command_buffer \o data
           m == Header + Size(k)
           rest == SubSeq(b, m + 1, Len(b))
           x == Completed(command_buffer)
           d == Completed(data)
<1>5. b \in Seq(Unit) /\ \A i \in 1 .. Len(b) : i <= m => b[i] = <<k, i>>
  BY <1>4 DEF Comes
<1>6. x <= surplus /\ surplus \in Nat /\ command_buffer \in Seq(Unit)
  BY <1>1, <1>2, <1>3 DEF NothingWaits, OrderIInv, LotTypes
<1>7. k \notin missing /\ kinds[k] # "barred"
  <2>1. kinds[k] \notin {"missing", "barred"}
    BY <1>1, <1>4
  <2> QED BY <1>2, <2>1 DEF OrderIInv, LotTypes
<1>8. surplus' = surplus + (IF d > 1 THEN d - 1 ELSE 0)
      /\ ((command_buffer' = b /\ Len(b) < m) \/ (command_buffer' = rest /\ Len(b) >= m))
  BY <1>4, <1>7 DEF Comes
<1>9. /\ Len(b) < m => Completed(b) = 0
      /\ Len(b) >= m => Completed(b) = 1 + Completed(rest) /\ Completed(rest) \in Nat
  BY <1>5, CompletedFirst
<1>10. Completed(b) = x + d /\ x \in Nat /\ d \in Nat
  BY <1>6, CompletedConcat
<1>11. Completed(command_buffer)' = Completed(command_buffer')
  BY <1>1 DEF Completed, Size
<1> DEFINE z == Completed(command_buffer)'
<1>12. z = Completed(command_buffer')
  BY <1>11
<1> HIDE DEF b, m, rest, x, d, z
<1>13. CASE command_buffer' = b /\ Len(b) < m
  BY <1>6, <1>8, <1>9, <1>10, <1>12, <1>13 DEF z
<1>14. CASE command_buffer' = rest /\ Len(b) >= m
  <2>1. z = x + d - 1
    BY <1>9, <1>10, <1>12, <1>14
  <2> QED BY <1>6, <1>8, <1>10, <2>1 DEF z
<1> QED BY <1>8, <1>13, <1>14

\* A step that leaves the buffer alone.
LEMMA WaitSame ==
    ASSUME LotTypes, \A k \in DOMAIN kinds : kinds'[k] = kinds[k],
           UNCHANGED <<command_buffer, history>>, NothingWaits
    PROVE  NothingWaits'
<1>1. command_buffer' = command_buffer /\ arrival' = arrival /\ joins' = joins /\ surplus' = surplus
  BY DEF history
<1>2. arrival \in Seq(DOMAIN kinds) /\ command_buffer \in Seq(Unit)
  BY DEF LotTypes
<1>3. Arrived' = Arrived /\ Arrived \subseteq DOMAIN kinds
  BY <1>1, <1>2 DEF Arrived, ToSet
<1> SUFFICES ASSUME Orderly', \A k \in Arrived' : kinds'[k] \notin {"missing", "barred"}
             PROVE  Completed(command_buffer)' <= surplus'
  BY DEF NothingWaits
<1>4. Completed(command_buffer) <= surplus
  <2>1. Orderly /\ \A k \in Arrived : kinds[k] \notin {"missing", "barred"}
    BY <1>1, <1>3 DEF Orderly
  <2> QED BY <2>1 DEF NothingWaits
<1>5. Completed(command_buffer)' = Completed(command_buffer)
  <2>1. \A i \in DOMAIN command_buffer : kinds'[command_buffer[i][1]] = kinds[command_buffer[i][1]]
    BY <1>2 DEF Unit
  <2> QED BY <1>1, <2>1 DEF Completed, Size
<1> QED BY <1>1, <1>4, <1>5

(***************************************************************************)
(* Unless a command raises, no whole command waits but those that came in  *)
(* one message with others.                                                *)
(***************************************************************************)
THEOREM WaitsOnlyBehind == Spec => []NothingWaits
<1>1. Init => NothingWaits
  <2> SUFFICES ASSUME Init PROVE Completed(command_buffer) <= surplus
    BY DEF NothingWaits
  <2>1. command_buffer = << >> /\ surplus = 0
    BY DEF Init
  <2>2. {i \in DOMAIN command_buffer : command_buffer[i][2] = Header + Size(command_buffer[i][1])} = {}
    BY <2>1
  <2>3. Completed(command_buffer) = 0
    BY <2>2, FS_EmptySet DEF Completed
  <2> QED BY <2>1, <2>3
<1>2. OrderIInv /\ NothingWaits /\ [Next]_vars => NothingWaits'
  <2> SUFFICES ASSUME OrderIInv, NothingWaits, [Next]_vars PROVE NothingWaits'
    OBVIOUS
  <2>1. LotTypes
    BY DEF OrderIInv
  <2>2. CASE \E c \in Clients, kind \in Kinds : Submit(c, kind)
    <3>1. PICK c \in Clients, kind \in Kinds : kinds' = Append(kinds, kind) /\ UNCHANGED <<encoder, history>>
      BY <2>2 DEF Submit
    <3>2. \A k \in DOMAIN kinds : kinds'[k] = kinds[k]
      <4>1. kinds \in Seq(Kinds)
        BY <2>1 DEF LotTypes
      <4> QED BY <3>1, <4>1
    <3>3. UNCHANGED <<command_buffer, history>>
      BY <3>1 DEF encoder
    <3> QED BY <2>1, <3>2, <3>3, WaitSame
  <2>3. CASE (\E c \in Clients : Break(c)) \/ FileAppears \/ UNCHANGED vars
    <3>1. UNCHANGED <<kinds, command_buffer, history>>
      BY <2>3 DEF Break, FileAppears, vars, io, encoder
    <3>2. UNCHANGED <<command_buffer, history>> /\ \A k \in DOMAIN kinds : kinds'[k] = kinds[k]
      BY <3>1
    <3> QED BY <2>1, <3>2, WaitSame
  <2>4. CASE \E c \in Clients : Deliver(c)
    BY <2>4, WaitDeliver DEF WaitIInv
  <2> QED BY <2>2, <2>3, <2>4 DEF Next
<1> QED BY <1>1, <1>2, OrderInvariance, PTL DEF Spec
-------------------------------------------------------------------------------
\* What a client writes: each command of a wire begins in it, or has arrived in part,
\* and only the text of a broken one lacks its newline.
Well(w, there, cut, kk) ==
    \A i \in 1 .. Len(w) :
        /\ w[i][2] <= Header + (IF kk[w[i][1]] \in Streamed THEN 2 ELSE 0)
        /\ w[i][1] \in there \/ \E j \in 1 .. i : w[j] = <<w[i][1], 1>>
        /\ w[i][2] = 1 /\ w[i][1] \notin cut => i < Len(w) /\ w[i + 1] = <<w[i][1], 2>>
\* The inductive invariant of what clients write.
WireIInv == LotTypes /\ \A c \in Clients : Well(wire[c], Arrived, broken, kinds)

\* It says less if more has arrived and more is broken.
LEMMA WellMore ==
    ASSUME NEW w, NEW a, NEW a2, NEW b, NEW b2, NEW kk, NEW k2, Well(w, a, b, kk),
           a \subseteq a2, b \subseteq b2, \A i \in 1 .. Len(w) : k2[w[i][1]] = kk[w[i][1]]
    PROVE  Well(w, a2, b2, k2)
BY DEF Well

\* A whole command more.
LEMMA WellSubmit ==
    ASSUME NEW kk, NEW k2, NEW U, NEW w \in Seq(U), NEW a, NEW b, Well(w, a, b, kk),
           \A i \in 1 .. Len(w) : k2[w[i][1]] = kk[w[i][1]],
           NEW k \in Nat, NEW size \in Nat, size = IF k2[k] \in Streamed THEN 2 ELSE 0,
           NEW u \in Seq(U), Len(u) = Header + size, \A i \in 1 .. Len(u) : u[i] = <<k, i>>
    PROVE  Well(w \o u, a, b, k2)
<1> DEFINE v == w \o u
           n == Len(w)
           m == Len(u)
<1>1. /\ v \in Seq(U) /\ Len(v) = n + m /\ n \in Nat /\ m \in Nat
      /\ (\A i \in 1 .. n : v[i] = w[i]) /\ \A i \in 1 .. m : v[n + i] = u[i]
  BY ConcatFacts
<1>2. m >= 2 /\ m = Header + (IF k2[k] \in Streamed THEN 2 ELSE 0)
  BY DEF Header
<1>3. \A i \in 1 .. m : v[n + i] = <<k, i>>
  BY <1>1
<1>4. \A i \in 1 .. n :
        /\ w[i][2] <= Header + (IF k2[w[i][1]] \in Streamed THEN 2 ELSE 0)
        /\ w[i][1] \in a \/ \E j \in 1 .. i : w[j] = <<w[i][1], 1>>
        /\ w[i][2] = 1 /\ w[i][1] \notin b => i < n /\ w[i + 1] = <<w[i][1], 2>>
  BY DEF Well
<1>5. \A i \in 1 .. n : v[i] = w[i]
  BY <1>1
<1>6. n \in Nat /\ m \in Nat /\ Len(v) = n + m /\ m >= 2
  BY <1>1, <1>2
<1> DEFINE H(x) == Header + (IF k2[x] \in Streamed THEN 2 ELSE 0)
<1> HIDE DEF v, n, m, H
<1>7. ASSUME NEW i \in 1 .. n
      PROVE  /\ v[i][2] <= H(v[i][1])
             /\ v[i][1] \in a \/ \E j \in 1 .. i : v[j] = <<v[i][1], 1>>
             /\ v[i][2] = 1 /\ v[i][1] \notin b => i < n + m /\ v[i + 1] = <<v[i][1], 2>>
  <2>1. v[i] = w[i]
    BY <1>5
  <2>2. v[i][2] <= H(v[i][1])
    BY <1>4, <2>1 DEF H
  <2>3. v[i][1] \in a \/ \E j \in 1 .. i : v[j] = <<v[i][1], 1>>
    <3>1. w[i][1] \in a \/ \E j \in 1 .. i : w[j] = <<w[i][1], 1>>
      BY <1>4
    <3>2. ASSUME NEW j \in 1 .. i PROVE v[j] = w[j]
      <4>1. j \in 1 .. n
        BY <1>6
      <4> QED BY <1>5, <4>1
    <3> QED BY <2>1, <3>1, <3>2
  <2>4. ASSUME v[i][2] = 1, v[i][1] \notin b PROVE i < n + m /\ v[i + 1] = <<v[i][1], 2>>
    <3>1. i < n /\ w[i + 1] = <<w[i][1], 2>>
      BY <1>4, <2>1, <2>4
    <3>2. i + 1 \in 1 .. n /\ i < n + m
      BY <1>6, <3>1
    <3> QED BY <1>5, <2>1, <3>1, <3>2
  <2> QED BY <2>2, <2>3, <2>4
<1>8. ASSUME NEW j \in 1 .. m
      PROVE  LET i == n + j
             IN  /\ v[i][2] <= H(v[i][1])
                 /\ v[i][1] \in a \/ \E h \in 1 .. i : v[h] = <<v[i][1], 1>>
                 /\ v[i][2] = 1 /\ v[i][1] \notin b => i < n + m /\ v[i + 1] = <<v[i][1], 2>>
  <2>0. 1 \in 1 .. m /\ 2 \in 1 .. m
    BY <1>6
  <2>1. v[n + j] = <<k, j>> /\ 1 \in 1 .. m /\ 2 \in 1 .. m
    BY <1>3, <2>0
  <2>2. v[n + 1] = <<k, 1>> /\ v[n + 2] = <<k, 2>> /\ n + 1 \in 1 .. n + j
    BY <1>3, <1>6, <2>1
  <2>3. j <= H(k)
    BY <1>2 DEF H
  <2>4. ASSUME j = 1 PROVE n + j < n + m /\ (n + j) + 1 = n + 2
    BY <1>2, <1>6, <2>4
  <2>5. v[n + j][1] = k /\ v[n + j][2] = j
    BY <2>1
  <2> QED BY <2>2, <2>3, <2>4, <2>5
<1>9. \A i \in 1 .. n + m : i \in 1 .. n \/ (i - n \in 1 .. m /\ n + (i - n) = i)
  BY <1>6
<1>10. ASSUME NEW i \in 1 .. n + m
       PROVE  /\ v[i][2] <= H(v[i][1])
              /\ v[i][1] \in a \/ \E j \in 1 .. i : v[j] = <<v[i][1], 1>>
              /\ v[i][2] = 1 /\ v[i][1] \notin b => i < n + m /\ v[i + 1] = <<v[i][1], 2>>
  <2>1. CASE i \in 1 .. n
    BY <1>7, <2>1
  <2>2. CASE i - n \in 1 .. m /\ n + (i - n) = i
    <3> DEFINE j == i - n
    <3>1. j \in 1 .. m /\ n + j = i
      BY <2>2
    <3> HIDE DEF j
    <3> QED BY <1>8, <3>1
  <2> QED BY <1>9, <2>1, <2>2
<1>11. Well(v, a, b, k2)
  BY <1>6, <1>10 DEF Well, H
<1> QED BY <1>11 DEF v

\* The client breaks off behind n units.
LEMMA WellBreak ==
    ASSUME NEW kk, NEW U, NEW w \in Seq(U), NEW a, Well(w, a, {}, kk), NEW n \in Nat, n <= Len(w)
    PROVE  Well(SubSeq(w, 1, n), a, {w[i][1] : i \in n + 1 .. Len(w)}, kk)
<1> DEFINE v == SubSeq(w, 1, n)
           b == {w[i][1] : i \in n + 1 .. Len(w)}
           l == Len(w)
<1>1. Len(v) = n /\ (\A i \in 1 .. n : v[i] = w[i]) /\ l \in Nat /\ n <= l
  OBVIOUS
<1>2. \A i \in 1 .. l :
        /\ w[i][2] <= Header + (IF kk[w[i][1]] \in Streamed THEN 2 ELSE 0)
        /\ w[i][1] \in a \/ \E j \in 1 .. i : w[j] = <<w[i][1], 1>>
        /\ w[i][2] = 1 => i < l /\ w[i + 1] = <<w[i][1], 2>>
  BY DEF Well
<1>3. \A i \in n + 1 .. l : w[i][1] \in b
  OBVIOUS
<1> HIDE DEF v, b, l
<1>4. ASSUME NEW i \in 1 .. n
      PROVE  /\ v[i][2] <= Header + (IF kk[v[i][1]] \in Streamed THEN 2 ELSE 0)
             /\ v[i][1] \in a \/ \E j \in 1 .. i : v[j] = <<v[i][1], 1>>
             /\ v[i][2] = 1 /\ v[i][1] \notin b => i < n /\ v[i + 1] = <<v[i][1], 2>>
  <2>1. v[i] = w[i] /\ i \in 1 .. l
    BY <1>1
  <2>2. ASSUME NEW j \in 1 .. i PROVE v[j] = w[j]
    BY <1>1
  <2>3. ASSUME v[i][2] = 1, v[i][1] \notin b PROVE i < n /\ v[i + 1] = <<v[i][1], 2>>
    <3>1. i < l /\ w[i + 1] = <<w[i][1], 2>>
      BY <1>2, <2>1, <2>3
    <3>2. i # n
      <4>1. ASSUME i = n PROVE FALSE
        <5>1. i + 1 \in n + 1 .. l
          BY <1>1, <3>1, <4>1
        <5>2. w[i + 1][1] \in b
          BY <1>3, <5>1
        <5> QED BY <2>1, <2>3, <3>1, <5>2
      <4> QED BY <4>1
    <3>3. i + 1 \in 1 .. n /\ i < n
      BY <1>1, <3>2
    <3> QED BY <1>1, <2>1, <3>1, <3>3
  <2>4. v[i][1] \in a \/ \E j \in 1 .. i : v[j] = <<v[i][1], 1>>
    BY <1>2, <2>1, <2>2
  <2>5. v[i][2] <= Header + (IF kk[v[i][1]] \in Streamed THEN 2 ELSE 0)
    BY <1>2, <2>1
  <2> QED BY <2>3, <2>4, <2>5
<1>5. Well(v, a, b, kk)
  BY <1>1, <1>4 DEF Well
<1> QED BY <1>5 DEF v, b, l

\* The first n units come.
LEMMA WellDeliver ==
    ASSUME NEW kk, NEW U, NEW w \in Seq(U), NEW a, NEW a2, NEW b, Well(w, a, b, kk), NEW n \in Nat, n <= Len(w),
           a \subseteq a2, \A i \in 1 .. n : w[i][2] = 1 => w[i][1] \in a2
    PROVE  Well(SubSeq(w, n + 1, Len(w)), a2, b, kk)
<1> DEFINE v == SubSeq(w, n + 1, Len(w))
           l == Len(w)
<1>1. Len(v) = l - n /\ (\A i \in 1 .. l - n : v[i] = w[n + i]) /\ l \in Nat /\ n <= l
  BY PieceFacts
<1>2. \A i \in 1 .. l :
        /\ w[i][2] <= Header + (IF kk[w[i][1]] \in Streamed THEN 2 ELSE 0)
        /\ w[i][1] \in a \/ \E j \in 1 .. i : w[j] = <<w[i][1], 1>>
        /\ w[i][2] = 1 /\ w[i][1] \notin b => i < l /\ w[i + 1] = <<w[i][1], 2>>
  BY DEF Well
<1> HIDE DEF v, l
<1>3. ASSUME NEW i \in 1 .. l - n
      PROVE  /\ v[i][2] <= Header + (IF kk[v[i][1]] \in Streamed THEN 2 ELSE 0)
             /\ v[i][1] \in a2 \/ \E j \in 1 .. i : v[j] = <<v[i][1], 1>>
             /\ v[i][2] = 1 /\ v[i][1] \notin b => i < l - n /\ v[i + 1] = <<v[i][1], 2>>
  <2>1. v[i] = w[n + i] /\ n + i \in 1 .. l
    BY <1>1
  <2>2. v[i][1] \in a2 \/ \E j \in 1 .. i : v[j] = <<v[i][1], 1>>
    <3>1. w[n + i][1] \in a \/ \E j \in 1 .. n + i : w[j] = <<w[n + i][1], 1>>
      BY <1>2, <2>1
    <3>2. ASSUME NEW j \in 1 .. n + i, w[j] = <<w[n + i][1], 1>> PROVE v[i][1] \in a2 \/ \E h \in 1 .. i : v[h] = <<v[i][1], 1>>
      <4>1. CASE j <= n
        <5>1. j \in 1 .. n /\ w[j][2] = 1 /\ w[j][1] = w[n + i][1]
          BY <3>2, <4>1
        <5> QED BY <2>1, <5>1
      <4>2. CASE j > n
        <5>1. j - n \in 1 .. i /\ j - n \in 1 .. l - n /\ n + (j - n) = j
          BY <1>1, <4>2
        <5>2. v[j - n] = <<v[i][1], 1>>
          BY <1>1, <2>1, <3>2, <5>1
        <5> QED BY <5>1, <5>2
      <4> QED BY <4>1, <4>2
    <3> QED BY <2>1, <3>1, <3>2
  <2>3. ASSUME v[i][2] = 1, v[i][1] \notin b PROVE i < l - n /\ v[i + 1] = <<v[i][1], 2>>
    <3>1. n + i < l /\ w[n + i + 1] = <<w[n + i][1], 2>>
      BY <1>2, <2>1, <2>3
    <3>2. i + 1 \in 1 .. l - n /\ i < l - n /\ n + (i + 1) = n + i + 1
      BY <1>1, <3>1
    <3> QED BY <1>1, <2>1, <3>1, <3>2
  <2>4. v[i][2] <= Header + (IF kk[v[i][1]] \in Streamed THEN 2 ELSE 0)
    BY <1>2, <2>1
  <2> QED BY <2>2, <2>3, <2>4
<1>4. l - n \in Nat
  BY <1>1
<1>5. Well(v, a2, b, kk)
  BY <1>1, <1>3, <1>4 DEF Well
<1> QED BY <1>5 DEF v, l

\* The commands begun among some units are those whose first unit is among them.
LEMMA BegunSet ==
    ASSUME NEW s \in Seq(Unit)
    PROVE  ToSet(Begun(s)) = {s[i][1] : i \in {j \in 1 .. Len(s) : s[j][2] = 1}}
<1> DEFINE First(m) == {s[i][1] : i \in {j \in 1 .. m : s[j][2] = 1}}
           N == {m \in Nat : m <= Len(s) => ToSet(Begun(SubSeq(s, 1, m))) = First(m)}
<1>1. Len(s) \in Nat /\ SubSeq(s, 1, 0) = << >> /\ SubSeq(s, 1, Len(s)) = s
  OBVIOUS
<1>2. 0 \in N
  <2>1. ToSet(<< >>) = {} /\ First(0) = {}
    BY DEF ToSet
  <2> QED BY <1>1, <2>1, BegunFacts
<1>3. ASSUME NEW m \in Nat, m \in N PROVE m + 1 \in N
  <2> SUFFICES ASSUME m + 1 <= Len(s) PROVE ToSet(Begun(SubSeq(s, 1, m + 1))) = First(m + 1)
    OBVIOUS
  <2> DEFINE p == SubSeq(s, 1, m)
             v == s[m + 1]
             x == Begun(p)
  <2>1. m < Len(s)
    BY <1>1
  <2>2. SubSeq(s, 1, m + 1) = Append(p, v) /\ p \in Seq(Unit) /\ v \in Unit
    BY <2>1, PrefixStep
  <2>3. ToSet(x) = First(m)
    BY <1>1, <1>3, <2>1
  <2> HIDE DEF p
  <2>4. Begun(Append(p, v)) = x \o (IF v[2] = 1 THEN <<v[1]>> ELSE << >>) /\ x \in Seq(DOMAIN kinds)
    BY <2>2, BegunFacts
  <2>5. v[1] \in DOMAIN kinds
    BY <2>2 DEF Unit
  <2> HIDE DEF x
  <2>6. CASE v[2] = 1
    <3>1. First(m + 1) = First(m) \cup {v[1]}
      BY <2>6
    <3>2. ToSet(x \o <<v[1]>>) = ToSet(x) \cup {v[1]}
      <4> DEFINE k == v[1]
                 y == x \o <<k>>
      <4>1. k \in DOMAIN kinds /\ x \in Seq(DOMAIN kinds)
        BY <2>4, <2>5
      <4> HIDE DEF k
      <4>2. y = Append(x, k) /\ DOMAIN x = 1 .. Len(x) /\ Len(x) \in Nat
        BY <4>1
      <4>3. DOMAIN y = 1 .. Len(x) + 1 /\ (\A i \in 1 .. Len(x) : y[i] = x[i]) /\ y[Len(x) + 1] = k
        BY <4>1, <4>2
      <4> HIDE DEF y
      <4>4. ToSet(y) = ToSet(x) \cup {k}
        BY <4>2, <4>3 DEF ToSet
      <4> QED BY <4>4 DEF y, k
    <3> QED BY <2>2, <2>3, <2>4, <2>6, <3>1, <3>2
  <2>7. CASE v[2] # 1
    <3>1. First(m + 1) = First(m)
      BY <2>7
    <3>2. x \o << >> = x
      BY <2>4
    <3> QED BY <2>2, <2>3, <2>4, <2>7, <3>1, <3>2
  <2> QED BY <2>6, <2>7
<1> HIDE DEF N
<1>4. Nat \subseteq N
  BY <1>2, <1>3, SetInduction
<1>5. ToSet(Begun(SubSeq(s, 1, Len(s)))) = First(Len(s))
  BY <1>1, <1>4 DEF N
<1> QED BY <1>1, <1>5

\* The commands that arrive are those whose first unit comes.
LEMMA ArrivedDeliver ==
    ASSUME LotTypes, NEW data \in Seq(Unit), arrival' = arrival \o Begun(data)
    PROVE  Arrived' = Arrived \cup {data[i][1] : i \in {j \in 1 .. Len(data) : data[j][2] = 1}}
<1> DEFINE x == Begun(data)
           a == arrival
           z == a \o x
<1>1. x \in Seq(DOMAIN kinds) /\ a \in Seq(DOMAIN kinds)
  BY BegunFacts DEF LotTypes
<1>2. ToSet(x) = {data[i][1] : i \in {j \in 1 .. Len(data) : data[j][2] = 1}}
  BY BegunSet
<1>3. arrival' = z
  OBVIOUS
<1> HIDE DEF x, a
<1>4. ToSet(z) = ToSet(a) \cup ToSet(x)
  <2>1. DOMAIN a = 1 .. Len(a) /\ DOMAIN x = 1 .. Len(x)
    BY <1>1
  <2>2. /\ z \in Seq(DOMAIN kinds) /\ Len(z) = Len(a) + Len(x) /\ Len(a) \in Nat /\ Len(x) \in Nat
        /\ (\A i \in 1 .. Len(a) : z[i] = a[i]) /\ \A i \in 1 .. Len(x) : z[Len(a) + i] = x[i]
    BY <1>1, ConcatFacts
  <2> HIDE DEF z
  <2>3. DOMAIN z = 1 .. Len(z)
    BY <2>2
  <2> DEFINE n == Len(a)
             m == Len(x)
  <2>4. DOMAIN a = 1 .. n /\ DOMAIN x = 1 .. m /\ DOMAIN z = 1 .. n + m /\ n \in Nat /\ m \in Nat
        /\ (\A i \in 1 .. n : z[i] = a[i]) /\ \A i \in 1 .. m : z[n + i] = x[i]
    BY <2>1, <2>2, <2>3
  <2> HIDE DEF n, m
  <2>5. ASSUME NEW e \in ToSet(z) PROVE e \in ToSet(a) \cup ToSet(x)
    <3>1. PICK i \in 1 .. n + m : e = z[i]
      BY <2>4 DEF ToSet
    <3>2. CASE i <= n
      <4>1. i \in 1 .. n
        BY <2>4, <3>2
      <4> QED BY <2>4, <3>1, <4>1 DEF ToSet
    <3>3. CASE i > n
      <4>1. i - n \in 1 .. m /\ n + (i - n) = i
        BY <2>4, <3>3
      <4>2. e = x[i - n]
        BY <2>4, <3>1, <4>1
      <4> QED BY <2>4, <4>1, <4>2 DEF ToSet
    <3> QED BY <2>4, <3>2, <3>3
  <2>6. ASSUME NEW e \in ToSet(a) PROVE e \in ToSet(z)
    <3>1. PICK i \in 1 .. n : e = a[i]
      BY <2>4 DEF ToSet
    <3>2. i \in 1 .. n + m /\ e = z[i]
      BY <2>4, <3>1
    <3> QED BY <2>4, <3>2 DEF ToSet
  <2>7. ASSUME NEW e \in ToSet(x) PROVE e \in ToSet(z)
    <3>1. PICK i \in 1 .. m : e = x[i]
      BY <2>4 DEF ToSet
    <3>2. n + i \in 1 .. n + m /\ e = z[n + i]
      BY <2>4, <3>1
    <3> QED BY <2>4, <3>2 DEF ToSet
  <2> QED BY <2>5, <2>6, <2>7
<1> QED BY <1>2, <1>3, <1>4 DEF Arrived, a

\* It holds of every wire.
LEMMA WireInvariance == Spec => []WireIInv
<1>1. Init => WireIInv
  <2> SUFFICES ASSUME Init PROVE \A c \in Clients : Well(wire[c], Arrived, broken, kinds)
    BY TypesInit DEF WireIInv
  <2> TAKE c \in Clients
  <2>1. Len(wire[c]) = 0
    BY DEF Init
  <2> QED BY <2>1 DEF Well
<1>2. WireIInv /\ [Next]_vars => WireIInv'
  <2> SUFFICES ASSUME WireIInv, [Next]_vars PROVE WireIInv'
    OBVIOUS
  <2>1. LotTypes /\ LotTypes'
    BY TypesNext DEF WireIInv
  <2> SUFFICES ASSUME NEW c \in Clients PROVE Well(wire'[c], Arrived', broken', kinds')
    BY <2>1 DEF WireIInv
  <2>2. /\ Well(wire[c], Arrived, broken, kinds) /\ wire[c] \in Seq(Unit) /\ wire \in [Clients -> Seq(Unit)]
        /\ kinds \in Seq(Kinds)
    BY <2>1 DEF WireIInv, LotTypes
  <2>3. \A i \in 1 .. Len(wire[c]) : wire[c][i][1] \in DOMAIN kinds
    BY <2>2 DEF Unit
  <2>4. ASSUME NEW d \in Clients, NEW kind \in Kinds, Submit(d, kind)
        PROVE  Well(wire'[c], Arrived', broken', kinds')
    <3> DEFINE k == Len(kinds) + 1
               size == IF kind \in Streamed THEN 2 ELSE 0
               u == Units(k, size)
    <3>1. kinds' = Append(kinds, kind) /\ wire' = [wire EXCEPT ![d] = @ \o u] /\ broken' = broken /\ arrival' = arrival
      BY <2>4 DEF Submit, history
    <3>2. Arrived' = Arrived
      BY <3>1 DEF Arrived
    <3>3. kinds'[k] = kind /\ (\A j \in DOMAIN kinds : kinds'[j] = kinds[j]) /\ k \in Nat
      BY <2>2, <3>1
    <3>4. \A i \in 1 .. Len(wire[c]) : kinds'[wire[c][i][1]] = kinds[wire[c][i][1]]
      BY <2>3, <3>3
    <3>5. CASE c # d
      <4>1. wire'[c] = wire[c]
        BY <2>2, <3>1, <3>5
      <4> QED BY <2>2, <3>1, <3>2, <3>4, <4>1, WellMore
    <3>6. CASE c = d
      <4>1. wire'[c] = wire[c] \o u
        BY <2>2, <3>1, <3>6
      <4>2. size \in Nat /\ size = IF kinds'[k] \in Streamed THEN 2 ELSE 0
        BY <3>3
      <4> HIDE DEF k, size
      <4>3. u \in Seq(Nat \X Nat) /\ Len(u) = Header + size /\ \A i \in 1 .. Len(u) : u[i] = <<k, i>>
        <5>1. Header + size \in Nat
          BY <4>2 DEF Header
        <5>2. u = [i \in 1 .. Header + size |-> <<k, i>>]
          BY DEF Units
        <5> HIDE DEF u
        <5> QED BY <3>3, <5>1, <5>2
      <4>4. wire[c] \in Seq(Nat \X Nat)
        <5>1. Unit \subseteq Nat \X Nat
          BY <2>2 DEF Unit
        <5> QED BY <2>2, <5>1
      <4> HIDE DEF u
      <4>5. Well(wire[c] \o u, Arrived, broken, kinds')
        BY <2>2, <3>3, <3>4, <4>2, <4>3, <4>4, WellSubmit, ZenonT(40)
      <4> QED BY <3>1, <3>2, <4>1, <4>5
    <3> QED BY <3>5, <3>6
  <2>5. ASSUME NEW d \in Clients, Break(d)
        PROVE  Well(wire'[c], Arrived', broken', kinds')
    <3>1. PICK n \in 0 .. Len(wire[d]) - 1 :
            wire' = [wire EXCEPT ![d] = SubSeq(@, 1, n)] /\ broken' = {wire[d][i][1] : i \in n + 1 .. Len(wire[d])}
      BY <2>5 DEF Break
    <3>2. kinds' = kinds /\ arrival' = arrival /\ broken = {}
      BY <2>5 DEF Break, history
    <3>3. Arrived' = Arrived
      BY <3>2 DEF Arrived
    <3>4. CASE c # d
      <4>1. wire'[c] = wire[c]
        BY <2>2, <3>1, <3>4
      <4>2. broken \subseteq broken'
        BY <3>2
      <4> QED BY <2>2, <3>2, <3>3, <4>1, <4>2, WellMore
    <3>5. CASE c = d
      <4>1. wire'[c] = SubSeq(wire[c], 1, n) /\ n \in Nat /\ n <= Len(wire[c])
        BY <2>2, <3>1, <3>5
      <4>2. Well(SubSeq(wire[c], 1, n), Arrived, {wire[c][i][1] : i \in n + 1 .. Len(wire[c])}, kinds)
        BY <2>2, <3>2, <4>1, WellBreak
      <4> QED BY <3>1, <3>2, <3>3, <3>5, <4>1, <4>2
    <3> QED BY <3>4, <3>5
  <2>6. CASE FileAppears \/ UNCHANGED vars
    <3>1. wire' = wire /\ arrival' = arrival /\ broken' = broken /\ kinds' = kinds
      BY <2>6 DEF FileAppears, vars, io, history
    <3>2. Arrived' = Arrived
      BY <3>1 DEF Arrived
    <3> QED BY <2>2, <3>1, <3>2
  <2>7. ASSUME NEW d \in Clients, Deliver(d)
        PROVE  Well(wire'[c], Arrived', broken', kinds')
    <3>1. PICK n \in 1 .. Len(wire[d]) :
            /\ wire' = [wire EXCEPT ![d] = SubSeq(@, n + 1, Len(@))]
            /\ arrival' = arrival \o Begun(SubSeq(wire[d], 1, n))
            /\ UNCHANGED <<kinds, missing, broken>>
      BY <2>7 DEF Deliver
    <3> DEFINE data == SubSeq(wire[d], 1, n)
    <3>2. wire[d] \in Seq(Unit) /\ n \in Nat /\ n <= Len(wire[d])
      BY <2>1 DEF LotTypes
    <3>3. data \in Seq(Unit) /\ Len(data) = n /\ \A i \in 1 .. n : data[i] = wire[d][i]
      BY <3>2
    <3> HIDE DEF data
    <3>4. Arrived' = Arrived \cup {data[i][1] : i \in {j \in 1 .. Len(data) : data[j][2] = 1}}
      BY <2>1, <3>1, <3>3, ArrivedDeliver DEF data
    <3>5. Arrived \subseteq Arrived' /\ \A i \in 1 .. n : wire[d][i][2] = 1 => wire[d][i][1] \in Arrived'
      BY <3>3, <3>4
    <3>6. CASE c # d
      <4>1. wire'[c] = wire[c]
        BY <2>2, <3>1, <3>6
      <4> QED BY <2>2, <3>1, <3>5, <4>1, WellMore
    <3>7. CASE c = d
      <4>1. wire'[c] = SubSeq(wire[c], n + 1, Len(wire[c]))
        BY <2>2, <3>1, <3>7
      <4>2. Well(SubSeq(wire[c], n + 1, Len(wire[c])), Arrived', broken, kinds)
        BY <2>2, <3>2, <3>5, <3>7, WellDeliver
      <4> QED BY <3>1, <4>1, <4>2
    <3> QED BY <3>6, <3>7
  <2> QED BY <2>4, <2>5, <2>6, <2>7 DEF Next
<1> QED BY <1>1, <1>2, PTL DEF Spec
-------------------------------------------------------------------------------
\* May unit v follow unit u, of commands without data?
Goes(u, v) == IF u[2] = 1 THEN v = <<u[1], 2>> ELSE v[2] = 1

\* What comes before place i of s, which is behind l.
Before(l, s, i) == IF i = 1 THEN l ELSE s[i - 1]

\* The unit before one further on.
LEMMA BeforeAt ==
    ASSUME NEW l, NEW s, NEW i, NEW h, i # 1, i - 1 = h
    PROVE  Before(l, s, i) = s[h]
BY DEF Before

\* The places where s does not go on so.
Gaps(l, s) == {i \in 1 .. Len(s) : ~ Goes(Before(l, s, i), s[i])}

\* Gaps are counted.
LEMMA GapsFinite ==
    ASSUME NEW U, NEW s \in Seq(U), NEW l
    PROVE  IsFiniteSet(Gaps(l, s)) /\ Cardinality(Gaps(l, s)) \in Nat /\ Gaps(l, s) \subseteq 1 .. Len(s)
<1>1. Gaps(l, s) \subseteq 1 .. Len(s) /\ IsFiniteSet(1 .. Len(s))
  BY FS_Interval DEF Gaps
<1> QED BY <1>1, FS_Subset, FS_CardinalityType

\* It does not matter which complete command came before.
LEMMA GapsSame ==
    ASSUME NEW l, NEW m, NEW s, l[2] # 1, m[2] # 1
    PROVE  Gaps(l, s) = Gaps(m, s)
BY DEF Gaps, Goes, Before

\* The gaps of two pieces.
LEMMA GapsConcat ==
    ASSUME NEW U, NEW s \in Seq(U), NEW t \in Seq(U), NEW l, NEW m, m = IF s = << >> THEN l ELSE s[Len(s)]
    PROVE  Cardinality(Gaps(l, s \o t)) = Cardinality(Gaps(l, s)) + Cardinality(Gaps(m, t))
<1> DEFINE z == s \o t
           n == Len(s)
           k == Len(t)
           A == Gaps(l, s)
           B == Gaps(m, t)
           C == Gaps(l, z)
<1>1. z \in Seq(U) /\ Len(z) = n + k /\ n \in Nat /\ k \in Nat
      /\ (\A i \in 1 .. n : z[i] = s[i]) /\ \A i \in 1 .. k : z[n + i] = t[i]
  BY ConcatFacts
<1>2. m = IF n = 0 THEN l ELSE s[n]
  OBVIOUS
<1>3. /\ A = {i \in 1 .. n : ~ Goes(Before(l, s, i), s[i])}
      /\ B = {i \in 1 .. k : ~ Goes(Before(m, t, i), t[i])}
      /\ C = {i \in 1 .. n + k : ~ Goes(Before(l, z, i), z[i])}
  BY <1>1 DEF Gaps
<1>4. IsFiniteSet(A) /\ IsFiniteSet(B)
  BY GapsFinite
<1> HIDE DEF z, n, k, A, B, C
<1>5. ASSUME NEW i \in 1 .. n PROVE i \in C <=> i \in A
  <2>1. i \in 1 .. n + k /\ z[i] = s[i]
    BY <1>1
  <2>2. i # 1 => i - 1 \in 1 .. n
    BY <1>1
  <2>3. Before(l, z, i) = Before(l, s, i)
    BY <1>1, <2>2 DEF Before
  <2> QED BY <1>3, <2>1, <2>3
<1>6. ASSUME NEW i \in 1 .. k PROVE n + i \in C <=> i \in B
  <2>1. n + i \in 1 .. n + k /\ z[n + i] = t[i]
    BY <1>1
  <2>2. Before(l, z, n + i) = Before(m, t, i)
    <3>1. CASE i = 1 /\ n = 0
      BY <1>2, <3>1 DEF Before
    <3>2. CASE i = 1 /\ n # 0
      <4>1. n \in 1 .. n /\ n + i - 1 = n /\ n + i # 1
        BY <1>1, <3>2
      <4>2. z[n] = s[n]
        BY <1>1, <4>1
      <4> QED BY <1>2, <3>2, <4>1, <4>2 DEF Before
    <3>3. CASE i # 1
      <4>1. i - 1 \in 1 .. k /\ n + i # 1
        BY <1>1, <3>3
      <4> DEFINE j == i - 1
                 h == n + j
      <4>2. z[h] = t[j]
        BY <1>1, <4>1
      <4>3. Before(m, t, i) = t[j]
        BY <3>3 DEF Before
      <4>4. n + i # 1 /\ (n + i) - 1 = h
        <5>1. n \in Nat /\ i \in Nat
          BY <1>1
        <5> QED BY <4>1, <5>1
      <4> HIDE DEF j, h
      <4>5. Before(l, z, n + i) = z[h]
        BY <4>4, BeforeAt
      <4> QED BY <4>2, <4>3, <4>5
    <3> QED BY <3>1, <3>2, <3>3
  <2> QED BY <1>3, <2>1, <2>2
<1>7. n \in Nat /\ k \in Nat /\ A \in SUBSET (1 .. n) /\ B \in SUBSET (1 .. k) /\ C \in SUBSET (1 .. n + k)
  BY <1>1, <1>3
<1>8. C = A \cup Shift(n, B)
  <2>1. ASSUME NEW i \in C PROVE i \in A \cup Shift(n, B)
    <3>1. CASE i <= n
      BY <1>5, <1>7, <3>1
    <3>2. CASE i > n
      <4>1. i - n \in 1 .. k /\ n + (i - n) = i
        BY <1>7, <3>2
      <4>2. i - n \in B
        BY <1>6, <4>1
      <4> QED BY <4>1, <4>2 DEF Shift
    <3> QED BY <1>7, <3>1, <3>2
  <2>2. ASSUME NEW i \in A PROVE i \in C
    BY <1>5, <1>7
  <2>3. ASSUME NEW i \in Shift(n, B) PROVE i \in C
    BY <1>6, <1>7 DEF Shift
  <2> QED BY <2>1, <2>2, <2>3
<1>9. n \in Int /\ (\A i \in A : i \in Int /\ i <= n) /\ \A i \in B : i \in Int /\ i > 0
  BY <1>7
<1>10. Cardinality(A \cup Shift(n, B)) = Cardinality(A) + Cardinality(B)
  BY <1>4, <1>9, JoinCard, ZenonT(40)
<1> QED BY <1>8, <1>10 DEF A, B, C, z, n, k

\* The first line of b is cut: the gaps in it, none only in a whole text, and those behind it.
LEMMA GapsCut ==
    ASSUME NEW A, NEW b \in Seq(A \X {1, 2}), NEW e \in 1 .. Len(b), b[e][2] = 2, \A i \in 1 .. e - 1 : b[i][2] = 1,
           NEW l, l[2] # 1
    PROVE  LET p == SubSeq(b, 1, e)
               q == SubSeq(b, e + 1, Len(b))
           IN  /\ Cardinality(Gaps(l, b)) = Cardinality(Gaps(l, p)) + Cardinality(Gaps(l, q))
               /\ Cardinality(Gaps(l, p)) = 0 => e = 2 /\ b[1] = <<b[2][1], 1>>
<1> DEFINE U == A \X {1, 2}
           p == SubSeq(b, 1, e)
           q == SubSeq(b, e + 1, Len(b))
<1>1. p \in Seq(U) /\ Len(p) = e /\ (\A i \in 1 .. e : p[i] = b[i]) /\ e \in Nat /\ e <= Len(b) /\ e > 0
  OBVIOUS
<1>2. q \in Seq(U)
  BY <1>1, PieceFacts
<1>3. p \o q = b
  BY <1>1, SplitAt
<1>5. \A i \in 1 .. Len(b) : b[i] = <<b[i][1], b[i][2]>>
  OBVIOUS
<1> HIDE DEF p, q, U
<1>4. p # << >> /\ p[Len(p)] = b[e]
  BY <1>1
<1>6. Cardinality(Gaps(l, p \o q)) = Cardinality(Gaps(l, p)) + Cardinality(Gaps(b[e], q))
  BY <1>1, <1>2, <1>4, GapsConcat
<1>7. Gaps(b[e], q) = Gaps(l, q)
  BY GapsSame
<1>8. ASSUME Cardinality(Gaps(l, p)) = 0 PROVE e = 2 /\ b[1] = <<b[2][1], 1>>
  <2>1. Gaps(l, p) = {}
    <3>1. IsFiniteSet(Gaps(l, p))
      BY <1>1, GapsFinite
    <3> QED BY <1>8, <3>1, FS_EmptySet
  <2>2. \A i \in 1 .. e : Goes(IF i = 1 THEN l ELSE p[i - 1], p[i])
    BY <1>1, <2>1 DEF Gaps, Before
  <2>3. 1 \in 1 .. e /\ p[1] = b[1]
    BY <1>1
  <2>4. b[1][2] = 1
    BY <2>2, <2>3 DEF Goes
  <2>5. 2 \in 1 .. e /\ p[2] = b[2]
    <3>1. e # 1
      BY <2>4
    <3> QED BY <1>1, <3>1
  <2>6. b[2] = <<b[1][1], 2>>
    BY <2>2, <2>3, <2>4, <2>5 DEF Goes
  <2>7. e = 2
    <3>1. ~ 2 \in 1 .. e - 1
      BY <2>6
    <3> QED BY <1>1, <2>5, <3>1
  <2>8. 1 \in 1 .. Len(b)
    BY <1>1
  <2>9. b[1] = <<b[1][1], 1>>
    BY <1>5, <2>4, <2>8
  <2> QED BY <2>6, <2>7, <2>9
<1> QED BY <1>3, <1>6, <1>7, <1>8 DEF p, q
-------------------------------------------------------------------------------
\* No file is streamed.
Plain == \A k \in Arrived : kinds[k] \notin Streamed

\* Whole commands of which nothing is left.
Gone == {k \in Arrived \ ActedOn :
             Whole(k) /\ \A i \in 1 .. Len(command_buffer) : command_buffer[i][1] # k}

\* Each join cost one of them at most, or is a gap in command_buffer.  The newline of a
\* whole command there is somewhere behind its text.
Counted ==
    /\ command_buffer \in Seq(Arrived \X {1, 2})
    /\ IF command_buffer = << >> THEN last = None \/ (last[1] \in Arrived /\ last[2] = 2)
       ELSE last = command_buffer[Len(command_buffer)]
    /\ \A i \in 1 .. Len(command_buffer) :
          command_buffer[i][2] = 1 /\ Whole(command_buffer[i][1]) =>
              \E j \in i + 1 .. Len(command_buffer) : command_buffer[j] = <<command_buffer[i][1], 2>>
    /\ Cardinality(Gaps(None, command_buffer)) + Cardinality(Gone) <= joins

\* The inductive invariant of LossBounded.
LossIInv == WireIInv /\ (Plain => Counted)

\* The commands that arrived are counted.
LEMMA ArrivedFinite ==
    ASSUME LotTypes
    PROVE  Arrived \subseteq DOMAIN kinds /\ IsFiniteSet(Arrived) /\ DOMAIN kinds \subseteq Nat \ {0}
<1>1. kinds \in Seq(Kinds) /\ arrival \in Seq(DOMAIN kinds)
  BY DEF LotTypes
<1>2. DOMAIN kinds = 1 .. Len(kinds) /\ Len(kinds) \in Nat
  BY <1>1
<1>3. Arrived \subseteq DOMAIN kinds
  BY <1>1 DEF Arrived, ToSet
<1>4. IsFiniteSet(1 .. Len(kinds))
  BY <1>2, FS_Interval
<1> QED BY <1>2, <1>3, <1>4, FS_Subset

\* Fewer commands count less.
LEMMA FewerGone ==
    ASSUME LotTypes, NEW S, S \subseteq Gone
    PROVE  IsFiniteSet(S) /\ Cardinality(S) \in Nat /\ Cardinality(Gone) \in Nat /\ Cardinality(S) <= Cardinality(Gone)
           /\ IsFiniteSet(Gone)
<1>1. IsFiniteSet(Gone)
  <2>1. Gone \subseteq Arrived
    BY DEF Gone
  <2> QED BY <2>1, ArrivedFinite, FS_Subset
<1> QED BY <1>1, FS_Subset, FS_CardinalityType

\* A step that leaves the buffer alone.
LEMMA LossSame ==
    ASSUME LotTypes, \A k \in DOMAIN kinds : kinds'[k] = kinds[k], \A k \in DOMAIN kinds : Whole(k)' => Whole(k),
           UNCHANGED <<command_buffer, history>>, Plain => Counted, Plain'
    PROVE  Counted'
<1>1. command_buffer' = command_buffer /\ acted' = acted /\ arrival' = arrival /\ last' = last /\ joins' = joins
  BY DEF history
<1>2. Arrived' = Arrived /\ ActedOn' = ActedOn
  BY <1>1 DEF Arrived, ActedOn
<1>3. Arrived \subseteq DOMAIN kinds
  BY ArrivedFinite
<1>4. Plain
  BY <1>2, <1>3 DEF Plain
<1>5. Counted
  BY <1>4
<1>6. joins \in Nat
  BY DEF LotTypes
<1>7. Gone' \subseteq Gone
  BY <1>1, <1>2, <1>3 DEF Gone
<1>8. Cardinality(Gone') <= Cardinality(Gone) /\ Cardinality(Gone') \in Nat /\ Cardinality(Gone) \in Nat
  BY <1>7, FewerGone
<1> DEFINE x == Cardinality(Gaps(None, command_buffer))
           g == Cardinality(Gone)
           h == Cardinality(Gone')
<1>9. x + h <= joins
  <2>1. x \in Nat /\ command_buffer \in Seq(Arrived \X {1, 2})
    BY <1>5, GapsFinite DEF Counted
  <2>2. g \in Nat /\ h \in Nat /\ h <= g
    BY <1>8
  <2>3. x + g <= joins
    BY <1>5 DEF Counted
  <2> HIDE DEF x, g, h
  <2> QED BY <1>6, <2>1, <2>2, <2>3
<1>10. Cardinality(Gaps(None, command_buffer))' = x /\ Cardinality(Gone)' = h
  BY <1>1 DEF Gaps, Before, Goes, None
<1> HIDE DEF x, g, h
<1>11. \A i \in 1 .. Len(command_buffer) :
          command_buffer[i][2] = 1 /\ Whole(command_buffer[i][1])' =>
              \E j \in i + 1 .. Len(command_buffer) : command_buffer[j] = <<command_buffer[i][1], 2>>
  <2> SUFFICES ASSUME NEW i \in 1 .. Len(command_buffer), command_buffer[i][2] = 1, Whole(command_buffer[i][1])'
               PROVE  \E j \in i + 1 .. Len(command_buffer) : command_buffer[j] = <<command_buffer[i][1], 2>>
    OBVIOUS
  <2>1. PICK k : k = command_buffer[i][1]
    OBVIOUS
  <2>2. k \in DOMAIN kinds
    <3>1. command_buffer \in Seq(Unit)
      BY DEF LotTypes
    <3> QED BY <2>1, <3>1 DEF Unit
  <2>3. Whole(k)'
    BY <1>1, <2>1 DEF Whole
  <2>4. Whole(k)
    BY <2>2, <2>3
  <2> QED BY <1>5, <2>1, <2>4 DEF Counted
<1>12. command_buffer' \in Seq(Arrived' \X {1, 2})
  BY <1>1, <1>2, <1>5 DEF Counted
<1>13. (IF command_buffer = << >> THEN last = None \/ (last[1] \in Arrived /\ last[2] = 2)
        ELSE last = command_buffer[Len(command_buffer)])'
  BY <1>1, <1>2, <1>5 DEF Counted, None
<1>14. (\A i \in 1 .. Len(command_buffer) :
          command_buffer[i][2] = 1 /\ Whole(command_buffer[i][1]) =>
              \E j \in i + 1 .. Len(command_buffer) : command_buffer[j] = <<command_buffer[i][1], 2>>)'
  BY <1>1, <1>11
<1>15. (Cardinality(Gaps(None, command_buffer)) + Cardinality(Gone) <= joins)'
  BY <1>1, <1>9, <1>10
<1> QED BY <1>12, <1>13, <1>14, <1>15 DEF Counted

\* A piece of client c comes.
Piece(c, n, data) ==
    /\ n \in 1 .. Len(wire[c]) /\ data = SubSeq(wire[c], 1, n)
    /\ wire' = [wire EXCEPT ![c] = SubSeq(@, n + 1, Len(@))]
    /\ arrival' = arrival \o Begun(data)
    /\ UNCHANGED <<kinds, missing, broken>>

\* What a piece is, and what is whole without it.
LEMMA PieceBase ==
    ASSUME WireIInv, NEW c \in Clients, NEW n, NEW data, Piece(c, n, data)
    PROVE  /\ wire[c] \in Seq(Unit) /\ Len(wire[c]) \in Nat /\ n \in Nat /\ n > 0 /\ n <= Len(wire[c])
           /\ data \in Seq(Unit) /\ Len(data) = n /\ (\A i \in 1 .. n : data[i] = wire[c][i])
           /\ Arrived' = Arrived \cup {data[i][1] : i \in {j \in 1 .. n : data[j][2] = 1}}
           /\ \A k : Whole(k)' =>
                 /\ k \notin broken /\ \A i \in n + 1 .. Len(wire[c]) : wire[c][i][1] # k
                 /\ (\A i \in 1 .. n : data[i][1] # k) => Whole(k)
<1>1. LotTypes /\ wire \in [Clients -> Seq(Unit)]
  BY DEF WireIInv, LotTypes
<1>2. wire[c] \in Seq(Unit) /\ Len(wire[c]) \in Nat /\ n \in Nat /\ n > 0 /\ n <= Len(wire[c])
  BY <1>1 DEF Piece
<1>3. data \in Seq(Unit) /\ Len(data) = n /\ \A i \in 1 .. n : data[i] = wire[c][i]
  BY <1>2 DEF Piece
<1>4. Arrived' = Arrived \cup {data[i][1] : i \in {j \in 1 .. n : data[j][2] = 1}}
  BY <1>1, <1>3, ArrivedDeliver DEF Piece
<1> DEFINE w == wire[c]
           q == SubSeq(w, n + 1, Len(w))
<1>5. wire'[c] = q /\ (\A d \in Clients \ {c} : wire'[d] = wire[d]) /\ broken' = broken
  BY <1>1 DEF Piece
<1>6. w \in Seq(Unit) /\ n \in Nat /\ n <= Len(w)
  BY <1>2
<1> HIDE DEF w
<1>7. q \in Seq(Unit) /\ Len(q) = Len(w) - n /\ \A i \in 1 .. Len(w) - n : q[i] = w[n + i]
  BY <1>6, PieceFacts
<1>8. Len(w) \in Nat
  BY <1>6
<1> HIDE DEF q
<1>9. ASSUME NEW k, Whole(k)' PROVE k \notin broken /\ \A i \in n + 1 .. Len(w) : w[i][1] # k
  <2>1. k \notin broken /\ \A i \in DOMAIN wire'[c] : wire'[c][i][1] # k
    BY <1>5, <1>9 DEF Whole
  <2>2. \A i \in 1 .. Len(w) - n : q[i][1] # k
    BY <1>5, <1>7, <2>1
  <2>3. ASSUME NEW i \in n + 1 .. Len(w) PROVE w[i][1] # k
    <3>1. i - n \in 1 .. Len(w) - n /\ n + (i - n) = i
      BY <1>6, <1>8
    <3>2. w[i] = q[i - n]
      BY <1>7, <3>1
    <3> QED BY <2>2, <3>1, <3>2
  <2> QED BY <2>1, <2>3
<1>10. ASSUME NEW k, Whole(k)', \A i \in 1 .. n : data[i][1] # k PROVE Whole(k)
  <2>1. ASSUME NEW i \in 1 .. Len(w) PROVE w[i][1] # k
    <3>1. i \in 1 .. n \/ i \in n + 1 .. Len(w)
      BY <1>6, <1>8
    <3> QED BY <1>3, <1>9, <1>10, <3>1 DEF w
  <2>2. DOMAIN wire[c] = 1 .. Len(w)
    BY <1>2 DEF w
  <2>3. ASSUME NEW d \in Clients \ {c} PROVE \A i \in DOMAIN wire[d] : wire[d][i][1] # k
    BY <1>5, <1>10 DEF Whole
  <2>4. k \notin broken
    BY <1>5, <1>10 DEF Whole
  <2> QED BY <2>1, <2>2, <2>3, <2>4 DEF Whole, w
<1> QED BY <1>2, <1>3, <1>4, <1>9, <1>10 DEF w

\* What comes is of commands without data, and a text with its newline.
LEMMA PieceUnits ==
    ASSUME WireIInv, NEW c \in Clients, NEW n, NEW data, Piece(c, n, data), Plain'
    PROVE  /\ Plain /\ data \in Seq(Arrived' \X {1, 2})
           /\ \A i \in 1 .. n : data[i][2] = 1 /\ Whole(data[i][1])' =>
                 i < n /\ data[i + 1] = <<data[i][1], 2>>
<1>1. /\ wire[c] \in Seq(Unit) /\ Len(wire[c]) \in Nat /\ n \in Nat /\ n > 0 /\ n <= Len(wire[c])
      /\ data \in Seq(Unit) /\ Len(data) = n /\ (\A i \in 1 .. n : data[i] = wire[c][i])
      /\ Arrived' = Arrived \cup {data[i][1] : i \in {j \in 1 .. n : data[j][2] = 1}}
      /\ \A k : Whole(k)' => k \notin broken /\ \A i \in n + 1 .. Len(wire[c]) : wire[c][i][1] # k
  BY PieceBase
<1>2. kinds' = kinds
  BY DEF Piece
<1>3. \A k \in Arrived' : kinds[k] \notin Streamed
  BY <1>2 DEF Plain
<1>4. Plain
  BY <1>1, <1>3 DEF Plain
<1> DEFINE w == wire[c]
<1>5. \A i \in 1 .. Len(w) :
        /\ w[i][2] <= Header + (IF kinds[w[i][1]] \in Streamed THEN 2 ELSE 0)
        /\ w[i][1] \in Arrived \/ \E j \in 1 .. i : w[j] = <<w[i][1], 1>>
        /\ w[i][2] = 1 /\ w[i][1] \notin broken => i < Len(w) /\ w[i + 1] = <<w[i][1], 2>>
  BY DEF WireIInv, Well
<1>6. \A i \in 1 .. n : data[i] = w[i] /\ i \in 1 .. Len(w)
  BY <1>1
<1>7. n \in Nat /\ n <= Len(w) /\ Len(w) \in Nat
  BY <1>1
<1>12. \A k : Whole(k)' => k \notin broken /\ \A i \in n + 1 .. Len(w) : w[i][1] # k
  BY <1>1
<1>13. \A i \in 1 .. n : data[i] \in Unit
  BY <1>1
<1>14. \A i \in 1 .. n : data[i][2] = 1 => data[i][1] \in Arrived'
  BY <1>1
<1>15. Arrived \subseteq Arrived'
  BY <1>1
<1> HIDE DEF w
<1>8. ASSUME NEW i \in 1 .. n PROVE data[i] \in Arrived' \X {1, 2}
  <2>1. data[i][1] \in Arrived'
    <3>1. w[i][1] \in Arrived \/ \E j \in 1 .. i : w[j] = <<w[i][1], 1>>
      BY <1>5, <1>6
    <3>2. ASSUME NEW j \in 1 .. i, w[j] = <<w[i][1], 1>> PROVE w[i][1] \in Arrived'
      <4>1. j \in 1 .. n
        BY <1>7
      <4>2. data[j][2] = 1 /\ data[j][1] = w[i][1]
        BY <1>6, <3>2, <4>1
      <4> QED BY <1>14, <4>1, <4>2
    <3> QED BY <1>6, <1>15, <3>1, <3>2
  <2>2. data[i][2] <= 2
    <3>1. kinds[data[i][1]] \notin Streamed
      BY <1>3, <2>1
    <3> QED BY <1>5, <1>6, <3>1 DEF Header
  <2>3. data[i] = <<data[i][1], data[i][2]>> /\ data[i][2] \in Nat \ {0}
    BY <1>13 DEF Unit
  <2>4. data[i][2] \in {1, 2}
    BY <2>2, <2>3
  <2> QED BY <2>1, <2>3, <2>4
<1>9. data \in Seq(Arrived' \X {1, 2})
  <2> DEFINE P == Arrived' \X {1, 2}
  <2>1. data = [i \in 1 .. n |-> data[i]]
    BY <1>1
  <2>2. \A i \in 1 .. n : data[i] \in P
    BY <1>8
  <2> HIDE DEF P
  <2>3. [i \in 1 .. n |-> data[i]] \in Seq(P)
    BY <1>7, <2>2
  <2> QED BY <2>1, <2>3 DEF P
<1>10. ASSUME NEW i \in 1 .. n, data[i][2] = 1, Whole(data[i][1])'
       PROVE  i < n /\ data[i + 1] = <<data[i][1], 2>>
  <2>1. PICK k : k = data[i][1]
    OBVIOUS
  <2>2. Whole(k)'
    BY <1>10, <2>1 DEF Whole
  <2>3. k \notin broken /\ \A j \in n + 1 .. Len(w) : w[j][1] # k
    BY <1>12, <2>2
  <2>4. i < Len(w) /\ w[i + 1] = <<k, 2>>
    BY <1>5, <1>6, <1>10, <2>1, <2>3
  <2>5. i + 1 \notin n + 1 .. Len(w)
    BY <2>3, <2>4
  <2>6. i < n /\ i + 1 \in 1 .. n
    BY <1>7, <2>4, <2>5
  <2> QED BY <1>6, <2>1, <2>4, <2>6
<1> QED BY <1>4, <1>9, <1>10

\* Commands without data follow each other so.
LEMMA FollowsGoes ==
    ASSUME NEW A, A \subseteq Nat \ {0}, \A k \in A : kinds[k] \notin Streamed,
           NEW u \in (A \X {1, 2}) \cup {None}, NEW v \in A \X {1, 2}
    PROVE  Follows(u, v) <=> Goes(u, v)
<1>1. CASE u = None
  BY <1>1 DEF Follows, Goes, None
<1>2. CASE u \in A \X {1, 2}
  <2>1. u[1] \in A /\ u[2] \in {1, 2}
    BY <1>2
  <2>2. u # None
    BY <1>2 DEF None
  <2>3. Header + Size(u[1]) = 2
    <3>1. kinds[u[1]] \notin Streamed
      BY <2>1
    <3>2. Size(u[1]) = 0
      BY <3>1 DEF Size
    <3> QED BY <3>2 DEF Header
  <2>4. Follows(u, v) <=> IF u[2] = 2 THEN v[2] = 1 ELSE v = <<u[1], u[2] + 1>>
    BY <2>2, <2>3 DEF Follows
  <2>5. CASE u[2] = 1
    <3>1. u[2] # 2 /\ u[2] + 1 = 2
      BY <2>5
    <3>2. Follows(u, v) <=> v = <<u[1], 2>>
      BY <2>4, <3>1
    <3> QED BY <2>5, <3>2 DEF Goes
  <2>6. CASE u[2] = 2
    BY <2>4, <2>6 DEF Goes
  <2> QED BY <2>1, <2>5, <2>6
<1> QED BY <1>1, <1>2

\* One unit, and others behind it.
LEMMA ConsFacts ==
    ASSUME NEW U, NEW l \in U, NEW s \in Seq(U)
    PROVE  LET z == <<l>> \o s
           IN  z \in Seq(U) /\ Len(z) = 1 + Len(s) /\ Len(s) \in Nat /\ z[1] = l /\ \A i \in 1 .. Len(s) : z[1 + i] = s[i]
OBVIOUS

\* The joins a piece brings are the gaps in it.
LEMMA JoinsGaps ==
    ASSUME NEW A, A \subseteq Nat \ {0}, \A k \in A : kinds[k] \notin Streamed,
           NEW l \in (A \X {1, 2}) \cup {None}, NEW s \in Seq(A \X {1, 2})
    PROVE  Joins(<<l>> \o s) = Cardinality(Gaps(l, s))
<1> DEFINE U == (A \X {1, 2}) \cup {None}
           z == <<l>> \o s
           n == Len(s)
           G == Gaps(l, s)
           J == {i \in 2 .. Len(z) : ~ Follows(z[i - 1], z[i])}
<1>1. s \in Seq(U) /\ l \in U /\ \A i \in 1 .. n : s[i] \in A \X {1, 2}
  OBVIOUS
<1> HIDE DEF U
<1>2. /\ z \in Seq(U) /\ Len(z) = 1 + n /\ n \in Nat /\ z[1] = l /\ \A i \in 1 .. n : z[1 + i] = s[i]
  <2>1. l \in U
    BY <1>1
  <2> QED BY <1>1, <2>1, ConsFacts
<1>3. Joins(z) = Cardinality(J)
  BY DEF Joins
<1>4. J = {i \in 2 .. 1 + n : ~ Follows(z[i - 1], z[i])} /\ G = {i \in 1 .. n : ~ Goes(Before(l, s, i), s[i])}
  BY <1>2 DEF Gaps
<1>5. IsFiniteSet(G)
  BY <1>1, GapsFinite
<1>6. \A i \in 2 .. 1 + n : i \in J <=> ~ Follows(z[i - 1], z[i])
  BY <1>4
<1>7. \A i \in 1 .. n : i \in G <=> ~ Goes(Before(l, s, i), s[i])
  BY <1>4
<1>8. J \in SUBSET (2 .. 1 + n) /\ G \in SUBSET (1 .. n)
  BY <1>4
<1>20. \A i \in 1 .. n : z[1 + i] = s[i]
  BY <1>2
<1>21. z[1] = l /\ n \in Nat
  BY <1>2
<1>22. \A i \in 1 .. n : z[i] \in (A \X {1, 2}) \cup {None}
  BY <1>2 DEF U
<1> HIDE DEF z, n, G, J
<1>9. ASSUME NEW i \in 1 .. n PROVE 1 + i \in J <=> i \in G
  <2>1. 1 + i \in 2 .. 1 + n /\ (1 + i) - 1 = i
    BY <1>21
  <2>2. 1 + i \in J <=> ~ Follows(z[i], s[i])
    BY <1>6, <1>20, <2>1
  <2>3. z[i] = Before(l, s, i)
    <3>1. CASE i = 1
      BY <1>21, <3>1 DEF Before
    <3>2. CASE i # 1
      <4> DEFINE h == i - 1
      <4>1. h \in 1 .. n /\ 1 + h = i /\ i - 1 = h
        BY <1>21, <3>2
      <4> HIDE DEF h
      <4>2. Before(l, s, i) = s[h]
        BY <3>2, <4>1, BeforeAt
      <4> QED BY <1>20, <4>1, <4>2
    <3> QED BY <3>1, <3>2
  <2>4. Follows(z[i], s[i]) <=> Goes(z[i], s[i])
    <3>1. z[i] \in (A \X {1, 2}) \cup {None} /\ s[i] \in A \X {1, 2}
      BY <1>1, <1>22
    <3> QED BY <3>1, FollowsGoes
  <2> QED BY <1>7, <2>2, <2>3, <2>4
<1>10. J = {} \cup Shift(1, G)
  <2>1. ASSUME NEW i \in J PROVE i \in Shift(1, G)
    <3>1. i - 1 \in 1 .. n /\ 1 + (i - 1) = i
      BY <1>8, <1>21
    <3>2. i - 1 \in G
      BY <1>9, <3>1
    <3> QED BY <3>1, <3>2 DEF Shift
  <2>2. ASSUME NEW i \in Shift(1, G) PROVE i \in J
    BY <1>8, <1>9 DEF Shift
  <2> QED BY <2>1, <2>2
<1>11. Cardinality({} \cup Shift(1, G)) = Cardinality({}) + Cardinality(G) /\ Cardinality(G) \in Nat
  <2>1. IsFiniteSet({}) /\ 1 \in Int /\ (\A i \in {} : i \in Int /\ i <= 1) /\ \A i \in G : i \in Int /\ i > 0
    BY <1>8, FS_EmptySet
  <2> QED BY <1>5, <2>1, JoinCard
<1>12. Cardinality({}) = 0
  BY FS_EmptySet
<1>13. Cardinality({}) + Cardinality(G) = Cardinality(G)
  <2> DEFINE g == Cardinality(G)
  <2>1. g \in Nat
    BY <1>11
  <2> HIDE DEF g
  <2>2. 0 + g = g
    BY <2>1
  <2> QED BY <1>12, <2>2 DEF g
<1> QED BY <1>3, <1>10, <1>11, <1>13 DEF z, G

\* What holds of b, command_buffer and a piece together, when A is what has arrived.
Together(A, b, data, n) ==
    /\ Counted /\ Arrived \subseteq A /\ data[n] \in A \X {1, 2}
    /\ b \in Seq(A \X {1, 2}) /\ Len(b) > 0 /\ b[Len(b)] = data[n]
    /\ Cardinality(Gaps(None, b)) = Cardinality(Gaps(None, command_buffer)) + Joins(<<last>> \o data)
    /\ Cardinality(Gaps(None, command_buffer)) \in Nat /\ Joins(<<last>> \o data) \in Nat
    /\ \A k : Whole(k)' =>
          \A i \in 1 .. Len(b) : b[i] = <<k, 1>> => \E j \in i + 1 .. Len(b) : b[j] = <<k, 2>>
    /\ \A k \in A :
          Whole(k)' /\ (\A i \in 1 .. Len(b) : b[i][1] # k) =>
              k \in Arrived /\ Whole(k) /\ \A i \in 1 .. Len(command_buffer) : command_buffer[i][1] # k

\* What command_buffer and a piece hold together.
LEMMA PieceBuffer ==
    ASSUME WireIInv, Plain => Counted, NEW c \in Clients, NEW n, NEW data, Piece(c, n, data), Plain',
           NEW A, A = Arrived', NEW b, b = command_buffer \o data
    PROVE  Together(A, b, data, n)
<1> DEFINE cb == command_buffer
           m == Len(cb)
<1>1. b = cb \o data
  OBVIOUS
<1>2. PICK P : P = A \X {1, 2}
  OBVIOUS
<1>3. Counted /\ Plain /\ data \in Seq(P)
      /\ \A i \in 1 .. n : data[i][2] = 1 /\ Whole(data[i][1])' => i < n /\ data[i + 1] = <<data[i][1], 2>>
  BY <1>1, <1>2, PieceUnits
<1>4. /\ n \in Nat /\ n > 0 /\ Len(data) = n
      /\ A = Arrived \cup {data[i][1] : i \in {j \in 1 .. n : data[j][2] = 1}}
      /\ \A k : Whole(k)' /\ (\A i \in 1 .. n : data[i][1] # k) => Whole(k)
  BY <1>1, PieceBase
<1>5. Arrived \subseteq A
  BY <1>4
<1>6. cb \in Seq(P)
  <2>1. cb \in Seq(Arrived \X {1, 2})
    BY <1>3 DEF Counted
  <2>2. Arrived \X {1, 2} \subseteq P
    BY <1>2, <1>5
  <2> QED BY <2>1, <2>2
<1>7. LotTypes /\ A \subseteq Nat \ {0} /\ \A k \in A : kinds[k] \notin Streamed
  <2>1. LotTypes /\ data \in Seq(Unit) /\ Len(data) = n
    BY PieceBase DEF WireIInv
  <2>2. Arrived \subseteq DOMAIN kinds /\ DOMAIN kinds \subseteq Nat \ {0} /\ \A i \in 1 .. n : data[i][1] \in DOMAIN kinds
    BY <2>1, ArrivedFinite DEF Unit
  <2>3. kinds' = kinds
    BY DEF Piece
  <2> QED BY <1>1, <1>4, <2>1, <2>2, <2>3 DEF Plain
<1>8. /\ b \in Seq(P) /\ Len(b) = m + n /\ m \in Nat
      /\ (\A i \in 1 .. m : b[i] = cb[i]) /\ \A i \in 1 .. n : b[m + i] = data[i]
  <2>1. PICK x : x = cb
    OBVIOUS
  <2>2. x \in Seq(P) /\ data \in Seq(P) /\ Len(data) = n
    BY <1>3, <1>4, <1>6, <2>1
  <2>3. LET z == x \o data
        IN  /\ z \in Seq(P) /\ Len(z) = Len(x) + Len(data) /\ Len(x) \in Nat
            /\ (\A i \in 1 .. Len(x) : z[i] = x[i]) /\ \A i \in 1 .. Len(data) : z[Len(x) + i] = data[i]
    <3>1. x \in Seq(P) /\ data \in Seq(P)
      BY <2>2
    <3> QED BY <3>1, ConcatFacts
  <2> QED BY <1>1, <2>1, <2>2, <2>3
<1>9. last \in P \cup {None}
  <2>1. last = None \/ last \in Unit
    BY <1>7 DEF LotTypes
  <2>2. CASE cb = << >>
    <3>1. last = None \/ (last[1] \in A /\ last[2] = 2)
      BY <1>3, <1>5, <2>2 DEF Counted
    <3>2. last \in Unit => last = <<last[1], last[2]>>
      BY DEF Unit
    <3> QED BY <1>2, <2>1, <3>1, <3>2
  <2>3. CASE cb # << >>
    <3>1. last = cb[m]
      BY <1>3, <2>3 DEF Counted
    <3>2. m \in 1 .. m
      BY <1>6, <2>3
    <3> HIDE DEF cb
    <3> QED BY <1>6, <3>1, <3>2
  <2> QED BY <2>2, <2>3
<1>10. Joins(<<last>> \o data) = Cardinality(Gaps(last, data))
  <2>1. last \in (A \X {1, 2}) \cup {None} /\ data \in Seq(A \X {1, 2})
    BY <1>2, <1>3, <1>9
  <2> QED BY <1>7, <2>1, JoinsGaps, ZenonT(40)
<1> DEFINE lm == IF cb = << >> THEN None ELSE cb[Len(cb)]
<1>11. Cardinality(Gaps(None, b)) = Cardinality(Gaps(None, cb)) + Cardinality(Gaps(lm, data))
  <2>1. lm = IF cb = << >> THEN None ELSE cb[Len(cb)]
    OBVIOUS
  <2> HIDE DEF cb, lm
  <2>2. cb \in Seq(P) /\ data \in Seq(P)
    BY <1>3, <1>6
  <2>3. Cardinality(Gaps(None, cb \o data)) = Cardinality(Gaps(None, cb)) + Cardinality(Gaps(lm, data))
    BY <2>1, <2>2, GapsConcat
  <2> QED BY <1>1, <2>3
<1>12. Gaps(lm, data) = Gaps(last, data)
  <2>1. CASE cb = << >>
    <3>1. last[2] # 1 /\ lm[2] # 1
      BY <1>3, <2>1 DEF Counted, None
    <3> HIDE DEF lm
    <3> QED BY <3>1, GapsSame
  <2>2. CASE cb # << >>
    <3>1. lm = last
      BY <1>3, <2>2 DEF Counted
    <3> QED BY <3>1
  <2> QED BY <2>1, <2>2
<1>13. Cardinality(Gaps(None, cb)) \in Nat /\ Cardinality(Gaps(last, data)) \in Nat
  <2> HIDE DEF cb
  <2> QED BY <1>3, <1>6, GapsFinite
<1>14. data[n] \in P /\ Len(b) > 0 /\ b[Len(b)] = data[n]
  <2>1. n \in 1 .. n /\ m + n > 0
    BY <1>4, <1>8
  <2>2. data[n] \in P
    BY <1>3, <1>4, <2>1
  <2> HIDE DEF cb
  <2> QED BY <1>8, <2>1, <2>2
<1>15. \A i \in 1 .. m : cb[i][2] = 1 /\ Whole(cb[i][1]) => \E j \in i + 1 .. m : cb[j] = <<cb[i][1], 2>>
  BY <1>3 DEF Counted
<1>16. n \in Nat /\ m \in Nat /\ Len(b) = m + n /\ (\A i \in 1 .. m : b[i] = cb[i]) /\ \A i \in 1 .. n : b[m + i] = data[i]
  BY <1>4, <1>8
<1>17. \A i \in 1 .. n : data[i] \in P
  BY <1>3, <1>4
<1> HIDE DEF m
<1>18. ASSUME NEW k, \E i \in 1 .. n : data[i][1] = k, Whole(k)' PROVE \E j \in 1 .. n : data[j] = <<k, 2>>
  <2>1. PICK i \in 1 .. n : data[i][1] = k
    BY <1>18
  <2>2. CASE data[i][2] = 2
    <3>1. data[i] = <<data[i][1], data[i][2]>>
      BY <1>2, <1>17
    <3> QED BY <2>1, <2>2, <3>1
  <2>3. CASE data[i][2] = 1
    <3>1. Whole(data[i][1])'
      BY <1>18, <2>1 DEF Whole
    <3>2. i < n /\ data[i + 1] = <<k, 2>>
      BY <1>3, <2>1, <2>3, <3>1
    <3>3. i + 1 \in 1 .. n
      BY <1>16, <3>2
    <3> QED BY <3>2, <3>3
  <2>4. data[i][2] \in {1, 2}
    BY <1>2, <1>17
  <2> QED BY <2>2, <2>3, <2>4
<1>19. ASSUME NEW k, Whole(k)', NEW i \in 1 .. m + n, b[i] = <<k, 1>>
       PROVE  \E j \in i + 1 .. m + n : b[j] = <<k, 2>>
  <2>1. b[i][1] = k /\ b[i][2] = 1
    BY <1>19
  <2>2. Whole(k)'
    BY <1>19
  <2>3. CASE i <= m
    <3>1. i \in 1 .. m /\ b[i] = cb[i]
      BY <1>16, <2>3
    <3>2. CASE \E h \in 1 .. n : data[h][1] = k
      <4>1. PICK j \in 1 .. n : data[j] = <<k, 2>>
        BY <1>18, <2>2, <3>2
      <4>2. m + j \in i + 1 .. m + n /\ b[m + j] = <<k, 2>>
        BY <1>16, <2>3, <4>1
      <4> QED BY <2>1, <4>2
    <3>3. CASE ~ \E h \in 1 .. n : data[h][1] = k
      <4>1. Whole(k)
        BY <1>4, <2>2, <3>3
      <4>2. PICK j \in i + 1 .. m : cb[j] = <<k, 2>>
        BY <1>15, <2>1, <3>1, <4>1
      <4>3. j \in 1 .. m /\ j \in i + 1 .. m + n
        BY <1>16
      <4> QED BY <1>16, <2>1, <4>2, <4>3
    <3> QED BY <3>2, <3>3
  <2>4. CASE i > m
    <3>1. PICK h \in 1 .. n : m + h = i
      <4>1. i - m \in 1 .. n /\ m + (i - m) = i
        BY <1>16, <2>4
      <4> QED BY <4>1
    <3>2. b[i] = data[h]
      BY <1>16, <3>1
    <3>3. data[h][1] = k /\ data[h][2] = 1
      BY <2>1, <3>2
    <3>4. h < n /\ data[h + 1] = <<k, 2>>
      <4>1. Whole(data[h][1])'
        BY <2>2, <3>3 DEF Whole
      <4> QED BY <1>3, <3>1, <3>3, <4>1
    <3>5. h + 1 \in 1 .. n /\ m + (h + 1) = i + 1 /\ i + 1 \in i + 1 .. m + n
      BY <1>16, <3>1, <3>4
    <3>6. b[i + 1] = <<k, 2>>
      BY <1>16, <3>4, <3>5
    <3> QED BY <2>1, <3>5, <3>6
  <2>5. i <= m \/ i > m
    BY <1>16
  <2> QED BY <2>3, <2>4, <2>5
<1>20. ASSUME NEW k \in A, Whole(k)', \A i \in 1 .. m + n : b[i][1] # k
       PROVE  k \in Arrived /\ Whole(k) /\ \A i \in 1 .. m : cb[i][1] # k
  <2>1. ASSUME NEW i \in 1 .. n PROVE data[i][1] # k
    <3>1. m + i \in 1 .. m + n
      BY <1>16
    <3> QED BY <1>16, <1>20, <3>1
  <2>2. ASSUME NEW i \in 1 .. m PROVE cb[i][1] # k
    <3>1. i \in 1 .. m + n
      BY <1>16
    <3> QED BY <1>16, <1>20, <3>1
  <2>3. k \in Arrived
    BY <1>4, <2>1
  <2> QED BY <1>4, <1>20, <2>1, <2>2, <2>3
<1>21. b \in Seq(P) /\ Len(b) = m + n
  BY <1>8
<1>22. Len(b) > 0 /\ b[Len(b)] = data[n] /\ data[n] \in P
  BY <1>14
<1>23. /\ Counted /\ Arrived \subseteq A /\ data[n] \in A \X {1, 2}
       /\ b \in Seq(A \X {1, 2}) /\ Len(b) > 0 /\ b[Len(b)] = data[n]
       /\ Cardinality(Gaps(None, b)) = Cardinality(Gaps(None, command_buffer)) + Joins(<<last>> \o data)
       /\ Cardinality(Gaps(None, command_buffer)) \in Nat /\ Joins(<<last>> \o data) \in Nat
       /\ \A k : Whole(k)' =>
             \A i \in 1 .. Len(b) : b[i] = <<k, 1>> => \E j \in i + 1 .. Len(b) : b[j] = <<k, 2>>
       /\ \A k \in A :
             Whole(k)' /\ (\A i \in 1 .. Len(b) : b[i][1] # k) =>
                 k \in Arrived /\ Whole(k) /\ \A i \in 1 .. Len(command_buffer) : command_buffer[i][1] # k
  BY <1>1, <1>2, <1>3, <1>4, <1>5, <1>10, <1>11, <1>12, <1>13, <1>19, <1>20, <1>21, <1>22 DEF m
<1> QED BY <1>23 DEF Together

\* What is left of the buffer after a step.
LEMMA CountedNext ==
    ASSUME NEW q, command_buffer' = q, NEW A, A = Arrived', q \in Seq(A \X {1, 2}),
           IF q = << >> THEN last' = None \/ (last'[1] \in A /\ last'[2] = 2) ELSE last' = q[Len(q)],
           \A k : Whole(k)' => \A i \in 1 .. Len(q) : q[i] = <<k, 1>> => \E j \in i + 1 .. Len(q) : q[j] = <<k, 2>>,
           Cardinality(Gaps(None, q)) + Cardinality(Gone') <= joins'
    PROVE  Counted'
<1>1. (command_buffer \in Seq(Arrived \X {1, 2}))'
  OBVIOUS
<1>2. (IF command_buffer = << >> THEN last = None \/ (last[1] \in Arrived /\ last[2] = 2)
       ELSE last = command_buffer[Len(command_buffer)])'
  BY DEF None
<1>3. (\A i \in 1 .. Len(command_buffer) :
          command_buffer[i][2] = 1 /\ Whole(command_buffer[i][1]) =>
              \E j \in i + 1 .. Len(command_buffer) : command_buffer[j] = <<command_buffer[i][1], 2>>)'
  <2> SUFFICES ASSUME NEW i \in 1 .. Len(q), q[i][2] = 1, Whole(command_buffer[i][1])'
               PROVE  \E j \in i + 1 .. Len(q) : q[j] = <<q[i][1], 2>>
    OBVIOUS
  <2>1. PICK k : k = q[i][1]
    OBVIOUS
  <2>2. Whole(k)'
    BY <2>1 DEF Whole
  <2>3. q[i] = <<k, 1>>
    BY <2>1
  <2> QED BY <2>1, <2>2, <2>3
<1>4. (Cardinality(Gaps(None, command_buffer)) + Cardinality(Gone) <= joins)'
  BY DEF Gaps, Before, Goes, None
<1> QED BY <1>1, <1>2, <1>3, <1>4 DEF Counted

\* The commands acted on.
LEMMA ActedMore ==
    ASSUME LotTypes, NEW r, acted' = acted \/ acted' = Append(acted, r)
    PROVE  ActedOn \subseteq ActedOn' /\ (acted' = Append(acted, r) => r.command \in ActedOn')
<1>1. acted \in Seq(ToSet(acted))
  BY DEF LotTypes
<1>2. CASE acted' = acted
  <2>1. ActedOn' = ActedOn
    BY <1>2 DEF ActedOn
  <2>2. acted' # Append(acted, r)
    <3>1. Len(acted) \in Nat /\ Len(Append(acted, r)) = Len(acted) + 1
      BY <1>1, AppendType
    <3>2. Len(Append(acted, r)) # Len(acted)
      BY <3>1
    <3> QED BY <1>2, <3>2
  <2> QED BY <2>1, <2>2
<1>3. CASE acted' = Append(acted, r)
  <2> DEFINE t == Append(acted, r)
             n == Len(acted)
  <2>1. t \in Seq(ToSet(t)) /\ Len(t) = n + 1 /\ n \in Nat /\ t[n + 1] = r /\ \A i \in 1 .. n : t[i] = acted[i]
    BY <1>1, AppendType
  <2>2. DOMAIN acted = 1 .. n
    BY <1>1
  <2> HIDE DEF t, n
  <2>3. DOMAIN t = 1 .. n + 1
    BY <2>1
  <2>4. \A i \in DOMAIN acted : i \in DOMAIN t /\ t[i] = acted[i]
    BY <2>1, <2>2, <2>3
  <2>5. n + 1 \in DOMAIN t
    BY <2>1, <2>3
  <2>6. ActedOn' = {t[i].command : i \in DOMAIN t}
    BY <1>3 DEF ActedOn, t
  <2>7. r.command \in ActedOn'
    BY <2>1, <2>5, <2>6
  <2>8. ActedOn \subseteq ActedOn'
    BY <2>4, <2>6 DEF ActedOn
  <2> QED BY <2>7, <2>8
<1> QED BY <1>2, <1>3

\* A line is cut: at most its newline's command goes with it, and only if there is a gap
\* in the line, or the command is not acted on.
LEMMA LossCut ==
    ASSUME LotTypes, NEW A, NEW b \in Seq(A \X {1, 2}), NEW e \in 1 .. Len(b), NEW l, NEW j \in Nat, NEW g \in Nat,
           A = Arrived', b[Len(b)] = l, last' = l, b[e][2] = 2, \A i \in 1 .. e - 1 : b[i][2] = 1,
           command_buffer' = SubSeq(b, e + 1, Len(b)), ActedOn \subseteq ActedOn',
           Cardinality(Gaps(None, b)) + g <= j, joins' = j, g = Cardinality(Gone),
           \A k : Whole(k)' => \A i \in 1 .. Len(b) : b[i] = <<k, 1>> => \E h \in i + 1 .. Len(b) : b[h] = <<k, 2>>,
           \A k \in A : Whole(k)' /\ (\A i \in 1 .. Len(b) : b[i][1] # k) =>
               k \in Arrived /\ Whole(k) /\ \A i \in 1 .. Len(command_buffer) : command_buffer[i][1] # k,
           e = 2 /\ b[1] = <<b[2][1], 1>> => b[2][1] \in ActedOn'
    PROVE  Counted'
<1> DEFINE p == SubSeq(b, 1, e)
           q == SubSeq(b, e + 1, Len(b))
           P == A \X {1, 2}
           m == b[e][1]
<1>1. e \in Nat /\ e > 0 /\ e <= Len(b) /\ Len(b) \in Nat
  OBVIOUS
<1>2. q \in Seq(P) /\ Len(q) = Len(b) - e /\ \A i \in 1 .. Len(b) - e : q[i] = b[e + i]
  BY <1>1, PieceFacts
<1>3. p \in Seq(P)
  BY <1>1
<1>4. \A i \in 1 .. Len(b) : b[i] = <<b[i][1], b[i][2]>> /\ b[i][1] \in A /\ b[i][2] \in {1, 2}
  BY SMTT(30)
<1>5. /\ Cardinality(Gaps(None, b)) = Cardinality(Gaps(None, p)) + Cardinality(Gaps(None, q))
      /\ Cardinality(Gaps(None, p)) = 0 => e = 2 /\ b[1] = <<b[2][1], 1>>
  <2>1. None[2] # 1
    BY DEF None
  <2> QED BY <2>1, GapsCut
<1>6. command_buffer' = q
  OBVIOUS
<1> HIDE DEF p, q, P
<1>7. Cardinality(Gaps(None, p)) \in Nat /\ Cardinality(Gaps(None, q)) \in Nat
  BY <1>2, <1>3, GapsFinite
<1>8. Gone' \subseteq Gone \cup {m}
  <2> SUFFICES ASSUME NEW k \in Gone', k # m PROVE k \in Gone
    OBVIOUS
  <2>1. k \in A /\ k \notin ActedOn' /\ Whole(k)' /\ \A i \in 1 .. Len(q) : q[i][1] # k
    BY <1>6 DEF Gone
  <2>2. ASSUME NEW i \in 1 .. Len(b), b[i] = <<k, 2>> PROVE FALSE
    <3>1. ~ i \in 1 .. e - 1
      BY <2>2
    <3>2. i # e
      BY <2>2
    <3>3. PICK d \in 1 .. Len(b) - e : e + d = i
      <4>1. i - e \in 1 .. Len(b) - e /\ e + (i - e) = i
        BY <1>1, <3>1, <3>2
      <4> QED BY <4>1
    <3>4. q[d] = <<k, 2>>
      BY <1>2, <2>2, <3>3
    <3>5. d \in 1 .. Len(q)
      BY <1>2, <3>3
    <3> QED BY <2>1, <3>4, <3>5
  <2>3. ASSUME NEW i \in 1 .. Len(b) PROVE b[i][1] # k
    <3> SUFFICES ASSUME b[i][1] = k PROVE FALSE
      OBVIOUS
    <3>1. CASE b[i][2] = 2
      <4>1. b[i] = <<k, 2>>
        BY <1>4, <3>1
      <4> QED BY <2>2, <4>1
    <3>2. CASE b[i][2] = 1
      <4>1. b[i] = <<k, 1>>
        BY <1>4, <3>2
      <4>2. PICK h \in i + 1 .. Len(b) : b[h] = <<k, 2>>
        BY <2>1, <4>1
      <4>3. h \in 1 .. Len(b)
        BY <1>1
      <4> QED BY <2>2, <4>2, <4>3
    <3> QED BY <1>4, <3>1, <3>2
  <2>4. k \in Arrived /\ Whole(k) /\ \A i \in 1 .. Len(command_buffer) : command_buffer[i][1] # k
    BY <2>1, <2>3
  <2> QED BY <2>1, <2>4 DEF Gone
<1>9. IsFiniteSet(Gone)
  BY FewerGone
<1> DEFINE x == Cardinality(Gaps(None, p))
           y == Cardinality(Gaps(None, q))
           z == Cardinality(Gone')
<1>10. z <= g + x
  <2>1. CASE x = 0
    <3>1. m \notin Gone'
      <4>1. e = 2 /\ b[1] = <<b[2][1], 1>>
        BY <1>5, <2>1
      <4>2. m \in ActedOn'
        BY <4>1
      <4> QED BY <4>2 DEF Gone
    <3>2. Gone' \subseteq Gone
      BY <1>8, <3>1
    <3>3. Cardinality(Gone') <= Cardinality(Gone)
      BY <3>2, FewerGone
    <3> HIDE DEF x
    <3> QED BY <2>1, <3>3
  <2>2. CASE x # 0
    <3>1. IsFiniteSet(Gone \cup {m}) /\ Cardinality(Gone \cup {m}) <= g + 1
      <4> HIDE DEF m
      <4>1. /\ IsFiniteSet(Gone \cup {m})
            /\ Cardinality(Gone \cup {m}) = IF m \in Gone THEN Cardinality(Gone) ELSE Cardinality(Gone) + 1
        BY <1>9, FS_AddElement
      <4> QED BY <4>1
    <3>2. Cardinality(Gone') <= Cardinality(Gone \cup {m}) /\ Cardinality(Gone \cup {m}) \in Nat /\ Cardinality(Gone') \in Nat
      BY <1>8, <3>1, FS_Subset, FS_CardinalityType
    <3> DEFINE u == Cardinality(Gone \cup {m})
    <3>3. z <= u /\ u <= g + 1 /\ u \in Nat /\ z \in Nat
      BY <3>1, <3>2
    <3>4. x \in Nat
      BY <1>7
    <3> HIDE DEF x, z, u
    <3> QED BY <2>2, <3>3, <3>4
  <2> QED BY <2>1, <2>2
<1>11. z \in Nat
  <2>1. IsFiniteSet(Gone \cup {m})
    BY <1>9, FS_AddElement
  <2> HIDE DEF m
  <2>2. IsFiniteSet(Gone')
    BY <1>8, <2>1, FS_Subset
  <2> QED BY <2>2, FS_CardinalityType
<1>12. y + z <= joins'
  <2>1. Cardinality(Gaps(None, b)) = x + y /\ x \in Nat /\ y \in Nat
    BY <1>5, <1>7
  <2> HIDE DEF x, y, z
  <2> QED BY <1>10, <1>11, <2>1
<1>13. IF q = << >> THEN last' = None \/ (last'[1] \in A /\ last'[2] = 2) ELSE last' = q[Len(q)]
  <2>1. CASE e = Len(b)
    <3>1. Len(q) = 0
      BY <1>1, <1>2, <2>1
    <3>2. q = << >>
      BY <1>2, <3>1
    <3>3. l[1] \in A /\ l[2] = 2
      BY <1>1, <1>4, <2>1
    <3> QED BY <3>2, <3>3
  <2>2. CASE e # Len(b)
    <3>1. Len(q) \in 1 .. Len(b) - e /\ e + Len(q) = Len(b)
      BY <1>1, <1>2, <2>2
    <3>2. q[Len(q)] = b[Len(b)]
      BY <1>2, <3>1
    <3>3. q # << >>
      BY <3>1
    <3> QED BY <3>2, <3>3
  <2> QED BY <2>1, <2>2
<1>14. ASSUME NEW k, Whole(k)', NEW i \in 1 .. Len(q), q[i] = <<k, 1>>
       PROVE  \E h \in i + 1 .. Len(q) : q[h] = <<k, 2>>
  <2>1. e + i \in 1 .. Len(b) /\ b[e + i] = <<k, 1>>
    BY <1>1, <1>2, <1>14
  <2>2. PICK h \in e + i + 1 .. Len(b) : b[h] = <<k, 2>>
    BY <1>14, <2>1
  <2>3. h - e \in i + 1 .. Len(q) /\ h - e \in 1 .. Len(b) - e /\ e + (h - e) = h
    BY <1>1, <1>2
  <2>4. q[h - e] = <<k, 2>>
    BY <1>2, <2>2, <2>3
  <2> QED BY <2>3, <2>4
<1> QED
  <2>1. q \in Seq(A \X {1, 2})
    BY <1>2 DEF P
  <2>2. \A k : Whole(k)' => \A i \in 1 .. Len(q) : q[i] = <<k, 1>> => \E h \in i + 1 .. Len(q) : q[h] = <<k, 2>>
    BY <1>14
  <2>3. Cardinality(Gaps(None, q)) + Cardinality(Gone') <= joins'
    BY <1>12
  <2>4. A = Arrived'
    OBVIOUS
  <2> QED BY <1>6, <1>13, <2>1, <2>2, <2>3, <2>4, CountedNext

\* The first unit alone.
LEMMA OneUnit ==
    ASSUME NEW S, NEW s \in Seq(S), Len(s) > 0
    PROVE  SubSeq(s, 1, 1) = <<s[1]>>
<1> DEFINE p == SubSeq(s, 1, 1)
           q == <<s[1]>>
<1>1. p \in Seq(S) /\ q \in Seq(S) /\ Len(p) = 1 /\ Len(q) = 1 /\ p[1] = s[1] /\ q[1] = s[1]
  OBVIOUS
<1> HIDE DEF p, q
<1>2. \A i \in 1 .. Len(p) : p[i] = q[i]
  BY <1>1
<1>3. p = q
  BY <1>1, <1>2, SeqEqual
<1> QED BY <1>3 DEF p, q

\* A message costs no more commands than it makes joins: handle_new_file cuts at a
\* newline, what it cuts is one command's, or ends at a gap.
LEMMA LossDeliver ==
    ASSUME WireIInv, Plain => Counted, NEW c \in Clients, Deliver(c), Plain'
    PROVE  Counted'
<1>1. PICK n \in 1 .. Len(wire[c]) :
        /\ HandleNewFile(SubSeq(wire[c], 1, n))
        /\ wire' = [wire EXCEPT ![c] = SubSeq(@, n + 1, Len(@))]
        /\ arrival' = arrival \o Begun(SubSeq(wire[c], 1, n))
        /\ last' = SubSeq(wire[c], 1, n)[n]
        /\ joins' = joins + Joins(<<last>> \o SubSeq(wire[c], 1, n))
        /\ UNCHANGED <<kinds, missing, broken>>
  BY DEF Deliver
<1>2. PICK data : data = SubSeq(wire[c], 1, n)
  OBVIOUS
<1>3. /\ HandleNewFile(data) /\ Piece(c, n, data)
      /\ last' = data[n] /\ joins' = joins + Joins(<<last>> \o data) /\ kinds' = kinds
  BY <1>1, <1>2 DEF Piece
<1>4. PICK A : A = Arrived'
  OBVIOUS
<1>5. PICK b : b = command_buffer \o data
  OBVIOUS
<1>6. /\ Counted /\ Arrived \subseteq A /\ data[n] \in A \X {1, 2}
      /\ b \in Seq(A \X {1, 2}) /\ Len(b) > 0 /\ b[Len(b)] = data[n]
      /\ Cardinality(Gaps(None, b)) = Cardinality(Gaps(None, command_buffer)) + Joins(<<last>> \o data)
      /\ Cardinality(Gaps(None, command_buffer)) \in Nat /\ Joins(<<last>> \o data) \in Nat
      /\ \A k : Whole(k)' =>
            \A i \in 1 .. Len(b) : b[i] = <<k, 1>> => \E j \in i + 1 .. Len(b) : b[j] = <<k, 2>>
      /\ \A k \in A :
            Whole(k)' /\ (\A i \in 1 .. Len(b) : b[i][1] # k) =>
                k \in Arrived /\ Whole(k) /\ \A i \in 1 .. Len(command_buffer) : command_buffer[i][1] # k
  <2>1. Together(A, b, data, n)
    BY <1>3, <1>4, <1>5, PieceBuffer
  <2> QED BY <2>1 DEF Together
<1>7. LotTypes /\ joins \in Nat
  BY DEF WireIInv, LotTypes
<1>8. data \in Seq(Unit)
  BY <1>3, PieceBase
<1> DEFINE e == CommandEnd(b)
<1>9. /\ b \in Seq(Unit)
      /\ \/ acted' = acted /\ command_buffer' = b
         \/ /\ acted' = acted /\ e \in 1 .. Len(b)
            /\ ~ IsHeader(SubSeq(b, 1, e - 1)) /\ command_buffer' = SubSeq(b, e + 1, Len(b))
         \/ \E k \in DOMAIN kinds : \E d :
                /\ e # 0 /\ SubSeq(b, 1, e - 1) = <<<<k, 1>>>>
                /\ acted' = Append(acted, [command |-> k, data |-> d])
                /\ \/ kinds[k] = "stream" /\ command_buffer' = SubSeq(b, e + Size(k) + 1, Len(b))
                   \/ kinds[k] # "stream" /\ command_buffer' = SubSeq(b, e + 1, Len(b))
  BY <1>3, <1>5, <1>7, <1>8, HandlerCases
<1>10. \/ e = 0
       \/ e \in 1 .. Len(b) /\ IsNewline(b[e]) /\ \A i \in 1 .. e - 1 : ~ IsNewline(b[i])
  BY <1>9, EndFacts
<1>11. \A i \in 1 .. Len(b) : b[i] = <<b[i][1], b[i][2]>> /\ b[i][1] \in A /\ b[i][2] \in {1, 2} /\ b[i][1] \in DOMAIN kinds
  BY <1>6, <1>9 DEF Unit
<1>12. \A k \in A : kinds[k] \notin Streamed
  BY <1>3, <1>4 DEF Plain
<1>13. \A i \in 1 .. Len(b) : IsNewline(b[i]) <=> b[i][2] = 2
  <2> TAKE i \in 1 .. Len(b)
  <2>1. b[i][2] \in {1, 2} /\ kinds[b[i][1]] \notin Streamed
    BY <1>11, <1>12
  <2> QED BY <2>1 DEF IsNewline, Header
<1>14. PICK g : g = Cardinality(Gone)
  OBVIOUS
<1>15. g \in Nat
  BY <1>7, <1>14, FewerGone
<1>16. PICK j : j = joins'
  OBVIOUS
<1>17. j \in Nat /\ Cardinality(Gaps(None, b)) + g <= j
  <2> DEFINE x == Cardinality(Gaps(None, command_buffer))
             d == Joins(<<last>> \o data)
  <2>1. x \in Nat /\ d \in Nat /\ Cardinality(Gaps(None, b)) = x + d
    BY <1>6
  <2>2. j = joins + d
    BY <1>3, <1>16
  <2>3. x + g <= joins
    BY <1>6, <1>14 DEF Counted
  <2> HIDE DEF x, d
  <2> QED BY <1>7, <1>15, <2>1, <2>2, <2>3
<1> HIDE DEF e
<1>18. CASE acted' = acted /\ command_buffer' = b
  <2>1. ActedOn' = ActedOn
    BY <1>18 DEF ActedOn
  <2>2. Gone' \subseteq Gone
    <3> SUFFICES ASSUME NEW k \in Gone' PROVE k \in Gone
      OBVIOUS
    <3>1. k \in A /\ k \notin ActedOn /\ Whole(k)' /\ \A i \in 1 .. Len(b) : b[i][1] # k
      BY <1>4, <1>18, <2>1 DEF Gone
    <3>2. k \in Arrived /\ Whole(k) /\ \A i \in 1 .. Len(command_buffer) : command_buffer[i][1] # k
      BY <1>6, <3>1
    <3> QED BY <3>1, <3>2 DEF Gone
  <2>3. Cardinality(Gone') \in Nat /\ Cardinality(Gone') <= g
    BY <1>7, <1>14, <2>2, FewerGone
  <2>4. Cardinality(Gaps(None, b)) + Cardinality(Gone') <= joins'
    <3> DEFINE x == Cardinality(Gaps(None, b))
               z == Cardinality(Gone')
    <3>1. x \in Nat
      BY <1>6, GapsFinite
    <3>2. z \in Nat /\ z <= g
      BY <2>3
    <3>3. x + g <= j
      BY <1>17
    <3> HIDE DEF x, z
    <3>4. x + z <= j
      BY <1>15, <1>17, <3>1, <3>2, <3>3
    <3> QED BY <1>16, <3>4 DEF x, z
  <2>5. IF b = << >> THEN last' = None \/ (last'[1] \in A /\ last'[2] = 2) ELSE last' = b[Len(b)]
    <3>1. b # << >>
      BY <1>6
    <3> QED BY <1>3, <1>6, <3>1
  <2>6. /\ b \in Seq(A \X {1, 2})
        /\ \A k : Whole(k)' =>
            \A i \in 1 .. Len(b) : b[i] = <<k, 1>> => \E h \in i + 1 .. Len(b) : b[h] = <<k, 2>>
    BY <1>6
  <2> QED BY <1>4, <1>18, <2>4, <2>5, <2>6, CountedNext
<1>19. ASSUME NEW r, acted' = acted \/ acted' = Append(acted, r), e \in 1 .. Len(b),
              command_buffer' = SubSeq(b, e + 1, Len(b)),
              e = 2 /\ b[1] = <<b[2][1], 1>> => b[2][1] \in ActedOn'
       PROVE  Counted'
  <2>1. ActedOn \subseteq ActedOn'
    BY <1>7, <1>19, ActedMore
  <2>2. e # 0
    BY <1>19
  <2>3. b[e][2] = 2
    BY <1>10, <1>13, <1>19, <2>2
  <2>4. \A i \in 1 .. e - 1 : b[i][2] = 1
    <3> TAKE i \in 1 .. e - 1
    <3>1. i \in 1 .. Len(b)
      BY <1>19
    <3>2. ~ IsNewline(b[i])
      BY <1>10, <2>2
    <3> QED BY <1>11, <1>13, <3>1, <3>2
  <2>5. last' = data[n] /\ b[Len(b)] = data[n] /\ joins' = j
    BY <1>3, <1>6, <1>16
  <2>6. /\ b \in Seq(A \X {1, 2})
        /\ \A k : Whole(k)' =>
            \A i \in 1 .. Len(b) : b[i] = <<k, 1>> => \E h \in i + 1 .. Len(b) : b[h] = <<k, 2>>
        /\ \A k \in A :
            Whole(k)' /\ (\A i \in 1 .. Len(b) : b[i][1] # k) =>
                k \in Arrived /\ Whole(k) /\ \A i \in 1 .. Len(command_buffer) : command_buffer[i][1] # k
    BY <1>6
  <2> QED BY <1>4, <1>7, <1>14, <1>15, <1>17, <1>19, <2>1, <2>3, <2>4, <2>5, <2>6, LossCut
<1>20. CASE /\ acted' = acted /\ e \in 1 .. Len(b)
            /\ ~ IsHeader(SubSeq(b, 1, e - 1)) /\ command_buffer' = SubSeq(b, e + 1, Len(b))
  <2>1. ASSUME e = 2, b[1] = <<b[2][1], 1>> PROVE FALSE
    <3>1. PICK k : k = b[2][1]
      OBVIOUS
    <3>2. k \in DOMAIN kinds /\ 1 \in 1 .. Len(b)
      BY <1>11, <1>20, <2>1, <3>1
    <3>3. SubSeq(b, 1, 1) = <<b[1]>>
      BY <1>6, OneUnit
    <3>4. SubSeq(b, 1, e - 1) = <<<<k, 1>>>>
      BY <2>1, <3>1, <3>3
    <3> QED BY <1>20, <3>2, <3>4 DEF IsHeader
  <2> QED BY <1>19, <1>20, <2>1
<1>21. ASSUME NEW k \in DOMAIN kinds, NEW d, e # 0, SubSeq(b, 1, e - 1) = <<<<k, 1>>>>,
              acted' = Append(acted, [command |-> k, data |-> d]),
              \/ kinds[k] = "stream" /\ command_buffer' = SubSeq(b, e + Size(k) + 1, Len(b))
              \/ kinds[k] # "stream" /\ command_buffer' = SubSeq(b, e + 1, Len(b))
       PROVE  Counted'
  <2>1. e \in 1 .. Len(b)
    BY <1>10, <1>21
  <2>2. b[1] = <<k, 1>> /\ e = 2
    <3> DEFINE p == SubSeq(b, 1, e - 1)
    <3>1. Len(p) = e - 1 /\ (e - 1 >= 1 => p[1] = b[1])
      BY <1>6, <2>1
    <3>2. p = <<<<k, 1>>>>
      BY <1>21
    <3> HIDE DEF p
    <3>3. Len(p) = 1 /\ p[1] = <<k, 1>>
      BY <3>2
    <3>4. e \in Nat /\ e = 2
      <4>1. Len(b) \in Nat
        BY <1>6
      <4>2. e \in Nat
        BY <2>1, <4>1
      <4>3. e - 1 = 1
        BY <3>1, <3>3
      <4> QED BY <4>2, <4>3
    <3> QED BY <3>1, <3>3, <3>4
  <2>3. k \in A
    <3>1. 1 \in 1 .. Len(b)
      BY <2>1
    <3> QED BY <1>11, <2>2, <3>1
  <2>4. kinds[k] # "stream"
    BY <1>12, <2>3 DEF Streamed
  <2>5. PICK r : r = [command |-> k, data |-> d]
    OBVIOUS
  <2>6. acted' = Append(acted, r) /\ r.command = k
    BY <1>21, <2>5
  <2>7. k \in ActedOn'
    BY <1>7, <2>6, ActedMore
  <2>8. command_buffer' = SubSeq(b, e + 1, Len(b))
    BY <1>21, <2>4
  <2>9. e = 2 /\ b[1] = <<b[2][1], 1>> => b[2][1] \in ActedOn'
    <3> SUFFICES ASSUME b[1] = <<b[2][1], 1>> PROVE b[2][1] \in ActedOn'
      OBVIOUS
    <3>1. b[2][1] = k
      BY <2>2
    <3> QED BY <2>7, <3>1
  <2> QED BY <1>19, <2>1, <2>6, <2>8, <2>9
<1> QED BY <1>9, <1>18, <1>20, <1>21
\* The steps of clients leave no whole command less of one.
LEMMA WholeBefore ==
    ASSUME LotTypes, NEW k \in DOMAIN kinds, Whole(k)',
           \/ \E c \in Clients, kind \in Kinds : Submit(c, kind)
           \/ \E c \in Clients : Break(c)
           \/ FileAppears
           \/ UNCHANGED vars
    PROVE  Whole(k)
<1>1. wire \in [Clients -> Seq(Unit)]
  BY DEF LotTypes
<1>2. ASSUME NEW c \in Clients, NEW kind \in Kinds, Submit(c, kind) PROVE Whole(k)
  <2>1. broken' = broken
    BY <1>2 DEF Submit
  <2>2. PICK u : wire' = [wire EXCEPT ![c] = @ \o u] /\ u = Units(Len(kinds) + 1, IF kind \in Streamed THEN 2 ELSE 0)
    BY <1>2 DEF Submit
  <2>3. ASSUME NEW d \in Clients, NEW i \in DOMAIN wire[d] PROVE wire[d][i][1] # k
    <3>1. CASE d # c
      <4>1. wire'[d] = wire[d]
        BY <1>1, <2>2, <3>1
      <4> QED BY <4>1 DEF Whole
    <3>2. CASE d = c
      <4> DEFINE w == wire[c]
                 size == IF kind \in Streamed THEN 2 ELSE 0
                 kk == Len(kinds) + 1
      <4>1. w \in Seq(Unit) /\ wire'[c] = w \o u
        BY <1>1, <2>2
      <4>2. u = [j \in 1 .. Header + size |-> <<kk, j>>] /\ Header + size \in Nat
        BY <2>2 DEF Units, Header
      <4>3. kk \in Nat
        <5>1. kinds \in Seq(Kinds)
          BY DEF LotTypes
        <5> QED BY <5>1
      <4>4. Unit \subseteq Nat \X Nat
        <5>1. kinds \in Seq(Kinds)
          BY DEF LotTypes
        <5> QED BY <5>1 DEF Unit
      <4> HIDE DEF kk, size
      <4>5. u \in Seq(Nat \X Nat)
        BY <4>2, <4>3
      <4>6. w \in Seq(Nat \X Nat)
        BY <4>1, <4>4
      <4> HIDE DEF w
      <4>7. i \in 1 .. Len(w)
        BY <3>2, <4>6 DEF w
      <4>8. i \in DOMAIN (w \o u) /\ (w \o u)[i] = w[i]
        BY <4>5, <4>6, <4>7
      <4>9. \A j \in DOMAIN wire'[c] : wire'[c][j][1] # k
        BY DEF Whole
      <4> QED BY <3>2, <4>1, <4>8, <4>9 DEF w
    <3> QED BY <3>1, <3>2
  <2> QED BY <2>1, <2>3 DEF Whole
<1>3. ASSUME NEW c \in Clients, Break(c) PROVE Whole(k)
  <2>1. PICK n \in 0 .. Len(wire[c]) - 1 :
          wire' = [wire EXCEPT ![c] = SubSeq(@, 1, n)] /\ broken' = {wire[c][i][1] : i \in n + 1 .. Len(wire[c])}
    BY <1>3 DEF Break
  <2>2. broken = {}
    BY <1>3 DEF Break
  <2>3. ASSUME NEW d \in Clients, NEW i \in DOMAIN wire[d] PROVE wire[d][i][1] # k
    <3>1. CASE d # c
      <4>1. wire'[d] = wire[d]
        BY <1>1, <2>1, <3>1
      <4> QED BY <4>1 DEF Whole
    <3>2. CASE d = c
      <4> DEFINE w == wire[c]
                 p == SubSeq(w, 1, n)
      <4>1. w \in Seq(Unit) /\ wire'[c] = p
        BY <1>1, <2>1
      <4>2. n \in Nat /\ n <= Len(w) /\ i \in 1 .. Len(w)
        BY <3>2, <4>1
      <4>3. CASE i <= n
        <5>1. i \in DOMAIN p /\ p[i] = w[i]
          BY <4>1, <4>2, <4>3
        <5>2. \A j \in DOMAIN p : p[j][1] # k
          BY <4>1 DEF Whole
        <5> QED BY <3>2, <5>1, <5>2
      <4>4. CASE i > n
        <5>1. i \in n + 1 .. Len(w)
          BY <4>2, <4>4
        <5>2. w[i][1] \in broken'
          BY <2>1, <5>1
        <5>3. k \notin broken'
          BY DEF Whole
        <5> QED BY <3>2, <5>2, <5>3
      <4> QED BY <4>2, <4>3, <4>4
    <3> QED BY <3>1, <3>2
  <2> QED BY <2>2, <2>3 DEF Whole
<1>4. CASE FileAppears \/ UNCHANGED vars
  <2>1. wire' = wire /\ broken' = broken
    BY <1>4 DEF FileAppears, vars, io
  <2> QED BY <2>1 DEF Whole
<1> QED BY <1>2, <1>3, <1>4

\* The inductive invariant of LossBounded, with that of the wires.
LEMMA LossInvariance == Spec => []LossIInv
<1>1. Init => LossIInv
  <2> SUFFICES ASSUME Init PROVE LossIInv
    OBVIOUS
  <2>1. WireIInv
    <3>1. Len(<< >>) = 0
      OBVIOUS
    <3>2. \A c \in Clients : Len(wire[c]) = 0
      BY <3>1 DEF Init
    <3> QED BY <3>2, TypesInit DEF WireIInv, Well
  <2>2. command_buffer = << >> /\ last = None /\ joins = 0 /\ arrival = << >>
    BY DEF Init
  <2>3. Arrived = {} /\ Gone = {}
    BY <2>2 DEF Arrived, ToSet, Gone
  <2>4. Gaps(None, command_buffer) = {}
    BY <2>2 DEF Gaps
  <2>5. Cardinality({}) = 0
    BY FS_EmptySet
  <2>6. Counted
    <3>1. Cardinality(Gaps(None, command_buffer)) = 0 /\ Cardinality(Gone) = 0
      BY <2>3, <2>4, <2>5
    <3>2. Cardinality(Gaps(None, command_buffer)) + Cardinality(Gone) <= joins
      BY <2>2, <3>1
    <3>3. command_buffer \in Seq(Arrived \X {1, 2}) /\ Len(command_buffer) = 0
      BY <2>2
    <3>4. IF command_buffer = << >> THEN last = None \/ (last[1] \in Arrived /\ last[2] = 2)
          ELSE last = command_buffer[Len(command_buffer)]
      BY <2>2
    <3> QED BY <3>2, <3>3, <3>4 DEF Counted
  <2> QED BY <2>1, <2>6 DEF LossIInv
<1>2. LossIInv /\ WireIInv' /\ [Next]_vars => LossIInv'
  <2> SUFFICES ASSUME LossIInv, WireIInv', [Next]_vars, Plain' PROVE Counted'
    BY DEF LossIInv
  <2>1. WireIInv /\ LotTypes /\ (Plain => Counted)
    BY DEF LossIInv, WireIInv
  <2>2. CASE \E c \in Clients : Deliver(c)
    BY <2>1, <2>2, LossDeliver
  <2>3. CASE \/ \E c \in Clients, kind \in Kinds : Submit(c, kind)
             \/ \E c \in Clients : Break(c)
             \/ FileAppears
             \/ UNCHANGED vars
    <3>1. \A k \in DOMAIN kinds : kinds'[k] = kinds[k]
      <4>1. ASSUME NEW c \in Clients, NEW kind \in Kinds, Submit(c, kind)
            PROVE  \A k \in DOMAIN kinds : kinds'[k] = kinds[k]
        <5>1. kinds' = Append(kinds, kind) /\ kinds \in Seq(Kinds)
          BY <2>1, <4>1 DEF Submit, LotTypes
        <5> QED BY <5>1
      <4> QED BY <2>3, <4>1 DEF Break, FileAppears, vars, io
    <3>2. \A k \in DOMAIN kinds : Whole(k)' => Whole(k)
      BY <2>1, <2>3, WholeBefore
    <3>3. UNCHANGED <<command_buffer, history>>
      BY <2>3 DEF Submit, Break, FileAppears, vars, encoder
    <3> QED BY <2>1, <3>1, <3>2, <3>3, LossSame
  <2> QED BY <2>2, <2>3 DEF Next
<1> QED BY <1>1, <1>2, WireInvariance, PTL DEF Spec
\* A whole command whose units stay in command_buffer for good is at a gap.
LEMMA LostAtGap ==
    ASSUME LossIInv, Plain, NEW k \in Lost, k \notin Gone
    PROVE  \E p \in Gaps(None, command_buffer) : command_buffer[p][1] = k
<1> DEFINE b == command_buffer
<1>1. PICK A : A = Arrived
  OBVIOUS
<1>2. Counted /\ b \in Seq(A \X {1, 2})
  BY <1>1 DEF LossIInv, Counted
<1>3. k \in A /\ k \notin ActedOn /\ Whole(k)
      /\ \A i \in 1 .. Len(b) :
            \/ b[i] # <<k, 1>> \/ (i > 1 /\ ~ IsNewline(b[i - 1])) \/ i = Len(b) \/ b[i + 1] # <<k, 2>>
  <2>1. DOMAIN b = 1 .. Len(b)
    BY <1>2
  <2> QED BY <1>1, <2>1 DEF Lost
<1>4. \A i \in 1 .. Len(b) : b[i][2] = 1 /\ Whole(b[i][1]) => \E j \in i + 1 .. Len(b) : b[j] = <<b[i][1], 2>>
  BY <1>2 DEF Counted
<1>5. PICK i \in 1 .. Len(b) : b[i][1] = k
  BY <1>1, <1>3 DEF Gone
<1>6. Len(b) \in Nat /\ \A j \in 1 .. Len(b) : b[j] = <<b[j][1], b[j][2]>> /\ b[j][2] \in {1, 2}
  BY <1>2
<1>7. Gaps(None, command_buffer) = {j \in 1 .. Len(b) : ~ Goes(Before(None, b, j), b[j])}
  BY DEF Gaps
<1> HIDE DEF b
<1>8. PICK j \in 1 .. Len(b) : b[j] = <<k, 2>>
  <2>1. CASE b[i][2] = 2
    BY <1>5, <1>6, <2>1
  <2>2. CASE b[i][2] = 1
    <3>1. \E j \in i + 1 .. Len(b) : b[j] = <<k, 2>>
      BY <1>3, <1>4, <1>5, <2>2
    <3> QED BY <1>6, <3>1
  <2> QED BY <1>6, <2>1, <2>2
<1>9. ASSUME NEW p \in 1 .. Len(b), ~ Goes(Before(None, b, p), b[p]), b[p][1] = k
      PROVE  \E h \in Gaps(None, command_buffer) : command_buffer[h][1] = k
  BY <1>7, <1>9 DEF b
<1>10. CASE j = 1
  <2>1. ~ Goes(Before(None, b, j), b[j])
    BY <1>8, <1>10 DEF Goes, Before, None
  <2> QED BY <1>8, <1>9, <2>1
<1>11. CASE j # 1 /\ b[j - 1] # <<k, 1>>
  <2>1. j - 1 \in 1 .. Len(b)
    BY <1>6, <1>11
  <2>2. b[j - 1][2] = 1 => b[j - 1][1] # k
    BY <1>6, <1>11, <2>1
  <2>3. Before(None, b, j) = b[j - 1]
    BY <1>11 DEF Before
  <2>4. ~ Goes(b[j - 1], b[j])
    BY <1>8, <2>2 DEF Goes
  <2> QED BY <1>8, <1>9, <2>3, <2>4
<1>12. CASE j # 1 /\ b[j - 1] = <<k, 1>>
  <2> DEFINE h == j - 1
  <2>1. h \in 1 .. Len(b) /\ h + 1 = j /\ h # Len(b) /\ b[h] = <<k, 1>>
    BY <1>6, <1>12
  <2> HIDE DEF h
  <2>2. h > 1 /\ ~ IsNewline(b[h - 1])
    BY <1>3, <1>8, <2>1
  <2>3. h - 1 \in 1 .. Len(b) /\ b[h - 1][2] = 1
    <3>1. h - 1 \in 1 .. Len(b)
      BY <1>6, <2>1, <2>2
    <3>2. b[h - 1][2] # 2
      BY <2>2 DEF IsNewline, Header
    <3> QED BY <1>6, <3>1, <3>2
  <2>4. Before(None, b, h) = b[h - 1]
    BY <2>1, <2>2 DEF Before
  <2>5. ~ Goes(b[h - 1], b[h])
    BY <2>1, <2>3 DEF Goes
  <2>6. b[h][1] = k
    BY <2>1
  <2> QED BY <1>9, <2>1, <2>4, <2>5, <2>6
<1> QED BY <1>10, <1>11, <1>12

\* A set counts no more than the two that cover it.
LEMMA CoverCard ==
    ASSUME NEW S, NEW T, NEW G, NEW M, NEW f \in Surjection(G, M),
           IsFiniteSet(T), IsFiniteSet(G), S \subseteq T \cup M
    PROVE  Cardinality(S) <= Cardinality(T) + Cardinality(G)
<1>1. IsFiniteSet(M) /\ Cardinality(M) <= Cardinality(G)
  BY FS_Surjection
<1>2. IsFiniteSet(T \cup M) /\ Cardinality(T \cup M) = Cardinality(T) + Cardinality(M) - Cardinality(T \cap M)
  BY <1>1, FS_Union
<1>3. IsFiniteSet(T \cap M)
  BY <1>1, FS_Subset
<1>4. Cardinality(T) \in Nat /\ Cardinality(M) \in Nat /\ Cardinality(G) \in Nat /\ Cardinality(T \cap M) \in Nat
  BY <1>1, <1>3, FS_CardinalityType
<1>5. IsFiniteSet(S) /\ Cardinality(S) <= Cardinality(T \cup M)
  BY <1>2, FS_Subset
<1>6. Cardinality(S) \in Nat
  BY <1>5, FS_CardinalityType
<1> QED BY <1>1, <1>2, <1>4, <1>5, <1>6

(***************************************************************************)
(* However clients talk at the same time and break off, the whole commands *)
(* that handle_new_file will never act on are no more than the joins in    *)
(* what came, as long as no file is streamed: a join makes one gap in      *)
(* command_buffer, and a cut at a newline either acts on a command or      *)
(* drops a gap.                                                            *)
(***************************************************************************)
THEOREM LossesBounded == Spec => []LossBounded
<1>1. LossIInv => LossBounded
  <2> SUFFICES ASSUME LossIInv, Plain PROVE Cardinality(Lost) <= joins
    BY DEF LossBounded, Plain
  <2>1. LotTypes /\ Counted /\ joins \in Nat
    BY DEF LossIInv, WireIInv, LotTypes
  <2> DEFINE b == command_buffer
             G == Gaps(None, b)
             M == {b[p][1] : p \in G}
             f == [p \in G |-> b[p][1]]
  <2>2. IsFiniteSet(Gone) /\ Cardinality(Gone) \in Nat
    BY <2>1, FewerGone
  <2>3. IsFiniteSet(G) /\ Cardinality(G) \in Nat
    <3>1. b \in Seq(Arrived \X {1, 2})
      BY <2>1 DEF Counted
    <3> QED BY <3>1, GapsFinite
  <2>4. ASSUME NEW k \in Lost, k \notin Gone PROVE k \in M
    <3>1. PICK p \in G : b[p][1] = k
      BY <2>4, LostAtGap
    <3> QED BY <3>1
  <2>5. Lost \subseteq Gone \cup M
    BY <2>4
  <2>6. Cardinality(G) + Cardinality(Gone) <= joins
    BY <2>1 DEF Counted
  <2> HIDE DEF G
  <2>7. f \in Surjection(G, M)
    BY DEF Surjection
  <2> HIDE DEF f, M
  <2>8. Cardinality(Lost) <= Cardinality(Gone) + Cardinality(G)
    BY <2>2, <2>3, <2>5, <2>7, CoverCard
  <2>9. IsFiniteSet(Lost)
    <3>1. IsFiniteSet(Arrived) /\ Lost \subseteq Arrived
      BY <2>1, ArrivedFinite DEF Lost
    <3> QED BY <3>1, FS_Subset
  <2>10. Cardinality(Lost) \in Nat
    BY <2>9, FS_CardinalityType
  <2> QED BY <2>1, <2>2, <2>3, <2>6, <2>8, <2>10
<1> QED BY <1>1, LossInvariance, PTL
=============================================================================
