--------------------------- MODULE CalendarProofs ---------------------------
(***************************************************************************)
(* The calendar, for any day, change of the clocks, step, hours, time off   *)
(* and appointments: sorting, joining, clipping and bisecting offer exactly *)
(* the right slots, and what is booked from them keeps its buffer and its   *)
(* member.                                                                  *)
(***************************************************************************)
EXTENDS Calendar, FiniteSetTheorems, WellFoundedInduction, TLAPS

Pairs == Int \X Int

\* How many of S come before x.
Rank(S, x) == Cardinality({y \in S : Earlier(y, x)})

-----------------------------------------------------------------------------
(* Sorting *)

\* A set of naturals has a least one.
LEMMA Least ==
  ASSUME NEW S, S \subseteq Nat, S # {}
  PROVE  \E x \in S : \A y \in S : x <= y
<1>1. PICK x \in S : \A y \in S : ~ (<<y, x>> \in OpToRel(<, Nat))
  BY NatLessThanWellFounded, WFMin
<1>2. \A y \in S : ~ (y < x)
  BY <1>1 DEF OpToRel
<1> QED
  BY <1>2

\* The order of intervals is strict and total.
LEMMA Order ==
  /\ \A x \in Pairs : ~ Earlier(x, x)
  /\ \A x, y \in Pairs : Earlier(x, y) \/ Earlier(y, x) \/ x = y
  /\ \A x, y, z \in Pairs : Earlier(x, y) /\ Earlier(y, z) => Earlier(x, z)
  BY DEF Earlier, Pairs

\* Of two intervals, the one that comes before has fewer before it.
LEMMA RankGrows ==
  ASSUME NEW S, IsFiniteSet(S), S \subseteq Pairs, NEW x \in S, NEW z \in S, Earlier(x, z)
  PROVE  Rank(S, x) < Rank(S, z)
<1> DEFINE B(w) == {y \in S : Earlier(y, w)}
<1>1. B(x) \subseteq B(z) /\ x \in B(z) /\ x \notin B(x)
  BY Order
<1>2. IsFiniteSet(B(z)) /\ B(x) \in SUBSET B(z)
  BY <1>1, FS_Subset
<1>3. Cardinality(B(x)) <= Cardinality(B(z)) /\ Cardinality(B(x)) # Cardinality(B(z)) /\ IsFiniteSet(B(x))
  BY <1>1, <1>2, FS_Subset
<1>4. Cardinality(B(x)) \in Nat /\ Cardinality(B(z)) \in Nat
  BY <1>2, <1>3, FS_CardinalityType
<1> HIDE DEF B
<1>5. Rank(S, x) = Cardinality(B(x)) /\ Rank(S, z) = Cardinality(B(z))
  BY DEF Rank, B
<1> QED
  BY <1>3, <1>4, <1>5

\* No interval has more before it than there are others.
LEMMA RankBounded ==
  ASSUME NEW S, IsFiniteSet(S), S \subseteq Pairs, NEW x \in S
  PROVE  Rank(S, x) \in 0 .. Cardinality(S) - 1
<1> DEFINE B == {y \in S : Earlier(y, x)}
<1>1. B \in SUBSET S /\ B # S
  BY Order
<1>2. IsFiniteSet(B) /\ Cardinality(B) <= Cardinality(S) /\ Cardinality(B) # Cardinality(S)
  BY <1>1, FS_Subset
<1>3. Cardinality(B) \in Nat /\ Cardinality(S) \in Nat
  BY <1>2, FS_CardinalityType
<1> HIDE DEF B
<1>4. Rank(S, x) = Cardinality(B)
  BY DEF Rank, B
<1> QED
  BY <1>2, <1>3, <1>4

\* Every place has an interval, by the pigeonhole principle.
LEMMA RankTaken ==
  ASSUME NEW S, IsFiniteSet(S), S \subseteq Pairs, NEW n \in 1 .. Cardinality(S)
  PROVE  \E x \in S : Rank(S, x) = n - 1
<1>1. Cardinality(S) \in Nat
  BY FS_CardinalityType
<1> DEFINE f == [x \in S |-> Rank(S, x)]
           T == 0 .. Cardinality(S) - 1
<1>2. f \in [S -> T]
  BY RankBounded
<1>3. ASSUME NEW x \in S, NEW z \in S, x # z PROVE f[x] # f[z]
  <2>1. Earlier(x, z) \/ Earlier(z, x)
    BY <1>3, Order
  <2>2. Rank(S, x) < Rank(S, z) \/ Rank(S, z) < Rank(S, x)
    BY <2>1, RankGrows
  <2>3. Rank(S, x) \in Int /\ Rank(S, z) \in Int
    BY <1>1, RankBounded
  <2> QED
    BY <2>2, <2>3
<1>4. f \in Injection(S, T)
  BY <1>2, <1>3, Zenon DEF Injection, IsInjective
<1>5. IsFiniteSet(T) /\ Cardinality(T) = Cardinality(S)
  <2>1. 0 \in Int /\ Cardinality(S) - 1 \in Int
    BY <1>1
  <2>2. IsFiniteSet(T) /\ Cardinality(T) = IF 0 > Cardinality(S) - 1 THEN 0 ELSE Cardinality(S) - 1 - 0 + 1
    BY <2>1, FS_Interval
  <2> QED
    BY <1>1, <2>2
<1>6. f \in Surjection(S, T)
  BY <1>4, <1>5, FS_Injection
<1>7. \A t \in T : \E x \in S : f[x] = t
  BY <1>6 DEF Surjection
<1>8. n - 1 \in T
  BY <1>1
<1> HIDE DEF T
<1> QED
  BY <1>7, <1>8

\* Sorted lists a set of intervals, from the earliest.
LEMMA SortedLists ==
  ASSUME NEW S, IsFiniteSet(S), S \subseteq Pairs
  PROVE  /\ Sorted(S) \in Seq(S) /\ Len(Sorted(S)) = Cardinality(S) /\ Cardinality(S) \in Nat
         /\ \A i, j \in 1 .. Cardinality(S) :
              i < j => Sorted(S)[i][1] <= Sorted(S)[j][1] /\ Sorted(S)[i] # Sorted(S)[j]
         /\ \A x \in S : \E i \in 1 .. Cardinality(S) : Sorted(S)[i] = x
<1> DEFINE c == Cardinality(S)
           s == Sorted(S)
<1>1. c \in Nat
  BY FS_CardinalityType
<1>2. s = [n \in 1 .. c |-> CHOOSE x \in S : Rank(S, x) = n - 1]
  BY DEF Sorted, Rank
<1>3. ASSUME NEW n \in 1 .. c PROVE s[n] \in S /\ Rank(S, s[n]) = n - 1
  <2>1. s[n] = CHOOSE x \in S : Rank(S, x) = n - 1
    BY <1>2
  <2>2. \E x \in S : Rank(S, x) = n - 1
    BY RankTaken
  <2> QED
    BY <2>1, <2>2, Zenon
<1>4. s \in [1 .. c -> S]
  BY <1>2, <1>3
<1>5. s \in Seq(S) /\ Len(s) = c
  BY <1>1, <1>4
<1>6. ASSUME NEW i \in 1 .. c, NEW j \in 1 .. c, i < j PROVE s[i][1] <= s[j][1] /\ s[i] # s[j]
  <2>1. s[i] \in S /\ s[j] \in S /\ Rank(S, s[i]) = i - 1 /\ Rank(S, s[j]) = j - 1
    BY <1>3
  <2>2. ~ Earlier(s[j], s[i])
    <3> SUFFICES ASSUME Earlier(s[j], s[i]) PROVE FALSE
      OBVIOUS
    <3>1. Rank(S, s[j]) < Rank(S, s[i])
      BY <2>1, RankGrows
    <3> HIDE DEF s
    <3> QED
      BY <3>1, <2>1, <1>6
  <2>3. s[i] \in Pairs /\ s[j] \in Pairs
    BY <2>1
  <2> HIDE DEF s
  <2>4. s[i] # s[j]
    BY <2>1, <1>6
  <2> QED
    BY <2>2, <2>3, <2>4 DEF Earlier, Pairs
<1>7. ASSUME NEW x \in S PROVE \E i \in 1 .. c : s[i] = x
  <2> DEFINE i == Rank(S, x) + 1
  <2>1. i \in 1 .. c
    BY <1>1, RankBounded
  <2>2. s[i] \in S /\ Rank(S, s[i]) = i - 1 /\ Rank(S, x) \in Nat
    BY <2>1, <1>3, <1>1, RankBounded
  <2>3. Rank(S, s[i]) = Rank(S, x)
    BY <2>2
  <2>4. ~ Earlier(s[i], x) /\ ~ Earlier(x, s[i])
    <3>1. Earlier(s[i], x) => Rank(S, s[i]) < Rank(S, x)
      BY <2>2, RankGrows
    <3>2. Earlier(x, s[i]) => Rank(S, x) < Rank(S, s[i])
      BY <2>2, RankGrows
    <3> HIDE DEF s, i
    <3> QED
      BY <3>1, <3>2, <2>2, <2>3
  <2>5. s[i] \in Pairs /\ x \in Pairs
    BY <2>2
  <2> HIDE DEF s
  <2>6. s[i] = x
    BY <2>4, <2>5, Order
  <2> QED
    BY <2>1, <2>6
<1> HIDE DEF s
<1> QED
  BY <1>1, <1>5, <1>6, <1>7 DEF s

-----------------------------------------------------------------------------
(* The loop *)

\* The equation the loop's outcomes satisfy, over the first m intervals.
Outcomes(s, overlap, g, m) ==
  [n \in 0 .. m |-> IF n = 0 THEN <<>> ELSE Join(g[n - 1], s[n], overlap)]

\* It has a solution.
LEMMA LoopExists ==
  ASSUME NEW s, NEW overlap, NEW m \in Nat
  PROVE  \E g : g = Outcomes(s, overlap, g, m)
<1> DEFINE Bad == {k \in Nat : ~ \E g : g = Outcomes(s, overlap, g, k)}
<1> SUFFICES ASSUME Bad # {} PROVE FALSE
  OBVIOUS
<1>1. PICK k \in Bad : \A j \in Bad : k <= j
  BY Least
<1>2. k # 0
  <2> DEFINE g == [n \in 0 .. 0 |-> <<>>]
  <2>1. g = Outcomes(s, overlap, g, 0)
    BY DEF Outcomes
  <2> QED
    BY <2>1
<1>3. k - 1 \in Nat /\ k - 1 \notin Bad
  BY <1>1, <1>2
<1>4. PICK g : g = Outcomes(s, overlap, g, k - 1)
  BY <1>3
<1> DEFINE h == [n \in 0 .. k |-> IF n = k THEN Join(g[k - 1], s[k], overlap) ELSE g[n]]
<1>5. ASSUME NEW n \in 0 .. k PROVE h[n] = IF n = 0 THEN <<>> ELSE Join(h[n - 1], s[n], overlap)
  <2>1. CASE n = 0
    BY <2>1, <1>2, <1>3, <1>4 DEF Outcomes
  <2>2. CASE n # 0
    <3>1. n - 1 \in 0 .. k - 1 /\ n - 1 # k /\ n - 1 \in 0 .. k
      BY <1>3, <2>2
    <3>2. h[n - 1] = g[n - 1]
      BY <3>1
    <3>3. h[n] = IF n = k THEN Join(g[k - 1], s[k], overlap) ELSE g[n]
      OBVIOUS
    <3>4. n # k => n \in 0 .. k - 1
      BY <1>3
    <3>5. n # k => g[n] = Join(g[n - 1], s[n], overlap)
      BY <3>4, <1>4, <2>2 DEF Outcomes
    <3> HIDE DEF h
    <3> QED
      BY <3>2, <3>3, <3>5, <2>2
  <2> QED
    BY <2>1, <2>2
<1>6. h = Outcomes(s, overlap, h, k)
  <2>1. h = [n \in 0 .. k |-> h[n]]
    OBVIOUS
  <2> HIDE DEF h
  <2> QED
    BY <2>1, <1>5, Zenon DEF Outcomes
<1> QED
  BY <1>6

\* So the loop starts with nothing and each iteration joins the next interval to what there is.
LEMMA LoopEquation ==
  ASSUME NEW s, NEW overlap, Len(s) \in Nat
  PROVE  /\ Loop(s, overlap)[0] = <<>>
         /\ \A n \in 1 .. Len(s) : Loop(s, overlap)[n] = Join(Loop(s, overlap)[n - 1], s[n], overlap)
<1>1. Loop(s, overlap) = CHOOSE g : g = Outcomes(s, overlap, g, Len(s))
  BY DEF Loop, Outcomes
<1>2. \E g : g = Outcomes(s, overlap, g, Len(s))
  BY LoopExists
<1>3. Loop(s, overlap) = Outcomes(s, overlap, Loop(s, overlap), Len(s))
  BY <1>1, <1>2
<1> HIDE DEF Loop
<1> DEFINE l == Loop(s, overlap)
<1>4. \A n \in 0 .. Len(s) : l[n] = IF n = 0 THEN <<>> ELSE Join(l[n - 1], s[n], overlap)
  <2>1. PICK g : g = l
    OBVIOUS
  <2>2. g = Outcomes(s, overlap, g, Len(s))
    BY <2>1, <1>3
  <2>3. \A n \in 0 .. Len(s) : g[n] = IF n = 0 THEN <<>> ELSE Join(g[n - 1], s[n], overlap)
    BY <2>2 DEF Outcomes
  <2> QED
    BY <2>1, <2>3
<1>5. 0 \in 0 .. Len(s) /\ \A n \in 1 .. Len(s) : n \in 0 .. Len(s) /\ n # 0
  OBVIOUS
<1> HIDE DEF l
<1>6. l[0] = <<>> /\ \A n \in 1 .. Len(s) : l[n] = Join(l[n - 1], s[n], overlap)
  BY <1>4, <1>5
<1> QED
  BY <1>6 DEF l

\* Max and Min, of two.
LEMMA MaxMin ==
  ASSUME NEW a \in Int, NEW b \in Int
  PROVE  /\ Max({a, b}) = IF a >= b THEN a ELSE b
         /\ Min({a, b}) = IF a <= b THEN a ELSE b
  BY DEF Max, Min

\* What merged() promises: proper intervals, in order and apart.
Apart(list) ==
  /\ list \in Seq(Pairs)
  /\ \A i \in 1 .. Len(list) : list[i][1] < list[i][2]
  /\ \A i, j \in 1 .. Len(list) : i < j => list[i][2] < list[j][1]

During(p, t) == p[1] <= t /\ t < p[2]

CoveredBy(list, t) == \E i \in 1 .. Len(list) : During(list[i], t)

\* An iteration keeps the list apart and covers the next interval too.
LEMMA JoinKeeps ==
  ASSUME NEW out, Apart(out), NEW p \in Pairs, p[1] < p[2], out # <<>> => Last(out)[1] <= p[1]
  PROVE  LET q == Join(out, p, TRUE) IN
         /\ Apart(q) /\ q # <<>> /\ Last(q)[1] <= p[1]
         /\ \A t \in Int : CoveredBy(q, t) <=> CoveredBy(out, t) \/ During(p, t)
<1> DEFINE n == Len(out)
<1>1. out \in Seq(Pairs) /\ n \in Nat /\ (out # <<>> <=> n # 0) /\ p[1] \in Int /\ p[2] \in Int
  BY DEF Apart, Pairs
<1>2. \A i \in 1 .. n : out[i] \in Pairs /\ out[i][1] \in Int /\ out[i][2] \in Int
  BY <1>1 DEF Pairs
<1>3. CASE out # <<>> /\ p[1] <= Last(out)[2]
  <2> DEFINE e == Max({Last(out)[2], p[2]})
             last == <<Last(out)[1], e>>
             q == Join(out, p, TRUE)
  <2>1. n \in 1 .. n /\ Last(out) = out[n]
    BY <1>1, <1>3 DEF Last
  <2>2. out[n][1] \in Int /\ out[n][2] \in Int /\ out[n][1] <= p[1] /\ out[n][1] < out[n][2]
    BY <2>1, <1>2, <1>3 DEF Apart
  <2>3. e = IF out[n][2] >= p[2] THEN out[n][2] ELSE p[2]
    BY <2>1, <2>2, <1>1, MaxMin
  <2>4. e \in Int /\ e >= out[n][2] /\ e >= p[2]
    BY <2>2, <2>3, <1>1
  <2>5. q = [out EXCEPT ![n] = last]
    BY <1>3, <2>1, <2>2, <1>1 DEF Join
  <2> HIDE DEF e
  <2>6. last \in Pairs /\ last[1] = out[n][1] /\ last[2] = e
    BY <2>1, <2>2, <2>4 DEF Pairs
  <2> HIDE DEF last, q
  <2>7. q \in Seq(Pairs) /\ Len(q) = n /\ q[n] = last /\ \A i \in 1 .. n : i # n => q[i] = out[i]
    <3>1. out \in [1 .. n -> Pairs]
      BY <1>1
    <3>2. q \in [1 .. n -> Pairs] /\ q[n] = last /\ \A i \in 1 .. n : i # n => q[i] = out[i]
      BY <3>1, <2>1, <2>5, <2>6
    <3> QED
      BY <3>2, <1>1
  <2>8. q[n][1] = out[n][1] /\ q[n][2] = e
    BY <2>6, <2>7
  <2>9. Apart(q)
    <3>1. ASSUME NEW i \in 1 .. Len(q) PROVE q[i][1] < q[i][2]
      <4>1. CASE i = n
        BY <4>1, <2>8, <2>2, <2>4
      <4>2. CASE i # n
        BY <4>2, <2>7 DEF Apart
      <4> QED
        BY <4>1, <4>2
    <3>2. ASSUME NEW i \in 1 .. Len(q), NEW j \in 1 .. Len(q), i < j PROVE q[i][2] < q[j][1]
      <4>1. i # n /\ q[i] = out[i] /\ q[j][1] = out[j][1] /\ i \in 1 .. n /\ j \in 1 .. n
        BY <3>2, <2>7, <2>8, <1>1
      <4>2. out[i][2] < out[j][1]
        BY <4>1, <3>2 DEF Apart
      <4> QED
        BY <4>1, <4>2
    <3> QED
      BY <3>1, <3>2, <2>7 DEF Apart
  <2>10. q # <<>> /\ Last(q)[1] <= p[1]
    BY <2>1, <2>2, <2>7, <2>8, <1>1 DEF Last
  <2>11. ASSUME NEW t \in Int PROVE CoveredBy(q, t) <=> CoveredBy(out, t) \/ During(p, t)
    <3>1. During(q[n], t) <=> During(out[n], t) \/ During(p, t)
      BY <2>1, <2>2, <2>3, <2>8, <1>1, <1>3 DEF During
    <3>2. \A i \in 1 .. n : i # n => (During(q[i], t) <=> During(out[i], t))
      BY <2>7
    <3> QED
      BY <3>1, <3>2, <2>1, <2>7 DEF CoveredBy
  <2> QED
    BY <2>9, <2>10, <2>11 DEF q
<1>4. CASE ~ (out # <<>> /\ p[1] <= Last(out)[2])
  <2> DEFINE q == Append(out, p)
  <2>1. out # <<>> => n \in 1 .. n /\ Last(out) = out[n] /\ out[n][2] \in Int
    BY <1>1, <1>2 DEF Last
  <2>2. Join(out, p, TRUE) = q
    BY <1>1, <1>4, <2>1 DEF Join
  <2>3. q \in Seq(Pairs) /\ Len(q) = n + 1 /\ q[n + 1] = p /\ \A i \in 1 .. n : q[i] = out[i]
    BY <1>1
  <2> HIDE DEF q
  <2>4. \A i \in 1 .. n : out[i][2] < p[1]
    <3> SUFFICES ASSUME NEW i \in 1 .. n PROVE out[i][2] < p[1]
      OBVIOUS
    <3>1. out[n][2] < p[1] /\ n \in 1 .. n
      BY <1>1, <1>4, <2>1
    <3>2. i # n => out[i][2] < out[n][1] /\ out[n][1] < out[n][2]
      BY <3>1, <1>1 DEF Apart
    <3> QED
      BY <3>1, <3>2, <1>1, <1>2
  <2>5. Apart(q)
    <3>1. ASSUME NEW i \in 1 .. Len(q) PROVE q[i][1] < q[i][2]
      <4>1. i = n + 1 \/ i \in 1 .. n
        BY <2>3, <1>1
      <4> QED
        BY <4>1, <2>3 DEF Apart
    <3>2. ASSUME NEW i \in 1 .. Len(q), NEW j \in 1 .. Len(q), i < j PROVE q[i][2] < q[j][1]
      <4>1. i \in 1 .. n /\ (j = n + 1 \/ j \in 1 .. n)
        BY <2>3, <1>1, <3>2
      <4>2. j \in 1 .. n => out[i][2] < out[j][1]
        BY <4>1, <3>2 DEF Apart
      <4> QED
        BY <4>1, <4>2, <2>3, <2>4
    <3> QED
      BY <3>1, <3>2, <2>3 DEF Apart
  <2>6. q # <<>> /\ Last(q)[1] <= p[1]
    BY <2>3, <1>1 DEF Last
  <2>7. ASSUME NEW t \in Int PROVE CoveredBy(q, t) <=> CoveredBy(out, t) \/ During(p, t)
    <3>1. \A i \in 1 .. n : During(q[i], t) <=> During(out[i], t)
      BY <2>3
    <3>2. 1 .. Len(q) = (1 .. n) \cup {n + 1}
      BY <2>3, <1>1
    <3> QED
      BY <3>1, <3>2, <2>3 DEF CoveredBy
  <2> QED
    BY <2>2, <2>5, <2>6, <2>7
<1> QED
  BY <1>3, <1>4

\* merged() of proper intervals is apart, and covers what they cover.
LEMMA MergedCovers ==
  ASSUME NEW S, IsFiniteSet(S), S \subseteq Pairs, \A x \in S : x[1] < x[2]
  PROVE  /\ Apart(Merged(S))
         /\ \A t \in Int : CoveredBy(Merged(S), t) <=> \E x \in S : During(x, t)
<1> DEFINE c == Cardinality(S)
           s == Sorted(S)
           l == Loop(s, TRUE)
           Good(n) ==
             /\ Apart(l[n])
             /\ n = 0 => l[n] = <<>>
             /\ n # 0 => l[n] # <<>> /\ Last(l[n])[1] <= s[n][1]
             /\ \A t \in Int : CoveredBy(l[n], t) <=> \E i \in 1 .. n : During(s[i], t)
<1>1. /\ s \in Seq(S) /\ Len(s) = c /\ c \in Nat
      /\ \A i, j \in 1 .. c : i < j => s[i][1] <= s[j][1]
      /\ \A x \in S : \E i \in 1 .. c : s[i] = x
  BY SortedLists
<1>2. l[0] = <<>> /\ \A n \in 1 .. c : l[n] = Join(l[n - 1], s[n], TRUE)
  BY <1>1, LoopEquation
<1>3. Merged(S) = l[c]
  BY DEF Merged, Joined
<1>4. \A i \in 1 .. c : s[i] \in S /\ s[i] \in Pairs /\ s[i][1] < s[i][2] /\ s[i][1] \in Int
  <2>1. \A i \in 1 .. c : s[i] \in S
    BY <1>1
  <2> HIDE DEF s, c
  <2> QED
    BY <2>1 DEF Pairs
<1> HIDE DEF s, l, c
<1>5. Good(0)
  BY <1>2 DEF Apart, CoveredBy
<1>6. ASSUME NEW n \in 1 .. c, Good(n - 1) PROVE Good(n)
  <2>1. l[n - 1] # <<>> => Last(l[n - 1])[1] <= s[n][1]
    <3> SUFFICES ASSUME l[n - 1] # <<>> PROVE Last(l[n - 1])[1] <= s[n][1]
      OBVIOUS
    <3>1. n - 1 # 0 /\ n - 1 \in 1 .. c
      BY <1>6, <1>1
    <3>2. Last(l[n - 1])[1] <= s[n - 1][1] /\ s[n - 1][1] <= s[n][1]
      BY <1>6, <3>1, <1>1
    <3>3. Last(l[n - 1]) \in Pairs
      <4>1. l[n - 1] \in Seq(Pairs)
        BY <1>6 DEF Apart
      <4> QED
        BY <4>1 DEF Last
    <3>4. Last(l[n - 1])[1] \in Int /\ s[n - 1][1] \in Int /\ s[n][1] \in Int
      BY <3>1, <3>3, <1>4 DEF Pairs
    <3> QED
      BY <3>2, <3>4
  <2> DEFINE q == Join(l[n - 1], s[n], TRUE)
  <2>2. /\ Apart(q) /\ q # <<>> /\ Last(q)[1] <= s[n][1]
        /\ \A t \in Int : CoveredBy(q, t) <=> CoveredBy(l[n - 1], t) \/ During(s[n], t)
    BY <1>4, <1>6, <2>1, JoinKeeps
  <2>3. l[n] = q
    BY <1>2
  <2>4. 1 .. n = (1 .. n - 1) \cup {n} /\ n # 0
    BY <1>1
  <2> HIDE DEF q
  <2>5. \A t \in Int : CoveredBy(l[n], t) <=> \E i \in 1 .. n : During(s[i], t)
    BY <1>6, <2>2, <2>3, <2>4
  <2> QED
    BY <2>2, <2>3, <2>4, <2>5
<1> HIDE DEF Good
<1>7. Good(c)
  <2> DEFINE Bad == {n \in 0 .. c : ~ Good(n)}
  <2> SUFFICES ASSUME Bad # {} PROVE FALSE
    BY <1>1
  <2>1. PICK n \in Bad : \A j \in Bad : n <= j
    <3>1. Bad \subseteq Nat
      BY <1>1
    <3> HIDE DEF Bad
    <3> QED
      BY <3>1, Least
  <2>2. n \in 1 .. c /\ n - 1 \in 0 .. c
    BY <2>1, <1>1, <1>5
  <2>3. n - 1 \notin Bad
    BY <2>1, <2>2
  <2>4. Good(n - 1)
    BY <2>2, <2>3
  <2> QED
    BY <2>1, <2>2, <2>4, <1>6
<1>8. Apart(l[c]) /\ \A t \in Int : CoveredBy(l[c], t) <=> \E i \in 1 .. c : During(s[i], t)
  BY <1>7 DEF Good
<1>9. ASSUME NEW t \in Int PROVE (\E i \in 1 .. c : During(s[i], t)) <=> \E x \in S : During(x, t)
  BY <1>1, <1>4
<1> QED
  BY <1>3, <1>8, <1>9

\* day_shifts keeps to the times of the shifts.
LEMMA DayShiftsTimes ==
  ASSUME NEW D, D \subseteq Int, NEW S, IsFiniteSet(S), S \subseteq D \X D
  PROVE  DayShifts(S) \subseteq D \X D
<1> DEFINE c == Cardinality(S)
           s == Sorted(S)
           l == Loop(s, FALSE)
<1>1. s \in Seq(S) /\ Len(s) = c /\ c \in Nat
  BY SortedLists DEF Pairs
<1>2. l[0] = <<>> /\ \A n \in 1 .. c : l[n] = Join(l[n - 1], s[n], FALSE)
  BY <1>1, LoopEquation
<1>3. DayShifts(S) = ToSet(l[c])
  BY DEF DayShifts, Joined
<1>4. \A i \in 1 .. c : s[i] \in D \X D
  <2>1. \A i \in 1 .. c : s[i] \in S
    BY <1>1
  <2> HIDE DEF s, c
  <2> QED
    BY <2>1
<1> HIDE DEF s, l, c
<1>5. l[0] \in Seq(D \X D)
  BY <1>2
<1>6. ASSUME NEW n \in 1 .. c, l[n - 1] \in Seq(D \X D) PROVE l[n] \in Seq(D \X D)
  <2>1. PICK o : o = l[n - 1]
    OBVIOUS
  <2>2. PICK p : p = s[n]
    OBVIOUS
  <2>3. o \in Seq(D \X D) /\ p \in D \X D /\ l[n] = Join(o, p, FALSE)
    BY <2>1, <2>2, <1>2, <1>4, <1>6
  <2>4. Append(o, p) \in Seq(D \X D)
    BY <2>3
  <2>5. ASSUME o # <<>> PROVE [o EXCEPT ![Len(o)] = <<Last(o)[1], Max({Last(o)[2], p[2]})>>] \in Seq(D \X D)
    <3>1. Last(o) \in D \X D /\ Len(o) \in 1 .. Len(o)
      BY <2>3, <2>5 DEF Last
    <3>2. Last(o)[1] \in D /\ Last(o)[2] \in D /\ p[2] \in D
      BY <2>3, <3>1
    <3>3. Max({Last(o)[2], p[2]}) \in D
      BY <3>2, MaxMin
    <3>4. PICK e : e = <<Last(o)[1], Max({Last(o)[2], p[2]})>>
      OBVIOUS
    <3>5. e \in D \X D
      BY <3>2, <3>3, <3>4
    <3>6. o \in [1 .. Len(o) -> D \X D] /\ Len(o) \in Nat
      BY <2>3
    <3>7. [o EXCEPT ![Len(o)] = e] \in [1 .. Len(o) -> D \X D]
      BY <3>5, <3>6
    <3> QED
      BY <3>4, <3>6, <3>7
  <2> QED
    BY <2>3, <2>4, <2>5 DEF Join
<1>7. l[c] \in Seq(D \X D)
  <2> DEFINE Bad == {n \in 0 .. c : l[n] \notin Seq(D \X D)}
  <2> SUFFICES ASSUME Bad # {} PROVE FALSE
    BY <1>1
  <2>1. PICK n \in Bad : \A j \in Bad : n <= j
    <3>1. Bad \subseteq Nat
      BY <1>1
    <3> HIDE DEF Bad
    <3> QED
      BY <3>1, Least
  <2>2. n \in 1 .. c /\ n - 1 \in 0 .. c
    BY <2>1, <1>1, <1>5
  <2>3. l[n - 1] \in Seq(D \X D)
    BY <2>1, <2>2
  <2> QED
    BY <2>1, <2>2, <2>3, <1>6
<1> QED
  BY <1>3, <1>7 DEF ToSet

\* overlapping() looks at neighbours, and that is enough: the shifts are in order, and each ends before
\* the next begins.
LEMMA NeighboursSuffice ==
  ASSUME NEW S, IsFiniteSet(S), S \subseteq Pairs, ~ Backwards(S), ~ Overlapping(S)
  PROVE  Separate(S)
<1> DEFINE c == Cardinality(S)
           s == Sorted(S)
<1>1. /\ s \in Seq(S) /\ Len(s) = c /\ c \in Nat
      /\ \A x \in S : \E i \in 1 .. c : s[i] = x
  BY SortedLists
<1>2. \A i \in 1 .. c - 1 : ~ (s[i + 1][1] < s[i][2])
  BY <1>1 DEF Overlapping
<1>3. \A x \in S : x[1] \in Int /\ x[2] \in Int /\ x[1] < x[2]
  BY DEF Backwards, Pairs
<1>4. \A i \in 1 .. c : s[i] \in S
  BY <1>1
<1> HIDE DEF s, c
<1>5. ASSUME NEW i \in 1 .. c, NEW j \in 1 .. c, i < j PROVE s[i][2] <= s[j][1]
  <2> DEFINE Bad == {m \in 1 .. c : i < m /\ ~ (s[i][2] <= s[m][1])}
  <2> SUFFICES ASSUME Bad # {} PROVE FALSE
    BY <1>5
  <2>1. PICK m \in Bad : \A n \in Bad : m <= n
    <3>1. Bad \subseteq Nat
      BY <1>1
    <3> HIDE DEF Bad
    <3> QED
      BY <3>1, Least
  <2>2. m \in 1 .. c /\ i < m /\ m - 1 \in 1 .. c - 1 /\ m - 1 \in 1 .. c /\ (m - 1) + 1 = m
    BY <1>1, <2>1
  <2>3. ~ (s[m][1] < s[m - 1][2])
    BY <1>2, <2>2
  <2>4. m - 1 \notin Bad
    BY <2>1, <2>2
  <2>5. i # m - 1 => s[i][2] <= s[m - 1][1]
    BY <2>2, <2>4, <1>1
  <2>6. /\ s[i][2] \in Int /\ s[m][1] \in Int /\ s[m - 1][1] \in Int /\ s[m - 1][2] \in Int
        /\ s[m - 1][1] < s[m - 1][2]
    BY <1>3, <1>4, <2>2
  <2> QED
    BY <2>1, <2>3, <2>5, <2>6
<1>6. ASSUME NEW v \in S, NEW w \in S, v # w PROVE v[2] <= w[1] \/ w[2] <= v[1]
  <2>1. PICK i \in 1 .. c, j \in 1 .. c : s[i] = v /\ s[j] = w
    BY <1>1
  <2>2. i < j \/ j < i
    BY <1>6, <1>1, <2>1
  <2> QED
    BY <1>5, <2>1, <2>2
<1> QED
  BY <1>3, <1>6 DEF Separate

\* Of shifts that do not overlap, day_shifts joins what merged() would: those that touch.
LEMMA SeparateJoined ==
  ASSUME NEW S, IsFiniteSet(S), S \subseteq Pairs, Separate(S)
  PROVE  Joined(S, FALSE) = Merged(S)
<1> DEFINE c == Cardinality(S)
           s == Sorted(S)
           f == Loop(s, FALSE)
           l == Loop(s, TRUE)
           Good(n) ==
             /\ f[n] = l[n] /\ l[n] \in Seq(Pairs)
             /\ n = 0 => l[n] = <<>>
             /\ n # 0 => l[n] # <<>> /\ Last(l[n])[2] = s[n][2]
<1>1. /\ s \in Seq(S) /\ Len(s) = c /\ c \in Nat
      /\ \A i, j \in 1 .. c : i < j => s[i][1] <= s[j][1] /\ s[i] # s[j]
  BY SortedLists
<1>2. /\ l[0] = <<>> /\ \A n \in 1 .. c : l[n] = Join(l[n - 1], s[n], TRUE)
      /\ f[0] = <<>> /\ \A n \in 1 .. c : f[n] = Join(f[n - 1], s[n], FALSE)
  BY <1>1, LoopEquation
<1>3. Merged(S) = l[c] /\ Joined(S, FALSE) = f[c]
  BY DEF Merged, Joined
<1>4. \A i \in 1 .. c : s[i] \in S
  BY <1>1
<1> HIDE DEF s, l, f, c
<1>5. \A i \in 1 .. c : s[i] \in Pairs /\ s[i][1] \in Int /\ s[i][2] \in Int /\ s[i][1] < s[i][2]
  BY <1>4 DEF Pairs, Separate
<1>6. Good(0)
  BY <1>2
<1>7. ASSUME NEW n \in 1 .. c, Good(n - 1) PROVE Good(n)
  <2>1. PICK o, p : o = l[n - 1] /\ p = s[n]
    OBVIOUS
  <2>2. p \in Pairs /\ p[1] \in Int /\ p[2] \in Int /\ p[1] < p[2] /\ o \in Seq(Pairs)
    BY <1>5, <1>7, <2>1
  <2>3. l[n] = Join(o, p, TRUE) /\ f[n] = Join(o, p, FALSE) /\ n # 0
    <3>1. f[n - 1] = o /\ l[n - 1] = o /\ s[n] = p
      BY <1>7, <2>1
    <3>2. l[n] = Join(l[n - 1], s[n], TRUE) /\ f[n] = Join(f[n - 1], s[n], FALSE)
      BY <1>2, Zenon
    <3>3. n # 0
      BY <1>1
    <3> QED
      BY <3>1, <3>2, <3>3, Zenon
  <2>4. o # <<>> => Last(o)[1] \in Int /\ Last(o)[2] \in Int /\ Last(o)[2] <= p[1]
    <3> SUFFICES ASSUME o # <<>> PROVE Last(o)[1] \in Int /\ Last(o)[2] \in Int /\ Last(o)[2] <= p[1]
      OBVIOUS
    <3>1. n - 1 \in 1 .. c /\ n - 1 < n /\ Last(o)[2] = s[n - 1][2]
      BY <1>1, <1>7, <2>1
    <3>2. s[n - 1][1] <= s[n][1] /\ s[n - 1] # s[n] /\ s[n - 1] \in S /\ s[n] \in S
      BY <1>1, <1>4, <3>1
    <3>3. s[n - 1][2] <= s[n][1] \/ s[n][2] <= s[n - 1][1]
      BY <3>2 DEF Separate
    <3>4. Last(o) \in Pairs
      BY <2>2 DEF Last
    <3>5. s[n - 1][1] \in Int /\ s[n - 1][2] \in Int
      BY <1>5, <3>1
    <3> QED
      BY <2>1, <2>2, <3>1, <3>2, <3>3, <3>4, <3>5 DEF Pairs
  <2>5. CASE o # <<>> /\ p[1] = Last(o)[2]
    <3>1. PICK e : e = <<Last(o)[1], p[2]>>
      OBVIOUS
    <3>2. e \in Pairs /\ e[2] = p[2]
      BY <2>2, <2>4, <2>5, <3>1 DEF Pairs
    <3>3. Max({Last(o)[2], p[2]}) = p[2]
      BY <2>2, <2>4, <2>5, MaxMin
    <3>4. l[n] = [o EXCEPT ![Len(o)] = e] /\ f[n] = [o EXCEPT ![Len(o)] = e]
      BY <2>3, <2>5, <3>1, <3>3 DEF Join
    <3>5. o \in [1 .. Len(o) -> Pairs] /\ Len(o) \in Nat /\ Len(o) \in 1 .. Len(o)
      BY <2>2, <2>5
    <3>6. l[n] \in [1 .. Len(o) -> Pairs] /\ l[n][Len(o)] = e
      BY <3>2, <3>4, <3>5
    <3>7. l[n] \in Seq(Pairs) /\ Len(l[n]) = Len(o) /\ l[n] # <<>>
      BY <3>5, <3>6
    <3>8. Last(l[n]) = e
      BY <3>6, <3>7 DEF Last
    <3> QED
      BY <2>1, <2>3, <3>2, <3>4, <3>7, <3>8
  <2>6. CASE ~ (o # <<>> /\ p[1] = Last(o)[2])
    <3>1. l[n] = Append(o, p) /\ f[n] = Append(o, p)
      BY <2>2, <2>3, <2>4, <2>6 DEF Join
    <3>2. l[n] \in Seq(Pairs) /\ Len(l[n]) = Len(o) + 1 /\ Len(o) \in Nat /\ l[n][Len(o) + 1] = p
      BY <2>2, <3>1
    <3>3. l[n] # <<>> /\ Last(l[n]) = p
      BY <3>2 DEF Last
    <3> QED
      BY <2>1, <2>3, <3>1, <3>2, <3>3
  <2> QED
    BY <2>5, <2>6
<1> HIDE DEF Good
<1>8. Good(c)
  <2> DEFINE Bad == {n \in 0 .. c : ~ Good(n)}
  <2> SUFFICES ASSUME Bad # {} PROVE FALSE
    BY <1>1
  <2>1. PICK n \in Bad : \A j \in Bad : n <= j
    <3>1. Bad \subseteq Nat
      BY <1>1
    <3> HIDE DEF Bad
    <3> QED
      BY <3>1, Least
  <2>2. n \in 1 .. c /\ n - 1 \in 0 .. c
    BY <2>1, <1>1, <1>6
  <2>3. Good(n - 1)
    BY <2>1, <2>2
  <2> QED
    BY <2>1, <2>2, <2>3, <1>7
<1> QED
  BY <1>3, <1>8 DEF Good

\* So the joined shifts of a day are apart: no two of them even touch.
LEMMA DayShiftsApart ==
  ASSUME NEW S, IsFiniteSet(S), S \subseteq Pairs, Separate(S),
         NEW p \in DayShifts(S), NEW q \in DayShifts(S), p # q
  PROVE  p[2] < q[1] \/ q[2] < p[1]
<1>1. \A x \in S : x[1] < x[2]
  BY DEF Separate
<1>2. PICK list : list = Merged(S) /\ Apart(list)
  BY <1>1, MergedCovers
<1>3. DayShifts(S) = {list[i] : i \in DOMAIN list} /\ DOMAIN list = 1 .. Len(list) /\ Len(list) \in Nat
  <2>1. DayShifts(S) = ToSet(list)
    BY <1>2, SeparateJoined DEF DayShifts
  <2>2. list \in Seq(Pairs)
    BY <1>2 DEF Apart
  <2> QED
    BY <2>1, <2>2 DEF ToSet
<1>4. PICK i \in 1 .. Len(list), j \in 1 .. Len(list) : p = list[i] /\ q = list[j]
  BY <1>3
<1>5. i < j \/ j < i
  BY <1>3, <1>4
<1> QED
  BY <1>2, <1>4, <1>5 DEF Apart

\* Bisecting a list that is apart by its ends finds whether it meets [from, to).
LEMMA OverlapsMeets ==
  ASSUME NEW list, Apart(list), NEW from \in Int, NEW to \in Int, from < to
  PROVE  Overlaps(list, from, to) <=> \E t \in from .. to - 1 : CoveredBy(list, t)
<1> DEFINE n == Len(list)
           B == {j \in DOMAIN list : list[j][2] <= from}
           M == {i \in 1 .. n + 1 : i = n + 1 \/ ~ (list[i][2] <= from)}
<1>1. n \in Nat /\ DOMAIN list = 1 .. n /\ \A i \in 1 .. n : list[i][1] \in Int /\ list[i][2] \in Int
  BY DEF Apart, Pairs
<1>2. PICK m \in M : \A i \in M : m <= i
  <2>1. M \subseteq Nat /\ n + 1 \in M
    BY <1>1
  <2> QED
    BY <2>1, Least
<1>3. m \in 1 .. n + 1 /\ (m <= n => from < list[m][2])
  BY <1>1, <1>2
<1>4. \A j \in 1 .. n : j < m => list[j][2] <= from
  BY <1>1, <1>2
<1>5. \A j \in 1 .. n : j >= m => list[m][1] <= list[j][1] /\ from < list[j][2]
  <2> SUFFICES ASSUME NEW j \in 1 .. n, j >= m PROVE list[m][1] <= list[j][1] /\ from < list[j][2]
    OBVIOUS
  <2>1. m \in 1 .. n /\ list[m][1] < list[m][2] /\ list[j][1] < list[j][2]
    BY <1>1, <1>3 DEF Apart
  <2>2. m < j => list[m][2] < list[j][1]
    BY <2>1 DEF Apart
  <2> QED
    BY <1>1, <1>3, <2>1, <2>2
<1>6. B = 1 .. m - 1
  BY <1>1, <1>3, <1>4, <1>5
<1>7. Cardinality(B) + 1 = m
  <2>1. 1 \in Int /\ m - 1 \in Int
    BY <1>3
  <2>2. Cardinality(1 .. m - 1) = IF 1 > m - 1 THEN 0 ELSE m - 1 - 1 + 1
    BY <2>1, FS_Interval
  <2> HIDE DEF B
  <2> QED
    BY <1>3, <1>6, <2>2
<1>8. Overlaps(list, from, to) <=> m <= n /\ list[m][1] < to
  BY <1>7 DEF Overlaps
<1> HIDE DEF B, M
<1>9. ASSUME m <= n, list[m][1] < to PROVE \E t \in from .. to - 1 : CoveredBy(list, t)
  <2> DEFINE t == IF from >= list[m][1] THEN from ELSE list[m][1]
  <2>1. m \in 1 .. n /\ list[m][1] < list[m][2]
    BY <1>1, <1>3, <1>9 DEF Apart
  <2>2. t \in from .. to - 1 /\ During(list[m], t)
    BY <2>1, <1>1, <1>3, <1>9 DEF During
  <2> HIDE DEF t
  <2> QED
    BY <2>1, <2>2 DEF CoveredBy
<1>10. ASSUME NEW t \in from .. to - 1, CoveredBy(list, t) PROVE m <= n /\ list[m][1] < to
  <2>1. PICK j \in 1 .. n : list[j][1] <= t /\ t < list[j][2]
    BY <1>10 DEF CoveredBy, During
  <2>2. j >= m
    BY <2>1, <1>1, <1>3, <1>4
  <2>3. list[m][1] <= list[j][1]
    BY <2>2, <1>5
  <2>4. m \in 1 .. n /\ t \in Int /\ t < to
    BY <2>2, <1>1, <1>3
  <2>5. list[m][1] \in Int /\ list[j][1] \in Int
    BY <2>4, <1>1
  <2> QED
    BY <2>1, <2>3, <2>4, <2>5
<1> QED
  BY <1>8, <1>9, <1>10

-----------------------------------------------------------------------------
(* The clock and the grid *)

\* Whole numbers of steps.
LEMMA Multiples ==
  ASSUME NEW n \in Nat \ {0}
  PROVE  /\ \A k \in Int : k * n \in Int /\ (k * n) % n = 0
         /\ \A x \in Int : x % n = 0 => \E k \in Int : x = k * n
<1>1. ASSUME NEW k \in Int PROVE k * n \in Int /\ (k * n) % n = 0
  OBVIOUS
<1>2. ASSUME NEW x \in Int, x % n = 0 PROVE \E k \in Int : x = k * n
  <2>1. x \div n \in Int /\ x = n * (x \div n) + (x % n)
    OBVIOUS
  <2> QED
    BY <2>1, <1>2
<1> QED
  BY <1>1, <1>2

\* One more step is a step more.
LEMMA StepsGrow ==
  ASSUME NEW n \in Nat \ {0}, NEW j \in Int, NEW k \in Int
  PROVE  /\ (j + k) * n = j * n + k * n /\ (j - k) * n = j * n - k * n
         /\ j < k <=> j * n < k * n
         /\ j < k => j * n + n <= k * n
<1>1. (j + k) * n = j * n + k * n /\ (j - k) * n = j * n - k * n
  OBVIOUS
<1>2. ASSUME NEW a \in Int, NEW b \in Int, a < b PROVE a * n + n <= b * n
  <2>1. PICK d \in Nat : b = a + 1 + d
    <3>1. b - a - 1 \in Nat /\ b = a + 1 + (b - a - 1)
      BY <1>2
    <3> QED
      BY <3>1
  <2>2. b * n = a * n + n + d * n /\ d * n \in Nat /\ a * n \in Int
    BY <2>1
  <2> QED
    BY <2>2
<1>3. j < k => j * n + n <= k * n
  BY <1>2
<1>4. k < j => k * n + n <= j * n
  BY <1>2
<1>5. j * n \in Int /\ k * n \in Int
  OBVIOUS
<1> QED
  BY <1>1, <1>3, <1>4, <1>5

\* The sum and the difference of two times on the grid are on it.
LEMMA GridSums ==
  ASSUME NEW x \in Int, NEW y \in Int, y % Step = 0
  PROVE  (x + y) % Step = 0 <=> x % Step = 0
<1>1. Step \in Nat \ {0}
  BY CalendarAssumption
<1>2. PICK j \in Int : y = j * Step
  BY <1>1, Multiples
<1>3. ASSUME x % Step = 0 PROVE (x + y) % Step = 0
  <2>1. PICK k \in Int : x = k * Step
    BY <1>1, <1>3, Multiples
  <2>2. x + y = (k + j) * Step
    BY <1>1, <1>2, <2>1, StepsGrow
  <2>3. k + j \in Int
    OBVIOUS
  <2>4. ((k + j) * Step) % Step = 0
    BY <1>1, <2>3, Multiples
  <2> QED
    BY <2>2, <2>4, Zenon
<1>4. ASSUME (x + y) % Step = 0 PROVE x % Step = 0
  <2>1. PICK k \in Int : x + y = k * Step
    BY <1>1, <1>4, Multiples
  <2>2. x = (k - j) * Step
    BY <1>1, <1>2, <2>1, StepsGrow
  <2>3. k - j \in Int
    OBVIOUS
  <2>4. ((k - j) * Step) % Step = 0
    BY <1>1, <2>3, Multiples
  <2> QED
    BY <2>2, <2>4, Zenon
<1> QED
  BY <1>3, <1>4

\* The least whole number of steps from a time on: nothing on the grid is between it and that time.
LEMMA NextOnGrid ==
  ASSUME NEW x \in Int, NEW f \in Int, f % Step = 0, f < x + Step, NEW s \in Int, s % Step = 0, x <= s
  PROVE  f <= s
<1>1. Step \in Nat \ {0}
  BY CalendarAssumption
<1>2. PICK j \in Int, k \in Int : f = j * Step /\ s = k * Step
  BY <1>1, Multiples
<1>3. k < j => k * Step + Step <= j * Step
  BY <1>1, StepsGrow
<1>4. k < j \/ j <= k
  OBVIOUS
<1>5. j < k => j * Step < k * Step
  BY <1>1, StepsGrow
<1> QED
  BY <1>1, <1>2, <1>3, <1>4, <1>5

\* anchor: a shift's start rounded up to the step.
LEMMA AnchorRoundsUp ==
  ASSUME NEW x \in Int
  PROVE  Anchor(x) \in Int /\ Anchor(x) % Step = 0 /\ x <= Anchor(x) /\ Anchor(x) < x + Step
<1>1. Step \in Nat \ {0}
  BY CalendarAssumption
<1>2. PICK q \in Int : q = (x + Step - 1) \div Step
  BY <1>1
<1>3. PICK r \in 0 .. Step - 1 : x + Step - 1 = q * Step + r
  <2>1. (x + Step - 1) % Step \in 0 .. Step - 1
    BY <1>1
  <2>2. x + Step - 1 = q * Step + ((x + Step - 1) % Step)
    BY <1>1, <1>2
  <2> QED
    BY <2>1, <2>2
<1>4. Anchor(x) = q * Step
  BY <1>2 DEF Anchor
<1>5. q * Step \in Int /\ (q * Step) % Step = 0
  BY <1>1, Multiples
<1> QED
  BY <1>1, <1>3, <1>4, <1>5

\* Counting in steps from opens + (t - opens) % Step visits what is on the grid from opens on.
LEMMA GridFrom ==
  ASSUME NEW opens \in Int, NEW t \in Int, t % Step = 0, NEW end \in Int, NEW s \in Int
  PROVE  LET first == opens + ((t - opens) % Step) IN
         s \in first .. end /\ (s - first) % Step = 0 <=> opens <= s /\ s <= end /\ s % Step = 0
<1>1. Step \in Nat \ {0}
  BY CalendarAssumption
<1>2. PICK r \in 0 .. Step - 1 : r = (t - opens) % Step
  BY <1>1
<1>3. PICK q \in Int : t - opens = q * Step + r
  <2>1. (t - opens) \div Step \in Int /\ t - opens = ((t - opens) \div Step) * Step + ((t - opens) % Step)
    BY <1>1
  <2> QED
    BY <1>2, <2>1
<1>4. PICK f \in Int : f = opens + r
  BY <1>1
<1>5. f % Step = 0
  <2>1. t = f + q * Step /\ q * Step \in Int
    BY <1>1, <1>3, <1>4
  <2>2. (q * Step) % Step = 0
    BY <1>1, Multiples
  <2> QED
    BY <2>1, <2>2, GridSums
<1>6. (s - f) % Step = 0 <=> s % Step = 0
  <2>1. s - f \in Int /\ (s - f) + f = s
    OBVIOUS
  <2> QED
    BY <1>5, <2>1, GridSums
<1>7. s % Step = 0 /\ opens <= s => f <= s
  BY <1>1, <1>4, <1>5, NextOnGrid
<1>8. opens <= f
  BY <1>1, <1>4
<1> QED
  BY <1>2, <1>4, <1>6, <1>7, <1>8

\* The change of the clocks, as an assumption gives it.
LEMMA JumpFacts ==
  ASSUME jump \in Jumps
  PROVE  /\ Day \in Nat /\ Step \in Nat \ {0}
         /\ jump.at \in 0 .. Day /\ jump.by \in Int /\ jump.at + jump.by \in 0 .. Day /\ jump.by < Day
         /\ jump.at % Step = 0 /\ jump.by % Step = 0
  BY CalendarAssumption

\* The least of a set.
LEMMA MinIs ==
  ASSUME NEW S, S \subseteq Int, NEW m \in S, \A y \in S : m <= y
  PROVE  Min(S) = m
<1>1. PICK z : z = Min(S)
  OBVIOUS
<1>2. z \in S /\ \A y \in S : z <= y
  BY <1>1, Zenon DEF Min
<1>3. z \in Int /\ m \in Int /\ z <= m /\ m <= z
  BY <1>2
<1>4. z = m
  BY <1>3
<1> QED
  BY <1>1, <1>4

\* The instant of a local time, without the search.
UtcOf(x) ==
  IF x < jump.at THEN x ELSE IF jump.at >= x - jump.by THEN jump.at ELSE x - jump.by

\* to_utc finds it, on either kind of day.
LEMMA ToUtcIs ==
  ASSUME jump \in Jumps, NEW x \in 0 .. Day
  PROVE  ToUtc(x) = UtcOf(x) /\ UtcOf(x) \in Instants
<1> DEFINE a == jump.at
           b == jump.by
           u == UtcOf(x)
           w == Wall(u)
           A == {Wall(i) : i \in {j \in Instants : Wall(j) >= x}}
           C == {i \in Instants : Wall(i) = w}
<1>1. Day \in Nat /\ a \in 0 .. Day /\ b \in Int /\ a + b \in 0 .. Day /\ b < Day
  BY JumpFacts
<1>2. Instants = 0 .. Day - b /\ \A i \in Int : Wall(i) = IF i < a THEN i ELSE i + b
  BY DEF Instants, Wall
<1>3. u = IF x < a THEN x ELSE IF a >= x - b THEN a ELSE x - b
  BY DEF UtcOf
<1> HIDE DEF a, b, u, A, C
<1>4. u \in 0 .. Day - b
  BY <1>1, <1>3
<1>5. w = IF u < a THEN u ELSE u + b
  BY <1>2, <1>4
<1> HIDE DEF w
<1>6. w \in Int /\ w >= x
  BY <1>1, <1>3, <1>4, <1>5
<1>7. \A i \in 0 .. Day - b : Wall(i) \in Int /\ (Wall(i) >= x => w <= Wall(i)) /\ (Wall(i) = w => u <= i)
  BY <1>1, <1>2, <1>3, <1>4, <1>5
<1>8. Min(A) = w
  <2>1. A \subseteq Int /\ w \in A /\ \A y \in A : w <= y
    BY <1>2, <1>4, <1>6, <1>7 DEF A, w
  <2> QED
    BY <2>1, MinIs
<1>9. Min(C) = u
  <2>1. C \subseteq Int /\ u \in C /\ \A y \in C : u <= y
    BY <1>1, <1>2, <1>4, <1>7 DEF C, w
  <2> QED
    BY <2>1, MinIs
<1>10. ToUtc(x) = u
  <2>1. ToUtc(x) = Min({i \in Instants : Wall(i) = Min(A)})
    BY DEF ToUtc, A
  <2> QED
    BY <2>1, <1>8, <1>9 DEF C
<1> QED
  BY <1>2, <1>4, <1>10 DEF u

\* to_utc never decreases as the wall clock moves on.
LEMMA UtcGrows ==
  ASSUME jump \in Jumps, NEW x \in Int, NEW y \in Int, x <= y
  PROVE  UtcOf(x) \in Int /\ UtcOf(y) \in Int /\ UtcOf(x) <= UtcOf(y)
  BY JumpFacts DEF UtcOf

\* What the clock shows is on the grid where the instant is.
LEMMA WallOnGrid ==
  ASSUME jump \in Jumps, NEW s \in Int
  PROVE  Wall(s) % Step = 0 <=> s % Step = 0
<1>1. (s + jump.by) % Step = 0 <=> s % Step = 0
  BY JumpFacts, GridSums
<1> QED
  BY <1>1 DEF Wall

\* The instant of a local time on the grid is on it.
LEMMA UtcOnGrid ==
  ASSUME jump \in Jumps, NEW x \in Int, x % Step = 0
  PROVE  UtcOf(x) % Step = 0
<1>1. jump.at % Step = 0 /\ jump.by % Step = 0 /\ jump.at \in Int /\ jump.by \in Int
  BY JumpFacts
<1>2. (x - jump.by) % Step = 0
  <2>1. x - jump.by \in Int /\ (x - jump.by) + jump.by = x
    BY <1>1
  <2> QED
    BY <1>1, <2>1, GridSums
<1> QED
  BY <1>1, <1>2 DEF UtcOf

\* No start on the grid fits a shift whose anchor is past midnight.
LEMMA AnchorPast ==
  ASSUME jump \in Jumps, NEW x \in 0 .. Day - 1, NEW y \in 0 .. Day - 1, Anchor(x) >= Day,
         NEW s \in Int, s % Step = 0, UtcOf(x) <= s
  PROVE  UtcOf(y) <= s
<1> DEFINE a == jump.at
           b == jump.by
<1>1. /\ Day \in Nat /\ a \in 0 .. Day /\ b \in Int /\ a + b \in 0 .. Day /\ b < Day
      /\ a % Step = 0 /\ b % Step = 0
  BY JumpFacts
<1>2. Anchor(x) \in Int /\ Anchor(x) % Step = 0 /\ x <= Anchor(x) /\ Anchor(x) < x + Step
  BY AnchorRoundsUp
<1>3. \A z \in Int : z % Step = 0 /\ x <= z => Day <= z
  <2> SUFFICES ASSUME NEW z \in Int, z % Step = 0, x <= z PROVE Day <= z
    OBVIOUS
  <2>1. Anchor(x) <= z
    BY <1>2, NextOnGrid
  <2> QED
    BY <2>1, <1>1, <1>2
<1>4. UtcOf(x) = IF x < a THEN x ELSE IF a >= x - b THEN a ELSE x - b
  BY DEF UtcOf
<1>5. UtcOf(y) = IF y < a THEN y ELSE IF a >= y - b THEN a ELSE y - b
  BY DEF UtcOf
<1>6. (s + b) % Step = 0 /\ s + b \in Int
  <2>1. b \in Int /\ b % Step = 0
    BY <1>1
  <2> HIDE DEF b
  <2>2. (s + b) % Step = 0 <=> s % Step = 0
    BY <2>1, GridSums
  <2> QED
    BY <2>1, <2>2
<1> HIDE DEF a, b
<1>7. CASE x < a
  <2>1. Day <= s /\ Day <= a
    BY <1>1, <1>3, <1>4, <1>7
  <2> QED
    BY <2>1, <1>1, <1>5
<1>8. CASE ~ (x < a)
  <2>1. s >= a /\ s + b >= x
    BY <1>1, <1>4, <1>8
  <2>2. Day <= s + b
    BY <2>1, <1>3, <1>6
  <2> QED
    BY <2>1, <2>2, <1>1, <1>5
<1> QED
  BY <1>7, <1>8

\* The walk of a shift visits every start on the clock's grid that fits it, over a repeated hour too.
LEMMA GridVisits ==
  ASSUME jump \in Jumps, NEW shift \in (0 .. Day - 1) \X (0 .. Day - 1), NEW length \in Nat \ {0}, NEW s \in Int
  PROVE  s \in Grid(shift, length) <=>
           /\ ToUtc(shift[1]) <= s /\ s + length <= ToUtc(shift[2])
           /\ Wall(s) % Step = 0
<1>1. PICK x \in 0 .. Day - 1, y \in 0 .. Day - 1 : shift = <<x, y>>
  OBVIOUS
<1>2. Day \in Nat /\ Step \in Nat \ {0} /\ x \in 0 .. Day /\ y \in 0 .. Day
  BY JumpFacts
<1>3. ToUtc(x) = UtcOf(x) /\ ToUtc(y) = UtcOf(y) /\ UtcOf(x) \in Int /\ UtcOf(y) \in Int
  BY <1>2, ToUtcIs, UtcGrows
<1>4. Wall(s) % Step = 0 <=> s % Step = 0
  BY WallOnGrid
<1>5. CASE Anchor(x) >= Day
  <2>1. s \notin Grid(shift, length)
    BY <1>1, <1>5 DEF Grid
  <2>2. s % Step = 0 /\ UtcOf(x) <= s => UtcOf(y) <= s
    BY <1>5, AnchorPast
  <2> QED
    BY <1>1, <1>3, <1>4, <2>1, <2>2
<1>6. CASE ~ (Anchor(x) >= Day) /\ UtcOf(y) <= UtcOf(x)
  <2>1. s \notin Grid(shift, length)
    BY <1>1, <1>3, <1>6 DEF Grid
  <2> QED
    BY <1>1, <1>3, <1>6, <2>1
<1>7. CASE ~ (Anchor(x) >= Day) /\ ~ (UtcOf(y) <= UtcOf(x))
  <2>1. Anchor(x) \in Int /\ Anchor(x) % Step = 0 /\ x <= Anchor(x)
    BY AnchorRoundsUp
  <2>2. Anchor(x) \in 0 .. Day
    BY <2>1, <1>2, <1>7
  <2>3. PICK t \in Int : t = ToUtc(Anchor(x)) /\ t % Step = 0
    BY <2>1, <2>2, ToUtcIs, UtcGrows, UtcOnGrid
  <2>4. PICK opens \in Int, end \in Int : opens = ToUtc(x) /\ end = ToUtc(y) - length
    BY <1>3
  <2> DEFINE first == opens + ((t - opens) % Step)
  <2>5. Grid(shift, length) = {z \in first .. end : (z - first) % Step = 0}
    BY <1>1, <1>3, <1>7, <2>3, <2>4 DEF Grid
  <2>6. s \in first .. end /\ (s - first) % Step = 0 <=> opens <= s /\ s <= end /\ s % Step = 0
    BY <2>3, GridFrom
  <2>7. s \in Grid(shift, length) <=> s \in first .. end /\ (s - first) % Step = 0
    BY <2>5
  <2> HIDE DEF first
  <2>8. s <= end <=> s + length <= ToUtc(y)
    BY <2>4, <1>3
  <2> QED
    BY <1>1, <1>4, <2>4, <2>6, <2>7, <2>8
<1> QED
  BY <1>5, <1>6, <1>7

-----------------------------------------------------------------------------
(* What is free *)

\* Two spans of time have an instant in common, or one ends before the other begins.
Before(p, from, to) == p[2] <= from \/ to <= p[1]

\* Bisecting what is merged finds a span free where each interval ends before or begins after it.
LEMMA FreeByBisection ==
  ASSUME NEW S, IsFiniteSet(S), S \subseteq Pairs, \A x \in S : x[1] < x[2],
         NEW from \in Int, NEW to \in Int, from < to
  PROVE  ~ Overlaps(Merged(S), from, to) <=> \A x \in S : Before(x, from, to)
<1>1. /\ Apart(Merged(S))
      /\ \A t \in Int : CoveredBy(Merged(S), t) <=> \E x \in S : During(x, t)
  BY MergedCovers
<1>2. Overlaps(Merged(S), from, to) <=> \E t \in from .. to - 1 : CoveredBy(Merged(S), t)
  BY <1>1, OverlapsMeets
<1>3. Overlaps(Merged(S), from, to) <=> \E t \in from .. to - 1 : \E x \in S : During(x, t)
  BY <1>1, <1>2
<1>4. ASSUME NEW x \in S PROVE (\E t \in from .. to - 1 : During(x, t)) <=> ~ Before(x, from, to)
  <2>1. x[1] \in Int /\ x[2] \in Int /\ x[1] < x[2]
    BY DEF Pairs
  <2>2. ASSUME ~ Before(x, from, to) PROVE \E t \in from .. to - 1 : During(x, t)
    <3> DEFINE t == IF from >= x[1] THEN from ELSE x[1]
    <3>1. t \in from .. to - 1 /\ During(x, t)
      BY <2>1, <2>2 DEF Before, During
    <3> HIDE DEF t
    <3> QED
      BY <3>1
  <2>3. ASSUME NEW t \in from .. to - 1, During(x, t) PROVE ~ Before(x, from, to)
    BY <2>1, <2>3 DEF Before, During
  <2> QED
    BY <2>2, <2>3
<1> QED
  BY <1>3, <1>4

\* The same by looking at every instant.
LEMMA FreeByInstants ==
  ASSUME NEW S, S \subseteq Pairs, \A x \in S : x[1] < x[2], NEW from \in Int, NEW to \in Int, from < to
  PROVE  (from .. to - 1) \cap UNION {Points(x) : x \in S} = {} <=> \A x \in S : Before(x, from, to)
<1>1. ASSUME NEW x \in S PROVE (from .. to - 1) \cap Points(x) = {} <=> Before(x, from, to)
  <2>1. x[1] \in Int /\ x[2] \in Int /\ x[1] < x[2]
    BY DEF Pairs
  <2>2. ASSUME ~ Before(x, from, to) PROVE (from .. to - 1) \cap Points(x) # {}
    <3> DEFINE t == IF from >= x[1] THEN from ELSE x[1]
    <3>1. t \in from .. to - 1 /\ t \in Points(x)
      BY <2>1, <2>2 DEF Before, Points
    <3> HIDE DEF t
    <3> QED
      BY <3>1
  <2>3. ASSUME NEW t \in from .. to - 1, t \in Points(x) PROVE ~ Before(x, from, to)
    BY <2>1, <2>3 DEF Before, Points
  <2> QED
    BY <2>2, <2>3
<1> QED
  BY <1>1

\* The values of a function on a finite set are finitely many.
LEMMA FiniteImage ==
  ASSUME NEW S, IsFiniteSet(S), NEW f, DOMAIN f = S, f = [x \in S |-> f[x]]
  PROVE  IsFiniteSet({f[x] : x \in S})
<1>1. f \in Surjection(S, {f[x] : x \in S})
  BY DEF Surjection
<1> QED
  BY <1>1, FS_Surjection

-----------------------------------------------------------------------------
(* The invariant *)

\* One save at a time is between its checks and its commit, and it saw the rows there are.
SavesInTurn ==
  /\ \A o, p \in Savers : saves[o].pc # "idle" /\ saves[p].pc # "idle" => o = p
  /\ \A o \in Savers : saves[o].pc # "idle" => saves[o].week \in OpeningWeeks /\ Separate(saves[o].week)
  /\ \A o \in Savers : saves[o].pc = "deleted" => saves[o].gone = opening

\* Appointments and time off take time, and there are finitely many of them.
ProperTimes ==
  /\ IsFiniteSet(booked) /\ IsFiniteSet(blocks)
  /\ \A b \in booked : b.to = b.from + Services[b.service].duration
  /\ \A k \in blocks : k.kind = "hours" => k.from < k.to

\* A request came from a slot.
RequestsAreSlots == \A b \in booked : b.status = "pending" => b.by = "slot"

\* The inductive invariant.  SlotsAreRight and SlotsOnce follow from it in every state, and the first is
\* what makes a slot that is booked keep BuffersHold and TimeOffIsClear.
CalendarIInv ==
  /\ CalendarTypeOK /\ OneWeekStored /\ WeeksAreSeparate /\ BuffersHold /\ TimeOffIsClear
  /\ SavesInTurn /\ ProperTimes /\ RequestsAreSlots

\* What is busy, and what is blocked, of the calendar.
Busy(now) == {<<b.from, b.to>> : b \in Occupying(now)}

Blocked(now) == {Span(k) : k \in blocks} \cup {Buffered(b) : b \in Occupying(now)}

\* A buffer is no negative time, and no less than the percentage.
LEMMA BufferIs ==
  ASSUME NEW d \in Nat, NEW override \in Nat \cup {-1}
  PROVE  /\ BufferFor(d, override) \in Nat
         /\ override # NoOverride => BufferFor(d, override) = override
         /\ override = NoOverride => BufferFor(d, override) * 100 >= d * Pct
<1>1. PICK x \in Nat : x = d * Pct
  BY CalendarAssumption
<1>2. (x + 99) \div 100 \in Nat /\ ((x + 99) \div 100) * 100 >= x
  OBVIOUS
<1> QED
  BY <1>1, <1>2 DEF BufferFor, NoOverride

\* An appointment's times and its buffer.
LEMMA BookedFacts ==
  ASSUME CalendarIInv, NEW b \in booked
  PROVE  /\ b \in Appointments /\ b.from \in Int /\ b.to \in Int /\ b.from < b.to
         /\ b.service \in DOMAIN Services /\ b.to - b.from = Services[b.service].duration
         /\ b.expires \in Int /\ b.status \in {"pending", "confirmed"}
         /\ Services[b.service].duration \in Nat \ {0} /\ Services[b.service].buffer \in Nat \cup {-1}
         /\ BufferFor(b.to - b.from, Services[b.service].buffer) \in Nat
<1>1. b \in Appointments
  BY DEF CalendarIInv, CalendarTypeOK
<1>2. /\ b.from \in Int /\ b.to \in Int /\ b.service \in DOMAIN Services /\ b.expires \in Int
      /\ b.status \in {"pending", "confirmed"}
  BY <1>1, CalendarAssumption DEF Appointments
<1>3. Services[b.service].duration \in Nat \ {0} /\ Services[b.service].buffer \in Nat \cup {-1}
  BY <1>2, CalendarAssumption
<1>4. b.to = b.from + Services[b.service].duration
  BY DEF CalendarIInv, ProperTimes
<1>5. b.from < b.to /\ b.to - b.from = Services[b.service].duration
  BY <1>2, <1>3, <1>4
<1>6. BufferFor(b.to - b.from, Services[b.service].buffer) \in Nat
  BY <1>3, <1>5, BufferIs
<1> QED
  BY <1>1, <1>2, <1>3, <1>5, <1>6

\* A block of time off takes time on this day.
LEMMA SpanFacts ==
  ASSUME CalendarIInv, NEW k \in blocks
  PROVE  Span(k) \in Pairs /\ Span(k)[1] < Span(k)[2]
<1>1. k.kind \in {"hours", "days"} /\ k.from \in Int /\ k.to \in Int /\ (k.kind = "hours" => k.from < k.to)
  BY CalendarAssumption DEF CalendarIInv, CalendarTypeOK, ProperTimes
<1>2. Day \in Nat /\ jump.by \in Int /\ jump.by < Day
  BY JumpFacts DEF CalendarIInv, CalendarTypeOK
<1> QED
  BY <1>1, <1>2 DEF Span, Pairs

\* So what is busy or blocked is proper intervals, finitely many.
LEMMA BusyProper ==
  ASSUME CalendarIInv, NEW now
  PROVE  /\ IsFiniteSet(Busy(now)) /\ Busy(now) \subseteq Pairs /\ \A x \in Busy(now) : x[1] < x[2]
         /\ IsFiniteSet(Blocked(now)) /\ Blocked(now) \subseteq Pairs /\ \A x \in Blocked(now) : x[1] < x[2]
<1> DEFINE O == Occupying(now)
<1>1. O \subseteq booked /\ IsFiniteSet(O) /\ IsFiniteSet(blocks)
  <2>1. O \in SUBSET booked /\ IsFiniteSet(booked) /\ IsFiniteSet(blocks)
    BY DEF Occupying, CalendarIInv, ProperTimes
  <2> QED
    BY <2>1, FS_Subset
<1> HIDE DEF O
<1>2. IsFiniteSet(Busy(now))
  <2> DEFINE f == [b \in O |-> <<b.from, b.to>>]
  <2>1. Busy(now) = {f[b] : b \in O}
    BY DEF Busy, O
  <2>2. IsFiniteSet({f[b] : b \in O})
    BY <1>1, FiniteImage
  <2> QED
    BY <2>1, <2>2
<1>3. IsFiniteSet(Blocked(now))
  <2> DEFINE f == [b \in O |-> Buffered(b)]
             g == [k \in blocks |-> Span(k)]
  <2>1. Blocked(now) = {g[k] : k \in blocks} \cup {f[b] : b \in O}
    BY DEF Blocked, O
  <2>2. IsFiniteSet({f[b] : b \in O})
    BY <1>1, FiniteImage
  <2>3. IsFiniteSet({g[k] : k \in blocks})
    BY <1>1, FiniteImage
  <2> HIDE DEF f, g
  <2>4. IsFiniteSet({g[k] : k \in blocks} \cup {f[b] : b \in O})
    BY <2>2, <2>3, FS_Union
  <2> QED
    BY <2>1, <2>4
<1>4. ASSUME NEW b \in O
      PROVE  /\ <<b.from, b.to>> \in Pairs /\ <<b.from, b.to>>[1] < <<b.from, b.to>>[2]
             /\ Buffered(b) \in Pairs /\ Buffered(b)[1] < Buffered(b)[2]
  <2>1. /\ b.from \in Int /\ b.to \in Int /\ b.from < b.to
        /\ BufferFor(b.to - b.from, Services[b.service].buffer) \in Nat
    BY <1>1, BookedFacts
  <2> QED
    BY <2>1 DEF Buffered, Pairs
<1> QED
  BY <1>2, <1>3, <1>4, SpanFacts DEF Busy, Blocked, O

-----------------------------------------------------------------------------
(* The slots *)

LocalTimes == 0 .. Day - 1

\* The shifts of the day are within it.
LEMMA WeekTimes ==
  ASSUME CalendarIInv
  PROVE  /\ DayShifts(hours) \subseteq LocalTimes \X LocalTimes
         /\ DayShifts(opening) \subseteq LocalTimes \X LocalTimes
<1>1. LocalTimes \subseteq Int
  BY DEF LocalTimes
<1>2. hours \subseteq LocalTimes \X LocalTimes /\ IsFiniteSet(hours)
  BY CalendarAssumption DEF CalendarIInv, CalendarTypeOK, LocalTimes
<1>3. opening \subseteq LocalTimes \X LocalTimes /\ IsFiniteSet(opening)
  <2>1. opening = {} => opening \subseteq LocalTimes \X LocalTimes /\ IsFiniteSet(opening)
    BY FS_EmptySet
  <2>2. opening \in OpeningWeeks => opening \subseteq LocalTimes \X LocalTimes /\ IsFiniteSet(opening)
    BY CalendarAssumption DEF LocalTimes
  <2> QED
    BY <2>1, <2>2 DEF CalendarIInv, OneWeekStored
<1> QED
  BY <1>1, <1>2, <1>3, DayShiftsTimes

\* A span from t of that length is inside a window of local times.
Fit(w, t, length) == ToUtc(w[1]) <= t /\ t + length <= ToUtc(w[2])

\* A shift cut to an opening window keeps to the day.
LEMMA CutTimes ==
  ASSUME NEW w \in LocalTimes \X LocalTimes, NEW o \in LocalTimes \X LocalTimes
  PROVE  <<Max({w[1], o[1]}), Min({w[2], o[2]})>> \in LocalTimes \X LocalTimes
<1>1. w[1] \in LocalTimes /\ w[2] \in LocalTimes /\ o[1] \in LocalTimes /\ o[2] \in LocalTimes
  OBVIOUS
<1>2. LocalTimes \subseteq Int
  BY DEF LocalTimes
<1>3. Max({w[1], o[1]}) \in LocalTimes /\ Min({w[2], o[2]}) \in LocalTimes
  BY <1>1, <1>2, MaxMin
<1> QED
  BY <1>3

\* A span fits a shift cut to an opening window where it fits both, since to_utc never decreases.
LEMMA CutFits ==
  ASSUME jump \in Jumps, NEW w \in LocalTimes \X LocalTimes, NEW o \in LocalTimes \X LocalTimes,
         NEW t \in Int, NEW length \in Nat \ {0}
  PROVE  LET p == <<Max({w[1], o[1]}), Min({w[2], o[2]})>> IN
         /\ p \in LocalTimes \X LocalTimes
         /\ Fit(w, t, length) /\ Fit(o, t, length) <=> p[1] < p[2] /\ Fit(p, t, length)
<1>1. PICK a \in LocalTimes, b \in LocalTimes, c \in LocalTimes, d \in LocalTimes :
        w = <<a, b>> /\ o = <<c, d>>
  OBVIOUS
<1>2. Day \in Nat /\ a \in 0 .. Day /\ b \in 0 .. Day /\ c \in 0 .. Day /\ d \in 0 .. Day
  BY JumpFacts DEF LocalTimes
<1>3. PICK e \in LocalTimes, f \in LocalTimes :
        /\ e = Max({a, c}) /\ f = Min({b, d})
        /\ e = (IF a >= c THEN a ELSE c) /\ f = (IF b <= d THEN b ELSE d)
  <2>1. Max({a, c}) = (IF a >= c THEN a ELSE c) /\ Min({b, d}) = (IF b <= d THEN b ELSE d)
    BY <1>2, MaxMin
  <2>2. (IF a >= c THEN a ELSE c) \in LocalTimes /\ (IF b <= d THEN b ELSE d) \in LocalTimes
    OBVIOUS
  <2> QED
    BY <2>1, <2>2
<1>4. e \in 0 .. Day /\ f \in 0 .. Day
  BY <1>2 DEF LocalTimes
<1>5. \A x \in 0 .. Day : ToUtc(x) = UtcOf(x) /\ UtcOf(x) \in Int
  BY ToUtcIs, UtcGrows
<1>6. \A x, y \in 0 .. Day : x <= y => UtcOf(x) <= UtcOf(y)
  BY UtcGrows
<1>7. ASSUME Fit(<<a, b>>, t, length), Fit(<<c, d>>, t, length)
      PROVE  e < f /\ Fit(<<e, f>>, t, length)
  <2>1. UtcOf(a) <= t /\ UtcOf(c) <= t /\ t + length <= UtcOf(b) /\ t + length <= UtcOf(d)
    BY <1>2, <1>5, <1>7 DEF Fit
  <2>2. UtcOf(e) <= t /\ t + length <= UtcOf(f)
    BY <2>1, <1>3
  <2>3. ~ (f <= e)
    <3>1. f <= e => UtcOf(f) <= UtcOf(e)
      BY <1>4, <1>6
    <3> QED
      BY <3>1, <2>2, <1>4, <1>5
  <2> QED
    BY <2>2, <2>3, <1>4, <1>5 DEF Fit
<1>8. ASSUME Fit(<<e, f>>, t, length) PROVE Fit(<<a, b>>, t, length) /\ Fit(<<c, d>>, t, length)
  <2>1. UtcOf(e) <= t /\ t + length <= UtcOf(f)
    BY <1>4, <1>5, <1>8 DEF Fit
  <2>2. a <= e /\ c <= e /\ f <= b /\ f <= d
    BY <1>2, <1>3
  <2>3. UtcOf(a) <= UtcOf(e) /\ UtcOf(c) <= UtcOf(e) /\ UtcOf(f) <= UtcOf(b) /\ UtcOf(f) <= UtcOf(d)
    BY <2>2, <1>2, <1>4, <1>6
  <2>4. UtcOf(a) <= t /\ UtcOf(c) <= t /\ t + length <= UtcOf(b) /\ t + length <= UtcOf(d)
    BY <2>1, <2>3, <1>2, <1>4, <1>5
  <2> QED
    BY <2>4, <1>2, <1>5 DEF Fit
<1> QED
  BY <1>1, <1>3, <1>7, <1>8

\* The walks of the clipped shifts visit the starts on the grid that fit a shift and the opening hours.
LEMMA ClippedGrids ==
  ASSUME CalendarIInv, NEW length \in Nat \ {0}, NEW t \in Int
  PROVE  (\E p \in Clip(DayShifts(hours)) : t \in Grid(p, length)) <=>
           /\ \E w \in DayShifts(hours) : Fit(w, t, length)
           /\ opening # {} => \E o \in DayShifts(opening) : Fit(o, t, length)
           /\ Wall(t) % Step = 0
<1> DEFINE D == DayShifts(hours)
           E == DayShifts(opening)
           L == LocalTimes \X LocalTimes
           Cut(w, o) == <<Max({w[1], o[1]}), Min({w[2], o[2]})>>
<1>1. D \subseteq L /\ E \subseteq L /\ jump \in Jumps
  BY WeekTimes DEF CalendarIInv, CalendarTypeOK
<1>2. \A p \in L : t \in Grid(p, length) <=> Fit(p, t, length) /\ Wall(t) % Step = 0
  BY <1>1, GridVisits DEF Fit, LocalTimes
<1>3. \A w, o \in L : /\ Cut(w, o) \in L
                      /\ Fit(w, t, length) /\ Fit(o, t, length)
                           <=> Cut(w, o)[1] < Cut(w, o)[2] /\ Fit(Cut(w, o), t, length)
  BY <1>1, CutFits
<1>4. opening = {} => Clip(D) = D
  BY DEF Clip
<1>5. opening # {} => \A p : p \in Clip(D) <=> \E w \in D, o \in E : p = Cut(w, o) /\ p[1] < p[2]
  <2> SUFFICES ASSUME opening # {}, NEW p
               PROVE  p \in Clip(D) <=> \E w \in D, o \in E : p = Cut(w, o) /\ p[1] < p[2]
    OBVIOUS
  <2> HIDE DEF D, E, Cut
  <2>1. Clip(D) = {q \in UNION {{Cut(w, o) : o \in E} : w \in D} : q[1] < q[2]}
    BY DEF Clip, Cut, E
  <2> QED
    BY <2>1
<1> HIDE DEF D, E, L, Cut
<1>6. CASE opening = {}
  BY <1>1, <1>2, <1>4, <1>6 DEF D
<1>7. CASE opening # {}
  <2>1. ASSUME NEW p \in Clip(D), t \in Grid(p, length)
        PROVE  /\ \E w \in D : Fit(w, t, length)
               /\ \E o \in E : Fit(o, t, length)
               /\ Wall(t) % Step = 0
    <3>1. PICK w \in D, o \in E : p = Cut(w, o) /\ p[1] < p[2]
      BY <1>5, <1>7
    <3>2. p \in L /\ w \in L /\ o \in L
      BY <3>1, <1>1, <1>3
    <3>3. Fit(p, t, length) /\ Wall(t) % Step = 0
      BY <3>2, <1>2, <2>1
    <3>4. Fit(w, t, length) /\ Fit(o, t, length)
      BY <3>1, <3>2, <3>3, <1>3
    <3> QED
      BY <3>3, <3>4
  <2>2. ASSUME NEW w \in D, NEW o \in E, Fit(w, t, length), Fit(o, t, length), Wall(t) % Step = 0
        PROVE  \E p \in Clip(D) : t \in Grid(p, length)
    <3>1. w \in L /\ o \in L
      BY <1>1
    <3>2. Cut(w, o) \in L /\ Cut(w, o)[1] < Cut(w, o)[2] /\ Fit(Cut(w, o), t, length)
      BY <3>1, <2>2, <1>3
    <3>3. Cut(w, o) \in Clip(D)
      BY <3>2, <1>5, <1>7
    <3>4. t \in Grid(Cut(w, o), length)
      BY <3>2, <2>2, <1>2
    <3> QED
      BY <3>3, <3>4
  <2> QED
    BY <1>7, <2>1, <2>2 DEF D, E
<1> QED
  BY <1>6, <1>7

\* member_slots is the walks of the clipped shifts, less what is past, blocked or busy.
LEMMA SlotsShape ==
  ASSUME NEW s, NEW now
  PROVE  MemberSlots(s, now) =
           LET length == Services[s].duration
               tail   == length + BufferFor(length, Services[s].buffer)
           IN  {t \in UNION {Grid(p, length) : p \in Clip(DayShifts(hours))} :
                  /\ t >= now
                  /\ ~ Overlaps(Merged(Blocked(now)), t, t + length)
                  /\ ~ Overlaps(Merged(Busy(now)), t, t + tail)}
  BY DEF MemberSlots, Grid, Blocked, Busy

\* A walk is over instants.
LEMMA GridInstants ==
  ASSUME jump \in Jumps, NEW p \in LocalTimes \X LocalTimes, NEW length \in Nat \ {0}, NEW t \in Grid(p, length)
  PROVE  t \in Int
<1>1. PICK x \in 0 .. Day - 1, y \in 0 .. Day - 1 : p = <<x, y>>
  BY DEF LocalTimes
<1>2. Day \in Nat /\ Step \in Nat \ {0} /\ x \in 0 .. Day /\ y \in 0 .. Day
  BY JumpFacts
<1>3. ToUtc(x) \in Int /\ ToUtc(y) \in Int
  BY <1>2, ToUtcIs, UtcGrows
<1>4. ~ (Anchor(x) >= Day)
  BY <1>1 DEF Grid
<1>5. Anchor(x) \in 0 .. Day
  BY <1>2, <1>4, AnchorRoundsUp
<1>6. ToUtc(Anchor(x)) \in Int
  BY <1>5, ToUtcIs, UtcGrows
<1>7. PICK f \in Int : f = ToUtc(x) + ((ToUtc(Anchor(x)) - ToUtc(x)) % Step)
  BY <1>2, <1>3, <1>6
<1>8. t \in f .. ToUtc(y) - length
  BY <1>1, <1>7 DEF Grid
<1> QED
  BY <1>3, <1>7, <1>8

\* What a service takes of the calendar.
LEMMA ServiceFacts ==
  ASSUME NEW s \in DOMAIN Services
  PROVE  /\ Services[s].duration \in Nat \ {0} /\ Services[s].buffer \in Nat \cup {-1}
         /\ BufferFor(Services[s].duration, Services[s].buffer) \in Nat
  BY CalendarAssumption, BufferIs

\* So a slot is a start on the grid that fits the hours and is free, and every such start is one.
LEMMA SlotsExactly ==
  ASSUME CalendarIInv, NEW s \in DOMAIN Services, NEW now, NEW t
  PROVE  LET length == Services[s].duration
             tail   == length + BufferFor(length, Services[s].buffer)
         IN  t \in MemberSlots(s, now) <=>
               /\ t \in Int
               /\ \E w \in DayShifts(hours) : Fit(w, t, length)
               /\ opening # {} => \E o \in DayShifts(opening) : Fit(o, t, length)
               /\ Wall(t) % Step = 0
               /\ t >= now
               /\ \A x \in Blocked(now) : Before(x, t, t + length)
               /\ \A x \in Busy(now) : Before(x, t, t + tail)
<1> DEFINE length == Services[s].duration
           tail   == length + BufferFor(length, Services[s].buffer)
           C      == Clip(DayShifts(hours))
<1>1. length \in Nat \ {0} /\ tail \in Nat \ {0} /\ jump \in Jumps
  <2>1. length \in Nat \ {0} /\ BufferFor(length, Services[s].buffer) \in Nat
    BY ServiceFacts
  <2> HIDE DEF length
  <2> QED
    BY <2>1 DEF CalendarIInv, CalendarTypeOK
<1>2. t \in MemberSlots(s, now) <=>
        /\ \E p \in C : t \in Grid(p, length)
        /\ t >= now
        /\ ~ Overlaps(Merged(Blocked(now)), t, t + length)
        /\ ~ Overlaps(Merged(Busy(now)), t, t + tail)
  <2>1. MemberSlots(s, now) =
          {z \in UNION {Grid(p, length) : p \in C} :
             /\ z >= now
             /\ ~ Overlaps(Merged(Blocked(now)), z, z + length)
             /\ ~ Overlaps(Merged(Busy(now)), z, z + tail)}
    BY SlotsShape
  <2> HIDE DEF length, tail, C
  <2> QED
    BY <2>1
<1>3. C \subseteq LocalTimes \X LocalTimes
  <2>1. /\ DayShifts(hours) \subseteq LocalTimes \X LocalTimes
        /\ DayShifts(opening) \subseteq LocalTimes \X LocalTimes
    BY WeekTimes
  <2>2. CASE opening = {}
    BY <2>1, <2>2 DEF Clip
  <2>3. CASE opening # {}
    <3>1. ASSUME NEW w \in LocalTimes \X LocalTimes, NEW o \in LocalTimes \X LocalTimes
          PROVE  <<Max({w[1], o[1]}), Min({w[2], o[2]})>> \in LocalTimes \X LocalTimes
      BY CutTimes
    <3>2. ASSUME NEW p \in C PROVE p \in LocalTimes \X LocalTimes
      <4>1. PICK w \in DayShifts(hours), o \in DayShifts(opening) : p = <<Max({w[1], o[1]}), Min({w[2], o[2]})>>
        BY <2>3 DEF Clip
      <4> QED
        BY <2>1, <3>1, <4>1
    <3> QED
      BY <3>2
  <2> QED
    BY <2>2, <2>3
<1>4. (\E p \in C : t \in Grid(p, length)) => t \in Int
  BY <1>1, <1>3, GridInstants
<1>5. CASE t \in Int
  <2>1. (\E p \in C : t \in Grid(p, length)) <=>
          /\ \E w \in DayShifts(hours) : Fit(w, t, length)
          /\ opening # {} => \E o \in DayShifts(opening) : Fit(o, t, length)
          /\ Wall(t) % Step = 0
    BY <1>1, <1>5, ClippedGrids
  <2>2. t < t + length /\ t + length \in Int /\ t < t + tail /\ t + tail \in Int
    BY <1>1, <1>5
  <2>3. ~ Overlaps(Merged(Blocked(now)), t, t + length) <=> \A x \in Blocked(now) : Before(x, t, t + length)
    BY <1>5, <2>2, BusyProper, FreeByBisection
  <2>4. ~ Overlaps(Merged(Busy(now)), t, t + tail) <=> \A x \in Busy(now) : Before(x, t, t + tail)
    BY <1>5, <2>2, BusyProper, FreeByBisection
  <2> HIDE DEF length, tail, C
  <2>5. t \in MemberSlots(s, now) <=>
               /\ t \in Int
               /\ \E w \in DayShifts(hours) : Fit(w, t, length)
               /\ opening # {} => \E o \in DayShifts(opening) : Fit(o, t, length)
               /\ Wall(t) % Step = 0
               /\ t >= now
               /\ \A x \in Blocked(now) : Before(x, t, t + length)
               /\ \A x \in Busy(now) : Before(x, t, t + tail)
    BY <1>2, <1>5, <2>1, <2>3, <2>4, Zenon
  <2> QED
    BY <2>5, Zenon DEF length, tail
<1>6. CASE t \notin Int
  BY <1>2, <1>4, <1>6, Zenon
<1> QED
  BY <1>5, <1>6, Zenon

\* The starts that fit a set of windows, from the first to the last of each.
LEMMA WindowsFit ==
  ASSUME jump \in Jumps, NEW W, W \subseteq LocalTimes \X LocalTimes, NEW length \in Nat \ {0}, NEW t
  PROVE  t \in UNION {w[1] .. w[2] - length : w \in {<<ToUtc(v[1]), ToUtc(v[2])>> : v \in W}}
           <=> t \in Int /\ \E v \in W : Fit(v, t, length)
<1>1. ASSUME NEW v \in W
      PROVE  /\ ToUtc(v[1]) \in Int /\ ToUtc(v[2]) \in Int
             /\ t \in ToUtc(v[1]) .. ToUtc(v[2]) - length <=> t \in Int /\ Fit(v, t, length)
  <2>1. PICK x \in LocalTimes, y \in LocalTimes : v = <<x, y>>
    OBVIOUS
  <2>2. x \in 0 .. Day /\ y \in 0 .. Day
    BY JumpFacts DEF LocalTimes
  <2>3. ToUtc(x) \in Int /\ ToUtc(y) \in Int
    BY <2>2, ToUtcIs, UtcGrows
  <2>4. t \in ToUtc(x) .. ToUtc(y) - length <=> t \in Int /\ ToUtc(x) <= t /\ t + length <= ToUtc(y)
    BY <2>3
  <2> QED
    BY <2>1, <2>3, <2>4 DEF Fit
<1> DEFINE Win(v) == <<ToUtc(v[1]), ToUtc(v[2])>>
<1>2. \A v \in W : Win(v)[1] = ToUtc(v[1]) /\ Win(v)[2] = ToUtc(v[2])
  OBVIOUS
<1> HIDE DEF Win
<1>3. t \in UNION {w[1] .. w[2] - length : w \in {Win(v) : v \in W}}
        <=> \E v \in W : t \in Win(v)[1] .. Win(v)[2] - length
  OBVIOUS
<1>4. t \in UNION {w[1] .. w[2] - length : w \in {Win(v) : v \in W}}
        <=> t \in Int /\ \E v \in W : Fit(v, t, length)
  BY <1>1, <1>2, <1>3
<1> QED
  BY <1>4 DEF Win

\* So the slots are right in every state of the invariant.
LEMMA SlotsRight == CalendarIInv => SlotsAreRight
<1> SUFFICES ASSUME CalendarIInv, NEW s \in DOMAIN Services
             PROVE  LET length == Services[s].duration
                        tail == length + BufferFor(length, Services[s].buffer)
                        shifts == {<<ToUtc(w[1]), ToUtc(w[2])>> : w \in DayShifts(hours)}
                        openings == {<<ToUtc(w[1]), ToUtc(w[2])>> : w \in DayShifts(opening)}
                        away == UNION {Points(Span(k)) : k \in blocks}
                        kept == UNION {Points(Buffered(b)) : b \in Occupying(today)}
                        busy == UNION {Points(<<b.from, b.to>>) : b \in Occupying(today)}
                        Fits(windows) == UNION {w[1] .. w[2] - length : w \in windows}
                        Bookable(t) ==
                          /\ Wall(t) % Step = 0 /\ t >= today
                          /\ opening # {} => t \in Fits(openings)
                          /\ (t .. t + length - 1) \cap (away \cup kept) = {}
                          /\ (t .. t + tail - 1) \cap busy = {}
                    IN  MemberSlots(s, today) = {t \in Fits(shifts) : Bookable(t)}
  BY DEF SlotsAreRight
<1> DEFINE length == Services[s].duration
           tail == length + BufferFor(length, Services[s].buffer)
           shifts == {<<ToUtc(w[1]), ToUtc(w[2])>> : w \in DayShifts(hours)}
           openings == {<<ToUtc(w[1]), ToUtc(w[2])>> : w \in DayShifts(opening)}
           away == UNION {Points(Span(k)) : k \in blocks}
           kept == UNION {Points(Buffered(b)) : b \in Occupying(today)}
           busy == UNION {Points(<<b.from, b.to>>) : b \in Occupying(today)}
           Fits(windows) == UNION {w[1] .. w[2] - length : w \in windows}
           Bookable(t) ==
             /\ Wall(t) % Step = 0 /\ t >= today
             /\ opening # {} => t \in Fits(openings)
             /\ (t .. t + length - 1) \cap (away \cup kept) = {}
             /\ (t .. t + tail - 1) \cap busy = {}
           Slot(t) ==
             /\ t \in Int
             /\ \E w \in DayShifts(hours) : Fit(w, t, length)
             /\ opening # {} => \E o \in DayShifts(opening) : Fit(o, t, length)
             /\ Wall(t) % Step = 0
             /\ t >= today
             /\ \A x \in Blocked(today) : Before(x, t, t + length)
             /\ \A x \in Busy(today) : Before(x, t, t + tail)
<1>1. length \in Nat \ {0} /\ tail \in Nat \ {0} /\ jump \in Jumps
  <2>1. length \in Nat \ {0} /\ BufferFor(length, Services[s].buffer) \in Nat
    BY ServiceFacts
  <2> HIDE DEF length
  <2> QED
    BY <2>1 DEF CalendarIInv, CalendarTypeOK
<1>2. \A t : t \in MemberSlots(s, today) <=> Slot(t)
  BY SlotsExactly
<1>3. \A t : t \in Fits(shifts) <=> t \in Int /\ \E w \in DayShifts(hours) : Fit(w, t, length)
  <2>1. DayShifts(hours) \subseteq LocalTimes \X LocalTimes
    BY WeekTimes
  <2> HIDE DEF length
  <2> QED
    BY <1>1, <2>1, WindowsFit
<1>4. \A t : t \in Fits(openings) <=> t \in Int /\ \E w \in DayShifts(opening) : Fit(w, t, length)
  <2>1. DayShifts(opening) \subseteq LocalTimes \X LocalTimes
    BY WeekTimes
  <2> HIDE DEF length
  <2> QED
    BY <1>1, <2>1, WindowsFit
<1>5. away \cup kept = UNION {Points(x) : x \in Blocked(today)}
  BY DEF Blocked
<1>6. busy = UNION {Points(x) : x \in Busy(today)}
  BY DEF Busy
<1> HIDE DEF length, tail, shifts, openings, away, kept, busy, Fits
<1>7. ASSUME NEW t \in Int
      PROVE  /\ (t .. t + length - 1) \cap (away \cup kept) = {}
                  <=> \A x \in Blocked(today) : Before(x, t, t + length)
             /\ (t .. t + tail - 1) \cap busy = {}
                  <=> \A x \in Busy(today) : Before(x, t, t + tail)
  <2>1. t < t + length /\ t + length \in Int /\ t < t + tail /\ t + tail \in Int
    BY <1>1
  <2>2. /\ Blocked(today) \subseteq Pairs /\ \A x \in Blocked(today) : x[1] < x[2]
        /\ Busy(today) \subseteq Pairs /\ \A x \in Busy(today) : x[1] < x[2]
    BY BusyProper
  <2>3. PICK m \in Int, n \in Int : m = t + length /\ n = t + tail
    BY <2>1
  <2>4. (t .. m - 1) \cap UNION {Points(x) : x \in Blocked(today)} = {}
          <=> \A x \in Blocked(today) : Before(x, t, m)
    BY <2>1, <2>2, <2>3, FreeByInstants
  <2>5. (t .. n - 1) \cap UNION {Points(x) : x \in Busy(today)} = {}
          <=> \A x \in Busy(today) : Before(x, t, n)
    BY <2>1, <2>2, <2>3, FreeByInstants
  <2>6. m - 1 = t + length - 1 /\ n - 1 = t + tail - 1
    BY <2>3, <1>1
  <2> QED
    BY <2>3, <2>4, <2>5, <2>6, <1>5, <1>6, Zenon
<1>8. ASSUME NEW t PROVE t \in MemberSlots(s, today) <=> t \in Fits(shifts) /\ Bookable(t)
  <2>1. CASE t \in Int
    BY <2>1, <1>2, <1>3, <1>4, <1>7, Zenon
  <2>2. CASE t \notin Int
    BY <2>2, <1>2, <1>3, Zenon
  <2> QED
    BY <2>1, <2>2
<1> HIDE DEF Bookable
<1>9. MemberSlots(s, today) = {t \in Fits(shifts) : Bookable(t)}
  BY <1>8
<1> QED
  BY <1>9, Zenon DEF Bookable, Fits, shifts, openings, away, kept, busy, tail, length

\* Windows of local times that are apart have no span in common.
LEMMA ApartFit ==
  ASSUME jump \in Jumps, NEW p \in LocalTimes \X LocalTimes, NEW q \in LocalTimes \X LocalTimes, p[2] < q[1],
         NEW t \in Int, NEW length \in Nat \ {0}, Fit(p, t, length)
  PROVE  ~ Fit(q, t, length)
<1>1. PICK a \in LocalTimes, b \in LocalTimes, c \in LocalTimes, d \in LocalTimes :
        p = <<a, b>> /\ q = <<c, d>>
  OBVIOUS
<1>2. Day \in Nat /\ b \in 0 .. Day /\ c \in 0 .. Day /\ b <= c
  BY <1>1, JumpFacts DEF LocalTimes
<1>3. ToUtc(b) = UtcOf(b) /\ ToUtc(c) = UtcOf(c)
  BY <1>2, ToUtcIs
<1>4. ToUtc(b) <= ToUtc(c) /\ ToUtc(b) \in Int /\ ToUtc(c) \in Int
  BY <1>2, <1>3, UtcGrows
<1> QED
  BY <1>1, <1>4 DEF Fit

\* No start is offered twice.
LEMMA NoSlotTwice == CalendarIInv => SlotsOnce
<1> SUFFICES ASSUME CalendarIInv, NEW s \in DOMAIN Services,
                    NEW p \in Clip(DayShifts(hours)), NEW q \in Clip(DayShifts(hours)), p # q,
                    NEW t \in Grid(p, Services[s].duration), t \in Grid(q, Services[s].duration)
             PROVE  FALSE
  BY DEF SlotsOnce
<1> DEFINE L == LocalTimes \X LocalTimes
           D == DayShifts(hours)
           E == DayShifts(opening)
<1>1. PICK length \in Nat \ {0} : length = Services[s].duration
  BY ServiceFacts
<1>2. jump \in Jumps /\ D \subseteq L /\ E \subseteq L
  BY WeekTimes DEF CalendarIInv, CalendarTypeOK
<1>3. \A v, w \in D : v # w => v[2] < w[1] \/ w[2] < v[1]
  <2>1. hours \subseteq Pairs /\ IsFiniteSet(hours) /\ Separate(hours)
    BY CalendarAssumption DEF CalendarIInv, CalendarTypeOK, WeeksAreSeparate, Pairs
  <2> QED
    BY <2>1, DayShiftsApart
<1>4. \A v, w \in E : v # w => v[2] < w[1] \/ w[2] < v[1]
  <2>1. opening \subseteq Pairs /\ IsFiniteSet(opening) /\ Separate(opening)
    <3>1. opening = {} => opening \subseteq Pairs /\ IsFiniteSet(opening)
      BY FS_EmptySet
    <3>2. opening \in OpeningWeeks => opening \subseteq Pairs /\ IsFiniteSet(opening)
      BY CalendarAssumption DEF Pairs
    <3> QED
      BY <3>1, <3>2 DEF CalendarIInv, OneWeekStored, WeeksAreSeparate
  <2> QED
    BY <2>1, DayShiftsApart
<1>5. ASSUME NEW v \in L, NEW w \in L, v[2] < w[1] \/ w[2] < v[1], NEW x \in Int
      PROVE  ~ (Fit(v, x, length) /\ Fit(w, x, length))
  BY <1>2, <1>5, ApartFit
<1>6. \A v \in L : t \in Grid(v, length) => t \in Int
  BY <1>2, GridInstants
<1>7. \A v \in L : t \in Int => (t \in Grid(v, length) <=> Fit(v, t, length) /\ Wall(t) % Step = 0)
  BY <1>2, GridVisits DEF Fit, LocalTimes
<1>8. CASE opening = {}
  <2>1. p \in D /\ q \in D
    BY <1>8 DEF Clip
  <2> HIDE DEF D, L
  <2>2. p \in L /\ q \in L /\ (p[2] < q[1] \/ q[2] < p[1]) /\ t \in Int
    BY <2>1, <1>1, <1>2, <1>3, <1>6
  <2>3. Fit(p, t, length) /\ Fit(q, t, length)
    BY <2>2, <1>1, <1>7
  <2> QED
    BY <2>2, <2>3, <1>5
<1>9. CASE opening # {}
  <2> DEFINE Cut(w, o) == <<Max({w[1], o[1]}), Min({w[2], o[2]})>>
  <2>0. p \in UNION {{Cut(w, o) : o \in E} : w \in D} /\ q \in UNION {{Cut(w, o) : o \in E} : w \in D}
    BY <1>9 DEF Clip
  <2> HIDE DEF D, E, Cut
  <2>1. PICK v \in D, o \in E : p = Cut(v, o)
    BY <2>0
  <2>2. PICK w \in D, r \in E : q = Cut(w, r)
    BY <2>0
  <2> USE DEF D, E, Cut
  <2>3. p \in L /\ q \in L /\ v \in L /\ o \in L /\ w \in L /\ r \in L
    BY <1>2, <2>1, <2>2, CutTimes
  <2>4. p[1] < p[2] /\ q[1] < q[2]
    BY <1>9 DEF Clip
  <2>5. t \in Int
    BY <2>3, <1>1, <1>6
  <2>6. Fit(p, t, length) /\ Fit(q, t, length)
    BY <2>3, <2>5, <1>1, <1>7
  <2>7. Fit(v, t, length) /\ Fit(o, t, length)
    BY <2>1, <2>3, <2>4, <2>5, <2>6, <1>2, CutFits
  <2>8. Fit(w, t, length) /\ Fit(r, t, length)
    BY <2>2, <2>3, <2>4, <2>5, <2>6, <1>2, CutFits
  <2>9. v # w \/ o # r
    BY <2>1, <2>2
  <2> HIDE DEF D, E, L, Cut
  <2>10. CASE v # w
    BY <2>10, <2>3, <2>5, <2>7, <2>8, <1>3, <1>5
  <2>11. CASE o # r
    BY <2>11, <2>3, <2>5, <2>7, <2>8, <1>4, <1>5
  <2> QED
    BY <2>9, <2>10, <2>11
<1> QED
  BY <1>8, <1>9

-----------------------------------------------------------------------------
(* The steps *)

\* A week that an owner may save is finitely many pairs.
LEMMA WeekPairs ==
  ASSUME NEW rows \in Weeks \cup OpeningWeeks PROVE rows \subseteq Pairs /\ IsFiniteSet(rows)
  BY CalendarAssumption DEF Pairs


\* The invariant holds at the start.
LEMMA CalendarInitOK == CalendarInit => CalendarIInv
<1> SUFFICES ASSUME CalendarInit PROVE CalendarIInv
  OBVIOUS
<1>1. CalendarTypeOK
  BY CalendarAssumption DEF CalendarInit, CalendarTypeOK
<1>2. IsFiniteSet({})
  BY FS_EmptySet
<1> QED
  BY <1>1, <1>2
  DEF CalendarInit, CalendarIInv, OneWeekStored, WeeksAreSeparate, Separate, BuffersHold, TimeOffIsClear,
      SavesInTurn, ProperTimes, RequestsAreSlots

\* ReplaceWeek keeps the invariant.
LEMMA ReplaceWeekKeeps ==
  ASSUME CalendarIInv, NEW rows \in Weeks, ReplaceWeek(rows) PROVE CalendarIInv'
<1> USE DEF ReplaceWeek
<1>0. WeeksAreSeparate'
  <2>1. rows \subseteq Pairs /\ IsFiniteSet(rows)
    BY WeekPairs
  <2>2. Separate(rows)
    BY <2>1, NeighboursSuffice
  <2> QED
    BY <2>2 DEF CalendarIInv, WeeksAreSeparate
<1>1. CalendarTypeOK'
  BY DEF CalendarIInv, CalendarTypeOK
<1> QED
  BY <1>0, <1>1 DEF CalendarIInv, OneWeekStored, BuffersHold, TimeOffIsClear, SavesInTurn, ProperTimes,
               RequestsAreSlots, Covers, Span

\* SaveOpening takes its turn.
LEMMA SaveOpeningKeeps ==
  ASSUME CalendarIInv, NEW o \in Savers, NEW rows \in OpeningWeeks, SaveOpening(o, rows) PROVE CalendarIInv'
<1> USE DEF SaveOpening
<1>1. CalendarTypeOK'
  BY DEF CalendarIInv, CalendarTypeOK
<1>2. SavesInTurn'
  <2>1. rows \subseteq Pairs /\ IsFiniteSet(rows)
    BY WeekPairs
  <2>2. Separate(rows)
    BY <2>1, NeighboursSuffice
  <2> QED
    BY <2>2 DEF CalendarIInv, CalendarTypeOK, SavesInTurn, LockWeek
<1> QED
  BY <1>1, <1>2
  DEF CalendarIInv, OneWeekStored, WeeksAreSeparate, BuffersHold, TimeOffIsClear, ProperTimes,
      RequestsAreSlots, Covers, Span

\* DeleteOpening sees the rows there are, since no other save can commit before it does.
LEMMA DeleteOpeningKeeps ==
  ASSUME CalendarIInv, NEW o \in Savers, DeleteOpening(o) PROVE CalendarIInv'
<1> USE DEF DeleteOpening
<1>1. CalendarTypeOK'
  <2> DEFINE R == [pc : {"idle", "locked", "deleted"}, week : OpeningWeeks \cup {{}},
                   gone : SUBSET UNION OpeningWeeks]
             save == [saves[o] EXCEPT !.pc = "deleted", !.gone = opening]
  <2>1. saves \in [Savers -> R] /\ opening \subseteq UNION OpeningWeeks
    BY DEF CalendarIInv, CalendarTypeOK
  <2>2. save \in R
    BY <2>1
  <2>3. saves' = [saves EXCEPT ![o] = save]
    OBVIOUS
  <2> HIDE DEF R, save
  <2>4. saves' \in [Savers -> R]
    BY <2>1, <2>2, <2>3
  <2> QED
    BY <2>4 DEF CalendarIInv, CalendarTypeOK, R
<1>2. SavesInTurn'
  BY DEF CalendarIInv, CalendarTypeOK, SavesInTurn
<1> QED
  BY <1>1, <1>2 DEF CalendarIInv, OneWeekStored, WeeksAreSeparate, BuffersHold, TimeOffIsClear, ProperTimes,
                     RequestsAreSlots, Covers, Span

\* CommitOpening leaves one week.
LEMMA CommitOpeningKeeps ==
  ASSUME CalendarIInv, NEW o \in Savers, CommitOpening(o) PROVE CalendarIInv'
<1> USE DEF CommitOpening
<1>1. saves[o].gone = opening /\ saves[o].week \in OpeningWeeks /\ Separate(saves[o].week)
  BY DEF CalendarIInv, SavesInTurn
<1>2. opening' = opening \/ opening' = saves[o].week
  BY <1>1
<1>3. OneWeekStored' /\ WeeksAreSeparate' /\ opening' \subseteq UNION OpeningWeeks
  BY <1>1, <1>2 DEF CalendarIInv, CalendarTypeOK, OneWeekStored, WeeksAreSeparate
<1>4. CalendarTypeOK'
  BY <1>3 DEF CalendarIInv, CalendarTypeOK
<1>5. SavesInTurn'
  BY DEF CalendarIInv, CalendarTypeOK, SavesInTurn
<1> QED
  BY <1>3, <1>4, <1>5 DEF CalendarIInv, BuffersHold, TimeOffIsClear, ProperTimes,
                     RequestsAreSlots, Covers, Span

\* The clock of a transaction is not ahead of the clock.
LEMMA NowFacts ==
  ASSUME CalendarIInv, NEW now \in TransactionNows
  PROVE  now \in 0 .. MaxNow /\ now \in Int /\ today \in Int /\ now <= today /\ MaxNow \in Nat
  BY CalendarAssumption DEF TransactionNows, CalendarIInv, CalendarTypeOK

\* A new appointment is well formed.
LEMMA AppointmentFacts ==
  ASSUME NEW s \in DOMAIN Services, NEW t \in Int, NEW now \in 0 .. MaxNow, NEW by \in {"slot", "override"}
  PROVE  LET n == Appointment(s, t, now, by) IN
         /\ n \in Appointments /\ n.from = t /\ n.to = t + Services[s].duration /\ n.service = s /\ n.by = by
         /\ n.to = n.from + Services[n.service].duration
         /\ n.status = "pending" => n.by = "slot"
<1>1. MaxNow \in Nat /\ Services[s].duration \in Nat
  BY CalendarAssumption
<1>2. t + Services[s].duration \in Int /\ now + 1 \in 0 .. MaxNow + 1 /\ 0 \in 0 .. MaxNow + 1
  BY <1>1
<1>3. (IF by = "slot" THEN "pending" ELSE "confirmed") \in {"pending", "confirmed"}
  OBVIOUS
<1>4. (IF by = "slot" THEN now + 1 ELSE 0) \in 0 .. MaxNow + 1
  BY <1>2
<1> QED
  BY <1>2, <1>3, <1>4 DEF Appointment, Appointments

\* Bookings that a writer adds one to stay finite, well formed and of their services' length.
LEMMA AddBooking ==
  ASSUME CalendarIInv, NEW now, NEW n \in Appointments, n.to = n.from + Services[n.service].duration,
         n.status = "pending" => n.by = "slot",
         booked' = Occupying(now) \cup {n}, UNCHANGED <<jump, hours, opening, saves, blocks, today>>
  PROVE  /\ CalendarTypeOK' /\ ProperTimes' /\ OneWeekStored' /\ WeeksAreSeparate'
         /\ SavesInTurn' /\ RequestsAreSlots'
<1>1. Occupying(now) \in SUBSET booked
  BY DEF Occupying
<1>2. IsFiniteSet(booked')
  <2>1. IsFiniteSet(Occupying(now))
    BY <1>1, FS_Subset DEF CalendarIInv, ProperTimes
  <2> QED
    BY <2>1, FS_AddElement
<1>3. CalendarTypeOK'
  BY <1>1 DEF CalendarIInv, CalendarTypeOK
<1>4. ProperTimes'
  BY <1>1, <1>2 DEF CalendarIInv, ProperTimes
<1>5. RequestsAreSlots'
  BY <1>1 DEF CalendarIInv, RequestsAreSlots
<1> QED
  BY <1>3, <1>4, <1>5 DEF CalendarIInv, OneWeekStored, WeeksAreSeparate, SavesInTurn

\* The buffer after an appointment, before what begins after it.
Spaced(a, b) ==
  LET override == Services[a.service].buffer
      gap == b.from - a.to
  IN  IF override # NoOverride THEN gap >= override ELSE gap * 100 >= (a.to - a.from) * Pct

\* What ends its buffer before another begins has its buffer.
LEMMA SpacedBy ==
  ASSUME NEW from \in Int, NEW to \in Int, NEW other \in Int, NEW d \in Nat, to - from = d,
         NEW override \in Nat \cup {-1}, to + BufferFor(d, override) <= other
  PROVE  IF override # NoOverride THEN other - to >= override ELSE (other - to) * 100 >= (to - from) * Pct
<1>1. PICK g \in Nat : g = BufferFor(d, override)
  BY BufferIs
<1>2. /\ override # NoOverride => g = override
      /\ override = NoOverride => g * 100 >= d * Pct
  BY <1>1, BufferIs
<1>3. PICK x \in Nat : x = d * Pct
  BY CalendarAssumption
<1>4. other - to >= g /\ other - to \in Int
  BY <1>1
<1>5. (to - from) * Pct = x
  BY <1>3
<1> QED
  BY <1>1, <1>2, <1>3, <1>4, <1>5 DEF NoOverride

\* A slot is booked: it ends its buffer before the next appointment, begins after the last one's, and
\* nobody is off over it.
LEMMA BookSlotKeeps ==
  ASSUME CalendarIInv, NEW now \in TransactionNows, NEW s \in DOMAIN Services, BookSlot(s, now)
  PROVE  CalendarIInv'
<1>1. PICK t \in MemberSlots(s, now) : booked' = Occupying(now) \cup {Appointment(s, t, now, "slot")}
  BY DEF BookSlot
<1>2. PICK length \in Nat \ {0}, buf \in Nat :
        /\ length = Services[s].duration /\ buf = BufferFor(length, Services[s].buffer)
        /\ t \in Int
        /\ \A x \in Blocked(now) : Before(x, t, t + length)
        /\ \A x \in Busy(now) : Before(x, t, t + (length + buf))
  BY ServiceFacts, SlotsExactly
<1>3. PICK n : n = Appointment(s, t, now, "slot")
  OBVIOUS
<1>4. /\ n \in Appointments /\ n.from = t /\ n.to = t + length /\ n.service = s /\ n.by = "slot"
      /\ n.to = n.from + Services[n.service].duration /\ (n.status = "pending" => n.by = "slot")
  <2>1. now \in 0 .. MaxNow /\ "slot" \in {"slot", "override"}
    BY NowFacts
  <2>2. t \in Int /\ length = Services[s].duration
    BY <1>2
  <2>3. /\ n \in Appointments /\ n.from = t /\ n.to = t + Services[s].duration /\ n.service = s /\ n.by = "slot"
        /\ n.to = n.from + Services[n.service].duration
    BY <1>3, <2>1, <2>2, AppointmentFacts
  <2> QED
    BY <2>2, <2>3
<1>5. booked' = Occupying(now) \cup {n} /\ UNCHANGED <<jump, hours, opening, saves, blocks, today>>
  BY <1>1, <1>3 DEF BookSlot
<1>6. /\ CalendarTypeOK' /\ ProperTimes' /\ OneWeekStored' /\ WeeksAreSeparate'
      /\ SavesInTurn' /\ RequestsAreSlots'
  BY <1>4, <1>5, AddBooking
<1>7. Occupying(now) \subseteq booked
  BY DEF Occupying
<1>8. ASSUME NEW b \in Occupying(now)
      PROVE  /\ b.from <= t => Spaced(b, n)
             /\ t <= b.from => Spaced(n, b)
  <2>1. b \in booked
    BY <1>7
  <2>2. /\ b.from \in Int /\ b.to \in Int /\ b.from < b.to
        /\ b.to - b.from \in Nat /\ Services[b.service].buffer \in Nat \cup {-1}
        /\ BufferFor(b.to - b.from, Services[b.service].buffer) \in Nat
    BY <2>1, BookedFacts
  <2>3. PICK g \in Nat : g = BufferFor(b.to - b.from, Services[b.service].buffer)
    BY <2>2
  <2>4. b.to + g <= t \/ t + length <= b.from
    <3>1. Buffered(b) \in Blocked(now) /\ Buffered(b) = <<b.from, b.to + g>>
      BY <2>3 DEF Blocked, Buffered
    <3> QED
      BY <3>1, <1>2 DEF Before
  <2>5. b.to <= t \/ t + (length + buf) <= b.from
    <3>1. <<b.from, b.to>> \in Busy(now)
      BY DEF Busy
    <3> QED
      BY <3>1, <1>2 DEF Before
  <2>6. ASSUME b.from <= t PROVE Spaced(b, n)
    <3>1. b.to + g <= t
      BY <2>4, <2>6, <2>2, <1>2
    <3>2. PICK d \in Nat : d = b.to - b.from
      BY <2>2
    <3>3. b.to - b.from = d /\ b.to + BufferFor(d, Services[b.service].buffer) <= n.from /\ n.from \in Int
      BY <3>1, <3>2, <2>3, <1>2, <1>4
    <3>4. PICK from \in Int, to \in Int, other \in Int, v \in Nat \cup {-1} :
            from = b.from /\ to = b.to /\ other = n.from /\ v = Services[b.service].buffer
      BY <3>3, <2>2
    <3>5. to - from = d /\ to + BufferFor(d, v) <= other
      BY <3>3, <3>4
    <3>6. IF v # NoOverride THEN other - to >= v ELSE (other - to) * 100 >= (to - from) * Pct
      BY <3>5, SpacedBy
    <3> QED
      BY <3>4, <3>6 DEF Spaced
  <2>7. ASSUME t <= b.from PROVE Spaced(n, b)
    <3>1. t + (length + buf) <= b.from
      BY <2>5, <2>7, <2>2, <1>2
    <3>2. /\ n.to \in Int /\ n.from \in Int /\ n.to - n.from = length /\ length \in Nat
          /\ Services[n.service].buffer \in Nat \cup {-1} /\ buf = BufferFor(length, Services[n.service].buffer)
      BY <1>2, <1>4, ServiceFacts
    <3>3. n.to + buf <= b.from
      BY <3>1, <1>2, <1>4
    <3>4. PICK from \in Int, to \in Int, other \in Int, v \in Nat \cup {-1} :
            from = n.from /\ to = n.to /\ other = b.from /\ v = Services[n.service].buffer
      BY <3>2, <2>2
    <3>5. to - from = length /\ to + BufferFor(length, v) <= other
      BY <3>2, <3>3, <3>4
    <3>6. IF v # NoOverride THEN other - to >= v ELSE (other - to) * 100 >= (to - from) * Pct
      BY <3>2, <3>5, SpacedBy
    <3> QED
      BY <3>4, <3>6 DEF Spaced
  <2> QED
    BY <2>6, <2>7
<1>9. BuffersHold'
  <2> SUFFICES ASSUME NEW a \in booked', NEW b \in booked',
                      a # b, a.by # "override", b.by # "override", a.from <= b.from
               PROVE  Spaced(a, b)
    BY DEF BuffersHold, Spaced
  <2>1. CASE a \in Occupying(now) /\ b \in Occupying(now)
    BY <2>1, <1>7 DEF CalendarIInv, BuffersHold, Spaced
  <2>2. CASE a \in Occupying(now) /\ b = n
    BY <2>2, <1>4, <1>8
  <2>3. CASE a = n /\ b \in Occupying(now)
    BY <2>3, <1>4, <1>8
  <2> QED
    BY <2>1, <2>2, <2>3, <1>5
<1>10. TimeOffIsClear'
  <2> SUFFICES ASSUME NEW k \in blocks, NEW b \in booked', Covers(Span(k), b), b.to > today
               PROVE  b.by # "slot" \/ (b.status = "pending" /\ b.expires <= today)
    BY <1>5 DEF TimeOffIsClear, Covers, Span
  <2>1. CASE b \in Occupying(now)
    BY <2>1, <1>7 DEF CalendarIInv, TimeOffIsClear
  <2>2. CASE b = n
    <3>1. Span(k) \in Blocked(now)
      BY DEF Blocked
    <3>2. Span(k) \in Pairs
      BY SpanFacts
    <3>3. Before(Span(k), t, t + length)
      BY <3>1, <1>2
    <3> QED
      BY <3>2, <3>3, <2>2, <1>2, <1>4 DEF Before, Covers, Pairs
  <2> QED
    BY <2>1, <2>2, <1>5
<1> QED
  BY <1>6, <1>9, <1>10 DEF CalendarIInv

\* An override promises neither.
LEMMA BookOverKeeps ==
  ASSUME CalendarIInv, NEW now \in TransactionNows, NEW s \in DOMAIN Services, NEW t \in OverrideAt,
         BookOver(s, t, now)
  PROVE  CalendarIInv'
<1>1. PICK n : n = Appointment(s, t, now, "override")
  OBVIOUS
<1>2. t \in Int
  BY CalendarAssumption
<1>3. /\ n \in Appointments /\ n.by = "override" /\ n.to = n.from + Services[n.service].duration
      /\ n.status = "pending" => n.by = "slot"
  <2>1. now \in 0 .. MaxNow /\ "override" \in {"slot", "override"}
    BY NowFacts
  <2> QED
    BY <1>1, <1>2, <2>1, AppointmentFacts
<1>4. booked' = Occupying(now) \cup {n} /\ UNCHANGED <<jump, hours, opening, saves, blocks, today>>
  BY <1>1 DEF BookOver
<1>5. /\ CalendarTypeOK' /\ ProperTimes' /\ OneWeekStored' /\ WeeksAreSeparate'
      /\ SavesInTurn' /\ RequestsAreSlots'
  BY <1>3, <1>4, AddBooking
<1>6. Occupying(now) \subseteq booked
  BY DEF Occupying
<1>7. BuffersHold'
  BY <1>3, <1>4, <1>6 DEF CalendarIInv, BuffersHold
<1>8. TimeOffIsClear'
  BY <1>3, <1>4, <1>6 DEF CalendarIInv, TimeOffIsClear, Covers, Span
<1> QED
  BY <1>5, <1>7, <1>8 DEF CalendarIInv

\* An accepted request keeps its times; one that had lapsed by then counts as late.
LEMMA AcceptBookingKeeps ==
  ASSUME CalendarIInv, NEW now \in TransactionNows, NEW b \in booked, AcceptBooking(b, now)
  PROVE  CalendarIInv'
<1>1. PICK n : n = [b EXCEPT !.status = "confirmed", !.expires = 0,
                             !.by = IF b.expires <= today THEN "late" ELSE b.by]
  OBVIOUS
<1>2. b \in Appointments /\ b.by \in {"slot", "override", "late"} /\ MaxNow \in Nat
  BY CalendarAssumption DEF CalendarIInv, CalendarTypeOK, Appointments
<1>3. (IF b.expires <= today THEN "late" ELSE b.by) \in {"slot", "override", "late"} /\ 0 \in 0 .. MaxNow + 1
  BY <1>2
<1>4. /\ n \in Appointments /\ n.from = b.from /\ n.to = b.to /\ n.service = b.service
      /\ n.status = "confirmed" /\ n.by = IF b.expires <= today THEN "late" ELSE b.by
  BY <1>1, <1>2, <1>3 DEF Appointments
<1>5. booked' = (booked \ {b}) \cup {n} /\ UNCHANGED <<jump, hours, opening, saves, blocks, today>>
  BY <1>1 DEF AcceptBooking
<1>6. CalendarTypeOK'
  BY <1>4, <1>5 DEF CalendarIInv, CalendarTypeOK
<1>7. ProperTimes'
  <2>1. IsFiniteSet(booked')
    <3>1. IsFiniteSet(booked)
      BY DEF CalendarIInv, ProperTimes
    <3>2. IsFiniteSet(booked \ {b})
      BY <3>1, FS_RemoveElement
    <3> QED
      BY <3>2, <1>5, FS_AddElement
  <2> QED
    BY <2>1, <1>4, <1>5 DEF CalendarIInv, ProperTimes
<1>8. BuffersHold'
  <2> SUFFICES ASSUME NEW c \in booked', NEW d \in booked',
                      c # d, c.by # "override", d.by # "override", c.from <= d.from
               PROVE  Spaced(c, d)
    BY DEF BuffersHold, Spaced
  <2>1. n.by # "override" => b.by # "override"
    <3>1. b.by = "slot"
      BY DEF AcceptBooking, CalendarIInv, RequestsAreSlots
    <3> QED
      BY <3>1
  <2>2. CASE c \in booked \ {b} /\ d \in booked \ {b}
    BY <2>2 DEF CalendarIInv, BuffersHold, Spaced
  <2>3. CASE c \in booked \ {b} /\ d = n
    <3>1. c # b /\ b.by # "override" /\ c.from <= b.from
      BY <2>1, <2>3, <1>4
    <3>2. Spaced(c, b)
      BY <3>1, <2>3 DEF CalendarIInv, BuffersHold, Spaced
    <3> QED
      BY <3>2, <2>3, <1>4 DEF Spaced
  <2>4. CASE c = n /\ d \in booked \ {b}
    <3>1. d # b /\ b.by # "override" /\ b.from <= d.from
      BY <2>1, <2>4, <1>4
    <3>2. Spaced(b, d)
      BY <3>1, <2>4 DEF CalendarIInv, BuffersHold, Spaced
    <3> QED
      BY <3>2, <2>4, <1>4 DEF Spaced
  <2> QED
    BY <2>2, <2>3, <2>4, <1>5
<1>9. TimeOffIsClear'
  <2> SUFFICES ASSUME NEW k \in blocks, NEW c \in booked', Covers(Span(k), c), c.to > today
               PROVE  c.by # "slot" \/ (c.status = "pending" /\ c.expires <= today)
    BY <1>5 DEF TimeOffIsClear, Covers, Span
  <2>1. CASE c \in booked
    BY <2>1 DEF CalendarIInv, TimeOffIsClear
  <2>2. CASE c = n
    <3>1. Covers(Span(k), b) /\ b.to > today
      BY <2>2, <1>4 DEF Covers
    <3>2. b.by # "slot" \/ b.expires <= today
      BY <3>1 DEF CalendarIInv, TimeOffIsClear
    <3> QED
      BY <3>2, <2>2, <1>4
  <2> QED
    BY <2>1, <2>2, <1>5
<1>10. RequestsAreSlots'
  BY <1>4, <1>5 DEF CalendarIInv, RequestsAreSlots
<1> QED
  BY <1>5, <1>6, <1>7, <1>8, <1>9, <1>10 DEF CalendarIInv, OneWeekStored, WeeksAreSeparate, SavesInTurn

\* CancelBooking keeps the invariant.
LEMMA CancelBookingKeeps ==
  ASSUME CalendarIInv, NEW b \in booked, CancelBooking(b) PROVE CalendarIInv'
<1> USE DEF CancelBooking
<1>1. CalendarTypeOK'
  BY DEF CalendarIInv, CalendarTypeOK
<1>2. IsFiniteSet(booked')
  BY FS_RemoveElement DEF CalendarIInv, ProperTimes
<1>3. TimeOffIsClear'
  BY DEF CalendarIInv, TimeOffIsClear, Covers, Span
<1> QED
  BY <1>1, <1>2, <1>3
  DEF CalendarIInv, OneWeekStored, WeeksAreSeparate, BuffersHold, SavesInTurn, ProperTimes, RequestsAreSlots

\* Time off is put where no appointment is in the way, but for those that a block it replaces covered.
LEMMA PutTimeOffKeeps ==
  ASSUME CalendarIInv, NEW now \in TransactionNows, NEW block \in Blocks, NEW old \in SUBSET blocks,
         PutTimeOff(block, old, now)
  PROVE  CalendarIInv'
<1> USE DEF PutTimeOff
<1>1. CalendarTypeOK'
  BY DEF CalendarIInv, CalendarTypeOK
<1>2. IsFiniteSet(blocks')
  <2>1. IsFiniteSet(blocks \ old)
    BY FS_Difference DEF CalendarIInv, ProperTimes
  <2> QED
    BY <2>1, FS_AddElement
<1>3. ProperTimes'
  BY <1>2 DEF CalendarIInv, ProperTimes
<1>4. TimeOffIsClear'
  <2> SUFFICES ASSUME NEW k \in blocks', NEW b \in booked, Covers(Span(k), b), b.to > today,
                      b.by = "slot", ~ (b.status = "pending" /\ b.expires <= today)
               PROVE  FALSE
    BY DEF TimeOffIsClear, Covers, Span
  <2>1. CASE k \in blocks
    BY <2>1 DEF CalendarIInv, TimeOffIsClear
  <2>2. CASE k = block
    <3>1. /\ now \in Int /\ today \in Int /\ now <= today /\ b.expires \in Int /\ b.to \in Int
          /\ b.status \in {"pending", "confirmed"}
      BY NowFacts, BookedFacts
    <3>2. b \in Occupying(now) /\ b.to > now
      BY <3>1 DEF Occupying
    <3>3. PICK o \in old : Covers(Span(o), b)
      BY <2>2, <3>2 DEF InTheWay
    <3>4. o \in blocks
      OBVIOUS
    <3> QED
      BY <3>3, <3>4 DEF CalendarIInv, TimeOffIsClear
  <2> QED
    BY <2>1, <2>2
<1> QED
  BY <1>1, <1>3, <1>4
  DEF CalendarIInv, OneWeekStored, WeeksAreSeparate, BuffersHold, SavesInTurn, RequestsAreSlots

\* DeleteTimeOff keeps the invariant.
LEMMA DeleteTimeOffKeeps ==
  ASSUME CalendarIInv, NEW block \in blocks, DeleteTimeOff(block) PROVE CalendarIInv'
<1> USE DEF DeleteTimeOff
<1>1. CalendarTypeOK'
  BY DEF CalendarIInv, CalendarTypeOK
<1>2. IsFiniteSet(blocks')
  BY FS_RemoveElement DEF CalendarIInv, ProperTimes
<1>3. TimeOffIsClear'
  BY DEF CalendarIInv, TimeOffIsClear, Covers, Span
<1> QED
  BY <1>1, <1>2, <1>3
  DEF CalendarIInv, OneWeekStored, WeeksAreSeparate, BuffersHold, SavesInTurn, ProperTimes, RequestsAreSlots

\* As the clock goes on, what was over is over and what had lapsed has lapsed.
LEMMA TodayPassesKeeps ==
  ASSUME CalendarIInv, TodayPasses PROVE CalendarIInv'
<1> USE DEF TodayPasses
<1>1. today \in Int /\ today' \in 0 .. MaxNow /\ today' = today + 1
  BY CalendarAssumption DEF CalendarIInv, CalendarTypeOK
<1>2. CalendarTypeOK'
  BY <1>1 DEF CalendarIInv, CalendarTypeOK
<1>3. TimeOffIsClear'
  <2> SUFFICES ASSUME NEW k \in blocks, NEW b \in booked, Covers(Span(k), b), b.to > today'
               PROVE  b.by # "slot" \/ (b.status = "pending" /\ b.expires <= today')
    BY DEF TimeOffIsClear, Covers, Span
  <2>1. b.to \in Int /\ b.expires \in Int
    BY BookedFacts
  <2>2. b.to > today
    BY <2>1, <1>1
  <2>3. b.by # "slot" \/ (b.status = "pending" /\ b.expires <= today)
    BY <2>2 DEF CalendarIInv, TimeOffIsClear
  <2> QED
    BY <2>1, <2>3, <1>1
<1> QED
  BY <1>2, <1>3
  DEF CalendarIInv, OneWeekStored, WeeksAreSeparate, BuffersHold, SavesInTurn, ProperTimes, RequestsAreSlots

\* Every step keeps the invariant.
LEMMA CalendarNextKeeps == CalendarIInv /\ [CalendarNext]_calendarVars => CalendarIInv'
<1> SUFFICES ASSUME CalendarIInv, [CalendarNext]_calendarVars PROVE CalendarIInv'
  OBVIOUS
<1>1. CASE UNCHANGED calendarVars
  BY <1>1
  DEF calendarVars, CalendarIInv, CalendarTypeOK, OneWeekStored, WeeksAreSeparate, BuffersHold,
      TimeOffIsClear, SavesInTurn, ProperTimes, RequestsAreSlots, Covers, Span
<1>2. CASE CalendarNext
  BY <1>2, ReplaceWeekKeeps, SaveOpeningKeeps, DeleteOpeningKeeps, CommitOpeningKeeps, BookSlotKeeps,
     BookOverKeeps, AcceptBookingKeeps, CancelBookingKeeps, PutTimeOffKeeps, DeleteTimeOffKeeps,
     TodayPassesKeeps
  DEF CalendarNext
<1> QED
  BY <1>1, <1>2

\* However the hours, the opening week, the time off, the appointments and the clock change, on a day of
\* any length, with or without a change of the clocks: the week stored is one save's (lock_week),
\* member_slots offers exactly the starts it should, appointments booked from it have the buffer between
\* them (buffer_for) and nobody is off over one (refuse_over_bookings).
THEOREM CalendarSound == CalendarSpec => []CalendarInv
<1>1. CalendarIInv => CalendarInv
  BY SlotsRight, NoSlotTwice DEF CalendarIInv, CalendarInv
<1> QED
  BY <1>1, CalendarInitOK, CalendarNextKeeps, PTL DEF CalendarSpec

=============================================================================
