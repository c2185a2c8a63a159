----------------------------- MODULE SequenceProofs -----------------------------
(***************************************************************************)
(* What folds return.  FlattenSeq gives sequences one after another, each  *)
(* at its place: the messages of a chain are such sequences, and the codes *)
(* of the characters of a text.  FoldLeft gives the sum of a sequence, and *)
(* a sum over a finite set is the same whichever element is added last.    *)
(***************************************************************************)
EXTENDS Integers, Sequences, FiniteSets, SequencesExt, FiniteSetTheorems,
        SequenceTheorems, TLAPS

\* Among any numbers there is a smallest.
LEMMA SmallestNumber ==
    ASSUME NEW T, T \subseteq Nat, T # {}
    PROVE  \E x \in T : \A y \in T : x <= y
<1>1. PICK n0 \in T : TRUE
  OBVIOUS
<1>2. n0 \in Nat
  BY <1>1
<1> DEFINE S == 0 .. n0
           Below == {0 .. n : n \in T \cap S}
<1>3. IsFiniteSet(S)
  BY <1>2, FS_Interval
<1>4. IsWellFoundedOn(StrictSubsetOrdering(S), SUBSET S)
  <2> HIDE DEF S
  <2>1. QED
    BY <1>3, FS_StrictSubsetOrderingWellFounded, FS_FiniteSubsetsOfFinite
<1>5. Below \subseteq SUBSET S /\ 0 .. n0 \in Below
  <2>1. ASSUME NEW b \in Below PROVE b \subseteq S
    <3>1. PICK n \in T \cap S : b = 0 .. n
      BY <2>1
    <3>2. QED
      BY <1>2, <3>1
  <2>2. n0 \in T \cap S
    BY <1>2
  <2>3. QED
    BY <2>1, <2>2
<1>6. PICK b \in Below : \A c \in Below : ~ (<<c, b>> \in StrictSubsetOrdering(S))
  <2> HIDE DEF S, Below
  <2>1. QED
    BY <1>4, <1>5, WFMin
<1>7. PICK x \in T \cap S : b = 0 .. x
  BY <1>6
<1>8. ASSUME NEW y \in T PROVE x <= y
  <2>1. x \in Nat /\ y \in Nat /\ x <= n0
    BY <1>2, <1>7
  <2>2. CASE y < x
    <3>1. y \in T \cap S /\ 0 .. y \in Below
      BY <1>2, <2>1, <2>2
    <3>2. 0 .. y \in SUBSET S /\ b \in SUBSET S
      BY <1>5, <1>6, <3>1
    <3>3. 0 .. y \subseteq b /\ 0 .. y # b
      <4>1. x \in 0 .. x /\ x \notin 0 .. y
        BY <2>1, <2>2
      <4>2. 0 .. y \subseteq 0 .. x
        BY <2>1, <2>2
      <4>3. QED
        BY <1>7, <4>1, <4>2
    <3>4. QED
      BY <1>6, <3>1, <3>2, <3>3 DEF StrictSubsetOrdering
  <2>3. QED
    BY <2>1, <2>2
<1>9. QED
  BY <1>7, <1>8

\* Among sets of parts of a finite set there is one with no other below it.
LEMMA SmallestSet ==
    ASSUME NEW S, IsFiniteSet(S), NEW T, T \subseteq SUBSET S, T # {}
    PROVE  \E x \in T : \A y \in T : y \subseteq x => y = x
<1>1. IsWellFoundedOn(StrictSubsetOrdering(S), SUBSET S)
  BY FS_StrictSubsetOrderingWellFounded, FS_FiniteSubsetsOfFinite
<1>2. PICK x \in T : \A y \in T : ~ (<<y, x>> \in StrictSubsetOrdering(S))
  BY <1>1, WFMin
<1>3. \A y \in T : y \subseteq x => y = x
  BY <1>2 DEF StrictSubsetOrdering
<1>4. QED
  BY <1>3

\* What holds of zero, and of what follows a number it holds of, holds of all.
LEMMA AllNumbers ==
    ASSUME NEW T, 0 \in T, \A z \in Nat : z \in T => z + 1 \in T
    PROVE  \A z \in Nat : z \in T
<1> DEFINE Bad == {y \in Nat : y \notin T}
<1>1. SUFFICES ASSUME Bad # {} PROVE FALSE
  OBVIOUS
<1>2. PICK x \in Bad : \A y \in Bad : x <= y
  <2>1. Bad \subseteq Nat
    OBVIOUS
  <2> HIDE DEF Bad
  <2>2. QED
    BY <1>1, <2>1, SmallestNumber
<1>3. x \in Nat /\ x # 0 /\ x \notin T
  BY <1>2
<1>4. x - 1 \in Nat /\ ~ (x <= x - 1) /\ (x - 1) + 1 = x
  BY <1>3
<1>5. x - 1 \in T
  BY <1>2, <1>4
<1>6. QED
  BY <1>3, <1>4, <1>5

LEMMA Division ==
    ASSUME NEW m \in Nat \ {0}, NEW a \in Int
    PROVE  /\ a % m \in 0 .. m - 1 /\ a \div m \in Int
           /\ a = m * (a \div m) + (a % m)
<1>1. a % m \in 0 .. m - 1
  OBVIOUS
<1>2. a \div m \in Int
  OBVIOUS
<1>3. \A n, x \in Int : n > 0 => x = n * (x \div n) + (x % n)
  BY SMT
<1> QED
  BY <1>1, <1>2, <1>3

LEMMA Multiples ==
    ASSUME NEW m \in Nat \ {0}, NEW q \in Int, m * q < m, -m < m * q
    PROVE  q = 0
<1>1. CASE q >= 1
  <2>1. m * q >= m * 1
    BY <1>1
  <2> QED
    BY <2>1
<1>2. CASE q <= -1
  <2>1. m * q <= m * (-1)
    BY <1>2
  <2> QED
    BY <2>1
<1> QED
  BY <1>1, <1>2

\* Sequences are the same that have the same length and elements.
LEMMA SameSeq ==
    ASSUME NEW S, NEW s \in Seq(S), NEW t \in Seq(S), Len(s) = Len(t),
           \A x \in 1 .. Len(s) : s[x] = t[x]
    PROVE  s = t
OBVIOUS

\* Sequences may be joined in any order.
LEMMA JoinThree == \A s, t, u \in Seq(Nat) : (s \o t) \o u = s \o (t \o u)
<1> TAKE s, t, u \in Seq(Nat)
<1> DEFINE v == s \o t
           w == t \o u
<1>1. v \in Seq(Nat) /\ w \in Seq(Nat)
  OBVIOUS
<1>2. Len(v \o u) = Len(s \o w)
  BY <1>1
<1>3. v \o u \in Seq(Nat) /\ s \o w \in Seq(Nat)
  BY <1>1
<1>4. ASSUME NEW i \in 1 .. Len(v \o u) PROVE (v \o u)[i] = (s \o w)[i]
  BY <1>1
<1>5. QED
  BY <1>2, <1>3, <1>4, SeqEqual

LEMMA JoinedAre ==
    ASSUME NEW S, NEW s \in Seq(S), NEW t \in Seq(S)
    PROVE  /\ s \o t \in Seq(S) /\ Len(s) \in Nat /\ Len(t) \in Nat
           /\ Len(s \o t) = Len(s) + Len(t)
           /\ \A x \in 1 .. Len(s) : (s \o t)[x] = s[x]
           /\ \A x \in 1 .. Len(t) : (s \o t)[Len(s) + x] = t[x]
OBVIOUS

--------------------------------------------------------------------------------
(* Sequences one after another.  FlattenSeq is a recursive function: there is one, and *)
(* only one, up to every place, since there is no first place where that would fail.   *)

Joins(f, s, n) == \A x \in 1 .. n : f[x] = IF x = 1 THEN s[x] ELSE f[x - 1] \o s[x]
Agree(s, t, n) == \A x \in 1 .. n : s[x] = t[x]
Joined(s, n) ==
    CHOOSE f : f = [x \in 1 .. n |-> IF x = 1 THEN s[x] ELSE f[x - 1] \o s[x]]

LEMMA JoinsAgree ==
    ASSUME NEW n \in Nat, NEW s, NEW t, Agree(s, t, n),
           NEW f, Joins(f, s, n), NEW g, Joins(g, t, n), NEW k \in 1 .. n
    PROVE  f[k] = g[k]
<1> DEFINE Bad == {x \in 1 .. n : f[x] # g[x]}
<1>1. SUFFICES ASSUME Bad # {} PROVE FALSE
  OBVIOUS
<1>2. PICK x \in Bad : \A y \in Bad : x <= y
  <2>1. Bad \subseteq Nat
    OBVIOUS
  <2> HIDE DEF Bad
  <2>2. QED
    BY <1>1, <2>1, SmallestNumber
<1>3. x \in 1 .. n
  BY <1>2
<1>4. CASE x = 1
  BY <1>2, <1>3, <1>4 DEF Joins, Agree
<1>5. CASE x # 1
  <2>1. x - 1 \in 1 .. n /\ ~ (x <= x - 1)
    BY <1>3, <1>5
  <2>2. f[x - 1] = g[x - 1]
    BY <1>2, <2>1
  <2>3. f[x] = f[x - 1] \o s[x] /\ g[x] = g[x - 1] \o t[x]
    BY <1>3, <1>5 DEF Joins
  <2>4. QED
    BY <1>2, <1>3, <2>2, <2>3 DEF Agree
<1>6. QED
  BY <1>4, <1>5

LEMMA JoinsExist ==
    ASSUME NEW n \in Nat, NEW s
    PROVE  Joined(s, n) = [x \in 1 .. n |->
                             IF x = 1 THEN s[x] ELSE Joined(s, n)[x - 1] \o s[x]]
<1> DEFINE Is(f, m) == f = [x \in 1 .. m |-> IF x = 1 THEN s[x] ELSE f[x - 1] \o s[x]]
           Bad == {m \in 0 .. n : \A f : ~ Is(f, m)}
<1>1. Bad = {}
  <2>1. SUFFICES ASSUME Bad # {} PROVE FALSE
    OBVIOUS
  <2>2. PICK m \in Bad : \A y \in Bad : m <= y
    <3> HIDE DEF Is
    <3>1. Bad \subseteq Nat
      OBVIOUS
    <3> HIDE DEF Bad
    <3>2. QED
      BY <2>1, <3>1, SmallestNumber
  <2>3. m \in 0 .. n /\ \A f : ~ Is(f, m)
    BY <2>2
  <2>4. m # 0
    <3>1. Is([x \in 1 .. 0 |-> 0], 0)
      OBVIOUS
    <3>2. QED
      BY <2>3, <3>1
  <2>5. m - 1 \in 0 .. n /\ ~ (m <= m - 1)
    BY <2>3, <2>4
  <2>6. PICK f : Is(f, m - 1)
    <3> HIDE DEF Is
    <3>1. m - 1 \notin Bad
      <4> HIDE DEF Bad
      <4>1. QED
        BY <2>2, <2>5
    <3>2. QED
      BY <2>5, <3>1
  <2> DEFINE g == [x \in 1 .. m |-> IF x < m THEN f[x]
                                    ELSE IF x = 1 THEN s[x] ELSE f[x - 1] \o s[x]]
  <2>7. g = [x \in 1 .. m |-> IF x = 1 THEN s[x] ELSE g[x - 1] \o s[x]]
    <3>1. ASSUME NEW x \in 1 .. m
          PROVE  g[x] = IF x = 1 THEN s[x] ELSE g[x - 1] \o s[x]
      <4>1. x # 1 => x - 1 \in 1 .. m /\ x - 1 < m /\ g[x - 1] = f[x - 1]
        BY <2>3
      <4>2. x < m => x \in 1 .. m - 1
        BY <2>3
      <4>3. x < m => f[x] = IF x = 1 THEN s[x] ELSE f[x - 1] \o s[x]
        BY <2>6, <4>2
      <4>4. g[x] = IF x = 1 THEN s[x] ELSE f[x - 1] \o s[x]
        BY <2>3, <4>3
      <4> HIDE DEF g
      <4>5. QED
        BY <4>1, <4>4
    <3>2. g = [x \in 1 .. m |-> g[x]]
      OBVIOUS
    <3> HIDE DEF g
    <3>3. QED
      BY <3>1, <3>2
  <2> HIDE DEF g
  <2>8. QED
    BY <2>3, <2>7
<1>2. \E f : Is(f, n)
  <2> HIDE DEF Is
  <2>1. n \in 0 .. n
    OBVIOUS
  <2>2. QED
    BY <1>1, <2>1
<1>3. QED
  BY <1>2 DEF Joined

\* The first n sequences of s.
Flat(s, n) == FlattenSeq(SubSeq(s, 1, n))

LEMMA FlatIs ==
    ASSUME NEW S, NEW s \in Seq(S), NEW n \in 1 .. Len(s)
    PROVE  Flat(s, n) = Joined(SubSeq(s, 1, n), n)[n]
<1>1. SubSeq(s, 1, n) \in Seq(S) /\ Len(SubSeq(s, 1, n)) = n /\ n # 0
  OBVIOUS
<1>2. QED
  BY <1>1 DEF Flat, FlattenSeq, Joined

LEMMA FlatStep ==
    ASSUME NEW S, NEW s \in Seq(Seq(S)), NEW n \in 1 .. Len(s)
    PROVE  Flat(s, 0) = <<>> /\ Flat(s, n) = Flat(s, n - 1) \o s[n]
<1> DEFINE p == SubSeq(s, 1, n)
           q == SubSeq(s, 1, n - 1)
           f == Joined(p, n)
           g == Joined(q, n - 1)
<1>1. Flat(s, 0) = <<>>
  <2>1. SubSeq(s, 1, 0) = <<>>
    OBVIOUS
  <2>2. QED
    BY <2>1 DEF Flat, FlattenSeq
<1>2. n \in Nat /\ n - 1 \in Nat /\ n \in 1 .. n
  OBVIOUS
<1>3. \A x \in 1 .. n : p[x] = s[x]
  OBVIOUS
<1>4. \A x \in 1 .. n - 1 : q[x] = s[x] /\ p[x] = q[x]
  OBVIOUS
<1> HIDE DEF p, q
<1>5. f = [x \in 1 .. n |-> IF x = 1 THEN p[x] ELSE f[x - 1] \o p[x]]
  BY <1>2, JoinsExist
<1>6. g = [x \in 1 .. n - 1 |-> IF x = 1 THEN q[x] ELSE g[x - 1] \o q[x]]
  BY <1>2, JoinsExist
<1>7. Flat(s, n) = f[n]
  BY FlatIs DEF p
<1> HIDE DEF f, g
<1>8. Joins(f, p, n) /\ Joins(f, p, n - 1)
  <2>1. \A x \in 1 .. n : f[x] = IF x = 1 THEN p[x] ELSE f[x - 1] \o p[x]
    BY <1>5
  <2>2. \A x \in 1 .. n - 1 : x \in 1 .. n
    BY <1>2
  <2>3. QED
    BY <2>1, <2>2 DEF Joins
<1>9. Joins(g, q, n - 1)
  BY <1>6 DEF Joins
<1>10. CASE n = 1
  <2>1. f[n] = s[n]
    BY <1>2, <1>3, <1>8, <1>10 DEF Joins
  <2>2. <<>> \o s[n] = s[n]
    <3>1. s[n] \in Seq(S)
      OBVIOUS
    <3>2. QED
      BY <3>1
  <2>3. QED
    BY <1>1, <1>7, <1>10, <2>1, <2>2
<1>11. CASE n # 1
  <2>1. n - 1 \in 1 .. n - 1 /\ n - 1 \in 1 .. Len(s)
    BY <1>11
  <2>2. f[n - 1] = g[n - 1]
    <3>1. \A x \in 1 .. n - 1 : p[x] = q[x]
      BY <1>4
    <3>2. PICK m : m = n - 1
      OBVIOUS
    <3>3. m \in Nat /\ Joins(f, p, m) /\ Joins(g, q, m) /\ m \in 1 .. m
      BY <1>2, <1>8, <1>9, <2>1, <3>2
    <3>4. Agree(p, q, m)
      BY <3>1, <3>2 DEF Agree
    <3>5. f[m] = g[m]
      BY <3>3, <3>4, JoinsAgree
    <3>6. QED
      BY <3>2, <3>5
  <2>3. Flat(s, n - 1) = g[n - 1]
    BY <2>1, FlatIs DEF g, q
  <2>4. f[n] = f[n - 1] \o s[n]
    BY <1>2, <1>3, <1>8, <1>11 DEF Joins
  <2>5. QED
    BY <1>1, <1>7, <2>2, <2>3, <2>4
<1>12. QED
  BY <1>10, <1>11

LEMMA FlatType ==
    ASSUME NEW S, NEW s \in Seq(Seq(S)), NEW n \in 0 .. Len(s)
    PROVE  Flat(s, n) \in Seq(S)
<1> DEFINE Bad == {x \in 0 .. Len(s) : Flat(s, x) \notin Seq(S)}
<1>1. SUFFICES ASSUME Bad # {} PROVE FALSE
  OBVIOUS
<1>2. PICK x \in Bad : \A y \in Bad : x <= y
  <2>1. Bad \subseteq Nat
    OBVIOUS
  <2> HIDE DEF Bad
  <2>2. QED
    BY <1>1, <2>1, SmallestNumber
<1>3. x \in 0 .. Len(s) /\ Flat(s, x) \notin Seq(S)
  BY <1>2
<1>4. CASE x = 0
  <2>1. SubSeq(s, 1, 0) = <<>>
    OBVIOUS
  <2>2. Flat(s, 0) = <<>>
    BY <2>1 DEF Flat, FlattenSeq
  <2>3. Flat(s, x) = <<>> /\ <<>> \in Seq(S)
    BY <1>4, <2>2
  <2>4. QED
    BY <1>3, <2>3
<1>5. CASE x # 0
  <2>1. x \in 1 .. Len(s) /\ x - 1 \in 0 .. Len(s) /\ ~ (x <= x - 1)
    BY <1>3, <1>5
  <2>2. Flat(s, x - 1) \in Seq(S) /\ s[x] \in Seq(S)
    BY <1>2, <2>1
  <2>3. Flat(s, x) = Flat(s, x - 1) \o s[x]
    BY <2>1, FlatStep
  <2>4. QED
    BY <1>3, <2>2, <2>3
<1>6. QED
  BY <1>4, <1>5

\* What is joined first stays where it is.
LEMMA FlatGrows ==
    ASSUME NEW S, NEW s \in Seq(Seq(S)), NEW m \in 0 .. Len(s), NEW n \in m .. Len(s)
    PROVE  /\ Len(Flat(s, m)) <= Len(Flat(s, n))
           /\ \A t \in 1 .. Len(Flat(s, m)) : Flat(s, n)[t] = Flat(s, m)[t]
<1> DEFINE Same(x) == /\ Len(Flat(s, m)) <= Len(Flat(s, x))
                      /\ \A t \in 1 .. Len(Flat(s, m)) : Flat(s, x)[t] = Flat(s, m)[t]
           Bad == {x \in m .. Len(s) : ~ Same(x)}
<1>1. SUFFICES ASSUME Bad # {} PROVE FALSE
  OBVIOUS
<1>2. PICK x \in Bad : \A y \in Bad : x <= y
  <2> HIDE DEF Same
  <2>1. Bad \subseteq Nat
    OBVIOUS
  <2> HIDE DEF Bad
  <2>2. QED
    BY <1>1, <2>1, SmallestNumber
<1>3. x \in m .. Len(s) /\ ~ Same(x)
  BY <1>2
<1>4. Flat(s, m) \in Seq(S)
  BY FlatType
<1>5. x # m
  BY <1>3, <1>4
<1>6. x \in 1 .. Len(s) /\ x - 1 \in m .. Len(s) /\ x - 1 \in 0 .. Len(s) /\ ~ (x <= x - 1)
  BY <1>3, <1>5
<1>7. Same(x - 1)
  <2> HIDE DEF Same
  <2>1. QED
    BY <1>2, <1>6
<1>8. Flat(s, x - 1) \in Seq(S) /\ s[x] \in Seq(S)
  BY <1>6, FlatType
<1>9. Flat(s, x) = Flat(s, x - 1) \o s[x]
  BY <1>6, FlatStep
<1>10. QED
  <2> HIDE DEF Bad
  <2>1. /\ Len(Flat(s, x)) = Len(Flat(s, x - 1)) + Len(s[x]) /\ Len(s[x]) \in Nat
        /\ Len(Flat(s, x - 1)) \in Nat /\ Len(Flat(s, m)) \in Nat
        /\ \A t \in 1 .. Len(Flat(s, x - 1)) : Flat(s, x)[t] = Flat(s, x - 1)[t]
    BY <1>4, <1>8, <1>9, JoinedAre
  <2>2. Len(Flat(s, m)) <= Len(Flat(s, x))
    <3>1. Len(Flat(s, m)) <= Len(Flat(s, x - 1))
      BY <1>7
    <3>2. /\ Len(Flat(s, x)) = Len(Flat(s, x - 1)) + Len(s[x]) /\ Len(s[x]) \in Nat
          /\ Len(Flat(s, x - 1)) \in Nat /\ Len(Flat(s, m)) \in Nat
      BY <2>1
    <3> DEFINE L(n_) == Len(Flat(s, n_))
    <3>3. L(m) <= L(x - 1) /\ L(x) = L(x - 1) + Len(s[x])
          /\ L(x - 1) \in Nat /\ L(m) \in Nat /\ Len(s[x]) \in Nat
      BY <3>1, <3>2
    <3> HIDE DEF Same, L
    <3>4. L(m) <= L(x)
      BY <3>3
    <3>5. QED
      BY <3>4 DEF L
  <2>3. ASSUME NEW t \in 1 .. Len(Flat(s, m)) PROVE Flat(s, x)[t] = Flat(s, m)[t]
    <3>1. t \in 1 .. Len(Flat(s, x - 1))
      BY <1>7, <2>1
    <3>2. QED
      BY <1>7, <2>1, <3>1
  <2>4. QED
    BY <1>3, <2>2, <2>3

--------------------------------------------------------------------------------
(* Recursion over the numbers.  A value is made of the number and the value before. *)

Runs(f, step, base, m) ==
    /\ f[0] = base
    /\ \A z \in 1 .. m : f[z] = step[z][f[z - 1]]

LEMMA RunsAgree ==
    ASSUME NEW step, NEW base, NEW f, NEW g, NEW m \in Nat,
           Runs(f, step, base, m), Runs(g, step, base, m), NEW z \in 0 .. m
    PROVE  f[z] = g[z]
<1> DEFINE Bad == {y \in 0 .. m : f[y] # g[y]}
<1>1. SUFFICES ASSUME Bad # {} PROVE FALSE
  OBVIOUS
<1>2. PICK x \in Bad : \A y \in Bad : x <= y
  <2>1. Bad \subseteq Nat
    OBVIOUS
  <2> HIDE DEF Bad
  <2>2. QED
    BY <1>1, <2>1, SmallestNumber
<1>3. x # 0 /\ x \in 1 .. m
  BY <1>2 DEF Runs
<1>4. f[x - 1] = g[x - 1]
  <2>1. x - 1 \in 0 .. m /\ ~ (x <= x - 1)
    BY <1>3
  <2>2. QED
    BY <1>2, <2>1
<1>5. QED
  BY <1>2, <1>3, <1>4 DEF Runs

LEMMA RunsExist ==
    ASSUME NEW step, NEW base, NEW m \in Nat
    PROVE  \E f : Runs(f, step, base, m)
<1> DEFINE Bad == {y \in Nat : ~ \E f : Runs(f, step, base, y)}
<1>1. SUFFICES ASSUME Bad # {} PROVE FALSE
  OBVIOUS
<1>2. PICK x \in Bad : \A y \in Bad : x <= y
  <2>1. Bad \subseteq Nat
    OBVIOUS
  <2> HIDE DEF Bad
  <2>2. QED
    BY <1>1, <2>1, SmallestNumber
<1>3. x # 0
  <2>1. Runs([y \in {0} |-> base], step, base, 0)
    BY DEF Runs
  <2>2. QED
    BY <1>2, <2>1
<1>4. x \in Nat /\ x - 1 \in Nat /\ ~ (x <= x - 1)
  BY <1>2, <1>3
<1>5. PICK f : Runs(f, step, base, x - 1)
  BY <1>2, <1>4
<1> DEFINE g == [y \in 0 .. x |-> IF y = x THEN step[x][f[x - 1]] ELSE f[y]]
<1>6. Runs(g, step, base, x)
  <2>1. g[0] = base
    BY <1>3, <1>4, <1>5 DEF Runs
  <2>2. ASSUME NEW z \in 1 .. x PROVE g[z] = step[z][g[z - 1]]
    <3>1. z - 1 \in 0 .. x /\ z - 1 # x /\ z \in 0 .. x
      BY <1>4
    <3>2. g[z - 1] = f[z - 1]
      BY <3>1
    <3>3. CASE z = x
      BY <3>1, <3>2, <3>3
    <3>4. CASE z # x
      <4>1. z \in 1 .. x - 1
        BY <1>4, <3>4
      <4>2. f[z] = step[z][f[z - 1]]
        BY <1>5, <4>1 DEF Runs
      <4>3. QED
        BY <3>1, <3>2, <3>4, <4>2
    <3>5. QED
      BY <3>3, <3>4
  <2> HIDE DEF g
  <2>3. QED
    BY <2>1, <2>2 DEF Runs
<1>7. QED
  BY <1>2, <1>6

\* There is one function of all numbers that runs like this.
LEMMA Recursion ==
    ASSUME NEW V, NEW base \in V, NEW step, \A z \in Nat : \A v \in V : step[z][v] \in V
    PROVE  \E f \in [Nat -> V] : Runs(f, step, base, 0) /\ \A m \in Nat : Runs(f, step, base, m)
<1> DEFINE R(m) == CHOOSE f : Runs(f, step, base, m)
           F == [m \in Nat |-> R(m)[m]]
<1>1. ASSUME NEW m \in Nat PROVE Runs(R(m), step, base, m)
  BY RunsExist
<1>2. F[0] = base
  <2>1. Runs(R(0), step, base, 0)
    BY <1>1
  <2>2. F[0] = R(0)[0]
    OBVIOUS
  <2>3. QED
    BY <2>1, <2>2 DEF Runs
<1>3. ASSUME NEW z \in Nat, z # 0 PROVE F[z] = step[z][F[z - 1]]
  <2>1. z - 1 \in Nat /\ z \in 1 .. z /\ z - 1 \in 0 .. z - 1
    BY <1>3
  <2>2. Runs(R(z), step, base, z) /\ Runs(R(z - 1), step, base, z - 1)
    BY <1>1, <2>1
  <2>3. Runs(R(z), step, base, z - 1)
    <3>1. \A y \in 1 .. z - 1 : y \in 1 .. z
      BY <2>1
    <3> HIDE DEF R
    <3>2. QED
      BY <2>2, <3>1 DEF Runs
  <2>4. F[z] = R(z)[z] /\ F[z - 1] = R(z - 1)[z - 1]
    BY <2>1
  <2> HIDE DEF R, F
  <2>5. R(z)[z - 1] = R(z - 1)[z - 1]
    BY <2>1, <2>2, <2>3, RunsAgree
  <2>6. R(z)[z] = step[z][R(z)[z - 1]]
    BY <2>1, <2>2 DEF Runs
  <2>7. QED
    BY <2>4, <2>5, <2>6
<1> HIDE DEF F, R
<1>4. ASSUME NEW m \in Nat PROVE Runs(F, step, base, m)
  BY <1>2, <1>3 DEF Runs
<1>5. ASSUME NEW z \in Nat PROVE F[z] \in V
  <2> DEFINE Bad == {y \in Nat : F[y] \notin V}
  <2>1. SUFFICES ASSUME Bad # {} PROVE FALSE
    OBVIOUS
  <2>2. PICK x \in Bad : \A y \in Bad : x <= y
    <3>1. Bad \subseteq Nat
      OBVIOUS
    <3> HIDE DEF Bad
    <3>2. QED
      BY <2>1, <3>1, SmallestNumber
  <2>3. x # 0 /\ x \in Nat
    BY <1>2, <2>2
  <2>4. x - 1 \in Nat /\ ~ (x <= x - 1)
    BY <2>3
  <2>5. F[x - 1] \in V
    BY <2>2, <2>4
  <2>6. QED
    BY <1>3, <2>2, <2>3, <2>5
<1>6. F = [m \in Nat |-> F[m]]
  BY DEF F
<1>7. F \in [Nat -> V]
  BY <1>5, <1>6
<1>8. QED
  BY <1>4, <1>7

--------------------------------------------------------------------------------
(* Folds over finite sets.  A value is made of an element and of the value without it. *)

Folded(g, step, base, ch, s) == g[s] = IF s = {} THEN base ELSE step[ch[s]][g[s \ {ch[s]}]]
AllFolded(g, step, base, ch, S) == \A s \in SUBSET S : Folded(g, step, base, ch, s)

LEMMA FoldedAgree ==
    ASSUME NEW S, IsFiniteSet(S), NEW step, NEW base, NEW ch,
           \A s \in SUBSET S : s # {} => ch[s] \in s,
           NEW g, NEW h, AllFolded(g, step, base, ch, S), AllFolded(h, step, base, ch, S)
    PROVE  g[S] = h[S]
<1> DEFINE Bad == {s \in SUBSET S : g[s] # h[s]}
<1>1. SUFFICES ASSUME Bad # {} PROVE FALSE
  OBVIOUS
<1>2. PICK s \in Bad : \A t \in Bad : t \subseteq s => t = s
  <2>1. Bad \subseteq SUBSET S
    OBVIOUS
  <2> HIDE DEF Bad
  <2>2. QED
    BY <1>1, <2>1, SmallestSet
<1>3. Folded(g, step, base, ch, s) /\ Folded(h, step, base, ch, s)
  BY <1>2 DEF AllFolded
<1>4. s # {}
  BY <1>2, <1>3 DEF Folded
<1> DEFINE t == s \ {ch[s]}
<1>5. ch[s] \in S /\ t \in SUBSET S /\ t \subseteq s /\ t # s
  BY <1>2, <1>4
<1>6. g[t] = h[t]
  BY <1>2, <1>5
<1>7. QED
  BY <1>2, <1>3, <1>4, <1>5, <1>6 DEF Folded

LEMMA FoldedExist ==
    ASSUME NEW S, IsFiniteSet(S), NEW step, NEW base, NEW ch,
           \A s \in SUBSET S : s # {} => ch[s] \in s
    PROVE  \E g : AllFolded(g, step, base, ch, S)
<1> DEFINE All(g, s) == AllFolded(g, step, base, ch, s)
           Bad == {s \in SUBSET S : ~ \E g : All(g, s)}
<1>1. SUFFICES ASSUME Bad # {} PROVE FALSE
  OBVIOUS
<1>2. PICK s \in Bad : \A t \in Bad : t \subseteq s => t = s
  <2>1. Bad \subseteq SUBSET S
    OBVIOUS
  <2> HIDE DEF Bad
  <2>2. QED
    BY <1>1, <2>1, SmallestSet
<1> DEFINE G(t) == CHOOSE g : All(g, t)
           h == [t \in SUBSET s |-> IF t = {} THEN base
                                    ELSE step[ch[t]][G(t \ {ch[t]})[t \ {ch[t]}]]]
<1>3. \A t \in SUBSET s : t # s => All(G(t), t)
  BY <1>2
<1>4. ASSUME NEW t \in SUBSET s, t # s PROVE h[t] = G(t)[t]
  <2>1. All(G(t), t)
    BY <1>3, <1>4
  <2>2. CASE t = {}
    BY <2>1, <2>2 DEF AllFolded, Folded
  <2>3. CASE t # {}
    <3> DEFINE u == t \ {ch[t]}
    <3>1. ch[t] \in t /\ u \in SUBSET s /\ u # s /\ u \in SUBSET t
      BY <1>2, <1>4, <2>3
    <3>2. All(G(u), u)
      BY <1>3, <3>1
    <3>3. All(G(t), u)
      BY <2>1, <3>1 DEF AllFolded
    <3>4. IsFiniteSet(u) /\ \A r \in SUBSET u : r # {} => ch[r] \in r
      BY <1>2, <3>1, FS_Subset
    <3> HIDE DEF G
    <3>5. G(t)[u] = G(u)[u]
      BY <3>2, <3>3, <3>4, FoldedAgree
    <3>6. G(t)[t] = step[ch[t]][G(t)[u]]
      BY <2>1, <2>3 DEF AllFolded, Folded
    <3>7. h[t] = step[ch[t]][G(u)[u]]
      BY <2>3
    <3>8. QED
      BY <3>5, <3>6, <3>7
  <2>4. QED
    BY <2>2, <2>3
<1>5. ASSUME NEW t \in SUBSET s PROVE Folded(h, step, base, ch, t)
  <2>1. CASE t = {}
    BY <2>1 DEF Folded
  <2>2. CASE t # {}
    <3> DEFINE u == t \ {ch[t]}
    <3>1. ch[t] \in t /\ u \in SUBSET s /\ u # s
      BY <1>2, <2>2
    <3>2. h[u] = G(u)[u]
      BY <1>4, <3>1
    <3>3. h[t] = step[ch[t]][G(u)[u]]
      BY <2>2
    <3> HIDE DEF h, G
    <3>4. QED
      BY <2>2, <3>2, <3>3 DEF Folded
  <2>3. QED
    BY <2>1, <2>2
<1> HIDE DEF h
<1>6. All(h, s)
  BY <1>5 DEF AllFolded
<1>7. QED
  BY <1>2, <1>6
--------------------------------------------------------------------------------
(* Folds of sequences, from the left. *)

Greatest == [s \in SUBSET Nat |-> Max(s)]

LEMMA GreatestIs ==
    ASSUME NEW m \in Nat, NEW s \in SUBSET (1 .. m)
    PROVE  /\ s # {} => /\ Max(s) \in s /\ \A y \in s : y <= Max(s)
                        /\ Greatest[s] = Max(s) 
           /\ s = 1 .. m /\ m # 0 => Max(s) = m /\ s \ {Max(s)} = 1 .. m - 1
<1>1. ASSUME s # {} PROVE Max(s) \in s /\ \A y \in s : y <= Max(s)
  <2> DEFINE Over == {y \in Nat : \A x \in s : x <= y}
  <2>1. m \in Over
    OBVIOUS
  <2>2. PICK x \in Over : \A y \in Over : x <= y
    <3>1. Over \subseteq Nat /\ Over # {}
      BY <2>1
    <3> HIDE DEF Over
    <3>2. QED
      BY <3>1, SmallestNumber
  <2>3. x \in s
    <3>1. SUFFICES ASSUME x \notin s PROVE FALSE
      OBVIOUS
    <3>2. \A y \in s : y <= x - 1
      <4>1. SUFFICES ASSUME NEW y \in s PROVE y <= x - 1
        OBVIOUS
      <4>2. y \in Nat /\ x \in Nat /\ y <= x /\ y # x
        BY <2>2, <3>1
      <4>3. QED
        BY <4>2
    <3>3. PICK y \in s : TRUE
      BY <1>1
    <3>4. x - 1 \in Nat
      <4>1. y \in 1 .. m /\ y <= x - 1 /\ x \in Nat
        BY <2>2, <3>2, <3>3
      <4>2. QED
        BY <4>1
    <3>5. x - 1 \in Over /\ ~ (x <= x - 1)
      BY <3>2, <3>4
    <3>6. QED
      BY <2>2, <3>5
  <2>4. \A y \in s : x >= y
    <3>1. SUFFICES ASSUME NEW y \in s PROVE x >= y
      OBVIOUS
    <3>2. y <= x /\ y \in Nat /\ x \in Nat
      BY <2>2
    <3>3. QED
      BY <3>2
  <2>5. Max(s) \in s /\ \A y \in s : Max(s) >= y
    BY <2>3, <2>4 DEF Max
  <2>6. ASSUME NEW y \in s PROVE y <= Max(s)
    <3>1. y \in s /\ Max(s) \in s /\ Max(s) >= y
      BY <2>5, <2>6
    <3>2. y \in Nat /\ Max(s) \in Nat
      <4>1. \A e \in s : e \in 1 .. m
        OBVIOUS
      <4>2. \A e \in 1 .. m : e \in Nat
        OBVIOUS
      <4>3. QED
        BY <3>1, <4>1, <4>2
    <3> DEFINE M == Max(s)
    <3>3. y \in Nat /\ M \in Nat /\ M >= y
      BY <3>1, <3>2
    <3> HIDE DEF M
    <3>4. y <= M
      BY <3>3
    <3>5. QED
      BY <3>4 DEF M
  <2>7. QED
    BY <2>5, <2>6
<1>2. s \in SUBSET Nat
  OBVIOUS
<1>3. Greatest[s] = Max(s)
  BY <1>2 DEF Greatest
<1>4. ASSUME s = 1 .. m, m # 0 PROVE Max(s) = m /\ s \ {Max(s)} = 1 .. m - 1
  <2>1. m \in s
    BY <1>4
  <2>2. Max(s) \in s /\ m <= Max(s)
    BY <1>1, <2>1
  <2>3. Max(s) = m
    BY <1>4, <2>2
  <2>4. s \ {m} = 1 .. m - 1
    BY <1>4
  <2>5. QED
    BY <2>3, <2>4
<1>5. QED
  BY <1>1, <1>3, <1>4

\* The value before each element and behind it.
Passes(f, step, base, m) ==
    /\ f[{}] = base
    /\ \A s \in SUBSET (1 .. m) : s # {} => f[s] = step[Max(s)][f[s \ {Max(s)}]]

LEMMA PassesExist ==
    ASSUME NEW m \in Nat, NEW V, NEW base \in V, NEW step,
           \A z \in 1 .. m : \A v \in V : step[z][v] \in V
    PROVE  \E f : Passes(f, step, base, m) /\ \A s \in SUBSET (1 .. m) : f[s] \in V
<1>1. IsFiniteSet(1 .. m)
  BY FS_Interval
<1>2. ASSUME NEW s \in SUBSET (1 .. m), s # {} PROVE Greatest[s] \in s
  <2>1. Max(s) \in s /\ Greatest[s] = Max(s)
    BY <1>2, GreatestIs
  <2>2. QED
    BY <2>1
<1>3. PICK f : AllFolded(f, step, base, Greatest, 1 .. m)
  BY <1>1, <1>2, FoldedExist
<1>4. f[{}] = base
  <2>1. {} \in SUBSET (1 .. m)
    OBVIOUS
  <2>2. QED
    BY <1>3, <2>1 DEF AllFolded, Folded
<1>5. ASSUME NEW s \in SUBSET (1 .. m), s # {}
      PROVE  f[s] = step[Max(s)][f[s \ {Max(s)}]]
  <2>1. Greatest[s] = Max(s)
    BY <1>5, GreatestIs
  <2>2. QED
    BY <1>3, <1>5, <2>1 DEF AllFolded, Folded
<1>6. ASSUME NEW s \in SUBSET (1 .. m) PROVE f[s] \in V
  <2> DEFINE I == 1 .. m
             Bad == {u \in SUBSET I : f[u] \notin V}
  <2>1. SUFFICES ASSUME Bad # {} PROVE FALSE
    OBVIOUS
  <2>2. PICK u \in Bad : \A r \in Bad : r \subseteq u => r = u
    <3>1. Bad \subseteq SUBSET I /\ IsFiniteSet(I)
      BY <1>1
    <3> HIDE DEF Bad, I
    <3>2. QED
      BY <2>1, <3>1, SmallestSet
  <2>3. u # {} /\ u \in SUBSET (1 .. m)
    BY <1>4, <2>2
  <2>4. Max(u) \in u
    BY <2>3, GreatestIs
  <2>5. f[u \ {Max(u)}] \in V /\ Max(u) \in 1 .. m
    BY <2>2, <2>3, <2>4
  <2>6. f[u] \in V
    BY <1>5, <2>3, <2>5
  <2>7. QED
    BY <2>2, <2>6
<1>7. QED
  BY <1>4, <1>5, <1>6 DEF Passes

\* Sums of numbers.
Totals(t, s) ==
    /\ t[0] = 0
    /\ \A z \in 1 .. Len(s) : t[z] = t[z - 1] + s[z]

LEMMA TotalsExist ==
    ASSUME NEW s \in Seq(Int)
    PROVE  \E t \in [0 .. Len(s) -> Int] : Totals(t, s) /\ FoldLeft(+, 0, s) = t[Len(s)]
<1> DEFINE m == Len(s)
           P(g) == g = [u \in SUBSET (1 .. m) |-> IF u = {} THEN 0 ELSE g[u \ {Max(u)}] + s[Max(u)]]
           f == CHOOSE g : P(g)
<1>1. m \in Nat /\ DOMAIN s = 1 .. m /\ \A z \in 1 .. m : s[z] \in Int
  OBVIOUS
<1>2. FoldLeft(+, 0, s) = f[1 .. m]
  BY <1>1 DEF FoldLeft, MapThenFoldSet
<1> HIDE DEF m
<1>3. \E g : P(g)
  <2> DEFINE step == [z \in 1 .. m |-> [v \in Int |-> v + s[z]]]
  <2>1. \A z \in 1 .. m : \A v \in Int : step[z][v] = v + s[z] /\ step[z][v] \in Int
    BY <1>1
  <2> HIDE DEF step
  <2>2. PICK h : Passes(h, step, 0, m) /\ \A u \in SUBSET (1 .. m) : h[u] \in Int
    <3>1. 0 \in Int
      OBVIOUS
    <3>2. \A z \in 1 .. m : \A v \in Int : step[z][v] \in Int
      BY <2>1
    <3>3. QED
      BY <1>1, <3>1, <3>2, PassesExist
  <2> DEFINE g == [u \in SUBSET (1 .. m) |-> h[u]]
  <2>3. ASSUME NEW u \in SUBSET (1 .. m)
        PROVE  h[u] = IF u = {} THEN 0 ELSE g[u \ {Max(u)}] + s[Max(u)]
    <3>1. CASE u = {}
      BY <2>2, <3>1 DEF Passes
    <3>2. CASE u # {}
      <4>1. Max(u) \in 1 .. m /\ u \ {Max(u)} \in SUBSET (1 .. m)
        BY <1>1, <3>2, GreatestIs
      <4>2. h[u] = step[Max(u)][h[u \ {Max(u)}]]
        BY <2>2, <3>2 DEF Passes
      <4>3. QED
        BY <2>1, <2>2, <3>2, <4>1, <4>2
    <3>3. QED
      BY <3>1, <3>2
  <2>4. P(g)
    BY <2>3
  <2>5. QED
    BY <2>4
<1>4. P(f)
  BY <1>3
<1> HIDE DEF f
<1> DEFINE t == [z \in 0 .. m |-> f[1 .. z]]
<1>5. f[{}] = 0
  <2>1. {} \in SUBSET (1 .. m)
    OBVIOUS
  <2>2. QED
    BY <1>4, <2>1
<1>6. ASSUME NEW z \in 1 .. m PROVE f[1 .. z] = f[1 .. z - 1] + s[z]
  <2>1. z \in Nat /\ z # 0 /\ 1 .. z # {} /\ 1 .. z \in SUBSET (1 .. m)
    <3>1. z \in Nat /\ z >= 1 /\ z <= m /\ m \in Nat
      BY <1>1
    <3>2. 1 \in 1 .. z
      BY <3>1
    <3>3. 1 .. z \subseteq 1 .. m
      BY <3>1
    <3>4. 1 .. z # {}
      BY <3>2
    <3>5. 1 .. z \in SUBSET (1 .. m)
      BY <3>3
    <3>6. z # 0
      BY <3>1
    <3>7. QED
      BY <3>1, <3>4, <3>5, <3>6
  <2>2. Max(1 .. z) = z /\ (1 .. z) \ {Max(1 .. z)} = 1 .. z - 1
    BY <2>1, GreatestIs
  <2>3. QED
    BY <1>4, <2>1, <2>2
<1>7. t[0] = 0
  <2>1. 1 .. 0 = {} /\ 0 \in 0 .. m
    BY <1>1
  <2>2. QED
    BY <1>5, <2>1
<1>8. \A z \in 1 .. m : t[z] = t[z - 1] + s[z]
  <2>1. \A z \in 1 .. m : z \in 0 .. m /\ z - 1 \in 0 .. m
    BY <1>1
  <2>2. QED
    BY <1>6, <2>1
<1>9. ASSUME NEW z \in 0 .. m PROVE t[z] \in Int
  <2> DEFINE Bad == {y \in 0 .. m : t[y] \notin Int}
  <2> HIDE DEF t
  <2>1. SUFFICES ASSUME Bad # {} PROVE FALSE
    OBVIOUS
  <2>2. PICK x \in Bad : \A y \in Bad : x <= y
    <3>1. Bad \subseteq Nat
      OBVIOUS
    <3> HIDE DEF Bad
    <3>2. QED
      BY <2>1, <3>1, SmallestNumber
  <2>3. x # 0 /\ x \in 1 .. m
    BY <1>1, <1>7, <2>2
  <2>4. t[x - 1] \in Int
    <3>1. x - 1 \in 0 .. m /\ ~ (x <= x - 1)
      BY <1>1, <2>3
    <3>2. QED
      BY <2>2, <3>1
  <2>5. t[x] \in Int
    BY <1>1, <1>8, <2>3, <2>4
  <2>6. QED
    BY <2>2, <2>5
<1>10. t \in [0 .. m -> Int] /\ t[m] = f[1 .. m]
  BY <1>1, <1>9
<1> HIDE DEF t
<1>11. QED
  BY <1>2, <1>7, <1>8, <1>10 DEF Totals, m

LEMMA TotalsAgree ==
    ASSUME NEW r \in Seq(Int), NEW s \in Seq(Int), NEW m \in Nat, m <= Len(r), m <= Len(s),
           \A z \in 1 .. m : r[z] = s[z],
           NEW t, Totals(t, r), NEW u, Totals(u, s)
    PROVE  t[m] = u[m]
<1> DEFINE Bad == {y \in 0 .. m : t[y] # u[y]}
<1>1. SUFFICES ASSUME Bad # {} PROVE FALSE
  OBVIOUS
<1>2. PICK x \in Bad : \A y \in Bad : x <= y
  <2>1. Bad \subseteq Nat
    OBVIOUS
  <2> HIDE DEF Bad
  <2>2. QED
    BY <1>1, <2>1, SmallestNumber
<1>3. x # 0 /\ x \in 1 .. m
  BY <1>2 DEF Totals
<1>4. t[x - 1] = u[x - 1]
  <2>1. x - 1 \in 0 .. m /\ ~ (x <= x - 1)
    BY <1>3
  <2>2. QED
    BY <1>2, <2>1
<1>5. x \in 1 .. Len(r) /\ x \in 1 .. Len(s)
  BY <1>3
<1>6. t[x] = t[x - 1] + r[x] /\ u[x] = u[x - 1] + s[x]
  BY <1>5 DEF Totals
<1>7. QED
  BY <1>2, <1>3, <1>4, <1>6

\* A sum is known by any function that adds up to it.
LEMMA TotalIs ==
    ASSUME NEW s \in Seq(Int), NEW t, Totals(t, s)
    PROVE  FoldLeft(+, 0, s) = t[Len(s)]
<1>1. PICK u \in [0 .. Len(s) -> Int] : Totals(u, s) /\ FoldLeft(+, 0, s) = u[Len(s)]
  BY TotalsExist
<1> DEFINE m == Len(s)
<1>2. m \in Nat /\ m <= m /\ m <= Len(s)
  OBVIOUS
<1> HIDE DEF m
<1>3. u[m] = t[m]
  <2>1. \A z \in 1 .. m : s[z] = s[z]
    OBVIOUS
  <2>2. Totals(u, s)
    BY <1>1
  <2>3. QED
    BY <1>2, <2>1, <2>2, TotalsAgree
<1>4. QED
  BY <1>1, <1>3 DEF m

TotalOf(s) == FoldLeft(+, 0, s)

\* The sum of two sequences is that of both.
LEMMA TotalOfBoth ==
    ASSUME NEW r \in Seq(Int), NEW s \in Seq(Int)
    PROVE  TotalOf(r \o s) = TotalOf(r) + TotalOf(s) /\ TotalOf(r) \in Int /\ TotalOf(s) \in Int
<1> DEFINE q == r \o s
           i == Len(r)
           j == Len(s)
<1>1. /\ q \in Seq(Int) /\ i \in Nat /\ j \in Nat /\ Len(q) = i + j
      /\ \A x \in 1 .. i : q[x] = r[x]
      /\ \A x \in 1 .. j : q[i + x] = s[x]
  BY JoinedAre
<1> HIDE DEF q
<1>2. PICK t \in [0 .. Len(q) -> Int] : Totals(t, q) /\ TotalOf(q) = t[Len(q)]
  BY <1>1, TotalsExist DEF TotalOf
<1>3. PICK u \in [0 .. Len(r) -> Int] : Totals(u, r) /\ TotalOf(r) = u[Len(r)]
  BY TotalsExist DEF TotalOf
<1>4. PICK w \in [0 .. Len(s) -> Int] : Totals(w, s) /\ TotalOf(s) = w[Len(s)]
  BY TotalsExist DEF TotalOf
<1>5. ASSUME NEW z \in 0 .. i PROVE t[z] = u[z]
  <2> DEFINE Bad == {y \in 0 .. i : t[y] # u[y]}
  <2>1. SUFFICES ASSUME Bad # {} PROVE FALSE
    OBVIOUS
  <2>2. PICK x \in Bad : \A y \in Bad : x <= y
    <3>1. Bad \subseteq Nat
      OBVIOUS
    <3> HIDE DEF Bad
    <3>2. QED
      BY <2>1, <3>1, SmallestNumber
  <2>3. x # 0
    BY <1>2, <1>3, <2>2 DEF Totals
  <2>4. x \in 1 .. i /\ x - 1 \in 0 .. i /\ ~ (x <= x - 1) /\ x \in 1 .. i + j
    BY <1>1, <2>2, <2>3
  <2>5. t[x - 1] = u[x - 1] /\ q[x] = r[x]
    BY <1>1, <2>2, <2>4
  <2>6. t[x] = t[x - 1] + q[x]
    BY <1>1, <1>2, <2>4 DEF Totals
  <2>7. u[x] = u[x - 1] + r[x]
    BY <1>3, <2>4 DEF Totals
  <2>8. QED
    BY <2>2, <2>5, <2>6, <2>7
<1>6. \A z \in 1 .. j : w[z] = w[z - 1] + s[z]
  BY <1>4 DEF Totals
<1>7. \A z \in 1 .. i + j : t[z] = t[z - 1] + q[z]
  BY <1>1, <1>2 DEF Totals
<1>8. /\ \A z \in 0 .. i + j : t[z] \in Int
      /\ \A z \in 0 .. j : w[z] \in Int
      /\ \A z \in 1 .. j : s[z] \in Int
      /\ w[0] = 0 /\ u[i] \in Int
  <2>1. \A z \in 0 .. i + j : t[z] \in Int
    BY <1>1, <1>2
  <2>2. \A z \in 0 .. j : w[z] \in Int
    BY <1>4
  <2>3. \A z \in 1 .. j : s[z] \in Int
    OBVIOUS
  <2>4. w[0] = 0
    BY <1>4 DEF Totals
  <2>5. i \in 0 .. Len(r)
    BY <1>1
  <2>6. u[i] \in Int
    BY <1>3, <2>5
  <2>7. QED
    BY <2>1, <2>2, <2>3, <2>4, <2>6
<1>9. TotalOf(q) = t[i + j] /\ TotalOf(r) = u[i] /\ TotalOf(s) = w[j]
  BY <1>1, <1>2, <1>3, <1>4
<1> HIDE DEF i, j
<1>10. ASSUME NEW z \in 0 .. j PROVE t[i + z] = u[i] + w[z]
  <2> DEFINE Bad == {y \in 0 .. j : t[i + y] # u[i] + w[y]}
  <2>1. SUFFICES ASSUME Bad # {} PROVE FALSE
    OBVIOUS
  <2>2. PICK x \in Bad : \A y \in Bad : x <= y
    <3>1. Bad \subseteq Nat
      OBVIOUS
    <3> HIDE DEF Bad
    <3>2. QED
      BY <2>1, <3>1, SmallestNumber
  <2>3. x # 0
    BY <1>1, <1>5, <1>8, <2>2
  <2>4. x \in 1 .. j /\ x - 1 \in 0 .. j /\ ~ (x <= x - 1) /\ i + x \in 1 .. i + j
        /\ (i + x) - 1 = i + (x - 1)
    BY <1>1, <2>2, <2>3
  <2>5. t[i + (x - 1)] = u[i] + w[x - 1]
    BY <2>2, <2>4
  <2>6. t[i + x] = t[i + (x - 1)] + s[x]
    BY <1>1, <1>7, <2>4
  <2>7. w[x] = w[x - 1] + s[x]
    BY <1>6, <2>4
  <2>8. w[x - 1] \in Int /\ s[x] \in Int
    BY <1>8, <2>4
  <2>9. QED
    BY <1>8, <2>2, <2>5, <2>6, <2>7, <2>8, SMTT(30)
<1>11. j \in 0 .. j
  BY <1>1
<1>12. t[i + j] = u[i] + w[j] /\ w[j] \in Int
  BY <1>8, <1>10, <1>11
<1>13. QED
  BY <1>8, <1>9, <1>12 DEF q

LEMMA TotalOfFew ==
    TotalOf(<<>>) = 0 /\ \A x \in Int : TotalOf(<<x>>) = x
<1>1. TotalOf(<<>>) = 0
  <2> DEFINE s == << >>
             t == [z \in {0} |-> 0]
  <2>1. s \in Seq(Int) /\ Len(s) = 0 /\ t[0] = 0
    OBVIOUS
  <2>2. Totals(t, s)
    BY <2>1 DEF Totals
  <2> HIDE DEF s, t
  <2>3. FoldLeft(+, 0, s) = t[Len(s)]
    BY <2>1, <2>2, TotalIs
  <2>4. QED
    BY <2>1, <2>3 DEF TotalOf, s
<1>2. ASSUME NEW x \in Int PROVE TotalOf(<<x>>) = x
  <2> DEFINE s == << x >>
             t == [z \in 0 .. 1 |-> IF z = 0 THEN 0 ELSE x]
  <2>1. s \in Seq(Int) /\ Len(s) = 1 /\ t[0] = 0 /\ t[1] = x /\ s[1] = x
    OBVIOUS
  <2>2. Totals(t, s)
    <3>1. \A z \in 1 .. 1 : z = 1
      OBVIOUS
    <3> HIDE DEF s, t
    <3>2. t[1] = t[1 - 1] + s[1]
      BY <2>1
    <3>3. QED
      BY <2>1, <3>1, <3>2 DEF Totals
  <2> HIDE DEF s, t
  <2>3. FoldLeft(+, 0, s) = t[Len(s)]
    BY <2>1, <2>2, TotalIs
  <2>4. QED
    BY <2>1, <2>3 DEF TotalOf, s
<1>3. QED
  BY <1>1, <1>2

Zeros(m) == [z \in 1 .. m |-> 0]

LEMMA ZerosAre ==
    \A m \in Nat : /\ Zeros(m) \in Seq({0}) /\ Zeros(m) \in Seq(Nat) /\ Len(Zeros(m)) = m
                   /\ Zeros(m + 1) = Zeros(m) \o <<0>>
<1>1. TAKE m \in Nat
<1>2. /\ Zeros(m + 1) \in Seq(Int) /\ Len(Zeros(m + 1)) = m + 1
      /\ \A x \in 1 .. m + 1 : Zeros(m + 1)[x] = 0
  BY DEF Zeros
<1>3. /\ Zeros(m) \in Seq({0}) /\ Zeros(m) \in Seq(Int) /\ Len(Zeros(m)) = m
      /\ \A x \in 1 .. m : Zeros(m)[x] = 0
  BY DEF Zeros
<1>4. Zeros(m) \o <<0>> \in Seq(Int) /\ Len(Zeros(m) \o <<0>>) = m + 1
  BY <1>3
<1>5. \A x \in 1 .. m + 1 : (Zeros(m) \o <<0>>)[x] = 0
  BY <1>3
<1>6. Zeros(m + 1) = Zeros(m) \o <<0>>
  BY <1>2, <1>4, <1>5, SameSeq
<1>7. Zeros(m) \in Seq(Nat)
  BY DEF Zeros
<1>8. QED
  BY <1>3, <1>6, <1>7

LEMMA TotalOfZeros == \A m \in Nat : Zeros(m) \in Seq({0}) /\ TotalOf(Zeros(m)) = 0
<1> DEFINE T == {m \in Nat : TotalOf(Zeros(m)) = 0}
<1>1. 0 \in T
  <2>1. Zeros(0) = <<>>
    BY DEF Zeros
  <2>2. QED
    BY <2>1, TotalOfFew
<1>2. ASSUME NEW m \in Nat, m \in T PROVE m + 1 \in T
  <2>1. Zeros(m + 1) = Zeros(m) \o <<0>>
    BY ZerosAre
  <2>2. Zeros(m) \in Seq(Int) /\ <<0>> \in Seq(Int)
    BY DEF Zeros
  <2>3. TotalOf(Zeros(m) \o <<0>>) = TotalOf(Zeros(m)) + TotalOf(<<0>>)
    BY <2>2, TotalOfBoth
  <2>4. 0 \in Int /\ TotalOf(<<0>>) = 0
    BY TotalOfFew
  <2>5. TotalOf(Zeros(m + 1)) = 0
    <3>1. TotalOf(Zeros(m)) = 0
      BY <1>2
    <3> DEFINE a == Zeros(m + 1)
               e == Zeros(m) \o <<0>>
    <3>2. TotalOf(e) = 0
      BY <2>3, <2>4, <3>1
    <3>3. a = e
      BY <2>1
    <3> HIDE DEF a, e
    <3>4. TotalOf(a) = 0
      BY <3>2, <3>3
    <3>5. QED
      BY <3>4 DEF a
  <2>6. QED
    BY <2>5
<1> HIDE DEF T
<1>3. \A m \in Nat : m \in T
  BY <1>1, <1>2, AllNumbers
<1>4. \A m \in Nat : Zeros(m) \in Seq({0})
  BY DEF Zeros
<1>5. QED
  BY <1>3, <1>4 DEF T

\* The first elements add up to no more than all, where none is negative.
LEMMA TotalOfFirst ==
    ASSUME NEW s \in Seq(Nat)
    PROVE  TotalOf(s) \in Nat /\ \A x \in 1 .. Len(s) : s[x] <= TotalOf(s)
<1> DEFINE j == Len(s)
<1>1. s \in Seq(Int) /\ j \in Nat /\ \A x \in 1 .. j : s[x] \in Nat
  OBVIOUS
<1>2. PICK t \in [0 .. Len(s) -> Int] : Totals(t, s) /\ TotalOf(s) = t[Len(s)]
  BY <1>1, TotalsExist DEF TotalOf
<1>3. t[0] = 0 /\ \A z \in 1 .. j : t[z] = t[z - 1] + s[z]
  BY <1>2 DEF Totals
<1>4. TotalOf(s) = t[j]
  BY <1>2
<1> HIDE DEF j
<1>5. ASSUME NEW z \in 0 .. j PROVE t[z] \in Nat /\ \A x \in 1 .. z : s[x] <= t[z]
  <2> DEFINE Good(y) == t[y] \in Nat /\ \A x \in 1 .. y : s[x] <= t[y]
             Bad == {y \in 0 .. j : ~ Good(y)}
  <2>1. SUFFICES ASSUME Bad # {} PROVE FALSE
    OBVIOUS
  <2>2. PICK y \in Bad : \A x \in Bad : y <= x
    <3>1. Bad \subseteq Nat
      OBVIOUS
    <3> HIDE DEF Bad
    <3>2. QED
      BY <2>1, <3>1, SmallestNumber
  <2>3. y # 0
    BY <1>3, <2>2
  <2>4. y \in 1 .. j /\ y - 1 \in 0 .. j /\ ~ (y <= y - 1)
    BY <1>1, <2>2, <2>3
  <2>5. Good(y - 1)
    BY <2>2, <2>4
  <2>6. t[y] = t[y - 1] + s[y] /\ s[y] \in Nat
    BY <1>1, <1>3, <2>4
  <2>7. ASSUME NEW x \in 1 .. y PROVE s[x] <= t[y]
    <3>1. x = y \/ x \in 1 .. y - 1
      BY <2>4
    <3>2. x \in 1 .. j
      BY <1>1, <2>4
    <3>3. s[x] \in Nat
      BY <1>1, <3>2
    <3>4. QED
      BY <2>5, <2>6, <3>1, <3>3
  <2>8. QED
    BY <2>2, <2>5, <2>6, <2>7
<1>6. j \in 0 .. j
  BY <1>1
<1>7. TotalOf(s) \in Nat /\ \A x \in 1 .. j : s[x] <= TotalOf(s)
  BY <1>4, <1>5, <1>6
<1>8. QED
  BY <1>7 DEF j

--------------------------------------------------------------------------------
(* Sums over finite sets.  They are folds, and a fold is what any function is that   *)
(* satisfies its equation; that there is one, and what it gives, follows from a       *)
(* smallest set for which it would not.                                              *)

Choice(s) == CHOOSE x \in s : TRUE
Adds(g, v, s) ==
    g[s] = IF s = {} THEN 0 ELSE v[Choice(s)] + g[s \ {Choice(s)}]
Sums(g, v, S) == \A s \in SUBSET S : Adds(g, v, s)
SumOf(v, S) == (CHOOSE g : Sums(g, v, S))[S]

LEMMA ChoiceIn == ASSUME NEW s, s # {} PROVE Choice(s) \in s
  BY DEF Choice

LEMMA SumsAgree ==
    ASSUME NEW S, IsFiniteSet(S), NEW v, NEW w, \A c \in S : v[c] = w[c],
           NEW g, NEW h, Sums(g, v, S), Sums(h, w, S)
    PROVE  g[S] = h[S]
<1> DEFINE Bad == {s \in SUBSET S : g[s] # h[s]}
<1>1. SUFFICES ASSUME Bad # {} PROVE FALSE
  OBVIOUS
<1>2. PICK s \in Bad : \A t \in Bad : t \subseteq s => t = s
  <2>1. Bad \subseteq SUBSET S
    OBVIOUS
  <2> HIDE DEF Bad
  <2>2. QED
    BY <1>1, <2>1, SmallestSet
<1>3. Adds(g, v, s) /\ Adds(h, w, s)
  BY <1>2 DEF Sums
<1>4. s # {}
  BY <1>2, <1>3 DEF Adds
<1> DEFINE t == s \ {Choice(s)}
<1>5. Choice(s) \in S /\ t \in SUBSET S /\ t \subseteq s /\ t # s
  BY <1>2, <1>4, ChoiceIn
<1>6. g[t] = h[t]
  BY <1>2, <1>5
<1>7. QED
  BY <1>2, <1>3, <1>4, <1>5, <1>6 DEF Adds

LEMMA SumsExist ==
    ASSUME NEW S, IsFiniteSet(S), NEW v PROVE \E g : Sums(g, v, S)
<1> DEFINE Bad == {s \in SUBSET S : ~ \E g : Sums(g, v, s)}
<1>1. SUFFICES ASSUME Bad # {} PROVE FALSE
  OBVIOUS
<1>2. PICK s \in Bad : \A t \in Bad : t \subseteq s => t = s
  <2>1. Bad \subseteq SUBSET S
    OBVIOUS
  <2> HIDE DEF Bad
  <2>2. QED
    BY <1>1, <2>1, SmallestSet
<1> DEFINE G(t) == CHOOSE g : Sums(g, v, t)
           h == [t \in SUBSET s |-> IF t = {} THEN 0
                                    ELSE v[Choice(t)] + G(t \ {Choice(t)})[t \ {Choice(t)}]]
<1>3. \A t \in SUBSET s : t # s => Sums(G(t), v, t)
  BY <1>2
<1>4. ASSUME NEW t \in SUBSET s, t # s PROVE h[t] = G(t)[t]
  <2>1. Sums(G(t), v, t)
    BY <1>3, <1>4
  <2>2. CASE t = {}
    BY <2>1, <2>2 DEF Sums, Adds
  <2>3. CASE t # {}
    <3> DEFINE u == t \ {Choice(t)}
    <3>1. Choice(t) \in t /\ u \in SUBSET s /\ u # s /\ u \in SUBSET t
      BY <1>4, <2>3, ChoiceIn
    <3>2. Sums(G(u), v, u)
      BY <1>3, <3>1
    <3>3. Sums(G(t), v, u)
      BY <2>1, <3>1 DEF Sums
    <3>4. IsFiniteSet(u)
      BY <1>2, <3>1, FS_Subset
    <3> HIDE DEF G
    <3>5. G(t)[u] = G(u)[u]
      BY <3>2, <3>3, <3>4, SumsAgree
    <3>6. G(t)[t] = v[Choice(t)] + G(t)[u]
      BY <2>1, <2>3 DEF Sums, Adds
    <3>7. h[t] = v[Choice(t)] + G(u)[u]
      BY <2>3
    <3>8. QED
      BY <3>5, <3>6, <3>7
  <2>4. QED
    BY <2>2, <2>3
<1>5. ASSUME NEW t \in SUBSET s PROVE Adds(h, v, t)
  <2>1. CASE t = {}
    BY <2>1 DEF Adds
  <2>2. CASE t # {}
    <3> DEFINE u == t \ {Choice(t)}
    <3>1. Choice(t) \in t /\ u \in SUBSET s /\ u # s
      BY <2>2, ChoiceIn
    <3>2. h[u] = G(u)[u]
      BY <1>4, <3>1
    <3>3. h[t] = v[Choice(t)] + G(u)[u]
      BY <2>2
    <3>4. QED
      BY <2>2, <3>2, <3>3 DEF Adds
  <2>3. QED
    BY <2>1, <2>2
<1> HIDE DEF h
<1>6. Sums(h, v, s)
  BY <1>5 DEF Sums
<1>7. QED
  BY <1>2, <1>6

LEMMA SumIs ==
    ASSUME NEW S, IsFiniteSet(S), NEW v, NEW g, Sums(g, v, S)
    PROVE  g[S] = SumOf(v, S)
<1>1. Sums(CHOOSE h : Sums(h, v, S), v, S)
  OBVIOUS
<1>2. QED
  BY <1>1, SumsAgree DEF SumOf

LEMMA SumStep ==
    ASSUME NEW S, IsFiniteSet(S), NEW v
    PROVE  /\ S = {} => SumOf(v, S) = 0
           /\ S # {} => SumOf(v, S) = v[Choice(S)] + SumOf(v, S \ {Choice(S)})
<1>1. PICK g : Sums(g, v, S)
  BY SumsExist
<1>2. SumOf(v, S) = g[S] /\ Adds(g, v, S)
  BY <1>1, SumIs DEF Sums
<1>3. CASE S = {}
  BY <1>2, <1>3 DEF Adds
<1>4. CASE S # {}
  <2> DEFINE t == S \ {Choice(S)}
  <2>1. IsFiniteSet(t) /\ t \in SUBSET S
    BY FS_Subset
  <2>2. Sums(g, v, t)
    BY <1>1, <2>1 DEF Sums
  <2>3. g[t] = SumOf(v, t)
    BY <2>1, <2>2, SumIs
  <2>4. QED
    BY <1>2, <1>4, <2>3 DEF Adds
<1>5. QED
  BY <1>3, <1>4

LEMMA SumIsInteger ==
    ASSUME NEW S, IsFiniteSet(S), NEW v, \A c \in S : v[c] \in Int
    PROVE  SumOf(v, S) \in Int
<1> DEFINE Bad == {s \in SUBSET S : SumOf(v, s) \notin Int}
<1>1. SUFFICES ASSUME Bad # {} PROVE FALSE
  OBVIOUS
<1>2. PICK s \in Bad : \A t \in Bad : t \subseteq s => t = s
  <2>1. Bad \subseteq SUBSET S
    OBVIOUS
  <2> HIDE DEF Bad
  <2>2. QED
    BY <1>1, <2>1, SmallestSet
<1>3. IsFiniteSet(s)
  BY <1>2, FS_Subset
<1>4. s # {}
  <2>1. s = {} => SumOf(v, s) = 0
    BY <1>3, SumStep
  <2>2. SumOf(v, s) \notin Int /\ 0 \in Int
    BY <1>2
  <2>3. QED
    BY <2>1, <2>2
<1> DEFINE t == s \ {Choice(s)}
<1>5. Choice(s) \in S /\ t \in SUBSET S /\ t \subseteq s /\ t # s
  BY <1>2, <1>4, ChoiceIn
<1>6. SumOf(v, t) \in Int /\ v[Choice(s)] \in Int
  BY <1>2, <1>5
<1>7. SumOf(v, s) = v[Choice(s)] + SumOf(v, t)
  BY <1>3, <1>4, SumStep
<1> HIDE DEF t
<1>8. SumOf(v, s) \in Int
  BY <1>6, <1>7
<1>9. QED
  BY <1>2, <1>8

\* Whichever element is added last.
LEMMA SumOfOneMore ==
    ASSUME NEW S, IsFiniteSet(S), NEW x \in S, NEW v, \A c \in S : v[c] \in Int
    PROVE  SumOf(v, S) = v[x] + SumOf(v, S \ {x})
<1> DEFINE Bad == {s \in SUBSET S : \E y \in s : SumOf(v, s) # v[y] + SumOf(v, s \ {y})}
<1>1. SUFFICES ASSUME Bad # {} PROVE FALSE
  OBVIOUS
<1>2. PICK s \in Bad : \A t \in Bad : t \subseteq s => t = s
  <2>1. Bad \subseteq SUBSET S
    OBVIOUS
  <2> HIDE DEF Bad
  <2>2. QED
    BY <1>1, <2>1, SmallestSet
<1>3. PICK y \in s : SumOf(v, s) # v[y] + SumOf(v, s \ {y})
  BY <1>2
<1> DEFINE c == Choice(s)
<1>4. c \in s /\ s \in SUBSET S /\ IsFiniteSet(s)
  BY <1>2, <1>3, ChoiceIn, FS_Subset
<1>5. SumOf(v, s) = v[c] + SumOf(v, s \ {c})
  BY <1>3, <1>4, SumStep
<1>6. c # y
  BY <1>3, <1>5
<1> HIDE DEF c
<1>7. /\ s \ {c} \in SUBSET S /\ s \ {c} \subseteq s /\ s \ {c} # s /\ y \in s \ {c}
      /\ s \ {y} \in SUBSET S /\ s \ {y} \subseteq s /\ s \ {y} # s /\ c \in s \ {y}
  BY <1>3, <1>4, <1>6
<1>8. s \ {c} \notin Bad /\ s \ {y} \notin Bad
  BY <1>2, <1>7
<1>9. /\ SumOf(v, s \ {c}) = v[y] + SumOf(v, (s \ {c}) \ {y})
      /\ SumOf(v, s \ {y}) = v[c] + SumOf(v, (s \ {y}) \ {c})
  BY <1>7, <1>8
<1>10. (s \ {c}) \ {y} = (s \ {y}) \ {c} /\ (s \ {c}) \ {y} \in SUBSET S
  BY <1>4
<1> DEFINE r == SumOf(v, (s \ {c}) \ {y})
<1>11. r \in Int /\ v[c] \in Int /\ v[y] \in Int
  <2>1. IsFiniteSet((s \ {c}) \ {y})
    BY <1>10, FS_Subset
  <2>2. r \in Int
    BY <1>10, <2>1, SumIsInteger
  <2>3. QED
    BY <1>3, <1>4, <2>2
<1>12. SumOf(v, s) = v[c] + (v[y] + r) /\ SumOf(v, s \ {y}) = v[c] + r
  BY <1>5, <1>9, <1>10
<1> HIDE DEF r
<1>13. SumOf(v, s) = v[y] + SumOf(v, s \ {y})
  BY <1>11, <1>12
<1>14. QED
  BY <1>3, <1>13

================================================================================
