------------------------------ MODULE ReaderProofs ------------------------------
(***************************************************************************)
(* What the two readers return, for any messages, any order in which the   *)
(* messages are sent and mined, and any window of blocks: backward, whole  *)
(* messages; forward, all of the chain in the blocks and nothing twice,    *)
(* and nothing at all when there are too few blocks.                       *)
(***************************************************************************)
EXTENDS ChainReader, SequenceProofs

LEMMA NumbersAre ==
    ASSUME NEW a \in Nat, NEW b \in Nat, a <= b + 1
    PROVE  /\ Numbers(a, b) \in Seq(a .. b)
           /\ Len(Numbers(a, b)) = b - a + 1
           /\ \A x \in 1 .. b - a + 1 : Numbers(a, b)[x] = a + x - 1
BY DEF Numbers

--------------------------------------------------------------------------------
(* Where the messages begin and end. *)

Kind == {"data", "single", "end"}
Written == msgs \in [1 .. NumMessages -> Messages]

LEMMA MessagesAre ==
    ASSUME ReaderAssumption, Written
    PROVE  /\ NumMessages \in Nat /\ Len(msgs) = NumMessages
           /\ msgs \in Seq(Seq(Kind))
           /\ \A m \in 1 .. NumMessages :
                /\ msgs[m] \in Seq(Kind) /\ Len(msgs[m]) \in Nat \ {0}
                /\ \A x \in 1 .. Len(msgs[m]) : msgs[m][x] = "end" <=> x = Len(msgs[m])
<1>1. NumMessages \in Nat
  BY DEF ReaderAssumption
<1>2. ASSUME NEW m \in 1 .. NumMessages
      PROVE  /\ msgs[m] \in Seq(Kind) /\ Len(msgs[m]) \in Nat \ {0}
             /\ \A x \in 1 .. Len(msgs[m]) : msgs[m][x] = "end" <=> x = Len(msgs[m])
  <2>1. msgs[m] \in Messages
    BY DEF Written
  <2>2. /\ msgs[m] \in Seq(Kind) /\ msgs[m] # <<>>
        /\ \A x \in DOMAIN msgs[m] : (msgs[m][x] = "end") <=> (x = Len(msgs[m]))
    BY <2>1 DEF ReaderAssumption, Kind
  <2>3. DOMAIN msgs[m] = 1 .. Len(msgs[m]) /\ Len(msgs[m]) \in Nat /\ Len(msgs[m]) # 0
    BY <2>2
  <2>4. QED
    BY <2>2, <2>3
<1>3. msgs \in [1 .. NumMessages -> Seq(Kind)]
  BY <1>2 DEF Written
<1>4. QED
  BY <1>1, <1>2, <1>3

LEMMA PlacesAre ==
    ASSUME ReaderAssumption, Written
    PROVE  /\ Kinds \in Seq(Kind) /\ Total \in Nat /\ Total = Start(NumMessages + 1) - 1
           /\ Start(1) = 1
           /\ \A m \in 1 .. NumMessages + 1 : Start(m) \in Nat \ {0} /\ Start(m) <= Total + 1
           /\ \A m \in 1 .. NumMessages :
                /\ Start(m + 1) = Start(m) + Len(msgs[m])
                /\ Close(m) = Start(m) + Len(msgs[m]) - 1
                /\ Start(m) <= Close(m) /\ Close(m) \in 1 .. Total
                /\ \A x \in 1 .. Len(msgs[m]) : Kinds[Start(m) + x - 1] = msgs[m][x]
<1> DEFINE M == NumMessages
           F(n) == Flat(msgs, n)
<1>1. /\ M \in Nat /\ Len(msgs) = M /\ msgs \in Seq(Seq(Kind))
      /\ \A m \in 1 .. M : msgs[m] \in Seq(Kind) /\ Len(msgs[m]) \in Nat \ {0}
  BY MessagesAre
<1>2. \A m \in 1 .. M + 1 : Start(m) = Len(F(m - 1)) + 1
  BY DEF Start, Flat
<1>3. Kinds = F(M)
  <2>1. SubSeq(msgs, 1, M) = msgs
    BY <1>1
  <2>2. QED
    BY <2>1 DEF Kinds, Flat
<1>4. \A n \in 0 .. M : F(n) \in Seq(Kind) /\ Len(F(n)) \in Nat
  <2>1. \A n \in 0 .. M : F(n) \in Seq(Kind)
    BY <1>1, FlatType
  <2> HIDE DEF F
  <2>2. QED
    BY <2>1
<1>5. \A n \in 1 .. M : F(0) = <<>> /\ F(n) = F(n - 1) \o msgs[n]
  BY <1>1, FlatStep
<1>6. F(0) = <<>>
  <2>1. SubSeq(msgs, 1, 0) = <<>>
    BY <1>1
  <2>2. QED
    BY <2>1 DEF Flat, FlattenSeq
<1>7. \A m \in 0 .. M : /\ Len(F(m)) <= Len(F(M))
                        /\ \A t \in 1 .. Len(F(m)) : F(M)[t] = F(m)[t]
  <2>1. SUFFICES ASSUME NEW m \in 0 .. M
                 PROVE  /\ Len(F(m)) <= Len(F(M))
                        /\ \A t \in 1 .. Len(F(m)) : F(M)[t] = F(m)[t]
    OBVIOUS
  <2>2. m \in 0 .. Len(msgs) /\ M \in m .. Len(msgs)
    BY <1>1
  <2>3. QED
    BY <1>1, <2>2, FlatGrows
<1> HIDE DEF F
<1>8. /\ Kinds \in Seq(Kind) /\ Total \in Nat /\ Total = Len(F(M))
      /\ Total = Start(M + 1) - 1
  <2>1. M \in 0 .. M /\ M + 1 \in 1 .. M + 1 /\ (M + 1) - 1 = M
    BY <1>1
  <2>2. QED
    BY <1>2, <1>3, <1>4, <2>1 DEF Total
<1>9. Start(1) = 1
  <2>1. 1 \in 1 .. M + 1 /\ 1 - 1 = 0
    BY <1>1
  <2>2. QED
    BY <1>2, <1>6, <2>1
<1>10. ASSUME NEW m \in 1 .. M + 1 PROVE Start(m) \in Nat \ {0} /\ Start(m) <= Total + 1
  <2>1. m - 1 \in 0 .. M
    BY <1>1
  <2>2. QED
    BY <1>2, <1>4, <1>7, <1>8, <2>1
<1>11. ASSUME NEW m \in 1 .. M
       PROVE  /\ Start(m + 1) = Start(m) + Len(msgs[m])
              /\ Close(m) = Start(m) + Len(msgs[m]) - 1
              /\ Start(m) <= Close(m) /\ Close(m) \in 1 .. Total
              /\ \A x \in 1 .. Len(msgs[m]) : Kinds[Start(m) + x - 1] = msgs[m][x]
  <2>1. /\ m - 1 \in 0 .. M /\ m \in 0 .. M /\ m + 1 \in 1 .. M + 1 /\ m \in 1 .. M + 1
        /\ (m + 1) - 1 = m
    BY <1>1
  <2>2. F(m) = F(m - 1) \o msgs[m]
    BY <1>5
  <2> DEFINE L(n) == Len(F(n))
             d == Len(msgs[m])
  <2>3. /\ F(m - 1) \in Seq(Kind) /\ msgs[m] \in Seq(Kind) /\ L(m - 1) \in Nat
        /\ d \in Nat \ {0}
    BY <1>1, <1>4, <2>1
  <2>4. L(m) = L(m - 1) + d /\ \A x \in 1 .. d : F(m)[L(m - 1) + x] = msgs[m][x]
    <3>1. PICK a, b : a = F(m - 1) /\ b = msgs[m]
      OBVIOUS
    <3>2. a \in Seq(Kind) /\ b \in Seq(Kind) /\ F(m) = a \o b
      BY <2>2, <2>3, <3>1
    <3>3. /\ Len(F(m)) = Len(a) + Len(b)
          /\ \A x \in 1 .. Len(b) : F(m)[Len(a) + x] = b[x]
      BY <3>2, JoinedAre
    <3>4. QED
      BY <3>1, <3>3
  <2>5. Start(m + 1) = L(m) + 1 /\ Start(m) = L(m - 1) + 1 /\ Close(m) = Start(m + 1) - 1
    BY <1>2, <2>1 DEF Close
  <2>6. L(m) <= Total
    BY <1>7, <1>8, <2>1
  <2>7. /\ Start(m + 1) = Start(m) + d /\ Close(m) = Start(m) + d - 1
        /\ Start(m) <= Close(m) /\ Close(m) \in 1 .. Total
    <3>1. L(m - 1) \in Nat /\ d \in Nat \ {0} /\ L(m) = L(m - 1) + d
      BY <2>3, <2>4
    <3> HIDE DEF L, d
    <3>2. QED
      BY <1>8, <2>5, <2>6, <3>1, SMTT(30)
  <2>8. ASSUME NEW x \in 1 .. Len(msgs[m]) PROVE Kinds[Start(m) + x - 1] = msgs[m][x]
    <3>1. L(m - 1) \in Nat /\ d \in Nat \ {0} /\ L(m) = L(m - 1) + d /\ x \in 1 .. d
      BY <2>3, <2>4
    <3>2. \A t \in 1 .. L(m) : F(M)[t] = F(m)[t]
      BY <1>7, <2>1
    <3> HIDE DEF L, d
    <3>3. Start(m) + x - 1 = L(m - 1) + x /\ L(m - 1) + x \in 1 .. L(m)
      BY <2>5, <3>1
    <3>4. QED
      BY <1>3, <2>4, <3>1, <3>2, <3>3
  <2>9. QED
    BY <2>7, <2>8
<1>12. QED
  BY <1>8, <1>9, <1>10, <1>11

LEMMA StartsRise ==
    ASSUME ReaderAssumption, Written,
           NEW m \in 1 .. NumMessages + 1, NEW n \in m .. NumMessages + 1
    PROVE  Start(m) <= Start(n)
<1>1. NumMessages \in Nat /\ Len(msgs) = NumMessages /\ msgs \in Seq(Seq(Kind))
  BY MessagesAre
<1>2. m - 1 \in 0 .. Len(msgs) /\ n - 1 \in m - 1 .. Len(msgs) /\ n - 1 \in 0 .. Len(msgs)
  BY <1>1
<1>3. Len(Flat(msgs, m - 1)) <= Len(Flat(msgs, n - 1))
  BY <1>1, <1>2, FlatGrows
<1>4. Flat(msgs, m - 1) \in Seq(Kind) /\ Flat(msgs, n - 1) \in Seq(Kind)
  BY <1>1, <1>2, FlatType
<1> DEFINE L(x) == Len(Flat(msgs, x))
<1>5. L(m - 1) \in Nat /\ L(n - 1) \in Nat /\ L(m - 1) <= L(n - 1)
  BY <1>3, <1>4
<1>6. Start(m) = L(m - 1) + 1 /\ Start(n) = L(n - 1) + 1
  BY DEF Start, Flat
<1> HIDE DEF L
<1>7. QED
  BY <1>5, <1>6

LEMMA EveryPlace ==
    ASSUME ReaderAssumption, Written, NEW t \in 1 .. Total
    PROVE  \E m \in 1 .. NumMessages : Start(m) <= t /\ t <= Close(m)
<1> DEFINE Past == {m \in 1 .. NumMessages + 1 : t < Start(m)}
<1>1. /\ NumMessages \in Nat /\ Total \in Nat /\ Start(1) = 1
      /\ Total = Start(NumMessages + 1) - 1
      /\ \A m \in 1 .. NumMessages + 1 : Start(m) \in Nat
  BY MessagesAre, PlacesAre
<1>2. NumMessages + 1 \in Past
  BY <1>1
<1>3. PICK n \in Past : \A y \in Past : n <= y
  <2>1. Past \subseteq Nat
    BY <1>1
  <2> HIDE DEF Past
  <2>2. QED
    BY <1>2, <2>1, SmallestNumber
<1>4. n \in 1 .. NumMessages + 1 /\ t < Start(n)
  BY <1>3
<1>5. n # 1
  BY <1>1, <1>4
<1> DEFINE m == n - 1
<1>6. m \in 1 .. NumMessages /\ m \in 1 .. NumMessages + 1 /\ m + 1 = n /\ ~ (n <= m)
  BY <1>1, <1>4, <1>5
<1>7. ~ (t < Start(m))
  <2> HIDE DEF m
  <2>1. QED
    BY <1>3, <1>6
<1>8. Close(m) = Start(n) - 1
  BY <1>6 DEF Close
<1> HIDE DEF m
<1>9. Start(m) <= t /\ t <= Close(m)
  BY <1>1, <1>4, <1>6, <1>7, <1>8
<1>10. QED
  BY <1>6, <1>9

LEMMA EndsAre ==
    ASSUME ReaderAssumption, Written, NEW t \in 1 .. Total
    PROVE  Kinds[t] = "end" <=> \E m \in 1 .. NumMessages : t = Close(m)
<1>1. ASSUME NEW m \in 1 .. NumMessages, Start(m) <= t, t <= Close(m)
      PROVE  Kinds[t] = "end" <=> t = Close(m)
  <2> DEFINE x == t - Start(m) + 1
             d == Len(msgs[m])
  <2>1. /\ Start(m) \in Nat \ {0} /\ d \in Nat \ {0} /\ Close(m) = Start(m) + d - 1
        /\ \A y \in 1 .. d : Kinds[Start(m) + y - 1] = msgs[m][y]
        /\ \A y \in 1 .. d : msgs[m][y] = "end" <=> y = d
    <3>1. m \in 1 .. NumMessages + 1
      BY MessagesAre
    <3>2. QED
      BY <3>1, MessagesAre, PlacesAre
  <2> HIDE DEF d
  <2>2. x \in 1 .. d /\ Start(m) + x - 1 = t /\ (x = d <=> t = Close(m))
    BY <1>1, <2>1
  <2> HIDE DEF x
  <2>3. QED
    BY <2>1, <2>2
<1>2. ASSUME NEW m \in 1 .. NumMessages, t = Close(m) PROVE Kinds[t] = "end"
  <2>1. Start(m) <= t /\ t <= Close(m)
    BY <1>2, PlacesAre
  <2>2. QED
    BY <1>1, <1>2, <2>1
<1>3. QED
  BY <1>1, <1>2, EveryPlace

--------------------------------------------------------------------------------
(* The k-th of some places, and what is cut there. *)

Upto(S, x) == {y \in S : y <= x}
Cut(S, k) == IF k = 0 THEN 0 ELSE CHOOSE x \in S : Cardinality(Upto(S, x)) = k

LEMMA UptoFinite ==
    ASSUME NEW n \in Nat, NEW S, S \subseteq 1 .. n, NEW x
    PROVE  IsFiniteSet(S) /\ IsFiniteSet(Upto(S, x)) /\ Cardinality(Upto(S, x)) \in Nat
<1>1. IsFiniteSet(1 .. n)
  BY FS_Interval
<1>2. S \in SUBSET (1 .. n) /\ Upto(S, x) \in SUBSET (1 .. n)
  BY DEF Upto
<1>3. IsFiniteSet(S) /\ IsFiniteSet(Upto(S, x))
  BY <1>1, <1>2, FS_Subset
<1>4. QED
  BY <1>3, FS_CardinalityType

\* Some numbers have a largest one.
LEMMA LargestNumber ==
    ASSUME NEW n \in Nat, NEW S, S \subseteq 1 .. n, S # {}
    PROVE  \E x \in S : \A y \in S : y <= x
<1> DEFINE T == {n - y : y \in S}
<1>1. T \subseteq Nat /\ T # {}
  <2>1. ASSUME NEW t \in T PROVE t \in Nat
    <3>1. PICK y \in S : t = n - y
      BY <2>1
    <3>2. y \in 1 .. n
      OBVIOUS
    <3> HIDE DEF T
    <3>3. QED
      BY <3>1, <3>2
  <2>2. PICK y \in S : TRUE
    OBVIOUS
  <2>3. n - y \in T
    OBVIOUS
  <2> HIDE DEF T
  <2>4. QED
    BY <2>1, <2>3
<1>2. PICK t \in T : \A u \in T : t <= u
  <2> HIDE DEF T
  <2>1. QED
    BY <1>1, SmallestNumber
<1>3. PICK x \in S : t = n - x
  BY <1>2
<1>4. ASSUME NEW y \in S PROVE y <= x
  <2>1. n - y \in T
    OBVIOUS
  <2>2. t <= n - y
    <3> HIDE DEF T
    <3>1. QED
      BY <1>2, <2>1
  <2>3. x \in Nat /\ y \in Nat
    OBVIOUS
  <2>4. QED
    BY <1>3, <2>2, <2>3
<1>5. QED
  BY <1>4

LEMMA CutIn ==
    ASSUME NEW n \in Nat, NEW S, S \subseteq 1 .. n, NEW k \in 1 .. Cardinality(S)
    PROVE  Cut(S, k) \in S
<1> DEFINE T == {x \in S : k <= Cardinality(Upto(S, x))}
<1>1. IsFiniteSet(S) /\ \A x : IsFiniteSet(Upto(S, x)) /\ Cardinality(Upto(S, x)) \in Nat
  BY UptoFinite
<1>2. S # {}
  <2>1. Cardinality({}) = 0
    BY FS_EmptySet
  <2>2. QED
    BY <2>1
<1>3. PICK z \in S : \A y \in S : y <= z
  BY <1>2, LargestNumber
<1>4. z \in T
  <2>1. Upto(S, z) = S
    BY <1>3 DEF Upto
  <2>2. Cardinality(S) \in Nat
    BY <1>1, <2>1
  <2>3. QED
    BY <2>1, <2>2
<1>5. PICK x \in T : \A y \in T : x <= y
  <2>1. T \subseteq Nat
    <3>1. T \subseteq S /\ S \subseteq Nat
      OBVIOUS
    <3> HIDE DEF T
    <3>2. QED
      BY <3>1
  <2> HIDE DEF T
  <2>2. QED
    BY <1>4, <2>1, SmallestNumber
<1>6. x \in S /\ x \in Nat /\ k <= Cardinality(Upto(S, x))
  BY <1>5
<1>7. Cardinality(Upto(S, x)) = k
  <2> DEFINE R == Upto(S, x) \ {x}
  <2>1. SUFFICES ASSUME Cardinality(Upto(S, x)) # k PROVE FALSE
    OBVIOUS
  <2>2. x \in Upto(S, x)
    BY <1>6 DEF Upto
  <2>3. Cardinality(R) = Cardinality(Upto(S, x)) - 1
    BY <1>1, <2>2, FS_RemoveElement
  <2>4. k <= Cardinality(R) /\ k \in Nat \ {0}
    <3>1. Cardinality(Upto(S, x)) \in Nat
      BY <1>1
    <3> HIDE DEF R
    <3>2. QED
      BY <1>6, <2>1, <2>3, <3>1
  <2>5. R # {}
    <3>1. Cardinality({}) = 0
      BY FS_EmptySet
    <3> HIDE DEF R
    <3>2. QED
      BY <2>4, <3>1
  <2>6. R \subseteq 1 .. n
    BY DEF Upto
  <2>7. PICK w \in R : \A y \in R : y <= w
    <3> HIDE DEF R
    <3>1. QED
      BY <2>5, <2>6, LargestNumber
  <2>8. w \in S /\ w \in Nat /\ w <= x /\ w # x
    BY <2>7 DEF Upto
  <2>9. Upto(S, w) = R
    <3>1. ASSUME NEW y \in S, y <= w PROVE y \in R
      <4>1. y \in Nat
        OBVIOUS
      <4>2. QED
        BY <1>6, <2>8, <3>1, <4>1 DEF Upto
    <3>2. ASSUME NEW y \in R PROVE y \in S /\ y <= w
      BY <2>7 DEF Upto
    <3>3. QED
      BY <3>1, <3>2 DEF Upto
  <2>10. w \in T
    BY <2>4, <2>8, <2>9
  <2>11. x <= w
    <3> HIDE DEF T
    <3>1. QED
      BY <1>5, <2>10
  <2>12. QED
    BY <1>6, <2>8, <2>11
<1>8. k # 0
  OBVIOUS
<1>9. QED
  BY <1>6, <1>7, <1>8 DEF Cut

\* All of them in order.
InOrder(S, f, c) ==
    /\ \A x \in S : \E k \in 1 .. c : f[k] = x
    /\ \A k, m \in 1 .. c : k < m => f[k] < f[m]

\* Places that are given in order are the first, the second, and so on.
LEMMA CutsAre ==
    ASSUME NEW n \in Nat, NEW S, S \subseteq 1 .. n, NEW c \in Nat, NEW f \in [1 .. c -> S],
           InOrder(S, f, c)
    PROVE  Cardinality(S) = c /\ \A k \in 1 .. c : Cut(S, k) = f[k]
<1> USE DEF InOrder
<1>1. \A k \in 1 .. c : f[k] \in S /\ f[k] \in Nat /\ k \in Nat
  <2>1. S \subseteq Nat /\ \A k \in 1 .. c : f[k] \in S /\ k \in Nat
    OBVIOUS
  <2>2. QED
    BY <2>1
<1>2. \A k, m \in 1 .. c : f[k] <= f[m] <=> k <= m
  BY <1>1
<1>3. Cardinality(S) = c
  <2>1. f \in Bijection(1 .. c, S)
    <3>1. \A k, m \in 1 .. c : f[k] = f[m] => k = m
      BY <1>1, <1>2
    <3>2. QED
      BY <3>1 DEF Bijection, Injection, Surjection, IsInjective
  <2>2. QED
    BY <2>1, FS_CountingElements DEF ExistsBijection
<1>4. ASSUME NEW k \in 1 .. c PROVE Cardinality(Upto(S, f[k])) = k
  <2> DEFINE g == [x \in 1 .. k |-> f[x]]
  <2>1. 1 .. k \subseteq 1 .. c /\ k \in Nat
    OBVIOUS
  <2>2. \A x \in 1 .. k : f[x] \in Upto(S, f[k])
    BY <1>1, <1>2, <2>1 DEF Upto
  <2>3. \A y \in Upto(S, f[k]) : \E x \in 1 .. k : f[x] = y
    <3>1. SUFFICES ASSUME NEW y \in S, y <= f[k] PROVE \E x \in 1 .. k : f[x] = y
      BY DEF Upto
    <3>2. PICK x \in 1 .. c : f[x] = y
      OBVIOUS
    <3>3. x \in 1 .. k
      BY <1>2, <3>1, <3>2
    <3>4. QED
      BY <3>2, <3>3
  <2>4. \A x, y \in 1 .. k : f[x] = f[y] => x = y
    BY <1>1, <1>2, <2>1
  <2>5. g \in Bijection(1 .. k, Upto(S, f[k]))
    BY <2>2, <2>3, <2>4 DEF Bijection, Injection, Surjection, IsInjective
  <2>6. QED
    BY <2>1, <2>5, FS_CountingElements DEF ExistsBijection
<1>5. ASSUME NEW k \in 1 .. c PROVE Cut(S, k) = f[k]
  <2>1. \A x \in S : Cardinality(Upto(S, x)) = k => x = f[k]
    <3>1. SUFFICES ASSUME NEW x \in S, Cardinality(Upto(S, x)) = k PROVE x = f[k]
      OBVIOUS
    <3>2. PICK m \in 1 .. c : f[m] = x
      OBVIOUS
    <3>3. QED
      BY <1>4, <3>1, <3>2
  <2>2. k # 0 /\ f[k] \in S /\ Cardinality(Upto(S, f[k])) = k
    BY <1>1, <1>4
  <2>3. QED
    BY <2>1, <2>2 DEF Cut
<1>6. QED
  BY <1>3, <1>5

LEMMA SplitIs ==
    ASSUME NEW closing
    PROVE  LET cuts == {x \in DOMAIN chain : chain[x] \in closing}
           IN  Split(closing) = [k \in 1 .. Cardinality(cuts) |->
                                   SubSeq(chain, Cut(cuts, k - 1) + 1, Cut(cuts, k))]
BY DEF Split, Cut, Upto

LEMMA SplitType ==
    ASSUME NEW S, chain \in Seq(S), NEW closing
    PROVE  Split(closing) \in Seq(Seq(S))
<1> DEFINE cuts == {x \in DOMAIN chain : chain[x] \in closing}
           n == Len(chain)
<1>1. n \in Nat /\ cuts \subseteq 1 .. n
  OBVIOUS
<1> HIDE DEF cuts
<1>2. Cardinality(cuts) \in Nat
  <2> HIDE DEF n
  <2>1. IsFiniteSet(cuts)
    BY <1>1, UptoFinite
  <2>2. QED
    BY <2>1, FS_CardinalityType
<1>3. ASSUME NEW k \in 1 .. Cardinality(cuts)
      PROVE  SubSeq(chain, Cut(cuts, k - 1) + 1, Cut(cuts, k)) \in Seq(S)
  <2> DEFINE a == Cut(cuts, k - 1)
             b == Cut(cuts, k)
  <2>1. b \in 1 .. n
    <3> HIDE DEF n
    <3>1. b \in cuts
      BY <1>1, CutIn
    <3>2. QED
      BY <1>1, <3>1
  <2>2. a \in 0 .. n
    <3>1. CASE k = 1
      <4>1. k - 1 = 0
        BY <3>1
      <4>2. a = 0
        BY <4>1 DEF Cut
      <4>3. QED
        BY <1>1, <4>2
    <3>2. CASE k # 1
      <4> HIDE DEF n
      <4>1. k - 1 \in 1 .. Cardinality(cuts)
        BY <1>2, <3>2
      <4>2. a \in cuts
        BY <1>1, <4>1, CutIn
      <4> HIDE DEF a
      <4>3. QED
        BY <1>1, <4>2
    <3>3. QED
      BY <3>1, <3>2
  <2> HIDE DEF a, b
  <2>3. SubSeq(chain, a + 1, b) \in Seq(S)
    BY <2>1, <2>2
  <2>4. QED
    BY <2>3 DEF a, b
<1>4. Split(closing) = [k \in 1 .. Cardinality(cuts) |->
                          SubSeq(chain, Cut(cuts, k - 1) + 1, Cut(cuts, k))]
  BY SplitIs DEF cuts
<1> DEFINE c == Cardinality(cuts)
           piece(k) == SubSeq(chain, Cut(cuts, k - 1) + 1, Cut(cuts, k))
<1>5. c \in Nat /\ \A k \in 1 .. c : piece(k) \in Seq(S)
  BY <1>2, <1>3
<1>6. Split(closing) = [k \in 1 .. c |-> piece(k)]
  BY <1>4
<1> HIDE DEF c, piece
<1>7. QED
  BY <1>5, <1>6

--------------------------------------------------------------------------------
(* What holds at every step. *)

\* What the first b blocks hold of the chain.
Within(b) == {t \in 1 .. Total : \E a \in 1 .. b : t \in Range(blocks[a])}

\* The chain is mined in order, no transaction twice, and every block begins with another
\* transaction.
BlocksInv ==
    /\ \A b \in 0 .. Len(blocks) : \E n \in 0 .. sent : Within(b) = 1 .. n
    /\ \A a, b \in 1 .. Len(blocks) : \A t \in 1 .. Total :
         t \in Range(blocks[a]) /\ t \in Range(blocks[b]) => a = b
    /\ \A b \in 1 .. Len(blocks) : blocks[b] # <<>> /\ blocks[b][1] = 0

\* Backward: the chain runs down from the last transaction, then up from the first.
Down == \A x \in 1 .. Len(chain) : chain[x] = last - x + 1

BackInv ==
    mode = "backward" =>
      /\ pc \in {"start", "back", "reverse", "split", "read", "failed"}
      /\ pc = "start" => chain = <<>>
      /\ pc = "back" => TxBegin = first /\ TxEnd = last - Len(chain) /\ Down
      /\ pc = "reverse" => first <= last /\ Len(chain) = last - first + 1 /\ Down
      /\ pc \in {"split", "read"} => first <= last /\ chain = Numbers(first, last)
      /\ pc = "read" => chains = Split(OneAddress)

\* Forward: after k blocks, the vector holds what was in them of the chain and not collected
\* yet, behind another transaction.
Fetched(k) ==
    /\ blockhash(first) # 0 /\ blockhash(first) + k - 1 <= Len(blocks)
    /\ block \in {0, blockhash(first) + k}
    /\ TxBegin \in Within(blockhash(first) + k - 1)
    /\ Range(txs) \subseteq Within(blockhash(first) + k - 1) \cup {0}
    /\ \A t \in Within(blockhash(first) + k - 1) : TxBegin < t => t \in Range(txs)
    /\ txs # <<>> /\ txs[1] = 0

\* The block has been searched.
Searched(k) == Fetched(k) /\ TxBegin + 1 \notin Within(blockhash(first) + k - 1)

ForwardInv ==
    mode = "forward" =>
      /\ pc \in {"start", "block", "scan", "split", "read", "failed"}
      /\ pc = "start" => i = 0 /\ txs = <<>>
      /\ pc \in {"block", "scan", "split", "read"} =>
           first \in 1 .. Total /\ TxBegin \in first .. Total /\ chain = Numbers(first, TxBegin)
      /\ pc = "block" /\ i = 0 =>
           TxBegin = first /\ txs = <<>> /\ block \in {0, blockhash(first)}
      /\ pc = "block" /\ i # 0 => Searched(i)
      /\ pc = "scan" => /\ i < nBlocks /\ Fetched(i + 1)
                        /\ \A x \in 1 .. j : txs[x] # TxBegin + 1
      /\ pc \in {"split", "read"} => Searched(nBlocks)

ReaderInv == TypeOK /\ BlocksInv /\ BackInv /\ ForwardInv

LEMMA TypesAre ==
    ASSUME ReaderAssumption, TypeOK
    PROVE  /\ Written /\ Total \in Nat /\ Kinds \in Seq(Kind)
           /\ Len(blocks) \in Nat /\ \A b \in 1 .. Len(blocks) : blocks[b] \in Seq(0 .. Total)
           /\ sent \in Nat /\ sent <= Total
<1>1. Written /\ sent \in 0 .. Total /\ blocks \in Seq(Seq(0 .. Total))
  BY DEF TypeOK, Written
<1>2. Total \in Nat /\ Kinds \in Seq(Kind)
  BY <1>1, PlacesAre
<1> QED
  BY <1>1, <1>2

LEMMA SameChain ==
    ASSUME UNCHANGED <<msgs, blocks>>
    PROVE  /\ Total' = Total /\ Kinds' = Kinds /\ Mined' = Mined
           /\ OneAddress' = OneAddress /\ OneOutput' = OneOutput
           /\ \A t : blockhash(t)' = blockhash(t)
           /\ \A b : Within(b)' = Within(b)
BY DEF Total, Kinds, Mined, OneAddress, OneOutput, blockhash, Within

\* Where a transaction is.
Placed ==
    \A t \in 1 .. Total :
      /\ blockhash(t) \in 0 .. Len(blocks)
      /\ blockhash(t) = 0 <=> t \notin Mined
      /\ \A b \in 1 .. Len(blocks) : t \in Range(blocks[b]) <=> blockhash(t) = b
      /\ \A b \in 0 .. Len(blocks) : t \in Within(b) <=> blockhash(t) \in 1 .. b

LEMMA PlacedIs == ReaderAssumption /\ TypeOK /\ BlocksInv => Placed
<1> SUFFICES ASSUME ReaderAssumption, TypeOK, BlocksInv, NEW t \in 1 .. Total
             PROVE  /\ blockhash(t) \in 0 .. Len(blocks)
                    /\ blockhash(t) = 0 <=> t \notin Mined
                    /\ \A b \in 1 .. Len(blocks) : t \in Range(blocks[b]) <=> blockhash(t) = b
                    /\ \A b \in 0 .. Len(blocks) : t \in Within(b) <=> blockhash(t) \in 1 .. b
  BY DEF Placed
<1>1. /\ Len(blocks) \in Nat /\ DOMAIN blocks = 1 .. Len(blocks)
  BY TypesAre DEF TypeOK
<1>2. t \in Mined <=> \E b \in 1 .. Len(blocks) : t \in Range(blocks[b])
  BY <1>1 DEF Mined
<1>3. CASE t \in Mined
  <2>1. blockhash(t) = CHOOSE b \in 1 .. Len(blocks) : t \in Range(blocks[b])
    BY <1>1, <1>3 DEF blockhash
  <2>2. blockhash(t) \in 1 .. Len(blocks) /\ t \in Range(blocks[blockhash(t)])
    BY <1>2, <1>3, <2>1
  <2>3. \A b \in 1 .. Len(blocks) : t \in Range(blocks[b]) <=> blockhash(t) = b
    BY <2>2 DEF BlocksInv
  <2>4. ASSUME NEW b \in 0 .. Len(blocks) PROVE t \in Within(b) <=> blockhash(t) \in 1 .. b
    <3>1. \A a \in 1 .. b : a \in 1 .. Len(blocks)
      BY <1>1
    <3>2. t \in Within(b) <=> \E a \in 1 .. b : t \in Range(blocks[a])
      BY DEF Within
    <3>3. QED
      BY <2>3, <3>1, <3>2
  <2>5. QED
    BY <1>1, <1>3, <2>2, <2>3, <2>4
<1>4. CASE t \notin Mined
  <2>1. blockhash(t) = 0
    BY <1>4 DEF blockhash
  <2>2. ASSUME NEW b \in 0 .. Len(blocks) PROVE t \notin Within(b)
    <3>1. \A a \in 1 .. b : a \in 1 .. Len(blocks)
      BY <1>1
    <3>2. QED
      BY <1>2, <1>4, <3>1 DEF Within
  <2>3. QED
    BY <1>1, <1>2, <1>4, <2>1, <2>2
<1>5. QED
  BY <1>3, <1>4

LEMMA ReaderInit == ASSUME ReaderAssumption, Init PROVE ReaderInv
<1>1. Written
  BY DEF Init, Written
<1>2. Total \in Nat
  BY <1>1, PlacesAre
<1>3. TypeOK
  BY <1>1, <1>2 DEF Init, TypeOK, Written, ReaderAssumption
<1>4. BlocksInv
  <2>1. Len(blocks) = 0 /\ sent = 0
    BY DEF Init
  <2>2. Within(0) = 1 .. 0
    BY DEF Within
  <2>3. QED
    BY <2>1, <2>2 DEF BlocksInv
<1>5. BackInv /\ ForwardInv
  BY DEF Init, BackInv, ForwardInv
<1>6. QED
  BY <1>3, <1>4, <1>5 DEF ReaderInv

\* The new block.
LEMMA NewBlock ==
    ASSUME NEW o \in Nat \ {0}, NEW m \in Nat, NEW n \in Nat, m <= n,
           NEW T \in Nat, n <= T
    PROVE  LET new == [x \in 1 .. o |-> 0] \o Numbers(m + 1, n)
           IN  /\ new \in Seq(0 .. T) /\ new # <<>> /\ new[1] = 0
               /\ \A t \in 1 .. T : t \in Range(new) <=> m < t /\ t <= n
<1> DEFINE u == [x \in 1 .. o |-> 0]
           v == Numbers(m + 1, n)
           new == u \o v
<1>1. u \in Seq(0 .. T) /\ Len(u) = o /\ \A x \in 1 .. o : u[x] = 0
  OBVIOUS
<1>2. /\ v \in Seq(m + 1 .. n) /\ Len(v) = n - m
      /\ \A x \in 1 .. n - m : v[x] = m + x
  <2>1. m + 1 \in Nat /\ m + 1 <= n + 1 /\ n - (m + 1) + 1 = n - m
    OBVIOUS
  <2>2. PICK a : a = m + 1
    OBVIOUS
  <2>3. a \in Nat /\ a <= n + 1 /\ v = Numbers(a, n)
    BY <2>2
  <2>4. v \in Seq(a .. n) /\ Len(v) = n - a + 1 /\ \A x \in 1 .. n - a + 1 : v[x] = a + x - 1
    <3> HIDE DEF v
    <3>1. QED
      BY <2>3, NumbersAre
  <2> HIDE DEF v
  <2>5. n - a + 1 = n - m /\ \A x \in 1 .. n - m : a + x - 1 = m + x
    BY <2>2
  <2>6. QED
    BY <2>2, <2>4, <2>5
<1>3. v \in Seq(0 .. T)
  <2>1. m + 1 .. n \subseteq 0 .. T
    OBVIOUS
  <2> HIDE DEF v
  <2>2. QED
    BY <1>2, <2>1
<1> HIDE DEF u, v
<1>4. /\ new \in Seq(0 .. T) /\ Len(new) = o + (n - m)
      /\ \A x \in 1 .. o : new[x] = 0
      /\ \A x \in 1 .. n - m : new[o + x] = m + x
  <2> DEFINE S == 0 .. T
  <2>1. u \in Seq(S) /\ v \in Seq(S)
    BY <1>1, <1>3
  <2> HIDE DEF S
  <2>2. /\ new \in Seq(S) /\ Len(new) = Len(u) + Len(v)
        /\ \A x \in 1 .. Len(u) : new[x] = u[x]
        /\ \A x \in 1 .. Len(v) : new[Len(u) + x] = v[x]
    BY <2>1, JoinedAre
  <2> HIDE DEF new
  <2>3. QED
    BY <1>1, <1>2, <2>2 DEF S
<1> HIDE DEF new
<1>5. new # <<>> /\ new[1] = 0
  BY <1>4
<1>6. ASSUME NEW t \in 1 .. T PROVE t \in Range(new) <=> m < t /\ t <= n
  <2>1. ASSUME m < t, t <= n PROVE t \in Range(new)
    <3>1. t - m \in 1 .. n - m /\ m + (t - m) = t /\ o + (t - m) \in 1 .. o + (n - m)
      BY <2>1
    <3>2. new[o + (t - m)] = t
      BY <1>4, <3>1
    <3>3. DOMAIN new = 1 .. o + (n - m)
      BY <1>4
    <3>4. QED
      BY <3>1, <3>2, <3>3 DEF Range
  <2>2. ASSUME t \in Range(new) PROVE m < t /\ t <= n
    <3>1. PICK x \in 1 .. o + (n - m) : new[x] = t
      BY <1>4, <2>2 DEF Range
    <3>2. CASE x <= o
      BY <1>4, <3>1, <3>2
    <3>3. CASE o < x
      <4>1. x - o \in 1 .. n - m /\ o + (x - o) = x
        BY <3>1, <3>3
      <4>2. new[x] = m + (x - o)
        BY <1>4, <4>1
      <4>3. QED
        BY <3>1, <4>1, <4>2
    <3>4. QED
      BY <3>1, <3>2, <3>3
  <2>3. QED
    BY <2>1, <2>2
<1>7. QED
  BY <1>4, <1>5, <1>6 DEF new, u, v

\* What is mined leaves the earlier blocks as they are.
LEMMA MineBlocks ==
    ASSUME ReaderAssumption, ReaderInv, Mine
    PROVE  /\ TypeOK' /\ BlocksInv'
           /\ Len(blocks') = Len(blocks) + 1
           /\ \A b \in 0 .. Len(blocks) : Within(b)' = Within(b)
           /\ \A t \in 1 .. Total : blockhash(t) # 0 => blockhash(t)' = blockhash(t)
<1> DEFINE N == Len(blocks)
<1>1. /\ Written /\ Total \in Nat /\ N \in Nat /\ \A b \in 1 .. N : blocks[b] \in Seq(0 .. Total)
      /\ sent \in Nat /\ sent <= Total /\ TypeOK /\ BlocksInv
  BY TypesAre DEF ReaderInv
<1>2. PICK o \in 1 .. MaxOthers, m \in 0 .. sent, n \in 0 .. sent :
        /\ Mined = 1 .. m /\ m <= n
        /\ blocks' = Append(blocks, [x \in 1 .. o |-> 0] \o Numbers(m + 1, n))
  BY DEF Mine
<1> DEFINE new == [x \in 1 .. o |-> 0] \o Numbers(m + 1, n)
<1>3. /\ new \in Seq(0 .. Total) /\ new # <<>> /\ new[1] = 0
      /\ \A t \in 1 .. Total : t \in Range(new) <=> m < t /\ t <= n
  <2>1. o \in Nat \ {0} /\ m \in Nat /\ n \in Nat /\ n <= Total
    BY <1>1 DEF ReaderAssumption
  <2>2. QED
    BY <1>1, <1>2, <2>1, NewBlock
<1>4. Total' = Total /\ sent' = sent /\ UNCHANGED <<msgs, reader>>
  BY DEF Mine, Total, Kinds
<1> HIDE DEF new
<1>5. /\ blocks' \in Seq(Seq(0 .. Total)) /\ Len(blocks') = N + 1 /\ blocks'[N + 1] = new
      /\ \A b \in 1 .. N : blocks'[b] = blocks[b]
  <2> DEFINE S == Seq(0 .. Total)
  <2>1. blocks \in Seq(S) /\ new \in S /\ blocks' = Append(blocks, new)
    BY <1>1, <1>2, <1>3 DEF TypeOK, new
  <2> HIDE DEF S
  <2>2. blocks' \in Seq(S) /\ Len(blocks') = N + 1 /\ blocks'[N + 1] = new
        /\ \A b \in 1 .. N : blocks'[b] = blocks[b]
    BY <2>1
  <2>3. QED
    BY <2>2 DEF S
<1>6. TypeOK'
  <2>1. block \in 0 .. Len(blocks')
    BY <1>1, <1>5 DEF TypeOK
  <2>2. QED
    BY <1>1, <1>4, <1>5, <2>1 DEF TypeOK, reader
<1>7. \A b \in 0 .. N : Within(b)' = Within(b)
  <2>1. SUFFICES ASSUME NEW b \in 0 .. N PROVE Within(b)' = Within(b)
    OBVIOUS
  <2>2. \A a \in 1 .. b : a \in 1 .. N /\ blocks'[a] = blocks[a]
    BY <1>1, <1>5
  <2>3. QED
    BY <1>4, <2>2 DEF Within
<1>8. Mined = Within(N)
  <2>1. DOMAIN blocks = 1 .. N
    BY <1>1 DEF TypeOK
  <2>2. QED
    BY <2>1 DEF Mined, Within
<1>9. ASSUME NEW k, k = N + 1 PROVE Within(k)' = 1 .. n
  <2>1. ASSUME NEW t \in 1 .. Total PROVE t \in Within(k)' <=> t \in 1 .. n
    <3>1. t \in Within(k)' <=> (\E a \in 1 .. N + 1 : t \in Range(blocks'[a]))
      BY <1>4, <1>9 DEF Within
    <3>2. (\E a \in 1 .. N + 1 : t \in Range(blocks'[a]))
            <=> (\E a \in 1 .. N : t \in Range(blocks[a])) \/ t \in Range(new)
      <4>1. 1 .. N + 1 = (1 .. N) \cup {N + 1}
        BY <1>1
      <4>2. QED
        BY <1>5, <4>1
    <3>3. (\E a \in 1 .. N : t \in Range(blocks[a])) <=> t \in 1 .. m
      BY <1>2, <1>8 DEF Within
    <3>4. t \in 1 .. n <=> t \in 1 .. m \/ (m < t /\ t <= n)
      BY <1>1, <1>2
    <3>5. QED
      BY <1>3, <3>1, <3>2, <3>3, <3>4
  <2>2. Within(k)' \subseteq 1 .. Total /\ 1 .. n \subseteq 1 .. Total
    BY <1>1, <1>4 DEF Within
  <2>3. QED
    BY <2>1, <2>2
<1>10. BlocksInv'
  <2>1. ASSUME NEW b \in 0 .. N + 1 PROVE \E k \in 0 .. sent : Within(b)' = 1 .. k
    <3>1. CASE b \in 0 .. N
      BY <1>1, <1>7, <3>1 DEF BlocksInv
    <3>2. CASE b = N + 1
      BY <1>9, <3>2
    <3>3. QED
      BY <1>1, <3>1, <3>2
  <2>2. ASSUME NEW a \in 1 .. N + 1, NEW b \in 1 .. N + 1, NEW t \in 1 .. Total,
               t \in Range(blocks'[a]), t \in Range(blocks'[b])
        PROVE  a = b
    <3>1. ASSUME NEW c \in 1 .. N, t \in Range(blocks[c]) PROVE ~ (m < t)
      <4>1. t \in Mined
        BY <1>8, <3>1 DEF Within
      <4>2. QED
        BY <1>2, <4>1
    <3>2. CASE a \in 1 .. N /\ b \in 1 .. N
      BY <1>1, <1>5, <2>2, <3>2 DEF BlocksInv
    <3>3. CASE a = N + 1 /\ b \in 1 .. N
      BY <1>3, <1>5, <2>2, <3>1, <3>3
    <3>4. CASE a \in 1 .. N /\ b = N + 1
      BY <1>3, <1>5, <2>2, <3>1, <3>4
    <3>5. CASE a = N + 1 /\ b = N + 1
      BY <3>5
    <3>6. QED
      BY <1>1, <3>2, <3>3, <3>4, <3>5
  <2>3. ASSUME NEW b \in 1 .. N + 1 PROVE blocks'[b] # <<>> /\ blocks'[b][1] = 0
    <3>1. CASE b \in 1 .. N
      BY <1>1, <1>5, <3>1 DEF BlocksInv
    <3>2. CASE b = N + 1
      BY <1>3, <1>5, <3>2
    <3>3. b \in 1 .. N \/ b = N + 1
      BY <1>1
    <3>4. QED
      BY <3>1, <3>2, <3>3
  <2>4. QED
    BY <1>4, <1>5, <2>1, <2>2, <2>3 DEF BlocksInv
<1>11. ASSUME NEW t \in 1 .. Total, blockhash(t) # 0 PROVE blockhash(t)' = blockhash(t)
  <2>1. Placed
    BY <1>1, PlacedIs
  <2>2. Placed'
    <3>1. ReaderAssumption' /\ TypeOK' /\ BlocksInv'
      BY <1>6, <1>10 DEF ReaderAssumption
    <3>2. (ReaderAssumption /\ TypeOK /\ BlocksInv => Placed)'
      BY PlacedIs, PTL
    <3>3. QED
      BY <3>1, <3>2
  <2>3. blockhash(t) \in 1 .. N /\ t \in Range(blocks[blockhash(t)])
    BY <1>1, <1>11, <2>1 DEF Placed
  <2>4. t \in Range(blocks'[blockhash(t)]) /\ blockhash(t) \in 1 .. Len(blocks')
    BY <1>1, <1>5, <2>3
  <2>5. \A b \in 1 .. Len(blocks') : t \in Range(blocks'[b]) <=> blockhash(t)' = b
    BY <1>4, <2>2 DEF Placed
  <2>6. QED
    BY <2>4, <2>5
<1>12. QED
  BY <1>5, <1>6, <1>7, <1>10, <1>11

LEMMA MineStep == ASSUME ReaderAssumption, ReaderInv, Mine PROVE ReaderInv'
<1>1. /\ TypeOK' /\ BlocksInv' /\ Len(blocks') = Len(blocks) + 1
      /\ \A b \in 0 .. Len(blocks) : Within(b)' = Within(b)
      /\ \A t \in 1 .. Total : blockhash(t) # 0 => blockhash(t)' = blockhash(t)
  BY MineBlocks
<1>2. /\ UNCHANGED <<mode, pc, TxBegin, TxEnd, first, last, chain, block, i, j, txs, chains>>
      /\ Total' = Total /\ OneAddress' = OneAddress
  BY DEF Mine, reader, Total, Kinds, OneAddress, OneOutput
<1>3. TypeOK /\ BlocksInv /\ Placed /\ Len(blocks) \in Nat /\ Total \in Nat
  BY TypesAre, PlacedIs DEF ReaderInv
<1>4. BackInv'
  <2>1. Split(OneAddress)' = Split(OneAddress) /\ Down' = Down
    BY <1>2 DEF Split, Down
  <2>2. BackInv
    BY DEF ReaderInv
  <2>3. QED
    BY <1>2, <2>1, <2>2 DEF BackInv
<1>5. ASSUME NEW k \in Nat \ {0}, first \in 1 .. Total, Fetched(k)
      PROVE  Fetched(k)' /\ (Searched(k) => Searched(k)')
  <2>1. /\ blockhash(first) \in 1 .. Len(blocks) /\ blockhash(first)' = blockhash(first)
        /\ blockhash(first) + k - 1 \in 0 .. Len(blocks)
    <3>1. blockhash(first) \in 0 .. Len(blocks) /\ blockhash(first) # 0
          /\ blockhash(first) + k - 1 <= Len(blocks)
      BY <1>3, <1>5 DEF Placed, Fetched
    <3>2. \A t : t = first => blockhash(t)' = blockhash(t)
      BY <1>1, <1>5, <3>1
    <3>3. blockhash(first)' = blockhash(first)
      BY <1>2, <3>2
    <3>4. QED
      BY <1>3, <3>1, <3>3
  <2>2. Within(blockhash(first) + k - 1)' = Within(blockhash(first) + k - 1)
    <3>1. \A b : b = blockhash(first) + k - 1 => Within(b)' = Within(b)
      BY <1>1, <2>1
    <3>2. PICK b : b = blockhash(first) + k - 1
      OBVIOUS
    <3>3. (blockhash(first) + k - 1)' = b
      BY <2>1, <3>2
    <3>4. QED
      BY <3>1, <3>2, <3>3
  <2>3. Fetched(k)'
    BY <1>1, <1>2, <1>3, <1>5, <2>1, <2>2 DEF Fetched
  <2>4. QED
    BY <1>2, <2>2, <2>3 DEF Searched
<1>6. ForwardInv'
  <2>1. SUFFICES ASSUME mode = "forward" PROVE ForwardInv'
    BY <1>2 DEF ForwardInv
  <2>2. ForwardInv
    BY DEF ReaderInv
  <2>3. i \in Nat /\ nBlocks \in Nat \ {0} /\ i \in 0 .. nBlocks
    BY <1>3 DEF TypeOK, ReaderAssumption
  <2>4. CASE pc = "block" /\ i = 0
    <3>1. first \in 1 .. Total /\ block \in {0, blockhash(first)}
      BY <2>1, <2>2, <2>4 DEF ForwardInv
    <3>2. \A t : t = first /\ blockhash(t) # 0 => blockhash(t)' = blockhash(t)
      BY <1>1, <3>1
    <3>3. blockhash(first) # 0 => blockhash(first)' = blockhash(first)
      BY <1>2, <3>2
    <3>4. block \in {0, blockhash(first)'}
      BY <3>1, <3>3
    <3>5. QED
      BY <1>2, <2>1, <2>2, <2>4, <3>4 DEF ForwardInv
  <2>5. CASE pc = "block" /\ i # 0
    <3>1. Searched(i) /\ i \in Nat \ {0} /\ first \in 1 .. Total
      BY <2>1, <2>2, <2>3, <2>5 DEF ForwardInv
    <3>2. PICK k : k = i
      OBVIOUS
    <3>3. Searched(k)'
      BY <1>5, <3>1, <3>2 DEF Searched
    <3>4. Searched(i)'
      BY <1>2, <3>2, <3>3
    <3>5. QED
      BY <1>2, <2>1, <2>2, <2>5, <3>4 DEF ForwardInv
  <2>6. CASE pc = "scan"
    <3>1. Fetched(i + 1) /\ i + 1 \in Nat \ {0} /\ first \in 1 .. Total
      BY <2>1, <2>2, <2>3, <2>6 DEF ForwardInv
    <3>2. PICK k : k = i + 1
      OBVIOUS
    <3>3. Fetched(k)'
      BY <1>5, <3>1, <3>2
    <3>4. Fetched(i + 1)'
      BY <1>2, <3>2, <3>3
    <3>5. QED
      BY <1>2, <2>1, <2>2, <2>6, <3>4 DEF ForwardInv
  <2>7. CASE pc \in {"split", "read"}
    <3>1. Searched(nBlocks) /\ first \in 1 .. Total
      BY <2>1, <2>2, <2>7 DEF ForwardInv
    <3>2. Searched(nBlocks)'
      BY <1>5, <2>3, <3>1 DEF Searched
    <3>3. QED
      BY <1>2, <2>1, <2>2, <2>7, <3>2 DEF ForwardInv
  <2>8. CASE pc \in {"start", "failed"}
    BY <1>2, <2>1, <2>2, <2>8 DEF ForwardInv
  <2>9. QED
    BY <2>1, <2>2, <2>4, <2>5, <2>6, <2>7, <2>8 DEF ForwardInv
<1>7. QED
  BY <1>1, <1>4, <1>6 DEF ReaderInv

LEMMA BroadcastStep == ASSUME ReaderAssumption, ReaderInv, Broadcast PROVE ReaderInv'
<1>1. /\ UNCHANGED <<msgs, blocks, mode, pc, TxBegin, TxEnd, first, last, chain, block, i, j,
                     txs, chains>>
      /\ sent' = sent + 1 /\ sent < Total
  BY DEF Broadcast, reader
<1>2. /\ Total' = Total /\ OneAddress' = OneAddress
      /\ \A t : blockhash(t)' = blockhash(t)
      /\ \A b : Within(b)' = Within(b)
  BY <1>1, SameChain
<1>3. TypeOK /\ sent \in Nat /\ Total \in Nat
  BY TypesAre DEF ReaderInv
<1>4. TypeOK'
  BY <1>1, <1>2, <1>3 DEF TypeOK
<1>5. BlocksInv'
  <2>1. BlocksInv
    BY DEF ReaderInv
  <2>2. \A n \in 0 .. sent : n \in 0 .. sent'
    BY <1>1, <1>3
  <2>3. \A b \in 0 .. Len(blocks) : \E n \in 0 .. sent' : Within(b)' = 1 .. n
    BY <1>2, <2>1, <2>2 DEF BlocksInv
  <2>4. QED
    BY <1>1, <1>2, <2>1, <2>3 DEF BlocksInv
<1>6. BackInv'
  <2>1. Split(OneAddress)' = Split(OneAddress) /\ Down' = Down
    BY <1>1, <1>2 DEF Split, Down
  <2>2. BackInv
    BY DEF ReaderInv
  <2>3. QED
    BY <1>1, <2>1, <2>2 DEF BackInv
<1>7. ForwardInv'
  <2>1. Kinds' = Kinds /\ Mined' = Mined
    BY <1>1, SameChain
  <2>2. ForwardInv' <=> ForwardInv
    BY <1>1, <1>2, <2>1 DEF ForwardInv, Searched, Fetched, Within, blockhash
  <2>3. QED
    BY <2>2 DEF ReaderInv
<1>8. QED
  BY <1>4, <1>5, <1>6, <1>7 DEF ReaderInv

--------------------------------------------------------------------------------
(* The steps of the reader. *)

LEMMA BlocksStay ==
    ASSUME ReaderInv, UNCHANGED <<msgs, sent, blocks>>
    PROVE  BlocksInv'
BY SameChain DEF ReaderInv, BlocksInv

LEMMA StartBackwardStep ==
    ASSUME ReaderAssumption, ReaderInv, NEW b \in 1 .. Total, NEW e \in 1 .. Total,
           StartBackward(b, e)
    PROVE  ReaderInv'
<1>1. /\ mode = "backward" /\ mode' = mode /\ chain' = chain /\ chain = <<>>
      /\ TxBegin' = b /\ TxEnd' = e /\ first' = b /\ last' = e /\ pc' = "back"
      /\ UNCHANGED <<msgs, sent, blocks, mode, chain, block, i, j, txs, chains>>
  BY DEF StartBackward, ReaderInv, BackInv
<1>2. Total' = Total /\ BlocksInv'
  BY <1>1, SameChain, BlocksStay
<1>3. TypeOK'
  BY <1>1, <1>2 DEF TypeOK, ReaderInv
<1>4. BackInv' /\ ForwardInv'
  BY <1>1 DEF BackInv, ForwardInv, Down
<1>5. QED
  BY <1>2, <1>3, <1>4 DEF ReaderInv

LEMMA FailStep == ASSUME ReaderAssumption, ReaderInv, Fail PROVE ReaderInv'
<1>1. /\ pc' = "failed"
      /\ UNCHANGED <<msgs, sent, blocks, mode, TxBegin, TxEnd, first, last, chain, block, i, j,
                     txs, chains>>
  BY DEF Fail
<1>2. Total' = Total /\ BlocksInv'
  BY <1>1, SameChain, BlocksStay
<1>3. TypeOK'
  BY <1>1, <1>2 DEF TypeOK, ReaderInv
<1>4. BackInv' /\ ForwardInv'
  BY <1>1 DEF BackInv, ForwardInv
<1>5. QED
  BY <1>2, <1>3, <1>4 DEF ReaderInv

LEMMA StepBackStep == ASSUME ReaderAssumption, ReaderInv, StepBack PROVE ReaderInv'
<1>1. /\ pc = "back" /\ TxEnd \in 1 .. sent
      /\ chain' = Append(chain, TxEnd)
      /\ TxEnd' = IF TxEnd = TxBegin THEN TxEnd ELSE Prev(TxEnd)
      /\ pc' = IF TxEnd = TxBegin THEN "reverse" ELSE "back"
      /\ UNCHANGED <<msgs, sent, blocks, mode, TxBegin, first, last, block, i, j, txs, chains>>
  BY DEF StepBack, Known
<1>2. Total' = Total /\ BlocksInv'
  BY <1>1, SameChain, BlocksStay
<1>3. TypeOK /\ BackInv /\ ForwardInv /\ sent \in Nat /\ sent <= Total /\ Total \in Nat
  BY TypesAre DEF ReaderInv
<1>4. TxEnd \in 1 .. Total /\ TxEnd' \in 0 .. Total /\ (TxEnd # TxBegin => TxEnd' = TxEnd - 1)
  BY <1>1, <1>3 DEF Prev
<1>5. chain' \in Seq(1 .. Total) /\ Len(chain') = Len(chain) + 1 /\ Len(chain) \in Nat
      /\ chain'[Len(chain) + 1] = TxEnd /\ \A x \in 1 .. Len(chain) : chain'[x] = chain[x]
  BY <1>1, <1>3, <1>4 DEF TypeOK
<1>6. TypeOK'
  BY <1>1, <1>2, <1>3, <1>4, <1>5 DEF TypeOK
<1>7. mode = "backward"
  BY <1>1, <1>3 DEF ForwardInv, TypeOK
<1>8. TxBegin = first /\ TxEnd = last - Len(chain) /\ Down
  BY <1>1, <1>3, <1>7 DEF BackInv
<1>9. last \in 0 .. Total /\ first \in 0 .. Total
  BY <1>3 DEF TypeOK
<1>10. Down'
  <2>1. ASSUME NEW x \in 1 .. Len(chain) + 1 PROVE chain'[x] = last - x + 1
    <3>1. CASE x \in 1 .. Len(chain)
      BY <1>5, <1>8, <3>1 DEF Down
    <3>2. CASE x = Len(chain) + 1
      BY <1>5, <1>8, <1>9, <3>2
    <3>3. QED
      BY <1>5, <3>1, <3>2
  <2>2. QED
    BY <1>1, <1>5, <2>1 DEF Down
<1>11. BackInv'
  <2>1. CASE TxEnd = TxBegin
    <3>1. first <= last /\ Len(chain') = last - first + 1
      BY <1>5, <1>8, <1>9, <2>1
    <3>2. QED
      BY <1>1, <1>10, <2>1, <3>1 DEF BackInv
  <2>2. CASE TxEnd # TxBegin
    <3>1. TxEnd' = last - Len(chain')
      BY <1>4, <1>5, <1>8, <1>9, <2>2
    <3>2. QED
      BY <1>1, <1>8, <1>10, <2>2, <3>1 DEF BackInv
  <2>3. QED
    BY <2>1, <2>2
<1>12. ForwardInv'
  BY <1>1, <1>7 DEF ForwardInv
<1>13. QED
  BY <1>2, <1>6, <1>11, <1>12 DEF ReaderInv

LEMMA ReverseChainStep == ASSUME ReaderAssumption, ReaderInv, ReverseChain PROVE ReaderInv'
<1>1. /\ pc = "reverse" /\ pc' = "split" /\ chain' = Reverse(chain)
      /\ UNCHANGED <<msgs, sent, blocks, mode, TxBegin, TxEnd, first, last, block, i, j, txs,
                     chains>>
  BY DEF ReverseChain
<1>2. Total' = Total /\ BlocksInv'
  BY <1>1, SameChain, BlocksStay
<1>3. TypeOK /\ BackInv /\ ForwardInv /\ Total \in Nat
  BY TypesAre DEF ReaderInv
<1>4. mode = "backward"
  BY <1>1, <1>3 DEF ForwardInv, TypeOK
<1>5. first <= last /\ Len(chain) = last - first + 1 /\ Down
  BY <1>1, <1>3, <1>4 DEF BackInv
<1>6. first \in Nat /\ last \in Nat /\ chain \in Seq(1 .. Total)
  BY <1>3 DEF TypeOK
<1>7. chain' \in Seq(1 .. Total) /\ Len(chain') = Len(chain)
      /\ \A x \in 1 .. Len(chain) : chain'[x] = chain[Len(chain) - x + 1]
  <2>1. \A x \in 1 .. Len(chain) : chain[Len(chain) - x + 1] \in 1 .. Total
    <3>1. SUFFICES ASSUME NEW x \in 1 .. Len(chain)
                   PROVE  chain[Len(chain) - x + 1] \in 1 .. Total
      OBVIOUS
    <3>2. PICK y \in 1 .. Len(chain) : y = Len(chain) - x + 1
      BY <1>5, <1>6
    <3>3. chain[y] \in 1 .. Total
      <4> DEFINE S == 1 .. Total
      <4>1. chain \in Seq(S)
        BY <1>6
      <4> HIDE DEF S
      <4>2. chain[y] \in S
        BY <4>1
      <4>3. QED
        BY <4>2 DEF S
    <3>4. QED
      BY <3>2, <3>3
  <2>2. chain' = [x \in 1 .. Len(chain) |-> chain[(Len(chain) - x) + 1]]
    BY <1>1 DEF Reverse
  <2> DEFINE n == Len(chain)
             e(x) == chain[n - x + 1]
  <2>3. n \in Nat /\ (\A x \in 1 .. n : e(x) \in 1 .. Total) /\ chain' = [x \in 1 .. n |-> e(x)]
    BY <1>6, <2>1, <2>2
  <2> HIDE DEF n, e
  <2>4. chain' \in Seq(1 .. Total) /\ Len(chain') = n /\ \A x \in 1 .. n : chain'[x] = e(x)
    BY <2>3
  <2>5. QED
    BY <2>4 DEF n, e
<1>8. chain' = Numbers(first, last)
  <2>1. /\ Numbers(first, last) \in Seq(first .. last)
        /\ Len(Numbers(first, last)) = last - first + 1
        /\ \A x \in 1 .. last - first + 1 : Numbers(first, last)[x] = first + x - 1
    <3>1. first <= last + 1
      BY <1>5, <1>6
    <3>2. QED
      BY <1>6, <3>1, NumbersAre
  <2>2. first .. last \subseteq Nat /\ 1 .. Total \subseteq Nat
    BY <1>6
  <2>3. Numbers(first, last) \in Seq(Nat) /\ chain' \in Seq(Nat)
    <3>1. \A S, T : S \subseteq T => Seq(S) \subseteq Seq(T)
      OBVIOUS
    <3>2. QED
      BY <1>7, <2>1, <2>2, <3>1
  <2>4. ASSUME NEW x \in 1 .. last - first + 1 PROVE chain'[x] = first + x - 1
    <3>1. Len(chain) - x + 1 \in 1 .. Len(chain) /\ last - (Len(chain) - x + 1) + 1 = first + x - 1
      BY <1>5, <1>6
    <3>2. QED
      BY <1>5, <1>7, <3>1 DEF Down
  <2>5. QED
    BY <1>5, <1>7, <2>1, <2>3, <2>4, SameSeq
<1>9. TypeOK'
  BY <1>1, <1>2, <1>3, <1>7 DEF TypeOK
<1>10. BackInv'
  BY <1>1, <1>5, <1>8 DEF BackInv
<1>11. ForwardInv'
  BY <1>1, <1>4 DEF ForwardInv
<1>12. QED
  BY <1>2, <1>9, <1>10, <1>11 DEF ReaderInv

LEMMA StartForwardStep ==
    ASSUME ReaderAssumption, ReaderInv, NEW b \in 1 .. Total, StartForward(b)
    PROVE  ReaderInv'
<1>1. /\ pc = "start" /\ mode = "forward" /\ TxBegin' = b /\ first' = b
      /\ \/ Known(b) /\ chain' = <<b>> /\ block' = blockhash(b) /\ pc' = "block"
         \/ pc' = "failed" /\ UNCHANGED <<chain, block>>
      /\ UNCHANGED <<msgs, sent, blocks, mode, TxEnd, last, i, j, txs, chains>>
  BY DEF StartForward
<1>2. /\ Total' = Total /\ BlocksInv' /\ \A t : blockhash(t)' = blockhash(t)
  BY <1>1, SameChain, BlocksStay
<1>3. TypeOK /\ ForwardInv /\ Placed /\ Total \in Nat
  BY TypesAre, PlacedIs DEF ReaderInv
<1>4. chain' \in Seq(1 .. Total) /\ block' \in 0 .. Len(blocks)
  <2>1. blockhash(b) \in 0 .. Len(blocks) /\ <<b>> \in Seq(1 .. Total)
    BY <1>3 DEF Placed
  <2>2. QED
    BY <1>1, <1>3, <2>1 DEF TypeOK
<1>5. TypeOK'
  BY <1>1, <1>2, <1>3, <1>4, SMTT(30) DEF TypeOK
<1>6. i = 0 /\ txs = <<>>
  BY <1>1, <1>3 DEF ForwardInv
<1>7. ForwardInv'
  <2>1. CASE pc' = "failed"
    BY <2>1 DEF ForwardInv
  <2>2. CASE pc' = "block" /\ chain' = <<b>> /\ block' = blockhash(b)
    <3>1. Numbers(b, b) = <<b>>
      <4>1. /\ Numbers(b, b) \in Seq(b .. b) /\ Len(Numbers(b, b)) = b - b + 1
            /\ \A x \in 1 .. b - b + 1 : Numbers(b, b)[x] = b + x - 1
        <5>1. b \in Nat /\ b <= b + 1
          OBVIOUS
        <5>2. QED
          BY <5>1, NumbersAre
      <4>2. b - b + 1 = 1 /\ 1 \in 1 .. 1 /\ b + 1 - 1 = b
        OBVIOUS
      <4>3. Len(Numbers(b, b)) = 1 /\ Numbers(b, b)[1] = b
        BY <4>1, <4>2
      <4>4. QED
        BY <4>1, <4>3
    <3>2. block' = blockhash(first)'
      <4>1. \A t : t = b => blockhash(t)' = blockhash(t)
        BY <1>2
      <4>2. QED
        BY <1>1, <2>2, <4>1
    <3>3. first' \in 1 .. Total' /\ TxBegin' \in first' .. Total' /\ i' = 0 /\ txs' = <<>>
      BY <1>1, <1>2, <1>6
    <3>4. QED
      BY <1>1, <2>2, <3>1, <3>2, <3>3 DEF ForwardInv
  <2>3. QED
    BY <1>1, <2>1, <2>2
<1>8. BackInv'
  BY <1>1 DEF BackInv
<1>9. QED
  BY <1>2, <1>5, <1>7, <1>8 DEF ReaderInv

\* Two vectors in one, and a vector without one of its elements.
LEMMA RangeJoined ==
    ASSUME NEW S, NEW s \in Seq(S), NEW t \in Seq(S)
    PROVE  /\ Range(s \o t) = Range(s) \cup Range(t)
           /\ s \o t \in Seq(S)
           /\ s = <<>> => s \o t = t
           /\ s # <<>> => s \o t # <<>> /\ (s \o t)[1] = s[1]
<1> DEFINE u == s \o t
           m == Len(s)
           n == Len(t)
<1>1. /\ m \in Nat /\ n \in Nat /\ DOMAIN s = 1 .. m /\ DOMAIN t = 1 .. n
      /\ (s # <<>> => 1 <= m) /\ (s = <<>> => u = t)
  OBVIOUS
<1>2. /\ u \in Seq(S) /\ Len(u) = m + n
      /\ \A x \in 1 .. m : u[x] = s[x]
      /\ \A x \in 1 .. n : u[m + x] = t[x]
  BY JoinedAre
<1>3. DOMAIN u = 1 .. m + n
  <2> HIDE DEF u, m, n
  <2>1. QED
    BY <1>2
<1> HIDE DEF u, m, n
<1>4. Range(u) = Range(s) \cup Range(t)
  <2>1. ASSUME NEW x \in 1 .. m + n PROVE u[x] \in Range(s) \cup Range(t)
    <3>1. CASE x <= m
      <4>1. x \in 1 .. m
        BY <1>1, <3>1
      <4>2. QED
        BY <1>1, <1>2, <4>1 DEF Range
    <3>2. CASE m < x
      <4>1. PICK y \in 1 .. n : x = m + y
        <5>1. x - m \in 1 .. n /\ x = m + (x - m)
          BY <1>1, <3>2
        <5>2. QED
          BY <5>1
      <4>2. u[x] = t[y]
        BY <1>2, <4>1
      <4>3. QED
        BY <1>1, <4>2 DEF Range
    <3>3. QED
      BY <1>1, <3>1, <3>2
  <2>2. ASSUME NEW x \in 1 .. m PROVE s[x] \in Range(u)
    <3>1. x \in 1 .. m + n /\ u[x] = s[x]
      BY <1>1, <1>2
    <3>2. QED
      BY <1>3, <3>1 DEF Range
  <2>3. ASSUME NEW x \in 1 .. n PROVE t[x] \in Range(u)
    <3>1. m + x \in 1 .. m + n /\ u[m + x] = t[x]
      BY <1>1, <1>2
    <3>2. QED
      BY <1>3, <3>1 DEF Range
  <2>4. QED
    BY <1>1, <1>3, <2>1, <2>2, <2>3 DEF Range
<1>5. s # <<>> => u # <<>> /\ u[1] = s[1]
  BY <1>1, <1>2
<1>6. QED
  BY <1>1, <1>2, <1>4, <1>5 DEF u

LEMMA RemovedIs ==
    ASSUME NEW S, NEW s \in Seq(S), NEW x \in 1 .. Len(s)
    PROVE  /\ RemoveAt(s, x) \in Seq(S)
           /\ Len(RemoveAt(s, x)) = Len(s) - 1
           /\ \A y \in 1 .. x - 1 : RemoveAt(s, x)[y] = s[y]
           /\ Range(RemoveAt(s, x)) \subseteq Range(s)
           /\ \A v \in Range(s) : v # s[x] => v \in Range(RemoveAt(s, x))
<1> DEFINE n == Len(s)
           u == SubSeq(s, 1, x - 1)
           v == SubSeq(s, x + 1, n)
           r == u \o v
<1>1. n \in Nat /\ x \in 1 .. n /\ DOMAIN s = 1 .. n
  OBVIOUS
<1>2. /\ u \in Seq(S) /\ Len(u) = x - 1 /\ \A y \in 1 .. x - 1 : u[y] = s[y]
      /\ v \in Seq(S) /\ Len(v) = n - x /\ \A y \in 1 .. n - x : v[y] = s[x + y]
  OBVIOUS
<1>3. RemoveAt(s, x) = r
  BY DEF RemoveAt
<1> HIDE DEF n, u, v
<1>4. /\ r \in Seq(S) /\ Len(r) = n - 1
      /\ \A y \in 1 .. x - 1 : r[y] = s[y]
      /\ \A y \in 1 .. n - x : r[x - 1 + y] = s[x + y]
  <2>1. /\ r \in Seq(S) /\ Len(r) = Len(u) + Len(v)
        /\ \A y \in 1 .. Len(u) : r[y] = u[y]
        /\ \A y \in 1 .. Len(v) : r[Len(u) + y] = v[y]
    <3>1. u \in Seq(S) /\ v \in Seq(S)
      BY <1>2
    <3>2. QED
      BY <3>1, JoinedAre
  <2> HIDE DEF r
  <2>2. Len(r) = n - 1
    BY <1>1, <1>2, <2>1
  <2>3. \A y \in 1 .. x - 1 : r[y] = s[y]
    BY <1>2, <2>1
  <2>4. \A y \in 1 .. n - x : r[x - 1 + y] = s[x + y]
    BY <1>2, <2>1
  <2>5. QED
    BY <2>1, <2>2, <2>3, <2>4
<1> HIDE DEF r
<1>5. DOMAIN r = 1 .. n - 1
  BY <1>1, <1>4
<1>6. ASSUME NEW y \in 1 .. n, y # x PROVE s[y] \in Range(r)
  <2>1. CASE y < x
    <3>1. y \in 1 .. x - 1 /\ y \in 1 .. n - 1
      BY <1>1, <2>1
    <3>2. QED
      BY <1>4, <1>5, <3>1 DEF Range
  <2>2. CASE x < y
    <3>1. PICK z \in 1 .. n - x : y = x + z
      <4>1. y - x \in 1 .. n - x /\ y = x + (y - x)
        BY <1>1, <2>2
      <4>2. QED
        BY <4>1
    <3>2. x - 1 + z \in 1 .. n - 1 /\ r[x - 1 + z] = s[y]
      BY <1>1, <1>4, <3>1
    <3>3. QED
      BY <1>5, <3>2 DEF Range
  <2>3. QED
    BY <1>1, <1>6, <2>1, <2>2
<1>7. ASSUME NEW y \in 1 .. n - 1 PROVE r[y] \in Range(s)
  <2>1. CASE y < x
    <3>1. y \in 1 .. x - 1 /\ y \in 1 .. n
      BY <1>1, <2>1
    <3>2. QED
      BY <1>1, <1>4, <3>1 DEF Range
  <2>2. CASE x <= y
    <3>1. PICK z \in 1 .. n - x : y = x - 1 + z
      <4>1. y - x + 1 \in 1 .. n - x /\ y = x - 1 + (y - x + 1)
        <5>1. y \in Nat /\ y <= n - 1 /\ x \in Nat /\ n \in Nat
          BY <1>1
        <5>2. QED
          BY <2>2, <5>1
      <4>2. QED
        BY <4>1
    <3>2. x + z \in 1 .. n
      BY <1>1
    <3>3. r[x - 1 + z] = s[x + z]
      BY <1>4
    <3>4. QED
      BY <1>1, <3>1, <3>2, <3>3 DEF Range
  <2>3. QED
    BY <1>1, <2>1, <2>2
<1>8. /\ Range(r) \subseteq Range(s)
      /\ \A w \in Range(s) : w # s[x] => w \in Range(r)
  BY <1>1, <1>5, <1>6, <1>7 DEF Range
<1>9. QED
  BY <1>3, <1>4, <1>8 DEF n

\* The blocks up to b, of which the last holds what was not in the others.
LEMMA BlocksAre ==
    ASSUME ReaderAssumption, ReaderInv, NEW b \in 1 .. Len(blocks)
    PROVE  /\ b - 1 \in 0 .. Len(blocks) /\ blocks[b] \in Seq(0 .. Total)
           /\ blocks[b] # <<>> /\ blocks[b][1] = 0
           /\ Range(blocks[b]) \subseteq Within(b) \cup {0}
           /\ \A t \in Within(b) : t \notin Within(b - 1) => t \in Range(blocks[b])
           /\ Within(b - 1) \subseteq Within(b)
<1>1. TypeOK /\ BlocksInv /\ Placed /\ Len(blocks) \in Nat
  BY TypesAre, PlacedIs DEF ReaderInv
<1>2. b - 1 \in 0 .. Len(blocks) /\ b \in 0 .. Len(blocks)
  BY <1>1
<1>3. blocks[b] \in Seq(0 .. Total) /\ blocks[b] # <<>> /\ blocks[b][1] = 0
  BY <1>1, TypesAre DEF BlocksInv
<1>4. Range(blocks[b]) \subseteq Within(b) \cup {0}
  <2>1. Range(blocks[b]) \subseteq 0 .. Total
    <3> DEFINE S == 0 .. Total
    <3>1. blocks[b] \in Seq(S)
      BY <1>3
    <3> HIDE DEF S
    <3>2. Range(blocks[b]) \subseteq S
      BY <3>1 DEF Range
    <3>3. QED
      BY <3>2 DEF S
  <2>2. ASSUME NEW t \in 1 .. Total, t \in Range(blocks[b]) PROVE t \in Within(b)
    <3>1. b \in 1 .. b
      OBVIOUS
    <3>2. QED
      BY <2>2, <3>1 DEF Within
  <2>3. 0 .. Total = (1 .. Total) \cup {0}
    BY <1>1, TypesAre
  <2>4. QED
    BY <2>1, <2>2, <2>3
<1>5. Within(b) \subseteq 1 .. Total /\ Within(b - 1) \subseteq 1 .. Total
  BY DEF Within
<1>6. ASSUME NEW t \in 1 .. Total
      PROVE  /\ t \in Within(b) /\ t \notin Within(b - 1) => t \in Range(blocks[b])
             /\ t \in Within(b - 1) => t \in Within(b)
  <2>1. /\ t \in Within(b) <=> blockhash(t) \in 1 .. b
        /\ t \in Within(b - 1) <=> blockhash(t) \in 1 .. b - 1
        /\ t \in Range(blocks[b]) <=> blockhash(t) = b
        /\ blockhash(t) \in 0 .. Len(blocks)
    BY <1>1, <1>2 DEF Placed
  <2> HIDE DEF Within, blockhash
  <2>2. blockhash(t) \in 1 .. b <=> blockhash(t) \in 1 .. b - 1 \/ blockhash(t) = b
    BY <1>1, <2>1
  <2>3. QED
    BY <2>1, <2>2
<1>7. QED
  BY <1>2, <1>3, <1>4, <1>5, <1>6

\* When a block has been searched, everything behind the last transaction found is later.
LEMMA SearchedIs ==
    ASSUME ReaderAssumption, ReaderInv, TxBegin \in 1 .. Total,
           NEW b \in 0 .. Len(blocks), TxBegin \in Within(b), TxBegin + 1 \notin Within(b)
    PROVE  Within(b) = 1 .. TxBegin
<1>1. PICK n \in 0 .. sent : Within(b) = 1 .. n
  BY DEF ReaderInv, BlocksInv
<1>2. n \in Nat
  BY TypesAre DEF ReaderInv
<1>3. TxBegin \in 1 .. n /\ TxBegin + 1 \notin 1 .. n
  BY <1>1
<1>4. n = TxBegin
  BY <1>2, <1>3
<1>5. QED
  BY <1>1, <1>4

LEMMA GetBlockStep == ASSUME ReaderAssumption, ReaderInv, GetBlock PROVE ReaderInv'
<1> DEFINE h == blockhash(first)
<1>1. /\ pc = "block" /\ i < nBlocks /\ block # 0
      /\ txs' = txs \o blocks[block] /\ block' = nextblockhash(block) /\ j' = 0 /\ pc' = "scan"
      /\ UNCHANGED <<msgs, sent, blocks, mode, TxBegin, TxEnd, first, last, chain, i, chains>>
  BY DEF GetBlock
<1>2. /\ TypeOK /\ BackInv /\ ForwardInv /\ Placed /\ BlocksInv
      /\ Total \in Nat /\ Len(blocks) \in Nat
  BY TypesAre, PlacedIs DEF ReaderInv
<1>3. /\ mode = "forward" /\ first \in 1 .. Total /\ TxBegin \in first .. Total
      /\ chain = Numbers(first, TxBegin) /\ i \in 0 .. nBlocks /\ nBlocks \in Nat
  <2>1. mode = "forward"
    BY <1>1, <1>2 DEF BackInv, TypeOK
  <2>2. QED
    BY <1>1, <1>2, <2>1 DEF ForwardInv, TypeOK, ReaderAssumption
<1>4. block \in 1 .. Len(blocks) /\ h \in 0 .. Len(blocks)
  BY <1>1, <1>2, <1>3 DEF TypeOK, Placed
<1>5. TxBegin \in 1 .. Total /\ first <= TxBegin /\ TxBegin \in Nat
  BY <1>2, <1>3
<1>6. /\ Total' = Total /\ BlocksInv' /\ (\A t : blockhash(t)' = blockhash(t))
      /\ \A b : Within(b)' = Within(b)
  BY <1>1, SameChain, BlocksStay
<1>7. /\ block = h + i /\ h \in 1 .. Len(blocks)
      /\ TxBegin \in Within(block) /\ Range(txs) \subseteq Within(block) \cup {0}
      /\ \A t \in Within(block) : TxBegin < t => t \notin Within(block - 1)
      /\ txs # <<>> => txs[1] = 0
  <2>1. block \in 0 .. Len(blocks) /\ block - 1 \in 0 .. Len(blocks)
    BY <1>2, <1>4
  <2>2. /\ \A t \in 1 .. Total : t \in Within(block) <=> blockhash(t) \in 1 .. block
        /\ \A t \in 1 .. Total : t \in Within(block - 1) <=> blockhash(t) \in 1 .. block - 1
    BY <1>2, <2>1 DEF Placed
  <2>3. CASE i = 0
    <3>1. TxBegin = first /\ txs = <<>> /\ block = h
      BY <1>1, <1>2, <1>3, <2>3 DEF ForwardInv
    <3>2. TxBegin \in Within(block) /\ TxBegin \notin Within(block - 1)
      <4>1. h \in 1 .. block /\ ~ (h \in 1 .. block - 1)
        BY <1>4, <3>1
      <4>2. QED
        BY <1>3, <2>2, <3>1, <4>1
    <3>3. PICK n \in 0 .. sent : Within(block - 1) = 1 .. n
      BY <1>2, <2>1 DEF BlocksInv
    <3>4. \A t \in Within(block - 1) : ~ (TxBegin < t)
      <4>1. n \in Nat /\ TxBegin \notin 1 .. n
        BY <1>2, <3>2, <3>3, TypesAre
      <4>2. \A t \in 1 .. n : ~ (TxBegin < t)
        BY <1>5, <4>1
      <4>3. QED
        BY <3>3, <4>2
    <3>5. Range(txs) = {}
      BY <3>1 DEF Range
    <3>6. block = h + i
      BY <1>4, <2>3, <3>1
    <3>7. QED
      BY <1>4, <3>1, <3>2, <3>4, <3>5, <3>6
  <2>4. CASE i # 0
    <3>1. Searched(i)
      BY <1>1, <1>2, <1>3, <2>4 DEF ForwardInv
    <3>2. /\ block = h + i /\ h # 0
          /\ TxBegin \in Within(h + i - 1) /\ Range(txs) \subseteq Within(h + i - 1) \cup {0}
          /\ txs[1] = 0 /\ TxBegin + 1 \notin Within(h + i - 1)
      BY <1>1, <3>1 DEF Searched, Fetched
    <3>3. h + i - 1 = block - 1
      <4>1. block = h + i /\ h \in Nat /\ i \in Nat
        BY <1>3, <1>4, <3>2
      <4> HIDE DEF h
      <4>2. QED
        BY <4>1
    <3>4. TxBegin \in Within(block - 1) /\ TxBegin + 1 \notin Within(block - 1)
          /\ Range(txs) \subseteq Within(block - 1) \cup {0}
      BY <3>2, <3>3
    <3>5. Within(block - 1) = 1 .. TxBegin
      BY <1>5, <2>1, <3>4, SearchedIs
    <3>6. \A t \in Within(block) : TxBegin < t => t \notin Within(block - 1)
      <4>1. \A t \in 1 .. TxBegin : ~ (TxBegin < t)
        BY <1>5
      <4>2. QED
        BY <3>5, <4>1
    <3>7. Within(block - 1) \subseteq Within(block)
      BY <1>4, BlocksAre
    <3>8. QED
      BY <1>4, <3>2, <3>4, <3>6, <3>7
  <2>5. QED
    BY <2>3, <2>4
<1>8. /\ blocks[block] \in Seq(0 .. Total) /\ blocks[block] # <<>> /\ blocks[block][1] = 0
      /\ Range(blocks[block]) \subseteq Within(block) \cup {0}
      /\ \A t \in Within(block) : t \notin Within(block - 1) => t \in Range(blocks[block])
  BY <1>4, BlocksAre
<1>9. /\ txs' \in Seq(0 .. Total) /\ Range(txs') = Range(txs) \cup Range(blocks[block])
      /\ txs' # <<>> /\ txs'[1] = 0
  <2>1. txs \in Seq(0 .. Total)
    BY <1>2 DEF TypeOK
  <2>2. /\ Range(txs') = Range(txs) \cup Range(blocks[block])
        /\ txs' \in Seq(0 .. Total)
        /\ (txs = <<>> => txs' = blocks[block])
        /\ (txs # <<>> => txs' # <<>> /\ txs'[1] = txs[1])
    BY <1>1, <1>8, <2>1, RangeJoined
  <2>3. QED
    BY <1>7, <1>8, <2>2
<1>10. block' \in 0 .. Len(blocks) /\ block' \in {0, block + 1}
  BY <1>2, <1>4, <1>1 DEF nextblockhash
<1>11. TypeOK'
  <2>1. j' \in 0 .. Len(txs')
    <3>1. Len(txs') \in Nat
      BY <1>9
    <3>2. QED
      BY <1>1, <3>1
  <2>2. QED
    BY <1>1, <1>2, <1>6, <1>9, <1>10, <2>1 DEF TypeOK
<1>12. Fetched(i + 1)'
  <2>1. h' = h
    <3>1. \A t : t = first => blockhash(t)' = blockhash(t)
      BY <1>6
    <3>2. QED
      BY <1>1, <3>1
  <2>2. (h + (i + 1) - 1)' = block /\ h + (i + 1) = block + 1 /\ (i + 1)' = i + 1
    BY <1>1, <1>3, <1>7, <2>1
  <2>3. Within(h + (i + 1) - 1)' = Within(block)
    <3>1. \A b : b = block => Within(b)' = Within(b)
      BY <1>6
    <3>2. QED
      BY <2>2, <3>1
  <2>4. h' # 0 /\ h' + (i + 1)' - 1 <= Len(blocks') /\ block' \in {0, h' + (i + 1)'}
    BY <1>1, <1>4, <1>7, <1>10, <2>1, <2>2
  <2>5. /\ Range(txs') \subseteq Within(block) \cup {0}
        /\ \A t \in Within(block) : TxBegin < t => t \in Range(txs')
    BY <1>7, <1>8, <1>9
  <2>6. QED
    BY <1>1, <1>7, <1>9, <2>3, <2>4, <2>5 DEF Fetched
<1>13. ForwardInv'
  BY <1>1, <1>3, <1>6, <1>12 DEF ForwardInv
<1>14. BackInv'
  BY <1>1, <1>3 DEF BackInv
<1>15. QED
  BY <1>6, <1>11, <1>13, <1>14 DEF ReaderInv

LEMMA FoundStep == ASSUME ReaderAssumption, ReaderInv, Found PROVE ReaderInv'
<1> DEFINE b == blockhash(first) + (i + 1) - 1
           x == j + 1
<1>1. /\ pc = "scan" /\ j < Len(txs) /\ Prev(txs[x]) = TxBegin /\ txs[x] # 0
      /\ chain' = Append(chain, txs[x]) /\ TxBegin' = txs[x] /\ txs' = RemoveAt(txs, x)
      /\ j' = 1
      /\ UNCHANGED <<msgs, sent, blocks, mode, pc, TxEnd, first, last, block, i, chains>>
  BY DEF Found
<1>2. /\ TypeOK /\ BackInv /\ ForwardInv /\ Total \in Nat
  BY TypesAre DEF ReaderInv
<1>3. /\ mode = "forward" /\ first \in 1 .. Total /\ TxBegin \in first .. Total
      /\ chain = Numbers(first, TxBegin) /\ Fetched(i + 1) /\ i < nBlocks
  <2>1. mode = "forward"
    BY <1>1, <1>2 DEF BackInv, TypeOK
  <2>2. QED
    BY <1>1, <1>2, <2>1 DEF ForwardInv
<1>4. /\ Total' = Total /\ BlocksInv' /\ (\A t : blockhash(t)' = blockhash(t))
      /\ \A c : Within(c)' = Within(c)
  BY <1>1, SameChain, BlocksStay
<1>5. /\ txs \in Seq(0 .. Total) /\ Len(txs) \in Nat /\ DOMAIN txs = 1 .. Len(txs)
      /\ x \in 1 .. Len(txs) /\ j \in Nat
  BY <1>1, <1>2, SMTT(30) DEF TypeOK
<1>6. txs[x] = TxBegin + 1 /\ TxBegin \in Nat /\ first \in Nat /\ first <= TxBegin
  <2>1. txs[x] \in 0 .. Total
    <3> DEFINE S == 0 .. Total
    <3>1. txs \in Seq(S)
      BY <1>5
    <3> HIDE DEF S, x
    <3>2. txs[x] \in S
      BY <1>5, <3>1
    <3>3. QED
      BY <3>2 DEF S
  <2>2. txs[x] - 1 = TxBegin
    BY <1>1 DEF Prev
  <2> HIDE DEF x
  <2>3. QED
    BY <1>2, <1>3, <2>1, <2>2
<1> HIDE DEF x
<1>7. txs[x] \in Within(b) /\ TxBegin' \in first .. Total
  <2>1. txs[x] \in Range(txs)
    BY <1>5 DEF Range
  <2>2. txs[x] \in Within(b) \cup {0}
    BY <1>3, <2>1 DEF Fetched
  <2>3. txs[x] \in Within(b)
    BY <1>1, <2>2
  <2>4. txs[x] \in 1 .. Total
    BY <2>3 DEF Within
  <2>5. QED
    BY <1>1, <1>2, <1>6, <2>3, <2>4
<1>8. x # 1 /\ txs # <<>> /\ txs[1] = 0
  <2>1. txs # <<>> /\ txs[1] = 0
    BY <1>3 DEF Fetched
  <2>2. QED
    BY <1>1, <2>1
<1>9. /\ txs' \in Seq(0 .. Total) /\ Len(txs') = Len(txs) - 1
      /\ \A y \in 1 .. x - 1 : txs'[y] = txs[y]
      /\ Range(txs') \subseteq Range(txs)
      /\ \A v \in Range(txs) : v # txs[x] => v \in Range(txs')
  <2> DEFINE S == 0 .. Total
  <2>1. txs \in Seq(S) /\ x \in 1 .. Len(txs) /\ txs' = RemoveAt(txs, x)
    BY <1>1, <1>5
  <2> HIDE DEF S
  <2>2. /\ txs' \in Seq(S) /\ Len(txs') = Len(txs) - 1
        /\ \A y \in 1 .. x - 1 : txs'[y] = txs[y]
        /\ Range(txs') \subseteq Range(txs)
        /\ \A v \in Range(txs) : v # txs[x] => v \in Range(txs')
    BY <2>1, RemovedIs
  <2>3. QED
    BY <2>2 DEF S
<1>10. txs'[1] = 0 /\ txs' # <<>> /\ 1 <= Len(txs')
  <2>1. 1 \in 1 .. x - 1 /\ 1 <= Len(txs) - 1
    BY <1>5, <1>8
  <2>2. txs'[1] = 0 /\ 1 <= Len(txs')
    BY <1>8, <1>9, <2>1
  <2>3. QED
    BY <2>2
<1>11. chain' = Numbers(first, TxBegin')
  <2> DEFINE n == TxBegin
  <2>1. /\ chain \in Seq(Nat) /\ Len(chain) = n - first + 1
        /\ \A y \in 1 .. n - first + 1 : chain[y] = first + y - 1
    <3>1. chain \in Seq(first .. n) /\ Len(chain) = n - first + 1
          /\ \A y \in 1 .. n - first + 1 : chain[y] = first + y - 1
      <4>1. chain = Numbers(first, n) /\ first \in Nat /\ n \in Nat /\ first <= n + 1
        BY <1>3, <1>6
      <4>2. QED
        BY <4>1, NumbersAre
    <3>2. first .. n \subseteq Nat
      BY <1>6
    <3>3. \A S, T : S \subseteq T => Seq(S) \subseteq Seq(T)
      OBVIOUS
    <3>4. QED
      BY <3>1, <3>2, <3>3
  <2>2. PICK m : m = n + 1
    OBVIOUS
  <2>3. /\ Numbers(first, m) \in Seq(first .. m)
        /\ Len(Numbers(first, m)) = m - first + 1
        /\ \A y \in 1 .. m - first + 1 : Numbers(first, m)[y] = first + y - 1
    <3>1. m \in Nat /\ first <= m + 1
      BY <1>6, <2>2
    <3>2. QED
      BY <1>6, <3>1, NumbersAre
  <2>4. Numbers(first, m) \in Seq(Nat)
    <3>1. first .. m \subseteq Nat
      BY <1>6, <2>2
    <3>2. \A S, T : S \subseteq T => Seq(S) \subseteq Seq(T)
      OBVIOUS
    <3>3. QED
      BY <2>3, <3>1, <3>2
  <2>5. chain' = Append(chain, m) /\ TxBegin' = m /\ m \in Nat /\ first <= n
        /\ first \in Nat /\ n \in Nat
    BY <1>1, <1>6, <2>2
  <2> HIDE DEF n
  <2>6. chain' \in Seq(Nat) /\ Len(chain') = m - first + 1
    BY <2>1, <2>2, <2>5
  <2>7. ASSUME NEW y \in 1 .. m - first + 1 PROVE chain'[y] = first + y - 1
    <3>1. CASE y = m - first + 1
      BY <2>1, <2>2, <2>5, <3>1
    <3>2. CASE y # m - first + 1
      <4>1. y \in 1 .. n - first + 1
        BY <2>2, <2>5, <3>2
      <4>2. chain'[y] = chain[y]
        BY <2>1, <2>5, <4>1
      <4>3. QED
        BY <2>1, <4>1, <4>2
    <3>3. QED
      BY <3>1, <3>2
  <2>8. QED
    BY <2>3, <2>4, <2>5, <2>6, <2>7, SameSeq
<1>12. chain' \in Seq(1 .. Total) /\ TxBegin' \in 0 .. Total
  <2>1. txs[x] \in 1 .. Total /\ chain \in Seq(1 .. Total)
    BY <1>2, <1>7 DEF Within, TypeOK
  <2> DEFINE S == 1 .. Total
  <2>2. txs[x] \in S /\ chain \in Seq(S)
    BY <2>1
  <2> HIDE DEF S
  <2>3. chain' \in Seq(S)
    BY <1>1, <2>2
  <2>4. QED
    BY <1>1, <2>1, <2>3 DEF S
<1>13. TypeOK'
  <2>1. j' \in 0 .. Len(txs')
    <3>1. Len(txs') \in Nat
      BY <1>9
    <3>2. QED
      BY <1>1, <1>10, <3>1
  <2>2. QED
    BY <1>1, <1>2, <1>4, <1>9, <1>12, <2>1 DEF TypeOK
<1>14. Fetched(i + 1)'
  <2>1. blockhash(first)' = blockhash(first)
    <3>1. \A t : t = first => blockhash(t)' = blockhash(t)
      BY <1>4
    <3>2. QED
      BY <1>1, <3>1
  <2>2. b' = b /\ (i + 1)' = i + 1
    BY <1>1, <2>1
  <2>3. Within(b)' = Within(b)
    <3>1. \A c : c = b => Within(c)' = Within(c)
      BY <1>4
    <3>2. QED
      BY <2>2, <3>1
  <2>4. /\ blockhash(first) # 0 /\ b <= Len(blocks) /\ block \in {0, blockhash(first) + (i + 1)}
        /\ Range(txs) \subseteq Within(b) \cup {0}
        /\ \A t \in Within(b) : TxBegin < t => t \in Range(txs)
    BY <1>3 DEF Fetched
  <2>5. ASSUME NEW t \in Within(b), TxBegin' < t PROVE t \in Range(txs')
    <3>1. t \in 1 .. Total
      BY DEF Within
    <3>2. TxBegin < t /\ t # txs[x]
      BY <1>1, <1>2, <1>6, <2>5, <3>1
    <3>3. QED
      BY <1>9, <2>4, <3>2
  <2>6. Range(txs') \subseteq Within(b) \cup {0}
    BY <1>9, <2>4
  <2>7. TxBegin' \in Within(b)
    BY <1>1, <1>7
  <2>8. QED
    BY <1>1, <1>10, <2>1, <2>2, <2>3, <2>4, <2>5, <2>6, <2>7 DEF Fetched
<1>15. \A y \in 1 .. j' : txs'[y] # TxBegin' + 1
  <2>1. TxBegin' + 1 # 0
    BY <1>1, <1>6
  <2>2. \A y \in 1 .. 1 : y = 1
    OBVIOUS
  <2>3. QED
    BY <1>1, <1>10, <2>1, <2>2
<1>16. ForwardInv'
  BY <1>1, <1>3, <1>4, <1>7, <1>11, <1>14, <1>15 DEF ForwardInv
<1>17. BackInv'
  BY <1>1, <1>3 DEF BackInv
<1>18. QED
  BY <1>4, <1>13, <1>16, <1>17 DEF ReaderInv

\* A step that leaves alone what a search is about.
SearchVars == <<msgs, blocks, TxBegin, first, block, txs>>

LEMMA SearchStays ==
    ASSUME UNCHANGED SearchVars, NEW k
    PROVE  (Fetched(k)' <=> Fetched(k)) /\ (Searched(k)' <=> Searched(k))
<1>1. Kinds' = Kinds /\ Total' = Total /\ Mined' = Mined
  BY SameChain DEF SearchVars
<1>2. QED
  BY <1>1 DEF SearchVars, Fetched, Searched, Within, blockhash

LEMMA NotFoundStep == ASSUME ReaderAssumption, ReaderInv, NotFound PROVE ReaderInv'
<1>1. /\ pc = "scan" /\ j < Len(txs) /\ j' = j + 1
      /\ Prev(txs[j + 1]) # TxBegin \/ txs[j + 1] = 0
      /\ UNCHANGED <<msgs, sent, blocks, mode, pc, TxBegin, TxEnd, first, last, chain, block, i,
                     txs, chains>>
  BY DEF NotFound
<1>2. TypeOK /\ BackInv /\ ForwardInv /\ Total' = Total /\ BlocksInv' /\ Total \in Nat
  BY <1>1, SameChain, BlocksStay, TypesAre DEF ReaderInv
<1>3. Len(txs) \in Nat /\ j \in Nat /\ TxBegin \in Nat
  BY <1>2 DEF TypeOK
<1>4. TypeOK'
  <2>1. j' \in 0 .. Len(txs')
    BY <1>1, <1>3
  <2>2. QED
    BY <1>1, <1>2, <2>1 DEF TypeOK
<1>5. mode = "forward"
  BY <1>1, <1>2 DEF BackInv, TypeOK
<1>6. Fetched(i + 1)'
  <2>1. ASSUME NEW k, k = i + 1 PROVE Fetched(k)'
    <3>1. Fetched(k)
      BY <1>1, <1>2, <1>5, <2>1 DEF ForwardInv
    <3>2. UNCHANGED SearchVars
      BY <1>1 DEF SearchVars
    <3>3. QED
      BY <3>1, <3>2, SearchStays
  <2>2. (i + 1)' = i + 1
    BY <1>1
  <2>3. QED
    BY <2>1, <2>2
<1>7. ASSUME NEW x \in 1 .. j' PROVE txs'[x] # TxBegin' + 1
  <2>1. CASE x \in 1 .. j
    BY <1>1, <1>2, <1>5, <2>1 DEF ForwardInv
  <2>2. CASE x = j + 1
    <3>1. TxBegin + 1 # 0 /\ (TxBegin + 1) - 1 = TxBegin
      BY <1>3
    <3>2. ASSUME txs[j + 1] = TxBegin + 1 PROVE FALSE
      BY <1>1, <3>1, <3>2 DEF Prev
    <3>3. QED
      BY <1>1, <2>2, <3>2
  <2>3. QED
    BY <1>1, <1>3, <2>1, <2>2
<1>8. ForwardInv'
  BY <1>1, <1>2, <1>5, <1>6, <1>7 DEF ForwardInv
<1>9. BackInv'
  BY <1>1, <1>5 DEF BackInv
<1>10. QED
  BY <1>2, <1>4, <1>8, <1>9 DEF ReaderInv

LEMMA NextBlockStep == ASSUME ReaderAssumption, ReaderInv, NextBlock PROVE ReaderInv'
<1>1. /\ pc = "scan" /\ j >= Len(txs) /\ i' = i + 1 /\ pc' = "block"
      /\ UNCHANGED <<msgs, sent, blocks, mode, TxBegin, TxEnd, first, last, chain, block, j, txs,
                     chains>>
  BY DEF NextBlock
<1>2. TypeOK /\ BackInv /\ ForwardInv /\ Total' = Total /\ BlocksInv' /\ Total \in Nat
  BY <1>1, SameChain, BlocksStay, TypesAre DEF ReaderInv
<1>3. /\ Len(txs) \in Nat /\ DOMAIN txs = 1 .. Len(txs) /\ j = Len(txs) /\ TxBegin \in Nat
      /\ i \in Nat /\ nBlocks \in Nat
  BY <1>1, <1>2 DEF TypeOK, ReaderAssumption
<1>4. mode = "forward"
  BY <1>1, <1>2 DEF BackInv, TypeOK
<1>5. Fetched(i + 1) /\ i < nBlocks /\ \A x \in 1 .. j : txs[x] # TxBegin + 1
  BY <1>1, <1>2, <1>4 DEF ForwardInv
<1>6. TypeOK'
  <2>1. i' \in 0 .. nBlocks
    BY <1>1, <1>3, <1>5
  <2>2. QED
    BY <1>1, <1>2, <2>1 DEF TypeOK
<1>7. Searched(i + 1)
  <2>1. TxBegin + 1 \notin Range(txs)
    BY <1>3, <1>5 DEF Range
  <2>2. TxBegin < TxBegin + 1
    BY <1>3
  <2>3. QED
    BY <1>5, <2>1, <2>2 DEF Fetched, Searched
<1>8. Searched(i)'
  <2>1. ASSUME NEW k, k = i + 1 PROVE Searched(k)'
    <3>1. Searched(k)
      BY <1>7, <2>1
    <3>2. UNCHANGED SearchVars
      BY <1>1 DEF SearchVars
    <3>3. QED
      BY <3>1, <3>2, SearchStays
  <2>2. QED
    BY <1>1, <2>1
<1>9. ForwardInv'
  <2>1. i' # 0
    BY <1>1, <1>3
  <2>2. QED
    BY <1>1, <1>2, <1>4, <1>8, <2>1 DEF ForwardInv
<1>10. BackInv'
  BY <1>1, <1>4 DEF BackInv
<1>11. QED
  BY <1>2, <1>6, <1>9, <1>10 DEF ReaderInv

LEMMA CollectedStep == ASSUME ReaderAssumption, ReaderInv, Collected PROVE ReaderInv'
<1>1. /\ pc = "block" /\ i = nBlocks /\ pc' = "split"
      /\ UNCHANGED <<msgs, sent, blocks, mode, TxBegin, TxEnd, first, last, chain, block, i, j,
                     txs, chains>>
  BY DEF Collected
<1>2. TypeOK /\ BackInv /\ ForwardInv /\ Total' = Total /\ BlocksInv'
  BY <1>1, SameChain, BlocksStay DEF ReaderInv
<1>3. mode = "forward"
  BY <1>1, <1>2 DEF BackInv, TypeOK
<1>4. Searched(nBlocks)
  <2>1. i # 0
    BY <1>1 DEF ReaderAssumption
  <2>2. QED
    BY <1>1, <1>2, <1>3, <2>1 DEF ForwardInv
<1>5. Searched(nBlocks)'
  <2>1. UNCHANGED SearchVars
    BY <1>1 DEF SearchVars
  <2>2. QED
    BY <1>4, <2>1, SearchStays
<1>6. TypeOK' /\ ForwardInv' /\ BackInv'
  BY <1>1, <1>2, <1>3, <1>5 DEF TypeOK, ForwardInv, BackInv
<1>7. QED
  BY <1>2, <1>6 DEF ReaderInv

LEMMA ReturnStep == ASSUME ReaderAssumption, ReaderInv, Return PROVE ReaderInv'
<1>1. /\ pc = "split" /\ pc' = "read"
      /\ chains' = IF mode = "backward" THEN Split(OneAddress) ELSE Split(OneOutput)
      /\ UNCHANGED <<msgs, sent, blocks, mode, TxBegin, TxEnd, first, last, chain, block, i, j,
                     txs>>
  BY DEF Return
<1>2. /\ TypeOK /\ BackInv /\ ForwardInv /\ Total' = Total /\ BlocksInv'
      /\ OneAddress' = OneAddress
  BY <1>1, SameChain, BlocksStay DEF ReaderInv
<1>3. TypeOK'
  <2>1. chain \in Seq(1 .. Total)
    BY <1>2 DEF TypeOK
  <2>2. chains' \in Seq(Seq(1 .. Total))
    BY <1>1, <2>1, SplitType
  <2>3. QED
    BY <1>1, <1>2, <2>2 DEF TypeOK
<1>4. BackInv'
  <2>1. SUFFICES ASSUME mode = "backward" PROVE BackInv'
    BY <1>1 DEF BackInv
  <2>2. first <= last /\ chain = Numbers(first, last)
    BY <1>1, <1>2, <2>1 DEF BackInv
  <2>3. Split(OneAddress)' = Split(OneAddress)
    BY <1>1, <1>2 DEF Split
  <2>4. QED
    BY <1>1, <2>1, <2>2, <2>3 DEF BackInv, Numbers
<1>5. ForwardInv'
  <2>1. SUFFICES ASSUME mode = "forward" PROVE ForwardInv'
    BY <1>1 DEF ForwardInv
  <2>2. /\ first \in 1 .. Total /\ TxBegin \in first .. Total
        /\ chain = Numbers(first, TxBegin) /\ Searched(nBlocks)
    BY <1>1, <1>2, <2>1 DEF ForwardInv
  <2>3. Searched(nBlocks)'
    <3>1. UNCHANGED SearchVars
      BY <1>1 DEF SearchVars
    <3>2. QED
      BY <2>2, <3>1, SearchStays
  <2>4. QED
    BY <1>1, <1>2, <2>1, <2>2, <2>3 DEF ForwardInv, Numbers
<1>6. QED
  BY <1>2, <1>3, <1>4, <1>5 DEF ReaderInv

LEMMA ReaderStays == ASSUME ReaderAssumption, ReaderInv, UNCHANGED vars PROVE ReaderInv'
<1>1. UNCHANGED <<msgs, sent, blocks, mode, pc, TxBegin, TxEnd, first, last, chain, block, i, j,
                  txs, chains>>
  BY DEF vars, reader
<1>2. TypeOK /\ BackInv /\ ForwardInv
  BY DEF ReaderInv
<1>3. Kinds' = Kinds /\ Total' = Total /\ Mined' = Mined /\ BlocksInv' /\ OneAddress' = OneAddress
  BY <1>1, SameChain, BlocksStay
<1>4. TypeOK'
  BY <1>1, <1>2, <1>3 DEF TypeOK
<1>5. BackInv'
  <2>1. Split(OneAddress)' = Split(OneAddress) /\ Down' = Down
    BY <1>1, <1>3 DEF Split, Down
  <2>2. QED
    BY <1>1, <1>2, <2>1 DEF BackInv
<1>6. ForwardInv' <=> ForwardInv
  BY <1>1, <1>3 DEF ForwardInv, Searched, Fetched, Within, blockhash
<1>7. QED
  BY <1>2, <1>3, <1>4, <1>5, <1>6 DEF ReaderInv

LEMMA ReaderStep == ReaderAssumption /\ ReaderInv /\ [Next]_vars => ReaderInv'
<1> SUFFICES ASSUME ReaderAssumption, ReaderInv, [Next]_vars PROVE ReaderInv'
  OBVIOUS
<1>1. CASE Broadcast
  BY <1>1, BroadcastStep
<1>2. CASE Mine
  BY <1>2, MineStep
<1>3. ASSUME NEW b \in 1 .. Total, NEW e \in 1 .. Total, StartBackward(b, e) PROVE ReaderInv'
  BY <1>3, StartBackwardStep
<1>4. ASSUME NEW b \in 1 .. Total, StartForward(b) PROVE ReaderInv'
  BY <1>4, StartForwardStep
<1>5. CASE Read
  <2>1. CASE StepBack
    BY <2>1, StepBackStep
  <2>2. CASE ReverseChain
    BY <2>2, ReverseChainStep
  <2>3. CASE GetBlock
    BY <2>3, GetBlockStep
  <2>4. CASE Found
    BY <2>4, FoundStep
  <2>5. CASE NotFound
    BY <2>5, NotFoundStep
  <2>6. CASE NextBlock
    BY <2>6, NextBlockStep
  <2>7. CASE Collected
    BY <2>7, CollectedStep
  <2>8. CASE Return
    BY <2>8, ReturnStep
  <2>9. CASE Fail
    BY <2>9, FailStep
  <2>10. QED
    BY <1>5, <2>1, <2>2, <2>3, <2>4, <2>5, <2>6, <2>7, <2>8, <2>9 DEF Read
<1>6. CASE UNCHANGED vars
  BY <1>6, ReaderStays
<1>7. QED
  BY <1>1, <1>2, <1>3, <1>4, <1>5, <1>6 DEF Next

--------------------------------------------------------------------------------
(* What the readers return. *)

\* Each message begins where the one before it ended.
LEMMA MessagesInOrder ==
    ASSUME ReaderAssumption, Written
    PROVE  /\ NumMessages \in Nat
           /\ \A m \in 1 .. NumMessages :
                /\ Start(m) \in Nat \ {0} /\ Close(m) \in Nat /\ Start(m) <= Close(m)
                /\ Close(m) \in 1 .. Total
           /\ \A m, n \in 1 .. NumMessages : m < n => Close(m) < Start(n)
           /\ \A m \in 1 .. NumMessages : m # 1 => Start(m) = Close(m - 1) + 1
<1>1. /\ NumMessages \in Nat
      /\ \A m \in 1 .. NumMessages + 1 : Start(m) \in Nat \ {0}
      /\ \A m \in 1 .. NumMessages :
           m \in 1 .. NumMessages + 1 /\ Start(m) <= Close(m) /\ Close(m) \in 1 .. Total
  BY MessagesAre, PlacesAre
<1>2. \A m \in 1 .. NumMessages : Close(m) = Start(m + 1) - 1
  BY DEF Close
<1>3. ASSUME NEW m \in 1 .. NumMessages, NEW n \in 1 .. NumMessages, m < n
      PROVE  Close(m) < Start(n)
  <2>1. m + 1 \in 1 .. NumMessages + 1 /\ n \in m + 1 .. NumMessages + 1
    BY <1>1, <1>3
  <2>2. Start(m + 1) <= Start(n)
    BY <2>1, StartsRise
  <2>3. Start(m + 1) \in Nat /\ Start(n) \in Nat
    BY <1>1, <2>1
  <2>4. QED
    BY <1>2, <2>2, <2>3
<1>4. ASSUME NEW m \in 1 .. NumMessages, m # 1 PROVE Start(m) = Close(m - 1) + 1
  <2>1. m - 1 \in 1 .. NumMessages /\ (m - 1) + 1 = m
    BY <1>1, <1>4
  <2>2. Close(m - 1) = Start(m) - 1
    BY <1>2, <2>1
  <2>3. QED
    BY <1>1, <2>2
<1>5. \A m \in 1 .. NumMessages : Close(m) \in Nat
  <2>1. 1 .. Total \subseteq Nat
    BY PlacesAre
  <2>2. QED
    BY <1>1, <2>1
<1>6. QED
  BY <1>1, <1>3, <1>4, <1>5

\* A part of the numbers in a row.
LEMMA PartOfNumbers ==
    ASSUME NEW a \in Nat, NEW b \in Nat, NEW p \in a .. b, NEW q \in p .. b
    PROVE  SubSeq(Numbers(a, b), p - a + 1, q - a + 1) = Numbers(p, q)
<1> DEFINE u == Numbers(a, b)
           v == Numbers(p, q)
           s == SubSeq(u, p - a + 1, q - a + 1)
<1>1. p \in Nat /\ q \in Nat /\ a <= p /\ p <= q /\ q <= b
  OBVIOUS
<1>2. /\ u \in Seq(Nat) /\ Len(u) = b - a + 1 /\ \A x \in 1 .. b - a + 1 : u[x] = a + x - 1
  <2>1. /\ u \in Seq(a .. b) /\ Len(u) = b - a + 1
        /\ \A x \in 1 .. b - a + 1 : u[x] = a + x - 1
    <3>1. a <= b + 1
      BY <1>1
    <3>2. QED
      BY <3>1, NumbersAre
  <2>2. a .. b \subseteq Nat /\ \A S, T : S \subseteq T => Seq(S) \subseteq Seq(T)
    OBVIOUS
  <2>3. QED
    BY <2>1, <2>2
<1>3. /\ v \in Seq(Nat) /\ Len(v) = q - p + 1 /\ \A x \in 1 .. q - p + 1 : v[x] = p + x - 1
  <2>1. /\ v \in Seq(p .. q) /\ Len(v) = q - p + 1
        /\ \A x \in 1 .. q - p + 1 : v[x] = p + x - 1
    <3>1. p <= q + 1
      BY <1>1
    <3>2. QED
      BY <1>1, <3>1, NumbersAre
  <2>2. p .. q \subseteq Nat /\ \A S, T : S \subseteq T => Seq(S) \subseteq Seq(T)
    BY <1>1
  <2>3. QED
    BY <2>1, <2>2
<1> HIDE DEF u, v
<1>4. /\ s \in Seq(Nat) /\ Len(s) = q - p + 1
      /\ \A x \in 1 .. q - p + 1 : s[x] = u[p - a + x]
  <2>1. PICK l, r : l = p - a + 1 /\ r = q - a + 1
    OBVIOUS
  <2>2. l \in 1 .. Len(u) /\ r \in l .. Len(u) /\ r - l + 1 = q - p + 1
    BY <1>1, <1>2, <2>1
  <2>3. s = SubSeq(u, l, r)
    BY <2>1
  <2> HIDE DEF s
  <2>4. s \in Seq(Nat) /\ Len(s) = r - l + 1 /\ \A x \in 1 .. r - l + 1 : s[x] = u[l + x - 1]
    BY <1>2, <2>2, <2>3
  <2>5. \A x \in 1 .. q - p + 1 : l + x - 1 = p - a + x
    BY <1>1, <2>1
  <2>6. QED
    BY <2>2, <2>4, <2>5
<1> HIDE DEF s
<1>5. ASSUME NEW x \in 1 .. q - p + 1 PROVE s[x] = v[x]
  <2>1. p - a + x \in 1 .. b - a + 1 /\ a + (p - a + x) - 1 = p + x - 1
    BY <1>1
  <2>2. u[p - a + x] = p + x - 1
    BY <1>2, <2>1
  <2>3. QED
    BY <1>3, <1>4, <2>2
<1>6. s = v
  BY <1>3, <1>4, <1>5, SameSeq
<1>7. QED
  BY <1>6 DEF s, u, v

\* The chain from the first transaction of a message to the last of another is cut into these
\* and the messages between.
LEMMA SplitsAre ==
    ASSUME ReaderAssumption, Written, NEW a \in 1 .. NumMessages, NEW b \in 1 .. NumMessages,
           chain = Numbers(Start(a), Close(b)), Start(a) <= Close(b)
    PROVE  Split(OneAddress) = [x \in 1 .. b - a + 1 |-> Transactions(a + x - 1)]
<1> DEFINE n == Len(chain)
           S == {x \in DOMAIN chain : chain[x] \in OneAddress}
           c == b - a + 1
           f == [k \in 1 .. c |-> Close(a + k - 1) - Start(a) + 1]
<1>1. /\ NumMessages \in Nat
      /\ \A m \in 1 .. NumMessages :
           /\ Start(m) \in Nat \ {0} /\ Close(m) \in Nat /\ Start(m) <= Close(m)
           /\ Close(m) \in 1 .. Total
      /\ \A l, m \in 1 .. NumMessages : l < m => Close(l) < Start(m)
      /\ \A m \in 1 .. NumMessages : m # 1 => Start(m) = Close(m - 1) + 1
  BY MessagesInOrder
<1>2. PICK s, e : s = Start(a) /\ e = Close(b)
  OBVIOUS
<1>3. s \in Nat \ {0} /\ e \in Nat /\ s <= e /\ e \in 1 .. Total /\ chain = Numbers(s, e)
  BY <1>1, <1>2
<1>4. a <= b /\ c \in Nat /\ \A k \in 1 .. c : a + k - 1 \in a .. b
  <2>1. ~ (b < a)
    BY <1>1
  <2>2. QED
    BY <1>1, <2>1
<1>5. /\ n = e - s + 1 /\ DOMAIN chain = 1 .. n /\ n \in Nat
      /\ \A x \in 1 .. n : chain[x] = s + x - 1
  <2>1. /\ chain \in Seq(s .. e) /\ Len(chain) = e - s + 1
        /\ \A x \in 1 .. e - s + 1 : chain[x] = s + x - 1
    <3>1. s \in Nat /\ s <= e + 1
      BY <1>3
    <3>2. QED
      BY <1>3, <3>1, NumbersAre
  <2>2. DOMAIN chain = 1 .. Len(chain)
    BY <2>1
  <2>3. e - s + 1 \in Nat
    BY <1>3
  <2>4. QED
    BY <2>1, <2>2, <2>3
<1>6. \A m \in a .. b : /\ m \in 1 .. NumMessages /\ s <= Start(m) /\ Close(m) <= e
                        /\ Start(m) <= Close(m) /\ Start(m) \in Nat /\ Close(m) \in Nat
  <2>1. SUFFICES ASSUME NEW m \in a .. b
                 PROVE  /\ m \in 1 .. NumMessages /\ s <= Start(m) /\ Close(m) <= e
                        /\ Start(m) <= Close(m) /\ Start(m) \in Nat /\ Close(m) \in Nat
    OBVIOUS
  <2>2. m \in 1 .. NumMessages
    BY <1>1
  <2>3. s <= Start(m)
    <3>1. CASE m = a
      BY <1>2, <1>3, <3>1
    <3>2. CASE a < m
      BY <1>1, <1>2, <2>2, <3>2
    <3>3. QED
      BY <3>1, <3>2
  <2>4. Close(m) <= e
    <3>1. CASE m = b
      BY <1>2, <1>3, <3>1
    <3>2. CASE m < b
      BY <1>1, <1>2, <2>2, <3>2
    <3>3. QED
      BY <3>1, <3>2
  <2>5. QED
    BY <1>1, <2>2, <2>3, <2>4
<1>7. \A k \in 1 .. c : f[k] = Close(a + k - 1) - s + 1
  BY <1>2
<1> HIDE DEF n, c, f
<1>8. ASSUME NEW x \in 1 .. n
      PROVE  x \in S <=> \E m \in 1 .. NumMessages : s + x - 1 = Close(m)
  <2>1. PICK t : t = s + x - 1
    OBVIOUS
  <2>2. t \in 1 .. Total
    <3>1. t \in Nat /\ 1 <= t /\ t <= e
      BY <1>3, <1>5, <2>1
    <3>2. Total \in Nat
      BY PlacesAre
    <3>3. QED
      BY <1>3, <3>1, <3>2
  <2>3. t \in OneAddress <=> Kinds[t] = "end"
    BY <2>2 DEF OneAddress, OneOutput
  <2>4. Kinds[t] = "end" <=> \E m \in 1 .. NumMessages : t = Close(m)
    BY <2>2, EndsAre
  <2>5. QED
    BY <1>5, <2>1, <2>3, <2>4
<1>9. S \subseteq 1 .. n
  BY <1>5
<1>10. \A k \in 1 .. c : f[k] \in S
  <2>1. SUFFICES ASSUME NEW k \in 1 .. c PROVE f[k] \in S
    OBVIOUS
  <2>2. PICK m \in a .. b : m = a + k - 1
    BY <1>4
  <2>3. f[k] = Close(m) - s + 1
    BY <1>7, <2>2
  <2>4. f[k] \in 1 .. n /\ s + f[k] - 1 = Close(m) /\ m \in 1 .. NumMessages
    BY <1>3, <1>5, <1>6, <2>3
  <2>5. QED
    BY <1>8, <2>4
<1>11. \A x \in S : \E k \in 1 .. c : f[k] = x
  <2>1. SUFFICES ASSUME NEW x \in S PROVE \E k \in 1 .. c : f[k] = x
    OBVIOUS
  <2>2. x \in 1 .. n
    BY <1>9
  <2>3. PICK m \in 1 .. NumMessages : s + x - 1 = Close(m)
    BY <1>8, <2>2
  <2>4. s <= Close(m) /\ Close(m) <= e
    BY <1>3, <1>5, <2>2, <2>3
  <2>5. ~ (m < a) /\ ~ (b < m)
    BY <1>1, <1>2, <2>4
  <2>6. PICK k \in 1 .. c : a + k - 1 = m
    <3>1. m - a + 1 \in 1 .. c /\ a + (m - a + 1) - 1 = m
      BY <1>1, <2>5 DEF c
    <3>2. QED
      BY <3>1
  <2>7. f[k] = Close(m) - s + 1
    BY <1>7, <2>6
  <2>8. QED
    BY <1>1, <1>3, <2>2, <2>3, <2>7
<1>12. \A k, m \in 1 .. c : k < m => f[k] < f[m]
  <2>1. SUFFICES ASSUME NEW k \in 1 .. c, NEW m \in 1 .. c, k < m PROVE f[k] < f[m]
    OBVIOUS
  <2>2. PICK x, y \in a .. b : x = a + k - 1 /\ y = a + m - 1
    BY <1>4
  <2>3. x < y
    BY <1>4, <2>1, <2>2
  <2>4. Close(x) < Close(y)
    BY <1>1, <1>6, <2>3
  <2>5. f[k] = Close(x) - s + 1 /\ f[m] = Close(y) - s + 1
    BY <1>7, <2>2
  <2>6. QED
    BY <1>3, <1>6, <2>4, <2>5
<1>13. Cardinality(S) = c /\ \A k \in 1 .. c : Cut(S, k) = f[k]
  <2>1. f \in [1 .. c -> S]
    BY <1>10 DEF f
  <2>2. InOrder(S, f, c)
    BY <1>11, <1>12 DEF InOrder
  <2> HIDE DEF S
  <2>3. QED
    BY <1>4, <1>5, <1>9, <2>1, <2>2, CutsAre
<1>14. Split(OneAddress) = [k \in 1 .. c |-> SubSeq(chain, Cut(S, k - 1) + 1, Cut(S, k))]
  <2>1. Split(OneAddress) = [k \in 1 .. Cardinality(S) |->
                               SubSeq(chain, Cut(S, k - 1) + 1, Cut(S, k))]
    BY SplitIs
  <2>2. QED
    BY <1>13, <2>1
<1> HIDE DEF S
<1>15. ASSUME NEW k \in 1 .. c
       PROVE  SubSeq(chain, Cut(S, k - 1) + 1, Cut(S, k)) = Transactions(a + k - 1)
  <2>1. PICK m \in a .. b : m = a + k - 1
    BY <1>4
  <2>2. Cut(S, k) = Close(m) - s + 1
    BY <1>7, <1>13, <2>1
  <2>3. Cut(S, k - 1) + 1 = Start(m) - s + 1
    <3>1. CASE k = 1
      <4>1. k - 1 = 0 /\ m = a
        BY <1>4, <2>1, <3>1
      <4>2. Cut(S, k - 1) = 0
        BY <4>1 DEF Cut
      <4>3. QED
        BY <1>2, <1>3, <4>1, <4>2
    <3>2. CASE k # 1
      <4>1. k - 1 \in 1 .. c /\ a + (k - 1) - 1 = m - 1 /\ m # 1
        BY <1>4, <2>1, <3>2
      <4>2. Cut(S, k - 1) = Close(m - 1) - s + 1
        BY <1>7, <1>13, <4>1
      <4>3. m \in 1 .. NumMessages /\ m - 1 \in 1 .. NumMessages
        BY <1>1, <1>6, <4>1
      <4>4. Start(m) = Close(m - 1) + 1 /\ Close(m - 1) \in Nat
        BY <1>1, <4>1, <4>3
      <4>5. QED
        BY <1>3, <4>2, <4>4
    <3>3. QED
      BY <3>1, <3>2
  <2>4. PICK p, q : p = Start(m) /\ q = Close(m)
    OBVIOUS
  <2>5. s \in Nat /\ p \in s .. e /\ q \in p .. e
    BY <1>3, <1>6, <2>4
  <2>6. SubSeq(Numbers(s, e), p - s + 1, q - s + 1) = Numbers(p, q)
    BY <1>3, <2>5, PartOfNumbers
  <2>7. QED
    BY <1>3, <2>1, <2>2, <2>3, <2>4, <2>6 DEF Transactions
<1>16. QED
  BY <1>14, <1>15 DEF c

LEMMA BackwardHolds == ASSUME ReaderAssumption, ReaderInv PROVE BackwardReads
<1>1. SUFFICES ASSUME pc = "read", mode = "backward", NEW a \in DOMAIN msgs,
                      NEW b \in DOMAIN msgs, first = Start(a), last = Close(b)
               PROVE  chains = [x \in 1 .. b - a + 1 |-> Transactions(a + x - 1)]
  BY DEF BackwardReads
<1>2. Written /\ a \in 1 .. NumMessages /\ b \in 1 .. NumMessages
  BY DEF ReaderInv, TypeOK, Written
<1>3. first <= last /\ chain = Numbers(first, last) /\ chains = Split(OneAddress)
  BY <1>1 DEF ReaderInv, BackInv
<1>4. QED
  BY <1>1, <1>2, <1>3, SplitsAre

LEMMA ForwardHolds ==
    ASSUME ReaderAssumption, ReaderInv
    PROVE  ForwardCollects /\ ForwardNeedsBlocks
<1>1. SUFFICES ASSUME pc \in {"split", "read"}, mode = "forward"
               PROVE  ForwardCollects /\ ForwardNeedsBlocks
  BY DEF ForwardCollects, ForwardNeedsBlocks
<1> DEFINE b == blockhash(first) + nBlocks - 1
<1>2. /\ first \in 1 .. Total /\ TxBegin \in first .. Total /\ chain = Numbers(first, TxBegin)
      /\ Searched(nBlocks)
  BY <1>1 DEF ReaderInv, ForwardInv
<1>3. /\ blockhash(first) # 0 /\ b <= Len(blocks) /\ TxBegin \in Within(b)
      /\ TxBegin + 1 \notin Within(b)
  BY <1>2 DEF Searched, Fetched
<1>4. /\ Total \in Nat /\ Len(blocks) \in Nat /\ nBlocks \in Nat \ {0} /\ Placed
  BY TypesAre, PlacedIs DEF ReaderInv, ReaderAssumption
<1>5. blockhash(first) \in 1 .. Len(blocks) /\ b \in 0 .. Len(blocks)
      /\ TxBegin \in 1 .. Total
  BY <1>2, <1>3, <1>4 DEF Placed
<1>6. Within(b) = 1 .. TxBegin
  <2> HIDE DEF b
  <2>1. QED
    BY <1>3, <1>5, SearchedIs
<1>7. ASSUME NEW t \in first .. Total
      PROVE  t <= TxBegin <=> t \in Mined /\ blockhash(t) < blockhash(first) + nBlocks
  <2>1. t \in 1 .. Total
    BY <1>2
  <2>2. t <= TxBegin <=> blockhash(t) \in 1 .. b
    <3>1. t <= TxBegin <=> t \in 1 .. TxBegin
      BY <1>5, <2>1
    <3>2. t \in Within(b) <=> blockhash(t) \in 1 .. b
      BY <1>4, <1>5, <2>1 DEF Placed
    <3>3. QED
      BY <1>6, <3>1, <3>2
  <2>3. (t \in Mined <=> blockhash(t) # 0) /\ blockhash(t) \in Nat
    BY <1>4, <2>1 DEF Placed
  <2>4. QED
    BY <1>4, <1>5, <2>2, <2>3
<1>8. ForwardCollects
  BY <1>2, <1>7 DEF ForwardCollects
<1>9. ForwardNeedsBlocks
  BY <1>3 DEF ForwardNeedsBlocks
<1>10. QED
  BY <1>8, <1>9

LEMMA ReaderInvariant == ASSUME ReaderAssumption PROVE Spec => []ReaderInv
<1>1. Init => ReaderInv
  BY ReaderInit
<1>2. ReaderInv /\ [Next]_vars => ReaderInv'
  BY ReaderStep
<1>3. QED
  BY <1>1, <1>2, PTL DEF Spec

\* Whichever messages there are, of whatever lengths, the backward reader returns those it is
\* asked for, each whole and in order.
THEOREM BackwardReadsWhole == ASSUME ReaderAssumption PROVE Spec => []BackwardReads
<1>1. ReaderInv => BackwardReads
  BY BackwardHolds
<1>2. QED
  BY <1>1, ReaderInvariant, PTL

\* The forward reader collects what is in its blocks, and has seen as many blocks as it should.
THEOREM ForwardCollectsWhole ==
    ASSUME ReaderAssumption PROVE Spec => [](ForwardCollects /\ ForwardNeedsBlocks)
<1>1. ReaderInv => ForwardCollects /\ ForwardNeedsBlocks
  BY ForwardHolds
<1>2. QED
  BY <1>1, ReaderInvariant, PTL

================================================================================
