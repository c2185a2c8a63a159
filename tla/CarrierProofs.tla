------------------------------ MODULE CarrierProofs ------------------------------
(***************************************************************************)
(* Bits that are written into a carrier are read from it: into the values  *)
(* of outputs, for any budget and number of outputs, wherever the search   *)
(* for a part starts and however logarithms are rounded, and the values    *)
(* are the whole budget; into the order of outputs; into public keys; and  *)
(* into sequence numbers.  Compositions are counted by binomial            *)
(* coefficients, of which Pascal's triangle tells what the search and the  *)
(* number of a composition need; orders are numbered by the place of each  *)
(* element among those that are left.                                      *)
(***************************************************************************)
EXTENDS DataInterface, SequenceProofs

--------------------------------------------------------------------------------
(* Numbers. *)

LEMMA PowerIs ==
    /\ Power2[0] = 1
    /\ \A e \in Nat : Power2[e] \in Nat /\ Power2[e] >= 1 /\ Power2[e + 1] = 2 * Power2[e]
<1> DEFINE P(g) == g = [e \in Nat |-> IF e = 0 THEN 1 ELSE 2 * g[e - 1]]
<1>1. \E g : P(g)
  <2> DEFINE step == [z \in Nat |-> [v \in Nat |-> 2 * v]]
  <2>1. \A z \in Nat : \A v \in Nat : step[z][v] = 2 * v /\ step[z][v] \in Nat
    OBVIOUS
  <2> HIDE DEF step
  <2>2. 1 \in Nat /\ \A z \in Nat : \A v \in Nat : step[z][v] \in Nat
    BY <2>1
  <2>3. PICK f \in [Nat -> Nat] : \A m \in Nat : Runs(f, step, 1, m)
    BY <2>2, Recursion
  <2>4. ASSUME NEW e \in Nat PROVE f[e] = IF e = 0 THEN 1 ELSE 2 * f[e - 1]
    <3>1. CASE e = 0
      BY <2>3, <3>1 DEF Runs
    <3>2. CASE e # 0
      <4>1. e \in 1 .. e /\ e - 1 \in Nat
        BY <3>2
      <4>2. f[e] = step[e][f[e - 1]]
        BY <2>3, <4>1 DEF Runs
      <4>3. QED
        BY <2>1, <2>3, <3>2, <4>1, <4>2
    <3>3. QED
      BY <3>1, <3>2
  <2>5. P(f)
    BY <2>3, <2>4
  <2>6. QED
    BY <2>5
<1>2. P(Power2)
  BY <1>1 DEF Power2
<1>3. Power2[0] = 1
  BY <1>2
<1>4. ASSUME NEW e \in Nat PROVE Power2[e + 1] = 2 * Power2[e]
  <2>1. e + 1 \in Nat /\ e + 1 # 0 /\ (e + 1) - 1 = e
    OBVIOUS
  <2>2. QED
    BY <1>2, <2>1
<1>5. ASSUME NEW e \in Nat PROVE Power2[e] \in Nat /\ Power2[e] >= 1
  <2> DEFINE Good(y) == Power2[y] \in Nat /\ Power2[y] >= 1
             Bad == {y \in Nat : ~ Good(y)}
  <2>1. SUFFICES ASSUME Bad # {} PROVE FALSE
    OBVIOUS
  <2>2. PICK x \in Bad : \A y \in Bad : x <= y
    <3>1. Bad \subseteq Nat
      OBVIOUS
    <3> HIDE DEF Bad
    <3>2. QED
      BY <2>1, <3>1, SmallestNumber
  <2>3. x \in Nat /\ x # 0
    BY <1>3, <2>2
  <2>4. x - 1 \in Nat /\ ~ (x <= x - 1) /\ (x - 1) + 1 = x
    BY <2>3
  <2>5. Good(x - 1)
    BY <2>2, <2>4
  <2>6. Power2[x] = 2 * Power2[x - 1]
    BY <1>4, <2>4
  <2>7. QED
    BY <2>2, <2>5, <2>6
<1>6. QED
  BY <1>3, <1>4, <1>5

--------------------------------------------------------------------------------
(* The triangle of Pascal. *)

IsTriangle(p) ==
    /\ \A i \in Nat, j \in Nat : p[i][j] \in Nat
    /\ \A i \in Nat : p[i][0] = 1
    /\ \A j \in Nat : p[0][j + 1] = 0
    /\ \A i \in Nat, j \in Nat : p[i + 1][j + 1] = p[i][j] + p[i][j + 1]
Triangle == CHOOSE p : IsTriangle(p)
Choose(i, j) == Triangle[i][j]

LEMMA TriangleIs == IsTriangle(Triangle)
<1> DEFINE Row == [Nat -> Nat]
           first == [j \in Nat |-> IF j = 0 THEN 1 ELSE 0]
           step == [z \in Nat |-> [r \in Row |->
                     [j \in Nat |-> IF j = 0 THEN 1 ELSE r[j - 1] + r[j]]]]
<1>1. first \in Row /\ first[0] = 1 /\ \A j \in Nat : first[j + 1] = 0
  OBVIOUS
<1>2. ASSUME NEW z \in Nat, NEW r \in Row
      PROVE  /\ step[z][r] \in Row /\ step[z][r][0] = 1
             /\ \A j \in Nat : step[z][r][j + 1] = r[j] + r[j + 1]
  <2> DEFINE new == [j \in Nat |-> IF j = 0 THEN 1 ELSE r[j - 1] + r[j]]
  <2>1. step[z][r] = new
    OBVIOUS
  <2>2. new \in Row
    <3>1. ASSUME NEW j \in Nat PROVE (IF j = 0 THEN 1 ELSE r[j - 1] + r[j]) \in Nat
      <4>1. CASE j = 0
        BY <4>1
      <4>2. CASE j # 0
        <5>1. j - 1 \in Nat
          BY <4>2
        <5>2. r[j - 1] \in Nat /\ r[j] \in Nat
          BY <5>1
        <5>3. QED
          BY <4>2, <5>2
      <4>3. QED
        BY <4>1, <4>2
    <3>2. QED
      BY <3>1
  <2>3. new[0] = 1
    OBVIOUS
  <2>4. ASSUME NEW j \in Nat PROVE new[j + 1] = r[j] + r[j + 1]
    <3>1. j + 1 \in Nat /\ j + 1 # 0 /\ (j + 1) - 1 = j
      OBVIOUS
    <3>2. QED
      BY <3>1
  <2> HIDE DEF new, step
  <2>5. QED
    BY <2>1, <2>2, <2>3, <2>4
<1> HIDE DEF first, step, Row
<1>3. PICK p \in [Nat -> Row] : \A m \in Nat : Runs(p, step, first, m)
  <2>1. \A z \in Nat : \A r \in Row : step[z][r] \in Row
    BY <1>2
  <2>2. QED
    BY <1>1, <2>1, Recursion
<1>4. p[0] = first
  BY <1>3 DEF Runs
<1>5. ASSUME NEW i \in Nat PROVE p[i] \in Row /\ p[i + 1] = step[i + 1][p[i]]
  <2>1. i + 1 \in Nat /\ i + 1 \in 1 .. i + 1 /\ (i + 1) - 1 = i
    OBVIOUS
  <2>2. Runs(p, step, first, i + 1)
    BY <1>3, <2>1
  <2>3. p[i + 1] = step[i + 1][p[(i + 1) - 1]]
    BY <2>1, <2>2 DEF Runs
  <2>4. QED
    BY <1>3, <2>1, <2>3
<1>6. \A i \in Nat, j \in Nat : p[i][j] \in Nat
  BY <1>5 DEF Row
<1>7. ASSUME NEW i \in Nat PROVE p[i + 1][0] = 1 /\ \A j \in Nat : p[i + 1][j + 1] = p[i][j] + p[i][j + 1]
  <2>1. i + 1 \in Nat
    OBVIOUS
  <2> DEFINE q == p[i]
             y == i + 1
  <2>2. y \in Nat /\ q \in Row /\ p[y] = step[y][q]
    BY <1>5, <2>1
  <2> HIDE DEF y
  <2>3. p[y][0] = 1 /\ \A j \in Nat : p[y][j + 1] = q[j] + q[j + 1]
    <3> HIDE DEF q
    <3>1. QED
      BY <1>2, <2>2
  <2>4. QED
    BY <2>3 DEF y
<1>8. ASSUME NEW i \in Nat PROVE p[i][0] = 1
  <2>1. CASE i = 0
    BY <1>1, <1>4, <2>1
  <2>2. CASE i # 0
    <3>1. i - 1 \in Nat /\ (i - 1) + 1 = i
      BY <2>2
    <3>2. QED
      BY <1>7, <3>1
  <2>3. QED
    BY <2>1, <2>2
<1>9. IsTriangle(p)
  <2>1. \A j \in Nat : p[0][j + 1] = 0
    BY <1>1, <1>4
  <2>2. QED
    BY <1>6, <1>7, <1>8, <2>1 DEF IsTriangle
<1>10. QED
  BY <1>9 DEF Triangle

LEMMA ChooseIs ==
    ASSUME NEW i \in Nat, NEW j \in Nat
    PROVE  /\ Choose(i, j) \in Nat
           /\ Choose(i, 0) = 1
           /\ Choose(0, j + 1) = 0
           /\ Choose(i + 1, j + 1) = Choose(i, j) + Choose(i, j + 1)
BY TriangleIs DEF IsTriangle, Choose

\* Nothing can be chosen of less, and of all in one way; of more, in some.
LEMMA ChooseEdges ==
    ASSUME NEW i \in Nat
    PROVE  /\ \A j \in Nat : j > i => Choose(i, j) = 0
           /\ \A j \in 0 .. i : Choose(i, j) >= 1
           /\ Choose(i, i) = 1
<1> DEFINE Good(y) == /\ \A j \in Nat : j > y => Choose(y, j) = 0
                      /\ \A j \in 0 .. y : Choose(y, j) >= 1
                      /\ Choose(y, y) = 1
           T == {y \in Nat : Good(y)}
<1>1. Good(0)
  <2>1. ASSUME NEW j \in Nat, j > 0 PROVE Choose(0, j) = 0
    <3>1. j - 1 \in Nat /\ (j - 1) + 1 = j
      BY <2>1
    <3>2. QED
      BY <3>1, ChooseIs, ZenonT(40)
  <2>2. Choose(0, 0) = 1
    BY ChooseIs
  <2>3. QED
    BY <2>1, <2>2
<1>2. ASSUME NEW y \in Nat, Good(y) PROVE Good(y + 1)
  <2>1. ASSUME NEW j \in Nat, j > y + 1 PROVE Choose(y + 1, j) = 0
    <3>1. j - 1 \in Nat /\ (j - 1) + 1 = j /\ j - 1 > y /\ j > y
      BY <2>1
    <3>2. Choose(y + 1, (j - 1) + 1) = Choose(y, j - 1) + Choose(y, (j - 1) + 1)
      BY <3>1, ChooseIs
    <3>3. Choose(y, j - 1) = 0 /\ Choose(y, j) = 0
      BY <1>2, <3>1
    <3>4. QED
      BY <3>1, <3>2, <3>3
  <2>2. ASSUME NEW j \in 0 .. y + 1 PROVE Choose(y + 1, j) >= 1
    <3>1. CASE j = 0
      <4>1. y + 1 \in Nat
        OBVIOUS
      <4>2. Choose(y + 1, 0) = 1
        BY <4>1, ChooseIs
      <4>3. QED
        BY <3>1, <4>2
    <3>2. CASE j # 0
      <4>1. j - 1 \in 0 .. y /\ (j - 1) + 1 = j /\ j - 1 \in Nat /\ j \in Nat
        BY <3>2
      <4>2. Choose(y + 1, (j - 1) + 1) = Choose(y, j - 1) + Choose(y, (j - 1) + 1)
        BY <4>1, ChooseIs
      <4>3. Choose(y, j - 1) >= 1 /\ Choose(y, j - 1) \in Nat /\ Choose(y, j) \in Nat
        BY <1>2, <4>1, ChooseIs
      <4>4. QED
        BY <4>1, <4>2, <4>3
    <3>3. QED
      BY <3>1, <3>2
  <2>3. Choose(y + 1, y + 1) = 1
    <3>1. Choose(y + 1, y + 1) = Choose(y, y) + Choose(y, y + 1)
      BY ChooseIs
    <3>2. Choose(y, y + 1) = 0
      <4>1. y + 1 \in Nat /\ y + 1 > y
        OBVIOUS
      <4>2. QED
        BY <1>2, <4>1
    <3>3. QED
      BY <1>2, <3>1, <3>2
  <2>4. QED
    BY <2>1, <2>2, <2>3
<1>3. \A z \in Nat : z \in T
  <2>1. 0 \in T
    BY <1>1
  <2>2. \A z \in Nat : z \in T => z + 1 \in T
    BY <1>2
  <2> HIDE DEF T
  <2>3. QED
    BY <2>1, <2>2, AllNumbers
<1>4. QED
  BY <1>3

\* As many ways to choose as to leave.
LEMMA ChooseSymmetric ==
    ASSUME NEW i \in Nat, NEW j \in 0 .. i
    PROVE  Choose(i, j) = Choose(i, i - j)
<1> DEFINE T == {y \in Nat : \A z \in 0 .. y : Choose(y, z) = Choose(y, y - z)}
<1>1. 0 \in T
  OBVIOUS
<1>2. ASSUME NEW y \in Nat, y \in T PROVE y + 1 \in T
  <2>1. ASSUME NEW z \in 0 .. y + 1 PROVE Choose(y + 1, z) = Choose(y + 1, (y + 1) - z)
    <3>0. y + 1 \in Nat
      OBVIOUS
    <3>1. CASE z = 0
      <4>1. Choose(y + 1, 0) = 1 /\ Choose(y + 1, y + 1) = 1
        BY <3>0, ChooseIs, ChooseEdges
      <4>2. (y + 1) - 0 = y + 1
        OBVIOUS
      <4>3. QED
        BY <3>1, <4>1, <4>2
    <3>2. CASE z = y + 1
      <4>1. Choose(y + 1, 0) = 1 /\ Choose(y + 1, y + 1) = 1
        BY <3>0, ChooseIs, ChooseEdges
      <4>2. (y + 1) - (y + 1) = 0
        OBVIOUS
      <4>3. QED
        BY <3>2, <4>1, <4>2
    <3>3. CASE z # 0 /\ z # y + 1
      <4> DEFINE a == z - 1
                 b == y - z
      <4>1. /\ a \in Nat /\ b \in Nat /\ a \in 0 .. y /\ b + 1 \in 0 .. y /\ z \in 0 .. y /\ z \in Nat
            /\ a + 1 = z /\ y - z = b /\ y - a = b + 1 /\ (y + 1) - z = b + 1 /\ y - (b + 1) = a
            /\ y - b = z
        BY <3>3
      <4> HIDE DEF a, b
      <4>2. Choose(y + 1, a + 1) = Choose(y, a) + Choose(y, a + 1)
        BY <4>1, ChooseIs
      <4>3. Choose(y + 1, b + 1) = Choose(y, b) + Choose(y, b + 1)
        BY <4>1, ChooseIs
      <4>4. Choose(y, a) = Choose(y, b + 1) /\ Choose(y, z) = Choose(y, b)
        BY <1>2, <4>1
      <4>5. /\ Choose(y, a) \in Nat /\ Choose(y, z) \in Nat
        BY <4>1, ChooseIs
      <4>6. QED
        BY <4>1, <4>2, <4>3, <4>4, <4>5
    <3>4. QED
      BY <3>1, <3>2, <3>3
  <2>2. y + 1 \in Nat
    OBVIOUS
  <2>3. QED
    BY <2>1, <2>2
<1>3. \A z \in Nat : z \in T
  <2> HIDE DEF T
  <2>1. QED
    BY <1>1, <1>2, AllNumbers
<1>4. QED
  BY <1>3

\* Choosing one and then others is choosing some and then one of them.
LEMMA ChooseOne ==
    ASSUME NEW i \in Nat, NEW j \in Nat
    PROVE  (j + 1) * Choose(i + 1, j + 1) = (i + 1) * Choose(i, j)
<1> DEFINE T == {y \in Nat : \A z \in Nat : (z + 1) * Choose(y + 1, z + 1) = (y + 1) * Choose(y, z)}
<1>1. 0 \in T
  <2>1. ASSUME NEW z \in Nat PROVE (z + 1) * Choose(0 + 1, z + 1) = (0 + 1) * Choose(0, z)
    <3>1. Choose(0 + 1, z + 1) = Choose(0, z) + Choose(0, z + 1) /\ Choose(0, z + 1) = 0
      BY ChooseIs
    <3>2. Choose(0, z) \in Nat /\ (z # 0 => Choose(0, z) = 0)
      BY ChooseIs, ChooseEdges
    <3>3. CASE z = 0
      BY <3>1, <3>2, <3>3
    <3>4. CASE z # 0
      BY <3>1, <3>2, <3>4
    <3>5. QED
      BY <3>3, <3>4
  <2>2. QED
    BY <2>1
<1>2. ASSUME NEW y \in Nat, y \in T PROVE y + 1 \in T
  <2>1. ASSUME NEW z \in Nat
        PROVE  (z + 1) * Choose((y + 1) + 1, z + 1) = ((y + 1) + 1) * Choose(y + 1, z)
    <3> DEFINE a == Choose(y + 1, z)
               b == Choose(y + 1, z + 1)
               c == Choose(y, z)
    <3>1. y + 1 \in Nat /\ z + 1 \in Nat
      OBVIOUS
    <3>2. Choose((y + 1) + 1, z + 1) = a + b /\ a \in Nat /\ b \in Nat /\ c \in Nat
      BY <3>1, ChooseIs
    <3>3. (z + 1) * b = (y + 1) * c
      BY <1>2
    <3>4. CASE z = 0
      <4>1. a = 1 /\ c = 1
        BY <3>1, <3>4, ChooseIs
      <4>2. b = y + 1
        <5> HIDE DEF a, b, c
        <5>1. QED
          BY <3>2, <3>3, <3>4, <4>1
      <4> HIDE DEF a, b, c
      <4>3. (z + 1) * (a + b) = ((y + 1) + 1) * a
        BY <3>4, <4>1, <4>2
      <4>4. QED
        BY <3>2, <4>3 DEF a
    <3>5. CASE z # 0
      <4> DEFINE d == Choose(y, z - 1)
      <4>1. z - 1 \in Nat /\ (z - 1) + 1 = z
        BY <3>5
      <4>2. z * a = (y + 1) * d
        <5>1. ((z - 1) + 1) * Choose(y + 1, (z - 1) + 1) = (y + 1) * Choose(y, z - 1)
          BY <1>2, <4>1
        <5>2. QED
          BY <4>1, <5>1
      <4>3. a = d + c /\ d \in Nat
        <5>1. Choose(y + 1, (z - 1) + 1) = Choose(y, z - 1) + Choose(y, (z - 1) + 1)
          BY <4>1, ChooseIs
        <5>2. d \in Nat
          BY <4>1, ChooseIs
        <5>3. QED
          BY <4>1, <5>1, <5>2
      <4> HIDE DEF a, b, c, d
      <4>4. (z + 1) * (a + b) = (z * a + a) + (z + 1) * b
        BY <3>2
      <4>5. (y + 1) * d + (y + 1) * c = (y + 1) * a
        BY <3>2, <4>3
      <4>6. ((y + 1) + 1) * a = (y + 1) * a + a
        BY <3>2
      <4>7. (z + 1) * (a + b) = ((y + 1) + 1) * a
        <5> DEFINE A == z * a
                   B == (z + 1) * b
                   C == (y + 1) * d
                   D == (y + 1) * c
                   E == (y + 1) * a
        <5>1. /\ A \in Int /\ B \in Int /\ C \in Int /\ D \in Int /\ E \in Int
              /\ A = C /\ B = D /\ C + D = E
              /\ (z + 1) * (a + b) = (A + a) + B /\ ((y + 1) + 1) * a = E + a
          BY <3>2, <3>3, <4>2, <4>3, <4>4, <4>5, <4>6
        <5> HIDE DEF A, B, C, D, E
        <5>2. (A + a) + B = E + a
          BY <3>2, <5>1
        <5>3. QED
          BY <5>1, <5>2
      <4>8. QED
        BY <3>2, <4>7 DEF a
    <3>6. QED
      BY <3>4, <3>5
  <2>2. y + 1 \in Nat
    OBVIOUS
  <2>3. QED
    BY <2>1, <2>2
<1>3. \A z \in Nat : z \in T
  <2> HIDE DEF T
  <2>1. QED
    BY <1>1, <1>2, AllNumbers
<1>4. QED
  BY <1>3

\* The product of BinomialCoefficient, every division of which is exact.
LEMMA ProductIs ==
    ASSUME NEW i \in Nat, NEW m \in 0 .. i
    PROVE  LET result[z \in 0 .. m] == IF z = 0 THEN 1 ELSE (result[z - 1] * (i - m + z)) \div z
           IN result[m] = Choose(i, m)
<1> DEFINE P(g) == g = [z \in 0 .. m |-> IF z = 0 THEN 1 ELSE (g[z - 1] * (i - m + z)) \div z]
           c == [z \in 0 .. m |-> Choose(i - m + z, z)]
<1>1. ASSUME NEW z \in 0 .. m PROVE c[z] = IF z = 0 THEN 1 ELSE (c[z - 1] * (i - m + z)) \div z
  <2>0. i - m \in Nat
    OBVIOUS
  <2>1. CASE z = 0
    <3>1. Choose(i - m + 0, 0) = 1
      BY <2>0, ChooseIs
    <3>2. QED
      BY <2>1, <3>1
  <2>2. CASE z # 0
    <3> DEFINE a == i - m + (z - 1)
    <3>1. a \in Nat /\ z - 1 \in Nat /\ z - 1 \in 0 .. m /\ (z - 1) + 1 = z /\ a + 1 = i - m + z
          /\ z \in Nat /\ z >= 1
      BY <2>2
    <3> DEFINE u == Choose(a, z - 1)
               w == Choose(a + 1, z)
    <3>2. c[z - 1] = u /\ c[z] = w
      BY <3>1
    <3>3. z * w = (a + 1) * u
      <4>1. ((z - 1) + 1) * Choose(a + 1, (z - 1) + 1) = (a + 1) * Choose(a, z - 1)
        <5> HIDE DEF a
        <5>1. QED
          BY <3>1, ChooseOne
      <4>2. QED
        BY <3>1, <4>1
    <3>4. u \in Nat /\ w \in Nat
      <4> HIDE DEF a
      <4>1. a + 1 \in Nat
        BY <3>1
      <4>2. QED
        BY <3>1, <4>1, ChooseIs
    <3> HIDE DEF u, w, a, c
    <3>5. (u * (a + 1)) \div z = w
      <4>1. u * (a + 1) = z * w
        BY <3>1, <3>3, <3>4
      <4>2. (z * w) \div z = w
        BY <3>1, <3>4
      <4>3. QED
        BY <4>1, <4>2
    <3>6. QED
      BY <2>2, <3>1, <3>2, <3>5
  <2>3. QED
    BY <2>1, <2>2
<1>2. P(c)
  <2>1. c = [z \in 0 .. m |-> c[z]]
    OBVIOUS
  <2> HIDE DEF c
  <2>2. QED
    BY <1>1, <2>1
<1> DEFINE f == CHOOSE g : P(g)
<1>3. P(f)
  BY <1>2
<1> HIDE DEF f
<1>4. \A z \in Nat : z \in 0 .. m => f[z] = c[z]
  <2> DEFINE T == {z \in Nat : z \in 0 .. m => f[z] = c[z]}
  <2>1. 0 \in T
    <3>1. f[0] = 1 /\ c[0] = 1
      <4>1. 0 \in 0 .. m
        OBVIOUS
      <4>2. f[0] = 1
        BY <1>3, <4>1
      <4> HIDE DEF c
      <4>3. c[0] = 1
        BY <1>1, <4>1
      <4>4. QED
        BY <4>2, <4>3
    <3>2. QED
      BY <3>1
  <2>2. ASSUME NEW z \in Nat, z \in T PROVE z + 1 \in T
    <3>1. CASE z + 1 \in 0 .. m
      <4>1. z \in 0 .. m /\ z + 1 # 0 /\ (z + 1) - 1 = z
        BY <3>1
      <4>2. f[z] = c[z]
        BY <2>2, <4>1
      <4> HIDE DEF c
      <4>3. f[z + 1] = (f[z] * (i - m + (z + 1))) \div (z + 1)
        BY <1>3, <3>1, <4>1
      <4>4. c[z + 1] = (c[z] * (i - m + (z + 1))) \div (z + 1)
        BY <1>1, <3>1, <4>1
      <4>5. QED
        BY <4>2, <4>3, <4>4
    <3>2. CASE ~ (z + 1 \in 0 .. m)
      BY <3>2
    <3>3. QED
      BY <3>1, <3>2
  <2>3. \A z \in Nat : z \in T
    <3> HIDE DEF T
    <3>1. QED
      BY <2>1, <2>2, AllNumbers
  <2>4. QED
    BY <2>3
<1>5. f[m] = Choose(i, m)
  <2>1. m \in 0 .. m /\ m \in Nat /\ i - m + m = i
    OBVIOUS
  <2>2. f[m] = c[m]
    BY <1>4, <2>1
  <2>3. QED
    BY <2>1, <2>2
<1>6. QED
  BY <1>5 DEF f

LEMMA BinomialIs ==
    ASSUME NEW i \in Nat, NEW j \in Nat
    PROVE  BinomialCoefficient(i, j) = Choose(i, j)
<1>1. CASE j > i
  <2>1. Choose(i, j) = 0
    BY <1>1, ChooseEdges
  <2>2. BinomialCoefficient(i, j) = 0
    BY <1>1 DEF BinomialCoefficient
  <2>3. QED
    BY <2>1, <2>2
<1>2. CASE ~ (j > i)
  <2> DEFINE m == IF j < i - j THEN j ELSE i - j
             product(l) ==
               LET result[z \in 0 .. l] ==
                     IF z = 0 THEN 1 ELSE (result[z - 1] * (i - l + z)) \div z
               IN result[l]
  <2>1. BinomialCoefficient(i, j) = product(m)
    BY <1>2 DEF BinomialCoefficient
  <2>2. m \in 0 .. i /\ j \in 0 .. i /\ (m = j \/ m = i - j)
    BY <1>2
  <2>3. Choose(i, m) = Choose(i, j)
    BY <2>2, ChooseSymmetric
  <2> HIDE DEF m
  <2>4. product(m) = Choose(i, m)
    BY <2>2, ProductIs
  <2> HIDE DEF product
  <2>5. QED
    BY <2>1, <2>3, <2>4
<1>3. QED
  BY <1>1, <1>2

\* More to choose from, not fewer ways.
LEMMA ChooseGrows ==
    ASSUME NEW i \in Nat, NEW h \in Nat, NEW j \in Nat, i <= h
    PROVE  Choose(i, j) <= Choose(h, j)
<1> DEFINE T == {z \in Nat : Choose(i, j) <= Choose(i + z, j)}
<1>1. 0 \in T
  <2>1. i + 0 = i /\ Choose(i, j) \in Nat
    BY ChooseIs
  <2>2. QED
    BY <2>1
<1>2. ASSUME NEW z \in Nat, z \in T PROVE z + 1 \in T
  <2>1. i + z \in Nat /\ i + (z + 1) = (i + z) + 1 /\ (i + z) + 1 \in Nat /\ z + 1 \in Nat
    OBVIOUS
  <2>2. Choose(i + z, j) <= Choose((i + z) + 1, j)
    <3> DEFINE a == i + z
    <3>0. a \in Nat /\ a + 1 \in Nat
      BY <2>1
    <3> HIDE DEF a
    <3>1. CASE j = 0
      <4>1. Choose(a, 0) = 1 /\ Choose(a + 1, 0) = 1
        BY <3>0, ChooseIs
      <4>2. QED
        BY <3>1, <4>1 DEF a
    <3>2. CASE j # 0
      <4>1. j - 1 \in Nat /\ (j - 1) + 1 = j
        BY <3>2
      <4>2. Choose(a + 1, (j - 1) + 1) = Choose(a, j - 1) + Choose(a, (j - 1) + 1)
        BY <3>0, <4>1, ChooseIs
      <4>3. Choose(a, j - 1) \in Nat /\ Choose(a, j) \in Nat
        BY <3>0, <4>1, ChooseIs
      <4>4. Choose(a, j) <= Choose(a + 1, j)
        BY <4>1, <4>2, <4>3
      <4>5. QED
        BY <4>4 DEF a
    <3>3. QED
      BY <3>1, <3>2
  <2>3. /\ Choose(i, j) \in Nat /\ Choose(i + z, j) \in Nat /\ Choose((i + z) + 1, j) \in Nat
        /\ Choose(i, j) <= Choose(i + z, j)
    BY <1>2, <2>1, ChooseIs
  <2>4. Choose(i, j) <= Choose((i + z) + 1, j)
    BY <2>2, <2>3
  <2>5. QED
    BY <2>1, <2>4
<1>3. \A z \in Nat : z \in T
  <2> HIDE DEF T
  <2>1. QED
    BY <1>1, <1>2, AllNumbers
<1>4. h - i \in Nat /\ i + (h - i) = h
  OBVIOUS
<1>5. h - i \in T
  BY <1>3, <1>4
<1>6. QED
  BY <1>4, <1>5

--------------------------------------------------------------------------------
(* The search for a part. *)

LEMMA WordIs ==
    ASSUME NEW w \in Nat \ {0}
    PROVE  /\ \A x \in 0 .. w - 1 : x % w = x
           /\ \A x \in -w .. -1 : x % w = x + w
OBVIOUS

LEMMA CompositionsAre ==
    ASSUME WordAssumption, NEW a \in Nat, NEW c \in Nat \ {0}, a + c - 1 < Word
    PROVE  NumberCompositions(a, c) = Choose(a + c - 1, c - 1)
<1>1. a + c - 1 \in 0 .. Word - 1 /\ c - 1 \in Nat /\ Word \in Nat \ {0} /\ a + c - 1 \in Nat
  BY DEF WordAssumption
<1>2. (a + c - 1) % Word = a + c - 1
  BY <1>1, WordIs
<1>3. BinomialCoefficient(a + c - 1, c - 1) = Choose(a + c - 1, c - 1)
  <2> DEFINE i == a + c - 1
             j == c - 1
  <2>1. i \in Nat /\ j \in Nat
    BY <1>1
  <2> HIDE DEF i, j
  <2>2. BinomialCoefficient(i, j) = Choose(i, j)
    BY <2>1, BinomialIs
  <2>3. QED
    BY <2>2 DEF i, j
<1>4. QED
  BY <1>2, <1>3 DEF NumberCompositions

\* The compositions that are left when a part is v, which may have been guessed as less
\* than zero or more than there is.
Remaining(b, c, v) == NumberCompositions(Minus(b, v % Word), c)

LEMMA RemainingIs ==
    ASSUME WordAssumption, NEW b \in Nat, NEW c \in Nat \ {0, 1}, b + 3 * c < Word,
           NEW v \in Int, -2 * c <= v, v <= b + 1
    PROVE  Remaining(b, c, v) = IF v = b + 1 THEN 0 ELSE Choose(b - v + c - 1, c - 1)
<1>0. Word \in Nat \ {0}
  BY DEF WordAssumption
<1>1. v % Word \in Int /\ Minus(b, v % Word) = (b - v) % Word
  <2>1. CASE v \in 0 .. Word - 1
    BY <1>0, <2>1, WordIs DEF Minus
  <2>2. CASE v \in -Word .. -1
    <3>1. v % Word = v + Word
      BY <1>0, <2>2, WordIs
    <3>2. b - (v + Word) \in -Word .. -1 /\ b - v \in 0 .. Word - 1
      BY <1>0, <2>2
    <3>3. (b - (v + Word)) % Word = b - v /\ (b - v) % Word = b - v
      <4>1. (b - (v + Word)) % Word = (b - (v + Word)) + Word
        BY <1>0, <3>2, WordIs
      <4>2. (b - v) % Word = b - v
        BY <1>0, <3>2, WordIs
      <4>3. (b - (v + Word)) + Word = b - v
        BY <1>0
      <4>4. QED
        BY <4>1, <4>2, <4>3
    <3>4. QED
      BY <1>0, <3>1, <3>3 DEF Minus
  <2>3. v \in -Word .. -1 \/ v \in 0 .. Word - 1
    BY <1>0
  <2>4. QED
    BY <2>1, <2>2, <2>3
<1>2. CASE v = b + 1
  <2>1. b - v = -1 /\ -1 \in -Word .. -1
    BY <1>0, <1>2
  <2>2. (-1) % Word = (-1) + Word
    BY <1>0, <2>1, WordIs
  <2>3. Minus(b, v % Word) = Word - 1
    BY <1>0, <1>1, <2>1, <2>2
  <2>4. ((Word - 1) + c - 1) % Word = c - 2
    <3>1. (Word - 1) + c - 1 = Word + (c - 2) /\ c - 2 \in 0 .. Word - 1
      BY <1>0
    <3>2. (Word + (c - 2)) % Word = c - 2
      BY <1>0, <3>1
    <3>3. QED
      BY <3>1, <3>2
  <2>5. BinomialCoefficient(c - 2, c - 1) = 0
    <3>1. c - 2 \in Nat /\ c - 1 \in Nat /\ c - 1 > c - 2
      OBVIOUS
    <3> DEFINE i == c - 2
               j == c - 1
    <3>2. i \in Nat /\ j \in Nat /\ j > i
      BY <3>1
    <3> HIDE DEF i, j
    <3>3. BinomialCoefficient(i, j) = 0
      BY <3>2, BinomialIs, ChooseEdges
    <3>4. QED
      BY <3>3 DEF i, j
  <2>6. QED
    BY <1>2, <2>3, <2>4, <2>5 DEF Remaining, NumberCompositions
<1>3. CASE v # b + 1
  <2> DEFINE a == b - v
  <2>1. a \in Nat /\ a \in 0 .. Word - 1 /\ a + c - 1 < Word /\ c \in Nat \ {0}
    BY <1>0, <1>3
  <2>2. a % Word = a
    BY <1>0, <2>1, WordIs
  <2>3. NumberCompositions(a, c) = Choose(a + c - 1, c - 1)
    <3> HIDE DEF a
    <3>1. QED
      BY <2>1, CompositionsAre
  <2>4. Minus(b, v % Word) = a
    BY <1>1, <2>2
  <2> HIDE DEF a
  <2>5. Remaining(b, c, v) = Choose(a + c - 1, c - 1)
    BY <2>3, <2>4 DEF Remaining
  <2>6. QED
    BY <1>3, <2>5 DEF a
<1>4. QED
  BY <1>2, <1>3

\* The greater a part, the fewer are left.
LEMMA RemainingFalls ==
    ASSUME WordAssumption, NEW b \in Nat, NEW c \in Nat \ {0, 1}, b + 3 * c < Word,
           NEW v \in Int, -2 * c <= v, v <= b + 1, NEW u \in Int, v <= u, u <= b + 1
    PROVE  Remaining(b, c, u) <= Remaining(b, c, v) /\ Remaining(b, c, u) \in Nat
<1>1. -2 * c <= u
  OBVIOUS
<1>2. Remaining(b, c, u) = IF u = b + 1 THEN 0 ELSE Choose(b - u + c - 1, c - 1)
  BY <1>1, RemainingIs
<1>3. Remaining(b, c, v) = IF v = b + 1 THEN 0 ELSE Choose(b - v + c - 1, c - 1)
  BY RemainingIs
<1> DEFINE i == b - u + c - 1
           h == b - v + c - 1
           j == c - 1
<1>4. j \in Nat /\ (u # b + 1 => i \in Nat /\ i <= h) /\ (v # b + 1 => h \in Nat)
      /\ (v = b + 1 => u = b + 1)
  OBVIOUS
<1> HIDE DEF i, h, j
<1>5. Remaining(b, c, u) = (IF u = b + 1 THEN 0 ELSE Choose(i, j))
      /\ Remaining(b, c, v) = (IF v = b + 1 THEN 0 ELSE Choose(h, j))
  BY <1>2, <1>3 DEF i, h, j
<1>6. CASE u = b + 1
  <2>1. Remaining(b, c, u) = 0 /\ Remaining(b, c, v) \in Nat
    BY <1>4, <1>5, <1>6, ChooseIs
  <2>2. QED
    BY <2>1
<1>7. CASE u # b + 1
  <2>1. v # b + 1 /\ i \in Nat /\ h \in Nat /\ i <= h
    BY <1>4, <1>7
  <2>2. Choose(i, j) <= Choose(h, j) /\ Choose(i, j) \in Nat
    BY <1>4, <2>1, ChooseGrows, ChooseIs
  <2>3. QED
    BY <1>5, <1>7, <2>1, <2>2
<1>8. QED
  BY <1>6, <1>7

\* Those with a part v are the compositions of the rest.
LEMMA RemainingStep ==
    ASSUME WordAssumption, NEW b \in Nat, NEW c \in Nat \ {0, 1}, b + 3 * c < Word,
           NEW v \in 0 .. b
    PROVE  /\ Remaining(b, c, v) = NumberCompositions(b - v, c)
           /\ Remaining(b, c, v) - Remaining(b, c, v + 1) = NumberCompositions(b - v, c - 1)
           /\ Remaining(b, c, 0) = NumberCompositions(b, c)
<1>1. /\ v \in Int /\ -2 * c <= v /\ v <= b + 1 /\ v + 1 \in Int /\ -2 * c <= v + 1
      /\ v + 1 <= b + 1 /\ v # b + 1 /\ (v + 1 = b + 1 <=> v = b)
  <2>1. v \in Int /\ v <= b + 1 /\ v + 1 \in Int /\ v + 1 <= b + 1 /\ v # b + 1
        /\ (v + 1 = b + 1 <=> v = b)
    OBVIOUS
  <2>2. -2 * c <= 0 /\ -2 * c \in Int
    OBVIOUS
  <2>3. -2 * c <= v /\ -2 * c <= v + 1
    BY <2>2
  <2>4. QED
    BY <2>1, <2>3
<1> DEFINE a == b - v
           j == c - 2
<1>2. a \in Nat /\ j \in Nat /\ c = j + 2 /\ a + c - 1 < Word /\ a + (c - 1) - 1 < Word
      /\ c - 1 \in Nat \ {0} /\ c \in Nat \ {0}
  BY DEF WordAssumption
<1>3. Remaining(b, c, v) = Choose(b - v + c - 1, c - 1)
  BY <1>1, RemainingIs
<1>4. Remaining(b, c, v + 1) = IF v = b THEN 0 ELSE Choose(b - (v + 1) + c - 1, c - 1)
  BY <1>1, RemainingIs
<1>5. /\ b - v + c - 1 = a + j + 1 /\ c - 1 = j + 1 /\ (v = b <=> a = 0)
      /\ b - (v + 1) + c - 1 = a + j
  OBVIOUS
<1>6. NumberCompositions(a, c) = Choose(a + j + 1, j + 1)
  <2> HIDE DEF a, j
  <2>1. NumberCompositions(a, c) = Choose(a + c - 1, c - 1)
    BY <1>2, CompositionsAre
  <2>2. a + c - 1 = a + j + 1 /\ c - 1 = j + 1
    BY <1>2
  <2>3. QED
    BY <2>1, <2>2
<1>7. NumberCompositions(a, c - 1) = Choose(a + j, j)
  <2> HIDE DEF a, j
  <2>1. NumberCompositions(a, c - 1) = Choose(a + (c - 1) - 1, (c - 1) - 1)
    BY <1>2, CompositionsAre
  <2>2. a + (c - 1) - 1 = a + j /\ (c - 1) - 1 = j
    BY <1>2
  <2>3. QED
    BY <2>1, <2>2
<1>8. /\ Remaining(b, c, v) = Choose(a + j + 1, j + 1)
      /\ Remaining(b, c, v + 1) = IF a = 0 THEN 0 ELSE Choose(a + j, j + 1)
  BY <1>3, <1>4, <1>5
<1> HIDE DEF a, j
<1>9. Choose(a + j + 1, j + 1) = Choose(a + j, j) + Choose(a + j, j + 1)
      /\ Choose(a + j, j) \in Nat /\ Choose(a + j, j + 1) \in Nat
  <2>1. a + j \in Nat /\ j + 1 \in Nat
    BY <1>2
  <2>2. QED
    BY <1>2, <2>1, ChooseIs
<1>10. a = 0 => Choose(a + j, j + 1) = 0
  <2>1. a = 0 => a + j = j /\ j + 1 \in Nat /\ j + 1 > j
    BY <1>2
  <2>2. QED
    BY <1>2, <2>1, ChooseEdges
<1>11. Remaining(b, c, v) - Remaining(b, c, v + 1) = Choose(a + j, j)
  BY <1>8, <1>9, <1>10
<1>12. Remaining(b, c, 0) = NumberCompositions(b, c)
  <2>0. b - 0 = b /\ b + c - 1 < Word /\ 0 \in Int /\ 0 <= b + 1 /\ 0 # b + 1
        /\ c \in Nat \ {0}
    BY DEF WordAssumption
  <2>1. -2 * c <= 0
    OBVIOUS
  <2>2. Remaining(b, c, 0) = Choose(b - 0 + c - 1, c - 1)
    BY <2>0, <2>1, RemainingIs
  <2>3. NumberCompositions(b, c) = Choose(b + c - 1, c - 1)
    BY <2>0, CompositionsAre
  <2>4. QED
    BY <2>0, <2>2, <2>3
<1>13. QED
  BY <1>6, <1>7, <1>8, <1>11, <1>12 DEF a

--------------------------------------------------------------------------------
(* Bits. *)

\* The number that the first bits are, after each of them.
Doubles(t, s) ==
    /\ t[0] = 0
    /\ \A z \in 1 .. Len(s) : t[z] = 2 * t[z - 1] + s[z]

LEMMA DoublesExist ==
    ASSUME NEW s \in Seq({0, 1})
    PROVE  \E t \in [0 .. Len(s) -> Nat] : Doubles(t, s) /\ DataBitsToInt(s) = t[Len(s)]
<1> DEFINE m == Len(s)
           P(g) == g = [u \in SUBSET (1 .. m) |-> IF u = {} THEN 0 ELSE 2 * g[u \ {Max(u)}] + s[Max(u)]]
           f == CHOOSE g : P(g)
<1>1. m \in Nat /\ DOMAIN s = 1 .. m /\ \A z \in 1 .. m : s[z] \in {0, 1}
  OBVIOUS
<1>2. DataBitsToInt(s) = f[1 .. m]
  BY <1>1 DEF DataBitsToInt, FoldLeft, MapThenFoldSet
<1> HIDE DEF m
<1>3. \E g : P(g)
  <2> DEFINE step == [z \in 1 .. m |-> [v \in Nat |-> 2 * v + s[z]]]
  <2>1. \A z \in 1 .. m : \A v \in Nat : step[z][v] = 2 * v + s[z] /\ step[z][v] \in Nat
    BY <1>1
  <2> HIDE DEF step
  <2>2. PICK h : Passes(h, step, 0, m) /\ \A u \in SUBSET (1 .. m) : h[u] \in Nat
    <3>1. 0 \in Nat
      OBVIOUS
    <3>2. \A z \in 1 .. m : \A v \in Nat : step[z][v] \in Nat
      BY <2>1
    <3>3. QED
      BY <1>1, <3>1, <3>2, PassesExist, ZenonT(40)
  <2> DEFINE g == [u \in SUBSET (1 .. m) |-> h[u]]
  <2>3. ASSUME NEW u \in SUBSET (1 .. m)
        PROVE  h[u] = IF u = {} THEN 0 ELSE 2 * g[u \ {Max(u)}] + s[Max(u)]
    <3>1. CASE u = {}
      BY <2>2, <3>1 DEF Passes
    <3>2. CASE u # {}
      <4>1. Max(u) \in 1 .. m /\ u \ {Max(u)} \in SUBSET (1 .. m)
        BY <1>1, <3>2, GreatestIs
      <4>2. h[u] = step[Max(u)][h[u \ {Max(u)}]]
        BY <2>2, <3>2 DEF Passes
      <4>3. QED
        BY <2>1, <2>2, <3>2, <4>1, <4>2
    <3>3. QED
      BY <3>1, <3>2
  <2>4. P(g)
    BY <2>3
  <2>5. QED
    BY <2>4
<1>4. P(f)
  BY <1>3
<1> HIDE DEF f
<1> DEFINE t == [z \in 0 .. m |-> f[1 .. z]]
<1>5. f[{}] = 0
  <2>1. {} \in SUBSET (1 .. m)
    OBVIOUS
  <2>2. QED
    BY <1>4, <2>1
<1>6. ASSUME NEW z \in 1 .. m PROVE f[1 .. z] = 2 * f[1 .. z - 1] + s[z]
  <2>1. z \in Nat /\ z # 0 /\ 1 .. z # {} /\ 1 .. z \in SUBSET (1 .. m)
    <3>1. z \in Nat /\ z >= 1 /\ z <= m /\ m \in Nat
      BY <1>1
    <3>2. 1 \in 1 .. z
      BY <3>1
    <3>3. 1 .. z \subseteq 1 .. m
      BY <3>1
    <3>4. 1 .. z # {}
      BY <3>2
    <3>5. 1 .. z \in SUBSET (1 .. m)
      BY <3>3
    <3>6. z # 0
      BY <3>1
    <3>7. QED
      BY <3>1, <3>4, <3>5, <3>6
  <2>2. Max(1 .. z) = z /\ (1 .. z) \ {Max(1 .. z)} = 1 .. z - 1
    BY <2>1, GreatestIs
  <2>3. QED
    BY <1>4, <2>1, <2>2
<1>7. t[0] = 0
  <2>1. 1 .. 0 = {} /\ 0 \in 0 .. m
    BY <1>1
  <2>2. QED
    BY <1>5, <2>1
<1>8. \A z \in 1 .. m : t[z] = 2 * t[z - 1] + s[z]
  <2>1. \A z \in 1 .. m : z \in 0 .. m /\ z - 1 \in 0 .. m
    BY <1>1
  <2>2. QED
    BY <1>6, <2>1
<1>9. ASSUME NEW z \in 0 .. m PROVE t[z] \in Nat
  <2> DEFINE Bad == {y \in 0 .. m : t[y] \notin Nat}
  <2> HIDE DEF t
  <2>1. SUFFICES ASSUME Bad # {} PROVE FALSE
    OBVIOUS
  <2>2. PICK x \in Bad : \A y \in Bad : x <= y
    <3>1. Bad \subseteq Nat
      OBVIOUS
    <3> HIDE DEF Bad
    <3>2. QED
      BY <2>1, <3>1, SmallestNumber
  <2>3. x # 0 /\ x \in 1 .. m
    BY <1>1, <1>7, <2>2
  <2>4. t[x - 1] \in Nat
    <3>1. x - 1 \in 0 .. m /\ ~ (x <= x - 1)
      BY <1>1, <2>3
    <3>2. QED
      BY <2>2, <3>1
  <2>5. t[x] \in Nat
    BY <1>1, <1>8, <2>3, <2>4
  <2>6. QED
    BY <2>2, <2>5
<1>10. t \in [0 .. m -> Nat] /\ t[m] = f[1 .. m]
  BY <1>1, <1>9
<1> HIDE DEF t
<1>11. QED
  BY <1>2, <1>7, <1>8, <1>10 DEF Doubles, m

LEMMA BitsAppended ==
    ASSUME NEW d \in Seq({0, 1}), NEW b \in {0, 1}
    PROVE  /\ DataBitsToInt(d) \in Nat
           /\ DataBitsToInt(Append(d, b)) = 2 * DataBitsToInt(d) + b
<1> DEFINE q == Append(d, b)
           i == Len(d)
<1>1. /\ q \in Seq({0, 1}) /\ i \in Nat /\ Len(q) = i + 1 /\ q[i + 1] = b
      /\ \A x \in 1 .. i : q[x] = d[x]
  OBVIOUS
<1> HIDE DEF q
<1>2. PICK t \in [0 .. Len(q) -> Nat] : Doubles(t, q) /\ DataBitsToInt(q) = t[Len(q)]
  BY <1>1, DoublesExist
<1>3. PICK u \in [0 .. Len(d) -> Nat] : Doubles(u, d) /\ DataBitsToInt(d) = u[Len(d)]
  BY DoublesExist
<1>4. /\ \A z \in 1 .. i + 1 : t[z] = 2 * t[z - 1] + q[z]
      /\ \A z \in 1 .. i : u[z] = 2 * u[z - 1] + d[z]
      /\ t[0] = 0 /\ u[0] = 0
  BY <1>1, <1>2, <1>3 DEF Doubles
<1>5. DataBitsToInt(q) = t[i + 1] /\ DataBitsToInt(d) = u[i]
  BY <1>1, <1>2, <1>3
<1>6. \A z \in 0 .. i : u[z] \in Nat
  BY <1>3
<1> HIDE DEF i
<1>7. ASSUME NEW z \in 0 .. i PROVE t[z] = u[z]
  <2> DEFINE Bad == {y \in 0 .. i : t[y] # u[y]}
  <2>1. SUFFICES ASSUME Bad # {} PROVE FALSE
    OBVIOUS
  <2>2. PICK x \in Bad : \A y \in Bad : x <= y
    <3>1. Bad \subseteq Nat
      OBVIOUS
    <3> HIDE DEF Bad
    <3>2. QED
      BY <2>1, <3>1, SmallestNumber
  <2>3. x # 0
    BY <1>4, <2>2
  <2>4. x \in 1 .. i /\ x - 1 \in 0 .. i /\ ~ (x <= x - 1) /\ x \in 1 .. i + 1
    BY <1>1, <2>2, <2>3
  <2>5. t[x - 1] = u[x - 1] /\ q[x] = d[x]
    BY <1>1, <2>2, <2>4
  <2>6. t[x] = 2 * t[x - 1] + q[x] /\ u[x] = 2 * u[x - 1] + d[x]
    BY <1>4, <2>4
  <2>7. QED
    BY <2>2, <2>5, <2>6
<1>8. i \in 0 .. i /\ i + 1 \in 1 .. i + 1 /\ (i + 1) - 1 = i
  BY <1>1
<1>9. t[i] = u[i] /\ t[i + 1] = 2 * t[i] + q[i + 1] /\ u[i] \in Nat
  BY <1>4, <1>6, <1>7, <1>8
<1>10. DataBitsToInt(q) = 2 * DataBitsToInt(d) + b /\ DataBitsToInt(d) \in Nat
  BY <1>1, <1>5, <1>9
<1>11. QED
  BY <1>10 DEF q

LEMMA BitsOfNone == DataBitsToInt(<<>>) = 0
<1> DEFINE s == << >>
<1>1. s \in Seq({0, 1}) /\ Len(s) = 0
  OBVIOUS
<1> HIDE DEF s
<1>2. PICK t \in [0 .. Len(s) -> Nat] : Doubles(t, s) /\ DataBitsToInt(s) = t[Len(s)]
  BY <1>1, DoublesExist
<1>3. DataBitsToInt(s) = 0
  BY <1>1, <1>2 DEF Doubles
<1>4. QED
  BY <1>3 DEF s

\* Bits are no bits, or bits and one more.
LEMMA BitsGrow ==
    /\ \A d \in Bits(0) : d = <<>>
    /\ \A m \in Nat : \A d \in Bits(m + 1) :
         \E c \in Bits(m) : \E b \in {0, 1} : d = Append(c, b)
    /\ \A m \in Nat : \A d \in Bits(m) : d \in Seq({0, 1}) /\ Len(d) = m
<1>1. \A d \in Bits(0) : d = <<>>
  BY DEF Bits
<1>2. \A m \in Nat : \A d \in Bits(m) : d \in Seq({0, 1}) /\ Len(d) = m
  BY DEF Bits
<1>3. ASSUME NEW m \in Nat, NEW d \in Bits(m + 1)
      PROVE  \E c \in Bits(m) : \E b \in {0, 1} : d = Append(c, b)
  <2> DEFINE c == [z \in 1 .. m |-> d[z]]
             b == d[m + 1]
  <2>1. d \in [1 .. m + 1 -> {0, 1}]
    BY <1>3 DEF Bits
  <2>2. c \in [1 .. m -> {0, 1}] /\ b \in {0, 1}
    BY <2>1
  <2>3. c \in Seq({0, 1}) /\ Len(c) = m /\ d \in Seq({0, 1}) /\ Len(d) = m + 1
    BY <2>1, <2>2
  <2>4. \A x \in 1 .. m : c[x] = d[x]
    OBVIOUS
  <2> HIDE DEF c, b
  <2>5. Append(c, b) \in Seq({0, 1}) /\ Len(Append(c, b)) = m + 1
    BY <2>2, <2>3
  <2>6. ASSUME NEW x \in 1 .. m + 1 PROVE Append(c, b)[x] = d[x]
    <3>1. CASE x \in 1 .. m
      BY <2>3, <2>4, <3>1
    <3>2. CASE x = m + 1
      BY <2>3, <3>2 DEF b
    <3>3. x \in 1 .. m \/ x = m + 1
      OBVIOUS
    <3>4. QED
      BY <3>1, <3>2, <3>3
  <2>7. d = Append(c, b)
    BY <2>3, <2>5, <2>6, SameSeq
  <2>8. c \in Bits(m)
    BY <2>2 DEF Bits
  <2>9. QED
    BY <2>2, <2>7, <2>8
<1>4. QED
  BY <1>1, <1>2, <1>3

\* So many bits, so great a number.
LEMMA BitsBelowPower ==
    \A m \in Nat : \A d \in Bits(m) : DataBitsToInt(d) \in Nat /\ DataBitsToInt(d) < Power2[m]
<1> DEFINE T == {m \in Nat : \A d \in Bits(m) : DataBitsToInt(d) \in Nat /\ DataBitsToInt(d) < Power2[m]}
<1>1. 0 \in T
  <2>1. \A d \in Bits(0) : DataBitsToInt(d) = 0
    BY BitsGrow, BitsOfNone
  <2>2. Power2[0] = 1
    BY PowerIs
  <2>3. QED
    BY <2>1, <2>2
<1>2. ASSUME NEW m \in Nat, m \in T PROVE m + 1 \in T
  <2>1. ASSUME NEW d \in Bits(m + 1)
        PROVE  DataBitsToInt(d) \in Nat /\ DataBitsToInt(d) < Power2[m + 1]
    <3>1. PICK c \in Bits(m) : \E b \in {0, 1} : d = Append(c, b)
      BY <2>1, BitsGrow
    <3>2. PICK b \in {0, 1} : d = Append(c, b)
      BY <3>1
    <3>3. c \in Seq({0, 1})
      BY BitsGrow
    <3>4. DataBitsToInt(d) = 2 * DataBitsToInt(c) + b
      BY <3>2, <3>3, BitsAppended
    <3>5. DataBitsToInt(c) \in Nat /\ DataBitsToInt(c) < Power2[m]
      BY <1>2
    <3>6. Power2[m + 1] = 2 * Power2[m] /\ Power2[m] \in Nat
      BY PowerIs
    <3>7. QED
      BY <3>2, <3>4, <3>5, <3>6
  <2>2. QED
    BY <2>1
<1> HIDE DEF T
<1>3. \A m \in Nat : m \in T
  BY <1>1, <1>2, AllNumbers
<1>4. QED
  BY <1>3 DEF T

\* Every number has a logarithm.
LEMMA Log2Is ==
    ASSUME NEW x \in Nat \ {0}
    PROVE  Log2(x) \in Nat /\ Power2[Log2(x)] <= x
<1> DEFINE Is(e, y) == e \in 0 .. y /\ Power2[e] <= y /\ y < Power2[e + 1]
           T == {y \in Nat : \E e \in Nat : Is(e, y + 1)}
<1>1. 0 \in T
  <2>1. Power2[0] = 1 /\ Power2[0 + 1] = 2 * Power2[0]
    BY PowerIs
  <2>2. Is(0, 0 + 1)
    BY <2>1
  <2>3. QED
    BY <2>2
<1>2. ASSUME NEW y \in Nat, y \in T PROVE y + 1 \in T
  <2>1. PICK e \in Nat : Is(e, y + 1)
    BY <1>2
  <2>2. /\ Power2[e] \in Nat /\ Power2[e] >= 1 /\ Power2[e + 1] = 2 * Power2[e]
        /\ Power2[e + 1] \in Nat /\ Power2[(e + 1) + 1] = 2 * Power2[e + 1]
    <3>1. e + 1 \in Nat
      OBVIOUS
    <3>2. QED
      BY <3>1, PowerIs
  <2>3. CASE y + 2 < Power2[e + 1]
    <3>1. Is(e, (y + 1) + 1)
      BY <2>1, <2>2, <2>3
    <3>2. QED
      BY <3>1
  <2>4. CASE ~ (y + 2 < Power2[e + 1])
    <3>1. Is(e + 1, (y + 1) + 1)
      BY <2>1, <2>2, <2>4
    <3>2. e + 1 \in Nat
      OBVIOUS
    <3>3. ASSUME NEW c \in Nat, c = e + 1 PROVE Is(c, (y + 1) + 1)
      BY <3>1, <3>3
    <3>4. \E c \in Nat : Is(c, (y + 1) + 1)
      BY <3>2, <3>3
    <3>5. QED
      BY <3>4
  <2>5. QED
    BY <2>3, <2>4
<1>3. \A y \in Nat : y \in T
  <2> HIDE DEF T
  <2>1. QED
    BY <1>1, <1>2, AllNumbers
<1>4. x - 1 \in Nat /\ (x - 1) + 1 = x
  OBVIOUS
<1>5. \E e \in Nat : Is(e, x)
  BY <1>3, <1>4
<1>6. Is(Log2(x), x)
  BY <1>5 DEF Log2
<1>7. QED
  BY <1>6

LEMMA HalfIs ==
    \A x \in Nat \ {0} : x \div 2 \in Nat /\ x \div 2 <= x - 1 /\ x % 2 \in {0, 1}
<1>1. TAKE x \in Nat \ {0}
<1>2. x \div 2 \in Nat /\ x % 2 \in 0 .. 1
  OBVIOUS
<1>3. x = 2 * (x \div 2) + (x % 2)
  OBVIOUS
<1>4. QED
  BY <1>2, <1>3

\* The bits of a number are those of its half, and one more.
LEMMA IntBitsAre ==
    /\ IntToDataBits(0) = <<>>
    /\ \A x \in Nat \ {0} : /\ IntToDataBits(x \div 2) \in Seq({0, 1})
                            /\ IntToDataBits(x) = Append(IntToDataBits(x \div 2), x % 2)
<1> DEFINE P(g) == g = [x \in Nat |-> IF x = 0 THEN <<>> ELSE Append(g[x \div 2], x % 2)]
           B == Seq({0, 1})
           V == [Nat -> B]
           base == [x \in Nat |-> <<>>]
           step == [z \in Nat |-> [v \in V |->
                     [x \in Nat |-> IF x = 0 THEN <<>> ELSE Append(v[x \div 2], x % 2)]]]
<1>1. base \in V /\ \A x \in Nat : base[x] = <<>>
  <2>1. <<>> \in B
    OBVIOUS
  <2> HIDE DEF B
  <2>2. QED
    BY <2>1
<1>2. ASSUME NEW z \in Nat, NEW v \in V
      PROVE  /\ step[z][v] \in V
             /\ step[z][v][0] = <<>>
             /\ \A x \in Nat \ {0} : step[z][v][x] = Append(v[x \div 2], x % 2)
  <2>1. ASSUME NEW x \in Nat
        PROVE  (IF x = 0 THEN <<>> ELSE Append(v[x \div 2], x % 2)) \in B
    <3>1. CASE x = 0
      BY <3>1
    <3>2. CASE x # 0
      <4>1. v[x \div 2] \in B /\ x % 2 \in {0, 1}
        BY <3>2, HalfIs
      <4>2. QED
        BY <3>2, <4>1
    <3>3. QED
      BY <3>1, <3>2
  <2>2. step[z][v] = [x \in Nat |-> IF x = 0 THEN <<>> ELSE Append(v[x \div 2], x % 2)]
    OBVIOUS
  <2> HIDE DEF step, B
  <2>3. step[z][v] \in V
    BY <2>1, <2>2
  <2>4. QED
    BY <2>2, <2>3
<1> HIDE DEF base, step, V
<1>3. PICK f \in [Nat -> V] : Runs(f, step, base, 0) /\ \A m \in Nat : Runs(f, step, base, m)
  <2>1. \A z \in Nat : \A v \in V : step[z][v] \in V
    BY <1>2
  <2>2. QED
    BY <1>1, <2>1, Recursion
<1>4. f[0] = base
  BY <1>3 DEF Runs
<1>5. ASSUME NEW z \in Nat PROVE f[z + 1] = step[z + 1][f[z]]
  <2>1. z + 1 \in Nat /\ z + 1 \in 1 .. z + 1 /\ (z + 1) - 1 = z
    OBVIOUS
  <2>2. Runs(f, step, base, z + 1)
    BY <1>3, <2>1
  <2>3. QED
    BY <2>1, <2>2 DEF Runs
<1>6. ASSUME NEW z \in Nat
      PROVE  /\ f[z] \in V /\ f[z][0] = <<>>
             /\ \A x \in Nat \ {0} : f[z + 1][x] = Append(f[z][x \div 2], x % 2)
  <2>1. f[z] \in V
    BY <1>3
  <2>2. z + 1 \in Nat
    OBVIOUS
  <2>3. \A x \in Nat \ {0} : f[z + 1][x] = Append(f[z][x \div 2], x % 2)
    <3>1. ASSUME NEW i \in Nat, NEW v \in V
          PROVE  \A x \in Nat \ {0} : step[i][v][x] = Append(v[x \div 2], x % 2)
      BY <1>2
    <3>2. \A x \in Nat \ {0} : step[z + 1][f[z]][x] = Append(f[z][x \div 2], x % 2)
      BY <2>1, <2>2, <3>1
    <3>3. QED
      BY <1>5, <3>2
  <2>4. CASE z = 0
    BY <1>1, <1>4, <2>1, <2>3, <2>4
  <2>5. CASE z # 0
    <3>1. z - 1 \in Nat /\ (z - 1) + 1 = z
      BY <2>5
    <3>2. f[z] = step[z][f[z - 1]] /\ f[z - 1] \in V
      BY <1>3, <1>5, <3>1
    <3>3. ASSUME NEW i \in Nat, NEW v \in V PROVE step[i][v][0] = <<>>
      BY <1>2
    <3>4. step[z][f[z - 1]][0] = <<>>
      BY <3>2, <3>3
    <3>5. QED
      BY <2>1, <2>3, <3>2, <3>4
  <2>6. QED
    BY <2>4, <2>5
<1>7. ASSUME NEW x \in Nat PROVE \A z \in Nat : z >= x => f[z][x] = f[x][x]
  <2> DEFINE Bad == {y \in Nat : \E z \in Nat : z >= y /\ f[z][y] # f[y][y]}
  <2>1. SUFFICES ASSUME Bad # {} PROVE FALSE
    OBVIOUS
  <2>2. PICK y \in Bad : \A e \in Bad : y <= e
    <3>1. Bad \subseteq Nat
      OBVIOUS
    <3> HIDE DEF Bad
    <3>2. QED
      BY <2>1, <3>1, SmallestNumber
  <2>3. PICK z \in Nat : z >= y /\ f[z][y] # f[y][y]
    BY <2>2
  <2>4. y \in Nat \ {0}
    <3>1. f[z][0] = <<>> /\ f[0][0] = <<>>
      BY <1>6
    <3>2. QED
      BY <2>2, <2>3, <3>1
  <2> DEFINE e == y \div 2
  <2>5. e \in Nat /\ e <= y - 1
    BY <2>4, HalfIs
  <2>6. y - 1 \in Nat /\ (y - 1) + 1 = y /\ z - 1 \in Nat /\ (z - 1) + 1 = z
    BY <2>3, <2>4
  <2>7. f[z][y] = Append(f[z - 1][e], y % 2) /\ f[y][y] = Append(f[y - 1][e], y % 2)
    BY <1>6, <2>4, <2>6
  <2> HIDE DEF e
  <2>8. e \notin Bad /\ z - 1 >= e /\ y - 1 >= e
    BY <2>2, <2>3, <2>4, <2>5
  <2>9. f[z - 1][e] = f[e][e] /\ f[y - 1][e] = f[e][e]
    BY <2>5, <2>6, <2>8
  <2>10. QED
    BY <2>3, <2>7, <2>9
<1> DEFINE h == [x \in Nat |-> f[x][x]]
<1>8. ASSUME NEW x \in Nat \ {0} PROVE h[x] = Append(h[x \div 2], x % 2) /\ h[x \div 2] \in B
  <2> DEFINE e == x \div 2
  <2>1. e \in Nat /\ e <= x - 1 /\ x - 1 \in Nat /\ x - 1 >= e /\ (x - 1) + 1 = x
    BY HalfIs
  <2>2. f[x][x] = Append(f[x - 1][e], x % 2)
    BY <1>6, <2>1
  <2> HIDE DEF e
  <2>3. f[x - 1][e] = f[e][e]
    BY <1>7, <2>1
  <2>4. f[e] \in V
    BY <1>6, <2>1
  <2>5. f[e][e] \in B
    BY <2>1, <2>4 DEF V
  <2>6. h[x] = f[x][x] /\ h[e] = f[e][e]
    BY <2>1
  <2>7. h[x] = Append(h[e], x % 2) /\ h[e] \in B
    BY <2>2, <2>3, <2>5, <2>6
  <2> HIDE DEF h
  <2>8. QED
    BY <2>7 DEF e
<1>9. h[0] = <<>>
  BY <1>6
<1>10. ASSUME NEW x \in Nat
       PROVE  f[x][x] = IF x = 0 THEN <<>> ELSE Append(h[x \div 2], x % 2)
  <2>1. h[x] = f[x][x]
    OBVIOUS
  <2>2. x = 0 \/ x \in Nat \ {0}
    OBVIOUS
  <2> HIDE DEF h
  <2>3. QED
    BY <1>8, <1>9, <2>1, <2>2
<1>11. P(h)
  BY <1>10
<1> DEFINE g == CHOOSE y : P(y)
<1>12. P(g)
  BY <1>11
<1>13. ASSUME NEW x \in Nat PROVE IntToDataBits(x) = g[x]
  BY DEF IntToDataBits
<1> HIDE DEF g, h
<1>14. ASSUME NEW x \in Nat PROVE g[x] = h[x]
  <2> DEFINE Bad == {y \in Nat : g[y] # h[y]}
  <2>1. SUFFICES ASSUME Bad # {} PROVE FALSE
    OBVIOUS
  <2>2. PICK y \in Bad : \A e \in Bad : y <= e
    <3>1. Bad \subseteq Nat
      OBVIOUS
    <3> HIDE DEF Bad
    <3>2. QED
      BY <2>1, <3>1, SmallestNumber
  <2>3. y # 0
    BY <1>9, <1>12, <2>2
  <2> DEFINE e == y \div 2
  <2>4. e \in Nat /\ ~ (y <= e)
    BY <2>2, <2>3, HalfIs
  <2>5. g[y] = Append(g[e], y % 2) /\ h[y] = Append(h[e], y % 2)
    BY <1>8, <1>12, <2>2, <2>3
  <2> HIDE DEF e
  <2>6. g[e] = h[e]
    BY <2>2, <2>4
  <2>7. QED
    BY <2>2, <2>5, <2>6
<1>15. ASSUME NEW x \in Nat \ {0}
       PROVE  /\ IntToDataBits(x \div 2) \in Seq({0, 1})
              /\ IntToDataBits(x) = Append(IntToDataBits(x \div 2), x % 2)
  <2>1. x \div 2 \in Nat
    BY HalfIs
  <2>2. IntToDataBits(x) = h[x] /\ IntToDataBits(x \div 2) = h[x \div 2]
    BY <1>13, <1>14, <2>1
  <2>3. QED
    BY <1>8, <2>2
<1>16. IntToDataBits(0) = <<>>
  BY <1>9, <1>13, <1>14
<1>17. QED
  BY <1>15, <1>16

LEMMA JoinAppend ==
    ASSUME NEW S, NEW s \in Seq(S), NEW t \in Seq(S), NEW b \in S
    PROVE  s \o Append(t, b) = Append(s \o t, b)
OBVIOUS

\* Zeros that lead make up for the bits that a number has lost.
LEMMA PaddedIs ==
    \A m \in Nat : \A d \in Bits(m) : Padded(DataBitsToInt(d), m) = d
<1> DEFINE B == {0, 1}
           I(d) == IntToDataBits(DataBitsToInt(d))
           Good(d, m) == I(d) \in Seq(B) /\ Len(I(d)) <= m /\ Zeros(m - Len(I(d))) \o I(d) = d
           T == {m \in Nat : \A d \in Bits(m) : Good(d, m)}
<1>1. \A m \in Nat : Zeros(m) \in Seq(B) /\ Len(Zeros(m)) = m /\ \A x \in 1 .. m : Zeros(m)[x] = 0
  BY DEF Zeros
<1>2. 0 \in T
  <2>1. ASSUME NEW d \in Bits(0) PROVE Good(d, 0)
    <3>1. d = <<>> /\ DataBitsToInt(d) = 0
      BY BitsGrow, BitsOfNone
    <3>2. I(d) = <<>>
      BY <3>1, IntBitsAre
    <3>3. Len(I(d)) = 0 /\ I(d) \in Seq(B)
      BY <3>2
    <3>4. Zeros(0 - Len(I(d))) = <<>>
      BY <3>3 DEF Zeros
    <3> HIDE DEF I
    <3>5. Zeros(0 - Len(I(d))) \o I(d) = d
      BY <3>1, <3>2, <3>4
    <3>6. QED
      BY <3>3, <3>5
  <2>2. QED
    BY <2>1
<1>3. ASSUME NEW m \in Nat, m \in T PROVE m + 1 \in T
  <2>1. ASSUME NEW d \in Bits(m + 1) PROVE Good(d, m + 1)
    <3>1. PICK c \in Bits(m) : \E b \in {0, 1} : d = Append(c, b)
      BY <2>1, BitsGrow
    <3>2. PICK b \in {0, 1} : d = Append(c, b)
      BY <3>1
    <3>3. c \in Seq(B) /\ Len(c) = m
      BY BitsGrow
    <3>4. Good(c, m)
      BY <1>3
    <3> DEFINE y == DataBitsToInt(d)
               w == DataBitsToInt(c)
               i == I(c)
    <3>5. w \in Nat /\ y = 2 * w + b
      BY <3>2, <3>3, BitsAppended
    <3>6. i \in Seq(B) /\ Len(i) <= m /\ Zeros(m - Len(i)) \o i = c /\ i = IntToDataBits(w)
      BY <3>4
    <3>7. I(d) = IntToDataBits(y)
      OBVIOUS
    <3>8. Len(i) \in Nat
      BY <3>6
    <3> HIDE DEF y, w, i
    <3>9. CASE y = 0
      <4>1. w = 0 /\ b = 0
        BY <3>2, <3>5, <3>9
      <4>2. i = <<>> /\ I(d) = <<>>
        BY <3>6, <3>7, <3>9, <4>1, IntBitsAre
      <4> HIDE DEF I
      <4>3. Len(i) = 0 /\ Len(I(d)) = 0 /\ I(d) \in Seq(B)
        BY <4>2
      <4>4. Zeros(m) \o <<>> = c
        BY <3>6, <4>2, <4>3
      <4>5. c = Zeros(m)
        BY <1>1, <4>4
      <4>6. d = Zeros(m + 1)
        <5>1. d = Append(Zeros(m), 0)
          BY <3>2, <4>1, <4>5
        <5>2. /\ Zeros(m) \in Seq(B) /\ Len(Zeros(m)) = m
              /\ \A x \in 1 .. m : Zeros(m)[x] = 0
          BY <1>1
        <5>3. d \in Seq(B) /\ Len(d) = m + 1
          BY <5>1, <5>2
        <5>4. ASSUME NEW x \in 1 .. m + 1 PROVE d[x] = 0
          BY <5>1, <5>2
        <5>5. m + 1 \in Nat
          OBVIOUS
        <5>6. /\ Zeros(m + 1) \in Seq(B) /\ Len(Zeros(m + 1)) = m + 1
              /\ \A x \in 1 .. m + 1 : Zeros(m + 1)[x] = 0
          BY <1>1, <5>5
        <5>7. QED
          BY <5>3, <5>4, <5>6, SameSeq
      <4>7. Zeros((m + 1) - Len(I(d))) \o I(d) = d
        <5>1. (m + 1) - Len(I(d)) = m + 1 /\ m + 1 \in Nat
          BY <4>3
        <5>2. Zeros(m + 1) \o <<>> = Zeros(m + 1)
          BY <1>1, <5>1
        <5>3. QED
          BY <4>2, <4>6, <5>1, <5>2
      <4>8. Len(I(d)) <= m + 1
        BY <4>3
      <4>9. QED
        BY <4>3, <4>7, <4>8
    <3>10. CASE y # 0
      <4>1. y \in Nat \ {0} /\ y \div 2 = w /\ y % 2 = b
        <5>1. y \in Nat \ {0}
          BY <3>2, <3>5, <3>10
        <5>2. y \div 2 \in Nat /\ y % 2 \in 0 .. 1 /\ y = 2 * (y \div 2) + (y % 2)
          BY <5>1
        <5>3. QED
          BY <3>2, <3>5, <5>1, <5>2
      <4>2. I(d) = Append(i, b)
        BY <3>6, <3>7, <4>1, IntBitsAre
      <4> HIDE DEF I
      <4>3. I(d) \in Seq(B) /\ Len(I(d)) = Len(i) + 1
        BY <3>2, <3>6, <4>2
      <4>4. (m + 1) - Len(I(d)) = m - Len(i) /\ m - Len(i) \in Nat /\ Len(I(d)) <= m + 1
        BY <3>6, <3>8, <4>3
      <4> DEFINE z == Zeros(m - Len(i))
      <4>5. z \in Seq(B)
        BY <1>1, <4>4
      <4> HIDE DEF z, B
      <4>6. z \o Append(i, b) = Append(z \o i, b)
        <5>1. b \in B
          BY <3>2 DEF B
        <5>2. QED
          BY <3>6, <4>5, <5>1, JoinAppend, SMTT(30)
      <4>7. z \o i = c
        BY <3>6 DEF z
      <4>8. z \o I(d) = d
        BY <3>2, <4>2, <4>6, <4>7
      <4>9. QED
        BY <4>3, <4>4, <4>8 DEF z
    <3>11. QED
      BY <3>9, <3>10
  <2>2. QED
    BY <2>1
<1> HIDE DEF T
<1>4. \A m \in Nat : m \in T
  BY <1>2, <1>3, AllNumbers
<1>5. QED
  BY <1>4 DEF T, Padded, Zeros

--------------------------------------------------------------------------------
(* The number of a composition. *)

\* The compositions in which part i is smaller.
Smaller(c, i) ==
    NumberCompositions(TotalOf(SubSeq(c, i, Len(c))), Len(c) - i + 1)
      - NumberCompositions(TotalOf(SubSeq(c, i + 1, Len(c))), Len(c) - i + 1)

LEMMA CompositionIs ==
    ASSUME NEW c, Len(c) \in Nat, NEW v, \A i \in 1 .. Len(c) - 1 : Smaller(c, i) = v[i]
    PROVE  CompositionToInteger(c) = SumOf(v, 1 .. Len(c) - 1)
<1> DEFINE S == 1 .. Len(c) - 1
           P(g) == g = [s \in SUBSET S |-> IF s = {} THEN 0
                          ELSE Smaller(c, CHOOSE x \in s : TRUE) + g[s \ {CHOOSE x \in s : TRUE}]]
<1>1. \A s \in SUBSET S : s # {} => Smaller(c, Choice(s)) = v[Choice(s)]
  BY ChoiceIn
<1>2. IsFiniteSet(S)
  BY FS_Interval
<1>3. CompositionToInteger(c) = (CHOOSE g : P(g))[S]
  BY DEF CompositionToInteger, MapThenSumSet, MapThenFoldSet, Smaller, TotalOf
<1> HIDE DEF S
<1>4. \E g : P(g)
  <2>1. PICK h : Sums(h, v, S)
    BY <1>2, SumsExist
  <2> DEFINE g == [s \in SUBSET S |-> h[s]]
  <2>2. \A s \in SUBSET S : g[s] = IF s = {} THEN 0
                              ELSE Smaller(c, Choice(s)) + g[s \ {Choice(s)}]
    <3>1. SUFFICES ASSUME NEW s \in SUBSET S
                   PROVE  h[s] = IF s = {} THEN 0
                                 ELSE Smaller(c, Choice(s)) + g[s \ {Choice(s)}]
      OBVIOUS
    <3>2. s \ {Choice(s)} \in SUBSET S
      OBVIOUS
    <3>3. Adds(h, v, s)
      BY <2>1 DEF Sums
    <3>4. QED
      BY <1>1, <3>2, <3>3 DEF Adds
  <2>3. g = [s \in SUBSET S |-> IF s = {} THEN 0
                              ELSE Smaller(c, Choice(s)) + g[s \ {Choice(s)}]]
    BY <2>2
  <2>4. P(g)
    BY <2>3 DEF Choice
  <2>5. QED
    BY <2>4
<1>5. P(CHOOSE g : P(g))
  BY <1>4
<1> DEFINE f == CHOOSE g : P(g)
<1>6. Sums(f, v, S)
  <2>1. P(f)
    BY <1>5
  <2> HIDE DEF f
  <2>2. \A s \in SUBSET S : f[s] = IF s = {} THEN 0
                              ELSE Smaller(c, Choice(s)) + f[s \ {Choice(s)}]
    BY <2>1 DEF Choice
  <2>3. QED
    BY <1>1, <2>2 DEF Sums, Adds
<1>7. f[S] = SumOf(v, S)
  BY <1>2, <1>6, SumIs
<1>8. QED
  BY <1>3, <1>7 DEF S

\* There is a composition of every number.
LEMMA CompositionsExist ==
    ASSUME WordAssumption, NEW a \in Nat, NEW c \in Nat \ {0}, a + c - 1 < Word
    PROVE  /\ NumberCompositions(a, c) \in Nat \ {0}
           /\ c = 1 => NumberCompositions(a, c) = 1
           /\ a = 0 => NumberCompositions(a, c) = 1
<1> DEFINE i == a + c - 1
           j == c - 1
<1>1. i \in Nat /\ j \in 0 .. i /\ j \in Nat /\ (c = 1 => j = 0) /\ (a = 0 => i = j)
  OBVIOUS
<1>2. NumberCompositions(a, c) = Choose(i, j)
  BY CompositionsAre
<1> HIDE DEF i, j
<1>3. Choose(i, j) \in Nat /\ Choose(i, j) >= 1 /\ Choose(i, 0) = 1 /\ Choose(i, i) = 1
  BY <1>1, ChooseIs, ChooseEdges
<1>4. Choose(i, j) \in Nat \ {0}
  BY <1>3
<1>5. QED
  BY <1>1, <1>2, <1>3, <1>4

\* What the first parts have taken from the budget.
Spent(p, i) == TotalOf(SubSeq(p, 1, i))

LEMMA JoinedAt ==
    \A a, b \in Seq(Nat) : \A y \in 1 .. Len(b) : (a \o b)[Len(a) + y] = b[y]
OBVIOUS

LEMMA SpentIs ==
    ASSUME NEW p \in Seq(Nat), NEW i \in 0 .. Len(p)
    PROVE  /\ Spent(p, i) \in Nat /\ Spent(p, i) <= TotalOf(p) /\ TotalOf(p) \in Nat
           /\ TotalOf(SubSeq(p, i + 1, Len(p))) = TotalOf(p) - Spent(p, i)
           /\ Spent(p, 0) = 0
           /\ i = Len(p) => Spent(p, i) = TotalOf(p)
<1> DEFINE l == Len(p)
           r == SubSeq(p, 1, i)
           s == SubSeq(p, i + 1, l)
<1>1. l \in Nat /\ p \in [1 .. l -> Nat] /\ i \in Nat /\ i <= l
  OBVIOUS
<1>2. /\ r \in Seq(Nat) /\ Len(r) = i /\ \A x \in 1 .. i : r[x] = p[x]
  BY <1>1
<1>3. /\ s \in Seq(Nat) /\ Len(s) = l - i /\ \A x \in 1 .. l - i : s[x] = p[i + x]
  <2> HIDE DEF l
  <2> DEFINE a == i + 1
  <2>1. a \in Int /\ l \in Int /\ \A x \in a .. l : p[x] \in Nat
    BY <1>1
  <2> HIDE DEF a
  <2>2. /\ SubSeq(p, a, l) \in Seq(Nat)
        /\ Len(SubSeq(p, a, l)) = IF a <= l THEN l - a + 1 ELSE 0
        /\ \A x \in 1 .. l - a + 1 : SubSeq(p, a, l)[x] = p[a + x - 1]
    BY <2>1, SubSeqProperties, SMTT(30)
  <2>3. l - a + 1 = l - i /\ (~ (a <= l) => l - i = 0) /\ \A x \in 1 .. l - i : a + x - 1 = i + x
    BY <1>1 DEF a
  <2>4. s = SubSeq(p, a, l)
    BY DEF a
  <2>5. Len(s) = l - i
    BY <2>2, <2>3, <2>4
  <2> HIDE DEF s
  <2>6. \A x \in 1 .. l - i : s[x] = p[i + x]
    BY <2>2, <2>3, <2>4
  <2>7. QED
    BY <2>2, <2>4, <2>5, <2>6
<1> HIDE DEF r, s
<1>4. p = r \o s
  <2>1. r \o s \in Seq(Nat) /\ Len(r \o s) = l
    <3>1. r \o s \in Seq(Nat) /\ Len(r \o s) = i + (l - i)
      BY <1>2, <1>3, JoinedAre
    <3>2. QED
      BY <1>1, <3>1
  <2>2. ASSUME NEW x \in 1 .. l PROVE (r \o s)[x] = p[x]
    <3>1. CASE x \in 1 .. i
      BY <1>2, <1>3, <3>1
    <3>2. CASE x \notin 1 .. i
      <4>1. x - i \in 1 .. l - i /\ x = i + (x - i)
        BY <1>1, <3>2
      <4>2. r \in Seq(Nat) /\ s \in Seq(Nat) /\ Len(r) = i /\ Len(s) = l - i
        BY <1>2, <1>3
      <4>3. \A y \in 1 .. Len(s) : (r \o s)[Len(r) + y] = s[y]
        BY <4>2, JoinedAt, Zenon
      <4>4. (r \o s)[i + (x - i)] = s[x - i]
        BY <4>1, <4>2, <4>3
      <4>5. QED
        BY <1>3, <4>1, <4>4
    <3>3. QED
      BY <3>1, <3>2
  <2>3. p \in Seq(Nat) /\ Len(p) = l
    OBVIOUS
  <2> HIDE DEF l
  <2>4. \A x \in 1 .. l : (r \o s)[x] = p[x]
    BY <2>2
  <2>5. QED
    BY <2>1, <2>3, <2>4, SameSeq
<1>5. r \in Seq(Int) /\ s \in Seq(Int)
  BY <1>2, <1>3
<1>6. TotalOf(p) = TotalOf(r) + TotalOf(s)
  BY <1>4, <1>5, TotalOfBoth
<1>7. TotalOf(r) \in Nat /\ TotalOf(s) \in Nat
  BY <1>2, <1>3, TotalOfFirst
<1>8. SubSeq(p, 1, 0) = <<>>
  OBVIOUS
<1>9. Spent(p, 0) = 0
  BY <1>8, TotalOfFew DEF Spent
<1>10. i = l => s = <<>>
  BY <1>3
<1>11. i = l => TotalOf(s) = 0
  BY <1>10, TotalOfFew
<1> HIDE DEF l
<1>12. Spent(p, i) = TotalOf(r)
  BY DEF Spent, r
<1>13. QED
  BY <1>6, <1>7, <1>9, <1>11, <1>12 DEF l, s

\* What is spent when a part has been placed.
LEMMA SpentMore ==
    ASSUME NEW p \in Seq(Nat), NEW q \in Seq(Nat), NEW i \in 0 .. Len(p)
    PROVE  Spent(p \o q, i) = Spent(p, i)
<1>1. SubSeq(p \o q, 1, i) = SubSeq(p, 1, i)
  <2> DEFINE r == SubSeq(p, 1, i)
             s == SubSeq(p \o q, 1, i)
             w == p \o q
  <2>1. i \in Nat /\ i <= Len(p) /\ Len(p) \in Nat
    OBVIOUS
  <2>2. /\ r \in Seq(Nat) /\ Len(r) = i /\ \A x \in 1 .. i : r[x] = p[x]
    BY <2>1
  <2>3. w \in Seq(Nat) /\ Len(w) >= Len(p) /\ \A x \in 1 .. i : w[x] = p[x]
    BY <2>1, JoinedAre
  <2> HIDE DEF w
  <2>4. SubSeq(w, 1, i) \in Seq(Nat) /\ Len(SubSeq(w, 1, i)) = i
        /\ \A x \in 1 .. i : SubSeq(w, 1, i)[x] = w[x]
    <3>1. w \in [1 .. Len(w) -> Nat] /\ Len(w) \in Nat /\ i <= Len(w)
      BY <2>1, <2>3
    <3>2. QED
      BY <2>1, <2>3, <3>1
  <2> HIDE DEF r
  <2>5. SubSeq(w, 1, i) = r
    BY <2>2, <2>3, <2>4, SameSeq
  <2>6. QED
    BY <2>5 DEF r, w
<1>2. QED
  BY <1>1 DEF Spent

\* The compositions that part i of p comes after, of those of b into c parts; and those
\* that all of its parts come after.
Worth(p, b, c, i) ==
    NumberCompositions(b - Spent(p, i - 1), c - i + 1) - NumberCompositions(b - Spent(p, i), c - i + 1)
Index(p, b, c) == SumOf([i \in 1 .. Len(p) |-> Worth(p, b, c, i)], 1 .. Len(p))

LEMMA WorthType ==
    ASSUME WordAssumption, NEW b \in Nat, NEW c \in Nat, b + 3 * c < Word,
           NEW p \in Seq(Nat), Len(p) <= c, TotalOf(p) <= b, NEW i \in 1 .. Len(p)
    PROVE  Worth(p, b, c, i) \in Int
<1> DEFINE x == Spent(p, i - 1)
           y == Spent(p, i)
           l == Len(p)
           e == c - i + 1
<1>1. l \in Nat /\ i - 1 \in 0 .. l /\ i \in 0 .. l /\ e \in Nat \ {0} /\ e <= c
  OBVIOUS
<1>2. TotalOf(p) \in Nat /\ x \in Nat /\ y \in Nat /\ x <= TotalOf(p) /\ y <= TotalOf(p)
  BY <1>1, SpentIs
<1> HIDE DEF x, y, e, l
<1> DEFINE f == b - x
           g == b - y
<1>3. f \in Nat /\ g \in Nat /\ f <= b /\ g <= b
  BY <1>2
<1>4. f + e - 1 < Word /\ g + e - 1 < Word
  BY <1>1, <1>3 DEF WordAssumption
<1> HIDE DEF f, g
<1>5. NumberCompositions(f, e) \in Nat \ {0} /\ NumberCompositions(g, e) \in Nat \ {0}
  BY <1>1, <1>3, <1>4, CompositionsExist
<1>6. NumberCompositions(f, e) - NumberCompositions(g, e) \in Int
  BY <1>5
<1>7. QED
  BY <1>6 DEF Worth, f, g, x, y, e

LEMMA WorthSame ==
    ASSUME NEW p \in Seq(Nat), NEW q \in Seq(Nat), NEW b, NEW c, NEW i \in 1 .. Len(p)
    PROVE  Worth(p \o q, b, c, i) = Worth(p, b, c, i)
<1>1. i \in 0 .. Len(p) /\ i - 1 \in 0 .. Len(p)
  OBVIOUS
<1>2. Spent(p \o q, i) = Spent(p, i) /\ Spent(p \o q, i - 1) = Spent(p, i - 1)
  BY <1>1, SpentMore
<1>3. QED
  BY <1>2 DEF Worth

\* A part that is placed leaves behind what comes before it.
LEMMA IndexStep ==
    ASSUME WordAssumption, NEW b \in Nat, NEW c \in Nat, b + 3 * c < Word,
           NEW p \in Seq(Nat), Len(p) < c, NEW v \in Nat, TotalOf(p) + v <= b
    PROVE  /\ Index(p, b, c) \in Int
           /\ Index(p \o <<v>>, b, c)
                = Index(p, b, c) + (NumberCompositions(b - TotalOf(p), c - Len(p))
                                      - NumberCompositions(b - (TotalOf(p) + v), c - Len(p)))
<1> DEFINE l == Len(p)
           e == <<v>>
           q == p \o e
           vp == [i \in 1 .. l |-> Worth(p, b, c, i)]
           vq == [i \in 1 .. l + 1 |-> Worth(q, b, c, i)]
           S == 1 .. l
           U == 1 .. l + 1
<1>1. l \in Nat /\ e \in Seq(Nat) /\ Len(e) = 1 /\ p \in Seq(Int) /\ e \in Seq(Int)
  OBVIOUS
<1>2. q \in Seq(Nat) /\ Len(q) = l + 1
  BY <1>1
<1>3. TotalOf(q) = TotalOf(p) + v /\ TotalOf(p) \in Nat
  <2>1. v \in Int /\ TotalOf(e) = v
    BY TotalOfFew
  <2> HIDE DEF e
  <2>2. TotalOf(p \o e) = TotalOf(p) + TotalOf(e)
    BY <1>1, TotalOfBoth
  <2>3. TotalOf(p) \in Nat
    BY TotalOfFirst
  <2>4. QED
    BY <2>1, <2>2, <2>3
<1>4. \A i \in U : vq[i] \in Int
  <2>1. SUFFICES ASSUME NEW i \in U PROVE Worth(q, b, c, i) \in Int
    OBVIOUS
  <2>2. Len(q) <= c /\ TotalOf(q) <= b /\ i \in 1 .. Len(q)
    BY <1>1, <1>2, <1>3
  <2> HIDE DEF q
  <2>3. QED
    BY <1>2, <2>2, WorthType
<1>5. \A i \in S : vp[i] \in Int /\ vq[i] = vp[i]
  <2>1. SUFFICES ASSUME NEW i \in S
                 PROVE  Worth(p, b, c, i) \in Int /\ Worth(q, b, c, i) = Worth(p, b, c, i)
    BY <1>1, SMTT(30)
  <2>2. Len(p) <= c /\ TotalOf(p) <= b /\ i \in 1 .. Len(p)
    BY <1>1, <1>3
  <2>3. Worth(q, b, c, i) = Worth(p, b, c, i)
    <3> HIDE DEF e
    <3>1. QED
      BY <1>1, <2>2, WorthSame
  <2>4. QED
    BY <2>2, <2>3, WorthType
<1>6. vq[l + 1] = NumberCompositions(b - TotalOf(p), c - l)
                    - NumberCompositions(b - (TotalOf(p) + v), c - l)
  <2>1. l + 1 \in U /\ (l + 1) - 1 = l /\ c - (l + 1) + 1 = c - l /\ l \in 0 .. Len(p)
    BY <1>1
  <2>2. Spent(q, l) = TotalOf(p)
    <3>1. Spent(q, l) = Spent(p, l)
      BY <1>1, <2>1, SpentMore
    <3>2. Spent(p, l) = TotalOf(p)
      BY <2>1, SpentIs
    <3>3. QED
      BY <3>1, <3>2
  <2>3. Spent(q, l + 1) = TotalOf(p) + v
    <3> HIDE DEF q
    <3>1. Len(q) \in 0 .. Len(q)
      BY <1>1, <1>2
    <3>2. Spent(q, Len(q)) = TotalOf(q)
      BY <1>2, <3>1, SpentIs
    <3>3. QED
      BY <1>2, <1>3, <3>2
  <2>4. vq[l + 1] = Worth(q, b, c, l + 1)
    BY <2>1
  <2> HIDE DEF q, l, vq
  <2>5. Worth(q, b, c, l + 1) = NumberCompositions(b - Spent(q, l), c - l)
                                  - NumberCompositions(b - Spent(q, l + 1), c - l)
    BY <2>1 DEF Worth
  <2>6. QED
    BY <2>2, <2>3, <2>4, <2>5
<1>7. Index(p, b, c) = SumOf(vp, S) /\ Index(q, b, c) = SumOf(vq, U)
  BY <1>2 DEF Index
<1>8. IsFiniteSet(S) /\ IsFiniteSet(U) /\ l + 1 \in U /\ U \ {l + 1} = S
  <2>1. IsFiniteSet(1 .. l) /\ IsFiniteSet(1 .. l + 1)
    BY <1>1, FS_Interval
  <2>2. QED
    BY <1>1, <2>1
<1> HIDE DEF vp, vq, S, U, q, e, l
<1>9. SumOf(vq, U) = vq[l + 1] + SumOf(vq, S)
  BY <1>4, <1>8, SumOfOneMore
<1>10. SumOf(vq, S) = SumOf(vp, S)
  <2>1. PICK g : Sums(g, vq, S)
    BY <1>8, SumsExist
  <2>2. PICK h : Sums(h, vp, S)
    BY <1>8, SumsExist
  <2>3. g[S] = h[S]
    BY <1>5, <1>8, <2>1, <2>2, SumsAgree
  <2>4. SumOf(vq, S) = g[S] /\ SumOf(vp, S) = h[S]
    BY <1>8, <2>1, <2>2, SumIs
  <2>5. QED
    BY <2>3, <2>4
<1>11. SumOf(vp, S) \in Int /\ vq[l + 1] \in Int
  BY <1>4, <1>5, <1>8, SumIsInteger
<1>12. Index(q, b, c) = Index(p, b, c) + vq[l + 1] /\ Index(p, b, c) \in Int
  BY <1>7, <1>9, <1>10, <1>11
<1>13. QED
  BY <1>6, <1>12 DEF q, e, l

LEMMA IndexOfNone == \A b, c : Index(<<>>, b, c) = 0
<1>1. TAKE b, c
<1> DEFINE p == << >>
           v == [i \in 1 .. Len(p) |-> Worth(p, b, c, i)]
<1>2. 1 .. Len(p) = {}
  OBVIOUS
<1>3. IsFiniteSet({})
  BY FS_EmptySet
<1> HIDE DEF v
<1>4. SumOf(v, {}) = 0
  BY <1>3, SumStep
<1>5. QED
  BY <1>2, <1>4 DEF Index, v

LEMMA IndexOfZero ==
    ASSUME WordAssumption, NEW b \in Nat, NEW c \in Nat, b + 3 * c < Word,
           NEW p \in Seq(Nat), TotalOf(p) = b, Len(p) < c
    PROVE  Index(p \o <<0>>, b, c) = Index(p, b, c)
<1>1. 0 \in Nat /\ TotalOf(p) + 0 <= b /\ Len(p) \in Nat
  OBVIOUS
<1> DEFINE v == 0
<1>2. v \in Nat /\ TotalOf(p) + v <= b
  BY <1>1
<1> HIDE DEF v
<1>3. /\ Index(p, b, c) \in Int
      /\ Index(p \o <<v>>, b, c)
           = Index(p, b, c) + (NumberCompositions(b - TotalOf(p), c - Len(p))
                                 - NumberCompositions(b - (TotalOf(p) + v), c - Len(p)))
  BY <1>2, IndexStep
<1> DEFINE i == c - Len(p)
<1>4. b - TotalOf(p) = 0 /\ b - (TotalOf(p) + v) = 0 /\ i \in Nat \ {0} /\ 0 + i - 1 < Word
  BY <1>1 DEF WordAssumption, v
<1> HIDE DEF i
<1>5. NumberCompositions(0, i) = 1
  BY <1>4, CompositionsExist
<1>6. Index(p \o <<v>>, b, c) = Index(p, b, c)
  BY <1>3, <1>4, <1>5 DEF i
<1>7. QED
  BY <1>6 DEF v

\* Parts that were not reached are worth nothing.
LEMMA IndexOfZeros ==
    ASSUME WordAssumption, NEW b \in Nat, NEW c \in Nat, b + 3 * c < Word,
           NEW p \in Seq(Nat), TotalOf(p) = b, NEW m \in Nat, Len(p) + m <= c
    PROVE  Index(p \o Zeros(m), b, c) = Index(p, b, c)
<1> DEFINE T == {z \in Nat : Len(p) + z <= c => Index(p \o Zeros(z), b, c) = Index(p, b, c)}
<1>1. 0 \in T
  <2>1. p \o Zeros(0) = p
    BY DEF Zeros
  <2>2. QED
    BY <2>1
<1>2. ASSUME NEW z \in Nat, z \in T PROVE z + 1 \in T
  <2>1. SUFFICES ASSUME Len(p) + (z + 1) <= c
                 PROVE  Index(p \o Zeros(z + 1), b, c) = Index(p, b, c)
    OBVIOUS
  <2> DEFINE q == p \o Zeros(z)
             l == Len(q)
  <2>2. Len(p) \in Nat /\ p \in Seq(Int) /\ Zeros(z) \in Seq(Nat) /\ Zeros(z) \in Seq(Int)
        /\ Len(Zeros(z)) = z /\ TotalOf(Zeros(z)) = 0
    <3>1. Zeros(z) \in Seq(Nat) /\ Len(Zeros(z)) = z /\ TotalOf(Zeros(z)) = 0
      BY ZerosAre, TotalOfZeros
    <3> DEFINE y == Zeros(z)
    <3>2. y \in Seq(Nat)
      BY <3>1
    <3> HIDE DEF y
    <3>3. y \in Seq(Int)
      BY <3>2
    <3>4. Zeros(z) \in Seq(Int)
      BY <3>3 DEF y
    <3>5. QED
      BY <3>1, <3>4
  <2>3. q \in Seq(Nat) /\ l = Len(p) + z
    BY <2>2, JoinedAre
  <2>4. TotalOf(q) = b + 0
    BY <2>2, TotalOfBoth
  <2>5. Index(q, b, c) = Index(p, b, c)
    BY <1>2, <2>1, <2>2
  <2>6. p \o Zeros(z + 1) = q \o <<0>>
    <3>1. Zeros(z + 1) = Zeros(z) \o <<0>>
      BY ZerosAre
    <3> DEFINE y == Zeros(z)
               e == <<0>>
    <3>2. y \in Seq(Nat) /\ e \in Seq(Nat)
      BY <2>2
    <3> HIDE DEF y, e
    <3>3. p \o (y \o e) = (p \o y) \o e
      <4>1. p \in Seq(Nat)
        OBVIOUS
      <4>2. QED
        BY <3>2, <4>1, JoinThree, Zenon
    <3>4. Zeros(z + 1) = y \o e /\ q = p \o y
      BY <3>1 DEF y, e
    <3> HIDE DEF q
    <3>5. p \o Zeros(z + 1) = q \o e
      BY <3>3, <3>4
    <3>6. QED
      BY <3>5 DEF e
  <2>7. Len(q) < c /\ TotalOf(q) = b
    BY <2>1, <2>2, <2>3, <2>4
  <2> HIDE DEF q
  <2>8. Index(q \o <<0>>, b, c) = Index(q, b, c)
    BY <2>3, <2>7, IndexOfZero
  <2>9. QED
    BY <2>5, <2>6, <2>8
<1> HIDE DEF T
<1>3. \A z \in Nat : z \in T
  BY <1>1, <1>2, AllNumbers
<1>4. QED
  BY <1>3 DEF T

\* The number of a composition leaves out the last part.
LEMMA WholeIs ==
    ASSUME NEW b \in Nat, NEW c \in Nat \ {0}, NEW p \in Seq(Nat), Len(p) = c - 1,
           NEW v \in Nat, TotalOf(p) + v = b
    PROVE  CompositionToInteger(p \o <<v>>) = Index(p, b, c)
<1> DEFINE e == <<v>>
           q == p \o e
           w == [i \in 1 .. Len(p) |-> Worth(p, b, c, i)]
<1>1. e \in Seq(Nat) /\ Len(e) = 1 /\ p \in Seq(Int) /\ e \in Seq(Int) /\ TotalOf(e) = v
  <2>1. v \in Int
    OBVIOUS
  <2>2. QED
    BY <2>1, TotalOfFew
<1> HIDE DEF e
<1>2. q \in Seq(Nat) /\ Len(q) = Len(p) + 1
  <2>1. p \o e \in Seq(Nat) /\ Len(p \o e) = Len(p) + Len(e)
    BY <1>1, JoinedAre
  <2>2. QED
    BY <1>1, <2>1
<1>3. Len(q) = c /\ Len(q) \in Nat /\ Len(q) - 1 = Len(p)
  BY <1>2
<1>4. TotalOf(q) = b
  <2>1. TotalOf(q) = TotalOf(p) + TotalOf(e)
    BY <1>1, TotalOfBoth
  <2>2. QED
    BY <1>1, <2>1
<1>5. ASSUME NEW i \in 1 .. Len(q) - 1 PROVE Smaller(q, i) = w[i]
  <2>1. i \in 1 .. Len(p) /\ i \in 0 .. Len(p) /\ i - 1 \in 0 .. Len(q) /\ i \in 0 .. Len(q)
        /\ (i - 1) + 1 = i
    BY <1>3
  <2>2. w[i] = Worth(p, b, c, i) /\ Worth(q, b, c, i) = Worth(p, b, c, i)
    BY <1>1, <2>1, WorthSame
  <2> HIDE DEF q, w
  <2>3. /\ TotalOf(SubSeq(q, (i - 1) + 1, Len(q))) = TotalOf(q) - Spent(q, i - 1)
        /\ TotalOf(SubSeq(q, i + 1, Len(q))) = TotalOf(q) - Spent(q, i)
    BY <1>2, <2>1, SpentIs
  <2>4. Smaller(q, i) = NumberCompositions(b - Spent(q, i - 1), c - i + 1)
                          - NumberCompositions(b - Spent(q, i), c - i + 1)
    BY <1>3, <1>4, <2>1, <2>3 DEF Smaller
  <2>5. QED
    BY <2>2, <2>4 DEF Worth
<1> HIDE DEF q, w
<1>6. CompositionToInteger(q) = SumOf(w, 1 .. Len(q) - 1)
  BY <1>3, <1>5, CompositionIs
<1>7. CompositionToInteger(q) = SumOf(w, 1 .. Len(p))
  BY <1>3, <1>6
<1>8. QED
  BY <1>7 DEF Index, q, w, e

--------------------------------------------------------------------------------
(* The search, as it writes bits into values. *)

\* A guess that is raised or lowered by one, as a word.
LEMMA WordsOfGuess ==
    ASSUME WordAssumption, NEW b \in Nat, NEW c \in Nat \ {0, 1}, b + 3 * c < Word,
           NEW v \in Int, -2 * c <= v, v <= b
    PROVE  /\ ((v % Word) + 1) % Word = (v + 1) % Word
           /\ Minus(b, (v % Word) + 1) = Minus(b, (v + 1) % Word)
           /\ v >= 0 => v % Word = v /\ Minus(b, v) = b - v
           /\ v >= 1 => Minus(v, 1) = v - 1
<1>0. Word \in Nat \ {0}
  BY DEF WordAssumption
<1>1. CASE v >= 0
  <2>1. v \in 0 .. Word - 1 /\ v + 1 \in 0 .. Word - 1 /\ b - v \in 0 .. Word - 1
        /\ (v >= 1 => v - 1 \in 0 .. Word - 1)
    BY <1>0, <1>1
  <2>2. v % Word = v /\ (v + 1) % Word = v + 1 /\ (b - v) % Word = b - v
        /\ (v >= 1 => (v - 1) % Word = v - 1)
    BY <1>0, <2>1, WordIs
  <2>3. ((v % Word) + 1) % Word = (v + 1) % Word
    BY <2>2
  <2>4. (v % Word) + 1 = (v + 1) % Word
    BY <2>2
  <2>5. QED
    BY <2>2, <2>3, <2>4 DEF Minus
<1>2. CASE v = -1
  <2>1. -1 \in -Word .. -1 /\ 0 \in 0 .. Word - 1 /\ b - Word \in -Word .. -1 /\ b \in 0 .. Word - 1
    BY <1>0
  <2>2. (-1) % Word = (-1) + Word /\ 0 % Word = 0 /\ (b - Word) % Word = (b - Word) + Word
        /\ b % Word = b
    BY <1>0, <2>1, WordIs
  <2>3. v % Word = Word - 1 /\ (v % Word) + 1 = Word /\ v + 1 = 0
    BY <1>0, <1>2, <2>2
  <2>4. Word % Word = 0
    BY <1>0
  <2>5. ((v % Word) + 1) % Word = 0 /\ (v + 1) % Word = 0
    BY <2>2, <2>3, <2>4
  <2>6. Minus(b, Word) = b
    BY <1>0, <2>2 DEF Minus
  <2>7. Minus(b, 0) = b
    <3>1. b - 0 = b
      OBVIOUS
    <3>2. QED
      BY <2>2, <3>1 DEF Minus
  <2>8. Minus(b, (v % Word) + 1) = b /\ Minus(b, (v + 1) % Word) = b
    BY <2>3, <2>5, <2>6, <2>7
  <2>9. ~ (v >= 0) /\ ~ (v >= 1)
    BY <1>2
  <2>10. QED
    BY <2>5, <2>8, <2>9
<1>3. CASE v < -1
  <2>1. v \in -Word .. -1 /\ v + 1 \in -Word .. -1 /\ (v + 1) + Word \in 0 .. Word - 1
    BY <1>0, <1>3
  <2>2. v % Word = v + Word /\ (v + 1) % Word = (v + 1) + Word
        /\ ((v + 1) + Word) % Word = (v + 1) + Word
    BY <1>0, <2>1, WordIs
  <2>3. (v % Word) + 1 = (v + 1) + Word
    BY <1>0, <2>2
  <2>4. ((v % Word) + 1) % Word = (v + 1) % Word
    BY <2>2, <2>3
  <2>5. (v % Word) + 1 = (v + 1) % Word
    BY <2>2, <2>3
  <2>6. ~ (v >= 0) /\ ~ (v >= 1)
    BY <1>3
  <2>7. QED
    BY <2>4, <2>5, <2>6
<1>4. QED
  BY <1>1, <1>2, <1>3

\* No more bits than there are numbers.
LEMMA EmbeddableIs ==
    ASSUME NEW x \in Nat \ {0}
    PROVE  /\ Embeddable(x) \in Nat /\ Power2[Embeddable(x)] \in Nat
           /\ Power2[Embeddable(x)] <= x
<1> DEFINE e == Log2(x)
<1>1. e \in Nat /\ Power2[e] <= x
  BY Log2Is
<1>2. Embeddable(x) = IF e > 1 /\ x = Power2[e] /\ ~ exact THEN e - 1 ELSE e
  BY DEF Embeddable
<1> HIDE DEF e
<1>3. Embeddable(x) = e \/ (e - 1 \in Nat /\ Embeddable(x) = e - 1)
  BY <1>1, <1>2
<1>4. Power2[e] \in Nat
  BY <1>1, PowerIs
<1>5. ASSUME e - 1 \in Nat PROVE Power2[e - 1] \in Nat /\ Power2[e - 1] <= x
  <2>1. (e - 1) + 1 = e
    BY <1>1
  <2>2. Power2[(e - 1) + 1] = 2 * Power2[e - 1] /\ Power2[e - 1] \in Nat
    BY <1>5, PowerIs
  <2>3. QED
    BY <1>1, <2>1, <2>2
<1>6. QED
  BY <1>1, <1>3, <1>4, <1>5

LEMMA RoomIs ==
    ASSUME WordAssumption, NEW b \in Nat, NEW c \in Nat \ {0}, b + 3 * c < Word
    PROVE  /\ EmbeddableBitsInValues(b, c) \in Nat
           /\ Power2[EmbeddableBitsInValues(b, c)] \in Nat
           /\ Power2[EmbeddableBitsInValues(b, c)] <= NumberCompositions(b, c)
<1> DEFINE x == NumberCompositions(b, c)
<1>1. b + c - 1 < Word
  BY DEF WordAssumption
<1>2. x \in Nat \ {0}
  BY <1>1, CompositionsExist
<1> HIDE DEF x
<1>3. /\ Embeddable(x) \in Nat /\ Power2[Embeddable(x)] \in Nat
      /\ Power2[Embeddable(x)] <= x
  BY <1>2, EmbeddableIs
<1>4. QED
  BY <1>3 DEF EmbeddableBitsInValues, x

\* The search for a part.  What is left of the bits numbers a composition of what is left of
\* the budget; what is behind it is in the parts.
Searching ==
    /\ Data \in Bits(EmbeddableBitsInValues(budget, nParts))
    /\ parts \in Seq(Nat) /\ Len(parts) < nParts
    /\ k = nParts - Len(parts)
    /\ n \in Nat /\ TotalOf(parts) + n = budget
    /\ idx \in Nat /\ idx < NumberCompositions(n, k)
    /\ Index(parts, budget, nParts) + idx = DataBitsToInt(Data)

\* A guess may lie below zero, but not above what there is.
Guessed ==
    /\ k # 1
    /\ \E v \in Int : -2 * k <= v /\ v <= n /\ mu = v % Word

\* One that is lowered is high enough.
Lowered == k # 1 /\ mu \in 0 .. n /\ ~ TooLow

Whole ==
    /\ parts \in Seq(Nat) /\ Len(parts) = nParts /\ TotalOf(parts) = budget
    /\ Data # <<>> => /\ Data \in Bits(EmbeddableBitsInValues(budget, nParts))
                      /\ CompositionToInteger(parts) = DataBitsToInt(Data)

ValuesInv ==
    carrier = "values" =>
      /\ budget \in Nat /\ nParts \in Nat \ {0, 1} /\ budget + 3 * nParts < Word
      /\ coding = "start" =>
           parts = <<>> /\ Data \in Bits(EmbeddableBitsInValues(budget, nParts))
      /\ coding \in {"part", "up", "down"} => Searching
      /\ coding = "up" => Guessed
      /\ coding = "down" => Lowered
      /\ coding = "encoded" => Whole
      /\ coding = "decoded" => (Data # <<>> => out = Data)
      /\ coding = "thrown" => Data = <<>>
      /\ coding \in {"start", "part", "up", "down", "encoded", "decoded", "thrown"}

LEMMA ValuesInit ==
    ASSUME WordAssumption, DataInterfaceAssumption, CarrierInit PROVE ValuesInv
<1>1. SUFFICES ASSUME carrier = "values" PROVE ValuesInv
  BY DEF ValuesInv
<1>2. Ordered /\ budget \in Budgets \ {0} /\ nParts \in Parts \ {0, 1}
  BY <1>1 DEF CarrierInit, Ordered, Keyed
<1>3. budget \in Nat /\ nParts \in Nat \ {0, 1} /\ budget + 3 * nParts < Word
  BY <1>2 DEF DataInterfaceAssumption
<1>4. CASE Data \in Bits(Room) /\ parts = <<>> /\ coding = "start"
  <2>1. Room = EmbeddableBitsInValues(budget, nParts)
    BY <1>1 DEF Room
  <2>2. QED
    BY <1>3, <1>4, <2>1 DEF ValuesInv
<1>5. CASE Data = <<>> /\ parts \in Carriers /\ coding = "encoded"
  <2>1. Carriers = {c \in [1 .. nParts -> 0 .. budget] : FoldLeft(+, 0, c) = budget}
    <3>1. Carriers = Compositions[budget][nParts]
      BY <1>1 DEF Carriers
    <3>2. budget \in Budgets /\ nParts \in Parts
      BY <1>2
    <3>3. \A b \in Budgets, p \in Parts :
            Compositions[b][p] = {c \in [1 .. p -> 0 .. b] : FoldLeft(+, 0, c) = b}
      BY DEF Compositions
    <3>4. QED
      BY <3>1, <3>2, <3>3, Zenon
  <2>2. parts \in [1 .. nParts -> 0 .. budget] /\ FoldLeft(+, 0, parts) = budget
    BY <1>5, <2>1
  <2>3. parts \in Seq(Nat) /\ Len(parts) = nParts
    <3>1. parts \in [1 .. nParts -> 0 .. budget]
      BY <2>2
    <3>2. parts \in [1 .. nParts -> Nat]
      BY <1>3, <3>1
    <3>3. QED
      BY <1>3, <3>2
  <2>4. Whole
    BY <1>5, <2>2, <2>3 DEF Whole, TotalOf
  <2>5. QED
    BY <1>3, <1>5, <2>4 DEF ValuesInv
<1>6. QED
  BY <1>2, <1>4, <1>5 DEF Ordered

\* The bits number a composition of the budget.
LEMMA ValuesStart ==
    ASSUME WordAssumption, ValuesInv, EncodeDataInValues PROVE ValuesInv'
<1>1. /\ carrier = "values" /\ coding = "start"
      /\ idx' = DataBitsToInt(Data) /\ n' = budget /\ k' = nParts /\ coding' = "part"
      /\ carrier' = carrier /\ budget' = budget /\ nParts' = nParts /\ exact' = exact
      /\ Data' = Data /\ parts' = parts
  BY DEF EncodeDataInValues, given
<1>2. budget \in Nat /\ nParts \in Nat \ {0, 1} /\ budget + 3 * nParts < Word
      /\ parts = <<>> /\ Data \in Bits(EmbeddableBitsInValues(budget, nParts))
  BY <1>1 DEF ValuesInv
<1> DEFINE e == EmbeddableBitsInValues(budget, nParts)
           d == DataBitsToInt(Data)
<1>3. e \in Nat /\ Power2[e] \in Nat /\ Power2[e] <= NumberCompositions(budget, nParts)
  BY <1>2, RoomIs
<1>4. Data' \in Bits(EmbeddableBitsInValues(budget, nParts)')
  BY <1>1, <1>2 DEF EmbeddableBitsInValues, Embeddable
<1> HIDE DEF e
<1>5. d \in Nat /\ d < Power2[e]
  <2>1. Data \in Bits(e)
    BY <1>2 DEF e
  <2>2. QED
    BY <1>3, <2>1, BitsBelowPower
<1>6. NumberCompositions(budget, nParts) \in Nat
  <2>1. budget + nParts - 1 < Word
    BY <1>2 DEF WordAssumption
  <2>2. QED
    BY <1>2, <2>1, CompositionsExist
<1> DEFINE w == NumberCompositions(budget, nParts)
<1>7. d < w
  <2>1. w \in Nat /\ Power2[e] \in Nat /\ Power2[e] <= w
    BY <1>3, <1>6
  <2> HIDE DEF w
  <2>2. QED
    BY <1>5, <2>1
<1>8. parts' \in Seq(Nat) /\ Len(parts') = 0 /\ TotalOf(parts') = 0
      /\ Index(parts', budget, nParts) = 0
  BY <1>1, <1>2, TotalOfFew, IndexOfNone
<1>9. k' = nParts' - Len(parts') /\ Len(parts') < nParts' /\ n' \in Nat
      /\ TotalOf(parts') + n' = budget'
  BY <1>1, <1>2, <1>8
<1>10. idx' \in Nat /\ idx' < NumberCompositions(n', k')
       /\ Index(parts', budget', nParts') + idx' = DataBitsToInt(Data')
  BY <1>1, <1>5, <1>7, <1>8
<1>11. Searching'
  BY <1>4, <1>8, <1>9, <1>10 DEF Searching
<1>12. QED
  BY <1>1, <1>2, <1>11 DEF ValuesInv

LEMMA BitsStay ==
    ASSUME UNCHANGED given
    PROVE  Bits(EmbeddableBitsInValues(budget, nParts))'
             = Bits(EmbeddableBitsInValues(budget, nParts))
BY DEF given, EmbeddableBitsInValues, Embeddable

LEMMA SearchBounds ==
    ASSUME WordAssumption, ValuesInv, carrier = "values", Searching
    PROVE  /\ budget \in Nat /\ nParts \in Nat \ {0, 1} /\ budget + 3 * nParts < Word
           /\ Len(parts) \in Nat /\ k \in Nat \ {0} /\ n \in Nat /\ n + 3 * k < Word
           /\ TotalOf(parts) \in Nat /\ TotalOf(parts) + n = budget
<1>1. budget \in Nat /\ nParts \in Nat \ {0, 1} /\ budget + 3 * nParts < Word
  BY DEF ValuesInv
<1> DEFINE l == Len(parts)
           t == TotalOf(parts)
<1>2. parts \in Seq(Nat) /\ l < nParts /\ k = nParts - l /\ n \in Nat /\ t + n = budget
  BY DEF Searching
<1>3. l \in Nat /\ t \in Nat
  BY <1>2, TotalOfFirst
<1> HIDE DEF l, t
<1>4. k \in Nat \ {0} /\ k <= nParts /\ n <= budget
  BY <1>1, <1>2, <1>3
<1>5. n + 3 * k < Word
  BY <1>1, <1>2, <1>4 DEF WordAssumption
<1>6. QED
  BY <1>1, <1>2, <1>3, <1>4, <1>5 DEF l, t

\* Wherever floating point arithmetic takes the search, it is not far below zero.
LEMMA ValuesGuess ==
    ASSUME WordAssumption, ValuesInv, carrier = "values", Guess PROVE ValuesInv'
<1>1. /\ coding = "part" /\ Len(parts) < nParts - 1 /\ coding' = "up" /\ carrier' = carrier
      /\ UNCHANGED <<given, parts, idx, n, k>>
  BY DEF Guess, MoreParts, given
<1>2. Searching
  BY <1>1 DEF ValuesInv
<1>3. k \in Nat \ {0} /\ n \in Nat /\ n + 3 * k < Word /\ Len(parts) \in Nat /\ nParts \in Nat
  BY <1>2, SearchBounds
<1>4. k # 1
  BY <1>1, <1>2, <1>3 DEF Searching
<1>5. PICK root \in 1 .. n + k : mu' = Minus(n, root + (k - 1) \div 2)
  BY DEF Guess, Roots
<1> DEFINE h == (k - 1) \div 2
           v == n - (root + h)
<1>6. h \in Nat /\ h <= k - 1
  <2> DEFINE e == k - 1
  <2>1. e \in Nat
    BY <1>3
  <2> HIDE DEF e
  <2>2. e \div 2 \in Nat /\ e \div 2 <= e
    BY <2>1
  <2>3. QED
    BY <2>2 DEF e
<1> HIDE DEF h
<1>7. v \in Int /\ -2 * k <= v /\ v <= n
  BY <1>3, <1>5, <1>6
<1>8. mu' = v % Word
  BY <1>5 DEF Minus, h
<1> HIDE DEF v
<1>9. Guessed'
  <2>1. k' = k /\ n' = n
    BY <1>1
  <2>2. \E w \in Int : -2 * k' <= w /\ w <= n' /\ mu' = w % Word
    BY <1>7, <1>8, <2>1
  <2>3. QED
    BY <1>4, <2>1, <2>2 DEF Guessed
<1>10. Searching'
  BY <1>1, <1>2, BitsStay DEF Searching, given
<1>11. QED
  BY <1>1, <1>9, <1>10 DEF ValuesInv, given

\* What is too low to be the part is not the whole of what is left.
LEMMA ValuesUp ==
    ASSUME WordAssumption, ValuesInv, carrier = "values", Up PROVE ValuesInv'
<1>1. /\ coding = "up" /\ TooLow /\ mu' = (mu + 1) % Word /\ coding' = coding /\ carrier' = carrier
      /\ UNCHANGED <<given, coding, parts, idx, n, k>>
  BY DEF Up, given
<1>2. Searching /\ Guessed
  BY <1>1 DEF ValuesInv
<1>3. k \in Nat \ {0, 1} /\ n \in Nat /\ n + 3 * k < Word
  BY <1>2, SearchBounds DEF Guessed
<1>4. PICK v \in Int : -2 * k <= v /\ v <= n /\ mu = v % Word
  BY <1>2 DEF Guessed
<1>5. ((v % Word) + 1) % Word = (v + 1) % Word /\ Minus(n, (v % Word) + 1) = Minus(n, (v + 1) % Word)
  BY <1>3, <1>4, WordsOfGuess
<1>6. ~ (Remaining(n, k, v + 1) < Rest)
  BY <1>1, <1>4, <1>5 DEF TooLow, Remaining
<1>7. Rest >= 1 /\ Rest \in Int
  <2>1. n + k - 1 < Word /\ k \in Nat \ {0}
    BY <1>3 DEF WordAssumption
  <2>2. NumberCompositions(n, k) \in Nat \ {0}
    BY <1>3, <2>1, CompositionsExist
  <2>3. idx \in Nat /\ idx < NumberCompositions(n, k)
    BY <1>2 DEF Searching
  <2> DEFINE w == NumberCompositions(n, k)
  <2> HIDE DEF w
  <2>4. w \in Nat /\ idx < w
    BY <2>2, <2>3 DEF w
  <2>5. w - idx >= 1 /\ w - idx \in Int
    BY <2>3, <2>4
  <2>6. QED
    BY <2>5 DEF Rest, w
<1>8. v + 1 # n + 1
  <2>1. CASE v + 1 = n + 1
    <3>1. n + 1 \in Int /\ -2 * k <= n + 1 /\ n + 1 <= n + 1
      BY <1>3
    <3>2. Remaining(n, k, n + 1) = 0
      BY <1>3, <3>1, RemainingIs
    <3>3. QED
      BY <1>6, <1>7, <2>1, <3>2
  <2>2. QED
    BY <2>1
<1>9. Guessed'
  <2>1. v + 1 \in Int /\ -2 * k <= v + 1 /\ v + 1 <= n /\ mu' = (v + 1) % Word
    BY <1>1, <1>3, <1>4, <1>5, <1>8
  <2>2. \E w \in Int : -2 * k <= w /\ w <= n /\ mu' = w % Word
    BY <2>1
  <2>3. QED
    BY <1>1, <1>3, <2>2 DEF Guessed
<1>10. Searching'
  BY <1>1, <1>2, BitsStay DEF Searching, given
<1>11. QED
  BY <1>1, <1>9, <1>10 DEF ValuesInv, given

\* A guess that is not too low is a part there can be.
LEMMA HighEnough ==
    ASSUME WordAssumption, ValuesInv, carrier = "values",
           (coding = "up" /\ ~ TooLow) \/ coding = "down"
    PROVE  /\ Searching /\ Lowered
           /\ k \in Nat \ {0, 1} /\ n \in Nat /\ n + 3 * k < Word /\ mu \in 0 .. n
           /\ Minus(n, mu) = n - mu
           /\ mu >= 1 => Minus(mu, 1) = mu - 1
           /\ NumberCompositions(Minus(n, mu), k) = Remaining(n, k, mu)
           /\ Remaining(n, k, mu + 1) < Rest
           /\ Rest \in Int /\ Rest <= Remaining(n, k, 0)
<1>1. Searching /\ (coding = "up" => Guessed) /\ (coding = "down" => Lowered)
  BY DEF ValuesInv
<1>2. k \in Nat \ {0, 1} /\ n \in Nat /\ n + 3 * k < Word
  BY <1>1, SearchBounds DEF Guessed, Lowered
<1>3. Rest \in Int /\ Rest <= Remaining(n, k, 0)
  <2>1. 0 \in 0 .. n
    BY <1>2
  <2> DEFINE v == 0
  <2>2. v \in 0 .. n
    BY <2>1
  <2> HIDE DEF v
  <2>3. Remaining(n, k, 0) = NumberCompositions(n, k)
    BY <1>2, <2>2, RemainingStep
  <2>4. n + k - 1 < Word /\ k \in Nat \ {0}
    BY <1>2 DEF WordAssumption
  <2>5. NumberCompositions(n, k) \in Nat \ {0}
    BY <1>2, <2>4, CompositionsExist
  <2> DEFINE w == NumberCompositions(n, k)
  <2>6. w \in Nat /\ Remaining(n, k, 0) = w /\ Rest = w - idx
    BY <2>3, <2>5 DEF Rest
  <2>7. idx \in Nat
    BY <1>1 DEF Searching
  <2> HIDE DEF w
  <2>8. QED
    BY <2>6, <2>7
<1>4. mu \in 0 .. n
  <2>1. CASE coding = "down"
    BY <1>1, <2>1 DEF Lowered
  <2>2. CASE coding = "up" /\ ~ TooLow
    <3>1. PICK v \in Int : -2 * k <= v /\ v <= n /\ mu = v % Word
      BY <1>1, <2>2 DEF Guessed
    <3>2. /\ Minus(n, (v % Word) + 1) = Minus(n, (v + 1) % Word)
          /\ v >= 0 => v % Word = v
      BY <1>2, <3>1, WordsOfGuess
    <3>3. Remaining(n, k, v + 1) < Rest
      BY <2>2, <3>1, <3>2 DEF TooLow, Remaining
    <3>4. v >= 0
      <4>1. SUFFICES ASSUME v < 0 PROVE FALSE
        BY <3>1
      <4> DEFINE x == v + 1
                 y == 0
      <4>2. /\ x \in Int /\ -2 * k <= x /\ x <= n + 1
            /\ y \in Int /\ x <= y /\ y <= n + 1
        BY <1>2, <3>1, <4>1
      <4> HIDE DEF x, y
      <4>3. Remaining(n, k, y) <= Remaining(n, k, x) /\ Remaining(n, k, y) \in Nat
        BY <1>2, <4>2, RemainingFalls
      <4>4. Remaining(n, k, x) \in Nat
        <5>1. x <= x
          BY <4>2
        <5>2. QED
          BY <1>2, <4>2, <5>1, RemainingFalls
      <4>5. Remaining(n, k, x) < Rest /\ Rest <= Remaining(n, k, y)
        BY <1>3, <3>3 DEF x, y
      <4>6. QED
        BY <1>3, <4>3, <4>4, <4>5
    <3>5. QED
      BY <1>2, <3>1, <3>2, <3>4
  <2>3. QED
    BY <2>1, <2>2
<1>5. mu \in Int /\ -2 * k <= mu /\ mu <= n /\ mu >= 0
  BY <1>2, <1>4
<1>6. /\ mu % Word = mu /\ Minus(n, mu) = n - mu
      /\ mu >= 1 => Minus(mu, 1) = mu - 1
      /\ Minus(n, mu + 1) = Minus(n, (mu + 1) % Word)
  BY <1>2, <1>5, WordsOfGuess, ZenonT(40)
<1>7. NumberCompositions(Minus(n, mu), k) = Remaining(n, k, mu)
  BY <1>6 DEF Remaining
<1>8. ~ TooLow
  BY <1>1 DEF Lowered
<1>9. Remaining(n, k, mu + 1) < Rest
  BY <1>6, <1>8 DEF TooLow, Remaining
<1>10. Lowered
  BY <1>2, <1>4, <1>8 DEF Lowered
<1>11. QED
  BY <1>1, <1>2, <1>3, <1>4, <1>6, <1>7, <1>9, <1>10

\* A guess that is lowered was not all of it.
LEMMA ValuesDown ==
    ASSUME WordAssumption, ValuesInv, carrier = "values", Down PROVE ValuesInv'
<1>1. /\ (coding = "up" /\ ~ TooLow) \/ coding = "down"
      /\ TooHigh /\ mu' = Minus(mu, 1) /\ coding' = "down" /\ carrier' = carrier
      /\ UNCHANGED <<given, parts, idx, n, k>>
  BY DEF Down, given
<1>2. /\ Searching /\ Lowered
      /\ k \in Nat \ {0, 1} /\ n \in Nat /\ n + 3 * k < Word /\ mu \in 0 .. n
      /\ mu >= 1 => Minus(mu, 1) = mu - 1
      /\ NumberCompositions(Minus(n, mu), k) = Remaining(n, k, mu)
      /\ Rest \in Int /\ Rest <= Remaining(n, k, 0)
  BY <1>1, HighEnough
<1>3. ~ (Rest <= Remaining(n, k, mu))
  BY <1>1, <1>2 DEF TooHigh
<1>4. mu # 0
  BY <1>2, <1>3
<1>5. mu' = mu - 1 /\ mu' \in 0 .. n /\ mu' + 1 = mu
  BY <1>1, <1>2, <1>4
<1>6. Minus(n, mu) \in Int /\ Remaining(n, k, mu) \in Int
  <2>1. mu \in Int /\ -2 * k <= mu /\ mu <= n + 1 /\ mu <= mu
    BY <1>2
  <2>2. Remaining(n, k, mu) \in Nat
    BY <1>2, <2>1, RemainingFalls
  <2>3. n - mu \in Int /\ Word \in Nat \ {0}
    BY <1>2 DEF WordAssumption
  <2>4. QED
    BY <2>2, <2>3 DEF Minus
<1>7. NumberCompositions(Minus(n, mu' + 1), k) < Rest
  BY <1>2, <1>3, <1>5, <1>6
<1>8. ~ TooLow'
  BY <1>1, <1>7 DEF TooLow, Rest
<1>9. Lowered'
  BY <1>1, <1>2, <1>5, <1>8 DEF Lowered
<1>10. Searching'
  BY <1>1, <1>2, BitsStay DEF Searching, given
<1>11. QED
  BY <1>1, <1>9, <1>10 DEF ValuesInv, given

\* The part that is placed leaves a number that the compositions of the rest have.
LEMMA ValuesPlace ==
    ASSUME WordAssumption, ValuesInv, carrier = "values", Place PROVE ValuesInv'
<1>1. /\ (coding = "up" /\ ~ TooLow) \/ coding = "down"
      /\ ~ TooHigh /\ coding' = "part" /\ carrier' = carrier
      /\ parts' = Append(parts, mu)
      /\ idx' = idx - (NumberCompositions(n, k) - NumberCompositions(Minus(n, mu), k))
      /\ n' = Minus(n, mu) /\ k' = k - 1
      /\ UNCHANGED given
  BY DEF Place, given
<1>2. /\ Searching /\ Lowered
      /\ k \in Nat \ {0, 1} /\ n \in Nat /\ n + 3 * k < Word /\ mu \in 0 .. n
      /\ Minus(n, mu) = n - mu
      /\ NumberCompositions(Minus(n, mu), k) = Remaining(n, k, mu)
      /\ Remaining(n, k, mu + 1) < Rest /\ Rest \in Int
  BY <1>1, HighEnough
<1>3. Rest <= Remaining(n, k, mu)
  BY <1>1, <1>2 DEF TooHigh
<1>4. /\ Remaining(n, k, mu) = NumberCompositions(n - mu, k)
      /\ Remaining(n, k, mu) - Remaining(n, k, mu + 1) = NumberCompositions(n - mu, k - 1)
  BY <1>2, RemainingStep
<1>5. /\ budget \in Nat /\ nParts \in Nat \ {0, 1} /\ budget + 3 * nParts < Word
      /\ Len(parts) \in Nat /\ TotalOf(parts) \in Nat /\ TotalOf(parts) + n = budget
  BY <1>2, SearchBounds
<1>6. /\ parts \in Seq(Nat) /\ Len(parts) < nParts /\ k = nParts - Len(parts)
      /\ idx \in Nat /\ idx < NumberCompositions(n, k)
      /\ Index(parts, budget, nParts) + idx = DataBitsToInt(Data)
  BY <1>2 DEF Searching
<1>7. NumberCompositions(n, k) \in Nat
  <2>1. n + k - 1 < Word /\ k \in Nat \ {0}
    BY <1>2 DEF WordAssumption
  <2>2. QED
    BY <1>2, <2>1, CompositionsExist
<1>8. Remaining(n, k, mu) \in Nat /\ Remaining(n, k, mu + 1) \in Nat
  <2>1. mu \in Int /\ -2 * k <= mu /\ mu <= n + 1 /\ mu <= mu
    BY <1>2
  <2>2. Remaining(n, k, mu) \in Nat
    BY <1>2, <2>1, RemainingFalls
  <2> DEFINE x == mu + 1
  <2>3. x \in Int /\ mu <= x /\ x <= n + 1
    BY <1>2
  <2> HIDE DEF x
  <2>4. Remaining(n, k, x) \in Nat
    BY <1>2, <2>1, <2>3, RemainingFalls
  <2>5. QED
    BY <2>2, <2>4 DEF x
<1> DEFINE w == NumberCompositions(n, k)
           r == Remaining(n, k, mu)
           s == Remaining(n, k, mu + 1)
           y == NumberCompositions(n - mu, k - 1)
<1>9. /\ w \in Nat /\ r \in Nat /\ s \in Nat /\ s < Rest /\ Rest <= r /\ r - s = y
      /\ Rest = w - idx /\ idx \in Nat /\ idx' = idx - (w - r)
  BY <1>1, <1>2, <1>3, <1>4, <1>6, <1>7, <1>8 DEF Rest
<1> HIDE DEF w, r, s, y
<1>10. idx' \in Nat /\ idx' < y
  BY <1>9
<1>11. n' = n - mu /\ k' = k - 1 /\ n' \in Nat /\ idx' < NumberCompositions(n', k')
  BY <1>1, <1>2, <1>10 DEF y
<1>12. /\ parts' = parts \o <<mu>> /\ parts' \in Seq(Nat) /\ Len(parts') = Len(parts) + 1
       /\ TotalOf(parts') = TotalOf(parts) + mu
  <2> DEFINE e == <<mu>>
  <2>1. mu \in Nat /\ mu \in Int
    BY <1>2
  <2>2. parts' = parts \o e /\ e \in Seq(Nat) /\ e \in Seq(Int) /\ Len(e) = 1
    BY <1>1, <1>6, <2>1
  <2>3. TotalOf(e) = mu
    BY <2>1, TotalOfFew
  <2> HIDE DEF e
  <2>4. parts \o e \in Seq(Nat) /\ Len(parts \o e) = Len(parts) + Len(e)
    BY <1>6, <2>2, JoinedAre
  <2>5. parts \in Seq(Int)
    BY <1>6
  <2>6. TotalOf(parts \o e) = TotalOf(parts) + TotalOf(e)
    BY <2>2, <2>5, TotalOfBoth
  <2>7. /\ parts' \in Seq(Nat) /\ Len(parts') = Len(parts) + 1
        /\ TotalOf(parts') = TotalOf(parts) + mu
    BY <2>2, <2>3, <2>4, <2>6
  <2>8. QED
    BY <2>2, <2>7 DEF e
<1> DEFINE t == TotalOf(parts)
           l == Len(parts)
<1>13. /\ Index(parts, budget, nParts) \in Int
       /\ Index(parts', budget, nParts) = Index(parts, budget, nParts) + (w - r)
  <2>1. mu \in Nat /\ t + mu <= budget /\ l < nParts /\ nParts \in Nat
    BY <1>2, <1>5, <1>6, SMTT(30)
  <2>2. /\ Index(parts, budget, nParts) \in Int
        /\ Index(parts \o <<mu>>, budget, nParts)
                = Index(parts, budget, nParts)
                    + (NumberCompositions(budget - t, nParts - l)
                         - NumberCompositions(budget - (t + mu), nParts - l))
    BY <1>5, <1>6, <2>1, IndexStep
  <2>3. t \in Nat /\ t + n = budget /\ nParts - l = k
    BY <1>5, <1>6
  <2> HIDE DEF t, l
  <2>4. budget - t = n /\ budget - (t + mu) = n - mu
    BY <1>2, <1>5, <2>1, <2>3
  <2>5. NumberCompositions(budget - t, nParts - l) = w
        /\ NumberCompositions(budget - (t + mu), nParts - l) = r
    BY <1>4, <2>3, <2>4 DEF w, r
  <2>6. QED
    BY <1>12, <2>2, <2>5
<1>14. Index(parts', budget, nParts) + idx' = DataBitsToInt(Data)
  BY <1>6, <1>9, <1>13
<1>15. /\ Len(parts') < nParts /\ k' = nParts - Len(parts')
       /\ TotalOf(parts') + n' = budget
  <2>1. t \in Nat /\ t + n = budget /\ l \in Nat /\ k = nParts - l
        /\ Len(parts') = l + 1 /\ TotalOf(parts') = t + mu
    BY <1>5, <1>6, <1>12
  <2> HIDE DEF t, l
  <2>2. QED
    BY <1>2, <1>5, <1>11, <2>1
<1>16. Data' \in Bits(EmbeddableBitsInValues(budget, nParts))'
  BY <1>1, <1>2, BitsStay DEF Searching, given
<1>17. Searching'
  <2>1. budget' = budget /\ nParts' = nParts /\ Data' = Data
    BY <1>1 DEF given
  <2>2. QED
    BY <1>10, <1>11, <1>12, <1>14, <1>15, <1>16, <2>1 DEF Searching
<1>18. QED
  BY <1>1, <1>17 DEF ValuesInv, given

\* What is left of the bits when one part is left, or nothing of the budget, is zero.
LEMMA ValuesLastPart ==
    ASSUME WordAssumption, ValuesInv, carrier = "values", LastPart PROVE ValuesInv'
<1> DEFINE l == Len(parts)
           t == TotalOf(parts)
           m == nParts - 1 - l
           p == parts \o Zeros(m)
<1>1. /\ coding = "part" /\ (n = 0 \/ ~ (l < nParts - 1)) /\ coding' = "encoded"
      /\ carrier' = carrier /\ UNCHANGED given
      /\ parts' = (parts \o Zeros(m)) \o <<n>>
  BY DEF LastPart, MoreParts, Zeros, given
<1>2. Searching
  BY <1>1 DEF ValuesInv
<1>3. /\ budget \in Nat /\ nParts \in Nat \ {0, 1} /\ budget + 3 * nParts < Word
      /\ l \in Nat /\ k \in Nat \ {0} /\ n \in Nat /\ n + 3 * k < Word
      /\ t \in Nat /\ t + n = budget
  BY <1>2, SearchBounds
<1>4. /\ parts \in Seq(Nat) /\ l < nParts /\ k = nParts - l
      /\ idx \in Nat /\ idx < NumberCompositions(n, k)
      /\ Index(parts, budget, nParts) + idx = DataBitsToInt(Data)
  BY <1>2 DEF Searching
<1> HIDE DEF l, t
<1>5. m \in Nat /\ m = k - 1 /\ l + m = nParts - 1 /\ (n # 0 => m = 0)
  BY <1>1, <1>3, <1>4
<1> HIDE DEF m
<1>6. Zeros(m) \in Seq(Nat) /\ Len(Zeros(m)) = m /\ TotalOf(Zeros(m)) = 0
  BY <1>5, ZerosAre, TotalOfZeros
<1>7. p \in Seq(Nat) /\ Len(p) = nParts - 1 /\ TotalOf(p) = t
  <2> DEFINE z == Zeros(m)
  <2>1. z \in Seq(Nat) /\ Len(z) = m /\ TotalOf(z) = 0
    BY <1>6
  <2> HIDE DEF z
  <2>2. parts \o z \in Seq(Nat) /\ Len(parts \o z) = Len(parts) + Len(z)
    BY <1>4, <2>1, JoinedAre
  <2>3. z \in Seq(Int) /\ parts \in Seq(Int)
    BY <1>4, <2>1
  <2>4. TotalOf(parts \o z) = TotalOf(parts) + TotalOf(z)
    BY <2>3, TotalOfBoth
  <2>5. Len(parts \o z) = nParts - 1 /\ TotalOf(parts \o z) = t
    BY <1>3, <1>5, <2>1, <2>2, <2>4 DEF l, t
  <2>6. QED
    BY <2>2, <2>5 DEF z
<1>8. idx = 0
  <2>1. n + k - 1 < Word
    BY <1>3 DEF WordAssumption
  <2>2. n = 0 \/ k = 1
    BY <1>3, <1>5
  <2>3. NumberCompositions(n, k) = 1
    BY <1>3, <2>1, <2>2, CompositionsExist
  <2>4. QED
    BY <1>4, <2>3
<1>9. Index(p, budget, nParts) = Index(parts, budget, nParts)
  <2>1. CASE n = 0
    <3>1. TotalOf(parts) = budget /\ Len(parts) + m <= nParts
      BY <1>3, <1>5, <2>1 DEF t, l
    <3>2. Index(parts \o Zeros(m), budget, nParts) = Index(parts, budget, nParts)
      BY <1>3, <1>4, <1>5, <3>1, IndexOfZeros
    <3>3. QED
      BY <3>2
  <2>2. CASE n # 0
    <3>1. Zeros(m) = <<>>
      BY <1>5, <2>2 DEF Zeros
    <3>2. p = parts
      BY <1>4, <3>1
    <3>3. QED
      BY <3>2
  <2>3. QED
    BY <2>1, <2>2
<1> HIDE DEF p
<1>10. parts' = p \o <<n>>
  BY <1>1 DEF p
<1>11. CompositionToInteger(parts') = Index(p, budget, nParts)
  <2>1. budget \in Nat /\ nParts \in Nat \ {0} /\ n \in Nat /\ TotalOf(p) + n = budget
    BY <1>3, <1>7
  <2>2. CompositionToInteger(p \o <<n>>) = Index(p, budget, nParts)
    BY <1>7, <2>1, WholeIs
  <2>3. QED
    BY <1>10, <2>2
<1>12. CompositionToInteger(parts') = DataBitsToInt(Data)
  <2>1. DataBitsToInt(Data) \in Nat
    <3>1. EmbeddableBitsInValues(budget, nParts) \in Nat
      BY <1>3, RoomIs
    <3> DEFINE e == EmbeddableBitsInValues(budget, nParts)
    <3>2. e \in Nat /\ Data \in Bits(e)
      BY <1>2, <3>1 DEF Searching
    <3> HIDE DEF e
    <3>3. QED
      BY <3>2, BitsBelowPower
  <2>2. Index(parts, budget, nParts) \in Int
    <3>1. parts \in Seq(Nat) /\ Len(parts) < nParts /\ TotalOf(parts) + 0 <= budget
          /\ nParts \in Nat
      BY <1>3, <1>4 DEF l, t
    <3> DEFINE v == 0
    <3>2. v \in Nat /\ TotalOf(parts) + v <= budget
      BY <3>1
    <3> HIDE DEF v
    <3>3. QED
      BY <1>3, <3>1, <3>2, IndexStep
  <2>3. QED
    BY <1>4, <1>8, <1>9, <1>11, <2>1, <2>2
<1>13. parts' \in Seq(Nat) /\ Len(parts') = nParts /\ TotalOf(parts') = budget
  <2> DEFINE e == <<n>>
  <2>1. n \in Int /\ e \in Seq(Nat) /\ e \in Seq(Int) /\ Len(e) = 1 /\ parts' = p \o e
    BY <1>3, <1>10
  <2>2. TotalOf(e) = n
    BY <2>1, TotalOfFew
  <2> HIDE DEF e
  <2>3. p \o e \in Seq(Nat) /\ Len(p \o e) = Len(p) + Len(e)
    BY <1>7, <2>1, JoinedAre
  <2>4. p \in Seq(Int)
    BY <1>7
  <2>5. TotalOf(p \o e) = TotalOf(p) + TotalOf(e)
    BY <2>1, <2>4, TotalOfBoth
  <2>6. QED
    BY <1>3, <1>7, <2>1, <2>2, <2>3, <2>5
<1>14. Data' \in Bits(EmbeddableBitsInValues(budget, nParts))'
  BY <1>1, <1>2, BitsStay DEF Searching, given
<1>15. Whole'
  <2>1. budget' = budget /\ nParts' = nParts /\ Data' = Data
    BY <1>1 DEF given
  <2>2. QED
    BY <1>12, <1>13, <1>14, <2>1 DEF Whole
<1>16. QED
  BY <1>1, <1>15 DEF ValuesInv, given

LEMMA SumIsTotal == Sum = TotalOf(parts) /\ count = Len(parts)
BY DEF Sum, count, TotalOf

\* Reading finds the budget, the number of the parts and the number of the composition.
LEMMA ValuesDecode ==
    ASSUME WordAssumption, ValuesInv, carrier = "values", Decode \/ DecodeThrows
    PROVE  ValuesInv'
<1>1. /\ coding = "encoded" /\ carrier' = carrier /\ UNCHANGED <<given, parts>>
      /\ budget' = budget /\ nParts' = nParts /\ Data' = Data
  BY DEF Decode, DecodeThrows, given
<1>2. Whole /\ budget \in Nat /\ nParts \in Nat \ {0, 1} /\ budget + 3 * nParts < Word
  BY <1>1 DEF ValuesInv
<1> DEFINE e == EmbeddableBitsInValues(budget, nParts)
<1>3. Sum = budget /\ count = nParts
  BY <1>2, SumIsTotal DEF Whole
<1>4. EmbeddableBitsInValues(Sum, count) = e
  BY <1>3
<1>5. e \in Nat
  BY <1>2, RoomIs
<1> HIDE DEF e
<1>6. ASSUME Data # <<>>
      PROVE  /\ CompositionToInteger(parts) < Power2[e]
             /\ Padded(CompositionToInteger(parts), e) = Data
  <2>1. Data \in Bits(e) /\ CompositionToInteger(parts) = DataBitsToInt(Data)
    BY <1>2, <1>6 DEF Whole, e
  <2>2. DataBitsToInt(Data) < Power2[e] /\ Padded(DataBitsToInt(Data), e) = Data
    BY <1>5, <2>1, BitsBelowPower, PaddedIs
  <2>3. QED
    BY <2>1, <2>2
<1>7. CASE Decode
  <2>1. out' = DecodeDataInValues /\ coding' = "decoded"
    BY <1>7 DEF Decode
  <2>2. DecodeDataInValues = Padded(CompositionToInteger(parts), e)
    BY <1>4 DEF DecodeDataInValues
  <2>3. Data' # <<>> => out' = Data'
    BY <1>1, <1>6, <2>1, <2>2
  <2>4. QED
    BY <1>1, <1>2, <2>1, <2>3 DEF ValuesInv
<1>8. CASE DecodeThrows
  <2>1. ~ Decodable /\ coding' = "thrown"
    BY <1>8 DEF DecodeThrows
  <2>2. ~ (CompositionToInteger(parts) < Power2[e])
    BY <1>4, <2>1 DEF Decodable
  <2>3. Data' = <<>>
    BY <1>1, <1>6, <2>2
  <2>4. QED
    BY <1>1, <1>2, <2>1, <2>3 DEF ValuesInv
<1>9. QED
  BY <1>7, <1>8

LEMMA ValuesNext ==
    ASSUME WordAssumption, ValuesInv, [CarrierNext]_carriers PROVE ValuesInv'
<1>1. carrier' = carrier
  BY DEF CarrierNext, EncodeDataInPermutation, EncodeDataInPubkey, EncodeDataInSequenceNr,
         EncodeDataInValues, Guess, Up, Down, Place, LastPart, Decode, DecodeThrows, given, carriers
<1>2. CASE carrier # "values"
  BY <1>1, <1>2 DEF ValuesInv
<1>3. CASE carrier = "values"
  <2>1. CASE EncodeDataInPermutation \/ EncodeDataInPubkey \/ EncodeDataInSequenceNr
    BY <1>3, <2>1 DEF EncodeDataInPermutation, EncodeDataInPubkey, EncodeDataInSequenceNr
  <2>2. CASE EncodeDataInValues
    BY <2>2, ValuesStart
  <2>3. CASE Guess
    BY <1>3, <2>3, ValuesGuess
  <2>4. CASE Up
    BY <1>3, <2>4, ValuesUp
  <2>5. CASE Down
    BY <1>3, <2>5, ValuesDown
  <2>6. CASE Place
    BY <1>3, <2>6, ValuesPlace
  <2>7. CASE LastPart
    BY <1>3, <2>7, ValuesLastPart
  <2>8. CASE Decode \/ DecodeThrows
    BY <1>3, <2>8, ValuesDecode
  <2>9. CASE UNCHANGED carriers
    <3>1. /\ UNCHANGED given /\ carrier' = carrier /\ budget' = budget /\ nParts' = nParts
          /\ Data' = Data /\ coding' = coding /\ parts' = parts /\ idx' = idx /\ n' = n /\ k' = k
          /\ mu' = mu /\ out' = out
      BY <2>9 DEF carriers, given
    <3>2. Bits(EmbeddableBitsInValues(budget, nParts))'
            = Bits(EmbeddableBitsInValues(budget, nParts))
      BY <3>1, BitsStay
    <3>3. Searching => Searching'
      BY <3>1, <3>2 DEF Searching
    <3>4. Guessed => Guessed'
      BY <3>1 DEF Guessed
    <3>5. Lowered => Lowered'
      BY <3>1 DEF Lowered, TooLow, Rest
    <3>6. Whole => Whole'
      BY <3>1, <3>2 DEF Whole
    <3>7. QED
      BY <3>1, <3>2, <3>3, <3>4, <3>5, <3>6 DEF ValuesInv
  <2>10. QED
    BY <2>1, <2>2, <2>3, <2>4, <2>5, <2>6, <2>7, <2>8, <2>9 DEF CarrierNext
<1>4. QED
  BY <1>2, <1>3

LEMMA ValuesSay == ASSUME ValuesInv PROVE SpendsBudget /\ (carrier = "values" => BitsArrive)
<1>1. SpendsBudget
  <2>1. SUFFICES ASSUME carrier = "values", coding = "encoded"
                 PROVE  /\ Len(parts) = nParts
                        /\ \A x \in DOMAIN parts : parts[x] \in 0 .. budget
                        /\ Sum = budget
    BY DEF SpendsBudget
  <2>2. parts \in Seq(Nat) /\ Len(parts) = nParts /\ TotalOf(parts) = budget
    BY <2>1 DEF ValuesInv, Whole
  <2>3. \A x \in 1 .. Len(parts) : parts[x] <= TotalOf(parts)
    BY <2>2, TotalOfFirst
  <2>4. budget \in Nat
    BY <2>1 DEF ValuesInv
  <2>5. \A x \in DOMAIN parts : parts[x] \in 0 .. budget
    BY <2>2, <2>3, <2>4
  <2>6. QED
    BY <2>2, <2>5, SumIsTotal
<1>2. carrier = "values" => BitsArrive
  BY DEF ValuesInv, BitsArrive
<1>3. QED
  BY <1>1, <1>2

--------------------------------------------------------------------------------
(* Public keys: bits are cut into bytes, and bytes are bits again. *)

LEMMA QuotientIs ==
    ASSUME NEW m \in Nat \ {0}, NEW x \in Int, NEW r \in 0 .. m - 1
    PROVE  (m * x + r) \div m = x /\ (m * x + r) % m = r
<1> DEFINE a == m * x + r
           p == a \div m
           s == a % m
<1>1. a \in Int
  OBVIOUS
<1>2. a = m * p + s /\ p \in Int /\ s \in 0 .. m - 1
  <2> HIDE DEF a
  <2>1. QED
    BY <1>1, Division
<1>3. a = m * x + r
  OBVIOUS
<1>4. (m * x + r) \div m = p /\ (m * x + r) % m = s
  OBVIOUS
<1> HIDE DEF p, s, a
<1>5. m * p - m * x = r - s /\ m * p \in Int /\ m * x \in Int /\ m * p - m * x = m * (p - x)
  BY <1>2, <1>3
<1>6. m * (p - x) < m /\ -m < m * (p - x) /\ p - x \in Int
  BY <1>2, <1>5
<1>7. p - x = 0
  BY <1>6, Multiples
<1>8. p = x
  BY <1>2, <1>7
<1>9. s = r
  BY <1>2, <1>3, <1>8
<1>10. QED
  BY <1>4, <1>8, <1>9

LEMMA HalfQuotient ==
    ASSUME NEW i \in Int, NEW b \in {0, 1}, NEW q \in Nat \ {0}
    PROVE  (2 * i + b) \div (2 * q) = i \div q
<1> DEFINE x == i \div q
           r == i % q
<1>1. i = q * x + r /\ x \in Int /\ r \in 0 .. q - 1
  BY Division
<1> DEFINE m == 2 * q
           s == 2 * r + b
<1>2. m \in Nat \ {0} /\ s \in 0 .. m - 1
  BY <1>1
<1>3. 2 * i + b = m * x + s
  <2> HIDE DEF x, r
  <2>1. q * x \in Int /\ (2 * q) * x = 2 * (q * x)
    BY <1>1
  <2>2. QED
    BY <1>1, <2>1
<1> HIDE DEF m, s, x
<1>4. (m * x + s) \div m = x
  BY <1>1, <1>2, QuotientIs
<1>5. QED
  BY <1>3, <1>4 DEF m, x

LEMMA PowerSum ==
    ASSUME NEW a \in Nat, NEW b \in Nat
    PROVE  Power2[a + b] = Power2[a] * Power2[b]
<1> DEFINE T == {y \in Nat : Power2[a + y] = Power2[a] * Power2[y]}
<1>1. 0 \in T
  BY PowerIs
<1>2. ASSUME NEW y \in Nat, y \in T PROVE y + 1 \in T
  <2>1. a + y \in Nat /\ (a + y) + 1 = a + (y + 1)
    OBVIOUS
  <2>2. Power2[(a + y) + 1] = 2 * Power2[a + y] /\ Power2[y + 1] = 2 * Power2[y]
    BY <2>1, PowerIs
  <2>3. Power2[a] \in Nat /\ Power2[y] \in Nat
    BY PowerIs
  <2>4. Power2[a + y] = Power2[a] * Power2[y]
    BY <1>2
  <2> DEFINE u == Power2[a]
             v == Power2[y]
  <2>5. 2 * (u * v) = u * (2 * v)
    <3> HIDE DEF u, v
    <3>1. \A c, d \in Nat : 2 * (c * d) = c * (2 * d)
      OBVIOUS
    <3>2. QED
      BY <2>3, <3>1 DEF u, v
  <2>6. QED
    BY <2>1, <2>2, <2>4, <2>5
<1> HIDE DEF T
<1>3. \A y \in Nat : y \in T
  BY <1>1, <1>2, AllNumbers
<1>4. QED
  BY <1>3 DEF T

\* The bits of a number of bits.
LEMMA BitAt ==
    \A m \in Nat : \A d \in Bits(m) : \A x \in 1 .. m :
      (DataBitsToInt(d) \div Power2[m - x]) % 2 = d[x]
<1> DEFINE Good(m) == \A d \in Bits(m) : \A x \in 1 .. m :
                        (DataBitsToInt(d) \div Power2[m - x]) % 2 = d[x]
           T == {m \in Nat : Good(m)}
<1>1. 0 \in T
  OBVIOUS
<1>2. ASSUME NEW m \in Nat, m \in T PROVE m + 1 \in T
  <2>1. ASSUME NEW d \in Bits(m + 1), NEW x \in 1 .. m + 1
        PROVE  (DataBitsToInt(d) \div Power2[m + 1 - x]) % 2 = d[x]
    <3>1. PICK c \in Bits(m) : \E b \in {0, 1} : d = Append(c, b)
      BY <2>1, BitsGrow
    <3>2. PICK b \in {0, 1} : d = Append(c, b)
      BY <3>1
    <3>3. c \in Seq({0, 1}) /\ Len(c) = m
      BY BitsGrow
    <3> DEFINE i == DataBitsToInt(c)
    <3>4. DataBitsToInt(d) = 2 * i + b /\ i \in Nat
      BY <3>2, <3>3, BitsAppended
    <3> HIDE DEF i
    <3>5. CASE x = m + 1
      <4>1. m + 1 - x = 0 /\ Power2[0] = 1
        BY <3>5, PowerIs
      <4>2. d[x] = b
        BY <3>2, <3>3, <3>5
      <4>3. (2 * i + b) \div 1 = 2 * i + b /\ (2 * i + b) % 2 = b
        BY <3>4
      <4>4. QED
        BY <3>4, <4>1, <4>2, <4>3
    <3>6. CASE x \in 1 .. m
      <4> DEFINE e == m - x
                 q == Power2[e]
      <4>1. e \in Nat /\ m + 1 - x = e + 1
        BY <3>6
      <4> HIDE DEF e
      <4>2. q \in Nat \ {0} /\ Power2[e + 1] = 2 * q
        BY <4>1, PowerIs
      <4> HIDE DEF q
      <4>3. (2 * i + b) \div (2 * q) = i \div q
        <5>1. i \in Int /\ b \in {0, 1} /\ q \in Nat \ {0}
          BY <3>2, <3>4, <4>2
        <5>2. QED
          BY <5>1, HalfQuotient, Zenon
      <4>4. d[x] = c[x]
        BY <3>2, <3>3, <3>6
      <4>5. (i \div q) % 2 = c[x]
        BY <1>2, <3>6 DEF i, q, e
      <4>6. QED
        BY <3>4, <4>1, <4>2, <4>3, <4>4, <4>5
    <3>7. QED
      BY <3>5, <3>6
  <2>2. QED
    BY <2>1
<1> HIDE DEF T
<1>3. \A m \in Nat : m \in T
  BY <1>1, <1>2, AllNumbers
<1>4. QED
  BY <1>3 DEF T

\* A byte is its bits, whether its char is negative or not.
LEMMA CharIs ==
    ASSUME DataInterfaceAssumption, NEW d \in Bits(Byte)
    PROVE  /\ BoolVecToChar(d) % Power2[Byte] = DataBitsToInt(d)
           /\ CharToBoolVec(Char(DataBitsToInt(d))) = d
<1> DEFINE i == DataBitsToInt(d)
           h == Power2[Byte - 1]
           p == Power2[Byte]
<1>1. Byte \in Nat /\ Byte >= 2 /\ Byte - 1 \in Nat /\ (Byte - 1) + 1 = Byte
  BY DEF DataInterfaceAssumption
<1>2. h \in Nat /\ h >= 1 /\ p = 2 * h
  BY <1>1, PowerIs
<1>3. i \in Nat /\ i < p
  BY <1>1, BitsBelowPower
<1> DEFINE c == ((i + h) % p) - h
<1>4. Char(i) = c
  BY DEF Char
<1>5. (c = i \/ c = i - p) /\ c % p = i
  <2> HIDE DEF i, h, p
  <2>1. CASE i < h
    <3>1. i + h \in 0 .. p - 1 /\ p \in Nat \ {0} /\ i \in 0 .. p - 1
      BY <1>2, <1>3, <2>1
    <3>2. (i + h) % p = i + h /\ i % p = i
      BY <3>1, WordIs
    <3>3. QED
      BY <1>2, <1>3, <3>2
  <2>2. CASE ~ (i < h)
    <3> DEFINE r == i + h - p
    <3>1. r \in 0 .. p - 1 /\ p \in Nat \ {0} /\ i - p \in -p .. -1 /\ i + h = p * 1 + r
      BY <1>2, <1>3, <2>2
    <3> HIDE DEF r
    <3>2. (p * 1 + r) % p = r
      BY <3>1, QuotientIs
    <3>3. (i - p) % p = (i - p) + p
      BY <3>1, WordIs
    <3>4. c = i - p
      BY <1>2, <1>3, <3>1, <3>2 DEF r
    <3>5. QED
      BY <1>2, <1>3, <3>3, <3>4
  <2>3. QED
    BY <2>1, <2>2
<1>6. BoolVecToChar(d) % Power2[Byte] = i
  BY <1>4, <1>5 DEF BoolVecToChar
<1>7. ASSUME NEW x \in 1 .. Byte PROVE (c \div Power2[Byte - x]) % 2 = d[x]
  <2>1. (i \div Power2[Byte - x]) % 2 = d[x]
    BY <1>1, BitAt
  <2>2. CASE c = i
    BY <2>1, <2>2
  <2>3. CASE c = i - p
    <3> DEFINE q == Power2[Byte - x]
               w == Power2[x - 1]
               y == i \div q
               r == i % q
    <3>1. Byte - x \in Nat /\ x - 1 \in Nat /\ x \in Nat /\ (Byte - x) + x = Byte /\ (x - 1) + 1 = x
      BY <1>1
    <3>2. q \in Nat \ {0} /\ w \in Nat /\ p = q * Power2[x] /\ Power2[x] = 2 * w
      <4>1. Power2[(Byte - x) + x] = Power2[Byte - x] * Power2[x]
        BY <3>1, PowerSum
      <4>2. Power2[(x - 1) + 1] = 2 * Power2[x - 1]
        BY <3>1, PowerIs
      <4>3. q \in Nat \ {0} /\ w \in Nat
        BY <3>1, PowerIs
      <4>4. QED
        BY <3>1, <4>1, <4>2, <4>3
    <3> HIDE DEF q, w, p, i
    <3>3. i = q * y + r /\ y \in Int /\ r \in 0 .. q - 1
      BY <1>3, <3>2, Division
    <3> HIDE DEF y, r
    <3>4. c = q * (y - 2 * w) + r
      <4>1. \A a, b, e \in Int : a * b - a * (2 * e) = a * (b - 2 * e)
        OBVIOUS
      <4>2. q * y - q * (2 * w) = q * (y - 2 * w)
        BY <3>2, <3>3, <4>1
      <4>3. q * y \in Int /\ q * (2 * w) \in Int /\ p = q * (2 * w)
        BY <3>2, <3>3
      <4> HIDE DEF c
      <4>4. QED
        BY <2>3, <3>2, <3>3, <4>2, <4>3
    <3>5. c \div q = y - 2 * w
      <4> DEFINE z == y - 2 * w
      <4>1. z \in Int
        BY <3>2, <3>3
      <4> HIDE DEF z
      <4>2. (q * z + r) \div q = z
        BY <3>2, <3>3, <4>1, QuotientIs
      <4> HIDE DEF c
      <4>3. QED
        BY <3>4, <4>2 DEF z
    <3>6. (y - 2 * w) % 2 = y % 2
      BY <3>2, <3>3
    <3> HIDE DEF c
    <3>7. QED
      BY <2>1, <3>5, <3>6 DEF y, q
  <2>4. QED
    BY <1>5, <2>2, <2>3
<1>8. CharToBoolVec(Char(i)) = d
  <2>1. d \in [1 .. Byte -> {0, 1}]
    BY DEF Bits
  <2> HIDE DEF c
  <2>2. [x \in 1 .. Byte |-> (c \div Power2[Byte - x]) % 2] = d
    BY <1>7, <2>1
  <2>3. QED
    BY <1>4, <2>2 DEF CharToBoolVec
<1>9. QED
  BY <1>6, <1>8

LEMMA Places ==
    ASSUME NEW b \in Nat, NEW q \in Nat, NEW y \in Nat, y <= q
    PROVE  y * b \in Nat /\ q * b \in Nat /\ y * b <= q * b /\ (y + 1) * b = y * b + b
<1>1. y * b \in Nat /\ q * b \in Nat /\ (y + 1) * b = y * b + b
  OBVIOUS
<1>2. (q - y) * b = q * b - y * b /\ q - y \in Nat
  OBVIOUS
<1>3. (q - y) * b \in Nat
  BY <1>2
<1>4. QED
  BY <1>1, <1>2, <1>3

LEMMA Adjacent ==
    ASSUME NEW S, NEW s \in Seq(S)
    PROVE  \A i \in 0 .. Len(s) : \A j \in i .. Len(s) :
             SubSeq(s, 1, i) \o SubSeq(s, i + 1, j) = SubSeq(s, 1, j)
BY ConcatAdjacentSubSeq

\* Bits are the bits of the bytes that they make.
LEMMA BytesAre ==
    ASSUME DataInterfaceAssumption, NEW q \in Nat, NEW s \in Bits(q * Byte)
    PROVE  /\ DataToBits(BitsToData(s)) = s
           /\ BitsToData(s) \in Seq(Nat) /\ Len(BitsToData(s)) = q
           /\ \A x \in 1 .. q : BitsToData(s)[x] < Power2[Byte]
<1> DEFINE B == {0, 1}
           piece == [x \in 1 .. q |-> SubSeq(s, (x - 1) * Byte + 1, x * Byte)]
<1>1. Byte \in Nat /\ Byte >= 2 /\ q * Byte \in Nat
  BY DEF DataInterfaceAssumption
<1>2. s \in Seq(B) /\ Len(s) = q * Byte
  BY <1>1, BitsGrow
<1> HIDE DEF B
<1>3. Len(s) \div Byte = q
  <2>1. (Byte * q + 0) \div Byte = q
    <3>1. Byte \in Nat \ {0} /\ 0 \in 0 .. Byte - 1 /\ q \in Int
      BY <1>1
    <3> DEFINE z == 0
    <3>2. z \in 0 .. Byte - 1
      BY <3>1
    <3> HIDE DEF z
    <3>3. (Byte * q + z) \div Byte = q
      BY <3>1, <3>2, QuotientIs
    <3>4. QED
      BY <3>3 DEF z
  <2>2. q * Byte = Byte * q + 0
    BY <1>1
  <2>3. QED
    BY <1>2, <2>1, <2>2
<1>4. ASSUME NEW x \in 1 .. q
      PROVE  /\ (x - 1) * Byte \in Nat /\ x * Byte = (x - 1) * Byte + Byte /\ x * Byte <= q * Byte
             /\ piece[x] \in Seq(B) /\ Len(piece[x]) = Byte /\ piece[x] \in Bits(Byte)
  <2> DEFINE y == x - 1
             u == y * Byte
             p == SubSeq(s, u + 1, u + Byte)
  <2>1. y \in Nat /\ y <= q /\ x \in Nat /\ x <= q /\ y + 1 = x
    OBVIOUS
  <2> HIDE DEF y
  <2>2. u \in Nat /\ (y + 1) * Byte = u + Byte
    BY <1>1, <2>1, Places
  <2>3. x * Byte <= q * Byte
    BY <1>1, <2>1, Places
  <2>4. x * Byte = u + Byte
    BY <2>1, <2>2
  <2> HIDE DEF u
  <2>5. u + Byte <= Len(s) /\ u + Byte \in Nat
    BY <1>1, <1>2, <2>2, <2>3, <2>4
  <2>6. \A i \in u + 1 .. u + Byte : s[i] \in B
    BY <1>1, <1>2, <2>2, <2>5
  <2>7. p \in Seq(B) /\ Len(p) = Byte
    <3> DEFINE a == u + 1
               c == u + Byte
    <3>1. a \in Int /\ c \in Int /\ \A i \in a .. c : s[i] \in B
      BY <2>2, <2>5, <2>6
    <3>2. a <= c /\ c - a + 1 = Byte
      BY <1>1, <2>2
    <3>3. p = SubSeq(s, a, c)
      OBVIOUS
    <3> HIDE DEF a, c, p
    <3>4. SubSeq(s, a, c) \in Seq(B) /\ Len(SubSeq(s, a, c)) = IF a <= c THEN c - a + 1 ELSE 0
      BY <3>1, SubSeqProperties
    <3>5. QED
      BY <3>2, <3>3, <3>4
  <2>9. p \in Bits(Byte)
    <3> HIDE DEF p
    <3>1. p \in [1 .. Byte -> B]
      BY <2>7
    <3>2. QED
      BY <3>1 DEF Bits, B
  <2>10. piece[x] = p
    BY <2>4 DEF u, y
  <2> HIDE DEF p
  <2>11. QED
    BY <2>2, <2>3, <2>4, <2>7, <2>9, <2>10 DEF u, y
<1>5. BitsToData(s) = [x \in 1 .. q |-> BoolVecToChar(piece[x]) % Power2[Byte]]
  BY <1>3 DEF BitsToData
<1> HIDE DEF piece
<1> DEFINE data == BitsToData(s)
<1>6. ASSUME NEW x \in 1 .. q
      PROVE  /\ data[x] \in Nat /\ data[x] < Power2[Byte] /\ data[x] = DataBitsToInt(piece[x])
             /\ CharToBoolVec(Char(data[x])) = piece[x]
  <2>1. piece[x] \in Bits(Byte)
    BY <1>4
  <2>2. data[x] = BoolVecToChar(piece[x]) % Power2[Byte]
    BY <1>5
  <2> HIDE DEF data
  <2>3. data[x] = DataBitsToInt(piece[x]) /\ CharToBoolVec(Char(DataBitsToInt(piece[x]))) = piece[x]
    BY <2>1, <2>2, CharIs
  <2>4. DataBitsToInt(piece[x]) \in Nat /\ DataBitsToInt(piece[x]) < Power2[Byte]
    BY <1>1, <2>1, BitsBelowPower
  <2>5. QED
    BY <2>3, <2>4
<1>7. data \in Seq(Nat) /\ Len(data) = q /\ DOMAIN data = 1 .. q
  <2>1. data = [x \in 1 .. q |-> data[x]]
    BY <1>5
  <2> HIDE DEF data
  <2>2. data \in [1 .. q -> Nat]
    BY <1>6, <2>1
  <2>3. QED
    BY <2>2
<1> DEFINE rows == [x \in 1 .. q |-> piece[x]]
<1>8. DataToBits(data) = FlattenSeq(rows)
  <2> HIDE DEF data
  <2>1. [x \in DOMAIN data |-> CharToBoolVec(Char(data[x]))] = rows
    BY <1>6, <1>7
  <2> HIDE DEF rows
  <2>2. QED
    BY <2>1 DEF DataToBits
<1> HIDE DEF data
<1>9. rows \in Seq(Seq(B)) /\ Len(rows) = q /\ \A x \in 1 .. q : rows[x] = piece[x]
  BY <1>4
<1> HIDE DEF rows
<1> DEFINE T == {y \in Nat : y <= q => Flat(rows, y) = SubSeq(s, 1, y * Byte)}
<1>10. 0 \in T
  <2>1. Flat(rows, 0) = <<>>
    <3>1. CASE q = 0
      <4>1. SubSeq(rows, 1, 0) = <<>>
        BY <1>9
      <4>2. QED
        BY <4>1 DEF Flat, FlattenSeq
    <3>2. CASE q # 0
      <4>1. q \in 1 .. Len(rows)
        BY <1>9, <3>2
      <4>2. QED
        BY <1>9, <4>1, FlatStep
    <3>3. QED
      BY <3>1, <3>2
  <2>2. 0 * Byte = 0 /\ SubSeq(s, 1, 0) = <<>>
    BY <1>1, <1>2
  <2>3. QED
    BY <2>1, <2>2
<1>11. ASSUME NEW y \in Nat, y \in T PROVE y + 1 \in T
  <2>1. SUFFICES ASSUME y + 1 <= q PROVE Flat(rows, y + 1) = SubSeq(s, 1, (y + 1) * Byte)
    OBVIOUS
  <2> DEFINE x == y + 1
             u == y * Byte
             c == x * Byte
  <2>2. x \in 1 .. q /\ x - 1 = y
    BY <2>1
  <2>3. Flat(rows, y) = SubSeq(s, 1, u)
    BY <1>11, <2>1
  <2> HIDE DEF x
  <2>4. u \in Nat /\ c = u + Byte /\ c <= q * Byte
    BY <1>4, <2>2
  <2>5. Flat(rows, x) = Flat(rows, x - 1) \o rows[x]
    <3>1. x \in 1 .. Len(rows)
      BY <1>9, <2>2
    <3>2. QED
      BY <1>9, <3>1, FlatStep
  <2>6. rows[x] = SubSeq(s, u + 1, c)
    <3>1. rows[x] = piece[x]
      BY <1>9, <2>2
    <3>2. piece[x] = SubSeq(s, (x - 1) * Byte + 1, x * Byte)
      BY <2>2 DEF piece
    <3>3. QED
      BY <2>2, <3>1, <3>2
  <2> HIDE DEF u, c
  <2>7. SubSeq(s, 1, u) \o SubSeq(s, u + 1, c) = SubSeq(s, 1, c)
    <3>1. u \in 0 .. Len(s) /\ c \in u .. Len(s)
      BY <1>1, <1>2, <2>4
    <3>2. \A i \in 0 .. Len(s) : \A j \in i .. Len(s) :
            SubSeq(s, 1, i) \o SubSeq(s, i + 1, j) = SubSeq(s, 1, j)
      BY <1>2, Adjacent
    <3>3. QED
      BY <3>1, <3>2
  <2>8. Flat(rows, x) = SubSeq(s, 1, c)
    BY <2>2, <2>3, <2>5, <2>6, <2>7
  <2>9. QED
    BY <2>8 DEF x, c
<1>12. Flat(rows, q) = SubSeq(s, 1, q * Byte)
  <2> HIDE DEF T
  <2>1. \A y \in Nat : y \in T
    BY <1>10, <1>11, AllNumbers
  <2>2. q \in T
    BY <2>1
  <2>3. QED
    BY <2>2 DEF T
<1>13. Flat(rows, q) = FlattenSeq(rows) /\ SubSeq(s, 1, q * Byte) = s
  <2>1. SubSeq(rows, 1, q) = rows
    BY <1>9, SubSeqFull
  <2>2. SubSeq(s, 1, Len(s)) = s
    BY <1>2, SubSeqFull
  <2>3. QED
    BY <1>2, <2>1, <2>2 DEF Flat
<1>14. QED
  BY <1>6, <1>7, <1>8, <1>12, <1>13 DEF data

--------------------------------------------------------------------------------
(* Keys. *)

\* The prefix of a key and the bit in front of the data.
KeyHead == [x \in 1 .. Byte |-> IF x = Byte - 1 THEN 1 ELSE 0] \o <<0>>

Key(random) == BitsToData(KeyHead \o Data \o random)

KeysInv ==
    carrier = "pubkey" =>
      /\ Data \in Seq({0, 1}) /\ Len(Data) \in 1 .. KeyBits - 1 - MinRandom
      /\ coding \in {"start", "encoded", "decoded"}
      /\ coding = "encoded" => \E random \in Bits(nRandBits) : parts = Key(random)
      /\ coding = "decoded" => out = Data

LEMMA JoinedBits ==
    \A s, t \in Seq({0, 1}) : s \o t \in Seq({0, 1}) /\ Len(s \o t) = Len(s) + Len(t)
BY JoinedAre

LEMMA KeyHeadIs ==
    ASSUME DataInterfaceAssumption
    PROVE  KeyHead \in Seq({0, 1}) /\ Len(KeyHead) = Byte + 1
<1> DEFINE B == {0, 1}
           p == [x \in 1 .. Byte |-> IF x = Byte - 1 THEN 1 ELSE 0]
           z == <<0>>
<1>1. Byte \in Nat
  BY DEF DataInterfaceAssumption
<1>2. p \in Seq(B) /\ Len(p) = Byte
  BY <1>1
<1>3. z \in Seq(B) /\ Len(z) = 1
  OBVIOUS
<1>4. KeyHead = p \o z
  BY DEF KeyHead
<1> HIDE DEF p, z
<1>5. p \o z \in Seq(B) /\ Len(p \o z) = Len(p) + Len(z)
  BY <1>2, <1>3, JoinedBits
<1>6. QED
  BY <1>2, <1>3, <1>4, <1>5

LEMMA MiddleIs ==
    ASSUME NEW S, NEW s \in Seq(S), NEW t \in Seq(S), NEW r \in Seq(S), Len(t) # 0
    PROVE  SubSeq(s \o t \o r, Len(s) + 1, Len(s \o t \o r) - Len(r)) = t
<1> DEFINE u == s \o t
<1>1. u \in Seq(S) /\ Len(u) = Len(s) + Len(t) /\ Len(s) \in Nat /\ Len(t) \in Nat
  BY JoinedAre
<1> DEFINE m == Len(s) + 1
           i == Len(u)
<1>2. m \in 1 .. Len(u) /\ i \in 1 .. Len(u) /\ m \in Len(s) + 1 .. Len(s) + Len(t)
      /\ i \in Len(s) + 1 .. Len(s) + Len(t)
  BY <1>1
<1>3. Len(u \o r) - Len(r) = i
  BY <1>1, JoinedAre
<1>4. m - Len(s) = 1 /\ i - Len(s) = Len(t)
  BY <1>1
<1> HIDE DEF m, i
<1>5. SubSeq(s \o t, m, i) = SubSeq(t, m - Len(s), i - Len(s))
  BY <1>2, SubSeqOfConcat2
<1> HIDE DEF u
<1>6. SubSeq(u \o r, m, i) = SubSeq(u, m, i)
  BY <1>1, <1>2, SubSeqOfConcat1
<1>7. SubSeq(t, 1, Len(t)) = t
  BY SubSeqFull
<1>8. SubSeq(u \o r, m, Len(u \o r) - Len(r)) = t
  BY <1>3, <1>4, <1>5, <1>6, <1>7 DEF u
<1>9. QED
  BY <1>8 DEF u, m

LEMMA MiddleBits ==
    \A s, t, r \in Seq({0, 1}) :
      Len(t) # 0 => SubSeq(s \o t \o r, Len(s) + 1, Len(s \o t \o r) - Len(r)) = t
BY MiddleIs

LEMMA KeyIsRead ==
    ASSUME DataInterfaceAssumption, Data \in Seq({0, 1}), Len(Data) \in 1 .. KeyBits - 1 - MinRandom,
           NEW random \in Bits(nRandBits), parts = Key(random)
    PROVE  DecodeDataInPubkey = Data
<1> DEFINE B == {0, 1}
           w == KeyHead \o Data \o random
           l == Len(Data)
           q == KeyBits \div Byte + 1
<1>1. Byte \in Nat \ {0} /\ KeyBits \in Nat /\ KeyBits % Byte = 0 /\ MinRandom \in Nat /\ l \in Nat \ {0}
      /\ l <= KeyBits - 1
  BY DEF DataInterfaceAssumption
<1>2. KeyBits = Byte * (KeyBits \div Byte) /\ KeyBits \div Byte \in Nat
  <2>1. KeyBits = Byte * (KeyBits \div Byte) + (KeyBits % Byte) /\ KeyBits \div Byte \in Int
    BY <1>1, Division
  <2>2. KeyBits \div Byte >= 0
    BY <1>1
  <2>3. QED
    BY <1>1, <2>1, <2>2
<1>3. q \in Nat /\ q * Byte = KeyBits + Byte
  <2> DEFINE e == KeyBits \div Byte
  <2>1. e \in Nat /\ KeyBits = Byte * e
    BY <1>2
  <2> HIDE DEF e
  <2>2. (e + 1) * Byte = Byte * e + Byte
    BY <1>1, <2>1
  <2>3. QED
    BY <2>1, <2>2 DEF e
<1> HIDE DEF q
<1>4. nRandBits \in Nat /\ nRandBits = KeyBits - 1 - l
  BY <1>1 DEF nRandBits
<1>5. random \in Seq(B) /\ Len(random) = nRandBits
  BY <1>4, BitsGrow
<1>6. KeyHead \in Seq(B) /\ Len(KeyHead) = Byte + 1 /\ Data \in Seq(B)
  BY KeyHeadIs
<1>7. KeyHead \o Data \in Seq(B) /\ Len(KeyHead \o Data) = Byte + 1 + l
  BY <1>6, JoinedBits
<1> HIDE DEF l
<1>8. w \in Seq(B) /\ Len(w) = Len(KeyHead \o Data) + Len(random)
  BY <1>5, <1>7, JoinedBits
<1>9. Len(w) = q * Byte
  BY <1>1, <1>3, <1>4, <1>5, <1>7, <1>8
<1>10. w \in Bits(q * Byte)
  <2> HIDE DEF w
  <2>1. w \in [1 .. Len(w) -> B]
    BY <1>8
  <2>2. QED
    BY <1>9, <2>1 DEF Bits
<1>11. DataToBits(parts) = w
  <2>1. parts = BitsToData(w)
    BY DEF Key
  <2> HIDE DEF w
  <2>2. QED
    BY <1>3, <1>10, <2>1, BytesAre
<1>12. SubSeq(w, Byte + 2, Len(w) - nRandBits) = Data
  <2>1. SubSeq(w, Len(KeyHead) + 1, Len(w) - Len(random)) = Data
    <3>1. Len(Data) # 0
      BY <1>1 DEF l
    <3>2. QED
      BY <1>5, <1>6, <3>1, MiddleBits, Zenon
  <2>2. Len(KeyHead) + 1 = Byte + 2
    BY <1>1, <1>6
  <2> HIDE DEF w
  <2>3. QED
    BY <1>5, <2>1, <2>2
<1> HIDE DEF w
<1>13. QED
  BY <1>11, <1>12 DEF DecodeDataInPubkey

LEMMA KeysInit ==
    ASSUME DataInterfaceAssumption, CarrierInit PROVE KeysInv
<1>1. SUFFICES ASSUME carrier = "pubkey" PROVE KeysInv
  BY DEF KeysInv
<1>2. Keyed
  BY <1>1 DEF CarrierInit, Ordered
<1>3. coding = "start" /\ \E len \in 1 .. KeyBits - 1 - MinRandom : Data \in Bits(len)
  BY <1>1, <1>2 DEF Keyed
<1>4. PICK len \in 1 .. KeyBits - 1 - MinRandom : Data \in Bits(len)
  BY <1>3
<1>5. len \in Nat
  BY <1>4 DEF DataInterfaceAssumption
<1>6. Data \in Seq({0, 1}) /\ Len(Data) = len
  BY <1>4, <1>5, BitsGrow
<1>7. QED
  BY <1>3, <1>4, <1>6 DEF KeysInv

LEMMA KeysNext ==
    ASSUME DataInterfaceAssumption, KeysInv, [CarrierNext]_carriers PROVE KeysInv'
<1>1. carrier' = carrier /\ Data' = Data
  BY DEF CarrierNext, EncodeDataInPermutation, EncodeDataInPubkey, EncodeDataInSequenceNr,
         EncodeDataInValues, Guess, Up, Down, Place, LastPart, Decode, DecodeThrows, given, carriers
<1>2. SUFFICES ASSUME carrier = "pubkey" PROVE KeysInv'
  BY <1>1 DEF KeysInv
<1>3. /\ Data \in Seq({0, 1}) /\ Len(Data) \in 1 .. KeyBits - 1 - MinRandom
      /\ coding \in {"start", "encoded", "decoded"}
      /\ coding = "encoded" => \E random \in Bits(nRandBits) : parts = Key(random)
      /\ coding = "decoded" => out = Data
  BY <1>2 DEF KeysInv
<1>4. Bits(nRandBits)' = Bits(nRandBits)
  BY <1>1 DEF nRandBits
<1>5. CASE EncodeDataInPubkey
  <2>1. PICK random \in Bits(nRandBits) :
          parts' = BitsToData([x \in 1 .. Byte |-> IF x = Byte - 1 THEN 1 ELSE 0]
                               \o <<0>> \o Data \o random)
    BY <1>5 DEF EncodeDataInPubkey
  <2>2. parts' = BitsToData(KeyHead \o Data' \o random)
    BY <1>1, <2>1 DEF KeyHead
  <2>3. \E r \in Bits(nRandBits)' : parts' = BitsToData(KeyHead \o Data' \o r)
    BY <1>4, <2>2
  <2>4. coding' \in {"start", "encoded"}
    BY <1>5 DEF EncodeDataInPubkey
  <2>5. QED
    BY <1>1, <1>3, <2>3, <2>4 DEF KeysInv, Key
<1>6. CASE Decode
  <2>1. coding = "encoded" /\ coding' = "decoded" /\ out' = DecodeDataInPubkey
    BY <1>2, <1>6 DEF Decode
  <2>2. DecodeDataInPubkey = Data
    BY <1>3, <2>1, KeyIsRead
  <2>3. QED
    BY <1>1, <1>3, <2>1, <2>2 DEF KeysInv
<1>7. CASE DecodeThrows
  BY <1>2, <1>7 DEF DecodeThrows, Decodable
<1>8. CASE UNCHANGED carriers
  <2>1. coding' = coding /\ parts' = parts /\ out' = out
    BY <1>8 DEF carriers
  <2>2. coding' = "encoded" => \E r \in Bits(nRandBits)' : parts' = BitsToData(KeyHead \o Data' \o r)
    BY <1>1, <1>3, <1>4, <2>1 DEF Key
  <2>3. QED
    BY <1>1, <1>3, <2>1, <2>2 DEF KeysInv, Key
<1>9. ASSUME EncodeDataInPermutation \/ EncodeDataInSequenceNr \/ EncodeDataInValues
             \/ Guess \/ Up \/ Down \/ Place \/ LastPart
      PROVE  KeysInv'
  BY <1>2, <1>3, <1>9 DEF EncodeDataInPermutation, EncodeDataInSequenceNr, EncodeDataInValues,
     Guess, Up, Down, Place, LastPart
<1>10. QED
  BY <1>5, <1>6, <1>7, <1>8, <1>9 DEF CarrierNext

--------------------------------------------------------------------------------
(* Sequence numbers. *)

Number(data) ==
    <<data[1] * Power2[Byte * 3] + data[2] * Power2[Byte * 2] + data[3] * Power2[Byte] + data[4]>>

SequenceInv ==
    carrier = "sequence" =>
      /\ Data \in Bits(4 * Byte)
      /\ coding \in {"start", "encoded", "decoded"}
      /\ coding = "encoded" => parts = Number(BitsToData(Data))
      /\ coding = "decoded" => out = Data

LEMMA DigitFits ==
    ASSUME NEW m \in Nat \ {0}, NEW p \in Nat \ {0}, NEW d \in 0 .. p - 1, NEW r \in 0 .. m - 1
    PROVE  m * d + r \in 0 .. m * p - 1
<1> DEFINE e == p - 1 - d
<1>1. d \in Nat /\ e \in Nat
  OBVIOUS
<1>2. m * p = m * d + m * e + m
  <2>1. p = d + e + 1
    OBVIOUS
  <2> HIDE DEF e
  <2>2. m * (d + e + 1) = m * d + m * e + m
    BY <1>1
  <2>3. QED
    BY <2>1, <2>2
<1> HIDE DEF e
<1>3. m * d \in Nat /\ m * e \in Nat
  BY <1>1
<1>4. QED
  BY <1>2, <1>3

LEMMA Digits ==
    \A p, a, b, c, d \in Nat :
      /\ a * (p * (p * p)) + b * (p * p) + c * p + d = (p * (p * p)) * a + ((p * p) * b + (p * c + d))
      /\ a * (p * (p * p)) + b * (p * p) + c * p + d = (p * p) * (p * a + b) + (p * c + d)
      /\ a * (p * (p * p)) + b * (p * p) + c * p + d = p * (p * (p * a + b) + c) + d
<1>1. TAKE p, a, b, c, d \in Nat
<1>2. a * (p * (p * p)) = p * (p * (p * a)) /\ (p * (p * p)) * a = p * (p * (p * a))
      /\ (p * p) * (p * a) = p * (p * (p * a))
  OBVIOUS
<1>3. b * (p * p) = p * (p * b) /\ (p * p) * b = p * (p * b) /\ c * p = p * c
  OBVIOUS
<1>4. (p * p) * (p * a + b) = (p * p) * (p * a) + (p * p) * b
  OBVIOUS
<1>5. p * (p * (p * a + b) + c) = p * (p * (p * a)) + p * (p * b) + p * c
  <2>1. p * (p * a + b) = p * (p * a) + p * b
    OBVIOUS
  <2>2. p * (p * (p * a) + p * b + c) = p * (p * (p * a)) + p * (p * b) + p * c
    OBVIOUS
  <2>3. QED
    BY <2>1, <2>2
<1>6. QED
  BY <1>2, <1>3, <1>4, <1>5

Quartet(p, a, b, c, d) == a * (p * (p * p)) + b * (p * p) + c * p + d

Quarters(v, p, a, b, c, d) ==
    /\ (v \div (p * (p * p))) % p = a
    /\ (v \div (p * p)) % p = b
    /\ (v \div p) % p = c
    /\ (v \div 1) % p = d

LEMMA DigitsRead ==
    ASSUME NEW p \in Nat \ {0}, NEW a \in 0 .. p - 1, NEW b \in 0 .. p - 1,
           NEW c \in 0 .. p - 1, NEW d \in 0 .. p - 1
    PROVE  Quarters(Quartet(p, a, b, c, d), p, a, b, c, d)
<1> DEFINE v == Quartet(p, a, b, c, d)
<1>0. v = a * (p * (p * p)) + b * (p * p) + c * p + d
  BY DEF Quartet
<1> HIDE DEF v
<1> DEFINE q == p * p
           r == p * q
           s == p * c + d
           t == q * b + s
           y == p * a + b
           z == p * y + c
<1>1. a \in Nat /\ b \in Nat /\ c \in Nat /\ d \in Nat /\ p \in Nat
  OBVIOUS
<1>2. v = r * a + t /\ v = q * y + s /\ v = p * z + d
  BY <1>0, <1>1, Digits
<1>3. q \in Nat \ {0} /\ r \in Nat \ {0} /\ y \in Nat /\ z \in Nat
  <2>1. q \in Nat /\ q # 0
    BY <1>1
  <2> HIDE DEF q
  <2>2. r \in Nat /\ r # 0
    BY <1>1, <2>1
  <2>3. y \in Nat
    BY <1>1
  <2> HIDE DEF y
  <2>4. z \in Nat
    BY <1>1, <2>3
  <2> HIDE DEF r, z
  <2>5. QED
    BY <2>1, <2>2, <2>3, <2>4
<1>4. s \in 0 .. q - 1
  BY DigitFits
<1>5. t \in 0 .. r - 1
  <2>1. q * b + s \in 0 .. q * p - 1
    <3> HIDE DEF q, s
    <3>1. QED
      BY <1>3, <1>4, DigitFits
  <2>2. q * p = r
    <3> HIDE DEF q
    <3>1. QED
      BY <1>1, <1>3
  <2> HIDE DEF q, s, r
  <2>3. QED
    BY <2>1, <2>2
<1> HIDE DEF q, r, s, t
<1>6. v \div r = a
  BY <1>1, <1>2, <1>3, <1>5, QuotientIs
<1>7. y % p = b
  BY <1>1, QuotientIs
<1>8. z % p = c
  <2> HIDE DEF y
  <2>1. QED
    BY <1>1, <1>3, QuotientIs
<1> HIDE DEF y, z
<1>9. v \div q = y
  <2>1. y \in Int /\ s \in 0 .. q - 1 /\ q \in Nat \ {0} /\ v = q * y + s
    BY <1>2, <1>3, <1>4
  <2>2. (q * y + s) \div q = y
    BY <2>1, QuotientIs
  <2>3. QED
    BY <2>1, <2>2
<1>10. v \div p = z /\ v % p = d
  <2>1. z \in Int /\ d \in 0 .. p - 1 /\ p \in Nat \ {0} /\ v = p * z + d
    BY <1>2, <1>3
  <2>2. (p * z + d) \div p = z /\ (p * z + d) % p = d
    BY <2>1, QuotientIs
  <2>3. QED
    BY <2>1, <2>2
<1>11. v \div 1 = v
  <2>1. v \in Int
    <3>1. p * z \in Nat
      BY <1>1, <1>3
    <3>2. QED
      BY <1>1, <1>2, <3>1
  <2>2. QED
    BY <2>1
<1>12. a % p = a
  BY <1>1, WordIs
<1>13. QED
  BY <1>6, <1>7, <1>8, <1>9, <1>10, <1>11, <1>12 DEF r, q, v, Quarters

LEMMA SequenceIsRead ==
    ASSUME DataInterfaceAssumption
    PROVE  \A s \in Bits(4 * Byte) : parts = Number(BitsToData(s)) => DecodeDataInSequenceNr = s
<1> TAKE s \in Bits(4 * Byte)
<1>14. HAVE parts = Number(BitsToData(s))
<1> DEFINE p == Power2[Byte]
           data == BitsToData(s)
<1>1. Byte \in Nat /\ p \in Nat \ {0}
  BY PowerIs DEF DataInterfaceAssumption
<1>2. /\ DataToBits(data) = s /\ data \in Seq(Nat) /\ Len(data) = 4
      /\ \A x \in 1 .. 4 : data[x] < p
  BY BytesAre
<1> HIDE DEF data
<1>0. parts = <<data[1] * Power2[Byte * 3] + data[2] * Power2[Byte * 2]
                  + data[3] * Power2[Byte] + data[4]>>
  BY <1>14 DEF Number, data
<1>3. Power2[Byte * 2] = p * p /\ Power2[Byte * 3] = p * (p * p) /\ Power2[Byte * 1] = p
      /\ Power2[Byte * 0] = 1
  <2>1. /\ Byte + Byte \in Nat /\ Byte * 2 = Byte + Byte /\ Byte * 3 = Byte + (Byte + Byte)
        /\ Byte * 1 = Byte /\ Byte * 0 = 0
    BY <1>1
  <2>2. Power2[Byte + Byte] = Power2[Byte] * Power2[Byte]
    BY <1>1, PowerSum
  <2>3. Power2[Byte + (Byte + Byte)] = Power2[Byte] * Power2[Byte + Byte]
    BY <1>1, <2>1, PowerSum
  <2>4. Power2[0] = 1
    BY PowerIs
  <2>5. QED
    BY <2>1, <2>2, <2>3, <2>4
<1>4. \A x \in 1 .. 4 : data[x] \in 0 .. p - 1
  <2> HIDE DEF p
  <2>1. \A x \in 1 .. 4 : data[x] \in Nat
    <3>1. data \in Seq(Nat) /\ Len(data) = 4
      BY <1>2
    <3>2. \A x \in 1 .. Len(data) : data[x] \in Nat
      BY <3>1, SMTT(30)
    <3>3. QED
      BY <3>1, <3>2
  <2>2. QED
    BY <1>1, <1>2, <2>1
<1> DEFINE v == data[1] * (p * (p * p)) + data[2] * (p * p) + data[3] * p + data[4]
           read == [x \in 1 .. 4 |-> (parts[1] \div Power2[Byte * (4 - x)]) % Power2[Byte]]
<1>5. parts[1] = v
  <2>1. parts[1] = data[1] * Power2[Byte * 3] + data[2] * Power2[Byte * 2]
                     + data[3] * Power2[Byte] + data[4]
    BY <1>0
  <2>2. QED
    BY <1>3, <2>1
<1>6. /\ (v \div (p * (p * p))) % p = data[1] /\ (v \div (p * p)) % p = data[2]
      /\ (v \div p) % p = data[3] /\ (v \div 1) % p = data[4]
  <2> DEFINE a == data[1]
             b == data[2]
             c == data[3]
             d == data[4]
  <2>1. a \in 0 .. p - 1 /\ b \in 0 .. p - 1 /\ c \in 0 .. p - 1 /\ d \in 0 .. p - 1
    BY <1>4
  <2>2. v = Quartet(p, a, b, c, d)
    BY DEF Quartet
  <2> HIDE DEF a, b, c, d, v, p
  <2>3. Quarters(v, p, a, b, c, d)
    BY <1>1, <2>1, <2>2, DigitsRead
  <2>4. QED
    BY <2>3 DEF a, b, c, d, Quarters
<1> HIDE DEF v
<1>7. /\ (parts[1] \div Power2[Byte * 3]) % p = data[1]
      /\ (parts[1] \div Power2[Byte * 2]) % p = data[2]
      /\ (parts[1] \div Power2[Byte * 1]) % p = data[3]
      /\ (parts[1] \div Power2[Byte * 0]) % p = data[4]
  BY <1>3, <1>5, <1>6
<1>8. \A x \in 1 .. 4 : read[x] = data[x]
  <2>1. 4 - 1 = 3 /\ 4 - 2 = 2 /\ 4 - 3 = 1 /\ 4 - 4 = 0
    OBVIOUS
  <2>2. read[1] = data[1] /\ read[2] = data[2] /\ read[3] = data[3] /\ read[4] = data[4]
    BY <1>7, <2>1
  <2> HIDE DEF read
  <2>3. \A x \in 1 .. 4 : x = 1 \/ x = 2 \/ x = 3 \/ x = 4
    OBVIOUS
  <2>4. QED
    BY <2>2, <2>3
<1>9. read = data
  <2>1. DOMAIN read = 1 .. 4 /\ read = [x \in 1 .. 4 |-> read[x]]
    OBVIOUS
  <2> HIDE DEF read
  <2>2. data = [x \in 1 .. 4 |-> data[x]]
    BY <1>2
  <2>3. QED
    BY <1>8, <2>1, <2>2
<1>10. DecodeDataInSequenceNr = DataToBits(read)
  BY DEF DecodeDataInSequenceNr
<1>11. QED
  BY <1>2, <1>9, <1>10

LEMMA SequenceInit ==
    ASSUME CarrierInit PROVE SequenceInv
<1>1. SUFFICES ASSUME carrier = "sequence" PROVE SequenceInv
  BY DEF SequenceInv
<1>2. Keyed
  BY <1>1 DEF CarrierInit, Ordered
<1>3. QED
  BY <1>1, <1>2 DEF Keyed, SequenceInv

LEMMA SequenceNext ==
    ASSUME DataInterfaceAssumption, SequenceInv, [CarrierNext]_carriers PROVE SequenceInv'
<1>1. carrier' = carrier /\ Data' = Data
  BY DEF CarrierNext, EncodeDataInPermutation, EncodeDataInPubkey, EncodeDataInSequenceNr,
         EncodeDataInValues, Guess, Up, Down, Place, LastPart, Decode, DecodeThrows, given, carriers
<1>2. SUFFICES ASSUME carrier = "sequence" PROVE SequenceInv'
  BY <1>1 DEF SequenceInv
<1>3. /\ Data \in Bits(4 * Byte) /\ coding \in {"start", "encoded", "decoded"}
      /\ coding = "decoded" => out = Data
  BY <1>2 DEF SequenceInv
<1>4. Bits(4 * Byte)' = Bits(4 * Byte) /\ Number(BitsToData(Data))' = Number(BitsToData(Data))
  BY <1>1 DEF Bits
<1> DEFINE Written == parts = Number(BitsToData(Data))
<1>5. coding = "encoded" => Written
  BY <1>2 DEF SequenceInv
<1>6. CASE EncodeDataInSequenceNr
  <2>1. parts' = Number(BitsToData(Data)) /\ coding' = "encoded"
    BY <1>6 DEF EncodeDataInSequenceNr, Number
  <2>2. QED
    BY <1>1, <1>3, <1>4, <2>1 DEF SequenceInv
<1>7. CASE Decode
  <2>1. coding = "encoded" /\ coding' = "decoded" /\ out' = DecodeDataInSequenceNr
    BY <1>2, <1>7 DEF Decode
  <2>4. Data \in Bits(4 * Byte) /\ parts = Number(BitsToData(Data))
    BY <1>3, <1>5, <2>1
  <2>2. DecodeDataInSequenceNr = Data
    BY <2>4, SequenceIsRead, Zenon
  <2>3. QED
    BY <1>1, <1>4, <2>1, <2>2 DEF SequenceInv
<1>8. CASE DecodeThrows
  BY <1>2, <1>8 DEF DecodeThrows, Decodable
<1>9. CASE UNCHANGED carriers
  <2>1. coding' = coding /\ parts' = parts /\ out' = out
    BY <1>9 DEF carriers
  <2>2. QED
    BY <1>1, <1>3, <1>4, <1>5, <2>1 DEF SequenceInv
<1>10. ASSUME EncodeDataInPermutation \/ EncodeDataInPubkey \/ EncodeDataInValues
              \/ Guess \/ Up \/ Down \/ Place \/ LastPart
       PROVE  SequenceInv'
  <2>1. ~ EncodeDataInPermutation /\ ~ EncodeDataInPubkey /\ ~ EncodeDataInValues
    BY <1>2 DEF EncodeDataInPermutation, EncodeDataInPubkey, EncodeDataInValues
  <2>2. ~ Guess /\ ~ Up /\ ~ Down /\ ~ Place /\ ~ LastPart
    <3>1. coding # "part" /\ coding # "up" /\ coding # "down"
      BY <1>3
    <3>2. QED
      BY <3>1, Zenon DEF Guess, Up, Down, Place, LastPart
  <2>3. QED
    BY <1>10, <2>1, <2>2
<1>11. QED
  BY <1>6, <1>7, <1>8, <1>9, <1>10 DEF CarrierNext

--------------------------------------------------------------------------------
(* Orders: the number of an order is written digit by digit, each the place of an  *)
(* element among those that are left.                                              *)

LEMMA FactorialIs ==
    /\ Factorial[0] = 1 /\ Factorial[1] = 1
    /\ \A e \in Nat : Factorial[e] \in Nat \ {0} /\ Factorial[e + 1] = (e + 1) * Factorial[e]
<1> DEFINE P(g) == g = [e \in Nat |-> IF e < 2 THEN 1 ELSE e * g[e - 1]]
           V == Nat \ {0}
<1>1. \E g \in [Nat -> V] : P(g)
  <2> DEFINE step == [z \in Nat |-> [v \in V |-> IF z = 0 THEN 1 ELSE z * v]]
  <2>1. \A z \in Nat : \A v \in V : step[z][v] \in V /\ (z # 0 => step[z][v] = z * v)
    <3>1. ASSUME NEW z \in Nat, NEW v \in V PROVE z # 0 => z * v \in V
      BY <3>1
    <3>2. QED
      BY <3>1
  <2> HIDE DEF step
  <2>2. 1 \in V /\ \A z \in Nat : \A v \in V : step[z][v] \in V
    BY <2>1
  <2>3. PICK f \in [Nat -> V] : \A m \in Nat : Runs(f, step, 1, m)
    <3> HIDE DEF V
    <3>1. QED
      BY <2>2, Recursion
  <2>4. ASSUME NEW e \in Nat PROVE f[e] = IF e < 2 THEN 1 ELSE e * f[e - 1]
    <3>1. f[0] = 1
      BY <2>3 DEF Runs
    <3>2. ASSUME e # 0 PROVE f[e] = e * f[e - 1]
      <4>1. e \in 1 .. e /\ e - 1 \in Nat
        BY <3>2
      <4>2. f[e] = step[e][f[e - 1]] /\ f[e - 1] \in V
        BY <2>3, <4>1 DEF Runs
      <4>3. QED
        BY <2>1, <3>2, <4>2
    <3>3. CASE e = 0
      BY <3>1, <3>3
    <3>4. CASE e = 1
      <4>1. f[1] = 1 * f[1 - 1] /\ 1 - 1 = 0
        BY <3>2, <3>4
      <4>2. QED
        BY <3>1, <3>4, <4>1
    <3>5. CASE e # 0 /\ e # 1
      BY <3>2, <3>5
    <3>6. QED
      BY <3>3, <3>4, <3>5
  <2>5. P(f)
    BY <2>3, <2>4
  <2>6. QED
    BY <2>5
<1>3. P(Factorial)
  BY <1>1 DEF Factorial
<1>4. Factorial[0] = 1 /\ Factorial[1] = 1
  BY <1>3
<1>5. ASSUME NEW e \in Nat PROVE Factorial[e + 1] = (e + 1) * Factorial[e]
  <2>1. e + 1 \in Nat /\ (e + 1) - 1 = e
    OBVIOUS
  <2>2. Factorial[e + 1] = IF e + 1 < 2 THEN 1 ELSE (e + 1) * Factorial[(e + 1) - 1]
    BY <1>3, <2>1
  <2>3. CASE e = 0
    BY <1>4, <2>3
  <2>4. CASE e # 0
    BY <2>1, <2>2, <2>4
  <2>5. QED
    BY <2>3, <2>4
<1>6. ASSUME NEW e \in Nat PROVE Factorial[e] \in V
  <2> DEFINE T == {y \in Nat : Factorial[y] \in V}
  <2>1. 0 \in T
    BY <1>4
  <2>2. ASSUME NEW y \in Nat, y \in T PROVE y + 1 \in T
    <3>1. Factorial[y + 1] = (y + 1) * Factorial[y] /\ Factorial[y] \in Nat /\ Factorial[y] # 0
      BY <1>5, <2>2
    <3> DEFINE a == Factorial[y]
    <3> HIDE DEF a
    <3>2. (y + 1) * a \in V
      <4>1. a \in Nat /\ a # 0
        BY <3>1 DEF a
      <4>2. QED
        BY <4>1
    <3>3. QED
      BY <3>1, <3>2 DEF a
  <2>3. \A y \in Nat : y \in T
    <3> HIDE DEF T
    <3>1. QED
      BY <2>1, <2>2, AllNumbers
  <2>4. QED
    BY <2>3
<1>7. QED
  BY <1>4, <1>5, <1>6

\* One element is taken from those that are left, and the states before and behind it.
Take(m, s, i) ==
    LET x == s.idx \div Factorial[m - i]
    IN [idx |-> s.idx - x * Factorial[m - i],
        buf |-> RemoveAt(s.buf, x + 1),
        perm |-> Append(s.perm, s.buf[x + 1])]

Taken(g, m, base, s) == g[s] = IF s = {} THEN base ELSE Take(m, g[s \ {Max(s)}], Max(s))
AllTaken(g, m, base, S) == \A s \in SUBSET S : Taken(g, m, base, s)

LEMMA TakenAgree ==
    ASSUME NEW m, NEW base, NEW S, IsFiniteSet(S),
           \A s \in SUBSET S : s # {} => Max(s) \in s,
           NEW g, NEW h, AllTaken(g, m, base, S), AllTaken(h, m, base, S)
    PROVE  g[S] = h[S]
<1> DEFINE Bad == {s \in SUBSET S : g[s] # h[s]}
<1>1. SUFFICES ASSUME Bad # {} PROVE FALSE
  OBVIOUS
<1>2. PICK s \in Bad : \A t \in Bad : t \subseteq s => t = s
  <2>1. Bad \subseteq SUBSET S
    OBVIOUS
  <2> HIDE DEF Bad
  <2>2. QED
    BY <1>1, <2>1, SmallestSet
<1>3. Taken(g, m, base, s) /\ Taken(h, m, base, s)
  BY <1>2 DEF AllTaken
<1>4. s # {}
  BY <1>2, <1>3 DEF Taken
<1> DEFINE t == s \ {Max(s)}
<1>5. Max(s) \in s /\ t \in SUBSET S /\ t \subseteq s /\ t # s
  BY <1>2, <1>4
<1>6. g[t] = h[t]
  BY <1>2, <1>5
<1>7. QED
  BY <1>2, <1>3, <1>4, <1>5, <1>6 DEF Taken

LEMMA TakenExist ==
    ASSUME NEW m \in Nat, NEW base
    PROVE  \E g : AllTaken(g, m, base, 1 .. m)
<1> DEFINE I == 1 .. m
           All(g, s) == AllTaken(g, m, base, s)
           Bad == {s \in SUBSET I : ~ \E g : All(g, s)}
<1>0. IsFiniteSet(I)
  BY FS_Interval
<1>1. SUFFICES ASSUME Bad # {} PROVE FALSE
  OBVIOUS
<1>2. PICK s \in Bad : \A t \in Bad : t \subseteq s => t = s
  <2>1. Bad \subseteq SUBSET I
    OBVIOUS
  <2> HIDE DEF Bad, I
  <2>2. QED
    BY <1>0, <1>1, <2>1, SmallestSet
<1> DEFINE G(t) == CHOOSE g : All(g, t)
           h == [t \in SUBSET s |-> IF t = {} THEN base
                                    ELSE Take(m, G(t \ {Max(t)})[t \ {Max(t)}], Max(t))]
<1>3. \A t \in SUBSET s : t # s => All(G(t), t)
  BY <1>2
<1>8. \A t \in SUBSET s : t \in SUBSET I /\ (t # {} => Max(t) \in t)
  <2>1. SUFFICES ASSUME NEW t \in SUBSET s PROVE t \in SUBSET I /\ (t # {} => Max(t) \in t)
    OBVIOUS
  <2>2. t \in SUBSET (1 .. m)
    BY <1>2
  <2>3. QED
    BY <2>2, GreatestIs
<1>4. ASSUME NEW t \in SUBSET s, t # s PROVE h[t] = G(t)[t]
  <2>1. All(G(t), t)
    BY <1>3, <1>4
  <2>2. CASE t = {}
    BY <2>1, <2>2 DEF AllTaken, Taken
  <2>3. CASE t # {}
    <3> DEFINE u == t \ {Max(t)}
    <3>1. Max(t) \in t /\ u \in SUBSET s /\ u # s /\ u \in SUBSET t /\ u \in SUBSET I
      BY <1>4, <1>8, <2>3
    <3>2. All(G(u), u)
      BY <1>3, <3>1
    <3>3. All(G(t), u)
      BY <2>1, <3>1 DEF AllTaken
    <3>4. IsFiniteSet(u) /\ \A r \in SUBSET u : r # {} => Max(r) \in r
      <4>1. \A r \in SUBSET u : r \in SUBSET s
        BY <3>1
      <4>2. QED
        BY <1>0, <1>8, <3>1, <4>1, FS_Subset
    <3> HIDE DEF G, u
    <3>5. G(t)[u] = G(u)[u]
      BY <3>2, <3>3, <3>4, TakenAgree
    <3>6. G(t)[t] = Take(m, G(t)[u], Max(t))
      BY <2>1, <2>3 DEF AllTaken, Taken, u
    <3>7. h[t] = Take(m, G(u)[u], Max(t))
      BY <2>3 DEF u
    <3>8. QED
      BY <3>5, <3>6, <3>7
  <2>4. QED
    BY <2>2, <2>3
<1>5. ASSUME NEW t \in SUBSET s PROVE Taken(h, m, base, t)
  <2>1. CASE t = {}
    BY <2>1 DEF Taken
  <2>2. CASE t # {}
    <3> DEFINE u == t \ {Max(t)}
    <3>1. Max(t) \in t /\ u \in SUBSET s /\ u # s
      BY <1>8, <2>2
    <3>2. h[u] = G(u)[u]
      BY <1>4, <3>1
    <3>3. h[t] = Take(m, G(u)[u], Max(t))
      BY <2>2
    <3> HIDE DEF h, G
    <3>4. QED
      BY <2>2, <3>2, <3>3 DEF Taken
  <2>3. QED
    BY <2>1, <2>2
<1> HIDE DEF h
<1>6. All(h, s)
  BY <1>5 DEF AllTaken
<1>7. QED
  BY <1>2, <1>6

Takes(t, m, x) ==
    /\ t[0] = [idx |-> x, buf |-> [y \in 1 .. m |-> y - 1], perm |-> <<>>]
    /\ \A z \in 1 .. m : t[z] = Take(m, t[z - 1], z)

LEMMA TakesExist ==
    ASSUME NEW m \in Nat, NEW x
    PROVE  \E t : Takes(t, m, x) /\ IntegerToPermutation(x, m) = t[m].perm
<1> DEFINE base == [idx |-> x, buf |-> [y \in 1 .. m |-> y - 1], perm |-> <<>>]
           I == [i \in 1 .. m |-> i]
           P(g) == g = [s \in SUBSET (1 .. m) |-> IF s = {} THEN base
                          ELSE Take(m, g[s \ {Max(s)}], I[Max(s)])]
           f == CHOOSE g : P(g)
<1>1. IntegerToPermutation(x, m) = f[1 .. m].perm
  BY DEF IntegerToPermutation, FoldLeft, MapThenFoldSet, Take
<1>2. \A s \in SUBSET (1 .. m) : s # {} =>
        Max(s) \in s /\ I[Max(s)] = Max(s) /\ s \ {Max(s)} \in SUBSET (1 .. m)
  BY GreatestIs
<1> HIDE DEF base, I
<1>3. \E g : P(g)
  <2>1. PICK h : AllTaken(h, m, base, 1 .. m)
    BY TakenExist
  <2> DEFINE g == [s \in SUBSET (1 .. m) |-> h[s]]
  <2>2. ASSUME NEW s \in SUBSET (1 .. m)
        PROVE  h[s] = IF s = {} THEN base ELSE Take(m, g[s \ {Max(s)}], I[Max(s)])
    BY <1>2, <2>1 DEF AllTaken, Taken
  <2>3. P(g)
    BY <2>2
  <2>4. QED
    BY <2>3
<1>4. P(f)
  BY <1>3
<1> HIDE DEF f
<1>5. f[{}] = base
  <2>1. {} \in SUBSET (1 .. m)
    OBVIOUS
  <2>2. QED
    BY <1>4, <2>1
<1>6. ASSUME NEW z \in 1 .. m PROVE f[1 .. z] = Take(m, f[1 .. z - 1], z)
  <2>1. z \in Nat /\ z # 0 /\ 1 .. z # {} /\ 1 .. z \in SUBSET (1 .. m)
    <3>1. z \in Nat /\ z >= 1 /\ z <= m /\ m \in Nat
      OBVIOUS
    <3>2. 1 \in 1 .. z
      BY <3>1
    <3>3. 1 .. z \subseteq 1 .. m
      BY <3>1
    <3>4. QED
      BY <3>1, <3>2, <3>3
  <2>2. Max(1 .. z) = z /\ (1 .. z) \ {Max(1 .. z)} = 1 .. z - 1
    BY <2>1, GreatestIs
  <2>3. I[z] = z
    BY DEF I
  <2>4. QED
    BY <1>4, <2>1, <2>2, <2>3
<1> DEFINE t == [z \in 0 .. m |-> f[1 .. z]]
<1>7. t[0] = base /\ t[m] = f[1 .. m]
  <2>1. 1 .. 0 = {} /\ 0 \in 0 .. m /\ m \in 0 .. m
    OBVIOUS
  <2>2. QED
    BY <1>5, <2>1
<1>8. \A z \in 1 .. m : t[z] = Take(m, t[z - 1], z)
  <2>1. \A z \in 1 .. m : z \in 0 .. m /\ z - 1 \in 0 .. m
    OBVIOUS
  <2>2. QED
    BY <1>6, <2>1
<1> HIDE DEF t
<1>9. Takes(t, m, x)
  BY <1>7, <1>8 DEF Takes, base
<1>10. QED
  BY <1>1, <1>7, <1>9

Ascending(s) == \A y, z \in 1 .. Len(s) : y < z => s[y] < s[z]

LEMMA JoinedNumbers ==
    \A p, q \in Seq(Nat) :
      /\ p \o q \in Seq(Nat) /\ Len(p \o q) = Len(p) + Len(q)
      /\ \A y \in 1 .. Len(p) : (p \o q)[y] = p[y]
      /\ \A y \in 1 .. Len(q) : (p \o q)[Len(p) + y] = q[y]
OBVIOUS

LEMMA RemovedAt ==
    ASSUME NEW b \in Seq(Nat), NEW c \in 1 .. Len(b)
    PROVE  /\ RemoveAt(b, c) \in Seq(Nat) /\ Len(RemoveAt(b, c)) = Len(b) - 1
           /\ \A y \in 1 .. Len(b) - 1 : RemoveAt(b, c)[y] = IF y < c THEN b[y] ELSE b[y + 1]
<1> DEFINE l == Len(b)
           p == SubSeq(b, 1, c - 1)
           q == SubSeq(b, c + 1, l)
<1>1. /\ p \in Seq(Nat) /\ Len(p) = c - 1 /\ \A y \in 1 .. c - 1 : p[y] = b[y]
      /\ l \in Nat /\ c \in Nat /\ c >= 1 /\ c <= l
  OBVIOUS
<1>2. q \in Seq(Nat) /\ Len(q) = l - c /\ \A y \in 1 .. l - c : q[y] = b[c + y]
  OBVIOUS
<1>3. RemoveAt(b, c) = p \o q
  BY DEF RemoveAt
<1> HIDE DEF p, q, l
<1>4. /\ p \o q \in Seq(Nat) /\ Len(p \o q) = (c - 1) + (l - c)
      /\ \A y \in 1 .. c - 1 : (p \o q)[y] = p[y]
      /\ \A y \in 1 .. l - c : (p \o q)[(c - 1) + y] = q[y]
  <2>1. /\ p \o q \in Seq(Nat) /\ Len(p \o q) = Len(p) + Len(q)
        /\ \A y \in 1 .. Len(p) : (p \o q)[y] = p[y]
        /\ \A y \in 1 .. Len(q) : (p \o q)[Len(p) + y] = q[y]
    BY <1>1, <1>2, JoinedNumbers, Zenon
  <2>2. QED
    BY <1>1, <1>2, <2>1
<1>5. ASSUME NEW y \in 1 .. l - 1
      PROVE  (p \o q)[y] = IF y < c THEN b[y] ELSE b[y + 1]
  <2>1. CASE y < c
    <3>1. y \in 1 .. c - 1
      BY <1>1, <2>1
    <3>2. QED
      BY <1>1, <1>4, <2>1, <3>1
  <2>2. CASE ~ (y < c)
    <3> DEFINE e == y - (c - 1)
    <3>1. e \in 1 .. l - c /\ (c - 1) + e = y /\ c + e = y + 1
      BY <1>1, <2>2
    <3> HIDE DEF e
    <3>2. (p \o q)[(c - 1) + e] = q[e] /\ q[e] = b[c + e]
      BY <1>2, <1>4, <3>1
    <3>3. QED
      BY <2>2, <3>1, <3>2
  <2>3. QED
    BY <2>1, <2>2
<1>6. Len(p \o q) = l - 1
  BY <1>1, <1>4
<1>7. QED
  BY <1>3, <1>4, <1>5, <1>6 DEF l

\* What is left in front of the element that is taken, and what is behind it, stay in order.
LEMMA StillAscending ==
    ASSUME NEW b \in Seq(Nat), Ascending(b), NEW x \in 0 .. Len(b) - 1
    PROVE  /\ Ascending(RemoveAt(b, x + 1))
           /\ \A y \in 1 .. Len(b) - 1 :
                /\ RemoveAt(b, x + 1)[y] = IF y <= x THEN b[y] ELSE b[y + 1]
                /\ b[x + 1] > RemoveAt(b, x + 1)[y] <=> y <= x
<1> DEFINE l == Len(b)
           r == RemoveAt(b, x + 1)
<1>1. /\ l \in Nat /\ x \in Nat /\ x + 1 \in 1 .. l /\ x < l
      /\ \A y \in 1 .. l : b[y] \in Nat
  OBVIOUS
<1>2. r \in Seq(Nat) /\ Len(r) = l - 1
      /\ \A y \in 1 .. l - 1 : r[y] = IF y < x + 1 THEN b[y] ELSE b[y + 1]
  BY <1>1, RemovedAt
<1>3. \A y, z \in 1 .. l : y < z => b[y] < b[z]
  BY DEF Ascending
<1> HIDE DEF l, r
<1>4. \A y \in 1 .. l - 1 : r[y] = IF y <= x THEN b[y] ELSE b[y + 1]
  BY <1>1, <1>2
<1>5. ASSUME NEW y \in 1 .. l - 1, NEW z \in 1 .. l - 1, y < z PROVE r[y] < r[z]
  <2>1. y \in 1 .. l /\ z \in 1 .. l /\ y + 1 \in 1 .. l /\ z + 1 \in 1 .. l
        /\ y < z + 1 /\ y + 1 < z + 1 /\ (z <= x => y <= x)
    BY <1>1, <1>5
  <2>2. CASE z <= x
    BY <1>3, <1>4, <1>5, <2>1, <2>2
  <2>3. CASE ~ (z <= x)
    <3>1. r[z] = b[z + 1]
      BY <1>4, <2>3
    <3>2. r[y] = b[y] \/ r[y] = b[y + 1]
      BY <1>4
    <3>3. b[y] < b[z + 1] /\ b[y + 1] < b[z + 1]
      BY <1>3, <2>1
    <3>4. QED
      BY <3>1, <3>2, <3>3
  <2>4. QED
    BY <2>2, <2>3
<1>6. ASSUME NEW y \in 1 .. l - 1 PROVE b[x + 1] > r[y] <=> y <= x
  <2>1. y \in 1 .. l /\ y + 1 \in 1 .. l /\ x + 1 \in 1 .. l
    BY <1>1
  <2>2. CASE y <= x
    <3>1. r[y] = b[y] /\ y < x + 1
      BY <1>1, <1>4, <2>2
    <3>2. b[y] < b[x + 1] /\ b[y] \in Nat /\ b[x + 1] \in Nat
      BY <1>1, <1>3, <2>1, <3>1
    <3>3. QED
      BY <2>2, <3>1, <3>2
  <2>3. CASE ~ (y <= x)
    <3>1. r[y] = b[y + 1] /\ x + 1 < y + 1
      BY <1>1, <1>4, <2>3
    <3>2. b[x + 1] < b[y + 1] /\ b[y + 1] \in Nat /\ b[x + 1] \in Nat
      BY <1>1, <1>3, <2>1, <3>1
    <3>3. QED
      BY <2>3, <3>1, <3>2
  <2>4. QED
    BY <2>2, <2>3
<1>7. Ascending(r)
  BY <1>2, <1>5 DEF Ascending
<1>8. QED
  BY <1>4, <1>6, <1>7 DEF l, r

\* The state when c elements are left to be taken of m.
Left(s, m, c) ==
    /\ s.idx \in Nat /\ s.idx < Factorial[c]
    /\ s.buf \in Seq(Nat) /\ Len(s.buf) = c /\ Ascending(s.buf)
    /\ s.perm \in Seq(Nat) /\ Len(s.perm) = m - c

LEMMA TakeStep ==
    ASSUME NEW m \in Nat, NEW z \in 1 .. m, NEW s, Left(s, m, m - z + 1)
    PROVE  LET x == s.idx \div Factorial[m - z]
               t == Take(m, s, z)
           IN /\ x \in 0 .. m - z
              /\ Left(t, m, m - z)
              /\ s.idx = t.idx + x * Factorial[m - z]
              /\ s.buf[x + 1] \in Nat
              /\ t.perm = Append(s.perm, s.buf[x + 1])
              /\ \A y \in 1 .. m - z :
                   /\ t.buf[y] = IF y <= x THEN s.buf[y] ELSE s.buf[y + 1]
                   /\ s.buf[x + 1] > t.buf[y] <=> y <= x
<1> DEFINE c == m - z
           F == Factorial[c]
           b == s.buf
           i == s.idx
           x == i \div F
           t == Take(m, s, z)
<1>1. c \in Nat /\ m - z + 1 = c + 1 /\ m - (c + 1) = z - 1 /\ m - c = z
  OBVIOUS
<1>2. Factorial[c + 1] = (c + 1) * F /\ F \in Nat \ {0}
  BY <1>1, FactorialIs
<1>3. /\ i \in Nat /\ i < Factorial[c + 1]
      /\ b \in Seq(Nat) /\ Len(b) = c + 1 /\ Ascending(b)
      /\ s.perm \in Seq(Nat) /\ Len(s.perm) = z - 1
  BY <1>1 DEF Left
<1>4. /\ t.idx = i - x * F /\ t.buf = RemoveAt(b, x + 1)
      /\ t.perm = Append(s.perm, b[x + 1])
  BY DEF Take
<1> HIDE DEF F, c, i, b
<1>5. x \in Int /\ i % F \in 0 .. F - 1 /\ i = F * x + (i % F)
  <2>1. i \in Int /\ F \in Nat \ {0}
    BY <1>2, <1>3
  <2>2. QED
    BY <2>1, Division
<1> HIDE DEF x
<1>6. x \in 0 .. c
  <2>1. CASE x < 0
    <3>1. F * x <= F * (-1)
      BY <1>2, <1>5, <2>1
    <3>2. F * (-1) = -F /\ F * x \in Int
      BY <1>2, <1>5
    <3> DEFINE p == F * x
               r == i % F
    <3>3. p <= -F /\ p \in Int /\ r \in 0 .. F - 1 /\ i = p + r /\ i \in Nat /\ F \in Nat
      BY <1>2, <1>3, <1>5, <3>1, <3>2
    <3> HIDE DEF p, r
    <3>4. QED
      BY <3>3
  <2>2. CASE x > c
    <3>1. F * x >= F * (c + 1)
      BY <1>1, <1>2, <1>5, <2>2
    <3>2. F * (c + 1) = (c + 1) * F /\ F * x \in Int /\ (c + 1) * F \in Int
      BY <1>1, <1>2, <1>5
    <3>3. QED
      BY <1>2, <1>3, <1>5, <3>1, <3>2
  <2>3. QED
    BY <1>1, <1>5, <2>1, <2>2
<1>7. t.idx = i % F /\ i = t.idx + x * F
  <2>1. F * x = x * F /\ x * F \in Int
    BY <1>2, <1>5
  <2>2. QED
    BY <1>2, <1>3, <1>4, <1>5, <2>1, SMTT(30)
<1>8. t.idx \in Nat /\ t.idx < F
  BY <1>2, <1>5, <1>7
<1>9. x \in 0 .. Len(b) - 1 /\ x + 1 \in 1 .. Len(b) /\ Len(b) - 1 = c
  BY <1>1, <1>3, <1>6
<1>10. RemoveAt(b, x + 1) \in Seq(Nat) /\ Len(RemoveAt(b, x + 1)) = c
  BY <1>3, <1>9, RemovedAt
<1>11. /\ Ascending(RemoveAt(b, x + 1))
       /\ \A y \in 1 .. c :
                /\ RemoveAt(b, x + 1)[y] = IF y <= x THEN b[y] ELSE b[y + 1]
                /\ b[x + 1] > RemoveAt(b, x + 1)[y] <=> y <= x
  BY <1>3, <1>9, StillAscending
<1>12. b[x + 1] \in Nat
  BY <1>3, <1>9
<1>13. t.perm \in Seq(Nat) /\ Len(t.perm) = m - c
  <2> DEFINE p == s.perm
             v == b[x + 1]
  <2>1. p \in Seq(Nat) /\ Len(p) = z - 1 /\ v \in Nat /\ t.perm = Append(p, v)
    BY <1>3, <1>4, <1>12
  <2> HIDE DEF p, v, t
  <2>2. Append(p, v) \in Seq(Nat) /\ Len(Append(p, v)) = z
    BY <2>1
  <2>3. QED
    BY <1>1, <2>1, <2>2
<1> HIDE DEF t
<1>14. Left(t, m, c)
  BY <1>4, <1>8, <1>10, <1>11, <1>13 DEF Left, F
<1>15. QED
  BY <1>4, <1>6, <1>7, <1>11, <1>12, <1>14 DEF t, x, F, c, i, b

\* The digit that takes element z, and that element.
Digit(t, m, z) == t[z - 1].idx \div Factorial[m - z]
Element(t, m, z) == t[z - 1].buf[Digit(t, m, z) + 1]

TakeHolds(t, m, z) ==
    LET x == Digit(t, m, z)
    IN /\ x \in 0 .. m - z
       /\ t[z - 1].idx \in Nat /\ t[z].idx \in Nat
       /\ t[z - 1].idx = t[z].idx + x * Factorial[m - z]
       /\ Element(t, m, z) \in Nat
       /\ t[z].perm = Append(t[z - 1].perm, Element(t, m, z))
       /\ \A y \in 1 .. m - z :
            /\ t[z].buf[y] = IF y <= x THEN t[z - 1].buf[y] ELSE t[z - 1].buf[y + 1]
            /\ Element(t, m, z) > t[z].buf[y] <=> y <= x

LEMMA LeftAlways ==
    ASSUME NEW m \in Nat, NEW x \in Nat, x < Factorial[m], NEW t, Takes(t, m, x)
    PROVE  \A z \in 0 .. m : Left(t[z], m, m - z)
<1> DEFINE Bad == {z \in 0 .. m : ~ Left(t[z], m, m - z)}
<1>1. SUFFICES ASSUME Bad # {} PROVE FALSE
  OBVIOUS
<1>2. PICK z \in Bad : \A y \in Bad : z <= y
  <2>1. Bad \subseteq Nat
    OBVIOUS
  <2> HIDE DEF Bad
  <2>2. QED
    BY <1>1, <2>1, SmallestNumber
<1>3. Left(t[0], m, m - 0)
  <2> DEFINE b == [y \in 1 .. m |-> y - 1]
  <2>1. t[0].idx = x /\ t[0].buf = b /\ t[0].perm = <<>>
    BY DEF Takes
  <2>2. b \in Seq(Nat) /\ Len(b) = m /\ \A y \in 1 .. m : b[y] = y - 1
    OBVIOUS
  <2> HIDE DEF b
  <2>3. Ascending(b)
    <3>1. SUFFICES ASSUME NEW y \in 1 .. Len(b), NEW w \in 1 .. Len(b), y < w PROVE b[y] < b[w]
      BY DEF Ascending
    <3>2. y \in 1 .. m /\ w \in 1 .. m
      BY <2>2
    <3>3. QED
      BY <2>2, <3>1, <3>2
  <2>4. m - 0 = m /\ m - m = 0
    OBVIOUS
  <2>5. QED
    BY <2>1, <2>2, <2>3, <2>4 DEF Left
<1>4. z \in 1 .. m
  <2>1. z \in 0 .. m /\ z # 0
    BY <1>2, <1>3
  <2>2. QED
    BY <2>1
<1>5. z - 1 \in 0 .. m /\ ~ (z <= z - 1) /\ m - (z - 1) = m - z + 1
  BY <1>4
<1>6. Left(t[z - 1], m, m - z + 1)
  <2>1. Left(t[z - 1], m, m - (z - 1))
    BY <1>2, <1>5
  <2>2. QED
    BY <1>5, <2>1
<1> DEFINE s == t[z - 1]
<1>7. Left(Take(m, s, z), m, m - z)
  <2>1. Left(s, m, m - z + 1)
    BY <1>6
  <2> HIDE DEF s
  <2>2. QED
    BY <1>4, <2>1, TakeStep
<1>8. t[z] = Take(m, s, z)
  BY <1>4 DEF Takes
<1>9. QED
  BY <1>2, <1>7, <1>8

LEMMA TakeHeld ==
    ASSUME NEW m \in Nat, NEW x \in Nat, x < Factorial[m], NEW t, Takes(t, m, x)
    PROVE  \A z \in 1 .. m : TakeHolds(t, m, z)
<1>1. SUFFICES ASSUME NEW z \in 1 .. m PROVE TakeHolds(t, m, z)
  OBVIOUS
<1> DEFINE s == t[z - 1]
           r == t[z]
<1>2. z - 1 \in 0 .. m /\ z \in 0 .. m /\ m - (z - 1) = m - z + 1
  OBVIOUS
<1>3. Left(s, m, m - z + 1) /\ Left(r, m, m - z)
  <2>1. Left(t[z - 1], m, m - (z - 1)) /\ Left(t[z], m, m - z)
    BY <1>2, LeftAlways
  <2>2. QED
    BY <1>2, <2>1
<1>4. r = Take(m, s, z)
  BY DEF Takes
<1>5. s.idx \in Nat /\ r.idx \in Nat
  BY <1>3 DEF Left
<1> HIDE DEF s, r
<1> DEFINE d == s.idx \div Factorial[m - z]
<1>6. /\ d \in 0 .. m - z
      /\ s.idx = r.idx + d * Factorial[m - z]
      /\ s.buf[d + 1] \in Nat
      /\ r.perm = Append(s.perm, s.buf[d + 1])
      /\ \A y \in 1 .. m - z :
           /\ r.buf[y] = IF y <= d THEN s.buf[y] ELSE s.buf[y + 1]
           /\ s.buf[d + 1] > r.buf[y] <=> y <= d
  BY <1>3, <1>4, TakeStep
<1>7. Digit(t, m, z) = d /\ Element(t, m, z) = s.buf[d + 1]
  BY DEF Digit, Element, s
<1> HIDE DEF d
<1>8. QED
  BY <1>5, <1>6, <1>7 DEF TakeHolds, s, r

LEMMA ElementsAre ==
    ASSUME NEW m \in Nat, NEW x \in Nat, x < Factorial[m], NEW t, Takes(t, m, x)
    PROVE  \A y \in 0 .. m : /\ t[y].perm \in Seq(Nat) /\ Len(t[y].perm) = y
                             /\ \A z \in 1 .. y : t[y].perm[z] = Element(t, m, z)
<1> DEFINE Good(y) == \A z \in 1 .. y : t[y].perm[z] = Element(t, m, z)
           Bad == {y \in 0 .. m : ~ Good(y)}
<1>1. ASSUME NEW y \in 0 .. m PROVE t[y].perm \in Seq(Nat) /\ Len(t[y].perm) = y
  <2>1. Left(t[y], m, m - y)
    BY LeftAlways
  <2>2. m - (m - y) = y
    OBVIOUS
  <2>3. QED
    BY <2>1, <2>2 DEF Left
<1>2. SUFFICES ASSUME Bad # {} PROVE FALSE
  BY <1>1
<1>3. PICK y \in Bad : \A z \in Bad : y <= z
  <2>1. Bad \subseteq Nat
    OBVIOUS
  <2> HIDE DEF Bad
  <2>2. QED
    BY <1>2, <2>1, SmallestNumber
<1>4. y \in 1 .. m
  <2>1. y \in 0 .. m /\ y # 0
    BY <1>3
  <2>2. QED
    BY <2>1
<1>5. y - 1 \in 0 .. m /\ ~ (y <= y - 1) /\ y \in Nat /\ y \in 0 .. m
  BY <1>4
<1>6. Good(y - 1)
  BY <1>3, <1>5
<1>7. t[y].perm = Append(t[y - 1].perm, Element(t, m, y))
  <2>1. TakeHolds(t, m, y)
    BY <1>4, TakeHeld
  <2>2. QED
    BY <2>1 DEF TakeHolds
<1>8. ASSUME NEW z \in 1 .. y PROVE t[y].perm[z] = Element(t, m, z)
  <2> DEFINE p == t[y - 1].perm
             e == Element(t, m, y)
  <2>1. p \in Seq(Nat) /\ Len(p) = y - 1 /\ t[y].perm = Append(p, e)
    BY <1>1, <1>5, <1>7
  <2> HIDE DEF p
  <2>2. CASE z = y
    <3> HIDE DEF e
    <3>1. Append(p, e)[y] = e
      BY <1>5, <2>1
    <3>2. QED
      BY <2>1, <2>2, <3>1 DEF e
  <2>3. CASE z # y
    <3>1. z \in 1 .. y - 1
      BY <1>5, <2>3
    <3>2. p[z] = Element(t, m, z)
      BY <1>6, <3>1 DEF p
    <3> HIDE DEF e
    <3>3. Append(p, e)[z] = p[z]
      BY <2>1, <3>1
    <3>4. QED
      BY <2>1, <3>2, <3>3
  <2>4. QED
    BY <2>2, <2>3
<1>9. QED
  BY <1>3, <1>8

\* The elements that are taken behind z are those that are left there, each once.
Matches(h, t, m, z) ==
    /\ h \in [z + 1 .. m -> 1 .. m - z]
    /\ \A i, j \in z + 1 .. m : h[i] = h[j] => i = j
    /\ \A y \in 1 .. m - z : \E j \in z + 1 .. m : h[j] = y
    /\ \A j \in z + 1 .. m : Element(t, m, j) = t[z].buf[h[j]]

\* One more is at its digit; what is behind it moves.
LEMMA MatchStep ==
    ASSUME NEW m \in Nat, NEW t, NEW z \in 1 .. m, TakeHolds(t, m, z),
           NEW h, Matches(h, t, m, z)
    PROVE  \E g : Matches(g, t, m, z - 1)
<1> DEFINE d == Digit(t, m, z)
           I == z .. m
           g == [j \in I |-> IF j = z THEN d + 1 ELSE IF h[j] <= d THEN h[j] ELSE h[j] + 1]
           b == t[z].buf
           a == t[z - 1].buf
<1>1. /\ d \in 0 .. m - z /\ Element(t, m, z) = a[d + 1]
      /\ \A y \in 1 .. m - z : b[y] = IF y <= d THEN a[y] ELSE a[y + 1]
  BY DEF TakeHolds, Element
<1>2. /\ \A j \in z + 1 .. m : h[j] \in 1 .. m - z
      /\ \A i, j \in z + 1 .. m : h[i] = h[j] => i = j
      /\ \A y \in 1 .. m - z : \E j \in z + 1 .. m : h[j] = y
      /\ \A j \in z + 1 .. m : Element(t, m, j) = b[h[j]]
  BY DEF Matches
<1> HIDE DEF d, a, b
<1>3. /\ (z - 1) + 1 = z /\ m - (z - 1) = m - z + 1 /\ z \in I
      /\ \A j \in I : j = z \/ j \in z + 1 .. m
      /\ \A j \in z + 1 .. m : j \in I /\ j # z
  OBVIOUS
<1>4. /\ g[z] = d + 1
      /\ \A j \in z + 1 .. m : g[j] = IF h[j] <= d THEN h[j] ELSE h[j] + 1
  BY <1>3
<1>5. DOMAIN g = I /\ g = [j \in I |-> g[j]]
  OBVIOUS
<1> HIDE DEF g
<1>6. \A j \in I : g[j] \in 1 .. m - z + 1
  <2>1. g[z] \in 1 .. m - z + 1
    BY <1>1, <1>4
  <2>2. ASSUME NEW j \in z + 1 .. m PROVE g[j] \in 1 .. m - z + 1
    <3>1. h[j] \in 1 .. m - z /\ (g[j] = h[j] \/ g[j] = h[j] + 1)
      BY <1>2, <1>4
    <3>2. QED
      BY <3>1
  <2>3. QED
    BY <1>3, <2>1, <2>2
<1>7. g \in [I -> 1 .. m - z + 1]
  BY <1>5, <1>6
<1>8. ASSUME NEW j \in z + 1 .. m PROVE g[j] # d + 1
  <2>1. h[j] \in 1 .. m - z /\ d \in Nat
    BY <1>1, <1>2
  <2>2. g[j] = IF h[j] <= d THEN h[j] ELSE h[j] + 1
    BY <1>4
  <2> DEFINE e == h[j]
  <2>3. e \in Nat /\ g[j] = IF e <= d THEN e ELSE e + 1
    BY <2>1, <2>2
  <2> HIDE DEF e
  <2>4. QED
    BY <2>1, <2>3
<1>9. ASSUME NEW i \in I, NEW j \in I, g[i] = g[j] PROVE i = j
  <2>1. CASE i = z \/ j = z
    BY <1>3, <1>4, <1>8, <1>9, <2>1
  <2>2. CASE i # z /\ j # z
    <3>1. i \in z + 1 .. m /\ j \in z + 1 .. m
      BY <1>3, <2>2
    <3> DEFINE e == h[i]
               f == h[j]
    <3>2. /\ e \in 1 .. m - z /\ f \in 1 .. m - z /\ d \in Nat
          /\ g[i] = IF e <= d THEN e ELSE e + 1
          /\ g[j] = IF f <= d THEN f ELSE f + 1
      BY <1>1, <1>2, <1>4, <3>1
    <3>3. e = f => i = j
      BY <1>2, <3>1
    <3> HIDE DEF e, f
    <3>4. e = f
      <4>1. e \in Nat /\ f \in Nat /\ d \in Nat
        BY <3>2
      <4>2. (IF e <= d THEN e ELSE e + 1) = (IF f <= d THEN f ELSE f + 1)
        BY <1>9, <3>2
      <4>3. \A p, q, r \in Nat : (IF p <= r THEN p ELSE p + 1) = (IF q <= r THEN q ELSE q + 1) => p = q
        OBVIOUS
      <4>4. QED
        BY <4>1, <4>2, <4>3
    <3>5. QED
      BY <3>3, <3>4
  <2>3. QED
    BY <2>1, <2>2
<1>10. ASSUME NEW y \in 1 .. m - z + 1 PROVE \E j \in I : g[j] = y
  <2>0. d \in Nat /\ d <= m - z
    BY <1>1
  <2>1. CASE y = d + 1
    BY <1>3, <1>4, <2>1
  <2>2. CASE y <= d
    <3>1. y \in 1 .. m - z
      BY <2>0, <2>2
    <3>2. PICK j \in z + 1 .. m : h[j] = y
      BY <1>2, <3>1
    <3>3. g[j] = y /\ j \in I
      BY <1>3, <1>4, <2>2, <3>2
    <3>4. QED
      BY <3>3
  <2>3. CASE y > d + 1
    <3>1. y - 1 \in 1 .. m - z /\ ~ (y - 1 <= d) /\ (y - 1) + 1 = y
      BY <2>0, <2>3
    <3>2. PICK j \in z + 1 .. m : h[j] = y - 1
      BY <1>2, <3>1
    <3>3. g[j] = h[j] + 1 /\ j \in I
      BY <1>3, <1>4, <3>1, <3>2
    <3>4. QED
      BY <3>1, <3>2, <3>3
  <2>4. QED
    BY <2>0, <2>1, <2>2, <2>3
<1>11. ASSUME NEW j \in I PROVE Element(t, m, j) = a[g[j]]
  <2>1. CASE j = z
    BY <1>1, <1>4, <2>1
  <2>2. CASE j # z
    <3>1. j \in z + 1 .. m
      BY <1>3, <2>2
    <3>2. Element(t, m, j) = b[h[j]] /\ h[j] \in 1 .. m - z
      BY <1>2, <3>1
    <3>3. b[h[j]] = IF h[j] <= d THEN a[h[j]] ELSE a[h[j] + 1]
      BY <1>1, <3>2
    <3>4. g[j] = IF h[j] <= d THEN h[j] ELSE h[j] + 1
      BY <1>4, <3>1
    <3>5. QED
      BY <3>2, <3>3, <3>4
  <2>3. QED
    BY <2>1, <2>2
<1>12. Matches(g, t, m, z - 1)
  BY <1>3, <1>7, <1>9, <1>10, <1>11 DEF Matches, a
<1>13. QED
  BY <1>12

LEMMA MatchesExist ==
    ASSUME NEW m \in Nat, NEW t, \A z \in 1 .. m : TakeHolds(t, m, z)
    PROVE  \A z \in 0 .. m : \E h : Matches(h, t, m, z)
<1> DEFINE T == {y \in Nat : y <= m => \E h : Matches(h, t, m, m - y)}
<1>1. 0 \in T
  <2>1. Matches(<<>>, t, m, m)
    <3>1. m + 1 .. m = {} /\ 1 .. m - m = {}
      OBVIOUS
    <3> DEFINE e == <<>>
    <3>2. e \in [{} -> {}]
      OBVIOUS
    <3>3. QED
      BY <3>1, <3>2 DEF Matches
  <2>2. m - 0 = m
    OBVIOUS
  <2>3. QED
    BY <2>1, <2>2
<1>2. ASSUME NEW y \in Nat, y \in T PROVE y + 1 \in T
  <2>1. SUFFICES ASSUME y + 1 <= m PROVE \E h : Matches(h, t, m, m - (y + 1))
    OBVIOUS
  <2>2. y <= m /\ m - y \in 1 .. m /\ m - (y + 1) = (m - y) - 1
    BY <2>1
  <2> DEFINE z == m - y
  <2>3. PICK h : Matches(h, t, m, z)
    BY <1>2, <2>2
  <2>4. z \in 1 .. m /\ TakeHolds(t, m, z)
    BY <2>2
  <2> HIDE DEF z
  <2>5. \E g : Matches(g, t, m, z - 1)
    BY <2>3, <2>4, MatchStep
  <2>6. QED
    BY <2>2, <2>5 DEF z
<1>3. \A y \in Nat : y \in T
  <2> HIDE DEF T
  <2>1. QED
    BY <1>1, <1>2, AllNumbers
<1>4. SUFFICES ASSUME NEW z \in 0 .. m PROVE \E h : Matches(h, t, m, z)
  OBVIOUS
<1>5. m - z \in Nat /\ m - z <= m /\ m - (m - z) = z
  OBVIOUS
<1>6. \E h : Matches(h, t, m, m - (m - z))
  BY <1>3, <1>5
<1>7. QED
  BY <1>5, <1>6

\* As many smaller elements are taken behind z as its digit says.
LEMMA SmallerBehind ==
    ASSUME NEW m \in Nat, NEW t, \A z \in 1 .. m : TakeHolds(t, m, z), NEW z \in 1 .. m
    PROVE  Cardinality({j \in z + 1 .. m : Element(t, m, z) > Element(t, m, j)}) = Digit(t, m, z)
<1> DEFINE d == Digit(t, m, z)
           S == {j \in z + 1 .. m : Element(t, m, z) > Element(t, m, j)}
           b == t[z].buf
<1>1. d \in 0 .. m - z /\ \A y \in 1 .. m - z : Element(t, m, z) > b[y] <=> y <= d
  BY DEF TakeHolds
<1>2. PICK h : Matches(h, t, m, z)
  <2>1. z \in 0 .. m
    OBVIOUS
  <2>2. QED
    BY <2>1, MatchesExist
<1>3. /\ \A j \in z + 1 .. m : h[j] \in 1 .. m - z
      /\ \A i, j \in z + 1 .. m : h[i] = h[j] => i = j
      /\ \A y \in 1 .. m - z : \E j \in z + 1 .. m : h[j] = y
      /\ \A j \in z + 1 .. m : Element(t, m, j) = b[h[j]]
  BY <1>2 DEF Matches
<1> HIDE DEF d, b
<1>4. \A j \in z + 1 .. m : j \in S <=> h[j] <= d
  BY <1>1, <1>3
<1>5. S \subseteq z + 1 .. m
  OBVIOUS
<1> HIDE DEF S
<1> DEFINE g == [j \in S |-> h[j]]
<1>6. g \in [S -> 1 .. d]
  <2>1. ASSUME NEW j \in S PROVE h[j] \in 1 .. d
    <3>1. j \in z + 1 .. m /\ h[j] <= d /\ h[j] \in 1 .. m - z
      BY <1>3, <1>4, <1>5
    <3>2. QED
      BY <1>1, <3>1
  <2>2. QED
    BY <2>1
<1>7. \A i, j \in S : g[i] = g[j] => i = j
  BY <1>3, <1>5
<1>8. \A y \in 1 .. d : \E j \in S : g[j] = y
  <2>1. SUFFICES ASSUME NEW y \in 1 .. d PROVE \E j \in S : g[j] = y
    OBVIOUS
  <2>2. y \in 1 .. m - z /\ y <= d
    BY <1>1
  <2>3. PICK j \in z + 1 .. m : h[j] = y
    BY <1>3, <2>2
  <2>4. j \in S
    BY <1>4, <2>2, <2>3
  <2>5. QED
    BY <2>3, <2>4
<1>9. g \in Bijection(S, 1 .. d)
  BY <1>6, <1>7, <1>8 DEF Bijection, Injection, Surjection, IsInjective
<1>10. IsFiniteSet(S)
  <2>1. z + 1 \in Int /\ m \in Int
    OBVIOUS
  <2>2. IsFiniteSet(z + 1 .. m)
    BY <2>1, FS_Interval
  <2>3. QED
    BY <1>5, <2>2, FS_Subset
<1> DEFINE U == 1 .. d
<1>11. Cardinality(U) = d
  <2>1. 1 \in Int /\ d \in Int
    BY <1>1
  <2>2. Cardinality(1 .. d) = IF 1 > d THEN 0 ELSE d - 1 + 1
    BY <2>1, FS_Interval
  <2>3. d \in Nat
    BY <1>1
  <2>4. QED
    BY <2>2, <2>3
<1>12. ExistsBijection(S, U)
  BY <1>9 DEF ExistsBijection
<1> HIDE DEF U
<1>13. Cardinality(U) = Cardinality(S)
  BY <1>10, <1>12, FS_Bijection
<1>14. QED
  BY <1>11, <1>13 DEF d, S

--------------------------------------------------------------------------------
(* The number of an order. *)

\* The orders in which element i is smaller.
Fewer(c, i) == Cardinality({j \in i + 1 .. Len(c) : c[i] > c[j]}) * Factorial[Len(c) - i]

LEMMA OrderIs ==
    ASSUME NEW c, Len(c) \in Nat, NEW v, \A i \in 1 .. Len(c) - 1 : Fewer(c, i) = v[i]
    PROVE  PermutationToInteger(c) = SumOf(v, 1 .. Len(c) - 1)
<1> DEFINE S == 1 .. Len(c) - 1
           P(g) == g = [s \in SUBSET S |-> IF s = {} THEN 0
                          ELSE Fewer(c, CHOOSE x \in s : TRUE) + g[s \ {CHOOSE x \in s : TRUE}]]
<1>1. \A s \in SUBSET S : s # {} => Fewer(c, Choice(s)) = v[Choice(s)]
  BY ChoiceIn
<1>2. IsFiniteSet(S)
  BY FS_Interval
<1>3. PermutationToInteger(c) = (CHOOSE g : P(g))[S]
  BY DEF PermutationToInteger, MapThenSumSet, MapThenFoldSet, Fewer
<1> HIDE DEF S
<1>4. \E g : P(g)
  <2>1. PICK h : Sums(h, v, S)
    BY <1>2, SumsExist
  <2> DEFINE g == [s \in SUBSET S |-> h[s]]
  <2>2. \A s \in SUBSET S : g[s] = IF s = {} THEN 0
                              ELSE Fewer(c, Choice(s)) + g[s \ {Choice(s)}]
    <3>1. SUFFICES ASSUME NEW s \in SUBSET S
                   PROVE  h[s] = IF s = {} THEN 0
                                 ELSE Fewer(c, Choice(s)) + g[s \ {Choice(s)}]
      OBVIOUS
    <3>2. s \ {Choice(s)} \in SUBSET S
      OBVIOUS
    <3>3. Adds(h, v, s)
      BY <2>1 DEF Sums
    <3>4. QED
      BY <1>1, <3>2, <3>3 DEF Adds
  <2>3. g = [s \in SUBSET S |-> IF s = {} THEN 0
                              ELSE Fewer(c, Choice(s)) + g[s \ {Choice(s)}]]
    BY <2>2
  <2>4. P(g)
    BY <2>3 DEF Choice
  <2>5. QED
    BY <2>4
<1>5. P(CHOOSE g : P(g))
  BY <1>4
<1> DEFINE f == CHOOSE g : P(g)
<1>6. Sums(f, v, S)
  <2>1. P(f)
    BY <1>5
  <2> HIDE DEF f
  <2>2. \A s \in SUBSET S : f[s] = IF s = {} THEN 0
                              ELSE Fewer(c, Choice(s)) + f[s \ {Choice(s)}]
    BY <2>1 DEF Choice
  <2>3. QED
    BY <1>1, <2>2 DEF Sums, Adds
<1>7. f[S] = SumOf(v, S)
  BY <1>2, <1>6, SumIs
<1>8. QED
  BY <1>3, <1>7 DEF S

\* What the digits are worth is what they took.
LEMMA DigitsAddUp ==
    ASSUME NEW m \in Nat, NEW t, \A z \in 1 .. m : TakeHolds(t, m, z), t[0].idx \in Nat
    PROVE  \A y \in 0 .. m :
             t[0].idx = t[y].idx + SumOf([z \in 1 .. m |-> Digit(t, m, z) * Factorial[m - z]], 1 .. y)
<1> DEFINE v == [z \in 1 .. m |-> Digit(t, m, z) * Factorial[m - z]]
           Good(y) == t[0].idx = t[y].idx + SumOf(v, 1 .. y)
           Bad == {y \in 0 .. m : ~ Good(y)}
<1>1. SUFFICES ASSUME Bad # {} PROVE FALSE
  OBVIOUS
<1>2. PICK y \in Bad : \A z \in Bad : y <= z
  <2>1. Bad \subseteq Nat
    OBVIOUS
  <2> HIDE DEF Bad
  <2>2. QED
    BY <1>1, <2>1, SmallestNumber
<1>3. \A z \in 1 .. m : /\ v[z] = Digit(t, m, z) * Factorial[m - z] /\ v[z] \in Int
                        /\ t[z - 1].idx \in Nat /\ t[z].idx \in Nat
                        /\ t[z - 1].idx = t[z].idx + v[z]
  <2>1. SUFFICES ASSUME NEW z \in 1 .. m
                 PROVE  /\ v[z] = Digit(t, m, z) * Factorial[m - z] /\ v[z] \in Int
                        /\ t[z - 1].idx \in Nat /\ t[z].idx \in Nat
                        /\ t[z - 1].idx = t[z].idx + v[z]
    OBVIOUS
  <2>2. TakeHolds(t, m, z) /\ m - z \in Nat
    OBVIOUS
  <2>3. Factorial[m - z] \in Nat
    BY <2>2, FactorialIs
  <2> DEFINE d == Digit(t, m, z)
             e == Factorial[m - z]
  <2>4. /\ d \in Int /\ t[z - 1].idx \in Nat /\ t[z].idx \in Nat
        /\ t[z - 1].idx = t[z].idx + d * e
    BY <2>2 DEF TakeHolds
  <2>5. v[z] = d * e
    OBVIOUS
  <2> HIDE DEF d, e, v
  <2>6. d * e \in Int
    <3>1. e \in Int
      BY <2>3 DEF e
    <3>2. QED
      BY <2>4, <3>1
  <2>7. QED
    BY <2>4, <2>5, <2>6 DEF d, e
<1> HIDE DEF v
<1>4. y \in 0 .. m
  BY <1>2
<1>5. CASE y = 0
  <2>1. IsFiniteSet({}) /\ 1 .. 0 = {}
    BY FS_EmptySet
  <2>2. SumOf(v, {}) = 0
    BY <2>1, SumStep
  <2>3. QED
    BY <1>2, <1>5, <2>1, <2>2
<1>6. CASE y # 0
  <2>1. y \in 1 .. m /\ y - 1 \in 0 .. m /\ ~ (y <= y - 1)
    BY <1>4, <1>6
  <2>2. Good(y - 1)
    BY <1>2, <2>1
  <2> DEFINE U == 1 .. y
             W == 1 .. y - 1
  <2>3. IsFiniteSet(U) /\ y \in U /\ U \ {y} = W /\ W \subseteq U /\ \A z \in U : z \in 1 .. m
    <3>1. 1 \in Int /\ y \in Int
      BY <1>4
    <3>2. IsFiniteSet(1 .. y)
      BY <3>1, FS_Interval
    <3>3. QED
      BY <2>1, <3>2
  <2>4. \A z \in U : v[z] \in Int
    BY <1>3, <2>3
  <2> HIDE DEF U, W
  <2>5. SumOf(v, U) = v[y] + SumOf(v, U \ {y})
    BY <2>3, <2>4, SumOfOneMore
  <2>6. IsFiniteSet(W)
    BY <2>3, FS_Subset
  <2>7. SumOf(v, W) \in Int
    <3>1. \A z \in W : v[z] \in Int
      BY <2>3, <2>4
    <3>2. QED
      BY <2>6, <3>1, SumIsInteger
  <2> DEFINE a == t[0].idx
             b == t[y - 1].idx
             c == t[y].idx
             p == SumOf(v, U)
             q == SumOf(v, W)
  <2>8. /\ a = b + q /\ b = c + v[y] /\ p = v[y] + q
        /\ b \in Nat /\ c \in Nat /\ v[y] \in Int /\ q \in Int
    BY <1>3, <2>1, <2>2, <2>3, <2>5, <2>7 DEF U, W
  <2> HIDE DEF a, b, c, p, q
  <2>9. a = c + p
    BY <2>8
  <2>10. Good(y)
    BY <2>9 DEF a, c, p, U
  <2>11. QED
    BY <1>2, <2>10
<1>7. QED
  BY <1>5, <1>6

LEMMA OrderIsRead ==
    ASSUME NEW m \in Nat \ {0}, NEW x \in Nat, x < Factorial[m]
    PROVE  /\ Len(IntegerToPermutation(x, m)) = m
           /\ PermutationToInteger(IntegerToPermutation(x, m)) = x
<1>1. PICK t : Takes(t, m, x) /\ IntegerToPermutation(x, m) = t[m].perm
  BY TakesExist
<1> DEFINE p == t[m].perm
           v == [z \in 1 .. m |-> Digit(t, m, z) * Factorial[m - z]]
<1>2. p \in Seq(Nat) /\ Len(p) = m /\ \A z \in 1 .. m : p[z] = Element(t, m, z)
  <2>1. m \in 0 .. m
    OBVIOUS
  <2>2. QED
    BY <1>1, <2>1, ElementsAre
<1>3. \A z \in 1 .. m : TakeHolds(t, m, z)
  BY <1>1, TakeHeld
<1> HIDE DEF p
<1>4. ASSUME NEW i \in 1 .. Len(p) - 1 PROVE Fewer(p, i) = v[i]
  <2>1. i \in 1 .. m /\ \A j \in i + 1 .. m : j \in 1 .. m
    BY <1>2
  <2>2. {j \in i + 1 .. Len(p) : p[i] > p[j]}
          = {j \in i + 1 .. m : Element(t, m, i) > Element(t, m, j)}
    BY <1>2, <2>1
  <2>3. Cardinality({j \in i + 1 .. m : Element(t, m, i) > Element(t, m, j)}) = Digit(t, m, i)
    BY <1>3, <2>1, SmallerBehind
  <2>4. v[i] = Digit(t, m, i) * Factorial[m - i]
    BY <2>1
  <2>5. QED
    BY <1>2, <2>2, <2>3, <2>4 DEF Fewer
<1> HIDE DEF v
<1>5. PermutationToInteger(p) = SumOf(v, 1 .. m - 1)
  <2>1. Len(p) \in Nat
    BY <1>2
  <2>2. PermutationToInteger(p) = SumOf(v, 1 .. Len(p) - 1)
    BY <1>4, <2>1, OrderIs
  <2>3. QED
    BY <1>2, <2>2
<1>6. t[0].idx = x
  BY <1>1 DEF Takes
<1>7. t[0].idx = t[m - 1].idx + SumOf(v, 1 .. m - 1)
  <2>1. m - 1 \in 0 .. m /\ t[0].idx \in Nat
    BY <1>6
  <2>2. QED
    BY <1>3, <2>1, DigitsAddUp DEF v
<1>8. t[m - 1].idx = 0
  <2>1. m - 1 \in 0 .. m /\ m - (m - 1) = 1
    OBVIOUS
  <2>2. Left(t[m - 1], m, m - (m - 1))
    BY <1>1, <2>1, LeftAlways
  <2>3. t[m - 1].idx \in Nat /\ t[m - 1].idx < Factorial[1]
    BY <2>1, <2>2 DEF Left
  <2>4. Factorial[1] = 1
    BY FactorialIs
  <2>5. QED
    BY <2>3, <2>4
<1>9. SumOf(v, 1 .. m - 1) = x
  <2>1. IsFiniteSet(1 .. m - 1) /\ \A z \in 1 .. m - 1 : v[z] \in Int
    <3>1. 1 \in Int /\ m - 1 \in Int
      OBVIOUS
    <3>2. IsFiniteSet(1 .. m - 1)
      BY <3>1, FS_Interval
    <3>3. ASSUME NEW z \in 1 .. m - 1 PROVE v[z] \in Int
      <4>1. z \in 1 .. m /\ m - z \in Nat
        OBVIOUS
      <4> DEFINE d == Digit(t, m, z)
                 e == Factorial[m - z]
      <4>2. d \in Int
        BY <1>3, <4>1 DEF TakeHolds
      <4>3. e \in Int
        BY <4>1, FactorialIs
      <4>4. v[z] = d * e
        BY <4>1 DEF v
      <4> HIDE DEF d, e
      <4>5. QED
        BY <4>2, <4>3, <4>4
    <3>4. QED
      BY <3>2, <3>3
  <2> DEFINE q == SumOf(v, 1 .. m - 1)
  <2>2. q \in Int
    <3> DEFINE U == 1 .. m - 1
    <3>1. IsFiniteSet(U) /\ \A z \in U : v[z] \in Int
      BY <2>1
    <3> HIDE DEF U
    <3>2. SumOf(v, U) \in Int
      BY <3>1, SumIsInteger
    <3>3. QED
      BY <3>2 DEF U
  <2>3. x = 0 + q
    BY <1>6, <1>7, <1>8
  <2> HIDE DEF q
  <2>4. q = x
    BY <2>2, <2>3
  <2>5. QED
    BY <2>4 DEF q
<1>10. QED
  BY <1>1, <1>2, <1>5, <1>9 DEF p

\* No more bits than there are orders.
LEMMA OrdersRoom ==
    ASSUME NEW c \in Nat
    PROVE  /\ EmbeddableBitsInPermutation(c) \in Nat
           /\ Power2[EmbeddableBitsInPermutation(c)] \in Nat
           /\ Power2[EmbeddableBitsInPermutation(c)] <= Factorial[c]
<1> DEFINE x == Factorial[c]
<1>1. x \in Nat \ {0}
  BY FactorialIs
<1> HIDE DEF x
<1>2. /\ Embeddable(x) \in Nat /\ Power2[Embeddable(x)] \in Nat
      /\ Power2[Embeddable(x)] <= x
  BY <1>1, EmbeddableIs
<1>3. QED
  BY <1>2 DEF EmbeddableBitsInPermutation, x

OrdersInv ==
    carrier = "permutation" =>
      /\ nParts \in Nat \ {0, 1}
      /\ coding \in {"start", "encoded", "decoded", "thrown"}
      /\ coding \in {"start", "encoded"} /\ Data # <<>> =>
           Data \in Bits(EmbeddableBitsInPermutation(nParts))
      /\ coding = "start" => Data \in Bits(EmbeddableBitsInPermutation(nParts))
      /\ coding = "encoded" /\ Data # <<>> =>
           parts = IntegerToPermutation(DataBitsToInt(Data), nParts)
      /\ coding = "decoded" /\ Data # <<>> => out = Data
      /\ coding = "thrown" => Data = <<>>

LEMMA OrdersInit ==
    ASSUME DataInterfaceAssumption, CarrierInit PROVE OrdersInv
<1>1. SUFFICES ASSUME carrier = "permutation" PROVE OrdersInv
  BY DEF OrdersInv
<1>2. Ordered /\ nParts \in Parts \ {0, 1}
  BY <1>1 DEF CarrierInit, Ordered, Keyed
<1>3. nParts \in Nat \ {0, 1}
  BY <1>2 DEF DataInterfaceAssumption
<1>4. Room = EmbeddableBitsInPermutation(nParts)
  BY <1>1 DEF Room
<1>5. \/ Data \in Bits(EmbeddableBitsInPermutation(nParts)) /\ coding = "start"
      \/ Data = <<>> /\ coding = "encoded"
  BY <1>2, <1>4 DEF Ordered
<1>6. QED
  BY <1>3, <1>5 DEF OrdersInv

\* An order that bits were written to is one, and its number is that of the bits.
LEMMA OrderHolds ==
    ASSUME NEW m \in Nat \ {0}, NEW d \in Bits(EmbeddableBitsInPermutation(m)),
           NEW p, p = IntegerToPermutation(DataBitsToInt(d), m)
    PROVE  /\ Len(p) = m
           /\ PermutationToInteger(p) < Power2[EmbeddableBitsInPermutation(m)]
           /\ Padded(PermutationToInteger(p), EmbeddableBitsInPermutation(m)) = d
<1> DEFINE e == EmbeddableBitsInPermutation(m)
           x == DataBitsToInt(d)
<1>1. e \in Nat /\ Power2[e] \in Nat /\ Power2[e] <= Factorial[m]
  BY OrdersRoom
<1>2. d \in Bits(e)
  OBVIOUS
<1> HIDE DEF e
<1>3. x \in Nat /\ x < Power2[e] /\ Padded(x, e) = d
  BY <1>1, <1>2, BitsBelowPower, PaddedIs
<1>4. Factorial[m] \in Nat
  BY FactorialIs
<1> HIDE DEF x
<1>5. x < Factorial[m]
  BY <1>1, <1>3, <1>4
<1>6. Len(IntegerToPermutation(x, m)) = m /\ PermutationToInteger(IntegerToPermutation(x, m)) = x
  BY <1>3, <1>5, OrderIsRead
<1>7. p = IntegerToPermutation(x, m)
  BY DEF x
<1>8. QED
  BY <1>3, <1>6, <1>7 DEF e

LEMMA OrdersNext ==
    ASSUME DataInterfaceAssumption, OrdersInv, [CarrierNext]_carriers PROVE OrdersInv'
<1>1. carrier' = carrier /\ Data' = Data /\ nParts' = nParts /\ exact' = exact
  BY DEF CarrierNext, EncodeDataInPermutation, EncodeDataInPubkey, EncodeDataInSequenceNr,
         EncodeDataInValues, Guess, Up, Down, Place, LastPart, Decode, DecodeThrows, given, carriers
<1>2. SUFFICES ASSUME carrier = "permutation" PROVE OrdersInv'
  BY <1>1 DEF OrdersInv
<1> DEFINE e == EmbeddableBitsInPermutation(nParts)
<1>3. Bits(e)' = Bits(e)
  BY <1>1 DEF EmbeddableBitsInPermutation, Embeddable
<1>4. /\ nParts \in Nat \ {0, 1}
      /\ coding \in {"start", "encoded", "decoded", "thrown"}
      /\ (coding \in {"start", "encoded"} /\ Data # <<>>) => Data \in Bits(e)
      /\ coding = "start" => Data \in Bits(e)
      /\ (coding = "encoded" /\ Data # <<>>) =>
           parts = IntegerToPermutation(DataBitsToInt(Data), nParts)
      /\ (coding = "decoded" /\ Data # <<>>) => out = Data
      /\ coding = "thrown" => Data = <<>>
  BY <1>2 DEF OrdersInv
<1>5. /\ (coding = "encoded" /\ Data # <<>>) =>
           /\ Len(parts) = nParts
           /\ PermutationToInteger(parts) < Power2[e]
           /\ Padded(PermutationToInteger(parts), e) = Data
  BY <1>4, OrderHolds
<1>6. CASE EncodeDataInPermutation
  <2>1. /\ coding = "start" /\ coding' = "encoded"
        /\ parts' = IntegerToPermutation(DataBitsToInt(Data), nParts)
    BY <1>6 DEF EncodeDataInPermutation
  <2>2. (parts = IntegerToPermutation(DataBitsToInt(Data), nParts))'
    BY <1>1, <2>1
  <2>3. QED
    BY <1>1, <1>3, <1>4, <2>1, <2>2 DEF OrdersInv
<1>7. CASE Decode
  <2>1. coding = "encoded" /\ coding' = "decoded" /\ out' = DecodeDataInPermutation
    BY <1>2, <1>7 DEF Decode
  <2>2. ASSUME Data # <<>> PROVE DecodeDataInPermutation = Data
    BY <1>5, <2>1, <2>2 DEF DecodeDataInPermutation, count
  <2>3. QED
    BY <1>1, <1>4, <2>1, <2>2 DEF OrdersInv
<1>8. CASE DecodeThrows
  <2>1. coding = "encoded" /\ coding' = "thrown" /\ ~ Decodable
    BY <1>8 DEF DecodeThrows
  <2>2. Data = <<>>
    BY <1>2, <1>5, <2>1 DEF Decodable, count
  <2>3. QED
    BY <1>1, <1>4, <2>1, <2>2 DEF OrdersInv
<1>9. CASE UNCHANGED carriers
  <2>1. coding' = coding /\ parts' = parts /\ out' = out
    BY <1>9 DEF carriers
  <2>2. (parts = IntegerToPermutation(DataBitsToInt(Data), nParts))'
          <=> parts = IntegerToPermutation(DataBitsToInt(Data), nParts)
    BY <1>1, <2>1
  <2>3. QED
    BY <1>1, <1>3, <1>4, <2>1, <2>2 DEF OrdersInv
<1>10. ASSUME EncodeDataInSequenceNr \/ EncodeDataInPubkey \/ EncodeDataInValues
              \/ Guess \/ Up \/ Down \/ Place \/ LastPart
       PROVE  OrdersInv'
  <2>1. ~ EncodeDataInSequenceNr /\ ~ EncodeDataInPubkey /\ ~ EncodeDataInValues
    BY <1>2 DEF EncodeDataInSequenceNr, EncodeDataInPubkey, EncodeDataInValues
  <2>2. ~ Guess /\ ~ Up /\ ~ Down /\ ~ Place /\ ~ LastPart
    <3>1. coding # "part" /\ coding # "up" /\ coding # "down"
      BY <1>4
    <3>2. QED
      BY <3>1, Zenon DEF Guess, Up, Down, Place, LastPart
  <2>3. QED
    BY <1>10, <2>1, <2>2
<1>11. QED
  BY <1>6, <1>7, <1>8, <1>9, <1>10 DEF CarrierNext

--------------------------------------------------------------------------------
(* All carriers. *)

CarrierInv ==
    /\ carrier \in {"values", "permutation", "pubkey", "sequence"}
    /\ ValuesInv /\ OrdersInv /\ KeysInv /\ SequenceInv

LEMMA CarrierStart ==
    ASSUME WordAssumption, DataInterfaceAssumption, CarrierInit PROVE CarrierInv
<1>1. carrier \in {"values", "permutation", "pubkey", "sequence"}
  BY DEF CarrierInit, Ordered, Keyed
<1>2. QED
  BY <1>1, ValuesInit, OrdersInit, KeysInit, SequenceInit DEF CarrierInv

LEMMA CarrierStep ==
    ASSUME WordAssumption, DataInterfaceAssumption, CarrierInv, [CarrierNext]_carriers
    PROVE  CarrierInv'
<1>1. carrier' = carrier
  BY DEF CarrierNext, EncodeDataInPermutation, EncodeDataInPubkey, EncodeDataInSequenceNr,
         EncodeDataInValues, Guess, Up, Down, Place, LastPart, Decode, DecodeThrows, given, carriers
<1>2. ValuesInv' /\ OrdersInv' /\ KeysInv' /\ SequenceInv'
  BY ValuesNext, OrdersNext, KeysNext, SequenceNext DEF CarrierInv
<1>3. QED
  BY <1>1, <1>2 DEF CarrierInv

LEMMA CarrierSays == ASSUME CarrierInv PROVE BitsHold
<1>1. SpendsBudget /\ (carrier = "values" => BitsArrive)
  BY ValuesSay DEF CarrierInv
<1>2. carrier = "permutation" => BitsArrive
  BY DEF CarrierInv, OrdersInv, BitsArrive
<1>3. carrier = "pubkey" => BitsArrive
  BY DEF CarrierInv, KeysInv, BitsArrive
<1>4. carrier = "sequence" => BitsArrive
  BY DEF CarrierInv, SequenceInv, BitsArrive
<1>5. QED
  BY <1>1, <1>2, <1>3, <1>4 DEF CarrierInv, BitsHold

\* Bits that are written into a carrier are read from it and nothing throws, whatever the bits: from
\* the values of outputs, for any budget and number of outputs, wherever floating point arithmetic
\* takes the search for each value and rounds the logarithm; from their order; from a public key,
\* for any size of it and any random bits; and from a sequence number.  And the values are the
\* budget (EncodeDataInValues, EncodeDataInPermutation, EncodeDataInPubkey, EncodeDataInSequenceNr
\* and the Decode functions of DataInterface.cpp).
THEOREM BitsAreRead ==
    ASSUME WordAssumption, DataInterfaceAssumption PROVE CarrierSpec => []BitsHold
<1>1. CarrierInit => CarrierInv
  BY CarrierStart
<1>2. CarrierInv /\ [CarrierNext]_carriers => CarrierInv'
  BY CarrierStep
<1>3. CarrierInv => BitsHold
  BY CarrierSays
<1>4. QED
  BY <1>1, <1>2, <1>3, PTL DEF CarrierSpec

================================================================================
