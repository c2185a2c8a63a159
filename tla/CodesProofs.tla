------------------------------ MODULE CodesProofs ------------------------------
(***************************************************************************)
(* What is written is read again, for any values of the constants.         *)
(*                                                                         *)
(* Texts: for every alphabet, all frequencies, any order of equal nodes    *)
(* in the heap and whatever the carriers append, codes are prefix-free and *)
(* a text is read as it was sent.                                          *)
(*                                                                         *)
(* Streams: a data stream is a queue of bytes; a buffered file returns the *)
(* bytes of the file from where its reader stands.                         *)
(***************************************************************************)
EXTENDS Huffman, Streams, SequenceProofs

--------------------------------------------------------------------------------
(* Codes. *)

\* The paths of a node's leaves are bits.
Paths == \A t \in tree : t.codes \in [DOMAIN t.codes -> Seq({0, 1})]

IInv == Paths /\ PrefixFree

\* GenerateCodes pushes false on the way to the left and true on the way to the
\* right: a bit in front of a path moves its other bits by one.
LEMMA PathGrows ==
  ASSUME NEW s \in Seq({0, 1}), NEW b \in {0, 1}
  PROVE  /\ <<b>> \o s \in Seq({0, 1})
         /\ DOMAIN (<<b>> \o s) = 1 .. Len(s) + 1
         /\ (<<b>> \o s)[1] = b
         /\ \A x \in DOMAIN s : x + 1 \in DOMAIN (<<b>> \o s) /\ (<<b>> \o s)[x + 1] = s[x]
  OBVIOUS

\* Two leaves below one child of a node stay apart when their paths grow.
LEMMA SameChild ==
  ASSUME NEW s \in Seq({0, 1}), NEW t \in Seq({0, 1}), NEW b \in {0, 1}, Apart(s, t)
  PROVE  Apart(<<b>> \o s, <<b>> \o t)
<1>1. PICK x \in DOMAIN s \intersect DOMAIN t : s[x] # t[x]
  BY DEF Apart
<1>2. /\ x + 1 \in DOMAIN (<<b>> \o s) /\ (<<b>> \o s)[x + 1] = s[x]
      /\ x + 1 \in DOMAIN (<<b>> \o t) /\ (<<b>> \o t)[x + 1] = t[x]
  BY <1>1, PathGrows
<1> QED
  BY <1>1, <1>2 DEF Apart

\* The node that BuildTree makes of two has paths, and no leaf of it is on the
\* path to another.
LEMMA JoinedNode ==
  ASSUME NEW l, NEW r,
         l.codes \in [DOMAIN l.codes -> Seq({0, 1})],
         r.codes \in [DOMAIN r.codes -> Seq({0, 1})],
         \A c, d \in DOMAIN l.codes : c # d => Apart(l.codes[c], l.codes[d]),
         \A c, d \in DOMAIN r.codes : c # d => Apart(r.codes[c], r.codes[d])
  PROVE  LET codes == InternalNode(l, r).codes
         IN /\ codes \in [DOMAIN codes -> Seq({0, 1})]
            /\ \A c, d \in DOMAIN codes : c # d => Apart(codes[c], codes[d])
<1> DEFINE D == DOMAIN l.codes \union DOMAIN r.codes
           codes == [c \in D |-> IF c \in DOMAIN l.codes THEN <<0>> \o l.codes[c]
                                 ELSE <<1>> \o r.codes[c]]
<1>1. InternalNode(l, r).codes = codes
  BY DEF InternalNode
<1>2. ASSUME NEW c \in DOMAIN l.codes
      PROVE  l.codes[c] \in Seq({0, 1}) /\ codes[c] = <<0>> \o l.codes[c]
  BY <1>2
<1>3. ASSUME NEW c \in DOMAIN r.codes
      PROVE  /\ r.codes[c] \in Seq({0, 1})
             /\ c \notin DOMAIN l.codes => codes[c] = <<1>> \o r.codes[c]
  BY <1>3
<1>4. codes \in [D -> Seq({0, 1})]
  <2> SUFFICES ASSUME NEW c \in D PROVE codes[c] \in Seq({0, 1})
    OBVIOUS
  <2>1. CASE c \in DOMAIN l.codes
    BY <2>1, <1>2, PathGrows
  <2>2. CASE c \notin DOMAIN l.codes
    BY <2>2, <1>3, PathGrows
  <2> QED
    BY <2>1, <2>2
<1>5. ASSUME NEW c \in D, NEW d \in D, c # d
      PROVE  Apart(codes[c], codes[d])
  <2>1. CASE c \in DOMAIN l.codes /\ d \in DOMAIN l.codes
    BY <2>1, <1>2, <1>5, SameChild
  <2>2. CASE c \notin DOMAIN l.codes /\ d \notin DOMAIN l.codes
    BY <2>2, <1>3, <1>5, SameChild
  <2>3. CASE c \in DOMAIN l.codes /\ d \notin DOMAIN l.codes
    <3>1. /\ 1 \in DOMAIN codes[c] /\ codes[c][1] = 0
          /\ 1 \in DOMAIN codes[d] /\ codes[d][1] = 1
      BY <2>3, <1>2, <1>3, PathGrows, SMTT(30)
    <3> QED
      BY <3>1 DEF Apart
  <2>4. CASE c \notin DOMAIN l.codes /\ d \in DOMAIN l.codes
    <3>1. /\ 1 \in DOMAIN codes[c] /\ codes[c][1] = 1
          /\ 1 \in DOMAIN codes[d] /\ codes[d][1] = 0
      BY <2>4, <1>2, <1>3, PathGrows, SMTT(30)
    <3> QED
      BY <3>1 DEF Apart
  <2> QED
    BY <2>1, <2>2, <2>3, <2>4
<1>6. DOMAIN codes = D
  OBVIOUS
<1> HIDE DEF codes
<1> QED
  BY <1>1, <1>4, <1>5, <1>6

\* Leaves have empty paths, and each is alone in its node.
LEMMA InitInv == Init => IInv
<1> SUFFICES ASSUME Init, NEW t \in tree
             PROVE  /\ t.codes \in [DOMAIN t.codes -> Seq({0, 1})]
                    /\ \A c, d \in DOMAIN t.codes : c # d => Apart(t.codes[c], t.codes[d])
  BY DEF IInv, Paths, PrefixFree
<1>1. PICK c \in DOMAIN frequencies : t = Leaf(c)
  BY DEF Init
<1>2. t.codes = [x \in {c} |-> <<>>]
  BY <1>1 DEF Leaf
<1> QED
  BY <1>2

\* Joining two nodes keeps the rest of the heap.
LEMMA BuildTreeInv == IInv /\ BuildTree => IInv'
<1> SUFFICES ASSUME IInv, BuildTree PROVE IInv'
  OBVIOUS
<1>1. PICK l \in Top(tree) : \E r \in Top(tree \ {l}) :
         tree' = (tree \ {l, r}) \union {InternalNode(l, r)}
  BY DEF BuildTree
<1>2. PICK r \in Top(tree \ {l}) : tree' = (tree \ {l, r}) \union {InternalNode(l, r)}
  BY <1>1
<1>3. l \in tree /\ r \in tree
  BY DEF Top
<1>4. LET codes == InternalNode(l, r).codes
      IN /\ codes \in [DOMAIN codes -> Seq({0, 1})]
         /\ \A c, d \in DOMAIN codes : c # d => Apart(codes[c], codes[d])
  BY <1>3, JoinedNode DEF IInv, Paths, PrefixFree
<1> SUFFICES ASSUME NEW t \in tree'
             PROVE  /\ t.codes \in [DOMAIN t.codes -> Seq({0, 1})]
                    /\ \A c, d \in DOMAIN t.codes : c # d => Apart(t.codes[c], t.codes[d])
  BY DEF IInv, Paths, PrefixFree
<1>5. CASE t \in tree
  BY <1>5 DEF IInv, Paths, PrefixFree
<1>6. CASE t = InternalNode(l, r)
  BY <1>4, <1>6
<1> QED
  BY <1>2, <1>5, <1>6

\* After BuildTree nothing changes the tree.
LEMMA TreeStays ==
  ASSUME IInv, tree' = tree
  PROVE  IInv'
BY DEF IInv, Paths, PrefixFree

\* Every code that BuildTree and GenerateCodes make, at every stage, is
\* prefix-free: the bimap keeps one symbol for each code, and a code that
\* Decompress has completed is no beginning of another.
THEOREM CodesArePrefixFree == Spec => []PrefixFree
<1>1. IInv /\ [Next]_vars => IInv'
  <2> SUFFICES ASSUME IInv, [Next]_vars PROVE IInv'
    OBVIOUS
  <2>1. CASE BuildTree
    BY <2>1, BuildTreeInv
  <2>2. CASE GenerateCodes
    BY <2>2, TreeStays DEF GenerateCodes
  <2>3. CASE Send
    BY <2>3, TreeStays DEF Send
  <2>4. CASE Decompress
    BY <2>4, TreeStays DEF Decompress, PushBit, PushSymbol, Break
  <2>5. CASE UNCHANGED vars
    BY <2>5, TreeStays DEF vars
  <2> QED
    BY <2>1, <2>2, <2>3, <2>4, <2>5 DEF Next
<1>2. IInv => PrefixFree
  BY DEF IInv
<1> QED
  BY <1>1, <1>2, InitInv, PTL DEF Spec

--------------------------------------------------------------------------------
(* The code is a function of the symbols that have a frequency. *)

HeapInv ==
    /\ tree # {}
    /\ DOMAIN frequencies \subseteq Symbols
    /\ frequencies \in [DOMAIN frequencies -> 1 .. MaxFreq]
    /\ \A t \in tree : t.frequency \in Nat
    /\ UNION {DOMAIN t.codes : t \in tree} = DOMAIN frequencies
    /\ pc # "build" => \A t, u \in tree : t = u

LEMMA HeapInit == Init => HeapInv
<1> SUFFICES ASSUME Init PROVE HeapInv
  OBVIOUS
<1>1. PICK S \in (SUBSET Symbols) \ {{}} : frequencies \in [S -> 1 .. MaxFreq]
  BY DEF Init
<1>2. DOMAIN frequencies = S /\ S # {} /\ S \subseteq Symbols
  <2>1. DOMAIN frequencies = S
    BY <1>1
  <2>2. S # {} /\ S \subseteq Symbols
    BY <1>1
  <2> QED
    BY <2>1, <2>2
<1>3. tree = {Leaf(c) : c \in S} /\ pc = "build"
  BY <1>2 DEF Init
<1>4. \A c \in S : Leaf(c).frequency = frequencies[c] /\ DOMAIN Leaf(c).codes = {c}
  BY DEF Leaf
<1>5. \A t \in tree : t.frequency \in Nat
  <2>1. MaxFreq \in Nat /\ \A c \in S : frequencies[c] \in 1 .. MaxFreq
    BY <1>1, HuffmanAssumption
  <2> QED
    BY <1>3, <1>4, <2>1
<1>6. UNION {DOMAIN t.codes : t \in tree} = S
  BY <1>3, <1>4
<1> QED
  BY <1>1, <1>2, <1>3, <1>5, <1>6 DEF HeapInv

LEMMA HeapBuilds == HeapInv /\ BuildTree => HeapInv'
<1> SUFFICES ASSUME HeapInv, BuildTree PROVE HeapInv'
  OBVIOUS
<1>1. PICK l \in Top(tree) : \E r \in Top(tree \ {l}) :
         tree' = (tree \ {l, r}) \union {InternalNode(l, r)}
  BY DEF BuildTree
<1>2. PICK r \in Top(tree \ {l}) : tree' = (tree \ {l, r}) \union {InternalNode(l, r)}
  BY <1>1
<1>3. l \in tree /\ r \in tree /\ pc = "build" /\ UNCHANGED <<frequencies, pc>>
  BY DEF Top, BuildTree
<1> DEFINE j == InternalNode(l, r)
<1>4. j.frequency = l.frequency + r.frequency /\ DOMAIN j.codes = DOMAIN l.codes \union DOMAIN r.codes
  BY DEF InternalNode
<1> HIDE DEF j
<1>5. tree' = (tree \ {l, r}) \union {j}
  BY <1>2 DEF j
<1>6. \A t \in tree' : t.frequency \in Nat
  <2>1. l.frequency \in Nat /\ r.frequency \in Nat
    BY <1>3 DEF HeapInv
  <2>2. j.frequency \in Nat
    BY <1>4, <2>1
  <2> QED
    BY <1>5, <2>2 DEF HeapInv
<1>7. UNION {DOMAIN t.codes : t \in tree'} = UNION {DOMAIN t.codes : t \in tree}
  BY <1>3, <1>4, <1>5
<1> QED
  BY <1>3, <1>5, <1>6, <1>7 DEF HeapInv

LEMMA HeapStays ==
    ASSUME HeapInv, UNCHANGED <<frequencies, tree>>,
           pc' # "build" => \A t, u \in tree : t = u
    PROVE  HeapInv'
BY DEF HeapInv

\* When the tree is built, the code of every symbol is where its leaf is.
LEMMA CodesAre ==
    ASSUME IInv, HeapInv, pc # "build"
    PROVE  /\ Codes \in [DOMAIN frequencies -> Seq({0, 1})]
           /\ \A c, d \in DOMAIN frequencies : c # d => Apart(Codes[c], Codes[d])
<1> DEFINE t == CHOOSE t_ \in tree : TRUE
<1>1. t \in tree /\ tree = {t}
  <2>1. t \in tree
    BY DEF HeapInv
  <2> HIDE DEF t
  <2> QED
    BY <2>1 DEF HeapInv
<1>2. Codes = t.codes
  BY DEF Codes
<1> HIDE DEF t
<1>3. DOMAIN t.codes = DOMAIN frequencies
  <2>1. UNION {DOMAIN u.codes : u \in {t}} = DOMAIN t.codes
    OBVIOUS
  <2> QED
    BY <1>1, <2>1 DEF HeapInv
<1> QED
  BY <1>1, <1>2, <1>3 DEF IInv, Paths, PrefixFree

--------------------------------------------------------------------------------
(* What is sent: the codes of the characters one after another, that of EoF behind them, *)
(* and then what the carriers append.                                                    *)

\* What an element of a joined sequence is, and that it is there.
Place(s, z, j, S) ==
    /\ Flat(s, j - 1) \in Seq(S) /\ Flat(s, j) \in Seq(S) /\ s[j] \in Seq(S)
    /\ Len(Flat(s, j)) = Len(Flat(s, j - 1)) + Len(s[j])
    /\ Len(Flat(s, j)) <= Len(Flat(s, Len(s)) \o z)
    /\ \A y \in 1 .. Len(s[j]) :
         (Flat(s, Len(s)) \o z)[Len(Flat(s, j - 1)) + y] = s[j][y]

LEMMA PlaceOf ==
    ASSUME NEW S, NEW s \in Seq(Seq(S)), NEW z \in Seq(S), NEW j \in 1 .. Len(s)
    PROVE  Place(s, z, j, S)
<1> DEFINE a == Flat(s, j - 1)
           b == Flat(s, j)
           c == Flat(s, Len(s))
<1>1. a \in Seq(S) /\ b \in Seq(S) /\ c \in Seq(S) /\ s[j] \in Seq(S)
  <2>1. j - 1 \in 0 .. Len(s) /\ j \in 0 .. Len(s) /\ Len(s) \in 0 .. Len(s)
    OBVIOUS
  <2> QED
    BY <2>1, FlatType
<1>2. b = a \o s[j]
  BY FlatStep
<1>3. Len(b) <= Len(c) /\ \A x \in 1 .. Len(b) : c[x] = b[x]
  <2>1. j \in 0 .. Len(s) /\ Len(s) \in j .. Len(s)
    OBVIOUS
  <2> QED
    BY <2>1, FlatGrows
<1> HIDE DEF a, b, c
<1>4. /\ Len(b) = Len(a) + Len(s[j]) /\ Len(a) \in Nat /\ Len(s[j]) \in Nat
      /\ \A y \in 1 .. Len(s[j]) : b[Len(a) + y] = s[j][y]
  BY <1>1, <1>2, JoinedAre
<1>5. /\ Len(c \o z) = Len(c) + Len(z) /\ Len(c) \in Nat /\ Len(z) \in Nat
      /\ \A x \in 1 .. Len(c) : (c \o z)[x] = c[x]
  BY <1>1, JoinedAre
<1> DEFINE la == Len(a)
           lb == Len(b)
           lc == Len(c)
           ls == Len(s[j])
<1>6. lb <= Len(c \o z)
  <2>1. lb <= lc /\ Len(c \o z) = lc + Len(z) /\ lc \in Nat /\ Len(z) \in Nat /\ lb = la + ls
        /\ la \in Nat /\ ls \in Nat
    BY <1>3, <1>4, <1>5
  <2> HIDE DEF la, lb, lc, ls
  <2> QED
    BY <2>1
<1>7. ASSUME NEW y \in 1 .. ls PROVE (c \o z)[la + y] = s[j][y]
  <2>1. la + y \in 1 .. lb /\ la + y \in 1 .. lc
    <3>1. lb <= lc /\ lc \in Nat /\ lb = la + ls /\ la \in Nat /\ ls \in Nat
      BY <1>3, <1>4, <1>5
    <3> HIDE DEF la, lb, lc, ls
    <3> QED
      BY <3>1
  <2>2. (c \o z)[la + y] = c[la + y] /\ c[la + y] = b[la + y] /\ b[la + y] = s[j][y]
    BY <1>3, <1>4, <1>5, <2>1
  <2> QED
    BY <2>2
<1> QED
  BY <1>1, <1>4, <1>6, <1>7 DEF a, b, c, Place

Data == TransformCharDomain(text)
\* What is compressed, and its codes.
Word == Append(Data, EoF)
Coded == [x \in 1 .. Len(Word) |-> Codes[Word[x]]]

\* What a text is when it could be compressed.
Sendable ==
    /\ text \in Seq(Symbols) /\ EoF \in DOMAIN frequencies
    /\ \A x \in DOMAIN Data : Data[x] \in DOMAIN frequencies

\* The characters that are not IsCharInvalid stay.
LEMMA DataIn == \A t \in Seq(Symbols) : TransformCharDomain(t) \in Seq(Alphabet)
<1> SUFFICES ASSUME NEW t \in Seq(Symbols) PROVE TransformCharDomain(t) \in Seq(Alphabet)
  OBVIOUS
<1> DEFINE s == [x \in DOMAIN t |-> IF IsCharInvalid(t[x]) THEN <<>> ELSE <<t[x]>>]
<1>1. s \in Seq(Seq(Alphabet)) /\ SubSeq(s, 1, Len(s)) = s /\ Len(s) \in 0 .. Len(s)
  <2>1. ASSUME NEW x \in 1 .. Len(t) PROVE s[x] \in Seq(Alphabet)
    BY DEF IsCharInvalid
  <2>2. DOMAIN s = 1 .. Len(t) /\ Len(t) \in Nat /\ s = [x \in 1 .. Len(t) |-> s[x]]
    OBVIOUS
  <2> HIDE DEF s
  <2>3. s \in [1 .. Len(t) -> Seq(Alphabet)]
    BY <2>1, <2>2
  <2>4. s \in Seq(Seq(Alphabet))
    BY <2>2, <2>3
  <2> QED
    BY <2>4, SubSeqFull
<1> HIDE DEF s
<1>2. Flat(s, Len(s)) \in Seq(Alphabet)
  BY <1>1, FlatType
<1> QED
  BY <1>1, <1>2 DEF Flat, TransformCharDomain, s

\* EoF is behind all the other characters of what is compressed, and only there.
LEMMA WordIs ==
    ASSUME Sendable
    PROVE  /\ Data \in Seq(Alphabet) /\ Len(Data) \in Nat
           /\ Word \in Seq(DOMAIN frequencies) /\ Len(Word) = Len(Data) + 1
           /\ \A x \in 1 .. Len(Data) : Word[x] = Data[x] /\ Data[x] \in Alphabet
           /\ \A x \in 1 .. Len(Word) : Word[x] = EoF <=> x = Len(Data) + 1
<1> DEFINE d == Data
<1>1. d \in Seq(Alphabet)
  BY DataIn DEF Sendable, Data
<1>2. EoF \in DOMAIN frequencies /\ \A x \in DOMAIN d : d[x] \in DOMAIN frequencies
  BY DEF Sendable
<1>3. Word = Append(d, EoF)
  BY DEF Word
<1> HIDE DEF d
<1>4. DOMAIN d = 1 .. Len(d) /\ Len(d) \in Nat /\ \A x \in 1 .. Len(d) : d[x] \in Alphabet
  BY <1>1
<1>5. d \in Seq(DOMAIN frequencies)
  BY <1>1, <1>2, <1>4
<1>6. /\ Word \in Seq(DOMAIN frequencies) /\ Len(Word) = Len(d) + 1
      /\ Word[Len(d) + 1] = EoF /\ \A x \in 1 .. Len(d) : Word[x] = d[x]
  BY <1>2, <1>3, <1>5
<1>7. \A x \in 1 .. Len(Word) : Word[x] = EoF <=> x = Len(d) + 1
  <2> SUFFICES ASSUME NEW x \in 1 .. Len(Word) PROVE Word[x] = EoF <=> x = Len(d) + 1
    OBVIOUS
  <2>1. x \in 1 .. Len(d) \/ x = Len(d) + 1
    BY <1>4, <1>6
  <2>2. CASE x = Len(d) + 1
    BY <1>6, <2>2
  <2>3. CASE x \in 1 .. Len(d)
    <3>1. Word[x] \in Alphabet /\ x # Len(d) + 1
      BY <1>4, <1>6, <2>3
    <3> QED
      BY <3>1, HuffmanAssumption
  <2> QED
    BY <2>1, <2>2, <2>3
<1> QED
  BY <1>1, <1>4, <1>6, <1>7 DEF d

LEMMA CodedIs ==
    ASSUME IInv, HeapInv, pc # "build", Sendable
    PROVE  /\ Coded \in Seq(Seq({0, 1})) /\ Len(Coded) = Len(Word)
           /\ \A x \in 1 .. Len(Word) : Coded[x] = Codes[Word[x]] /\ Word[x] \in DOMAIN frequencies
           /\ Compress(Data) = Flat(Coded, Len(Coded))
<1>1. /\ Word \in Seq(DOMAIN frequencies) /\ Len(Word) = Len(Data) + 1 /\ Len(Data) \in Nat
      /\ Data \in Seq(Alphabet)
      /\ \A x \in 1 .. Len(Data) : Word[x] = Data[x] 
      /\ \A x \in 1 .. Len(Word) : Word[x] = EoF <=> x = Len(Data) + 1
  BY WordIs
<1>2. Codes \in [DOMAIN frequencies -> Seq({0, 1})]
  BY CodesAre
<1>3. \A x \in 1 .. Len(Word) : Word[x] \in DOMAIN frequencies /\ Codes[Word[x]] \in Seq({0, 1})
  BY <1>1, <1>2
<1>4. Len(Word) \in Nat
  BY <1>1
<1>5. Coded \in [1 .. Len(Word) -> Seq({0, 1})] /\ \A x \in 1 .. Len(Word) : Coded[x] = Codes[Word[x]]
  BY <1>3 DEF Coded
<1>6. Coded \in Seq(Seq({0, 1})) /\ Len(Coded) = Len(Word)
  BY <1>4, <1>5
<1> DEFINE n == Len(Data)
           front == [x \in DOMAIN Data |-> Codes[Data[x]]]
<1>7. SubSeq(Coded, 1, n) = front
  <2>1. DOMAIN Data = 1 .. n
    BY <1>1
  <2>2. SubSeq(Coded, 1, n) = [x \in 1 .. n |-> Coded[x]]
    BY <1>1, <1>6
  <2>3. \A x \in 1 .. n : Coded[x] = Codes[Data[x]]
    BY <1>1, <1>5
  <2> HIDE DEF n
  <2> QED
    BY <2>1, <2>2, <2>3
<1>8. Flat(Coded, n + 1) = Flat(Coded, n) \o Coded[n + 1]
  <2>1. n + 1 \in 1 .. Len(Coded) /\ (n + 1) - 1 = n
    BY <1>1, <1>6
  <2> HIDE DEF n
  <2> QED
    BY <1>6, <2>1, FlatStep
<1>9. Coded[n + 1] = Codes[EoF] /\ Len(Coded) = n + 1
  <2>1. n + 1 \in 1 .. Len(Word) /\ Len(Coded) = n + 1
    BY <1>1, <1>6
  <2> QED
    BY <1>1, <1>5, <2>1
<1>10. Compress(Data) = FlattenSeq(front) \o Codes[EoF]
  BY DEF Compress
<1> HIDE DEF n, front
<1>11. Flat(Coded, n) = FlattenSeq(front)
  BY <1>7 DEF Flat
<1> QED
  BY <1>3, <1>5, <1>6, <1>8, <1>9, <1>10, <1>11

--------------------------------------------------------------------------------
(* What is read: characters of the text from its first one, and, of the next one's code, *)
(* bits that are not all of it yet.                                                      *)

Read == Len(decompData)
OnlyEoF == \A c \in DOMAIN frequencies : c = EoF

Decoding ==
    /\ Read < Len(Word)
    /\ decompData = SubSeq(Data, 1, Read)
    /\ Len(ch) < Len(Coded[Read + 1])
    /\ ch = SubSeq(Coded[Read + 1], 1, Len(ch))
    /\ pos = Len(Flat(Coded, Read)) + Len(ch)

Sent ==
    /\ Sendable
    /\ \E n \in Pads : bits = Compress(Data) \o [x \in 1 .. n |-> 0]

TextInv ==
    /\ pc \in {"build", "compress", "decompress", "done", "thrown"}
    /\ text \in Seq(Symbols)
    /\ bits \in Seq({0, 1}) /\ pos \in 0 .. Len(bits) /\ ch \in Seq({0, 1})
    /\ decompData \in Seq(Alphabet)
    /\ pc \in {"build", "compress", "thrown"} =>
         bits = <<>> /\ pos = 0 /\ ch = <<>> /\ decompData = <<>>
    /\ pc \in {"decompress", "done"} => Sent
    /\ pc = "decompress" => (IF OnlyEoF THEN decompData = <<>> ELSE Decoding)
    /\ pc = "done" => decompData = Data

\* With no other character but EoF there is no text.
LEMMA NoText ==
    ASSUME Sendable, OnlyEoF
    PROVE  Data = <<>>
<1>1. Data \in Seq(Alphabet) /\ \A x \in 1 .. Len(Data) : Data[x] \in Alphabet
  BY WordIs
<1>2. Len(Data) \in Nat /\ DOMAIN Data = 1 .. Len(Data)
  BY <1>1
<1>3. Len(Data) = 0
  <2>1. SUFFICES ASSUME Len(Data) # 0 PROVE FALSE
    OBVIOUS
  <2>2. 1 \in 1 .. Len(Data)
    BY <1>2, <2>1
  <2>3. Data[1] = EoF
    BY <1>2, <2>2 DEF Sendable, OnlyEoF
  <2> QED
    BY <1>1, <2>2, <2>3, HuffmanAssumption
<1> QED
  BY <1>1, <1>3

\* With another character no code is empty.
LEMMA CodesLast ==
    ASSUME IInv, HeapInv, pc # "build", Sendable, ~ OnlyEoF, NEW c \in DOMAIN frequencies
    PROVE  Codes[c] \in Seq({0, 1}) /\ Len(Codes[c]) \in Nat /\ 0 < Len(Codes[c])
<1>1. PICK d \in DOMAIN frequencies : d # EoF
  BY DEF OnlyEoF
<1>2. EoF \in DOMAIN frequencies
  BY DEF Sendable
<1>3. PICK e \in DOMAIN frequencies : e # c
  BY <1>1, <1>2
<1>4. Codes[c] \in Seq({0, 1}) /\ Apart(Codes[c], Codes[e])
  BY <1>3, CodesAre
<1>5. DOMAIN Codes[c] # {}
  BY <1>4 DEF Apart
<1>6. DOMAIN Codes[c] = 1 .. Len(Codes[c]) /\ Len(Codes[c]) \in Nat
  BY <1>4
<1> DEFINE l == Len(Codes[c])
<1>7. 0 < l
  <2>1. 1 .. l # {} /\ l \in Nat
    BY <1>5, <1>6
  <2> HIDE DEF l
  <2> QED
    BY <2>1
<1> QED
  BY <1>4, <1>6, <1>7

\* Where the reader stands, and the bits that he has with the next one.
LEMMA Standing ==
    ASSUME IInv, HeapInv, TextInv, pc = "decompress", ~ OnlyEoF
    PROVE  /\ Read \in Nat /\ Read + 1 \in 1 .. Len(Word) /\ Len(ch) \in Nat
           /\ Word[Read + 1] \in DOMAIN frequencies
           /\ Coded[Read + 1] = Codes[Word[Read + 1]] /\ Coded[Read + 1] \in Seq({0, 1})
           /\ Len(ch) < Len(Coded[Read + 1]) /\ Len(Coded[Read + 1]) \in Nat
           /\ pos = Len(Flat(Coded, Read)) + Len(ch) /\ Len(Flat(Coded, Read)) \in Nat
           /\ Len(Flat(Coded, Read + 1)) = Len(Flat(Coded, Read)) + Len(Coded[Read + 1])
           /\ pos < Len(bits)
           /\ Bit = SubSeq(Coded[Read + 1], 1, Len(ch) + 1)
           /\ Bit \in Seq({0, 1}) /\ Len(Bit) = Len(ch) + 1
<1>1. /\ Read < Len(Word) /\ decompData \in Seq(Alphabet)
      /\ Len(ch) < Len(Coded[Read + 1])
      /\ ch = SubSeq(Coded[Read + 1], 1, Len(ch)) /\ ch \in Seq({0, 1})
      /\ pos = Len(Flat(Coded, Read)) + Len(ch)
      /\ Sendable
  BY DEF TextInv, Decoding, Sent
<1>2. /\ Coded \in Seq(Seq({0, 1})) /\ Len(Coded) = Len(Word)
      /\ \A x \in 1 .. Len(Word) : Coded[x] = Codes[Word[x]] /\ Word[x] \in DOMAIN frequencies
      /\ Compress(Data) = Flat(Coded, Len(Coded))
  BY <1>1, CodedIs
<1>3. Len(Word) \in Nat
  BY <1>1, WordIs
<1>4. Read \in Nat
  BY <1>1 DEF Read
<1> DEFINE j == Read + 1
           code == Coded[j]
           front == Flat(Coded, Read)
<1>5. j \in 1 .. Len(Word) /\ j \in 1 .. Len(Coded) /\ j - 1 = Read
  BY <1>1, <1>2, <1>3, <1>4
<1>6. PICK n \in Pads : bits = Compress(Data) \o [x \in 1 .. n |-> 0]
  BY DEF TextInv, Sent
<1> DEFINE z == [x \in 1 .. n |-> 0]
<1>7. z \in Seq({0, 1})
  <2>1. n \in Nat
    BY HuffmanAssumption
  <2> QED
    BY <2>1
<1>8. bits = Flat(Coded, Len(Coded)) \o z
  BY <1>2, <1>6
<1> HIDE DEF j, z
<1>9. /\ front \in Seq({0, 1}) /\ Flat(Coded, j) \in Seq({0, 1}) /\ code \in Seq({0, 1})
      /\ Len(Flat(Coded, j)) = Len(front) + Len(code)
      /\ Len(Flat(Coded, j)) <= Len(bits)
      /\ \A y \in 1 .. Len(code) : bits[Len(front) + y] = code[y]
  <2>1. /\ Flat(Coded, j - 1) \in Seq({0, 1}) /\ Flat(Coded, j) \in Seq({0, 1})
        /\ code \in Seq({0, 1})
        /\ Len(Flat(Coded, j)) = Len(Flat(Coded, j - 1)) + Len(code)
        /\ Len(Flat(Coded, j)) <= Len(Flat(Coded, Len(Coded)) \o z)
        /\ \A y \in 1 .. Len(code) :
             (Flat(Coded, Len(Coded)) \o z)[Len(Flat(Coded, j - 1)) + y] = code[y]
    <3>1. /\ Coded \in Seq(Seq({0, 1})) /\ z \in Seq({0, 1}) /\ j \in 1 .. Len(Coded)
      BY <1>2, <1>5, <1>7
    <3>2. \A S : \A s \in Seq(Seq(S)), y \in Seq(S) : \A k \in 1 .. Len(s) : Place(s, y, k, S)
      BY PlaceOf
    <3>3. Place(Coded, z, j, {0, 1})
      BY <3>1, <3>2
    <3> QED
      BY <3>3 DEF Place
  <2> QED
    BY <1>5, <1>8, <2>1
<1>10. /\ Len(ch) < Len(code) /\ ch = SubSeq(code, 1, Len(ch)) /\ ch \in Seq({0, 1})
       /\ pos = Len(front) + Len(ch)
  BY <1>1 DEF j
<1>11. j \in 1 .. Len(Word) /\ Word[j] \in DOMAIN frequencies /\ code = Codes[Word[j]]
  BY <1>2, <1>5
<1>12. bits \in Seq({0, 1})
  BY DEF TextInv
<1> HIDE DEF code, front
<1> DEFINE lc == Len(ch)
           lk == Len(code)
           lf == Len(front)
           lb == Len(bits)
<1>13. lc \in Nat /\ lk \in Nat /\ lf \in Nat /\ lb \in Nat
  BY <1>9, <1>10, <1>12
<1>14. pos < lb /\ pos + 1 = lf + (lc + 1) /\ lc + 1 \in 1 .. lk /\ pos + 1 \in 1 .. lb
  <2>1. lf + lk <= lb /\ lc < lk /\ pos = lf + lc
    BY <1>9, <1>10
  <2> HIDE DEF lc, lk, lf, lb
  <2> QED
    BY <1>13, <2>1
<1>15. bits[pos + 1] = code[lc + 1] /\ code[lc + 1] \in {0, 1}
  <2>1. bits[lf + (lc + 1)] = code[lc + 1]
    BY <1>9, <1>14
  <2> QED
    BY <1>9, <1>14, <2>1
<1>16. Bit = Append(ch, code[lc + 1])
  BY <1>15 DEF Bit
<1>17. Bit \in Seq({0, 1}) /\ Len(Bit) = lc + 1
  BY <1>10, <1>15, <1>16
<1>18. Bit = SubSeq(code, 1, lc + 1)
  <2> DEFINE p == SubSeq(code, 1, lc + 1)
  <2>1. p \in Seq({0, 1}) /\ Len(p) = lc + 1 /\ \A x \in 1 .. lc + 1 : p[x] = code[x]
    BY <1>9, <1>14
  <2>2. \A x \in 1 .. lc : ch[x] = code[x]
    <3>1. \A x \in 1 .. lc : SubSeq(code, 1, lc)[x] = code[x]
      BY <1>9, <1>10
    <3> QED
      BY <1>10, <3>1
  <2>3. \A x \in 1 .. lc + 1 : Bit[x] = code[x]
    <3> SUFFICES ASSUME NEW x \in 1 .. lc + 1 PROVE Bit[x] = code[x]
      OBVIOUS
    <3>1. x \in 1 .. lc \/ x = lc + 1
      BY <1>13
    <3>2. CASE x \in 1 .. lc
      BY <1>10, <1>15, <1>16, <2>2, <3>2
    <3>3. CASE x = lc + 1
      BY <1>10, <1>15, <1>16, <3>3
    <3> QED
      BY <3>1, <3>2, <3>3
  <2> HIDE DEF p
  <2>4. Bit = p
    BY <1>17, <2>1, <2>3, SameSeq
  <2> QED
    BY <2>4 DEF p
<1> QED
  BY <1>4, <1>9, <1>10, <1>11, <1>13, <1>14, <1>17, <1>18 DEF j, code, front

\* He stands there whenever he has got a character, and at first.
LEMMA CodeBegins ==
    IInv /\ HeapInv /\ pc = "decompress" /\ Sent /\ ~ OnlyEoF
      /\ decompData = SubSeq(Data, 1, Read) /\ Read \in 0 .. Len(Data)
      /\ ch = <<>> /\ pos = Len(Flat(Coded, Read)) => Decoding
<1> SUFFICES ASSUME IInv, HeapInv, pc = "decompress", Sent, ~ OnlyEoF,
                    decompData = SubSeq(Data, 1, Read), Read \in 0 .. Len(Data),
                    ch = <<>>, pos = Len(Flat(Coded, Read))
             PROVE  Decoding
  OBVIOUS
<1>1. Sendable
  BY DEF Sent
<1>2. /\ Len(Word) = Len(Data) + 1 /\ Len(Data) \in Nat
      /\ Coded \in Seq(Seq({0, 1})) /\ Len(Coded) = Len(Word)
      /\ \A x \in 1 .. Len(Word) : Coded[x] = Codes[Word[x]] /\ Word[x] \in DOMAIN frequencies
  BY <1>1, WordIs, CodedIs
<1>3. Read + 1 \in 1 .. Len(Word) /\ Read < Len(Word) /\ Read \in 0 .. Len(Coded)
  BY <1>2
<1>4. Word[Read + 1] \in DOMAIN frequencies /\ Coded[Read + 1] = Codes[Word[Read + 1]]
  BY <1>2, <1>3
<1>5. Coded[Read + 1] \in Seq({0, 1}) /\ 0 < Len(Coded[Read + 1])
  BY <1>1, <1>4, CodesLast
<1>6. Len(ch) = 0 /\ ch = SubSeq(Coded[Read + 1], 1, 0)
  BY <1>5
<1>7. Flat(Coded, Read) \in Seq({0, 1})
  BY <1>2, <1>3, FlatType
<1>8. pos = Len(Flat(Coded, Read)) + Len(ch)
  BY <1>6, <1>7
<1> QED
  BY <1>3, <1>5, <1>6, <1>8 DEF Decoding

\* A code that begins like the next character's is that character's.
LEMMA OneSymbol ==
    ASSUME IInv, HeapInv, TextInv, pc = "decompress", ~ OnlyEoF, NEW c \in Symbol
    PROVE  c = Word[Read + 1] /\ Bit = Coded[Read + 1]
<1>1. c \in DOMAIN Codes /\ Codes[c] = Bit
  BY DEF Symbol
<1>2. /\ \A a \in DOMAIN frequencies : Codes[a] \in Seq({0, 1})
      /\ DOMAIN Codes = DOMAIN frequencies
      /\ \A a, b \in DOMAIN frequencies : a # b => Apart(Codes[a], Codes[b])
  BY CodesAre
<1> DEFINE w == Word[Read + 1]
           code == Coded[Read + 1]
<1>3. /\ w \in DOMAIN frequencies /\ code = Codes[w] /\ code \in Seq({0, 1})
      /\ Len(ch) \in Nat /\ Len(ch) + 1 \in 1 .. Len(code)
      /\ Bit = SubSeq(code, 1, Len(ch) + 1)
  <2>1. /\ w \in DOMAIN frequencies /\ code = Codes[w] /\ code \in Seq({0, 1})
        /\ Len(ch) \in Nat /\ Len(ch) < Len(code) /\ Len(code) \in Nat
        /\ Bit = SubSeq(code, 1, Len(ch) + 1)
    BY Standing
  <2> HIDE DEF w, code
  <2> QED
    BY <2>1
<1> HIDE DEF w, code
<1>4. c = w
  <2>1. SUFFICES ASSUME c # w PROVE FALSE
    OBVIOUS
  <2>2. Apart(Bit, code)
    BY <1>1, <1>2, <1>3, <2>1
  <2>3. DOMAIN Bit = 1 .. Len(ch) + 1 /\ \A x \in 1 .. Len(ch) + 1 : Bit[x] = code[x]
    BY <1>3
  <2> QED
    BY <2>2, <2>3 DEF Apart
<1>5. Bit = code
  BY <1>1, <1>3, <1>4
<1> QED
  BY <1>4, <1>5 DEF w, code

LEMMA FlatEmpty == \A s : Flat(s, 0) = <<>>
<1> SUFFICES ASSUME NEW s PROVE Flat(s, 0) = <<>>
  OBVIOUS
<1>1. SubSeq(s, 1, 0) = <<>>
  OBVIOUS
<1> QED
  BY <1>1 DEF Flat, FlattenSeq

\* What is sent are bits.
LEMMA SentBits == IInv /\ HeapInv /\ pc = "decompress" /\ Sent => bits \in Seq({0, 1})
<1> SUFFICES ASSUME IInv, HeapInv, pc = "decompress", Sent PROVE bits \in Seq({0, 1})
  OBVIOUS
<1>1. PICK n \in Pads : bits = Compress(Data) \o [x \in 1 .. n |-> 0]
  BY DEF Sent
<1>2. Coded \in Seq(Seq({0, 1})) /\ Compress(Data) = Flat(Coded, Len(Coded))
  BY CodedIs DEF Sent
<1>3. Len(Coded) \in 0 .. Len(Coded)
  BY <1>2
<1>4. Compress(Data) \in Seq({0, 1})
  BY <1>2, <1>3, FlatType
<1>5. n \in Nat
  BY HuffmanAssumption
<1> DEFINE a == Compress(Data)
           z == [x \in 1 .. n |-> 0]
<1>6. z \in Seq({0, 1})
  BY <1>5
<1> HIDE DEF a, z
<1>7. a \o z \in Seq({0, 1})
  BY <1>4, <1>6 DEF a
<1> QED
  BY <1>1, <1>7 DEF a, z

\* A step that leaves the bits leaves what they are made of.
LEMMA WordStays ==
    ASSUME UNCHANGED <<frequencies, tree, text, bits>>
    PROVE  /\ Data' = Data /\ Word' = Word /\ Codes' = Codes /\ Coded' = Coded
           /\ Sendable' = Sendable /\ Sent' = Sent /\ OnlyEoF' = OnlyEoF
           /\ Compress(Data)' = Compress(Data)
<1>1. Data' = Data /\ Codes' = Codes
  BY DEF Data, Codes, TransformCharDomain
<1>2. Word' = Word
  BY <1>1 DEF Word
<1>3. Coded' = Coded /\ Compress(Data)' = Compress(Data)
  BY <1>1, <1>2 DEF Coded, Compress
<1>4. Sendable' = Sendable
  BY <1>1 DEF Sendable
<1>5. Sent' = Sent
  BY <1>3, <1>4 DEF Sent
<1>6. OnlyEoF' = OnlyEoF
  BY DEF OnlyEoF
<1> QED
  BY <1>1, <1>2, <1>3, <1>4, <1>5, <1>6

--------------------------------------------------------------------------------
(* The steps. *)

LEMMA SendText == IInv /\ HeapInv /\ TextInv /\ Send => TextInv'
<1> SUFFICES ASSUME IInv, HeapInv, TextInv, Send PROVE TextInv'
  OBVIOUS
<1>1. /\ pc = "compress" /\ pos = 0 /\ ch = <<>> /\ decompData = <<>>
      /\ UNCHANGED <<frequencies, tree, pos, ch, decompData>>
  BY DEF Send, TextInv
<1>2. text' \in Seq(Symbols)
  BY DEF Send
<1>3. CASE pc' = "thrown" /\ bits' = <<>>
  BY <1>1, <1>2, <1>3 DEF TextInv
<1>4. CASE /\ Known(TransformCharDomain(text')) /\ EoF \in DOMAIN Codes
           /\ \E n \in Pads : bits' = Compress(TransformCharDomain(text')) \o [x \in 1 .. n |-> 0]
           /\ pc' = "decompress"
  <2>1. (IInv /\ HeapInv)' 
    <3>1. \A t, u \in tree : t = u
      BY <1>1 DEF HeapInv
    <3> QED
      BY <1>1, <3>1, HeapStays, TreeStays
  <2>2. Codes' = Codes /\ DOMAIN Codes = DOMAIN frequencies
    BY <1>1, CodesAre DEF Codes
  <2>3. Data' = TransformCharDomain(text')
    BY DEF Data, TransformCharDomain
  <2>4. Sendable'
    BY <1>1, <1>2, <1>4, <2>2, <2>3 DEF Sendable, Known
  <2>5. Compress(Data)' = Compress(TransformCharDomain(text'))
    BY <2>2, <2>3 DEF Compress
  <2>6. Sent'
    BY <1>4, <2>4, <2>5 DEF Sent
  <2>7. pc' = "decompress" /\ pos' = 0 /\ ch' = <<>> /\ decompData' = <<>> /\ Read' = 0
    BY <1>1, <1>4 DEF Read
  <2>8. Decoding' \/ OnlyEoF'
    <3>1. SUFFICES ASSUME ~ OnlyEoF' PROVE Decoding'
      OBVIOUS
    <3>2. (Sendable => Data \in Seq(Alphabet) /\ Len(Data) \in Nat)'
      BY WordIs, PTL
    <3>3. (Read \in 0 .. Len(Data) /\ decompData = SubSeq(Data, 1, Read))'
      BY <2>4, <2>7, <3>2
    <3>4. (pos = Len(Flat(Coded, Read)))'
      BY <2>7, FlatEmpty
    <3>5. (IInv /\ HeapInv /\ pc = "decompress" /\ Sent /\ ~ OnlyEoF
             /\ decompData = SubSeq(Data, 1, Read) /\ Read \in 0 .. Len(Data)
             /\ ch = <<>> /\ pos = Len(Flat(Coded, Read)))'
      BY <2>1, <2>6, <2>7, <3>1, <3>3, <3>4
    <3> QED
      BY <3>5, CodeBegins, PTL
  <2>9. (bits \in Seq({0, 1}))'
    <3>1. (IInv /\ HeapInv /\ pc = "decompress" /\ Sent)'
      BY <2>1, <2>6, <2>7
    <3> QED
      BY <3>1, SentBits, PTL
  <2> QED
    BY <1>2, <2>6, <2>7, <2>8, <2>9 DEF TextInv
<1> QED
  BY <1>3, <1>4 DEF Send

LEMMA PushBitText == IInv /\ HeapInv /\ TextInv /\ PushBit => TextInv'
<1> SUFFICES ASSUME IInv, HeapInv, TextInv, PushBit PROVE TextInv'
  OBVIOUS
<1>1. /\ pc = "decompress" /\ pos < Len(bits) /\ Symbol = {} /\ ch' = Bit /\ pos' = pos + 1
      /\ UNCHANGED <<frequencies, pc, tree, text, bits, decompData>>
  BY DEF PushBit
<1>2. /\ text \in Seq(Symbols) /\ bits \in Seq({0, 1}) /\ pos \in 0 .. Len(bits)
      /\ ch \in Seq({0, 1}) /\ decompData \in Seq(Alphabet) /\ Sent
  BY <1>1 DEF TextInv
<1>3. Sent' /\ OnlyEoF' = OnlyEoF /\ Data' = Data /\ Word' = Word /\ Coded' = Coded
  BY <1>1, <1>2, WordStays
<1>4. pos' \in 0 .. Len(bits) /\ ch' \in Seq({0, 1})
  <2>1. Len(bits) \in Nat /\ pos + 1 \in 1 .. Len(bits)
    BY <1>1, <1>2
  <2>2. bits[pos + 1] \in {0, 1}
    BY <1>2, <2>1
  <2>3. Bit \in Seq({0, 1})
    BY <1>2, <2>2 DEF Bit
  <2> QED
    BY <1>1, <2>1, <2>3
<1>5. IF OnlyEoF' THEN decompData' = <<>> ELSE Decoding'
  <2>1. CASE OnlyEoF
    BY <1>1, <1>3, <2>1 DEF TextInv
  <2>2. CASE ~ OnlyEoF
    <3>1. /\ Read \in Nat /\ Len(ch) \in Nat /\ Word[Read + 1] \in DOMAIN frequencies
          /\ Coded[Read + 1] = Codes[Word[Read + 1]] /\ Coded[Read + 1] \in Seq({0, 1})
          /\ Len(ch) < Len(Coded[Read + 1]) /\ Len(Coded[Read + 1]) \in Nat
          /\ pos = Len(Flat(Coded, Read)) + Len(ch) /\ Len(Flat(Coded, Read)) \in Nat
          /\ Bit = SubSeq(Coded[Read + 1], 1, Len(ch) + 1) /\ Len(Bit) = Len(ch) + 1
      BY <1>1, <2>2, Standing
    <3>2. Read' = Read
      BY <1>1 DEF Read
    <3>3. Len(Bit) # Len(Coded[Read + 1])
      <4>1. SUFFICES ASSUME Len(ch) + 1 = Len(Coded[Read + 1]) PROVE FALSE
        BY <3>1
      <4>2. Bit = Coded[Read + 1]
        BY <3>1, <4>1, SubSeqFull
      <4>3. DOMAIN Codes = DOMAIN frequencies
        BY <1>1, CodesAre
      <4>4. Word[Read + 1] \in Symbol
        BY <3>1, <4>2, <4>3 DEF Symbol
      <4> QED
        BY <1>1, <4>4
    <3>4. Decoding
      BY <1>1, <2>2 DEF TextInv
    <3> DEFINE code == Coded[Read + 1]
               lf == Len(Flat(Coded, Read))
               lc == Len(ch)
               lk == Len(code)
    <3>5. lc + 1 < lk /\ Len(ch') = lc + 1 /\ pos' = lf + Len(ch')
      <4>1. lc < lk /\ lc + 1 # lk /\ lc \in Nat /\ lk \in Nat /\ pos' = pos + 1
            /\ pos = lf + lc /\ lf \in Nat /\ Len(ch') = lc + 1
        BY <1>1, <3>1, <3>3
      <4> HIDE DEF lf, lc, lk
      <4> QED
        BY <4>1
    <3>6. ch' = SubSeq(code, 1, Len(ch'))
      BY <1>1, <3>1
    <3>7. Read < Len(Word) /\ decompData' = SubSeq(Data, 1, Read)
      BY <1>1, <3>4 DEF Decoding
    <3>8. /\ Read' < Len(Word') /\ decompData' = SubSeq(Data', 1, Read')
          /\ Len(ch') < Len(Coded'[Read' + 1])
          /\ ch' = SubSeq(Coded'[Read' + 1], 1, Len(ch'))
          /\ pos' = Len(Flat(Coded', Read')) + Len(ch')
      <4>1. Len(ch') < lk
        BY <3>5
      <4> QED
        BY <1>3, <3>2, <3>5, <3>6, <3>7, <4>1
    <3> QED
      BY <2>2, <1>3, <3>8 DEF Decoding
  <2> QED
    BY <1>3, <2>1, <2>2
<1> QED
  BY <1>1, <1>2, <1>3, <1>4, <1>5 DEF TextInv

LEMMA PushSymbolText == IInv /\ HeapInv /\ TextInv /\ PushSymbol => TextInv'
<1> SUFFICES ASSUME IInv, HeapInv, TextInv, PushSymbol PROVE TextInv'
  OBVIOUS
<1>1. PICK c \in Symbol \ {EoF} : decompData' = Append(decompData, c)
  BY DEF PushSymbol
<1>2. /\ pc = "decompress" /\ pos < Len(bits) /\ ch' = <<>> /\ pos' = pos + 1
      /\ UNCHANGED <<frequencies, pc, tree, text, bits>>
  BY DEF PushSymbol
<1>3. /\ text \in Seq(Symbols) /\ bits \in Seq({0, 1}) /\ pos \in 0 .. Len(bits)
      /\ decompData \in Seq(Alphabet) /\ Sent /\ Sendable
  BY <1>2 DEF TextInv, Sent
<1>4. Sent' /\ OnlyEoF' = OnlyEoF /\ Data' = Data /\ Word' = Word /\ Coded' = Coded
  BY <1>2, <1>3, WordStays
<1>5. ~ OnlyEoF
  <2>1. c \in DOMAIN frequencies
    BY <1>2, CodesAre DEF Symbol
  <2> QED
    BY <2>1 DEF OnlyEoF
<1>6. c = Word[Read + 1] /\ Bit = Coded[Read + 1]
  BY <1>2, <1>5, OneSymbol
<1>7. /\ Read \in Nat /\ Read + 1 \in 1 .. Len(Word) /\ Len(ch) \in Nat
      /\ pos = Len(Flat(Coded, Read)) + Len(ch) /\ Len(Flat(Coded, Read)) \in Nat
      /\ Len(Flat(Coded, Read + 1)) = Len(Flat(Coded, Read)) + Len(Coded[Read + 1])
      /\ Len(Bit) = Len(ch) + 1
  BY <1>2, <1>5, Standing
<1>8. /\ Data \in Seq(Alphabet) /\ Len(Data) \in Nat /\ Len(Word) = Len(Data) + 1
      /\ \A x \in 1 .. Len(Data) : Word[x] = Data[x] /\ Data[x] \in Alphabet
      /\ \A x \in 1 .. Len(Word) : Word[x] = EoF <=> x = Len(Data) + 1
  BY <1>3, WordIs
<1>9. Read + 1 \in 1 .. Len(Data) /\ c = Data[Read + 1] /\ c \in Alphabet
  <2>1. Read + 1 # Len(Data) + 1
    BY <1>1, <1>6, <1>7, <1>8
  <2>2. Read + 1 \in 1 .. Len(Data)
    BY <1>7, <1>8, <2>1
  <2> QED
    BY <1>6, <1>8, <2>2
<1>10. decompData' \in Seq(Alphabet) /\ Read' = Read + 1
  BY <1>1, <1>3, <1>9 DEF Read
<1>11. decompData' = SubSeq(Data, 1, Read + 1)
  <2>1. decompData = SubSeq(Data, 1, Read) /\ Len(decompData) = Read
    BY <1>2, <1>5 DEF TextInv, Decoding, Read
  <2> DEFINE j == Read
             d == Data
             p == SubSeq(d, 1, j + 1)
  <2>2. p \in Seq(Alphabet) /\ Len(p) = j + 1 /\ \A x \in 1 .. j + 1 : p[x] = d[x]
    BY <1>8, <1>9
  <2>3. \A x \in 1 .. j : decompData[x] = d[x]
    BY <1>7, <1>8, <1>9, <2>1
  <2>4. /\ Len(decompData') = j + 1
        /\ \A x \in 1 .. j + 1 : decompData'[x] = IF x = j + 1 THEN c ELSE decompData[x]
    BY <1>1, <1>3, <1>7, <1>9, <2>1
  <2>5. \A x \in 1 .. j + 1 : decompData'[x] = d[x]
    <3> SUFFICES ASSUME NEW x \in 1 .. j + 1 PROVE decompData'[x] = d[x]
      OBVIOUS
    <3>1. x = j + 1 \/ x \in 1 .. j
      BY <1>7
    <3> QED
      BY <1>9, <2>3, <2>4, <3>1
  <2> HIDE DEF p
  <2>6. decompData' = p
    BY <1>10, <2>2, <2>4, <2>5, SameSeq
  <2> QED
    BY <2>6 DEF p
<1>12. pos' = Len(Flat(Coded, Read + 1)) /\ pos' \in 0 .. Len(bits)
  <2>1. pos' \in 0 .. Len(bits)
    BY <1>2, <1>3
  <2> DEFINE a == Len(Flat(Coded, Read))
             b == Len(Flat(Coded, Read + 1))
             lc == Len(ch)
             lb == Len(Bit)
  <2>2. b = a + lb /\ lb = lc + 1 /\ pos = a + lc /\ pos' = pos + 1 /\ a \in Nat /\ lc \in Nat
    BY <1>2, <1>6, <1>7
  <2> HIDE DEF a, b, lc, lb
  <2>3. pos' = b
    BY <2>2
  <2> QED
    BY <2>1, <2>3 DEF b
<1>13. Decoding'
  <2>1. IInv' /\ HeapInv'
    BY <1>2, HeapStays, TreeStays DEF HeapInv
  <2>2. (decompData = SubSeq(Data, 1, Read) /\ Read \in 0 .. Len(Data))'
    BY <1>4, <1>7, <1>8, <1>9, <1>10, <1>11
  <2>3. (ch = <<>> /\ pos = Len(Flat(Coded, Read)))'
    BY <1>2, <1>4, <1>10, <1>12
  <2>4. (IInv /\ HeapInv /\ pc = "decompress" /\ Sent /\ ~ OnlyEoF
           /\ decompData = SubSeq(Data, 1, Read) /\ Read \in 0 .. Len(Data)
           /\ ch = <<>> /\ pos = Len(Flat(Coded, Read)))'
    BY <1>2, <1>4, <1>5, <2>1, <2>2, <2>3
  <2> QED
    BY <2>4, CodeBegins, PTL
<1> QED
  BY <1>2, <1>3, <1>4, <1>5, <1>10, <1>12, <1>13 DEF TextInv

LEMMA BreakText == IInv /\ HeapInv /\ TextInv /\ Break => TextInv'
<1> SUFFICES ASSUME IInv, HeapInv, TextInv, Break PROVE TextInv'
  OBVIOUS
<1>1. /\ pc = "decompress" /\ pc' = "done"
      /\ pos = Len(bits) \/ EoF \in Symbol
      /\ UNCHANGED <<frequencies, tree, text, bits, pos, ch, decompData>>
  BY DEF Break
<1>2. /\ text \in Seq(Symbols) /\ bits \in Seq({0, 1}) /\ pos \in 0 .. Len(bits)
      /\ ch \in Seq({0, 1}) /\ decompData \in Seq(Alphabet) /\ Sent /\ Sendable
  BY <1>1 DEF TextInv, Sent
<1>3. Sent' /\ Data' = Data
  BY <1>1, <1>2, WordStays
<1>4. decompData = Data
  <2>1. CASE OnlyEoF
    BY <1>1, <1>2, <2>1, NoText DEF TextInv
  <2>2. CASE ~ OnlyEoF
    <3>1. pos < Len(bits) /\ Read \in Nat /\ Read + 1 \in 1 .. Len(Word)
      BY <1>1, <2>2, Standing
    <3>2. EoF \in Symbol
      BY <1>1, <1>2, <3>1
    <3>3. EoF = Word[Read + 1]
      BY <1>1, <2>2, <3>2, OneSymbol
    <3>4. /\ Data \in Seq(Alphabet) /\ Len(Data) \in Nat
          /\ \A x \in 1 .. Len(Word) : Word[x] = EoF <=> x = Len(Data) + 1
      BY <1>2, WordIs
    <3>5. Read = Len(Data)
      BY <3>1, <3>3, <3>4
    <3>6. decompData = SubSeq(Data, 1, Read)
      BY <1>1, <2>2 DEF TextInv, Decoding
    <3>7. SubSeq(Data, 1, Len(Data)) = Data
      BY <3>4, SubSeqFull
    <3> QED
      BY <3>5, <3>6, <3>7
  <2> QED
    BY <2>1, <2>2
<1> QED
  BY <1>1, <1>2, <1>3, <1>4 DEF TextInv

\* Whatever is compressed and whatever the carriers append: each step of Decompress
\* is in the code of the next character, so that it takes no beginning for a character
\* and stops at EoF, no earlier and no later.
THEOREM TextsAreRead == Spec => []TextsHold
<1> DEFINE Inv == IInv /\ HeapInv /\ TextInv
<1>1. Init => Inv
  <2> SUFFICES ASSUME Init PROVE TextInv
    BY InitInv, HeapInit
  <2> QED
    BY DEF Init, TextInv
<1>2. Inv /\ [Next]_vars => Inv'
  <2> SUFFICES ASSUME Inv, [Next]_vars PROVE Inv'
    OBVIOUS
  <2>1. CASE BuildTree
    <3>1. TextInv'
      BY <2>1 DEF BuildTree, TextInv
    <3> QED
      BY <2>1, <3>1, BuildTreeInv, HeapBuilds
  <2>2. CASE GenerateCodes
    <3>1. TextInv'
      BY <2>2 DEF GenerateCodes, TextInv
    <3> QED
      BY <2>2, <3>1, TreeStays, HeapStays DEF GenerateCodes
  <2>3. CASE Send
    <3>1. HeapInv'
      BY <2>3, HeapStays DEF Send, HeapInv
    <3> QED
      BY <2>3, <3>1, SendText, TreeStays DEF Send
  <2>4. CASE Decompress
    <3>1. UNCHANGED <<frequencies, tree>> /\ pc = "decompress"
      BY <2>4 DEF Decompress, PushBit, PushSymbol, Break
    <3>2. IInv' /\ HeapInv'
      BY <3>1, TreeStays, HeapStays DEF HeapInv
    <3> QED
      BY <2>4, <3>2, PushBitText, PushSymbolText, BreakText DEF Decompress
  <2>5. CASE UNCHANGED vars
    <3>1. UNCHANGED <<frequencies, pc, tree, text, bits, pos, ch, decompData>>
      BY <2>5 DEF vars
    <3>2. IInv' /\ HeapInv'
      BY <3>1, TreeStays, HeapStays DEF HeapInv
    <3>3. TextInv'
      BY <3>1, WordStays DEF TextInv, Decoding, Read
    <3> QED
      BY <3>2, <3>3
  <2> QED
    BY <2>1, <2>2, <2>3, <2>4, <2>5 DEF Next
<1>3. Inv => TextsHold
  <2> SUFFICES ASSUME Inv PROVE TextsHold
    OBVIOUS
  <2>1. TypeOK
    BY DEF TypeOK, IInv, HeapInv, Paths, TextInv
  <2>2. RoundTrip
    BY DEF RoundTrip, TextInv, Data
  <2> QED
    BY <2>1, <2>2 DEF TextsHold, IInv
<1> HIDE DEF Inv
<1> QED
  BY <1>1, <1>2, <1>3, PTL DEF Spec

--------------------------------------------------------------------------------
(* Data streams. *)

Behind == SubSeq(vch, 1, nReadPos)

StreamType ==
    /\ vch \in Seq(Nat) /\ nReadPos \in 0 .. Len(vch) /\ read \in Seq(Nat)
    /\ failed \in BOOLEAN /\ throws \in BOOLEAN

\* Two halves are told apart by where the first one ends.
LEMMA Halves ==
    ASSUME NEW s \in Seq(Nat), NEW t \in Seq(Nat)
    PROVE  /\ s \o t \in Seq(Nat) /\ Len(s \o t) = Len(s) + Len(t)
           /\ SubSeq(s \o t, 1, Len(s)) = s
           /\ SubSeq(s \o t, Len(s) + 1, Len(s \o t)) = t
<1>1. s \o t \in Seq(Nat) /\ Len(s \o t) = Len(s) + Len(t)
  OBVIOUS
<1>2. \A x \in 1 .. Len(s) + Len(t) : (s \o t)[x] = IF x <= Len(s) THEN s[x] ELSE t[x - Len(s)]
  OBVIOUS
<1>3. SubSeq(s \o t, 1, Len(s)) = s
  BY <1>1, <1>2
<1>4. SubSeq(s \o t, Len(s) + 1, Len(s \o t)) = t
  BY <1>1, <1>2
<1> QED
  BY <1>1, <1>3, <1>4

\* And any place tells two halves.
LEMMA Halved ==
    ASSUME NEW s \in Seq(Nat), NEW m \in 0 .. Len(s)
    PROVE  /\ SubSeq(s, 1, m) \in Seq(Nat) /\ Len(SubSeq(s, 1, m)) = m
           /\ SubSeq(s, m + 1, Len(s)) \in Seq(Nat) /\ Len(SubSeq(s, m + 1, Len(s))) = Len(s) - m
           /\ s = SubSeq(s, 1, m) \o SubSeq(s, m + 1, Len(s))
<1>1. SubSeq(s, 1, m) \in Seq(Nat) /\ Len(SubSeq(s, 1, m)) = m
  OBVIOUS
<1>2. SubSeq(s, m + 1, Len(s)) \in Seq(Nat) /\ Len(SubSeq(s, m + 1, Len(s))) = Len(s) - m
  OBVIOUS
<1>3. s = SubSeq(s, 1, m) \o SubSeq(s, m + 1, Len(s))
  <2>1. SubSeq(s, 1, Len(s)) = s
    BY SubSeqFull
  <2>2. SubSeq(s, 1, m) \o SubSeq(s, m + 1, Len(s)) = SubSeq(s, 1, Len(s))
    <3>1. \A k \in 0 .. Len(s) : \A n \in k .. Len(s) :
             SubSeq(s, 1, k) \o SubSeq(s, k + 1, n) = SubSeq(s, 1, n)
      BY ConcatAdjacentSubSeq
    <3>2. Len(s) \in m .. Len(s)
      OBVIOUS
    <3> QED
      BY <3>1, <3>2
  <2> QED
    BY <2>1, <2>2
<1> QED
  BY <1>1, <1>2, <1>3

LEMMA HalvesAre ==
    \A s, t \in Seq(Nat) :
      /\ s \o t \in Seq(Nat) /\ Len(s \o t) = Len(s) + Len(t)
      /\ SubSeq(s \o t, 1, Len(s)) = s
      /\ SubSeq(s \o t, Len(s) + 1, Len(s \o t)) = t
BY Halves

LEMMA HalvedAt ==
    \A s, t \in Seq(Nat) : \A q \in Seq(Nat) : \A m \in Nat :
      q = s \o t /\ m = Len(s) =>
        SubSeq(q, 1, m) = s /\ SubSeq(q, m + 1, Len(q)) = t
BY HalvesAre

\* The stream, as what has been read of it and what has not.
LEMMA StreamHalved ==
    ASSUME StreamType
    PROVE  /\ Behind \in Seq(Nat) /\ Len(Behind) = nReadPos
           /\ Unread \in Seq(Nat) /\ Len(Unread) = size
           /\ vch = Behind \o Unread
BY Halved DEF StreamType, Behind, Unread, size

\* Any two halves are what a stream becomes that is put together of them.
LEMMA Becomes ==
    ASSUME NEW b \in Seq(Nat), NEW a \in Seq(Nat), vch' = b \o a, nReadPos' = Len(b)
    PROVE  /\ Behind' = b /\ Unread' = a
           /\ vch' \in Seq(Nat) /\ nReadPos' \in 0 .. Len(vch')
<1>1. SubSeq(vch', 1, nReadPos') = b /\ SubSeq(vch', nReadPos' + 1, Len(vch')) = a
  BY Halves
<1>2. vch' \in Seq(Nat) /\ Len(vch') = Len(b) + Len(a)
  BY Halves
<1> QED
  BY <1>1, <1>2 DEF Behind, Unread

\* Nothing is put together of nothing.
LEMMA BecomesEmpty ==
    ASSUME vch' = <<>>, nReadPos' = 0
    PROVE  /\ Behind' = <<>> /\ Unread' = <<>>
           /\ vch' \in Seq(Nat) /\ nReadPos' \in 0 .. Len(vch')
BY DEF Behind, Unread

Ahead(n) == SubSeq(Unread, 1, n)
After(n) == SubSeq(Unread, n + 1, Len(Unread))

\* A place among what is to come is one of the stream.
LEMMA Places ==
    ASSUME StreamType, NEW n \in 0 .. size
    PROVE  /\ Ahead(n) \in Seq(Nat) /\ Len(Ahead(n)) = n /\ After(n) \in Seq(Nat)
           /\ Unread = Ahead(n) \o After(n)
           /\ vch = (Behind \o Ahead(n)) \o After(n)
           /\ SubSeq(vch, 1, nReadPos + n) = Behind \o Ahead(n)
           /\ SubSeq(vch, nReadPos + n + 1, Len(vch)) = After(n)
           /\ SubSeq(vch, nReadPos + 1, nReadPos + n) = Ahead(n)
           /\ Behind \o Ahead(n) \in Seq(Nat) /\ Len(Behind \o Ahead(n)) = nReadPos + n
<1>1. /\ Behind \in Seq(Nat) /\ Len(Behind) = nReadPos
      /\ Unread \in Seq(Nat) /\ Len(Unread) = size
      /\ vch = Behind \o Unread
  BY StreamHalved
<1>2. /\ Ahead(n) \in Seq(Nat) /\ Len(Ahead(n)) = n /\ After(n) \in Seq(Nat)
      /\ Unread = Ahead(n) \o After(n)
  BY <1>1, Halved DEF Ahead, After
<1>3. vch = (Behind \o Ahead(n)) \o After(n)
  BY <1>1, <1>2, JoinThree
<1>4. Behind \o Ahead(n) \in Seq(Nat) /\ Len(Behind \o Ahead(n)) = nReadPos + n
  <2>1. Behind \o Ahead(n) \in Seq(Nat) /\ Len(Behind \o Ahead(n)) = Len(Behind) + Len(Ahead(n))
    BY <1>1, <1>2, HalvesAre
  <2> QED
    BY <1>1, <1>2, <2>1
<1>5. /\ SubSeq(vch, 1, nReadPos + n) = Behind \o Ahead(n)
      /\ SubSeq(vch, nReadPos + n + 1, Len(vch)) = After(n)
  <2> DEFINE p == Behind \o Ahead(n)
  <2>1. p \in Seq(Nat) /\ nReadPos + n = Len(p) /\ nReadPos + n \in Nat
    BY <1>4 DEF StreamType, size
  <2>2. vch \in Seq(Nat) /\ vch = p \o After(n)
    BY <1>3 DEF StreamType
  <2> HIDE DEF p
  <2>3. SubSeq(vch, 1, nReadPos + n) = p /\ SubSeq(vch, nReadPos + n + 1, Len(vch)) = After(n)
    BY <1>2, <2>1, <2>2, HalvedAt, SMTT(30)
  <2> QED
    BY <2>3 DEF p
<1>6. SubSeq(vch, nReadPos + 1, nReadPos + n) = Ahead(n)
  BY DEF Ahead, Unread, StreamType, size
<1> QED
  BY <1>2, <1>3, <1>4, <1>5, <1>6

\* The position moves, or at the end the buffer is cleared.
LEMMA PositionMoves ==
    ASSUME StreamType, NEW n \in 0 .. size,
           \/ vch' = vch /\ nReadPos' = nReadPos + n
           \/ n = size /\ vch' = <<>> /\ nReadPos' = 0
    PROVE  Queue!Pass(n) /\ vch' \in Seq(Nat) /\ nReadPos' \in 0 .. Len(vch')
<1>1. /\ Behind \in Seq(Nat) /\ Ahead(n) \in Seq(Nat) /\ After(n) \in Seq(Nat)
      /\ vch = (Behind \o Ahead(n)) \o After(n)
      /\ Behind \o Ahead(n) \in Seq(Nat) /\ Len(Behind \o Ahead(n)) = nReadPos + n
  BY Places, StreamHalved
<1>2. CASE vch' = vch /\ nReadPos' = nReadPos + n
  <2> DEFINE p == Behind \o Ahead(n)
  <2>1. p \in Seq(Nat) /\ vch' = p \o After(n) /\ nReadPos' = Len(p)
    BY <1>1, <1>2
  <2>2. /\ Behind' = p /\ Unread' = After(n)
        /\ vch' \in Seq(Nat) /\ nReadPos' \in 0 .. Len(vch')
    BY <1>1, <2>1, Becomes
  <2> QED
    BY <2>2 DEF Queue!Pass, Queue!After, Queue!Front, Ahead, After, Behind
<1>3. CASE n = size /\ vch' = <<>> /\ nReadPos' = 0
  <2>1. After(n) = <<>>
    BY <1>3, StreamHalved DEF After
  <2>2. /\ Behind' = <<>> /\ Unread' = <<>>
        /\ vch' \in Seq(Nat) /\ nReadPos' \in 0 .. Len(vch')
    BY <1>3, BecomesEmpty
  <2> QED
    BY <2>1, <2>2 DEF Queue!Pass, Queue!After, After, Behind
<1> QED
  BY <1>2, <1>3

\* Forward either keeps the bytes that were passed, or forgets them all.
LEMMA ForwardPasses ==
    ASSUME StreamType, NEW n \in 0 .. size, Forward(nReadPos + n)
    PROVE  Queue!Pass(n) /\ vch' \in Seq(Nat) /\ nReadPos' \in 0 .. Len(vch')
<1>1. CASE nReadPos + n >= Len(vch)
  <2>1. n = size
    BY <1>1 DEF StreamType, size
  <2>2. vch' = <<>> /\ nReadPos' = 0
    BY <1>1 DEF Forward, Reaches
  <2> QED
    BY <2>1, <2>2, PositionMoves
<1>2. CASE ~ (nReadPos + n >= Len(vch))
  <2>1. vch' = vch /\ nReadPos' = nReadPos + n
    BY <1>2 DEF Forward, Reaches
  <2> QED
    BY <2>1, PositionMoves
<1> QED
  BY <1>1, <1>2

\* Beyond the end it clears what is left.
LEMMA ForwardBeyond ==
    ASSUME StreamType, NEW n \in Nat, n > size, Forward(nReadPos + n)
    PROVE  Queue!Pass(size) /\ vch' \in Seq(Nat) /\ nReadPos' \in 0 .. Len(vch')
<1>1. nReadPos + n >= Len(vch) /\ size \in 0 .. size
  BY DEF StreamType, size
<1>2. vch' = <<>> /\ nReadPos' = 0
  BY <1>1 DEF Forward, Reaches
<1> QED
  BY <1>1, <1>2, PositionMoves

QueueStep == [Queue!QueueNext]_(Queue!queue)

LEMMA readSomeStep ==
    ASSUME StreamType, NEW n \in Nat, readSome(n)
    PROVE  StreamType' /\ QueueStep
<1>1. /\ Unread \in Seq(Nat) /\ Len(Unread) = size /\ size \in Nat
      /\ SubSeq(Unread, 1, size) = Unread
  BY StreamHalved, SubSeqFull DEF StreamType, size
<1>2. failed' \in BOOLEAN /\ throws' = throws
  BY DEF readSome, StreamType
<1>3. CASE nReadPos + n > Len(vch) /\ throws
  <2>1. vch' = vch /\ nReadPos' = nReadPos /\ read' = read
    BY <1>3 DEF readSome
  <2> QED
    BY <1>2, <2>1 DEF StreamType, QueueStep, Queue!queue, Unread
<1>4. CASE nReadPos + n > Len(vch) /\ ~ throws
  <2>1. Forward(nReadPos + n) /\ read' = Unread
    BY <1>4 DEF readSome
  <2>2. n > size
    BY <1>4 DEF StreamType, size
  <2>3. Queue!Pass(size) /\ vch' \in Seq(Nat) /\ nReadPos' \in 0 .. Len(vch')
    BY <2>1, <2>2, ForwardBeyond
  <2>4. Queue!Take(size) /\ size \in 0 .. Len(Unread)
    BY <1>1, <2>1, <2>3 DEF Queue!Take, Queue!Front
  <2> QED
    BY <1>1, <1>2, <2>1, <2>3, <2>4 DEF StreamType, QueueStep, Queue!QueueNext
<1>5. CASE ~ (nReadPos + n > Len(vch))
  <2>1. Forward(nReadPos + n) /\ read' = SubSeq(vch, nReadPos + 1, nReadPos + n)
    BY <1>5 DEF readSome
  <2>2. n \in 0 .. size
    BY <1>5 DEF StreamType, size
  <2>3. Queue!Pass(n) /\ vch' \in Seq(Nat) /\ nReadPos' \in 0 .. Len(vch')
    BY <2>1, <2>2, ForwardPasses
  <2>4. read' = Ahead(n) /\ Ahead(n) \in Seq(Nat)
    BY <2>1, <2>2, Places
  <2>5. Queue!Take(n) /\ n \in 0 .. Len(Unread)
    BY <1>1, <2>2, <2>3, <2>4 DEF Queue!Take, Queue!Front, Ahead
  <2> QED
    BY <1>2, <2>3, <2>4, <2>5 DEF StreamType, QueueStep, Queue!QueueNext
<1> QED
  BY <1>3, <1>4, <1>5

LEMMA ignoreStep ==
    ASSUME StreamType, NEW n \in Nat, ignore(n)
    PROVE  StreamType' /\ QueueStep
<1>1. Len(Unread) = size /\ size \in Nat
  BY StreamHalved DEF StreamType, size
<1>2. failed' \in BOOLEAN /\ throws' = throws /\ read' = read
  BY DEF ignore, StreamType
<1>3. CASE nReadPos + n > Len(vch) /\ throws
  <2>1. vch' = vch /\ nReadPos' = nReadPos
    BY <1>3 DEF ignore
  <2> QED
    BY <1>2, <2>1 DEF StreamType, QueueStep, Queue!queue, Unread
<1>4. CASE nReadPos + n > Len(vch) /\ ~ throws
  <2>1. Forward(nReadPos + n)
    BY <1>4 DEF ignore
  <2>2. n > size
    BY <1>4 DEF StreamType, size
  <2>3. Queue!Pass(size) /\ vch' \in Seq(Nat) /\ nReadPos' \in 0 .. Len(vch')
    BY <2>1, <2>2, ForwardBeyond
  <2>4. Queue!Skip(size) /\ size \in 0 .. Len(Unread)
    BY <1>1, <1>2, <2>3 DEF Queue!Skip
  <2> QED
    BY <1>2, <2>3, <2>4 DEF StreamType, QueueStep, Queue!QueueNext
<1>5. CASE ~ (nReadPos + n > Len(vch))
  <2>1. Forward(nReadPos + n)
    BY <1>5 DEF ignore
  <2>2. n \in 0 .. size
    BY <1>5 DEF StreamType, size
  <2>3. Queue!Pass(n) /\ vch' \in Seq(Nat) /\ nReadPos' \in 0 .. Len(vch')
    BY <2>1, <2>2, ForwardPasses
  <2>4. Queue!Skip(n) /\ n \in 0 .. Len(Unread)
    BY <1>1, <1>2, <2>2, <2>3 DEF Queue!Skip
  <2> QED
    BY <1>2, <2>3, <2>4 DEF StreamType, QueueStep, Queue!QueueNext
<1> QED
  BY <1>3, <1>4, <1>5

\* What a step that changes the bytes leaves alone.
StateStays == failed' = failed /\ throws' = throws /\ read' = read

LEMMA writeStep ==
    ASSUME StreamsAssumption, StreamType, NEW s \in Pieces, write(s)
    PROVE  StreamType' /\ QueueStep
<1>1. /\ Behind \in Seq(Nat) /\ Len(Behind) = nReadPos
      /\ Unread \in Seq(Nat) /\ vch = Behind \o Unread /\ s \in Seq(Nat)
  BY StreamHalved DEF StreamsAssumption
<1>2. vch' = Behind \o (Unread \o s) /\ nReadPos' = Len(Behind) /\ Unread \o s \in Seq(Nat)
  <2>1. (Behind \o Unread) \o s = Behind \o (Unread \o s)
    BY <1>1, JoinThree, ZenonT(40)
  <2>2. Unread \o s \in Seq(Nat)
    BY <1>1, HalvesAre
  <2>3. vch' = vch \o s /\ nReadPos' = nReadPos
    BY DEF write
  <2>4. QED
    BY <1>1, <2>1, <2>2, <2>3
<1>3. /\ Behind' = Behind /\ Unread' = Unread \o s
      /\ vch' \in Seq(Nat) /\ nReadPos' \in 0 .. Len(vch')
  BY <1>1, <1>2, Becomes
<1>4. StateStays
  BY DEF write, StateStays
<1>5. Queue!Put(s)
  BY <1>3, <1>4 DEF Queue!Put, StateStays, Behind
<1> QED
  BY <1>3, <1>4, <1>5 DEF StreamType, StateStays, QueueStep, Queue!QueueNext

\* In front: what is put there takes the place of the last bytes that were read, or of none.
LEMMA PutInFront ==
    ASSUME StreamType, StateStays, NEW s \in Pieces, s \in Seq(Nat), NEW k \in 0 .. nReadPos,
           vch' = SubSeq(vch, 1, k) \o s \o Unread, nReadPos' = k
    PROVE  StreamType' /\ QueueStep
<1> DEFINE b == SubSeq(vch, 1, k)
<1>1. /\ b \in Seq(Nat) /\ Len(b) = k /\ Unread \in Seq(Nat) /\ Len(Behind) = nReadPos
  <2>1. vch \in Seq(Nat) /\ k \in 0 .. Len(vch)
    BY DEF StreamType
  <2>2. b \in Seq(Nat) /\ Len(b) = k
    BY <2>1, Halved
  <2> QED
    BY <2>2, StreamHalved
<1>2. SubSeq(Behind, 1, k) = b
  BY DEF Behind, StreamType
<1>0. vch' = b \o s \o Unread
  OBVIOUS
<1> HIDE DEF b
<1>3. vch' = b \o (s \o Unread) /\ nReadPos' = Len(b) /\ s \o Unread \in Seq(Nat)
  <2>1. b \in Seq(Nat) /\ s \in Seq(Nat) /\ Unread \in Seq(Nat) /\ nReadPos' = Len(b)
    BY <1>1
  <2>2. (b \o s) \o Unread = b \o (s \o Unread)
    BY <2>1, JoinThree, ZenonT(40)
  <2>3. s \o Unread \in Seq(Nat)
    BY <2>1, HalvesAre
  <2>4. QED
    BY <1>0, <2>1, <2>2, <2>3
<1>4. /\ Behind' = b /\ Unread' = s \o Unread
      /\ vch' \in Seq(Nat) /\ nReadPos' \in 0 .. Len(vch')
  BY <1>1, <1>3, Becomes
<1>5. Queue!PutFront(s)
  BY <1>1, <1>2, <1>4 DEF Queue!PutFront, StateStays, Behind
<1> QED
  BY <1>4, <1>5 DEF StreamType, StateStays, QueueStep, Queue!QueueNext

LEMMA insertStep ==
    ASSUME StreamsAssumption, StreamType, NEW s \in Pieces, NEW at \in 0 .. size, insert(at, s)
    PROVE  StreamType' /\ QueueStep
<1>1. s \in Seq(Nat) /\ Len(s) \in Nat /\ nReadPos \in Nat
  BY DEF StreamsAssumption, StreamType
<1>2. StateStays
  BY DEF insert, StateStays
<1>3. CASE at = 0 /\ Len(s) <= nReadPos
  <2>1. nReadPos - Len(s) \in 0 .. nReadPos
    BY <1>1, <1>3
  <2>2. vch' = SubSeq(vch, 1, nReadPos - Len(s)) \o s \o Unread /\ nReadPos' = nReadPos - Len(s)
    BY <1>3 DEF insert
  <2> QED
    BY <1>1, <1>2, <2>1, <2>2, PutInFront
<1>4. CASE at = 0 /\ ~ (Len(s) <= nReadPos)
  <2>1. /\ vch' = SubSeq(vch, 1, nReadPos + at) \o s \o SubSeq(vch, nReadPos + at + 1, Len(vch))
        /\ nReadPos' = nReadPos
    BY <1>4 DEF insert
  <2>2. vch' = SubSeq(vch, 1, nReadPos) \o s \o Unread /\ nReadPos \in 0 .. nReadPos
    BY <1>1, <1>4, <2>1 DEF Unread
  <2> QED
    BY <1>1, <1>2, <2>1, <2>2, PutInFront
<1>5. CASE at # 0
  <2>1. /\ vch' = SubSeq(vch, 1, nReadPos + at) \o s \o SubSeq(vch, nReadPos + at + 1, Len(vch))
        /\ nReadPos' = nReadPos
    BY <1>5 DEF insert
  <2>2. /\ Ahead(at) \in Seq(Nat) /\ After(at) \in Seq(Nat)
        /\ SubSeq(vch, 1, nReadPos + at) = Behind \o Ahead(at)
        /\ SubSeq(vch, nReadPos + at + 1, Len(vch)) = After(at)
    BY Places
  <2>3. Behind \in Seq(Nat) /\ Len(Behind) = nReadPos /\ Len(Unread) = size /\ size \in Nat
    BY StreamHalved DEF StreamType, size
  <2>4. vch' = (Behind \o Ahead(at)) \o s \o After(at)
    BY <2>1, <2>2
  <2>5. Ahead(at) \o s \in Seq(Nat) /\ Ahead(at) \o s \o After(at) \in Seq(Nat)
    BY <1>1, <2>2, HalvesAre
  <2>6. vch' = Behind \o (Ahead(at) \o s \o After(at))
    <3>1. (Behind \o Ahead(at)) \o s \o After(at) = Behind \o (Ahead(at) \o s \o After(at))
      <4> DEFINE f == Ahead(at)
                 a == After(at)
      <4>1. Behind \in Seq(Nat) /\ f \in Seq(Nat) /\ s \in Seq(Nat) /\ a \in Seq(Nat)
        BY <1>1, <2>2, <2>3
      <4> HIDE DEF f, a
      <4>2. (Behind \o f) \o s \o a = Behind \o (f \o s \o a)
        <5>1. (Behind \o f) \o s = Behind \o (f \o s)
          BY <4>1, JoinThree
        <5>2. f \o s \in Seq(Nat)
          BY <4>1, HalvesAre
        <5>3. (Behind \o (f \o s)) \o a = Behind \o ((f \o s) \o a)
          BY <4>1, <5>2, JoinThree, ZenonT(40)
        <5> QED
          BY <5>1, <5>3
      <4> QED
        BY <4>2 DEF f, a
    <3> QED
      BY <2>4, <3>1
  <2>7. /\ Behind' = Behind /\ Unread' = Ahead(at) \o s \o After(at)
        /\ vch' \in Seq(Nat) /\ nReadPos' \in 0 .. Len(vch')
    BY <2>1, <2>3, <2>5, <2>6, Becomes
  <2>8. Queue!PutAt(at, s)
    BY <1>2, <2>7 DEF Queue!PutAt, Queue!Front, Queue!After, Ahead, After, StateStays, Behind
  <2>9. at \in 1 .. Len(Unread)
    BY <1>5, <2>3
  <2> QED
    BY <1>2, <2>7, <2>8, <2>9 DEF StreamType, StateStays, QueueStep, Queue!QueueNext
<1> QED
  BY <1>3, <1>4, <1>5

\* Bytes in the middle go.
LEMMA RemovedStep ==
    ASSUME StreamType, StateStays, NEW m \in 0 .. size, NEW n \in m .. size,
           vch' = Removed(vch, nReadPos + m, nReadPos + n), nReadPos' = nReadPos
    PROVE  StreamType' /\ QueueStep
<1>1. n \in 0 .. size /\ size \in Nat
  BY DEF StreamType, size
<1>2. /\ Ahead(m) \in Seq(Nat) /\ After(n) \in Seq(Nat)
      /\ SubSeq(vch, 1, nReadPos + m) = Behind \o Ahead(m)
      /\ SubSeq(vch, nReadPos + n + 1, Len(vch)) = After(n)
  BY <1>1, Places
<1>3. Behind \in Seq(Nat) /\ Len(Behind) = nReadPos /\ Len(Unread) = size
  BY StreamHalved
<1>4. vch' = Behind \o (Ahead(m) \o After(n)) /\ Ahead(m) \o After(n) \in Seq(Nat)
  <2>1. vch' = (Behind \o Ahead(m)) \o After(n)
    BY <1>2 DEF Removed
  <2> QED
    BY <1>2, <1>3, <2>1, JoinThree, HalvesAre
<1>5. /\ Behind' = Behind /\ Unread' = Ahead(m) \o After(n)
      /\ vch' \in Seq(Nat) /\ nReadPos' \in 0 .. Len(vch')
  BY <1>3, <1>4, Becomes
<1>6. Queue!Cut(m, n) /\ m \in 0 .. Len(Unread) /\ n \in 0 .. Len(Unread) /\ m <= n
  BY <1>1, <1>3, <1>5 DEF Queue!Cut, Queue!Front, Queue!After, Ahead, After, StateStays, Behind
<1> QED
  BY <1>5, <1>6 DEF StreamType, StateStays, QueueStep, Queue!QueueNext

\* A step that only passes bytes.
LEMMA Skipped ==
    ASSUME StreamType, StateStays, NEW n \in 0 .. size, Queue!Pass(n),
           vch' \in Seq(Nat), nReadPos' \in 0 .. Len(vch')
    PROVE  StreamType' /\ QueueStep
<1>1. Queue!Skip(n) /\ n \in 0 .. Len(Unread)
  BY StreamHalved DEF Queue!Skip, StateStays
<1> QED
  BY <1>1 DEF StreamType, StateStays, QueueStep, Queue!QueueNext

LEMMA eraseOneStep ==
    ASSUME StreamType, NEW at \in Nat, eraseOne(at)
    PROVE  StreamType' /\ QueueStep
<1>1. StateStays /\ at \in 0 .. size /\ at + 1 \in 0 .. size /\ at + 1 \in at .. size
  BY DEF eraseOne, StateStays, StreamType, size
<1>2. CASE at = 0
  <2>1. Forward(nReadPos + 1) /\ 1 \in 0 .. size
    BY <1>1, <1>2 DEF eraseOne
  <2>2. Queue!Pass(1) /\ vch' \in Seq(Nat) /\ nReadPos' \in 0 .. Len(vch')
    BY <2>1, ForwardPasses
  <2> QED
    BY <1>1, <2>1, <2>2, Skipped
<1>3. CASE at # 0
  <2>1. vch' = Removed(vch, nReadPos + at, nReadPos + at + 1) /\ nReadPos' = nReadPos
    BY <1>3 DEF eraseOne
  <2>2. nReadPos + at + 1 = nReadPos + (at + 1)
    BY DEF StreamType
  <2> QED
    BY <1>1, <2>1, <2>2, RemovedStep
<1> QED
  BY <1>2, <1>3

LEMMA eraseStep ==
    ASSUME StreamType, NEW m \in 0 .. size, NEW n \in 0 .. size, erase(m, n)
    PROVE  StreamType' /\ QueueStep
<1>1. StateStays /\ n \in m .. size
  BY DEF erase, StateStays, StreamType, size
<1>2. CASE m = 0 /\ n = size
  <2>0. ~ (m = 0 /\ n < size) /\ ~ (m > 0)
    BY <1>2 DEF StreamType, size
  <2>1. vch' = <<>> /\ nReadPos' = 0
    BY <1>2, <2>0 DEF erase
  <2> QED
    BY <1>1, <1>2, <2>1, PositionMoves, Skipped
<1>3. CASE m = 0 /\ n < size
  <2>1. vch' = vch /\ nReadPos' = nReadPos + n
    BY <1>3 DEF erase, StreamType, size
  <2> QED
    BY <1>1, <2>1, PositionMoves, Skipped
<1>4. CASE m > 0
  <2>1. vch' = Removed(vch, nReadPos + m, nReadPos + n) /\ nReadPos' = nReadPos
    BY <1>4 DEF erase
  <2> QED
    BY <1>1, <2>1, RemovedStep
<1> QED
  BY <1>1, <1>2, <1>3, <1>4 DEF StreamType, size

LEMMA CompactStep == ASSUME StreamType, Compact PROVE StreamType' /\ QueueStep
<1>1. Unread \in Seq(Nat) /\ vch' = Unread /\ nReadPos' = 0
  BY StreamHalved DEF Compact
<1>2. SubSeq(Unread, 1, 0) = <<>> /\ SubSeq(Unread, 0 + 1, Len(Unread)) = Unread
  BY <1>1, SubSeqFull
<1>3. Behind' = <<>> /\ Unread' = Unread
  BY <1>1, <1>2 DEF Behind, Unread
<1>4. StateStays /\ vch' \in Seq(Nat) /\ nReadPos' \in 0 .. Len(vch')
  BY <1>1 DEF Compact, StateStays
<1>5. Queue!Forget
  BY <1>3, <1>4 DEF Queue!Forget, StateStays, Behind
<1> QED
  BY <1>4, <1>5 DEF StreamType, StateStays, QueueStep, Queue!QueueNext

LEMMA RewindStep == ASSUME StreamType, NEW n \in Nat, Rewind(n) PROVE StreamType' /\ QueueStep
<1> DEFINE k == nReadPos - n
           b == SubSeq(Behind, 1, k)
           c == SubSeq(Behind, k + 1, nReadPos)
<1>1. /\ Behind \in Seq(Nat) /\ Len(Behind) = nReadPos
      /\ Unread \in Seq(Nat) /\ vch = Behind \o Unread
  BY StreamHalved
<1>2. StateStays /\ k \in 0 .. nReadPos /\ vch' = vch /\ nReadPos' = k /\ n \in 0 .. nReadPos
  BY DEF Rewind, StateStays, StreamType
<1> HIDE DEF k
<1>3. b \in Seq(Nat) /\ Len(b) = k /\ c \in Seq(Nat) /\ Behind = b \o c
  BY <1>1, <1>2, Halved
<1> HIDE DEF b, c
<1>4. (b \o c) \o Unread = b \o (c \o Unread)
  BY <1>1, <1>3, JoinThree, ZenonT(40)
<1>5. c \o Unread \in Seq(Nat)
  BY <1>1, <1>3, HalvesAre
<1>6. vch' = b \o (c \o Unread) /\ nReadPos' = Len(b)
  BY <1>1, <1>2, <1>3, <1>4
<1>7. /\ Behind' = b /\ Unread' = c \o Unread
      /\ vch' \in Seq(Nat) /\ nReadPos' \in 0 .. Len(vch')
  BY <1>3, <1>5, <1>6, Becomes
<1>8. Queue!Back(n)
  <2>1. k = Len(Behind) - n /\ nReadPos = Len(Behind) /\ n <= Len(Behind)
    BY <1>1, <1>2 DEF k
  <2>2. /\ b = SubSeq(Behind, 1, Len(Behind) - n)
        /\ c = SubSeq(Behind, Len(Behind) - n + 1, Len(Behind))
    BY <2>1 DEF b, c
  <2> QED
    BY <1>2, <1>7, <2>1, <2>2 DEF Queue!Back, StateStays, Behind
<1>9. CASE n = 0
  <2>1. nReadPos' = nReadPos
    BY <1>9 DEF Rewind, StreamType
  <2> QED
    BY <1>2, <2>1 DEF StreamType, StateStays, QueueStep, Queue!queue, Unread
<1>10. CASE n # 0
  <2>1. n \in 1 .. Len(Behind)
    BY <1>1, <1>2, <1>10
  <2> QED
    BY <1>2, <1>7, <1>8, <2>1 DEF StreamType, StateStays, QueueStep, Queue!QueueNext, Behind
<1> QED
  BY <1>9, <1>10

LEMMA clearStep == ASSUME StreamType, clear PROVE StreamType' /\ QueueStep
<1>1. StateStays /\ size \in 0 .. size /\ vch' = <<>> /\ nReadPos' = 0
  BY DEF clear, StateStays, StreamType, size
<1> QED
  BY <1>1, PositionMoves, Skipped

\* What is read and what is not stay as they are.
LEMMA OnlyTheState ==
    ASSUME StreamType, UNCHANGED <<vch, nReadPos, read>>,
           failed' \in BOOLEAN, throws' \in BOOLEAN
    PROVE  StreamType' /\ QueueStep
BY DEF StreamType, QueueStep, Queue!queue, Unread

LEMMA StreamStep == StreamsAssumption /\ StreamType /\ [StreamNext]_stream => StreamType' /\ QueueStep
<1> SUFFICES ASSUME StreamsAssumption, StreamType, [StreamNext]_stream
             PROVE  StreamType' /\ QueueStep
  OBVIOUS
<1>1. ASSUME NEW s \in Pieces, write(s) PROVE StreamType' /\ QueueStep
  BY <1>1, writeStep
<1>2. ASSUME NEW s \in Pieces, NEW at \in 0 .. size, insert(at, s) PROVE StreamType' /\ QueueStep
  BY <1>2, insertStep
<1>3. ASSUME NEW n \in 0 .. MaxStream, readSome(n) \/ ignore(n) \/ eraseOne(n) \/ Rewind(n)
      PROVE  StreamType' /\ QueueStep
  <2>1. n \in Nat
    BY DEF StreamsAssumption
  <2> QED
    BY <1>3, <2>1, readSomeStep, ignoreStep, eraseOneStep, RewindStep
<1>4. ASSUME NEW m \in 0 .. size, NEW n \in 0 .. size, erase(m, n) PROVE StreamType' /\ QueueStep
  BY <1>4, eraseStep
<1>5. CASE Compact
  BY <1>5, CompactStep
<1>6. CASE clear
  BY <1>6, clearStep
<1>7. CASE clearState
  BY <1>7, OnlyTheState DEF clearState, StreamType
<1>8. ASSUME NEW on \in BOOLEAN, exceptions(on) PROVE StreamType' /\ QueueStep
  BY <1>8, OnlyTheState DEF exceptions, StreamType
<1>9. CASE UNCHANGED stream
  BY <1>9, OnlyTheState DEF stream, StreamType
<1> QED
  BY <1>1, <1>2, <1>3, <1>4, <1>5, <1>6, <1>7, <1>8, <1>9 DEF StreamNext

LEMMA StreamStart == StreamInit => StreamType /\ Queue!QueueInit
<1>1. SubSeq(<<>>, 1, 0) = <<>> /\ SubSeq(<<>>, 0 + 1, Len(<<>>)) = <<>> /\ Len(<<>>) = 0
  OBVIOUS
<1>2. <<>> \in Seq(Nat)
  OBVIOUS
<1> QED
  <2> SUFFICES ASSUME StreamInit PROVE StreamType /\ Queue!QueueInit
    OBVIOUS
  <2>1. vch = <<>> /\ nReadPos = 0 /\ read = <<>> /\ failed = FALSE /\ throws = TRUE
    BY DEF StreamInit
  <2>2. StreamType
    <3>1. 0 \in 0 .. Len(<<>>)
      BY <1>1
    <3> QED
      BY <1>2, <2>1, <3>1, Zenon DEF StreamType
  <2>3. Queue!QueueInit
    BY <1>1, <2>1 DEF Queue!QueueInit, Unread
  <2> QED
    BY <2>2, <2>3

\* Whatever is written, read, passed, put back, inserted and erased, in any order and with or
\* without exceptions, bytes leave a data stream at its front in the order in which they
\* came, and what is put back is what has just left (CDataStream).
THEOREM StreamsAreQueues == ASSUME StreamsAssumption PROVE StreamSpec => StreamIsQueue
<1>1. StreamType /\ [StreamNext]_stream => StreamType' /\ [Queue!QueueNext]_(Queue!queue)
  BY StreamStep DEF QueueStep
<1>2. StreamInit => StreamType /\ Queue!QueueInit
  BY StreamStart
<1> QED
  BY <1>1, <1>2, PTL DEF StreamSpec, StreamIsQueue, Queue!QueueSpec

--------------------------------------------------------------------------------
(* The ring. *)

\* Places that share a slot are at least a ring apart.
LEMMA SameSlot ==
    ASSUME NEW m \in Nat \ {0}, NEW a \in Nat, NEW b \in Nat, a % m = b % m, a - b < m, b - a < m
    PROVE  a = b
<1> DEFINE p == a \div m
           q == b \div m
           r == a % m
<1>1. a = m * p + r /\ b = m * q + r /\ p \in Int /\ q \in Int /\ r \in Int
  BY Division
<1> HIDE DEF p, q, r
<1>2. a - b = m * p - m * q /\ m * p \in Int /\ m * q \in Int
  BY <1>1
<1>3. m * p - m * q = m * (p - q) /\ p - q \in Int
  BY <1>1
<1>4. m * (p - q) < m /\ -m < m * (p - q)
  BY <1>2, <1>3
<1>5. p - q = 0
  BY <1>3, <1>4, Multiples
<1>6. p = q
  BY <1>1, <1>5
<1> QED
  BY <1>1, <1>6

FileType ==
    /\ nSrcPos \in 0 .. Length /\ nPos \in Nat /\ base \in Nat /\ want \in Nat
    /\ got \in Seq(Int) /\ vchBuf \in [0 .. nBufSize - 1 -> Int]

FileInv == FileType /\ RingTrue /\ ReadsTrue

\* Filling puts its bytes into slots that are free: those from which the ring still has
\* what the reader may go back to are others.
LEMMA FilledRing ==
    ASSUME StreamsAssumption, FileType, NEW n \in 0 .. nBufSize,
           \A p \in base .. nSrcPos - 1 : p >= nSrcPos - nBufSize => vchBuf[p % nBufSize] = p
    PROVE  LET ring == Filled(vchBuf, nSrcPos, n)
           IN /\ ring \in [0 .. nBufSize - 1 -> Int]
              /\ \A p \in base .. nSrcPos + n - 1 :
                   p >= nSrcPos + n - nBufSize => ring[p % nBufSize] = p
<1> DEFINE m == nBufSize
           src == nSrcPos
           New == src .. src + n - 1
           ring == Filled(vchBuf, src, n)
<1>1. m \in Nat \ {0} /\ src \in Nat /\ base \in Nat /\ vchBuf \in [0 .. m - 1 -> Int] /\ n \in Nat
  BY DEF StreamsAssumption, FileType
<1> HIDE DEF m, src
<1>2. ring = [x \in 0 .. m - 1 |-> IF \E d \in 0 .. n - 1 : (src + d) % m = x
                                   THEN CHOOSE p \in New : p % m = x ELSE vchBuf[x]]
  BY <1>1 DEF Filled, m
<1>3. ASSUME NEW x, NEW d \in 0 .. n - 1, (src + d) % m = x
      PROVE  (CHOOSE p \in New : p % m = x) \in New /\ (CHOOSE p \in New : p % m = x) % m = x
  <2>1. src + d \in New
    BY <1>1
  <2> QED
    BY <1>3, <2>1
<1>4. ring \in [0 .. m - 1 -> Int]
  <2> SUFFICES ASSUME NEW x \in 0 .. m - 1
               PROVE  (IF \E d \in 0 .. n - 1 : (src + d) % m = x
                       THEN CHOOSE p \in New : p % m = x ELSE vchBuf[x]) \in Int
    BY <1>2
  <2>1. CASE \E d \in 0 .. n - 1 : (src + d) % m = x
    <3>1. (CHOOSE p \in New : p % m = x) \in New
      BY <2>1, <1>3
    <3>2. New \subseteq Int
      BY <1>1
    <3> QED
      BY <2>1, <3>1, <3>2
  <2>2. CASE ~ \E d \in 0 .. n - 1 : (src + d) % m = x
    BY <2>2, <1>1
  <2> QED
    BY <2>1, <2>2
<1>5. ASSUME NEW p \in base .. src + n - 1, p >= src + n - m
      PROVE  ring[p % m] = p
  <2>1. p \in Nat /\ p % m \in 0 .. m - 1
    BY <1>1, Division
  <2>2. CASE p >= src
    <3> DEFINE q == CHOOSE y \in New : y % m = p % m
    <3>1. p - src \in 0 .. n - 1 /\ (src + (p - src)) = p
      BY <1>1, <2>1, <2>2
    <3>2. q \in New /\ q % m = p % m
      <4>1. (src + (p - src)) % m = p % m
        BY <3>1
      <4> QED
        BY <1>3, <3>1, <4>1
    <3>3. ring[p % m] = q
      BY <1>2, <2>1, <3>1
    <3> HIDE DEF q
    <3>4. q \in Nat /\ q - p < m /\ p - q < m
      BY <1>1, <2>1, <2>2, <3>2 DEF m
    <3>5. q = p
      BY <1>1, <2>1, <3>2, <3>4, SameSlot
    <3> QED
      BY <3>3, <3>5
  <2>3. CASE p < src
    <3>1. ASSUME NEW d \in 0 .. n - 1, (src + d) % m = p % m PROVE FALSE
      <4>1. src + d \in Nat /\ (src + d) - p < m /\ p - (src + d) < m /\ src + d # p
        BY <1>1, <1>5, <2>1, <2>3
      <4> QED
        BY <1>1, <2>1, <3>1, <4>1, SameSlot
    <3>2. ring[p % m] = vchBuf[p % m]
      BY <1>2, <2>1, <3>1
    <3>3. p \in base .. src - 1 /\ p >= src - m
      BY <1>1, <1>5, <2>1, <2>3
    <3> QED
      BY <3>2, <3>3 DEF m, src
  <2> QED
    BY <1>1, <2>1, <2>2, <2>3
<1> QED
  BY <1>4, <1>5 DEF m, src

\* The reader is never further behind what has been read than the ring is long.
LEMMA InTheRing ==
    ASSUME StreamsAssumption, FileInv
    PROVE  nPos >= nSrcPos - nBufSize /\ nPos <= nSrcPos
BY DEF StreamsAssumption, FileInv, FileType, RingTrue

\* A step that leaves the ring alone, after which nothing has been got.
LEMMA NothingGot ==
    ASSUME FileInv, got' = <<>>, vchBuf' = vchBuf, nSrcPos' \in 0 .. Length, nPos' \in Nat,
           base' \in Nat, want' \in Nat, nPos' <= nSrcPos',
           nPos' - nRewind >= nSrcPos' - nBufSize \/ nPos' >= nSrcPos' - nRewind,
           (nSrcPos' = nSrcPos /\ base' = base) \/ nSrcPos' = base'
    PROVE  FileInv'
<1>1. FileType'
  BY DEF FileInv, FileType
<1>2. \A p \in base' .. nSrcPos' - 1 : p >= nSrcPos' - nBufSize => vchBuf'[p % nBufSize] = p
  <2>1. CASE nSrcPos' = nSrcPos /\ base' = base
    BY <2>1 DEF FileInv, RingTrue
  <2>2. CASE nSrcPos' = base'
    <3>1. \A x \in Nat : x .. x - 1 = {}
      OBVIOUS
    <3>2. base' .. nSrcPos' - 1 = {}
      BY <2>2, <3>1, Zenon
    <3> QED
      BY <3>2
  <2> QED
    BY <2>1, <2>2
<1>3. RingTrue'
  BY <1>2 DEF RingTrue
<1>4. ReadsTrue'
  BY DEF ReadsTrue
<1> QED
  BY <1>1, <1>3, <1>4 DEF FileInv

LEMMA BeginStep ==
    ASSUME FileInv, NEW n \in Nat, Begin(n) PROVE FileInv'
<1>1. want' \in Nat
  BY DEF Begin
<1> QED
  BY <1>1, NothingGot DEF Begin, FileInv, FileType, RingTrue

LEMMA FillStep ==
    ASSUME StreamsAssumption, FileInv, Fill PROVE FileInv'
<1>1. PICK n \in Finds(nSrcPos, nPos) :
         /\ nSrcPos' = nSrcPos + n
         /\ vchBuf' = Filled(vchBuf, nSrcPos, n)
         /\ want' = IF n = 0 THEN 0 ELSE want
  BY DEF Fill
<1>2. /\ nPos = nSrcPos /\ nPos' = nPos /\ base' = base /\ got' = got
      /\ nSrcPos \in 0 .. Length /\ Length \in Nat
      /\ nBufSize \in Nat \ {0} /\ nRewind \in Nat /\ nRewind < nBufSize
  BY DEF Fill, FileInv, FileType, StreamsAssumption
<1>3. n \in 0 .. nBufSize - nRewind /\ n <= Length - nSrcPos
  <2>1. nSrcPos % nBufSize \in 0 .. nBufSize - 1
    BY <1>2, Division
  <2>2. ReadNow(nSrcPos, nPos) \in 1 .. nBufSize - nRewind
    BY <1>2, <2>1 DEF ReadNow, FillRoom, Least
  <2>3. Least(ReadNow(nSrcPos, nPos), Length - nSrcPos) \in 0 .. nBufSize - nRewind
    BY <1>2, <2>2 DEF Least
  <2>4. Least(ReadNow(nSrcPos, nPos), Length - nSrcPos) <= Length - nSrcPos
    BY <1>2, <2>2 DEF Least
  <2> DEFINE most == Least(ReadNow(nSrcPos, nPos), Length - nSrcPos)
  <2>5. n \in 0 .. most \/ n = most
    BY DEF Finds
  <2> HIDE DEF most
  <2> QED
    BY <1>2, <2>3, <2>4, <2>5 DEF most
<1>4. n \in 0 .. nBufSize /\ n \in Nat /\ nSrcPos + n \in 0 .. Length
  BY <1>2, <1>3
<1>5. FileType /\ RingTrue /\ ReadsTrue
  BY DEF FileInv
<1>6. /\ vchBuf' \in [0 .. nBufSize - 1 -> Int]
      /\ \A p \in base .. nSrcPos + n - 1 :
           p >= nSrcPos + n - nBufSize => vchBuf'[p % nBufSize] = p
  BY <1>1, <1>4, <1>5, FilledRing DEF RingTrue
<1>7. FileType'
  BY <1>1, <1>2, <1>4, <1>5, <1>6 DEF FileType
<1>8. RingTrue'
  <2>1. nPos' <= nSrcPos' /\ nPos' - nRewind >= nSrcPos' - nBufSize
    BY <1>1, <1>2, <1>3, <1>4
  <2>2. \A p \in base' .. nSrcPos' - 1 : p >= nSrcPos' - nBufSize => vchBuf'[p % nBufSize] = p
    <3> SUFFICES ASSUME NEW p \in base' .. nSrcPos' - 1, p >= nSrcPos' - nBufSize
                 PROVE  vchBuf'[p % nBufSize] = p
      OBVIOUS
    <3>1. p \in base .. nSrcPos + n - 1 /\ p >= nSrcPos + n - nBufSize
      <4>1. base \in Nat /\ nSrcPos' = nSrcPos + n /\ base' = base
        BY <1>1, <1>2, <1>5 DEF FileType
      <4> QED
        BY <1>2, <1>4, <4>1
    <3> QED
      BY <1>6, <3>1
  <2> QED
    BY <2>1, <2>2 DEF RingTrue
<1>9. ReadsTrue'
  BY <1>2, <1>5 DEF ReadsTrue
<1> QED
  BY <1>7, <1>8, <1>9 DEF FileInv

LEMMA Appended ==
    ASSUME NEW s \in Seq(Int), NEW t \in Seq(Int), NEW n \in Nat, n = Len(t)
    PROVE  /\ s \o t \in Seq(Int) /\ Len(s \o t) = Len(s) + n
           /\ DOMAIN (s \o t) = 1 .. Len(s) + n
           /\ \A x \in 1 .. Len(s) : (s \o t)[x] = s[x]
           /\ \A x \in Len(s) + 1 .. Len(s) + n : (s \o t)[x] = t[x - Len(s)]
OBVIOUS

\* What is copied are the bytes from the position on: they are in the ring.
LEMMA CopyStep ==
    ASSUME StreamsAssumption, FileInv, Copy PROVE FileInv'
<1> DEFINE now == Least(Least(want, nBufSize - (nPos % nBufSize)), nSrcPos - nPos)
           bytes == [x \in 1 .. now |-> vchBuf[(nPos + x - 1) % nBufSize]]
<1>1. /\ want > 0 /\ nPos < nSrcPos /\ got' = got \o bytes /\ nPos' = nPos + now
      /\ want' = want - now /\ nSrcPos' = nSrcPos /\ vchBuf' = vchBuf /\ base' = base
  BY DEF Copy
<1>2. FileType /\ RingTrue /\ ReadsTrue /\ nBufSize \in Nat \ {0} /\ nRewind \in Nat
  BY DEF FileInv, StreamsAssumption
<1>3. now \in 1 .. nSrcPos - nPos /\ now <= want
  <2>1. nPos % nBufSize \in 0 .. nBufSize - 1
    BY <1>2, Division DEF FileType
  <2> QED
    BY <1>1, <1>2, <2>1 DEF Least, FileType
<1> HIDE DEF now
<1>4. ASSUME NEW x \in 1 .. now
      PROVE  /\ vchBuf[(nPos + x - 1) % nBufSize] \in Int
             /\ nPos >= base => vchBuf[(nPos + x - 1) % nBufSize] = nPos + x - 1
  <2> DEFINE p == nPos + x - 1
  <2>1. p \in Nat /\ p >= nPos /\ p < nSrcPos
    BY <1>1, <1>2, <1>3 DEF FileType
  <2>2. p % nBufSize \in 0 .. nBufSize - 1
    BY <1>2, <2>1, Division
  <2>3. ASSUME nPos >= base PROVE p \in base .. nSrcPos - 1 /\ p >= nSrcPos - nBufSize
    BY <1>2, <2>1, <2>3, InTheRing DEF FileType
  <2> HIDE DEF p
  <2>4. vchBuf[p % nBufSize] \in Int
    BY <1>2, <2>2 DEF FileType
  <2>5. nPos >= base => vchBuf[p % nBufSize] = p
    BY <1>2, <2>3 DEF RingTrue
  <2> QED
    BY <2>4, <2>5 DEF p
<1>5. /\ bytes \in Seq(Int) /\ Len(bytes) = now
      /\ \A x \in 1 .. now : bytes[x] = vchBuf[(nPos + x - 1) % nBufSize]
  BY <1>3, <1>4
<1> HIDE DEF bytes
<1>6. /\ got' \in Seq(Int) /\ Len(got') = Len(got) + now /\ DOMAIN got' = 1 .. Len(got) + now
      /\ \A x \in 1 .. Len(got) : got'[x] = got[x]
      /\ \A x \in Len(got) + 1 .. Len(got) + now : got'[x] = bytes[x - Len(got)]
  BY <1>1, <1>2, <1>3, <1>5, Appended, SMTT(30) DEF FileType
<1>7. FileType'
  <2>1. nPos' \in 0 .. nSrcPos' /\ want' \in Nat
    BY <1>1, <1>2, <1>3 DEF FileType
  <2>2. got' \in Seq(Int)
    BY <1>6
  <2> QED
    BY <1>1, <1>2, <2>1, <2>2 DEF FileType
<1>8. RingTrue'
  <2>1. nPos' <= nSrcPos' /\ (nPos' - nRewind >= nSrcPos' - nBufSize \/ nPos' >= nSrcPos' - nRewind)
    BY <1>1, <1>2, <1>3 DEF RingTrue, FileType
  <2> QED
    BY <1>1, <1>2, <2>1 DEF RingTrue
<1>9. ReadsTrue'
  <2> DEFINE l == Len(got)
  <2>1. l \in Nat /\ nPos' - Len(got') = nPos - l
    BY <1>1, <1>2, <1>3, <1>6 DEF FileType
  <2> HIDE DEF l
  <2>2. SUFFICES ASSUME nPos - l >= base, NEW x \in 1 .. l + now
                 PROVE  got'[x] = nPos - l + x - 1
    BY <1>1, <1>6, <2>1 DEF ReadsTrue, l
  <2>3. nPos >= base /\ nPos \in Nat
    BY <1>2, <2>1, <2>2 DEF FileType
  <2>4. CASE x <= l
    <3>1. x \in DOMAIN got /\ got'[x] = got[x]
      BY <1>2, <1>6, <2>1, <2>2, <2>4, SMTT(30) DEF l, FileType
    <3>2. \A y \in DOMAIN got : got[y] = nPos - l + y - 1
      BY <1>2, <2>2 DEF ReadsTrue, l
    <3> QED
      BY <3>1, <3>2
  <2>5. CASE x > l
    <3>1. x - l \in 1 .. now /\ x \in l + 1 .. l + now
      BY <1>3, <2>1, <2>2, <2>5
    <3>2. got'[x] = bytes[x - l]
      BY <1>6, <3>1 DEF l
    <3>3. bytes[x - l] = nPos + (x - l) - 1
      BY <1>4, <1>5, <2>3, <3>1
    <3> QED
      BY <2>1, <2>3, <3>1, <3>2, <3>3
  <2> QED
    BY <1>3, <2>1, <2>2, <2>4, <2>5
<1> QED
  BY <1>7, <1>8, <1>9 DEF FileInv

LEMMA SetPosStep ==
    ASSUME StreamsAssumption, FileInv, NEW p \in Nat, SetPos(p) PROVE FileInv'
<1>1. /\ nPos' = Position(p) /\ got' = <<>> /\ UNCHANGED <<nSrcPos, vchBuf, base, want>>
      /\ nSrcPos \in 0 .. Length /\ Length \in Nat /\ nRewind \in Nat
      /\ nBufSize \in Nat /\ base \in Nat /\ want \in Nat
  BY DEF SetPos, FileInv, FileType, StreamsAssumption
<1>2. Position(p) \in Nat /\ Position(p) <= nSrcPos /\ Position(p) >= nSrcPos - nRewind
  <2>1. CASE p + nRewind < nSrcPos
    BY <1>1, <2>1 DEF Position
  <2>2. CASE p + nRewind >= nSrcPos /\ p > nSrcPos
    BY <1>1, <2>2 DEF Position
  <2>3. CASE p + nRewind >= nSrcPos /\ ~ (p > nSrcPos)
    <3>1. Position(p) = p
      BY <1>1, <2>3 DEF Position
    <3> QED
      BY <1>1, <2>3, <3>1
  <2> QED
    BY <1>1, <2>1, <2>2, <2>3
<1> QED
  BY <1>1, <1>2, NothingGot

LEMMA SeekStep ==
    ASSUME StreamsAssumption, FileInv, NEW p \in 0 .. Length, Seek(p) PROVE FileInv'
<1>1. /\ nSrcPos' = p /\ nPos' = p /\ base' = p /\ got' = <<>> /\ vchBuf' = vchBuf /\ want' = want
      /\ want \in Nat /\ nRewind \in Nat /\ p \in Nat
  BY DEF Seek, FileInv, FileType, StreamsAssumption
<1> QED
  BY <1>1, NothingGot

LEMMA SetLimitStep ==
    ASSUME FileInv, NEW p, SetLimit(p) PROVE FileInv'
BY NothingGot DEF SetLimit, FileInv, FileType, RingTrue

LEMMA FileStep == StreamsAssumption /\ FileInv /\ [FileNext]_reading => FileInv'
<1> SUFFICES ASSUME StreamsAssumption, FileInv, [FileNext]_reading PROVE FileInv'
  OBVIOUS
<1>1. ASSUME NEW n \in 1 .. nBufSize, Begin(n) PROVE FileInv'
  BY <1>1, BeginStep DEF StreamsAssumption
<1>2. CASE Fill
  BY <1>2, FillStep
<1>3. CASE Copy
  BY <1>3, CopyStep
<1>4. ASSUME NEW p \in 0 .. Length, SetPos(p) \/ Seek(p) PROVE FileInv'
  <2>1. p \in Nat
    BY DEF StreamsAssumption
  <2> QED
    BY <1>4, <2>1, SetPosStep, SeekStep
<1>5. ASSUME NEW p, SetLimit(p) PROVE FileInv'
  BY <1>5, SetLimitStep
<1>6. CASE UNCHANGED reading
  BY <1>6 DEF reading, file, FileInv, FileType, RingTrue, ReadsTrue
<1> QED
  BY <1>1, <1>2, <1>3, <1>4, <1>5, <1>6 DEF FileNext

LEMMA FileStart == StreamsAssumption /\ FileInit /\ want = 0 => FileInv
BY DEF StreamsAssumption, FileInit, FileInv, FileType, RingTrue, ReadsTrue

\* However the file comes, and wherever the reader is put by SetPos and Seek: every byte that
\* he is given is the one of the file at his position (CBufferedFile).
THEOREM BufferedFilesReadTrue == ASSUME StreamsAssumption PROVE FileSpec => []BufferedReadsTrue
<1>1. FileInv /\ [FileNext]_reading => FileInv'
  BY FileStep
<1>2. FileInit /\ want = 0 => FileInv
  BY FileStart
<1>3. FileInv => BufferedReadsTrue
  BY DEF FileInv, BufferedReadsTrue
<1> QED
  BY <1>1, <1>2, <1>3, PTL DEF FileSpec
================================================================================
