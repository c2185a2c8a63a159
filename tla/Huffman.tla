-------------------------------- MODULE Huffman --------------------------------
(***************************************************************************)
(* DataCompression.cpp: a Huffman code is generated from the frequencies   *)
(* of characters; a text is reduced to the alphabet, compressed and closed *)
(* with EoF; what the carriers of a chain return, the same bits and some   *)
(* padding, is decompressed.                                               *)
(*                                                                         *)
(* A node of the tree is represented by its leaves, each with its path: a  *)
(* path grows at its front when two nodes are joined.                      *)
(***************************************************************************)
EXTENDS Integers, Sequences, SequencesExt, FiniteSetsExt

CONSTANTS
    Alphabet,   \* characters that are not IsCharInvalid
    EoF,        \* the end of a message, not in the alphabet
    MaxFreq,    \* bound on a frequency
    MaxText,    \* bound on the length of a text
    Pads        \* numbers of zeros that the carriers append

ASSUME HuffmanAssumption ==
    /\ EoF \notin Alphabet
    /\ MaxFreq \in Nat /\ MaxText \in Nat /\ Pads \subseteq Nat

Symbols == Alphabet \union {EoF}

VARIABLES
    frequencies,    \* what the code is generated from
    pc,
    tree,       \* nodes in the priority queue
    text,       \* the text that is sent, as it is in its file
    bits,       \* the bits that are embedded, padded
    pos,        \* how many of them are read
    ch,         \* those that make no code yet
    decompData  \* the text that is read

vars == <<frequencies, pc, tree, text, bits, pos, ch, decompData>>

--------------------------------------------------------------------------------
(* The code. *)

Leaf(c) == [frequency |-> frequencies[c], codes |-> [x \in {c} |-> <<>>]]

Init ==
    /\ \E S \in (SUBSET Symbols) \ {{}} : frequencies \in [S -> 1 .. MaxFreq]
    /\ pc = "build"
    /\ tree = {Leaf(c) : c \in DOMAIN frequencies}
    /\ text = <<>>
    /\ bits = <<>>
    /\ pos = 0
    /\ ch = <<>>
    /\ decompData = <<>>

\* A slip: both branches get the same bit.
SameBranch(left, right) ==
    [frequency |-> left.frequency + right.frequency,
     codes |-> [c \in DOMAIN left.codes \union DOMAIN right.codes |->
                  IF c \in DOMAIN left.codes THEN <<0>> \o left.codes[c]
                  ELSE <<0>> \o right.codes[c]]]

InternalNode(left, right) ==
    [frequency |-> left.frequency + right.frequency,
     codes |-> [c \in DOMAIN left.codes \union DOMAIN right.codes |->
                  IF c \in DOMAIN left.codes THEN <<0>> \o left.codes[c]
                  ELSE <<1>> \o right.codes[c]]]

\* A slip: the heap has the most frequent node on top.
Bottom(nodes) == {t \in nodes : \A u \in nodes : t.frequency >= u.frequency}

\* What may be on top of the heap: which of the equals is not specified.
Top(nodes) == {t \in nodes : \A u \in nodes : t.frequency <= u.frequency}

BuildTree ==
    /\ pc = "build"
    /\ \E childLeft \in Top(tree) : \E childRight \in Top(tree \ {childLeft}) :
         tree' = (tree \ {childLeft, childRight})
                   \union {InternalNode(childLeft, childRight)}
    /\ UNCHANGED <<frequencies, pc, text, bits, pos, ch, decompData>>

Codes == (CHOOSE t \in tree : TRUE).codes

GenerateCodes ==
    /\ pc = "build"
    /\ \A t, u \in tree : t = u
    /\ pc' = "compress"
    /\ UNCHANGED <<frequencies, tree, text, bits, pos, ch, decompData>>

--------------------------------------------------------------------------------
(* Texts. *)

IsCharInvalid(symbol) == symbol \notin Alphabet

TransformCharDomain(t) ==
    FlattenSeq([x \in DOMAIN t |-> IF IsCharInvalid(t[x]) THEN <<>> ELSE <<t[x]>>])

Compress(t) == FlattenSeq([x \in DOMAIN t |-> Codes[t[x]]]) \o Codes[EoF]

Known(t) == \A x \in DOMAIN t : t[x] \in DOMAIN Codes

\* What is embedded is read with zeros behind it.
Send ==
    /\ pc = "compress"
    /\ text' \in UNION {[1 .. len -> Symbols] : len \in 0 .. MaxText}
    /\ LET data == TransformCharDomain(text')
       IN \/ /\ Known(data) /\ EoF \in DOMAIN Codes
             /\ \E nBits \in Pads : bits' = Compress(data) \o [x \in 1 .. nBits |-> 0]
             /\ pc' = "decompress"
          \/ /\ ~ (Known(data) /\ EoF \in DOMAIN Codes)
             /\ bits' = <<>>
             /\ pc' = "thrown"
    /\ UNCHANGED <<frequencies, tree, pos, ch, decompData>>

Bit == Append(ch, bits[pos + 1])

Symbol == {c \in DOMAIN Codes : Codes[c] = Bit}

\* The bit completes no code.
PushBit ==
    /\ pc = "decompress" /\ pos < Len(bits)
    /\ Symbol = {}
    /\ ch' = Bit
    /\ pos' = pos + 1
    /\ UNCHANGED <<frequencies, pc, tree, text, bits, decompData>>

PushSymbol ==
    /\ pc = "decompress" /\ pos < Len(bits)
    /\ \E c \in Symbol \ {EoF} : decompData' = Append(decompData, c)
    /\ ch' = <<>>
    /\ pos' = pos + 1
    /\ UNCHANGED <<frequencies, pc, tree, text, bits>>

Break ==
    /\ pc = "decompress"
    /\ \/ pos = Len(bits)
       \/ pos < Len(bits) /\ EoF \in Symbol
    /\ pc' = "done"
    /\ UNCHANGED <<frequencies, tree, text, bits, pos, ch, decompData>>

Decompress == PushBit \/ PushSymbol \/ Break

Next == BuildTree \/ GenerateCodes \/ Send \/ Decompress

Spec == Init /\ [][Next]_vars

--------------------------------------------------------------------------------
(* What should hold. *)

\* Every leaf is in one node, and what is decoded are characters of the alphabet.
TypeOK ==
    /\ frequencies \in UNION {[S -> 1 .. MaxFreq] : S \in SUBSET Symbols}
    /\ pc \in {"build", "compress", "decompress", "done", "thrown"}
    /\ \A t \in tree : /\ t.frequency \in Nat
                       /\ t.codes \in [DOMAIN t.codes -> Seq({0, 1})]
    /\ UNION {DOMAIN t.codes : t \in tree} = DOMAIN frequencies
    /\ text \in Seq(Symbols)
    /\ bits \in Seq({0, 1})
    /\ pos \in 0 .. Len(bits)
    /\ ch \in Seq({0, 1})
    /\ decompData \in Seq(Alphabet)

\* Neither is the beginning of the other.
Apart(s, t) == \E x \in DOMAIN s \intersect DOMAIN t : s[x] # t[x]

\* No code is the beginning of another, whatever the frequencies are and
\* however the heap breaks ties: otherwise the bimap would drop one of two
\* equal codes, and Decompress take a beginning for a character.
PrefixFree ==
    \A t \in tree : \A c, d \in DOMAIN t.codes :
       c # d => Apart(t.codes[c], t.codes[d])

Cost(lengths) ==
    MapThenSumSet(LAMBDA c : frequencies[c] * lengths[c], DOMAIN frequencies)

\* Lengths that the codes of some prefix-free code have, by Kraft's inequality.
Feasible(lengths) ==
    LET longest == Cardinality(DOMAIN frequencies)
    IN MapThenSumSet(LAMBDA c : 2^(longest - lengths[c]), DOMAIN frequencies) <= 2^longest

\* The code is a Huffman code: no prefix-free code makes a text with these
\* frequencies shorter.
Optimal ==
    pc = "compress" =>
      \A lengths \in [DOMAIN frequencies -> 0 .. Cardinality(DOMAIN frequencies) - 1] :
         Feasible(lengths) => Cost([c \in DOMAIN frequencies |-> Len(Codes[c])]) <= Cost(lengths)

\* A text is read as it was sent but for characters outside the alphabet,
\* whatever the carriers appended.
RoundTrip == pc = "done" => decompData = TransformCharDomain(text)

\* What is compressed is read again, whatever the alphabet and the frequencies are:
\* GenerateCodes, Compress, Decompress.
TextsHold == TypeOK /\ PrefixFree /\ RoundTrip
================================================================================
