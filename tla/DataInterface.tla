----------------------------- MODULE DataInterface -----------------------------
(***************************************************************************)
(* DataInterface.cpp: how bits become the values of a transaction's        *)
(* outputs (a composition of its budget), their order (a permutation), a   *)
(* public key or a sequence number, and bits again.  Of its algorithms,    *)
(* IntegerToComposition is a search that starts where floating point       *)
(* arithmetic takes it; here it may start anywhere near.                   *)
(*                                                                         *)
(* One behaviour writes bits into a carrier and reads them, or reads a     *)
(* carrier that somebody else has written: users may ask for any           *)
(* transaction.                                                            *)
(***************************************************************************)
EXTENDS Maths

CONSTANTS
    Budgets,        \* budgets that are split
    Parts,          \* numbers of parts
    Byte,           \* bits of a byte (8)
    KeyBits,        \* bits of a public key after its prefix (256)
    MinRandom,      \* random bits a public key has at least (5)
    IsFullyValid(_) \* the public keys that are points of the curve

DataInterfaceAssumption ==
    /\ Budgets \subseteq Nat /\ Parts \subseteq Nat
    \* An amount of coins and the outputs of a transaction are far from filling a word.
    /\ \A b \in Budgets, p \in Parts : b + 3 * p < Word
    /\ Byte \in Nat /\ Byte >= 2
    /\ KeyBits \in Nat /\ KeyBits % Byte = 0
    /\ MinRandom \in 1 .. KeyBits - 2

VARIABLES
    carrier,    \* what carries the bits
    budget,     \* the integer that is split
    nParts,     \* parts of the composition or permutation
    exact,      \* whether log(2^e) / log(2), computed, reaches e
    Data,       \* the bits; none when the carrier is a stranger's
    coding,
    parts,      \* the carrier: parts, elements, bytes or one number
    idx, n, k, mu,      \* locals of IntegerToComposition
    out         \* the bits that are read

carriers == <<carrier, budget, nParts, exact, Data, coding, parts, idx, n, k, mu, out>>

--------------------------------------------------------------------------------
(* Types.cpp: bits, bytes and integers. *)

Bits(len) == [1 .. len -> {0, 1}]

DataBitsToInt(data) == FoldLeft(LAMBDA num, b : 2 * num + b, 0, data)

\* No bits for 0, and none that lead.
IntToDataBits(num) ==
    LET f[x \in Nat] == IF x = 0 THEN <<>> ELSE Append(f[x \div 2], x % 2)
    IN f[num]

\* A char has a sign, an unsigned char, of which Data is made, has none.
Char(x) == ((x + Power2[Byte - 1]) % Power2[Byte]) - Power2[Byte - 1]

BoolVecToChar(vec) == Char(DataBitsToInt(vec))

\* A shift of a negative char keeps its sign, as \div does.
CharToBoolVec(ch) == [x \in 1 .. Byte |-> (ch \div Power2[Byte - x]) % 2]

DataToBits(data) == FlattenSeq([x \in DOMAIN data |-> CharToBoolVec(Char(data[x]))])

BitsToData(bits) ==
    [x \in 1 .. Len(bits) \div Byte |->
       BoolVecToChar(SubSeq(bits, (x - 1) * Byte + 1, x * Byte)) % Power2[Byte]]

--------------------------------------------------------------------------------
(* Capacities and decoders. *)

Log2(x) == CHOOSE e \in 0 .. x : Power2[e] <= x /\ x < Power2[e + 1]

\* The quotient of two logarithms is cut to an integer.  For a power of two it
\* may turn out just below; the quotient of equal numbers is 1.
Embeddable(x) == LET e == Log2(x)
                 IN IF e > 1 /\ x = Power2[e] /\ ~ exact THEN e - 1 ELSE e

EmbeddableBitsInValues(b, p) == Embeddable(NumberCompositions(b, p))
EmbeddableBitsInPermutation(p) == Embeddable(Factorial[p])

nRandBits == KeyBits - 1 - Len(Data)

\* A slip: zeros that the writer's bits began with are lost.
Unpadded(num, len) == IntToDataBits(num)

\* Zeros in front, where the writer's bits began with zeros.
Padded(num, len) ==
    LET data == IntToDataBits(num) IN [x \in 1 .. len - Len(data) |-> 0] \o data

Sum == FoldLeft(+, 0, parts)
count == Len(parts)

\* What carries more than the bits it has room for is nobody's message: the
\* number of zeros wraps, and the insertion throws.
Decodable ==
    CASE carrier = "values" ->
           CompositionToInteger(parts) < Power2[EmbeddableBitsInValues(Sum, count)]
      [] carrier = "permutation" ->
           PermutationToInteger(parts) < Power2[EmbeddableBitsInPermutation(count)]
      [] OTHER -> TRUE

DecodeDataInValues ==
    Padded(CompositionToInteger(parts), EmbeddableBitsInValues(Sum, count))
DecodeDataInPermutation ==
    Padded(PermutationToInteger(parts), EmbeddableBitsInPermutation(count))

\* The prefix, a zero and the random bits are cut off.
DecodeDataInPubkey ==
    LET buf == DataToBits(parts)
    IN SubSeq(buf, Byte + 2, Len(buf) - nRandBits)

DecodeDataInSequenceNr ==
    DataToBits([x \in 1 .. 4 |-> (parts[1] \div Power2[Byte * (4 - x)]) % Power2[Byte]])

--------------------------------------------------------------------------------
(* Initial states. *)

\* Everything that bits can be embedded in.
Compositions == [b \in Budgets |-> [p \in Parts |->
                   {c \in [1 .. p -> 0 .. b] : FoldLeft(+, 0, c) = b}]]
Orders == [p \in Parts |-> {c \in [1 .. p -> 0 .. p - 1] : IsInjective(c)}]
Carriers == IF carrier = "values" THEN Compositions[budget][nParts] ELSE Orders[nParts]

Room == IF carrier = "values" THEN EmbeddableBitsInValues(budget, nParts)
        ELSE EmbeddableBitsInPermutation(nParts)

\* The callers embed in at least two parts, and at least one bit.
Ordered ==
    /\ \/ carrier = "values" /\ budget \in Budgets \ {0}
       \/ carrier = "permutation" /\ budget = 0
    /\ nParts \in Parts \ {0, 1}
    /\ \/ Data \in Bits(Room) /\ parts = <<>> /\ coding = "start"
       \/ Data = <<>> /\ parts \in Carriers /\ coding = "encoded"

Keyed ==
    /\ budget = 0 /\ nParts = 0
    /\ \/ carrier = "pubkey" /\ \E len \in 1 .. KeyBits - 1 - MinRandom : Data \in Bits(len)
       \/ carrier = "sequence" /\ Data \in Bits(4 * Byte)
    /\ parts = <<>> /\ coding = "start"

CarrierInit ==
    /\ exact \in BOOLEAN
    /\ Ordered \/ Keyed
    /\ idx = 0 /\ n = 0 /\ k = 0 /\ mu = 0
    /\ out = <<>>

--------------------------------------------------------------------------------
(* Encoders. *)

given == <<carrier, budget, nParts, exact, Data>>
locals == <<idx, n, k, mu>>

EncodeDataInPermutation ==
    /\ coding = "start" /\ carrier = "permutation"
    /\ parts' = IntegerToPermutation(DataBitsToInt(Data), nParts)
    /\ coding' = "encoded"
    /\ UNCHANGED <<given, locals, out>>

\* Random bits are drawn until the key is a point of the curve.
EncodeDataInPubkey ==
    /\ coding = "start" /\ carrier = "pubkey"
    /\ \E random \in Bits(nRandBits) :
         parts' = BitsToData([x \in 1 .. Byte |-> IF x = Byte - 1 THEN 1 ELSE 0]
                               \o <<0>> \o Data \o random)
    /\ coding' = IF IsFullyValid(parts') THEN "encoded" ELSE "start"
    /\ UNCHANGED <<given, locals, out>>

\* A byte of 128 and more makes data[0] << 24 a negative int, and the same word.
EncodeDataInSequenceNr ==
    /\ coding = "start" /\ carrier = "sequence"
    /\ parts' = LET data == BitsToData(Data)
                IN <<data[1] * Power2[Byte * 3] + data[2] * Power2[Byte * 2]
                       + data[3] * Power2[Byte] + data[4]>>
    /\ coding' = "encoded"
    /\ UNCHANGED <<given, locals, out>>

EncodeDataInValues ==
    /\ coding = "start" /\ carrier = "values"
    /\ idx' = DataBitsToInt(Data)
    /\ n' = budget
    /\ k' = nParts
    /\ coding' = "part"
    /\ UNCHANGED <<given, parts, mu, out>>

\* Compositions of n that do not come before the one that is looked for.
Rest == NumberCompositions(n, k) - idx

\* A slip: the last part is searched for as well.
AllParts == Len(parts) < nParts /\ n # 0

MoreParts == Len(parts) < nParts - 1 /\ n # 0

\* The root of at most (n+1) ... (n+k-1), by a power whose exponent has the
\* precision of a double, rounded.
Roots == 1 .. n + k

Guess ==
    /\ coding = "part" /\ MoreParts
    /\ \E root \in Roots : mu' = Minus(n, root + (k - 1) \div 2)
    /\ coding' = "up"
    /\ UNCHANGED <<given, parts, idx, n, k, out>>

\* The conditions of the two loops that correct the guess.
TooLow == ~ (NumberCompositions(Minus(n, mu + 1), k) < Rest)

\* A slip: the guess is taken for a lower bound.
NeverTooHigh == FALSE

TooHigh == ~ (Rest <= NumberCompositions(Minus(n, mu), k))

Up ==
    /\ coding = "up" /\ TooLow
    /\ mu' = (mu + 1) % Word
    /\ UNCHANGED <<given, coding, parts, idx, n, k, out>>

Down ==
    /\ \/ coding = "up" /\ ~ TooLow
       \/ coding = "down"
    /\ TooHigh
    /\ mu' = Minus(mu, 1)
    /\ coding' = "down"
    /\ UNCHANGED <<given, parts, idx, n, k, out>>

Place ==
    /\ \/ coding = "up" /\ ~ TooLow
       \/ coding = "down"
    /\ ~ TooHigh
    /\ parts' = Append(parts, mu)
    /\ idx' = idx - (NumberCompositions(n, k) - NumberCompositions(Minus(n, mu), k))
    /\ n' = Minus(n, mu)
    /\ k' = k - 1
    /\ coding' = "part"
    /\ UNCHANGED <<given, mu, out>>

\* Parts that were not reached are zero; what is left is the last.
LastPart ==
    /\ coding = "part" /\ ~ MoreParts
    /\ parts' = parts \o [x \in 1 .. nParts - 1 - Len(parts) |-> 0] \o <<n>>
    /\ coding' = "encoded"
    /\ UNCHANGED <<given, locals, out>>

--------------------------------------------------------------------------------
(* Reading. *)

Decode ==
    /\ coding = "encoded"
    /\ Decodable
    /\ out' = CASE carrier = "values" -> DecodeDataInValues
                [] carrier = "permutation" -> DecodeDataInPermutation
                [] carrier = "pubkey" -> DecodeDataInPubkey
                [] OTHER -> DecodeDataInSequenceNr
    /\ coding' = "decoded"
    /\ UNCHANGED <<given, parts, locals>>

DecodeThrows ==
    /\ coding = "encoded"
    /\ ~ Decodable
    /\ coding' = "thrown"
    /\ UNCHANGED <<given, parts, locals, out>>

CarrierNext ==
    \/ EncodeDataInPermutation \/ EncodeDataInPubkey \/ EncodeDataInSequenceNr
    \/ EncodeDataInValues \/ Guess \/ Up \/ Down \/ Place \/ LastPart
    \/ Decode \/ DecodeThrows

CarrierSpec == CarrierInit /\ [][CarrierNext]_carriers

\* About every second key is a point of the curve.
FairCarrierSpec ==
    /\ CarrierSpec
    /\ WF_carriers(CarrierNext)
    /\ SF_carriers(EncodeDataInPubkey /\ coding' = "encoded")

--------------------------------------------------------------------------------
(* What should hold. *)

\* Locals are words, and what is left of the budget never exceeds it.
CarrierTypeOK ==
    /\ carrier \in {"values", "permutation", "pubkey", "sequence"}
    /\ budget \in Nat /\ nParts \in Nat /\ exact \in BOOLEAN
    /\ {Data, out} \subseteq Seq({0, 1})
    /\ coding \in {"start", "part", "up", "down", "encoded", "decoded", "thrown"}
    /\ parts \in Seq(Nat)
    /\ idx \in Int
    /\ n \in 0 .. budget
    /\ k \in 0 .. nParts
    /\ mu \in 0 .. Word - 1

\* What is written is read again, whichever carrier it is written to, wherever
\* the search for a part starts and however the logarithms are rounded, and
\* nothing that was written throws.
BitsArrive ==
    /\ coding = "decoded" /\ Data # <<>> => out = Data
    /\ coding = "thrown" => Data = <<>>

Before(c, d) == \E x \in DOMAIN c : c[x] < d[x] /\ \A y \in 1 .. x - 1 : c[y] = d[y]

\* Compositions and permutations are numbered in lexicographic order: the bits
\* that are read are the number of those before the carrier, strangers'
\* included, and reading throws just when that number has too many bits.
LexicographicIndex ==
    coding \in {"decoded", "thrown"} /\ carrier \in {"values", "permutation"} =>
      LET rank == Cardinality({c \in Carriers : Before(c, parts)})
      IN IF coding = "decoded" THEN Len(out) = Room /\ DataBitsToInt(out) = rank
         ELSE rank >= Power2[Room]

\* The values of the outputs are a composition of the budget: no satoshi is
\* lost, and none spent that is not there, though the search subtracts words.
SpendsBudget ==
    carrier = "values" /\ coding = "encoded" =>
      /\ Len(parts) = nParts
      /\ \A x \in DOMAIN parts : parts[x] \in 0 .. budget
      /\ Sum = budget

\* Bits that are written are read, whatever carries them, and values are the budget.
BitsHold == SpendsBudget /\ BitsArrive

\* The two loops of every search end, and a key is found.
CodingEnds == <>(coding \in {"decoded", "thrown"})
================================================================================
