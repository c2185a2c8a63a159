------------------------------- MODULE Serialize -------------------------------
(***************************************************************************)
(* Values as bytes: the templates of serialize.h.  A type is a record that *)
(* says how its values are written; a value that is read leaves the bytes  *)
(* behind it, or the reading fails, which the code does by an exception.   *)
(***************************************************************************)
EXTENDS Integers, Sequences, FiniteSets, SequencesExt

CONSTANTS
    Byte,       \* how many values a byte has (256)
    MAX_SIZE,   \* the most elements that are read (0x02000000)
    Block,      \* elements that a vector makes room for at once (5000000 bytes)
    VarLimit    \* what a variable-length integer must stay below (2^32)

SerializeAssumption ==
    /\ Byte \in Nat /\ Byte >= 8 /\ Byte % 2 = 0
    /\ MAX_SIZE \in Nat /\ Block \in Nat \ {0} /\ VarLimit \in Nat \ {0}

IntType(size) == [type |-> "int", size |-> size]
BoolType == [type |-> "bool"]
VarType == [type |-> "varint"]
Flat(size) == [type |-> "flat", size |-> size]
VectorOf(T) == [type |-> "vector", of |-> T]
StringOf == [type |-> "string", of |-> IntType(1)]
Tuple(Ts) == [type |-> "tuple", of |-> Ts]      \* pairs, tuples and IMPLEMENT_SERIALIZE
SetOf(T) == [type |-> "set", of |-> T]
MapOf(K, T) == [type |-> "map", of |-> Tuple(<<K, T>>)]

Read(value, rest) == [ok |-> TRUE, value |-> value, rest |-> rest]
Failure == [ok |-> FALSE]

--------------------------------------------------------------------------------
(* Integers: WRITEDATA and READDATA, the lowest byte first. *)

Bytes(n, size) == [x \in 1 .. size |-> (n \div Byte ^ (x - 1)) % Byte]
Value(b) == FoldRight(LAMBDA d, n : d + Byte * n, b, 0)
Rest(b, n) == SubSeq(b, n + 1, Len(b))
ReadInt(b, size) ==
    IF Len(b) < size THEN Failure ELSE Read(Value(SubSeq(b, 1, size)), Rest(b, size))

\* A size takes one byte, or a byte that says how many come after it.
Marker(n) == Byte - 4 + n
Widths == <<2, 4, 8>>
\* What a size of one byte is below, and what those of two, four and eight are below.
Bound(k) == IF k = 0 THEN Marker(1) ELSE Byte ^ Widths[k]
Form(n) == CHOOSE k \in 0 .. 3 : n < Bound(k) /\ \A j \in 0 .. k - 1 : n >= Bound(j)
GetSizeOfCompactSize(n) == IF Form(n) = 0 THEN 1 ELSE 1 + Widths[Form(n)]
WriteCompactSize(n) ==
    IF Form(n) = 0 THEN <<n>> ELSE <<Marker(Form(n))>> \o Bytes(n, Widths[Form(n)])

\* A slip: a size may be written longer than it has to be.
CanonicalAny(n, k) == n \in Nat
\* Not one that a shorter form has.
Canonical(n, k) == n >= Bound(k - 1)
ReadCompactSize(b) ==
    IF b = <<>> THEN Failure
    ELSE LET k == IF Head(b) < Marker(1) THEN 0 ELSE Head(b) - Marker(0)
             read == IF k = 0 THEN Read(Head(b), Tail(b)) ELSE ReadInt(Tail(b), Widths[k])
         IN IF ~ read.ok THEN Failure
            ELSE IF (k > 0 /\ ~ Canonical(read.value, k)) \/ read.value > MAX_SIZE THEN Failure
            ELSE read

\* Variable-length integers: the last digit comes last and has no flag; one is taken from
\* all others, so that no integer has two encodings.
Flag == Byte \div 2
RECURSIVE VarDigits(_)
VarDigits(n) ==
    IF n < Flag THEN <<n>> ELSE Append(VarDigits((n \div Flag) - 1), n % Flag)
WriteVarInt(n) == [x \in DOMAIN VarDigits(n) |->
                     VarDigits(n)[x] + (IF x < Len(VarDigits(n)) THEN Flag ELSE 0)]
GetSizeOfVarInt(n) == Len(VarDigits(n))

NextDigit(n) == n + 1
RECURSIVE ReadVarDigits(_, _)
ReadVarDigits(b, n) ==
    IF b = <<>> THEN Failure
    ELSE LET m == ((n * Flag) + (Head(b) % Flag)) % VarLimit
         IN IF Head(b) >= Flag THEN ReadVarDigits(Tail(b), NextDigit(m) % VarLimit)
            ELSE Read(m, Tail(b))
ReadVarInt(b) == ReadVarDigits(b, 0)

--------------------------------------------------------------------------------
(* What is made of others. *)

RECURSIVE Serialize(_, _), SerializeAll(_, _)
Serialize(T, v) ==
    CASE T.type = "int" -> Bytes(v, T.size)
      [] T.type = "bool" -> <<IF v THEN 1 ELSE 0>>
      [] T.type = "varint" -> WriteVarInt(v)
      [] T.type = "flat" -> v
      [] T.type = "tuple" -> SerializeAll(T.of, v)
      [] T.type \in {"vector", "string", "set", "map"} ->
           WriteCompactSize(Len(v)) \o SerializeAll([x \in DOMAIN v |-> T.of], v)
SerializeAll(Ts, vs) ==
    IF vs = <<>> THEN <<>> ELSE Serialize(Head(Ts), Head(vs)) \o SerializeAll(Tail(Ts), Tail(vs))

\* Elements that are written as they lie in memory.
Fundamental(T) == T.type \in {"int", "bool"}

RECURSIVE GetSerializeSize(_, _)
GetSerializeSize(T, v) ==
    CASE T.type = "int" -> T.size
      [] T.type = "bool" -> 1
      [] T.type = "varint" -> GetSizeOfVarInt(v)
      [] T.type = "flat" -> Len(v)
      [] T.type = "tuple" ->
           FoldLeft(+, 0, [x \in DOMAIN v |-> GetSerializeSize(T.of[x], v[x])])
      [] T.type \in {"vector", "string"} /\ T.of.type = "int" ->
           GetSizeOfCompactSize(Len(v)) + Len(v) * T.of.size
      [] OTHER ->
           FoldLeft(+, GetSizeOfCompactSize(Len(v)), [x \in DOMAIN v |-> GetSerializeSize(T.of, v[x])])

\* Sets and maps, in the order of their keys: what has a key that is there is left out.
KeyOf(T, e) == IF T.type = "map" THEN e[1] ELSE e
Insert(T, es, e) ==
    LET below == SelectSeq(es, LAMBDA x : KeyOf(T, x) < KeyOf(T, e))
        above == SelectSeq(es, LAMBDA x : KeyOf(T, x) > KeyOf(T, e))
    IN IF Len(below) + Len(above) < Len(es) THEN es ELSE below \o <<e>> \o above

RECURSIVE Unserialize(_, _), UnserializeAll(_, _, _), UnserializeInto(_, _, _, _)
Unserialize(T, b) ==
    CASE T.type = "int" -> ReadInt(b, T.size)
      [] T.type = "bool" ->
           IF b = <<>> THEN Failure ELSE Read(Head(b) # 0, Tail(b))
      [] T.type = "varint" -> ReadVarInt(b)
      [] T.type = "flat" ->
           IF Len(b) < T.size THEN Failure ELSE Read(SubSeq(b, 1, T.size), Rest(b, T.size))
      [] T.type = "tuple" -> UnserializeAll(T.of, <<>>, b)
      [] T.type \in {"vector", "string"} ->
           LET n == ReadCompactSize(b)
           IN IF n.ok THEN UnserializeAll([x \in 1 .. n.value |-> T.of], <<>>, n.rest) ELSE Failure
      [] T.type \in {"set", "map"} ->
           LET n == ReadCompactSize(b)
           IN IF n.ok THEN UnserializeInto(T, <<>>, n.value, n.rest) ELSE Failure
UnserializeAll(Ts, vs, b) ==
    IF Ts = <<>> THEN Read(vs, b)
    ELSE LET one == Unserialize(Head(Ts), b)
         IN IF one.ok THEN UnserializeAll(Tail(Ts), Append(vs, one.value), one.rest) ELSE Failure
UnserializeInto(T, es, n, b) ==
    IF n = 0 THEN Read(es, b)
    ELSE LET one == Unserialize(T.of, b)
         IN IF one.ok THEN UnserializeInto(T, Insert(T, es, one.value), n - 1, one.rest) ELSE Failure

\* Room for how many elements a vector has made when its reading ends, after count of them
\* of n were there: it grows by blocks.
Room(n, count) ==
    LET blocks == (count \div Block) + 1
    IN IF blocks * Block > n THEN n ELSE blocks * Block

--------------------------------------------------------------------------------
(* A value of some type is written, and bytes that somebody else wrote are read. *)

CONSTANTS
    Written,    \* pairs of a type and a value
    Types,      \* the types that bytes are read as
    Foreign,    \* the bytes
    MaxForeign  \* and how many of them

VARIABLES written, foreign
serialized == <<written, foreign>>

SerializeInit == written \in Written /\ foreign = <<>>
\* More bytes come, as an independent program or a damaged file may have them.
Receive == \E d \in Foreign : Len(foreign) < MaxForeign /\ foreign' = Append(foreign, d) /\ UNCHANGED written
Write == foreign = <<>> /\ \E w \in Written : w # written /\ written' = w /\ UNCHANGED foreign
SerializeNext == Receive \/ Write

\* A value is read as it was written, and what follows it stays; its size is what was
\* said, and no part of it is taken for the whole (Serialize, Unserialize,
\* GetSerializeSize).
ValuesRead ==
    LET T == written[1]
        b == Serialize(T, written[2])
    IN /\ Unserialize(T, b \o foreign) = Read(written[2], foreign)
       /\ GetSerializeSize(T, written[2]) = Len(b)
       /\ \A n \in 0 .. Len(b) - 1 : ~ Unserialize(T, SubSeq(b, 1, n)).ok

\* Nothing has two encodings: what is read is written as the bytes it was read from, but
\* for sets and maps that were not in order, and for integers that ran over.
OneEncoding ==
    \A T \in Types :
        LET read == Unserialize(T, foreign)
            used == Len(foreign) - Len(read.rest)
        IN /\ read.ok /\ T.type \notin {"bool", "set", "map"} =>
                \/ Serialize(T, read.value) = SubSeq(foreign, 1, used)
                \/ T.type = "varint" /\ Len(WriteVarInt(VarLimit - 1)) <= used
           /\ read.ok /\ T.type \in {"set", "map"} =>
                /\ \A x \in 1 .. Len(read.value) - 1 :
                     KeyOf(T, read.value[x]) < KeyOf(T, read.value[x + 1])
                /\ Len(Serialize(T, read.value)) <= used

\* A size that is not followed by that much does not make room for more than a block
\* beyond what was there (Unserialize_impl).
RoomBounded ==
    LET size == ReadCompactSize(foreign)
    IN size.ok => Room(size.value, Len(size.rest)) <= Len(size.rest) + Block
================================================================================
