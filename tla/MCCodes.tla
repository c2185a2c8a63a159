-------------------------------- MODULE MCCodes --------------------------------
(* Small instances of the codes: the compression of texts, the carriers of bits, the *)
(* texts and settings of the utilities, addresses, values as bytes, and the streams  *)
(* that these are in.  A behaviour is one of one of these parts, and the other ones  *)
(* stay as they are at first.                                                        *)
EXTENDS Huffman, Streams, DataInterface

CONSTANTS
    Decimals, MaxWhole, nSize, PortByte, IntWidth, Ports,
    Octet, MAX_SIZE, Block, VarLimit, MaxForeign, Foreign

VARIABLES
    part,   \* what the behaviour is of
    input, written, foreign

--------------------------------------------------------------------------------
(* What the utilities are given. *)

Pad == -1
Blank == -2
Dot == -3
Hyphen == -4
Other == -6
Colon == -7
Open == -8
Close == -9

Dash == 1
No == <<3, 4>>
Names == {<<Dash>> \o d \o s \o <<l>> : d \in {<<>>, <<Dash>>}, s \in {<<>>, No}, l \in {2, 5}}
Names2 == {<<2>>, No \o <<2>>, <<5>>}

Zeros(len) == [x \in 1 .. len |-> 0]
V4 == {<<1, 2, 3, 4>>, <<1, 2, 9, 9>>, <<1, 3, 0, 1>>, <<10, 0, 0, 1>>, <<127, 0, 0, 1>>,
       <<172, 16, 1, 1>>, <<192, 168, 0, 1>>, <<169, 254, 1, 1>>, <<0, 0, 0, 0>>,
       <<255, 255, 255, 255>>}
\* One for every rule, and the forms of those of IPv4.
Embedding(v) ==
    {Zeros(10) \o <<255, 255>> \o v, Zeros(8) \o <<255, 255, 0, 0>> \o v,
     <<0, 100, 255, 155>> \o Zeros(8) \o v, <<32, 2>> \o v \o Zeros(10),
     <<32, 1>> \o Zeros(10) \o [x \in 1 .. 4 |-> 255 - v[x]]}
OnionCat == <<253, 135, 216, 126, 235, 67>>
V6 == {Zeros(16), Zeros(15) \o <<1>>, <<32, 1, 13, 184>> \o Zeros(12), <<254, 128>> \o Zeros(14),
       <<252>> \o Zeros(15), OnionCat \o [x \in 1 .. 10 |-> x], OnionCat \o [x \in 1 .. 10 |-> 255],
       <<32, 1, 4, 112, 17, 18>> \o Zeros(10), <<32, 1, 4, 112, 33, 18>> \o Zeros(10),
       <<32, 3, 1, 1, 17, 18>> \o Zeros(10), <<32, 1, 0, 16>> \o Zeros(12),
       Zeros(7) \o <<255, 255>> \o [x \in 1 .. 7 |-> x]}

MCItems ==
    [bytes |-> {0, 1, 129, 255},
     digits |-> {0, 9, 31, Pad, Blank},
     money |-> {0, 1, 7, Dot, Blank, Other},
     args |-> [name : Names \cup {<<2>>}, value : {"", "0", "1"}],
     values |-> {-2, 0, 1, 3},
     addresses |-> UNION {Embedding(v) : v \in V4} \cup V6,
     hosts |-> {Colon, Open, Close, 7, Hyphen, Blank}]
MCMost == [bytes |-> 6, digits |-> 6, money |-> 6, args |-> 3, values |-> 6, addresses |-> 2, hosts |-> 6]
MCLines ==
    {<<>>} \cup {<<[name |-> a, value |-> v], [name |-> b, value |-> "1"]>> :
                   a, b \in Names2, v \in {"0", ""}}

Utilities == INSTANCE Address WITH
               Kinds <- DOMAIN MCItems, Items <- MCItems, Most <- MCMost, Lines <- MCLines

--------------------------------------------------------------------------------
(* What is written as bytes, and what bytes are read as. *)

I(width) == [type |-> "int", size |-> width]
Bool == [type |-> "bool"]
Var == [type |-> "varint"]
Two == [type |-> "flat", size |-> 2]
Vector(T) == [type |-> "vector", of |-> T]
Tuple(Ts) == [type |-> "tuple", of |-> Ts]
SetOf(T) == [type |-> "set", of |-> T]
MapOf(K, T) == [type |-> "map", of |-> Tuple(<<K, T>>)]
String == [type |-> "string", of |-> I(1)]

MCTypes ==
    {I(2), Var, Vector(I(1)), Vector(Var), SetOf(I(1)), MapOf(I(1), Var), Bool,
     Tuple(<<I(1), Vector(I(1))>>), Two}
MCWritten ==
    {<<I(2), x>> : x \in {0, 7, 8, 63}}
      \cup {<<Var, x>> : x \in {0, 3, 4, 19, 20, 83, 84, 4000}}
      \cup {<<Vector(I(1)), [x \in 1 .. len |-> x % 8]>> : len \in {0, 1, 4, 5, 6}}
      \cup {<<SetOf(I(1)), <<1, 3, 4>>>>, <<MapOf(I(1), Var), <<<<1, 7>>, <<2, 20>>>>>>,
            <<Tuple(<<Bool, Vector(Vector(Var)), Two, String>>),
              <<TRUE, <<<<>>, <<5, 100>>>>, <<1, 2>>, <<3>>>>>>}

Format == INSTANCE Serialize WITH Byte <- Octet, Types <- MCTypes, Written <- MCWritten

MCPieces == {<<1>>, <<2, 3>>}

--------------------------------------------------------------------------------
(* The carriers: every second key is a point of the curve, each choice of bits leaves some. *)

MCIsFullyValid(key) == key[Len(key)] \in {1, 2}

ASSUME WordAssumption /\ DataInterfaceAssumption
ASSUME Utilities!CoreTextAssumption /\ Utilities!AddressAssumption
ASSUME Format!SerializeAssumption /\ StreamsAssumption

--------------------------------------------------------------------------------
texts == <<frequencies, pc, tree, text, bits, pos, ch, decompData>>
format == <<written, foreign>>
allvars == <<part, texts, carriers, input, format, stream, reading>>

CodesInit ==
    /\ part \in {"texts", "carriers", "utilities", "format", "stream", "buffered"}
    /\ part # "texts" => frequencies = [c \in {EoF} |-> 1]
    /\ part # "carriers" => carrier = "sequence" /\ exact = FALSE /\ Data = Zeros(4 * Byte)
    /\ part # "utilities" => input = [kind |-> "hosts", items |-> <<>>]
    /\ part # "format" => written = <<I(2), 0>>
    /\ Init /\ CarrierInit /\ Utilities!TextInit /\ Format!SerializeInit
    /\ StreamInit /\ FileInit /\ want = 0

CodesNext ==
    \/ part = "texts" /\ Next
         /\ UNCHANGED <<part, carriers, input, format, stream, reading>>
    \/ part = "carriers" /\ CarrierNext
         /\ UNCHANGED <<part, texts, input, format, stream, reading>>
    \/ part = "utilities" /\ Utilities!TextNext
         /\ UNCHANGED <<part, texts, carriers, format, stream, reading>>
    \/ part = "format" /\ Format!SerializeNext
         /\ UNCHANGED <<part, texts, carriers, input, stream, reading>>
    \/ part = "stream" /\ StreamNext
         /\ UNCHANGED <<part, texts, carriers, input, format, reading>>
    \/ part = "buffered" /\ FileNext
         /\ UNCHANGED <<part, texts, carriers, input, format, stream>>

\* The fairness of the carriers: about every second key is a point of the curve.
CodesSpec ==
    /\ CodesInit /\ [][CodesNext]_allvars
    /\ WF_carriers(part = "carriers" /\ CarrierNext)
    /\ SF_carriers(part = "carriers" /\ EncodeDataInPubkey /\ coding' = "encoded")

--------------------------------------------------------------------------------
\* What is read from a carrier, a stranger's included, is its number in lexicographic
\* order (Decode..., CompositionToInteger, PermutationToInteger).
CarriersHold ==
    part = "carriers" =>
      CarrierTypeOK /\ LexicographicIndex

\* The search for the parts of a composition and that for a key end, whatever is written
\* (IntegerToComposition, EncodeDataInPubkey).
CarrierCodingEnds == part = "carriers" => CodingEnds

\* Codes of bytes, amounts, settings and medians (util.cpp, util.h); groups, reachability,
\* keys and texts of addresses (netbase.cpp).
UtilitiesHold ==
    part = "utilities" =>
      /\ Utilities!CodesDecode /\ Utilities!HexIsRead /\ Utilities!MoneyIsRead
      /\ Utilities!SettingsTold /\ Utilities!MedianIsMiddle
      /\ Utilities!GroupsTold /\ Utilities!OwnReached /\ Utilities!KeysOrder /\ Utilities!HostsRead

\* What is written as bytes is read again, as nothing else, with bounded room (serialize.h).
FormatHolds ==
    part = "format" => Format!ValuesRead /\ Format!OneEncoding /\ Format!RoomBounded
================================================================================
