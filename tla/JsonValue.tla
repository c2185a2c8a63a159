------------------------------- MODULE JsonValue -------------------------------
(***************************************************************************)
(* json_value.cpp: the values that requests, responses and specifications  *)
(* are made of.  An array or object is a map from what has been asked for  *)
(* by a reference that may be assigned to, so an array has the size of its *)
(* highest index and may have holes.  A failed JSON_ASSERT aborts the      *)
(* program, a failed JSON_ASSERT_MESSAGE throws.                           *)
(***************************************************************************)
EXTENDS Integers, Sequences, FiniteSets, FiniteSetsExt

CONSTANTS
    IntBits,    \* bits of an Int (32)
    Unit        \* a real is a number of units, of which one is 1/Unit

JsonValueAssumption == IntBits \in Nat /\ IntBits > 1 /\ Unit \in Nat \ {0}

minInt == -(2^(IntBits - 1))
maxInt == 2^(IntBits - 1) - 1
maxUInt == 2^IntBits - 1

\* The order of enum ValueType.
ValueType == <<"null", "int", "uint", "real", "string", "boolean", "array", "object">>
\* A slip: numbers are of one rank, whatever their types.
RankWide(t) == CHOOSE x \in DOMAIN ValueType :
    ValueType[x] = (IF t \in {"uint", "real"} THEN "int" ELSE t)
Rank(t) == CHOOSE x \in DOMAIN ValueType : ValueType[x] = t

null == [type |-> "null"]
Int_(x) == [type |-> "int", num |-> x]
UInt_(x) == [type |-> "uint", num |-> x]
Real_(x) == [type |-> "real", num |-> x]
String_(s) == [type |-> "string", str |-> s]
Bool_(b) == [type |-> "boolean", bool |-> b]
Map(t, f) == IF t = "array" THEN [type |-> t, elems |-> f] ELSE [type |-> t, members |-> f]
items(v) == IF v.type = "array" THEN v.elems ELSE v.members
Empty(t) == Map(t, <<>>)

Throws == [type |-> "throw"]    \* std::runtime_error
Aborts == [type |-> "abort"]    \* assert
Fails(v) == v \in {Throws, Aborts}

--------------------------------------------------------------------------------
(* Conversions. *)

isNumeric(v) == v.type \in {"int", "uint", "real", "boolean"}
isArray(v) == v.type \in {"null", "array"}
isObject(v) == v.type \in {"null", "object"}

\* A conversion to an integer drops the fraction.
Truncate(x) == IF x >= 0 THEN x \div Unit ELSE -((-x) \div Unit)

IsInt(x) == x < maxInt
asInt(v) ==
    CASE v.type = "null" -> Int_(0)
      [] v.type = "int" -> v
      [] v.type = "uint" -> IF IsInt(v.num) THEN Int_(v.num) ELSE Throws
      [] v.type = "real" -> IF v.num \in minInt * Unit .. maxInt * Unit
                            THEN Int_(Truncate(v.num)) ELSE Throws
      [] v.type = "boolean" -> Int_(IF v.bool THEN 1 ELSE 0)
      [] OTHER -> Throws

asUInt(v) ==
    CASE v.type = "null" -> UInt_(0)
      [] v.type = "int" -> IF v.num >= 0 THEN UInt_(v.num) ELSE Throws
      [] v.type = "uint" -> v
      [] v.type = "real" -> IF v.num \in 0 .. maxUInt * Unit
                            THEN UInt_(Truncate(v.num)) ELSE Throws
      [] v.type = "boolean" -> UInt_(IF v.bool THEN 1 ELSE 0)
      [] OTHER -> Throws

asDouble(v) ==
    CASE v.type = "null" -> Real_(0)
      [] v.type \in {"int", "uint"} -> Real_(v.num * Unit)
      [] v.type = "real" -> v
      [] v.type = "boolean" -> Real_(IF v.bool THEN Unit ELSE 0)
      [] OTHER -> Throws

asBool(v) ==
    Bool_(CASE v.type = "null" -> FALSE
            [] v.type \in {"int", "uint", "real"} -> v.num # 0
            [] v.type = "boolean" -> v.bool
            [] v.type = "string" -> v.str # <<>>
            [] OTHER -> DOMAIN items(v) # {})

\* "true" and "false" stand for their characters.
true == <<116, 114, 117, 101>>
false == <<102, 97, 108, 115, 101>>

asString(v) ==
    CASE v.type = "null" -> String_(<<>>)
      [] v.type = "string" -> v
      [] v.type = "boolean" -> String_(IF v.bool THEN true ELSE false)
      [] OTHER -> Throws

isConvertibleTo(v, t) ==
    LET inRange(low, high) == v.num \in low .. high
    IN CASE v.type = "null" -> TRUE
         [] v.type = "int" ->
              t \in {"int", "real", "string", "boolean"} \/ (t = "null" /\ v.num = 0)
                \/ (t = "uint" /\ v.num >= 0)
         [] v.type = "uint" ->
              t \in {"uint", "real", "string", "boolean"} \/ (t = "null" /\ v.num = 0)
                \/ (t = "int" /\ v.num <= maxInt)
         [] v.type = "real" ->
              t \in {"real", "string", "boolean"} \/ (t = "null" /\ v.num = 0)
                \/ (t = "int" /\ inRange(minInt * Unit, maxInt * Unit))
                \/ (t = "uint" /\ inRange(0, maxUInt * Unit))
         [] v.type = "boolean" ->
              t \in {"int", "uint", "real", "string", "boolean"} \/ (t = "null" /\ ~ v.bool)
         [] v.type = "string" -> t = "string" \/ (t = "null" /\ v.str = <<>>)
         [] OTHER -> t = v.type \/ (t = "null" /\ DOMAIN items(v) = {})

--------------------------------------------------------------------------------
(* Order and equality: of maps, as std::map compares them. *)

\* strcmp, and the order of a map's keys.
StrLess(s, t) ==
    \/ Len(s) < Len(t) /\ s = SubSeq(t, 1, Len(s))
    \/ \E x \in DOMAIN s \cap DOMAIN t :
         s[x] < t[x] /\ SubSeq(s, 1, x - 1) = SubSeq(t, 1, x - 1)
KeyLess(t, a, b) == IF t = "array" THEN a < b ELSE StrLess(a, b)

\* A map in the order in which it is iterated.
Iteration(v) ==
    LET keys == DOMAIN items(v)
        before(k) == {j \in keys : KeyLess(v.type, j, k)}
    IN [x \in 1 .. Cardinality(keys) |-> CHOOSE k \in keys : Cardinality(before(k)) = x - 1]

RECURSIVE Less(_, _)
Less(v, w) ==
    IF v.type # w.type THEN Rank(v.type) < Rank(w.type)
    ELSE CASE v.type = "null" -> FALSE
           [] v.type \in {"int", "uint", "real"} -> v.num < w.num
           [] v.type = "boolean" -> ~ v.bool /\ w.bool
           [] v.type = "string" -> StrLess(v.str, w.str)
           [] OTHER ->
                LET a == Iteration(v)
                    b == Iteration(w)
                    same(x) == /\ a[x] = b[x]
                               /\ ~ Less(items(v)[a[x]], items(w)[b[x]])
                               /\ ~ Less(items(w)[b[x]], items(v)[a[x]])
                IN \/ Len(a) < Len(b)
                   \/ /\ Len(a) = Len(b)
                      /\ \E x \in DOMAIN a :
                           /\ \A y \in 1 .. x - 1 : same(y)
                           /\ \/ KeyLess(v.type, a[x], b[x])
                              \/ a[x] = b[x] /\ Less(items(v)[a[x]], items(w)[b[x]])

Equal(v, w) == v = w

--------------------------------------------------------------------------------
(* Arrays and objects. *)

size(v) ==
    CASE v.type = "array" -> IF DOMAIN items(v) = {} THEN 0 ELSE Max(DOMAIN items(v)) + 1
      [] v.type = "object" -> Cardinality(DOMAIN items(v))
      [] OTHER -> 0

With(f, k, e) == [x \in DOMAIN f \cup {k} |-> IF x = k THEN e ELSE f[x]]
Without(f, S) == [x \in DOMAIN f \ S |-> f[x]]

\* What a reference may be taken into: null becomes an array or an object.
Holds(v, t) == v.type \in {"null", t}
Opened(v, t) == IF v.type = "null" THEN Empty(t) ELSE v

\* operator[], of a value that may change: what is missing is made, null.
Resolve(v, t, k) ==
    IF ~ Holds(v, t) THEN Aborts
    ELSE LET w == Opened(v, t)
         IN IF k \in DOMAIN items(w) THEN w ELSE Map(t, With(items(w), k, null))

Assign(v, t, k, e) ==
    LET w == Resolve(v, t, k) IN IF Fails(w) THEN w ELSE Map(t, With(items(w), k, e))

\* operator[], of a value that may not.
Has(v, k) == v.type # "null" /\ k \in DOMAIN items(v)
At(v, t, k) ==
    CASE ~ Holds(v, t) -> Aborts
      [] Holds(v, t) /\ Has(v, k) -> items(v)[k]
      [] OTHER -> null

get(v, t, k, default) ==
    IF Holds(v, t) /\ ~ Has(v, k) THEN default ELSE At(v, t, k)

isMember(v, key) == Holds(v, "object") /\ Has(v, key)

append(v, e) == Assign(v, "array", size(v), e)

clear(v) ==
    CASE v.type \in {"array", "object"} -> Empty(v.type)
      [] v.type = "null" -> v
      [] OTHER -> Aborts

\* A slip: one element too many is left.
resizeLong(v, newSize) ==
    IF ~ Holds(v, "array") THEN Aborts
    ELSE LET w == Opened(v, "array")
         IN IF newSize > size(w) THEN Resolve(w, "array", newSize)
            ELSE Map("array", Without(items(w), newSize + 1 .. size(w) - 1))
\* Elements past the end are erased one by one, and the last that is left must
\* be the one before them.
resize(v, newSize) ==
    IF ~ Holds(v, "array") THEN Aborts
    ELSE LET w == Opened(v, "array")
             cut == Map("array", Without(items(w), newSize .. size(w) - 1))
         IN CASE newSize = 0 -> Empty("array")
              [] newSize > size(w) -> Resolve(w, "array", newSize - 1)
              [] OTHER -> IF size(cut) = newSize THEN cut ELSE Aborts

removeMember(v, key) ==
    CASE ~ Holds(v, "object") -> Aborts
      [] Holds(v, "object") /\ Has(v, key) -> Map("object", Without(items(v), {key}))
      [] OTHER -> v

getMemberNames(v) ==
    CASE v.type = "null" -> <<>>
      [] v.type = "object" -> Iteration(v)
      [] OTHER -> Aborts

--------------------------------------------------------------------------------
(* Paths: what is to be done when one leads nowhere is left open, and the     *)
(* assertions of the steps decide.                                            *)

Index(x) == [type |-> "array", at |-> x]
Key(s) == [type |-> "object", at |-> s]

RECURSIVE ResolvePath(_, _)
ResolvePath(v, path) ==
    IF path = <<>> \/ Fails(v) THEN v
    ELSE ResolvePath(At(v, Head(path).type, Head(path).at), Tail(path))

\* With a default, an index that is valid leads to the default, and one that is
\* not to null.
RECURSIVE ResolveOr(_, _, _)
ResolveOr(v, path, default) ==
    IF path = <<>> THEN v
    ELSE LET arg == Head(path)
         IN IF \/ ~ Holds(v, arg.type)
               \/ arg.type = "array" /\ arg.at < size(v)
               \/ arg.type = "object" /\ ~ Has(v, arg.at)
            THEN default
            ELSE ResolveOr(At(v, arg.type, arg.at), Tail(path), default)

\* The value with e where the path leads, made on the way.
RECURSIVE Make(_, _, _)
Make(v, path, e) ==
    IF path = <<>> THEN e
    ELSE LET arg == Head(path)
             w == Resolve(v, arg.type, arg.at)
             inner == Make(items(w)[arg.at], Tail(path), e)
         IN CASE Fails(w) -> w
              [] ~ Fails(w) /\ Fails(inner) -> inner
              [] OTHER -> Assign(w, arg.type, arg.at, inner)

================================================================================
