---------------------------------- MODULE Json ----------------------------------
(***************************************************************************)
(* What is done with JSON: a value is changed by calls of its methods, or  *)
(* a text or a string is spelled, and whatever there is is converted,      *)
(* written and read.                                                       *)
(***************************************************************************)
EXTENDS JsonText

CONSTANTS
    Indices,        \* indices and sizes that are asked for
    Keys,           \* names of members, strings: sequences of characters
    Elements,       \* values that are put into arrays and objects
    Tokens,         \* tokens that texts are made of
    MaxTokens,      \* and how many, with two more after a name
    Characters,     \* characters that strings are made of
    MaxCharacters,  \* and how many
    CodePoints      \* code points that strings escape

JsonAssumption ==
    /\ JsonValueAssumption
    /\ Indices \subseteq Nat
    /\ \A key \in Keys : key \in Seq(Nat)
    /\ \A e \in Elements :
         e.type \in {"array", "object"} => \A x \in DOMAIN items(e) : items(e)[x] \in Elements

--------------------------------------------------------------------------------
(* A value and the calls that change it. *)

VARIABLE value

\* Every number, and reals past the range of any integer.
Numbers ==
    {Int_(x) : x \in minInt .. maxInt} \cup {UInt_(x) : x \in 0 .. maxUInt}
      \cup {Real_(x) : x \in (minInt - 2) * Unit .. (maxUInt + 2) * Unit}

JsonInit == value \in Elements \cup Numbers

Alive == ~ Fails(value)

Reference == Alive /\ \E x \in Indices : value' = Resolve(value, "array", x)
Reset == Alive /\ \E x \in Indices, e \in Elements : value' = Assign(value, "array", x, e)
Member == Alive /\ \E key \in Keys, e \in Elements : value' = Assign(value, "object", key, e)
AppendElement == Alive /\ size(value) <= Max(Indices) /\ \E e \in Elements : value' = append(value, e)
Resize(n) == Alive /\ value' = resize(value, n)
RemoveMember(key) == Alive /\ value' = removeMember(value, key)
Clear == Alive /\ value' = clear(value)

JsonNext ==
    \/ Reference \/ Reset \/ Member \/ AppendElement \/ Clear
    \/ \E n \in Indices : Resize(n)
    \/ \E key \in Keys : RemoveMember(key)

--------------------------------------------------------------------------------
(* Texts and strings that grow: every one that is short. *)

VARIABLES
    text,   \* a text that is read
    chars   \* a string, or what is written between the quotes of one

\* A code point that takes more than four digits is escaped as two.
Escapes(cp) ==
    IF cp < 65536 THEN UnicodeEscape(cp)
    ELSE UnicodeEscape(55296 + (cp - 65536) \div 1024)
           \o UnicodeEscape(56320 + ((cp - 65536) % 1024))

TextInit == text = <<>> /\ chars \in {<<>>} \cup {Escapes(cp) : cp \in CodePoints}

\* A text that begins as an object with a member takes more tokens.
HasName == Type(text) = "{" /\ Type(Next_(text)) = "string"

Write ==
    /\ Len(text) < MaxTokens + (IF HasName THEN 2 ELSE 0)
    /\ chars = <<>>
    /\ \E t \in Tokens : text' = Append(text, t)
    /\ UNCHANGED chars

Spell ==
    /\ Len(chars) < MaxCharacters
    /\ text = <<>>
    /\ \E c \in Characters : chars' = Append(chars, c)
    /\ UNCHANGED text

TextNext == Write \/ Spell

--------------------------------------------------------------------------------
(* Properties. *)

\* The sequence that an array is to its readers.
Sequence(v) == [x \in 1 .. size(v) |-> At(v, "array", x - 1)]

\* A map has only what was put in, with no hole beyond its bound.
JsonTypeOK ==
    Alive /\ value.type \in {"array", "object"} =>
      /\ DOMAIN items(value) \subseteq IF value.type = "array" THEN 0 .. Max(Indices) ELSE Keys
      /\ \A x \in DOMAIN items(value) : items(value)[x] \in Elements

\* Resizing, where the program survives it, leaves the elements that are before
\* the new end and nulls up to it, whatever holes the array has; and the program
\* survives every resizing but one that would leave an array without a last
\* element (resize).
ResizeKeeps ==
    [][\A n \in Indices :
         Resize(n) /\ isArray(value) =>
           IF Fails(value')
           THEN n \in 1 .. size(value) - 1 /\ n - 1 \notin DOMAIN items(value)
           ELSE Sequence(value') =
                  [x \in 1 .. n |-> IF x <= size(value) THEN Sequence(value)[x] ELSE null]]_value

\* What isConvertibleTo promises the conversion does, and no more is done than it
\* promises, but that numbers have no strings and the largest Int, as a UInt, is
\* refused; a number in range is converted to the integer next to it towards zero
\* (isConvertibleTo, asInt, asUInt, asDouble, asString).
ConversionsAgree ==
    LET as == [int |-> asInt(value), uint |-> asUInt(value), real |-> asDouble(value),
               string |-> asString(value)]
        scaled(v) == IF v.type = "real" THEN v.num ELSE v.num * Unit
    IN Alive =>
         /\ \A t \in DOMAIN as :
              isConvertibleTo(value, t) /\ Fails(as[t]) =>
                \/ t = "string" /\ isNumeric(value) /\ value.type # "boolean"
                \/ t = "int" /\ value = UInt_(maxInt)
         /\ \A t \in DOMAIN as : ~ Fails(as[t]) => isConvertibleTo(value, t)
         /\ value.type \in {"int", "uint", "real"} =>
              \A t \in {"int", "uint", "real"} : ~ Fails(as[t]) =>
                LET rest == scaled(value) - scaled(as[t])
                IN /\ rest \in -(Unit - 1) .. Unit - 1
                   /\ rest * value.num >= 0

OrderedElements == {pair \in Elements \X Elements : Less(pair[1], pair[2])}

\* The order of values is a strict order in which two are incomparable only when
\* they are equal, whatever their types and nesting: values can be keys of a map
\* (operator<, operator==).
OrderIsStrict ==
    LET below == {e \in Elements : Less(e, value)}
        above == {e \in Elements : Less(value, e)}
    IN Alive =>
         /\ ~ Less(value, value)
         /\ below \cap above = {}
         /\ \A e \in Elements : e \in below \cup above <=> ~ Equal(value, e)
         /\ below \X above \subseteq OrderedElements
         /\ \A e \in above, f \in Elements : <<e, f>> \in OrderedElements => f \in above

Paths == UNION {[1 .. len -> {Index(x) : x \in Indices} \cup {Key(k) : k \in Keys}] : len \in 1 .. 2}

\* What is made along a path is found along it, and what no step of the path meets
\* is as before (Path::make, Path::resolve).
PathsLead ==
    Alive => \A path \in Paths, e \in {Int_(1)} :
      LET made == Make(value, path, e)
      IN ~ Fails(made) =>
           /\ ResolvePath(made, path) = e
           /\ DOMAIN items(made) = DOMAIN items(Opened(value, path[1].type)) \cup {path[1].at}
           /\ \A key \in DOMAIN items(made) \ {path[1].at} : items(made)[key] = items(value)[key]

\* A value as a reader sees it: numbers as quantities, arrays without holes.
RECURSIVE Seen(_)
Seen(v) ==
    CASE v.type \in {"int", "uint", "real"} -> asDouble(v)
      [] v.type = "array" -> Map("array", [x \in 1 .. size(v) |-> Seen(At(v, "array", x - 1))])
      [] v.type = "object" -> Map("object", [key \in DOMAIN items(v) |-> Seen(items(v)[key])])
      [] OTHER -> v

\* What is written is read again: a text of the value and of nothing else, with the
\* same quantities, although integers near the limits come back as reals, small
\* UInts as Ints and holes as nulls (FastWriter::write, Reader::parse).
WrittenIsRead ==
    LET whole(read) == read.ok /\ read.rest = <<>> /\ Seen(read.value) = Seen(value)
    IN Alive => whole(parse(FastWrite(value), FALSE))

\* The styled writers, that try an array out before they write it, write every
\* value as the fast writer does, whatever is tried out in between
\* (StyledWriter::isMultineArray, childValues_).
StylesAgree == Alive => StyledWrite(value) = FastWrite(value)

\* The texts of n tokens that have a value, if anything may stand between two
\* elements of an array, and a comma may follow a member without a name.
Language[n \in Nat] ==
    LET elements[k \in 0 .. n] ==
          Language[k] \cup
            UNION {{u \o <<t>> \o w : u \in Language[j], t \in {s \in Tokens : s.tok # "]"},
                                      w \in elements[k - j - 1]} : j \in 1 .. k - 2}
        member(k) ==
          {<<name, Chars(":")>> \o v : name \in {t \in Tokens : t.tok = "string"}, v \in Language[k - 2]}
        members[k \in 0 .. n] ==
          IF k < 3 THEN {}
          ELSE member(k)
                 \cup {m \o <<Chars(",")>> : m \in {u \in member(k - 1) : u[1].chars = <<>>}}
                 \cup UNION {{m \o <<Chars(",")>> \o w : m \in member(j), w \in members[k - j - 1]}
                               : j \in 3 .. k - 4}
        closed(open, S, close) == {<<Chars(open)>> \o u \o <<Chars(close)>> : u \in S}
    IN CASE n = 0 -> {}
         [] n = 1 -> {<<t>> : t \in {s \in Tokens : s.tok \in {"number", "string", "null"}}}
         [] n = 2 -> {<<Chars("["), Chars("]")>>, <<Chars("{"), Chars("}")>>}
         [] OTHER -> closed("[", elements[n - 2], "]") \cup closed("{", members[n - 2], "}")

Texts == [n \in 0 .. MaxTokens + 2 |-> Language[n]]

\* The texts that are read to their ends are those of a grammar, every one without
\* an error and none of the others, which have exactly one error each, wherever in
\* the text the reader recovered (readValue, readObject, readArray, recoverFromError).
ReadsLanguage ==
    LET told(read) ==
          /\ read.ok /\ read.rest = <<>> <=> text \in Texts[Len(text)]
          /\ read.errors = IF read.ok THEN 0 ELSE 1
    IN told(parse(text, FALSE))

\* A string is written with quotes, backslashes and control characters escaped, and
\* read as it was (valueToQuotedString, decodeString).
QuotesAreRead ==
    /\ decodeString(valueToQuotedString(chars)) = String_(chars)
    /\ \A x \in DOMAIN valueToQuotedString(chars) : valueToQuotedString(chars)[x] > 31

\* The code point that bytes are the UTF-8 form of.
FromUTF8(bytes) ==
    LET lead == CASE Len(bytes) = 1 -> bytes[1]
                  [] Len(bytes) = 2 -> bytes[1] - 192
                  [] Len(bytes) = 3 -> bytes[1] - 224
                  [] OTHER -> bytes[1] - 240
    IN FoldLeft(LAMBDA n, b : n * 64 + b - 128, lead, Tail(bytes))

\* A code point that a string escapes, by four digits or by two times four, is read
\* as the bytes that have it in UTF-8 (decodeUnicodeCodePoint, codePointToUTF8).
EscapesAreRead ==
    \A cp \in CodePoints :
      chars = Escapes(cp) => ~ Fails(decodeString(chars)) /\ FromUTF8(decodeString(chars).str) = cp
================================================================================
