-------------------------------- MODULE CoreText -------------------------------
(***************************************************************************)
(* The utilities of util.h and util.cpp: bytes as base 64, base 32 or hex, *)
(* amounts of money, settings of the command line and of the configuration *)
(* file, and the median of the last values.                                *)
(***************************************************************************)
EXTENDS Integers, Sequences, FiniteSets, SequencesExt

CONSTANTS
    Decimals,       \* of an amount (8)
    MaxWhole        \* digits before them that are read (10)

CoreTextAssumption == Decimals \in Nat /\ Decimals >= 2 /\ MaxWhole \in Nat \ {0}

--------------------------------------------------------------------------------
(* A character is a digit of the code, told by its value, or one of these. *)

Pad == -1       \* =
Blank == -2
Dot == -3
Minus == -4
Plus == -5
Other == -6
IsDigit(c, base) == c >= 0 /\ c < base

\* EncodeBase64 (w = 6) and EncodeBase32 (w = 5): a turn for each byte, with the bits that
\* are left over, which the modes count.  A group is what has no bits left over.
Group(w) == IF w = 6 THEN 4 ELSE 8
EncodeTurn(w, s, byte) ==
    LET n == s.left * 256 + byte
        bits == s.bits + 8
    IN [out |-> s.out \o [x \in 1 .. bits \div w |-> (n \div 2 ^ (bits - x * w)) % 2 ^ w],
        left |-> n % 2 ^ (bits % w), bits |-> bits % w]
Filling(w, n) == [x \in 1 .. (Group(w) - n) % Group(w) |-> Pad]
Encode(w, data) ==
    LET s == FoldLeft(LAMBDA t, byte : EncodeTurn(w, t, byte), [out |-> <<>>, left |-> 0, bits |-> 0], data)
        digits == s.out \o (IF s.bits = 0 THEN <<>> ELSE <<s.left * 2 ^ (w - s.bits)>>)
    IN digits \o Filling(w, Len(digits))

\* DecodeBase64 and DecodeBase32: the digits in front, and what must come after them.
Digits(base, text) ==
    SubSeq(text, 1, CHOOSE n \in 0 .. Len(text) :
        /\ \A x \in 1 .. n : IsDigit(text[x], base)
        /\ n < Len(text) => ~ IsDigit(text[n + 1], base))
DecodeTurn(w, s, digit) ==
    LET n == s.left * 2 ^ w + digit
        bits == s.bits + w
    IN IF bits < 8 THEN [s EXCEPT !.left = n, !.bits = bits]
       ELSE [out |-> Append(s.out, n \div 2 ^ (bits - 8)), left |-> n % 2 ^ (bits - 8), bits |-> bits - 8]
\* A slip: the bits that are left over may be anything.
PaddedLoose(w, s, n, rest) == IsPrefix(Filling(w, n), rest)
\* A whole digit too many, bits that are not zero, or not as many pads as there should be.
Padded(w, s, n, rest) ==
    n % Group(w) = 0 \/
      /\ s.bits < w /\ s.left = 0
      /\ IsPrefix(Filling(w, n), rest)
      /\ Len(rest) > Len(Filling(w, n)) => ~ IsDigit(rest[Len(Filling(w, n)) + 1], 2 ^ w)
Decode(w, text) ==
    LET digits == Digits(2 ^ w, text)
        s == FoldLeft(LAMBDA t, d : DecodeTurn(w, t, d), [out |-> <<>>, left |-> 0, bits |-> 0], digits)
    IN [bytes |-> s.out,
        valid |-> Padded(w, s, Len(digits), SubSeq(text, Len(digits) + 1, Len(text)))]

HexStr(data, fSpaces) ==
    FlattenSeq([x \in DOMAIN data |->
        (IF fSpaces /\ x > 1 THEN <<Blank>> ELSE <<>>) \o <<data[x] \div 16, data[x] % 16>>])
IsHex(text) == text # <<>> /\ Len(text) % 2 = 0 /\ \A x \in DOMAIN text : IsDigit(text[x], 16)
RECURSIVE Skips(_)
Skips(text) == IF text # <<>> /\ Head(text) = Blank THEN Skips(Tail(text)) ELSE text
RECURSIVE ParseHex(_)
ParseHex(text) ==
    LET t == Skips(text)
    IN IF Len(t) < 2 \/ ~ IsDigit(t[1], 16) \/ ~ IsDigit(t[2], 16) THEN <<>>
       ELSE <<t[1] * 16 + t[2]>> \o ParseHex(SubSeq(t, 3, Len(t)))

RECURSIVE ParseString(_, _)
ParseString(text, c) ==
    IF text = <<>> THEN <<>>
    ELSE IF ~ Contains(text, c) THEN <<text>>
    ELSE LET n == CHOOSE x \in DOMAIN text : text[x] = c /\ \A y \in 1 .. x - 1 : text[y] # c
             rest == SubSeq(text, n + 1, Len(text))
         IN <<SubSeq(text, 1, n - 1)>> \o IF rest = <<>> THEN <<<<>>>> ELSE ParseString(rest, c)

--------------------------------------------------------------------------------
(* Money. *)

COIN == 10 ^ Decimals
Value(digits) == FoldLeft(LAMBDA n, d : 10 * n + d, 0, digits)
Fixed(n, width) == [x \in 1 .. width |-> (n \div 10 ^ (width - x)) % 10]
Written(n) == Fixed(n, CHOOSE k \in 1 .. 20 : n < 10 ^ k /\ (k > 1 => n >= 10 ^ (k - 1)))

\* Zeros at the end go, but the last two decimals stay.
RECURSIVE Trimmed(_)
Trimmed(decimals) ==
    IF Len(decimals) > 2 /\ Last(decimals) = 0 THEN Trimmed(Front(decimals)) ELSE decimals
FormatMoney(n, fPlus) ==
    LET abs == IF n > 0 THEN n ELSE -n
    IN (CASE n < 0 -> <<Minus>> [] fPlus /\ n > 0 -> <<Plus>> [] OTHER -> <<>>)
         \o Written(abs \div COIN) \o <<Dot>> \o Trimmed(Fixed(abs % COIN, Decimals))

\* The units: decimals beyond the last one are not read.
Units(digits) == Value(digits \o [x \in 1 .. Decimals - Len(digits) |-> 0])
AllBlank(text) == \A x \in DOMAIN text : text[x] = Blank
WholeFits(digits) == Len(digits) <= MaxWhole
ParseMoney(text) ==
    LET t == Skips(text)
        whole == Digits(10, t)
        rest == SubSeq(t, Len(whole) + 1, Len(t))
        dot == rest # <<>> /\ Head(rest) = Dot
        read == IF dot THEN Digits(10, Tail(rest)) ELSE <<>>
        decimals == SubSeq(read, 1, IF Len(read) < Decimals THEN Len(read) ELSE Decimals)
        behind == IF dot THEN SubSeq(rest, Len(decimals) + 2, Len(rest)) ELSE rest
    IN IF AllBlank(behind) /\ WholeFits(whole)
       THEN [ok |-> TRUE, money |-> Value(whole) * COIN + Units(decimals)]
       ELSE [ok |-> FALSE]

--------------------------------------------------------------------------------
(* Settings.  A name is a sequence of letters, in the order of their numbers. *)

Dash == 1
Letter_n == 3
Letter_o == 4
RECURSIVE Before(_, _)
Before(a, b) ==
    IF a = <<>> \/ b = <<>> THEN a = <<>> /\ b # <<>>
    ELSE Head(a) < Head(b) \/ (Head(a) = Head(b) /\ Before(Tail(a), Tail(b)))

Set(map, name, value) == [x \in DOMAIN map \cup {name} |-> IF x = name THEN value ELSE map[x]]
\* No value is yes.
GetBoolArg(map, name) == name \in DOMAIN map /\ map[name] # "0"
Negates(name) == IsPrefix(<<Dash, Letter_n, Letter_o>>, name)
Positive(name) == <<Dash>> \o SubSeq(name, 4, Len(name))
InterpretNegativeSetting(map, name) ==
    IF Negates(name) /\ Positive(name) \notin DOMAIN map
    THEN Set(map, Positive(name), IF GetBoolArg(map, name) THEN "0" ELSE "1")
    ELSE map

\* The settings are gone through in the order of their names, those too that are put
\* behind the one that is looked at.
Single(name) == IF IsPrefix(<<Dash, Dash>>, name) THEN Tail(name) ELSE name
Takes(map, name) == IF Single(name) \in DOMAIN map THEN map ELSE Set(map, Single(name), map[name])
RECURSIVE Interpreted(_, _)
Interpreted(map, past) ==
    LET left == {x \in DOMAIN map : \A y \in past : Before(y, x)}
        next == CHOOSE x \in left : \A y \in left : x = y \/ Before(x, y)
    IN IF left = {} THEN map
       ELSE Interpreted(InterpretNegativeSetting(Takes(map, next), Single(next)), {next})

\* Arguments up to the first that is no option.
RECURSIVE Collected(_, _)
Collected(args, map) ==
    IF args = <<>> \/ Head(Head(args).name \o <<0>>) # Dash THEN map
    ELSE Collected(Tail(args), Set(map, Head(args).name, Head(args).value))
ParseParameters(args) == Interpreted(Collected(args, <<>>), {})

ConfigTurn(map, line) ==
    LET key == <<Dash>> \o line.name
    IN IF key \in DOMAIN map THEN map
       ELSE InterpretNegativeSetting(Set(map, key, line.value), key)
ReadConfigFile(map, lines) == FoldLeft(ConfigTurn, map, lines)

--------------------------------------------------------------------------------
(* CMedianFilter. *)

CONSTANT nSize      \* how many values the median is of

Input(values, value) == Append(IF Len(values) = nSize THEN Tail(values) ELSE values, value)
Half(n) == IF n >= 0 THEN n \div 2 ELSE -((-n) \div 2)
Median(values) ==
    LET sorted == SortSeq(values, <)
        n == Len(sorted)
    IN IF n % 2 = 1 THEN sorted[(n \div 2) + 1] ELSE Half(sorted[n \div 2] + sorted[(n \div 2) + 1])

--------------------------------------------------------------------------------
(* Something is put together, one item after another. *)

CONSTANTS
    Kinds,      \* "bytes", "digits", "money", "args" and "values"
    Items,      \* of each kind
    Most,       \* and how many of them
    Lines       \* what the configuration file may be

VARIABLE input      \* [kind, items]

TextInit == input \in [kind : Kinds, items : {<<>>}]
TextNext ==
    /\ Len(input.items) < Most[input.kind]
    /\ \E x \in Items[input.kind] : input' = [input EXCEPT !.items = Append(@, x)]

\* Bytes come back from their code, and a text is said to be valid exactly if it begins
\* with the code of the bytes that are read from it and no further digit follows: what
\* else comes after them is not looked at (EncodeBase64, DecodeBase64, EncodeBase32,
\* DecodeBase32).
CodesDecode ==
    /\ input.kind = "bytes" =>
         \A w \in {5, 6} : Decode(w, Encode(w, input.items)) = [bytes |-> input.items, valid |-> TRUE]
    /\ input.kind = "digits" =>
         \A w \in {5, 6} :
            LET d == Decode(w, input.items)
                code == Encode(w, d.bytes)
            IN d.valid <=>
                 /\ IsPrefix(code, input.items)
                 /\ Len(input.items) > Len(code) => ~ IsDigit(input.items[Len(code) + 1], 2 ^ w)

\* Bytes come back from hex, with spaces between them or not, and a text that is hex is
\* read to its end; blanks are passed over between bytes alone (HexStr, ParseHex, IsHex).
HexIsRead ==
    /\ input.kind = "bytes" =>
         \A fSpaces \in BOOLEAN : ParseHex(HexStr(input.items, fSpaces)) = input.items
    /\ input.kind = "digits" =>
         LET data == ParseHex(input.items)
             read == IF data = <<>> THEN 0
                     ELSE CHOOSE n \in 2 .. Len(input.items) :
                            /\ ParseHex(SubSeq(input.items, 1, n)) = data
                            /\ ParseHex(SubSeq(input.items, 1, n - 1)) # data
         IN /\ IsHex(input.items) => HexStr(data, FALSE) = input.items
            /\ SelectSeq(SubSeq(input.items, 1, read), LAMBDA c : c # Blank) = HexStr(data, FALSE)
            /\ \A x \in 1 .. read - 1 : IsDigit(input.items[x], 16) /\ ~ IsDigit(input.items[x + 1], 16) =>
                 Cardinality({y \in 1 .. x : IsDigit(input.items[y], 16)}) % 2 = 0

\* Money is read as it is written, but for a sign; a text is money if it has digits and no
\* more than one dot, with no more decimals than there are, and blanks around them; that
\* may be no digit at all, which is zero (FormatMoney, ParseMoney).
MoneyIsRead ==
    input.kind = "money" =>
      LET text == input.items
          inner == SelectSeq(text, LAMBDA c : c # Blank)
          dots == {x \in DOMAIN inner : inner[x] = Dot}
          whole == SelectSeq(IF dots = {} THEN inner ELSE SubSeq(inner, 1, (CHOOSE x \in dots : TRUE) - 1),
                             LAMBDA c : IsDigit(c, 10))
          decimals == Len(inner) - Len(whole) - Cardinality(dots)
          read == ParseMoney(text)
      IN /\ read.ok <=>
              /\ \A x \in DOMAIN inner : IsDigit(inner[x], 10) \/ inner[x] = Dot
              /\ \E m \in 1 .. Len(text) + 1 : \E n \in 0 .. Len(text) : inner = SubSeq(text, m, n)
              /\ Cardinality(dots) <= 1 /\ decimals <= Decimals /\ Len(whole) <= MaxWhole
         /\ read.ok => /\ ParseMoney(FormatMoney(read.money, FALSE)) = read
                       /\ read.money > 0 => /\ ~ ParseMoney(FormatMoney(read.money, TRUE)).ok
                                            /\ ~ ParseMoney(FormatMoney(-read.money, FALSE)).ok
                       /\ read.money * 10 ^ decimals = Value(SelectSeq(inner, LAMBDA c : c # Dot)) * COIN

\* What the arguments say of a setting: -foo itself, or else --foo and the negatives, of
\* which that one counts whose name comes first; and the file only where they say nothing,
\* its first line about it (ParseParameters, ReadConfigFile).
SettingsTold ==
    input.kind = "args" =>
      LET args == input.items
          end == {x \in DOMAIN args : Head(args[x].name \o <<0>>) # Dash}
          used == {x \in DOMAIN args : \A y \in end : x < y}
          Given(name) == {x \in used : args[x].name = name}
          LastOf(name) == args[CHOOSE x \in Given(name) : \A y \in Given(name) : y <= x].value
          Opposite(value) == IF value = "0" THEN "1" ELSE "0"
          map == ParseParameters(args)
      IN \A a \in Items["args"] :
           LET foo == Single(a.name)
               no == <<Dash, Letter_n, Letter_o>> \o Tail(foo)
               double == <<Dash>> \o foo
               doubleNo == <<Dash>> \o no
               negative == IF Given(no) # {} THEN no ELSE doubleNo
               told ==
                 CASE Given(foo) # {} -> LastOf(foo)
                   [] Given(foo) = {} /\ Given(double) # {}
                        /\ (Given(doubleNo) = {} \/ Before(double, doubleNo)) -> LastOf(double)
                   [] Given(foo) = {} /\ Given(negative) # {}
                        /\ (Given(double) = {} \/ (Given(doubleNo) # {} /\ Before(doubleNo, double))) ->
                        Opposite(LastOf(negative))
                   [] OTHER -> "none"
           IN Head(a.name) = Dash /\ ~ Negates(foo) =>
                /\ told = IF foo \in DOMAIN map THEN map[foo] ELSE "none"
                /\ \A lines \in Lines :
                     LET all == ReadConfigFile(map, lines)
                         about == {x \in DOMAIN lines : lines[x].name \in {Tail(foo), Tail(no)}}
                         first == lines[CHOOSE x \in about : \A y \in about : x <= y]
                     IN IF told # "none" THEN all[foo] = told
                        ELSE IF about = {} THEN foo \notin DOMAIN all
                        ELSE all[foo] = IF first.name = Tail(foo) THEN first.value ELSE Opposite(first.value)

\* The median has no more than half of the last values below it and no more than half
\* above it (CMedianFilter).
MedianIsMiddle ==
    input.kind = "values" /\ input.items # <<>> =>
      LET kept == FoldLeft(LAMBDA v, x : Input(v, x), <<Head(input.items)>>, Tail(input.items))
          last == SubSeq(input.items, IF Len(input.items) > nSize THEN Len(input.items) - nSize + 1 ELSE 1,
                         Len(input.items))
      IN /\ 2 * Cardinality({x \in DOMAIN last : last[x] < Median(kept)}) <= Len(last)
         /\ 2 * Cardinality({x \in DOMAIN last : last[x] > Median(kept)}) <= Len(last)
================================================================================
