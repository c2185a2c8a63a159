-------------------------------- MODULE JsonText --------------------------------
(***************************************************************************)
(* json_reader.cpp and json_writer.cpp: values as text and text as values. *)
(* A text is a sequence of tokens, of which numbers and strings have their *)
(* characters; layout is left out, but for what decides whether an array   *)
(* is written on one line.                                                 *)
(***************************************************************************)
EXTENDS JsonValue, SequencesExt

CONSTANTS
    Base,           \* base of the numbers that are written (10)
    RightMargin     \* length at which a line is too long (74)

Chars(t) == [tok |-> t]
Number(s) == [tok |-> "number", chars |-> s]
Quoted(s) == [tok |-> "string", chars |-> s]

--------------------------------------------------------------------------------
(* Characters. *)

Zero == 48
Digit == Zero .. Zero + Base - 1
Minus_ == 45
Plus_ == 43
Point == 46
Quote == 34
Backslash == 92
Slash == 47

\* The letter after the backslash, for every character that has one.
Escape == (8 :> 98) @@ (12 :> 102) @@ (10 :> 110) @@ (13 :> 114) @@ (9 :> 116)
            @@ (Quote :> Quote) @@ (Backslash :> Backslash)
Escaped == (Slash :> Slash) @@ [x \in Range(Escape) |-> CHOOSE c \in DOMAIN Escape : Escape[c] = x]

isControlCharacter(ch) == ch \in 1 .. 31

HexDigit(x) == IF x < 10 THEN 48 + x ELSE 55 + x
UnicodeEscape(x) ==
    <<Backslash, 117, HexDigit(x \div 4096), HexDigit((x \div 256) % 16),
      HexDigit((x \div 16) % 16), HexDigit(x % 16)>>

HexValue(c) ==
    CASE c \in 48 .. 57 -> c - 48
      [] c \in 97 .. 102 -> c - 87
      [] c \in 65 .. 70 -> c - 55
      [] OTHER -> -1

\* The bytes of a code point; none of what is past the last.
codePointToUTF8(cp) ==
    LET cont(shift) == 128 + ((cp \div 2^shift) % 64)
    IN CASE cp <= 127 -> <<cp>>
         [] cp \in 128 .. 2047 -> <<192 + ((cp \div 64) % 32), cont(0)>>
         [] cp \in 2048 .. 65535 -> <<224 + ((cp \div 4096) % 16), cont(6), cont(0)>>
         [] cp \in 65536 .. 1114111 -> <<240 + ((cp \div 2^18) % 8), cont(12), cont(6), cont(0)>>
         [] OTHER -> <<>>

--------------------------------------------------------------------------------
(* Writers. *)

RECURSIVE uintToString(_)
uintToString(x) ==
    Append(IF x < Base THEN <<>> ELSE uintToString(x \div Base), Zero + (x % Base))

SignedText(x) == IF x < 0 THEN <<Minus_>> \o uintToString(-x) ELSE uintToString(x)

\* With a point, and of the zeros at the end one.
RealText(x) ==
    LET size_ == IF x < 0 THEN -x ELSE x
    IN (IF x < 0 THEN <<Minus_>> ELSE <<>>)
         \o uintToString(size_ \div Unit) \o <<Point>> \o uintToString(((size_ % Unit) * Base) \div Unit)

valueToQuotedString(s) ==
    FlattenSeq([x \in DOMAIN s |->
      CASE s[x] \in DOMAIN Escape -> <<Backslash, Escape[s[x]]>>
        [] s[x] \notin DOMAIN Escape /\ isControlCharacter(s[x]) -> UnicodeEscape(s[x])
        [] OTHER -> <<s[x]>>])

Scalar(v) ==
    CASE v.type = "null" -> Chars("null")
      [] v.type \in {"int", "uint"} -> Number(SignedText(v.num))
      [] v.type = "real" -> Number(RealText(v.num))
      [] v.type = "string" -> Quoted(valueToQuotedString(v.str))
      [] OTHER -> Chars(IF v.bool THEN "true" ELSE "false")

Between(pieces, sep) ==
    FlattenSeq([x \in DOMAIN pieces |-> IF x = 1 THEN pieces[x] ELSE <<sep>> \o pieces[x]])

RECURSIVE FastWrite(_)
FastWrite(v) ==
    CASE v.type = "array" ->
           <<Chars("[")>>
             \o Between([x \in 1 .. size(v) |-> FastWrite(At(v, "array", x - 1))], Chars(","))
             \o <<Chars("]")>>
      [] v.type = "object" ->
           LET members == getMemberNames(v)
           IN <<Chars("{")>>
                \o Between([x \in DOMAIN members |->
                              <<Quoted(valueToQuotedString(members[x])), Chars(":")>>
                                \o FastWrite(items(v)[members[x]])], Chars(","))
                \o <<Chars("}")>>
      [] OTHER -> <<Scalar(v)>>

\* The styled writers try the elements of an array out, into childValues_, and
\* write them from there.  A writer is its text, childValues_ and addChildValues_.
Writer == [doc |-> <<>>, childValues |-> <<>>, addChildValues |-> FALSE]

pushValue(w, toks) ==
    IF w.addChildValues THEN [w EXCEPT !.childValues = Append(@, toks)] ELSE [w EXCEPT !.doc = @ \o toks]
Put(w, toks) == [w EXCEPT !.doc = @ \o toks]

\* Characters of what has no members.
Width(toks) ==
    LET width(t) == CASE t.tok = "number" -> Len(t.chars)
                      [] t.tok = "string" -> Len(t.chars) + 2
                      [] t.tok \in {"null", "true"} -> 4
                      [] t.tok = "false" -> 5
                      [] OTHER -> 1
    IN FoldLeft(LAMBDA n, t : n + width(t), 0, toks)

\* A slip: what an array before it tried out is still there.
Uncleared(w) == w
Cleared(w) == [w EXCEPT !.childValues = <<>>]

RECURSIVE StyledValue(_, _)

\* The writer after the trial, and whether the array takes several lines.
isMultineArray(w, v) ==
    LET n == size(v)
        children == [x \in 1 .. n |-> At(v, "array", x - 1)]
        nested == n * 3 >= RightMargin
                    \/ \E x \in 1 .. n : (isArray(children[x]) \/ isObject(children[x]))
                                           /\ size(children[x]) > 0
        tried == FoldLeft(StyledValue, [Cleared(w) EXCEPT !.addChildValues = TRUE], children)
        length == FoldLeft(LAMBDA sum, c : sum + Width(c), 4 + (n - 1) * 2, tried.childValues)
    IN IF nested THEN [writer |-> Cleared(w), lines |-> TRUE]
       ELSE [writer |-> [tried EXCEPT !.addChildValues = FALSE], lines |-> length >= RightMargin]

StyledArray(w, v) ==
    LET n == size(v)
        trial == isMultineArray(w, v)
        hasChildValue == trial.writer.childValues # <<>>
        element(u, x) ==
          LET sep == Put(u, IF x = 1 THEN <<>> ELSE <<Chars(",")>>)
          IN IF hasChildValue \/ ~ trial.lines THEN Put(sep, sep.childValues[x])
             ELSE StyledValue(sep, At(v, "array", x - 1))
    IN IF n = 0 THEN pushValue(w, <<Chars("["), Chars("]")>>)
       ELSE Put(FoldLeft(element, Put(trial.writer, <<Chars("[")>>), [x \in 1 .. n |-> x]), <<Chars("]")>>)

StyledObject(w, v) ==
    LET members == getMemberNames(v)
        member(u, x) ==
          StyledValue(Put(u, (IF x = 1 THEN <<>> ELSE <<Chars(",")>>)
                               \o <<Quoted(valueToQuotedString(members[x])), Chars(":")>>),
                      items(v)[members[x]])
    IN IF members = <<>> THEN pushValue(w, <<Chars("{"), Chars("}")>>)
       ELSE Put(FoldLeft(member, Put(w, <<Chars("{")>>), [x \in DOMAIN members |-> x]), <<Chars("}")>>)

StyledValue(w, v) ==
    CASE v.type = "array" -> StyledArray(w, v)
      [] v.type = "object" -> StyledObject(w, v)
      [] OTHER -> pushValue(w, <<Scalar(v)>>)

StyledWrite(v) == StyledValue(Writer, v).doc

--------------------------------------------------------------------------------
(* Reader.  What reads a part of a text returns what is left of it, and the   *)
(* number of errors that it recorded.                                         *)

Result(ok, v, rest, errors) == [ok |-> ok, value |-> v, rest |-> rest, errors |-> errors]

EndOfStream == "end"
Type(toks) == IF toks = <<>> THEN EndOfStream ELSE Head(toks).tok
Next_(toks) == IF toks = <<>> THEN <<>> ELSE Tail(toks)

RECURSIVE skipCommentTokens(_)
skipCommentTokens(toks) ==
    IF Type(toks) = "comment" THEN skipCommentTokens(Tail(toks)) ELSE toks

\* Up to the end of the text, or past a token that may end what went wrong; the
\* errors it meets are forgotten.
recoverFromError(toks, until) ==
    LET ends == {x \in DOMAIN toks : toks[x].tok = until}
    IN IF ends = {} THEN <<>> ELSE SubSeq(toks, Min(ends) + 1, Len(toks))

Failed(toks, until, errors) == Result(FALSE, null, recoverFromError(toks, until), errors)

\* sscanf with %lf: digits, a point and digits, of which Unit keeps what it can.
decodeDouble(chars) ==
    LET neg == Head(chars) = Minus_
        body == IF Head(chars) \in {Minus_, Plus_} THEN Tail(chars) ELSE chars
        run(s) == LET stops == {x \in DOMAIN s : s[x] \notin Digit}
                  IN IF stops = {} THEN s ELSE SubSeq(s, 1, Min(stops) - 1)
        whole == run(body)
        after == SubSeq(body, Len(whole) + 1, Len(body))
        part == IF after # <<>> /\ Head(after) = Point THEN run(Tail(after)) ELSE <<>>
        number(s) == FoldLeft(LAMBDA n, c : n * Base + c - Zero, 0, s)
        scaled == number(whole) * Unit + (number(part) * Unit) \div Base^Len(part)
    IN IF whole = <<>> /\ part = <<>> THEN Throws ELSE Real_(IF neg THEN -scaled ELSE scaled)

\* A number with nothing but digits after its sign is an integer, unless a digit
\* more could make it too large.
decodeNumber(chars) ==
    LET isDouble == \E x \in DOMAIN chars : chars[x] \notin Digit /\ (x > 1 \/ chars[x] # Minus_)
        neg == Head(chars) = Minus_
        digits == IF neg THEN Tail(chars) ELSE chars
        threshold == (IF neg THEN -minInt ELSE maxUInt) \div Base
        number == [x \in 0 .. Len(digits) |->
                     FoldLeft(LAMBDA n, c : n * Base + c - Zero, 0, SubSeq(digits, 1, x))]
        value_ == number[Len(digits)]
    IN IF isDouble \/ \E x \in 0 .. Len(digits) - 1 : number[x] >= threshold
       THEN decodeDouble(chars)
       ELSE CASE neg -> Int_(-value_)
              [] ~ neg /\ value_ <= maxInt -> Int_(value_)
              [] OTHER -> UInt_(value_)

\* Of an escape: the character or characters, and the length of what it takes.
decodeUnicodeEscapeSequence(chars) ==
    LET digits == [x \in 1 .. 4 |-> HexValue(chars[x])]
    IN IF Len(chars) < 4 THEN -1
       ELSE IF -1 \in Range(digits) THEN -1
       ELSE ((digits[1] * 16 + digits[2]) * 16 + digits[3]) * 16 + digits[4]

SurrogatePair(first, second) == 65536 + (first % 1024) * 1024 + (second % 1024)

decodeUnicodeCodePoint(chars) ==
    LET unicode == decodeUnicodeEscapeSequence(chars)
        rest == SubSeq(chars, 5, Len(chars))
        surrogatePair == decodeUnicodeEscapeSequence(SubSeq(rest, 3, Len(rest)))
    IN IF unicode \notin 55296 .. 56319 THEN [cp |-> unicode, len |-> 4]
       ELSE IF Len(rest) < 6 THEN [cp |-> -1, len |-> 0]
       ELSE IF rest[1] # Backslash \/ rest[2] # 117 \/ surrogatePair = -1 THEN [cp |-> -1, len |-> 0]
       ELSE [cp |-> SurrogatePair(unicode, surrogatePair), len |-> 10]

RECURSIVE decodeString(_)
decodeString(chars) ==
    LET c == Head(chars)
        escape == chars[2]
        prepend(s, n) ==
          LET rest == decodeString(SubSeq(chars, n + 1, Len(chars)))
          IN IF Fails(rest) THEN rest ELSE String_(s \o rest.str)
        unicode == decodeUnicodeCodePoint(SubSeq(chars, 3, Len(chars)))
    IN CASE chars = <<>> -> String_(<<>>)
         [] chars # <<>> /\ c # Backslash -> prepend(<<c>>, 1)
         [] chars = <<Backslash>> -> Throws
         [] Len(chars) > 1 /\ c = Backslash ->
              CASE escape \in DOMAIN Escaped -> prepend(<<Escaped[escape]>>, 2)
                [] escape = 117 -> IF unicode.cp = -1 THEN Throws
                                   ELSE prepend(codePointToUTF8(unicode.cp), 2 + unicode.len)
                [] OTHER -> Throws

RECURSIVE readValue(_), readMembers(_, _, _), readElements(_, _, _)

readValue(toks) ==
    LET text == skipCommentTokens(toks)
        rest == Next_(text)
        decoded(v) == IF Fails(v) THEN Result(FALSE, null, rest, 1) ELSE Result(TRUE, v, rest, 0)
    IN CASE Type(text) = "{" -> readMembers(rest, Empty("object"), <<>>)
         [] Type(text) = "[" ->
              IF Type(rest) = "]" THEN Result(TRUE, Empty("array"), Next_(rest), 0)
              ELSE readElements(rest, Empty("array"), 0)
         [] Type(text) = "number" -> decoded(decodeNumber(Head(text).chars))
         [] Type(text) = "string" -> decoded(decodeString(Head(text).chars))
         [] Type(text) = "true" -> Result(TRUE, Bool_(TRUE), rest, 0)
         [] Type(text) = "false" -> Result(TRUE, Bool_(FALSE), rest, 0)
         [] Type(text) = "null" -> Result(TRUE, null, rest, 0)
         [] OTHER -> Result(FALSE, null, rest, 1)

\* readObject.  The brace ends an object where a name is expected, as long as the
\* name before is empty; after comments behind a member, whatever follows is taken
\* for a comma.
AfterMember(object, name, member) ==
    LET comma == skipCommentTokens(member.rest)
        with == Assign(object, "object", name, member.value)
    IN IF ~ member.ok THEN Failed(member.rest, "}", member.errors)
       ELSE IF Type(member.rest) \notin {"}", ",", "comment"} THEN Failed(Next_(member.rest), "}", 1)
       ELSE IF Type(comma) = "}" THEN Result(TRUE, with, Next_(comma), 0)
       ELSE readMembers(Next_(comma), with, name)

readMembers(toks, object, before) ==
    LET start == skipCommentTokens(toks)
        name == decodeString(Head(start).chars)
        colon == Next_(start)
    IN CASE Type(start) = "}" /\ before = <<>> -> Result(TRUE, object, Next_(start), 0)
         [] Type(start) # "string" /\ (Type(start) # "}" \/ before # <<>>) ->
              Failed(Next_(start), "}", 1)
         [] Type(start) = "string" ->
              IF Fails(name) THEN Failed(colon, "}", 1)
              ELSE IF Type(colon) # ":" THEN Failed(Next_(colon), "}", 1)
              ELSE AfterMember(object, name.str, readValue(Next_(colon)))

\* readArray.  The test for a token that is neither comma nor bracket is never
\* true: any token separates two elements.
AfterElement(array, index, element) ==
    LET token == skipCommentTokens(element.rest)
        with == Assign(array, "array", index, element.value)
        badTokenType == Type(token) = "," /\ Type(token) = "]"
    IN CASE ~ element.ok -> Failed(element.rest, "]", element.errors)
         [] element.ok /\ badTokenType -> Failed(Next_(token), "]", 1)
         [] element.ok /\ Type(token) = "]" -> Result(TRUE, with, Next_(token), 0)
         [] OTHER -> readElements(Next_(token), with, index + 1)

readElements(toks, array, index) == AfterElement(array, index, readValue(toks))

Rooted(read) ==
    IF isArray(read.value) \/ isObject(read.value) THEN read
    ELSE Result(FALSE, read.value, <<>>, read.errors + 1)
parse(toks, strictRoot) == IF strictRoot THEN Rooted(readValue(toks)) ELSE readValue(toks)

================================================================================
