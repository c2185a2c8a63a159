-------------------------------- MODULE HttpText --------------------------------
(***************************************************************************)
(* What mongoose.c does with the text of a request: where its head ends,   *)
(* how a URI is decoded, cleaned and redirected, patterns and option       *)
(* lists, dates, ranges, nets and the length of what is printed.           *)
(* Characters are their codes.                                             *)
(***************************************************************************)
EXTENDS Integers, Sequences, FiniteSets

CONSTANTS
    UriChars, PatternChars, HeadChars,  \* what texts are made of
    MaxUri, MaxPattern, MaxHead,        \* how long they become
    LastYear,                           \* how far the calendar goes
    MG_BUF_LEN                          \* bytes of the buffer that is printed into (8192)

LF == 10
CR == 13
Space == 32
Dollar == 36
Percent == 37
Star == 42
Dot == 46
Slash == 47
Question == 63
BackSlash == 92
Bar == 124

Drop(s, n) == SubSeq(s, n + 1, Len(s))
CharAt(s, x) == IF x \in DOMAIN s THEN s[x] ELSE 0  \* strings end in a zero

--------------------------------------------------------------------------------
(* The head of a request. *)

\* isprint, and what else may be in a head.
Printable(c) == c \in 32 .. 126 \/ c \in {CR, LF} \/ c >= 128

\* A slip: the end is seen before its last character has come.
EndsHeadEarly(s, x) ==
    IF s[x] # LF THEN 0
    ELSE CASE s[x + 1] = LF -> x + 1
           [] s[x + 1] = CR /\ CharAt(s, x + 2) \in {LF, 0} -> x + 2
           [] OTHER -> 0
\* Where the head ends if an empty line begins after position x.
EndsHead(s, x) ==
    IF s[x] # LF THEN 0
    ELSE CASE s[x + 1] = LF -> x + 1
           [] s[x + 1] = CR /\ CharAt(s, x + 2) = LF -> x + 2
           [] OTHER -> 0

\* The last character is only looked at as the end of a line.
get_request_len(s) ==
    LET stops == {x \in 1 .. Len(s) - 1 : ~ Printable(s[x]) \/ EndsHead(s, x) # 0}
        first == CHOOSE x \in stops : \A y \in stops : x <= y
    IN CASE stops = {} -> 0
         [] ~ Printable(s[first]) -> -1
         [] OTHER -> EndsHead(s, first)

--------------------------------------------------------------------------------
(* URIs. *)

HexDigits == (48 .. 57) \cup (65 .. 70) \cup (97 .. 102)
HexValue(c) == CASE c \in 48 .. 57 -> c - 48 [] c \in 65 .. 70 -> c - 55 [] OTHER -> c - 87
HexDigit(d) == IF d < 10 THEN d + 48 ELSE d + 87

\* The destination has room for the whole text: URIs are decoded in place.
RECURSIVE mg_url_decode(_)
mg_url_decode(s) ==
    CASE s = <<>> -> <<>>
      [] Len(s) > 2 /\ s[1] = Percent /\ s[2] \in HexDigits /\ s[3] \in HexDigits ->
           <<16 * HexValue(s[2]) + HexValue(s[3])>> \o mg_url_decode(Drop(s, 3))
      [] OTHER -> <<s[1]>> \o mg_url_decode(Tail(s))

Alphanumeric(c) == c \in 48 .. 57 \/ c \in 65 .. 90 \/ c \in 97 .. 122
DontEscape == {46, 95, 45, 36, 44, 59, 126, 40, 41}

Escapes(c) == ~ Alphanumeric(c) /\ c \notin DontEscape

RECURSIVE url_encode(_)
url_encode(s) ==
    IF s = <<>> THEN <<>>
    ELSE (IF Escapes(s[1]) THEN <<Percent, HexDigit(s[1] \div 16), HexDigit(s[1] % 16)>>
                           ELSE <<s[1]>>) \o url_encode(Tail(s))

Separator(c) == c \in {Slash, BackSlash}

RECURSIVE SkipSeparators(_)
SkipSeparators(s) ==
    CASE s # <<>> /\ Separator(s[1]) -> SkipSeparators(Tail(s))
      [] Len(s) > 1 /\ s[1] = Dot /\ s[2] = Dot -> SkipSeparators(Drop(s, 2))
      [] OTHER -> s

\* A zero that was decoded ends the URI.
RECURSIVE remove_double_dots_and_double_slashes(_)
remove_double_dots_and_double_slashes(s) ==
    IF CharAt(s, 1) = 0 THEN <<>>
    ELSE <<s[1]>> \o remove_double_dots_and_double_slashes(
                        IF Separator(s[1]) THEN SkipSeparators(Tail(s)) ELSE Tail(s))

\* handle_request: the URI that is answered, and the character which tells whether a
\* directory is redirected.  The length is that of the text before it was decoded and
\* cleaned, in place: past its new end lies what was there before.
Cleaned(uri) == remove_double_dots_and_double_slashes(mg_url_decode(uri))
InPlace(old, new) == [x \in DOMAIN old |-> IF x <= Len(new) THEN new[x]
                                           ELSE IF x = Len(new) + 1 THEN 0 ELSE old[x]]
Redirects(uri) ==
    LET decoded == InPlace(uri, mg_url_decode(uri))
        length == Len(mg_url_decode(uri))
        buf == InPlace(SubSeq(decoded, 1, length), Cleaned(uri))
               \o SubSeq(decoded, length + 1, Len(uri))
    IN buf[Len(uri)] # Slash
Location(uri) == Append(Cleaned(uri), Slash)

--------------------------------------------------------------------------------
(* Patterns: the length of the prefix that is matched, or -1.  Without bars a    *)
(* pattern is a sequence of characters, '?', '*' within and '**' across          *)
(* directories, and '$' for the end.                                             *)

SegmentLen(s) ==
    LET slashes == {x \in DOMAIN s : s[x] = Slash}
    IN IF slashes = {} THEN Len(s)
       ELSE (CHOOSE x \in slashes : \A y \in slashes : x <= y) - 1

Tries(len) == 0 .. len

RECURSIVE MatchOne(_, _)
MatchOne(p, s) ==
    LET rest == Drop(p, IF Len(p) > 1 /\ p[2] = Star THEN 2 ELSE 1)
        len == IF Len(p) > 1 /\ p[2] = Star THEN Len(s) ELSE SegmentLen(s)
        ok == {l \in Tries(len) : MatchOne(rest, Drop(s, l)) # -1}
        longest == CHOOSE l \in ok : \A k \in ok : k <= l
        shifted(r) == IF r = -1 THEN -1 ELSE r + 1
    IN CASE p = <<>> -> 0
         [] p # <<>> /\ p[1] = Question /\ s # <<>> -> shifted(MatchOne(Tail(p), Tail(s)))
         [] p # <<>> /\ p[1] = Dollar -> IF s = <<>> THEN 0 ELSE -1
         [] p # <<>> /\ p[1] = Star ->
              IF rest = <<>> THEN len
              ELSE IF ok = {} THEN -1
              ELSE longest + MatchOne(rest, Drop(s, longest))
         [] p # <<>> /\ p[1] \notin {Dollar, Star} /\ (p[1] # Question \/ s = <<>>) ->
              IF CharAt(s, 1) = p[1] THEN shifted(MatchOne(Tail(p), Tail(s))) ELSE -1

RECURSIVE match_prefix(_, _)
match_prefix(p, s) ==
    LET bars == {x \in DOMAIN p : p[x] = Bar}
        bar == CHOOSE x \in bars : \A y \in bars : x <= y
        left == MatchOne(SubSeq(p, 1, bar - 1), s)
    IN IF bars = {} THEN MatchOne(p, s)
       ELSE IF left > 0 THEN left ELSE match_prefix(Drop(p, bar), s)

--------------------------------------------------------------------------------
(* Dates, ranges and what is printed. *)

DaysBeforeMonth == <<0, 31, 59, 90, 120, 151, 181, 212, 243, 273, 304, 334>>
num_leap_years(year) == year \div 4 - year \div 100 + year \div 400

\* parse_date_string, in days.
DaysOf(year, month, day) ==
    (year - 1970) * 365 + DaysBeforeMonth[month] + (day - 1) + num_leap_years(year) - num_leap_years(1970)

\* handle_file_request: the length that is told for a range, of which the second end
\* may be missing (the count of numbers read is 1, and r2 is 0).
RangeLength(size, n, r1, r2) ==
    IF n = 2 THEN (IF r2 > size THEN size ELSE r2) - r1 + 1 ELSE size - r1
\* send_file_data: what there is from r1 on.
SentBytes(size, r1, cl) ==
    IF cl <= 0 THEN 0 ELSE IF r1 >= size THEN 0 ELSE IF cl > size - r1 THEN size - r1 ELSE cl

\* alloc_vprintf: how many of len characters are printed; a terminating zero is written
\* in the place of what does not fit, and len bytes are sent.
Room(len) == IF len > MG_BUF_LEN THEN len + 1 ELSE MG_BUF_LEN
Printed(len) == IF len < Room(len) THEN len ELSE Room(len) - 1

--------------------------------------------------------------------------------
VARIABLES
    kind,       \* what the text is
    text,
    pattern,
    date,       \* the first day of a month
    days        \* how many days it is after the first of 1971

http == <<kind, text, pattern, date, days>>

HttpInit ==
    /\ kind \in {"uri", "pattern", "head", "date"}
    /\ text = <<>> /\ pattern = <<>> /\ date = <<1971, 1>> /\ days = 0

More(chars, max) == Len(text) < max /\ \E c \in chars : text' = Append(text, c)

MoreUri ==
    /\ kind = "uri" /\ More(UriChars, MaxUri)
    /\ UNCHANGED <<kind, pattern, date, days>>

MoreHead ==
    /\ kind = "head" /\ More(HeadChars, MaxHead)
    /\ UNCHANGED <<kind, pattern, date, days>>

MorePattern ==
    /\ kind = "pattern"
    /\ \/ Len(pattern) < MaxPattern /\ text = <<>>
            /\ \E c \in PatternChars : pattern' = Append(pattern, c)
            /\ UNCHANGED text
       \/ More(PatternChars \ {Star, Dollar, Bar, Question}, MaxPattern) /\ UNCHANGED pattern
    /\ UNCHANGED <<kind, date, days>>

Leap(year) == year % 4 = 0 /\ (year % 100 # 0 \/ year % 400 = 0)
DaysIn(year, month) ==
    CASE month = 2 -> IF Leap(year) THEN 29 ELSE 28
      [] month \in {4, 6, 9, 11} -> 30
      [] OTHER -> 31

NextMonth ==
    /\ kind = "date" /\ date[1] < LastYear
    /\ date' = IF date[2] = 12 THEN <<date[1] + 1, 1>> ELSE <<date[1], date[2] + 1>>
    /\ days' = days + DaysIn(date[1], date[2])
    /\ UNCHANGED <<kind, text, pattern>>

HttpNext == MoreUri \/ MoreHead \/ MorePattern \/ NextMonth

--------------------------------------------------------------------------------
\* However the head of a request is cut into packets, its end is found at the same
\* place: what get_request_len says of a part it says of the whole (read_request).
PacketsAgree ==
    kind = "head" /\ get_request_len(text) # 0 =>
        \A c \in HeadChars : get_request_len(Append(text, c)) = get_request_len(text)

\* What was encoded is decoded (url_encode, mg_url_decode).
EscapesDecode == kind = "uri" => mg_url_decode(url_encode(text)) = text

\* A name that has been cleaned does not lead out of its directory by dots after a
\* separator, and cleaning it again does not change it.
StaysBelow ==
    kind = "uri" =>
        LET s == Cleaned(text)
        IN /\ \A x \in 1 .. Len(s) - 1 : Separator(s[x]) =>
                  ~ Separator(s[x + 1]) /\ ~ (s[x + 1] = Dot /\ CharAt(s, x + 2) = Dot)
           /\ remove_double_dots_and_double_slashes(s) = s

\* A directory that is redirected is answered at the new location, or the location is
\* redirected no more, unless the clean URI ended in a separator already: the location
\* is then cleaned to the same URI again (handle_request looks at a stale length).
RedirectsEnd ==
    kind = "uri" /\ text # <<>> /\ text[1] = Slash /\ Redirects(text) =>
        LET clean == Cleaned(text)
        IN Redirects(Location(text)) <=>
             Separator(clean[Len(clean)]) \/ Cleaned(Location(text)) # Location(text)

\* The lengths of the prefixes that a pattern without bars may match.
RECURSIVE Lengths(_, _)
Lengths(p, s) ==
    LET double == Len(p) > 1 /\ p[2] = Star
        rest == Drop(p, IF double THEN 2 ELSE 1)
        spans == {l \in 0 .. Len(s) : double \/ \A x \in 1 .. l : s[x] # Slash}
        plus(l, set) == {l + r : r \in set}
    IN CASE p = <<>> -> {0}
         [] p # <<>> /\ p[1] = Dollar -> IF s = <<>> THEN {0} ELSE {}
         [] p # <<>> /\ p[1] = Star -> UNION {plus(l, Lengths(rest, Drop(s, l))) : l \in spans}
         [] p # <<>> /\ p[1] \notin {Dollar, Star} ->
              IF s # <<>> /\ (p[1] = Question \/ p[1] = s[1])
              THEN plus(1, Lengths(Tail(p), Tail(s))) ELSE {}

\* A pattern without bars matches when some prefix does, and tells the length of one;
\* with bars, an alternative that is matched by nothing counts for nothing.
PatternsMatch ==
    kind = "pattern" =>
        LET m == match_prefix(pattern, text)
            bars == {x \in DOMAIN pattern : pattern[x] = Bar}
            alternatives == {SubSeq(pattern, x + 1, y - 1) : x \in bars \cup {0},
                                                             y \in bars \cup {Len(pattern) + 1}}
            all == UNION {Lengths(p, text) : p \in {q \in alternatives : Bar \notin
                                                      {q[x] : x \in DOMAIN q}}}
        IN /\ m # -1 => m \in all
           /\ (\E l \in all : l > 0) => m > 0
           /\ bars = {} /\ all # {} => m # -1

\* Dates are counted as the calendar does, but for January and February of a leap
\* year, which are a day late: its last day of February is the first of March
\* (parse_date_string counts the day of the year it is in).
DatesCounted ==
    kind = "date" =>
        \A day \in 1 .. DaysIn(date[1], date[2]) :
            DaysOf(date[1], date[2], day) =
                365 + days + (day - 1) + (IF Leap(date[1]) /\ date[2] < 3 THEN 1 ELSE 0)

\* A part of a file is as long as is told when its first byte is in the file, unless
\* its last byte is not: one byte is then promised that there is not.
RangesFit ==
    \A size \in 1 .. 4, n \in 1 .. 2, r1 \in 0 .. 5, r2 \in 0 .. 5 :
        LET cl == RangeLength(size, n, r1, r2)
            promised == IF n = 2 /\ r2 >= size THEN 1 ELSE 0
        IN r1 < size /\ (n = 2 => r1 <= r2) => SentBytes(size, r1, cl) = cl - promised

\* An answer is sent as it was printed, unless it fills the buffer to the byte: its
\* last character is then a zero (alloc_vprintf).
AnswersWhole ==
    \A len \in 0 .. 2 * MG_BUF_LEN :
        Printed(len) = IF len = MG_BUF_LEN THEN len - 1 ELSE len
================================================================================
