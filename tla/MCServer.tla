-------------------------------- MODULE MCServer --------------------------------
(* Small instances of the server that a method is called of and of the client  *)
(* that calls it: threads and sockets, connections, texts of HTTP, requests of *)
(* JSON-RPC, answers of the wallet, values and texts of JSON.  A behaviour is  *)
(* one of one of these parts, and the other ones stay as they are at first.    *)
EXTENDS RpcServer, HttpPool, HttpConnection

CONSTANTS
    Base, RightMargin, Indices, Keys, Elements, Tokens, MaxTokens, Characters,
    MaxCharacters, CodePoints,
    Strays,
    UriChars, PatternChars, HeadChars, MaxUri, MaxPattern, MaxHead, LastYear, MG_BUF_LEN

VARIABLES
    part,   \* what the behaviour is of
    value, text, chars,
    method, answer, outcome,
    kind, uri, pattern, date, days

Library == INSTANCE Json
Spelling == INSTANCE JsonText
Wallet == INSTANCE WalletApi
Http == INSTANCE HttpText WITH text <- uri

ASSUME Library!JsonAssumption
ASSUME ConnectionAssumption

--------------------------------------------------------------------------------
(* JSON: maps of two keys and arrays of three elements, of one nested level; texts *)
(* of every kind of token and strings of every kind of character.                  *)

MCKeys == {<<>>, <<97>>}
MCElements ==
    {null, Int_(1), UInt_(63), Real_(-15), String_(<<34>>), Bool_(TRUE), Empty("array"),
     Empty("object"), Map("array", (0 :> Int_(1))), Map("array", (0 :> Bool_(TRUE)))}
MCTokens ==
    {Spelling!Chars(c) : c \in {"{", "}", "[", "]", ",", ":"}}
      \cup {Spelling!Number(<<49>>), Spelling!Quoted(<<>>), Spelling!Quoted(<<97>>)}
MCCharacters == {1, 8, 31, 34, 47, 65, 92, 97, 117}
MCCodePoints ==
    {1, 127, 128, 2047, 2048, 8364, 55295, 57344, 65535, 65536, 131071, 1114111}

--------------------------------------------------------------------------------
(* Calls: methods of two, three and eleven parameters, one of none and a            *)
(* notification; requests with a wrong or missing part, and batches of two of them. *)

P(name, type, decl, returns, params) ==
    name :> Procedure(name, type, decl, returns, params)

\* Names are sequences, the empty one of which is what a null method is called by.
Sub == <<1>>
Hello == <<2>>
Init_ == <<3>>
Many == <<4>>

MCProcedures ==
    P(Sub, "method", "position", "integer", <<<<<<2>>, "integer">>, <<<<1>>, "array">>>>)
    @@ P(Hello, "method", "name", "string", <<<<<<1>>, "string">>, <<<<2>>, "object">>>>)
    @@ P(Init_, "notification", "name", "object", <<<<<<1>>, "integer">>>>)
    @@ P(<<>>, "method", "name", "null", <<>>)
    @@ P(Many, "method", "position", "real",
         [x \in 1 .. 11 |-> <<Decimal(x), IF x = 2 THEN "real" ELSE "boolean">>])

Array(seq) == Map("array", [x \in 0 .. Len(seq) - 1 |-> seq[x + 1]])

Parameters ==
    {null, Int_(1), Array(<<>>), Array(<<Int_(1)>>), Array(<<Int_(1), Empty("array")>>),
     Map("array", (1 :> null)), Object(<<>>), Object((<<1>> :> String_("x"))),
     Object((<<1>> :> String_("x")) @@ (<<2>> :> null)),
     Object((<<1>> :> Int_(1)) @@ (<<3>> :> null))}
Ids == {null, Int_(1), Real_(1), String_("x")}
Versioned == String_("2.0")

Called ==
    LET Name == {null, Int_(1)} \cup {String_(s) : s \in {Sub, Hello, Init_, <<9>>}}
    IN {Object([jsonrpc |-> Versioned, method |-> m, params |-> p]) :
          m \in Name, p \in Parameters}
         \cup {Object([jsonrpc |-> Versioned, method |-> m, params |-> p, id |-> i]) :
                 m \in Name, p \in Parameters, i \in Ids}
Odd ==
    {Object([jsonrpc |-> Versioned, method |-> String_(Init_), id |-> Int_(1)]),
     Object([method |-> String_(Sub), params |-> null]), Object(<<>>)}
Batched ==
    {Int_(2), null} \cup Odd
      \cup {r \in Called : /\ Member(r, "method").type = "string"
                           /\ Member(r, "method").str \in {Sub, Init_}
                           /\ Member(r, "params").type # "int"
                           /\ Member(r, "id").type \in {"null", "string"}}
MCRequests ==
    {Unparsable, null, Int_(1), Array(<<>>)} \cup Called \cup Odd
      \cup {Array(<<a, b>>) : a, b \in Batched}

\* What an answer may have in the place of any part of it.
MCStrays ==
    {null, Int_(-1), UInt_(63), UInt_(64), Real_(640), Real_(-7), String_(<<1>>), Bool_(TRUE),
     Empty("array"), Array(<<Int_(1)>>), Empty("object")}

--------------------------------------------------------------------------------
(* Connections: posts whose length is told right, wrong or not at all, or is more   *)
(* than an int or a long holds, so that it is cut to 2, to -1, below it, or to 0;   *)
(* requests for files, and wrong ones.                                              *)

M(head, body, length, how, wrong, guarded) ==
    [head |-> head, body |-> body, length |-> length, method |-> how, wrong |-> wrong,
     guarded |-> guarded]
MCMessage ==
    {M(h, b, l, "POST", "", FALSE) :
       h \in {2, 4, 5}, b \in {0, 3}, l \in {NoLength, -2, -1, 0, 2, 3, 4}}
    \cup {M(2, 3, l, "POST", "", FALSE) : l \in {-40, -14, 5, 7, 12, 15, 18, 40}}
    \cup {M(3, 0, NoLength, how, "", g) :
            how \in {"GET", "HEAD", "PUT", "OPTIONS", "PROPFIND", "CONNECT"}, g \in BOOLEAN}
    \cup {M(3, 0, NoLength, "GET", w, FALSE) : w \in {"character", "method", "uri", "version"}}
MCFile ==
    {"none", "hidden", "directory", "directory/", "indexed", "indexed/", "file", "same", "cgi"}

--------------------------------------------------------------------------------
values == value
texts == <<text, chars>>
http == <<kind, uri, pattern, date, days>>
calls_ == <<method, answer, outcome>>
allvars == <<part, values, texts, server, calls_, http, connection, pool>>

ASimple == M(3, 0, NoLength, "GET", "", FALSE)

\* No request and no reader of one.
NoRequest ==
    /\ request = null /\ auth = "none"
    /\ next = 0 /\ calls = <<>> /\ response = null /\ sent = FALSE

ServerPartsInit ==
    /\ part \in {"values", "texts", "requests", "wallet", "http", "connection", "pool"}
    /\ IF part = "values" THEN Library!JsonInit ELSE value = null
    /\ IF part = "texts" THEN Library!TextInit ELSE text = <<>> /\ chars = <<>>
    /\ IF part = "requests" THEN ServerInit ELSE NoRequest
    /\ part # "http" => kind = "uri"
    /\ part # "connection" => message = ASimple /\ file = "none"
    /\ Wallet!CallInit /\ Http!HttpInit /\ PoolInit /\ ConnectionInit
    /\ message.method = "POST" => file = "none"

ServerPartsNext ==
    \/ part = "values" /\ Library!JsonNext
         /\ UNCHANGED <<part, texts, server, calls_, http, connection, pool>>
    \/ part = "texts" /\ Library!TextNext
         /\ UNCHANGED <<part, values, server, calls_, http, connection, pool>>
    \/ part = "requests" /\ ServerNext
         /\ UNCHANGED <<part, values, texts, calls_, http, connection, pool>>
    \/ part = "wallet" /\ Wallet!CallNext
         /\ UNCHANGED <<part, values, texts, server, http, connection, pool>>
    \/ part = "http" /\ Http!HttpNext
         /\ UNCHANGED <<part, values, texts, server, calls_, connection, pool>>
    \/ part = "connection" /\ ConnectionNext
         /\ UNCHANGED <<part, values, texts, server, calls_, http, pool>>
    \/ part = "pool" /\ PoolNext
         /\ UNCHANGED <<part, values, texts, server, calls_, http, connection>>

\* The fairness of the connection and of the threads.
ServerSpec ==
    /\ ServerPartsInit /\ [][ServerPartsNext]_allvars
    /\ WF_connection(part = "connection" /\ ServeNext)
    /\ WF_pool(part = "pool" /\ PoolNext /\ MasterNext)
    /\ WF_pool(part = "pool" /\ PoolNext /\ OwnerNext /\ ~ StopListening)
    /\ \A w \in Worker : WF_pool(part = "pool" /\ PoolNext /\ WorkerNext(w))

--------------------------------------------------------------------------------
\* Values and their texts: maps and arrays keep what was put in and no more, conversions
\* do what isConvertibleTo promises, the comparison is a strict order, and a path leads to
\* what was put there; what any writer has written is read as the same value, the reader
\* takes the language of JSON with its known exceptions and no other, and no escape is lost
\* (json_value.cpp, json_writer.cpp, json_reader.cpp).
JsonHolds ==
    /\ part = "values" =>
         /\ Library!JsonTypeOK /\ Library!ConversionsAgree
         /\ Library!OrderIsStrict /\ Library!PathsLead
         /\ Library!WrittenIsRead /\ Library!StylesAgree
    /\ part = "texts" =>
         Library!ReadsLanguage /\ Library!QuotesAreRead /\ Library!EscapesAreRead

\* A resized array keeps its elements, or the resize aborts for a hole (Value::resize).
ResizeKeeps == Library!ResizeKeeps

\* Calls: each request of a batch has its answer, methods are called with what they were
\* declared for, what fails is told; and at the other end each part of an answer of the
\* wallet arrives, or its absence is told as the code says (rpcprotocolserver.cpp,
\* procedure.cpp, BitcoinWallet.cpp).
CallsHold ==
    /\ part = "requests" => AnswersMatch /\ CallsTyped /\ Ends /\ SpecificationReads
    /\ part = "wallet" =>
         Wallet!AnswersArrive /\ Wallet!FaultsTold /\ Wallet!OverloadsAgree

\* Messages of HTTP: packets do not matter to where a head ends, names are decoded and do
\* not leave their directory, lengths and ranges fit (mongoose.c).
MessagesHold ==
    part = "http" =>
        /\ Http!PacketsAgree /\ Http!EscapesDecode /\ Http!StaysBelow /\ Http!RedirectsEnd
        /\ Http!PatternsMatch /\ Http!DatesCounted /\ Http!RangesFit /\ Http!AnswersWhole

================================================================================
