------------------------------- MODULE RpcServer -------------------------------
(***************************************************************************)
(* The JSON-RPC server: rpcprotocolserver.cpp, procedure.cpp, errors.cpp,  *)
(* server.h, specificationwriter.cpp and specificationparser.cpp.  Members *)
(* of a request are strings of the model; names of parameters are          *)
(* sequences of characters, since they are ordered.                        *)
(***************************************************************************)
EXTENDS JsonValue, SequencesExt, Functions

CONSTANTS
    Procedures, \* what the server offers, by name
    Requests,   \* what clients send: values, or Unparsable
    Auths       \* "none" without an authenticator, or what it decides

Unparsable == [type |-> "unparsable"]

\* Declared types of parameters and what ValidateSingleParameter asks of them.
Accepts(type, v) ==
    CASE type = "object" -> isObject(v)
      [] type = "array" -> isArray(v)
      [] type = "integer" -> v.type = "int"
      [] OTHER -> v.type = type
JsonTypes == {"string", "boolean", "integer", "real", "object", "array", "null"}

\* A procedure: names has the type of every parameter by its name, positions by
\* its place.
Procedure(name, type, decl, returns, parameters) ==
    [name |-> name, type |-> type, decl |-> decl, returns |-> returns,
     names |-> [n \in {parameters[x][1] : x \in DOMAIN parameters} |->
                  (CHOOSE p \in ToSet(parameters) : p[1] = n)[2]],
     positions |-> [x \in DOMAIN parameters |-> parameters[x][2]]]

ValidateNamedParameters(p, v) ==
    \A n \in DOMAIN p.names : Has(v, n) /\ Accepts(p.names[n], items(v)[n])

ValidatePositionalParameters(p, v) ==
    /\ size(v) = Len(p.positions)
    /\ \A x \in DOMAIN p.positions : Accepts(p.positions[x], At(v, "array", x - 1))

ValidateParameters(p, v) ==
    \/ isArray(v) /\ p.decl = "position" /\ ValidatePositionalParameters(p, v)
    \/ ~ (isArray(v) /\ p.decl = "position") /\ isObject(v) /\ p.decl = "name"
         /\ ValidateNamedParameters(p, v)

--------------------------------------------------------------------------------
(* Errors. *)

PARSE_ERROR == -7
METHOD_NOT_FOUND == -1
INVALID_REQUEST == -2
INVALID_PARAMS == -3
IS_METHOD == -4
IS_NOTIFICATION == -5
NO_PERMISSION == -6     \* whatever code the authenticator answers
RAISED == -8            \* the code of a JsonRpcException of the called method

Object(f) == Map("object", f)
Member(v, key) == At(v, "object", key)

\* A slip: errors do not say what they answer to.
ErrorBlockAnonymous(request, code) ==
    IF ~ Holds(request, "object") THEN Aborts
    ELSE Object([jsonrpc |-> String_("2.0"), error |-> Int_(code), id |-> null])
ErrorBlock(request, code) ==
    IF ~ Holds(request, "object") THEN Aborts
    ELSE LET id == Member(request, "id")
         IN Object([jsonrpc |-> String_("2.0"),
                    error |-> Object([code |-> Int_(code), message |-> String_("message")]),
                    id |-> IF id.type \in {"null", "int", "uint", "string"} THEN id ELSE null])

--------------------------------------------------------------------------------
(* HandleSingleRequest. *)

\* The text of a method's name: asString throws for what has none.
NameOf(request) == asString(Member(request, "method"))

Required == {"method", "jsonrpc", "params"}

\* 0, or a code; Throws and Aborts come through.
ValidateRequest(request, auth) ==
    IF ~ Holds(request, "object") THEN Aborts
    ELSE IF \E key \in Required : ~ Has(request, key) THEN Int_(INVALID_REQUEST)
    ELSE IF Fails(NameOf(request)) THEN NameOf(request)
    ELSE IF NameOf(request).str \notin DOMAIN Procedures THEN Int_(METHOD_NOT_FOUND)
    ELSE LET proc == Procedures[NameOf(request).str]
         IN CASE Has(request, "id") /\ proc.type = "notification" -> Int_(IS_NOTIFICATION)
              [] ~ Has(request, "id") /\ proc.type = "method" -> Int_(IS_METHOD)
              [] OTHER ->
                   IF ~ ValidateParameters(proc, Member(request, "params"))
                   THEN Int_(INVALID_PARAMS)
                   ELSE Int_(IF auth = "refuses" THEN NO_PERMISSION ELSE 0)

\* What a bound method or notification may do; anything else that it throws ends
\* the program.
Outcomes == {"returns", "raises", "throws"}
Result == String_("result")

Answer(request, auth) ==
    Object([k \in {"jsonrpc", "result", "id"} \cup (IF auth = "none" THEN {} ELSE {"auth"}) |->
              CASE k = "jsonrpc" -> String_("2.0")
                [] k = "result" -> Result
                [] k = "id" -> Member(request, "id")
                [] k = "auth" -> null])

ProcessRequest(request, auth, outcome) ==
    CASE outcome = "throws" -> Throws
      [] outcome = "raises" -> ErrorBlock(request, RAISED)
      [] OTHER -> IF Procedures[NameOf(request).str].type = "method"
                  THEN Answer(request, auth) ELSE null

Valid(request, auth) == ValidateRequest(request, auth) = Int_(0)

HandleSingleRequest(request, auth, outcome) ==
    LET error == ValidateRequest(request, auth)
    IN CASE Fails(error) -> error
         [] error = Int_(0) -> ProcessRequest(request, auth, outcome)
         [] OTHER -> ErrorBlock(request, error.num)

--------------------------------------------------------------------------------
(* A connection to the server: requests come one by one, and those of a batch *)
(* are handled in their order.                                                *)

VARIABLES
    auth,
    request,    \* the value that was read, or Unparsable
    next,       \* how many requests of it have been handled
    calls,      \* the requests that were passed to methods and notifications
    response,   \* the value that becomes the answer
    sent        \* whether it has been written

server == <<auth, request, next, calls, response, sent>>

ServerInit ==
    /\ auth \in Auths /\ request \in Requests
    /\ next = 0 /\ calls = <<>> /\ response = null /\ sent = FALSE

\* isArray holds of null too, which is an empty batch.
IsBatch == request # Unparsable /\ isArray(request)
Single(i) == IF IsBatch THEN At(request, "array", i) ELSE request
Count == CASE request = Unparsable -> 0
           [] IsBatch -> size(request)
           [] OTHER -> IF isObject(request) THEN 1 ELSE 0

Handle ==
    /\ next < Count /\ ~ Fails(response)
    /\ \E outcome \in Outcomes :
         LET r == HandleSingleRequest(Single(next), auth, outcome)
         IN /\ outcome = "returns" \/ Valid(Single(next), auth)
            /\ response' = CASE Fails(r) -> r
                             [] ~ Fails(r) /\ IsBatch -> Assign(response, "array", next, r)
                             [] OTHER -> r
    /\ calls' = IF Valid(Single(next), auth) THEN Append(calls, Single(next)) ELSE calls
    /\ next' = next + 1
    /\ UNCHANGED <<auth, request, sent>>

Respond ==
    /\ next = Count /\ ~ Fails(response) /\ ~ sent
    /\ sent' = TRUE
    /\ response' = IF request = Unparsable THEN ErrorBlock(null, PARSE_ERROR) ELSE response
    /\ UNCHANGED <<auth, request, next, calls>>

ServerNext == Handle \/ Respond

--------------------------------------------------------------------------------
(* Specifications: the writer and the parser. *)

toJsonLiteral(type) ==
    CASE type = "boolean" -> Bool_(TRUE)
      [] type = "string" -> String_("somestring")
      [] type = "real" -> Real_(Unit)
      [] type = "array" -> Empty("array")
      [] type = "object" -> Object([objectkey |-> String_("objectvalue")])
      [] type = "integer" -> Int_(1)
      [] OTHER -> null

\* nullValue falls through to default.
toJsonType(v) ==
    CASE v.type \in {"uint", "int"} -> "integer"
      [] v.type = "null" -> "throw"
      [] OTHER -> v.type

\* The names of the parameters in the order of the map.
NamesInOrder(p) == Iteration(Object(p.names))

Params(p) ==
    LET names == NamesInOrder(p)
    IN CASE names = <<>> -> null
         [] p.decl = "name" -> Object([n \in DOMAIN p.names |-> toJsonLiteral(p.names[n])])
         [] OTHER -> Map("array", [x \in 0 .. Len(names) - 1 |-> toJsonLiteral(p.names[names[x + 1]])])

procedureToJsonValue(p) ==
    IF p.type = "method"
    THEN Object([method |-> String_(p.name), returns |-> toJsonLiteral(p.returns),
                 params |-> Params(p)])
    ELSE Object([notification |-> String_(p.name), params |-> Params(p)])

\* "param" and a decimal number, as far as their order goes: "param10" comes
\* before "param2".
RECURSIVE Decimal(_)
Decimal(n) == IF n < 10 THEN <<n>> ELSE Append(Decimal(n \div 10), n % 10)

NoProcedure == Throws
GetProcedure(signature) ==
    IF ~ (\E key \in {"method", "notification"} : isMember(signature, key))
         \/ ~ isMember(signature, "params")
    THEN NoProcedure
    ELSE LET type == IF isMember(signature, "method") THEN "method" ELSE "notification"
             params == Member(signature, "params")
             returns == IF type = "method" /\ isMember(signature, "returns")
                        THEN toJsonType(Member(signature, "returns")) ELSE "object"
             parameters ==
                 IF isObject(params)
                 THEN [x \in DOMAIN getMemberNames(params) |->
                        LET n == getMemberNames(params)[x]
                        IN <<n, toJsonType(Member(params, n))>>]
                 ELSE [x \in 1 .. size(params) |->
                        <<Decimal(x), toJsonType(At(params, "array", x - 1))>>]
         IN IF \/ Member(signature, type).type # "string"
               \/ params.type \notin {"object", "null", "array"}
               \/ returns = "throw"
               \/ \E x \in DOMAIN parameters : parameters[x][2] = "throw"
            THEN NoProcedure
            ELSE Procedure(Member(signature, type).str, type,
                           IF isObject(params) THEN "name" ELSE "position", returns, parameters)

--------------------------------------------------------------------------------
Parts == IF IsBatch THEN [i \in 1 .. next |-> At(response, "array", i - 1)] ELSE <<response>>

\* Every request of a batch has its answer in its place, and the answer carries the
\* identity of the request and either a result or an error; a notification that was
\* called leaves null (HandleBatchRequest, HandleSingleRequest).
AnswersMatch ==
    ~ Fails(response) /\ Count > 0 =>
        \A i \in 1 .. next :
            LET q == Single(i - 1)
                a == Parts[i]
            IN \/ a = null /\ ~ Has(q, "id") /\ q \in ToSet(calls)
               \/ /\ Has(a, "result") # Has(a, "error")
                  /\ Member(q, "id").type \in {"null", "int", "uint", "string"} =>
                       Member(a, "id") = Member(q, "id")
                  /\ Has(a, "result") => q \in ToSet(calls)

\* A method is only called with what it declares: all of its parameters, each of its
\* type, and as a method when there is an identity to answer to.
CallsTyped ==
    \A i \in DOMAIN calls :
        LET p == Procedures[NameOf(calls[i]).str]
            v == Member(calls[i], "params")
            given(n) == IF p.decl = "name" THEN Member(v, n) ELSE At(v, "array", n)
        IN /\ auth # "refuses"
           /\ Has(calls[i], "id") <=> p.type = "method"
           /\ p.decl = "name" => \A n \in DOMAIN p.names :
                  Has(v, n) /\ (given(n).type # "null" => Accepts(p.names[n], given(n)))
           /\ p.decl = "position" =>
                  /\ size(v) = Len(p.positions)
                  /\ \A x \in DOMAIN p.positions :
                       given(x - 1).type # "null" => Accepts(p.positions[x], given(x - 1))

\* The program only ends over a request that names its method with a number, an array
\* or an object, or over an element of a batch that is no object, unless a method
\* throws something other than a JsonRpcException (asString, isMember).
Ends ==
    Fails(response) =>
        LET q == Single(next - 1)
        IN \/ response = Aborts /\ q.type \notin {"object", "null"}
           \/ response = Throws
                /\ Member(q, "method").type \notin {"string", "null", "boolean"}
           \/ response = Throws /\ q \in ToSet(calls)

\* What the server tells of its procedures reads as what they are, except a parameter
\* or result that is null, and parameters by position whose names are not in order:
\* those are told in the order of the names (procedureToJsonValue, toJsonType).
SpecificationReads ==
    \A name \in DOMAIN Procedures :
        LET p == Procedures[name]
            q == GetProcedure(procedureToJsonValue(p))
            types == Range(p.names) \cup (IF p.type = "method" THEN {p.returns} ELSE {})
            ordered == \A x \in DOMAIN p.positions : p.names[NamesInOrder(p)[x]] = p.positions[x]
        IN /\ q = NoProcedure <=> "null" \in types
           /\ q # NoProcedure =>
                /\ q.name = p.name /\ q.type = p.type
                /\ p.type = "method" => q.returns = p.returns
                /\ p.decl = "name" => q.names = p.names
                /\ p.decl = "position" /\ p.positions # <<>> /\ ordered =>
                     q.positions = p.positions /\ q.decl = p.decl
================================================================================
