------------------------------- MODULE WalletApi -------------------------------
(***************************************************************************)
(* BitcoinWallet.cpp and the JSON-RPC client below it: what every method   *)
(* of BitcoinAPI sends to the daemon, and how what comes back becomes the  *)
(* structure the method returns, an exception, or the end of the program.  *)
(* A structure is read member by member: one that is missing is made,      *)
(* null, and null converts to every type.                                  *)
(***************************************************************************)
EXTENDS JsonValue, Functions

--------------------------------------------------------------------------------
(* How a value is read: by a conversion, as an object with members, as a     *)
(* list of what an iterator meets, or as one of two odd shapes.              *)

int == [kind |-> "int"]
uint == [kind |-> "uint"]
double == [kind |-> "real"]
string == [kind |-> "string"]
bool == [kind |-> "boolean"]
void == [kind |-> "void"]
struct(fields) == [kind |-> "struct", fields |-> fields]
vector(of) == [kind |-> "vector", of |-> of]

\* listaccounts reads the names of members, and listaddressgroupings three
\* elements, the third if there is one.
map == [kind |-> "map"]
grouping == [kind |-> "grouping"]

\* What a failed part makes of the whole: the program does not outlive an abort.
Fault(parts) == IF Aborts \in parts THEN Aborts ELSE Throws

Structure(t, parts) ==
    LET all == {parts[x] : x \in DOMAIN parts}
    IN IF \E p \in all : Fails(p) THEN Fault(all) ELSE Map(t, parts)

\* What begin() and end() enclose: nothing, of a value without elements.
Iterated(v) == IF v.type \in {"array", "object"} THEN items(v) ELSE <<>>

RECURSIVE Read(_, _)
Read(how, v) ==
    CASE how.kind = "int" -> asInt(v)
      [] how.kind = "uint" -> asUInt(v)
      [] how.kind = "real" -> asDouble(v)
      [] how.kind = "string" -> asString(v)
      [] how.kind = "boolean" -> asBool(v)
      [] how.kind = "void" -> null
      [] how.kind = "struct" ->
           IF ~ Holds(v, "object") THEN Aborts
           ELSE Structure("object", [f \in DOMAIN how.fields |-> Read(how.fields[f], At(v, "object", f))])
      [] how.kind = "vector" ->
           Structure("array", [x \in DOMAIN Iterated(v) |-> Read(how.of, Iterated(v)[x])])
      [] how.kind = "map" ->
           IF v.type = "array" /\ DOMAIN items(v) # {} THEN Throws
           ELSE Structure("object", [x \in DOMAIN Iterated(v) |-> asDouble(Iterated(v)[x])])
      [] how.kind = "grouping" ->
           IF ~ Holds(v, "array") THEN Aborts
           ELSE Structure("object",
                  [address |-> asString(At(v, "array", 0)),
                   balance |-> asDouble(At(v, "array", 1)),
                   account |-> IF 2 < size(v) THEN asString(At(v, "array", 2)) ELSE String_(<<>>)])

--------------------------------------------------------------------------------
(* WalletTypes.h, as the methods fill it in. *)

getinfo_t == struct(
    [version |-> int, protocolversion |-> int, walletversion |-> int, balance |-> double,
     blocks |-> int, timeoffset |-> int, connections |-> int, proxy |-> string,
     difficulty |-> double, testnet |-> bool, keypoololdest |-> int, keypoolsize |-> int,
     paytxfee |-> double, unlocked_until |-> int, errors |-> string])

netaddress_t == struct([address |-> string, connected |-> bool])

\* Without dns, the names of the nodes and no more.
nodeinfo_t(dns) ==
    struct(IF dns THEN [addednode |-> string, connected |-> bool, addresses |-> vector(netaddress_t)]
           ELSE [addednode |-> string])

peerinfo_t == struct(
    [addr |-> string, services |-> string, lastsend |-> int, lastrecv |-> int,
     bytessent |-> int, bytesrecv |-> int, conntime |-> int, pingtime |-> double,
     version |-> int, subver |-> string, inbound |-> bool, startingheight |-> int,
     banscore |-> int])

accountinfo_t == struct([account |-> string, amount |-> double, confirmations |-> int])

addressinfo_t == struct(
    [address |-> string, account |-> string, amount |-> double, confirmations |-> int,
     txids |-> vector(string)])

Placed == [confirmations |-> int, blockhash |-> string, blockindex |-> int, blocktime |-> int,
           txid |-> string, walletconflicts |-> vector(string), time |-> int,
           timereceived |-> int, amount |-> double]

Paid == [account |-> string, address |-> string, category |-> string, amount |-> double]

Both(f, g) == [x \in DOMAIN f \cup DOMAIN g |-> IF x \in DOMAIN f THEN f[x] ELSE g[x]]

transactiondetails_t == struct(Paid)
transactioninfo_t == struct(Both(Placed, Paid))
gettransaction_t ==
    struct(Both(Placed, [details |-> vector(transactiondetails_t), hex |-> string]))

multisig_t == struct([address |-> string, redeemScript |-> string])

validateaddress_t == struct(
    [isvalid |-> bool, address |-> string, ismine |-> bool, isscript |-> bool,
     pubkey |-> string, iscompressed |-> bool])

scriptSig_t == struct([asm |-> string, hex |-> string])

scriptPubKey_t == struct(
    [asm |-> string, hex |-> string, reqSigs |-> int, type |-> string,
     addresses |-> vector(string)])

txout_t == struct([txid |-> string, vout |-> uint])
vin_t == struct([txid |-> string, vout |-> uint, scriptSig |-> scriptSig_t, sequence |-> uint])
vout_t == struct([value |-> double, n |-> uint, scriptPubKey |-> scriptPubKey_t])

decoderawtransaction_t == struct(
    [txid |-> string, version |-> int, locktime |-> int, vin |-> vector(vin_t),
     vout |-> vector(vout_t)])

getrawtransaction_t == struct(
    Both(decoderawtransaction_t.fields,
         [hex |-> string, blockhash |-> string, confirmations |-> uint, time |-> uint,
          blocktime |-> uint]))

signrawtransaction_t == struct([hex |-> string, complete |-> bool])

utxoinfo_t == struct(
    [bestblock |-> string, confirmations |-> int, value |-> double,
     scriptPubKey |-> scriptPubKey_t, version |-> int, coinbase |-> bool])

utxosetinfo_t == struct(
    [height |-> int, bestblock |-> string, transactions |-> int, txouts |-> int,
     bytes_serialized |-> int, hash_serialized |-> string, total_amount |-> double])

unspenttxout_t == struct(
    [txid |-> string, vout |-> uint, address |-> string, account |-> string,
     scriptPubKey |-> string, amount |-> double, confirmations |-> int])

blockinfo_t == struct(
    [hash |-> string, confirmations |-> int, size |-> int, height |-> int, version |-> int,
     merkleroot |-> string, tx |-> vector(string), time |-> uint, nonce |-> uint,
     bits |-> string, difficulty |-> double, chainwork |-> string,
     previousblockhash |-> string, nextblockhash |-> string])

mininginfo_t == struct(
    [blocks |-> int, currentblocksize |-> int, currentblocktx |-> int, difficulty |-> double,
     errors |-> string, genproclimit |-> int, networkhashps |-> double, pooledtx |-> int,
     testnet |-> bool, generate |-> bool, hashespersec |-> int])

workdata_t == struct([midstate |-> string, data |-> string, hash1 |-> string, target |-> string])

txsinceblock_t == struct([transactions |-> vector(transactioninfo_t), lastblock |-> string])

--------------------------------------------------------------------------------
(* The methods: the command, the arguments in order, and what is returned.    *)

Method(command, params, ret) == [command |-> command, params |-> params, ret |-> ret]

GeneralFunctions ==
    {Method("getinfo", <<>>, getinfo_t),
     Method("stop", <<>>, void)}

NodeFunctions ==
    {Method("addnode", <<"node", "comm">>, void),
     Method("getconnectioncount", <<>>, int),
     Method("getpeerinfo", <<>>, vector(peerinfo_t))}
      \cup UNION {{Method("getaddednodeinfo", <<"dns">>, vector(nodeinfo_t(dns))),
                   Method("getaddednodeinfo", <<"dns", "node">>, vector(nodeinfo_t(dns)))}
                    : dns \in BOOLEAN}

WalletFunctions ==
    {Method("backupwallet", <<"destination">>, void),
     Method("encryptwallet", <<"passphrase">>, void),
     Method("walletlock", <<>>, void),
     Method("walletpassphrase", <<"passphrase", "timeout">>, void),
     Method("walletpassphrasechange", <<"oldpassphrase", "newpassphrase">>, void),
     Method("dumpprivkey", <<"bitcoinaddress">>, string),
     Method("importprivkey", <<"bitcoinprivkey">>, void),
     Method("importprivkey", <<"bitcoinprivkey", "label", "rescan">>, void),
     Method("addmultisigaddress", <<"nrequired", "keys">>, string),
     Method("addmultisigaddress", <<"nrequired", "keys", "account">>, string),
     Method("createmultisig", <<"nrequired", "keys">>, multisig_t)}

AddressFunctions ==
    {Method("getnewaddress", <<"account">>, string),
     Method("validateaddress", <<"bitcoinaddress">>, validateaddress_t),
     Method("keypoolrefill", <<>>, void),
     Method("settxfee", <<"amount">>, bool),
     Method("signmessage", <<"bitcoinaddress", "message">>, string),
     Method("verifymessage", <<"bitcoinaddress", "signature", "message">>, bool)}

BalanceFunctions ==
    {Method("getbalance", <<>>, double),
     Method("getbalance", <<"account", "minconf">>, double),
     Method("getunconfirmedbalance", <<>>, double),
     Method("getreceivedbyaccount", <<"account", "minconf">>, double),
     Method("getreceivedbyaddress", <<"bitcoinaddress", "minconf">>, double),
     Method("listreceivedbyaccount", <<"minconf", "includeempty">>, vector(accountinfo_t)),
     Method("listreceivedbyaddress", <<"minconf", "includeempty">>, vector(addressinfo_t))}

TransactionFunctions ==
    {Method("gettransaction", <<"tx">>, gettransaction_t),
     Method("listtransactions", <<>>, vector(transactioninfo_t)),
     Method("listtransactions", <<"account", "count", "from">>, vector(transactioninfo_t))}

AccountFunctions ==
    {Method("getaccount", <<"bitcoinaddress">>, string),
     Method("getaccountaddress", <<"account">>, string),
     Method("getaddressesbyaccount", <<"account">>, vector(string)),
     Method("listaccounts", <<"minconf">>, map),
     Method("listaddressgroupings", <<>>, vector(vector(grouping))),
     Method("move", <<"fromaccount", "toaccount", "amount", "minconf">>, bool),
     Method("move", <<"fromaccount", "toaccount", "amount", "minconf", "comment">>, bool),
     Method("setaccount", <<"bitcoinaddress", "account">>, void)}

PaymentFunctions ==
    {Method("sendtoaddress", <<"bitcoinaddress", "amount">>, string),
     Method("sendtoaddress", <<"bitcoinaddress", "amount", "comment", "comment_to">>, string),
     Method("sendfrom", <<"fromaccount", "tobitcoinaddress", "amount">>, string),
     Method("sendfrom", <<"fromaccount", "tobitcoinaddress", "amount", "minconf", "comment",
                          "comment_to">>, string),
     Method("sendmany", <<"fromaccount", "amounts">>, string),
     Method("sendmany", <<"fromaccount", "amounts", "minconf", "comment">>, string),
     Method("listunspent", <<"minconf", "maxconf">>, vector(unspenttxout_t)),
     Method("listlockunspent", <<>>, vector(txout_t)),
     Method("lockunspent", <<"unlock", "outputs">>, bool)}

MiningFunctions ==
    {Method("getbestblockhash", <<>>, string),
     Method("getblockhash", <<"blocknumber">>, string),
     Method("getblock", <<"blockhash">>, blockinfo_t),
     Method("getblockcount", <<>>, int),
     Method("setgenerate", <<"generate", "genproclimit">>, void),
     Method("getgenerate", <<>>, bool),
     Method("getdifficulty", <<>>, double),
     Method("gethashespersec", <<>>, int),
     Method("getmininginfo", <<>>, mininginfo_t),
     Method("getwork", <<>>, workdata_t),
     Method("getwork", <<"data">>, bool),
     Method("listsinceblock", <<"blockhash", "target_confirmations">>, txsinceblock_t)}

\* Without verbose, the result is the string itself.
RawTransactionCalls ==
    {Method("getrawtransaction", <<"txid", "verbose">>, getrawtransaction_t),
     Method("getrawtransaction", <<"txid", "verbose">>, string),
     Method("decoderawtransaction", <<"hexString">>, decoderawtransaction_t)}

SigningCalls ==
    {Method("signrawtransaction", <<"rawTx", "inputs">>, signrawtransaction_t),
     Method("signrawtransaction", <<"rawTx", "inputs", "privkeys", "sighashtype">>,
            signrawtransaction_t)}
SendingCalls ==
    SigningCalls \cup
    {Method("sendrawtransaction", <<"hexString">>, string),
     Method("createrawtransaction", <<"inputs", "amounts">>, string),
     Method("getrawmempool", <<>>, vector(string)),
     Method("getrawchangeaddress", <<>>, string),
     Method("gettxout", <<"txid", "n", "includemempool">>, utxoinfo_t),
     Method("gettxoutsetinfo", <<>>, utxosetinfo_t)}

Methods ==
    GeneralFunctions \cup NodeFunctions \cup WalletFunctions \cup AddressFunctions
      \cup BalanceFunctions \cup TransactionFunctions \cup AccountFunctions
      \cup PaymentFunctions \cup MiningFunctions \cup RawTransactionCalls \cup SendingCalls

--------------------------------------------------------------------------------
(* A call.  The daemon is an answer that comes back, or none.                 *)

NoAnswer == [type |-> "none"]       \* curl fails, whatever the reason
Garbage == [type |-> "garbage"]     \* text that is not JSON

BitcoinException(code) == [type |-> "BitcoinException", code |-> code]

ERROR_CLIENT_CONNECTOR == -32003
ERROR_RPC_JSON_PARSE_ERROR == -32700
ERROR_CLIENT_INVALID_RESPONSE == -32001

\* HandleResponse, CallMethod and sendcommand.  An exception that is no
\* JsonRpcException is none of those CallMethod may throw, and ends the program.
SendCommand(answer) ==
    LET error == At(answer, "object", "error")
        code == IF Fails(error) THEN error ELSE At(error, "object", "code")
        message == IF Fails(error) THEN error ELSE At(error, "object", "message")
    IN CASE answer = NoAnswer -> BitcoinException(ERROR_CLIENT_CONNECTOR)
         [] answer = Garbage -> BitcoinException(ERROR_RPC_JSON_PARSE_ERROR)
         [] OTHER ->
              IF ~ Holds(answer, "object") THEN Aborts
              ELSE IF ~ (isMember(answer, "id")
                           /\ (isMember(answer, "result") \/ isMember(answer, "error")))
                   THEN BitcoinException(ERROR_CLIENT_INVALID_RESPONSE)
              ELSE IF error = null THEN At(answer, "object", "result")
              ELSE IF Fails(code) \/ Fails(asInt(code)) \/ Fails(asString(message)) THEN Aborts
              ELSE BitcoinException(asInt(code).num)

Call(method, answer) ==
    LET result == SendCommand(answer)
    IN IF result.type \in {"BitcoinException", "abort"} THEN result ELSE Read(method.ret, result)

--------------------------------------------------------------------------------
(* A method is called, and the daemon answers: as it should, with one part of *)
(* the answer replaced, or in another way altogether.                         *)

CONSTANT Strays     \* values that stand where they should not

RECURSIVE Good(_, _)
Good(how, n) ==
    CASE how.kind = "int" -> Int_(IF n = 0 THEN minInt ELSE maxInt)
      [] how.kind = "uint" -> UInt_(IF n = 0 THEN 0 ELSE maxUInt)
      [] how.kind = "real" -> Real_(IF n = 0 THEN 0 ELSE 1)
      [] how.kind = "string" -> String_(IF n = 0 THEN <<>> ELSE <<1>>)
      [] how.kind = "boolean" -> Bool_(n # 0)
      [] how.kind = "void" -> null
      [] how.kind = "struct" ->
           Map("object", [f \in DOMAIN how.fields |-> Good(how.fields[f], n)])
      [] how.kind = "vector" -> Map("array", [x \in 0 .. n - 1 |-> Good(how.of, n)])
      [] how.kind = "map" -> Map("object", [x \in {"a", "b"} |-> Real_(n)])
      [] how.kind = "grouping" ->
           Map("array", [x \in 0 .. n |-> IF x = 1 THEN Real_(n) ELSE String_(<<>>)])

RECURSIVE Damaged(_)
Damaged(v) ==
    Strays \cup
      IF v.type \notin {"array", "object"} THEN {}
      ELSE UNION {{Map(v.type, With(items(v), x, d)) : d \in Damaged(items(v)[x])} : x \in DOMAIN items(v)}

Answered(result) == Map("object", [id |-> Int_(1), result |-> result, error |-> null])
Refused(error) == Map("object", [id |-> Int_(1), result |-> null, error |-> error])

Results(ret) == {Good(ret, n) : n \in 0 .. 2} \cup Damaged(Good(ret, 1)) \cup Damaged(Good(ret, 2))
Error == Map("object", [code |-> Int_(-1), message |-> String_(<<1>>)])
OtherAnswers ==
    {NoAnswer, Garbage, Map("object", [result |-> null])}
      \cup {Refused(error) : error \in {Error} \cup Damaged(Error)} \cup Strays

VARIABLES
    method,     \* the method that has been called, or none
    answer,     \* what the daemon answered, or none yet
    outcome     \* what became of the call

calls == <<method, answer, outcome>>

NoMethod == Method("none", <<>>, void)

CallInit == method = NoMethod /\ answer = null /\ outcome = null

Request == method = NoMethod /\ method' \in Methods /\ UNCHANGED <<answer, outcome>>

Answer ==
    /\ method # NoMethod /\ answer = null
    /\ answer' \in {Answered(result) : result \in Results(method.ret)} \cup (OtherAnswers \ {null})
    /\ outcome' = Call(method, answer')
    /\ UNCHANGED method

CallNext == Request \/ Answer

--------------------------------------------------------------------------------
(* Properties. *)

\* Every part of a value that is read, with how it is read.
RECURSIVE Parts(_, _)
Parts(how, v) ==
    {<<how.kind, v>>} \cup
      CASE how.kind = "struct" /\ Holds(v, "object") ->
             UNION {Parts(how.fields[f], At(v, "object", f)) : f \in DOMAIN how.fields}
        [] how.kind = "vector" ->
             UNION {Parts(how.of, Iterated(v)[x]) : x \in DOMAIN Iterated(v)}
        [] how.kind = "map" /\ v.type # "array" ->
             {<<"real", Iterated(v)[x]>> : x \in DOMAIN Iterated(v)}
        [] how.kind = "grouping" /\ Holds(v, "array") ->
             {<<"string", At(v, "array", 0)>>, <<"real", At(v, "array", 1)>>,
              <<"string", At(v, "array", 2)>>}
        [] OTHER -> {}

isAnswered == answer # null /\ isObject(answer) /\ isMember(answer, "id") /\ isMember(answer, "result")
                /\ At(answer, "object", "error") = null
result == At(answer, "object", "result")

\* An answer as it should be arrives as it is, down to the last member, and a null
\* or a missing member in it is no failure either: it reads as zero, as nothing or as
\* an empty list (operator[], asInt, asString).
AnswersArrive ==
    isAnswered =>
      /\ \A n \in 0 .. 2 :
           /\ result = Good(method.ret, n)
           /\ \A part \in Parts(method.ret, result) : part[1] \notin {"grouping", "void"}
           => outcome = result
      /\ (\A part \in Parts(method.ret, result) : part[2] = null) => ~ Fails(outcome)

\* A call ends the program exactly when something other than an object stands where
\* one is read, or the error has not a code and a message: exceptions cannot tell.  It
\* throws what no caller of the wallet catches exactly when a string, a list or a
\* number out of range stands for a number, or a number for a string (JSON_ASSERT,
\* throw(JsonRpcException), IsBitcoinRunning).
FaultsTold ==
    isAnswered =>
      LET parts == Parts(method.ret, result)
          misshapen == \E part \in parts :
                         \/ part[1] = "struct" /\ part[2].type \notin {"null", "object"}
                         \/ part[1] = "grouping" /\ part[2].type \notin {"null", "array"}
          unreadable == \E part \in parts :
                          \/ part[1] \in {"int", "uint", "real", "string"}
                               /\ part[2].type \in {"array", "object"}
                          \/ part[1] \in {"int", "uint", "real"} /\ part[2].type = "string"
                          \/ part[1] = "string" /\ part[2].type \in {"int", "uint", "real"}
                          \/ part[1] = "int" /\ part[2].type = "uint" /\ part[2].num >= maxInt
                          \/ part[1] = "int" /\ part[2].type = "real" /\ part[2].num > maxInt * Unit
                          \/ part[1] = "uint" /\ part[2].type \in {"int", "real"} /\ part[2].num < 0
                          \/ part[1] = "map" /\ part[2].type = "array" /\ size(part[2]) > 0
      IN /\ outcome = Aborts <=> misshapen
         /\ outcome = Throws <=> unreadable /\ ~ misshapen

\* An overload sends what the other sends, and more behind it: arguments go by their
\* places (params.append).
OverloadsAgree ==
    \A m \in Methods :
      m.command = method.command =>
        \A x \in DOMAIN m.params \cap DOMAIN method.params : m.params[x] = method.params[x]
================================================================================
