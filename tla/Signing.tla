-------------------------------- MODULE Signing --------------------------------
(***************************************************************************)
(* Spending an output: what a script asks for (Solver), who can answer     *)
(* (key stores, IsMine), signing, combining what several parties have      *)
(* signed, and verifying it against a transaction that others may change   *)
(* in between: script.cpp, keystore.cpp.                                   *)
(***************************************************************************)
EXTENDS Script

CONSTANTS MAX_OP_RETURN_RELAY      \* bytes that an output may carry as data (40)

Least(a, b) == IF a < b THEN a ELSE b
IsKeyPush(t) == IsPush(t) /\ IsKey(t.push)
IsHashPush(t) == IsPush(t) /\ IsHash(t.push)
\* OP_0 to OP_16, as a number.
IsSmallInteger(t) == t = OP_0 \/ (IsSmall(t) /\ t.small >= 0)
DecodeOP_N(t) == IF t = OP_0 THEN 0 ELSE t.small
EncodeOP_N(n) == IF n = 0 THEN OP_0 ELSE Small(n)

IsPayToScriptHash(s) ==
    Len(s) = 3 /\ s[1] = Op("OP_HASH160") /\ IsHashPush(s[2]) /\ s[3] = Op("OP_EQUAL")
\* OP_RESERVED counts as a push.
IsPushOnly(s) == \A x \in DOMAIN s : IsPush(s[x]) \/ IsSmall(s[x]) \/ IsOp(s[x], "OP_RESERVED")

IsPubKey(s) == Len(s) = 2 /\ IsKeyPush(s[1]) /\ s[2] = Op("OP_CHECKSIG")
IsPubKeyHash(s) ==
    /\ Len(s) = 5 /\ s[1] = Op("OP_DUP") /\ s[2] = Op("OP_HASH160") /\ IsHashPush(s[3])
    /\ s[4] = Op("OP_EQUALVERIFY") /\ s[5] = Op("OP_CHECKSIG")
IsMultisig(s) ==
    /\ Len(s) >= 3 /\ IsSmallInteger(s[1]) /\ IsSmallInteger(s[Len(s) - 1])
    /\ Last(s) = Op("OP_CHECKMULTISIG")
    /\ \A x \in 2 .. Len(s) - 2 : IsKeyPush(s[x])
\* An opcode without data passes for data of no length.
IsNullData(s) ==
    /\ s # <<>> /\ s[1] = Op("OP_RETURN") /\ Len(s) <= 2
    /\ Len(s) = 2 => ~ IsOp(s[2], "truncated")
                     /\ (IsPush(s[2]) => SizeOf(s[2].push) <= MAX_OP_RETURN_RELAY)

Solved(type, needed, keys) == [ok |-> TRUE, type |-> type, needed |-> needed, keys |-> keys]
Unsolved == [Solved("TX_NONSTANDARD", 0, <<>>) EXCEPT !.ok = FALSE]
MultisigFits(m, n, keys) == m >= 1 /\ n >= 1 /\ m <= n /\ keys = n
\* The type of a script, how many signatures it needs, and the keys or the hash it names.
\* A multisignature whose numbers do not fit is refused, but it is told to be one.
SolverAny(s) ==
    CASE IsPayToScriptHash(s) -> Solved("TX_SCRIPTHASH", 1, <<s[2].push>>)
      [] IsPubKey(s) -> Solved("TX_PUBKEY", 1, <<s[1].push>>)
      [] IsPubKeyHash(s) -> Solved("TX_PUBKEYHASH", 1, <<s[3].push>>)
      [] IsMultisig(s) ->
           LET m == DecodeOP_N(s[1])
           IN [Solved("TX_MULTISIG", m, [x \in 1 .. Len(s) - 3 |-> s[x + 1].push])
                 EXCEPT !.ok = MultisigFits(m, DecodeOP_N(s[Len(s) - 1]), Len(s) - 3)]
      [] IsNullData(s) -> Solved("TX_NULL_DATA", 0, <<>>)
      [] OTHER -> Unsolved
\* Nothing else is read of a script that is refused.
Accepted(found) == IF found.ok THEN found ELSE Unsolved
Solver(s) == Accepted(SolverAny(s))

\* Up to three keys.
IsStandard(s) ==
    LET found == Solver(s)
    IN found.type # "TX_NONSTANDARD" /\ (found.type = "TX_MULTISIG" => Len(found.keys) <= 3)
\* How many elements the script that spends it pushes.
ScriptSigArgsExpected(found) ==
    CASE found.type \in {"TX_NONSTANDARD", "TX_NULL_DATA"} -> -1
      [] found.type = "TX_PUBKEYHASH" -> 2
      [] found.type = "TX_MULTISIG" -> found.needed + 1
      [] OTHER -> 1

\* CScript::GetSigOpCount: the keys of a multisignature are counted if the script says how
\* many there are.
SigOpsOf(s, x, fAccurate) ==
    CASE s[x] \in {Op("OP_CHECKSIG"), Op("OP_CHECKSIGVERIFY")} -> 1
      [] s[x] \in {Op("OP_CHECKMULTISIG"), Op("OP_CHECKMULTISIGVERIFY")} ->
           IF fAccurate /\ x > 1 /\ IsSmall(s[x - 1]) /\ s[x - 1].small > 0 THEN s[x - 1].small
           ELSE MaxKeys
      [] OTHER -> 0
GetSigOpCount(s, fAccurate) == FoldLeft(+, 0, [x \in DOMAIN s |-> SigOpsOf(s, x, fAccurate)])
\* That of the script that is hashed: the last that scriptSig pushes.
GetSigOpCountOf(s, scriptSig) ==
    CASE ~ IsPayToScriptHash(s) -> GetSigOpCount(s, TRUE)
      [] IsPayToScriptHash(s) ->
           IF ~ IsPushOnly(scriptSig) \/ scriptSig = <<>> THEN 0
           ELSE IF IsPush(Last(scriptSig)) /\ IsCode(Last(scriptSig).push)
                THEN GetSigOpCount(Last(scriptSig).push.code, TRUE) ELSE 0

--------------------------------------------------------------------------------
(* Key stores and addresses. *)

KeyStore(keys, scripts) == [keys |-> keys, scripts |-> scripts]
HaveKey(store, id) == \E k \in store.keys : HashOf(Key(k)) = id
GetKey(store, id) == CHOOSE k \in store.keys : HashOf(Key(k)) = id
HaveCScript(store, id) == \E s \in store.scripts : HashOf(Code(s)) = id
GetCScript(store, id) == CHOOSE s \in store.scripts : HashOf(Code(s)) = id

NoDestination == [to |-> "nobody", id |-> <<>>]
KeyID(id) == [to |-> "key", id |-> id]
ScriptID(id) == [to |-> "script", id |-> id]

SetDestination(d) ==
    CASE d.to = "nobody" -> <<>>
      [] d.to = "key" -> <<Op("OP_DUP"), Op("OP_HASH160"), Push(d.id), Op("OP_EQUALVERIFY"),
                           Op("OP_CHECKSIG")>>
      [] d.to = "script" -> <<Op("OP_HASH160"), Push(d.id), Op("OP_EQUAL")>>
SetMultisig(nRequired, keys) ==
    <<EncodeOP_N(nRequired)>> \o [x \in DOMAIN keys |-> Push(Key(keys[x]))]
        \o <<EncodeOP_N(Len(keys)), Op("OP_CHECKMULTISIG")>>

ExtractDestination(s) ==
    LET found == Solver(s)
    IN CASE found.type = "TX_PUBKEY" -> KeyID(HashOf(found.keys[1]))
         [] found.type = "TX_PUBKEYHASH" -> KeyID(found.keys[1])
         [] found.type = "TX_SCRIPTHASH" -> ScriptID(found.keys[1])
         [] OTHER -> NoDestination
\* The addresses, none for a script that has none.
ExtractDestinations(s) ==
    LET found == Solver(s)
    IN CASE found.type \in {"TX_NONSTANDARD", "TX_NULL_DATA"} -> <<>>
         [] found.type = "TX_MULTISIG" -> [x \in DOMAIN found.keys |-> KeyID(HashOf(found.keys[x]))]
         [] OTHER -> <<ExtractDestination(s)>>

IsMineDestination(store, d) ==
    CASE d.to = "nobody" -> FALSE
      [] d.to = "key" -> HaveKey(store, d.id)
      [] d.to = "script" -> HaveCScript(store, d.id)

HaveKeys(store, keys) == Cardinality({x \in DOMAIN keys : HaveKey(store, HashOf(keys[x]))})
\* Somebody else who has one of the keys could spend it.
HaveAllKeys(store, found) == HaveKeys(store, found.keys) = Len(found.keys)
RECURSIVE IsMine(_, _)
IsMine(store, s) ==
    LET found == Solver(s)
    IN CASE found.type = "TX_PUBKEY" -> HaveKey(store, HashOf(found.keys[1]))
         [] found.type = "TX_PUBKEYHASH" -> HaveKey(store, found.keys[1])
         [] found.type = "TX_SCRIPTHASH" ->
              HaveCScript(store, found.keys[1]) /\ IsMine(store, GetCScript(store, found.keys[1]))
         [] found.type = "TX_MULTISIG" -> HaveAllKeys(store, found)
         [] OTHER -> FALSE

RECURSIVE ExtractAffectedKeys(_, _)
ExtractAffectedKeys(store, s) ==
    LET ids == ExtractDestinations(s)
    IN UNION {IF ids[x].to = "key" THEN {ids[x].id : y \in {y \in {1} : HaveKey(store, ids[x].id)}}
              ELSE IF HaveCScript(store, ids[x].id)
                   THEN ExtractAffectedKeys(store, GetCScript(store, ids[x].id)) ELSE {}
              : x \in DOMAIN ids}

--------------------------------------------------------------------------------
(* Signing, verifying and combining. *)

\* What a step of the signing makes: whether it is done, and the script so far.
Result(ok, script_) == [ok |-> ok, sig |-> script_]

Sign1(store, id, digest, type) ==
    IF HaveKey(store, id) THEN Result(TRUE, <<Push(Signature(GetKey(store, id), digest, type))>>)
    ELSE Result(FALSE, <<>>)

\* The keys it has, in their order, until there are enough.
SignN(store, found, digest, type) ==
    LET own == SelectSeq(found.keys, LAMBDA k : HaveKey(store, HashOf(k)))
        sigs == [x \in 1 .. Least(Len(own), found.needed) |-> Push(Signature(own[x].key, digest, type))]
    IN Result(Len(sigs) = found.needed, sigs)

\* OP_0: OP_CHECKMULTISIG takes one element more than it should.
Padded(result) == Result(result.ok, <<OP_0>> \o result.sig)

SolverSigns(store, found, digest, type) ==
    CASE found.type = "TX_PUBKEY" -> Sign1(store, HashOf(found.keys[1]), digest, type)
      [] found.type = "TX_PUBKEYHASH" ->
           LET one == Sign1(store, found.keys[1], digest, type)
           IN IF ~ one.ok THEN one
              ELSE Result(TRUE, Append(one.sig, Push(Key(GetKey(store, found.keys[1])))))
      [] found.type = "TX_MULTISIG" -> Padded(SignN(store, found, digest, type))
      [] found.type = "TX_SCRIPTHASH" ->
           IF HaveCScript(store, found.keys[1]) THEN Result(TRUE, GetCScript(store, found.keys[1]))
           ELSE Result(FALSE, <<>>)
      [] OTHER -> Result(FALSE, <<>>)

Proves(stack) == ~ Failed(stack) /\ stack # <<>> /\ CastToBool(Last(stack))
Spends(before, scriptSig, spk, env) ==
    /\ ~ Failed(before) /\ Proves(EvalScript(before, spk, env))
    /\ IsPayToScriptHash(spk) =>
         /\ IsPushOnly(scriptSig) /\ IsCode(Last(before))
         /\ Proves(EvalScript(Popped(before, 1), Last(before).code, env))
VerifyScript(scriptSig, spk, env) == Spends(EvalScript(<<>>, scriptSig, env), scriptSig, spk, env)

SignsFor(store, s, env, type) ==
    SolverSigns(store, Solver(s), SignatureHash(s, env.tx, env.nIn, type), type)
\* The script that a hash names is signed in its place, but not another hash, and it is
\* added whether or not there were enough keys.
SignInner(s, second, spk, env) ==
    LET whole == Append(second.sig, Push(Code(s)))
    IN Result(/\ second.ok /\ Solver(s).type # "TX_SCRIPTHASH" /\ VerifyScript(whole, spk, env), whole)
Signs(store, first, spk, env, type) ==
    IF ~ first.ok THEN first
    ELSE IF IsPayToScriptHash(spk)
         THEN SignInner(first.sig, SignsFor(store, first.sig, env, type), spk, env)
    ELSE Result(VerifyScript(first.sig, spk, env), first.sig)
SignSignature(store, spk, env, type) == Signs(store, SignsFor(store, spk, env, type), spk, env, type)

PushAll(values) == [x \in DOMAIN values |-> Push(values[x])]
Elements(s) == {s[x] : x \in DOMAIN s}

\* A slip: signatures are kept in the order in which they came.
CombineInOrder(spk, env, found, sigs1, sigs2) ==
    LET all == SelectSeq(sigs1 \o sigs2, LAMBDA e : e # vchFalse)
    IN <<OP_0>> \o PushAll(SubSeq(all, 1, Least(Len(all), found.needed)))
                \o [x \in 1 .. found.needed - Least(Len(all), found.needed) |-> OP_0]
\* The signatures of both that fit a key, in the order of the keys; OP_0 for each that is
\* missing.
CombineMultisig(spk, env, found, sigs1, sigs2) ==
    LET all == (Elements(sigs1) \cup Elements(sigs2)) \ {vchFalse}
        fits(k) == {e \in all : CheckSig(e, k, spk, env)}
        signed == SelectSeq(found.keys, LAMBDA k : fits(k) # {})
        used == Least(Len(signed), found.needed)
    IN <<OP_0>> \o [x \in 1 .. found.needed |->
                      IF x <= used THEN Push(CHOOSE e \in fits(signed[x]) : TRUE) ELSE OP_0]

\* An element that is there, and not empty, before a placeholder.
Empty(s, x) == s = <<>> \/ s[x] = vchFalse
\* What is no script is not known either.
CodeOf(e) == IF IsCode(e) THEN e.code ELSE <<Op("unknown")>>
RECURSIVE CombineStacks(_, _, _, _)
CombineStacks(spk, env, sigs1, sigs2) ==
    LET found == SolverAny(spk)
    IN CASE found.type \in {"TX_NONSTANDARD", "TX_NULL_DATA"} ->
              PushAll(IF Len(sigs1) >= Len(sigs2) THEN sigs1 ELSE sigs2)
         [] found.type \in {"TX_PUBKEY", "TX_PUBKEYHASH"} ->
              PushAll(IF Empty(sigs1, 1) THEN sigs2 ELSE sigs1)
         [] found.type = "TX_SCRIPTHASH" ->
              IF Empty(sigs1, Len(sigs1)) THEN PushAll(sigs2)
              ELSE IF Empty(sigs2, Len(sigs2)) THEN PushAll(sigs1)
              ELSE Append(CombineStacks(CodeOf(Last(sigs1)), env, Popped(sigs1, 1), Popped(sigs2, 1)),
                          Push(Last(sigs1)))
         [] found.type = "TX_MULTISIG" -> CombineMultisig(spk, env, found, sigs1, sigs2)
\* What a script leaves, or what it had when it failed.
Left(s) == Evaluated(<<>>, s, Nothing).stack
CombineSignatures(spk, env, scriptSig1, scriptSig2) ==
    CombineStacks(spk, env, Left(scriptSig1), Left(scriptSig2))

--------------------------------------------------------------------------------
(* Several parties sign one input, each its own copy, and pass it to each other   *)
(* while the rest of the transaction may still be changed.                        *)

CONSTANTS
    Party, Store,       \* the parties and the key store of each
    Asked,              \* the scripts that the output that is spent may have
    HashTypes,          \* the hash types that they sign with
    Sizes,              \* inputs and outputs of the transaction
    MaxChanges          \* how often it is changed

VARIABLES
    asked,      \* the script of the output that is spent
    env,        \* the transaction and the index of its input that spends it
    have,       \* what each party has as the script of that input
    changes     \* how often the transaction was changed

signing == <<asked, env, have, changes>>

NewTransaction(ins, outs) ==
    Transaction([x \in 1 .. ins |-> [prevout |-> x, nSequence |-> 1]], [x \in 1 .. outs |-> x], 0)

SigningInit ==
    /\ asked \in Asked
    /\ \E size \in Sizes : \E n \in 0 .. size[1] - 1 : env = Env(NewTransaction(size[1], size[2]), n)
    /\ have = [p \in Party |-> <<>>]
    /\ changes = 0

SignedBy(p, type) == SignSignature(Store[p], asked, env, type)
Sign(p, type) ==
    /\ have' = [have EXCEPT ![p] = SignedBy(p, type).sig]
    /\ UNCHANGED <<asked, env, changes>>

Combined(p, q) == CombineSignatures(asked, env, have[p], have[q])
Combine(p, q) ==
    /\ p # q
    /\ have' = [have EXCEPT ![p] = Combined(p, q)]
    /\ UNCHANGED <<asked, env, changes>>

\* Each changes one thing that a hash type may leave to others.
Changes ==
    {"other input", "own input", "other sequence", "own sequence", "input added", "own output",
     "other output", "output added", "lock time"}
New == 9        \* a value that nothing has yet
Changed(tx, own, change) ==
    LET other == IF own = 1 THEN 2 ELSE 1
    IN CASE change = "other input" /\ other \in DOMAIN tx.vin -> [tx EXCEPT !.vin[other].prevout = New]
         [] change = "own input" -> [tx EXCEPT !.vin[own].prevout = New]
         [] change = "other sequence" /\ other \in DOMAIN tx.vin ->
              [tx EXCEPT !.vin[other].nSequence = New]
         [] change = "own sequence" -> [tx EXCEPT !.vin[own].nSequence = New]
         [] change = "input added" -> [tx EXCEPT !.vin = Append(@, [prevout |-> New, nSequence |-> 1])]
         [] change = "own output" /\ own \in DOMAIN tx.vout -> [tx EXCEPT !.vout[own] = New]
         [] change = "other output" /\ other \in DOMAIN tx.vout -> [tx EXCEPT !.vout[other] = New]
         [] change = "output added" -> [tx EXCEPT !.vout = Append(@, New)]
         [] change = "lock time" -> [tx EXCEPT !.nLockTime = New]
         [] OTHER -> tx

After(change) == [env EXCEPT !.tx = Changed(@, env.nIn + 1, change)]
Change(change) ==
    /\ changes < MaxChanges
    /\ env' = After(change)
    /\ env' # env
    /\ changes' = changes + 1
    /\ UNCHANGED <<asked, have>>

SigningNext ==
    \/ \E p \in Party, type \in HashTypes : Sign(p, type)
    \/ \E p, q \in Party : Combine(p, q)
    \/ \E change \in Changes : Change(change)

--------------------------------------------------------------------------------

Verifies(p) == VerifyScript(have[p], asked, env)

\* Whether a key store can spend an output: it has the key, or as many of the keys as are
\* needed, or the script that is hashed, unless that is a hash of another one or is too long
\* to be pushed.
RECURSIVE CanSpend(_, _)
CanSpend(store, s) ==
    LET found == Solver(s)
        inner == GetCScript(store, found.keys[1])
    IN CASE found.type \in {"TX_PUBKEY", "TX_PUBKEYHASH"} ->
              ExtractDestination(s).id \in {HashOf(Key(k)) : k \in store.keys}
         [] found.type = "TX_MULTISIG" ->
              Cardinality({x \in DOMAIN found.keys : found.keys[x].key \in store.keys}) >= found.needed
         [] found.type = "TX_SCRIPTHASH" ->
              /\ HaveCScript(store, found.keys[1]) /\ ~ IsPayToScriptHash(inner)
              /\ ~ Oversize(Push(Code(inner))) /\ CanSpend(store, inner)
         [] OTHER -> FALSE

\* Who can spend an output signs it so that it verifies, and nobody else does: with any
\* hash type, whatever the party had before.  A script of more than
\* MAX_SCRIPT_ELEMENT_SIZE bytes is signed, but what is made is refused and told to be
\* (SignSignature, VerifyScript).
SignedVerifies ==
    \A p \in Party, type \in HashTypes :
        LET made == SignedBy(p, type)
            can == CanSpend(Store[p], asked)
        IN made.ok = can /\ VerifyScript(made.sig, asked, env) = can

\* What a hash type leaves to others; it covers nothing at all where SIGHASH_SINGLE has no
\* output to cover.
Single(tx, n, type) == type.base = "SINGLE" /\ n >= Len(tx.vout)
Free(change, type, tx, n) ==
    IF Single(tx, n, type) THEN Single(Changed(tx, n + 1, change), n, type)
    ELSE CASE change \in {"other input", "input added"} -> type.anyone
           [] change = "other sequence" -> type.anyone \/ type.base # "ALL"
           [] change = "own output" -> type.base = "NONE"
           [] change \in {"other output", "output added"} -> type.base # "ALL"
           [] OTHER -> FALSE
TypesOf(s) == {s[x].push.hashType : x \in {x \in DOMAIN s : IsPush(s[x]) /\ IsSignature(s[x].push)}}

\* An input that verifies still does after a change exactly if every signature in it leaves
\* that change to others (CTransactionSignatureSerializer, SignatureHash).
ChangesTold ==
    \A p \in Party : Verifies(p) =>
        \A change \in Changes : After(change) # env =>
            (VerifyScript(have[p], asked, After(change)) <=>
                \A type \in TypesOf(have[p]) : Free(change, type, env.tx, env.nIn))

\* The script that the signatures are made for.
Signed == IF IsPayToScriptHash(asked) /\ \E p \in Party : HaveCScript(Store[p], asked[2].push)
          THEN GetCScript(Store[CHOOSE p \in Party : HaveCScript(Store[p], asked[2].push)], asked[2].push)
          ELSE asked
TooLong(s) == IsPayToScriptHash(s) /\ Oversize(Push(Code(Signed)))
\* The keys of a multisignature that a script has a valid signature for, by position.
Answered(s) ==
    {x \in DOMAIN Solver(Signed).keys :
        \E y \in DOMAIN s : IsPush(s[y]) /\ CheckSig(s[y].push, Solver(Signed).keys[x], Signed, env)}

\* Combining loses nothing: what verified still does, and a multisignature that is not too
\* long verifies as soon as what both have is enough, whoever signed and in whatever order
\* it was passed
\* (CombineSignatures, CombineMultisig).
CombineKeeps ==
    \A p \in Party : \A q \in Party \ {p} :
        LET verifies == VerifyScript(Combined(p, q), asked, env)
        IN /\ Verifies(p) => verifies
           /\ ~ TooLong(asked) /\ Solver(Signed).type = "TX_MULTISIG"
                /\ have[p] # <<>> /\ have[q] # <<>> =>
                (verifies <=> Cardinality(Answered(have[p]) \cup Answered(have[q]))
                                >= Solver(Signed).needed)

\* An output that is told to be somebody's can be spent by him, but for a hash of a script
\* that is another hash or too long to be pushed: neither IsMine nor the key store looks at
\* its length; his keys are among those that it affects, and he has the address
\* (IsMine, ExtractAffectedKeys, ExtractDestination).
MineSigns ==
    \A p \in Party :
        LET store == Store[p]
            hashed == IsPayToScriptHash(asked) /\ HaveCScript(store, asked[2].push)
            inner == GetCScript(store, asked[2].push)
        IN /\ IsMine(store, asked) =>
                CanSpend(store, asked)
                  \/ (hashed /\ (IsPayToScriptHash(inner) \/ Oversize(Push(Code(inner)))))
           /\ CanSpend(store, asked) => ExtractAffectedKeys(store, asked) # {}
           /\ ExtractDestination(asked) # NoDestination /\ IsMine(store, asked) =>
                IsMineDestination(store, ExtractDestination(asked))

\* Addresses are read from the scripts that are made for them, and a script that spends
\* one pushes as many elements as are expected of it and has the checks counted
\* (SetDestination, SetMultisig, ScriptSigArgsExpected, GetSigOpCount).
AddressesRead ==
    LET to == ExtractDestination(asked)
        ids == ExtractDestinations(asked)
        found == Solver(asked)
    IN /\ found.type \in {"TX_PUBKEYHASH", "TX_SCRIPTHASH"} => SetDestination(to) = asked
       /\ found.type = "TX_MULTISIG" =>
            /\ SetMultisig(found.needed, [x \in DOMAIN found.keys |-> found.keys[x].key]) = asked
            /\ Len(ids) = Len(found.keys) /\ GetSigOpCount(asked, TRUE) = Len(ids)
       /\ IsStandard(asked) <=> found.ok /\ Len(found.keys) <= 3
       /\ \A p \in Party : Verifies(p) =>
            /\ Len(have[p]) = ScriptSigArgsExpected(found)
                 + (IF IsPayToScriptHash(asked) THEN ScriptSigArgsExpected(Solver(Signed)) ELSE 0)
            /\ GetSigOpCountOf(asked, have[p]) = GetSigOpCount(Signed, TRUE)
================================================================================
