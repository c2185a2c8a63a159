--------------------------------- MODULE Script ---------------------------------
(***************************************************************************)
(* Scripts and what they are evaluated to: script.cpp and script.h.  A     *)
(* script is a sequence of instructions: an opcode by its name, a small    *)
(* number that has an opcode of its own, or a push of data.  Data that     *)
(* matters for what it is is a key, a hash, a signature or a script;       *)
(* everything else is its bytes.  A hash is what it is the hash of.        *)
(***************************************************************************)
EXTENDS Integers, Sequences, FiniteSets, SequencesExt

CONSTANTS
    Byte,           \* how many values a byte has (256)
    nMaxNumSize,    \* bytes of a number that may be computed with (4)
    MaxOps,         \* opcodes that one script may execute (201)
    MaxStack,       \* elements of both stacks (1000)
    MaxKeys,        \* keys of one OP_CHECKMULTISIG (20)
    MAX_SCRIPT_ELEMENT_SIZE,    \* bytes that one instruction may push (520)
    MaxScriptSize,  \* bytes of a script that is evaluated (10000)
    ShortPush,      \* the length that needs OP_PUSHDATA1 (76)
    KeySize, HashSize, SignatureSize    \* bytes of these (33, 20, 72)

ScriptAssumption ==
    /\ Byte \in Nat /\ Byte > 2 /\ Byte % 2 = 0 /\ nMaxNumSize \in Nat \ {0}
    /\ MaxOps \in Nat /\ MaxStack \in Nat /\ MaxKeys \in Nat
    /\ MAX_SCRIPT_ELEMENT_SIZE \in Nat /\ MaxScriptSize \in Nat /\ ShortPush \in 1 .. Byte
    /\ \A size \in {KeySize, HashSize, SignatureSize} : size \in Nat /\ size > nMaxNumSize

Op(name) == [op |-> name]
Small(n) == [small |-> n]       \* OP_1NEGATE and OP_1 to OP_16
Push(element) == [push |-> element]
IsOp(t, name) == "op" \in DOMAIN t /\ t.op = name
IsSmall(t) == "small" \in DOMAIN t
IsPush(t) == "push" \in DOMAIN t

Bytes(b) == [bytes |-> b]
Key(k) == [key |-> k]
HashOf(element) == [hash |-> element]
Code(script) == [code |-> script]
Signature(k, digest, type) == [signer |-> k, digest |-> digest, hashType |-> type]
IsBytes(e) == "bytes" \in DOMAIN e
IsKey(e) == "key" \in DOMAIN e
IsHash(e) == "hash" \in DOMAIN e
IsCode(e) == "code" \in DOMAIN e
IsSignature(e) == "signer" \in DOMAIN e

\* The opcode 0 pushes nothing.
OP_0 == Push(Bytes(<<>>))
vchTrue == Bytes(<<1>>)
vchFalse == Bytes(<<>>)
Bool(b) == IF b THEN vchTrue ELSE vchFalse

\* Bytes before the data that is pushed: its length, and what tells how wide that is.
Prefix(n) == IF n < ShortPush THEN 1 ELSE IF n < Byte THEN 2 ELSE IF n < Byte * Byte THEN 3 ELSE 5
RECURSIVE SizeOf(_), ScriptSize(_)
\* Bytes of an instruction, of an element and of a script.
LengthOf(t) == IF IsPush(t) THEN Prefix(SizeOf(t.push)) + SizeOf(t.push) ELSE 1
SizeOf(e) == CASE IsBytes(e) -> Len(e.bytes)
               [] IsKey(e) -> KeySize
               [] IsHash(e) -> HashSize
               [] IsSignature(e) -> SignatureSize
               [] IsCode(e) -> ScriptSize(e.code)
ScriptSize(s) == IF s = <<>> THEN 0 ELSE LengthOf(Head(s)) + ScriptSize(Tail(s))

Oversize(t) == IsPush(t) /\ SizeOf(t.push) > MAX_SCRIPT_ELEMENT_SIZE

--------------------------------------------------------------------------------
(* Numbers: the lowest byte comes first, and the highest bit of the last byte is *)
(* the sign.                                                                     *)

SignBit == Byte \div 2

RECURSIVE Digits(_)
Digits(n) == IF n = 0 THEN <<>> ELSE <<n % Byte>> \o Digits(n \div Byte)

\* CBigNum::getvch
getvch(n) ==
    LET d == Digits(IF n < 0 THEN -n ELSE n)
        padded == IF d # <<>> /\ Last(d) >= SignBit THEN Append(d, 0) ELSE d
    IN IF d = <<>> THEN <<>>
       ELSE [padded EXCEPT ![Len(padded)] = IF n < 0 THEN @ + SignBit ELSE @]

RECURSIVE Magnitude(_)
Magnitude(b) == IF b = <<>> THEN 0 ELSE Head(b) + Byte * Magnitude(Tail(b))
setvch(b) ==
    IF b = <<>> \/ Last(b) < SignBit THEN Magnitude(b)
    ELSE -Magnitude([b EXCEPT ![Len(b)] = @ - SignBit])

\* CastToBigNum throws for what is too long; keys, hashes, signatures and scripts are.
IsNumber(e) == IsBytes(e) /\ Len(e.bytes) <= nMaxNumSize
CastToBigNum(e) == setvch(e.bytes)
Number(n) == Bytes(getvch(n))

\* What is no number has a byte that is not zero.
CastToBool(e) ==
    IsBytes(e) =>
        \E x \in DOMAIN e.bytes : e.bytes[x] # 0 /\ ~ (x = Len(e.bytes) /\ e.bytes[x] = SignBit)

--------------------------------------------------------------------------------
(* Opcodes that work on the top of the stack alone.                              *)

\* No stack at all: nothing else begins with this element.
Fail == <<[failed |-> TRUE]>>
Failed(s) == s = Fail
Top(s, n) == s[Len(s) - n + 1]          \* stacktop(-n)
Popped(s, n) == SubSeq(s, 1, Len(s) - n)
Replace(s, n, new) == IF Len(s) < n THEN Fail ELSE Popped(s, n) \o new

\* How many elements an opcode takes, and which of them it leaves, counted from the
\* lowest.
Moves ==
    [OP_2DROP |-> <<2, <<>>>>, OP_2DUP |-> <<2, <<1, 2, 1, 2>>>>,
     OP_3DUP |-> <<3, <<1, 2, 3, 1, 2, 3>>>>, OP_2OVER |-> <<4, <<1, 2, 3, 4, 1, 2>>>>,
     OP_2ROT |-> <<6, <<3, 4, 5, 6, 1, 2>>>>, OP_2SWAP |-> <<4, <<3, 4, 1, 2>>>>,
     OP_DROP |-> <<1, <<>>>>, OP_DUP |-> <<1, <<1, 1>>>>, OP_NIP |-> <<2, <<2>>>>,
     OP_OVER |-> <<2, <<1, 2, 1>>>>, OP_ROT |-> <<3, <<2, 3, 1>>>>,
     OP_SWAP |-> <<2, <<2, 1>>>>, OP_TUCK |-> <<2, <<2, 1, 2>>>>]

Moved(s, n, from) == Replace(s, n, [x \in DOMAIN from |-> s[Len(s) - n + from[x]]])
MoveOp(s, op) == Moved(s, Moves[op][1], Moves[op][2])

\* OP_PICK and OP_ROLL take their index first, and it may be any number.
IndexFits(n, s) == n >= 0 /\ n < Len(s)
Picked(rest, n, op) ==
    IF ~ IndexFits(n, rest) THEN Fail
    ELSE Append(IF op = "OP_PICK" THEN rest ELSE RemoveAt(rest, Len(rest) - n), Top(rest, n + 1))
PickOp(s, op) ==
    IF Len(s) < 2 THEN Fail
    ELSE IF ~ IsNumber(Top(s, 1)) THEN Fail
    ELSE Picked(Popped(s, 1), CastToBigNum(Top(s, 1)), op)

LookOp(s, op) ==
    CASE op = "OP_DEPTH" -> Append(s, Number(Len(s)))
      [] op # "OP_DEPTH" /\ s = <<>> -> Fail
      [] op = "OP_SIZE" /\ s # <<>> -> Append(s, Number(SizeOf(Top(s, 1))))
      [] op = "OP_IFDUP" /\ s # <<>> ->
           IF CastToBool(Top(s, 1)) THEN Append(s, Top(s, 1)) ELSE s

\* ...VERIFY: the result is taken off again, or the script fails.
Verified(s, op, verify) ==
    IF op # verify \/ Failed(s) THEN s
    ELSE IF CastToBool(Top(s, 1)) THEN Popped(s, 1) ELSE Fail

EqualOp(s, op) ==
    IF Len(s) < 2 THEN Fail
    ELSE Verified(Replace(s, 2, <<Bool(Top(s, 2) = Top(s, 1))>>), op, "OP_EQUALVERIFY")

Truth(b) == IF b THEN 1 ELSE 0
Unary(op, n) ==
    CASE op = "OP_1ADD" -> n + 1
      [] op = "OP_1SUB" -> n - 1
      [] op = "OP_NEGATE" -> -n
      [] op = "OP_ABS" -> IF n < 0 THEN -n ELSE n
      [] op = "OP_NOT" -> Truth(n = 0)
      [] op = "OP_0NOTEQUAL" -> Truth(n # 0)
UnaryOp(s, op) ==
    IF s = <<>> \/ ~ (s # <<>> /\ IsNumber(Top(s, 1))) THEN Fail
    ELSE Replace(s, 1, <<Number(Unary(op, CastToBigNum(Top(s, 1))))>>)

Binary(op, a, b) ==
    CASE op = "OP_ADD" -> a + b
      [] op = "OP_SUB" -> a - b
      [] op = "OP_BOOLAND" -> Truth(a # 0 /\ b # 0)
      [] op = "OP_BOOLOR" -> Truth(a # 0 \/ b # 0)
      [] op \in {"OP_NUMEQUAL", "OP_NUMEQUALVERIFY"} -> Truth(a = b)
      [] op = "OP_NUMNOTEQUAL" -> Truth(a # b)
      [] op = "OP_LESSTHAN" -> Truth(a < b)
      [] op = "OP_GREATERTHAN" -> Truth(a > b)
      [] op = "OP_LESSTHANOREQUAL" -> Truth(a <= b)
      [] op = "OP_GREATERTHANOREQUAL" -> Truth(a >= b)
      [] op = "OP_MIN" -> IF a < b THEN a ELSE b
      [] op = "OP_MAX" -> IF a > b THEN a ELSE b
BinaryOp(s, op) ==
    IF Len(s) < 2 THEN Fail
    ELSE IF ~ (IsNumber(Top(s, 1)) /\ IsNumber(Top(s, 2))) THEN Fail
    ELSE Verified(
           Replace(s, 2, <<Number(Binary(op, CastToBigNum(Top(s, 2)), CastToBigNum(Top(s, 1))))>>),
           op, "OP_NUMEQUALVERIFY")

WithinOp(s) ==
    IF Len(s) < 3 THEN Fail
    ELSE IF \E x \in 1 .. 3 : ~ IsNumber(Top(s, x)) THEN Fail
    ELSE LET n(x) == CastToBigNum(Top(s, x))
         IN Replace(s, 3, <<Bool(n(2) <= n(3) /\ n(3) < n(1))>>)

\* The hash functions are told apart by nothing but their names in a script.
HashOp(s) == IF s = <<>> THEN Fail ELSE Replace(s, 1, <<HashOf(Top(s, 1))>>)

UnaryOps == {"OP_1ADD", "OP_1SUB", "OP_NEGATE", "OP_ABS", "OP_NOT", "OP_0NOTEQUAL"}
BinaryOps == {"OP_ADD", "OP_SUB", "OP_BOOLAND", "OP_BOOLOR", "OP_NUMEQUAL", "OP_NUMEQUALVERIFY",
              "OP_NUMNOTEQUAL", "OP_LESSTHAN", "OP_GREATERTHAN", "OP_LESSTHANOREQUAL",
              "OP_GREATERTHANOREQUAL", "OP_MIN", "OP_MAX"}
TopOps == DOMAIN Moves \cup UnaryOps \cup BinaryOps
            \cup {"OP_PICK", "OP_ROLL", "OP_DEPTH", "OP_SIZE", "OP_IFDUP", "OP_EQUAL",
                  "OP_EQUALVERIFY", "OP_WITHIN", "OP_HASH160"}

TopOp(s, op) ==
    CASE op \in DOMAIN Moves -> MoveOp(s, op)
      [] op \in {"OP_PICK", "OP_ROLL"} -> PickOp(s, op)
      [] op \in {"OP_DEPTH", "OP_SIZE", "OP_IFDUP"} -> LookOp(s, op)
      [] op \in {"OP_EQUAL", "OP_EQUALVERIFY"} -> EqualOp(s, op)
      [] op \in UnaryOps -> UnaryOp(s, op)
      [] op \in BinaryOps -> BinaryOp(s, op)
      [] op = "OP_WITHIN" -> WithinOp(s)
      [] op = "OP_HASH160" -> HashOp(s)

--------------------------------------------------------------------------------
(* Signatures cover the parts of a transaction that their hash type names.        *)

\* A transaction of inputs, each with the output it spends, and of outputs; the index
\* of the input that is signed goes with it.
Transaction(vin, vout, nLockTime) == [vin |-> vin, vout |-> vout, nLockTime |-> nLockTime]
Env(tx, nIn) == [tx |-> tx, nIn |-> nIn]
Nothing == Env(Transaction(<<>>, <<>>, 0), 0)       \* CTransaction()

One == [one |-> TRUE]

SerializeInput(tx, nIn, type, n) ==
    [tx.vin[n] EXCEPT !.nSequence = IF n # nIn /\ type.base # "ALL" THEN 0 ELSE @]
SerializeOutput(tx, nIn, type, n) ==
    IF type.base = "SINGLE" /\ n # nIn THEN <<>> ELSE <<tx.vout[n]>>
Outputs(tx, nIn, type) ==
    CASE type.base = "NONE" -> 0
      [] type.base = "SINGLE" -> nIn + 1
      [] type.base = "ALL" -> Len(tx.vout)

\* CTransactionSignatureSerializer; the separators of the script are left out.  Inputs
\* and outputs are counted from zero, their sequences from one.
Covered(scriptCode, tx, nIn, type) ==
    [code |-> SelectSeq(scriptCode, LAMBDA t : t # Op("OP_CODESEPARATOR")),
     ins |-> IF type.anyone THEN <<SerializeInput(tx, nIn + 1, type, nIn + 1)>>
             ELSE [n \in DOMAIN tx.vin |-> SerializeInput(tx, nIn + 1, type, n)],
     outs |-> [n \in 1 .. Outputs(tx, nIn, type) |-> SerializeOutput(tx, nIn + 1, type, n)],
     nLockTime |-> tx.nLockTime, index |-> IF type.anyone THEN 0 ELSE nIn, hashType |-> type]

\* The digest is 1 for an input that is not there, and for SIGHASH_SINGLE of one that has
\* no output.
SignatureHash(scriptCode, tx, nIn, type) ==
    IF nIn >= Len(tx.vin) \/ (type.base = "SINGLE" /\ nIn >= Len(tx.vout)) THEN One
    ELSE Covered(scriptCode, tx, nIn, type)

CheckSig(sig, key, scriptCode, env) ==
    /\ IsKey(key) /\ IsSignature(sig) /\ sig.signer = key.key
    /\ sig.digest = SignatureHash(scriptCode, env.tx, env.nIn, sig.hashType)

--------------------------------------------------------------------------------
(* EvalScript.  A frame is where the evaluation of a script is; env is what its   *)
(* signatures are checked against.                                                *)

Frame(stack) ==
    [stack |-> stack, alt |-> <<>>, exec |-> <<>>, ops |-> 0, begin |-> 1, failed |-> FALSE]
Broken(f) == [f EXCEPT !.failed = TRUE]
WithStack(f, s) == IF Failed(s) THEN Broken(f) ELSE [f EXCEPT !.stack = s]
Executes(f) == \A x \in DOMAIN f.exec : f.exec[x]

Disabled == {"OP_CAT", "OP_SUBSTR", "OP_LEFT", "OP_RIGHT", "OP_INVERT", "OP_AND", "OP_OR", "OP_XOR",
             "OP_2MUL", "OP_2DIV", "OP_MUL", "OP_DIV", "OP_MOD", "OP_LSHIFT", "OP_RSHIFT"}
Branching == {"OP_IF", "OP_NOTIF", "OP_ELSE", "OP_ENDIF"}
\* Between OP_IF and OP_ENDIF, so that they fail a script that does not execute them.
Between == Branching \cup {"OP_VERIF", "OP_VERNOTIF"}

\* A slip: the branch that is left is not taken up again.
ElseLeaves(exec) == [exec EXCEPT ![Len(exec)] = FALSE]
ElseTurns(exec) == [exec EXCEPT ![Len(exec)] = ~ @]
BranchOp(f, op) ==
    LET tests == op \in {"OP_IF", "OP_NOTIF"}
        value == CastToBool(Top(f.stack, 1))
    IN CASE tests /\ ~ Executes(f) -> [f EXCEPT !.exec = Append(@, FALSE)]
         [] tests /\ Executes(f) ->
              IF f.stack = <<>> THEN Broken(f)
              ELSE [f EXCEPT !.exec = Append(@, IF op = "OP_IF" THEN value ELSE ~ value),
                             !.stack = Popped(@, 1)]
         [] ~ tests ->
              CASE f.exec = <<>> -> Broken(f)
                [] f.exec # <<>> /\ op = "OP_ELSE" -> [f EXCEPT !.exec = ElseTurns(@)]
                [] f.exec # <<>> /\ op = "OP_ENDIF" -> [f EXCEPT !.exec = Popped(@, 1)]

AltOp(f, op) ==
    CASE op = "OP_TOALTSTACK" ->
           IF f.stack = <<>> THEN Broken(f)
           ELSE [f EXCEPT !.alt = Append(@, Top(f.stack, 1)), !.stack = Popped(@, 1)]
      [] op = "OP_FROMALTSTACK" ->
           IF f.alt = <<>> THEN Broken(f)
           ELSE [f EXCEPT !.stack = Append(@, Top(f.alt, 1)), !.alt = Popped(@, 1)]

VerifyOp(f) ==
    IF f.stack = <<>> THEN Broken(f)
    ELSE IF CastToBool(Top(f.stack, 1)) THEN [f EXCEPT !.stack = Popped(@, 1)] ELSE Broken(f)

\* The script from the last separator on, without the signatures that are checked.
FindAndDelete(script, element) == SelectSeq(script, LAMBDA t : t # Push(element))
RECURSIVE DeleteAll(_, _)
DeleteAll(script, elements) ==
    IF elements = <<>> THEN script
    ELSE DeleteAll(FindAndDelete(script, Head(elements)), Tail(elements))
ScriptCode(f, script, sigs) == DeleteAll(SubSeq(script, f.begin, Len(script)), sigs)

CheckSigOp(f, script, op, env) ==
    IF Len(f.stack) < 2 THEN Broken(f)
    ELSE LET sig == Top(f.stack, 2)
             key == Top(f.stack, 1)
             ok == CheckSig(sig, key, ScriptCode(f, script, <<sig>>), env)
         IN WithStack(f, Verified(Replace(f.stack, 2, <<Bool(ok)>>), op, "OP_CHECKSIGVERIFY"))

\* Each signature is tried on the keys in turn; a key that has been passed is not tried
\* again.  sigs and keys are in the order in which they are looked at.
RECURSIVE SigsFit(_, _, _, _)
SigsFit(sigs, keys, scriptCode, env) ==
    \/ sigs = <<>>
    \/ /\ sigs # <<>> /\ Len(sigs) <= Len(keys)
       /\ SigsFit(IF CheckSig(Head(sigs), Head(keys), scriptCode, env) THEN Tail(sigs) ELSE sigs,
                  Tail(keys), scriptCode, env)

\* The count of a list that lies under n elements of the stack, or -1.
CountUnder(s, n, limit) ==
    IF Len(s) <= n THEN -1
    ELSE IF ~ IsNumber(Top(s, n + 1)) THEN -1
    ELSE LET count == CastToBigNum(Top(s, n + 1)) IN IF count \in 0 .. limit THEN count ELSE -1

\* One element more than was asked for is taken off the stack, and it must be there:
\* popstack throws for an empty one.
Extra == 1
CheckCounted(f, script, op, env, nKeys, nSigs) ==
    LET s == f.stack
        all == nKeys + nSigs + 2
        keys == [x \in 1 .. nKeys |-> Top(s, 1 + x)]
        sigs == [x \in 1 .. nSigs |-> Top(s, 2 + nKeys + x)]
        g == [f EXCEPT !.ops = @ + nKeys]
    IN IF g.ops > MaxOps \/ nSigs = -1 \/ Len(s) < all THEN Broken(f)
       ELSE WithStack(g, Verified(
              Replace(s, all + Extra, <<Bool(SigsFit(sigs, keys, ScriptCode(f, script, sigs), env))>>),
              op, "OP_CHECKMULTISIGVERIFY"))
CheckMultisigOp(f, script, op, env) ==
    LET nKeys == CountUnder(f.stack, 0, MaxKeys)
    IN IF nKeys = -1 THEN Broken(f)
       ELSE CheckCounted(f, script, op, env, nKeys, CountUnder(f.stack, nKeys + 1, nKeys))

\* What executes, given that it does.
Execute(f, t, script, pc, env) ==
    CASE IsSmall(t) -> [f EXCEPT !.stack = Append(@, Number(t.small))]
      [] IsPush(t) -> [f EXCEPT !.stack = Append(@, t.push)]
      [] "op" \in DOMAIN t ->
           CASE t.op \in Branching -> BranchOp(f, t.op)
             [] t.op = "OP_NOP" -> f
             [] t.op = "OP_VERIFY" -> VerifyOp(f)
             [] t.op \in {"OP_TOALTSTACK", "OP_FROMALTSTACK"} -> AltOp(f, t.op)
             [] t.op \in TopOps -> WithStack(f, TopOp(f.stack, t.op))
             [] t.op = "OP_CODESEPARATOR" -> [f EXCEPT !.begin = pc + 1]
             [] t.op \in {"OP_CHECKSIG", "OP_CHECKSIGVERIFY"} ->
                  CheckSigOp(f, script, t.op, env)
             [] t.op \in {"OP_CHECKMULTISIG", "OP_CHECKMULTISIGVERIFY"} ->
                  CheckMultisigOp(f, script, t.op, env)
             [] OTHER -> Broken(f)      \* OP_RETURN, OP_VERIF and what is no opcode

Counted(f, t) == IF "op" \in DOMAIN t /\ t.op # "OP_RESERVED" THEN [f EXCEPT !.ops = @ + 1] ELSE f

Limited(f) == IF ~ f.failed /\ Len(f.stack) + Len(f.alt) > MaxStack THEN Broken(f) ELSE f

\* One instruction: a truncated one cannot be read, and a disabled one and one that pushes
\* too much fail a script even where they are not executed.
Refused(t) == IsOp(t, "truncated") \/ Oversize(t) \/ ("op" \in DOMAIN t /\ t.op \in Disabled)
Step(f, script, pc, env) ==
    LET t == script[pc]
        g == Counted(f, t)
        runs == Executes(f) \/ ("op" \in DOMAIN t /\ t.op \in Between)
    IN IF Refused(t) \/ g.ops > MaxOps THEN Broken(f)
       ELSE Limited(IF runs THEN Execute(g, t, script, pc, env) ELSE g)

RECURSIVE Run(_, _, _, _)
Run(f, script, pc, env) ==
    IF f.failed \/ pc > Len(script) THEN f
    ELSE Run(Step(f, script, pc, env), script, pc + 1, env)

\* The stack that is left, or Fail.
Outcome(f) == IF f.failed \/ f.exec # <<>> THEN Fail ELSE f.stack
\* Nothing of a script that is too large is read.
Evaluated(stack, script, env) ==
    IF ScriptSize(script) > MaxScriptSize THEN Broken(Frame(stack))
    ELSE Run(Frame(stack), script, 1, env)
EvalScript(stack, script, env) == Outcome(Evaluated(stack, script, env))

--------------------------------------------------------------------------------
(* A script that is written while it runs. *)

CONSTANTS
    Instructions,   \* what it may be made of
    MaxScript       \* and how long it becomes

VARIABLES
    script, frame

machine == <<script, frame>>

MachineInit == script = <<>> /\ frame = Frame(<<>>)

\* EvalScript reads and executes one more instruction, unless that makes it too large.
Instruction(t) ==
    /\ ~ frame.failed /\ Len(script) < MaxScript
    /\ script' = Append(script, t)
    /\ frame' = IF ScriptSize(script') > MaxScriptSize THEN Broken(frame)
                ELSE Step(frame, script', Len(script) + 1, Nothing)

MachineNext == \E t \in Instructions : Instruction(t)

--------------------------------------------------------------------------------
\* What more instructions make of the stack.
Does(more) == EvalScript(frame.stack, more, Nothing)
\* Room for the laws below: none of them needs more.
Settled ==
    /\ ~ frame.failed /\ frame.exec = <<>> /\ Len(frame.stack) + 4 <= MaxStack
    /\ MaxOps >= 20 /\ MaxScriptSize >= MAX_SCRIPT_ELEMENT_SIZE + 20

Ops(names) == [x \in DOMAIN names |-> Op(names[x])]
Law(deep, left, right) == [deep |-> deep, left |-> left, right |-> right]
\* What does the same on a stack that is deep enough, or fails as well.
StackLaws ==
    {Law(0, Ops(<<"OP_OVER", "OP_OVER">>), Ops(<<"OP_2DUP">>)),
     Law(0, Ops(<<"OP_SWAP", "OP_OVER">>), Ops(<<"OP_TUCK">>)),
     Law(0, Ops(<<"OP_SWAP", "OP_DROP">>), Ops(<<"OP_NIP">>)),
     Law(0, Ops(<<"OP_DROP", "OP_DROP">>), Ops(<<"OP_2DROP">>)),
     Law(2, Ops(<<"OP_SWAP", "OP_SWAP">>), <<>>),
     Law(3, Ops(<<"OP_ROT", "OP_ROT", "OP_ROT">>), <<>>),
     Law(4, Ops(<<"OP_2SWAP", "OP_2SWAP">>), <<>>),
     Law(4, Ops(<<"OP_2OVER", "OP_2DROP">>), <<>>),
     Law(6, Ops(<<"OP_2ROT", "OP_2ROT", "OP_2ROT">>), <<>>),
     Law(2, <<Small(1), Op("OP_PICK")>>, Ops(<<"OP_OVER">>)),
     Law(2, <<Small(1), Op("OP_ROLL")>>, Ops(<<"OP_SWAP">>)),
     Law(3, <<Small(2), Op("OP_ROLL")>>, Ops(<<"OP_ROT">>)),
     Law(3, <<Small(2), Op("OP_PICK"), Small(2), Op("OP_PICK"), Small(2), Op("OP_PICK")>>,
            Ops(<<"OP_3DUP">>)),
     Law(0, Ops(<<"OP_DEPTH", "OP_PICK">>), Ops(<<"OP_RETURN">>)),
     Law(0, Ops(<<"OP_EQUAL", "OP_VERIFY">>), Ops(<<"OP_EQUALVERIFY">>))}
NumberLaws ==
    {Law(0, Ops(<<"OP_NOT", "OP_NOT">>), Ops(<<"OP_0NOTEQUAL">>)),
     Law(0, <<Small(1), Op("OP_ADD")>>, Ops(<<"OP_1ADD">>)),
     Law(0, <<Small(1), Op("OP_SUB")>>, Ops(<<"OP_1SUB">>)),
     Law(0, Ops(<<"OP_2DUP", "OP_MIN", "OP_TOALTSTACK", "OP_MAX", "OP_FROMALTSTACK", "OP_ADD">>),
            Ops(<<"OP_ADD">>)),
     Law(0, Ops(<<"OP_SWAP", "OP_LESSTHAN">>), Ops(<<"OP_GREATERTHAN">>)),
     Law(0, Ops(<<"OP_SWAP", "OP_LESSTHANOREQUAL">>), Ops(<<"OP_GREATERTHANOREQUAL">>)),
     Law(0, Ops(<<"OP_NUMEQUAL", "OP_NOT">>), Ops(<<"OP_NUMNOTEQUAL">>)),
     Law(0, Ops(<<"OP_NUMEQUAL", "OP_VERIFY">>), Ops(<<"OP_NUMEQUALVERIFY">>)),
     Law(0, Ops(<<"OP_NOT", "OP_SWAP", "OP_NOT", "OP_BOOLOR", "OP_NOT">>), Ops(<<"OP_BOOLAND">>)),
     Law(0, Ops(<<"OP_DUP", "OP_NEGATE", "OP_MAX">>), Ops(<<"OP_ABS">>)),
     Law(0, Ops(<<"OP_WITHIN">>),
            Ops(<<"OP_3DUP", "OP_NIP", "OP_LESSTHAN", "OP_TOALTSTACK", "OP_DROP",
                  "OP_GREATERTHANOREQUAL", "OP_FROMALTSTACK", "OP_BOOLAND">>))}
\* The difference may be a number that is too long for the next opcode.
Difference == Law(0, Ops(<<"OP_SUB", "OP_NOT">>), Ops(<<"OP_NUMEQUAL">>))

\* Opcodes agree with each other on whatever stack a script has built: what one does,
\* others together do too, and they fail together (the cases of EvalScript).
OpcodesAgree ==
    Settled =>
        /\ \A law \in StackLaws \cup NumberLaws \cup {Difference} :
             \/ Len(frame.stack) < law.deep
             \/ Does(law.left) = Does(law.right)
             \/ law = Difference /\ Failed(Does(law.left))
        /\ frame.stack # <<>> =>
             Does(Ops(<<"OP_DEPTH", "OP_1SUB", "OP_ROLL", "OP_DROP">>)) = Tail(frame.stack)

WritesRead ==
    \A n \in -(Byte * Byte) .. Byte * Byte :
        setvch(getvch(n)) = n /\ CastToBool(Number(n)) = (n # 0)
\* Numbers are read as they are written, in the fewest bytes, and a number that is not
\* zero is true (getvch, CastToBigNum, CastToBool).
NumbersRead ==
    /\ WritesRead
    /\ \A x \in DOMAIN frame.stack :
         LET e == frame.stack[x]
         IN IsNumber(e) => (CastToBool(e) <=> CastToBigNum(e) # 0)

\* A branch that is not taken does nothing, whatever it and the branches within it would
\* do, unless something in it is refused even there, and the one that is taken does what it
\* does outside (BranchOp, Step).
Dead == [x \in 1 .. 6 |-> Op(<<"OP_RETURN", "OP_IF", "OP_RETURN", "OP_ELSE", "OP_RETURN", "OP_ENDIF">>[x])]
BranchesChoose ==
    Settled =>
        \A t \in Instructions, v \in {vchTrue, vchFalse}, test \in {"OP_IF", "OP_NOTIF"} :
            LET first == (v = vchTrue) <=> (test = "OP_IF")
                then == <<Op(test)>> \o (IF first THEN <<t>> ELSE Dead)
                else == <<Op("OP_ELSE")>> \o (IF first THEN Dead ELSE <<t>>) \o <<Op("OP_ENDIF")>>
            IN \/ IsOp(t, "OP_CODESEPARATOR") \/ ("op" \in DOMAIN t /\ t.op \in Between)
               \/ /\ EvalScript(Append(frame.stack, v), then \o else, Nothing)
                       = EvalScript(frame.stack, <<t>>, Nothing)
                  /\ test = "OP_IF" /\ v = vchFalse =>
                       EvalScript(Append(frame.stack, v), <<Op(test), t, Op("OP_ENDIF")>>, Nothing)
                         = IF Refused(t) THEN Fail ELSE frame.stack
================================================================================
