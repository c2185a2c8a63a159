------------------------------- MODULE Embedding -------------------------------
(***************************************************************************)
(* One message on its way into a chain of transactions and out again:      *)
(* MinimumBudget (a dry run of EmbedData without money or inputs), the     *)
(* selection of inputs, EmbedData itself, and ExtractData on the result.   *)
(*                                                                         *)
(* A run of bits is abstracted to a slot: where in the message its first   *)
(* bit stands, how many bits of the message it carries, and how many bits  *)
(* the carrier holds (the rest is zero padding).  Which permutation the    *)
(* claimed outputs are in depends on the bits, and is left open; what a    *)
(* split of the budget encodes is modelled in Maths.                       *)
(***************************************************************************)
EXTENDS Integers, Sequences, SequencesExt

CONSTANTS
    Lengths,        \* lengths, in bits, of the compressed message
    InputCounts,    \* numbers of outputs SelectInputs may pick
    Surplus,        \* by how much the picked outputs exceed the minimum
    SuffixBits,     \* Keymap.SuffixBits, bits in the key we can sign with
    KeyBits,        \* 255 - Random.SuffixBits, bits in every other key
    MaxKeys,        \* other keys in one redeem script (11)
    SeqBits,        \* bits of a sequence number (32)
    NullBits,       \* bits of a nulldata output (320)
    MaxScriptHash,  \* P2SH outputs of one transaction (14)
    LBound,         \* least value of an output of a split (546)
    FeeRate,        \* TxFeeRate, paid for each FeeUnit bytes begun
    FeeUnit,        \* 1000
    Word,           \* 2^64
    TxSize, InSize, SigSize, KeySize, OutSize, NullSize,  \* bytes of the parts
    EmbeddableBitsInValues(_, _),       \* bits in a split of a budget
    EmbeddableBitsInPermutation(_),     \* bits in an order of n outputs
    Claims(_)                           \* orders of n outputs considered

Bits == {SuffixBits, KeyBits, SeqBits, NullBits}
Sizes == {TxSize, InSize, SigSize, KeySize, OutSize, NullSize}

\* Every carrier holds at least one bit, and the words are wide enough to
\* tell zero from one.
ASSUME ConstantsAssumption ==
    /\ Lengths \subseteq Nat \ {0}
    /\ InputCounts \subseteq Nat \ {0}
    /\ Surplus \subseteq Nat
    /\ Bits \subseteq Nat \ {0}
    /\ Sizes \subseteq Nat
    /\ MaxKeys \in Nat \ {0}
    /\ MaxScriptHash \in Nat \ {0}
    /\ LBound \in Nat
    /\ FeeRate \in Nat \ {0}
    /\ FeeUnit \in Nat \ {0}
    /\ Word \in Nat \ {0, 1}

\* A claim is an order of all n outputs.
ASSUME ClaimsAssumption ==
    \A n \in 1 .. MaxScriptHash :
       \A p \in Claims(n) : /\ p \in [1 .. n -> 1 .. n]
                            /\ \A i, j \in 1 .. n : p[i] = p[j] => i = j

VARIABLES
    len,        \* bits of the message
    mode,       \* "dry" in MinimumBudget's run of EmbedData, then "real"
    pc,         \* where the program is
    left,       \* bits.size(): message bits not embedded yet
    nBudget,    \* nBudget of EmbedData, an unsigned word
    txs,        \* the finished transactions, all of them once EmbedData returns
    cur, nxt,   \* txs[idx] and txs[idx + 1] while EmbedData runs
    params,     \* result of OptimizeParams for the current transaction
    nMin,       \* MinimumBudget's sum
    i,          \* the loop counter (input, or transaction)
    j,          \* the reader's inner loop counter
    read        \* slots ExtractData has returned so far

vars == <<len, mode, pc, left, nBudget, txs, cur, nxt, params, nMin, i, j, read>>

--------------------------------------------------------------------------------
(* Slots and transactions. *)

MinOf(a, b) == IF a <= b THEN a ELSE b
CeilDiv(a, b) == (a + b - 1) \div b

\* Subtraction of unsigned words (and a slip: of signed ones).
SignedMinus(a, b) == a - b
Minus(a, b) == (a - b) % Word

Slot == [at : Nat, n : Nat, size : Nat]

NoSlot == [at |-> 0, n |-> 0, size |-> 0]

\* The slot a carrier of `size' bits gets when `rest' bits of the message
\* are left: PadBits and SliceBits around min(size, bits.size()).
Pack(rest, size) == [at |-> len - rest, n |-> MinOf(size, rest), size |-> size]

After(rest, size) == rest - MinOf(size, rest)

\* An input before it is signed: SelectInputs' for the first transaction, a
\* claim of output n of the transaction before for the others.  `bytes' of
\* a transaction counts its inputs.
Input == [prevout : Nat, keys : Seq(Slot), seqNr : Slot]
NewInput(n) == [prevout |-> n, keys |-> <<>>, seqNr |-> NoSlot]

\* scripts[n] is the input of the next transaction whose redeem script P2SH
\* output n commits to (0: none yet); value is the value of all the outputs
\* together (-1: not set); split and claim are what the values and the order
\* of the inputs encode.
Transaction ==
    [vin : Seq(Input), bytes : Nat, scripts : Seq(Nat), nulls : {0, 1},
     nulldata : Slot, dests : {0, 1}, value : Int, split : Slot, claim : Slot]

EmptyTx ==
    [vin |-> <<>>, bytes |-> 0, scripts |-> <<>>, nulls |-> 0,
     nulldata |-> NoSlot, dests |-> 0, value |-> -1, split |-> NoSlot,
     claim |-> NoSlot]

WithInputs(n) == [EmptyTx EXCEPT !.vin = [k \in 1 .. n |-> NewInput(k)],
                              !.bytes = n * InSize]

vout(tx) == Len(tx.scripts) + tx.nulls + tx.dests       \* vout.size()

\* Fee for a transaction with the inputs of tx and the outputs named, a word.
FeeOf(tx, scripts, nulls, dests) ==
    (FeeRate * CeilDiv(TxSize + tx.bytes + (scripts + dests) * OutSize
                              + nulls * NullSize, FeeUnit)) % Word

TransactionFee(tx) == FeeOf(tx, Len(tx.scripts), tx.nulls, tx.dests)

--------------------------------------------------------------------------------
(* OptimizeParams *)

P2SHCapacity(n) == n * (SuffixBits + MaxKeys * KeyBits) + n * SeqBits

\* Nulldata is used from two scripts on, and with one that does not do.
Nulls(n, rest) == IF n >= 2 \/ rest > P2SHCapacity(n) THEN 1 ELSE 0

\* The fee with n script hashes (and a slip: the nulldata output is not counted).
FeeWithout(tx, rest, n) == FeeOf(tx, n, 0, 0)
FeeWith(tx, rest, n) == FeeOf(tx, n, Nulls(n, rest), 0)

\* What the code believes n scripts hold: the split of the whole budget, the
\* lower bounds of the outputs not taken off.
Capacity(tx, rest, budget, n) ==
    LET fee == FeeWith(tx, rest, n) IN
    P2SHCapacity(n) + NullBits * Nulls(n, rest)
      + (IF n >= 2
         THEN (IF budget >= fee
               THEN EmbeddableBitsInValues(budget - fee, n) ELSE 0)
              + EmbeddableBitsInPermutation(n)
         ELSE 0)

\* The loop counts down from MaxScriptHash while the bits fit, and keeps the
\* last number of scripts that they fitted in.
Fitting(tx, rest, budget) ==
    {n \in 1 .. MaxScriptHash :
       \A m \in n .. MaxScriptHash : Capacity(tx, rest, budget, m) >= rest}

Least(S) == CHOOSE n \in S : \A m \in S : n <= m

ScriptHashes(tx, rest, budget) ==
    LET fitting == Fitting(tx, rest, budget) IN
    IF fitting = {} THEN MaxScriptHash ELSE Least(fitting)

OptimizeParams(tx, rest, budget) ==
    IF rest = 0
    THEN [nScriptHash |-> 0, nNulldata |-> 0, nFees |-> TransactionFee(tx)]
    ELSE LET n == ScriptHashes(tx, rest, budget) IN
         [nScriptHash |-> n, nNulldata |-> Nulls(n, rest),
          nFees |-> FeeWith(tx, rest, n)]

--------------------------------------------------------------------------------
(* EmbedData *)

\* MinimumBudget calls EmbedData with no money and no inputs.
Init ==
    /\ len \in Lengths
    /\ mode = "dry"
    /\ pc = "optimize"
    /\ left = len
    /\ nBudget = 0
    /\ txs = <<>>
    /\ cur = EmptyTx
    /\ nxt = EmptyTx
    /\ params = [nScriptHash |-> 0, nNulldata |-> 0, nFees |-> 0]
    /\ nMin = 0
    /\ i = 1
    /\ j = 1
    /\ read = <<>>

\* The loop's head: choose the parameters, make room for the script hashes
\* here and for the inputs that claim them in the next transaction.
Optimize ==
    /\ pc = "optimize"
    /\ params' = OptimizeParams(cur, left, nBudget)
    /\ LET n == params'.nScriptHash IN
       /\ cur' = [cur EXCEPT !.scripts = [k \in 1 .. n |-> 0]]
       /\ nxt' = WithInputs(n)
    /\ pc' = "split"
    /\ UNCHANGED <<len, mode, left, nBudget, txs, nMin, i, j, read>>

\* A single output gets the whole budget.
WholeBudget ==
    /\ pc = "split"
    /\ params.nScriptHash = 1
    /\ cur' = [cur EXCEPT !.value = Minus(nBudget, params.nFees)]
    /\ pc' = "nulldata"
    /\ UNCHANGED <<len, mode, left, nBudget, txs, nxt, params, nMin, i, j, read>>

\* PackDataIntoBudgetSplit asserts that every output gets its lower bound.
SplitFails ==
    /\ pc = "split"
    /\ params.nScriptHash >= 2
    /\ nBudget >= params.nFees
    /\ nBudget - params.nFees < params.nScriptHash * LBound
    /\ pc' = "aborted"
    /\ UNCHANGED <<len, mode, left, nBudget, txs, cur, nxt, params, nMin, i, j, read>>

\* Two or more outputs: the values carry data when there is money for the
\* fees, and then the order in which the next transaction claims them does.
SplitBudget ==
    /\ pc = "split"
    /\ params.nScriptHash >= 2
    /\ LET n == params.nScriptHash
           budget == nBudget - params.nFees
           funded == budget >= 0
           size == IF funded THEN EmbeddableBitsInValues(budget - n * LBound, n)
                   ELSE 0
           rest == After(left, size)
       IN /\ funded => budget >= n * LBound
          /\ cur' = IF funded
                    THEN [cur EXCEPT !.value = budget, !.split = Pack(left, size)]
                    ELSE cur
          /\ \E perm \in Claims(n) :
               nxt' = [nxt EXCEPT
                         !.claim = Pack(rest, EmbeddableBitsInPermutation(n)),
                         !.vin = [k \in 1 .. n |-> NewInput(perm[k])]]
          /\ left' = After(rest, EmbeddableBitsInPermutation(n))
    /\ pc' = "nulldata"
    /\ UNCHANGED <<len, mode, nBudget, txs, params, nMin, i, j, read>>

Nulldata ==
    /\ pc = "nulldata"
    /\ IF params.nNulldata = 1
       THEN /\ cur' = [cur EXCEPT !.nulls = 1, !.nulldata = Pack(left, NullBits)]
            /\ left' = After(left, NullBits)
       ELSE UNCHANGED <<cur, left>>
    /\ i' = 1
    /\ pc' = "script"
    /\ UNCHANGED <<len, mode, nBudget, txs, nxt, params, nMin, j, read>>

\* The output that input k claims.
ClaimedBy(tx, k) == tx.vin[k].prevout

\* PackDataIntoP2SH and PackDataIntoSeqNr for input i of the next
\* transaction: suffix, other keys, sequence number, in this order.  The
\* redeem script goes to the output the input claims; signing the input
\* makes the transaction longer.
Script ==
    /\ pc = "script"
    /\ i <= params.nScriptHash
    /\ LET rest == After(left, SuffixBits)
           nExtraKeys == MinOf(MaxKeys, CeilDiv(rest, KeyBits))
           beforeKey(k) == rest - MinOf(rest, (k - 1) * KeyBits)
           rest2 == rest - MinOf(rest, nExtraKeys * KeyBits)
           keys == <<Pack(left, SuffixBits)>>
                     \o [k \in 1 .. nExtraKeys |-> Pack(beforeKey(k), KeyBits)]
           n == ClaimedBy(nxt, i)
       IN /\ cur' = [cur EXCEPT !.scripts[n] = i]
          /\ nxt' = [nxt EXCEPT
                       !.vin[i] = [prevout |-> nxt.vin[i].prevout, keys |-> keys,
                                   seqNr |-> Pack(rest2, SeqBits)],
                       !.bytes = @ + SigSize + (nExtraKeys + 1) * KeySize]
          /\ left' = After(rest2, SeqBits)
    /\ i' = i + 1
    /\ UNCHANGED <<len, mode, pc, nBudget, txs, params, nMin, j, read>>

\* The loop's foot: pay the fees, and go on while bits are left.
NextTransaction ==
    /\ pc = "script"
    /\ i > params.nScriptHash
    /\ left > 0
    /\ nBudget' = Minus(nBudget, params.nFees)
    /\ txs' = Append(txs, cur)
    /\ cur' = nxt
    /\ nxt' = EmptyTx
    /\ pc' = "optimize"
    /\ UNCHANGED <<len, mode, left, params, nMin, i, j, read>>

\* After the loop the last transaction sends what remains to the address;
\* its fee is the one it costs without that output.
Remainder ==
    /\ pc = "script"
    /\ i > params.nScriptHash
    /\ left = 0
    /\ LET budget == Minus(nBudget, params.nFees)
           fees == TransactionFee(nxt)
       IN /\ nBudget' = budget
          /\ params' = [nScriptHash |-> 0, nNulldata |-> 0, nFees |-> fees]
          /\ txs' = txs \o <<cur, [nxt EXCEPT !.dests = 1,
                                            !.value = Minus(budget, fees)]>>
    /\ UNCHANGED <<cur, nxt>>
    /\ pc' = IF mode = "dry" THEN "minimum" ELSE "extract"
    /\ i' = 1
    /\ UNCHANGED <<len, mode, left, nMin, j, read>>

--------------------------------------------------------------------------------
(* MinimumBudget, SelectInputs and ExtractData *)

\* A slip: assigned instead of added.
LastFee ==
    /\ pc = "minimum"
    /\ i <= Len(txs)
    /\ nMin' = TransactionFee(txs[i])
    /\ i' = i + 1
    /\ UNCHANGED <<len, mode, pc, left, nBudget, txs, cur, nxt, params, j, read>>

\* The sum over the chain of the dry run.
AddFee ==
    /\ pc = "minimum"
    /\ i <= Len(txs)
    /\ nMin' = nMin + TransactionFee(txs[i])
    /\ i' = i + 1
    /\ UNCHANGED <<len, mode, pc, left, nBudget, txs, cur, nxt, params, j, read>>

\* What MinimumBudget adds for the outputs that EmbedData had no money for.
Margin == 2 * FeeRate

\* MinimumBudget returns; SelectInputs picks outputs worth at least that;
\* EmbedData starts on them.
SelectInputs ==
    /\ pc = "minimum"
    /\ i > Len(txs)
    /\ nMin' = nMin + Margin
    /\ \E k \in InputCounts, extra \in Surplus :
         /\ cur' = WithInputs(k)
         /\ nBudget' = (nMin' + extra) % Word
    /\ txs' = <<>>
    /\ nxt' = EmptyTx
    /\ mode' = "real"
    /\ left' = len
    /\ pc' = "optimize"
    /\ UNCHANGED <<len, params, i, j, read>>

\* What the reader takes for a slot: it knows a carrier's size only from
\* the transactions, and a wrong size misplaces every bit after it.
As(slot, size) == [slot EXCEPT !.size = size]

\* What the reader makes of the number of outputs.
nNulldata(tx) == IF vout(tx) >= 2 THEN 1 ELSE 0
nScriptHash(tx) == vout(tx) - nNulldata(tx)

\* What the values of n outputs of tx and the order of next's inputs encode
\* (and a slip: the order first).
ClaimThenSplit(tx, next, n) ==
    <<As(next.claim, EmbeddableBitsInPermutation(n)),
      As(tx.split, EmbeddableBitsInValues(Minus(tx.value, n * LBound), n))>>

SplitThenClaim(tx, next, n) ==
    <<As(tx.split, EmbeddableBitsInValues(Minus(tx.value, n * LBound), n)),
      As(next.claim, EmbeddableBitsInPermutation(n))>>

\* The top of ExtractData's loop body: the values of the outputs and the
\* order of the next transaction's inputs, then the nulldata output.
ExtractOutputs ==
    /\ pc = "extract"
    /\ i < Len(txs)
    /\ LET n == nScriptHash(txs[i]) IN
       read' = read
            \o (IF n >= 2 THEN SplitThenClaim(txs[i], txs[i + 1], n) ELSE <<>>)
            \o (IF nNulldata(txs[i]) = 1 THEN <<txs[i].nulldata>> ELSE <<>>)
    /\ pc' = "inputs"
    /\ j' = 1
    /\ UNCHANGED <<len, mode, left, nBudget, txs, cur, nxt, params, nMin, i>>

\* Its inner loop: the keys of the redeem script that input j of the next
\* transaction reveals, then the input's sequence number.
ExtractInput ==
    /\ pc = "inputs"
    /\ j <= nScriptHash(txs[i])
    /\ read' = Append(read \o txs[i + 1].vin[j].keys, txs[i + 1].vin[j].seqNr)
    /\ j' = j + 1
    /\ UNCHANGED <<len, mode, pc, left, nBudget, txs, cur, nxt, params, nMin, i>>

ExtractNext ==
    /\ pc = "inputs"
    /\ j > nScriptHash(txs[i])
    /\ pc' = "extract"
    /\ i' = i + 1
    /\ UNCHANGED <<len, mode, left, nBudget, txs, cur, nxt, params, nMin, j, read>>

\* A slip: the loop does not stop before the last transaction.
ReturnAfterLast ==
    /\ pc = "extract"
    /\ i > Len(txs)
    /\ pc' = "extracted"
    /\ UNCHANGED <<len, mode, left, nBudget, txs, cur, nxt, params, nMin, i, j, read>>

Return ==
    /\ pc = "extract"
    /\ i = Len(txs)
    /\ pc' = "extracted"
    /\ UNCHANGED <<len, mode, left, nBudget, txs, cur, nxt, params, nMin, i, j, read>>

EmbedData == \/ Optimize \/ WholeBudget \/ SplitFails \/ SplitBudget
             \/ Nulldata \/ Script \/ NextTransaction \/ Remainder

Next == \/ EmbedData \/ AddFee \/ SelectInputs
        \/ ExtractOutputs \/ ExtractInput \/ ExtractNext \/ Return

Spec == Init /\ [][Next]_vars

\* One thread runs from start to end; nothing can hold it back.
FairSpec == Spec /\ WF_vars(Next)

--------------------------------------------------------------------------------
(* Properties *)

PCs == {"optimize", "split", "nulldata", "script", "minimum", "extract",
        "inputs", "extracted", "aborted"}

\* Types of the variables; nBudget is an unsigned word.
TypeOK ==
    /\ len \in Nat \ {0}
    /\ mode \in {"dry", "real"}
    /\ pc \in PCs
    /\ left \in 0 .. len
    /\ nBudget \in 0 .. Word - 1
    /\ txs \in Seq(Transaction)
    /\ cur \in Transaction
    /\ nxt \in Transaction
    /\ params \in [nScriptHash : 0 .. MaxScriptHash, nNulldata : {0, 1},
                    nFees : Nat]
    /\ nMin \in Nat
    /\ i \in Nat \ {0}
    /\ j \in Nat \ {0}
    /\ read \in Seq(Slot)

\* Every output has a value.  When the budget does not cover the fees, a
\* split is skipped and leaves its outputs at -1, which no node relays.
Valued == \A t \in DOMAIN txs : txs[t].value # -1

\* The bits of a sequence of slots, the message's by their position, padding
\* as zero.
Payload(slots) ==
    FlattenSeq([k \in DOMAIN slots |->
                  [b \in 1 .. slots[k].size |->
                     IF b <= slots[k].n THEN slots[k].at + b ELSE 0]])

\* What ExtractData returns is the message EmbedData was given, every bit
\* once and in its place, followed by nothing but padding: writer and reader,
\* which share no state but the transactions, cut the stream at the same
\* places.
RoundTrip ==
    pc = "extracted" /\ Valued =>
      LET bits == Payload(read) IN
      /\ Len(bits) >= len
      /\ \A k \in DOMAIN bits : bits[k] = IF k <= len THEN k ELSE 0

\* While the reader is under way, what it has is a prefix of the message:
\* no slot of a later transaction is read before one of an earlier.
ReadsInOrder ==
    Valued => \A k \in DOMAIN read :
       /\ k < Len(read) => read[k + 1].at = read[k].at + read[k].n
       /\ read[k].n < read[k].size => read[k].at + read[k].n = len

\* At the end it has the message from its first bit to its last.
WholeRead ==
    pc = "extracted" /\ Valued =>
      /\ read # <<>> /\ read[1].at = 0
      /\ read[Len(read)].at + read[Len(read)].n = len

\* In a finished chain the order of the inputs of a transaction claims every
\* P2SH output of the one before exactly once, and the redeem script an
\* input reveals is the one its output commits to, whatever order the bits
\* chose.
ClaimsMatchScripts ==
    pc \in {"minimum", "extract"} =>
      \A t \in 1 .. Len(txs) - 1 :
         LET in == txs[t + 1].vin
             outs == txs[t].scripts
         IN /\ Len(in) = Len(outs)
            /\ \A k \in DOMAIN in : outs[in[k].prevout] = k
            /\ \A k \in DOMAIN in : in[k].keys # <<>> /\ in[k].seqNr # NoSlot

\* So the message arrives: the reader has every bit of it, in its place, through inputs that
\* reveal what the outputs commit to.
MessageArrives == ClaimsMatchScripts /\ ReadsInOrder /\ WholeRead

\* Money is neither made nor lost on the way: a transaction between the first
\* and the last takes the value of the one before it and pays the fee for its
\* own final size, and the last pays at least the fee for its inputs.
FeesPaid ==
    mode = "real" /\ pc = "extract" /\ Valued =>
      \A t \in 2 .. Len(txs) :
         Minus(txs[t - 1].value, txs[t].value)
           = FeeOf(txs[t], Len(txs[t].scripts), txs[t].nulls, 0)

\* The minimum that the dry run computes is enough for the real run: no
\* output asks for more than there is (an unsigned subtraction wraps), and no
\* split fails.
MinimumBudgetSuffices ==
    mode = "real" =>
      /\ pc # "aborted"
      /\ pc = "split" => nBudget >= params.nFees
      /\ pc = "extract" => txs[Len(txs)].value <= txs[Len(txs) - 1].value

\* The loops of EmbedData and ExtractData end: every transaction takes bits
\* out of the message.
Terminates == <>(pc \in {"extracted", "aborted"})
================================================================================
