---------------------------- MODULE EmbeddingProofs ----------------------------
(***************************************************************************)
(* What Embedding keeps for every value of its constants: the types, and   *)
(* that every claim of a finished chain meets the script it reveals.  Then *)
(* that a message arrives: what ExtractData reads out of a chain of        *)
(* transactions are the slots that EmbedData wrote into it, in their order *)
(* and without a gap, from the first bit to the last; and that every       *)
(* transaction of the chain pays its fee.  For every length, budget,       *)
(* capacity and order of claims.                                           *)
(***************************************************************************)
EXTENDS Embedding, NaturalsInduction, WellFoundedInduction, SequenceTheorems, TLAPS

\* The capacities are numbers of bits.  (Stated here and not in Embedding,
\* because TLC can run through the words of a small instance only.)
ASSUME CapacityAssumption ==
    /\ \A n \in 1 .. MaxScriptHash : EmbeddableBitsInPermutation(n) \in Nat
    /\ \A b \in 0 .. Word - 1, n \in 1 .. MaxScriptHash :
          EmbeddableBitsInValues(b, n) \in Nat

--------------------------------------------------------------------------------
(* The inductive invariant. *)

EmbedPCs == {"optimize", "split", "nulldata", "script"}

\* The outputs of a are all claimed by the inputs of b, each input reveals
\* the script of the output it claims, and a reader that counts outputs sees
\* how many scripts there are.
Revealed(a, b, k) ==
    /\ a.scripts[b.vin[k].prevout] = k
    /\ b.vin[k].keys # <<>>
    /\ b.vin[k].seqNr # NoSlot

Linked(a, b) ==
    /\ Len(a.scripts) \in 1 .. MaxScriptHash
    /\ a.dests = 0
    /\ Len(a.scripts) >= 2 => a.nulls = 1
    /\ Len(b.vin) = Len(a.scripts)
    /\ \A k \in 1 .. Len(a.scripts) : Revealed(a, b, k)

\* The inputs claim outputs of the transaction before, no two the same.
Claimed(n, in) ==
    /\ Len(in) = n
    /\ \A k \in 1 .. n : in[k].prevout \in 1 .. n
    /\ \A k, m \in 1 .. n : in[k].prevout = in[m].prevout => k = m

\* EmbedData at work on cur and nxt.
Working ==
    pc \in EmbedPCs =>
      /\ txs # <<>> => Linked(txs[Len(txs)], cur)
      /\ cur.dests = 0
      /\ pc # "script" => cur.nulls = 0
      /\ nxt.scripts = <<>> /\ nxt.nulls = 0 /\ nxt.dests = 0
      /\ pc = "optimize" => left > 0

Chosen ==
    pc \in EmbedPCs \ {"optimize"} =>
      /\ params.nScriptHash \in 1 .. MaxScriptHash
      /\ params.nScriptHash >= 2 => params.nNulldata = 1
      /\ Len(cur.scripts) = params.nScriptHash
      /\ Claimed(params.nScriptHash, nxt.vin)
      /\ pc = "script" => /\ cur.nulls = params.nNulldata
                          /\ i <= params.nScriptHash + 1
                          /\ \A k \in 1 .. i - 1 : Revealed(cur, nxt, k)

\* A chain EmbedData has returned.
Finished ==
    /\ \A t \in 1 .. Len(txs) - 1 : Linked(txs[t], txs[t + 1])
    /\ pc \in {"minimum", "extract", "inputs", "extracted"} => Len(txs) >= 2
    /\ pc \in {"extract", "inputs"} => i <= Len(txs)
    /\ pc = "inputs" => i < Len(txs)

IInv == TypeOK /\ Working /\ Chosen /\ Finished

--------------------------------------------------------------------------------
(* Lemmas about the operators. *)

\* Subtraction of words stays a word.
LEMMA MinusType ==
    ASSUME NEW a \in Int, NEW b \in Int
    PROVE  Minus(a, b) \in 0 .. Word - 1
BY ConstantsAssumption, SMT DEF Minus

\* Packing takes at most what is left, and the slot lies within the message.
LEMMA PackType ==
    ASSUME len \in Nat, NEW rest \in 0 .. len, NEW size \in Nat
    PROVE  /\ Pack(rest, size) \in Slot
           /\ After(rest, size) \in 0 .. rest
BY SMT DEF Pack, After, Slot, MinOf

\* Rounding up a quotient of naturals gives a natural.
LEMMA CeilDivType ==
    ASSUME NEW a \in Nat, NEW b \in Nat \ {0}
    PROVE  CeilDiv(a, b) \in Nat
BY SMT DEF CeilDiv

\* A fee is a number of Satoshi, in a word.
LEMMA FeeType ==
    ASSUME NEW tx \in Transaction, NEW s \in Nat, NEW n \in Nat, NEW d \in Nat
    PROVE  FeeOf(tx, s, n, d) \in Nat /\ FeeOf(tx, s, n, d) \in 0 .. Word - 1
<1> DEFINE size == TxSize + tx.bytes + (s + d) * OutSize + n * NullSize
<1>1. size \in Nat
  <2>1. /\ TxSize \in Nat /\ OutSize \in Nat /\ NullSize \in Nat
        /\ tx.bytes \in Nat
    BY ConstantsAssumption DEF Transaction, Sizes
  <2>2. /\ (s + d) * OutSize \in Nat
        /\ n * NullSize \in Nat
    BY <2>1, SMT
  <2> QED
    BY <2>1, <2>2
<1>2. CeilDiv(size, FeeUnit) \in Nat
  BY <1>1, CeilDivType, ConstantsAssumption
<1>3. FeeRate * CeilDiv(size, FeeUnit) \in Nat
  BY <1>2, ConstantsAssumption, SMT
<1>4. \A f \in Nat : f % Word \in Nat /\ f % Word \in 0 .. Word - 1
  BY ConstantsAssumption, SMT
<1> QED
  BY <1>3, <1>4 DEF FeeOf

\* So is the fee of a transaction as it stands.
LEMMA TransactionFeeType ==
    ASSUME NEW tx \in Transaction
    PROVE  TransactionFee(tx) \in Nat
<1>1. Len(tx.scripts) \in Nat /\ tx.nulls \in Nat /\ tx.dests \in Nat
  BY DEF Transaction
<1> QED
  BY <1>1, FeeType DEF TransactionFee

\* A set of naturals that is not empty has a least element.
LEMMA LeastType ==
    ASSUME NEW S \in SUBSET Nat, S # {}
    PROVE  Least(S) \in S
<1>1. PICK x \in S : \A y \in S : ~ (<<y, x>> \in OpToRel(<, Nat))
  BY WFMin, NatLessThanWellFounded
<1>2. ASSUME NEW y \in S PROVE x <= y
  <2>1. x \in Nat /\ y \in Nat /\ ~ (<<y, x>> \in OpToRel(<, Nat))
    BY <1>1
  <2> QED
    BY <2>1 DEF OpToRel
<1> QED
  BY <1>1, <1>2 DEF Least

\* OptimizeParams always finds a number of scripts.
LEMMA ScriptHashesType ==
    ASSUME NEW tx, NEW rest, NEW budget
    PROVE  ScriptHashes(tx, rest, budget) \in 1 .. MaxScriptHash
<1>1. MaxScriptHash \in Nat \ {0}
  BY ConstantsAssumption
<1>2. Fitting(tx, rest, budget) \subseteq 1 .. MaxScriptHash
  BY DEF Fitting
<1>3. Fitting(tx, rest, budget) # {}
        => Least(Fitting(tx, rest, budget)) \in Fitting(tx, rest, budget)
  BY <1>2, LeastType
<1> QED
  BY <1>1, <1>2, <1>3 DEF ScriptHashes

\* There is at most one nulldata output.
LEMMA NullsType ==
    ASSUME NEW n, NEW rest
    PROVE  Nulls(n, rest) \in {0, 1}
BY DEF Nulls

\* Its result has the types of Parameters: at least one script unless no
\* bits are left, and nulldata with two scripts or more.
LEMMA OptimizeParamsType ==
    ASSUME NEW tx \in Transaction, NEW rest \in Nat, NEW budget
    PROVE  LET p == OptimizeParams(tx, rest, budget) IN
           /\ p \in [nScriptHash : 0 .. MaxScriptHash, nNulldata : {0, 1},
                     nFees : Nat]
           /\ rest > 0 => p.nScriptHash \in 1 .. MaxScriptHash
           /\ rest > 0 /\ p.nScriptHash >= 2 => p.nNulldata = 1
<1>0. MaxScriptHash \in Nat \ {0}
  BY ConstantsAssumption
<1>1. CASE rest = 0
  <2>1. TransactionFee(tx) \in Nat
    BY TransactionFeeType
  <2> QED
    BY <1>0, <1>1, <2>1 DEF OptimizeParams
<1>2. CASE rest # 0
  <2> DEFINE n == ScriptHashes(tx, rest, budget)
  <2>1. n \in 1 .. MaxScriptHash
    BY ScriptHashesType
  <2>2. Nulls(n, rest) \in {0, 1} /\ (n >= 2 => Nulls(n, rest) = 1)
    BY DEF Nulls
  <2> HIDE DEF n
  <2>3. FeeWith(tx, rest, n) \in Nat
    <3>1. n \in Nat /\ Nulls(n, rest) \in Nat
      BY <1>0, <2>1, <2>2
    <3> QED
      BY <3>1, FeeType DEF FeeWith
  <2>4. OptimizeParams(tx, rest, budget)
          = [nScriptHash |-> n, nNulldata |-> Nulls(n, rest),
             nFees |-> FeeWith(tx, rest, n)]
    BY <1>2 DEF OptimizeParams, n
  <2> QED
    BY <1>0, <2>1, <2>2, <2>3, <2>4
<1> QED
  BY <1>1, <1>2

\* An empty transaction has the type of one.
LEMMA EmptyTxType == EmptyTx \in Transaction
BY SMT DEF EmptyTx, Transaction, NoSlot, Slot

\* A transaction with n fresh inputs, and what they claim.
LEMMA WithInputsType ==
    ASSUME NEW n \in Nat
    PROVE  /\ WithInputs(n) \in Transaction
           /\ WithInputs(n).vin = [k \in 1 .. n |-> NewInput(k)]
           /\ WithInputs(n).scripts = <<>>
           /\ WithInputs(n).nulls = 0 /\ WithInputs(n).dests = 0
<1>1. n * InSize \in Nat
  BY ConstantsAssumption, SMT DEF Sizes
<1>2. \A k \in 1 .. n : NewInput(k) \in Input
  BY SMT DEF NewInput, Input, NoSlot, Slot
<1>3. [k \in 1 .. n |-> NewInput(k)] \in Seq(Input)
  BY <1>2
<1> DEFINE in == [k \in 1 .. n |-> NewInput(k)]
<1>4. WithInputs(n) = [EmptyTx EXCEPT !.vin = in, !.bytes = n * InSize]
  BY DEF WithInputs
<1> HIDE DEF in
<1>5. /\ WithInputs(n) \in Transaction
      /\ WithInputs(n).vin = in /\ WithInputs(n).scripts = EmptyTx.scripts
      /\ WithInputs(n).nulls = EmptyTx.nulls
      /\ WithInputs(n).dests = EmptyTx.dests
  BY <1>1, <1>3, <1>4, EmptyTxType DEF in, Transaction
<1> QED
  BY <1>5 DEF in, EmptyTx

\* Inputs made for an order of n outputs claim each of them once.
LEMMA ClaimedByOrder ==
    ASSUME NEW n \in Nat, NEW p \in [1 .. n -> 1 .. n],
           \A k, m \in 1 .. n : p[k] = p[m] => k = m
    PROVE  /\ [k \in 1 .. n |-> NewInput(p[k])] \in Seq(Input)
           /\ Claimed(n, [k \in 1 .. n |-> NewInput(p[k])])
<1>1. \A k \in 1 .. n : NewInput(p[k]) \in Input /\ NewInput(p[k]).prevout = p[k]
  BY SMT DEF NewInput, Input, NoSlot, Slot
<1> DEFINE in == [k \in 1 .. n |-> NewInput(p[k])]
<1>2. in \in Seq(Input)
  BY <1>1
<1>3. Len(in) = n /\ \A k \in 1 .. n : in[k].prevout = p[k]
  BY <1>1
<1> HIDE DEF in
<1>4. \A k \in 1 .. n : in[k].prevout \in 1 .. n
  BY <1>3
<1>5. ASSUME NEW k \in 1 .. n, NEW m \in 1 .. n, in[k].prevout = in[m].prevout
      PROVE  k = m
  <2>1. p[k] = p[m]
    BY <1>3, <1>5
  <2> QED
    BY <2>1
<1>6. Claimed(n, in)
  BY <1>3, <1>4, <1>5 DEF Claimed
<1> QED
  BY <1>2, <1>6 DEF in

\* Before the script loop there is nothing to reveal.
LEMMA NoScriptsRevealed ==
    ASSUME NEW n \in Nat
    PROVE  /\ [k \in 1 .. n |-> 0] \in Seq(Nat)
           /\ Len([k \in 1 .. n |-> 0]) = n
OBVIOUS

--------------------------------------------------------------------------------
(* Every step keeps the invariant: one lemma per action. *)

\* The dry run starts with an empty chain.
LEMMA InitInv == Init => IInv
<1> SUFFICES ASSUME Init PROVE IInv
  OBVIOUS
<1>1. TypeOK
  BY ConstantsAssumption, EmptyTxType DEF Init, TypeOK, PCs
<1>2. Working /\ Chosen /\ Finished
  BY ConstantsAssumption
  DEF Init, Working, Chosen, Finished, EmbedPCs, EmptyTx
<1> QED
  BY <1>1, <1>2 DEF IInv

\* Room is made for as many scripts here as inputs there.
LEMMA OptimizeInv == IInv /\ Optimize => IInv'
<1> SUFFICES ASSUME IInv, Optimize PROVE IInv'
  OBVIOUS
<1> USE DEF IInv
<1> DEFINE n == params'.nScriptHash
<1>0. MaxScriptHash \in Nat \ {0}
  BY ConstantsAssumption
<1>1. left \in Nat /\ left > 0
  BY DEF TypeOK, Working, Optimize, EmbedPCs
<1>2. /\ params' \in [nScriptHash : 0 .. MaxScriptHash, nNulldata : {0, 1},
                      nFees : Nat]
      /\ n \in 1 .. MaxScriptHash
      /\ n >= 2 => params'.nNulldata = 1
  BY <1>1, OptimizeParamsType DEF TypeOK, Optimize
<1>3. /\ cur' = [cur EXCEPT !.scripts = [k \in 1 .. n |-> 0]]
      /\ nxt' = WithInputs(n)
  BY DEF Optimize
<1> HIDE DEF n
<1>4. n \in Nat
  BY <1>0, <1>2
<1>5. /\ cur' \in Transaction /\ cur'.vin = cur.vin /\ Len(cur'.scripts) = n
      /\ cur'.nulls = cur.nulls /\ cur'.dests = cur.dests
  BY <1>3, <1>4, NoScriptsRevealed DEF TypeOK, Transaction
<1>6. /\ nxt' \in Transaction /\ nxt'.scripts = <<>> /\ nxt'.nulls = 0
      /\ nxt'.dests = 0 /\ nxt'.vin = [k \in 1 .. n |-> NewInput(k)]
  BY <1>3, <1>4, WithInputsType
<1>7. TypeOK'
  BY <1>2, <1>5, <1>6 DEF TypeOK, Optimize, PCs
<1>8. Working'
  BY <1>5, <1>6 DEF Working, Optimize, EmbedPCs, Linked, Revealed
<1>9. Claimed(n, nxt'.vin)
  <2> DEFINE id == [k \in 1 .. n |-> k]
  <2>1. id \in [1 .. n -> 1 .. n] /\ \A k, m \in 1 .. n : id[k] = id[m] => k = m
    OBVIOUS
  <2>2. nxt'.vin = [k \in 1 .. n |-> NewInput(id[k])]
    BY <1>6
  <2> HIDE DEF id
  <2> QED
    BY <1>4, <2>1, <2>2, ClaimedByOrder
<1>10. Chosen'
  BY <1>2, <1>5, <1>9 DEF Chosen, Optimize, EmbedPCs, n
<1>11. Finished'
  BY DEF Finished, Optimize
<1> QED
  BY <1>7, <1>8, <1>10, <1>11

\* A single output takes the budget; no script is set yet.
LEMMA WholeBudgetInv == IInv /\ WholeBudget => IInv'
<1> SUFFICES ASSUME IInv, WholeBudget PROVE IInv'
  OBVIOUS
<1> USE DEF IInv
<1>1. Minus(nBudget, params.nFees) \in Int
  BY MinusType, ConstantsAssumption DEF TypeOK
<1>2. /\ cur' \in Transaction /\ cur'.vin = cur.vin
      /\ cur'.scripts = cur.scripts /\ cur'.nulls = cur.nulls
      /\ cur'.dests = cur.dests
  BY <1>1 DEF WholeBudget, TypeOK, Transaction
<1>3. TypeOK'
  BY <1>2 DEF TypeOK, WholeBudget, PCs
<1>4. Working'
  BY <1>2 DEF Working, WholeBudget, EmbedPCs, Linked, Revealed
<1>5. Chosen'
  BY <1>2 DEF Chosen, WholeBudget, EmbedPCs
<1>6. Finished'
  BY DEF Finished, WholeBudget
<1> QED
  BY <1>3, <1>4, <1>5, <1>6

\* The assertion of PackDataIntoBudgetSplit ends the run.
LEMMA SplitFailsInv == IInv /\ SplitFails => IInv'
BY DEF IInv, SplitFails, TypeOK, Working, Chosen, Finished, PCs, EmbedPCs

\* The order of the inputs claims every output once.
LEMMA SplitBudgetInv == IInv /\ SplitBudget => IInv'
<1> SUFFICES ASSUME IInv, SplitBudget PROVE IInv'
  OBVIOUS
<1> USE DEF IInv
<1> DEFINE n == params.nScriptHash
           budget == nBudget - params.nFees
           funded == budget >= 0
           size == IF funded THEN EmbeddableBitsInValues(budget - n * LBound, n)
                   ELSE 0
           rest == After(left, size)
           order == EmbeddableBitsInPermutation(n)
<1>1. /\ n \in 1 .. MaxScriptHash /\ n \in Nat /\ MaxScriptHash \in Nat
      /\ nBudget \in 0 .. Word - 1 /\ params.nFees \in Nat
      /\ left \in 0 .. len /\ len \in Nat
  BY ConstantsAssumption DEF SplitBudget, Chosen, TypeOK, EmbedPCs
<1>2. size \in Nat
  <2>1. CASE funded
    <3>1. n * LBound \in Nat
      BY <1>1, ConstantsAssumption, SMT
    <3>2. budget >= n * LBound
      BY <2>1 DEF SplitBudget
    <3>3. budget - n * LBound \in 0 .. Word - 1
      <4> HIDE DEF n
      <4> DEFINE m == n * LBound
      <4> HIDE DEF m
      <4>1. m \in Nat /\ budget >= m
        BY <3>1, <3>2 DEF m
      <4>2. budget - m \in 0 .. Word - 1
        BY <4>1, <1>1, ConstantsAssumption
      <4> QED
        BY <4>2 DEF m
    <3> QED
      BY <2>1, <3>3, <1>1, CapacityAssumption
  <2>2. CASE ~ funded
    BY <2>2
  <2> QED
    BY <2>1, <2>2
<1>3. order \in Nat
  BY <1>1, CapacityAssumption
<1> HIDE DEF size, order
<1>4. /\ Pack(left, size) \in Slot /\ rest \in 0 .. len
  BY <1>1, <1>2, PackType
<1>5. Pack(rest, order) \in Slot /\ After(rest, order) \in 0 .. len
  <2> HIDE DEF rest
  <2> QED
    BY <1>1, <1>3, <1>4, PackType
<1>6. /\ cur' \in Transaction /\ cur'.vin = cur.vin
      /\ cur'.scripts = cur.scripts /\ cur'.nulls = cur.nulls
      /\ cur'.dests = cur.dests
  <2>1. budget \in Int
    BY <1>1, ConstantsAssumption
  <2>2. cur' = IF funded
               THEN [cur EXCEPT !.value = budget, !.split = Pack(left, size)]
               ELSE cur
    BY DEF SplitBudget, size
  <2> HIDE DEF budget, funded
  <2> QED
    BY <2>1, <2>2, <1>4 DEF TypeOK, Transaction
<1>7. PICK perm \in Claims(n) :
        nxt' = [nxt EXCEPT !.claim = Pack(rest, order),
                           !.vin = [k \in 1 .. n |-> NewInput(perm[k])]]
  BY DEF SplitBudget, size, order
<1>8. /\ [k \in 1 .. n |-> NewInput(perm[k])] \in Seq(Input)
      /\ Claimed(n, [k \in 1 .. n |-> NewInput(perm[k])])
  <2>1. /\ perm \in [1 .. n -> 1 .. n]
        /\ \A k, m \in 1 .. n : perm[k] = perm[m] => k = m
    BY <1>1, ClaimsAssumption
  <2> QED
    BY <1>1, <2>1, ClaimedByOrder
<1>9. /\ nxt' \in Transaction /\ nxt'.scripts = nxt.scripts
      /\ nxt'.nulls = nxt.nulls /\ nxt'.dests = nxt.dests
      /\ Claimed(n, nxt'.vin)
  <2> DEFINE in == [k \in 1 .. n |-> NewInput(perm[k])]
             slot == Pack(rest, order)
  <2>1. in \in Seq(Input) /\ Claimed(n, in) /\ slot \in Slot
    BY <1>5, <1>8
  <2>2. nxt' = [nxt EXCEPT !.claim = slot, !.vin = in]
    BY <1>7
  <2> HIDE DEF in, slot, n
  <2> QED
    BY <2>1, <2>2 DEF TypeOK, Transaction
<1>10. left' = After(rest, order)
  BY DEF SplitBudget, size, order
<1>11. TypeOK'
  BY <1>5, <1>6, <1>9, <1>10 DEF TypeOK, SplitBudget, PCs
<1>12. Working'
  BY <1>6, <1>9 DEF Working, SplitBudget, EmbedPCs, Linked, Revealed
<1>13. Chosen'
  BY <1>6, <1>9 DEF Chosen, SplitBudget, EmbedPCs
<1>14. Finished'
  BY DEF Finished, SplitBudget
<1> QED
  BY <1>11, <1>12, <1>13, <1>14

\* Nulldata goes with two scripts or more, as the reader expects.
LEMMA NulldataInv == IInv /\ Nulldata => IInv'
<1> SUFFICES ASSUME IInv, Nulldata PROVE IInv'
  OBVIOUS
<1> USE DEF IInv
<1>1. /\ Pack(left, NullBits) \in Slot
      /\ After(left, NullBits) \in 0 .. len
  <2>1. /\ len \in Nat /\ left \in 0 .. len /\ left \in Nat
        /\ NullBits \in Nat
    BY ConstantsAssumption DEF TypeOK, Bits
  <2>2. Pack(left, NullBits) \in Slot /\ After(left, NullBits) \in 0 .. left
    BY <2>1, PackType
  <2> QED
    BY <2>1, <2>2
<1>2. /\ params.nNulldata \in {0, 1} /\ cur.nulls = 0
  BY DEF TypeOK, Working, Nulldata, EmbedPCs
<1>3. /\ cur' \in Transaction /\ cur'.vin = cur.vin
      /\ cur'.scripts = cur.scripts /\ cur'.nulls = params.nNulldata
      /\ cur'.dests = cur.dests
  BY <1>1, <1>2, ZenonT(40) DEF Nulldata, TypeOK, Transaction
<1>4. TypeOK'
  BY <1>1, <1>3 DEF TypeOK, Nulldata, PCs
<1>5. Working'
  BY <1>3 DEF Working, Nulldata, EmbedPCs, Linked, Revealed
<1>6. Chosen'
  BY <1>3, ConstantsAssumption DEF Chosen, Nulldata, EmbedPCs
<1>7. Finished'
  BY DEF Finished, Nulldata
<1> QED
  BY <1>4, <1>5, <1>6, <1>7

\* The slots of the keys of one input, and what they leave of the message.
LEMMA KeysType ==
    ASSUME len \in Nat, NEW rest \in 0 .. len, NEW m \in Nat
    PROVE  /\ \A k \in 1 .. m :
                 Pack(rest - MinOf(rest, (k - 1) * KeyBits), KeyBits) \in Slot
           /\ rest - MinOf(rest, m * KeyBits) \in 0 .. rest
<1>1. KeyBits \in Nat
  BY ConstantsAssumption DEF Bits
<1>2. \A b \in Nat : rest - MinOf(rest, b) \in 0 .. rest
  BY DEF MinOf
<1>3. \A k \in Nat : k * KeyBits \in Nat
  BY <1>1, SMT
<1>4. ASSUME NEW k \in 1 .. m
      PROVE  Pack(rest - MinOf(rest, (k - 1) * KeyBits), KeyBits) \in Slot
  <2> DEFINE r == rest - MinOf(rest, (k - 1) * KeyBits)
  <2>1. r \in 0 .. len
    <3>1. k - 1 \in Nat
      OBVIOUS
    <3>2. (k - 1) * KeyBits \in Nat
      BY <3>1, <1>3
    <3>3. r \in 0 .. rest
      BY <3>2, <1>2
    <3> QED
      BY <3>3
  <2> HIDE DEF r
  <2>2. Pack(r, KeyBits) \in Slot
    BY <1>1, <2>1, PackType
  <2> QED
    BY <2>2 DEF r
<1> QED
  BY <1>2, <1>3, <1>4

\* One more script is where the input that reveals it will look for it.
LEMMA ScriptInv == IInv /\ Script => IInv'
<1> SUFFICES ASSUME IInv, Script PROVE IInv'
  OBVIOUS
<1> USE DEF IInv, ClaimedBy
<1> DEFINE rest == After(left, SuffixBits)
           extra == MinOf(MaxKeys, CeilDiv(rest, KeyBits))
           rest2 == rest - MinOf(rest, extra * KeyBits)
           slots == [k \in 1 .. extra |->
                       Pack(rest - MinOf(rest, (k - 1) * KeyBits), KeyBits)]
           keys == <<Pack(left, SuffixBits)>> \o slots
           n == nxt.vin[i].prevout
           seqNr == Pack(rest2, SeqBits)
           N == params.nScriptHash
<1>1. /\ len \in Nat /\ left \in 0 .. len /\ left \in Nat
      /\ SuffixBits \in Nat /\ KeyBits \in Nat \ {0} /\ MaxKeys \in Nat
      /\ SeqBits \in Nat \ {0}
  BY ConstantsAssumption DEF TypeOK, Bits
<1>2. Pack(left, SuffixBits) \in Slot /\ rest \in 0 .. len
  BY <1>1, PackType
<1>3. extra \in Nat
  <2> HIDE DEF rest
  <2>1. CeilDiv(rest, KeyBits) \in Nat
    BY <1>1, <1>2, CeilDivType
  <2> QED
    BY <1>1, <2>1 DEF MinOf
<1> HIDE DEF rest, extra
<1>4. /\ \A k \in 1 .. extra :
           Pack(rest - MinOf(rest, (k - 1) * KeyBits), KeyBits) \in Slot
      /\ rest2 \in 0 .. rest
  BY <1>1, <1>2, <1>3, KeysType
<1>5. slots \in Seq(Slot)
  BY <1>3, <1>4
<1> HIDE DEF slots, rest2
<1>6. keys \in Seq(Slot) /\ keys # <<>>
  BY <1>2, <1>5
<1>7. rest2 \in 0 .. len
  BY <1>1, <1>2, <1>4
<1>8. /\ seqNr \in Slot /\ After(rest2, SeqBits) \in 0 .. len
      /\ seqNr # NoSlot
  <2>1. seqNr \in Slot /\ After(rest2, SeqBits) \in 0 .. len
    BY <1>1, <1>7, PackType
  <2>2. seqNr # NoSlot
    BY <1>1 DEF Pack, NoSlot
  <2> QED
    BY <2>1, <2>2
<1>9. /\ N \in 1 .. MaxScriptHash /\ N \in Nat
      /\ i \in 1 .. N /\ Len(cur.scripts) = N /\ Len(nxt.vin) = N
      /\ cur.scripts \in Seq(Nat) /\ nxt.vin \in Seq(Input)
      /\ \A k \in 1 .. N : nxt.vin[k].prevout \in 1 .. N
      /\ \A k, m \in 1 .. N :
           nxt.vin[k].prevout = nxt.vin[m].prevout => k = m
      /\ \A k \in 1 .. i - 1 : Revealed(cur, nxt, k)
  <2>1. pc = "script" /\ i <= N
    BY DEF Script
  <2>2. /\ N \in 1 .. MaxScriptHash /\ Len(cur.scripts) = N
        /\ Claimed(N, nxt.vin)
        /\ \A k \in 1 .. i - 1 : Revealed(cur, nxt, k)
    BY <2>1 DEF Chosen, EmbedPCs
  <2>3. N \in Nat /\ i \in 1 .. N
    BY <2>1, <2>2, ConstantsAssumption DEF TypeOK
  <2>4. cur.scripts \in Seq(Nat) /\ nxt.vin \in Seq(Input)
    BY DEF TypeOK, Transaction
  <2> QED
    BY <2>2, <2>3, <2>4 DEF Claimed
<1> DEFINE in == [prevout |-> n, keys |-> keys, seqNr |-> seqNr]
<1>10. /\ cur' = [cur EXCEPT !.scripts[n] = i]
       /\ nxt' = [nxt EXCEPT !.vin[i] = in,
                             !.bytes = @ + SigSize + (extra + 1) * KeySize]
       /\ left' = After(rest2, SeqBits)
  BY DEF Script, rest, extra, rest2, slots
<1>11. n \in 1 .. N
  BY <1>9
<1>12. in \in Input
  BY <1>6, <1>8, <1>9, <1>11 DEF Input
<1>13. in.prevout = n /\ in.keys = keys /\ in.seqNr = seqNr
  OBVIOUS
<1> HIDE DEF in, keys, seqNr, N
<1>14. /\ cur' \in Transaction /\ cur'.vin = cur.vin
       /\ cur'.scripts = [cur.scripts EXCEPT ![n] = i]
       /\ Len(cur'.scripts) = N
       /\ cur'.nulls = cur.nulls /\ cur'.dests = cur.dests
  <2>1. [cur.scripts EXCEPT ![n] = i] \in Seq(Nat)
        /\ Len([cur.scripts EXCEPT ![n] = i]) = N
    BY <1>9, <1>11
  <2> QED
    BY <1>10, <2>1 DEF TypeOK, Transaction
<1>15. /\ nxt' \in Transaction /\ nxt'.scripts = nxt.scripts
       /\ nxt'.vin = [nxt.vin EXCEPT ![i] = in]
       /\ Len(nxt'.vin) = N
       /\ nxt'.nulls = nxt.nulls /\ nxt'.dests = nxt.dests
  <2>1. [nxt.vin EXCEPT ![i] = in] \in Seq(Input)
        /\ Len([nxt.vin EXCEPT ![i] = in]) = N
    BY <1>9, <1>12
  <2>2. nxt.bytes + SigSize + (extra + 1) * KeySize \in Nat
    <3>1. SigSize \in Nat /\ KeySize \in Nat /\ nxt.bytes \in Nat
      BY ConstantsAssumption DEF Sizes, TypeOK, Transaction
    <3>2. (extra + 1) * KeySize \in Nat
      BY <1>3, <3>1, SMT
    <3> QED
      BY <3>1, <3>2
  <2> QED
    BY <1>10, <2>1, <2>2 DEF TypeOK, Transaction
<1> HIDE DEF n
<1>16. \A k \in 1 .. N : nxt'.vin[k].prevout = nxt.vin[k].prevout
  BY <1>9, <1>13, <1>15 DEF n
<1>17. Claimed(N, nxt'.vin)
  BY <1>9, <1>15, <1>16 DEF Claimed
<1>18. ASSUME NEW k \in 1 .. i PROVE Revealed(cur', nxt', k)
  <2>1. CASE k = i
    <3>1. nxt'.vin[k] = in
      BY <1>9, <1>15, <2>1
    <3>2. cur'.scripts[n] = i
      BY <1>9, <1>11, <1>14
    <3> QED
      BY <1>6, <1>8, <1>13, <2>1, <3>1, <3>2 DEF Revealed
  <2>2. CASE k # i
    <3>1. k \in 1 .. i - 1 /\ k \in 1 .. N
      BY <1>9, <2>2
    <3>2. nxt'.vin[k] = nxt.vin[k]
      BY <1>9, <1>15, <2>2, <3>1
    <3>3. nxt.vin[k].prevout \in 1 .. N /\ nxt.vin[k].prevout # n
      BY <1>9, <2>2, <3>1 DEF n
    <3>4. cur'.scripts[nxt.vin[k].prevout] = cur.scripts[nxt.vin[k].prevout]
      BY <1>9, <1>11, <1>14, <3>3
    <3> QED
      BY <1>9, <3>1, <3>2, <3>4 DEF Revealed
  <2> QED
    BY <2>1, <2>2
<1>19. TypeOK'
  BY <1>8, <1>10, <1>14, <1>15, SMTT(30) DEF TypeOK, Script, PCs
<1>20. Working'
  BY <1>14, <1>15 DEF Working, Script, EmbedPCs, Linked, Revealed
<1>21. Chosen'
  <2>1. i' = i + 1 /\ params' = params /\ pc' = "script" /\ pc = "script"
    BY DEF Script
  <2>2. /\ params.nScriptHash >= 2 => params.nNulldata = 1
        /\ cur.nulls = params.nNulldata
    BY <2>1 DEF Chosen, EmbedPCs
  <2>3. i' <= N + 1 /\ \A k \in 1 .. i' - 1 : Revealed(cur', nxt', k)
    BY <1>9, <1>18, <2>1
  <2>4. N = params'.nScriptHash /\ N \in 1 .. MaxScriptHash
    BY <1>9, <2>1 DEF N
  <2> QED
    BY <1>14, <1>17, <2>1, <2>2, <2>3, <2>4 DEF Chosen
<1>22. Finished'
  BY DEF Finished, Script
<1> QED
  BY <1>19, <1>20, <1>21, <1>22

\* When the script loop is through, cur and nxt fit together.
LEMMA LinkedNow ==
    ASSUME IInv, pc = "script", i > params.nScriptHash
    PROVE  Linked(cur, nxt)
<1> USE DEF IInv
<1> DEFINE N == params.nScriptHash
<1>1. /\ N \in 1 .. MaxScriptHash /\ (N >= 2 => params.nNulldata = 1)
      /\ Len(cur.scripts) = N /\ Len(nxt.vin) = N
      /\ cur.nulls = params.nNulldata /\ i <= N + 1
      /\ \A k \in 1 .. i - 1 : Revealed(cur, nxt, k)
  BY DEF Chosen, EmbedPCs, Claimed
<1>2. cur.dests = 0
  BY DEF Working, EmbedPCs
<1>3. i - 1 = N
  BY <1>1, ConstantsAssumption DEF TypeOK
<1> HIDE DEF N
<1> QED
  BY <1>1, <1>2, <1>3 DEF Linked

\* The budget less the fees is a word.
LEMMA BudgetType ==
    ASSUME TypeOK
    PROVE  Minus(nBudget, params.nFees) \in 0 .. Word - 1
<1>1. nBudget \in Int /\ params.nFees \in Int
  BY ConstantsAssumption DEF TypeOK
<1> QED
  BY <1>1, MinusType

\* A transaction is finished when all its scripts are set.
LEMMA NextTransactionInv == IInv /\ NextTransaction => IInv'
<1> SUFFICES ASSUME IInv, NextTransaction PROVE IInv'
  OBVIOUS
<1> USE DEF IInv
<1>1. Linked(cur, nxt)
  BY LinkedNow DEF NextTransaction
<1>2. /\ txs \in Seq(Transaction) /\ cur \in Transaction /\ nxt \in Transaction
      /\ txs' = Append(txs, cur) /\ cur' = nxt /\ nxt' = EmptyTx
      /\ pc = "script" /\ pc' = "optimize"
  BY DEF NextTransaction, TypeOK
<1>3. Minus(nBudget, params.nFees) \in 0 .. Word - 1
  BY BudgetType
<1>4. /\ txs' \in Seq(Transaction) /\ Len(txs') = Len(txs) + 1
      /\ \A t \in 1 .. Len(txs) : txs'[t] = txs[t]
      /\ txs'[Len(txs) + 1] = cur
  BY <1>2
<1>5. TypeOK'
  BY <1>2, <1>3, <1>4, EmptyTxType DEF TypeOK, NextTransaction, PCs
<1>6. Working'
  <2>1. Linked(txs'[Len(txs')], cur')
    BY <1>1, <1>2, <1>4
  <2>2. nxt.nulls = 0 /\ nxt.dests = 0 /\ left > 0 /\ left' = left
    BY <1>2 DEF Working, EmbedPCs, NextTransaction
  <2> QED
    BY <1>2, <2>1, <2>2 DEF Working, EmptyTx
<1>7. Chosen'
  BY <1>2 DEF Chosen
<1>8. Finished'
  <2>1. ASSUME NEW t \in 1 .. Len(txs') - 1
        PROVE  Linked(txs'[t], txs'[t + 1])
    <3>1. CASE t = Len(txs)
      <4>1. txs # <<>> /\ t \in 1 .. Len(txs)
        BY <1>2, <3>1
      <4>2. Linked(txs[Len(txs)], cur)
        BY <1>2, <4>1 DEF Working, EmbedPCs
      <4> QED
        BY <1>4, <3>1, <4>1, <4>2
    <3>2. CASE t # Len(txs)
      <4>1. t \in 1 .. Len(txs) - 1 /\ t \in 1 .. Len(txs) /\ t + 1 \in 1 .. Len(txs)
        BY <1>2, <1>4, <3>2
      <4> QED
        BY <1>4, <4>1 DEF Finished
    <3> QED
      BY <3>1, <3>2
  <2> QED
    BY <1>2, <2>1 DEF Finished
<1> QED
  BY <1>5, <1>6, <1>7, <1>8

\* The last one claims the outputs of the one before it, too.
LEMMA RemainderInv == IInv /\ Remainder => IInv'
<1> SUFFICES ASSUME IInv, Remainder PROVE IInv'
  OBVIOUS
<1> USE DEF IInv
<1> DEFINE budget == Minus(nBudget, params.nFees)
           fees == TransactionFee(nxt)
           last == [nxt EXCEPT !.dests = 1, !.value = Minus(budget, fees)]
<1>1. Linked(cur, nxt)
  BY LinkedNow DEF Remainder
<1>2. budget \in 0 .. Word - 1 /\ budget \in Int
  BY BudgetType, ConstantsAssumption
<1>3. fees \in Nat
  BY TransactionFeeType DEF TypeOK
<1> HIDE DEF budget, fees
<1>4. Minus(budget, fees) \in Int
  BY <1>2, <1>3, MinusType, ConstantsAssumption
<1>5. last \in Transaction /\ last.vin = nxt.vin
  BY <1>4 DEF TypeOK, Transaction
<1>6. /\ txs' = txs \o <<cur, last>> /\ nBudget' = budget
      /\ params' = [nScriptHash |-> 0, nNulldata |-> 0, nFees |-> fees]
  BY DEF Remainder, budget, fees
<1> HIDE DEF last
<1>7. Linked(cur, last)
  BY <1>1, <1>5 DEF Linked, Revealed
<1>8. /\ txs \in Seq(Transaction) /\ cur \in Transaction
      /\ pc = "script" /\ pc' \in {"minimum", "extract"} /\ i' = 1
  BY DEF Remainder, TypeOK
<1>9. /\ txs' \in Seq(Transaction) /\ Len(txs') = Len(txs) + 2
      /\ \A t \in 1 .. Len(txs) : txs'[t] = txs[t]
      /\ txs'[Len(txs) + 1] = cur /\ txs'[Len(txs) + 2] = last
  BY <1>5, <1>6, <1>8
<1>10. TypeOK'
  <2>1. params' \in [nScriptHash : 0 .. MaxScriptHash, nNulldata : {0, 1},
                     nFees : Nat]
    BY <1>3, <1>6, ConstantsAssumption
  <2> QED
    BY <1>2, <1>6, <1>8, <1>9, <2>1 DEF TypeOK, Remainder, PCs
<1>11. Working' /\ Chosen'
  BY <1>8 DEF Working, Chosen, EmbedPCs
<1>12. Finished'
  <2>1. ASSUME NEW t \in 1 .. Len(txs') - 1
        PROVE  Linked(txs'[t], txs'[t + 1])
    <3>1. CASE t = Len(txs) + 1
      BY <1>7, <1>9, <3>1
    <3>2. CASE t = Len(txs)
      <4>1. txs # <<>> /\ t \in 1 .. Len(txs)
        BY <1>8, <3>2
      <4>2. Linked(txs[Len(txs)], cur)
        BY <1>8, <4>1 DEF Working, EmbedPCs
      <4> QED
        BY <1>9, <3>2, <4>1, <4>2
    <3>3. CASE t # Len(txs) + 1 /\ t # Len(txs)
      <4>1. t \in 1 .. Len(txs) - 1 /\ t \in 1 .. Len(txs) /\ t + 1 \in 1 .. Len(txs)
        BY <1>8, <1>9, <3>3
      <4> QED
        BY <1>9, <4>1 DEF Finished
    <3> QED
      BY <3>1, <3>2, <3>3
  <2> QED
    BY <1>8, <1>9, <2>1 DEF Finished
<1> QED
  BY <1>10, <1>11, <1>12

\* Summing the fees leaves the chain alone.
LEMMA AddFeeInv == IInv /\ AddFee => IInv'
<1> SUFFICES ASSUME IInv, AddFee PROVE IInv'
  OBVIOUS
<1> USE DEF IInv
<1>1. i \in 1 .. Len(txs) /\ txs \in Seq(Transaction)
  BY DEF AddFee, TypeOK
<1>2. txs[i] \in Transaction
  BY <1>1
<1>3. TransactionFee(txs[i]) \in Nat
  BY <1>2, TransactionFeeType
<1>4. TypeOK'
  BY <1>3 DEF AddFee, TypeOK
<1>5. Working' /\ Chosen' /\ Finished'
  BY DEF AddFee, Working, Chosen, Finished, EmbedPCs
<1> QED
  BY <1>4, <1>5

\* The real run starts over, with inputs and a budget.
LEMMA SelectInputsInv == IInv /\ SelectInputs => IInv'
<1> SUFFICES ASSUME IInv, SelectInputs PROVE IInv'
  OBVIOUS
<1> USE DEF IInv
<1>1. nMin' \in Nat
  BY ConstantsAssumption DEF SelectInputs, Margin, TypeOK
<1>2. PICK k \in InputCounts, extra \in Surplus :
        cur' = WithInputs(k) /\ nBudget' = (nMin' + extra) % Word
  BY DEF SelectInputs
<1>3. k \in Nat /\ extra \in Nat
  BY <1>2, ConstantsAssumption
<1>4. nBudget' \in 0 .. Word - 1
  <2>1. \A a, b \in Nat : (a + b) % Word \in 0 .. Word - 1
    BY ConstantsAssumption, SMT
  <2> QED
    BY <1>1, <1>2, <1>3, <2>1
<1>5. cur' \in Transaction /\ cur'.nulls = 0 /\ cur'.dests = 0
  BY <1>2, <1>3, WithInputsType
<1>6. /\ txs' = <<>> /\ nxt' = EmptyTx /\ left' = len /\ pc' = "optimize"
      /\ mode' = "real" /\ UNCHANGED <<len, params, i, j, read>>
  BY DEF SelectInputs
<1>7. TypeOK'
  BY <1>1, <1>4, <1>5, <1>6, EmptyTxType DEF TypeOK, PCs
<1>8. Working'
  BY <1>5, <1>6 DEF Working, TypeOK, EmptyTx
<1>9. Chosen' /\ Finished'
  BY <1>6 DEF Chosen, Finished
<1> QED
  BY <1>7, <1>8, <1>9

\* A reader that counts outputs finds the scripts of a linked transaction.
LEMMA ReaderCounts ==
    ASSUME NEW a \in Transaction, NEW b, Linked(a, b)
    PROVE  /\ nScriptHash(a) = Len(a.scripts)
           /\ nScriptHash(a) \in 1 .. MaxScriptHash
<1>1. /\ Len(a.scripts) \in Nat /\ Len(a.scripts) >= 1
      /\ a.nulls \in {0, 1} /\ a.dests = 0
      /\ Len(a.scripts) >= 2 => a.nulls = 1
  BY ConstantsAssumption DEF Linked, Transaction
<1>2. nScriptHash(a) = Len(a.scripts)
  BY <1>1 DEF nScriptHash, nNulldata, vout
<1> QED
  BY <1>2 DEF Linked

\* The transactions a turn of the reader's loop looks at.
LEMMA ReaderPair ==
    ASSUME IInv, pc \in {"extract", "inputs"}, i < Len(txs)
    PROVE  /\ txs[i] \in Transaction /\ txs[i + 1] \in Transaction
           /\ Linked(txs[i], txs[i + 1])
<1>1. /\ txs \in Seq(Transaction) /\ i \in 1 .. Len(txs)
      /\ i + 1 \in 1 .. Len(txs) /\ i \in 1 .. Len(txs) - 1
  BY DEF IInv, TypeOK
<1> QED
  BY <1>1 DEF IInv, Finished

\* The reader's indices stay within the chain and its outputs.
LEMMA ExtractOutputsInv == IInv /\ ExtractOutputs => IInv'
<1> SUFFICES ASSUME IInv, ExtractOutputs PROVE IInv'
  OBVIOUS
<1> DEFINE n == nScriptHash(txs[i])
           sum == Minus(txs[i].value, n * LBound)
           split == As(txs[i].split, EmbeddableBitsInValues(sum, n))
           claim == As(txs[i + 1].claim, EmbeddableBitsInPermutation(n))
           values == IF n >= 2 THEN <<split, claim>> ELSE <<>>
           null == IF nNulldata(txs[i]) = 1 THEN <<txs[i].nulldata>> ELSE <<>>
<1>1. /\ txs[i] \in Transaction /\ txs[i + 1] \in Transaction
      /\ Linked(txs[i], txs[i + 1])
  BY ReaderPair DEF ExtractOutputs
<1>2. n \in 1 .. MaxScriptHash /\ n \in Nat
  BY <1>1, ReaderCounts, ConstantsAssumption
<1>3. sum \in 0 .. Word - 1
  <2>1. n * LBound \in Nat
    BY <1>2, ConstantsAssumption, SMT
  <2>2. txs[i].value \in Int
    BY <1>1 DEF Transaction
  <2> HIDE DEF n
  <2>3. n * LBound \in Int
    BY <2>1
  <2> QED
    BY <2>2, <2>3, MinusType
<1> HIDE DEF n, sum
<1>4. EmbeddableBitsInValues(sum, n) \in Nat
      /\ EmbeddableBitsInPermutation(n) \in Nat
  BY <1>2, <1>3, CapacityAssumption
<1>5. split \in Slot /\ claim \in Slot /\ txs[i].nulldata \in Slot
  BY <1>1, <1>4 DEF As, Transaction, Slot
<1>6. read' = read \o values \o null
  BY DEF ExtractOutputs, SplitThenClaim, n, sum
<1> HIDE DEF split, claim
<1>7. values \in Seq(Slot) /\ null \in Seq(Slot)
  BY <1>5
<1> HIDE DEF values, null
<1>8. read' \in Seq(Slot)
  BY <1>6, <1>7 DEF IInv, TypeOK
<1>9. TypeOK'
  BY <1>8 DEF IInv, ExtractOutputs, TypeOK, PCs
<1>10. Working' /\ Chosen' /\ Finished'
  BY DEF IInv, ExtractOutputs, Working, Chosen, Finished, EmbedPCs
<1> QED
  BY <1>9, <1>10 DEF IInv

\* Every input it looks at is there and has its keys.
LEMMA ExtractInputInv == IInv /\ ExtractInput => IInv'
<1> SUFFICES ASSUME IInv, ExtractInput PROVE IInv'
  OBVIOUS
<1>0. i < Len(txs)
  BY DEF IInv, Finished, ExtractInput
<1>1. /\ txs[i] \in Transaction /\ txs[i + 1] \in Transaction
      /\ Linked(txs[i], txs[i + 1])
  BY <1>0, ReaderPair DEF ExtractInput
<1> DEFINE in == txs[i + 1].vin
<1>2. in \in Seq(Input) /\ j \in 1 .. Len(in)
  <2>1. nScriptHash(txs[i]) = Len(in)
    BY <1>1, ReaderCounts DEF Linked
  <2>2. in \in Seq(Input)
    BY <1>1 DEF Transaction
  <2> QED
    BY <2>1, <2>2 DEF ExtractInput, IInv, TypeOK
<1> HIDE DEF in
<1>3. in[j].keys \in Seq(Slot) /\ in[j].seqNr \in Slot
  <2>1. in[j] \in Input
    BY <1>2
  <2> QED
    BY <2>1 DEF Input
<1>4. read' = Append(read \o in[j].keys, in[j].seqNr)
  BY DEF ExtractInput, in
<1>5. read' \in Seq(Slot)
  BY <1>3, <1>4 DEF IInv, TypeOK
<1>6. TypeOK'
  BY <1>5 DEF IInv, ExtractInput, TypeOK, PCs
<1>7. Working' /\ Chosen' /\ Finished'
  BY DEF IInv, ExtractInput, Working, Chosen, Finished, EmbedPCs
<1> QED
  BY <1>6, <1>7 DEF IInv

\* The reader goes on to the next pair of transactions.
LEMMA ExtractNextInv == IInv /\ ExtractNext => IInv'
BY DEF IInv, ExtractNext, TypeOK, PCs, Working, Chosen, Finished, EmbedPCs

\* The reader is through.
LEMMA ReturnInv == IInv /\ Return => IInv'
BY DEF IInv, Return, TypeOK, PCs, Working, Chosen, Finished, EmbedPCs

\* Nothing happens.
LEMMA StutterInv == IInv /\ UNCHANGED vars => IInv'
BY DEF IInv, vars, TypeOK, Working, Chosen, Finished

\* All steps together.
LEMMA StepInv == IInv /\ [Next]_vars => IInv'
BY OptimizeInv, WholeBudgetInv, SplitFailsInv, SplitBudgetInv, NulldataInv,
   ScriptInv, NextTransactionInv, RemainderInv, AddFeeInv, SelectInputsInv,
   ExtractOutputsInv, ExtractInputInv, ExtractNextInv, ReturnInv, StutterInv
DEF Next, EmbedData

--------------------------------------------------------------------------------
(* Theorems. *)

\* The invariant holds of every behaviour, for every message, every number of
\* inputs and every order of claims.
THEOREM Invariance == Spec => []IInv
<1>1. Init => IInv
  BY InitInv
<1>2. IInv /\ [Next]_vars => IInv'
  BY StepInv
<1> QED
  BY <1>1, <1>2, PTL DEF Spec

\* MinimumBudget, EmbedData and ExtractData keep to their types: budgets stay
\* words, positions stay within the message, no index leaves its vector.
THEOREM TypeCorrect == Spec => []TypeOK
<1>1. IInv => TypeOK
  BY DEF IInv
<1> QED
  BY <1>1, Invariance, PTL

\* Whatever order the bits chose for the inputs, a chain that EmbedData
\* returns claims every P2SH output once, by an input that reveals the script
\* the output commits to.
THEOREM ClaimsCorrect == Spec => []ClaimsMatchScripts
<1>1. IInv => ClaimsMatchScripts
  <2> SUFFICES ASSUME IInv, pc \in {"minimum", "extract"},
                      NEW t \in 1 .. Len(txs) - 1
               PROVE  LET in == txs[t + 1].vin
                          outs == txs[t].scripts
                      IN /\ Len(in) = Len(outs)
                         /\ \A k \in DOMAIN in : outs[in[k].prevout] = k
                         /\ \A k \in DOMAIN in : /\ in[k].keys # <<>>
                                                /\ in[k].seqNr # NoSlot
    BY DEF ClaimsMatchScripts
  <2>1. Linked(txs[t], txs[t + 1])
    BY DEF IInv, Finished
  <2>2. txs[t + 1].vin \in Seq(Input)
    <3>1. txs \in Seq(Transaction) /\ t + 1 \in 1 .. Len(txs)
      BY DEF IInv, TypeOK
    <3>2. txs[t + 1] \in Transaction
      BY <3>1
    <3> QED
      BY <3>2 DEF Transaction
  <2>3. DOMAIN txs[t + 1].vin = 1 .. Len(txs[t].scripts)
    BY <2>1, <2>2 DEF Linked
  <2> QED
    BY <2>1, <2>3 DEF Linked, Revealed
<1> QED
  BY <1>1, Invariance, PTL

--------------------------------------------------------------------------------
(* Slots one after another. *)

End(s) == s.at + s.n

\* A carrier is padded only when the message is over.
Packed(l, s) == s.n <= s.size /\ (s.n < s.size => End(s) = l)

\* From bit p up to bit q of a message of l bits, q not included.
Runs(l, s, p, q) ==
    /\ \A k \in 1 .. Len(s) : Packed(l, s[k])
    /\ \A k \in 1 .. Len(s) - 1 : s[k + 1].at = End(s[k])
    /\ IF s = <<>> THEN p = q ELSE s[1].at = p /\ End(s[Len(s)]) = q

LEMMA RunsOne ==
    ASSUME NEW s \in Slot, Packed(len, s)
    PROVE  Runs(len, <<s>>, s.at, End(s))
  BY DEF Runs

LEMMA RunsJoin ==
    ASSUME NEW s \in Seq(Slot), NEW t \in Seq(Slot), NEW p, NEW q, NEW r,
           Runs(len, s, p, q), Runs(len, t, q, r)
    PROVE  Runs(len, s \o t, p, r)
<1> DEFINE u == s \o t
<1>1. CASE s = <<>>
  BY <1>1 DEF Runs
<1>2. CASE t = <<>>
  BY <1>2 DEF Runs
<1>3. CASE s # <<>> /\ t # <<>>
  <2>1. /\ Len(s) \in Nat \ {0} /\ Len(t) \in Nat \ {0} /\ Len(u) = Len(s) + Len(t) /\ u # <<>>
        /\ \A k \in 1 .. Len(s) : u[k] = s[k]
        /\ \A k \in Len(s) + 1 .. Len(u) : u[k] = t[k - Len(s)]
    BY <1>3
  <2> HIDE DEF u
  <2>2. \A k \in 1 .. Len(u) : Packed(len, u[k])
    <3>1. ASSUME NEW k \in 1 .. Len(u) PROVE Packed(len, u[k])
      <4>1. CASE k <= Len(s)
        BY <2>1, <3>1, <4>1 DEF Runs
      <4>2. CASE k > Len(s)
        <5>1. k - Len(s) \in 1 .. Len(t) /\ u[k] = t[k - Len(s)]
          BY <2>1, <4>2
        <5>2. QED
          BY <5>1 DEF Runs
      <4>3. QED
        BY <2>1, <4>1, <4>2
    <3>2. QED
      BY <3>1
  <2>3. ASSUME NEW k \in 1 .. Len(u) - 1 PROVE u[k + 1].at = End(u[k])
    <3>1. CASE k < Len(s)
      <4>1. k \in 1 .. Len(s) - 1 /\ k \in 1 .. Len(s) /\ k + 1 \in 1 .. Len(s)
        BY <2>1, <3>1
      <4>2. QED
        BY <2>1, <4>1 DEF Runs
    <3>2. CASE k = Len(s)
      <4>1. u[k] = s[Len(s)] /\ u[k + 1] = t[1]
        <5>1. k \in 1 .. Len(s) /\ k + 1 \in Len(s) + 1 .. Len(u) /\ k + 1 - Len(s) = 1
          BY <2>1, <3>2
        <5>2. QED
          BY <2>1, <3>2, <5>1
      <4>2. QED
        BY <1>3, <4>1 DEF Runs
    <3>3. CASE k > Len(s)
      <4>1. /\ k - Len(s) \in 1 .. Len(t) - 1 /\ u[k] = t[k - Len(s)]
            /\ u[k + 1] = t[(k - Len(s)) + 1]
        <5>1. k + 1 - Len(s) = (k - Len(s)) + 1
          BY <2>1
        <5>2. QED
          BY <2>1, <3>3, <5>1
      <4>2. QED
        BY <4>1 DEF Runs
    <3>4. QED
      BY <2>1, <3>1, <3>2, <3>3
  <2>4. u[1].at = p /\ End(u[Len(u)]) = r
    <3>1. u[1] = s[1] /\ u[Len(u)] = t[Len(t)]
      BY <2>1
    <3>2. QED
      BY <1>3, <3>1 DEF Runs
  <2>5. QED
    BY <2>1, <2>2, <2>3, <2>4 DEF Runs, u
<1>4. QED
  BY <1>1, <1>2, <1>3

\* Packing goes on where the message was left, and pads it only at its end.
LEMMA PackRuns ==
    ASSUME len \in Nat, NEW rest \in 0 .. len, NEW size \in Nat
    PROVE  /\ Pack(rest, size) \in Slot /\ Runs(len, <<Pack(rest, size)>>, len - rest, len - After(rest, size))
           /\ After(rest, size) \in 0 .. len
<1>1. /\ Pack(rest, size) \in Slot /\ After(rest, size) \in 0 .. rest
  BY PackType
<1>2. /\ Packed(len, Pack(rest, size)) /\ Pack(rest, size).at = len - rest
      /\ End(Pack(rest, size)) = len - After(rest, size)
  BY DEF Pack, Packed, End, After, MinOf
<1>3. Runs(len, <<Pack(rest, size)>>, len - rest, len - After(rest, size))
  BY <1>1, <1>2, RunsOne
<1>4. QED
  BY <1>1, <1>3

--------------------------------------------------------------------------------
(* The slots of an input. *)

Ins(tx, k) == Append(tx.vin[k].keys, tx.vin[k].seqNr)
Begin(tx, k) == tx.vin[k].keys[1].at
EndOf(tx, k) == End(tx.vin[k].seqNr)

\* The keys of a script take the message up, each where the one before it ends.
LEMMA KeysRun ==
    ASSUME len \in Nat, NEW rest \in 0 .. len, NEW m \in Nat
    PROVE  LET slots == [k \in 1 .. m |->
                           Pack(rest - MinOf(rest, (k - 1) * KeyBits), KeyBits)]
               rest2 == rest - MinOf(rest, m * KeyBits)
           IN  /\ slots \in Seq(Slot) /\ rest2 \in 0 .. len
               /\ Runs(len, slots, len - rest, len - rest2)
<1> DEFINE Left(k) == rest - MinOf(rest, k * KeyBits)
           slots == [k \in 1 .. m |-> Pack(Left(k - 1), KeyBits)]
<1>1. KeyBits \in Nat
  BY ConstantsAssumption DEF Bits
<1>2. \A k \in Nat : k * KeyBits \in Nat
  BY <1>1, SMT
<1>3. \A k \in Nat : Left(k) \in 0 .. rest /\ Left(k) \in 0 .. len
  BY <1>2 DEF MinOf
<1>4. Left(0) = rest
  <2>1. 0 * KeyBits = 0
    BY <1>1, SMT
  <2>2. QED
    BY <2>1 DEF MinOf
<1>5. ASSUME NEW k \in Nat PROVE After(Left(k), KeyBits) = Left(k + 1)
  <2> DEFINE b == k * KeyBits
  <2>1. b \in Nat /\ (k + 1) * KeyBits = b + KeyBits
    BY <1>1, <1>2, SMT
  <2> HIDE DEF b
  <2>2. After(rest - MinOf(rest, b), KeyBits) = rest - MinOf(rest, b + KeyBits)
    BY <1>1, <2>1 DEF After, MinOf
  <2>3. QED
    BY <2>1, <2>2 DEF b
<1>6. ASSUME NEW k \in Nat
      PROVE  /\ Pack(Left(k), KeyBits) \in Slot /\ Packed(len, Pack(Left(k), KeyBits))
             /\ Pack(Left(k), KeyBits).at = len - Left(k)
             /\ End(Pack(Left(k), KeyBits)) = len - Left(k + 1)
  <2> DEFINE l == Left(k)
  <2>1. l \in 0 .. len
    BY <1>3
  <2> HIDE DEF l
  <2>2. /\ Pack(l, KeyBits) \in Slot /\ Packed(len, Pack(l, KeyBits))
        /\ Pack(l, KeyBits).at = len - l /\ End(Pack(l, KeyBits)) = len - After(l, KeyBits)
    BY <1>1, <2>1, PackType DEF Pack, Packed, End, After, MinOf
  <2>3. QED
    BY <1>5, <2>2 DEF l
<1> HIDE DEF Left
<1>7. /\ slots \in Seq(Slot) /\ Len(slots) = m
      /\ \A k \in 1 .. m : slots[k] = Pack(Left(k - 1), KeyBits)
  <2>1. \A k \in 1 .. m : Pack(Left(k - 1), KeyBits) \in Slot
    BY <1>6
  <2>2. QED
    BY <2>1
<1> HIDE DEF slots
<1>8. Runs(len, slots, len - rest, len - Left(m))
  <2>1. \A k \in 1 .. m : Packed(len, slots[k])
    BY <1>6, <1>7
  <2>2. ASSUME NEW k \in 1 .. m - 1 PROVE slots[k + 1].at = End(slots[k])
    <3>1. k - 1 \in Nat /\ k \in Nat /\ (k - 1) + 1 = k /\ (k + 1) - 1 = k /\ k + 1 \in 1 .. m
          /\ k \in 1 .. m
      OBVIOUS
    <3>2. slots[k + 1] = Pack(Left(k), KeyBits) /\ slots[k] = Pack(Left(k - 1), KeyBits)
      BY <1>7, <3>1
    <3>3. End(Pack(Left(k - 1), KeyBits)) = len - Left((k - 1) + 1)
      BY <1>6, <3>1
    <3>4. QED
      BY <1>6, <3>1, <3>2, <3>3
  <2>3. CASE m = 0
    BY <1>4, <1>7, <2>3 DEF Runs
  <2>4. CASE m # 0
    <3>1. slots # <<>> /\ slots[1] = Pack(Left(0), KeyBits) /\ slots[m] = Pack(Left(m - 1), KeyBits)
      BY <1>7, <2>4
    <3>2. End(slots[m]) = len - Left(m)
      <4>1. m - 1 \in Nat /\ (m - 1) + 1 = m
        BY <2>4
      <4>2. End(Pack(Left(m - 1), KeyBits)) = len - Left((m - 1) + 1)
        BY <1>6, <4>1
      <4>3. QED
        BY <3>1, <4>1, <4>2
    <3>3. slots[1].at = len - rest
      BY <1>4, <1>6, <3>1
    <3>4. QED
      BY <1>7, <2>1, <2>2, <3>1, <3>2, <3>3 DEF Runs
  <2>5. QED
    BY <2>3, <2>4
<1>9. Left(m) \in 0 .. len
  BY <1>3
<1>10. QED
  BY <1>7, <1>8, <1>9 DEF slots, Left

--------------------------------------------------------------------------------
(* The invariant: what has been written, and what has been read. *)

\* What the values, the order of the claims and the nulldata output of a pair carry.
Outs(a, b, n) == IF n >= 2 THEN SplitThenClaim(a, b, n) ELSE <<>>
Null(a) == IF a.nulls = 1 THEN <<a.nulldata>> ELSE <<>>

InsRun(l, b, m) ==
    /\ \A k \in 1 .. m : Runs(l, Ins(b, k), Begin(b, k), EndOf(b, k))
    /\ \A k \in 1 .. m - 1 : Begin(b, k + 1) = EndOf(b, k)

\* A pair of transactions, of which the first one carries from bit p on.
PairRuns(l, a, b, p) ==
    /\ Runs(l, Outs(a, b, Len(a.scripts)) \o Null(a), p, Begin(b, 1))
    /\ InsRun(l, b, Len(a.scripts))

\* Where transaction t begins, and where the current one does.
Stop(tx) == EndOf(tx, Len(tx.vin))
From(t) == IF t = 1 THEN 0 ELSE Stop(txs[t])
Here == IF txs = <<>> THEN 0 ELSE Stop(cur)

TxsRun == \A t \in 1 .. Len(txs) - 1 : PairRuns(len, txs[t], txs[t + 1], From(t))

\* Outputs have no value until there is money for them.
Unset ==
    pc \in EmbedPCs =>
      /\ pc \in {"optimize", "split"} => cur.value = -1
      /\ nxt.value = -1

Written ==
    pc \in EmbedPCs /\ Valued =>
      /\ TxsRun
      /\ txs # <<>> => PairRuns(len, txs[Len(txs)], cur, From(Len(txs)))
      /\ pc \in {"optimize", "split"} => Here = len - left
      /\ pc = "nulldata" /\ cur.value # -1 =>
           Runs(len, Outs(cur, nxt, params.nScriptHash), Here, len - left)
      /\ pc = "script" /\ cur.value # -1 =>
           /\ Runs(len, Outs(cur, nxt, params.nScriptHash) \o Null(cur), Here,
                   IF i = 1 THEN len - left ELSE Begin(nxt, 1))
           /\ InsRun(len, nxt, i - 1)
           /\ i > 1 => EndOf(nxt, i - 1) = len - left

Embedded ==
    pc \in {"minimum", "extract", "inputs", "extracted"} /\ Valued =>
      TxsRun /\ From(Len(txs)) = len

Reading ==
    /\ pc \notin {"extract", "inputs", "extracted"} => read = <<>>
    /\ pc = "inputs" => j <= Len(txs[i].scripts) + 1
    /\ Valued =>
         /\ pc = "extract" => Runs(len, read, 0, From(i))
         /\ pc = "inputs" =>
              Runs(len, read, 0, IF j = 1 THEN Begin(txs[i + 1], 1) ELSE EndOf(txs[i + 1], j - 1))
         /\ pc = "extracted" => Runs(len, read, 0, len)

ArrivalInv == Unset /\ Written /\ Embedded /\ Reading

\* It says what is to be shown.
LEMMA ArrivalInvTells == ASSUME TypeOK, ArrivalInv PROVE ReadsInOrder /\ WholeRead
<1>1. /\ read \in Seq(Slot) /\ len # 0
  BY DEF TypeOK
<1>2. read = <<>> \/ ~ Valued \/ \E q : Runs(len, read, 0, q)
  BY DEF ArrivalInv, Reading, TypeOK, PCs
<1>3. ReadsInOrder
  <2>1. SUFFICES ASSUME Valued, NEW k \in DOMAIN read
                 PROVE  /\ k < Len(read) => read[k + 1].at = read[k].at + read[k].n
                        /\ read[k].n < read[k].size => read[k].at + read[k].n = len
    BY DEF ReadsInOrder
  <2>2. PICK q : Runs(len, read, 0, q)
    BY <1>2, <2>1
  <2>3. k \in 1 .. Len(read) /\ Len(read) \in Nat
    BY <1>1
  <2>4. k < Len(read) => k \in 1 .. Len(read) - 1
    BY <2>3
  <2>5. QED
    BY <2>2, <2>3, <2>4 DEF Runs, Packed, End
<1>4. WholeRead
  BY <1>1 DEF ArrivalInv, Reading, WholeRead, Runs, End
<1>5. QED
  BY <1>3, <1>4

--------------------------------------------------------------------------------
(* Every step keeps it: one lemma per action. *)

\* Words.
LEMMA SmallWord ==
    ASSUME NEW x \in 0 .. Word - 1
    PROVE  x % Word = x
  BY ConstantsAssumption, SMT

\* What a pair carries are slots.
LEMMA OutsType ==
    ASSUME NEW a \in Transaction, NEW b \in Transaction, NEW n \in 1 .. MaxScriptHash
    PROVE  Outs(a, b, n) \in Seq(Slot) /\ Null(a) \in Seq(Slot)
<1> DEFINE sum == Minus(a.value, n * LBound)
           split == As(a.split, EmbeddableBitsInValues(sum, n))
           claim == As(b.claim, EmbeddableBitsInPermutation(n))
<1>1. sum \in 0 .. Word - 1
  <2>1. n * LBound \in Int /\ a.value \in Int
    BY ConstantsAssumption, SMT DEF Transaction
  <2>2. QED
    BY <2>1, MinusType
<1> HIDE DEF sum
<1>2. split \in Slot /\ claim \in Slot /\ a.nulldata \in Slot
  BY <1>1, CapacityAssumption DEF As, Transaction, Slot
<1> HIDE DEF split, claim
<1>3. Outs(a, b, n) \in {<<>>, <<split, claim>>} /\ Null(a) \in {<<>>, <<a.nulldata>>}
  BY DEF Outs, Null, SplitThenClaim, split, claim, sum
<1>4. <<split, claim>> \in Seq(Slot) /\ <<a.nulldata>> \in Seq(Slot) /\ <<>> \in Seq(Slot)
  BY <1>2
<1>5. QED
  BY <1>3, <1>4

\* Nothing is written at first.
LEMMA InitArrival == ASSUME Init PROVE ArrivalInv
<1>1. Len(txs) = 0 /\ read = <<>> /\ len - left = 0
  BY ConstantsAssumption DEF Init
<1>2. Unset /\ Reading /\ Embedded
  BY DEF Init, Unset, Reading, Embedded, EmptyTx
<1>3. Written
  BY <1>1 DEF Init, Written, TxsRun, Here
<1>4. QED
  BY <1>2, <1>3 DEF ArrivalInv

\* The same pairs run as long as the parts that carry bits are the same.
LEMMA PairStays ==
    ASSUME NEW a, NEW b, NEW c, NEW d, NEW p, PairRuns(len, a, b, p),
           Len(c.scripts) = Len(a.scripts), c.value = a.value, c.split = a.split,
           c.nulls = a.nulls, c.nulldata = a.nulldata, d.claim = b.claim, d.vin = b.vin
    PROVE  PairRuns(len, c, d, p)
  BY DEF PairRuns, Outs, Null, SplitThenClaim, InsRun, Ins, Begin, EndOf

\* The parts of the transactions that are finished stay as they are.
TxsStay == UNCHANGED <<len, txs>> /\ cur'.vin = cur.vin /\ cur'.claim = cur.claim

LEMMA BeforeStays ==
    ASSUME TypeOK, TxsStay
    PROVE  /\ Valued' = Valued /\ Here' = Here /\ (TxsRun => TxsRun')
           /\ txs # <<>> /\ PairRuns(len, txs[Len(txs)], cur, From(Len(txs)))
                => PairRuns(len, txs[Len(txs)], cur, From(Len(txs)))'
<1>1. \A t : From(t)' = From(t)
  BY DEF From, TxsStay
<1>2. Valued' = Valued /\ Here' = Here
  <2>1. Valued' = Valued
    BY DEF Valued, TxsStay
  <2>2. Stop(cur') = Stop(cur)
    BY DEF Stop, EndOf, TxsStay
  <2>3. QED
    BY <2>1, <2>2 DEF Here, TxsStay
<1>3. TxsRun => TxsRun'
  BY <1>1 DEF TxsRun, TxsStay
<1>4. ASSUME txs # <<>>, PairRuns(len, txs[Len(txs)], cur, From(Len(txs)))
      PROVE  PairRuns(len, txs[Len(txs)], cur, From(Len(txs)))'
  <2> DEFINE a == txs[Len(txs)]
             p == From(Len(txs))
  <2>1. PairRuns(len, a, cur', p)
    BY <1>4, PairStays DEF TxsStay
  <2>2. txs' = txs /\ len' = len /\ From(Len(txs))' = From(Len(txs))
    BY <1>1 DEF TxsStay
  <2>3. QED
    BY <2>1, <2>2
<1>5. QED
  BY <1>2, <1>3, <1>4

\* The loop's head writes nothing.
LEMMA OptimizeArrival == ASSUME IInv, ArrivalInv, Optimize PROVE ArrivalInv'
<1>1. /\ pc = "optimize" /\ pc' = "split" /\ TypeOK /\ UNCHANGED <<len, txs, left, read>>
      /\ nxt' = WithInputs(params'.nScriptHash)
      /\ \E z : cur' = [cur EXCEPT !.scripts = z]
  BY DEF Optimize, IInv
<1>2. cur'.vin = cur.vin /\ cur'.claim = cur.claim /\ cur'.value = cur.value
  BY <1>1 DEF TypeOK, Transaction
<1>3. nxt'.value = -1
  BY <1>1 DEF WithInputs, EmptyTx
<1>4. TxsStay
  BY <1>1, <1>2 DEF TxsStay
<1>5. Written'
  BY <1>1, <1>4, BeforeStays DEF ArrivalInv, Written, EmbedPCs
<1>6. Unset' /\ Embedded' /\ Reading'
  BY <1>1, <1>2, <1>3 DEF ArrivalInv, Unset, Embedded, Reading, EmbedPCs
<1>7. QED
  BY <1>5, <1>6 DEF ArrivalInv

\* A single output carries nothing in its value.
LEMMA WholeBudgetArrival == ASSUME IInv, ArrivalInv, WholeBudget PROVE ArrivalInv'
<1>1. /\ pc = "split" /\ pc' = "nulldata" /\ TypeOK /\ params.nScriptHash = 1
      /\ UNCHANGED <<len, txs, left, read, nxt, params>>
      /\ \E z : cur' = [cur EXCEPT !.value = z]
  BY DEF WholeBudget, IInv
<1>2. cur'.vin = cur.vin /\ cur'.claim = cur.claim
  BY <1>1 DEF TypeOK, Transaction
<1>3. TxsStay
  BY <1>1, <1>2 DEF TxsStay
<1>4. Written'
  <2>1. Outs(cur', nxt', params'.nScriptHash) = <<>>
    BY <1>1 DEF Outs
  <2>2. Valued => Here = len - left
    BY <1>1 DEF ArrivalInv, Written, EmbedPCs
  <2>3. Valued => Runs(len, <<>>, Here, len - left)
    BY <2>2 DEF Runs
  <2>4. QED
    BY <1>1, <1>3, <2>1, <2>3, BeforeStays DEF ArrivalInv, Written, EmbedPCs
<1>5. Unset' /\ Embedded' /\ Reading'
  BY <1>1 DEF ArrivalInv, Unset, Embedded, Reading, EmbedPCs
<1>6. QED
  BY <1>4, <1>5 DEF ArrivalInv

LEMMA SplitFailsArrival == ASSUME IInv, ArrivalInv, SplitFails PROVE ArrivalInv'
  BY DEF SplitFails, ArrivalInv, Unset, Written, Embedded, Reading, EmbedPCs

\* The reader takes a slot for what it is when it knows its size.
LEMMA AsItIs ==
    ASSUME NEW rest, NEW size
    PROVE  As(Pack(rest, size), size) = Pack(rest, size)
  BY DEF As, Pack

\* Where there is money, the values carry what the reader will make of them, and then the
\* order of the claims does.
LEMMA SplitBudgetArrival == ASSUME IInv, ArrivalInv, SplitBudget PROVE ArrivalInv'
<1> DEFINE n == params.nScriptHash
           m == n * LBound
           budget == nBudget - params.nFees
           funded == budget >= 0
           size == IF funded THEN EmbeddableBitsInValues(budget - m, n) ELSE 0
           rest == After(left, size)
           order == EmbeddableBitsInPermutation(n)
<1>1. /\ pc = "split" /\ pc' = "nulldata" /\ TypeOK /\ n >= 2
      /\ UNCHANGED <<len, txs, read, params, nBudget>> /\ left' = After(rest, order)
      /\ funded => budget >= m
      /\ cur' = IF funded THEN [cur EXCEPT !.value = budget, !.split = Pack(left, size)] ELSE cur
      /\ \E z : nxt' = [nxt EXCEPT !.claim = Pack(rest, order), !.vin = z]
  BY DEF SplitBudget, IInv
<1>2. /\ n \in 1 .. MaxScriptHash /\ n \in Nat /\ nBudget \in 0 .. Word - 1 /\ params.nFees \in Nat
      /\ left \in 0 .. len /\ len \in Nat /\ cur \in Transaction /\ nxt \in Transaction
  BY <1>1, ConstantsAssumption DEF IInv, Chosen, TypeOK, EmbedPCs
<1>3. m \in Nat
  BY <1>2, ConstantsAssumption, SMT
<1> HIDE DEF m, n
<1>4. funded => budget - m \in 0 .. Word - 1 /\ Minus(budget, m) = budget - m
  <2>1. funded => budget - m \in 0 .. Word - 1
    BY <1>1, <1>2, <1>3, ConstantsAssumption
  <2>2. QED
    BY <2>1, SmallWord DEF Minus
<1>5. size \in Nat /\ order \in Nat
  BY <1>2, <1>4, CapacityAssumption
<1> HIDE DEF size, order
<1>6. /\ Pack(left, size) \in Slot /\ rest \in 0 .. len
      /\ Runs(len, <<Pack(left, size)>>, len - left, len - rest)
  BY <1>2, <1>5, PackRuns
<1> HIDE DEF rest
<1>7. /\ Pack(rest, order) \in Slot
      /\ Runs(len, <<Pack(rest, order)>>, len - rest, len - left')
  BY <1>1, <1>2, <1>5, <1>6, PackRuns
<1>8. cur'.vin = cur.vin /\ cur'.claim = cur.claim
  BY <1>1, <1>2 DEF Transaction
<1>9. TxsStay
  BY <1>1, <1>8 DEF TxsStay
<1>10. nxt'.claim = Pack(rest, order) /\ nxt'.value = nxt.value
  BY <1>1, <1>2 DEF Transaction
<1>11. CASE funded
  <2>1. cur'.value = budget /\ cur'.split = Pack(left, size)
    <3>1. cur' = [cur EXCEPT !.value = budget, !.split = Pack(left, size)]
      BY <1>1, <1>11
    <3>2. QED
      BY <1>2, <3>1 DEF Transaction
  <2>2. SplitThenClaim(cur', nxt', n) = <<Pack(left, size), Pack(rest, order)>>
    <3>1. /\ As(cur'.split, EmbeddableBitsInValues(Minus(cur'.value, m), n)) = Pack(left, size)
      BY <1>4, <1>11, <2>1, AsItIs DEF size
    <3>2. As(nxt'.claim, EmbeddableBitsInPermutation(n)) = Pack(rest, order)
      BY <1>10, AsItIs DEF order
    <3>3. QED
      BY <3>1, <3>2 DEF SplitThenClaim, m
  <2>3. Runs(len, Outs(cur', nxt', n), len - left, len - left')
    <3>1. Outs(cur', nxt', n) = <<Pack(left, size)>> \o <<Pack(rest, order)>>
      BY <1>1, <2>2 DEF Outs, n
    <3>2. <<Pack(left, size)>> \in Seq(Slot) /\ <<Pack(rest, order)>> \in Seq(Slot)
      BY <1>6, <1>7
    <3>3. QED
      BY <1>6, <1>7, <3>1, <3>2, RunsJoin
  <2>4. Valued => Here = len - left
    BY <1>1 DEF ArrivalInv, Written, EmbedPCs
  <2>5. Written'
    BY <1>1, <1>9, <2>3, <2>4, BeforeStays DEF ArrivalInv, Written, EmbedPCs, n
  <2>6. Unset' /\ Embedded' /\ Reading'
    BY <1>1, <1>10 DEF ArrivalInv, Unset, Embedded, Reading, EmbedPCs
  <2>7. QED
    BY <2>5, <2>6 DEF ArrivalInv
<1>12. CASE ~ funded
  <2>1. cur'.value = -1
    BY <1>1, <1>12 DEF ArrivalInv, Unset, EmbedPCs
  <2>2. Written'
    BY <1>1, <1>9, <2>1, BeforeStays DEF ArrivalInv, Written, EmbedPCs
  <2>3. Unset' /\ Embedded' /\ Reading'
    BY <1>1, <1>10 DEF ArrivalInv, Unset, Embedded, Reading, EmbedPCs
  <2>4. QED
    BY <2>2, <2>3 DEF ArrivalInv
<1>13. QED
  BY <1>11, <1>12

\* The nulldata output, if there is one, comes next.
LEMMA NulldataArrival == ASSUME IInv, ArrivalInv, Nulldata PROVE ArrivalInv'
<1> DEFINE n == params.nScriptHash
           slot == Pack(left, NullBits)
<1>1. /\ pc = "nulldata" /\ pc' = "script" /\ TypeOK /\ i' = 1
      /\ UNCHANGED <<len, txs, nxt, read, params>>
      /\ params.nNulldata = 1 => /\ cur' = [cur EXCEPT !.nulls = 1, !.nulldata = slot]
                                 /\ left' = After(left, NullBits)
      /\ params.nNulldata # 1 => cur' = cur /\ left' = left
  BY DEF Nulldata, IInv
<1>2. /\ n \in 1 .. MaxScriptHash /\ left \in 0 .. len /\ len \in Nat /\ NullBits \in Nat
      /\ cur \in Transaction /\ nxt \in Transaction /\ cur.nulls = 0
  BY <1>1, ConstantsAssumption DEF IInv, Chosen, Working, TypeOK, EmbedPCs, Bits
<1>3. /\ cur'.vin = cur.vin /\ cur'.claim = cur.claim /\ cur'.value = cur.value
      /\ cur'.split = cur.split
  BY <1>1, <1>2 DEF Transaction
<1>4. TxsStay
  BY <1>1, <1>3 DEF TxsStay
<1>5. slot \in Slot /\ Runs(len, <<slot>>, len - left, len - After(left, NullBits))
  BY <1>2, PackRuns
<1> HIDE DEF slot, n
<1>6. Outs(cur', nxt', n) = Outs(cur, nxt, n) /\ Outs(cur, nxt, n) \in Seq(Slot)
  BY <1>1, <1>2, <1>3, OutsType DEF Outs, SplitThenClaim
<1>7. ASSUME Valued, cur.value # -1
      PROVE  Runs(len, Outs(cur', nxt', n) \o Null(cur'), Here, len - left')
  <2>1. Runs(len, Outs(cur, nxt, n), Here, len - left)
    BY <1>1, <1>7 DEF ArrivalInv, Written, EmbedPCs, n
  <2>2. CASE params.nNulldata = 1
    <3>1. Null(cur') = <<slot>>
      BY <1>1, <1>2, <2>2 DEF Null, Transaction
    <3>2. <<slot>> \in Seq(Slot)
      BY <1>5
    <3>3. QED
      BY <1>1, <1>5, <1>6, <2>1, <2>2, <3>1, <3>2, RunsJoin
  <2>3. CASE params.nNulldata # 1
    <3>1. Null(cur') = <<>>
      BY <1>1, <1>2, <2>3 DEF Null
    <3>2. QED
      BY <1>1, <1>6, <2>1, <2>3, <3>1
  <2>4. QED
    BY <2>2, <2>3
<1>8. i' = 1 /\ InsRun(len', nxt', i' - 1)
  BY <1>1 DEF InsRun
<1>9. Written'
  <2>1. /\ Valued' = Valued /\ Here' = Here /\ (TxsRun => TxsRun')
        /\ txs # <<>> /\ PairRuns(len, txs[Len(txs)], cur, From(Len(txs)))
              => PairRuns(len, txs[Len(txs)], cur, From(Len(txs)))'
    BY <1>1, <1>4, BeforeStays
  <2>2. SUFFICES ASSUME Valued' PROVE Written'
    BY DEF Written
  <2>3. TxsRun /\ (txs # <<>> => PairRuns(len, txs[Len(txs)], cur, From(Len(txs))))
    BY <1>1, <2>1, <2>2 DEF ArrivalInv, Written, EmbedPCs
  <2>4. cur'.value # -1 =>
          Runs(len', Outs(cur', nxt', params'.nScriptHash) \o Null(cur'), Here', len' - left')
    BY <1>1, <1>3, <1>7, <2>1, <2>2 DEF n
  <2>5. QED
    BY <1>1, <1>8, <2>1, <2>3, <2>4 DEF Written
<1>10. Unset' /\ Embedded' /\ Reading'
  BY <1>1 DEF ArrivalInv, Unset, Embedded, Reading, EmbedPCs
<1>11. QED
  BY <1>9, <1>10 DEF ArrivalInv

\* A script and its sequence number take up what comes next, and the inputs before are
\* as they were.
LEMMA ScriptWrites ==
    ASSUME IInv, Script
    PROVE  /\ i \in 1 .. params.nScriptHash /\ len \in Nat /\ left \in 0 .. len /\ left' \in 0 .. len
           /\ Runs(len, Ins(nxt', i), len - left, len - left')
           /\ Begin(nxt', i) = len - left /\ EndOf(nxt', i) = len - left'
           /\ \A k \in 1 .. i - 1 : nxt'.vin[k] = nxt.vin[k]
           /\ nxt'.claim = nxt.claim /\ nxt'.value = nxt.value
           /\ cur'.vin = cur.vin /\ cur'.claim = cur.claim /\ cur'.value = cur.value
           /\ cur'.split = cur.split /\ cur'.nulls = cur.nulls /\ cur'.nulldata = cur.nulldata
<1> DEFINE rest == After(left, SuffixBits)
           extra == MinOf(MaxKeys, CeilDiv(rest, KeyBits))
           rest2 == rest - MinOf(rest, extra * KeyBits)
           slots == [k \in 1 .. extra |->
                       Pack(rest - MinOf(rest, (k - 1) * KeyBits), KeyBits)]
           first == Pack(left, SuffixBits)
           keys == <<first>> \o slots
           last == Pack(rest2, SeqBits)
           n == nxt.vin[i].prevout
           in == [prevout |-> n, keys |-> keys, seqNr |-> last]
<1>1. /\ pc = "script" /\ i <= params.nScriptHash /\ TypeOK
      /\ \E z : cur' = [cur EXCEPT !.scripts = z]
      /\ \E z : nxt' = [nxt EXCEPT !.vin[i] = in, !.bytes = z]
      /\ left' = After(rest2, SeqBits)
  BY DEF Script, IInv, ClaimedBy
<1>2. /\ i \in 1 .. params.nScriptHash /\ nxt.vin \in Seq(Input) /\ Len(nxt.vin) = params.nScriptHash
      /\ len \in Nat /\ left \in 0 .. len /\ cur \in Transaction /\ nxt \in Transaction
      /\ SuffixBits \in Nat /\ KeyBits \in Nat \ {0} /\ MaxKeys \in Nat /\ SeqBits \in Nat
  <2>1. Len(nxt.vin) = params.nScriptHash /\ params.nScriptHash \in 1 .. MaxScriptHash
    BY <1>1 DEF IInv, Chosen, Claimed, EmbedPCs
  <2>2. /\ len \in Nat /\ left \in 0 .. len /\ cur \in Transaction /\ nxt \in Transaction
        /\ i \in Nat \ {0}
    BY <1>1 DEF TypeOK
  <2>3. i \in 1 .. params.nScriptHash
    BY <1>1, <2>1, <2>2, ConstantsAssumption
  <2>4. nxt.vin \in Seq(Input)
    BY <2>2 DEF Transaction
  <2>5. SuffixBits \in Nat /\ KeyBits \in Nat \ {0} /\ MaxKeys \in Nat /\ SeqBits \in Nat
    BY ConstantsAssumption DEF Bits
  <2>6. QED
    BY <2>1, <2>2, <2>3, <2>4, <2>5
<1>3. first \in Slot /\ rest \in 0 .. len /\ Runs(len, <<first>>, len - left, len - rest)
  BY <1>2, PackRuns
<1>4. extra \in Nat
  <2> HIDE DEF rest
  <2>1. rest \in Nat /\ KeyBits \in Nat \ {0} /\ MaxKeys \in Nat
    BY <1>2, <1>3
  <2>2. CeilDiv(rest, KeyBits) \in Nat
    BY <2>1, CeilDivType
  <2>3. QED
    BY <2>1, <2>2 DEF MinOf
<1> HIDE DEF rest, extra
<1>5. slots \in Seq(Slot) /\ rest2 \in 0 .. len /\ Runs(len, slots, len - rest, len - rest2)
  BY <1>2, <1>3, <1>4, KeysRun
<1> HIDE DEF slots, rest2
<1>6. last \in Slot /\ Runs(len, <<last>>, len - rest2, len - left') /\ left' \in 0 .. len
  BY <1>1, <1>2, <1>5, PackRuns
<1> HIDE DEF first, last
<1>7. keys \in Seq(Slot) /\ keys # <<>> /\ keys[1] = first /\ Runs(len, keys, len - left, len - rest2)
  <2>1. <<first>> \in Seq(Slot)
    BY <1>3
  <2>2. Runs(len, <<first>> \o slots, len - left, len - rest2)
    BY <1>3, <1>5, <2>1, RunsJoin
  <2>3. QED
    BY <1>3, <1>5, <2>2
<1> HIDE DEF keys
<1>8. Runs(len, Append(keys, last), len - left, len - left')
  <2>1. <<last>> \in Seq(Slot) /\ Append(keys, last) = keys \o <<last>>
    BY <1>6, <1>7
  <2>2. QED
    BY <1>6, <1>7, <2>1, RunsJoin
<1>9. keys[1].at = len - left /\ End(last) = len - left'
  BY <1>6, <1>7 DEF Runs
<1>10. /\ nxt'.vin = [nxt.vin EXCEPT ![i] = in] /\ nxt'.claim = nxt.claim /\ nxt'.value = nxt.value
  BY <1>1, <1>2 DEF Transaction
<1>11. nxt'.vin[i].keys = keys /\ nxt'.vin[i].seqNr = last
       /\ \A k \in 1 .. i - 1 : nxt'.vin[k] = nxt.vin[k]
  BY <1>2, <1>10
<1>12. /\ cur'.vin = cur.vin /\ cur'.claim = cur.claim /\ cur'.value = cur.value
       /\ cur'.split = cur.split /\ cur'.nulls = cur.nulls /\ cur'.nulldata = cur.nulldata
  BY <1>1, <1>2 DEF Transaction
<1>13. QED
  BY <1>2, <1>6, <1>8, <1>9, <1>10, <1>11, <1>12 DEF Ins, Begin, EndOf

LEMMA ScriptArrival == ASSUME IInv, ArrivalInv, Script PROVE ArrivalInv'
<1> DEFINE n == params.nScriptHash
           p == IF i = 1 THEN len - left ELSE Begin(nxt, 1)
<1>1. /\ pc = "script" /\ pc' = "script" /\ TypeOK /\ i' = i + 1
      /\ UNCHANGED <<len, txs, read, params>>
  BY DEF Script, IInv
<1>2. /\ i \in 1 .. n /\ left \in 0 .. len /\ left' \in 0 .. len /\ len \in Nat
      /\ Runs(len, Ins(nxt', i), len - left, len - left')
      /\ Begin(nxt', i) = len - left /\ EndOf(nxt', i) = len - left'
      /\ \A k \in 1 .. i - 1 : nxt'.vin[k] = nxt.vin[k]
      /\ nxt'.claim = nxt.claim /\ nxt'.value = nxt.value
      /\ cur'.vin = cur.vin /\ cur'.claim = cur.claim /\ cur'.value = cur.value
      /\ cur'.split = cur.split /\ cur'.nulls = cur.nulls /\ cur'.nulldata = cur.nulldata
  BY ScriptWrites
<1>3. TxsStay
  BY <1>1, <1>2 DEF TxsStay
<1>4. Outs(cur', nxt', n) = Outs(cur, nxt, n) /\ Null(cur') = Null(cur)
  BY <1>2 DEF Outs, Null, SplitThenClaim
<1>5. \A k \in 1 .. i - 1 : /\ Ins(nxt', k) = Ins(nxt, k) /\ Begin(nxt', k) = Begin(nxt, k)
                           /\ EndOf(nxt', k) = EndOf(nxt, k)
  BY <1>2 DEF Ins, Begin, EndOf
<1> HIDE DEF n
<1>6. ASSUME Valued, cur.value # -1
      PROVE  /\ Runs(len, Outs(cur', nxt', n) \o Null(cur'), Here, Begin(nxt', 1))
             /\ InsRun(len, nxt', i)
  <2>1. /\ Runs(len, Outs(cur, nxt, n) \o Null(cur), Here, p)
        /\ InsRun(len, nxt, i - 1)
        /\ i > 1 => EndOf(nxt, i - 1) = len - left
    BY <1>1, <1>6 DEF ArrivalInv, Written, EmbedPCs, n
  <2>2. p = Begin(nxt', 1)
    <3>1. CASE i = 1
      BY <1>2, <3>1
    <3>2. CASE i # 1
      <4>1. 1 \in 1 .. i - 1
        BY <1>2, <3>2
      <4>2. QED
        BY <1>5, <3>2, <4>1
    <3>3. QED
      BY <3>1, <3>2
  <2>3. \A k \in 1 .. i : Runs(len, Ins(nxt', k), Begin(nxt', k), EndOf(nxt', k))
    <3>1. ASSUME NEW k \in 1 .. i PROVE Runs(len, Ins(nxt', k), Begin(nxt', k), EndOf(nxt', k))
      <4>1. CASE k = i
        BY <1>2, <4>1
      <4>2. CASE k # i
        <5>1. k \in 1 .. i - 1
          BY <1>2, <4>2
        <5>2. Runs(len, Ins(nxt, k), Begin(nxt, k), EndOf(nxt, k))
          BY <2>1, <5>1 DEF InsRun
        <5>3. QED
          BY <1>5, <5>1, <5>2
      <4>3. QED
        BY <4>1, <4>2
    <3>2. QED
      BY <3>1
  <2>4. \A k \in 1 .. i - 1 : Begin(nxt', k + 1) = EndOf(nxt', k)
    <3>1. ASSUME NEW k \in 1 .. i - 1 PROVE Begin(nxt', k + 1) = EndOf(nxt', k)
      <4>1. CASE k = i - 1
        <5>1. k + 1 = i /\ i > 1
          BY <1>2, <4>1
        <5>2. QED
          BY <1>2, <1>5, <2>1, <4>1, <5>1
      <4>2. CASE k # i - 1
        <5>1. k \in 1 .. (i - 1) - 1 /\ k + 1 \in 1 .. i - 1
          BY <1>2, <4>2
        <5>2. Begin(nxt, k + 1) = EndOf(nxt, k)
          BY <2>1, <5>1 DEF InsRun
        <5>3. QED
          BY <1>5, <5>1, <5>2
      <4>3. QED
        BY <4>1, <4>2
    <3>2. QED
      BY <3>1
  <2>5. QED
    BY <1>4, <2>1, <2>2, <2>3, <2>4 DEF InsRun
<1>7. Written'
  <2>1. /\ Valued' = Valued /\ Here' = Here /\ (TxsRun => TxsRun')
        /\ txs # <<>> /\ PairRuns(len, txs[Len(txs)], cur, From(Len(txs)))
              => PairRuns(len, txs[Len(txs)], cur, From(Len(txs)))'
    BY <1>1, <1>3, BeforeStays
  <2>2. SUFFICES ASSUME Valued' PROVE Written'
    BY DEF Written
  <2>3. TxsRun /\ (txs # <<>> => PairRuns(len, txs[Len(txs)], cur, From(Len(txs))))
    BY <1>1, <2>1, <2>2 DEF ArrivalInv, Written, EmbedPCs
  <2>4. i' > 1 /\ i' # 1 /\ i' - 1 = i
    BY <1>1, <1>2
  <2>5. cur'.value # -1 =>
          /\ Runs(len', Outs(cur', nxt', params'.nScriptHash) \o Null(cur'), Here', Begin(nxt', 1))
          /\ InsRun(len', nxt', i' - 1) /\ EndOf(nxt', i' - 1) = len' - left'
    BY <1>1, <1>2, <1>6, <2>1, <2>2, <2>4 DEF n
  <2>6. QED
    BY <1>1, <2>1, <2>3, <2>4, <2>5 DEF Written
<1>8. Unset' /\ Embedded' /\ Reading'
  BY <1>1, <1>2 DEF ArrivalInv, Unset, Embedded, Reading, EmbedPCs
<1>9. QED
  BY <1>7, <1>8 DEF ArrivalInv

\* When the scripts are written, so is a pair.
LEMMA PairWritten ==
    ASSUME IInv, ArrivalInv, pc = "script", i > params.nScriptHash, Valued, cur.value # -1
    PROVE  /\ PairRuns(len, cur, nxt, Here) /\ Stop(nxt) = len - left
           /\ TxsRun
           /\ txs # <<>> => PairRuns(len, txs[Len(txs)], cur, From(Len(txs)))
<1> DEFINE n == params.nScriptHash
<1>1. /\ Len(cur.scripts) = n /\ Len(nxt.vin) = n /\ n \in 1 .. MaxScriptHash /\ i \in Nat
      /\ i <= n + 1
  BY DEF IInv, Chosen, Claimed, TypeOK, EmbedPCs
<1>2. i - 1 = n /\ i > 1 /\ i # 1
  BY <1>1, ConstantsAssumption
<1>3. /\ Runs(len, Outs(cur, nxt, n) \o Null(cur), Here, Begin(nxt, 1))
      /\ InsRun(len, nxt, n) /\ EndOf(nxt, n) = len - left
  BY <1>2 DEF ArrivalInv, Written, EmbedPCs
<1>4. TxsRun /\ (txs # <<>> => PairRuns(len, txs[Len(txs)], cur, From(Len(txs))))
  BY DEF ArrivalInv, Written, EmbedPCs
<1>5. QED
  BY <1>1, <1>3, <1>4 DEF PairRuns, Stop

\* Transactions that come after the current one leave the chain before it alone.
LEMMA ChainLonger ==
    ASSUME TypeOK, TxsRun, txs # <<>> => PairRuns(len, txs[Len(txs)], cur, From(Len(txs))),
           NEW s, \A t \in 1 .. Len(txs) : s[t] = txs[t], s[Len(txs) + 1] = cur
    PROVE  /\ \A t \in 1 .. Len(txs) :
                 PairRuns(len, s[t], s[t + 1], IF t = 1 THEN 0 ELSE Stop(s[t]))
           /\ Here = IF Len(txs) + 1 = 1 THEN 0 ELSE Stop(s[Len(txs) + 1])
<1>1. Len(txs) \in Nat /\ (txs = <<>> <=> Len(txs) = 0)
  BY DEF TypeOK
<1>2. ASSUME NEW t \in 1 .. Len(txs)
      PROVE  PairRuns(len, s[t], s[t + 1], IF t = 1 THEN 0 ELSE Stop(s[t]))
  <2>1. From(t) = IF t = 1 THEN 0 ELSE Stop(s[t])
    BY <1>2 DEF From
  <2>2. CASE t = Len(txs)
    BY <1>1, <1>2, <2>1, <2>2
  <2>3. CASE t # Len(txs)
    <3>1. t \in 1 .. Len(txs) - 1 /\ t + 1 \in 1 .. Len(txs)
      BY <1>1, <2>3
    <3>2. s[t] = txs[t] /\ s[t + 1] = txs[t + 1]
      BY <3>1
    <3>3. PairRuns(len, txs[t], txs[t + 1], From(t))
      BY <3>1 DEF TxsRun
    <3>4. QED
      BY <2>1, <3>2, <3>3
  <2>4. QED
    BY <2>2, <2>3
<1>3. QED
  BY <1>1, <1>2 DEF Here

\* The loop goes on behind the pair that is finished.
LEMMA NextTransactionArrival == ASSUME IInv, ArrivalInv, NextTransaction PROVE ArrivalInv'
<1>1. /\ pc = "script" /\ pc' = "optimize" /\ TypeOK /\ i > params.nScriptHash
      /\ txs' = Append(txs, cur) /\ cur' = nxt /\ nxt' = EmptyTx
      /\ UNCHANGED <<len, left, read>>
  BY DEF NextTransaction, IInv
<1>2. /\ txs \in Seq(Transaction) /\ Len(txs) \in Nat /\ Len(txs') = Len(txs) + 1 /\ txs' # <<>>
      /\ \A t \in 1 .. Len(txs) : txs'[t] = txs[t]
      /\ txs'[Len(txs) + 1] = cur
  BY <1>1, SMTT(30) DEF TypeOK
<1>3. Written'
  <2>1. SUFFICES ASSUME Valued' PROVE Written'
    BY DEF Written
  <2>2. Valued /\ cur.value # -1
    <3>1. DOMAIN txs' = 1 .. Len(txs) + 1 /\ DOMAIN txs = 1 .. Len(txs)
      BY <1>1, <1>2
    <3>2. \A t \in 1 .. Len(txs) + 1 : txs'[t].value # -1
      BY <2>1, <3>1 DEF Valued
    <3>3. \A t \in 1 .. Len(txs) : t \in 1 .. Len(txs) + 1
      BY <1>2
    <3>4. Len(txs) + 1 \in 1 .. Len(txs) + 1
      BY <1>2
    <3>5. QED
      BY <1>2, <3>1, <3>2, <3>3, <3>4 DEF Valued
  <2>3. /\ PairRuns(len, cur, nxt, Here) /\ Stop(nxt) = len - left
        /\ TxsRun
        /\ txs # <<>> => PairRuns(len, txs[Len(txs)], cur, From(Len(txs)))
    BY <1>1, <2>2, PairWritten
  <2>4. /\ \A t \in 1 .. Len(txs) :
             PairRuns(len, txs'[t], txs'[t + 1], IF t = 1 THEN 0 ELSE Stop(txs'[t]))
        /\ Here = IF Len(txs) + 1 = 1 THEN 0 ELSE Stop(txs'[Len(txs) + 1])
    BY <1>1, <1>2, <2>3, ChainLonger
  <2>5. TxsRun'
    BY <1>1, <1>2, <2>4 DEF TxsRun, From
  <2>6. From(Len(txs))' = Here
    BY <1>1, <1>2, <2>4 DEF From
  <2>7. PairRuns(len, txs[Len(txs)], cur, From(Len(txs)))'
    <3>1. txs'[Len(txs')] = cur /\ cur' = nxt /\ len' = len
      BY <1>1, <1>2
    <3>2. PairRuns(len', txs'[Len(txs')], cur', From(Len(txs))')
      BY <2>3, <2>6, <3>1
    <3>3. QED
      BY <3>2
  <2>8. Here' = len' - left'
    BY <1>1, <1>2, <2>3 DEF Here
  <2>9. QED
    BY <1>1, <2>5, <2>7, <2>8 DEF Written
<1>4. Unset' /\ Embedded' /\ Reading'
  BY <1>1 DEF ArrivalInv, Unset, Embedded, Reading, EmbedPCs, EmptyTx
<1>5. QED
  BY <1>3, <1>4 DEF ArrivalInv

\* When no bits are left, the last pair ends with the message.
LEMMA RemainderArrival == ASSUME IInv, ArrivalInv, Remainder PROVE ArrivalInv'
<1> DEFINE sum == Minus(Minus(nBudget, params.nFees), TransactionFee(nxt))
           last == [nxt EXCEPT !.dests = 1, !.value = sum]
           m == Len(txs) + 2
<1>1. /\ pc = "script" /\ pc' \in {"minimum", "extract"} /\ TypeOK /\ i > params.nScriptHash
      /\ txs' = txs \o <<cur, last>> /\ left = 0 /\ i' = 1
      /\ UNCHANGED <<len, read>>
  BY DEF Remainder, IInv
<1>2. last.vin = nxt.vin /\ last.claim = nxt.claim
  BY <1>1 DEF TypeOK, Transaction
<1> HIDE DEF last
<1>3. /\ txs \in Seq(Transaction) /\ Len(txs) \in Nat /\ Len(txs') = m
      /\ \A t \in 1 .. Len(txs) : txs'[t] = txs[t]
      /\ txs'[Len(txs) + 1] = cur /\ txs'[m] = last
  BY <1>1 DEF TypeOK
<1>4. ASSUME Valued'
      PROVE  /\ PairRuns(len, cur, nxt, Here) /\ Stop(nxt) = len - left
             /\ TxsRun
             /\ txs # <<>> => PairRuns(len, txs[Len(txs)], cur, From(Len(txs)))
  <2>1. DOMAIN txs' = 1 .. m /\ DOMAIN txs = 1 .. Len(txs)
    BY <1>1, <1>3
  <2>2. \A t \in 1 .. m : txs'[t].value # -1
    BY <1>4, <2>1 DEF Valued
  <2>3. \A t \in 1 .. Len(txs) + 1 : t \in 1 .. m
    BY <1>3
  <2>4. \A t \in 1 .. Len(txs) : t \in 1 .. m
    BY <1>3
  <2>5. Len(txs) + 1 \in 1 .. Len(txs) + 1
    BY <1>3
  <2>6. Valued /\ cur.value # -1
    BY <1>3, <2>1, <2>2, <2>3, <2>4, <2>5 DEF Valued
  <2>7. QED
    BY <1>1, <2>6, PairWritten
<1>5. Embedded'
  <2>1. SUFFICES ASSUME Valued' PROVE (TxsRun /\ From(Len(txs)) = len)'
    BY DEF Embedded
  <2>2. /\ \A t \in 1 .. Len(txs) :
             PairRuns(len, txs'[t], txs'[t + 1], IF t = 1 THEN 0 ELSE Stop(txs'[t]))
        /\ Here = IF Len(txs) + 1 = 1 THEN 0 ELSE Stop(txs'[Len(txs) + 1])
    BY <1>1, <1>3, <1>4, <2>1, ChainLonger
  <2>3. PairRuns(len, cur, last, Here) /\ Stop(last) = len
    <3>1. PairRuns(len, cur, nxt, Here) /\ Stop(nxt) = len
      BY <1>1, <1>4, <2>1 DEF TypeOK
    <3>2. QED
      BY <1>2, <3>1, PairStays DEF Stop, EndOf
  <2>4. TxsRun'
    <3>1. SUFFICES ASSUME NEW t \in 1 .. m - 1
                   PROVE  PairRuns(len, txs'[t], txs'[t + 1], IF t = 1 THEN 0 ELSE Stop(txs'[t]))
      BY <1>1, <1>3 DEF TxsRun, From
    <3>2. CASE t \in 1 .. Len(txs)
      BY <2>2, <3>2
    <3>3. CASE t = Len(txs) + 1
      <4>1. t + 1 = m
        BY <1>3, <3>3
      <4>2. txs'[t] = cur /\ txs'[t + 1] = last
        BY <1>3, <3>3, <4>1
      <4>3. Here = IF t = 1 THEN 0 ELSE Stop(txs'[t])
        BY <2>2, <3>3
      <4>4. QED
        BY <2>3, <4>2, <4>3
    <3>4. QED
      BY <1>3, <3>2, <3>3
  <2>5. m # 1
    BY <1>3
  <2>6. From(Len(txs))' = Stop(txs'[m])
    BY <1>3, <2>5 DEF From
  <2>7. From(Len(txs))' = len
    BY <1>3, <2>3, <2>6
  <2>8. QED
    BY <1>1, <2>4, <2>7
<1>6. Reading'
  <2>1. read' = <<>> /\ i' = 1
    BY <1>1 DEF ArrivalInv, Reading
  <2>2. From(i)' = 0
    BY <2>1 DEF From
  <2>3. Runs(len', read', 0, From(i)')
    BY <2>1, <2>2 DEF Runs
  <2>4. QED
    BY <1>1, <2>1, <2>3 DEF Reading
<1>7. Unset' /\ Written'
  BY <1>1 DEF Unset, Written, EmbedPCs
<1>8. QED
  BY <1>5, <1>6, <1>7 DEF ArrivalInv

\* Summing the fees and starting over write nothing and read nothing.
LEMMA AddFeeArrival == ASSUME IInv, ArrivalInv, AddFee PROVE ArrivalInv'
<1>1. /\ pc = "minimum" /\ pc' = "minimum" /\ UNCHANGED <<len, txs, read>>
  BY DEF AddFee
<1>2. Unset' /\ Written'
  BY <1>1 DEF Unset, Written, EmbedPCs
<1>3. Embedded'
  BY <1>1 DEF ArrivalInv, Embedded, Valued, TxsRun, From
<1>4. Reading'
  BY <1>1 DEF ArrivalInv, Reading
<1>5. QED
  BY <1>2, <1>3, <1>4 DEF ArrivalInv

LEMMA SelectInputsArrival == ASSUME IInv, ArrivalInv, SelectInputs PROVE ArrivalInv'
<1>1. /\ pc = "minimum" /\ pc' = "optimize" /\ TypeOK /\ txs' = <<>> /\ nxt' = EmptyTx
      /\ left' = len /\ UNCHANGED <<len, read>>
      /\ \E k : cur' = WithInputs(k)
  BY DEF SelectInputs, IInv
<1>2. cur'.value = -1 /\ nxt'.value = -1
  BY <1>1 DEF WithInputs, EmptyTx
<1>3. len' - left' = 0 /\ Len(txs') = 0
  BY <1>1 DEF TypeOK
<1>4. Written'
  BY <1>1, <1>3 DEF Written, TxsRun, Here
<1>5. Unset' /\ Embedded' /\ Reading'
  BY <1>1, <1>2 DEF ArrivalInv, Unset, Embedded, Reading
<1>6. QED
  BY <1>4, <1>5 DEF ArrivalInv

--------------------------------------------------------------------------------
(* The reader. *)

\* What the reader takes the outputs for is what the writer made of them.
LEMMA ReaderTakes ==
    ASSUME IInv, ArrivalInv, pc \in {"extract", "inputs"}, i < Len(txs), Valued
    PROVE  /\ PairRuns(len, txs[i], txs[i + 1], From(i))
           /\ nScriptHash(txs[i]) = Len(txs[i].scripts)
           /\ nNulldata(txs[i]) = txs[i].nulls /\ txs[i].nulls \in {0, 1}
           /\ Len(txs[i + 1].vin) = Len(txs[i].scripts)
           /\ Len(txs[i].scripts) \in 1 .. MaxScriptHash
           /\ txs[i] \in Transaction /\ txs[i + 1] \in Transaction
<1>1. /\ txs[i] \in Transaction /\ txs[i + 1] \in Transaction /\ Linked(txs[i], txs[i + 1])
  BY ReaderPair
<1>2. nScriptHash(txs[i]) = Len(txs[i].scripts)
  BY <1>1, ReaderCounts
<1>3. /\ txs[i].nulls \in {0, 1} /\ txs[i].dests = 0 /\ Len(txs[i].scripts) \in Nat
      /\ Len(txs[i].scripts) >= 1
      /\ Len(txs[i].scripts) >= 2 => txs[i].nulls = 1
  BY <1>1, ConstantsAssumption, SMTT(30) DEF Linked, Transaction
<1>4. nNulldata(txs[i]) = txs[i].nulls
  BY <1>3 DEF nNulldata, vout
<1>5. PairRuns(len, txs[i], txs[i + 1], From(i))
  <2>1. i \in 1 .. Len(txs) - 1
    BY DEF IInv, TypeOK
  <2>2. TxsRun
    BY DEF ArrivalInv, Embedded
  <2>3. QED
    BY <2>1, <2>2 DEF TxsRun
<1>6. QED
  BY <1>1, <1>2, <1>3, <1>4, <1>5 DEF Linked

LEMMA ExtractOutputsArrival == ASSUME IInv, ArrivalInv, ExtractOutputs PROVE ArrivalInv'
<1> DEFINE a == txs[i]
           b == txs[i + 1]
           n == nScriptHash(a)
<1>1. /\ pc = "extract" /\ pc' = "inputs" /\ TypeOK /\ i < Len(txs) /\ j' = 1
      /\ UNCHANGED <<len, txs, i>>
      /\ read' = read \o (IF n >= 2 THEN SplitThenClaim(a, b, n) ELSE <<>>)
                      \o (IF nNulldata(a) = 1 THEN <<a.nulldata>> ELSE <<>>)
  BY DEF ExtractOutputs, IInv
<1>2. ASSUME Valued PROVE Runs(len, read', 0, Begin(b, 1))
  <2>1. /\ PairRuns(len, a, b, From(i)) /\ n = Len(a.scripts) /\ nNulldata(a) = a.nulls
        /\ n \in 1 .. MaxScriptHash /\ a \in Transaction /\ b \in Transaction
    BY <1>1, <1>2, ReaderTakes
  <2> HIDE DEF n, a, b
  <2>2. Outs(a, b, n) \in Seq(Slot) /\ Null(a) \in Seq(Slot) /\ read \in Seq(Slot)
    BY <1>1, <2>1, OutsType DEF TypeOK
  <2>3. read' = read \o (Outs(a, b, n) \o Null(a))
    <3>1. read' = read \o Outs(a, b, n) \o Null(a)
      BY <1>1, <2>1 DEF Outs, Null
    <3>2. QED
      BY <2>2, <3>1
  <2>4. Runs(len, Outs(a, b, n) \o Null(a), From(i), Begin(b, 1))
    BY <2>1 DEF PairRuns
  <2>5. Runs(len, read, 0, From(i))
    BY <1>1, <1>2 DEF ArrivalInv, Reading
  <2>6. Outs(a, b, n) \o Null(a) \in Seq(Slot)
    BY <2>2
  <2>7. QED
    BY <2>2, <2>3, <2>4, <2>5, <2>6, RunsJoin
<1>3. Embedded'
  BY <1>1 DEF ArrivalInv, Embedded, Valued, TxsRun, From
<1>4. Len(txs[i].scripts) \in Nat
  <2>1. txs[i] \in Transaction
    BY <1>1, ReaderPair
  <2>2. QED
    BY <2>1 DEF Transaction
<1>5. Reading'
  <2>1. j' <= Len(txs'[i'].scripts) + 1
    BY <1>1, <1>4
  <2>2. Valued' => Runs(len', read', 0, Begin(txs'[i' + 1], 1))
    BY <1>1, <1>2 DEF Valued
  <2>3. QED
    BY <1>1, <2>1, <2>2 DEF Reading
<1>6. Unset' /\ Written'
  BY <1>1 DEF Unset, Written, EmbedPCs
<1>7. QED
  BY <1>3, <1>5, <1>6 DEF ArrivalInv

\* An element is put behind two sequences that are joined.
LEMMA JoinAppend ==
    ASSUME NEW S, NEW s \in Seq(S), NEW t \in Seq(S), NEW e \in S
    PROVE  s \o Append(t, e) = Append(s \o t, e)
OBVIOUS

LEMMA ExtractInputArrival == ASSUME IInv, ArrivalInv, ExtractInput PROVE ArrivalInv'
<1> DEFINE a == txs[i]
           b == txs[i + 1]
           n == Len(a.scripts)
<1>1. /\ pc = "inputs" /\ pc' = "inputs" /\ TypeOK /\ j <= nScriptHash(a) /\ j' = j + 1
      /\ UNCHANGED <<len, txs, i>> /\ read \in Seq(Slot) /\ j \in Nat \ {0}
      /\ read' = Append(read \o b.vin[j].keys, b.vin[j].seqNr)
  BY DEF ExtractInput, IInv, TypeOK
<1>2. i < Len(txs)
  BY <1>1 DEF IInv, Finished
<1>3. /\ a \in Transaction /\ b \in Transaction /\ Linked(a, b) /\ nScriptHash(a) = n
      /\ n \in Nat
  <2>1. a \in Transaction /\ b \in Transaction /\ Linked(a, b)
    BY <1>1, <1>2, ReaderPair
  <2>2. n \in Nat
    BY <2>1 DEF Transaction
  <2>3. QED
    BY <2>1, <2>2, ReaderCounts
<1>4. /\ j \in 1 .. n /\ Len(b.vin) = n /\ b.vin \in Seq(Input)
  <2>1. Len(b.vin) = n
    BY <1>3 DEF Linked
  <2>2. b.vin \in Seq(Input)
    BY <1>3 DEF Transaction
  <2>3. QED
    BY <1>1, <1>3, <2>1, <2>2
<1>5. b.vin[j].keys \in Seq(Slot) /\ b.vin[j].seqNr \in Slot
  <2>1. b.vin[j] \in Input
    BY <1>4
  <2>2. QED
    BY <2>1 DEF Input
<1>6. ASSUME Valued PROVE Runs(len, read', 0, EndOf(b, j))
  <2>1. PairRuns(len, a, b, From(i))
    BY <1>1, <1>2, <1>6, ReaderTakes
  <2>2. /\ Runs(len, Ins(b, j), Begin(b, j), EndOf(b, j))
        /\ \A k \in 1 .. n - 1 : Begin(b, k + 1) = EndOf(b, k)
    BY <1>4, <2>1 DEF PairRuns, InsRun
  <2>3. Runs(len, read, 0, IF j = 1 THEN Begin(b, 1) ELSE EndOf(b, j - 1))
    BY <1>1, <1>6 DEF ArrivalInv, Reading
  <2>4. Runs(len, read, 0, Begin(b, j))
    <3>1. CASE j = 1
      BY <2>3, <3>1
    <3>2. CASE j # 1
      <4>1. j - 1 \in 1 .. n - 1 /\ (j - 1) + 1 = j
        BY <1>3, <1>4, <3>2
      <4>2. Begin(b, (j - 1) + 1) = EndOf(b, j - 1)
        BY <2>2, <4>1
      <4>3. QED
        BY <2>3, <3>2, <4>1, <4>2
    <3>3. QED
      BY <3>1, <3>2
  <2>5. read' = read \o Ins(b, j) /\ Ins(b, j) \in Seq(Slot)
    <3> DEFINE keys == b.vin[j].keys
               last == b.vin[j].seqNr
    <3>1. keys \in Seq(Slot) /\ last \in Slot /\ <<last>> \in Seq(Slot)
      BY <1>5
    <3>2. read' = Append(read \o keys, last)
      BY <1>1
    <3>3. Ins(b, j) = Append(keys, last)
      BY DEF Ins
    <3> HIDE DEF keys, last
    <3>4. read \o Append(keys, last) = Append(read \o keys, last)
      BY <1>1, <3>1, JoinAppend
    <3>5. Append(keys, last) \in Seq(Slot)
      BY <3>1
    <3>6. QED
      BY <3>2, <3>3, <3>4, <3>5
  <2>6. QED
    BY <1>1, <2>2, <2>4, <2>5, RunsJoin
<1>7. Reading'
  <2>1. j' - 1 = j /\ j' # 1 /\ j' <= n + 1
    BY <1>1, <1>3, <1>4
  <2>2. Valued' => Runs(len', read', 0, EndOf(txs'[i' + 1], j' - 1))
    BY <1>1, <1>6, <2>1 DEF Valued
  <2>3. QED
    BY <1>1, <2>1, <2>2 DEF Reading
<1>8. Embedded'
  BY <1>1 DEF ArrivalInv, Embedded, Valued, TxsRun, From
<1>9. Unset' /\ Written'
  BY <1>1 DEF Unset, Written, EmbedPCs
<1>10. QED
  BY <1>7, <1>8, <1>9 DEF ArrivalInv

\* The last input of a pair is where the next pair begins.
LEMMA ExtractNextArrival == ASSUME IInv, ArrivalInv, ExtractNext PROVE ArrivalInv'
<1> DEFINE a == txs[i]
           b == txs[i + 1]
           n == Len(a.scripts)
<1>1. /\ pc = "inputs" /\ pc' = "extract" /\ TypeOK /\ j > nScriptHash(a) /\ i' = i + 1
      /\ UNCHANGED <<len, txs, read>> /\ j \in Nat \ {0} /\ i \in Nat \ {0}
  BY DEF ExtractNext, IInv, TypeOK
<1>2. i < Len(txs) /\ j <= n + 1
  BY <1>1 DEF IInv, Finished, ArrivalInv, Reading
<1>3. ASSUME Valued PROVE Runs(len, read, 0, From(i + 1))
  <2>1. /\ nScriptHash(a) = n /\ Len(b.vin) = n /\ n \in Nat \ {0}
    BY <1>1, <1>2, <1>3, ReaderTakes, ConstantsAssumption
  <2>2. j - 1 = n /\ j # 1 /\ i + 1 # 1
    BY <1>1, <1>2, <2>1
  <2>3. Runs(len, read, 0, EndOf(b, n))
    BY <1>1, <1>3, <2>2 DEF ArrivalInv, Reading
  <2>4. From(i + 1) = EndOf(b, n)
    BY <2>1, <2>2 DEF From, Stop
  <2>5. QED
    BY <2>3, <2>4
<1>4. Reading'
  <2>1. From(i)' = From(i + 1)
    BY <1>1 DEF From
  <2>2. Valued' => Runs(len', read', 0, From(i)')
    BY <1>1, <1>3, <2>1 DEF Valued
  <2>3. QED
    BY <1>1, <2>2 DEF Reading
<1>5. Embedded'
  BY <1>1 DEF ArrivalInv, Embedded, Valued, TxsRun, From
<1>6. Unset' /\ Written'
  BY <1>1 DEF Unset, Written, EmbedPCs
<1>7. QED
  BY <1>4, <1>5, <1>6 DEF ArrivalInv

\* The reader stops where the last pair ends, at the end of the message.
LEMMA ReturnArrival == ASSUME IInv, ArrivalInv, Return PROVE ArrivalInv'
<1>1. /\ pc = "extract" /\ pc' = "extracted" /\ i = Len(txs) /\ UNCHANGED <<len, txs, read, i>>
  BY DEF Return
<1>2. Valued => Runs(len, read, 0, len)
  BY <1>1 DEF ArrivalInv, Reading, Embedded
<1>3. Reading'
  BY <1>1, <1>2 DEF Reading, Valued
<1>4. Embedded'
  BY <1>1 DEF ArrivalInv, Embedded, Valued, TxsRun, From
<1>5. Unset' /\ Written'
  BY <1>1 DEF Unset, Written, EmbedPCs
<1>6. QED
  BY <1>3, <1>4, <1>5 DEF ArrivalInv

LEMMA StutterArrival == ASSUME ArrivalInv, UNCHANGED vars PROVE ArrivalInv'
<1>1. /\ Valued' = Valued /\ TxsRun' = TxsRun /\ Here' = Here
      /\ \A t : From(t)' = From(t)
  BY DEF vars, Valued, TxsRun, Here, From
<1>2. UNCHANGED <<len, pc, left, txs, cur, nxt, params, i, j, read>>
  BY DEF vars
<1>3. Unset' /\ Written'
  BY <1>1, <1>2 DEF ArrivalInv, Unset, Written
<1>4. Embedded' /\ Reading'
  BY <1>1, <1>2 DEF ArrivalInv, Embedded, Reading
<1>5. QED
  BY <1>3, <1>4 DEF ArrivalInv

\* All steps together.
LEMMA StepArrival == ASSUME IInv, ArrivalInv, [Next]_vars PROVE ArrivalInv'
<1>1. CASE Next
  BY <1>1, OptimizeArrival, WholeBudgetArrival, SplitFailsArrival, SplitBudgetArrival,
     NulldataArrival, ScriptArrival, NextTransactionArrival, RemainderArrival, AddFeeArrival,
     SelectInputsArrival, ExtractOutputsArrival, ExtractInputArrival, ExtractNextArrival,
     ReturnArrival
  DEF Next, EmbedData
<1>2. CASE UNCHANGED vars
  BY <1>2, StutterArrival
<1>3. QED
  BY <1>1, <1>2

--------------------------------------------------------------------------------
(* Fees. *)

\* What is left of a budget that a fee is taken from, taken from that budget, is the fee.
LEMMA MinusMinus ==
    ASSUME NEW a \in 0 .. Word - 1, NEW f \in 0 .. Word - 1
    PROVE  Minus(a, Minus(a, f)) = f
<1>1. Word \in Nat \ {0, 1}
  BY ConstantsAssumption
<1>2. CASE a >= f
  <2>1. (a - f) % Word = a - f
    BY <1>1, <1>2, SMT
  <2>2. f % Word = f
    BY <1>1, SMT
  <2>3. a - (a - f) = f
    OBVIOUS
  <2>4. QED
    BY <2>1, <2>2, <2>3 DEF Minus
<1>3. CASE a < f
  <2>1. (a - f) % Word = a - f + Word
    BY <1>1, <1>3, SMT
  <2>2. a - (a - f + Word) = f - Word
    BY <1>1
  <2>3. (f - Word) % Word = f
    BY <1>1, SMT
  <2>4. QED
    BY <2>1, <2>2, <2>3 DEF Minus
<1>4. QED
  BY <1>2, <1>3

\* Transaction b takes over what a leaves and pays for its own size.
Paid(a, b) == Minus(a.value, b.value) = FeeOf(b, Len(b.scripts), b.nulls, 0)

ChainPaid == Valued => \A t \in 1 .. Len(txs) - 1 : Paid(txs[t], txs[t + 1])

\* The budget is the value of the transaction before, and the current one is charged
\* the fee for what OptimizeParams made of it.
Charged ==
    pc \in EmbedPCs =>
      /\ Valued /\ txs # <<>> => txs[Len(txs)].value = nBudget
      /\ pc # "optimize" =>
           params.nFees = FeeOf(cur, params.nScriptHash, params.nNulldata, 0)
      /\ pc \in {"nulldata", "script"} /\ cur.value # -1 =>
           cur.value = Minus(nBudget, params.nFees)

FeesInv == ChainPaid /\ Charged

LEMMA InitFees == ASSUME Init PROVE FeesInv
<1>1. Len(txs) = 0 /\ txs = <<>> /\ pc = "optimize"
  BY DEF Init
<1>2. QED
  BY <1>1 DEF FeesInv, ChainPaid, Charged

\* A chain that does not change stays paid.
LEMMA PaidStays == ASSUME ChainPaid, txs' = txs PROVE Valued' = Valued /\ ChainPaid'
  BY DEF ChainPaid, Valued

LEMMA OptimizeFees == ASSUME IInv, FeesInv, Optimize PROVE FeesInv'
<1>1. /\ pc = "optimize" /\ pc' = "split" /\ UNCHANGED <<txs, nBudget>>
      /\ params' = OptimizeParams(cur, left, nBudget)
      /\ \E z : cur' = [cur EXCEPT !.scripts = z]
      /\ cur \in Transaction /\ left > 0
  <2>1. TypeOK /\ pc = "optimize" /\ left > 0
    BY DEF Optimize, IInv, Working, EmbedPCs
  <2>2. QED
    BY <2>1 DEF Optimize, TypeOK
<1>2. cur'.bytes = cur.bytes
  BY <1>1 DEF Transaction
<1>3. params'.nFees = FeeOf(cur, params'.nScriptHash, params'.nNulldata, 0)
  BY <1>1 DEF OptimizeParams, FeeWith
<1>4. FeeOf(cur', params'.nScriptHash, params'.nNulldata, 0)
        = FeeOf(cur, params'.nScriptHash, params'.nNulldata, 0)
  BY <1>2 DEF FeeOf
<1>5. Valued' = Valued /\ ChainPaid'
  BY <1>1, PaidStays DEF FeesInv
<1>6. QED
  BY <1>1, <1>3, <1>4, <1>5 DEF FeesInv, Charged, EmbedPCs

\* From there on only the value of the current transaction changes what it pays.
LEMMA ChargeStays ==
    ASSUME FeesInv, pc \in EmbedPCs \ {"optimize"}, pc' \in EmbedPCs \ {"optimize"},
           UNCHANGED <<txs, nBudget, params>>, cur'.bytes = cur.bytes,
           pc' \in {"nulldata", "script"} /\ cur'.value # -1 =>
             cur'.value = Minus(nBudget, params.nFees)
    PROVE  FeesInv'
<1>1. Valued' = Valued /\ ChainPaid'
  BY PaidStays DEF FeesInv
<1>2. FeeOf(cur', params.nScriptHash, params.nNulldata, 0)
        = FeeOf(cur, params.nScriptHash, params.nNulldata, 0)
  BY DEF FeeOf
<1>3. QED
  BY <1>1, <1>2 DEF FeesInv, Charged, EmbedPCs

LEMMA WholeBudgetFees == ASSUME IInv, FeesInv, WholeBudget PROVE FeesInv'
<1>1. /\ pc = "split" /\ pc' = "nulldata" /\ UNCHANGED <<txs, nBudget, params>>
      /\ cur' = [cur EXCEPT !.value = Minus(nBudget, params.nFees)] /\ cur \in Transaction
  BY DEF WholeBudget, IInv, TypeOK
<1>2. cur'.bytes = cur.bytes /\ cur'.value = Minus(nBudget, params.nFees)
  BY <1>1 DEF Transaction
<1>3. QED
  BY <1>1, <1>2, ChargeStays DEF EmbedPCs

LEMMA SplitBudgetFees == ASSUME IInv, ArrivalInv, FeesInv, SplitBudget PROVE FeesInv'
<1> DEFINE sum == nBudget - params.nFees
<1>1. /\ pc = "split" /\ pc' = "nulldata" /\ UNCHANGED <<txs, nBudget, params>>
      /\ cur \in Transaction /\ nBudget \in 0 .. Word - 1 /\ params.nFees \in Nat
      /\ sum >= 0 => \E z : cur' = [cur EXCEPT !.value = sum, !.split = z]
      /\ ~ (sum >= 0) => cur' = cur
  BY DEF SplitBudget, IInv, TypeOK
<1>2. cur.value = -1
  BY <1>1 DEF ArrivalInv, Unset, EmbedPCs
<1> HIDE DEF sum
<1>3. cur'.bytes = cur.bytes /\ (sum >= 0 => cur'.value = sum) /\ (~ (sum >= 0) => cur'.value = -1)
  BY <1>1, <1>2 DEF Transaction
<1>4. sum >= 0 => sum = Minus(nBudget, params.nFees)
  <2>1. sum >= 0 => sum \in 0 .. Word - 1
    <3>1. Word \in Nat
      BY ConstantsAssumption
    <3>2. nBudget \in 0 .. Word - 1 /\ params.nFees \in Nat
      BY <1>1
    <3>3. QED
      BY <3>1, <3>2 DEF sum
  <2>2. QED
    BY <2>1, SmallWord DEF Minus, sum
<1>5. QED
  BY <1>1, <1>3, <1>4, ChargeStays DEF EmbedPCs

LEMMA NulldataFees == ASSUME IInv, FeesInv, Nulldata PROVE FeesInv'
<1>1. /\ pc = "nulldata" /\ pc' = "script" /\ UNCHANGED <<txs, nBudget, params>>
      /\ \/ cur' = cur
         \/ \E z : cur' = [cur EXCEPT !.nulls = 1, !.nulldata = z]
      /\ cur \in Transaction
  BY DEF Nulldata, IInv, TypeOK
<1>2. cur'.bytes = cur.bytes /\ cur'.value = cur.value
  BY <1>1 DEF Transaction
<1>3. cur.value # -1 => cur.value = Minus(nBudget, params.nFees)
  BY <1>1 DEF FeesInv, Charged, EmbedPCs
<1>4. QED
  BY <1>1, <1>2, <1>3, ChargeStays DEF EmbedPCs

LEMMA ScriptFees == ASSUME IInv, FeesInv, Script PROVE FeesInv'
<1>1. /\ pc = "script" /\ pc' = "script" /\ UNCHANGED <<txs, nBudget, params>>
      /\ \E n, z : cur' = [cur EXCEPT !.scripts[n] = z]
      /\ cur \in Transaction
  BY DEF Script, IInv, TypeOK
<1>2. cur'.bytes = cur.bytes /\ cur'.value = cur.value
  BY <1>1 DEF Transaction
<1>3. cur.value # -1 => cur.value = Minus(nBudget, params.nFees)
  BY <1>1 DEF FeesInv, Charged, EmbedPCs
<1>4. QED
  BY <1>1, <1>2, <1>3, ChargeStays DEF EmbedPCs

\* A finished transaction has paid for what it is.
LEMMA CurrentPaid ==
    ASSUME IInv, FeesInv, pc = "script", i > params.nScriptHash, Valued, cur.value # -1
    PROVE  /\ txs # <<>> => Paid(txs[Len(txs)], cur)
           /\ cur.value = Minus(nBudget, params.nFees)
<1> DEFINE n == params.nScriptHash
           fee == params.nFees
<1>1. /\ Len(cur.scripts) = n /\ cur.nulls = params.nNulldata /\ n \in 1 .. MaxScriptHash
  BY DEF IInv, Chosen, EmbedPCs
<1>2. cur \in Transaction /\ params.nNulldata \in {0, 1} /\ nBudget \in 0 .. Word - 1
  BY DEF IInv, TypeOK
<1>3. fee = FeeOf(cur, n, params.nNulldata, 0) /\ cur.value = Minus(nBudget, fee)
  BY DEF FeesInv, Charged, EmbedPCs
<1>4. n \in Nat /\ params.nNulldata \in Nat
  BY <1>1, <1>2, ConstantsAssumption
<1> HIDE DEF n, fee
<1>5. fee \in 0 .. Word - 1
  BY <1>2, <1>3, <1>4, FeeType
<1>6. Minus(nBudget, cur.value) = fee
  BY <1>2, <1>3, <1>5, MinusMinus
<1>7. txs # <<>> => txs[Len(txs)].value = nBudget
  BY DEF FeesInv, Charged, EmbedPCs
<1>8. QED
  BY <1>1, <1>3, <1>6, <1>7 DEF Paid, n, fee

\* What a chain gets added has paid, if what it had before has.
LEMMA PaidLonger ==
    ASSUME TypeOK, ChainPaid, Valued, txs # <<>> => Paid(txs[Len(txs)], cur),
           NEW s, \A t \in 1 .. Len(txs) : s[t] = txs[t], s[Len(txs) + 1] = cur
    PROVE  \A t \in 1 .. Len(txs) : Paid(s[t], s[t + 1])
<1>1. Len(txs) \in Nat /\ (txs = <<>> <=> Len(txs) = 0)
  BY DEF TypeOK
<1>2. ASSUME NEW t \in 1 .. Len(txs) PROVE Paid(s[t], s[t + 1])
  <2>1. CASE t = Len(txs)
    BY <1>1, <1>2, <2>1
  <2>2. CASE t # Len(txs)
    <3>1. t \in 1 .. Len(txs) - 1 /\ t + 1 \in 1 .. Len(txs)
      BY <1>1, <2>2
    <3>2. QED
      BY <3>1 DEF ChainPaid
  <2>3. QED
    BY <2>1, <2>2
<1>3. QED
  BY <1>2

LEMMA NextTransactionFees == ASSUME IInv, FeesInv, NextTransaction PROVE FeesInv'
<1>1. /\ pc = "script" /\ pc' = "optimize" /\ i > params.nScriptHash /\ TypeOK
      /\ txs' = Append(txs, cur) /\ nBudget' = Minus(nBudget, params.nFees)
  BY DEF NextTransaction, IInv
<1>2. /\ txs \in Seq(Transaction) /\ Len(txs) \in Nat /\ Len(txs') = Len(txs) + 1
      /\ \A t \in 1 .. Len(txs) : txs'[t] = txs[t]
      /\ txs'[Len(txs) + 1] = cur
      /\ DOMAIN txs' = 1 .. Len(txs) + 1 /\ DOMAIN txs = 1 .. Len(txs)
  BY <1>1 DEF TypeOK
<1>3. ASSUME Valued'
      PROVE  /\ \A t \in 1 .. Len(txs) : Paid(txs'[t], txs'[t + 1])
             /\ txs'[Len(txs')].value = nBudget'
  <2>1. Valued /\ cur.value # -1
    <3>1. \A t \in 1 .. Len(txs) + 1 : txs'[t].value # -1
      BY <1>2, <1>3 DEF Valued
    <3>2. \A t \in 1 .. Len(txs) : t \in 1 .. Len(txs) + 1
      BY <1>2
    <3>3. Len(txs) + 1 \in 1 .. Len(txs) + 1
      BY <1>2
    <3>4. QED
      BY <1>2, <3>1, <3>2, <3>3 DEF Valued
  <2>2. /\ txs # <<>> => Paid(txs[Len(txs)], cur)
        /\ cur.value = Minus(nBudget, params.nFees)
    BY <1>1, <2>1, CurrentPaid
  <2>3. \A t \in 1 .. Len(txs) : Paid(txs'[t], txs'[t + 1])
    BY <1>1, <1>2, <2>1, <2>2, PaidLonger DEF FeesInv
  <2>4. QED
    BY <1>1, <1>2, <2>2, <2>3
<1>4. ChainPaid'
  BY <1>2, <1>3 DEF ChainPaid
<1>5. QED
  BY <1>1, <1>3, <1>4 DEF FeesInv, Charged

LEMMA RemainderFees == ASSUME IInv, FeesInv, Remainder PROVE FeesInv'
<1> DEFINE budget == Minus(nBudget, params.nFees)
           fees == TransactionFee(nxt)
           last == [nxt EXCEPT !.dests = 1, !.value = Minus(budget, fees)]
           m == Len(txs) + 2
<1>1. /\ pc = "script" /\ pc' \notin EmbedPCs /\ i > params.nScriptHash /\ TypeOK
      /\ txs' = txs \o <<cur, last>>
  BY DEF Remainder, IInv, EmbedPCs
<1>2. budget \in 0 .. Word - 1
  BY <1>1, BudgetType
<1>3. nxt \in Transaction /\ nxt.scripts = <<>> /\ nxt.nulls = 0 /\ nxt.dests = 0
  BY <1>1 DEF IInv, TypeOK, Working, EmbedPCs
<1>4. fees = FeeOf(nxt, 0, 0, 0) /\ fees \in 0 .. Word - 1
  <2>1. fees = FeeOf(nxt, 0, 0, 0)
    BY <1>3 DEF TransactionFee
  <2>2. QED
    BY <1>3, <2>1, FeeType
<1> HIDE DEF budget, fees
<1>5. /\ last.value = Minus(budget, fees) /\ last.scripts = <<>> /\ last.nulls = 0
      /\ last.bytes = nxt.bytes
  BY <1>3 DEF Transaction
<1> HIDE DEF last
<1>6. ASSUME cur.value = budget PROVE Paid(cur, last)
  <2>1. Minus(cur.value, last.value) = fees
    BY <1>2, <1>4, <1>5, <1>6, MinusMinus
  <2>2. FeeOf(last, Len(last.scripts), last.nulls, 0) = fees
    BY <1>4, <1>5 DEF FeeOf
  <2>3. QED
    BY <2>1, <2>2 DEF Paid
<1>7. /\ txs \in Seq(Transaction) /\ Len(txs) \in Nat /\ Len(txs') = m
      /\ \A t \in 1 .. Len(txs) : txs'[t] = txs[t]
      /\ txs'[Len(txs) + 1] = cur /\ txs'[m] = last
      /\ DOMAIN txs' = 1 .. m /\ DOMAIN txs = 1 .. Len(txs)
  BY <1>1 DEF TypeOK
<1>8. ASSUME Valued', NEW t \in 1 .. m - 1 PROVE Paid(txs'[t], txs'[t + 1])
  <2>1. Valued /\ cur.value # -1
    <3>1. \A u \in 1 .. m : txs'[u].value # -1
      BY <1>7, <1>8 DEF Valued
    <3>2. Len(txs) + 1 \in 1 .. m /\ \A u \in 1 .. Len(txs) : u \in 1 .. m
      BY <1>7
    <3>3. QED
      BY <1>7, <3>1, <3>2 DEF Valued
  <2>2. /\ txs # <<>> => Paid(txs[Len(txs)], cur)
        /\ cur.value = budget
    BY <1>1, <2>1, CurrentPaid DEF budget
  <2>3. CASE t \in 1 .. Len(txs)
    BY <1>1, <1>7, <2>1, <2>2, <2>3, PaidLonger DEF FeesInv
  <2>4. CASE t = Len(txs) + 1
    <3>1. t + 1 = m
      BY <1>7, <2>4
    <3>2. QED
      BY <1>6, <1>7, <2>2, <2>4, <3>1
  <2>5. QED
    BY <1>7, <2>3, <2>4
<1>9. ChainPaid'
  BY <1>7, <1>8 DEF ChainPaid
<1>10. QED
  BY <1>1, <1>9 DEF FeesInv, Charged

\* Outside of EmbedData no transaction changes.
LEMMA OtherFees ==
    ASSUME IInv, FeesInv, \/ SplitFails \/ AddFee \/ SelectInputs \/ ExtractOutputs
                          \/ ExtractInput \/ ExtractNext \/ Return
    PROVE  FeesInv'
<1>1. CASE SelectInputs
  <2>1. txs' = <<>> /\ Len(txs') = 0 /\ pc' = "optimize"
    BY <1>1 DEF SelectInputs
  <2>2. QED
    BY <2>1 DEF FeesInv, ChainPaid, Charged
<1>2. CASE ~ SelectInputs
  <2>1. txs' = txs /\ pc' \notin EmbedPCs
    BY <1>2 DEF SplitFails, AddFee, ExtractOutputs, ExtractInput, ExtractNext, Return, EmbedPCs
  <2>2. ChainPaid'
    BY <2>1, PaidStays DEF FeesInv
  <2>3. QED
    BY <2>1, <2>2 DEF FeesInv, Charged
<1>3. QED
  BY <1>1, <1>2

LEMMA StutterFees == ASSUME FeesInv, UNCHANGED vars PROVE FeesInv'
<1>1. ChainPaid' /\ Valued' = Valued
  BY PaidStays DEF FeesInv, vars
<1>2. Charged'
  BY <1>1 DEF FeesInv, Charged, vars
<1>3. QED
  BY <1>1, <1>2 DEF FeesInv

LEMMA StepFees == ASSUME IInv, ArrivalInv, FeesInv, [Next]_vars PROVE FeesInv'
<1>1. CASE EmbedData
  BY <1>1, OptimizeFees, WholeBudgetFees, OtherFees, SplitBudgetFees, NulldataFees, ScriptFees,
     NextTransactionFees, RemainderFees
  DEF EmbedData
<1>2. CASE AddFee \/ SelectInputs \/ ExtractOutputs \/ ExtractInput \/ ExtractNext \/ Return
  BY <1>2, OtherFees
<1>3. CASE UNCHANGED vars
  BY <1>3, StutterFees
<1>4. QED
  BY <1>1, <1>2, <1>3 DEF Next

--------------------------------------------------------------------------------
(* Theorems. *)

\* What is written and read stays in place in every behaviour (EmbedData, ExtractData).
THEOREM WritingAndReading == Spec => []ArrivalInv
<1>1. Init => ArrivalInv
  BY InitArrival
<1>2. IInv /\ ArrivalInv /\ [Next]_vars => ArrivalInv'
  BY StepArrival
<1>3. QED
  BY <1>1, <1>2, Invariance, PTL DEF Spec

\* ExtractData gets the message that EmbedData was given, from its first bit to its last,
\* in order and with padding only at the end, through redeem scripts that meet the outputs
\* their inputs claim: whatever the length, the budget, the capacities and the orders.
THEOREM MessagesArrive == Spec => []MessageArrives
<1>1. IInv /\ ArrivalInv => ReadsInOrder /\ WholeRead
  BY ArrivalInvTells DEF IInv
<1>2. ClaimsMatchScripts /\ ReadsInOrder /\ WholeRead => MessageArrives
  BY DEF MessageArrives
<1>3. QED
  BY <1>1, <1>2, Invariance, WritingAndReading, ClaimsCorrect, PTL

\* Every transaction EmbedData makes after the first takes over the value of the one before
\* and pays the fee for its own size.
THEOREM FeesArePaid == Spec => []FeesPaid
<1>1. Init => FeesInv
  BY InitFees
<1>2. IInv /\ ArrivalInv /\ FeesInv /\ [Next]_vars => FeesInv'
  BY StepFees
<1>3. IInv /\ FeesInv => FeesPaid
  <2>1. SUFFICES ASSUME IInv, FeesInv, Valued, NEW t \in 2 .. Len(txs)
                 PROVE  Minus(txs[t - 1].value, txs[t].value)
                          = FeeOf(txs[t], Len(txs[t].scripts), txs[t].nulls, 0)
    BY DEF FeesPaid
  <2>2. t - 1 \in 1 .. Len(txs) - 1 /\ (t - 1) + 1 = t
    BY DEF IInv, TypeOK
  <2>3. Paid(txs[t - 1], txs[(t - 1) + 1])
    <3>1. \A u \in 1 .. Len(txs) - 1 : Paid(txs[u], txs[u + 1])
      BY <2>1 DEF FeesInv, ChainPaid
    <3>2. QED
      BY <2>2, <3>1
  <2>4. QED
    BY <2>2, <2>3 DEF Paid
<1>4. QED
  BY <1>1, <1>2, <1>3, Invariance, WritingAndReading, PTL DEF Spec
================================================================================
