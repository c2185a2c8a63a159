------------------------------ MODULE ChainReader ------------------------------
(***************************************************************************)
(* The two readers of the program, both named ReadTransactions: one walks  *)
(* back from the last transaction of a chain of messages to the first, one *)
(* walks forward from the first through the blocks that follow.  They ask  *)
(* the daemon for one transaction or block at a time, while messages are   *)
(* still being sent and blocks found.                                      *)
(*                                                                         *)
(* The messages' transactions are numbered 1, 2, ... along the first       *)
(* inputs; 0 is any other transaction, and the hash of none.               *)
(***************************************************************************)
EXTENDS Integers, Sequences, FiniteSets, SequencesExt

CONSTANTS
    Messages,       \* messages, as the sequence of kinds of their transactions
    NumMessages,    \* how many of them there are
    nBlocks,        \* blocks the forward reader looks at (10)
    MaxBlocks,      \* bound on the blocks found
    MaxOthers       \* bound on the other transactions at the head of a block

\* "data" transactions have several outputs, "single" ones one output to a
\* script hash, and "end" transactions, that close a message, one to an address.
ReaderAssumption ==
    /\ NumMessages \in Nat /\ nBlocks \in Nat \ {0} /\ MaxBlocks \in Nat /\ MaxOthers \in Nat
    /\ Messages \subseteq {m \in Seq({"data", "single", "end"}) :
                             /\ m # <<>>
                             /\ \A x \in DOMAIN m : (m[x] = "end") <=> (x = Len(m))}

VARIABLES
    msgs,       \* the messages
    sent,       \* how many of their transactions the daemon knows
    blocks,     \* the blocks, as sequences of transactions
    mode,       \* which reader runs
    pc,
    TxBegin, TxEnd,     \* its arguments, which it moves along the chain
    first, last,        \* its arguments as they were given
    chain,      \* the transactions it has collected
    block,      \* height of the block it asks for next, 0 if it has no hash
    i, j,       \* its loop counters, from 0
    txs,        \* the transactions it has seen in blocks
    chains      \* what it returns

reader == <<mode, pc, TxBegin, TxEnd, first, last, chain, block, i, j, txs, chains>>
vars == <<msgs, sent, blocks, reader>>

--------------------------------------------------------------------------------
(* The blockchain. *)

Kinds == FlattenSeq(msgs)
Total == Len(Kinds)
Numbers(a, b) == [x \in 1 .. b - a + 1 |-> a + x - 1]

\* What vin[0].prevout.hash names.
Prev(t) == IF t = 0 THEN 0 ELSE t - 1

Mined == {t \in 1 .. Total : \E b \in DOMAIN blocks : t \in Range(blocks[b])}

\* The height of the block of a transaction, 0 when it is in none: a
\* transaction that is not in a block has no blockhash.
blockhash(t) == IF t \in Mined THEN CHOOSE b \in DOMAIN blocks : t \in Range(blocks[b])
                ELSE 0

\* The block after block b, as long as there is one.
nextblockhash(b) == IF b < Len(blocks) THEN b + 1 ELSE 0

\* What happens after the reader is through is of no interest.
Running == pc \notin {"read", "failed"}

Broadcast ==
    /\ Running
    /\ sent < Total
    /\ sent' = sent + 1
    /\ UNCHANGED <<msgs, blocks, reader>>

\* A block takes the next transactions, in order, after some others.
Mine ==
    /\ Running
    /\ Len(blocks) < MaxBlocks
    /\ \E o \in 1 .. MaxOthers, m \in 0 .. sent, n \in 0 .. sent :
         /\ Mined = 1 .. m /\ m <= n
         /\ blocks' = Append(blocks, [x \in 1 .. o |-> 0] \o Numbers(m + 1, n))
    /\ UNCHANGED <<msgs, sent, reader>>

--------------------------------------------------------------------------------
(* Splitting a chain into messages. *)

\* Transactions for which vout.size() == 1.
OneOutput == {t \in 1 .. Total : Kinds[t] \in {"single", "end"}}

\* Those whose one output is not to a script hash.
OneAddress == {t \in OneOutput : Kinds[t] = "end"}

\* Both readers cut after every transaction that passes for the end of a
\* message, one of closing, and drop what follows the last cut.
Split(closing) ==
    LET cuts == {x \in DOMAIN chain : chain[x] \in closing}
        cut(k) == IF k = 0 THEN 0
                  ELSE CHOOSE x \in cuts : Cardinality({y \in cuts : y <= x}) = k
    IN [k \in 1 .. Cardinality(cuts) |-> SubSeq(chain, cut(k - 1) + 1, cut(k))]

--------------------------------------------------------------------------------
(* The readers. *)

Init ==
    /\ msgs \in [1 .. NumMessages -> Messages]
    /\ sent = 0
    /\ blocks = <<>>
    /\ mode \in {"backward", "forward"}
    /\ pc = "start"
    /\ TxBegin = 0 /\ TxEnd = 0
    /\ first = 0 /\ last = 0
    /\ chain = <<>>
    /\ block = 0
    /\ i = 0 /\ j = 0
    /\ txs = <<>>
    /\ chains = <<>>

\* The user names two transactions, in any order.
StartBackward(b, e) ==
    /\ pc = "start" /\ mode = "backward"
    /\ TxBegin' = b /\ TxEnd' = e
    /\ first' = b /\ last' = e
    /\ pc' = "back"
    /\ UNCHANGED <<msgs, sent, blocks, mode, chain, block, i, j, txs, chains>>

Known(t) == t \in 1 .. sent

\* The daemon does not know a transaction, or no block: the reader throws.
Fail ==
    /\ \/ pc = "back" /\ ~ Known(TxEnd)
       \/ pc = "block" /\ i < nBlocks /\ block = 0
    /\ pc' = "failed"
    /\ UNCHANGED <<msgs, sent, blocks, mode, TxBegin, TxEnd, first, last, chain, block, i, j,
                   txs, chains>>

\* One turn of the loop, or what follows it.
StepBack ==
    /\ pc = "back"
    /\ Known(TxEnd)
    /\ chain' = Append(chain, TxEnd)
    /\ TxEnd' = IF TxEnd = TxBegin THEN TxEnd ELSE Prev(TxEnd)
    /\ pc' = IF TxEnd = TxBegin THEN "reverse" ELSE "back"
    /\ UNCHANGED <<msgs, sent, blocks, mode, TxBegin, first, last, block, i, j, txs, chains>>

ReverseChain ==
    /\ pc = "reverse"
    /\ chain' = Reverse(chain)
    /\ pc' = "split"
    /\ UNCHANGED <<msgs, sent, blocks, mode, TxBegin, TxEnd, first, last, block, i, j, txs,
                   chains>>

StartForward(b) ==
    /\ pc = "start" /\ mode = "forward"
    /\ TxBegin' = b
    /\ first' = b
    /\ \/ /\ Known(b)
          /\ chain' = <<b>>
          /\ block' = blockhash(b)
          /\ pc' = "block"
       \/ /\ ~ Known(b)
          /\ pc' = "failed"
          /\ UNCHANGED <<chain, block>>
    /\ UNCHANGED <<msgs, sent, blocks, mode, TxEnd, last, i, j, txs, chains>>

\* getblock, and getrawtransaction for every transaction the block names.
GetBlock ==
    /\ pc = "block"
    /\ i < nBlocks
    /\ block # 0
    /\ txs' = txs \o blocks[block]
    /\ block' = nextblockhash(block)
    /\ j' = 0
    /\ pc' = "scan"
    /\ UNCHANGED <<msgs, sent, blocks, mode, TxBegin, TxEnd, first, last, chain, i, chains>>

\* A slip: the scan goes on behind the transaction taken out.
FoundAndOn ==
    /\ pc = "scan"
    /\ j < Len(txs)
    /\ Prev(txs[j + 1]) = TxBegin /\ txs[j + 1] # 0
    /\ chain' = Append(chain, txs[j + 1])
    /\ TxBegin' = txs[j + 1]
    /\ txs' = RemoveAt(txs, j + 1)
    /\ j' = j + 1
    /\ UNCHANGED <<msgs, sent, blocks, mode, pc, TxEnd, first, last, block, i, chains>>

\* A transaction that spends the last one found is taken out, and the scan
\* starts again at the second that remains: j = 0 is followed by j++.
Found ==
    /\ pc = "scan"
    /\ j < Len(txs)
    /\ Prev(txs[j + 1]) = TxBegin /\ txs[j + 1] # 0
    /\ chain' = Append(chain, txs[j + 1])
    /\ TxBegin' = txs[j + 1]
    /\ txs' = RemoveAt(txs, j + 1)
    /\ j' = 1
    /\ UNCHANGED <<msgs, sent, blocks, mode, pc, TxEnd, first, last, block, i, chains>>

\* A slip: the counter is not advanced.
NotAdvanced ==
    /\ pc = "scan"
    /\ j < Len(txs)
    /\ Prev(txs[j + 1]) # TxBegin \/ txs[j + 1] = 0
    /\ UNCHANGED vars

NotFound ==
    /\ pc = "scan"
    /\ j < Len(txs)
    /\ Prev(txs[j + 1]) # TxBegin \/ txs[j + 1] = 0
    /\ j' = j + 1
    /\ UNCHANGED <<msgs, sent, blocks, mode, pc, TxBegin, TxEnd, first, last, chain, block, i,
                   txs, chains>>

NextBlock ==
    /\ pc = "scan"
    /\ j >= Len(txs)
    /\ i' = i + 1
    /\ pc' = "block"
    /\ UNCHANGED <<msgs, sent, blocks, mode, TxBegin, TxEnd, first, last, chain, block, j, txs,
                   chains>>

\* A slip: one block too few.
CollectedEarly ==
    /\ pc = "block"
    /\ i >= nBlocks - 1
    /\ pc' = "split"
    /\ UNCHANGED <<msgs, sent, blocks, mode, TxBegin, TxEnd, first, last, chain, block, i, j,
                   txs, chains>>

Collected ==
    /\ pc = "block"
    /\ i = nBlocks
    /\ pc' = "split"
    /\ UNCHANGED <<msgs, sent, blocks, mode, TxBegin, TxEnd, first, last, chain, block, i, j,
                   txs, chains>>

Return ==
    /\ pc = "split"
    /\ chains' = IF mode = "backward" THEN Split(OneAddress) ELSE Split(OneOutput)
    /\ pc' = "read"
    /\ UNCHANGED <<msgs, sent, blocks, mode, TxBegin, TxEnd, first, last, chain, block, i, j,
                   txs>>

Read == \/ StepBack \/ ReverseChain \/ GetBlock \/ Found \/ NotFound \/ NextBlock
        \/ Collected \/ Return \/ Fail

Next ==
    \/ Broadcast \/ Mine
    \/ \E b, e \in 1 .. Total : StartBackward(b, e)
    \/ \E b \in 1 .. Total : StartForward(b)
    \/ Read

Spec == Init /\ [][Next]_vars

\* A read that has started goes on.
FairSpec == Spec /\ WF_vars(Read)

--------------------------------------------------------------------------------
(* What should hold. *)

\* Every variable has its type, and no index leaves its vector.
TypeOK ==
    /\ msgs \in [1 .. NumMessages -> Messages]
    /\ sent \in 0 .. Total
    /\ blocks \in Seq(Seq(0 .. Total))
    /\ mode \in {"backward", "forward"}
    /\ pc \in {"start", "back", "reverse", "block", "scan", "split", "read", "failed"}
    /\ {TxBegin, TxEnd, first, last} \subseteq 0 .. Total
    /\ chain \in Seq(1 .. Total)
    /\ block \in 0 .. Len(blocks)
    /\ i \in 0 .. nBlocks
    /\ j \in 0 .. Len(txs)
    /\ txs \in Seq(0 .. Total)
    /\ chains \in Seq(Seq(1 .. Total))

\* The transactions of message m.
Start(m) == Len(FlattenSeq(SubSeq(msgs, 1, m - 1))) + 1
Close(m) == Start(m + 1) - 1
Transactions(m) == Numbers(Start(m), Close(m))

\* Asked for the first transaction of one message and the last of another,
\* the backward reader returns these and all the messages between, each whole
\* and in the order they were written, whatever is sent or mined meanwhile.
BackwardReads ==
    pc = "read" /\ mode = "backward" =>
      \A a, b \in DOMAIN msgs :
         first = Start(a) /\ last = Close(b)
           => chains = [x \in 1 .. b - a + 1 |-> Transactions(a + x - 1)]

\* The forward reader collects every transaction of the chain in the nBlocks
\* blocks from its start, none twice and none of other people's, though it
\* takes transactions out of the vector it runs through and never goes back to
\* its first element.
ForwardCollects ==
    pc \in {"split", "read"} /\ mode = "forward" =>
      \E n \in first .. Total :
         /\ chain = Numbers(first, n)
         /\ \A t \in first .. Total :
              t <= n <=> t \in Mined /\ blockhash(t) < blockhash(first) + nBlocks

\* It returns what it has collected only when there are nBlocks blocks from its start on:
\* each block that it asks for is the one that followed when the last one was asked for,
\* and at the tip nothing is returned, whatever is found meanwhile (nextblockhash).
ForwardNeedsBlocks ==
    pc \in {"split", "read"} /\ mode = "forward" =>
      blockhash(first) # 0 /\ blockhash(first) + nBlocks - 1 <= Len(blocks)

\* What the forward reader returns are messages, as for the backward reader.
ForwardReads ==
    pc = "read" /\ mode = "forward" =>
      \A a \in DOMAIN msgs :
         first = Start(a) => \A x \in DOMAIN chains : chains[x] = Transactions(a + x - 1)

\* Whatever the user asks for, the reader comes to an end: a walk back from a
\* transaction that is not behind the first one ends at the chain's root.
ReadEnds == pc # "start" ~> pc \in {"read", "failed"}
================================================================================
