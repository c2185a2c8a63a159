------------------------------ MODULE MCEmbedding ------------------------------
(* Two instances of Embedding.  The small one has at most three script hashes,  *)
(* every order of their outputs, and the exact numbers of compositions and      *)
(* permutations; the other one has the numbers of the program: carriers, bytes, *)
(* fees and bounds are the real ones (Satoshi and bytes), for a few lengths up  *)
(* to four transactions.  A behaviour is one of either, and the other one stays *)
(* at its start.                                                                *)
EXTENDS EmbeddingProofs, FiniteSets

VARIABLES
    real,   \* whether the behaviour is of the real numbers
    rlen, rmode, rpc, rleft, rBudget, rtxs, rcur, rnxt, rparams, rMin, ri, rj, rread

Log2(x) == CHOOSE e \in 0 .. 30 : 2^e <= x /\ x < 2^(e + 1)

MCInValues(b, n) ==
    IF n = 1 THEN 0 ELSE IF n = 2 THEN Log2(b + 1)
    ELSE Log2(((b + 2) * (b + 1)) \div 2)

MCInPermutation(n) == IF n = 1 THEN 0 ELSE IF n = 2 THEN 1 ELSE 2

MCClaims(n) == {p \in [1 .. n -> 1 .. n] : Cardinality({p[k] : k \in 1 .. n}) = n}

MCLengths == 1 .. 75

--------------------------------------------------------------------------------
(* Fourteen outputs have too many orders to try, so the identity and its reverse  *)
(* stand for them.  TLC's integers have 32 bits: the unsigned word is 2^30, still *)
(* a thousand times any budget here.                                              *)

\* log2 of the number of compositions of b into n parts, the product of
\* (b + k) / k for k < n, from below.  TLC computes b once, as the member of a set.
RealInValues(b, n) ==
    LET InParts(budget) == FoldLeftDomain(LAMBDA sum, k : sum + Log2((budget + k) \div k), 0,
                                          [k \in 1 .. n - 1 |-> k])
    IN CHOOSE bits \in {InParts(budget) : budget \in {b}} : TRUE

\* floor(log2(n!))
RealInPermutation(n) == <<0, 1, 2, 4, 6, 9, 12, 15, 18, 21, 25, 28, 32, 36>>[n]

RealClaims(n) == {[k \in 1 .. n |-> k], [k \in 1 .. n |-> n + 1 - k]}

RealLengths == {1, 8, 9, 258, 2790, 2791, 3110, 3111, 5900, 39080, 39900, 39990,
                40500, 70835, 76462, 79441, 80200}

Real == INSTANCE Embedding WITH
    Lengths <- RealLengths, InputCounts <- {1, 10}, Surplus <- {0, 5000},
    SuffixBits <- 8, KeyBits <- 250, MaxKeys <- 11, SeqBits <- 32, NullBits <- 320,
    MaxScriptHash <- 14, LBound <- 546, FeeRate <- 10000, FeeUnit <- 1000, Word <- 2^30,
    TxSize <- 10, InSize <- 41, SigSize <- 82, KeySize <- 34, OutSize <- 32, NullSize <- 51,
    EmbeddableBitsInValues <- RealInValues,
    EmbeddableBitsInPermutation <- RealInPermutation, Claims <- RealClaims,
    len <- rlen, mode <- rmode, pc <- rpc, left <- rleft, nBudget <- rBudget, txs <- rtxs,
    cur <- rcur, nxt <- rnxt, params <- rparams, nMin <- rMin, i <- ri, j <- rj, read <- rread

--------------------------------------------------------------------------------
rvars ==
    <<rlen, rmode, rpc, rleft, rBudget, rtxs, rcur, rnxt, rparams, rMin, ri, rj, rread>>

BothInit ==
    /\ real \in BOOLEAN
    /\ real => len = 1
    /\ ~ real => rlen = 1
    /\ Init /\ Real!Init

BothNext ==
    \/ ~ real /\ Next /\ UNCHANGED <<real, rvars>>
    \/ real /\ Real!Next /\ UNCHANGED <<real, vars>>

\* One thread runs from start to end; nothing can hold it back.
BothSpec ==
    BothInit /\ [][BothNext]_<<real, vars, rvars>> /\ WF_vars(~ real /\ Next)

--------------------------------------------------------------------------------
\* Bit by bit, and with the numbers of the program: ExtractData returns the message and
\* then only padding; no split fails, no output asks for more than there is, so that the
\* minimum of the dry run is enough (EmbedData, ExtractData, MinimumBudget).
NumbersHold ==
    /\ ~ real => RoundTrip
    /\ real => Real!MessageArrives /\ Real!FeesPaid /\ Real!MinimumBudgetSuffices

\* Embedding and extracting end, whatever the length (EmbedData, ExtractData).
EmbeddingEnds == real \/ Terminates
================================================================================
