---------------------------- MODULE MCEmbeddingReal ----------------------------
(* Embedding with the numbers of the program: carriers, bytes, fees and      *)
(* bounds are the real ones (Satoshi and bytes), for a few lengths up to     *)
(* four transactions.  Fourteen outputs have too many orders to try, so the  *)
(* identity and its reverse stand for them.  TLC's integers have 32 bits:    *)
(* the unsigned word is 2^30, still a thousand times any budget here.        *)
EXTENDS Embedding

Log2(x) == CHOOSE e \in 0 .. 30 : 2^e <= x /\ x < 2^(e + 1)

\* log2 of the number of compositions of b into n parts, the product of
\* (b + k) / k for k < n, from below.
MCInValues(b, n) ==
    LET bits[k \in 0 .. n - 1] ==
          IF k = 0 THEN 0 ELSE bits[k - 1] + Log2((b + k) \div k)
    IN bits[n - 1]

\* floor(log2(n!))
MCInPermutation(n) == <<0, 1, 2, 4, 6, 9, 12, 15, 18, 21, 25, 28, 32, 36>>[n]

MCClaims(n) == {[k \in 1 .. n |-> k], [k \in 1 .. n |-> n + 1 - k]}

MCLengths == {1, 8, 9, 258, 2790, 2791, 3110, 3111, 5900, 39080, 39900, 39990,
              40500, 70835, 76462, 79441, 80200}
MCWord == 2^30
================================================================================
