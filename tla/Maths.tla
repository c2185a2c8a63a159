--------------------------------- MODULE Maths ---------------------------------
(***************************************************************************)
(* Maths.cpp: the numbers that permutations and compositions have in their *)
(* lexicographic orders.  Numbers that the code keeps in a cpp_int are     *)
(* unbounded, those it keeps in a uint64_t are words.                      *)
(***************************************************************************)
EXTENDS Integers, Sequences, SequencesExt, FiniteSetsExt

CONSTANT Word       \* values of a uint64_t

WordAssumption == Word \in Nat \ {0}

\* Unsigned subtraction.
Minus(a, b) == (a - b) % Word

Power2[e \in Nat] == IF e = 0 THEN 1 ELSE 2 * Power2[e - 1]

Factorial[n \in Nat] == IF n < 2 THEN 1 ELSE n * Factorial[n - 1]

\* The product that grows from both ends is a coefficient itself after every
\* turn, so that each division is exact.
BinomialCoefficient(n, k) ==
    LET m == IF k < n - k THEN k ELSE n - k
        result[i \in 0 .. m] == IF i = 0 THEN 1 ELSE (result[i - 1] * (n - m + i)) \div i
    IN IF k > n THEN 0 ELSE result[m]

\* The compositions of n into k parts, zero included.
NumberCompositions(n, k) == BinomialCoefficient((n + k - 1) % Word, k - 1)

PermutationToInteger(permutation) ==
    LET size == Len(permutation)
        smaller(i) == {j \in i + 1 .. size : permutation[i] > permutation[j]}
    IN MapThenSumSet(LAMBDA i : Cardinality(smaller(i)) * Factorial[size - i],
                     1 .. size - 1)

\* Each turn takes the x-th of the elements that are left.
IntegerToPermutation(idx, k) ==
    LET take(s, i) ==
          LET x == s.idx \div Factorial[k - i]
          IN [idx |-> s.idx - x * Factorial[k - i],
              buf |-> RemoveAt(s.buf, x + 1),
              perm |-> Append(s.perm, s.buf[x + 1])]
    IN FoldLeft(take,
                [idx |-> idx, buf |-> [x \in 1 .. k |-> x - 1], perm |-> <<>>],
                [i \in 1 .. k |-> i]).perm

\* Of the compositions of what is left at a part, those in which that part is
\* smaller come first.
CompositionToInteger(composition) ==
    LET size == Len(composition)
        left(i) == FoldLeft(+, 0, SubSeq(composition, i, size))
        smaller(i) == NumberCompositions(left(i), size - i + 1)
                        - NumberCompositions(left(i + 1), size - i + 1)
    IN MapThenSumSet(smaller, 1 .. size - 1)
================================================================================
