------------------------------- MODULE MCSession -------------------------------
(***************************************************************************)
(* Small wallets for Session: three coins of two amounts, one of which may *)
(* pay for a short message and not for a long one.                         *)
(***************************************************************************)
EXTENDS Session

CONSTANTS p1, p2, c1, c2, c3

OneWriter == {p1}
TwoWriters == {p1, p2}
TwoCoins == {c1, c2}
ThreeCoins == {c1, c2, c3}
Amounts == [c \in Coins |-> CASE c = c1 -> 5 [] c = c2 -> 5 [] OTHER -> 3]
================================================================================
