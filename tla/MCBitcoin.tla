----------------------------- MODULE MCBitcoin ------------------------------
(***************************************************************************)
(* Bitcoin for TLC.                                                        *)
(***************************************************************************)
EXTENDS Bitcoin, TLC

CONSTANTS m1, m2, c1, c2, u1, u2

MCUppers == [c \in Clients |-> IF c = c1 THEN u1 ELSE u2]

MinerSymmetry == Permutations(Miners)

\* The first whole powers of e are 2.7, 7.4 and 20.1.
MCLog == [x \in 1 .. Word - 1 |-> IF x < 3 THEN 0 ELSE IF x < 8 THEN 1 ELSE IF x < 21 THEN 2 ELSE 3]

\* For Big = 8 in place of 10000: a request of 16 is cut into two parts.
MCLog10 == [x \in Big + 1 .. Word - 1 |-> 2]

\* Hashes without a pattern; the least one of c1 is at the upper end of the range 0 .. 16,
\* that of c2 in the middle.
MCHash ==
  [c \in Clients |->
    [n \in 0 .. Word - 1 |-> IF c = c1 THEN ((n * 5 + 5) % 17) + 1 ELSE ((n * 7 + 3) % 13) + 1]]
=============================================================================
