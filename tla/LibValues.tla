----------------------------- MODULE LibValues ------------------------------
(* What functions of libreboot-utils return, or find, besides values; and the *)
(* bits of the numbers that they are given.                                   *)
EXTENDS Integers, FiniteSetsExt, SequencesExt

CONSTANTS None,      \* nothing yet, no argument, or a null pointer
          Abort,     \* the program is ended by exitf
          Refused,   \* an error is returned, or exitf ends the program
          Crash      \* the program is ended by the system

\* C's & and |, of numbers of n bits.
Bit(x, i) == (x \div 2 ^ i) % 2
And(n, x, y) ==
    LET sum[k \in 0 .. n] ==
          IF k = 0 THEN 0 ELSE sum[k - 1] + 2 ^ (k - 1) * Bit(x, k - 1) * Bit(y, k - 1)
    IN  sum[n]
Or(n, x, y) == x + y - And(n, x, y)

\* What s has at some of its places.
Keep(s, places) ==
    FoldLeftDomain(LAMBDA kept, i : IF i \in places THEN Append(kept, s[i]) ELSE kept, << >>, s)
=============================================================================
