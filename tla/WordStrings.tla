---------------------------- MODULE WordStrings ----------------------------
(***************************************************************************)
(* The strict string functions of libreboot-utils (lib/string.c), which    *)
(* look at a word at a time where they can: slen, scmp, sdup and vcmp.     *)
(*                                                                         *)
(* A call is a record [fn, s, t, ps, pt, max, rest]: the strings s and t,  *)
(* sequences of bytes that are not 0, lie at the addresses ps and pt and   *)
(* end in a 0; after that, up to the end of the page, memory holds the     *)
(* byte rest.  s and t lie in pages of their own.  For vcmp, s and t are   *)
(* buffers of the same length.                                             *)
(*                                                                         *)
(* The value of a call is what the function returns, or Abort for exitf, *)
(* with the offsets it read at in either buffer.                           *)
(***************************************************************************)
EXTENDS Integers, Sequences, FiniteSetsExt, LibValues

CONSTANTS ByteBits,   \* the bits of a byte (8)
          Word,       \* sizeof(size_t), in bytes
          PageSize    \* bytes in a page, a multiple of Word

ASSUME WordStringsAssumption ==
          /\ ByteBits \in Nat \ {0} /\ Word \in Nat \ {0}
          /\ PageSize \in {n \in Nat : n > 0 /\ n % Word = 0}

ByteValues == 2 ^ ByteBits
WordValues == ByteValues ^ Word

----------------------------------------------------------------------------
(* Bytes and words                                                         *)

\* The byte at offset i of the buffer that holds string x.
At(c, x, i) == IF i < Len(x) THEN x[i + 1]
               ELSE IF i = Len(x) /\ c.fn # "vcmp" THEN 0 ELSE c.rest

\* memcpy of a word from offset i, on a little-endian machine.
Load(c, x, i) == FoldSet(LAMBDA j, sum : sum + At(c, x, i + j) * ByteValues ^ j,
                         0, 0 .. Word - 1)

\* The constants ff and high, and the macro zeroes.
ff == (WordValues - 1) \div (ByteValues - 1)
high == ff * (ByteValues \div 2)
zeroes(x) ==
    LET bits == ByteBits * Word
    IN  And(bits, And(bits, (x - ff) % WordValues, WordValues - 1 - x), high)

page_remain(p) == PageSize - (p % PageSize)

----------------------------------------------------------------------------
(* The three loops of slen, scmp and sdup: byte by byte up to an address   *)
(* that is aligned, then by words, then byte by byte again.                *)

\* What the function decides at byte i, None to go on.  sdup also writes it.
ByteAt(c, i) ==
    IF c.fn = "scmp"
      THEN IF At(c, c.s, i) # At(c, c.t, i) THEN At(c, c.s, i) - At(c, c.t, i)
           ELSE IF At(c, c.s, i) = 0 THEN 0 ELSE None
      ELSE IF At(c, c.s, i) = 0 THEN i ELSE None

Result(ret) == [ret |-> ret, read |-> {}]
Reading(S, r) == [r EXCEPT !.read = @ \cup S]
Bytes(i) == i .. i + Word - 1

\* Mutant of PageEnds: only the string that is aligned is looked at.
first_only(c, i) ==
    c.fn \in {"scmp", "sdup"} /\ page_remain(c.ps + i) < Word

\* A word is not read if it reaches into the next page.
PageEnds(c, i) ==
    \/ c.fn \in {"scmp", "sdup"} /\ page_remain(c.ps + i) < Word
    \/ c.fn = "scmp" /\ page_remain(c.pt + i) < Word

\* What the function decides at the word at i: equal words with a 0 are equal
\* strings; otherwise, the first of the bytes that decides.
WordAt(c, i) ==
    LET equal == c.fn = "scmp" => Load(c, c.s, i) = Load(c, c.t, i)
        deciding == {j \in Bytes(i) : ByteAt(c, j) # None}
    IN  IF zeroes(Load(c, c.s, i)) = 0 /\ equal THEN None
        ELSE IF c.fn = "scmp" /\ equal THEN 0
        ELSE IF deciding = {} THEN None ELSE ByteAt(c, Min(deciding))

\* What each loop comes to from offset i on.
TailLoop(c) ==
    LET from[i \in 0 .. c.max] ==
          IF i = c.max THEN Result(Abort)
          ELSE Reading({i}, IF ByteAt(c, i) # None THEN Result(ByteAt(c, i)) ELSE from[i + 1])
    IN  from

WordLoop(c) ==
    LET from[i \in 0 .. c.max] ==
          IF i + Word > c.max \/ PageEnds(c, i) THEN TailLoop(c)[i]
          ELSE Reading(Bytes(i), IF WordAt(c, i) # None THEN Result(WordAt(c, i))
                                 ELSE from[i + Word])
    IN  from

HeadLoop(c) ==
    LET from[i \in 0 .. c.max] ==
          IF (c.ps + i) % Word = 0 THEN WordLoop(c)[i]
          ELSE IF i = c.max THEN Result(Abort)
          ELSE Reading({i}, IF ByteAt(c, i) # None THEN Result(ByteAt(c, i)) ELSE from[i + 1])
    IN  from

(* vcmp: words until two differ, then bytes.  The words are read anywhere. *)
VcmpBytes(c) ==
    LET from[i \in 0 .. c.max] ==
          IF i = c.max THEN Result(0)
          ELSE Reading({i}, IF At(c, c.s, i) # At(c, c.t, i)
                              THEN Result(At(c, c.s, i) - At(c, c.t, i)) ELSE from[i + 1])
    IN  from

VcmpWords(c) ==
    LET from[i \in 0 .. c.max] ==
          IF i + Word > c.max THEN VcmpBytes(c)[i]
          ELSE Reading(Bytes(i), IF Load(c, c.s, i) = Load(c, c.t, i)
                                   THEN from[i + Word] ELSE VcmpBytes(c)[i])
    IN  from

String(c) == IF c.fn = "vcmp" THEN VcmpWords(c)[0] ELSE HeadLoop(c)[0]

----------------------------------------------------------------------------
(* What the functions promise                                              *)

\* Where two strings differ first or end.
Ends(c) == Min({i \in 0 .. Len(c.s) : ByteAt(c, i) # None})

Promised(c) ==
    IF c.fn = "vcmp"
      THEN LET differ == {i \in 0 .. c.max - 1 : c.s[i + 1] # c.t[i + 1]}
           IN  IF differ = {} THEN 0
               ELSE c.s[Min(differ) + 1] - c.t[Min(differ) + 1]
      ELSE IF Ends(c) < c.max THEN ByteAt(c, Ends(c)) ELSE Abort

Pages(p, offsets) == {(p + i) \div PageSize : i \in offsets}

\* The bytes that looking at one after the other would read.
Needed(c) == IF c.fn = "vcmp" THEN 0 .. c.max - 1
             ELSE 0 .. Min({Ends(c), c.max - 1})

\* A call says what looking at one byte after the other says, wherever the
\* strings lie, and does not touch a page that this would not touch: what lies
\* after a string may not be mapped.  Nothing is read, or by sdup written, at
\* max or after it (the comments on scmp, slen, sdup: strict).
AsPromised(c, value) ==
    /\ value.ret = Promised(c)
    /\ \A i \in value.read : i < c.max
    /\ Pages(c.ps, value.read) \subseteq Pages(c.ps, Needed(c))
    /\ c.fn \in {"scmp", "vcmp"} =>
         Pages(c.pt, value.read) \subseteq Pages(c.pt, Needed(c))
============================================================================
