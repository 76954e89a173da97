---------------------------- MODULE NvmCommands -----------------------------
(***************************************************************************)
(* What nvmutil makes of its arguments, and what its commands that only    *)
(* read print (lib/command.c): the MAC addresses (dump), and the two parts *)
(* with padding, as a GbE file of another size (cat, cat16, cat128).       *)
(* First the numbers they need: drawing one below a limit (rsize, in       *)
(* lib/rand.c), and the MAC addresses of setmac, whose digits may be left  *)
(* to chance (lib/num.c).                                                  *)
(*                                                                         *)
(* Characters are their codes.  A MAC call is a record [str, drawn]: the   *)
(* argument, and the number that each position draws if it is random.      *)
(***************************************************************************)
EXTENDS Integers, Sequences, FiniteSetsExt, LibValues

CONSTANT SizeBits   \* the bits of a size_t

ASSUME SizeAssumption == SizeBits \in Nat \ {0}

SIZE_MAX == 2 ^ SizeBits - 1

----------------------------------------------------------------------------
\* Mutant of Rejected: an off-by-one.
one_kept(n, raw) == raw > SIZE_MAX - (SIZE_MAX % n)

\* The numbers that rsize draws again, of all a size_t can hold.
Rejected(n, raw) == raw >= SIZE_MAX - (SIZE_MAX % n)

rsize(n) == [raw \in {x \in 0 .. SIZE_MAX : ~Rejected(n, x)} |-> raw % n]

\* Every number below n is drawn as often as any other, and at least every
\* second draw counts ("rejection sampling", rsize).
Unbiased(n, value) ==
    LET draws(k) == {raw \in DOMAIN value : value[raw] = k}
    IN  /\ \A raw \in DOMAIN value : value[raw] < n
        /\ \A k \in 1 .. n - 1 : Cardinality(draws(k)) = Cardinality(draws(0))
        /\ 2 * Cardinality(DOMAIN value) >= SIZE_MAX

----------------------------------------------------------------------------
(* hextonum and parse_mac_string                                           *)

\* A call; and the words of an address.
MacCalls == [str : Seq(0 .. 255), drawn : [1 .. 17 -> 0 .. 15]]
Word16s == 0 .. 2 ^ 16 - 1
AddressWords == [0 .. 2 -> Word16s]

ASSUME AddressAssumption == Refused \notin [0 .. 2 -> Nat]

Minus(a, b) == (a - b) % 2 ^ 16   \* the difference as an unsigned int
Lower(ch) == Or(8, ch, 32)

\* The value of a digit; random is what rsize(16) draws; 16 for no digit.
hextonum(ch, random) ==
    IF Minus(ch, 48) <= 9 THEN ch - 48
    ELSE IF Minus(Lower(ch), 97) <= 5 THEN Lower(ch) - 97 + 10
    ELSE IF Lower(ch) \in {63, 120} THEN random
    ELSE 16

Char(c, pos) == c.str[pos + 1]

Nibble(c, byte, nib) ==
    LET ch == Char(c, 3 * byte + nib)
        hex == hextonum(ch, c.drawn[3 * byte + nib + 1])
    IN  IF byte = 0 /\ nib = 1 /\ (Lower(ch) = 120 \/ ch = 63)
          THEN Or(4, And(4, hex, 14), 2) ELSE hex

\* Where the nibble goes in its word of the GbE file.
Shift(byte, nib) == ((byte % 2) * 8) + ((1 - nib) * 4)

set_mac_nib(word, c, byte, nib) == Or(16, word, Nibble(c, byte, nib) * 2 ^ Shift(byte, nib))
set_mac_byte(word, c, byte) == set_mac_nib(set_mac_nib(word, c, byte, 0), c, byte, 1)

\* The three words, each of two bytes.
mac_buf(c) == [w \in 0 .. 2 |-> set_mac_byte(set_mac_byte(0, c, 2 * w), c, 2 * w + 1)]

\* The words, or Refused when the string is refused.
parse_mac_string(c) ==
    LET buf == mac_buf(c)
    IN  IF \/ Len(c.str) # 17
           \/ \E byte \in 0 .. 4 : Char(c, 3 * byte + 2) # 58
           \/ \E byte \in 0 .. 5, nib \in {0, 1} :
                hextonum(Char(c, 3 * byte + nib), c.drawn[3 * byte + nib + 1]) > 15
           \/ \A w \in 0 .. 2 : buf[w] = 0
           \/ And(1, buf[0], 1) = 1
        THEN Refused ELSE buf

----------------------------------------------------------------------------
(* What a user means by the string                                         *)

Digits == [ch \in (48 .. 57) \cup (65 .. 70) \cup (97 .. 102) |->
             ch - (IF ch < 58 THEN 48 ELSE IF ch < 71 THEN 55 ELSE 87)]
Random == {63, 88, 120}   \* ? X x
MacPositions == {pos \in 0 .. 16 : pos % 3 # 2}

\* The bytes of the address that the words of a GbE file hold.
MacByte(buf, k) == (buf[k \div 2] \div 256 ^ (k % 2)) % 256
MacDigit(buf, pos) ==
    LET byte == MacByte(buf, pos \div 3)
    IN  IF pos % 3 = 0 THEN byte \div 16 ELSE byte % 16

WellFormed(str) ==
    /\ Len(str) = 17
    /\ \A pos \in 0 .. 16 :
         str[pos + 1] \in IF pos \in MacPositions THEN DOMAIN Digits \cup Random ELSE {58}

\* An address that is set has the digits that were asked for at their places;
\* it is that of one machine, and if its first byte is left to chance it is a
\* local one.  A string of the right form is refused only if its digits ask
\* for a group of machines, or may all be zero.  A code of 31 passes for a
\* question mark (hextonum).
MacAsAsked(c, buf) ==
    IF buf = Refused
      THEN WellFormed(c.str) =>
             /\ Char(c, 1) \notin Random
             /\ \/ Digits[Char(c, 1)] % 2 = 1
                \/ \A pos \in MacPositions :
                     Char(c, pos) \notin Random => Digits[Char(c, pos)] = 0
      ELSE /\ \A pos \in MacPositions : Char(c, pos) \in DOMAIN Digits =>
                MacDigit(buf, pos) = Digits[Char(c, pos)]
           /\ MacByte(buf, 0) % 2 = 0
           /\ Char(c, 1) \in Random => (MacByte(buf, 0) \div 2) % 2 = 1
           /\ \E k \in 0 .. 5 : MacByte(buf, k) # 0
           /\ WellFormed([pos \in 1 .. 17 |->
                            IF c.str[pos] = 31 THEN 63 ELSE c.str[pos]])

----------------------------------------------------------------------------
(* Arguments and output                                                    *)

\* The table of commands (xstart): the arguments it takes, one of them a part or
\* not, and the bytes it handles.
Table ==
    [name \in {"dump", "setmac", "swap", "copy", "cat", "cat16", "cat128"} |->
       [argc     |-> IF name = "copy" THEN 4 ELSE 3,
        arg_part |-> name = "copy",
        rw_size  |-> IF name \in {"dump", "setmac"} THEN 128 ELSE 4096,
        writes   |-> name \in {"setmac", "swap", "copy"}]]

sanitize_command_index(c) ==
    Table[c].argc >= 3 /\ Table[c].rw_size \in {128, 4096}

AnyMac == "xx:xx:xx:xx:xx:xx"

\* The word for the command, and one for its argument.
Arguments == {a \in [cmd : STRING \cup {None}, arg : STRING \cup {None}] : a.cmd = None => a.arg = None}

ASSUME ArgumentAssumption ==
    /\ None \notin DOMAIN Table \cup {"0", "1"} /\ None \notin {0, 1} /\ Refused \notin {None, 0, 1}
    /\ Refused \notin [cmd : STRING, part : {None, 0, 1}, mac : STRING \cup {None, AnyMac}]

\* One character, "0" or "1".
conv_argv_part_num(arg) == CASE arg = "0" -> 0 [] arg = "1" -> 1 [] OTHER -> Refused

\* How many words there are, with the names of the program and of the file.
argc(a) == 2 + (IF a.cmd = None THEN 0 ELSE IF a.arg = None THEN 1 ELSE 2)

\* The command that is run, with its part and the text of the MAC address.
set_cmd_args(a) ==
    LET part == IF Table[a.cmd].arg_part THEN conv_argv_part_num(a.arg) ELSE None
        mac  == IF a.cmd # "setmac" THEN None
                ELSE IF argc(a) >= 4 THEN a.arg ELSE AnyMac
    IN  IF part = Refused THEN Refused ELSE [cmd |-> a.cmd, part |-> part, mac |-> mac]

set_cmd(a) ==
    IF argc(a) < 3 \/ a.cmd \notin DOMAIN Table THEN Refused
    ELSE IF argc(a) < Table[a.cmd].argc THEN Refused
    ELSE IF \E c \in DOMAIN Table : ~sanitize_command_index(c) THEN Refused
    ELSE set_cmd_args(a)

\* A command is run only as it was written, and every command can be.
RunsAsWritten(a, value) ==
    /\ value # Refused =>
         /\ value.cmd = a.cmd
         /\ value.part = 0 => a.arg = "0"
         /\ value.part = 1 => a.arg = "1"
         /\ a.cmd = "copy" <=> value.part # None
         /\ value.mac \in {None, a.arg, AnyMac}
    /\ value = Refused => \/ a.cmd \notin DOMAIN Table
                          \/ a.cmd = "copy" /\ a.arg \notin {"0", "1"}

----------------------------------------------------------------------------
HexDigit(n) == IF n < 10 THEN 48 + n ELSE 87 + n
HexByte(n) == <<HexDigit(n \div 16), HexDigit(n % 16)>>

\* Of each word the low byte comes first.
print_mac_from_nvm(words) ==
    LET Word16(w) == HexByte(w % 256) \o <<58>> \o HexByte(w \div 256)
    IN  Word16(words[0]) \o <<58>> \o Word16(words[1]) \o <<58>> \o Word16(words[2])

\* What is printed is what setmac would set, if it may be set at all.
PrintsWhatIsSet(words, text) ==
    parse_mac_string([str |-> text, drawn |-> [i \in 1 .. 17 |-> 0]]) \in {words, Refused}

----------------------------------------------------------------------------
\* A file is a function from the numbers of its blocks, and its second part is in
\* the middle; n blocks of padding follow each part.
Padding == -1

IsGbe(f) == \E half \in 1 .. Cardinality(DOMAIN f) : DOMAIN f = 0 .. 2 * half - 1

cat(f, n) ==
    LET half == Cardinality(DOMAIN f) \div 2
        part(p) == <<f[p * half]>> \o [i \in 1 .. n |-> Padding]
    IN  part(0) \o part(1)

nff(c) == CASE c = "cat" -> 0 [] c = "cat16" -> 1 [] c = "cat128" -> 15

\* What comes out is a GbE file of the size that was asked for, in blocks, and has
\* the same parts: the second is in the middle of it.
IsFileOfSize(f, out, blocks) ==
    /\ Len(out) = blocks
    /\ out[1] = f[0]
    /\ out[blocks \div 2 + 1] = f[Cardinality(DOMAIN f) \div 2]
=============================================================================
