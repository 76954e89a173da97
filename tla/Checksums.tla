------------------------------ MODULE Checksums -----------------------------
(***************************************************************************)
(* util/sbase: sha512sum, by which lbmk verifies downloads, notices        *)
(* changed configurations and compares images, with sha256, sha1 and md5,  *)
(* which are made in the same way.  A message comes in chunks of any size  *)
(* (read from a pipe), is cut into blocks through a buffer, and padded;    *)
(* the blocks are mixed one after the other (processblock), which only     *)
(* their sequence stands for here.  A word of the code is one byte here,   *)
(* so that a block has 16.                                                 *)
(*                                                                         *)
(* sha512sum -c compares the files of a list with the digests in it.       *)
(***************************************************************************)
EXTENDS Integers, Sequences, SequencesExt, LibValues

Block == 16

\* What the algorithms differ in: the state they start from and how they mix a
\* block into it; the words of it that are written as the digest, and the length
\* of the digest, in half words; and the field for the length of the message, of
\* two words (sha512 only ever uses the second).
sha512     == [init |-> "sha512", words |-> 8, len |-> 16, field |-> "second"]
sha384     == [init |-> "sha384", words |-> 6, len |-> 12, field |-> "second"]
sha512_256 == [init |-> "sha512_256", words |-> 4, len |-> 8, field |-> "second"]
sha512_224 == [init |-> "sha512_224", words |-> 4, len |-> 7, field |-> "second"]
sha256     == [init |-> "sha256", words |-> 8, len |-> 16, field |-> "big"]
sha224     == [init |-> "sha224", words |-> 8, len |-> 14, field |-> "big"]
sha1       == [init |-> "sha1", words |-> 5, len |-> 10, field |-> "big"]
md5        == [init |-> "md5", words |-> 4, len |-> 8, field |-> "little"]

Algorithms == {sha512, sha384, sha512_256, sha512_224, sha256, sha224, sha1, md5}

Octets  == 0 .. 255
Blocks == [1 .. Block -> Octets]

\* A message in its chunks, an algorithm, and what is in the buffer before.
SumCalls == [chunks : Seq(Seq(Octets)), alg : Algorithms, stale : Blocks]

Field(alg, len) ==
    CASE alg.field = "second" -> <<0, len % 256>>
      [] alg.field = "big"    -> <<(len \div 256) % 256, len % 256>>
      [] alg.field = "little" -> <<len % 256, (len \div 256) % 256>>

Zeroes(n) == [i \in 1 .. n |-> 0]

\* memcpy to an offset of the buffer, and memset.
Copied(buf, r, p) ==
    [i \in 1 .. Block |-> IF i \in r + 1 .. r + Len(p) THEN p[i - r] ELSE buf[i]]

\* A context: the blocks that were mixed, the buffer, and the length so far.
processblock(s) == [s EXCEPT !.h = Append(@, s.buf)]

\* Whole blocks go past the buffer, and the rest to its start.
Whole(s, p) ==
    LET n == Len(p) \div Block
    IN  [s EXCEPT !.h = @ \o [i \in 1 .. n |-> SubSeq(p, Block * (i - 1) + 1, Block * i)],
                  !.buf = Copied(@, 0, SubSeq(p, Block * n + 1, Len(p)))]

update(s, p) ==
    LET r     == s.len % Block
        room  == Block - r
        t     == [s EXCEPT !.len = @ + Len(p)]
        first == [t EXCEPT !.buf = Copied(@, r, SubSeq(p, 1, room))]
    IN  IF r = 0 THEN Whole(t, p)
        ELSE IF Len(p) < room THEN [t EXCEPT !.buf = Copied(@, r, p)]
        ELSE Whole(processblock(first), SubSeq(p, room + 1, Len(p)))

\* No room is left for the length, after the mark.
overflows(r) == r > Block - 2

pad(s, alg) ==
    LET r      == (s.len % Block) + 1
        marked == [s EXCEPT !.buf = Copied(@, r - 1, <<128>>)]
        spilt  == processblock([marked EXCEPT !.buf = Copied(@, r, Zeroes(Block - r))])
        ended(t, at) ==
          LET zeroed == Copied(t.buf, at, Zeroes(Block - 2 - at))
          IN  processblock([t EXCEPT !.buf = Copied(zeroed, Block - 2, Field(alg, 8 * s.len))])
    IN  IF overflows(r) THEN ended(spilt, 0) ELSE ended(marked, r)

\* init leaves the buffer as it is; update follows each read; the sum is made of
\* the first words.
cryptsum(chunks, alg, stale) ==
    LET init == [h |-> << >>, buf |-> stale, len |-> 0]
        s    == pad(FoldLeft(update, init, chunks), alg)
    IN  [init |-> alg.init, blocks |-> s.h, words |-> 1 .. alg.words]

----------------------------------------------------------------------------
\* The message, a one, zeroes up to the length, and the length (FIPS 180).
Padded(m, alg) ==
    m \o <<128>> \o Zeroes((13 - Len(m)) % Block) \o Field(alg, 8 * Len(m))

\* The blocks that were mixed are those of the padded message, however it was
\* cut into chunks and whatever the buffer held.
SumOfMessage(c, value) ==
    /\ FlattenSeq(value.blocks) = Padded(FlattenSeq(c.chunks), c.alg)
    /\ \A i \in DOMAIN value.blocks : Len(value.blocks[i]) = Block
    /\ value.init = c.alg.init

----------------------------------------------------------------------------
(* sha512sum -c.  A line has the digits of a digest, two spaces or not, and  *)
(* the name of a file, which may be "absent", "unreadable", or have a digest *)
(* md.  A digit is its value, or -1.                                         *)

Lines ==
    [digits : Seq(-1 .. 15), spaces : BOOLEAN, md : Seq(Octets), file : {"there", "absent", "unreadable"}]

\* Digit by digit: 1 for a match, 0 for a mismatch, which ends the comparison,
\* and -1 for what is no digit.
mdcheckline(digits, md) ==
    LET wrong(i) == \/ -1 \in {digits[2 * i - 1], digits[2 * i]}
                    \/ 16 * digits[2 * i - 1] + digits[2 * i] # md[i]
        first == SelectInSeq([i \in DOMAIN md |-> wrong(i)], LAMBDA w : w)
    IN  IF first = 0 THEN 1
        ELSE IF -1 \in {digits[2 * first - 1], digits[2 * first]} THEN -1 ELSE 0

\* What a line counts as.
mdcheckentry(line) ==
    IF ~line.spaces \/ Len(line.digits) \div 2 # Len(line.md) THEN "formatsucks"
    ELSE IF line.file \in {"absent", "unreadable"} THEN "noread"
    ELSE CASE mdcheckline(line.digits, line.md) = 1 -> "OK"
           [] mdcheckline(line.digits, line.md) = 0 -> "nonmatch"
           [] OTHER -> "formatsucks"

mdchecklist(lines) == [i \in DOMAIN lines |-> mdcheckentry(lines[i])]

\* The lists in turn, of which one may not be there.
Lists == [there : BOOLEAN, lines : Seq(Lines)]

cryptcheck(lists) ==
    LET wrong(list) ==
          ~list.there \/ \E i \in DOMAIN list.lines : mdchecklist(list.lines)[i] # "OK"
    IN  IF \E l \in DOMAIN lists : wrong(lists[l]) THEN 1 ELSE 0

LineHolds(line) ==
    /\ line.spaces /\ line.file = "there" /\ Len(line.digits) \div 2 = Len(line.md)
    /\ \A k \in DOMAIN line.md : /\ line.digits[2 * k - 1] = line.md[k] \div 16
                                /\ line.digits[2 * k] = line.md[k] % 16

\* Success means that every list was read, and that every line of each has the digest
\* of a file that is there.
ListHolds(lists, value) ==
    value = 0 <=> \A l \in DOMAIN lists :
        lists[l].there /\ \A i \in DOMAIN lists[l].lines : LineHolds(lists[l].lines[i])

----------------------------------------------------------------------------
(* The programs.  A call has options, the names of files, what each of these   *)
(* is ("there", with a number for its contents, "absent" or "unreadable"), and *)
(* for -c the lists.  A name with the end of a line in it is "two lines".       *)

\* Every file that is named is one that files has something of.
IsProgramCall(x) ==
    /\ x.program \in {"sha512sum", "sha384sum", "sha512-256sum", "sha512-224sum", "sha256sum",
                       "sha224sum", "sha1sum", "md5sum"}
    /\ x.args \in Seq(DOMAIN x.files \cup {"-"}) /\ x.content \in Nat
    /\ x.files \in [DOMAIN x.files -> {"there", "absent", "unreadable"}]

Digest(alg, content) == [i \in 1 .. alg.len |-> (16 * content + 7 * i) % 256]

\* mdprint: every byte as two digits, and the name.
mdprint(md, name) ==
    [digits |-> [k \in 1 .. 2 * Len(md) |->
                   IF k % 2 = 1 THEN md[(k + 1) \div 2] \div 16 ELSE md[k \div 2] % 16],
     spaces |-> TRUE, name |-> name]

\* The files in turn, or the standard input, which is always there; the status is
\* that of the worst.
cryptmain(x, alg) ==
    LET named  == IF x.args = << >> THEN << "-" >> ELSE x.args
        is(f)  == IF f = "-" THEN "there" ELSE x.files[f]
        read   == Keep(named, {i \in DOMAIN named : is(named[i]) = "there"})
        line(f) == mdprint(Digest(alg, x.content), IF f = "-" THEN "<stdin>" ELSE f)
    IN  [lines |-> [i \in DOMAIN read |-> line(read[i])],
         status |-> IF Len(read) = Len(named) THEN 0 ELSE 1]

\* main: -b and -t mean nothing, and other options end the program.
main(x, alg) ==
    IF ~x.options \subseteq {"b", "t", "c"} THEN [lines |-> << >>, status |-> 1]
    ELSE IF "c" \in x.options THEN [lines |-> << >>, status |-> cryptcheck(x.lists)]
    ELSE cryptmain(x, alg)

sha512sum(x)     == main(x, sha512)
sha384sum(x)     == main(x, sha384)
sha512_256sum(x) == main(x, sha512_256)
sha512_224sum(x) == main(x, sha512_224)
sha256sum(x)     == main(x, sha256)
sha224sum(x)     == main(x, sha224)
sha1sum(x)       == main(x, sha1)
md5sum(x)        == main(x, md5)

SumProgram(x) ==
    CASE x.program = "sha512sum"     -> sha512sum(x)
      [] x.program = "sha384sum"     -> sha384sum(x)
      [] x.program = "sha512-256sum" -> sha512_256sum(x)
      [] x.program = "sha512-224sum" -> sha512_224sum(x)
      [] x.program = "sha256sum"     -> sha256sum(x)
      [] x.program = "sha224sum"     -> sha224sum(x)
      [] x.program = "sha1sum"       -> sha1sum(x)
      [] x.program = "md5sum"        -> md5sum(x)

\* The list that is printed, as -c reads it later, when the contents of the files
\* are a number.
Listed(x, lines, alg, content) ==
    LET file(name) == IF name \in DOMAIN x.files \ {"two lines"} THEN x.files[name] ELSE "absent"
    IN  [there |-> TRUE,
         lines |-> [i \in DOMAIN lines |->
                      [digits |-> lines[i].digits, spaces |-> lines[i].spaces,
                       md |-> Digest(alg, content), file |-> file(lines[i].name)]]]

\* A list that was printed without an error, of files with names of one line, is
\* found right as long as the files are the same, and wrong when they are not.
ListIsChecked(x, value) ==
    LET alg == CASE x.program = "sha512sum" -> sha512 [] x.program = "sha384sum" -> sha384
                 [] x.program = "sha512-256sum" -> sha512_256 [] x.program = "sha512-224sum" -> sha512_224
                 [] x.program = "sha256sum" -> sha256 [] x.program = "sha224sum" -> sha224
                 [] x.program = "sha1sum" -> sha1 [] x.program = "md5sum" -> md5
        names == {"-", "two lines"} \cap Range(x.args)
    IN  x.options \subseteq {"b", "t"} /\ x.args # << >> =>
            /\ value.status = 0 <=> \A i \in DOMAIN x.args : x.args[i] = "-" \/ x.files[x.args[i]] = "there"
            /\ value.status = 0 /\ names = {} =>
                 /\ Len(value.lines) = Len(x.args)
                 /\ cryptcheck(<<Listed(x, value.lines, alg, x.content)>>) = 0
                 /\ cryptcheck(<<Listed(x, value.lines, alg, x.content + 1)>>) = 1
=============================================================================
