----------------------------- MODULE Me7Update ------------------------------
(***************************************************************************)
(* util/me7_update_parser: makes an ME region of an update for ME 7, of    *)
(* which only the partition FTPR is kept and of FTPR only the modules ROMP *)
(* and BUP.  Other modules are filled with 0xFF, and what follows the last *)
(* module that is kept is cut off.  Modules that are compressed with       *)
(* Huffman's code are made of chunks, anywhere in one stream, which a      *)
(* table (LLUT) locates by their place in the flash, so that the table is  *)
(* changed for FTPR's new place behind a header of its own.                *)
(*                                                                         *)
(* Sizes are scaled: a unit stands for 0x10 to 0x400 bytes of the code.    *)
(***************************************************************************)
EXTENDS Integers, Sequences, SequencesExt

FTPR_END             == 40    \* what is read of the update
ORIG_FTPR_OFFSET     == 100
MINIFIED_FTPR_OFFSET == 4
BlockUnits    == 8            \* 0x1000
LineUnits     == 2            \* 0x20
ByteUnits     == 4            \* 0x100, what the second byte of an offset counts
spared_blocks == 1            \* 4 in the code
TableAt       == 1            \* 0x40, where LLUT's chunks are
ManifestEnd   == 3

UNREMOVABLE_MODULES == {"ROMP", "BUP"}

\* The header and the entry of FTPR before the partition, in bytes.  Byte 27 is
\* the checksum.
header_layout ==
    LET zero(n) == [i \in 1 .. n |-> 0]
        plain == <<32, 32, 128, 15, 64, 0, 0, 16>> \o zero(8) \o <<36, 70, 80, 84>>
                 \o <<1, 0, 0, 0>> \o <<32, 16, 48, 0>> \o <<7, 0, 100, 0, 32, 0>>
                 \o <<0, 0, 0, 252, 255, 255>> \o zero(8)
    IN  [plain EXCEPT ![28] = (256 - FoldLeft(+, 0, plain)) % 256]

FtpPartition ==
    LET entry == <<70, 84, 80, 82>> \o <<255, 255, 255, 255>> \o <<0, 4, 0, 0>>
                 \o <<0, 96, 7, 0>> \o <<1, 0, 0, 0>> \o <<1, 0, 0, 0>>
                 \o <<0, 0, 0, 0>> \o <<128, 39, 0, 0>>
    IN  entry \o [i \in 1 .. 1024 - (Len(entry) + 48) |-> 255]

\* The header is 0x400 bytes long, which is where its entry says that FTPR is, and
\* adds up to nothing.
ASSUME HeaderAssumption ==
    /\ Len(header_layout \o FtpPartition) = 1024 /\ SubSeq(FtpPartition, 9, 12) = <<0, 4, 0, 0>>
    /\ FoldLeft(+, 0, header_layout) % 256 = 0

\* An update: the modules, each with the way it is compressed, its place or that
\* of the LLUT, and for a Huffman one its place in the memory; the LLUT; and how
\* far apart the marks of the module headers are.  A unit of FTPR is its offset.
Updates ==
    [modules : Seq([name : STRING, comp : {"uncomp", "lzma", "huffman", "other"},
                    offset : Nat, base : Nat, size : Nat]),
     llut : [present : BOOLEAN, at : Nat, corr : Nat, spi : Nat, base : Nat,
             chunk_size : Nat \ {0}, chunks : Seq(Nat) \ {<< >>}, stream : Nat, size : Nat],
     marks : {"0x60", "0x80", "none", "fewer"}, ftpr : {[i \in 1 .. FTPR_END |-> i - 1]}]

Plain(mod)     == mod.comp \in {"uncomp", "lzma"}
Huffman(mod)   == mod.comp = "huffman"
Essential(mod) == mod.name \in UNREMOVABLE_MODULES
Modules(u)     == ToSet(u.modules)
HasHuffman(u)  == \E mod \in Modules(u) : Huffman(mod)

Cleared == -1

clear_ftpr_data(ftpr, ranges) ==
    [i \in DOMAIN ftpr |->
       IF \E r \in ranges : r[1] < i /\ i <= r[2] THEN Cleared ELSE ftpr[i]]

\* A chunk ends where the next one of the stream begins; one of two with the same
\* place is empty.
get_chunks_offsets(llut) ==
    LET end     == llut.stream + llut.size
        chunks  == llut.chunks
        after(i) == {o \in ToSet(chunks) \cup {end} : o > chunks[i]}
        shared(i) == \/ \E j \in DOMAIN chunks \ {i} : chunks[j] = chunks[i]
                     \/ chunks[i] = end
    IN  [i \in DOMAIN chunks |->
           IF chunks[i] = 0 THEN <<0, 0>>
           ELSE <<chunks[i], IF shared(i) THEN chunks[i] ELSE Min(after(i))>>]

\* One chunk more than a module has, when its size is a multiple of theirs.
ModuleChunks(u, mod) ==
    LET first == (mod.base - u.llut.base) \div u.llut.chunk_size
        last  == first + mod.size \div u.llut.chunk_size
        all   == get_chunks_offsets(u.llut)
    IN  {all[i] : i \in {k \in DOMAIN all : first < k /\ k <= last + 1}}

unremovable_huff_chunks(u) ==
    {c \in UNION {ModuleChunks(u, mod) : mod \in {x \in Modules(u) : Huffman(x) /\ Essential(x)}} :
       c[1] # 0}

\* Mutant of Touches: a chunk that ends where a kept one begins is kept, and one
\* inside a kept one is not.
only_ends(c, kept) == kept[1] <= c[2] /\ c[2] < kept[2]

Touches(c, kept) ==
    \/ kept[1] <= c[1] /\ c[1] < kept[2]
    \/ kept[1] < c[2] /\ c[2] <= kept[2]

\* What is cleared: modules, and chunks that no module which stays has a part in.
removed_ranges(u) ==
    {<<mod.offset, Min({mod.offset + mod.size, FTPR_END})>> :
       mod \in {x \in Modules(u) : Plain(x) /\ ~Essential(x)}}
    \cup (IF ~HasHuffman(u) THEN {}
          ELSE {<<c[1] - ORIG_FTPR_OFFSET, c[2] - ORIG_FTPR_OFFSET>> :
                  c \in {x \in ToSet(get_chunks_offsets(u.llut)) :
                           /\ \A k \in unremovable_huff_chunks(u) : ~Touches(x, k)
                           /\ x[2] > x[1]}})

\* The partition without the modules, and where the last one that is left ends.
remove_modules(u) ==
    LET stay == {x \in Modules(u) : Plain(x) /\ Essential(x)}
        ends == {mod.offset + mod.size : mod \in stay} \cup {0}
    IN  [ftpr |-> clear_ftpr_data(u.ftpr, removed_ranges(u)),
         end  |-> IF HasHuffman(u)
                    THEN Max({c[2] : c \in unremovable_huff_chunks(u)} \cup ends) - ORIG_FTPR_OFFSET
                    ELSE Max(ends)]

\* FTPR's new place.  The fields that are taken for its old place and size are
\* reserved ones of the manifest, which are zero: no data is moved.
new_offset(u) ==
    LET least == Max({MINIFIED_FTPR_OFFSET, u.llut.corr - u.llut.at - TableAt})
    IN  IF ~HasHuffman(u) THEN MINIFIED_FTPR_OFFSET
        ELSE ((least + LineUnits - 1) \div LineUnits) * LineUnits

\* The LLUT's own place is what it was made for (corr) and spi, which is set here.
Adjusted(llut, new) ==
    LET diff == MINIFIED_FTPR_OFFSET - ORIG_FTPR_OFFSET
    IN  [llut EXCEPT !.spi = llut.at + new + TableAt - llut.corr, !.stream = @ + diff,
                     !.chunks = [i \in DOMAIN @ |-> IF @[i] = 0 THEN 0 ELSE @[i] + diff]]

resize_partition(end) ==
    (end \div BlockUnits + 1 + spared_blocks) * BlockUnits - MINIFIED_FTPR_OFFSET

\* Writing the new place changes the two bytes of the manifest at 0x38, of which
\* the second is then cleared again: what is left in the first fails the check.
check_partition_signature(ftpr, new) ==
    new % ByteUnits = 0 /\ \A i \in 1 .. ManifestEnd : ftpr[i] = i - 1

\* How it ends, and what it leaves: the partition behind its header, and its LLUT.
\* A module that is compressed in a way that has no name is not skipped, as it was
\* meant to be: the name is looked up first, which fails.
generate_me_blob(u) ==
    LET s   == remove_modules(u)
        new == new_offset(u)
        len == Min({resize_partition(s.end + new), Len(s.ftpr)})
    IN  IF \/ u.marks = "fewer" \/ (u.marks = "none" /\ Len(u.modules) > 1)
           \/ \E mod \in Modules(u) : mod.comp = "other"
           \/ HasHuffman(u) /\ (~u.llut.present \/ unremovable_huff_chunks(u) = {})
        THEN [status |-> "failed", ftpr |-> << >>, llut |-> u.llut]
        ELSE [status |-> IF check_partition_signature(s.ftpr, new) THEN "valid" ELSE "invalid",
              ftpr |-> SubSeq(s.ftpr, 1, len),
              llut |-> IF HasHuffman(u) THEN Adjusted(u.llut, new) ELSE u.llut]

----------------------------------------------------------------------------
\* The data of a module: offsets of FTPR.
DataOf(u, mod) ==
    IF Plain(mod) THEN mod.offset .. mod.offset + mod.size - 1
    ELSE UNION {c[1] - ORIG_FTPR_OFFSET .. c[2] - ORIG_FTPR_OFFSET - 1 :
                  c \in {x \in ModuleChunks(u, mod) : x[1] # 0}}

\* What updates are made like: all is in FTPR, and what is read of it; the modules
\* lie on nothing else, and the LLUT before the chunks, of which no two are at one
\* place; Huffman modules are behind where the LLUT's memory begins; the modules that
\* stay and are not Huffman ones come before those that are; and the LLUT was made
\* for a place no further than the new one can be.
Sane(u) ==
    LET llut == u.llut
        used == {i \in DOMAIN llut.chunks : llut.chunks[i] # 0}
        stay == {mod \in Modules(u) : Essential(mod)}
    IN  /\ \A x \in stay : Huffman(x) \/ (Plain(x) /\ x.offset + x.size <= FTPR_END)
        /\ \A x, y \in Modules(u) :
             Plain(x) /\ Plain(y) /\ x # y => DataOf(u, x) \cap DataOf(u, y) = {}
        /\ \A x \in stay : Plain(x) /\ HasHuffman(u) =>
             \A y \in stay : Huffman(y) => \A a \in DataOf(u, x), b \in DataOf(u, y) : a < b
        /\ HasHuffman(u) =>
             /\ \A x \in Modules(u) : Huffman(x) => llut.base <= x.base
             /\ \A x \in Modules(u) : Plain(x) =>
                  /\ llut.at \notin DataOf(u, x)
                  /\ \A c \in ToSet(get_chunks_offsets(llut)), o \in DataOf(u, x) :
                       ~(c[1] <= ORIG_FTPR_OFFSET + o /\ ORIG_FTPR_OFFSET + o < c[2])
             /\ \A i, j \in used : i # j => llut.chunks[i] # llut.chunks[j]
             /\ \A i \in used : /\ ORIG_FTPR_OFFSET + llut.at < llut.chunks[i]
                                /\ llut.chunks[i] < llut.stream + llut.size
             /\ llut.stream + llut.size <= ORIG_FTPR_OFFSET + FTPR_END
             /\ llut.corr <= llut.at + TableAt + MINIFIED_FTPR_OFFSET

\* What is valid has all of ROMP and BUP where FTPR was made to have them, and the
\* table that finds their chunks, at their new place in the flash, where the header
\* says the partition is; and of other modules not a byte but in a chunk they share.
ModulesKept(u, value) ==
    value.status = "valid" =>
        LET holds(o) == o < Len(value.ftpr) /\ value.ftpr[o + 1] = o
            stay == UNION {DataOf(u, mod) : mod \in {x \in Modules(u) : Essential(x)}}
            shown == [i \in DOMAIN value.llut.chunks |->
                        value.llut.chunks[i] - MINIFIED_FTPR_OFFSET]
        IN  /\ \A o \in stay : holds(o)
            /\ HasHuffman(u) =>
                 /\ holds(u.llut.at)
                 /\ value.llut.spi + u.llut.corr = MINIFIED_FTPR_OFFSET + u.llut.at + TableAt
                 /\ \A i \in DOMAIN shown :
                      IF u.llut.chunks[i] = 0 THEN value.llut.chunks[i] = 0
                      ELSE shown[i] + ORIG_FTPR_OFFSET = u.llut.chunks[i]
            /\ \A mod \in Modules(u) : ~Essential(mod) /\ (Plain(mod) \/ Huffman(mod)) =>
                 \A o \in DataOf(u, mod) \ stay : ~holds(o)
            /\ \/ Len(value.ftpr) = FTPR_END
               \/ (Len(value.ftpr) + MINIFIED_FTPR_OFFSET) % BlockUnits = 0
=============================================================================
