----------------------------- MODULE MCLibrary -----------------------------
(* Inputs for Library.  Bytes have two bits and words two bytes; strings of up *)
(* to four bytes lie at every alignment, also right before the end of a page.  *)
EXTENDS Library

Strings(n) == UNION {[1 .. k -> {1, 3}] : k \in 0 .. n}

SomeStringCalls ==
    LET call(fns, ss, ts) ==
          [fn : fns, s : ss, t : ts, ps : 0 .. PageSize - 1, pt : 0 .. PageSize - 1,
           max : {0, 1, 2, 3, 5, 6}, rest : {0, 1}]
        One == [fn : {"slen", "sdup"}, s : Strings(4), t : {<<>>}, ps : 0 .. PageSize - 1,
                pt : {0}, max : 0 .. 6, rest : {0, 1}]
        Buffers == [fn : {"vcmp"}, s : [1 .. 5 -> {0, 3}], t : [1 .. 5 -> {0, 3}],
                    ps : {0, 1}, pt : {0, 1}, max : {0, 1, 4, 5}, rest : {0}]
    IN  call({"scmp"}, Strings(3), Strings(3)) \cup One \cup Buffers

\* Characters at the borders of what hextonum tells apart.
Chars == {31, 47, 48, 49, 57, 58, 63, 64, 65, 70, 71, 88, 96, 97, 102, 103, 120}

\* An address of zeroes and colons with two other characters, or a wrong length.
SomeMacCalls ==
    LET plain == [i \in 1 .. 17 |-> IF i % 3 = 0 THEN 58 ELSE 48]
        strings == {[plain EXCEPT ![p] = a, ![q] = b] :
                      p \in {1, 2, 3}, q \in {2, 4, 16, 17}, a \in Chars, b \in Chars}
        short == {SubSeq(plain, 1, 16), Append(plain, 48)}
    IN  [str : strings \cup short, drawn : [1 .. 17 -> {0}] \cup [1 .. 17 -> {15}] \cup
           {[i \in 1 .. 17 |-> i % 16]}]

\* A message of up to three bytes more than two blocks, in up to three chunks.
SomeSumCalls ==
    LET m == [i \in 1 .. 2 * Block + 3 |-> i]
        cuts == {<<i, j, n>> \in (0 .. Len(m)) \X (0 .. Len(m)) \X (0 .. Len(m)) :
                   i <= j /\ j <= n}
    IN  {[chunks |-> <<SubSeq(m, 1, c[1]), SubSeq(m, c[1] + 1, c[2]), SubSeq(m, c[2] + 1, c[3])>>,
          alg |-> a, stale |-> [i \in 1 .. Block |-> 255]] :
           c \in cuts, a \in {sha512, sha384, sha512_256, sha256, sha1, md5}}

\* A list of up to two lines, right or wrong in each way, and several lists.
SomeCheckCalls ==
    LET line(digits, spaces, file) ==
          [digits |-> digits, spaces |-> spaces, file |-> file, md |-> <<18, 171>>]
        SomeLines == {line(d, s, f) :
                        d \in {<<1, 2, 10, 11>>, <<1, 2, 10, 11, 0>>, <<1, 2, 10>>, <<1, 3, -1, 0>>,
                               <<1, 2, 10, -1>>, <<1, 2, 10, 12>>, << >>},
                        s \in BOOLEAN, f \in {"there", "absent", "unreadable"}}
        good == line(<<1, 2, 10, 11>>, TRUE, "there")
        one == [there : {TRUE}, lines : UNION {[1 .. n -> SomeLines] : n \in 0 .. 2}]
        lists == [there : BOOLEAN, lines : {<<good>>, <<good, line(<<1, 3, 10, 11>>, TRUE, "there")>>}]
    IN  {<<list>> : list \in one} \cup UNION {[1 .. n -> lists] : n \in 0 .. 3}

\* Up to two files, with or without the options that mean nothing.
SomeSumPrograms ==
    LET Names == {"a", "b", "-", "two lines"}
    IN  [program : {"sha512sum", "sha384sum", "sha512-256sum", "sha512-224sum", "sha256sum",
                    "sha224sum", "sha1sum", "md5sum"},
         options : {{}, {"b"}, {"c"}, {"z"}}, args : UNION {[1 .. n -> Names] : n \in 0 .. 2},
         files : [{"a", "b", "two lines"} -> {"there", "absent", "unreadable"}], content : {3},
         lists : {<< >>, <<[there |-> FALSE, lines |-> << >>]>>}]

\* Two modules from the stream, one of ROMP or BUP, with the chunks they have in
\* any order, shared or not there, and two that lie before the stream.
SomeUpdates ==
    LET mod(n, c, o, b, s) == [name |-> n, comp |-> c, offset |-> o, base |-> b, size |-> s]
        huff(n, b, s) == mod(n, "huffman", 4, b, s)
        heads == {<<mod("X", c, 6, 0, 3), mod("BUP", "uncomp", 9, 0, 3)>> :
                    c \in {"uncomp", "lzma", "other"}}
                   \cup {<<mod("BUP", "lzma", 6, 0, 5)>>, << >>}
        tails == {<< >>, <<huff("ROMP", 50, 1)>>, <<huff("Z", 50, 3)>>}
                   \cup {<<huff("Z", 50 + z, 1), huff("ROMP", 50 + r, k)>> :
                           z \in {0, 2, 3}, r \in {0, 1, 2}, k \in {1, 2}}
        llut(p, c, ch) == [present |-> p, at |-> 4, corr |-> c, spi |-> 0, base |-> 50,
                           chunk_size |-> 2, chunks |-> ch, stream |-> 112, size |-> 26]
        anUpdate(mods, l, m) == [modules |-> mods, llut |-> l, marks |-> m,
                               ftpr |-> [i \in 1 .. FTPR_END |-> i - 1]]
        usual == <<114, 132, 118>>
    IN  {anUpdate(h \o t, llut(TRUE, 0, ch), "0x60") :
           h \in heads, t \in tails, ch \in [1 .. 3 -> {0, 114, 118, 132}]}
        \cup {anUpdate(h \o t, llut(p, c, usual), m) : h \in heads, t \in tails,
               p \in BOOLEAN, c \in {9, 10, 11, 13}, m \in {"0x80", "none", "fewer"}}

\* Strings of up to two characters, one too long for the limit, and null pointers.
SomePartsCalls ==
    LET Some == Strings(2) \cup {<<1, 1, 1>>}
        dests == {"free", "taken", "null"}
    IN  [fn : {"scatn"}, sv : UNION {[1 .. n -> {<< >>, <<1>>, <<1, 3>>, None}] : n \in 0 .. 3},
         n : {0, 2, 3, 4}, off : {0}, dest : dests, memory : BOOLEAN]
        \cup [fn : {"dcat"}, sv : {<<s>> : s \in Some}, n : {0, 3, 4}, off : 0 .. 3,
              dest : dests, memory : BOOLEAN]

SomeExits ==
    LET Names == {None, <<97>>, <<47, 97, 47, 98>>}
        Some == ({"errhook"} \X {None, "a", "b"}) \cup ({"lbsetprogname"} \X Names)
        errnos == {"0", "EIO", "ENOENT"}
    IN  [calls : UNION {[1 .. n -> Some] : n \in 0 .. 3}, errno : errnos, after : errnos]

SomePaths == [path : UNION {[1 .. n -> {46, 47, 97}] : n \in 0 .. 6}, relative : BOOLEAN]

SomeFsCalls ==
    LET inode == [inode : {1, 2}, size : {1, 2}, regular : BOOLEAN]
    IN  [fn : {"again", "check_file", "same_file", "open", "xclose"}, open : BOOLEAN,
         null : BOOLEAN, seekable : BOOLEAN, check_size : BOOLEAN, st : BOOLEAN, now : inode,
         before : {[inode |-> 1, size |-> 1, regular |-> TRUE]},
         answers : {<<"ok">>, <<"fail">>, <<"EINTR", "ok">>, <<"EINTR", "EINTR", "fail">>}]

\* Versions from a file and from git, of up to four and five characters.
SomeVersions ==
    LET Text(n) == UNION {[1 .. k -> {" ", ".", "/", "-", "x"}] : k \in 0 .. n}
        file(n) == {None} \cup [text : Text(n), newline : BOOLEAN]
        dates == {None, [text |-> <<"x">>, newline |-> TRUE]}
    IN  [git : {"none", "broken", "untagged"}, tag : {<< >>}, version : file(4), versiondate : dates]
        \cup [git : {"tagged"}, tag : Text(5), version : {None}, versiondate : dates]

SomeEnvironments ==
    [cache : {"none", "directory", "file"}, XBMK_RELEASE : {"unset", "y", "Y", "n", "other"},
     XBMK_CACHE_MIRROR : {"unset", "y", "n", "other"},
     XBMK_THREADS : {"unset", "number", "-number", "other"}]

\* No python, one of each kind, and what can take its place.
SomePythons ==
    LET real(k, m) == [kind |-> k, major |-> m, venv |-> FALSE]
        Three == {None, real("executable", 3)}
        Found == {None} \cup [kind : {"executable"}, major : {2, 3}, venv : BOOLEAN]
    IN  [{"python3", "python"} ->
           [path : Found, target : Three \cup {real("directory", 3)}, local : Three,
            usr : Three \cup {real("file", 3)}]]

\* A board that asks for everything, of archives that are in order but for those of
\* one vendor, and boards that ask for less.
SomeBoards ==
    LET all == [wants |-> Files, null |-> {}, nosum |-> {}, me |-> TRUE, tree_has_ec_dump |-> TRUE, refcode_cbtree |-> TRUE,
                bins |-> 1, cab |-> "none", vga_set |-> TRUE, vga |-> "vga",
                bios_at_its_path |-> TRUE, tbfw_size |-> TRUE, tbts |-> <<"longer">>,
                root |-> [start |-> 4, size |-> 12, shellball |-> 8], mrc_set |-> TRUE,
                refcode_gbe |-> TRUE, fsp_splits |-> TRUE]
        tbts == UNION {[1 .. n -> {"link", "exact", "longer", "shorter"}] : n \in 0 .. 2}
        roots == [start : {4, 5, 7, 8}, size : {8, 9, 11, 12}, shellball : {3, 4, 5, 7, 8}]
        boards ==
          {[all EXCEPT !.me = m, !.bios_at_its_path = b, !.fsp_splits = f, !.vga_set = s, !.vga = v] :
             m \in BOOLEAN, b \in BOOLEAN, f \in BOOLEAN, s \in BOOLEAN, v \in {"vga", "junk", "absent"}}
          \cup {[all EXCEPT !.tree_has_ec_dump = t, !.bins = n, !.cab = c] :
                  t \in BOOLEAN, n \in 0 .. 2, c \in {"none", "ROM.CAB", "Rom.CAB", "68.CAB"}}
          \cup {[all EXCEPT !.tbfw_size = s, !.tbts = t] : s \in BOOLEAN, t \in tbts}
          \cup {[all EXCEPT !.root = r, !.mrc_set = s, !.refcode_gbe = g, !.refcode_cbtree = c] :
                  r \in roots, s \in BOOLEAN, g \in BOOLEAN, c \in BOOLEAN}
          \cup {[all EXCEPT !.null = n, !.nosum = s, !.me = m] :
                  n \in {{"me"}, {"mrc", "tb"}}, s \in {{}, {"me"}, {"fw2"}}, m \in BOOLEAN}
        lists == {Files, {}, {"fw1", "fw2"}, {"mrc", "refcode"}, {"fspm", "fsps"}}
                   \cup {{f} : f \in Files}
    IN  {[b EXCEPT !.wants = w] : b \in boards, w \in lists}

\* Three runs, of which the first two may be killed anywhere: in two directories, with
\* two glibcs of which the first may be gone at last; and runs that lack something.
SomeSetups ==
    LET aRun(p, g, k, part) ==
          [pwd |-> p, glibc |-> g, killed |-> k, part |-> part, collected |-> {}, net |-> TRUE,
           font |-> TRUE, profile |-> TRUE]
        Parts(k) == IF k = 0 THEN {0}
                    ELSE IF Sections[k] \in {"gnat", "moved"} THEN 0 .. 2
                    ELSE IF Sections[k] \in {"interp", "wrap", "gcc", "sbase", "font", "state"} THEN {0, 1}
                    ELSE {0}
        kills == UNION {{<<k, part>> : part \in Parts(k)} : k \in 0 .. Len(Sections)}
        lasts == {aRun(p, 2, 0, 0) : p \in {"a", "b"}}
        lacks == UNION {{[l EXCEPT !.collected = {1}], [l EXCEPT !.net = FALSE],
                         [l EXCEPT !.font = FALSE], [l EXCEPT !.profile = FALSE]} : l \in lasts}
    IN  {<<aRun("a", 1, k[1], k[2]), aRun(p, g, j[1], j[2]), l>> :
           k \in kills, j \in kills, p \in {"a", "b"}, g \in {1, 2}, l \in lasts \cup lacks}

SomeShells ==
    [sourced : BOOLEAN, environment : BOOLEAN, gcc : {"none", "broken", "runs"}, gxx : BOOLEAN,
     arm : BOOLEAN, built : BOOLEAN, path : UNION {[1 .. n -> {"pico", "local", "guix"}] : n \in 0 .. 3}]

\* Arguments that are commands, or nearly, and those they might take.
SomeArguments ==
    {a \in [cmd : DOMAIN Table \cup {None, "", "swapp", "ca"},
            arg : {None, "", "0", "1", "2", "01", "00:11:22:33:44:55"}] :
       a.cmd = None => a.arg = None}

SomeWords == [{0, 1, 2} -> {0, 1, 258, 40960, 65535, 4660}]

SomeFiles ==
    [file : {[k \in 0 .. 2 * half - 1 |-> k] : half \in {1, 2, 16}}, cmd : {"cat", "cat16", "cat128"}]

SomeInputs ==
    [f \in Functions |->
       CASE f = "string" -> SomeStringCalls
         [] f = "parts"  -> SomePartsCalls
         [] f = "exit"   -> SomeExits
         [] f = "path"   -> SomePaths
         [] f = "fs"     -> SomeFsCalls
         [] f = "rsize"  -> 1 .. SIZE_MAX
         [] f = "mac"    -> SomeMacCalls
         [] f = "argv"   -> SomeArguments
         [] f = "dump"   -> SomeWords
         [] f = "cat"    -> SomeFiles
         [] f = "sum"    -> SomeSumCalls
         [] f = "check"  -> SomeCheckCalls
         [] f = "sums"   -> SomeSumPrograms
         [] f = "me7"    -> SomeUpdates
         [] f = "tmpdir" -> Machines \X (Paths \cup {Unset})
         [] f = "version"     -> SomeVersions
         [] f = "environment" -> SomeEnvironments
         [] f = "python" -> SomePythons
         [] f = "vendor" -> SomeBoards
         [] f = "import" -> Imports
         [] f = "setup"  -> SomeSetups
         [] f = "pico"   -> SomeShells]

SomeOffsets == {-1, 0, 1, FileMax}
=============================================================================
