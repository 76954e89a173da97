----------------------------- MODULE GuixSetup ------------------------------
(***************************************************************************)
(* init.sh, which makes a Guix system fit for building lbmk and may be run *)
(* again at any time: after it was killed, after the project was moved to  *)
(* another directory, or with another glibc.  Between its runs, if it      *)
(* succeeded, ./mk builds what bakes in the directory.  And init-pico.sh,  *)
(* for the serial programmers' firmware.                                   *)
(*                                                                         *)
(* A glibc is its number, 0 for the one that is not there on Guix.  Files  *)
(* are "none", "torn" or "whole"; a wrapper that was cut off while it was  *)
(* written is "empty", and runs without doing anything.                    *)
(***************************************************************************)
EXTENDS Integers, Sequences, SequencesExt, LibValues

\* What the script changes: GNAT's files, its gcc and the original of that, and the
\* interpreter of its programs; the wrapper in ~/.local/bin, and the interpreter it
\* gives to what it links; sbase and coreboot's tools by their interpreters; and
\* the directories that GRUB's configuration and what was built are of.
Untouched ==
    [gnat |-> "none", gcc |-> "none", real |-> FALSE, interp |-> 0, bin |-> "none", ld |-> 0,
     gnats |-> FALSE, python |-> FALSE, sbase |-> 0, tools |-> 0, font |-> "none", cfg |-> "",
     state |-> "", trees |-> "", xgcc |-> "", marker |-> FALSE, shell |-> FALSE]

Homes == {""} \cup STRING
Systems ==
    [gnat : {"none", "torn", "whole"}, gcc : {"none", "elf", "wrapper", "empty"}, real : BOOLEAN,
     interp : Nat, bin : {"none", "wrapper", "empty"}, ld : Nat, gnats : BOOLEAN, python : BOOLEAN,
     sbase : Nat, tools : Nat, font : {"none", "torn", "whole"}, cfg : Homes, state : Homes,
     trees : Homes, xgcc : Homes, marker : BOOLEAN, shell : BOOLEAN]

ASSUME SystemAssumption == Abort \notin Systems

Alive(r, libc) == libc # 0 /\ libc \notin r.collected

\* The sections of the script, each for a run r on a machine m; Abort if it ends
\* there (set -e), which leaves the machine as it is.
python(m) == [m EXCEPT !.python = TRUE]

gnat(r, m) ==
    IF m.gnat # "none" THEN m
    ELSE IF ~r.net THEN Abort
    ELSE [m EXCEPT !.gnat = "whole", !.gcc = "elf", !.real = FALSE, !.interp = 0]

\* gcc, which is asked for the glibc, is the wrapper if there is one.
GccRuns(r, m) ==
    m.bin = "none" \/ (m.bin = "wrapper" /\ m.gcc = "wrapper" /\ m.real /\ Alive(r, m.interp))

glibc(r, m) == IF GccRuns(r, m) THEN m ELSE Abort

patch_elf_interp(r, m) == [m EXCEPT !.interp = r.glibc, !.tools = r.glibc]

find_guix_gcc(r, m) == IF r.profile THEN m ELSE Abort

keep_gcc(m) ==
    IF m.real THEN m
    ELSE IF m.gcc = "none" THEN Abort ELSE [m EXCEPT !.real = TRUE, !.gcc = "none"]

wrap_gcc(r, m) == [m EXCEPT !.gcc = "wrapper", !.ld = r.glibc]

bin_gcc(m) == [m EXCEPT !.bin = "wrapper"]

wrap_gnats(m) == [m EXCEPT !.gnats = TRUE]

sbase(r, m) == IF Alive(r, m.sbase) THEN m ELSE [m EXCEPT !.sbase = r.glibc]

unifont(r, m) ==
    IF m.font # "none" THEN m ELSE IF r.font THEN [m EXCEPT !.font = "whole"] ELSE Abort

grub_cfg(r, m) == IF m.cfg = "" THEN [m EXCEPT !.cfg = r.pwd] ELSE m

clean_moved(r, m) ==
    IF m.state \in {"", r.pwd} THEN m
    ELSE [m EXCEPT !.trees = "", !.xgcc = "", !.marker = FALSE, !.cfg = r.pwd]

init_state(r, m) == [m EXCEPT !.state = r.pwd]

shell(m) == [m EXCEPT !.shell = TRUE]

Sections == << "python", "gnat", "glibc", "interp", "guix", "keep", "wrap", "gcc", "gnats",
               "sbase", "font", "cfg", "moved", "state", "shell" >>

Section(s, r, m) ==
    CASE s = "python" -> python(m)
      [] s = "gnat"   -> gnat(r, m)
      [] s = "glibc"  -> glibc(r, m)
      [] s = "interp" -> patch_elf_interp(r, m)
      [] s = "guix"   -> find_guix_gcc(r, m)
      [] s = "keep"   -> keep_gcc(m)
      [] s = "wrap"   -> wrap_gcc(r, m)
      [] s = "gcc"    -> bin_gcc(m)
      [] s = "gnats"  -> wrap_gnats(m)
      [] s = "sbase"  -> sbase(r, m)
      [] s = "font"   -> unifont(r, m)
      [] s = "cfg"    -> grub_cfg(r, m)
      [] s = "moved"  -> clean_moved(r, m)
      [] s = "state"  -> init_state(r, m)
      [] s = "shell"  -> shell(m)

\* A run of the script: where it is, with which glibc, which are gone since; whether it
\* has the network, the font and Guix's gcc; and where it is killed, after which part.
ScriptRuns ==
    {r \in [pwd : Homes \ {""}, glibc : Nat \ {0}, collected : SUBSET Nat, net : BOOLEAN,
           font : BOOLEAN, profile : BOOLEAN, killed : 0 .. Len(Sections), part : 0 .. 2] :
       r.glibc \notin r.collected}

\* What a run that is killed in a section leaves: nothing of it (0), or a part.
Torn(s, r, m) ==
    CASE r.part = 0 -> m
      [] s = "gnat" /\ m.gnat = "none" /\ r.net ->
           [m EXCEPT !.gnat = "torn", !.interp = 0, !.real = FALSE,
                     !.gcc = IF r.part = 1 THEN "none" ELSE "elf"]
      [] s = "interp" -> [m EXCEPT !.interp = r.glibc]
      [] s = "wrap"   -> [m EXCEPT !.gcc = "empty"]
      [] s = "gcc" /\ m.bin # "none"       -> [m EXCEPT !.bin = "empty"]
      [] s = "sbase" /\ ~Alive(r, m.sbase) -> [m EXCEPT !.sbase = 0]
      [] s = "font" /\ m.font = "none" /\ r.font -> [m EXCEPT !.font = "torn"]
      [] s = "moved" /\ clean_moved(r, m) # m ->
           IF r.part = 1 THEN [m EXCEPT !.trees = ""] ELSE [m EXCEPT !.trees = "", !.xgcc = ""]
      [] s = "state"  -> [m EXCEPT !.state = ""]
      [] OTHER        -> m

\* A run that is killed in its section number r.killed, 0 for none.
Run(r, m) ==
    LET step(u, s) ==
          LET n == Section(s, r, u.machine)
          IN  IF ~u.ok THEN u
              ELSE IF n = Abort THEN [u EXCEPT !.ok = FALSE] ELSE [u EXCEPT !.machine = n]
        ran == FoldLeft(step, [ok |-> TRUE, machine |-> m],
                        IF r.killed = 0 THEN Sections ELSE SubSeq(Sections, 1, r.killed - 1))
    IN  IF r.killed = 0 \/ ~ran.ok THEN ran
        ELSE [ok |-> FALSE, machine |-> Torn(Sections[r.killed], r, ran.machine)]

\* ./mk builds what is not there, in the directory of a run that succeeded; for the
\* cross compiler the mark decides.
Built(m) ==
    [m EXCEPT !.trees = IF @ = "" THEN m.state ELSE @, !.marker = TRUE,
              !.xgcc = IF m.marker THEN @ ELSE m.state]

\* The last of some runs, one after the other.
init(runs) ==
    LET next(u, r) == Run(r, IF u.ok THEN Built(u.machine) ELSE u.machine)
    IN  FoldLeft(next, [ok |-> FALSE, machine |-> Untouched], runs)

----------------------------------------------------------------------------
\* The runs from number n on, but for the last, that were killed in one of some
\* sections.
KilledIn(runs, n, S) ==
    \E i \in n .. Len(runs) - 1 : runs[i].killed # 0 /\ Sections[runs[i].killed] \in S

\* After a run that succeeds the compiler is whole and of the glibc there is now,
\* sha512sum runs, and nothing is left that was made for another directory; and a
\* run succeeds whatever earlier ones were killed in.  Not so after a kill while GNAT
\* or the font is copied, which the next run takes for whole; while a wrapper is
\* written again, as the next run asks it for the glibc; or from when GRUB's
\* configuration names the directory until that is written down, if the project is
\* then moved.
SetUpAgain(runs, value) ==
    LET m    == value.machine
        last == Last(runs)
    IN  /\ value.ok =>
             /\ m.gcc = "wrapper" /\ m.real /\ m.bin = "wrapper" /\ m.gnats
             /\ {m.interp, m.ld, m.tools} = {last.glibc} /\ Alive(last, m.sbase)
             /\ KilledIn(runs, 1, {"gnat"}) \/ m.gnat = "whole"
             /\ KilledIn(runs, 1, {"font"}) \/ m.font = "whole"
             /\ \/ KilledIn(runs, 1, {"moved", "state"})
                \/ /\ m.cfg = last.pwd
                   /\ m.trees \in {"", last.pwd} /\ m.xgcc \in {"", last.pwd}
                   /\ m.marker => m.xgcc # ""
        /\ \/ value.ok \/ last.killed # 0 \/ ~last.net \/ ~last.font \/ ~last.profile
           \/ last.collected # {} \/ KilledIn(runs, 1, {"gnat"}) \/ KilledIn(runs, 2, {"wrap", "gcc"})

----------------------------------------------------------------------------
(* init-pico.sh is sourced by a shell with some PATH, of directories with a    *)
(* compiler: its own ("pico"), ~/.local/bin ("local") and Guix's ("guix").     *)

Shells ==
    [sourced : BOOLEAN, environment : BOOLEAN, gcc : {"none", "broken", "runs"}, gxx : BOOLEAN,
     arm : BOOLEAN, built : BOOLEAN, path : Seq(STRING)]

\* It ends where cc is not its own after all.
init_pico(x) ==
    LET path  == IF "pico" \in Range(x.path) THEN x.path ELSE <<"pico">> \o x.path
        there == x.environment /\ x.gcc = "runs" /\ x.gxx /\ x.arm
    IN  IF ~x.sourced THEN [ok |-> FALSE, path |-> x.path, built |-> x.built]
        ELSE IF ~there THEN [ok |-> FALSE, path |-> x.path, built |-> FALSE]
        ELSE [ok |-> path[1] = "pico", path |-> path, built |-> FALSE]

\* When it says so, its compiler goes before all others, and no build is left that
\* was configured with another one; and no directory is lost from PATH.
PicoFirst(x, value) ==
    /\ value.ok => value.path[1] = "pico" /\ ~value.built
    /\ Range(x.path) \subseteq Range(value.path)
    /\ value.built => x.built /\ ~x.sourced
=============================================================================
