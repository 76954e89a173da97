------------------------------ MODULE BuildEnv ------------------------------
(***************************************************************************)
(* What an instance of ./mk makes of its surroundings before it does any   *)
(* work (include/init.sh, include/lib.sh): the version, which names files  *)
(* of releases and is passed on to the children in the file .version; the  *)
(* variables that they inherit; and the python that is linked into PATH.   *)
(* A version is a sequence of characters, and "x" is any that              *)
(* xbmk_sanitize_version leaves alone.                                     *)
(***************************************************************************)
EXTENDS Integers, Sequences, FiniteSetsExt, SequencesExt, LibValues

Characters == {" ", "\t", "/", ".", "-", "x"}

\* What can be in the files of a version; and the surroundings, where git is "none",
\* or has what describe and show give ("tagged"), only a revision ("untagged"), or
\* nothing ("broken").
Texts == [text : Seq(Characters), newline : BOOLEAN]
VersionSources ==
    [git : {"none", "broken", "untagged", "tagged"}, tag : Seq(Characters),
     version : Texts \cup {None}, versiondate : Texts \cup {None}]

\* What ends the script, or is not there, is no text.
ASSUME VersionAssumption == Abort \notin Seq(Characters) /\ None \notin Texts

\* sed -e 's/c//g', for one character.
Without(c, s) == Keep(s, {i \in DOMAIN s : s[i] # c})

\* The place in its run of dots of each of them, from the left.
DotRun(s, i) == i - Max({j \in 0 .. i : j = 0 \/ s[j] # "."})

\* sed -e 's/\.\.//g' takes the dots of a run in pairs, and 's/\.\///g' the pairs
\* of a dot and a slash.
IsAt(s, i, c) == i \in DOMAIN s /\ s[i] = c
NoDotDot(s) ==
    Keep(s, {i \in DOMAIN s : s[i] # "." \/ (DotRun(s, i) % 2 = 1 /\ ~IsAt(s, i + 1, "."))})
NoDotSlash(s) ==
    Keep(s, {i \in DOMAIN s : /\ ~(s[i] = "." /\ IsAt(s, i + 1, "/"))
                              /\ ~(s[i] = "/" /\ IsAt(s, i - 1, "."))})

\* The slashes of s as dashes; without a dash at the front; and an error if empty.
Dashed(s) == [i \in DOMAIN s |-> IF s[i] = "/" THEN "-" ELSE s[i]]
WithoutDash(s) == IF IsAt(s, 1, "-") THEN Tail(s) ELSE s
Nonempty(s) == IF s = << >> THEN Abort ELSE s

\* An empty version is left alone, and may not become empty.
xbmk_sanitize_version(v) ==
    IF v = << >> THEN v
    ELSE Nonempty(WithoutDash(Dashed(NoDotSlash(NoDotDot(Without(" ", Without("\t", v)))))))

\* What the shell's read leaves of a line: blanks at its ends are gone.
Trimmed(s) ==
    LET marks == {i \in DOMAIN s : s[i] \notin {" ", "\t"}}
    IN  IF marks = {} THEN << >> ELSE SubSeq(s, Min(marks), Max(marks))

\* read -r of a file: one that is not there leaves the variable empty, which one
\* that is may not; a last line without an end is an error.
read_file(f) ==
    IF f = None THEN << >>
    ELSE IF ~f.newline \/ Trimmed(f.text) = << >> THEN Abort ELSE Trimmed(f.text)

xbmk_get_version(x) ==
    LET v == read_file(x.version)
        d == read_file(x.versiondate)
    IN  [version |-> IF Abort \in {v, d} THEN Abort
                     ELSE IF x.git = "none" /\ x.version = None THEN <<"x">>
                     ELSE xbmk_sanitize_version(v),
         date    |-> IF x.git = "none" /\ x.versiondate = None THEN <<"x">> ELSE d]

\* What git says goes first; the files of the parent then say the same, or it ends.
xbmk_set_version(x) ==
    LET had == xbmk_get_version(x)
        v   == CASE x.git = "tagged"   -> x.tag
                 [] x.git = "untagged" -> <<"x", "-", "x">>
                 [] OTHER              -> had.version
        d   == IF x.git \in {"tagged", "untagged"} THEN <<"x">> ELSE had.date
    IN  IF had.version = Abort \/ v = << >> \/ d = << >> THEN Abort
        ELSE xbmk_sanitize_version(v)

\* The version of a parent, and that of the children, which read the file.
Versions(x) ==
    LET parent == xbmk_set_version(x)
        file   == [text |-> parent, newline |-> TRUE]
    IN  [parent |-> parent,
         child  |-> IF parent = Abort THEN Abort
                    ELSE xbmk_get_version([x EXCEPT !.version = file,
                                              !.versiondate = [text |-> <<"x">>, newline |-> TRUE]]).version]

\* A version that is used is one name, which is in the directory it is put in,
\* and the same for a parent and its children, but that each takes away one dash
\* at the front.
VersionFits(x, value) ==
    value.parent # Abort =>
        /\ {" ", "\t", "/"} \cap Range(value.parent) = {}
        /\ \A i \in 1 .. Len(value.parent) - 1 : SubSeq(value.parent, i, i + 1) # <<".", ".">>
        /\ value.parent # << >>
        /\ value.parent[1] # "-" => value.child = value.parent

----------------------------------------------------------------------------
\* What an instance inherits, and whether the cache is a file where it has to be a
\* directory.
Environments ==
    [cache : {"none", "directory", "file"}, XBMK_RELEASE : STRING, XBMK_CACHE_MIRROR : STRING,
     XBMK_THREADS : STRING]

\* A variable that is not set, or has another value than it may, gets its default;
\* a number of threads may have a sign.
xbmk_parent_set_export(x) ==
    IF x.cache = "file" THEN Abort
    ELSE [x EXCEPT !.XBMK_RELEASE = IF @ \in {"y", "Y"} THEN "y" ELSE "n"]

xbmk_set_threads(x) ==
    [x EXCEPT !.XBMK_THREADS = IF @ \in {"number", "-number"} THEN @ ELSE "number"]

xbmk_set_mirror(x) == [x EXCEPT !.XBMK_CACHE_MIRROR = IF @ = "y" THEN "y" ELSE "n"]

\* A parent, and the children, which only look for what is not there.
Environment(x) ==
    LET exported == xbmk_parent_set_export(x)
    IN  IF exported = Abort THEN Abort ELSE xbmk_set_threads(xbmk_set_mirror(exported))

xbmk_child_set_env(x) ==
    LET threads == IF x.XBMK_THREADS = "unset" THEN xbmk_set_threads(x) ELSE x
    IN  IF x.XBMK_CACHE_MIRROR = "unset" THEN xbmk_set_mirror(threads) ELSE threads

\* An instance that is started by another one, as its child or by a script as a
\* parent of its own, makes of what that exported the same; and no release or
\* mirror is made that was not asked for.
InheritedAsItIs(x, value) ==
    value # Abort =>
        /\ xbmk_child_set_env(value) = value
        /\ Environment(value) = value
        /\ value.XBMK_RELEASE = "y" => x.XBMK_RELEASE \in {"y", "Y"}
        /\ value.XBMK_CACHE_MIRROR = "y" => x.XBMK_CACHE_MIRROR = "y"

----------------------------------------------------------------------------
(* A python by one of its names: what is in PATH ("path"), what that is a link *)
(* to if it is one ("target"), and what is in the two usual directories.  A    *)
(* file is None, or what it is, its major version, and whether it is of a      *)
(* virtual environment.                                                        *)

Interpreters(venvs) ==
    [kind : {"executable", "directory", "file"}, major : Nat, venv : venvs] \cup {None}
Pythons ==
    [path : Interpreters(BOOLEAN), target : Interpreters({FALSE}), local : Interpreters({FALSE}),
     usr : Interpreters({FALSE})]

ASSUME PythonAssumption == {Abort, Refused} \cap Interpreters(BOOLEAN) = {}

Runs(f) == f # None /\ f.kind = "executable"

pybin(m) ==
    IF ~Runs(m.path) THEN Refused
    ELSE IF ~m.path.venv THEN m.path
    ELSE IF Runs(m.target) THEN m.target
    ELSE IF Runs(m.local) THEN m.local
    ELSE IF Runs(m.usr) THEN m.usr
    ELSE Refused

\* The python that is linked, under whichever name it was found.
xbmk_set_pyver(x) ==
    LET name == IF pybin(x["python3"]) # Refused THEN "python3" ELSE "python"
        py   == pybin(x[name])
    IN  IF py = Refused \/ py.major # 3 THEN Abort ELSE py

\* The python that is linked runs, is a python 3 and not that of a virtual
\* environment ("use the real, direct executable", pybin); and one that is in
\* PATH as python3, of no environment, is found.
PythonFits(x, value) ==
    /\ value # Abort => Runs(value) /\ value.major = 3 /\ ~value.venv
    /\ value = Abort => LET p == x["python3"].path IN ~(Runs(p) /\ p.major = 3 /\ ~p.venv)
=============================================================================
