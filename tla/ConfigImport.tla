---------------------------- MODULE ConfigImport ---------------------------
(***************************************************************************)
(* ./mk prep_mr_import (include/chromebook.sh): the configuration of two   *)
(* projects, coreboot and edk2, is made anew from the repositories of      *)
(* another distributor, whose commits between two revisions become the     *)
(* patches of a tree.  The program may fail at every command.              *)
(*                                                                         *)
(* A file or directory of the configuration is "old" (what was there),     *)
(* "none", "empty", "torn" or "new".                                       *)
(***************************************************************************)
EXTENDS Integers, Sequences, SequencesExt

Projects == {"coreboot", "edk2"}

\* The commands of an import, each of a project or of the whole.
prep_mr(p) ==
    << <<"clone", p>>, <<"remkdir", p>>, <<"patch", p>>, <<"rmdir", p>>, <<"rm", p>>, <<"write", p>> >>

prep_mr_import ==
    << <<"tmpdir", "">>, <<"remkdir edk2", "">>, <<"write edk2", "">> >>
        \o prep_mr("coreboot") \o prep_mr("edk2") \o << <<"rm tmp", "">> >>

\* What a command makes of the configuration; changed are the projects that have
\* commits of their own.
Does(x, c, cmd) ==
    LET op == cmd[1]
        p  == cmd[2]
    IN  CASE op = "tmpdir"       -> [c EXCEPT !.tmp = TRUE]
          [] op = "rm tmp"       -> [c EXCEPT !.tmp = FALSE]
          [] op = "remkdir edk2" -> [c EXCEPT !.edk2 = "none"]
          [] op = "write edk2"   -> [c EXCEPT !.edk2 = "new"]
          [] op = "clone"        -> c
          [] op = "remkdir"      -> [c EXCEPT !.patches[p] = "empty"]
          [] op = "patch"        -> IF p \in x.changed THEN [c EXCEPT !.patches[p] = "new"] ELSE c
          [] op = "rmdir"        -> IF c.patches[p] = "empty" THEN [c EXCEPT !.patches[p] = "none"] ELSE c
          [] op = "rm"           -> [c EXCEPT !.target[p] = "none"]
          [] op = "write"        -> [c EXCEPT !.target[p] = "new"]

\* What is left when it fails half-way.
LeftBy(c, cmd) ==
    LET op == cmd[1]
        p  == cmd[2]
    IN  CASE op \in {"remkdir edk2", "write edk2"} -> [c EXCEPT !.edk2 = "torn"]
          [] op \in {"remkdir", "patch"}           -> [c EXCEPT !.patches[p] = "torn"]
          [] op = "write"                          -> [c EXCEPT !.target[p] = "torn"]
          [] OTHER                                 -> c

\* An import, which fails at its command number fails, 0 for none; on a release it is
\* refused.
Imports == [release : BOOLEAN, fails : 0 .. Len(prep_mr_import), changed : SUBSET Projects]

ImportRun(x) ==
    LET old  == [edk2 |-> "old", tmp |-> FALSE,
                 patches |-> [p \in Projects |-> "old"], target |-> [p \in Projects |-> "old"]]
        ran  == IF x.fails = 0 THEN prep_mr_import ELSE SubSeq(prep_mr_import, 1, x.fails - 1)
        c    == FoldLeft(LAMBDA d, cmd : Does(x, d, cmd), old, ran)
    IN  IF x.release THEN [ok |-> FALSE, config |-> old]
        ELSE [ok |-> x.fails = 0, config |-> IF x.fails = 0 THEN c ELSE LeftBy(c, prep_mr_import[x.fails])]

\* An import that succeeds is whole, and leaves nothing behind.  However it ends, a
\* tree whose base is the new one has all its new patches, and no other; and a
\* release is left as it is.
ImportWhole(x, value) ==
    LET c     == value.config
        right == [p \in Projects |-> IF p \in x.changed THEN "new" ELSE "none"]
    IN  /\ value.ok => c = [edk2 |-> "new", tmp |-> FALSE, patches |-> right,
                            target |-> [p \in Projects |-> "new"]]
        /\ \A p \in Projects : c.target[p] \in {"new", "torn"} => c.patches[p] = right[p]
        /\ x.release => c.edk2 = "old" /\ c.target["coreboot"] = "old" /\ ~c.tmp
=============================================================================
