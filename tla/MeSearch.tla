------------------------------- MODULE MeSearch ------------------------------
(***************************************************************************)
(* "Bruteforce Intel ME extraction" (include/vendor.sh: extract_intel_me,  *)
(* find_me, extract_archive): every file of a downloaded archive is given  *)
(* to me_cleaner, to me7_update_parser and to the unpackers, and what is   *)
(* unpacked is searched in the same way, in a subshell, until one of them  *)
(* has written me.bin; then exit 1 ends all the subshells.                 *)
(*                                                                         *)
(* A file is a number, in the order in which find | sort lists the paths.  *)
(* Directory 0 is vendorfiles/app, directory k is the one whose name is k  *)
(* times the letter a.  The variable _7ztest grows by one letter with each *)
(* file that is tried, and is restored when a subshell ends, so that names *)
(* are used again while their directories are still there.                 *)
(***************************************************************************)
EXTENDS Naturals, Sequences, FiniteSets, FiniteSetsExt, SequencesExt

CONSTANTS
  Files,     \* numbers of files; Root is the archive that was downloaded
  Root,
  Archives,  \* what each file may be
  NameMax    \* the longest name of a directory that can be made

\* What can be made of a file: a me.bin with the configured checksum or with
\* another one, from an image (me_cleaner) or from an update of ME 7
\* (me7_update_parser, which writes its output before it checks the signature);
\* a directory, or for PFS a directory beside the file; or nothing.
Kind == {"image", "other", "update", "broken", "archive", "pfs", "junk"}

ASSUME MeSearchAssumption ==
  /\ Files \subseteq Nat /\ IsFiniteSet(Files) /\ Root \in Files /\ NameMax \in Nat
  /\ Archives \subseteq [Files -> [kind : Kind, holds : SUBSET Files]]

VARIABLES
  archive,  \* what the files are, in the present configuration
  keep,     \* MEclean="n": modules are kept (-k)
  me,       \* me.bin in $xbtmp: "none", "right" or "wrong"
  dirs,     \* the files in each directory
  frames    \* the loops of fx_, the innermost last: the directory that is
            \* searched, the length of _7ztest, and the files yet to be tried,
            \* which are tried in their order

search == <<me, dirs, frames>>

Frame == [dir : 0..NameMax, a : Nat, list : SUBSET Files]

SearchTypeOK ==
  /\ archive \in Archives
  /\ me \in {"none", "right", "wrong"}
  /\ dirs \in [0..NameMax -> SUBSET Files]
  /\ frames \in Seq(Frame)

Empty == [k \in 0..NameMax |-> {}]

Kindof(f)  == archive[f].kind
Unpacks(f) == Kindof(f) \in {"archive", "pfs"}

Loop(k, dir) == [dir |-> k, a |-> k, list |-> dir]

\* Which files give the wanted me.bin: me7_update_parser has no option -k.
MakesMe(f) == Kindof(f) \in IF keep THEN {"image"} ELSE {"image", "update"}

\* ${_dl}_extracted, which pfs_extract makes beside the downloaded file, is
\* copied whenever an archive was unpacked, however deep.
DlExtracted == IF Kindof(Root) = "pfs" THEN archive[Root].holds ELSE {}

-----------------------------------------------------------------------------
(* Mutants. *)

\* The me.bin of an earlier search is not removed.
BeginKeepsMe ==
  LET app == archive[Root].holds
  IN  /\ me' = me
      /\ dirs' = [dirs EXCEPT ![0] = app]
      /\ frames' = <<[Loop(0, app) EXCEPT !.a = 1]>>

-----------------------------------------------------------------------------
\* extract_archive of the download, then extract_intel_me up to its loop.  The
\* directory that is removed is the one of length 1, which is never used.
Begin ==
  LET app == archive[Root].holds
  IN  /\ me' = "none"
      /\ dirs' = [dirs EXCEPT ![0] = app]
      /\ frames' = <<[Loop(0, app) EXCEPT !.a = 1]>>

Top  == frames[Len(frames)]
File == Min(Top.list)

\* The loop goes on with the next file; _7ztest has grown.
Tried == [dir |-> Top.dir, a |-> Top.a + 1, list |-> Top.list \ {File}]
Continue(frame) == frames' = [frames EXCEPT ![Len(frames)] = frame]

\* exit 1, by which every enclosing subshell exits too.
ExitAll == frames' = << >>

Trying == frames # << >> /\ Top.list # {}

\* me.bin is there: one of the earlier files left it.
FindMeDone ==
  /\ Trying /\ me # "none"
  /\ ExitAll /\ UNCHANGED <<me, dirs>>

\* me_cleaner or me7_update_parser makes one.
FindMeWrites ==
  /\ Trying /\ me = "none"
  /\ MakesMe(File) \/ Kindof(File) = "other"
  /\ me' = IF Kindof(File) = "other" THEN "wrong" ELSE "right"
  /\ ExitAll /\ UNCHANGED dirs

\* me7_update_parser fails, but has written its output; the next file stops.
FindMeLeaves ==
  /\ Trying /\ me = "none"
  /\ Kindof(File) = "broken" /\ ~keep
  /\ me' = "wrong"
  /\ Continue(Tried) /\ UNCHANGED dirs

\* The file is unpacked, and the directory searched in a subshell.  When there
\* are files of the same names, the unpacker asks, and reads what is left of
\* the list, its standard input, for an answer.
FindMeUnpacks ==
  LET k      == Top.a + 1
      inside == archive[File].holds
      beside == Kindof(File) = "pfs"
      dest   == (IF beside THEN {} ELSE inside) \cup dirs[k] \cup DlExtracted
      asks   == ~beside /\ inside \cap dirs[k] # {}
  IN  /\ Trying /\ me = "none" /\ Unpacks(File) /\ k <= NameMax
      /\ dirs' = [dirs EXCEPT ![k] = dest,
                              ![Top.dir] = dirs[Top.dir] \cup IF beside THEN inside ELSE {}]
      /\ \E rest \in {Tried.list} \cup (IF asks THEN {{}} ELSE {}) :
           frames' = Append([frames EXCEPT ![Len(frames)] =
                               [Tried EXCEPT !.list = rest]], Loop(k, dest))
      /\ UNCHANGED me

\* The name is too long for a directory.  Only pfs_extract needs none, and
\* after it the copy of ${_dl}_extracted fails: err exits like a search that
\* has found something.
FindMeTooLong ==
  /\ Trying /\ me = "none" /\ Unpacks(File) /\ Top.a + 1 > NameMax
  /\ IF Kindof(File) = "pfs"
       THEN /\ dirs' = [dirs EXCEPT ![Top.dir] = @ \cup archive[File].holds]
            /\ IF Kindof(Root) = "pfs" THEN ExitAll ELSE Continue(Tried)
       ELSE UNCHANGED dirs /\ Continue(Tried)
  /\ UNCHANGED me

FindMeNothing ==
  /\ Trying /\ me = "none"
  /\ Kindof(File) \in IF keep THEN {"junk", "update", "broken"} ELSE {"junk"}
  /\ Continue(Tried) /\ UNCHANGED <<me, dirs>>

\* The end of a list, and of its subshell.
FindMeReturns ==
  /\ frames # << >> /\ Top.list = {}
  /\ frames' = Front(frames) /\ UNCHANGED <<me, dirs>>

find_me ==
  \/ FindMeDone \/ FindMeWrites \/ FindMeLeaves \/ FindMeUnpacks
  \/ FindMeTooLong \/ FindMeNothing \/ FindMeReturns

-----------------------------------------------------------------------------
(* What a search can be expected to find, whatever the order of the files. *)

\* The files in some archives; those in the download, in the archives among
\* them, and in the archives among these.
Members(S) == UNION {archive[f].holds : f \in {g \in S : Unpacks(g)}}

First  == Members({Root})
Second == Members(First)
Third  == Members(Second)
Inside == {Root} \cup First \cup Second \cup Third

\* No file that is unpacked holds one that makes another me.bin, and PFS is not
\* nested; no file is in two archives; archives are three deep at most, since a
\* name, and with it a directory, is used again after a nested archive, and what
\* is left there is unpacked once more, over itself; and there are fewer files
\* to try than letters in the longest name.
Orderly ==
  /\ Unpacks(Root) /\ Root \notin First \cup Second \cup Third
  /\ \A f \in Inside \ {Root} : Kindof(f) \notin {"other", "broken", "pfs"}
  /\ \A f, g \in Inside :
       f # g /\ Unpacks(f) /\ Unpacks(g) => archive[f].holds \cap archive[g].holds = {}
  /\ \A f \in Third : ~Unpacks(f)
  /\ Cardinality(Inside) <= NameMax

\* One of the files makes the wanted me.bin.  What PFS holds is copied into every
\* directory and so searched again and again: it is found directly in PFS, or in
\* the only archive there.
Findable ==
  /\ Orderly
  /\ IF Kindof(Root) # "pfs" THEN \E f \in Inside : MakesMe(f)
     ELSE \/ \E f \in First : MakesMe(f)
          \/ \E g \in First :
               /\ Unpacks(g) /\ \A h \in (First \ {g}) \cup Second : ~Unpacks(h)
               /\ \E f \in archive[g].holds : MakesMe(f)
=============================================================================
