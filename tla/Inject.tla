------------------------------- MODULE Inject ------------------------------
(***************************************************************************)
(* ./mk inject (include/inject.sh, include/vendor.sh): the images in the   *)
(* archive of one board lose their vendor files before they are published  *)
(* (nuke), and get them back, with a MAC address of the user's choice.     *)
(*                                                                         *)
(* An archive is unpacked to cache/DO_NOT_FLASH, its images are changed    *)
(* one by one there, and it is packed again and moved over the old one, if *)
(* xchanged says so.  The lock keeps other instances away meanwhile        *)
(* (XbmkInit).  Of an image the model keeps its vendor files, the MAC      *)
(* address in its GbE region, the bytes of padding at its end and how many *)
(* times its name begins with $vfix, "DO_NOT_FLASH_YET...".                *)
(***************************************************************************)
EXTENDS Integers, FiniteSets

CONSTANTS
  Roms,         \* the images of the board
  Macs, DefaultMac

ASSUME InjectAssumption == Roms # {} /\ DefaultMac \in Macs

None == "none"   \* new_mac=""

ASSUME NoneAssumption == None \notin Macs

\* "serprog" is not a coreboot board; "free" has no vcfg; "unlisted" has one
\* without a file that could be inserted; "vendor" has such a file.
Boards == [kind : {"serprog", "free", "unlisted", "vendor"}, gbe : BOOLEAN]

Image == [vendor : {"in", "out", "other"},   \* "other" than when it was built
          gbe : Macs, pad : Nat, marks : Nat]

VARIABLES
  board,       \* (fixed)
  tar,         \* "whole", or it "may" once write a part only, or has ("torn")
  archive,     \* its images, and the lines of its hash file (none: {})
  pc,
  mode,        \* "nuke" or "inject"
  new_mac,
  vfiles,      \* what the vendor files of this run are
  rom, hashes, \* the same of the unpacked archive
  has_hashes,
  todo,        \* the images that find has yet to hand to prep
  xchanged,
  status       \* of the last run: "ok", "err" or "none"

conf == <<board, tar>>
args == <<mode, new_mac, vfiles>>
bin  == <<rom, hashes>>
vars == <<board, tar, archive, pc, mode, new_mac, vfiles, rom, hashes,
          has_hashes, todo, xchanged, status>>

\* What the images of a directory may be, and the lines of a hash file.
IsImages(dir) ==
  /\ dir = [r \in DOMAIN dir |-> dir[r]] /\ DOMAIN dir \subseteq Roms
  /\ \A r \in DOMAIN dir : dir[r] \in Image

IsLines(file) == file \subseteq Roms \X Image

TypeOK ==
  /\ board \in Boards /\ tar \in {"whole", "may", "torn"}
  /\ archive = [rom |-> archive.rom, hashes |-> archive.hashes]
  /\ IsImages(archive.rom) /\ IsLines(archive.hashes)
  /\ IsImages(rom) /\ IsLines(hashes)
  /\ pc \in {"idle", "unpack", "config", "prep", "mac", "pack"}
  /\ mode \in {"nuke", "inject"} /\ new_mac \in Macs \cup {None}
  /\ vfiles \in {"in", "other"}
  /\ has_hashes \in {"y", "n"} /\ xchanged \in {"y", ""}
  /\ todo \subseteq DOMAIN rom
  /\ status \in {"none", "ok", "err"}

\* R describes archives that are whole.
R == INSTANCE Release WITH release <- archive, reliable <- (tar # "torn")

Init ==
  /\ board \in Boards /\ tar \in {"whole", "may"}
  /\ archive = R!Filled(DefaultMac)
  /\ rom = archive.rom /\ hashes = {}
  /\ pc = "idle" /\ mode = "inject" /\ new_mac = None /\ vfiles = "in"
  /\ has_hashes = "n" /\ todo = {} /\ xchanged = "" /\ status = "none"

-----------------------------------------------------------------------------
(* Mutants: what a plausible slip would make of a definition below. *)

\* A hash file that does not match is only reported.
hashes_reported == TRUE

\* The hash file is left in the archive.
keep_hashes == hashes

\* The archive is packed again only if vendor files were inserted or removed.
gbe_unnoticed == UNCHANGED xchanged

-----------------------------------------------------------------------------
(* Steps. *)

Goto(l)  == pc' = l /\ UNCHANGED status
Exit(s)  == pc' = "idle" /\ status' = s

\* inject, check_release and check_target.  "keep" is None, "restore" the
\* default; without a mode, and for "x" digits, the address is random.
Start(m, mac) ==
  /\ pc = "idle"
  /\ m = "nuke" => mac = None
  /\ mode' = m /\ new_mac' = mac
  /\ xchanged' = ""
  /\ Goto(IF board.kind = "serprog" THEN "pack" ELSE "unpack")
  /\ UNCHANGED <<conf, archive, vfiles, bin, has_hashes, todo>>

\* patch_release: ./mk download, which can give another file (XbGet), then tar.
Unpack(v) ==
  /\ pc = "unpack"
  /\ mode = "nuke" => v = vfiles
  /\ vfiles' = v
  /\ rom' = archive.rom /\ hashes' = archive.hashes
  /\ has_hashes' = IF archive.hashes # {} THEN "y" ELSE "n"
  /\ todo' = {}
  /\ Goto("config")
  /\ UNCHANGED <<conf, archive, mode, new_mac, xchanged>>

\* fx_ has the list complete before it hands on the first image.
fx_images == DOMAIN rom

\* When setvfile finds nothing to insert, inject returns 0 at once.
readkconfig ==
  /\ pc = "config"
  /\ CASE board.kind = "vendor" -> Goto("prep") /\ todo' = fx_images
       [] board.kind = "free" -> Goto("mac") /\ UNCHANGED todo
       [] OTHER -> Exit("ok") /\ UNCHANGED todo
  /\ UNCHANGED <<conf, archive, args, bin, has_hashes, xchanged>>

\* The prefix and the pad go together ...
Unmark(i) == IF i.marks > 0 THEN [i EXCEPT !.marks = @ - 1, !.pad = @ - 1] ELSE i
Mark(i)   == [i EXCEPT !.marks = @ + 1, !.pad = @ + 1]

\* ... in prep, even when add_vfiles then has no hash file to check against.
\* Its status ends the loop of dx_, which fx_ ignores.
prep_inject(r) ==
  /\ mode = "inject"
  /\ IF has_hashes = "y"
       THEN /\ rom' = [rom EXCEPT ![r] = [Unmark(@) EXCEPT !.vendor = vfiles]]
            /\ xchanged' = "y"
            /\ todo' = todo \ {r}
       ELSE /\ rom' = [rom EXCEPT ![r] = Unmark(@)]
            /\ todo' = {}
            /\ UNCHANGED xchanged
  /\ UNCHANGED hashes

\* add_vfiles strips what has no hash file.
strippable == has_hashes = "n"

mksha512(r) == hashes' = hashes \cup {<<r, rom[r]>>}

prep_nuke(r) ==
  /\ mode = "nuke"
  /\ mksha512(r)
  /\ IF strippable
       THEN /\ rom' = [rom EXCEPT ![r] = Mark([@ EXCEPT !.vendor = "out"])]
            /\ xchanged' = "y"
            /\ todo' = todo \ {r}
       ELSE todo' = {} /\ UNCHANGED <<rom, xchanged>>

prep(r) ==
  /\ pc = "prep" /\ r \in todo
  /\ prep_inject(r) \/ prep_nuke(r)
  /\ UNCHANGED <<conf, archive, pc, args, has_hashes, status>>

\* sha512sum -c: the files named in the hash file are there, as they were.
hashes_match ==
  \A line \in hashes : line[1] \in DOMAIN rom /\ rom[line[1]] = line[2]

must_match == mode = "inject" /\ has_hashes = "y" => hashes_match

\* rm -f "$hashfile", which is empty if there was none.
hashes_after == IF has_hashes = "y" THEN {} ELSE hashes

check_vendor_hashes ==
  /\ pc = "prep" /\ todo = {}
  /\ must_match
  /\ hashes' = hashes_after
  /\ Goto("mac")
  /\ UNCHANGED <<conf, archive, args, rom, has_hashes, todo, xchanged>>

wrong_hashes ==
  /\ pc = "prep" /\ todo = {}
  /\ ~must_match
  /\ Exit("err")
  /\ UNCHANGED <<conf, archive, args, bin, has_hashes, todo, xchanged>>

newmac(r) == [rom[r] EXCEPT !.gbe = new_mac]

gbe_noticed == xchanged' = IF DOMAIN rom # {} THEN "y" ELSE xchanged

modify_mac ==
  /\ pc = "mac"
  /\ IF new_mac # None /\ board.gbe
       THEN rom' = [r \in DOMAIN rom |-> newmac(r)] /\ gbe_noticed
       ELSE UNCHANGED <<rom, xchanged>>
  /\ Goto("pack")
  /\ UNCHANGED <<conf, archive, args, hashes, has_hashes, todo>>

\* Packed beside the old archive, and moved over it.
remktar ==
  /\ pc = "pack" /\ xchanged = "y"
  /\ archive' = [rom |-> rom, hashes |-> hashes]
  /\ Exit("ok")
  /\ UNCHANGED <<conf, args, bin, has_hashes, todo, xchanged>>

\* tar leaves out what it cannot read, and its failure is not noticed: the
\* status of tar | xz is that of xz (mktarball).
remktar_torn(packed, lines) ==
  /\ pc = "pack" /\ xchanged = "y"
  /\ tar = "may" /\ tar' = "torn"
  /\ archive' = [rom |-> [r \in packed |-> rom[r]], hashes |-> lines]
  /\ Exit("ok")
  /\ UNCHANGED <<board, args, bin, has_hashes, todo, xchanged>>

not_modified ==
  /\ pc = "pack" /\ xchanged = ""
  /\ Exit("ok")
  /\ UNCHANGED <<conf, archive, args, bin, has_hashes, todo, xchanged>>

\* A command fails (x_, err), or the program is killed.
Abort ==
  /\ pc # "idle"
  /\ Exit("err")
  /\ UNCHANGED <<conf, archive, args, bin, has_hashes, todo, xchanged>>

Step ==
  \/ \E v \in {"in", "other"} : Unpack(v)
  \/ readkconfig
  \/ \E r \in Roms : prep(r)
  \/ check_vendor_hashes \/ wrong_hashes
  \/ modify_mac
  \/ remktar \/ not_modified
  \/ \E packed \in SUBSET DOMAIN rom, lines \in {hashes, {}} :
       remktar_torn(packed, lines)

Next ==
  \/ \E m \in {"nuke", "inject"}, mac \in Macs \cup {None} : Start(m, mac)
  \/ Step
  \/ Abort

Spec == Init /\ [][Next]_vars

FairSpec == Spec /\ WF_vars(Step)

-----------------------------------------------------------------------------
\* Images are published without their vendor files, or as they were built, and
\* the one is made of the other, whatever is aborted on the way (inject).
ImplementsRelease == R!Spec

\* No image gets into an archive with vendor files other than those it was
\* built with, not even after a torn archive (check_vendor_hashes).
Verified == \A r \in DOMAIN archive.rom : archive.rom[r].vendor # "other"

ToldMac == new_mac # None /\ board.gbe

\* A run that ends well has done what it was asked to do to every image, also
\* when it says that nothing was modified.
EndsAsAsked ==
  pc = "idle" /\ status = "ok" /\ tar # "torn" =>
    \A r \in Roms :
      LET image == archive.rom[r]
      IN  /\ board.kind = "vendor" =>
               image.vendor = IF mode = "nuke" THEN "out" ELSE "in"
          /\ board.kind \in {"vendor", "free"} /\ ToldMac => image.gbe = new_mac

=============================================================================
