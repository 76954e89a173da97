---------------------------- MODULE InjectProofs ---------------------------
(***************************************************************************)
(* Proofs about Inject, for every set of images and of MAC addresses: what *)
(* gets into an archive was verified, a run does what it was asked to do,  *)
(* and what happens to the archive is what Release says.                   *)
(***************************************************************************)
EXTENDS Inject, TLAPS

(* The parts of the inductive invariant. *)

\* The prefix of the name and the padding go together.
Padded(dir) == \A r \in DOMAIN dir : dir[r].pad = dir[r].marks

TInv == TypeOK /\ Padded(archive.rom) /\ Padded(rom)

\* What may be packed: every vendor file is known or hashed, and an archive
\* with a hash file has a line for every image.
Clean(dir)          == \A r \in DOMAIN dir : dir[r].vendor # "other"
CleanLines(lines)   == \A line \in lines : line[2].vendor # "other"
Lined(S, lines)     == \A r \in S : \E line \in lines : line[1] = r
Covered(dir, lines) == lines = {} \/ Lined(DOMAIN dir, lines)
Sound(dir, lines)   == Clean(dir) /\ CleanLines(lines) /\ Covered(dir, lines)

\* Images in the middle of a run.
SoundPrep ==
  /\ CleanLines(hashes)
  /\ mode = "inject" => /\ Covered(rom, hashes)
                        /\ has_hashes = "y" <=> hashes # {}
                        /\ has_hashes = "n" => Clean(rom)
  /\ mode = "nuke" => /\ Clean(rom)
                      /\ has_hashes = "n" => Lined(DOMAIN rom \ todo, hashes)

VInv ==
  /\ Sound(archive.rom, archive.hashes)
  /\ pc \in {"config", "mac"} => Sound(rom, hashes)
  /\ pc = "pack" /\ xchanged = "y" => Sound(rom, hashes)
  /\ pc = "config" => (has_hashes = "y" <=> hashes # {})
  /\ pc = "prep" => SoundPrep

\* While no archive was written in part it is Filled(m) or Stripped(m), and a
\* run is somewhere between this and what it was asked for.
Vendored(m) == [R!Whole(m) EXCEPT !.vendor = vfiles]

Same == rom = archive.rom /\ hashes = archive.hashes /\ xchanged = ""

FillPart(m) ==
  /\ DOMAIN rom = Roms /\ hashes = archive.hashes
  /\ \A r \in Roms : rom[r] = IF r \in todo THEN R!Bare(m) ELSE Vendored(m)
  /\ \A r \in Roms \ todo : xchanged = "y"

StripPart(m) ==
  /\ DOMAIN rom = Roms /\ hashes = {<<r, R!Whole(m)>> : r \in Roms \ todo}
  /\ \A r \in Roms : rom[r] = IF r \in todo THEN R!Whole(m) ELSE R!Bare(m)
  /\ \A r \in Roms \ todo : xchanged = "y"

IsFilled(m)   == rom = R!Filled(m).rom /\ hashes = {}
IsStripped(m) == rom = R!Stripped(m).rom /\ hashes = R!Stripped(m).hashes

\* What a run does not find to do.
Done(m) ==
  /\ mode = "inject" /\ board.kind \in {"vendor", "free"} =>
       archive = R!Filled(m) /\ ~ToldMac
  /\ mode = "nuke" /\ board.kind = "vendor" => archive = R!Stripped(m)

PrepWork(m) ==
  /\ board.kind = "vendor"
  /\ archive = R!Filled(m) =>
       has_hashes = "n" /\ IF mode = "nuke" THEN StripPart(m)
                           ELSE IsFilled(m) /\ xchanged = ""
  /\ archive = R!Stripped(m) =>
       has_hashes = "y" /\ IF mode = "nuke" THEN xchanged = "" ELSE FillPart(m)

MacWork(m) ==
  /\ board.kind \in {"vendor", "free"}
  /\ mode = "inject" =>
       IsFilled(m) /\ (archive # R!Filled(m) => xchanged = "y")
  /\ mode = "nuke" /\ xchanged = "y" =>
       archive = R!Filled(m) /\ board.kind = "vendor" /\ IsStripped(m)
  /\ mode = "nuke" /\ xchanged = "" /\ board.kind = "vendor" =>
       archive = R!Stripped(m)

PackWork(m) ==
  /\ xchanged = "y" => board.kind \in {"vendor", "free"}
  /\ xchanged = "y" /\ mode = "inject" =>
       \E n \in Macs : IsFilled(n) /\ (ToldMac => n = new_mac)
  /\ xchanged = "y" /\ mode = "nuke" =>
       archive = R!Filled(m) /\ board.kind = "vendor" /\ IsStripped(m)
  /\ xchanged = "" => Done(m)

Work(m) ==
  /\ archive \in {R!Filled(m), R!Stripped(m)}
  /\ archive = R!Stripped(m) => board.kind = "vendor"
  /\ pc = "config" => Same
  /\ pc = "prep" => PrepWork(m)
  /\ pc = "mac" => MacWork(m)
  /\ pc = "pack" => PackWork(m)

Args ==
  /\ mode = "nuke" => new_mac = None
  /\ pc = "unpack" => xchanged = ""
  /\ pc \in {"unpack", "config"} => board.kind # "serprog"

WInv == Args /\ (tar # "torn" => \E m \in Macs : Work(m)) /\ EndsAsAsked

IInv == TInv /\ VInv /\ WInv

-----------------------------------------------------------------------------
(* Types. *)

\* Changing one image keeps the type of a directory.
LEMMA OneImage ==
  ASSUME NEW dir, IsImages(dir), Padded(dir), NEW r \in DOMAIN dir,
         NEW i \in Image, i.pad = i.marks
  PROVE  /\ IsImages([dir EXCEPT ![r] = i]) /\ Padded([dir EXCEPT ![r] = i])
         /\ DOMAIN [dir EXCEPT ![r] = i] = DOMAIN dir
  BY DEF IsImages, Padded

\* Names get longer and shorter together with the padding.
LEMMA Renaming ==
  ASSUME NEW i \in Image, i.pad = i.marks
  PROVE  /\ Unmark(i) \in Image /\ Unmark(i).pad = Unmark(i).marks
         /\ Unmark(i).vendor = i.vendor
         /\ Mark(i) \in Image /\ Mark(i).pad = Mark(i).marks
         /\ Mark(i).vendor = i.vendor
<1> DEFINE u == [i EXCEPT !.marks = i.marks - 1, !.pad = i.pad - 1]
           k == [i EXCEPT !.marks = i.marks + 1, !.pad = i.pad + 1]
<1>1. i.marks \in Nat /\ i.pad \in Nat  BY DEF Image
<1>2. k \in Image /\ k.pad = k.marks /\ k.vendor = i.vendor
  <2>1. i.marks + 1 \in Nat /\ i.pad + 1 \in Nat  BY <1>1
  <2> QED  BY <2>1 DEF Image
<1>3. Mark(i) = k  BY DEF Mark
<1>4. CASE i.marks > 0
  <2>1. i.marks - 1 \in Nat /\ i.pad - 1 \in Nat  BY <1>1, <1>4
  <2>2. u \in Image /\ u.pad = u.marks /\ u.vendor = i.vendor  BY <2>1 DEF Image
  <2>3. Unmark(i) = u  BY <1>4 DEF Unmark
  <2> QED  BY <1>2, <1>3, <2>2, <2>3
<1>5. CASE ~(i.marks > 0)
  <2>1. Unmark(i) = i  BY <1>5 DEF Unmark
  <2> QED  BY <1>2, <1>3, <2>1
<1> QED  BY <1>4, <1>5

LEMMA InitTInv == Init => TInv
<1> SUFFICES ASSUME Init PROVE TInv  OBVIOUS
<1>1. DefaultMac \in Macs  BY InjectAssumption
<1>2. R!Whole(DefaultMac) \in Image  BY <1>1 DEF R!Whole, Image
<1>3. archive.rom = [r \in Roms |-> R!Whole(DefaultMac)] /\ archive.hashes = {}
      /\ archive = [rom |-> archive.rom, hashes |-> archive.hashes]
  BY DEF Init, R!Filled
<1>4. IsImages(archive.rom) /\ Padded(archive.rom)
  BY <1>2, <1>3 DEF IsImages, Padded, R!Whole
<1> QED  BY <1>3, <1>4 DEF Init, TInv, TypeOK, IsLines

LEMMA TypePrep ==
  ASSUME TInv, NEW r, prep(r)
  PROVE  TInv'
<1> USE DEF TInv, TypeOK, prep, conf, args
<1>1. r \in DOMAIN rom /\ rom[r] \in Image /\ rom[r].pad = rom[r].marks /\ r \in Roms
  BY DEF IsImages, Padded
<1>2. Padded(archive.rom)' /\ IsImages(archive.rom)' /\ IsLines(archive.hashes)'
  BY DEF Padded, IsImages, IsLines
<1>3. CASE prep_inject(r)
  <2> DEFINE u == Unmark(rom[r])
             i == [u EXCEPT !.vendor = vfiles]
  <2>1. u \in Image /\ u.pad = u.marks  BY <1>1, Renaming
  <2>2. i \in Image /\ i.pad = i.marks  BY <2>1 DEF Image
  <2>3. rom' = [rom EXCEPT ![r] = i] \/ rom' = [rom EXCEPT ![r] = u]
    BY <1>3 DEF prep_inject
  <2> HIDE DEF u, i
  <2>4. IsImages(rom') /\ Padded(rom') /\ DOMAIN rom' = DOMAIN rom
    <3>1. CASE rom' = [rom EXCEPT ![r] = i]
      <4>1. IsImages([rom EXCEPT ![r] = i]) /\ Padded([rom EXCEPT ![r] = i])
            /\ DOMAIN [rom EXCEPT ![r] = i] = DOMAIN rom
        BY <1>1, <2>2, OneImage
      <4> QED  BY <3>1, <4>1
    <3>2. CASE rom' = [rom EXCEPT ![r] = u]
      <4>1. IsImages([rom EXCEPT ![r] = u]) /\ Padded([rom EXCEPT ![r] = u])
            /\ DOMAIN [rom EXCEPT ![r] = u] = DOMAIN rom
        BY <1>1, <2>1, OneImage
      <4> QED  BY <3>2, <4>1
    <3> QED  BY <2>3, <3>1, <3>2
  <2> QED  BY <1>2, <1>3, <2>4 DEF prep_inject
<1>4. CASE prep_nuke(r)
  <2> DEFINE o == [rom[r] EXCEPT !.vendor = "out"]
             i == Mark(o)
  <2>1. o \in Image /\ o.pad = o.marks  BY <1>1 DEF Image
  <2>2. i \in Image /\ i.pad = i.marks  BY <2>1, Renaming
  <2>3. rom' = [rom EXCEPT ![r] = i] \/ rom' = rom
    BY <1>4 DEF prep_nuke
  <2> HIDE DEF o, i
  <2>4. IsImages(rom') /\ Padded(rom') /\ DOMAIN rom' = DOMAIN rom
    <3>1. IsImages([rom EXCEPT ![r] = i]) /\ Padded([rom EXCEPT ![r] = i])
          /\ DOMAIN [rom EXCEPT ![r] = i] = DOMAIN rom
      BY <1>1, <2>2, OneImage
    <3> QED  BY <2>3, <3>1
  <2>5. <<r, rom[r]>> \in Roms \X Image  BY <1>1
  <2>6. hashes' = hashes \cup {<<r, rom[r]>>}  BY <1>4 DEF prep_nuke, mksha512
  <2>7. IsLines(hashes')  BY <2>5, <2>6 DEF IsLines
  <2> QED  BY <1>2, <1>4, <2>4, <2>7 DEF prep_nuke
<1> QED  BY <1>3, <1>4

LEMMA TypeMac ==
  ASSUME TInv, modify_mac
  PROVE  TInv' /\ DOMAIN rom' = DOMAIN rom
<1>1. CASE new_mac # None /\ board.gbe
  <2>1. new_mac \in Macs  BY <1>1 DEF TInv, TypeOK
  <2>2. rom' = [r \in DOMAIN rom |-> newmac(r)]  BY <1>1 DEF modify_mac
  <2>3. \A r \in DOMAIN rom : newmac(r) \in Image /\ newmac(r).pad = newmac(r).marks
    BY <2>1 DEF TInv, TypeOK, IsImages, Padded, newmac, Image
  <2>4. IsImages(rom') /\ Padded(rom') /\ DOMAIN rom' = DOMAIN rom
    BY <2>2, <2>3 DEF IsImages, Padded, TInv, TypeOK
  <2> QED
    BY <1>1, <2>4 DEF TInv, TypeOK, modify_mac, gbe_noticed, Goto, conf, args
<1>2. CASE ~(new_mac # None /\ board.gbe)
  BY <1>2 DEF TInv, TypeOK, modify_mac, Goto, conf, args
<1> QED  BY <1>1, <1>2

LEMMA TypeTorn ==
  ASSUME TInv, NEW packed \in SUBSET DOMAIN rom, NEW lines \in {hashes, {}},
         remktar_torn(packed, lines)
  PROVE  TInv'
<1>1. archive'.rom = [r \in packed |-> rom[r]] /\ archive'.hashes = lines
      /\ archive' = [rom |-> archive'.rom, hashes |-> archive'.hashes]
  BY DEF remktar_torn
<1>2. IsImages(archive'.rom) /\ Padded(archive'.rom) /\ IsLines(archive'.hashes)
  BY <1>1 DEF TInv, TypeOK, IsImages, Padded, IsLines
<1> QED
  BY <1>1, <1>2 DEF TInv, TypeOK, remktar_torn, Exit, args, bin

LEMMA StepTInv ==
  ASSUME TInv, [Next]_vars
  PROVE  TInv'
<1> USE DEF TInv, TypeOK, conf, args, bin, Goto, Exit
<1>1. CASE UNCHANGED vars  BY ZenonT(30), <1>1 DEF vars
<1>2. ASSUME NEW m \in {"nuke", "inject"}, NEW mac \in Macs \cup {None}, Start(m, mac)
      PROVE  TInv'
  BY <1>2 DEF Start
<1>3. ASSUME NEW v \in {"in", "other"}, Unpack(v) PROVE TInv'
  BY <1>3 DEF Unpack
<1>4. CASE readkconfig  BY <1>4 DEF readkconfig, fx_images
<1>5. ASSUME NEW r \in Roms, prep(r) PROVE TInv'  BY <1>5, TypePrep
<1>6. CASE check_vendor_hashes
  BY <1>6 DEF check_vendor_hashes, hashes_after, IsLines
<1>7. CASE wrong_hashes  BY <1>7 DEF wrong_hashes
<1>8. CASE modify_mac  BY <1>8, TypeMac
<1>9. CASE remktar  BY <1>9 DEF remktar
<1>10. ASSUME NEW packed \in SUBSET DOMAIN rom, NEW lines \in {hashes, {}},
              remktar_torn(packed, lines)
       PROVE  TInv'
  BY <1>10, TypeTorn
<1>11. CASE not_modified  BY <1>11 DEF not_modified
<1>12. CASE Abort  BY <1>12 DEF Abort
<1> QED
  BY <1>1, <1>2, <1>3, <1>4, <1>5, <1>6, <1>7, <1>8, <1>9, <1>10, <1>11, <1>12
     DEF Next, Step

\* Every variable keeps its type; the padding of an image is never removed
\* when there is none.
THEOREM TypeCorrect == Spec => []TypeOK
<1>1. TInv => TypeOK  BY DEF TInv
<1> QED  BY <1>1, InitTInv, StepTInv, PTL DEF Spec

-----------------------------------------------------------------------------
(* What is packed was verified. *)

LEMMA InitVInv == Init => VInv
<1> SUFFICES ASSUME Init PROVE VInv  OBVIOUS
<1>1. archive.rom = [r \in Roms |-> R!Whole(DefaultMac)] /\ archive.hashes = {}
  BY DEF Init, R!Filled
<1>2. Sound(archive.rom, archive.hashes)
  BY <1>1 DEF Sound, Clean, CleanLines, Covered, R!Whole
<1>3. pc = "idle"  BY DEF Init
<1> QED  BY <1>2, <1>3 DEF VInv

\* An image with vendor files that were not verified yet makes the hash file
\* decide; one without gets none.
LEMMA PrepVInv ==
  ASSUME TInv, VInv, NEW r, prep(r)
  PROVE  VInv'
<1>1. /\ pc = "prep" /\ pc' = "prep" /\ r \in todo /\ mode' = mode
      /\ archive' = archive /\ has_hashes' = has_hashes
  BY DEF prep, args, conf
<1>2. r \in DOMAIN rom /\ rom[r] \in Image /\ rom[r].pad = rom[r].marks
      /\ IsImages(rom) /\ has_hashes \in {"y", "n"}
  BY <1>1 DEF TInv, TypeOK, IsImages, Padded
<1>3. SoundPrep /\ Sound(archive.rom, archive.hashes)  BY <1>1 DEF VInv
<1>4. CASE prep_inject(r)
  <2>1. mode = "inject" /\ hashes' = hashes  BY <1>4 DEF prep_inject
  <2> DEFINE u == Unmark(rom[r])
             i == [u EXCEPT !.vendor = vfiles]
  <2>2. u.vendor = rom[r].vendor  BY <1>2, Renaming
  <2>3. CASE has_hashes = "y"
    <3>1. rom' = [rom EXCEPT ![r] = i]  BY <1>4, <2>3 DEF prep_inject
    <3> HIDE DEF i
    <3>2. DOMAIN rom' = DOMAIN rom  BY <3>1
    <3>3. SoundPrep'
      BY <1>1, <1>3, <2>1, <2>3, <3>2 DEF SoundPrep, Covered, Lined, CleanLines
    <3> QED  BY <1>1, <1>3, <3>3 DEF VInv
  <2>4. CASE has_hashes = "n"
    <3>1. rom' = [rom EXCEPT ![r] = u]  BY <1>4, <2>4 DEF prep_inject
    <3> HIDE DEF u
    <3>2. DOMAIN rom' = DOMAIN rom  BY <3>1
    <3>3. Clean(rom)  BY <1>3, <2>1, <2>4 DEF SoundPrep
    <3>4. Clean(rom')  BY <1>2, <2>2, <3>1, <3>3 DEF Clean
    <3>5. SoundPrep'
      BY <1>1, <1>3, <2>1, <2>4, <3>2, <3>4
         DEF SoundPrep, Covered, Lined, CleanLines, Clean
    <3> QED  BY <1>1, <1>3, <3>5 DEF VInv
  <2> QED  BY <1>2, <2>3, <2>4
<1>5. CASE prep_nuke(r)
  <2>1. mode = "nuke" /\ hashes' = hashes \cup {<<r, rom[r]>>}
    BY <1>5 DEF prep_nuke, mksha512
  <2>2. Clean(rom)  BY <1>3, <2>1 DEF SoundPrep
  <2>3. CleanLines(hashes')
    BY <1>2, <1>3, <2>1, <2>2 DEF CleanLines, Clean, SoundPrep
  <2>4. CASE has_hashes = "n"
    <3> DEFINE o == [rom[r] EXCEPT !.vendor = "out"]
               i == Mark(o)
    <3>1. o \in Image /\ o.pad = o.marks /\ o.vendor = "out"  BY <1>2 DEF Image
    <3>2. i.vendor = "out"  BY <3>1, Renaming
    <3>3. rom' = [rom EXCEPT ![r] = i] /\ todo' = todo \ {r}
      BY <1>5, <2>4 DEF prep_nuke, strippable
    <3> HIDE DEF i
    <3>4. DOMAIN rom' = DOMAIN rom /\ Clean(rom')  BY <2>2, <3>2, <3>3 DEF Clean
    <3>5. Lined(DOMAIN rom' \ todo', hashes')
      <4>1. Lined(DOMAIN rom \ todo, hashes)  BY <1>3, <2>1, <2>4 DEF SoundPrep
      <4>2. <<r, rom[r]>> \in hashes' /\ <<r, rom[r]>>[1] = r  BY <2>1
      <4> QED  BY <2>1, <3>3, <3>4, <4>1, <4>2 DEF Lined
    <3>6. SoundPrep'
      BY <1>1, <2>1, <2>3, <3>4, <3>5 DEF SoundPrep, CleanLines, Clean, Lined
    <3> QED  BY <1>1, <1>3, <3>6 DEF VInv
  <2>5. CASE has_hashes = "y"
    <3>1. rom' = rom  BY <1>5, <2>5 DEF prep_nuke, strippable
    <3>2. SoundPrep'
      BY <1>1, <2>1, <2>2, <2>3, <2>5, <3>1 DEF SoundPrep, CleanLines, Clean
    <3> QED  BY <1>1, <1>3, <3>2 DEF VInv
  <2> QED  BY <1>2, <2>4, <2>5
<1> QED  BY <1>4, <1>5 DEF prep

\* sha512sum -c leaves only images that were hashed.
LEMMA ChecksVInv ==
  ASSUME TInv, VInv, check_vendor_hashes
  PROVE  VInv'
<1>1. /\ pc = "prep" /\ pc' = "mac" /\ todo = {} /\ rom' = rom /\ archive' = archive
      /\ must_match /\ hashes' = hashes_after
  BY DEF check_vendor_hashes, conf, args, Goto
<1>2. SoundPrep /\ Sound(archive.rom, archive.hashes)  BY <1>1 DEF VInv
<1>3. mode \in {"nuke", "inject"} /\ has_hashes \in {"y", "n"}  BY DEF TInv, TypeOK
<1>4. CleanLines(hashes') /\ Covered(rom', hashes')
  <2>1. CASE has_hashes = "y"
    <3>1. hashes' = {}  BY <1>1, <2>1 DEF hashes_after
    <3> QED  BY <3>1 DEF CleanLines, Covered
  <2>2. CASE has_hashes = "n"
    <3>1. hashes' = hashes  BY <1>1, <2>2 DEF hashes_after
    <3> QED  BY <1>1, <1>2, <1>3, <2>2, <3>1 DEF SoundPrep, CleanLines, Covered, Lined
  <2> QED  BY <1>3, <2>1, <2>2
<1>5. Clean(rom')
  <2>1. CASE mode = "inject" /\ has_hashes = "y"
    <3>1. hashes_match /\ hashes # {} /\ Covered(rom, hashes) /\ CleanLines(hashes)
      BY <1>1, <1>2, <2>1 DEF must_match, SoundPrep
    <3>2. ASSUME NEW r \in DOMAIN rom PROVE rom[r].vendor # "other"
      <4>1. PICK line \in hashes : line[1] = r  BY <3>1 DEF Covered, Lined
      <4>2. rom[r] = line[2]  BY <3>1, <4>1 DEF hashes_match
      <4> QED  BY <3>1, <4>2 DEF CleanLines
    <3> QED  BY <1>1, <3>2 DEF Clean
  <2>2. CASE ~(mode = "inject" /\ has_hashes = "y")
    BY <1>1, <1>2, <1>3, <2>2 DEF SoundPrep, Clean
  <2> QED  BY <2>1, <2>2
<1> QED  BY <1>1, <1>2, <1>4, <1>5 DEF VInv, Sound

LEMMA MacVInv ==
  ASSUME TInv, VInv, modify_mac
  PROVE  VInv'
<1>1. pc = "mac" /\ pc' = "pack" /\ archive' = archive /\ hashes' = hashes
  BY DEF modify_mac, conf, args, Goto
<1>2. Sound(rom, hashes) /\ Sound(archive.rom, archive.hashes)  BY <1>1 DEF VInv
<1>3. DOMAIN rom' = DOMAIN rom  BY TypeMac
<1>4. \A r \in DOMAIN rom : rom'[r].vendor = rom[r].vendor
  <2>1. CASE new_mac # None /\ board.gbe
    <3>1. rom' = [r \in DOMAIN rom |-> newmac(r)]  BY <2>1 DEF modify_mac
    <3>2. \A r \in DOMAIN rom : newmac(r).vendor = rom[r].vendor
      BY DEF TInv, TypeOK, IsImages, newmac, Image
    <3> QED  BY <3>1, <3>2
  <2>2. CASE ~(new_mac # None /\ board.gbe)  BY <2>2 DEF modify_mac
  <2> QED  BY <2>1, <2>2
<1>5. Sound(rom', hashes')
  BY <1>1, <1>2, <1>3, <1>4 DEF Sound, Clean, CleanLines, Covered, Lined
<1> QED  BY <1>1, <1>2, <1>5 DEF VInv

\* A part of what may be packed may be packed too.
LEMMA TornVInv ==
  ASSUME TInv, VInv, NEW packed \in SUBSET DOMAIN rom, NEW lines \in {hashes, {}},
         remktar_torn(packed, lines)
  PROVE  VInv'
<1>1. /\ pc = "pack" /\ xchanged = "y" /\ pc' = "idle"
      /\ archive'.rom = [r \in packed |-> rom[r]] /\ archive'.hashes = lines
  BY DEF remktar_torn, Exit
<1>2. Sound(rom, hashes)  BY <1>1 DEF VInv
<1>3. Sound(archive'.rom, archive'.hashes)
  BY <1>1, <1>2 DEF Sound, Clean, CleanLines, Covered, Lined
<1> QED  BY <1>1, <1>3 DEF VInv

LEMMA StepVInv ==
  ASSUME TInv, VInv, [Next]_vars
  PROVE  VInv'
<1>1. CASE UNCHANGED vars
  BY <1>1 DEF vars, VInv, SoundPrep, Sound, Clean, CleanLines, Covered, Lined
<1>2. ASSUME NEW m \in {"nuke", "inject"}, NEW mac \in Macs \cup {None}, Start(m, mac)
      PROVE  VInv'
  <2>1. archive' = archive /\ xchanged' = "" /\ pc' \in {"pack", "unpack"}
    BY <1>2 DEF Start, conf, bin, Goto
  <2> QED  BY <2>1 DEF VInv
<1>3. ASSUME NEW v \in {"in", "other"}, Unpack(v) PROVE VInv'
  <2>1. /\ archive' = archive /\ rom' = archive.rom /\ hashes' = archive.hashes
        /\ pc' = "config"
        /\ has_hashes' = IF archive.hashes # {} THEN "y" ELSE "n"
    BY <1>3 DEF Unpack, conf, Goto
  <2> QED  BY <2>1 DEF VInv
<1>4. CASE readkconfig
  <2>1. /\ pc = "config" /\ archive' = archive /\ rom' = rom /\ hashes' = hashes
        /\ has_hashes' = has_hashes /\ mode' = mode /\ xchanged' = xchanged
        /\ pc' \in {"prep", "mac", "idle"}
        /\ pc' = "prep" => todo' = DOMAIN rom
    BY <1>4 DEF readkconfig, fx_images, conf, args, bin, Goto, Exit
  <2>2. Sound(rom, hashes) /\ (has_hashes = "y" <=> hashes # {})  BY <2>1 DEF VInv
  <2>3. SoundPrep' \/ pc' # "prep"
    BY <2>1, <2>2 DEF SoundPrep, Sound, Clean, CleanLines, Covered, Lined
  <2> QED  BY <2>1, <2>2, <2>3 DEF VInv
<1>5. ASSUME NEW r \in Roms, prep(r) PROVE VInv'  BY <1>5, PrepVInv
<1>6. CASE check_vendor_hashes  BY <1>6, ChecksVInv
<1>7. CASE wrong_hashes
  <2>1. archive' = archive /\ pc' = "idle"  BY <1>7 DEF wrong_hashes, conf, Exit
  <2> QED  BY <2>1 DEF VInv
<1>8. CASE modify_mac  BY <1>8, MacVInv
<1>9. CASE remktar
  <2>1. /\ pc = "pack" /\ xchanged = "y" /\ pc' = "idle"
        /\ archive'.rom = rom /\ archive'.hashes = hashes
    BY <1>9 DEF remktar, Exit
  <2> QED  BY <2>1 DEF VInv
<1>10. ASSUME NEW packed \in SUBSET DOMAIN rom, NEW lines \in {hashes, {}},
              remktar_torn(packed, lines)
       PROVE  VInv'
  BY <1>10, TornVInv
<1>11. CASE not_modified
  <2>1. archive' = archive /\ pc' = "idle"  BY <1>11 DEF not_modified, conf, Exit
  <2> QED  BY <2>1 DEF VInv
<1>12. CASE Abort
  <2>1. archive' = archive /\ pc' = "idle"  BY <1>12 DEF Abort, conf, Exit
  <2> QED  BY <2>1 DEF VInv
<1> QED
  BY <1>1, <1>2, <1>3, <1>4, <1>5, <1>6, <1>7, <1>8, <1>9, <1>10, <1>11, <1>12
     DEF Next, Step

\* No image gets into an archive with vendor files other than those it was
\* built with, for any number of images, whatever is aborted or torn.
THEOREM VerifiedCorrect == Spec => []Verified
<1>1. VInv => Verified  BY DEF VInv, Sound, Clean, Verified
<1> QED  BY <1>1, InitTInv, StepTInv, InitVInv, StepVInv, PTL DEF Spec

-----------------------------------------------------------------------------
(* A run does what it was asked to do. *)

LEMMA Archives ==
  ASSUME NEW m \in Macs
  PROVE  /\ R!Filled(m) = [rom |-> R!Filled(m).rom, hashes |-> R!Filled(m).hashes]
         /\ R!Filled(m).rom = [r \in Roms |-> R!Whole(m)]
         /\ R!Filled(m).hashes = {}
         /\ R!Stripped(m) = [rom |-> R!Stripped(m).rom, hashes |-> R!Stripped(m).hashes]
         /\ R!Stripped(m).rom = [r \in Roms |-> R!Bare(m)]
         /\ R!Stripped(m).hashes = {<<r, R!Whole(m)>> : r \in Roms}
         /\ R!Stripped(m).hashes # {}
         /\ R!Filled(m) # R!Stripped(m)
  BY InjectAssumption DEF R!Filled, R!Stripped

LEMMA InitWInv == Init => WInv
<1> SUFFICES ASSUME Init PROVE WInv  OBVIOUS
<1>1. DefaultMac \in Macs  BY InjectAssumption
<1>2. archive = R!Filled(DefaultMac) /\ pc = "idle" /\ mode = "inject" /\ status = "none"
  BY DEF Init
<1>3. Work(DefaultMac)  BY <1>1, <1>2, Archives DEF Work
<1> QED  BY <1>1, <1>2, <1>3 DEF WInv, Args, EndsAsAsked

LEMMA StepArgs ==
  ASSUME TInv, Args, [Next]_vars
  PROVE  Args'
<1> USE DEF Args, conf, args, bin, Goto, Exit
<1>1. CASE UNCHANGED vars  BY <1>1 DEF vars
<1>2. ASSUME NEW m \in {"nuke", "inject"}, NEW mac \in Macs \cup {None}, Start(m, mac)
      PROVE  Args'
  BY <1>2 DEF Start
<1>3. ASSUME NEW v \in {"in", "other"}, Unpack(v) PROVE Args'  BY <1>3 DEF Unpack
<1>4. CASE readkconfig  BY <1>4 DEF readkconfig
<1>5. ASSUME NEW r \in Roms, prep(r) PROVE Args'  BY <1>5 DEF prep
<1>6. CASE check_vendor_hashes  BY <1>6 DEF check_vendor_hashes
<1>7. CASE wrong_hashes  BY <1>7 DEF wrong_hashes
<1>8. CASE modify_mac  BY <1>8 DEF modify_mac
<1>9. CASE remktar  BY <1>9 DEF remktar
<1>10. ASSUME NEW packed \in SUBSET DOMAIN rom, NEW lines \in {hashes, {}},
              remktar_torn(packed, lines)
       PROVE  Args'
  BY <1>10 DEF remktar_torn
<1>11. CASE not_modified  BY <1>11 DEF not_modified
<1>12. CASE Abort  BY <1>12 DEF Abort
<1> QED
  BY <1>1, <1>2, <1>3, <1>4, <1>5, <1>6, <1>7, <1>8, <1>9, <1>10, <1>11, <1>12
     DEF Next, Step

\* readkconfig hands all images to prep, or none when there is nothing to do.
LEMMA ConfigWork ==
  ASSUME IInv, NEW m \in Macs, Work(m), readkconfig
  PROVE  Work(m)'
<1>1. /\ pc = "config" /\ archive' = archive /\ board' = board /\ rom' = rom
      /\ hashes' = hashes /\ has_hashes' = has_hashes /\ xchanged' = xchanged
      /\ mode' = mode /\ new_mac' = new_mac /\ vfiles' = vfiles
      /\ pc' = "prep" => board.kind = "vendor" /\ todo' = DOMAIN rom
      /\ pc' = "mac" => board.kind = "free"
      /\ pc' \in {"prep", "mac", "idle"}
  BY DEF readkconfig, fx_images, conf, args, bin, Goto, Exit
<1>2. Same /\ archive \in {R!Filled(m), R!Stripped(m)}
      /\ (archive = R!Stripped(m) => board.kind = "vendor")
  BY <1>1 DEF Work
<1>3. (has_hashes = "y" <=> hashes # {}) /\ has_hashes \in {"y", "n"}
      /\ mode \in {"nuke", "inject"}
  BY <1>1 DEF IInv, VInv, TInv, TypeOK
<1>4. CASE pc' = "prep"
  <2>1. ASSUME archive = R!Filled(m)
        PROVE  has_hashes = "n" /\ StripPart(m)' /\ IsFilled(m)' /\ xchanged' = ""
    <3>1. has_hashes = "n" /\ IsFilled(m)'
      BY <1>1, <1>2, <1>3, <2>1, Archives DEF Same, IsFilled
    <3>2. DOMAIN rom' = Roms /\ todo' = Roms /\ \A r \in Roms : rom'[r] = R!Whole(m)
      BY <1>1, <1>2, <1>4, <2>1, Archives DEF Same
    <3>3. hashes' = {}  BY <1>1, <1>2, <2>1, Archives DEF Same
    <3> QED  BY <1>1, <1>2, <3>1, <3>2, <3>3 DEF Same, StripPart
  <2>2. ASSUME archive = R!Stripped(m)
        PROVE  has_hashes = "y" /\ FillPart(m)' /\ xchanged' = ""
    <3>1. has_hashes = "y"
      BY <1>1, <1>2, <1>3, <2>2, Archives DEF Same
    <3>2. DOMAIN rom' = Roms /\ todo' = Roms /\ \A r \in Roms : rom'[r] = R!Bare(m)
      BY <1>1, <1>2, <1>4, <2>2, Archives DEF Same
    <3> QED  BY <1>1, <1>2, <3>1, <3>2 DEF Same, FillPart
  <2>3. PrepWork(m)'
    BY <1>1, <1>2, <1>4, <2>1, <2>2, Archives DEF PrepWork
  <2> QED  BY <1>1, <1>2, <1>4, <2>3 DEF Work
<1>5. CASE pc' = "mac"
  <2>1. archive = R!Filled(m) /\ IsFilled(m)' /\ xchanged' = ""
    BY <1>1, <1>2, <1>5, Archives DEF Same, IsFilled
  <2>2. MacWork(m)'  BY <1>1, <1>5, <2>1 DEF MacWork
  <2> QED  BY <1>1, <1>2, <1>5, <2>2 DEF Work
<1>6. CASE pc' = "idle"  BY <1>1, <1>2, <1>6 DEF Work
<1> QED  BY <1>1, <1>4, <1>5, <1>6

\* Inserting undoes what stripping does to an image.
LEMMA Undone ==
  ASSUME NEW m \in Macs
  PROVE  /\ Mark([R!Whole(m) EXCEPT !.vendor = "out"]) = R!Bare(m)
         /\ [Unmark(R!Bare(m)) EXCEPT !.vendor = vfiles] = Vendored(m)
         /\ Unmark(R!Whole(m)) = R!Whole(m)
<1>1. R!Whole(m) = [vendor |-> "in", gbe |-> m, pad |-> 0, marks |-> 0]
      /\ R!Bare(m) = [vendor |-> "out", gbe |-> m, pad |-> 1, marks |-> 1]
  BY DEF R!Whole, R!Bare
<1>2. [R!Whole(m) EXCEPT !.vendor = "out"]
        = [vendor |-> "out", gbe |-> m, pad |-> 0, marks |-> 0]
  BY <1>1
<1> DEFINE o == [vendor |-> "out", gbe |-> m, pad |-> 0, marks |-> 0]
           b == [vendor |-> "out", gbe |-> m, pad |-> 1, marks |-> 1]
<1>3. Mark(o) = b
  <2>1. Mark(o) = [o EXCEPT !.marks = 1, !.pad = 1]  BY DEF Mark
  <2>2. o \in Image /\ o.pad = o.marks  BY DEF Image
  <2>3. Mark(o) \in Image  BY <2>2, Renaming
  <2>4. /\ Mark(o).vendor = "out" /\ Mark(o).gbe = m
        /\ Mark(o).pad = 1 /\ Mark(o).marks = 1
    BY <2>1
  <2> QED  BY <2>3, <2>4 DEF Image
<1>4. Unmark(b) = o
  <2>1. Unmark(b) = [b EXCEPT !.marks = 0, !.pad = 0]  BY DEF Unmark
  <2>2. b \in Image /\ b.pad = b.marks  BY DEF Image
  <2>3. Unmark(b) \in Image  BY <2>2, Renaming
  <2>4. /\ Unmark(b).vendor = "out" /\ Unmark(b).gbe = m
        /\ Unmark(b).pad = 0 /\ Unmark(b).marks = 0
    BY <2>1
  <2> QED  BY <2>3, <2>4 DEF Image
<1>5. Vendored(m) = [vendor |-> vfiles, gbe |-> m, pad |-> 0, marks |-> 0]
  BY <1>1 DEF Vendored
<1>6. Unmark(R!Whole(m)) = R!Whole(m)  BY <1>1 DEF Unmark
<1> QED  BY <1>1, <1>2, <1>3, <1>4, <1>5, <1>6

LEMMA PrepWorks ==
  ASSUME IInv, NEW m \in Macs, Work(m), NEW r \in Roms, prep(r)
  PROVE  Work(m)'
<1>1. /\ pc = "prep" /\ pc' = "prep" /\ r \in todo /\ archive' = archive /\ board' = board
      /\ mode' = mode /\ new_mac' = new_mac /\ vfiles' = vfiles
      /\ has_hashes' = has_hashes
  BY DEF prep, conf, args
<1>2. PrepWork(m) /\ archive \in {R!Filled(m), R!Stripped(m)}
      /\ (archive = R!Stripped(m) => board.kind = "vendor")
  BY <1>1 DEF Work
<1>3. mode \in {"nuke", "inject"} /\ todo \subseteq DOMAIN rom
      /\ rom = [q \in DOMAIN rom |-> rom[q]]
  BY DEF IInv, TInv, TypeOK, IsImages
<1>4. Vendored(m)' = Vendored(m)  BY <1>1 DEF Vendored
<1>5. CASE mode = "inject" /\ archive = R!Filled(m)
  <2>1. has_hashes = "n" /\ IsFilled(m) /\ xchanged = ""
    BY <1>2, <1>5 DEF PrepWork
  <2>2. rom[r] = R!Whole(m)  BY <2>1, Archives DEF IsFilled
  <2>3. rom' = [rom EXCEPT ![r] = Unmark(rom[r])] /\ xchanged' = xchanged /\ hashes' = hashes
    BY <1>5, <2>1 DEF prep, prep_inject, prep_nuke
  <2>4. rom' = rom  BY <1>3, <2>2, <2>3, Undone
  <2>5. IsFilled(m)' /\ xchanged' = ""  BY <2>1, <2>3, <2>4 DEF IsFilled
  <2> QED  BY <1>1, <1>2, <1>5, <2>1, <2>5, Archives DEF Work, PrepWork
<1>6. CASE mode = "inject" /\ archive = R!Stripped(m)
  <2>1. has_hashes = "y" /\ FillPart(m)  BY <1>2, <1>6 DEF PrepWork
  <2> DEFINE i == [Unmark(rom[r]) EXCEPT !.vendor = vfiles]
  <2>2. rom[r] = R!Bare(m)  BY <1>1, <2>1 DEF FillPart
  <2>3. i = Vendored(m)  BY <2>2, Undone
  <2>4. /\ rom' = [rom EXCEPT ![r] = i] /\ xchanged' = "y" /\ hashes' = hashes
        /\ todo' = todo \ {r}
    BY <1>6, <2>1 DEF prep, prep_inject, prep_nuke
  <2> HIDE DEF i
  <2>5. DOMAIN rom' = Roms /\ \A q \in Roms : rom'[q] = IF q = r THEN i ELSE rom[q]
    BY <2>1, <2>4 DEF FillPart
  <2>6. FillPart(m)'
    BY <1>1, <1>4, <2>1, <2>3, <2>4, <2>5 DEF FillPart
  <2> QED  BY <1>1, <1>2, <1>6, <2>1, <2>6, Archives DEF Work, PrepWork
<1>7. CASE mode = "nuke" /\ archive = R!Filled(m)
  <2>1. has_hashes = "n" /\ StripPart(m)  BY <1>2, <1>7 DEF PrepWork
  <2> DEFINE i == Mark([rom[r] EXCEPT !.vendor = "out"])
  <2>2. rom[r] = R!Whole(m)  BY <1>1, <2>1 DEF StripPart
  <2>3. i = R!Bare(m)  BY <2>2, Undone
  <2>4. /\ rom' = [rom EXCEPT ![r] = i] /\ xchanged' = "y" /\ todo' = todo \ {r}
        /\ hashes' = hashes \cup {<<r, rom[r]>>}
    BY <1>7, <2>1 DEF prep, prep_inject, prep_nuke, strippable, mksha512
  <2> HIDE DEF i
  <2>5. DOMAIN rom' = Roms /\ \A q \in Roms : rom'[q] = IF q = r THEN i ELSE rom[q]
    BY <2>1, <2>4 DEF StripPart
  <2>6. Roms \ todo' = (Roms \ todo) \cup {r}  BY <2>4
  <2>7. hashes' = {<<q, R!Whole(m)>> : q \in Roms \ todo'}
    BY <2>1, <2>2, <2>4, <2>6 DEF StripPart
  <2>8. \A q \in Roms : rom'[q] = IF q \in todo' THEN R!Whole(m) ELSE R!Bare(m)
    BY <2>1, <2>3, <2>4, <2>5 DEF StripPart
  <2>9. StripPart(m)'  BY <2>4, <2>5, <2>7, <2>8 DEF StripPart
  <2> QED  BY <1>1, <1>2, <1>7, <2>1, <2>9, Archives DEF Work, PrepWork
<1>8. CASE mode = "nuke" /\ archive = R!Stripped(m)
  <2>1. has_hashes = "y" /\ xchanged = ""  BY <1>2, <1>8 DEF PrepWork
  <2>2. xchanged' = ""
    BY <1>8, <2>1 DEF prep, prep_inject, prep_nuke, strippable
  <2> QED  BY <1>1, <1>2, <1>8, <2>1, <2>2, Archives DEF Work, PrepWork
<1> QED  BY <1>2, <1>3, <1>5, <1>6, <1>7, <1>8

\* When all were prepared, either the hashes tell that the images are what they
\* were, or they were not to be checked.
LEMMA CheckWorks ==
  ASSUME IInv, NEW m \in Macs, Work(m), check_vendor_hashes
  PROVE  Work(m)'
<1>1. /\ pc = "prep" /\ pc' = "mac" /\ todo = {} /\ rom' = rom /\ archive' = archive
      /\ must_match /\ hashes' = hashes_after /\ board' = board /\ mode' = mode
      /\ new_mac' = new_mac /\ xchanged' = xchanged
  BY DEF check_vendor_hashes, conf, args, Goto
<1>2. PrepWork(m) /\ archive \in {R!Filled(m), R!Stripped(m)}
      /\ board.kind = "vendor"
  BY <1>1 DEF Work, PrepWork
<1>3. mode \in {"nuke", "inject"} /\ rom = [q \in DOMAIN rom |-> rom[q]]
  BY DEF IInv, TInv, TypeOK, IsImages
<1>4. PICK q \in Roms : TRUE  BY InjectAssumption
<1>5. CASE mode = "inject" /\ archive = R!Filled(m)
  <2>1. has_hashes = "n" /\ IsFilled(m)  BY <1>2, <1>5 DEF PrepWork
  <2>2. IsFilled(m)'  BY <1>1, <2>1 DEF hashes_after, IsFilled
  <2> QED  BY <1>1, <1>2, <1>5, <2>2 DEF Work, MacWork
<1>6. CASE mode = "inject" /\ archive = R!Stripped(m)
  <2>1. has_hashes = "y" /\ FillPart(m)  BY <1>2, <1>6 DEF PrepWork
  <2>2. hashes_match  BY <1>1, <1>6, <2>1 DEF must_match
  <2>3. hashes = {<<r, R!Whole(m)>> : r \in Roms}
    BY <1>6, <2>1, Archives DEF FillPart
  <2>4. \A r \in Roms : rom[r] = R!Whole(m)
    <3> TAKE r \in Roms
    <3>1. <<r, R!Whole(m)>> \in hashes  BY <2>3
    <3> QED  BY <2>2, <3>1 DEF hashes_match
  <2>5. rom = [r \in Roms |-> R!Whole(m)]  BY <1>3, <2>1, <2>4 DEF FillPart
  <2>6. hashes' = {}  BY <1>1, <2>1 DEF hashes_after
  <2>7. IsFilled(m)'  BY <1>1, <2>5, <2>6, Archives DEF IsFilled
  <2>8. xchanged = "y"  BY <1>1, <1>4, <2>1 DEF FillPart
  <2> QED  BY <1>1, <1>2, <1>6, <2>7, <2>8 DEF Work, MacWork
<1>7. CASE mode = "nuke" /\ archive = R!Filled(m)
  <2>1. has_hashes = "n" /\ StripPart(m)  BY <1>2, <1>7 DEF PrepWork
  <2>2. rom = [r \in Roms |-> R!Bare(m)]  BY <1>1, <1>3, <2>1 DEF StripPart
  <2>3. hashes' = {<<r, R!Whole(m)>> : r \in Roms}
    <3>1. hashes' = hashes  BY <1>1, <2>1 DEF hashes_after
    <3>2. Roms \ todo = Roms  BY <1>1
    <3> QED  BY <2>1, <3>1, <3>2 DEF StripPart
  <2>4. IsStripped(m)'  BY <1>1, <2>2, <2>3, Archives DEF IsStripped
  <2>5. xchanged = "y"  BY <1>1, <1>4, <2>1 DEF StripPart
  <2> QED  BY <1>1, <1>2, <1>7, <2>4, <2>5, Archives DEF Work, MacWork
<1>8. CASE mode = "nuke" /\ archive = R!Stripped(m)
  <2>1. xchanged = ""  BY <1>2, <1>8 DEF PrepWork
  <2> QED  BY <1>1, <1>2, <1>8, <2>1, Archives DEF Work, MacWork
<1> QED  BY <1>2, <1>3, <1>5, <1>6, <1>7, <1>8

LEMMA MacWorks ==
  ASSUME IInv, NEW m \in Macs, Work(m), modify_mac
  PROVE  Work(m)'
<1>1. /\ pc = "mac" /\ pc' = "pack" /\ archive' = archive /\ board' = board
      /\ mode' = mode /\ new_mac' = new_mac /\ hashes' = hashes
  BY DEF modify_mac, conf, args, Goto
<1>2. MacWork(m) /\ archive \in {R!Filled(m), R!Stripped(m)}
      /\ (archive = R!Stripped(m) => board.kind = "vendor")
  BY <1>1 DEF Work
<1>3. mode \in {"nuke", "inject"} /\ xchanged \in {"y", ""}
      /\ new_mac \in Macs \cup {None} /\ (mode = "nuke" => new_mac = None)
  BY DEF IInv, TInv, TypeOK, WInv, Args
<1>4. ToldMac' <=> ToldMac  BY <1>1 DEF ToldMac
<1>5. CASE ToldMac
  <2>1. mode = "inject" /\ IsFilled(m) /\ new_mac \in Macs
    BY <1>2, <1>3, <1>5 DEF ToldMac, MacWork
  <2>2. rom = [r \in Roms |-> R!Whole(m)] /\ hashes = {}
    BY <2>1, Archives DEF IsFilled
  <2>3. rom' = [r \in DOMAIN rom |-> newmac(r)] /\ gbe_noticed
    BY <1>5 DEF modify_mac, ToldMac
  <2>4. \A r \in Roms : newmac(r) = R!Whole(new_mac)  BY <2>2 DEF newmac, R!Whole
  <2>5. rom' = [r \in Roms |-> R!Whole(new_mac)]  BY <2>2, <2>3, <2>4
  <2>6. rom' = R!Filled(new_mac).rom /\ hashes' = {}
    BY <1>1, <2>1, <2>2, <2>5, Archives
  <2>7. xchanged' = "y"
    BY <2>2, <2>3, InjectAssumption DEF gbe_noticed
  <2>8. PackWork(m)'
    BY <1>1, <1>2, <2>1, <2>6, <2>7 DEF PackWork, IsFilled, MacWork
  <2> QED  BY <1>1, <1>2, <2>8 DEF Work
<1>6. CASE ~ToldMac
  <2>1. rom' = rom /\ xchanged' = xchanged  BY <1>6 DEF modify_mac, ToldMac
  <2>2. PackWork(m)'
    <3>1. (xchanged = "y" => board.kind \in {"vendor", "free"})  BY <1>2 DEF MacWork
    <3>2. mode = "inject" => IsFilled(m)'
      BY <1>1, <1>2, <2>1 DEF MacWork, IsFilled
    <3>3. mode = "nuke" /\ xchanged = "y" =>
            archive = R!Filled(m) /\ board.kind = "vendor" /\ IsStripped(m)'
      BY <1>1, <1>2, <2>1 DEF MacWork, IsStripped
    <3>4. xchanged = "" => Done(m)'
      BY <1>1, <1>2, <1>3, <1>4, <1>6, <2>1 DEF MacWork, Done
    <3> QED
      BY <1>1, <1>3, <1>4, <1>6, <2>1, <3>1, <3>2, <3>3, <3>4 DEF PackWork
  <2> QED  BY <1>1, <1>2, <2>2 DEF Work
<1> QED  BY <1>5, <1>6

\* Packing a whole archive: what it was and what it becomes.
Packed(m) ==
  \/ /\ mode = "inject"
     /\ archive \in {R!Filled(m), R!Stripped(m)}
     /\ \E n \in Macs : archive' = R!Filled(n) /\ (ToldMac => n = new_mac)
  \/ /\ mode = "nuke" /\ board.kind = "vendor"
     /\ archive = R!Filled(m) /\ archive' = R!Stripped(m)

LEMMA RemktarWorks ==
  ASSUME IInv, NEW m \in Macs, Work(m), remktar
  PROVE  /\ Packed(m)
         /\ \E n \in Macs : Work(n)'
<1>1. /\ pc = "pack" /\ xchanged = "y" /\ pc' = "idle" /\ board' = board
      /\ archive' = [rom |-> rom, hashes |-> hashes]
  BY DEF remktar, Exit, conf
<1>2. PackWork(m) /\ archive \in {R!Filled(m), R!Stripped(m)}
      /\ (archive = R!Stripped(m) => board.kind = "vendor")
  BY <1>1 DEF Work
<1>3. mode \in {"nuke", "inject"}  BY DEF IInv, TInv, TypeOK
<1>4. CASE mode = "inject"
  <2>1. PICK n \in Macs : IsFilled(n) /\ (ToldMac => n = new_mac)
    BY <1>1, <1>2, <1>4 DEF PackWork
  <2>2. archive' = R!Filled(n)  BY <1>1, <2>1, Archives DEF IsFilled
  <2>3. Work(n)'  BY <1>1, <2>2, Archives DEF Work
  <2> QED  BY <1>2, <1>4, <2>1, <2>2, <2>3 DEF Packed
<1>5. CASE mode = "nuke"
  <2>1. archive = R!Filled(m) /\ board.kind = "vendor" /\ IsStripped(m)
    BY <1>1, <1>2, <1>5 DEF PackWork
  <2>2. archive' = R!Stripped(m)  BY <1>1, <2>1, Archives DEF IsStripped
  <2>3. Work(m)'  BY <1>1, <2>1, <2>2 DEF Work
  <2> QED  BY <1>5, <2>1, <2>2, <2>3 DEF Packed
<1> QED  BY <1>3, <1>4, <1>5

\* Only a complete or a torn archive replaces the old one.
LEMMA ArchiveStep ==
  ASSUME [Next]_vars, ~remktar, tar' # "torn"
  PROVE  archive' = archive /\ tar' = tar /\ board' = board
  BY DEF Next, Step, vars, Start, Unpack, readkconfig, prep, check_vendor_hashes,
         wrong_hashes, modify_mac, remktar_torn, not_modified, Abort, conf

LEMMA StepWork ==
  ASSUME IInv, NEW m \in Macs, Work(m), [Next]_vars, tar' # "torn"
  PROVE  \E n \in Macs : Work(n)'
<1> SUFFICES ASSUME ~remktar PROVE Work(m)'  BY RemktarWorks
<1>0. archive' = archive /\ board' = board  BY ArchiveStep
<1>1. CASE UNCHANGED vars
  BY <1>1 DEF vars, Work, Same, PrepWork, MacWork, PackWork, FillPart, StripPart,
              IsFilled, IsStripped, Done, ToldMac, Vendored
<1>2. ASSUME NEW k \in {"nuke", "inject"}, NEW mac \in Macs \cup {None}, Start(k, mac)
      PROVE  Work(m)'
  <2>1. xchanged' = "" /\ pc' = IF board.kind = "serprog" THEN "pack" ELSE "unpack"
    BY <1>2 DEF Start, Goto
  <2>2. pc' = "pack" => board'.kind = "serprog"  BY <1>0, <2>1
  <2>3. pc' = "pack" => PackWork(m)'  BY <2>1, <2>2 DEF PackWork, Done
  <2> QED  BY <1>0, <2>1, <2>3 DEF Work
<1>3. ASSUME NEW v \in {"in", "other"}, Unpack(v) PROVE Work(m)'
  <2>1. rom' = archive.rom /\ hashes' = archive.hashes /\ pc = "unpack" /\ pc' = "config"
        /\ xchanged' = xchanged
    BY <1>3 DEF Unpack, Goto
  <2>2. xchanged = ""  BY <2>1 DEF IInv, WInv, Args
  <2> QED  BY <1>0, <2>1, <2>2 DEF Work, Same
<1>4. CASE readkconfig  BY <1>4, ConfigWork
<1>5. ASSUME NEW r \in Roms, prep(r) PROVE Work(m)'  BY <1>5, PrepWorks
<1>6. CASE check_vendor_hashes  BY <1>6, CheckWorks
<1>7. CASE modify_mac  BY <1>7, MacWorks
<1>8. CASE wrong_hashes \/ not_modified \/ Abort
  <2>1. pc' = "idle"  BY <1>8 DEF wrong_hashes, not_modified, Abort, Exit
  <2> QED  BY <1>0, <2>1 DEF Work
<1>9. ASSUME NEW packed \in SUBSET DOMAIN rom, NEW lines \in {hashes, {}},
             remktar_torn(packed, lines)
      PROVE  Work(m)'
  BY <1>9 DEF remktar_torn
<1> QED
  BY <1>1, <1>2, <1>3, <1>4, <1>5, <1>6, <1>7, <1>8, <1>9 DEF Next, Step

LEMMA StepEnds ==
  ASSUME IInv, [Next]_vars
  PROVE  EndsAsAsked'
<1> SUFFICES ASSUME pc' = "idle", status' = "ok", tar' # "torn"
             PROVE  EndsAsAsked'
  BY DEF EndsAsAsked
<1>1. tar # "torn"
  BY DEF Next, Step, vars, Start, Unpack, readkconfig, prep, check_vendor_hashes,
         wrong_hashes, modify_mac, remktar, remktar_torn, not_modified, Abort, conf
<1>2. PICK m \in Macs : Work(m)  BY <1>1 DEF IInv, WInv
<1>3. CASE UNCHANGED vars
  BY <1>3 DEF IInv, WInv, vars, EndsAsAsked, ToldMac
<1>4. CASE readkconfig
  <2>1. /\ board' = board /\ pc = "config"
        /\ board.kind \notin {"vendor", "free"}
    BY <1>4 DEF readkconfig, conf, Goto
  <2> QED  BY <2>1 DEF EndsAsAsked
<1>5. CASE remktar
  <2>1. Packed(m)  BY <1>2, <1>5, RemktarWorks
  <2>2. board' = board /\ mode' = mode /\ new_mac' = new_mac
    BY <1>5 DEF remktar, conf, args
  <2>3. CASE mode = "inject"
    <3>1. PICK n \in Macs : archive' = R!Filled(n) /\ (ToldMac => n = new_mac)
      BY <2>1, <2>3 DEF Packed
    <3>2. \A r \in Roms : archive'.rom[r] = R!Whole(n)  BY <3>1, Archives
    <3>3. \A r \in Roms : archive'.rom[r].vendor = "in" /\ archive'.rom[r].gbe = n
      BY <3>2 DEF R!Whole
    <3> QED  BY <2>2, <2>3, <3>1, <3>3 DEF EndsAsAsked, ToldMac
  <2>4. CASE mode = "nuke"
    <3>1. archive' = R!Stripped(m) /\ new_mac = None
      BY <2>1, <2>4 DEF Packed, IInv, WInv, Args
    <3>2. \A r \in Roms : archive'.rom[r] = R!Bare(m)  BY <3>1, Archives
    <3>3. \A r \in Roms : archive'.rom[r].vendor = "out"  BY <3>2 DEF R!Bare
    <3> QED  BY <2>2, <2>4, <3>1, <3>3 DEF EndsAsAsked, ToldMac
  <2> QED  BY <2>1, <2>3, <2>4 DEF Packed
<1>6. CASE not_modified
  <2>1. /\ pc = "pack" /\ xchanged = "" /\ archive' = archive /\ board' = board
        /\ mode' = mode /\ new_mac' = new_mac
    BY <1>6 DEF not_modified, conf, args
  <2>2. Done(m) /\ mode \in {"nuke", "inject"} /\ (mode = "nuke" => new_mac = None)
    BY <1>2, <2>1 DEF Work, PackWork, IInv, TInv, TypeOK, WInv, Args
  <2>3. CASE mode = "inject"
    <3>1. board.kind \in {"vendor", "free"} =>
            ~ToldMac /\ \A r \in Roms : archive.rom[r] = R!Whole(m)
      <4> SUFFICES ASSUME board.kind \in {"vendor", "free"}
                   PROVE  ~ToldMac /\ \A r \in Roms : archive.rom[r] = R!Whole(m)
        OBVIOUS
      <4>1. archive = R!Filled(m) /\ ~ToldMac  BY <2>2, <2>3 DEF Done
      <4> QED  BY <4>1, Archives
    <3>2. R!Whole(m).vendor = "in"  BY DEF R!Whole
    <3> QED  BY <2>1, <2>3, <3>1, <3>2 DEF EndsAsAsked, ToldMac
  <2>4. CASE mode = "nuke"
    <3>1. board.kind = "vendor" => \A r \in Roms : archive.rom[r] = R!Bare(m)
      <4> SUFFICES ASSUME board.kind = "vendor"
                   PROVE  \A r \in Roms : archive.rom[r] = R!Bare(m)
        OBVIOUS
      <4>1. archive = R!Stripped(m)  BY <2>2, <2>4 DEF Done
      <4> QED  BY <4>1, Archives
    <3>2. R!Bare(m).vendor = "out" /\ new_mac = None  BY <2>2, <2>4 DEF R!Bare
    <3> QED  BY <2>1, <2>4, <3>1, <3>2 DEF EndsAsAsked, ToldMac
  <2> QED  BY <2>2, <2>3, <2>4
<1> QED
  BY <1>3, <1>4, <1>5, <1>6
     DEF Next, Step, Start, Unpack, prep, check_vendor_hashes, wrong_hashes,
         modify_mac, remktar_torn, Abort, Goto, Exit

LEMMA InitIInv == Init => IInv
  BY InitTInv, InitVInv, InitWInv DEF IInv

LEMMA StepIInv ==
  ASSUME IInv, [Next]_vars
  PROVE  IInv'
<1>1. TInv' /\ VInv' /\ Args'
  BY StepTInv, StepVInv, StepArgs DEF IInv, WInv
<1>2. tar' # "torn" => tar # "torn"
  BY DEF Next, Step, vars, Start, Unpack, readkconfig, prep, check_vendor_hashes,
         wrong_hashes, modify_mac, remktar, remktar_torn, not_modified, Abort, conf
<1>3. ASSUME tar' # "torn" PROVE \E m \in Macs : Work(m)'
  <2>1. PICK m \in Macs : Work(m)  BY <1>2, <1>3 DEF IInv, WInv
  <2> QED  BY <1>3, <2>1, StepWork
<1> QED  BY <1>1, <1>3, StepEnds DEF IInv, WInv

\* The inductive invariant: a run is somewhere on the way from the archive it
\* has found to the one it was asked for.
THEOREM IInvCorrect == Spec => []IInv
  BY InitIInv, StepIInv, PTL DEF Spec

\* A run that ends well has done what it was asked to do to every image, for
\* any number of images and MAC addresses.
THEOREM EndsAsAskedCorrect == Spec => []EndsAsAsked
<1>1. IInv => EndsAsAsked  BY DEF IInv, WInv
<1> QED  BY <1>1, IInvCorrect, PTL

-----------------------------------------------------------------------------
(* What happens to the archive is what Release says. *)

LEMMA InitRefines == Init => R!Init
  BY DEF Init, R!Init

LEMMA StepRefines ==
  ASSUME IInv, [Next]_vars
  PROVE  [R!Next]_(R!vars)
<1>1. CASE tar' = "torn"
  BY <1>1 DEF R!Next
<1>2. CASE tar' # "torn" /\ ~remktar
  <2>1. archive' = archive /\ tar' = tar  BY <1>2, ArchiveStep
  <2> QED  BY <2>1 DEF R!vars
<1>3. CASE tar' # "torn" /\ remktar
  <2>1. tar # "torn"  BY <1>3 DEF remktar, conf
  <2>2. PICK m \in Macs : Work(m)  BY <2>1 DEF IInv, WInv
  <2>3. Packed(m)  BY <1>3, <2>2, RemktarWorks
  <2>4. \E n \in Macs : R!Strip(m) \/ R!Fill(m, n) \/ R!SetMac(m, n)
    BY <2>3 DEF Packed, R!Strip, R!Fill, R!SetMac
  <2> QED  BY <2>4 DEF R!Next
<1> QED  BY <1>1, <1>2, <1>3

\* ./mk inject implements Release: stripping and inserting are one step each
\* for who looks at the archive, and the one undoes the other.
THEOREM Refinement == Spec => ImplementsRelease
<1>1. Init => R!Init  BY InitRefines
<1>2. IInv /\ [Next]_vars => [R!Next]_(R!vars)  BY StepRefines
<1> QED  BY <1>1, <1>2, IInvCorrect, PTL DEF Spec, ImplementsRelease, R!Spec
=============================================================================
