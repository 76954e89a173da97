------------------------------ MODULE RomImages -----------------------------
(***************************************************************************)
(* The images that users flash: include/rom.sh puts the payloads into what *)
(* coreboot's make left in elf/ and copies the results to bin/, and        *)
(* include/release.sh does this in a clone, for every board, and publishes *)
(* the archives in release/.                                               *)
(*                                                                         *)
(* build_targets (tree.sh) does one board after the other in one shell, so *)
(* variables of a board live on into the next one unless they are set      *)
(* again.  An image is the set of files in its CBFS: cbfstool refuses a    *)
(* second file of the same name.  BuildTree says how the files of elf/     *)
(* come about, Inject how an archive loses its vendor files.               *)
(*                                                                         *)
(* Its proofs are in a module with those of XbmkInit, from whose names the *)
(* ones of this module differ: RomInit, RomNext, stage, Proceed.           *)
(***************************************************************************)
EXTENDS Integers, Sequences, FiniteSets, SequencesExt

CONSTANTS
  Targets,   \* the boards that are built
  Boards,    \* what the configuration of a board may be
  Keymaps,   \* config/data/grub/keymap/*.gkb, as fx_ sorts them
  MaxUpsets  \* bound: changes of the configuration, failures and kills

X86 == {"amd64", "i386"}

\* The name of a config is its initmode and, where it has one, its displaymode;
\* "none": it has CONFIG_PAYLOAD_NONE=y.
Configs == [init : {"libgfxinit", "fspgop", "vgarom", "normal"},
            display : {"corebootfb", "txtmode", ""}, none : BOOLEAN]

\* A board that asks for GRUB first has no config after a "normal" one, which
\* would leave payload_grubsea=n behind for it (rom.sh:230).
ASSUME RomAssumption ==
  /\ IsFiniteSet(Targets) /\ Targets # {}
  /\ Keymaps \in Seq(STRING) /\ Keymaps # <<>>
  /\ \A b \in Boards :
       /\ b.configs \in Seq(Configs) /\ b.configs # <<>>
       /\ {b.seabios, b.grub, b.grubsea, b.releasable, b.vendor} \subseteq BOOLEAN
       /\ b.uboot \in X86 \cup {"", "arm64", "other"}
       /\ b.grubsea => \A c \in Range(Front(b.configs)) : c.init # "normal"

VARIABLES
  board,       \* config/coreboot/, per target
  upsets,
  bin,         \* the images in bin/ of the work directory and of the clone
  clone,       \* what else a release's clone has that should not go out
  source, roms,\* the archives of a release that is being made
  tar,         \* "torn": it has written a part of an archive only
  published,   \* release/$version, a sequence of at most one
  stage,
  task,        \* "build", "release" or "src" (release -m src)
  asked, todo, \* the targets of this run, and those to come
  target,
  configs,     \* those of the target to come
  payload,     \* payload_seabios, payload_grub, payload_grubsea, payload_uboot
  conf,        \* the present config
  tmprom,
  pname,
  keymaps,     \* those to come
  status       \* of the last run: "ok", "err" or "none"

world == <<board, upsets>>
dirs  == <<bin, clone, tar>>
files == <<dirs, source, roms, published>>
run   == <<task, asked>>
loops == <<todo, target, configs>>
shell == <<payload, conf, tmprom, pname, keymaps>>
romVars  == <<world, files, run, loops, shell, stage, status>>

\* Directories and the CBFS of images: one without files, one with a single
\* file, and old files with new ones.
Empty          == [n \in {} |-> {}]
File(n, what)  == [name \in {n} |-> what]
new ++ old     == [n \in DOMAIN new \cup DOMAIN old |->
                     IF n \in DOMAIN new THEN new[n] ELSE old[n]]

Torn  == [files |-> Empty, vendor |-> "torn"]

NoPayload == [seabios |-> FALSE, grub |-> FALSE, grubsea |-> FALSE, uboot |-> ""]
NoConf    == [init |-> "", display |-> "", none |-> FALSE]

RomInit ==
  /\ board \in [Targets -> Boards] /\ upsets = 0
  /\ bin = [where \in {"work", "clone"} |-> [t \in Targets |-> Empty]]
  /\ clone = {} /\ source = {} /\ roms = Empty
  /\ tar = "whole" /\ published = <<>>
  /\ task = "build" /\ asked = {}
  /\ todo = <<>> /\ target = (CHOOSE t \in Targets : TRUE) /\ configs = <<>>
  /\ payload = NoPayload /\ conf = NoConf /\ tmprom = Empty /\ pname = "" /\ keymaps = <<>>
  /\ stage = "idle" /\ status = "none"

\* Every run is a shell of its own.
Begin(l) ==
  /\ stage' = l /\ status' = "none"
  /\ payload' = NoPayload /\ conf' = NoConf /\ tmprom' = Empty /\ pname' = "" /\ keymaps' = <<>>

Proceed(l) == stage' = l /\ UNCHANGED status
Exit(s) == stage' = "idle" /\ status' = s

Upset == upsets < MaxUpsets /\ upsets' = upsets + 1

where == IF task = "build" THEN "work" ELSE "clone"
skipped(t) == task = "release" /\ ~board[t].releasable

-----------------------------------------------------------------------------
(* Mutants: what a plausible slip would make of a definition below. *)

\* payload_grubsea is not among the variables that mkhelper.cfg resets.
grubsea_kept(b) == [seabios |-> b.seabios, grub |-> b.grub,
                    grubsea |-> b.grubsea \/ payload.grubsea, uboot |-> b.uboot]

\* GRUB is img/grub2 in every image.
grub_in_menu == "img/grub2"

\* The archive is published as it was packed.
not_nuked(images) == images

-----------------------------------------------------------------------------
(* Steps. *)

\* Somebody changes the configuration of a board, between two runs.
Edit(t, b) ==
  /\ stage = "idle" /\ Upset
  /\ board' = [board EXCEPT ![t] = b]
  /\ status' = "none"
  /\ UNCHANGED <<files, run, loops, shell, stage>>

\* ./mk -b coreboot
Build(ts) ==
  /\ stage = "idle"
  /\ task' = "build" /\ asked' = Range(ts) /\ todo' = ts
  /\ Begin("targets")
  /\ UNCHANGED <<world, files, target, configs>>

\* ./mk release, in a clone of the repository.
Release(relmode) ==
  /\ stage = "idle"
  /\ task' = relmode /\ asked' = Targets /\ todo' = SetToSeq(Targets)
  /\ bin' = [bin EXCEPT !["clone"] = [t \in Targets |-> Empty]]
  /\ clone' = {".git"} /\ source' = {} /\ roms' = Empty
  /\ IF published # <<>> THEN Exit("err") /\ UNCHANGED shell ELSE Begin("fetch")
  /\ UNCHANGED <<world, tar, published, target, configs>>

\* ./mk -f brings in the sources of all projects, and makes util/sbase.
fetch ==
  /\ stage = "fetch"
  /\ clone' = clone \cup {"cache", "xbmkwd", "lock", "sbase/*.o", "in nuke.list"}
  /\ Proceed("prune")
  /\ UNCHANGED <<world, bin, tar, source, roms, published, run, loops, shell>>

prune ==
  /\ stage = "prune"
  /\ clone' = clone \ {".git", "in nuke.list"}
  /\ Proceed("tarball")
  /\ UNCHANGED <<world, bin, tar, source, roms, published, run, loops, shell>>

\* util/sbase2 is a copy from before it was made.
tidied == clone \ {"lock", "cache", "xbmkwd", "sbase/*.o"}

prep_release_tarball ==
  /\ stage = "tarball"
  /\ clone' = tidied /\ source' = clone'
  /\ Proceed(IF task = "src" THEN "publish" ELSE "dry")
  /\ UNCHANGED <<world, bin, tar, roms, published, run, loops, shell>>

\* ./mk -d coreboot only looks for errors.  From now on, nothing is fetched any
\* more, since there is a CHANGELOG.
BadUboot == \E t \in Targets : ~skipped(t) /\ board[t].uboot = "other"

dry ==
  /\ stage = "dry"
  /\ clone' = clone \cup {"cache", "xbmkwd", "lock", "sbase/*.o", "elf"}
  /\ IF BadUboot THEN Exit("err") ELSE Proceed("targets")
  /\ UNCHANGED <<world, bin, tar, source, roms, published, run, loops, shell>>

\* configure_project: the same in every board, or from its target.cfg.
payload_of(b) == [seabios |-> b.seabios, grub |-> b.grub,
                  grubsea |-> b.grubsea, uboot |-> b.uboot]

handle_defconfig ==
  /\ stage = "targets" /\ todo # <<>>
  /\ target' = Head(todo) /\ todo' = Tail(todo)
  /\ payload' = payload_of(board[target'])
  /\ IF skipped(target')
       THEN Proceed("targets") /\ UNCHANGED configs
       ELSE Proceed("configs") /\ configs' = board[target'].configs
  /\ UNCHANGED <<world, files, run, conf, tmprom, pname, keymaps>>

conf_of(c) == c

\* GRUB and U-Boot on x86 need SeaBIOS to start them.
settle(c) ==
  [payload EXCEPT !.seabios = @ \/ payload.grub \/ payload.uboot \notin {"", "arm64"},
                  !.grubsea = @ /\ payload.grub /\ c.init # "normal"]

mkcorebootbin_real ==
  /\ stage = "configs" /\ configs # <<>>
  /\ configs' = Tail(configs)
  /\ conf' = conf_of(Head(configs))
  /\ tmprom' = File("coreboot", <<board[target], Head(configs)>>)
  /\ payload' = settle(conf')
  /\ IF payload.uboot = "other" \/ (payload'.seabios /\ payload.uboot = "arm64")
       THEN Exit("err")
       ELSE Proceed("payload")
  /\ UNCHANGED <<world, files, run, todo, target, pname, keymaps>>

\* cbfs: cbfstool adds what is not there yet.
Fits(new) == DOMAIN new \cap DOMAIN tmprom = {}

graphical == conf.init # "normal" /\ conf.display # "txtmode"

add_uboot ==
  IF graphical
    THEN CASE payload.uboot = "amd64" -> File("img/u-boot", "uboot")
           [] payload.uboot = "i386" -> File("u-boot", "uboot")
           [] OTHER -> File("fallback/payload", "uboot")
    ELSE Empty

grubname == IF payload.grubsea THEN "fallback/payload" ELSE "img/grub2"

add_grub ==
  File(grubname, "grub") ++ File("scan.cfg", "scan")
    ++ IF graphical THEN File("background.png", "background") ELSE Empty

seabios_files ==
  File(IF payload.grubsea THEN "seabios.elf" ELSE "fallback/payload", "seabios")
    ++ (IF conf.init \in {"libgfxinit", "fspgop"}
          THEN File("vgaroms/seavgabios.bin", "seavgabios") ELSE Empty)
    ++ (IF payload.uboot \in X86 THEN add_uboot ELSE Empty)
    ++ (IF payload.grub THEN add_grub ELSE Empty)

add_seabios ==
  /\ stage = "payload" /\ conf.none /\ payload.seabios
  /\ pname' = "seabios"
  /\ IF Fits(seabios_files)
       THEN tmprom' = seabios_files ++ tmprom /\ Proceed("seabios")
       ELSE Exit("err") /\ UNCHANGED tmprom
  /\ UNCHANGED <<world, files, run, loops, payload, conf, keymaps>>

\* cprom: cp, or mv from another file system, which do not end at once.
cprom(p, keymap, new, next) ==
  LET name == [p |-> p, init |-> conf.init, display |-> conf.display, keymap |-> keymap]
      image == [files |-> new ++ tmprom,
                vendor |-> IF board[target].vendor THEN "in" ELSE "none"]
      copy(i) == bin' = [bin EXCEPT ![where][target] = File(name, i) ++ @]
  IN  IF Fits(new)
        THEN \/ copy(image) /\ Proceed(next) /\ UNCHANGED upsets
             \/ copy(Torn) /\ Exit("err") /\ Upset
        ELSE Exit("err") /\ UNCHANGED <<bin, upsets>>

unnamed == <<board, clone, tar, source, roms, published, run, loops, payload, conf, tmprom>>

add_nothing(next) == Proceed(next) /\ UNCHANGED <<bin, upsets, pname>>

cprom_seabios ==
  /\ stage = "seabios"
  /\ IF ~payload.grubsea
       THEN cprom("seabios", "", Empty, "seauboot") /\ UNCHANGED pname
       ELSE add_nothing("seauboot")
  /\ UNCHANGED <<unnamed, keymaps>>

cprom_seauboot ==
  /\ stage = "seauboot"
  /\ IF payload.uboot = "amd64" /\ graphical /\ ~payload.grubsea
       THEN /\ cprom("seauboot", "", File("bootorder", "img/u-boot"), "seagrub")
            /\ pname' = "seauboot"
       ELSE add_nothing("seagrub")
  /\ UNCHANGED <<unnamed, keymaps>>

mkseagrub ==
  /\ stage = "seagrub"
  /\ IF payload.grub
       THEN /\ keymaps' = Keymaps
            /\ pname' = IF payload.grubsea THEN "grub" ELSE "seagrub"
            /\ LET new == IF payload.grubsea THEN Empty ELSE File("bootorder", "img/grub2")
               IN  IF Fits(new) THEN tmprom' = new ++ tmprom /\ Proceed("keymaps")
                                ELSE Exit("err") /\ UNCHANGED tmprom
       ELSE Proceed("configs") /\ UNCHANGED <<keymaps, pname, tmprom>>
  /\ UNCHANGED <<world, files, run, loops, payload, conf>>

cprom_keymap ==
  /\ stage = "keymaps"
  /\ keymaps' = Tail(keymaps)
  /\ cprom(pname, Head(keymaps), File("keymap.gkb", Head(keymaps)),
           IF keymaps' = <<>> THEN "configs" ELSE stage)
  /\ UNCHANGED <<unnamed, pname>>

\* U-Boot on its own (arm64), or nothing at all.
cprom_uboot ==
  /\ stage = "payload" /\ conf.none /\ ~payload.seabios
  /\ IF payload.uboot = "arm64" /\ graphical
       THEN cprom("uboot", "", add_uboot, "configs") /\ pname' = "uboot"
       ELSE add_nothing("configs")
  /\ UNCHANGED <<unnamed, keymaps>>

\* coreboot's make has put a payload in.
cprom_custom ==
  /\ stage = "payload" /\ ~conf.none
  /\ cprom("custom", "", Empty, "configs") /\ pname' = "custom"
  /\ UNCHANGED <<unnamed, keymaps>>

-----------------------------------------------------------------------------
(* The end of a board, and of the run. *)

work_end ==
  /\ stage = "configs" /\ configs = <<>> /\ task = "build"
  /\ Proceed("targets")
  /\ UNCHANGED <<world, files, run, loops, shell>>

\* mkrom_tarball: tar leaves out what it cannot read, and its failure is not
\* noticed (see Inject); then the directory is removed.
mkrom_tarball(packed) ==
  LET dir == bin["clone"][target]
  IN  /\ stage = "configs" /\ configs = <<>> /\ task = "release"
      /\ packed \subseteq DOMAIN dir
      /\ IF packed = DOMAIN dir THEN UNCHANGED <<tar, upsets>>
                                ELSE tar' = "torn" /\ Upset
      /\ roms' = File(target, [n \in packed |-> dir[n]]) ++ roms
      /\ bin' = [bin EXCEPT !["clone"][target] = Empty]
      /\ Proceed("nuke")
      /\ UNCHANGED <<board, clone, source, published, run, loops, shell>>

\* ./mk inject ... nuke: Release's Strip, or no change where there is nothing
\* to remove.
nuked(images) ==
  [n \in DOMAIN images |->
     [images[n] EXCEPT !.vendor = IF @ = "in" THEN "out" ELSE @]]

nuke ==
  /\ stage = "nuke"
  /\ roms' = [roms EXCEPT ![target] = nuked(@)]
  /\ Proceed("targets")
  /\ UNCHANGED <<world, dirs, source, published, run, loops, shell>>

done ==
  /\ stage = "targets" /\ todo = <<>>
  /\ IF task = "build" THEN Exit("ok") ELSE Proceed("publish")
  /\ UNCHANGED <<world, files, run, loops, shell>>

\* mv "$vdir" "$reldir": from another file system this is a copy.
publish(moved) ==
  LET whole == moved = DOMAIN roms
  IN  /\ stage = "publish"
      /\ published' = <<[board |-> board, mode |-> task, whole |-> whole,
                         source |-> source, roms |-> [t \in moved |-> roms[t]]]>>
      /\ IF whole THEN Exit("ok") /\ UNCHANGED upsets ELSE Exit("err") /\ Upset
      /\ UNCHANGED <<board, dirs, source, roms, run, loops, shell>>

\* A command fails (x_, err), or the program is killed.
Abort ==
  /\ stage # "idle" /\ Upset
  /\ Exit("err")
  /\ UNCHANGED <<board, files, run, loops, shell>>

Step ==
  \/ fetch \/ prune \/ prep_release_tarball \/ dry
  \/ handle_defconfig \/ mkcorebootbin_real
  \/ add_seabios \/ cprom_seabios \/ cprom_seauboot
  \/ mkseagrub \/ cprom_keymap
  \/ cprom_uboot \/ cprom_custom
  \/ work_end \/ \E packed \in SUBSET DOMAIN bin["clone"][target] : mkrom_tarball(packed)
  \/ nuke
  \/ done \/ \E moved \in SUBSET DOMAIN roms : publish(moved)

RomNext ==
  \/ \E t \in Targets, b \in Boards : Edit(t, b)
  \/ \E S \in SUBSET Targets \ {{}} : \E ts \in SetToSeqs(S) : Build(ts)
  \/ \E relmode \in {"release", "src"} : Release(relmode)
  \/ Step
  \/ Abort

RomSpec == RomInit /\ [][RomNext]_romVars

-----------------------------------------------------------------------------
(* What a board is to have, told from its configuration alone. *)

Boots == [seabios |-> "seabios", seagrub |-> "grub", grub |-> "grub",
          seauboot |-> "uboot", uboot |-> "uboot"]

\* The names of the images of board b for its config c, and their keymaps.
Kinds(b, c) ==
  LET graphics  == c.init # "normal" /\ c.display # "txtmode"
      grubfirst == b.grub /\ b.grubsea /\ c.init # "normal"
      seabios   == b.seabios \/ b.grub \/ b.uboot \in X86
  IN  IF ~c.none THEN {<<"custom", "">>}
      ELSE {<<"seabios", "">> : x \in {seabios /\ ~grubfirst} \ {FALSE}}
      \cup {<<"seauboot", "">> :
              x \in {b.uboot = "amd64" /\ graphics /\ ~grubfirst} \ {FALSE}}
      \cup {<<"uboot", "">> : x \in {b.uboot = "arm64" /\ graphics} \ {FALSE}}
      \cup {<<IF grubfirst THEN "grub" ELSE "seagrub", k>> :
              k \in IF b.grub THEN Range(Keymaps) ELSE {}}

Names(b) ==
  UNION {{[p |-> x[1], init |-> c.init, display |-> c.display, keymap |-> x[2]] :
            x \in Kinds(b, c)} : c \in Range(b.configs)}

\* What is in an image under a name, and what its first payload starts.
At(image, name) == IF name \in DOMAIN image.files THEN image.files[name] ELSE ""

Starts(image) ==
  LET first == At(image, "fallback/payload")
      order == At(image, "bootorder")
  IN  IF first = "seabios" /\ order # "" THEN At(image, order) ELSE first

\* An image made from the present files of elf/ for board b.
Current(image, b, n) ==
  /\ image # Torn
  /\ \E c \in Range(b.configs) :
       /\ c.init = n.init /\ c.display = n.display
       /\ At(image, "coreboot") = <<b, c>>

\* A build that ends well leaves every image of every board it was asked for,
\* whole and made for the present configuration, whatever other boards and
\* configs came before in the same shell and whatever was killed before
\* (mkhelper.cfg: variables are set again for each target).
ImagesAsConfigured ==
  status = "ok" /\ task = "build" =>
    \A t \in asked : \A n \in Names(board[t]) :
      /\ n \in DOMAIN bin["work"][t]
      /\ Current(bin["work"][t][n], board[t], n)

\* An image that is whole starts what its name says, at all times, with the
\* keymap that its name says; a menu of SeaBIOS on a display that coreboot set
\* up has its video BIOS (add_seabios: "SeaBIOS auto-loads").
BootsAsNamed ==
  \A dir \in {"work", "clone"}, t \in Targets :
    \A n \in DOMAIN bin[dir][t] :
      LET image == bin[dir][t][n]
      IN  image # Torn /\ n.p # "custom" =>
            /\ Starts(image) = Boots[n.p]
            /\ At(image, "keymap.gkb") = n.keymap
            /\ At(image, "vgaroms/seavgabios.bin") # ""
                 <=> n.p # "uboot" /\ n.init \in {"libgfxinit", "fspgop"}

\* Nothing that was published has vendor files in it, or is part of an image,
\* or of the build, also when the release was killed in the middle of it; and a
\* release that is whole has all images of the boards that are to be released,
\* and no others (release=n), unless tar could not read its files (release,
\* prep_release_tarball, mkcoreboottar).
ReleasedClean ==
  \A i \in DOMAIN published :
    LET r == published[i]
    IN  /\ r.source = {}
        /\ \A t \in DOMAIN r.roms : \A n \in DOMAIN r.roms[t] :
             r.roms[t][n].vendor \in {"out", "none"}
        /\ r.whole /\ r.mode = "release" =>
             DOMAIN r.roms = {t \in Targets : r.board[t].releasable}
        /\ r.whole /\ tar # "torn" =>
             \A t \in DOMAIN r.roms :
               /\ DOMAIN r.roms[t] = Names(r.board[t])
               /\ \A n \in DOMAIN r.roms[t] : Current(r.roms[t][n], r.board[t], n)

=============================================================================
