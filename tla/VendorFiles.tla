---------------------------- MODULE VendorFiles ----------------------------
(***************************************************************************)
(* Which vendor files a board's configuration asks for (getfiles), the     *)
(* tools made ready for them (bootstrap), and how each is got out of the   *)
(* archive it comes in (extract_*, include/vendor.sh and include/mrc.sh).  *)
(* XbGet has the downloads, the cache and the checks, and MeSearch the     *)
(* search for Intel ME, of which only the result matters here.             *)
(*                                                                         *)
(* A vendor file, and the checksum it must have, is its kind.  What is     *)
(* extracted is a set of kinds, or "junk", or Abort.                       *)
(***************************************************************************)
EXTENDS Integers, Sequences, FiniteSets, SequencesExt, LibValues

\* The files that a configuration can ask for (CONFIG_*), in the order in which
\* they are fetched: the extractor, and the checksum.
VendorRequests ==
    << [file |-> "me",      type |-> "intel_me",  binsum |-> "me"],
       [file |-> "sch5545", type |-> "sch5545ec", binsum |-> "sch5545"],
       [file |-> "fw1",     type |-> "kbc1126ec", binsum |-> "fw1"],
       [file |-> "fw2",     type |-> "kbc1126ec", binsum |-> "fw2"],
       [file |-> "vga",     type |-> "e6400vga",  binsum |-> "vga"],
       [file |-> "mrc",     type |-> "mrc",       binsum |-> "mrc"],
       [file |-> "refcode", type |-> "refcode",   binsum |-> "refcode"],
       [file |-> "tb",      type |-> "tbfw",      binsum |-> "tb"],
       [file |-> "fspm",    type |-> "fsp",       binsum |-> "fspm"],
       [file |-> "fsps",    type |-> "fsp",       binsum |-> "fsps"] >>

Files == {VendorRequests[i].file : i \in DOMAIN VendorRequests}

\* Nothing that is extracted, or not, is an end of the program.
ASSUME AbortAssumption ==
    Abort \notin Files \cup {"nothing"} /\ \A found \in SUBSET (Files \cup {"junk"}) : found # Abort

\* A board: the files that it wants, but not those whose place is /dev/null; the
\* files that its package has no checksum of (nosum); what its configuration names (a ROM for
\* e6400vga, the size of the Thunderbolt firmware, the partition and the
\* network interface of the ChromeOS image); which trees there are; and what is
\* found in its archives.
Boards ==
    [wants : SUBSET Files, null : SUBSET Files, nosum : SUBSET Files, me : BOOLEAN, tree_has_ec_dump : BOOLEAN, refcode_cbtree : BOOLEAN,
     bins : Nat, cab : {"none", "ROM.CAB", "Rom.CAB", "68.CAB"}, vga_set : BOOLEAN,
     vga : {"vga", "junk", "absent"}, bios_at_its_path : BOOLEAN, tbfw_size : BOOLEAN,
     tbts : Seq({"link", "exact", "longer", "shorter"}),
     root : [start : Nat, size : Nat, shellball : Nat], mrc_set : BOOLEAN,
     refcode_gbe : BOOLEAN, fsp_splits : BOOLEAN]

\* The tools that are built before; some only where the tree has their source, or
\* the board says that it needs them.
bootstrap(x) ==
    {"me_cleaner", "bios_extract", "biosutilities", "uefitool", "libarchive"}
        \cup (IF x.tree_has_ec_dump THEN {"kbc1126_ec_dump"} ELSE {})
        \cup (IF x.refcode_cbtree THEN {"cbfstoolref"} ELSE {})

\* The EC's image is a file of the archive, if there is exactly one, or in the
\* first cabinet that unar finds.
extract_kbc1126ec(x) ==
    IF (x.bins = 1 \/ x.cab # "none") /\ "kbc1126_ec_dump" \in bootstrap(x)
      THEN {"fw1", "fw2"} ELSE Abort

\* Failures of gunzip and of the unpacker are let pass, and only a ROM that is
\* not there is noticed.
extract_e6400vga(x) ==
    IF ~x.vga_set \/ x.vga = "absent" THEN Abort ELSE {x.vga}

extract_sch5545ec(x) == IF x.bios_at_its_path THEN {"sch5545"} ELSE Abort

\* copytb: the first TBT.bin that is not a link, cut or filled up to its size;
\* what is too short in the archive is not what was wanted.
extract_tbfw(x) ==
    LET first == SelectInSeq(x.tbts, LAMBDA t : t # "link")
    IN  IF ~x.tbfw_size THEN Abort
        ELSE IF first = 0 THEN {}
        ELSE IF x.tbts[first] \in {"exact", "longer"} THEN {"tb"} ELSE {"junk"}

\* dd copies whole blocks, from the block that the partition begins in; the file
\* in the partition is found if what is copied begins with the partition.
Kib == 4
extract_partition(p) ==
    [from |-> Kib * (p.start \div Kib), to |-> Kib * (p.start \div Kib) + Kib * (p.size \div Kib)]

extract_mrc(x) ==
    LET copied == extract_partition(x.root)
    IN  IF /\ x.mrc_set
           /\ copied.from = x.root.start
           /\ x.root.start + x.root.shellball <= copied.to
          THEN {"mrc"} ELSE Abort

\* The other tree's cbfstool takes it from the same image, and a byte of it turns
\* the network interface on, where one is named.
extract_refcode(x) ==
    LET mrc == extract_mrc(x)
    IN  IF mrc = Abort \/ "cbfstoolref" \notin bootstrap(x) THEN Abort
        ELSE mrc \cup {IF x.refcode_gbe THEN "refcode" ELSE "junk"}

extract_fsp(x) == IF x.fsp_splits THEN {"fspm", "fsps"} ELSE Abort

extract(type, x) ==
    CASE type = "intel_me"  -> IF x.me THEN {"me"} ELSE Abort
      [] type = "sch5545ec" -> extract_sch5545ec(x)
      [] type = "kbc1126ec" -> extract_kbc1126ec(x)
      [] type = "e6400vga"  -> extract_e6400vga(x)
      [] type = "mrc"       -> extract_mrc(x)
      [] type = "refcode"   -> extract_refcode(x)
      [] type = "tbfw"      -> extract_tbfw(x)
      [] type = "fsp"       -> extract_fsp(x)

\* Of what was extracted, what has the checksum goes to its place, which must not
\* hold a file yet (XbGet has the one that does).
fetch(r, x) ==
    LET found == extract(r.type, x)
    IN  IF r.file \in x.nosum THEN Abort
        ELSE IF r.file \in x.null THEN "nothing"
        ELSE IF found # Abort /\ r.binsum \in found THEN r.binsum ELSE Abort

\* The files that are in their places at the end, or at the first that fails.
getfiles(x) ==
    LET wanted == {i \in DOMAIN VendorRequests : VendorRequests[i].file \in x.wants}
        fails  == {i \in wanted : fetch(VendorRequests[i], x) = Abort}
        done   == {i \in wanted : \A j \in fails : i < j}
        made   == {i \in done : VendorRequests[i].file \notin x.null}
    IN  [ok |-> fails = {},
         placed |-> {<<VendorRequests[i].file, fetch(VendorRequests[i], x)>> : i \in made}]

----------------------------------------------------------------------------
\* What a vendor's archive, and a board's configuration, must be like.
InOrder(f, x) ==
    CASE f = "me"      -> x.me
      [] f = "sch5545" -> x.bios_at_its_path
      [] f \in {"fw1", "fw2"} -> x.tree_has_ec_dump /\ (x.bins = 1 \/ x.cab # "none")
      [] f = "vga"     -> x.vga_set /\ x.vga = "vga"
      [] f = "mrc"     -> x.mrc_set /\ x.root.start % Kib = 0 /\ x.root.shellball <= x.root.size - Kib
      [] f = "refcode" -> /\ x.mrc_set /\ x.root.start % Kib = 0 /\ x.refcode_cbtree
                          /\ x.root.shellball <= x.root.size - Kib /\ x.refcode_gbe
      [] f = "tb"      -> /\ x.tbfw_size /\ \E i \in DOMAIN x.tbts : x.tbts[i] # "link"
                          /\ \A i \in DOMAIN x.tbts : x.tbts[i] # "shorter"
      [] OTHER         -> x.fsp_splits

\* A board gets all the vendor files that it asks for, each in its own place, from
\* archives that are in order and have checksums; and success means that it got them.
FilesInPlace(x, value) ==
    /\ \A p \in value.placed : p[1] = p[2]
    /\ value.ok => {p[1] : p \in value.placed} = x.wants \ x.null
    /\ x.wants \cap x.nosum = {} /\ (\A f \in x.wants \ x.null : InOrder(f, x)) => value.ok
=============================================================================
