------------------------------ MODULE BuildTree ----------------------------
(***************************************************************************)
(* Building the targets of one source tree, and knowing when to build them *)
(* again (include/tree.sh: build_project, build_targets, handle_defconfig, *)
(* configure_project, delete_old_project_files, project_up_to_date,        *)
(* check_cross_compiler, elfcheck, handle_makefile, copy_elf).             *)
(*                                                                         *)
(* A project is multi-tree (coreboot: a target is built from a tree that   *)
(* it shares with others, with a cross compiler built inside that tree) or *)
(* single-tree (flashprog: it is its own only target).  Hashes of the      *)
(* configuration are kept in cache/hash and cache/tghash; a difference     *)
(* removes what was made from the old configuration, in src/ and elf/, and *)
(* what is missing there is made again.                                    *)
(*                                                                         *)
(* Contents are abstracted to the version of the configuration they were   *)
(* made from.  A run is the parent ./mk -b with the children ./mk -f that  *)
(* it starts; the children repeat its hash check with the same result, as  *)
(* the configuration does not change during a run, and are modelled by     *)
(* what they fetch.  The program can be killed between any two commands    *)
(* and, within the limits set by rare, during one.                         *)
(***************************************************************************)
EXTENDS Naturals

CONSTANTS
  Targets,     \* the targets that share the tree
  MaxVer,      \* bounds the changes of the configuration
  Misfortunes  \* what may also happen, one set of:
               \*   "revert"    the configuration goes back to an older version
               \*   "torncopy"  copying the results ends half-way
               \*   "tornhash"  a kill leaves the file of a hash empty
               \*   "xclean"    the user runs ./mk -x (crossgcc-clean)

ASSUME BuildTreeAssumption ==
  /\ MaxVer \in Nat \ {0}
  /\ Misfortunes \subseteq SUBSET {"revert", "torncopy", "tornhash", "xclean"}

Version == 1..MaxVer
None    == 0            \* there is no such file or directory
Torn    == MaxVer + 1   \* a directory half removed, a file written half
Made    == 0..(MaxVer + 1)

VARIABLES
  single,    \* is the project single-tree, its own only target?  (fixed)
  rare,      \* which of Misfortunes may happen  (fixed)
  rev,       \* the version of the tree that is configured (rev, patches)
  treeconf,  \* the version of the files that the hash of the tree covers
  targconf,  \* of each target: the version of its configuration
  hash,      \* cache/hash: the version of treeconf it was computed from
  tghash,    \* cache/tghash, of each target
  src,       \* the version src/ was made from
  xgcc,      \* is the cross compiler there, inside src/?
  marker,    \* elf/.../xgcc_*_was_compiled
  elf,       \* of each target: how much of its results is there, and what
             \* they were made from
  pc,        \* the next command
  mode,      \* "build" (-b) or "xclean" (-x)
  target,    \* the requested target
  outcome    \* how the last run ended

conf == <<single, rare, rev, treeconf, targconf>>
made == <<hash, tghash, src, xgcc, marker, elf>>
run  == <<pc, mode, target, outcome>>
vars == <<single, rare, rev, treeconf, targconf, hash, tghash, src, xgcc, marker,
          elf, pc, mode, target, outcome>>

Result    == [files : {"none", "some", "all"}, src : Made, conf : Made]
NoResult  == [files |-> "none", src |-> None, conf |-> None]
\* The results that a build of t should give.
Wanted(t) == [files |-> "all", src |-> rev, conf |-> targconf[t]]

TypeOK ==
  /\ single \in BOOLEAN /\ rare \in Misfortunes
  /\ rev \in Version /\ treeconf \in Version
  /\ targconf \in [Targets -> Version]
  /\ hash \in Made
  /\ tghash \in [Targets -> Made]
  /\ src \in Made
  /\ xgcc \in BOOLEAN /\ marker \in BOOLEAN
  /\ elf \in [Targets -> Result]
  /\ pc \in {"idle", "deps", "hash", "rmsrc", "rmelf", "record", "tghash", "rmtarget",
             "tgrecord", "fetch", "elfcheck", "xgcc", "touch", "make", "copy", "copying",
             "xclean"}
  /\ mode \in {"build", "xclean"}
  /\ target \in Targets
  /\ outcome \in {"none", "ok", "err", "badhash", "killed"}

Init ==
  /\ single \in BOOLEAN /\ rare \in Misfortunes
  /\ rev = 1 /\ treeconf = 1 /\ targconf = [t \in Targets |-> 1]
  /\ hash = None /\ tghash = [t \in Targets |-> None]
  /\ src = None /\ xgcc = FALSE /\ marker = FALSE
  /\ elf = [t \in Targets |-> NoResult]
  /\ pc = "idle" /\ mode = "build" /\ outcome = "none"
  /\ target \in Targets

Goto(step) == pc' = step /\ UNCHANGED <<mode, target, outcome>>
End(o)     == pc' = "idle" /\ outcome' = o /\ UNCHANGED <<mode, target>>

-----------------------------------------------------------------------------
(* Requests, and changes of the configuration between runs. *)

Start(t, m) ==
  /\ pc = "idle"
  /\ m = "xclean" => "xclean" \in rare /\ ~single
  /\ single => t = target
  /\ pc' = (IF m = "build" THEN "deps" ELSE "hash")
  /\ mode' = m /\ target' = t /\ outcome' = "none"
  /\ UNCHANGED <<conf, made>>

\* The next version of a part of the configuration, or an older one again.
Newer(v, w) == v = w + 1 \/ ("revert" \in rare /\ v < w)

\* A tree: in a multi-tree project the revision is in a file of the tree's own
\* configuration (target.cfg), like its patches.
ConfigureTree(v) ==
  /\ pc = "idle" /\ v \in Version /\ Newer(v, rev)
  /\ treeconf' = v /\ rev' = v
  /\ outcome' = "none"
  /\ UNCHANGED <<single, rare, targconf, made, pc, mode, target>>

\* The revision of a single-tree project is in config/git/$project/pkg.cfg.
ConfigurePkg(v) ==
  /\ pc = "idle" /\ single /\ v \in Version /\ Newer(v, rev)
  /\ rev' = v
  /\ outcome' = "none"
  /\ UNCHANGED <<single, rare, treeconf, targconf, made, pc, mode, target>>

\* A target; by hand or with ./mk -m (menuconfig) and the like.
ConfigureTarget(t, v) ==
  /\ pc = "idle" /\ ~single /\ v \in Version /\ Newer(v, targconf[t])
  /\ targconf' = [targconf EXCEPT ![t] = v]
  /\ outcome' = "none"
  /\ UNCHANGED <<single, rare, rev, treeconf, made, pc, mode, target>>

-----------------------------------------------------------------------------
(* Mutants: what a plausible slip would make of a definition below. *)

\* The new hash is recorded only for a target that is its own tree.
TargetHashEarlyReturn ==
  /\ pc = "tghash"
  /\ Goto("fetch")
  /\ UNCHANGED <<conf, made>>

\* rm -Rf "src/$project/$tree" leaves elf/ alone.
RemoveElfSkipped ==
  /\ pc = "rmelf"
  /\ Goto("record")
  /\ UNCHANGED <<conf, made>>

\* The copy of the new hash is forgotten.
RecordSkipped ==
  /\ pc = "record"
  /\ Goto(IF single THEN "fetch" ELSE "tghash")
  /\ UNCHANGED <<conf, made>>

-----------------------------------------------------------------------------
(* configure_project. *)

\* build_dependencies: ./mk -b of other projects.
Dependencies ==
  /\ pc = "deps"
  /\ Goto("hash") \/ End("err")
  /\ UNCHANGED <<conf, made>>

\* project_up_to_date: reading an empty hash file fails, err.
CheckHash ==
  /\ pc = "hash"
  /\ CASE hash = Torn     -> End("badhash")
       [] hash = treeconf -> Goto("record")
       [] OTHER           -> Goto("rmsrc")
  /\ UNCHANGED <<conf, made>>

\* rm -Rf src/$project/$tree elf/$project/$tree
RemoveSrc ==
  /\ pc = "rmsrc"
  /\ src' = None /\ xgcc' = FALSE
  /\ Goto("rmelf")
  /\ UNCHANGED <<conf, hash, tghash, marker, elf>>

RemoveElf ==
  /\ pc = "rmelf"
  /\ elf' = [t \in Targets |-> NoResult] /\ marker' = FALSE
  /\ Goto("record")
  /\ UNCHANGED <<conf, hash, tghash, src, xgcc>>

\* cp new.hash, whether it differs or not.
Record ==
  /\ pc = "record"
  /\ hash' = treeconf
  /\ Goto(IF single THEN "fetch" ELSE "tghash")
  /\ UNCHANGED <<conf, tghash, src, xgcc, marker, elf>>

CheckTargetHash ==
  /\ pc = "tghash"
  /\ CASE tghash[target] = Torn             -> End("badhash")
       [] tghash[target] = targconf[target] -> Goto("tgrecord")
       [] OTHER                             -> Goto("rmtarget")
  /\ UNCHANGED <<conf, made>>

RemoveTarget ==
  /\ pc = "rmtarget"
  /\ elf' = [elf EXCEPT ![target] = NoResult]
  /\ Goto("tgrecord")
  /\ UNCHANGED <<conf, hash, tghash, src, xgcc, marker>>

RecordTarget ==
  /\ pc = "tgrecord"
  /\ tghash' = [tghash EXCEPT ![target] = targconf[target]]
  /\ Goto("fetch")
  /\ UNCHANGED <<conf, hash, src, xgcc, marker, elf>>

\* ./mk -f: a directory that is there is taken as it is; else it appears whole,
\* at the configured revision (SourceTree), or fetching fails.
Fetch ==
  /\ pc = "fetch"
  /\ \/ src # None /\ UNCHANGED src /\ Goto(IF mode = "build" THEN "elfcheck" ELSE "xclean")
     \/ src = None /\ src' = rev /\ Goto(IF mode = "build" THEN "elfcheck" ELSE "xclean")
     \/ src = None /\ UNCHANGED src /\ End("err")
  /\ UNCHANGED <<conf, hash, tghash, xgcc, marker, elf>>

-----------------------------------------------------------------------------
(* handle_defconfig and build_project. *)

\* elfcheck: any file among the results means that they are there.
ElfCheck ==
  /\ pc = "elfcheck"
  /\ IF elf[target].files # "none" THEN End("ok")
     ELSE Goto(IF single THEN "make" ELSE "xgcc")
  /\ UNCHANGED <<conf, made>>

\* check_cross_compiler: nothing to do if the marker is there; make crossgcc
\* is tried twice and may fail, otherwise the compiler is there.
CrossCompiler ==
  /\ pc = "xgcc"
  /\ \/ marker /\ Goto("make") /\ UNCHANGED xgcc
     \/ ~marker /\ Goto("touch") /\ xgcc' = TRUE
     \/ ~marker /\ End("err") /\ UNCHANGED xgcc
  /\ UNCHANGED <<conf, hash, tghash, src, marker, elf>>

TouchMarker ==
  /\ pc = "touch"
  /\ marker' = TRUE
  /\ Goto("make")
  /\ UNCHANGED <<conf, hash, tghash, src, xgcc, elf>>

\* handle_makefile: make clean, then make, which may fail.
Make ==
  /\ pc = "make"
  /\ Goto("copy") \/ End("err")
  /\ UNCHANGED <<conf, made>>

\* copy_elf: the files of build.list, one by one.
CopyFirst ==
  /\ pc = "copy"
  /\ elf' = [elf EXCEPT ![target] =
               [files |-> "some", src |-> src, conf |-> targconf[target]]]
  /\ Goto("copying")
  /\ UNCHANGED <<conf, hash, tghash, src, xgcc, marker>>

CopyRest ==
  /\ pc = "copying"
  /\ \/ /\ elf' = [elf EXCEPT ![target] =
                     [files |-> "all", src |-> src, conf |-> targconf[target]]]
        /\ End("ok")
     \/ "torncopy" \in rare /\ UNCHANGED elf /\ End("err")
  /\ UNCHANGED <<conf, hash, tghash, src, xgcc, marker>>

\* ./mk -x: make crossgcc-clean.
CrossgccClean ==
  /\ pc = "xclean"
  /\ xgcc' = FALSE
  /\ End("ok")
  /\ UNCHANGED <<conf, hash, tghash, src, marker, elf>>

-----------------------------------------------------------------------------
\* Killed between two commands, or while a tree is being removed.
Kill ==
  /\ pc # "idle"
  /\ pc = "copying" => "torncopy" \in rare
  /\ End("killed")
  /\ \/ UNCHANGED <<src, xgcc>>
     \/ pc = "rmsrc" /\ src # None /\ src' = Torn /\ xgcc' = FALSE
  /\ UNCHANGED <<conf, hash, tghash, marker, elf>>

\* Killed while the hash is copied.
KillRecord ==
  /\ "tornhash" \in rare
  /\ \/ pc = "record" /\ hash' = Torn /\ UNCHANGED tghash
     \/ pc = "tgrecord" /\ tghash' = [tghash EXCEPT ![target] = Torn] /\ UNCHANGED hash
  /\ End("killed")
  /\ UNCHANGED <<conf, src, xgcc, marker, elf>>

Step ==
  \/ Dependencies \/ CheckHash \/ RemoveSrc \/ RemoveElf \/ Record \/ CheckTargetHash
  \/ RemoveTarget \/ RecordTarget \/ Fetch \/ ElfCheck \/ CrossCompiler \/ TouchMarker
  \/ Make \/ CopyFirst \/ CopyRest \/ CrossgccClean

Request == \E t \in Targets, m \in {"build", "xclean"} : Start(t, m)

Configure ==
  \E v \in Version :
    ConfigureTree(v) \/ ConfigurePkg(v) \/ \E t \in Targets : ConfigureTarget(t, v)

Next == Request \/ Configure \/ Step \/ Kill \/ KillRecord

Spec == Init /\ [][Next]_vars

-----------------------------------------------------------------------------
\* A successful build of a multi-tree project leaves complete results, made from
\* the tree and the configuration of now, whatever was killed or changed before
\* (tree.sh:391-397: a difference is noticed and what is old is made again).
BuildCurrent ==
  ~single /\ rare = {} /\ outcome = "ok" /\ mode = "build" => elf[target] = Wanted(target)

\* The part of that which holds for a single-tree project: what its hash covers
\* is as it is now.
HashedCurrent ==
  single /\ rare = {} /\ outcome = "ok" /\ mode = "build" =>
    elf[target].files = "all" /\ elf[target].src \in treeconf..rev

\* Whatever happens, what a successful build leaves may be incomplete, or made
\* from a tree that is, but not from another version of the configuration.
NeverOther ==
  ~single /\ outcome = "ok" /\ mode = "build" =>
    elf[target].src \in {rev, Torn} /\ elf[target].conf = targconf[target]

\* make is only run with the cross compiler there: the marker, which lives in
\* elf/, is never left behind by the compiler, which lives in src/.
CompilerThere == ~single /\ rare = {} /\ pc = "make" => xgcc

\* Nothing is built twice: what was made from the present configuration is
\* never removed, nor made again, on the way to building something else.
WorkKept ==
  [][\A t \in Targets :
       ~single /\ pc # "idle" /\ elf[t] = Wanted(t) => elf'[t] = elf[t]]_vars

=============================================================================
