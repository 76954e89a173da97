-------------------------------- MODULE XbGet -------------------------------
(***************************************************************************)
(* Downloading and caching of files by checksum (include/get.sh: xbget,    *)
(* try_fetch, try_fetch_file, try_curl, try_copy, bad_checksum), and the   *)
(* function fetch of include/vendor.sh, which downloads an archive and     *)
(* extracts a vendor file from it: Intel ME by the search of MeSearch, and *)
(* the others by tools that may fail or extract anything.                  *)
(*                                                                         *)
(* Four files matter: the cached archive "dl" (cache/file/$dlsum), the     *)
(* cached extracted file "bin" (cache/file/$binsum), a file "sub" that a   *)
(* git submodule list downloads, and the vendor file "dest" a board asks   *)
(* for.  A file is abstracted to whether it is there and which checksum it *)
(* has: "archive" and "vendor" match the two configured sums, "junk" is    *)
(* truncated, tampered with, or a file of an older configuration.          *)
(* The whole program can be killed between and during any two commands.    *)
(***************************************************************************)
EXTENDS MeSearch

CONSTANT Foreign   \* a file with the ME of another board

ASSUME ForeignAssumption == Foreign \in Files

Content == {"none", "archive", "vendor", "junk"}
Path    == {"dl", "bin", "sub", "dest"}

VARIABLES
  files,    \* the contents of the four files
  pc,       \* the next command
  call,     \* the running xbget: "sub", "dl" or "bin"
  url,      \* which of its two URLs is tried
  honest,   \* the URLs (1 the main one, 2 the backup) that deliver the right
            \* file, whenever they are asked during this request
  outcome,  \* how the last request ended
  stale,    \* when the request started, "dest" was there and wrong, and
            \* the cache had no extracted file to replace it with
  dl_type,  \* what is extracted: "intel_me", "deguard" (with ME11bootguard)
            \* or "other"
  used      \* has another board left files in the directories of the search?

given == <<honest, stale, archive, keep, dl_type, used>>
vars  == <<files, pc, call, url, outcome, given, search>>

\* The arguments xbget is called with: checksum, destination, and the place
\* of that checksum in the cache.  fetch() makes the cache its destination.
Sum    == [sub |-> "archive", dl |-> "archive", bin |-> "vendor"][call]
Dst    == [sub |-> "sub",     dl |-> "dl",      bin |-> "dest"][call]
Cached == [sub |-> "dl",      dl |-> "dl",      bin |-> "bin"][call]

Exists(f)      == files[f] # "none"

\* Mutant: any file that exists is taken for the right one.
BadChecksumMissing(f) == files[f] = "none"

BadChecksum(f) == files[f] # Sum

FetchTypeOK ==
  /\ files \in [Path -> Content]
  /\ pc \in {"idle", "check", "get", "dest", "verify", "copy", "final",
             "skip", "extract", "find", "mkdst", "sum"}
  /\ call \in {"sub", "dl", "bin"}
  /\ url \in {1, 2}
  /\ honest \subseteq {1, 2}
  /\ outcome \in {"none", "ok", "err", "killed", "other"}
  /\ stale \in BOOLEAN /\ keep \in BOOLEAN /\ used \in BOOLEAN
  /\ dl_type \in {"intel_me", "deguard", "other"}

TypeOK == FetchTypeOK /\ SearchTypeOK

Init ==
  /\ files = [f \in Path |-> "none"]
  /\ pc = "idle" /\ call = "sub" /\ url = 1 /\ honest = {}
  /\ outcome = "none" /\ stale = FALSE
  /\ archive \in Archives /\ keep \in BOOLEAN
  /\ dl_type = "other" /\ used = FALSE
  /\ me = "none" /\ dirs = Empty /\ frames = << >>

Put(f, c)  == files' = [files EXCEPT ![f] = c]
End(o)     == pc' = "idle" /\ outcome' = o /\ UNCHANGED <<call, url>>
Goto(step) == pc' = step /\ UNCHANGED <<call, url, outcome>>

\* err ends the program, or only the subshell fetch() runs its second xbget in.
Abort ==
  IF call = "bin" THEN Goto("skip") ELSE End("err")

\* Mutant: a failed try ends the program (x_ around try_fetch).
NextUrlNever == Abort

\* try_fetch_file returned 1: try the backup, or fail.
NextUrl ==
  IF url = 1
    THEN url' = 2 /\ pc' = "check" /\ UNCHANGED <<call, outcome>>
    ELSE Abort

-----------------------------------------------------------------------------
(* Mutants: what a plausible slip would make of a definition below. *)

\* The cached file is downloaded again, whatever it is.
CheckCachedAlways ==
  pc = "check" /\ Put(Cached, "none") /\ Goto("get") /\ UNCHANGED <<given, search>>

\* The extracted file is copied, but not checked afterwards.
CheckExtractedSkipped ==
  pc = "sum" /\ End("ok") /\ UNCHANGED <<files, given, search>>

\* A cached file that does not match is fetched from the same URL again.
VerifyCachedLoops ==
  /\ pc = "verify"
  /\ IF BadChecksum(Cached)
       THEN Put(Cached, "none") /\ Goto("check")
       ELSE UNCHANGED files /\ Goto("copy")
  /\ UNCHANGED <<given, search>>

-----------------------------------------------------------------------------
(* Requests. *)

\* $xbtmp is shared by all that an instance of ./mk and its children fetch, and
\* new with each instance; an error ends the instance.
SameInstance == outcome \in {"ok", "other"} /\ UNCHANGED <<search, used>>

NewInstance ==
  me' = "none" /\ dirs' = Empty /\ frames' = << >> /\ used' = FALSE

StartXbget(c) ==
  /\ call' = c /\ url' = 1 /\ pc' = "check"

Request(c) ==
  /\ pc = "idle"
  /\ honest' \in SUBSET {1, 2}
  /\ StartXbget(c) /\ outcome' = "none"
  /\ SameInstance \/ NewInstance
  /\ UNCHANGED <<files, archive, keep>>

\* fetch_submodule, "curl": download a file into the source tree.
RequestSubmodule ==
  /\ Request("sub")
  /\ stale' = FALSE /\ UNCHANGED dl_type

\* fetch: get the archive, then the vendor file.
RequestVendor ==
  /\ Request("dl")
  /\ stale' = (files["dest"] \notin {"none", "vendor"} /\ files["bin"] # "vendor")
  /\ dl_type' \in {"intel_me", "deguard", "other"}

\* A request for another board ends.  It may have left its me.bin, with deguard,
\* and a file of its archive, in a directory whose name has two letters.
OtherBoard ==
  /\ pc = "idle"
  /\ outcome' = "other" /\ frames' = << >>
  /\ me' \in {"none", "wrong"}
  /\ used' \in BOOLEAN
  /\ dirs' = [Empty EXCEPT ![2] = IF used' THEN {Foreign} ELSE {}]
  /\ UNCHANGED <<files, pc, call, url, honest, stale, archive, keep, dl_type>>

\* A new revision of the configuration names other checksums: what is on disk
\* is not what is wanted, and the cache has no file of the new names.
ConfigChange ==
  /\ pc = "idle"
  /\ files' = [f \in Path |-> IF f \in {"sub", "dest"} /\ Exists(f)
                                THEN "junk" ELSE "none"]
  /\ outcome' = "none"
  /\ archive' \in Archives /\ keep' \in BOOLEAN
  /\ call' = "sub" /\ url' = 1 /\ honest' = {} /\ stale' = FALSE /\ dl_type' = "other"
  /\ NewInstance
  /\ UNCHANGED pc

-----------------------------------------------------------------------------
(* xbget, one command of try_fetch_file at a time. *)

\* bad_checksum removes a cached file that does not match.
CheckCached ==
  /\ pc = "check"
  /\ IF BadChecksum(Cached)
       THEN Put(Cached, "none") /\ Goto("get")
       ELSE UNCHANGED files /\ Goto("dest")
  /\ UNCHANGED <<given, search>>

\* try_curl: curl, then wget; they may fail, half-way or not, or succeed with
\* anything.
TryCurl ==
  /\ pc = "get" /\ call # "bin"
  /\ \/ \E c \in IF url \in honest THEN {Sum} ELSE {"junk", Sum} :
          Put(Cached, c) /\ Goto("dest")
     \/ url \notin honest /\ \E c \in {"none", "junk"} :
          Put(Cached, c) /\ NextUrl
  /\ UNCHANGED <<given, search>>

\* try_copy of the cached file onto itself: cp refuses, as it also does when
\* there is none.
TryCopy ==
  /\ pc = "get" /\ call = "bin"
  /\ NextUrl
  /\ UNCHANGED <<files, given, search>>

\* An existing destination that does not match is removed, and the cached
\* file, not yet verified, is copied there; x_ cp fails if that is missing.
\* Where the destination is the cached file itself, it has just been removed.
RefreshDest ==
  /\ pc = "dest"
  /\ IF ~Exists(Dst) \/ ~BadChecksum(Dst)
       THEN UNCHANGED files /\ Goto("verify")
       ELSE IF Dst # Cached /\ Exists(Cached)
              THEN Put(Dst, files[Cached]) /\ Goto("verify")
              ELSE Put(Dst, "none") /\ Abort
  /\ UNCHANGED <<given, search>>

VerifyCached ==
  /\ pc = "verify"
  /\ IF BadChecksum(Cached)
       THEN Put(Cached, "none") /\ NextUrl
       ELSE UNCHANGED files /\ Goto("copy")
  /\ UNCHANGED <<given, search>>

CopyToDest ==
  /\ pc = "copy"
  /\ Put(Dst, files[Cached])
  /\ Goto("final")
  /\ UNCHANGED <<given, search>>

\* The last check; then a submodule request is done, and fetch() goes on to
\* the extracted file.
VerifyDest ==
  /\ pc = "final"
  /\ IF BadChecksum(Dst)
       THEN Put(Dst, "none") /\ NextUrl
       ELSE /\ UNCHANGED files
            /\ CASE call = "sub" -> End("ok")
                 [] call = "dl"  -> StartXbget("bin") /\ UNCHANGED outcome
                 [] call = "bin" -> Goto("skip")
  /\ UNCHANGED <<given, search>>

-----------------------------------------------------------------------------
(* fetch, after its two calls of xbget. *)

\* "skip extraction if a cached extracted file exists": the code asks whether
\* the destination exists.
SkipExtraction ==
  /\ pc = "skip"
  /\ IF Exists("dest") THEN End("ok") ELSE Goto("extract")
  /\ UNCHANGED <<files, given, search>>

\* extract_archive, extract_$dl_type: the search for Intel ME, or a tool that
\* may fail.
Extract ==
  /\ pc = "extract"
  /\ IF dl_type = "other" \/ ~Unpacks(Root)
       THEN /\ \/ End("err")
               \/ dl_type = "other" /\ Goto("mkdst")
            /\ UNCHANGED search
       ELSE Goto("find") /\ Begin
  /\ UNCHANGED <<files, given>>

Search ==
  /\ pc = "find" /\ find_me
  /\ UNCHANGED <<files, pc, call, url, outcome, given>>

\* mv of me.bin, which fails when none was found, or the deguard hack with it.
SearchEnded ==
  /\ pc = "find" /\ frames = << >>
  /\ \/ me # "none" /\ Goto("mkdst")
     \/ (me = "none" \/ dl_type = "deguard") /\ End("err")
  /\ UNCHANGED <<files, given, search>>

\* mkdst: of the extracted files, one that matches goes to the cache ...
MkdstCache ==
  /\ pc = "mkdst" /\ files["bin"] # "vendor"
  /\ \/ (dl_type = "other" \/ me = "right") /\ Put("bin", "vendor") /\ Goto("mkdst")
     \/ (dl_type = "other" \/ me = "wrong") /\ UNCHANGED files /\ Goto("sum")
  /\ UNCHANGED <<given, search>>

\* ... and from there to the destination.
MkdstDest ==
  /\ pc = "mkdst" /\ files["bin"] = "vendor"
  /\ Put("dest", files["bin"])
  /\ Goto("sum")
  /\ UNCHANGED <<given, search>>

CheckExtracted ==
  /\ pc = "sum"
  /\ IF files["dest"] = "vendor"
       THEN UNCHANGED files /\ End("ok")
       ELSE Put("dest", "none") /\ End("err")
  /\ UNCHANGED <<given, search>>

-----------------------------------------------------------------------------
\* The file being written when the program is killed may be left truncated.
Writing ==
  CASE pc = "get"   -> {Cached}
    [] pc \in {"dest", "copy"} -> {Dst} \ {Cached}
    [] pc = "mkdst" /\ files["bin"] = "vendor" -> {"dest"}
    [] OTHER -> {}

Kill ==
  /\ pc # "idle"
  /\ \/ UNCHANGED files
     \/ \E f \in Writing : Put(f, "junk")
  /\ pc' = "idle" /\ outcome' = "killed"
  /\ NewInstance
  /\ UNCHANGED <<call, url, honest, stale, archive, keep, dl_type>>

Step ==
  \/ CheckCached \/ TryCurl \/ TryCopy \/ RefreshDest \/ VerifyCached
  \/ CopyToDest \/ VerifyDest \/ SkipExtraction \/ Extract \/ Search \/ SearchEnded
  \/ MkdstCache \/ MkdstDest \/ CheckExtracted

Next ==
  \/ RequestSubmodule \/ RequestVendor
  \/ OtherBoard \/ ConfigChange
  \/ Step \/ Kill

Spec == Init /\ [][Next]_vars

\* The program's own commands terminate (--retry, --tries bound the network).
FairSpec == Spec /\ WF_vars(Step)

-----------------------------------------------------------------------------
\* xbget, as used for a submodule file, implements VerifiedFile: it reports
\* success only with the right file in place, after any downloads and kills.
VF == INSTANCE VerifiedFile WITH
        Wanted <- "archive",
        file   <- files["sub"],
        status <- IF call # "sub" THEN "idle"
                  ELSE IF pc # "idle" THEN "busy"
                  ELSE IF outcome = "ok" THEN "ok" ELSE "idle"

ImplementsVerifiedFile == VF!Spec

\* fetch (vendor.sh) succeeds only with the vendor file in place, provided no
\* wrong file was there that the cache could not replace.
VendorVerified ==
  outcome = "ok" /\ call \in {"dl", "bin"} /\ ~stale => files["dest"] = "vendor"

\* Where the main URL delivers, the wanted Intel ME is found and delivered if
\* the archive has it, however deep, unless another board's files are searched
\* with it (find_me, "Bruteforce Intel ME extraction").
VendorObtainable ==
  outcome = "err" /\ call \in {"dl", "bin"} /\ dl_type = "intel_me" /\ ~used =>
    1 \notin honest \/ ~Findable

\* One honest URL is enough for xbget: it fails only if neither is.
HonestUrlEnough == call = "sub" /\ outcome = "err" => honest = {}

\* A file that once matched its checksum stays in the cache, through failures
\* and kills: what is cached can be built without a network.
CacheKept ==
  [][\A f \in {"dl", "bin"} :
       files[f] = [dl |-> "archive", bin |-> "vendor"][f] /\ pc # "idle"
         => files'[f] = files[f]]_vars

\* Every request ends: the two URLs are tried once each (xbget's for loop).
RequestEnds == pc # "idle" ~> pc = "idle"

=============================================================================
