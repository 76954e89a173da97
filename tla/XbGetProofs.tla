----------------------------- MODULE XbGetProofs -----------------------------
(***************************************************************************)
(* Proofs about XbGet, for any archives, whatever the search for Intel ME  *)
(* and the other tools make of them, and wherever a run is killed:         *)
(*   - fetch succeeds only with the vendor file in place;                  *)
(*   - one honest URL is enough;                                           *)
(*   - xbget implements VerifiedFile;                                      *)
(*   - a verified file stays in the cache;                                 *)
(*   - the wanted Intel ME is found in every archive that Findable         *)
(*     describes, and delivered where the main URL does.                   *)
(***************************************************************************)
EXTENDS XbGet, FiniteSetTheorems, SequenceTheorems, TLAPS

USE DEF given

(***************************************************************************)
(* The inductive invariant.  What a command finds was established by an    *)
(* earlier one of the same request, and the URLs and the failed copies in  *)
(* between must not disturb it.                                            *)
(***************************************************************************)

\* Only fetch's own commands come after its second xbget; a request that is
\* running has no outcome.
Commands ==
  /\ pc # "idle" => outcome = "none"
  /\ pc \in {"skip", "extract", "find", "mkdst", "sum"} => call = "bin"

\* A file is downloaded only where the cache has none that matches, copied from
\* there only when it matches, and is then the same at the destination.
Checked ==
  /\ pc = "get"   => BadChecksum(Cached)
  /\ pc = "copy"  => ~BadChecksum(Cached)
  /\ pc = "final" => ~BadChecksum(Dst)

\* The backup is tried only if the main URL is not honest, and what an honest
\* one has delivered is in the cache.
HonestRun ==
  call = "sub" /\ pc # "idle" =>
    /\ url = 2 => 1 \notin honest
    /\ pc = "dest" => Exists(Cached)
    /\ pc \in {"dest", "verify"} /\ url \in honest => ~BadChecksum(Cached)

\* Unless it was stale, the vendor file is missing or right wherever the code
\* takes its mere existence for success; before that, if it is neither, the
\* cache has the right one.
DestRight == files["dest"] \in {"none", "vendor"}

VendorRun ==
  ~stale /\ pc # "idle" =>
    /\ call = "dl" \/ (call = "bin" /\ pc = "check") => DestRight \/ files["bin"] = "vendor"
    /\ call = "bin" /\ pc \in {"dest", "verify"} => files["bin"] = "vendor"
    /\ call = "bin" /\ pc \in {"get", "verify", "skip"} => DestRight

IInv ==
  /\ FetchTypeOK /\ Commands /\ Checked /\ HonestRun /\ VendorRun
  /\ VendorVerified /\ HonestUrlEnough

-----------------------------------------------------------------------------
(* The arguments of the three calls of xbget, and what a command may write. *)

LEMMA Arguments ==
  /\ call = "sub" => Sum = "archive" /\ Dst = "sub"  /\ Cached = "dl"
  /\ call = "dl"  => Sum = "archive" /\ Dst = "dl"   /\ Cached = "dl"
  /\ call = "bin" => Sum = "vendor"  /\ Dst = "dest" /\ Cached = "bin"
  BY DEF Sum, Dst, Cached

LEMMA ArgumentTypes ==
  ASSUME FetchTypeOK
  PROVE  /\ Sum \in Content /\ Sum # "none" /\ Sum # "junk"
         /\ Dst \in Path /\ Cached \in Path
  BY Arguments DEF FetchTypeOK, Path, Content

LEMMA PutType ==
  ASSUME FetchTypeOK, NEW f \in Path, NEW c \in Content, Put(f, c)
  PROVE  /\ files' \in [Path -> Content]
         /\ files'[f] = c
         /\ \A g \in Path : g # f => files'[g] = files[g]
  BY DEF FetchTypeOK, Put

\* A try that fails is followed by one of the backup, by the end of the request,
\* or, of fetch's second xbget, by the rest of fetch.
LEMMA NextUrlCases ==
  ASSUME FetchTypeOK, NextUrl
  PROVE  /\ call' = call
         /\ \/ url = 1 /\ url' = 2 /\ pc' = "check" /\ outcome' = outcome
            \/ url = 2 /\ url' = 2 /\ call = "bin" /\ pc' = "skip" /\ outcome' = outcome
            \/ url = 2 /\ url' = 2 /\ call # "bin" /\ pc' = "idle" /\ outcome' = "err"
  BY DEF FetchTypeOK, NextUrl, Abort, Goto, End

LEMMA AbortCases ==
  ASSUME Abort
  PROVE  /\ call' = call /\ url' = url
         /\ \/ call = "bin" /\ pc' = "skip" /\ outcome' = outcome
            \/ call # "bin" /\ pc' = "idle" /\ outcome' = "err"
  BY DEF Abort, Goto, End

-----------------------------------------------------------------------------
LEMMA InitInvariant == Init => IInv
  BY DEF Init, IInv, FetchTypeOK, Path, Content, Commands, Checked, HonestRun,
     VendorRun, VendorVerified, HonestUrlEnough

LEMMA TypeStep == FetchTypeOK /\ [Next]_vars => FetchTypeOK'
  <1> SUFFICES ASSUME FetchTypeOK, [Next]_vars PROVE FetchTypeOK'
    OBVIOUS
  <1> USE ArgumentTypes, NextUrlCases, AbortCases DEF FetchTypeOK, Goto, End
  <1>1. CASE RequestSubmodule \/ RequestVendor
    BY <1>1 DEF RequestSubmodule, RequestVendor, Request, StartXbget, SameInstance, NewInstance
  <1>2. CASE OtherBoard
    BY <1>2 DEF OtherBoard
  <1>3. CASE ConfigChange
    BY <1>3 DEF ConfigChange, NewInstance, Path, Content, Exists
  <1>4. CASE CheckCached
    BY <1>4 DEF CheckCached, Put, Content
  <1>5. CASE TryCurl
    BY <1>5 DEF TryCurl, Put, Content
  <1>6. CASE TryCopy
    BY <1>6 DEF TryCopy
  <1>7. CASE RefreshDest
    BY <1>7 DEF RefreshDest, Put, Content
  <1>8. CASE VerifyCached
    BY <1>8 DEF VerifyCached, Put, Content
  <1>9. CASE CopyToDest
    BY <1>9 DEF CopyToDest, Put
  <1>10. CASE VerifyDest
    BY <1>10 DEF VerifyDest, Put, Content, StartXbget
  <1>11. CASE SkipExtraction \/ Extract \/ Search \/ SearchEnded
    BY <1>11 DEF SkipExtraction, Extract, Search, SearchEnded
  <1>12. CASE MkdstCache \/ MkdstDest \/ CheckExtracted
    <2>1. CASE MkdstCache
      BY <2>1 DEF MkdstCache, Put, Path, Content
    <2>2. CASE MkdstDest
      BY <2>2 DEF MkdstDest, Put, Path, Content
    <2>3. CASE CheckExtracted
      BY <2>3 DEF CheckExtracted, Put, Path, Content
    <2>4. QED
      BY <1>12, <2>1, <2>2, <2>3
  <1>13. CASE Kill
    <2>1. Writing \subseteq Path
      BY DEF Writing, Path
    <2>2. files' \in [Path -> Content]
      <3>1. ASSUME NEW f \in Writing, Put(f, "junk") PROVE files' \in [Path -> Content]
        BY <2>1, <3>1 DEF Put, Content
      <3>2. QED
        BY <1>13, <3>1 DEF Kill
    <2>3. QED
      BY <1>13, <2>2 DEF Kill, NewInstance
  <1>14. CASE UNCHANGED vars
    BY <1>14 DEF vars
  <1>15. QED
    BY <1>1, <1>2, <1>3, <1>4, <1>5, <1>6, <1>7, <1>8, <1>9, <1>10, <1>11,
       <1>12, <1>13, <1>14 DEF Next, Step

-----------------------------------------------------------------------------
LEMMA RequestStep ==
  ASSUME IInv, RequestSubmodule \/ RequestVendor
  PROVE  Commands' /\ Checked' /\ HonestRun' /\ VendorRun' /\ VendorVerified' /\ HonestUrlEnough'
  <1>1. pc' = "check" /\ url' = 1 /\ outcome' = "none" /\ call' \in {"sub", "dl"}
    BY DEF RequestSubmodule, RequestVendor, Request, StartXbget
  <1>2. files' = files
    BY DEF RequestSubmodule, RequestVendor, Request
  <1>3. VendorRun'
    BY <1>1, <1>2 DEF RequestSubmodule, RequestVendor, Request, StartXbget, VendorRun, DestRight,
       IInv, FetchTypeOK
  <1>4. QED
    BY <1>1, <1>3 DEF Commands, Checked, HonestRun, VendorVerified, HonestUrlEnough

LEMMA IdleStep ==
  ASSUME IInv, OtherBoard \/ ConfigChange \/ Kill
  PROVE  Commands' /\ Checked' /\ HonestRun' /\ VendorRun' /\ VendorVerified' /\ HonestUrlEnough'
  <1>1. pc' = "idle" /\ outcome' \notin {"ok", "err"}
    BY DEF OtherBoard, ConfigChange, Kill
  <1>2. QED
    BY <1>1 DEF Commands, Checked, HonestRun, VendorRun, VendorVerified, HonestUrlEnough

\* The commands of xbget.
LEMMA XbgetStep ==
  ASSUME IInv, CheckCached \/ TryCurl \/ TryCopy \/ RefreshDest \/ VerifyCached
                 \/ CopyToDest \/ VerifyDest
  PROVE  Commands' /\ Checked' /\ HonestRun' /\ VendorRun' /\ VendorVerified' /\ HonestUrlEnough'
  <1> USE Arguments DEF Commands, Checked, HonestRun, VendorRun, DestRight, VendorVerified,
        HonestUrlEnough, BadChecksum, Exists, Goto, End
  <1>1. FetchTypeOK
    BY DEF IInv
  <1>2. outcome = "none" /\ pc # "idle" /\ honest' = honest /\ stale' = stale
    BY DEF IInv, CheckCached, TryCurl, TryCopy, RefreshDest, VerifyCached, CopyToDest, VerifyDest
  <1>3. (call' = call => Sum' = Sum /\ Dst' = Dst /\ Cached' = Cached)
    BY DEF Sum, Dst, Cached
  <1>4. CASE CheckCached
    BY <1>1, <1>2, <1>3, <1>4 DEF IInv, CheckCached, Put, FetchTypeOK, Path, Content
  <1>5. CASE TryCurl
    BY <1>1, <1>2, <1>3, <1>5, NextUrlCases DEF IInv, TryCurl, Put, FetchTypeOK, Path, Content
  <1>6. CASE TryCopy
    BY <1>1, <1>2, <1>3, <1>6, NextUrlCases DEF IInv, TryCopy, FetchTypeOK
  <1>7. CASE RefreshDest
    BY <1>1, <1>2, <1>3, <1>7, AbortCases DEF IInv, RefreshDest, Put, FetchTypeOK, Path, Content
  <1>8. CASE VerifyCached
    BY <1>1, <1>2, <1>3, <1>8, NextUrlCases DEF IInv, VerifyCached, Put, FetchTypeOK, Path, Content
  <1>9. CASE CopyToDest
    BY <1>1, <1>2, <1>3, <1>9 DEF IInv, CopyToDest, Put, FetchTypeOK, Path, Content
  <1>10. CASE VerifyDest
    <2>1. ~BadChecksum(Dst) /\ files' = files
      BY <1>10 DEF IInv, VerifyDest
    <2>2. CASE call = "bin"
      BY <1>1, <1>2, <1>10, <2>1, <2>2 DEF IInv, VerifyDest
    <2>3. CASE call = "dl"
      BY <1>1, <1>2, <1>10, <2>1, <2>3 DEF IInv, VerifyDest, StartXbget
    <2>4. CASE call = "sub"
      BY <1>1, <1>2, <1>10, <2>1, <2>4 DEF IInv, VerifyDest
    <2>5. QED
      BY <1>1, <2>2, <2>3, <2>4 DEF FetchTypeOK
  <1>11. QED
    BY <1>4, <1>5, <1>6, <1>7, <1>8, <1>9, <1>10

\* The commands of fetch.
LEMMA FetchStep ==
  ASSUME IInv, SkipExtraction \/ Extract \/ Search \/ SearchEnded
                 \/ MkdstCache \/ MkdstDest \/ CheckExtracted
  PROVE  Commands' /\ Checked' /\ HonestRun' /\ VendorRun' /\ VendorVerified' /\ HonestUrlEnough'
  <1>1. call = "bin" /\ call' = call /\ stale' = stale /\ outcome = "none"
    BY DEF IInv, Commands, SkipExtraction, Extract, Search, SearchEnded, MkdstCache,
       MkdstDest, CheckExtracted, Goto, End
  <1>2. pc' \in {"idle", "extract", "find", "mkdst", "sum"}
    BY DEF SkipExtraction, Extract, Search, SearchEnded, MkdstCache, MkdstDest,
       CheckExtracted, Goto, End
  <1>3. pc' # "idle" => outcome' = "none"
    BY <1>1 DEF SkipExtraction, Extract, Search, SearchEnded, MkdstCache, MkdstDest,
       CheckExtracted, Goto, End
  <1>4. VendorVerified'
    <2>1. CASE SkipExtraction
      BY <1>1, <2>1 DEF IInv, SkipExtraction, VendorRun, DestRight, VendorVerified, Exists, Goto, End
    <2>2. CASE CheckExtracted
      BY <1>1, <2>2 DEF CheckExtracted, VendorVerified, End
    <2>3. CASE Extract \/ Search \/ SearchEnded \/ MkdstCache \/ MkdstDest
      BY <1>1, <2>3 DEF Extract, Search, SearchEnded, MkdstCache, MkdstDest, VendorVerified, Goto, End
    <2>4. QED
      BY <2>1, <2>2, <2>3
  <1>5. QED
    BY <1>1, <1>2, <1>3, <1>4
    DEF Commands, Checked, HonestRun, VendorRun, HonestUrlEnough

LEMMA Inductive == IInv /\ [Next]_vars => IInv'
  <1> SUFFICES ASSUME IInv, [Next]_vars PROVE IInv'
    OBVIOUS
  <1>1. FetchTypeOK'
    BY TypeStep DEF IInv
  <1>2. CASE Next
    BY <1>1, <1>2, RequestStep, IdleStep, XbgetStep, FetchStep DEF IInv, Next, Step
  <1>3. CASE UNCHANGED vars
    BY <1>3 DEF vars, IInv, FetchTypeOK, Commands, Checked, HonestRun, VendorRun, DestRight,
       VendorVerified, HonestUrlEnough, BadChecksum, Exists, Sum, Dst, Cached
  <1>4. QED
    BY <1>2, <1>3

\* The invariant holds in every reachable state.
THEOREM IInvCorrect == Spec => []IInv
  BY InitInvariant, Inductive, PTL DEF Spec

-----------------------------------------------------------------------------
\* fetch succeeds only with the vendor file in place, unless a wrong one was
\* there that the cache could not replace: for any archive, and whatever its
\* tools extract.
THEOREM VendorVerifiedCorrect == Spec => []VendorVerified
  <1>1. IInv => VendorVerified
    BY DEF IInv
  <1>2. QED
    BY <1>1, IInvCorrect, PTL

\* xbget fails only if neither of the two URLs delivers the file: neither a
\* wrong cached file nor a wrong destination makes it fail.
THEOREM HonestUrlEnoughCorrect == Spec => []HonestUrlEnough
  <1>1. IInv => HonestUrlEnough
    BY DEF IInv
  <1>2. QED
    BY <1>1, IInvCorrect, PTL

-----------------------------------------------------------------------------
\* Once a file in the cache has its checksum, every command leaves it as it is,
\* also when the program is killed while it writes.
THEOREM CacheKeptCorrect == Spec => CacheKept
  <1> DEFINE Keep ==
        \A f \in {"dl", "bin"} :
          files[f] = [dl |-> "archive", bin |-> "vendor"][f] /\ pc # "idle"
            => files'[f] = files[f]
  <1>1. IInv /\ [Next]_vars => [Keep]_vars
    <2> SUFFICES ASSUME IInv, Next, pc # "idle",
                        NEW f \in {"dl", "bin"},
                        files[f] = IF f = "dl" THEN "archive" ELSE "vendor"
                 PROVE  files'[f] = files[f]
      OBVIOUS
    <2> USE Arguments DEF BadChecksum, Put
    <2>1. FetchTypeOK /\ Checked
      BY DEF IInv
    <2>2. CASE CheckCached \/ TryCurl \/ VerifyCached
      <3>1. Cached = f => ~BadChecksum(Cached)
        BY <2>1 DEF FetchTypeOK
      <3>2. \/ files' = files
            \/ BadChecksum(Cached) /\ \E c : Put(Cached, c)
        BY <2>1, <2>2 DEF CheckCached, TryCurl, VerifyCached, Checked
      <3>3. CASE BadChecksum(Cached) /\ \E c : Put(Cached, c)
        <4>1. PICK c : files' = [files EXCEPT ![Cached] = c]
          BY <3>3
        <4>2. Cached # f
          BY <3>1, <3>3
        <4>3. QED
          BY <2>1, <4>1, <4>2 DEF FetchTypeOK, Path
      <3>4. QED
        BY <3>2, <3>3
    <2>3. CASE RefreshDest \/ CopyToDest \/ VerifyDest
      BY <2>1, <2>3 DEF RefreshDest, CopyToDest, VerifyDest, Checked, FetchTypeOK, Path
    <2>4. CASE TryCopy \/ SkipExtraction \/ Extract \/ Search \/ SearchEnded
      BY <2>4 DEF TryCopy, SkipExtraction, Extract, Search, SearchEnded
    <2>5. CASE MkdstCache \/ MkdstDest \/ CheckExtracted
      BY <2>1, <2>5 DEF MkdstCache, MkdstDest, CheckExtracted, FetchTypeOK, Path
    <2>6. CASE Kill
      <3>1. ASSUME NEW g \in Writing PROVE g # f
        BY <2>1, <3>1 DEF Writing, Checked, FetchTypeOK
      <3>2. QED
        BY <2>1, <2>6, <3>1 DEF Kill, FetchTypeOK, Path
    <2>7. QED
      BY <2>2, <2>3, <2>4, <2>5, <2>6
      DEF Next, Step, RequestSubmodule, RequestVendor, Request, OtherBoard, ConfigChange
  <1>2. QED
    BY <1>1, IInvCorrect, PTL DEF Spec, CacheKept

-----------------------------------------------------------------------------
(* Refinement. *)

\* The abstract status of a submodule file.
Status ==
  IF call # "sub" THEN "idle"
  ELSE IF pc # "idle" THEN "busy"
  ELSE IF outcome = "ok" THEN "ok" ELSE "idle"

\* Every step of a request for another file, or between two requests, is one
\* that the abstract file allows at any time.
LEMMA OutsideStep ==
  ASSUME FetchTypeOK', Status # "busy", Status' = "idle"
  PROVE  VF!Outdate
  BY DEF FetchTypeOK, VF!Outdate, Status, Path

\* xbget, as used for a file of a submodule list, implements VerifiedFile.
THEOREM Refinement == Spec => ImplementsVerifiedFile
  <1>1. Init => VF!Init
    BY DEF Init, VF!Init, Content, Path
  <1>2. FetchTypeOK /\ Commands /\ FetchTypeOK' /\ [Next]_vars => [VF!Next]_(VF!vars)
    <2> SUFFICES ASSUME FetchTypeOK, Commands, FetchTypeOK', Next PROVE [VF!Next]_(VF!vars)
      BY DEF vars, VF!vars
    <2>0. files'["sub"] \in Content
      BY DEF FetchTypeOK, Path
    <2>1. CASE RequestSubmodule
      BY <2>1 DEF RequestSubmodule, Request, StartXbget, VF!Next, VF!Begin
    <2>2. CASE RequestVendor \/ OtherBoard \/ ConfigChange
      <3>1. Status # "busy" /\ Status' = "idle"
        BY <2>2 DEF RequestVendor, Request, StartXbget, OtherBoard, ConfigChange, Status
      <3>2. QED
        BY <3>1, OutsideStep DEF VF!Next
    <2>3. CASE (Step \/ Kill) /\ call # "sub"
      <3>1. call' # "sub"
        BY <2>3, NextUrlCases, AbortCases
        DEF Step, Kill, CheckCached, TryCurl, TryCopy, RefreshDest, VerifyCached, CopyToDest,
            VerifyDest, SkipExtraction, Extract, Search, SearchEnded, MkdstCache, MkdstDest,
            CheckExtracted, Goto, End, StartXbget, FetchTypeOK
      <3>2. QED
        BY <2>3, <3>1, OutsideStep DEF Status, VF!Next
    <2>4. CASE Kill /\ call = "sub"
      BY <2>0, <2>4 DEF Kill, VF!Next, VF!GiveUp
    <2>5. CASE VerifyDest /\ call = "sub"
      <3>1. CASE BadChecksum(Dst)
        BY <2>0, <2>5, <3>1, NextUrlCases DEF VerifyDest, VF!Next, VF!Change, VF!GiveUp
      <3>2. CASE ~BadChecksum(Dst)
        <4>1. files'["sub"] = "archive" /\ pc' = "idle" /\ outcome' = "ok" /\ call' = call
          BY <2>5, <3>2, Arguments DEF VerifyDest, BadChecksum, End
        <4>2. QED
          BY <2>5, <4>1 DEF VerifyDest, VF!Next, VF!Deliver
      <3>3. QED
        BY <3>1, <3>2
    <2>6. CASE Step /\ ~VerifyDest /\ call = "sub"
      <3>1. /\ pc # "idle" /\ call' = call
            /\ pc' = "idle" => outcome' # "ok"
        BY <2>6, NextUrlCases, AbortCases
        DEF Step, CheckCached, TryCurl, TryCopy, RefreshDest, VerifyCached, CopyToDest,
            SkipExtraction, Extract, Search, SearchEnded, MkdstCache, MkdstDest,
            CheckExtracted, Goto, End, Commands
      <3>2. QED
        BY <2>0, <2>6, <3>1 DEF VF!Next, VF!Change, VF!GiveUp
    <2>7. QED
      BY <2>1, <2>2, <2>3, <2>4, <2>5, <2>6 DEF Next, Step
  <1>3. IInv => FetchTypeOK /\ Commands
    BY DEF IInv
  <1>4. QED
    BY <1>1, <1>2, <1>3, IInvCorrect, PTL DEF Spec, ImplementsVerifiedFile, VF!Spec

-----------------------------------------------------------------------------
(* The search for Intel ME: types. *)

\* The file that is tried is the first of those that are left.
LEMMA FirstOf ==
  ASSUME NEW S \in SUBSET Files, S # {}
  PROVE  Min(S) \in S /\ \A g \in S : Min(S) <= g
<1> DEFINE upto(f) == {g \in Files : g <= f}
           T == {upto(f) : f \in S}
<1>1. Files \subseteq Nat /\ IsFiniteSet(Files)  BY MeSearchAssumption
<1>2. T \subseteq FiniteSubsetsOf(Files) /\ T # {}
  <2>1. \A f \in S : upto(f) \in SUBSET Files /\ IsFiniteSet(upto(f))  BY <1>1, FS_Subset
  <2> QED  BY <2>1 DEF FiniteSubsetsOf
<1>3. PICK x \in T : \A y \in T : <<y, x>> \notin StrictSubsetOrdering(Files)
  <2> HIDE DEF T
  <2> QED  BY <1>2, FS_StrictSubsetOrderingWellFounded, WFMin
<1>4. PICK f \in S : x = upto(f)  OBVIOUS
<1>5. \A g \in S : f <= g
  <2> SUFFICES ASSUME NEW g \in S, ~(f <= g) PROVE FALSE  OBVIOUS
  <2>1. f \in Nat /\ g \in Nat /\ g < f  BY <1>1
  <2>2. upto(g) \subseteq upto(f)
    <3> SUFFICES ASSUME NEW h \in upto(g) PROVE h \in upto(f)  OBVIOUS
    <3>1. h \in Nat /\ h <= g  BY <1>1
    <3> QED  BY <2>1, <3>1
  <2>3. f \in upto(f) /\ f \notin upto(g)  BY <1>1, <2>1
  <2>4. upto(g) # upto(f) /\ upto(g) \in SUBSET Files /\ upto(f) \in SUBSET Files
    BY <2>3
  <2>5. upto(g) \in T  OBVIOUS
  <2> HIDE DEF upto, T
  <2>6. <<upto(g), upto(f)>> \in StrictSubsetOrdering(Files)
    BY <2>2, <2>4 DEF StrictSubsetOrdering
  <2> QED  BY <2>5, <2>6, <1>3, <1>4
<1> QED  BY <1>5 DEF Min

LEMMA Holds ==
  ASSUME SearchTypeOK
  PROVE  /\ \A f \in Files : archive[f].holds \in SUBSET Files /\ Kindof(f) \in Kind
         /\ Root \in Files
  BY MeSearchAssumption DEF SearchTypeOK, Kindof

LEMMA TopType ==
  ASSUME SearchTypeOK, frames # << >>
  PROVE  /\ Len(frames) \in Nat \ {0}
         /\ Top \in Frame
         /\ Top.dir \in 0..NameMax /\ Top.a \in Nat /\ Top.list \in SUBSET Files
         /\ Top.list # {} => File \in Top.list /\ File \in Files
         /\ Tried \in Frame
<1>1. Len(frames) \in Nat \ {0} /\ Top \in Frame  BY DEF SearchTypeOK, Top
<1>2. Top.dir \in 0..NameMax /\ Top.a \in Nat /\ Top.list \in SUBSET Files
  BY <1>1 DEF Frame
<1>3. Top.list # {} => File \in Top.list  BY <1>2, FirstOf DEF File
<1>4. Top.list \ {File} \in SUBSET Files /\ Top.a + 1 \in Nat  BY <1>2
<1>5. Tried \in Frame  BY <1>2, <1>4 DEF Tried, Frame
<1> QED  BY <1>1, <1>2, <1>3, <1>5

\* Files are unpacked beyond the directory that is searched.
Named == \A i \in 1 .. Len(frames) : frames[i].dir <= frames[i].a

LEMMA Continued ==
  ASSUME SearchTypeOK, frames # << >>, NEW fr \in Frame, Continue(fr)
  PROVE  /\ frames' \in Seq(Frame) /\ Len(frames') = Len(frames)
         /\ frames'[Len(frames)] = fr
         /\ \A i \in 1 .. Len(frames) - 1 : frames'[i] = frames[i]
<1>1. frames \in Seq(Frame) /\ Len(frames) \in 1 .. Len(frames)  BY TopType DEF SearchTypeOK
<1> QED  BY <1>1, ExceptSeq DEF Continue

LEMMA Returned ==
  ASSUME SearchTypeOK, FindMeReturns
  PROVE  /\ frames' \in Seq(Frame) /\ Len(frames') = Len(frames) - 1
         /\ \A i \in 1 .. Len(frames) - 1 : frames'[i] = frames[i]
<1>1. frames \in Seq(Frame) /\ Len(frames) \in Nat \ {0}  BY TopType DEF SearchTypeOK, FindMeReturns
<1>2. \A i \in 1 .. Len(frames) - 1 : frames[i] \in Frame  BY <1>1
<1>3. frames' = SubSeq(frames, 1, Len(frames) - 1)  BY DEF FindMeReturns, Front
<1> DEFINE m == Len(frames) - 1
<1>4. m \in Nat  BY <1>1
<1> HIDE DEF m
<1>5. \A i \in 1 .. m : frames[i] \in Frame  BY <1>2 DEF m
<1> DEFINE sub == SubSeq(frames, 1, m)
<1>6. /\ sub \in Seq(Frame)
      /\ Len(sub) = IF 1 <= m THEN m - 1 + 1 ELSE 0
      /\ \A i \in 1 .. m - 1 + 1 : sub[i] = frames[1 + i - 1]
  BY <1>4, <1>5, SubSeqProperties
<1> HIDE DEF sub
<1>7. Len(sub) = m /\ m - 1 + 1 = m  BY <1>4, <1>6
<1>8. \A i \in 1 .. m : 1 + i - 1 = i  BY <1>4
<1>9. \A i \in 1 .. m : sub[i] = frames[i]  BY <1>6, <1>7, <1>8
<1>10. frames' = sub  BY <1>3 DEF m, sub
<1> QED  BY <1>6, <1>7, <1>9, <1>10 DEF m

\* What is searched after a file was unpacked, and when the unpacker asks.
Searched(f, k) ==
  (IF Kindof(f) = "pfs" THEN {} ELSE archive[f].holds) \cup dirs[k] \cup DlExtracted
Asks(f, k) == Kindof(f) # "pfs" /\ archive[f].holds \cap dirs[k] # {}

LEMMA Unpacked ==
  ASSUME SearchTypeOK, Named, FindMeUnpacks
  PROVE  /\ File \in Top.list /\ Unpacks(File) /\ Top.a + 1 \in 1..NameMax
         /\ Searched(File, Top.a + 1) \in SUBSET Files
         /\ dirs' \in [0..NameMax -> SUBSET Files]
         /\ dirs'[Top.a + 1] = Searched(File, Top.a + 1)
         /\ \A k \in 0..NameMax : k # Top.a + 1 =>
              \/ dirs'[k] = dirs[k]
              \/ Kindof(File) = "pfs" /\ dirs'[k] = dirs[k] \cup archive[File].holds
         /\ frames' \in Seq(Frame) /\ Len(frames') = Len(frames) + 1
         /\ \A i \in 1 .. Len(frames) - 1 : frames'[i] = frames[i]
         /\ frames'[Len(frames)].a = Top.a + 1 /\ frames'[Len(frames)].dir = Top.dir
         /\ \/ frames'[Len(frames)].list = Top.list \ {File}
            \/ frames'[Len(frames)].list = {} /\ Asks(File, Top.a + 1)
         /\ frames'[Len(frames) + 1] = Loop(Top.a + 1, Searched(File, Top.a + 1))
<1> DEFINE k == Top.a + 1
           n == Len(frames)
           dest == Searched(File, k)
           more == IF Kindof(File) = "pfs" THEN archive[File].holds ELSE {}
<1>1. frames # << >> /\ Top.list # {} /\ k <= NameMax /\ Unpacks(File)
  BY DEF FindMeUnpacks, Trying
<1>2. /\ n \in Nat \ {0} /\ Top \in Frame /\ Top.dir \in 0..NameMax
      /\ Top.a \in Nat /\ Top.list \in SUBSET Files /\ File \in Top.list /\ File \in Files
      /\ Tried \in Frame
  BY <1>1, TopType
<1>21. Top.dir # k
  <2>1. Top.dir <= Top.a  BY <1>2 DEF Named, Top
  <2> QED  BY <2>1, <1>2
<1>3. k \in 1..NameMax  BY <1>1, <1>2, MeSearchAssumption
<1>4. dirs[k] \in SUBSET Files  BY <1>3 DEF SearchTypeOK
<1>5. DlExtracted \in SUBSET Files  BY Holds DEF DlExtracted
<1>6. archive[File].holds \in SUBSET Files /\ more \in SUBSET Files  BY <1>2, Holds
<1>7. dest \in SUBSET Files  BY <1>4, <1>5, <1>6 DEF Searched
<1>8. dirs' = [dirs EXCEPT ![k] = dest, ![Top.dir] = dirs[Top.dir] \cup more]
  BY DEF FindMeUnpacks, Searched
<1>9. PICK rest \in {Tried.list} \cup (IF Asks(File, k) THEN {{}} ELSE {}) :
        frames' = Append([frames EXCEPT ![n] = [Tried EXCEPT !.list = rest]], Loop(k, dest))
  BY DEF FindMeUnpacks, Searched, Asks
<1>10. rest = Top.list \ {File} \/ (rest = {} /\ Asks(File, k))  BY <1>9 DEF Tried
<1>11. rest \in SUBSET Files  BY <1>2, <1>10
<1> DEFINE t == [Tried EXCEPT !.list = rest]
<1>12. t = [dir |-> Top.dir, a |-> k, list |-> rest]  BY DEF Tried
<1>13. t \in Frame /\ t.a = k /\ t.list = rest /\ t.dir = Top.dir  BY <1>12, <1>11, <1>2, <1>3 DEF Frame
<1>14. Loop(k, dest) \in Frame  BY <1>3, <1>7 DEF Loop, Frame
<1> DEFINE g == [frames EXCEPT ![n] = t]
<1> HIDE DEF t, dest, k, n
<1>15. frames \in Seq(Frame) /\ n \in 1 .. Len(frames)  BY <1>2 DEF SearchTypeOK, n
<1>16. g \in Seq(Frame) /\ Len(g) = n /\ g[n] = t /\ \A i \in 1 .. n - 1 : g[i] = frames[i]
  BY <1>13, <1>15, ExceptSeq DEF n
<1> HIDE DEF g
<1>17. frames' = Append(g, Loop(k, dest))  BY <1>9 DEF g, t, n
<1>18. /\ frames' \in Seq(Frame) /\ Len(frames') = n + 1
       /\ \A i \in 1 .. n : frames'[i] = g[i]
       /\ frames'[n + 1] = Loop(k, dest)
  BY <1>14, <1>16, <1>17, AppendProperties
<1>19. frames'[n] = t /\ \A i \in 1 .. n - 1 : frames'[i] = frames[i]
  BY SMTT(30), <1>2, <1>16, <1>18 DEF n
<1>20. /\ dirs' \in [0..NameMax -> SUBSET Files]
       /\ dirs'[k] = dest
       /\ \A j \in 0..NameMax : j # k =>
            \/ dirs'[j] = dirs[j]
            \/ Kindof(File) = "pfs" /\ dirs'[j] = dirs[j] \cup archive[File].holds
  <2>1. dirs \in [0..NameMax -> SUBSET Files] /\ k \in 0..NameMax
    BY <1>3 DEF SearchTypeOK
  <2>2. dirs[Top.dir] \cup more \in SUBSET Files  BY <2>1, <1>2, <1>6
  <2>3. CASE Kindof(File) = "pfs"
    <3>1. more = archive[File].holds  BY <2>3
    <3> HIDE DEF more
    <3>2. dirs' = [dirs EXCEPT ![k] = dest, ![Top.dir] = dirs[Top.dir] \cup more]
      BY <1>8 DEF k, dest
    <3> QED  BY <3>1, <3>2, <2>1, <2>2, <2>3, <1>7, <1>2, <1>21
  <2>4. CASE Kindof(File) # "pfs"
    <3>1. dirs[Top.dir] \cup more = dirs[Top.dir]  BY <2>4
    <3> QED  BY <3>1, <1>8, <2>1, <2>2, <1>7, <1>2, <1>21 DEF k, dest
  <2> QED  BY <2>3, <2>4
<1> QED  BY <1>1, <1>2, <1>3, <1>7, <1>10, <1>13, <1>18, <1>19, <1>20 DEF k, n, dest

LEMMA SearchType ==
  ASSUME SearchTypeOK, Named, find_me, UNCHANGED archive
  PROVE  (SearchTypeOK /\ Named)'
<1>1. frames # << >>
  BY DEF find_me, FindMeDone, FindMeWrites, FindMeLeaves, FindMeUnpacks, FindMeTooLong,
     FindMeNothing, FindMeReturns, Trying
<1>2. /\ Len(frames) \in Nat \ {0} /\ Tried \in Frame /\ Top.list \in SUBSET Files
      /\ Top.dir \in 0..NameMax /\ Top.a \in Nat
      /\ Top.list # {} => File \in Files
      /\ \A i \in 1 .. Len(frames) : frames[i] \in Frame /\ frames[i].dir <= frames[i].a
  BY <1>1, TopType DEF SearchTypeOK, Named
<1>3. Tried.dir <= Tried.a
  <2>1. Top.dir <= Top.a  BY <1>2 DEF Top
  <2> QED  BY <2>1, <1>2 DEF Tried
<1>4. /\ Continue(Tried) => /\ frames' \in Seq(Frame)
                            /\ \A i \in 1 .. Len(frames') : frames'[i].dir <= frames'[i].a
  <2> SUFFICES ASSUME Continue(Tried)
               PROVE  /\ frames' \in Seq(Frame)
                      /\ \A i \in 1 .. Len(frames') : frames'[i].dir <= frames'[i].a
    OBVIOUS
  <2>1. /\ frames' \in Seq(Frame) /\ Len(frames') = Len(frames)
        /\ frames'[Len(frames)] = Tried
        /\ \A i \in 1 .. Len(frames) - 1 : frames'[i] = frames[i]
    BY <1>1, <1>2, Continued
  <2>2. ASSUME NEW i \in 1 .. Len(frames') PROVE frames'[i].dir <= frames'[i].a
    <3>1. i = Len(frames) \/ i \in 1 .. Len(frames) - 1  BY <2>1, <1>2
    <3> QED  BY <3>1, <2>1, <1>2, <1>3
  <2> QED  BY <2>1, <2>2
<1>5. /\ ExitAll => /\ frames' \in Seq(Frame)
                    /\ \A i \in 1 .. Len(frames') : frames'[i].dir <= frames'[i].a
  <2> SUFFICES ASSUME frames' = << >>
               PROVE  /\ frames' \in Seq(Frame)
                      /\ \A i \in 1 .. Len(frames') : frames'[i].dir <= frames'[i].a
    BY DEF ExitAll
  <2>1. frames' \in Seq(Frame) /\ Len(frames') = 0  BY EmptySeq
  <2> QED  BY <2>1
<1>6. CASE FindMeDone \/ FindMeWrites \/ FindMeLeaves \/ FindMeNothing
  BY <1>4, <1>5, <1>6 DEF FindMeDone, FindMeWrites, FindMeLeaves, FindMeNothing, SearchTypeOK, Named
<1>7. CASE FindMeTooLong
  <2>1. dirs' = dirs \/ dirs' = [dirs EXCEPT ![Top.dir] = @ \cup archive[File].holds]
    BY <1>7 DEF FindMeTooLong
  <2>2. archive[File].holds \in SUBSET Files  BY <1>2, <1>7, Holds DEF FindMeTooLong, Trying
  <2>3. dirs[Top.dir] \cup archive[File].holds \in SUBSET Files  BY <1>2, <2>2 DEF SearchTypeOK
  <2>4. dirs' \in [0..NameMax -> SUBSET Files]  BY <2>1, <2>3, <1>2 DEF SearchTypeOK
  <2>5. ExitAll \/ Continue(Tried)  BY <1>7 DEF FindMeTooLong
  <2>6. me' = me  BY <1>7 DEF FindMeTooLong
  <2> QED  BY <2>4, <2>5, <2>6, <1>4, <1>5 DEF SearchTypeOK, Named
<1>8. CASE FindMeUnpacks
  <2> DEFINE n == Len(frames)
             k == Top.a + 1
             dest == Searched(File, k)
  <2>1. /\ dirs' \in [0..NameMax -> SUBSET Files]
        /\ frames' \in Seq(Frame) /\ Len(frames') = n + 1
        /\ \A i \in 1 .. n - 1 : frames'[i] = frames[i]
        /\ frames'[n].a = k /\ frames'[n].dir = Top.dir
        /\ frames'[n + 1] = Loop(k, dest)
    BY <1>8, Unpacked
  <2>2. Loop(k, dest).dir = k /\ Loop(k, dest).a = k  BY DEF Loop
  <2>3. Top.dir <= Top.a  BY <1>2 DEF Top
  <2>4. ASSUME NEW i \in 1 .. Len(frames') PROVE frames'[i].dir <= frames'[i].a
    <3>1. i = n + 1 \/ i = n \/ i \in 1 .. n - 1  BY <2>1, <1>2
    <3> HIDE DEF dest
    <3> QED  BY <3>1, <2>1, <2>2, <2>3, <1>2
  <2>5. me' = me  BY <1>8 DEF FindMeUnpacks
  <2> QED  BY <2>1, <2>4, <2>5 DEF SearchTypeOK, Named
<1>9. CASE FindMeReturns
  <2>1. /\ frames' \in Seq(Frame) /\ Len(frames') = Len(frames) - 1
        /\ \A i \in 1 .. Len(frames) - 1 : frames'[i] = frames[i]
    BY <1>9, Returned
  <2> QED  BY <2>1, <1>2, <1>9 DEF FindMeReturns, SearchTypeOK, Named
<1> QED  BY <1>6, <1>7, <1>8, <1>9 DEF find_me

-----------------------------------------------------------------------------
(* The levels of an archive that Findable describes. *)

Body == First \cup Second \cup Third

LEMMA InMembers ==
  ASSUME NEW S, NEW x
  PROVE  x \in Members(S) <=> \E f \in S : Unpacks(f) /\ x \in archive[f].holds
  BY DEF Members

LEMMA LevelFacts ==
  ASSUME SearchTypeOK, Orderly
  PROVE  /\ First \in SUBSET Files /\ Second \in SUBSET Files /\ Third \in SUBSET Files
         /\ First = archive[Root].holds
         /\ \A f \in First : Unpacks(f) => archive[f].holds \subseteq Second
         /\ \A f \in Second : Unpacks(f) => archive[f].holds \subseteq Third
         /\ \A f \in Third : ~Unpacks(f)
         /\ First \cap Second = {} /\ First \cap Third = {} /\ Second \cap Third = {}
         /\ \A f \in Body : Kindof(f) \in {"image", "update", "archive", "junk"}
         /\ \A f, g \in Body : f # g /\ Unpacks(f) /\ Unpacks(g) =>
              archive[f].holds \cap archive[g].holds = {}
<1>1. \A f \in Files : archive[f].holds \in SUBSET Files /\ Kindof(f) \in Kind
  BY Holds
<1>2. \A S \in SUBSET Files : Members(S) \in SUBSET Files
  BY <1>1 DEF Members
<1>3. Root \in Files  BY Holds
<1>4. First \in SUBSET Files  BY <1>2, <1>3 DEF First
<1>5. Second \in SUBSET Files  BY <1>2, <1>4 DEF Second
<1>6. Third \in SUBSET Files  BY <1>2, <1>5 DEF Third
<1>7. Unpacks(Root) /\ Root \notin First \cup Second \cup Third  BY DEF Orderly
<1>8. First = archive[Root].holds  BY <1>7 DEF First, Members
<1>9. /\ \A f \in First : Unpacks(f) => archive[f].holds \subseteq Second
      /\ \A f \in Second : Unpacks(f) => archive[f].holds \subseteq Third
  BY DEF Second, Third, Members
<1>10. \A f, g \in Inside :
         f # g /\ Unpacks(f) /\ Unpacks(g) => archive[f].holds \cap archive[g].holds = {}
  BY DEF Orderly
<1>11. First \cap Second = {} /\ First \cap Third = {}
  <2> SUFFICES ASSUME NEW x \in First, x \in Second \cup Third PROVE FALSE  OBVIOUS
  <2>1. PICK g \in First \cup Second : Unpacks(g) /\ x \in archive[g].holds
    BY InMembers DEF Second, Third
  <2>2. g # Root /\ g \in Inside /\ Root \in Inside  BY <2>1, <1>7 DEF Inside
  <2> QED  BY <2>1, <2>2, <1>7, <1>8, <1>10
<1>12. Second \cap Third = {}
  <2> SUFFICES ASSUME NEW x \in Second, x \in Third PROVE FALSE  OBVIOUS
  <2>1. PICK f \in First : Unpacks(f) /\ x \in archive[f].holds  BY InMembers DEF Second
  <2>2. PICK g \in Second : Unpacks(g) /\ x \in archive[g].holds  BY InMembers DEF Third
  <2>3. f # g /\ f \in Inside /\ g \in Inside  BY <1>11 DEF Inside
  <2> QED  BY <2>1, <2>2, <2>3, <1>10
<1>13. \A f \in Third : ~Unpacks(f)  BY DEF Orderly
<1>14. \A f \in Body : f \in Inside \ {Root} /\ f \in Files
  BY <1>4, <1>5, <1>6, <1>7 DEF Body, Inside
<1>15. \A f \in Body : Kindof(f) \in {"image", "update", "archive", "junk"}
  BY <1>1, <1>14 DEF Orderly, Kind
<1> QED  BY <1>4, <1>5, <1>6, <1>8, <1>9, <1>10, <1>11, <1>12, <1>13, <1>14, <1>15

\* There are names for all directories in which a file of each level is unpacked.
LEMMA LevelSizes ==
  ASSUME SearchTypeOK, Orderly
  PROVE  /\ IsFiniteSet(First) /\ IsFiniteSet(Second \cup Third)
         /\ Cardinality(First) \in Nat /\ Cardinality(Second \cup Third) \in Nat
         /\ 1 + Cardinality(First) + Cardinality(Second \cup Third) <= NameMax
<1>1. /\ First \in SUBSET Files /\ Second \cup Third \in SUBSET Files
      /\ First \cap (Second \cup Third) = {} /\ Root \notin First \cup (Second \cup Third)
  BY LevelFacts DEF Orderly
<1> DEFINE deep == Second \cup Third
<1>2. Cardinality(Inside) <= NameMax  BY DEF Orderly
<1>3. Inside = (First \cup deep) \cup {Root}  BY DEF Inside
<1>4. IsFiniteSet(Files)  BY MeSearchAssumption
<1> HIDE DEF deep
<1>5. IsFiniteSet(First) /\ IsFiniteSet(deep)  BY <1>1, <1>4, FS_Subset DEF deep
<1>6. Cardinality(First) \in Nat /\ Cardinality(deep) \in Nat  BY <1>5, FS_CardinalityType
<1>7. IsFiniteSet(First \cup deep)
      /\ Cardinality(First \cup deep) =
           Cardinality(First) + Cardinality(deep) - Cardinality(First \cap deep)
  BY <1>5, FS_Union
<1>8. First \cap deep = {} /\ Root \notin First \cup deep  BY <1>1 DEF deep
<1>9. Cardinality(First \cap deep) = 0  BY <1>8, FS_EmptySet
<1>10. Cardinality(First \cup deep) = Cardinality(First) + Cardinality(deep)
  BY <1>6, <1>7, <1>9
<1>11. Cardinality(Inside) = Cardinality(First \cup deep) + 1
  BY <1>3, <1>7, <1>8, FS_AddElement
<1>12. NameMax \in Nat  BY MeSearchAssumption
<1>13. Cardinality(First) + Cardinality(deep) + 1 <= NameMax  BY <1>2, <1>10, <1>11
<1> QED  BY <1>5, <1>6, <1>12, <1>13 DEF deep

\* What a file counts in a list.
LEMMA OneLess ==
  ASSUME NEW S \in SUBSET Files, NEW f \in S
  PROVE  /\ Cardinality(S) \in Nat \ {0}
         /\ Cardinality(S \ {f}) = Cardinality(S) - 1
<1>1. IsFiniteSet(S)  BY MeSearchAssumption, FS_Subset
<1>2. Cardinality(S) \in Nat /\ Cardinality(S \ {f}) \in Nat
  BY <1>1, FS_CardinalityType, FS_RemoveElement
<1>3. Cardinality(S \ {f}) = Cardinality(S) - 1  BY <1>1, FS_RemoveElement
<1> QED  BY <1>2, <1>3

\* What is fixed while an archive is searched.
LEMMA Fixed ==
  ASSUME UNCHANGED <<archive, keep>>
  PROVE  /\ First' = First /\ Second' = Second /\ Third' = Third /\ Body' = Body
         /\ \A S : Members(S)' = Members(S)
         /\ \A f : (MakesMe(f)' <=> MakesMe(f)) /\ (Unpacks(f)' <=> Unpacks(f))
         /\ (Findable' <=> Findable) /\ (Orderly' <=> Orderly)
<1>1. \A f : Kindof(f)' = Kindof(f)  BY DEF Kindof
<1>2. \A f : (MakesMe(f)' <=> MakesMe(f)) /\ (Unpacks(f)' <=> Unpacks(f))
  BY DEF MakesMe, Unpacks, Kindof
<1>3. \A S : Members(S)' = Members(S)
  BY DEF Members, Unpacks, Kindof
<1>4. First' = First  BY <1>3 DEF First
<1>5. Second' = Second  BY <1>3, <1>4 DEF Second
<1>6. Third' = Third  BY <1>3, <1>5 DEF Third
<1>7. Body' = Body /\ Inside' = Inside  BY <1>4, <1>5, <1>6 DEF Body, Inside
<1>8. Orderly' <=> Orderly
  BY <1>1, <1>2, <1>4, <1>5, <1>6, <1>7 DEF Orderly
<1>9. Findable' <=> Findable
  BY <1>1, <1>2, <1>4, <1>5, <1>7, <1>8 DEF Findable
<1> QED  BY <1>2, <1>3, <1>4, <1>5, <1>6, <1>7, <1>8, <1>9

-----------------------------------------------------------------------------
(* An archive: three loops at most, over the files of each level.          *)

\* What waits, in n loops with lists l1, l2, l3 and names a1, a2: the loop inside
\* an archive of the first level may find files of the third there, which were
\* left, and never archives, so that nothing is unpacked over itself.
ArchiveAt(n, l1, l2, l3, a1, a2, ds) ==
  /\ n \in 1..3 /\ a1 \in Nat \ {0} /\ (n >= 2 => a2 \in Nat /\ a1 <= a2)
  /\ l1 \subseteq First /\ l2 \subseteq Second \cup Third /\ l3 \subseteq Third
  /\ n < 2 => l2 = {}
  /\ n < 3 => l3 = {}
  /\ \A k \in 0..NameMax : a1 < k => ds[k] \subseteq Third
  /\ \A f \in l1 \cup Members(l1) \cup l2 : Unpacks(f) =>
       \A k \in 0..NameMax : archive[f].holds \cap ds[k] = {}
  /\ \A f \in l2 : Unpacks(f) => f \notin Members(l1)
  /\ \E f \in l1 \cup Members(l1) \cup Members(Members(l1)) \cup l2 \cup Members(l2) \cup l3 :
       MakesMe(f)
  /\ a1 + Cardinality(l1) <= 1 + Cardinality(First)
  /\ n >= 2 => a2 + Cardinality(l2) <= 1 + Cardinality(First) + Cardinality(Second \cup Third)

\* The names are long enough for what is unpacked.
LEMMA NameFits ==
  ASSUME SearchTypeOK, Orderly,
         NEW n, NEW l1, NEW l2, NEW l3, NEW a1, NEW a2, NEW ds,
         ArchiveAt(n, l1, l2, l3, a1, a2, ds)
  PROVE  /\ \A f \in l1 : a1 + 1 <= NameMax
         /\ n >= 2 => \A f \in l2 : a2 + 1 <= NameMax
<1>1. /\ Cardinality(First) \in Nat /\ Cardinality(Second \cup Third) \in Nat
      /\ 1 + Cardinality(First) + Cardinality(Second \cup Third) <= NameMax
      /\ First \in SUBSET Files /\ Second \cup Third \in SUBSET Files
      /\ NameMax \in Nat
  BY LevelSizes, LevelFacts, MeSearchAssumption
<1>2. /\ l1 \in SUBSET Files /\ l2 \in SUBSET Files /\ a1 \in Nat
      /\ a1 + Cardinality(l1) <= 1 + Cardinality(First)
      /\ n >= 2 => a2 \in Nat /\ a2 + Cardinality(l2) <=
                     1 + Cardinality(First) + Cardinality(Second \cup Third)
  BY <1>1 DEF ArchiveAt
<1>3. ASSUME NEW f \in l1 PROVE a1 + 1 <= NameMax
  <2>1. Cardinality(l1) \in Nat \ {0}  BY <1>2, OneLess
  <2> QED  BY <2>1, <1>1, <1>2
<1>4. ASSUME n >= 2, NEW f \in l2 PROVE a2 + 1 <= NameMax
  <2>1. Cardinality(l2) \in Nat \ {0}  BY <1>2, OneLess
  <2> QED  BY <2>1, <1>1, <1>2, <1>4
<1> QED  BY <1>3, <1>4

LEMMA MembersLess ==
  ASSUME NEW S, NEW f \in S, ~Unpacks(f)
  PROVE  Members(S \ {f}) = Members(S)
  BY DEF Members

LEMMA MembersSplit ==
  ASSUME NEW S, NEW f \in S, Unpacks(f)
  PROVE  Members(S) = archive[f].holds \cup Members(S \ {f})
  BY DEF Members

LEMMA MembersUnion ==
  ASSUME NEW S, NEW T
  PROVE  Members(S \cup T) = Members(S) \cup Members(T)
  BY DEF Members

LEMMA MembersEmpty == Members({}) = {}
  BY DEF Members

\* A file that makes nothing is passed by.
LEMMA PassFirst ==
  ASSUME SearchTypeOK, Orderly,
         NEW l1, NEW a1, NEW a2, NEW ds, ArchiveAt(1, l1, {}, {}, a1, a2, ds),
         NEW f \in l1, ~MakesMe(f), ~Unpacks(f)
  PROVE  ArchiveAt(1, l1 \ {f}, {}, {}, a1 + 1, a2, ds)
<1>1. Members(l1 \ {f}) = Members(l1)  BY MembersLess
<1>2. l1 \in SUBSET Files  BY LevelFacts DEF ArchiveAt
<1>3. Cardinality(l1) \in Nat \ {0} /\ Cardinality(l1 \ {f}) = Cardinality(l1) - 1
  BY <1>2, OneLess
<1>4. Cardinality(First) \in Nat  BY LevelSizes
<1>5. a1 \in Nat \ {0} /\ a1 + Cardinality(l1) <= 1 + Cardinality(First)  BY DEF ArchiveAt
<1>6. a1 + 1 + Cardinality(l1 \ {f}) <= 1 + Cardinality(First)  BY <1>3, <1>4, <1>5
<1>7. \A k \in 0..NameMax : a1 + 1 < k => a1 < k  BY <1>5, MeSearchAssumption
<1>8. \E g \in (l1 \ {f}) \cup Members(l1) \cup Members(Members(l1)) \cup {} \cup Members({}) \cup {} :
        MakesMe(g)
  BY DEF ArchiveAt
<1> DEFINE s == l1 \ {f}
           b == a1 + 1
<1>9. \E g \in s \cup Members(s) \cup Members(Members(s)) \cup {} \cup Members({}) \cup {} :
        MakesMe(g)
  BY <1>1, <1>8
<1>10. \A g \in s \cup Members(s) \cup {} : Unpacks(g) =>
         \A k \in 0..NameMax : archive[g].holds \cap ds[k] = {}
  BY <1>1 DEF ArchiveAt
<1>11. \A k \in 0..NameMax : b < k => ds[k] \subseteq Third  BY <1>7 DEF ArchiveAt
<1>12. s \subseteq First /\ b \in Nat \ {0}  BY <1>5 DEF ArchiveAt
<1>13. b + Cardinality(s) <= 1 + Cardinality(First)  BY <1>6
<1> HIDE DEF s, b
<1>14. ArchiveAt(1, s, {}, {}, b, a2, ds)
  BY <1>9, <1>10, <1>11, <1>12, <1>13 DEF ArchiveAt
<1> QED  BY <1>14 DEF s, b

LEMMA PassSecond ==
  ASSUME SearchTypeOK, Orderly,
         NEW l1, NEW l2, NEW a1, NEW a2, NEW ds, ArchiveAt(2, l1, l2, {}, a1, a2, ds),
         NEW f \in l2, ~MakesMe(f), ~Unpacks(f)
  PROVE  ArchiveAt(2, l1, l2 \ {f}, {}, a1, a2 + 1, ds)
<1>1. Members(l2 \ {f}) = Members(l2)  BY MembersLess
<1>2. l2 \in SUBSET Files  BY LevelFacts DEF ArchiveAt
<1>3. Cardinality(l2) \in Nat \ {0} /\ Cardinality(l2 \ {f}) = Cardinality(l2) - 1
  BY <1>2, OneLess
<1>4. Cardinality(First) \in Nat /\ Cardinality(Second \cup Third) \in Nat  BY LevelSizes
<1>5. /\ a1 \in Nat \ {0} /\ a2 \in Nat /\ a1 <= a2
      /\ a2 + Cardinality(l2) <= 1 + Cardinality(First) + Cardinality(Second \cup Third)
  BY DEF ArchiveAt
<1>6. /\ a2 + 1 + Cardinality(l2 \ {f}) <= 1 + Cardinality(First) + Cardinality(Second \cup Third)
      /\ a2 + 1 \in Nat /\ a1 <= a2 + 1
  BY <1>3, <1>4, <1>5
<1>7. \E g \in l1 \cup Members(l1) \cup Members(Members(l1)) \cup (l2 \ {f}) \cup Members(l2) \cup {} :
        MakesMe(g)
  BY DEF ArchiveAt
<1> QED  BY <1>1, <1>6, <1>7 DEF ArchiveAt

LEMMA PassThird ==
  ASSUME NEW l1, NEW l2, NEW l3, NEW a1, NEW a2, NEW ds,
         ArchiveAt(3, l1, l2, l3, a1, a2, ds), NEW f \in l3, ~MakesMe(f)
  PROVE  ArchiveAt(3, l1, l2, l3 \ {f}, a1, a2, ds)
  BY DEF ArchiveAt

\* The end of a loop.
LEMMA EndSecond ==
  ASSUME NEW l1, NEW a1, NEW a2, NEW ds, ArchiveAt(2, l1, {}, {}, a1, a2, ds)
  PROVE  ArchiveAt(1, l1, {}, {}, a1, a2, ds)
  BY MembersEmpty DEF ArchiveAt

LEMMA EndThird ==
  ASSUME NEW l1, NEW l2, NEW a1, NEW a2, NEW ds, ArchiveAt(3, l1, l2, {}, a1, a2, ds)
  PROVE  ArchiveAt(2, l1, l2, {}, a1, a2, ds)
  BY DEF ArchiveAt

LEMMA MakesOrUnpacks ==
  ASSUME NEW f, Unpacks(f)
  PROVE  ~MakesMe(f)
  BY DEF MakesMe, Unpacks

LEMMA MembersOfFirst ==
  ASSUME NEW S, S \subseteq First
  PROVE  Members(S) \subseteq Second
  BY DEF Second, Members

\* An archive of the first level is unpacked.
LEMMA UnpackFirst ==
  ASSUME SearchTypeOK, Orderly,
         NEW l1, NEW a1, NEW a2, NEW ds, ArchiveAt(1, l1, {}, {}, a1, a2, ds),
         NEW f \in l1, Unpacks(f),
         NEW es, es[a1 + 1] = archive[f].holds \cup ds[a1 + 1],
         \A k \in 0..NameMax : k # a1 + 1 => es[k] = ds[k]
  PROVE  /\ archive[f].holds \cap ds[a1 + 1] = {}
         /\ ArchiveAt(2, l1 \ {f}, es[a1 + 1], {}, a1 + 1, a1 + 1, es)
<1> DEFINE s == l1 \ {f}
           b == a1 + 1
           h == archive[f].holds
           l2 == es[b]
<1>1. /\ a1 \in Nat \ {0} /\ l1 \subseteq First
      /\ \A k \in 0..NameMax : a1 < k => ds[k] \subseteq Third
      /\ \A g \in l1 \cup Members(l1) : Unpacks(g) =>
           \A k \in 0..NameMax : archive[g].holds \cap ds[k] = {}
      /\ a1 + Cardinality(l1) <= 1 + Cardinality(First)
      /\ \E g \in l1 \cup Members(l1) \cup Members(Members(l1)) : MakesMe(g)
  BY MembersEmpty DEF ArchiveAt
<1>2. b \in 0..NameMax /\ b \in Nat \ {0} /\ a1 < b
  <2>1. a1 + 1 <= NameMax  BY NameFits
  <2> QED  BY <2>1, <1>1, MeSearchAssumption
<1>3. /\ \A g \in First : Unpacks(g) => archive[g].holds \subseteq Second
      /\ \A g \in Third : ~Unpacks(g)
      /\ First \cap Second = {} /\ First \cap Third = {} /\ Second \cap Third = {}
      /\ \A x, g \in Body : x # g /\ Unpacks(x) /\ Unpacks(g) =>
           archive[x].holds \cap archive[g].holds = {}
      /\ First \in SUBSET Files /\ Second \cup Third \in SUBSET Files
  BY LevelFacts
<1>4. f \in First /\ h \subseteq Second /\ ds[b] \subseteq Third  BY <1>1, <1>2, <1>3
<1>5. l2 = h \cup ds[b] /\ \A k \in 0..NameMax : k # b => es[k] = ds[k]  OBVIOUS
<1>6. h \cap ds[b] = {}  BY <1>1, <1>2
<1>7. /\ s \subseteq First /\ Members(s) \subseteq Second /\ Members(s) \subseteq Members(l1)
      /\ h \subseteq Members(l1) /\ Members(l1) = h \cup Members(s)
  <2>1. s \subseteq First  BY <1>1
  <2>2. Members(s) \subseteq Second  BY <2>1, MembersOfFirst
  <2>3. Members(l1) = archive[f].holds \cup Members(s)  BY MembersSplit
  <2> QED  BY <2>1, <2>2, <2>3
<1>8. \A g \in s \cup Members(s) \cup l2 : Unpacks(g) =>
        \A k \in 0..NameMax : archive[g].holds \cap es[k] = {}
  <2> SUFFICES ASSUME NEW g \in s \cup Members(s) \cup l2, Unpacks(g), NEW k \in 0..NameMax
               PROVE  archive[g].holds \cap es[k] = {}
    OBVIOUS
  <2>1. g \in s \cup Members(s) \cup h  BY <1>3, <1>4, <1>5
  <2>2. archive[g].holds \cap ds[k] = {}  BY <2>1, <1>1, <1>7
  <2>3. g # f /\ g \in Body /\ f \in Body  BY ZenonT(30), <2>1, <1>3, <1>4, <1>7 DEF Body
  <2>4. archive[g].holds \cap h = {}  BY <2>3, <1>3
  <2>5. es[k] = ds[k] \/ es[k] = h \cup ds[k]  BY <1>5
  <2> HIDE DEF h, s, b, l2
  <2> QED  BY <2>2, <2>4, <2>5
<1>9. \A g \in l2 : Unpacks(g) => g \notin Members(s)
  <2> SUFFICES ASSUME NEW g \in l2, Unpacks(g), g \in Members(s) PROVE FALSE  OBVIOUS
  <2>1. PICK x \in s : Unpacks(x) /\ g \in archive[x].holds  BY InMembers
  <2>2. x # f /\ x \in Body /\ f \in Body  BY <1>4, <1>7 DEF Body
  <2>3. g \in h  BY <1>3, <1>4, <1>5
  <2> QED  BY <2>1, <2>2, <2>3, <1>3
<1>10. \E g \in s \cup Members(s) \cup Members(Members(s)) \cup l2 \cup Members(l2) \cup {} :
         MakesMe(g)
  <2>1. Members(Members(l1)) = Members(h) \cup Members(Members(s))
    BY <1>7, MembersUnion
  <2>2. Members(l2) = Members(h) \cup Members(ds[b])  BY <1>5, MembersUnion
  <2>3. ~MakesMe(f)  BY MakesOrUnpacks
  <2> QED  BY <2>1, <2>2, <2>3, <1>1, <1>5, <1>7
<1>11. /\ b + Cardinality(s) <= 1 + Cardinality(First)
       /\ b + Cardinality(l2) <= 1 + Cardinality(First) + Cardinality(Second \cup Third)
  <2>1. /\ Cardinality(First) \in Nat /\ Cardinality(Second \cup Third) \in Nat
        /\ IsFiniteSet(Second \cup Third)
    BY LevelSizes
  <2>2. l1 \in SUBSET Files /\ l2 \in SUBSET (Second \cup Third)  BY <1>1, <1>3, <1>4, <1>5
  <2>3. Cardinality(l1) \in Nat \ {0} /\ Cardinality(s) = Cardinality(l1) - 1
    BY <2>2, OneLess
  <2>4. IsFiniteSet(l2) /\ Cardinality(l2) <= Cardinality(Second \cup Third)
    BY <2>1, <2>2, FS_Subset
  <2>5. Cardinality(l2) \in Nat  BY <2>4, FS_CardinalityType
  <2> HIDE DEF l2, s
  <2> QED  BY <2>1, <2>3, <2>4, <2>5, <1>1
<1>12. \A k \in 0..NameMax : b < k => es[k] \subseteq Third  BY <1>1, <1>2, <1>5
<1>13. l2 \subseteq Second \cup Third  BY <1>4, <1>5
<1> HIDE DEF l2, s, b, h
<1>14. ArchiveAt(2, s, l2, {}, b, b, es)
  BY <1>2, <1>7, <1>8, <1>9, <1>10, <1>11, <1>12, <1>13 DEF ArchiveAt
<1> QED  BY <1>6, <1>14 DEF l2, s, b, h

\* An archive in one of those is unpacked.
LEMMA UnpackSecond ==
  ASSUME SearchTypeOK, Orderly,
         NEW l1, NEW l2, NEW a1, NEW a2, NEW ds, ArchiveAt(2, l1, l2, {}, a1, a2, ds),
         NEW f \in l2, Unpacks(f),
         NEW es, es[a2 + 1] = archive[f].holds \cup ds[a2 + 1],
         \A k \in 0..NameMax : k # a2 + 1 => es[k] = ds[k]
  PROVE  /\ archive[f].holds \cap ds[a2 + 1] = {}
         /\ ArchiveAt(3, l1, l2 \ {f}, es[a2 + 1], a1, a2 + 1, es)
<1> DEFINE s == l2 \ {f}
           b == a2 + 1
           h == archive[f].holds
           l3 == es[b]
<1>1. /\ a1 \in Nat \ {0} /\ a2 \in Nat /\ a1 <= a2
      /\ l1 \subseteq First /\ l2 \subseteq Second \cup Third
      /\ \A k \in 0..NameMax : a1 < k => ds[k] \subseteq Third
      /\ \A g \in l1 \cup Members(l1) \cup l2 : Unpacks(g) =>
           \A k \in 0..NameMax : archive[g].holds \cap ds[k] = {}
      /\ \A g \in l2 : Unpacks(g) => g \notin Members(l1)
      /\ a1 + Cardinality(l1) <= 1 + Cardinality(First)
      /\ a2 + Cardinality(l2) <= 1 + Cardinality(First) + Cardinality(Second \cup Third)
      /\ \E g \in l1 \cup Members(l1) \cup Members(Members(l1)) \cup l2 \cup Members(l2) : MakesMe(g)
  BY DEF ArchiveAt
<1>2. b \in 0..NameMax /\ b \in Nat /\ a1 < b
  <2>1. a2 + 1 <= NameMax  BY NameFits
  <2> QED  BY <2>1, <1>1, MeSearchAssumption
<1>3. /\ \A g \in Second : Unpacks(g) => archive[g].holds \subseteq Third
      /\ \A g \in Third : ~Unpacks(g)
      /\ First \cap Second = {}
      /\ \A x, g \in Body : x # g /\ Unpacks(x) /\ Unpacks(g) =>
           archive[x].holds \cap archive[g].holds = {}
      /\ Second \cup Third \in SUBSET Files
  BY LevelFacts
<1>4. f \in Second /\ h \subseteq Third /\ ds[b] \subseteq Third  BY <1>1, <1>2, <1>3
<1>5. l3 = h \cup ds[b] /\ \A k \in 0..NameMax : k # b => es[k] = ds[k]  OBVIOUS
<1>6. h \cap ds[b] = {}  BY <1>1, <1>2
<1>7. Members(l1) \subseteq Second /\ Members(l2) = h \cup Members(s)
  BY <1>1, MembersOfFirst, MembersSplit
<1>8. \A g \in l1 \cup Members(l1) \cup s : Unpacks(g) =>
        \A k \in 0..NameMax : archive[g].holds \cap es[k] = {}
  <2> SUFFICES ASSUME NEW g \in l1 \cup Members(l1) \cup s, Unpacks(g), NEW k \in 0..NameMax
               PROVE  archive[g].holds \cap es[k] = {}
    OBVIOUS
  <2>1. archive[g].holds \cap ds[k] = {}  BY <1>1
  <2>2. g # f /\ g \in Body /\ f \in Body  BY <1>1, <1>3, <1>4, <1>7 DEF Body
  <2>3. archive[g].holds \cap h = {}  BY <2>2, <1>3
  <2>4. es[k] = ds[k] \/ es[k] = h \cup ds[k]  BY <1>5
  <2> HIDE DEF h, s, b, l3
  <2> QED  BY <2>1, <2>3, <2>4
<1>9. \E g \in l1 \cup Members(l1) \cup Members(Members(l1)) \cup s \cup Members(s) \cup l3 :
        MakesMe(g)
  <2>1. ~MakesMe(f)  BY MakesOrUnpacks
  <2> QED  BY <2>1, <1>1, <1>5, <1>7
<1>10. /\ b + Cardinality(s) <= 1 + Cardinality(First) + Cardinality(Second \cup Third)
       /\ a1 <= b
  <2>1. Cardinality(First) \in Nat /\ Cardinality(Second \cup Third) \in Nat  BY LevelSizes
  <2>2. l2 \in SUBSET Files  BY <1>1, <1>3
  <2>3. Cardinality(l2) \in Nat \ {0} /\ Cardinality(s) = Cardinality(l2) - 1
    BY <2>2, OneLess
  <2> HIDE DEF s
  <2> QED  BY <2>1, <2>3, <1>1
<1>11. \A k \in 0..NameMax : a1 < k => es[k] \subseteq Third  BY <1>1, <1>2, <1>4, <1>5
<1>12. l3 \subseteq Third /\ s \subseteq Second \cup Third  BY <1>1, <1>4, <1>5
<1>13. \A g \in s : Unpacks(g) => g \notin Members(l1)  BY <1>1
<1> HIDE DEF l3, s, b, h
<1>14. ArchiveAt(3, l1, s, l3, a1, b, es)
  BY <1>1, <1>2, <1>8, <1>9, <1>10, <1>11, <1>12, <1>13 DEF ArchiveAt
<1> QED  BY <1>6, <1>14 DEF l3, s, b, h

-----------------------------------------------------------------------------
(* The steps of a search. *)

\* A search for what Findable describes finds the wanted one, passes a file by,
\* unpacks one, or ends a loop.
LEMMA StepKinds ==
  ASSUME SearchTypeOK, Orderly, me = "none", frames # << >>, Top.list \subseteq Body, find_me
  PROVE  \/ Top.list # {} /\ MakesMe(File) /\ me' = "right" /\ frames' = << >>
         \/ /\ Top.list # {} /\ ~MakesMe(File) /\ (Unpacks(File) => ~(Top.a + 1 <= NameMax))
            /\ Continue(Tried) /\ me' = "none" /\ dirs' = dirs
         \/ FindMeUnpacks /\ me' = "none"
         \/ FindMeReturns /\ me' = "none" /\ dirs' = dirs
<1>1. Top.list # {} => File \in Body  BY TopType
<1>2. Top.list # {} => Kindof(File) \in {"image", "update", "archive", "junk"}
  BY <1>1, LevelFacts
<1>3. Top.a \in Nat /\ NameMax \in Nat  BY TopType, MeSearchAssumption
<1>4. ~FindMeDone /\ ~FindMeLeaves
  BY <1>2 DEF FindMeDone, FindMeLeaves, Trying
<1>5. CASE FindMeWrites
  BY <1>2, <1>5 DEF FindMeWrites, Trying, ExitAll
<1>6. CASE FindMeTooLong
  BY <1>2, <1>3, <1>6, MakesOrUnpacks DEF FindMeTooLong, Trying
<1>7. CASE FindMeNothing
  BY <1>2, <1>7 DEF FindMeNothing, Trying, MakesMe, Unpacks
<1>8. CASE FindMeUnpacks
  BY <1>8 DEF FindMeUnpacks
<1>9. CASE FindMeReturns
  BY <1>9 DEF FindMeReturns
<1> QED  BY <1>4, <1>5, <1>6, <1>7, <1>8, <1>9 DEF find_me

-----------------------------------------------------------------------------
(* An archive: its three loops. *)

Waits(n, l1, l2, l3, a1, a2) ==
  /\ n = Len(frames)
  /\ frames[1].list = l1 /\ frames[1].a = a1
  /\ n >= 2 => frames[2].list = l2 /\ frames[2].a = a2
  /\ n >= 3 => frames[3].list = l3

ArchiveSearch ==
  \E n, l1, l2, l3, a1, a2 :
    Waits(n, l1, l2, l3, a1, a2) /\ ArchiveAt(n, l1, l2, l3, a1, a2, dirs)

LEMMA ArchiveAfter ==
  ASSUME UNCHANGED <<archive, keep>>,
         NEW n, NEW l1, NEW l2, NEW l3, NEW a1, NEW a2, NEW es, es = dirs',
         n = Len(frames'), frames'[1].list = l1, frames'[1].a = a1,
         n >= 2 => frames'[2].list = l2 /\ frames'[2].a = a2,
         n >= 3 => frames'[3].list = l3,
         ArchiveAt(n, l1, l2, l3, a1, a2, es)
  PROVE  ArchiveSearch'
<1>1. ArchiveAt(n, l1, l2, l3, a1, a2, dirs)'
  <2>1. /\ First' = First /\ Second' = Second /\ Third' = Third
        /\ \A S : Members(S)' = Members(S)
        /\ \A f : (MakesMe(f)' <=> MakesMe(f)) /\ (Unpacks(f)' <=> Unpacks(f))
        /\ archive' = archive
    BY Fixed
  <2> QED  BY <2>1 DEF ArchiveAt
<1> QED  BY <1>1 DEF ArchiveSearch, Waits

LEMMA FirstLoop ==
  ASSUME SearchTypeOK, Named, Orderly, Kindof(Root) # "pfs", me = "none",
         UNCHANGED <<archive, keep>>, find_me,
         NEW l1, NEW l2, NEW l3, NEW a1, NEW a2,
         Waits(1, l1, l2, l3, a1, a2), ArchiveAt(1, l1, l2, l3, a1, a2, dirs)
  PROVE  \/ me' = "right" /\ frames' = << >>
         \/ me' = "none" /\ ArchiveSearch'
<1>1. /\ Len(frames) = 1 /\ Top.list = l1 /\ Top.a = a1 /\ l1 \subseteq First
      /\ l2 = {} /\ l3 = {} /\ frames # << >>
  <2>1. Len(frames) = 1 /\ frames[1].list = l1 /\ frames[1].a = a1  BY DEF Waits
  <2>2. Top.list = l1 /\ Top.a = a1  BY <2>1 DEF Top
  <2>3. l1 \subseteq First /\ l2 = {} /\ l3 = {}  BY DEF ArchiveAt
  <2>4. frames # << >>  BY <2>1
  <2> QED  BY <2>1, <2>2, <2>3, <2>4
<1>2. ArchiveAt(1, l1, {}, {}, a1, a2, dirs)  BY <1>1
<1>3. Top.list \subseteq Body /\ First \in SUBSET Files  BY <1>1, LevelFacts DEF Body
<1>4. /\ Tried \in Frame /\ (l1 # {} => File \in l1)
      /\ Tried.list = l1 \ {File} /\ Tried.a = a1 + 1
      /\ a1 \in Nat /\ NameMax \in Nat
  BY <1>1, TopType, MeSearchAssumption DEF Tried
<1>5. CASE MakesMe(File) /\ me' = "right" /\ frames' = << >>
  BY <1>5
<1>6. CASE /\ l1 # {} /\ ~MakesMe(File) /\ (Unpacks(File) => ~(a1 + 1 <= NameMax))
           /\ Continue(Tried) /\ me' = "none" /\ dirs' = dirs
  <2>1. File \in l1 /\ ~Unpacks(File)  BY <1>2, <1>4, <1>6, NameFits
  <2>2. ArchiveAt(1, l1 \ {File}, {}, {}, a1 + 1, a2, dirs)  BY <1>2, <1>6, <2>1, PassFirst
  <2>3. Len(frames') = 1 /\ frames'[1] = Tried  BY <1>1, <1>4, <1>6, Continued
  <2> DEFINE s == l1 \ {File}
             b == a1 + 1
             es == dirs'
  <2>6. frames'[1].list = s /\ frames'[1].a = b  BY <1>4, <2>3
  <2>5. ArchiveAt(1, s, {}, {}, b, a2, es)  BY <1>6, <2>2
  <2> HIDE DEF s, b, es
  <2>7. ArchiveSearch'  BY <2>3, <2>5, <2>6, ArchiveAfter DEF es
  <2> QED  BY <1>6, <2>7
<1>7. CASE FindMeUnpacks /\ me' = "none"
  <2> DEFINE k == a1 + 1
             h == archive[File].holds
             s == l1 \ {File}
             es == dirs'
  <2>1. /\ File \in l1 /\ Unpacks(File) /\ k \in 1..NameMax
        /\ es[k] = Searched(File, k)
        /\ \A j \in 0..NameMax : j # k =>
             \/ es[j] = dirs[j]
             \/ Kindof(File) = "pfs" /\ es[j] = dirs[j] \cup h
        /\ Len(frames') = 2 /\ frames'[1].a = k
        /\ frames'[1].list = s \/ (frames'[1].list = {} /\ Asks(File, k))
        /\ frames'[2] = Loop(k, Searched(File, k))
    BY <1>1, <1>7, Unpacked
  <2>2. Kindof(File) # "pfs"  BY <1>1, <1>3, <2>1, LevelFacts
  <2>3. es[k] = h \cup dirs[k]  BY <2>1, <2>2 DEF Searched, DlExtracted
  <2>4. \A j \in 0..NameMax : j # k => es[j] = dirs[j]  BY <2>1, <2>2
  <2>5. h \cap dirs[k] = {} /\ ArchiveAt(2, s, es[k], {}, k, k, es)
    BY <1>2, <2>1, <2>3, <2>4, UnpackFirst
  <2>6. frames'[1].list = s  BY <2>1, <2>5 DEF Asks
  <2>7. frames'[2].list = es[k] /\ frames'[2].a = k  BY <2>1 DEF Loop
  <2> HIDE DEF es, s, k, h
  <2>8. ArchiveSearch'  BY <2>1, <2>5, <2>6, <2>7, ArchiveAfter DEF es
  <2> QED  BY <1>7, <2>8
<1>8. CASE FindMeReturns
  <2>1. l1 = {}  BY <1>1, <1>8 DEF FindMeReturns
  <2> QED  BY <2>1, <1>2, MembersEmpty DEF ArchiveAt
<1> QED  BY <1>1, <1>3, <1>5, <1>6, <1>7, <1>8, StepKinds

LEMMA SecondLoop ==
  ASSUME SearchTypeOK, Named, Orderly, Kindof(Root) # "pfs", me = "none",
         UNCHANGED <<archive, keep>>, find_me,
         NEW l1, NEW l2, NEW l3, NEW a1, NEW a2,
         Waits(2, l1, l2, l3, a1, a2), ArchiveAt(2, l1, l2, l3, a1, a2, dirs)
  PROVE  \/ me' = "right" /\ frames' = << >>
         \/ me' = "none" /\ ArchiveSearch'
<1>1. /\ Len(frames) = 2 /\ Top.list = l2 /\ Top.a = a2 /\ l2 \subseteq Second \cup Third
      /\ frames[1].list = l1 /\ frames[1].a = a1
      /\ l3 = {} /\ frames # << >>
  <2>1. /\ Len(frames) = 2 /\ frames[2].list = l2 /\ frames[2].a = a2
        /\ frames[1].list = l1 /\ frames[1].a = a1
    BY DEF Waits
  <2>2. Top.list = l2 /\ Top.a = a2  BY <2>1 DEF Top
  <2>3. l2 \subseteq Second \cup Third /\ l3 = {}  BY DEF ArchiveAt
  <2>4. frames # << >>  BY <2>1
  <2> QED  BY <2>1, <2>2, <2>3, <2>4
<1>2. ArchiveAt(2, l1, l2, {}, a1, a2, dirs)  BY <1>1
<1>3. Top.list \subseteq Body  BY <1>1 DEF Body
<1>4. /\ Tried \in Frame /\ (l2 # {} => File \in l2)
      /\ Tried.list = l2 \ {File} /\ Tried.a = a2 + 1
      /\ a2 \in Nat /\ NameMax \in Nat
  BY <1>1, TopType, MeSearchAssumption DEF Tried
<1>5. CASE MakesMe(File) /\ me' = "right" /\ frames' = << >>
  BY <1>5
<1>6. CASE /\ l2 # {} /\ ~MakesMe(File) /\ (Unpacks(File) => ~(a2 + 1 <= NameMax))
           /\ Continue(Tried) /\ me' = "none" /\ dirs' = dirs
  <2>1. File \in l2 /\ ~Unpacks(File)  BY <1>2, <1>4, <1>6, NameFits
  <2>2. ArchiveAt(2, l1, l2 \ {File}, {}, a1, a2 + 1, dirs)  BY <1>2, <1>6, <2>1, PassSecond
  <2>3. Len(frames') = 2 /\ frames'[2] = Tried /\ frames'[1] = frames[1]
    BY <1>1, <1>4, <1>6, Continued
  <2> DEFINE s == l2 \ {File}
             b == a2 + 1
             es == dirs'
  <2>4. frames'[2].list = s /\ frames'[2].a = b  BY <1>4, <2>3
  <2>5. frames'[1].list = l1 /\ frames'[1].a = a1  BY <1>1, <2>3
  <2>6. ArchiveAt(2, l1, s, {}, a1, b, es)  BY <1>6, <2>2
  <2> HIDE DEF s, b, es
  <2>7. ArchiveSearch'  BY <2>3, <2>4, <2>5, <2>6, ArchiveAfter DEF es
  <2> QED  BY <1>6, <2>7
<1>7. CASE FindMeUnpacks /\ me' = "none"
  <2> DEFINE k == a2 + 1
             h == archive[File].holds
             s == l2 \ {File}
             es == dirs'
  <2>1. /\ File \in l2 /\ Unpacks(File) /\ k \in 1..NameMax
        /\ es[k] = Searched(File, k)
        /\ \A j \in 0..NameMax : j # k =>
             \/ es[j] = dirs[j]
             \/ Kindof(File) = "pfs" /\ es[j] = dirs[j] \cup h
        /\ Len(frames') = 3 /\ frames'[1] = frames[1] /\ frames'[2].a = k
        /\ frames'[2].list = s \/ (frames'[2].list = {} /\ Asks(File, k))
        /\ frames'[3] = Loop(k, Searched(File, k))
    BY <1>1, <1>7, Unpacked
  <2>2. Kindof(File) # "pfs"  BY <1>1, <1>3, <2>1, LevelFacts
  <2>3. es[k] = h \cup dirs[k]  BY <2>1, <2>2 DEF Searched, DlExtracted
  <2>4. \A j \in 0..NameMax : j # k => es[j] = dirs[j]  BY <2>1, <2>2
  <2>5. h \cap dirs[k] = {} /\ ArchiveAt(3, l1, s, es[k], a1, k, es)
    BY <1>2, <2>1, <2>3, <2>4, UnpackSecond
  <2>6. frames'[2].list = s  BY <2>1, <2>5 DEF Asks
  <2>7. frames'[3].list = es[k]  BY <2>1 DEF Loop
  <2>8. frames'[1].list = l1 /\ frames'[1].a = a1  BY <1>1, <2>1
  <2> HIDE DEF es, s, k, h
  <2>9. ArchiveSearch'  BY <2>1, <2>5, <2>6, <2>7, <2>8, ArchiveAfter DEF es
  <2> QED  BY <1>7, <2>9
<1>8. CASE FindMeReturns /\ me' = "none" /\ dirs' = dirs
  <2>1. l2 = {}  BY <1>1, <1>8 DEF FindMeReturns
  <2>2. Len(frames') = 1 /\ frames'[1] = frames[1]  BY <1>1, <1>8, Returned
  <2>3. frames'[1].list = l1 /\ frames'[1].a = a1  BY <1>1, <2>2
  <2> DEFINE es == dirs'
  <2>4. ArchiveAt(1, l1, {}, {}, a1, a2, es)  BY <1>2, <1>8, <2>1, EndSecond
  <2> HIDE DEF es
  <2>5. ArchiveSearch'  BY <2>2, <2>3, <2>4, ArchiveAfter DEF es
  <2> QED  BY <1>8, <2>5
<1> QED  BY <1>1, <1>3, <1>5, <1>6, <1>7, <1>8, StepKinds

LEMMA ThirdLoop ==
  ASSUME SearchTypeOK, Named, Orderly, Kindof(Root) # "pfs", me = "none",
         UNCHANGED <<archive, keep>>, find_me,
         NEW l1, NEW l2, NEW l3, NEW a1, NEW a2,
         Waits(3, l1, l2, l3, a1, a2), ArchiveAt(3, l1, l2, l3, a1, a2, dirs)
  PROVE  \/ me' = "right" /\ frames' = << >>
         \/ me' = "none" /\ ArchiveSearch'
<1>1. /\ Len(frames) = 3 /\ Top.list = l3 /\ l3 \subseteq Third
      /\ frames[1].list = l1 /\ frames[1].a = a1
      /\ frames[2].list = l2 /\ frames[2].a = a2
      /\ frames # << >>
  <2>1. /\ Len(frames) = 3 /\ frames[3].list = l3
        /\ frames[2].list = l2 /\ frames[2].a = a2
        /\ frames[1].list = l1 /\ frames[1].a = a1
    BY DEF Waits
  <2>2. Top.list = l3  BY <2>1 DEF Top
  <2>3. l3 \subseteq Third  BY DEF ArchiveAt
  <2>4. frames # << >>  BY <2>1
  <2> QED  BY <2>1, <2>2, <2>3, <2>4
<1>2. Top.list \subseteq Body  BY <1>1 DEF Body
<1>3. /\ Tried \in Frame /\ (l3 # {} => File \in l3)
      /\ Tried.list = l3 \ {File}
  BY <1>1, TopType DEF Tried
<1>4. CASE MakesMe(File) /\ me' = "right" /\ frames' = << >>
  BY <1>4
<1>5. CASE /\ l3 # {} /\ ~MakesMe(File)
           /\ Continue(Tried) /\ me' = "none" /\ dirs' = dirs
  <2>1. Len(frames') = 3 /\ frames'[3] = Tried /\ frames'[1] = frames[1] /\ frames'[2] = frames[2]
    BY <1>1, <1>3, <1>5, Continued
  <2> DEFINE s == l3 \ {File}
             es == dirs'
  <2>2. frames'[3].list = s  BY <1>3, <2>1
  <2>3. /\ frames'[1].list = l1 /\ frames'[1].a = a1
        /\ frames'[2].list = l2 /\ frames'[2].a = a2
    BY <1>1, <2>1
  <2>4. ArchiveAt(3, l1, l2, s, a1, a2, es)  BY <1>3, <1>5, PassThird
  <2> HIDE DEF s, es
  <2>5. ArchiveSearch'  BY <2>1, <2>2, <2>3, <2>4, ArchiveAfter DEF es
  <2> QED  BY <1>5, <2>5
<1>6. CASE FindMeUnpacks
  <2>1. File \in l3 /\ Unpacks(File)  BY <1>1, <1>6, Unpacked
  <2> QED  BY <1>1, <2>1, LevelFacts
<1>7. CASE FindMeReturns /\ me' = "none" /\ dirs' = dirs
  <2>1. l3 = {}  BY <1>1, <1>7 DEF FindMeReturns
  <2>2. Len(frames') = 2 /\ frames'[1] = frames[1] /\ frames'[2] = frames[2]
    BY <1>1, <1>7, Returned
  <2>3. /\ frames'[1].list = l1 /\ frames'[1].a = a1
        /\ frames'[2].list = l2 /\ frames'[2].a = a2
    BY <1>1, <2>2
  <2> DEFINE es == dirs'
  <2>4. ArchiveAt(2, l1, l2, {}, a1, a2, es)  BY <1>7, <2>1, EndThird
  <2> HIDE DEF es
  <2>5. ArchiveSearch'  BY <2>2, <2>3, <2>4, ArchiveAfter DEF es
  <2> QED  BY <1>7, <2>5
<1> QED  BY <1>1, <1>2, <1>4, <1>5, <1>6, <1>7, StepKinds

\* The search of an archive ends only with the wanted ME.
LEMMA ArchiveStep ==
  ASSUME SearchTypeOK, Named, Orderly, Kindof(Root) # "pfs", me = "none",
         UNCHANGED <<archive, keep>>, find_me, ArchiveSearch
  PROVE  \/ me' = "right" /\ frames' = << >>
         \/ me' = "none" /\ ArchiveSearch'
<1>1. PICK n, l1, l2, l3, a1, a2 :
        Waits(n, l1, l2, l3, a1, a2) /\ ArchiveAt(n, l1, l2, l3, a1, a2, dirs)
  BY DEF ArchiveSearch
<1>2. n = 1 \/ n = 2 \/ n = 3
  <2>1. n \in 1..3  BY <1>1 DEF ArchiveAt
  <2> QED  BY <2>1
<1> QED  BY <1>1, <1>2, FirstLoop, SecondLoop, ThirdLoop

-----------------------------------------------------------------------------
(* PFS: what it holds is in every directory that is searched. *)

PfsSearch ==
  /\ frames # << >> /\ Top.list \subseteq Body
  /\ \A k \in 0..NameMax : dirs[k] \subseteq Body
  /\ \/ \E f \in First : MakesMe(f) /\ f \in Top.list
     \/ \E g \in First :
          /\ Unpacks(g) /\ \A h \in Body : Unpacks(h) => h = g
          /\ \E f \in archive[g].holds :
               /\ MakesMe(f)
               /\ \/ f \in Top.list
                  \/ g \in Top.list /\ Top.a + Cardinality(Top.list) <= 1 + Cardinality(First)

LEMMA PfsStep ==
  ASSUME SearchTypeOK, Named, Orderly, Kindof(Root) = "pfs", me = "none",
         UNCHANGED <<archive, keep>>, find_me, PfsSearch
  PROVE  \/ me' = "right" /\ frames' = << >>
         \/ me' = "none" /\ PfsSearch'
<1> DEFINE l == Top.list
           a == Top.a
           n == Len(frames)
<1>1. /\ frames # << >> /\ l \subseteq Body /\ n \in Nat \ {0}
      /\ Tried \in Frame /\ Tried.list = l \ {File} /\ Tried.a = a + 1
      /\ (l # {} => File \in l) /\ l \in SUBSET Files /\ a \in Nat /\ NameMax \in Nat
      /\ \A k \in 0..NameMax : dirs[k] \subseteq Body
  BY TopType, MeSearchAssumption DEF PfsSearch, Tried
<1>2. /\ Body' = Body /\ First' = First /\ archive' = archive
      /\ \A f : (MakesMe(f)' <=> MakesMe(f)) /\ (Unpacks(f)' <=> Unpacks(f))
  BY Fixed
<1>3. /\ First = archive[Root].holds /\ First \subseteq Body
      /\ \A f \in Body : Kindof(f) # "pfs"
      /\ \A f \in Body : Unpacks(f) => archive[f].holds \subseteq Body
  BY LevelFacts DEF Body
<1>4. l # {}
  BY DEF PfsSearch
<1>5. CASE /\ ~MakesMe(File) /\ (Unpacks(File) => ~(a + 1 <= NameMax))
           /\ Continue(Tried) /\ me' = "none" /\ dirs' = dirs
  <2>1. Len(frames') = n /\ frames'[n] = Tried  BY <1>1, <1>5, Continued
  <2>2. Top' = Tried /\ frames' # << >>
    <3>1. Top' = frames'[Len(frames')]  BY DEF Top
    <3>2. frames' # << >>  BY <2>1, <1>1
    <3> QED  BY <3>1, <3>2, <2>1
  <2>3. Top'.list = l \ {File} /\ Top'.a = a + 1  BY <1>1, <2>2
  <2>4. Top'.list \subseteq Body' /\ \A k \in 0..NameMax : dirs'[k] \subseteq Body'
    BY <1>1, <1>2, <1>5, <2>3
  <2>5. CASE \E f \in First : MakesMe(f) /\ f \in l
    <3>1. \E f \in First' : MakesMe(f)' /\ f \in Top'.list  BY <1>2, <1>5, <2>3, <2>5
    <3> QED  BY <1>5, <2>2, <2>4, <3>1 DEF PfsSearch
  <2>6. ASSUME NEW g \in First, Unpacks(g), \A h \in Body : Unpacks(h) => h = g,
               NEW f \in archive[g].holds, MakesMe(f),
               f \in l \/ (g \in l /\ a + Cardinality(l) <= 1 + Cardinality(First))
        PROVE  PfsSearch'
    <3>1. ASSUME g \in l, a + Cardinality(l) <= 1 + Cardinality(First)
          PROVE  g \in Top'.list /\ a + 1 + Cardinality(Top'.list) <= 1 + Cardinality(First)
      <4>1. /\ Cardinality(First) \in Nat /\ Cardinality(Second \cup Third) \in Nat
            /\ 1 + Cardinality(First) + Cardinality(Second \cup Third) <= NameMax
        BY LevelSizes
      <4>2. File \in l  BY <1>1, <1>4
      <4>3. Cardinality(l) \in Nat \ {0} /\ Cardinality(l \ {File}) = Cardinality(l) - 1
        BY <1>1, <4>2, OneLess
      <4>4. a + 1 <= NameMax  BY <1>1, <3>1, <4>1, <4>3
      <4>5. File # g  BY <1>5, <2>6, <4>4
      <4> QED  BY <1>1, <2>3, <3>1, <4>1, <4>3, <4>5
    <3>2. \/ f \in Top'.list
          \/ g \in Top'.list /\ Top'.a + Cardinality(Top'.list) <= 1 + Cardinality(First')
      BY <1>2, <1>5, <2>3, <2>6, <3>1
    <3>3. /\ g \in First' /\ Unpacks(g)' /\ \A h \in Body' : Unpacks(h)' => h = g
          /\ f \in archive'[g].holds /\ MakesMe(f)'
      BY <1>2, <2>6
    <3> QED  BY <2>2, <2>4, <3>2, <3>3 DEF PfsSearch
  <2> QED  BY <1>5, <2>5, <2>6 DEF PfsSearch
<1>6. CASE FindMeUnpacks /\ me' = "none"
  <2> DEFINE k == a + 1
             dest == Searched(File, k)
  <2>1. /\ File \in l /\ Unpacks(File) /\ k \in 1..NameMax
        /\ dirs'[k] = dest
        /\ \A j \in 0..NameMax : j # k =>
             \/ dirs'[j] = dirs[j]
             \/ Kindof(File) = "pfs" /\ dirs'[j] = dirs[j] \cup archive[File].holds
        /\ Len(frames') = n + 1
        /\ frames'[n + 1] = Loop(k, dest)
    BY <1>6, Unpacked
  <2>2. File \in Body /\ Kindof(File) # "pfs"  BY <1>1, <1>3, <2>1
  <2>3. dest = archive[File].holds \cup dirs[k] \cup First
    BY <1>3, <2>2 DEF Searched, DlExtracted
  <2>4. dest \subseteq Body /\ \A j \in 0..NameMax : dirs'[j] \subseteq Body
    <3>1. dirs[k] \subseteq Body  BY <1>1, <2>1
    <3>2. dest \subseteq Body  BY <1>3, <2>1, <2>2, <2>3, <3>1
    <3> HIDE DEF dest, k
    <3> QED  BY <1>1, <2>1, <2>2, <3>2
  <2>5. Top' = Loop(k, dest) /\ frames' # << >>
    <3>1. Top' = frames'[Len(frames')]  BY DEF Top
    <3>2. frames' # << >>  BY <2>1, <1>1
    <3> HIDE DEF dest, k
    <3> QED  BY <3>1, <3>2, <2>1
  <2>6. Top'.list = dest  BY <2>5 DEF Loop
  <2> HIDE DEF dest, k
  <2>7. CASE \E f \in First : MakesMe(f) /\ f \in l
    <3>1. \E f \in First' : MakesMe(f)' /\ f \in Top'.list  BY <1>2, <2>3, <2>6, <2>7
    <3> QED  BY <1>2, <1>6, <2>4, <2>5, <2>6, <3>1 DEF PfsSearch
  <2>8. ASSUME NEW g \in First, Unpacks(g), \A h \in Body : Unpacks(h) => h = g,
               NEW f \in archive[g].holds, MakesMe(f)
        PROVE  PfsSearch'
    <3>1. File = g  BY <2>1, <2>2, <2>8
    <3>2. f \in Top'.list  BY <2>3, <2>6, <2>8, <3>1
    <3>3. /\ g \in First' /\ Unpacks(g)' /\ \A h \in Body' : Unpacks(h)' => h = g
          /\ f \in archive'[g].holds /\ MakesMe(f)'
      BY <1>2, <2>8
    <3> QED  BY <1>2, <2>4, <2>5, <2>6, <3>2, <3>3 DEF PfsSearch
  <2> QED  BY <1>6, <2>7, <2>8 DEF PfsSearch
<1>7. ~FindMeReturns  BY <1>4 DEF FindMeReturns
<1> QED  BY <1>1, <1>5, <1>6, <1>7, StepKinds

-----------------------------------------------------------------------------
(* A search, from its beginning. *)

Searching == IF Kindof(Root) = "pfs" THEN PfsSearch ELSE ArchiveSearch

LEMMA SearchingStep ==
  ASSUME SearchTypeOK, Named, Orderly, me = "none", UNCHANGED <<archive, keep>>,
         find_me, Searching
  PROVE  \/ me' = "right" /\ frames' = << >>
         \/ me' = "none" /\ Searching'
<1>1. Kindof(Root)' = Kindof(Root)  BY DEF Kindof
<1>2. CASE Kindof(Root) = "pfs"
  BY <1>1, <1>2, PfsStep DEF Searching
<1>3. CASE Kindof(Root) # "pfs"
  BY <1>1, <1>3, ArchiveStep DEF Searching
<1> QED  BY <1>2, <1>3

\* In directories that no other search has used.
LEMMA BeginSearching ==
  ASSUME SearchTypeOK, \A k \in 0..NameMax : dirs[k] = {}, Findable, Begin, UNCHANGED <<archive, keep>>
  PROVE  me' = "none" /\ frames' # << >> /\ Searching'
<1> DEFINE fr == [dir |-> 0, a |-> 1, list |-> First]
<1>1. Orderly  BY DEF Findable
<1>2. /\ First \in SUBSET Files /\ First = archive[Root].holds
      /\ \A f \in First : Unpacks(f) => archive[f].holds \subseteq Second
      /\ \A f \in Second : Unpacks(f) => archive[f].holds \subseteq Third
      /\ \A f \in Third : ~Unpacks(f)
      /\ First \cap Second = {} /\ First \cap Third = {}
      /\ First \subseteq Body
  BY <1>1, LevelFacts DEF Body
<1>3. NameMax \in Nat /\ Cardinality(First) \in Nat  BY <1>1, LevelSizes, MeSearchAssumption
<1>4. me' = "none" /\ dirs' = [dirs EXCEPT ![0] = First] /\ frames' = <<fr>>
  BY <1>2 DEF Begin, Loop
<1>5. dirs'[0] = First /\ \A k \in 0..NameMax : k # 0 => dirs'[k] = {}
  BY <1>3, <1>4 DEF SearchTypeOK
<1>6. /\ Len(frames') = 1 /\ frames'[1] = fr /\ frames' # << >>
  BY <1>4
<1>7. frames'[1].list = First /\ frames'[1].a = 1  BY <1>6
<1>8. Kindof(Root)' = Kindof(Root)  BY DEF Kindof
<1>9. CASE Kindof(Root) # "pfs"
  <2> DEFINE es == dirs'
  <2>1. \A f \in First \cup Members(First) : Unpacks(f) =>
          \A k \in 0..NameMax : archive[f].holds \cap es[k] = {}
    <3> SUFFICES ASSUME NEW f \in First \cup Members(First), Unpacks(f), NEW k \in 0..NameMax
                 PROVE  archive[f].holds \cap es[k] = {}
      OBVIOUS
    <3>1. f \in First \cup Second  BY DEF Second
    <3>2. archive[f].holds \subseteq Second \cup Third  BY <1>2, <3>1
    <3>3. es[k] = First \/ es[k] = {}  BY <1>5
    <3> HIDE DEF es
    <3> QED  BY <3>2, <3>3, <1>2
  <2>2. \E f \in First \cup Members(First) \cup Members(Members(First)) : MakesMe(f)
    <3>1. PICK f \in Inside : MakesMe(f)  BY <1>9 DEF Findable
    <3>2. f # Root  BY <1>1, <3>1, MakesOrUnpacks DEF Orderly
    <3>3. f \in First \cup Second \cup Third  BY <3>1, <3>2 DEF Inside
    <3>4. Second = Members(First) /\ Third = Members(Members(First))  BY DEF Second, Third
    <3> QED  BY <3>1, <3>3, <3>4
  <2>3. \A k \in 0..NameMax : 1 < k => es[k] \subseteq Third  BY <1>5
  <2>4. ArchiveAt(1, First, {}, {}, 1, 1, es)
    <3> HIDE DEF es
    <3> QED  BY <1>3, <2>1, <2>2, <2>3, MembersEmpty DEF ArchiveAt
  <2> HIDE DEF es
  <2>5. ArchiveSearch'  BY <1>6, <1>7, <2>4, ArchiveAfter DEF es
  <2> QED  BY <1>4, <1>6, <1>8, <1>9, <2>5 DEF Searching
<1>10. CASE Kindof(Root) = "pfs"
  <2>1. Top' = fr
    <3>1. Top' = frames'[Len(frames')]  BY DEF Top
    <3> QED  BY <3>1, <1>6
  <2>2. Top'.list = First /\ Top'.a = 1  BY <2>1
  <2>3. /\ Body' = Body /\ First' = First /\ archive' = archive
        /\ \A f : (MakesMe(f)' <=> MakesMe(f)) /\ (Unpacks(f)' <=> Unpacks(f))
    BY Fixed
  <2>4. Top'.list \subseteq Body' /\ \A k \in 0..NameMax : dirs'[k] \subseteq Body'
    BY <1>2, <1>5, <2>2, <2>3
  <2>5. CASE \E f \in First : MakesMe(f)
    <3>1. \E f \in First' : MakesMe(f)' /\ f \in Top'.list  BY <2>2, <2>3, <2>5
    <3> QED  BY <1>4, <1>6, <1>8, <1>10, <2>4, <3>1 DEF Searching, PfsSearch
  <2>6. ASSUME NEW g \in First, Unpacks(g),
               \A h \in (First \ {g}) \cup Second : ~Unpacks(h),
               NEW f \in archive[g].holds, MakesMe(f)
        PROVE  PfsSearch'
    <3>1. \A h \in Body : Unpacks(h) => h = g  BY <1>2, <2>6 DEF Body
    <3>2. g \in Top'.list /\ Top'.a + Cardinality(Top'.list) <= 1 + Cardinality(First')
      BY <1>3, <2>2, <2>3
    <3>3. /\ g \in First' /\ Unpacks(g)' /\ \A h \in Body' : Unpacks(h)' => h = g
          /\ f \in archive'[g].holds /\ MakesMe(f)'
      BY <2>3, <2>6, <3>1
    <3> QED  BY <1>6, <2>4, <3>2, <3>3 DEF PfsSearch
  <2> QED  BY <1>4, <1>6, <1>8, <1>10, <2>5, <2>6 DEF Findable, Searching
<1> QED  BY <1>9, <1>10

-----------------------------------------------------------------------------
(* The invariant of a fetch of Intel ME. *)

\* Where the cache has the vendor file, xbget puts it in place; it is extracted
\* only where the cache has none.
Extraction ==
  /\ call = "bin" /\ pc \in {"dest", "verify"} => files["bin"] = "vendor"
  /\ pc = "skip" /\ files["dest"] = "none" => files["bin"] # "vendor"
  /\ pc \in {"extract", "find"} => files["dest"] = "none" /\ files["bin"] # "vendor"
  /\ pc \in {"mkdst", "sum"} => files["dest"] = "none" \/ files["bin"] = "vendor"

\* A search leaves its directories only to requests that find its result in the
\* cache.
Clean ==
  ~used /\ pc \notin {"find", "mkdst", "sum"} /\ files["bin"] # "vendor" =>
    (outcome \in {"none", "ok", "other"} => \A k \in 0..NameMax : dirs[k] = {})

\* What the main URL has delivered is in the cache.
Downloaded ==
  call = "dl" /\ pc # "idle" /\ 1 \in honest =>
    url = 1 /\ (pc \in {"dest", "verify"} => files["dl"] = "archive")

Found ==
  dl_type = "intel_me" /\ ~used /\ Findable =>
    /\ pc = "find" => \/ me = "right" /\ frames = << >>
                      \/ me = "none" /\ frames # << >> /\ Searching
    /\ pc = "mkdst" => me = "right"
    /\ pc = "sum" => files["dest"] = "vendor"

Fetched == Extraction /\ Clean /\ Downloaded /\ Found /\ VendorObtainable

-----------------------------------------------------------------------------
(* Types of the search. *)

LEMMA EmptyType == Empty \in [0..NameMax -> SUBSET Files]
  BY DEF Empty

LEMMA EmptyDirs ==
  ASSUME NEW ds, ds = Empty
  PROVE  \A k \in 0..NameMax : ds[k] = {}
  BY DEF Empty

LEMMA Unsearched ==
  ASSUME archive' \in Archives, me' \in {"none", "right", "wrong"},
         dirs' \in [0..NameMax -> SUBSET Files], frames' = << >>
  PROVE  (SearchTypeOK /\ Named)'
<1>1. frames' \in Seq(Frame) /\ Len(frames') = 0  BY EmptySeq
<1>2. Named'  BY <1>1 DEF Named
<1> QED  BY <1>1, <1>2 DEF SearchTypeOK

LEMMA SearchKept ==
  ASSUME SearchTypeOK, Named, UNCHANGED <<archive, search>>
  PROVE  (SearchTypeOK /\ Named)'
  BY DEF SearchTypeOK, Named, search

LEMMA BeginType ==
  ASSUME SearchTypeOK, Begin, UNCHANGED archive
  PROVE  (SearchTypeOK /\ Named)'
<1> DEFINE fr == [dir |-> 0, a |-> 1, list |-> archive[Root].holds]
<1>1. archive[Root].holds \in SUBSET Files /\ NameMax \in Nat  BY Holds, MeSearchAssumption
<1>2. me' = "none" /\ dirs' = [dirs EXCEPT ![0] = archive[Root].holds] /\ frames' = <<fr>>
  BY DEF Begin, Loop
<1>3. fr \in Frame /\ fr.dir <= fr.a  BY <1>1 DEF Frame
<1>4. dirs' \in [0..NameMax -> SUBSET Files]  BY <1>1, <1>2 DEF SearchTypeOK
<1> HIDE DEF fr
<1>5. frames' \in Seq(Frame) /\ Len(frames') = 1 /\ frames'[1] = fr  BY <1>2, <1>3
<1>6. Named'  BY <1>3, <1>5 DEF Named
<1> QED  BY <1>2, <1>4, <1>5, <1>6 DEF SearchTypeOK

LEMMA SearchTypeStep == SearchTypeOK /\ Named /\ [Next]_vars => (SearchTypeOK /\ Named)'
<1> SUFFICES ASSUME SearchTypeOK, Named, [Next]_vars PROVE (SearchTypeOK /\ Named)'
  OBVIOUS
<1>1. CASE UNCHANGED <<archive, search>>
  BY <1>1, SearchKept
<1>2. CASE Search
  BY <1>2, SearchType DEF Search
<1>3. CASE Extract
  <2>1. UNCHANGED archive /\ (Begin \/ UNCHANGED search)  BY <1>3 DEF Extract
  <2> QED  BY <2>1, BeginType, SearchKept
<1>4. CASE NewInstance /\ archive' \in Archives
  BY <1>4, EmptyType, Unsearched DEF NewInstance
<1>5. CASE OtherBoard
  <2>1. /\ me' \in {"none", "right", "wrong"} /\ frames' = << >> /\ archive' = archive
        /\ \E S \in SUBSET Files : dirs' = [Empty EXCEPT ![2] = S]
    BY <1>5, ForeignAssumption DEF OtherBoard
  <2>2. dirs' \in [0..NameMax -> SUBSET Files]  BY <2>1, EmptyType
  <2> QED  BY <2>1, <2>2, Unsearched DEF SearchTypeOK
<1>6. CASE RequestSubmodule \/ RequestVendor \/ ConfigChange \/ Kill
  BY <1>1, <1>4, <1>6 DEF RequestSubmodule, RequestVendor, Request, SameInstance, ConfigChange,
     Kill, SearchTypeOK
<1>7. CASE UNCHANGED vars
  BY <1>1, <1>7 DEF vars
<1>8. CASE Step /\ ~Search /\ ~Extract
  BY <1>1, <1>8 DEF Step, CheckCached, TryCurl, TryCopy, RefreshDest, VerifyCached, CopyToDest,
     VerifyDest, SkipExtraction, SearchEnded, MkdstCache, MkdstDest, CheckExtracted
<1> QED  BY <1>2, <1>3, <1>5, <1>6, <1>7, <1>8 DEF Next

-----------------------------------------------------------------------------
(* The steps. *)

LEMMA FetchedRequest ==
  ASSUME FetchTypeOK, Commands, Fetched, RequestSubmodule \/ RequestVendor
  PROVE  Fetched'
<1>1. /\ pc = "idle" /\ pc' = "check" /\ url' = 1 /\ outcome' = "none" /\ files' = files
      /\ call' \in {"sub", "dl"}
      /\ \/ outcome \in {"ok", "other"} /\ UNCHANGED <<dirs, used>>
         \/ \A k \in 0..NameMax : dirs'[k] = {}
  BY EmptyDirs DEF RequestSubmodule, RequestVendor, Request, StartXbget, SameInstance, NewInstance, search
<1>2. Clean'  BY <1>1 DEF Clean, Fetched
<1> QED  BY <1>1, <1>2 DEF Fetched, Extraction, Downloaded, Found, VendorObtainable

LEMMA FetchedIdle ==
  ASSUME FetchTypeOK, Fetched, OtherBoard \/ ConfigChange \/ Kill
  PROVE  Fetched'
<1>1. /\ pc' = "idle" /\ outcome' # "err"
      /\ ~used' => \A k \in 0..NameMax : dirs'[k] = {}
  <2>2. CASE OtherBoard
    BY <2>2 DEF OtherBoard, Empty
  <2>3. CASE ConfigChange \/ Kill
    BY <2>3, EmptyDirs DEF ConfigChange, Kill, NewInstance
  <2> QED  BY <2>2, <2>3
<1>2. Clean'  BY <1>1 DEF Clean
<1> QED  BY <1>1, <1>2 DEF Fetched, Extraction, Downloaded, Found, VendorObtainable

LEMMA FetchedXbget ==
  ASSUME FetchTypeOK, Commands, Checked, Fetched,
         CheckCached \/ TryCurl \/ TryCopy \/ RefreshDest \/ VerifyCached
           \/ CopyToDest \/ VerifyDest
  PROVE  Fetched'
<1> USE Arguments DEF BadChecksum, Exists, Goto, End
<1>1. /\ outcome = "none" /\ pc \notin {"find", "mkdst", "sum", "idle"}
      /\ UNCHANGED <<honest, used, dirs, dl_type>>
  BY DEF Commands, CheckCached, TryCurl, TryCopy, RefreshDest, VerifyCached, CopyToDest,
     VerifyDest, search
<1>2. /\ pc' \notin {"extract", "find", "mkdst", "sum"}
      /\ files'["bin"] # "vendor" => files["bin"] # "vendor"
      /\ Extraction' /\ Downloaded'
      /\ outcome' = "err" /\ call' \in {"dl", "bin"} => 1 \notin honest'
  <2> USE <1>1 DEF Fetched, Extraction, Downloaded, Checked, FetchTypeOK, Path, Content
  <2>1. CASE CheckCached
    BY <2>1 DEF CheckCached, Put
  <2>2. CASE TryCurl
    BY <2>2, NextUrlCases DEF TryCurl, Put
  <2>3. CASE TryCopy
    BY <2>3, NextUrlCases DEF TryCopy
  <2>4. CASE RefreshDest
    BY <2>4, AbortCases DEF RefreshDest, Put
  <2>5. CASE VerifyCached
    BY <2>5, NextUrlCases DEF VerifyCached, Put
  <2>6. CASE CopyToDest
    BY <2>6 DEF CopyToDest, Put
  <2>7. CASE VerifyDest
    BY <2>7 DEF VerifyDest, Put, StartXbget
  <2> QED  BY <2>1, <2>2, <2>3, <2>4, <2>5, <2>6, <2>7
<1>3. Clean'  BY <1>1, <1>2 DEF Clean, Fetched
<1> QED  BY <1>2, <1>3 DEF Fetched, Found, VendorObtainable

LEMMA FindMeSearches ==
  ASSUME find_me
  PROVE  frames # << >>
  BY DEF find_me, FindMeDone, FindMeWrites, FindMeLeaves, FindMeUnpacks, FindMeTooLong,
     FindMeNothing, FindMeReturns, Trying

LEMMA FetchedFetch ==
  ASSUME FetchTypeOK, SearchTypeOK, Named, Commands, Fetched,
         SkipExtraction \/ Extract \/ Search \/ SearchEnded \/ MkdstCache \/ MkdstDest
           \/ CheckExtracted
  PROVE  Fetched'
<1> USE DEF Goto, End
<1>1. /\ call = "bin" /\ call' = "bin" /\ outcome = "none" /\ pc # "idle"
      /\ UNCHANGED <<honest, used, dl_type, archive, keep>>
  BY DEF Commands, SkipExtraction, Extract, Search, SearchEnded, MkdstCache, MkdstDest,
     CheckExtracted
<1>2. Downloaded'  BY <1>1 DEF Downloaded
<1>3. Findable' <=> Findable  BY <1>1, Fixed
<1>4. CASE SkipExtraction
  <2>1. Extraction'  BY <1>1, <1>4 DEF SkipExtraction, Fetched, Extraction, Exists
  <2>2. Clean'  BY <1>1, <1>4 DEF SkipExtraction, Fetched, Clean, search
  <2>3. Found' /\ VendorObtainable'  BY <1>1, <1>4 DEF SkipExtraction, Found, VendorObtainable
  <2> QED  BY <1>2, <2>1, <2>2, <2>3 DEF Fetched
<1>5. CASE Extract
  <2>1. Extraction'  BY <1>1, <1>5 DEF Extract, Fetched, Extraction
  <2>2. Clean'  BY <1>1, <1>5 DEF Extract, Fetched, Clean
  <2>3. ASSUME dl_type = "intel_me", ~used, Findable
        PROVE  pc' = "find" /\ me' = "none" /\ frames' # << >> /\ Searching'
    <3>1. Unpacks(Root)  BY <2>3 DEF Findable, Orderly
    <3>2. \A k \in 0..NameMax : dirs[k] = {}
      BY <1>1, <1>5, <2>3 DEF Extract, Fetched, Extraction, Clean
    <3>3. pc' = "find" /\ Begin  BY <1>5, <2>3, <3>1 DEF Extract
    <3> QED  BY <1>1, <2>3, <3>2, <3>3, BeginSearching
  <2>4. Found'  BY <1>1, <1>3, <2>3 DEF Found
  <2>5. VendorObtainable'
    <3>1. outcome' = "err" => pc' = "idle"  BY <1>1, <1>5 DEF Extract
    <3> QED  BY <1>1, <1>3, <2>3, <3>1 DEF VendorObtainable
  <2> QED  BY <1>2, <2>1, <2>2, <2>4, <2>5 DEF Fetched
<1>6. CASE Search
  <2>1. pc = "find" /\ UNCHANGED <<files, pc, outcome>>  BY <1>6 DEF Search
  <2>2. Extraction' /\ Clean'  BY <1>1, <2>1 DEF Fetched, Extraction, Clean
  <2>3. ASSUME dl_type = "intel_me", ~used, Findable
        PROVE  \/ me' = "right" /\ frames' = << >>
               \/ me' = "none" /\ frames' # << >> /\ Searching'
    <3>1. find_me /\ frames # << >>  BY <1>6, FindMeSearches DEF Search
    <3>2. me = "none" /\ Searching  BY <2>1, <2>3, <3>1 DEF Fetched, Found
    <3>3. \/ me' = "right" /\ frames' = << >>
          \/ me' = "none" /\ Searching'
      BY <1>1, <2>3, <3>1, <3>2, SearchingStep DEF Findable
    <3>4. Searching' => frames' # << >>
      BY EmptySeq DEF Searching, PfsSearch, ArchiveSearch, Waits, ArchiveAt
    <3> QED  BY <3>3, <3>4
  <2>4. Found'  BY <1>1, <1>3, <2>1, <2>3 DEF Found
  <2>5. VendorObtainable'  BY <1>1, <2>1 DEF VendorObtainable
  <2> QED  BY <1>2, <2>2, <2>4, <2>5 DEF Fetched
<1>7. CASE SearchEnded
  <2>1. Extraction'  BY <1>1, <1>7 DEF SearchEnded, Fetched, Extraction
  <2>2. Clean'  BY <1>1, <1>7 DEF SearchEnded, Clean
  <2>3. Found' /\ VendorObtainable'
    BY <1>1, <1>3, <1>7 DEF SearchEnded, search, Fetched, Found, VendorObtainable
  <2> QED  BY <1>2, <2>1, <2>2, <2>3 DEF Fetched
<1>8. CASE MkdstCache \/ MkdstDest
  <2>1. Extraction'
    BY <1>1, <1>8 DEF MkdstCache, MkdstDest, Put, Fetched, Extraction, FetchTypeOK, Path, Content
  <2>2. Clean'  BY <1>1, <1>8 DEF MkdstCache, MkdstDest, Clean
  <2>3. Found'
    BY <1>1, <1>3, <1>8
    DEF MkdstCache, MkdstDest, Put, search, Fetched, Found, FetchTypeOK, Path, Content
  <2>4. VendorObtainable'  BY <1>1, <1>8 DEF MkdstCache, MkdstDest, VendorObtainable
  <2> QED  BY <1>2, <2>1, <2>2, <2>3, <2>4 DEF Fetched
<1>9. CASE CheckExtracted
  <2>1. Extraction' /\ Found'  BY <1>9 DEF CheckExtracted, Extraction, Found
  <2>2. Clean'
    BY <1>1, <1>9 DEF CheckExtracted, Put, Fetched, Extraction, Clean, FetchTypeOK, Path, Content
  <2>3. VendorObtainable'
    BY <1>1, <1>3, <1>9 DEF CheckExtracted, Fetched, Found, VendorObtainable
  <2> QED  BY <1>2, <2>1, <2>2, <2>3 DEF Fetched
<1> QED  BY <1>4, <1>5, <1>6, <1>7, <1>8, <1>9

-----------------------------------------------------------------------------
FetchInv == IInv /\ SearchTypeOK /\ Named /\ Fetched

LEMMA FetchInit == Init => FetchInv
<1> SUFFICES ASSUME Init PROVE FetchInv  OBVIOUS
<1>1. IInv  BY InitInvariant
<1>2. SearchTypeOK /\ Named
  <2>1. /\ archive \in Archives /\ me = "none" /\ dirs = Empty /\ frames = << >>
        /\ Len(frames) = 0
    BY DEF Init
  <2>2. dirs \in [0..NameMax -> SUBSET Files]  BY <2>1, EmptyType
  <2>3. Named  BY <2>1 DEF Named
  <2>4. frames \in Seq(Frame)  BY <2>1, EmptySeq
  <2> QED  BY <2>1, <2>2, <2>3, <2>4 DEF SearchTypeOK
<1>3. Fetched
  BY EmptyDirs DEF Init, Fetched, Extraction, Clean, Downloaded, Found, VendorObtainable
<1> QED  BY <1>1, <1>2, <1>3 DEF FetchInv

LEMMA FetchStutters ==
  ASSUME Fetched, UNCHANGED vars
  PROVE  Fetched'
<1>1. UNCHANGED <<files, pc, call, url, outcome, honest, stale, archive, keep, dl_type, used,
                  me, dirs, frames>>
  BY DEF vars, search
<1>2. Findable' <=> Findable  BY <1>1, Fixed
<1>3. Searching => Searching'
  <2>1. /\ Body' = Body /\ First' = First /\ Second' = Second /\ Third' = Third
        /\ \A S : Members(S)' = Members(S)
        /\ \A f : (MakesMe(f)' <=> MakesMe(f)) /\ (Unpacks(f)' <=> Unpacks(f))
    BY <1>1, Fixed
  <2>2. PfsSearch' <=> PfsSearch  BY <1>1, <2>1 DEF PfsSearch, Top
  <2>3. ArchiveSearch => ArchiveSearch'
    <3> SUFFICES ASSUME NEW n, NEW l1, NEW l2, NEW l3, NEW a1, NEW a2,
                        Waits(n, l1, l2, l3, a1, a2), ArchiveAt(n, l1, l2, l3, a1, a2, dirs)
                 PROVE  ArchiveSearch'
      BY DEF ArchiveSearch
    <3> QED  BY <1>1, ArchiveAfter DEF Waits
  <2>4. Kindof(Root)' = Kindof(Root)  BY <1>1 DEF Kindof
  <2> QED  BY <2>2, <2>3, <2>4 DEF Searching
<1>4. Found'  BY <1>1, <1>2, <1>3 DEF Fetched, Found
<1>5. VendorObtainable'  BY <1>1, <1>2 DEF Fetched, VendorObtainable
<1>6. Extraction' /\ Clean' /\ Downloaded'
  BY <1>1 DEF Fetched, Extraction, Clean, Downloaded
<1> QED  BY <1>4, <1>5, <1>6 DEF Fetched

LEMMA FetchInductive == FetchInv /\ [Next]_vars => FetchInv'
<1> SUFFICES ASSUME FetchInv, [Next]_vars PROVE FetchInv'  OBVIOUS
<1>1. /\ FetchTypeOK /\ Commands /\ Checked /\ SearchTypeOK /\ Named /\ Fetched
      /\ IInv'
  BY Inductive DEF FetchInv, IInv
<1>2. (SearchTypeOK /\ Named)'  BY <1>1, SearchTypeStep
<1>3. Fetched'
  BY <1>1, FetchedRequest, FetchedIdle, FetchedXbget, FetchedFetch, FetchStutters DEF Next, Step
<1> QED  BY <1>1, <1>2, <1>3 DEF FetchInv

\* Where the main URL delivers, the wanted Intel ME is found in any archive that
\* Findable describes and delivered, unless another board's files are searched
\* with it.
THEOREM VendorObtainableCorrect == Spec => []VendorObtainable
<1>1. FetchInv => VendorObtainable  BY DEF FetchInv, Fetched
<1> QED  BY <1>1, FetchInit, FetchInductive, PTL DEF Spec

\* All variables of xbget, of fetch and of the search keep their types.
THEOREM TypeCorrect == Spec => []TypeOK
<1>1. FetchInv => TypeOK  BY DEF FetchInv, IInv, TypeOK
<1> QED  BY <1>1, FetchInit, FetchInductive, PTL DEF Spec
=============================================================================
