----------------------------- MODULE XbmkProofs -----------------------------
(***************************************************************************)
(* Proofs about the scripts' instances and the images they make.           *)
(*                                                                         *)
(* XbmkInit, for any set of parents and any bounds: type correctness; and, *)
(* when no two parents open the lock at the same time, at most one         *)
(* instance works in the directory, and the lock names it.                 *)
(*                                                                         *)
(* RomImages, for any boards, configs and keymaps, and any number of       *)
(* upsets: a build that ends well leaves all images that it was asked for  *)
(* (ImagesAsConfigured); an image starts what its name says                *)
(* (BootsAsNamed); and nothing that is released has vendor files in it,    *)
(* is torn or is missing (ReleasedClean).  The inductive invariant is made *)
(* of RomInv (the shell's variables in the middle of a config), Made and   *)
(* Pending (which images are still to come), Sources, CloneImages,         *)
(* Archives and Archived (what a release has packed so far).               *)
(*                                                                         *)
(* The two modules share this one, so the names of RomImages do not clash  *)
(* with those of XbmkInit (RomInit, stage).                                *)
(***************************************************************************)
EXTENDS XbmkInit, RomImages, FiniteSetTheorems, SequenceTheorems, TLAPS

(***************************************************************************)
(* The inductive invariant behind RunnerHoldsLock.                         *)
(***************************************************************************)

\* A parent that got past chmod owns a read-only lock until it removes it.
HolderLock ==
  \A p \in Parents : pc[p] \in Holding => lockfile = p /\ readonly

\* A parent between opening the lock and chmod writes to the current file,
\* which is still writable, and is alone to do so.
OpenerLock ==
  /\ \A p \in Parents : pc[p] = "opened" =>
       lockfile = "empty" /\ ~readonly /\ p \in writers
  /\ \A p \in Parents : pc[p] = "written" => lockfile = p /\ ~readonly
  /\ \A p, q \in Parents :
       pc[p] \in {"opened", "written"} /\ pc[q] \in {"opened", "written"} => p = q

\* Only a waiting parent, or one that was killed alone, has children.
KidsOfWaiting ==
  \A p \in Parents : kids[p] # << >> => pc[p] \in {"wait", "orphan"}

\* The temporary directory lives from mktemp to the end of the command.
HolderTmp ==
  \A p \in Parents : pc[p] \in {"wait", "orphan"} => p \in tmpdirs

ExecTmp == \A p \in Parents :
  pc[p] \in {"tmp", "opened", "written", "setup", "python", "git", "exec"} => p \in tmpdirs

IInv == TypeOK /\ HolderLock /\ OpenerLock /\ KidsOfWaiting /\ HolderTmp /\ ExecTmp

-----------------------------------------------------------------------------
(* Type correctness. *)

\* The three ways a stack of children changes at its inner end keep it a
\* stack of children (RunNested, SetInner, EndInner).
LEMMA KidStack ==
  ASSUME NEW s \in Seq(Kid), s # << >>
  PROVE  /\ Append(s, "check") \in Seq(Kid)
         /\ \A k \in Kid : [s EXCEPT ![Len(s)] = k] \in Seq(Kid)
         /\ SubSeq(s, 1, Len(s) - 1) \in Seq(Kid)
  <1>1. Append(s, "check") \in Seq(Kid)
    BY DEF Kid
  <1>2. \A k \in Kid : [s EXCEPT ![Len(s)] = k] \in Seq(Kid)
    BY ExceptSeq
  <1>3. SubSeq(s, 1, Len(s) - 1) \in Seq(Kid)
    <2>1. Len(s) \in Nat /\ 1 \in 1..(Len(s) + 1) /\ Len(s) - 1 \in (1-1)..Len(s)
      BY EmptySeq, LenProperties
    <2>2. QED
      BY <2>1, SubSeqProperties
  <1>4. QED
    BY <1>1, <1>2, <1>3

\* The stacks an instance starts and ends with.
LEMMA SmallStacks == << >> \in Seq(Kid) /\ <<"check">> \in Seq(Kid)
  <1>1. << >> \in Seq(Kid)
    BY EmptySeq
  <1>2. "check" \in Kid
    BY DEF Kid
  <1>3. QED
    BY <1>1, <1>2

LEMMA TypeCorrectInit == Init => TypeOK
  <1> SUFFICES ASSUME Init PROVE TypeOK
    OBVIOUS
  <1>1. kids \in [Parents -> Seq(Kid)]
    BY SmallStacks DEF Init
  <1>2. pc \in [Parents -> Starting \cup Holding \cup Ended]
    BY DEF Init, Starting
  <1>3. calls \in [Parents -> Nat]
    BY DEF Init
  <1>4. QED
    BY <1>1, <1>2, <1>3 DEF Init, TypeOK

\* Every variable keeps its type: in particular a lock only ever names a
\* parent, and a stack of children is never popped below empty.
THEOREM TypeCorrect == Spec => []TypeOK
  <1>1. Init => TypeOK
    BY TypeCorrectInit
  <1>2. TypeOK /\ [Next]_vars => TypeOK'
    <2> SUFFICES ASSUME TypeOK, [Next]_vars PROVE TypeOK'
      OBVIOUS
    <2> USE DEF TypeOK, Starting, Holding, Ended, lockVars, Goto
    <2>1. ASSUME NEW p \in Parents, ParentStep(p) PROVE TypeOK'
      <3>1. CASE RunChild(p)
        BY <3>1, SmallStacks DEF RunChild
      <3>2. CASE ~RunChild(p)
        BY <2>1, <3>2 DEF ParentStep, MakeTmp, OpenLock, LockRefused,
           WriteLock, ProtectLock, MakeDirs, LinkPython, GitInit, ChildEnded,
           RemoveTmp, RemoveLock, ParentErr
      <3>3. QED BY <3>1, <3>2
    <2>2. ASSUME NEW p \in Parents, ChildStep(p) PROVE TypeOK'
      <3>1. kids[p] # << >> /\ kids[p] \in Seq(Kid)
        BY <2>2 DEF ChildStep, CheckLock, RunTrees, RunCommand, RunNested,
           Return, ChildErr, Working
      <3>2. kids' \in [Parents -> Seq(Kid)]
        <4>1. PICK s \in Seq(Kid) : kids' = [kids EXCEPT ![p] = s]
          <5>1. << >> \in Seq(Kid) BY SmallStacks
          <5>2. "run" \in Kid /\ "trees" \in Kid /\ "cmd" \in Kid BY DEF Kid
          <5>3. QED
            BY <2>2, <3>1, <5>1, <5>2, KidStack DEF ChildStep, CheckLock,
               RunTrees, RunCommand, RunNested, Return, ChildErr, SetInner,
               EndInner, EndAll, Depth
        <4>2. QED BY <4>1
      <3>3. calls' \in [Parents -> Nat]
        BY <2>2 DEF ChildStep, CheckLock, RunTrees, RunCommand, RunNested,
           Return, ChildErr
      <3>4. lockfile' \in {"absent", "empty"} \cup Parents /\ readonly' \in BOOLEAN
            /\ writers' \subseteq Parents /\ tmpdirs' \subseteq Parents
            /\ pylinks' \subseteq Parents
            /\ pc' \in [Parents -> Starting \cup Holding \cup Ended]
        BY <2>2 DEF ChildStep, CheckLock, RunTrees, RunCommand, RunNested,
           Return, ChildErr, ChildUnchanged
      <3>5. QED BY <3>2, <3>3, <3>4
    <2>3. ASSUME NEW p \in Parents, Kill(p) \/ KillParent(p) \/ OrphansEnded(p)
          PROVE TypeOK'
      BY ZenonT(30), <2>3, SmallStacks DEF Kill, KillParent, OrphansEnded, EndAll
    <2>4. CASE UserUnlock \/ UNCHANGED vars
      BY <2>4 DEF UserUnlock, vars
    <2> QED
      BY <2>1, <2>2, <2>3, <2>4 DEF Next
  <1>3. QED
    BY <1>1, <1>2, PTL DEF Spec

-----------------------------------------------------------------------------
(* One instance at a time. *)

LEMMA InitIInv == Init => IInv
  <1>1. Init => HolderLock /\ OpenerLock /\ KidsOfWaiting /\ HolderTmp /\ ExecTmp
    BY DEF Init, HolderLock, OpenerLock, KidsOfWaiting, HolderTmp, ExecTmp, Holding
  <1>2. QED
    BY <1>1, TypeCorrectInit DEF IInv

\* A step of a parent.  The interesting ones: OpenLock finds no holder,
\* because a holder's lock is present and read-only, and no other opener, by
\* the assumption; RemoveLock removes the lock of the only holder.
LEMMA ParentStepIInv ==
  ASSUME ~OverlappingStarts, IInv, TypeOK', NEW p \in Parents, ParentStep(p)
  PROVE  IInv'
  <1> USE ParentsAssumption DEF IInv, TypeOK, Starting, Holding, Ended, lockVars, Goto
  <1> DEFINE A == \/ MakeTmp(p) \/ OpenLock(p) \/ LockRefused(p) \/ WriteLock(p)
                  \/ ProtectLock(p) \/ MakeDirs(p) \/ LinkPython(p) \/ GitInit(p)
                  \/ RunChild(p) \/ ChildEnded(p) \/ RemoveTmp(p) \/ RemoveLock(p)
                  \/ ParentErr(p)
  <1>1. A
    BY DEF ParentStep
  <1> USE DEF MakeTmp, OpenLock, LockRefused, WriteLock, ProtectLock, MakeDirs,
      LinkPython, GitInit, RunChild, ChildEnded, RemoveTmp, RemoveLock, ParentErr
  <1>2. HolderLock'
    BY <1>1 DEF HolderLock, OpenerLock
  <1>3. OpenerLock'
    <2>1. CASE OpenLock(p)
      BY <2>1 DEF OpenerLock
    <2>2. CASE WriteLock(p)
      BY <2>2 DEF OpenerLock
    <2>3. CASE ProtectLock(p)
      BY <2>3 DEF OpenerLock
    <2>4. CASE RemoveLock(p)
      BY <2>4 DEF OpenerLock, HolderLock
    <2>5. CASE ParentErr(p)
      <3>1. \A q \in Parents : q # p => pc'[q] = pc[q] /\ (q \in writers => q \in writers')
        BY <2>5
      <3>2. pc'[p] = "failed" /\ lockfile' = lockfile /\ readonly' = readonly
        BY <2>5
      <3>3. QED
        BY <3>1, <3>2 DEF OpenerLock
    <2>6. CASE MakeTmp(p) \/ LockRefused(p) \/ MakeDirs(p) \/ LinkPython(p)
      BY <2>6 DEF OpenerLock
    <2>7. CASE GitInit(p) \/ RunChild(p) \/ ChildEnded(p) \/ RemoveTmp(p)
      <3>1. UNCHANGED lockVars /\ \A q \in Parents : q # p => pc'[q] = pc[q]
        BY <2>7
      <3>2. pc'[p] \in {"exec", "wait", "cleanup", "unlock"}
        BY <2>7
      <3>3. QED
        BY <3>1, <3>2 DEF OpenerLock
    <2>8. QED
      BY <1>1, <2>1, <2>2, <2>3, <2>4, <2>5, <2>6, <2>7
  <1>4. KidsOfWaiting'
    <2>1. CASE RunChild(p)
      <3>1. pc'[p] = "wait" /\ \A q \in Parents : q # p => pc'[q] = pc[q] /\ kids'[q] = kids[q]
        BY <2>1
      <3>2. QED
        BY <3>1 DEF KidsOfWaiting
    <2>2. CASE A /\ ~RunChild(p)
      <3>1. pc[p] # "orphan" /\ (pc[p] = "wait" => kids[p] = << >>) /\ kids' = kids
        BY <2>2
      <3>2. \A q \in Parents : q # p => pc'[q] = pc[q]
        BY <2>2
      <3>3. kids'[p] = << >>
        BY <3>1 DEF KidsOfWaiting
      <3>4. QED
        BY <3>1, <3>2, <3>3 DEF KidsOfWaiting
    <2>3. QED
      BY <1>1, <2>1, <2>2
  <1>5. HolderTmp' /\ ExecTmp'
    <2>1. \A q \in Parents : q # p => pc'[q] = pc[q] /\ (q \in tmpdirs => q \in tmpdirs')
      BY <1>1
    <2>2. CASE RemoveTmp(p)
      <3>1. pc'[p] = "unlock"
        BY <2>2
      <3>2. QED
        BY <2>1, <3>1 DEF HolderTmp, ExecTmp
    <2>3. CASE MakeTmp(p) \/ MakeDirs(p)
      <3>1. p \in tmpdirs'
        BY <2>3
      <3>2. QED
        BY <2>1, <3>1 DEF HolderTmp, ExecTmp
    <2>4. CASE A /\ ~RemoveTmp(p) /\ ~MakeTmp(p) /\ ~MakeDirs(p)
      <3>1. p \in tmpdirs => p \in tmpdirs'
        BY <2>4
      <3>2. pc'[p] \in {"wait", "opened", "written", "setup", "python", "git", "exec"} =>
              pc[p] \in {"tmp", "opened", "written", "setup", "python", "git", "exec"}
        BY <2>4
      <3>3. pc'[p] \notin {"tmp", "orphan"}
        BY <2>4
      <3>4. QED
        BY <2>1, <3>1, <3>2, <3>3 DEF HolderTmp, ExecTmp
    <2>5. QED
      BY <1>1, <2>2, <2>3, <2>4
  <1>6. QED
    BY <1>2, <1>3, <1>4, <1>5

\* A step of a child changes neither the lock nor its parent.
LEMMA ChildStepIInv ==
  ASSUME IInv, TypeOK', NEW p \in Parents, ChildStep(p)
  PROVE  IInv'
  <1>1. UNCHANGED <<lockfile, readonly, writers, tmpdirs, pc>>
    BY DEF ChildStep, CheckLock, RunTrees, RunCommand, RunNested, Return,
       ChildErr, ChildUnchanged, lockVars
  <1>2. kids[p] # << >> /\ \A q \in Parents : q # p => kids'[q] = kids[q]
    BY DEF ChildStep, CheckLock, RunTrees, RunCommand, RunNested, Return,
       ChildErr, Working, SetInner, EndInner, EndAll, IInv, TypeOK
  <1>3. KidsOfWaiting'
    BY <1>1, <1>2 DEF KidsOfWaiting, IInv
  <1>4. QED
    BY <1>1, <1>3 DEF IInv, HolderLock, OpenerLock, HolderTmp, ExecTmp

\* A killed instance holds no lock any more and has no children.
LEMMA EnvironmentIInv ==
  ASSUME IInv, TypeOK',
         \/ \E p \in Parents : Kill(p) \/ KillParent(p) \/ OrphansEnded(p)
         \/ UserUnlock
  PROVE  IInv'
  <1> USE DEF IInv, TypeOK, Starting, Holding, Ended, lockVars, Goto, EndAll
  <1>1. ASSUME NEW p \in Parents, Kill(p) \/ KillParent(p) \/ OrphansEnded(p)
        PROVE  HolderLock' /\ OpenerLock' /\ KidsOfWaiting' /\ HolderTmp' /\ ExecTmp'
    <2> USE <1>1 DEF Kill, KillParent, OrphansEnded
    <2>1. HolderLock'
      BY DEF HolderLock
    <2>2. OpenerLock'
      <3>1. \A q \in Parents : q # p => pc'[q] = pc[q] /\ (q \in writers => q \in writers')
        OBVIOUS
      <3>2. pc'[p] \in {"killed", "orphan"} /\ lockfile' = lockfile /\ readonly' = readonly
        OBVIOUS
      <3>3. QED
        BY <3>1, <3>2 DEF OpenerLock
    <2>3. KidsOfWaiting'
      BY DEF KidsOfWaiting
    <2>4. HolderTmp' /\ ExecTmp'
      BY DEF HolderTmp, ExecTmp
    <2>5. QED
      BY <2>1, <2>2, <2>3, <2>4
  <1>2. CASE UserUnlock
    BY <1>2 DEF UserUnlock, HolderLock, OpenerLock, KidsOfWaiting, HolderTmp, ExecTmp
  <1>3. QED
    BY <1>1, <1>2

THEOREM IInvCorrect == ASSUME ~OverlappingStarts PROVE Spec => []IInv
  <1>1. IInv /\ TypeOK' /\ [Next]_vars => IInv'
    <2> SUFFICES ASSUME IInv, TypeOK', [Next]_vars PROVE IInv'
      OBVIOUS
    <2>1. CASE UNCHANGED vars
      BY <2>1 DEF vars, IInv, HolderLock, OpenerLock, KidsOfWaiting, HolderTmp, ExecTmp
    <2>2. QED
      BY <2>1, ParentStepIInv, ChildStepIInv, EnvironmentIInv DEF Next
  <1>2. QED
    BY <1>1, InitIInv, TypeCorrect, PTL DEF Spec

LEMMA IInvRunner == IInv => RunnerHoldsLock /\ OneBuild
  BY DEF IInv, HolderLock, KidsOfWaiting, HolderTmp, RunnerHoldsLock, OneBuild,
     Running, Holding

\* While an instance runs commands the lock names it, is read-only, and its
\* temporary directory exists: for any number of instances and any nesting,
\* provided that no two of them open the lock at the same moment.
THEOREM RunnerHoldsLockCorrect ==
  ASSUME ~OverlappingStarts PROVE Spec => []RunnerHoldsLock
  BY IInvCorrect, IInvRunner, PTL

\* Under the same proviso the lock keeps two instances from running commands
\* in one work directory, whatever is killed and whenever.
THEOREM OneBuildCorrect == ASSUME ~OverlappingStarts PROVE Spec => []OneBuild
  BY IInvCorrect, IInvRunner, PTL

-----------------------------------------------------------------------------
(***************************************************************************)
(* RomImages.                                                              *)
(***************************************************************************)
(* Files of a directory or an image. *)

Lookup(f, n) == IF n \in DOMAIN f THEN f[n] ELSE ""

LEMMA LookupOver ==
  ASSUME NEW new, NEW old, NEW n
  PROVE  /\ n \in DOMAIN new => Lookup(new ++ old, n) = Lookup(new, n)
         /\ n \notin DOMAIN new => Lookup(new ++ old, n) = Lookup(old, n)
  BY DEF Lookup, ++

LEMMA LookupFile ==
  ASSUME NEW m, NEW what, NEW n
  PROVE  /\ n = m => Lookup(File(m, what), n) = what
         /\ n # m => Lookup(File(m, what), n) = ""
         /\ DOMAIN File(m, what) = {m}
  BY DEF Lookup, File

LEMMA LookupEmpty ==
  ASSUME NEW n
  PROVE  Lookup(Empty, n) = "" /\ DOMAIN Empty = {}
  BY DEF Lookup, Empty

LEMMA OverDomain ==
  ASSUME NEW new, NEW old
  PROVE  DOMAIN (new ++ old) = DOMAIN new \cup DOMAIN old
  BY DEF ++

-----------------------------------------------------------------------------
(* The stages of a config, and the invariant. *)

Mid == {"payload", "seabios", "seauboot", "seagrub", "keymaps"}

Menu == {"seabios", "seauboot", "seagrub", "keymaps"}

Payloads == [seabios : BOOLEAN, grub : BOOLEAN, grubsea : BOOLEAN,
             uboot : X86 \cup {"", "arm64", "other"}]

RomType ==
  /\ board \in [Targets -> Boards]
  /\ task \in {"build", "release", "src"}
  /\ stage \in {"idle", "fetch", "prune", "tarball", "dry", "targets", "configs",
                "nuke", "publish"} \cup Mid
  /\ target \in Targets /\ todo \in Seq(Targets) /\ configs \in Seq(Configs)
  /\ payload \in Payloads /\ keymaps \in Seq(STRING)
  /\ stage \in Mid => conf \in Configs
  /\ bin = [d \in {"work", "clone"} |-> [t \in Targets |-> bin[d][t]]]

\* Which config is being made.
Place ==
  LET cs   == board[target].configs
      made == Len(cs) - Len(configs)
  IN  stage \in Mid \cup {"configs"} =>
        /\ made >= 0
        /\ \A i \in 1..Len(configs) : configs[i] = cs[made + i]
        /\ stage \in Mid => made >= 1 /\ conf = cs[made]

\* The variables of the shell are what the board's configuration makes them,
\* whatever earlier configs and boards left in them.
Settled ==
  LET b == board[target]
  IN  /\ stage \in Mid =>
           /\ payload.grub = b.grub /\ payload.uboot = b.uboot /\ b.uboot # "other"
           /\ payload.grubsea = (b.grubsea /\ b.grub /\ conf.init # "normal")
           /\ payload.seabios = (b.seabios \/ b.grub \/ b.uboot \in X86)
           /\ payload.seabios => b.uboot # "arm64"
      /\ stage = "configs" /\ configs # <<>> =>
           /\ payload.grub = b.grub /\ payload.uboot = b.uboot
           /\ (payload.grubsea /\ b.grub) = (b.grubsea /\ b.grub)
           /\ b.seabios => payload.seabios
           /\ payload.seabios => b.seabios \/ b.grub \/ b.uboot \notin {"", "arm64"}
      /\ stage \in Menu => payload.seabios /\ conf.none
      /\ stage = "keymaps" =>
           /\ payload.grub /\ keymaps # <<>> /\ Range(keymaps) \subseteq Range(Keymaps)
           /\ pname = IF payload.grubsea THEN "grub" ELSE "seagrub"

\* The image in the making.
Coreboot == File("coreboot", <<board[target], conf>>)

Tmprom ==
  /\ stage = "payload" => tmprom = Coreboot
  /\ stage \in {"seabios", "seauboot", "seagrub"} => tmprom = seabios_files ++ Coreboot
  /\ stage = "keymaps" =>
       tmprom = (IF payload.grubsea THEN Empty ELSE File("bootorder", "img/grub2"))
                  ++ (seabios_files ++ Coreboot)

RomInv == RomType /\ Place /\ Settled /\ Tmprom

LEMMA BoardType ==
  ASSUME RomType
  PROVE  /\ board[target] \in Boards
         /\ board[target].configs \in Seq(Configs) /\ board[target].configs # <<>>
         /\ board[target].seabios \in BOOLEAN /\ board[target].grub \in BOOLEAN
         /\ board[target].grubsea \in BOOLEAN
         /\ board[target].releasable \in BOOLEAN
         /\ board[target].uboot \in X86 \cup {"", "arm64", "other"}
  <1>1. board[target] \in Boards
    BY DEF RomType
  <1>2. QED
    BY <1>1, RomAssumption

-----------------------------------------------------------------------------
(* What the actions have in common. *)

\* Copying an image leads to the next stage or ends the run; bin/ has one image
\* more, or another one of that name.
Copied(p, keymap, image) ==
  bin' = [bin EXCEPT ![where][target] =
            File([p |-> p, init |-> conf.init, display |-> conf.display, keymap |-> keymap],
                 image) ++ @]

ImageOf(new) == [files |-> new ++ tmprom,
                 vendor |-> IF board[target].vendor THEN "in" ELSE "none"]

LEMMA CpromCases ==
  ASSUME NEW p, NEW keymap, NEW new, NEW next, cprom(p, keymap, new, next)
  PROVE  \/ stage' = next /\ status' = status /\ Copied(p, keymap, ImageOf(new)) /\ upsets' = upsets
         \/ stage' = "idle" /\ status' = "err" /\ Copied(p, keymap, Torn)
         \/ stage' = "idle" /\ status' = "err" /\ bin' = bin
  BY DEF cprom, Proceed, Exit, Copied, ImageOf

LEMMA CopiedType ==
  ASSUME RomType, NEW p, NEW keymap, NEW image, Copied(p, keymap, image)
  PROVE  bin' = [d \in {"work", "clone"} |-> [t \in Targets |-> bin'[d][t]]]
  BY DEF RomType, Copied

\* The actions that copy an image, which change nothing but bin/, the names and
\* the stage.
Copying == \/ cprom_seabios \/ cprom_seauboot \/ cprom_keymap \/ cprom_uboot \/ cprom_custom

LEMMA CopyingCases ==
  ASSUME RomType, Copying
  PROVE  /\ UNCHANGED <<board, clone, tar, source, roms, published, run, loops, payload,
                        conf, tmprom>>
         /\ bin' = [d \in {"work", "clone"} |-> [t \in Targets |-> bin'[d][t]]]
         /\ \/ stage' = "idle" /\ status' = "err"
            \/ stage = "seabios" /\ stage' = "seauboot"
            \/ stage = "seauboot" /\ stage' = "seagrub"
            \/ stage = "keymaps" /\ stage' = "keymaps" /\ keymaps' # <<>>
            \/ stage = "keymaps" /\ stage' = "configs"
            \/ stage = "payload" /\ stage' = "configs"
         /\ keymaps' = IF stage = "keymaps" THEN Tail(keymaps) ELSE keymaps
         /\ stage = "keymaps" => pname' = pname
         /\ stage \in Mid
  <1>0. stage \in Mid
    BY DEF Copying, Mid, cprom_seabios, cprom_seauboot, cprom_keymap, cprom_uboot, cprom_custom
  <1>1. CASE cprom_seabios
    BY <1>0, <1>1, CpromCases, CopiedType
    DEF cprom_seabios, unnamed, add_nothing, Proceed, RomType
  <1>2. CASE cprom_seauboot
    BY <1>0, <1>2, CpromCases, CopiedType
    DEF cprom_seauboot, unnamed, add_nothing, Proceed, RomType
  <1>3. CASE cprom_keymap
    <2> DEFINE new == File("keymap.gkb", Head(keymaps))
               next == IF keymaps' = <<>> THEN "configs" ELSE stage
    <2>1. cprom(pname, Head(keymaps), new, next)
      BY <1>3 DEF cprom_keymap
    <2> HIDE DEF new
    <2>2. stage' = next \/ (stage' = "idle" /\ status' = "err")
      BY <2>1, CpromCases
    <2>3. bin' = [d \in {"work", "clone"} |-> [t \in Targets |-> bin'[d][t]]]
      BY <2>1, CpromCases, CopiedType DEF RomType
    <2>4. QED
      BY <1>0, <1>3, <2>2, <2>3 DEF cprom_keymap, unnamed
  <1>4. CASE cprom_uboot
    BY <1>0, <1>4, CpromCases, CopiedType
    DEF cprom_uboot, unnamed, add_nothing, Proceed, RomType
  <1>5. CASE cprom_custom
    BY <1>0, <1>5, CpromCases, CopiedType DEF cprom_custom, unnamed, RomType
  <1>6. QED
    BY <1>0, <1>1, <1>2, <1>3, <1>4, <1>5 DEF Copying

LEMMA CopyingStatus ==
  ASSUME Copying, stage' # "idle"
  PROVE  status' = status
  <1>1. CASE cprom_seabios
    BY <1>1, CpromCases DEF cprom_seabios, add_nothing, Proceed
  <1>2. CASE cprom_seauboot
    BY <1>2, CpromCases DEF cprom_seauboot, add_nothing, Proceed
  <1>3. CASE cprom_keymap
    <2> DEFINE new == File("keymap.gkb", Head(keymaps))
               next == IF keymaps' = <<>> THEN "configs" ELSE stage
    <2>1. cprom(pname, Head(keymaps), new, next)
      BY <1>3 DEF cprom_keymap
    <2> HIDE DEF new, next
    <2>2. QED
      BY <2>1, CpromCases
  <1>4. CASE cprom_uboot
    BY <1>4, CpromCases DEF cprom_uboot, add_nothing, Proceed
  <1>5. CASE cprom_custom
    BY <1>5, CpromCases DEF cprom_custom
  <1>6. QED
    BY <1>1, <1>2, <1>3, <1>4, <1>5 DEF Copying

\* The actions that are not about one config.
Outer ==
  \/ \E t \in Targets, b \in Boards : Edit(t, b)
  \/ \E S \in SUBSET Targets \ {{}} : \E ts \in SetToSeqs(S) : Build(ts)
  \/ \E relmode \in {"release", "src"} : Release(relmode)
  \/ fetch \/ prune \/ prep_release_tarball \/ dry
  \/ work_end \/ (\E packed \in SUBSET DOMAIN bin["clone"][target] : mkrom_tarball(packed))
  \/ nuke \/ done \/ (\E moved \in SUBSET DOMAIN roms : publish(moved)) \/ Abort

LEMMA OuterStages ==
  ASSUME RomInv, Outer
  PROVE  /\ stage' \in {"idle", "fetch", "prune", "tarball", "dry", "targets", "nuke", "publish"}
         /\ UNCHANGED <<target, configs>>
         /\ stage # "idle" => UNCHANGED board
  <1> USE DEF Exit, Proceed, Begin, run, world, files, dirs, loops, shell
  <1>1. CASE \E t \in Targets, b \in Boards : Edit(t, b)
    BY <1>1 DEF Edit
  <1>2. CASE \E S \in SUBSET Targets \ {{}} : \E ts \in SetToSeqs(S) : Build(ts)
    BY <1>2 DEF Build
  <1>3. CASE \E relmode \in {"release", "src"} : Release(relmode)
    BY <1>3 DEF Release
  <1>4. CASE fetch \/ prune \/ prep_release_tarball \/ dry \/ work_end \/ nuke \/ done \/ Abort
    BY <1>4 DEF fetch, prune, prep_release_tarball, dry, work_end, nuke, done, Abort
  <1>5. CASE \E packed \in SUBSET DOMAIN bin["clone"][target] : mkrom_tarball(packed)
    BY <1>5 DEF mkrom_tarball
  <1>6. CASE \E moved \in SUBSET DOMAIN roms : publish(moved)
    BY <1>6 DEF publish
  <1>7. QED
    BY <1>1, <1>2, <1>3, <1>4, <1>5, <1>6 DEF Outer

\* The orders in which some targets can be built.
LEMMA TargetOrders ==
  /\ \A S \in SUBSET Targets : \A ts \in SetToSeqs(S) : ts \in Seq(Targets)
  /\ SetToSeq(Targets) \in Seq(Targets)
  /\ Range(SetToSeq(Targets)) = Targets /\ IsInjective(SetToSeq(Targets))
  <1>1. ASSUME NEW S \in SUBSET Targets
        PROVE  IsFiniteSet(S) /\ Cardinality(S) \in Nat
    BY RomAssumption, FS_Subset, FS_CardinalityType
  <1>2. ASSUME NEW S \in SUBSET Targets, NEW ts \in SetToSeqs(S)
        PROVE  ts \in Seq(Targets)
    <2>1. ts \in [1..Cardinality(S) -> S]
      BY DEF SetToSeqs
    <2>2. QED
      BY <1>1, <2>1
  <1> DEFINE n == Cardinality(Targets)
  <1>3. n \in Nat /\ ExistsBijection(1..n, Targets)
    BY RomAssumption, FS_CardinalityType
  <1>4. \E f \in [1..n -> Targets] : IsInjective(f)
    BY <1>3 DEF ExistsBijection, Bijection, Injection
  <1>5. SetToSeq(Targets) \in [1..n -> Targets] /\ IsInjective(SetToSeq(Targets))
    BY <1>4 DEF SetToSeq
  <1>6. SetToSeq(Targets) \in Injection(1..n, Targets)
    BY <1>5 DEF Injection
  <1>7. IsFiniteSet(1..n) /\ Cardinality(1..n) = n
    BY <1>3, FS_Interval
  <1>8. SetToSeq(Targets) \in Surjection(1..n, Targets)
    BY <1>3, <1>6, <1>7, FS_Injection, RomAssumption
  <1>9. Range(SetToSeq(Targets)) = Targets
    BY <1>5, <1>8 DEF Surjection, Range
  <1>10. QED
    BY <1>2, <1>3, <1>5, <1>9

-----------------------------------------------------------------------------
LEMMA RomInvInit == RomInit => RomInv
  <1> SUFFICES ASSUME RomInit PROVE RomInv
    OBVIOUS
  <1>1. target \in Targets
    BY RomAssumption DEF RomInit
  <1>2. bin = [d \in {"work", "clone"} |-> [t \in Targets |-> bin[d][t]]]
    BY DEF RomInit
  <1>3. payload \in Payloads /\ <<>> \in Seq(Targets) /\ <<>> \in Seq(Configs) /\ <<>> \in Seq(STRING)
    BY EmptySeq DEF RomInit, Payloads, NoPayload
  <1>4. RomType
    BY <1>1, <1>2, <1>3 DEF RomInit, RomType, Mid
  <1>5. Place /\ Settled /\ Tmprom
    BY DEF RomInit, Place, Settled, Tmprom, Mid, Menu
  <1>6. QED
    BY <1>4, <1>5 DEF RomInv

LEMMA OuterType ==
  ASSUME RomInv, Outer
  PROVE  RomType'
  <1> USE DEF Exit, Proceed, Begin, run, world, files, dirs, loops, shell
  <1>1. RomType
    BY DEF RomInv
  <1>2. stage' \notin Mid /\ target' \in Targets /\ configs' \in Seq(Configs)
    BY <1>1, OuterStages DEF RomType, Mid
  <1>3. /\ board' \in [Targets -> Boards]
        /\ task' \in {"build", "release", "src"}
        /\ todo' \in Seq(Targets)
        /\ payload' \in Payloads /\ keymaps' \in Seq(STRING)
        /\ bin' = [d \in {"work", "clone"} |-> [t \in Targets |-> bin'[d][t]]]
    <2>0. NoPayload \in Payloads /\ <<>> \in Seq(STRING)
      BY EmptySeq DEF NoPayload, Payloads
    <2>1. CASE \E t \in Targets, b \in Boards : Edit(t, b)
      BY <1>1, <2>1 DEF Edit, RomType
    <2>2. CASE \E S \in SUBSET Targets \ {{}} : \E ts \in SetToSeqs(S) : Build(ts)
      BY ZenonT(30), <1>1, <2>0, <2>2, TargetOrders DEF Build, RomType
    <2>3. CASE \E relmode \in {"release", "src"} : Release(relmode)
      <3>1. PICK relmode \in {"release", "src"} : Release(relmode)
        BY <2>3
      <3>2. task' \in {"build", "release", "src"} /\ UNCHANGED board
        BY <1>1, <3>1 DEF Release
      <3>3. todo' \in Seq(Targets)
        BY <3>1, TargetOrders DEF Release
      <3>4. payload' \in Payloads /\ keymaps' \in Seq(STRING)
        BY <1>1, <2>0, <3>1 DEF Release, RomType
      <3>5. bin' = [d \in {"work", "clone"} |-> [t \in Targets |-> bin'[d][t]]]
        BY <1>1, <3>1 DEF Release, RomType
      <3>6. QED
        BY <1>1, <3>2, <3>3, <3>4, <3>5 DEF RomType
    <2>4. CASE fetch \/ prune \/ prep_release_tarball \/ dry \/ work_end \/ nuke \/ done \/ Abort
      BY <1>1, <2>4 DEF fetch, prune, prep_release_tarball, dry, work_end, nuke, done, Abort, RomType
    <2>5. CASE \E packed \in SUBSET DOMAIN bin["clone"][target] : mkrom_tarball(packed)
      BY ZenonT(30), <1>1, <2>5 DEF mkrom_tarball, RomType
    <2>6. CASE \E moved \in SUBSET DOMAIN roms : publish(moved)
      BY <1>1, <2>6 DEF publish, RomType
    <2>7. QED
      BY <2>1, <2>2, <2>3, <2>4, <2>5, <2>6 DEF Outer
  <1>4. QED
    BY <1>2, <1>3, OuterStages DEF RomType

LEMMA TypeStep ==
  ASSUME RomInv, [RomNext]_romVars
  PROVE  RomType'
  <1> USE DEF Exit, Proceed, Begin, run, world, files, dirs, loops, shell
  <1>1. RomType /\ Place /\ Settled
    BY DEF RomInv
  <1>2. CASE Outer
    BY <1>2, OuterType
  <1>3. CASE handle_defconfig
    <2>1. target' \in Targets /\ todo' \in Seq(Targets)
      BY <1>1, <1>3, HeadTailProperties DEF handle_defconfig, RomType
    <2>2. board[target'] \in Boards
      BY <1>1, <2>1 DEF RomType
    <2>3. payload' \in Payloads
      BY <1>3, <2>2, RomAssumption DEF handle_defconfig, payload_of, Payloads
    <2>4. configs' \in Seq(Configs) /\ stage' \in {"targets", "configs"}
      BY <1>1, <1>3, <2>2, RomAssumption DEF handle_defconfig, RomType
    <2>5. QED
      BY <1>1, <1>3, <2>1, <2>3, <2>4 DEF handle_defconfig, RomType, Mid
  <1>4. CASE mkcorebootbin_real
    <2>1. configs' \in Seq(Configs) /\ conf' \in Configs
      BY <1>1, <1>4, HeadTailProperties DEF mkcorebootbin_real, conf_of, RomType
    <2>2. payload' \in Payloads
      BY <1>1, <1>4 DEF mkcorebootbin_real, settle, RomType, Payloads
    <2>3. stage' \in {"idle", "payload"}
      BY <1>4 DEF mkcorebootbin_real
    <2>4. QED
      BY <1>1, <1>4, <2>1, <2>2, <2>3 DEF mkcorebootbin_real, RomType, Mid
  <1>5. CASE add_seabios
    BY <1>1, <1>5 DEF add_seabios, RomType, Mid
  <1>6. CASE mkseagrub
    BY <1>1, <1>6, RomAssumption DEF mkseagrub, RomType, Mid
  <1>7. CASE Copying
    <2>1. keymaps' \in Seq(STRING)
      <3>1. keymaps \in Seq(STRING)
        BY <1>1 DEF RomType
      <3>2. stage = "keymaps" => keymaps # <<>>
        BY <1>1 DEF Settled
      <3>3. stage = "keymaps" => Tail(keymaps) \in Seq(STRING)
        BY <3>1, <3>2, HeadTailProperties
      <3>4. QED
        BY <1>1, <1>7, <3>1, <3>3, CopyingCases
    <2>2. QED
      BY <1>1, <1>7, <2>1, CopyingCases DEF RomType, Mid
  <1>8. CASE UNCHANGED romVars
    BY <1>1, <1>8 DEF romVars, RomType
  <1>9. QED
    BY <1>2, <1>3, <1>4, <1>5, <1>6, <1>7, <1>8 DEF RomNext, Step, Outer, Copying

-----------------------------------------------------------------------------
\* The rest of a sequence that ends another one ends it too.
LEMMA EndTail ==
  ASSUME NEW cs \in Seq(Configs), NEW cf \in Seq(Configs), cf # <<>>,
         Len(cs) - Len(cf) >= 0,
         \A i \in 1..Len(cf) : cf[i] = cs[(Len(cs) - Len(cf)) + i]
  PROVE  /\ Len(cs) - Len(Tail(cf)) >= 1
         /\ Head(cf) = cs[Len(cs) - Len(Tail(cf))]
         /\ \A i \in 1..Len(Tail(cf)) : Tail(cf)[i] = cs[(Len(cs) - Len(Tail(cf))) + i]
  <1> DEFINE n == Len(cs)
             k == Len(cf)
             m == Len(Tail(cf))
  <1>1. n \in Nat /\ k \in Nat /\ k >= 1
    BY LenProperties, EmptySeq
  <1>2. m = k - 1
    BY HeadTailProperties
  <1>3. \A i \in 1..m : Tail(cf)[i] = cf[i + 1]
    BY HeadTailProperties
  <1>4. Head(cf) = cf[1]
    BY HeadTailProperties
  <1>5. n - k >= 0 /\ \A i \in 1..k : cf[i] = cs[(n - k) + i]
    OBVIOUS
  <1> HIDE DEF n, k, m
  <1>6. n - m = (n - k) + 1
    BY <1>1, <1>2
  <1>7. cf[1] = cs[n - m]
    BY <1>1, <1>5, <1>6
  <1>8. ASSUME NEW i \in 1..m
        PROVE  Tail(cf)[i] = cs[(n - m) + i]
    <2>1. i + 1 \in 1..k /\ (n - k) + (i + 1) = (n - m) + i
      BY <1>1, <1>2
    <2>2. QED
      BY <1>3, <1>5, <2>1
  <1>9. n - m >= 1
    BY <1>1, <1>5, <1>6
  <1>10. QED
    BY <1>4, <1>7, <1>8, <1>9 DEF n, m

\* What is in a sequence is its head or in its tail, once if it has no
\* duplicates.
LEMMA RangeTail ==
  ASSUME NEW S, NEW q \in Seq(S), q # <<>>
  PROVE  /\ Range(q) = {Head(q)} \cup Range(Tail(q))
         /\ IsInjective(q) => IsInjective(Tail(q)) /\ Head(q) \notin Range(Tail(q))
  <1> DEFINE n == Len(q)
             r == Tail(q)
  <1>1. n \in Nat /\ DOMAIN q = 1..n /\ n # 0
    BY LenProperties, EmptySeq
  <1>2. /\ r \in Seq(S) /\ Len(r) = n - 1 /\ Head(q) = q[1]
        /\ \A i \in 1..Len(r) : r[i] = q[i + 1]
    BY HeadTailProperties
  <1>3. DOMAIN r = 1..(n - 1) /\ \A i \in 1..(n - 1) : r[i] = q[i + 1]
    BY <1>2, LenProperties
  <1> HIDE DEF n, r
  <1>4. \A i \in 1..n : i = 1 \/ (i - 1 \in 1..(n - 1) /\ (i - 1) + 1 = i)
    BY <1>1
  <1>5. 1 \in 1..n /\ \A i \in 1..(n - 1) : i + 1 \in 1..n /\ i + 1 # 1
    BY <1>1
  <1>6. Range(q) = {Head(q)} \cup Range(r)
    <2>1. ASSUME NEW i \in 1..n PROVE q[i] \in {Head(q)} \cup Range(r)
      <3>1. CASE i = 1
        BY <1>2, <3>1
      <3>2. CASE i # 1
        <4>1. i - 1 \in 1..(n - 1) /\ (i - 1) + 1 = i
          BY <1>4, <3>2
        <4>2. r[i - 1] = q[i]
          BY <1>3, <4>1
        <4>3. QED
          BY <1>3, <4>1, <4>2 DEF Range
      <3>3. QED
        BY <3>1, <3>2
    <2>2. ASSUME NEW i \in 1..(n - 1) PROVE r[i] \in Range(q)
      BY <1>1, <1>3, <1>5 DEF Range
    <2>3. Head(q) \in Range(q)
      BY <1>1, <1>2, <1>5 DEF Range
    <2>4. QED
      BY <1>1, <1>3, <2>1, <2>2, <2>3 DEF Range
  <1>7. ASSUME IsInjective(q) PROVE IsInjective(r) /\ Head(q) \notin Range(r)
    <2>1. \A i, j \in 1..n : q[i] = q[j] => i = j
      BY <1>1, <1>7 DEF IsInjective
    <2>2. ASSUME NEW i \in 1..(n - 1), NEW j \in 1..(n - 1), r[i] = r[j] PROVE i = j
      BY <1>3, <1>5, <2>1, <2>2
    <2>3. ASSUME NEW i \in 1..(n - 1) PROVE r[i] # Head(q)
      BY <1>2, <1>3, <1>5, <2>1
    <2>4. QED
      BY <1>3, <2>2, <2>3 DEF IsInjective, Range
  <1>8. QED
    BY <1>6, <1>7 DEF r

\* The configs to come are the last ones of the board, in their order.
LEMMA PlaceStep ==
  ASSUME RomInv, [RomNext]_romVars
  PROVE  Place'
  <1> USE DEF Exit, Proceed, loops
  <1>1. RomType /\ Place /\ RomType'
    BY TypeStep DEF RomInv
  <1>2. CASE Outer
    BY <1>2, OuterStages DEF Place, Mid
  <1>3. CASE handle_defconfig
    <2>1. target' \in Targets /\ board' = board /\ stage' \notin Mid
      BY <1>1, <1>3 DEF handle_defconfig, world, RomType, Mid
    <2>2. stage' = "configs" => configs' = board[target'].configs
      BY <1>3 DEF handle_defconfig
    <2>3. Len(board[target'].configs) \in Nat
      BY <1>1, <2>1, BoardType, RomAssumption, LenProperties DEF RomType
    <2>4. QED
      BY <2>1, <2>2, <2>3 DEF Place
  <1>4. CASE mkcorebootbin_real
    <2> DEFINE cs == board[target].configs
    <2>1. UNCHANGED <<board, target>> /\ stage = "configs"
      BY <1>4 DEF mkcorebootbin_real, world
    <2>2. cs \in Seq(Configs) /\ configs \in Seq(Configs) /\ configs # <<>>
      BY <1>1, <1>4, BoardType DEF RomType, mkcorebootbin_real
    <2>3. /\ Len(cs) - Len(configs) >= 0
          /\ \A i \in 1..Len(configs) : configs[i] = cs[(Len(cs) - Len(configs)) + i]
      BY <1>1, <2>1 DEF Place
    <2>4. configs' = Tail(configs) /\ conf' = Head(configs)
      BY <1>4 DEF mkcorebootbin_real, conf_of
    <2> HIDE DEF cs
    <2>5. /\ Len(cs) - Len(configs') >= 1
          /\ conf' = cs[Len(cs) - Len(configs')]
          /\ \A i \in 1..Len(configs') : configs'[i] = cs[(Len(cs) - Len(configs')) + i]
      BY <2>2, <2>3, <2>4, EndTail
    <2>6. cs' = cs
      BY <2>1 DEF cs
    <2>7. Len(cs) - Len(configs') >= 0
      <3>1. Tail(configs) \in Seq(Configs)
        BY <2>2, HeadTailProperties
      <3>2. QED
        BY <2>2, <2>4, <2>5, <3>1, LenProperties
    <2>8. QED
      BY <2>5, <2>6, <2>7 DEF Place, cs
  <1>5. CASE add_seabios
    BY <1>1, <1>5 DEF add_seabios, Place, Mid, world
  <1>6. CASE mkseagrub
    BY <1>1, <1>6 DEF mkseagrub, Place, Mid, world
  <1>7. CASE Copying
    BY <1>1, <1>7, CopyingCases DEF Place, Mid
  <1>8. CASE UNCHANGED romVars
    BY <1>1, <1>8 DEF romVars, Place, world, shell
  <1>9. QED
    BY <1>2, <1>3, <1>4, <1>5, <1>6, <1>7, <1>8 DEF RomNext, Step, Outer, Copying

\* Before the last config, a board that asks for GRUB first has it first.
LEMMA NotLast ==
  ASSUME RomType, Place, stage \in Mid, configs # <<>>, board[target].grubsea
  PROVE  conf.init # "normal"
  <1> DEFINE cs == board[target].configs
             n == Len(cs)
             k == Len(configs)
  <1>1. board[target] \in Boards /\ cs \in Seq(Configs) /\ cs # <<>> /\ configs \in Seq(Configs)
    BY BoardType DEF RomType
  <1>2. n \in Nat /\ k \in Nat /\ k >= 1 /\ n >= 1
    BY <1>1, LenProperties, EmptySeq
  <1>3. n - k >= 1 /\ conf = cs[n - k]
    BY DEF Place
  <1>4. Front(cs) = [i \in 1..(n - 1) |-> cs[i]]
    BY <1>1, <1>2 DEF Front
  <1> HIDE DEF n, k
  <1>5. n - k \in 1..(n - 1)
    BY <1>2, <1>3
  <1>6. conf \in Range(Front(cs))
    BY <1>3, <1>4, <1>5 DEF Range
  <1>7. QED
    BY <1>1, <1>6, RomAssumption

\* mkseagrub makes the menu of GRUB and goes through the keymaps, or leaves the
\* config.
LEMMA MkseagrubCases ==
  ASSUME mkseagrub
  PROVE  /\ UNCHANGED <<board, target, payload, conf, configs, bin>> /\ stage = "seagrub"
         /\ \/ stage' = "idle" /\ status' = "err"
            \/ stage' = "configs" /\ ~payload.grub /\ status' = status
            \/ /\ stage' = "keymaps" /\ payload.grub /\ keymaps' = Keymaps /\ status' = status
               /\ pname' = IF payload.grubsea THEN "grub" ELSE "seagrub"
               /\ tmprom' = (IF payload.grubsea THEN Empty ELSE File("bootorder", "img/grub2"))
                              ++ tmprom
  <1>1. UNCHANGED <<board, target, payload, conf, configs, bin>> /\ stage = "seagrub"
    BY DEF mkseagrub, world, loops, files, dirs
  <1>2. CASE payload.grub
    BY <1>1, <1>2 DEF mkseagrub, Proceed, Exit
  <1>3. CASE ~payload.grub
    BY <1>1, <1>3 DEF mkseagrub, Proceed
  <1>4. QED
    BY <1>1, <1>2, <1>3

LEMMA SettledStep ==
  ASSUME RomInv, [RomNext]_romVars
  PROVE  Settled'
  <1> USE DEF Exit, Proceed
  <1>1. RomType /\ Place /\ Settled /\ RomType'
    BY TypeStep DEF RomInv
  <1>2. CASE Outer
    BY <1>2, OuterStages DEF Settled, Mid, Menu
  <1>3. CASE handle_defconfig
    <2>1. stage' \in {"targets", "configs"} /\ payload' = payload_of(board'[target'])
      BY <1>3 DEF handle_defconfig, world
    <2>2. QED
      BY <1>1, <2>1, BoardType DEF Settled, Mid, Menu, payload_of, RomType
  <1>4. CASE mkcorebootbin_real
    <2>1. /\ UNCHANGED <<board, target>> /\ stage = "configs" /\ configs # <<>>
          /\ payload' = settle(conf')
          /\ \/ stage' = "idle"
             \/ /\ stage' = "payload" /\ payload.uboot # "other"
                /\ ~(payload'.seabios /\ payload.uboot = "arm64")
      BY <1>4 DEF mkcorebootbin_real, world
    <2>2. QED
      BY ZenonT(30), <1>1, <2>1, BoardType DEF Settled, Mid, Menu, settle, RomType, Payloads, X86
  <1>5. CASE add_seabios
    BY <1>1, <1>5 DEF add_seabios, Settled, Mid, Menu, world, loops
  <1>6. CASE mkseagrub
    <2>1. CASE stage' = "idle"
      BY <2>1 DEF Settled, Mid, Menu
    <2>2. CASE stage' = "keymaps"
      <3>1. /\ UNCHANGED <<board, target, payload, conf>> /\ stage = "seagrub" /\ payload.grub
            /\ keymaps' = Keymaps /\ pname' = IF payload.grubsea THEN "grub" ELSE "seagrub"
        BY <1>6, <2>2, MkseagrubCases
      <3>2. Keymaps # <<>>
        BY RomAssumption
      <3>3. QED
        BY <1>1, <2>2, <3>1, <3>2 DEF Settled, Mid, Menu
    <2>3. CASE stage' = "configs"
      <3>1. UNCHANGED <<board, target, payload, conf, configs>> /\ stage = "seagrub"
        BY <1>6, MkseagrubCases
      <3>2. QED
        BY <1>1, <2>3, <3>1, NotLast, BoardType DEF Settled, Mid, Menu, X86
    <2>4. QED
      BY <1>6, <2>1, <2>2, <2>3, MkseagrubCases
  <1>7. CASE Copying
    <2>1. UNCHANGED <<board, target, payload, conf, configs>> /\ stage \in Mid
      <3>1. UNCHANGED <<board, loops, payload, conf>>
        BY <1>1, <1>7, CopyingCases
      <3>2. stage \in Mid
        BY <1>1, <1>7, CopyingCases
      <3>3. QED
        BY <3>1, <3>2 DEF loops
    <2>2. CASE stage' = "idle"
      BY <2>2 DEF Settled, Mid, Menu
    <2>3. CASE stage' = "configs"
      BY <1>1, <2>1, <2>3, NotLast, BoardType DEF Settled, Mid, Menu, X86
    <2>4. CASE stage' = "keymaps"
      <3>1. stage = "keymaps" /\ keymaps' = Tail(keymaps) /\ keymaps' # <<>> /\ pname' = pname
        BY <1>1, <1>7, <2>4, CopyingCases
      <3>2. keymaps \in Seq(STRING) /\ keymaps # <<>> /\ Range(keymaps) \subseteq Range(Keymaps)
        BY <1>1, <3>1 DEF Settled, RomType
      <3>3. Range(keymaps') \subseteq Range(Keymaps)
        BY <3>1, <3>2, RangeTail
      <3>4. QED
        BY <1>1, <2>1, <2>4, <3>1, <3>3 DEF Settled, Mid, Menu
    <2>5. CASE stage' \in {"seauboot", "seagrub"}
      BY <1>1, <1>7, <2>1, <2>5, CopyingCases DEF Settled, Mid, Menu
    <2>6. QED
      BY <1>1, <1>7, <2>2, <2>3, <2>4, <2>5, CopyingCases
  <1>8. CASE UNCHANGED romVars
    BY <1>1, <1>8 DEF romVars, Settled, world, shell, loops
  <1>9. QED
    BY <1>2, <1>3, <1>4, <1>5, <1>6, <1>7, <1>8 DEF RomNext, Step, Outer, Copying

\* What is in the image in the making.
LEMMA TmpromStep ==
  ASSUME RomInv, [RomNext]_romVars
  PROVE  Tmprom'
  <1> USE DEF Exit, Proceed
  <1>1. Tmprom
    BY DEF RomInv
  <1>2. CASE Outer
    BY <1>2, OuterStages DEF Tmprom
  <1>3. CASE handle_defconfig
    BY <1>3 DEF handle_defconfig, Tmprom
  <1>4. CASE mkcorebootbin_real
    BY <1>4 DEF mkcorebootbin_real, Tmprom, Coreboot, conf_of, world
  <1>5. CASE add_seabios
    <2>1. UNCHANGED <<board, target, payload, conf>> /\ stage = "payload"
      BY <1>5 DEF add_seabios, world, loops
    <2>2. seabios_files' = seabios_files /\ Coreboot' = Coreboot
      BY <2>1 DEF seabios_files, add_uboot, add_grub, grubname, graphical, Coreboot
    <2>3. tmprom = Coreboot
      BY <1>1, <2>1 DEF Tmprom
    <2>4. stage' = "idle" \/ (stage' = "seabios" /\ tmprom' = seabios_files ++ tmprom)
      BY <1>5 DEF add_seabios
    <2> HIDE DEF Tmprom
    <2>5. QED
      BY <2>2, <2>3, <2>4 DEF Tmprom
  <1>6. CASE mkseagrub
    <2>1. UNCHANGED <<board, target, payload, conf>> /\ stage = "seagrub"
      BY <1>6 DEF mkseagrub, world, loops
    <2>2. seabios_files' = seabios_files /\ Coreboot' = Coreboot
      BY <2>1 DEF seabios_files, add_uboot, add_grub, grubname, graphical, Coreboot
    <2>3. tmprom = seabios_files ++ Coreboot
      BY <1>1, <2>1 DEF Tmprom
    <2>4. \/ stage' \in {"idle", "configs"}
          \/ /\ stage' = "keymaps"
             /\ tmprom' = (IF payload.grubsea THEN Empty ELSE File("bootorder", "img/grub2")) ++ tmprom
      BY <1>6 DEF mkseagrub
    <2>5. QED
      BY <2>1, <2>2, <2>3, <2>4 DEF Tmprom
  <1>7. CASE Copying
    <2>1. UNCHANGED <<board, target, payload, conf, tmprom>>
      BY <1>7, CopyingCases DEF RomInv, loops
    <2>2. seabios_files' = seabios_files /\ Coreboot' = Coreboot
      BY <2>1 DEF seabios_files, add_uboot, add_grub, grubname, graphical, Coreboot
    <2>3. QED
      BY <1>1, <1>7, <2>1, <2>2, CopyingCases DEF Tmprom, RomInv
  <1>8. CASE UNCHANGED romVars
    <2>1. UNCHANGED <<board, target, payload, conf, tmprom, stage>>
      BY <1>8 DEF romVars, world, shell, loops
    <2>2. seabios_files' = seabios_files /\ Coreboot' = Coreboot
      BY <2>1 DEF seabios_files, add_uboot, add_grub, grubname, graphical, Coreboot
    <2>3. QED
      BY <1>1, <2>1, <2>2 DEF Tmprom
  <1>9. QED
    BY <1>2, <1>3, <1>4, <1>5, <1>6, <1>7, <1>8 DEF RomNext, Step, Outer, Copying

LEMMA RomInvNext ==
  ASSUME RomInv, [RomNext]_romVars
  PROVE  RomInv'
  BY TypeStep, PlaceStep, SettledStep, TmpromStep DEF RomInv

-----------------------------------------------------------------------------
(* What an image starts. *)

\* One file of an image in the making, told from the settled variables.
LEMMA UbootFiles ==
  /\ ~graphical => add_uboot = Empty
  /\ graphical /\ payload.uboot = "amd64" => add_uboot = File("img/u-boot", "uboot")
  /\ graphical /\ payload.uboot = "i386" => add_uboot = File("u-boot", "uboot")
  /\ graphical /\ payload.uboot = "arm64" => add_uboot = File("fallback/payload", "uboot")
  BY DEF add_uboot

LEMMA GrubFiles ==
  ASSUME NEW name, name # "scan.cfg", name # "background.png"
  PROVE  /\ name = grubname => Lookup(add_grub, name) = "grub"
         /\ name # grubname => Lookup(add_grub, name) = ""
  BY DEF add_grub, Lookup, File, ++, Empty

\* SeaBIOS, its video BIOS, U-Boot and GRUB.
LEMMA SeabiosFiles ==
  ASSUME payload.grubsea => payload.grub,
         NEW name, name \notin {"u-boot", "scan.cfg", "background.png", "seabios.elf"}
  PROVE  Lookup(seabios_files, name) =
            IF name = "fallback/payload" THEN IF payload.grubsea THEN "grub" ELSE "seabios"
            ELSE IF name = "vgaroms/seavgabios.bin" THEN
                  IF conf.init \in {"libgfxinit", "fspgop"} THEN "seavgabios" ELSE ""
            ELSE IF name = "img/u-boot" THEN IF graphical /\ payload.uboot = "amd64" THEN "uboot" ELSE ""
            ELSE IF name = "img/grub2" THEN IF payload.grub /\ ~payload.grubsea THEN "grub" ELSE ""
            ELSE ""
  <1> DEFINE first == File(IF payload.grubsea THEN "seabios.elf" ELSE "fallback/payload", "seabios")
             vga   == IF conf.init \in {"libgfxinit", "fspgop"}
                        THEN File("vgaroms/seavgabios.bin", "seavgabios") ELSE Empty
             ub    == IF payload.uboot \in X86 THEN add_uboot ELSE Empty
             gr    == IF payload.grub THEN add_grub ELSE Empty
  <1>1. seabios_files = ((first ++ vga) ++ ub) ++ gr
    BY DEF seabios_files
  <1>2. /\ Lookup(first, name) = IF name = "fallback/payload" /\ ~payload.grubsea THEN "seabios" ELSE ""
        /\ DOMAIN first = {IF payload.grubsea THEN "seabios.elf" ELSE "fallback/payload"}
    BY DEF Lookup, File
  <1>3. /\ Lookup(vga, name) = IF name = "vgaroms/seavgabios.bin" /\ conf.init \in {"libgfxinit", "fspgop"}
                                 THEN "seavgabios" ELSE ""
        /\ DOMAIN vga = IF conf.init \in {"libgfxinit", "fspgop"} THEN {"vgaroms/seavgabios.bin"} ELSE {}
    BY DEF Lookup, File, Empty
  <1>4. /\ Lookup(ub, name) = IF name = "img/u-boot" /\ graphical /\ payload.uboot = "amd64"
                                THEN "uboot" ELSE ""
        /\ DOMAIN ub \subseteq {"img/u-boot", "u-boot"}
    BY UbootFiles DEF Lookup, File, Empty, X86
  <1>5. Lookup(gr, name) = IF payload.grub /\ name = grubname THEN "grub" ELSE ""
    <2>1. CASE payload.grub
      <3>1. gr = add_grub
        BY <2>1
      <3>2. name # "scan.cfg" /\ name # "background.png"
        OBVIOUS
      <3>3. /\ name = grubname => Lookup(add_grub, name) = "grub"
            /\ name # grubname => Lookup(add_grub, name) = ""
        BY <3>2, GrubFiles
      <3>4. QED
        BY <2>1, <3>1, <3>3
    <2>2. CASE ~payload.grub
      BY <2>2 DEF Lookup, Empty
    <2>3. QED
      BY <2>1, <2>2
  <1> HIDE DEF first, vga, ub, gr
  <1>6. DOMAIN (first ++ vga) = DOMAIN first \cup DOMAIN vga
    BY OverDomain
  <1>7. DOMAIN ((first ++ vga) ++ ub) = DOMAIN (first ++ vga) \cup DOMAIN ub
    BY OverDomain
  <1>8. name \in DOMAIN first => Lookup(seabios_files, name) = Lookup(first, name)
    BY <1>1, <1>6, <1>7, LookupOver
  <1>9. name \in DOMAIN vga /\ name \notin DOMAIN first =>
          Lookup(seabios_files, name) = Lookup(vga, name)
    BY <1>1, <1>6, <1>7, LookupOver
  <1>10. name \in DOMAIN ub /\ name \notin DOMAIN first \cup DOMAIN vga =>
           Lookup(seabios_files, name) = Lookup(ub, name)
    BY <1>1, <1>6, <1>7, LookupOver
  <1>11. name \notin DOMAIN first \cup DOMAIN vga \cup DOMAIN ub =>
           Lookup(seabios_files, name) = Lookup(gr, name)
    BY <1>1, <1>6, <1>7, LookupOver
  <1>12. name \notin DOMAIN ub => Lookup(ub, name) = ""
    BY DEF Lookup
  <1>13. QED
    BY <1>2, <1>3, <1>4, <1>5, <1>8, <1>9, <1>10, <1>11, <1>12 DEF grubname

\* The files that tell what an image starts.
Looked == {"fallback/payload", "bootorder", "keymap.gkb", "vgaroms/seavgabios.bin",
           "img/u-boot", "img/grub2"}

LEMMA TmpromFiles ==
  ASSUME RomInv, NEW name \in Looked
  PROVE  /\ stage = "payload" => Lookup(tmprom, name) = ""
         /\ stage \in {"seabios", "seauboot"} => Lookup(tmprom, name) = Lookup(seabios_files, name)
         /\ stage = "keymaps" =>
              Lookup(tmprom, name) =
                IF name = "bootorder" /\ ~payload.grubsea THEN "img/grub2"
                                                          ELSE Lookup(seabios_files, name)
  <1> DEFINE menu == IF payload.grubsea THEN Empty ELSE File("bootorder", "img/grub2")
             rest == seabios_files ++ Coreboot
  <1>1. Lookup(Coreboot, name) = ""
    BY DEF Lookup, Coreboot, File, Looked
  <1>2. Lookup(rest, name) = Lookup(seabios_files, name)
    <2>1. CASE name \in DOMAIN seabios_files
      BY <2>1, LookupOver
    <2>2. CASE name \notin DOMAIN seabios_files
      BY <1>1, <2>2, LookupOver DEF Lookup
    <2>3. QED
      BY <2>1, <2>2
  <1>3. /\ name = "bootorder" /\ ~payload.grubsea => name \in DOMAIN menu /\ Lookup(menu, name) = "img/grub2"
        /\ ~(name = "bootorder" /\ ~payload.grubsea) => name \notin DOMAIN menu
    BY DEF Lookup, File, Empty
  <1>4. /\ stage = "payload" => tmprom = Coreboot
        /\ stage \in {"seabios", "seauboot"} => tmprom = rest
        /\ stage = "keymaps" => tmprom = menu ++ rest
    BY DEF RomInv, Tmprom
  <1> HIDE DEF menu, rest
  <1>5. Lookup(menu ++ rest, name) = IF name = "bootorder" /\ ~payload.grubsea THEN "img/grub2"
                                                                          ELSE Lookup(rest, name)
    BY <1>3, LookupOver
  <1>6. QED
    BY <1>1, <1>2, <1>4, <1>5

Bootable(image, n) ==
  image # Torn /\ n.p # "custom" =>
    /\ Starts(image) = Boots[n.p]
    /\ At(image, "keymap.gkb") = n.keymap
    /\ At(image, "vgaroms/seavgabios.bin") # ""
         <=> n.p # "uboot" /\ n.init \in {"libgfxinit", "fspgop"}

ImageName(p, keymap) ==
  [p |-> p, init |-> conf.init, display |-> conf.display, keymap |-> keymap]

\* What is in an image that cprom makes.
LEMMA ImageFiles ==
  ASSUME NEW new, NEW name
  PROVE  /\ name \in DOMAIN new => At(ImageOf(new), name) = Lookup(new, name)
         /\ name \notin DOMAIN new => At(ImageOf(new), name) = Lookup(tmprom, name)
  BY LookupOver DEF At, ImageOf, Lookup

LEMMA SeabiosBoots ==
  ASSUME RomInv, cprom_seabios, ~payload.grubsea
  PROVE  Bootable(ImageOf(Empty), ImageName("seabios", ""))
  <1>1. stage = "seabios" /\ (payload.grubsea => payload.grub)
    BY DEF cprom_seabios
  <1>2. \A name \in Looked : At(ImageOf(Empty), name) = Lookup(seabios_files, name)
    BY <1>1, TmpromFiles, ImageFiles DEF Empty
  <1>3. /\ Lookup(seabios_files, "fallback/payload") = "seabios"
        /\ Lookup(seabios_files, "bootorder") = ""
        /\ Lookup(seabios_files, "keymap.gkb") = ""
        /\ Lookup(seabios_files, "vgaroms/seavgabios.bin") =
             IF conf.init \in {"libgfxinit", "fspgop"} THEN "seavgabios" ELSE ""
    BY <1>1, SeabiosFiles
  <1>4. QED
    BY <1>2, <1>3 DEF Bootable, ImageName, Starts, Boots, Looked

LEMMA SeaubootBoots ==
  ASSUME RomInv, cprom_seauboot, payload.uboot = "amd64", graphical, ~payload.grubsea
  PROVE  Bootable(ImageOf(File("bootorder", "img/u-boot")), ImageName("seauboot", ""))
  <1> DEFINE new == File("bootorder", "img/u-boot")
             image == ImageOf(new)
  <1>1. stage = "seauboot" /\ (payload.grubsea => payload.grub)
    BY DEF cprom_seauboot
  <1>2. DOMAIN new = {"bootorder"} /\ Lookup(new, "bootorder") = "img/u-boot"
    BY DEF Lookup, File
  <1> HIDE DEF new
  <1>3. \A name \in Looked \ {"bootorder"} : At(image, name) = Lookup(seabios_files, name)
    BY <1>1, <1>2, TmpromFiles, ImageFiles
  <1>4. At(image, "bootorder") = "img/u-boot"
    BY <1>2, ImageFiles
  <1>5. /\ Lookup(seabios_files, "fallback/payload") = "seabios"
        /\ Lookup(seabios_files, "keymap.gkb") = ""
        /\ Lookup(seabios_files, "img/u-boot") = "uboot"
        /\ Lookup(seabios_files, "vgaroms/seavgabios.bin") =
             IF conf.init \in {"libgfxinit", "fspgop"} THEN "seavgabios" ELSE ""
    BY <1>1, SeabiosFiles
  <1> HIDE DEF image
  <1>6. Bootable(image, ImageName("seauboot", ""))
    BY <1>3, <1>4, <1>5 DEF Bootable, ImageName, Starts, Boots, Looked
  <1>7. QED
    BY <1>6 DEF image, new

LEMMA KeymapBoots ==
  ASSUME RomInv, stage = "keymaps", NEW keymap
  PROVE  Bootable(ImageOf(File("keymap.gkb", keymap)), ImageName(pname, keymap))
  <1> DEFINE new == File("keymap.gkb", keymap)
             image == ImageOf(new)
  <1>1. /\ payload.grub /\ (payload.grubsea => payload.grub)
        /\ pname = IF payload.grubsea THEN "grub" ELSE "seagrub"
    BY DEF RomInv, Settled
  <1>2. DOMAIN new = {"keymap.gkb"} /\ Lookup(new, "keymap.gkb") = keymap
    BY DEF Lookup, File
  <1> HIDE DEF new
  <1>3. \A name \in Looked \ {"keymap.gkb"} :
          At(image, name) = IF name = "bootorder" /\ ~payload.grubsea THEN "img/grub2"
                                                                 ELSE Lookup(seabios_files, name)
    BY <1>2, TmpromFiles, ImageFiles
  <1>4. At(image, "keymap.gkb") = keymap
    BY <1>2, ImageFiles
  <1>5. /\ Lookup(seabios_files, "fallback/payload") = IF payload.grubsea THEN "grub" ELSE "seabios"
        /\ Lookup(seabios_files, "bootorder") = ""
        /\ ~payload.grubsea => Lookup(seabios_files, "img/grub2") = "grub"
        /\ Lookup(seabios_files, "vgaroms/seavgabios.bin") =
             IF conf.init \in {"libgfxinit", "fspgop"} THEN "seavgabios" ELSE ""
    BY <1>1, SeabiosFiles
  <1> HIDE DEF image
  <1>6. Bootable(image, ImageName(pname, keymap))
    BY <1>1, <1>3, <1>4, <1>5 DEF Bootable, ImageName, Starts, Boots, Looked
  <1>7. QED
    BY <1>6 DEF image, new

LEMMA UbootBoots ==
  ASSUME RomInv, cprom_uboot, payload.uboot = "arm64", graphical
  PROVE  Bootable(ImageOf(add_uboot), ImageName("uboot", ""))
  <1> DEFINE image == ImageOf(add_uboot)
  <1>1. stage = "payload"
    BY DEF cprom_uboot
  <1>2. DOMAIN add_uboot = {"fallback/payload"} /\ Lookup(add_uboot, "fallback/payload") = "uboot"
    BY UbootFiles DEF Lookup, File
  <1>3. \A name \in Looked \ {"fallback/payload"} : At(image, name) = ""
    BY <1>1, <1>2, TmpromFiles, ImageFiles
  <1>4. At(image, "fallback/payload") = "uboot"
    BY <1>2, ImageFiles
  <1> HIDE DEF image
  <1>5. Bootable(image, ImageName("uboot", ""))
    BY <1>3, <1>4 DEF Bootable, ImageName, Starts, Boots, Looked
  <1>6. QED
    BY <1>5 DEF image

Booting(images) == \A d \in {"work", "clone"}, t \in Targets :
                    \A n \in DOMAIN images[d][t] : Bootable(images[d][t][n], n)

LEMMA BootingDef ==
  (BootsAsNamed <=> Booting(bin)) /\ (BootsAsNamed' <=> Booting(bin'))
  BY DEF BootsAsNamed, Booting, Bootable

LEMMA CopiedBoots ==
  ASSUME RomType, Booting(bin), NEW p, NEW keymap, NEW image,
         Copied(p, keymap, image), Bootable(image, ImageName(p, keymap))
  PROVE  Booting(bin')
  <1> DEFINE name == ImageName(p, keymap)
             old == bin[where][target]
  <1> SUFFICES ASSUME NEW d \in {"work", "clone"}, NEW t \in Targets, NEW n \in DOMAIN bin'[d][t]
               PROVE  Bootable(bin'[d][t][n], n)
    BY DEF Booting
  <1>1. bin' = [bin EXCEPT ![where][target] = File(name, image) ++ old]
    BY DEF Copied, ImageName
  <1>2. where \in {"work", "clone"} /\ target \in Targets
    BY DEF where, RomType
  <1>3. bin = [dd \in {"work", "clone"} |-> [tt \in Targets |-> bin[dd][tt]]]
    BY DEF RomType
  <1> HIDE DEF name, old
  <1>4. CASE d = where /\ t = target
    <2>1. bin'[d][t] = File(name, image) ++ old
      BY <1>1, <1>2, <1>3, <1>4
    <2>2. CASE n = name
      <3>1. bin'[d][t][n] = image
        BY <2>1, <2>2 DEF ++, File
      <3>2. QED
        BY <2>2, <3>1 DEF name
    <2>3. CASE n # name
      <3>1. n \in DOMAIN old /\ bin'[d][t][n] = old[n]
        BY <2>1, <2>3 DEF ++, File
      <3>2. QED
        BY <1>4, <3>1 DEF Booting, old
    <2>4. QED
      BY <2>2, <2>3
  <1>5. CASE ~(d = where /\ t = target)
    <2>1. bin'[d][t] = bin[d][t]
      BY <1>1, <1>2, <1>3, <1>5
    <2>2. QED
      BY <2>1 DEF Booting
  <1>6. QED
    BY <1>4, <1>5

\* Whatever cprom does leaves bin/ alone, or copies an image that is well made,
\* or a part of one.
LEMMA CpromBoots ==
  ASSUME NEW p, NEW keymap, NEW new, NEW next, RomType, Booting(bin),
         cprom(p, keymap, new, next), Bootable(ImageOf(new), ImageName(p, keymap))
  PROVE  Booting(bin')
  <1>1. Bootable(Torn, ImageName(p, keymap))
    BY DEF Bootable
  <1>2. bin' = bin \/ Copied(p, keymap, ImageOf(new)) \/ Copied(p, keymap, Torn)
    BY CpromCases
  <1>3. QED
    BY <1>1, <1>2, CopiedBoots

LEMMA CopyingBoots ==
  ASSUME RomInv, Booting(bin), Copying
  PROVE  Booting(bin')
  <1>0. RomType
    BY DEF RomInv
  <1>1. CASE cprom_seabios
    <2>1. CASE ~payload.grubsea
      BY <1>0, <1>1, <2>1, SeabiosBoots, CpromBoots DEF cprom_seabios
    <2>2. CASE payload.grubsea
      BY <1>1, <2>2 DEF cprom_seabios, add_nothing
    <2>3. QED
      BY <2>1, <2>2
  <1>2. CASE cprom_seauboot
    <2> DEFINE made == payload.uboot = "amd64" /\ graphical /\ ~payload.grubsea
    <2>1. CASE made
      BY <1>0, <1>2, <2>1, SeaubootBoots, CpromBoots DEF cprom_seauboot
    <2>2. CASE ~made
      BY <1>2, <2>2 DEF cprom_seauboot, add_nothing
    <2>3. QED
      BY <2>1, <2>2
  <1>3. CASE cprom_keymap
    <2> DEFINE keymap == Head(keymaps)
               new == File("keymap.gkb", keymap)
               next == IF keymaps' = <<>> THEN "configs" ELSE stage
    <2>1. cprom(pname, keymap, new, next) /\ stage = "keymaps"
      BY <1>3 DEF cprom_keymap
    <2> HIDE DEF keymap
    <2>2. Bootable(ImageOf(new), ImageName(pname, keymap))
      BY <2>1, KeymapBoots
    <2> HIDE DEF new, next
    <2>3. QED
      BY <1>0, <2>1, <2>2, CpromBoots
  <1>4. CASE cprom_uboot
    <2> DEFINE made == payload.uboot = "arm64" /\ graphical
    <2>1. CASE made
      BY <1>0, <1>4, <2>1, UbootBoots, CpromBoots DEF cprom_uboot
    <2>2. CASE ~made
      BY <1>4, <2>2 DEF cprom_uboot, add_nothing
    <2>3. QED
      BY <2>1, <2>2
  <1>5. CASE cprom_custom
    <2>1. cprom("custom", "", Empty, "configs")
      BY <1>5 DEF cprom_custom
    <2>2. Bootable(ImageOf(Empty), ImageName("custom", ""))
      BY DEF Bootable, ImageName
    <2>3. QED
      BY <1>0, <2>1, <2>2, CpromBoots
  <1>6. QED
    BY <1>1, <1>2, <1>3, <1>4, <1>5 DEF Copying

\* All other steps leave bin/ alone, or empty a directory of it.
LEMMA BinKept ==
  ASSUME [RomNext]_romVars, ~Copying,
         ~(\E relmode \in {"release", "src"} : Release(relmode)),
         ~(\E packed \in SUBSET DOMAIN bin["clone"][target] : mkrom_tarball(packed))
  PROVE  bin' = bin
  <1> USE DEF files, dirs
  <1>1. ASSUME NEW t \in Targets, NEW b \in Boards, Edit(t, b)
        PROVE  bin' = bin
    BY <1>1 DEF Edit
  <1>2. ASSUME NEW S \in SUBSET Targets \ {{}}, NEW ts \in SetToSeqs(S), Build(ts)
        PROVE  bin' = bin
    BY <1>2 DEF Build
  <1>3. ASSUME fetch \/ prune \/ prep_release_tarball \/ dry \/ work_end \/ nuke \/ done \/ Abort
        PROVE  bin' = bin
    BY <1>3 DEF fetch, prune, prep_release_tarball, dry, work_end, nuke, done, Abort
  <1>4. ASSUME NEW moved \in SUBSET DOMAIN roms, publish(moved)
        PROVE  bin' = bin
    BY <1>4 DEF publish
  <1>5. ASSUME handle_defconfig \/ mkcorebootbin_real \/ add_seabios \/ mkseagrub
        PROVE  bin' = bin
    BY <1>5 DEF handle_defconfig, mkcorebootbin_real, add_seabios, mkseagrub
  <1>6. ASSUME UNCHANGED romVars
        PROVE  bin' = bin
    BY <1>6 DEF romVars
  <1>7. QED
    BY <1>1, <1>2, <1>3, <1>4, <1>5, <1>6 DEF RomNext, Step, Copying

LEMMA OtherBoots ==
  ASSUME RomInv, Booting(bin), [RomNext]_romVars, ~Copying
  PROVE  Booting(bin')
  <1> USE DEF files, dirs
  <1>1. CASE \E relmode \in {"release", "src"} : Release(relmode)
    BY <1>1 DEF Release, Booting, Empty, RomInv, RomType
  <1>2. CASE \E packed \in SUBSET DOMAIN bin["clone"][target] : mkrom_tarball(packed)
    BY <1>2 DEF mkrom_tarball, Booting, Empty, RomInv, RomType
  <1>3. QED
    BY <1>1, <1>2, BinKept

-----------------------------------------------------------------------------
\* Whatever board and config was built before in the same shell, the settled
\* variables and the image in the making are those of the present config.
THEOREM RomInvCorrect == RomSpec => []RomInv
  <1>1. RomInv /\ [RomNext]_romVars => RomInv'
    BY RomInvNext
  <1>2. QED
    BY RomInvInit, <1>1, PTL DEF RomSpec

\* Every image that is whole starts what its name says, with the keymap and the
\* video BIOS that belong to it, at all times (rom.sh: cprom and its callers).
THEOREM BootsAsNamedCorrect == RomSpec => []BootsAsNamed
  <1>1. RomInit => Booting(bin)
    BY DEF RomInit, Booting, Empty
  <1>2. RomInv /\ Booting(bin) /\ [RomNext]_romVars => Booting(bin')
    BY CopyingBoots, OtherBoots
  <1>3. RomInit => BootsAsNamed
    BY <1>1, BootingDef
  <1>4. RomInv /\ BootsAsNamed /\ [RomNext]_romVars => BootsAsNamed'
    BY <1>2, BootingDef
  <1>5. QED
    BY RomInvCorrect, <1>3, <1>4, PTL DEF RomSpec

-----------------------------------------------------------------------------
(* What the images of a board are, and which are still to be made. *)

NameOf(c, x) == [p |-> x[1], init |-> c.init, display |-> c.display, keymap |-> x[2]]

Good(images, t, n) ==
  n \in DOMAIN images[where][t] /\ Current(images[where][t][n], board[t], n)

\* The images of the present config that the stages to come will make.
ToCome(x) ==
  \/ stage = "payload"
  \/ stage = "seabios" /\ x[1] \in {"seabios", "seauboot", "grub", "seagrub"}
  \/ stage = "seauboot" /\ x[1] \in {"seauboot", "grub", "seagrub"}
  \/ stage = "seagrub" /\ x[1] \in {"grub", "seagrub"}
  \/ stage = "keymaps" /\ x[1] \in {"grub", "seagrub"} /\ x[2] \in Range(keymaps)

\* Whatever a config is to have is there, unless it is still to come.
MadeCount == Len(board[target].configs) - Len(configs)

ConfigMade(i) ==
  LET c == board[target].configs[i]
  IN  \A x \in Kinds(board[target], c) :
        \/ Good(bin, target, NameOf(c, x))
        \/ stage \in Mid /\ i = MadeCount /\ ToCome(x)

Made == stage \in {"configs"} \cup Mid => \A i \in 1..MadeCount : ConfigMade(i)

\* The kinds of images that a board is to have for a config, in terms of the
\* settled variables.
LEMMA KindsSettled ==
  ASSUME RomInv, stage \in Mid, NEW x \in Kinds(board[target], conf)
  PROVE  /\ ~conf.none => x = <<"custom", "">>
         /\ conf.none =>
              \/ x = <<"seabios", "">> /\ payload.seabios /\ ~payload.grubsea
              \/ x = <<"seauboot", "">> /\ payload.uboot = "amd64" /\ graphical /\ ~payload.grubsea
              \/ x = <<"uboot", "">> /\ payload.uboot = "arm64" /\ graphical
              \/ /\ payload.grub
                 /\ \E k \in Range(Keymaps) :
                      x = <<IF payload.grubsea THEN "grub" ELSE "seagrub", k>>
  <1> DEFINE b == board[target]
             graphics  == conf.init # "normal" /\ conf.display # "txtmode"
             grubfirst == b.grub /\ b.grubsea /\ conf.init # "normal"
             seabios   == b.seabios \/ b.grub \/ b.uboot \in X86
  <1>1. /\ payload.grub = b.grub /\ payload.uboot = b.uboot
        /\ payload.grubsea = grubfirst /\ payload.seabios = seabios
        /\ graphics = graphical
    BY BoardType DEF RomInv, Settled, graphical
  <1>2. CASE ~conf.none
    BY <1>2 DEF Kinds
  <1>3. CASE conf.none
    <2>1. \/ x \in {<<"seabios", "">> : y \in {seabios /\ ~grubfirst} \ {FALSE}}
          \/ x \in {<<"seauboot", "">> : y \in {b.uboot = "amd64" /\ graphics /\ ~grubfirst} \ {FALSE}}
          \/ x \in {<<"uboot", "">> : y \in {b.uboot = "arm64" /\ graphics} \ {FALSE}}
          \/ x \in {<<IF grubfirst THEN "grub" ELSE "seagrub", k>> :
                      k \in IF b.grub THEN Range(Keymaps) ELSE {}}
      BY <1>3 DEF Kinds
    <2> HIDE DEF b, graphics, grubfirst, seabios
    <2>2. CASE x \in {<<"seabios", "">> : y \in {seabios /\ ~grubfirst} \ {FALSE}}
      BY <1>1, <1>3, <2>2
    <2>3. CASE x \in {<<"seauboot", "">> : y \in {b.uboot = "amd64" /\ graphics /\ ~grubfirst} \ {FALSE}}
      BY <1>1, <1>3, <2>3
    <2>4. CASE x \in {<<"uboot", "">> : y \in {b.uboot = "arm64" /\ graphics} \ {FALSE}}
      BY <1>1, <1>3, <2>4
    <2>5. CASE x \in {<<IF grubfirst THEN "grub" ELSE "seagrub", k>> :
                        k \in IF b.grub THEN Range(Keymaps) ELSE {}}
      BY <1>1, <1>3, <2>5
    <2> QED
      BY <2>1, <2>2, <2>3, <2>4, <2>5
  <1>4. QED
    BY <1>2, <1>3

LEMMA ConfIn ==
  ASSUME RomInv, stage \in Mid
  PROVE  conf \in Range(board[target].configs)
  <1> DEFINE cs == board[target].configs
             n == Len(cs)
             k == Len(configs)
  <1>1. cs \in Seq(Configs) /\ configs \in Seq(Configs)
    BY BoardType DEF RomInv, RomType
  <1>2. n \in Nat /\ k \in Nat /\ n - k >= 1 /\ conf = cs[n - k] /\ DOMAIN cs = 1..n
    BY <1>1, LenProperties DEF RomInv, Place
  <1> HIDE DEF n, k
  <1>3. n - k \in 1..n
    BY <1>2
  <1>4. QED
    BY <1>2, <1>3 DEF Range

\* An image that cprom makes is made from the present files of elf/.
LEMMA ImageCurrent ==
  ASSUME RomInv, stage \in Mid, NEW new, "coreboot" \notin DOMAIN new, NEW p, NEW keymap
  PROVE  /\ Current(ImageOf(new), board[target], ImageName(p, keymap))
         /\ ImageOf(new).vendor \in {"in", "none"}
  <1> DEFINE menu == IF payload.grubsea THEN Empty ELSE File("bootorder", "img/grub2")
             rest == seabios_files ++ Coreboot
  <1>1. Lookup(Coreboot, "coreboot") = <<board[target], conf>>
    BY DEF Lookup, Coreboot, File
  <1>2. "coreboot" \notin DOMAIN seabios_files
    <2> DEFINE first == File(IF payload.grubsea THEN "seabios.elf" ELSE "fallback/payload", "seabios")
               vga   == IF conf.init \in {"libgfxinit", "fspgop"}
                          THEN File("vgaroms/seavgabios.bin", "seavgabios") ELSE Empty
               ub    == IF payload.uboot \in X86 THEN add_uboot ELSE Empty
               gr    == IF payload.grub THEN add_grub ELSE Empty
    <2>1. seabios_files = ((first ++ vga) ++ ub) ++ gr
      BY DEF seabios_files
    <2>2. "coreboot" \notin DOMAIN first /\ "coreboot" \notin DOMAIN vga
      BY DEF File, Empty
    <2>3. "coreboot" \notin DOMAIN ub
      BY UbootFiles DEF File, Empty, X86
    <2>4. "coreboot" \notin DOMAIN gr
      BY DEF add_grub, grubname, File, Empty, ++
    <2> HIDE DEF first, vga, ub, gr
    <2>5. DOMAIN (first ++ vga) = DOMAIN first \cup DOMAIN vga
      BY OverDomain
    <2>6. DOMAIN ((first ++ vga) ++ ub) = DOMAIN (first ++ vga) \cup DOMAIN ub
      BY OverDomain
    <2>7. DOMAIN (((first ++ vga) ++ ub) ++ gr) = DOMAIN ((first ++ vga) ++ ub) \cup DOMAIN gr
      BY OverDomain
    <2>8. QED
      BY <2>1, <2>2, <2>3, <2>4, <2>5, <2>6, <2>7
  <1>3. Lookup(rest, "coreboot") = <<board[target], conf>>
    BY <1>1, <1>2, LookupOver
  <1>4. "coreboot" \notin DOMAIN menu
    BY DEF File, Empty
  <1>5. \/ tmprom = Coreboot \/ tmprom = rest \/ tmprom = menu ++ rest
    BY DEF RomInv, Tmprom, Mid
  <1> HIDE DEF menu, rest
  <1>6. Lookup(tmprom, "coreboot") = <<board[target], conf>>
    BY <1>1, <1>3, <1>4, <1>5, LookupOver
  <1>7. At(ImageOf(new), "coreboot") = <<board[target], conf>>
    BY <1>6, ImageFiles
  <1>8. conf \in Range(board[target].configs)
    BY ConfIn
  <1>9. ImageOf(new).vendor \in {"in", "none"} /\ ImageOf(new) # Torn
    BY DEF ImageOf, Torn
  <1> DEFINE name == ImageName(p, keymap)
  <1>10. conf.init = name.init /\ conf.display = name.display
    BY DEF ImageName
  <1> HIDE DEF name
  <1>11. Current(ImageOf(new), board[target], name)
    BY <1>7, <1>8, <1>9, <1>10 DEF Current
  <1>12. QED
    BY <1>9, <1>11 DEF name

-----------------------------------------------------------------------------
\* An image that is copied is there, and those that were there still are.
LEMMA CopiedGood ==
  ASSUME RomInv, NEW p, NEW keymap, NEW image,
         Copied(p, keymap, image), Current(image, board[target], ImageName(p, keymap))
  PROVE  /\ \A t \in Targets : \A n : Good(bin, t, n) => Good(bin', t, n)
         /\ Good(bin', target, ImageName(p, keymap))
  <1> DEFINE name == ImageName(p, keymap)
             old == bin[where][target]
  <1>1. bin' = [bin EXCEPT ![where][target] = File(name, image) ++ old]
    BY DEF Copied, ImageName
  <1>2. where \in {"work", "clone"} /\ target \in Targets
    BY DEF where, RomInv, RomType
  <1>3. bin = [d \in {"work", "clone"} |-> [t \in Targets |-> bin[d][t]]]
    BY DEF RomInv, RomType
  <1> HIDE DEF name, old
  <1>4. bin'[where][target] = File(name, image) ++ old
    BY <1>1, <1>2, <1>3
  <1>5. /\ name \in DOMAIN bin'[where][target] /\ bin'[where][target][name] = image
        /\ \A n \in DOMAIN old \ {name} :
             n \in DOMAIN bin'[where][target] /\ bin'[where][target][n] = old[n]
    BY <1>4 DEF ++, File
  <1>6. Good(bin', target, name)
    BY <1>5 DEF Good, name
  <1>7. ASSUME NEW t \in Targets, NEW n, Good(bin, t, n)
        PROVE  Good(bin', t, n)
    <2>1. CASE t = target
      BY <1>5, <1>6, <1>7, <2>1 DEF Good, old
    <2>2. CASE t # target
      <3>1. bin'[where][t] = bin[where][t]
        BY <1>1, <1>2, <1>3, <2>2
      <3>2. QED
        BY <1>7, <3>1 DEF Good
    <2>3. QED
      BY <2>1, <2>2
  <1>8. QED
    BY <1>6, <1>7 DEF name

\* cprom ends the run, or makes the image.
LEMMA CpromGood ==
  ASSUME RomInv, stage \in Mid, NEW p, NEW keymap, NEW new, NEW next,
         "coreboot" \notin DOMAIN new, cprom(p, keymap, new, next)
  PROVE  \/ stage' = "idle" /\ status' = "err"
         \/ /\ stage' = next /\ status' = status /\ Copied(p, keymap, ImageOf(new))
            /\ \A t \in Targets : \A n : Good(bin, t, n) => Good(bin', t, n)
            /\ Good(bin', target, ImageName(p, keymap))
  BY CpromCases, ImageCurrent, CopiedGood

\* Every stage of a config makes what the later ones will not.
Kept == \A t \in Targets : \A n : Good(bin, t, n) => Good(bin', t, n)

Advance ==
  /\ Kept
  /\ \A x \in Kinds(board[target], conf) :
       ToCome(x) => Good(bin', target, NameOf(conf, x)) \/ (stage' \in Mid /\ ToCome(x)')

\* A config with SeaBIOS has menus, and no U-Boot of its own.
LEMMA MenuKinds ==
  ASSUME RomInv, stage \in Mid, conf.none, payload.seabios,
         NEW x \in Kinds(board[target], conf)
  PROVE  /\ x[1] \in {"seabios", "seauboot", "grub", "seagrub"}
         /\ x[1] = "seabios" => x[2] = "" /\ ~payload.grubsea
         /\ x[1] = "seauboot" =>
              x[2] = "" /\ payload.uboot = "amd64" /\ graphical /\ ~payload.grubsea
         /\ x[1] \in {"grub", "seagrub"} =>
              /\ payload.grub /\ x[2] \in Range(Keymaps)
              /\ x[1] = IF payload.grubsea THEN "grub" ELSE "seagrub"
  <1>1. payload.uboot # "arm64"
    BY DEF RomInv, Settled
  <1>2. \/ x = <<"seabios", "">> /\ ~payload.grubsea
        \/ x = <<"seauboot", "">> /\ payload.uboot = "amd64" /\ graphical /\ ~payload.grubsea
        \/ /\ payload.grub
           /\ \E k \in Range(Keymaps) : x = <<IF payload.grubsea THEN "grub" ELSE "seagrub", k>>
    BY <1>1, KindsSettled
  <1>3. CASE x = <<"seabios", "">> /\ ~payload.grubsea
    BY <1>3
  <1>4. CASE /\ x = <<"seauboot", "">>
             /\ payload.uboot = "amd64" /\ graphical /\ ~payload.grubsea
    BY <1>4
  <1>5. ASSUME payload.grub, NEW k \in Range(Keymaps),
               x = <<IF payload.grubsea THEN "grub" ELSE "seagrub", k>>
        PROVE  /\ payload.grub /\ x[2] \in Range(Keymaps) /\ x[1] \in {"grub", "seagrub"}
               /\ x[1] = IF payload.grubsea THEN "grub" ELSE "seagrub"
    BY <1>5
  <1>6. QED
    BY <1>2, <1>3, <1>4, <1>5

LEMMA SeabiosAdvance ==
  ASSUME RomInv, cprom_seabios, stage' # "idle"
  PROVE  Advance
  <1>1. stage = "seabios" /\ stage \in Mid /\ conf.none /\ payload.seabios
    BY DEF cprom_seabios, Mid, Menu, RomInv, Settled
  <1>2. stage' = "seauboot" /\ Kept
        /\ (~payload.grubsea => Good(bin', target, ImageName("seabios", "")))
    <2>1. CASE ~payload.grubsea
      <3>1. cprom("seabios", "", Empty, "seauboot")
        BY <2>1 DEF cprom_seabios
      <3>2. "coreboot" \notin DOMAIN Empty
        BY DEF Empty
      <3>3. QED
        BY <1>1, <3>1, <3>2, CpromGood DEF Kept
    <2>2. CASE payload.grubsea
      BY <2>2 DEF cprom_seabios, add_nothing, Proceed, Kept
    <2>3. QED
      BY <2>1, <2>2
  <1>3. ASSUME NEW x \in Kinds(board[target], conf), ToCome(x)
        PROVE  Good(bin', target, NameOf(conf, x)) \/ ToCome(x)'
    <2>1. /\ x[1] \in {"seabios", "seauboot", "grub", "seagrub"}
          /\ x[1] = "seabios" => x[2] = "" /\ ~payload.grubsea
      BY <1>1, MenuKinds
    <2>2. x[1] = "seabios" => NameOf(conf, x) = ImageName("seabios", "")
      BY <2>1 DEF NameOf, ImageName
    <2>3. QED
      BY <1>2, <2>1, <2>2 DEF ToCome
  <1>4. QED
    BY <1>2, <1>3 DEF Advance, Mid

LEMMA SeaubootAdvance ==
  ASSUME RomInv, cprom_seauboot, stage' # "idle"
  PROVE  Advance
  <1> DEFINE made == payload.uboot = "amd64" /\ graphical /\ ~payload.grubsea
             new  == File("bootorder", "img/u-boot")
  <1>1. stage = "seauboot" /\ stage \in Mid /\ conf.none /\ payload.seabios
    BY DEF cprom_seauboot, Mid, Menu, RomInv, Settled
  <1>2. stage' = "seagrub" /\ Kept /\ (made => Good(bin', target, ImageName("seauboot", "")))
    <2>1. CASE made
      <3>1. cprom("seauboot", "", new, "seagrub")
        BY <2>1 DEF cprom_seauboot
      <3>2. "coreboot" \notin DOMAIN new
        BY DEF File
      <3> HIDE DEF new
      <3>3. QED
        BY <1>1, <3>1, <3>2, CpromGood DEF Kept
    <2>2. CASE ~made
      BY <2>2 DEF cprom_seauboot, add_nothing, Proceed, Kept
    <2>3. QED
      BY <2>1, <2>2
  <1>3. ASSUME NEW x \in Kinds(board[target], conf), ToCome(x)
        PROVE  Good(bin', target, NameOf(conf, x)) \/ ToCome(x)'
    <2>1. /\ x[1] \in {"seauboot", "grub", "seagrub"}
          /\ x[1] = "seauboot" => x[2] = "" /\ made
      BY <1>1, <1>3, MenuKinds DEF ToCome
    <2>2. x[1] = "seauboot" => NameOf(conf, x) = ImageName("seauboot", "")
      BY <2>1 DEF NameOf, ImageName
    <2>3. QED
      BY <1>2, <2>1, <2>2 DEF ToCome
  <1>4. QED
    BY <1>2, <1>3 DEF Advance, Mid

LEMMA SeagrubAdvance ==
  ASSUME RomInv, mkseagrub, stage' # "idle"
  PROVE  Advance
  <1>1. stage = "seagrub" /\ stage \in Mid /\ conf.none /\ payload.seabios /\ bin' = bin
    BY MkseagrubCases DEF Mid, Menu, RomInv, Settled
  <1>2. ASSUME NEW x \in Kinds(board[target], conf), ToCome(x)
        PROVE  stage' = "keymaps" /\ ToCome(x)'
    <2>1. x[1] \in {"grub", "seagrub"}
      BY <1>1, <1>2 DEF ToCome
    <2>2. payload.grub /\ x[2] \in Range(Keymaps)
      BY <1>1, <2>1, MenuKinds
    <2>3. stage' = "keymaps" /\ keymaps' = Keymaps
      BY <2>2, MkseagrubCases
    <2>4. QED
      BY <2>1, <2>2, <2>3 DEF ToCome
  <1>3. QED
    BY <1>1, <1>2 DEF Advance, Kept, Mid

LEMMA KeymapAdvance ==
  ASSUME RomInv, cprom_keymap, stage' # "idle"
  PROVE  Advance
  <1> DEFINE keymap == Head(keymaps)
             new == File("keymap.gkb", keymap)
             next == IF keymaps' = <<>> THEN "configs" ELSE stage
  <1>1. /\ stage = "keymaps" /\ stage \in Mid /\ conf.none /\ payload.seabios
        /\ keymaps # <<>> /\ pname = IF payload.grubsea THEN "grub" ELSE "seagrub"
    BY DEF cprom_keymap, Mid, Menu, RomInv, Settled
  <1>2. cprom(pname, keymap, new, next) /\ keymaps' = Tail(keymaps)
    BY DEF cprom_keymap
  <1>3. "coreboot" \notin DOMAIN new
    BY DEF File
  <1> HIDE DEF new
  <1>4. stage' = next /\ Kept /\ Good(bin', target, ImageName(pname, keymap))
    BY <1>1, <1>2, <1>3, CpromGood DEF Kept
  <1>5. ASSUME NEW x \in Kinds(board[target], conf), ToCome(x)
        PROVE  Good(bin', target, NameOf(conf, x)) \/ (stage' = "keymaps" /\ ToCome(x)')
    <2>1. x[1] \in {"grub", "seagrub"} /\ x[2] \in Range(keymaps)
      BY <1>1, <1>5 DEF ToCome
    <2>2. x[1] = pname
      BY <1>1, <2>1, MenuKinds
    <2>3. CASE x[2] = keymap
      <3>1. NameOf(conf, x) = ImageName(pname, keymap)
        BY <2>2, <2>3 DEF NameOf, ImageName
      <3>2. QED
        BY <1>4, <3>1
    <2>4. CASE x[2] # keymap
      <3>1. keymaps \in Seq(STRING)
        BY DEF RomInv, RomType
      <3>2. PICK i \in 1..Len(keymaps) : x[2] = keymaps[i]
        BY <2>1, <3>1, LenProperties DEF Range
      <3>3. /\ Len(keymaps) \in Nat /\ Head(keymaps) = keymaps[1]
            /\ keymaps' \in Seq(STRING)
            /\ Len(keymaps') = Len(keymaps) - 1
            /\ \A j \in 1..Len(keymaps') : keymaps'[j] = keymaps[j + 1]
        BY <1>1, <1>2, <3>1, HeadTailProperties, LenProperties
      <3>4. i # 1 /\ i - 1 \in 1..Len(keymaps')
        BY <2>4, <3>2, <3>3
      <3>5. keymaps'[i - 1] = x[2]
        BY <3>2, <3>3, <3>4
      <3>6. DOMAIN keymaps' = 1..Len(keymaps') /\ keymaps' # <<>>
        BY <3>3, <3>4, LenProperties, EmptySeq
      <3>7. x[2] \in Range(keymaps')
        BY <3>4, <3>5, <3>6 DEF Range
      <3>8. QED
        BY <1>1, <1>4, <2>1, <3>6, <3>7 DEF ToCome
    <2>5. QED
      BY <2>3, <2>4
  <1>6. QED
    BY <1>4, <1>5 DEF Advance, Mid

LEMMA UbootAdvance ==
  ASSUME RomInv, cprom_uboot, stage' # "idle"
  PROVE  Advance
  <1> DEFINE made == payload.uboot = "arm64" /\ graphical
  <1>1. stage = "payload" /\ stage \in Mid /\ conf.none /\ ~payload.seabios
    BY DEF cprom_uboot, Mid
  <1>2. stage' = "configs" /\ Kept /\ (made => Good(bin', target, ImageName("uboot", "")))
    <2>1. CASE made
      <3>1. cprom("uboot", "", add_uboot, "configs")
        BY <2>1 DEF cprom_uboot
      <3>2. "coreboot" \notin DOMAIN add_uboot
        BY <2>1, UbootFiles DEF File
      <3>3. QED
        BY <1>1, <3>1, <3>2, CpromGood DEF Kept
    <2>2. CASE ~made
      BY <2>2 DEF cprom_uboot, add_nothing, Proceed, Kept
    <2>3. QED
      BY <2>1, <2>2
  <1>3. ASSUME NEW x \in Kinds(board[target], conf)
        PROVE  Good(bin', target, NameOf(conf, x))
    <2>1. payload.uboot # "amd64" /\ ~payload.grub
      BY <1>1, BoardType DEF RomInv, Settled, X86
    <2>2. x = <<"uboot", "">> /\ made
      BY <1>1, <2>1, KindsSettled
    <2>3. x[1] = "uboot" /\ x[2] = ""
      BY <2>2
    <2>4. NameOf(conf, x) = ImageName("uboot", "")
      BY <2>3 DEF NameOf, ImageName
    <2>5. QED
      BY <1>2, <2>2, <2>4
  <1>4. QED
    BY <1>2, <1>3 DEF Advance, Mid

LEMMA CustomAdvance ==
  ASSUME RomInv, cprom_custom, stage' # "idle"
  PROVE  Advance
  <1>1. stage = "payload" /\ stage \in Mid /\ ~conf.none
    BY DEF cprom_custom, Mid
  <1>2. Kept /\ Good(bin', target, ImageName("custom", ""))
    <2>1. cprom("custom", "", Empty, "configs")
      BY DEF cprom_custom
    <2>2. "coreboot" \notin DOMAIN Empty
      BY DEF Empty
    <2>3. QED
      BY <1>1, <2>1, <2>2, CpromGood DEF Kept
  <1>3. ASSUME NEW x \in Kinds(board[target], conf)
        PROVE  Good(bin', target, NameOf(conf, x))
    <2>0. x = <<"custom", "">>
      BY <1>1, KindsSettled
    <2>1. x[1] = "custom" /\ x[2] = ""
      BY <2>0
    <2>2. NameOf(conf, x) = ImageName("custom", "")
      BY <2>1 DEF NameOf, ImageName
    <2>3. QED
      BY <1>2, <2>2
  <1>4. QED
    BY <1>2, <1>3 DEF Advance, Mid

LEMMA AddSeabiosAdvance ==
  ASSUME RomInv, add_seabios, stage' # "idle"
  PROVE  Advance
  <1>1. /\ stage = "payload" /\ stage \in Mid /\ conf.none /\ payload.seabios
        /\ stage' = "seabios" /\ bin' = bin
    BY DEF add_seabios, Mid, Exit, Proceed, files, dirs
  <1>2. ASSUME NEW x \in Kinds(board[target], conf)
        PROVE  ToCome(x)'
    BY <1>1, MenuKinds DEF ToCome
  <1>3. QED
    BY <1>1, <1>2 DEF Advance, Kept, Mid

\* The steps of one config: they stay in it or end it.
Making == add_seabios \/ mkseagrub \/ Copying

LEMMA MakingAdvance ==
  ASSUME RomInv, Making, stage' # "idle"
  PROVE  /\ UNCHANGED <<board, task, asked, todo, target, configs, conf>>
         /\ stage \in Mid /\ stage' \in {"configs"} \cup Mid /\ status' = status
         /\ Advance
  <1>1. Advance
    BY SeabiosAdvance, SeaubootAdvance, SeagrubAdvance, KeymapAdvance, UbootAdvance,
       CustomAdvance, AddSeabiosAdvance DEF Making, Copying
  <1>2. CASE add_seabios
    BY <1>1, <1>2 DEF add_seabios, Exit, Proceed, world, run, loops, Mid
  <1>3. CASE mkseagrub
    BY <1>1, <1>3, MkseagrubCases DEF mkseagrub, world, run, loops, Mid
  <1>4. CASE Copying
    <2>1. UNCHANGED <<board, run, loops, conf>>
      BY <1>4, CopyingCases DEF RomInv
    <2>2. stage \in Mid /\ stage' \in {"configs"} \cup Mid
      BY <1>4, CopyingCases DEF RomInv, Mid
    <2>3. status' = status
      BY <1>4, CopyingStatus
    <2>4. QED
      BY <1>1, <2>1, <2>2, <2>3 DEF run, loops
  <1>5. QED
    BY <1>2, <1>3, <1>4 DEF Making

LEMMA GoodSame ==
  ASSUME UNCHANGED <<board, task>>, NEW t, NEW n
  PROVE  Good(bin, t, n)' <=> Good(bin', t, n)
  BY DEF Good, where

LEMMA MadeStep ==
  ASSUME RomInv, Made, [RomNext]_romVars
  PROVE  Made'
  <1>1. CASE Outer
    <2>1. stage' \notin {"configs"} \cup Mid
      BY <1>1, OuterStages DEF Mid
    <2>2. QED
      BY <2>1 DEF Made
  <1>2. CASE handle_defconfig
    <2>1. RomInv'
      BY RomInvNext
    <2>2. SUFFICES ASSUME stage' = "configs" PROVE Made'
      BY <1>2 DEF handle_defconfig, Proceed, Made, Mid
    <2>3. configs' = board'[target'].configs
      BY <1>2, <2>2 DEF handle_defconfig, Proceed, world
    <2>4. configs' \in Seq(Configs)
      BY <2>1 DEF RomInv, RomType
    <2>5. MadeCount' = 0
      BY <2>3, <2>4, LenProperties DEF MadeCount
    <2>6. 1..MadeCount' = {}
      BY <2>5
    <2>7. QED
      BY <2>6 DEF Made
  <1>3. CASE mkcorebootbin_real
    <2>1. /\ UNCHANGED <<board, task, target, bin>> /\ stage = "configs" /\ stage' \in {"idle", "payload"}
          /\ configs # <<>> /\ configs' = Tail(configs)
      BY <1>3 DEF mkcorebootbin_real, world, run, files, dirs, Proceed, Exit
    <2>2. SUFFICES ASSUME stage' = "payload", NEW i \in 1..MadeCount' PROVE ConfigMade(i)'
      BY <2>1 DEF Made, Mid
    <2>3. MadeCount' = MadeCount + 1 /\ MadeCount \in Int
      <3>1. Len(configs') = Len(configs) - 1 /\ Len(configs) \in Nat
        BY <2>1, HeadTailProperties, LenProperties DEF RomInv, RomType
      <3>2. Len(board[target].configs) \in Nat /\ board'[target'].configs = board[target].configs
        BY <2>1, BoardType, LenProperties DEF RomInv
      <3>3. QED
        BY <3>1, <3>2 DEF MadeCount
    <2>4. CASE i = MadeCount'
      BY <2>2, <2>4 DEF ConfigMade, ToCome, Mid
    <2>5. CASE i \in 1..MadeCount
      <3>1. ConfigMade(i) /\ stage \notin Mid
        BY <2>1, <2>5 DEF Made, Mid
      <3>2. QED
        BY <2>1, <3>1 DEF ConfigMade, Good, where
    <2>6. QED
      BY <2>2, <2>3, <2>4, <2>5
  <1>4. CASE Making
    <2>1. SUFFICES ASSUME stage' # "idle", NEW i \in 1..MadeCount' PROVE ConfigMade(i)'
      BY DEF Made, Mid
    <2>2. /\ UNCHANGED <<board, task, target, configs, conf>> /\ stage \in Mid
          /\ Kept /\ Advance /\ target \in Targets
      BY <1>4, <2>1, MakingAdvance DEF Advance, RomInv, RomType
    <2>3. MadeCount' = MadeCount
      BY <2>2 DEF MadeCount
    <2>4. ConfigMade(i)
      BY <2>1, <2>2, <2>3 DEF Made
    <2> DEFINE c == board[target].configs[i]
    <2>5. i = MadeCount => c = conf
      BY <2>2 DEF RomInv, Place, MadeCount
    <2>6. ASSUME NEW x \in Kinds(board[target], c)
          PROVE  \/ Good(bin', target, NameOf(c, x))
                 \/ stage' \in Mid /\ i = MadeCount /\ ToCome(x)'
      <3>1. CASE Good(bin, target, NameOf(c, x))
        BY <2>2, <3>1 DEF Kept
      <3>2. CASE i = MadeCount /\ ToCome(x)
        BY <2>2, <2>5, <3>2 DEF Advance
      <3>3. QED
        BY <2>4, <3>1, <3>2 DEF ConfigMade
    <2>7. QED
      BY <2>2, <2>3, <2>6 DEF ConfigMade, Good, where
  <1>5. CASE UNCHANGED romVars
    <2>1. UNCHANGED <<board, task, target, configs, stage, bin, keymaps>>
      BY <1>5 DEF romVars, world, loops, files, dirs, shell, run
    <2>2. MadeCount' = MadeCount
      BY <2>1 DEF MadeCount
    <2>3. ASSUME NEW i, ConfigMade(i) PROVE ConfigMade(i)'
      BY <2>1, <2>2, <2>3 DEF ConfigMade, Good, where, ToCome
    <2>4. QED
      BY <2>1, <2>2, <2>3 DEF Made
  <1>6. QED
    BY <1>1, <1>2, <1>3, <1>4, <1>5 DEF RomNext, Step, Outer, Making, Copying

-----------------------------------------------------------------------------
(* The runs. *)

\* What a run does, and how it ends.
Tasks ==
  /\ asked \subseteq Targets
  /\ stage # "idle" => status = "none"
  /\ task = "build" => stage \in {"idle", "targets", "configs"} \cup Mid
  /\ task = "src" => stage \notin {"dry", "targets", "configs", "nuke"} \cup Mid

Finished(t) == \A n \in Names(board[t]) : Good(bin, t, n)

\* A board that was asked for is to come, in the making or finished.
Pending ==
  task = "build" /\ stage # "idle" =>
    \A t \in asked : t \in Range(todo) \/ Finished(t) \/ (t = target /\ stage # "targets")

LEMMA TasksStep ==
  ASSUME RomInv, Tasks, [RomNext]_romVars
  PROVE  Tasks'
  <1> USE DEF Exit, Proceed, Begin, run, Tasks, Mid
  <1>1. CASE \E t \in Targets, b \in Boards : Edit(t, b)
    BY <1>1 DEF Edit
  <1>2. CASE \E S \in SUBSET Targets \ {{}} : \E ts \in SetToSeqs(S) : Build(ts)
    <2>1. PICK ts \in Seq(Targets) : Build(ts)
      BY <1>2, TargetOrders
    <2>2. Range(ts) \subseteq Targets
      BY LenProperties DEF Range
    <2>3. QED
      BY <2>1, <2>2 DEF Build
  <1>3. CASE \E relmode \in {"release", "src"} : Release(relmode)
    BY <1>3 DEF Release
  <1>4. CASE fetch \/ prune \/ prep_release_tarball \/ dry \/ work_end \/ nuke \/ done \/ Abort
    BY <1>4 DEF fetch, prune, prep_release_tarball, dry, work_end, nuke, done, Abort
  <1>5. CASE \E packed \in SUBSET DOMAIN bin["clone"][target] : mkrom_tarball(packed)
    BY <1>5 DEF mkrom_tarball
  <1>6. CASE \E moved \in SUBSET DOMAIN roms : publish(moved)
    BY <1>6 DEF publish
  <1>7. CASE handle_defconfig \/ mkcorebootbin_real
    BY <1>7 DEF handle_defconfig, mkcorebootbin_real
  <1>8. CASE Making
    <2>1. UNCHANGED <<task, asked>> /\ stage \in Mid
      <3>1. CASE add_seabios \/ mkseagrub
        BY <3>1 DEF add_seabios, mkseagrub
      <3>2. CASE Copying
        BY <3>2, CopyingCases DEF RomInv
      <3>3. QED
        BY <1>8, <3>1, <3>2 DEF Making
    <2>2. stage' # "idle" => stage' \in {"configs"} \cup Mid /\ status' = status
      BY <1>8, MakingAdvance
    <2>3. QED
      BY <2>1, <2>2
  <1>9. CASE UNCHANGED romVars
    BY <1>9 DEF romVars
  <1>10. QED
    BY <1>1, <1>2, <1>3, <1>4, <1>5, <1>6, <1>7, <1>8, <1>9 DEF RomNext, Step, Making, Copying

\* When no config of a board is left, it has all of its images.
LEMMA BoardFinished ==
  ASSUME RomInv, Made, stage = "configs", configs = <<>>
  PROVE  Finished(target)
  <1> DEFINE cs == board[target].configs
  <1>1. cs \in Seq(Configs) /\ Len(configs) = 0
    BY BoardType, EmptySeq DEF RomInv
  <1>2. Len(cs) \in Nat /\ DOMAIN cs = 1..Len(cs)
    BY <1>1, LenProperties
  <1>3. MadeCount = Len(cs)
    BY <1>1, <1>2 DEF MadeCount
  <1>4. ASSUME NEW n \in Names(board[target])
        PROVE  Good(bin, target, n)
    <2>0. PICK c \in Range(cs) :
             n \in {NameOf(c, x) : x \in Kinds(board[target], c)}
      BY DEF Names, NameOf
    <2>1. PICK x \in Kinds(board[target], c) : n = NameOf(c, x)
      BY <2>0
    <2>2. PICK i \in 1..Len(cs) : c = cs[i]
      BY <1>2 DEF Range
    <2>3. ConfigMade(i)
      BY <1>3, <2>2 DEF Made
    <2>4. QED
      BY <2>1, <2>2, <2>3 DEF ConfigMade, Mid
  <1>5. QED
    BY <1>4 DEF Finished

LEMMA PendingStep ==
  ASSUME RomInv, Tasks, Made, Pending, [RomNext]_romVars
  PROVE  Pending'
  <1> USE DEF Exit, Proceed, Begin, run, loops
  <1> SUFFICES ASSUME task' = "build", stage' # "idle", NEW t \in asked'
               PROVE  t \in Range(todo)' \/ Finished(t)' \/ (t = target' /\ stage' # "targets")
    BY DEF Pending
  <1>1. CASE \E t_1 \in Targets, b \in Boards : Edit(t_1, b)
    BY <1>1 DEF Edit, Tasks
  <1>2. CASE \E S \in SUBSET Targets \ {{}} : \E ts \in SetToSeqs(S) : Build(ts)
    BY <1>2 DEF Build
  <1>3. CASE \E relmode \in {"release", "src"} : Release(relmode)
    BY <1>3 DEF Release
  <1>4. CASE fetch \/ prune \/ prep_release_tarball \/ dry \/ nuke \/ done \/ Abort
    BY <1>4 DEF fetch, prune, prep_release_tarball, dry, nuke, done, Abort, Tasks, Mid
  <1>5. CASE \E packed \in SUBSET DOMAIN bin["clone"][target] : mkrom_tarball(packed)
    BY <1>5 DEF mkrom_tarball
  <1>6. CASE \E moved \in SUBSET DOMAIN roms : publish(moved)
    BY <1>6 DEF publish
  <1>7. ASSUME UNCHANGED <<board, task, asked>>, stage # "idle", Kept, t \in Targets
        PROVE  t \in Range(todo) \/ Finished(t)' \/ (t = target /\ stage # "targets")
    <2>1. t \in Range(todo) \/ Finished(t) \/ (t = target /\ stage # "targets")
      BY <1>7 DEF Pending
    <2>2. Finished(t) => Finished(t)'
      BY <1>7 DEF Finished, Kept, Good, where
    <2>3. QED
      BY <2>1, <2>2
  <1>8. CASE work_end
    <2>1. /\ UNCHANGED <<board, task, asked, target, todo, bin>>
          /\ stage = "configs" /\ configs = <<>> /\ t \in Targets
      BY <1>8 DEF work_end, world, files, dirs, Tasks
    <2>2. t = target => Finished(t)'
      BY <2>1, BoardFinished DEF Finished, Good, where
    <2>3. QED
      BY <1>7, <2>1, <2>2 DEF Kept
  <1>9. CASE handle_defconfig
    <2>1. /\ UNCHANGED <<board, task, asked, bin>> /\ stage = "targets" /\ todo # <<>>
          /\ target' = Head(todo) /\ todo' = Tail(todo) /\ stage' = "configs" /\ t \in Targets
      BY <1>9 DEF handle_defconfig, world, files, dirs, Tasks, skipped
    <2>2. todo \in Seq(Targets)
      BY DEF RomInv, RomType
    <2>3. t \in Range(todo) => t = Head(todo) \/ t \in Range(Tail(todo))
      BY <2>1, <2>2, RangeTail
    <2>4. QED
      BY <1>7, <2>1, <2>3 DEF Kept
  <1>10. CASE mkcorebootbin_real
    <2>1. /\ UNCHANGED <<board, task, asked, bin, target, todo>>
          /\ stage = "configs" /\ stage' = "payload" /\ t \in Targets
      BY <1>10 DEF mkcorebootbin_real, world, files, dirs, Tasks
    <2>2. QED
      BY <1>7, <2>1 DEF Kept
  <1>11. CASE Making
    <2>1. /\ UNCHANGED <<board, task, asked, target, todo>> /\ Kept
          /\ stage \in Mid /\ stage' \in {"configs"} \cup Mid
      BY <1>11, MakingAdvance DEF Advance
    <2>2. QED
      BY <1>7, <2>1 DEF Tasks, Mid
  <1>12. CASE UNCHANGED romVars
    BY <1>7, <1>12 DEF romVars, world, files, dirs, Kept, Tasks
  <1>13. QED
    BY <1>1, <1>2, <1>3, <1>4, <1>5, <1>6, <1>8, <1>9, <1>10, <1>11, <1>12
    DEF RomNext, Step, Making, Copying

LEMMA ImagesStep ==
  ASSUME RomInv, Tasks, Tasks', Made, Pending, ImagesAsConfigured, [RomNext]_romVars
  PROVE  ImagesAsConfigured'
  <1> USE DEF Exit, Proceed, Begin, run
  <1> SUFFICES ASSUME status' = "ok", task' = "build" PROVE ImagesAsConfigured'
    BY DEF ImagesAsConfigured
  <1>1. stage' = "idle"
    BY DEF Tasks
  <1>2. CASE done
    <2>1. UNCHANGED <<board, task, asked, bin>> /\ stage = "targets" /\ todo = <<>>
      BY <1>2 DEF done, world, files, dirs
    <2>2. Range(todo) = {}
      BY <2>1 DEF Range
    <2>3. \A t \in asked : Finished(t)
      BY <2>1, <2>2 DEF Pending
    <2>4. QED
      BY <2>1, <2>3 DEF ImagesAsConfigured, Finished, Good, where
  <1>3. CASE \E moved \in SUBSET DOMAIN roms : publish(moved)
    BY <1>3 DEF publish, Tasks, Mid
  <1>4. CASE UNCHANGED romVars
    BY <1>4 DEF romVars, world, files, dirs, ImagesAsConfigured
  <1>5. CASE Making
    <2>1. CASE add_seabios \/ mkseagrub
      BY <1>1, <1>5, <2>1 DEF add_seabios, mkseagrub
    <2>2. CASE Copying
      BY <1>1, <2>2, CopyingCases DEF RomInv, Mid, Tasks
    <2>3. QED
      BY <1>5, <2>1, <2>2 DEF Making
  <1>6. ASSUME ~done, ~Making, ~(UNCHANGED romVars),
               ~(\E moved \in SUBSET DOMAIN roms : publish(moved))
        PROVE  FALSE
    <2>1. ~(\E t \in Targets, b \in Boards : Edit(t, b))
      BY DEF Edit
    <2>2. ~(\E S \in SUBSET Targets \ {{}} : \E ts \in SetToSeqs(S) : Build(ts))
      BY DEF Build
    <2>3. ~(\E relmode \in {"release", "src"} : Release(relmode))
      BY DEF Release
    <2>4. ~(fetch \/ prune \/ prep_release_tarball \/ dry \/ work_end \/ nuke \/ Abort)
      BY <1>1 DEF fetch, prune, prep_release_tarball, dry, work_end, nuke, Abort
    <2>5. ~(\E packed \in SUBSET DOMAIN bin["clone"][target] : mkrom_tarball(packed))
      BY <1>1 DEF mkrom_tarball
    <2>6. ~(handle_defconfig \/ mkcorebootbin_real)
      BY <1>1 DEF handle_defconfig, mkcorebootbin_real
    <2>7. QED
      BY <1>6, <2>1, <2>2, <2>3, <2>4, <2>5, <2>6 DEF RomNext, Step, Making, Copying
  <1>7. QED
    BY <1>2, <1>3, <1>4, <1>5, <1>6

\* A build that ends well has left every image of every board it was asked for,
\* whole and current (mkhelper.cfg, build_targets, mkcorebootbin).
THEOREM ImagesAsConfiguredCorrect == RomSpec => []ImagesAsConfigured
  <1>1. RomInit => Tasks /\ Made /\ Pending /\ ImagesAsConfigured
    BY DEF RomInit, Tasks, Made, Pending, ImagesAsConfigured, Mid
  <1>2. RomInv /\ Tasks /\ Made /\ Pending /\ ImagesAsConfigured /\ [RomNext]_romVars
          => Tasks' /\ Made' /\ Pending' /\ ImagesAsConfigured'
    BY TasksStep, MadeStep, PendingStep, ImagesStep
  <1>3. QED
    BY RomInvCorrect, <1>1, <1>2, PTL DEF RomSpec

-----------------------------------------------------------------------------
(* Releases. *)

\* What a release's clone holds besides images, and what it publishes of it.
Sources ==
  /\ stage = "fetch" => clone = {".git"}
  /\ stage = "prune" =>
       clone = {".git", "cache", "xbmkwd", "lock", "sbase/*.o", "in nuke.list"}
  /\ stage = "tarball" => clone = {"cache", "xbmkwd", "lock", "sbase/*.o"}
  /\ task # "build" /\ stage \notin {"idle", "fetch", "prune", "tarball"} => source = {}

Carries(image, vendors) ==
  image = [files |-> image.files, vendor |-> image.vendor] /\ image.vendor \in vendors

\* The images of the clone are those that the boards are to have, none torn;
\* those of the archives are without vendor files, as soon as nuke is done.
CloneImages ==
  task # "build" /\ stage # "idle" =>
    \A t \in Targets : \A n \in DOMAIN bin["clone"][t] :
      n \in Names(board[t]) /\ Carries(bin["clone"][t][n], {"in", "none"})

Archives ==
  task # "build" /\ stage # "idle" =>
    /\ \A t \in DOMAIN roms : \A n \in DOMAIN roms[t] :
         \/ Carries(roms[t][n], {"out", "none"})
         \/ stage = "nuke" /\ t = target /\ Carries(roms[t][n], {"in", "out", "none"})
    /\ tar # "torn" =>
         \A t \in DOMAIN roms :
           /\ DOMAIN roms[t] = Names(board[t])
           /\ \A n \in DOMAIN roms[t] : Current(roms[t][n], board[t], n)

\* There is one archive for each board that is to be released and was built.
Archived ==
  /\ task = "src" /\ stage # "idle" => roms = Empty
  /\ task = "release" /\ stage # "idle" =>
       /\ IsInjective(todo)
       /\ stage = "publish" => todo = <<>>
       /\ stage \in {"configs", "nuke"} \cup Mid =>
            board[target].releasable /\ target \notin Range(todo)
       /\ DOMAIN roms = {t \in Targets : /\ board[t].releasable /\ t \notin Range(todo)
                                         /\ ~(t = target /\ stage \in {"configs"} \cup Mid)}

\* What the steps of a config leave alone.
LEMMA MakingFrame ==
  ASSUME RomInv, Making
  PROVE  /\ UNCHANGED <<board, clone, tar, source, roms, published, task, asked, todo, target>>
         /\ stage \in Mid /\ stage' \in {"idle", "configs"} \cup Mid
  <1>1. CASE add_seabios
    BY <1>1 DEF add_seabios, Exit, Proceed, world, files, dirs, run, loops, Mid
  <1>2. CASE mkseagrub
    BY <1>2, MkseagrubCases DEF mkseagrub, world, files, dirs, run, loops, Mid
  <1>3. CASE Copying
    <2>1. UNCHANGED <<board, clone, tar, source, roms, published, run, loops>>
      BY <1>3, CopyingCases DEF RomInv
    <2>2. stage \in Mid /\ stage' \in {"idle", "configs"} \cup Mid
      BY <1>3, CopyingCases DEF RomInv, Mid
    <2>3. QED
      BY <2>1, <2>2 DEF run, loops
  <1>4. QED
    BY <1>1, <1>2, <1>3 DEF Making

LEMMA SourcesStep ==
  ASSUME RomInv, Tasks, Sources, [RomNext]_romVars
  PROVE  Sources'
  <1> USE DEF Exit, Proceed, Begin, run, files, dirs, Sources, Mid
  <1>1. CASE \E t \in Targets, b \in Boards : Edit(t, b)
    BY <1>1 DEF Edit
  <1>2. CASE \E S \in SUBSET Targets \ {{}} : \E ts \in SetToSeqs(S) : Build(ts)
    BY <1>2 DEF Build
  <1>3. CASE \E relmode \in {"release", "src"} : Release(relmode)
    BY <1>3 DEF Release
  <1>4. CASE fetch \/ prune
    BY <1>4 DEF fetch, prune
  <1>5. CASE prep_release_tarball
    BY <1>5 DEF prep_release_tarball, tidied
  <1>6. CASE dry \/ work_end \/ nuke \/ done \/ Abort
    BY <1>6 DEF dry, work_end, nuke, done, Abort
  <1>7. CASE \E packed \in SUBSET DOMAIN bin["clone"][target] : mkrom_tarball(packed)
    BY <1>7 DEF mkrom_tarball
  <1>8. CASE \E moved \in SUBSET DOMAIN roms : publish(moved)
    BY <1>8 DEF publish
  <1>9. CASE handle_defconfig \/ mkcorebootbin_real
    BY <1>9 DEF handle_defconfig, mkcorebootbin_real
  <1>10. CASE Making
    BY <1>10, MakingFrame
  <1>11. CASE UNCHANGED romVars
    BY <1>11 DEF romVars
  <1>12. QED
    BY <1>1, <1>2, <1>3, <1>4, <1>5, <1>6, <1>7, <1>8, <1>9, <1>10, <1>11
    DEF RomNext, Step, Making, Copying

LEMMA ArchivedStep ==
  ASSUME RomInv, Tasks, Archived, [RomNext]_romVars
  PROVE  Archived'
  <1> USE DEF Exit, Proceed, Begin, run, files, dirs, loops, world, Mid
  <1>0. target \in Targets /\ todo \in Seq(Targets)
    BY DEF RomInv, RomType
  <1>1. CASE \E t \in Targets, b \in Boards : Edit(t, b)
    BY <1>1 DEF Edit, Archived
  <1>2. CASE \E S \in SUBSET Targets \ {{}} : \E ts \in SetToSeqs(S) : Build(ts)
    BY <1>2 DEF Build, Archived
  <1>3. CASE \E relmode \in {"release", "src"} : Release(relmode)
    <2>1. /\ roms' = Empty /\ todo' = SetToSeq(Targets) /\ stage' \in {"idle", "fetch"}
      BY <1>3 DEF Release
    <2>2. QED
      BY <2>1, TargetOrders DEF Archived, Empty
  <1>4. CASE fetch \/ prune \/ prep_release_tarball \/ dry
    BY <1>4 DEF fetch, prune, prep_release_tarball, dry, Archived
  <1>5. CASE work_end \/ done \/ Abort
    BY <1>5 DEF work_end, done, Abort, Archived
  <1>6. CASE \E packed \in SUBSET DOMAIN bin["clone"][target] : mkrom_tarball(packed)
    <2>1. PICK dir : /\ roms' = File(target, dir) ++ roms /\ stage = "configs" /\ task = "release"
                     /\ UNCHANGED <<board, todo, target, task>> /\ stage' = "nuke"
      BY <1>6 DEF mkrom_tarball
    <2>2. DOMAIN roms' = {target} \cup DOMAIN roms
      BY <2>1 DEF ++, File
    <2>3. QED
      BY <1>0, <2>1, <2>2 DEF Archived
  <1>7. CASE nuke
    <2>1. /\ roms' = [roms EXCEPT ![target] = nuked(@)] /\ stage = "nuke" /\ stage' = "targets"
          /\ UNCHANGED <<board, todo, target, task>>
      BY <1>7 DEF nuke
    <2>2. DOMAIN roms' = DOMAIN roms /\ task # "src"
      BY <2>1 DEF Tasks
    <2>3. QED
      BY <2>1, <2>2 DEF Archived
  <1>8. CASE \E moved \in SUBSET DOMAIN roms : publish(moved)
    BY <1>8 DEF publish, Archived
  <1>9. CASE handle_defconfig
    <2>1. /\ UNCHANGED <<board, task, roms>> /\ stage = "targets" /\ todo # <<>>
          /\ target' = Head(todo) /\ todo' = Tail(todo)
          /\ stage' = IF skipped(target') THEN "targets" ELSE "configs"
      BY <1>9 DEF handle_defconfig
    <2>2. Range(todo) = {target'} \cup Range(todo')
      BY <1>0, <2>1, RangeTail
    <2>3. IsInjective(todo) => IsInjective(todo') /\ target' \notin Range(todo')
      BY <1>0, <2>1, RangeTail
    <2>4. target' \in Targets
      BY <1>0, <2>1, HeadTailProperties
    <2>5. task = "release" => (skipped(target') <=> ~board[target'].releasable)
      BY DEF skipped
    <2>6. CASE task = "release"
      BY <2>1, <2>2, <2>3, <2>4, <2>5, <2>6 DEF Archived
    <2>7. CASE task # "release"
      BY <2>1, <2>7 DEF Archived
    <2>8. QED
      BY <2>6, <2>7
  <1>10. CASE mkcorebootbin_real
    BY <1>10 DEF mkcorebootbin_real, Archived
  <1>11. CASE Making
    BY <1>11, MakingFrame DEF Archived
  <1>12. CASE UNCHANGED romVars
    BY <1>12 DEF romVars, Archived
  <1>13. QED
    BY <1>1, <1>2, <1>3, <1>4, <1>5, <1>6, <1>7, <1>8, <1>9, <1>10, <1>11, <1>12
    DEF RomNext, Step, Making, Copying

\* The converse of KindsSettled.
LEMMA KindsMade ==
  ASSUME RomInv, stage \in Mid
  PROVE  /\ ~conf.none => <<"custom", "">> \in Kinds(board[target], conf)
         /\ conf.none /\ payload.seabios /\ ~payload.grubsea =>
              <<"seabios", "">> \in Kinds(board[target], conf)
         /\ conf.none /\ payload.uboot = "amd64" /\ graphical /\ ~payload.grubsea =>
              <<"seauboot", "">> \in Kinds(board[target], conf)
         /\ conf.none /\ payload.uboot = "arm64" /\ graphical =>
              <<"uboot", "">> \in Kinds(board[target], conf)
         /\ conf.none /\ payload.grub =>
              \A k \in Range(Keymaps) : <<IF payload.grubsea THEN "grub" ELSE "seagrub", k>>
                                            \in Kinds(board[target], conf)
  <1> DEFINE b == board[target]
             graphics  == conf.init # "normal" /\ conf.display # "txtmode"
             grubfirst == b.grub /\ b.grubsea /\ conf.init # "normal"
             seabios   == b.seabios \/ b.grub \/ b.uboot \in X86
  <1>1. /\ payload.grub = b.grub /\ payload.uboot = b.uboot
        /\ payload.grubsea = grubfirst /\ payload.seabios = seabios
        /\ graphics = graphical
    BY BoardType DEF RomInv, Settled, graphical
  <1>2. ~conf.none => <<"custom", "">> \in Kinds(b, conf)
    BY DEF Kinds
  <1>3. conf.none =>
          Kinds(b, conf) =
              {<<"seabios", "">> : y \in {seabios /\ ~grubfirst} \ {FALSE}}
                \cup {<<"seauboot", "">> : y \in {b.uboot = "amd64" /\ graphics /\ ~grubfirst} \ {FALSE}}
                \cup {<<"uboot", "">> : y \in {b.uboot = "arm64" /\ graphics} \ {FALSE}}
                \cup {<<IF grubfirst THEN "grub" ELSE "seagrub", k>> :
                        k \in IF b.grub THEN Range(Keymaps) ELSE {}}
    BY DEF Kinds
  <1> HIDE DEF b, graphics, grubfirst, seabios
  <1>4. conf.none /\ seabios /\ ~grubfirst => <<"seabios", "">> \in Kinds(b, conf)
    BY <1>3
  <1>5. conf.none /\ b.uboot = "amd64" /\ graphics /\ ~grubfirst =>
          <<"seauboot", "">> \in Kinds(b, conf)
    BY <1>3
  <1>6. conf.none /\ b.uboot = "arm64" /\ graphics => <<"uboot", "">> \in Kinds(b, conf)
    BY <1>3
  <1>7. conf.none /\ b.grub =>
          \A k \in Range(Keymaps) : <<IF grubfirst THEN "grub" ELSE "seagrub", k>> \in Kinds(b, conf)
    BY <1>3
  <1>8. QED
    BY <1>1, <1>2, <1>4, <1>5, <1>6, <1>7 DEF b

\* What is copied is an image that the board is to have.
LEMMA CopyingNames ==
  ASSUME RomInv, Copying, stage' # "idle"
  PROVE  \/ bin' = bin
         \/ \E p, keymap, new : /\ Copied(p, keymap, ImageOf(new))
                                /\ <<p, keymap>> \in Kinds(board[target], conf)
                                /\ "coreboot" \notin DOMAIN new
  <1>1. CASE cprom_seabios
    <2>1. stage = "seabios" /\ stage \in Mid /\ conf.none /\ payload.seabios
      BY <1>1 DEF cprom_seabios, Mid, Menu, RomInv, Settled
    <2>2. CASE ~payload.grubsea
      <3>1. cprom("seabios", "", Empty, "seauboot")
        BY <1>1, <2>2 DEF cprom_seabios
      <3>2. "coreboot" \notin DOMAIN Empty
        BY DEF Empty
      <3>3. Copied("seabios", "", ImageOf(Empty))
        BY <3>1, CpromCases
      <3>4. QED
        BY <2>1, <2>2, <3>2, <3>3, KindsMade
    <2>3. CASE payload.grubsea
      BY <1>1, <2>3 DEF cprom_seabios, add_nothing
    <2>4. QED
      BY <2>2, <2>3
  <1>2. CASE cprom_seauboot
    <2> DEFINE made == payload.uboot = "amd64" /\ graphical /\ ~payload.grubsea
               new  == File("bootorder", "img/u-boot")
    <2>1. stage = "seauboot" /\ stage \in Mid /\ conf.none
      BY <1>2 DEF cprom_seauboot, Mid, Menu, RomInv, Settled
    <2>2. CASE made
      <3>1. cprom("seauboot", "", new, "seagrub")
        BY <1>2, <2>2 DEF cprom_seauboot
      <3>2. "coreboot" \notin DOMAIN new
        BY DEF File
      <3> HIDE DEF new
      <3>3. Copied("seauboot", "", ImageOf(new))
        BY <3>1, CpromCases
      <3>4. QED
        BY <2>1, <2>2, <3>2, <3>3, KindsMade
    <2>3. CASE ~made
      BY <1>2, <2>3 DEF cprom_seauboot, add_nothing
    <2>4. QED
      BY <2>2, <2>3
  <1>3. CASE cprom_keymap
    <2> DEFINE keymap == Head(keymaps)
               new == File("keymap.gkb", keymap)
               next == IF keymaps' = <<>> THEN "configs" ELSE stage
    <2>1. /\ stage = "keymaps" /\ stage \in Mid /\ conf.none /\ payload.grub
          /\ keymaps # <<>> /\ Range(keymaps) \subseteq Range(Keymaps)
          /\ pname = IF payload.grubsea THEN "grub" ELSE "seagrub"
      BY <1>3 DEF cprom_keymap, Mid, Menu, RomInv, Settled
    <2>2. cprom(pname, keymap, new, next)
      BY <1>3 DEF cprom_keymap
    <2>3. "coreboot" \notin DOMAIN new
      BY DEF File
    <2> HIDE DEF new, next
    <2>4. Copied(pname, keymap, ImageOf(new))
      BY <2>2, CpromCases
    <2>5. keymap \in Range(Keymaps)
      BY <2>1, RangeTail DEF RomInv, RomType
    <2> HIDE DEF keymap
    <2>6. <<pname, keymap>> \in Kinds(board[target], conf)
      BY <2>1, <2>5, KindsMade
    <2>7. QED
      BY <2>3, <2>4, <2>6
  <1>4. CASE cprom_uboot
    <2> DEFINE made == payload.uboot = "arm64" /\ graphical
    <2>1. stage = "payload" /\ stage \in Mid /\ conf.none
      BY <1>4 DEF cprom_uboot, Mid
    <2>2. CASE made
      <3>1. cprom("uboot", "", add_uboot, "configs")
        BY <1>4, <2>2 DEF cprom_uboot
      <3>2. "coreboot" \notin DOMAIN add_uboot
        BY <2>2, UbootFiles DEF File
      <3>3. Copied("uboot", "", ImageOf(add_uboot))
        BY <3>1, CpromCases
      <3>4. QED
        BY <2>1, <2>2, <3>2, <3>3, KindsMade
    <2>3. CASE ~made
      BY <1>4, <2>3 DEF cprom_uboot, add_nothing
    <2>4. QED
      BY <2>2, <2>3
  <1>5. CASE cprom_custom
    <2>1. stage = "payload" /\ stage \in Mid /\ ~conf.none
      BY <1>5 DEF cprom_custom, Mid
    <2>2. cprom("custom", "", Empty, "configs")
      BY <1>5 DEF cprom_custom
    <2>3. "coreboot" \notin DOMAIN Empty
      BY DEF Empty
    <2>4. Copied("custom", "", ImageOf(Empty))
      BY <2>2, CpromCases
    <2>5. QED
      BY <2>1, <2>3, <2>4, KindsMade
  <1>6. QED
    BY <1>1, <1>2, <1>3, <1>4, <1>5 DEF Copying

\* Between two runs there is a start of a run, or a change of the configuration;
\* within a run, its task and the configuration stay the same.
LEMMA Idling ==
  ASSUME RomInv, [RomNext]_romVars
  PROVE  \/ stage' = "idle"
         \/ task' = "build" /\ stage = "idle"
         \/ stage = "idle" /\ \E relmode \in {"release", "src"} : Release(relmode)
         \/ UNCHANGED <<task, board>> /\ stage # "idle"
  <1> USE DEF Exit, Proceed, Begin, run, world, Mid
  <1>1. CASE \E t \in Targets, b \in Boards : Edit(t, b)
    BY <1>1 DEF Edit
  <1>2. CASE \E S \in SUBSET Targets \ {{}} : \E ts \in SetToSeqs(S) : Build(ts)
    BY <1>2 DEF Build
  <1>3. CASE \E relmode \in {"release", "src"} : Release(relmode)
    BY <1>3 DEF Release
  <1>4. CASE fetch \/ prune \/ prep_release_tarball \/ dry \/ work_end \/ nuke \/ done \/ Abort
    BY <1>4 DEF fetch, prune, prep_release_tarball, dry, work_end, nuke, done, Abort
  <1>5. CASE \E packed \in SUBSET DOMAIN bin["clone"][target] : mkrom_tarball(packed)
    BY <1>5 DEF mkrom_tarball
  <1>6. CASE \E moved \in SUBSET DOMAIN roms : publish(moved)
    BY <1>6 DEF publish
  <1>7. CASE handle_defconfig \/ mkcorebootbin_real
    BY <1>7 DEF handle_defconfig, mkcorebootbin_real
  <1>8. CASE Making
    BY <1>8, MakingFrame
  <1>9. CASE UNCHANGED romVars
    BY <1>9 DEF romVars
  <1>10. QED
    BY <1>1, <1>2, <1>3, <1>4, <1>5, <1>6, <1>7, <1>8, <1>9 DEF RomNext, Step, Making, Copying

\* All other steps leave the clone's images alone, or remove some.
LEMMA CloneShrinks ==
  ASSUME RomInv, [RomNext]_romVars, ~Copying
  PROVE  \A t \in Targets : bin'["clone"][t] \in {Empty, bin["clone"][t]}
  <1> USE DEF files, dirs
  <1>1. CASE \E relmode \in {"release", "src"} : Release(relmode)
    BY <1>1 DEF Release, RomInv, RomType
  <1>2. CASE \E packed \in SUBSET DOMAIN bin["clone"][target] : mkrom_tarball(packed)
    BY <1>2 DEF mkrom_tarball, RomInv, RomType
  <1>3. ASSUME ~(\E relmode \in {"release", "src"} : Release(relmode)),
               ~(\E packed \in SUBSET DOMAIN bin["clone"][target] : mkrom_tarball(packed))
        PROVE  bin' = bin
    BY <1>3, BinKept
  <1>4. QED
    BY <1>1, <1>2, <1>3

LEMMA CloneImagesStep ==
  ASSUME RomInv, Tasks, CloneImages, [RomNext]_romVars
  PROVE  CloneImages'
  <1> USE DEF Mid
  <1>1. CASE Copying
    <2>0. Making
      BY <1>1 DEF Making
    <2>1. SUFFICES ASSUME task' # "build", stage' # "idle", NEW t \in Targets,
                          NEW n \in DOMAIN bin'["clone"][t]
                   PROVE  n \in Names(board[t]) /\ Carries(bin'["clone"][t][n], {"in", "none"})
      <3>1. board' = board
        BY <2>0, MakingFrame
      <3>2. QED
        BY <3>1 DEF CloneImages
    <2>2. /\ UNCHANGED <<board, task, target>> /\ stage \in Mid /\ target \in Targets
      BY <2>0, MakingFrame DEF RomInv, RomType
    <2>3. where = "clone"
      BY <2>1, <2>2 DEF where
    <2>4. CASE n \in DOMAIN bin["clone"][t] /\ bin'["clone"][t][n] = bin["clone"][t][n]
      BY <2>1, <2>2, <2>4 DEF CloneImages
    <2>5. CASE ~(n \in DOMAIN bin["clone"][t] /\ bin'["clone"][t][n] = bin["clone"][t][n])
      <3>1. PICK p, keymap, new : /\ Copied(p, keymap, ImageOf(new))
                                  /\ <<p, keymap>> \in Kinds(board[target], conf)
        BY <1>1, <2>1, <2>5, CopyingNames
      <3> DEFINE name == ImageName(p, keymap)
                 old == bin[where][target]
                 image == ImageOf(new)
      <3>2. bin' = [bin EXCEPT ![where][target] = File(name, image) ++ old]
        BY <3>1 DEF Copied, ImageName
      <3>3. bin = [dd \in {"work", "clone"} |-> [tt \in Targets |-> bin[dd][tt]]]
        BY DEF RomInv, RomType
      <3>4. image.vendor \in {"in", "none"} /\ image = [files |-> image.files, vendor |-> image.vendor]
        BY DEF ImageOf
      <3>5. name \in Names(board[target])
        <4>1. name = NameOf(conf, <<p, keymap>>)
          BY DEF ImageName, NameOf
        <4>2. conf \in Range(board[target].configs)
          BY <2>2, ConfIn
        <4>3. QED
          BY <3>1, <4>1, <4>2 DEF Names, NameOf
      <3> HIDE DEF name, old, image
      <3>6. t = target
        BY <2>2, <2>3, <2>5, <3>2, <3>3
      <3>7. bin'["clone"][t] = File(name, image) ++ old
        BY <2>2, <2>3, <3>2, <3>3, <3>6
      <3>8. n = name /\ bin'["clone"][t][n] = image
        BY <2>3, <2>5, <3>6, <3>7 DEF ++, File, old
      <3>9. QED
        BY <3>4, <3>5, <3>6, <3>8 DEF Carries
    <2>6. QED
      BY <2>4, <2>5
  <1>2. CASE ~Copying
    <2>1. \A t \in Targets : bin'["clone"][t] \in {Empty, bin["clone"][t]}
      BY <1>2, CloneShrinks
    <2>2. CASE \E relmode \in {"release", "src"} : Release(relmode)
      <3>1. \A t \in Targets : bin'["clone"][t] = Empty
        BY <2>2 DEF Release, RomInv, RomType
      <3>2. QED
        BY <3>1 DEF CloneImages, Empty
    <2>3. CASE task' = "build" \/ stage' = "idle"
      BY <2>3 DEF CloneImages
    <2>4. CASE task' = task /\ stage # "idle" /\ board' = board
      BY <2>1, <2>4 DEF CloneImages, Empty
    <2>5. QED
      BY <2>2, <2>3, <2>4, Idling
  <1>3. QED
    BY <1>1, <1>2

\* The archives change when one is packed, when its vendor files are removed,
\* and when a release starts.
LEMMA RomsKept ==
  ASSUME RomInv, [RomNext]_romVars, ~nuke,
         ~(\E relmode \in {"release", "src"} : Release(relmode)),
         ~(\E packed \in SUBSET DOMAIN bin["clone"][target] : mkrom_tarball(packed))
  PROVE  (UNCHANGED <<roms, tar>> /\ stage' # "nuke") \/ UNCHANGED <<roms, tar, stage, target>>
  <1> USE DEF Exit, Proceed, Begin, files, dirs, loops, Mid
  <1>1. ASSUME NEW t \in Targets, NEW b \in Boards, Edit(t, b)
        PROVE  UNCHANGED <<roms, tar, stage, target>>
    BY <1>1 DEF Edit
  <1>2. ASSUME NEW S \in SUBSET Targets \ {{}}, NEW ts \in SetToSeqs(S), Build(ts)
        PROVE  UNCHANGED <<roms, tar>> /\ stage' # "nuke"
    BY <1>2 DEF Build
  <1>3. ASSUME fetch \/ prune \/ prep_release_tarball \/ dry \/ work_end \/ done \/ Abort
        PROVE  UNCHANGED <<roms, tar>> /\ stage' # "nuke"
    BY <1>3 DEF fetch, prune, prep_release_tarball, dry, work_end, done, Abort
  <1>4. ASSUME NEW moved \in SUBSET DOMAIN roms, publish(moved)
        PROVE  UNCHANGED <<roms, tar>> /\ stage' # "nuke"
    BY <1>4 DEF publish
  <1>5. ASSUME handle_defconfig \/ mkcorebootbin_real
        PROVE  UNCHANGED <<roms, tar>> /\ stage' # "nuke"
    BY <1>5 DEF handle_defconfig, mkcorebootbin_real
  <1>6. ASSUME Making
        PROVE  UNCHANGED <<roms, tar>> /\ stage' # "nuke"
    BY <1>6, MakingFrame
  <1>7. ASSUME UNCHANGED romVars
        PROVE  UNCHANGED <<roms, tar, stage, target>>
    BY <1>7 DEF romVars
  <1>8. QED
    BY <1>1, <1>2, <1>3, <1>4, <1>5, <1>6, <1>7 DEF RomNext, Step, Making, Copying

LEMMA FromNuke ==
  ASSUME RomInv, [RomNext]_romVars, stage = "nuke", ~nuke
  PROVE  stage' \in {"idle", "nuke"}
  <1> USE DEF Exit, Proceed, Begin, Mid
  <1>1. ~Making
    BY MakingFrame
  <1>2. ~(\E t \in Targets, b \in Boards : Edit(t, b))
    BY DEF Edit
  <1>3. ~(\E S \in SUBSET Targets \ {{}} : \E ts \in SetToSeqs(S) : Build(ts))
    BY DEF Build
  <1>4. ~(\E relmode \in {"release", "src"} : Release(relmode))
    BY DEF Release
  <1>5. ~(fetch \/ prune \/ prep_release_tarball \/ dry \/ work_end \/ done)
    BY DEF fetch, prune, prep_release_tarball, dry, work_end, done
  <1>6. ~(\E packed \in SUBSET DOMAIN bin["clone"][target] : mkrom_tarball(packed))
    BY DEF mkrom_tarball
  <1>7. ~(\E moved \in SUBSET DOMAIN roms : publish(moved))
    BY DEF publish
  <1>8. ~(handle_defconfig \/ mkcorebootbin_real)
    BY DEF handle_defconfig, mkcorebootbin_real
  <1>9. Abort \/ UNCHANGED romVars
    BY <1>1, <1>2, <1>3, <1>4, <1>5, <1>6, <1>7, <1>8 DEF RomNext, Step, Making, Copying
  <1>10. QED
    BY <1>9 DEF Abort, romVars

\* nuke takes the vendor files out, and nothing else.
LEMMA NukedImage ==
  ASSUME NEW image, Carries(image, {"in", "out", "none"}), NEW b, NEW n
  PROVE  LET out == [image EXCEPT !.vendor = IF @ = "in" THEN "out" ELSE @]
         IN  /\ Carries(out, {"out", "none"})
             /\ Current(image, b, n) => Current(out, b, n)
  <1> DEFINE out == [image EXCEPT !.vendor = IF @ = "in" THEN "out" ELSE @]
             f   == image.files
             v   == image.vendor
  <1>1. image = [files |-> f, vendor |-> v] /\ v \in {"in", "out", "none"}
    BY DEF Carries
  <1> HIDE DEF f, v
  <1>2. out = [files |-> f, vendor |-> IF v = "in" THEN "out" ELSE v]
    BY <1>1
  <1> HIDE DEF out
  <1>3. out.files = f /\ out.vendor = (IF v = "in" THEN "out" ELSE v)
        /\ image.files = f /\ out = [files |-> out.files, vendor |-> out.vendor]
    BY <1>1, <1>2
  <1>4. Carries(out, {"out", "none"})
    BY <1>1, <1>3 DEF Carries
  <1>5. out # Torn
    BY <1>1, <1>3 DEF Torn
  <1>6. \A name : At(out, name) = At(image, name)
    BY <1>3 DEF At
  <1>7. Current(image, b, n) => Current(out, b, n)
    BY <1>5, <1>6 DEF Current
  <1>8. QED
    BY <1>4, <1>7 DEF out

LEMMA ArchivesStep ==
  ASSUME RomInv, Tasks, Made, CloneImages, Archives, [RomNext]_romVars
  PROVE  Archives'
  <1> USE DEF Exit, Proceed, Begin, run, files, dirs, loops, Mid
  <1>1. CASE \E relmode \in {"release", "src"} : Release(relmode)
    BY <1>1 DEF Release, Archives, Empty
  <1>2. CASE \E packed \in SUBSET DOMAIN bin["clone"][target] : mkrom_tarball(packed)
    <2> DEFINE dir == bin["clone"][target]
    <2>1. PICK packed \in SUBSET DOMAIN dir : mkrom_tarball(packed)
      BY <1>2
    <2> DEFINE arch == [n \in packed |-> dir[n]]
    <2>2. /\ stage = "configs" /\ configs = <<>> /\ task = "release"
          /\ roms' = File(target, arch) ++ roms /\ stage' = "nuke"
          /\ UNCHANGED <<board, task, target>>
          /\ tar' # "torn" => tar # "torn" /\ packed = DOMAIN dir
      BY <2>1 DEF mkrom_tarball
    <2>3. target \in Targets /\ where = "clone"
      BY <2>2 DEF RomInv, RomType, where
    <2>4. \A n \in packed : n \in Names(board[target]) /\ Carries(dir[n], {"in", "out", "none"})
      BY <2>1, <2>2, <2>3 DEF CloneImages, Carries
    <2>5. \A n \in Names(board[target]) : n \in DOMAIN dir /\ Current(dir[n], board[target], n)
      BY <2>2, <2>3, BoardFinished DEF Finished, Good
    <2>6. /\ DOMAIN roms' = {target} \cup DOMAIN roms /\ roms'[target] = arch
          /\ \A t \in DOMAIN roms \ {target} : roms'[t] = roms[t]
      BY <2>2 DEF ++, File
    <2>7. DOMAIN arch = packed /\ \A n \in packed : arch[n] = dir[n]
      OBVIOUS
    <2> HIDE DEF arch, dir
    <2>8. ASSUME NEW t \in DOMAIN roms', NEW n \in DOMAIN roms'[t]
          PROVE  \/ Carries(roms'[t][n], {"out", "none"})
                 \/ stage' = "nuke" /\ t = target' /\ Carries(roms'[t][n], {"in", "out", "none"})
      <3>1. CASE t = target
        BY <2>2, <2>4, <2>6, <2>7, <2>8, <3>1
      <3>2. CASE t # target
        BY <2>2, <2>6, <2>8, <3>2 DEF Archives
      <3>3. QED
        BY <3>1, <3>2
    <2>9. ASSUME tar' # "torn", NEW t \in DOMAIN roms'
          PROVE  /\ DOMAIN roms'[t] = Names(board[t])
                 /\ \A n \in DOMAIN roms'[t] : Current(roms'[t][n], board[t], n)
      <3>1. CASE t = target
        BY <2>1, <2>2, <2>4, <2>5, <2>6, <2>7, <2>9, <3>1
      <3>2. CASE t # target
        BY <2>2, <2>6, <2>9, <3>2 DEF Archives
      <3>3. QED
        BY <3>1, <3>2
    <2>10. QED
      BY <2>2, <2>8, <2>9 DEF Archives
  <1>3. CASE nuke
    <2>1. /\ stage = "nuke" /\ stage' = "targets" /\ UNCHANGED <<board, task, target, tar>>
          /\ roms' = [roms EXCEPT ![target] = nuked(@)]
      BY <1>3 DEF nuke, world
    <2>2. task # "build"
      BY <2>1 DEF Tasks
    <2>3. DOMAIN roms' = DOMAIN roms /\ \A t \in DOMAIN roms \ {target} : roms'[t] = roms[t]
      BY <2>1
    <2>4. target \in DOMAIN roms =>
            /\ DOMAIN roms'[target] = DOMAIN roms[target]
            /\ \A n \in DOMAIN roms[target] :
                 roms'[target][n] =
                   [roms[target][n] EXCEPT !.vendor = IF @ = "in" THEN "out" ELSE @]
      BY <2>1 DEF nuked
    <2>5. \A t \in DOMAIN roms : \A n \in DOMAIN roms[t] :
            \/ Carries(roms[t][n], {"out", "none"})
            \/ t = target /\ Carries(roms[t][n], {"in", "out", "none"})
      BY <2>1, <2>2 DEF Archives
    <2>6. ASSUME NEW t \in DOMAIN roms, NEW n \in DOMAIN roms[t]
          PROVE  /\ Carries(roms'[t][n], {"out", "none"})
                 /\ Current(roms[t][n], board[t], n) => Current(roms'[t][n], board[t], n)
      <3>1. CASE t = target
        <4>1. Carries(roms[t][n], {"in", "out", "none"})
          BY <2>5 DEF Carries
        <4>2. roms'[t][n] = [roms[t][n] EXCEPT !.vendor = IF @ = "in" THEN "out" ELSE @]
          BY <2>4, <2>6, <3>1
        <4>3. QED
          BY <4>1, <4>2, NukedImage
      <3>2. CASE t # target
        BY <2>3, <2>5, <3>2
      <3>3. QED
        BY <3>1, <3>2
    <2>7. \A t \in DOMAIN roms : DOMAIN roms'[t] = DOMAIN roms[t]
      BY <2>3, <2>4
    <2>8. tar # "torn" =>
            \A t \in DOMAIN roms :
              /\ DOMAIN roms[t] = Names(board[t])
              /\ \A n \in DOMAIN roms[t] : Current(roms[t][n], board[t], n)
      BY <2>1, <2>2 DEF Archives
    <2>9. QED
      BY <2>1, <2>3, <2>6, <2>7, <2>8 DEF Archives
  <1>4. ASSUME ~nuke, ~(\E relmode \in {"release", "src"} : Release(relmode)),
               ~(\E packed \in SUBSET DOMAIN bin["clone"][target] : mkrom_tarball(packed))
        PROVE  Archives'
    <2>1. UNCHANGED <<roms, tar>>
      BY <1>4, RomsKept
    <2>2. stage' # "nuke" \/ UNCHANGED <<stage, target>>
      BY <1>4, RomsKept
    <2>3. CASE stage' = "idle" \/ task' = "build"
      BY <2>3 DEF Archives
    <2>4. CASE UNCHANGED <<task, board>> /\ stage # "idle"
      <3>1. CASE UNCHANGED <<stage, target>>
        BY <2>1, <2>4, <3>1 DEF Archives
      <3>2. CASE stage' # "nuke" /\ stage # "nuke"
        BY <2>1, <2>4, <3>2 DEF Archives
      <3>3. CASE stage = "nuke" /\ stage' # "nuke"
        BY <1>4, <3>3, <2>3, FromNuke
      <3>4. QED
        BY <2>2, <3>1, <3>2, <3>3
    <2>5. QED
      BY <1>4, <2>3, <2>4, Idling
  <1>5. QED
    BY <1>1, <1>2, <1>3, <1>4

LEMMA PublishedKept ==
  ASSUME RomInv, [RomNext]_romVars, ~(\E moved \in SUBSET DOMAIN roms : publish(moved))
  PROVE  published' = published /\ (tar' # "torn" => tar # "torn")
  <1> USE DEF files, dirs
  <1>1. CASE \E t \in Targets, b \in Boards : Edit(t, b)
    BY <1>1 DEF Edit
  <1>2. CASE \E S \in SUBSET Targets \ {{}} : \E ts \in SetToSeqs(S) : Build(ts)
    BY <1>2 DEF Build
  <1>3. CASE \E relmode \in {"release", "src"} : Release(relmode)
    BY <1>3 DEF Release
  <1>4. CASE fetch \/ prune \/ prep_release_tarball \/ dry \/ work_end \/ nuke \/ done \/ Abort
    BY <1>4 DEF fetch, prune, prep_release_tarball, dry, work_end, nuke, done, Abort
  <1>5. CASE \E packed \in SUBSET DOMAIN bin["clone"][target] : mkrom_tarball(packed)
    BY <1>5 DEF mkrom_tarball
  <1>6. CASE handle_defconfig \/ mkcorebootbin_real
    BY <1>6 DEF handle_defconfig, mkcorebootbin_real
  <1>7. CASE Making
    BY <1>7, MakingFrame
  <1>8. CASE UNCHANGED romVars
    BY <1>8 DEF romVars
  <1>9. QED
    BY <1>1, <1>2, <1>3, <1>4, <1>5, <1>6, <1>7, <1>8 DEF RomNext, Step, Making, Copying

\* What is published of a release, in terms of its parts.
PublishedClean(r) ==
  /\ r.source = {}
  /\ \A t \in DOMAIN r.roms : \A n \in DOMAIN r.roms[t] : r.roms[t][n].vendor \in {"out", "none"}
  /\ r.whole /\ r.mode = "release" => DOMAIN r.roms = {t \in Targets : r.board[t].releasable}

PublishedWhole(r) ==
  r.whole =>
    \A t \in DOMAIN r.roms :
      /\ DOMAIN r.roms[t] = Names(r.board[t])
      /\ \A n \in DOMAIN r.roms[t] : Current(r.roms[t][n], r.board[t], n)

LEMMA CleanStep ==
  ASSUME RomInv, Tasks, Sources, Archives, Archived, ReleasedClean, [RomNext]_romVars
  PROVE  ReleasedClean'
  <1>1. CASE \E moved \in SUBSET DOMAIN roms : publish(moved)
    <2>1. PICK moved \in SUBSET DOMAIN roms : publish(moved)
      BY <1>1
    <2> DEFINE part == [t \in moved |-> roms[t]]
               whole == moved = DOMAIN roms
               r == [board |-> board, mode |-> task, whole |-> whole, source |-> source, roms |-> part]
    <2>2. stage = "publish" /\ published' = <<r>> /\ tar' = tar
      BY <2>1 DEF publish, dirs
    <2>3. task # "build"
      BY <2>2 DEF Tasks, Mid
    <2>4. /\ r.source = source /\ r.board = board /\ r.mode = task /\ r.roms = part
          /\ r.whole = whole
      OBVIOUS
    <2>5. DOMAIN part = moved /\ \A t \in moved : t \in DOMAIN roms /\ part[t] = roms[t]
      OBVIOUS
    <2> HIDE DEF r, part
    <2>6. source = {}
      BY <2>2, <2>3 DEF Sources
    <2>7. \A t \in DOMAIN part : \A n \in DOMAIN part[t] : part[t][n].vendor \in {"out", "none"}
      BY <2>2, <2>3, <2>5 DEF Archives, Carries
    <2>8. task = "release" => DOMAIN roms = {t \in Targets : board[t].releasable}
      <3>1. Range(<<>>) = {}
        BY DEF Range
      <3>2. QED
        BY <2>2, <3>1 DEF Archived, Mid
    <2>9. PublishedClean(r)
      BY <2>4, <2>5, <2>6, <2>7, <2>8 DEF PublishedClean
    <2>10. tar # "torn" => PublishedWhole(r)
      BY <2>2, <2>3, <2>4, <2>5 DEF Archives, PublishedWhole
    <2>11. DOMAIN published' = {1} /\ published'[1] = r
      BY <2>2
    <2> HIDE DEF whole
    <2>12. QED
      BY <2>2, <2>9, <2>10, <2>11 DEF ReleasedClean, PublishedClean, PublishedWhole
  <1>2. CASE ~(\E moved \in SUBSET DOMAIN roms : publish(moved))
    BY <1>2, PublishedKept DEF ReleasedClean
  <1>3. QED
    BY <1>1, <1>2

\* Whatever of a release is published, whole or not, is without vendor files and
\* leftovers of the build; a whole release has all images of all boards that
\* are to be released, and no others (release.sh, mkhelper's mkrom_tarball).
THEOREM ReleasedCleanCorrect == RomSpec => []ReleasedClean
  <1>1. RomInit => Tasks /\ Made /\ Sources /\ CloneImages /\ Archives /\ Archived /\ ReleasedClean
    <2>1. DOMAIN <<>> = {}
      OBVIOUS
    <2>2. RomInit => ReleasedClean
      BY <2>1 DEF RomInit, ReleasedClean
    <2>3. QED
      BY <2>2 DEF RomInit, Tasks, Made, Sources, CloneImages, Archives, Archived, Mid
  <1>2. RomInv /\ Tasks /\ Made /\ Sources /\ CloneImages /\ Archives /\ Archived /\ ReleasedClean
          /\ [RomNext]_romVars
        => Tasks' /\ Made' /\ Sources' /\ CloneImages' /\ Archives' /\ Archived' /\ ReleasedClean'
    BY TasksStep, MadeStep, SourcesStep, CloneImagesStep, ArchivesStep, ArchivedStep, CleanStep
  <1>3. QED
    BY RomInvCorrect, <1>1, <1>2, PTL DEF RomSpec

=============================================================================
