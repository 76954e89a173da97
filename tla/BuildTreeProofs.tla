-------------------------- MODULE BuildTreeProofs ---------------------------
(***************************************************************************)
(* Proofs about BuildTree, for any set of targets and any number of        *)
(* configurations:                                                         *)
(*   - type correctness;                                                   *)
(*   - in a multi-tree project, whatever is in rare, a successful build is *)
(*     never one of another configuration, and no current result is built  *)
(*     again;                                                              *)
(*   - in a multi-tree project where rare is empty, a successful build is  *)
(*     complete and current, and make finds its cross compiler;            *)
(*   - in a single-tree project where rare is empty, a successful build is *)
(*     complete, and as current as its hash can tell.                      *)
(***************************************************************************)
EXTENDS BuildTree, TLAPS

LEMMA TypeCorrectInit == Init => TypeOK
  <1> SUFFICES ASSUME Init PROVE TypeOK
    OBVIOUS
  <1>1. 1 \in Version /\ None \in Made
    BY BuildTreeAssumption DEF Version, None, Made
  <1>2. NoResult \in Result
    BY <1>1 DEF NoResult, Result
  <1>3. xgcc \in BOOLEAN /\ marker \in BOOLEAN
    BY DEF Init
  <1>4. QED
    BY <1>1, <1>2, <1>3 DEF Init, TypeOK

LEMMA Values ==
  /\ Version \subseteq Made /\ None \in Made /\ Torn \in Made
  /\ None \notin Version /\ Torn \notin Version
  /\ NoResult \in Result
  BY BuildTreeAssumption DEF Version, Made, None, Torn, NoResult, Result

\* What the copying of results makes of them.
LEMMA ElfUpdate ==
  ASSUME TypeOK, NEW r \in Result, elf' = [elf EXCEPT ![target] = r]
  PROVE  /\ elf' \in [Targets -> Result]
         /\ elf'[target] = r
         /\ \A t \in Targets : t # target => elf'[t] = elf[t]
  BY DEF TypeOK

\* Results copied from the tree as it is.
Copied(files) == [files |-> files, src |-> src, conf |-> targconf[target]]

LEMMA CopyUpdate ==
  ASSUME TypeOK
  PROVE  /\ Copied("some") \in Result /\ Copied("all") \in Result
         /\ CopyFirst => elf' = [elf EXCEPT ![target] = Copied("some")]
         /\ CopyRest => \/ elf' = elf /\ outcome' = "err"
                        \/ elf' = [elf EXCEPT ![target] = Copied("all")]
  <1>1. targconf[target] \in Made /\ src \in Made
    BY Values DEF TypeOK
  <1>2. QED
    BY <1>1 DEF CopyFirst, CopyRest, Result, End, Copied

LEMMA TypeStep == TypeOK /\ [Next]_vars => TypeOK'
  <1> SUFFICES ASSUME TypeOK, [Next]_vars PROVE TypeOK'
    OBVIOUS
  <1> USE Values DEF Goto, End, conf, made
  <1>1. CASE Request
    <2>1. PICK t \in Targets, m \in {"build", "xclean"} : Start(t, m)
      BY <1>1 DEF Request
    <2>2. QED
      BY <2>1 DEF Start, TypeOK
  <1>2. CASE Configure
    <2>1. PICK v \in Version :
            ConfigureTree(v) \/ ConfigurePkg(v) \/ \E t \in Targets : ConfigureTarget(t, v)
      BY <1>2 DEF Configure
    <2>2. QED
      BY <2>1 DEF ConfigureTree, ConfigurePkg, ConfigureTarget, TypeOK
  <1>3. CASE Dependencies \/ CheckHash \/ CheckTargetHash \/ ElfCheck \/ Make
    BY <1>3 DEF Dependencies, CheckHash, CheckTargetHash, ElfCheck, Make, TypeOK
  <1>4. CASE RemoveSrc \/ RemoveElf \/ Record
    BY <1>4 DEF RemoveSrc, RemoveElf, Record, TypeOK
  <1>5. CASE RemoveTarget
    <2>1. elf' \in [Targets -> Result]
      BY <1>5, ElfUpdate DEF RemoveTarget
    <2>2. QED
      BY <1>5, <2>1 DEF RemoveTarget, TypeOK
  <1>6. CASE RecordTarget
    BY <1>6 DEF RecordTarget, TypeOK
  <1>7. CASE Fetch
    BY <1>7 DEF Fetch, TypeOK
  <1>8. CASE CrossCompiler \/ TouchMarker \/ CrossgccClean
    BY <1>8 DEF CrossCompiler, TouchMarker, CrossgccClean, TypeOK
  <1>9. CASE CopyFirst
    <2>1. elf' \in [Targets -> Result]
      BY <1>9, ElfUpdate, CopyUpdate
    <2>2. QED
      BY <1>9, <2>1 DEF CopyFirst, TypeOK
  <1>10. CASE CopyRest
    <2>1. elf' \in [Targets -> Result]
      BY <1>10, ElfUpdate, CopyUpdate DEF TypeOK
    <2>2. QED
      BY <1>10, <2>1 DEF CopyRest, TypeOK
  <1>11. CASE Kill
    BY <1>11 DEF Kill, TypeOK
  <1>12. CASE KillRecord
    BY <1>12 DEF KillRecord, TypeOK
  <1>13. CASE UNCHANGED vars
    BY <1>13 DEF vars, TypeOK
  <1>14. QED
    BY <1>1, <1>2, <1>3, <1>4, <1>5, <1>6, <1>7, <1>8, <1>9, <1>10, <1>11,
       <1>12, <1>13 DEF Next, Step

\* Every variable keeps its type.
THEOREM TypeCorrect == Spec => []TypeOK
  BY TypeCorrectInit, TypeStep, PTL DEF Spec

-----------------------------------------------------------------------------
(* The inductive invariant of a multi-tree project, whatever is in rare.    *)

\* The commands that work on a fetched tree, and those that follow the record of
\* the target's hash, or of the tree's.
Working     == {"elfcheck", "xgcc", "touch", "make", "copy", "copying", "xclean"}
AfterTarget == {"fetch"} \cup Working
AfterTree   == {"tghash", "rmtarget", "tgrecord"} \cup AfterTarget

\* What is kept in src/ and elf/ comes from the recorded configuration, unless
\* it was being removed.
FromRecorded ==
  /\ rev = treeconf
  /\ hash # Torn => src \in {None, Torn, hash}
  /\ \A t \in Targets : elf[t].files # "none" =>
       /\ hash # Torn => elf[t].src \in {hash, Torn}
       /\ tghash[t] # Torn => elf[t].conf = tghash[t]

\* What a run knows at each of its commands.
StageTree ==
  /\ pc \in {"rmsrc", "rmelf"} => hash \notin {Torn, treeconf}
  /\ pc = "rmelf" => src = None
  /\ pc = "record" =>
       \/ hash = treeconf
       \/ src = None /\ \A t \in Targets : elf[t] = NoResult
  /\ pc \in AfterTree => hash = treeconf

StageTarget ==
  /\ pc = "rmtarget" => tghash[target] \notin {Torn, targconf[target]}
  /\ pc = "tgrecord" => tghash[target] = targconf[target] \/ elf[target] = NoResult
  /\ pc \in AfterTarget => tghash[target] = targconf[target]

StageWork ==
  /\ pc \in Working => src # None
  /\ pc \in {"xgcc", "touch", "make", "copy"} => elf[target].files = "none"
  /\ pc = "copying" => elf[target].files = "some"
  /\ pc = "xclean" => mode = "xclean"
  /\ outcome = "ok" => pc = "idle"

IInv == TypeOK /\ FromRecorded /\ StageTree /\ StageTarget /\ StageWork /\ NeverOther

LEMMA IInvInit == Init => IInv
  <1> SUFFICES ASSUME Init PROVE IInv
    OBVIOUS
  <1>1. TypeOK
    BY TypeCorrectInit
  <1>2. FromRecorded /\ StageTree /\ StageTarget /\ StageWork /\ NeverOther
    BY DEF Init, FromRecorded, StageTree, StageTarget, StageWork, NeverOther, NoResult,
           AfterTree, AfterTarget, Working
  <1>3. QED
    BY <1>1, <1>2 DEF IInv

\* The steps between runs.
LEMMA IInvIdle == ~single /\ IInv /\ (Request \/ Configure) => IInv'
  <1> SUFFICES ASSUME ~single, IInv, Request \/ Configure PROVE IInv'
    OBVIOUS
  <1>1. TypeOK'
    BY TypeStep DEF IInv, Next
  <1>2. CASE Request
    <2>1. PICK t \in Targets, m \in {"build", "xclean"} : Start(t, m)
      BY <1>2 DEF Request
    <2>2. (FromRecorded /\ StageTree /\ StageTarget /\ StageWork /\ NeverOther)'
      BY <2>1 DEF Start, conf, made, IInv, FromRecorded, StageTree, StageTarget, StageWork,
         NeverOther, AfterTree, AfterTarget, Working
    <2>3. QED
      BY <1>1, <2>2 DEF IInv
  <1>3. CASE Configure
    <2>1. PICK v \in Version :
            ConfigureTree(v) \/ ConfigurePkg(v) \/ \E t \in Targets : ConfigureTarget(t, v)
      BY <1>3 DEF Configure
    <2>2. (FromRecorded /\ StageTree /\ StageTarget /\ StageWork /\ NeverOther)'
      BY <2>1 DEF ConfigureTree, ConfigurePkg, ConfigureTarget, made, IInv, FromRecorded,
         StageTree, StageTarget, StageWork, NeverOther, AfterTree, AfterTarget, Working
    <2>3. QED
      BY <1>1, <2>2 DEF IInv
  <1>4. QED
    BY <1>2, <1>3

\* The steps that neither record a hash nor change results.
LEMMA IInvRest ==
  ~single /\ IInv /\
    ( \/ Dependencies \/ CheckHash \/ RemoveSrc \/ CheckTargetHash \/ Fetch \/ ElfCheck
      \/ CrossCompiler \/ TouchMarker \/ Make \/ CrossgccClean \/ Kill \/ KillRecord )
  => IInv'
  <1> SUFFICES ASSUME ~single, IInv,
                      \/ Dependencies \/ CheckHash \/ RemoveSrc \/ CheckTargetHash \/ Fetch
                      \/ ElfCheck \/ CrossCompiler \/ TouchMarker \/ Make \/ CrossgccClean
                      \/ Kill \/ KillRecord
               PROVE  IInv'
    OBVIOUS
  <1> USE DEF IInv, FromRecorded, StageTree, StageTarget, StageWork, NeverOther, AfterTree,
              AfterTarget, Working, Goto, End, conf, made
  <1>1. TypeOK'
    BY TypeStep DEF Next, Step
  <1>2. /\ rev \in Version /\ Torn \notin Version /\ None \notin Version /\ Torn # None
        /\ tghash \in [Targets -> Made] /\ target \in Targets
    BY Values, BuildTreeAssumption DEF TypeOK, Torn, None
  <1>3. CASE Dependencies \/ CheckHash \/ RemoveSrc \/ CheckTargetHash
    BY <1>1, <1>2, <1>3 DEF Dependencies, CheckHash, RemoveSrc, CheckTargetHash
  <1>4. CASE Fetch
    <2>1. /\ hash = rev /\ tghash[target] = targconf[target] /\ pc = "fetch"
          /\ src' \in {src, rev} /\ pc' \in {"elfcheck", "xclean", "idle"}
          /\ pc' \in {"elfcheck", "xclean"} => src' # None
          /\ pc' = "xclean" => mode' = "xclean"
          /\ outcome' \in {outcome, "err"}
          /\ outcome' = outcome \/ pc' = "idle"
          /\ UNCHANGED <<mode, target, conf, hash, tghash, xgcc, marker, elf>>
      BY <1>2, <1>4 DEF Fetch, TypeOK
    <2>2. (FromRecorded /\ StageTree)'
      BY <1>2, <2>1
    <2>3. (StageTarget /\ StageWork /\ NeverOther)'
      BY <1>2, <2>1
    <2>4. QED
      BY <1>1, <2>2, <2>3
  <1>5. CASE ElfCheck
    <2>1. CASE elf[target].files # "none"
      <3>1. elf[target].src \in {hash, Torn} /\ hash = rev
        BY <1>2, <1>5, <2>1 DEF ElfCheck
      <3>2. elf[target].conf = targconf[target]
        BY <1>2, <1>5, <2>1 DEF ElfCheck, TypeOK, Version
      <3>3. QED
        BY <1>1, <1>2, <1>5, <2>1, <3>1, <3>2 DEF ElfCheck
    <2>2. CASE elf[target].files = "none"
      BY <1>1, <1>2, <1>5, <2>2 DEF ElfCheck
    <2>3. QED
      BY <2>1, <2>2
  <1>6. CASE CrossCompiler \/ TouchMarker \/ Make \/ CrossgccClean
    BY <1>1, <1>2, <1>6 DEF CrossCompiler, TouchMarker, Make, CrossgccClean
  <1>7. CASE Kill
    BY <1>1, <1>2, <1>7 DEF Kill
  <1>8. CASE KillRecord
    <2>1. CASE hash' = Torn /\ UNCHANGED tghash
      BY <1>1, <1>2, <1>8, <2>1 DEF KillRecord
    <2>2. CASE tghash' = [tghash EXCEPT ![target] = Torn] /\ UNCHANGED hash
      <3>1. \A t \in Targets : tghash'[t] # Torn => tghash'[t] = tghash[t]
        BY <1>2, <2>2
      <3>2. QED
        BY <1>1, <1>2, <1>8, <2>2, <3>1 DEF KillRecord
    <2>3. QED
      BY <1>8, <2>1, <2>2 DEF KillRecord
  <1>9. QED
    BY <1>3, <1>4, <1>5, <1>6, <1>7, <1>8

\* The steps that record a hash or remove results.
LEMMA IInvRecord ==
  ~single /\ IInv /\ (RemoveElf \/ Record \/ RemoveTarget \/ RecordTarget) => IInv'
  <1> SUFFICES ASSUME ~single, IInv,
                      RemoveElf \/ Record \/ RemoveTarget \/ RecordTarget
               PROVE  IInv'
    OBVIOUS
  <1> USE DEF IInv, FromRecorded, StageTree, StageTarget, StageWork, NeverOther, AfterTree,
              AfterTarget, Working, Goto, conf
  <1>1. TypeOK'
    BY TypeStep DEF Next, Step
  <1>2. /\ rev \in Version /\ Torn \notin Version /\ None \notin Version
        /\ tghash \in [Targets -> Made] /\ target \in Targets
        /\ NoResult.files = "none"
    BY Values DEF TypeOK, NoResult
  <1>3. CASE RemoveElf
    <2>1. \A t \in Targets : elf'[t] = NoResult
      BY <1>3 DEF RemoveElf
    <2>2. QED
      BY <1>1, <1>2, <1>3, <2>1 DEF RemoveElf
  <1>4. CASE Record
    BY <1>1, <1>2, <1>4 DEF Record
  <1>5. CASE RemoveTarget
    <2>1. elf'[target] = NoResult /\ \A t \in Targets : elf'[t] \in {elf[t], NoResult}
      BY <1>2, <1>5 DEF RemoveTarget, TypeOK
    <2>2. QED
      BY <1>1, <1>2, <1>5, <2>1 DEF RemoveTarget
  <1>6. CASE RecordTarget
    <2>1. /\ tghash'[target] = targconf[target]
          /\ \A t \in Targets : t # target => tghash'[t] = tghash[t]
      BY <1>2, <1>6 DEF RecordTarget
    <2>2. elf[target] = NoResult \/ tghash[target] = targconf[target]
      BY <1>6 DEF RecordTarget
    <2>3. QED
      BY <1>1, <1>2, <1>6, <2>1, <2>2 DEF RecordTarget
  <1>7. QED
    BY <1>3, <1>4, <1>5, <1>6

\* The steps that copy results.
LEMMA IInvCopy == ~single /\ IInv /\ (CopyFirst \/ CopyRest) => IInv'
  <1> SUFFICES ASSUME ~single, IInv, CopyFirst \/ CopyRest PROVE IInv'
    OBVIOUS
  <1> DEFINE Made2 == {Copied("some"), Copied("all")}
  <1>1. TypeOK'
    BY TypeStep DEF IInv, Next, Step
  <1>2. /\ pc \in {"copy", "copying"} /\ hash = rev /\ rev = treeconf
        /\ tghash[target] = targconf[target]
        /\ src \in {rev, Torn}
    BY Values DEF CopyFirst, CopyRest, IInv, TypeOK, FromRecorded, StageTree, StageTarget,
                  StageWork, AfterTree, AfterTarget, Working
  <1>3. \A r \in Made2 : /\ r.files # "none" /\ r.src \in {rev, Torn}
                         /\ r.conf = targconf[target]
    BY <1>2 DEF Copied
  <1>4. /\ UNCHANGED <<rev, treeconf, targconf, hash, tghash, src, mode, target>>
        /\ elf' = elf \/ \E r \in Made2 : elf' = [elf EXCEPT ![target] = r]
        /\ pc' \in {"copying", "idle"} /\ outcome' \in {outcome, "ok", "err"}
        /\ pc' = "copying" => /\ elf' = [elf EXCEPT ![target] = Copied("some")]
                              /\ outcome' = outcome
        /\ outcome' = "ok" => \/ outcome = "ok" /\ pc' = "copying"
                              \/ elf' = [elf EXCEPT ![target] = Copied("all")]
    BY CopyUpdate DEF CopyFirst, CopyRest, IInv, Goto, End, conf
  <1>5. \A t \in Targets : \/ elf'[t] = elf[t]
                           \/ t = target /\ elf'[t] \in Made2
    BY <1>4 DEF IInv, TypeOK
  <1>6. /\ pc' = "copying" => elf'[target].files = "some"
        /\ outcome # "ok"
        /\ outcome' = "ok" => pc' = "idle" /\ elf'[target] \in Made2
    BY <1>2, <1>4 DEF IInv, TypeOK, Copied, StageWork
  <1>7. FromRecorded'
    BY <1>2, <1>3, <1>4, <1>5 DEF IInv, FromRecorded
  <1>8. (StageTree /\ StageTarget)'
    BY <1>2, <1>4 DEF StageTree, StageTarget, AfterTree, AfterTarget, Working
  <1>9. StageWork'
    BY <1>2, <1>4, <1>6, Values DEF IInv, TypeOK, StageWork, Working
  <1>10. NeverOther'
    BY <1>3, <1>4, <1>6 DEF NeverOther
  <1>11. QED
    BY <1>1, <1>7, <1>8, <1>9, <1>10 DEF IInv

LEMMA IInvStep == ~single /\ IInv /\ [Next]_vars => IInv'
  <1> SUFFICES ASSUME ~single, IInv, [Next]_vars PROVE IInv'
    OBVIOUS
  <1>1. CASE Next
    BY <1>1, IInvIdle, IInvRest, IInvRecord, IInvCopy DEF Next, Step
  <1>2. CASE UNCHANGED vars
    BY <1>2 DEF vars, IInv, TypeOK, FromRecorded, StageTree, StageTarget, StageWork, NeverOther,
                AfterTree, AfterTarget, Working
  <1>3. QED
    BY <1>1, <1>2

\* The kind of project and what may happen to it do not change.
LEMMA Fixed == [Next]_vars => UNCHANGED <<single, rare>>
  BY DEF Next, Request, Configure, Step, vars, conf, Start, ConfigureTree, ConfigurePkg,
     ConfigureTarget, Dependencies, CheckHash, RemoveSrc, RemoveElf, Record, CheckTargetHash,
     RemoveTarget, RecordTarget, Fetch, ElfCheck, CrossCompiler, TouchMarker, Make, CopyFirst,
     CopyRest, CrossgccClean, Kill, KillRecord

MultiInv == ~single => IInv

LEMMA MultiInvStep == MultiInv /\ [Next]_vars => MultiInv'
  BY Fixed, IInvStep DEF MultiInv

\* Whatever happens to a multi-tree project, a successful build is not one of
\* another version of its configuration.
THEOREM NeverOtherCorrect == Spec => []NeverOther
  <1>1. Init => MultiInv
    BY IInvInit DEF MultiInv
  <1>2. MultiInv /\ [Next]_vars => MultiInv'
    BY MultiInvStep
  <1>3. MultiInv => NeverOther
    BY DEF MultiInv, IInv, NeverOther
  <1>4. QED
    BY <1>1, <1>2, <1>3, PTL DEF Spec

\* Results change only where they are not the ones wanted.
LEMMA WorkKeptStep ==
  ~single /\ IInv /\ [Next]_vars =>
    \A t \in Targets : pc # "idle" /\ elf[t] = Wanted(t) => elf'[t] = elf[t]
  <1> SUFFICES ASSUME ~single, IInv, [Next]_vars, pc # "idle",
                      NEW t \in Targets, elf[t] = Wanted(t)
               PROVE  elf'[t] = elf[t]
    OBVIOUS
  <1>1. /\ rev \in Version /\ targconf[t] \in Version /\ Torn \notin Version
        /\ elf[t].files = "all" /\ elf[t].src = rev /\ elf[t].conf = targconf[t]
        /\ rev = treeconf
        /\ hash \in {Torn, treeconf} /\ tghash[t] \in {Torn, targconf[t]}
    BY Values DEF IInv, TypeOK, FromRecorded, Wanted
  <1>2. ~RemoveElf
    BY <1>1 DEF RemoveElf, IInv, StageTree
  <1>3. RemoveTarget \/ CopyFirst \/ CopyRest => target # t
    BY <1>1 DEF RemoveTarget, CopyFirst, CopyRest, IInv, StageTarget, StageWork
  <1>4. CASE RemoveTarget
    BY <1>3, <1>4 DEF RemoveTarget, IInv, TypeOK
  <1>5. CASE CopyFirst \/ CopyRest
    BY <1>3, <1>5, CopyUpdate DEF IInv, TypeOK
  <1>6. CASE UNCHANGED elf
    BY <1>6
  <1>7. ~Request /\ ~Configure
    BY DEF Request, Configure, Start, ConfigureTree, ConfigurePkg, ConfigureTarget
  <1>8. QED
    BY <1>2, <1>4, <1>5, <1>6, <1>7 DEF Next, Step, vars, Dependencies, CheckHash, RemoveSrc,
       Record, CheckTargetHash, RecordTarget, Fetch, ElfCheck, CrossCompiler, TouchMarker, Make,
       CrossgccClean, Kill, KillRecord, conf, made

\* In a multi-tree project nothing that is current is removed or made again,
\* whatever happens.
THEOREM WorkKeptCorrect == Spec => WorkKept
  <1>1. Init => MultiInv
    BY IInvInit DEF MultiInv
  <1>2. MultiInv /\ [Next]_vars => MultiInv'
    BY MultiInvStep
  <1>3. MultiInv /\ [Next]_vars =>
          [\A t \in Targets :
             ~single /\ pc # "idle" /\ elf[t] = Wanted(t) => elf'[t] = elf[t]]_vars
    BY WorkKeptStep DEF MultiInv
  <1>4. QED
    BY <1>1, <1>2, <1>3, PTL DEF Spec, WorkKept

-----------------------------------------------------------------------------
(* The same invariant, strengthened by what holds where rare is empty.      *)

Sound ==
  /\ hash \leq treeconf
  /\ src = Torn => hash # treeconf
  /\ marker => xgcc \/ hash # treeconf
  /\ \A t \in Targets :
       /\ elf[t].src # Torn
       /\ elf[t].files = "some" => pc = "copying" /\ t = target
  /\ pc = "record" => hash = treeconf \/ ~marker
  /\ pc \in {"touch", "make"} => xgcc
  /\ mode = "build"
  /\ outcome = "ok" => elf[target].files = "all"

SInv == IInv /\ Sound

LEMMA SoundInit == Init => Sound
  <1> SUFFICES ASSUME Init PROVE Sound
    OBVIOUS
  <1>1. None < 1 /\ None # Torn
    BY BuildTreeAssumption DEF None, Torn
  <1>2. QED
    BY <1>1 DEF Init, Sound, NoResult, None

LEMMA SoundIdle ==
  ASSUME ~single, rare = {}, SInv, Request \/ Configure
  PROVE  Sound'
  <1> USE DEF Sound, SInv
  <1>1. hash \in Nat /\ rev \in Nat /\ rev = treeconf
    BY BuildTreeAssumption DEF IInv, TypeOK, FromRecorded, Made, Version
  <1>2. CASE Request
    <2>1. PICK t \in Targets, m \in {"build", "xclean"} : Start(t, m)
      BY <1>2 DEF Request
    <2>2. m = "build"
      BY <2>1 DEF Start
    <2>3. QED
      BY <1>1, <2>1, <2>2 DEF Start, conf, made
  <1>3. CASE Configure
    <2>1. PICK v \in Version :
            ConfigureTree(v) \/ ConfigurePkg(v) \/ \E t \in Targets : ConfigureTarget(t, v)
      BY <1>3 DEF Configure
    <2>2. CASE ConfigureTree(v)
      <3>1. treeconf' = treeconf + 1
        BY <1>1, <2>2 DEF ConfigureTree, Newer
      <3>2. hash \leq treeconf' /\ hash # treeconf'
        BY <1>1, <3>1
      <3>3. QED
        BY <2>2, <3>2 DEF ConfigureTree, made
    <2>3. CASE \E t \in Targets : ConfigureTarget(t, v)
      <3>1. /\ UNCHANGED <<treeconf, hash, src, xgcc, marker, elf, pc, mode, target>>
            /\ outcome' = "none"
        BY <2>3 DEF ConfigureTarget, made
      <3>2. QED
        BY <3>1
    <2>4. QED
      BY <2>1, <2>2, <2>3 DEF ConfigurePkg
  <1>4. QED
    BY <1>2, <1>3

LEMMA SoundStep ==
  ASSUME ~single, rare = {}, SInv, Step \/ Kill \/ KillRecord
  PROVE  Sound'
  <1> USE DEF Sound, SInv, Goto, End, conf, made
  <1>1. /\ hash \in Nat /\ rev \in Nat /\ rev = treeconf /\ rev # Torn /\ None # Torn
        /\ target \in Targets
        /\ outcome = "ok" => pc = "idle"
    BY Values, BuildTreeAssumption DEF IInv, TypeOK, FromRecorded, StageWork, Made, Version, Torn,
                                       None
  <1>2. CASE Dependencies \/ CheckHash \/ CheckTargetHash \/ Make \/ TouchMarker \/ CrossgccClean
    <2>1. ~CrossgccClean
      BY DEF CrossgccClean, IInv, StageWork
    <2>2. /\ UNCHANGED <<treeconf, hash, src, xgcc, elf, mode, target>>
          /\ pc # "copying" /\ pc' # "copying"
          /\ outcome' \in {outcome, "err", "badhash"}
      BY <1>2, <2>1 DEF Dependencies, CheckHash, CheckTargetHash, Make, TouchMarker
    <2>3. /\ marker' => marker \/ xgcc
          /\ pc' = "record" => hash = treeconf
          /\ pc' \notin {"touch"} /\ (pc' = "make" => xgcc)
      BY <1>2, <2>1 DEF Dependencies, CheckHash, CheckTargetHash, Make, TouchMarker
    <2>4. QED
      BY <2>2, <2>3
  <1>3. CASE RemoveSrc
    BY <1>1, <1>3 DEF RemoveSrc, IInv, StageTree
  <1>4. CASE RemoveElf
    <2>1. \A t \in Targets : elf'[t] = NoResult
      BY <1>4 DEF RemoveElf
    <2>2. QED
      BY <1>1, <1>4, <2>1 DEF RemoveElf, NoResult
  <1>5. CASE Record
    BY <1>1, <1>5 DEF Record, IInv, StageTree, FromRecorded
  <1>6. CASE RemoveTarget
    <2>1. \A t \in Targets : elf'[t] \in {elf[t], NoResult}
      BY <1>1, <1>6 DEF RemoveTarget, IInv, TypeOK
    <2>2. QED
      BY <1>1, <1>6, <2>1 DEF RemoveTarget, NoResult, IInv, StageWork
  <1>7. CASE RecordTarget
    BY <1>1, <1>7 DEF RecordTarget
  <1>8. CASE Fetch
    BY <1>1, <1>8 DEF Fetch, IInv, FromRecorded
  <1>9. CASE ElfCheck
    <2>1. elf[target].files \in {"none", "some", "all"}
      BY <1>1 DEF IInv, TypeOK, Result
    <2>2. elf[target].files # "none" => elf[target].files = "all"
      <3>1. pc # "copying"
        BY <1>9 DEF ElfCheck
      <3>2. elf[target].files # "some"
        BY <1>1, <3>1 DEF Sound, SInv
      <3>3. QED
        BY <2>1, <3>2
    <2>3. QED
      BY <1>1, <1>9, <2>2 DEF ElfCheck
  <1>10. CASE CrossCompiler
    BY <1>1, <1>10 DEF CrossCompiler, IInv, StageTree, AfterTree, AfterTarget, Working
  <1>11. CASE CopyFirst \/ CopyRest
    <2>1. src # Torn /\ pc \in {"copy", "copying"}
      BY <1>11 DEF CopyFirst, CopyRest, IInv, StageTree, AfterTree, AfterTarget, Working
    <2>2. /\ CopyFirst => elf'[target] = Copied("some")
          /\ CopyRest => elf'[target] = Copied("all")
          /\ \A t \in Targets : t # target => elf'[t] = elf[t]
      BY <1>1, <1>11, CopyUpdate DEF IInv, TypeOK, CopyRest
    <2>3. QED
      BY <1>1, <1>11, <2>1, <2>2 DEF Copied, CopyFirst, CopyRest
  <1>12. CASE Kill
    BY <1>1, <1>12 DEF Kill, IInv, StageTree
  <1>13. CASE KillRecord
    BY <1>13 DEF KillRecord
  <1>14. QED
    BY <1>2, <1>3, <1>4, <1>5, <1>6, <1>7, <1>8, <1>9, <1>10, <1>11, <1>12, <1>13 DEF Step

LEMMA SInvStep == ~single /\ rare = {} /\ SInv /\ [Next]_vars => SInv'
  <1> SUFFICES ASSUME ~single, rare = {}, SInv, [Next]_vars PROVE SInv'
    OBVIOUS
  <1>1. IInv'
    BY IInvStep DEF SInv
  <1>2. CASE Next
    BY <1>1, <1>2, SoundIdle, SoundStep DEF Next, SInv
  <1>3. CASE UNCHANGED vars
    BY <1>1, <1>3 DEF vars, SInv, Sound
  <1>4. QED
    BY <1>2, <1>3

LuckyInv == ~single /\ rare = {} => SInv

LEMMA LuckyInvInit == Init => LuckyInv
  BY IInvInit, SoundInit DEF LuckyInv, SInv

LEMMA LuckyInvStep == LuckyInv /\ [Next]_vars => LuckyInv'
  BY Fixed, SInvStep DEF LuckyInv

LEMMA LuckyInvProperties == LuckyInv => BuildCurrent /\ CompilerThere
  <1> SUFFICES ASSUME LuckyInv, ~single, rare = {} PROVE BuildCurrent /\ CompilerThere
    BY DEF BuildCurrent, CompilerThere
  <1>1. SInv
    BY DEF LuckyInv
  <1>2. CompilerThere
    BY <1>1 DEF SInv, Sound, CompilerThere
  <1>3. ASSUME outcome = "ok"
        PROVE  elf[target] = Wanted(target)
    <2>1. elf[target] \in Result /\ elf[target].src # Torn
      <3>1. target \in Targets /\ elf[target] \in Result
        BY <1>1 DEF SInv, IInv, TypeOK
      <3>2. QED
        BY <1>1, <3>1 DEF SInv, Sound
    <2>2. /\ elf[target].files = "all" /\ elf[target].src = rev
          /\ elf[target].conf = targconf[target]
      BY <1>1, <1>3, <2>1 DEF SInv, Sound, IInv, NeverOther
    <2>3. QED
      BY <2>1, <2>2 DEF Result, Wanted
  <1>4. QED
    BY <1>2, <1>3 DEF BuildCurrent

\* In a multi-tree project, where nothing rare happens, a successful build is
\* complete and made from what is configured now.
THEOREM BuildCurrentCorrect == Spec => []BuildCurrent
  BY LuckyInvInit, LuckyInvStep, LuckyInvProperties, PTL DEF Spec

\* Under the same conditions, make finds the cross compiler in its tree.
THEOREM CompilerThereCorrect == Spec => []CompilerThere
  BY LuckyInvInit, LuckyInvStep, LuckyInvProperties, PTL DEF Spec

-----------------------------------------------------------------------------
(* The inductive invariant of a single-tree project where rare is empty.    *)

\* What is recorded is not newer than what the hash covers, and that not newer
\* than the revision, which the hash does not cover; what there is in src/ and
\* elf/ was made in between.
Ages ==
  /\ hash \leq treeconf /\ treeconf \leq rev
  /\ src \notin {None, Torn} => src \in hash .. rev
  /\ elf[target].files # "none" => elf[target].src \in hash .. rev

StageHash ==
  /\ pc \in {"rmsrc", "rmelf"} => hash # treeconf
  /\ pc = "rmelf" => src = None
  /\ pc = "record" => hash = treeconf \/ (src = None /\ elf[target] = NoResult)
  /\ pc \in {"fetch", "elfcheck", "make", "copy", "copying"} \/ outcome = "ok" =>
       hash = treeconf
  /\ pc \in {"elfcheck", "make", "copy", "copying"} => src # None

WholeResults ==
  /\ src = Torn => hash # treeconf
  /\ elf[target].files = "some" => pc = "copying"
  /\ outcome = "ok" => pc = "idle" /\ elf[target].files = "all"

\* The commands of a build that has no target of its own to look at.
SinglePath ==
  mode = "build" /\ pc \notin {"tghash", "rmtarget", "tgrecord", "xgcc", "touch", "xclean"}

HInv == TypeOK /\ Ages /\ StageHash /\ WholeResults /\ SinglePath

LEMMA Numbers ==
  ASSUME TypeOK
  PROVE  /\ hash \in Nat /\ treeconf \in Nat /\ rev \in Nat /\ src \in Nat
         /\ rev \in Version /\ rev # Torn /\ rev # None /\ None # Torn
         /\ target \in Targets /\ elf[target] \in Result /\ elf[target].src \in Nat
         /\ NoResult.files = "none"
  BY BuildTreeAssumption DEF TypeOK, Result, Made, Version, Torn, None, NoResult

LEMMA HInvInit == Init /\ single => HInv
  <1> SUFFICES ASSUME Init, single PROVE HInv
    OBVIOUS
  <1>1. TypeOK
    BY TypeCorrectInit
  <1>2. hash = 0 /\ treeconf = 1 /\ rev = 1 /\ src = None /\ elf[target].files = "none"
    BY DEF Init, None, NoResult
  <1>3. Ages /\ StageHash /\ WholeResults /\ SinglePath
    BY <1>1, <1>2, Numbers DEF Init, Ages, StageHash, WholeResults, SinglePath
  <1>4. QED
    BY <1>1, <1>3 DEF HInv

\* The steps between runs: a configuration can only get newer.
LEMMA HInvIdle ==
  ASSUME single, rare = {}, HInv, Request \/ Configure
  PROVE  HInv'
  <1> USE DEF Ages, StageHash, WholeResults, SinglePath
  <1>1. TypeOK'
    BY TypeStep DEF HInv, Next
  <1>2. CASE Request
    <2>1. PICK t \in Targets, m \in {"build", "xclean"} : Start(t, m)
      BY <1>2 DEF Request
    <2>2. target' = target /\ m = "build"
      BY <2>1 DEF Start
    <2>3. QED
      BY <1>1, <2>1, <2>2 DEF Start, conf, made, HInv
  <1>3. CASE Configure
    <2>1. PICK v \in Version : ConfigureTree(v) \/ ConfigurePkg(v)
      BY <1>3 DEF Configure, ConfigureTarget
    <2>2. v = rev + 1
      BY <2>1 DEF ConfigureTree, ConfigurePkg, Newer
    <2>3. /\ UNCHANGED <<hash, src, elf, pc, mode, target>> /\ outcome' = "none"
          /\ pc = "idle"
          /\ rev' = rev + 1 /\ treeconf' \in {treeconf, rev + 1}
      BY <2>1, <2>2 DEF ConfigureTree, ConfigurePkg, made
    <2>4. Ages'
      BY <2>3, Numbers DEF HInv
    <2>5. (StageHash /\ WholeResults /\ SinglePath)'
      BY <2>3, Numbers DEF HInv
    <2>6. QED
      BY <1>1, <2>4, <2>5 DEF HInv
  <1>4. QED
    BY <1>2, <1>3

\* The commands of a run.
LEMMA HInvRun ==
  ASSUME single, rare = {}, HInv, Step \/ Kill \/ KillRecord
  PROVE  HInv'
  <1> USE Numbers DEF HInv, Ages, StageHash, WholeResults, SinglePath, Goto, End, conf, made
  <1>1. TypeOK'
    BY TypeStep DEF Next
  <1>2. ~(\/ CheckTargetHash \/ RemoveTarget \/ RecordTarget \/ CrossCompiler \/ TouchMarker
          \/ CrossgccClean \/ KillRecord)
    BY DEF CheckTargetHash, RemoveTarget, RecordTarget, CrossCompiler, TouchMarker,
           CrossgccClean, KillRecord
  <1>3. CASE Dependencies \/ CheckHash \/ ElfCheck \/ Make
    <2>1. elf[target].files \in {"none", "some", "all"}
      BY DEF Result
    <2>2. CASE Dependencies
      BY <1>1, <2>2 DEF Dependencies
    <2>3. CASE CheckHash
      BY <1>1, <2>3 DEF CheckHash
    <2>4. CASE ElfCheck
      BY <1>1, <2>1, <2>4 DEF ElfCheck
    <2>5. CASE Make
      BY <1>1, <2>5 DEF Make
    <2>6. QED
      BY <1>3, <2>2, <2>3, <2>4, <2>5
  <1>4. CASE RemoveSrc
    BY <1>1, <1>4 DEF RemoveSrc
  <1>5. CASE RemoveElf
    <2>1. elf'[target] = NoResult
      BY <1>5 DEF RemoveElf
    <2>2. QED
      BY <1>1, <1>5, <2>1 DEF RemoveElf
  <1>6. CASE Record
    BY <1>1, <1>6 DEF Record
  <1>7. CASE Fetch
    BY <1>1, <1>7 DEF Fetch
  <1>8. CASE CopyFirst \/ CopyRest
    <2>1. /\ src # Torn /\ src # None /\ hash = treeconf /\ src \in hash .. rev
          /\ outcome # "ok"
      BY <1>8 DEF CopyFirst, CopyRest
    <2>2. CASE CopyFirst
      <3>1. elf'[target].files = "some" /\ elf'[target].src = src
        BY <2>2, CopyUpdate DEF TypeOK, Copied
      <3>2. QED
        BY <1>1, <2>1, <2>2, <3>1 DEF CopyFirst
    <2>3. CASE CopyRest
      <3>1. elf'[target].files = "all" /\ elf'[target].src = src /\ outcome' = "ok"
        BY <2>3, CopyUpdate DEF TypeOK, Copied, CopyRest
      <3>2. QED
        BY <1>1, <2>1, <2>3, <3>1 DEF CopyRest
    <2>4. QED
      BY <1>8, <2>2, <2>3
  <1>9. CASE Kill
    BY <1>1, <1>9 DEF Kill
  <1>10. QED
    BY <1>2, <1>3, <1>4, <1>5, <1>6, <1>7, <1>8, <1>9 DEF Step

SingleInv == single /\ rare = {} => HInv

LEMMA SingleInvStep == SingleInv /\ [Next]_vars => SingleInv'
  <1> SUFFICES ASSUME single, rare = {}, HInv, [Next]_vars PROVE HInv'
    BY Fixed DEF SingleInv
  <1>1. CASE Next
    BY <1>1, HInvIdle, HInvRun DEF Next
  <1>2. CASE UNCHANGED vars
    BY <1>2 DEF vars, HInv, TypeOK, Ages, StageHash, WholeResults, SinglePath
  <1>3. QED
    BY <1>1, <1>2

\* In a single-tree project, where nothing rare happens, a successful build is
\* complete and made from a revision that is not older than the last change of
\* what its hash covers.
THEOREM HashedCurrentCorrect == Spec => []HashedCurrent
  <1>1. Init => SingleInv
    BY HInvInit DEF SingleInv
  <1>2. SingleInv => HashedCurrent
    BY DEF SingleInv, HInv, Ages, StageHash, WholeResults, HashedCurrent
  <1>3. QED
    BY <1>1, <1>2, SingleInvStep, PTL DEF Spec
=============================================================================
