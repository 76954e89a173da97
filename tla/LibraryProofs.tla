---------------------------- MODULE LibraryProofs ----------------------------
(***************************************************************************)
(* Proofs about libreboot-utils, and about other calls of Library.         *)
(*                                                                         *)
(* What Mkhtemp promises holds for any number of creators, names and       *)
(* retries and on any machines: the results are unique, nothing is left    *)
(* behind by a failure, and no creator touches what is another's.  Files   *)
(* are removed by name, so the argument is about who holds the name at     *)
(* every step: a creator past the creation holds the name it tried last    *)
(* (Own), and holds no other (Only).                                       *)
(*                                                                         *)
(* Then ExactIO, by which mkhtemp draws random names and nvmutil reads and *)
(* writes: transfers are exact or an error (AllOrError); the vendor files  *)
(* of a board; the ME region that is made of an update, where all comes    *)
(* from chunks being apart (ChunksApart); the directory for temporary      *)
(* files; and the environment that the scripts make for themselves: the    *)
(* version, an import of configurations, and the scripts for Guix, which   *)
(* are folds over texts, commands, sections and runs, of which one step is *)
(* a lemma and UpTo takes one to the next.  Last the calls of Library, of  *)
(* which each property is one of the answer to an input (CallInv); those   *)
(* that compute numbers are in NumberProofs.                               *)
(***************************************************************************)
EXTENDS Mkhtemp, Library, NumberProofs

Holding == {"linked", "created", "made", "done"}

\* Unless somebody with the same user interferes, a created file keeps its name.
Own ==
    \A p \in Creators : pc[p] \in Holding =>
        /\ name[p] \in Names
        /\ pc[p] = "done" => path[p] = name[p]
        /\ ~janitor => dir[name[p]] = p

\* A creator has at most the one name, and none before and after.
Only ==
    \A p \in Creators \ left, n \in Names :
        dir[n] = p => pc[p] \in Holding \cup {"killed"} /\ name[p] = n

\* The name that is tried next is one.
Named == \A p \in Creators : pc[p] = "create" => name[p] \in Names

\* What is open, and what *fd is, at each step.
DescriptorsOf(p) ==
    /\ pc[p] \in {"start", "failed", "killed"} => open[p] = {} /\ fd[p] = "none"
    /\ pc[p] \in {"try", "made"} => open[p] = {"dir"} /\ fd[p] = "none"
    /\ pc[p] \in {"link", "linked"} => open[p] = {"dir", "tmp"} /\ fd[p] = "none"
    /\ pc[p] = "create" => open[p] = {"dir"}
    /\ pc[p] = "created" => open[p] = {"dir", "file"} /\ fd[p] = "file"
    /\ pc[p] = "done" => open[p] = {fd[p]}

Descriptors == \A p \in Creators : DescriptorsOf(p)

IInv == TypeOK /\ Named /\ Own /\ Only /\ Descriptors

----------------------------------------------------------------------------
LEMMA Fresh == \A p \in Creators : p # "free" /\ p # "other"
  BY FreshAssumption

LEMMA InitIInv == Init => IInv
<1> SUFFICES ASSUME Init PROVE IInv  OBVIOUS
<1>1. 0 \in 0..(RetryMax - 1)  BY RetryMaxAssumption
<1>2. TypeOK  BY <1>1 DEF Init, TypeOK, PC
<1>3. Named /\ Own /\ Descriptors  BY DEF Init, Named, Own, Descriptors, DescriptorsOf, Holding
<1>4. Only  BY Fresh DEF Init, Only
<1> QED  BY <1>2, <1>3, <1>4 DEF IInv

----------------------------------------------------------------------------
(* The types, action by action.                                            *)

LEMMA GotoType ==
  ASSUME TypeOK, NEW p \in Creators, NEW l \in PC, Goto(p, l)
  PROVE  pc' \in [Creators -> PC]
  BY DEF Goto, TypeOK

LEMMA FailType ==
  ASSUME TypeOK, NEW p \in Creators, Fail(p)
  PROVE  /\ pc' \in [Creators -> PC]
         /\ open' \in [Creators -> SUBSET {"dir", "tmp", "file"}]
         /\ fd' \in [Creators -> {"none", "tmp", "file"}]
         /\ path' \in [Creators -> Names \cup {"none", "tmpdir"}]
  BY DEF Fail, Goto, TypeOK, PC, Ended

LEMMA ReturnType ==
  ASSUME TypeOK, NEW p \in Creators, NEW r \in {"tmp", "file"}, Return(p, r),
         name[p] \in Names
  PROVE  /\ pc' \in [Creators -> PC]
         /\ open' \in [Creators -> SUBSET {"dir", "tmp", "file"}]
         /\ fd' \in [Creators -> {"none", "tmp", "file"}]
         /\ path' \in [Creators -> Names \cup {"none", "tmpdir"}]
  BY DEF Return, Goto, TypeOK, PC, Ended

LEMMA SlowPathType ==
  ASSUME TypeOK, NEW p \in Creators, SlowPath(p)
  PROVE  /\ pc' \in [Creators -> PC]
         /\ open' \in [Creators -> SUBSET {"dir", "tmp", "file"}]
  BY DEF SlowPath, Goto, TypeOK, PC

LEMMA HoldsType ==
  ASSUME TypeOK, NEW n \in Names, NEW h \in {"free", "other"} \cup Creators,
         Holds(n, h)
  PROVE  dir' \in [Names -> {"free", "other"} \cup Creators]
  BY DEF Holds, TypeOK

LEMMA unlinkatType ==
  ASSUME TypeOK, NEW p \in Creators, unlinkat(p), name[p] \in Names
  PROVE  /\ dir' \in [Names -> {"free", "other"} \cup Creators]
         /\ left' \subseteq Creators
  BY HoldsType DEF unlinkat, TypeOK

LEMMA NamedType ==
  ASSUME TypeOK, NEW p \in Creators, NEW n \in Names,
         name' = [name EXCEPT ![p] = n]
  PROVE  name' \in [Creators -> Names \cup {"none"}] /\ name'[p] = n
  BY DEF TypeOK

\* The actions of a creator that has a descriptor of the directory.
LEMMA TypeStart == ASSUME TypeOK, NEW p \in Creators, new_tmp_common(p)
                   PROVE  TypeOK'
<1>1. CASE Goto(p, "try") /\ open' = [open EXCEPT ![p] = {"dir"}] /\ UNCHANGED <<path, fd>>
  BY <1>1, GotoType DEF new_tmp_common, TypeOK, PC
<1>2. CASE Fail(p)  BY <1>2, FailType DEF new_tmp_common, TypeOK
<1>3. CASE Goto(p, "failed") /\ UNCHANGED <<open, path, fd>>
  BY <1>3, GotoType DEF new_tmp_common, TypeOK, PC, Ended
<1> QED  BY <1>1, <1>2, <1>3 DEF new_tmp_common

LEMMA TypeTryFile == ASSUME TypeOK, NEW p \in Creators, TryFile(p)
                     PROVE  TypeOK'
<1>1. spins' \in [Creators -> 0..(RetryMax - 1)]
  <2>1. 0 \in 0..(RetryMax - 1)  BY RetryMaxAssumption
  <2> QED  BY <2>1 DEF TryFile, TypeOK
<1>2. CASE Goto(p, "link") /\ open' = [open EXCEPT ![p] = @ \cup {"tmp"}]
           /\ UNCHANGED <<name, fd, path>>
  BY <1>1, <1>2, GotoType DEF TryFile, TypeOK, PC
<1>3. CASE Goto(p, "create") /\ (\E n \in Names : name' = [name EXCEPT ![p] = n])
           /\ UNCHANGED <<open, fd, path>>
  BY <1>1, <1>3, GotoType, NamedType DEF TryFile, TypeOK, PC
<1>4. CASE Fail(p) /\ UNCHANGED name
  BY <1>1, <1>4, FailType DEF TryFile, TypeOK
<1> QED  BY <1>2, <1>3, <1>4 DEF TryFile

LEMMA TypeLink == ASSUME TypeOK, NEW p \in Creators, Link(p)
                  PROVE  TypeOK'
<1> PICK n \in Names : Link(p)!2!(n)  BY DEF Link
<1>1. name' \in [Creators -> Names \cup {"none"}]  BY NamedType
<1>2. CASE Holds(n, p) /\ Goto(p, "linked") /\ UNCHANGED <<open, spins>>
  BY <1>1, <1>2, HoldsType, GotoType DEF Link, TypeOK, PC
<1>3. CASE /\ spins[p] + 1 < RetryMax
           /\ spins' = [spins EXCEPT ![p] = @ + 1]
           /\ UNCHANGED <<dir, open, pc>>
  <2>1. spins[p] + 1 \in 0..(RetryMax - 1)
    BY <1>3, RetryMaxAssumption DEF TypeOK
  <2> QED  BY <1>1, <1>3, <2>1 DEF Link, TypeOK
<1>4. CASE SlowPath(p) /\ UNCHANGED <<dir, spins>>
  BY <1>1, <1>4, SlowPathType DEF Link, TypeOK
<1> QED  BY <1>2, <1>3, <1>4

LEMMA TypeLinked == ASSUME TypeOK, NEW p \in Creators, Linked(p), name[p] \in Names
                    PROVE  TypeOK'
<1>1. CASE Return(p, "tmp") /\ UNCHANGED <<dir, left>>
  BY <1>1, ReturnType DEF Linked, TypeOK
<1>2. CASE /\ unlinkat(p) /\ SlowPath(p) /\ UNCHANGED path
           /\ fd' \in {fd, [fd EXCEPT ![p] = "tmp"]}
  <2>1. fd' \in [Creators -> {"none", "tmp", "file"}]  BY <1>2 DEF TypeOK
  <2> QED  BY <1>2, <2>1, unlinkatType, SlowPathType DEF Linked, TypeOK
<1> QED  BY <1>1, <1>2 DEF Linked

LEMMA TypeCreate == ASSUME TypeOK, NEW p \in Creators, Create(p), name[p] \in Names
                    PROVE  TypeOK'
<1>1. CASE /\ Exclusive(p) /\ Goto(p, "created")
           /\ fd' = [fd EXCEPT ![p] = "file"]
           /\ open' = [open EXCEPT ![p] = @ \cup {"file"}]
           /\ UNCHANGED <<retries, path>>
  BY <1>1, HoldsType, GotoType DEF Create, Exclusive, TypeOK, PC
<1>2. CASE Fail(p) /\ UNCHANGED <<dir, retries>>
  BY <1>2, FailType DEF Create, TypeOK
<1>3. CASE /\ retries[p] + 1 < RetryMax
           /\ Goto(p, "try")
           /\ retries' = [retries EXCEPT ![p] = @ + 1]
           /\ fd' = [fd EXCEPT ![p] = "none"]
           /\ UNCHANGED <<open, path, dir>>
  <2>1. retries[p] + 1 \in 0..(RetryMax - 1)
    BY <1>3, RetryMaxAssumption DEF TypeOK
  <2> QED  BY <1>3, <2>1, GotoType DEF Create, TypeOK, PC
<1> QED  BY <1>1, <1>2, <1>3 DEF Create, GiveUp, Collision

LEMMA TypeTryDirectory == ASSUME TypeOK, NEW p \in Creators, TryDirectory(p)
                          PROVE  TypeOK'
<1> PICK n \in Names : TryDirectory(p)!2!(n)  BY DEF TryDirectory
<1>1. name' \in [Creators -> Names \cup {"none"}]  BY NamedType
<1>2. CASE Holds(n, p) /\ Goto(p, "made") /\ UNCHANGED <<open, fd, path>>
  BY <1>1, <1>2, HoldsType, GotoType DEF TryDirectory, TypeOK, PC
<1>3. CASE Fail(p) /\ UNCHANGED dir
  BY <1>1, <1>3, FailType DEF TryDirectory, TypeOK
<1> QED  BY <1>2, <1>3

LEMMA TypeMade == ASSUME TypeOK, NEW p \in Creators, Made(p), name[p] \in Names
                  PROVE  TypeOK'
<1>1. CASE Return(p, "file") /\ UNCHANGED <<dir, left>>
  BY <1>1, ReturnType DEF Made, TypeOK
<1>2. CASE unlinkat(p) /\ Fail(p)
  BY <1>2, unlinkatType, FailType DEF Made, TypeOK
<1> QED  BY <1>1, <1>2 DEF Made

LEMMA TypeCreated == ASSUME TypeOK, NEW p \in Creators, Created(p), name[p] \in Names
                     PROVE  TypeOK'
<1>1. CASE Return(p, "file") /\ UNCHANGED <<dir, left>>
  BY <1>1, ReturnType DEF Created, TypeOK
<1>2. CASE unlinkat(p) /\ Fail(p)
  BY <1>2, unlinkatType, FailType DEF Created, TypeOK
<1> QED  BY <1>1, <1>2 DEF Created

\* A name has been tried wherever one is used.
LEMMA NameUsed ==
  ASSUME IInv, NEW p \in Creators, pc[p] \in {"linked", "create", "created", "made"}
  PROVE  name[p] \in Names
  BY DEF IInv, Named, Own, Holding

LEMMA TypeStep == ASSUME IInv, NEW p \in Creators, Step(p)
                  PROVE  TypeOK'
<1>1. TypeOK  BY DEF IInv
<1>2. CASE new_tmp_common(p)  BY <1>1, <1>2, TypeStart
<1>3. CASE TryFile(p)  BY <1>1, <1>3, TypeTryFile
<1>4. CASE Link(p)  BY <1>1, <1>4, TypeLink
<1>5. CASE Linked(p)  BY <1>1, <1>5, NameUsed, TypeLinked DEF Linked
<1>6. CASE Create(p)  BY <1>1, <1>6, NameUsed, TypeCreate DEF Create
<1>7. CASE Created(p)  BY <1>1, <1>7, NameUsed, TypeCreated DEF Created
<1>8. CASE TryDirectory(p)  BY <1>1, <1>8, TypeTryDirectory
<1>9. CASE Made(p)  BY <1>1, <1>9, NameUsed, TypeMade DEF Made
<1> QED  BY <1>2, <1>3, <1>4, <1>5, <1>6, <1>7, <1>8, <1>9 DEF Step

----------------------------------------------------------------------------
(* What a step of one creator leaves alone, and what it does to the names. *)

Same(q) == /\ pc'[q] = pc[q] /\ name'[q] = name[q] /\ open'[q] = open[q]
           /\ fd'[q] = fd[q] /\ path'[q] = path[q]

LEMMA OnlyItsOwn ==
  ASSUME TypeOK, NEW p \in Creators, NEW q \in Creators, q # p, Step(p) \/ Kill(p)
  PROVE  Same(q)
<1> USE DEF TypeOK, Same, Goto, Fail, Return, SlowPath
<1>1. CASE new_tmp_common(p)  BY <1>1 DEF new_tmp_common
<1>2. CASE TryFile(p)  BY <1>2 DEF TryFile
<1>3. CASE Link(p)  BY <1>3 DEF Link
<1>4. CASE Linked(p)  BY <1>4 DEF Linked
<1>5. CASE Create(p)  BY <1>5 DEF Create, GiveUp, Collision
<1>6. CASE Created(p)  BY <1>6 DEF Created
<1>7. CASE TryDirectory(p)  BY <1>7 DEF TryDirectory
<1>8. CASE Made(p)  BY <1>8 DEF Made
<1>9. CASE Kill(p)  BY <1>9 DEF Kill
<1> QED  BY <1>1, <1>2, <1>3, <1>4, <1>5, <1>6, <1>7, <1>8, <1>9 DEF Step

\* A step takes a free name and goes on to look at what it made, or removes
\* what has the name it holds, or leaves the directory alone.
Takes(p) == /\ name'[p] \in Names /\ dir[name'[p]] = "free"
            /\ dir' = [dir EXCEPT ![name'[p]] = p]
            /\ pc[p] \in {"try", "link", "create"}
            /\ pc'[p] \in {"linked", "created", "made"}

Frees(p) == /\ Removable(name[p], p)
            /\ dir' = [dir EXCEPT ![name[p]] = "free"]
            /\ pc[p] \in {"linked", "created", "made"} /\ name' = name
            /\ pc'[p] \in {"create", "failed"}

Keeps(p) ==
    /\ dir' = dir
    /\ \/ /\ pc[p] \in {"linked", "created"} /\ dir[name[p]] = p
          /\ pc'[p] = "done" /\ path'[p] = name[p] /\ name' = name
       \/ /\ pc[p] = "made" /\ dir[name[p]] \in Creators
          /\ pc'[p] = "done" /\ path'[p] = name[p] /\ name' = name
       \/ /\ pc[p] \in {"linked", "created", "made"}
          /\ pc'[p] \in {"create", "failed"} /\ name' = name
          /\ ~Removable(name[p], p) \/ p \in left'
       \/ /\ pc[p] \in {"start", "try", "link", "create"}
          /\ pc'[p] \in {"try", "link", "create", "failed"}
          /\ pc'[p] = "create" => name'[p] \in Names

LEMMA unlinkatStep ==
  ASSUME NEW p \in Creators, unlinkat(p)
  PROVE  \/ Removable(name[p], p) /\ dir' = [dir EXCEPT ![name[p]] = "free"]
         \/ dir' = dir /\ (~Removable(name[p], p) \/ p \in left')
  BY DEF unlinkat, Holds

LEMMA OwnStep ==
  ASSUME IInv, NEW p \in Creators, Step(p)
  PROVE  Takes(p) \/ Frees(p) \/ Keeps(p)
<1> USE DEF Goto, Fail, Return, SlowPath
<1>0. TypeOK  BY DEF IInv
<1>1. CASE new_tmp_common(p)
  BY <1>0, <1>1 DEF new_tmp_common, Keeps, TypeOK
<1>2. CASE TryFile(p)
  BY <1>0, <1>2 DEF TryFile, Keeps, TypeOK
<1>3. CASE Link(p)
  <2> PICK n \in Names : Link(p)!2!(n)  BY <1>3 DEF Link
  <2>1. name'[p] = n /\ pc[p] = "link"  BY <1>0, <1>3 DEF Link, TypeOK
  <2>2. CASE dir[n] = "free" /\ Holds(n, p) /\ Goto(p, "linked")
    BY <1>0, <2>1, <2>2 DEF Takes, Holds, TypeOK
  <2>3. CASE UNCHANGED <<dir, pc>>  BY <2>1, <2>3 DEF Keeps
  <2>4. CASE SlowPath(p) /\ UNCHANGED dir
    BY <1>0, <2>1, <2>4 DEF Keeps, TypeOK
  <2> QED  BY <2>2, <2>3, <2>4
<1>4. CASE Linked(p)
  <2>1. pc[p] = "linked" /\ name' = name  BY <1>4 DEF Linked
  <2>2. CASE secure_file(p) /\ Return(p, "tmp") /\ UNCHANGED dir
    BY <1>0, <2>1, <2>2 DEF secure_file, Keeps, TypeOK
  <2>3. CASE unlinkat(p) /\ SlowPath(p)
    BY <1>0, <2>1, <2>3, unlinkatStep DEF Frees, Keeps, TypeOK
  <2> QED  BY <1>4, <2>2, <2>3 DEF Linked
<1>5. CASE Create(p)
  <2>1. pc[p] = "create" /\ name' = name /\ name[p] \in Names
    BY <1>5, NameUsed DEF Create
  <2>2. CASE Exclusive(p) /\ Goto(p, "created")
    BY <1>0, <2>1, <2>2 DEF Exclusive, Holds, Takes, TypeOK
  <2>3. CASE (Collision(p) \/ GiveUp(p)) /\ UNCHANGED dir
    BY <1>0, <2>1, <2>3 DEF Collision, GiveUp, Keeps, TypeOK
  <2> QED  BY <1>5, <2>2, <2>3 DEF Create, GiveUp
<1>6. CASE Created(p)
  <2>1. pc[p] = "created" /\ name' = name  BY <1>6 DEF Created
  <2>2. CASE secure_file(p) /\ Return(p, "file") /\ UNCHANGED dir
    BY <1>0, <2>1, <2>2 DEF secure_file, Keeps, TypeOK
  <2>3. CASE unlinkat(p) /\ Fail(p)
    BY <1>0, <2>1, <2>3, unlinkatStep DEF Frees, Keeps, TypeOK
  <2> QED  BY <1>6, <2>2, <2>3 DEF Created
<1>7. CASE TryDirectory(p)
  <2> PICK n \in Names : TryDirectory(p)!2!(n)  BY <1>7 DEF TryDirectory
  <2>1. name'[p] = n /\ pc[p] = "try"  BY <1>0, <1>7 DEF TryDirectory, TypeOK
  <2>2. CASE dir[n] = "free" /\ Holds(n, p) /\ Goto(p, "made")
    BY <1>0, <2>1, <2>2 DEF Takes, Holds, TypeOK
  <2>3. CASE Fail(p) /\ UNCHANGED dir
    BY <1>0, <2>1, <2>3 DEF Keeps, TypeOK
  <2> QED  BY <2>2, <2>3
<1>8. CASE Made(p)
  <2>1. pc[p] = "made" /\ name' = name  BY <1>8 DEF Made
  <2>2. CASE dir[name[p]] \in Creators /\ Return(p, "file") /\ UNCHANGED dir
    BY <1>0, <2>1, <2>2 DEF Keeps, TypeOK
  <2>3. CASE unlinkat(p) /\ Fail(p)
    BY <1>0, <2>1, <2>3, unlinkatStep DEF Frees, Keeps, TypeOK
  <2> QED  BY <1>8, <2>2, <2>3 DEF Made
<1> QED  BY <1>1, <1>2, <1>3, <1>4, <1>5, <1>6, <1>7, <1>8 DEF Step

LEMMA StepFrame == ASSUME NEW p \in Creators, Step(p)
                   PROVE  janitor' = janitor /\ type' = type /\ left \subseteq left'
  BY DEF Step, new_tmp_common, TryFile, Link, Linked, Create, Created,
         TryDirectory, Made, unlinkat

----------------------------------------------------------------------------
(* A step keeps the invariant.                                             *)

LEMMA NamedStep == ASSUME IInv, NEW p \in Creators, Step(p)
                   PROVE  Named'
<1> SUFFICES ASSUME NEW q \in Creators, pc'[q] = "create"
             PROVE  name'[q] \in Names
  BY DEF Named
<1>1. CASE q = p
  <2>1. CASE Takes(p)  BY <1>1, <2>1 DEF Takes
  <2>2. CASE Frees(p) \/ Keeps(p)
    BY <1>1, <2>2, NameUsed DEF Frees, Keeps
  <2> QED  BY <2>1, <2>2, OwnStep
<1>2. CASE q # p
  BY <1>2, OnlyItsOwn DEF Same, IInv, Named
<1> QED  BY <1>1, <1>2

\* Another creator's name is not taken from it: one that is taken was free,
\* and one that is freed held the name itself.
LEMMA OthersNames ==
  ASSUME IInv, NEW p \in Creators, Step(p), ~janitor, NEW n \in Names,
         dir[n] # "free", dir[n] # p
  PROVE  dir'[n] = dir[n]
<1>1. CASE Takes(p)  BY <1>1 DEF Takes, IInv, TypeOK
<1>2. CASE Frees(p)
  <2>1. dir[name[p]] = p  BY <1>2 DEF Frees, IInv, Own, Holding
  <2> QED  BY <1>2, <2>1 DEF Frees, IInv, TypeOK
<1>3. CASE Keeps(p)  BY <1>3 DEF Keeps
<1> QED  BY <1>1, <1>2, <1>3, OwnStep

LEMMA OwnInv == ASSUME IInv, NEW p \in Creators, Step(p)
                PROVE  Own'
<1> SUFFICES ASSUME NEW q \in Creators, pc'[q] \in Holding
             PROVE  /\ name'[q] \in Names
                    /\ pc'[q] = "done" => path'[q] = name'[q]
                    /\ ~janitor' => dir'[name'[q]] = q
  BY DEF Own
<1>0. janitor' = janitor /\ q # "free"  BY StepFrame, Fresh
<1>1. CASE q # p
  <2>1. /\ pc[q] \in Holding /\ name'[q] = name[q] /\ name[q] \in Names
        /\ pc'[q] = "done" => path'[q] = name'[q]
        /\ ~janitor => dir[name[q]] = q
    BY <1>1, OnlyItsOwn DEF Same, IInv, Own
  <2> QED  BY <1>0, <1>1, <2>1, OthersNames
<1>2. CASE q = p
  <2>1. CASE Takes(p)
    BY <1>2, <2>1 DEF Takes, IInv, TypeOK
  <2>2. CASE Frees(p)  BY <1>2, <2>2 DEF Frees, Holding
  <2>3. CASE Keeps(p)
    <3>1. /\ pc[p] \in {"linked", "created", "made"} /\ pc'[p] = "done"
          /\ path'[p] = name[p] /\ name' = name /\ dir' = dir
      BY <1>2, <2>3 DEF Keeps, Holding
    <3>2. ~janitor => dir[name[p]] = p
      BY <3>1 DEF IInv, Own, Holding
    <3> QED  BY <1>0, <1>2, <3>1, <3>2, NameUsed
  <2> QED  BY <2>1, <2>2, <2>3, OwnStep
<1> QED  BY <1>1, <1>2

LEMMA OnlyInv == ASSUME IInv, NEW p \in Creators, Step(p)
                 PROVE  Only'
<1> SUFFICES ASSUME NEW q \in Creators \ left', NEW n \in Names, dir'[n] = q
             PROVE  pc'[q] \in Holding \cup {"killed"} /\ name'[q] = n
  BY DEF Only
<1>0. q \in Creators \ left /\ q # "free"  BY StepFrame, Fresh
<1>1. CASE q # p
  <2>1. dir[n] = q
    <3>1. CASE Takes(p)  BY <1>1, <3>1 DEF Takes, IInv, TypeOK
    <3>2. CASE Frees(p)
      <4>1. name[p] \in Names  BY <3>2, NameUsed DEF Frees
      <4> QED  BY <1>0, <3>2, <4>1 DEF Frees, IInv, TypeOK
    <3>3. CASE Keeps(p)  BY <3>3 DEF Keeps
    <3> QED  BY <3>1, <3>2, <3>3, OwnStep
  <2>2. pc[q] \in Holding \cup {"killed"} /\ name[q] = n
    BY <1>0, <2>1 DEF IInv, Only
  <2> QED  BY <1>1, <2>2, OnlyItsOwn DEF Same, IInv
<1>2. CASE q = p
  <2>1. CASE Takes(p)
    <3>1. dir[n] # p
      BY <1>0, <1>2, <2>1 DEF Takes, IInv, Only, Holding
    <3>2. name'[p] = n
      BY <1>2, <2>1, <3>1 DEF Takes, IInv, TypeOK
    <3> QED  BY <1>2, <2>1, <3>2 DEF Takes, Holding
  <2>2. CASE Frees(p)
    <3>1. name[p] \in Names  BY <2>2, NameUsed DEF Frees
    <3>2. n # name[p] /\ dir[n] = p
      BY <1>0, <1>2, <2>2, <3>1 DEF Frees, IInv, TypeOK
    <3>3. name[p] = n  BY <1>0, <1>2, <3>2 DEF IInv, Only
    <3> QED  BY <3>2, <3>3
  <2>3. CASE Keeps(p)
    <3>1. dir[n] = p  BY <1>2, <2>3 DEF Keeps
    <3>2. pc[p] \in Holding \cup {"killed"} /\ name[p] = n
      BY <1>0, <1>2, <3>1 DEF IInv, Only
    <3>3. Removable(name[p], p)
      BY <3>1, <3>2, Fresh DEF Removable
    <3>4. p \notin left'  BY <1>2
    <3> QED  BY <1>2, <2>3, <3>2, <3>3, <3>4 DEF Keeps, Holding
  <2> QED  BY <2>1, <2>2, <2>3, OwnStep
<1> QED  BY <1>1, <1>2

LEMMA DescriptorsStep == ASSUME IInv, NEW p \in Creators, Step(p)
                         PROVE  DescriptorsOf(p)'
<1> USE DEF TypeOK, DescriptorsOf, Goto, Fail, Return, SlowPath
<1>0. TypeOK /\ DescriptorsOf(p)  BY DEF IInv, Descriptors
<1>1. CASE new_tmp_common(p)  BY <1>0, <1>1 DEF new_tmp_common
<1>2. CASE TryFile(p)  BY <1>0, <1>2 DEF TryFile
<1>3. CASE Link(p)  BY <1>0, <1>3 DEF Link
<1>4. CASE Linked(p)  BY <1>0, <1>4 DEF Linked
<1>5. CASE Create(p)  BY <1>0, <1>5 DEF Create, GiveUp, Collision
<1>6. CASE Created(p)  BY <1>0, <1>6 DEF Created
<1>7. CASE TryDirectory(p)  BY <1>0, <1>7 DEF TryDirectory
<1>8. CASE Made(p)  BY <1>0, <1>8 DEF Made
<1> QED  BY <1>1, <1>2, <1>3, <1>4, <1>5, <1>6, <1>7, <1>8 DEF Step

LEMMA DescriptorsInv == ASSUME IInv, NEW p \in Creators, Step(p)
                        PROVE  Descriptors'
<1>1. ASSUME NEW q \in Creators PROVE DescriptorsOf(q)'
  <2>1. CASE q = p  BY <2>1, DescriptorsStep
  <2>2. CASE q # p
    BY <2>2, OnlyItsOwn DEF Same, IInv, Descriptors, DescriptorsOf
  <2> QED  BY <2>1, <2>2
<1> QED  BY <1>1 DEF Descriptors

LEMMA StepIInv == ASSUME IInv, NEW p \in Creators, Step(p)
                  PROVE  IInv'
  BY TypeStep, NamedStep, OwnInv, OnlyInv, DescriptorsInv DEF IInv

LEMMA KillIInv == ASSUME IInv, NEW p \in Creators, Kill(p)
                  PROVE  IInv'
<1>1. TypeOK  BY DEF IInv
<1>2. /\ pc' = [pc EXCEPT ![p] = "killed"]
      /\ open' = [open EXCEPT ![p] = {}] /\ fd' = [fd EXCEPT ![p] = "none"]
      /\ UNCHANGED <<dir, janitor, type, name, retries, spins, path, left>>
  BY DEF Kill, Goto
<1>3. TypeOK'  BY <1>1, <1>2 DEF TypeOK, PC, Ended
<1>4. Named' /\ Own'
  BY <1>1, <1>2 DEF IInv, TypeOK, Named, Own, Holding
<1>5. Only'
  BY <1>1, <1>2 DEF IInv, TypeOK, Only
<1>6. Descriptors'
  <2> SUFFICES ASSUME NEW q \in Creators PROVE DescriptorsOf(q)'
    BY DEF Descriptors
  <2>1. CASE q = p  BY <1>1, <1>2, <2>1 DEF TypeOK, DescriptorsOf
  <2>2. CASE q # p
    BY <1>1, <1>2, <2>2 DEF IInv, TypeOK, Descriptors, DescriptorsOf
  <2> QED  BY <2>1, <2>2
<1> QED  BY <1>3, <1>4, <1>5, <1>6 DEF IInv

\* Others take free names, and give back their own; only a janitor removes a
\* creator's.
LEMMA OthersActIInv == ASSUME IInv, NEW n \in Names, OthersAct(n)
                       PROVE  IInv'
<1>1. TypeOK  BY DEF IInv
<1>2. /\ UNCHANGED <<janitor, pc, type, name, retries, spins, open, fd, path, left>>
      /\ dir[n] \in {"free", "other"} \/ janitor
      /\ dir'[n] \in {"free", "other"}
      /\ \A m \in Names : m # n => dir'[m] = dir[m]
      /\ dir' \in [Names -> {"free", "other"} \cup Creators]
  BY <1>1 DEF OthersAct, TypeOK
<1>3. TypeOK'  BY <1>1, <1>2 DEF TypeOK
<1>4. Named' /\ Descriptors'
  BY <1>2 DEF IInv, Named, Descriptors, DescriptorsOf
<1>5. Own'
  <2> SUFFICES ASSUME NEW p \in Creators, pc[p] \in Holding, ~janitor
               PROVE  dir'[name[p]] = p
    BY <1>2 DEF IInv, Own
  <2>1. name[p] \in Names /\ dir[name[p]] = p  BY DEF IInv, Own
  <2> QED  BY <1>2, <2>1, Fresh
<1>6. Only'
  <2> SUFFICES ASSUME NEW p \in Creators \ left, NEW m \in Names, dir'[m] = p
               PROVE  pc[p] \in Holding \cup {"killed"} /\ name[p] = m
    BY <1>2 DEF Only
  <2>1. dir[m] = p  BY <1>2, Fresh
  <2> QED  BY <2>1 DEF IInv, Only
<1> QED  BY <1>3, <1>4, <1>5, <1>6 DEF IInv

LEMMA NextIInv == IInv /\ [Next]_vars => IInv'
<1> SUFFICES ASSUME IInv, [Next]_vars PROVE IInv'  OBVIOUS
<1>1. ASSUME NEW p \in Creators, Step(p) PROVE IInv'  BY <1>1, StepIInv
<1>2. ASSUME NEW p \in Creators, Kill(p) PROVE IInv'  BY <1>2, KillIInv
<1>3. ASSUME NEW n \in Names, OthersAct(n) PROVE IInv'  BY <1>3, OthersActIInv
<1>4. CASE UNCHANGED vars
  BY <1>4 DEF vars, IInv, TypeOK, Named, Own, Only, Descriptors, DescriptorsOf
<1> QED  BY <1>1, <1>2, <1>3, <1>4 DEF Next

LEMMA Invariant == Spec => []IInv
<1>1. Init => IInv  BY InitIInv
<1>2. IInv /\ [Next]_vars => IInv'  BY NextIInv
<1> QED  BY <1>1, <1>2, PTL DEF Spec

----------------------------------------------------------------------------
\* Every variable keeps its type; in particular neither loop of the code
\* (mkhtemp, mkhtemp_tmpfile_linux) counts up to MKHTEMP_RETRY_MAX.
THEOREM TypeCorrect == Spec => []TypeOK
<1>1. IInv => TypeOK  BY DEF IInv
<1> QED  BY <1>1, Invariant, PTL

\* The path that new_tmp_common returns leads to the caller's own file or
\* directory, whatever other programs create and remove meanwhile.
THEOREM UniqueCorrect == Spec => []Unique
<1>1. IInv => Unique  BY DEF IInv, Own, Unique, Holding
<1> QED  BY <1>1, Invariant, PTL

\* A failure of new_tmp_common leaves neither a file nor a descriptor behind,
\* a success leaves the one, and no descriptor is used after it was closed.
THEOREM NothingLeftCorrect == Spec => []NothingLeft
<1>1. IInv => NothingLeft
  <2> SUFFICES ASSUME IInv PROVE NothingLeft  OBVIOUS
  <2>1. ASSUME NEW p \in Creators \ left
        PROVE  /\ pc[p] = "failed" => \A n \in Names : dir[n] # p
               /\ pc[p] = "done" => \A n \in Names : dir[n] = p => n = path[p]
    BY DEF IInv, Only, Own, Holding
  <2>2. ASSUME NEW p \in Creators
        PROVE  /\ pc[p] \in {"failed", "killed"} => open[p] = {}
               /\ pc[p] = "done" => open[p] = {fd[p]}
               /\ fd[p] \in open[p] \cup {"none"} \/ pc[p] = "create"
    <3>1. pc[p] \in PC  BY DEF IInv, TypeOK
    <3> QED  BY <3>1 DEF IInv, Descriptors, DescriptorsOf, PC, Ended
  <2> QED  BY <2>1, <2>2 DEF NothingLeft
<1> QED  BY <1>1, Invariant, PTL

\* new_tmp_common neither replaces nor removes what another program has.
THEOREM OthersKeptCorrect == Spec => OthersKept
<1>1. IInv /\ [Next]_vars =>
        [~janitor => \A p \in Creators, n \in Names :
            Step(p) /\ dir[n] \notin {"free", p} => dir'[n] = dir[n]]_vars
  BY OthersNames
<1> QED  BY <1>1, Invariant, PTL DEF Spec, OthersKept

----------------------------------------------------------------------------
(* ExactIO, for requests of any length and files of any size: the bytes    *)
(* moved are counted by rc and, once a call returned, rval, and what the   *)
(* next call is made for follows from them.                                *)

AnyRequest == [type : Types, off : Int, n : Nat]

Under == phase \in {"loop", "syscall"}

\* The steps, and what they count.
Counted ==
    /\ phase \in {"idle", "loop", "syscall", "done"}
    /\ req \in AnyRequest /\ rc \in Nat /\ rval \in Nat /\ pos \in Int /\ size \in Int
    /\ moved \in Seq(Nat \X Int)
    /\ phase = "idle" => Len(moved) = 0 /\ rc = 0 /\ rval = 0
    /\ phase = "loop" => Len(moved) = rc + rval /\ Len(moved) <= req.n
    /\ phase = "syscall" => Len(moved) = rc /\ rc < req.n
    /\ Under => req.n > 0 /\ (req.type # "rset" => req.off >= 0)

\* The descriptor is where the next byte is.
Positioned ==
    /\ req.type \in {"read", "write"} =>
         \/ phase = "idle" /\ req.off < 0
         \/ phase = "done"
         \/ pos = req.off + Len(moved)
    /\ req.type = "rset" => pos = Len(moved)

\* While a transfer goes on, errno is that of nothing but interruptions.
Errnos ==
    /\ Under => errno \in (IF req.type = "rset" THEN {"0", "EINTR", "caller's"} ELSE {"0", "EINTR"})
    /\ phase # "done" => ret = Pending

Exact == Counted /\ Positioned /\ Errnos /\ AllOrError

LEMMA RequestType ==
  ASSUME req \in AnyRequest
  PROVE  req.type \in Types /\ req.off \in Int /\ req.n \in Nat /\ First \in Int
<1>1. req.type \in Types /\ req.off \in Int /\ req.n \in Nat
  BY DEF AnyRequest
<1>2. First \in Int  BY <1>1 DEF First
<1> QED  BY <1>1, <1>2

LEMMA IoInitExact ==
  ASSUME NEW r \in AnyRequest, NEW s \in Nat, IoInit(r, s)
  PROVE  Exact
<1>9. req \in AnyRequest  BY DEF IoInit
<1>1. req.type \in Types /\ req.off \in Int /\ req.n \in Nat  BY <1>9, RequestType
<1>2. moved = << >> /\ Len(moved) = 0 /\ phase = "idle" /\ ret = Pending
  BY DEF IoInit
<1>3. moved \in Seq(Nat \X Int)  BY <1>2
<1>4. Counted  BY <1>1, <1>2, <1>3 DEF IoInit, Counted, Under
<1>5. Positioned  BY <1>1, <1>2 DEF IoInit, Positioned, Types
<1>6. Errnos  BY <1>2 DEF Errnos, Under
<1>7. moved = [i \in 1 .. Len(moved) |-> <<i - 1, First + i - 1>>]  BY <1>2
<1>8. AllOrError  BY <1>1, <1>2, <1>7 DEF AllOrError, Pending, Failed
<1> QED  BY <1>4, <1>5, <1>6, <1>8 DEF Exact

\* A request that is refused transfers nothing.
LEMMA StartExact ==
  ASSUME Exact, rw_exact
  PROVE  Exact'
<1>1. req.type \in Types /\ req.off \in Int /\ req.n \in Nat  BY RequestType DEF Exact, Counted
<1>2. UNCHANGED <<req, rc, rval, pos, size, moved>> /\ phase = "idle"  BY DEF rw_exact
<1>3. \/ io_args /\ phase' = "loop" /\ errno' = "0" /\ ret' = ret
      \/ phase' = "done" /\ ret' = Failed /\ errno' = "error"
  BY DEF rw_exact, Done
<1>4. Len(moved) = 0 /\ rc = 0 /\ rval = 0 /\ ret = Pending
  BY <1>2 DEF Exact, Counted, Errnos
<1>5. Counted'  BY <1>1, <1>2, <1>3, <1>4 DEF Exact, Counted, Under, io_args
<1>6. Positioned'  BY <1>1, <1>2, <1>3, <1>4 DEF Exact, Positioned, io_args
<1>7. Errnos'  BY <1>2, <1>3, <1>4 DEF Errnos, Under
<1>8. AllOrError'  BY <1>2, <1>3, <1>4 DEF Exact, AllOrError, First, Pending, Failed
<1> QED  BY <1>5, <1>6, <1>7, <1>8 DEF Exact

\* What was moved is not more than what is asked for, so nothing overflows.
LEMMA LoopExact ==
  ASSUME Exact, Loop
  PROVE  Exact'
<1>1. req.type \in Types /\ req.off \in Int /\ req.n \in Nat  BY RequestType DEF Exact, Counted
<1>2. UNCHANGED <<req, rval, pos, size, moved>> /\ phase = "loop"  BY DEF Loop
<1>3. /\ rc \in Nat /\ rval \in Nat /\ Len(moved) = rc + rval /\ Len(moved) <= req.n
      /\ req.n > 0 /\ (req.type # "rset" => req.off >= 0) /\ ret = Pending
      /\ errno \in {"0", "EINTR", "caller's"}
      /\ req.type # "rset" => errno \in {"0", "EINTR"}
  BY <1>2 DEF Exact, Counted, Errnos, Under
<1>4. /\ rc' = rc + rval
      /\ \/ rc' >= req.n /\ phase' = "done" /\ ret' = rc' /\ errno' = Reset(errno)
         \/ rc' < req.n /\ phase' = "syscall" /\ ret' = ret /\ errno' = errno
  BY <1>1, <1>2, <1>3 DEF Loop, Ok, Done
<1>5. Counted'  BY <1>1, <1>2, <1>3, <1>4 DEF Exact, Counted, Under
<1>6. Positioned'  BY <1>1, <1>2, <1>3, <1>4 DEF Exact, Positioned
<1>7. Errnos'  BY <1>2, <1>3, <1>4 DEF Errnos, Under
<1>8. Reset(errno) \in {"EINTR", "caller's"}  BY <1>3 DEF Reset
<1>9. AllOrError'
  BY <1>1, <1>2, <1>3, <1>4, <1>8 DEF Exact, AllOrError, First, Pending, Failed
<1> QED  BY <1>5, <1>6, <1>7, <1>9 DEF Exact

\* What a call is made for is what comes after the bytes moved.
LEMMA NextPlace ==
  ASSUME Exact, phase = "syscall"
  PROVE  /\ Mem = Len(moved) /\ Place = First + Len(moved)
         /\ Left = req.n - Len(moved) /\ Left > 0
<1>1. req.type \in Types /\ req.off \in Int /\ req.n \in Nat  BY RequestType DEF Exact, Counted
<1>2. Len(moved) = rc /\ rc < req.n /\ rc \in Nat  BY DEF Exact, Counted
<1>3. /\ req.type \in {"read", "write"} => pos = req.off + rc
      /\ req.type = "rset" => pos = rc
  BY <1>2 DEF Exact, Positioned
<1> QED  BY <1>1, <1>2, <1>3 DEF Mem, Place, Left, First, Types

\* No call returns more than it is asked for, and getrandom returns some.
LEMMA AmountsOf ==
  ASSUME Exact, phase = "syscall", NEW r \in Amounts
  PROVE  r \in Nat /\ r <= Left /\ (req.type = "rset" => r > 0)
<1>1. req.type \in Types /\ req.n \in Nat /\ First \in Int  BY RequestType DEF Exact, Counted
<1>2. Place \in Int /\ Left \in Int /\ Left > 0 /\ size \in Int /\ FileMax \in Int
  BY <1>1, NextPlace, RequestsAssumption DEF Exact, Counted
<1> DEFINE room == IF req.type \in {"read", "pread"} THEN size - Place
                   ELSE IF req.type = "rset" THEN Left ELSE FileMax - Place
<1>3. room \in Int /\ (req.type = "rset" => room > 0)  BY <1>2
<1>4. r \in (IF room <= 0 THEN {0} ELSE 1 .. (IF room < Left THEN room ELSE Left))
  BY DEF Amounts
<1> HIDE DEF room
<1> QED  BY <1>2, <1>3, <1>4

\* The bytes of a call come right after those before it.
LEMMA TransferExact ==
  ASSUME Exact, phase = "syscall", NEW r \in Nat, Transfer(r), req' = req
  PROVE  /\ moved' = [i \in 1 .. Len(moved') |-> <<i - 1, First + i - 1>>]
         /\ moved' \in Seq(Nat \X Int)
         /\ Len(moved') = Len(moved) + r
         /\ pos' \in Int /\ size' \in Int
         /\ req.type \in {"read", "write"} => pos' = req.off + Len(moved')
         /\ req.type = "rset" => pos' = Len(moved')
<1> DEFINE k == Len(moved)
           new == [i \in 1 .. r |-> <<k + i - 1, First + k + i - 1>>]
           all == [i \in 1 .. k + r |-> <<i - 1, First + i - 1>>]
<1>1. /\ req.type \in Types /\ req.off \in Int /\ req.n \in Nat /\ First \in Int
      /\ moved \in Seq(Nat \X Int) /\ pos \in Int /\ size \in Int
  BY RequestType DEF Exact, Counted
<1>2. k \in Nat  BY <1>1
<1>3. Mem = k /\ Place = First + k  BY NextPlace
<1>4. new \in Seq(Nat \X Int) /\ Len(new) = r
  <2>1. \A i \in 1 .. r : <<k + i - 1, First + k + i - 1>> \in Nat \X Int  BY <1>1, <1>2
  <2>2. new \in [1 .. r -> Nat \X Int]  BY <2>1
  <2> QED  BY <2>2
<1>5. moved' = moved \o new  BY <1>3, <1>1, <1>2 DEF Transfer
<1>6. moved = [i \in 1 .. k |-> <<i - 1, First + i - 1>>]  BY DEF Exact, AllOrError
<1>7. moved' \in Seq(Nat \X Int) /\ Len(moved') = k + r
  BY <1>1, <1>4, <1>5, ConcatProperties
<1>8. \A i \in 1 .. k + r : moved'[i] = <<i - 1, First + i - 1>>
  <2> SUFFICES ASSUME NEW i \in 1 .. k + r PROVE moved'[i] = <<i - 1, First + i - 1>>
    OBVIOUS
  <2>1. CASE i <= k
    <3>1. i \in 1 .. k  BY <2>1, <1>2
    <3>2. moved'[i] = moved[i]
      BY <3>1, <1>1, <1>4, <1>5, <1>2, ConcatProperties
    <3> QED  BY <3>1, <3>2, <1>6
  <2>2. CASE i > k
    <3>1. i - k \in 1 .. r /\ i \in Int  BY <2>2, <1>2
    <3>2. moved'[i] = new[i - k]
      BY <2>2, <1>1, <1>4, <1>5, <1>2, ConcatProperties
    <3>3. k + (i - k) - 1 = i - 1 /\ First + k + (i - k) - 1 = First + i - 1
      BY <3>1, <1>1, <1>2
    <3>4. new[i - k] = <<k + (i - k) - 1, First + k + (i - k) - 1>>  BY <3>1
    <3> QED  BY <3>2, <3>3, <3>4
  <2> QED  BY <2>1, <2>2, <1>2
<1>9. moved' = all
  <2>1. moved' \in [1 .. k + r -> Nat \X Int]  BY <1>7
  <2> QED  BY <2>1, <1>8
<1>10. pos' = IF req.type \in {"read", "write", "rset"} THEN pos + r ELSE pos
  BY DEF Transfer
<1>11. size' \in Int  BY <1>1, <1>2, <1>3 DEF Transfer
<1>12. /\ req.type \in {"read", "write"} => pos = req.off + k
       /\ req.type = "rset" => pos = k
  BY DEF Exact, Positioned
<1>13. moved' = [i \in 1 .. Len(moved') |-> <<i - 1, First + i - 1>>]  BY <1>7, <1>9
<1>14. pos' \in Int  BY <1>1, <1>2, <1>10
<1>15. /\ req.type \in {"read", "write"} => pos' = req.off + Len(moved')
       /\ req.type = "rset" => pos' = Len(moved')
  <2> HIDE DEF k, new, all
  <2>1. req.type \in {"read", "write", "rset"} => pos' = pos + r  BY <1>10
  <2>2. CASE req.type \in {"read", "write"}
    <3>1. pos = req.off + k /\ pos' = pos + r /\ req.type # "rset"  BY <2>1, <2>2, <1>12
    <3> QED  BY <3>1, <1>1, <1>2, <1>7
  <2>3. CASE req.type = "rset"
    <3>1. pos = k /\ pos' = pos + r  BY <2>1, <2>3, <1>12
    <3> QED  BY <3>1, <2>3, <1>2, <1>7
  <2> QED  BY <2>2, <2>3
<1> QED  BY <1>7, <1>11, <1>13, <1>14, <1>15

LEMMA AnsweredExact ==
  ASSUME Exact, Answered
  PROVE  Exact'
<1>1. /\ req.type \in Types /\ req.off \in Int /\ req.n \in Nat
      /\ phase = "syscall" /\ req' = req /\ rc' = rc
  BY RequestType DEF Exact, Counted, Answered
<1>2. /\ rc \in Nat /\ Len(moved) = rc /\ rc < req.n /\ req \in AnyRequest /\ ret = Pending
      /\ req.n > 0 /\ (req.type # "rset" => req.off >= 0)
      /\ errno \in {"0", "EINTR", "caller's"}
      /\ req.type # "rset" => errno \in {"0", "EINTR"}
  BY <1>1 DEF Exact, Counted, Errnos, Under
<1>3. CASE Fails
  <2>1. /\ phase' = "done" /\ ret' = Failed /\ errno' = "error"
        /\ UNCHANGED <<rval, pos, size, moved>>
    BY <1>3 DEF Fails, Done
  <2>2. Counted'  BY <1>1, <1>2, <2>1 DEF Exact, Counted, Under
  <2>3. Positioned'  BY <1>1, <1>2, <2>1 DEF Exact, Positioned
  <2>4. Errnos'  BY <2>1 DEF Errnos, Under
  <2>5. AllOrError'  BY <1>1, <2>1 DEF Exact, AllOrError, First, Failed, Pending
  <2> QED  BY <2>2, <2>3, <2>4, <2>5 DEF Exact
<1>4. ASSUME NEW r \in Amounts, Returns(r)  PROVE Exact'
  <2>1. r \in Nat /\ r <= req.n - rc /\ (req.type = "rset" => r > 0)
    BY <1>1, <1>2, AmountsOf, NextPlace
  <2>2. Transfer(r)  BY <1>4 DEF Returns
  <2>0. moved' = [i \in 1 .. Len(moved') |-> <<i - 1, First + i - 1>>]
    <3>1. phase = "syscall" /\ req' = req  BY <1>1
    <3>2. r \in Nat  BY <2>1
    <3> QED  BY ONLY <3>1, <3>2, <2>2, Exact, TransferExact
  <2>3. /\ moved' \in Seq(Nat \X Int) /\ Len(moved') = Len(moved) + r
        /\ pos' \in Int /\ size' \in Int
        /\ req.type \in {"read", "write"} => pos' = req.off + Len(moved')
        /\ req.type = "rset" => pos' = Len(moved')
    <3>1. phase = "syscall" /\ req' = req  BY <1>1
    <3>2. r \in Nat  BY <2>1
    <3> QED  BY ONLY <3>1, <3>2, <2>2, Exact, TransferExact
  <2>4. First' = First  BY <1>1 DEF First
  <2>8. moved' = [i \in 1 .. Len(moved') |-> <<i - 1, First' + i - 1>>]  BY <2>0, <2>4
  <2>9. Len(moved') \in Nat /\ Len(moved') <= req'.n  BY SMTT(30), <1>1, <1>2, <2>1, <2>3
  <2>5. Positioned'  BY <1>1, <2>3 DEF Positioned
  <2>6. CASE r = 0
    <3>1. phase' = "done" /\ ret' = Failed /\ errno' = Fallback(errno) /\ rval' = rval
      BY <1>4, <2>6 DEF Returns, Err, Done
    <3>2. Fallback(errno) \in {"EINTR", "error"}  BY <1>2, <2>1, <2>6 DEF Fallback
    <3>3. Counted'  BY <1>1, <1>2, <2>3, <3>1 DEF Exact, Counted, Under
    <3>4. Errnos'  BY <3>1 DEF Errnos, Under
    <3>5. ret' = Failed /\ errno' \in {"EINTR", "error"}  BY <3>1, <3>2
    <3>6. AllOrError'  BY <2>8, <2>9, <3>5 DEF AllOrError
    <3> QED  BY <2>5, <3>3, <3>4, <3>6 DEF Exact
  <2>7. CASE r > 0
    <3>1. /\ rval' = r /\ phase' = "loop" /\ ret' = ret
          /\ errno' = IF req.type = "rset" THEN Reset(errno) ELSE errno
      BY <1>4, <2>7 DEF Returns
    <3>2. /\ errno' \in {"0", "EINTR", "caller's"}
          /\ req.type # "rset" => errno' \in {"0", "EINTR"}
      BY <3>1, <1>2 DEF Reset
    <3>3. Counted'
      <4>1. /\ req' \in AnyRequest /\ rc' \in Nat /\ rval' \in Nat
            /\ pos' \in Int /\ size' \in Int /\ moved' \in Seq(Nat \X Int)
        BY <1>1, <1>2, <2>1, <2>3, <3>1
      <4>2. Len(moved') = rc' + rval' /\ Len(moved') <= req'.n
        BY <1>1, <1>2, <2>1, <2>3, <3>1
      <4>3. req'.n > 0 /\ (req'.type # "rset" => req'.off >= 0)
        BY <1>1, <1>2
      <4> QED  BY <3>1, <4>1, <4>2, <4>3 DEF Counted, Under
    <3>4. Errnos'  BY <1>1, <1>2, <3>1, <3>2 DEF Errnos, Under
    <3>5. ret' = Pending /\ Pending # Failed  BY <1>2, <3>1 DEF Pending, Failed
    <3>6. AllOrError'  BY <2>8, <2>9, <3>5 DEF AllOrError
    <3> QED  BY <2>5, <3>3, <3>4, <3>6 DEF Exact
  <2> QED  BY <2>1, <2>6, <2>7
<1> QED  BY <1>3, <1>4 DEF Answered

LEMMA OthersExact ==
  ASSUME Exact, Interrupted \/ Resize \/ UNCHANGED io
  PROVE  Exact'
<1>1. UNCHANGED <<req, phase, rc, rval, pos, moved, ret>>
  BY DEF Interrupted, Resize, io
<1>2. errno' = errno \/ (phase = "syscall" /\ errno' = "EINTR")
  BY DEF Interrupted, Resize, io
<1>3. size' \in Int  BY RequestsAssumption DEF Interrupted, Resize, io, Exact, Counted
<1>4. Counted'  BY <1>1, <1>3 DEF Exact, Counted, Under
<1>5. Positioned'  BY <1>1 DEF Exact, Positioned
<1>6. Errnos'  BY <1>1, <1>2 DEF Exact, Errnos, Under
<1>7. phase = "syscall" => ret = Pending  BY DEF Exact, Errnos
<1>8. AllOrError'
  BY <1>1, <1>2, <1>7 DEF Exact, AllOrError, First, Pending, Failed
<1> QED  BY <1>4, <1>5, <1>6, <1>8 DEF Exact

\* Whatever the system calls return of what rw_exact and rset ask for (lib/file.c,
\* lib/rand.c), however often they are interrupted and whoever changes the file's
\* size, a request of any length transfers each byte once and to its place and
\* says so, or fails with an error after a first part of them.
THEOREM AllOrErrorCorrect ==
  ASSUME NEW r \in Requests, NEW s \in 0 .. FileMax
  PROVE  IoInit(r, s) /\ [][Io]_io => []AllOrError
<1>9. s \in Nat /\ Offsets \subseteq Int /\ Counts \subseteq Nat  BY RequestsAssumption
<1>0. r \in AnyRequest /\ s \in Nat  BY <1>9 DEF Requests, AnyRequest
<1>1. IoInit(r, s) => Exact  BY <1>0, IoInitExact
<1>2. Exact /\ [Io]_io => Exact'
  BY StartExact, LoopExact, AnsweredExact, OthersExact DEF Io
<1>3. Exact => AllOrError  BY DEF Exact
<1> QED  BY <1>1, <1>2, <1>3, PTL

----------------------------------------------------------------------------
(* The least and the greatest of some numbers.                             *)

LEMMA GreatestOf ==
  ASSUME NEW S \in SUBSET Nat, S # {}, NEW b \in Nat, \A n \in S : n <= b
  PROVE  Max(S) \in S /\ Max(S) \in Nat /\ \A n \in S : n <= Max(S)
<1> DEFINE T == {b - n : n \in S}
<1>1. T \in SUBSET Nat /\ T # {}
  <2>1. PICK n \in S : TRUE  OBVIOUS
  <2>2. b - n \in T  BY <2>1
  <2> QED  BY <2>2
<1>2. Min(T) \in T /\ \A t \in T : Min(T) <= t
  <2> HIDE DEF T
  <2> QED  BY <1>1, LeastOf
<1>3. PICK m \in S : Min(T) = b - m  BY <1>2
<1>4. \A n \in S : n <= m
  <2> SUFFICES ASSUME NEW n \in S PROVE n <= m  OBVIOUS
  <2>1. b - n \in T  OBVIOUS
  <2>2. b - m <= b - n  BY <2>1, <1>2, <1>3
  <2> QED  BY <2>2
<1> QED  BY <1>4 DEF Max

----------------------------------------------------------------------------
(* The vendor files of a board (VendorFiles).                                  *)

\* The partition of ChromeOS is copied with the file in it.
LEMMA MrcFits ==
  ASSUME NEW x \in Boards, x.mrc_set, x.root.start % Kib = 0,
         x.root.shellball <= x.root.size - Kib
  PROVE  extract_mrc(x) = {"mrc"}
<1>1. x.root \in [start : Nat, size : Nat, shellball : Nat]  BY DEF Boards
<1> DEFINE s == x.root.start
           n == x.root.size
           h == x.root.shellball
<1>2. s \in Nat /\ n \in Nat /\ h \in Nat /\ s % 4 = 0 /\ h <= n - 4
  BY <1>1 DEF Kib
<1>3. 4 * (s \div 4) = s  BY <1>2
<1>4. n - 4 <= 4 * (n \div 4)  BY <1>2
<1>5. /\ extract_partition(x.root).from = 4 * (s \div 4)
      /\ extract_partition(x.root).to = 4 * (s \div 4) + 4 * (n \div 4)
  BY DEF extract_partition, Kib
<1>6. 4 * (n \div 4) \in Int  BY <1>2
<1>7. s + h <= s + 4 * (n \div 4)  BY <1>2, <1>4, <1>6
<1> QED  BY <1>3, <1>5, <1>7 DEF extract_mrc

\* The first file of Thunderbolt firmware that is not a link is long enough.
LEMMA TbFits ==
  ASSUME NEW x \in Boards, x.tbfw_size, \E i \in DOMAIN x.tbts : x.tbts[i] # "link",
         \A i \in DOMAIN x.tbts : x.tbts[i] # "shorter"
  PROVE  extract_tbfw(x) = {"tb"}
<1> DEFINE t == x.tbts
           others == {i \in 1 .. Len(t) : t[i] # "link"}
           first == SelectInSeq(t, LAMBDA k : k # "link")
<1>1. t \in Seq({"link", "exact", "longer", "shorter"})  BY DEF Boards
<1>2. others \in SUBSET Nat /\ others # {}  BY <1>1
<1>3. first = IF others # {} THEN Min(others) ELSE 0  BY DEF SelectInSeq
<1>4. Min(others) \in others /\ Min(others) \in Nat
  <2> HIDE DEF others
  <2> QED  BY <1>2, LeastOf
<1>5. first \in others /\ first \in Nat \ {0}
  <2>1. first = Min(others)
    <3> HIDE DEF others, first
    <3> QED  BY <1>2, <1>3
  <2>2. Min(others) \in 1 .. Len(t) /\ Len(t) \in Nat  BY <1>1, <1>4
  <2> HIDE DEF others, first
  <2> QED  BY <2>1, <2>2, <1>4
<1>6. t[first] \in {"exact", "longer"}  BY <1>1, <1>5
<1>7. extract_tbfw(x) = IF ~x.tbfw_size THEN Abort
                        ELSE IF first = 0 THEN {}
                        ELSE IF t[first] \in {"exact", "longer"} THEN {"tb"} ELSE {"junk"}
  BY DEF extract_tbfw
<1> QED  BY <1>5, <1>6, <1>7

\* An extractor that has what it needs finds the file.
LEMMA Extracts ==
  ASSUME NEW x \in Boards, NEW i \in DOMAIN VendorRequests,
         InOrder(VendorRequests[i].file, x)
  PROVE  /\ VendorRequests[i].binsum \in extract(VendorRequests[i].type, x)
         /\ extract(VendorRequests[i].type, x) \in SUBSET (Files \cup {"junk"})
<1> DEFINE r == VendorRequests[i]
<1>1. i \in 1 .. 10  BY DEF VendorRequests
<1>2. Files = {"me", "sch5545", "fw1", "fw2", "vga", "mrc", "refcode", "tb", "fspm", "fsps"}
  <2>1. DOMAIN VendorRequests = 1 .. 10  BY DEF VendorRequests
  <2> QED  BY <2>1 DEF Files, VendorRequests
<1>3. CASE i = 1
  <2>1. r = [file |-> "me", type |-> "intel_me",  binsum |-> "me"]  BY <1>3 DEF VendorRequests
  <2>2. extract("intel_me", x) = {"me"}  BY <2>1 DEF extract, InOrder
  <2> QED  BY <2>1, <2>2, <1>2
<1>4. CASE i = 2
  <2>1. r = [file |-> "sch5545", type |-> "sch5545ec", binsum |-> "sch5545"]  BY <1>4 DEF VendorRequests
  <2>2. extract("sch5545ec", x) = {"sch5545"}
    <3>1. InOrder("sch5545", x)  BY <2>1
    <3> QED  BY <3>1 DEF extract, InOrder, extract_sch5545ec
  <2> QED  BY <2>1, <2>2, <1>2
<1>5. CASE i = 3
  <2>1. r = [file |-> "fw1", type |-> "kbc1126ec", binsum |-> "fw1"]  BY <1>5 DEF VendorRequests
  <2>2. extract("kbc1126ec", x) = {"fw1", "fw2"}
    <3>1. InOrder("fw1", x)  BY <2>1
    <3> QED  BY <3>1 DEF extract, InOrder, extract_kbc1126ec, bootstrap
  <2> QED  BY <2>1, <2>2, <1>2
<1>6. CASE i = 4
  <2>1. r = [file |-> "fw2", type |-> "kbc1126ec", binsum |-> "fw2"]  BY <1>6 DEF VendorRequests
  <2>2. extract("kbc1126ec", x) = {"fw1", "fw2"}
    <3>1. InOrder("fw2", x)  BY <2>1
    <3> QED  BY <3>1 DEF extract, InOrder, extract_kbc1126ec, bootstrap
  <2> QED  BY <2>1, <2>2, <1>2
<1>7. CASE i = 5
  <2>1. r = [file |-> "vga", type |-> "e6400vga", binsum |-> "vga"]  BY <1>7 DEF VendorRequests
  <2>2. extract("e6400vga", x) = {"vga"}
    <3>1. InOrder("vga", x)  BY <2>1
    <3> QED  BY <3>1 DEF extract, InOrder, extract_e6400vga
  <2> QED  BY <2>1, <2>2, <1>2
<1>8. CASE i = 6
  <2>1. r = [file |-> "mrc", type |-> "mrc", binsum |-> "mrc"]  BY <1>8 DEF VendorRequests
  <2>2. extract("mrc", x) = {"mrc"}
    <3>1. InOrder("mrc", x)  BY <2>1
    <3>2. extract_mrc(x) = {"mrc"}  BY <3>1, MrcFits DEF InOrder
    <3> QED  BY <3>2 DEF extract
  <2> QED  BY <2>1, <2>2, <1>2
<1>9. CASE i = 7
  <2>1. r = [file |-> "refcode", type |-> "refcode", binsum |-> "refcode"]  BY <1>9 DEF VendorRequests
  <2>2. extract("refcode", x) = {"mrc", "refcode"}
    <3>1. InOrder("refcode", x)  BY <2>1
    <3>2. extract_mrc(x) = {"mrc"} /\ x.refcode_gbe /\ x.refcode_cbtree
      BY <3>1, MrcFits DEF InOrder
    <3>3. "cbfstoolref" \in bootstrap(x)  BY <3>2 DEF bootstrap
    <3>4. {"mrc"} # Abort  BY <1>2, AbortAssumption
    <3>5. extract_refcode(x) = {"mrc", "refcode"}  BY <3>2, <3>3, <3>4 DEF extract_refcode
    <3> QED  BY <3>5 DEF extract
  <2> QED  BY <2>1, <2>2, <1>2
<1>10. CASE i = 8
  <2>1. r = [file |-> "tb", type |-> "tbfw", binsum |-> "tb"]  BY <1>10 DEF VendorRequests
  <2>2. extract("tbfw", x) = {"tb"}
    <3>1. InOrder("tb", x)  BY <2>1
    <3>2. extract_tbfw(x) = {"tb"}  BY <3>1, TbFits DEF InOrder
    <3> QED  BY <3>2 DEF extract
  <2> QED  BY <2>1, <2>2, <1>2
<1>11. CASE i = 9
  <2>1. r = [file |-> "fspm", type |-> "fsp", binsum |-> "fspm"]  BY <1>11 DEF VendorRequests
  <2>2. extract("fsp", x) = {"fspm", "fsps"}
    <3>1. InOrder("fspm", x)  BY <2>1
    <3> QED  BY <3>1 DEF extract, InOrder, extract_fsp
  <2> QED  BY <2>1, <2>2, <1>2
<1>12. CASE i = 10
  <2>1. r = [file |-> "fsps", type |-> "fsp", binsum |-> "fsps"]  BY <1>12 DEF VendorRequests
  <2>2. extract("fsp", x) = {"fspm", "fsps"}
    <3>1. InOrder("fsps", x)  BY <2>1
    <3> QED  BY <3>1 DEF extract, InOrder, extract_fsp
  <2> QED  BY <2>1, <2>2, <1>2
<1> QED  BY <1>1, <1>3, <1>4, <1>5, <1>6, <1>7, <1>8, <1>9, <1>10, <1>11, <1>12

\* Whatever a board asks for is placed by its own name, all of it on success, and
\* of archives that are in order there is success.
LEMMA FilesPlaced ==
  ASSUME NEW x \in Boards
  PROVE  FilesInPlace(x, getfiles(x))
<1> DEFINE R == VendorRequests
           wanted == {i \in DOMAIN R : R[i].file \in x.wants}
           fails  == {i \in wanted : fetch(R[i], x) = Abort}
           done   == {i \in wanted : \A j \in fails : i < j}
           made   == {i \in done : R[i].file \notin x.null}
           v      == getfiles(x)
<1>1. v = [ok |-> fails = {}, placed |-> {<<R[i].file, fetch(R[i], x)>> : i \in made}]
  BY DEF getfiles
<1>0. v.ok <=> fails = {}
  <2> HIDE DEF v, fails, done
  <2>1. v.ok = (fails = {})  BY <1>1
  <2> QED  BY <2>1, Zenon
<1>2. DOMAIN R = 1 .. 10 /\ \A i \in DOMAIN R : R[i].file = R[i].binsum
  BY DEF VendorRequests
<1>3. \A i \in made : fetch(R[i], x) = R[i].file
  <2> SUFFICES ASSUME NEW i \in made PROVE fetch(R[i], x) = R[i].file  OBVIOUS
  <2>1. i \in 1 .. 10 /\ i \notin fails /\ R[i].file \notin x.null  BY <1>2
  <2>2. fetch(R[i], x) # Abort  BY <2>1
  <2>3. fetch(R[i], x) = IF extract(R[i].type, x) # Abort /\ R[i].binsum \in extract(R[i].type, x)
                           THEN R[i].binsum ELSE Abort
    BY <2>1, <2>2 DEF fetch
  <2> QED  BY <2>1, <2>2, <2>3, <1>2
<1>4. \A p \in v.placed : p[1] = p[2]  BY <1>1, <1>3
<1>5. v.ok => {p[1] : p \in v.placed} = x.wants \ x.null
  <2> SUFFICES ASSUME fails = {} PROVE {p[1] : p \in v.placed} = x.wants \ x.null
    BY <1>0
  <2>1. made = {i \in wanted : R[i].file \notin x.null}  OBVIOUS
  <2>2. v.placed = {<<R[i].file, fetch(R[i], x)>> : i \in made}  BY <1>1
  <2>3. x.wants \subseteq {R[i].file : i \in DOMAIN R}  BY DEF Boards, Files
  <2>4. {p[1] : p \in v.placed} = {R[i].file : i \in made}
    <3> DEFINE F(i) == R[i].file
               G(i) == fetch(R[i], x)
    <3>1. v.placed = {<<F(i), G(i)>> : i \in made}  BY <2>2
    <3> HIDE DEF made, v, F, G
    <3>2. ASSUME NEW p \in v.placed PROVE p[1] \in {F(i) : i \in made}
      <4>1. PICK i \in made : p = <<F(i), G(i)>>  BY <3>1
      <4> QED  BY <4>1
    <3>3. ASSUME NEW i \in made PROVE F(i) \in {p[1] : p \in v.placed}
      <4>1. <<F(i), G(i)>> \in v.placed /\ <<F(i), G(i)>>[1] = F(i)  BY <3>1
      <4> QED  BY <4>1
    <3>4. {p[1] : p \in v.placed} = {F(i) : i \in made}  BY <3>2, <3>3
    <3> QED  BY <3>4 DEF F
  <2> QED  BY <2>1, <2>3, <2>4
<1>6. x.wants \cap x.nosum = {} /\ (\A f \in x.wants \ x.null : InOrder(f, x)) => v.ok
  <2> SUFFICES ASSUME x.wants \cap x.nosum = {}, \A f \in x.wants \ x.null : InOrder(f, x),
                      NEW i \in fails
               PROVE  FALSE
    BY <1>0
  <2>0. i \in DOMAIN R /\ R[i].file \notin x.nosum /\ fetch(R[i], x) = Abort  OBVIOUS
  <2>6. R[i].file \notin x.null  BY <2>0, AbortAssumption DEF fetch
  <2>1. i \in DOMAIN R /\ InOrder(R[i].file, x) /\ fetch(R[i], x) = Abort  BY <2>0, <2>6
  <2>2. /\ R[i].binsum \in extract(R[i].type, x)
        /\ extract(R[i].type, x) \in SUBSET (Files \cup {"junk"})
    BY <2>1, Extracts
  <2>3. extract(R[i].type, x) # Abort  BY <2>2, AbortAssumption
  <2>4. fetch(R[i], x) = R[i].binsum  BY <2>0, <2>2, <2>3, <2>6 DEF fetch
  <2>5. R[i].binsum \in Files  BY <2>1, <1>2 DEF Files
  <2> QED  BY <2>1, <2>4, <2>5, AbortAssumption
<1> QED  BY <1>4, <1>5, <1>6 DEF FilesInPlace

----------------------------------------------------------------------------
(* The region that is made of an update for ME 7 (Me7Update).                  *)

Chunks(u) == ToSet(get_chunks_offsets(u.llut))

\* Chunks lie in FTPR behind the LLUT and are not empty, and no two of them overlap.
LEMMA ChunksApart ==
  ASSUME NEW u \in Updates, Sane(u), HasHuffman(u)
  PROVE  /\ u.llut.at \in Nat
         /\ \A c \in Chunks(u) :
              /\ c[1] \in Nat /\ c[2] \in Nat
              /\ c[1] # 0 => /\ ORIG_FTPR_OFFSET + u.llut.at < c[1] /\ c[1] < c[2]
                             /\ c[2] <= ORIG_FTPR_OFFSET + FTPR_END
              /\ c[1] = 0 => c[2] = 0
         /\ \A c, k \in Chunks(u) :
              c[1] # 0 /\ k[1] # 0 => c = k \/ c[2] <= k[1] \/ k[2] <= c[1]
<1> DEFINE ch  == u.llut.chunks
           all == get_chunks_offsets(u.llut)
           end == u.llut.stream + u.llut.size
           after(i) == {o \in ToSet(ch) \cup {end} : o > ch[i]}
           shared(i) == \/ \E j \in DOMAIN ch \ {i} : ch[j] = ch[i]
                        \/ ch[i] = end
           used == {i \in DOMAIN ch : ch[i] # 0}
<1>1. /\ ch \in Seq(Nat) /\ end \in Nat /\ u.llut.at \in Nat
      /\ u.llut.stream \in Nat /\ u.llut.size \in Nat
  BY DEF Updates
<1>2. DOMAIN ch = 1 .. Len(ch) /\ \A i \in DOMAIN ch : ch[i] \in Nat
  BY <1>1
<1>3. /\ \A i, j \in used : i # j => ch[i] # ch[j]
      /\ \A i \in used : ORIG_FTPR_OFFSET + u.llut.at < ch[i] /\ ch[i] < end
      /\ end <= ORIG_FTPR_OFFSET + FTPR_END
  BY DEF Sane
<1>4. DOMAIN all = DOMAIN ch
  BY DEF get_chunks_offsets
<1>5. \A i \in DOMAIN ch :
        all[i] = IF ch[i] = 0 THEN <<0, 0>>
                 ELSE <<ch[i], IF shared(i) THEN ch[i] ELSE Min(after(i))>>
  BY DEF get_chunks_offsets
<1>6. ASSUME NEW i \in used
      PROVE  /\ all[i] = <<ch[i], Min(after(i))>>
             /\ Min(after(i)) \in Nat /\ ch[i] < Min(after(i)) /\ Min(after(i)) <= end
             /\ \A j \in used : ch[j] > ch[i] => Min(after(i)) <= ch[j]
  <2>1. i \in DOMAIN ch /\ ch[i] # 0 /\ ch[i] \in Nat /\ ch[i] < end
    BY <1>2, <1>3
  <2>2. ~shared(i)
    <3> SUFFICES ASSUME NEW j \in DOMAIN ch \ {i}, ch[j] = ch[i] PROVE FALSE
      BY <2>1, <1>1
    <3>1. j \in used  BY <2>1
    <3> QED  BY <3>1, <1>3
  <2>3. all[i] = <<ch[i], Min(after(i))>>
    <3> HIDE DEF all, shared, after, ch
    <3> QED  BY <2>1, <2>2, <1>5
  <2>4. after(i) \in SUBSET Nat /\ end \in after(i)
    BY <1>1, <1>2, <2>1 DEF ToSet
  <2>5. Min(after(i)) \in after(i) /\ Min(after(i)) \in Nat /\ \A n \in after(i) : Min(after(i)) <= n
    <3> HIDE DEF after
    <3> QED  BY <2>4, LeastOf
  <2>6. \A j \in used : ch[j] > ch[i] => ch[j] \in after(i)
    BY <1>2 DEF ToSet
  <2> QED  BY <2>3, <2>4, <2>5, <2>6
<1>7. Chunks(u) = {all[i] : i \in DOMAIN ch}
  BY <1>4 DEF Chunks, ToSet
<1>8. \A i \in DOMAIN ch \ used : all[i] = <<0, 0>>
  BY <1>5
<1> HIDE DEF all, after, shared
<1>9. ASSUME NEW c \in Chunks(u)
      PROVE  /\ c[1] \in Nat /\ c[2] \in Nat
             /\ c[1] # 0 => /\ ORIG_FTPR_OFFSET + u.llut.at < c[1] /\ c[1] < c[2]
                            /\ c[2] <= ORIG_FTPR_OFFSET + FTPR_END
             /\ c[1] = 0 => c[2] = 0
  <2>1. PICK i \in DOMAIN ch : c = all[i]  BY <1>7
  <2>2. CASE i \in used
    <3>1. /\ c[1] = ch[i] /\ c[2] = Min(after(i)) /\ c[2] \in Nat /\ c[1] < c[2] /\ c[2] <= end
      BY <2>1, <2>2, <1>6
    <3>2. c[1] \in Nat /\ c[1] # 0  BY <3>1, <2>2, <1>2
    <3> QED  BY <3>1, <3>2, <2>2, <1>3, <1>1 DEF ORIG_FTPR_OFFSET, FTPR_END
  <2>3. CASE i \notin used
    BY <2>1, <2>3, <1>8
  <2> QED  BY <2>2, <2>3
<1>10. ASSUME NEW c \in Chunks(u), NEW k \in Chunks(u), c[1] # 0, k[1] # 0
       PROVE  c = k \/ c[2] <= k[1] \/ k[2] <= c[1]
  <2>1. PICK i \in DOMAIN ch : c = all[i]  BY <1>7
  <2>2. PICK j \in DOMAIN ch : k = all[j]  BY <1>7
  <2>3. i \in used /\ j \in used
    BY <2>1, <2>2, <1>8, <1>10
  <2>4. /\ c[1] = ch[i] /\ k[1] = ch[j] /\ ch[i] \in Nat /\ ch[j] \in Nat
        /\ ch[j] > ch[i] => c[2] <= ch[j]
        /\ ch[i] > ch[j] => k[2] <= ch[i]
    BY <2>1, <2>2, <2>3, <1>6, <1>2
  <2>5. i = j \/ ch[i] # ch[j]  BY <2>3, <1>3
  <2> HIDE DEF ch
  <2> QED  BY <2>1, <2>2, <2>4, <2>5
<1> QED  BY <1>1, <1>9, <1>10

\* What stays of the chunks are those of the essential Huffman modules.
LEMMA KeptChunks ==
  ASSUME NEW u \in Updates
  PROVE  /\ \A mod \in Modules(u) : ModuleChunks(u, mod) \subseteq Chunks(u)
         /\ \A k \in unremovable_huff_chunks(u) :
              /\ k \in Chunks(u) /\ k[1] # 0
              /\ \E y \in Modules(u) : Huffman(y) /\ Essential(y) /\ k \in ModuleChunks(u, y)
         /\ \A y \in Modules(u) : Huffman(y) /\ Essential(y) =>
              \A k \in ModuleChunks(u, y) : k[1] # 0 => k \in unremovable_huff_chunks(u)
<1>1. \A mod \in Modules(u) : ModuleChunks(u, mod) \subseteq Chunks(u)
  BY DEF ModuleChunks, Chunks, ToSet
<1> QED  BY <1>1 DEF unremovable_huff_chunks

\* The new place is the smallest: the LLUT was made for one no further.
LEMMA NewOffset ==
  ASSUME NEW u \in Updates, Sane(u)
  PROVE  new_offset(u) = MINIFIED_FTPR_OFFSET
<1>1. CASE ~HasHuffman(u)
  BY <1>1 DEF new_offset
<1>2. CASE HasHuffman(u)
  <2> DEFINE n == u.llut.corr - u.llut.at - TableAt
             least == Max({MINIFIED_FTPR_OFFSET, n})
  <2>1. u.llut.corr \in Nat /\ u.llut.at \in Nat  BY DEF Updates
  <2>2. u.llut.corr <= u.llut.at + TableAt + MINIFIED_FTPR_OFFSET
    BY <1>2 DEF Sane
  <2>3. n \in Int /\ n <= 4  BY <2>1, <2>2 DEF TableAt, MINIFIED_FTPR_OFFSET
  <2>4. least = 4
    <3> HIDE DEF n
    <3> QED  BY <2>3 DEF Max, MINIFIED_FTPR_OFFSET
  <2>5. new_offset(u) = ((least + 2 - 1) \div 2) * 2
    BY <1>2 DEF new_offset, LineUnits
  <2> HIDE DEF least
  <2> QED  BY <2>4, <2>5 DEF MINIFIED_FTPR_OFFSET
<1> QED  BY <1>1, <1>2

\* Modules have their types, and the data of a Huffman one are those of its chunks.
LEMMA ModuleData ==
  ASSUME NEW u \in Updates, NEW x \in Modules(u)
  PROVE  /\ x.offset \in Nat /\ x.size \in Nat
         /\ Plain(x) => ~Huffman(x) /\ DataOf(u, x) = x.offset .. x.offset + x.size - 1
         /\ Huffman(x) => \A o : o \in DataOf(u, x) <=>
              \E c \in ModuleChunks(u, x) :
                c[1] # 0 /\ o \in c[1] - ORIG_FTPR_OFFSET .. c[2] - ORIG_FTPR_OFFSET - 1
<1>1. /\ x.offset \in Nat /\ x.size \in Nat
      /\ x.comp \in {"uncomp", "lzma", "huffman", "other"}
  <2> DEFINE M == [name : STRING, comp : {"uncomp", "lzma", "huffman", "other"},
                   offset : Nat, base : Nat, size : Nat]
  <2>1. u.modules \in Seq(M)  BY DEF Updates
  <2>2. PICK i \in DOMAIN u.modules : x = u.modules[i]  BY DEF Modules, ToSet
  <2>3. x \in M
    <3> HIDE DEF M
    <3> QED  BY <2>1, <2>2
  <2> QED  BY <2>3
<1>2. Plain(x) => ~Huffman(x) /\ DataOf(u, x) = x.offset .. x.offset + x.size - 1
  BY DEF Plain, Huffman, DataOf
<1>3. ASSUME Huffman(x), NEW o
      PROVE  o \in DataOf(u, x) <=>
              \E c \in ModuleChunks(u, x) :
                c[1] # 0 /\ o \in c[1] - ORIG_FTPR_OFFSET .. c[2] - ORIG_FTPR_OFFSET - 1
  <2>1. DataOf(u, x) = UNION {c[1] - ORIG_FTPR_OFFSET .. c[2] - ORIG_FTPR_OFFSET - 1 :
                                c \in {y \in ModuleChunks(u, x) : y[1] # 0}}
    BY <1>2, <1>3 DEF DataOf
  <2> QED  BY <2>1
<1> QED  BY <1>1, <1>2, <1>3

\* What is cut off begins behind all that stays.
LEMMA EndBehind ==
  ASSUME NEW u \in Updates, Sane(u),
         HasHuffman(u) => unremovable_huff_chunks(u) # {}
  PROVE  /\ remove_modules(u).end \in Nat
         /\ \A x \in Modules(u) : Essential(x) /\ (Plain(x) \/ Huffman(x)) =>
              \A o \in DataOf(u, x) : o \in 0 .. FTPR_END - 1 /\ o < remove_modules(u).end
         /\ HasHuffman(u) => u.llut.at < remove_modules(u).end /\ u.llut.at < FTPR_END
<1> DEFINE end  == remove_modules(u).end
           stay == {x \in Modules(u) : Plain(x) /\ Essential(x)}
           stops == {mod.offset + mod.size : mod \in stay} \cup {0}
           kept == unremovable_huff_chunks(u)
           both == {c[2] : c \in kept} \cup stops
<1>1. end = IF HasHuffman(u) THEN Max(both) - ORIG_FTPR_OFFSET ELSE Max(stops)
  BY DEF remove_modules
<1>2. \A x \in stay : /\ x.offset \in Nat /\ x.size \in Nat /\ x.offset + x.size <= FTPR_END
                      /\ DataOf(u, x) = x.offset .. x.offset + x.size - 1
  BY ModuleData DEF Sane
<1>3. stops \in SUBSET Nat /\ stops # {} /\ \A n \in stops : n <= FTPR_END
  <2>1. 0 \in stops  OBVIOUS
  <2>2. ASSUME NEW n \in stops PROVE n \in Nat /\ n <= FTPR_END
    <3>1. n = 0 \/ \E x \in stay : n = x.offset + x.size  OBVIOUS
    <3> HIDE DEF stay
    <3> QED  BY <3>1, <1>2 DEF FTPR_END
  <2> HIDE DEF stops
  <2> QED  BY <2>1, <2>2
<1>4. CASE ~HasHuffman(u)
  <2>1. end = Max(stops) /\ end \in Nat /\ \A n \in stops : n <= end
    <3> HIDE DEF stops, end
    <3>1. end = Max(stops)  BY <1>1, <1>4
    <3> QED  BY <3>1, <1>3, GreatestOf DEF FTPR_END
  <2>2. ASSUME NEW x \in Modules(u), Essential(x), Plain(x), NEW o \in DataOf(u, x)
        PROVE  o \in 0 .. FTPR_END - 1 /\ o < end
    <3>1. x \in stay /\ x.offset + x.size \in stops  BY <2>2
    <3> HIDE DEF stay, stops, end
    <3>2. x.offset + x.size <= end  BY <3>1, <2>1
    <3>3. o \in x.offset .. x.offset + x.size - 1  BY <3>1, <1>2, <2>2
    <3> QED  BY <3>1, <3>2, <3>3, <2>1, <1>2 DEF FTPR_END
  <2>3. \A x \in Modules(u) : ~Huffman(x)  BY <1>4 DEF HasHuffman
  <2>4. end \in Nat  BY <2>1
  <2> HIDE DEF end
  <2>5. \A x \in Modules(u) : Essential(x) /\ (Plain(x) \/ Huffman(x)) =>
          \A o \in DataOf(u, x) : o \in 0 .. FTPR_END - 1 /\ o < end
    BY <2>2, <2>3
  <2> QED  BY <2>4, <2>5, <1>4 DEF end
<1>5. CASE HasHuffman(u)
  <2>1. PICK k \in kept : TRUE  BY <1>5
  <2>2. ASSUME NEW c \in kept
        PROVE  /\ c \in Chunks(u) /\ c[1] \in Nat /\ c[2] \in Nat /\ c[1] # 0
               /\ ORIG_FTPR_OFFSET + u.llut.at < c[1] /\ c[1] < c[2]
               /\ c[2] <= ORIG_FTPR_OFFSET + FTPR_END /\ u.llut.at \in Nat
    BY <1>5, KeptChunks, ChunksApart
  <2>3. both \in SUBSET Nat /\ both # {} /\ \A n \in both : n <= 140
    <3>1. 0 \in both  OBVIOUS
    <3>2. ASSUME NEW n \in both PROVE n \in Nat /\ n <= 140
      <4>1. n \in stops \/ \E c \in kept : n = c[2]  OBVIOUS
      <4>2. CASE n \in stops
        <5> HIDE DEF stops, kept, both
        <5> QED  BY <4>2, <1>3 DEF FTPR_END
      <4>3. CASE \E c \in kept : n = c[2]
        <5>1. PICK c \in kept : n = c[2]  BY <4>3
        <5> HIDE DEF stops, kept, both
        <5>2. c[2] \in Nat /\ c[2] <= 100 + 40  BY <2>2 DEF ORIG_FTPR_OFFSET, FTPR_END
        <5> QED  BY <5>1, <5>2
      <4> HIDE DEF stops, kept, both
      <4> QED  BY <4>1, <4>2, <4>3
    <3> HIDE DEF both
    <3> QED  BY <3>1, <3>2
  <2>4. Max(both) \in Nat /\ \A n \in both : n <= Max(both)
    <3> HIDE DEF both, stops, kept, stay, end
    <3>1. 140 \in Nat  OBVIOUS
    <3> QED  BY ONLY <2>3, <3>1, GreatestOf
  <2>5. end = Max(both) - 100 /\ end \in Int
    <3> HIDE DEF both, end
    <3> QED  BY <1>1, <1>5, <2>4 DEF ORIG_FTPR_OFFSET
  <2>6. \A c \in kept : c[2] - 100 <= end
    <3> SUFFICES ASSUME NEW c \in kept PROVE c[2] - 100 <= end  OBVIOUS
    <3>1. c[2] \in both  OBVIOUS
    <3> HIDE DEF both, end
    <3> QED  BY <3>1, <2>2, <2>4, <2>5
  <2>7. ASSUME NEW x \in Modules(u), Essential(x), Huffman(x), NEW o \in DataOf(u, x)
        PROVE  o \in 0 .. FTPR_END - 1 /\ o < end
    <3>1. PICK c \in ModuleChunks(u, x) : c[1] # 0 /\ o \in c[1] - 100 .. c[2] - 100 - 1
      BY <2>7, ModuleData DEF ORIG_FTPR_OFFSET
    <3>2. c \in kept  BY <3>1, <2>7, KeptChunks
    <3> HIDE DEF end, kept
    <3>3. /\ c[1] \in Nat /\ c[2] \in Nat /\ 100 + u.llut.at < c[1] /\ c[2] <= 140
          /\ u.llut.at \in Nat /\ c[2] - 100 <= end
      BY <3>2, <2>2, <2>6 DEF ORIG_FTPR_OFFSET, FTPR_END
    <3>4. o \in Int /\ c[1] - 100 <= o /\ o <= c[2] - 100 - 1  BY <3>1, <3>3
    <3> QED  BY <3>3, <3>4, <2>5 DEF FTPR_END
  <2>8. ASSUME NEW x \in Modules(u), Essential(x), Plain(x), NEW o \in DataOf(u, x)
        PROVE  o \in 0 .. FTPR_END - 1 /\ o < end
    <3>1. x \in stay  BY <2>8
    <3>2. o \in 0 .. FTPR_END - 1  
      <4> HIDE DEF stay
      <4>1. /\ x.offset \in Nat /\ x.size \in Nat /\ x.offset + x.size <= 40
            /\ o \in x.offset .. x.offset + x.size - 1
        BY <3>1, <1>2, <2>8 DEF FTPR_END
      <4> QED  BY <4>1 DEF FTPR_END
    <3>3. PICK y \in Modules(u) : Huffman(y) /\ Essential(y) /\ k \in ModuleChunks(u, y)
      BY KeptChunks
    <3>4. /\ k[1] # 0 /\ k[1] \in Nat /\ k[2] \in Nat /\ k[1] < k[2]
          /\ k[2] - 100 <= end
      BY <2>2, <2>6
    <3>5. k[1] - 100 \in DataOf(u, y)
      <4>1. k[1] - 100 \in k[1] - 100 .. k[2] - 100 - 1  BY <3>4
      <4> QED  BY <4>1, <3>3, <3>4, ModuleData DEF ORIG_FTPR_OFFSET
    <3>6. o < k[1] - 100
      BY <2>8, <3>3, <3>5, <1>5 DEF Sane
    <3> HIDE DEF end, kept
    <3> QED  BY <3>2, <3>4, <3>6, <2>5 DEF FTPR_END
  <2>9. u.llut.at < end /\ u.llut.at < FTPR_END /\ end \in Nat
    <3> HIDE DEF end, kept
    <3>1. /\ k[1] \in Nat /\ k[2] \in Nat /\ 100 + u.llut.at < k[1] /\ k[1] < k[2]
          /\ k[2] <= 140 /\ u.llut.at \in Nat /\ k[2] - 100 <= end
      BY <2>1, <2>2, <2>6 DEF ORIG_FTPR_OFFSET, FTPR_END
    <3> QED  BY <3>1, <2>5 DEF FTPR_END
  <2> QED  BY <2>7, <2>8, <2>9
<1> QED  BY <1>4, <1>5

\* A unit is in a range.
In(o, r) == r[1] < o + 1 /\ o + 1 <= r[2]

\* The two kinds of ranges that are cleared.
LEMMA RemovedRanges ==
  ASSUME NEW u \in Updates, NEW r \in removed_ranges(u)
  PROVE  \/ \E x \in Modules(u) : /\ Plain(x) /\ ~Essential(x)
                                  /\ r = <<x.offset, Min({x.offset + x.size, FTPR_END})>>
         \/ /\ HasHuffman(u)
            /\ \E c \in Chunks(u) :
                 /\ c[2] > c[1] /\ \A k \in unremovable_huff_chunks(u) : ~Touches(c, k)
                 /\ r = <<c[1] - ORIG_FTPR_OFFSET, c[2] - ORIG_FTPR_OFFSET>>
BY DEF removed_ranges, Chunks

LEMMA LesserOf ==
  ASSUME NEW n \in Int, NEW m \in Int
  PROVE  /\ Min({n, m}) \in Int /\ Min({n, m}) <= n /\ Min({n, m}) <= m
         /\ Min({n, m}) \in {n, m}
<1>1. CASE n <= m
  <2>1. Min({n, m}) = n  BY <1>1 DEF Min
  <2> QED  BY <2>1, <1>1
<1>2. CASE m < n
  <2>1. Min({n, m}) = m  BY <1>2 DEF Min
  <2> QED  BY <2>1, <1>2
<1> QED  BY <1>1, <1>2

\* Nothing that stays is cleared, nor is the LLUT.
LEMMA StayUncleared ==
  ASSUME NEW u \in Updates, Sane(u), NEW r \in removed_ranges(u)
  PROVE  /\ \A y \in Modules(u) : Essential(y) => \A o \in DataOf(u, y) : ~In(o, r)
         /\ HasHuffman(u) => ~In(u.llut.at, r)
<1>1. CASE \E x \in Modules(u) : /\ Plain(x) /\ ~Essential(x)
                                 /\ r = <<x.offset, Min({x.offset + x.size, FTPR_END})>>
  <2>1. PICK x \in Modules(u) : /\ Plain(x) /\ ~Essential(x)
                                /\ r = <<x.offset, Min({x.offset + x.size, FTPR_END})>>
    BY <1>1
  <2>2. /\ x.offset \in Nat /\ x.size \in Nat
        /\ DataOf(u, x) = x.offset .. x.offset + x.size - 1
    BY <2>1, ModuleData
  <2>3. r[1] = x.offset /\ r[2] \in Int /\ r[2] <= x.offset + x.size
    <3>1. x.offset + x.size \in Int /\ FTPR_END \in Int  BY <2>2 DEF FTPR_END
    <3> QED  BY <2>1, <3>1, LesserOf
  <2>4. ASSUME NEW o \in Int, In(o, r) PROVE o \in DataOf(u, x)
    BY <2>2, <2>3, <2>4 DEF In
  <2>5. ASSUME NEW y \in Modules(u), Essential(y), NEW o \in DataOf(u, y), In(o, r)
        PROVE  FALSE
    <3>1. CASE Plain(y)
      <4>1. o \in Int
        <5>1. y.offset \in Nat /\ y.size \in Nat
              /\ DataOf(u, y) = y.offset .. y.offset + y.size - 1
          BY <3>1, ModuleData
        <5> QED  BY <5>1
      <4>2. x # y  BY <2>1, <2>5
      <4>3. DataOf(u, x) \cap DataOf(u, y) = {}  BY <3>1, <4>2, <2>1 DEF Sane
      <4> QED  BY <4>1, <4>3, <2>4, <2>5
    <3>2. CASE Huffman(y)
      <4>1. HasHuffman(u)  BY <3>2 DEF HasHuffman
      <4>2. PICK c \in ModuleChunks(u, y) :
              c[1] # 0 /\ o \in c[1] - ORIG_FTPR_OFFSET .. c[2] - ORIG_FTPR_OFFSET - 1
        BY <3>2, <2>5, ModuleData
      <4>3. c \in Chunks(u) /\ c[1] \in Nat /\ c[2] \in Nat
        BY <4>1, KeptChunks, ChunksApart
      <4>4. o \in Int /\ c[1] <= 100 + o /\ 100 + o < c[2]
        BY <4>2, <4>3 DEF ORIG_FTPR_OFFSET
      <4>5. o \in DataOf(u, x)  BY <4>4, <2>4, <2>5
      <4> QED  BY <4>1, <4>3, <4>4, <4>5, <2>1 DEF Sane, Chunks, ORIG_FTPR_OFFSET
    <3> QED  BY <3>1, <3>2, <2>5 DEF Sane
  <2>6. ASSUME HasHuffman(u), In(u.llut.at, r) PROVE FALSE
    <3>1. u.llut.at \in Nat  BY <2>6, ChunksApart
    <3>2. u.llut.at \in DataOf(u, x)  BY <3>1, <2>4, <2>6
    <3> QED  BY <3>2, <2>1, <2>6 DEF Sane
  <2> QED  BY <2>5, <2>6
<1>2. CASE /\ HasHuffman(u)
           /\ \E c \in Chunks(u) :
                 /\ c[2] > c[1] /\ \A k \in unremovable_huff_chunks(u) : ~Touches(c, k)
                 /\ r = <<c[1] - ORIG_FTPR_OFFSET, c[2] - ORIG_FTPR_OFFSET>>
  <2>1. PICK c \in Chunks(u) :
                 /\ c[2] > c[1] /\ \A k \in unremovable_huff_chunks(u) : ~Touches(c, k)
                 /\ r = <<c[1] - ORIG_FTPR_OFFSET, c[2] - ORIG_FTPR_OFFSET>>
    BY <1>2
  <2>2. /\ c[1] \in Nat /\ c[2] \in Nat /\ c[1] # 0
        /\ 100 + u.llut.at < c[1] /\ u.llut.at \in Nat
    BY <1>2, <2>1, ChunksApart DEF ORIG_FTPR_OFFSET
  <2>3. ASSUME NEW o \in Int, In(o, r) PROVE c[1] <= 100 + o /\ 100 + o < c[2]
    BY <2>1, <2>2, <2>3 DEF In, ORIG_FTPR_OFFSET
  <2>4. ASSUME NEW y \in Modules(u), Essential(y), NEW o \in DataOf(u, y), In(o, r)
        PROVE  FALSE
    <3>1. CASE Plain(y)
      <4>1. o \in Int
        <5>1. y.offset \in Nat /\ y.size \in Nat
              /\ DataOf(u, y) = y.offset .. y.offset + y.size - 1
          BY <3>1, ModuleData
        <5> QED  BY <5>1
      <4>2. c[1] <= 100 + o /\ 100 + o < c[2]  BY <4>1, <2>3, <2>4
      <4> QED  BY <4>2, <3>1, <1>2, <2>4 DEF Sane, Chunks, ORIG_FTPR_OFFSET
    <3>2. CASE Huffman(y)
      <4>1. PICK k \in ModuleChunks(u, y) :
              k[1] # 0 /\ o \in k[1] - ORIG_FTPR_OFFSET .. k[2] - ORIG_FTPR_OFFSET - 1
        BY <3>2, <2>4, ModuleData
      <4>2. k \in Chunks(u) /\ k[1] \in Nat /\ k[2] \in Nat /\ k \in unremovable_huff_chunks(u)
        BY <1>2, <4>1, <3>2, <2>4, KeptChunks, ChunksApart
      <4>3. o \in Int /\ k[1] <= 100 + o /\ 100 + o < k[2]
        BY <4>1, <4>2 DEF ORIG_FTPR_OFFSET
      <4>4. c[1] <= 100 + o /\ 100 + o < c[2]  BY <4>3, <2>3, <2>4
      <4>5. c = k \/ c[2] <= k[1] \/ k[2] <= c[1]
        BY <1>2, <2>1, <2>2, <4>1, <4>2, ChunksApart
      <4>6. c = k  BY <4>2, <4>3, <4>4, <4>5, <2>2
      <4>7. Touches(c, k)  BY <4>6, <2>1, <2>2 DEF Touches
      <4> QED  BY <4>2, <4>7, <2>1
    <3> QED  BY <3>1, <3>2, <2>4 DEF Sane
  <2>5. ASSUME In(u.llut.at, r) PROVE FALSE
    BY <2>2, <2>3, <2>5
  <2> QED  BY <2>4, <2>5
<1> QED  BY <1>1, <1>2, RemovedRanges

\* Whatever does not stay is cleared.
LEMMA OthersCleared ==
  ASSUME NEW u \in Updates, Sane(u), NEW y \in Modules(u), ~Essential(y),
         NEW o \in DataOf(u, y), o < FTPR_END, Plain(y) \/ Huffman(y),
         \A x \in Modules(u) : Essential(x) => o \notin DataOf(u, x)
  PROVE  o \in Nat /\ \E r \in removed_ranges(u) : In(o, r)
<1>1. CASE Plain(y)
  <2> DEFINE r == <<y.offset, Min({y.offset + y.size, FTPR_END})>>
  <2>1. r \in removed_ranges(u)  BY <1>1 DEF removed_ranges
  <2>2. /\ y.offset \in Nat /\ y.size \in Nat
        /\ o \in y.offset .. y.offset + y.size - 1
    BY <1>1, ModuleData
  <2>3. r[2] \in {y.offset + y.size, FTPR_END} /\ FTPR_END \in Int
    <3>1. y.offset + y.size \in Int /\ FTPR_END \in Int  BY <2>2 DEF FTPR_END
    <3> QED  BY <3>1, LesserOf
  <2>4. In(o, r)
    <3>1. r[1] = y.offset  OBVIOUS
    <3> HIDE DEF r
    <3> QED  BY <3>1, <2>2, <2>3 DEF In
  <2> QED  BY <2>1, <2>2, <2>4
<1>2. CASE Huffman(y)
  <2>1. HasHuffman(u)  BY <1>2 DEF HasHuffman
  <2>2. PICK c \in ModuleChunks(u, y) :
          c[1] # 0 /\ o \in c[1] - ORIG_FTPR_OFFSET .. c[2] - ORIG_FTPR_OFFSET - 1
    BY <1>2, ModuleData
  <2>3. /\ c \in Chunks(u) /\ c[1] \in Nat /\ c[2] \in Nat /\ c[1] < c[2]
        /\ 100 + u.llut.at < c[1] /\ u.llut.at \in Nat
    BY <2>1, <2>2, KeptChunks, ChunksApart DEF ORIG_FTPR_OFFSET
  <2>4. ASSUME NEW k \in unremovable_huff_chunks(u) PROVE ~Touches(c, k)
    <3>1. /\ k \in Chunks(u) /\ k[1] # 0 /\ k[1] \in Nat /\ k[2] \in Nat /\ k[1] < k[2]
      BY <2>1, KeptChunks, ChunksApart
    <3>2. PICK x \in Modules(u) : Huffman(x) /\ Essential(x) /\ k \in ModuleChunks(u, x)
      BY KeptChunks
    <3>3. c # k
      <4> SUFFICES ASSUME c = k PROVE FALSE  OBVIOUS
      <4>1. o \in DataOf(u, x)  BY <2>2, <3>1, <3>2, ModuleData
      <4> QED  BY <4>1, <3>2
    <3>4. c[2] <= k[1] \/ k[2] <= c[1]
      BY <2>1, <2>2, <2>3, <3>1, <3>3, ChunksApart
    <3> QED  BY <3>1, <3>4, <2>3 DEF Touches
  <2> DEFINE r == <<c[1] - ORIG_FTPR_OFFSET, c[2] - ORIG_FTPR_OFFSET>>
  <2>5. r \in removed_ranges(u)
    BY <2>1, <2>3, <2>4 DEF removed_ranges, Chunks
  <2>6. o \in Nat /\ In(o, r)
    BY <2>2, <2>3 DEF In, ORIG_FTPR_OFFSET
  <2> QED  BY <2>5, <2>6
<1> QED  BY <1>1, <1>2

\* What is left of the partition: o is at its place unless it was cleared.
LEMMA PartitionLeft ==
  ASSUME NEW u \in Updates
  PROVE  /\ remove_modules(u).ftpr \in Seq(Int) /\ Len(remove_modules(u).ftpr) = FTPR_END
         /\ \A o \in 0 .. FTPR_END - 1 :
              remove_modules(u).ftpr[o + 1] =
                IF \E r \in removed_ranges(u) : In(o, r) THEN Cleared ELSE o
<1> DEFINE f == remove_modules(u).ftpr
<1>1. u.ftpr = [i \in 1 .. 40 |-> i - 1]  BY DEF Updates, FTPR_END
<1>2. f = [i \in DOMAIN u.ftpr |-> IF \E r \in removed_ranges(u) : r[1] < i /\ i <= r[2]
                                     THEN Cleared ELSE u.ftpr[i]]
  BY DEF remove_modules, clear_ftpr_data
<1>3. f = [i \in 1 .. 40 |-> IF \E r \in removed_ranges(u) : r[1] < i /\ i <= r[2]
                               THEN -1 ELSE i - 1]
  BY <1>1, <1>2 DEF Cleared
<1> HIDE DEF f
<1>4. \A i \in 1 .. 40 : f[i] \in Int  BY <1>3
<1>5. DOMAIN f = 1 .. 40 /\ f \in [1 .. 40 -> Int]  BY <1>3, <1>4
<1>6. f \in Seq(Int) /\ Len(f) = 40
  <2>1. 40 \in Nat  OBVIOUS
  <2> HIDE DEF f
  <2>2. f \in Seq(Int)  BY <2>1, <1>5, SeqDef
  <2> QED  BY <2>1, <2>2, <1>5, LenProperties
<1>7. ASSUME NEW o \in 0 .. 39
      PROVE  f[o + 1] = IF \E r \in removed_ranges(u) : In(o, r) THEN Cleared ELSE o
  <2>1. o + 1 \in 1 .. 40 /\ o \in Int /\ (o + 1) - 1 = o  OBVIOUS
  <2>2. f[o + 1] = IF \E r \in removed_ranges(u) : r[1] < o + 1 /\ o + 1 <= r[2]
                     THEN -1 ELSE (o + 1) - 1
    BY <2>1, <1>3
  <2> QED  BY <2>1, <2>2 DEF In, Cleared
<1> QED  BY <1>6, <1>7 DEF f, FTPR_END

\* The file that is made is long enough for what ends at end, and is whole blocks.
LEMMA NewLength ==
  ASSUME NEW end \in Int
  PROVE  /\ resize_partition(end) \in Int /\ end < resize_partition(end)
         /\ (resize_partition(end) + MINIFIED_FTPR_OFFSET) % BlockUnits = 0
<1> DEFINE q == end \div 8
<1>1. q \in Int /\ 8 * q <= end /\ end < 8 * q + 8  OBVIOUS
<1>2. resize_partition(end) = (q + 1 + 1) * 8 - 4
  BY DEF resize_partition, BlockUnits, spared_blocks, MINIFIED_FTPR_OFFSET
<1> HIDE DEF q
<1>3. (q + 1 + 1) * 8 - 4 + 4 = 8 * (q + 2)  BY <1>1
<1>4. (8 * (q + 2)) % 8 = 0  BY <1>1
<1> QED  BY <1>1, <1>2, <1>3, <1>4 DEF BlockUnits, MINIFIED_FTPR_OFFSET

\* A valid region has every unit of the modules that stay, and the LLUT, at its place.
LEMMA ModulesStay ==
  ASSUME NEW u \in Updates, Sane(u)
  PROVE  ModulesKept(u, generate_me_blob(u))
<1> DEFINE v   == generate_me_blob(u)
           s   == remove_modules(u)
           new == new_offset(u)
           len == Min({resize_partition(s.end + new), Len(s.ftpr)})
           valid == [status |-> IF check_partition_signature(s.ftpr, new) THEN "valid" ELSE "invalid",
                     ftpr |-> SubSeq(s.ftpr, 1, len),
                     llut |-> IF HasHuffman(u) THEN Adjusted(u.llut, new) ELSE u.llut]
           holds(o) == o < Len(v.ftpr) /\ v.ftpr[o + 1] = o
           stay == UNION {DataOf(u, mod) : mod \in {x \in Modules(u) : Essential(x)}}
           shown == [i \in DOMAIN v.llut.chunks |-> v.llut.chunks[i] - MINIFIED_FTPR_OFFSET]
<1> SUFFICES ASSUME v.status = "valid"
             PROVE  /\ \A o \in stay : holds(o)
                    /\ HasHuffman(u) =>
                         /\ holds(u.llut.at)
                         /\ v.llut.spi + u.llut.corr = MINIFIED_FTPR_OFFSET + u.llut.at + TableAt
                         /\ \A i \in DOMAIN shown :
                              IF u.llut.chunks[i] = 0 THEN v.llut.chunks[i] = 0
                              ELSE shown[i] + ORIG_FTPR_OFFSET = u.llut.chunks[i]
                    /\ \A mod \in Modules(u) : ~Essential(mod) /\ (Plain(mod) \/ Huffman(mod)) =>
                         \A o \in DataOf(u, mod) \ stay : ~holds(o)
                    /\ \/ Len(v.ftpr) = FTPR_END
                       \/ (Len(v.ftpr) + MINIFIED_FTPR_OFFSET) % BlockUnits = 0
  BY DEF ModulesKept
<1>1. v = valid /\ (HasHuffman(u) => unremovable_huff_chunks(u) # {})
  <2> DEFINE refused == [status |-> "failed", ftpr |-> << >>, llut |-> u.llut]
             bad  == \/ u.marks = "fewer" \/ (u.marks = "none" /\ Len(u.modules) > 1)
                     \/ \E mod \in Modules(u) : mod.comp = "other"
             none == HasHuffman(u) /\ (~u.llut.present \/ unremovable_huff_chunks(u) = {})
  <2>1. v = IF bad \/ none THEN refused ELSE valid
    BY DEF generate_me_blob
  <2>2. refused.status # "valid"
    OBVIOUS
  <2> HIDE DEF v, valid, refused, bad
  <2> QED  BY <2>1, <2>2
<1>2. new = MINIFIED_FTPR_OFFSET  BY NewOffset
<1>3. /\ s.end \in Nat
      /\ \A x \in Modules(u) : Essential(x) /\ (Plain(x) \/ Huffman(x)) =>
           \A o \in DataOf(u, x) : o \in 0 .. FTPR_END - 1 /\ o < s.end
      /\ HasHuffman(u) => u.llut.at < s.end /\ u.llut.at < FTPR_END
  BY <1>1, EndBehind
<1>4. /\ s.ftpr \in Seq(Int) /\ Len(s.ftpr) = FTPR_END
      /\ \A o \in 0 .. FTPR_END - 1 :
           s.ftpr[o + 1] = IF \E r \in removed_ranges(u) : In(o, r) THEN Cleared ELSE o
  BY PartitionLeft
<1>5. /\ len \in Int /\ len <= FTPR_END
      /\ len = FTPR_END \/ (s.end + new < len /\ (len + MINIFIED_FTPR_OFFSET) % BlockUnits = 0)
  <2> DEFINE space == resize_partition(s.end + new)
  <2>1. s.end + new \in Int  BY <1>2, <1>3 DEF MINIFIED_FTPR_OFFSET
  <2>2. space \in Int /\ s.end + new < space /\ (space + MINIFIED_FTPR_OFFSET) % BlockUnits = 0
    BY <2>1, NewLength
  <2>3. len = Min({space, FTPR_END})  BY <1>4
  <2>4. FTPR_END \in Int  BY DEF FTPR_END
  <2> HIDE DEF space, len
  <2>5. len \in Int /\ len <= FTPR_END /\ len \in {space, FTPR_END}
    BY <2>2, <2>3, <2>4, LesserOf
  <2> QED  BY <2>2, <2>5
<1> HIDE DEF len, s, new, v
<1>6. ASSUME NEW o \in 0 .. FTPR_END - 1, o < s.end PROVE o < len
  <2>1. o \in Int /\ o < 40  BY DEF FTPR_END
  <2>2. s.end \in Nat /\ new = 4  BY <1>2, <1>3 DEF MINIFIED_FTPR_OFFSET
  <2>3. len \in Int /\ (len = 40 \/ s.end + new < len)  BY <1>5 DEF FTPR_END
  <2> QED  BY <2>1, <2>2, <2>3, <1>6
<1>7. /\ Len(v.ftpr) = (IF len < 0 THEN 0 ELSE len)
      /\ \A i \in 1 .. len : v.ftpr[i] = s.ftpr[i]
  <2>1. v.ftpr = SubSeq(s.ftpr, 1, len)  BY <1>1
  <2>2. len <= Len(s.ftpr)  BY <1>4, <1>5
  <2> QED  BY <2>1, <2>2, <1>4, <1>5
<1>8. ASSUME NEW o \in 0 .. FTPR_END - 1, o < s.end,
             \A r \in removed_ranges(u) : ~In(o, r)
      PROVE  holds(o)
  <2>1. o < len  BY <1>6, <1>8
  <2>2. o \in Int /\ 0 <= o /\ o + 1 \in 1 .. len  BY <2>1, <1>5 DEF FTPR_END
  <2>3. s.ftpr[o + 1] = o  BY <1>4, <1>8
  <2>4. o < Len(v.ftpr)  BY <2>1, <2>2, <1>7, <1>5
  <2> QED  BY <2>2, <2>3, <2>4, <1>7
<1>9. ASSUME NEW o \in stay PROVE holds(o)
  <2>1. PICK x \in Modules(u) : Essential(x) /\ o \in DataOf(u, x)  OBVIOUS
  <2>2. Plain(x) \/ Huffman(x)  BY <2>1 DEF Sane
  <2>3. o \in 0 .. FTPR_END - 1 /\ o < s.end  BY <2>1, <2>2, <1>3
  <2>4. \A r \in removed_ranges(u) : ~In(o, r)  BY <2>1, StayUncleared
  <2> QED  BY <2>3, <2>4, <1>8
<1>10. ASSUME HasHuffman(u)
       PROVE  /\ holds(u.llut.at)
              /\ v.llut.spi + u.llut.corr = MINIFIED_FTPR_OFFSET + u.llut.at + TableAt
              /\ \A i \in DOMAIN shown :
                   IF u.llut.chunks[i] = 0 THEN v.llut.chunks[i] = 0
                   ELSE shown[i] + ORIG_FTPR_OFFSET = u.llut.chunks[i]
  <2> DEFINE at == u.llut.at
             ch == u.llut.chunks
  <2>1. at \in Nat /\ u.llut.corr \in Nat /\ ch \in Seq(Nat)  BY DEF Updates
  <2>2. holds(at)
    <3>1. at \in 0 .. FTPR_END - 1 /\ at < s.end
      <4>1. at \in Nat /\ at < s.end /\ at < FTPR_END  BY <1>3, <1>10, <2>1
      <4> HIDE DEF at
      <4>2. at \in 0 .. 39  BY <4>1 DEF FTPR_END
      <4> QED  BY <4>1, <4>2 DEF FTPR_END
    <3>2. \A r \in removed_ranges(u) : ~In(at, r)  BY <1>10, StayUncleared
    <3> QED  BY <3>1, <3>2, <1>8
  <2>3. v.llut = Adjusted(u.llut, new)  BY <1>1, <1>10
  <2>4. /\ v.llut.spi = at + new + TableAt - u.llut.corr
        /\ v.llut.chunks = [i \in DOMAIN ch |->
                IF ch[i] = 0 THEN 0 ELSE ch[i] + (MINIFIED_FTPR_OFFSET - ORIG_FTPR_OFFSET)]
    <3>1. u.llut \in [present : BOOLEAN, at : Nat, corr : Nat, spi : Nat, base : Nat,
                      chunk_size : Nat \ {0}, chunks : Seq(Nat) \ {<< >>}, stream : Nat,
                      size : Nat]
      BY DEF Updates
    <3> QED  BY <2>3, <3>1 DEF Adjusted
  <2>5. v.llut.spi + u.llut.corr = MINIFIED_FTPR_OFFSET + at + TableAt
    BY <2>1, <2>4, <1>2 DEF MINIFIED_FTPR_OFFSET, TableAt
  <2>6. ASSUME NEW i \in DOMAIN shown
        PROVE  IF ch[i] = 0 THEN v.llut.chunks[i] = 0
               ELSE shown[i] + ORIG_FTPR_OFFSET = ch[i]
    <3>1. i \in DOMAIN ch /\ ch[i] \in Nat /\ shown[i] = v.llut.chunks[i] - 4
      BY <2>1, <2>4 DEF MINIFIED_FTPR_OFFSET
    <3>2. v.llut.chunks[i] = IF ch[i] = 0 THEN 0 ELSE ch[i] + (4 - 100)
      BY <3>1, <2>4 DEF MINIFIED_FTPR_OFFSET, ORIG_FTPR_OFFSET
    <3> HIDE DEF shown, ch
    <3> QED  BY <3>1, <3>2 DEF ORIG_FTPR_OFFSET
  <2> QED  BY <2>2, <2>5, <2>6
<1>11. ASSUME NEW mod \in Modules(u), ~Essential(mod), Plain(mod) \/ Huffman(mod),
              NEW o \in DataOf(u, mod) \ stay, holds(o)
       PROVE  FALSE
  <2>1. \A x \in Modules(u) : Essential(x) => o \notin DataOf(u, x)
    BY <1>11
  <2>2. o \in Int  BY <1>11, ModuleData
  <2>6. o < FTPR_END  BY <2>2, <1>5, <1>7, <1>11 DEF FTPR_END
  <2>3. o \in Nat /\ \E r \in removed_ranges(u) : In(o, r)
    BY <1>11, <2>1, <2>6, OthersCleared
  <2>4. s.ftpr[o + 1] = -1
    <3>1. o \in 0 .. FTPR_END - 1  BY <2>3, <2>6 DEF FTPR_END
    <3> QED  BY <3>1, <2>3, <1>4 DEF Cleared
  <2>5. o + 1 \in 1 .. len
    BY <2>3, <1>11, <1>7, <1>5
  <2> QED  BY <2>3, <2>4, <2>5, <1>7, <1>11
<1>12. \/ Len(v.ftpr) = FTPR_END
       \/ (Len(v.ftpr) + MINIFIED_FTPR_OFFSET) % BlockUnits = 0
  <2>1. len >= 0
    BY <1>2, <1>3, <1>5 DEF FTPR_END, MINIFIED_FTPR_OFFSET
  <2> QED  BY <2>1, <1>5, <1>7
<1> HIDE DEF stay, shown, holds
<1> QED  BY <1>9, <1>10, <1>11, <1>12

----------------------------------------------------------------------------
(* The directory for temporary files (TmpDir).                             *)

\* env_tmpdir (lib/mkhtemp.c): the directory for temporary files is fit for them,
\* whatever TMPDIR says and the directories are.
THEOREM DirectoryChosen ==
  ASSUME NEW mc \in Machines, NEW override \in Paths \cup {Unset}
  PROVE  DirectoryFits(mc, override, env_tmpdir(mc, override))
<1> DEFINE t   == IF override = Unset THEN mc.TMPDIR ELSE override
           got == env_tmpdir(mc, override)
<1>1. t \in Paths \cup {Unset} /\ Unset \notin Paths
  BY DEF Machines, Paths, Directories, Unset
<1>2. CASE t # Unset
  <2>1. got = IF /\ tmpdir_policy(mc, t) # "error"
                 /\ world_writeable_and_sticky(mc, t, tmpdir_policy(mc, t) = "allow")
              THEN t ELSE Unset
    BY <1>2 DEF env_tmpdir
  <2>2. SUFFICES ASSUME got # Unset PROVE DirectoryFits(mc, override, got)
    BY DEF DirectoryFits
  <2> DEFINE allow == tmpdir_policy(mc, t) = "allow"
  <2>3. got = t /\ tmpdir_policy(mc, t) # "error" /\ world_writeable_and_sticky(mc, t, allow)
    BY <2>1, <2>2
  <2>4. Kind(mc, t) \in {"sticky", "private"} /\ (Kind(mc, t) # "sticky" => allow) /\ Opens(mc, t)
    BY <2>3 DEF world_writeable_and_sticky
  <2>5. ASSUME Inode(t) \in {"/tmp", "/var/tmp"}, allow PROVE FALSE
    <3>1. PICK d \in {"/tmp", "/var/tmp"} : Inode(t) = d  BY <2>5
    <3>2. Inode(d) = d  BY <3>1 DEF Inode
    <3>3. Opens(mc, d)  BY <2>4, <3>1, <3>2 DEF Opens, Kind
    <3>4. same_dir(mc, t, d) = "yes"  BY <2>4, <3>1, <3>2, <3>3 DEF same_dir
    <3>5. tmpdir_policy(mc, t) \in {"error", "refuse"}  BY <3>4 DEF tmpdir_policy
    <3> QED  BY <2>5, <3>5
  <2> HIDE DEF got, t, allow
  <2>6. DirectoryFits(mc, override, got)
    BY <2>3, <2>4, <2>5 DEF DirectoryFits, t
  <2> QED  BY <2>6
<1>3. CASE t = Unset
  <2>1. got = IF world_writeable_and_sticky(mc, "/tmp", FALSE) THEN "/tmp"
              ELSE IF world_writeable_and_sticky(mc, "/var/tmp", FALSE) THEN "/var/tmp" ELSE Unset
    BY <1>3 DEF env_tmpdir
  <2>2. \A d : world_writeable_and_sticky(mc, d, FALSE) => Kind(mc, d) = "sticky"
    BY DEF world_writeable_and_sticky
  <2> HIDE DEF got
  <2>3. got # Unset => Kind(mc, got) = "sticky"  BY <2>1, <2>2
  <2>4. DirectoryFits(mc, override, got)  BY <2>3, <1>3 DEF DirectoryFits
  <2> QED  BY <2>4 DEF got
<1> QED  BY <1>2, <1>3

----------------------------------------------------------------------------
(* An import of configurations (include/chromebook.sh).                    *)

\* The commands of an import in their order.
Commands ==
    << <<"tmpdir", "">>, <<"remkdir edk2", "">>, <<"write edk2", "">>,
       <<"clone", "coreboot">>, <<"remkdir", "coreboot">>, <<"patch", "coreboot">>,
       <<"rmdir", "coreboot">>, <<"rm", "coreboot">>, <<"write", "coreboot">>,
       <<"clone", "edk2">>, <<"remkdir", "edk2">>, <<"patch", "edk2">>,
       <<"rmdir", "edk2">>, <<"rm", "edk2">>, <<"write", "edk2">>, <<"rm tmp", "">> >>

\* Which command is at each place.
LEMMA CommandsAre ==
  /\ Commands[1] = <<"tmpdir", "">> /\ Commands[2] = <<"remkdir edk2", "">>
  /\ Commands[3] = <<"write edk2", "">> /\ Commands[4] = <<"clone", "coreboot">>
  /\ Commands[5] = <<"remkdir", "coreboot">> /\ Commands[6] = <<"patch", "coreboot">>
  /\ Commands[7] = <<"rmdir", "coreboot">> /\ Commands[8] = <<"rm", "coreboot">>
  /\ Commands[9] = <<"write", "coreboot">> /\ Commands[10] = <<"clone", "edk2">>
  /\ Commands[11] = <<"remkdir", "edk2">> /\ Commands[12] = <<"patch", "edk2">>
  /\ Commands[13] = <<"rmdir", "edk2">> /\ Commands[14] = <<"rm", "edk2">>
  /\ Commands[15] = <<"write", "edk2">> /\ Commands[16] = <<"rm tmp", "">>
  BY DEF Commands

\* What a concatenation is made of.
LEMMA ConcatIs ==
  ASSUME NEW S, NEW s \in Seq(S), NEW t \in Seq(S)
  PROVE  /\ s \o t \in Seq(S) /\ Len(s \o t) = Len(s) + Len(t)
         /\ \A k \in 1 .. Len(s) : (s \o t)[k] = s[k]
         /\ \A k \in Len(s) + 1 .. Len(s) + Len(t) : (s \o t)[k] = t[k - Len(s)]
<1>1. s \o t \in Seq(S) /\ Len(s \o t) = Len(s) + Len(t)  OBVIOUS
<1>2. \A k \in 1 .. Len(s) : (s \o t)[k] = s[k]  OBVIOUS
<1>3. \A k \in Len(s) + 1 .. Len(s) + Len(t) : (s \o t)[k] = t[k - Len(s)]  OBVIOUS
<1> QED  BY <1>1, <1>2, <1>3

\* prep_mr_import is those commands.
LEMMA TheCommands ==
  /\ Len(prep_mr_import) = 16 /\ DOMAIN prep_mr_import = 1 .. 16
  /\ \A k \in 1 .. 16 : prep_mr_import[k] = Commands[k]
<1> DEFINE a == << Commands[1], Commands[2], Commands[3] >>
           b == << Commands[4], Commands[5], Commands[6], Commands[7], Commands[8], Commands[9] >>
           c == << Commands[10], Commands[11], Commands[12], Commands[13], Commands[14], Commands[15] >>
           d == << Commands[16] >>
           All == {Commands[k] : k \in 1 .. 16}
<1>1. prep_mr_import = a \o b \o c \o d
  <2>1. << <<"tmpdir", "">>, <<"remkdir edk2", "">>, <<"write edk2", "">> >> = a  BY CommandsAre
  <2>2. prep_mr("coreboot") = b  BY CommandsAre DEF prep_mr
  <2>3. prep_mr("edk2") = c  BY CommandsAre DEF prep_mr
  <2>4. << <<"rm tmp", "">> >> = d  BY CommandsAre
  <2> HIDE DEF a, b, c, d
  <2> QED  BY <2>1, <2>2, <2>3, <2>4 DEF prep_mr_import
<1>2. \A k \in 1 .. 16 : Commands[k] \in All  OBVIOUS
<1> HIDE DEF All
<1>3. a \in Seq(All) /\ Len(a) = 3  BY <1>2
<1>4. b \in Seq(All) /\ Len(b) = 6  BY <1>2
<1>5. c \in Seq(All) /\ Len(c) = 6  BY <1>2
<1>6. d \in Seq(All) /\ Len(d) = 1  BY <1>2
<1>7. \A k \in 1 .. 3 : a[k] = Commands[k]
  <2>1. \A k \in 1 .. 3 : k \in {1, 2, 3}  OBVIOUS
  <2> QED  BY <2>1
<1>8. \A k \in 4 .. 9 : b[k - 3] = Commands[k]
  <2>1. \A k \in 4 .. 9 : k \in {4, 5, 6, 7, 8, 9}  OBVIOUS
  <2> QED  BY <2>1
<1>9. \A k \in 10 .. 15 : c[k - 9] = Commands[k]
  <2>1. \A k \in 10 .. 15 : k \in {10, 11, 12, 13, 14, 15}  OBVIOUS
  <2> QED  BY <2>1
<1>10. \A k \in 16 .. 16 : d[k - 15] = Commands[k]  OBVIOUS
<1> HIDE DEF a, b, c, d
<1>11. /\ a \o b \in Seq(All) /\ Len(a \o b) = 9
       /\ \A k \in 1 .. 3 : (a \o b)[k] = a[k]
       /\ \A k \in 4 .. 9 : (a \o b)[k] = b[k - 3]
  <2>1. /\ a \o b \in Seq(All) /\ Len(a \o b) = Len(a) + Len(b)
        /\ \A k \in 1 .. Len(a) : (a \o b)[k] = a[k]
        /\ \A k \in Len(a) + 1 .. Len(a) + Len(b) : (a \o b)[k] = b[k - Len(a)]
    BY <1>3, <1>4, ConcatIs
  <2>2. a \o b \in Seq(All) /\ Len(a \o b) = 9  BY <2>1, <1>3, <1>4
  <2>3. \A k \in 1 .. 3 : (a \o b)[k] = a[k]  BY <2>1, <1>3
  <2>4. \A k \in 4 .. 9 : (a \o b)[k] = b[k - 3]
    <3>1. \A k \in 4 .. 9 : k \in Len(a) + 1 .. Len(a) + Len(b)  BY <1>3, <1>4
    <3> QED  BY <3>1, <1>3, <2>1
  <2> QED  BY <2>2, <2>3, <2>4
<1> DEFINE ab == a \o b
<1> HIDE DEF ab
<1>12. /\ ab \o c \in Seq(All) /\ Len(ab \o c) = 15
       /\ \A k \in 1 .. 9 : (ab \o c)[k] = ab[k]
       /\ \A k \in 10 .. 15 : (ab \o c)[k] = c[k - 9]
  <2>0. ab \in Seq(All) /\ Len(ab) = 9  BY <1>11 DEF ab
  <2>1. /\ ab \o c \in Seq(All) /\ Len(ab \o c) = Len(ab) + Len(c)
        /\ \A k \in 1 .. Len(ab) : (ab \o c)[k] = ab[k]
        /\ \A k \in Len(ab) + 1 .. Len(ab) + Len(c) : (ab \o c)[k] = c[k - Len(ab)]
    BY <2>0, <1>5, ConcatIs
  <2>2. ab \o c \in Seq(All) /\ Len(ab \o c) = 15  BY <2>0, <2>1, <1>5
  <2>3. \A k \in 1 .. 9 : (ab \o c)[k] = ab[k]  BY <2>0, <2>1
  <2>4. \A k \in 10 .. 15 : (ab \o c)[k] = c[k - 9]
    <3>1. \A k \in 10 .. 15 : k \in Len(ab) + 1 .. Len(ab) + Len(c)  BY <2>0, <1>5
    <3> QED  BY <3>1, <2>0, <2>1
  <2> QED  BY <2>2, <2>3, <2>4
<1> DEFINE abc == ab \o c
<1> HIDE DEF abc
<1>13. /\ abc \o d \in Seq(All) /\ Len(abc \o d) = 16
       /\ \A k \in 1 .. 15 : (abc \o d)[k] = abc[k]
       /\ \A k \in 16 .. 16 : (abc \o d)[k] = d[k - 15]
  <2>0. abc \in Seq(All) /\ Len(abc) = 15  BY <1>12 DEF abc
  <2>1. /\ abc \o d \in Seq(All) /\ Len(abc \o d) = Len(abc) + Len(d)
        /\ \A k \in 1 .. Len(abc) : (abc \o d)[k] = abc[k]
        /\ \A k \in Len(abc) + 1 .. Len(abc) + Len(d) : (abc \o d)[k] = d[k - Len(abc)]
    BY <2>0, <1>6, ConcatIs
  <2>2. abc \o d \in Seq(All) /\ Len(abc \o d) = 16  BY <2>0, <2>1, <1>6
  <2>3. \A k \in 1 .. 15 : (abc \o d)[k] = abc[k]  BY <2>0, <2>1
  <2>4. \A k \in 16 .. 16 : (abc \o d)[k] = d[k - 15]
    <3>1. \A k \in 16 .. 16 : k \in Len(abc) + 1 .. Len(abc) + Len(d)  BY <2>0, <1>6
    <3> QED  BY <3>1, <2>0, <2>1
  <2> QED  BY <2>2, <2>3, <2>4
<1> DEFINE all == abc \o d
<1> HIDE DEF all
<1>14. prep_mr_import = all  BY <1>1 DEF all, abc, ab
<1>15. /\ \A k \in 1 .. 3 : ab[k] = a[k]
       /\ \A k \in 4 .. 9 : ab[k] = b[k - 3]
       /\ \A k \in 1 .. 9 : abc[k] = ab[k]
       /\ \A k \in 10 .. 15 : abc[k] = c[k - 9]
       /\ \A k \in 1 .. 15 : all[k] = abc[k]
       /\ \A k \in 16 .. 16 : all[k] = d[k - 15]
       /\ Len(all) = 16
  BY <1>11, <1>12, <1>13 DEF ab, abc, all
<1>16. \A k \in 1 .. 3 : all[k] = Commands[k]  BY <1>7, <1>15
<1>17. \A k \in 4 .. 9 : all[k] = Commands[k]  BY <1>8, <1>15
<1>18. \A k \in 10 .. 15 : all[k] = Commands[k]  BY <1>9, <1>15
<1>19. \A k \in 16 .. 16 : all[k] = Commands[k]  BY <1>10, <1>15
<1>20. DOMAIN all = 1 .. 16  BY <1>13, LenProperties DEF all
<1> QED  BY <1>14, <1>15, <1>16, <1>17, <1>18, <1>19, <1>20

\* Configurations, with the patches or the target of a project set; and how many commands
\* come before those of a project.
Condition == {"old", "none", "empty", "torn", "new"}

Configs ==
    [edk2 : Condition, tmp : BOOLEAN, patches : [Projects -> Condition],
     target : [Projects -> Condition]]

WithPatches(c, p, v) == [c EXCEPT !.patches[p] = v]

WithTarget(c, p, v) == [c EXCEPT !.target[p] = v]

Ahead(p) == IF p = "coreboot" THEN 3 ELSE 9

\* What each command makes of a configuration.
LEMMA DoesIs ==
  ASSUME NEW x, NEW c
  PROVE  /\ Does(x, c, Commands[1]) = [c EXCEPT !.tmp = TRUE]
         /\ Does(x, c, Commands[2]) = [c EXCEPT !.edk2 = "none"]
         /\ Does(x, c, Commands[3]) = [c EXCEPT !.edk2 = "new"]
         /\ Does(x, c, Commands[16]) = [c EXCEPT !.tmp = FALSE]
<1>1. Does(x, c, Commands[1]) = [c EXCEPT !.tmp = TRUE]
  <2>1. Does(x, c, <<"tmpdir", "">>) = [c EXCEPT !.tmp = TRUE]  BY DEF Does
  <2> QED  BY <2>1, CommandsAre
<1>2. Does(x, c, Commands[2]) = [c EXCEPT !.edk2 = "none"]
  <2>1. Does(x, c, <<"remkdir edk2", "">>) = [c EXCEPT !.edk2 = "none"]  BY DEF Does
  <2> QED  BY <2>1, CommandsAre
<1>3. Does(x, c, Commands[3]) = [c EXCEPT !.edk2 = "new"]
  <2>1. Does(x, c, <<"write edk2", "">>) = [c EXCEPT !.edk2 = "new"]  BY DEF Does
  <2> QED  BY <2>1, CommandsAre
<1>4. Does(x, c, Commands[16]) = [c EXCEPT !.tmp = FALSE]
  <2>1. Does(x, c, <<"rm tmp", "">>) = [c EXCEPT !.tmp = FALSE]  BY DEF Does
  <2> QED  BY <2>1, CommandsAre
<1> QED  BY <1>1, <1>2, <1>3, <1>4

\* The commands of a project.
LEMMA ProjectCommands ==
  ASSUME NEW p \in Projects
  PROVE  /\ Commands[Ahead(p) + 1] = <<"clone", p>> /\ Commands[Ahead(p) + 2] = <<"remkdir", p>>
         /\ Commands[Ahead(p) + 3] = <<"patch", p>> /\ Commands[Ahead(p) + 4] = <<"rmdir", p>>
         /\ Commands[Ahead(p) + 5] = <<"rm", p>> /\ Commands[Ahead(p) + 6] = <<"write", p>>
<1>1. CASE p = "coreboot"
  <2>1. Ahead(p) = 3  BY <1>1 DEF Ahead
  <2>2. /\ Ahead(p) + 1 = 4 /\ Ahead(p) + 2 = 5 /\ Ahead(p) + 3 = 6
        /\ Ahead(p) + 4 = 7 /\ Ahead(p) + 5 = 8 /\ Ahead(p) + 6 = 9
    BY <2>1
  <2> QED  BY <1>1, <2>2, CommandsAre
<1>2. CASE p = "edk2"
  <2>1. Ahead(p) = 9  BY <1>2 DEF Ahead
  <2>2. /\ Ahead(p) + 1 = 10 /\ Ahead(p) + 2 = 11 /\ Ahead(p) + 3 = 12
        /\ Ahead(p) + 4 = 13 /\ Ahead(p) + 5 = 14 /\ Ahead(p) + 6 = 15
    BY <2>1
  <2> QED  BY <1>2, <2>2, CommandsAre
<1> QED  BY <1>1, <1>2 DEF Projects

\* What the command i of a project does.
DoesAt(x, c, p, i) == Does(x, c, Commands[Ahead(p) + i])

\* A command of a project touches that project alone.
LEMMA DoesOf ==
  ASSUME NEW x, NEW c, NEW p \in Projects
  PROVE  /\ DoesAt(x, c, p, 1) = c
         /\ DoesAt(x, c, p, 2) = WithPatches(c, p, "empty")
         /\ p \in x.changed => DoesAt(x, c, p, 3) = WithPatches(c, p, "new")
         /\ p \notin x.changed => DoesAt(x, c, p, 3) = c
         /\ c.patches[p] = "empty" => DoesAt(x, c, p, 4) = WithPatches(c, p, "none")
         /\ c.patches[p] # "empty" => DoesAt(x, c, p, 4) = c
         /\ DoesAt(x, c, p, 5) = WithTarget(c, p, "none")
         /\ DoesAt(x, c, p, 6) = WithTarget(c, p, "new")
<1>1. /\ Commands[Ahead(p) + 1] = <<"clone", p>> /\ Commands[Ahead(p) + 2] = <<"remkdir", p>>
      /\ Commands[Ahead(p) + 3] = <<"patch", p>> /\ Commands[Ahead(p) + 4] = <<"rmdir", p>>
      /\ Commands[Ahead(p) + 5] = <<"rm", p>> /\ Commands[Ahead(p) + 6] = <<"write", p>>
  BY ProjectCommands
<1>2. Does(x, c, <<"clone", p>>) = c  BY DEF Does
<1>3. Does(x, c, <<"remkdir", p>>) = WithPatches(c, p, "empty")
  BY DEF Does, WithPatches, WithTarget
<1>4. Does(x, c, <<"patch", p>>) =
        IF p \in x.changed THEN WithPatches(c, p, "new") ELSE c
          BY DEF Does, WithPatches, WithTarget
<1>5. Does(x, c, <<"rmdir", p>>) =
        IF c.patches[p] = "empty" THEN WithPatches(c, p, "none") ELSE c
          BY DEF Does, WithPatches, WithTarget
<1>6. Does(x, c, <<"rm", p>>) = WithTarget(c, p, "none")  BY DEF Does, WithPatches, WithTarget
<1>7. Does(x, c, <<"write", p>>) = WithTarget(c, p, "new")  BY DEF Does, WithPatches, WithTarget
<1> QED  BY <1>1, <1>2, <1>3, <1>4, <1>5, <1>6, <1>7 DEF DoesAt

\* The number of a command says what it is one of.
LEMMA PlaceOfCommand ==
  \A k \in 1 .. 16 : k \in {1, 2, 3, 16} \/ \E p \in Projects, i \in 1 .. 6 : k = Ahead(p) + i
<1> SUFFICES ASSUME NEW k \in 1 .. 16, k \notin {1, 2, 3, 16}
             PROVE  \E p \in Projects, i \in 1 .. 6 : k = Ahead(p) + i
  OBVIOUS
<1>1. CASE k <= 9
  <2>1. Ahead("coreboot") = 3 /\ "coreboot" \in Projects /\ k - 3 \in 1 .. 6 /\ k = 3 + (k - 3)
    BY <1>1 DEF Ahead, Projects
  <2> QED  BY <2>1
<1>2. CASE k > 9
  <2>1. Ahead("edk2") = 9 /\ "edk2" \in Projects /\ k - 9 \in 1 .. 6 /\ k = 9 + (k - 9)
    BY <1>2 DEF Ahead, Projects
  <2> QED  BY <2>1
<1> QED  BY <1>1, <1>2

\* A configuration stays one.
LEMMA DoesType ==
  ASSUME NEW x, NEW c \in Configs, NEW k \in 1 .. 16
  PROVE  Does(x, c, Commands[k]) \in Configs
<1>1. CASE k \in {1, 2, 3, 16}
  <2>1. Does(x, c, Commands[k]) \in {[c EXCEPT !.tmp = TRUE], [c EXCEPT !.tmp = FALSE],
                                     [c EXCEPT !.edk2 = "none"], [c EXCEPT !.edk2 = "new"]}
    BY <1>1, DoesIs
  <2> QED  BY <2>1 DEF Configs, Condition
<1>2. ASSUME NEW p \in Projects, NEW i \in 1 .. 6, k = Ahead(p) + i
      PROVE  Does(x, c, Commands[k]) \in Configs
  <2>0. i \in {1, 2, 3, 4, 5, 6}  OBVIOUS
  <2>1. Does(x, c, Commands[k]) \in
           {c, WithPatches(c, p, "empty"), WithPatches(c, p, "new"),
            WithPatches(c, p, "none"), WithTarget(c, p, "none"),
            WithTarget(c, p, "new")}
    <3>1. Does(x, c, Commands[k]) = DoesAt(x, c, p, i)  BY <1>2 DEF DoesAt
    <3>2. DoesAt(x, c, p, 1) = c  BY DoesOf
    <3>3. DoesAt(x, c, p, 2) = WithPatches(c, p, "empty")  BY DoesOf
    <3>4. DoesAt(x, c, p, 3) \in {c, WithPatches(c, p, "new")}  BY DoesOf
    <3>5. DoesAt(x, c, p, 4) \in {c, WithPatches(c, p, "none")}
      BY DoesOf
    <3>6. DoesAt(x, c, p, 5) = WithTarget(c, p, "none")  BY DoesOf
    <3>7. DoesAt(x, c, p, 6) = WithTarget(c, p, "new")  BY DoesOf
    <3> QED  BY <2>0, <3>1, <3>2, <3>3, <3>4, <3>5, <3>6, <3>7
  <2> QED  BY <1>2, <2>1 DEF Configs, Condition, WithPatches, WithTarget
<1> QED  BY <1>1, <1>2, PlaceOfCommand

\* The first of the elements of a sequence.
LEMMA FirstOf ==
  ASSUME NEW s, NEW k \in Nat
  PROVE  DOMAIN SubSeq(s, 1, k) = 1 .. k /\ \A i \in 1 .. k : SubSeq(s, 1, k)[i] = s[i]
<1> DEFINE S == {s[i] : i \in 1 .. k}
           t == SubSeq(s, 1, k)
<1>1. \A i \in 1 .. k : s[i] \in S  OBVIOUS
<1> HIDE DEF S
<1>2. /\ t \in Seq(S) /\ Len(t) = (IF 1 <= k THEN k - 1 + 1 ELSE 0)
      /\ \A i \in 1 .. k - 1 + 1 : t[i] = s[1 + i - 1]
  BY <1>1, SubSeqProperties
<1> HIDE DEF t
<1>3. Len(t) = k /\ \A i \in 1 .. k : t[i] = s[i]
  <2>1. Len(t) = k  BY <1>2
  <2>2. \A i \in 1 .. k : i \in 1 .. k - 1 + 1 /\ 1 + i - 1 = i  OBVIOUS
  <2> QED  BY <1>2, <2>1, <2>2
<1> QED  BY <1>2, <1>3 DEF t

\* What commands come to, one after the other.
DoneBy(x, base, cmds) == FoldLeft(LAMBDA d, cmd : Does(x, d, cmd), base, cmds)

\* The configurations on the way.
DoneUpTo(f, x, base, cmds, n) ==
    /\ f \in [0 .. n -> Configs]
    /\ f[0] = base
    /\ \A k \in 1 .. n : f[k] = Does(x, f[k - 1], cmds[k])
    /\ DoneBy(x, base, cmds) = f[n]

\* They come to the last of the configurations on the way.
LEMMA DoesFold ==
  ASSUME NEW x, NEW base \in Configs, NEW n \in 0 .. 16, NEW cmds,
         DOMAIN cmds = 1 .. n, \A k \in 1 .. n : cmds[k] = Commands[k]
  PROVE  \E f : DoneUpTo(f, x, base, cmds, n)
<1> DEFINE g == [k \in 1 .. n |-> [c \in Configs |-> Does(x, c, cmds[k])]]
<1>1. n \in Nat /\ \A k \in 1 .. n : k \in 1 .. 16  OBVIOUS
<1>2. g \in [1 .. n -> [Configs -> Configs]]
  BY DoesType
<1>3. PICK w : Folding(w, n, Configs, base, g)
  <2>1. AreSteps(g, n, Configs)  BY <1>2 DEF AreSteps
  <2> HIDE DEF g
  <2> QED  BY <1>1, <2>1, FoldExists
<1> DEFINE I == CHOOSE u : u = [s \in SUBSET (1 .. n) |->
                  IF s = {} THEN base ELSE Does(x, u[s \ {Max(s)}], cmds[Max(s)])]
<1>4. w = [s \in SUBSET (1 .. n) |->
             IF s = {} THEN base ELSE Does(x, w[s \ {Max(s)}], cmds[Max(s)])]
  <2>1. ASSUME NEW s \in SUBSET (1 .. n), s # {}
        PROVE  g[Max(s)][w[s \ {Max(s)}]] = Does(x, w[s \ {Max(s)}], cmds[Max(s)])
    <3>1. Max(s) \in 1 .. n  BY <1>3, <2>1 DEF Folding
    <3> DEFINE r == s \ {Max(s)}
    <3>2. r \in SUBSET (1 .. n)  OBVIOUS
    <3> HIDE DEF r
    <3>3. w[r] \in Configs  BY <3>2, <1>3 DEF Folding
    <3> QED  BY <3>1, <3>3 DEF r
  <2> HIDE DEF g
  <2> QED  BY <2>1, <1>3 DEF Folding
<1>5. I = [s \in SUBSET (1 .. n) |->
             IF s = {} THEN base ELSE Does(x, I[s \ {Max(s)}], cmds[Max(s)])]
  BY <1>4
<1>6. DoneBy(x, base, cmds) = I[1 .. n]
  BY <1>1 DEF DoneBy, FoldLeft, MapThenFoldSet
<1> DEFINE f == [k \in 0 .. n |-> I[1 .. k]]
           T == {k \in 0 .. n : f[k] \in Configs}
<1> HIDE DEF I
<1>7. f[0] = base /\ f[n] = I[1 .. n]
  <2>1. 1 .. 0 = {} /\ {} \in SUBSET (1 .. n)  OBVIOUS
  <2>2. I[{}] = base  BY <2>1, <1>5
  <2> QED  BY <1>1, <2>1, <2>2
<1>8. \A k \in 1 .. n : f[k] = Does(x, f[k - 1], cmds[k])
  <2> SUFFICES ASSUME NEW k \in 1 .. n PROVE f[k] = Does(x, f[k - 1], cmds[k])
    OBVIOUS
  <2>1. k \in Nat /\ 1 .. k \in SUBSET (1 .. n) /\ k \in 1 .. k  BY <1>1
  <2>2. Max(1 .. k) = k  BY <2>1, MaxIs
  <2>3. (1 .. k) \ {k} = 1 .. k - 1  BY <2>1
  <2>4. I[1 .. k] = Does(x, I[1 .. k - 1], cmds[k])  BY <2>1, <2>2, <2>3, <1>5
  <2>5. k \in 0 .. n /\ k - 1 \in 0 .. n  BY <1>1
  <2> QED  BY <2>4, <2>5
<1> HIDE DEF f
<1>9. \A k \in 0 .. n : k \in T
  <2>1. 0 \in T  BY <1>1, <1>7
  <2>2. \A k \in 0 .. n - 1 : k \in T => k + 1 \in T
    <3> SUFFICES ASSUME NEW k \in 0 .. n - 1, f[k] \in Configs PROVE f[k + 1] \in Configs
      BY <1>1
    <3>1. k + 1 \in 1 .. n /\ k + 1 - 1 = k  BY <1>1
    <3>2. f[k + 1] = Does(x, f[k], cmds[k + 1])  BY <3>1, <1>8
    <3>3. cmds[k + 1] = Commands[k + 1] /\ k + 1 \in 1 .. 16  BY <3>1
    <3>4. \A c \in Configs, i \in 1 .. 16 : Does(x, c, Commands[i]) \in Configs  BY DoesType
    <3> QED  BY ONLY <3>2, <3>3, <3>4, f[k] \in Configs
  <2> HIDE DEF T
  <2> QED  BY <1>1, <2>1, <2>2, UpTo
<1>10. f \in [0 .. n -> Configs]  BY <1>9 DEF f
<1> QED  BY <1>6, <1>7, <1>8, <1>10 DEF DoneUpTo

\* What the configuration c is before the first command, and after each.
RightPatches(x, p) == IF p \in x.changed THEN "new" ELSE "none"

\* What a project has after n of its commands, and a configuration after k of all.
PatchesAt(x, p, n) ==
    IF n < 2 THEN "old" ELSE IF n = 2 \/ (n = 3 /\ p \notin x.changed) THEN "empty" ELSE RightPatches(x, p)

TargetAt(n) == IF n < 5 THEN "old" ELSE IF n = 5 THEN "none" ELSE "new"

PartlyImported(x, k, c) ==
    /\ c.edk2 = IF k < 2 THEN "old" ELSE IF k = 2 THEN "none" ELSE "new"
    /\ c.tmp = IF k \in 1 .. 15 THEN TRUE ELSE FALSE
    /\ \A p \in Projects : /\ c.patches[p] = PatchesAt(x, p, k - Ahead(p))
                           /\ c.target[p] = TargetAt(k - Ahead(p))

\* The patches after each command of their project.
LEMMA PatchesIs ==
  ASSUME NEW c \in Configs, NEW p \in Projects, NEW v \in Condition
  PROVE  LET d == WithPatches(c, p, v)
         IN  /\ d.edk2 = c.edk2 /\ d.tmp = c.tmp /\ d.target = c.target
             /\ \A q \in Projects : d.patches[q] = IF q = p THEN v ELSE c.patches[q]
  BY DEF WithPatches, Configs

\* Its target likewise.
LEMMA TargetIs ==
  ASSUME NEW c \in Configs, NEW p \in Projects, NEW v \in Condition
  PROVE  LET d == WithTarget(c, p, v)
         IN  /\ d.edk2 = c.edk2 /\ d.tmp = c.tmp /\ d.patches = c.patches
             /\ \A q \in Projects : d.target[q] = IF q = p THEN v ELSE c.target[q]
  BY DEF WithTarget, Configs

\* Each command makes one part of the import more.
LEMMA DoesPart ==
  ASSUME NEW x, NEW k \in 1 .. 16, NEW c \in Configs, PartlyImported(x, k - 1, c)
  PROVE  PartlyImported(x, k, Does(x, c, Commands[k]))
<1> DEFINE d == Does(x, c, Commands[k])
<1>0. /\ "coreboot" \in Projects /\ "edk2" \in Projects /\ Ahead("coreboot") = 3 /\ Ahead("edk2") = 9
      /\ \A p \in Projects : p = "coreboot" \/ p = "edk2"
  BY DEF Ahead, Projects
<1>1. ASSUME k \in {1, 2, 3, 16} PROVE PartlyImported(x, k, d)
  <2>1. /\ k = 1 => d = [c EXCEPT !.tmp = TRUE]
        /\ k = 2 => d = [c EXCEPT !.edk2 = "none"]
        /\ k = 3 => d = [c EXCEPT !.edk2 = "new"]
        /\ k = 16 => d = [c EXCEPT !.tmp = FALSE]
    BY DoesIs
  <2> HIDE DEF d
  <2>2. /\ d.tmp = IF k = 1 THEN TRUE ELSE IF k = 16 THEN FALSE ELSE c.tmp
        /\ d.edk2 = IF k = 2 THEN "none" ELSE IF k = 3 THEN "new" ELSE c.edk2
        /\ d.patches = c.patches /\ d.target = c.target
    BY <1>1, <2>1 DEF Configs
  <2>3. ASSUME NEW p \in Projects
        PROVE  /\ PatchesAt(x, p, k - Ahead(p)) = PatchesAt(x, p, k - 1 - Ahead(p))
               /\ TargetAt(k - Ahead(p)) = TargetAt(k - 1 - Ahead(p))
    BY <1>0, <1>1 DEF PatchesAt, TargetAt
  <2>4. \A p \in Projects : /\ d.patches[p] = PatchesAt(x, p, k - Ahead(p))
                            /\ d.target[p] = TargetAt(k - Ahead(p))
    BY <2>2, <2>3 DEF PartlyImported
  <2>5. /\ d.edk2 = IF k < 2 THEN "old" ELSE IF k = 2 THEN "none" ELSE "new"
        /\ d.tmp = IF k \in 1 .. 15 THEN TRUE ELSE FALSE
    BY <1>1, <2>2 DEF PartlyImported
  <2> QED  BY <2>4, <2>5 DEF PartlyImported
<1>2. ASSUME NEW p \in Projects, NEW i \in 1 .. 6, k = Ahead(p) + i PROVE PartlyImported(x, k, d)
  <2>1. \A q \in Projects \ {p} :
          /\ PatchesAt(x, q, k - Ahead(q)) = PatchesAt(x, q, k - 1 - Ahead(q))
          /\ TargetAt(k - Ahead(q)) = TargetAt(k - 1 - Ahead(q))
    BY <1>0, <1>2 DEF PatchesAt, TargetAt
  <2>2. k \in 4 .. 15 /\ k - Ahead(p) = i /\ k - 1 - Ahead(p) = i - 1
    BY <1>0, <1>2
  <2>3. SUFFICES ASSUME d.edk2 = c.edk2, d.tmp = c.tmp,
                        \A q \in Projects \ {p} : d.patches[q] = c.patches[q] /\ d.target[q] = c.target[q],
                        d.patches[p] = PatchesAt(x, p, i), d.target[p] = TargetAt(i)
                 PROVE  PartlyImported(x, k, d)
    <3>0. c.patches[p] = PatchesAt(x, p, i - 1) /\ c.target[p] = TargetAt(i - 1)
      BY <2>2 DEF PartlyImported
    <3>1. d = DoesAt(x, c, p, i)  BY <1>2 DEF DoesAt
    <3>2. CASE i = 1
      <4>1. d = DoesAt(x, c, p, 1)  BY <3>1, <3>2
      <4>2. d = c  BY <4>1, DoesOf
      <4> QED  BY <3>0, <3>2, <4>2 DEF PatchesAt, TargetAt
    <3>3. CASE i = 2
      <4>1. d = DoesAt(x, c, p, 2)  BY <3>1, <3>3
      <4>2. d = WithPatches(c, p, "empty")  BY <4>1, DoesOf
      <4> QED  BY <3>0, <3>3, <4>2, PatchesIs DEF PatchesAt, TargetAt, Condition
    <3>4. CASE i = 3
      <4>1. d = DoesAt(x, c, p, 3)  BY <3>1, <3>4
      <4>2. CASE p \in x.changed
        <5>1. d = WithPatches(c, p, "new")  BY <4>1, <4>2, DoesOf
        <5> QED  BY <3>0, <3>4, <4>2, <5>1, PatchesIs DEF PatchesAt, TargetAt, Condition, RightPatches
      <4>3. CASE p \notin x.changed
        <5>1. d = c  BY <4>1, <4>3, DoesOf
        <5> QED  BY <3>0, <3>4, <4>3, <5>1 DEF PatchesAt, TargetAt
      <4> QED  BY <4>2, <4>3
    <3>5. CASE i = 4
      <4>1. d = DoesAt(x, c, p, 4)  BY <3>1, <3>5
      <4>2. CASE c.patches[p] = "empty"
        <5>1. d = WithPatches(c, p, "none")  BY <4>1, <4>2, DoesOf
        <5> QED  BY <3>0, <3>5, <4>2, <5>1, PatchesIs DEF PatchesAt, TargetAt, Condition, RightPatches
      <4>3. CASE c.patches[p] # "empty"
        <5>1. d = c  BY <4>1, <4>3, DoesOf
        <5> QED  BY <3>0, <3>5, <4>3, <5>1 DEF PatchesAt, TargetAt, RightPatches
      <4> QED  BY <4>2, <4>3
    <3>6. CASE i = 5
      <4>1. d = DoesAt(x, c, p, 5)  BY <3>1, <3>6
      <4>2. d = WithTarget(c, p, "none")  BY <4>1, DoesOf
      <4> QED  BY <3>0, <3>6, <4>2, TargetIs DEF PatchesAt, TargetAt, Condition
    <3>7. CASE i = 6
      <4>1. d = DoesAt(x, c, p, 6)  BY <3>1, <3>7
      <4>2. d = WithTarget(c, p, "new")  BY <4>1, DoesOf
      <4> QED  BY <3>0, <3>7, <4>2, TargetIs DEF PatchesAt, TargetAt, Condition
    <3>8. i \in {1, 2, 3, 4, 5, 6}  OBVIOUS
    <3> HIDE DEF d
    <3> QED  BY <3>2, <3>3, <3>4, <3>5, <3>6, <3>7, <3>8
  <2> HIDE DEF d
  <2> QED  BY <2>1, <2>2, <2>3 DEF PartlyImported
<1>3. k \in {1, 2, 3, 16} \/ \E p \in Projects, i \in 1 .. 6 : k = Ahead(p) + i  BY PlaceOfCommand
<1> HIDE DEF d
<1>4. PartlyImported(x, k, d)  BY <1>1, <1>2, <1>3
<1> QED  BY <1>4 DEF d

\* A tree whose base is the new one has all its patches, also where a command fails.
LEMMA LeftPart ==
  ASSUME NEW x, NEW k \in 1 .. 16, NEW c \in Configs, PartlyImported(x, k - 1, c), NEW q \in Projects,
         LeftBy(c, Commands[k]).target[q] \in {"new", "torn"}
  PROVE  LeftBy(c, Commands[k]).patches[q] = RightPatches(x, q)
<1> DEFINE d == LeftBy(c, Commands[k])
<1>0. /\ Ahead("coreboot") = 3 /\ Ahead("edk2") = 9
      /\ \A p \in Projects : p = "coreboot" \/ p = "edk2"
  BY DEF Ahead, Projects
<1>1. /\ c.patches[q] = PatchesAt(x, q, k - 1 - Ahead(q))
      /\ c.target[q] = TargetAt(k - 1 - Ahead(q))
  BY DEF PartlyImported
<1>2. c.target[q] \in {"new", "torn"} => c.patches[q] = RightPatches(x, q)
  BY <1>0, <1>1 DEF TargetAt, PatchesAt
<1>3. ASSUME k \in {1, 2, 3, 16} PROVE d.patches[q] = RightPatches(x, q)
  <2>1. LeftBy(c, <<"tmpdir", "">>) = c /\ LeftBy(c, <<"rm tmp", "">>) = c  BY DEF LeftBy
  <2>2. LeftBy(c, <<"remkdir edk2", "">>) = [c EXCEPT !.edk2 = "torn"]  BY DEF LeftBy
  <2>3. LeftBy(c, <<"write edk2", "">>) = [c EXCEPT !.edk2 = "torn"]  BY DEF LeftBy
  <2>4. d = c \/ d = [c EXCEPT !.edk2 = "torn"]
    BY <1>3, <2>1, <2>2, <2>3, CommandsAre
  <2> HIDE DEF d
  <2>5. d.patches = c.patches /\ d.target = c.target  BY <2>4 DEF Configs
  <2> QED  BY <1>2, <2>5 DEF d
<1>4. ASSUME NEW p \in Projects, NEW i \in 1 .. 6, k = Ahead(p) + i
      PROVE  d.patches[q] = RightPatches(x, q)
  <2>1. /\ LeftBy(c, <<"clone", p>>) = c /\ LeftBy(c, <<"rmdir", p>>) = c
        /\ LeftBy(c, <<"rm", p>>) = c
    BY DEF LeftBy
  <2>2. LeftBy(c, <<"remkdir", p>>) = WithPatches(c, p, "torn")  BY DEF LeftBy, WithPatches
  <2>3. LeftBy(c, <<"patch", p>>) = WithPatches(c, p, "torn")  BY DEF LeftBy, WithPatches
  <2>4. LeftBy(c, <<"write", p>>) = WithTarget(c, p, "torn")  BY DEF LeftBy, WithTarget
  <2>5. Commands[k] = <<IF i = 1 THEN "clone" ELSE IF i = 2 THEN "remkdir" ELSE IF i = 3 THEN "patch"
                        ELSE IF i = 4 THEN "rmdir" ELSE IF i = 5 THEN "rm" ELSE "write", p>>
    <3>1. Commands[k] = Commands[Ahead(p) + i]  BY <1>4
    <3>2. i \in {1, 2, 3, 4, 5, 6}  OBVIOUS
    <3> QED  BY <3>1, <3>2, ProjectCommands
  <2>6. d = IF i \in {2, 3} THEN WithPatches(c, p, "torn") ELSE IF i = 6 THEN WithTarget(c, p, "torn") ELSE c
    BY <2>1, <2>2, <2>3, <2>4, <2>5
  <2>7. k - 1 - Ahead(p) = i - 1  BY <1>0, <1>4
  <2> HIDE DEF d
  <2>8. CASE i \in {2, 3}
    <3>1. d.target = c.target /\ \A r \in Projects \ {p} : d.patches[r] = c.patches[r]
      BY <2>6, <2>8, PatchesIs DEF Condition
    <3>2. c.target[p] = "old"  BY <1>0, <2>7, <2>8 DEF PartlyImported, TargetAt
    <3> QED  BY <1>2, <3>1, <3>2 DEF d
  <2>9. CASE i = 6
    <3>1. d.patches = c.patches /\ \A r \in Projects \ {p} : d.target[r] = c.target[r]
      BY <2>6, <2>9, TargetIs DEF Condition
    <3>2. c.patches[p] = RightPatches(x, p)
      <4>1. c.patches[p] = PatchesAt(x, p, 5)  BY <2>7, <2>9 DEF PartlyImported
      <4> QED  BY <4>1 DEF PatchesAt
    <3> QED  BY <1>2, <3>1, <3>2 DEF d
  <2> QED  BY <1>2, <2>6, <2>8, <2>9 DEF d
<1>5. k \in {1, 2, 3, 16} \/ \E p \in Projects, i \in 1 .. 6 : k = Ahead(p) + i  BY PlaceOfCommand
<1> HIDE DEF d
<1>6. d.patches[q] = RightPatches(x, q)  BY <1>3, <1>4, <1>5
<1> QED  BY <1>6 DEF d

\* An import ends in the stage of its last command; one that fails may leave that
\* torn.
LEMMA Imported ==
  ASSUME NEW x \in Imports
  PROVE  ImportWhole(x, ImportRun(x))
<1> DEFINE n    == IF x.fails = 0 THEN 16 ELSE x.fails - 1
           old  == [edk2 |-> "old", tmp |-> FALSE,
                    patches |-> [p \in Projects |-> "old"], target |-> [p \in Projects |-> "old"]]
           cmds == IF x.fails = 0 THEN prep_mr_import ELSE SubSeq(prep_mr_import, 1, x.fails - 1)
           c    == DoneBy(x, old, cmds)
           last == LeftBy(c, prep_mr_import[x.fails])
<1>1. /\ x.fails \in 0 .. 16 /\ x.release \in BOOLEAN /\ n \in 0 .. 16
  BY TheCommands DEF Imports
<1>2. DOMAIN cmds = 1 .. n /\ \A k \in 1 .. n : cmds[k] = Commands[k]
  <2>1. CASE x.fails = 0
    <3>1. n = 16 /\ cmds = prep_mr_import  BY <2>1
    <3> QED  BY <3>1, TheCommands
  <2>2. CASE x.fails # 0
    <3>0. n \in 0 .. 16  BY <1>1
    <3>1. n \in Nat /\ cmds = SubSeq(prep_mr_import, 1, n) /\ \A k \in 1 .. n : k \in 1 .. 16
      <4>1. n = x.fails - 1 /\ cmds = SubSeq(prep_mr_import, 1, x.fails - 1)  BY <2>2
      <4> HIDE DEF n, cmds
      <4>2. cmds = SubSeq(prep_mr_import, 1, n)  BY <4>1
      <4> QED  BY <4>2, <3>0
    <3> HIDE DEF n, cmds
    <3>2. DOMAIN SubSeq(prep_mr_import, 1, n) = 1 .. n
            /\ \A i \in 1 .. n : SubSeq(prep_mr_import, 1, n)[i] = prep_mr_import[i]
      BY <3>1, FirstOf
    <3> QED  BY <3>1, <3>2, TheCommands
  <2> QED  BY <2>1, <2>2
<1>3. old \in Configs  BY DEF Configs, Condition
<1> HIDE DEF cmds, old
<1>4. PICK f : DoneUpTo(f, x, old, cmds, n)
  <2> HIDE DEF n
  <2> QED  BY <1>1, <1>2, <1>3, DoesFold
<1> HIDE DEF c
<1>5. PartlyImported(x, n, c) /\ c \in Configs
  <2> DEFINE T == {k \in 0 .. n : PartlyImported(x, k, f[k])}
  <2>1. 0 \in T
    <3>1. PartlyImported(x, 0, old)
      BY DEF PartlyImported, old, PatchesAt, TargetAt, Ahead, Projects
    <3> QED  BY <3>1, <1>1, <1>4 DEF DoneUpTo
  <2>2. \A k \in 0 .. n - 1 : k \in T => k + 1 \in T
    <3> SUFFICES ASSUME NEW k \in 0 .. n - 1, PartlyImported(x, k, f[k])
                 PROVE  PartlyImported(x, k + 1, f[k + 1])
      BY <1>1
    <3>1. k + 1 \in 1 .. n /\ k + 1 - 1 = k /\ k + 1 \in 1 .. 16 /\ k \in 0 .. n  BY <1>1
    <3>2. f[k + 1] = Does(x, f[k], Commands[k + 1])  BY <3>1, <1>2, <1>4 DEF DoneUpTo
    <3>3. f[k] \in Configs  BY <3>1, <1>4 DEF DoneUpTo
    <3>4. PartlyImported(x, k + 1 - 1, f[k])  BY <3>1
    <3> HIDE DEF n
    <3>5. PartlyImported(x, k + 1, Does(x, f[k], Commands[k + 1]))
      BY ONLY <3>1, <3>3, <3>4, DoesPart, x \in Imports
    <3> QED  BY ONLY <3>2, <3>5
  <2> HIDE DEF T, n
  <2>3. n \in Nat  BY <1>1
  <2>4. \A k \in 0 .. n : k \in T  BY <2>1, <2>2, <2>3, UpTo
  <2> QED  BY <1>1, <1>4, <2>3, <2>4 DEF T, c, DoneUpTo
<1>6. ImportRun(x) = IF x.release THEN [ok |-> FALSE, config |-> old]
                     ELSE [ok |-> x.fails = 0, config |-> IF x.fails = 0 THEN c ELSE last]
  BY DEF ImportRun, DoneBy, FoldLeft, MapThenFoldSet, c, old, cmds
<1>7. \A p \in Projects : TargetAt(16 - Ahead(p)) = "new" /\ PatchesAt(x, p, 16 - Ahead(p)) = RightPatches(x, p)
  BY DEF TargetAt, PatchesAt, Ahead, Projects
<1> DEFINE right == [p \in Projects |-> IF p \in x.changed THEN "new" ELSE "none"]
<1>8. \A p \in Projects : right[p] = RightPatches(x, p)  BY DEF RightPatches
<1>9. ASSUME x.release PROVE ImportWhole(x, ImportRun(x))
  BY <1>6, <1>9 DEF ImportWhole, old, Projects
<1>10. ASSUME ~x.release, x.fails = 0 PROVE ImportWhole(x, ImportRun(x))
  <2>1. ImportRun(x) = [ok |-> TRUE, config |-> c]  BY <1>6, <1>10
  <2>2. n = 16  BY <1>10
  <2>3. \A p \in Projects : c.target[p] = "new" /\ c.patches[p] = right[p]
    BY <1>5, <1>7, <1>8, <2>2 DEF PartlyImported
  <2>4. c.edk2 = "new" /\ c.tmp = FALSE  BY <1>5, <2>2 DEF PartlyImported
  <2>5. c.patches = right
    <3>1. c.patches \in [Projects -> Condition]  BY <1>5 DEF Configs
    <3> QED  BY <2>3, <3>1
  <2>6. c.target = [p \in Projects |-> "new"]
    <3>1. c.target \in [Projects -> Condition]  BY <1>5 DEF Configs
    <3> QED  BY <2>3, <3>1
  <2>7. c = [edk2 |-> "new", tmp |-> FALSE, patches |-> right, target |-> [p \in Projects |-> "new"]]
    BY <1>5, <2>4, <2>5, <2>6 DEF Configs
  <2> DEFINE v == ImportRun(x)
  <2>8. v.config = c  BY <2>1
  <2> HIDE DEF v
  <2>9. ImportWhole(x, v)  BY <1>10, <2>3, <2>7, <2>8 DEF ImportWhole
  <2> QED  BY <2>9 DEF v
<1>11. ASSUME ~x.release, x.fails # 0 PROVE ImportWhole(x, ImportRun(x))
  <2>1. ImportRun(x) = [ok |-> FALSE, config |-> last]  BY <1>6, <1>11
  <2> SUFFICES ASSUME NEW p \in Projects, last.target[p] \in {"new", "torn"}
               PROVE  last.patches[p] = right[p]
    BY <1>11, <2>1 DEF ImportWhole
  <2>2. x.fails \in 1 .. 16 /\ n = x.fails - 1  BY <1>1, <1>11
  <2>3. last = LeftBy(c, Commands[x.fails])  BY <2>2, TheCommands
  <2> HIDE DEF last, n
  <2>4. last.patches[p] = RightPatches(x, p)  BY <1>5, <2>2, <2>3, LeftPart
  <2> QED  BY <1>8, <2>4
<1> QED  BY <1>1, <1>9, <1>10, <1>11

----------------------------------------------------------------------------
(* The version (include/lib.sh): what is left of a text.                   *)

\* No two dots in a row; none of a character.
NoDots(t) == \A k \in 1 .. Len(t) - 1 : ~(t[k] = "." /\ t[k + 1] = ".")

LacksChar(c, t) == \A k \in 1 .. Len(t) : t[k] # c

\* Without leaves none of a character and brings no other.
LEMMA WithoutIs ==
  ASSUME NEW c, NEW s \in Seq(Characters)
  PROVE  /\ Without(c, s) \in Seq(Characters) /\ LacksChar(c, Without(c, s))
         /\ \A d : LacksChar(d, s) => LacksChar(d, Without(c, s))
         /\ LacksChar(c, s) => Without(c, s) = s
<1> DEFINE p == {i \in DOMAIN s : s[i] # c}
           t == Keep(s, p)
<1>1. DOMAIN s = 1 .. Len(s)  OBVIOUS
<1>2. /\ t \in Seq(Characters)
      /\ \A k \in 1 .. Len(t) : \E i \in 1 .. Len(s) : i \in p /\ t[k] = s[i]
      /\ (\A i \in 1 .. Len(s) : i \in p) => t = s
  <2> HIDE DEF p
  <2> QED  BY KeepFacts
<1>3. Without(c, s) = t  BY DEF Without
<1> HIDE DEF t
<1>4. \A k \in 1 .. Len(t) : t[k] # c  BY <1>2
<1>5. \A d : LacksChar(d, s) => LacksChar(d, t)  BY <1>2 DEF LacksChar
<1>6. LacksChar(c, s) => t = s  BY <1>1, <1>2 DEF LacksChar
<1> QED  BY <1>2, <1>3, <1>4, <1>5, <1>6 DEF LacksChar

\* NoDotDot leaves no two dots in a row, and changes no text without them.
LEMMA NoDotDotIs ==
  ASSUME NEW s \in Seq(Characters)
  PROVE  /\ NoDotDot(s) \in Seq(Characters) /\ NoDots(NoDotDot(s))
         /\ \A d : LacksChar(d, s) => LacksChar(d, NoDotDot(s))
         /\ NoDots(s) => NoDotDot(s) = s
<1> DEFINE p == {i \in DOMAIN s : s[i] # "." \/ (DotRun(s, i) % 2 = 1 /\ ~IsAt(s, i + 1, "."))}
           t == Keep(s, p)
<1>1. DOMAIN s = 1 .. Len(s) /\ Len(s) \in Nat  OBVIOUS
<1>2. /\ t \in Seq(Characters)
      /\ \A k \in 1 .. Len(t) : \E i \in 1 .. Len(s) : i \in p /\ t[k] = s[i]
      /\ \A k \in 1 .. Len(t) - 1 : \E i, j \in 1 .. Len(s) :
           /\ i < j /\ i \in p /\ j \in p /\ t[k] = s[i] /\ t[k + 1] = s[j]
           /\ \A h \in 1 .. Len(s) : i < h /\ h < j => h \notin p
      /\ (\A i \in 1 .. Len(s) : i \in p) => t = s
  <2> HIDE DEF p
  <2> QED  BY KeepFacts
<1>3. NoDotDot(s) = t  BY DEF NoDotDot
<1> HIDE DEF t
<1>4. NoDots(t)
  <2> SUFFICES ASSUME NEW k \in 1 .. Len(t) - 1, t[k] = ".", t[k + 1] = "." PROVE FALSE
    BY DEF NoDots
  <2> HIDE DEF p
  <2>1. PICK i \in 1 .. Len(s), j \in 1 .. Len(s) :
          /\ i < j /\ i \in p /\ j \in p /\ t[k] = s[i] /\ t[k + 1] = s[j]
          /\ \A h \in 1 .. Len(s) : i < h /\ h < j => h \notin p
    BY <1>2
  <2>2. i + 1 \in 1 .. Len(s)  BY <1>1, <2>1
  <2>3. s[i] = "." /\ s[j] = "."  BY <2>1
  <2>4. s[i + 1] # "."  BY <1>1, <2>1, <2>2, <2>3 DEF p, IsAt
  <2>5. i + 1 \in p  BY <1>1, <2>2, <2>4 DEF p
  <2>6. i + 1 # j  BY <2>3, <2>4
  <2> QED  BY <1>1, <2>1, <2>2, <2>5, <2>6
<1>5. \A d : LacksChar(d, s) => LacksChar(d, t)  BY <1>2 DEF LacksChar
<1>6. ASSUME NoDots(s) PROVE t = s
  <2> SUFFICES ASSUME NEW i \in 1 .. Len(s), s[i] = "." PROVE i \in p
    BY <1>1, <1>2
  <2>1. ~IsAt(s, i + 1, ".")
    <3> SUFFICES ASSUME i + 1 \in 1 .. Len(s), s[i + 1] = "." PROVE FALSE
      BY <1>1 DEF IsAt
    <3>1. i \in 1 .. Len(s) - 1  BY <1>1
    <3> QED  BY <3>1, <1>6 DEF NoDots
  <2>2. DotRun(s, i) = 1
    <3> DEFINE M == {j \in 0 .. i : j = 0 \/ s[j] # "."}
    <3>1. i - 1 \in M
      <4>1. i - 1 \in 0 .. i  BY <1>1
      <4>2. i - 1 # 0 => i - 1 \in 1 .. Len(s) - 1 /\ i - 1 + 1 = i  BY <1>1
      <4>3. i - 1 # 0 => s[i - 1] # "."  BY <4>2, <1>6 DEF NoDots
      <4> QED  BY <4>1, <4>3
    <3>2. \A j \in M : j \in Nat /\ j <= i - 1  BY <1>1
    <3>3. Max(M) = i - 1
      <4> HIDE DEF M
      <4>1. i - 1 \in Nat  BY <1>1
      <4>2. \A x \in M : (\A y \in M : x >= y) => x = i - 1  BY <3>1, <3>2, <4>1
      <4>3. \A y \in M : i - 1 >= y  BY <3>2, <4>1
      <4> QED  BY <3>1, <4>2, <4>3 DEF Max
    <3>4. DotRun(s, i) = i - Max(M)  BY DEF DotRun
    <3> HIDE DEF M
    <3> QED  BY <1>1, <3>3, <3>4
  <2> QED  BY <1>1, <2>1, <2>2
<1> QED  BY <1>2, <1>3, <1>4, <1>5, <1>6

\* NoDotSlash brings no two dots together, and changes no text without slashes.
LEMMA NoDotSlashIs ==
  ASSUME NEW s \in Seq(Characters), NoDots(s)
  PROVE  /\ NoDotSlash(s) \in Seq(Characters) /\ NoDots(NoDotSlash(s))
         /\ \A d : LacksChar(d, s) => LacksChar(d, NoDotSlash(s))
         /\ LacksChar("/", s) => NoDotSlash(s) = s
<1> DEFINE p == {i \in DOMAIN s : /\ ~(s[i] = "." /\ IsAt(s, i + 1, "/"))
                                  /\ ~(s[i] = "/" /\ IsAt(s, i - 1, "."))}
           t == Keep(s, p)
<1>1. DOMAIN s = 1 .. Len(s) /\ Len(s) \in Nat  OBVIOUS
<1>2. /\ t \in Seq(Characters)
      /\ \A k \in 1 .. Len(t) : \E i \in 1 .. Len(s) : i \in p /\ t[k] = s[i]
      /\ \A k \in 1 .. Len(t) - 1 : \E i, j \in 1 .. Len(s) :
           /\ i < j /\ i \in p /\ j \in p /\ t[k] = s[i] /\ t[k + 1] = s[j]
           /\ \A h \in 1 .. Len(s) : i < h /\ h < j => h \notin p
      /\ (\A i \in 1 .. Len(s) : i \in p) => t = s
  <2> HIDE DEF p
  <2> QED  BY KeepFacts
<1>3. NoDotSlash(s) = t  BY DEF NoDotSlash
<1> HIDE DEF t
<1>4. NoDots(t)
  <2> SUFFICES ASSUME NEW k \in 1 .. Len(t) - 1, t[k] = ".", t[k + 1] = "." PROVE FALSE
    BY DEF NoDots
  <2> HIDE DEF p
  <2>1. PICK i \in 1 .. Len(s), j \in 1 .. Len(s) :
          /\ i < j /\ i \in p /\ j \in p /\ t[k] = s[i] /\ t[k + 1] = s[j]
          /\ \A h \in 1 .. Len(s) : i < h /\ h < j => h \notin p
    BY <1>2
  <2>2. i + 1 \in 1 .. Len(s) /\ i \in 1 .. Len(s) - 1  BY <1>1, <2>1
  <2>3. s[i] = "." /\ s[j] = "."  BY <2>1
  <2>4. s[i + 1] # "."  BY <2>2, <2>3 DEF NoDots
  <2>5. s[i + 1] # "/"  BY <1>1, <2>1, <2>2, <2>3 DEF p, IsAt
  <2>6. i + 1 \in p  BY <1>1, <2>2, <2>4, <2>5 DEF p
  <2>7. i + 1 # j  BY <2>3, <2>4
  <2> QED  BY <1>1, <2>1, <2>2, <2>6, <2>7
<1>5. \A d : LacksChar(d, s) => LacksChar(d, t)  BY <1>2 DEF LacksChar
<1>6. ASSUME LacksChar("/", s) PROVE t = s
  <2> SUFFICES ASSUME NEW i \in 1 .. Len(s) PROVE i \in p
    BY <1>2
  <2> QED  BY <1>1, <1>6 DEF LacksChar, IsAt
<1> QED  BY <1>2, <1>3, <1>4, <1>5, <1>6

\* A text that can be a part of the name of a file.
CleanText(t) == /\ t \in Seq(Characters) /\ t # << >> /\ NoDots(t)
                /\ LacksChar(" ", t) /\ LacksChar("\t", t) /\ LacksChar("/", t)

\* The texts of the program are texts.
LEMMA ShortText ==
  /\ <<"x">> \in Seq(Characters) /\ Len(<<"x">>) = 1 /\ <<"x">>[1] = "x" /\ <<"x">> # << >>
  /\ <<"x", "-", "x">> \in Seq(Characters) /\ << >> \in Seq(Characters)
<1>1. "x" \in Characters /\ "-" \in Characters  BY DEF Characters
<1>2. ASSUME NEW S, NEW a \in S, NEW b \in S
      PROVE  /\ <<a>> \in Seq(S) /\ Len(<<a>>) = 1 /\ <<a>>[1] = a /\ <<a>> # << >>
             /\ <<a, b, a>> \in Seq(S) /\ << >> \in Seq(S)
  OBVIOUS
<1> HIDE DEF Characters
<1> QED  BY <1>1, <1>2

\* With dashes for slashes a text has no slash, and no two dots more than before.
LEMMA DashedIs ==
  ASSUME NEW s \in Seq(Characters)
  PROVE  LET t == [i \in DOMAIN s |-> IF s[i] = "/" THEN "-" ELSE s[i]]
         IN  /\ t \in Seq(Characters) /\ LacksChar("/", t)
             /\ NoDots(s) => NoDots(t)
             /\ LacksChar(" ", s) => LacksChar(" ", t)
             /\ LacksChar("\t", s) => LacksChar("\t", t)
             /\ LacksChar("/", s) => t = s
<1> DEFINE t == [i \in DOMAIN s |-> IF s[i] = "/" THEN "-" ELSE s[i]]
<1>1. DOMAIN s = 1 .. Len(s) /\ Len(s) \in Nat /\ \A i \in 1 .. Len(s) : s[i] \in Characters  OBVIOUS
<1>2. \A i \in 1 .. Len(s) : t[i] = IF s[i] = "/" THEN "-" ELSE s[i]  BY <1>1
<1>3. t \in Seq(Characters) /\ Len(t) = Len(s)
  <2>1. "-" \in Characters  BY DEF Characters
  <2>2. t \in [1 .. Len(s) -> Characters]
    <3>1. \A i \in 1 .. Len(s) : (IF s[i] = "/" THEN "-" ELSE s[i]) \in Characters  BY <1>1, <2>1
    <3> QED  BY <1>1, <3>1
  <2> HIDE DEF t
  <2> QED  BY <1>1, <2>2
<1> HIDE DEF t
<1>4. LacksChar("/", t)  BY <1>2, <1>3 DEF LacksChar
<1>5. NoDots(s) => NoDots(t)
  <2>1. \A i \in 1 .. Len(s) : t[i] = "." => s[i] = "."  BY <1>2
  <2>2. \A k \in 1 .. Len(s) - 1 : k \in 1 .. Len(s) /\ k + 1 \in 1 .. Len(s)  BY <1>1
  <2> QED  BY <1>3, <2>1, <2>2 DEF NoDots
<1>6. LacksChar(" ", s) => LacksChar(" ", t)  BY <1>2, <1>3 DEF LacksChar
<1>7. LacksChar("\t", s) => LacksChar("\t", t)  BY <1>2, <1>3 DEF LacksChar
<1>8. LacksChar("/", s) => t = s
  <2>1. LacksChar("/", s) => \A i \in 1 .. Len(s) : t[i] = s[i]  BY <1>2 DEF LacksChar
  <2> QED  BY <2>1, <1>3, SeqEqual
<1> QED  BY <1>3, <1>4, <1>5, <1>6, <1>7, <1>8 DEF t

\* The text after the first character of one.
LEMMA TailIs ==
  ASSUME NEW s \in Seq(Characters), s # << >>
  PROVE  /\ Tail(s) \in Seq(Characters)
         /\ NoDots(s) => NoDots(Tail(s))
         /\ \A d : LacksChar(d, s) => LacksChar(d, Tail(s))
<1>1. /\ Tail(s) \in Seq(Characters) /\ Len(Tail(s)) = Len(s) - 1 /\ Len(s) \in Nat /\ Len(s) >= 1
      /\ \A k \in 1 .. Len(s) - 1 : Tail(s)[k] = s[k + 1]
  OBVIOUS
<1>2. NoDots(s) => NoDots(Tail(s))
  <2> SUFFICES ASSUME NoDots(s), NEW k \in 1 .. Len(Tail(s)) - 1
               PROVE  ~(Tail(s)[k] = "." /\ Tail(s)[k + 1] = ".")
    BY DEF NoDots
  <2>1. k + 1 \in 1 .. Len(s) - 1 /\ k \in 1 .. Len(s) - 1  BY <1>1
  <2>2. Tail(s)[k] = s[k + 1] /\ Tail(s)[k + 1] = s[k + 1 + 1]  BY <1>1, <2>1
  <2> QED  BY <2>1, <2>2 DEF NoDots
<1>3. \A d : LacksChar(d, s) => LacksChar(d, Tail(s))
  <2>1. \A k \in 1 .. Len(s) - 1 : k + 1 \in 1 .. Len(s)  BY <1>1
  <2> QED  BY <1>1, <2>1 DEF LacksChar
<1> QED  BY <1>1, <1>2, <1>3

\* xbmk_sanitize_version fails or gives a clean text.
LEMMA SanitizeIs ==
  ASSUME NEW v \in Seq(Characters), v # << >>
  PROVE  /\ xbmk_sanitize_version(v) = Abort \/ CleanText(xbmk_sanitize_version(v))
         /\ CleanText(v) /\ v[1] # "-" => xbmk_sanitize_version(v) = v
<1> DEFINE a == Without("\t", v)
           b == Without(" ", a)
           c == NoDotDot(b)
           part == NoDotSlash(c)
           dashed == [i \in DOMAIN part |-> IF part[i] = "/" THEN "-" ELSE part[i]]
           clean == IF IsAt(dashed, 1, "-") THEN Tail(dashed) ELSE dashed
<1>1. xbmk_sanitize_version(v) = IF clean = << >> THEN Abort ELSE clean
  BY DEF xbmk_sanitize_version, Dashed, WithoutDash, Nonempty
<1>2. a \in Seq(Characters) /\ LacksChar("\t", a)  BY WithoutIs
<1>3. b \in Seq(Characters) /\ LacksChar(" ", b) /\ LacksChar("\t", b)
  <2> HIDE DEF a
  <2> QED  BY WithoutIs, <1>2
<1>4. c \in Seq(Characters) /\ LacksChar(" ", c) /\ LacksChar("\t", c) /\ NoDots(c)
  <2> HIDE DEF b
  <2> QED  BY NoDotDotIs, <1>3
<1>5. part \in Seq(Characters) /\ LacksChar(" ", part) /\ LacksChar("\t", part) /\ NoDots(part)
  <2> HIDE DEF c
  <2> QED  BY NoDotSlashIs, <1>4
<1>6. /\ dashed \in Seq(Characters) /\ LacksChar(" ", dashed) /\ LacksChar("\t", dashed)
      /\ LacksChar("/", dashed) /\ NoDots(dashed)
  <2> HIDE DEF part
  <2> QED  BY DashedIs, <1>5
<1>7. clean # << >> => CleanText(clean)
  <2> HIDE DEF dashed
  <2>1. IsAt(dashed, 1, "-") => dashed # << >>  BY DEF IsAt
  <2> QED  BY <1>6, <2>1, TailIs DEF CleanText
<1>8. ASSUME CleanText(v), v[1] # "-" PROVE clean = v
  <2>1. a = v  BY <1>8, WithoutIs DEF CleanText
  <2>2. b = v
    <3> HIDE DEF a
    <3> QED  BY <1>8, <2>1, WithoutIs DEF CleanText
  <2>3. c = v
    <3> HIDE DEF b
    <3> QED  BY <1>8, <2>2, NoDotDotIs DEF CleanText
  <2>4. part = v
    <3> HIDE DEF c
    <3> QED  BY <1>8, <2>3, NoDotSlashIs DEF CleanText
  <2>5. dashed = v
    <3> HIDE DEF part
    <3>1. LacksChar("/", part) => dashed = part  BY <1>5, DashedIs
    <3> QED  BY <1>8, <2>4, <3>1 DEF CleanText
  <2> HIDE DEF dashed
  <2> QED  BY <1>8, <2>5 DEF IsAt
<1> HIDE DEF clean
<1> QED  BY <1>1, <1>7, <1>8

\* A text that is trimmed is one, and the same if it has no blanks.
LEMMA TrimmedIs ==
  ASSUME NEW s \in Seq(Characters)
  PROVE  /\ Trimmed(s) \in Seq(Characters)
         /\ s # << >> /\ LacksChar(" ", s) /\ LacksChar("\t", s) => Trimmed(s) = s
<1> DEFINE marks == {i \in DOMAIN s : s[i] \notin {" ", "\t"}}
           n == Len(s)
<1>1. n \in Nat /\ DOMAIN s = 1 .. n  BY LenProperties
<1>2. Trimmed(s) = IF marks = {} THEN << >> ELSE SubSeq(s, Min(marks), Max(marks))
  BY DEF Trimmed
<1>3. marks \subseteq 1 .. n  BY <1>1
<1>4. marks # {} => Min(marks) \in 1 .. n /\ Max(marks) \in 1 .. n
  <2> HIDE DEF marks, n
  <2> SUFFICES ASSUME marks # {} PROVE Min(marks) \in marks /\ Max(marks) \in marks
    BY <1>3
  <2>1. marks \in SUBSET Nat /\ \A i \in marks : i <= n  BY <1>1, <1>3
  <2> QED  BY <1>1, <2>1, LeastOf, GreatestOf
<1>5. Trimmed(s) \in Seq(Characters)
  <2> HIDE DEF marks
  <2>1. CASE marks = {}  BY <2>1, <1>2, ShortText
  <2>2. CASE marks # {}
    <3> DEFINE a == Min(marks)
               b == Max(marks)
    <3>1. a \in 1 .. n /\ b \in 1 .. n /\ Trimmed(s) = SubSeq(s, a, b)  BY <2>2, <1>2, <1>4
    <3> HIDE DEF a, b
    <3>2. \A i \in a .. b : s[i] \in Characters  BY <3>1, <1>1
    <3>3. a \in Int /\ b \in Int  BY <3>1, <1>1
    <3>4. SubSeq(s, a, b) \in Seq(Characters)  BY <3>2, <3>3, SubSeqProperties
    <3> QED  BY <3>1, <3>4
  <2> QED  BY <2>1, <2>2
<1>6. ASSUME s # << >>, LacksChar(" ", s), LacksChar("\t", s) PROVE Trimmed(s) = s
  <2>1. marks = 1 .. n /\ n > 0
    <3>1. \A i \in 1 .. n : s[i] # " " /\ s[i] # "\t"  BY <1>6 DEF LacksChar
    <3>2. n # 0  BY <1>6, EmptySeq
    <3> HIDE DEF n
    <3>3. n > 0  BY <1>1, <3>2
    <3>4. \A i \in DOMAIN s : s[i] \notin {" ", "\t"}  BY <1>1, <3>1
    <3>5. marks = DOMAIN s  BY <3>4
    <3> QED  BY <1>1, <3>3, <3>5
  <2> HIDE DEF marks, n
  <2>2. Min(marks) = 1 /\ Max(marks) = n
    <3>1. Min(marks) \in marks /\ Max(marks) \in marks /\ \A i \in marks : Min(marks) <= i /\ i <= Max(marks)
      <4>1. marks \in SUBSET Nat /\ marks # {} /\ \A i \in marks : i <= n  BY <1>1, <2>1
      <4> QED  BY <1>1, <4>1, LeastOf, GreatestOf
    <3> QED  BY <1>1, <2>1, <3>1
  <2>3. Trimmed(s) = SubSeq(s, 1, n)  BY <1>1, <1>2, <2>1, <2>2
  <2> QED  BY <2>3 DEF n
<1> QED  BY <1>5, <1>6

\* read_file gives a text or fails.
LEMMA ReadIs ==
  ASSUME NEW f \in Texts \cup {None}
  PROVE  read_file(f) = Abort \/ read_file(f) \in Seq(Characters)
<1>1. CASE f = None  BY <1>1, ShortText DEF read_file
<1>2. CASE f \in Texts
  <2>1. Trimmed(f.text) \in Seq(Characters)  BY <1>2, TrimmedIs DEF Texts
  <2> QED  BY <2>1, ShortText DEF read_file
<1> QED  BY <1>1, <1>2

\* A version that is read from its file is clean or empty, or the script ends.
LEMMA HadIs ==
  ASSUME NEW x \in VersionSources
  PROVE  LET h == xbmk_get_version(x).version
         IN  h = Abort \/ h = << >> \/ CleanText(h)
<1>1. x.version \in Texts \cup {None} /\ x.versiondate \in Texts \cup {None}
  BY DEF VersionSources
<1> DEFINE v == read_file(x.version)
           d == read_file(x.versiondate)
<1>2. xbmk_get_version(x).version =
        IF Abort \in {v, d} THEN Abort
        ELSE IF x.git = "none" /\ x.version = None THEN <<"x">> ELSE xbmk_sanitize_version(v)
  BY DEF xbmk_get_version
<1>3. v = Abort \/ v \in Seq(Characters)  BY <1>1, ReadIs
<1> HIDE DEF v, d
<1>4. v \in Seq(Characters) =>
        v = << >> \/ xbmk_sanitize_version(v) = Abort \/ CleanText(xbmk_sanitize_version(v))
  BY SanitizeIs
<1>5. v = << >> => xbmk_sanitize_version(v) = << >>  BY DEF xbmk_sanitize_version
<1>6. CleanText(<<"x">>)
  <2> DEFINE w == <<"x">>
  <2>1. w \in Seq(Characters) /\ Len(w) = 1 /\ w[1] = "x" /\ w # << >>  BY ShortText
  <2> HIDE DEF w
  <2>2. \A k \in 1 .. Len(w) : w[k] = "x"  BY <2>1
  <2>3. NoDots(w)  BY <2>1 DEF NoDots
  <2>4. \A c : c # "x" => LacksChar(c, w)  BY <2>2 DEF LacksChar
  <2>5. "x" # " " /\ "x" # "\t" /\ "x" # "/"  OBVIOUS
  <2>6. CleanText(w)  BY <2>1, <2>3, <2>4, <2>5 DEF CleanText
  <2> QED  BY <2>6 DEF w
<1> QED  BY <1>2, <1>3, <1>4, <1>5, <1>6

\* So is the version that the parent has, and never empty.
LEMMA ParentIs ==
  ASSUME NEW x \in VersionSources
  PROVE  xbmk_set_version(x) = Abort \/ CleanText(xbmk_set_version(x))
<1> DEFINE h == xbmk_get_version(x).version
           v == CASE x.git = "tagged"   -> x.tag
                  [] x.git = "untagged" -> <<"x", "-", "x">>
                  [] OTHER              -> h
           d == IF x.git \in {"tagged", "untagged"} THEN <<"x">> ELSE xbmk_get_version(x).date
<1>1. xbmk_set_version(x) =
        IF h = Abort \/ v = << >> \/ d = << >> THEN Abort ELSE xbmk_sanitize_version(v)
  BY DEF xbmk_set_version
<1>2. h = Abort \/ h \in Seq(Characters)
  <2>1. h = Abort \/ h = << >> \/ CleanText(h)  BY HadIs
  <2> HIDE DEF h
  <2> QED  BY <2>1, ShortText DEF CleanText
<1> HIDE DEF h
<1>3. x.tag \in Seq(Characters)  BY DEF VersionSources
<1>4. <<"x", "-", "x">> \in Seq(Characters)  BY ShortText
<1>5. h # Abort => v \in Seq(Characters)
  <2>1. CASE x.git = "tagged"  BY <2>1, <1>3
  <2>2. CASE x.git = "untagged"  BY <2>2, <1>4
  <2>3. CASE x.git # "tagged" /\ x.git # "untagged"  BY <2>3, <1>2
  <2> QED  BY <2>1, <2>2, <2>3
<1> HIDE DEF v, d
<1> QED  BY <1>1, <1>5, SanitizeIs

\* A child has the version of its parent, but for a dash at the front.
LEMMA ChildIs ==
  ASSUME NEW x \in VersionSources, NEW v, CleanText(v), v[1] # "-"
  PROVE  xbmk_get_version([x EXCEPT !.version = [text |-> v, newline |-> TRUE],
           !.versiondate = [text |-> <<"x">>, newline |-> TRUE]]).version = v
<1> DEFINE f == [text |-> v, newline |-> TRUE]
           g == [text |-> <<"x">>, newline |-> TRUE]
           y == [x EXCEPT !.version = f, !.versiondate = g]
<1>1. v \in Seq(Characters) /\ v # << >>  BY DEF CleanText
<1>2. f \in Texts /\ g \in Texts
  <2>1. <<"x">> \in Seq(Characters)  BY ShortText
  <2> QED  BY <1>1, <2>1 DEF Texts
<1>3. f # None /\ g # None  BY <1>2, VersionAssumption
<1>4. read_file(f) = v
  <2>1. Trimmed(v) = v  BY <1>1, TrimmedIs DEF CleanText
  <2> QED  BY <1>1, <1>3, <2>1 DEF read_file
<1>5. read_file(g) = <<"x">>
  <2> DEFINE w == <<"x">>
  <2>1. w \in Seq(Characters) /\ Len(w) = 1 /\ w[1] = "x" /\ w # << >>  BY ShortText
  <2>2. g.text = w /\ g.newline = TRUE  OBVIOUS
  <2> HIDE DEF w, g
  <2>3. LacksChar(" ", w) /\ LacksChar("\t", w)
    <3>1. \A k \in 1 .. Len(w) : w[k] = "x"
      <4>1. \A k \in 1 .. Len(w) : k = 1  BY <2>1
      <4> QED  BY <2>1, <4>1
    <3> QED  BY <3>1 DEF LacksChar
  <2>4. Trimmed(w) = w  BY <2>1, <2>3, TrimmedIs
  <2> QED  BY <2>1, <2>2, <2>4, <1>3 DEF read_file, w
<1>6. y.version = f /\ y.versiondate = g  BY DEF VersionSources
<1>7. v # Abort /\ <<"x">> # Abort
  <2>1. <<"x">> \in Seq(Characters)  BY ShortText
  <2> QED  BY <1>1, <2>1, VersionAssumption
<1> HIDE DEF f, g, y
<1>8. xbmk_get_version(y).version = xbmk_sanitize_version(v)
  BY <1>3, <1>4, <1>5, <1>6, <1>7 DEF xbmk_get_version
<1>9. xbmk_sanitize_version(v) = v  BY <1>1, SanitizeIs
<1> QED  BY <1>8, <1>9 DEF y, f, g

\* xbmk_sanitize_version, xbmk_set_version: whatever the files and git say of the version,
\* the one that is used is a part of the name of a file, without spaces, slashes or two
\* dots in a row, and the children read the same from the file that it is written to.
LEMMA VersionsFit ==
  ASSUME NEW x \in VersionSources
  PROVE  VersionFits(x, Versions(x))
<1> DEFINE p == xbmk_set_version(x)
           c == Versions(x).child
<1>1. Versions(x).parent = p  BY DEF Versions
<1>2. SUFFICES ASSUME p # Abort
               PROVE  /\ {" ", "\t", "/"} \cap Range(p) = {}
                      /\ \A i \in 1 .. Len(p) - 1 : SubSeq(p, i, i + 1) # <<".", ".">>
                      /\ p # << >>
                      /\ p[1] # "-" => c = p
  <2> HIDE DEF p, c
  <2> QED  BY <1>1 DEF VersionFits, c
<1>3. CleanText(p)  BY <1>2, ParentIs
<1>4. p[1] # "-" => c = p
  <2>1. c = xbmk_get_version([x EXCEPT !.version = [text |-> p, newline |-> TRUE],
              !.versiondate = [text |-> <<"x">>, newline |-> TRUE]]).version
    BY <1>2 DEF Versions
  <2> HIDE DEF p, c
  <2> QED  BY <1>3, <2>1, ChildIs
<1> HIDE DEF p, c
<1>5. p \in Seq(Characters) /\ p # << >>  BY <1>3 DEF CleanText
<1>6. {" ", "\t", "/"} \cap Range(p) = {}
  <2>1. \A w \in Range(p) : \E k \in 1 .. Len(p) : w = p[k]  BY <1>5 DEF Range
  <2> QED  BY <2>1, <1>3 DEF CleanText, LacksChar
<1>7. ASSUME NEW i \in 1 .. Len(p) - 1 PROVE SubSeq(p, i, i + 1) # <<".", ".">>
  <2>1. ~(p[i] = "." /\ p[i + 1] = ".")  BY <1>3 DEF CleanText, NoDots
  <2>2. i \in Nat /\ i + 1 \in Nat /\ i >= 1 /\ i + 1 <= Len(p) /\ Len(p) \in Nat  BY <1>5
  <2>3. SubSeq(p, i, i + 1)[1] = p[i]  BY <2>2, <1>5
  <2>4. SubSeq(p, i, i + 1)[2] = p[i + 1]  BY <2>2, <1>5
  <2>5. \A a : <<a, a>>[1] = a /\ <<a, a>>[2] = a  OBVIOUS
  <2>6. <<".", ".">>[1] = "." /\ <<".", ".">>[2] = "."  BY <2>5
  <2> QED  BY <2>1, <2>3, <2>4, <2>6
<1> QED  BY <1>4, <1>5, <1>6, <1>7

----------------------------------------------------------------------------
(* The environment, the python and the shell for the pico. *)

\* What a program passes on to a child is what the child makes of it.
LEMMA InheritedFits ==
  ASSUME NEW x \in Environments
  PROVE  InheritedAsItIs(x, Environment(x))
<1> DEFINE e == xbmk_parent_set_export(x)
           got == Environment(x)
<1>1. got = IF e = Abort THEN Abort ELSE xbmk_set_threads(xbmk_set_mirror(e))
  BY DEF Environment
<1>2. SUFFICES ASSUME got # Abort
               PROVE  /\ xbmk_child_set_env(got) = got /\ Environment(got) = got
                      /\ got.XBMK_RELEASE = "y" => x.XBMK_RELEASE \in {"y", "Y"}
                      /\ got.XBMK_CACHE_MIRROR = "y" => x.XBMK_CACHE_MIRROR = "y"
  BY DEF InheritedAsItIs
<1>3. x.cache # "file"  BY <1>1, <1>2 DEF xbmk_parent_set_export
<1> DEFINE r == IF x.XBMK_RELEASE \in {"y", "Y"} THEN "y" ELSE "n"
           m == IF x.XBMK_CACHE_MIRROR = "y" THEN "y" ELSE "n"
           t == IF x.XBMK_THREADS \in {"number", "-number"} THEN x.XBMK_THREADS ELSE "number"
           v == [cache |-> x.cache, XBMK_RELEASE |-> r, XBMK_CACHE_MIRROR |-> m, XBMK_THREADS |-> t]
<1>4. got = v
  <2>1. e = [x EXCEPT !.XBMK_RELEASE = r]  BY <1>3 DEF xbmk_parent_set_export
  <2>2. got = xbmk_set_threads(xbmk_set_mirror(e))  BY <1>1, <1>2
  <2>3. xbmk_set_mirror(e) = [e EXCEPT !.XBMK_CACHE_MIRROR = m]
    BY <2>1 DEF xbmk_set_mirror, Environments
  <2>4. got = [xbmk_set_mirror(e) EXCEPT !.XBMK_THREADS = t]
    BY <2>1, <2>2, <2>3 DEF xbmk_set_threads, Environments
  <2> QED  BY <2>1, <2>3, <2>4 DEF Environments
<1>5. r \in {"y", "n"} /\ m \in {"y", "n"} /\ t \in {"number", "-number"}  OBVIOUS
<1>6. (r = "y" => x.XBMK_RELEASE \in {"y", "Y"}) /\ (m = "y" => x.XBMK_CACHE_MIRROR = "y")  OBVIOUS
<1> HIDE DEF r, m, t
<1>7. xbmk_parent_set_export(v) = v  BY <1>3, <1>5 DEF xbmk_parent_set_export
<1>8. xbmk_set_mirror(v) = v  BY <1>5 DEF xbmk_set_mirror
<1>9. xbmk_set_threads(v) = v  BY <1>5 DEF xbmk_set_threads
<1>10. xbmk_child_set_env(v) = v
  <2>1. v.XBMK_THREADS # "unset" /\ v.XBMK_CACHE_MIRROR # "unset"  BY <1>5
  <2> QED  BY <2>1 DEF xbmk_child_set_env
<1>11. v.XBMK_RELEASE = r /\ v.XBMK_CACHE_MIRROR = m  OBVIOUS
<1> HIDE DEF v, got
<1>12. Environment(v) = v  BY <1>2, <1>4, <1>7, <1>8, <1>9 DEF Environment
<1> QED  BY <1>4, <1>6, <1>10, <1>11, <1>12

\* The python that is chosen runs, is a python 3 and of no venv; and one is, if python3 is so.
LEMMA PythonsFit ==
  ASSUME NEW x \in [{"python3", "python"} -> Pythons]
  PROVE  PythonFits(x, xbmk_set_pyver(x))
<1>1. \A f \in Interpreters(BOOLEAN) : f # Refused /\ f # Abort  BY PythonAssumption
<1>2. ASSUME NEW m \in Pythons
      PROVE  /\ pybin(m) # Refused => pybin(m) \in Interpreters(BOOLEAN) /\ Runs(pybin(m)) /\ ~pybin(m).venv
             /\ Runs(m.path) /\ ~m.path.venv => pybin(m) = m.path
  <2>1. /\ m.path \in Interpreters(BOOLEAN) /\ m.target \in Interpreters({FALSE})
        /\ m.local \in Interpreters({FALSE}) /\ m.usr \in Interpreters({FALSE})
    BY DEF Pythons
  <2>2. \A f \in Interpreters({FALSE}) : f \in Interpreters(BOOLEAN) /\ (Runs(f) => ~f.venv)
    BY DEF Interpreters, Runs
  <2> QED  BY <2>1, <2>2 DEF pybin
<1>3. x["python3"] \in Pythons /\ x["python"] \in Pythons  OBVIOUS
<1> DEFINE cmd == IF pybin(x["python3"]) # Refused THEN "python3" ELSE "python"
           py   == pybin(x[cmd])
           got == xbmk_set_pyver(x)
           p == x["python3"].path
<1>4. got = IF py = Refused \/ py.major # 3 THEN Abort ELSE py  BY DEF xbmk_set_pyver
<1>5. x[cmd] \in Pythons  BY <1>3
<1>6. got # Abort => Runs(got) /\ got.major = 3 /\ ~got.venv
  <2> HIDE DEF cmd
  <2> QED  BY <1>2, <1>4, <1>5
<1>7. ASSUME got = Abort, Runs(p) /\ p.major = 3 /\ ~p.venv PROVE FALSE
  <2>1. p \in Interpreters(BOOLEAN)  BY <1>3 DEF Pythons
  <2>2. pybin(x["python3"]) = p /\ p # Refused /\ p # Abort  BY <1>1, <1>2, <1>3, <1>7, <2>1
  <2>3. py = p  BY <2>2
  <2> HIDE DEF py, p
  <2> QED  BY <1>4, <1>7, <2>2, <2>3
<1> HIDE DEF got
<1> QED  BY <1>6, <1>7 DEF PythonFits, got

\* The pico's compiler is first in PATH when its shell is ready, and nothing of PATH is lost.
LEMMA PicoIs ==
  ASSUME NEW x \in Shells
  PROVE  PicoFirst(x, init_pico(x))
<1> DEFINE dirs == IF "pico" \in Range(x.path) THEN x.path ELSE <<"pico">> \o x.path
           there == x.environment /\ x.gcc = "runs" /\ x.gxx /\ x.arm
           got == init_pico(x)
<1>1. got = IF ~x.sourced THEN [ok |-> FALSE, path |-> x.path, built |-> x.built]
              ELSE IF ~there THEN [ok |-> FALSE, path |-> x.path, built |-> FALSE]
              ELSE [ok |-> dirs[1] = "pico", path |-> dirs, built |-> FALSE]
  BY DEF init_pico
<1>2. x.path \in Seq(STRING)  BY DEF Shells
<1>3. Range(x.path) \subseteq Range(dirs)
  <2>1. ASSUME NEW S, NEW s \in Seq(S), NEW a PROVE Range(s) \subseteq Range(<<a>> \o s)
    <3>1. /\ Len(<<a>> \o s) = Len(s) + 1 /\ DOMAIN s = 1 .. Len(s) /\ Len(s) \in Nat
          /\ DOMAIN (<<a>> \o s) = 1 .. Len(s) + 1
          /\ \A i \in 1 .. Len(s) : (<<a>> \o s)[i + 1] = s[i] /\ i + 1 \in 1 .. Len(s) + 1
      <4>1. s \in Seq(S \cup {a}) /\ <<a>> \in Seq(S \cup {a})  OBVIOUS
      <4> QED  BY <4>1
    <3> QED  BY <3>1 DEF Range
  <2> QED  BY <1>2, <2>1
<1> HIDE DEF dirs, there
<1>4. CASE ~x.sourced
  <2>1. got = [ok |-> FALSE, path |-> x.path, built |-> x.built]  BY <1>1, <1>4
  <2> QED  BY <1>4, <2>1 DEF PicoFirst
<1>5. CASE x.sourced /\ ~there
  <2>1. got = [ok |-> FALSE, path |-> x.path, built |-> FALSE]  BY <1>1, <1>5
  <2> QED  BY <2>1 DEF PicoFirst
<1>6. CASE x.sourced /\ there
  <2>1. got = [ok |-> dirs[1] = "pico", path |-> dirs, built |-> FALSE]  BY <1>1, <1>6
  <2>2. got.path = dirs /\ ~got.built  BY <2>1
  <2>3. dirs[1] # "pico" => got = [ok |-> FALSE, path |-> dirs, built |-> FALSE]  BY <2>1
  <2>4. got.ok => dirs[1] = "pico"  BY <2>3
  <2> QED  BY <1>3, <2>2, <2>4 DEF PicoFirst
<1> QED  BY <1>4, <1>5, <1>6

----------------------------------------------------------------------------
(* The scripts for Guix: a system after each section, each run, and all runs. *)

\* What is built, and GRUB's configuration, are of the directory that is written down;
\* and so they are when cfg and state are.
PlacedAs(m, cfg, state) ==
    /\ state = "" => cfg = "" /\ m.trees = "" /\ m.xgcc = "" /\ ~m.marker
    /\ state # "" => /\ cfg = state /\ m.trees \in {"", state} /\ m.xgcc \in {"", state}
                     /\ m.marker => m.xgcc # ""

Placed(m) == PlacedAs(m, m.cfg, m.state)

\* The parts of a system of which each is as the script needs it, if no run was killed
\* in some sections.
FilesFit(m, killed) ==
    /\ m.gnat # "torn" \/ "gnat" \in killed
    /\ m.font # "torn" \/ "font" \in killed

CompilerFits(m, killed) ==
    /\ m.gnat # "none" => m.real \/ m.gcc = "elf" \/ "gnat" \in killed
    /\ m.bin # "none" =>
         /\ m.gnat # "none" /\ m.interp # 0
         /\ (m.real /\ m.gcc = "wrapper" /\ m.bin = "wrapper") \/ "wrap" \in killed \/ "gnat" \in killed

\* A system that a run can start from.
SystemFits(m, killed) ==
           /\ m \in Systems /\ FilesFit(m, killed) /\ CompilerFits(m, killed)
           /\ Placed(m) \/ "moved" \in killed

\* What holds after the first k sections of a run.
ReachedBy(k, r, m) ==
    /\ k >= 2 => m.gnat # "none"
    /\ k >= 4 => m.interp = r.glibc /\ m.tools = r.glibc
    /\ k >= 6 => m.real
    /\ k >= 7 => m.gcc = "wrapper" /\ m.ld = r.glibc
    /\ k >= 8 => m.bin = "wrapper"
    /\ k >= 9 => m.gnats
    /\ k >= 10 => Alive(r, m.sbase)
    /\ k >= 11 => m.font # "none"

PlacedAfter(k, r, m) ==
    IF k < 12 THEN Placed(m)
    ELSE IF k = 12 THEN /\ m.state = "" => m.cfg = r.pwd
                        /\ PlacedAs(m, IF m.state = "" THEN "" ELSE m.cfg, m.state)
    ELSE IF k = 13 THEN PlacedAs(m, m.cfg, r.pwd)
    ELSE m.state = r.pwd /\ Placed(m)

SystemAfter(k, r, m, killed) ==
    /\ m \in Systems /\ FilesFit(m, killed) /\ CompilerFits(m, killed) /\ ReachedBy(k, r, m)
    /\ PlacedAfter(k, r, m) \/ "moved" \in killed

\* The sections of the script.
LEMMA SectionsAre ==
  /\ Sections[1] = "python" /\ Sections[2] = "gnat" /\ Sections[3] = "glibc"
  /\ Sections[4] = "interp" /\ Sections[5] = "guix" /\ Sections[6] = "keep"
  /\ Sections[7] = "wrap" /\ Sections[8] = "gcc" /\ Sections[9] = "gnats"
  /\ Sections[10] = "sbase" /\ Sections[11] = "font" /\ Sections[12] = "cfg"
  /\ Sections[13] = "moved" /\ Sections[14] = "state" /\ Sections[15] = "shell"
  /\ Len(Sections) = 15 /\ DOMAIN Sections = 1 .. 15
  BY DEF Sections

\* What each section does.
LEMMA SectionIs ==
  ASSUME NEW r, NEW m
  PROVE  /\ Section("python", r, m) = python(m)
         /\ Section("gnat", r, m) = gnat(r, m)
         /\ Section("glibc", r, m) = glibc(r, m)
         /\ Section("interp", r, m) = patch_elf_interp(r, m)
         /\ Section("guix", r, m) = find_guix_gcc(r, m)
         /\ Section("keep", r, m) = keep_gcc(m)
         /\ Section("wrap", r, m) = wrap_gcc(r, m)
         /\ Section("gcc", r, m) = bin_gcc(m)
         /\ Section("gnats", r, m) = wrap_gnats(m)
         /\ Section("sbase", r, m) = sbase(r, m)
         /\ Section("font", r, m) = unifont(r, m)
         /\ Section("cfg", r, m) = grub_cfg(r, m)
         /\ Section("moved", r, m) = clean_moved(r, m)
         /\ Section("state", r, m) = init_state(r, m)
         /\ Section("shell", r, m) = shell(m)
  BY DEF Section

\* Systems that are the same in some parts.
SameFiles(m, d) == d.gnat = m.gnat /\ d.font = m.font

SameCompiler(m, d) ==
    d.gnat = m.gnat /\ d.gcc = m.gcc /\ d.real = m.real /\ d.interp = m.interp /\ d.bin = m.bin

SamePlaces(m, d) ==
    d.cfg = m.cfg /\ d.state = m.state /\ d.trees = m.trees /\ d.xgcc = m.xgcc /\ d.marker = m.marker

SameRest(m, d) == d.ld = m.ld /\ d.gnats = m.gnats /\ d.sbase = m.sbase /\ d.tools = m.tools

\* PlacedAfter at each section.
LEMMA PlacesIs ==
  ASSUME NEW r, NEW m
  PROVE  PlacedAfter(12, r, m) <=> /\ m.state = "" => m.cfg = r.pwd
                                   /\ PlacedAs(m, IF m.state = "" THEN "" ELSE m.cfg, m.state)
<1> DEFINE c == IF m.state = "" THEN "" ELSE m.cfg
           B == (m.state = "" => m.cfg = r.pwd) /\ PlacedAs(m, c, m.state)
<1>1. PlacedAfter(12, r, m) = IF 12 < 12 THEN Placed(m) ELSE IF 12 = 12 THEN B
         ELSE IF 12 = 13 THEN PlacedAs(m, m.cfg, r.pwd) ELSE m.state = r.pwd /\ Placed(m)
  BY DEF PlacedAfter
<1> HIDE DEF B
<1>2. ~(12 < 12)  OBVIOUS
<1>3. PlacedAfter(12, r, m) <=> B  BY <1>1, <1>2
<1> QED  BY <1>3 DEF B

\* What is built stays placed in a system with the same places.
LEMMA PlacesKept ==
  ASSUME NEW r, NEW m \in Systems, NEW d \in Systems, SamePlaces(m, d),
         NEW k \in (1 .. 15) \ {12, 13, 14}, PlacedAfter(k - 1, r, m)
  PROVE  PlacedAfter(k, r, d)
<1>1. d.marker = m.marker /\ d.marker \in BOOLEAN /\ m.marker \in BOOLEAN
  BY DEF SamePlaces, Systems
<1>2. Placed(m) => Placed(d)  BY <1>1 DEF Placed, PlacedAs, SamePlaces
<1>3. CASE k < 12
  <2>1. k - 1 < 12  BY <1>3
  <2> QED  BY <1>2, <1>3, <2>1 DEF PlacedAfter
<1>4. CASE k = 15
  <2>1. ~(14 < 12) /\ 14 # 12 /\ 14 # 13 /\ ~(15 < 12) /\ 15 # 12 /\ 15 # 13 /\ k - 1 = 14  BY <1>4
  <2>2. m.state = r.pwd /\ Placed(m)  BY <2>1 DEF PlacedAfter
  <2>3. d.state = r.pwd /\ Placed(d)  BY <1>2, <2>2 DEF SamePlaces
  <2> QED  BY <1>4, <2>1, <2>3 DEF PlacedAfter
<1> QED  BY <1>3, <1>4

\* So does the compiler.
LEMMA CompilerKept ==
  ASSUME NEW m \in Systems, NEW d \in Systems, SameCompiler(m, d), NEW killed, CompilerFits(m, killed)
  PROVE  CompilerFits(d, killed)
<1>1. d.real = m.real /\ d.real \in BOOLEAN /\ m.real \in BOOLEAN  BY DEF SameCompiler, Systems
<1> QED  BY <1>1 DEF SameCompiler, CompilerFits

\* And the files.
LEMMA FilesKept ==
  ASSUME NEW m, NEW d, SameFiles(m, d), NEW killed, FilesFit(m, killed)
  PROVE  FilesFit(d, killed)
  BY DEF SameFiles, FilesFit

\* Each section leads from what holds before it to what holds after.
LEMMA StepKeeps ==
  ASSUME NEW r \in ScriptRuns, NEW k \in 1 .. 15, NEW m, NEW killed, SystemAfter(k - 1, r, m, killed)
  PROVE  Section(Sections[k], r, m) = Abort \/ SystemAfter(k, r, Section(Sections[k], r, m), killed)
<1> DEFINE d == Section(Sections[k], r, m)
<1>0. r.pwd \in Homes /\ r.pwd # "" /\ r.glibc \in Nat /\ r.glibc # 0 /\ r.glibc \notin r.collected
      /\ "" \in Homes
  BY DEF ScriptRuns, Homes
<1>m. m \in Systems /\ FilesFit(m, killed) /\ CompilerFits(m, killed)  BY DEF SystemAfter
<1>p. PlacedAfter(k - 1, r, m) \/ "moved" \in killed  BY DEF SystemAfter
<1>1. ASSUME k = 1, d # Abort PROVE SystemAfter(k, r, d, killed)
  <2>1. d = python(m)  BY <1>1, SectionsAre, SectionIs
  <2>2. ReachedBy(0, r, m)  BY <1>1 DEF SystemAfter
  <2> HIDE DEF d
  <2>3. d \in Systems  BY <1>0, <1>m, <1>1, <2>1 DEF python, Systems
  <2>4. SameFiles(m, d)
    BY <1>0, <1>m, <1>1, <2>1 DEF python, Systems, SameFiles
  <2>5. SameCompiler(m, d)
    BY <1>0, <1>m, <1>1, <2>1 DEF python, Systems, SameCompiler
  <2>6. SamePlaces(m, d)
    BY <1>0, <1>m, <1>1, <2>1 DEF python, Systems, SamePlaces
  <2>7. SameRest(m, d)
    BY <1>0, <1>m, <1>1, <2>1 DEF python, Systems, SameRest
  <2>8. FilesFit(d, killed)  BY <1>0, <1>m, <2>4, FilesKept
  <2>9. CompilerFits(d, killed)  BY <1>0, <1>m, <2>3, <2>5, CompilerKept
  <2>10. PlacedAfter(k, r, d) \/ "moved" \in killed
    <3>1. k \in (1 .. 15) \ {12, 13, 14}  BY <1>1
    <3> QED  BY <1>m, <1>p, <2>3, <2>6, <3>1, PlacesKept
  <2>11. ReachedBy(1, r, d)
    BY <2>2, <2>3, <2>4, <2>5, <2>6, <2>7 DEF ReachedBy, SameFiles, SameCompiler, SameRest, Systems
  <2> QED  BY <1>1, <2>3, <2>8, <2>9, <2>10, <2>11 DEF SystemAfter
<1>2. ASSUME k = 2, d # Abort PROVE SystemAfter(k, r, d, killed)
  <2>1. d = gnat(r, m)  BY <1>2, SectionsAre, SectionIs
  <2>2. ReachedBy(1, r, m)  BY <1>2 DEF SystemAfter
  <2>3. \/ d = m /\ m.gnat # "none"
        \/ /\ m.gnat = "none"
           /\ d = [m EXCEPT !.gnat = "whole", !.gcc = "elf", !.real = FALSE, !.interp = 0]
    BY <1>2, <2>1 DEF gnat
  <2> HIDE DEF d
  <2>4. CASE d = m /\ m.gnat # "none"
    <3>1. PlacedAfter(k, r, m) \/ "moved" \in killed
      <4>1. SamePlaces(m, m)  BY DEF SamePlaces
      <4>2. k \in (1 .. 15) \ {12, 13, 14}  BY <1>2
      <4> QED  BY <1>m, <1>p, <4>1, <4>2, PlacesKept
    <3>2. ReachedBy(2, r, m)  BY <2>4 DEF ReachedBy
    <3> QED  BY <1>0, <1>m, <1>2, <2>4, <3>1, <3>2 DEF SystemAfter
  <2>5. CASE /\ m.gnat = "none"
             /\ d = [m EXCEPT !.gnat = "whole", !.gcc = "elf", !.real = FALSE, !.interp = 0]
    <3>1. d \in Systems  BY <1>0, <1>m, <2>5 DEF Systems
    <3>2. /\ d.gnat = "whole" /\ d.gcc = "elf" /\ d.bin = m.bin /\ d.font = m.font
          /\ SamePlaces(m, d)
      BY <1>0, <1>m, <2>5 DEF Systems, SamePlaces
    <3>3. FilesFit(d, killed)  BY <1>m, <3>2 DEF FilesFit
    <3>4. CompilerFits(d, killed)  BY <1>0, <1>m, <2>5, <3>2 DEF CompilerFits
    <3>5. PlacedAfter(k, r, d) \/ "moved" \in killed
      <4>1. k \in (1 .. 15) \ {12, 13, 14}  BY <1>2
      <4> QED  BY <1>m, <1>p, <3>1, <3>2, <4>1, PlacesKept
    <3>6. ReachedBy(2, r, d)  BY <3>2 DEF ReachedBy
    <3> QED  BY <1>2, <3>1, <3>3, <3>4, <3>5, <3>6 DEF SystemAfter
  <2> QED  BY <2>3, <2>4, <2>5
<1>3. ASSUME k = 3, d # Abort PROVE SystemAfter(k, r, d, killed)
  <2>1. d = glibc(r, m)  BY <1>3, SectionsAre, SectionIs
  <2>2. ReachedBy(2, r, m)  BY <1>3 DEF SystemAfter
  <2> HIDE DEF d
  <2>3. d \in Systems  BY <1>0, <1>m, <1>3, <2>1 DEF glibc, Systems
  <2>4. SameFiles(m, d)
    BY <1>0, <1>m, <1>3, <2>1 DEF glibc, Systems, SameFiles
  <2>5. SameCompiler(m, d)
    BY <1>0, <1>m, <1>3, <2>1 DEF glibc, Systems, SameCompiler
  <2>6. SamePlaces(m, d)
    BY <1>0, <1>m, <1>3, <2>1 DEF glibc, Systems, SamePlaces
  <2>7. SameRest(m, d)
    BY <1>0, <1>m, <1>3, <2>1 DEF glibc, Systems, SameRest
  <2>8. FilesFit(d, killed)  BY <1>0, <1>m, <2>4, FilesKept
  <2>9. CompilerFits(d, killed)  BY <1>0, <1>m, <2>3, <2>5, CompilerKept
  <2>10. PlacedAfter(k, r, d) \/ "moved" \in killed
    <3>1. k \in (1 .. 15) \ {12, 13, 14}  BY <1>3
    <3> QED  BY <1>m, <1>p, <2>3, <2>6, <3>1, PlacesKept
  <2>11. ReachedBy(3, r, d)
    BY <2>2, <2>3, <2>4, <2>5, <2>6, <2>7 DEF ReachedBy, SameFiles, SameCompiler, SameRest, Systems
  <2> QED  BY <1>3, <2>3, <2>8, <2>9, <2>10, <2>11 DEF SystemAfter
<1>4. ASSUME k = 4, d # Abort PROVE SystemAfter(k, r, d, killed)
  <2>1. d = patch_elf_interp(r, m)  BY <1>4, SectionsAre, SectionIs
  <2>2. ReachedBy(3, r, m)  BY <1>4 DEF SystemAfter
  <2> HIDE DEF d
  <2>3. d \in Systems  BY <1>0, <1>m, <1>4, <2>1 DEF patch_elf_interp, Systems
  <2>4. SameFiles(m, d)
    BY <1>0, <1>m, <1>4, <2>1 DEF patch_elf_interp, Systems, SameFiles
  <2>5. d.gnat = m.gnat /\ d.gcc = m.gcc /\ d.real = m.real /\ d.bin = m.bin
    BY <1>0, <1>m, <1>4, <2>1 DEF patch_elf_interp, Systems
  <2>6. SamePlaces(m, d)
    BY <1>0, <1>m, <1>4, <2>1 DEF patch_elf_interp, Systems, SamePlaces
  <2>7. d.interp = r.glibc /\ d.tools = r.glibc
    BY <1>0, <1>m, <1>4, <2>1 DEF patch_elf_interp, Systems
  <2>8. FilesFit(d, killed)  BY <1>0, <1>m, <2>4, FilesKept
  <2>9. CompilerFits(d, killed)
    BY <1>0, <1>m, <2>2, <2>3, <2>4, <2>5, <2>6, <2>7 DEF CompilerFits, ReachedBy, Systems
  <2>10. PlacedAfter(k, r, d) \/ "moved" \in killed
    <3>1. k \in (1 .. 15) \ {12, 13, 14}  BY <1>4
    <3> QED  BY <1>m, <1>p, <2>3, <2>6, <3>1, PlacesKept
  <2>11. ReachedBy(4, r, d)
    BY <2>2, <2>3, <2>4, <2>5, <2>6, <2>7 DEF ReachedBy, SameFiles, SameCompiler, SameRest, Systems
  <2> QED  BY <1>4, <2>3, <2>8, <2>9, <2>10, <2>11 DEF SystemAfter
<1>5. ASSUME k = 5, d # Abort PROVE SystemAfter(k, r, d, killed)
  <2>1. d = find_guix_gcc(r, m)  BY <1>5, SectionsAre, SectionIs
  <2>2. ReachedBy(4, r, m)  BY <1>5 DEF SystemAfter
  <2> HIDE DEF d
  <2>3. d \in Systems  BY <1>0, <1>m, <1>5, <2>1 DEF find_guix_gcc, Systems
  <2>4. SameFiles(m, d)
    BY <1>0, <1>m, <1>5, <2>1 DEF find_guix_gcc, Systems, SameFiles
  <2>5. SameCompiler(m, d)
    BY <1>0, <1>m, <1>5, <2>1 DEF find_guix_gcc, Systems, SameCompiler
  <2>6. SamePlaces(m, d)
    BY <1>0, <1>m, <1>5, <2>1 DEF find_guix_gcc, Systems, SamePlaces
  <2>7. SameRest(m, d)
    BY <1>0, <1>m, <1>5, <2>1 DEF find_guix_gcc, Systems, SameRest
  <2>8. FilesFit(d, killed)  BY <1>0, <1>m, <2>4, FilesKept
  <2>9. CompilerFits(d, killed)  BY <1>0, <1>m, <2>3, <2>5, CompilerKept
  <2>10. PlacedAfter(k, r, d) \/ "moved" \in killed
    <3>1. k \in (1 .. 15) \ {12, 13, 14}  BY <1>5
    <3> QED  BY <1>m, <1>p, <2>3, <2>6, <3>1, PlacesKept
  <2>11. ReachedBy(5, r, d)
    BY <2>2, <2>3, <2>4, <2>5, <2>6, <2>7 DEF ReachedBy, SameFiles, SameCompiler, SameRest, Systems
  <2> QED  BY <1>5, <2>3, <2>8, <2>9, <2>10, <2>11 DEF SystemAfter
<1>6. ASSUME k = 6, d # Abort PROVE SystemAfter(k, r, d, killed)
  <2>1. d = keep_gcc(m)  BY <1>6, SectionsAre, SectionIs
  <2>2. ReachedBy(5, r, m)  BY <1>6 DEF SystemAfter
  <2> HIDE DEF d
  <2>3. d \in Systems  BY <1>0, <1>m, <1>6, <2>1 DEF keep_gcc, Systems
  <2>4. SameFiles(m, d)
    BY <1>0, <1>m, <1>6, <2>1 DEF keep_gcc, Systems, SameFiles
  <2>5. d.gnat = m.gnat /\ d.interp = m.interp /\ d.bin = m.bin
    BY <1>0, <1>m, <1>6, <2>1 DEF keep_gcc, Systems
  <2>6. SamePlaces(m, d)
    BY <1>0, <1>m, <1>6, <2>1 DEF keep_gcc, Systems, SamePlaces
  <2>7. SameRest(m, d)
    BY <1>0, <1>m, <1>6, <2>1 DEF keep_gcc, Systems, SameRest
  <2>8. d.real /\ (m.real => d.gcc = m.gcc)
    BY <1>0, <1>m, <1>6, <2>1 DEF keep_gcc, Systems
  <2>9. FilesFit(d, killed)  BY <1>0, <1>m, <2>4, FilesKept
  <2>10. CompilerFits(d, killed)
    BY <1>0, <1>m, <2>2, <2>3, <2>4, <2>5, <2>6, <2>7, <2>8 DEF CompilerFits, ReachedBy, Systems
  <2>11. PlacedAfter(k, r, d) \/ "moved" \in killed
    <3>1. k \in (1 .. 15) \ {12, 13, 14}  BY <1>6
    <3> QED  BY <1>m, <1>p, <2>3, <2>6, <3>1, PlacesKept
  <2>12. ReachedBy(6, r, d)
    BY <2>2, <2>3, <2>4, <2>5, <2>6, <2>7, <2>8 DEF ReachedBy, SameFiles, SameCompiler, SameRest, Systems
  <2> QED  BY <1>6, <2>3, <2>9, <2>10, <2>11, <2>12 DEF SystemAfter
<1>7. ASSUME k = 7, d # Abort PROVE SystemAfter(k, r, d, killed)
  <2>1. d = wrap_gcc(r, m)  BY <1>7, SectionsAre, SectionIs
  <2>2. ReachedBy(6, r, m)  BY <1>7 DEF SystemAfter
  <2> HIDE DEF d
  <2>3. d \in Systems  BY <1>0, <1>m, <1>7, <2>1 DEF wrap_gcc, Systems
  <2>4. SameFiles(m, d)
    BY <1>0, <1>m, <1>7, <2>1 DEF wrap_gcc, Systems, SameFiles
  <2>5. d.gnat = m.gnat /\ d.interp = m.interp /\ d.bin = m.bin /\ d.real = m.real
    BY <1>0, <1>m, <1>7, <2>1 DEF wrap_gcc, Systems
  <2>6. SamePlaces(m, d)
    BY <1>0, <1>m, <1>7, <2>1 DEF wrap_gcc, Systems, SamePlaces
  <2>7. d.gcc = "wrapper" /\ d.ld = r.glibc /\ d.tools = m.tools
    BY <1>0, <1>m, <1>7, <2>1 DEF wrap_gcc, Systems
  <2>8. FilesFit(d, killed)  BY <1>0, <1>m, <2>4, FilesKept
  <2>9. CompilerFits(d, killed)
    <3>1. m.real  BY <2>2 DEF ReachedBy
    <3>2. d.real  BY <3>1, <2>5
    <3>3. m.bin # "none" => /\ m.gnat # "none" /\ m.interp # 0
                            /\ m.bin = "wrapper" \/ "wrap" \in killed \/ "gnat" \in killed
      BY <1>m DEF CompilerFits
    <3> QED  BY <2>5, <2>7, <3>2, <3>3 DEF CompilerFits
  <2>10. PlacedAfter(k, r, d) \/ "moved" \in killed
    <3>1. k \in (1 .. 15) \ {12, 13, 14}  BY <1>7
    <3> QED  BY <1>m, <1>p, <2>3, <2>6, <3>1, PlacesKept
  <2>11. ReachedBy(7, r, d)
    BY <2>2, <2>3, <2>4, <2>5, <2>6, <2>7 DEF ReachedBy, SameFiles, SameCompiler, SameRest, Systems
  <2> QED  BY <1>7, <2>3, <2>8, <2>9, <2>10, <2>11 DEF SystemAfter
<1>8. ASSUME k = 8, d # Abort PROVE SystemAfter(k, r, d, killed)
  <2>1. d = bin_gcc(m)  BY <1>8, SectionsAre, SectionIs
  <2>2. ReachedBy(7, r, m)  BY <1>8 DEF SystemAfter
  <2> HIDE DEF d
  <2>3. d \in Systems  BY <1>0, <1>m, <1>8, <2>1 DEF bin_gcc, Systems
  <2>4. SameFiles(m, d)
    BY <1>0, <1>m, <1>8, <2>1 DEF bin_gcc, Systems, SameFiles
  <2>5. d.gnat = m.gnat /\ d.gcc = m.gcc /\ d.interp = m.interp /\ d.real = m.real
    BY <1>0, <1>m, <1>8, <2>1 DEF bin_gcc, Systems
  <2>6. SamePlaces(m, d)
    BY <1>0, <1>m, <1>8, <2>1 DEF bin_gcc, Systems, SamePlaces
  <2>7. SameRest(m, d)
    BY <1>0, <1>m, <1>8, <2>1 DEF bin_gcc, Systems, SameRest
  <2>8. d.bin = "wrapper"
    BY <1>0, <1>m, <1>8, <2>1 DEF bin_gcc, Systems
  <2>9. FilesFit(d, killed)  BY <1>0, <1>m, <2>4, FilesKept
  <2>10. CompilerFits(d, killed)
    <3>1. m.gnat # "none" /\ m.interp = r.glibc /\ m.real /\ m.gcc = "wrapper"
      BY <2>2 DEF ReachedBy
    <3>2. d.gnat # "none" /\ d.interp # 0 /\ d.real /\ d.gcc = "wrapper"  BY <1>0, <2>5, <3>1
    <3> QED  BY <2>8, <3>2 DEF CompilerFits
  <2>11. PlacedAfter(k, r, d) \/ "moved" \in killed
    <3>1. k \in (1 .. 15) \ {12, 13, 14}  BY <1>8
    <3> QED  BY <1>m, <1>p, <2>3, <2>6, <3>1, PlacesKept
  <2>12. ReachedBy(8, r, d)
    BY <2>2, <2>3, <2>4, <2>5, <2>6, <2>7, <2>8 DEF ReachedBy, SameFiles, SameCompiler, SameRest, Systems
  <2> QED  BY <1>8, <2>3, <2>9, <2>10, <2>11, <2>12 DEF SystemAfter
<1>9. ASSUME k = 9, d # Abort PROVE SystemAfter(k, r, d, killed)
  <2>1. d = wrap_gnats(m)  BY <1>9, SectionsAre, SectionIs
  <2>2. ReachedBy(8, r, m)  BY <1>9 DEF SystemAfter
  <2> HIDE DEF d
  <2>3. d \in Systems  BY <1>0, <1>m, <1>9, <2>1 DEF wrap_gnats, Systems
  <2>4. SameFiles(m, d)
    BY <1>0, <1>m, <1>9, <2>1 DEF wrap_gnats, Systems, SameFiles
  <2>5. SameCompiler(m, d)
    BY <1>0, <1>m, <1>9, <2>1 DEF wrap_gnats, Systems, SameCompiler
  <2>6. SamePlaces(m, d)
    BY <1>0, <1>m, <1>9, <2>1 DEF wrap_gnats, Systems, SamePlaces
  <2>7. d.ld = m.ld /\ d.tools = m.tools /\ d.gnats
    BY <1>0, <1>m, <1>9, <2>1 DEF wrap_gnats, Systems
  <2>8. FilesFit(d, killed)  BY <1>0, <1>m, <2>4, FilesKept
  <2>9. CompilerFits(d, killed)  BY <1>0, <1>m, <2>3, <2>5, CompilerKept
  <2>10. PlacedAfter(k, r, d) \/ "moved" \in killed
    <3>1. k \in (1 .. 15) \ {12, 13, 14}  BY <1>9
    <3> QED  BY <1>m, <1>p, <2>3, <2>6, <3>1, PlacesKept
  <2>11. ReachedBy(9, r, d)
    BY <2>2, <2>3, <2>4, <2>5, <2>6, <2>7 DEF ReachedBy, SameFiles, SameCompiler, SameRest, Systems
  <2> QED  BY <1>9, <2>3, <2>8, <2>9, <2>10, <2>11 DEF SystemAfter
<1>10. ASSUME k = 10, d # Abort PROVE SystemAfter(k, r, d, killed)
  <2>1. d = sbase(r, m)  BY <1>10, SectionsAre, SectionIs
  <2>2. ReachedBy(9, r, m)  BY <1>10 DEF SystemAfter
  <2> HIDE DEF d
  <2>3. d \in Systems  BY <1>0, <1>m, <1>10, <2>1 DEF sbase, Systems
  <2>4. SameFiles(m, d)
    BY <1>0, <1>m, <1>10, <2>1 DEF sbase, Systems, SameFiles, Alive
  <2>5. SameCompiler(m, d)
    BY <1>0, <1>m, <1>10, <2>1 DEF sbase, Systems, SameCompiler, Alive
  <2>6. SamePlaces(m, d)
    BY <1>0, <1>m, <1>10, <2>1 DEF sbase, Systems, SamePlaces, Alive
  <2>7. d.ld = m.ld /\ d.tools = m.tools /\ d.gnats = m.gnats /\ Alive(r, d.sbase)
    BY <1>0, <1>m, <1>10, <2>1 DEF sbase, Systems, Alive
  <2>8. FilesFit(d, killed)  BY <1>0, <1>m, <2>4, FilesKept
  <2>9. CompilerFits(d, killed)  BY <1>0, <1>m, <2>3, <2>5, CompilerKept
  <2>10. PlacedAfter(k, r, d) \/ "moved" \in killed
    <3>1. k \in (1 .. 15) \ {12, 13, 14}  BY <1>10
    <3> QED  BY <1>m, <1>p, <2>3, <2>6, <3>1, PlacesKept
  <2>11. ReachedBy(10, r, d)
    BY <2>2, <2>3, <2>4, <2>5, <2>6, <2>7 DEF ReachedBy, SameFiles, SameCompiler, SameRest, Systems
  <2> QED  BY <1>10, <2>3, <2>8, <2>9, <2>10, <2>11 DEF SystemAfter
<1>11. ASSUME k = 11, d # Abort PROVE SystemAfter(k, r, d, killed)
  <2>1. d = unifont(r, m)  BY <1>11, SectionsAre, SectionIs
  <2>2. ReachedBy(10, r, m)  BY <1>11 DEF SystemAfter
  <2> HIDE DEF d
  <2>3. d \in Systems  BY <1>0, <1>m, <1>11, <2>1 DEF unifont, Systems
  <2>4. d.gnat = m.gnat /\ d.font # "none" /\ (d.font = "torn" => m.font = "torn")
    BY <1>0, <1>m, <1>11, <2>1 DEF unifont, Systems
  <2>5. SameCompiler(m, d)
    BY <1>0, <1>m, <1>11, <2>1 DEF unifont, Systems, SameCompiler
  <2>6. SamePlaces(m, d)
    BY <1>0, <1>m, <1>11, <2>1 DEF unifont, Systems, SamePlaces
  <2>7. SameRest(m, d)
    BY <1>0, <1>m, <1>11, <2>1 DEF unifont, Systems, SameRest
  <2>8. FilesFit(d, killed)  BY <1>0, <1>m, <2>4, <2>5, <2>6, <2>7 DEF FilesFit
  <2>9. CompilerFits(d, killed)  BY <1>0, <1>m, <2>3, <2>5, CompilerKept
  <2>10. PlacedAfter(k, r, d) \/ "moved" \in killed
    <3>1. k \in (1 .. 15) \ {12, 13, 14}  BY <1>11
    <3> QED  BY <1>m, <1>p, <2>3, <2>6, <3>1, PlacesKept
  <2>11. ReachedBy(11, r, d)
    BY <2>2, <2>3, <2>4, <2>5, <2>6, <2>7 DEF ReachedBy, SameFiles, SameCompiler, SameRest, Systems
  <2> QED  BY <1>11, <2>3, <2>8, <2>9, <2>10, <2>11 DEF SystemAfter
<1>12. ASSUME k = 12, d # Abort PROVE SystemAfter(k, r, d, killed)
  <2>1. d = grub_cfg(r, m)  BY <1>12, SectionsAre, SectionIs
  <2>2. ReachedBy(11, r, m)  BY <1>12 DEF SystemAfter
  <2> HIDE DEF d
  <2>3. d \in Systems  BY <1>0, <1>m, <1>12, <2>1 DEF grub_cfg, Systems
  <2>4. SameFiles(m, d)
    BY <1>0, <1>m, <1>12, <2>1 DEF grub_cfg, Systems, SameFiles
  <2>5. SameCompiler(m, d)
    BY <1>0, <1>m, <1>12, <2>1 DEF grub_cfg, Systems, SameCompiler
  <2>6. SameRest(m, d)
    BY <1>0, <1>m, <1>12, <2>1 DEF grub_cfg, Systems, SameRest
  <2>7. d.state = m.state /\ d.trees = m.trees /\ d.xgcc = m.xgcc /\ d.marker = m.marker
    BY <1>0, <1>m, <1>12, <2>1 DEF grub_cfg, Systems
  <2>8. d.cfg = IF m.cfg = "" THEN r.pwd ELSE m.cfg
    BY <1>0, <1>m, <1>12, <2>1 DEF grub_cfg, Systems
  <2>9. FilesFit(d, killed)  BY <1>0, <1>m, <2>4, FilesKept
  <2>10. CompilerFits(d, killed)  BY <1>0, <1>m, <2>3, <2>5, CompilerKept
  <2>11. PlacedAfter(12, r, d) \/ "moved" \in killed
    <3>1. Placed(m) \/ "moved" \in killed  BY <1>p, <1>12 DEF PlacedAfter
    <3>2. d.marker = m.marker /\ m.marker \in BOOLEAN  BY <1>m, <2>7 DEF Systems
    <3>3. Placed(m) => /\ m.state = "" => m.cfg = "" /\ m.trees = "" /\ m.xgcc = "" /\ ~m.marker
                       /\ m.state # "" => /\ m.cfg = m.state /\ m.trees \in {"", m.state}
                                          /\ m.xgcc \in {"", m.state} /\ (m.marker => m.xgcc # "")
      BY DEF Placed, PlacedAs
    <3>4. Placed(m) /\ m.state = "" => d.cfg = r.pwd /\ PlacedAs(d, "", d.state)
      BY <2>7, <2>8, <3>2, <3>3 DEF PlacedAs
    <3>5. Placed(m) /\ m.state # "" => PlacedAs(d, d.cfg, d.state)
      BY <2>7, <2>8, <3>2, <3>3 DEF PlacedAs
    <3>6. Placed(m) => /\ d.state = "" => d.cfg = r.pwd
                       /\ PlacedAs(d, IF d.state = "" THEN "" ELSE d.cfg, d.state)
      BY <2>7, <3>4, <3>5
    <3> QED  BY <3>1, <3>6, PlacesIs
  <2>12. ReachedBy(12, r, d)
    BY <2>2, <2>4, <2>5, <2>6 DEF ReachedBy, SameFiles, SameCompiler, SameRest
  <2> QED  BY <1>12, <2>3, <2>9, <2>10, <2>11, <2>12 DEF SystemAfter
<1>13. ASSUME k = 13, d # Abort PROVE SystemAfter(k, r, d, killed)
  <2>1. d = clean_moved(r, m)  BY <1>13, SectionsAre, SectionIs
  <2>2. ReachedBy(12, r, m)  BY <1>13 DEF SystemAfter
  <2> HIDE DEF d
  <2>3. d \in Systems
    <3>1. d = m \/ d = [m EXCEPT !.trees = "", !.xgcc = "", !.marker = FALSE, !.cfg = r.pwd]
      BY <2>1 DEF clean_moved
    <3>2. [m EXCEPT !.trees = "", !.xgcc = "", !.marker = FALSE, !.cfg = r.pwd] \in Systems
      BY <1>0, <1>m DEF Systems
    <3> QED  BY <1>m, <3>1, <3>2
  <2>4. SameFiles(m, d)
    BY <1>0, <1>m, <1>13, <2>1 DEF clean_moved, Systems, SameFiles
  <2>5. SameCompiler(m, d)
    BY <1>0, <1>m, <1>13, <2>1 DEF clean_moved, Systems, SameCompiler
  <2>6. SameRest(m, d)
    BY <1>0, <1>m, <1>13, <2>1 DEF clean_moved, Systems, SameRest
  <2>7. IF m.state \in {"", r.pwd} THEN d = m ELSE d.trees = "" /\ d.xgcc = "" /\ ~d.marker /\ d.cfg = r.pwd
    BY <1>0, <1>m, <1>13, <2>1 DEF clean_moved, Systems
  <2>8. FilesFit(d, killed)  BY <1>0, <1>m, <2>4, FilesKept
  <2>9. CompilerFits(d, killed)  BY <1>0, <1>m, <2>3, <2>5, CompilerKept
  <2>10. PlacedAfter(13, r, d) \/ "moved" \in killed
    <3>1. \/ /\ m.state = "" => m.cfg = r.pwd
             /\ PlacedAs(m, IF m.state = "" THEN "" ELSE m.cfg, m.state)
          \/ "moved" \in killed
      <4>1. PlacedAfter(12, r, m) \/ "moved" \in killed  BY <1>p, <1>13
      <4> QED  BY <4>1, PlacesIs
    <3>2. CASE m.state \notin {"", r.pwd}
      <4>1. PlacedAs(d, d.cfg, r.pwd)  BY <1>0, <2>7, <3>2 DEF PlacedAs
      <4> QED  BY <4>1 DEF PlacedAfter
    <3>3. CASE m.state = ""
      <4>1. d = m  BY <2>7, <3>3
      <4>2. (m.cfg = r.pwd /\ PlacedAs(m, "", "")) \/ "moved" \in killed  BY <3>1, <3>3
      <4>3. PlacedAs(m, m.cfg, r.pwd) \/ "moved" \in killed  BY <1>0, <4>2 DEF PlacedAs
      <4> QED  BY <4>1, <4>3 DEF PlacedAfter
    <3>4. CASE m.state = r.pwd
      <4>1. d = m  BY <2>7, <3>4
      <4>2. PlacedAs(m, m.cfg, r.pwd) \/ "moved" \in killed  BY <1>0, <3>1, <3>4
      <4> QED  BY <4>1, <4>2 DEF PlacedAfter
    <3> QED  BY <3>2, <3>3, <3>4
  <2>11. ReachedBy(13, r, d)
    BY <2>2, <2>4, <2>5, <2>6 DEF ReachedBy, SameFiles, SameCompiler, SameRest
  <2> QED  BY <1>13, <2>3, <2>8, <2>9, <2>10, <2>11 DEF SystemAfter
<1>14. ASSUME k = 14, d # Abort PROVE SystemAfter(k, r, d, killed)
  <2>1. d = init_state(r, m)  BY <1>14, SectionsAre, SectionIs
  <2>2. ReachedBy(13, r, m)  BY <1>14 DEF SystemAfter
  <2> HIDE DEF d
  <2>3. d \in Systems  BY <1>0, <1>m, <1>14, <2>1 DEF init_state, Systems
  <2>4. SameFiles(m, d)
    BY <1>0, <1>m, <1>14, <2>1 DEF init_state, Systems, SameFiles
  <2>5. SameCompiler(m, d)
    BY <1>0, <1>m, <1>14, <2>1 DEF init_state, Systems, SameCompiler
  <2>6. SameRest(m, d)
    BY <1>0, <1>m, <1>14, <2>1 DEF init_state, Systems, SameRest
  <2>7. d.cfg = m.cfg /\ d.state = r.pwd /\ d.trees = m.trees /\ d.xgcc = m.xgcc /\ d.marker = m.marker
    BY <1>0, <1>m, <1>14, <2>1 DEF init_state, Systems
  <2>8. FilesFit(d, killed)  BY <1>0, <1>m, <2>4, FilesKept
  <2>9. CompilerFits(d, killed)  BY <1>0, <1>m, <2>3, <2>5, CompilerKept
  <2>10. PlacedAfter(14, r, d) \/ "moved" \in killed
    <3>1. PlacedAs(m, m.cfg, r.pwd) \/ "moved" \in killed  BY <1>p, <1>14 DEF PlacedAfter
    <3>2. d.marker = m.marker /\ m.marker \in BOOLEAN  BY <1>m, <2>7 DEF Systems
    <3>3. PlacedAs(d, d.cfg, d.state) \/ "moved" \in killed  BY <2>7, <3>1, <3>2 DEF PlacedAs
    <3> QED  BY <2>7, <3>3 DEF PlacedAfter, Placed
  <2>11. ReachedBy(14, r, d)
    BY <2>2, <2>3, <2>4, <2>5, <2>6, <2>7 DEF ReachedBy, SameFiles, SameCompiler, SameRest, Systems
  <2> QED  BY <1>14, <2>3, <2>8, <2>9, <2>10, <2>11 DEF SystemAfter
<1>15. ASSUME k = 15, d # Abort PROVE SystemAfter(k, r, d, killed)
  <2>1. d = shell(m)  BY <1>15, SectionsAre, SectionIs
  <2>2. ReachedBy(14, r, m)  BY <1>15 DEF SystemAfter
  <2> HIDE DEF d
  <2>3. d \in Systems  BY <1>0, <1>m, <1>15, <2>1 DEF shell, Systems
  <2>4. SameFiles(m, d)
    BY <1>0, <1>m, <1>15, <2>1 DEF shell, Systems, SameFiles
  <2>5. SameCompiler(m, d)
    BY <1>0, <1>m, <1>15, <2>1 DEF shell, Systems, SameCompiler
  <2>6. SamePlaces(m, d)
    BY <1>0, <1>m, <1>15, <2>1 DEF shell, Systems, SamePlaces
  <2>7. SameRest(m, d)
    BY <1>0, <1>m, <1>15, <2>1 DEF shell, Systems, SameRest
  <2>8. FilesFit(d, killed)  BY <1>0, <1>m, <2>4, FilesKept
  <2>9. CompilerFits(d, killed)  BY <1>0, <1>m, <2>3, <2>5, CompilerKept
  <2>10. PlacedAfter(k, r, d) \/ "moved" \in killed
    <3>1. k \in (1 .. 15) \ {12, 13, 14}  BY <1>15
    <3> QED  BY <1>m, <1>p, <2>3, <2>6, <3>1, PlacesKept
  <2>11. ReachedBy(15, r, d)
    BY <2>2, <2>3, <2>4, <2>5, <2>6, <2>7 DEF ReachedBy, SameFiles, SameCompiler, SameRest, Systems
  <2> QED  BY <1>15, <2>3, <2>8, <2>9, <2>10, <2>11 DEF SystemAfter
<1> HIDE DEF d
<1>16. d = Abort \/ SystemAfter(k, r, d, killed)
  BY <1>1, <1>2, <1>3, <1>4, <1>5, <1>6, <1>7, <1>8, <1>9, <1>10, <1>11, <1>12, <1>13, <1>14, <1>15
<1> QED  BY <1>16 DEF d

\* A run that lacks nothing, with its glibc in place.
HasAll(r) == r.net /\ r.font /\ r.profile /\ r.collected = {}

\* A section ends the script only where it lacks something, or the compiler is torn.
LEMMA SectionType ==
  ASSUME NEW r \in ScriptRuns, NEW k \in 1 .. 15, NEW m \in Systems
  PROVE  /\ Section(Sections[k], r, m) \in Systems \cup {Abort}
         /\ k \notin {2, 3, 5, 6, 11} => Section(Sections[k], r, m) \in Systems
<1> DEFINE d == Section(Sections[k], r, m)
<1>0. r.pwd \in Homes /\ r.glibc \in Nat /\ "" \in Homes  BY DEF ScriptRuns, Homes
<1>1. CASE k = 1
  <2>1. d = python(m)  BY <1>1, SectionsAre, SectionIs
  <2>2. python(m) \in Systems  BY <1>0 DEF python, Systems
  <2> QED  BY <2>1, <2>2
<1>2. CASE k = 2
  <2>1. d = gnat(r, m)  BY <1>2, SectionsAre, SectionIs
  <2>2. gnat(r, m) \in Systems \cup {Abort}  BY <1>0 DEF gnat, Systems
  <2> QED  BY <1>2, <2>1, <2>2
<1>3. CASE k = 3
  <2>1. d = glibc(r, m)  BY <1>3, SectionsAre, SectionIs
  <2>2. glibc(r, m) \in Systems \cup {Abort}  BY <1>0 DEF glibc, Systems
  <2> QED  BY <1>3, <2>1, <2>2
<1>4. CASE k = 4
  <2>1. d = patch_elf_interp(r, m)  BY <1>4, SectionsAre, SectionIs
  <2>2. patch_elf_interp(r, m) \in Systems  BY <1>0 DEF patch_elf_interp, Systems
  <2> QED  BY <2>1, <2>2
<1>5. CASE k = 5
  <2>1. d = find_guix_gcc(r, m)  BY <1>5, SectionsAre, SectionIs
  <2>2. find_guix_gcc(r, m) \in Systems \cup {Abort}  BY <1>0 DEF find_guix_gcc, Systems
  <2> QED  BY <1>5, <2>1, <2>2
<1>6. CASE k = 6
  <2>1. d = keep_gcc(m)  BY <1>6, SectionsAre, SectionIs
  <2>2. keep_gcc(m) \in Systems \cup {Abort}  BY <1>0 DEF keep_gcc, Systems
  <2> QED  BY <1>6, <2>1, <2>2
<1>7. CASE k = 7
  <2>1. d = wrap_gcc(r, m)  BY <1>7, SectionsAre, SectionIs
  <2>2. wrap_gcc(r, m) \in Systems  BY <1>0 DEF wrap_gcc, Systems
  <2> QED  BY <2>1, <2>2
<1>8. CASE k = 8
  <2>1. d = bin_gcc(m)  BY <1>8, SectionsAre, SectionIs
  <2>2. bin_gcc(m) \in Systems  BY <1>0 DEF bin_gcc, Systems
  <2> QED  BY <2>1, <2>2
<1>9. CASE k = 9
  <2>1. d = wrap_gnats(m)  BY <1>9, SectionsAre, SectionIs
  <2>2. wrap_gnats(m) \in Systems  BY <1>0 DEF wrap_gnats, Systems
  <2> QED  BY <2>1, <2>2
<1>10. CASE k = 10
  <2>0. Sections[k] = "sbase"  BY <1>10, SectionsAre
  <2>1. d = sbase(r, m)  BY <2>0, SectionIs
  <2>2. [m EXCEPT !.sbase = r.glibc] \in Systems  BY <1>0 DEF Systems
  <2>3. sbase(r, m) \in {m, [m EXCEPT !.sbase = r.glibc]}  BY DEF sbase
  <2> QED  BY <2>1, <2>2, <2>3
<1>11. CASE k = 11
  <2>1. d = unifont(r, m)  BY <1>11, SectionsAre, SectionIs
  <2>2. unifont(r, m) \in Systems \cup {Abort}  BY <1>0 DEF unifont, Systems
  <2> QED  BY <1>11, <2>1, <2>2
<1>12. CASE k = 12
  <2>1. d = grub_cfg(r, m)  BY <1>12, SectionsAre, SectionIs
  <2>2. grub_cfg(r, m) \in Systems
    <3>1. [m EXCEPT !.cfg = r.pwd] \in Systems  BY <1>0 DEF Systems
    <3> QED  BY <3>1 DEF grub_cfg
  <2> QED  BY <2>1, <2>2
<1>13. CASE k = 13
  <2>1. d = m \/ d = [m EXCEPT !.trees = "", !.xgcc = "", !.marker = FALSE, !.cfg = r.pwd]
    <3>1. d = clean_moved(r, m)  BY <1>13, SectionsAre, SectionIs
    <3> HIDE DEF d
    <3> QED  BY <3>1 DEF clean_moved
  <2>2. [m EXCEPT !.trees = "", !.xgcc = "", !.marker = FALSE, !.cfg = r.pwd] \in Systems
    BY <1>0 DEF Systems
  <2> HIDE DEF d
  <2>3. d \in Systems  BY <2>1, <2>2
  <2> QED  BY <2>3 DEF d
<1>14. CASE k = 14
  <2>1. d = init_state(r, m)  BY <1>14, SectionsAre, SectionIs
  <2>2. init_state(r, m) \in Systems  BY <1>0 DEF init_state, Systems
  <2> QED  BY <2>1, <2>2
<1>15. CASE k = 15
  <2>1. d = shell(m)  BY <1>15, SectionsAre, SectionIs
  <2>2. shell(m) \in Systems  BY <1>0 DEF shell, Systems
  <2> QED  BY <2>1, <2>2
<1> QED  BY <1>1, <1>2, <1>3, <1>4, <1>5, <1>6, <1>7, <1>8, <1>9, <1>10, <1>11, <1>12, <1>13, <1>14, <1>15

\* The sections before that of the wrappers leave them alone.
LEMMA BinStays ==
  ASSUME NEW r \in ScriptRuns, NEW k \in 1 .. 7, NEW m \in Systems,
         Section(Sections[k], r, m) # Abort
  PROVE  Section(Sections[k], r, m).bin = m.bin
<1> DEFINE d == Section(Sections[k], r, m)
<1>1. CASE k = 1
  <2>1. d = python(m)  BY <1>1, SectionsAre, SectionIs
  <2>2. python(m) # Abort => python(m).bin = m.bin  BY DEF python, Systems
  <2> QED  BY <2>1, <2>2
<1>2. CASE k = 2
  <2>1. d = gnat(r, m)  BY <1>2, SectionsAre, SectionIs
  <2>2. gnat(r, m) # Abort => gnat(r, m).bin = m.bin  BY DEF gnat, Systems
  <2> QED  BY <2>1, <2>2
<1>3. CASE k = 3
  <2>1. d = glibc(r, m)  BY <1>3, SectionsAre, SectionIs
  <2>2. glibc(r, m) # Abort => glibc(r, m).bin = m.bin  BY DEF glibc, Systems
  <2> QED  BY <2>1, <2>2
<1>4. CASE k = 4
  <2>1. d = patch_elf_interp(r, m)  BY <1>4, SectionsAre, SectionIs
  <2>2. patch_elf_interp(r, m) # Abort => patch_elf_interp(r, m).bin = m.bin
    BY DEF patch_elf_interp, Systems
  <2> QED  BY <2>1, <2>2
<1>5. CASE k = 5
  <2>1. d = find_guix_gcc(r, m)  BY <1>5, SectionsAre, SectionIs
  <2>2. find_guix_gcc(r, m) # Abort => find_guix_gcc(r, m).bin = m.bin
    BY DEF find_guix_gcc, Systems
  <2> QED  BY <2>1, <2>2
<1>6. CASE k = 6
  <2>1. d = keep_gcc(m)  BY <1>6, SectionsAre, SectionIs
  <2>2. keep_gcc(m) # Abort => keep_gcc(m).bin = m.bin  BY DEF keep_gcc, Systems
  <2> QED  BY <2>1, <2>2
<1>7. CASE k = 7
  <2>1. d = wrap_gcc(r, m)  BY <1>7, SectionsAre, SectionIs
  <2>2. wrap_gcc(r, m) # Abort => wrap_gcc(r, m).bin = m.bin  BY DEF wrap_gcc, Systems
  <2> QED  BY <2>1, <2>2
<1> QED  BY <1>1, <1>2, <1>3, <1>4, <1>5, <1>6, <1>7

\* With all that it needs, and on a system whose compiler was not left half-way, a section
\* goes well.
LEMMA SectionGoes ==
  ASSUME NEW r \in ScriptRuns, NEW k \in 1 .. 15, NEW m, NEW killed, SystemAfter(k - 1, r, m, killed),
         HasAll(r), "gnat" \notin killed, "wrap" \notin killed
  PROVE  Section(Sections[k], r, m) \in Systems
<1> DEFINE d == Section(Sections[k], r, m)
<1>0. m \in Systems /\ CompilerFits(m, killed)  BY DEF SystemAfter
<1>1. CASE k \notin {2, 3, 5, 6, 11}  BY <1>0, <1>1, SectionType
<1>2. CASE k = 2
  <2>1. d = gnat(r, m)  BY <1>2, SectionsAre, SectionIs
  <2> DEFINE e == [m EXCEPT !.gnat = "whole", !.gcc = "elf", !.real = FALSE, !.interp = 0]
  <2>2. e \in Systems  BY <1>0 DEF Systems
  <2>3. gnat(r, m) \in {m, e}  BY DEF gnat, HasAll
  <2> QED  BY <1>0, <2>1, <2>2, <2>3
<1>3. CASE k = 3
  <2>1. d = glibc(r, m)  BY <1>3, SectionsAre, SectionIs
  <2>2. GccRuns(r, m)  BY <1>0 DEF GccRuns, CompilerFits, Alive, HasAll
  <2>3. glibc(r, m) = m  BY <2>2 DEF glibc
  <2> QED  BY <1>0, <2>1, <2>3
<1>5. CASE k = 5
  <2>1. d = find_guix_gcc(r, m)  BY <1>5, SectionsAre, SectionIs
  <2>2. find_guix_gcc(r, m) = m  BY DEF find_guix_gcc, HasAll
  <2> QED  BY <1>0, <2>1, <2>2
<1>6. CASE k = 6
  <2>1. d = keep_gcc(m)  BY <1>6, SectionsAre, SectionIs
  <2>2. ReachedBy(5, r, m)  BY <1>6 DEF SystemAfter
  <2>3. m.gnat # "none"  BY <2>2 DEF ReachedBy
  <2>4. m.real \/ m.gcc # "none"  BY <1>0, <2>3 DEF CompilerFits
  <2>5. [m EXCEPT !.real = TRUE, !.gcc = "none"] \in Systems  BY <1>0 DEF Systems
  <2>6. keep_gcc(m) \in {m, [m EXCEPT !.real = TRUE, !.gcc = "none"]}  BY <2>4 DEF keep_gcc
  <2> QED  BY <1>0, <2>1, <2>5, <2>6
<1>11. CASE k = 11
  <2>1. d = unifont(r, m)  BY <1>11, SectionsAre, SectionIs
  <2>2. unifont(r, m) \in Systems  BY <1>0 DEF unifont, Systems, HasAll
  <2> QED  BY <2>1, <2>2
<1> QED  BY <1>1, <1>2, <1>3, <1>5, <1>6, <1>11

\* What holds after a section that is not the last, or is, goes into another run.
LEMMA AfterFits ==
  ASSUME NEW r, NEW k \in 0 .. 15, NEW m, NEW past, NEW later, past \subseteq later,
         SystemAfter(k, r, m, past), k \in {12, 13} => "moved" \in later
  PROVE  SystemFits(m, later)
<1>1. m \in Systems /\ FilesFit(m, past) /\ CompilerFits(m, past)  BY DEF SystemAfter
<1>2. FilesFit(m, later)  BY <1>1 DEF FilesFit
<1>3. CompilerFits(m, later)  BY <1>1 DEF CompilerFits
<1>4. Placed(m) \/ "moved" \in later
  <2>1. PlacedAfter(k, r, m) \/ "moved" \in later  BY DEF SystemAfter
  <2>2. CASE k < 12  BY <2>1, <2>2 DEF PlacedAfter
  <2>3. CASE k \in {12, 13}  BY <2>3
  <2>4. CASE k > 13
    <3>1. ~(k < 12) /\ k # 12 /\ k # 13  BY <2>4
    <3> QED  BY <2>1, <3>1 DEF PlacedAfter
  <2> QED  BY <2>2, <2>3, <2>4
<1> QED  BY <1>1, <1>2, <1>3, <1>4 DEF SystemFits

\* What a run counts as, for the ones after it.
CountedAs(r, past, later) ==
    /\ past \subseteq later
    /\ r.killed = 2 => "gnat" \in later
    /\ r.killed = 11 => "font" \in later
    /\ r.killed \in {7, 8} /\ "again" \in past => "wrap" \in later
    /\ r.killed \in {13, 14} => "moved" \in later

\* A run that is killed in a section leaves a system to start from, the section counted.
LEMMA TornFits ==
  ASSUME NEW r \in ScriptRuns, NEW k \in 1 .. 15, r.killed = k, NEW past, NEW later,
         CountedAs(r, past, later), NEW m, SystemAfter(k - 1, r, m, past),
         k < 9 => m.bin = "none" \/ "again" \in past
  PROVE  SystemFits(Torn(Sections[k], r, m), later)
<1> DEFINE d == Torn(Sections[k], r, m)
<1>t. d = Torn(Sections[k], r, m)  OBVIOUS
<1> SUFFICES SystemFits(d, later)  OBVIOUS
<1> HIDE DEF d
<1>0. r.glibc \in Nat /\ r.glibc # 0 /\ "" \in Homes  BY DEF ScriptRuns, Homes
<1>1. SystemFits(m, later)
  <2>1. k - 1 \in {12, 13} => "moved" \in later  BY DEF CountedAs
  <2>2. past \subseteq later /\ k - 1 \in 0 .. 15  BY DEF CountedAs
  <2> QED  BY <2>1, <2>2, AfterFits
<1>m. /\ m \in Systems /\ FilesFit(m, later) /\ CompilerFits(m, later)
      /\ Placed(m) \/ "moved" \in later
  BY <1>1 DEF SystemFits
<1>2. CASE k \in {1, 3, 5, 6, 9, 12, 15}
  <2>0. Sections[k] \in {"python", "glibc", "guix", "keep", "gnats", "cfg", "shell"}
    BY <1>2, SectionsAre
  <2>1. d = m
    <3> DEFINE s == Sections[k]
    <3> HIDE DEF s
    <3>1. s \in {"python", "glibc", "guix", "keep", "gnats", "cfg", "shell"} => Torn(s, r, m) = m
      BY DEF Torn
    <3> QED  BY <1>t, <2>0, <3>1 DEF s
  <2> QED  BY <1>1, <2>1
<1>3. CASE k = 2
  <2>1. "gnat" \in later  BY <1>3 DEF CountedAs
  <2>2. CASE d = m  BY <1>1, <2>2
  <2>3. CASE m.gnat = "none" /\ d = [m EXCEPT !.gnat = "torn", !.interp = 0, !.real = FALSE,
                                              !.gcc = IF r.part = 1 THEN "none" ELSE "elf"]
    <3>0. (IF r.part = 1 THEN "none" ELSE "elf") \in {"none", "elf"}  OBVIOUS
    <3>1. d \in Systems /\ d.bin = m.bin /\ d.font = m.font /\ SamePlaces(m, d)
      <4> DEFINE g == IF r.part = 1 THEN "none" ELSE "elf"
      <4> HIDE DEF g
      <4>1. d = [m EXCEPT !.gnat = "torn", !.interp = 0, !.real = FALSE, !.gcc = g]
        BY <2>3 DEF g
      <4>2. g \in {"none", "elf"}  BY <3>0 DEF g
      <4>3. d \in Systems  BY <1>m, <4>1, <4>2 DEF Systems
      <4>4. d.bin = m.bin /\ d.font = m.font  BY <1>m, <4>1 DEF Systems
      <4>5. SamePlaces(m, d)  BY <1>m, <4>1 DEF Systems, SamePlaces
      <4> QED  BY <4>3, <4>4, <4>5
    <3>2. m.bin = "none"  BY <1>m, <2>3 DEF CompilerFits
    <3>3. Placed(d) \/ "moved" \in later
      <4>1. m.marker \in BOOLEAN  BY <1>m DEF Systems
      <4> QED  BY <1>m, <3>1, <4>1 DEF Placed, PlacedAs, SamePlaces
    <3>4. FilesFit(d, later)  BY <1>m, <2>1, <3>1 DEF FilesFit
    <3>5. CompilerFits(d, later)  BY <2>1, <3>1, <3>2 DEF CompilerFits
    <3> QED  BY <3>1, <3>3, <3>4, <3>5 DEF SystemFits
  <2>4. d = Torn("gnat", r, m)  BY <1>t, <1>3, SectionsAre
  <2>5. \/ d = m
        \/ m.gnat = "none" /\ d = [m EXCEPT !.gnat = "torn", !.interp = 0, !.real = FALSE,
                                            !.gcc = IF r.part = 1 THEN "none" ELSE "elf"]
    BY <2>4 DEF Torn
  <2> QED  BY <2>2, <2>3, <2>5
<1>4. CASE k = 4
  <2>0. d = Torn("interp", r, m)  BY <1>t, <1>4, SectionsAre
  <2>1. d = m \/ d = [m EXCEPT !.interp = r.glibc]  BY <2>0 DEF Torn
  <2>2. CASE d = m  BY <1>1, <2>2
  <2>3. CASE d = [m EXCEPT !.interp = r.glibc]
    <3>1. /\ d \in Systems /\ SameFiles(m, d) /\ SamePlaces(m, d) /\ d.gnat = m.gnat
          /\ d.gcc = m.gcc /\ d.real = m.real /\ d.bin = m.bin /\ d.interp = r.glibc
      BY <1>m, <1>0, <2>3 DEF Systems, SamePlaces, SameFiles
    <3>2. m.marker \in BOOLEAN /\ m.real \in BOOLEAN  BY <1>m DEF Systems
    <3>3. Placed(d) \/ "moved" \in later  BY <1>m, <3>1, <3>2 DEF Placed, PlacedAs, SamePlaces
    <3>4. FilesFit(d, later)  BY <1>m, <3>1, FilesKept
    <3>5. CompilerFits(d, later)  BY <1>m, <1>0, <3>1, <3>2 DEF CompilerFits
    <3> QED  BY <3>1, <3>3, <3>4, <3>5 DEF SystemFits
  <2> QED  BY <2>1, <2>2, <2>3
<1>5. CASE k = 7
  <2>0. d = Torn("wrap", r, m)  BY <1>t, <1>5, SectionsAre
  <2>1. d = m \/ d = [m EXCEPT !.gcc = "empty"]  BY <2>0 DEF Torn
  <2>2. CASE d = m  BY <1>1, <2>2
  <2>3. CASE d = [m EXCEPT !.gcc = "empty"]
    <3>0. ReachedBy(6, r, m)  BY <1>5 DEF SystemAfter
    <3>1. /\ d \in Systems /\ SameFiles(m, d) /\ SamePlaces(m, d) /\ d.gnat = m.gnat
          /\ d.interp = m.interp /\ d.real = m.real /\ d.bin = m.bin
      BY <1>m, <1>0, <2>3 DEF Systems, SamePlaces, SameFiles
    <3>2. m.marker \in BOOLEAN /\ m.real \in BOOLEAN /\ m.real  BY <1>m, <3>0 DEF Systems, ReachedBy
    <3>3. Placed(d) \/ "moved" \in later  BY <1>m, <3>1, <3>2 DEF Placed, PlacedAs, SamePlaces
    <3>4. FilesFit(d, later)  BY <1>m, <3>1, FilesKept
    <3>5. m.bin = "none" \/ "wrap" \in later  BY <1>5 DEF CountedAs
    <3>6. CompilerFits(d, later)  BY <1>m, <3>1, <3>2, <3>5 DEF CompilerFits
    <3> QED  BY <3>1, <3>3, <3>4, <3>6 DEF SystemFits
  <2> QED  BY <2>1, <2>2, <2>3
<1>6. CASE k = 8
  <2>0. d = Torn("gcc", r, m)  BY <1>t, <1>6, SectionsAre
  <2>1. d = m \/ (m.bin # "none" /\ d = [m EXCEPT !.bin = "empty"])  BY <2>0 DEF Torn
  <2>2. CASE d = m  BY <1>1, <2>2
  <2>3. CASE m.bin # "none" /\ d = [m EXCEPT !.bin = "empty"]
    <3>1. /\ d \in Systems /\ SameFiles(m, d) /\ SamePlaces(m, d) /\ d.gnat = m.gnat
          /\ d.interp = m.interp /\ d.real = m.real /\ d.gcc = m.gcc
      BY <1>m, <1>0, <2>3 DEF Systems, SamePlaces, SameFiles
    <3>2. m.marker \in BOOLEAN /\ m.real \in BOOLEAN  BY <1>m DEF Systems
    <3>3. Placed(d) \/ "moved" \in later  BY <1>m, <3>1, <3>2 DEF Placed, PlacedAs, SamePlaces
    <3>4. FilesFit(d, later)  BY <1>m, <3>1, FilesKept
    <3>5. "wrap" \in later  BY <1>6, <2>3 DEF CountedAs
    <3>6. CompilerFits(d, later)  BY <1>m, <2>3, <3>1, <3>2, <3>5 DEF CompilerFits
    <3> QED  BY <3>1, <3>3, <3>4, <3>6 DEF SystemFits
  <2> QED  BY <2>1, <2>2, <2>3
<1>7. CASE k = 10
  <2>0. d = Torn("sbase", r, m)  BY <1>t, <1>7, SectionsAre
  <2>1. d = m \/ d = [m EXCEPT !.sbase = 0]  BY <2>0 DEF Torn
  <2>2. CASE d = m  BY <1>1, <2>2
  <2>3. CASE d = [m EXCEPT !.sbase = 0]
    <3>1. d \in Systems /\ SameFiles(m, d) /\ SamePlaces(m, d) /\ SameCompiler(m, d)
      BY <1>m, <1>0, <2>3 DEF Systems, SamePlaces, SameFiles, SameCompiler
    <3>2. m.marker \in BOOLEAN  BY <1>m DEF Systems
    <3>3. Placed(d) \/ "moved" \in later  BY <1>m, <3>1, <3>2 DEF Placed, PlacedAs, SamePlaces
    <3>4. FilesFit(d, later)  BY <1>m, <3>1, FilesKept
    <3>5. CompilerFits(d, later)  BY <1>m, <3>1, CompilerKept
    <3> QED  BY <3>1, <3>3, <3>4, <3>5 DEF SystemFits
  <2> QED  BY <2>1, <2>2, <2>3
<1>8. CASE k = 11
  <2>0. d = Torn("font", r, m)  BY <1>t, <1>8, SectionsAre
  <2>1. d = m \/ d = [m EXCEPT !.font = "torn"]  BY <2>0 DEF Torn
  <2>2. CASE d = m  BY <1>1, <2>2
  <2>3. CASE d = [m EXCEPT !.font = "torn"]
    <3>1. d \in Systems /\ d.gnat = m.gnat /\ SamePlaces(m, d) /\ SameCompiler(m, d)
      BY <1>m, <1>0, <2>3 DEF Systems, SamePlaces, SameCompiler
    <3>2. m.marker \in BOOLEAN  BY <1>m DEF Systems
    <3>3. Placed(d) \/ "moved" \in later  BY <1>m, <3>1, <3>2 DEF Placed, PlacedAs, SamePlaces
    <3>4. "font" \in later  BY <1>8 DEF CountedAs
    <3>5. FilesFit(d, later)  BY <1>m, <3>1, <3>4 DEF FilesFit
    <3>6. CompilerFits(d, later)  BY <1>m, <3>1, CompilerKept
    <3> QED  BY <3>1, <3>3, <3>5, <3>6 DEF SystemFits
  <2> QED  BY <2>1, <2>2, <2>3
<1>9. CASE k \in {13, 14}
  <2>1. d \in Systems /\ SameFiles(m, d) /\ SameCompiler(m, d)
    <3>1. \/ d = m \/ d = [m EXCEPT !.trees = ""] \/ d = [m EXCEPT !.trees = "", !.xgcc = ""]
          \/ d = [m EXCEPT !.state = ""]
      <4>1. d = Torn("moved", r, m) \/ d = Torn("state", r, m)  BY <1>t, <1>9, SectionsAre
      <4>2. Torn("moved", r, m) \in {m, [m EXCEPT !.trees = ""], [m EXCEPT !.trees = "", !.xgcc = ""]}
        BY DEF Torn
      <4>3. Torn("state", r, m) \in {m, [m EXCEPT !.state = ""]}  BY DEF Torn
      <4> QED  BY <4>1, <4>2, <4>3
    <3>2. CASE d = m  BY <1>m, <3>2 DEF SameFiles, SameCompiler
    <3>3. CASE d = [m EXCEPT !.trees = ""]  BY <1>m, <1>0, <3>3 DEF Systems, SameFiles, SameCompiler
    <3>4. CASE d = [m EXCEPT !.trees = "", !.xgcc = ""]
      BY <1>m, <1>0, <3>4 DEF Systems, SameFiles, SameCompiler
    <3>5. CASE d = [m EXCEPT !.state = ""]  BY <1>m, <1>0, <3>5 DEF Systems, SameFiles, SameCompiler
    <3> QED  BY <3>1, <3>2, <3>3, <3>4, <3>5
  <2>2. "moved" \in later  BY <1>9 DEF CountedAs
  <2>3. FilesFit(d, later) /\ CompilerFits(d, later)  BY <1>m, <2>1, FilesKept, CompilerKept
  <2>4. SystemFits(d, later)  BY <2>1, <2>2, <2>3 DEF SystemFits
  <2> QED  BY <2>4
<1>10. \/ k \in {1, 3, 5, 6, 9, 12, 15} \/ k = 2 \/ k = 4 \/ k = 7 \/ k = 8 \/ k = 10 \/ k = 11
       \/ k \in {13, 14}
  OBVIOUS
<1> QED  BY <1>2, <1>3, <1>4, <1>5, <1>6, <1>7, <1>8, <1>9, <1>10

\* A run on its way, or done.
Outcomes == [ok : BOOLEAN, machine : Systems]

\* A section, unless one before failed; and sections one after the other.
Passes(r, u, s) ==
      LET n == Section(s, r, u.machine)
      IN  IF ~u.ok THEN u
          ELSE IF n = Abort THEN [u EXCEPT !.ok = FALSE] ELSE [u EXCEPT !.machine = n]

RunOf(r, m, sections) ==
    FoldLeft(LAMBDA u, s : Passes(r, u, s), [ok |-> TRUE, machine |-> m], sections)

\* What they give is of the type.
LEMMA PassesType ==
  ASSUME NEW r \in ScriptRuns, NEW k \in 1 .. 15, NEW u \in Outcomes
  PROVE  Passes(r, u, Sections[k]) \in Outcomes
<1> DEFINE n == Section(Sections[k], r, u.machine)
<1>1. n \in Systems \cup {Abort}  BY SectionType DEF Outcomes
<1> HIDE DEF n
<1>2. [u EXCEPT !.ok = FALSE] \in Outcomes  BY DEF Outcomes
<1>3. n \in Systems => [u EXCEPT !.machine = n] \in Outcomes  BY DEF Outcomes
<1> QED  BY <1>1, <1>2, <1>3 DEF Passes, n

\* The outcomes after each section.
RunUpTo(f, r, m, sections, n) ==
    /\ f \in [0 .. n -> Outcomes]
    /\ f[0] = [ok |-> TRUE, machine |-> m]
    /\ \A k \in 1 .. n : f[k] = Passes(r, f[k - 1], sections[k])
    /\ RunOf(r, m, sections) = f[n]

\* Sections come to the last of the systems on the way.
LEMMA RunFold ==
  ASSUME NEW r \in ScriptRuns, NEW m \in Systems, NEW n \in 0 .. 15, NEW sections,
         DOMAIN sections = 1 .. n, \A k \in 1 .. n : sections[k] = Sections[k]
  PROVE  \E f : RunUpTo(f, r, m, sections, n)
<1> DEFINE base == [ok |-> TRUE, machine |-> m]
           g == [k \in 1 .. n |-> [u \in Outcomes |-> Passes(r, u, sections[k])]]
<1>0. base \in Outcomes  BY DEF Outcomes
<1> HIDE DEF base
<1>1. n \in Nat /\ \A k \in 1 .. n : k \in 1 .. 15  OBVIOUS
<1>2. g \in [1 .. n -> [Outcomes -> Outcomes]]
  BY <1>1, PassesType
<1>3. PICK w : Folding(w, n, Outcomes, base, g)
  <2>1. AreSteps(g, n, Outcomes)  BY <1>2 DEF AreSteps
  <2> HIDE DEF g
  <2> QED  BY <1>0, <1>1, <2>1, FoldExists
<1> DEFINE I == CHOOSE u : u = [s \in SUBSET (1 .. n) |->
                  IF s = {} THEN base ELSE Passes(r, u[s \ {Max(s)}], sections[Max(s)])]
<1>4. w = [s \in SUBSET (1 .. n) |->
             IF s = {} THEN base ELSE Passes(r, w[s \ {Max(s)}], sections[Max(s)])]
  <2>1. ASSUME NEW s \in SUBSET (1 .. n), s # {}
        PROVE  g[Max(s)][w[s \ {Max(s)}]] = Passes(r, w[s \ {Max(s)}], sections[Max(s)])
    <3>1. Max(s) \in 1 .. n  BY <1>3, <2>1 DEF Folding
    <3> DEFINE q == s \ {Max(s)}
    <3>2. q \in SUBSET (1 .. n)  OBVIOUS
    <3> HIDE DEF q
    <3>3. w[q] \in Outcomes  BY <3>2, <1>3 DEF Folding
    <3> QED  BY <3>1, <3>3 DEF q
  <2> HIDE DEF g
  <2> QED  BY <2>1, <1>3 DEF Folding
<1>5. I = [s \in SUBSET (1 .. n) |->
             IF s = {} THEN base ELSE Passes(r, I[s \ {Max(s)}], sections[Max(s)])]
  BY <1>4
<1>6. RunOf(r, m, sections) = I[1 .. n]
  BY <1>1 DEF RunOf, FoldLeft, MapThenFoldSet, base
<1> DEFINE f == [k \in 0 .. n |-> I[1 .. k]]
           T == {k \in 0 .. n : f[k] \in Outcomes}
<1> HIDE DEF I
<1>7. f[0] = base /\ f[n] = I[1 .. n]
  <2>1. 1 .. 0 = {} /\ {} \in SUBSET (1 .. n)  OBVIOUS
  <2>2. I[{}] = base  BY <2>1, <1>5
  <2> QED  BY <1>1, <2>1, <2>2
<1>8. \A k \in 1 .. n : f[k] = Passes(r, f[k - 1], sections[k])
  <2> SUFFICES ASSUME NEW k \in 1 .. n PROVE f[k] = Passes(r, f[k - 1], sections[k])
    OBVIOUS
  <2>1. k \in Nat /\ 1 .. k \in SUBSET (1 .. n) /\ k \in 1 .. k  BY <1>1
  <2>2. Max(1 .. k) = k  BY <2>1, MaxIs
  <2>3. (1 .. k) \ {k} = 1 .. k - 1  BY <2>1
  <2>4. I[1 .. k] = Passes(r, I[1 .. k - 1], sections[k])  BY <2>1, <2>2, <2>3, <1>5
  <2>5. k \in 0 .. n /\ k - 1 \in 0 .. n  BY <1>1
  <2> QED  BY <2>4, <2>5
<1> HIDE DEF f
<1>9. \A k \in 0 .. n : k \in T
  <2>1. 0 \in T  BY <1>0, <1>1, <1>7
  <2>2. \A k \in 0 .. n - 1 : k \in T => k + 1 \in T
    <3> SUFFICES ASSUME NEW k \in 0 .. n - 1, f[k] \in Outcomes PROVE f[k + 1] \in Outcomes
      BY <1>1
    <3>1. k + 1 \in 1 .. n /\ k + 1 - 1 = k  BY <1>1
    <3>2. f[k + 1] = Passes(r, f[k], sections[k + 1])  BY <3>1, <1>8
    <3>3. sections[k + 1] = Sections[k + 1] /\ k + 1 \in 1 .. 15  BY <3>1
    <3>4. \A u \in Outcomes, i \in 1 .. 15 : Passes(r, u, Sections[i]) \in Outcomes  BY PassesType
    <3> QED  BY ONLY <3>2, <3>3, <3>4, f[k] \in Outcomes
  <2> HIDE DEF T
  <2> QED  BY <1>1, <2>1, <2>2, UpTo
<1>10. f \in [0 .. n -> Outcomes]  BY <1>9 DEF f
<1> QED  BY <1>6, <1>7, <1>8, <1>10 DEF RunUpTo, base

\* What holds of a run after k sections.
GoneWell(k, r, u, past) ==
    IF u.ok
    THEN /\ SystemAfter(k, r, u.machine, past)
         /\ k < 8 => u.machine.bin = "none" \/ "again" \in past
    ELSE /\ SystemFits(u.machine, past)
         /\ ~HasAll(r) \/ "gnat" \in past \/ "wrap" \in past

\* Each section keeps what holds of the sections so far.
LEMMA GoesWell ==
  ASSUME NEW r \in ScriptRuns, NEW k \in 1 .. 15, NEW u \in Outcomes, NEW past,
         GoneWell(k - 1, r, u, past)
  PROVE  GoneWell(k, r, Passes(r, u, Sections[k]), past)
<1> DEFINE m == u.machine
           n == Section(Sections[k], r, m)
           v == Passes(r, u, Sections[k])
<1>0. m \in Systems  BY DEF Outcomes
<1>1. CASE ~u.ok
  <2>1. v = u  BY <1>1 DEF Passes
  <2> QED  BY <1>1, <2>1 DEF GoneWell
<1>2. CASE u.ok /\ n = Abort
  <2>1. v = [u EXCEPT !.ok = FALSE]  BY <1>2 DEF Passes
  <2>2. ~v.ok /\ v.machine = m  BY <2>1 DEF Outcomes
  <2>3. SystemAfter(k - 1, r, m, past)  BY <1>2 DEF GoneWell
  <2>4. k \in {2, 3, 5, 6, 11}  BY <1>0, <1>2, SectionType, SystemAssumption
  <2>5. SystemFits(m, past)
    <3>1. k - 1 \in 0 .. 15 /\ k - 1 \notin {12, 13}  BY <2>4
    <3> QED  BY <2>3, <3>1, AfterFits
  <2>6. ~HasAll(r) \/ "gnat" \in past \/ "wrap" \in past
    BY <1>2, <2>3, SectionGoes, SystemAssumption
  <2> HIDE DEF v
  <2>7. GoneWell(k, r, v, past)  BY <2>2, <2>5, <2>6 DEF GoneWell
  <2> QED  BY <2>7 DEF v
<1>3. CASE u.ok /\ n # Abort
  <2>1. v = [u EXCEPT !.machine = n]  BY <1>3 DEF Passes
  <2>2. v.ok /\ v.machine = n  BY <1>3, <2>1 DEF Outcomes
  <2>3. SystemAfter(k - 1, r, m, past) /\ (k - 1 < 8 => m.bin = "none" \/ "again" \in past)
    BY <1>3 DEF GoneWell
  <2>4. SystemAfter(k, r, n, past)  BY <1>3, <2>3, StepKeeps
  <2>5. k < 8 => n.bin = "none" \/ "again" \in past
    <3>1. k < 8 => k \in 1 .. 7 /\ k - 1 < 8  OBVIOUS
    <3>2. k < 8 => n.bin = m.bin  BY <1>0, <1>3, <3>1, BinStays
    <3> QED  BY <2>3, <3>1, <3>2
  <2> HIDE DEF v, n
  <2>6. GoneWell(k, r, v, past)  BY <2>2, <2>4, <2>5 DEF GoneWell
  <2> QED  BY <2>6 DEF v
<1> QED  BY <1>1, <1>2, <1>3

\* A run in whose sections it is not killed, and its sections if it is.
LEMMA RunGoesWell ==
  ASSUME NEW r \in ScriptRuns, NEW m \in Systems, NEW past, SystemFits(m, past),
         m.bin = "none" \/ "again" \in past,
         NEW n \in 0 .. 15, NEW sections,
         DOMAIN sections = 1 .. n, \A k \in 1 .. n : sections[k] = Sections[k]
  PROVE  RunOf(r, m, sections) \in Outcomes /\ GoneWell(n, r, RunOf(r, m, sections), past)
<1>1. PICK f : RunUpTo(f, r, m, sections, n)  BY RunFold
<1> DEFINE T == {k \in 0 .. n : GoneWell(k, r, f[k], past)}
<1>0. n \in Nat /\ n <= 15  OBVIOUS
<1>2. 0 \in T
  <2>1. f[0].ok /\ f[0].machine = m  BY <1>1 DEF RunUpTo
  <2>2. SystemAfter(0, r, m, past)
    <3>1. ReachedBy(0, r, m)  BY DEF ReachedBy
    <3>2. Placed(m) => PlacedAfter(0, r, m)  BY DEF PlacedAfter
    <3> QED  BY <3>1, <3>2 DEF SystemAfter, SystemFits
  <2>3. GoneWell(0, r, f[0], past)  BY <2>1, <2>2 DEF GoneWell
  <2> QED  BY <1>0, <2>3
<1>3. ASSUME NEW k \in 0 .. n - 1, k \in T PROVE k + 1 \in T
  <2>1. k + 1 \in 1 .. n /\ k + 1 \in 1 .. 15 /\ k + 1 \in 0 .. n /\ k + 1 - 1 = k /\ k \in 0 .. n
    BY <1>0
  <2>2. f[k + 1] = Passes(r, f[k], Sections[k + 1]) /\ f[k] \in Outcomes
    BY <1>1, <2>1 DEF RunUpTo
  <2>3. GoneWell(k + 1 - 1, r, f[k], past)  BY <1>3, <2>1
  <2>4. GoneWell(k + 1, r, f[k + 1], past)  BY <2>1, <2>2, <2>3, GoesWell
  <2> QED  BY <2>1, <2>4
<1>4. n \in T
  <2>1. \A k \in 0 .. n - 1 : k \in T => k + 1 \in T
    <3> HIDE DEF T
    <3> QED  BY <1>3
  <2> HIDE DEF T
  <2>2. \A k \in 0 .. n : k \in T  BY <1>0, <1>2, <2>1, UpTo
  <2> QED  BY <1>0, <2>2
<1>5. RunOf(r, m, sections) = f[n] /\ f[n] \in Outcomes  BY <1>0, <1>1 DEF RunUpTo
<1> QED  BY <1>4, <1>5

\* A run is its sections, and the kill.
LEMMA RunIs ==
  ASSUME NEW r, NEW m
  PROVE  LET ran == RunOf(r, m, IF r.killed = 0 THEN Sections ELSE SubSeq(Sections, 1, r.killed - 1))
         IN  Run(r, m) = IF r.killed = 0 \/ ~ran.ok THEN ran
                         ELSE [ok |-> FALSE, machine |-> Torn(Sections[r.killed], r, ran.machine)]
  BY DEF Run, RunOf, Passes

\* After a run the system is fit for another one, and if it succeeds it has all that
\* it should; and it does, if it lacks nothing and the compiler was not torn.
LEMMA RunFits ==
  ASSUME NEW r \in ScriptRuns, NEW m \in Systems, NEW past, SystemFits(m, past),
         m.bin = "none" \/ "again" \in past, NEW later, CountedAs(r, past, later)
  PROVE  LET u == Run(r, m)
         IN  /\ u \in Outcomes /\ SystemFits(u.machine, later)
             /\ u.ok => r.killed = 0 /\ SystemAfter(15, r, u.machine, past)
             /\ u.ok \/ r.killed # 0 \/ ~HasAll(r) \/ "gnat" \in past \/ "wrap" \in past
<1> DEFINE sections == IF r.killed = 0 THEN Sections ELSE SubSeq(Sections, 1, r.killed - 1)
           n == IF r.killed = 0 THEN 15 ELSE r.killed - 1
           ran == RunOf(r, m, sections)
           u == Run(r, m)
<1>0. r.killed \in 0 .. 15  BY SectionsAre DEF ScriptRuns
<1>1. n \in 0 .. 15 /\ DOMAIN sections = 1 .. n /\ \A k \in 1 .. n : sections[k] = Sections[k]
  <2>1. CASE r.killed = 0  BY <2>1, SectionsAre
  <2>2. CASE r.killed # 0
    <3>1. r.killed - 1 \in Nat  BY <1>0, <2>2
    <3> QED  BY <1>0, <2>2, <3>1, FirstOf
  <2> QED  BY <2>1, <2>2
<1>2. u = IF r.killed = 0 \/ ~ran.ok THEN ran
          ELSE [ok |-> FALSE, machine |-> Torn(Sections[r.killed], r, ran.machine)]
  BY RunIs
<1> HIDE DEF sections
<1>3. ran \in Outcomes /\ GoneWell(n, r, ran, past)
  <2> HIDE DEF n
  <2> QED  BY <1>1, RunGoesWell
<1> HIDE DEF ran, u
<1>4. past \subseteq later  BY DEF CountedAs
<1>5. CASE ~ran.ok
  <2>1. u = ran /\ SystemFits(ran.machine, past) /\ (~HasAll(r) \/ "gnat" \in past \/ "wrap" \in past)
    BY <1>2, <1>3, <1>5 DEF GoneWell
  <2>2. SystemFits(ran.machine, later)  BY <1>4, <2>1 DEF SystemFits, FilesFit, CompilerFits
  <2> QED  BY <1>3, <1>5, <2>1, <2>2 DEF u
<1>6. CASE ran.ok /\ r.killed = 0
  <2>1. u = ran /\ SystemAfter(15, r, ran.machine, past)  BY <1>2, <1>3, <1>6 DEF GoneWell
  <2>2. SystemFits(ran.machine, later)
    <3>1. 15 \in 0 .. 15 /\ 15 \notin {12, 13}  OBVIOUS
    <3> QED  BY <1>4, <2>1, <3>1, AfterFits
  <2> QED  BY <1>3, <1>6, <2>1, <2>2 DEF u
<1>7. CASE ran.ok /\ r.killed # 0
  <2> DEFINE t == Torn(Sections[r.killed], r, ran.machine)
             k == r.killed
  <2>1. u = [ok |-> FALSE, machine |-> t]  BY <1>2, <1>7
  <2>2. k \in 1 .. 15 /\ n = k - 1  BY <1>0, <1>7
  <2>3. /\ SystemAfter(k - 1, r, ran.machine, past)
        /\ k < 9 => ran.machine.bin = "none" \/ "again" \in past
    <3> HIDE DEF n, k
    <3>1. k < 9 => k - 1 < 8  BY <2>2
    <3> QED  BY <1>3, <1>7, <2>2, <3>1 DEF GoneWell
  <2>4. SystemFits(t, later)  BY <2>2, <2>3, TornFits
  <2>5. t \in Systems  BY <2>4 DEF SystemFits
  <2> HIDE DEF t
  <2>6. u \in Outcomes /\ ~u.ok /\ u.machine = t  BY <2>1, <2>5 DEF Outcomes
  <2> QED  BY <1>7, <2>4, <2>6 DEF u
<1> QED  BY <1>5, <1>6, <1>7

\* What is built after a run that succeeded leaves the system as it should be.
LEMMA BuiltFits ==
  ASSUME NEW m \in Systems, NEW past, SystemFits(m, past), m.state # "" \/ "moved" \in past
  PROVE  Built(m) \in Systems /\ SystemFits(Built(m), past) /\ Built(m).bin = m.bin
<1> DEFINE d == Built(m)
           trees == IF m.trees = "" THEN m.state ELSE m.trees
           xgcc == IF m.marker THEN m.xgcc ELSE m.state
<1>1. d = [m EXCEPT !.trees = trees, !.marker = TRUE, !.xgcc = xgcc]  BY DEF Built
<1>2. trees \in Homes /\ xgcc \in Homes  BY DEF Systems
<1>3. trees = (IF m.trees = "" THEN m.state ELSE m.trees) /\ xgcc = (IF m.marker THEN m.xgcc ELSE m.state)
  OBVIOUS
<1> HIDE DEF d, trees, xgcc
<1>4. d \in Systems  BY <1>1, <1>2 DEF Systems
<1>5. /\ SameFiles(m, d) /\ SameCompiler(m, d)
      /\ d.cfg = m.cfg /\ d.state = m.state /\ d.trees = trees /\ d.xgcc = xgcc /\ d.marker
  BY <1>1 DEF Systems, SameFiles, SameCompiler
<1>6. Placed(m) /\ m.state # "" => Placed(d)
  BY <1>3, <1>5 DEF Placed, PlacedAs
<1>7. FilesFit(d, past) /\ CompilerFits(d, past)
  BY <1>4, <1>5, FilesKept, CompilerKept DEF SystemFits
<1>8. SystemFits(d, past) /\ d.bin = m.bin  BY <1>4, <1>5, <1>6, <1>7 DEF SystemFits, SameCompiler
<1> QED  BY <1>4, <1>8 DEF d

\* One run after another.
NextRun(u, r) == Run(r, IF u.ok THEN Built(u.machine) ELSE u.machine)

\* The system that is untouched.
AtFirst == [ok |-> FALSE, machine |-> Untouched]

\* The runs from number a to number n that were killed in one of some sections; and
\* what counts of them.
KilledInAny(runs, a, n, S) ==
    \E i \in a .. n : runs[i].killed # 0 /\ Sections[runs[i].killed] \in S

\* The sections that count, of those that the first n runs were killed in.
KilledBefore(runs, n) ==
            {s \in {"gnat", "font", "wrap", "moved", "again"} :
               /\ s = "gnat" => KilledInAny(runs, 1, n, {"gnat"})
               /\ s = "font" => KilledInAny(runs, 1, n, {"font"})
               /\ s = "wrap" => KilledInAny(runs, 2, n, {"wrap", "gcc"})
               /\ s = "moved" => KilledInAny(runs, 1, n, {"moved", "state"})
               /\ s = "again" => n # 0}

\* Which sections count.
LEMMA KilledBeforeIs ==
  ASSUME NEW runs, NEW n
  PROVE  /\ "gnat" \in KilledBefore(runs, n) <=> KilledInAny(runs, 1, n, {"gnat"})
         /\ "font" \in KilledBefore(runs, n) <=> KilledInAny(runs, 1, n, {"font"})
         /\ "wrap" \in KilledBefore(runs, n) <=> KilledInAny(runs, 2, n, {"wrap", "gcc"})
         /\ "moved" \in KilledBefore(runs, n) <=> KilledInAny(runs, 1, n, {"moved", "state"})
         /\ "again" \in KilledBefore(runs, n) <=> n # 0
  BY DEF KilledBefore

\* After the last section all is placed.
LEMMA PlacesAtLast ==
  ASSUME NEW r, NEW m, PlacedAfter(15, r, m)
  PROVE  m.state = r.pwd /\ Placed(m)
<1>1. ~(15 < 12) /\ 15 # 12 /\ 15 # 13  OBVIOUS
<1> QED  BY <1>1 DEF PlacedAfter

\* A run adds the section that it was killed in.
LEMMA KilledBeforeCounts ==
  ASSUME NEW runs \in Seq(ScriptRuns), NEW n \in 1 .. Len(runs)
  PROVE  CountedAs(runs[n], KilledBefore(runs, n - 1), KilledBefore(runs, n))
<1> DEFINE r == runs[n]
           p == KilledBefore(runs, n - 1)
           q == KilledBefore(runs, n)
<1>1. n \in Nat /\ n - 1 \in Nat /\ r \in ScriptRuns  OBVIOUS
<1>2. \A a \in Nat : \A S : KilledInAny(runs, a, n - 1, S) => KilledInAny(runs, a, n, S)
  BY <1>1 DEF KilledInAny
<1>3. \A a \in Nat : \A S : a <= n /\ r.killed # 0 /\ Sections[r.killed] \in S => KilledInAny(runs, a, n, S)
  BY <1>1 DEF KilledInAny
<1>4. p \subseteq q
  <2>1. /\ KilledInAny(runs, 1, n - 1, {"gnat"}) => KilledInAny(runs, 1, n, {"gnat"})
        /\ KilledInAny(runs, 1, n - 1, {"font"}) => KilledInAny(runs, 1, n, {"font"})
        /\ KilledInAny(runs, 2, n - 1, {"wrap", "gcc"}) => KilledInAny(runs, 2, n, {"wrap", "gcc"})
        /\ KilledInAny(runs, 1, n - 1, {"moved", "state"}) => KilledInAny(runs, 1, n, {"moved", "state"})
        /\ n # 0
    BY <1>1, <1>2
  <2> QED  BY <2>1 DEF KilledBefore
<1>5. r.killed = 2 => "gnat" \in q
  <2>1. r.killed = 2 => KilledInAny(runs, 1, n, {"gnat"})  BY <1>1, <1>3, SectionsAre
  <2> QED  BY <2>1, KilledBeforeIs
<1>6. r.killed = 11 => "font" \in q
  <2>1. r.killed = 11 => KilledInAny(runs, 1, n, {"font"})  BY <1>1, <1>3, SectionsAre
  <2> QED  BY <2>1, KilledBeforeIs
<1>7. r.killed \in {7, 8} /\ "again" \in p => "wrap" \in q
  <2>1. "again" \in p => n - 1 # 0  BY KilledBeforeIs
  <2>2. r.killed \in {7, 8} /\ "again" \in p => KilledInAny(runs, 2, n, {"wrap", "gcc"})
    <3>1. SUFFICES ASSUME r.killed \in {7, 8}, "again" \in p
                   PROVE  KilledInAny(runs, 2, n, {"wrap", "gcc"})
      OBVIOUS
    <3>2. 2 <= n /\ 2 \in Nat  BY <1>1, <2>1, <3>1
    <3>3. r.killed # 0 /\ Sections[r.killed] \in {"wrap", "gcc"}  BY <3>1, SectionsAre
    <3> HIDE DEF r, p
    <3> QED  BY <1>3, <3>2, <3>3
  <2> QED  BY <2>2, KilledBeforeIs
<1>8. r.killed \in {13, 14} => "moved" \in q
  <2>1. r.killed \in {13, 14} => KilledInAny(runs, 1, n, {"moved", "state"})
    BY <1>1, <1>3, SectionsAre
  <2> QED  BY <2>1, KilledBeforeIs
<1> QED  BY <1>4, <1>5, <1>6, <1>7, <1>8 DEF CountedAs

\* What holds of the outcome of the run number n.
SetUpSoFar(runs, n, u) ==
    /\ u \in Outcomes /\ SystemFits(u.machine, KilledBefore(runs, n))
    /\ n = 0 => u.machine.bin = "none" /\ ~u.ok
    /\ n # 0 =>
         /\ u.ok => runs[n].killed = 0 /\ SystemAfter(15, runs[n], u.machine, KilledBefore(runs, n - 1))
         /\ \/ u.ok \/ runs[n].killed # 0 \/ ~HasAll(runs[n])
            \/ "gnat" \in KilledBefore(runs, n - 1) \/ "wrap" \in KilledBefore(runs, n - 1)

\* Before the first run.
LEMMA AtFirstSoFar ==
  ASSUME NEW runs
  PROVE  SetUpSoFar(runs, 0, AtFirst)
<1> DEFINE m == Untouched
<1>1. "" \in Homes  BY DEF Homes
<1>2. m \in Systems  BY <1>1 DEF Untouched, Systems
<1>3. /\ m.gnat = "none" /\ m.font = "none" /\ m.bin = "none" /\ m.state = "" /\ m.cfg = ""
      /\ m.trees = "" /\ m.xgcc = "" /\ ~m.marker
  BY DEF Untouched
<1>4. AtFirst.machine = m /\ ~AtFirst.ok /\ AtFirst \in Outcomes  BY <1>2 DEF AtFirst, Outcomes
<1> HIDE DEF m
<1>5. SystemFits(m, KilledBefore(runs, 0))
  BY <1>2, <1>3 DEF SystemFits, FilesFit, CompilerFits, Placed, PlacedAs
<1> QED  BY <1>3, <1>4, <1>5 DEF SetUpSoFar

\* Each run keeps what holds of the runs so far.
LEMMA NextRunSoFar ==
  ASSUME NEW runs \in Seq(ScriptRuns), NEW n \in 1 .. Len(runs), NEW u, SetUpSoFar(runs, n - 1, u)
  PROVE  SetUpSoFar(runs, n, NextRun(u, runs[n]))
<1> DEFINE r == runs[n]
           p == KilledBefore(runs, n - 1)
           q == KilledBefore(runs, n)
           m == IF u.ok THEN Built(u.machine) ELSE u.machine
           v == Run(r, m)
<1>1. n \in Nat /\ n - 1 \in Nat /\ n # 0 /\ r \in ScriptRuns  OBVIOUS
<1>2. u \in Outcomes /\ u.machine \in Systems /\ SystemFits(u.machine, p)
  BY DEF SetUpSoFar, Outcomes
<1>3. CountedAs(r, p, q)  BY KilledBeforeCounts
<1>4. n - 1 = 0 => ~u.ok /\ u.machine.bin = "none"  BY DEF SetUpSoFar
<1>5. n - 1 # 0 => "again" \in p  BY KilledBeforeIs
<1>6. m \in Systems /\ SystemFits(m, p) /\ (m.bin = "none" \/ "again" \in p)
  <2>1. CASE ~u.ok  BY <1>2, <1>4, <1>5, <2>1
  <2>2. CASE u.ok
    <3>1. n - 1 # 0  BY <1>4, <2>2
    <3>2. SystemAfter(15, runs[n - 1], u.machine, KilledBefore(runs, n - 1 - 1))
      BY <2>2, <3>1 DEF SetUpSoFar
    <3>3. u.machine.state # "" \/ "moved" \in p
      <4>1. PlacedAfter(15, runs[n - 1], u.machine) \/ "moved" \in KilledBefore(runs, n - 1 - 1)
        BY <3>2 DEF SystemAfter
      <4>2. n - 1 \in 1 .. Len(runs) /\ runs[n - 1] \in ScriptRuns  BY <1>1, <3>1
      <4>3. runs[n - 1].pwd # ""  BY <4>2 DEF ScriptRuns
      <4>4. PlacedAfter(15, runs[n - 1], u.machine) => u.machine.state # ""
        BY <4>3, PlacesAtLast
      <4>5. KilledBefore(runs, n - 1 - 1) \subseteq p  BY <4>2, KilledBeforeCounts DEF CountedAs
      <4> QED  BY <4>1, <4>4, <4>5
    <3>4. Built(u.machine) \in Systems /\ SystemFits(Built(u.machine), p)  BY <1>2, <3>3, BuiltFits
    <3> QED  BY <1>5, <2>2, <3>1, <3>4
  <2> QED  BY <2>1, <2>2
<1>7. NextRun(u, r) = v  BY DEF NextRun
<1> HIDE DEF p, q, m
<1>8. /\ v \in Outcomes /\ SystemFits(v.machine, q)
      /\ v.ok => r.killed = 0 /\ SystemAfter(15, r, v.machine, p)
      /\ v.ok \/ r.killed # 0 \/ ~HasAll(r) \/ "gnat" \in p \/ "wrap" \in p
  <2> HIDE DEF r
  <2> QED  BY <1>1, <1>3, <1>6, RunFits
<1> HIDE DEF v
<1> QED  BY <1>1, <1>7, <1>8 DEF SetUpSoFar, p, q

\* The types of what a kill, a build, a run and the next run leave.
LEMMA TornType ==
  ASSUME NEW r \in ScriptRuns, NEW k \in 1 .. 15, NEW m \in Systems
  PROVE  Torn(Sections[k], r, m) \in Systems
<1> DEFINE d == Torn(Sections[k], r, m)
           gcc == IF r.part = 1 THEN "none" ELSE "elf"
<1>1. r.glibc \in Nat /\ "" \in Homes  BY DEF ScriptRuns, Homes
<1>2. gcc \in {"none", "elf"}  OBVIOUS
<1>3. Torn(Sections[k], r, m) \in
        {m, [m EXCEPT !.gnat = "torn", !.interp = 0, !.real = FALSE, !.gcc = gcc],
         [m EXCEPT !.interp = r.glibc], [m EXCEPT !.gcc = "empty"], [m EXCEPT !.bin = "empty"],
         [m EXCEPT !.sbase = 0], [m EXCEPT !.font = "torn"], [m EXCEPT !.trees = ""],
         [m EXCEPT !.trees = "", !.xgcc = ""], [m EXCEPT !.state = ""]}
  BY DEF Torn
<1>d. d = Torn(Sections[k], r, m)  OBVIOUS
<1> HIDE DEF d, gcc
<1>4. [m EXCEPT !.gnat = "torn", !.interp = 0, !.real = FALSE, !.gcc = gcc] \in Systems
  BY <1>2 DEF Systems
<1>5. [m EXCEPT !.interp = r.glibc] \in Systems  BY <1>1 DEF Systems
<1>6. [m EXCEPT !.gcc = "empty"] \in Systems /\ [m EXCEPT !.bin = "empty"] \in Systems
  BY DEF Systems
<1>7. [m EXCEPT !.sbase = 0] \in Systems /\ [m EXCEPT !.font = "torn"] \in Systems  BY DEF Systems
<1>8. [m EXCEPT !.trees = ""] \in Systems /\ [m EXCEPT !.state = ""] \in Systems
  BY <1>1 DEF Systems
<1>9. [m EXCEPT !.trees = "", !.xgcc = ""] \in Systems  BY <1>1 DEF Systems
<1>10. d \in Systems  BY <1>d, <1>3, <1>4, <1>5, <1>6, <1>7, <1>8, <1>9
<1> QED  BY <1>10 DEF d

LEMMA BuiltType ==
  ASSUME NEW m \in Systems
  PROVE  Built(m) \in Systems
<1> DEFINE trees == IF m.trees = "" THEN m.state ELSE m.trees
           xgcc == IF m.marker THEN m.xgcc ELSE m.state
<1>1. Built(m) = [m EXCEPT !.trees = trees, !.marker = TRUE, !.xgcc = xgcc]  BY DEF Built
<1>2. trees \in Homes /\ xgcc \in Homes  BY DEF Systems
<1> HIDE DEF trees, xgcc
<1> QED  BY <1>1, <1>2 DEF Systems

LEMMA RunType ==
  ASSUME NEW r \in ScriptRuns, NEW m \in Systems
  PROVE  Run(r, m) \in Outcomes
<1> DEFINE sections == IF r.killed = 0 THEN Sections ELSE SubSeq(Sections, 1, r.killed - 1)
           n == IF r.killed = 0 THEN 15 ELSE r.killed - 1
           ran == RunOf(r, m, sections)
<1>0. r.killed \in 0 .. 15  BY SectionsAre DEF ScriptRuns
<1>1. n \in 0 .. 15 /\ DOMAIN sections = 1 .. n /\ \A k \in 1 .. n : sections[k] = Sections[k]
  <2>1. CASE r.killed = 0  BY <2>1, SectionsAre
  <2>2. CASE r.killed # 0
    <3>1. r.killed - 1 \in Nat  BY <1>0, <2>2
    <3> QED  BY <1>0, <2>2, <3>1, FirstOf
  <2> QED  BY <2>1, <2>2
<1>2. Run(r, m) = IF r.killed = 0 \/ ~ran.ok THEN ran
          ELSE [ok |-> FALSE, machine |-> Torn(Sections[r.killed], r, ran.machine)]
  BY RunIs
<1> HIDE DEF sections
<1>3. ran \in Outcomes
  <2> HIDE DEF n
  <2>1. PICK f : RunUpTo(f, r, m, sections, n)  BY <1>1, RunFold
  <2> QED  BY <1>1, <2>1 DEF RunUpTo
<1> HIDE DEF ran
<1>4. CASE r.killed = 0 \/ ~ran.ok  BY <1>2, <1>3, <1>4
<1>5. CASE r.killed # 0 /\ ran.ok
  <2> DEFINE t == Torn(Sections[r.killed], r, ran.machine)
  <2>1. r.killed \in 1 .. 15 /\ ran.machine \in Systems  BY <1>0, <1>3, <1>5 DEF Outcomes
  <2>2. t \in Systems  BY <2>1, TornType
  <2>3. Run(r, m) = [ok |-> FALSE, machine |-> t]  BY <1>2, <1>5
  <2> HIDE DEF t
  <2> QED  BY <2>2, <2>3 DEF Outcomes
<1> QED  BY <1>4, <1>5

LEMMA NextRunType ==
  ASSUME NEW r \in ScriptRuns, NEW u \in Outcomes
  PROVE  NextRun(u, r) \in Outcomes
<1> DEFINE m == IF u.ok THEN Built(u.machine) ELSE u.machine
<1>1. m \in Systems  BY BuiltType DEF Outcomes
<1> HIDE DEF m
<1>2. Run(r, m) \in Outcomes  BY <1>1, RunType
<1> QED  BY <1>2 DEF NextRun, m

\* The runs one after the other.
RunsDone(runs) == FoldLeft(LAMBDA u, r : NextRun(u, r), AtFirst, runs)

\* The outcomes after each run.
RunsUpTo(f, runs, n) ==
        /\ f \in [0 .. n -> Outcomes]
        /\ f[0] = AtFirst
        /\ \A k \in 1 .. n : f[k] = NextRun(f[k - 1], runs[k])
        /\ RunsDone(runs) = f[n]

\* They come to the last of the systems on the way.
LEMMA RunsFold ==
  ASSUME NEW runs \in Seq(ScriptRuns)
  PROVE  \E f : RunsUpTo(f, runs, Len(runs))
<1> DEFINE n == Len(runs)
           base == AtFirst
           g == [k \in 1 .. n |-> [u \in Outcomes |-> NextRun(u, runs[k])]]
<1>0. base \in Outcomes  BY AtFirstSoFar DEF SetUpSoFar
<1> HIDE DEF base
<1>1. n \in Nat /\ DOMAIN runs = 1 .. n /\ \A k \in 1 .. n : runs[k] \in ScriptRuns  OBVIOUS
<1> HIDE DEF n
<1>2. g \in [1 .. n -> [Outcomes -> Outcomes]]
  BY <1>1, NextRunType
<1>3. PICK w : Folding(w, n, Outcomes, base, g)
  <2>1. AreSteps(g, n, Outcomes)  BY <1>2 DEF AreSteps
  <2> HIDE DEF g
  <2> QED  BY <1>0, <1>1, <2>1, FoldExists
<1> DEFINE I == CHOOSE u : u = [s \in SUBSET (1 .. n) |->
                  IF s = {} THEN base ELSE NextRun(u[s \ {Max(s)}], runs[Max(s)])]
<1>4. w = [s \in SUBSET (1 .. n) |->
             IF s = {} THEN base ELSE NextRun(w[s \ {Max(s)}], runs[Max(s)])]
  <2>1. ASSUME NEW s \in SUBSET (1 .. n), s # {}
        PROVE  g[Max(s)][w[s \ {Max(s)}]] = NextRun(w[s \ {Max(s)}], runs[Max(s)])
    <3>1. Max(s) \in 1 .. n  BY <1>3, <2>1 DEF Folding
    <3> DEFINE q == s \ {Max(s)}
    <3>2. q \in SUBSET (1 .. n)  OBVIOUS
    <3> HIDE DEF q
    <3>3. w[q] \in Outcomes  BY <3>2, <1>3 DEF Folding
    <3> QED  BY <3>1, <3>3 DEF q
  <2> HIDE DEF g
  <2> QED  BY <2>1, <1>3 DEF Folding
<1>5. I = [s \in SUBSET (1 .. n) |->
             IF s = {} THEN base ELSE NextRun(I[s \ {Max(s)}], runs[Max(s)])]
  BY <1>4
<1>6. RunsDone(runs) = I[1 .. n]
  BY <1>1 DEF RunsDone, FoldLeft, MapThenFoldSet, base
<1> DEFINE f == [k \in 0 .. n |-> I[1 .. k]]
           T == {k \in 0 .. n : f[k] \in Outcomes}
<1> HIDE DEF I
<1>7. f[0] = base /\ f[n] = I[1 .. n]
  <2>1. 1 .. 0 = {} /\ {} \in SUBSET (1 .. n)  OBVIOUS
  <2>2. I[{}] = base  BY <2>1, <1>5
  <2> QED  BY <1>1, <2>1, <2>2
<1>8. \A k \in 1 .. n : f[k] = NextRun(f[k - 1], runs[k])
  <2> SUFFICES ASSUME NEW k \in 1 .. n PROVE f[k] = NextRun(f[k - 1], runs[k])
    OBVIOUS
  <2>1. k \in Nat /\ 1 .. k \in SUBSET (1 .. n) /\ k \in 1 .. k  BY <1>1
  <2>2. Max(1 .. k) = k  BY <2>1, MaxIs
  <2>3. (1 .. k) \ {k} = 1 .. k - 1  BY <2>1
  <2>4. I[1 .. k] = NextRun(I[1 .. k - 1], runs[k])  BY <2>1, <2>2, <2>3, <1>5
  <2>5. k \in 0 .. n /\ k - 1 \in 0 .. n  BY <1>1
  <2> QED  BY <2>4, <2>5
<1> HIDE DEF f
<1>9. \A k \in 0 .. n : k \in T
  <2>1. 0 \in T  BY <1>0, <1>1, <1>7
  <2>2. \A k \in 0 .. n - 1 : k \in T => k + 1 \in T
    <3> SUFFICES ASSUME NEW k \in 0 .. n - 1, f[k] \in Outcomes PROVE f[k + 1] \in Outcomes
      BY <1>1
    <3>1. k + 1 \in 1 .. n /\ k + 1 - 1 = k  BY <1>1
    <3>2. f[k + 1] = NextRun(f[k], runs[k + 1])  BY <3>1, <1>8
    <3> QED  BY <1>1, <3>1, <3>2, NextRunType
  <2> HIDE DEF T
  <2> QED  BY <1>1, <2>1, <2>2, UpTo
<1>10. f \in [0 .. n -> Outcomes]  BY <1>9 DEF f
<1>11. RunsUpTo(f, runs, n)  BY <1>6, <1>7, <1>8, <1>10 DEF RunsUpTo, base
<1> QED  BY <1>11 DEF n

\* So what holds of the runs so far holds of all of them.
LEMMA SetUpAtLast ==
  ASSUME NEW runs \in Seq(ScriptRuns)
  PROVE  SetUpSoFar(runs, Len(runs), init(runs))
<1> DEFINE n == Len(runs)
<1>0. n \in Nat  OBVIOUS
<1>1. PICK f : RunsUpTo(f, runs, n)  BY RunsFold
<1>2. init(runs) = f[n]
  <2>1. init(runs) = RunsDone(runs)  BY DEF init, RunsDone, NextRun, AtFirst
  <2> QED  BY <1>1, <2>1 DEF RunsUpTo
<1> DEFINE T == {k \in 0 .. n : SetUpSoFar(runs, k, f[k])}
<1>3. 0 \in T  BY <1>0, <1>1, AtFirstSoFar DEF RunsUpTo
<1>4. ASSUME NEW k \in 0 .. n - 1, k \in T PROVE k + 1 \in T
  <2>1. k + 1 \in 1 .. n /\ k + 1 - 1 = k /\ k + 1 \in 0 .. n  BY <1>0
  <2>2. f[k + 1] = NextRun(f[k], runs[k + 1])  BY <1>1, <2>1 DEF RunsUpTo
  <2>3. SetUpSoFar(runs, k + 1 - 1, f[k])  BY <1>4, <2>1
  <2>4. SetUpSoFar(runs, k + 1, f[k + 1])  BY <2>1, <2>2, <2>3, NextRunSoFar
  <2> QED  BY <2>1, <2>4
<1>5. n \in T
  <2>1. \A k \in 0 .. n - 1 : k \in T => k + 1 \in T
    <3> HIDE DEF T
    <3> QED  BY <1>4
  <2> HIDE DEF T, n
  <2>2. \A k \in 0 .. n : k \in T  BY <1>0, <1>3, <2>1, UpTo
  <2> QED  BY <1>0, <2>2
<1> QED  BY <1>2, <1>5

\* init.sh, any number of times, each in any directory, with any glibc and killed in any
\* section: a run that succeeds leaves a system that is fit for builds; and one that has
\* what it needs succeeds, unless one was killed in a section that cannot be repeated.
LEMMA SetUpFits ==
  ASSUME NEW runs \in Seq(ScriptRuns), runs # << >>
  PROVE  SetUpAgain(runs, init(runs))
<1> DEFINE n == Len(runs)
           got == init(runs)
           m == got.machine
           last == Last(runs)
           p == KilledBefore(runs, n - 1)
<1>1. n \in Nat /\ n # 0 /\ n \in 1 .. n /\ last = runs[n] /\ last \in ScriptRuns  BY DEF Last
<1>2. SetUpSoFar(runs, n, got)  BY SetUpAtLast
<1>3. \A a, S : KilledIn(runs, a, S) <=> KilledInAny(runs, a, n - 1, S)
  BY DEF KilledIn, KilledInAny
<1> HIDE DEF got, last, n
<1>4. /\ got.ok => SystemAfter(15, last, m, p)
      /\ got.ok \/ last.killed # 0 \/ ~HasAll(last) \/ "gnat" \in p \/ "wrap" \in p
  BY <1>1, <1>2 DEF SetUpSoFar
<1>5. ASSUME got.ok
      PROVE  /\ m.gcc = "wrapper" /\ m.real /\ m.bin = "wrapper" /\ m.gnats
             /\ {m.interp, m.ld, m.tools} = {last.glibc} /\ Alive(last, m.sbase)
             /\ KilledIn(runs, 1, {"gnat"}) \/ m.gnat = "whole"
             /\ KilledIn(runs, 1, {"font"}) \/ m.font = "whole"
             /\ \/ KilledIn(runs, 1, {"moved", "state"})
                \/ /\ m.cfg = last.pwd
                   /\ m.trees \in {"", last.pwd} /\ m.xgcc \in {"", last.pwd}
                   /\ m.marker => m.xgcc # ""
  <2>1. /\ m \in Systems /\ FilesFit(m, p) /\ ReachedBy(15, last, m)
        /\ PlacedAfter(15, last, m) \/ "moved" \in p
    BY <1>4, <1>5 DEF SystemAfter
  <2> HIDE DEF m, p
  <2>2. /\ m.gnat # "none" /\ m.interp = last.glibc /\ m.tools = last.glibc /\ m.real
        /\ m.gcc = "wrapper" /\ m.ld = last.glibc /\ m.bin = "wrapper" /\ m.gnats
        /\ Alive(last, m.sbase) /\ m.font # "none"
    BY <2>1 DEF ReachedBy
  <2>3. {m.interp, m.ld, m.tools} = {last.glibc}  BY <2>2
  <2>4. KilledIn(runs, 1, {"gnat"}) \/ m.gnat = "whole"
    <3>1. m.gnat = "whole" \/ "gnat" \in p  BY <2>1, <2>2 DEF FilesFit, Systems
    <3> QED  BY <1>3, <3>1, KilledBeforeIs DEF p
  <2>5. KilledIn(runs, 1, {"font"}) \/ m.font = "whole"
    <3>1. m.font = "whole" \/ "font" \in p  BY <2>1, <2>2 DEF FilesFit, Systems
    <3> QED  BY <1>3, <3>1, KilledBeforeIs DEF p
  <2>6. \/ KilledIn(runs, 1, {"moved", "state"})
        \/ /\ m.cfg = last.pwd
           /\ m.trees \in {"", last.pwd} /\ m.xgcc \in {"", last.pwd}
           /\ m.marker => m.xgcc # ""
    <3>1. "moved" \in p => KilledIn(runs, 1, {"moved", "state"})  BY <1>3, KilledBeforeIs DEF p
    <3>2. PlacedAfter(15, last, m) => m.state = last.pwd /\ Placed(m)  BY PlacesAtLast
    <3>3. last.pwd # ""  BY <1>1 DEF ScriptRuns
    <3> QED  BY <2>1, <3>1, <3>2, <3>3 DEF Placed, PlacedAs
  <2> QED  BY <2>2, <2>3, <2>4, <2>5, <2>6
<1>6. \/ got.ok \/ last.killed # 0 \/ ~last.net \/ ~last.font \/ ~last.profile
      \/ last.collected # {} \/ KilledIn(runs, 1, {"gnat"}) \/ KilledIn(runs, 2, {"wrap", "gcc"})
  BY <1>3, <1>4, KilledBeforeIs DEF HasAll
<1> HIDE DEF m, p
<1> QED  BY <1>5, <1>6 DEF SetUpAgain, m, last, got

----------------------------------------------------------------------------
(* Library: calls on files, each made once. *)

\* The answer that counts is the last.
LEMMA RetryEnds ==
  ASSUME NEW a \in Answers
  PROVE  /\ Len(a) \in Nat \ {0} /\ a[Len(a)] \in {"ok", "fail"} /\ Last(a) = a[Len(a)]
         /\ a[1] # "EINTR" => Len(a) = 1
         /\ fs_retry(a).ok <=> a[Len(a)] = "ok"
         /\ fs_retry(a).errno \in IF fs_retry(a).ok THEN {"caller's", "EINTR"} ELSE {"error"}
<1> DEFINE n == Len(a)
           others == {i \in 1 .. n : a[i] # "EINTR"}
<1>1. a \in Seq({"ok", "fail", "EINTR"}) /\ n \in Nat \ {0} /\ DOMAIN a = 1 .. n
  BY EmptySeq DEF Answers
<1>2. \A i \in 1 .. n : a[i] = "EINTR" <=> i < n  BY <1>1 DEF Answers
<1>3. \A i \in 1 .. n : a[i] \in {"ok", "fail", "EINTR"}  BY <1>1
<1>4. others = {n}  BY <1>1, <1>2
<1>5. SelectInSeq(a, LAMBDA x : x # "EINTR") = IF others # {} THEN Min(others) ELSE 0
  BY DEF SelectInSeq
<1>6. Min({n}) = n  BY <1>1 DEF Min
<1>7. SelectInSeq(a, LAMBDA x : x # "EINTR") = n  BY <1>4, <1>5, <1>6
<1>8. /\ a[n] = "ok" => fs_retry(a).ok = TRUE
      /\ a[n] = "fail" => fs_retry(a).ok = FALSE
      /\ fs_retry(a).errno = IF a[n] = "fail" THEN "error"
                             ELSE IF n > 1 THEN "EINTR" ELSE "caller's"
  BY <1>7 DEF fs_retry
<1>9. a[n] \in {"ok", "fail"}  BY <1>1, <1>2, <1>3
<1>10. Last(a) = a[n]  BY DEF Last
<1>11. a[1] # "EINTR" => n = 1  BY <1>1, <1>2
<1>12. fs_retry(a).ok <=> a[n] = "ok"  BY <1>8, <1>9
<1>13. fs_retry(a).errno \in IF fs_retry(a).ok THEN {"caller's", "EINTR"} ELSE {"error"}
  BY <1>8, <1>9, <1>12
<1> QED  BY <1>1, <1>9, <1>10, <1>11, <1>12, <1>13

\* Each call tells of success when it was made and answered well.
LEMMA CallTruth ==
  ASSUME NEW c \in FsCalls
  PROVE  TellsTruth(c, FsCall(c))
<1> DEFINE a == c.answers
<1>1. /\ c.fn \in {"again", "check_file", "same_file", "open", "xclose"}
      /\ c.open \in BOOLEAN /\ c.null \in BOOLEAN /\ c.seekable \in BOOLEAN
      /\ c.check_size \in BOOLEAN /\ c.st \in BOOLEAN /\ a \in Answers
      /\ c.now.regular \in BOOLEAN
  BY DEF FsCalls
<1>2. /\ Len(a) \in Nat \ {0} /\ a[Len(a)] \in {"ok", "fail"} /\ Last(a) = a[Len(a)]
      /\ a[1] # "EINTR" => Len(a) = 1
      /\ fs_retry(a).ok <=> a[Len(a)] = "ok"
      /\ fs_retry(a).errno \in IF fs_retry(a).ok THEN {"caller's", "EINTR"} ELSE {"error"}
  BY <1>1, RetryEnds
<1>3. a[1] \in {"ok", "fail", "EINTR"} /\ (a = <<"ok">> <=> a[1] = "ok")
  <2>1. a \in Seq({"ok", "fail", "EINTR"})  BY <1>1 DEF Answers
  <2>2. Len(a) = 1 => a = <<a[1]>>  BY <2>1
  <2> QED  BY <1>2, <2>1, <2>2
<1>4. a[1] = "fail" => Last(a) = "fail"  BY <1>2
<1>5. CASE c.fn = "again"
  <2>1. FsCall(c) = again_on_eintr(c)  BY <1>5 DEF FsCall
  <2>2. CASE ~c.open \/ c.null
    <3>1. FsCall(c) = failed  BY <2>1, <2>2 DEF again_on_eintr
    <3> QED  BY <1>5, <2>2, <3>1 DEF TellsTruth, failed
  <2>3. CASE c.open /\ ~c.null
    <3>1. FsCall(c) = fs_retry(a)  BY <2>1, <2>3 DEF again_on_eintr
    <3> QED  BY <1>2, <1>5, <2>3, <3>1 DEF TellsTruth
  <2> QED  BY <1>1, <2>2, <2>3
<1>6. CASE c.fn = "check_file"
  <2>1. FsCall(c) = check_file(c)  BY <1>6 DEF FsCall
  <2> QED  BY <1>1, <1>3, <1>6, <2>1 DEF TellsTruth, check_file, failed, well
<1>7. CASE c.fn = "same_file"
  <2>1. FsCall(c) = same_file(c)  BY <1>7 DEF FsCall
  <2> QED  BY <1>1, <1>3, <1>7, <2>1 DEF TellsTruth, same_file, failed, well
<1>8. CASE c.fn = "open"
  <2>1. FsCall(c) = open_file_on_eintr(c)  BY <1>8 DEF FsCall
  <2>2. CASE c.open \/ c.null \/ ~fs_retry(a).ok \/ (c.st /\ ~c.now.regular) \/ ~c.seekable
    <3>1. FsCall(c) = ends  BY <2>1, <2>2 DEF open_file_on_eintr
    <3> QED  BY <1>1, <1>2, <1>8, <2>2, <3>1 DEF TellsTruth, ends
  <2>3. CASE ~(c.open \/ c.null \/ ~fs_retry(a).ok \/ (c.st /\ ~c.now.regular) \/ ~c.seekable)
    <3>1. FsCall(c) = fs_retry(a)  BY <2>1, <2>3 DEF open_file_on_eintr
    <3> QED  BY <1>1, <1>2, <1>8, <2>3, <3>1 DEF TellsTruth
  <2> QED  BY <2>2, <2>3
<1>9. CASE c.fn = "xclose"
  <2>1. FsCall(c) = xclose(c)  BY <1>9 DEF FsCall
  <2> QED  BY <1>1, <1>3, <1>9, <2>1 DEF TellsTruth, xclose, ends, well
<1> QED  BY <1>1, <1>5, <1>6, <1>7, <1>8, <1>9

\* A call is made on one of the inputs, and what it has come to is its answer.
CallInv ==
  /\ fn \in Functions \cup {"rw_exact"}
  /\ fn \in Functions => input \in Inputs[fn]
  /\ fn \in Functions /\ value # None => value = Answer(fn, input)

\* Of each function, what it was called with and what it came to.
LEMMA CallIs ==
  ASSUME CallInv
  PROVE  /\ Called("fs") => input \in FsCalls /\ value = FsCall(input)
         /\ Called("rsize") => input \in 1 .. SIZE_MAX /\ value = rsize(input)
         /\ Called("mac") => input \in MacCalls /\ value = parse_mac_string(input)
         /\ Called("argv") => input \in Arguments /\ value = set_cmd(input)
         /\ Called("dump") => input \in AddressWords /\ value = print_mac_from_nvm(input)
         /\ Called("cat") =>
              /\ IsGbe(input.file) /\ input.cmd \in {"cat", "cat16", "cat128"}
              /\ value = cat(input.file, nff(input.cmd))
         /\ Called("sum") => input \in SumCalls /\ value = cryptsum(input.chunks, input.alg, input.stale)
         /\ Called("check") => input \in Seq(Lists) /\ value = cryptcheck(input)
         /\ Called("sums") => IsProgramCall(input) /\ value = SumProgram(input)
         /\ Called("me7") => input \in Updates /\ value = generate_me_blob(input)
         /\ Called("tmpdir") => input \in Machines \X (Paths \cup {Unset}) /\ value = env_tmpdir(input[1], input[2])
         /\ Called("version") => input \in VersionSources /\ value = Versions(input)
         /\ Called("environment") => input \in Environments /\ value = Environment(input)
         /\ Called("python") => input \in [{"python3", "python"} -> Pythons] /\ value = xbmk_set_pyver(input)
         /\ Called("vendor") => input \in Boards /\ value = getfiles(input)
         /\ Called("import") => input \in Imports /\ value = ImportRun(input)
         /\ Called("setup") => input \in Seq(ScriptRuns) \ {<< >>} /\ value = init(input)
         /\ Called("pico") => input \in Shells /\ value = init_pico(input)
<1>1. \A f \in Functions : Called(f) => fn = f /\ input \in Inputs[f] /\ value = Answer(f, input)
  BY DEF CallInv, Called
<1>2. {"fs", "rsize", "mac", "argv", "dump", "cat", "sum", "check", "sums", "me7", "tmpdir", "version", "environment", "python", "vendor", "import", "setup", "pico"}
        \subseteq Functions
  BY DEF Functions
<1>3. /\ Answer("fs", input) = FsCall(input)
      /\ Answer("rsize", input) = rsize(input)
      /\ Answer("mac", input) = parse_mac_string(input)
      /\ Answer("argv", input) = set_cmd(input)
      /\ Answer("dump", input) = print_mac_from_nvm(input)
      /\ Answer("cat", input) = cat(input.file, nff(input.cmd))
      /\ Answer("sum", input) = cryptsum(input.chunks, input.alg, input.stale)
      /\ Answer("check", input) = cryptcheck(input)
      /\ Answer("sums", input) = SumProgram(input)
      /\ Answer("me7", input) = generate_me_blob(input)
      /\ Answer("tmpdir", input) = env_tmpdir(input[1], input[2])
      /\ Answer("version", input) = Versions(input)
      /\ Answer("environment", input) = Environment(input)
      /\ Answer("python", input) = xbmk_set_pyver(input)
      /\ Answer("vendor", input) = getfiles(input)
      /\ Answer("import", input) = ImportRun(input)
      /\ Answer("setup", input) = init(input)
      /\ Answer("pico", input) = init_pico(input)
  BY DEF Answer
<1>4. /\ input \in Inputs["fs"] => input \in FsCalls
      /\ input \in Inputs["rsize"] => input \in 1 .. SIZE_MAX
      /\ input \in Inputs["mac"] => input \in MacCalls
      /\ input \in Inputs["argv"] => input \in Arguments
      /\ input \in Inputs["dump"] => input \in AddressWords
      /\ input \in Inputs["cat"] => IsGbe(input.file) /\ input.cmd \in {"cat", "cat16", "cat128"}
      /\ input \in Inputs["sum"] => input \in SumCalls
      /\ input \in Inputs["check"] => input \in Seq(Lists)
      /\ input \in Inputs["sums"] => IsProgramCall(input)
      /\ input \in Inputs["me7"] => input \in Updates
      /\ input \in Inputs["tmpdir"] => input \in Machines \X (Paths \cup {Unset})
      /\ input \in Inputs["version"] => input \in VersionSources
      /\ input \in Inputs["environment"] => input \in Environments
      /\ input \in Inputs["python"] => input \in [{"python3", "python"} -> Pythons]
      /\ input \in Inputs["vendor"] => input \in Boards
      /\ input \in Inputs["import"] => input \in Imports
      /\ input \in Inputs["setup"] => input \in Seq(ScriptRuns) \ {<< >>}
      /\ input \in Inputs["pico"] => input \in Shells
  BY InputsAssumption
<1> QED  BY <1>1, <1>2, <1>3, <1>4

LEMMA CallInvInit == LibInit => CallInv /\ Exact
<1> SUFFICES ASSUME LibInit PROVE CallInv /\ Exact
  OBVIOUS
<1>0. Offsets \subseteq Int /\ Counts \subseteq Nat /\ FileMax \in Nat  BY RequestsAssumption
<1>1. Requests \subseteq AnyRequest  BY <1>0 DEF Requests, AnyRequest
<1>5. NoRequest \in AnyRequest  BY DEF AnyRequest, NoRequest, Types
<1>2. \E r \in AnyRequest, s \in Nat : IoInit(r, s)
  BY <1>0, <1>1, <1>5 DEF LibInit
<1>3. Exact  BY <1>2, IoInitExact
<1>4. "rw_exact" \notin Functions  BY DEF Functions
<1> QED  BY <1>3, <1>4 DEF LibInit, CallInv

LEMMA CallInvStep == CallInv /\ Exact /\ [LibNext]_libVars => (CallInv /\ Exact)'
<1> SUFFICES ASSUME CallInv, Exact, [LibNext]_libVars PROVE (CallInv /\ Exact)'
  OBVIOUS
<1>1. CASE Call
  <2>1. UNCHANGED io /\ fn' = fn /\ input' = input  BY <1>1 DEF Call
  <2>2. fn \in Functions /\ value' = Answer(fn, input)  BY <1>1 DEF Call
  <2>3. Answer(fn, input)' = Answer(fn, input)  BY <2>1 DEF Answer
  <2> QED  BY <2>1, <2>2, <2>3, OthersExact DEF CallInv
<1>2. CASE InTransfer(Io)
  <2>1. Io /\ UNCHANGED <<fn, input, value>>  BY <1>2 DEF InTransfer
  <2>2. Exact'  BY <2>1, StartExact, LoopExact, AnsweredExact, OthersExact DEF Io
  <2>3. fn \notin Functions /\ fn' \notin Functions /\ fn' = "rw_exact"
    BY <1>2, <2>1 DEF InTransfer, Functions
  <2> QED  BY <2>2, <2>3 DEF CallInv
<1>3. CASE UNCHANGED libVars
  <2>1. UNCHANGED io /\ UNCHANGED <<fn, input, value>>  BY <1>3 DEF libVars
  <2>2. Answer(fn, input)' = Answer(fn, input)  BY <2>1 DEF Answer
  <2> QED  BY <2>1, <2>2, OthersExact DEF CallInv
<1> QED  BY <1>1, <1>2, <1>3 DEF LibNext

\* Of exact transfers (lib/file.c, lib/rand.c) and the other calls on files (lib/file.c),
\* whatever the system answers and however often it interrupts: one that says that it
\* succeeded has done all that it was asked to do.
THEOREM FailuresToldCorrect == LibSpec => []FailuresTold
<1>1. CallInv /\ Exact => FailuresTold
  <2> SUFFICES ASSUME CallInv, Exact PROVE FailuresTold
    OBVIOUS
  <2>1. AllOrError  BY DEF Exact
  <2>2. Called("fs") => input \in FsCalls /\ value = FsCall(input)
    BY CallIs
  <2> QED  BY <2>1, <2>2, CallTruth DEF FailuresTold
<1> QED  BY <1>1, CallInvInit, CallInvStep, PTL DEF LibSpec

\* Of any update for ME 7 that is made like one (me7_update_parser.py), a region that
\* passes has the modules it needs at their places and nothing of the others; and for
\* any board and any archives (vendor.sh, mrc.sh), each vendor file gets to its own place.
THEOREM VendorFilesMadeCorrect == LibSpec => []VendorFilesMade
<1>1. CallInv => VendorFilesMade
  <2> SUFFICES ASSUME CallInv PROVE VendorFilesMade
    OBVIOUS
  <2>1. ASSUME Called("me7"), Sane(input) PROVE ModulesKept(input, value)
    <3>1. input \in Updates /\ value = generate_me_blob(input)
      BY <2>1, CallIs
    <3> QED  BY <2>1, <3>1, ModulesStay
  <2>2. ASSUME Called("vendor") PROVE FilesInPlace(input, value)
    <3>1. input \in Boards /\ value = getfiles(input)
      BY <2>2, CallIs
    <3> QED  BY <3>1, FilesPlaced
  <2> QED  BY <2>1, <2>2 DEF VendorFilesMade
<1> QED  BY <1>1, CallInvInit, CallInvStep, PTL DEF LibSpec

\* Of what lbmk's programs make for themselves: whatever the environment, the versions
\* and git say, and however often an import fails or the scripts for Guix are killed
\* (env_tmpdir; include/init.sh; include/chromebook.sh; the scripts for Guix), what is
\* taken is fit for its use, or the program fails.
THEOREM EnvironmentFitsCorrect == LibSpec => []EnvironmentFits
<1>1. CallInv => EnvironmentFits
  <2> SUFFICES ASSUME CallInv PROVE EnvironmentFits
    OBVIOUS
  <2>1. ASSUME Called("tmpdir") PROVE DirectoryFits(input[1], input[2], value)
    <3>1. input \in Machines \X (Paths \cup {Unset}) /\ value = env_tmpdir(input[1], input[2])
      BY <2>1, CallIs
    <3>2. input[1] \in Machines /\ input[2] \in Paths \cup {Unset}  BY <3>1
    <3> QED  BY <3>1, <3>2, DirectoryChosen
  <2>2. ASSUME Called("version") PROVE VersionFits(input, value)
    <3>1. input \in VersionSources /\ value = Versions(input)
      BY <2>2, CallIs
    <3> QED  BY <3>1, VersionsFit
  <2>3. ASSUME Called("environment") PROVE InheritedAsItIs(input, value)
    <3>1. input \in Environments /\ value = Environment(input)
      BY <2>3, CallIs
    <3> QED  BY <3>1, InheritedFits
  <2>4. ASSUME Called("python") PROVE PythonFits(input, value)
    <3>1. input \in [{"python3", "python"} -> Pythons] /\ value = xbmk_set_pyver(input)
      BY <2>4, CallIs
    <3> QED  BY <3>1, PythonsFit
  <2>5. ASSUME Called("import") PROVE ImportWhole(input, value)
    <3>1. input \in Imports /\ value = ImportRun(input)
      BY <2>5, CallIs
    <3> QED  BY <3>1, Imported
  <2>6. ASSUME Called("setup") PROVE SetUpAgain(input, value)
    <3>1. input \in Seq(ScriptRuns) /\ input # << >> /\ value = init(input)
      BY <2>6, CallIs
    <3> QED  BY <3>1, SetUpFits
  <2>7. ASSUME Called("pico") PROVE PicoFirst(input, value)
    <3>1. input \in Shells /\ value = init_pico(input)
      BY <2>7, CallIs
    <3> QED  BY <3>1, PicoIs
  <2> QED  BY <2>1, <2>2, <2>3, <2>4, <2>5, <2>6, <2>7 DEF EnvironmentFits
<1> QED  BY <1>1, CallInvInit, CallInvStep, PTL DEF LibSpec

\* Of what libreboot-utils and the programs of sbase compute (lib/rand.c, lib/num.c,
\* lib/command.c, lib/state.c, util/sbase/libutil/crypt.c): for every address, message,
\* list, command line and image, what is drawn, set, printed, summed, checked, run or
\* cut is what was asked for.
THEOREM NumbersAsAskedCorrect == LibSpec => []NumbersAsAsked
<1>1. CallInv => NumbersAsAsked
  <2> SUFFICES ASSUME CallInv PROVE NumbersAsAsked
    OBVIOUS
  <2>1. ASSUME Called("rsize") PROVE Unbiased(input, value)
    BY <2>1, CallIs, RsizeUnbiased
  <2>2. ASSUME Called("mac") PROVE MacAsAsked(input, value)
    BY <2>2, CallIs, MacIs
  <2>3. ASSUME Called("dump") PROVE PrintsWhatIsSet(input, value)
    BY <2>3, CallIs, PrintsIs
  <2>4. ASSUME Called("sum") PROVE SumOfMessage(input, value)
    BY <2>4, CallIs, SumIs
  <2>5. ASSUME Called("check") PROVE ListHolds(input, value)
    BY <2>5, CallIs, ListIs
  <2>6. ASSUME Called("sums") PROVE ListIsChecked(input, value)
    BY <2>6, CallIs, ListOfProgram
  <2>7. ASSUME Called("argv") PROVE RunsAsWritten(input, value)
    BY <2>7, CallIs, CommandAsWritten
  <2>8. ASSUME Called("cat") PROVE IsFileOfSize(input.file, value, 2 * (nff(input.cmd) + 1))
    <3>1. /\ IsGbe(input.file) /\ input.cmd \in {"cat", "cat16", "cat128"}
          /\ value = cat(input.file, nff(input.cmd))
      BY <2>8, CallIs
    <3> QED  BY <3>1, CatOfSize
  <2> QED  BY <2>1, <2>2, <2>3, <2>4, <2>5, <2>6, <2>7, <2>8 DEF NumbersAsAsked
<1> QED  BY <1>1, CallInvInit, CallInvStep, PTL DEF LibSpec
=============================================================================
