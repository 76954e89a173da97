---------------------------- MODULE Mkhtemp ----------------------------
(* Creating files and directories with unique names: new_tmp_common and    *)
(* what it calls, lib/mkhtemp.c of libreboot-utils. Several programs make  *)
(* temporary files in one directory, in which others create and remove     *)
(* files as they like.                                                     *)
EXTENDS FiniteSets, TmpDir

CONSTANTS Creators,     \* programs that call new_tmpfile or new_tmpdir once
          Names,        \* the names that rchars can make of the template
          RetryMax,     \* MKHTEMP_RETRY_MAX
          Surroundings  \* machines (see TmpDir) that they run on

ASSUME RetryMaxAssumption == RetryMax \in Nat \ {0}
ASSUME FreshAssumption == {"free", "other", "none", "tmpdir"} \cap (Creators \cup Names) = {}

VARIABLES
    dir,      \* what has a name: the file of a creator, or of somebody else
    janitor,  \* does somebody with the same user remove the creators' files?
    pc, type,
    name,     \* fname_copy: the name tried last
    retries,  \* in mkhtemp
    spins,    \* in mkhtemp_tmpfile_linux
    open,     \* the descriptors that are open ...
    fd,       \* ... and the one in *fd
    path,     \* *path
    left      \* creators that failed to remove a file of theirs

vars == <<dir, janitor, pc, type, name, retries, spins, open, fd, path, left>>
------------------------------------------------------------------------
(* The steps of one creator. A system call may fail at any of them.        *)

Init ==
    /\ dir \in [Names -> {"free", "other"}]
    /\ janitor \in BOOLEAN
    /\ pc = [p \in Creators |-> "start"]
    /\ type \in [Creators -> {"file", "directory"}]
    /\ name = [p \in Creators |-> "none"]
    /\ retries = [p \in Creators |-> 0]
    /\ spins = [p \in Creators |-> 0]
    /\ open = [p \in Creators |-> {}]
    /\ fd = [p \in Creators |-> "none"]
    /\ path = [p \in Creators |-> "none"]
    /\ left = {}

Goto(p, l) == pc' = [pc EXCEPT ![p] = l]

(* The end of new_tmp_common: with a file, or with an error, on which the  *)
(* path is that of the directory.                                          *)
Return(p, result) ==
    /\ Goto(p, "done")
    /\ path' = [path EXCEPT ![p] = name[p]]
    /\ fd' = [fd EXCEPT ![p] = result]
    /\ open' = [open EXCEPT ![p] = (@ \ {"dir"}) \cup {result}]

Fail(p) ==
    /\ Goto(p, "failed")
    /\ path' = [path EXCEPT ![p] = "tmpdir"]
    /\ fd' = [fd EXCEPT ![p] = "none"]
    /\ open' = [open EXCEPT ![p] = @ \ {"dir", "file"}]

(* A directory is found and opened, or not. The path is not touched if     *)
(* there is none to name.                                                  *)
new_tmp_common(p) ==
    /\ pc[p] = "start"
    /\ \E mc \in Surroundings :
        \/ /\ env_tmpdir(mc, Unset) # Unset
           /\ Goto(p, "try")
           /\ open' = [open EXCEPT ![p] = {"dir"}]
           /\ UNCHANGED <<path, fd>>
        \/ /\ env_tmpdir(mc, Unset) # Unset \/ mc.TMPDIR # Unset
           /\ Fail(p)
        \/ /\ env_tmpdir(mc, Unset) = Unset /\ mc.TMPDIR = Unset
           /\ Goto(p, "failed")
           /\ UNCHANGED <<open, path, fd>>
    /\ UNCHANGED <<dir, janitor, type, name, retries, spins, left>>

Holds(n, p) == dir' = [dir EXCEPT ![n] = p]

(* unlinkat by name: of whatever has the name by now, if it is of the kind *)
(* that is to be removed, a file or a directory.                           *)
Removable(n, p) ==
    dir[n] # "free" /\ (IF dir[n] = "other" THEN "file" ELSE type[dir[n]]) = type[p]

(* Mutants: what a plausible slip would make of a definition below. The    *)
(* error path forgets to remove the file; collisions are not counted;      *)
(* O_EXCL is missing; the name is removed whether the file was created or  *)
(* not.                                                                    *)
no_unlink(p) == UNCHANGED <<dir, left>>

retry_for_ever(p) ==
    Goto(p, "try") /\ fd' = [fd EXCEPT ![p] = "none"] /\ UNCHANGED <<open, path, retries>>

open_existing(p) == Holds(name[p], p)

unlink_anyway(p) == Fail(p) /\ Holds(name[p], "free") /\ UNCHANGED retries

unlinkat(p) ==
    \/ Removable(name[p], p) /\ Holds(name[p], "free") /\ UNCHANGED left
    \/ ~Removable(name[p], p) /\ UNCHANGED <<dir, left>>
    \/ UNCHANGED dir /\ left' = left \cup {p}

(* mkhtemp_try_create for a file. The fast path first: a file without a    *)
(* name; where there is no such thing, the slow path with a name.          *)
TryFile(p) ==
    /\ pc[p] = "try" /\ type[p] = "file"
    /\ \/ /\ Goto(p, "link")
          /\ open' = [open EXCEPT ![p] = @ \cup {"tmp"}]
          /\ UNCHANGED <<name, fd, path>>
       \/ /\ Goto(p, "create")
          /\ \E n \in Names : name' = [name EXCEPT ![p] = n]
          /\ UNCHANGED <<open, fd, path>>
       \/ Fail(p) /\ UNCHANGED name
    /\ spins' = [spins EXCEPT ![p] = 0]
    /\ UNCHANGED <<dir, janitor, type, retries, left>>

(* The file is given up, and the slow path is next, with the same name.    *)
SlowPath(p) ==
    /\ Goto(p, "create")
    /\ open' = [open EXCEPT ![p] = @ \ {"tmp"}]

(* linkat: a collision is tried again.                                     *)
Link(p) ==
    /\ pc[p] = "link"
    /\ \E n \in Names :
        /\ name' = [name EXCEPT ![p] = n]
        /\ \/ /\ dir[n] = "free"
              /\ Holds(n, p)
              /\ Goto(p, "linked")
              /\ UNCHANGED <<open, spins>>
           \/ /\ dir[n] # "free"
              /\ spins[p] + 1 < RetryMax
              /\ spins' = [spins EXCEPT ![p] = @ + 1]
              /\ UNCHANGED <<dir, open, pc>>
           \/ SlowPath(p) /\ UNCHANGED <<dir, spins>>
    /\ UNCHANGED <<janitor, type, retries, fd, path, left>>

(* What secure_file can only accept: a file that still has its one name.   *)
secure_file(p) == dir[name[p]] = p

(* The linked file is looked at. *fd is set by then, or not yet.           *)
Linked(p) ==
    /\ pc[p] = "linked"
    /\ \/ secure_file(p) /\ Return(p, "tmp") /\ UNCHANGED <<dir, left>>
       \/ /\ unlinkat(p)
          /\ SlowPath(p)
          /\ fd' \in {fd, [fd EXCEPT ![p] = "tmp"]}
          /\ UNCHANGED path
    /\ UNCHANGED <<janitor, type, name, retries, spins>>

(* openat with O_EXCL: a collision goes back to the loop in mkhtemp, which *)
(* makes up another name.                                                  *)
Collision(p) ==
    IF retries[p] + 1 < RetryMax
    THEN /\ Goto(p, "try")
         /\ retries' = [retries EXCEPT ![p] = @ + 1]
         /\ fd' = [fd EXCEPT ![p] = "none"]
         /\ UNCHANGED <<open, path>>
    ELSE Fail(p) /\ UNCHANGED retries

Exclusive(p) == dir[name[p]] = "free" /\ Holds(name[p], p)

GiveUp(p) == Fail(p) /\ UNCHANGED <<dir, retries>>

Create(p) ==
    /\ pc[p] = "create"
    /\ \/ /\ Exclusive(p)
          /\ Goto(p, "created")
          /\ fd' = [fd EXCEPT ![p] = "file"]
          /\ open' = [open EXCEPT ![p] = @ \cup {"file"}]
          /\ UNCHANGED <<retries, path>>
       \/ dir[name[p]] # "free" /\ Collision(p) /\ UNCHANGED dir
       \/ GiveUp(p)
    /\ UNCHANGED <<janitor, type, name, spins, left>>

(* mkdirat for a directory: a collision is an error like any other.        *)
TryDirectory(p) ==
    /\ pc[p] = "try" /\ type[p] = "directory"
    /\ \E n \in Names :
        /\ name' = [name EXCEPT ![p] = n]
        /\ \/ dir[n] = "free" /\ Holds(n, p) /\ Goto(p, "made") /\ UNCHANGED <<open, fd, path>>
           \/ Fail(p) /\ UNCHANGED dir
    /\ UNCHANGED <<janitor, type, retries, spins, left>>

(* The new directory is opened by its name, and may be another by then.    *)
Made(p) ==
    /\ pc[p] = "made"
    /\ LET found == dir[name[p]]
       IN \/ /\ found \in Creators /\ type[found] = "directory"
             /\ Return(p, "file")
             /\ UNCHANGED <<dir, left>>
          \/ unlinkat(p) /\ Fail(p)
    /\ UNCHANGED <<janitor, type, name, retries, spins>>

(* The created file is looked at.                                          *)
Created(p) ==
    /\ pc[p] = "created"
    /\ \/ secure_file(p) /\ Return(p, "file") /\ UNCHANGED <<dir, left>>
       \/ unlinkat(p) /\ Fail(p)
    /\ UNCHANGED <<janitor, type, name, retries, spins>>

Step(p) ==
    \/ new_tmp_common(p)
    \/ TryFile(p) \/ Link(p) \/ Linked(p) \/ Create(p) \/ Created(p)
    \/ TryDirectory(p) \/ Made(p)
------------------------------------------------------------------------
(* The others. A creator is killed, or ends because a close failed.        *)
Ended == {"done", "failed", "killed"}

Kill(p) ==
    /\ pc[p] \notin Ended
    /\ Goto(p, "killed")
    /\ open' = [open EXCEPT ![p] = {}]
    /\ fd' = [fd EXCEPT ![p] = "none"]
    /\ UNCHANGED <<dir, janitor, type, name, retries, spins, path, left>>

OthersAct(n) ==
    /\ dir' = [dir EXCEPT ![n] = IF @ = "free" THEN "other" ELSE "free"]
    /\ dir[n] \in {"free", "other"} \/ janitor
    /\ UNCHANGED <<janitor, pc, type, name, retries, spins, open, fd, path, left>>

Next ==
    \/ \E p \in Creators : Step(p) \/ Kill(p)
    \/ \E n \in Names : OthersAct(n)

Spec == Init /\ [][Next]_vars /\ \A p \in Creators : WF_vars(Step(p))
------------------------------------------------------------------------
(* Properties.                                                             *)

PC == {"start", "try", "link", "linked", "create", "created", "made"} \cup Ended

TypeOK ==
    /\ dir \in [Names -> {"free", "other"} \cup Creators]
    /\ janitor \in BOOLEAN
    /\ pc \in [Creators -> PC]
    /\ type \in [Creators -> {"file", "directory"}]
    /\ name \in [Creators -> Names \cup {"none"}]
    /\ retries \in [Creators -> 0..(RetryMax - 1)]
    /\ spins \in [Creators -> 0..(RetryMax - 1)]
    /\ open \in [Creators -> SUBSET {"dir", "tmp", "file"}]
    /\ fd \in [Creators -> {"none", "tmp", "file"}]
    /\ path \in [Creators -> Names \cup {"none", "tmpdir"}]
    /\ left \subseteq Creators

(* What a creator was told stays its own: the path of a finished one leads *)
(* to its file and to nobody else's, whatever the other creators do, also  *)
(* when they clean up by name after an error.                              *)
Unique ==
    ~janitor =>
        \A p \in Creators : pc[p] = "done" => path[p] \in Names /\ dir[path[p]] = p

(* A creator neither replaces nor removes what is not its own.             *)
OthersKept ==
    [][~janitor =>
         \A p \in Creators, n \in Names :
            Step(p) /\ dir[n] \notin {"free", p} => dir'[n] = dir[n]]_vars

(* A creator that reports failure leaves nothing behind, unless removing   *)
(* it failed; one that reports success has removed its other attempts.     *)
(* Descriptors are closed on every way out, and a number that is closed    *)
(* already (see the TODO in mkhtemp_tmpfile_linux) is never closed again:  *)
(* it stays in *fd only until openat overwrites it.                        *)
NothingLeft ==
    /\ \A p \in Creators \ left :
         /\ pc[p] = "failed" => \A n \in Names : dir[n] # p
         /\ pc[p] = "done" => \A n \in Names : dir[n] = p => n = path[p]
    /\ \A p \in Creators :
         /\ pc[p] \in {"failed", "killed"} => open[p] = {}
         /\ pc[p] = "done" => open[p] = {fd[p]}
         /\ fd[p] \in open[p] \cup {"none"} \/ pc[p] = "create"

(* A creator ends, although others may keep on taking its names.           *)
CreatorsEnd == \A p \in Creators : pc[p] = "try" ~> pc[p] \in Ended
========================================================================
