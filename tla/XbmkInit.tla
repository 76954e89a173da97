------------------------------ MODULE XbmkInit ------------------------------
(***************************************************************************)
(* Instances of ./mk in one work directory (mk, include/init.sh).          *)
(*                                                                         *)
(* A parent instance makes a private temporary directory, writes its name  *)
(* to the file "lock", makes that file read-only, prepares the directory   *)
(* and runs a child instance; when the child has ended it removes the      *)
(* directory and the lock.  A child, and every child it runs in turn,      *)
(* checks that the lock still names the TMPDIR it inherited.               *)
(*                                                                         *)
(* A temporary directory is identified with the parent that made it:       *)
(* mktemp -d never returns a name twice.  An instance can be killed at     *)
(* any point, alone or with the children it runs; the user may delete a    *)
(* lock, but only once nothing is running.                                 *)
(***************************************************************************)
EXTENDS Naturals, Sequences

CONSTANTS
  Parents,            \* the parent instances, each one run of ./mk by a user
  MaxNest,            \* bound: depth of children running children
  MaxCalls,           \* bound: children one instance runs altogether
  OverlappingStarts   \* may a parent open the lock while another one is
                      \* between opening it and making it read-only?

ASSUME ParentsAssumption == Parents \cap {"absent", "empty"} = {}
ASSUME BoundsAssumption  == MaxNest \in Nat \ {0} /\ MaxCalls \in Nat \ {0}
ASSUME OverlapAssumption == OverlappingStarts \in BOOLEAN

VARIABLES
  lockfile,  \* "absent", "empty" (just truncated), or the parent it names
  readonly,  \* chmod -w has been applied to the lock
  writers,   \* parents whose open descriptor is on the current lock file
  tmpdirs,   \* parents whose $xbtmp exists
  pylinks,   \* parents whose $xbtmp/xbmkpath/python exists
  pc,        \* where each parent is
  kids,      \* each parent's stack of children, the innermost one last
  calls      \* children each parent's instance has run

vars == <<lockfile, readonly, writers, tmpdirs, pylinks, pc, kids, calls>>

lockVars == <<lockfile, readonly, writers>>

Starting == {"start", "tmp", "opened", "written"}
Holding  == {"setup", "python", "git", "exec", "wait", "orphan",
             "cleanup", "unlock"}
Ended    == {"done", "failed", "killed"}
Kid      == {"check", "run", "trees", "cmd"}

TypeOK ==
  /\ lockfile \in {"absent", "empty"} \cup Parents
  /\ readonly \in BOOLEAN
  /\ writers \subseteq Parents
  /\ tmpdirs \subseteq Parents
  /\ pylinks \subseteq Parents
  /\ pc \in [Parents -> Starting \cup Holding \cup Ended]
  /\ kids \in [Parents -> Seq(Kid)]
  /\ calls \in [Parents -> Nat]

Init ==
  /\ lockfile = "absent"
  /\ readonly = FALSE
  /\ writers = {}
  /\ tmpdirs = {}
  /\ pylinks = {}
  /\ pc = [p \in Parents |-> "start"]
  /\ kids = [p \in Parents |-> << >>]
  /\ calls = [p \in Parents |-> 0]

Goto(p, from, to) == pc[p] = from /\ pc' = [pc EXCEPT ![p] = to]

-----------------------------------------------------------------------------
(* Mutants: what a plausible slip in init.sh would make of an action below. *)

\* The lock is opened although another instance has made it read-only.
OpenLockForced(p) ==
  /\ Goto(p, "tmp", "opened")
  /\ lockfile' = "empty"
  /\ readonly' = FALSE
  /\ writers' = writers \cup {p}
  /\ UNCHANGED <<tmpdirs, pylinks, kids, calls>>

\* A failing child ends the parent at once (no subshell around x_ ./mk).
ChildErrExits(p) ==
  /\ kids[p] # << >>
  /\ kids' = [kids EXCEPT ![p] = << >>]
  /\ pc' = [pc EXCEPT ![p] = "failed"]
  /\ UNCHANGED <<lockVars, tmpdirs, pylinks, calls>>

-----------------------------------------------------------------------------
(* The parent. *)

\* xbmk_parent_check_tmp: a fresh temporary directory.
MakeTmp(p) ==
  /\ Goto(p, "start", "tmp")
  /\ tmpdirs' = tmpdirs \cup {p}
  /\ UNCHANGED <<lockVars, pylinks, kids, calls>>

\* The shell opens the lock for the redirection: it creates or truncates it.
OpenLock(p) ==
  /\ Goto(p, "tmp", "opened")
  /\ lockfile = "absent" \/ ~readonly
  /\ OverlappingStarts \/ \A q \in Parents : pc[q] \notin {"opened", "written"}
  /\ lockfile' = "empty"
  /\ readonly' = FALSE
  /\ writers' = writers \cup {p}
  /\ UNCHANGED <<tmpdirs, pylinks, kids, calls>>

\* The lock is there and read-only: "cannot create lock".
LockRefused(p) ==
  /\ Goto(p, "tmp", "failed")
  /\ lockfile # "absent" /\ readonly
  /\ UNCHANGED <<lockVars, tmpdirs, pylinks, kids, calls>>

\* printf writes the name; after another parent's rm it reaches no file.
WriteLock(p) ==
  /\ Goto(p, "opened", "written")
  /\ lockfile' = IF p \in writers THEN p ELSE lockfile
  /\ writers' = writers \ {p}
  /\ UNCHANGED <<readonly, tmpdirs, pylinks, kids, calls>>

ProtectLock(p) ==
  /\ Goto(p, "written", "setup")
  /\ lockfile # "absent"
  /\ readonly' = TRUE
  /\ UNCHANGED <<lockfile, writers, tmpdirs, pylinks, kids, calls>>

\* remkdir "$xbtmp" "$xbtmp/gnupath" "$xbtmp/xbmkpath"
MakeDirs(p) ==
  /\ Goto(p, "setup", "python")
  /\ tmpdirs' = tmpdirs \cup {p}
  /\ pylinks' = pylinks \ {p}
  /\ UNCHANGED <<lockVars, kids, calls>>

\* xbmk_set_pyver: put "python" in PATH.
LinkPython(p) ==
  /\ Goto(p, "python", "git")
  /\ pylinks' = pylinks \cup {p}
  /\ UNCHANGED <<lockVars, tmpdirs, kids, calls>>

GitInit(p) ==
  /\ Goto(p, "git", "exec")
  /\ UNCHANGED <<lockVars, tmpdirs, pylinks, kids, calls>>

\* xbmk_child_exec runs the command in a child ...
RunChild(p) ==
  /\ Goto(p, "exec", "wait")
  /\ kids' = [kids EXCEPT ![p] = <<"check">>]
  /\ calls' = [calls EXCEPT ![p] = 1]
  /\ UNCHANGED <<lockVars, tmpdirs, pylinks>>

\* ... waits for it, whatever its exit status ...
ChildEnded(p) ==
  /\ Goto(p, "wait", "cleanup")
  /\ kids[p] = << >>
  /\ UNCHANGED <<lockVars, tmpdirs, pylinks, kids, calls>>

\* ... and removes the directory, then the lock.
RemoveTmp(p) ==
  /\ Goto(p, "cleanup", "unlock")
  /\ tmpdirs' = tmpdirs \ {p}
  /\ pylinks' = pylinks \ {p}
  /\ UNCHANGED <<lockVars, kids, calls>>

RemoveLock(p) ==
  /\ Goto(p, "unlock", "done")
  /\ lockfile' = "absent"
  /\ readonly' = FALSE
  /\ writers' = {}
  /\ UNCHANGED <<tmpdirs, pylinks, kids, calls>>

\* err anywhere between the first step and xbmk_child_exec: exit 1, no cleanup.
ParentErr(p) ==
  /\ pc[p] \in {"start", "tmp", "opened", "written", "setup", "python", "git"}
  /\ pc' = [pc EXCEPT ![p] = "failed"]
  /\ writers' = writers \ {p}
  /\ UNCHANGED <<lockfile, readonly, tmpdirs, pylinks, kids, calls>>

-----------------------------------------------------------------------------
(* The innermost child of p's instance, the only one that runs. *)

Depth(p) == Len(kids[p])
Inner(p) == kids[p][Depth(p)]
Working(p) == kids[p] # << >> /\ Inner(p) \in {"trees", "cmd"}

SetInner(p, k) == kids' = [kids EXCEPT ![p][Depth(p)] = k]
EndInner(p)    == kids' = [kids EXCEPT ![p] = SubSeq(@, 1, Len(@) - 1)]
EndAll(p)      == kids' = [kids EXCEPT ![p] = << >>]

ChildUnchanged == UNCHANGED <<lockVars, tmpdirs, pc>>

\* xbmk_child_set_tmp: go on only if the lock names the inherited TMPDIR.
CheckLock(p) ==
  /\ kids[p] # << >> /\ Inner(p) = "check"
  /\ IF lockfile = p THEN SetInner(p, "run") ELSE EndAll(p)
  /\ ChildUnchanged /\ UNCHANGED <<pylinks, calls>>

\* trees() of a command "-b ...": remkdir "${tmpgit%/*}", which is $xbtmp.
RunTrees(p) ==
  /\ kids[p] # << >> /\ Inner(p) = "run"
  /\ SetInner(p, "trees")
  /\ pylinks' = pylinks \ {p}
  /\ ChildUnchanged /\ UNCHANGED calls

\* release, download, inject or prep_mr_import.
RunCommand(p) ==
  /\ kids[p] # << >> /\ Inner(p) = "run"
  /\ SetInner(p, "cmd")
  /\ ChildUnchanged /\ UNCHANGED <<pylinks, calls>>

\* x_ ./mk ... from inside a command.
RunNested(p) ==
  /\ Working(p)
  /\ Depth(p) < MaxNest /\ calls[p] < MaxCalls
  /\ kids' = [kids EXCEPT ![p] = Append(@, "check")]
  /\ calls' = [calls EXCEPT ![p] = @ + 1]
  /\ ChildUnchanged /\ UNCHANGED pylinks

Return(p) ==
  /\ Working(p)
  /\ EndInner(p)
  /\ ChildUnchanged /\ UNCHANGED <<pylinks, calls>>

\* err in a child; x_ makes every instance above it fail as well.
ChildErr(p) ==
  /\ kids[p] # << >>
  /\ EndAll(p)
  /\ ChildUnchanged /\ UNCHANGED <<pylinks, calls>>

-----------------------------------------------------------------------------
(* The environment. *)

\* The whole process group dies (interrupt, power loss).
Kill(p) ==
  /\ pc[p] \notin Ended
  /\ pc' = [pc EXCEPT ![p] = "killed"]
  /\ EndAll(p)
  /\ writers' = writers \ {p}
  /\ UNCHANGED <<lockfile, readonly, tmpdirs, pylinks, calls>>

\* Only the waiting parent dies; its children go on.  A nested child that is killed
\* alone is left out: there the parent above it removes the directory and the lock
\* while the child below it works, so that OneBuild does not hold.
KillParent(p) ==
  /\ Goto(p, "wait", "orphan")
  /\ UNCHANGED <<lockVars, tmpdirs, pylinks, kids, calls>>

OrphansEnded(p) ==
  /\ Goto(p, "orphan", "killed")
  /\ kids[p] = << >>
  /\ UNCHANGED <<lockVars, tmpdirs, pylinks, kids, calls>>

\* The user deletes a stale lock, having made sure that nothing runs.
UserUnlock ==
  /\ lockfile # "absent"
  /\ \A p \in Parents : pc[p] \in Ended \cup {"start"}
  /\ lockfile' = "absent"
  /\ readonly' = FALSE
  /\ writers' = {}
  /\ UNCHANGED <<tmpdirs, pylinks, pc, kids, calls>>

ParentStep(p) ==
  \/ MakeTmp(p) \/ OpenLock(p) \/ LockRefused(p) \/ WriteLock(p)
  \/ ProtectLock(p) \/ MakeDirs(p) \/ LinkPython(p) \/ GitInit(p)
  \/ RunChild(p) \/ ChildEnded(p) \/ RemoveTmp(p) \/ RemoveLock(p)
  \/ ParentErr(p)

ChildStep(p) ==
  \/ CheckLock(p) \/ RunTrees(p) \/ RunCommand(p)
  \/ RunNested(p) \/ Return(p) \/ ChildErr(p)

Next ==
  \/ \E p \in Parents : ParentStep(p)
  \/ \E p \in Parents : ChildStep(p)
  \/ \E p \in Parents : Kill(p) \/ KillParent(p) \/ OrphansEnded(p)
  \/ UserUnlock

Spec == Init /\ [][Next]_vars

\* A process that is not killed keeps running; killing and the user's help
\* are never required.
Fairness == \A p \in Parents : WF_vars(ParentStep(p)) /\ WF_vars(ChildStep(p))

FairSpec == Spec /\ Fairness

-----------------------------------------------------------------------------
Running(p) == kids[p] # << >> /\ kids[p][1] # "check"

\* While a child of an instance is past its check, the lock exists, is
\* read-only and names that instance, whose temporary directory exists
\* (init.sh, xbmk_child_set_tmp and xbmk_parent_set_env).
RunnerHoldsLock ==
  \A p \in Parents :
    Running(p) => lockfile = p /\ readonly /\ p \in tmpdirs

\* Two instances never run commands in the same work directory at once: what
\* the lock of xbmk_parent_set_env is for.
OneBuild ==
  \A p, q \in Parents : Running(p) /\ Running(q) => p = q

\* An instance that got as far as running its child removes its lock, also
\* when the child fails, unless it is killed (xbmk_child_exec).
LockReleased ==
  \A p \in Parents :
    pc[p] = "exec" ~> pc[p] \in {"orphan", "killed"} \/ lockfile # p

=============================================================================
