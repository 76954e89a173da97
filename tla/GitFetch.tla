------------------------------ MODULE GitFetch -----------------------------
(***************************************************************************)
(* Fetching the source tree of a project with git (./mk -f; include/get.sh:*)
(* fetch_targets, fetch_project, clone_project, git_prep, fetch_submodule, *)
(* xbget, try_fetch_git, try_git, tmpclone; and include/tree.sh:           *)
(* delete_old_project_files, project_up_to_date, which run before).        *)
(*                                                                         *)
(* A hash of the configuration is recorded in cache/hash; when it differs, *)
(* the old tree is removed, and one that is not there is fetched.  The     *)
(* hash of a multi-tree project covers the pinned revision; that of a      *)
(* single-tree project does not (its revision is in config/git/), only its *)
(* patches and submodules.                                                 *)
(*                                                                         *)
(* A tree is the clone of a main repository with the clones of its         *)
(* submodules inside.  Each repository has a main and a backup URL, and    *)
(* each URL a clone in cache/clone (or cache/mirror).  From the cache it   *)
(* is cloned to a temporary directory, reset to the configured revision    *)
(* and patched; once all is there, the directory is renamed to src/.       *)
(* The program can be killed between any two commands; what a killed       *)
(* command leaves in the temporary directory is removed by the next run.   *)
(* cache/ and src/ are on one file system, so mv is a rename.              *)
(*                                                                         *)
(* Revisions are numbered in the order the configuration adopts them, and  *)
(* a clone that has one has the earlier ones.  That it goes back to an     *)
(* older one is modelled in BuildTree only.                                *)
(***************************************************************************)
EXTENDS Naturals, Sequences

CONSTANTS
  Repos,     \* the sequence of repositories, the main one first
  Patches,   \* how many patches the configuration has for each of them
  Urls,      \* the URLs of a repository, a sequence: main, backup
  Networks,  \* what the URLs may do during a run: of each, a set of "no" (it
             \* fails), "old" (without the configured revision), "new"
  MaxRev     \* bounds the changes of the configured revision

ASSUME GitFetchAssumption ==
  /\ Len(Repos) \in Nat \ {0}
  /\ \A i, j \in 1..Len(Repos) : Repos[i] = Repos[j] => i = j
  /\ \A r \in 1..Len(Repos) : Patches[Repos[r]] \in Nat
  /\ Len(Urls) \in Nat \ {0}
  /\ Networks \subseteq [1..Len(Urls) -> SUBSET {"no", "old", "new"}]
  /\ Networks # {}
  /\ MaxRev \in Nat \ {0}

Repo == {Repos[i] : i \in 1..Len(Repos)}
Url  == 1..Len(Urls)

\* Every repository at one revision, with all of its patches; no directory; and
\* what a killed rm -Rf leaves of one, which is no tree of any revision.
Whole(v) == [r \in Repo |-> [rev |-> v, patches |-> Patches[r]]]
Nothing  == [r \in Repo |-> [rev |-> 0, patches |-> 0]]
Rubble   == [r \in Repo |-> [rev |-> 0, patches |-> 1]]
Parts    == [Repo -> [rev : 0..MaxRev, patches : Nat]]

BadHash == MaxRev + 1   \* an empty file in cache/hash

VARIABLES
  single,    \* is the project single-tree?  (fixed)
  rev,       \* the configured revision
  hashed,    \* the newest of the changes to rev that the hash covers
  recorded,  \* what hashed was when the hash was recorded, 0 if there is none
  clones,    \* the newest revision in the clone of each repository's URLs in
             \* the cache, 0 if there is no clone
  tmpcache,  \* the same of the clone being made ($xbtmp/tmpgit)
  work,      \* what has been put together in $xbtmp/gitclone
  src,       \* the source tree
  pc,        \* the next command
  cur,       \* which of Repos is being fetched
  url,       \* which of its URLs is tried
  forcepull, \* -F: pull even if the revision is in the cache
  net,       \* the behaviour of the URLs during the run
  offline,   \* when the run started, the cache had all that it needs
  fresh,     \* when the run started, no clone in the cache was behind
  outcome    \* how the last run ended

\* What is chosen, or true, when a run starts.
start == <<forcepull, net, offline, fresh>>
\* The configuration, and what is recorded of it.
conf  == <<single, rev, hashed, recorded>>
vars  == <<single, rev, hashed, recorded, clones, tmpcache, work, src, pc, cur,
           url, forcepull, net, offline, fresh, outcome>>

repo  == Repos[cur]
clone == clones[repo][url]

TypeOK ==
  /\ single \in BOOLEAN
  /\ rev \in 1..MaxRev /\ hashed \in 1..rev /\ recorded \in 0..rev \union {BadHash}
  /\ clones \in [Repo -> [Url -> 0..MaxRev]]
  /\ tmpcache \in 0..MaxRev
  /\ work \in Parts
  /\ src \in Parts
  /\ pc \in {"idle", "hash", "rm", "record", "fetch", "try", "keep", "pull", "clone",
             "reset", "am", "mv"}
  /\ cur \in 1..Len(Repos)
  /\ url \in Url
  /\ forcepull \in BOOLEAN
  /\ net \in Networks
  /\ offline \in BOOLEAN
  /\ fresh \in BOOLEAN
  /\ outcome \in {"none", "ok", "badhash", "depend", "download", "clone", "patch", "killed"}

Init ==
  /\ single \in BOOLEAN
  /\ rev = 1 /\ hashed = 1 /\ recorded = 0
  /\ clones = [r \in Repo |-> [u \in Url |-> 0]]
  /\ tmpcache = 0 /\ work = Nothing /\ src = Nothing
  /\ pc = "idle" /\ cur = 1 /\ url = 1
  /\ forcepull = FALSE /\ net \in Networks /\ offline = FALSE /\ fresh = FALSE
  /\ outcome = "none"

Goto(step) == pc' = step /\ UNCHANGED outcome
End(o)     == pc' = "idle" /\ outcome' = o

-----------------------------------------------------------------------------
(* git. *)

OneMorePatch(part) == [rev |-> part.rev, patches |-> part.patches + 1]

Newer(v, w) == IF v > w THEN v ELSE w

MayFail(u) == "no" \in net[u]

\* The revisions a clone of this URL, made now, may have.
Served(u) ==
  {v \in 1..rev : \/ v < rev /\ "old" \in net[u]
                  \/ v = rev /\ "new" \in net[u]}

-----------------------------------------------------------------------------
(* Mutants: what a plausible slip would make of a definition below. *)

\* The new hash is recorded before the old tree is removed.
RecordFirst ==
  /\ pc = "hash"
  /\ recorded' = hashed
  /\ CASE recorded = BadHash -> End("badhash")
       [] recorded = hashed  -> Goto("record")
       [] OTHER              -> Goto("rm")
  /\ UNCHANGED <<single, rev, hashed, clones, tmpcache, work, src, cur, url, start>>

\* A failing pull is an error (x_ git pull).
PullFailsHard ==
  /\ pc = "pull"
  /\ \/ /\ \E v \in Served(url) :
               clones' = [clones EXCEPT ![repo][url] = Newer(@, v)]
        /\ Goto("clone")
     \/ MayFail(url) /\ UNCHANGED clones /\ End("download")
  /\ UNCHANGED <<conf, tmpcache, work, src, cur, url, start>>

\* A failed clone ends the program (the subshell around x_ git clone is gone).
NextUrlNever == End("download") /\ UNCHANGED url

\* After the last URL comes the first.
NextUrlLoops ==
  url' = (url % Len(Urls)) + 1 /\ Goto("try")

-----------------------------------------------------------------------------
\* The configuration pins another revision.  In a multi-tree project the hash
\* always covers that; in a single-tree project only if its patches or its
\* submodules change as well.  Nothing in src/ or cache/ changes yet.
Configure ==
  /\ pc = "idle" /\ rev < MaxRev
  /\ rev' = rev + 1
  /\ hashed' = rev + 1 \/ (single /\ UNCHANGED hashed)
  /\ outcome' = "none"
  /\ UNCHANGED <<single, recorded, clones, tmpcache, work, src, pc, cur, url, start>>

\* ./mk -f or -F, with a temporary directory of its own.
Start(force) ==
  /\ pc = "idle"
  /\ forcepull' = force
  /\ net' \in Networks
  /\ offline' = \A r \in Repo : clones[r][1] >= rev
  /\ fresh' = \A r \in Repo, u \in Url : clones[r][u] = 0 \/ clones[r][u] >= rev
  /\ work' = Nothing /\ tmpcache' = 0
  /\ cur' = 1 /\ url' = 1
  /\ pc' = "hash" /\ outcome' = "none"
  /\ UNCHANGED <<conf, clones, src>>

\* project_up_to_date: reading an empty file fails, err.
CheckHash ==
  /\ pc = "hash"
  /\ CASE recorded = BadHash -> End("badhash")
       [] recorded = hashed  -> Goto("record")
       [] OTHER              -> Goto("rm")
  /\ UNCHANGED <<conf, clones, tmpcache, work, src, cur, url, start>>

\* rm -Rf src/$project/$tree
RemoveOld ==
  /\ pc = "rm"
  /\ src' = Nothing
  /\ Goto("record")
  /\ UNCHANGED <<conf, clones, tmpcache, work, cur, url, start>>

\* cp new.hash, whether it differs or not.
Record ==
  /\ pc = "record"
  /\ recorded' = hashed
  /\ Goto("fetch")
  /\ UNCHANGED <<single, rev, hashed, clones, tmpcache, work, src, cur, url, start>>

\* fetch_project fetches other projects first and fails with them; a directory
\* that is there is taken as it is.
Fetch ==
  /\ pc = "fetch"
  /\ \/ single /\ End("depend")
     \/ IF src = Nothing THEN Goto("try") ELSE End("ok")
  /\ UNCHANGED <<conf, clones, tmpcache, work, src, cur, url, start>>

\* xbget: the next URL, or an error after the last.
NextUrl ==
  IF url < Len(Urls)
    THEN url' = url + 1 /\ Goto("try")
    ELSE End("download") /\ UNCHANGED url

\* git show: is the revision in the clone already, and need not be pulled?
Show(v) ==
  IF v >= rev /\ ~forcepull
    THEN Goto("clone") /\ UNCHANGED <<clones, tmpcache>>
    ELSE Goto("pull") /\ UNCHANGED <<clones, tmpcache>>

\* try_git, there is a clone in the cache.
TryCached ==
  /\ pc = "try" /\ clone # 0
  /\ Show(clone)
  /\ UNCHANGED <<conf, work, src, cur, url, start>>

\* try_git, there is none: git clone, into the temporary directory.
TryClone ==
  /\ pc = "try" /\ clone = 0
  /\ \/ \E v \in Served(url) :
          tmpcache' = v /\ Goto("keep") /\ UNCHANGED url
     \/ MayFail(url) /\ tmpcache' = 0 /\ NextUrl
  /\ UNCHANGED <<conf, clones, work, src, cur, start>>

\* mv to the cache.
Keep ==
  /\ pc = "keep"
  /\ clones' = [clones EXCEPT ![repo][url] = tmpcache]
  /\ tmpcache' = 0
  /\ Goto("try")
  /\ UNCHANGED <<conf, work, src, cur, url, start>>

\* git pull --all (or fetch, in a mirror); a failure is ignored.
Pull ==
  /\ pc = "pull"
  /\ \/ \E v \in Served(url) :
          clones' = [clones EXCEPT ![repo][url] = Newer(@, v)]
     \/ MayFail(url) /\ UNCHANGED clones
  /\ Goto("clone")
  /\ UNCHANGED <<conf, tmpcache, work, src, cur, url, start>>

\* tmpclone: git clone from the cache.
CloneFinal ==
  /\ pc = "clone"
  /\ work' = [work EXCEPT ![repo] = [rev |-> clone, patches |-> 0]]
  /\ Goto("reset")
  /\ UNCHANGED <<conf, clones, tmpcache, src, cur, url, start>>

\* git reset --hard $rev fails if the clone does not have it: err.
Reset ==
  /\ pc = "reset"
  /\ IF work[repo].rev >= rev
       THEN work' = [work EXCEPT ![repo] = [rev |-> rev, patches |-> 0]] /\ Goto("am")
       ELSE UNCHANGED work /\ End("clone")
  /\ UNCHANGED <<conf, clones, tmpcache, src, cur, url, start>>

\* git am, one patch after the other; err if one does not apply.
Am ==
  /\ pc = "am" /\ work[repo].patches < Patches[repo]
  /\ \/ /\ work' = [work EXCEPT ![repo] = OneMorePatch(@)]
        /\ Goto("am")
     \/ UNCHANGED work /\ End("patch")
  /\ UNCHANGED <<conf, clones, tmpcache, src, cur, url, start>>

\* The repository is there; the next one of module.list.
NextRepo ==
  /\ pc = "am" /\ work[repo].patches = Patches[repo]
  /\ IF cur < Len(Repos)
       THEN cur' = cur + 1 /\ url' = 1 /\ Goto("try")
       ELSE UNCHANGED <<cur, url>> /\ Goto("mv")
  /\ UNCHANGED <<conf, clones, tmpcache, work, src, start>>

\* mv to src/.
Move ==
  /\ pc = "mv"
  /\ src' = work /\ work' = Nothing
  /\ End("ok")
  /\ UNCHANGED <<conf, clones, tmpcache, cur, url, start>>

\* Killed between two commands, or while the old tree is being removed.
Kill ==
  /\ pc # "idle"
  /\ End("killed")
  /\ UNCHANGED src \/ (pc = "rm" /\ src # Nothing /\ src' = Rubble)
  /\ UNCHANGED <<conf, clones, tmpcache, work, cur, url, start>>

\* Killed while the hash is copied.
KillRecord ==
  /\ pc = "record"
  /\ recorded' = BadHash
  /\ End("killed")
  /\ UNCHANGED <<single, rev, hashed, clones, tmpcache, work, src, cur, url, start>>

Step ==
  \/ CheckHash \/ RemoveOld \/ Record \/ Fetch
  \/ TryCached \/ TryClone \/ Keep \/ Pull \/ CloneFinal \/ Reset \/ Am
  \/ NextRepo \/ Move

Next == (\E force \in BOOLEAN : Start(force)) \/ Configure \/ Step \/ Kill \/ KillRecord

Spec == Init /\ [][Next]_vars

\* git gives up on a server that does not answer: every command ends.
FairSpec == Spec /\ WF_vars(Step)

-----------------------------------------------------------------------------
\* The revision of a directory in src/, or that it is not a whole tree.
TreeRev(dir) ==
  IF dir = Nothing THEN 0
  ELSE IF \E v \in 1..MaxRev : dir = Whole(v)
         THEN CHOOSE v \in 1..MaxRev : dir = Whole(v)
         ELSE MaxRev + 1

\* What the build relies on (SourceTree): whatever was killed on the way and
\* whatever old tree, or half of one, was there, a run that succeeds leaves a
\* whole tree, at a revision no older than what the hash covers; and a tree like
\* that is not thrown away.
ST == INSTANCE SourceTree WITH
        Torn <- MaxRev + 1, needed <- hashed, tree <- TreeRev(src),
        accepted <- outcome = "ok"

ImplementsSourceTree == ST!Spec

\* A run for which the cache has everything needs no network: it fails only
\* because of a patch, and this even under -F.
OfflineSuffices == offline => outcome \notin {"download", "clone"}

\* The cache never loses a clone or a revision of it, and never gains one that
\* a server did not deliver in full.
ClonesGrow ==
  [][\A r \in Repo, u \in Url : clones'[r][u] >= clones[r][u]]_vars

\* Every run ends: a URL is tried once, a patch is applied once.
FetchEnds == pc # "idle" ~> pc = "idle"

\* One URL that delivers the revision is enough to get it, unless another one
\* lags behind or its clone in the cache does.
GoodUrlSuffices ==
  /\ fresh
  /\ \E u \in Url : net[u] = {"new"}
  /\ \A u \in Url : "old" \notin net[u]
  => outcome \notin {"download", "clone"}
=============================================================================
