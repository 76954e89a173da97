--------------------------- MODULE GitFetchProofs ---------------------------
(***************************************************************************)
(* Proofs about GitFetch, for any repositories, patches, URLs, servers and *)
(* bound on the revisions:                                                 *)
(*   - it implements SourceTree: what a run accepts is whole and no older  *)
(*     than what the hash covers, and only what is not is removed;         *)
(*   - a full cache makes the network unnecessary;                         *)
(*   - one URL that delivers is enough;                                    *)
(*   - the cache of clones only grows.                                     *)
(***************************************************************************)
EXTENDS GitFetch, TLAPS

USE DEF start, conf

(***************************************************************************)
(* The inductive invariant.  Refinement needs the first two parts: the     *)
(* recorded hash tells the trees that will do from those that will not,    *)
(* src/ is empty while something is fetched, and the work done so far is   *)
(* whole for every repository already left behind.                         *)
(***************************************************************************)

Fetched(r) == work[r].rev = rev /\ work[r].patches = Patches[r]

\* src/ has a tree that will do, if it has one; and none that will.
Recent == src # Rubble /\ \A v \in 1..MaxRev : src = Whole(v) => v >= hashed
Stale  == \A v \in 1..MaxRev : src = Whole(v) => v < hashed

SrcKnown ==
  /\ src \in {Nothing, Rubble} \/ \E v \in 1..rev : src = Whole(v)
  /\ recorded = hashed => Recent
  /\ recorded \notin {hashed, BadHash} => Stale

SrcReady ==
  /\ pc = "rm" => recorded \notin {hashed, BadHash}
  /\ pc = "record" => recorded = hashed \/ src = Nothing
  /\ pc \notin {"idle", "hash", "rm", "record"} => recorded = hashed
  /\ pc \notin {"idle", "hash", "rm", "record", "fetch"} => src = Nothing
  /\ pc # "idle" => outcome # "ok"

SrcWhole == SrcKnown /\ SrcReady

WorkSoFar ==
  /\ pc # "idle" => \A i \in 1..(cur - 1) : Fetched(Repos[i])
  /\ pc = "am" => work[repo].rev = rev
  /\ pc = "mv" => cur = Len(Repos) /\ Fetched(repo)

\* A clone is made only where there is none.
KeepFills == pc = "keep" => clone = 0

\* With a full cache, a run stays with the first URL, whose clone suffices.
OfflineRun ==
  offline /\ pc # "idle" =>
    /\ url = 1
    /\ \A r \in Repo : clones[r][1] >= rev
    /\ pc = "reset" => work[repo].rev >= rev

IInv == TypeOK /\ SrcWhole /\ WorkSoFar /\ KeepFills /\ OfflineRun /\ OfflineSuffices

-----------------------------------------------------------------------------
(* The constants, and the operators over them. *)

LEMMA Constants ==
  /\ Len(Repos) \in Nat /\ Len(Repos) >= 1
  /\ Len(Urls) \in Nat /\ Len(Urls) >= 1 /\ 1 \in Url
  /\ MaxRev \in Nat /\ MaxRev >= 1
  /\ \A i \in 1..Len(Repos) : Repos[i] \in Repo
  /\ \A r \in Repo : Patches[r] \in Nat
  BY GitFetchAssumption DEF Repo, Url

LEMMA TreeTypes ==
  /\ Nothing \in Parts /\ Rubble \in Parts
  /\ \A v \in 0..MaxRev : Whole(v) \in Parts
  BY Constants DEF Nothing, Rubble, Whole, Parts

\* A tree is known by its revision, and is not mistaken for none or for half of one.
LEMMA WholeInjective ==
  ASSUME NEW v, NEW w, Whole(v) = Whole(w)
  PROVE  v = w
  <1>1. PICK r \in Repo : TRUE
    BY Constants
  <1>2. Whole(v)[r].rev = Whole(w)[r].rev
    OBVIOUS
  <1>3. QED
    BY <1>2 DEF Whole

LEMMA TreesDiffer ==
  /\ Nothing # Rubble
  /\ \A v \in 1..MaxRev : Whole(v) # Nothing /\ Whole(v) # Rubble
  <1>1. PICK r \in Repo : TRUE
    BY Constants
  <1>2. /\ Nothing[r] = [rev |-> 0, patches |-> 0]
        /\ Rubble[r] = [rev |-> 0, patches |-> 1]
    BY DEF Nothing, Rubble
  <1>3. ASSUME NEW v \in 1..MaxRev
        PROVE  Whole(v)[r].rev # 0
    BY Constants DEF Whole
  <1>4. Nothing[r].patches # Rubble[r].patches /\ Nothing[r].rev = 0 /\ Rubble[r].rev = 0
    BY <1>2
  <1>5. QED
    BY <1>3, <1>4

LEMMA NewerType ==
  ASSUME NEW v \in 0..MaxRev, NEW w \in 0..MaxRev
  PROVE  Newer(v, w) \in 0..MaxRev /\ Newer(v, w) >= v
  BY Constants DEF Newer

LEMMA ServedType ==
  ASSUME TypeOK, NEW u, NEW v \in Served(u)
  PROVE  v \in 1..MaxRev
  BY Constants DEF Served, TypeOK

\* Where the commands of a run find their repository.
LEMMA CurrentClone ==
  ASSUME TypeOK
  PROVE  repo \in Repo /\ clone \in 0..MaxRev /\ work[repo] \in [rev : 0..MaxRev, patches : Nat]
  BY Constants DEF TypeOK, repo, clone, Parts

\* What one new clone, or one new revision of it, does to the cache.
LEMMA CacheUpdate ==
  ASSUME TypeOK, NEW v \in 0..MaxRev, v >= clone,
         clones' = [clones EXCEPT ![repo][url] = v]
  PROVE  /\ clones' \in [Repo -> [Url -> 0..MaxRev]]
         /\ \A r \in Repo, u \in Url : clones'[r][u] >= clones[r][u]
  <1>1. clones' \in [Repo -> [Url -> 0..MaxRev]]
    BY CurrentClone DEF TypeOK
  <1>2. ASSUME NEW r \in Repo, NEW u \in Url
        PROVE  clones'[r][u] >= clones[r][u]
    <2>1. clones[r][u] \in 0..MaxRev
      BY DEF TypeOK
    <2>2. CASE r = repo /\ u = url
      BY <2>1, <2>2, CurrentClone DEF TypeOK, clone
    <2>3. CASE r # repo \/ u # url
      BY <2>1, <2>3, CurrentClone DEF TypeOK
    <2>4. QED
      BY <2>2, <2>3
  <1>3. QED
    BY <1>1, <1>2

\* What one command does to the work on the current repository.
LEMMA WorkUpdate ==
  ASSUME TypeOK, NEW v \in 0..MaxRev, NEW n \in Nat,
         work' = [work EXCEPT ![repo] = [rev |-> v, patches |-> n]]
  PROVE  /\ work' \in Parts
         /\ work'[repo].rev = v /\ work'[repo].patches = n
         /\ \A r \in Repo : r # repo => work'[r] = work[r]
  <1>1. [rev |-> v, patches |-> n] \in [rev : 0..MaxRev, patches : Nat]
    OBVIOUS
  <1>2. work \in [Repo -> [rev : 0..MaxRev, patches : Nat]] /\ repo \in Repo
    BY CurrentClone DEF TypeOK, Parts
  <1>3. QED
    BY <1>1, <1>2 DEF Parts

LEMMA CloneWork ==
  ASSUME TypeOK, CloneFinal
  PROVE  work' = [work EXCEPT ![repo] = [rev |-> clone, patches |-> 0]]
  BY DEF CloneFinal

\* reset succeeds with the configured revision, or ends the run.
LEMMA ResetWork ==
  ASSUME TypeOK, Reset
  PROVE  \/ /\ work' = [work EXCEPT ![repo] = [rev |-> rev, patches |-> 0]]
            /\ pc' = "am"
         \/ work' = work /\ pc' = "idle"
  BY DEF Reset, Goto, End

\* am adds one patch, or ends the run.
LEMMA AmWork ==
  ASSUME TypeOK, Am
  PROVE  \/ /\ work' = [work EXCEPT ![repo] = [rev |-> work[repo].rev,
                                              patches |-> work[repo].patches + 1]]
            /\ pc' = "am"
         \/ work' = work /\ pc' = "idle"
  BY DEF Am, OneMorePatch, Goto, End

\* Pull is an update of the cache, or leaves the cache alone.
LEMMA PullUpdate ==
  ASSUME TypeOK, Pull
  PROVE  \/ clones' = clones
         \/ \E v \in 0..MaxRev : v >= clone /\ clones' = [clones EXCEPT ![repo][url] = v]
  <1>1. CASE \E v \in Served(url) : clones' = [clones EXCEPT ![repo][url] = Newer(@, v)]
    <2>1. PICK v \in Served(url) : clones' = [clones EXCEPT ![repo][url] = Newer(clone, v)]
      BY <1>1 DEF clone
    <2>2. v \in 0..MaxRev
      BY ServedType, Constants
    <2>3. QED
      BY <2>1, <2>2, NewerType, CurrentClone
  <1>2. QED
    BY <1>1 DEF Pull

-----------------------------------------------------------------------------
LEMMA InitInvariant == Init => IInv
  <1> SUFFICES ASSUME Init PROVE IInv
    OBVIOUS
  <1>1. TypeOK
    <2>1. clones \in [Repo -> [Url -> 0..MaxRev]]
      BY Constants DEF Init
    <2>2. work \in Parts /\ src \in Parts
      BY TreeTypes DEF Init
    <2>3. rev \in 1..MaxRev /\ hashed \in 1..rev /\ recorded \in 0..rev /\ tmpcache \in 0..MaxRev /\ cur \in 1..Len(Repos)
      BY Constants DEF Init
    <2>4. QED
      BY <2>1, <2>2, <2>3, Constants DEF Init, TypeOK
  <1>2. SrcWhole /\ WorkSoFar /\ KeepFills /\ OfflineRun /\ OfflineSuffices
    BY TreesDiffer DEF Init, SrcWhole, SrcKnown, SrcReady, Stale, WorkSoFar, KeepFills, OfflineRun, OfflineSuffices
  <1>3. QED
    BY <1>1, <1>2 DEF IInv

LEMMA TypeStep == IInv /\ [Next]_vars => TypeOK'
  <1> SUFFICES ASSUME IInv, [Next]_vars PROVE TypeOK'
    OBVIOUS
  <1> USE Constants, TreeTypes, CurrentClone DEF IInv, TypeOK, Goto, End
  <1>1. ASSUME NEW force \in BOOLEAN, Start(force) PROVE TypeOK'
    BY <1>1 DEF Start
  <1>2. CASE Configure
    BY <1>2 DEF Configure, BadHash
  <1>3. CASE TryCached
    BY <1>3 DEF TryCached, Show
  <1>4. CASE TryClone
    BY <1>4, ServedType DEF TryClone, NextUrl, Url
  <1>5. CASE Keep
    <2>1. clones' \in [Repo -> [Url -> 0..MaxRev]]
      BY <1>5 DEF Keep
    <2>2. QED
      BY <1>5, <2>1 DEF Keep
  <1>6. CASE Pull
    <2>1. clones' \in [Repo -> [Url -> 0..MaxRev]]
      BY <1>6, PullUpdate, CacheUpdate
    <2>2. QED
      BY <1>6, <2>1 DEF Pull
  <1>7. CASE CloneFinal
    <2>1. work' \in Parts
      BY <1>7, CloneWork, WorkUpdate
    <2>2. QED
      BY <1>7, <2>1 DEF CloneFinal
  <1>8. CASE Reset
    <2>1. work' \in Parts
      <3>1. rev \in 0..MaxRev /\ 0 \in Nat
        OBVIOUS
      <3>2. QED
        BY <1>8, <3>1, ResetWork, WorkUpdate
    <2>2. QED
      BY <1>8, <2>1 DEF Reset
  <1>9. CASE Am
    <2>1. work' \in Parts
      <3>1. work[repo].rev \in 0..MaxRev /\ work[repo].patches + 1 \in Nat
        OBVIOUS
      <3>2. QED
        BY <1>9, <3>1, AmWork, WorkUpdate
    <2>2. QED
      BY <1>9, <2>1 DEF Am
  <1>10. CASE NextRepo
    BY <1>10 DEF NextRepo
  <1>11. CASE Move
    BY <1>11 DEF Move
  <1>12. CASE Kill \/ KillRecord
    BY <1>12 DEF Kill, KillRecord
  <1>13. CASE CheckHash \/ RemoveOld \/ Record \/ Fetch
    BY <1>13 DEF CheckHash, RemoveOld, Record, Fetch
  <1>14. CASE UNCHANGED vars
    BY <1>14 DEF vars
  <1>15. QED
    BY <1>1, <1>2, <1>3, <1>4, <1>5, <1>6, <1>7, <1>8, <1>9, <1>10, <1>11,
       <1>12, <1>13, <1>14 DEF Next, Step

-----------------------------------------------------------------------------
\* When the last repository is done, the work is the whole tree.
LEMMA WorkWhole ==
  ASSUME TypeOK, WorkSoFar, pc = "mv"
  PROVE  work = Whole(rev)
  <1>1. \A i \in 1..Len(Repos) : Fetched(Repos[i])
    BY Constants DEF WorkSoFar, repo
  <1>2. \A r \in Repo : Fetched(r)
    BY <1>1 DEF Repo
  <1>3. \A r \in Repo : work[r] = [rev |-> rev, patches |-> Patches[r]]
    BY <1>2 DEF TypeOK, Parts, Fetched
  <1>4. QED
    BY <1>3 DEF Whole, TypeOK, Parts

\* The repositories already fetched are not the one being fetched.
LEMMA OtherRepos ==
  ASSUME TypeOK, NEW i \in 1..(cur - 1)
  PROVE  Repos[i] # repo /\ Repos[i] \in Repo
  BY Constants, GitFetchAssumption DEF TypeOK, repo

\* What a command that leaves src/, the configuration and its hash alone keeps.
LEMMA SrcKept ==
  ASSUME SrcKnown, UNCHANGED <<rev, hashed, recorded, src>>
  PROVE  SrcKnown'
  BY DEF SrcKnown, Recent, Stale

LEMMA SrcStep == IInv /\ [Next]_vars => SrcWhole'
  <1> SUFFICES ASSUME IInv, [Next]_vars PROVE SrcWhole'
    OBVIOUS
  <1>0. TypeOK /\ SrcKnown /\ SrcReady
    BY DEF IInv, SrcWhole
  <1> USE Constants, TreesDiffer DEF SrcWhole, SrcReady, Goto, End
  <1>1. CASE Move
    <2>1. src' = Whole(rev) /\ rev \in 1..MaxRev /\ hashed \in 1..rev
      BY <1>0, <1>1, WorkWhole DEF Move, IInv, TypeOK
    <2>2. recorded = hashed
      BY <1>0, <1>1 DEF Move
    <2>3. Recent'
      BY <1>1, <2>1, WholeInjective DEF Move, Recent
    <2>4. QED
      BY <1>1, <2>1, <2>2, <2>3 DEF Move, SrcKnown
  <1>2. CASE Configure
    <2>1. UNCHANGED <<src, recorded>> /\ rev' = rev + 1 /\ pc' = "idle"
      BY <1>2 DEF Configure
    <2>2. src \in {Nothing, Rubble} \/ \E v \in 1..rev' : src = Whole(v)
      BY <1>0, <2>1 DEF SrcKnown, TypeOK
    <2>3. CASE hashed' = rev + 1
      <3>1. recorded # hashed'
        BY <1>0, <1>2, <2>3 DEF Configure, TypeOK, BadHash
      <3>2. \A v \in 1..MaxRev : src = Whole(v) => v < hashed'
        BY <1>0, <2>3, WholeInjective DEF SrcKnown, TypeOK
      <3>3. QED
        BY <2>1, <2>2, <3>1, <3>2 DEF SrcKnown, Stale
    <2>4. CASE hashed' = hashed
      BY <1>0, <2>1, <2>2, <2>4 DEF SrcKnown, Recent, Stale
    <2>5. QED
      BY <1>2, <2>3, <2>4 DEF Configure
  <1>3. CASE RemoveOld
    BY <1>0, <1>3 DEF RemoveOld, SrcKnown, Stale
  <1>4. CASE Record
    BY <1>0, <1>4 DEF Record, SrcKnown, Recent
  <1>5. CASE Kill
    <2>1. CASE UNCHANGED src
      BY <1>0, <1>5, <2>1, SrcKept DEF Kill
    <2>2. CASE pc = "rm" /\ src' = Rubble
      BY <1>0, <1>5, <2>2 DEF Kill, SrcKnown, Stale
    <2>3. QED
      BY <1>5, <2>1, <2>2 DEF Kill
  <1>6. CASE KillRecord
    <2>1. recorded' = BadHash /\ recorded' # hashed'
      BY <1>0, <1>6 DEF KillRecord, TypeOK, BadHash
    <2>2. QED
      BY <1>0, <1>6, <2>1 DEF KillRecord, SrcKnown
  <1>7. CASE (\E force \in BOOLEAN : Start(force)) \/ CheckHash \/ Fetch
    BY <1>0, <1>7, SrcKept DEF Start, CheckHash, Fetch
  <1>8. CASE TryCached \/ TryClone \/ Keep \/ Pull \/ CloneFinal \/ Reset \/ Am \/ NextRepo
    BY <1>0, <1>8, SrcKept DEF TryCached, TryClone, Keep, Pull, CloneFinal, Reset, Am,
       NextRepo, Show, NextUrl
  <1>9. CASE UNCHANGED vars
    BY <1>0, <1>9, SrcKept DEF vars
  <1>10. QED
    BY <1>1, <1>2, <1>3, <1>4, <1>5, <1>6, <1>7, <1>8, <1>9 DEF Next, Step

LEMMA WorkStep == IInv /\ [Next]_vars => WorkSoFar'
  <1> SUFFICES ASSUME IInv, [Next]_vars PROVE WorkSoFar'
    OBVIOUS
  <1> USE Constants DEF IInv, WorkSoFar, Goto, End, Fetched
  <1>1. CASE \E force \in BOOLEAN : Start(force)
    BY <1>1 DEF Start
  <1>2. CASE Configure
    BY <1>2 DEF Configure
  <1>3. CASE TryCached \/ TryClone \/ Keep \/ Pull
    BY <1>3 DEF TryCached, TryClone, Keep, Pull, Show, NextUrl, repo
  <1>4. CASE CloneFinal
    BY <1>4, OtherRepos DEF CloneFinal, TypeOK, Parts, repo
  <1>5. CASE Reset
    <2>1. CASE work' = work /\ pc' = "idle"
      BY <2>1
    <2>2. CASE /\ work' = [work EXCEPT ![repo] = [rev |-> rev, patches |-> 0]]
               /\ pc' = "am"
      <3>0. rev \in 0..MaxRev /\ 0 \in Nat
        BY DEF TypeOK
      <3>1. /\ work'[repo].rev = rev
            /\ \A r \in Repo : r # repo => work'[r] = work[r]
        BY <2>2, <3>0, WorkUpdate
      <3>2. \A i \in 1..(cur - 1) : work'[Repos[i]] = work[Repos[i]]
        BY <3>1, OtherRepos
      <3>3. QED
        BY <1>5, <2>2, <3>1, <3>2 DEF Reset, repo
    <2>3. QED
      BY <1>5, <2>1, <2>2, ResetWork
  <1>6. CASE Am
    <2>1. CASE work' = work /\ pc' = "idle"
      BY <2>1
    <2>2. CASE /\ work' = [work EXCEPT ![repo] = [rev |-> work[repo].rev,
                                               patches |-> work[repo].patches + 1]]
               /\ pc' = "am"
      <3>0. work[repo].rev \in 0..MaxRev /\ work[repo].patches + 1 \in Nat
        BY CurrentClone
      <3>1. /\ work'[repo].rev = work[repo].rev
            /\ \A r \in Repo : r # repo => work'[r] = work[r]
        BY <2>2, <3>0, WorkUpdate
      <3>2. \A i \in 1..(cur - 1) : work'[Repos[i]] = work[Repos[i]]
        BY <3>1, OtherRepos
      <3>3. QED
        BY <1>6, <2>2, <3>1, <3>2 DEF Am, repo
    <2>3. QED
      BY <1>6, <2>1, <2>2, AmWork
  <1>7. CASE NextRepo
    BY <1>7 DEF NextRepo, TypeOK, repo
  <1>8. CASE Move \/ Kill \/ KillRecord \/ CheckHash \/ RemoveOld \/ Record \/ Fetch
    BY <1>8 DEF Move, Kill, KillRecord, CheckHash, RemoveOld, Record, Fetch, repo
  <1>9. CASE UNCHANGED vars
    BY <1>9 DEF vars, repo
  <1>10. QED
    BY <1>1, <1>2, <1>3, <1>4, <1>5, <1>6, <1>7, <1>8, <1>9 DEF Next, Step

-----------------------------------------------------------------------------
LEMMA KeepStep == IInv /\ [Next]_vars => KeepFills'
  <1> SUFFICES ASSUME IInv, [Next]_vars PROVE KeepFills'
    OBVIOUS
  <1>1. CASE TryClone
    BY <1>1 DEF TryClone, NextUrl, KeepFills, Goto, End, clone, repo
  <1>2. CASE UNCHANGED vars
    BY <1>2 DEF vars, IInv, KeepFills, clone, repo
  <1>3. CASE Next /\ ~TryClone
    <2>1. pc' # "keep"
      BY <1>3 DEF Next, Step, Start, Configure, TryCached, Keep, Pull, CloneFinal, Reset,
         Am, NextRepo, Move, Kill, KillRecord, CheckHash, RemoveOld, Record, Fetch, Show,
         Goto, End, IInv, TypeOK
    <2>2. QED
      BY <2>1 DEF KeepFills
  <1>4. QED
    BY <1>1, <1>2, <1>3

\* A clone that is pulled loses nothing, and the other clones are not touched.
LEMMA PullGrows ==
  ASSUME IInv, Pull
  PROVE  \A r \in Repo, u \in Url : clones'[r][u] >= clones[r][u]
  <1>0. TypeOK
    BY DEF IInv
  <1>1. CASE clones' = clones
    BY <1>0, <1>1, Constants DEF TypeOK
  <1>2. CASE \E v \in 0..MaxRev :
               v >= clone /\ clones' = [clones EXCEPT ![repo][url] = v]
    BY <1>0, <1>2, CacheUpdate
  <1>3. QED
    BY <1>0, <1>1, <1>2, PullUpdate

LEMMA KeepGrows ==
  ASSUME IInv, Keep
  PROVE  \A r \in Repo, u \in Url : clones'[r][u] >= clones[r][u]
  BY CurrentClone, Constants DEF Keep, IInv, TypeOK, KeepFills, clone

LEMMA OfflineStep == IInv /\ [Next]_vars => OfflineRun' /\ OfflineSuffices'
  <1> SUFFICES ASSUME IInv, [Next]_vars PROVE OfflineRun' /\ OfflineSuffices'
    OBVIOUS
  <1> USE Constants, CurrentClone DEF IInv, OfflineRun, OfflineSuffices, Goto, End
  <1>1. CASE \E force \in BOOLEAN : Start(force)
    BY <1>1 DEF Start
  <1>2. CASE Configure
    BY <1>2 DEF Configure
  <1>3. CASE TryCached
    BY <1>3 DEF TryCached, Show
  <1>4. CASE TryClone
    <2>1. ~offline
      BY <1>4 DEF TryClone, clone, TypeOK
    <2>2. QED
      BY <1>4, <2>1 DEF TryClone
  <1>5. CASE Keep
    <2>1. ~offline
      BY <1>5 DEF Keep, KeepFills, clone, TypeOK
    <2>2. QED
      BY <1>5, <2>1 DEF Keep
  <1>6. CASE Pull
    <2>1. offline => \A r \in Repo : clones'[r][1] >= rev
      <3>1. IInv /\ TypeOK'
        BY TypeStep
      <3>2. \A r \in Repo : clones'[r][1] >= clones[r][1]
        BY <1>6, <3>1, PullGrows
      <3>3. /\ rev \in Nat
            /\ \A r \in Repo : clones'[r][1] \in Nat /\ clones[r][1] \in Nat
        BY <3>1 DEF TypeOK
      <3>4. QED
        BY <1>6, <3>2, <3>3 DEF Pull
    <2>2. QED
      BY <1>6, <2>1 DEF Pull
  <1>7. CASE CloneFinal
    BY <1>7 DEF CloneFinal, TypeOK, Parts, clone, repo
  <1>8. CASE Reset
    BY <1>8 DEF Reset
  <1>9. CASE \/ Am \/ NextRepo \/ Move \/ Kill \/ KillRecord
             \/ CheckHash \/ RemoveOld \/ Record \/ Fetch
    BY <1>9 DEF Am, NextRepo, Move, Kill, KillRecord, CheckHash, RemoveOld, Record, Fetch
  <1>10. CASE UNCHANGED vars
    BY <1>10 DEF vars, repo
  <1>11. QED
    BY <1>1, <1>2, <1>3, <1>4, <1>5, <1>6, <1>7, <1>8, <1>9, <1>10 DEF Next, Step

LEMMA Inductive == IInv /\ [Next]_vars => IInv'
  BY TypeStep, SrcStep, WorkStep, KeepStep, OfflineStep DEF IInv

\* The invariant holds in every reachable state.
THEOREM IInvCorrect == Spec => []IInv
  BY InitInvariant, Inductive, PTL DEF Spec

-----------------------------------------------------------------------------
(***************************************************************************)
(* Why one good URL is enough.  If no clone lags behind and no server does *)
(* either, none will during the run; a URL is left only when it may fail,  *)
(* so the good one is still to come (it is behind `url' for the next       *)
(* repository, which starts again with the first); and what is cloned from *)
(* the cache is a clone that is there, hence has the revision.             *)
(***************************************************************************)

GoodServers ==
  /\ \E u \in Url : net[u] = {"new"}
  /\ \A u \in Url : "old" \notin net[u]

NoneBehind == \A r \in Repo, u \in Url : clones[r][u] = 0 \/ clones[r][u] >= rev

GoodRun ==
  fresh /\ GoodServers /\ pc # "idle" =>
    /\ NoneBehind
    /\ \E u \in Url : u >= url /\ net[u] = {"new"}
    /\ pc = "keep" => tmpcache = rev
    /\ pc \in {"pull", "clone"} => clone # 0
    /\ pc = "reset" => work[repo].rev >= rev

GInv == IInv /\ GoodRun /\ GoodUrlSuffices

\* Good servers deliver the configured revision, and no other.
LEMMA GoodServed ==
  ASSUME TypeOK, GoodServers, NEW v \in Served(url)
  PROVE  v = rev
  BY DEF GoodServers, Served, TypeOK

\* One clone that has the revision leaves none behind.
LEMMA NoneBehindUpdate ==
  ASSUME TypeOK, NoneBehind, rev' = rev, NEW v \in 0..MaxRev, v >= rev,
         clones' = [clones EXCEPT ![repo][url] = v]
  PROVE  NoneBehind' /\ clones'[repo][url] = v
  BY CurrentClone DEF NoneBehind, TypeOK

LEMMA GoodIdle ==
  ASSUME GInv, (\E force \in BOOLEAN : Start(force)) \/ Configure \/ Kill \/ KillRecord
  PROVE  GoodRun' /\ GoodUrlSuffices'
  <1>1. ASSUME NEW force \in BOOLEAN, Start(force)
        PROVE  GoodRun' /\ GoodUrlSuffices'
    <2>1. GoodUrlSuffices'
      BY <1>1 DEF Start, GoodUrlSuffices
    <2>2. ASSUME fresh', GoodServers', pc' # "idle"
          PROVE  /\ NoneBehind'
                 /\ \E u \in Url : u >= url' /\ net'[u] = {"new"}
                 /\ pc' = "hash"
      <3>1. NoneBehind'
        BY <1>1, <2>2 DEF Start, NoneBehind
      <3>2. pc' = "hash" /\ url' = 1
        BY <1>1, <2>2 DEF Start
      <3>3. \E u \in Url : u >= url' /\ net'[u] = {"new"}
        BY <2>2, <3>2, Constants DEF GoodServers, Url
      <3>4. QED
        BY <3>1, <3>2, <3>3
    <2>3. QED
      BY <2>1, <2>2 DEF GoodRun
  <1>2. CASE Configure
    BY <1>2 DEF GInv, Configure, GoodRun, GoodUrlSuffices
  <1>3. CASE Kill \/ KillRecord
    BY <1>3 DEF Kill, KillRecord, End, GoodRun, GoodUrlSuffices
  <1>4. QED
    BY <1>1, <1>2, <1>3

\* A URL is left behind only if it may fail: the good one is not.
LEMMA GoodNextUrl ==
  ASSUME TypeOK, GoodServers, MayFail(url),
         NEW u \in Url, u >= url, net[u] = {"new"}
  PROVE  url < Len(Urls) /\ u >= url + 1
  <1>1. u # url
    BY DEF MayFail
  <1>2. QED
    BY <1>1, Constants DEF TypeOK, Url

LEMMA GoodCommand ==
  ASSUME GInv, Step
  PROVE  GoodRun' /\ GoodUrlSuffices'
  <1> USE Constants, CurrentClone DEF Goto, End
  <1>1. TypeOK /\ TypeOK' /\ KeepFills
    BY TypeStep DEF GInv, IInv, Next
  <1>2. pc # "idle" /\ rev' = rev /\ net' = net /\ fresh' = fresh
    BY DEF Step, CheckHash, RemoveOld, Record, Fetch, TryCached, TryClone, Keep, Pull,
       CloneFinal, Reset, Am, NextRepo, Move
  <1>3. SUFFICES ASSUME fresh, GoodServers, NoneBehind,
                        NEW good \in Url, good >= url, net[good] = {"new"},
                        pc = "keep" => tmpcache = rev,
                        pc \in {"pull", "clone"} => clone # 0,
                        pc = "reset" => work[repo].rev >= rev
                 PROVE  GoodRun' /\ GoodUrlSuffices'
    BY <1>2 DEF GInv, GoodRun, GoodUrlSuffices, GoodServers
  <1>4. CASE TryCached
    BY SMTT(30), <1>4, <1>1, <1>2 DEF GInv, TryCached, Show, GoodRun, GoodUrlSuffices, NoneBehind, clone, repo,
       GoodServers
  <1>5. CASE TryClone
    <2>1. CASE \E v \in Served(url) : tmpcache' = v /\ Goto("keep") /\ UNCHANGED url
      BY <1>1, <1>2, <1>3, <1>5, <2>1, GoodServed
      DEF GInv, TryClone, GoodRun, GoodUrlSuffices, NoneBehind, GoodServers
    <2>2. CASE MayFail(url) /\ NextUrl
      <3>1. url < Len(Urls) /\ good >= url + 1
        BY <1>1, <1>3, <2>2, GoodNextUrl
      <3>2. url' = url + 1 /\ pc' = "try" /\ outcome' = outcome
        BY <2>2, <3>1 DEF NextUrl
      <3>3. QED
        BY <1>1, <1>2, <1>3, <1>5, <3>1, <3>2
        DEF GInv, TryClone, GoodRun, GoodUrlSuffices, NoneBehind, GoodServers
    <2>3. QED
      BY <1>5, <2>1, <2>2 DEF TryClone
  <1>6. CASE Keep
    <2>1. NoneBehind'
      <3>1. rev \in 0..MaxRev /\ rev >= rev
        BY <1>1 DEF TypeOK
      <3>2. QED
        BY <1>1, <1>2, <1>3, <1>6, <3>1, NoneBehindUpdate DEF Keep
    <2>2. QED
      BY <1>2, <1>3, <1>6, <2>1 DEF GInv, Keep, GoodRun, GoodUrlSuffices, GoodServers
  <1>7. CASE Pull
    <2>1. NoneBehind' /\ clone' # 0
      <3>1. CASE clones' = clones
        BY <1>2, <1>3, <1>7, <3>1 DEF Pull, NoneBehind, clone, repo
      <3>2. CASE \E v \in 0..MaxRev :
                   v >= clone /\ clones' = [clones EXCEPT ![repo][url] = v]
        <4>1. PICK v \in 0..MaxRev :
                     v >= clone /\ clones' = [clones EXCEPT ![repo][url] = v]
          BY <3>2
        <4>2. clone >= rev
          BY <1>1, <1>3, <1>7 DEF Pull, NoneBehind, clone, TypeOK
        <4>3. v >= rev /\ v # 0
          BY <1>1, <4>1, <4>2 DEF TypeOK
        <4>4. NoneBehind' /\ clones'[repo][url] = v
          BY <1>1, <1>2, <1>3, <4>1, <4>3, NoneBehindUpdate
        <4>5. repo' = repo /\ url' = url
          BY <1>7 DEF Pull, repo
        <4>6. QED
          BY <4>3, <4>4, <4>5 DEF clone
      <3>3. QED
        BY <1>1, <1>7, <3>1, <3>2, PullUpdate
    <2>2. QED
      BY <1>2, <1>3, <1>7, <2>1 DEF GInv, Pull, GoodRun, GoodUrlSuffices, GoodServers
  <1>8. CASE CloneFinal
    <2>1. clone >= rev
      BY <1>1, <1>3, <1>8 DEF CloneFinal, NoneBehind, clone, TypeOK
    <2>2. work'[repo].rev = clone
      BY <1>1, <1>8, CloneWork, WorkUpdate
    <2>3. repo' = repo
      BY <1>8 DEF CloneFinal, repo
    <2>4. QED
      BY <1>2, <1>3, <1>8, <2>1, <2>2, <2>3
      DEF GInv, CloneFinal, GoodRun, GoodUrlSuffices, GoodServers, NoneBehind
  <1>9. CASE Reset
    BY <1>2, <1>3, <1>9 DEF GInv, Reset, GoodRun, GoodUrlSuffices, GoodServers, NoneBehind
  <1>10. CASE Am \/ Move
    BY <1>2, <1>3, <1>10 DEF GInv, Am, Move, GoodRun, GoodUrlSuffices, GoodServers, NoneBehind
  <1>11. CASE NextRepo
    <2>1. url' = url \/ url' = 1
      BY <1>11 DEF NextRepo
    <2>2. good >= url'
      BY <1>3, <2>1 DEF Url
    <2>3. QED
      BY <1>2, <1>3, <1>11, <2>2
      DEF GInv, NextRepo, GoodRun, GoodUrlSuffices, GoodServers, NoneBehind
  <1>12. CASE CheckHash \/ RemoveOld \/ Record \/ Fetch
    BY <1>2, <1>3, <1>12 DEF GInv, CheckHash, RemoveOld, Record, Fetch, GoodRun,
       GoodUrlSuffices, GoodServers, NoneBehind
  <1>13. QED
    BY <1>4, <1>5, <1>6, <1>7, <1>8, <1>9, <1>10, <1>11, <1>12 DEF Step

\* One URL that delivers the revision is enough to get the tree, for any number
\* of repositories and URLs, whatever the other servers fail to do and wherever
\* a run is killed, if no clone and no server is behind.
THEOREM GoodUrlSufficesCorrect == Spec => []GoodUrlSuffices
  <1>1. Init => GInv
    BY InitInvariant DEF Init, GInv, GoodRun, GoodUrlSuffices
  <1>2. GInv /\ [Next]_vars => GInv'
    <2> SUFFICES ASSUME GInv, [Next]_vars PROVE GInv'
      OBVIOUS
    <2>1. IInv'
      BY Inductive DEF GInv
    <2>2. GoodRun' /\ GoodUrlSuffices'
      <3>1. CASE UNCHANGED vars
        BY <3>1 DEF vars, GInv, GoodRun, GoodUrlSuffices, GoodServers, NoneBehind, clone, repo
      <3>2. QED
        BY <3>1, GoodIdle, GoodCommand DEF Next
    <2>3. QED
      BY <2>1, <2>2 DEF GInv
  <1>3. GInv => GoodUrlSuffices
    BY DEF GInv
  <1>4. QED
    BY <1>1, <1>2, <1>3, PTL DEF Spec

-----------------------------------------------------------------------------
\* A run for which the cache has everything does not fail for want of a network.
THEOREM OfflineSufficesCorrect == Spec => []OfflineSuffices
  <1>1. IInv => OfflineSuffices
    BY DEF IInv
  <1>2. QED
    BY <1>1, IInvCorrect, PTL

\* The cache never loses a clone, or a revision of one.
THEOREM ClonesGrowCorrect == Spec => ClonesGrow
  <1> DEFINE Grow == \A r \in Repo, u \in Url : clones'[r][u] >= clones[r][u]
  <1>1. IInv /\ [Next]_vars => [Grow]_vars
    <2> SUFFICES ASSUME IInv, Next PROVE Grow
      OBVIOUS
    <2>1. CASE Pull
      BY <2>1, PullGrows
    <2>2. CASE Keep
      BY <2>2, KeepGrows
    <2>3. CASE Next /\ ~Pull /\ ~Keep
      <3>1. clones' = clones
        BY <2>3 DEF Next, Step, Start, Configure, CheckHash, RemoveOld, Record, Fetch,
           TryCached, TryClone, CloneFinal, Reset, Am, NextRepo, Move, Kill, KillRecord,
           Show, NextUrl
      <3>2. QED
        BY <3>1, Constants DEF IInv, TypeOK
    <2>4. QED
      BY <2>1, <2>2, <2>3
  <1>2. QED
    BY <1>1, IInvCorrect, PTL DEF Spec, ClonesGrow

-----------------------------------------------------------------------------
(* Refinement. *)

LEMMA TreeRevValues ==
  /\ TreeRev(Nothing) = 0
  /\ TreeRev(Rubble) = MaxRev + 1
  /\ \A v \in 1..MaxRev : TreeRev(Whole(v)) = v
  BY TreesDiffer, WholeInjective DEF TreeRev

\* The two things that the recorded hash tells, in the words of SourceTree.
LEMMA RecentIsGood ==
  ASSUME IInv, recorded = hashed, src # Nothing
  PROVE  ST!Good
  <1>1. PICK v \in 1..rev : src = Whole(v)
    BY DEF IInv, SrcWhole, SrcKnown, Recent
  <1>2. v \in 1..MaxRev /\ hashed \in Nat
    BY <1>1, Constants DEF IInv, TypeOK
  <1>3. v >= hashed /\ TreeRev(src) = v
    BY <1>1, <1>2, TreeRevValues DEF IInv, SrcWhole, SrcKnown, Recent
  <1>4. QED
    BY <1>2, <1>3, Constants DEF ST!Good

LEMMA StaleIsNotGood ==
  ASSUME IInv, recorded \notin {hashed, BadHash}
  PROVE  ~ST!Good
  <1>1. CASE src \in {Nothing, Rubble}
    BY <1>1, TreeRevValues DEF ST!Good
  <1>2. CASE \E v \in 1..rev : src = Whole(v)
    <2>1. PICK v \in 1..rev : src = Whole(v)
      BY <1>2
    <2>2. v \in 1..MaxRev /\ hashed \in Nat
      BY <2>1, Constants DEF IInv, TypeOK
    <2>3. v < hashed /\ TreeRev(src) = v
      BY <2>1, <2>2, TreeRevValues DEF IInv, SrcWhole, SrcKnown, Stale
    <2>4. QED
      BY <2>2, <2>3 DEF ST!Good
  <1>3. QED
    BY <1>1, <1>2 DEF IInv, SrcWhole, SrcKnown

\* A command that leaves the tree alone, and does not end well, is a stutter or
\* the begin of a run.
LEMMA QuietStep ==
  ASSUME UNCHANGED <<single, rev, hashed, src>>, outcome' # "ok" \/ UNCHANGED outcome
  PROVE  [ST!Next]_(ST!vars)
  BY DEF ST!Next, ST!Begin, ST!vars

\* Git fetching implements what the build relies on: whatever is killed, and
\* whatever older tree is there or half gone, a run succeeds only with a whole
\* tree no older than what the hash covers (in a multi-tree project, exactly
\* the configured one), and no such tree is removed.
THEOREM Refinement == Spec => ImplementsSourceTree
  <1>1. Init => ST!Init
    BY TreeRevValues DEF Init, ST!Init
  <1>2. IInv /\ [Next]_vars => [ST!Next]_(ST!vars)
    <2> SUFFICES ASSUME IInv, [Next]_vars PROVE [ST!Next]_(ST!vars)
      OBVIOUS
    <2>0. TypeOK /\ SrcReady
      BY DEF IInv, SrcWhole
    <2> USE DEF Goto, End
    <2>1. CASE Configure
      <3>1. ST!Configure
        BY <2>1 DEF Configure, ST!Configure
      <3>2. QED
        BY <3>1 DEF ST!Next
    <2>2. CASE Move
      <3>1. src = Nothing /\ src' = Whole(rev) /\ rev \in 1..MaxRev
        BY <2>0, <2>2, WorkWhole DEF Move, IInv, SrcReady, TypeOK
      <3>2. TreeRev(src) = 0 /\ TreeRev(src') = rev
        BY <3>1, TreeRevValues
      <3>3. ST!Publish
        BY <2>2, <3>2 DEF Move, ST!Publish
      <3>4. QED
        BY <3>3 DEF ST!Next
    <2>3. CASE Fetch
      <3>1. CASE src # Nothing /\ End("ok")
        <4>1. recorded = hashed
          BY <2>0, <2>3 DEF Fetch, SrcReady
        <4>2. ST!Accept
          BY <2>3, <3>1, <4>1, RecentIsGood DEF Fetch, ST!Accept
        <4>3. QED
          BY <4>2 DEF ST!Next
      <3>2. CASE outcome' = "depend" \/ UNCHANGED outcome
        BY <2>3, <3>2, QuietStep DEF Fetch
      <3>3. QED
        BY <2>3, <3>1, <3>2 DEF Fetch
    <2>4. CASE RemoveOld \/ (Kill /\ ~UNCHANGED src)
      <3>1. pc = "rm" /\ UNCHANGED <<single, rev, hashed>>
        BY <2>4 DEF RemoveOld, Kill
      <3>2. ~ST!Good
        BY <2>0, <3>1, StaleIsNotGood DEF SrcReady
      <3>3. TreeRev(src') \in {0, MaxRev + 1} /\ outcome' # "ok"
        BY <2>0, <2>4, <3>1, TreeRevValues DEF RemoveOld, Kill, SrcReady
      <3>4. CASE src = Nothing
        BY <2>0, <2>4, <3>1, <3>3, <3>4, QuietStep DEF RemoveOld, Kill
      <3>5. CASE src # Nothing
        <4>1. TreeRev(src) # 0
          <5>1. src = Rubble \/ \E v \in 1..MaxRev : src = Whole(v)
            BY <2>0, <3>5, Constants DEF IInv, SrcWhole, SrcKnown, TypeOK
          <5>2. QED
            BY <5>1, TreeRevValues, Constants
        <4>2. ST!Discard
          BY <3>1, <3>2, <3>3, <4>1 DEF ST!Discard
        <4>3. QED
          BY <4>2 DEF ST!Next
      <3>6. QED
        BY <3>4, <3>5
    <2>5. CASE Next /\ ~Configure /\ ~Move /\ ~Fetch /\ ~RemoveOld /\ ~(Kill /\ ~UNCHANGED src)
      <3>1. UNCHANGED <<single, rev, hashed, src>> /\ (outcome' # "ok" \/ UNCHANGED outcome)
        BY <2>5 DEF Next, Step, Start, CheckHash, Record, TryCached, TryClone, Keep, Pull,
           CloneFinal, Reset, Am, NextRepo, Kill, KillRecord, Show, NextUrl
      <3>2. QED
        BY <3>1, QuietStep
    <2>6. CASE UNCHANGED vars
      BY <2>6, QuietStep DEF vars
    <2>7. QED
      BY <2>1, <2>2, <2>3, <2>4, <2>5, <2>6
  <1>3. QED
    BY <1>1, <1>2, IInvCorrect, PTL DEF Spec, ImplementsSourceTree, ST!Spec

\* Every variable keeps its type: the commands of a run are in their order,
\* and the work and the clones are at revisions that were configured.
THEOREM TypeCorrect == Spec => []TypeOK
  <1>1. IInv => TypeOK
    BY DEF IInv
  <1>2. QED
    BY <1>1, IInvCorrect, PTL
=============================================================================
