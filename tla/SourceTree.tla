----------------------------- MODULE SourceTree ----------------------------
(***************************************************************************)
(* What fetching promises the build about a directory of src/ (the -d      *)
(* tests of include/get.sh and include/tree.sh rely on it): when a run has *)
(* succeeded, a whole tree is there, new enough for the configuration.     *)
(*                                                                         *)
(* New enough is what the recorded hash can tell: the configured revision  *)
(* itself in a multi-tree project, and in a single-tree project none older *)
(* than the newest change that the hash covers.  A tree appears at once.   *)
(* One that is too old, or only half there, goes in its own time, piece by *)
(* piece, but never is it taken for a good one; and a good one stays.      *)
(***************************************************************************)
EXTENDS Naturals

CONSTANT Torn   \* stands for a directory that is not a whole tree

VARIABLES
  single,   \* is the project single-tree?  (fixed)
  rev,      \* the configured revision
  needed,   \* the oldest revision that will do
  tree,     \* the revision of the tree that is there, 0 if there is none
  accepted  \* has a run just succeeded?

vars == <<single, rev, needed, tree, accepted>>

Good == tree \notin {0, Torn} /\ tree >= needed

Init ==
  /\ single \in BOOLEAN
  /\ rev = 1 /\ needed = 1
  /\ tree = 0 /\ accepted = FALSE

Configure ==
  /\ rev' = rev + 1
  /\ needed' = rev' \/ (single /\ needed' = needed)
  /\ accepted' = FALSE
  /\ UNCHANGED <<single, tree>>

\* A run starts, or fails.
Begin == accepted' = FALSE /\ UNCHANGED <<single, rev, needed, tree>>

Discard ==
  /\ tree # 0 /\ ~Good
  /\ tree' \in {0, Torn}
  /\ accepted' = FALSE
  /\ UNCHANGED <<single, rev, needed>>

Publish ==
  /\ tree = 0 /\ tree' = rev
  /\ accepted' = TRUE
  /\ UNCHANGED <<single, rev, needed>>

Accept == Good /\ accepted' = TRUE /\ UNCHANGED <<single, rev, needed, tree>>

Next == Configure \/ Begin \/ Discard \/ Publish \/ Accept

Spec == Init /\ [][Next]_vars
=============================================================================
