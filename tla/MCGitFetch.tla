------------------------------ MODULE MCGitFetch ---------------------------
(* Instances of GitFetch: a repository with two patches, and its submodule. *)
EXTENDS GitFetch

TwoRepos    == <<"main", "sub">>
TwoUrls     == <<"main", "backup">>
SomePatches == [main |-> 2, sub |-> 1]

\* Servers that may do anything.
AnyServers == <<{"no", "old", "new"}, {"no", "old", "new"}>>
\* The main server may be down, the backup never is.
GoodBackup == <<{"no", "new"}, {"new"}>>

AllNetworks == {AnyServers, GoodBackup}
=============================================================================
