---------------------------- MODULE TmpDir ----------------------------
(* Which directory a temporary file goes to: env_tmpdir and what it calls, *)
(* lib/mkhtemp.c of libreboot-utils.                                       *)
(* A machine has the two standard directories and one more; a path names   *)
(* one of them, and "//tmp" is a second name of the first.                 *)
EXTENDS Naturals

Directories == {"/tmp", "/var/tmp", "elsewhere"}
Paths == Directories \cup {"//tmp"}
Unset == "unset"

(* "link": the path has a symbolic link in it. "open": writeable for all   *)
(* and not sticky. "private": not writeable for all. "noexec": private,    *)
(* and not to be searched by the user.                                     *)
Kinds == {"missing", "link", "sticky", "open", "private", "noexec"}

(* What TMPDIR is set to, and what the directories are like.               *)
Machines == [TMPDIR : Paths \cup {Unset}, kind : [Directories -> Kinds]]

(* The components of a path are opened one after the other: slashes in a   *)
(* row are one, links are refused.                                         *)
Inode(path) == IF path = "//tmp" THEN "/tmp" ELSE path
Kind(mc, path) == mc.kind[Inode(path)]
Opens(mc, path) == Kind(mc, path) \notin {"missing", "link"}

(* Mutant of same_dir: directories are compared by name only.              *)
same_name(mc, a, b) == IF a = b THEN "yes" ELSE "no"

(* Equal names are not opened.                                             *)
same_dir(mc, a, b) ==
    IF a = b THEN "yes"
    ELSE IF ~(Opens(mc, a) /\ Opens(mc, b)) THEN "error"
    ELSE IF Inode(a) = Inode(b) THEN "yes" ELSE "no"

(* Whether a directory that is not sticky will do if others cannot write.  *)
tmpdir_policy(mc, path) ==
    LET with == {same_dir(mc, path, d) : d \in {"/tmp", "/var/tmp"}}
    IN IF "error" \in with THEN "error"
       ELSE IF "yes" \in with THEN "refuse" ELSE "allow"

world_writeable_and_sticky(mc, path, allow_noworld_unsticky) ==
    /\ Opens(mc, path)
    /\ \/ Kind(mc, path) = "sticky"
       \/ Kind(mc, path) \in {"private", "noexec"} /\ allow_noworld_unsticky
    /\ Kind(mc, path) # "noexec"

(* override is what -p gives, Unset without it. Unset is also returned for *)
(* no directory at all.                                                    *)
env_tmpdir(mc, override) ==
    LET t == IF override = Unset THEN mc.TMPDIR ELSE override
        fits(path, allow) == world_writeable_and_sticky(mc, path, allow)
    IN IF t # Unset
       THEN IF /\ tmpdir_policy(mc, t) # "error"
               /\ fits(t, tmpdir_policy(mc, t) = "allow")
            THEN t ELSE Unset
       ELSE IF fits("/tmp", FALSE) THEN "/tmp"
       ELSE IF fits("/var/tmp", FALSE) THEN "/var/tmp" ELSE Unset
-----------------------------------------------------------------------
(* A directory that the user asks for is used or refused, never replaced   *)
(* by another; one that all can write to is sticky; the standard ones are  *)
(* sticky under whatever name they are asked for.                          *)
DirectoryFits(mc, override, got) ==
    LET asked == IF override = Unset THEN mc.TMPDIR ELSE override
    IN got # Unset =>
          /\ asked \in {Unset, got}
          /\ Kind(mc, got) \in {"sticky", "private"}
          /\ Inode(got) \in {"/tmp", "/var/tmp"} => Kind(mc, got) = "sticky"
=======================================================================
