------------------------------- MODULE NvmUtil -----------------------------
(***************************************************************************)
(* nvmutil (util/libreboot-utils/nvmutil.c, lib/): a command on a GbE file *)
(* works on a copy of it, a temporary file in the same directory, which is *)
(* written, synced, read again, compared, and renamed to the file.         *)
(*                                                                         *)
(* Several users run it on one file, without a lock (io.c:73-77).  Any     *)
(* system call may fail, a write may report success and write something    *)
(* else, a process may be killed (a close() that fails is the same: xclose *)
(* and exit_cleanup call each other until the stack overflows), and the    *)
(* power may fail.  A file with several hard links is refused, and so is   *)
(* one that another user has replaced after open() and before fstat();     *)
(* later nobody notices.  Nothing else writes to the file in place, so     *)
(* that the inode opened keeps its content and its size: the same_file()   *)
(* tests, which compare the open descriptor with its own first fstat(),    *)
(* hold.                                                                   *)
(***************************************************************************)
EXTENDS GbeLayout

CONSTANTS
  Users,         \* those who run nvmutil, one command at a time each
  InitialFiles,  \* what the file may be at first
  Garbage,       \* what a corrupt write may leave instead of a block
  MaxRuns        \* bounds the number of commands

ASSUME NvmUtilAssumption ==
  /\ InitialFiles \subseteq File
  /\ Garbage \subseteq Block
  /\ MaxRuns \in Nat

VARIABLES
  file,      \* the content of the file
  synced,    \* that content has been synced (fsync)
  disk,      \* what a power loss would leave of the file
  pc,        \* the next step of each user's process
  cmd,       \* its command
  faulty,    \* whether an I/O error may happen to it
  linked,    \* whether the file it opens has a second hard link
  replaced,  \* whether another user has replaced the file since open()
  gbe,       \* the content of the file it has opened (gbe_fd)
  buf,       \* its two parts in memory (f->buf)
  modified,  \* the parts to be written (part_modified)
  tmp,       \* the content of the temporary file (tmp_fd)
  tmpsynced, \* ... has been synced
  tname,     \* the temporary file has a name in the directory
  status,    \* how the last command ended
  runs       \* the commands so far

chosen == <<cmd, faulty, linked>>
shared == <<file, synced, disk, replaced>>
vars   == <<file, synced, disk, pc, cmd, faulty, linked, replaced, gbe, buf,
            modified, tmp, tmpsynced, tname, status, runs>>

Empty == <<>>

TypeOK ==
  /\ file \in File
  /\ synced \in BOOLEAN
  /\ disk \in File
  /\ pc \in [Users -> {"idle", "open", "fstat", "read", "run", "write", "fsync", "check", "mv"}]
  /\ cmd \in [Users -> Readers \cup Writers]
  /\ faulty \in [Users -> BOOLEAN]
  /\ linked \in [Users -> BOOLEAN]
  /\ replaced \in [Users -> BOOLEAN]
  /\ gbe \in [Users -> File \cup {Empty}]
  /\ buf \in [Users -> [Part -> Block] \cup {Empty}]
  /\ modified \in [Users -> SUBSET Part]
  /\ tmp \in [Users -> File \cup {Empty}]
  /\ tmpsynced \in [Users -> BOOLEAN]
  /\ tname \in [Users -> BOOLEAN]
  /\ status \in [Users -> {"none", "ok", "failed", "killed"}]
  /\ runs \in 0..MaxRuns

Init ==
  /\ file \in InitialFiles
  /\ synced = TRUE /\ disk = file
  /\ pc = [u \in Users |-> "idle"]
  /\ cmd = [u \in Users |-> [name |-> "dump", arg |-> 0]]
  /\ faulty = [u \in Users |-> FALSE] /\ linked = [u \in Users |-> FALSE]
  /\ replaced = [u \in Users |-> FALSE]
  /\ gbe = [u \in Users |-> Empty] /\ buf = [u \in Users |-> Empty]
  /\ modified = [u \in Users |-> {}]
  /\ tmp = [u \in Users |-> Empty] /\ tmpsynced = [u \in Users |-> FALSE]
  /\ tname = [u \in Users |-> FALSE]
  /\ status = [u \in Users |-> "none"]
  /\ runs = 0

-----------------------------------------------------------------------------
(* Mutants: what a plausible slip would make of a definition below. *)

\* The offset of a part in memory, used for the file.
mem_offset(p) == p

\* The part to be copied is not looked at in particular.
any_valid(c, b) == \E p \in Part : good_checksum(b[p])

\* The temporary file of a command that only reads is forgotten.
cleanup_of_writers(u) == tname' = [tname EXCEPT ![u] = @ /\ cmd[u].name \in {"dump", "cat"}]

-----------------------------------------------------------------------------
(* The command table (xstart), and where a part is. *)

writes(c)       == c.name \in {"setmac", "swap", "copy"}
chksum_read(c)  == c.name # "dump"
chksum_write(c) == c.name = "setmac"
whole_part(c)   == c.name \in {"swap", "copy", "cat"}   \* rw_size

gbe_file_offset(p) == p * half

\* Enough parts have a valid checksum: the one to be copied, or any.
read_checksums(c, b) ==
  IF c.name = "copy" THEN good_checksum(b[c.arg])
                     ELSE \E p \in Part : good_checksum(b[p])

set_mac(m, b) == [b EXCEPT !.mac = m]

set_checksum(b) == [b EXCEPT !.sum = calculated_checksum(b.mac)]

\* What the command makes of the two parts, and which it modifies.
run(c, b) ==
  CASE c.name = "setmac" ->
         [p \in Part |-> IF good_checksum(b[p]) THEN set_mac(c.arg, b[p]) ELSE b[p]]
    [] c.name = "swap"   -> [p \in Part |-> b[1 - p]]
    [] c.name = "copy"   -> [p \in Part |-> b[c.arg]]
    [] OTHER             -> b

part_modified(c, b) ==
  CASE c.name = "setmac" -> {p \in Part : good_checksum(b[p])}
    [] c.name = "swap"   -> Part
    [] c.name = "copy"   -> {1 - c.arg}
    [] OTHER             -> {}

\* The first rw_size bytes of a block are overwritten, or compared.
pwrite(c, old, new) == IF whole_part(c) THEN new ELSE [new EXCEPT !.tail = old.tail]
vcmp(c, a, b)       == a.mac = b.mac /\ a.sum = b.sum /\ (whole_part(c) => a.tail = b.tail)

\* The temporary file t after the given parts have been written to it.
written(c, t, parts, b) ==
  [k \in DOMAIN t |-> IF \E p \in parts : k = gbe_file_offset(p)
                        THEN pwrite(c, t[k], b[CHOOSE p \in parts : k = gbe_file_offset(p)])
                        ELSE t[k]]

-----------------------------------------------------------------------------
Goto(u, step) == pc' = [pc EXCEPT ![u] = step] /\ UNCHANGED status

\* The process is gone, with its memory and its descriptors.
Gone(u) ==
  /\ pc'        = [pc EXCEPT ![u] = "idle"]
  /\ gbe'       = [gbe EXCEPT ![u] = Empty]
  /\ buf'       = [buf EXCEPT ![u] = Empty]
  /\ modified'  = [modified EXCEPT ![u] = {}]
  /\ tmp'       = [tmp EXCEPT ![u] = Empty]
  /\ tmpsynced' = [tmpsynced EXCEPT ![u] = FALSE]
  /\ UNCHANGED <<chosen, runs>>

\* exit_cleanup removes the temporary file, if it has not been renamed.
exit_cleanup(u) == tname' = [tname EXCEPT ![u] = FALSE]

Exit(u, s) ==
  /\ Gone(u)
  /\ exit_cleanup(u)
  /\ status' = [status EXCEPT ![u] = s]

-----------------------------------------------------------------------------
\* The user starts a command: the temporary file is created before anything
\* else is looked at.
xstart(u) ==
  /\ pc[u] = "idle" /\ runs < MaxRuns
  /\ \E c \in Readers \cup Writers, f, l \in BOOLEAN :
       /\ cmd' = [cmd EXCEPT ![u] = c]
       /\ faulty' = [faulty EXCEPT ![u] = f]
       /\ linked' = [linked EXCEPT ![u] = l]
  /\ tname' = [tname EXCEPT ![u] = TRUE]
  /\ pc' = [pc EXCEPT ![u] = "open"]
  /\ status' = [status EXCEPT ![u] = "none"]
  /\ runs' = runs + 1
  /\ UNCHANGED <<shared, gbe, buf, modified, tmp, tmpsynced>>

\* open()
open_gbe_file(u) ==
  /\ pc[u] = "open"
  /\ gbe' = [gbe EXCEPT ![u] = file]
  /\ replaced' = [replaced EXCEPT ![u] = FALSE]
  /\ Goto(u, "fstat")
  /\ UNCHANGED <<file, synced, disk, chosen, buf, modified, tmp, tmpsynced, tname, runs>>

\* The names that what it has opened now has.
st_nlink(u) == 1 + (IF linked[u] THEN 1 ELSE 0) - (IF replaced[u] THEN 1 ELSE 0)

\* fstat(): "file has multiple hard links", "file unlinked while open".
check_links(u) ==
  /\ pc[u] = "fstat"
  /\ IF st_nlink(u) = 1
       THEN /\ Goto(u, "read")
            /\ UNCHANGED <<chosen, gbe, buf, modified, tmp, tmpsynced, tname, runs>>
       ELSE Exit(u, "failed")
  /\ UNCHANGED shared

\* The file is read, copied, the copy synced, read and compared.
copy_gbe(u) ==
  /\ pc[u] = "read"
  /\ tmp' = [tmp EXCEPT ![u] = gbe[u]]
  /\ tmpsynced' = [tmpsynced EXCEPT ![u] = TRUE]
  /\ buf' = [buf EXCEPT ![u] = [p \in Part |-> gbe[u][gbe_file_offset(p)]]]
  /\ Goto(u, "run")
  /\ UNCHANGED <<shared, chosen, gbe, modified, tname, runs>>

\* read_checksums and cmd->run: the command fails, has printed what it had
\* to, or has changed the parts in memory.
run_command(u) ==
  /\ pc[u] = "run"
  /\ IF \/ chksum_read(cmd[u]) /\ ~read_checksums(cmd[u], buf[u])
        \/ cmd[u].name = "setmac" /\ cmd[u].arg \in BadMacs
       THEN Exit(u, "failed")
     ELSE IF ~writes(cmd[u]) THEN Exit(u, "ok")
     ELSE /\ buf' = [buf EXCEPT ![u] = run(cmd[u], buf[u])]
          /\ modified' = [modified EXCEPT ![u] = part_modified(cmd[u], buf[u])]
          /\ Goto(u, "write")
          /\ UNCHANGED <<chosen, gbe, tmp, tmpsynced, tname, runs>>
  /\ UNCHANGED shared

\* Each modified part is written, setmac's with a new checksum; a faulty disk
\* may write something else and not tell.
write_gbe_file(u) ==
  /\ pc[u] = "write"
  /\ buf' = [buf EXCEPT ![u] = [p \in Part |->
              IF chksum_write(cmd[u]) /\ p \in modified[u] THEN set_checksum(buf[u][p])
                                                           ELSE buf[u][p]]]
  /\ \/ tmp' = [tmp EXCEPT ![u] = written(cmd[u], tmp[u], modified[u], buf'[u])]
     \/ /\ faulty[u]
        /\ \E p \in modified[u], g \in Garbage :
             tmp' = [tmp EXCEPT ![u] = written(cmd[u], tmp[u], modified[u],
                                               [buf'[u] EXCEPT ![p] = g])]
  /\ tmpsynced' = [tmpsynced EXCEPT ![u] = FALSE]
  /\ Goto(u, "fsync")
  /\ UNCHANGED <<shared, chosen, gbe, modified, tname, runs>>

fsync_tmp(u) ==
  /\ pc[u] = "fsync"
  /\ tmpsynced' = [tmpsynced EXCEPT ![u] = TRUE]
  /\ Goto(u, "check")
  /\ UNCHANGED <<shared, chosen, gbe, buf, modified, tmp, tname, runs>>

\* (Mutants.)  Only the first part is compared.
check_first_part(u, p) ==
  p \in modified[u] \cap {0} => vcmp(cmd[u], tmp[u][gbe_file_offset(p)], buf[u][p])

\* The modified parts are read again and compared.
check_written_part(u, p) ==
  p \in modified[u] => vcmp(cmd[u], tmp[u][gbe_file_offset(p)], buf[u][p])

check_written(u) ==
  /\ pc[u] = "check"
  /\ IF \A p \in Part : check_written_part(u, p)
       THEN /\ Goto(u, "mv")
            /\ UNCHANGED <<chosen, gbe, buf, modified, tmp, tmpsynced, tname, runs>>
       ELSE Exit(u, "failed")
  /\ UNCHANGED shared

\* The temporary file is renamed to the file.  The directory is not synced:
\* gbe_mv would do that only if gbe_fd were open, which write_to_gbe_bin has
\* closed.
gbe_mv(u) ==
  /\ pc[u] = "mv"
  /\ file' = tmp[u] /\ synced' = tmpsynced[u]
  /\ replaced' = [w \in Users |-> replaced[w] \/ pc[w] = "fstat"]
  /\ Exit(u, "ok")
  /\ UNCHANGED disk

\* A system call fails: exitf, which calls exit_cleanup.
exitf(u) ==
  /\ pc[u] # "idle" /\ faulty[u]
  /\ Exit(u, "failed")
  /\ UNCHANGED shared

\* A signal: nothing is cleaned up.
Kill(u) ==
  /\ pc[u] # "idle"
  /\ Gone(u)
  /\ status' = [status EXCEPT ![u] = "killed"]
  /\ UNCHANGED <<shared, tname>>

-----------------------------------------------------------------------------
(* The operating system. *)

\* The directory is written to disk, some time after a rename.  If what it
\* points to has not been synced, a power loss now leaves an empty file.
Settle ==
  /\ disk' = IF synced THEN file ELSE Empty
  /\ UNCHANGED <<file, synced, replaced, pc, chosen, gbe, buf, modified, tmp,
                 tmpsynced, tname, status, runs>>

PowerLoss ==
  /\ file' = disk /\ synced' = TRUE
  /\ pc'        = [u \in Users |-> "idle"]
  /\ gbe'       = [u \in Users |-> Empty]
  /\ buf'       = [u \in Users |-> Empty]
  /\ modified'  = [u \in Users |-> {}]
  /\ tmp'       = [u \in Users |-> Empty]
  /\ tmpsynced' = [u \in Users |-> FALSE]
  /\ status'    = [u \in Users |-> IF pc[u] = "idle" THEN status[u] ELSE "killed"]
  /\ UNCHANGED <<disk, replaced, chosen, tname, runs>>

Step(u) ==
  \/ open_gbe_file(u) \/ check_links(u) \/ copy_gbe(u) \/ run_command(u) \/ write_gbe_file(u)
  \/ fsync_tmp(u) \/ check_written(u) \/ gbe_mv(u) \/ exitf(u)

Next ==
  \/ \E u \in Users : xstart(u) \/ Step(u) \/ Kill(u)
  \/ Settle \/ PowerLoss

Spec == Init /\ [][Next]_vars

\* A process that is not killed goes on.
FairSpec == Spec /\ \A u \in Users : WF_vars(Step(u))

-----------------------------------------------------------------------------
\* The file is only ever replaced as a whole, by what a command makes of a
\* content the file had, and no failure, kill or power loss between two steps
\* leaves anything else (GbeFile).
working == {u \in Users : pc[u] \notin {"idle", "open"}}

GF == INSTANCE GbeFile WITH now <- file, seen <- {gbe[u] : u \in working}

ImplementsGbeFile == GF!Spec

HasValidPart(f) == good_checksum(f[0]) \/ good_checksum(f[half])

\* A file that can be used stays usable: whatever is run on it by however many
\* users, and whatever happens meanwhile, a part with a valid checksum is left.
KeepsAValidPart == [][HasValidPart(file) => HasValidPart(file')]_vars

\* The exit status tells what happened to the file: with success, it is what
\* the command makes of the content it read; with failure, it is as it was.
\* And without I/O errors a command that has what it needs succeeds, unless the
\* file has another hard link, or another user replaces it just as it is opened.
EndsAsTold ==
  [][\A u \in Users : pc[u] # "idle" /\ pc'[u] = "idle" =>
       /\ status'[u] = "ok" /\ writes(cmd[u]) => file' = GF!Result(cmd[u], gbe[u])
       /\ status'[u] = "failed" =>
            /\ file' = file
            /\ \/ faulty[u]
               \/ ~GF!Applies(cmd[u], gbe[u])
               \/ cmd[u].name = "setmac" /\ cmd[u].arg \in BadMacs
               \/ pc[u] = "fstat" /\ (linked[u] \/ replaced[u])]_vars

\* Only a process that was killed leaves its temporary file behind.
NothingLeft == \A u \in Users : tname[u] /\ pc[u] = "idle" => status[u] = "killed"

=============================================================================
