------------------------------ MODULE ExactIO ------------------------------
(***************************************************************************)
(* Reading, writing and drawing an exact number of bytes in libreboot-     *)
(* utils, over system calls that do less than they are asked to, are       *)
(* interrupted or fail: rw_exact and rw (lib/file.c), rset (lib/rand.c).   *)
(*                                                                         *)
(* A request transfers n bytes between a buffer and a file from offset off *)
(* on, or from where the descriptor is; rset fills a buffer with n bytes   *)
(* of getrandom.  Bytes are told apart by where they are in the file; the  *)
(* transfers made are the pairs <<offset in the buffer, place in file>>.   *)
(***************************************************************************)
EXTENDS Integers, Sequences

CONSTANTS Offsets,    \* where requests begin
          Counts,     \* how many bytes they are for
          FileMax     \* the largest size of a file

ASSUME RequestsAssumption ==
          /\ Offsets \subseteq Int /\ Counts \subseteq Nat /\ FileMax \in Nat

Types == {"read", "write", "pread", "pwrite", "rset"}

VARIABLES
    req,     \* the request: type, off and n
    phase,   \* "idle", "loop", "syscall" or "done"
    rc,      \* bytes transferred as rw_exact counts them
    rval,    \* what the last rw returned
    pos,     \* the position of the descriptor
    size,    \* the size of the file, which others may change
    moved,   \* the transfers made
    errno,   \* the C library's errno
    ret      \* what the caller gets, Pending before

io == <<req, phase, rc, rval, pos, size, moved, errno, ret>>

Pending == -2
Failed == -1

\* errno is 0, what the caller left in it, EINTR, or an error.
Errno == {"0", "caller's", "EINTR", "error"}

Done(r) == phase' = "done" /\ ret' = r

\* with_fallback_errno and reset_caller_errno, where errno was e.
Fallback(e) == IF e = "0" THEN "error" ELSE e
Reset(e) == IF e = "0" THEN "caller's" ELSE e

\* A call ends with an error of its own, or well.
Err == Done(Failed) /\ errno' = Fallback(errno)
Ok(r) == Done(r) /\ errno' = Reset(errno)

\* io_args, and rset's own check, which ends the program.
io_args == req.n > 0 /\ (req.type # "rset" => req.off >= 0)

rw_exact ==
    /\ phase = "idle"
    /\ \/ io_args /\ phase' = "loop" /\ errno' = "0" /\ UNCHANGED ret
       \/ ~io_args /\ Done(Failed) /\ errno' = "error"
    /\ UNCHANGED <<req, rc, rval, pos, size, moved>>

\* The head of the loop counts what the last turn returned.
Loop ==
    /\ phase = "loop"
    /\ \/ rval > req.n - rc /\ Err /\ UNCHANGED rc
       \/ /\ rval <= req.n - rc
          /\ rc' = rc + rval
          /\ \/ rc' >= req.n /\ Ok(rc')
             \/ rc' < req.n /\ phase' = "syscall" /\ UNCHANGED <<ret, errno>>
    /\ UNCHANGED <<req, rval, pos, size, moved>>

\* Mutant of Place: every call is made for the first place again.
not_advanced == IF req.type \in {"pread", "pwrite"} THEN req.off ELSE pos

\* What the call is made for: mem_cur, nrw_cur, off_cur.
Mem == rc
Left == req.n - rc
Place == IF req.type \in {"pread", "pwrite"} THEN req.off + rc ELSE pos

----------------------------------------------------------------------------
(* The system calls                                                        *)

\* What a call may return: any part of what is asked for that the file has,
\* and any part that it can take.  A call fails, or is interrupted, at will;
\* reading at the end of a file and writing to a full one returns 0.
Amounts ==
    LET room == IF req.type \in {"read", "pread"} THEN size - Place
                ELSE IF req.type = "rset" THEN Left ELSE FileMax - Place
    IN  IF room <= 0 THEN {0}
        ELSE 1 .. (IF room < Left THEN room ELSE Left)

Transfer(r) ==
    /\ moved' = moved \o [i \in 1 .. r |-> <<Mem + i - 1, Place + i - 1>>]
    /\ pos' = IF req.type \in {"read", "write", "rset"} THEN pos + r ELSE pos
    /\ size' = IF req.type \in {"write", "pwrite"} /\ r > 0 /\ Place + r > size
                 THEN Place + r ELSE size

\* Mutant of Returns: 0 is tried again.
try_again(r) ==
    /\ Transfer(r)
    /\ rval' = r /\ phase' = "loop"
    /\ errno' = IF req.type = "rset" THEN Reset(errno) ELSE errno
    /\ UNCHANGED ret

\* rw, and the body of rset's loop, once the call returns: what it returns is
\* checked by rw_over_nrw, and 0 ends rw_exact, and rset, at once.  rset gives
\* the caller's errno back in every turn.
Returns(r) ==
    /\ Transfer(r)
    /\ \/ r = 0 /\ Err /\ UNCHANGED rval
       \/ /\ r > 0 /\ rval' = r /\ phase' = "loop"
          /\ errno' = IF req.type = "rset" THEN Reset(errno) ELSE errno
          /\ UNCHANGED ret

Fails ==
    /\ Done(Failed) /\ errno' = "error"
    /\ UNCHANGED <<rval, pos, size, moved>>

Answered ==
    /\ phase = "syscall"
    /\ Fails \/ \E r \in Amounts : Returns(r)
    /\ UNCHANGED <<req, rc>>

\* An interrupted call is made again (rw_retry, sys_retry).
Interrupted ==
    /\ phase = "syscall"
    /\ errno' = "EINTR"
    /\ UNCHANGED <<req, phase, rc, rval, pos, size, moved, ret>>

\* Another process changes the size of the file.
Resize ==
    /\ phase # "done"
    /\ size' \in 0 .. FileMax
    /\ UNCHANGED <<req, phase, rc, rval, pos, moved, errno, ret>>

----------------------------------------------------------------------------
\* A request for r, on a file of size s.
IoInit(r, s) ==
    /\ req = r /\ size = s
    /\ phase = "idle" /\ rc = 0 /\ rval = 0 /\ ret = Pending /\ moved = <<>>
    /\ errno = "caller's"
    /\ pos = IF r.type \in {"read", "write"} /\ r.off >= 0 THEN r.off ELSE 0

Requests == [type : Types, off : Offsets, n : Counts]

Io == rw_exact \/ Loop \/ Answered \/ Interrupted \/ Resize

----------------------------------------------------------------------------
(* Properties                                                              *)

First == IF req.type = "rset" THEN 0 ELSE req.off

\* A caller that is told of success has had all its bytes transferred, each
\* once, in order and at its own place, however they were split and whoever
\* changed the file's size meanwhile; one that is told of an error has had a
\* part of them, from the first one on, and nothing else transferred, and is
\* left an errno of this call (rw_exact: "read perfectly or die").
AllOrError ==
    /\ moved = [i \in 1 .. Len(moved) |-> <<i - 1, First + i - 1>>]
    /\ Len(moved) <= req.n
    /\ ret = Failed => errno \in {"EINTR", "error"}
    /\ ret \notin {Pending, Failed} =>
         /\ ret = req.n /\ Len(moved) = req.n
         /\ errno \in {"EINTR", "caller's"}
============================================================================
