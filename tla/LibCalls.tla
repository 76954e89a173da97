------------------------------ MODULE LibCalls ------------------------------
(***************************************************************************)
(* Strings that are put together and taken apart in libreboot-utils, and   *)
(* how its programs end (lib/string.c), and the names and calls that files *)
(* are opened by (lib/file.c).  A string is a sequence, and None a null    *)
(* pointer.  Where a result goes is "free", "taken" (by another result) or *)
(* "null" (nowhere).  Any allocation may fail.                             *)
(***************************************************************************)
EXTENDS WordStrings, SequencesExt

\* What is allocated has a size, and space.
vmalloc(size, memory) == IF size = 0 \/ ~memory THEN Abort ELSE "space"

\* slen refuses strings that do not end before n.
scat(s1, s2, n, dest, memory) ==
    IF \/ dest # "free" \/ Len(s1) >= n \/ Len(s2) >= n
       \/ vmalloc(Len(s1) + Len(s2) + 1, memory) = Abort
    THEN Abort ELSE s1 \o s2

sdup(s, n, dest, memory) ==
    IF dest # "free" \/ vmalloc(n, memory) = Abort \/ Len(s) >= n THEN Abort ELSE s

\* Two strings or more, from left to right.
scatn(sv, n, dest, memory) ==
    LET append(final, s) ==
          IF final = Abort THEN Abort ELSE scat(final, s, n, "free", memory)
    IN  IF Len(sv) < 2 \/ dest # "free" \/ (\E i \in DOMAIN sv : sv[i] = None) THEN Abort
        ELSE FoldLeft(append, sdup(sv[1], n, "free", memory), Tail(sv))

\* Both parts, the second not empty.  Without a place for one of them, a null
\* pointer is written to on the way out.
dcat(s, n, off, dest, memory) ==
    IF dest = "null" THEN Crash
    ELSE IF Len(s) >= n \/ off >= Len(s) \/ ~memory THEN Abort
    ELSE <<SubSeq(s, 1, off), SubSeq(s, off + 1, Len(s))>>

PartsCall(c) ==
    CASE c.fn = "scatn" -> scatn(c.sv, c.n, c.dest, c.memory)
      [] c.fn = "dcat"  -> dcat(c.sv[1], c.n, c.off, c.dest, c.memory)

\* All of the strings in their order, or parts that make up the whole; and they are
\* refused only for a reason.  (scatn's result may be longer than its limit: it is
\* for what is put together.)
NothingLost(c, value) ==
    /\ c.fn = "scatn" /\ value # Abort => value = FlattenSeq(c.sv)
    /\ c.fn = "dcat" /\ value \notin {Abort, Crash} =>
         value[1] \o value[2] = c.sv[1] /\ Len(value[1]) = c.off /\ value[2] # << >>
    /\ value \in {Abort, Crash} =>
         \/ c.dest # "free" \/ ~c.memory \/ \E i \in DOMAIN c.sv : c.sv[i] = None
         \/ c.fn = "scatn" /\ (Len(c.sv) < 2 \/ Len(FlattenSeq(c.sv)) >= c.n)
         \/ c.fn = "dcat" /\ (c.off >= Len(c.sv[1]) \/ Len(c.sv[1]) >= c.n)

\* Where the last slash (47) of a path is, or 0.
LastSlash(p) == SelectLastInSeq(p, LAMBDA ch : ch = 47)

----------------------------------------------------------------------------
(* exitf, and what it finds: a cleanup and the program's name, which are those *)
(* that were set first.                                                        *)

errhook(s, ptr) ==
    IF s.set THEN s ELSE [s EXCEPT !.set = TRUE, !.hook = IF ptr = None THEN "no_op" ELSE ptr]

lbsetprogname(s, argv0) ==
    IF s.progname # None \/ argv0 = None THEN s ELSE [s EXCEPT !.progname = argv0]

\* What follows the last slash of the name, if one was set.
lbgetprogname(s) ==
    IF s.progname = None THEN "libreboot-utils"
    ELSE SubSeq(s.progname, LastSlash(s.progname) + 1, Len(s.progname))

\* What the cleanup leaves in errno goes before what went wrong.
exitf(s, errno, after) ==
    LET t == errhook(s, None)
        e == IF t.hook # "no_op" /\ after # "0" THEN after ELSE errno
    IN  [hook |-> t.hook, name |-> lbgetprogname(t), errno |-> IF e = "0" THEN "ECANCELED" ELSE e]

Exits(c) ==
    LET call(s, x) == IF x[1] = "errhook" THEN errhook(s, x[2]) ELSE lbsetprogname(s, x[2])
    IN  exitf(FoldLeft(call, [set |-> FALSE, hook |-> None, progname |-> None], c.calls),
              c.errno, c.after)

\* A program that fails runs the cleanup it has set before anything could go wrong,
\* and gives a reason, under its own name without the directory.
FailsAsSet(c, value) ==
    LET hooks == SelectSeq(c.calls, LAMBDA x : x[1] = "errhook")
        names == SelectSeq(c.calls, LAMBDA x : x[1] = "lbsetprogname" /\ x[2] # None)
    IN  /\ value.errno # "0"
        /\ hooks # << >> /\ hooks[1][2] # None => value.hook = hooks[1][2]
        /\ hooks = << >> => value.hook = "no_op"
        /\ names # << >> => LastSlash(value.name) = 0 /\
             (value.name = names[1][2] \/ IsSuffix(<<47>> \o value.name, names[1][2]))

----------------------------------------------------------------------------
(* Names.  A path is a sequence of characters.                                 *)

Stripped(p) ==
    LET n == Max({i \in 1 .. Len(p) : p[i] # 47} \cup {IF Len(p) > 0 THEN 1 ELSE 0})
    IN  SubSeq(p, 1, n)

\* Both are in one buffer: "/" is written over the beginning of a name in the
\* root directory, which is lost.
fs_dirname_basename(path, allow_relative) ==
    LET p == Stripped(path)
        i == LastSlash(p)
    IN  IF i > 1 THEN <<SubSeq(p, 1, i - 1), SubSeq(p, i + 1, Len(p))>>
        ELSE IF i = 1 THEN << <<47>>, << >> >>
        ELSE IF allow_relative THEN << <<46>>, p>> ELSE Refused

Components(p) ==
    LET slash(i) == i \notin DOMAIN p \/ p[i] = 47
        starts == {i \in DOMAIN p : ~slash(i) /\ slash(i - 1)}
        end(i) == Min({j \in i .. Len(p) : slash(j + 1)})
        nth(n) == CHOOSE i \in starts : Cardinality({j \in starts : j < i}) = n - 1
    IN  [n \in 1 .. Cardinality(starts) |-> SubSeq(p, nth(n), end(nth(n)))]

\* Only a full name is opened, component by component from the root, and none of
\* them may be "." (46) or "..".  "/" alone leaves no name; "//" is the root itself.
fs_open(path) ==
    IF \/ path = << >> \/ path[1] # 47 \/ Len(path) = 1
       \/ \E i \in DOMAIN Components(path) : Components(path)[i] \in {<<46>>, <<46, 46>>}
    THEN Refused ELSE path

\* The directory that is opened, synced and closed, after a name in it was changed.
fsync_dir(path) ==
    LET i == LastSlash(path)
    IN  IF path = << >> THEN Refused
        ELSE fs_open(IF i = 0 THEN <<46>> ELSE IF i = 1 THEN <<47>> ELSE SubSeq(path, 1, i - 1))

PathCall(c) == [names |-> fs_dirname_basename(c.path, c.relative), synced |-> fsync_dir(c.path)]

\* The directory and the name in it are those of the path, but for a name in the
\* root directory.  The directory that is synced after a name in it was changed is
\* that one; or it is told that none was, which is so for "/", for relative names,
\* and for those through "." or "..", and for no others.
NamesPath(c, value) ==
    LET dir == value.names[1]
        base == value.names[2]
        here == dir = <<46>> /\ LastSlash(Stripped(c.path)) = 0
        plain == dir[1] = 47 /\ ToSet(Components(dir)) \cap {<<46>>, <<46, 46>>} = {}
    IN  value.names # Refused =>
          /\ (base # << >>) => IF here THEN Components(c.path) = <<base>>
                               ELSE Components(c.path) = Components(dir) \o <<base>>
          /\ base = << >> => Len(Components(c.path)) <= 1
          /\ c.path # << >> /\ c.path = Stripped(c.path) =>
               value.synced = IF plain /\ dir # <<47>> THEN dir ELSE Refused

----------------------------------------------------------------------------
(* The calls on files that are made through functions of its own: they check   *)
(* their arguments, make a call again when it is interrupted, check what it is *)
(* they got, and give a reason in errno when they fail, or the caller's errno  *)
(* back.  A call is a record: the function, whether its descriptor is open,    *)
(* its pointer null, what the system answers ("EINTR" any number of times, and *)
(* then "ok" or "fail"), and what the descriptor is of, and was of before.     *)

\* The first answer that is not an interruption counts; an errno that was set on
\* the way stays.
fs_retry(answers) ==
    LET last == SelectInSeq(answers, LAMBDA a : a # "EINTR")
    IN  [ok |-> answers[last] = "ok",
         errno |-> IF answers[last] = "fail" THEN "error"
                   ELSE IF last > 1 THEN "EINTR" ELSE "caller's"]

failed == [ok |-> FALSE, errno |-> "error"]
ends   == [ok |-> FALSE, errno |-> "exit"]
well   == [ok |-> TRUE, errno |-> "caller's"]

\* openat, mkdirat, fsync.
again_on_eintr(c) == IF ~c.open \/ c.null THEN failed ELSE fs_retry(c.answers)

check_file(c) ==
    IF ~c.open \/ c.null \/ c.answers[1] # "ok" \/ ~c.now.regular THEN failed ELSE well

\* The same inode still, and of the same size if that is asked for.
same_file(c) ==
    IF \/ ~c.open \/ c.null \/ c.answers[1] # "ok" \/ ~c.now.regular
       \/ c.now.inode # c.before.inode \/ (c.check_size /\ c.now.size # c.before.size)
    THEN failed ELSE well

\* The file must not be open; it must be a regular one if the caller wants to know
\* what it is (st); and whoever calls it does not see it fail.
open_file_on_eintr(c) ==
    IF \/ c.open \/ c.null \/ ~fs_retry(c.answers).ok
       \/ (c.st /\ ~c.now.regular) \/ ~c.seekable
    THEN ends ELSE fs_retry(c.answers)

\* Interrupted or not, the descriptor is gone and not closed again.
xclose(c) ==
    IF c.null THEN ends
    ELSE IF ~c.open \/ c.answers[1] = "ok" THEN well
    ELSE IF c.answers[1] = "EINTR" THEN [ok |-> TRUE, errno |-> "EINTR"] ELSE ends

Answers ==
    {a \in Seq({"ok", "fail", "EINTR"}) :
       a # << >> /\ \A i \in DOMAIN a : a[i] = "EINTR" <=> i < Len(a)}

FsCalls ==
    LET Inodes == [inode : Nat, size : Nat, regular : BOOLEAN]
    IN  [fn : {"again", "check_file", "same_file", "open", "xclose"}, open : BOOLEAN,
         null : BOOLEAN, seekable : BOOLEAN, check_size : BOOLEAN, st : BOOLEAN,
         now : Inodes, before : Inodes, answers : Answers]

FsCall(c) ==
    CASE c.fn = "again"      -> again_on_eintr(c)
      [] c.fn = "check_file" -> check_file(c)
      [] c.fn = "same_file"  -> same_file(c)
      [] c.fn = "open"       -> open_file_on_eintr(c)
      [] c.fn = "xclose"     -> xclose(c)

\* Success is told if and only if the call was made and answered well in the end and
\* gave what was asked for; with it errno tells of no failure, and without it of one.
TellsTruth(c, value) ==
    LET answered == Last(c.answers) = "ok"
        same == c.now.inode = c.before.inode /\ (c.check_size => c.now.size = c.before.size)
    IN  /\ value.ok <=>
             CASE c.fn = "again"      -> c.open /\ ~c.null /\ answered
               [] c.fn = "check_file" -> c.open /\ ~c.null /\ c.answers = <<"ok">> /\ c.now.regular
               [] c.fn = "same_file"  -> c.open /\ ~c.null /\ c.answers = <<"ok">> /\ c.now.regular /\ same
               [] c.fn = "open"       -> ~c.open /\ ~c.null /\ answered /\ c.seekable
                                         /\ (c.st => c.now.regular)
               [] c.fn = "xclose"     -> ~c.null /\ (c.open => c.answers[1] # "fail")
        /\ value.errno \in IF value.ok THEN {"caller's", "EINTR"} ELSE {"error", "exit"}
=============================================================================
