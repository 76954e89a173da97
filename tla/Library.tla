------------------------------ MODULE Library ------------------------------
(***************************************************************************)
(* Calls of the parts of lbmk that other modules take for granted, which   *)
(* keep no state: of libreboot-utils the strings, the names of files,      *)
(* calls on files, numbers, MAC addresses, nvmutil's arguments and output, *)
(* the choice of a temporary directory; of sbase the checksums;            *)
(* me7_update_parser; and of the scripts the environment that they make    *)
(* for themselves, the vendor files of a board, the import of              *)
(* configurations and the scripts for Guix.  And exact transfers, which    *)
(* are made of many system calls.  A behaviour is one call, made on one    *)
(* input.                                                                  *)
(***************************************************************************)
EXTENDS NvmCommands, LibCalls, TmpDir, ExactIO, Checksums, Me7Update, BuildEnv,
        VendorFiles, ConfigImport, GuixSetup

CONSTANTS Inputs   \* for each function, what it may be called with

VARIABLES fn,      \* what is called
          input,   \* its arguments, and what it finds; rw_exact's are in req
          value    \* what came of it, None before the call

libVars == <<fn, input, value, io>>

NoRequest == [type |-> "read", off |-> 0, n |-> 0]

Functions == {"string", "parts", "exit", "path", "fs", "rsize", "mac", "argv", "dump",
              "cat", "sum", "check", "sums", "me7", "tmpdir", "version", "environment",
              "python", "vendor", "import", "setup", "pico"}

ASSUME InputsAssumption ==
    /\ DOMAIN Inputs = Functions
    /\ Inputs["fs"] \subseteq FsCalls
    /\ Inputs["rsize"] \subseteq 1 .. SIZE_MAX
    /\ Inputs["mac"] \subseteq MacCalls
    /\ Inputs["argv"] \subseteq Arguments
    /\ Inputs["dump"] \subseteq AddressWords
    /\ \A x \in Inputs["cat"] : IsGbe(x.file) /\ x.cmd \in {"cat", "cat16", "cat128"}
    /\ Inputs["sum"] \subseteq SumCalls
    /\ Inputs["check"] \subseteq Seq(Lists)
    /\ \A x \in Inputs["sums"] : IsProgramCall(x)
    /\ Inputs["me7"] \subseteq Updates
    /\ Inputs["tmpdir"] \subseteq Machines \X (Paths \cup {Unset})
    /\ Inputs["version"] \subseteq VersionSources
    /\ Inputs["environment"] \subseteq Environments
    /\ Inputs["python"] \subseteq [{"python3", "python"} -> Pythons]
    /\ Inputs["vendor"] \subseteq Boards
    /\ Inputs["import"] \subseteq Imports
    /\ Inputs["setup"] \subseteq Seq(ScriptRuns) \ {<< >>}
    /\ Inputs["pico"] \subseteq Shells

LibInit ==
    /\ value = None
    /\ \/ fn \in Functions /\ input \in Inputs[fn] /\ IoInit(NoRequest, 0)
       \/ fn = "rw_exact" /\ input = None
            /\ \E r \in Requests, s \in 0 .. FileMax : IoInit(r, s)

Answer(f, x) ==
    CASE f = "string" -> String(x)
      [] f = "parts"  -> PartsCall(x)
      [] f = "exit"   -> Exits(x)
      [] f = "path"   -> PathCall(x)
      [] f = "fs"     -> FsCall(x)
      [] f = "rsize"  -> rsize(x)
      [] f = "mac"    -> parse_mac_string(x)
      [] f = "argv"   -> set_cmd(x)
      [] f = "dump"   -> print_mac_from_nvm(x)
      [] f = "cat"    -> cat(x.file, nff(x.cmd))
      [] f = "sum"    -> cryptsum(x.chunks, x.alg, x.stale)
      [] f = "check"  -> cryptcheck(x)
      [] f = "sums"   -> SumProgram(x)
      [] f = "me7"    -> generate_me_blob(x)
      [] f = "tmpdir" -> env_tmpdir(x[1], x[2])
      [] f = "version"     -> Versions(x)
      [] f = "environment" -> Environment(x)
      [] f = "python" -> xbmk_set_pyver(x)
      [] f = "vendor" -> getfiles(x)
      [] f = "import" -> ImportRun(x)
      [] f = "setup"  -> init(x)
      [] f = "pico"   -> init_pico(x)

Call ==
    /\ fn \in Functions /\ value = None
    /\ value' = Answer(fn, input)
    /\ UNCHANGED <<fn, input, io>>

\* A step of rw_exact, rset or a system call they make.
InTransfer(A) == fn = "rw_exact" /\ A /\ UNCHANGED <<fn, input, value>>

LibNext == Call \/ InTransfer(Io)

\* The program runs, and no call is interrupted for ever.
LibSpec == /\ LibInit /\ [][LibNext]_libVars
           /\ WF_libVars(InTransfer(rw_exact \/ Loop)) /\ SF_libVars(InTransfer(Answered))

----------------------------------------------------------------------------
Called(f) == fn = f /\ value # None

\* The word-wise functions of lib/string.c give what byte-wise ones would, and
\* touch no other pages (AsPromised); nothing is lost of strings that are put
\* together or taken apart, nor of a path's name and directory; and a program that
\* fails (exitf) tells why, after its cleanup.
StringsAsPromised ==
    /\ Called("string") => AsPromised(input, value)
    /\ Called("parts") => NothingLost(input, value)
    /\ Called("path") => NamesPath(input, value)
    /\ Called("exit") => FailsAsSet(input, value)

\* What is drawn is drawn evenly; setmac writes the address that was asked for,
\* with its random digits within what a single machine may have, and dump prints
\* it as setmac takes it; checksums are those of the whole message, a list is
\* right only if each line is, and one that was printed is; a command is the one that
\* was written; and the images of cat are GbE files of their sizes.
NumbersAsAsked ==
    /\ Called("rsize") => Unbiased(input, value)
    /\ Called("mac") => MacAsAsked(input, value)
    /\ Called("dump") => PrintsWhatIsSet(input, value)
    /\ Called("sum") => SumOfMessage(input, value)
    /\ Called("check") => ListHolds(input, value)
    /\ Called("sums") => ListIsChecked(input, value)
    /\ Called("argv") => RunsAsWritten(input, value)
    /\ Called("cat") => IsFileOfSize(input.file, value, 2 * (nff(input.cmd) + 1))

\* Temporary files go to a directory that is fit for them, or nowhere; a version
\* can be a part of the name of a file, and is that of the children; what is passed
\* on to them is what they would make of it; the python in PATH is a real one; a
\* configuration that is imported is whole or its import told to have failed; and a
\* Guix system is fit for builds again after each run of its scripts that succeeds.
EnvironmentFits ==
    /\ Called("tmpdir") => DirectoryFits(input[1], input[2], value)
    /\ Called("version") => VersionFits(input, value)
    /\ Called("environment") => InheritedAsItIs(input, value)
    /\ Called("python") => PythonFits(input, value)
    /\ Called("import") => ImportWhole(input, value)
    /\ Called("setup") => SetUpAgain(input, value)
    /\ Called("pico") => PicoFirst(input, value)

\* An ME region that is made from an update has the modules it needs, whole and
\* where they are looked for, when the update is one of the kind there is; and each
\* vendor file of a board gets to its own place.
VendorFilesMade ==
    /\ Called("me7") /\ Sane(input) => ModulesKept(input, value)
    /\ Called("vendor") => FilesInPlace(input, value)

\* A transfer is whole or told to have failed (AllOrError), and so is every other
\* call on a file.
FailuresTold ==
    /\ AllOrError
    /\ Called("fs") => TellsTruth(input, value)

\* Every transfer ends, unless it is interrupted for ever.
IoEnds == fn = "rw_exact" ~> phase = "done"
============================================================================
