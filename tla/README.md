# lbmk: specifications, model checks and proofs

This directory holds TLA+ specifications of lbmk, the Libreboot build system
(the shell program `./mk` with `include/*.sh`), and of the C utilities that it
carries in `util/`: what their state is, what each operation does to it, which
properties make them correct, what TLC checks on small instances and what TLAPS
proves for every value of the constants.

1. The system, 2. The modules, 3. The runs, 4. The proofs, 5. Disagreements
between code and comments, 6. What is not modelled, 7. The plan.

## 1. The system

| Part | Source | State it keeps | Operations | What is hard about it |
|---|---|---|---|---|
| Instances and the lock | `mk`, `include/init.sh`, `include/lib.sh` | the file `lock`, `xbmkwd/xbmk_*`, the environment inherited by children | start a parent, start a child, clean up | two instances at once, kills, errors before the clean-up, nested instances sharing one directory |
| Fetching | `include/get.sh` | `cache/file`, `cache/clone`, `cache/mirror`, `src/` | `xbget`, `try_fetch_file`, `try_fetch_git`, `git_prep` | truncated and wrong downloads, stale caches, interruption between any two commands |
| Source trees and builds | `include/tree.sh` | `src/`, `elf/`, `cache/hash`, `cache/tghash`, marker files | `./mk -f`, `./mk -b`, rebuild detection, cross compilers | hashes recorded before the work they stand for, partial results taken for complete ones |
| Vendor files | `include/vendor.sh`, `inject.sh`, `mrc.sh` | release archives, `vendorfiles/`, `cache/DO_NOT_FLASH` | `download`, `inject`, `inject ... nuke`, `inject ... setmac` | removing and re-inserting files must give back the same image |
| ROM images, releases | `include/rom.sh`, `release.sh` | `bin/`, `release/`, the variables of one shell | payload combinations, tarballs | variables of one board that live on into the next, names that promise what an image starts, releases killed in the middle |
| Chromebook import | `include/chromebook.sh` | `config/coreboot/` | `prep_mr_import` | a sequence of commands that replace a configuration |
| Guix setup | `init.sh`, `init-pico.sh` | GNAT, wrappers, interpreters of programs, paths in configurations | prepare a system, again at any time | each section decides by itself whether it was done |
| nvmutil | `util/libreboot-utils/nvmutil.c`, `lib/` | a GbE file of two parts | `dump`, `setmac`, `swap`, `copy`, `cat` | checksums, failures between the write and the rename, lost updates |
| mkhtemp | `util/libreboot-utils/lib/mkhtemp.c`, `file.c` | a directory | create a unique file or directory | other creators, and cleaning up by name |
| libreboot-utils library | `util/libreboot-utils/lib/` | none | strings, exact transfers, paths, random numbers, MAC addresses, exits | word-wise string functions at the ends of buffers and pages, interrupted and short transfers |
| me7_update_parser | `util/me7_update_parser/` | none | an ME update to an ME region | offsets and lengths of two kinds of modules |
| sbase | `util/sbase/` | none | `sha512sum` and its relatives | padding at the boundary of a block |
| spkmodem-decode | `util/spkmodem_decode/` | sliding windows over audio samples | decode a bit, recover a byte | incremental sums over a ring buffer |
| dell-flash-unlock | `util/dell-flash-unlock/` | chipset and EC registers | set the FDO strap, disable SMIs | state that survives a shutdown |

Parts interact through the file system (`src/`, `elf/`, `cache/`, `lock`) and
through child processes: almost every operation of `include/*.sh` runs further
`./mk` children. No part has threads. What makes the scripts hard to test is
that they are sequences of commands any of which can fail or be interrupted,
that each leaves files from which the next run concludes what has been done,
and that a user may have several of them running. What would make each part
correct:

* **Instances and the lock.** Two instances never work in one directory at the
  same time; the lock exists while somebody works and goes when he is done.
* **Fetching.** Nothing is delivered that was not verified; one good URL is
  enough; the cache makes a later run independent of the network; a run that
  succeeds leaves a complete tree, whatever it finds in `src/`.
* **Builds.** A build that reports success leaves complete results made from
  what is configured now, and nothing that is current is made again.
* **nvmutil.** The file is replaced as a whole or not at all, by what the
  command makes of it; it stays usable; the exit status tells the truth.
* **spkmodem-decode.** The counts kept up to date are those of their windows;
  a character is never made of the bits of two.
* **Vendor files.** Stripping an image and filling it again gives back the
  image, and a file that failed this says so in its name.
* **mkhtemp.** The name returned was nobody else's; it gives up in the end.
* **dell-flash-unlock.** What a run prints is so, whatever happened since the
  last one, and following it gets the chip written.
* **ROM images, releases.** An image has and starts what its name and the board's
  configuration say; nothing is published that has vendor files or is a part.
* **Libraries, parsers, setup.** Each call gives what a plain definition of it
  gives, at every boundary, or tells that it failed.

`PROJECT.json` lists, under `hazards`, the places in the code where these can go
wrong and a test would hardly notice, with the property that watches each.

## 2. The modules

Every definition that stands for code is mapped to its lines in `PROJECT.json`.
The definitions under "Mutants" in each module are plausible slips; each is
put in place of the definition it mutates to show that a property notices.
They take no part in `Next`.

### XbmkInit: instances in one work directory

A *parent* is one `./mk` started by a user, `pc[p]` the point of
`xbmk_parent_check_tmp`, `xbmk_parent_set_env` and `xbmk_child_exec` it has
reached. `kids[p]` is the stack of children its instance is running, of which
only the innermost moves; a child first checks the lock (`CheckLock`,
`xbmk_child_set_tmp`), then runs a command, which can run further children.
The lock file is what it names and whether it is read-only; opening it
(`> "$xbmklock"` truncates), writing to it and `chmod -w` are three actions,
since another instance can come in between, and `writers` says whose open
descriptor still reaches the file after a `rm`. The environment kills a whole
process group (`Kill`), or only the parent while its children go on
(`KillParent`), or is a user who deletes a lock when nothing is running. That a
child is killed alone while its own child goes on is left out: then the code does
let the lock go while somebody works (section 5).
The module is about the lock, the temporary directories and the python link;
the version and the other exported variables are in `BuildEnv`.

### XbGet, MeSearch: files with checksums

`xbget` with `try_fetch_file`, `bad_checksum` and `try_curl` for a file of a
submodule list, and the function `fetch` of `vendor.sh`, which runs `xbget` for
an archive, then for a file extracted from it, then extracts. A file is
"none", right ("archive" or "vendor", by the checksum), or "junk". Every
command is an action and a kill can leave the file being written truncated.
Which URLs are `honest` is chosen with each request; any other may fail or
deliver anything each time it is asked. `VerifiedFile` is what a caller of
`xbget` may rely on; `XbGet` implements it (`ImplementsVerifiedFile`).

`MeSearch`, which `XbGet` extends, is the extraction of Intel ME: `find_me` tries
every file of an archive, unpacks what can be unpacked and searches it in a
subshell, up to a directory name of 255 letters. `frames` are the nested loops,
each with the set of files it has yet to try, lowest first, and the length its
names have reached; `dirs` is what is in each directory. Directories
are named anew for each file and their names used again, so a search meets
files of an earlier one, or of another board. An archive says of each file whether it
is an ME image, an update, an archive, PFS or nothing, and what it holds. `Findable`
says what is asked of an archive for `VendorObtainable` to hold: archives three
deep at most, no file in two of them, nothing that makes another me.bin, no PFS but
the download itself, fewer files than letters in the longest name, and one file
that makes the wanted me.bin; in PFS, whose files are copied to every directory,
that one lies directly in it or in its only archive. Where less is asked, the
search may fail (section 5).

### GitFetch: source trees

`./mk -f` for one project, multi-tree or single-tree (`single`). First
`project_up_to_date` and `delete_old_project_files` look at the recorded hash of the
configuration (`CheckHash`), remove a tree that it does not match (`RemoveOld`) and
record the new one (`Record`); then `fetch_targets` or `clone_project` take a
directory that is there as it is (`Fetch`), or `git_prep`, `try_git` and `tmpclone`
make one: each repository (the main one, then the submodules) is cloned to the
cache, pulled when the configured revision is not there (or with `-F`), cloned
from there to `$xbtmp`, reset and patched; at the end all is renamed to `src/`.
`Configure` changes the revision and nothing else: the old tree stays until a
run removes it, and a kill in the middle of that leaves half of it (`Rubble`). The
hash of a single-tree project does not cover the revision, which is why `hashed`,
the newest change that it does cover, is a variable of its own. A hash that is cut
off by a kill stops every later run (`BadHash`).
A clone is abstracted to the newest configured revision that it has. A server
fails, lags behind or delivers; what it may do is chosen with each run. Revisions
are numbered as they are adopted; going back to an earlier one is in `BuildTree`.
`SourceTree` is what the build relies on: when a run has succeeded, a whole tree is
there, no older than what the hash covers (`Good`); a tree appears in one step, one
that is not good goes piece by piece, a good one stays. `GitFetch` implements it.

### BuildTree: building and rebuilding

`configure_project` with its two levels of hashes, `delete_old_project_files`,
`check_cross_compiler`, `elfcheck`, `handle_makefile` and `copy_elf`. Contents
are the version of the configuration they were made from. Its action `Fetch` is
`Publish` or `Accept` of `SourceTree`, with the failure the abstraction leaves out:
this is how the two modules compose. `single` distinguishes single-tree projects,
`rare` says which mishaps of a kind that defeats the scheme by design may
happen: the configuration reverted to an older version, copying the results
torn, a hash file torn, `./mk -x` run by the user.

### Inject, Release: vendor files in release archives

`./mk inject` with `check_target`, `patch_release`, `readkconfig`, `prep`,
`add_vfiles`, `check_vendor_hashes`, `modify_mac` and `remktar`. The archive and
its unpacked copy in `cache/DO_NOT_FLASH` are two pieces of state; `todo` is the
list of images that `fx_` has yet to hand to `prep`, which takes them one at a
time. What a board is (`board`) decides the early returns: no coreboot board,
one without vendor files, one whose list has nothing to insert, one with vendor
files. A download may give other vendor files than the image was built with,
tar may once write only a part of the archive (the pipe hides its status), and
`Abort` is a command that fails, or a kill, anywhere.
`Release` is what a user may rely on: the archive holds all images with, or all
images without their vendor files and with the hashes of the whole ones; it
goes from one to the other in one step. `Inject` implements it
(`ImplementsRelease`) as long as every archive was written whole. Downloading
is XbGet's part.

### RomImages: images and releases

`rom.sh` for several boards in one shell (`build_targets` is a loop), and
`release.sh`, which does it in a clone. An image is a function from names in its
CBFS to files. The payload variables (`payload`), the present configuration
(`conf`) and the work image (`tmprom`) are shell variables that live on into the
next board unless something sets them; `mkhelper.cfg` is read for each target
(`pc` = "target" on), `add_seabios`, `add_uboot` and `add_grub` copy the work image
under one name after another. A configuration changes, a command fails, or
the shell is killed between any two commands. A release is built,
stripped of vendor files, packed and published by `mv`. The files of `elf/`
come from `BuildTree`; how an archive is stripped is `Inject`'s part.
`RomAssumption` says what the configurations in `config/coreboot/` are like: each
board has a configuration, U-Boot is one of those there are, and a board that asks
for GRUB first has no other configuration after a "normal" one (`rom.sh:230`).

### GbeLayout, NvmUtil, GbeFile: nvmutil

`GbeLayout` has the format, `calculated_checksum` in arithmetic modulo `W`
(0x10000 in the code), and the commands. `NvmUtil` has one action for each step
of a command between which another process can come: create the temporary
file (`xstart`), open, `fstat` and look at the links (`check_links`), read and copy,
run, write the modified parts, sync, compare, rename. The file may have a second
name (`linked`), and another user's rename between `open` and `fstat` takes its
last one (`replaced`). A part is at `gbe_file_offset` in the file and at another place
in memory; `written` overwrites only `rw_size` bytes of it. I/O errors can end
every step of a run for which `faulty` was chosen, a faulty disk can write
something else and report success. `Settle` and `PowerLoss` are the operating
system: the content of a file is on disk when synced, a rename some time later.
`GbeFile` is the abstract file: it is looked at, later replaced as a whole by
the `Result` of a command on a content that was looked at, and a power loss can
bring back an earlier one. The NVM words that nvmutil never changes add up to
a constant, which `NVM_CHECKSUM` has absorbed.

### SpkModem, Receiver: spkmodem-decode

`handle_audio` is three actions: `begin_frame` (give up the unfinished character
when there is no separator tone), `decode_pulse` for each sample of the frame,
and `end_frame`, which is `select_separator_tone`, `set_ascii_bit` and
`detect_tone` in the order in which the code calls them, the second reading
what the first has just changed. The state is the C program's: a ring buffer of
two frames of pulses, the two positions in it, the counts of the data and the
separator window, the accumulators of the calibration and what was learnt of the
tones. Samples are amplitudes; a character is the set of its bits that are 1.
`Receiver` is the abstract specification: bits, highest first, are received one
at a time, a character is printed when it has all of them, and an unfinished one
may only be lost as a whole. `SpkModem` implements it (`ImplementsReceiver`).

### Mkhtemp, TmpDir: unique names

`Mkhtemp` has one action for each system call of `new_tmp_common` that meets
the directory: on Linux an unnamed file that is linked (`TryFile`, `Link`,
`Linked`), elsewhere a file created with `O_EXCL` (`Create`, `Created`), or a
directory (`TryDirectory`, `Made`), each with its failures and the removal by
name that follows. Other programs take and free names all the time
(`OthersAct`); a `janitor` is one who runs as the same user and removes creators'
files too, and then only the descriptors are spoken of. `TmpDir` chooses the
directory (`env_tmpdir`, `world_writeable_and_sticky`), once per creator, and
is also called directly by `Library`.

### DellFlashUnlock: a chip, a controller, and runs between shutdowns

Every register that `dell_flash_unlock.c` reads or writes is a variable: the
strap as it was sampled at power-on, the EC's override for the next power-on, the
global SMI enable, BIOS Write Enable and the four decode ranges. `Program` is the
program command by command, with `wait_ec`'s polls; `EcRuns` the controller;
`PowerCycle`, `Reboot` and `Flash` what the user does between two runs. A machine
(`mc`) is what firmware and EC do. The user follows what was printed last
(`Follow`), except for at most `Detours` times (`Wander`).

### Library: calls without state

`Library` makes one call, of any function of the modules below, on one input,
and its properties compare the answer with what was promised. Only `rw_exact` takes
more than a step. Its specification is `LibSpec` (`LibInit`, `LibNext`). The properties
gather what was promised by subject: `StringsAsPromised` has strings, paths and exits,
`NumbersAsAsked` numbers, addresses, checksums and commands, `EnvironmentFits` the
directory for temporary files, the environment, imports and the Guix setup,
`VendorFilesMade` ME regions and vendor files, `FailuresTold` transfers and calls
on files. `LibValues` has the operators of C on words of a few bits, and `Keep`, what
is left of a text or list. What calls
can be made on is typed (`Updates`, `Boards`, `FsCalls`, `Machines`, `VersionSources`,
`Environments`, `Pythons`, `Imports`, `ScriptRuns`, `Shells`, `MacCalls`, `AddressWords`,
`Arguments`, `SumCalls`, `Lines`), and `InputsAssumption`
says that the inputs of a run are of these types.

| Module | What it has | Compared with |
|---|---|---|
| `ExactIO` | `rw_exact`, `prw`, `rset`: transfers made of system calls that are short, interrupted, or fail | all bytes at their places, or an error (`AllOrError`); it ends (`IoEnds`) |
| `WordStrings` | `slen`, `scmp`, `sdup`, `vcmp`, which look at a word at a time, with the bytes and pages they touch | byte-wise definitions (`AsPromised`) |
| `LibCalls` | `scat`, `dcat`, `exitf`, `errhook`, `fs_dirname_basename`, the `fs_` calls, which names `fs_open` accepts, and `fsync_dir` | nothing lost, a failure told after the cleanup (`NothingLost`, `NamesPath`, `FailsAsSet`, `TellsTruth`) |
| `NvmCommands` | `rsize`, `parse_mac_string`, `set_cmd`, `print_mac_from_nvm`, `cat` | `Unbiased`, `MacAsAsked`, `RunsAsWritten`, `PrintsWhatIsSet`, `IsFileOfSize` |
| `Checksums` | padding, buffering and finishing of SHA-1, SHA-2 and MD5 in sbase, `cryptsum`, `cryptcheck` on several lists, of which one may not be there | the blocks of the padded message, lists that hold line by line |
| `Me7Update` | `me7_update_parser.py`: the module table, removing modules and Huffman chunks, the smaller region, the signature | modules whole and where they are looked for (`ModulesKept`) |
| `BuildEnv` | the version, read without the blanks at its ends, and its sanitizing, exported variables, threads, mirror, python | what a child makes of what it inherits is what the parent has (`VersionFits`, `InheritedAsItIs`, `PythonFits`) |
| `VendorFiles` | `getfiles` and each extractor of `vendor.sh`, `mrc.sh`, with files that go to `/dev/null` or have no checksum (that the destination is there already is in `XbGet`) | each file of a board at its own place (`FilesInPlace`) |
| `ConfigImport` | `./mk prep_mr_import`, failing at any command | patches and base of one revision, or an error (`ImportWhole`) |
| `GuixSetup` | `init.sh` section by section, killed, run again, moved, with another glibc; `init-pico.sh` | a run that succeeds leaves a system that builds (`SetUpAgain`, `PicoFirst`) |

The block function of a checksum is a symbol: what is compared is the sequence of
blocks that it is applied to.

## 3. The runs

Deadlock checking is on except where every behaviour ends: `init_serial`,
`init_race` (every parent has ended), `mkhtemp`, `dell` (the machine is off) and
`library` (the call has returned).

| Run | Question | Properties | Bounds |
|---|---|---|---|
| `init_serial` | Do instances that do not start within the same instant exclude one another, and does the lock go away? | `OneBuild`, `LockReleased` | 3 parents, nesting of 2, 2 children each |
| `init_race` (violation) | ... and if they do start in the same instant? | `OneBuild` | 2 parents |
| `xbget` | Are files verified, is one URL enough, is Intel ME found, is the cache kept? | `VendorVerified`, `HonestUrlEnough`, `VendorObtainable`, `ImplementsVerifiedFile`, `CacheKept`, `RequestEnds` | 11 archives of up to 5 files, `NameMax` = 6 |
| `git_any` | Does a run that succeeds leave a whole tree that is new enough, are cache and one good URL enough? | `OfflineSuffices`, `GoodUrlSuffices`, `ImplementsSourceTree`, `FetchEnds` | main repository with two patches, a submodule with one, 2 URLs, 3 revisions, both kinds of project |
| `build` | Are builds complete and current, and nothing built twice? | `BuildCurrent`, `HashedCurrent`, `NeverOther`, `WorkKept` | 2 targets, 2 versions, one kind of mishap |
| `inject` | Is stripping undone by inserting, does a run do what it was asked, are vendor files those of the build? | `Verified`, `EndsAsAsked`, `ImplementsRelease` | 2 images, 2 MAC addresses, one torn archive |
| `rom` | Is each image what its name and the board's configuration say, and is only what lost its vendor files released? | `ImagesAsConfigured`, `BootsAsNamed`, `ReleasedClean` | 2 boards out of 6 kinds, 2 keymaps, one upset |
| `nvm` | Is the GbE file always whole, what a command made, usable, and are the exit statuses right? | `NothingLeft`, `ImplementsGbeFile`, `KeepsAValidPart`, `EndsAsTold` | 2 users, 2 commands, 16 KiB, `W` = 4 |
| `mkhtemp` | Does each creator get a name of its own, and end, touching nothing of others and leaving nothing? | `Unique`, `NothingLeft`, `OthersKept`, `CreatorsEnd` | 2 creators, 2 names, `RetryMax` = 2, 3 machines |
| `spkmodem` | Are the counts those of their windows, characters never mixed? | `WindowSums`, `ImplementsReceiver` | frames of 4 samples, 3 amplitudes, calibration every 3 frames, 2 frames to learn from, characters of 2 bits |
| `dell` | Is what each run prints so, and does following it get the chip written? | `ToldTrue`, `UnlockedInTheEnd` | `Polls` = 3, `Detours` = 4, 5 contents of the decode registers, every firmware and EC |
| `library` | Do calls give what a plain definition gives, or tell that they failed? | `StringsAsPromised`, `NumbersAsAsked`, `EnvironmentFits`, `VendorFilesMade`, `FailuresTold`, `IoEnds` | below |

**Why the bounds are enough.** A third parent sees everything that two others
can do to the lock, and a child of a child what a child of any depth sees: the
lock and the directory. Three revisions give a clone that is two behind, which
is no different from three; two URLs are what the code has. Two versions of each
part of the configuration let every recorded hash be right or wrong in every
combination; two targets let one be built, current or stale, while the other is.
Two commands at the same time, or one after the other, are what the loss of an
update or of a valid part takes: a third starts from the same kind of files.
Two images let one be prepared while the other is not, and one of them be left
out of a torn archive; two MAC addresses are the default and another.
`W` = 4 lets a checksum be right, wrong, and wrap around. With frames of 4
samples a window holds none to all of its pulses, the ring wraps in every
second frame, and the range of the separator (1..3 at first) has values below,
in and above it that calibration can move it to.
The archives of `xbget` are those shapes in which a search goes differently:
flat, nested, side by side, PFS outside and inside, with another or a broken ME,
with files of the same names, with so many to try that the name gets too long
(`NameMax` stands for 255). Two boards are enough for a variable to live on into
the next one; the six kinds are those that lead to different branches of
`rom.sh`, and one upset is a change, a failure or a kill at any command of a run
that is followed by others. Two creators and two names make each collision
happen, and leave both retry loops at their limit. An EC that is done at once, in
time, at the last poll or too late is all that `wait_ec` can see; four
detours are enough to leave every register as an unfinished earlier run leaves it.

`library` has for transfers counts of 0, 1, 3 and 4 in files of up to 4 bytes; bytes
of 2 bits, words of 2 bytes and pages of 4, so that each alignment of two strings
to word and page occurs; sizes of 6 bits for `rsize`; messages of up to two blocks
of 16 words and 3 bytes more, in up to three chunks, so that the length falls into the
same block as the padding, or the next; up to two lines and two files of a list; ME
regions of 40 units with blocks of 8, one of them spared, up to 3 Huffman chunks
and 4 modules; versions of up to four (from a file) and five characters (from git);
the failure of every command of an import; and for
`init.sh` three runs of which the first two may be killed in any of 15
sections, in 2 directories and with 2 versions of glibc, one of which may be gone.

The safety properties of every run but `library` are proved without the bounds, and
of `library` `FailuresTold`, `VendorFilesMade` and `EnvironmentFits` (section 4).

**Fairness.** Only for a process's own steps (`WF_vars(Step)`): a process that
is not killed goes on, and the commands it runs end. The code bounds the network
(`--retry`, `--tries` in `try_curl`), git gives up on a server that does not
answer, make and cp end. It is never required that somebody is killed, that a
server works, or that a user deletes a lock or starts anything. `xbget`'s loop
over URLs is finite by the code, and that is what `RequestEnds` and `FetchEnds`
check, with any outcome of each command. In `mkhtemp` each creator is fair for
itself and the others are not: they may take its names for ever, and
`CreatorsEnd` is what `MKHTEMP_RETRY_MAX` gives. In `dell` the program goes on and
the user follows the last instruction, with finitely many detours; the EC is not
asked to be fair, because `wait_ec` gives up. In `library` the program goes on, and a
system call that is tried again and again is answered some time (strong fairness of
`Answered`): `rw_exact` retries for as long as it is interrupted. `build` and `rom`
check no liveness property; their `Spec` has no fairness.

**Deeper than they look.** `OfflineSuffices` needs `git show` to be tried before
a pull, and a failing pull to be ignored. `GoodUrlSuffices` needs both URLs'
clones never to be behind, which is its precondition. `WorkKept` and `BuildCurrent`
pull in opposite directions: always removing everything satisfies the second
only. `KeepsAValidPart` holds with two users although one can replace what the
other has written, because the argument of a lost update is also a file with a
valid part. `EndsAsTold` covers the corrupt write that reports success, and names the
one race that makes a command fail with nothing wrong: another user's rename between
`open` and `fstat`. `ImplementsSourceTree` starts each run from whatever earlier
configurations, failures and kills have left in `src/` and `cache/hash`, and is broken
by recording the hash before the tree is removed. `NamesPath` says of every name
either which directory `fsync_dir` syncs or that it refuses it.
`VendorObtainable` is about a search that ends with a failing exit status when
it has found something. `BootsAsNamed` speaks of every whole image in `bin/` at
all times, also of those that a killed run or an earlier configuration left.
`Unique` holds although creators clean
up by name: a name is only removed by who has just made it. `ToldTrue` relates
what is printed to registers that the next power-on will change.

## 4. The proofs

| Module | Theorem | Argument |
|---|---|---|
| XbmkProofs (XbmkInit, RomImages) | `RunnerHoldsLockCorrect`, `OneBuildCorrect`, `IInvCorrect`, `TypeCorrect` | Under `~OverlappingStarts`. Whoever is past the check of its child is named by a read-only lock. Inductive with: a parent that holds the lock is named by it, read-only (`HolderLock`); at most one has the lock open (`OpenerLock`); children exist only while the parent waits for them or is orphaned (`KidsOfWaiting`); holders have their directories (`HolderTmp`, `ExecTmp`) |
| | `RomInvCorrect`, `BootsAsNamedCorrect`, `ImagesAsConfiguredCorrect`, `ReleasedCleanCorrect` | `RomInv`: at each `stage` the variables of the shell are what the present board and configuration make them, whatever an earlier one left (`Settled`), the configuration is the one whose turn it is (`Place`), and the work image has the files that the stage is to have put in (`Tmprom`). `Made` and `Pending`: of the images asked for, each is good, or its board, configuration or keymap is still to come. For releases `Sources`, `CloneImages`, `Archives` and `Archived`: what the clone holds at each stage, that only images of boards with their vendor files taken out are packed, and one archive for each board that may be released. |
| XbGetProofs | `IInvCorrect`, `VendorVerifiedCorrect`, `HonestUrlEnoughCorrect`, `CacheKeptCorrect`, `Refinement` | What a command finds was established by an earlier one of the same request (`Checked`, `HonestRun`, `VendorRun`): a file is downloaded only where the cache has none that matches; the backup is tried only if the main URL is not honest; unless it was stale, the vendor file is missing or right wherever its mere existence is taken for success. |
| | `VendorObtainableCorrect`, `TypeCorrect` | `FetchInv` adds the types of the search (`SearchTypeOK`, `Named`) and `Fetched`: it is extracted only where the cache has none (`Extraction`), directories are left only to requests that do not search (`Clean`), what the main URL delivers is in the cache (`Downloaded`), and the search either has the right me.bin or is still to meet a file that makes it (`Found`). The last is `ArchiveAt` or `PfsSearch`: for each depth of the loops, what the directories hold, how long the names have become compared with the number of files still to be tried, and that a file that makes the right me.bin is among these or in an archive that is. |
| GitFetchProofs | `IInvCorrect`, `Refinement`, `OfflineSufficesCorrect`, `GoodUrlSufficesCorrect`, `ClonesGrowCorrect`, `TypeCorrect` | `src` is nothing, `Rubble` or whole at some revision, and unless the recorded hash differs and it is yet to be removed, new enough (`SrcWhole`). A tree that is moved there is whole, because at each `pc` the finished repositories in `work` are whole and the current one has what the next command presumes (`WorkSoFar`); a clone about to be kept is not older than what it replaces (`KeepFills`); a run for which the cache has everything only ever uses the first URL (`OfflineRun`); where servers are good and no clone is behind, a good URL is always still to be tried, and no clone gets behind (`GoodRun`) |
| BuildTreeProofs | `BuildCurrentCorrect`, `HashedCurrentCorrect`, `NeverOtherCorrect`, `WorkKeptCorrect`, `CompilerThereCorrect`, `TypeCorrect` | A result is made from the version that is recorded for it (`FromRecorded`), except between the steps of a run that is about to remove it or to record a new version, which is what `StageTree`, `StageTarget` and `StageWork` say for each `pc`; with no mishap (`LuckyInv`) they are also complete, and the marker implies the compiler (`Sound`). Of a single-tree project, whose hash lacks the revision, the hash recorded, what it covers, the result and the revision are in this order of age (`Ages`) |
| InjectProofs | `IInvCorrect`, `VerifiedCorrect`, `EndsAsAskedCorrect`, `Refinement`, `TypeCorrect` | `Sound`: what is packed has known vendor files, and a line for every image if it has hashes, so that `sha512sum -c` speaks of all of them. `Work(m)`: the archive is filled or stripped with one MAC address m, and for each `pc` the images prepared so far are what stripping or inserting makes of it, the others are as they were; after the check they all are what was hashed |
| UtilProofs (NvmUtil, SpkModem, DellFlashUnlock) | `ModemInvCorrect`, `ModemTypeCorrect`, `WindowSumsCorrect`, `ThresholdBetweenCorrect`, `CalibrationFollowsCorrect`, `ModemRefinement` | The windows stay a frame apart (`Apart`), so that moving both by one exchanges one entry between them (`WindowsMove`), and what this does to the number of pulses is what the code adds and subtracts (`PulsesMove`, `WindowSumsStep`). The sum of what was accepted lies between the number of samples times the lower and the upper bound (`Calibrated`), so their average is within the range. `Learnt` relates the tones heard to the threshold. The bits above `ascii_bit` are all that can be set (`CharType`), which makes the bits received a sequence that grows by one or is emptied. |
| | `UnlockTypeCorrect`, `ToldTrueCorrect` | `Steps`: a command that reached the EC is being done or done, and locks are looked at only under the override; `Between`: SMIs are off only where they can be turned on again, and are on whenever the machine is to be turned off next. |
| | `IInvCorrect`, `Refinement`, `KeepsAValidPartCorrect`, `EndsAsToldCorrect`, `NothingLeftCorrect`, `TypeCorrect` | `IInv`: for each user, `Stage(u)` says of each `pc` what is in memory and in the temporary file compared with the file that was opened: a copy, then the parts chosen and modified, then either `Result` or something that the comparison will notice, and after the comparison exactly `Result`. That nothing but a rename changes the file makes it independent of the other users. |
| NumberProofs (NvmCommands, Checksums) | `RsizeUnbiased` | The numbers that are accepted are as many as a multiple of n, each remainder as often as any other, shown by counting those up to a bound (`Drawn`). |
| LibraryProofs (Mkhtemp, Library) | `TypeCorrect`, `UniqueCorrect`, `NothingLeftCorrect`, `OthersKeptCorrect` | A creator that has made something has its own file under its name, unless somebody runs as the same user (`Own`), and nothing under any other (`Only`); a name it is about to try is one (`Named`); what is open is told by where it is (`Descriptors`). A step of another creator only takes a free name or removes what it owns itself (`Takes`, `Frees`, `Keeps`), which leaves all of this alone. |
| | `AllOrErrorCorrect`, `FailuresToldCorrect` | What was transferred is a first part of what was asked for, as long as the loop has counted (`Counted`) and at its place (`Positioned`), and `errno` is that of the last call (`Errnos`). Of the other calls: retries end with an answer that is not an interruption (`RetryEnds`), and success is told of the last answer only (`CallTruth`). |
| | `VendorFilesMadeCorrect` | An answer is that of the function (`CallInv`), so the theorem is about functions. Each extractor makes the file that is its own or fails (`Extracts`), and `getfiles` goes on only after success (`FilesPlaced`). Of an update: two chunks are equal or apart (`ChunksApart`), so what is removed contains nothing of what stays (`StayUncleared`) and all else (`OthersCleared`); the region is cut behind all that stays (`EndBehind`, `NewLength`), and the new place is always the smallest one (`NewOffset`), for which the table was changed (`ModulesStay`). |
| | `NumbersAsAskedCorrect` | Each function case by case, in NumberProofs. A checksum: after each part of a message the blocks mixed so far and the buffer are what came (`Taken`, `UpdateTakes`, by `UpdateFold` over the parts), padding makes of it the blocks of the padded message (`PaddedIs`, `PadTakes`), and these are told apart by the message (`SumIs`). A list: a line holds exactly when its digits are those of the file (`LineIs`, `ListIs`), and what a program prints are such lines (`ListOfProgram`). An address: a digit is put where no bit is set yet (`Disjoint`), so the words have the digits that were given or drawn (`DigitsOfWord`, `BytesAre`), the first byte has the bits of a local address (`FirstByte`, `SetIs`), and what dump prints gives the same words again (`PrintsIs`). |
| | `EnvironmentFitsCorrect`, `DirectoryChosen`, `VersionsFit`, `SetUpFits` | The policies of `env_tmpdir`, what a child makes of the environment and the choice of a python case by case. A version: each sed command keeps some places of the text (`Keep`), two characters that become neighbours had none between them that was kept (`KeepFacts`), and no step undoes what an earlier one achieved (`NoDotDotIs`, `NoDotSlashIs`, `SanitizeIs`); what is clean already is left alone, so a child reads its parent's (`ChildIs`). An import: after each number of commands (`PartlyImported`) every project has the patches and the base that its own commands have got to, and a command that fails tears only what it writes (`Imported`). `init.sh`: `SystemAfter` says what each section has established (`ReachedBy`), that what is built and what is recorded are of one directory (`Placed`, and between `cfg` and `state` `PlacedAfter`), and that what is half-made is of a section that some run was killed in (`FilesFit`, `CompilerFits`); sections keep it (`StepKeeps`), a kill leaves what the next run can start from (`TornFits`), and so do the builds between runs (`BuiltFits`). |

The theorems hold for every value of the constants that the named ASSUMEs allow:
any number of parents and any depth, any finite set of files and any archives made
of them, any repositories, URLs, patches and revisions, any targets, versions and sets
of mishaps, any boards and keymaps that `RomAssumption` allows and any number of
upsets, any users, number of commands, word size, and each of the file sizes of the
code, any frame size, amplitudes and thresholds, any creators, names and retries, any
machines, polls and detours, any requests, updates, boards, versions, imports and runs
of the scripts for Guix, any messages, lists, command lines and addresses. Some assumptions need a word: `ForeignAssumption` only names a file of another board;
`AbortAssumption`, `VersionAssumption`, `PythonAssumption`, `SystemAssumption`,
`AddressAssumption` and `ArgumentAssumption` say that the value which stands for "the
program ends" (or "no file", "no word") is none of the others; `HeaderAssumption` is a fact about the bytes of a header, which TLC
evaluates in the run and no proof uses.

The invariants were checked by TLC before they were proved. Each specification has one
lemma that `Init` implies the invariant, one that each step preserves it, with a step
per action, and the temporal theorem that joins them. `RunnerHoldsLock`, `ClonesGrow`,
`ThresholdBetween`, `CompilerThere` and `CalibrationFollows` are proved, and not
repeated in a run. Three proof modules are about two or three specifications each, whose
names are kept apart by prefixes (`RomInit`, `ModemInit`, `UnlockInit`, `LibInit`). Where a proof needs
induction over a set or a number (the least file of a list, the last module, the
number of draws), it takes a minimal counterexample from a well-founded order of the
library (`NatLessThanWellFounded`, `FS_StrictSubsetOrderingWellFounded`), which needs no
operator as a parameter. A fold from the left over n places is of the same kind: `FoldExists`
builds the function that the fold chooses, from steps that are functions on a set, and
`UpTo` carries what holds before the first place over each to the last. That is how a
theorem speaks of texts, lists of commands and runs of any length.

**Only model-checked.** The liveness properties (`LockReleased`, `RequestEnds`,
`FetchEnds`, `CreatorsEnd`, `UnlockedInTheEnd`, `IoEnds`): TLAPS cannot reason about
fairness. Of `library`, `StringsAsPromised`: what it speaks of is computed by loops over
bytes and words at any alignment, with the arithmetic of words. No module that a theorem
is about reaches a RECURSIVE operator.

## 5. Disagreements between code and comments

The one with a run is under `findings` in `PROJECT.json`: the lock that two
instances can hold at once (`init_race`).

Further ones, met while reading or modelling, without a run:

*Instances, fetching, builds*

* `init.sh:473-476`: when a nested child is killed alone (not its process group), the
  command that waits for it fails, and the top-level parent removes the temporary
  directory and the lock while the grandchild still works; `KillParent` in
  `XbmkInit` is of top-level parents only.
* `init.sh:249`: an error before `xbmk_child_exec` leaves the temporary
  directory, and from `init.sh:440` on also the lock (`ParentErr`).
* `tree.sh:151` removes `xbmk_python` with the rest of the temporary directory
  that `init.sh:354` has just put it in; later commands find no `python` there.
* `init.sh:294` accepts "-n" for `XBMK_THREADS`. Sanitizing a version is not
  idempotent if it begins with several dashes, so parent and child could differ;
  no version in use does. A link to the venv's own python is taken for the system's.
* `get.sh:220`: for a URL with a clone in the cache `try_git` never fails (327),
  so if the main URL is down when the configured revision changes, the clone
  lacks it, 221 ends the program and the backup that has it is not tried, against
  the loop at 162. `GoodUrlSuffices` therefore excludes URLs that lag behind.
* `get.sh:248`: where the destination is the cached file itself, as for the
  archive of a vendor file, a wrong download has been removed by `bad_checksum`
  when `x_ cp` wants to copy it, and the program ends before the backup URL is
  tried (this is why `HonestUrlEnough` is about submodule files, and
  `VendorObtainable` about the main URL).
* `vendor.sh:219` against 183-184: a vendor file that is there and wrong, of an
  older configuration, is accepted when the cache has nothing to replace it
  with (`stale` in XbGet).
* `tree.sh:402`: for a single-tree project the hash lacks the revision in
  `pkg.cfg`, so a new revision is not noticed, and `get.sh:63` takes the old tree
  (`single` in GitFetch and BuildTree, whose properties ask of such a project only
  what the hash covers).
* `tree.sh:404`: `rm -Rf` killed half-way, then the configuration reverted: the
  recorded hash is right again, and the half removed tree is used ("revert").
* `tree.sh:761`: results are copied one after the other, and `elfcheck`
  (`tree.sh:637`) takes any file among them for a finished build ("torncopy").
* `tree.sh:440`: an empty hash file makes `read`, and with it every later run,
  fail, where `tree.sh:391` promises a rebuild (`KillRecord` in both modules).
* `tree.sh:486`: for projects other than coreboot the marker and the compiler
  are under two different names, which happen to be equal in all configurations.
* `tree.sh:499`, `687`: `crossgcc-clean` leaves the marker ("xclean").
* `tree.sh:298`: `target.cfg` files that name each other never end.

*Vendor files and images*

* `lib.sh:58`, `194`: the status of `tar | xz` and `find | sort` is that of the last
  command. If tar leaves out the hash file, a later `setmac` removes the prefix
  "DO_NOT_FLASH_YET..." in `prep` (`vendor.sh:611`) before `add_vfiles` finds that
  it has nothing to check against (650), and saves an image that has no vendor
  files under a name that says it had. `sha512sum -c` of an empty list succeeds.
* `inject.sh:69`: a board whose list of vendor files yields nothing ends with
  status 0 and without the MAC address that was asked for ("unlisted").
* `find_me` (`vendor.sh:328` on): files that another board's search left are
  searched with the archive, and may end the search with the wrong ME; the name
  grows with each file until no directory can be made; PFS inside PFS is unpacked beside it and
  not searched; an unpacker that asks about a file that is there reads its
  answer from the list of files, and so ends the search of a directory: of archives
  four deep the directory of the third is named again after the fourth, and
  a file behind it is lost (proving `VendorObtainable` showed this; `Orderly`
  therefore asks for three); `me7_update_parser` writes its output before it
  refuses it, and is passed `-k` by `vendor.sh:368`, which it does not have.
* `mrc.sh:71`: a partition whose size is not a multiple of 1024 would lose its end.
* `rom.sh:230`: a "normal" configuration leaves `payload_grubsea=n` for the
  configurations after it. No board that asks for GRUB first has one
  (`RomAssumption`).
* `rom.sh:121`: killed between copying `cbfstool` and `rmodtool`, the second is
  missing later. A release killed in its `mv` blocks the next; a dry run does not
  refuse what the build refuses.
* A failing `prep_mr_import` leaves the old `target.cfg` with torn or no patches.
* `me7_update_parser.py`: an update outside `Sane` (an offset above 0x400, two
  chunks at one place, essential modules that are not compressed after the last
  Huffman chunk, an essential module beyond what is read, a module whose base is
  below that of the LLUT, whose chunk number is then negative and counts from the
  end of Python's list, no Huffman module) gives a region that misses something, or an
  exception; the partition's entry keeps its length when the file is cut. A module
  of an unknown compression is to be skipped (430-434), but its name is looked up
  first (365), in a table of three, and that is an exception.

*Guix setup* (`init.sh` beside `mk`)

* `init.sh:46`: a GNAT that was extracted in part is taken for whole, since only
  `bin` is looked at; 237: so is a torn font.
* `init.sh:71`: gcc is asked for the glibc before anything is repaired, and after
  the first run it is a wrapper: if that was cut off while it was written again, if its glibc is
  gone, or GNAT was removed, every later run fails here.
* `init.sh:251`, 280: killed between these and then moved, the paths of the old
  directory stay; killed between 267 and 271 and moved back, a marker is there
  without its compiler. `SetUpAgain` is about the others.
* `init-pico.sh:132`: the directory that is to win over `~/.local/bin` is left
  behind it if PATH has it already.

*C utilities*

* `io.c:437`: the rename is not synced. `io.c:167`: a lost update is not noticed.
  `file.c:738`: a failing `close` recurses. `io.c:7`: the TODO that readers need
  no temporary file is outdated, they make one.
* `file.c:137` promises a finite number of retries; 177 retries for ever. After a
  retry that succeeds, `errno` may stay EINTR.
* `file.c:545`: the name of a file in the root directory is lost.
* `file.c:85-88`: `fsync_dir` opens "." for a name without a slash, and "/" for one in
  the root, with `fs_open`, which refuses both: a name must begin with "/" (349), and
  something must follow it (399). So it fails for any such name, and for one with "."
  or ".." in its directory (482); `NamesPath` says for which. Its only call (`io.c:440`)
  is not reached, since the file was closed before.
  Of "///a" the directory is "//", which `fs_resolve_at` answers with the descriptor of
  the root itself (400-430), and `fsync_dir` closes it for every later call.
  `fs_open_component` leaks a descriptor on an error.
* `io.c:48`: another user's rename between `open` and `fstat` leaves the opened file
  without a name, and the command ends with "file unlinked while open" where a second
  attempt would do.
* `string.c:467`: `dcat` writes through a null destination. `scatn`'s limit is
  one of what has been put together before the last string, not of the result. The cleanup in `exitf` may replace
  `errno`; `errhook` takes only its first call.
* `command.c`: the character 0x1f is read as "?" (`hextonum`); a random
  address "00:xx:..." may be refused as all zero.
* `mkhtemp.c:596`: only EINTR is retried, not EAGAIN; 569: a collision of a
  directory's name is not retried; 124: the directory is checked and then
  opened; with TMPDIR set, `/tmp` and `/var/tmp` must be there all the same.
* `spkmodem-decode.c:339`: `sample_count` is at most one frame here, so the test
  for three frames (comment at 335) is never true. `378`: a valid frame gives no bit when it
  has just moved the range that it is compared with. `499`: the count is 0 at the start
  of every frame, not only at startup (comment at 494), so an edge between two
  frames is not a pulse. `595`: tones are learnt at most once, and never if the
  last learning frame is silent (comment at 158: "every LEARN_FRAMES").
* `dell_flash_unlock.c:129`: a range for the EC that is disabled is taken for an
  enabled one; 179: an answer at the last poll counts as none; a chip with SMM
  BIOS Write Protect is called unlocked; BIOS Write Enable is left set.
* sbase: `sha224sum` and `sha512-224` write 8 and 4 words into a digest of 28 bytes.

**Assumptions.** `cache/`, `src/` and `$xbtmp` are on one file system, so that
`mv` is a rename. The configuration does not change during a run. Children repeat
the hash check of their parent with the same result. Nobody writes to a GbE file
in place. Mishaps happen one kind at a time in the run, in any combination in
the proofs. Nobody with the same user removes a creator's files while `Unique`
and `OthersKept` are spoken of (`janitor`). Updates of ME 7 are of the kind there is (`Sane`).

## 6. What is not modelled

See `components` in `PROJECT.json`: `lottery`, `sec_scan.sh`, `guix-installer` and the
report tools keep no state and are used by nothing else; of sbase only the
checksum programs matter to lbmk, and of those the mixing of a block is left out;
the configuration files are data, of which the models see versions.
Of `rom.sh`: the serprog and PlayStation images, memtest86+, the options of the
CBFS backends and the building of GRUB's payload and of coreboot's utilities. Of
`init.sh` in `include/`: the installation of packages.
Of all parts: printing, logging, and the commands that only open an editor
or a menu.

## 7. The plan

Next, in this order: the parts of `StringsAsPromised` that compare single calls
(`NamesPath`, `FailsAsSet`), as theorems like `DirectoryChosen`; and the remaining helpers of `rom.sh` (`buildser`, `add_cbfs_option`,
`mkpayload_grub`).
