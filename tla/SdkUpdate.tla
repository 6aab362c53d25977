------------------------------ MODULE SdkUpdate ------------------------------
(***************************************************************************)
(* tools/update_osx_sdk.py: pins the newest macOS SDK package of Apple's   *)
(* catalog in MODULE.bazel, with its hash, its SDK version and a Wayback   *)
(* Machine snapshot of it.  The program is run again and again: one run    *)
(* leaves its downloads in /tmp, its captures at the Wayback Machine and   *)
(* its text in MODULE.bazel for the next, however it ended.                *)
(*                                                                         *)
(* A package stands for its URL; packages are numbers, in the order of     *)
(* their URLs.  A file is its package and how many of the package's chunks *)
(* are in it, and a hash is the file it was computed from.                 *)
(***************************************************************************)
EXTENDS Integers, FiniteSets

CONSTANTS
    Packages,        \* CLTools_macOSNMOS_SDK packages Apple has published
    SdkVersion,      \* the SDK version inside each of them
    Pinned,          \* the package MODULE.bazel names at first
    Chunks,          \* chunks of 1 MiB in a package
    MaxAttempts,     \* WAYBACK_SAVE_MAX_ATTEMPTS (30 in the program)
    MaxRuns          \* bound of the model: runs of the program

ASSUME PackagesAssumption ==
    /\ IsFiniteSet(Packages) /\ Packages \subseteq Nat /\ Pinned \in Packages
    /\ SdkVersion \in [Packages -> Nat]
ASSUME BoundsAssumption ==
    /\ Chunks \in Nat \ {0} /\ MaxAttempts \in Nat \ {0} /\ MaxRuns \in Nat

VARIABLES
    pc,          \* where the run is; "exit" between runs
    runs,        \* runs started so far
    dry_run,     \* --dry-run
    catalog,     \* the packages this run found in the catalog
    todo,        \* those of them it has not looked at yet
    package,     \* the one it is looking at
    hash,        \* DownloadedPackage.hash of it
    candidates,  \* the MacOSSDKUpdate records so far
    update,      \* the one chosen, then with its snapshot
    attempt,     \* attempt in _wait_for_wayback_capture
    tmp,         \* /tmp/apple_sucatalog: the chunks of each file, Absent if none
    requested,   \* packages the Wayback Machine was asked to capture
    snapshots,   \* packages it has captured
    module       \* osx.from_archive in MODULE.bazel, Truncated if it is cut

vars == <<pc, runs, dry_run, catalog, todo, package, hash, candidates, update,
          attempt, tmp, requested, snapshots, module>>

Absent == -1
Truncated == [truncated |-> TRUE]
Hash == [of : Packages, chunks : 0 .. Chunks]

\* The four fields update_osx_from_archive writes; the snapshot is none until
\* the Wayback Machine has confirmed it.
Update == [url : Packages, sha256 : Hash, sdk_version : Nat,
           archive_url : Packages \union {Absent}]

WholeFile(p) == [of |-> p, chunks |-> Chunks]

InitialModule ==
    [url |-> Pinned, sha256 |-> WholeFile(Pinned),
     sdk_version |-> SdkVersion[Pinned], archive_url |-> Pinned]

Init ==
    /\ pc = "exit" /\ runs = 0 /\ dry_run = FALSE
    /\ catalog = {} /\ todo = {} /\ package = Pinned
    /\ hash = WholeFile(Pinned) /\ candidates = {} /\ update = InitialModule
    /\ attempt = 0
    /\ tmp = [p \in Packages |-> Absent]
    /\ requested = {} /\ snapshots = {Pinned}
    /\ module = InitialModule

world == <<tmp, requested, snapshots, module>>
choice == <<candidates, update>>

\* An exception no frame catches: a traceback and exit status 1.
Raise ==
    /\ pc' = "exit"
    /\ UNCHANGED <<runs, dry_run, catalog, todo, package, hash, choice, attempt,
                   world>>

----------------------------------------------------------------------------
(* The catalog and the packages it lists *)

\* main starts, parse_sucatalog reads what Apple publishes today.
parse_sucatalog ==
    /\ pc = "exit" /\ runs < MaxRuns
    /\ runs' = runs + 1
    /\ dry_run' \in BOOLEAN
    /\ catalog' \in SUBSET Packages /\ todo' = catalog'
    /\ pc' \in {"scan", "exit"}
    /\ candidates' = {} /\ attempt' = 0
    /\ UNCHANGED <<package, hash, update, world>>

\* latest_nmos_sdk_update takes the next package; prefetch_to_tmp asks for its file.
NextPackage ==
    /\ pc = "scan"
    /\ \E p \in todo :
        /\ package' = p /\ todo' = todo \ {p}
        /\ pc' = IF tmp[p] # Absent THEN "hash" ELSE "open"
    /\ UNCHANGED <<runs, dry_run, catalog, hash, choice, attempt, world>>

\* urlopen succeeded; open(dest, "wb") creates the file.
OpenDownload ==
    /\ pc = "open"
    /\ tmp' = [tmp EXCEPT ![package] = 0]
    /\ pc' = "download"
    /\ UNCHANGED <<runs, dry_run, catalog, todo, package, hash, choice, attempt,
                   requested, snapshots, module>>

ReadChunk ==
    /\ pc = "download" /\ tmp[package] < Chunks
    /\ tmp' = [tmp EXCEPT ![package] = @ + 1]
    /\ UNCHANGED <<pc, runs, dry_run, catalog, todo, package, hash, choice, attempt,
                   requested, snapshots, module>>

\* r.read(n) returns no bytes at the end of the package, and also, without an
\* exception, when the server closes the connection before it.
EndOfDownload ==
    /\ pc = "download"
    /\ pc' = "hash"
    /\ UNCHANGED <<runs, dry_run, catalog, todo, package, hash, choice, attempt, world>>

HashFile ==
    /\ pc = "hash"
    /\ hash' = [of |-> package, chunks |-> tmp[package]]
    /\ pc' = "version"
    /\ UNCHANGED <<runs, dry_run, catalog, todo, package, choice, attempt, world>>

\* get_macOS_SDK_version lists the package's Bom with tar.  tar may accept a file
\* cut short of the package's end, but not an empty one.
get_macOS_SDK_version ==
    /\ pc = "version" /\ tmp[package] > 0
    /\ candidates' = candidates \union
         {[url |-> package, sha256 |-> hash, sdk_version |-> SdkVersion[package],
           archive_url |-> Absent]}
    /\ pc' = "scan"
    /\ UNCHANGED <<runs, dry_run, catalog, todo, package, hash, update, attempt, world>>

\* tar refuses a file that is cut short.
TarFails == pc = "version" /\ tmp[package] < Chunks /\ Raise

\* Mutated form: the last in the order of the URLs.
LaterUrl(a, b) == a.url > b.url

\* The key of max() is (version, url).
IsNewer(a, b) ==
    \/ a.sdk_version > b.sdk_version
    \/ a.sdk_version = b.sdk_version /\ a.url > b.url

NoCandidates == pc = "scan" /\ todo = {} /\ candidates = {} /\ Raise

ChooseLatest ==
    /\ pc = "scan" /\ todo = {} /\ candidates # {}
    /\ \E c \in candidates :
        (\A d \in candidates : ~IsNewer(d, c)) /\ update' = c
    /\ pc' = "find"
    /\ UNCHANGED <<runs, dry_run, catalog, todo, package, hash, candidates, attempt, world>>

----------------------------------------------------------------------------
(* The Wayback Machine *)

\* _wayback_snapshot_url refuses a snapshot of another URL.
IsSnapshotOf(original_url, url) == original_url = url

\* find_wayback_snapshot or _wait_for_wayback_capture answers with a snapshot.
Confirm ==
    \E original_url \in snapshots :
        /\ IsSnapshotOf(original_url, update.url)
        /\ update' = [update EXCEPT !.archive_url = original_url]
        /\ pc' = "module"
        /\ UNCHANGED <<runs, dry_run, catalog, todo, package, hash, candidates, attempt,
                       world>>

SnapshotFound == pc = "find" /\ Confirm

\* The index lists none: it may not list yet what was captured lately.
NoSnapshotListed ==
    /\ pc = "find" /\ ~dry_run
    /\ pc' = "save"
    /\ UNCHANGED <<runs, dry_run, catalog, todo, package, hash, choice, attempt, world>>

DryRunCannotSave == pc = "find" /\ dry_run /\ Raise

\* The POST reaches the Wayback Machine; its answer has a job, or is lost or bad.
RequestSnapshot ==
    /\ pc = "save"
    /\ requested' = requested \union {update.url}
    /\ pc' \in {"poll", "exit"}
    /\ UNCHANGED <<runs, dry_run, catalog, todo, package, hash, choice, attempt,
                   tmp, snapshots, module>>

CaptureDone == pc = "poll" /\ Confirm

\* Mutated form: an attempt that is not counted.
PollForever ==
    /\ pc = "poll"
    /\ UNCHANGED <<pc, attempt>>
    /\ UNCHANGED <<runs, dry_run, catalog, todo, package, hash, choice, world>>

CapturePending ==
    /\ pc = "poll"
    /\ IF attempt = MaxAttempts - 1
       THEN pc' = "exit" /\ UNCHANGED attempt
       ELSE attempt' = attempt + 1 /\ UNCHANGED pc
    /\ UNCHANGED <<runs, dry_run, catalog, todo, package, hash, choice, world>>

\* The Wayback Machine captures a package it was asked for, in its own time.
Capture ==
    /\ \E p \in requested : snapshots' = snapshots \union {p}
    /\ UNCHANGED <<pc, runs, dry_run, catalog, todo, package, hash, choice, attempt,
                   tmp, requested, module>>

----------------------------------------------------------------------------
(* MODULE.bazel *)

\* Mutated form: a hash that stays when the rest is replaced.
KeepOldHash(text) == [update EXCEPT !.sha256 = text.sha256]

\* The four replace_single in the block of the old text leave nothing of it.
update_osx_from_archive(text) == update

\* What a run that died in write_text left has no osx.from_archive block.
NoBlock == pc = "module" /\ module = Truncated /\ Raise

\* main reads the text and has nothing to write: a dry run, or no difference.
NothingToWrite ==
    /\ pc = "module" /\ module # Truncated
    /\ dry_run \/ update_osx_from_archive(module) = module
    /\ pc' = "exit"
    /\ UNCHANGED <<runs, dry_run, catalog, todo, package, hash, choice, attempt, world>>

\* write_text truncates the file, then writes the whole text.
TruncateModule ==
    /\ pc = "module" /\ module # Truncated /\ ~dry_run
    /\ update_osx_from_archive(module) # module
    /\ update' = update_osx_from_archive(module)
    /\ module' = Truncated
    /\ pc' = "write"
    /\ UNCHANGED <<runs, dry_run, catalog, todo, package, hash, candidates, attempt,
                   tmp, requested, snapshots>>

WriteModule ==
    /\ pc = "write"
    /\ module' = update
    /\ pc' = "exit"
    /\ UNCHANGED <<runs, dry_run, catalog, todo, package, hash, choice, attempt,
                   tmp, requested, snapshots>>

----------------------------------------------------------------------------

Work ==
    \/ NextPackage \/ OpenDownload \/ ReadChunk \/ EndOfDownload \/ HashFile
    \/ get_macOS_SDK_version \/ TarFails \/ NoCandidates \/ ChooseLatest
    \/ SnapshotFound \/ NoSnapshotListed \/ DryRunCannotSave
    \/ RequestSnapshot \/ CaptureDone \/ CapturePending
    \/ NoBlock \/ NothingToWrite \/ TruncateModule \/ WriteModule

\* Any call may raise, and the run may be killed between two of them.
FailOrKill == pc # "exit" /\ Raise

\* The last run has ended and the Wayback Machine has nothing left to capture.
Finished ==
    /\ pc = "exit" /\ runs = MaxRuns /\ requested \subseteq snapshots
    /\ UNCHANGED vars

Next == parse_sucatalog \/ Work \/ FailOrKill \/ Capture \/ Finished

\* A run that can go on goes on; nobody has to start one, and the Wayback
\* Machine owes no capture.
Spec == Init /\ [][Next]_vars /\ WF_vars(Work)

----------------------------------------------------------------------------
(* Properties *)

TypeOK ==
    /\ pc \in {"exit", "scan", "open", "download", "hash", "version", "find",
               "save", "poll", "module", "write"}
    /\ runs \in 0 .. MaxRuns /\ dry_run \in BOOLEAN
    /\ catalog \subseteq Packages /\ todo \subseteq catalog
    /\ package \in Packages /\ hash \in Hash
    /\ candidates \subseteq Update /\ update \in Update
    /\ attempt \in 0 .. MaxAttempts - 1
    /\ tmp \in [Packages -> Absent .. Chunks]
    /\ requested \subseteq Packages /\ snapshots \subseteq Packages
    /\ module \in Update \union {Truncated}

\* update_osx_from_archive: MODULE.bazel never mixes two packages.  Its URL, the
\* file its hash was computed from, its SDK version and its snapshot are of one
\* package, whatever runs failed or were killed before; a run that dies in
\* write_text leaves no block at all.
ModuleIsOneUpdate ==
    module # Truncated =>
        /\ module.sha256.of = module.url
        /\ module.sdk_version = SdkVersion[module.url]
        /\ module.archive_url = module.url

\* ensure_wayback_snapshot ("MODULE.bazel was not updated"): MODULE.bazel is
\* opened for writing only for a package the Wayback Machine has captured.
CapturedBeforeWritten ==
    [][module' = Truncated /\ module # Truncated => update.url \in snapshots]_vars

\* --dry-run: a dry run asks for no snapshot and writes no MODULE.bazel, though
\* what it downloads stays for the next run.
DryRunChangesNothing == [][dry_run => UNCHANGED <<requested, module>>]_vars

\* latest_nmos_sdk_update: what a run writes is the newest package of the
\* catalog it read, also when an older file was left by another run.
PinsTheNewest ==
    [][module' # module /\ module' # Truncated =>
        \A p \in catalog : SdkVersion[p] <= SdkVersion[module'.url]]_vars

\* WAYBACK_SAVE_MAX_ATTEMPTS: every run ends, also when the Wayback Machine
\* answers "pending" for ever.
Termination == pc # "exit" ~> pc = "exit"

\* prefetch_to_tmp ("sha256 hex of the downloaded file"): the hash it returns is
\* the hash of the package at the URL.
HashIsOfThePackage == pc = "version" => hash = WholeFile(package)
=============================================================================
