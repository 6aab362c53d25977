--------------------------- MODULE SdkUpdateProofs ---------------------------
(***************************************************************************)
(* What SdkUpdate's run checks for two runs over three packages, proved     *)
(* for every set of packages, every number of runs, chunks and attempts,    *)
(* and every place where a run fails or is killed.                          *)
(***************************************************************************)
EXTENDS SdkUpdate, TLAPS

\* The steps at which a run has chosen its package, and those at which the
\* Wayback Machine has confirmed a snapshot of it.
Chosen == {"find", "save", "poll", "module", "write"}
Confirmed == {"module", "write"}
Fetching == {"open", "download", "hash", "version"}

\* A record that does not mix packages.
OfOnePackage(u) ==
    u.sha256.of = u.url /\ u.sdk_version = SdkVersion[u.url]

\* A file that is looked at exists; its hash is of the package looked at.
FileInv ==
    /\ pc \in {"download", "hash", "version"} => tmp[package] \in 0 .. Chunks
    /\ pc = "version" => hash.of = package

\* Every package of the catalog is still to do, in hand or a candidate.
CandidatesInv ==
    /\ \A c \in candidates : OfOnePackage(c)
    /\ pc \in Fetching \union {"scan"} =>
         \A p \in catalog :
             \/ p \in todo
             \/ pc \in Fetching /\ p = package
             \/ \E c \in candidates : c.url = p

\* The update is of one package, the newest of the catalog, and, from the
\* confirmation on, with a snapshot of that package.
UpdateInv ==
    /\ pc \in Chosen =>
         /\ OfOnePackage(update)
         /\ \A p \in catalog : SdkVersion[p] <= SdkVersion[update.url]
    /\ pc \in Confirmed =>
         update.archive_url = update.url /\ update.url \in snapshots
    /\ pc \in {"save", "poll", "write"} => ~dry_run

IInv == TypeOK /\ FileInv /\ CandidatesInv /\ UpdateInv /\ ModuleIsOneUpdate

USE PackagesAssumption, BoundsAssumption

\* The initial states satisfy the inductive invariant.
LEMMA InitIInv == Init => IInv
<1> SUFFICES ASSUME Init PROVE IInv
  OBVIOUS
<1>1. InitialModule \in Update /\ WholeFile(Pinned) \in Hash
  BY DEF InitialModule, Update, WholeFile, Hash
<1>2. TypeOK
  <2> HIDE DEF Update, Hash, InitialModule, WholeFile
  <2>1. tmp \in [Packages -> Absent .. Chunks]
    BY DEF Init, Absent
  <2>2. runs \in 0 .. MaxRuns /\ attempt \in 0 .. MaxAttempts - 1
    BY DEF Init
  <2> QED
    BY <1>1, <2>1, <2>2 DEF Init, TypeOK
<1>3. FileInv /\ CandidatesInv /\ UpdateInv
  BY DEF Init, FileInv, CandidatesInv, UpdateInv, Chosen, Confirmed, Fetching
<1>4. ModuleIsOneUpdate
  BY DEF Init, ModuleIsOneUpdate, InitialModule, WholeFile
<1> QED
  BY <1>2, <1>3, <1>4 DEF IInv

\* An exception ends a run and leaves everything else as it is.
LEMMA RaiseIInv == ASSUME IInv, Raise PROVE IInv'
<1> USE DEF Raise, world, choice
<1>1. TypeOK'
  BY DEF IInv, TypeOK
<1>2. FileInv' /\ CandidatesInv' /\ UpdateInv'
  BY DEF IInv, FileInv, CandidatesInv, UpdateInv, Chosen, Confirmed, Fetching, OfOnePackage
<1>3. ModuleIsOneUpdate'
  BY DEF IInv, ModuleIsOneUpdate
<1> QED
  BY <1>1, <1>2, <1>3 DEF IInv

\* A snapshot that is confirmed is of the package chosen.
LEMMA ConfirmIInv ==
  ASSUME IInv, Confirm, pc \in {"find", "poll"} PROVE IInv'
<1>1. PICK s \in snapshots :
        s = update.url /\ update' = [update EXCEPT !.archive_url = s]
  BY DEF Confirm, IsSnapshotOf
<1>2. update \in Update /\ s \in Packages
  BY <1>1 DEF IInv, TypeOK
<1>3. /\ update' \in Update
      /\ update'.url = update.url /\ update'.sha256 = update.sha256
      /\ update'.sdk_version = update.sdk_version /\ update'.archive_url = update.url
  BY <1>1, <1>2 DEF Update
<1> HIDE DEF Update
<1>4. /\ pc' = "module"
      /\ UNCHANGED <<runs, dry_run, catalog, todo, package, hash, candidates, attempt,
                     tmp, requested, snapshots, module>>
  BY DEF Confirm, world
<1>5. TypeOK'
  BY <1>3, <1>4 DEF IInv, TypeOK
<1>6. FileInv' /\ CandidatesInv'
  BY <1>4 DEF IInv, FileInv, CandidatesInv, Fetching, OfOnePackage
<1>7. UpdateInv'
  BY <1>1, <1>3, <1>4 DEF IInv, UpdateInv, Chosen, Confirmed, OfOnePackage
<1>8. ModuleIsOneUpdate'
  BY <1>4 DEF IInv, ModuleIsOneUpdate
<1> QED
  BY <1>5, <1>6, <1>7, <1>8 DEF IInv

\* A run starts over; what an earlier run left is kept.
LEMMA StartIInv == ASSUME IInv, parse_sucatalog PROVE IInv'
<1> USE DEF parse_sucatalog, world
<1>1. TypeOK'
  BY DEF IInv, TypeOK
<1>2. FileInv' /\ CandidatesInv' /\ UpdateInv'
  BY DEF IInv, FileInv, CandidatesInv, UpdateInv, Chosen, Confirmed, Fetching
<1>3. ModuleIsOneUpdate'
  BY DEF IInv, ModuleIsOneUpdate
<1> QED
  BY <1>1, <1>2, <1>3 DEF IInv

\* The next package of the catalog is in hand.
LEMMA NextPackageIInv == ASSUME IInv, NextPackage PROVE IInv'
<1>1. PICK p \in todo :
        /\ package' = p /\ todo' = todo \ {p}
        /\ pc' = IF tmp[p] # Absent THEN "hash" ELSE "open"
  BY DEF NextPackage
<1>2. /\ pc = "scan"
      /\ UNCHANGED <<runs, dry_run, catalog, hash, candidates, update, attempt,
                     tmp, requested, snapshots, module>>
  BY DEF NextPackage, choice, world
<1>3. p \in Packages /\ tmp[p] \in Absent .. Chunks
  BY DEF IInv, TypeOK
<1>4. TypeOK'
  BY <1>1, <1>2, <1>3 DEF IInv, TypeOK
<1>5. FileInv'
  BY <1>1, <1>2, <1>3 DEF FileInv, Absent
<1>6. CandidatesInv'
  BY <1>1, <1>2 DEF IInv, CandidatesInv, Fetching, OfOnePackage
<1>7. UpdateInv' /\ ModuleIsOneUpdate'
  BY <1>1, <1>2 DEF IInv, UpdateInv, Chosen, Confirmed, ModuleIsOneUpdate
<1> QED
  BY <1>4, <1>5, <1>6, <1>7 DEF IInv

\* The download changes the file of the package in hand only.
LEMMA DownloadIInv ==
  ASSUME IInv, OpenDownload \/ ReadChunk \/ EndOfDownload PROVE IInv'
<1>1. /\ package \in Packages /\ tmp \in [Packages -> Absent .. Chunks]
      /\ pc = "download" => tmp[package] \in 0 .. Chunks
  BY DEF IInv, TypeOK, FileInv
<1>2. /\ pc \in {"open", "download"} /\ pc' \in {"download", "hash"}
      /\ UNCHANGED <<runs, dry_run, catalog, todo, package, hash, candidates, update,
                     attempt, requested, snapshots, module>>
  BY DEF OpenDownload, ReadChunk, EndOfDownload, choice, world
<1>3. tmp' \in [Packages -> Absent .. Chunks] /\ tmp'[package] \in 0 .. Chunks
  <2>1. CASE OpenDownload
    BY <1>1, <2>1 DEF OpenDownload, Absent
  <2>2. CASE ReadChunk
    BY <1>1, <2>2 DEF ReadChunk, Absent
  <2>3. CASE EndOfDownload
    BY <1>1, <2>3 DEF EndOfDownload, world
  <2> QED
    BY <2>1, <2>2, <2>3
<1>4. TypeOK'
  BY <1>2, <1>3 DEF IInv, TypeOK
<1>5. FileInv'
  BY <1>2, <1>3 DEF FileInv
<1>6. CandidatesInv'
  BY <1>2 DEF IInv, CandidatesInv, Fetching, OfOnePackage
<1>7. UpdateInv' /\ ModuleIsOneUpdate'
  BY <1>2 DEF IInv, UpdateInv, Chosen, Confirmed, ModuleIsOneUpdate
<1> QED
  BY <1>4, <1>5, <1>6, <1>7 DEF IInv

\* The hash is of the file of the package in hand, whole or not.
LEMMA HashIInv == ASSUME IInv, HashFile PROVE IInv'
<1>1. /\ pc = "hash" /\ pc' = "version"
      /\ hash' = [of |-> package, chunks |-> tmp[package]]
      /\ UNCHANGED <<runs, dry_run, catalog, todo, package, candidates, update,
                     attempt, tmp, requested, snapshots, module>>
  BY DEF HashFile, choice, world
<1>2. tmp[package] \in 0 .. Chunks /\ package \in Packages
  BY <1>1 DEF IInv, FileInv, TypeOK
<1>3. hash' \in Hash /\ hash'.of = package
  BY <1>1, <1>2 DEF Hash
<1>4. TypeOK'
  BY <1>1, <1>3 DEF IInv, TypeOK
<1>5. FileInv'
  BY <1>1, <1>2, <1>3 DEF FileInv
<1>6. CandidatesInv'
  BY <1>1 DEF IInv, CandidatesInv, Fetching, OfOnePackage
<1>7. UpdateInv' /\ ModuleIsOneUpdate'
  BY <1>1 DEF IInv, UpdateInv, Chosen, Confirmed, ModuleIsOneUpdate
<1> QED
  BY <1>4, <1>5, <1>6, <1>7 DEF IInv

\* The package in hand becomes a candidate that mixes no packages.
LEMMA VersionIInv == ASSUME IInv, get_macOS_SDK_version PROVE IInv'
<1> DEFINE new == [url |-> package, sha256 |-> hash,
                   sdk_version |-> SdkVersion[package], archive_url |-> Absent]
<1>1. /\ pc = "version" /\ pc' = "scan" /\ candidates' = candidates \union {new}
      /\ UNCHANGED <<runs, dry_run, catalog, todo, package, hash, update, attempt,
                     tmp, requested, snapshots, module>>
  BY DEF get_macOS_SDK_version, world
<1>2. package \in Packages /\ hash \in Hash /\ hash.of = package
  BY <1>1 DEF IInv, FileInv, TypeOK
<1>3. new \in Update /\ OfOnePackage(new) /\ new.url = package
  BY <1>2 DEF Update, OfOnePackage
<1> HIDE DEF new
<1>4. TypeOK'
  BY <1>1, <1>3 DEF IInv, TypeOK
<1>5. FileInv'
  BY <1>1 DEF FileInv
<1>6. \A c \in candidates' : OfOnePackage(c)
  BY <1>1, <1>3 DEF IInv, CandidatesInv
<1>7. CandidatesInv'
  BY <1>1, <1>3, <1>6 DEF IInv, CandidatesInv, Fetching, OfOnePackage
<1>8. UpdateInv' /\ ModuleIsOneUpdate'
  BY <1>1 DEF IInv, UpdateInv, Chosen, Confirmed, ModuleIsOneUpdate
<1> QED
  BY <1>4, <1>5, <1>7, <1>8 DEF IInv

\* No candidate is newer than the one chosen, and every package of the catalog
\* is a candidate by then: the one chosen is the newest of the catalog.
LEMMA ChooseIInv == ASSUME IInv, ChooseLatest PROVE IInv'
<1>1. PICK c \in candidates :
        (\A d \in candidates : ~IsNewer(d, c)) /\ update' = c
  BY DEF ChooseLatest
<1>2. /\ pc = "scan" /\ pc' = "find" /\ todo = {}
      /\ UNCHANGED <<runs, dry_run, catalog, todo, package, hash, candidates, attempt,
                     tmp, requested, snapshots, module>>
  BY DEF ChooseLatest, world
<1>3. \A d \in candidates : d \in Update /\ OfOnePackage(d)
  BY DEF IInv, TypeOK, CandidatesInv
<1>4. \A d \in candidates : d.sdk_version \in Nat
  BY <1>3 DEF Update
<1>5. \A p \in catalog : SdkVersion[p] <= SdkVersion[c.url]
  <2> SUFFICES ASSUME NEW p \in catalog PROVE SdkVersion[p] <= SdkVersion[c.url]
    OBVIOUS
  <2>1. PICK d \in candidates : d.url = p
    BY <1>2 DEF IInv, CandidatesInv, Fetching
  <2>2. ~(d.sdk_version > c.sdk_version)
    BY <1>1 DEF IsNewer
  <2> QED
    BY <1>3, <1>4, <2>1, <2>2 DEF OfOnePackage
<1>6. TypeOK'
  BY <1>1, <1>2, <1>3 DEF IInv, TypeOK
<1>7. FileInv' /\ CandidatesInv'
  BY <1>2 DEF IInv, FileInv, CandidatesInv, Fetching, OfOnePackage
<1>8. UpdateInv'
  BY <1>1, <1>2, <1>3, <1>5 DEF UpdateInv, Chosen, Confirmed, OfOnePackage
<1>9. ModuleIsOneUpdate'
  BY <1>2 DEF IInv, ModuleIsOneUpdate
<1> QED
  BY <1>6, <1>7, <1>8, <1>9 DEF IInv

\* What the Wayback Machine is asked and does before it confirms.
LEMMA WaybackIInv ==
  ASSUME IInv, NoSnapshotListed \/ RequestSnapshot \/ CapturePending \/ Capture
  PROVE  IInv'
<1>1. /\ UNCHANGED <<runs, dry_run, catalog, todo, package, hash, candidates, update,
                     tmp, module>>
      /\ snapshots \subseteq snapshots' /\ snapshots' \subseteq snapshots \union requested
      /\ requested' \subseteq requested \union {update.url}
      /\ \/ pc' = pc
         \/ pc' = "exit"
         \/ pc = "find" /\ pc' = "save" /\ ~dry_run
         \/ pc = "save" /\ pc' = "poll"
  BY DEF NoSnapshotListed, RequestSnapshot, CapturePending, Capture, choice, world
<1>2. update.url \in Packages
  BY DEF IInv, TypeOK, Update
<1>3. attempt' \in 0 .. MaxAttempts - 1
  BY DEF IInv, TypeOK, NoSnapshotListed, RequestSnapshot, CapturePending, Capture
<1>4. TypeOK'
  BY <1>1, <1>2, <1>3 DEF IInv, TypeOK
<1>5. FileInv' /\ CandidatesInv'
  BY <1>1 DEF IInv, FileInv, CandidatesInv, Fetching, OfOnePackage
<1>6. UpdateInv'
  BY <1>1 DEF IInv, UpdateInv, Chosen, Confirmed, OfOnePackage
<1>7. ModuleIsOneUpdate'
  BY <1>1 DEF IInv, ModuleIsOneUpdate
<1> QED
  BY <1>4, <1>5, <1>6, <1>7 DEF IInv

\* MODULE.bazel is cut, then holds the update.
LEMMA ModuleIInv ==
  ASSUME IInv, NothingToWrite \/ TruncateModule \/ WriteModule PROVE IInv'
<1>1. /\ UNCHANGED <<runs, dry_run, catalog, todo, package, hash, candidates, update,
                     attempt, tmp, requested, snapshots>>
      /\ pc \in Confirmed
      /\ \/ pc' = "exit"
         \/ pc' = "write" /\ ~dry_run
      /\ module' \in {module, Truncated, update}
  BY DEF NothingToWrite, TruncateModule, WriteModule, choice, world, Confirmed,
         update_osx_from_archive
<1>2. TypeOK'
  BY <1>1 DEF IInv, TypeOK
<1>3. FileInv' /\ CandidatesInv'
  BY <1>1 DEF IInv, FileInv, CandidatesInv, Fetching, OfOnePackage
<1>4. UpdateInv'
  BY <1>1 DEF IInv, UpdateInv, Chosen, Confirmed, OfOnePackage
<1>5. ModuleIsOneUpdate'
  BY <1>1 DEF IInv, UpdateInv, Chosen, Confirmed, OfOnePackage, ModuleIsOneUpdate
<1> QED
  BY <1>2, <1>3, <1>4, <1>5 DEF IInv

\* Every step keeps the inductive invariant.
LEMMA StepIInv == IInv /\ [Next]_vars => IInv'
<1> SUFFICES ASSUME IInv, [Next]_vars PROVE IInv'
  OBVIOUS
<1>1. CASE parse_sucatalog
  BY <1>1, StartIInv
<1>2. CASE Work
  <2>1. CASE TarFails \/ NoCandidates \/ DryRunCannotSave \/ NoBlock
    BY <2>1, RaiseIInv DEF TarFails, NoCandidates, DryRunCannotSave, NoBlock
  <2>2. CASE SnapshotFound \/ CaptureDone
    BY <2>2, ConfirmIInv DEF SnapshotFound, CaptureDone
  <2> QED
    BY <1>2, <2>1, <2>2, NextPackageIInv, DownloadIInv, HashIInv, VersionIInv,
       ChooseIInv, WaybackIInv, ModuleIInv DEF Work
<1>3. CASE FailOrKill
  BY <1>3, RaiseIInv DEF FailOrKill
<1>4. CASE Capture
  BY <1>4, WaybackIInv
<1>5. CASE UNCHANGED vars
  BY <1>5 DEF vars, IInv, TypeOK, FileInv, CandidatesInv, UpdateInv, ModuleIsOneUpdate,
              OfOnePackage, Chosen, Confirmed, Fetching
<1> QED
  BY <1>1, <1>2, <1>3, <1>4, <1>5 DEF Next, Finished

\* The inductive invariant holds in every state of every run of the program.
THEOREM Invariance == Spec => []IInv
<1> HIDE DEF IInv
<1> QED
  BY InitIInv, StepIInv, PTL DEF Spec

------------------------------------------------------------------------------
\* Every variable keeps to its values, for every number of chunks and attempts.
THEOREM TypeCorrect == Spec => []TypeOK
<1>1. IInv => TypeOK
  BY DEF IInv
<1> QED
  BY <1>1, Invariance, PTL

\* update_osx_from_archive: MODULE.bazel never mixes two packages, however many
\* runs failed or were killed.
THEOREM ModuleOfOnePackage == Spec => []ModuleIsOneUpdate
<1>1. IInv => ModuleIsOneUpdate
  BY DEF IInv
<1> QED
  BY <1>1, Invariance, PTL

\* The steps that change what a run shares with the world outside /tmp.
LEMMA WorldSteps ==
  ASSUME [Next]_vars
  PROVE  /\ requested' # requested => pc = "save"
         /\ \/ module' = module
            \/ pc = "module" /\ module' = Truncated /\ ~dry_run
            \/ pc = "write" /\ module' = update
<1> USE DEF world, choice
<1>1. CASE parse_sucatalog \/ FailOrKill \/ Capture
  BY <1>1 DEF parse_sucatalog, FailOrKill, Capture, Raise
<1>2. CASE Work
  <2>1. CASE NextPackage \/ OpenDownload \/ ReadChunk \/ EndOfDownload \/ HashFile
             \/ get_macOS_SDK_version \/ TarFails \/ NoCandidates \/ ChooseLatest
    BY <2>1 DEF NextPackage, OpenDownload, ReadChunk, EndOfDownload, HashFile,
                get_macOS_SDK_version, TarFails, NoCandidates, ChooseLatest, Raise
  <2>2. CASE SnapshotFound \/ NoSnapshotListed \/ DryRunCannotSave \/ RequestSnapshot
             \/ CaptureDone \/ CapturePending
    BY <2>2 DEF SnapshotFound, NoSnapshotListed, DryRunCannotSave, RequestSnapshot,
                CaptureDone, CapturePending, Confirm, Raise
  <2>3. CASE NoBlock \/ NothingToWrite \/ TruncateModule \/ WriteModule
    BY <2>3 DEF NoBlock, NothingToWrite, TruncateModule, WriteModule, Raise
  <2> QED
    BY <1>2, <2>1, <2>2, <2>3 DEF Work
<1>3. CASE UNCHANGED vars
  BY <1>3 DEF vars
<1> QED
  BY <1>1, <1>2, <1>3 DEF Next, Finished

\* ensure_wayback_snapshot: MODULE.bazel is opened for writing only for a package
\* the Wayback Machine has captured.
THEOREM WrittenOnlyIfCaptured == Spec => CapturedBeforeWritten
<1>1. IInv /\ [Next]_vars =>
        [module' = Truncated /\ module # Truncated => update.url \in snapshots]_vars
  BY WorldSteps DEF IInv, UpdateInv, Confirmed
<1> QED
  BY <1>1, Invariance, PTL DEF Spec, CapturedBeforeWritten

\* --dry-run: a dry run asks for no snapshot and writes no MODULE.bazel.
THEOREM DryRunsAreHarmless == Spec => DryRunChangesNothing
<1>1. IInv /\ [Next]_vars => [dry_run => UNCHANGED <<requested, module>>]_vars
  BY WorldSteps DEF IInv, UpdateInv
<1> QED
  BY <1>1, Invariance, PTL DEF Spec, DryRunChangesNothing

\* latest_nmos_sdk_update: what a run writes is the newest package of its catalog.
THEOREM NewestIsWritten == Spec => PinsTheNewest
<1>1. IInv /\ [Next]_vars =>
        [module' # module /\ module' # Truncated =>
            \A p \in catalog : SdkVersion[p] <= SdkVersion[module'.url]]_vars
  BY WorldSteps DEF IInv, UpdateInv, Chosen
<1> QED
  BY <1>1, Invariance, PTL DEF Spec, PinsTheNewest
=============================================================================
