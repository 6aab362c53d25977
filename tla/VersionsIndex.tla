---------------------------- MODULE VersionsIndex ----------------------------
(***************************************************************************)
(* tools/gen_llvm_versions_index.py: read the releases of llvm-project page *)
(* by page from GitHub and write the index of the source archives that have *)
(* a digest.  The releases are listed newest first and the pages are counted*)
(* in releases, so what is published or deleted between two requests moves  *)
(* the others from page to page.                                            *)
(*                                                                          *)
(* A version is [major, rc], rc = 0 for a final release.  A release is      *)
(* [version, asset]: the digest of its source archive, or "none" if it has  *)
(* no archive or GitHub no digest of it; an archive may be uploaded while   *)
(* the pages are read.                                                      *)
(***************************************************************************)
EXTENDS Naturals, Sequences, SequencesExt, FiniteSets

CONSTANTS
  Versions,    \* the versions that may be released
  Digests,     \* the digests an archive may have
  PageSize,    \* releases on a page
  MinMajor,    \* --min-major
  MaxEvents    \* bound: changes of the releases while the tool runs

Assets == {"none"} \cup Digests
Releases == [version : Versions, asset : Assets]

VARIABLES
  releases,  \* the releases, newest first; GitHub's
  start,     \* what they were when the tool started
  touched,   \* the versions published, deleted or uploaded since
  deletions, \* how many of them were deleted
  events,    \* changes so far
  pc,        \* "fetch", "write", "done"
  page,      \* the number of the page at url
  result,    \* version -> digest: the index so far
  warnings,  \* the versions left out with a warning
  output,    \* the file: [state, entries], the entries in its order
  exit       \* the exit status, once pc = "done"

github == <<releases, touched, deletions, events>>
vars == <<github, start, pc, page, result, warnings, output, exit>>

Output(state, entries) == [state |-> state, entries |-> entries]
VersionsIn(list) == {list[k].version : k \in DOMAIN list}
OncePerVersion(list) == \A j, k \in DOMAIN list : list[j].version = list[k].version => j = k

Init ==
  /\ releases \in {l \in SeqOf([version : Versions, asset : Assets \ (Digests \ {CHOOSE d \in Digests : TRUE})], 3) :
                     OncePerVersion(l)}
  /\ start = releases
  /\ touched = {} /\ deletions = 0 /\ events = 0
  /\ pc = "fetch" /\ page = 1
  /\ result = << >>
  /\ warnings = {}
  /\ output = Output("old", << >>)
  /\ exit = 0

------------------------------------------------------------------------------
(* The releases change.                                                     *)

Change(version) ==
  /\ pc = "fetch" /\ events < MaxEvents
  /\ events' = events + 1
  /\ touched' = touched \cup {version}
  /\ UNCHANGED <<start, pc, page, result, warnings, output, exit>>

Publish ==
  \E r \in Releases :
    /\ r.version \notin VersionsIn(releases) \cup touched
    /\ releases' = <<r>> \o releases
    /\ UNCHANGED deletions
    /\ Change(r.version)

Delete ==
  \E k \in DOMAIN releases :
    /\ releases' = RemoveAt(releases, k)
    /\ deletions' = deletions + 1
    /\ Change(releases[k].version)

Upload ==
  \E k \in DOMAIN releases, d \in Digests :
    /\ releases[k].asset # d
    /\ releases' = [releases EXCEPT ![k].asset = d]
    /\ UNCHANGED deletions
    /\ Change(releases[k].version)

------------------------------------------------------------------------------
(* _build_index and main.                                                   *)

\* Mutant: the number of a candidate is compared before its being one.
_semver_key_rc_last(v) == <<v.major, v.rc, IF v.rc = 0 THEN 1 ELSE 0>>

\* (major, minor, patch, is_final, rc_num); minor and patch are left out.
_semver_key(v) == <<v.major, IF v.rc = 0 THEN 1 ELSE 0, v.rc>>

Lower(a, b) ==
  \E i \in 1..3 :
    /\ _semver_key(a)[i] < _semver_key(b)[i]
    /\ \A j \in 1 .. i - 1 : _semver_key(a)[j] = _semver_key(b)[j]

LastOf(n) == IF n * PageSize < Len(releases) THEN n * PageSize ELSE Len(releases)
Page(n) == SubSeq(releases, (n - 1) * PageSize + 1, LastOf(n))

\* The Link header names a next page.
HasNext(n) == n * PageSize < Len(releases)

\* Mutant: an archive without a digest is indexed.
IndexedWithoutDigest(r) == r.version.major >= MinMajor

Indexed(r) == r.version.major >= MinMajor /\ r.asset \in Digests

\* Mutant: an index is written when a request fails.
RequestFailsWithIndex ==
  /\ pc = "fetch"
  /\ pc' = "write"
  /\ UNCHANGED <<github, start, page, result, warnings, output, exit>>

\* The request fails: RuntimeError, before the output is opened.
RequestFails ==
  /\ pc = "fetch"
  /\ pc' = "done" /\ exit' = 1
  /\ UNCHANGED <<github, start, page, result, warnings, output>>

\* A page is read; a version on two pages gets the digest of the later one.
Fetch ==
  /\ pc = "fetch"
  /\ LET taken == {k \in DOMAIN Page(page) : Indexed(Page(page)[k])}
         left == {k \in DOMAIN Page(page) :
                    Page(page)[k].version.major >= MinMajor} \ taken
         new == {Page(page)[k].version : k \in taken}
     IN  /\ result' = [v \in DOMAIN result \cup new |->
                         IF v \in new
                         THEN (CHOOSE r \in ToSet(Page(page)) : r.version = v).asset
                         ELSE result[v]]
         /\ warnings' = warnings \cup {Page(page)[k].version : k \in left}
  /\ page' = page + 1
  /\ pc' = IF HasNext(page) THEN "fetch" ELSE "write"
  /\ UNCHANGED <<github, start, output, exit>>

\* The versions in the order of their keys.
Sortings(versions) ==
  {s \in [1 .. Cardinality(versions) -> versions] :
     ToSet(s) = versions /\ \A j, k \in DOMAIN s : j < k => Lower(s[j], s[k])}

Write ==
  /\ pc = "write"
  /\ \E s \in Sortings(DOMAIN result) :
       output' = Output("written",
                        [k \in DOMAIN s |-> [version |-> s[k], digest |-> result[s[k]]]])
  /\ pc' = "done" /\ exit' = 0
  /\ UNCHANGED <<github, start, page, result, warnings>>

\* The output is opened in place: it may stay as it is or be cut short.
WriteFails ==
  /\ pc = "write"
  /\ output' \in {Output("old", << >>), Output("torn", << >>)}
  /\ pc' = "done" /\ exit' = 1
  /\ UNCHANGED <<github, start, page, result, warnings>>

Tool == RequestFails \/ Fetch \/ Write \/ WriteFails

Next ==
  \/ Tool \/ Publish \/ Delete \/ Upload
  \/ pc = "done" /\ UNCHANGED vars

Spec == Init /\ [][Next]_vars

------------------------------------------------------------------------------
(* Properties.                                                              *)

\* Every variable has its type; the index is sorted and names a version once.
TypeOK ==
  /\ releases \in Seq(Releases) /\ start \in Seq(Releases) /\ OncePerVersion(releases)
  /\ touched \subseteq Versions
  /\ deletions \in 0..events /\ events \in 0..MaxEvents
  /\ pc \in {"fetch", "write", "done"} /\ page \in Nat /\ exit \in {0, 1}
  /\ DOMAIN result \subseteq Versions /\ \A v \in DOMAIN result : result[v] \in Digests
  /\ warnings \subseteq Versions
  /\ output.state \in {"old", "torn", "written"}
  /\ output.entries \in Seq([version : Versions, digest : Digests])

\* The index names a version of one major after its candidates and after all
\* versions of lower majors, each once, though they arrive in the order they
\* were published.
OutputIsInOrder ==
  pc = "done" /\ exit = 0 =>
    \A j, k \in DOMAIN output.entries :
      j < k => LET a == output.entries[j].version
                   b == output.entries[k].version
               IN  \/ a.major < b.major
                   \/ a.major = b.major /\ a.rc > 0 /\ (b.rc = 0 \/ a.rc < b.rc)

\* A release that stays as it is while the pages are read is indexed exactly
\* with its digest if it has one and is not too old, and warned of if it has
\* none, although others are published meanwhile; only deleting a release can
\* hide one, by moving it to a page already read.
EveryReleaseIsSeen ==
  pc = "done" /\ exit = 0 /\ deletions = 0 =>
    \A r \in ToSet(start) :
      r.version \notin touched /\ r.version.major >= MinMajor =>
        IF r.asset \in Digests
        THEN [version |-> r.version, digest |-> r.asset] \in ToSet(output.entries)
        ELSE r.version \in warnings /\ \A e \in ToSet(output.entries) : e.version # r.version
==============================================================================
