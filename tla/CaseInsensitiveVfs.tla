--------------------------- MODULE CaseInsensitiveVfs ---------------------------
(***************************************************************************)
(* tools/case_insensitive_vfs: walk SDK directories and write the overlay   *)
(* through which clang looks names up regardless of case.                   *)
(*                                                                          *)
(* Names, and the paths of roots, are numbered in the order of strcmp.  A   *)
(* path is a sequence: the root's number and the names below it.  The       *)
(* overlay is the sequence of its tokens: an opened directory, a file with  *)
(* its external path, a closed directory.  The names here are without the   *)
(* backslash, which ci_generic_path makes a slash of the external path;     *)
(* running out of memory, which exits 2, is left out.                       *)
(***************************************************************************)
EXTENDS Integers, Sequences, SequencesExt, FiniteSetsExt, Functions

CONSTANTS
  Folded,        \* name -> its lower case form
  Commands       \* the command lines and what they find: [usable, roots, files],
                 \* files: path -> [kind, link]

Names == DOMAIN Folded

Kinds == {"regular", "directory", "missing", "other"}

ASSUME NamesAssumption ==
  /\ Names \subseteq Nat
  /\ Folded \in [Names -> Names]
  /\ \A n \in Names : Folded[Folded[n]] = Folded[n]

\* The roots that runtimes/msvc gives are different directories; what is below
\* a root is in a directory.
ASSUME CommandsAssumption ==
  \A c \in Commands :
    /\ c.usable \in BOOLEAN
    /\ c.roots \in Seq(Nat) /\ IsInjective(c.roots)
    /\ IsFiniteSet(DOMAIN c.files) /\ DOMAIN c.files \subseteq Seq(Nat) \ {<<>>}
    /\ \A g \in Range(c.roots) : <<g>> \in DOMAIN c.files
    /\ \A p \in DOMAIN c.files :
         /\ c.files[p] \in [kind : Kinds, link : BOOLEAN]
         /\ Len(p) > 1 => /\ Last(p) \in Names
                          /\ Front(p) \in DOMAIN c.files
                          /\ c.files[Front(p)].kind = "directory"

VARIABLES
  command,   \* the command line; never changes
  pc,        \* the step of main
  roots,     \* sorted_roots
  root,      \* the index of the root walked, or to be walked next
  stack,     \* the calls of render_directory, innermost last:
             \*   [path, names, index]
  overlay,   \* the text_buffer, as tokens
  output,    \* [state, overlay]: the file -output names
  fault,     \* a system call has failed
  exit       \* the exit status, once pc = "done"

vars == <<command, pc, roots, root, stack, overlay, output, fault, exit>>

------------------------------------------------------------------------------
(* ci_collect_preferred_entries, after the directory has been read.         *)

IsLower(name) == Folded[name] = name

\* Mutant: case decides where the names go.
precedes_by_case(a, b) == a < b

\* compare_entries: by folded name, then by name.
precedes(a, b) ==
  \/ Folded[a] < Folded[b]
  \/ Folded[a] = Folded[b] /\ a < b

\* qsort of distinct elements: they have one order.
Qsort(elements, before(_, _)) ==
  CHOOSE s \in SetToSeqs(elements) : \A i, j \in DOMAIN s : i < j => before(s[i], s[j])

SortedEntries(names) == Qsort(Range(names), precedes)

\* Where the runs of names equal but for case start, and how far they reach.
Starts(names) ==
  {i \in DOMAIN names : i = 1 \/ Folded[names[i - 1]] # Folded[names[i]]}
Run(names, i) ==
  {k \in i .. Len(names) : \A j \in i .. k : Folded[names[j]] = Folded[names[i]]}

\* Mutant: a run of two is not checked.
validate_longer_runs(names) ==
  \A i \in Starts(names) :
    Cardinality(Run(names, i)) > 2 => \E k \in Run(names, i) : IsLower(names[k])

\* A run of several names has the lower case one.
validate_sorted_entries(names) ==
  \A i \in Starts(names) :
    Cardinality(Run(names, i)) > 1 => \E k \in Run(names, i) : IsLower(names[k])

\* Mutant: the first of a run is kept.
collapse_to_first(names) ==
  LET kept == Qsort(Starts(names), <)
  IN  [k \in DOMAIN kept |-> names[kept[k]]]

\* Of each run, keep the lower case name, or the first.
collapse_sorted_entries(names) ==
  LET lower(i) == {k \in Run(names, i) : IsLower(names[k])}
      selected(i) == IF lower(i) = {} THEN i ELSE Min(lower(i))
      kept == Qsort({selected(i) : i \in Starts(names)}, <)
  IN  [k \in DOMAIN kept |-> names[kept[k]]]

------------------------------------------------------------------------------
NoFile == [state |-> "absent", overlay |-> <<>>]

Init ==
  /\ command \in Commands
  /\ pc = "arguments"
  /\ roots = <<>>
  /\ root = 1
  /\ stack = <<>>
  /\ overlay = <<>>
  /\ output = NoFile
  /\ fault = FALSE
  /\ exit = 0

Exit(status) == pc' = "done" /\ exit' = status
Goto(step) == pc' = step /\ UNCHANGED exit

\* qsort by the generic paths.
SortRoots(given) == Qsort(Range(given), <)

\* -output is missing, an option has no value or is unknown.
UsageError ==
  /\ pc = "arguments"
  /\ ~command.usable
  /\ Exit(2)
  /\ UNCHANGED <<command, roots, root, stack, overlay, output, fault>>

NoRoots ==
  /\ pc = "arguments"
  /\ command.usable
  /\ command.roots = <<>>
  /\ Exit(1)
  /\ UNCHANGED <<command, roots, root, stack, overlay, output, fault>>

Start ==
  /\ pc = "arguments"
  /\ command.usable
  /\ command.roots # <<>>
  /\ roots' = SortRoots(command.roots)
  /\ Goto("walk")
  /\ UNCHANGED <<command, root, stack, overlay, output, fault>>

------------------------------------------------------------------------------
(* render_directory.                                                        *)

Entries(path) == {n \in Names : Append(path, n) \in DOMAIN command.files}

Top == Last(stack)
EntryPath == Append(Top.path, Top.names[Top.index])
Entry == command.files[EntryPath]

\* A call of render_directory: readdir gives the names in any order.
Enter(calls, path) ==
  \E names \in SetToSeqs(Entries(path)) :
    stack' = Append(calls, [path |-> path, names |-> names, index |-> 0])

\* The loop of the innermost call has come to its next entry.
Advanced == Append(Front(stack), [Top EXCEPT !.index = @ + 1])

AtEntry == pc = "walk" /\ stack # <<>> /\ Top.index \in 1..Len(Top.names)

WalkRoot ==
  /\ pc = "walk"
  /\ stack = <<>>
  /\ root <= Len(roots)
  /\ command.files[<<roots[root]>>].kind = "directory"
  /\ Enter(<<>>, <<roots[root]>>)
  /\ UNCHANGED <<command, pc, roots, root, overlay, output, fault, exit>>

\* opendir fails on a root that is not a directory.
RejectRoot ==
  /\ pc = "walk"
  /\ stack = <<>>
  /\ root <= Len(roots)
  /\ command.files[<<roots[root]>>].kind # "directory"
  /\ Exit(1)
  /\ UNCHANGED <<command, roots, root, stack, overlay, output, fault>>

\* opendir, readdir, lstat or stat fails.
SystemCallFails ==
  /\ pc = "walk"
  /\ stack = <<>> => root <= Len(roots)
  /\ stack # <<>> => Top.index = 0 \/ AtEntry
  /\ fault' = TRUE
  /\ Exit(1)
  /\ UNCHANGED <<command, roots, root, stack, overlay, output>>

CollectEntries ==
  /\ pc = "walk"
  /\ stack # <<>>
  /\ Top.index = 0
  /\ LET sorted == SortedEntries(Top.names)
     IN  /\ validate_sorted_entries(sorted)
         /\ stack' = Append(Front(stack),
              [Top EXCEPT !.names = collapse_sorted_entries(sorted), !.index = 1])
  /\ overlay' = Append(overlay, [token |-> "open", name |-> Last(Top.path)])
  /\ UNCHANGED <<command, pc, roots, root, output, fault, exit>>

RejectAmbiguous ==
  /\ pc = "walk"
  /\ stack # <<>>
  /\ Top.index = 0
  /\ ~validate_sorted_entries(SortedEntries(Top.names))
  /\ Exit(1)
  /\ UNCHANGED <<command, roots, root, stack, overlay, output, fault>>

EnterDirectory ==
  /\ AtEntry
  /\ Entry.kind = "directory"
  /\ ~Entry.link
  /\ Enter(Advanced, EntryPath)
  /\ UNCHANGED <<command, pc, roots, root, overlay, output, fault, exit>>

AddFile ==
  /\ AtEntry
  /\ Entry.kind = "regular"
  /\ overlay' = Append(overlay, [token |-> "file", name |-> Last(EntryPath),
                                 external |-> EntryPath])
  /\ stack' = Advanced
  /\ UNCHANGED <<command, pc, roots, root, output, fault, exit>>

\* A link to a directory, a link to nothing, or neither a file nor a directory.
RejectEntry ==
  /\ AtEntry
  /\ Entry.kind \in {"missing", "other"} \/ (Entry.kind = "directory" /\ Entry.link)
  /\ Exit(1)
  /\ UNCHANGED <<command, roots, root, stack, overlay, output, fault>>

\* Mutant: every return counts as the end of a root.
CloseAnyDirectory ==
  /\ pc = "walk"
  /\ stack # <<>>
  /\ Top.index = Len(Top.names) + 1
  /\ overlay' = Append(overlay, [token |-> "close"])
  /\ stack' = Front(stack)
  /\ root' = root + 1
  /\ UNCHANGED <<command, pc, roots, output, fault, exit>>

\* render_directory returns to its caller.
CloseDirectory ==
  /\ pc = "walk"
  /\ stack # <<>>
  /\ Top.index = Len(Top.names) + 1
  /\ overlay' = Append(overlay, [token |-> "close"])
  /\ stack' = Front(stack)
  /\ root' = IF Len(stack) = 1 THEN root + 1 ELSE root
  /\ UNCHANGED <<command, pc, roots, output, fault, exit>>

WalkDone ==
  /\ pc = "walk"
  /\ stack = <<>>
  /\ root > Len(roots)
  /\ Goto("write")
  /\ UNCHANGED <<command, roots, root, stack, overlay, output, fault>>

------------------------------------------------------------------------------
(* main, once there is an overlay.                                          *)

WriteOverlay ==
  /\ pc = "write"
  /\ output' = [state |-> "complete", overlay |-> overlay]
  /\ Exit(0)
  /\ UNCHANGED <<command, roots, root, stack, overlay, fault>>

\* fopen, fwrite or fclose fails.
WriteFails ==
  /\ pc = "write"
  /\ \E state \in {"absent", "torn"} : output' = [NoFile EXCEPT !.state = state]
  /\ fault' = TRUE
  /\ Exit(1)
  /\ UNCHANGED <<command, roots, root, stack, overlay>>

Main ==
  \/ UsageError \/ NoRoots \/ Start
  \/ WalkRoot \/ RejectRoot \/ SystemCallFails \/ CollectEntries \/ RejectAmbiguous
  \/ EnterDirectory \/ AddFile \/ RejectEntry \/ CloseDirectory \/ WalkDone
  \/ WriteOverlay \/ WriteFails

Done == pc = "done" /\ UNCHANGED vars

Next == Main \/ Done

Spec == Init /\ [][Next]_vars

------------------------------------------------------------------------------
(* Properties.                                                              *)

\* Every variable has its type; a call's loop stays within its entries.
TypeOK ==
  /\ command.usable \in BOOLEAN
  /\ pc \in {"arguments", "walk", "write", "done"}
  /\ root \in 1 .. Len(roots) + 1
  /\ \A k \in DOMAIN stack :
       /\ stack[k].index \in 0 .. Len(stack[k].names) + 1
       /\ Range(stack[k].names) \subseteq Entries(stack[k].path)
  /\ \A k \in DOMAIN overlay : overlay[k].token \in {"open", "file", "close"}
  /\ output.state \in {"absent", "torn", "complete"}
  /\ fault \in BOOLEAN
  /\ exit \in 0..2
==============================================================================
