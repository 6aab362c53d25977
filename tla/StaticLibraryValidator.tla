----------------------- MODULE StaticLibraryValidator -----------------------
(***************************************************************************)
(* tools/internal/static_library_validator.c: run llvm-nm on an archive,    *)
(* parse its lines, sort the symbols, look for neighbours of one name, and  *)
(* either touch the stamp or report the duplicates through llvm-cxxfilt.    *)
(*                                                                          *)
(* A symbol is a sequence of bytes; a line of llvm-nm is a record of what   *)
(* parse_nm_line looks at.  The members of the archive are numbered.        *)
(***************************************************************************)
EXTENDS Integers, Sequences, FiniteSetsExt, Functions

CONSTANTS
  Libraries,    \* sequences of [symbol, kind]: what each archive member has
  Targets,      \* subset of {"elf", "macho"}
  ArchiveNames, \* subset of {"plain", "open", "bracketed"}: see parse_nm_line
  MissingSets,  \* the required variables an environment may lack
  LostSets      \* the tools whose output may go elsewhere: see RunTool

Kinds == {"text", "data", "weak", "common", "undefined", "noise"}

Definition == [symbol : Seq(0..255), kind : Kinds]

ASSUME LibrariesAssumption == Libraries \subseteq Seq(Definition)
ASSUME TargetsAssumption == Targets \subseteq {"elf", "macho"}
ASSUME NamesAssumption == ArchiveNames \subseteq {"plain", "open", "bracketed"}
ASSUME MissingAssumption == MissingSets \subseteq SUBSET {"LLVM_NM", "LLVM_CXXFILT"}
ASSUME LostAssumption == LostSets \subseteq SUBSET {"nm", "filt"}

VARIABLES
  library, target, name, missing, lost,  \* the action: never change
  pc,        \* the step of main
  child,     \* the tool main waits for: "none", "running", "ok", "failed"
  entries,   \* the symbol_list: [symbol, object, type] records
  index,     \* i of the loop main is in: a line, then an entry
  dups,      \* dup_block: the entries reported as duplicates
  stamped,   \* argv[2] exists
  exit       \* the exit status, once pc = "done"

input == <<library, target, name, missing, lost>>
vars == <<input, pc, child, entries, index, dups, stamped, exit>>

------------------------------------------------------------------------------
(* llvm-nm -A -g -P, which is not part of the repository.  With --no-weak   *)
(* it leaves weak definitions out; without it, Mach-O's weak definitions    *)
(* have the letters of strong ones.                                         *)

\* toolchain/args sets DARWIN_TARGET=1 for macOS targets.
NoWeak == target = "macho"

TypeOf(kind) ==
  CASE kind = "text" -> "T"
    [] kind = "data" -> "D"
    [] kind = "weak" -> IF target = "macho" THEN "T" ELSE "W"
    [] kind = "common" -> "C"
    [] OTHER -> "U"

\* The definitions whose lines reach the file main reads back.
listed == IF "nm" \in lost THEN <<>> ELSE library

\* A definition left out is as good as a line parse_nm_line skips.
Unlisted(k) ==
  listed[k].kind = "noise" \/ (NoWeak /\ listed[k].kind = "weak")

NmLine(k) ==
  [form |-> IF Unlisted(k) THEN "noise" ELSE name,
   symbol |-> listed[k].symbol, object |-> k, type |-> TypeOf(listed[k].kind)]

------------------------------------------------------------------------------
(* The parts of the program that only compute.                              *)

SymbolEntry == [symbol : Seq(0..255), object : Nat, type : {"T", "D"}]

should_keep_type(type) == type \in {"T", "D", "U", "V", "W", "C"} \ {"U", "V", "W", "C"}

\* The symbol follows the first ']' after the first '[' of the line, and the
\* line is skipped unless ": " comes in between.  So a "bracketed" path or
\* member, which has a ']' after a '[', hides the line (a[1]/lib.a, a[1].o);
\* an "open" one, which has a '[' only, does not: the object's name comes out
\* too long (members are numbers here).
parse_nm_line(line) ==
  IF line.form \notin {"noise", "bracketed"} /\ should_keep_type(line.type)
  THEN <<[symbol |-> line.symbol, object |-> line.object, type |-> line.type]>>
  ELSE <<>>

\* The common positions at which two symbols differ.
Differences(x, y) == {k \in DOMAIN x \cap DOMAIN y : x[k] # y[k]}

\* Mutant: only the common length is compared.
compare_common_prefix(a, b) ==
  LET differ == Differences(a.symbol, b.symbol)
  IN  IF differ # {} THEN a.symbol[Min(differ)] - b.symbol[Min(differ)] ELSE 0

\* memcmp over the common length, then the shorter symbol first.
compare_symbol_entries(a, b) ==
  LET differ == Differences(a.symbol, b.symbol)
  IN  IF differ # {} THEN a.symbol[Min(differ)] - b.symbol[Min(differ)]
                     ELSE Len(a.symbol) - Len(b.symbol)

\* qsort: some permutation in order, any of them where entries compare equal.
Sorted(s) ==
  \A i, j \in DOMAIN s : i < j => compare_symbol_entries(s[i], s[j]) <= 0

\* The end of the run of equal symbols that starts at entry i.
RunEnd(i) ==
  CHOOSE j \in i + 1 .. Len(entries) + 1 :
    /\ \A k \in i .. j - 1 : entries[k].symbol = entries[i].symbol
    /\ j <= Len(entries) => entries[j].symbol # entries[i].symbol

------------------------------------------------------------------------------
Init ==
  /\ library \in Libraries
  /\ target \in Targets
  /\ name \in ArchiveNames
  /\ missing \in MissingSets
  /\ lost \in LostSets
  /\ pc = "nm"
  /\ child = "none"
  /\ entries = <<>>
  /\ index = 1
  /\ dups = <<>>
  /\ stamped = FALSE
  /\ exit = 0

Exit(status) == pc' = "done" /\ exit' = status
Goto(step) == pc' = step /\ UNCHANGED exit

Needed == IF pc = "nm" THEN {"LLVM_NM"} ELSE {"LLVM_CXXFILT"}

\* A tool is about to be run: required_env, tmpfile, fwrite or fork fails, on
\* Windows _dup2 too.
SetupFails ==
  /\ pc \in {"nm", "filt"}
  /\ child = "none"
  /\ Exit(2)
  /\ UNCHANGED <<input, child, entries, index, dups, stamped>>

\* The POSIX child ignores what dup2 returns and execs: a tool in "lost" is
\* one for which it fails.  The tool ends as ever, with its output elsewhere.
RunTool ==
  /\ pc \in {"nm", "filt"}
  /\ child = "none"
  /\ Needed \cap missing = {}
  /\ child' = "running"
  /\ UNCHANGED <<input, pc, entries, index, dups, stamped, exit>>

ToolEnds ==
  /\ child = "running"
  /\ child' \in {"ok", "failed"}
  /\ UNCHANGED <<input, pc, entries, index, dups, stamped, exit>>

\* waitpid fails (EINTR included: it is not called again), or the tool did
\* not exit with 0, or what it wrote cannot be read.
RunFails ==
  /\ pc \in {"nm", "filt"}
  /\ child # "none"
  /\ Exit(2)
  /\ UNCHANGED <<input, child, entries, index, dups, stamped>>

RunSucceeds ==
  /\ pc \in {"nm", "filt"}
  /\ child = "ok"
  /\ child' = "none"
  /\ Goto(IF pc = "nm" THEN "parse" ELSE "report")
  /\ UNCHANGED <<input, entries, index, dups, stamped>>

ParseLine ==
  /\ pc = "parse"
  /\ index <= Len(listed)
  /\ entries' = entries \o parse_nm_line(NmLine(index))
  /\ index' = index + 1
  /\ UNCHANGED <<input, pc, child, dups, stamped, exit>>

Sort ==
  /\ pc = "parse"
  /\ index > Len(listed)
  /\ \E p \in Bijection(DOMAIN entries, DOMAIN entries) :
       entries' = [k \in DOMAIN entries |-> entries[p[k]]]
  /\ Sorted(entries')
  /\ index' = 1
  /\ Goto("scan")
  /\ UNCHANGED <<input, child, dups, stamped>>

\* Mutant: the scan reports only the entries that repeat the first.
ScanRunDropsFirst ==
  /\ pc = "scan"
  /\ index <= Len(entries)
  /\ index' = RunEnd(index)
  /\ dups' = dups \o SubSeq(entries, index + 1, RunEnd(index) - 1)
  /\ UNCHANGED <<input, pc, child, entries, stamped, exit>>

\* One round of the outer loop: the run of entries from index on.
ScanRun ==
  /\ pc = "scan"
  /\ index <= Len(entries)
  /\ index' = RunEnd(index)
  /\ dups' = IF RunEnd(index) - index >= 2
             THEN dups \o SubSeq(entries, index, RunEnd(index) - 1) ELSE dups
  /\ UNCHANGED <<input, pc, child, entries, stamped, exit>>

ScanDone ==
  /\ pc = "scan"
  /\ index > Len(entries)
  /\ Goto(IF dups = <<>> THEN "touch" ELSE "filt")
  /\ UNCHANGED <<input, child, entries, index, dups, stamped>>

Touch ==
  /\ pc = "touch"
  /\ stamped' = TRUE
  /\ Exit(0)
  /\ UNCHANGED <<input, child, entries, index, dups>>

\* fopen fails, or fclose after it has created the stamp.
TouchFails ==
  /\ pc = "touch"
  /\ stamped' \in BOOLEAN
  /\ Exit(2)
  /\ UNCHANGED <<input, child, entries, index, dups>>

\* What llvm-cxxfilt wrote goes to stderr: the demangled duplicates.
Reported == IF "filt" \in lost THEN <<>> ELSE dups

Report ==
  /\ pc = "report"
  /\ \E status \in {1, 2} : Exit(status)
  /\ UNCHANGED <<input, child, entries, index, dups, stamped>>

Main ==
  \/ SetupFails \/ RunTool \/ RunFails \/ RunSucceeds
  \/ ParseLine \/ Sort \/ ScanRun \/ ScanDone
  \/ Touch \/ TouchFails \/ Report

Done == pc = "done" /\ UNCHANGED vars

Next == Main \/ ToolEnds \/ Done

Spec == Init /\ [][Next]_vars

------------------------------------------------------------------------------
(* Properties.                                                              *)

\* Every variable has its type, and the loops stay within the lines and the
\* entries.
TypeOK ==
  /\ library \in Seq(Definition)
  /\ target \in Targets
  /\ name \in ArchiveNames
  /\ missing \in MissingSets
  /\ lost \in LostSets
  /\ pc \in {"nm", "parse", "scan", "touch", "filt", "report", "done"}
  /\ child \in {"none", "running", "ok", "failed"}
  /\ entries \in Seq(SymbolEntry)
  /\ dups \in Seq(SymbolEntry)
  /\ index \in Nat \ {0}
  /\ index <= 1 + Len(IF pc \in {"nm", "parse"} THEN listed ELSE entries)
  /\ stamped \in BOOLEAN
  /\ exit \in 0..2

Contract == INSTANCE LibraryVerdict WITH
  library <- listed,
  verdict <- IF pc # "done" THEN "pending"
             ELSE CASE exit = 0 -> "valid"
                    [] exit = 1 -> "duplicates"
                    [] OTHER -> "error"

\* The program implements LibraryVerdict for the definitions whose listing
\* reaches it: parsing, sorting and scanning end in the verdict they call for,
\* on ELF where weak symbols have a letter of their own and on Mach-O where
\* only --no-weak keeps them apart.  A listing lost to an unchecked dup2 is the
\* empty library, which is valid: exit 0 is then no statement on the archive.
ImplementsContract == Contract!ASpec

\* A stamp exists only for a library without duplicate strong definitions:
\* the header of parse_nm_line takes every line of llvm-nm to read
\* "<archive>[<object>]: <symbol> <type> ...".
StampedIsValid == stamped => Contract!DuplicatedIn(library) = {}

\* If llvm-cxxfilt's output was captured, the report names every strong
\* definition of every duplicated symbol, once each, and nothing else (the
\* runs the scan cuts the sorted list into).
ReportIsExact ==
  pc = "done" /\ exit = 1 /\ "filt" \notin lost =>
    LET reported == [k \in DOMAIN Reported |-> Reported[k].object]
    IN  /\ Range(reported) =
             {k \in DOMAIN library :
                /\ library[k].kind \in Contract!StrongKinds
                /\ library[k].symbol \in Contract!DuplicatedIn(library)}
        /\ IsInjective(reported)
==============================================================================
