----------------------------- MODULE LinkWrapper -----------------------------
(***************************************************************************)
(* tools/internal/link_wrapper.c: the program Bazel runs instead of the     *)
(* linker.  It runs clang++, then, as its environment asks, dsymutil,       *)
(* llvm-strip and one of the ways of deriving an interface library, and     *)
(* exits with the status of the first step that fails.                      *)
(*                                                                          *)
(* The environment is the one toolchain/features and toolchain/llvm build   *)
(* for a link action, less the variables in `missing' (a toolchain that     *)
(* forgets one).  A tool is a child process: it may be interrupted, may     *)
(* tear its output while it runs, may exit with any code or be killed.      *)
(***************************************************************************)
EXTENDS Naturals

CONSTANTS
  Requests,        \* the link actions considered, a subset of LinkRequest
  MissingSets,     \* which required variables an environment may lack
  ExitCodes,       \* the non-zero exit codes of the tools
  Signals,         \* the signals that may kill a tool
  MaxInterrupts    \* bound: how often waitpid may return EINTR in one run

RequiredVars ==
  {"LLVM_CLANGXX", "LLVM_LINK_OUTPUT", "LLVM_DSYMUTIL", "LLVM_STRIP",
   "LLVM_INTERFACE_LIBRARY_FORMAT", "LLVM_INTERFACE_LIBRARY_INPUT",
   "LLVM_INTERFACE_LIBRARY_OUTPUT", "LLVM_NM", "LLVM_IFS", "LLVM_READTAPI"}

(* A link action: its target, whether it is to write a dSYM bundle, to      *)
(* strip debug symbols, to write an interface library, and whether the      *)
(* library it links has versioned dynamic symbols.  Only the macOS          *)
(* toolchain has the generate_dsym_file feature.  On other systems the      *)
(* features here leave the format unset, which is "other" with the variable *)
(* missing; "other" with it is a toolchain whose format main does not know. *)
LinkRequest ==
  {r \in [target : {"linux", "macos", "other"}, dsym : BOOLEAN,
          strip : BOOLEAN, iface : BOOLEAN, versioned : BOOLEAN] :
     r.dsym => r.target = "macos"}

ASSUME RequestsAssumption == Requests \subseteq LinkRequest
ASSUME MissingAssumption == MissingSets \subseteq SUBSET RequiredVars
ASSUME StatusAssumption ==
  /\ ExitCodes \subseteq 1..255
  /\ Signals \subseteq 1..64
  /\ MaxInterrupts \in Nat

VARIABLES
  request,     \* the link action Bazel asked for
  missing,     \* the required variables its environment lacks
  pc,          \* the step of main the wrapper is at
  child,       \* the tool it runs: <<"none" | "running" | "exited" | "signaled", n>>
  file,        \* the outputs: link, dsym, iface and what iface was made from
  interrupts,  \* EINTR answers so far
  exit         \* the exit status, once pc = "done"

vars == <<request, missing, pc, child, file, interrupts, exit>>

------------------------------------------------------------------------------
(* The command line and environment of the action.                          *)

\* Mutant: -Wl,-S is passed whenever stripping is asked for.
LinkerAlwaysStrips == request.strip

\* -Wl,-S is passed only when no dSYM is wanted.
LinkerStrips == request.strip /\ ~request.dsym

ToolVars ==
  {"LLVM_CLANGXX", "LLVM_DSYMUTIL", "LLVM_IFS", "LLVM_NM", "LLVM_READTAPI",
   "LLVM_STRIP"}

DsymVars == IF request.dsym THEN {"LLVM_DSYM_PATH", "LLVM_LINK_OUTPUT"} ELSE {}

StripVars ==
  IF request.strip /\ request.target = "macos"
  THEN {"LLVM_STRIP_DEBUG_SYMBOLS"} ELSE {}

InterfaceVars ==
  IF request.iface
  THEN {"LLVM_GENERATE_INTERFACE_LIBRARY", "LLVM_INTERFACE_LIBRARY_FORMAT",
        "LLVM_INTERFACE_LIBRARY_INPUT", "LLVM_INTERFACE_LIBRARY_OUTPUT"}
  ELSE {}

env == (ToolVars \cup DsymVars \cup StripVars \cup InterfaceVars) \ missing

\* The value of LLVM_INTERFACE_LIBRARY_FORMAT.
format ==
  CASE request.target = "linux" -> "elf"
    [] request.target = "macos" -> "tbd"
    [] OTHER -> "coff"

------------------------------------------------------------------------------
(* Steps of the wrapper.                                                    *)

ToolSteps == {"link", "dsym", "strip", "nm", "ifs", "readtapi"}
Steps == ToolSteps \cup {"interface", "scan", "copy", "copying", "done"}

\* The variables required_env asks for on the way into a step.
NeededAt(step) ==
  CASE step = "link" -> {"LLVM_CLANGXX"}
    [] step = "dsym" -> {"LLVM_LINK_OUTPUT", "LLVM_DSYMUTIL"}
    [] step = "strip" -> {"LLVM_STRIP"}
    [] step = "interface" ->
         {"LLVM_INTERFACE_LIBRARY_FORMAT", "LLVM_INTERFACE_LIBRARY_INPUT",
          "LLVM_INTERFACE_LIBRARY_OUTPUT"}
    [] step = "nm" -> {"LLVM_NM"}
    [] step = "ifs" -> {"LLVM_IFS"}
    [] step = "readtapi" -> {"LLVM_READTAPI"}
    [] OTHER -> {}

NoChild == <<"none", 0>>
Running == <<"running", 0>>
Ended == {<<"exited", c>> : c \in ExitCodes \cup {0}}
           \cup {<<"signaled", s>> : s \in Signals}

Init ==
  /\ request \in Requests
  /\ missing \in MissingSets
  /\ pc = "link"
  /\ child = NoChild
  /\ file = [link |-> "absent", dsym |-> "absent", iface |-> "absent",
             source |-> "absent"]
  /\ interrupts = 0
  /\ exit = 0

Exit(status) == pc' = "done" /\ exit' = status
Goto(step) == pc' = step /\ UNCHANGED exit

ReadyToStart == pc # "done" /\ child = NoChild

\* required_env: the variable is unset or empty.
MissingEnv ==
  /\ ReadyToStart
  /\ ~(NeededAt(pc) \subseteq env)
  /\ Exit(127)
  /\ UNCHANGED <<request, missing, child, file, interrupts>>

ForkFails ==
  /\ ReadyToStart
  /\ pc \in ToolSteps
  /\ NeededAt(pc) \subseteq env
  /\ Exit(127)
  /\ UNCHANGED <<request, missing, child, file, interrupts>>

Fork ==
  /\ ReadyToStart
  /\ pc \in ToolSteps
  /\ NeededAt(pc) \subseteq env
  /\ child' = Running
  /\ UNCHANGED <<request, missing, pc, file, interrupts, exit>>

\* waitpid returns EINTR and is called again.
WaitInterrupted ==
  /\ child = Running
  /\ interrupts < MaxInterrupts
  /\ interrupts' = interrupts + 1
  /\ UNCHANGED <<request, missing, pc, child, file, exit>>

\* waitpid fails otherwise: the child is gone and its status with it.
WaitFails ==
  /\ child \in Ended
  /\ child' = NoChild
  /\ Exit(127)
  /\ UNCHANGED <<request, missing, file, interrupts>>

\* Mutant: only the exit code of the child is looked at.
StatusOfExitOnly(c) == IF c[1] = "exited" THEN c[2] ELSE 0

StatusOf(c) == IF c[1] = "signaled" THEN 128 + c[2] ELSE c[2]

AfterOutputs ==
  IF "LLVM_GENERATE_INTERFACE_LIBRARY" \in env THEN Goto("interface")
  ELSE Exit(0)

\* Mutant: the library is stripped before dsymutil reads it.
StripThenDsym ==
  CASE pc = "link" /\ {"LLVM_DSYM_PATH", "LLVM_STRIP_DEBUG_SYMBOLS"} \subseteq env ->
         Goto("strip")
    [] pc = "link" /\ "LLVM_DSYM_PATH" \in env -> Goto("dsym")
    [] pc = "strip" -> Goto("dsym")
    [] pc = "nm" -> Goto("scan")
    [] pc \in {"ifs", "readtapi"} -> Exit(0)
    [] OTHER -> AfterOutputs

AfterTool ==
  CASE pc = "link" /\ "LLVM_DSYM_PATH" \in env -> Goto("dsym")
    [] pc = "dsym" /\ "LLVM_STRIP_DEBUG_SYMBOLS" \in env -> Goto("strip")
    [] pc = "nm" -> Goto("scan")
    [] pc \in {"ifs", "readtapi"} -> Exit(0)
    [] OTHER -> AfterOutputs

\* Mutant: a tool killed by a signal is started again.
CollectRestartsKilled ==
  /\ child \in Ended
  /\ child' = NoChild
  /\ IF child[1] = "signaled" THEN Goto(pc)
     ELSE IF child[2] # 0 THEN Exit(child[2]) ELSE AfterTool
  /\ UNCHANGED <<request, missing, file, interrupts>>

\* waitpid delivers the status: the first failure is the wrapper's own.
Collect ==
  /\ child \in Ended
  /\ child' = NoChild
  /\ IF StatusOf(child) # 0 THEN Exit(StatusOf(child)) ELSE AfterTool
  /\ UNCHANGED <<request, missing, file, interrupts>>

\* generate_interface_library chooses by format.
ChooseFormat ==
  /\ ReadyToStart
  /\ pc = "interface"
  /\ NeededAt(pc) \subseteq env
  /\ CASE format = "elf" -> Goto("nm")
       [] format = "tbd" -> Goto("readtapi")
       [] OTHER -> Exit(1)
  /\ UNCHANGED <<request, missing, child, file, interrupts>>

\* tmpfile, fseek or the read of llvm-nm's output fails.
ScratchFails ==
  /\ ReadyToStart
  /\ pc \in {"nm", "scan"}
  /\ NeededAt(pc) \subseteq env
  /\ Exit(1)
  /\ UNCHANGED <<request, missing, child, file, interrupts>>

\* has_versioned_symbols: some line of the output has an '@'.
Scan ==
  /\ pc = "scan"
  /\ Goto(IF request.versioned THEN "copy" ELSE "ifs")
  /\ UNCHANGED <<request, missing, child, file, interrupts>>

\* copy_file: opening the library or the interface fails.
CopyOpenFails ==
  /\ pc = "copy"
  /\ Exit(1)
  /\ UNCHANGED <<request, missing, child, file, interrupts>>

\* fopen(.., "wb") truncates the interface before the first byte arrives.
CopyOpen ==
  /\ pc = "copy"
  /\ file' = [file EXCEPT !.iface = "torn"]
  /\ Goto("copying")
  /\ UNCHANGED <<request, missing, child, interrupts>>

CopyDone ==
  /\ pc = "copying"
  /\ file' = [file EXCEPT !.iface = "copy", !.source = file.link]
  /\ Exit(0)
  /\ UNCHANGED <<request, missing, child, interrupts>>

\* Mutant: the interface is left behind.
CopyFailsLeavesInterface ==
  /\ pc = "copying"
  /\ Exit(1)
  /\ UNCHANGED <<request, missing, child, file, interrupts>>

\* A read, write or close fails: the interface is removed again.
CopyFails ==
  /\ pc = "copying"
  /\ file' = [file EXCEPT !.iface = "absent"]
  /\ Exit(1)
  /\ UNCHANGED <<request, missing, child, interrupts>>

------------------------------------------------------------------------------
(* The tools (clang++, dsymutil, llvm-strip, llvm-nm, llvm-ifs and          *)
(* llvm-readtapi are not part of the repository).                           *)

OutputOf(step) ==
  CASE step \in {"link", "strip"} -> "link"
    [] step = "dsym" -> "dsym"
    [] step \in {"ifs", "readtapi"} -> "iface"
    [] OTHER -> "none"

\* What the output of a step holds when the tool has exited with 0.  A dSYM
\* bundle takes its debug information from what the link output still has.
ResultOf(step) ==
  CASE step = "link" -> IF LinkerStrips THEN "stripped" ELSE "debug"
    [] step = "dsym" -> IF file.link = "debug" THEN "full" ELSE "empty"
    [] step = "strip" -> "stripped"
    [] step = "ifs" -> "stub"
    [] OTHER -> "tbd"

\* The tool is part-way through writing its output.
ToolWrites ==
  /\ child = Running
  /\ pc # "nm"
  /\ file' = [file EXCEPT ![OutputOf(pc)] = "torn"]
  /\ UNCHANGED <<request, missing, pc, child, interrupts, exit>>

ToolSucceeds ==
  /\ child = Running
  /\ child' = <<"exited", 0>>
  /\ file' = IF pc = "nm" THEN file
             ELSE [file EXCEPT ![OutputOf(pc)] = ResultOf(pc)]
  /\ UNCHANGED <<request, missing, pc, interrupts, exit>>

\* Also the child that could not execv: it exits with 127.
ToolFails ==
  /\ child = Running
  /\ child' \in Ended \ {<<"exited", 0>>}
  /\ UNCHANGED <<request, missing, pc, file, interrupts, exit>>

ToolEnds == ToolSucceeds \/ ToolFails

Wrapper ==
  \/ MissingEnv \/ ForkFails \/ Fork \/ WaitFails \/ Collect
  \/ ChooseFormat \/ ScratchFails \/ Scan
  \/ CopyOpenFails \/ CopyOpen \/ CopyDone \/ CopyFails

Done == pc = "done" /\ UNCHANGED vars

Next == Wrapper \/ WaitInterrupted \/ ToolWrites \/ ToolEnds \/ Done

Spec == Init /\ [][Next]_vars

(* Fairness: the wrapper is a running process, and the tools it waits for   *)
(* end on their own.                                                        *)
FairSpec == Spec /\ WF_vars(Wrapper) /\ WF_vars(ToolEnds)

------------------------------------------------------------------------------
(* Properties.                                                              *)

\* Every variable has its type: the wrapper is at a step of main, its child
\* is in a state waitpid can report, its exit status fits in a byte.
TypeOK ==
  /\ request \in LinkRequest
  /\ missing \subseteq RequiredVars
  /\ pc \in Steps
  /\ child \in {NoChild, Running} \cup Ended
  /\ file \in [link : {"absent", "torn", "debug", "stripped"},
               dsym : {"absent", "torn", "full", "empty"},
               iface : {"absent", "torn", "stub", "tbd", "copy"},
               source : {"absent", "torn", "debug", "stripped"}]
  /\ interrupts \in 0..MaxInterrupts
  /\ exit \in 0..255

FinalLink == IF request.strip THEN "stripped" ELSE "debug"

WantedInterface ==
  IF format = "elf" THEN IF request.versioned THEN "copy" ELSE "stub" ELSE "tbd"

\* Exit status 0 means that every output the action asked for is complete:
\* the library is stripped when stripping was asked for, whether the linker
\* or the wrapper had to do it; the dSYM has the debug information that was
\* stripped; the interface is of the right kind, and a copied interface is a
\* copy of the library as it ended up.  (The order of the steps of main, and
\* the division of stripping between toolchain/features/legacy and main.)
SuccessMeansEveryOutput ==
  pc = "done" /\ exit = 0 =>
    /\ file.link = FinalLink
    /\ request.dsym => file.dsym = "full"
    /\ request.iface => file.iface = WantedInterface
    /\ file.iface = "copy" => file.source = file.link

\* Debug information leaves the library only once a complete dSYM has it:
\* "The macOS link wrapper needs to defer stripping until after dSYM
\* generation" (toolchain/features/legacy/BUILD.bazel).
StripAfterDsym ==
  [][request.dsym /\ file.link = "debug" /\ file'.link # "debug"
       => file.dsym = "full"]_vars

\* An interface that is a copy of a versioned ELF library is all or nothing:
\* when the wrapper has exited it is there exactly if the exit status is 0,
\* and no failure of copy_file or of an earlier tool leaves a torn one.
CopiedInterfaceAllOrNothing ==
  pc = "done" /\ request.iface /\ WantedInterface = "copy" =>
    /\ file.iface \in {"absent", "copy"}
    /\ exit = 0 <=> file.iface = "copy"

\* The wrapper never exits while a tool it started may still be writing: the
\* EINTR loops around waitpid.
NoToolOutlivesWrapper == pc = "done" => child # Running

\* A tool that fails decides the exit status: no later step runs, and a tool
\* killed by a signal is a failure too.
FailureEndsTheRun ==
  [][(child \in Ended \ {<<"exited", 0>>}) /\ child' = NoChild
       => pc' = "done" /\ exit' # 0 /\ file' = file]_vars

\* Whatever fails and however often waitpid is interrupted, the wrapper exits.
Termination == <>(pc = "done")
==============================================================================
