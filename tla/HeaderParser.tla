----------------------------- MODULE HeaderParser -----------------------------
(***************************************************************************)
(* tools/internal/header_parser.c: the program Bazel runs to check that a   *)
(* header parses by itself.  It touches the stamp file that stands for the  *)
(* action's output and then becomes clang; the stamp is there before the    *)
(* header has been looked at.                                               *)
(*                                                                          *)
(* Bazel runs the action again when a header it has accepted is edited or   *)
(* the last attempt failed, and may be interrupted at any time.  Without a  *)
(* sandbox the stamp of an earlier attempt lies in the same place; Bazel    *)
(* removes it before an attempt.                                            *)
(***************************************************************************)
EXTENDS Naturals

CONSTANTS
  Headers,      \* the contents the header may have
  Good,         \* those that parse
  MaxAttempts   \* bound: attempts at the action

RequiredVars == {"PARSE_HEADER", "LLVM_CLANGXX"}

VARIABLES
  env,       \* the required variables that are set; never changes
  header,    \* the header as it is now
  pc,        \* "idle", a step of main, "clang", or "ended"
  stamp,     \* the stamp file is there
  exit,      \* the exit status, once pc = "ended"; 3: killed
  accepted,  \* the contents Bazel holds the check to have passed for
  attempts   \* attempts so far

vars == <<env, header, pc, stamp, exit, accepted, attempts>>

Init ==
  /\ env \in SUBSET RequiredVars
  /\ header \in Headers
  /\ pc = "idle"
  /\ stamp \in BOOLEAN
  /\ exit = 0
  /\ accepted = {}
  /\ attempts = 0

------------------------------------------------------------------------------
(* Bazel.                                                                   *)

Attempt ==
  /\ pc = "idle" /\ attempts < MaxAttempts
  /\ header \notin accepted
  /\ attempts' = attempts + 1
  /\ stamp' = FALSE
  /\ pc' = "main"
  /\ UNCHANGED <<env, header, exit, accepted>>

Accept ==
  /\ pc = "ended"
  /\ accepted' = IF exit = 0 /\ stamp THEN accepted \cup {header} ELSE accepted
  /\ pc' = "idle"
  /\ UNCHANGED <<env, header, stamp, exit, attempts>>

Edit ==
  /\ pc = "idle"
  /\ header' \in Headers \ {header}
  /\ UNCHANGED <<env, pc, stamp, exit, accepted, attempts>>

\* The action is killed, with the stamp touched or not.
Interrupt ==
  /\ pc \in {"main", "close", "exec", "clang"}
  /\ pc' = "ended" /\ exit' = 3
  /\ UNCHANGED <<env, header, stamp, accepted, attempts>>

------------------------------------------------------------------------------
(* main.                                                                    *)

\* Mutant: an attempt that ends is counted again.
ExitCounted(status) ==
  /\ pc' = "ended" /\ exit' = status /\ attempts' = attempts + 1
  /\ UNCHANGED <<env, header, accepted>>

Exit(status) ==
  pc' = "ended" /\ exit' = status /\ UNCHANGED <<env, header, accepted, attempts>>
Goto(step) == pc' = step /\ UNCHANGED <<env, header, exit, accepted, attempts>>

\* PARSE_HEADER is not set, or the stamp cannot be opened.
TouchFails == pc = "main" /\ Exit(2) /\ UNCHANGED stamp

Touch ==
  /\ pc = "main"
  /\ "PARSE_HEADER" \in env
  /\ stamp' = TRUE
  /\ Goto("close")

\* Mutant: close is called again while it fails.
CloseRetries == pc = "close" /\ pc' = "main" /\ UNCHANGED <<env, header, exit, accepted, attempts, stamp>>

CloseFails == pc = "close" /\ Exit(2) /\ UNCHANGED stamp

Close == pc = "close" /\ Goto("exec") /\ UNCHANGED stamp

\* Mutant: a missing clang counts as a header that parses.
ExecFailsUnnoticed == pc = "exec" /\ Exit(0) /\ UNCHANGED stamp

\* LLVM_CLANGXX is not set, or execv returns.
ExecFails == pc = "exec" /\ Exit(2) /\ UNCHANGED stamp

\* Mutant: clang is started in place of touching the stamp as well.
ExecTooEarly == pc \in {"main", "exec"} /\ "LLVM_CLANGXX" \in env /\ Goto("clang") /\ UNCHANGED stamp

Exec == pc = "exec" /\ "LLVM_CLANGXX" \in env /\ Goto("clang") /\ UNCHANGED stamp

\* clang -fsyntax-only
Clang == pc = "clang" /\ Exit(IF header \in Good THEN 0 ELSE 1) /\ UNCHANGED stamp

Parser == TouchFails \/ Touch \/ CloseFails \/ Close \/ ExecFails \/ Exec \/ Clang

Next ==
  \/ Attempt \/ Accept \/ Edit \/ Interrupt \/ Parser
  \/ pc = "idle" /\ attempts = MaxAttempts /\ UNCHANGED vars

Spec == Init /\ [][Next]_vars

------------------------------------------------------------------------------
(* Properties.                                                              *)

\* Every variable has its type.
TypeOK ==
  /\ env \subseteq RequiredVars
  /\ header \in Headers /\ accepted \subseteq Headers
  /\ pc \in {"idle", "main", "close", "exec", "clang", "ended"}
  /\ stamp \in BOOLEAN /\ exit \in 0..3 /\ attempts \in 0..MaxAttempts

\* Only contents that clang has parsed are accepted, though the stamp is there
\* whatever clang says, an attempt may die between the two, and the header
\* changes between attempts.
AcceptedHeadersParse == accepted \subseteq Good

\* Status 0 comes with the output Bazel demands: a header that parses is not
\* refused for want of a stamp.
SuccessHasStamp == pc = "ended" /\ exit = 0 => stamp
==============================================================================
