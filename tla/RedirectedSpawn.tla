--------------------------- MODULE RedirectedSpawn ---------------------------
(***************************************************************************)
(* How the three tools run a program on Windows, where there is no fork:    *)
(* the parent points its own standard descriptors at files, spawns the      *)
(* child, which inherits them, and points them back.                        *)
(*   link_wrapper.c                run_process_with_stdout, run_process     *)
(*   def_file_generator.c          run                                      *)
(*   static_library_validator.c    run, called by main for llvm-nm and then *)
(*                                 for llvm-cxxfilt                         *)
(*                                                                          *)
(* Each call of _dup, _dup2, _spawnv and _cwait may fail.  _dup2 closes its *)
(* target first, so a _dup2 that fails leaves it as it was or closed.       *)
(***************************************************************************)
EXTENDS Naturals, Sequences

CONSTANT Programs   \* the tools considered

Std == {"in", "out"}
Files == {"nm", "dup", "demangled"}           \* the temporary files
Handles == {"keyboard", "console", "closed"} \cup Files

\* The descriptors a tool is started with.
Start == [in |-> "keyboard", out |-> "console"]

\* The calls a tool makes: what is to be the child's stdin and stdout; "own"
\* stands for a NULL file, the tool's own descriptor.
Calls(p) ==
  IF p = "static_library_validator"
  THEN <<[in |-> "own", out |-> "nm"], [in |-> "dup", out |-> "demangled"]>>
  ELSE <<[in |-> "own", out |-> "nm"]>>

VARIABLES
  program,   \* the tool that runs; never changes
  call,      \* the call of Calls(program) it has come to
  pc,        \* its step in that call
  std,       \* what its standard descriptors refer to
  saved,     \* the copies _dup made of them, "none" where there is none
  child,     \* the child of this call: "none", "running", "ok", "failed"
  given,     \* the descriptors that child inherited
  faults,    \* the faults of any call that the tool cannot undo
  success    \* what the call returned, once pc = "returned"

vars == <<program, call, pc, std, saved, child, given, faults, success>>

Steps == {"save", "redirect", "spawn", "wait", "restore", "returned"}
NoCopies == [in |-> "none", out |-> "none"]
request == Calls(program)[call]

Init ==
  /\ program \in Programs
  /\ call = 1
  /\ pc = "save"
  /\ std = Start
  /\ saved = NoCopies
  /\ child = "none"
  /\ given = Start
  /\ faults = {}
  /\ success = FALSE

Goto(step) == pc' = step /\ UNCHANGED <<program, call, success>>
Return(result) == pc' = "returned" /\ success' = result /\ UNCHANGED <<program, call>>

\* What a failing _dup2 to descriptor s makes of table t.
Broken(t, s) == {t, [t EXCEPT ![s] = "closed"]}

\* What pointing the descriptors back makes of table t when the results of
\* _dup2 are not looked at.
PointedBack(t) ==
  {r \in [Std -> Handles] :
     \A s \in Std :
       r[s] \in IF saved[s] = "none" THEN {t[s]} ELSE {saved[s], t[s], "closed"}}

\* The descriptors are pointed back, perhaps in vain, and the copies closed.
PointBack(t) ==
  /\ std' \in PointedBack(t)
  /\ saved' = NoCopies
  /\ faults' = IF std' = [s \in Std |-> IF saved[s] = "none" THEN t[s] ELSE saved[s]]
               THEN faults ELSE faults \cup {"restore"}

------------------------------------------------------------------------------
(* link_wrapper.c                                                           *)

LinkSave ==
  /\ program = "link_wrapper" /\ pc = "save"
  /\ \/ Return(FALSE) /\ UNCHANGED saved
     \/ /\ std.out # "closed"
        /\ saved' = [saved EXCEPT !.out = std.out]
        /\ Goto("redirect")
  /\ UNCHANGED <<std, child, given, faults>>

\* Mutant: the copy is not closed when the redirection fails.
LinkRedirectKeepsCopy ==
  /\ program = "link_wrapper" /\ pc = "redirect"
  /\ \/ /\ std' = [std EXCEPT !.out = request.out]
        /\ Goto("spawn")
        /\ UNCHANGED <<saved, faults>>
     \/ /\ std' \in Broken(std, "out")
        /\ faults' = faults \cup {"redirect"}
        /\ Return(FALSE)
        /\ UNCHANGED saved
  /\ UNCHANGED <<child, given>>

LinkRedirect ==
  /\ program = "link_wrapper" /\ pc = "redirect"
  /\ \/ /\ std' = [std EXCEPT !.out = request.out]
        /\ Goto("spawn")
        /\ UNCHANGED <<saved, faults>>
     \/ /\ std' \in Broken(std, "out")
        /\ saved' = NoCopies
        /\ faults' = faults \cup {"redirect"}
        /\ Return(FALSE)
  /\ UNCHANGED <<child, given>>

\* run_process with _P_WAIT: if there is no child the status is 127.
LinkSpawn ==
  /\ program = "link_wrapper" /\ pc = "spawn"
  /\ \/ Goto("restore") /\ UNCHANGED <<child, given>>
     \/ child' = "running" /\ given' = std /\ Goto("wait")
  /\ UNCHANGED <<std, saved, faults>>

\* Mutant: a program that fails is run again.
LinkWaitRetries ==
  /\ program = "link_wrapper" /\ pc = "wait"
  /\ child \in {"ok", "failed"}
  /\ Goto(IF child = "ok" THEN "restore" ELSE "spawn")
  /\ UNCHANGED <<std, saved, child, given, faults>>

LinkWait ==
  /\ program = "link_wrapper" /\ pc = "wait"
  /\ child \in {"ok", "failed"}
  /\ Goto("restore")
  /\ UNCHANGED <<std, saved, child, given, faults>>

\* Mutant: the result of the restoring _dup2 is not looked at.
LinkRestoreUnchecked ==
  /\ program = "link_wrapper" /\ pc = "restore"
  /\ PointBack(std)
  /\ Return(child = "ok")
  /\ UNCHANGED <<child, given>>

\* The status becomes 127 if stdout cannot be restored.
LinkRestore ==
  /\ program = "link_wrapper" /\ pc = "restore"
  /\ PointBack(std)
  /\ Return(child = "ok" /\ std'.out = saved.out)
  /\ UNCHANGED <<child, given>>

------------------------------------------------------------------------------
(* def_file_generator.c                                                     *)

\* _dup and _dup2; a stdout that _dup2 has closed is not opened again.
DefRedirect ==
  /\ program = "def_file_generator" /\ pc = "save"
  /\ \/ /\ std.out # "closed"
        /\ saved' = [saved EXCEPT !.out = std.out]
        /\ std' = [std EXCEPT !.out = request.out]
        /\ Goto("spawn")
        /\ UNCHANGED faults
     \/ /\ std' \in Broken(std, "out")
        /\ faults' = faults \cup {"redirect"}
        /\ Return(FALSE)
        /\ UNCHANGED saved
  /\ UNCHANGED <<child, given>>

\* utf8_to_wide returns NULL for an argument.
DefEncodeFails ==
  /\ program = "def_file_generator" /\ pc = "spawn"
  /\ PointBack(std)
  /\ Return(FALSE)
  /\ UNCHANGED <<child, given>>

\* The child is spawned with the redirected descriptors, or not, and they are
\* pointed back before it is waited for.
DefSpawn ==
  /\ program = "def_file_generator" /\ pc = "spawn"
  /\ PointBack(std)
  /\ \/ Return(FALSE) /\ UNCHANGED <<child, given>>
     \/ child' = "running" /\ given' = std /\ Goto("wait")

\* _cwait fails, or tells the status of the child.
DefWait ==
  /\ program = "def_file_generator" /\ pc = "wait"
  /\ \/ Return(FALSE)
     \/ child \in {"ok", "failed"} /\ Return(child = "ok")
  /\ UNCHANGED <<std, saved, child, given, faults>>

------------------------------------------------------------------------------
(* static_library_validator.c                                               *)

\* Mutant: _dup is not looked at.
ValidatorSaveUnchecked ==
  /\ program = "static_library_validator" /\ pc = "save"
  /\ saved' = std
  /\ Goto("redirect")
  /\ UNCHANGED <<std, child, given, faults>>

\* Both descriptors are copied, whichever the call redirects.
ValidatorSave ==
  /\ program = "static_library_validator" /\ pc = "save"
  /\ \/ Return(FALSE) /\ UNCHANGED saved
     \/ /\ \A s \in Std : std[s] # "closed"
        /\ saved' = std
        /\ Goto("redirect")
  /\ UNCHANGED <<std, child, given, faults>>

RedirectedIn == IF request.in = "own" THEN std ELSE [std EXCEPT !.in = request.in]

\* If stdin or, after it, stdout cannot be redirected both are pointed back.
ValidatorRedirect ==
  /\ program = "static_library_validator" /\ pc = "redirect"
  /\ \/ /\ std' = [RedirectedIn EXCEPT !.out = request.out]
        /\ Goto("spawn")
        /\ UNCHANGED <<saved, faults>>
     \/ /\ \E t \in (IF request.in = "own" THEN {} ELSE Broken(std, "in"))
                      \cup Broken(RedirectedIn, "out") : PointBack(t)
        /\ Return(FALSE)
  /\ UNCHANGED <<child, given>>

\* An argument is not UTF-8: run returns with the descriptors still redirected
\* and the copies open.
ValidatorEncodeFails ==
  /\ program = "static_library_validator" /\ pc = "spawn"
  /\ faults' = faults \cup {"encode"}
  /\ Return(FALSE)
  /\ UNCHANGED <<std, saved, child, given>>

\* Mutant: the descriptors are pointed back before the child is spawned.
ValidatorSpawnsLate ==
  /\ program = "static_library_validator" /\ pc = "spawn"
  /\ PointBack(std)
  /\ \/ Return(FALSE) /\ UNCHANGED <<child, given>>
     \/ child' = "running" /\ given' = std' /\ Goto("wait")

ValidatorSpawn ==
  /\ program = "static_library_validator" /\ pc = "spawn"
  /\ PointBack(std)
  /\ \/ Return(FALSE) /\ UNCHANGED <<child, given>>
     \/ child' = "running" /\ given' = std /\ Goto("wait")

\* Mutant: a _cwait that fails counts as a child that is done.
ValidatorWaitUnchecked ==
  /\ program = "static_library_validator" /\ pc = "wait"
  /\ \/ Return(TRUE)
     \/ child \in {"ok", "failed"} /\ Return(child = "ok")
  /\ UNCHANGED <<std, saved, child, given, faults>>

ValidatorWait ==
  /\ program = "static_library_validator" /\ pc = "wait"
  /\ \/ Return(FALSE)
     \/ child \in {"ok", "failed"} /\ Return(child = "ok")
  /\ UNCHANGED <<std, saved, child, given, faults>>

\* The validator's main ends if the first call fails.
NextCall ==
  /\ pc = "returned" /\ success /\ call < Len(Calls(program))
  /\ call' = call + 1 /\ pc' = "save" /\ success' = FALSE /\ child' = "none"
  /\ UNCHANGED <<program, std, saved, given, faults>>

------------------------------------------------------------------------------
ChildEnds ==
  /\ child = "running"
  /\ child' \in {"ok", "failed"}
  /\ UNCHANGED <<program, call, pc, std, saved, given, faults, success>>

Tool ==
  \/ LinkSave \/ LinkRedirect \/ LinkSpawn \/ LinkWait \/ LinkRestore
  \/ DefRedirect \/ DefEncodeFails \/ DefSpawn \/ DefWait
  \/ ValidatorSave \/ ValidatorRedirect \/ ValidatorEncodeFails
  \/ ValidatorSpawn \/ ValidatorWait \/ NextCall

Ended == pc = "returned" /\ (success => call = Len(Calls(program)))

Next == Tool \/ ChildEnds \/ (Ended /\ UNCHANGED vars)

Spec == Init /\ [][Next]_vars

------------------------------------------------------------------------------
(* Properties.                                                              *)

\* Every variable has its type; a copy is of an open descriptor.
TypeOK ==
  /\ program \in Programs
  /\ call \in 1 .. Len(Calls(program))
  /\ pc \in Steps
  /\ std \in [Std -> Handles] /\ given \in [Std -> Handles]
  /\ saved \in [Std -> (Handles \ {"closed"}) \cup {"none"}]
  /\ child \in {"none", "running", "ok", "failed"}
  /\ faults \subseteq {"redirect", "restore", "encode"}
  /\ success \in BOOLEAN

\* A child reads and writes the files its call names and else the descriptors
\* the tool was started with, also when an earlier call could not point a
\* descriptor back: llvm-nm never writes to the console, and llvm-cxxfilt
\* never reads from it.
ChildHasItsFiles ==
  child # "none" =>
    \A s \in Std : given[s] = IF request[s] = "own" THEN Start[s] ELSE request[s]

\* A call succeeds only when its child has ended with status 0: the capture
\* is complete when it is read.
SuccessMeansChildEnded == pc = "returned" /\ success => child = "ok"

\* A call that returns has closed its copies, unless an argument was not
\* UTF-8; that ends the validator, so no call starts while copies are open.
CopiesAreClosed ==
  pc \in {"save", "returned"} /\ saved # NoCopies =>
    pc = "returned" /\ ~success /\ program = "static_library_validator"
    /\ "encode" \in faults

\* After a call that succeeds the descriptors are the tool's own again; only
\* the tools that do not look at the restoring _dup2 can succeed without.
StdIsPointedBack ==
  pc = "returned" /\ success =>
    \/ std = Start
    \/ "restore" \in faults /\ program # "link_wrapper"

\* Whichever calls fail, a child has its call's files and no others, its end
\* decides on success, and no copy stays open; after a success the parent has
\* back what was its own, but for a restoring _dup2 that fails unseen.
SpawnsAreClean ==
  ChildHasItsFiles /\ SuccessMeansChildEnded /\ CopiesAreClosed /\ StdIsPointedBack
==============================================================================
