-------------------------- MODULE LinkWrapperProofs --------------------------
(***************************************************************************)
(* What LinkWrapper's runs check on one environment at a time, proved for   *)
(* every set of requests, of missing variables, of exit codes and signals.  *)
(***************************************************************************)
EXTENDS LinkWrapper, TLAPS

\* The steps that follow every change of the library and the dSYM.
InterfaceSteps == {"interface", "nm", "scan", "copy", "copying", "ifs", "readtapi"}

\* The library and the dSYM are what the action asked for.
OutputsFinal ==
  /\ file.link = FinalLink
  /\ request.dsym => file.dsym = "full"

\* What holds at each step of main: what the steps before it have produced,
\* and, once the tool of the step has exited with 0, its own output.
StepInv ==
  /\ pc = "link" /\ child = <<"exited", 0>> =>
       file.link = (IF LinkerStrips THEN "stripped" ELSE "debug")
  /\ pc = "link" /\ child \in {NoChild, Running} =>
       file.link \in {"absent", "torn"}
  /\ pc = "dsym" =>
       /\ request.dsym
       /\ file.link = "debug"
       /\ child = <<"exited", 0>> => file.dsym = "full"
  /\ pc = "strip" =>
       /\ request.dsym
       /\ request.strip
       /\ file.dsym = "full"
       /\ child = NoChild => file.link = "debug"
       /\ child = <<"exited", 0>> => file.link = "stripped"
  /\ pc \in InterfaceSteps => OutputsFinal /\ request.iface
  /\ pc \in {"nm", "scan", "copy", "copying", "ifs"} => format = "elf"
  /\ pc = "readtapi" => format = "tbd"
  /\ pc \in {"copy", "copying"} => request.versioned
  /\ pc = "ifs" => ~request.versioned
  /\ pc = "ifs" /\ child = <<"exited", 0>> => file.iface = "stub"
  /\ pc = "readtapi" /\ child = <<"exited", 0>> => file.iface = "tbd"

\* A torn or copied interface comes only from the steps that write one.
InterfaceInv ==
  /\ file.iface # "absent" => pc \in {"copying", "ifs", "readtapi", "done"}
  /\ pc = "copying" => file.iface = "torn"
  /\ file.iface = "copy" => pc = "done" /\ exit = 0

\* The wrapper is between tools exactly at the steps that run none.
ChildInv == child # NoChild => pc \in ToolSteps

IInv ==
  /\ TypeOK
  /\ ChildInv
  /\ StepInv
  /\ InterfaceInv
  /\ SuccessMeansEveryOutput
  /\ CopiedInterfaceAllOrNothing

------------------------------------------------------------------------------
\* The initial states satisfy the inductive invariant.
LEMMA InitIInv == Init => IInv
<1> SUFFICES ASSUME Init PROVE IInv
  OBVIOUS
<1>1. TypeOK
  BY RequestsAssumption, MissingAssumption, StatusAssumption
     DEF Init, TypeOK, Steps, ToolSteps, NoChild
<1>2. ChildInv /\ StepInv /\ InterfaceInv
  BY DEF Init, ChildInv, StepInv, InterfaceInv, NoChild, InterfaceSteps
<1>3. SuccessMeansEveryOutput /\ CopiedInterfaceAllOrNothing
  BY DEF Init, SuccessMeansEveryOutput, CopiedInterfaceAllOrNothing
<1> QED
  BY <1>1, <1>2, <1>3 DEF IInv

\* The status the wrapper makes of a child's: a byte, and zero for a clean
\* exit only (a signal number is added to 128, never to a multiple of 256).
LEMMA StatusFacts ==
  ASSUME NEW c \in Ended
  PROVE  /\ StatusOf(c) \in 0..255
         /\ StatusOf(c) = 0 <=> c = <<"exited", 0>>
         /\ c # NoChild
         /\ c # Running
<1>1. CASE \E n \in ExitCodes \cup {0} : c = <<"exited", n>>
  BY <1>1, StatusAssumption DEF StatusOf, NoChild, Running
<1>2. CASE \E s \in Signals : c = <<"signaled", s>>
  BY <1>2, StatusAssumption DEF StatusOf, NoChild, Running
<1> QED
  BY <1>1, <1>2 DEF Ended

\* Every way of ending with a failure keeps the invariant, whatever the step,
\* as long as no interface is left torn.
LEMMA FailureKeepsIInv ==
  ASSUME IInv, NEW status \in 1..255, Exit(status),
         pc # "done",
         child' = NoChild, UNCHANGED <<request, missing, interrupts>>,
         \/ pc # "copying" /\ file' = file
         \/ pc = "copying" /\ file' = [file EXCEPT !.iface = "absent"]
  PROVE  IInv'
<1>1. TypeOK'
  BY DEF IInv, TypeOK, Exit, Steps, NoChild
<1>2. pc' = "done" /\ exit' # 0
  BY DEF Exit
<1>3. ChildInv' /\ StepInv'
  BY <1>2 DEF ChildInv, StepInv, InterfaceSteps, NoChild
<1>4. file.iface # "copy" /\ file'.iface # "copy"
  BY DEF IInv, InterfaceInv, TypeOK
<1>5. InterfaceInv' /\ SuccessMeansEveryOutput'
  BY <1>2, <1>4 DEF InterfaceInv, SuccessMeansEveryOutput
<1>6. CopiedInterfaceAllOrNothing'
  <2> SUFFICES ASSUME request.iface, WantedInterface = "copy"
               PROVE  file'.iface = "absent"
    BY <1>2 DEF CopiedInterfaceAllOrNothing, WantedInterface, format
  <2>1. pc # "ifs" /\ pc # "readtapi"
    BY DEF IInv, StepInv, WantedInterface
  <2> QED
    BY <2>1 DEF IInv, InterfaceInv, TypeOK
<1> QED
  BY <1>1, <1>3, <1>5, <1>6 DEF IInv

\* Which branches of main an action takes: the variables that select them are
\* never among those a toolchain may forget.
LEMMA EnvFacts ==
  ASSUME TypeOK
  PROVE  /\ "LLVM_DSYM_PATH" \in env <=> request.dsym
         /\ "LLVM_STRIP_DEBUG_SYMBOLS" \in env
              <=> request.strip /\ request.target = "macos"
         /\ "LLVM_GENERATE_INTERFACE_LIBRARY" \in env <=> request.iface
         /\ request.dsym => request.target = "macos"
  BY DEF TypeOK, env, RequiredVars, ToolVars, DsymVars, StripVars,
     InterfaceVars, LinkRequest

\* The first tool's success moves main on, or ends it, with the outputs the
\* next step relies on.
LEMMA CollectKeepsIInv == IInv /\ Collect => IInv'
<1> SUFFICES ASSUME IInv, Collect PROVE IInv'
  OBVIOUS
<1>1. pc \in ToolSteps /\ pc # "done"
  BY StatusFacts DEF IInv, ChildInv, Collect, ToolSteps
<1>2. CASE StatusOf(child) # 0
  <2>1. StatusOf(child) \in 1..255
    BY <1>2, StatusFacts DEF Collect
  <2> QED
    BY <1>1, <1>2, <2>1, FailureKeepsIInv DEF Collect, ToolSteps
<1>3. CASE StatusOf(child) = 0
  <2>1. child = <<"exited", 0>> /\ AfterTool
    BY <1>3, StatusFacts DEF Collect
  <2>2. child' = NoChild /\ UNCHANGED <<request, missing, file, interrupts>>
    BY DEF Collect
  <2>3. TypeOK /\ ChildInv /\ StepInv /\ InterfaceInv
    BY DEF IInv
  <2>4. TypeOK'
    BY <2>1, <2>2, <2>3 DEF TypeOK, AfterTool, AfterOutputs, Goto, Exit, Steps,
       ToolSteps
  <2>5. OutputsFinal \/ pc' \in {"dsym", "strip"}
    BY <1>1, <2>1, <2>3, EnvFacts
       DEF StepInv, OutputsFinal, FinalLink, LinkerStrips, AfterTool,
           AfterOutputs, Goto, Exit, InterfaceSteps, ToolSteps
  <2>6. ChildInv' /\ StepInv'
    BY <1>1, <2>1, <2>2, <2>3, <2>5, EnvFacts
       DEF ChildInv, StepInv, OutputsFinal, FinalLink, LinkerStrips, AfterTool,
           AfterOutputs, Goto, Exit, InterfaceSteps, ToolSteps, format, NoChild
  <2>7. InterfaceInv'
    BY <1>1, <2>1, <2>2, <2>3
       DEF InterfaceInv, AfterTool, AfterOutputs, Goto, Exit, ToolSteps
  <2>8. SuccessMeansEveryOutput' /\ CopiedInterfaceAllOrNothing'
    BY <1>1, <2>1, <2>2, <2>3, <2>5, EnvFacts
       DEF SuccessMeansEveryOutput, CopiedInterfaceAllOrNothing, StepInv,
           InterfaceInv, OutputsFinal, FinalLink, WantedInterface, format,
           AfterTool, AfterOutputs, Goto, Exit, ToolSteps, InterfaceSteps
  <2> QED
    BY <2>4, <2>6, <2>7, <2>8 DEF IInv
<1> QED
  BY <1>2, <1>3

\* The steps of main that move on without running a tool.
LEMMA MovesKeepIInv ==
  IInv /\ (Fork \/ WaitInterrupted \/ ChooseFormat \/ Scan \/ CopyOpen) => IInv'
<1> SUFFICES ASSUME IInv,
                    Fork \/ WaitInterrupted \/ ChooseFormat \/ Scan \/ CopyOpen
             PROVE  IInv'
  OBVIOUS
<1> USE DEF IInv
<1>1. CASE Fork
  <2>1. pc # "done" /\ child # Running /\ child' = Running /\ Running \notin Ended
    BY <1>1, StatusFacts DEF Fork, ReadyToStart, NoChild, Running
  <2> QED
    BY <1>1, <2>1
       DEF Fork, ReadyToStart, TypeOK, ChildInv, StepInv, InterfaceInv,
           SuccessMeansEveryOutput, CopiedInterfaceAllOrNothing, NoChild,
           Running, ToolSteps, InterfaceSteps, OutputsFinal, FinalLink,
           LinkerStrips, WantedInterface, format
<1>2. CASE WaitInterrupted
  BY <1>2, StatusAssumption
     DEF WaitInterrupted, TypeOK, ChildInv, StepInv, InterfaceInv,
         SuccessMeansEveryOutput, CopiedInterfaceAllOrNothing, OutputsFinal,
         FinalLink, LinkerStrips, WantedInterface, format
<1>3. CASE ChooseFormat
  <2>1. CASE format \in {"elf", "tbd"}
    BY <1>3, <2>1
       DEF ChooseFormat, ReadyToStart, Goto, TypeOK, Steps, ToolSteps, ChildInv,
           StepInv, InterfaceInv, SuccessMeansEveryOutput,
           CopiedInterfaceAllOrNothing, NoChild, InterfaceSteps, OutputsFinal,
           FinalLink, LinkerStrips, WantedInterface, format
  <2>2. CASE format \notin {"elf", "tbd"}
    BY <1>3, <2>2, FailureKeepsIInv DEF ChooseFormat, ReadyToStart
  <2> QED
    BY <2>1, <2>2
<1>4. CASE Scan
  <2>1. child = NoChild
    BY <1>4 DEF Scan, ChildInv, ToolSteps
  <2> QED
    BY <1>4, <2>1
       DEF Scan, Goto, TypeOK, Steps, ToolSteps, ChildInv, StepInv,
           InterfaceInv, SuccessMeansEveryOutput, CopiedInterfaceAllOrNothing,
           NoChild, InterfaceSteps, OutputsFinal, FinalLink, LinkerStrips,
           WantedInterface, format
<1>5. CASE CopyOpen
  <2>1. child = NoChild
    BY <1>5 DEF CopyOpen, ChildInv, ToolSteps
  <2>2. /\ file' = [file EXCEPT !.iface = "torn"]
        /\ pc = "copy" /\ pc' = "copying"
    BY <1>5 DEF CopyOpen, Goto
  <2> QED
    BY <1>5, <2>1, <2>2
       DEF CopyOpen, Goto, TypeOK, Steps, ToolSteps, ChildInv, StepInv,
           InterfaceInv, SuccessMeansEveryOutput, CopiedInterfaceAllOrNothing,
           NoChild, InterfaceSteps, OutputsFinal, FinalLink, LinkerStrips,
           WantedInterface, format
<1> QED
  BY <1>1, <1>2, <1>3, <1>4, <1>5

\* The copy of a versioned library is complete when the wrapper exits with 0.
LEMMA CopyDoneKeepsIInv == IInv /\ CopyDone => IInv'
<1> SUFFICES ASSUME IInv, CopyDone PROVE IInv'
  OBVIOUS
<1> USE DEF IInv
<1>1. child = NoChild
  BY DEF CopyDone, ChildInv, ToolSteps
<1>2. /\ pc = "copying" /\ pc' = "done" /\ exit' = 0
      /\ file' = [file EXCEPT !.iface = "copy", !.source = file.link]
      /\ UNCHANGED <<request, missing, child, interrupts>>
  BY DEF CopyDone, Exit
<1>3. TypeOK'
  <2>1. file' = [link |-> file.link, dsym |-> file.dsym, iface |-> "copy",
                 source |-> file.link]
    BY <1>2 DEF TypeOK
  <2> QED
    BY <1>2, <2>1 DEF TypeOK, Steps
<1>4. ChildInv' /\ StepInv' /\ InterfaceInv'
  BY <1>1, <1>2
     DEF TypeOK, ChildInv, StepInv, InterfaceInv, NoChild, InterfaceSteps
<1>5. SuccessMeansEveryOutput' /\ CopiedInterfaceAllOrNothing'
  BY <1>2
     DEF TypeOK, StepInv, SuccessMeansEveryOutput, CopiedInterfaceAllOrNothing,
         InterfaceSteps, OutputsFinal, FinalLink, WantedInterface, format
<1> QED
  BY <1>3, <1>4, <1>5

\* A tool writes only the output of its own step.
LEMMA ToolKeepsIInv == IInv /\ (ToolWrites \/ ToolEnds) => IInv'
<1> SUFFICES ASSUME IInv, ToolWrites \/ ToolEnds PROVE IInv'
  OBVIOUS
<1> USE DEF IInv
<1>1. /\ pc \in ToolSteps /\ pc # "done" /\ pc' = pc
      /\ child = Running /\ child # NoChild /\ child # <<"exited", 0>>
      /\ UNCHANGED <<request, missing, interrupts, exit>>
  BY DEF ToolWrites, ToolEnds, ToolSucceeds, ToolFails, ChildInv, ToolSteps,
     NoChild, Running
<1>2. CASE ToolWrites
  BY <1>1, <1>2
     DEF ToolWrites, OutputOf, TypeOK, ChildInv, StepInv, InterfaceInv,
         SuccessMeansEveryOutput, CopiedInterfaceAllOrNothing, ToolSteps,
         InterfaceSteps, OutputsFinal, FinalLink, LinkerStrips,
         WantedInterface, format
<1>3. CASE ToolSucceeds
  <2>1. child' = <<"exited", 0>> /\ child' # NoChild /\ child' \in Ended
    BY <1>3 DEF ToolSucceeds, Ended, NoChild
  <2> QED
    BY <1>1, <1>3, <2>1
       DEF ToolSucceeds, OutputOf, ResultOf, TypeOK, ChildInv, StepInv,
           InterfaceInv, SuccessMeansEveryOutput, CopiedInterfaceAllOrNothing,
           ToolSteps, InterfaceSteps, OutputsFinal, FinalLink, LinkerStrips,
           WantedInterface, format
<1>4. CASE ToolFails
  <2>1. child' \in Ended /\ child' # NoChild /\ child' # <<"exited", 0>>
    BY <1>4, StatusFacts DEF ToolFails
  <2> QED
    BY <1>1, <1>4, <2>1
       DEF ToolFails, TypeOK, ChildInv, StepInv, InterfaceInv,
           SuccessMeansEveryOutput, CopiedInterfaceAllOrNothing, ToolSteps,
           InterfaceSteps, OutputsFinal, FinalLink, LinkerStrips,
           WantedInterface, format
<1> QED
  BY <1>2, <1>3, <1>4 DEF ToolEnds

\* Every step of the wrapper and of its tools keeps the inductive invariant.
LEMMA StepKeepsIInv == IInv /\ [Next]_vars => IInv'
<1> SUFFICES ASSUME IInv, [Next]_vars PROVE IInv'
  OBVIOUS
<1>1. CASE MissingEnv \/ ForkFails \/ ScratchFails \/ CopyOpenFails
  <2>1. pc # "done" /\ pc # "copying" /\ child = NoChild
    BY <1>1 DEF MissingEnv, ForkFails, ScratchFails, CopyOpenFails,
       ReadyToStart, NeededAt, ToolSteps, IInv, ChildInv
  <2>2. \E status \in {1, 127} : Exit(status)
    BY <1>1 DEF MissingEnv, ForkFails, ScratchFails, CopyOpenFails
  <2> QED
    BY <1>1, <2>1, <2>2, FailureKeepsIInv
       DEF MissingEnv, ForkFails, ScratchFails, CopyOpenFails
<1>2. CASE WaitFails
  <2>1. pc \in ToolSteps
    BY <1>2, StatusFacts DEF WaitFails, IInv, ChildInv
  <2> QED
    BY <1>2, <2>1, FailureKeepsIInv DEF WaitFails, ToolSteps
<1>3. CASE CopyFails
  <2>1. child = NoChild
    BY <1>3 DEF CopyFails, IInv, ChildInv, ToolSteps
  <2> QED
    BY <1>3, <2>1, FailureKeepsIInv DEF CopyFails
<1>4. CASE Done \/ UNCHANGED vars
  BY <1>4 DEF Done, vars, IInv, TypeOK, ChildInv, StepInv, InterfaceInv,
     SuccessMeansEveryOutput, CopiedInterfaceAllOrNothing, OutputsFinal,
     FinalLink, LinkerStrips, WantedInterface, format
<1> QED
  BY <1>1, <1>2, <1>3, <1>4, CollectKeepsIInv, MovesKeepIInv, CopyDoneKeepsIInv,
     ToolKeepsIInv DEF Next, Wrapper

------------------------------------------------------------------------------
\* The inductive invariant holds throughout.
THEOREM Invariance == Spec => []IInv
  BY InitIInv, StepKeepsIInv, PTL DEF Spec

\* Every variable keeps its type; in particular the exit status is a byte.
THEOREM TypeCorrect == Spec => []TypeOK
<1>1. IInv => TypeOK
  BY DEF IInv
<1> QED
  BY <1>1, Invariance, PTL

\* Whatever the action, the missing variables and the failures of the tools,
\* exit status 0 means that every output asked for is complete, in the order
\* main produces them.
THEOREM SuccessIsComplete == Spec => []SuccessMeansEveryOutput
<1>1. IInv => SuccessMeansEveryOutput
  BY DEF IInv
<1> QED
  BY <1>1, Invariance, PTL

\* No failure leaves a torn copy of a versioned library behind.
THEOREM CopyIsAllOrNothing == Spec => []CopiedInterfaceAllOrNothing
<1>1. IInv => CopiedInterfaceAllOrNothing
  BY DEF IInv
<1> QED
  BY <1>1, Invariance, PTL

\* When main has returned, the tools it started have ended.
THEOREM NoOrphan == Spec => []NoToolOutlivesWrapper
<1>1. IInv => NoToolOutlivesWrapper
  BY DEF IInv, ChildInv, NoToolOutlivesWrapper, ToolSteps, Running, NoChild
<1> QED
  BY <1>1, Invariance, PTL

\* The library loses its debug information only to a dSYM that has it.
THEOREM DsymBeforeStrip == Spec => StripAfterDsym
<1>1. IInv /\ [Next]_vars =>
        [request.dsym /\ file.link = "debug" /\ file'.link # "debug"
           => file.dsym = "full"]_vars
  <2> SUFFICES ASSUME IInv, Next, request.dsym, file.link = "debug",
                      file'.link # "debug"
               PROVE  file.dsym = "full"
    OBVIOUS
  <2>1. ToolWrites \/ ToolSucceeds
    BY DEF Next, Wrapper, MissingEnv, ForkFails, Fork, WaitFails, Collect,
       ChooseFormat, ScratchFails, Scan, CopyOpenFails, CopyOpen, CopyDone,
       CopyFails, WaitInterrupted, ToolEnds, ToolFails, Done, vars, IInv, TypeOK
  <2>2. pc \in {"link", "strip"}
    BY <2>1 DEF ToolWrites, ToolSucceeds, OutputOf, IInv, TypeOK, ChildInv,
       ToolSteps, Running, NoChild
  <2>3. pc = "strip"
    BY <2>1, <2>2 DEF ToolWrites, ToolSucceeds, IInv, StepInv
  <2> QED
    BY <2>3 DEF IInv, StepInv
<1> QED
  BY <1>1, Invariance, PTL DEF Spec, StripAfterDsym

\* The first tool that fails, or is killed, ends the run with a failure.
THEOREM FirstFailureDecides == Spec => FailureEndsTheRun
<1>1. IInv /\ [Next]_vars =>
        [(child \in Ended \ {<<"exited", 0>>}) /\ child' = NoChild
           => pc' = "done" /\ exit' # 0 /\ file' = file]_vars
  <2> SUFFICES ASSUME IInv, Next, child \in Ended, child # <<"exited", 0>>,
                      child' = NoChild
               PROVE  pc' = "done" /\ exit' # 0 /\ file' = file
    OBVIOUS
  <2>1. /\ child # NoChild /\ child # Running
        /\ StatusOf(child) # 0 /\ pc \in ToolSteps
    BY StatusFacts DEF IInv, ChildInv
  <2>2. WaitFails \/ Collect
    BY <2>1 DEF Next, Wrapper, MissingEnv, ForkFails, Fork, ReadyToStart,
       ChooseFormat, ScratchFails, Scan, CopyOpenFails, CopyOpen, CopyDone,
       CopyFails, WaitInterrupted, ToolWrites, ToolEnds, ToolSucceeds,
       ToolFails, Done, vars, ToolSteps
  <2> QED
    BY <2>1, <2>2 DEF WaitFails, Collect, Exit
<1> QED
  BY <1>1, Invariance, PTL DEF Spec, FailureEndsTheRun
==============================================================================
