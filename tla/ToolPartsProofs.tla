---------------------------- MODULE ToolPartsProofs ----------------------------
(***************************************************************************)
(* What the run of ToolParts checks, for every value of the constants: any  *)
(* width of size_t and sizes of chunks and pieces, any contents of a header *)
(* and number of attempts, any lists of configure checks, pids and kills,   *)
(* texts of any length.                                                     *)
(***************************************************************************)
EXTENDS ToolParts, SequencesExt, SequenceTheorems, FiniteSetTheorems,
        WellFoundedInduction, TLAPS

------------------------------------------------------------------------------
(* A header check.                                                          *)

\* The stamp is there from the step after it is touched; status 0 is clang's
\* word on the header, which nobody edits meanwhile.
StampInv == parserPc \in {"close", "exec", "clang"} => stamp = TRUE
StatusInv == parserPc = "ended" /\ exit = 0 => stamp = TRUE /\ source \in Good

HeaderIInv == Header!TypeOK /\ StampInv /\ StatusInv /\ Header!AcceptedHeadersParse

LEMMA HeaderInitIInv == ASSUME Header!Init PROVE HeaderIInv
BY BoundsAssumption
   DEF Header!Init, HeaderIInv, Header!TypeOK, StampInv, StatusInv, Header!AcceptedHeadersParse

LEMMA AttemptKeepsIInv ==
  ASSUME HeaderIInv, Header!Attempt PROVE HeaderIInv'
<1>1. /\ parserPc' = "main" /\ stamp' = FALSE /\ attempts' = attempts + 1
      /\ attempts < MaxAttempts /\ UNCHANGED <<env, source, exit, accepted>>
  BY DEF Header!Attempt
<1>2. attempts' \in 0 .. MaxAttempts
  BY <1>1, BoundsAssumption DEF HeaderIInv, Header!TypeOK
<1>3. Header!TypeOK'
  BY <1>1, <1>2 DEF HeaderIInv, Header!TypeOK
<1> QED
  BY <1>1, <1>3 DEF HeaderIInv, StampInv, StatusInv, Header!AcceptedHeadersParse

LEMMA ParserKeepsIInv ==
  ASSUME HeaderIInv, Header!Parser PROVE HeaderIInv'
<1>1. /\ UNCHANGED <<env, source, accepted, attempts>>
      /\ exit' \in {exit, 0, 1, 2}
      /\ parserPc \in {"main", "close", "exec", "clang"}
      /\ parserPc' \in {"close", "exec", "clang", "ended"}
      /\ stamp' \in {stamp, TRUE}
  BY DEF Header!Parser, Header!TouchFails, Header!Touch, Header!CloseFails, Header!Close,
     Header!ExecFails, Header!Exec, Header!Clang, Header!Exit, Header!Goto
<1>2. Header!TypeOK'
  <2>1. stamp' \in BOOLEAN
    BY <1>1, Zenon DEF HeaderIInv, Header!TypeOK
  <2> QED
    BY <1>1, <2>1 DEF HeaderIInv, Header!TypeOK
<1>3. StampInv'
  BY DEF HeaderIInv, StampInv, Header!Parser, Header!TouchFails, Header!Touch, Header!CloseFails,
     Header!Close, Header!ExecFails, Header!Exec, Header!Clang, Header!Exit, Header!Goto
<1>4. StatusInv'
  BY DEF HeaderIInv, StampInv, StatusInv, Header!Parser, Header!TouchFails, Header!Touch,
     Header!CloseFails, Header!Close, Header!ExecFails, Header!Exec, Header!Clang,
     Header!Exit, Header!Goto
<1> QED
  BY <1>1, <1>2, <1>3, <1>4 DEF HeaderIInv, Header!AcceptedHeadersParse

LEMMA HeaderNextIInv ==
  ASSUME HeaderIInv, Header!Next PROVE HeaderIInv'
<1> USE DEF HeaderIInv, Header!TypeOK, StampInv, StatusInv, Header!AcceptedHeadersParse
<1>1. CASE Header!Attempt
  BY <1>1, AttemptKeepsIInv
<1>2. CASE Header!Accept
  BY <1>2 DEF Header!Accept
<1>3. CASE Header!Edit
  BY <1>3 DEF Header!Edit
<1>4. CASE Header!Interrupt
  BY <1>4 DEF Header!Interrupt
<1>5. CASE Header!Parser
  BY <1>5, ParserKeepsIInv
<1>6. CASE UNCHANGED parsings
  BY <1>6 DEF parsings
<1> QED
  BY <1>1, <1>2, <1>3, <1>4, <1>5, <1>6 DEF Header!Next, Header!vars, parsings

------------------------------------------------------------------------------
(* A redirected spawn.                                                      *)

\* What the child of the call is to have.
Demanded ==
  [s \in Spawn!Std |-> IF Spawn!request[s] = "own" THEN Spawn!Start[s] ELSE Spawn!request[s]]

\* The copy of stdout that the two tools make which redirect it alone.
OutCopied == [Spawn!NoCopies EXCEPT !.out = "console"]

\* An earlier call of the validator could not point a descriptor back.
Astray == program = "static_library_validator" /\ call = 2 /\ "restore" \in faults

\* The descriptors before a child is spawned, and after it where the tool does
\* not look at how pointing them back went.
StdInv ==
  /\ spawnPc \in {"save", "redirect"} => std = Spawn!Start \/ Astray
  /\ spawnPc = "spawn" => std = Demanded
  /\ spawnPc \in {"wait", "restore"} =>
       IF program = "link_wrapper" THEN std = Demanded
       ELSE std = Spawn!Start \/ "restore" \in faults

\* The copies that are there while a call is under way.
SavedInv ==
  /\ spawnPc = "save" => saved = Spawn!NoCopies
  /\ spawnPc \in {"redirect", "spawn"} =>
       IF program = "static_library_validator" THEN saved = Spawn!Start \/ Astray
       ELSE saved = OutCopied
  /\ spawnPc \in {"wait", "restore"} =>
       saved = IF program = "link_wrapper" THEN OutCopied ELSE Spawn!NoCopies

\* There is no child before the spawn; the link wrapper alone waits before it
\* points its descriptors back.
ChildInv ==
  /\ spawnPc \in {"save", "redirect", "spawn"} => child = "none"
  /\ child # "none" => given = Demanded
  /\ spawnPc = "restore" => program = "link_wrapper"

SpawnIInv ==
  /\ Spawn!TypeOK /\ StdInv /\ SavedInv /\ ChildInv
  /\ Spawn!SuccessMeansChildEnded /\ Spawn!CopiesAreClosed /\ Spawn!StdIsPointedBack

\* The calls, and what their children are to have.
LEMMA CallFacts ==
  ASSUME Spawn!TypeOK
  PROVE  /\ Len(Spawn!Calls(program)) = IF program = "static_library_validator" THEN 2 ELSE 1
         /\ call \in {1, 2} /\ (call = 2 => program = "static_library_validator")
         /\ Spawn!request = IF call = 1 THEN [in |-> "own", out |-> "nm"]
                            ELSE [in |-> "dup", out |-> "demangled"]
         /\ Demanded = IF call = 1 THEN [in |-> "keyboard", out |-> "nm"]
                       ELSE [in |-> "dup", out |-> "demangled"]
<1>1. Len(Spawn!Calls(program)) = IF program = "static_library_validator" THEN 2 ELSE 1
  BY DEF Spawn!Calls
<1>2. call \in {1, 2} /\ (call = 2 => program = "static_library_validator")
  BY <1>1 DEF Spawn!TypeOK
<1>3. Spawn!request = IF call = 1 THEN [in |-> "own", out |-> "nm"]
                      ELSE [in |-> "dup", out |-> "demangled"]
  BY <1>2 DEF Spawn!request, Spawn!Calls
<1>4. Demanded = IF call = 1 THEN [in |-> "keyboard", out |-> "nm"]
                 ELSE [in |-> "dup", out |-> "demangled"]
  BY <1>2, <1>3 DEF Demanded, Spawn!Start, Spawn!Std
<1> QED
  BY <1>1, <1>2, <1>3, <1>4

\* While a call is under way its demands do not change.
LEMMA SameDemands ==
  ASSUME UNCHANGED <<program, call>>
  PROVE  Demanded' = Demanded /\ Spawn!request' = Spawn!request
BY DEF Demanded, Spawn!request, Spawn!Calls, Spawn!Start, Spawn!Std

LEMMA SpawnInitIInv == ASSUME Spawn!Init PROVE SpawnIInv
<1>1. Spawn!TypeOK
  <2>1. /\ Spawn!Start \in [Spawn!Std -> Spawn!Handles]
        /\ Spawn!NoCopies \in [Spawn!Std -> (Spawn!Handles \ {"closed"}) \cup {"none"}]
    BY DEF Spawn!Std, Spawn!Handles, Spawn!Start, Spawn!NoCopies
  <2>2. 1 \in 1 .. Len(Spawn!Calls(program))
    BY DEF Spawn!Calls
  <2> QED
    BY <2>1, <2>2 DEF Spawn!Init, Spawn!TypeOK, Spawn!Steps
<1> QED
  BY <1>1 DEF Spawn!Init, SpawnIInv, StdInv, SavedInv, ChildInv, Spawn!SuccessMeansChildEnded,
     Spawn!CopiesAreClosed, Spawn!StdIsPointedBack

\* The tables of descriptors that can be are tables of descriptors.
LEMMA PointBackFacts ==
  ASSUME Spawn!TypeOK, NEW t \in [Spawn!Std -> Spawn!Handles], Spawn!PointBack(t)
  PROVE  /\ std' \in [Spawn!Std -> Spawn!Handles] /\ saved' = Spawn!NoCopies
         /\ faults' \in {faults, faults \cup {"restore"}}
         /\ "restore" \notin faults' =>
              std' = [s \in Spawn!Std |-> IF saved[s] = "none" THEN t[s] ELSE saved[s]]
BY DEF Spawn!PointBack, Spawn!PointedBack

\* A call that returns without success.
LEMMA FailureKeepsIInv ==
  ASSUME SpawnIInv, Spawn!Return(FALSE), std' \in [Spawn!Std -> Spawn!Handles],
         faults' \subseteq {"redirect", "restore", "encode"}, UNCHANGED <<child, given>>,
         \/ saved' = Spawn!NoCopies
         \/ saved' = saved /\ program = "static_library_validator" /\ "encode" \in faults'
  PROVE  SpawnIInv'
<1>1. spawnPc' = "returned" /\ success' = FALSE /\ UNCHANGED <<program, call>>
  BY DEF Spawn!Return
<1>2. Demanded' = Demanded
  BY <1>1, SameDemands
<1>3. Spawn!TypeOK'
  <2>1. Spawn!NoCopies \in [Spawn!Std -> (Spawn!Handles \ {"closed"}) \cup {"none"}]
    BY DEF Spawn!Std, Spawn!NoCopies
  <2>2. Spawn!TypeOK
    BY DEF SpawnIInv
  <2> QED
    BY <1>1, <2>1, <2>2 DEF Spawn!TypeOK, Spawn!Steps
<1>4. ChildInv'
  BY <1>1, <1>2 DEF SpawnIInv, ChildInv
<1> QED
  BY <1>1, <1>3, <1>4 DEF SpawnIInv, StdInv, SavedInv, Spawn!SuccessMeansChildEnded,
     Spawn!CopiesAreClosed, Spawn!StdIsPointedBack

\* What a failing _dup2 leaves is a table of descriptors.
LEMMA BrokenTables ==
  ASSUME NEW t \in [Spawn!Std -> Spawn!Handles], NEW s \in Spawn!Std
  PROVE  Spawn!Broken(t, s) \subseteq [Spawn!Std -> Spawn!Handles]
BY DEF Spawn!Broken, Spawn!Handles

\* A step on to the next one; what it makes of the descriptors and the copies
\* is told by the parts of the invariant.
LEMMA StepKeepsIInv ==
  ASSUME SpawnIInv, NEW step \in {"redirect", "spawn", "wait", "restore"}, Spawn!Goto(step),
         std' \in [Spawn!Std -> Spawn!Handles],
         saved' \in [Spawn!Std -> (Spawn!Handles \ {"closed"}) \cup {"none"}],
         faults' \subseteq {"redirect", "restore", "encode"},
         StdInv', SavedInv',
         \/ UNCHANGED <<child, given>> /\ (step \in {"redirect", "spawn"} => child = "none")
         \/ child' = "running" /\ given' = Demanded /\ step = "wait",
         step = "restore" => program = "link_wrapper"
  PROVE  SpawnIInv'
<1>1. spawnPc' = step /\ UNCHANGED <<program, call, success>>
  BY DEF Spawn!Goto
<1>2. Demanded' = Demanded
  BY <1>1, SameDemands
<1>3. Spawn!TypeOK
  BY DEF SpawnIInv
<1>4. given' \in [Spawn!Std -> Spawn!Handles] /\ child' \in {"none", "running", "ok", "failed"}
  <2>1. Demanded \in [Spawn!Std -> Spawn!Handles]
    BY <1>3, CallFacts DEF Demanded, Spawn!Std, Spawn!Handles, Spawn!Files
  <2> QED
    BY <1>3, <2>1 DEF Spawn!TypeOK
<1>5. Spawn!TypeOK'
  BY <1>1, <1>3, <1>4 DEF Spawn!TypeOK, Spawn!Steps
<1>6. ChildInv'
  BY <1>1, <1>2, <1>3 DEF SpawnIInv, ChildInv
<1> QED
  BY <1>1, <1>5, <1>6 DEF SpawnIInv, Spawn!SuccessMeansChildEnded, Spawn!CopiesAreClosed,
     Spawn!StdIsPointedBack

------------------------------------------------------------------------------
(* The link wrapper.                                                        *)

LEMMA LinkSaveKeepsIInv == ASSUME SpawnIInv, Spawn!LinkSave PROVE SpawnIInv'
<1>1. Spawn!TypeOK /\ program = "link_wrapper" /\ UNCHANGED <<std, child, given, faults>>
      /\ saved = Spawn!NoCopies /\ child = "none" /\ std = Spawn!Start
  BY DEF SpawnIInv, Spawn!LinkSave, SavedInv, ChildInv, StdInv, Astray
<1>2. CASE Spawn!Return(FALSE) /\ UNCHANGED saved
  BY <1>1, <1>2, FailureKeepsIInv DEF Spawn!TypeOK
<1>3. CASE saved' = [saved EXCEPT !.out = std.out] /\ Spawn!Goto("redirect")
  <2>1. saved' = OutCopied /\ spawnPc' = "redirect" /\ program' = program
    BY <1>1, <1>3 DEF OutCopied, Spawn!Goto, Spawn!Start
  <2>2. saved' \in [Spawn!Std -> (Spawn!Handles \ {"closed"}) \cup {"none"}]
    BY <2>1 DEF OutCopied, Spawn!NoCopies, Spawn!Std, Spawn!Handles
  <2>3. StdInv' /\ SavedInv'
    BY <1>1, <2>1 DEF StdInv, SavedInv
  <2> QED
    BY <1>1, <1>3, <2>2, <2>3, StepKeepsIInv DEF Spawn!TypeOK
<1> QED
  BY <1>2, <1>3 DEF Spawn!LinkSave

LEMMA LinkRedirectKeepsIInv == ASSUME SpawnIInv, Spawn!LinkRedirect PROVE SpawnIInv'
<1>1. Spawn!TypeOK /\ program = "link_wrapper" /\ UNCHANGED <<child, given>>
      /\ saved = OutCopied /\ child = "none" /\ std = Spawn!Start
  BY DEF SpawnIInv, Spawn!LinkRedirect, SavedInv, ChildInv, StdInv, Astray
<1>2. CASE /\ std' \in Spawn!Broken(std, "out") /\ saved' = Spawn!NoCopies
           /\ faults' = faults \cup {"redirect"} /\ Spawn!Return(FALSE)
  <2>1. std' \in [Spawn!Std -> Spawn!Handles]
    BY <1>1, <1>2, BrokenTables DEF Spawn!TypeOK, Spawn!Std
  <2> QED
    BY <1>1, <1>2, <2>1, FailureKeepsIInv DEF Spawn!TypeOK
<1>3. CASE /\ std' = [std EXCEPT !.out = Spawn!request.out] /\ Spawn!Goto("spawn")
           /\ UNCHANGED <<saved, faults>>
  <2>1. spawnPc' = "spawn" /\ UNCHANGED <<program, call>>
    BY <1>3 DEF Spawn!Goto
  <2>2. std' = Demanded
    BY <1>1, <1>3, CallFacts DEF Spawn!Start
  <2>3. std' \in [Spawn!Std -> Spawn!Handles]
    BY <1>1, <2>2, CallFacts DEF Spawn!Std, Spawn!Handles, Spawn!Files
  <2>4. StdInv' /\ SavedInv'
    BY <1>1, <1>3, <2>1, <2>2, SameDemands DEF StdInv, SavedInv, OutCopied
  <2> QED
    BY <1>1, <1>3, <2>3, <2>4, StepKeepsIInv DEF Spawn!TypeOK
<1> QED
  BY <1>2, <1>3 DEF Spawn!LinkRedirect

LEMMA LinkSpawnKeepsIInv == ASSUME SpawnIInv, Spawn!LinkSpawn PROVE SpawnIInv'
<1>1. /\ Spawn!TypeOK /\ program = "link_wrapper" /\ UNCHANGED <<std, saved, faults>>
      /\ saved = OutCopied /\ child = "none" /\ std = Demanded
  BY DEF SpawnIInv, Spawn!LinkSpawn, SavedInv, ChildInv, StdInv
<1>2. ASSUME NEW step \in {"wait", "restore"}, Spawn!Goto(step)
      PROVE  StdInv' /\ SavedInv'
  <2>1. spawnPc' = step /\ UNCHANGED <<program, call>>
    BY <1>2 DEF Spawn!Goto
  <2> QED
    BY <1>1, <2>1, SameDemands DEF StdInv, SavedInv, OutCopied
<1>3. CASE Spawn!Goto("restore") /\ UNCHANGED <<child, given>>
  BY <1>1, <1>2, <1>3, StepKeepsIInv DEF Spawn!TypeOK
<1>4. CASE child' = "running" /\ given' = std /\ Spawn!Goto("wait")
  BY <1>1, <1>2, <1>4, StepKeepsIInv DEF Spawn!TypeOK
<1> QED
  BY <1>3, <1>4 DEF Spawn!LinkSpawn

LEMMA LinkWaitKeepsIInv == ASSUME SpawnIInv, Spawn!LinkWait PROVE SpawnIInv'
<1>1. /\ Spawn!TypeOK /\ program = "link_wrapper" /\ Spawn!Goto("restore")
      /\ UNCHANGED <<std, saved, child, given, faults>>
      /\ saved = OutCopied /\ std = Demanded
  BY DEF SpawnIInv, Spawn!LinkWait, SavedInv, StdInv
<1>2. spawnPc' = "restore" /\ UNCHANGED <<program, call>>
  BY <1>1 DEF Spawn!Goto
<1>3. StdInv' /\ SavedInv'
  BY <1>1, <1>2, SameDemands DEF StdInv, SavedInv, OutCopied
<1> QED
  BY <1>1, <1>3, StepKeepsIInv DEF Spawn!TypeOK

\* A call that returns without copies, with success only if its child has
\* ended well and, unless pointing back was in vain, with the descriptors it
\* was called with.
LEMMA ReturnKeepsIInv ==
  ASSUME SpawnIInv, NEW r \in BOOLEAN, Spawn!Return(r), std' \in [Spawn!Std -> Spawn!Handles],
         faults' \subseteq {"redirect", "restore", "encode"}, UNCHANGED <<child, given>>,
         saved' = Spawn!NoCopies,
         r = TRUE => /\ child = "ok"
                     /\ \/ std' = Spawn!Start
                        \/ "restore" \in faults' /\ program # "link_wrapper"
  PROVE  SpawnIInv'
<1>1. spawnPc' = "returned" /\ success' = r /\ UNCHANGED <<program, call>>
  BY DEF Spawn!Return
<1>2. Demanded' = Demanded
  BY <1>1, SameDemands
<1>3. Spawn!TypeOK'
  <2>1. Spawn!NoCopies \in [Spawn!Std -> (Spawn!Handles \ {"closed"}) \cup {"none"}]
    BY DEF Spawn!Std, Spawn!NoCopies
  <2>2. Spawn!TypeOK
    BY DEF SpawnIInv
  <2>3. success' \in BOOLEAN
    BY <1>1, Zenon
  <2> QED
    BY <1>1, <2>1, <2>2, <2>3 DEF Spawn!TypeOK, Spawn!Steps
<1>4. ChildInv'
  BY <1>1, <1>2 DEF SpawnIInv, ChildInv
<1>5. Spawn!SuccessMeansChildEnded' /\ Spawn!StdIsPointedBack'
  BY <1>1 DEF Spawn!SuccessMeansChildEnded, Spawn!StdIsPointedBack
<1> QED
  BY <1>1, <1>3, <1>4, <1>5 DEF SpawnIInv, StdInv, SavedInv, Spawn!CopiesAreClosed

LEMMA LinkRestoreKeepsIInv == ASSUME SpawnIInv, Spawn!LinkRestore PROVE SpawnIInv'
<1>1. /\ Spawn!TypeOK /\ program = "link_wrapper" /\ Spawn!PointBack(std)
      /\ UNCHANGED <<child, given>> /\ saved = OutCopied /\ std = Demanded
      /\ Spawn!Return(child = "ok" /\ std'.out = saved.out)
  BY DEF SpawnIInv, Spawn!LinkRestore, SavedInv, StdInv
<1>2. /\ std' \in [Spawn!Std -> Spawn!Handles] /\ saved' = Spawn!NoCopies
      /\ faults' \in {faults, faults \cup {"restore"}}
  BY <1>1, PointBackFacts DEF Spawn!TypeOK
<1>3. std'.in = "keyboard"
  <2>1. std' \in Spawn!PointedBack(std)
    BY <1>1 DEF Spawn!PointBack
  <2>2. std'["in"] \in IF saved["in"] = "none" THEN {std["in"]}
                       ELSE {saved["in"], std["in"], "closed"}
    BY <2>1 DEF Spawn!PointedBack, Spawn!Std
  <2>3. saved["in"] = "none" /\ std["in"] = "keyboard"
    BY <1>1, CallFacts DEF OutCopied, Spawn!NoCopies
  <2> QED
    BY <2>2, <2>3
<1>4. std'.out = saved.out => std' = Spawn!Start
  BY <1>1, <1>2, <1>3 DEF OutCopied, Spawn!NoCopies, Spawn!Start, Spawn!Std
<1> DEFINE r == child = "ok" /\ std'.out = saved.out
<1>5. r \in BOOLEAN /\ Spawn!Return(r)
  BY <1>1
<1>6. r = TRUE => child = "ok" /\ std' = Spawn!Start
  BY <1>4
<1>7. faults' \subseteq {"redirect", "restore", "encode"}
  BY <1>1, <1>2 DEF Spawn!TypeOK
<1> HIDE DEF r
<1> QED
  BY <1>1, <1>2, <1>5, <1>6, <1>7, ReturnKeepsIInv

------------------------------------------------------------------------------
(* The .def file generator.                                                 *)

\* Pointing back makes the descriptors the tool's own again, or is in vain.
LEMMA PointedBackOrFault ==
  ASSUME Spawn!TypeOK, NEW t \in [Spawn!Std -> Spawn!Handles], Spawn!PointBack(t),
         \/ saved = Spawn!Start
         \/ saved = OutCopied /\ t["in"] = "keyboard"
         \/ "restore" \in faults
  PROVE  std' = Spawn!Start \/ "restore" \in faults'
<1> SUFFICES ASSUME "restore" \notin faults' PROVE std' = Spawn!Start
  OBVIOUS
<1>1. std' = [s \in Spawn!Std |-> IF saved[s] = "none" THEN t[s] ELSE saved[s]]
  BY PointBackFacts
<1>2. "restore" \notin faults
  BY PointBackFacts
<1>3. CASE saved = Spawn!Start
  BY <1>1, <1>3 DEF Spawn!Start, Spawn!Std
<1>4. CASE saved = OutCopied /\ t["in"] = "keyboard"
  BY <1>1, <1>4 DEF Spawn!Start, Spawn!Std, OutCopied, Spawn!NoCopies
<1> QED
  BY <1>2, <1>3, <1>4

LEMMA DefRedirectKeepsIInv == ASSUME SpawnIInv, Spawn!DefRedirect PROVE SpawnIInv'
<1>1. /\ Spawn!TypeOK /\ program = "def_file_generator" /\ UNCHANGED <<child, given>>
      /\ saved = Spawn!NoCopies /\ child = "none" /\ std = Spawn!Start
  BY DEF SpawnIInv, Spawn!DefRedirect, SavedInv, ChildInv, StdInv, Astray
<1>2. CASE /\ std' \in Spawn!Broken(std, "out") /\ UNCHANGED saved
           /\ faults' = faults \cup {"redirect"} /\ Spawn!Return(FALSE)
  <2>1. std' \in [Spawn!Std -> Spawn!Handles]
    BY <1>1, <1>2, BrokenTables DEF Spawn!TypeOK, Spawn!Std
  <2> QED
    BY <1>1, <1>2, <2>1, FailureKeepsIInv DEF Spawn!TypeOK
<1>3. CASE /\ saved' = [saved EXCEPT !.out = std.out]
           /\ std' = [std EXCEPT !.out = Spawn!request.out] /\ Spawn!Goto("spawn")
           /\ UNCHANGED faults
  <2>1. spawnPc' = "spawn" /\ UNCHANGED <<program, call>>
    BY <1>3 DEF Spawn!Goto
  <2>2. std' = Demanded /\ saved' = OutCopied
    BY <1>1, <1>3, CallFacts DEF Spawn!Start, OutCopied
  <2>3. std' \in [Spawn!Std -> Spawn!Handles]
    BY <1>1, <2>2, CallFacts DEF Spawn!Std, Spawn!Handles, Spawn!Files
  <2>4. saved' \in [Spawn!Std -> (Spawn!Handles \ {"closed"}) \cup {"none"}]
    BY <2>2 DEF OutCopied, Spawn!NoCopies, Spawn!Std, Spawn!Handles
  <2>5. StdInv' /\ SavedInv'
    BY <1>1, <1>3, <2>1, <2>2, SameDemands DEF StdInv, SavedInv, OutCopied
  <2> QED
    BY <1>1, <1>3, <2>3, <2>4, <2>5, StepKeepsIInv DEF Spawn!TypeOK
<1> QED
  BY <1>2, <1>3 DEF Spawn!DefRedirect

\* What def_file_generator and the validator do alike: the child is spawned,
\* or not, and the descriptors pointed back.
LEMMA SpawnAndPointBackKeepsIInv ==
  ASSUME SpawnIInv, program # "link_wrapper", spawnPc = "spawn", Spawn!PointBack(std),
         \/ Spawn!Return(FALSE) /\ UNCHANGED <<child, given>>
         \/ child' = "running" /\ given' = std /\ Spawn!Goto("wait")
  PROVE  SpawnIInv'
<1>1. Spawn!TypeOK /\ std = Demanded
  BY DEF SpawnIInv, StdInv
<1>2. /\ std' \in [Spawn!Std -> Spawn!Handles] /\ saved' = Spawn!NoCopies
      /\ faults' \in {faults, faults \cup {"restore"}}
      /\ faults' \subseteq {"redirect", "restore", "encode"}
  BY <1>1, PointBackFacts DEF Spawn!TypeOK
<1>3. saved' \in [Spawn!Std -> (Spawn!Handles \ {"closed"}) \cup {"none"}]
  BY <1>2 DEF Spawn!NoCopies, Spawn!Std
<1>4. CASE Spawn!Return(FALSE) /\ UNCHANGED <<child, given>>
  BY <1>2, <1>4, FailureKeepsIInv
<1>5. CASE child' = "running" /\ given' = std /\ Spawn!Goto("wait")
  <2>1. spawnPc' = "wait" /\ UNCHANGED <<program, call>>
    BY <1>5 DEF Spawn!Goto
  <2>2. std' = Spawn!Start \/ "restore" \in faults'
    <3>1. std["in"] = "keyboard" \/ program = "static_library_validator"
      BY <1>1, CallFacts
    <3>2. \/ saved = Spawn!Start
          \/ saved = OutCopied /\ std["in"] = "keyboard"
          \/ "restore" \in faults
      BY <3>1 DEF SpawnIInv, SavedInv, Astray
    <3> QED
      BY <1>1, <3>2, PointedBackOrFault DEF Spawn!TypeOK
  <2>3. StdInv' /\ SavedInv'
    BY <1>2, <2>1, <2>2 DEF StdInv, SavedInv
  <2> QED
    BY <1>1, <1>2, <1>3, <1>5, <2>3, StepKeepsIInv
<1> QED
  BY <1>4, <1>5

LEMMA DefEncodeFailsKeepsIInv == ASSUME SpawnIInv, Spawn!DefEncodeFails PROVE SpawnIInv'
BY SpawnAndPointBackKeepsIInv DEF Spawn!DefEncodeFails

LEMMA DefSpawnKeepsIInv == ASSUME SpawnIInv, Spawn!DefSpawn PROVE SpawnIInv'
BY SpawnAndPointBackKeepsIInv DEF Spawn!DefSpawn

\* The wait of both: it fails, or tells the child's end.
LEMMA WaitKeepsIInv ==
  ASSUME SpawnIInv, program # "link_wrapper", spawnPc = "wait",
         \/ Spawn!Return(FALSE)
         \/ child \in {"ok", "failed"} /\ Spawn!Return(child = "ok"),
         UNCHANGED <<std, saved, child, given, faults>>
  PROVE  SpawnIInv'
<1>1. /\ Spawn!TypeOK /\ saved = Spawn!NoCopies
      /\ std = Spawn!Start \/ "restore" \in faults
  BY DEF SpawnIInv, SavedInv, StdInv
<1>2. CASE Spawn!Return(FALSE)
  BY <1>1, <1>2, FailureKeepsIInv DEF Spawn!TypeOK
<1>3. CASE Spawn!Return(child = "ok")
  <2> DEFINE r == child = "ok"
  <2>1. r \in BOOLEAN /\ Spawn!Return(r) /\ (r = TRUE => child = "ok")
    BY <1>3
  <2> HIDE DEF r
  <2> QED
    BY <1>1, <2>1, ReturnKeepsIInv DEF Spawn!TypeOK
<1> QED
  BY <1>2, <1>3

LEMMA DefWaitKeepsIInv == ASSUME SpawnIInv, Spawn!DefWait PROVE SpawnIInv'
<1>1. /\ program # "link_wrapper" /\ spawnPc = "wait"
      /\ UNCHANGED <<std, saved, child, given, faults>>
  BY DEF Spawn!DefWait
<1>2. \/ Spawn!Return(FALSE)
      \/ child \in {"ok", "failed"} /\ Spawn!Return(child = "ok")
  BY Zenon DEF Spawn!DefWait
<1> QED
  BY <1>1, <1>2, WaitKeepsIInv

------------------------------------------------------------------------------
(* The static library validator.                                            *)

LEMMA ValidatorSaveKeepsIInv == ASSUME SpawnIInv, Spawn!ValidatorSave PROVE SpawnIInv'
<1>1. /\ Spawn!TypeOK /\ program = "static_library_validator"
      /\ UNCHANGED <<std, child, given, faults>>
      /\ saved = Spawn!NoCopies /\ child = "none" /\ (std = Spawn!Start \/ Astray)
  BY DEF SpawnIInv, Spawn!ValidatorSave, SavedInv, ChildInv, StdInv
<1>2. CASE Spawn!Return(FALSE) /\ UNCHANGED saved
  BY <1>1, <1>2, FailureKeepsIInv DEF Spawn!TypeOK
<1>3. CASE /\ \A s \in Spawn!Std : std[s] # "closed"
           /\ saved' = std /\ Spawn!Goto("redirect")
  <2>1. saved' \in [Spawn!Std -> (Spawn!Handles \ {"closed"}) \cup {"none"}]
    BY <1>1, <1>3 DEF Spawn!TypeOK
  <2>2. spawnPc' = "redirect" /\ UNCHANGED <<program, call>>
    BY <1>3 DEF Spawn!Goto
  <2>3. StdInv' /\ SavedInv'
    BY <1>1, <1>3, <2>2 DEF StdInv, SavedInv, Astray
  <2> QED
    BY <1>1, <1>3, <2>1, <2>3, StepKeepsIInv DEF Spawn!TypeOK
<1> QED
  BY <1>2, <1>3 DEF Spawn!ValidatorSave

LEMMA ValidatorRedirectKeepsIInv == ASSUME SpawnIInv, Spawn!ValidatorRedirect PROVE SpawnIInv'
<1>1. /\ Spawn!TypeOK /\ program = "static_library_validator" /\ UNCHANGED <<child, given>>
      /\ child = "none" /\ (std = Spawn!Start \/ Astray) /\ (saved = Spawn!Start \/ Astray)
  BY DEF SpawnIInv, Spawn!ValidatorRedirect, SavedInv, ChildInv, StdInv
<1>2. Spawn!RedirectedIn \in [Spawn!Std -> Spawn!Handles]
  BY <1>1, CallFacts DEF Spawn!RedirectedIn, Spawn!TypeOK, Spawn!Handles, Spawn!Files
<1>3. ASSUME NEW t \in (IF Spawn!request.in = "own" THEN {} ELSE Spawn!Broken(std, "in"))
                         \cup Spawn!Broken(Spawn!RedirectedIn, "out"),
             Spawn!PointBack(t), Spawn!Return(FALSE)
      PROVE  SpawnIInv'
  <2>1. t \in [Spawn!Std -> Spawn!Handles]
    BY <1>1, <1>2, <1>3, BrokenTables DEF Spawn!TypeOK, Spawn!Std
  <2>2. /\ std' \in [Spawn!Std -> Spawn!Handles] /\ saved' = Spawn!NoCopies
        /\ faults' \in {faults, faults \cup {"restore"}}
    BY <1>1, <1>3, <2>1, PointBackFacts
  <2> QED
    BY <1>1, <1>3, <2>2, FailureKeepsIInv DEF Spawn!TypeOK
<1>4. CASE /\ std' = [Spawn!RedirectedIn EXCEPT !.out = Spawn!request.out]
           /\ Spawn!Goto("spawn") /\ UNCHANGED <<saved, faults>>
  <2>1. spawnPc' = "spawn" /\ UNCHANGED <<program, call>>
    BY <1>4 DEF Spawn!Goto
  <2>2. std' = Demanded
    <3>1. CASE call = 1
      BY <1>1, <1>4, <3>1, CallFacts DEF Spawn!Start, Spawn!RedirectedIn, Astray
    <3>2. CASE call = 2
      <4>1. std' = [[std EXCEPT !["in"] = "dup"] EXCEPT !["out"] = "demangled"]
        BY <1>1, <1>4, <3>2, CallFacts DEF Spawn!RedirectedIn
      <4>2. Demanded = [in |-> "dup", out |-> "demangled"]
        BY <1>1, <3>2, CallFacts
      <4>3. std \in [{"in", "out"} -> Spawn!Handles]
        BY <1>1 DEF Spawn!TypeOK, Spawn!Std
      <4>4. /\ DOMAIN std' = {"in", "out"} /\ std'["in"] = "dup" /\ std'["out"] = "demangled"
            /\ std' = [s \in {"in", "out"} |-> std'[s]]
        BY <4>1, <4>3
      <4> QED
        BY <4>2, <4>4
    <3> QED
      BY <1>1, <3>1, <3>2, CallFacts
  <2>3. std' \in [Spawn!Std -> Spawn!Handles]
    BY <1>1, <2>2, CallFacts DEF Spawn!Std, Spawn!Handles, Spawn!Files
  <2>4. StdInv' /\ SavedInv'
    BY <1>1, <1>4, <2>1, <2>2, SameDemands DEF StdInv, SavedInv, Astray
  <2> QED
    BY <1>1, <1>4, <2>3, <2>4, StepKeepsIInv DEF Spawn!TypeOK
<1> QED
  BY <1>3, <1>4 DEF Spawn!ValidatorRedirect

LEMMA ValidatorEncodeFailsKeepsIInv ==
  ASSUME SpawnIInv, Spawn!ValidatorEncodeFails PROVE SpawnIInv'
<1>1. Spawn!TypeOK
  BY DEF SpawnIInv
<1> QED
  BY <1>1, FailureKeepsIInv DEF Spawn!ValidatorEncodeFails, Spawn!TypeOK

LEMMA ValidatorSpawnKeepsIInv == ASSUME SpawnIInv, Spawn!ValidatorSpawn PROVE SpawnIInv'
BY SpawnAndPointBackKeepsIInv DEF Spawn!ValidatorSpawn

LEMMA ValidatorWaitKeepsIInv == ASSUME SpawnIInv, Spawn!ValidatorWait PROVE SpawnIInv'
<1>1. /\ program # "link_wrapper" /\ spawnPc = "wait"
      /\ UNCHANGED <<std, saved, child, given, faults>>
  BY DEF Spawn!ValidatorWait
<1>2. \/ Spawn!Return(FALSE)
      \/ child \in {"ok", "failed"} /\ Spawn!Return(child = "ok")
  BY Zenon DEF Spawn!ValidatorWait
<1> QED
  BY <1>1, <1>2, WaitKeepsIInv

LEMMA NextCallKeepsIInv == ASSUME SpawnIInv, Spawn!NextCall PROVE SpawnIInv'
<1>1. /\ Spawn!TypeOK /\ call' = call + 1 /\ call < Len(Spawn!Calls(program))
      /\ spawnPc' = "save" /\ success' = FALSE /\ child' = "none"
      /\ UNCHANGED <<program, std, saved, given, faults>>
  BY DEF SpawnIInv, Spawn!NextCall
<1>5. program = "static_library_validator" /\ call' = 2 /\ Len(Spawn!Calls(program)) = 2
  <2>1. Len(Spawn!Calls(program)) = (IF program = "static_library_validator" THEN 2 ELSE 1)
        /\ call \in {1, 2}
    BY <1>1, CallFacts
  <2> QED
    BY <1>1, <2>1
<1>2. saved = Spawn!NoCopies /\ (std = Spawn!Start \/ "restore" \in faults)
  BY DEF SpawnIInv, Spawn!NextCall, Spawn!CopiesAreClosed, Spawn!StdIsPointedBack
<1>3. Spawn!TypeOK'
  <2>1. success' \in BOOLEAN
    BY <1>1, Zenon
  <2>2. Spawn!Calls(program)' = Spawn!Calls(program)
    BY <1>1 DEF Spawn!Calls
  <2>3. call' \in 1 .. Len(Spawn!Calls(program)')
    BY <1>5, <2>2
  <2> QED
    BY <1>1, <2>1, <2>3 DEF Spawn!TypeOK, Spawn!Steps
<1>4. StdInv' /\ SavedInv' /\ ChildInv'
  BY <1>1, <1>2, <1>5 DEF StdInv, SavedInv, ChildInv, Astray
<1> QED
  BY <1>1, <1>2, <1>3, <1>4 DEF SpawnIInv, Spawn!SuccessMeansChildEnded, Spawn!CopiesAreClosed,
     Spawn!StdIsPointedBack

------------------------------------------------------------------------------
LEMMA ChildEndsKeepsIInv == ASSUME SpawnIInv, Spawn!ChildEnds PROVE SpawnIInv'
<1>1. /\ Spawn!TypeOK /\ child = "running" /\ child' \in {"ok", "failed"}
      /\ UNCHANGED <<program, call, spawnPc, std, saved, given, faults, success>>
  BY DEF SpawnIInv, Spawn!ChildEnds
<1>2. Demanded' = Demanded
  BY <1>1, SameDemands
<1>3. Spawn!TypeOK'
  BY <1>1 DEF Spawn!TypeOK
<1>4. StdInv' /\ SavedInv' /\ ChildInv'
  BY <1>1, <1>2 DEF SpawnIInv, StdInv, SavedInv, ChildInv, Astray
<1> QED
  BY <1>1, <1>3, <1>4 DEF SpawnIInv, Spawn!SuccessMeansChildEnded, Spawn!CopiesAreClosed,
     Spawn!StdIsPointedBack

LEMMA SpawnStutterKeepsIInv == ASSUME SpawnIInv, UNCHANGED spawns PROVE SpawnIInv'
BY DEF SpawnIInv, spawns, Spawn!TypeOK, StdInv, SavedInv, ChildInv, Astray, Demanded,
   Spawn!request, Spawn!SuccessMeansChildEnded, Spawn!CopiesAreClosed, Spawn!StdIsPointedBack

LEMMA SpawnNextKeepsIInv == ASSUME SpawnIInv, Spawn!Next PROVE SpawnIInv'
<1>1. CASE Spawn!Tool
  BY <1>1, LinkSaveKeepsIInv, LinkRedirectKeepsIInv, LinkSpawnKeepsIInv, LinkWaitKeepsIInv,
     LinkRestoreKeepsIInv, DefRedirectKeepsIInv, DefEncodeFailsKeepsIInv, DefSpawnKeepsIInv,
     DefWaitKeepsIInv, ValidatorSaveKeepsIInv, ValidatorRedirectKeepsIInv,
     ValidatorEncodeFailsKeepsIInv, ValidatorSpawnKeepsIInv, ValidatorWaitKeepsIInv,
     NextCallKeepsIInv DEF Spawn!Tool
<1>2. CASE Spawn!ChildEnds
  BY <1>2, ChildEndsKeepsIInv
<1>3. CASE UNCHANGED spawns
  BY <1>3, SpawnStutterKeepsIInv
<1> QED
  BY <1>1, <1>2, <1>3 DEF Spawn!Next, Spawn!vars, spawns

------------------------------------------------------------------------------
(* A configure probe.                                                       *)

\* The object a probe is about to link is its own.
ObjectInv ==
  \A k \in Probes!Probes :
    probePc[k] = "compiled" => tmp[Probes!Dir(k)] = k /\ good[k] # "bad" /\ checks[k].kind = "link"

\* A probe breaks when it judges, and a killed one is whole again.
BrokenInv == \A k \in Probes!Probes : probePc[k] \in {"idle", "made", "compiled"} => k \notin broken

TrueVerdict(k) == IF Probes!Holds(k) /\ k \notin broken THEN "true" ELSE "false"

JudgedInv ==
  \A k \in Probes!Probes : probePc[k] \in {"judged", "done"} => verdict[k] = TrueVerdict(k)

\* A rendered header is of results that no longer change.
ConfigInv ==
  config.rendered =>
    /\ \A k \in DOMAIN checks : probePc[k] = "done"
    /\ config.defined = {checks[k].macro : k \in {j \in Probes!RenderedChecks : Probes!Defines(j)}}

ProbesIInv == Probes!TypeOK /\ ObjectInv /\ BrokenInv /\ JudgedInv /\ ConfigInv

------------------------------------------------------------------------------
\* Each list's checks are numbered from one: no check is 0, the mark of a
\* directory without an object.
LEMMA Numbered ==
  ASSUME checks \in Lists
  PROVE  Len(checks) \in Nat /\ DOMAIN checks = 1 .. Len(checks)
BY ListsAssumption

LEMMA ProbesInitIInv == ASSUME Probes!Init PROVE ProbesIInv
<1>1. checks \in Lists /\ Len(checks) \in Nat /\ DOMAIN checks = 1 .. Len(checks)
  BY Numbered DEF Probes!Init
<1>2. (CHOOSE p \in Pids : TRUE) \in Pids
  BY ListsAssumption
<1>3. \A k \in DOMAIN checks : probePc[k] = IF k \in Probes!Probes THEN "idle" ELSE "done"
  BY DEF Probes!Init
<1>4. Probes!Running = {}
  BY <1>3 DEF Probes!Running, Probes!Probes
<1>5. Probes!TypeOK
  <2>1. pid \in [DOMAIN checks -> Pids]
    BY <1>2 DEF Probes!Init
  <2>2. tmp \in [Probes!Dirs -> 0 .. Len(checks)]
    BY <1>1 DEF Probes!Init
  <2>3. probePc \in [DOMAIN checks -> {"idle", "made", "compiled", "judged", "done"}]
    BY DEF Probes!Init
  <2> QED
    BY <1>1, <1>4, <2>1, <2>2, <2>3, BoundsAssumption DEF Probes!Init, Probes!TypeOK
<1>6. ObjectInv /\ BrokenInv /\ JudgedInv /\ ConfigInv
  BY <1>3 DEF Probes!Init, ObjectInv, BrokenInv, JudgedInv, ConfigInv, Probes!Probes
<1> QED
  BY <1>5, <1>6 DEF ProbesIInv

------------------------------------------------------------------------------
(* Steps of a probe.                                                        *)

\* Two probes that run have different directories.
LEMMA DirsDiffer ==
  ASSUME Probes!TypeOK, NEW j \in Probes!Running, NEW k \in Probes!Running,
         Probes!Dir(j) = Probes!Dir(k)
  PROVE  j = k
BY DEF Probes!TypeOK, Probes!Dir

\* The directory of a probe that runs is one of Dirs.
LEMMA DirExists ==
  ASSUME Probes!TypeOK, NEW k \in Probes!Running
  PROVE  Probes!Dir(k) \in Probes!Dirs
BY DEF Probes!TypeOK, Probes!Dir, Probes!Dirs, Probes!Running, Probes!Probes

\* While a probe is at work there is no header, and a header is of the past.
LEMMA NoConfig ==
  ASSUME ProbesIInv, NEW k \in Probes!Probes, probePc[k] # "done", UNCHANGED config
  PROVE  ConfigInv'
BY DEF ProbesIInv, ConfigInv, Probes!Probes

LEMMA MakeDirKeepsIInv ==
  ASSUME ProbesIInv, NEW k \in Probes!Probes, Probes!MakeDir(k)
  PROVE  ProbesIInv'
<1>1. /\ Probes!TypeOK /\ probePc[k] = "idle" /\ k \in DOMAIN checks /\ k \notin Probes!Running
      /\ probePc' = [probePc EXCEPT ![k] = "made"]
  BY DEF ProbesIInv, Probes!MakeDir, Probes!Goto, Probes!Probes, Probes!Running
<1>2. PICK p \in Pids \ {pid[j] : j \in Probes!Running} : pid' = [pid EXCEPT ![k] = p]
  BY DEF Probes!MakeDir
<1>3. UNCHANGED <<checks, good, tmp, verdict, broken, kills, config>>
  BY DEF Probes!MakeDir
<1>4. Probes!Probes' = Probes!Probes /\ Probes!Running' = Probes!Running \cup {k}
  BY <1>1, <1>3 DEF Probes!Probes, Probes!Running, Probes!TypeOK
<1>5. \A j \in Probes!Running : pid'[j] = pid[j] /\ pid'[j] # pid'[k]
  BY <1>1, <1>2 DEF Probes!Running, Probes!Probes, Probes!TypeOK
<1>6. Probes!TypeOK'
  <2>1. \A i, j \in Probes!Running' : pid'[i] = pid'[j] => i = j
    BY <1>1, <1>4, <1>5 DEF Probes!TypeOK
  <2>2. probePc' \in [DOMAIN checks -> {"idle", "made", "compiled", "judged", "done"}]
    BY <1>1 DEF Probes!TypeOK
  <2>3. pid' \in [DOMAIN checks -> Pids]
    BY <1>1, <1>2 DEF Probes!TypeOK
  <2> QED
    BY <1>1, <1>3, <1>4, <2>1, <2>2, <2>3 DEF Probes!TypeOK, Probes!Dirs
<1>7. ObjectInv'
  BY <1>1, <1>3, <1>4, <1>5
     DEF ProbesIInv, ObjectInv, Probes!Dir, Probes!Running, Probes!TypeOK, Probes!Probes
<1>8. BrokenInv' /\ JudgedInv'
  BY <1>1, <1>3, <1>4
     DEF ProbesIInv, BrokenInv, JudgedInv, TrueVerdict, Probes!Holds, Probes!TypeOK, Probes!Probes
<1>9. ConfigInv'
  BY <1>1, <1>3, NoConfig
<1> QED
  BY <1>6, <1>7, <1>8, <1>9 DEF ProbesIInv

\* A probe that runs takes one step, and judges or not: what it changes is
\* its own, for the directory is its own.
LEMMA ProbeKeepsIInv ==
  ASSUME ProbesIInv, NEW k \in Probes!Running,
         NEW step \in {"compiled", "judged", "done"}, probePc' = [probePc EXCEPT ![k] = step],
         NEW said, verdict' = [verdict EXCEPT ![k] = said],
         said \in {"none", "true", "false"},
         NEW holder \in {0, k}, tmp' = [tmp EXCEPT ![Probes!Dir(k)] = holder] \/ tmp' = tmp,
         broken' \in {broken, broken \cup {k}},
         UNCHANGED <<checks, good, pid, kills, config>>,
         step = "compiled" =>
           tmp' = [tmp EXCEPT ![Probes!Dir(k)] = k] /\ good[k] # "bad" /\ checks[k].kind = "link"
           /\ broken' = broken /\ probePc[k] = "made",
         step \in {"judged", "done"} => said = TrueVerdict(k)'
  PROVE  ProbesIInv'
<1>1. /\ Probes!TypeOK /\ k \in Probes!Probes /\ k \in DOMAIN checks
      /\ probePc[k] # "done" /\ Probes!Dir(k) \in Probes!Dirs
  BY DirExists DEF ProbesIInv, Probes!Running, Probes!Probes
<1>2. Probes!Probes' = Probes!Probes /\ Probes!Running' \subseteq Probes!Running
  BY <1>1 DEF Probes!Probes, Probes!Running, Probes!TypeOK
<1>3. k \in 0 .. Len(checks)
  BY <1>1, Numbered DEF Probes!TypeOK
<1>4. \A j \in Probes!Probes \ {k} : probePc'[j] = probePc[j] /\ verdict'[j] = verdict[j]
                              /\ (j \in broken' <=> j \in broken)
  BY <1>1 DEF Probes!TypeOK, Probes!Probes
<1>5. \A j \in Probes!Running \ {k} : tmp'[Probes!Dir(j)] = tmp[Probes!Dir(j)]
  BY <1>1, DirsDiffer, DirExists DEF Probes!TypeOK
<1>6. Probes!TypeOK'
  <2>1. probePc' \in [DOMAIN checks -> {"idle", "made", "compiled", "judged", "done"}]
    BY <1>1 DEF Probes!TypeOK
  <2>2. tmp' \in [Probes!Dirs -> 0 .. Len(checks)]
    <3>1. holder \in 0 .. Len(checks)
      BY <1>1, <1>3, Numbered DEF Probes!TypeOK
    <3> QED
      BY <1>1, <3>1 DEF Probes!TypeOK
  <2>3. verdict' \in [DOMAIN checks -> {"none", "true", "false"}]
    BY <1>1 DEF Probes!TypeOK
  <2>4. broken' \subseteq Probes!Probes'
    BY <1>1, <1>2 DEF Probes!TypeOK
  <2>5. \A i, j \in Probes!Running' : pid'[i] = pid'[j] => i = j
    BY <1>1, <1>2 DEF Probes!TypeOK
  <2> QED
    BY <1>1, <2>1, <2>2, <2>3, <2>4, <2>5 DEF Probes!TypeOK, Probes!Dirs
<1>7. ObjectInv'
  <2> SUFFICES ASSUME NEW j \in Probes!Probes, probePc'[j] = "compiled"
               PROVE  /\ tmp'[Probes!Dir(j)'] = j
                      /\ good'[j] # "bad" /\ checks'[j].kind = "link"
    BY <1>2 DEF ObjectInv
  <2>1. CASE j = k
    BY <1>1, <2>1 DEF Probes!Dir, Probes!TypeOK
  <2>2. CASE j # k
    <3>1. probePc[j] = "compiled" /\ j \in Probes!Running
      BY <1>4, <2>2 DEF Probes!Running
    <3>2. tmp[Probes!Dir(j)] = j /\ good[j] # "bad" /\ checks[j].kind = "link"
      BY <3>1 DEF ProbesIInv, ObjectInv
    <3> QED
      BY <1>5, <2>2, <3>1, <3>2 DEF Probes!Dir
  <2> QED
    BY <2>1, <2>2
<1>8. BrokenInv'
  <2>1. probePc'[k] \in {"idle", "made", "compiled"} => k \notin broken'
    BY <1>1 DEF ProbesIInv, BrokenInv, Probes!TypeOK
  <2> QED
    BY <1>2, <1>4, <2>1 DEF ProbesIInv, BrokenInv
<1>9. JudgedInv'
  <2>1. probePc'[k] \in {"judged", "done"} => verdict'[k] = TrueVerdict(k)'
    BY <1>1 DEF Probes!TypeOK
  <2>2. \A j \in Probes!Probes \ {k} : TrueVerdict(j)' = TrueVerdict(j)
    BY <1>4 DEF TrueVerdict, Probes!Holds
  <2> QED
    BY <1>2, <1>4, <2>1, <2>2 DEF ProbesIInv, JudgedInv
<1>10. ConfigInv'
  BY <1>1, NoConfig
<1> QED
  BY <1>6, <1>7, <1>8, <1>9, <1>10 DEF ProbesIInv

\* The value a step leaves alone is the value it sets.
LEMMA ResultStays ==
  ASSUME Probes!TypeOK, NEW k \in Probes!Probes
  PROVE  verdict = [verdict EXCEPT ![k] = verdict[k]] /\ verdict[k] \in {"none", "true", "false"}
BY DEF Probes!TypeOK, Probes!Probes

LEMMA CompileKeepsIInv ==
  ASSUME ProbesIInv, NEW k \in Probes!Probes, Probes!Compile(k)
  PROVE  ProbesIInv'
<1>1. Probes!TypeOK /\ k \in Probes!Running /\ k \in DOMAIN checks /\ k \notin broken
  BY DEF ProbesIInv, BrokenInv, Probes!Compile, Probes!Running, Probes!Probes
<1>2. CASE checks[k].kind = "link"
  <2>1. /\ probePc[k] = "made" /\ good[k] # "bad"
        /\ probePc' = [probePc EXCEPT ![k] = "compiled"] /\ tmp' = [tmp EXCEPT ![Probes!Dir(k)] = k]
        /\ UNCHANGED <<checks, good, pid, verdict, broken, kills, config>>
    BY <1>2 DEF Probes!Compile, Probes!Goto
  <2>2. verdict' = [verdict EXCEPT ![k] = verdict[k]] /\ verdict[k] \in {"none", "true", "false"}
    BY <1>1, <2>1, ResultStays
  <2> QED
    BY <1>1, <1>2, <2>1, <2>2, ProbeKeepsIInv
<1>3. CASE checks[k].kind # "link"
  <2>1. /\ good[k] # "bad" /\ probePc' = [probePc EXCEPT ![k] = "judged"]
        /\ verdict' = [verdict EXCEPT ![k] = "true"] /\ tmp' = [tmp EXCEPT ![Probes!Dir(k)] = k]
        /\ UNCHANGED <<checks, good, pid, broken, kills, config>>
    BY <1>3 DEF Probes!Compile, Probes!Goto, Probes!Judge
  <2>2. "true" = TrueVerdict(k)'
    BY <1>1, <1>3, <2>1 DEF TrueVerdict, Probes!Holds
  <2> QED
    BY <1>1, <2>1, <2>2, ProbeKeepsIInv
<1> QED
  BY <1>2, <1>3

LEMMA CompileFailsKeepsIInv ==
  ASSUME ProbesIInv, NEW k \in Probes!Probes, Probes!CompileFails(k)
  PROVE  ProbesIInv'
<1>1. Probes!TypeOK /\ k \in Probes!Running
  BY DEF ProbesIInv, Probes!CompileFails, Probes!Running
<1>2. /\ probePc' = [probePc EXCEPT ![k] = "judged"] /\ verdict' = [verdict EXCEPT ![k] = "false"]
      /\ broken' = IF good[k] = "bad" THEN broken ELSE broken \cup {k}
      /\ UNCHANGED <<checks, good, pid, tmp, kills, config>>
  BY DEF Probes!CompileFails, Probes!Goto, Probes!Judge
<1>3. "false" = TrueVerdict(k)'
  BY <1>2 DEF TrueVerdict, Probes!Holds
<1> QED
  BY <1>1, <1>2, <1>3, ProbeKeepsIInv

LEMMA LinkKeepsIInv ==
  ASSUME ProbesIInv, NEW k \in Probes!Probes, Probes!Link(k)
  PROVE  ProbesIInv'
<1>1. Probes!TypeOK /\ k \in Probes!Running /\ k \notin broken
  BY DEF ProbesIInv, BrokenInv, Probes!Link, Probes!Running
<1>2. tmp[Probes!Dir(k)] = k /\ checks[k].kind = "link"
  BY DEF ProbesIInv, ObjectInv, Probes!Link
<1>3. /\ good[k] = "links" /\ probePc' = [probePc EXCEPT ![k] = "judged"]
      /\ verdict' = [verdict EXCEPT ![k] = "true"]
      /\ UNCHANGED <<checks, good, pid, tmp, broken, kills, config>>
  BY <1>2 DEF Probes!Link, Probes!Goto, Probes!Judge
<1>4. "true" = TrueVerdict(k)'
  BY <1>1, <1>2, <1>3 DEF TrueVerdict, Probes!Holds
<1> QED
  BY <1>1, <1>3, <1>4, ProbeKeepsIInv

LEMMA LinkFailsKeepsIInv ==
  ASSUME ProbesIInv, NEW k \in Probes!Probes, Probes!LinkFails(k)
  PROVE  ProbesIInv'
<1>1. Probes!TypeOK /\ k \in Probes!Running
  BY DEF ProbesIInv, Probes!LinkFails, Probes!Running
<1>2. tmp[Probes!Dir(k)] = k /\ checks[k].kind = "link" /\ k # 0
  <2>1. tmp[Probes!Dir(k)] = k /\ checks[k].kind = "link"
    BY DEF ProbesIInv, ObjectInv, Probes!LinkFails
  <2>2. k \in 1 .. Len(checks) /\ Len(checks) \in Nat
    BY <1>1, Numbered DEF Probes!TypeOK, Probes!Probes
  <2> QED
    BY <2>1, <2>2
<1>3. /\ probePc' = [probePc EXCEPT ![k] = "judged"] /\ verdict' = [verdict EXCEPT ![k] = "false"]
      /\ broken' = IF good[k] = "links" THEN broken \cup {k} ELSE broken
      /\ UNCHANGED <<checks, good, pid, tmp, kills, config>>
  BY <1>2 DEF Probes!LinkFails, Probes!Goto, Probes!Judge
<1>4. "false" = TrueVerdict(k)'
  BY <1>2, <1>3 DEF TrueVerdict, Probes!Holds
<1> QED
  BY <1>1, <1>3, <1>4, ProbeKeepsIInv

LEMMA RemoveDirKeepsIInv ==
  ASSUME ProbesIInv, NEW k \in Probes!Probes, Probes!RemoveDir(k)
  PROVE  ProbesIInv'
<1>1. Probes!TypeOK /\ k \in Probes!Running
  BY DEF ProbesIInv, Probes!RemoveDir, Probes!Running
<1>2. /\ probePc[k] = "judged" /\ probePc' = [probePc EXCEPT ![k] = "done"]
      /\ tmp' = [tmp EXCEPT ![Probes!Dir(k)] = 0]
      /\ UNCHANGED <<checks, good, pid, verdict, broken, kills, config>>
  BY DEF Probes!RemoveDir, Probes!Goto
<1>3. verdict' = [verdict EXCEPT ![k] = verdict[k]] /\ verdict[k] \in {"none", "true", "false"}
  BY <1>1, <1>2, ResultStays
<1>4. verdict[k] = TrueVerdict(k)'
  BY <1>2 DEF ProbesIInv, JudgedInv, TrueVerdict, Probes!Holds
<1> QED
  BY <1>1, <1>2, <1>3, <1>4, ProbeKeepsIInv

\* A killed probe begins anew; what it leaves in its directory is not looked at.
LEMMA KillKeepsIInv ==
  ASSUME ProbesIInv, NEW k \in Probes!Probes, Probes!Kill(k)
  PROVE  ProbesIInv'
<1>1. /\ Probes!TypeOK /\ k \in Probes!Running /\ k \in DOMAIN checks /\ probePc[k] # "done"
      /\ probePc' = [probePc EXCEPT ![k] = "idle"] /\ verdict' = [verdict EXCEPT ![k] = "none"]
      /\ broken' = broken \ {k} /\ kills < MaxKills /\ kills' = kills + 1
      /\ UNCHANGED <<checks, good, pid, tmp, config>>
  BY DEF ProbesIInv, Probes!Kill, Probes!Goto, Probes!Running, Probes!Probes
<1>2. Probes!Probes' = Probes!Probes /\ Probes!Running' \subseteq Probes!Running
  BY <1>1 DEF Probes!Probes, Probes!Running, Probes!TypeOK
<1>3. Probes!TypeOK'
  <2>1. kills' \in 0 .. MaxKills
    BY <1>1, BoundsAssumption DEF Probes!TypeOK
  <2>2. /\ probePc' \in [DOMAIN checks -> {"idle", "made", "compiled", "judged", "done"}]
        /\ verdict' \in [DOMAIN checks -> {"none", "true", "false"}]
    BY <1>1 DEF Probes!TypeOK
  <2> QED
    BY <1>1, <1>2, <2>1, <2>2 DEF Probes!TypeOK, Probes!Dirs
<1>4. ObjectInv' /\ BrokenInv'
  BY <1>1, <1>2 DEF ProbesIInv, ObjectInv, BrokenInv, Probes!TypeOK, Probes!Dir, Probes!Probes
<1>5. JudgedInv'
  BY <1>1, <1>2 DEF ProbesIInv, JudgedInv, TrueVerdict, Probes!Holds, Probes!TypeOK, Probes!Probes
<1>6. ConfigInv'
  BY <1>1, NoConfig
<1> QED
  BY <1>3, <1>4, <1>5, <1>6 DEF ProbesIInv

LEMMA RenderKeepsIInv ==
  ASSUME ProbesIInv, Probes!Render
  PROVE  ProbesIInv'
<1>1. /\ Probes!TypeOK /\ UNCHANGED <<checks, good, probePc, pid, tmp, verdict, broken, kills>>
      /\ \A k \in DOMAIN checks : probePc[k] = "done"
      /\ config' = [rendered |-> TRUE,
                    defined |-> {checks[k].macro :
                                  k \in {j \in Probes!RenderedChecks : Probes!Defines(j)}}]
  BY DEF ProbesIInv, Probes!Render
<1>2. /\ Probes!Probes' = Probes!Probes /\ Probes!Running' = Probes!Running
      /\ Probes!Dirs' = Probes!Dirs
  BY <1>1 DEF Probes!Probes, Probes!Running, Probes!Dirs
<1>3. Probes!TypeOK'
  BY <1>1, <1>2 DEF Probes!TypeOK
<1>4. ObjectInv' /\ BrokenInv' /\ JudgedInv'
  BY <1>1, <1>2
     DEF ProbesIInv, ObjectInv, BrokenInv, JudgedInv, TrueVerdict, Probes!Holds, Probes!Dir
<1>5. ConfigInv'
  BY <1>1 DEF ConfigInv, Probes!RenderedChecks, Probes!Defines
<1> QED
  BY <1>3, <1>4, <1>5 DEF ProbesIInv

------------------------------------------------------------------------------
(* The invariant and what follows from it.                                  *)

LEMMA ProbesStutterKeepsIInv == ASSUME ProbesIInv, UNCHANGED probings PROVE ProbesIInv'
BY DEF ProbesIInv, Probes!TypeOK, ObjectInv, BrokenInv, JudgedInv, ConfigInv, TrueVerdict,
       Probes!Holds, Probes!Dir, Probes!Dirs,
       Probes!Probes, Probes!Running, Probes!RenderedChecks, Probes!Defines, probings

LEMMA ProbesNextKeepsIInv == ASSUME ProbesIInv, Probes!Next PROVE ProbesIInv'
<1>1. CASE \E k \in Probes!Probes : Probes!Probe(k) \/ Probes!Kill(k)
  <2>1. PICK k \in Probes!Probes : Probes!Probe(k) \/ Probes!Kill(k)
    BY <1>1
  <2> QED
    BY <2>1, MakeDirKeepsIInv, CompileKeepsIInv, CompileFailsKeepsIInv, LinkKeepsIInv,
       LinkFailsKeepsIInv, RemoveDirKeepsIInv, KillKeepsIInv DEF Probes!Probe
<1>2. CASE Probes!Render
  BY <1>2, RenderKeepsIInv
<1>3. CASE UNCHANGED probings
  BY <1>3, ProbesStutterKeepsIInv
<1> QED
  BY <1>1, <1>2, <1>3 DEF Probes!Next, Probes!vars, probings

\* The header defines what the policies and the checks that hold define: the
\* line the shell does not see is an #undef.
LEMMA IInvHeaderIsOfTheChecks == ASSUME ProbesIInv PROVE Probes!HeaderIsOfTheChecks
<1> SUFFICES ASSUME config.rendered, checks[Len(checks)].kind = "undef"
             PROVE  {checks[k].macro : k \in {j \in Probes!RenderedChecks : Probes!Defines(j)}}
                    = {checks[k].macro : k \in {j \in DOMAIN checks :
                         \/ checks[j].kind = "define"
                         \/ j \in Probes!Probes /\ Probes!Holds(j) /\ j \notin broken}}
  BY DEF ProbesIInv, ConfigInv, Probes!HeaderIsOfTheChecks
<1>1. Len(checks) \in Nat /\ DOMAIN checks = 1 .. Len(checks)
  BY Numbered DEF ProbesIInv, Probes!TypeOK
<1>2. Probes!RenderedChecks = DOMAIN checks \ {Len(checks)}
  BY <1>1 DEF Probes!RenderedChecks
<1>3. \A j \in Probes!Probes : verdict[j] = "true" <=> Probes!Holds(j) /\ j \notin broken
  BY DEF ProbesIInv, ConfigInv, JudgedInv, TrueVerdict, Probes!Probes
<1>4. {j \in Probes!RenderedChecks : Probes!Defines(j)}
      = {j \in DOMAIN checks :
           \/ checks[j].kind = "define"
           \/ j \in Probes!Probes /\ Probes!Holds(j) /\ j \notin broken}
  BY <1>2, <1>3 DEF Probes!Defines, Probes!Probes
<1> QED
  BY <1>4

------------------------------------------------------------------------------
(* A growing buffer.                                                        *)

Readers == {"read_file", "copy_file"}

\* A zero follows bytes, not entries.
Zero == IF owner = "list" THEN 0 ELSE 1

\* The type invariant, in three parts.
WordsOK ==
  /\ owner \in Owners /\ size \in Nat /\ fault \in BOOLEAN
  /\ pc \in {"take", "reserve", "double", "realloc", "store", "check", "done"}
  /\ result \in {"none", "true", "false", "exit 2"}
NumbersOK ==
  /\ taken \in Nat /\ len \in Nat /\ extra \in 0..MaxPiece
  /\ cap \in 0 .. Modulus - 1 /\ need \in 0 .. Modulus - 1 /\ newcap \in 0 .. Modulus - 1
BlockOK == block \in 0..AllocLimit /\ block = cap * Unit

LEMMA TypeParts == WordsOK /\ NumbersOK /\ BlockOK => TypeOK
BY Zenon DEF WordsOK, NumbersOK, BlockOK, TypeOK

\* Which collector can be where, and with what in hand.
OwnerInv ==
  /\ pc \in {"reserve", "double", "realloc"} => owner # "copy_file"
  /\ pc = "double" => owner \in Buffers
  /\ pc = "check" => owner \in Readers
  /\ owner \in Readers => extra <= Chunk
  /\ owner \notin Readers => ~fault
  /\ owner \in {"list", "read_line"} /\ pc \notin {"take", "done"} => extra = 1

\* What is stored fits into the block, or there is neither.
HeldInv ==
  owner # "copy_file" => IF cap = 0 THEN len = 0 ELSE len + Zero <= cap

\* The capacity asked for is enough, and its bytes do not wrap.
RoomInv ==
  /\ pc \in {"double", "realloc"} /\ owner \in Buffers => need = Written /\ need <= Half
  /\ pc = "double" => newcap > 0
  /\ pc = "realloc" => Written <= newcap /\ newcap * Unit < Modulus
  /\ pc = "store" /\ owner # "copy_file" => Written <= cap

\* What has been taken is stored or in hand; a chunk that is not full is the
\* last one, or a read has failed.
TakenInv ==
  /\ taken <= size
  /\ pc \in {"take", "check"} => taken = len
  /\ pc \in {"reserve", "double", "realloc", "store"} => taken = len + extra
  /\ owner \in Readers /\ pc \notin {"take", "done"} /\ extra < Chunk /\ ~fault => taken = size
  /\ owner \in Readers /\ pc = "take" => ~fault
  /\ owner \in Readers /\ extra = Chunk /\ pc # "done" => ~fault

IInv ==
  WordsOK /\ NumbersOK /\ BlockOK /\ OwnerInv /\ HeldInv /\ RoomInv /\ TakenInv /\ SuccessIsAll

USE SizesAssumption, AddressSpaceAssumption DEF Modulus, Buffers, Owners, Readers

------------------------------------------------------------------------------
(* Arithmetic.                                                              *)

\* A number below the modulus is its own remainder.
LEMMA ModSmall == ASSUME NEW x \in Nat, x < 2 * Half PROVE x % (2 * Half) = x
OBVIOUS

LEMMA ModRange == ASSUME NEW x \in Nat PROVE x % (2 * Half) \in 0 .. (2 * Half) - 1
<1>1. 2 * Half > 0
  OBVIOUS
<1> QED
  BY <1>1

\* Multiplication keeps the order.
LEMMA TimesKeepsOrder ==
  ASSUME NEW a \in Nat, NEW b \in Nat, NEW c \in Nat, a <= b PROVE a * c <= b * c
OBVIOUS

LEMMA Doubled == ASSUME NEW a \in Nat, NEW c \in Nat PROVE (a * 2) * c = 2 * (a * c)
OBVIOUS

\* No capacity is larger than the largest block.
LEMMA CapInBlock == ASSUME NumbersOK, BlockOK PROVE cap <= AllocLimit
<1>1. Unit \in Nat /\ 1 <= Unit
  BY DEF Unit
<1>2. cap \in Nat /\ block <= AllocLimit /\ block = cap * Unit
  BY <1>1 DEF NumbersOK, BlockOK
<1>3. 1 * cap <= Unit * cap
  BY <1>1, <1>2, TimesKeepsOrder
<1> QED
  BY <1>1, <1>2, <1>3
------------------------------------------------------------------------------
(* The steps.                                                               *)

LEMMA InitIInv == Init => IInv
<1> SUFFICES ASSUME Init PROVE IInv
  OBVIOUS
<1>1. Unit \in Nat /\ 0 * Unit = 0
  BY DEF Unit
<1>2. WordsOK /\ NumbersOK /\ BlockOK
  <2>1. WordsOK
    <3>1. size \in Nat /\ pc = "take" /\ result = "none" /\ fault = FALSE /\ owner \in Owners
      BY DEF Init
    <3> QED
      BY <3>1 DEF WordsOK
  <2>2. NumbersOK
    BY <1>1 DEF NumbersOK, Init
  <2>3. BlockOK
    BY <1>1 DEF BlockOK, Unit, Init
  <2> QED
    BY <2>1, <2>2, <2>3
<1>3. OwnerInv /\ HeldInv /\ RoomInv /\ TakenInv /\ SuccessIsAll
  BY DEF Init, OwnerInv, HeldInv, RoomInv, TakenInv, SuccessIsAll
<1> QED
  BY <1>2, <1>3 DEF IInv

\* A chunk is read.
LEMMA ReadChunkIInv == ASSUME IInv, ReadChunk PROVE IInv'
<1> USE DEF IInv, ReadChunk, Take, Goto, memory
<1>1. PICK n \in 0..Chunk :
        /\ taken + n <= size
        /\ n < Chunk /\ taken + n < size => fault'
        /\ n = Chunk => ~fault'
        /\ extra' = n /\ taken' = taken + n
        /\ pc' = IF n = 0 THEN "check" ELSE IF owner = "copy_file" THEN "store" ELSE "reserve"
  OBVIOUS
<1>2. UNCHANGED <<owner, size, len, cap, block, need, newcap, result>> /\ fault' \in BOOLEAN
  OBVIOUS
<1> HIDE DEF ReadChunk
<1>3. WordsOK' /\ NumbersOK' /\ BlockOK'
  <2>1. WordsOK'
    BY <1>1, <1>2 DEF WordsOK
  <2>2. NumbersOK'
    BY <1>1, <1>2 DEF NumbersOK
  <2>3. BlockOK'
    BY <1>1, <1>2 DEF BlockOK, Unit
  <2> QED
    BY <2>1, <2>2, <2>3
<1>4. OwnerInv'
  BY <1>1, <1>2 DEF OwnerInv, ReadChunk
<1>5. HeldInv'
  BY <1>2 DEF HeldInv, Zero
<1>6. RoomInv'
  BY <1>1, <1>2 DEF RoomInv, ReadChunk
<1>7. TakenInv'
  <2>1. /\ pc = "take" /\ owner \in Readers /\ taken = len
        /\ taken \in Nat /\ size \in Nat /\ Chunk \in Nat
    BY DEF ReadChunk, TakenInv, NumbersOK, WordsOK
  <2>2. /\ taken' <= size' /\ (pc' = "check" => taken' = len')
        /\ (pc' # "check" => taken' = len' + extra')
    BY <1>1, <1>2, <2>1
  <2>3. (extra' < Chunk /\ ~fault' => taken' = size') /\ (extra' = Chunk => ~fault') /\ pc' # "take"
    BY <1>1, <1>2, <2>1
  <2> QED
    BY <1>1, <2>2, <2>3 DEF TakenInv
<1>8. SuccessIsAll'
  BY <1>1 DEF SuccessIsAll
<1> QED
  BY <1>3, <1>4, <1>5, <1>6, <1>7, <1>8

\* The chunk was stored.
LEMMA CheckChunkIInv == ASSUME IInv, CheckChunk PROVE IInv'
<1> USE DEF IInv, CheckChunk, Return, Goto, memory
<1>1. WordsOK' /\ NumbersOK' /\ BlockOK'
  <2>1. WordsOK'
    BY DEF WordsOK
  <2>2. NumbersOK'
    BY DEF NumbersOK
  <2>3. BlockOK'
    BY DEF BlockOK, Unit
  <2> QED
    BY <2>1, <2>2, <2>3
<1>2. OwnerInv' /\ HeldInv' /\ RoomInv'
  BY DEF OwnerInv, HeldInv, Zero, RoomInv
<1>3. TakenInv'
  BY DEF TakenInv, NumbersOK, OwnerInv
<1>4. SuccessIsAll'
  BY DEF SuccessIsAll, TakenInv, NumbersOK, OwnerInv
<1> QED
  BY <1>1, <1>2, <1>3, <1>4

\* The other collectors take a piece, or have taken all.
LEMMA TakePieceIInv == ASSUME IInv, TakePiece PROVE IInv'
<1> USE DEF IInv, TakePiece, Take, Goto, memory
<1>1. WordsOK' /\ NumbersOK' /\ BlockOK'
  <2>1. WordsOK'
    BY DEF WordsOK
  <2>2. NumbersOK'
    BY DEF NumbersOK
  <2>3. BlockOK'
    BY DEF BlockOK, Unit
  <2> QED
    BY <2>1, <2>2, <2>3
<1>2. OwnerInv' /\ HeldInv' /\ RoomInv'
  BY DEF OwnerInv, HeldInv, Zero, RoomInv
<1>3. TakenInv'
  BY DEF TakenInv, NumbersOK
<1>4. SuccessIsAll'
  BY DEF SuccessIsAll
<1> QED
  BY <1>1, <1>2, <1>3, <1>4

LEMMA TakeEndsIInv == ASSUME IInv, TakeEnds PROVE IInv'
<1> USE DEF IInv, TakeEnds, Return, memory
<1>1. WordsOK' /\ NumbersOK' /\ BlockOK'
  <2>1. WordsOK'
    BY DEF WordsOK
  <2>2. NumbersOK'
    BY DEF NumbersOK
  <2>3. BlockOK'
    BY DEF BlockOK, Unit
  <2> QED
    BY <2>1, <2>2, <2>3
<1>2. OwnerInv' /\ HeldInv' /\ RoomInv' /\ TakenInv'
  BY DEF OwnerInv, HeldInv, Zero, RoomInv, TakenInv
<1>3. SuccessIsAll'
  BY DEF SuccessIsAll, TakenInv, OwnerInv
<1> QED
  BY <1>1, <1>2, <1>3

\* buffer_reserve: what is needed is computed without a wrap.
LEMMA BufferReserveIInv == ASSUME IInv, BufferReserve PROVE IInv'
<1> USE DEF IInv, BufferReserve, Goto, memory
<1>1. cap <= AllocLimit /\ len \in Nat /\ extra \in 0..MaxPiece /\ cap \in Nat
  BY CapInBlock DEF NumbersOK
<1>2. len + extra + 1 <= Half
  BY <1>1 DEF HeldInv, Zero
<1>3. need' = len + extra + 1 /\ need' = Written
  <2>1. (len + extra + 1) % (2 * Half) = len + extra + 1
    BY <1>1, <1>2, ModSmall
  <2> QED
    BY <2>1 DEF BufferNeed, Written
<1>4. newcap' \in 0 .. Modulus - 1 /\ newcap' > 0
  BY <1>1 DEF FirstCapacity, NumbersOK
<1>5. WordsOK' /\ NumbersOK' /\ BlockOK'
  <2>1. WordsOK'
    BY <1>1, <1>2, <1>3, <1>4 DEF WordsOK
  <2>2. NumbersOK'
    BY <1>1, <1>2, <1>3, <1>4 DEF NumbersOK
  <2>3. BlockOK'
    BY <1>1, <1>2, <1>3, <1>4 DEF BlockOK, Unit
  <2> QED
    BY <2>1, <2>2, <2>3
<1>6. OwnerInv' /\ HeldInv'
  BY DEF OwnerInv, HeldInv, Zero
<1>7. RoomInv'
  BY <1>1, <1>2, <1>3, <1>4 DEF RoomInv, Written
<1>8. TakenInv' /\ SuccessIsAll'
  BY DEF TakenInv, SuccessIsAll
<1> QED
  BY <1>5, <1>6, <1>7, <1>8

\* The doubling: below the need it cannot wrap.
LEMMA BufferDoubleIInv == ASSUME IInv, BufferDouble PROVE IInv'
<1> USE DEF IInv, BufferDouble, Goto, memory
<1>1. owner \in Buffers /\ Unit = 1
  BY DEF OwnerInv, Unit
<1>2. /\ newcap \in Nat /\ need \in Nat /\ need <= Half /\ need = Written
      /\ newcap < Modulus /\ newcap > 0
  BY <1>1 DEF RoomInv, NumbersOK
<1>3. newcap < need => (newcap * 2) % Modulus = newcap * 2
  BY <1>2, ModSmall
<1>4. WordsOK' /\ NumbersOK' /\ BlockOK'
  <2>1. WordsOK'
    BY <1>2, <1>3 DEF WordsOK
  <2>2. NumbersOK'
    BY <1>2, <1>3 DEF NumbersOK
  <2>3. BlockOK'
    BY <1>2, <1>3 DEF BlockOK, Unit
  <2> QED
    BY <2>1, <2>2, <2>3
<1>5. OwnerInv' /\ HeldInv'
  BY DEF OwnerInv, HeldInv, Zero
<1>6. RoomInv'
  BY <1>1, <1>2, <1>3 DEF RoomInv, Written, Unit
<1>7. TakenInv' /\ SuccessIsAll'
  BY DEF TakenInv, SuccessIsAll
<1> QED
  BY <1>4, <1>5, <1>6, <1>7

\* A list that is full, or a line, doubles once: that is enough, and its bytes
\* do not wrap.
LEMMA ListReserveIInv == ASSUME IInv, ListReserve PROVE IInv'
<1> USE DEF IInv, ListReserve, Goto, memory
<1>1. cap <= AllocLimit /\ len \in Nat /\ extra = 1 /\ cap \in Nat
  BY CapInBlock DEF NumbersOK, OwnerInv
<1>2. (cap * 2) % Modulus = cap * 2 /\ (len + 1) % Modulus = len + 1
  <2>1. len <= cap
    BY <1>1 DEF HeldInv, Zero
  <2>2. cap * 2 \in Nat /\ cap * 2 < 2 * Half /\ len + 1 \in Nat /\ len + 1 < 2 * Half
    BY <1>1, <2>1
  <2>3. (cap * 2) % (2 * Half) = cap * 2
    BY <2>2, ModSmall
  <2>4. (len + 1) % (2 * Half) = len + 1
    BY <2>2, ModSmall
  <2> QED
    BY <2>3, <2>4
<1>3. newcap' = IF cap = 0 THEN First[owner] ELSE cap * 2
  BY <1>2
<1>4. First[owner] \in Nat /\ First[owner] > 1 /\ First[owner] * EntrySize < Half
  OBVIOUS
<1>5. newcap' \in Nat /\ newcap' * Unit < Modulus
  <2>1. Unit \in {1, EntrySize}
    BY DEF Unit
  <2>2. First[owner] * 1 <= First[owner] * EntrySize
    BY <1>4
  <2>3. CASE cap = 0
    BY <1>3, <1>4, <2>1, <2>2, <2>3
  <2>4. CASE cap # 0
    <3>1. (cap * 2) * Unit = 2 * (cap * Unit)
      BY <1>1, <2>1, Doubled
    <3>2. cap * Unit <= AllocLimit /\ cap * Unit \in Nat
      BY DEF BlockOK
    <3>3. newcap' = cap * 2
      BY <1>3, <2>4
    <3>4. 2 * (cap * Unit) < Modulus
      BY <3>2
    <3> QED
      BY <1>1, <3>1, <3>3, <3>4
  <2> QED
    BY <2>3, <2>4
<1>6. newcap' < Modulus
  <2>1. Unit \in Nat /\ 1 <= Unit
    BY DEF Unit
  <2>2. 1 * newcap' <= Unit * newcap'
    BY <1>5, <2>1, TimesKeepsOrder
  <2> QED
    BY <1>5, <2>1, <2>2
<1>7. WordsOK' /\ NumbersOK' /\ BlockOK'
  <2>1. WordsOK'
    BY <1>5, <1>6 DEF WordsOK
  <2>2. NumbersOK'
    BY <1>5, <1>6 DEF NumbersOK
  <2>3. BlockOK'
    BY <1>5, <1>6 DEF BlockOK, Unit
  <2> QED
    BY <2>1, <2>2, <2>3
<1>8. OwnerInv' /\ HeldInv'
  BY DEF OwnerInv, HeldInv, Zero
<1>9. RoomInv'
  <2>1. IsFull => Written <= newcap'
    BY <1>1, <1>2, <1>3, <1>4 DEF IsFull, Written, HeldInv, Zero
  <2>2. ~IsFull => Written <= cap
    BY <1>1, <1>2 DEF IsFull, Written, HeldInv, Zero
  <2>3. Written' = Written /\ Unit' = Unit
    BY DEF Written, Unit
  <2> QED
    BY <1>5, <2>1, <2>2, <2>3 DEF RoomInv
<1>10. TakenInv' /\ SuccessIsAll'
  BY DEF TakenInv, SuccessIsAll
<1> QED
  BY <1>7, <1>8, <1>9, <1>10

\* The block has as many bytes as were meant to be asked for.
LEMMA ReallocIInv == ASSUME IInv, Realloc PROVE IInv'
<1> USE DEF IInv, Realloc, Goto, memory
<1>1. newcap \in Nat /\ Written <= newcap /\ newcap * Unit < Modulus /\ owner # "copy_file"
  BY DEF RoomInv, OwnerInv, NumbersOK
<1>2. Bytes(newcap) = newcap * Unit /\ newcap * Unit \in Nat
  <2>1. CASE owner = "list"
    <3>1. Bytes(newcap) = (newcap * EntrySize) % Modulus /\ Unit = EntrySize
      BY <2>1 DEF Bytes, Unit
    <3>2. newcap * EntrySize \in Nat /\ newcap * EntrySize < 2 * Half
      BY <1>1, <3>1
    <3> QED
      BY <3>1, <3>2, ModSmall
  <2>2. CASE owner # "list"
    BY <1>1, <2>2 DEF Bytes, Unit
  <2> QED
    BY <2>1, <2>2
<1>3. WordsOK' /\ NumbersOK' /\ BlockOK'
  <2>1. Unit' = Unit
    BY DEF Unit
  <2>2. WordsOK' /\ NumbersOK'
    BY DEF WordsOK, NumbersOK
  <2> QED
    BY <1>2, <2>1, <2>2 DEF BlockOK
<1>4. OwnerInv'
  BY DEF OwnerInv
<1>5. HeldInv' /\ RoomInv'
  BY <1>1 DEF HeldInv, RoomInv, Zero, Written, NumbersOK
<1>6. TakenInv' /\ SuccessIsAll'
  BY DEF TakenInv, SuccessIsAll
<1> QED
  BY <1>3, <1>4, <1>5, <1>6

LEMMA ReallocFailsIInv == ASSUME IInv, ReallocFails PROVE IInv'
<1> USE DEF IInv, ReallocFails, Return, memory
<1>1. WordsOK' /\ NumbersOK' /\ BlockOK'
  <2>1. WordsOK'
    BY DEF WordsOK
  <2>2. NumbersOK'
    BY DEF NumbersOK
  <2>3. BlockOK'
    BY DEF BlockOK, Unit
  <2> QED
    BY <2>1, <2>2, <2>3
<1>2. OwnerInv' /\ HeldInv' /\ RoomInv' /\ TakenInv' /\ SuccessIsAll'
  BY DEF OwnerInv, HeldInv, Zero, RoomInv, TakenInv, SuccessIsAll
<1> QED
  BY <1>1, <1>2

\* What is stored was in hand.
LEMMA StoreIInv == ASSUME IInv, Store PROVE IInv'
<1> USE DEF IInv, Store, Goto
<1>1. WordsOK' /\ NumbersOK' /\ BlockOK'
  <2>1. WordsOK'
    BY DEF WordsOK
  <2>2. NumbersOK'
    BY DEF NumbersOK
  <2>3. BlockOK'
    BY DEF BlockOK, Unit
  <2> QED
    BY <2>1, <2>2, <2>3
<1>2. OwnerInv' /\ RoomInv'
  BY DEF OwnerInv, RoomInv
<1>3. HeldInv'
  BY DEF HeldInv, Zero, RoomInv, Written, NumbersOK
<1>4. TakenInv' /\ SuccessIsAll'
  BY DEF TakenInv, SuccessIsAll, NumbersOK
<1> QED
  BY <1>1, <1>2, <1>3, <1>4

LEMMA StoreFailsIInv == ASSUME IInv, StoreFails PROVE IInv'
<1> USE DEF IInv, StoreFails, Return
<1>1. WordsOK' /\ NumbersOK' /\ BlockOK'
  <2>1. WordsOK'
    BY DEF WordsOK
  <2>2. NumbersOK'
    BY DEF NumbersOK
  <2>3. BlockOK'
    BY DEF BlockOK, Unit
  <2> QED
    BY <2>1, <2>2, <2>3
<1>2. OwnerInv' /\ RoomInv' /\ HeldInv' /\ TakenInv' /\ SuccessIsAll'
  BY DEF OwnerInv, RoomInv, HeldInv, TakenInv, SuccessIsAll
<1> QED
  BY <1>1, <1>2

\* Every step keeps the invariant.
LEMMA NextIInv == IInv /\ [Next]_vars => IInv'
<1> SUFFICES ASSUME IInv, [Next]_vars PROVE IInv'
  OBVIOUS
<1>1. CASE Step
  BY <1>1, ReadChunkIInv, CheckChunkIInv, TakePieceIInv, TakeEndsIInv, BufferReserveIInv,
     BufferDoubleIInv, ListReserveIInv, ReallocIInv, ReallocFailsIInv, StoreIInv, StoreFailsIInv
     DEF Step
<1>2. CASE UNCHANGED vars
  <2> USE <1>2 DEF vars, memory, IInv
  <2>1. WordsOK' /\ NumbersOK'
    BY DEF WordsOK, NumbersOK
  <2>2. BlockOK' /\ HeldInv'
    BY DEF BlockOK, Unit, HeldInv, Zero
  <2>3. OwnerInv' /\ SuccessIsAll'
    BY DEF OwnerInv, SuccessIsAll
  <2>4. RoomInv' /\ TakenInv'
    BY DEF RoomInv, TakenInv, Unit, Written
  <2> QED
    BY <2>1, <2>2, <2>3, <2>4
<1> QED
  BY <1>1, <1>2 DEF Next

\* A store stays in its block.
LEMMA IInvStoreIsInBlock == ASSUME IInv PROVE StoreIsInBlock
<1> SUFFICES ASSUME pc = "store", owner # "copy_file" PROVE Written * Unit <= block
  BY DEF StoreIsInBlock
<1>1. Written <= cap /\ Written \in Nat /\ cap \in Nat
  BY DEF IInv, RoomInv, NumbersOK, Written
<1>2. Unit \in Nat /\ block = cap * Unit
  BY DEF Unit, IInv, BlockOK
<1> QED
  BY <1>1, <1>2, TimesKeepsOrder

\* A round of the loop makes the capacity larger.
LEMMA DoublingGrows == ASSUME IInv, BufferDouble, pc' = "double" PROVE newcap' > newcap
<1>1. newcap \in Nat /\ need \in Nat /\ need <= Half /\ newcap > 0
  BY DEF IInv, RoomInv, OwnerInv, NumbersOK, BufferDouble
<1>2. newcap < need /\ newcap' = (newcap * 2) % Modulus
  BY DEF BufferDouble, Goto
<1>3. (newcap * 2) % Modulus = newcap * 2
  BY <1>1, <1>2, ModSmall
<1> QED
  BY <1>1, <1>2, <1>3

HIDE DEF Modulus, Buffers, Owners, Readers

------------------------------------------------------------------------------
(* Texts.  The readers and writers of TextCodings are folds over the        *)
(* characters; each is a run of its step (RunAfter), so that the invariant  *)
(* of a text follows from that of the text without its last character.      *)
(*                                                                          *)
(* What the proofs need of numbers and of folds.  The library's theorems    *)
(* on induction and recursion have an operator for a parameter; those here  *)
(* have a set or a function, which a proof can put in.                      *)

\* A non-empty set of natural numbers has a least element: the CHOOSE of a
\* first position is a position.
LEMMA NatMin ==
  ASSUME NEW T, T \subseteq Nat, T # {}
  PROVE  \E m \in T : \A y \in T : m <= y
<1> DEFINE R == OpToRel(<, Nat)
<1>1. IsWellFoundedOn(R, Nat)
  BY NatLessThanWellFounded, Zenon
<1>2. ASSUME NEW x \in Nat, NEW y \in Nat, y < x
      PROVE  <<y, x>> \in R
  BY <1>2 DEF OpToRel
<1> HIDE DEF R
<1>3. \E x \in T : \A y \in T : ~ (<<y, x>> \in R)
  BY <1>1, WFMin, Zenon
<1>4. PICK m \in T : \A y \in T : ~ (<<y, m>> \in R)
  BY <1>3, Zenon
<1>5. ASSUME NEW y \in T PROVE m <= y
  <2>1. m \in Nat /\ y \in Nat
    OBVIOUS
  <2>2. ~ (y < m)
    BY <1>2, <1>4, <2>1, Zenon
  <2> QED
    BY <2>1, <2>2
<1> QED
  BY <1>4, <1>5

\* Induction up to n: a set with 0, and with k + 1 for each of its k below n,
\* has all numbers up to n.
LEMMA UpTo ==
  ASSUME NEW n \in Nat, NEW T, 0 \in T, \A k \in 0 .. n - 1 : k \in T => k + 1 \in T
  PROVE  0 .. n \subseteq T
<1> DEFINE U == {k \in 0 .. n : k \notin T}
<1> SUFFICES ASSUME U # {} PROVE FALSE
  OBVIOUS
<1>1. U \subseteq Nat
  OBVIOUS
<1>2. PICK m \in U : \A y \in U : m <= y
  BY <1>1, NatMin
<1>3. m # 0 /\ m \in Nat /\ m - 1 \in 0 .. n - 1
  BY <1>2
<1>4. m - 1 \in T
  BY <1>2, <1>3
<1> QED
  BY <1>2, <1>3, <1>4

\* A non-empty set of numbers up to n has a greatest one.
LEMMA MaxOf ==
  ASSUME NEW n \in Nat, NEW S, S \subseteq 0 .. n, S # {}
  PROVE  Max(S) \in S /\ \A y \in S : y <= Max(S)
<1> DEFINE T == {n - y : y \in S}
<1>1. T \subseteq Nat /\ T # {}
  <2>1. \A y \in S : n - y \in Nat
    OBVIOUS
  <2> QED
    BY <2>1
<1>2. PICK m \in T : \A y \in T : m <= y
  BY <1>1, NatMin
<1>3. PICK x \in S : m = n - x
  BY <1>2
<1>4. \A y \in S : x >= y
  <2> TAKE y \in S
  <2>1. n - y \in T
    OBVIOUS
  <2>2. n - x <= n - y
    BY <1>2, <1>3, <2>1
  <2>3. x \in Int /\ y \in Int
    OBVIOUS
  <2> QED
    BY <2>2, <2>3
<1> QED
  BY <1>4 DEF Max

\* A number that is in a set of numbers up to it is the greatest.
LEMMA MaxIs ==
  ASSUME NEW n \in Nat, NEW S, S \subseteq 0 .. n, n \in S
  PROVE  Max(S) = n
<1>1. Max(S) \in S /\ n <= Max(S)
  BY MaxOf
<1>2. Max(S) \in 0 .. n
  BY <1>1
<1> QED
  BY <1>1, <1>2

\* h is the fold from b of the functions G[k], k in 1..n, on the subsets of
\* 1..n; iter is, as far as its values are in V; acc is it on 1..k for each k.
IsFold(h, n, b, G) ==
  \A t \in SUBSET (1 .. n) : h[t] = IF t = {} THEN b ELSE G[Max(t)][h[t \ {Max(t)}]]
FoldsIn(iter, n, V, b, G) ==
  /\ iter[{}] = b
  /\ \A t \in (SUBSET (1 .. n)) \ {{}} :
       iter[t \ {Max(t)}] \in V => iter[t] = G[Max(t)][iter[t \ {Max(t)}]]
AreSteps(acc, n, b, G) ==
  acc[0] = b /\ \A k \in 1 .. n : acc[k] = G[k][acc[k - 1]]

\* The function exists: it is one on the subsets of 1..k for each k.
LEMMA FoldExists ==
  ASSUME NEW n \in Nat, NEW V, NEW b \in V, NEW G \in [1 .. n -> [V -> V]]
  PROVE  \E h \in [SUBSET (1 .. n) -> V] : IsFold(h, n, b, G)
<1> DEFINE Eq(k, h) == \A t \in SUBSET (1 .. k) :
                         h[t] = IF t = {} THEN b ELSE G[Max(t)][h[t \ {Max(t)}]]
           T == {k \in 0 .. n : \E h \in [SUBSET (1 .. k) -> V] : Eq(k, h)}
<1>1. 0 \in T
  <2> DEFINE h == [t \in SUBSET (1 .. 0) |-> b]
  <2>1. 1 .. 0 = {}
    OBVIOUS
  <2>2. h \in [SUBSET (1 .. 0) -> V]
    OBVIOUS
  <2>3. Eq(0, h)
    BY <2>1
  <2> HIDE DEF h, Eq
  <2>4. \E g \in [SUBSET (1 .. 0) -> V] : Eq(0, g)
    BY <2>2, <2>3, Zenon
  <2>5. 0 \in 0 .. n
    OBVIOUS
  <2> QED
    BY <2>4, <2>5, Zenon
<1>2. ASSUME NEW k \in 0 .. n - 1, k \in T PROVE k + 1 \in T
  <2>1. PICK h \in [SUBSET (1 .. k) -> V] : Eq(k, h)
    BY <1>2
  <2>2. /\ k + 1 \in 1 .. n /\ 1 .. k + 1 = (1 .. k) \cup {k + 1} /\ k + 1 \notin 1 .. k
        /\ \A t \in SUBSET (1 .. k + 1) : t \ {k + 1} \in SUBSET (1 .. k)
        /\ \A t \in SUBSET (1 .. k + 1) : k + 1 \notin t => t \in SUBSET (1 .. k)
    OBVIOUS
  <2> DEFINE g == [t \in SUBSET (1 .. k + 1) |->
                     IF k + 1 \in t THEN G[k + 1][h[t \ {k + 1}]] ELSE h[t]]
  <2>3. g \in [SUBSET (1 .. k + 1) -> V]
    BY <2>1, <2>2
  <2>4. ASSUME NEW t \in SUBSET (1 .. k + 1)
        PROVE  g[t] = IF t = {} THEN b ELSE G[Max(t)][g[t \ {Max(t)}]]
    <3>1. CASE t = {}
      BY <2>1, <2>2, <3>1
    <3>2. CASE k + 1 \in t
      <4>1. Max(t) = k + 1
        <5>1. k + 1 \in Nat /\ t \subseteq 0 .. k + 1
          BY <3>2
        <5> QED
          BY <3>2, <5>1, MaxIs
      <4>2. g[t \ {k + 1}] = h[t \ {k + 1}]
        BY <2>2
      <4> QED
        BY <3>2, <4>1, <4>2
    <3>3. CASE t # {} /\ k + 1 \notin t
      <4>1. t \in SUBSET (1 .. k)
        BY <2>2, <3>3
      <4>2. h[t] = G[Max(t)][h[t \ {Max(t)}]]
        BY <2>1, <3>3, <4>1
      <4>3. t \ {Max(t)} \in SUBSET (1 .. k + 1) /\ k + 1 \notin t \ {Max(t)}
        BY <3>3
      <4> QED
        BY <3>3, <4>2, <4>3
    <3> QED
      BY <3>1, <3>2, <3>3
  <2> HIDE DEF g
  <2>5. Eq(k + 1, g)
    BY <2>4
  <2> HIDE DEF Eq
  <2>6. \E f \in [SUBSET (1 .. k + 1) -> V] : Eq(k + 1, f)
    BY <2>3, <2>5, Zenon
  <2>7. k + 1 \in 0 .. n
    OBVIOUS
  <2> QED
    BY <2>6, <2>7, Zenon
<1>3. n \in T
  <2> HIDE DEF T
  <2>1. 0 .. n \subseteq T
    BY <1>1, <1>2, UpTo
  <2> QED
    BY <2>1
<1> QED
  BY <1>3 DEF IsFold

\* A fold, step by step: what has come of the first k is one step away from
\* what has come of the first k - 1.
LEMMA FoldSteps ==
  ASSUME NEW n \in Nat, NEW V, NEW b \in V, NEW G \in [1 .. n -> [V -> V]], NEW iter,
         FoldsIn(iter, n, V, b, G)
  PROVE  \E acc \in [0 .. n -> V] : AreSteps(acc, n, b, G) /\ acc[n] = iter[1 .. n]
<1>0. ASSUME NEW k \in 0 .. n - 1
      PROVE  /\ 1 .. k + 1 \in (SUBSET (1 .. n)) \ {{}} /\ k + 1 \in 1 .. k + 1
             /\ (1 .. k + 1) \ {k + 1} = 1 .. k /\ 1 .. k + 1 \subseteq 0 .. k + 1
             /\ k + 1 \in 1 .. n
  <2>1. k \in Nat /\ k + 1 \in Nat /\ k + 1 <= n
    OBVIOUS
  <2>2. 1 .. k + 1 \subseteq 1 .. n /\ 1 .. k + 1 \subseteq 0 .. k + 1 /\ k + 1 \in 1 .. k + 1
    BY <2>1
  <2>3. (1 .. k + 1) \ {k + 1} = 1 .. k
    BY <2>1
  <2> QED
    BY <2>2, <2>3
<1> USE DEF FoldsIn
<1>1. ASSUME NEW k \in 0 .. n - 1, iter[1 .. k] \in V
      PROVE  iter[1 .. k + 1] = G[k + 1][iter[1 .. k]] /\ k + 1 \in 1 .. n
  <2> DEFINE S == 1 .. k + 1
  <2>1. S \in (SUBSET (1 .. n)) \ {{}} /\ S \ {k + 1} = 1 .. k
    BY <1>0
  <2>2. Max(S) = k + 1
    BY <1>0, MaxIs
  <2> HIDE DEF S
  <2>3. S \ {Max(S)} = 1 .. k
    BY <2>1, <2>2
  <2>4. iter[S] = G[Max(S)][iter[S \ {Max(S)}]]
    BY <1>1, <2>1, <2>3
  <2>5. iter[S] = G[k + 1][iter[1 .. k]]
    BY <2>2, <2>3, <2>4
  <2> QED
    BY <1>0, <2>5 DEF S
<1> DEFINE T == {k \in 0 .. n : iter[1 .. k] \in V}
<1>2. 0 .. n \subseteq T
  <2>1. 0 \in T
    BY 1 .. 0 = {}
  <2>2. ASSUME NEW k \in 0 .. n - 1, k \in T PROVE k + 1 \in T
    <3>1. k + 1 \in 1 .. n /\ k + 1 \in 0 .. n
      OBVIOUS
    <3>2. iter[1 .. k + 1] = G[k + 1][iter[1 .. k]] /\ iter[1 .. k] \in V
      BY <1>1, <2>2
    <3>3. iter[1 .. k + 1] \in V
      BY <3>1, <3>2
    <3> QED
      BY <3>1, <3>3
  <2> HIDE DEF T
  <2> QED
    BY <2>1, <2>2, UpTo
<1> DEFINE acc == [k \in 0 .. n |-> iter[1 .. k]]
<1>3. acc \in [0 .. n -> V] /\ acc[n] = iter[1 .. n]
  BY <1>2
<1>4. acc[0] = b
  BY 1 .. 0 = {}
<1>5. ASSUME NEW k \in 1 .. n PROVE acc[k] = G[k][acc[k - 1]]
  <2>1. k - 1 \in 0 .. n - 1 /\ k - 1 \in 0 .. n /\ (k - 1) + 1 = k
    OBVIOUS
  <2>2. iter[1 .. k - 1] \in V
    BY <1>2, <2>1
  <2>3. iter[1 .. k] = G[k][iter[1 .. k - 1]]
    BY <1>1, <2>1, <2>2
  <2> QED
    BY <2>1, <2>3
<1>6. AreSteps(acc, n, b, G)
  BY <1>4, <1>5 DEF AreSteps
<1> HIDE DEF acc
<1> QED
  BY <1>3, <1>6, Zenon

------------------------------------------------------------------------------
(* Texts: a reader that goes over a sequence, one element at a time.        *)

\* f leads a reader from a state and an element to the next state; acc is its
\* states along s, from b on.
Reads(f, V, C, b) == f \in [V \X C -> V] /\ b \in V
IsRun(acc, f, V, b, s) ==
  /\ acc \in [0 .. Len(s) -> V]
  /\ acc[0] = b /\ \A k \in 1 .. Len(s) : acc[k] = f[<<acc[k - 1], s[k]>>]
RunOf(f, V, b, s) == (CHOOSE acc : IsRun(acc, f, V, b, s))[Len(s)]

\* Every sequence has its states.
LEMMA RunExists ==
  ASSUME NEW V, NEW C, NEW f, NEW b, Reads(f, V, C, b), NEW s \in Seq(C)
  PROVE  \E acc : IsRun(acc, f, V, b, s)
<1>0. f \in [V \X C -> V] /\ b \in V
  BY DEF Reads
<1> DEFINE n == Len(s)
           Ok(k, acc) == acc[0] = b /\ \A j \in 1 .. k : acc[j] = f[<<acc[j - 1], s[j]>>]
           T == {k \in 0 .. n : \E acc \in [0 .. k -> V] : Ok(k, acc)}
<1>1. n \in Nat /\ \A k \in 1 .. n : s[k] \in C
  OBVIOUS
<1> HIDE DEF n
<1>2. 0 \in T
  <2> DEFINE acc == [k \in 0 .. 0 |-> b]
  <2>1. acc \in [0 .. 0 -> V] /\ Ok(0, acc)
    BY <1>0
  <2> HIDE DEF acc, Ok
  <2>2. 0 \in 0 .. n
    BY <1>1
  <2> QED
    BY <2>1, <2>2
<1>3. ASSUME NEW k \in 0 .. n - 1, k \in T PROVE k + 1 \in T
  <2>1. PICK acc \in [0 .. k -> V] : Ok(k, acc)
    BY <1>3
  <2>2. k + 1 \in 1 .. n /\ k + 1 \in 0 .. n /\ k \in 0 .. k /\ k + 1 \notin 0 .. k /\ k \in Nat
    BY <1>1
  <2> DEFINE next == f[<<acc[k], s[k + 1]>>]
             more == [j \in 0 .. k + 1 |-> IF j = k + 1 THEN next ELSE acc[j]]
  <2>3. next \in V
    BY <1>0, <1>1, <2>2
  <2> HIDE DEF next
  <2>4. more \in [0 .. k + 1 -> V]
    BY <2>2, <2>3
  <2>5. more[0] = b
    BY <2>1, <2>2
  <2>6. ASSUME NEW j \in 1 .. k + 1 PROVE more[j] = f[<<more[j - 1], s[j]>>]
    <3>1. CASE j = k + 1
      <4>1. more[k + 1] = next /\ more[k] = acc[k]
        BY <2>2
      <4>2. j - 1 = k
        BY <2>2, <3>1
      <4> QED
        BY <3>1, <4>1, <4>2 DEF next
    <3>2. CASE j # k + 1
      <4>1. j \in 1 .. k /\ j - 1 \in 0 .. k /\ j \in 0 .. k + 1 /\ j - 1 \in 0 .. k + 1
            /\ j - 1 # k + 1
        BY <2>2, <3>2
      <4>2. acc[j] = f[<<acc[j - 1], s[j]>>]
        BY <2>1, <4>1
      <4>3. more[j] = acc[j] /\ more[j - 1] = acc[j - 1]
        BY <3>2, <4>1
      <4> QED
        BY <4>2, <4>3
    <3> QED
      BY <3>1, <3>2
  <2>7. Ok(k + 1, more)
    BY <2>5, <2>6
  <2> HIDE DEF more, Ok
  <2> QED
    BY <2>2, <2>4, <2>7
<1>4. n \in T
  <2> HIDE DEF T
  <2>1. 0 .. n \subseteq T
    BY <1>1, <1>2, <1>3, UpTo
  <2> QED
    BY <1>1, <2>1
<1> QED
  BY <1>4 DEF IsRun, n

\* A reader comes to the same each time.
LEMMA RunsAgree ==
  ASSUME NEW f, NEW V, NEW b, NEW s, Len(s) \in Nat, NEW a, IsRun(a, f, V, b, s),
         NEW c, IsRun(c, f, V, b, s)
  PROVE  \A k \in 0 .. Len(s) : a[k] = c[k]
<1> DEFINE n == Len(s)
           T == {k \in 0 .. n : a[k] = c[k]}
<1>1. 0 \in T
  BY DEF IsRun
<1>2. ASSUME NEW k \in 0 .. n - 1, k \in T PROVE k + 1 \in T
  <2>1. k + 1 \in 1 .. n /\ (k + 1) - 1 = k /\ k + 1 \in 0 .. n
    OBVIOUS
  <2>2. a[k + 1] = f[<<a[k], s[k + 1]>>] /\ c[k + 1] = f[<<c[k], s[k + 1]>>]
    BY <2>1 DEF IsRun
  <2> QED
    BY <1>2, <2>1, <2>2
<1> HIDE DEF T
<1>3. 0 .. n \subseteq T
  BY <1>1, <1>2, UpTo
<1> QED
  BY <1>3 DEF T

\* Whatever acc is the states of s, it ends where the reader does.
LEMMA RunIs ==
  ASSUME NEW V, NEW f, NEW b, NEW s, Len(s) \in Nat, NEW acc, IsRun(acc, f, V, b, s)
  PROVE  RunOf(f, V, b, s) = acc[Len(s)] /\ RunOf(f, V, b, s) \in V
<1> DEFINE r == CHOOSE r : IsRun(r, f, V, b, s)
<1>1. IsRun(r, f, V, b, s)
  BY Zenon
<1>2. RunOf(f, V, b, s) = r[Len(s)]
  BY DEF RunOf
<1> HIDE DEF r
<1>5. r \in [0 .. Len(s) -> V]
  BY <1>1 DEF IsRun
<1>3. \A k \in 0 .. Len(s) : r[k] = acc[k]
  BY <1>1, RunsAgree
<1>4. Len(s) \in 0 .. Len(s)
  OBVIOUS
<1> QED
  BY <1>2, <1>3, <1>4, <1>5

\* After one more element a reader is one step on.
LEMMA RunAfter ==
  ASSUME NEW V, NEW C, NEW f, NEW b, Reads(f, V, C, b), NEW s \in Seq(C), NEW c \in C
  PROVE  /\ s \o <<c>> \in Seq(C) /\ RunOf(f, V, b, s) \in V
         /\ RunOf(f, V, b, s \o <<c>>) = f[<<RunOf(f, V, b, s), c>>]
<1> DEFINE m == Len(s)
           st == s \o <<c>>
<1>1. /\ st \in Seq(C) /\ Len(st) = m + 1 /\ m \in Nat /\ st[m + 1] = c
      /\ \A k \in 1 .. m : st[k] = s[k]
  OBVIOUS
<1>2. PICK acc : IsRun(acc, f, V, b, st)
  <2> HIDE DEF st, m
  <2> QED
    BY <1>1, RunExists
<1> HIDE DEF st
<1>3. /\ acc \in [0 .. m + 1 -> V] /\ acc[0] = b
      /\ \A k \in 1 .. m + 1 : acc[k] = f[<<acc[k - 1], st[k]>>]
  BY <1>1, <1>2 DEF IsRun
<1> DEFINE left == [k \in 0 .. m |-> acc[k]]
<1>4. IsRun(left, f, V, b, s) /\ left[m] = acc[m] /\ acc[m] \in V
  <2>1. /\ \A k \in 0 .. m : k \in 0 .. m + 1
        /\ \A k \in 1 .. m : k \in 1 .. m + 1 /\ k - 1 \in 0 .. m /\ k \in 0 .. m
        /\ m \in 0 .. m /\ 0 \in 0 .. m
    BY <1>1
  <2> HIDE DEF m
  <2>2. left \in [0 .. m -> V] /\ left[0] = b /\ left[m] = acc[m] /\ acc[m] \in V
    BY <1>3, <2>1
  <2>3. ASSUME NEW k \in 1 .. m PROVE left[k] = f[<<left[k - 1], s[k]>>]
    BY <1>1, <1>3, <2>1
  <2> HIDE DEF left
  <2> QED
    BY <2>2, <2>3 DEF IsRun, m
<1> HIDE DEF left
<1>5. RunOf(f, V, b, s) = acc[m]
  BY <1>1, <1>4, RunIs
<1>6. RunOf(f, V, b, st) = acc[m + 1]
  <2>1. Len(st) \in Nat
    BY <1>1
  <2>2. RunOf(f, V, b, st) = acc[Len(st)]
    BY <1>2, <2>1, RunIs
  <2> QED
    BY <1>1, <2>2
<1>7. acc[m + 1] = f[<<acc[m], c>>]
  <2>1. m + 1 \in 1 .. m + 1 /\ (m + 1) - 1 = m
    BY <1>1
  <2> QED
    BY <1>1, <1>3, <2>1
<1> QED
  BY <1>1, <1>4, <1>5, <1>6, <1>7 DEF st

\* A reader of nothing stays where it is.
LEMMA RunStarts ==
  ASSUME NEW V, NEW C, NEW f, NEW b, Reads(f, V, C, b)
  PROVE  RunOf(f, V, b, <<>>) = b
<1> DEFINE acc == [k \in 0 .. 0 |-> b]
<1>1. IsRun(acc, f, V, b, <<>>) /\ acc[Len(<<>>)] = b
  BY DEF IsRun, Reads
<1>2. Len(<<>>) \in Nat
  OBVIOUS
<1> HIDE DEF acc
<1> QED
  BY <1>1, <1>2, RunIs

\* Max is the same operator in TextCodings as here.
LEMMA TextMax == ASSUME NEW S PROVE Text!Max(S) = Max(S)
BY DEF Text!Max, Max

\* The step of a reader at each element of s.
StepsOf(f, V, s) == [k \in 1 .. Len(s) |-> [x \in V |-> f[<<x, s[k]>>]]]

\* The fold of a reader over s exists, and ends where the reader does.
LEMMA FoldedBySteps ==
  ASSUME NEW V, NEW C, NEW f \in [V \X C -> V], NEW b \in V, NEW s \in Seq(C)
  PROVE  \E h \in [SUBSET (1 .. Len(s)) -> V] : IsFold(h, Len(s), b, StepsOf(f, V, s))
<1> DEFINE n == Len(s)
           G == StepsOf(f, V, s)
<1>1. n \in Nat /\ G \in [1 .. n -> [V -> V]]
  BY DEF StepsOf
<1> HIDE DEF n, G
<1>2. \E h \in [SUBSET (1 .. n) -> V] : IsFold(h, n, b, G)
  BY <1>1, FoldExists
<1> QED
  BY <1>2 DEF n, G

\* iter is the fold of f over s, as far as its values are in V.
FoldsAs(iter, f, V, C, b, s) ==
  /\ Reads(f, V, C, b) /\ s \in Seq(C)
  /\ iter[{}] = b
  /\ \A t \in (SUBSET (1 .. Len(s))) \ {{}} :
       iter[t \ {Max(t)}] \in V => iter[t] = f[<<iter[t \ {Max(t)}], s[Max(t)]>>]

\* A fold ends where the reader does.
LEMMA FoldIsRun ==
  ASSUME NEW V, NEW C, NEW f, NEW b, NEW s, NEW iter, FoldsAs(iter, f, V, C, b, s)
  PROVE  RunOf(f, V, b, s) = iter[1 .. Len(s)]
<1>0. f \in [V \X C -> V] /\ b \in V /\ s \in Seq(C)
  BY DEF FoldsAs, Reads
<1> DEFINE n == Len(s)
           G == StepsOf(f, V, s)
<1>1. n \in Nat /\ G \in [1 .. n -> [V -> V]]
  BY <1>0 DEF StepsOf
<1>2. \A k \in 1 .. n : \A x \in V : G[k][x] = f[<<x, s[k]>>]
  BY DEF StepsOf
<1> HIDE DEF n, G
<1>3. FoldsIn(iter, n, V, b, G)
  <2>1. ASSUME NEW t \in (SUBSET (1 .. n)) \ {{}}, iter[t \ {Max(t)}] \in V
        PROVE  iter[t] = G[Max(t)][iter[t \ {Max(t)}]]
    <3>1. t \subseteq 0 .. n /\ t \subseteq 1 .. n
      OBVIOUS
    <3>2. Max(t) \in 1 .. n
      BY <1>1, <3>1, MaxOf
    <3> QED
      BY <1>2, <2>1, <3>2 DEF FoldsAs, n
  <2> QED
    BY <2>1 DEF FoldsAs, FoldsIn
<1>7. b \in V
  BY <1>0
<1>4. PICK acc \in [0 .. n -> V] : AreSteps(acc, n, b, G) /\ acc[n] = iter[1 .. n]
  BY <1>7, <1>1, <1>3, FoldSteps
<1>5. IsRun(acc, f, V, b, s)
  <2>1. ASSUME NEW k \in 1 .. n PROVE acc[k] = f[<<acc[k - 1], s[k]>>]
    <3>1. k - 1 \in 0 .. n
      BY <1>1
    <3> QED
      BY <1>2, <1>4, <3>1 DEF AreSteps
  <2> QED
    BY <1>4, <2>1 DEF IsRun, AreSteps, n
<1>6. RunOf(f, V, b, s) = acc[n]
  <2>1. Len(s) \in Nat
    BY <1>0
  <2> QED
    BY <1>5, <2>1, RunIs DEF n
<1> QED
  BY <1>4, <1>6 DEF n

------------------------------------------------------------------------------
(* The readers and counters of TextCodings.                                 *)

JsonChars == Text!Characters \cup {"u", "0", "1"}
JsonStates == [mode : {"start", "in", "escape", "hex", "end", "error"}, value : Seq(JsonChars)]
JsonStart == [mode |-> "start", value |-> <<>>]
JsonReader == [p \in JsonStates \X JsonChars |-> Text!JsonStep(p[1], p[2])]

\* clang's reader keeps to its states.
LEMMA ReadJsonReader ==
  /\ JsonReader \in [JsonStates \X JsonChars -> JsonStates] /\ JsonStart \in JsonStates
  /\ \A x \in JsonStates, c \in JsonChars : JsonReader[<<x, c>>] = Text!JsonStep(x, c)
<1>1. ASSUME NEW x \in JsonStates, NEW c \in JsonChars PROVE Text!JsonStep(x, c) \in JsonStates
  <2>1. \A v \in Seq(JsonChars), d \in JsonChars : Append(v, d) \in Seq(JsonChars)
    OBVIOUS
  <2>2. "NL" \in JsonChars /\ "SOH" \in JsonChars
    BY DEF JsonChars, Text!Characters
  <2> DEFINE y == Text!JsonStep(x, c)
  <2>3. \/ y = x
        \/ \E m \in {"in", "end", "escape", "hex", "error"} : y = [x EXCEPT !.mode = m]
        \/ \E m \in {"in"}, d \in JsonChars : y = [x EXCEPT !.mode = m, !.value = Append(@, d)]
        \/ y = [x EXCEPT !.value = Append(@, c)]
    BY <2>2 DEF Text!JsonStep
  <2> HIDE DEF y
  <2>4. x.value \in Seq(JsonChars) /\ x.mode \in {"start", "in", "escape", "hex", "end", "error"}
    BY DEF JsonStates
  <2>5. \A d \in JsonChars : Append(x.value, d) \in Seq(JsonChars)
    BY <2>1, <2>4
  <2>6. ASSUME NEW m \in {"in", "end", "escape", "hex", "error"}, y = [x EXCEPT !.mode = m]
        PROVE  y \in JsonStates
    BY <2>6 DEF JsonStates
  <2>7. ASSUME NEW d \in JsonChars, y = [x EXCEPT !.mode = "in", !.value = Append(@, d)]
        PROVE  y \in JsonStates
    BY <2>5, <2>7 DEF JsonStates
  <2>8. ASSUME y = [x EXCEPT !.value = Append(@, c)] PROVE y \in JsonStates
    BY <2>5, <2>8 DEF JsonStates
  <2>9. y \in JsonStates
    BY <2>3, <2>6, <2>7, <2>8
  <2> QED
    BY <2>9 DEF y
<1>2. JsonStart \in JsonStates
  BY DEF JsonStart, JsonStates
<1> QED
  BY <1>1, <1>2 DEF JsonReader

\* The reader of the overlay is a run over its characters.
LEMMA ReadJsonRuns ==
  ASSUME NEW s \in Seq(JsonChars)
  PROVE  Text!ReadJson(s) = RunOf(JsonReader, JsonStates, JsonStart, s)
<1> DEFINE n == Len(s)
           Eq(h) == h = [t \in SUBSET DOMAIN s |->
                           IF t = {} THEN JsonStart
                           ELSE Text!JsonStep(h[t \ {Text!Max(t)}], s[Text!Max(t)])]
           iter == CHOOSE h : Eq(h)
<1>1. /\ n \in Nat /\ DOMAIN s = 1 .. n /\ \A k \in 1 .. n : s[k] \in JsonChars
      /\ JsonReader \in [JsonStates \X JsonChars -> JsonStates] /\ JsonStart \in JsonStates
      /\ \A x \in JsonStates, c \in JsonChars : JsonReader[<<x, c>>] = Text!JsonStep(x, c)
  BY ReadJsonReader
<1> HIDE DEF n
<1>2. Text!ReadJson(s) = iter[DOMAIN s]
  BY DEF Text!ReadJson, JsonStart, Text!FoldLeft, Text!MapThenFoldSet
<1>3. ASSUME NEW t \in SUBSET (1 .. n), t # {}
      PROVE  Max(t) \in 1 .. n /\ Text!Max(t) = Max(t)
  <2>1. t \subseteq 0 .. n
    BY <1>3
  <2> QED
    BY <1>1, <1>3, <2>1, MaxOf, TextMax
<1>4. Eq(iter)
  <2>1. PICK h \in [SUBSET (1 .. n) -> JsonStates] : IsFold(h, n, JsonStart, StepsOf(JsonReader, JsonStates, s))
    BY <1>1, FoldedBySteps DEF n
  <2>2. ASSUME NEW t \in SUBSET (1 .. n)
        PROVE  h[t] = IF t = {} THEN JsonStart
                      ELSE Text!JsonStep(h[t \ {Text!Max(t)}], s[Text!Max(t)])
    <3>1. h[t] = IF t = {} THEN JsonStart ELSE StepsOf(JsonReader, JsonStates, s)[Max(t)][h[t \ {Max(t)}]]
      BY <2>1 DEF IsFold
    <3>2. h[t \ {Max(t)}] \in JsonStates
      BY <2>1
    <3> QED
      BY <1>1, <1>3, <3>1, <3>2 DEF StepsOf, n
  <2>3. Eq(h)
    BY <1>1, <2>1, <2>2
  <2> HIDE DEF Eq
  <2> QED
    BY <2>3
<1>5. ASSUME NEW t \in SUBSET (1 .. n)
      PROVE  iter[t] = IF t = {} THEN JsonStart
                       ELSE Text!JsonStep(iter[t \ {Text!Max(t)}], s[Text!Max(t)])
  <2> HIDE DEF iter
  <2> QED
    BY <1>1, <1>4
<1> HIDE DEF iter, Eq
<1>6. iter[{}] = JsonStart
  BY <1>5
<1>7. ASSUME NEW t \in (SUBSET (1 .. n)) \ {{}}, iter[t \ {Max(t)}] \in JsonStates
      PROVE  iter[t] = JsonReader[<<iter[t \ {Max(t)}], s[Max(t)]>>]
  <2>1. iter[t] = Text!JsonStep(iter[t \ {Max(t)}], s[Max(t)])
    BY <1>3, <1>5
  <2> QED
    BY <1>1, <1>3, <1>7, <2>1
<1>8. FoldsAs(iter, JsonReader, JsonStates, JsonChars, JsonStart, s)
  BY <1>1, <1>6, <1>7 DEF FoldsAs, Reads, n
<1>9. RunOf(JsonReader, JsonStates, JsonStart, s) = iter[1 .. n]
  <2>1. RunOf(JsonReader, JsonStates, JsonStart, s) = iter[1 .. Len(s)]
    BY <1>8, FoldIsRun
  <2> QED
    BY <2>1 DEF n
<1> QED
  BY <1>1, <1>2, <1>9

Counter == [p \in Nat \X Text!Characters |-> Text!Counted(p[1], p[2])]

\* What the first loop of ci_json_string counts is a number.
LEMMA JsonSizeReader ==
  /\ Counter \in [Nat \X Text!Characters -> Nat] /\ 3 \in Nat
  /\ \A x \in Nat, c \in Text!Characters : Counter[<<x, c>>] = Text!Counted(x, c)
<1>1. \A x \in Nat, c \in Text!Characters : Text!Counted(x, c) \in Nat
  <2> TAKE x \in Nat, c \in Text!Characters
  <2>1. x + 6 \in Nat /\ x + 2 \in Nat /\ x + 1 \in Nat
    OBVIOUS
  <2>2. Text!Counted(x, c) \in {x + 6, x + 2, x + 1}
    <3>1. CASE c \in Text!Control
      BY <3>1 DEF Text!Counted, Text!Control
    <3>2. CASE c \in {"\"", "\\"}
      BY <3>2 DEF Text!Counted, Text!Control
    <3>3. CASE c \notin Text!Control \cup {"\"", "\\"}
      BY <3>3 DEF Text!Counted
    <3> QED
      BY <3>1, <3>2, <3>3
  <2> QED
    BY <2>1, <2>2
<1> QED
  BY <1>1 DEF Counter

\* The first loop of ci_json_string is a run over the characters.
LEMMA JsonSizeRuns ==
  ASSUME NEW s \in Seq(Text!Characters)
  PROVE  Text!JsonSize(s) = RunOf(Counter, Nat, 3, s)
<1> DEFINE n == Len(s)
           Eq(h) == h = [t \in SUBSET DOMAIN s |->
                           IF t = {} THEN 3
                           ELSE Text!Counted(h[t \ {Text!Max(t)}], s[Text!Max(t)])]
           iter == CHOOSE h : Eq(h)
<1>1. /\ n \in Nat /\ DOMAIN s = 1 .. n /\ \A k \in 1 .. n : s[k] \in Text!Characters
      /\ Counter \in [Nat \X Text!Characters -> Nat] /\ 3 \in Nat
      /\ \A x \in Nat, c \in Text!Characters : Counter[<<x, c>>] = Text!Counted(x, c)
  BY JsonSizeReader
<1> HIDE DEF n
<1>2. Text!JsonSize(s) = iter[DOMAIN s]
  BY DEF Text!JsonSize, Text!FoldLeft, Text!MapThenFoldSet
<1>3. ASSUME NEW t \in SUBSET (1 .. n), t # {}
      PROVE  Max(t) \in 1 .. n /\ Text!Max(t) = Max(t)
  <2>1. t \subseteq 0 .. n
    BY <1>3
  <2> QED
    BY <1>1, <1>3, <2>1, MaxOf, TextMax
<1>4. Eq(iter)
  <2>1. PICK h \in [SUBSET (1 .. n) -> Nat] : IsFold(h, n, 3, StepsOf(Counter, Nat, s))
    BY <1>1, FoldedBySteps DEF n
  <2>2. ASSUME NEW t \in SUBSET (1 .. n)
        PROVE  h[t] = IF t = {} THEN 3
                      ELSE Text!Counted(h[t \ {Text!Max(t)}], s[Text!Max(t)])
    <3>1. h[t] = IF t = {} THEN 3 ELSE StepsOf(Counter, Nat, s)[Max(t)][h[t \ {Max(t)}]]
      BY <2>1 DEF IsFold
    <3>2. h[t \ {Max(t)}] \in Nat
      BY <2>1
    <3> QED
      BY <1>1, <1>3, <3>1, <3>2 DEF StepsOf, n
  <2>3. Eq(h)
    BY <1>1, <2>1, <2>2
  <2> HIDE DEF Eq
  <2> QED
    BY <2>3
<1>5. ASSUME NEW t \in SUBSET (1 .. n)
      PROVE  iter[t] = IF t = {} THEN 3
                       ELSE Text!Counted(iter[t \ {Text!Max(t)}], s[Text!Max(t)])
  <2> HIDE DEF iter
  <2> QED
    BY <1>1, <1>4
<1> HIDE DEF iter, Eq
<1>6. iter[{}] = 3
  BY <1>5
<1>7. ASSUME NEW t \in (SUBSET (1 .. n)) \ {{}}, iter[t \ {Max(t)}] \in Nat
      PROVE  iter[t] = Counter[<<iter[t \ {Max(t)}], s[Max(t)]>>]
  <2>1. iter[t] = Text!Counted(iter[t \ {Max(t)}], s[Max(t)])
    BY <1>3, <1>5
  <2> QED
    BY <1>1, <1>3, <1>7, <2>1
<1>8. FoldsAs(iter, Counter, Nat, Text!Characters, 3, s)
  BY <1>1, <1>6, <1>7 DEF FoldsAs, Reads, n
<1>9. RunOf(Counter, Nat, 3, s) = iter[1 .. n]
  <2>1. RunOf(Counter, Nat, 3, s) = iter[1 .. Len(s)]
    BY <1>8, FoldIsRun
  <2> QED
    BY <2>1 DEF n
<1> QED
  BY <1>1, <1>2, <1>9

DecodeStates == [quote : {"none", "'", "\""}, started : BOOLEAN, separated : BOOLEAN,
                 escaped : BOOLEAN, error : BOOLEAN, value : Seq(Text!Characters)]
Decoder == [p \in DecodeStates \X Text!Characters |-> Text!DecodeStep(p[1], p[2])]

\* decode_shell_argument keeps to its states.
LEMMA DecodedReader ==
  /\ Decoder \in [DecodeStates \X Text!Characters -> DecodeStates] /\ Text!Blank \in DecodeStates
  /\ \A x \in DecodeStates, c \in Text!Characters : Decoder[<<x, c>>] = Text!DecodeStep(x, c)
<1>1. ASSUME NEW x \in DecodeStates, NEW c \in Text!Characters
      PROVE  Text!DecodeStep(x, c) \in DecodeStates
  <2> DEFINE y == Text!DecodeStep(x, c)
  <2>1. x.value \in Seq(Text!Characters)
    BY DEF DecodeStates
  <2>2. \/ y = x
        \/ y = [x EXCEPT !.escaped = FALSE, !.value = Append(@, c)]
        \/ y = [x EXCEPT !.separated = x.started]
        \/ y = [x EXCEPT !.quote = "none"]
        \/ y = [x EXCEPT !.value = Append(@, c)]
        \/ y = [x EXCEPT !.error = TRUE]
        \/ y = [x EXCEPT !.escaped = TRUE, !.started = TRUE]
        \/ c \in {"'", "\""} /\ y = [x EXCEPT !.quote = c, !.started = TRUE]
        \/ y = [x EXCEPT !.started = TRUE, !.value = Append(@, c)]
    BY DEF Text!DecodeStep, Text!IsSeparator, Text!IsSecondArgument
  <2> HIDE DEF y
  <2>3. Append(x.value, c) \in Seq(Text!Characters)
    BY <2>1
  <2>4. y \in DecodeStates
    <3> USE <2>3 DEF DecodeStates
    <3>1. CASE y = [x EXCEPT !.escaped = FALSE, !.value = Append(@, c)]
      BY <3>1
    <3>2. CASE y = [x EXCEPT !.separated = x.started]
      BY <3>2
    <3>3. CASE y = [x EXCEPT !.quote = "none"]
      BY <3>3
    <3>4. CASE y = [x EXCEPT !.value = Append(@, c)]
      BY <3>4
    <3>5. CASE y = [x EXCEPT !.error = TRUE]
      BY <3>5
    <3>6. CASE y = [x EXCEPT !.escaped = TRUE, !.started = TRUE]
      BY <3>6
    <3>7. CASE c \in {"'", "\""} /\ y = [x EXCEPT !.quote = c, !.started = TRUE]
      BY <3>7
    <3>8. CASE y = [x EXCEPT !.started = TRUE, !.value = Append(@, c)]
      BY <3>8
    <3> QED
      BY <2>2, <3>1, <3>2, <3>3, <3>4, <3>5, <3>6, <3>7, <3>8
  <2> QED
    BY <2>4 DEF y
<1>2. Text!Blank \in DecodeStates
  BY DEF Text!Blank, DecodeStates
<1> QED
  BY <1>1, <1>2 DEF Decoder

\* The loop of decode_shell_argument is a run over the characters.
LEMMA DecodedRuns ==
  ASSUME NEW s \in Seq(Text!Characters)
  PROVE  Text!Decoded(s) = RunOf(Decoder, DecodeStates, Text!Blank, s)
<1> DEFINE n == Len(s)
           Eq(h) == h = [t \in SUBSET DOMAIN s |->
                           IF t = {} THEN Text!Blank
                           ELSE Text!DecodeStep(h[t \ {Text!Max(t)}], s[Text!Max(t)])]
           iter == CHOOSE h : Eq(h)
<1>1. /\ n \in Nat /\ DOMAIN s = 1 .. n /\ \A k \in 1 .. n : s[k] \in Text!Characters
      /\ Decoder \in [DecodeStates \X Text!Characters -> DecodeStates] /\ Text!Blank \in DecodeStates
      /\ \A x \in DecodeStates, c \in Text!Characters : Decoder[<<x, c>>] = Text!DecodeStep(x, c)
  BY DecodedReader
<1> HIDE DEF n
<1>2. Text!Decoded(s) = iter[DOMAIN s]
  BY DEF Text!Decoded, Text!FoldLeft, Text!MapThenFoldSet
<1>3. ASSUME NEW t \in SUBSET (1 .. n), t # {}
      PROVE  Max(t) \in 1 .. n /\ Text!Max(t) = Max(t)
  <2>1. t \subseteq 0 .. n
    BY <1>3
  <2> QED
    BY <1>1, <1>3, <2>1, MaxOf, TextMax
<1>4. Eq(iter)
  <2>1. PICK h \in [SUBSET (1 .. n) -> DecodeStates] : IsFold(h, n, Text!Blank, StepsOf(Decoder, DecodeStates, s))
    BY <1>1, FoldedBySteps DEF n
  <2>2. ASSUME NEW t \in SUBSET (1 .. n)
        PROVE  h[t] = IF t = {} THEN Text!Blank
                      ELSE Text!DecodeStep(h[t \ {Text!Max(t)}], s[Text!Max(t)])
    <3>1. h[t] = IF t = {} THEN Text!Blank ELSE StepsOf(Decoder, DecodeStates, s)[Max(t)][h[t \ {Max(t)}]]
      BY <2>1 DEF IsFold
    <3>2. h[t \ {Max(t)}] \in DecodeStates
      BY <2>1
    <3> QED
      BY <1>1, <1>3, <3>1, <3>2 DEF StepsOf, n
  <2>3. Eq(h)
    BY <1>1, <2>1, <2>2
  <2> HIDE DEF Eq
  <2> QED
    BY <2>3
<1>5. ASSUME NEW t \in SUBSET (1 .. n)
      PROVE  iter[t] = IF t = {} THEN Text!Blank
                       ELSE Text!DecodeStep(iter[t \ {Text!Max(t)}], s[Text!Max(t)])
  <2> HIDE DEF iter
  <2> QED
    BY <1>1, <1>4
<1> HIDE DEF iter, Eq
<1>6. iter[{}] = Text!Blank
  BY <1>5
<1>7. ASSUME NEW t \in (SUBSET (1 .. n)) \ {{}}, iter[t \ {Max(t)}] \in DecodeStates
      PROVE  iter[t] = Decoder[<<iter[t \ {Max(t)}], s[Max(t)]>>]
  <2>1. iter[t] = Text!DecodeStep(iter[t \ {Max(t)}], s[Max(t)])
    BY <1>3, <1>5
  <2> QED
    BY <1>1, <1>3, <1>7, <2>1
<1>8. FoldsAs(iter, Decoder, DecodeStates, Text!Characters, Text!Blank, s)
  BY <1>1, <1>6, <1>7 DEF FoldsAs, Reads, n
<1>9. RunOf(Decoder, DecodeStates, Text!Blank, s) = iter[1 .. n]
  <2>1. RunOf(Decoder, DecodeStates, Text!Blank, s) = iter[1 .. Len(s)]
    BY <1>8, FoldIsRun
  <2> QED
    BY <2>1 DEF n
<1> QED
  BY <1>1, <1>2, <1>9

\* The reader after one more character.
LEMMA ReadJsonSteps ==
  ASSUME NEW s \in Seq(JsonChars), NEW c \in JsonChars
  PROVE  /\ s \o <<c>> \in Seq(JsonChars) /\ Text!ReadJson(s) \in JsonStates
         /\ Text!ReadJson(s \o <<c>>) = Text!JsonStep(Text!ReadJson(s), c)
<1>1. Reads(JsonReader, JsonStates, JsonChars, JsonStart) /\ \A x \in JsonStates : JsonReader[<<x, c>>] = Text!JsonStep(x, c)
  BY ReadJsonReader DEF Reads
<1>2. /\ s \o <<c>> \in Seq(JsonChars) /\ RunOf(JsonReader, JsonStates, JsonStart, s) \in JsonStates
      /\ RunOf(JsonReader, JsonStates, JsonStart, s \o <<c>>)
         = JsonReader[<<RunOf(JsonReader, JsonStates, JsonStart, s), c>>]
  BY <1>1, RunAfter
<1>3. /\ Text!ReadJson(s) = RunOf(JsonReader, JsonStates, JsonStart, s)
      /\ Text!ReadJson(s \o <<c>>) = RunOf(JsonReader, JsonStates, JsonStart, s \o <<c>>)
  BY <1>2, ReadJsonRuns
<1> QED
  BY <1>1, <1>2, <1>3

\* The reader of nothing has not begun.
LEMMA ReadJsonStarts == Text!ReadJson(<<>>) = JsonStart
<1>1. <<>> \in Seq(JsonChars)
  OBVIOUS
<1>2. Reads(JsonReader, JsonStates, JsonChars, JsonStart)
  BY ReadJsonReader DEF Reads
<1>3. RunOf(JsonReader, JsonStates, JsonStart, <<>>) = JsonStart
  BY <1>2, RunStarts
<1> QED
  BY <1>1, <1>3, ReadJsonRuns

\* The count after one more character.
LEMMA JsonSizeSteps ==
  ASSUME NEW s \in Seq(Text!Characters), NEW c \in Text!Characters
  PROVE  /\ s \o <<c>> \in Seq(Text!Characters) /\ Text!JsonSize(s) \in Nat
         /\ Text!JsonSize(s \o <<c>>) = Text!Counted(Text!JsonSize(s), c)
<1>1. Reads(Counter, Nat, Text!Characters, 3) /\ \A x \in Nat : Counter[<<x, c>>] = Text!Counted(x, c)
  BY JsonSizeReader DEF Reads
<1>2. /\ s \o <<c>> \in Seq(Text!Characters) /\ RunOf(Counter, Nat, 3, s) \in Nat
      /\ RunOf(Counter, Nat, 3, s \o <<c>>)
         = Counter[<<RunOf(Counter, Nat, 3, s), c>>]
  BY <1>1, RunAfter
<1>3. /\ Text!JsonSize(s) = RunOf(Counter, Nat, 3, s)
      /\ Text!JsonSize(s \o <<c>>) = RunOf(Counter, Nat, 3, s \o <<c>>)
  BY <1>2, JsonSizeRuns
<1> QED
  BY <1>1, <1>2, <1>3

\* Two quotes and a zero.
LEMMA JsonSizeStarts == Text!JsonSize(<<>>) = 3
<1>1. <<>> \in Seq(Text!Characters)
  OBVIOUS
<1>2. Reads(Counter, Nat, Text!Characters, 3)
  BY JsonSizeReader DEF Reads
<1>3. RunOf(Counter, Nat, 3, <<>>) = 3
  BY <1>2, RunStarts
<1> QED
  BY <1>1, <1>3, JsonSizeRuns

\* decode_shell_argument after one more character.
LEMMA DecodedSteps ==
  ASSUME NEW s \in Seq(Text!Characters), NEW c \in Text!Characters
  PROVE  /\ s \o <<c>> \in Seq(Text!Characters) /\ Text!Decoded(s) \in DecodeStates
         /\ Text!Decoded(s \o <<c>>) = Text!DecodeStep(Text!Decoded(s), c)
<1>1. Reads(Decoder, DecodeStates, Text!Characters, Text!Blank) /\ \A x \in DecodeStates : Decoder[<<x, c>>] = Text!DecodeStep(x, c)
  BY DecodedReader DEF Reads
<1>2. /\ s \o <<c>> \in Seq(Text!Characters) /\ RunOf(Decoder, DecodeStates, Text!Blank, s) \in DecodeStates
      /\ RunOf(Decoder, DecodeStates, Text!Blank, s \o <<c>>)
         = Decoder[<<RunOf(Decoder, DecodeStates, Text!Blank, s), c>>]
  BY <1>1, RunAfter
<1>3. /\ Text!Decoded(s) = RunOf(Decoder, DecodeStates, Text!Blank, s)
      /\ Text!Decoded(s \o <<c>>) = RunOf(Decoder, DecodeStates, Text!Blank, s \o <<c>>)
  BY <1>2, DecodedRuns
<1> QED
  BY <1>1, <1>2, <1>3

\* The decoder of nothing has not begun.
LEMMA DecodedStarts == Text!Decoded(<<>>) = Text!Blank
<1>1. <<>> \in Seq(Text!Characters)
  OBVIOUS
<1>2. Reads(Decoder, DecodeStates, Text!Characters, Text!Blank)
  BY DecodedReader DEF Reads
<1>3. RunOf(Decoder, DecodeStates, Text!Blank, <<>>) = Text!Blank
  BY <1>2, RunStarts
<1> QED
  BY <1>1, <1>3, DecodedRuns

------------------------------------------------------------------------------
(* The pieces one after the other.                                          *)

Concat(D) == [p \in Seq(D) \X Seq(D) |-> p[1] \o p[2]]

\* A reader whose state is what it has put together so far.
LEMMA ConcatReader ==
  ASSUME NEW D
  PROVE  /\ Reads(Concat(D), Seq(D), Seq(D), <<>>)
         /\ \A x, y \in Seq(D) : Concat(D)[<<x, y>>] = x \o y
<1>1. <<>> \in Seq(D) /\ \A x, y \in Seq(D) : x \o y \in Seq(D)
  OBVIOUS
<1>2. Concat(D) \in [Seq(D) \X Seq(D) -> Seq(D)]
  <2> DEFINE V == Seq(D)
  <2>1. \A p \in V \X V : p[1] \o p[2] \in V
    BY <1>1
  <2>2. Concat(D) = [p \in V \X V |-> p[1] \o p[2]]
    BY DEF Concat
  <2> HIDE DEF V
  <2>3. Concat(D) \in [V \X V -> V]
    BY <2>1, <2>2
  <2> QED
    BY <2>3 DEF V
<1>3. \A x, y \in Seq(D) : Concat(D)[<<x, y>>] = x \o y
  BY DEF Concat
<1> QED
  BY <1>1, <1>2, <1>3 DEF Reads

\* FlattenSeq is a run of concatenations.
LEMMA FlattenRuns ==
  ASSUME NEW D, NEW ss \in Seq(Seq(D))
  PROVE  Text!FlattenSeq(ss) = RunOf(Concat(D), Seq(D), <<>>, ss)
<1> DEFINE n == Len(ss)
           f == Concat(D)
           V == Seq(D)
           Eq(h) == h = [i \in 1 .. n |-> IF i = 1 THEN ss[i] ELSE h[i - 1] \o ss[i]]
           flat == CHOOSE h : Eq(h)
<1>1. /\ n \in Nat /\ \A k \in 1 .. n : ss[k] \in V
      /\ Reads(f, V, V, <<>>) /\ ss \in Seq(V) /\ \A x, y \in V : f[<<x, y>>] = x \o y
  <2>1. n \in Nat /\ \A k \in 1 .. n : ss[k] \in V
    OBVIOUS
  <2> QED
    BY <2>1, ConcatReader
<1>2. Text!FlattenSeq(ss) = IF n = 0 THEN ss ELSE flat[n]
  BY DEF Text!FlattenSeq
<1>3. PICK acc : IsRun(acc, f, V, <<>>, ss)
  <2> HIDE DEF f, V, n
  <2> QED
    BY <1>1, RunExists
<1> HIDE DEF f, V
<1>4. /\ acc \in [0 .. n -> V] /\ acc[0] = <<>>
      /\ \A k \in 1 .. n : acc[k] = f[<<acc[k - 1], ss[k]>>]
  BY <1>3 DEF IsRun
<1>5. RunOf(f, V, <<>>, ss) = acc[n]
  BY <1>1, <1>3, RunIs
<1> HIDE DEF n
<1>6. ASSUME NEW k \in 1 .. n PROVE acc[k] = IF k = 1 THEN ss[k] ELSE acc[k - 1] \o ss[k]
  <2>1. k - 1 \in 0 .. n /\ acc[k - 1] \in V /\ ss[k] \in V
    BY <1>1, <1>4
  <2>2. acc[k] = acc[k - 1] \o ss[k]
    BY <1>1, <1>4, <2>1
  <2>3. k = 1 => acc[k - 1] = <<>>
    BY <1>4
  <2>4. <<>> \o ss[k] = ss[k]
    BY <2>1 DEF V
  <2> QED
    BY <2>2, <2>3, <2>4
<1>7. Eq(flat)
  <2> DEFINE h == [k \in 1 .. n |-> acc[k]]
  <2>1. ASSUME NEW k \in 1 .. n PROVE h[k] = IF k = 1 THEN ss[k] ELSE h[k - 1] \o ss[k]
    <3>1. k # 1 => k - 1 \in 1 .. n
      BY <1>1
    <3> QED
      BY <1>6, <3>1
  <2>2. Eq(h)
    BY <2>1
  <2> HIDE DEF h, Eq
  <2> QED
    BY <2>2
<1>8. ASSUME NEW k \in 1 .. n PROVE flat[k] = IF k = 1 THEN ss[k] ELSE flat[k - 1] \o ss[k]
  <2> HIDE DEF flat
  <2> QED
    BY <1>7
<1> HIDE DEF flat, Eq
<1>9. CASE n = 0
  BY <1>1, <1>2, <1>4, <1>5, <1>9 DEF n, f, V
<1>10. CASE n # 0
  <2> DEFINE T == {k \in 0 .. n : k # 0 => flat[k] = acc[k]}
  <2>1. 0 \in T
    BY <1>1
  <2>2. ASSUME NEW k \in 0 .. n - 1, k \in T PROVE k + 1 \in T
    <3>1. k + 1 \in 1 .. n /\ (k + 1) - 1 = k /\ (k + 1 = 1 <=> k = 0)
      BY <1>1
    <3> QED
      BY <1>6, <1>8, <2>2, <3>1
  <2> HIDE DEF T
  <2>3. n \in T
    <3>1. 0 .. n \subseteq T
      BY <1>1, <2>1, <2>2, UpTo
    <3> QED
      BY <1>1, <3>1
  <2>4. flat[n] = acc[n]
    BY <1>10, <2>3 DEF T
  <2> QED
    BY <1>2, <1>5, <1>10, <2>4 DEF f, V
<1> QED
  BY <1>9, <1>10

\* One more piece comes last.
LEMMA FlattenSteps ==
  ASSUME NEW D, NEW ss \in Seq(Seq(D)), NEW y \in Seq(D)
  PROVE  /\ Text!FlattenSeq(ss) \in Seq(D)
         /\ Text!FlattenSeq(ss \o <<y>>) = Text!FlattenSeq(ss) \o y
<1> DEFINE f == Concat(D)
           V == Seq(D)
           t == <<y>>
<1>1. Reads(f, V, V, <<>>) /\ \A x, z \in V : f[<<x, z>>] = x \o z
  BY ConcatReader
<1>2. ss \in Seq(V) /\ y \in V
  OBVIOUS
<1> HIDE DEF f, V
<1>3. /\ ss \o t \in Seq(V) /\ RunOf(f, V, <<>>, ss) \in V
      /\ RunOf(f, V, <<>>, ss \o t) = f[<<RunOf(f, V, <<>>, ss), y>>]
  BY <1>1, <1>2, RunAfter
<1>4. /\ Text!FlattenSeq(ss) = RunOf(f, V, <<>>, ss)
      /\ Text!FlattenSeq(ss \o t) = RunOf(f, V, <<>>, ss \o t)
  BY <1>2, <1>3, FlattenRuns DEF f, V
<1>5. Text!FlattenSeq(ss) \in V /\ Text!FlattenSeq(ss \o t) = Text!FlattenSeq(ss) \o y
  BY <1>1, <1>2, <1>3, <1>4
<1> QED
  BY <1>5 DEF V

\* No pieces, nothing.
LEMMA FlattenStarts == Text!FlattenSeq(<<>>) = <<>>
BY DEF Text!FlattenSeq

\* The pieces that F makes of the elements of t, one after the other.
MapsTo(F, C, D) == F \in [C -> Seq(D)]
Pieces(F, t) == Text!FlattenSeq([k \in DOMAIN t |-> F[t[k]]])

\* The piece of c comes after those of t.
Grows(F, D, t, c) ==
  Pieces(F, t) \in Seq(D) /\ Pieces(F, t \o <<c>>) = Pieces(F, t) \o F[c]

\* The pieces of a text that grows by a character.
LEMMA PiecesSteps ==
  ASSUME NEW C, NEW D, NEW F, MapsTo(F, C, D), NEW t \in Seq(C), NEW c \in C
  PROVE  Grows(F, D, t, c)
<1> DEFINE V == Seq(D)
           s == [k \in DOMAIN t |-> F[t[k]]]
           st == [k \in DOMAIN (t \o <<c>>) |-> F[(t \o <<c>>)[k]]]
<1>1. /\ DOMAIN t = 1 .. Len(t) /\ Len(t) \in Nat /\ \A k \in 1 .. Len(t) : t[k] \in C
      /\ DOMAIN (t \o <<c>>) = 1 .. Len(t) + 1 /\ (t \o <<c>>)[Len(t) + 1] = c
      /\ \A k \in 1 .. Len(t) : (t \o <<c>>)[k] = t[k]
  OBVIOUS
<1>2. F \in [C -> V] /\ F[c] \in V
  BY DEF MapsTo
<1> HIDE DEF V
<1>3. s \in Seq(V) /\ Len(s) = Len(t)
  <2>1. s \in [1 .. Len(t) -> V]
    BY <1>1, <1>2
  <2> QED
    BY <1>1, <2>1
<1>4. st = s \o <<F[c]>>
  <2> DEFINE u == s \o <<F[c]>>
  <2>1. /\ u = [k \in 1 .. Len(t) + 1 |-> u[k]] /\ u[Len(t) + 1] = F[c]
        /\ \A k \in 1 .. Len(t) : u[k] = s[k]
    BY <1>1, <1>2, <1>3
  <2>2. st = [k \in 1 .. Len(t) + 1 |-> F[(t \o <<c>>)[k]]]
    BY <1>1
  <2>3. ASSUME NEW k \in 1 .. Len(t) + 1 PROVE F[(t \o <<c>>)[k]] = u[k]
    <3>1. CASE k = Len(t) + 1
      BY <1>1, <2>1, <3>1
    <3>2. CASE k # Len(t) + 1
      <4>1. k \in 1 .. Len(t)
        BY <1>1, <3>2
      <4> QED
        BY <1>1, <2>1, <4>1
    <3> QED
      BY <3>1, <3>2
  <2> HIDE DEF u
  <2> QED
    BY <2>1, <2>2, <2>3 DEF u
<1> HIDE DEF s, st
<1>5. Text!FlattenSeq(s) \in Seq(D) /\ Text!FlattenSeq(s \o <<F[c]>>) = Text!FlattenSeq(s) \o F[c]
  BY <1>2, <1>3, FlattenSteps DEF V
<1> QED
  BY <1>4, <1>5 DEF Grows, Pieces, s, st

\* A text of nothing has no pieces.
LEMMA PiecesStart ==
  ASSUME NEW F PROVE Pieces(F, <<>>) = <<>>
<1>1. [k \in DOMAIN <<>> |-> F[<<>>[k]]] = <<>>
  OBVIOUS
<1> QED
  BY <1>1, FlattenStarts DEF Pieces

------------------------------------------------------------------------------
(* The overlay's names.                                                     *)

Chars == Text!Characters
Escapes == [c \in Chars |-> Text!Escape(c)]

\* The escapes are written in characters that the reader knows.
LEMMA EscapesAre ==
  /\ MapsTo(Escapes, Chars, JsonChars)
  /\ \A c \in Chars : Escapes[c] = Text!Escape(c)
<1>1. ASSUME NEW c \in Chars PROVE Text!Escape(c) \in Seq(JsonChars)
  <2>1. c \in JsonChars /\ "\\" \in JsonChars /\ "n" \in JsonChars
        /\ "u" \in JsonChars /\ "0" \in JsonChars /\ "1" \in JsonChars
    BY DEF JsonChars, Chars, Text!Characters
  <2>2. <<c>> \in Seq(JsonChars) /\ <<"\\", c>> \in Seq(JsonChars)
        /\ <<"\\", "n">> \in Seq(JsonChars) /\ <<"\\", "u", "0", "0", "0", "1">> \in Seq(JsonChars)
    BY <2>1
  <2> QED
    BY <2>2 DEF Text!Escape
<1> QED
  BY <1>1 DEF Escapes, MapsTo

\* Concatenation is associative.
IsAssociative(x, y, z) == (x \o y) \o z = x \o (y \o z)
\* Concatenation is associative, as a fact that a proof can name.
LEMMA ConcatIsAssociative ==
  ASSUME NEW S, NEW x \in Seq(S), NEW y \in Seq(S), NEW z \in Seq(S)
  PROVE  IsAssociative(x, y, z)
BY DEF IsAssociative

\* The reader inside a string whose value so far is t.
Inside(t) == [mode |-> "in", value |-> t]

Escaping(t) == [mode |-> "escape", value |-> t]

\* A backslash begins an escape.
LEMMA EscapeBegins ==
  ASSUME NEW p \in Seq(JsonChars), NEW t \in Seq(Chars), Text!ReadJson(p) = Inside(t)
  PROVE  /\ p \o <<"\\">> \in Seq(JsonChars)
         /\ Text!ReadJson(p \o <<"\\">>) = Escaping(t)
<1>1. "\\" \in JsonChars
  BY DEF JsonChars, Text!Characters
<1>2. Text!JsonStep(Inside(t), "\\") = Escaping(t)
  BY DEF Inside, Escaping, Text!JsonStep, Text!Control
<1> QED
  BY <1>1, <1>2, ReadJsonSteps

\* The reader comes out of an escape with the character.
LEMMA EscapeReadsBack ==
  ASSUME NEW p \in Seq(JsonChars), NEW t \in Seq(Chars), Text!ReadJson(p) = Inside(t),
         NEW c \in Chars
  PROVE  Text!ReadJson(p \o Text!Escape(c)) = Inside(t \o <<c>>)
<1>1. /\ c \in JsonChars /\ "\\" \in JsonChars /\ "n" \in JsonChars
      /\ "u" \in JsonChars /\ "0" \in JsonChars /\ "1" \in JsonChars
  BY DEF JsonChars, Chars, Text!Characters
<1>2. \A d \in Chars : Append(t, d) = t \o <<d>>
  OBVIOUS
<1>3. CASE c \in {"\"", "\\"}
  <2>1. Text!Escape(c) = <<"\\">> \o <<c>>
    <3>1. Text!Escape(c) = <<"\\", c>>
      BY <1>3 DEF Text!Escape
    <3> QED
      BY <3>1
  <2>2. p \o Text!Escape(c) = (p \o <<"\\">>) \o <<c>>
    BY <1>1, <2>1
  <2>3. p \o <<"\\">> \in Seq(JsonChars)
        /\ Text!ReadJson(p \o <<"\\">>) = Escaping(t)
    BY EscapeBegins
  <2>4. Text!JsonStep(Escaping(t), c) = Inside(t \o <<c>>)
    BY <1>2, <1>3 DEF Inside, Escaping, Text!JsonStep, Text!Control
  <2> QED
    BY <1>1, <2>2, <2>3, <2>4, ReadJsonSteps
<1>4. CASE c = "NL"
  <2>1. Text!Escape(c) = <<"\\">> \o <<"n">>
    BY <1>4 DEF Text!Escape
  <2>2. p \o Text!Escape(c) = (p \o <<"\\">>) \o <<"n">>
    BY <1>1, <2>1
  <2>3. p \o <<"\\">> \in Seq(JsonChars)
        /\ Text!ReadJson(p \o <<"\\">>) = Escaping(t)
    BY EscapeBegins
  <2>4. Text!JsonStep(Escaping(t), "n") = Inside(t \o <<c>>)
    BY <1>2, <1>4 DEF Inside, Escaping, Text!JsonStep, Text!Control
  <2> QED
    BY <1>1, <2>2, <2>3, <2>4, ReadJsonSteps
<1>5. CASE c = "SOH"
  <2> DEFINE q == p \o <<"\\">>
             r == q \o <<"u">>
             r1 == r \o <<"0">>
             r2 == r1 \o <<"0">>
             r3 == r2 \o <<"0">>
             hex == [mode |-> "hex", value |-> t]
  <2>1. p \o Text!Escape(c) = r3 \o <<"1">>
    <3>1. Text!Escape(c) = <<"\\", "u", "0", "0", "0", "1">>
      BY <1>5 DEF Text!Escape
    <3> DEFINE a == <<"\\">>
               u == <<"u">>
               z == <<"0">>
               o == <<"1">>
               p1 == p \o a
               p2 == p1 \o u
               p3 == p2 \o z
               p4 == p3 \o z
               o1 == z \o o
               o2 == z \o o1
               o3 == z \o o2
               o4 == u \o o3
    <3>2. a \in Seq(JsonChars) /\ u \in Seq(JsonChars) /\ z \in Seq(JsonChars)
          /\ o \in Seq(JsonChars)
      BY <1>1
    <3>3. <<"\\", "u", "0", "0", "0", "1">> = a \o o4
      OBVIOUS
    <3> HIDE DEF a, u, z, o
    <3>4. o1 \in Seq(JsonChars) /\ p1 \in Seq(JsonChars)
      BY <3>2
    <3> HIDE DEF o1, p1
    <3>5. o2 \in Seq(JsonChars) /\ p2 \in Seq(JsonChars)
      BY <3>2, <3>4
    <3> HIDE DEF o2, p2
    <3>6. o3 \in Seq(JsonChars) /\ p3 \in Seq(JsonChars)
      BY <3>2, <3>5
    <3> HIDE DEF o3, p3
    <3>7. o4 \in Seq(JsonChars) /\ p4 \in Seq(JsonChars)
      BY <3>2, <3>6
    <3> HIDE DEF o4, p4
    <3>8. p \o (a \o o4) = p1 \o o4
      <4>1. IsAssociative(p, a, o4)
        BY <3>2, <3>7, ConcatIsAssociative
      <4> QED
        BY <4>1, Zenon DEF IsAssociative, p1
    <3>9. p1 \o o4 = p2 \o o3
      <4>1. IsAssociative(p1, u, o3)
        BY <3>2, <3>4, <3>6, ConcatIsAssociative
      <4> QED
        BY <4>1, Zenon DEF IsAssociative, p2, o4
    <3>10. p2 \o o3 = p3 \o o2
      <4>1. IsAssociative(p2, z, o2)
        BY <3>2, <3>5, ConcatIsAssociative
      <4> QED
        BY <4>1, Zenon DEF IsAssociative, p3, o3
    <3>11. p3 \o o2 = p4 \o o1
      <4>1. IsAssociative(p3, z, o1)
        BY <3>2, <3>4, <3>6, ConcatIsAssociative
      <4> QED
        BY <4>1, Zenon DEF IsAssociative, p4, o2
    <3>12. p4 \o o1 = (p4 \o z) \o o
      <4>1. IsAssociative(p4, z, o)
        BY <3>2, <3>7, ConcatIsAssociative
      <4> QED
        BY <4>1, Zenon DEF IsAssociative, o1
    <3>13. r3 \o <<"1">> = (p4 \o z) \o o
      BY DEF p1, p2, p3, p4, a, u, z, o
    <3> QED
      BY <3>1, <3>3, <3>8, <3>9, <3>10, <3>11, <3>12, <3>13
  <2>2. q \in Seq(JsonChars) /\ Text!ReadJson(q) = Escaping(t)
    BY EscapeBegins
  <2> HIDE DEF q
  <2>3. r \in Seq(JsonChars) /\ Text!ReadJson(r) = hex
    <3>1. Text!JsonStep(Escaping(t), "u") = hex
      BY DEF Escaping, Text!JsonStep, Text!Control
    <3> QED
      BY <1>1, <2>2, <3>1, ReadJsonSteps
  <2>4. Text!JsonStep(hex, "0") = hex
    BY DEF Text!JsonStep, Text!Control
  <2>5. Text!JsonStep(hex, "1") = Inside(t \o <<c>>)
    BY <1>2, <1>5 DEF Inside, Text!JsonStep, Text!Control
  <2> HIDE DEF r, hex
  <2>6. r1 \in Seq(JsonChars) /\ Text!ReadJson(r1) = hex
    BY <1>1, <2>3, <2>4, ReadJsonSteps
  <2> HIDE DEF r1
  <2>7. r2 \in Seq(JsonChars) /\ Text!ReadJson(r2) = hex
    BY <1>1, <2>6, <2>4, ReadJsonSteps
  <2> HIDE DEF r2
  <2>8. r3 \in Seq(JsonChars) /\ Text!ReadJson(r3) = hex
    BY <1>1, <2>7, <2>4, ReadJsonSteps
  <2> HIDE DEF r3
  <2> QED
    BY <1>1, <2>1, <2>5, <2>8, ReadJsonSteps
<1>6. CASE c \notin {"\"", "\\", "NL", "SOH"}
  <2>1. Text!Escape(c) = <<c>>
    BY <1>6 DEF Text!Escape
  <2>2. Text!JsonStep(Inside(t), c) = Inside(t \o <<c>>)
    BY <1>2, <1>6 DEF Inside, Text!JsonStep, Text!Control
  <2> QED
    BY <1>1, <2>1, <2>2, ReadJsonSteps
<1> QED
  BY <1>3, <1>4, <1>5, <1>6

Escaped(t) == Pieces(Escapes, t)

\* ci_json_string writes the escapes between quotes.
LEMMA JsonStringIs ==
  ASSUME NEW t \in Seq(Chars)
  PROVE  Text!ci_json_string(t) = <<"\"">> \o Escaped(t) \o <<"\"">>
<1>1. \A k \in DOMAIN t : t[k] \in Chars
  OBVIOUS
<1>2. [k \in DOMAIN t |-> Text!Escape(t[k])] = [k \in DOMAIN t |-> Escapes[t[k]]]
  BY <1>1, EscapesAre
<1> QED
  BY <1>2 DEF Text!ci_json_string, Escaped, Pieces

\* What holds of the escapes of every text.
JsonInv(t) ==
  /\ Escaped(t) \in Seq(JsonChars) /\ Text!ReadJson(<<"\"">> \o Escaped(t)) = Inside(t)
  /\ Text!JsonSize(t) \in Nat /\ Len(Escaped(t)) + 3 <= Text!JsonSize(t)

\* The text of nothing.
LEMMA JsonInvStarts == JsonInv(<<>>)
<1>1. Escaped(<<>>) = <<>>
  BY PiecesStart DEF Escaped
<1>2. "\"" \in JsonChars /\ <<>> \in Seq(JsonChars) /\ <<>> \o <<"\"">> = <<"\"">> \o <<>>
  BY DEF JsonChars, Text!Characters
<1>3. Text!ReadJson(<<>> \o <<"\"">>) = Text!JsonStep(JsonStart, "\"")
  BY <1>2, ReadJsonSteps, ReadJsonStarts
<1>4. Text!JsonStep(JsonStart, "\"") = Inside(<<>>)
  BY DEF JsonStart, Inside, Text!JsonStep, Text!Control
<1>5. Len(<<>>) + 3 <= 3 /\ 3 \in Nat
  OBVIOUS
<1>6. Text!ReadJson(<<"\"">> \o Escaped(<<>>)) = Inside(<<>>)
  BY <1>1, <1>2, <1>3, <1>4
<1> QED
  BY <1>1, <1>2, <1>5, <1>6, JsonSizeStarts DEF JsonInv

\* One more character: its escape is counted for at least what it takes, and read back.
LEMMA JsonInvSteps ==
  ASSUME NEW t \in Seq(Chars), NEW c \in Chars, JsonInv(t)
  PROVE  JsonInv(t \o <<c>>)
<1> DEFINE e == Escaped(t)
           q == <<"\"">>
<1>1. e \in Seq(JsonChars) /\ Escaped(t \o <<c>>) = e \o Text!Escape(c)
      /\ Text!Escape(c) \in Seq(JsonChars)
  <2>1. Pieces(Escapes, t) \in Seq(JsonChars)
        /\ Pieces(Escapes, t \o <<c>>) = Pieces(Escapes, t) \o Escapes[c]
    <3>1. MapsTo(Escapes, Chars, JsonChars)
      BY EscapesAre
    <3>2. Grows(Escapes, JsonChars, t, c)
      BY <3>1, PiecesSteps
    <3> QED
      BY <3>2 DEF Grows
  <2>2. Escapes[c] = Text!Escape(c)
    BY EscapesAre
  <2>3. Text!Escape(c) \in Seq(JsonChars)
    <3>1. Escapes[c] \in Seq(JsonChars)
      BY EscapesAre DEF MapsTo
    <3> QED
      BY <2>2, <3>1
  <2> QED
    BY <2>1, <2>2, <2>3 DEF Escaped
<1>2. q \in Seq(JsonChars)
  BY DEF JsonChars, Text!Characters
<1> HIDE DEF e, q
<1>3. q \o e \in Seq(JsonChars) /\ (q \o e) \o Text!Escape(c) = q \o (e \o Text!Escape(c))
  <2>1. e \in Seq(JsonChars) /\ Text!Escape(c) \in Seq(JsonChars)
    BY <1>1
  <2>2. q \o e \in Seq(JsonChars)
    BY <1>2, <2>1, ConcatProperties
  <2>3. (q \o e) \o Text!Escape(c) = q \o (e \o Text!Escape(c))
    BY <1>2, <2>1
  <2> QED
    BY <2>2, <2>3
<1>4. Text!ReadJson(q \o e) = Inside(t)
  BY DEF JsonInv, e, q
<1>5. Text!ReadJson((q \o e) \o Text!Escape(c)) = Inside(t \o <<c>>)
  BY <1>3, <1>4, EscapeReadsBack
<1>6. Text!JsonSize(t) \in Nat /\ Text!JsonSize(t \o <<c>>) = Text!Counted(Text!JsonSize(t), c)
  BY JsonSizeSteps DEF Chars
<1>7. Len(e \o Text!Escape(c)) = Len(e) + Len(Text!Escape(c)) /\ Len(e) \in Nat
  BY <1>1
<1>8. /\ Text!Counted(Text!JsonSize(t), c) \in Nat
      /\ Text!JsonSize(t) + Len(Text!Escape(c)) <= Text!Counted(Text!JsonSize(t), c)
      /\ Len(Text!Escape(c)) \in Nat
  <2>1. CASE c \in {"\"", "\\"}
    <3>1. \A n \in Nat : Text!Counted(n, c) = n + 2
      BY <2>1 DEF Text!Counted, Text!Control
    <3>2. Text!Escape(c) = <<"\\", c>>
      BY <2>1 DEF Text!Escape
    <3>3. Len(<<"\\", c>>) = 2
      OBVIOUS
    <3>4. Text!Counted(Text!JsonSize(t), c) = Text!JsonSize(t) + 2
      BY <1>6, <3>1
    <3>5. Len(Text!Escape(c)) = 2
      BY <3>2, <3>3
    <3> QED
      BY <1>6, <3>4, <3>5
  <2>2. CASE c = "NL"
    <3>0. c \in Text!Control
      BY <2>2 DEF Text!Control
    <3>1. \A n \in Nat : Text!Counted(n, c) = n + 6
      BY <3>0 DEF Text!Counted, Text!Control
    <3>2. Text!Escape(c) = <<"\\", "n">>
      BY <2>2 DEF Text!Escape
    <3>3. Len(<<"\\", "n">>) = 2
      OBVIOUS
    <3>4. Text!Counted(Text!JsonSize(t), c) = Text!JsonSize(t) + 6
      BY <1>6, <3>1
    <3>5. Len(Text!Escape(c)) = 2
      BY <3>2, <3>3
    <3> QED
      BY <1>6, <3>4, <3>5
  <2>3. CASE c = "SOH"
    <3>1. \A n \in Nat : Text!Counted(n, c) = n + 6
      BY <2>3 DEF Text!Counted, Text!Control
    <3>2. Text!Escape(c) = <<"\\", "u", "0", "0", "0", "1">>
      BY <2>3 DEF Text!Escape
    <3>3. Len(<<"\\", "u", "0", "0", "0", "1">>) = 6
      OBVIOUS
    <3>4. Text!Counted(Text!JsonSize(t), c) = Text!JsonSize(t) + 6
      BY <1>6, <3>1
    <3>5. Len(Text!Escape(c)) = 6
      BY <3>2, <3>3
    <3> QED
      BY <1>6, <3>4, <3>5
  <2>4. CASE c \notin {"\"", "\\", "NL", "SOH"}
    <3>1. \A n \in Nat : Text!Counted(n, c) = n + 1
      BY <2>4 DEF Text!Counted, Text!Control
    <3>2. Text!Escape(c) = <<c>>
      BY <2>4 DEF Text!Escape
    <3>3. Len(<<c>>) = 1
      OBVIOUS
    <3>4. Text!Counted(Text!JsonSize(t), c) = Text!JsonSize(t) + 1
      BY <1>6, <3>1
    <3>5. Len(Text!Escape(c)) = 1
      BY <3>2, <3>3
    <3> QED
      BY <1>6, <3>4, <3>5
  <2> QED
    BY <2>1, <2>2, <2>3, <2>4
<1>9. Len(e) + 3 <= Text!JsonSize(t)
  BY DEF JsonInv, e
<1>10. /\ Text!JsonSize(t \o <<c>>) \in Nat
       /\ Len(e \o Text!Escape(c)) + 3 <= Text!JsonSize(t \o <<c>>)
  BY <1>6, <1>7, <1>8, <1>9
<1>11. e \o Text!Escape(c) \in Seq(JsonChars)
  BY <1>1
<1>12. Text!ReadJson(q \o (e \o Text!Escape(c))) = Inside(t \o <<c>>)
  BY <1>3, <1>5
<1> QED
  BY <1>1, <1>10, <1>11, <1>12 DEF JsonInv, q

------------------------------------------------------------------------------
(* Names in parameter files.                                                *)

Quotings == [c \in Chars |-> Text!Quoted(c)]

\* What Bazel writes are characters again.
LEMMA QuotingsAre ==
  /\ MapsTo(Quotings, Chars, Chars)
  /\ \A c \in Chars : Quotings[c] = Text!Quoted(c)
<1>1. ASSUME NEW c \in Chars PROVE Text!Quoted(c) \in Seq(Chars)
  <2>1. c \in Chars /\ "'" \in Chars /\ "\\" \in Chars
    BY DEF Chars, Text!Characters
  <2>2. <<c>> \in Seq(Chars) /\ <<"'", "\\", "'", "'">> \in Seq(Chars)
    BY <2>1
  <2> QED
    BY <2>2 DEF Text!Quoted
<1> QED
  BY <1>1 DEF Quotings, MapsTo

\* decode_shell_argument with a value so far, inside quotes q or none.
Reading(q, t) == [quote |-> q, started |-> TRUE, separated |-> FALSE,
                  escaped |-> FALSE, error |-> FALSE, value |-> t]
QuotedName(t) == Pieces(Quotings, t)

\* What holds of every name in single quotes, and of every harmless name.
ShellInv(t) ==
  /\ QuotedName(t) \in Seq(Chars)
  /\ Text!Decoded(<<"'">> \o QuotedName(t)) = Reading("'", t)
  /\ (\A k \in DOMAIN t : t[k] \in {"a", "n"}) =>
       Text!Decoded(t) = IF t = <<>> THEN Text!Blank ELSE Reading("none", t)

\* A step on a state that is known.
LEMMA DecodedNext ==
  ASSUME NEW s \in Seq(Chars), NEW c \in Chars
  PROVE  s \o <<c>> \in Seq(Chars) /\ Text!Decoded(s) \in DecodeStates
         /\ Text!Decoded(s \o <<c>>) = Text!DecodeStep(Text!Decoded(s), c)
BY DecodedSteps DEF Chars

\* The name of nothing.
LEMMA ShellInvStarts == ShellInv(<<>>)
<1>1. QuotedName(<<>>) = <<>>
  BY PiecesStart DEF QuotedName
<1>2. "'" \in Chars /\ <<>> \in Seq(Chars) /\ <<>> \o <<"'">> = <<"'">> \o <<>>
  BY DEF Chars, Text!Characters
<1>3. Text!Decoded(<<>> \o <<"'">>) = Text!DecodeStep(Text!Blank, "'")
  BY <1>2, DecodedNext, DecodedStarts
<1>4. Text!DecodeStep(Text!Blank, "'") = Reading("'", <<>>)
  BY DEF Text!Blank, Reading, Text!DecodeStep, Text!IsSeparator, Text!IsSecondArgument, Text!Space
<1>5. Text!Decoded(<<"'">> \o QuotedName(<<>>)) = Reading("'", <<>>)
  BY <1>1, <1>2, <1>3, <1>4
<1> QED
  BY <1>1, <1>2, <1>5, DecodedStarts DEF ShellInv

\* The decoder, inside single quotes, comes out of a quoted character with it.
LEMMA QuotedReadsBack ==
  ASSUME NEW p \in Seq(Chars), NEW t \in Seq(Chars), Text!Decoded(p) = Reading("'", t),
         NEW c \in Chars
  PROVE  Text!Decoded(p \o Text!Quoted(c)) = Reading("'", t \o <<c>>)
<1>1. "'" \in Chars /\ "\\" \in Chars
  BY DEF Chars, Text!Characters
<1>2. \A d \in Chars : Append(t, d) = t \o <<d>>
  OBVIOUS
<1> USE DEF Text!DecodeStep, Text!IsSeparator, Text!IsSecondArgument, Text!Space
<1>3. CASE c # "'"
  <2>1. Text!Quoted(c) = <<c>>
    BY <1>3 DEF Text!Quoted
  <2>2. Text!DecodeStep(Reading("'", t), c) = Reading("'", t \o <<c>>)
    BY <1>2, <1>3 DEF Reading
  <2> HIDE DEF Text!DecodeStep
  <2> QED
    BY <2>1, <2>2, DecodedNext
<1>4. CASE c = "'"
  <2> DEFINE q == p \o <<"'">>
             r == q \o <<"\\">>
             s == r \o <<"'">>
             escaped == [quote |-> "none", started |-> TRUE, separated |-> FALSE,
                         escaped |-> TRUE, error |-> FALSE, value |-> t]
  <2>1. p \o Text!Quoted(c) = s \o <<"'">>
    <3> DEFINE o == <<"'">>
               a == <<"\\">>
               o1 == o \o o
               o2 == a \o o1
    <3>1. Text!Quoted(c) = o \o o2
      BY <1>4 DEF Text!Quoted
    <3>2. o \in Seq(Chars) /\ a \in Seq(Chars)
      BY <1>1
    <3> HIDE DEF o, a
    <3>3. o1 \in Seq(Chars) /\ p \o o \in Seq(Chars)
      BY <3>2
    <3> HIDE DEF o1
    <3>4. o2 \in Seq(Chars) /\ (p \o o) \o a \in Seq(Chars)
      BY <3>2, <3>3
    <3> HIDE DEF o2
    <3>5. p \o (o \o o2) = (p \o o) \o o2
      <4>1. IsAssociative(p, o, o2)
        BY <3>2, <3>4, ConcatIsAssociative
      <4> QED
        BY <4>1, Zenon DEF IsAssociative
    <3>6. (p \o o) \o o2 = ((p \o o) \o a) \o o1
      <4>1. IsAssociative(p \o o, a, o1)
        BY <3>2, <3>3, ConcatIsAssociative
      <4> QED
        BY <4>1, Zenon DEF IsAssociative, o2
    <3>7. ((p \o o) \o a) \o o1 = (((p \o o) \o a) \o o) \o o
      <4>1. IsAssociative((p \o o) \o a, o, o)
        BY <3>2, <3>4, ConcatIsAssociative
      <4> QED
        BY <4>1, Zenon DEF IsAssociative, o1
    <3>8. s \o <<"'">> = (((p \o o) \o a) \o o) \o o
      BY DEF o, a
    <3> QED
      BY <3>1, <3>5, <3>6, <3>7, <3>8
  <2>2. Text!DecodeStep(Reading("'", t), "'") = Reading("none", t)
    BY DEF Reading
  <2>3. Text!DecodeStep(Reading("none", t), "\\") = escaped
    BY DEF Reading
  <2>4. Text!DecodeStep(escaped, "'") = Reading("none", t \o <<c>>)
    BY <1>2, <1>4 DEF Reading
  <2>5. Text!DecodeStep(Reading("none", t \o <<c>>), "'") = Reading("'", t \o <<c>>)
    BY DEF Reading
  <2> HIDE DEF Text!DecodeStep, escaped
  <2>6. q \in Seq(Chars) /\ Text!Decoded(q) = Reading("none", t)
    BY <1>1, <2>2, DecodedNext
  <2> HIDE DEF q
  <2>7. r \in Seq(Chars) /\ Text!Decoded(r) = escaped
    BY <1>1, <2>3, <2>6, DecodedNext
  <2> HIDE DEF r
  <2>8. s \in Seq(Chars) /\ Text!Decoded(s) = Reading("none", t \o <<c>>)
    BY <1>1, <2>4, <2>7, DecodedNext
  <2> HIDE DEF s
  <2> QED
    BY <1>1, <2>1, <2>5, <2>8, DecodedNext
<1> QED
  BY <1>3, <1>4

\* One more character in quotes, and outside them while all are harmless.
LEMMA ShellInvSteps ==
  ASSUME NEW t \in Seq(Chars), NEW c \in Chars, ShellInv(t)
  PROVE  ShellInv(t \o <<c>>)
<1> DEFINE e == QuotedName(t)
           q == <<"'">>
           tc == t \o <<c>>
<1>1. e \in Seq(Chars) /\ QuotedName(tc) = e \o Text!Quoted(c) /\ Text!Quoted(c) \in Seq(Chars)
  <2>1. Grows(Quotings, Chars, t, c)
    <3>1. MapsTo(Quotings, Chars, Chars)
      BY QuotingsAre
    <3> QED
      BY <3>1, PiecesSteps
  <2>2. Quotings[c] = Text!Quoted(c)
    BY QuotingsAre
  <2>3. Text!Quoted(c) \in Seq(Chars)
    <3>1. Quotings[c] \in Seq(Chars)
      BY QuotingsAre DEF MapsTo
    <3> QED
      BY <2>2, <3>1
  <2> QED
    BY <2>1, <2>2, <2>3 DEF Grows, QuotedName
<1>2. q \in Seq(Chars)
  <2>1. "'" \in Chars
    BY DEF Chars, Text!Characters
  <2> QED
    BY <2>1
<1> HIDE DEF e, q
<1>3. q \o e \in Seq(Chars) /\ (q \o e) \o Text!Quoted(c) = q \o (e \o Text!Quoted(c))
  <2>1. e \in Seq(Chars) /\ Text!Quoted(c) \in Seq(Chars)
    BY <1>1
  <2>2. q \o e \in Seq(Chars)
    BY <1>2, <2>1, ConcatProperties
  <2>3. (q \o e) \o Text!Quoted(c) = q \o (e \o Text!Quoted(c))
    BY <1>2, <2>1
  <2> QED
    BY <2>2, <2>3
<1>4. Text!Decoded(q \o e) = Reading("'", t)
  BY DEF ShellInv, e, q
<1>5. Text!Decoded((q \o e) \o Text!Quoted(c)) = Reading("'", tc)
  BY <1>3, <1>4, QuotedReadsBack
<1>6. Text!Decoded(q \o QuotedName(tc)) = Reading("'", tc) /\ QuotedName(tc) \in Seq(Chars)
  <2>1. e \o Text!Quoted(c) \in Seq(Chars)
    BY <1>1
  <2>2. q \o QuotedName(tc) = (q \o e) \o Text!Quoted(c)
    BY <1>1, <1>3
  <2> QED
    BY <1>1, <1>5, <2>1, <2>2
<1>7. ASSUME \A k \in DOMAIN tc : tc[k] \in {"a", "n"}
      PROVE  tc # <<>> /\ Text!Decoded(tc) = Reading("none", tc)
  <2>1. /\ \A k \in DOMAIN t : k \in DOMAIN tc /\ tc[k] = t[k]
        /\ Len(t) + 1 \in DOMAIN tc /\ tc[Len(t) + 1] = c /\ tc # <<>>
        /\ Append(t, c) = tc
    <3>1. Append(t, c) = tc
      OBVIOUS
    <3>2. \A k \in DOMAIN t : k \in DOMAIN tc /\ tc[k] = t[k]
      OBVIOUS
    <3>3. Len(t) + 1 \in DOMAIN tc /\ tc[Len(t) + 1] = c
      OBVIOUS
    <3> QED
      BY <3>1, <3>2, <3>3
  <2> HIDE DEF tc
  <2>2. c \in {"a", "n"} /\ \A k \in DOMAIN t : t[k] \in {"a", "n"}
    BY <1>7, <2>1
  <2>3. Text!Decoded(t) = IF t = <<>> THEN Text!Blank ELSE Reading("none", t)
    BY <2>2 DEF ShellInv
  <2>4. Text!Decoded(tc) = Text!DecodeStep(Text!Decoded(t), c)
    BY DecodedNext DEF tc
  <2>5. CASE t = <<>>
    <3>1. Text!DecodeStep(Text!Blank, c) = Reading("none", Append(<<>>, c))
      <4> DEFINE v == Append(<<>>, c)
      <4>1. c \notin Text!Space /\ c # "\\" /\ c \notin {"'", "\""}
        BY <2>2 DEF Text!Space
      <4>2. Text!DecodeStep(Text!Blank, c) = [Text!Blank EXCEPT !.started = TRUE, !.value = v]
        BY <4>1 DEF Text!Blank, Text!DecodeStep, Text!IsSeparator, Text!IsSecondArgument
      <4> HIDE DEF v
      <4>3. Text!DecodeStep(Text!Blank, c) = Reading("none", v)
        BY <4>2 DEF Text!Blank, Reading
      <4> QED
        BY <4>3 DEF v
    <3>2. Append(<<>>, c) = tc
      BY <2>1, <2>5
    <3> QED
      BY <2>1, <2>3, <2>4, <2>5, <3>1, <3>2
  <2>6. CASE t # <<>>
    <3>1. Text!DecodeStep(Reading("none", t), c) = Reading("none", tc)
      BY <2>1, <2>2 DEF Reading, Text!DecodeStep, Text!IsSeparator,
         Text!IsSecondArgument, Text!Space
    <3> QED
      BY <2>1, <2>3, <2>4, <2>6, <3>1
  <2> QED
    BY <2>5, <2>6
<1> HIDE DEF tc
<1>8. ShellInv(tc)
  BY <1>6, <1>7 DEF ShellInv, q
<1> QED
  BY <1>8 DEF tc

------------------------------------------------------------------------------
(* White space at the ends of a line.                                       *)

\* The positions trim keeps lie between the first and the last of them.
Kept(t) == {k \in DOMAIN t : t[k] \notin Text!Space}
IsTrimmed(t, i, j) ==
  /\ i \in Kept(t) /\ j \in Kept(t) /\ \A k \in Kept(t) : i <= k /\ k <= j

\* trim cuts before the first and after the last position it keeps.
LEMMA TrimIs ==
  ASSUME NEW t \in Seq(Chars), Kept(t) # {}
  PROVE  \E i, j \in 1 .. Len(t) : IsTrimmed(t, i, j) /\ Text!trim(t) = SubSeq(t, i, j)
<1> DEFINE S == Kept(t)
           i == CHOOSE i \in S : \A k \in S : i <= k
           j == CHOOSE j \in S : \A k \in S : j >= k
<1>1. S \subseteq 1 .. Len(t) /\ Len(t) \in Nat /\ S # {} /\ S \subseteq Nat
      /\ S \subseteq 0 .. Len(t)
  BY DEF Kept
<1>2. Text!trim(t) = SubSeq(t, i, j)
  BY DEF Text!trim, Kept
<1> HIDE DEF S
<1>3. i \in S /\ \A k \in S : i <= k
  <2>1. \E m \in S : \A y \in S : m <= y
    BY <1>1, NatMin
  <2> QED
    BY <2>1, Zenon
<1>4. j \in S /\ \A k \in S : j >= k
  <2>1. Max(S) \in S /\ \A y \in S : y <= Max(S)
    BY <1>1, MaxOf
  <2>2. \A y \in S : Max(S) >= y
    BY <1>1, <2>1
  <2>3. \E m \in S : \A y \in S : m >= y
    BY <2>1, <2>2
  <2> QED
    BY <2>3, Zenon
<1> HIDE DEF i, j
<1>5. \A k \in S : i <= k /\ k <= j
  BY <1>1, <1>3, <1>4
<1>6. i \in 1 .. Len(t) /\ j \in 1 .. Len(t)
  BY <1>1, <1>3, <1>4
<1>7. IsTrimmed(t, i, j)
  BY <1>3, <1>4, <1>5 DEF IsTrimmed, S
<1> QED
  BY <1>2, <1>6, <1>7

\* Nothing goes where there is no white space at the ends.
LEMMA TrimKeeps ==
  ASSUME NEW t \in Seq(Chars), t # <<>>, t[1] \notin Text!Space, t[Len(t)] \notin Text!Space
  PROVE  Text!trim(t) = t
<1>1. Len(t) \in Nat /\ 1 \in DOMAIN t /\ Len(t) \in DOMAIN t /\ DOMAIN t = 1 .. Len(t)
  OBVIOUS
<1>2. 1 \in Kept(t) /\ Len(t) \in Kept(t)
  BY <1>1 DEF Kept
<1>3. PICK i, j \in 1 .. Len(t) : IsTrimmed(t, i, j) /\ Text!trim(t) = SubSeq(t, i, j)
  BY <1>2, TrimIs
<1>4. i <= 1 /\ Len(t) <= j /\ i \in 1 .. Len(t) /\ j \in 1 .. Len(t)
  BY <1>2, <1>3 DEF IsTrimmed
<1>5. i = 1 /\ j = Len(t)
  <2> DEFINE n == Len(t)
  <2>1. n \in Nat /\ i \in 1 .. n /\ j \in 1 .. n /\ i <= 1 /\ n <= j
    BY <1>1, <1>4
  <2> HIDE DEF n
  <2>2. i = 1 /\ j = n
    BY <2>1
  <2> QED
    BY <2>2 DEF n
<1>6. SubSeq(t, 1, Len(t)) = t
  BY SubSeqFull
<1> QED
  BY <1>3, <1>5, <1>6

\* An argument outside quotes is accepted.
LEMMA ReadingIsAccepted ==
  ASSUME NEW s, NEW t, Text!Decoded(s) = Reading("none", t)
  PROVE  Text!decode_shell_argument(s) = [accepted |-> TRUE, value |-> t]
<1> DEFINE d == Text!Decoded(s)
           ok == ~d.error /\ ~d.escaped /\ d.quote = "none" /\ d.started
<1>1. d.error = FALSE /\ d.escaped = FALSE /\ d.quote = "none" /\ d.started = TRUE /\ d.value = t
  BY DEF Reading
<1>2. Text!decode_shell_argument(s) = [accepted |-> ok, value |-> d.value]
  BY DEF Text!decode_shell_argument
<1> HIDE DEF d
<1>3. ok = TRUE
  BY <1>1, Zenon
<1> HIDE DEF ok
<1> QED
  BY <1>1, <1>2, <1>3

\* A name that Bazel quotes is read back.
LEMMA ShellReadsBack ==
  ASSUME NEW t \in Seq(Chars), ShellInv(t)
  PROVE  Text!decode_shell_argument(Text!trim(Text!ShellQuote(t))) = [accepted |-> TRUE, value |-> t]
<1> DEFINE q == <<"'">>
           e == QuotedName(t)
<1>1. \A k \in DOMAIN t : t[k] \in Chars
  OBVIOUS
<1>2. [k \in DOMAIN t |-> Text!Quoted(t[k])] = [k \in DOMAIN t |-> Quotings[t[k]]]
  BY <1>1, QuotingsAre
<1>3. CASE t # <<>> /\ \A k \in DOMAIN t : t[k] \in {"a", "n"}
  <2>1. Text!ShellQuote(t) = t
    BY <1>3 DEF Text!ShellQuote
  <2>2. 1 \in DOMAIN t /\ Len(t) \in DOMAIN t
    BY <1>3
  <2>3. Text!trim(t) = t
    <3>1. t[1] \notin Text!Space /\ t[Len(t)] \notin Text!Space
      BY <1>3, <2>2 DEF Text!Space
    <3> QED
      BY <1>3, <3>1, TrimKeeps
  <2>4. Text!Decoded(t) = Reading("none", t)
    BY <1>3 DEF ShellInv
  <2> QED
    BY <2>1, <2>3, <2>4, ReadingIsAccepted
<1>4. CASE ~(t # <<>> /\ \A k \in DOMAIN t : t[k] \in {"a", "n"})
  <2> DEFINE w == (q \o e) \o q
  <2>1. Text!ShellQuote(t) = w
    BY <1>2, <1>4 DEF Text!ShellQuote, QuotedName, Pieces
  <2>2. q \in Seq(Chars) /\ e \in Seq(Chars) /\ "'" \in Chars
    <3>1. "'" \in Chars
      BY DEF Chars, Text!Characters
    <3> QED
      BY <3>1 DEF ShellInv
  <2>3. w \in Seq(Chars) /\ w # <<>> /\ w[1] = "'" /\ w[Len(w)] = "'"
    <3>1. Len(q) = 1 /\ q[1] = "'"
      OBVIOUS
    <3> HIDE DEF q, e
    <3>2. q \o e \in Seq(Chars) /\ (q \o e)[1] = "'" /\ Len(q \o e) \in Nat /\ Len(q \o e) >= 1
      <4>1. q \o e \in Seq(Chars) /\ Len(q \o e) = Len(q) + Len(e)
            /\ \A x \in 1 .. Len(q) + Len(e) :
                 (q \o e)[x] = IF x <= Len(q) THEN q[x] ELSE e[x - Len(q)]
        BY <2>2, ConcatProperties
      <4>2. Len(e) \in Nat
        BY <2>2
      <4>3. 1 \in 1 .. Len(q) + Len(e) /\ 1 <= Len(q)
        BY <3>1, <4>2
      <4> QED
        BY <3>1, <4>1, <4>2, <4>3
    <3> DEFINE b == q \o e
    <3> HIDE DEF b
    <3>3. b \in Seq(Chars) /\ b[1] = "'" /\ Len(b) \in Nat /\ Len(b) >= 1
      BY <3>2 DEF b
    <3>4. b \o q \in Seq(Chars) /\ Len(b \o q) = Len(b) + 1 /\ (b \o q)[1] = b[1]
          /\ (b \o q)[Len(b) + 1] = q[1]
      <4>1. b \o q \in Seq(Chars) /\ Len(b \o q) = Len(b) + Len(q)
            /\ \A x \in 1 .. Len(b) + Len(q) :
                 (b \o q)[x] = IF x <= Len(b) THEN b[x] ELSE q[x - Len(b)]
        BY <2>2, <3>3, ConcatProperties
      <4>2. /\ 1 \in 1 .. Len(b) + Len(q) /\ 1 <= Len(b) /\ Len(b) + 1 \in 1 .. Len(b) + Len(q)
            /\ ~(Len(b) + 1 <= Len(b)) /\ (Len(b) + 1) - Len(b) = 1
        BY <3>1, <3>3
      <4> QED
        BY <3>1, <4>1, <4>2
    <3>5. b \o q # <<>>
      BY <3>3, <3>4
    <3> QED
      BY <3>1, <3>3, <3>4, <3>5 DEF b
  <2>4. q \o e \in Seq(Chars)
    BY <2>2
  <2>5. Text!Decoded(q \o e) = Reading("'", t)
    BY DEF ShellInv
  <2> HIDE DEF e
  <2>6. Text!Decoded(w) = Text!DecodeStep(Reading("'", t), "'")
    <3>1. Text!Decoded((q \o e) \o <<"'">>) = Text!DecodeStep(Text!Decoded(q \o e), "'")
      BY <2>2, <2>4, DecodedNext
    <3> QED
      BY <2>5, <3>1
  <2>7. Text!DecodeStep(Reading("'", t), "'") = Reading("none", t)
    BY DEF Reading, Text!DecodeStep, Text!IsSeparator, Text!Space
  <2> HIDE DEF w
  <2>8. Text!trim(w) = w
    <3>1. w[1] \notin Text!Space /\ w[Len(w)] \notin Text!Space
      BY <2>3 DEF Text!Space
    <3> QED
      BY <2>3, <3>1, TrimKeeps
  <2> QED
    BY <2>1, <2>6, <2>7, <2>8, ReadingIsAccepted
<1> QED
  BY <1>3, <1>4

------------------------------------------------------------------------------
(* Two names in a line.                                                     *)

\* The decoder stays in P over characters in D.
LEMMA DecodedKeeps ==
  ASSUME NEW P, NEW D, D \subseteq Chars,
         \A x \in P : \A c \in D : Text!DecodeStep(x, c) \in P,
         NEW s \in Seq(Chars), Text!Decoded(s) \in P, NEW t \in Seq(D)
  PROVE  Text!Decoded(s \o t) \in P
<1> DEFINE n == Len(t)
           T == {k \in 0 .. n : Text!Decoded(s \o SubSeq(t, 1, k)) \in P}
<1>1. n \in Nat /\ t \in Seq(Chars) /\ \A k \in 1 .. n : t[k] \in D
  OBVIOUS
<1>2. 0 \in T
  <2>1. SubSeq(t, 1, 0) = <<>>
    OBVIOUS
  <2>2. s \o <<>> = s
    OBVIOUS
  <2>3. 0 \in 0 .. n
    BY <1>1
  <2> QED
    BY <2>1, <2>2, <2>3
<1>3. ASSUME NEW k \in 0 .. n - 1, k \in T PROVE k + 1 \in T
  <2> DEFINE u == SubSeq(t, 1, k)
             c == t[k + 1]
  <2>1. k + 1 \in 1 .. n /\ k + 1 \in 0 .. n /\ c \in D /\ c \in Chars
    BY <1>1
  <2>2. SubSeq(t, 1, k + 1) = u \o <<c>> /\ u \in Seq(Chars)
    BY <1>1, <2>1
  <2>3. Text!Decoded(s \o u) \in P
    BY <1>3
  <2> HIDE DEF u, c
  <2>4. s \o (u \o <<c>>) = (s \o u) \o <<c>> /\ s \o u \in Seq(Chars)
    BY <2>1, <2>2
  <2>5. Text!Decoded((s \o u) \o <<c>>) = Text!DecodeStep(Text!Decoded(s \o u), c)
    BY <2>1, <2>4, DecodedNext
  <2>6. Text!Decoded((s \o u) \o <<c>>) \in P
    BY <2>1, <2>3, <2>5
  <2> QED
    BY <2>1, <2>2, <2>4, <2>6
<1> HIDE DEF T
<1>4. n \in T
  <2> HIDE DEF n
  <2>1. 0 .. n \subseteq T
    BY <1>1, <1>2, <1>3, UpTo
  <2> QED
    BY <1>1, <2>1
<1>5. SubSeq(t, 1, n) = t
  BY SubSeqFull
<1> QED
  BY <1>4, <1>5 DEF T

\* An argument that has ended; another has begun; the line is in error.
Ended == {x \in DecodeStates : ~x.error /\ ~x.escaped /\ x.quote = "none" /\ x.started}
Apart == {x \in Ended : x.separated}
Failed == {x \in DecodeStates : x.error}

\* White space after an argument sets it apart, anything else after that is an error,
\* and an error stays one.
LEMMA DecodeStepKeeps ==
  /\ \A x \in Ended : \A c \in Text!Space : Text!DecodeStep(x, c) \in Apart
  /\ \A x \in Apart : \A c \in Chars \ Text!Space : Text!DecodeStep(x, c) \in Failed
  /\ \A x \in Failed : \A c \in Chars : Text!DecodeStep(x, c) \in Failed
<1>1. ASSUME NEW x \in Ended, NEW c \in Text!Space PROVE Text!DecodeStep(x, c) \in Apart
  <2>1. Text!DecodeStep(x, c) = [x EXCEPT !.separated = x.started]
    BY DEF Ended, Text!DecodeStep, Text!IsSeparator
  <2>2. x.started = TRUE
    BY Zenon DEF Ended, DecodeStates
  <2> QED
    BY <2>1, <2>2 DEF Ended, Apart, DecodeStates
<1>2. ASSUME NEW x \in Apart, NEW c \in Chars \ Text!Space PROVE Text!DecodeStep(x, c) \in Failed
  <2>1. Text!DecodeStep(x, c) = [x EXCEPT !.error = TRUE]
    BY DEF Ended, Apart, Text!DecodeStep, Text!IsSeparator, Text!IsSecondArgument
  <2> QED
    BY <2>1 DEF Ended, Apart, Failed, DecodeStates
<1>3. ASSUME NEW x \in Failed, NEW c \in Chars PROVE Text!DecodeStep(x, c) \in Failed
  BY DEF Failed, Text!DecodeStep
<1> QED
  BY <1>1, <1>2, <1>3

\* What is accepted has ended, and is not empty.
LEMMA AcceptedEnds ==
  ASSUME NEW s \in Seq(Chars), Text!decode_shell_argument(s).accepted
  PROVE  Text!Decoded(s) \in Ended /\ s # <<>>
<1>1. Text!Decoded(s) \in Ended
  <2>1. Text!Decoded(s) \in DecodeStates
    BY DecodedSteps DEF Chars, Text!Characters
  <2> QED
    BY <2>1 DEF Ended, Text!decode_shell_argument
<1>2. s # <<>>
  BY <1>1, DecodedStarts DEF Ended, Text!Blank
<1> QED
  BY <1>1, <1>2

\* A line of two names is refused: left and right are trimmed, and what lies
\* between them is white space.
LEMMA TwoNamesFail ==
  ASSUME NEW left \in Seq(Chars), NEW gap \in Seq(Text!Space), NEW space \in Text!Space,
         NEW more \in Seq(Text!Space), NEW right \in Seq(Chars), right # <<>>,
         right[1] \notin Text!Space, Text!Decoded(left) \in Ended
  PROVE  Text!Decoded((((left \o gap) \o <<space>>) \o more) \o right) \in Failed
<1> DEFINE l1 == left \o gap
           l2 == l1 \o <<space>>
           l3 == l2 \o more
           c == right[1]
           rest == Tail(right)
           l4 == l3 \o <<c>>
<1>1. Text!Space \subseteq Chars /\ Ended \subseteq DecodeStates /\ Apart \subseteq Ended
  BY DEF Text!Space, Chars, Text!Characters, Ended, Apart
<1>2. gap \in Seq(Chars) /\ more \in Seq(Chars) /\ space \in Chars
  BY <1>1
<1>3. c \in Chars \ Text!Space /\ rest \in Seq(Chars) /\ right = <<c>> \o rest
  <2>1. Len(right) # 0
    OBVIOUS
  <2>2. 1 \in DOMAIN right
    BY <2>1
  <2>3. c \in Chars \ Text!Space
    BY <2>2
  <2>4. rest \in Seq(Chars)
    OBVIOUS
  <2>5. right = <<c>> \o rest
    OBVIOUS
  <2> QED
    BY <2>3, <2>4, <2>5
<1>4. l1 \in Seq(Chars) /\ Text!Decoded(l1) \in Ended
  <2>1. \A x \in Ended : \A d \in Text!Space : Text!DecodeStep(x, d) \in Ended
    BY <1>1, DecodeStepKeeps
  <2>2. Text!Decoded(left \o gap) \in Ended
    BY <1>1, <2>1, DecodedKeeps
  <2> QED
    BY <1>2, <2>2
<1> HIDE DEF l1
<1>5. l2 \in Seq(Chars) /\ Text!Decoded(l2) \in Apart
  BY <1>2, <1>4, DecodeStepKeeps, DecodedNext
<1> HIDE DEF l2
<1>6. l3 \in Seq(Chars) /\ Text!Decoded(l3) \in Apart
  <2>1. \A x \in Apart : \A d \in Text!Space : Text!DecodeStep(x, d) \in Apart
    BY <1>1, DecodeStepKeeps
  <2>2. Text!Decoded(l2 \o more) \in Apart
    BY <1>1, <1>5, <2>1, DecodedKeeps
  <2> QED
    BY <1>2, <1>5, <2>2
<1> HIDE DEF l3, c, rest
<1>7. l4 \in Seq(Chars) /\ Text!Decoded(l4) \in Failed
  BY <1>3, <1>6, DecodeStepKeeps, DecodedNext
<1>8. l3 \o (<<c>> \o rest) = l4 \o rest
  <2>1. l3 \in Seq(Chars) /\ <<c>> \in Seq(Chars) /\ rest \in Seq(Chars)
    BY <1>3, <1>6
  <2> QED
    BY <2>1
<1> HIDE DEF l4
<1>9. Text!Decoded(l4 \o rest) \in Failed
  BY <1>3, <1>7, DecodeStepKeeps, DecodedKeeps
<1>10. (((left \o gap) \o <<space>>) \o more) \o right = l4 \o rest
  BY <1>3, <1>8 DEF l1, l2, l3
<1> QED
  BY <1>9, <1>10

\* What is trimmed is not empty unless there is nothing but white space.
LEMMA TrimmedLine ==
  ASSUME NEW t \in Seq(Chars), Text!decode_shell_argument(Text!trim(t)).accepted
  PROVE  \E i, j \in 1 .. Len(t) : IsTrimmed(t, i, j) /\ Text!trim(t) = SubSeq(t, i, j)
<1>1. CASE Kept(t) # {}
  BY <1>1, TrimIs
<1>2. CASE Kept(t) = {}
  <2>1. Text!trim(t) = <<>> /\ <<>> \in Seq(Chars)
    BY <1>2 DEF Text!trim, Kept
  <2> QED
    BY <2>1, AcceptedEnds
<1> QED
  BY <1>1, <1>2

\* From lo to hi, what is neither white space nor outside i .. j.
Ends(t, lo, hi, i, j) ==
  /\ i \in lo .. hi /\ j \in lo .. hi /\ i <= j
  /\ t[i] \notin Text!Space /\ t[j] \notin Text!Space
  /\ \A x \in lo .. hi : t[x] \notin Text!Space => i <= x /\ x <= j
IsAccepted(t) == Text!decode_shell_argument(Text!trim(t)).accepted

\* What is trimmed of a part of a line.
LEMMA TrimmedPart ==
  ASSUME NEW t \in Seq(Chars), NEW lo \in 1 .. Len(t) + 1, NEW hi \in lo - 1 .. Len(t),
         IsAccepted(SubSeq(t, lo, hi))
  PROVE  \E i, j \in lo .. hi :
           Ends(t, lo, hi, i, j) /\ Text!trim(SubSeq(t, lo, hi)) = SubSeq(t, i, j)
<1> DEFINE s == SubSeq(t, lo, hi)
           m == hi - lo + 1
<1>1. Len(t) \in Nat /\ lo \in Nat /\ lo >= 1 /\ hi \in Nat /\ m \in Nat /\ hi <= Len(t)
  OBVIOUS
<1>2. s \in Seq(Chars) /\ Len(s) = m /\ \A x \in 1 .. m : s[x] = t[lo + x - 1]
  <2>1. \A x \in lo .. hi : t[x] \in Chars
    BY <1>1
  <2> QED
    BY <1>1, <2>1, SubSeqProperties
<1>3. PICK a, b \in 1 .. m : IsTrimmed(s, a, b) /\ Text!trim(s) = SubSeq(s, a, b)
  <2>1. Text!decode_shell_argument(Text!trim(s)).accepted
    BY DEF IsAccepted
  <2> HIDE DEF s, m
  <2> QED
    BY <1>2, <2>1, TrimmedLine
<1> HIDE DEF s, m
<1>4. /\ a <= b /\ s[a] \notin Text!Space /\ s[b] \notin Text!Space
      /\ \A x \in 1 .. m : s[x] \notin Text!Space => a <= x /\ x <= b
  <2>1. Kept(s) = {x \in 1 .. m : s[x] \notin Text!Space}
    BY <1>1, <1>2 DEF Kept
  <2> QED
    BY <1>3, <2>1 DEF IsTrimmed
<1> DEFINE i == lo + a - 1
           j == lo + b - 1
<1>5. i \in lo .. hi /\ j \in lo .. hi /\ i <= j
  BY <1>1, <1>3, <1>4 DEF m
<1>6. t[i] \notin Text!Space /\ t[j] \notin Text!Space
  BY <1>2, <1>3, <1>4
<1>7. ASSUME NEW x \in lo .. hi, t[x] \notin Text!Space PROVE i <= x /\ x <= j
  <2> DEFINE y == x - lo + 1
  <2>1. y \in 1 .. m /\ lo + y - 1 = x
    BY <1>1 DEF m
  <2> HIDE DEF y
  <2>2. a <= y /\ y <= b
    BY <1>2, <1>4, <1>7, <2>1
  <2> QED
    BY <1>1, <1>3, <2>1, <2>2
<1>8. SubSeq(s, a, b) = SubSeq(t, i, j)
  <2>1. i + 1 - 1 = i /\ b - a + 1 = j - i + 1 /\ a \in Int /\ b \in Int /\ i \in Int /\ j \in Int
    BY <1>1, <1>3
  <2>2. ASSUME NEW x \in 1 .. b - a + 1 PROVE s[x + a - 1] = t[x + i - 1]
    <3>1. x + a - 1 \in 1 .. m /\ lo + (x + a - 1) - 1 = x + i - 1
      BY <1>1, <1>3
    <3> QED
      BY <1>2, <3>1
  <2> HIDE DEF i, j
  <2>3. SubSeq(s, a, b) = [x \in 1 .. b - a + 1 |-> s[x + a - 1]]
    BY <2>1
  <2>4. SubSeq(t, i, j) = [x \in 1 .. j - i + 1 |-> t[x + i - 1]]
    BY <2>1
  <2> QED
    BY <2>1, <2>2, <2>3, <2>4
<1> HIDE DEF i, j
<1>9. Ends(t, lo, hi, i, j) /\ Text!trim(SubSeq(t, lo, hi)) = SubSeq(t, i, j)
  BY <1>3, <1>5, <1>6, <1>7, <1>8 DEF Ends, s
<1> QED
  BY <1>5, <1>9

\* A blank at k, with an argument before it and one after it.
AreTwoNames(t, k) ==
  t[k] = " " /\ IsAccepted(SubSeq(t, 1, k - 1)) /\ IsAccepted(SubSeq(t, k + 1, Len(t)))

\* No line of two names is accepted.
LEMMA TwoNames ==
  ASSUME NEW t \in Seq(Chars), NEW k \in 1 .. Len(t), AreTwoNames(t, k)
  PROVE  ~IsAccepted(t)
<1> DEFINE n == Len(t)
<1>0. n \in Nat /\ k \in 1 .. n
  OBVIOUS
<1>1. \A x \in 1 .. n : t[x] \in Chars
  OBVIOUS
<1>2. SubSeq(t, 1, n) = t
  BY SubSeqFull
<1> HIDE DEF n
<1>3. /\ 1 \in 1 .. n + 1 /\ k - 1 \in 1 - 1 .. n /\ k + 1 \in 1 .. n + 1 /\ n \in (k + 1) - 1 .. n
      /\ n \in 1 - 1 .. n
  BY <1>0
<1> SUFFICES ASSUME IsAccepted(t) PROVE FALSE
  OBVIOUS
<1>4. PICK i, a \in 1 .. k - 1 :
        Ends(t, 1, k - 1, i, a) /\ Text!trim(SubSeq(t, 1, k - 1)) = SubSeq(t, i, a)
  BY <1>3, TrimmedPart DEF AreTwoNames, n
<1>5. PICK b, j \in k + 1 .. n :
        Ends(t, k + 1, n, b, j) /\ Text!trim(SubSeq(t, k + 1, n)) = SubSeq(t, b, j)
  BY <1>3, TrimmedPart DEF AreTwoNames, n
<1>6. PICK f, l \in 1 .. n : Ends(t, 1, n, f, l) /\ Text!trim(t) = SubSeq(t, f, l)
  <2>1. IsAccepted(SubSeq(t, 1, n))
    BY <1>2
  <2>2. \E f, l \in 1 .. n : Ends(t, 1, n, f, l) /\ Text!trim(SubSeq(t, 1, n)) = SubSeq(t, f, l)
    BY <1>3, <2>1, TrimmedPart DEF n
  <2> QED
    BY <1>2, <2>2
<1>7. i \in 1 .. k - 1 /\ a \in 1 .. k - 1 /\ i <= a /\ b \in k + 1 .. n /\ j \in k + 1 .. n
      /\ b <= j /\ f \in 1 .. n /\ l \in 1 .. n
  BY <1>4, <1>5, <1>6 DEF Ends
<1>8. f = i /\ l = j
  <2>1. \A x \in 1 .. n : x # k => x \in 1 .. k - 1 \/ x \in k + 1 .. n
    BY <1>0
  <2>2. i \in 1 .. n /\ j \in 1 .. n /\ i <= j
    BY <1>0, <1>7
  <2>3. f <= i /\ j <= l
    BY <1>4, <1>5, <1>6, <2>2 DEF Ends
  <2>4. f # k /\ l # k
    BY <1>6 DEF AreTwoNames, Ends, Text!Space
  <2>5. f \in 1 .. k - 1 => i <= f
    BY <1>4, <1>6 DEF Ends
  <2>6. l \in k + 1 .. n => l <= j
    BY <1>5, <1>6 DEF Ends
  <2>7. f \notin k + 1 .. n /\ l \notin 1 .. k - 1
    BY <1>0, <1>7, <2>3
  <2>8. i <= f /\ l <= j
    BY <1>7, <2>1, <2>4, <2>5, <2>6, <2>7
  <2> QED
    BY <1>7, <2>2, <2>3, <2>8
<1> DEFINE left == SubSeq(t, i, a)
           gap == SubSeq(t, a + 1, k - 1)
           more == SubSeq(t, k + 1, b - 1)
           right == SubSeq(t, b, j)
<1>9. /\ i \in 1 .. n + 1 /\ a \in i - 1 .. n /\ k - 1 \in a .. n
      /\ k \in i .. n /\ b - 1 \in k .. n /\ k \in i - 1 .. n
      /\ b - 1 \in i - 1 .. n /\ j \in b - 1 .. n /\ (b - 1) + 1 = b
      /\ i \in 1 .. n /\ k \in 1 .. n /\ a \in Int /\ b \in Int /\ j \in Int /\ i \in Int
  BY <1>0, <1>7
<1>10. SubSeq(t, i, j) = (((left \o gap) \o <<t[k]>>) \o more) \o right
  <2>1. left \o gap = SubSeq(t, i, k - 1)
    BY <1>9, ConcatAdjacentSubSeq DEF n
  <2>2. SubSeq(t, i, k) = SubSeq(t, i, k - 1) \o <<t[k]>>
    BY <1>9, SubSeqRecursiveSecond DEF n
  <2>3. SubSeq(t, i, k) \o more = SubSeq(t, i, b - 1)
    BY <1>9, ConcatAdjacentSubSeq DEF n
  <2>4. SubSeq(t, i, b - 1) \o right = SubSeq(t, i, j)
    <3>1. SubSeq(t, i, b - 1) \o SubSeq(t, (b - 1) + 1, j) = SubSeq(t, i, j)
      BY <1>9, ConcatAdjacentSubSeq DEF n
    <3> QED
      BY <1>9, <3>1
  <2> HIDE DEF left, gap, more, right
  <2> QED
    BY <2>1, <2>2, <2>3, <2>4
<1>11. left \in Seq(Chars) /\ right \in Seq(Chars) /\ right # <<>> /\ right[1] = t[b]
  <2>1. \A x \in i .. a : t[x] \in Chars
    BY <1>0, <1>1, <1>7
  <2>2. \A x \in b .. j : t[x] \in Chars
    BY <1>0, <1>1, <1>7
  <2>3. left \in Seq(Chars)
    BY <1>9, <2>1, SubSeqProperties
  <2>4. right \in Seq(Chars) /\ Len(right) = j - b + 1 /\ \A x \in 1 .. j - b + 1 : right[x] = t[b + x - 1]
    BY <1>7, <1>9, <2>2, SubSeqProperties
  <2>5. j - b + 1 >= 1 /\ 1 \in 1 .. j - b + 1 /\ b + 1 - 1 = b
    BY <1>7, <1>9
  <2> HIDE DEF left, right
  <2>6. right # <<>>
    BY <2>4, <2>5
  <2>7. right[1] = t[b]
    BY <2>4, <2>5
  <2> QED
    BY <2>3, <2>4, <2>6, <2>7
<1>12. gap \in Seq(Text!Space) /\ more \in Seq(Text!Space)
  <2>1. \A x \in a + 1 .. k - 1 : t[x] \in Text!Space
    <3>1. \A x \in a + 1 .. k - 1 : x \in 1 .. k - 1 /\ ~(x <= a)
      BY <1>7
    <3> QED
      BY <1>4, <3>1 DEF Ends
  <2>2. \A x \in k + 1 .. b - 1 : t[x] \in Text!Space
    <3>1. \A x \in k + 1 .. b - 1 : x \in k + 1 .. n /\ ~(b <= x)
      BY <1>0, <1>7
    <3> QED
      BY <1>5, <3>1 DEF Ends
  <2>3. a + 1 \in Int /\ k - 1 \in Int /\ k + 1 \in Int /\ b - 1 \in Int
    BY <1>9
  <2>4. gap \in Seq(Text!Space)
    BY <2>1, <2>3, SubSeqProperties
  <2>5. more \in Seq(Text!Space)
    BY <2>2, <2>3, SubSeqProperties
  <2> QED
    BY <2>4, <2>5
<1>13. Text!Decoded(left) \in Ended
  <2>1. Text!decode_shell_argument(left).accepted
    BY <1>4 DEF AreTwoNames, IsAccepted
  <2> HIDE DEF left
  <2> QED
    BY <1>11, <2>1, AcceptedEnds
<1>14. t[b] \notin Text!Space /\ t[k] \in Text!Space
  BY <1>5 DEF AreTwoNames, Ends, Text!Space
<1> HIDE DEF left, gap, more, right
<1>15. Text!Decoded(SubSeq(t, i, j)) \in Failed
  BY <1>10, <1>11, <1>12, <1>13, <1>14, TwoNamesFail
<1>16. Text!Decoded(SubSeq(t, i, j)) \in Ended
  <2>1. \A x \in i .. j : t[x] \in Chars
    BY <1>0, <1>1, <1>7
  <2>2. SubSeq(t, i, j) \in Seq(Chars)
    BY <1>9, <2>1, SubSeqProperties
  <2>3. Text!trim(t) = SubSeq(t, i, j)
    BY <1>6, <1>8
  <2> QED
    BY <2>2, <2>3, AcceptedEnds DEF IsAccepted
<1> QED
  BY <1>15, <1>16 DEF Ended, Failed

------------------------------------------------------------------------------
(* Every text.                                                              *)

TextIInv == text \in Seq(Chars) /\ JsonInv(text) /\ ShellInv(text)

\* The invariant of the texts holds of the first one,
LEMMA TextInitIInv == ASSUME Text!Init PROVE TextIInv
<1>1. text = <<>> /\ <<>> \in Seq(Chars)
  BY DEF Text!Init
<1>2. JsonInv(text)
  BY <1>1, JsonInvStarts
<1>3. ShellInv(text)
  BY <1>1, ShellInvStarts
<1> QED
  BY <1>1, <1>2, <1>3 DEF TextIInv

\* of each text with one more character,
LEMMA TextNextIInv == ASSUME TextIInv, [Text!Next]_text PROVE TextIInv'
<1>1. CASE UNCHANGED text
  BY <1>1 DEF TextIInv, JsonInv, ShellInv
<1>2. ASSUME NEW c \in Chars, text' = Append(text, c) PROVE TextIInv'
  <2>1. text \in Seq(Chars) /\ JsonInv(text) /\ ShellInv(text)
    BY DEF TextIInv
  <2>2. Append(text, c) = text \o <<c>> /\ text \o <<c>> \in Seq(Chars)
    BY <2>1
  <2> DEFINE new == text \o <<c>>
  <2>3. JsonInv(new)
    BY <2>1, JsonInvSteps
  <2>4. ShellInv(new)
    BY <2>1, ShellInvSteps
  <2>5. text' = new /\ new \in Seq(Chars)
    BY <1>2, <2>2
  <2> HIDE DEF new
  <2>6. JsonInv(text') /\ ShellInv(text')
    BY <2>3, <2>4, <2>5
  <2> QED
    BY <2>5, <2>6 DEF TextIInv
<1> QED
  BY <1>1, <1>2 DEF Text!Next, Chars

\* and makes every coding read back.
LEMMA TextIInvReadsBack == ASSUME TextIInv PROVE TextsReadBack
<1>1. text \in Seq(Chars) /\ JsonInv(text) /\ ShellInv(text)
  BY DEF TextIInv
<1> DEFINE q == <<"\"">>
           e == Escaped(text)
           w == (q \o e) \o q
<1>2. q \in Seq(JsonChars) /\ "\"" \in JsonChars /\ Len(q) = 1
  <2>1. "\"" \in JsonChars
    BY DEF JsonChars, Text!Characters
  <2>2. q \in Seq(JsonChars)
    BY DEF JsonChars, Text!Characters
  <2>3. Len(q) = 1
    OBVIOUS
  <2> QED
    BY <2>1, <2>2, <2>3
<1>3. e \in Seq(JsonChars) /\ Text!ReadJson(q \o e) = Inside(text)
  BY <1>1 DEF JsonInv
<1>4. Text!ci_json_string(text) = w
  BY <1>1, JsonStringIs
<1>5. Text!JsonReadsBack
  <2>1. q \o e \in Seq(JsonChars)
    <3>1. q \in Seq(JsonChars) /\ e \in Seq(JsonChars)
      BY <1>2, <1>3
    <3> HIDE DEF e, q
    <3> QED
      BY <3>1, ConcatProperties
  <2>2. Text!ReadJson((q \o e) \o <<"\"">>) = Text!JsonStep(Text!ReadJson(q \o e), "\"")
    BY <1>2, <2>1, ReadJsonSteps
  <2>3. Text!JsonStep(Inside(text), "\"") = [mode |-> "end", value |-> text]
    BY DEF Inside, Text!JsonStep, Text!Control
  <2>4. Text!ReadJson(w) = [mode |-> "end", value |-> text]
    BY <1>3, <2>2, <2>3
  <2> QED
    BY <1>4, <2>4 DEF Text!JsonReadsBack
<1>6. Text!JsonFits
  <2>1. Len(e) + 3 <= Text!JsonSize(text) /\ Text!JsonSize(text) \in Nat
    BY <1>1 DEF JsonInv
  <2> HIDE DEF e, q
  <2>2. Len(w) = Len(e) + 2 /\ Len(e) \in Nat
    <3>1. q \in Seq(JsonChars) /\ e \in Seq(JsonChars) /\ Len(q) = 1
      BY <1>2, <1>3
    <3>2. q \o e \in Seq(JsonChars) /\ Len(q \o e) = Len(q) + Len(e) /\ Len(e) \in Nat
      <4>1. Len(e) \in Nat
        BY <3>1, LenProperties
      <4>2. q \o e \in Seq(JsonChars) /\ Len(q \o e) = Len(q) + Len(e)
        BY <3>1, ConcatProperties
      <4> QED
        BY <4>1, <4>2
    <3>3. Len((q \o e) \o q) = Len(q \o e) + Len(q)
      BY <3>1, <3>2, ConcatProperties
    <3> QED
      BY <3>1, <3>2, <3>3
  <2> HIDE DEF w
  <2>3. Len(w) + 1 <= Text!JsonSize(text)
    BY <2>1, <2>2
  <2> QED
    BY <1>4, <2>3 DEF Text!JsonFits
<1>7. Text!NameReadsBack
  BY <1>1, ShellReadsBack DEF Text!NameReadsBack
<1>8. Text!TwoNamesAreRejected
  <2> SUFFICES ASSUME NEW k \in DOMAIN text, AreTwoNames(text, k)
               PROVE  ~IsAccepted(text)
    BY DEF Text!TwoNamesAreRejected, AreTwoNames, IsAccepted
  <2>1. k \in 1 .. Len(text)
    BY <1>1
  <2> QED
    BY <1>1, <2>1, TwoNames
<1> QED
  BY <1>5, <1>6, <1>7, <1>8 DEF TextsReadBack, Text!TextsReadBack

------------------------------------------------------------------------------
(* The parts together.                                                      *)

TextOK == text \in Seq(Text!Characters) /\ Len(text) <= MaxLength

PartOK == part \in {"buffer", "spawn", "header", "probes", "text"}

PartsIInv == PartOK /\ IInv /\ SpawnIInv /\ HeaderIInv /\ ProbesIInv /\ TextOK /\ TextIInv

\* An idle part is in one of its initial states.
LEMMA PartInits ==
  ASSUME PartsInit
  PROVE  Init /\ Spawn!Init /\ Header!Init /\ Probes!Init /\ Text!Init
BY DEF PartsInit, BufferIdle, SpawnIdle, HeaderIdle, ProbesIdle

\* A step is one of one part, and the others stay.
LEMMA PartSteps ==
  ASSUME [PartsNext]_all
  PROVE  /\ [Next]_vars /\ (Spawn!Next \/ UNCHANGED spawns)
         /\ (Header!Next \/ UNCHANGED parsings) /\ (Probes!Next \/ UNCHANGED probings)
         /\ (Text!Next \/ UNCHANGED text)
BY DEF PartsNext, Buffer, Spawning, Parsing, Probing, Coding, all

LEMMA HeaderStutterKeepsIInv == ASSUME HeaderIInv, UNCHANGED parsings PROVE HeaderIInv'
BY DEF HeaderIInv, parsings, Header!TypeOK, StampInv, StatusInv, Header!AcceptedHeadersParse

LEMMA TextKeepsOK == ASSUME TextOK, Text!Next \/ UNCHANGED text PROVE TextOK'
BY BoundsAssumption DEF TextOK, Text!Next

\* The invariants of the parts hold throughout, whichever part takes the steps.
THEOREM PartsInvariant == PartsSpec => []PartsIInv
<1>1. PartsInit => PartsIInv
  <2> SUFFICES ASSUME PartsInit PROVE PartsIInv
    OBVIOUS
  <2>1. TextOK
    BY PartInits, BoundsAssumption DEF TextOK, Text!Init
  <2>2. PartOK
    BY DEF PartsInit, PartOK
  <2>3. TextIInv
    BY PartInits, TextInitIInv
  <2> QED
    BY <2>1, <2>2, <2>3, PartInits, InitIInv, SpawnInitIInv, HeaderInitIInv, ProbesInitIInv
       DEF PartsIInv
<1>2. PartsIInv /\ [PartsNext]_all => PartsIInv'
  <2> SUFFICES ASSUME PartsIInv, [PartsNext]_all PROVE PartsIInv'
    OBVIOUS
  <2>1. IInv /\ SpawnIInv /\ HeaderIInv /\ ProbesIInv /\ TextOK /\ TextIInv
    BY DEF PartsIInv
  <2>2. IInv'
    BY <2>1, PartSteps, NextIInv
  <2>3. SpawnIInv'
    BY <2>1, PartSteps, SpawnNextKeepsIInv, SpawnStutterKeepsIInv
  <2>4. HeaderIInv'
    BY <2>1, PartSteps, HeaderNextIInv, HeaderStutterKeepsIInv
  <2>5. ProbesIInv'
    BY <2>1, PartSteps, ProbesNextKeepsIInv, ProbesStutterKeepsIInv
  <2>6. TextOK'
    BY <2>1, PartSteps, TextKeepsOK
  <2>8. TextIInv'
    <3>1. [Text!Next]_text
      BY PartSteps
    <3> QED
      BY <2>1, <3>1, TextNextIInv
  <2>7. PartOK'
    BY DEF PartsIInv, PartOK, PartsNext, Buffer, Spawning, Parsing, Probing, Coding, all
  <2> QED
    BY <2>2, <2>3, <2>4, <2>5, <2>6, <2>7, <2>8 DEF PartsIInv
<1> QED
  BY <1>1, <1>2, PTL DEF PartsSpec

------------------------------------------------------------------------------
(* What the run checks.                                                     *)

\* Every variable has its type: the capacity is that of the block, a copy of a
\* descriptor is of an open one, and no two shells that run have one pid.
THEOREM PartsTypesOK == PartsSpec => []TypesOK
<1>1. PartsIInv => TypesOK
  <2> SUFFICES ASSUME PartsIInv PROVE TypesOK
    OBVIOUS
  <2>1. TypeOK
    BY TypeParts DEF PartsIInv, IInv
  <2>2. Spawn!TypeOK /\ Header!TypeOK /\ Probes!TypeOK /\ TextOK
    BY DEF PartsIInv, SpawnIInv, HeaderIInv, ProbesIInv
  <2>3. part \in {"buffer", "spawn", "header", "probes", "text"}
    BY DEF PartsIInv, PartOK
  <2> QED
    BY <2>1, <2>2, <2>3 DEF TypesOK, TextOK
<1> QED
  BY <1>1, PartsInvariant, PTL

\* No collector stores outside its block, whatever the width of size_t.
THEOREM PartsStoreIsInBlock == PartsSpec => []StoreIsInBlock
<1>1. PartsIInv => StoreIsInBlock
  BY IInvStoreIsInBlock DEF PartsIInv
<1> QED
  BY <1>1, PartsInvariant, PTL

\* read_file, copy_file and the others that succeed have stored all there was.
THEOREM PartsSuccessIsAll == PartsSpec => []SuccessIsAll
<1>1. PartsIInv => SuccessIsAll
  BY DEF PartsIInv, IInv
<1> QED
  BY <1>1, PartsInvariant, PTL

\* The doubling of buffer_reserve does not wrap: each round makes the capacity
\* larger, so that the loop ends.
CapacityGrows == [][BufferDouble /\ pc' = "double" => newcap' > newcap]_vars
THEOREM PartsCapacityGrows == PartsSpec => CapacityGrows
<1>1. PartsIInv /\ [PartsNext]_all
      => [BufferDouble /\ pc' = "double" => newcap' > newcap]_vars
  <2> SUFFICES ASSUME PartsIInv, BufferDouble, pc' = "double" PROVE newcap' > newcap
    OBVIOUS
  <2> QED
    BY DoublingGrows DEF PartsIInv
<1> QED
  BY <1>1, PartsInvariant, PTL DEF PartsSpec, CapacityGrows

\* Whichever calls of _dup, _dup2, _spawnv and _cwait fail, and in however many
\* calls: a child has its call's files, success is the child's, the copies are
\* closed and the descriptors are the tool's own again.
THEOREM PartsSpawnsAreClean == PartsSpec => []SpawnsAreClean
<1>1. PartsIInv => SpawnsAreClean
  <2> SUFFICES ASSUME PartsIInv PROVE SpawnsAreClean
    OBVIOUS
  <2>1. /\ Spawn!TypeOK /\ ChildInv /\ Spawn!SuccessMeansChildEnded
        /\ Spawn!CopiesAreClosed /\ Spawn!StdIsPointedBack
    BY DEF PartsIInv, SpawnIInv
  <2>2. Spawn!ChildHasItsFiles
    BY <2>1 DEF ChildInv, Demanded, Spawn!ChildHasItsFiles
  <2> QED
    BY <2>1, <2>2 DEF SpawnsAreClean, Spawn!SpawnsAreClean
<1> QED
  BY <1>1, PartsInvariant, PTL

\* What Bazel takes from a header check or a configure probe is what the
\* compiler said of that source, for any number of edits, attempts, probes and
\* kills: the stamp is of the attempt that ended, and the directory a probe
\* works in is its own while it runs.
THEOREM PartsActionsReportTheCompiler == PartsSpec => []ActionsReportTheCompiler
<1>1. PartsIInv => ActionsReportTheCompiler
  <2> SUFFICES ASSUME PartsIInv PROVE ActionsReportTheCompiler
    OBVIOUS
  <2>1. HeaderIInv /\ ProbesIInv
    BY DEF PartsIInv
  <2>2. Header!AcceptedHeadersParse /\ Header!SuccessHasStamp
    BY <2>1 DEF HeaderIInv, StatusInv, Header!SuccessHasStamp
  <2>3. Probes!ResultIsOfTheSource
    BY <2>1 DEF ProbesIInv, JudgedInv, TrueVerdict, Probes!ResultIsOfTheSource
  <2> QED
    BY <2>1, <2>2, <2>3, IInvHeaderIsOfTheChecks DEF ActionsReportTheCompiler
<1> QED
  BY <1>1, PartsInvariant, PTL

\* Names of any length come through the overlay and the parameter files: clang
\* reads what ci_json_string writes, in a block that the first loop measured
\* for it; the generator opens the name that Bazel quoted, and a line of two
\* names is refused.
THEOREM PartsTextsReadBack == PartsSpec => []TextsReadBack
<1>1. PartsIInv => TextsReadBack
  BY TextIInvReadsBack DEF PartsIInv
<1> QED
  BY <1>1, PartsInvariant, PTL
================================================================================
