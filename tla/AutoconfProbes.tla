---------------------------- MODULE AutoconfProbes ----------------------------
(***************************************************************************)
(* 3rd_party/gcc/libstdcxx/autoconf: libstdc++'s configure checks as Bazel  *)
(* actions.  Every compile or link check is a shell action that works in    *)
(* "/tmp/cc-configure-probe-<pid>" and writes true or false; another action *)
(* renders the results of a list of checks as a header.                     *)
(*                                                                          *)
(* Probes run at once.  One may be killed, without its trap, and is run     *)
(* again; its directory stays, and a later process may have its pid.        *)
(***************************************************************************)
EXTENDS Naturals, Sequences, SequencesExt

CONSTANTS
  Lists,     \* the lists of checks: sequences of [kind, macro], a kind being
             \* "compile", "link", "define" or "undef"
  Pids,      \* the process ids of shells
  MaxKills   \* bound: probes killed

VARIABLES
  checks,   \* the list; never changes
  good,     \* check -> "bad", "compiles" or "links": its source; never changes
  pc,       \* check -> "idle", "made", "compiled", "judged", "done"
  pid,      \* check -> the pid of its shell
  tmp,      \* <<kind, pid>> -> the owner of probe.o there, 0 without one
  result,   \* check -> its result file: "none", "true", "false"
  broken,   \* the checks whose tools failed for another reason than the source
  kills,    \* probes killed so far
  header    \* [rendered, defined]: the macros the header defines

vars == <<checks, good, pc, pid, tmp, result, broken, kills, header>>

Dirs == {"compile", "link"} \X Pids
Probes == {k \in DOMAIN checks : checks[k].kind \in {"compile", "link"}}
Running == {k \in Probes : pc[k] \in {"made", "compiled", "judged"}}

\* Mutant: the directory is named after the kind of the probe alone.
DirShared(k) == <<checks[k].kind, CHOOSE p \in Pids : TRUE>>

Dir(k) == <<checks[k].kind, pid[k]>>

Init ==
  /\ checks \in Lists
  /\ good \in [DOMAIN checks -> {"bad", "compiles", "links"}]
  /\ pc = [k \in DOMAIN checks |-> IF k \in Probes THEN "idle" ELSE "done"]
  /\ pid \in [DOMAIN checks -> {CHOOSE p \in Pids : TRUE}]
  /\ tmp = [d \in Dirs |-> 0]
  /\ result = [k \in DOMAIN checks |-> "none"]
  /\ broken = {}
  /\ kills = 0
  /\ header = [rendered |-> FALSE, defined |-> {}]

Goto(k, step) == pc' = [pc EXCEPT ![k] = step]

\* Mutant: the exit status is written.
JudgeByStatus(k, verdict) ==
  Goto(k, "judged") /\ result' = [result EXCEPT ![k] = IF verdict = "true" THEN "0" ELSE "1"]

Judge(k, verdict) == Goto(k, "judged") /\ result' = [result EXCEPT ![k] = verdict]

------------------------------------------------------------------------------
(* A probe.                                                                 *)

\* mkdir -p: a directory left by another process is taken as it is.
MakeDir(k) ==
  /\ pc[k] = "idle"
  /\ \E p \in Pids \ {pid[j] : j \in Running} : pid' = [pid EXCEPT ![k] = p]
  /\ Goto(k, "made")
  /\ UNCHANGED <<checks, good, tmp, result, broken, kills, header>>

Compile(k) ==
  /\ pc[k] = "made" /\ good[k] # "bad"
  /\ tmp' = [tmp EXCEPT ![Dir(k)] = k]
  /\ IF checks[k].kind = "link" THEN Goto(k, "compiled") /\ UNCHANGED result
     ELSE Judge(k, "true")
  /\ UNCHANGED <<checks, good, pid, broken, kills, header>>

\* The source does not compile, or the compiler does not work.
CompileFails(k) ==
  /\ pc[k] = "made"
  /\ broken' = IF good[k] = "bad" THEN broken ELSE broken \cup {k}
  /\ Judge(k, "false")
  /\ UNCHANGED <<checks, good, pid, tmp, kills, header>>

\* What is linked is the object in the directory.
Link(k) ==
  /\ pc[k] = "compiled"
  /\ tmp[Dir(k)] # 0 /\ good[tmp[Dir(k)]] = "links"
  /\ Judge(k, "true")
  /\ UNCHANGED <<checks, good, pid, tmp, broken, kills, header>>

LinkFails(k) ==
  /\ pc[k] = "compiled"
  /\ broken' = IF tmp[Dir(k)] # 0 /\ good[tmp[Dir(k)]] = "links"
               THEN broken \cup {k} ELSE broken
  /\ Judge(k, "false")
  /\ UNCHANGED <<checks, good, pid, tmp, kills, header>>

\* The trap removes the directory, whoever made it.
RemoveDir(k) ==
  /\ pc[k] = "judged"
  /\ tmp' = [tmp EXCEPT ![Dir(k)] = 0]
  /\ Goto(k, "done")
  /\ UNCHANGED <<checks, good, pid, result, broken, kills, header>>

\* Bazel removes the outputs and runs the action again.
Kill(k) ==
  /\ k \in Running /\ kills < MaxKills
  /\ kills' = kills + 1
  /\ result' = [result EXCEPT ![k] = "none"]
  /\ broken' = broken \ {k}
  /\ Goto(k, "idle")
  /\ UNCHANGED <<checks, good, pid, tmp, header>>

------------------------------------------------------------------------------
(* The header.                                                              *)

\* The lines that the loop of the shell sees: the file of them ends without a
\* line break, and for the last one `read' returns false.
RenderedChecks == 1 .. Len(checks) - 1

\* Mutant: the result file is not looked at.
DefinesAnyResult(k) == checks[k].kind # "undef"

Defines(k) ==
  \/ checks[k].kind = "define"
  \/ checks[k].kind \in {"compile", "link"} /\ result[k] = "true"

\* #undef is a comment: it takes no definition away.  A string_define is a
\* define in quotes, and a check with several macros so many checks of one
\* result; the lines the loop skips, empty or comments, are no checks.
Render ==
  /\ \A k \in DOMAIN checks : pc[k] = "done"
  /\ ~header.rendered
  /\ header' = [rendered |-> TRUE,
                defined |-> {checks[k].macro : k \in {j \in RenderedChecks : Defines(j)}}]
  /\ UNCHANGED <<checks, good, pc, pid, tmp, result, broken, kills>>

Probe(k) ==
  MakeDir(k) \/ Compile(k) \/ CompileFails(k) \/ Link(k) \/ LinkFails(k) \/ RemoveDir(k)

Next ==
  \/ \E k \in Probes : Probe(k) \/ Kill(k)
  \/ Render
  \/ header.rendered /\ UNCHANGED vars

Spec == Init /\ [][Next]_vars

------------------------------------------------------------------------------
(* Properties.                                                              *)

\* Every variable has its type; no two shells have the same pid at once.
TypeOK ==
  /\ checks \in Lists
  /\ good \in [DOMAIN checks -> {"bad", "compiles", "links"}]
  /\ pc \in [DOMAIN checks -> {"idle", "made", "compiled", "judged", "done"}]
  /\ pid \in [DOMAIN checks -> Pids]
  /\ \A j, k \in Running : pid[j] = pid[k] => j = k
  /\ tmp \in [Dirs -> 0 .. Len(checks)]
  /\ result \in [DOMAIN checks -> {"none", "true", "false"}]
  /\ broken \subseteq Probes /\ kills \in 0..MaxKills
  /\ header.rendered \in BOOLEAN

Holds(k) == IF checks[k].kind = "link" THEN good[k] = "links" ELSE good[k] # "bad"

\* A result is that of the check's own source, whatever other probes do in
\* /tmp and whatever an earlier one has left in a directory of the same name;
\* only a tool that broke makes a check that holds come out false.
ResultIsOfTheSource ==
  \A k \in Probes :
    pc[k] = "done" => result[k] = IF Holds(k) /\ k \notin broken THEN "true" ELSE "false"

\* The header defines a macro exactly if a policy or a check that holds says
\* so, when the last of the checks is an #undef, as configure.ac.bzl's is.
HeaderIsOfTheChecks ==
  header.rendered /\ checks[Len(checks)].kind = "undef" =>
    header.defined =
      {checks[k].macro : k \in {j \in DOMAIN checks :
         \/ checks[j].kind = "define"
         \/ j \in Probes /\ Holds(j) /\ j \notin broken}}
==============================================================================
