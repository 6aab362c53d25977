------------------------------- MODULE ToolParts -------------------------------
(***************************************************************************)
(* The small parts of the C tools and of libstdc++'s configuration, which   *)
(* share no state: a behaviour is one of one part, the others stay as they  *)
(* begin.                                                                   *)
(*   buffer  GrowableBuffer    spawn   RedirectedSpawn                      *)
(*   header  HeaderParser      probes  AutoconfProbes                       *)
(*   text    TextCodings                                                    *)
(***************************************************************************)
EXTENDS GrowableBuffer, Sequences

CONSTANTS Programs, Headers, Good, MaxAttempts, Lists, Pids, MaxKills, MaxLength

\* The bounds are numbers, the lists are sequences, and there are pids.
ASSUME BoundsAssumption == MaxAttempts \in Nat /\ MaxKills \in Nat /\ MaxLength \in Nat
ASSUME ListsAssumption ==
  Pids # {} /\ \A l \in Lists : Len(l) \in Nat /\ DOMAIN l = 1 .. Len(l)

VARIABLES
  part,   \* the part that runs; never changes
  program, call, spawnPc, std, saved, child, given, faults, success,
  env, source, parserPc, stamp, exit, accepted, attempts,
  checks, good, probePc, pid, tmp, verdict, broken, kills, config,
  text

Spawn == INSTANCE RedirectedSpawn WITH pc <- spawnPc
Header == INSTANCE HeaderParser WITH header <- source, pc <- parserPc
Probes == INSTANCE AutoconfProbes
            WITH pc <- probePc, result <- verdict, header <- config
Text == INSTANCE TextCodings

spawns == <<program, call, spawnPc, std, saved, child, given, faults, success>>
parsings == <<env, source, parserPc, stamp, exit, accepted, attempts>>
probings == <<checks, good, probePc, pid, tmp, verdict, broken, kills, config>>
all == <<part, vars, spawns, parsings, probings, text>>

------------------------------------------------------------------------------
\* A part that does not run, in one of its initial states.
BufferIdle == owner = "list" /\ size = 0 /\ Init
SpawnIdle == program = "link_wrapper" /\ Spawn!Init
HeaderIdle == env = {} /\ source = "a" /\ stamp = FALSE /\ Header!Init
ProbesIdle ==
  /\ checks = CHOOSE l \in Lists : TRUE
  /\ good = [k \in DOMAIN checks |-> "bad"]
  /\ Probes!Init

PartsInit ==
  \/ part = "buffer" /\ Init /\ SpawnIdle /\ HeaderIdle /\ ProbesIdle /\ Text!Init
  \/ part = "spawn" /\ BufferIdle /\ Spawn!Init /\ HeaderIdle /\ ProbesIdle /\ Text!Init
  \/ part = "header" /\ BufferIdle /\ SpawnIdle /\ Header!Init /\ ProbesIdle /\ Text!Init
  \/ part = "probes" /\ BufferIdle /\ SpawnIdle /\ HeaderIdle /\ Probes!Init /\ Text!Init
  \/ part = "text" /\ BufferIdle /\ SpawnIdle /\ HeaderIdle /\ ProbesIdle /\ Text!Init

Buffer(A) ==
  part = "buffer" /\ A /\ UNCHANGED <<part, spawns, parsings, probings, text>>
Spawning(A) ==
  part = "spawn" /\ A /\ UNCHANGED <<part, vars, parsings, probings, text>>
Parsing(A) ==
  part = "header" /\ A /\ UNCHANGED <<part, vars, spawns, probings, text>>
Probing(A) ==
  part = "probes" /\ A /\ UNCHANGED <<part, vars, spawns, parsings, text>>
Coding(A) ==
  part = "text" /\ A /\ UNCHANGED <<part, vars, spawns, parsings, probings>>

PartsNext ==
  \/ Buffer(Next) \/ Spawning(Spawn!Next) \/ Parsing(Header!Next)
  \/ Probing(Probes!Next) \/ Coding(Text!Next)

(* Fairness: a tool is a running process, and so is its child; Bazel looks  *)
(* at the end of an action, runs the actions it has, and shells and the     *)
(* programs they run end.                                                   *)
PartsSpec ==
  /\ PartsInit /\ [][PartsNext]_all
  /\ WF_all(Buffer(Step))
  /\ WF_all(Spawning(Spawn!Tool)) /\ WF_all(Spawning(Spawn!ChildEnds))
  /\ WF_all(Parsing(Header!Parser)) /\ WF_all(Parsing(Header!Accept))
  /\ WF_all(Probing(Probes!Render))
  /\ WF_all(Probing(\E k \in Probes!Probes : Probes!Probe(k)))

------------------------------------------------------------------------------
(* Properties.                                                              *)

\* Every variable of the part that runs has its type.
TypesOK ==
  CASE part = "buffer" -> TypeOK
    [] part = "spawn" -> Spawn!TypeOK
    [] part = "header" -> Header!TypeOK
    [] part = "probes" -> Probes!TypeOK
    [] part = "text" -> text \in Seq(Text!Characters) /\ Len(text) <= MaxLength

\* The children of all three tools get their files, and the tools get back
\* their own (RedirectedSpawn).
SpawnsAreClean == Spawn!SpawnsAreClean

\* What Bazel takes from a header check or a configure probe is what the
\* compiler said of that very source, whatever was killed, edited or left in
\* /tmp before (HeaderParser, AutoconfProbes).
ActionsReportTheCompiler ==
  /\ Header!AcceptedHeadersParse /\ Header!SuccessHasStamp
  /\ Probes!ResultIsOfTheSource /\ Probes!HeaderIsOfTheChecks

\* Names come through the overlay and the parameter files (TextCodings).
TextsReadBack == Text!TextsReadBack

\* Doubling reaches what is needed before it wraps to zero, every call of a
\* program returns whatever fails, an attempt at a header always ends, and the
\* configuration is rendered although probes are killed: each part comes to
\* rest again and again.
Resting ==
  CASE part = "buffer" -> pc = "done"
    [] part = "spawn" -> Spawn!Ended
    [] part = "header" -> parserPc = "idle"
    [] part = "probes" -> config.rendered
    [] part = "text" -> TRUE
PartsEnd == []<>Resting

================================================================================
