--------------------------- MODULE DefFileGenerator ---------------------------
(***************************************************************************)
(* tools/def_file_generator/def_file_generator.c: merge the exports of      *)
(* definition files and of objects into one .def file.  Objects are listed  *)
(* by llvm-nm, which is given their names in a response file in the working *)
(* directory.  Several generators run at once in that directory.            *)
(*                                                                          *)
(* Names stand for symbols, numbered in the order of strcmp; 0 is the empty *)
(* one.  An nm symbol is a record of what add_nm_symbol looks at.           *)
(***************************************************************************)
EXTENDS Integers, Sequences, SequencesExt, FiniteSetsExt

CONSTANTS
  Generators,     \* the process ids of the generators
  Jobs,           \* the argument lists: sequences of arguments
  ObjectSymbols,  \* object -> sequence of [name, type, form]; what nm prints
  BadObjects,     \* the objects llvm-nm fails on
  QuotedObjects,  \* the objects with a '"' in their names
  DefinitionLines,\* definition file -> sequence of [name, kind]
  Undecorated,    \* name -> name, "_f@4" -> "f" and the others to themselves
  StaleObjects    \* what a response file of an earlier process may list

Objects == DOMAIN ObjectSymbols \cup BadObjects \cup QuotedObjects
Names == DOMAIN Undecorated

(* An entry is an object, a definition file or a line that does not decode. *)
Entries == [kind : {"object"}, file : Objects]
             \cup [kind : {"definition"}, file : DOMAIN DefinitionLines]
             \cup [kind : {"malformed"}]
(* An argument is an entry of its own or a parameter file of entries.       *)
Arguments == [parameters : BOOLEAN, entries : Seq(Entries)]

ASSUME GeneratorsAssumption == Generators \subseteq Nat
ASSUME JobsAssumption == Jobs \subseteq Seq(Arguments)
ASSUME NamesAssumption == Names \subseteq Nat /\ Undecorated \in [Names -> Names]

(* The lines of a definition file; the blanks before a name are skipped, so *)
(* that " \t DATA" never follows an empty one.  The symbols of an object.   *)
Lines == {l \in [name : Names, kind : {"header", "data", "plain"}] :
            l.kind = "data" => l.name # 0}
NmSymbols == [name : Names, type : STRING, form : STRING]

ASSUME FilesAssumption ==
  /\ \A d \in DOMAIN DefinitionLines : DefinitionLines[d] \in Seq(Lines)
  /\ \A o \in DOMAIN ObjectSymbols : ObjectSymbols[o] \in Seq(NmSymbols)
  /\ StaleObjects \subseteq Objects

VARIABLES
  job,       \* generator -> its arguments; never changes
  nmIsSet,   \* LLVM_NM is set; never changes
  pc,        \* generator -> its step
  argument,  \* generator -> the argument it has come to
  pending,   \* generator -> the entries left of the parameter file it reads
  objects,   \* generator -> the objects it has collected
  sets,      \* generator -> [data, plain]: the string sets, as sequences
  response,  \* response file -> [state, objects]
  child,     \* generator -> its llvm-nm: "none", "running", "ok", "failed"
  listing,   \* generator -> the symbols llvm-nm has printed
  def,       \* generator -> [state, data, plain]: the .def file
  faults,    \* generator -> the faults the program cannot report
  exit       \* generator -> its exit status, once pc = "done"

input == <<job, nmIsSet>>
memory == <<argument, pending, objects, sets>>
vars == <<input, pc, memory, response, child, listing, def, faults, exit>>

------------------------------------------------------------------------------
(* The parts of the program that only compute.                              *)

\* Mutant: a new value goes to the end.
string_set_append(set, value) ==
  IF value \in Range(set) THEN set ELSE Append(set, value)

\* The values stay sorted: insert before the first that is not less.
string_set_insert(set, value) ==
  LET position == Max({k \in 0..Len(set) : \A i \in 1..k : set[i] < value})
  IN  IF position < Len(set) /\ set[position + 1] = value
      THEN set ELSE InsertAt(set, position + 1, value)

\* LIBRARY and EXPORTS lines are skipped, and so is an empty line.
MergeLine(s, line) ==
  CASE line.kind = "data" -> [s EXCEPT !.data = string_set_insert(@, line.name)]
    [] line.kind = "plain" /\ line.name # 0 ->
         [s EXCEPT !.plain = string_set_insert(@, line.name)]
    [] OTHER -> s

DataTypes == {"B", "D", "G", "S"}
UnexportedTypes == {"U", "V", "W", "C"}
UpperCase == {"A", "B", "C", "D", "E", "F", "G", "H", "I", "J", "K", "L", "M",
              "N", "O", "P", "Q", "R", "S", "T", "U", "V", "W", "X", "Y", "Z"}

\* Undefined, weak, common and lower case (local) symbols, constants but
\* vtables, deleting destructors, sections, managed code and thunks are not
\* exported.
IsExport(symbol) ==
  /\ Undecorated[symbol.name] # 0
  /\ symbol.type \in UpperCase
  /\ symbol.type \notin UnexportedTypes
  /\ symbol.type = "R" => symbol.form = "vftable"
  /\ symbol.form \in {"plain", "vftable"}

add_nm_symbol(s, symbol) ==
  CASE ~IsExport(symbol) -> s
    [] IsExport(symbol) /\ symbol.type \in DataTypes ->
         [s EXCEPT !.data = string_set_insert(@, Undecorated[symbol.name])]
    [] OTHER -> [s EXCEPT !.plain = string_set_insert(@, Undecorated[symbol.name])]

\* Mutant: all generators of a directory share one response file.
ResponsePathShared(g) == Min(Generators)

\* ".def-file-generator-<pid>.rsp"
ResponsePath(g) == g

------------------------------------------------------------------------------
NoFile == [state |-> "absent", objects |-> <<>>]
NoDef == [state |-> "absent", data |-> <<>>, plain |-> <<>>]

Init ==
  /\ job \in [Generators -> Jobs]
  /\ nmIsSet \in BOOLEAN
  /\ pc = [g \in Generators |-> "expand"]
  /\ argument = [g \in Generators |-> 1]
  /\ pending = [g \in Generators |-> <<>>]
  /\ objects = [g \in Generators |-> <<>>]
  /\ sets = [g \in Generators |-> [data |-> <<>>, plain |-> <<>>]]
  /\ \E stale \in {NoFile} \cup [state : {"stale"}, objects : {<<o>> : o \in StaleObjects}] :
       response = [g \in Generators |-> stale]
  /\ child = [g \in Generators |-> "none"]
  /\ listing = [g \in Generators |-> <<>>]
  /\ def = [g \in Generators |-> NoDef]
  /\ faults = [g \in Generators |-> {}]
  /\ exit = [g \in Generators |-> 0]

Goto(g, step) == pc' = [pc EXCEPT ![g] = step] /\ UNCHANGED exit
Exit(g, status) ==
  pc' = [pc EXCEPT ![g] = "done"] /\ exit' = [exit EXCEPT ![g] = status]

SetResponse(g, state, names) ==
  response' = [response EXCEPT ![ResponsePath(g)] =
                 [state |-> state, objects |-> names]]

\* The response file is removed, or is left behind if remove fails.
RemoveResponse(g) ==
  \/ /\ response[ResponsePath(g)].state # "absent"
     /\ SetResponse(g, "absent", <<>>)
     /\ UNCHANGED faults
  \/ /\ faults' = [faults EXCEPT ![g] = @ \cup {"remove"}]
     /\ UNCHANGED response

------------------------------------------------------------------------------
(* expand_inputs: the arguments in turn, parameter files entry by entry.    *)

\* A parameter file does not open or close.
ParametersFail(g) ==
  /\ pc[g] \in {"expand", "entries"}
  /\ argument[g] <= Len(job[g])
  /\ job[g][argument[g]].parameters
  /\ Exit(g, 1)
  /\ UNCHANGED <<input, memory, response, child, listing, def, faults>>

OpenArgument(g) ==
  /\ pc[g] = "expand"
  /\ argument[g] <= Len(job[g])
  /\ pending' = [pending EXCEPT ![g] = job[g][argument[g]].entries]
  /\ Goto(g, "entries")
  /\ UNCHANGED <<input, argument, objects, sets, response, child, listing, def, faults>>

\* read_line returns NULL at the end of the file and on a read error.
CloseArgument(g) ==
  /\ pc[g] = "entries"
  /\ faults' = IF pending[g] = <<>> THEN faults
               ELSE [faults EXCEPT ![g] = @ \cup {"read"}]
  /\ pending[g] # <<>> => job[g][argument[g]].parameters
  /\ pending' = [pending EXCEPT ![g] = <<>>]
  /\ argument' = [argument EXCEPT ![g] = @ + 1]
  /\ Goto(g, "expand")
  /\ UNCHANGED <<input, objects, sets, response, child, listing, def>>

AddObject(g) ==
  /\ pc[g] = "entries"
  /\ pending[g] # <<>>
  /\ Head(pending[g]).kind = "object"
  /\ objects' = [objects EXCEPT ![g] = Append(@, Head(pending[g]).file)]
  /\ pending' = [pending EXCEPT ![g] = Tail(@)]
  /\ UNCHANGED <<input, pc, argument, sets, response, child, listing, def, faults, exit>>

\* All lines of a definition file, or those before a read error.
MergeDefinitionFile(g) ==
  /\ pc[g] = "entries"
  /\ pending[g] # <<>>
  /\ Head(pending[g]).kind = "definition"
  /\ LET lines == DefinitionLines[Head(pending[g]).file]
     IN  \E n \in 0..Len(lines) :
           /\ sets' = [sets EXCEPT ![g] = FoldLeft(MergeLine, @, SubSeq(lines, 1, n))]
           /\ faults' = IF n = Len(lines) THEN faults
                        ELSE [faults EXCEPT ![g] = @ \cup {"read"}]
  /\ pending' = [pending EXCEPT ![g] = Tail(@)]
  /\ UNCHANGED <<input, pc, argument, objects, response, child, listing, def, exit>>

\* A line does not decode, or a definition file does not open or close.
EntryFails(g) ==
  /\ pc[g] = "entries"
  /\ pending[g] # <<>>
  /\ Head(pending[g]).kind \in {"malformed", "definition"}
  /\ Exit(g, 1)
  /\ UNCHANGED <<input, memory, response, child, listing, def, faults>>

ExpandDone(g) ==
  /\ pc[g] = "expand"
  /\ argument[g] > Len(job[g])
  /\ Goto(g, IF objects[g] = <<>> THEN "write" ELSE "respond")
  /\ UNCHANGED <<input, memory, response, child, listing, def, faults>>

------------------------------------------------------------------------------
(* discover_object_symbols.                                                 *)

OpenResponseFails(g) ==
  /\ pc[g] = "respond"
  /\ Exit(g, 1)
  /\ UNCHANGED <<input, memory, response, child, listing, def, faults>>

\* A stale file of an earlier process of this id is truncated.
OpenResponse(g) ==
  /\ pc[g] = "respond"
  /\ SetResponse(g, "written", <<>>)
  /\ Goto(g, "fill")
  /\ UNCHANGED <<input, memory, child, listing, def, faults>>

\* Mutant: the response file is left behind.
FillResponseFailsLeavesIt(g) ==
  /\ pc[g] = "fill"
  /\ Exit(g, 1)
  /\ UNCHANGED <<input, memory, response, child, listing, def, faults>>

\* An object's name has a '"', or the file cannot be written or closed.
FillResponseFails(g) ==
  /\ pc[g] = "fill"
  /\ RemoveResponse(g)
  /\ Exit(g, 1)
  /\ UNCHANGED <<input, memory, child, listing, def>>

FillResponse(g) ==
  /\ pc[g] = "fill"
  /\ Range(objects[g]) \cap QuotedObjects = {}
  /\ SetResponse(g, "written", response[ResponsePath(g)].objects \o objects[g])
  /\ Goto(g, "tool")
  /\ UNCHANGED <<input, memory, child, listing, def, faults>>

\* required_env exits at once: the response file stays.
MissingNm(g) ==
  /\ pc[g] = "tool"
  /\ ~nmIsSet
  /\ Exit(g, 2)
  /\ UNCHANGED <<input, memory, response, child, listing, def, faults>>

\* tmpfile or fork fails.
NmFailsToStart(g) ==
  /\ pc[g] = "tool"
  /\ nmIsSet
  /\ RemoveResponse(g)
  /\ Exit(g, 1)
  /\ UNCHANGED <<input, memory, child, listing, def>>

StartNm(g) ==
  /\ pc[g] = "tool"
  /\ nmIsSet
  /\ child' = [child EXCEPT ![g] = "running"]
  /\ Goto(g, "wait")
  /\ UNCHANGED <<input, memory, response, listing, def, faults>>

\* llvm-nm reads the response file and the objects, each with its symbols in
\* the order of the object.
NmEnds(g) ==
  /\ child[g] = "running"
  /\ LET file == response[ResponsePath(g)]
     IN  /\ file.state # "absent"
         /\ Range(file.objects) \subseteq DOMAIN ObjectSymbols
         /\ listing' = [listing EXCEPT ![g] =
              FlattenSeq([k \in DOMAIN file.objects |-> ObjectSymbols[file.objects[k]]])]
  /\ child' = [child EXCEPT ![g] = "ok"]
  /\ UNCHANGED <<input, pc, memory, response, def, faults, exit>>

NmFails(g) ==
  /\ child[g] = "running"
  /\ child' = [child EXCEPT ![g] = "failed"]
  /\ UNCHANGED <<input, pc, memory, response, listing, def, faults, exit>>

\* waitpid fails, llvm-nm failed, a line of its is malformed or cannot be
\* read: whatever remove returns, the run has failed.
DiscoverFails(g) ==
  /\ pc[g] = "wait"
  /\ RemoveResponse(g)
  /\ Exit(g, 1)
  /\ UNCHANGED <<input, memory, child, listing, def>>

\* Mutant: the status of llvm-nm is ignored.
DiscoverAnyStatus(g) ==
  /\ pc[g] = "wait"
  /\ child[g] \in {"ok", "failed"}
  /\ \A k \in DOMAIN listing[g] : listing[g][k].form # "malformed"
  /\ sets' = [sets EXCEPT ![g] = FoldLeft(add_nm_symbol, @, listing[g])]
  /\ response[ResponsePath(g)].state # "absent"
  /\ SetResponse(g, "absent", <<>>)
  /\ Goto(g, "write")
  /\ UNCHANGED <<input, argument, pending, objects, child, listing, def, faults>>

\* llvm-nm exits with 0, its output is parsed and the response file removed.
Discover(g) ==
  /\ pc[g] = "wait"
  /\ child[g] = "ok"
  /\ \A k \in DOMAIN listing[g] : listing[g][k].form # "malformed"
  /\ sets' = [sets EXCEPT ![g] = FoldLeft(add_nm_symbol, @, listing[g])]
  /\ response[ResponsePath(g)].state # "absent"
  /\ SetResponse(g, "absent", <<>>)
  /\ Goto(g, "write")
  /\ UNCHANGED <<input, argument, pending, objects, child, listing, def, faults>>

------------------------------------------------------------------------------
(* write_def_file.                                                          *)

WriteDef(g) ==
  /\ pc[g] = "write"
  /\ def' = [def EXCEPT ![g] = [state |-> "complete",
                                data |-> sets[g].data, plain |-> sets[g].plain]]
  /\ Exit(g, 0)
  /\ UNCHANGED <<input, memory, response, child, listing, faults>>

\* No fprintf is checked: if one that empties the buffer fails and fclose
\* writes the rest, nobody reads the error flag of the file.
WriteDefTorn(g) ==
  /\ pc[g] = "write"
  /\ def' = [def EXCEPT ![g] = [NoDef EXCEPT !.state = "torn"]]
  /\ faults' = [faults EXCEPT ![g] = @ \cup {"write"}]
  /\ Exit(g, 0)
  /\ UNCHANGED <<input, memory, response, child, listing>>

\* The file does not open, or fclose reports that it is not all there.
WriteDefFails(g) ==
  /\ pc[g] = "write"
  /\ \E state \in {"absent", "torn"} :
       def' = [def EXCEPT ![g] = [NoDef EXCEPT !.state = state]]
  /\ Exit(g, 1)
  /\ UNCHANGED <<input, memory, response, child, listing, faults>>

------------------------------------------------------------------------------
Generator(g) ==
  \/ ParametersFail(g) \/ OpenArgument(g) \/ CloseArgument(g) \/ AddObject(g)
  \/ MergeDefinitionFile(g) \/ EntryFails(g) \/ ExpandDone(g)
  \/ OpenResponseFails(g) \/ OpenResponse(g) \/ FillResponseFails(g)
  \/ FillResponse(g) \/ MissingNm(g) \/ NmFailsToStart(g) \/ StartNm(g)
  \/ DiscoverFails(g) \/ Discover(g) \/ WriteDef(g) \/ WriteDefTorn(g)
  \/ WriteDefFails(g)

Nm(g) == NmEnds(g) \/ NmFails(g)

Done == (\A g \in Generators : pc[g] = "done") /\ UNCHANGED vars

Next == (\E g \in Generators : Generator(g) \/ Nm(g)) \/ Done

Spec == Init /\ [][Next]_vars

------------------------------------------------------------------------------
(* Properties.                                                              *)

Steps == {"expand", "entries", "respond", "fill", "tool", "wait", "write", "done"}

\* Every variable has its type; the string sets and the .def file they become
\* are strictly sorted.
IncreasingSeqs == {s \in Seq(Names) : \A i \in 1 .. Len(s) - 1 : s[i] < s[i + 1]}
TypeOK ==
  /\ job \in [Generators -> Jobs] /\ nmIsSet \in BOOLEAN
  /\ pc \in [Generators -> Steps]
  /\ \A g \in Generators :
       /\ argument[g] \in 1 .. Len(job[g]) + 1
       /\ pending[g] \in Seq(Entries)
       /\ objects[g] \in Seq(Objects)
       /\ sets[g] \in [data : IncreasingSeqs, plain : IncreasingSeqs]
       /\ response[g].state \in {"absent", "stale", "written"}
       /\ response[g].objects \in Seq(Objects)
       /\ child[g] \in {"none", "running", "ok", "failed"}
       /\ def[g].state \in {"absent", "torn", "complete"}
       /\ faults[g] \subseteq {"read", "remove", "write"}
       /\ exit[g] \in 0..2

\* What a job is given, and the exports that follow from it whatever the order
\* of its arguments.
EntriesOf(g) == UNION {Range(job[g][k].entries) : k \in DOMAIN job[g]}
FilesOf(g, kind) == {e.file : e \in {f \in EntriesOf(g) : f.kind = kind}}
LinesOf(g) == UNION {Range(DefinitionLines[f]) : f \in FilesOf(g, "definition")}
SymbolsOf(g) == UNION {Range(ObjectSymbols[o]) : o \in FilesOf(g, "object")}
ExportsOf(g, isData) ==
  ({l.name : l \in {m \in LinesOf(g) : m.kind = IF isData THEN "data" ELSE "plain"}}
    \cup {Undecorated[y.name] : y \in {z \in SymbolsOf(g) :
            IsExport(z) /\ isData = (z.type \in DataTypes)}}) \ {0}

\* A sequence of all the names of a set, in their order and each once.
Lists(seq, names) == seq \in IncreasingSeqs /\ Range(seq) = names

\* Exit status 0 means a .def file with exactly the exports of the inputs this
\* generator was given, sorted and each once, whatever other generators do in
\* the same directory and whatever a stale response file of its process id
\* says, unless a fault it does not see has hit it: an input that was not read
\* to its end (read_line cannot tell) or a line of the output that was not
\* written (no fprintf is checked).
SuccessMeansExactDef ==
  \A g \in Generators :
    pc[g] = "done" /\ exit[g] = 0 /\ faults[g] \cap {"read", "write"} = {} =>
      /\ def[g].state = "complete"
      /\ Lists(def[g].data, ExportsOf(g, TRUE))
      /\ Lists(def[g].plain, ExportsOf(g, FALSE))

\* No .def file, not even a torn one, comes of an object llvm-nm fails on, of
\* a name that cannot be quoted or of a line that does not decode.
NoDefOfBadInputs ==
  \A g \in Generators :
    def[g].state # "absent" /\ "read" \notin faults[g] =>
      /\ FilesOf(g, "object") \subseteq DOMAIN ObjectSymbols
      /\ \A e \in EntriesOf(g) : e.kind # "malformed"

\* A generator that exits leaves no response file of its own behind unless
\* LLVM_NM is not set (status 2), or remove failed, which it reports.
ResponseIsRemoved ==
  \A g \in Generators :
    pc[g] = "done" /\ exit[g] # 2 /\ response[g].state = "written" =>
      exit[g] = 1 /\ "remove" \in faults[g]
==============================================================================
