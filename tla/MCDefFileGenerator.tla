------------------------- MODULE MCDefFileGenerator -------------------------
(* DefFileGenerator for TLC: two generators in one directory, with jobs that *)
(* share names between objects and definition files, and one job for each    *)
(* way an input can be bad.                                                  *)
EXTENDS DefFileGenerator

\* Names 1 to 4 in the order of strcmp; 5 is the stdcall form of 1, 6 of "".
MCUndecorated == <<1, 2, 3, 4, 1, 0>> @@ (0 :> 0)

Symbol(n, t, f) == [name |-> n, type |-> t, form |-> f]
MCObjectSymbols ==
  "code" :> <<Symbol(3, "T", "plain"), Symbol(5, "T", "plain"), Symbol(2, "D", "plain")>>
  @@ "vtable" :> <<Symbol(4, "R", "vftable"), Symbol(2, "R", "plain"),
                   Symbol(1, "W", "plain"), Symbol(1, "B", "thunk"), Symbol(6, "T", "plain"),
                   Symbol(3, "t", "plain")>>
  @@ "garbled" :> <<Symbol(1, "T", "plain"), Symbol(2, "T", "malformed")>>

Line(n, k) == [name |-> n, kind |-> k]
MCDefinitionLines ==
  "exports" :> <<Line(0, "header"), Line(4, "data"), Line(3, "plain"), Line(0, "plain"), Line(1, "plain")>>

Object(o) == [kind |-> "object", file |-> o]
Definition(d) == [kind |-> "definition", file |-> d]
Direct(e) == [parameters |-> FALSE, entries |-> <<e>>]
Parameters(s) == [parameters |-> TRUE, entries |-> s]
MCJobs ==
  { <<Direct(Object("code")), Direct(Definition("exports"))>>,
    <<Parameters(<<Definition("exports"), Object("vtable"), Object("code")>>)>>,
    <<Direct(Object("code")), Direct(Object("bad"))>>,
    <<Direct(Object("quoted"))>>,
    <<Direct(Object("garbled"))>>,
    <<Parameters(<<Object("vtable"), [kind |-> "malformed"]>>)>>,
    <<Direct(Definition("exports"))>> }
==============================================================================
