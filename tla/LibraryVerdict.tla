--------------------------- MODULE LibraryVerdict ---------------------------
(***************************************************************************)
(* What validating a static library promises, whatever it does in between:  *)
(* one verdict on the library, and a stamp only for a library in which no   *)
(* symbol has two strong definitions.                                       *)
(***************************************************************************)
EXTENDS Naturals, Sequences

VARIABLES
  library,   \* the definitions in the archive's members, in archive order
  verdict,   \* "pending", "valid", "duplicates" or "error"
  stamped    \* the stamp file exists

avars == <<library, verdict, stamped>>

StrongKinds == {"text", "data"}

\* The symbols with two strong definitions.
DuplicatedIn(lib) ==
  {lib[k].symbol : k \in {i \in DOMAIN lib :
     /\ lib[i].kind \in StrongKinds
     /\ \E j \in DOMAIN lib \ {i} :
          lib[j].kind \in StrongKinds /\ lib[j].symbol = lib[i].symbol}}

AInit == verdict = "pending" /\ stamped = FALSE

Accept ==
  /\ verdict = "pending"
  /\ DuplicatedIn(library) = {}
  /\ verdict' = "valid"
  /\ stamped' = TRUE
  /\ UNCHANGED library

Reject ==
  /\ verdict = "pending"
  /\ DuplicatedIn(library) # {}
  /\ verdict' = "duplicates"
  /\ UNCHANGED <<library, stamped>>

\* The validation itself fails; the stamp may be there if the library is valid.
Fail ==
  /\ verdict = "pending"
  /\ verdict' = "error"
  /\ stamped' \in {stamped, DuplicatedIn(library) = {}}
  /\ UNCHANGED library

ANext == Accept \/ Reject \/ Fail

ASpec == AInit /\ [][ANext]_avars
==============================================================================
