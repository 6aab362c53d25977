------------------------------ MODULE MCToolParts ------------------------------
(***************************************************************************)
(* The parts of ToolParts for TLC.                                          *)
(*   buffer  size_t of six bits, blocks of up to 26 bytes, up to 30 bytes   *)
(*   spawn   all three tools, every failing call                            *)
(*   header  two contents that parse, one that does not, four attempts      *)
(*   probes  two link probes, a compile probe, policies; three pids, two    *)
(*           kills                                                          *)
(*   text    every text of up to four characters                            *)
(***************************************************************************)
EXTENDS ToolParts

MCFirst == [o \in Owners |-> IF o = "list" THEN 2 ELSE 3]
MCPrograms == {"link_wrapper", "def_file_generator", "static_library_validator"}
Check(kind, macro) == [kind |-> kind, macro |-> macro]
MCLists ==
  {<<Check("define", "A"), Check("link", "B"), Check("link", "C"), Check("undef", "A")>>,
   <<Check("link", "B"), Check("compile", "C"), Check("undef", "C")>>}
================================================================================
