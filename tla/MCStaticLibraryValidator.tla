---------------------- MODULE MCStaticLibraryValidator ----------------------
(* StaticLibraryValidator for TLC: every archive of at most three members   *)
(* over two symbols, one a prefix of the other, and a third that sorts      *)
(* between or after them; every kind of definition; both object formats.    *)
EXTENDS StaticLibraryValidator

MCSymbols == {<<1>>, <<1, 2>>, <<2>>}
MCDefinitions ==
  [symbol : MCSymbols, kind : Kinds \ {"noise", "undefined"}]
    \cup [symbol : {<<1>>}, kind : {"noise", "undefined"}]
MCLibraries == UNION {[1..n -> MCDefinitions] : n \in 0..3}
MCMissingSets == {{}, {"LLVM_CXXFILT"}}
MCLostSets == {{}, {"nm"}, {"filt"}}
MCNoneLost == {{}}
==============================================================================
