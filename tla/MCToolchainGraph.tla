--------------------------- MODULE MCToolchainGraph ---------------------------
(* ToolchainGraph for TLC.  Four of the fourteen sanitizers: asan, which    *)
(* libc++ inherits; ubsan for the eleven that every list resets; fuzzer and *)
(* profile, which the shorter lists leave out.                              *)
EXTENDS ToolchainGraph

MCSanitizers == {"asan", "ubsan", "fuzzer", "profile"}
MCShortList == {"asan", "ubsan"}
MCSymbolized == {"asan", "ubsan"}
MCPlatforms == {"linux", "macos", "mingw", "msvc", "none"}
MCExecPlatforms == {"linux", "macos", "mingw"}
==============================================================================
