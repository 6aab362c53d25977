----------------------------- MODULE KernelTables -----------------------------
(***************************************************************************)
(* The repository's tables that decide on the Linux headers of a target, in *)
(* full: constraints/libc, constraints/kernel, platforms, kernel/extension  *)
(* and the index beside it.  They are edited by hand in different files and *)
(* must fit each other; KernelHeaders says how they are used.               *)
(*                                                                          *)
(* Of the architectures of the index that the extension leaves out, sh      *)
(* stands for all.                                                          *)
(***************************************************************************)
EXTENDS Integers, Sequences, TLC

LIBCS ==
  {"musl", "gnu.2.28", "gnu.2.29", "gnu.2.30", "gnu.2.31", "gnu.2.32", "gnu.2.33", "gnu.2.34",
   "gnu.2.35", "gnu.2.36", "gnu.2.37", "gnu.2.38", "gnu.2.39", "gnu.2.40", "gnu.2.41",
   "gnu.2.42", "gnu.2.43", "gnu.2.44"}

\* Mutant: a new default, for the platforms and for glibc.
DEFAULT_LIBC_raised == "gnu.2.31"

DEFAULT_LIBC == "gnu.2.28"

DEFAULT_LIBCS == "riscv" :> "gnu.2.33"

\* The versions given for the libcs that LIBCS has.
Pinned ==
  ("gnu.2.28" :> <<4, 19, 325>>) @@ ("gnu.2.29" :> <<5, 1, 21>>) @@ ("gnu.2.30" :> <<5, 4, 293>>)
  @@ ("gnu.2.31" :> <<5, 7, 19>>) @@ ("gnu.2.32" :> <<5, 9, 16>>) @@ ("gnu.2.33" :> <<5, 12, 19>>)
  @@ ("gnu.2.34" :> <<5, 15, 182>>) @@ ("gnu.2.35" :> <<5, 17, 15>>) @@ ("gnu.2.36" :> <<6, 0, 19>>)
  @@ ("gnu.2.37" :> <<6, 3, 13>>) @@ ("gnu.2.38" :> <<6, 6, 90>>) @@ ("gnu.2.39" :> <<6, 9, 12>>)
  @@ ("gnu.2.40" :> <<6, 12, 28>>) @@ ("gnu.2.41" :> <<6, 14, 6>>) @@ ("gnu.2.42" :> <<6, 16, 12>>)
  @@ ("gnu.2.43" :> <<6, 18, 15>>) @@ ("gnu.2.44" :> <<7, 0, 10>>) @@ ("musl" :> <<6, 16, 12>>)

\* Mutant: a pinned version moves on to one that the index does not have.
LIBC_KERNEL_VERSIONS_moved ==
  [Pinned EXCEPT !["gnu.2.34"] = <<5, 15, 183>>] @@ ("unconstrained" :> Pinned["gnu.2.28"])

\* Without a constraint, the version of a glibc that is named here again.
LIBC_KERNEL_VERSIONS == Pinned @@ ("unconstrained" :> Pinned["gnu.2.28"])

\* LIBC_SUPPORTED_TARGETS, by the kernel's names.
LinuxCpus == {"x86", "arm64", "riscv", "s390", "arm"}

_SUPPORTED_ARCHS == {"riscv", "s390", "x86", "arm", "arm64"}

LINUX_KERNEL_VERSIONS ==
  ({6} \X (0 .. 17)) \cup ({5} \X (0 .. 19)) \cup ({4} \X (0 .. 20)) \cup ({3} \X (0 .. 19))

\* The versions of the index, in the order of the file.
IndexedVersions ==
  <<<<7, 0, 10>>, <<6, 19, 14>>, <<6, 18, 33>>, <<6, 12, 91>>, <<6, 6, 141>>,
    <<6, 1, 174>>, <<5, 15, 208>>, <<5, 10, 257>>, <<6, 19, 5>>, <<6, 18, 15>>,
    <<6, 17, 13>>, <<6, 12, 74>>, <<6, 6, 127>>, <<6, 1, 164>>, <<5, 15, 201>>,
    <<5, 10, 251>>, <<6, 16, 12>>, <<6, 15, 11>>, <<6, 14, 11>>, <<6, 17, 11>>,
    <<6, 12, 61>>, <<6, 6, 119>>, <<6, 1, 159>>, <<5, 15, 197>>, <<5, 10, 247>>,
    <<5, 4, 302>>, <<6, 17, 6>>, <<6, 6, 90>>, <<6, 9, 12>>, <<6, 8, 12>>, <<6, 7, 12>>,
    <<6, 6, 9>>, <<6, 6, 89>>, <<6, 5, 13>>, <<6, 4, 16>>, <<6, 3, 13>>, <<6, 2, 16>>,
    <<6, 14, 6>>, <<6, 14, 5>>, <<6, 13, 12>>, <<6, 12, 28>>, <<6, 12, 27>>,
    <<6, 11, 11>>, <<6, 10, 14>>, <<6, 1, 138>>, <<6, 1, 137>>, <<6, 0, 19>>,
    <<5, 9, 16>>, <<5, 8, 18>>, <<5, 7, 19>>, <<5, 6, 19>>, <<5, 5, 19>>, <<5, 4, 293>>,
    <<5, 3, 18>>, <<5, 2, 21>>, <<5, 19, 17>>, <<5, 18, 19>>, <<5, 17, 15>>,
    <<5, 16, 20>>, <<5, 15, 182>>, <<5, 15, 181>>, <<5, 14, 21>>, <<5, 13, 19>>,
    <<5, 12, 19>>, <<5, 11, 22>>, <<5, 10, 237>>, <<5, 1, 21>>, <<5, 0, 21>>,
    <<4, 9, 337>>, <<4, 8, 17>>, <<4, 7, 10>>, <<4, 6, 7>>, <<4, 5, 7>>, <<4, 4, 302>>,
    <<4, 3, 6>>, <<4, 20, 17>>, <<4, 2, 8>>, <<4, 19, 325>>, <<4, 18, 20>>,
    <<4, 17, 19>>, <<4, 16, 18>>, <<4, 15, 18>>, <<4, 14, 336>>, <<4, 13, 16>>,
    <<4, 12, 14>>, <<4, 11, 12>>, <<4, 10, 17>>, <<4, 1, 52>>, <<4, 0, 9>>,
    <<3, 9, 11>>, <<3, 8, 13>>, <<3, 7, 10>>, <<3, 6, 11>>, <<3, 5, 7>>, <<3, 4, 113>>,
    <<3, 3, 8>>, <<3, 2, 102>>, <<3, 19, 8>>, <<3, 18, 140>>, <<3, 17, 8>>,
    <<3, 16, 85>>, <<3, 15, 10>>, <<3, 14, 79>>, <<3, 13, 11>>, <<3, 12, 74>>,
    <<3, 11, 10>>, <<3, 10, 108>>, <<3, 1, 10>>, <<3, 0, 101>>>>

\* Linux has arm64 since 3.7 and RISC-V since 4.15.
IndexedArchs(v) ==
  {"x86", "s390", "arm", "sh"}
  \cup (IF v[1] > 3 \/ v[2] >= 7 THEN {"arm64"} ELSE {})
  \cup (IF v[1] > 4 \/ (v[1] = 4 /\ v[2] >= 15) THEN {"riscv"} ELSE {})

kernel_headers_index ==
  [i \in DOMAIN IndexedVersions |->
     [version |-> IndexedVersions[i], archs |-> IndexedArchs(IndexedVersions[i])]]
==============================================================================
