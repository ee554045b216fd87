------------------------------- MODULE Target -------------------------------
(***************************************************************************)
(* The target of a Build: target.explicit_target, for those who publish,   *)
(* and target.detect_target, for those who load.                           *)
(*                                                                         *)
(* A decimal number in a text is the sequence of its digits, a version the *)
(* sequence of its numbers, and sm_90a is <<digits, suffix>>.  A host says *)
(* what its tools and files say; what is missing is an empty set.          *)
(***************************************************************************)
EXTENDS Integers, Sequences, SequencesExt

NoTarget == [os |-> "none"]

\* int(): leading zeros do not count.
Value(digits) ==
  LET value[i \in 0 .. Len(digits)] == IF i = 0 THEN 0 ELSE 10 * value[i - 1] + digits[i]
  IN value[Len(digits)]

\* normalize_cuda_version: major.minor of major.minor[.patch].
IsCuda(version) == Len(version) \in {2, 3}
NormalizeCuda(version) == <<Value(version[1]), Value(version[2])>>

\* normalize_cc: the last digit is the minor version, and "a" stands exactly
\* with compute capability 9.0 and newer.
CcMajor(cc) == Value(Front(cc[1]))
IsCc(cc) == Len(cc[1]) >= 2 /\ cc[2] = (IF CcMajor(cc) >= 9 THEN "a" ELSE "")
NormalizeCc(cc) == <<CcMajor(cc), Last(cc[1]), cc[2]>>

Arch == [x86_64 |-> "x86_64", aarch64 |-> "aarch64", arm64 |-> "aarch64"]

\* explicit_target: the options of the command, K_DASH_TARGET_ARCH, the system.
ExplicitTarget(options, host) ==
  LET machine == CASE host.target_arch # {} -> CHOOSE a \in host.target_arch : TRUE
                   [] host.system = "Darwin" -> "x86_64"
                   [] OTHER -> host.machine
  IN IF machine \in DOMAIN Arch /\ IsCuda(options.cuda) /\ IsCc(options.cc)
     THEN [os |-> "linux", arch |-> Arch[machine], cuda |-> NormalizeCuda(options.cuda),
           cc |-> NormalizeCc(options.cc), tvm_ffi |-> options.tvm_ffi]
     ELSE NoTarget

\* detect_target: nvcc is believed before PyTorch; logical GPU 0 is asked
\* through PyTorch in any case.
DetectTarget(host, tvm_ffi) ==
  LET toolkit == IF host.nvcc # {} THEN host.nvcc ELSE host.torch_cuda
      gpu == CHOOSE g \in host.gpu : TRUE
  IN IF /\ host.system = "Linux" /\ host.machine \in {"x86_64", "aarch64"}
        /\ toolkit # {} /\ (\A v \in toolkit : IsCuda(v)) /\ host.gpu # {}
     THEN [os |-> "linux", arch |-> host.machine,
           cuda |-> NormalizeCuda(CHOOSE v \in toolkit : TRUE),
           cc |-> <<gpu[1], gpu[2], IF gpu[1] >= 9 THEN "a" ELSE "">>, tvm_ffi |-> tvm_ffi]
     ELSE NoTarget

-----------------------------------------------------------------------------
(* What options and hosts say, and when they mean one target.              *)

Decimal == Seq(0 .. 9)
AtMostOne(set) == \A x, y \in set : x = y

IsOptions(options) == options.cuda \in Seq(Decimal) /\ options.cc[1] \in Decimal

\* The minor version of a compute capability is one digit.
IsHost(host) ==
  /\ \A versions \in {host.nvcc, host.torch_cuda} :
       versions \subseteq Seq(Decimal) /\ AtMostOne(versions)
  /\ host.gpu \subseteq Nat \X (0 .. 9) /\ AtMostOne(host.gpu)

\* A target of these options and this architecture is the host's: CUDA to the
\* minor version, the compute capability as a number.
IsFor(options, arch, host, tvm_ffi) ==
  LET toolkit == IF host.nvcc # {} THEN host.nvcc ELSE host.torch_cuda
  IN /\ \A i \in 1 .. 2 : Value(options.cuda[i]) \in {Value(c[i]) : c \in toolkit}
     /\ Value(options.cc[1]) \in {10 * g[1] + g[2] : g \in host.gpu}
     /\ arch = host.machine
     /\ options.tvm_ffi = tvm_ffi
=============================================================================
