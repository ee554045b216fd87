----------------------------- MODULE Validation -----------------------------
(***************************************************************************)
(* validation.py: what a kernel.so may need of its host, what its config   *)
(* says that it needs, and whether a host has it.                          *)
(*                                                                         *)
(* A kernel.so is a record of what ELF says: machine, whether there is an  *)
(* RPATH or RUNPATH, the DT_NEEDED names, and the symbol versions it       *)
(* requires, <<prefix, version>>, where the version is a sequence of       *)
(* numbers, or empty if it is not made of numbers (CXXABI_FLOAT128).       *)
(***************************************************************************)
EXTENDS Naturals, Sequences, FiniteSets

NoVersion == <<>>

BaseLibraries == {"libc.so.6", "libm.so.6", "libstdc++.so.6", "libgcc_s.so.1"}
CxxLibraries == {"libstdc++.so.6", "libgcc_s.so.1"}
CudaSonames == {"libcudart.so.12", "libcublas.so.12", "libcute_dsl_runtime.so"}
CuteDsl == "libcute_dsl_runtime.so"
\* libtvm_ffi.so* and ld-linux*.
AlwaysAllowed == {"libtvm_ffi.so", "ld-linux-x86-64.so.2"}

\* MAX_GLIBC, MAX_GLIBCXX and MAX_CXXABI.
Baseline == [GLIBC |-> <<2, 28>>, GLIBCXX |-> <<3, 4, 30>>, CXXABI |-> <<1, 3, 13>>]
MinimumVersion(soname) == IF soname = CuteDsl THEN <<4, 6, 1>> ELSE <<0>>

\* _version_tuple(a) > _version_tuple(b): at the first difference, or by length.
Newer(a, b) ==
  \E i \in DOMAIN a :
    /\ \A j \in 1 .. i - 1 : j \in DOMAIN b /\ a[j] = b[j]
    /\ i \in DOMAIN b => a[i] > b[i]

\* _maximum_version: of those that are made of numbers.
MaximumVersion(names, prefix) ==
  LET matching == {n[2] : n \in {m \in names : m[1] = prefix}} \ {NoVersion}
  IN IF matching = {} THEN NoVersion
     ELSE CHOOSE v \in matching : \A w \in matching : ~Newer(w, v)

\* infer_host_dependencies.
InferHostDependencies(so) ==
  {[soname |-> n, min_version |-> MinimumVersion(n)] : n \in so.needed \cap CudaSonames}

\* cxx_runtime_requirement: at most one.
CxxRuntimeRequirement(so) ==
  IF so.needed \cap CxxLibraries = {} THEN {}
  ELSE {[required_glibcxx |-> MaximumVersion(so.versions, "GLIBCXX"),
         required_cxxabi |-> MaximumVersion(so.versions, "CXXABI")]}

\* The config of a Build of `target`: publish.build_objects and materialize.
ConfigOf(so, target, dependencies) ==
  [kernel_so |-> so, target |-> target, host_dependencies |-> dependencies,
   cxx_runtime |-> CxxRuntimeRequirement(so)]

\* validate_kernel_so.
ValidateKernelSo(so, cfg) ==
  LET declared == {d.soname : d \in cfg.host_dependencies} IN
  /\ cfg.kernel_so = so
  /\ so.machine = cfg.target.arch
  /\ ~so.rpath
  /\ so.needed \subseteq BaseLibraries \cup declared \cup AlwaysAllowed
  /\ \A prefix \in DOMAIN Baseline :
       ~Newer(MaximumVersion(so.versions, prefix), Baseline[prefix])
  /\ cfg.cxx_runtime = CxxRuntimeRequirement(so)

\* validate_host_dependencies: that they open, and that the package of the
\* CuteDSL runtime is new enough.
ValidateHostDependencies(cfg, host) ==
  \A d \in cfg.host_dependencies :
    /\ d.soname \in host.libraries
    /\ d.soname = CuteDsl => ~Newer(d.min_version, host.cutedsl)

\* validate_host_cxx_runtime: the versions in the file that libstdc++ is mapped
\* from.  That file is taken to be there (if it is not, the check raises) and to
\* be the one that was mapped.
ValidateHostCxxRuntime(cfg, host) ==
  \A r \in cfg.cxx_runtime :
    /\ CxxLibraries \subseteq host.libraries
    /\ ~Newer(r.required_glibcxx, MaximumVersion(host.provided, "GLIBCXX"))
    /\ ~Newer(r.required_cxxabi, MaximumVersion(host.provided, "CXXABI"))

\* validate_tvm_ffi_runtime.
ValidateTvmFfi(cfg, version) == cfg.target.tvm_ffi = version

-----------------------------------------------------------------------------
(* What is needed, as the reference for the above.                         *)

\* dlopen(3): every library is there, and has every version that is asked for
\* of it.
DlOpens(so, host) == so.needed \subseteq host.libraries /\ so.versions \subseteq host.provided

\* At least 4.6.1; what is missing counts as 0.
IsNewDsl(v) ==
  LET At(i) == IF i \in DOMAIN v THEN v[i] ELSE 0
  IN At(1) > 4 \/ (At(1) = 4 /\ (At(2) > 6 \/ (At(2) = 6 /\ At(3) >= 1)))

\* What dlopen cannot tell: the module was compiled for this tvm-ffi, and the
\* CuteDSL runtime is new enough.
RunsOn(so, target, host, version) ==
  /\ target.tvm_ffi = version
  /\ CuteDsl \in so.needed => IsNewDsl(host.cutedsl)
=============================================================================
