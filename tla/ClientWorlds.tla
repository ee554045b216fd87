---------------------------- MODULE ClientWorlds ----------------------------
(* The hosts, kernels, publications, args and BuildSpecs of MCClient.      *)
EXTENDS BuildArgs, Target, Validation

(* Args: a field with a default that has a field with a default, and a list. *)
Integer(n) == Number(n, "int")
TileSchema ==
  ObjectSchema([m |-> Schema("number", {Integer(2)}), n |-> Schema("number", {})], {"n"},
               {Object([n |-> Integer(1)])})
DimSchema == ObjectSchema([k |-> Schema("number", {Integer(1)})], {}, {})
TheSchema ==
  ObjectSchema([tile |-> TileSchema, type |-> Schema("word", {Word("f16")}),
                dims |-> ArraySchema({DimSchema}, {})], {}, {})
ThePaths ==
  {<<"tile">>, <<"tile", "m">>, <<"tile", "n">>, <<"type">>, <<"dims">>, <<"dims", 1, "k">>}

Nothing == Object(<<>>)
Tile(fields) == Object([tile |-> Object(fields)])
\* The first two mean the same, and so do the next two; the others are refused.
TheArgsAt ==
  << Nothing, Tile([n |-> Number(1, "float"), m |-> Integer(2)]),
     Object([dims |-> Array(<<Nothing>>)]),
     Object([dims |-> Array(<<Object([k |-> Integer(1)])>>), type |-> Word("f16")]),
     Tile([n |-> Integer(9)]), Tile([n |-> Number(0, "minus_zero")]), Tile([m |-> Integer(2)]),
     Tile([n |-> Word("f16")]), Object([unknown |-> Integer(1)]) >>

(* Kernels.                                                                *)
Glibc(v) == <<"GLIBC", v>>
Provided ==
  {Glibc(<<2, 4>>), Glibc(<<2, 28>>), Glibc(<<2, 34>>), <<"GLIBCXX", <<3, 4, 9>> >>,
   <<"GLIBCXX", <<3, 4, 21>> >>, <<"CXXABI", <<1, 3, 9>> >>, <<"CXXABI", NoVersion>>}
Plain ==
  [machine |-> "x86_64", rpath |-> FALSE, needed |-> {"libc.so.6", "libtvm_ffi.so"},
   versions |-> {Glibc(<<2, 4>>)}]
Cxx ==
  [Plain EXCEPT !.needed = @ \cup CxxLibraries,
                !.versions = @ \cup {<<"GLIBCXX", <<3, 4, 9>> >>, <<"GLIBCXX", <<3, 4, 21>> >>,
                                    <<"CXXABI", <<1, 3, 9>> >>, <<"CXXABI", NoVersion>>}]
Cuda == [Plain EXCEPT !.needed = @ \cup {"libcudart.so.12"}]
Dsl == [Plain EXCEPT !.needed = @ \cup {CuteDsl}]
TooNew == [Plain EXCEPT !.versions = {Glibc(<<2, 4>>), Glibc(<<2, 34>>)}]
Helper == [Plain EXCEPT !.needed = @ \cup {"/opt/lib/libhelper.so"}]

(* Hosts.                                                                  *)
Host ==
  [system |-> "Linux", machine |-> "x86_64", target_arch |-> {},
   nvcc |-> {<< <<1, 2>>, <<8>> >>}, torch_cuda |-> {<< <<1, 2>>, <<6>> >>}, gpu |-> {<<9, 0>>},
   libraries |-> BaseLibraries \cup CudaSonames \cup AlwaysAllowed,
   provided |-> Provided, cutedsl |-> <<4, 10, 0>>]
OldHost ==
  [Host EXCEPT !.nvcc = {}, !.cutedsl = <<4, 6, 0>>, !.gpu = {<<8, 9>>},
               !.provided = @ \ {<<"GLIBCXX", <<3, 4, 21>> >>}]
BareHost == [Host EXCEPT !.libraries = BaseLibraries \cup AlwaysAllowed, !.cutedsl = NoVersion]
NoGpu == [Host EXCEPT !.gpu = {}]
Mac == [Host EXCEPT !.system = "Darwin", !.machine = "arm64"]

(* Publications.                                                           *)
Options(minor, cc, suffix) ==
  [cuda |-> << <<1, 2>>, minor, <<1>> >>, cc |-> <<cc, suffix>>, tvm_ffi |-> 1]
Publication(options, host, arch) ==
  [args |-> Tile([n |-> Integer(1)]), options |-> options, host |-> host, arch |-> arch]
ForHopper == Publication(Options(<<0, 8>>, <<9, 0>>, "a"), Mac, "x86_64")
ForAda == Publication(Options(<<6>>, <<0, 8, 9>>, ""), Host, "x86_64")
ForArm == Publication(Options(<<8>>, <<9, 0>>, "a"), [Host EXCEPT !.target_arch = {"arm64"}], "aarch64")
Misspelled == Publication(Options(<<8>>, <<9, 0>>, ""), Host, "x86_64")

W(host, kernel, published, offline) ==
  [host |-> host, kernel |-> kernel, published |-> published, offline |-> offline]
TheWorldAt ==
  << W(Host, Cxx, ForHopper, FALSE), W(Host, Cuda, ForHopper, FALSE), W(Host, Dsl, ForHopper, FALSE),
     W(OldHost, Dsl, ForAda, FALSE), W(OldHost, Cxx, ForAda, TRUE), W(BareHost, Cuda, ForHopper, FALSE),
     W(BareHost, Dsl, ForHopper, FALSE), W(Host, TooNew, ForArm, FALSE), W(Host, Helper, Misspelled, FALSE),
     W(NoGpu, Plain, ForHopper, FALSE), W(Host, Cuda, ForHopper, TRUE) >>
TheWorlds == DOMAIN TheWorldAt
TheRequests == DOMAIN TheArgsAt
TheVersions == {1, 2}

TheTargets ==
  UNION {{DetectTarget(TheWorldAt[w].host, v) : v \in TheVersions} : w \in TheWorlds}
    \cup {ExplicitTarget(TheWorldAt[w].published.options, TheWorldAt[w].published.host) : w \in TheWorlds}
TheNormalized == [q \in TheRequests |-> NormalizeArgs(TheArgsAt[q], TheSchema)]
TheArgs == {Canonical(TheNormalized[q]) : q \in {r \in TheRequests : TheNormalized[r] # Refused}}
TheSpecAt ==
  FoldSet(LAMBDA spec, seq : Append(seq, spec), <<>>, [args : TheArgs, target : TheTargets \ {NoTarget}])
=============================================================================
