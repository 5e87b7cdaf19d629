---------------------------- MODULE MCCiPipeline ----------------------------
EXTENDS CiPipeline

File(at) == [at |-> at, suffix |-> "other", odd |-> FALSE]

\* One path for each set of owners that a path can select.
RepositoryPaths ==
    { [at |-> <<"README.md">>, suffix |-> "document", odd |-> FALSE],
      File(<<".clang-format">>), File(<<"test", "fuzz", "reader.cpp">>),
      File(<<"benchmark", "current", "main.cpp">>), File(<<"include", "csv2", "reader.hpp">>) }

Entry(name, target) == [name |-> name, labels |-> {SmokeLabel}, target |-> target]

\* The listings of up to three tests: those of the manifest, one bound to another
\* target, one without the label, one that is not in the manifest.
SmokeTests ==
    { Entry("scan", "a"), Entry("write", "b"), Entry("write", "a"), Entry("extra", "b"),
      [name |-> "scan", labels |-> {"quick"}, target |-> "a"] }

SmokeListings == BoundedSeq(SmokeTests, 3) \cup {Garbled}

ConfiguredTargets == { <<>>, <<<<"a">>, <<>>, <<"b">>>>, <<<<"a">>>>, <<<<"a">>, <<"b">>, <<"a">>>> }

CommittedTests == << <<"#", "name", "target">>, <<"scan", "a">>, <<"write", "b">>, <<>> >>
=============================================================================
