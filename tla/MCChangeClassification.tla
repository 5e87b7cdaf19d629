----------------------- MODULE MCChangeClassification -----------------------
(* One path for each way through the classification, and the neighbours    *)
(* that a looser test of a prefix or a suffix would confuse with it.       *)
EXTENDS ChangeClassification

File(at) == [at |-> at, suffix |-> "other", odd |-> FALSE]
Document(at) == [at |-> at, suffix |-> "document", odd |-> FALSE]
Image(at) == [at |-> at, suffix |-> "image", odd |-> FALSE]

RepositoryPaths ==
    { Document(<<"README.md">>), File(<<"docs", "ci.txt">>), Image(<<"img", "logo.png">>),
      Document(<<"test", "README.md">>), Document(<<"benchmark", "README.md">>),
      Document(<<".github", "workflows", "README.md">>),
      Image(<<"test", "runtime", "logo.png">>),
      File(<<".github", "workflows", "ci.yml">>), File(<<"CMakeLists.txt">>),
      File(<<"include", "csv2", "reader.hpp">>),
      File(<<"test", "fixtures", "test_01.csv">>), Document(<<"test", "fixtures", "contract.md">>),
      File(<<"test", "CMakeLists.txt">>), File(<<"test", "fuzz", "reader.cpp">>),
      Document(<<"test", "fuzz", "corpus", "crash.md">>), File(<<"test", "runtime", "scan.cpp">>),
      File(<<"benchmark", "current", "main.cpp">>),
      Document(<<"benchmark", "datasets", "words.rst">>),
      File(<<"third_party", "verification", "catch2", "catch.cpp">>),
      Document(<<"third_party", "verification", "google_benchmark", "LICENSE.md">>),
      File(<<"third_party", "verification", "catch2-shadow", "source.cpp">>),
      File(<<"tools", "vendor", "update.py">>), File(<<".clang-format">>), File(<<"LICENSE">>),
      [at |-> <<"docs", "odd">>, suffix |-> "document", odd |-> TRUE] }
=============================================================================
