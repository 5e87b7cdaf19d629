-------------------------- MODULE MCSourceArchives --------------------------
EXTENDS SourceArchives

Path(where, what, name) == [in |-> where, is |-> what, name |-> name]

(* A file of the contract, another file, and every kind of work product.   *)
Header == Path("plain", "plain", "a")
Other == Path("plain", "plain", "b")
Places == {"plain", "work directory", "generated", "git", "pycache"}
Kinds == {"plain", "generated", "git", "work file", "suffix of work", "writer output", "backup",
          "work directory"}
WorkProducts == {Path(where, what, "a") : where \in Places, what \in Kinds} \ {Header}

WorkTree == {Header, Other} \cup WorkProducts
ContractFiles == {Header}

(* A tree with a file that is copied and then refused, of each kind.       *)
Refused ==
    {Path("plain", what, "b") : what \in {"link", "bare suffix", "unsafe name"}}
    \cup {Path("unsafe name", "plain", "b")}
SourceTrees == {WorkTree} \cup {{Header, file} : file \in Refused}

(* What another version, another tool or a failed copy left: nothing, the  *)
(* package of another version, two packages in one, a member twice, a      *)
(* link, one outside, one of work, one that lacks the header or has an     *)
(* older one, and two that may well be accepted, one of them with a file   *)
(* that package_source leaves out and the verification does not look for.  *)
Member(root, path) == [root |-> root, path |-> path, kind |-> "file", version |-> 1]
Good == Member("csv2-1", Header)

LeftArchives ==
    { <<>>, <<Member("csv2-0", Header)>>, <<Good, Member("csv2-0", Other)>>, <<Good, Good>>,
      <<Good, [Member("csv2-1", Other) EXCEPT !.kind = "link"]>>,
      <<Good, Member("csv2-1", Path("outside", "plain", "b"))>>,
      <<Good, Member("csv2-1", Path("plain", "suffix of work", "a"))>>,
      <<Good, Member("csv2-1", Path("pycache", "plain", "a"))>>,
      <<Member("csv2-1", Other)>>, <<[Good EXCEPT !.version = 2]>>, <<Good>> }

LeftPairs ==
    {[f \in Formats |-> left] : left \in LeftArchives}
    \cup {[gz |-> <<Good>>, xz |-> <<Good, Member("csv2-1", Other)>>]}

(* Into an output directory with archives goes the tree with work products.*)
AnyTree == Init /\ (DOMAIN source = WorkTree \/ archive = [f \in Formats |-> <<>>])
FromAnyTree == AnyTree /\ [][Next]_vars

AnyOrder == Permutations(Packagers) \cup Permutations(Nonces)
=============================================================================
