-------------------------- MODULE MCSourceCatalog --------------------------
(* Instances of SourceCatalog for TLC. *)
EXTENDS SourceCatalog, TLC

Mix(kinds, changes) == [kinds |-> kinds, changes |-> changes]

MCMixes ==
  { Mix({"arrive", "leave", "scan"}, 2), Mix({"remove", "leave", "scan"}, 2),
    Mix({"remove", "arrive", "leave"}, 3), Mix({"library", "scan"}, 2), Mix({"reload", "leave"}, 2),
    Mix({"mount", "leave"}, 2), Mix({"reload", "remove"}, 2) }
MCFailure == { Mix({"scan"}, 1) }

FileSymmetry == Permutations(File)
============================================================================
