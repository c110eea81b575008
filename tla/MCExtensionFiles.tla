-------------------------- MODULE MCExtensionFiles --------------------------
(* One extension of a local file and one of a registry; or of a local      *)
(* crate and of a git repository, which `update` always builds again.      *)
EXTENDS ExtensionFiles
CONSTANTS n1, n2
MCKindOf == [n \in Names |-> IF n = n1 THEN "local" ELSE "registry"]
MCRebuilt == [n \in Names |-> IF n = n1 THEN "crate" ELSE "git"]
=============================================================================
