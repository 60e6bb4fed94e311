--------------------------- MODULE MCGithubImport ---------------------------
(* GithubImport on a small instance; the workers are interchangeable.       *)
EXTENDS GithubImport, TLC

WorkerSymmetry == Permutations(Workers)
=============================================================================
