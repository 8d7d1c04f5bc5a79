----------------------------- MODULE MCAutoDocs -----------------------------
(* Two nodes for TLC, the first a folder of the drafts. *)
EXTENDS AutoDocs, TLC

RootFolder == {1}
Symmetric == Permutations(Scatter) \cup Permutations(Requester) \cup Permutations(Run)
==============================================================================
