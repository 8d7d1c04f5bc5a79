------------------------- MODULE MCVersionLifecycle --------------------------
(* A small codebase for TLC. *)
EXTENDS VersionLifecycle, TLC

Symmetric == Permutations(Version) \cup Permutations(Task) \cup Permutations(Request)
             \cup Permutations(Run)
==============================================================================
