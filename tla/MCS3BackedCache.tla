-------------------------- MODULE MCS3BackedCache ---------------------------
(* Two containers for TLC, one with two threads. *)
EXTENDS S3BackedCache

ThreeThreads == 1 .. 3
TwoAndOne == <<"a", "a", "b">>
==============================================================================
