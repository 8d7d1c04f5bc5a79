------------------------ MODULE MCOrganizationFiles -------------------------
(* Two codebases and three workers for TLC. *)
EXTENDS OrganizationFiles

TwoCodebases == 1 .. 2
==============================================================================
