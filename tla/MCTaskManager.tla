---------------------------- MODULE MCTaskManager ----------------------------
(* A small inspector run: a folder document that needs two file documents, *)
(* a top-level document that needs the folder, and a file that needs none. *)
EXTENDS TaskManager, TLC

CONSTANTS fileA, fileB, folder, top

MCTask == {fileA, fileB, folder, top}

(* fileB is reached only as a dependency.                                  *)
MCListed == {fileA, folder, top}

MCDeps == (fileA :> {}) @@ (fileB :> {})
          @@ (folder :> {fileA, fileB}) @@ (top :> {folder, fileA})

MCUnits == (fileA :> 1) @@ (fileB :> 1) @@ (folder :> 2) @@ (top :> 3)
=============================================================================
