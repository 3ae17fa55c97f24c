---------------------------- MODULE MCFileSystem -----------------------------
(* Values for the constants of FileSystem.                                 *)
EXTENDS FileSystemProperties, TLC

Symmetry == Permutations(FileNames) \cup Permutations(Bytes)
=============================================================================
