---------------------------- MODULE MCIndexFiles ----------------------------
(***************************************************************************)
(* IndexFiles with directories that do not differ but in their names.      *)
(***************************************************************************)
EXTENDS IndexFiles, TLC

Alike == Permutations(Dirs)
=============================================================================
