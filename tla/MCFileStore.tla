------------------------------ MODULE MCFileStore ------------------------------
(***************************************************************************)
(* FileStore for TLC: two requests and a reader on one column of any kind.  *)
(* The requests are interchangeable: the module names none of them.         *)
(***************************************************************************)
EXTENDS FileStore, TLC

Requests == Permutations(Ops)
=============================================================================
