----------------------------- MODULE MCFsHtree -----------------------------
(* TLC instances of FsHtree. *)
EXTENDS FsHtree
=============================================================================
