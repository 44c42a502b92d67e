----------------------------- MODULE MCThreads -----------------------------
(***************************************************************************)
(* Threads for TLC.  Cores and buffers are interchangeable; threads are    *)
(* not, the first free one is allocated.                                   *)
(***************************************************************************)
EXTENDS Threads, TLC

Symmetry == Permutations(Cores) \cup Permutations(Cookies)
=============================================================================
