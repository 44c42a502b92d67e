----------------------------- MODULE AtomicFile -----------------------------
(***************************************************************************)
(* What fs_htree.h promises of a hash-tree file: updates are collected in  *)
(* a working copy and reach the storage all at once, when                  *)
(* tee_fs_htree_sync_to_storage finalizes them; a crash or an error loses  *)
(* the working copy and nothing else.  The contents of a file are the      *)
(* sequence of its blocks.                                                 *)
(***************************************************************************)
EXTENDS Naturals, Sequences

CONSTANT Blocks         \* what a block may hold

VARIABLES
    durable,    \* the contents a later open finds
    working     \* the contents an open handle shows

FileInit == durable = <<>> /\ working = <<>>

\* A block is written, at most one past the end.
FileWrite ==
    /\ \E i \in 1..(Len(working) + 1), b \in Blocks :
          working' = [j \in 1..(IF i > Len(working) THEN i ELSE Len(working))
                         |-> IF j = i THEN b ELSE working[j]]
    /\ UNCHANGED durable

FileTruncate ==
    /\ \E n \in 0..Len(working) : working' = SubSeq(working, 1, n)
    /\ UNCHANGED durable

FileCommit == durable' = working /\ UNCHANGED working

\* The working copy is dropped; the next open starts from what is durable.
FileLose == working' = durable /\ UNCHANGED durable

FileNext == FileWrite \/ FileTruncate \/ FileCommit \/ FileLose

FileSpec == FileInit /\ [][FileNext]_<<durable, working>>
=============================================================================
