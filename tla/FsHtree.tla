------------------------------ MODULE FsHtree ------------------------------
(***************************************************************************)
(* The hash-tree file of secure storage (core/tee/fs_htree.c) as           *)
(* tee_ree_fs.c uses it: a sequence of writes and truncations followed by  *)
(* a sync.  Every element of the file, the head, each node and each block, *)
(* is kept twice, and the storage is written one element at a time.  A     *)
(* crash, or an error from normal world, which also drops the handle, may  *)
(* come between any two writes.                                            *)
(*                                                                         *)
(* A file is opened with the hash of its root node, which the directory    *)
(* file keeps (useHash), or, for the directory file itself, by the         *)
(* counters of the two heads.                                              *)
(*                                                                         *)
(* Cryptography is ideal: a hash is the tuple of what is hashed, the tag   *)
(* of a block is the block's contents (each write writes new contents),    *)
(* and the tag of a head is what it authenticates.  Node n stands for      *)
(* block n - 1 and has the children 2n and 2n + 1.                         *)
(***************************************************************************)
EXTENDS Integers, Sequences, FiniteSets

CONSTANTS NumNodes,     \* nodes of the largest tree
          MaxWrites,    \* how many blocks are written
          MaxCounter,   \* how often the file is committed
          Shrinks       \* by how many blocks a truncation cuts

ASSUME FsHtreeAssumption ==
    /\ NumNodes \in Nat \ {0} /\ MaxWrites \in Nat
    /\ MaxCounter \in Nat \ {0} /\ Shrinks \subseteq Nat

Nodes == 1..NumNodes
Vers == 0..1

VARIABLES
    disk,       \* the file in normal world
    ht,         \* struct tee_fs_htree of the open handle
    pc,         \* where the one thread that uses the file is
    todo,       \* nodes the post-order traversal has yet to visit
    anchor,     \* root hash the directory file keeps
    useHash,    \* whether the file is opened with that hash
    nwrites     \* blocks written so far; the last one holds this number

vars == <<disk, ht, pc, todo, anchor, useHash, nwrites>>

Pcs == {"absent", "closed", "idle", "sync", "dummy", "record", "corrupt"}

ZeroHash == <<0>>
NoHash == <<>>

\* struct tee_fs_htree_node_image; blk and kid are the flag bits.
ZeroNode == [blk |-> 0, kid |-> [i \in Vers |-> 0], tag |-> 0, hash |-> ZeroHash]

\* struct tee_fs_htree_image; the dummy head of version 0 is all zeroes.
ZeroHead == [counter |-> 0, max |-> 0, len |-> 0, tag |-> <<>>]

\* struct htree_node
CleanNode(image) == [image |-> image, dirty |-> FALSE, block_updated |-> FALSE]
FreshNode == CleanNode(ZeroNode)

\* max is imeta.max_node_id, len imeta.meta.length in blocks.
FreshTree == [max |-> 0, len |-> 0, counter |-> 0, dirty |-> FALSE,
              node |-> [n \in Nodes |-> FreshNode]]

EmptyDisk == [head |-> [v \in Vers |-> ZeroHead],
              node |-> [n \in Nodes |-> [v \in Vers |-> ZeroNode]],
              block |-> [n \in Nodes |-> [v \in Vers |-> 0]]]

Init ==
    /\ disk = EmptyDisk
    /\ ht = FreshTree
    /\ pc = "absent" /\ todo = <<>>
    /\ anchor = NoHash /\ useHash \in BOOLEAN /\ nwrites = 0

-----------------------------------------------------------------------------
(* The tree.                                                               *)

InTree(h, n) == n = 1 \/ n <= h.max

Flip(v) == 1 - v

\* calc_node_hash: the image without its hash, the meta data for the root,
\* the hashes of the children that are there.
HashOf(h, n) ==
    LET image == h.node[n].image
        kidHash(i) == IF InTree(h, 2 * n + i)
                      THEN h.node[2 * n + i].image.hash ELSE NoHash
    IN  <<image.blk, image.kid, image.tag, IF n = 1 THEN h.len ELSE 0,
          kidHash(0), kidHash(1)>>

\* traverse_post_order from node n.
PostOrder[n \in 1..(2 * NumNodes + 1)] ==
    IF n > NumNodes THEN <<>>
    ELSE PostOrder[2 * n] \o PostOrder[2 * n + 1] \o <<n>>

\* update_root, verify_root: what the tag of the head authenticates.
HeadTag(h) == <<h.node[1].image.hash, h.counter, h.max, h.len>>

-----------------------------------------------------------------------------
(* tee_fs_htree_open of an existing file.                                  *)

\* Mutant: the older head wins.
IdxFromCounters_older(c0, c1) ==
    IF c0 % 2 = 0
    THEN IF c1 % 2 = 0 \/ c0 < c1 THEN 0 ELSE 1
    ELSE IF c1 % 2 = 1 THEN 1 ELSE 2

\* get_idx_from_counter; 2 stands for -1.
IdxFromCounters(c0, c1) ==
    IF c0 % 2 = 0
    THEN IF c1 % 2 = 0 \/ c0 > c1 THEN 0 ELSE 1
    ELSE IF c1 % 2 = 1 THEN 1 ELSE 2

\* init_head_from_data
HeadIdx ==
    IF useHash
    THEN IF \E v \in Vers : disk.node[1][v].hash = anchor
         THEN CHOOSE v \in Vers :
                 /\ disk.node[1][v].hash = anchor
                 /\ v = 1 => disk.node[1][0].hash # anchor
         ELSE 2
    ELSE IdxFromCounters(disk.head[0].counter, disk.head[1].counter)

\* init_tree_from_data: the committed version of a node is in its parent.
Images(d, idx) ==
    LET image[n \in Nodes] ==
            IF n = 1 THEN d.node[1][idx]
            ELSE IF n > d.head[idx].max THEN ZeroNode
            ELSE d.node[n][image[n \div 2].kid[n % 2]]
    IN  image

\* init_head_from_data and init_tree_from_data: the tree in memory.
Loaded(d, idx) ==
    LET head == d.head[idx]
        image == Images(d, idx)
    IN  [max |-> head.max, len |-> head.len, counter |-> head.counter,
         dirty |-> FALSE,
         node |-> [n \in Nodes |-> CleanNode(image[n])]]

\* verify_root and verify_tree.
Verified(idx) ==
    LET h == Loaded(disk, idx)
    IN  /\ HeadTag(h) = disk.head[idx].tag
        /\ \A n \in Nodes : InTree(h, n) => h.node[n].image.hash = HashOf(h, n)

OpenSucceeds == HeadIdx \in Vers /\ Verified(HeadIdx)

\* tee_fs_htree_read_block: the tag of the node authenticates the block.
BlockReadable(h, n) ==
    /\ InTree(h, n)
    /\ disk.block[n][h.node[n].image.blk] = h.node[n].image.tag

Open ==
    /\ pc = "closed"
    /\ IF OpenSucceeds
       THEN pc' = "idle" /\ ht' = Loaded(disk, HeadIdx)
       ELSE pc' = "corrupt" /\ UNCHANGED ht
    /\ UNCHANGED <<disk, todo, anchor, useHash, nwrites>>

-----------------------------------------------------------------------------
(* Updates.                                                                *)

\* Mutant: node->dirty is not set.
WriteBlock_not_dirty(n) ==
    LET h == ht.node[n]
        \* get_node: nodes up to n are there afterwards
        max == IF n = 1 \/ n <= ht.max THEN ht.max ELSE n
        blk == IF h.block_updated THEN h.image.blk ELSE Flip(h.image.blk)
        len == IF n > ht.len THEN n ELSE ht.len
        node == [ht.node EXCEPT ![n] =
                    [image |-> [h.image EXCEPT !.blk = blk, !.tag = nwrites + 1],
                     dirty |-> h.dirty, block_updated |-> TRUE]]
    IN  /\ pc = "idle" /\ n <= ht.len + 1 /\ nwrites < MaxWrites
        /\ n <= ht.len => BlockReadable(ht, n)
        /\ disk' = [disk EXCEPT !.block[n][blk] = nwrites + 1]
        /\ ht' = [ht EXCEPT !.max = max, !.len = len, !.dirty = TRUE,
                     !.node = IF len = ht.len THEN node
                              ELSE [node EXCEPT ![1].dirty = TRUE]]
        /\ nwrites' = nwrites + 1
        /\ UNCHANGED <<pc, todo, anchor, useHash>>

\* out_of_place_write of one block: tee_fs_htree_write_block, and
\* tee_fs_htree_meta_set_dirty when the file grows.
WriteBlock(n) ==
    LET h == ht.node[n]
        \* get_node: nodes up to n are there afterwards
        max == IF n = 1 \/ n <= ht.max THEN ht.max ELSE n
        blk == IF h.block_updated THEN h.image.blk ELSE Flip(h.image.blk)
        len == IF n > ht.len THEN n ELSE ht.len
        node == [ht.node EXCEPT ![n] =
                    [image |-> [h.image EXCEPT !.blk = blk, !.tag = nwrites + 1],
                     dirty |-> TRUE, block_updated |-> TRUE]]
    IN  /\ pc = "idle" /\ n <= ht.len + 1 /\ nwrites < MaxWrites
        /\ n <= ht.len => BlockReadable(ht, n)
        /\ disk' = [disk EXCEPT !.block[n][blk] = nwrites + 1]
        /\ ht' = [ht EXCEPT !.max = max, !.len = len, !.dirty = TRUE,
                     !.node = IF len = ht.len THEN node
                              ELSE [node EXCEPT ![1].dirty = TRUE]]
        /\ nwrites' = nwrites + 1
        /\ UNCHANGED <<pc, todo, anchor, useHash>>

\* ree_fs_ftruncate_internal to fewer blocks: tee_fs_htree_truncate frees the
\* nodes after the one that follows the last block, then the file in normal
\* world is cut, and the new length is noted.
Truncate(len) ==
    LET max == IF len + 1 < ht.max THEN len + 1 ELSE ht.max
    IN  /\ pc = "idle" /\ ~ht.dirty /\ ht.len - len \in Shrinks
        /\ ht.counter < MaxCounter
        /\ ht' = [ht EXCEPT !.max = max, !.len = len, !.dirty = TRUE,
                     !.node = [n \in Nodes |->
                        IF n > 1 /\ n > max THEN FreshNode
                        ELSE IF n = 1 THEN [ht.node[1] EXCEPT !.dirty = TRUE]
                        ELSE ht.node[n]]]
        /\ disk' = [disk EXCEPT !.block = [n \in Nodes |->
                        IF n > len + 1 THEN [v \in Vers |-> 0]
                        ELSE disk.block[n]]]
        /\ pc' = "sync" /\ todo' = PostOrder[1]
        /\ UNCHANGED <<anchor, useHash, nwrites>>

-----------------------------------------------------------------------------
(* tee_fs_htree_sync_to_storage.                                           *)

Sync ==
    /\ pc = "idle" /\ ht.dirty /\ ht.counter < MaxCounter
    /\ pc' = "sync" /\ todo' = PostOrder[1]
    /\ UNCHANGED <<disk, ht, anchor, useHash, nwrites>>

\* The parent x names the other version of its child i, and is dirty.
NamesOther(x, i) ==
    [image |-> [x.image EXCEPT !.kid[i] = Flip(@)], dirty |-> TRUE,
     block_updated |-> x.block_updated]

\* Mutant: the flag of the parent is not toggled.
SyncNode_in_place ==
    LET n == Head(todo)
        parent == n \div 2
        flip == IF n = 1 THEN ht
                ELSE [ht EXCEPT !.node[parent].dirty = TRUE]
        vers == IF n = 1 THEN Flip(ht.counter % 2)
                ELSE flip.node[parent].image.kid[n % 2]
        image == [flip.node[n].image EXCEPT !.hash = HashOf(flip, n)]
    IN  /\ pc = "sync" /\ todo # <<>>
        /\ IF InTree(ht, n) /\ ht.node[n].dirty
           THEN /\ ht' = [flip EXCEPT !.node[n] = CleanNode(image)]
                /\ disk' = [disk EXCEPT !.node[n][vers] = image]
           ELSE UNCHANGED <<ht, disk>>
        /\ todo' = Tail(todo)
        /\ UNCHANGED <<pc, anchor, useHash, nwrites>>

\* htree_sync_node_to_storage: the parent names the version written and is
\* dirty too.
SyncNode ==
    LET n == Head(todo)
        parent == n \div 2
        flip == IF n = 1 THEN ht
                ELSE [ht EXCEPT !.node[parent] = NamesOther(@, n % 2)]
        vers == IF n = 1 THEN Flip(ht.counter % 2)
                ELSE flip.node[parent].image.kid[n % 2]
        image == [flip.node[n].image EXCEPT !.hash = HashOf(flip, n)]
    IN  /\ pc = "sync" /\ todo # <<>>
        /\ IF InTree(ht, n) /\ ht.node[n].dirty
           THEN /\ ht' = [flip EXCEPT !.node[n] = CleanNode(image)]
                /\ disk' = [disk EXCEPT !.node[n][vers] = image]
           ELSE UNCHANGED <<ht, disk>>
        /\ todo' = Tail(todo)
        /\ UNCHANGED <<pc, anchor, useHash, nwrites>>

\* update_root and rpc_write_head.  The caller keeps the hash.
SyncHead ==
    LET h == [ht EXCEPT !.counter = @ + 1, !.dirty = FALSE]
        head == [counter |-> h.counter, max |-> h.max, len |-> h.len,
                 tag |-> HeadTag(h)]
    IN  /\ pc = "sync" /\ todo = <<>>
        /\ ht' = h
        /\ disk' = [disk EXCEPT !.head[h.counter % 2] = head]
        /\ pc' = IF ht.counter = 0 THEN "dummy"
                 ELSE IF useHash THEN "record" ELSE "idle"
        /\ UNCHANGED <<todo, anchor, useHash, nwrites>>

\* The caller writes the new hash to the directory file and commits that.
RecordHash ==
    /\ pc = "record"
    /\ anchor' = ht.node[1].image.hash
    /\ pc' = "idle"
    /\ UNCHANGED <<disk, ht, todo, useHash, nwrites>>

\* tee_fs_htree_open(create): a dirty root is synced, then the other head is
\* written.
Create ==
    /\ pc = "absent"
    /\ disk' = EmptyDisk
    /\ ht' = [FreshTree EXCEPT !.dirty = TRUE, !.node[1].dirty = TRUE]
    /\ pc' = "sync" /\ todo' = PostOrder[1]
    /\ UNCHANGED <<anchor, useHash, nwrites>>

CreateDummy ==
    /\ pc = "dummy"
    /\ disk' = [disk EXCEPT !.head[0] = ZeroHead]
    /\ pc' = IF useHash THEN "record" ELSE "idle"
    /\ UNCHANGED <<ht, todo, anchor, useHash, nwrites>>

\* tee_fs_htree_close, without a sync or in the middle of one: the caller
\* closes the file, an RPC fails, or the power does.  A file whose creation
\* fails is removed by its creator or, after a power loss, is not referred to
\* by the directory file.
Close ==
    /\ pc \in {"idle", "sync", "record", "dummy"}
    /\ useHash \/ ht.counter > 0
    /\ pc' = IF useHash /\ anchor = NoHash THEN "absent" ELSE "closed"
    /\ ht' = FreshTree /\ todo' = <<>>
    /\ UNCHANGED <<disk, anchor, useHash, nwrites>>

Next ==
    \/ Create \/ CreateDummy \/ Open \/ Close
    \/ \E n \in Nodes : WriteBlock(n)
    \/ \E len \in 0..NumNodes : Truncate(len)
    \/ Sync \/ SyncNode \/ SyncHead \/ RecordHash

Spec == Init /\ [][Next]_vars

-----------------------------------------------------------------------------
(* Properties.                                                             *)

\* The file can be opened by a later open: its creation is complete.
Exists == IF useHash THEN anchor # NoHash ELSE disk.head[1].counter > 0

Contents(h) == [n \in 1..h.len |-> h.node[n].image.tag]

TypeOK ==
    /\ pc \in Pcs /\ useHash \in BOOLEAN /\ nwrites \in 0..MaxWrites
    /\ todo \in Seq(Nodes)
    /\ ht.max \in 0..NumNodes /\ ht.len \in 0..NumNodes
    /\ ht.counter \in 0..MaxCounter
    /\ \A n \in Nodes : ht.node[n].block_updated => ht.node[n].dirty
    /\ \A n \in Nodes, v \in Vers : disk.block[n][v] \in 0..MaxWrites

\* At any moment the file can be opened again and every block of it read, and
\* the open handle reads back what was written, before and after a sync: no
\* write of an update in progress touches a version that is committed.
Recoverable ==
    /\ Exists => /\ OpenSucceeds
                 /\ LET h == Loaded(disk, HeadIdx)
                    IN  \A n \in 1..h.len : BlockReadable(h, n)
    /\ pc \in {"idle", "record"} => \A n \in 1..ht.len : BlockReadable(ht, n)

\* What is durable is what recovery finds; a handle that is not open shows it.
Durable == IF Exists THEN Contents(Loaded(disk, HeadIdx)) ELSE <<>>
Working == IF pc \in {"idle", "sync", "record", "dummy"} THEN Contents(ht) ELSE Durable

AF == INSTANCE AtomicFile WITH durable <- Durable, working <- Working,
                               Blocks <- 1..MaxWrites

\* Updates are atomic: the contents found after a crash change in one step,
\* from one committed state to the next.
ImplementsAtomicFile == AF!FileSpec
=============================================================================
