--------------------------- MODULE FsHtreeProofs ---------------------------
(***************************************************************************)
(* The hash tree: for every number of nodes, writes and commits the file   *)
(* can be opened again and read at any moment (FileIsRecoverable), and the *)
(* tree implements the atomic file (UpdatesAreAtomic).                     *)
(*                                                                         *)
(* The argument.  One version of every element is committed: the one that  *)
(* init_head_from_data() and init_tree_from_data() reach.  The handle      *)
(* follows it (Follows, FollowsIdle): a block that was not changed since   *)
(* the last sync, and a node the sync has yet to visit, is named in the    *)
(* committed version, so that the write goes to the other one.  Children   *)
(* are visited before their parent (PostOrderOK), so a node is written     *)
(* when what its hash covers is final (HandleOK).  When the traversal is   *)
(* done nothing is dirty, the tree in memory is what would be loaded       *)
(* (LoadedIs), and one write, of the head or of the hash in the directory  *)
(* file, commits it.                                                       *)
(*                                                                         *)
(* Images and PostOrder are recursive functions.  That they have a value,  *)
(* and what it is, is shown by induction: the least number that violates   *)
(* the claim is taken (LeastNat) and led to a contradiction.               *)
(***************************************************************************)
EXTENDS FsHtree, WellFoundedInduction, SequenceTheorems, TLAPS

-----------------------------------------------------------------------------
(* The invariant.                                                          *)

\* The condition of the two main theorems.  A file that is only written is
\* covered for every number of nodes.  A file that is also cut is covered as
\* long as it is cut by one block at a time and has at most three nodes: then
\* every node that tee_fs_htree_truncate() frees is a child of the root, which
\* it marks dirty, and no committed block is lost.  Outside it the code is
\* wrong: the run fs_htree_truncate shows a tree that no longer verifies.
CutsAreSmall == Shrinks \subseteq {1} /\ (Shrinks # {} => NumNodes <= 3)

\* The last block has a node, and at most one node follows it.
SizeOK(len, max) ==
    /\ len \in 0..NumNodes /\ max \in 0..NumNodes
    /\ IF max = 0 THEN len <= 1 ELSE len <= max /\ max <= len + 1

\* struct tee_fs_htree_node_image.  The types are stated field by field: a hash
\* holds other hashes, so no set of all images can be written down.
IsImage(x) ==
    /\ x = [blk |-> x.blk, kid |-> x.kid, tag |-> x.tag, hash |-> x.hash]
    /\ x.blk \in Vers /\ x.kid \in [Vers -> Vers] /\ x.tag \in Nat

\* struct htree_node.
IsNode(x) ==
    /\ x = [image |-> x.image, dirty |-> x.dirty,
            block_updated |-> x.block_updated]
    /\ IsImage(x.image) /\ x.dirty \in BOOLEAN /\ x.block_updated \in BOOLEAN
    /\ x.block_updated => x.dirty

\* struct tee_fs_htree; a node that is not there is as get_node() makes it.
IsTree(h) ==
    /\ h = [max |-> h.max, len |-> h.len, counter |-> h.counter,
            dirty |-> h.dirty, node |-> h.node]
    /\ SizeOK(h.len, h.max) /\ h.counter \in 0..MaxCounter /\ h.dirty \in BOOLEAN
    /\ h.node = [n \in Nodes |-> h.node[n]]
    /\ \A n \in Nodes : IsNode(h.node[n])
    /\ \A n \in Nodes : ~InTree(h, n) => h.node[n] = FreshNode

\* struct tee_fs_htree_image.
IsHead(x) ==
    /\ x = [counter |-> x.counter, max |-> x.max, len |-> x.len, tag |-> x.tag]
    /\ x.counter \in 0..MaxCounter /\ SizeOK(x.len, x.max)

\* The file in normal world.
IsDisk(d) ==
    /\ d = [head |-> d.head, node |-> d.node, block |-> d.block]
    /\ d.head = [v \in Vers |-> d.head[v]]
    /\ \A v \in Vers : IsHead(d.head[v])
    /\ d.node = [n \in Nodes |-> d.node[n]]
    /\ \A n \in Nodes : d.node[n] = [v \in Vers |-> d.node[n][v]]
    /\ \A n \in Nodes, v \in Vers : IsImage(d.node[n][v])
    /\ d.block \in [Nodes -> [Vers -> 0..MaxWrites]]

\* The shape of the state.
Shape ==
    /\ pc \in Pcs /\ useHash \in BOOLEAN /\ nwrites \in 0..MaxWrites
    /\ todo \in Seq(Nodes)
    /\ IsDisk(disk) /\ IsTree(ht)
    /\ ht.node[1].image.tag <= nwrites
    /\ \A v \in Vers : disk.node[1][v].tag <= nwrites

\* Node n is still to be visited by the traversal.
Todo(n) == \E i \in DOMAIN todo : todo[i] = n

\* What is left of a post-order traversal: the root comes last, the parent of a
\* node that is left is left too and comes later, and no node comes twice.
PostOrdered(s) ==
    /\ s # <<>> => s[Len(s)] = 1
    /\ \A i \in 1..Len(s) : s[i] # 1 =>
          \E j \in 1..Len(s) : j > i /\ s[j] = s[i] \div 2
    /\ \A i, j \in 1..Len(s) : i < j => s[i] # s[j] /\ s[j] \div 2 # s[i]

\* Version v is the one init_head_from_data() picks, and the only one it can.
Selected(v) ==
    /\ disk.head[v].counter > 0 /\ disk.head[v].counter % 2 = v
    /\ IF useHash
       THEN disk.node[1][v].hash = anchor /\ disk.node[1][Flip(v)].hash # anchor
       ELSE /\ disk.head[Flip(v)].counter % 2 = Flip(v)
            /\ disk.head[Flip(v)].counter < disk.head[v].counter

\* Version v is picked, verifies, and its blocks can be read.
Committed(v) ==
    /\ v \in Vers /\ Selected(v) /\ Verified(v)
    /\ \A n \in 1..disk.head[v].len : BlockReadable(Loaded(disk, v), n)

\* There is a handle.
Opened == pc \in {"idle", "sync", "record", "dummy"}

\* A clean node is on the disk in the version its parent names.
OnDisk(d, h) ==
    \A n \in Nodes \ {1} : InTree(h, n) /\ ~h.node[n].dirty =>
        d.node[n][h.node[n \div 2].image.kid[n % 2]] = h.node[n].image

\* Node n has no change that is not on the disk.
Clean(n) == ~ht.node[n].dirty

\* The open handle: its blocks can be read, a clean node whose children are
\* clean has the hash that will be verified, and clean nodes are on the disk.
HandleOK ==
    /\ \A n \in 1..ht.len : BlockReadable(ht, n)
    /\ \A n \in Nodes :
          /\ InTree(ht, n) /\ Clean(n)
          /\ \A i \in Vers : InTree(ht, 2 * n + i) => Clean(2 * n + i)
          => ht.node[n].image.hash = HashOf(ht, n)
    /\ OnDisk(disk, ht)

\* Some node of the tree is dirty.
SomeDirty == \E n \in Nodes : InTree(ht, n) /\ ht.node[n].dirty

\* The root node differs from the committed one in what its hash covers.
RootDiffers(v) ==
    LET c == Loaded(disk, v)
        i == ht.node[1].image
        j == c.node[1].image
    IN  i.tag # j.tag \/ ht.len # c.len \/ i.kid # j.kid

\* The handle follows the committed version v: it still names the committed
\* version of each node the sync has yet to visit, so that the sync writes the
\* other one, and a root that is dirty will get another hash.
Follows(v) ==
    LET c == Loaded(disk, v)
    IN  /\ ht.counter = c.counter
        /\ \A n \in Nodes \ {1} :
              /\ InTree(ht, n \div 2) /\ InTree(c, n \div 2)
              /\ pc = "idle" \/ Todo(n)
              => ht.node[n \div 2].image.kid[n % 2] = c.node[n \div 2].image.kid[n % 2]
        /\ ht.node[1].dirty => RootDiffers(v)

\* Between two syncs, further: a clean handle is what was loaded, and a block
\* of the committed file is changed exactly if it went to its other version.
FollowsIdle(v) ==
    LET c == Loaded(disk, v)
    IN  /\ ~ht.dirty => ht = c
        /\ ht.dirty => SomeDirty
        /\ ht.max >= c.max /\ ht.len >= c.len
        /\ \A n \in Nodes : InTree(c, n) =>
              IF ht.node[n].block_updated
              THEN ht.node[n].image.blk # c.node[n].image.blk
              ELSE ht.node[n].image.blk = c.node[n].image.blk

\* Version v is the committed one, and the handle follows it.
CommitInv(v) ==
    /\ HeadIdx = v /\ Committed(v)
    /\ pc = "idle" => Follows(v) /\ FollowsIdle(v)
    /\ pc = "sync" => Follows(v)

\* A sync under way: what is dirty is yet to be visited, the root still has to
\* be written, or was written to the version that the new head will name.
SyncOK ==
    /\ PostOrdered(todo) /\ ht.counter < MaxCounter
    /\ \A n \in Nodes : ht.node[n].dirty => Todo(n)
    /\ Todo(1) => SomeDirty
    /\ ~Todo(1) => disk.node[1][Flip(ht.counter % 2)] = ht.node[1].image
    /\ ht.counter = 0 => /\ disk.node[1][0] = ZeroNode
                         /\ disk.head = [v \in Vers |-> ZeroHead]

\* The sync has written head w, and the caller has yet to record its hash or
\* to write the dummy head of a new file.
Done(w) ==
    /\ ht.counter > 0 /\ ht.counter % 2 = w
    /\ ht = Loaded(disk, w) /\ Verified(w)
    /\ useHash => disk.node[1][Flip(w)].hash # ht.node[1].image.hash
    /\ pc = "dummy" => ht.counter = 1 /\ disk.head[0] = ZeroHead
    /\ pc = "dummy" /\ ~useHash => HeadIdx = 1
    /\ pc = "record" => useHash

\* When the file can be opened.
ExistsOK ==
    /\ pc # "corrupt"
    /\ pc = "absent" => ~Exists
    /\ pc \in {"closed", "idle"} => Exists
    /\ pc = "sync" => (Exists <=> ht.counter > 0)
    /\ pc = "dummy" => (Exists <=> ~useHash)

\* The inductive invariant.
HInv ==
    /\ Shape /\ ExistsOK
    /\ Exists => \E v \in Vers : CommitInv(v)
    /\ Opened => HandleOK
    /\ pc = "sync" => SyncOK
    /\ pc \in {"dummy", "record"} => \E w \in Vers : Done(w)

-----------------------------------------------------------------------------
(* The traversal.                                                          *)

\* Every non-empty set of numbers has a least element.  The inductions below
\* take the least number that violates the claim.
LEMMA LeastNat ==
    ASSUME NEW T \in SUBSET Nat, T # {}
    PROVE  \E m \in T : \A y \in T : m <= y
<1> DEFINE R == OpToRel(<, Nat)
<1>1. IsWellFoundedOn(R, Nat)
  BY NatLessThanWellFounded
<1>2. \A x, y \in Nat : x < y => <<x, y>> \in R
  BY DEF OpToRel
<1> HIDE DEF R
<1>3. PICK m \in T : \A y \in T : ~(<<y, m>> \in R)
  BY <1>1, WFMin
<1>4. \A y \in T : m <= y
  <2> TAKE y \in T
  <2>1. y \in Nat /\ m \in Nat
    OBVIOUS
  <2>2. ~(<<y, m>> \in R) /\ (y < m => <<y, m>> \in R)
    BY <1>2, <1>3, <2>1, Zenon
  <2> QED BY <2>1, <2>2
<1> QED BY <1>4

\* The numbers of the nodes and of the absent children.
TreeIds == 1..(2 * NumNodes + 1)

\* One unfolding of PostOrder.
PostOrderBody(g, n) ==
    IF n > NumNodes THEN <<>> ELSE g[2 * n] \o g[2 * n + 1] \o <<n>>

\* traverse_post_order: the recursive definition has a solution.
LEMMA PostOrderDef == PostOrder = [n \in TreeIds |-> PostOrderBody(PostOrder, n)]
<1> DEFINE From(k, g) == /\ g = [n \in TreeIds |-> g[n]]
                         /\ \A n \in TreeIds : n > k => g[n] = PostOrderBody(g, n)
           T == {k \in 0..NumNodes : \E g : From(k, g)}
<1>0. NumNodes \in Nat
  BY FsHtreeAssumption
<1>1. NumNodes \in T
  <2> DEFINE g0 == [n \in TreeIds |-> <<>>]
  <2>1. From(NumNodes, g0)
    BY <1>0 DEF PostOrderBody
  <2> HIDE DEF g0
  <2> QED BY <1>0, <2>1
<1>2. PICK k \in T : \A y \in T : k <= y
  <2>1. T \in SUBSET Nat
    BY <1>0
  <2> HIDE DEF T
  <2> QED BY <1>1, <2>1, LeastNat
<1>3. PICK g : From(k, g)
  BY <1>2
<1>4. k = 0
  <2> SUFFICES ASSUME k # 0 PROVE FALSE
    OBVIOUS
  <2> DEFINE h == [g EXCEPT ![k] = PostOrderBody(g, k)]
  <2>1. k \in 1..NumNodes /\ k \in TreeIds
    BY <1>0, <1>2 DEF TreeIds
  <2>2. h = [n \in TreeIds |-> h[n]]
    BY <1>3
  <2>3. \A n \in TreeIds : n > k - 1 => h[n] = PostOrderBody(h, n)
    <3> SUFFICES ASSUME NEW n \in TreeIds, n > k - 1
                 PROVE  h[n] = PostOrderBody(h, n)
      OBVIOUS
    <3>1. h[n] = PostOrderBody(g, n)
      BY <1>0, <1>3, <2>1 DEF TreeIds
    <3>2. n <= NumNodes => h[2 * n] = g[2 * n] /\ h[2 * n + 1] = g[2 * n + 1]
      BY <1>0, <1>3, <2>1 DEF TreeIds
    <3> HIDE DEF h
    <3>3. PostOrderBody(h, n) = PostOrderBody(g, n)
      BY <1>0, <3>2 DEF PostOrderBody, TreeIds
    <3> QED BY <3>1, <3>3
  <2> HIDE DEF h
  <2>4. From(k - 1, h)
    BY <2>2, <2>3
  <2>5. k - 1 \in T
    BY <1>0, <2>1, <2>4
  <2> HIDE DEF T
  <2> QED BY <1>2, <2>1, <2>5
<1>5. g = [n \in TreeIds |-> PostOrderBody(g, n)]
  <2>1. \A n \in TreeIds : n > 0
    BY <1>0 DEF TreeIds
  <2> QED BY <1>3, <1>4, <2>1
<1>6. PostOrder = CHOOSE f : f = [n \in TreeIds |-> PostOrderBody(f, n)]
  BY DEF PostOrder, PostOrderBody, TreeIds
<1> HIDE DEF From, T
<1> QED BY <1>5, <1>6

\* s is a post-order traversal of the subtree of n.
SubtreeOrder(n, s) ==
    /\ s \in Seq(Nodes)
    /\ \A i \in 1..Len(s) : s[i] >= n
    /\ n <= NumNodes => s # <<>> /\ s[Len(s)] = n
    /\ \A i \in 1..Len(s) : s[i] # n =>
          \E j \in 1..Len(s) : j > i /\ s[j] = s[i] \div 2
    /\ \A i, j \in 1..Len(s) : i < j => s[i] # s[j] /\ s[j] \div 2 # s[i]
    /\ \A i \in 1..Len(s), c \in Nodes : c # 1 /\ c \div 2 = s[i] =>
          \E j \in 1..Len(s) : s[j] = c

\* The subtrees of two siblings have no node in common.
LEMMA SubtreesApart ==
    ASSUME NEW n \in Nodes, NEW l, NEW r,
           SubtreeOrder(2 * n, l), SubtreeOrder(2 * n + 1, r)
    PROVE  \A i \in 1..Len(l), j \in 1..Len(r) : l[i] # r[j]
<1> DEFINE T == {x \in Nodes : /\ \E i \in 1..Len(l) : l[i] = x
                               /\ \E j \in 1..Len(r) : r[j] = x}
<1>0. NumNodes \in Nat /\ Nodes \subseteq Nat /\ l \in Seq(Nodes) /\ r \in Seq(Nodes)
  BY FsHtreeAssumption DEF Nodes, SubtreeOrder
<1>1. T = {}
  <2> SUFFICES ASSUME T # {} PROVE FALSE
    OBVIOUS
  <2>1. PICK x \in T : \A y \in T : x <= y
    <3>1. T \in SUBSET Nat
      BY <1>0
    <3> HIDE DEF T
    <3> QED BY <3>1, LeastNat
  <2>2. PICK i \in 1..Len(l) : l[i] = x
    BY <2>1
  <2>3. PICK j \in 1..Len(r) : r[j] = x
    BY <2>1
  <2>a. /\ \A p \in 1..Len(l) : l[p] >= 2 * n
        /\ \A p \in 1..Len(r) : r[p] >= 2 * n + 1
        /\ \A p \in 1..Len(l) : l[p] # 2 * n =>
              \E q \in 1..Len(l) : q > p /\ l[q] = l[p] \div 2
    BY Zenon DEF SubtreeOrder
  <2>4. x >= 2 * n + 1 /\ x \in Nat /\ n \in Nat /\ n >= 1
    <3>1. r[j] >= 2 * n + 1
      BY <2>a, Zenon
    <3>2. x \in Nat /\ n \in 1..NumNodes
      BY <1>0 DEF Nodes
    <3> QED BY <3>1, <3>2, <2>3, <1>0
  <2>b. l[i] # 2 * n
    BY <2>2, <2>3, <2>4
  <2>5. PICK k \in 1..Len(l) : l[k] = x \div 2
    BY <2>2, <2>a, <2>b
  <2>6. l[k] >= 2 * n /\ l[k] \in Nodes
    BY <1>0, <2>a
  <2>7. x # 2 * n + 1
    BY <1>0, <2>4, <2>5, <2>6
  <2>8. \E m \in 1..Len(r) : r[m] = x \div 2
    BY <2>3, <2>4, <2>7 DEF SubtreeOrder
  <2>9. x \div 2 \in T
    BY <2>5, <2>6, <2>8
  <2> HIDE DEF T
  <2>10. x <= x \div 2
    BY <2>1, <2>9
  <2> QED BY <2>4, <2>10
<1>2. \A i \in 1..Len(l) : l[i] \in Nodes
  BY <1>0
<1> QED BY <1>1, <1>2

\* A traversal of the left subtree, one of the right one, then the node.
LEMMA JoinSubtrees ==
    ASSUME NEW n \in Nodes, NEW l, NEW r,
           SubtreeOrder(2 * n, l), SubtreeOrder(2 * n + 1, r)
    PROVE  SubtreeOrder(n, l \o r \o <<n>>)
<1> DEFINE s == l \o r \o <<n>>
           a == Len(l)
           b == Len(l) + Len(r)
<1>0. NumNodes \in Nat /\ Nodes \subseteq Nat /\ l \in Seq(Nodes) /\ r \in Seq(Nodes)
      /\ n \in Nat /\ n >= 1 /\ a \in Nat /\ b \in Nat /\ a <= b /\ Len(r) \in Nat
  BY FsHtreeAssumption DEF Nodes, SubtreeOrder
<1>1. s \in Seq(Nodes) /\ Len(s) = b + 1
  BY <1>0
<1>2. /\ \A i \in 1..a : s[i] = l[i]
      /\ \A i \in (a + 1)..b : s[i] = r[i - a] /\ i - a \in 1..Len(r)
      /\ \A i \in 1..Len(r) : s[a + i] = r[i] /\ a + i \in (a + 1)..b
      /\ s[b + 1] = n
  BY <1>0
<1>3. \A i \in 1..(b + 1) : i \in 1..a \/ i \in (a + 1)..b \/ i = b + 1
  BY <1>0
<1>l. \A i \in 1..a : l[i] >= 2 * n /\ l[i] \in Nat
  <2>1. \A i \in 1..a : l[i] >= 2 * n
    BY Zenon DEF SubtreeOrder
  <2>2. \A i \in 1..a : l[i] \in Nodes
    BY <1>0, ElementOfSeq
  <2>3. \A i \in 1..a : l[i] \in Nat
    BY <1>0, <2>2, Zenon
  <2> QED BY <2>1, <2>3, Zenon
<1>r. \A i \in 1..Len(r) : r[i] >= 2 * n + 1 /\ r[i] \in Nat
  <2>1. \A i \in 1..Len(r) : r[i] >= 2 * n + 1
    BY Zenon DEF SubtreeOrder
  <2>2. \A i \in 1..Len(r) : r[i] \in Nodes
    BY <1>0, ElementOfSeq
  <2>3. \A i \in 1..Len(r) : r[i] \in Nat
    BY <1>0, <2>2, Zenon
  <2> QED BY <2>1, <2>3, Zenon
<1>sub. \A i \in 1..a : i \in 1..(b + 1)
  BY <1>0
<1>sub2. \A i \in (a + 1)..b : i \in 1..(b + 1)
  BY <1>0
<1> HIDE DEF s, a, b
<1>4. \A i \in 1..Len(s) : s[i] >= n
  <2> SUFFICES ASSUME NEW i \in 1..(b + 1) PROVE s[i] >= n
    BY <1>1
  <2>1. CASE i \in 1..a
    BY <2>1, <1>0, <1>2, <1>l
  <2>2. CASE i \in (a + 1)..b
    <3>1. s[i] = r[i - a] /\ r[i - a] >= 2 * n + 1 /\ r[i - a] \in Nat
      BY <2>2, <1>2, <1>r
    <3> QED BY <3>1, <1>0
  <2>3. CASE i = b + 1
    BY <2>3, <1>0, <1>2
  <2> QED BY <1>3, <2>1, <2>2, <2>3
<1>5. s # <<>> /\ s[Len(s)] = n
  BY <1>0, <1>1, <1>2
<1>6. \A i \in 1..Len(s) : s[i] # n =>
          \E j \in 1..Len(s) : j > i /\ s[j] = s[i] \div 2
  <2> SUFFICES ASSUME NEW i \in 1..(b + 1), s[i] # n
               PROVE  \E j \in 1..(b + 1) : j > i /\ s[j] = s[i] \div 2
    BY <1>1
  <2>1. CASE i \in 1..a
    <3>1. CASE l[i] = 2 * n
      BY <1>0, <1>2, <2>1, <3>1
    <3>2. CASE l[i] # 2 * n
      <4>1. PICK j \in 1..a : j > i /\ l[j] = l[i] \div 2
        BY <2>1, <3>2 DEF SubtreeOrder, a
      <4> QED BY <4>1, <1>2, <1>0, <2>1
    <3> QED BY <3>1, <3>2
  <2>2. CASE i \in (a + 1)..b
    <3>1. CASE r[i - a] = 2 * n + 1
      <4>0. s[i] = 2 * n + 1
        BY <1>2, <2>2, <3>1
      <4>1. s[i] \div 2 = n
        BY <1>0, <4>0
      <4>2. b + 1 \in 1..(b + 1) /\ b + 1 > i /\ s[b + 1] = n
        BY <1>0, <1>2, <2>2
      <4> QED BY <4>1, <4>2
    <3>2. CASE r[i - a] # 2 * n + 1
      <4>0. i - a \in 1..Len(r)
        BY <1>2, <2>2
      <4>1. PICK j \in 1..Len(r) : j > i - a /\ r[j] = r[i - a] \div 2
        BY <4>0, <3>2 DEF SubtreeOrder
      <4>2. a + j \in 1..(b + 1) /\ a + j > i /\ s[a + j] = s[i] \div 2
        BY <4>1, <1>2, <1>0, <2>2
      <4> QED BY <4>2
    <3> QED BY <3>1, <3>2
  <2>3. CASE i = b + 1
    BY <2>3, <1>2
  <2> QED BY <1>3, <2>1, <2>2, <2>3
<1>7. \A i, j \in 1..Len(s) : i < j => s[i] # s[j] /\ s[j] \div 2 # s[i]
  <2> SUFFICES ASSUME NEW i \in 1..(b + 1), NEW j \in 1..(b + 1), i < j
               PROVE  s[i] # s[j] /\ s[j] \div 2 # s[i]
    BY <1>1
  <2>1. CASE j = b + 1
    <3>1. s[j] = n
      BY <2>1, <1>2
    <3>2. s[i] >= 2 * n /\ s[i] \in Nat
      <4>1. i \in 1..a \/ i \in (a + 1)..b
        BY <1>3, <2>1, <1>0
      <4>2. CASE i \in 1..a
        BY <4>2, <1>2, <1>l
      <4>3. CASE i \in (a + 1)..b
        <5>1. s[i] = r[i - a] /\ r[i - a] >= 2 * n + 1 /\ r[i - a] \in Nat
          BY <4>3, <1>2, <1>r
        <5> QED BY <5>1, <1>0
      <4> QED BY <4>1, <4>2, <4>3
    <3> QED BY <3>1, <3>2, <1>0
  <2>2. CASE j \in 1..a
    <3>1. i \in 1..a
      BY <2>2, <1>0
    <3>2. l[i] # l[j] /\ l[j] \div 2 # l[i]
      BY <2>2, <3>1 DEF SubtreeOrder, a
    <3> QED BY <3>1, <3>2, <2>2, <1>2
  <2>3. CASE i \in (a + 1)..b /\ j \in (a + 1)..b
    <3>1. i - a \in 1..Len(r) /\ j - a \in 1..Len(r) /\ i - a < j - a
      BY <2>3, <1>2, <1>0
    <3>2. r[i - a] # r[j - a] /\ r[j - a] \div 2 # r[i - a]
      BY <3>1 DEF SubtreeOrder
    <3> QED BY <3>2, <2>3, <1>2
  <2>4. CASE i \in 1..a /\ j \in (a + 1)..b
    <3>0. j - a \in 1..Len(r) /\ s[j] = r[j - a] /\ s[i] = l[i]
      BY <2>4, <1>2
    <3>1. \A p \in 1..a, q \in 1..Len(r) : l[p] # r[q]
      BY SubtreesApart DEF a
    <3>2. s[i] # s[j]
      BY <3>0, <3>1, <2>4
    <3>3. CASE r[j - a] = 2 * n + 1
      <4>1. s[j] \div 2 = n
        BY <3>0, <3>3, <1>0
      <4>2. l[i] >= 2 * n /\ l[i] \in Nat
        BY <1>l, <2>4
      <4> QED BY <4>1, <4>2, <3>0, <3>2, <1>0
    <3>4. CASE r[j - a] # 2 * n + 1
      <4>1. PICK q \in 1..Len(r) : r[q] = r[j - a] \div 2
        BY <3>0, <3>4 DEF SubtreeOrder
      <4> QED BY <4>1, <3>1, <3>0, <2>4
    <3> QED BY <3>2, <3>3, <3>4
  <2> QED BY <1>3, <1>0, <2>1, <2>2, <2>3, <2>4
<1>8. \A i \in 1..Len(s), c \in Nodes : c # 1 /\ c \div 2 = s[i] =>
          \E j \in 1..Len(s) : s[j] = c
  <2> SUFFICES ASSUME NEW i \in 1..(b + 1), NEW c \in Nodes, c # 1, c \div 2 = s[i]
               PROVE  \E j \in 1..(b + 1) : s[j] = c
    BY <1>1
  <2>1. CASE i \in 1..a
    <3>1. PICK j \in 1..a : l[j] = c
      BY <2>1, <1>2 DEF SubtreeOrder, a
    <3> QED BY <3>1, <1>2, <1>sub
  <2>2. CASE i \in (a + 1)..b
    <3>0. i - a \in 1..Len(r) /\ r[i - a] = s[i]
      BY <2>2, <1>2
    <3>1. PICK j \in 1..Len(r) : r[j] = c
      BY <3>0 DEF SubtreeOrder
    <3> QED BY <3>1, <1>2, <1>sub2
  <2>3. CASE i = b + 1
    <3>0. c \div 2 = n /\ c \in Nat /\ c <= NumNodes
      BY <2>3, <1>2 DEF Nodes
    <3>1. CASE c = 2 * n
      <4>1. l # <<>> /\ l[Len(l)] = c
        BY <3>0, <3>1 DEF SubtreeOrder
      <4>2. Len(l) \in 1..a
        BY <4>1, <1>0 DEF a
      <4> QED BY <4>1, <4>2, <1>2, <1>sub
    <3>2. CASE c = 2 * n + 1
      <4>1. r # <<>> /\ r[Len(r)] = c
        BY <3>0, <3>2 DEF SubtreeOrder
      <4>2. Len(r) \in 1..Len(r)
        BY <4>1, <1>0
      <4> QED BY <4>1, <4>2, <1>2, <1>sub2
    <3> QED BY <3>0, <3>1, <3>2, <1>0
  <2> QED BY <1>3, <2>1, <2>2, <2>3
<1> QED BY <1>1, <1>4, <1>5, <1>6, <1>7, <1>8 DEF SubtreeOrder, s

\* PostOrder[n] is a post-order traversal of the subtree of n.
LEMMA SubtreeOrders == \A n \in TreeIds : SubtreeOrder(n, PostOrder[n])
<1> DEFINE T == {j \in 0..(2 * NumNodes) :
                    ~SubtreeOrder(2 * NumNodes + 1 - j, PostOrder[2 * NumNodes + 1 - j])}
<1>0. NumNodes \in Nat
  BY FsHtreeAssumption
<1>1. T = {}
  <2> SUFFICES ASSUME T # {} PROVE FALSE
    OBVIOUS
  <2>1. PICK j \in T : \A y \in T : j <= y
    <3>1. T \in SUBSET Nat
      BY <1>0
    <3> HIDE DEF T
    <3> QED BY <3>1, LeastNat
  <2> DEFINE n == 2 * NumNodes + 1 - j
  <2>2. n \in TreeIds /\ n \in Nat /\ n >= 1 /\ ~SubtreeOrder(n, PostOrder[n])
        /\ j \in 0..(2 * NumNodes)
    BY <1>0, <2>1 DEF TreeIds
  <2>3. \A m \in TreeIds : m > n => SubtreeOrder(m, PostOrder[m])
    <3> SUFFICES ASSUME NEW m \in TreeIds, m > n, ~SubtreeOrder(m, PostOrder[m])
                 PROVE  FALSE
      OBVIOUS
    <3> DEFINE y == 2 * NumNodes + 1 - m
    <3>1. y \in 0..(2 * NumNodes) /\ 2 * NumNodes + 1 - y = m /\ y < j
      BY <1>0, <2>2 DEF TreeIds
    <3>2. y \in T
      BY <3>1
    <3> HIDE DEF T
    <3> QED BY <3>1, <3>2, <2>1, <2>2
  <2> HIDE DEF n, T
  <2>4. CASE n > NumNodes
    <3>1. PostOrder[n] = <<>>
      BY <2>2, <2>4, PostOrderDef DEF PostOrderBody
    <3>2. SubtreeOrder(n, <<>>)
      BY <1>0, <2>2, <2>4 DEF SubtreeOrder
    <3> QED BY <2>2, <3>1, <3>2
  <2>5. CASE n <= NumNodes
    <3>0. /\ n \in Nodes /\ 2 * n \in TreeIds /\ 2 * n + 1 \in TreeIds
          /\ 2 * n > n /\ 2 * n + 1 > n
      <4>1. n \in 1..NumNodes
        BY <1>0, <2>2, <2>5
      <4> QED BY <1>0, <4>1 DEF Nodes, TreeIds
    <3>1. PostOrder[n] = PostOrder[2 * n] \o PostOrder[2 * n + 1] \o <<n>>
      <4>1. PostOrder[n] = PostOrderBody(PostOrder, n)
        BY <2>2, PostOrderDef
      <4>2. ~(n > NumNodes)
        BY <1>0, <2>2, <2>5
      <4> QED BY <4>1, <4>2, Zenon DEF PostOrderBody
    <3>2. SubtreeOrder(n, PostOrder[2 * n] \o PostOrder[2 * n + 1] \o <<n>>)
      BY <3>0, <2>3, JoinSubtrees
    <3> QED BY <2>2, <3>1, <3>2
  <2> QED BY <1>0, <2>2, <2>4, <2>5
<1>2. ASSUME NEW n \in TreeIds PROVE SubtreeOrder(n, PostOrder[n])
  <2> DEFINE j == 2 * NumNodes + 1 - n
  <2>1. j \in 0..(2 * NumNodes) /\ 2 * NumNodes + 1 - j = n
    BY <1>0 DEF TreeIds
  <2> QED BY <1>1, <2>1
<1> QED BY <1>2

\* traverse_post_order visits every node once, children before their parent.
LEMMA PostOrderOK ==
    /\ PostOrder[1] \in Seq(Nodes) /\ PostOrdered(PostOrder[1])
    /\ \A n \in Nodes : \E i \in 1..Len(PostOrder[1]) : PostOrder[1][i] = n
<1> DEFINE s == PostOrder[1]
           T == {n \in Nodes : ~\E i \in 1..Len(s) : s[i] = n}
<1>0. NumNodes \in Nat \ {0} /\ 1 \in TreeIds
  BY FsHtreeAssumption DEF TreeIds
<1>1. SubtreeOrder(1, s)
  BY <1>0, SubtreeOrders
<1> HIDE DEF s
<1>2. s \in Seq(Nodes) /\ PostOrdered(s)
  BY <1>0, <1>1 DEF SubtreeOrder, PostOrdered
<1>3. T = {}
  <2> SUFFICES ASSUME T # {} PROVE FALSE
    OBVIOUS
  <2>1. PICK n \in T : \A y \in T : n <= y
    <3>1. T \in SUBSET Nat
      BY <1>0 DEF Nodes
    <3> HIDE DEF T
    <3> QED BY <3>1, LeastNat
  <2>2. n \in Nodes /\ n \in Nat
    BY <1>0, <2>1 DEF Nodes
  <2>3. CASE n = 1
    <3>1. s # <<>> /\ s[Len(s)] = 1 /\ s \in Seq(Nodes)
      BY <1>0, <1>1 DEF SubtreeOrder
    <3>2. Len(s) \in 1..Len(s)
      BY <3>1
    <3> QED BY <2>1, <2>3, <3>1, <3>2
  <2>4. CASE n # 1
    <3>1. n \div 2 \in Nodes /\ n \div 2 < n
      BY <1>0, <2>2, <2>4 DEF Nodes
    <3>2. n \div 2 \notin T
      <4> HIDE DEF T
      <4> QED BY <3>1, <2>1, <2>2
    <3>3. PICK i \in 1..Len(s) : s[i] = n \div 2
      BY <3>1, <3>2
    <3>4. \E k \in 1..Len(s) : s[k] = n
      BY <1>1, <2>2, <2>4, <3>3 DEF SubtreeOrder
    <3> QED BY <2>1, <3>4
  <2> QED BY <2>3, <2>4
<1> QED BY <1>2, <1>3 DEF s

-----------------------------------------------------------------------------
(* The tree that is loaded.                                                *)

\* One unfolding of Images.
ImageOf(d, v, g, n) ==
    IF n = 1 THEN d.node[1][v]
    ELSE IF n > d.head[v].max THEN ZeroNode
    ELSE d.node[n][g[n \div 2].kid[n % 2]]

\* The parent of a node.
LEMMA Parents ==
    /\ NumNodes \in Nat \ {0} /\ 1 \in Nodes /\ Nodes \subseteq Nat /\ 0 \notin Nodes
    /\ \A n \in Nodes \ {1} : n \div 2 \in Nodes /\ n \div 2 < n /\ n % 2 \in Vers
                              /\ n = 2 * (n \div 2) + (n % 2)
BY FsHtreeAssumption DEF Nodes, Vers

\* init_tree_from_data: the recursive definition has a solution.
LEMMA ImagesDef ==
    ASSUME NEW d, NEW v
    PROVE  Images(d, v) = [n \in Nodes |-> ImageOf(d, v, Images(d, v), n)]
<1> DEFINE Upto(k, g) == /\ g = [n \in Nodes |-> g[n]]
                         /\ \A n \in Nodes : n <= k => g[n] = ImageOf(d, v, g, n)
           T == {j \in 0..NumNodes : \E g : Upto(NumNodes - j, g)}
<1>0. NumNodes \in Nat
  BY FsHtreeAssumption
<1>1. NumNodes \in T
  <2> DEFINE g0 == [n \in Nodes |-> 0]
  <2>1. Upto(NumNodes - NumNodes, g0)
    BY <1>0 DEF Nodes
  <2> HIDE DEF g0
  <2> QED BY <1>0, <2>1
<1>2. PICK j \in T : \A y \in T : j <= y
  <2>1. T \in SUBSET Nat
    BY <1>0
  <2> HIDE DEF T
  <2> QED BY <1>1, <2>1, LeastNat
<1>3. PICK g : Upto(NumNodes - j, g)
  BY <1>2
<1>4. j = 0
  <2> SUFFICES ASSUME j # 0 PROVE FALSE
    OBVIOUS
  <2> DEFINE k == NumNodes - j + 1
             h == [g EXCEPT ![k] = ImageOf(d, v, g, k)]
  <2>1. j \in 1..NumNodes /\ k \in Nodes
    BY <1>0, <1>2 DEF Nodes
  <2>2. h = [n \in Nodes |-> h[n]]
    BY <1>3
  <2>3. \A n \in Nodes : n <= k => h[n] = ImageOf(d, v, h, n)
    <3> SUFFICES ASSUME NEW n \in Nodes, n <= k PROVE h[n] = ImageOf(d, v, h, n)
      OBVIOUS
    <3>1. h[n] = ImageOf(d, v, g, n)
      BY <1>0, <1>3, <2>1 DEF Nodes
    <3>2. n # 1 => h[n \div 2] = g[n \div 2]
      BY <1>0, <1>3, <2>1 DEF Nodes
    <3> HIDE DEF h
    <3>3. ImageOf(d, v, h, n) = ImageOf(d, v, g, n)
      BY <3>2 DEF ImageOf
    <3> QED BY <3>1, <3>3
  <2> HIDE DEF h
  <2>4. Upto(NumNodes - (j - 1), h)
    BY <1>0, <2>1, <2>2, <2>3
  <2>5. j - 1 \in T
    BY <1>0, <2>1, <2>4
  <2> HIDE DEF T
  <2> QED BY <1>2, <2>1, <2>5
<1>5. g = [n \in Nodes |-> ImageOf(d, v, g, n)]
  <2>1. \A n \in Nodes : n <= NumNodes - j
    BY <1>0, <1>4 DEF Nodes
  <2> QED BY <1>3, <2>1
<1>6. Images(d, v) = CHOOSE f : f = [n \in Nodes |-> ImageOf(d, v, f, n)]
  BY DEF Images, ImageOf
<1> HIDE DEF Upto, T
<1> QED BY <1>5, <1>6

\* init_tree_from_data: the recursive definition has one solution.
LEMMA ImagesUnique ==
    ASSUME NEW d, NEW v, NEW g, g = [n \in Nodes |-> ImageOf(d, v, g, n)]
    PROVE  g = Images(d, v)
<1> DEFINE I == Images(d, v)
           T == {n \in Nodes : g[n] # I[n]}
<1>0. I = [n \in Nodes |-> ImageOf(d, v, I, n)]
  BY ImagesDef
<1> HIDE DEF I
<1>1. T = {}
  <2> SUFFICES ASSUME T # {} PROVE FALSE
    OBVIOUS
  <2>1. PICK n \in T : \A y \in T : n <= y
    <3>1. T \in SUBSET Nat
      BY Parents
    <3> HIDE DEF T
    <3> QED BY <3>1, LeastNat
  <2>2. n \in Nodes /\ g[n] # I[n] /\ n \in Nat
    BY <2>1, Parents
  <2>3. n # 1 => g[n \div 2] = I[n \div 2]
    <3> SUFFICES ASSUME n # 1 PROVE g[n \div 2] = I[n \div 2]
      OBVIOUS
    <3>1. n \div 2 \in Nodes /\ n \div 2 < n /\ n \div 2 \in Nat
      BY <2>2, Parents
    <3>2. n \div 2 \notin T
      <4> HIDE DEF T
      <4> QED BY <2>1, <2>2, <3>1
    <3> QED BY <3>1, <3>2
  <2>4. ImageOf(d, v, g, n) = ImageOf(d, v, I, n)
    BY <2>3 DEF ImageOf
  <2>5. g[n] = ImageOf(d, v, g, n) /\ I[n] = ImageOf(d, v, I, n)
    BY <1>0, <2>2
  <2> QED BY <2>2, <2>4, <2>5
<1>2. g = [n \in Nodes |-> g[n]] /\ I = [n \in Nodes |-> I[n]]
  BY <1>0
<1>3. \A n \in Nodes : g[n] = I[n]
  BY <1>1
<1> QED BY <1>2, <1>3 DEF I

\* The tree that is loaded only depends on the versions it reaches.
LEMMA ImagesKept ==
    ASSUME NEW d, NEW e, NEW v,
           e.head[v] = d.head[v], e.node[1][v] = d.node[1][v],
           \A n \in Nodes \ {1} : ~(n > d.head[v].max) =>
              LET k == Images(d, v)[n \div 2].kid[n % 2] IN e.node[n][k] = d.node[n][k]
    PROVE  Images(e, v) = Images(d, v)
<1> DEFINE I == Images(d, v)
<1>1. I = [n \in Nodes |-> ImageOf(d, v, I, n)]
  BY ImagesDef
<1> HIDE DEF I
<1>2. \A n \in Nodes \ {1} : ~(n > d.head[v].max) =>
         e.node[n][I[n \div 2].kid[n % 2]] = d.node[n][I[n \div 2].kid[n % 2]]
  BY DEF I
<1>3. ASSUME NEW n \in Nodes PROVE ImageOf(e, v, I, n) = ImageOf(d, v, I, n)
  <2>1. CASE n = 1 \/ n > d.head[v].max
    BY <2>1 DEF ImageOf
  <2>2. CASE n # 1 /\ ~(n > d.head[v].max)
    BY <2>2, <1>2 DEF ImageOf
  <2> QED BY <2>1, <2>2
<1>4. I = [n \in Nodes |-> ImageOf(e, v, I, n)]
  BY <1>1, <1>3
<1>5. I = Images(e, v)
  BY <1>4, ImagesUnique
<1> QED BY <1>5 DEF I

\* The fields of the tree that is loaded.
LEMMA LoadedFields ==
    ASSUME NEW d, NEW v
    PROVE  /\ Loaded(d, v) = [max |-> d.head[v].max, len |-> d.head[v].len,
                              counter |-> d.head[v].counter, dirty |-> FALSE,
                              node |-> [n \in Nodes |-> CleanNode(Images(d, v)[n])]]
           /\ \A n \in Nodes : Loaded(d, v).node[n] = CleanNode(Images(d, v)[n])
BY Zenon DEF Loaded

\* Each node that is loaded is a node image.
LEMMA ImagesShape ==
    ASSUME NEW d, NEW v \in Vers, IsDisk(d)
    PROVE  \A n \in Nodes : IsImage(Images(d, v)[n])
<1> DEFINE I == Images(d, v)
           T == {n \in Nodes : ~IsImage(I[n])}
<1>0. I = [n \in Nodes |-> ImageOf(d, v, I, n)]
  BY ImagesDef
<1> HIDE DEF I
<1>z. IsImage(ZeroNode)
  BY DEF IsImage, ZeroNode, Vers
<1>1. T = {}
  <2> SUFFICES ASSUME T # {} PROVE FALSE
    OBVIOUS
  <2>1. PICK n \in T : \A y \in T : n <= y
    <3>1. T \in SUBSET Nat
      BY Parents
    <3> HIDE DEF T
    <3> QED BY <3>1, LeastNat
  <2>2. n \in Nodes /\ ~IsImage(I[n]) /\ n \in Nat
    BY <2>1, Parents
  <2>3. CASE n = 1
    BY <1>0, <2>2, <2>3, Parents DEF ImageOf, IsDisk
  <2>4. CASE n # 1 /\ n > d.head[v].max
    BY <1>0, <1>z, <2>2, <2>4 DEF ImageOf
  <2>5. CASE n # 1 /\ ~(n > d.head[v].max)
    <3>1. n \div 2 \in Nodes /\ n \div 2 < n /\ n \div 2 \in Nat /\ n % 2 \in Vers
      BY <2>2, <2>5, Parents
    <3>2. n \div 2 \notin T
      <4> HIDE DEF T
      <4> QED BY <2>1, <2>2, <3>1
    <3>3. I[n \div 2].kid[n % 2] \in Vers
      BY <3>1, <3>2 DEF IsImage
    <3>4. I[n] = d.node[n][I[n \div 2].kid[n % 2]]
      BY <1>0, <2>2, <2>5 DEF ImageOf
    <3>5. IsImage(d.node[n][I[n \div 2].kid[n % 2]])
      BY <2>2, <3>3 DEF IsDisk
    <3> QED BY <2>2, <3>4, <3>5
  <2> QED BY <2>3, <2>4, <2>5
<1> QED BY <1>1 DEF I

\* What is loaded is a tree, and it is on the disk.
LEMMA LoadedTree ==
    ASSUME NEW d, NEW v \in Vers, IsDisk(d)
    PROVE  /\ IsTree(Loaded(d, v)) /\ OnDisk(d, Loaded(d, v))
           /\ Loaded(d, v).node[1].image = d.node[1][v]
<1> DEFINE h == Loaded(d, v)
           I == Images(d, v)
<1>0. I = [n \in Nodes |-> ImageOf(d, v, I, n)]
  BY ImagesDef
<1>1. \A n \in Nodes : IsImage(I[n])
  BY ImagesShape
<1> HIDE DEF I
<1>2. /\ h = [max |-> d.head[v].max, len |-> d.head[v].len,
              counter |-> d.head[v].counter, dirty |-> FALSE,
              node |-> [n \in Nodes |-> CleanNode(I[n])]]
      /\ \A n \in Nodes : h.node[n] = CleanNode(I[n])
  BY LoadedFields DEF I
<1> HIDE DEF h
<1>3. /\ h.max = d.head[v].max /\ h.len = d.head[v].len /\ h.counter = d.head[v].counter
      /\ h.dirty = FALSE
      /\ h.node = [n \in Nodes |-> CleanNode(I[n])]
  BY <1>2
<1>h. IsHead(d.head[v])
  BY DEF IsDisk
<1>4. /\ SizeOK(h.len, h.max) /\ h.counter \in 0..MaxCounter /\ h.dirty \in BOOLEAN
      /\ h.max \in 0..NumNodes
  BY <1>3, <1>h DEF IsHead, SizeOK
<1>5. h = [max |-> h.max, len |-> h.len, counter |-> h.counter,
           dirty |-> h.dirty, node |-> h.node]
  BY <1>2, <1>3
<1>6. \A n \in Nodes : IsNode(h.node[n])
  BY <1>1, <1>2 DEF IsNode, CleanNode
<1>7. ASSUME NEW n \in Nodes, ~InTree(h, n) PROVE h.node[n] = FreshNode
  <2>1. n # 1 /\ n > d.head[v].max
    BY <1>7, <1>3, <1>4, Parents DEF InTree
  <2>2. I[n] = ZeroNode
    BY <1>0, <2>1 DEF ImageOf
  <2> QED BY <2>2, <1>2 DEF FreshNode
<1>8. IsTree(h)
  BY <1>3, <1>4, <1>5, <1>6, <1>7 DEF IsTree
<1>9. h.node[1].image = d.node[1][v]
  BY <1>0, <1>2, Parents DEF ImageOf, CleanNode
<1>10. OnDisk(d, h)
  <2> SUFFICES ASSUME NEW n \in Nodes \ {1}, InTree(h, n)
               PROVE  d.node[n][h.node[n \div 2].image.kid[n % 2]] = h.node[n].image
    BY DEF OnDisk
  <2>1. n # 1 /\ ~(n > d.head[v].max) /\ n \div 2 \in Nodes
    BY <1>3, <1>4, Parents DEF InTree
  <2>2. I[n] = d.node[n][I[n \div 2].kid[n % 2]]
    BY <1>0, <2>1 DEF ImageOf
  <2> QED BY <1>2, <2>1, <2>2 DEF CleanNode
<1> QED BY <1>8, <1>9, <1>10 DEF h

\* A clean tree that is on the disk, with its head, is what is loaded.
LEMMA LoadedIs ==
    ASSUME NEW d, NEW v \in Vers, NEW h, IsDisk(d), IsTree(h), h.dirty = FALSE,
           \A n \in Nodes : ~h.node[n].dirty,
           d.head[v].max = h.max, d.head[v].len = h.len, d.head[v].counter = h.counter,
           d.node[1][v] = h.node[1].image, OnDisk(d, h)
    PROVE  Loaded(d, v) = h
<1> DEFINE g == [n \in Nodes |-> h.node[n].image]
<1>1. ASSUME NEW n \in Nodes PROVE g[n] = ImageOf(d, v, g, n)
  <2>1. CASE n = 1
    BY <2>1 DEF ImageOf
  <2>2. CASE n # 1 /\ n > d.head[v].max
    <3>1. ~InTree(h, n)
      BY <2>2, Parents DEF InTree, IsTree, SizeOK
    <3>2. h.node[n].image = ZeroNode
      BY <3>1 DEF IsTree, FreshNode, CleanNode
    <3>3. ImageOf(d, v, g, n) = ZeroNode
      <4> HIDE DEF g
      <4> QED BY <2>2 DEF ImageOf
    <3> QED BY <3>2, <3>3
  <2>3. CASE n # 1 /\ ~(n > d.head[v].max)
    <3>1. InTree(h, n) /\ n \div 2 \in Nodes
      BY <2>3, Parents DEF InTree, IsTree, SizeOK
    <3>2. d.node[n][h.node[n \div 2].image.kid[n % 2]] = h.node[n].image
      BY <2>3, <3>1 DEF OnDisk
    <3>3. ImageOf(d, v, g, n) = d.node[n][g[n \div 2].kid[n % 2]]
      <4> HIDE DEF g
      <4> QED BY <2>3 DEF ImageOf
    <3> QED BY <3>1, <3>2, <3>3
  <2> QED BY <2>1, <2>2, <2>3
<1>2. g = Images(d, v)
  <2>1. g = [n \in Nodes |-> g[n]]
    OBVIOUS
  <2> HIDE DEF g
  <2> QED BY <1>1, <2>1, ImagesUnique
<1>3. \A n \in Nodes : h.node[n] = CleanNode(g[n])
  BY DEF IsTree, IsNode, CleanNode
<1>4. h.node = [n \in Nodes |-> CleanNode(Images(d, v)[n])]
  <2>1. h.node = [n \in Nodes |-> h.node[n]]
    BY DEF IsTree
  <2> HIDE DEF g
  <2> QED BY <1>2, <1>3, <2>1
<1>5. h = [max |-> h.max, len |-> h.len, counter |-> h.counter,
           dirty |-> h.dirty, node |-> h.node]
  BY DEF IsTree
<1> DEFINE M == [n \in Nodes |-> CleanNode(Images(d, v)[n])]
<1>6. Loaded(d, v) = [max |-> d.head[v].max, len |-> d.head[v].len,
                      counter |-> d.head[v].counter, dirty |-> FALSE, node |-> M]
  BY LoadedFields, Zenon
<1>7. h.node = M
  BY <1>4
<1> HIDE DEF g, M
<1> QED BY <1>5, <1>6, <1>7

-----------------------------------------------------------------------------
(* Hashes, and the version that is selected.                               *)

\* calc_node_hash depends on the node and on the hashes of its children.
LEMMA HashKept ==
    ASSUME NEW g, NEW h, NEW n,
           g.node[n].image.blk = h.node[n].image.blk,
           g.node[n].image.kid = h.node[n].image.kid,
           g.node[n].image.tag = h.node[n].image.tag,
           n = 1 => g.len = h.len,
           \A i \in Vers : InTree(g, 2 * n + i) = InTree(h, 2 * n + i),
           \A i \in Vers : InTree(h, 2 * n + i) =>
              g.node[2 * n + i].image.hash = h.node[2 * n + i].image.hash
    PROVE  HashOf(g, n) = HashOf(h, n)
BY DEF HashOf, Vers

\* Two roots that differ in what is hashed have two hashes.
LEMMA HashDiffers ==
    ASSUME NEW g, NEW h,
           \/ g.node[1].image.tag # h.node[1].image.tag
           \/ g.node[1].image.kid # h.node[1].image.kid
           \/ g.len # h.len
    PROVE  HashOf(g, 1) # HashOf(h, 1)
BY DEF HashOf

\* No node has the hash of a root that was never written, nor no hash.
LEMMA HashNotZero ==
    ASSUME NEW h, NEW n
    PROVE  HashOf(h, n) # ZeroHash /\ HashOf(h, n) # NoHash
BY DEF HashOf, ZeroHash, NoHash

\* init_head_from_data finds the version that is selected.
LEMMA SelectedIsHead ==
    \A v \in Vers : IsDisk(disk) /\ useHash \in BOOLEAN /\ Selected(v) => HeadIdx = v
<1> SUFFICES ASSUME NEW v \in Vers, IsDisk(disk), useHash \in BOOLEAN, Selected(v)
             PROVE  HeadIdx = v
  OBVIOUS
<1>0. v = 0 \/ v = 1
  BY DEF Vers
<1>1. CASE useHash
  <2>1. disk.node[1][v].hash = anchor /\ disk.node[1][Flip(v)].hash # anchor
    BY <1>1 DEF Selected
  <2>2. CASE v = 0
    BY <1>1, <2>1, <2>2 DEF HeadIdx, Flip, Vers
  <2>3. CASE v = 1
    BY <1>1, <2>1, <2>3 DEF HeadIdx, Flip, Vers
  <2> QED BY <1>0, <2>2, <2>3
<1>2. CASE ~useHash
  <2>1. disk.head[0].counter \in Nat /\ disk.head[1].counter \in Nat
    BY DEF IsDisk, IsHead, Vers
  <2> QED BY <1>0, <1>2, <2>1 DEF Selected, HeadIdx, IdxFromCounters, Flip
<1> QED BY <1>1, <1>2

\* The same, after a step.
LEMMA SelectedIsHeadNext ==
    \A v \in Vers : (IsDisk(disk) /\ useHash \in BOOLEAN /\ Selected(v) => HeadIdx = v)'
<1>1. (\A v \in Vers : IsDisk(disk) /\ useHash \in BOOLEAN /\ Selected(v) => HeadIdx = v)'
  BY SelectedIsHead, PTL
<1> QED BY <1>1

-----------------------------------------------------------------------------
(* The committed version is kept.                                          *)

\* A step leaves alone all that recovery of version v reads.
DiskKept(v) ==
    /\ useHash' = useHash /\ anchor' = anchor
    /\ disk'.head = disk.head \/ (useHash /\ disk'.head[v] = disk.head[v])
    /\ disk'.node[1][v] = disk.node[1][v]
    /\ useHash => disk'.node[1][Flip(v)].hash # anchor
    /\ \A n \in Nodes \ {1} : InTree(Loaded(disk, v), n) =>
          LET k == Loaded(disk, v).node[n \div 2].image.kid[n % 2]
          IN  disk'.node[n][k] = disk.node[n][k]
    /\ \A n \in 1..disk.head[v].len :
          LET b == Loaded(disk, v).node[n].image.blk
          IN  disk'.block[n][b] = disk.block[n][b]

\* Such a step keeps the committed version.
LEMMA CommitKept ==
    ASSUME IsDisk(disk), IsDisk(disk'), useHash \in BOOLEAN, Exists,
           NEW v \in Vers, Committed(v), DiskKept(v)
    PROVE  /\ Loaded(disk', v) = Loaded(disk, v) /\ Committed(v)'
           /\ HeadIdx = v /\ HeadIdx' = v /\ Exists'
<1> DEFINE c == Loaded(disk, v)
<1>h. disk'.head[v] = disk.head[v]
  BY DEF DiskKept
<1>s. Selected(v)
  BY DEF Committed
<1>1. Images(disk', v) = Images(disk, v)
  <2>1. \A n \in Nodes : c.node[n].image = Images(disk, v)[n]
    BY LoadedFields DEF CleanNode
  <2>2. c.max = disk.head[v].max
    BY LoadedFields
  <2>3. disk.head[v].max \in Int
    <3>1. IsHead(disk.head[v])
      BY DEF IsDisk
    <3> QED BY <3>1, Parents DEF IsHead, SizeOK
  <2> HIDE DEF c
  <2>4. ASSUME NEW n \in Nodes \ {1}, ~(n > disk.head[v].max)
        PROVE  LET k == Images(disk, v)[n \div 2].kid[n % 2]
               IN disk'.node[n][k] = disk.node[n][k]
    <3>0. n \in Nat /\ n \div 2 \in Nodes
      BY Parents
    <3>1. InTree(c, n) /\ n \div 2 \in Nodes
      BY <2>2, <2>3, <2>4, <3>0 DEF InTree
    <3>2. c.node[n \div 2].image = Images(disk, v)[n \div 2]
      BY <2>1, <3>1
    <3> QED BY <3>1, <3>2 DEF DiskKept, c
  <2>5. disk'.node[1][v] = disk.node[1][v]
    BY DEF DiskKept
  <2> QED BY <1>h, <2>4, <2>5, ImagesKept
<1>2. Loaded(disk', v) = c
  <2>1. Loaded(disk', v) =
            [max |-> disk'.head[v].max, len |-> disk'.head[v].len,
             counter |-> disk'.head[v].counter, dirty |-> FALSE,
             node |-> [n \in Nodes |-> CleanNode(Images(disk', v)[n])]]
    BY LoadedFields, Zenon
  <2>2. c = [max |-> disk.head[v].max, len |-> disk.head[v].len,
             counter |-> disk.head[v].counter, dirty |-> FALSE,
             node |-> [n \in Nodes |-> CleanNode(Images(disk, v)[n])]]
    BY LoadedFields, Zenon
  <2> QED BY <1>h, <1>1, <2>1, <2>2
<1>3. Selected(v)'
  <2>1. Flip(v) \in Vers
    BY DEF Flip, Vers
  <2> QED BY <1>h, <1>s DEF DiskKept, Selected
<1>4. Verified(v)'
  <2>1. Verified(v)
    BY DEF Committed
  <2> HIDE DEF c
  <2>2. Verified(v)' <=> /\ HeadTag(c) = disk'.head[v].tag
                         /\ \A n \in Nodes : InTree(c, n) => c.node[n].image.hash = HashOf(c, n)
    BY <1>2 DEF Verified
  <2> QED BY <1>h, <2>1, <2>2 DEF Verified, c
<1>5. \A n \in 1..disk.head[v].len : BlockReadable(Loaded(disk, v), n)'
  <2> SUFFICES ASSUME NEW n \in 1..disk.head[v].len
               PROVE  BlockReadable(Loaded(disk, v), n)'
    OBVIOUS
  <2>1. BlockReadable(c, n)
    BY DEF Committed
  <2>2. disk'.block[n][c.node[n].image.blk] = disk.block[n][c.node[n].image.blk]
    BY DEF DiskKept
  <2>3. InTree(c, n) /\ disk'.block[n][c.node[n].image.blk] = c.node[n].image.tag
    BY <2>1, <2>2 DEF BlockReadable
  <2> HIDE DEF c
  <2> QED BY <1>2, <2>3 DEF BlockReadable
<1>6. Committed(v)'
  BY <1>3, <1>4, <1>5, <1>h DEF Committed
<1>7. HeadIdx = v /\ HeadIdx' = v
  BY <1>s, <1>3, SelectedIsHead, SelectedIsHeadNext DEF DiskKept
<1>8. Exists'
  BY DEF Exists, DiskKept
<1> QED BY <1>2, <1>6, <1>7, <1>8

\* A step that leaves the committed version alone.
KeepsCommit == Exists => \E v \in Vers : CommitInv(v) /\ DiskKept(v)

-----------------------------------------------------------------------------
(* Writes.                                                                 *)

\* What tee_fs_htree_write_block changes.
LEMMA WriteFacts ==
    ASSUME Shape, NEW n \in Nodes, WriteBlock(n)
    PROVE  LET x == ht.node[n]
               blk == IF x.block_updated THEN x.image.blk ELSE Flip(x.image.blk)
           IN  /\ blk \in Vers
               /\ disk'.head = disk.head /\ disk'.node = disk.node /\ nwrites' = nwrites + 1
               /\ \A m \in Nodes, v \in Vers :
                     disk'.block[m][v] = IF m = n /\ v = blk THEN nwrites + 1
                                         ELSE disk.block[m][v]
               /\ ht'.max = (IF n = 1 \/ n <= ht.max THEN ht.max ELSE n)
               /\ ht'.len = (IF n > ht.len THEN n ELSE ht.len)
               /\ ht'.counter = ht.counter /\ ht'.dirty = TRUE
               /\ \A m \in Nodes \ {n} :
                     /\ ht'.node[m].image = ht.node[m].image
                     /\ ht'.node[m].block_updated = ht.node[m].block_updated
                     /\ ht'.node[m].dirty = (ht.node[m].dirty \/ (m = 1 /\ n > ht.len))
               /\ ht'.node[n].dirty = TRUE /\ ht'.node[n].block_updated = TRUE
               /\ ht'.node[n].image.blk = blk /\ ht'.node[n].image.tag = nwrites + 1
               /\ ht'.node[n].image.kid = x.image.kid /\ ht'.node[n].image.hash = x.image.hash
               /\ IsDisk(disk') /\ IsTree(ht')
<1> DEFINE x == ht.node[n]
           blk == IF x.block_updated THEN x.image.blk ELSE Flip(x.image.blk)
           max == IF n = 1 \/ n <= ht.max THEN ht.max ELSE n
           len == IF n > ht.len THEN n ELSE ht.len
           y == [image |-> [x.image EXCEPT !.blk = blk, !.tag = nwrites + 1],
                 dirty |-> TRUE, block_updated |-> TRUE]
           node == [ht.node EXCEPT ![n] = y]
           node2 == IF len = ht.len THEN node ELSE [node EXCEPT ![1].dirty = TRUE]
<1>0. /\ pc = "idle" /\ n <= ht.len + 1 /\ nwrites < MaxWrites /\ nwrites' = nwrites + 1
      /\ disk' = [disk EXCEPT !.block[n][blk] = nwrites + 1]
      /\ ht' = [ht EXCEPT !.max = max, !.len = len, !.dirty = TRUE, !.node = node2]
  BY DEF WriteBlock
<1>t. /\ IsTree(ht) /\ IsDisk(disk) /\ IsNode(x) /\ IsImage(x.image) /\ nwrites \in 0..MaxWrites
      /\ n \in 1..NumNodes /\ NumNodes \in Nat /\ ht.len \in 0..NumNodes /\ ht.max \in 0..NumNodes
      /\ MaxWrites \in Nat
  BY FsHtreeAssumption DEF Shape, IsTree, IsNode, Nodes, SizeOK
<1>1. blk \in Vers
  BY <1>t DEF IsImage, Flip, Vers
<1> HIDE DEF blk
<1>2. /\ y.image.blk = blk /\ y.image.tag = nwrites + 1 /\ y.image.kid = x.image.kid
      /\ y.image.hash = x.image.hash /\ y.dirty = TRUE /\ y.block_updated = TRUE
      /\ y.image = [blk |-> blk, kid |-> x.image.kid, tag |-> nwrites + 1, hash |-> x.image.hash]
  BY <1>t DEF IsImage
<1>3. IsNode(y)
  <2>1. IsImage(y.image)
    BY <1>1, <1>2, <1>t DEF IsImage
  <2>2. y = [image |-> y.image, dirty |-> y.dirty, block_updated |-> y.block_updated]
    BY Zenon
  <2> HIDE DEF y
  <2> QED BY <1>2, <2>1, <2>2 DEF IsNode
<1> HIDE DEF y
<1>4. /\ DOMAIN ht.node = Nodes /\ node[n] = y /\ \A m \in Nodes \ {n} : node[m] = ht.node[m]
      /\ node = [m \in Nodes |-> node[m]]
  BY <1>t DEF IsTree
<1>5. \A m \in Nodes : IsNode(node[m])
  BY <1>3, <1>4, <1>t DEF IsTree
<1> HIDE DEF node
<1>6. /\ node2 = [m \in Nodes |-> node2[m]]
      /\ \A m \in Nodes : IsNode(node2[m])
      /\ \A m \in Nodes : /\ node2[m].image = node[m].image
                          /\ node2[m].block_updated = node[m].block_updated
                          /\ node2[m].dirty = (node[m].dirty \/ (m = 1 /\ n > ht.len))
  <2>1. CASE len = ht.len
    <3>1. node2 = node /\ ~(n > ht.len)
      BY <2>1, <1>t
    <3> QED BY <3>1, <1>4, <1>5 DEF IsNode
  <2>2. CASE len # ht.len
    <3>1. node2 = [node EXCEPT ![1].dirty = TRUE] /\ n > ht.len
      BY <2>2, <1>t
    <3>2. /\ node2 = [m \in Nodes |-> node2[m]]
          /\ \A m \in Nodes \ {1} : node2[m] = node[m]
          /\ node2[1] = [node[1] EXCEPT !.dirty = TRUE]
      BY <3>1, <1>4, Parents
    <3>3. /\ node2[1].image = node[1].image /\ node2[1].block_updated = node[1].block_updated
          /\ node2[1].dirty = TRUE /\ IsNode(node2[1])
      <4>1. IsNode(node[1])
        BY <1>5, Parents
      <4> HIDE DEF node2
      <4> QED BY <3>2, <4>1 DEF IsNode
    <3> HIDE DEF node2
    <3> QED BY <3>1, <3>2, <3>3, <1>5, Parents DEF IsNode
  <2> QED BY <2>1, <2>2
<1> HIDE DEF node2
<1>7. /\ ht'.max = max /\ ht'.len = len /\ ht'.counter = ht.counter /\ ht'.dirty = TRUE
      /\ ht'.node = node2
      /\ ht' = [max |-> max, len |-> len, counter |-> ht.counter, dirty |-> TRUE, node |-> node2]
  BY <1>0, <1>t DEF IsTree
<1>8. SizeOK(len, max)
  BY <1>0, <1>t DEF SizeOK, IsTree
<1>9. ASSUME NEW m \in Nodes, ~(m = 1 \/ m <= max) PROVE node2[m] = FreshNode
  <2>1. m # n /\ m # 1 /\ ~InTree(ht, m)
    BY <1>9, <1>t, Parents DEF InTree
  <2>2. ht.node[m] = FreshNode
    BY <2>1, <1>t DEF IsTree
  <2>3. /\ node2[m].image = ht.node[m].image /\ node2[m].block_updated = ht.node[m].block_updated
        /\ node2[m].dirty = ht.node[m].dirty
        /\ node2[m] = [image |-> node2[m].image, dirty |-> node2[m].dirty,
                       block_updated |-> node2[m].block_updated]
    <3>1. node[m] = ht.node[m] /\ IsNode(node2[m])
      BY <2>1, <1>4, <1>6
    <3>2. node[m].dirty \in BOOLEAN
      BY <1>5 DEF IsNode
    <3>3. node2[m].dirty = (node[m].dirty \/ (m = 1 /\ n > ht.len))
      BY <1>6
    <3>4. node2[m].dirty = node[m].dirty
      BY <3>2, <3>3, <2>1
    <3> QED BY <3>1, <3>4, <1>6 DEF IsNode
  <2>4. ht.node[m] = [image |-> ht.node[m].image, dirty |-> ht.node[m].dirty,
                       block_updated |-> ht.node[m].block_updated]
    BY <1>t DEF IsNode, IsTree
  <2> QED BY <2>2, <2>3, <2>4
<1>10. IsTree(ht')
  <2>1. ht'.counter \in 0..MaxCounter
    BY <1>7, <1>t DEF IsTree
  <2> HIDE DEF max, len
  <2>2. \A m \in Nodes : ~InTree(ht', m) => ht'.node[m] = FreshNode
    BY <1>7, <1>9 DEF InTree, max
  <2> QED BY <2>1, <2>2, <1>6, <1>7, <1>8 DEF IsTree
<1>11. /\ disk'.head = disk.head /\ disk'.node = disk.node
       /\ disk'.block = [disk.block EXCEPT ![n][blk] = nwrites + 1]
       /\ disk' = [head |-> disk.head, node |-> disk.node, block |-> disk'.block]
  BY <1>0, <1>t DEF IsDisk
<1>12. disk.block \in [Nodes -> [Vers -> 0..MaxWrites]]
  BY <1>t DEF IsDisk
<1>13. /\ disk'.block \in [Nodes -> [Vers -> 0..MaxWrites]]
       /\ \A m \in Nodes, v \in Vers :
             disk'.block[m][v] = IF m = n /\ v = blk THEN nwrites + 1 ELSE disk.block[m][v]
  BY <1>0, <1>1, <1>11, <1>12, <1>t
<1>14. IsDisk(disk')
  BY <1>11, <1>13, <1>t DEF IsDisk
<1>15. \A m \in Nodes \ {n} :
          /\ ht'.node[m].image = ht.node[m].image
          /\ ht'.node[m].block_updated = ht.node[m].block_updated
          /\ ht'.node[m].dirty = (ht.node[m].dirty \/ (m = 1 /\ n > ht.len))
  BY <1>4, <1>6, <1>7
<1>16. /\ ht'.node[n].dirty = TRUE /\ ht'.node[n].block_updated = TRUE
       /\ ht'.node[n].image.blk = blk /\ ht'.node[n].image.tag = nwrites + 1
       /\ ht'.node[n].image.kid = x.image.kid /\ ht'.node[n].image.hash = x.image.hash
  <2>1. /\ ht'.node[n].image = y.image /\ ht'.node[n].block_updated = y.block_updated
        /\ ht'.node[n].dirty = (y.dirty \/ (n = 1 /\ n > ht.len))
    BY <1>4, <1>6, <1>7
  <2> QED BY <2>1, <1>2
<1> QED BY <1>0, <1>1, <1>7, <1>10, <1>11, <1>13, <1>14, <1>15, <1>16 DEF blk

\* The head decides the size and the counter of the tree that is loaded.
LEMMA LoadedSizes ==
    ASSUME NEW d, NEW v
    PROVE  /\ Loaded(d, v).max = d.head[v].max /\ Loaded(d, v).len = d.head[v].len
           /\ Loaded(d, v).counter = d.head[v].counter /\ Loaded(d, v).dirty = FALSE
BY LoadedFields

\* Every block of a tree has a node, and every node a number in range.
LEMMA Sizes ==
    ASSUME NEW h, IsTree(h)
    PROVE  /\ h.len \in 0..NumNodes /\ h.max \in 0..NumNodes /\ NumNodes \in Nat
           /\ \A n \in Nodes : n <= h.len => InTree(h, n)
           /\ \A n \in 1..h.len : n \in Nodes /\ InTree(h, n)
           /\ InTree(h, 1)
           /\ \A n \in Nat : InTree(h, n) /\ n > 1 => n \in Nodes /\ n <= h.max
BY Parents DEF IsTree, SizeOK, InTree, Nodes

\* A write keeps the invariant: it goes to the version of the block that is
\* not committed.
LEMMA WriteInv ==
    ASSUME HInv, NEW n \in Nodes, WriteBlock(n)
    PROVE  HInv'
<1>v. pc = "idle" /\ Exists
  BY DEF HInv, ExistsOK, WriteBlock
<1>w. PICK v \in Vers : CommitInv(v)
  BY <1>v DEF HInv
<1> DEFINE c == Loaded(disk, v)
           x == ht.node[n]
           blk == IF x.block_updated THEN x.image.blk ELSE Flip(x.image.blk)
<1>0. /\ pc = "idle" /\ pc' = "idle" /\ Shape /\ Exists /\ Committed(v) /\ HandleOK
      /\ Follows(v) /\ FollowsIdle(v) /\ todo' = todo /\ anchor' = anchor
      /\ useHash' = useHash /\ useHash \in BOOLEAN /\ n <= ht.len + 1 /\ nwrites < MaxWrites
      /\ IsTree(ht) /\ IsDisk(disk) /\ nwrites \in 0..MaxWrites /\ todo \in Seq(Nodes)
      /\ ht.node[1].image.tag <= nwrites /\ \A u \in Vers : disk.node[1][u].tag <= nwrites
  BY <1>v, <1>w DEF HInv, CommitInv, WriteBlock, Shape, Opened
<1>1. v \in Vers /\ Selected(v)
  BY <1>0 DEF Committed
<1>2. /\ blk \in Vers
      /\ disk'.head = disk.head /\ disk'.node = disk.node /\ nwrites' = nwrites + 1
      /\ \A m \in Nodes, u \in Vers :
            disk'.block[m][u] = IF m = n /\ u = blk THEN nwrites + 1 ELSE disk.block[m][u]
      /\ ht'.max = (IF n = 1 \/ n <= ht.max THEN ht.max ELSE n)
      /\ ht'.len = (IF n > ht.len THEN n ELSE ht.len)
      /\ ht'.counter = ht.counter /\ ht'.dirty = TRUE
      /\ \A m \in Nodes \ {n} :
            /\ ht'.node[m].image = ht.node[m].image
            /\ ht'.node[m].block_updated = ht.node[m].block_updated
            /\ ht'.node[m].dirty = (ht.node[m].dirty \/ (m = 1 /\ n > ht.len))
      /\ ht'.node[n].dirty = TRUE /\ ht'.node[n].block_updated = TRUE
      /\ ht'.node[n].image.blk = blk /\ ht'.node[n].image.tag = nwrites + 1
      /\ ht'.node[n].image.kid = x.image.kid /\ ht'.node[n].image.hash = x.image.hash
      /\ IsDisk(disk') /\ IsTree(ht')
  BY <1>0, WriteFacts
<1>3. /\ n \in Nat /\ n >= 1 /\ n <= NumNodes /\ NumNodes \in Nat /\ ht.len \in Nat /\ ht.max \in Nat
      /\ IF ht.max = 0 THEN ht.len <= 1 ELSE ht.len <= ht.max /\ ht.max <= ht.len + 1
  BY <1>0, Parents DEF IsTree, SizeOK, Nodes
<1>c. /\ IsTree(c) /\ c.node[1].image = disk.node[1][v] /\ c.len = disk.head[v].len
      /\ c.len \in Nat /\ c.max \in Nat
      /\ \A m \in 1..c.len : m \in Nodes /\ InTree(c, m)
  <2>1. IsTree(c) /\ c.node[1].image = disk.node[1][v] /\ c.len = disk.head[v].len
    BY <1>0, <1>1, LoadedTree, LoadedSizes
  <2> HIDE DEF c
  <2> QED BY <2>1, Sizes
<1>k. \A m \in Nodes : ht'.node[m].image.kid = ht.node[m].image.kid
  BY <1>2
<1>i. \A m \in Nat \ {n} : InTree(ht', m) => InTree(ht, m)
  BY <1>0, <1>2, <1>3 DEF InTree
<1>j. InTree(ht', n) /\ \A m \in Nat : InTree(ht, m) => InTree(ht', m)
  BY <1>2, <1>3 DEF InTree
<1>b. \A m \in Nodes : IsNode(ht.node[m]) /\ IsNode(c.node[m])
  BY <1>0, <1>c DEF IsTree
<1> HIDE DEF c
<1>4. DiskKept(v)
  <2>1. ASSUME NEW m \in 1..disk.head[v].len
        PROVE  disk'.block[m][c.node[m].image.blk] = disk.block[m][c.node[m].image.blk]
    <3>1. m \in Nodes /\ InTree(c, m) /\ c.node[m].image.blk \in Vers
      BY <1>c, <1>b DEF IsNode, IsImage
    <3>2. CASE m # n
      BY <1>2, <3>1, <3>2
    <3>3. CASE m = n
      <4>1. blk # c.node[m].image.blk
        BY <1>0, <1>2, <3>1, <3>3, <1>b DEF c, FollowsIdle, Flip, Vers, IsNode, IsImage
      <4> QED BY <1>2, <3>1, <4>1
    <3> QED BY <3>2, <3>3
  <2>2. useHash => disk'.node[1][Flip(v)].hash # anchor
    BY <1>1, <1>2 DEF Selected
  <2> QED BY <1>0, <1>2, <2>1, <2>2 DEF DiskKept, c
<1>5. /\ Loaded(disk', v) = c /\ Committed(v)' /\ HeadIdx' = v /\ Exists'
  BY <1>0, <1>1, <1>2, <1>4, CommitKept DEF c
<1>6. Shape'
  <2>1. nwrites' \in 0..MaxWrites
    BY <1>0, <1>2, FsHtreeAssumption
  <2>2. ht'.node[1].image.tag <= nwrites'
    <3>1. ht.node[1].image.tag \in Nat /\ nwrites \in Nat
      <4>1. IsImage(ht.node[1].image)
        BY <1>b, Parents DEF IsNode
      <4> QED BY <1>0, <4>1, FsHtreeAssumption DEF IsImage
    <3>2. CASE n = 1
      BY <1>2, <3>1, <3>2
    <3>3. CASE n # 1
      <4>1. ht'.node[1].image = ht.node[1].image
        BY <1>2, <3>3, Parents
      <4> QED BY <1>0, <1>2, <3>1, <4>1
    <3> QED BY <3>2, <3>3
  <2>3. \A u \in Vers : disk'.node[1][u].tag <= nwrites'
    <3> SUFFICES ASSUME NEW u \in Vers PROVE disk.node[1][u].tag <= nwrites + 1
      BY <1>2
    <3>1. disk.node[1][u].tag \in Nat /\ disk.node[1][u].tag <= nwrites /\ nwrites \in Nat
      <4>1. IsImage(disk.node[1][u])
        BY <1>0, Parents DEF IsDisk
      <4> QED BY <1>0, <4>1, FsHtreeAssumption DEF IsImage
    <3> QED BY <3>1
  <2> QED BY <1>0, <1>2, <2>1, <2>2, <2>3 DEF Shape
<1>7. HandleOK'
  <2>1. ASSUME NEW m \in 1..ht'.len PROVE BlockReadable(ht, m)'
    <3>0. m \in Nodes /\ m \in Nat
      BY <1>2, <1>3, Sizes, Parents
    <3>1. CASE m = n
      BY <1>2, <1>j, <3>1 DEF BlockReadable
    <3>2. CASE m # n
      <4>1. m \in 1..ht.len
        BY <1>0, <1>2, <1>3, <3>0, <3>2
      <4>2. BlockReadable(ht, m)
        BY <1>0, <4>1 DEF HandleOK
      <4>3. ht.node[m].image.blk \in Vers
        BY <1>b, <3>0 DEF IsNode, IsImage
      <4>4. disk'.block[m][ht.node[m].image.blk] = disk.block[m][ht.node[m].image.blk]
        BY <1>2, <3>0, <3>2, <4>3
      <4> QED BY <1>2, <1>j, <3>0, <3>2, <4>2, <4>4 DEF BlockReadable
    <3> QED BY <3>1, <3>2
  <2>2. ASSUME NEW m \in Nodes, InTree(ht', m), ~ht'.node[m].dirty,
               \A i \in Vers : InTree(ht', 2 * m + i) => ~ht'.node[2 * m + i].dirty
        PROVE  ht'.node[m].image.hash = HashOf(ht', m)
    <3>0. m \in Nat /\ m # n /\ \A i \in Vers : 2 * m + i \in Nat /\ 2 * m + i > 1
      BY <1>2, <2>2, Parents DEF Vers
    <3>1. InTree(ht, m) /\ ~ht.node[m].dirty /\ ~(m = 1 /\ n > ht.len)
      BY <1>2, <1>i, <2>2, <3>0
    <3>2. ASSUME NEW i \in Vers, InTree(ht', 2 * m + i)
          PROVE  2 * m + i # n /\ InTree(ht, 2 * m + i) /\ 2 * m + i \in Nodes
                 /\ ~ht.node[2 * m + i].dirty
      <4>1. 2 * m + i # n
        BY <1>2, <2>2, <3>2
      <4>2. InTree(ht, 2 * m + i)
        BY <1>i, <3>0, <3>2, <4>1
      <4>3. 2 * m + i \in Nodes
        BY <1>0, <3>0, <4>2, Sizes
      <4> QED BY <1>2, <2>2, <3>2, <4>1, <4>2, <4>3
    <3>3. \A i \in Vers : InTree(ht', 2 * m + i) = InTree(ht, 2 * m + i)
      BY <1>j, <3>0, <3>2 DEF InTree
    <3>4. ht.node[m].image.hash = HashOf(ht, m)
      BY <1>0, <3>1, <3>2, <3>3 DEF HandleOK, Clean
    <3>5. HashOf(ht', m) = HashOf(ht, m)
      <4>1. ht'.node[m].image = ht.node[m].image
        BY <1>2, <3>0
      <4>2. m = 1 => ht'.len = ht.len
        BY <1>2, <3>1
      <4>3. \A i \in Vers : InTree(ht, 2 * m + i) =>
               ht'.node[2 * m + i].image.hash = ht.node[2 * m + i].image.hash
        BY <1>2, <3>2, <3>3
      <4> QED BY <4>1, <4>2, <4>3, <3>3, HashKept
    <3> QED BY <1>2, <3>0, <3>4, <3>5
  <2>3. OnDisk(disk', ht')
    <3> SUFFICES ASSUME NEW m \in Nodes \ {1}, InTree(ht', m), ~ht'.node[m].dirty
                 PROVE  disk'.node[m][ht'.node[m \div 2].image.kid[m % 2]] = ht'.node[m].image
      BY DEF OnDisk
    <3>1. m # n /\ m \in Nat /\ m \div 2 \in Nodes
      BY <1>2, Parents
    <3>2. InTree(ht, m) /\ ~ht.node[m].dirty
      BY <1>2, <1>i, <3>1
    <3>3. disk.node[m][ht.node[m \div 2].image.kid[m % 2]] = ht.node[m].image
      BY <1>0, <3>2 DEF HandleOK, OnDisk
    <3> QED BY <1>2, <1>k, <3>1, <3>3
  <2> QED BY <2>1, <2>2, <2>3 DEF HandleOK, Clean
<1>8. Follows(v)'
  <2>1. ht'.counter = c.counter
    BY <1>0, <1>2 DEF c, Follows
  <2>2. ASSUME NEW m \in Nodes \ {1}, InTree(c, m \div 2)
        PROVE  ht'.node[m \div 2].image.kid[m % 2] = c.node[m \div 2].image.kid[m % 2]
    <3>1. m \div 2 \in Nodes /\ m \div 2 \in Nat
      BY Parents
    <3>2. InTree(ht, m \div 2)
      BY <1>0, <1>3, <1>c, <2>2, <3>1 DEF c, FollowsIdle, InTree
    <3> QED BY <1>0, <1>k, <2>2, <3>1, <3>2 DEF c, Follows
  <2>3. ASSUME ht'.node[1].dirty
        PROVE  \/ ht'.node[1].image.tag # c.node[1].image.tag
               \/ ht'.len # c.len \/ ht'.node[1].image.kid # c.node[1].image.kid
    <3>1. CASE n = 1
      <4>1. disk.node[1][v].tag \in Nat /\ disk.node[1][v].tag <= nwrites /\ nwrites \in Nat
        <5>1. IsImage(disk.node[1][v])
          BY <1>0, <1>1, Parents DEF IsDisk
        <5> QED BY <1>0, <1>1, <5>1, FsHtreeAssumption DEF IsImage
      <4> QED BY <1>2, <1>c, <3>1, <4>1
    <3>2. CASE n > ht.len
      BY <1>0, <1>2, <1>3, <1>c, <3>2 DEF c, FollowsIdle
    <3>3. CASE n # 1 /\ ~(n > ht.len)
      <4>1. ht.node[1].dirty
        BY <1>2, <2>3, <3>3, Parents
      <4>2. RootDiffers(v)
        BY <1>0, <4>1 DEF c, Follows
      <4>3. ht'.node[1].image = ht.node[1].image /\ ht'.len = ht.len
        BY <1>2, <3>3, Parents
      <4> QED BY <4>2, <4>3 DEF c, RootDiffers
    <3> QED BY <3>1, <3>2, <3>3
  <2>4. Loaded(disk, v)' = c
    BY <1>5 DEF c
  <2> QED BY <2>1, <2>2, <2>3, <2>4 DEF Follows, RootDiffers
<1>9. FollowsIdle(v)'
  <2>1. SomeDirty'
    BY <1>2, <1>j DEF SomeDirty
  <2>2. ht'.max >= c.max /\ ht'.len >= c.len
    BY <1>0, <1>2, <1>3, <1>c DEF c, FollowsIdle
  <2>3. ASSUME NEW m \in Nodes, InTree(c, m)
        PROVE  IF ht'.node[m].block_updated
               THEN ht'.node[m].image.blk # c.node[m].image.blk
               ELSE ht'.node[m].image.blk = c.node[m].image.blk
    <3>1. CASE m # n
      BY <1>0, <1>2, <2>3, <3>1 DEF c, FollowsIdle
    <3>2. CASE m = n
      BY <1>0, <1>2, <2>3, <3>2, <1>b DEF c, FollowsIdle, Flip, Vers, IsNode, IsImage
    <3> QED BY <3>1, <3>2
  <2>4. Loaded(disk, v)' = c
    BY <1>5 DEF c
  <2> QED BY <1>2, <2>1, <2>2, <2>3, <2>4 DEF FollowsIdle
<1>10. ExistsOK'
  BY <1>0, <1>5 DEF ExistsOK
<1>11. CommitInv(v)'
  BY <1>0, <1>5, <1>8, <1>9 DEF CommitInv
<1> QED BY <1>0, <1>6, <1>7, <1>10, <1>11 DEF HInv

-----------------------------------------------------------------------------
(* The nodes are written.                                                  *)

\* The traversal goes one node further.
LEMMA TodoTail ==
    ASSUME todo \in Seq(Nodes), todo # <<>>, PostOrdered(todo), todo' = Tail(todo),
           NEW n, n = Head(todo)
    PROVE  /\ n \in Nodes /\ todo' \in Seq(Nodes) /\ PostOrdered(todo')
           /\ Todo(1) /\ Todo(n) /\ ~Todo(n)'
           /\ \A m \in Nodes : Todo(m)' => Todo(m)
           /\ \A m \in Nodes : Todo(m) /\ m # n => Todo(m)'
           /\ n # 1 => Todo(n \div 2)'
           /\ n = 1 => \A m \in Nodes : Todo(m) => m = 1
           /\ \A m \in Nodes \ {1} : m \div 2 = n => ~Todo(m)
<1> DEFINE s == todo
           t == Tail(todo)
           L == Len(todo)
<1>1. /\ L \in Nat /\ L >= 1 /\ DOMAIN s = 1..L /\ s[1] = n /\ \A i \in 1..L : s[i] \in Nodes
      /\ n \in Nodes
  BY ElementOfSeq
<1>2. /\ t \in Seq(Nodes) /\ Len(t) = L - 1 /\ DOMAIN t = 1..(L - 1)
      /\ \A i \in 1..(L - 1) : t[i] = s[i + 1]
  OBVIOUS
<1>3. /\ s[L] = 1
      /\ \A i \in 1..L : s[i] # 1 => \E j \in 1..L : j > i /\ s[j] = s[i] \div 2
      /\ \A i, j \in 1..L : i < j => s[i] # s[j] /\ s[j] \div 2 # s[i]
  BY DEF PostOrdered
<1>4. \A i \in 1..(L - 1) : i + 1 \in 1..L
  BY <1>1
<1>5. \A j \in 1..L : j > 1 => j - 1 \in 1..(L - 1) /\ t[j - 1] = s[j]
  BY <1>1, <1>2
<1>t. \A m : Todo(m)' <=> \E i \in 1..(L - 1) : t[i] = m
  BY <1>2 DEF Todo
<1>s. \A m : Todo(m) <=> \E i \in 1..L : s[i] = m
  BY <1>1 DEF Todo
<1> HIDE DEF s, t, L
<1>6. PostOrdered(t)
  <2>1. t # <<>> => t[Len(t)] = 1
    BY <1>1, <1>2, <1>3, <1>5
  <2>2. ASSUME NEW i \in 1..Len(t), t[i] # 1
        PROVE  \E j \in 1..Len(t) : j > i /\ t[j] = t[i] \div 2
    <3>1. i + 1 \in 1..L /\ t[i] = s[i + 1] /\ i \in Nat
      BY <1>1, <1>2, <1>4
    <3>2. PICK j \in 1..L : j > i + 1 /\ s[j] = s[i + 1] \div 2
      BY <1>3, <2>2, <3>1
    <3>3. j - 1 \in 1..Len(t) /\ j - 1 > i /\ t[j - 1] = t[i] \div 2
      BY <1>1, <1>2, <1>5, <3>1, <3>2
    <3> QED BY <3>3
  <2>3. ASSUME NEW i \in 1..Len(t), NEW j \in 1..Len(t), i < j
        PROVE  t[i] # t[j] /\ t[j] \div 2 # t[i]
    <3>1. i + 1 \in 1..L /\ j + 1 \in 1..L /\ i + 1 < j + 1 /\ t[i] = s[i + 1] /\ t[j] = s[j + 1]
      BY <1>1, <1>2, <1>4, <2>3
    <3> QED BY <1>3, <3>1
  <2> QED BY <2>1, <2>2, <2>3 DEF PostOrdered
<1>7. Todo(1) /\ Todo(n) /\ ~Todo(n)'
  <2>1. ASSUME NEW i \in 1..(L - 1) PROVE t[i] # n
    <3>1. i + 1 \in 1..L /\ 1 \in 1..L /\ 1 < i + 1
      BY <1>1, <1>4
    <3> QED BY <1>1, <1>2, <1>3, <3>1
  <2>2. 1 \in 1..L /\ L \in 1..L
    BY <1>1
  <2> QED BY <1>1, <1>3, <1>s, <1>t, <2>1, <2>2
<1>8. ASSUME NEW m \in Nodes, Todo(m)' PROVE Todo(m)
  BY <1>2, <1>4, <1>8, <1>s, <1>t
<1>9. ASSUME NEW m \in Nodes, Todo(m), m # n PROVE Todo(m)'
  <2>1. PICK i \in 1..L : s[i] = m
    BY <1>9, <1>s
  <2>2. i > 1
    BY <1>1, <1>9, <2>1
  <2> QED BY <1>5, <1>t, <2>1, <2>2
<1>10. ASSUME n # 1 PROVE Todo(n \div 2)'
  <2>1. 1 \in 1..L
    BY <1>1
  <2>2. PICK j \in 1..L : j > 1 /\ s[j] = n \div 2
    BY <1>1, <1>3, <1>10, <2>1
  <2> QED BY <1>5, <1>t, <2>2
<1>11. ASSUME n = 1, NEW m \in Nodes, Todo(m) PROVE m = 1
  <2>1. L = 1
    <3> SUFFICES ASSUME L > 1 PROVE FALSE
      BY <1>1
    <3>1. 1 \in 1..L /\ L \in 1..L
      BY <1>1
    <3> QED BY <1>1, <1>3, <1>11, <3>1
  <2> QED BY <1>1, <1>11, <1>s, <2>1
<1>12. ASSUME NEW m \in Nodes \ {1}, m \div 2 = n, Todo(m) PROVE FALSE
  <2>1. PICK i \in 1..L : s[i] = m
    BY <1>12, <1>s
  <2>2. m # n
    BY <1>12, Parents
  <2>3. i > 1 /\ 1 \in 1..L
    BY <1>1, <2>1, <2>2
  <2> QED BY <1>1, <1>3, <1>12, <2>1, <2>3
<1> QED BY <1>1, <1>2, <1>6, <1>7, <1>8, <1>9, <1>10, <1>11, <1>12 DEF s, t

\* What htree_sync_node_to_storage of node n does, when k is the version that
\* is written.
NodeSynced(n, k) ==
    /\ disk'.head = disk.head /\ disk'.block = disk.block /\ k \in Vers
    /\ \A m \in Nodes, u \in Vers :
          disk'.node[m][u] = IF m = n /\ u = k THEN ht'.node[n].image ELSE disk.node[m][u]
    /\ ht'.max = ht.max /\ ht'.len = ht.len /\ ht'.counter = ht.counter /\ ht'.dirty = ht.dirty
    /\ ht'.node[n].dirty = FALSE /\ ht'.node[n].block_updated = FALSE
    /\ ht'.node[n].image.hash = HashOf(ht, n)
    /\ \A m \in Nodes : /\ ht'.node[m].image.blk = ht.node[m].image.blk
                        /\ ht'.node[m].image.tag = ht.node[m].image.tag
    /\ \A m \in Nodes \ {n} : ht'.node[m].image.hash = ht.node[m].image.hash
    /\ IsDisk(disk') /\ IsTree(ht')

\* Version k of node n is written.
WriteNode(d, n, k, y) == [d EXCEPT !.node[n][k] = y]

\* Disk e is disk d with version k of node n written.
NodeWrite(d, e, n, k, y) ==
    /\ e.head = d.head /\ e.block = d.block /\ IsDisk(e)
    /\ \A m \in Nodes, u \in Vers :
          e.node[m][u] = IF m = n /\ u = k THEN y ELSE d.node[m][u]

\* WriteNode writes that version and nothing else.
LEMMA NodeWritten ==
    ASSUME NEW d, IsDisk(d), NEW n \in Nodes, NEW k \in Vers, NEW y, IsImage(y)
    PROVE  NodeWrite(d, WriteNode(d, n, k, y), n, k, y)
<1> DEFINE e == WriteNode(d, n, k, y)
<1>0. e = [d EXCEPT !.node[n][k] = y]
  BY DEF WriteNode
<1> HIDE DEF e
<1>1. /\ e.head = d.head /\ e.block = d.block
      /\ e.node = [d.node EXCEPT ![n][k] = y]
      /\ e = [head |-> d.head, node |-> e.node, block |-> d.block]
  BY <1>0 DEF IsDisk
<1>2. /\ e.node[n] = [d.node[n] EXCEPT ![k] = y]
      /\ \A m \in Nodes \ {n} : e.node[m] = d.node[m]
      /\ e.node = [m \in Nodes |-> e.node[m]]
  <2>1. d.node = [m \in Nodes |-> d.node[m]]
    BY DEF IsDisk
  <2> QED BY <1>1, <2>1
<1>3. \A m \in Nodes : d.node[m] = [u \in Vers |-> d.node[m][u]]
  BY DEF IsDisk
<1>4. /\ e.node[n] = [u \in Vers |-> e.node[n][u]]
      /\ \A u \in Vers : e.node[n][u] = IF u = k THEN y ELSE d.node[n][u]
  <2> DEFINE f == d.node[n]
             g == [f EXCEPT ![k] = y]
  <2>1. f = [u \in Vers |-> f[u]] /\ e.node[n] = g
    BY <1>2, <1>3
  <2>2. g = [u \in Vers |-> g[u]] /\ \A u \in Vers : g[u] = IF u = k THEN y ELSE f[u]
    <3> HIDE DEF f
    <3> QED BY <2>1
  <2> QED BY <2>1, <2>2
<1>5. ASSUME NEW m \in Nodes
      PROVE  /\ e.node[m] = [u \in Vers |-> e.node[m][u]]
             /\ \A u \in Vers : e.node[m][u] = IF m = n /\ u = k THEN y ELSE d.node[m][u]
  <2>1. CASE m = n
    BY <1>4, <2>1
  <2>2. CASE m # n
    BY <1>2, <1>3, <2>2
  <2> QED BY <2>1, <2>2
<1>6. IsDisk(e)
  <2>1. \A m \in Nodes, u \in Vers : IsImage(e.node[m][u])
    BY <1>5 DEF IsDisk
  <2>2. /\ e.head = [u \in Vers |-> e.head[u]]
        /\ \A u \in Vers : IsHead(e.head[u])
        /\ e.block \in [Nodes -> [Vers -> 0..MaxWrites]]
    BY <1>1 DEF IsDisk
  <2> QED BY <1>1, <1>2, <1>5, <2>1, <2>2 DEF IsDisk
<1> QED BY <1>1, <1>5, <1>6 DEF NodeWrite, e

\* htree_sync_node_to_storage of the root.
LEMMA SyncRootFacts ==
    ASSUME Shape, SyncNode, Head(todo) = 1, ht.node[1].dirty
    PROVE  /\ NodeSynced(1, Flip(ht.counter % 2))
           /\ \A m \in Nodes \ {1} : ht'.node[m] = ht.node[m]
           /\ \A m \in Nodes : ht'.node[m].image.kid = ht.node[m].image.kid
<1> DEFINE k == Flip(ht.counter % 2)
           x == ht.node[1].image
           y == [x EXCEPT !.hash = HashOf(ht, 1)]
<1>t. /\ IsTree(ht) /\ IsDisk(disk) /\ IsNode(ht.node[1]) /\ IsImage(x) /\ 1 \in Nodes
      /\ InTree(ht, 1)
  BY Parents DEF Shape, IsTree, IsNode, InTree
<1>0. /\ ht' = [ht EXCEPT !.node[1] = CleanNode(y)]
      /\ disk' = [disk EXCEPT !.node[1][k] = y]
  BY <1>t DEF SyncNode
<1>1. k \in Vers
  BY <1>t, FsHtreeAssumption DEF IsTree, Flip, Vers
<1> HIDE DEF k
<1>2. /\ y.blk = x.blk /\ y.kid = x.kid /\ y.tag = x.tag /\ y.hash = HashOf(ht, 1)
      /\ y = [blk |-> y.blk, kid |-> y.kid, tag |-> y.tag, hash |-> y.hash]
  BY <1>t DEF IsImage
<1>3. IsImage(y)
  <2> HIDE DEF y
  <2> QED BY <1>2, <1>t DEF IsImage
<1> HIDE DEF y
<1>4. IsNode(CleanNode(y)) /\ CleanNode(y).image = y /\ CleanNode(y).dirty = FALSE
      /\ CleanNode(y).block_updated = FALSE
  BY <1>3 DEF IsNode, CleanNode
<1>5. /\ ht'.max = ht.max /\ ht'.len = ht.len /\ ht'.counter = ht.counter /\ ht'.dirty = ht.dirty
      /\ ht'.node = [ht.node EXCEPT ![1] = CleanNode(y)]
      /\ ht' = [max |-> ht.max, len |-> ht.len, counter |-> ht.counter, dirty |-> ht.dirty,
                node |-> ht'.node]
  BY <1>0, <1>t DEF IsTree
<1>6. /\ ht'.node[1] = CleanNode(y) /\ \A m \in Nodes \ {1} : ht'.node[m] = ht.node[m]
      /\ ht'.node = [m \in Nodes |-> ht'.node[m]]
  BY <1>5, <1>t DEF IsTree
<1>7. IsTree(ht')
  <2>1. \A m \in Nodes : IsNode(ht'.node[m])
    BY <1>4, <1>6, <1>t DEF IsTree
  <2>2. \A m \in Nodes : ~InTree(ht', m) => ht'.node[m] = FreshNode
    BY <1>5, <1>6, <1>t DEF IsTree, InTree
  <2>3. SizeOK(ht'.len, ht'.max) /\ ht'.counter \in 0..MaxCounter /\ ht'.dirty \in BOOLEAN
    BY <1>5, <1>t DEF IsTree
  <2> QED BY <1>5, <1>6, <2>1, <2>2, <2>3 DEF IsTree
<1>8. /\ disk'.head = disk.head /\ disk'.block = disk.block /\ IsDisk(disk')
      /\ \A m \in Nodes, u \in Vers :
            disk'.node[m][u] = IF m = 1 /\ u = k THEN y ELSE disk.node[m][u]
  <2>1. disk' = WriteNode(disk, 1, k, y)
    BY <1>0, Zenon DEF WriteNode
  <2>2. NodeWrite(disk, disk', 1, k, y)
    BY <1>1, <1>3, <1>t, <2>1, NodeWritten
  <2> QED BY <2>2 DEF NodeWrite
<1>11. \A m \in Nodes : /\ ht'.node[m].image.blk = ht.node[m].image.blk
                        /\ ht'.node[m].image.tag = ht.node[m].image.tag
                        /\ ht'.node[m].image.kid = ht.node[m].image.kid
  BY <1>2, <1>4, <1>6
<1> QED BY <1>1, <1>2, <1>4, <1>5, <1>6, <1>7, <1>8, <1>11 DEF NodeSynced, k

\* Node p names the other version of its child i.
FlipKid(h, p, i) == [h EXCEPT !.node[p] = NamesOther(@, i)]

\* Tree g is tree h with that change.
KidFlipped(h, g, p, i) ==
    /\ g = [max |-> h.max, len |-> h.len, counter |-> h.counter, dirty |-> h.dirty,
            node |-> g.node]
    /\ g.node = [m \in Nodes |-> g.node[m]] /\ IsNode(g.node[p])
    /\ \A m \in Nodes \ {p} : g.node[m] = h.node[m]
    /\ g.node[p].dirty = TRUE /\ g.node[p].block_updated = h.node[p].block_updated
    /\ g.node[p].image.blk = h.node[p].image.blk
    /\ g.node[p].image.tag = h.node[p].image.tag
    /\ g.node[p].image.hash = h.node[p].image.hash
    /\ g.node[p].image.kid[i] = Flip(h.node[p].image.kid[i])
    /\ \A j \in Vers \ {i} : g.node[p].image.kid[j] = h.node[p].image.kid[j]

\* FlipKid makes that change and no other.
LEMMA FlipFacts ==
    ASSUME NEW h, IsTree(h), NEW p \in Nodes, NEW i \in Vers
    PROVE  KidFlipped(h, FlipKid(h, p, i), p, i)
<1> DEFINE g == FlipKid(h, p, i)
           x == h.node[p]
           kid == [x.image.kid EXCEPT ![i] = Flip(@)]
           y == NamesOther(x, i)
<1>1. IsNode(x) /\ IsImage(x.image) /\ x.image.kid \in [Vers -> Vers]
  BY DEF IsTree, IsNode, IsImage
<1>2. /\ kid \in [Vers -> Vers] /\ kid[i] = Flip(x.image.kid[i])
      /\ \A j \in Vers \ {i} : kid[j] = x.image.kid[j]
  BY <1>1 DEF Flip, Vers
<1>3. /\ y = [image |-> y.image, dirty |-> TRUE, block_updated |-> x.block_updated]
      /\ y.dirty = TRUE /\ y.block_updated = x.block_updated
      /\ y.image = [x.image EXCEPT !.kid = kid]
  BY DEF NamesOther
<1>6. /\ y.image.blk = x.image.blk /\ y.image.tag = x.image.tag
      /\ y.image.hash = x.image.hash /\ y.image.kid = kid
      /\ y.image = [blk |-> y.image.blk, kid |-> y.image.kid, tag |-> y.image.tag,
                    hash |-> y.image.hash]
  <2> HIDE DEF y, kid
  <2> QED BY <1>1, <1>3 DEF IsImage
<1>5. IsNode(y)
  <2> HIDE DEF y, kid
  <2>1. IsImage(y.image)
    BY <1>1, <1>2, <1>6 DEF IsImage
  <2> QED BY <1>1, <1>3, <2>1 DEF IsNode
<1> HIDE DEF y, kid
<1>7. /\ g = [max |-> h.max, len |-> h.len, counter |-> h.counter, dirty |-> h.dirty,
              node |-> g.node]
      /\ g.node = [h.node EXCEPT ![p] = y]
  BY DEF IsTree, y, FlipKid
<1> HIDE DEF g
<1>8. /\ g.node = [m \in Nodes |-> g.node[m]] /\ g.node[p] = y
      /\ \A m \in Nodes \ {p} : g.node[m] = h.node[m]
  BY <1>7 DEF IsTree
<1> QED BY <1>2, <1>3, <1>5, <1>6, <1>7, <1>8 DEF KidFlipped, g

\* htree_sync_node_to_storage of a node that has a parent.
LEMMA SyncKidFacts ==
    ASSUME Shape, SyncNode, NEW n \in Nodes \ {1}, n = Head(todo), InTree(ht, n),
           ht.node[n].dirty
    PROVE  LET p == n \div 2
               k == Flip(ht.node[p].image.kid[n % 2])
           IN  /\ NodeSynced(n, k)
               /\ \A m \in Nodes \ {n, p} : ht'.node[m] = ht.node[m]
               /\ ht'.node[p].dirty = TRUE
               /\ ht'.node[p].block_updated = ht.node[p].block_updated
               /\ ht'.node[p].image.kid[n % 2] = k
               /\ \A j \in Vers \ {n % 2} :
                     ht'.node[p].image.kid[j] = ht.node[p].image.kid[j]
               /\ \A m \in Nodes \ {p} : ht'.node[m].image.kid = ht.node[m].image.kid
<1> DEFINE p == n \div 2
           k == Flip(ht.node[p].image.kid[n % 2])
           g == [ht EXCEPT !.node[p] = NamesOther(@, n % 2)]
           x == ht.node[n].image
           y == [g.node[n].image EXCEPT !.hash = HashOf(g, n)]
<1>t. /\ IsTree(ht) /\ IsDisk(disk) /\ IsNode(ht.node[n]) /\ IsImage(x) /\ p \in Nodes /\ p # n
      /\ n \in Nat /\ p \in Nat /\ n % 2 \in Vers /\ p < n
  <2>1. p \in Nodes /\ n \in Nat /\ p \in Nat /\ n % 2 \in Vers /\ p < n
    BY Parents
  <2>2. IsTree(ht) /\ IsDisk(disk) /\ IsNode(ht.node[n])
    BY DEF Shape, IsTree
  <2> QED BY <2>1, <2>2 DEF IsNode
<1>0. /\ ht' = [g EXCEPT !.node[n] = CleanNode(y)]
      /\ disk' = [disk EXCEPT !.node[n][g.node[p].image.kid[n % 2]] = y]
  BY DEF SyncNode
<1>1. /\ g = [max |-> ht.max, len |-> ht.len, counter |-> ht.counter, dirty |-> ht.dirty,
              node |-> g.node]
      /\ g.node = [m \in Nodes |-> g.node[m]] /\ IsNode(g.node[p])
      /\ \A m \in Nodes \ {p} : g.node[m] = ht.node[m]
      /\ g.node[p].dirty = TRUE /\ g.node[p].block_updated = ht.node[p].block_updated
      /\ g.node[p].image.blk = ht.node[p].image.blk
      /\ g.node[p].image.tag = ht.node[p].image.tag
      /\ g.node[p].image.hash = ht.node[p].image.hash
      /\ g.node[p].image.kid[n % 2] = k
      /\ \A j \in Vers \ {n % 2} : g.node[p].image.kid[j] = ht.node[p].image.kid[j]
  <2>1. g = FlipKid(ht, p, n % 2)
    BY Zenon DEF FlipKid
  <2> HIDE DEF g, p
  <2>2. IsTree(ht) /\ p \in Nodes /\ n % 2 \in Vers
    BY <1>t
  <2>3. KidFlipped(ht, g, p, n % 2)
    BY <2>1, <2>2, FlipFacts
  <2> QED BY <2>3 DEF KidFlipped, k
<1>k. k \in Vers
  <2>1. ht.node[p].image.kid[n % 2] \in Vers
    <3>1. IsImage(ht.node[p].image)
      BY <1>t DEF IsTree, IsNode
    <3> QED BY <1>t, <3>1 DEF IsImage
  <2> QED BY <2>1 DEF Flip, Vers
<1>h. HashOf(g, n) = HashOf(ht, n)
  <2> HIDE DEF g, p
  <2>1. g.node[n] = ht.node[n] /\ g.len = ht.len /\ g.max = ht.max
    BY <1>1, <1>t
  <2>2. \A i \in Vers : InTree(g, 2 * n + i) = InTree(ht, 2 * n + i)
    BY <2>1 DEF InTree
  <2>3. ASSUME NEW i \in Vers, InTree(ht, 2 * n + i)
        PROVE  g.node[2 * n + i].image.hash = ht.node[2 * n + i].image.hash
    <3>1. 2 * n + i \in Nat /\ 2 * n + i > 1 /\ 2 * n + i # p
      BY <1>t DEF Vers
    <3>2. 2 * n + i \in Nodes
      BY <1>t, <2>3, <3>1, Sizes
    <3> QED BY <1>1, <3>1, <3>2
  <2> QED BY <2>1, <2>2, <2>3, HashKept
<1> HIDE DEF g, p, k
<1>2. /\ y.blk = x.blk /\ y.kid = x.kid /\ y.tag = x.tag /\ y.hash = HashOf(ht, n)
      /\ y = [blk |-> y.blk, kid |-> y.kid, tag |-> y.tag, hash |-> y.hash]
  <2>1. g.node[n].image = x
    BY <1>1, <1>t
  <2> QED BY <1>h, <1>t, <2>1 DEF IsImage
<1>3. IsImage(y)
  <2> HIDE DEF y
  <2> QED BY <1>2, <1>t DEF IsImage
<1> HIDE DEF y
<1>4. IsNode(CleanNode(y)) /\ CleanNode(y).image = y /\ CleanNode(y).dirty = FALSE
      /\ CleanNode(y).block_updated = FALSE
  BY <1>3 DEF IsNode, CleanNode
<1>5. /\ ht'.max = ht.max /\ ht'.len = ht.len /\ ht'.counter = ht.counter /\ ht'.dirty = ht.dirty
      /\ ht'.node = [g.node EXCEPT ![n] = CleanNode(y)]
      /\ ht' = [max |-> ht.max, len |-> ht.len, counter |-> ht.counter, dirty |-> ht.dirty,
                node |-> ht'.node]
  BY <1>0, <1>1
<1>6. /\ ht'.node[n] = CleanNode(y) /\ \A m \in Nodes \ {n} : ht'.node[m] = g.node[m]
      /\ ht'.node = [m \in Nodes |-> ht'.node[m]]
  BY <1>5, <1>1
<1>p. ht'.node[p] = g.node[p] /\ \A m \in Nodes \ {n, p} : ht'.node[m] = ht.node[m]
  BY <1>1, <1>6, <1>t
<1>7. IsTree(ht')
  <2>1. ASSUME NEW m \in Nodes PROVE IsNode(ht'.node[m])
    <3>1. CASE m = n
      BY <1>4, <1>6, <3>1
    <3>2. CASE m = p
      BY <1>1, <1>p, <3>2
    <3>3. CASE m # n /\ m # p
      BY <1>p, <1>t, <3>3 DEF IsTree
    <3> QED BY <3>1, <3>2, <3>3
  <2>2. ASSUME NEW m \in Nodes, ~InTree(ht', m) PROVE ht'.node[m] = FreshNode
    <3>1. ~InTree(ht, m)
      BY <1>5, <2>2 DEF InTree
    <3>2. InTree(ht, p)
      BY <1>t, Sizes DEF InTree
    <3> QED BY <1>p, <1>t, <3>1, <3>2 DEF IsTree
  <2>3. SizeOK(ht'.len, ht'.max) /\ ht'.counter \in 0..MaxCounter /\ ht'.dirty \in BOOLEAN
    BY <1>5, <1>t DEF IsTree
  <2> QED BY <1>5, <1>6, <2>1, <2>2, <2>3 DEF IsTree
<1>8. /\ disk'.head = disk.head /\ disk'.block = disk.block /\ IsDisk(disk')
      /\ \A m \in Nodes, u \in Vers :
            disk'.node[m][u] = IF m = n /\ u = k THEN y ELSE disk.node[m][u]
  <2>1. disk' = WriteNode(disk, n, k, y)
    BY <1>0, <1>1, Zenon DEF WriteNode
  <2>2. IsDisk(disk) /\ n \in Nodes
    BY <1>t
  <2>3. NodeWrite(disk, disk', n, k, y)
    BY <1>3, <1>k, <2>1, <2>2, NodeWritten
  <2> QED BY <2>3 DEF NodeWrite
<1>11. ASSUME NEW m \in Nodes
       PROVE  /\ ht'.node[m].image.blk = ht.node[m].image.blk
              /\ ht'.node[m].image.tag = ht.node[m].image.tag
              /\ m # n => ht'.node[m].image.hash = ht.node[m].image.hash
              /\ m # p => ht'.node[m].image.kid = ht.node[m].image.kid
  <2>1. CASE m = n
    BY <1>2, <1>4, <1>6, <2>1
  <2>2. CASE m = p
    BY <1>1, <1>p, <2>2
  <2>3. CASE m # n /\ m # p
    BY <1>p, <2>3
  <2> QED BY <2>1, <2>2, <2>3
<1>12. NodeSynced(n, k)
  BY <1>2, <1>4, <1>5, <1>6, <1>7, <1>8, <1>11, <1>k DEF NodeSynced
<1>13. /\ ht'.node[p].dirty = TRUE
       /\ ht'.node[p].block_updated = ht.node[p].block_updated
       /\ ht'.node[p].image.kid[n % 2] = k
       /\ \A j \in Vers \ {n % 2} : ht'.node[p].image.kid[j] = ht.node[p].image.kid[j]
  BY <1>1, <1>p
<1>14. \A m \in Nodes \ {p} : ht'.node[m].image.kid = ht.node[m].image.kid
  BY <1>11
<1> QED BY <1>p, <1>12, <1>13, <1>14, Zenon DEF p, k

\* What the invariant says during a sync.
LEMMA SyncStart ==
    ASSUME HInv, pc = "sync"
    PROVE  /\ Shape /\ SyncOK /\ HandleOK /\ ExistsOK /\ IsTree(ht) /\ IsDisk(disk)
           /\ todo \in Seq(Nodes) /\ useHash \in BOOLEAN /\ nwrites \in 0..MaxWrites
           /\ ht.counter \in Nat /\ ht.len \in Nat /\ ht.max \in Nat
           /\ Exists => \E v \in Vers : CommitInv(v)
<1>1. ht.counter \in Nat /\ ht.len \in Nat /\ ht.max \in Nat
  BY FsHtreeAssumption DEF HInv, Shape, IsTree, SizeOK
<1> QED BY <1>1 DEF HInv, Shape, Opened

\* A clean node is passed over.
LEMMA SkipNodeInv ==
    ASSUME HInv, SyncNode, ~(InTree(ht, Head(todo)) /\ ht.node[Head(todo)].dirty)
    PROVE  HInv'
<1> DEFINE n == Head(todo)
<1>1. /\ pc = "sync" /\ todo # <<>> /\ todo' = Tail(todo)
      /\ UNCHANGED <<ht, disk, pc, anchor, useHash, nwrites>>
  BY DEF SyncNode
<1>2. PICK k : k = Head(todo)
  OBVIOUS
<1>3. /\ Shape /\ SyncOK /\ HandleOK /\ ExistsOK /\ IsTree(ht) /\ IsDisk(disk)
      /\ todo \in Seq(Nodes) /\ PostOrdered(todo)
      /\ Exists => \E v \in Vers : CommitInv(v)
  BY <1>1, SyncStart DEF SyncOK
<1>4. /\ k \in Nodes /\ todo' \in Seq(Nodes) /\ PostOrdered(todo') /\ Todo(1)
      /\ \A m \in Nodes : Todo(m)' => Todo(m)
      /\ \A m \in Nodes : Todo(m) /\ m # k => Todo(m)'
      /\ k = 1 => \A m \in Nodes : Todo(m) => m = 1
  BY <1>1, <1>2, <1>3, TodoTail
<1>5. ~ht.node[k].dirty
  <2>1. CASE InTree(ht, k)
    BY <1>2, <2>1
  <2>2. CASE ~InTree(ht, k)
    BY <1>3, <1>4, <2>2 DEF IsTree, FreshNode, CleanNode
  <2> QED BY <2>1, <2>2
<1>6. Exists' = Exists /\ HeadIdx' = HeadIdx /\ ExistsOK'
  BY <1>1, <1>3 DEF Exists, HeadIdx, ExistsOK
<1>7. Shape' /\ HandleOK'
  <2>1. Shape'
    BY <1>1, <1>3, <1>4 DEF Shape, IsDisk, IsTree
  <2>2. HandleOK'
    BY <1>1, <1>3 DEF HandleOK, BlockReadable, Clean
  <2> QED BY <2>1, <2>2
<1>8. SyncOK'
  <2>1. \A m \in Nodes : ht'.node[m].dirty => Todo(m)'
    BY <1>1, <1>3, <1>4, <1>5 DEF SyncOK
  <2>2. SomeDirty'
    BY <1>1, <1>3, <1>4 DEF SyncOK, SomeDirty
  <2>3. Todo(1)'
    <3>1. PICK m \in Nodes : InTree(ht, m) /\ ht.node[m].dirty
      BY <1>3, <1>4 DEF SyncOK, SomeDirty
    <3>2. Todo(m) /\ m # k
      BY <1>3, <1>5, <3>1 DEF SyncOK
    <3>3. k # 1
      BY <1>4, <3>2
    <3> QED BY <1>4, <3>3, Parents
  <2>4. /\ ht'.counter < MaxCounter
        /\ ht'.counter = 0 => disk'.node[1][0] = ZeroNode /\ disk'.head = [v \in Vers |-> ZeroHead]
    BY <1>1, <1>3 DEF SyncOK
  <2> QED BY <1>4, <2>1, <2>2, <2>3, <2>4 DEF SyncOK
<1>9. ASSUME NEW v \in Vers, CommitInv(v) PROVE CommitInv(v)'
  <2>1. Committed(v)'
    <3>1. Committed(v)
      BY <1>9 DEF CommitInv
    <3> QED BY <1>1, <3>1 DEF Committed, Selected, Verified, BlockReadable
  <2>2. Follows(v)'
    <3>1. Follows(v)
      BY <1>1, <1>9 DEF CommitInv
    <3> QED BY <1>1, <1>4, <3>1 DEF Follows, RootDiffers
  <2> QED BY <1>1, <1>6, <1>9, <2>1, <2>2 DEF CommitInv
<1> QED BY <1>1, <1>3, <1>6, <1>7, <1>8, <1>9 DEF HInv

\* Writing a node keeps the shape of the state.
LEMMA SyncedShape ==
    ASSUME Shape, pc' = pc, useHash' = useHash, nwrites' = nwrites, todo' \in Seq(Nodes),
           NEW n \in Nodes, NEW k, NodeSynced(n, k)
    PROVE  Shape'
<1>1. ht'.node[1].image.tag <= nwrites
  BY Parents DEF Shape, NodeSynced
<1>2. ASSUME NEW u \in Vers PROVE disk'.node[1][u].tag <= nwrites
  <2>1. CASE n = 1 /\ u = k
    BY <1>1, <2>1, Parents DEF NodeSynced
  <2>2. CASE ~(n = 1 /\ u = k)
    BY <2>2, Parents DEF NodeSynced, Shape
  <2> QED BY <2>1, <2>2
<1> QED BY <1>1, <1>2 DEF Shape, NodeSynced

\* Writing a node keeps the blocks readable.
LEMMA SyncedBlocks ==
    ASSUME IsTree(ht), HandleOK, NEW n \in Nodes, NEW k, NodeSynced(n, k)
    PROVE  \A m \in 1..ht'.len : BlockReadable(ht, m)'
<1> SUFFICES ASSUME NEW m \in 1..ht.len PROVE BlockReadable(ht, m)'
  BY DEF NodeSynced
<1>1. m \in Nodes /\ BlockReadable(ht, m)
  BY Sizes DEF HandleOK
<1> QED BY <1>1 DEF BlockReadable, NodeSynced, InTree

\* Writing the root keeps the invariant: it goes to the version that the
\* committed head does not name.
LEMMA SyncRootInv ==
    ASSUME HInv, SyncNode, Head(todo) = 1, ht.node[1].dirty
    PROVE  HInv' /\ KeepsCommit
<1> DEFINE k == Flip(ht.counter % 2)
<1>1. /\ pc = "sync" /\ todo # <<>> /\ todo' = Tail(todo)
      /\ UNCHANGED <<pc, anchor, useHash, nwrites>>
  BY DEF SyncNode
<1>3. /\ Shape /\ SyncOK /\ HandleOK /\ ExistsOK /\ IsTree(ht) /\ IsDisk(disk)
      /\ todo \in Seq(Nodes) /\ PostOrdered(todo) /\ useHash \in BOOLEAN /\ ht.counter \in Nat
      /\ Exists => \E v \in Vers : CommitInv(v)
  BY <1>1, SyncStart DEF SyncOK
<1>4. /\ todo' \in Seq(Nodes) /\ PostOrdered(todo')
      /\ \A m \in Nodes : Todo(m)' => Todo(m)
      /\ ~Todo(1)' /\ \A m \in Nodes : Todo(m) => m = 1
  BY <1>1, <1>3, TodoTail
<1>5. /\ NodeSynced(1, k)
      /\ \A m \in Nodes \ {1} : ht'.node[m] = ht.node[m]
      /\ \A m \in Nodes : ht'.node[m].image.kid = ht.node[m].image.kid
  BY <1>3, SyncRootFacts
<1>6. 1 \in Nodes /\ k \in Vers
  BY <1>5, Parents DEF NodeSynced
<1> HIDE DEF k
<1>7. Shape'
  BY <1>1, <1>3, <1>4, <1>5, <1>6, SyncedShape
<1>8. HandleOK'
  <2>1. \A m \in 1..ht'.len : BlockReadable(ht, m)'
    BY <1>3, <1>5, <1>6, SyncedBlocks
  <2>2. ASSUME NEW m \in Nodes, InTree(ht', m), ~ht'.node[m].dirty,
               \A i \in Vers : InTree(ht', 2 * m + i) => ~ht'.node[2 * m + i].dirty
        PROVE  ht'.node[m].image.hash = HashOf(ht', m)
    <3>0. \A i \in Vers : 2 * m + i \in Nat /\ 2 * m + i > 1
      BY Parents DEF Vers
    <3>1. \A j : InTree(ht', j) = InTree(ht, j)
      BY <1>5 DEF NodeSynced, InTree
    <3>2. ASSUME NEW i \in Vers, InTree(ht, 2 * m + i)
          PROVE  2 * m + i \in Nodes \ {1}
      BY <1>3, <3>0, <3>2, Sizes
    <3>3. HashOf(ht', m) = HashOf(ht, m)
      <4>1. ht'.len = ht.len
        BY <1>5 DEF NodeSynced
      <4>2. \A i \in Vers : InTree(ht, 2 * m + i) =>
               ht'.node[2 * m + i].image.hash = ht.node[2 * m + i].image.hash
        BY <1>5, <3>2 DEF NodeSynced
      <4>3. /\ ht'.node[m].image.blk = ht.node[m].image.blk
            /\ ht'.node[m].image.kid = ht.node[m].image.kid
            /\ ht'.node[m].image.tag = ht.node[m].image.tag
        BY <1>5 DEF NodeSynced
      <4> QED BY <3>1, <4>1, <4>2, <4>3, HashKept
    <3>4. CASE m = 1
      BY <1>5, <3>3, <3>4 DEF NodeSynced
    <3>5. CASE m # 1
      <4>1. InTree(ht, m) /\ ~ht.node[m].dirty
        BY <1>5, <2>2, <3>1, <3>5
      <4>2. \A i \in Vers : InTree(ht, 2 * m + i) => ~ht.node[2 * m + i].dirty
        BY <1>5, <2>2, <3>1, <3>2
      <4>3. ht.node[m].image.hash = HashOf(ht, m)
        BY <1>3, <4>1, <4>2 DEF HandleOK, Clean
      <4> QED BY <1>5, <3>3, <3>5, <4>3
    <3> QED BY <3>4, <3>5
  <2>3. OnDisk(disk', ht')
    <3> SUFFICES ASSUME NEW m \in Nodes \ {1}, InTree(ht', m), ~ht'.node[m].dirty
                 PROVE  disk'.node[m][ht'.node[m \div 2].image.kid[m % 2]] = ht'.node[m].image
      BY DEF OnDisk
    <3>1. InTree(ht, m) /\ ~ht.node[m].dirty /\ m \div 2 \in Nodes /\ m % 2 \in Vers
      BY <1>5, Parents DEF NodeSynced, InTree
    <3>2. disk.node[m][ht.node[m \div 2].image.kid[m % 2]] = ht.node[m].image
      BY <1>3, <3>1 DEF HandleOK, OnDisk
    <3>3. ht.node[m \div 2].image.kid[m % 2] \in Vers
      <4>1. IsImage(ht.node[m \div 2].image)
        BY <1>3, <3>1 DEF IsTree, IsNode
      <4> QED BY <3>1, <4>1 DEF IsImage
    <3>4. /\ ht'.node[m \div 2].image.kid = ht.node[m \div 2].image.kid
          /\ ht'.node[m] = ht.node[m]
      BY <1>5, <3>1
    <3>5. \A u \in Vers : disk'.node[m][u] = disk.node[m][u]
      BY <1>5 DEF NodeSynced
    <3> QED BY <3>2, <3>3, <3>4, <3>5
  <2> QED BY <2>1, <2>2, <2>3 DEF HandleOK, Clean
<1>9. SyncOK'
  <2>1. \A m \in Nodes : ~ht'.node[m].dirty
    BY <1>3, <1>4, <1>5 DEF SyncOK, NodeSynced
  <2>2. disk'.node[1][Flip(ht'.counter % 2)] = ht'.node[1].image
    BY <1>5, <1>6 DEF NodeSynced, k
  <2>3. ht'.counter < MaxCounter /\ disk'.head = disk.head
    BY <1>3, <1>5 DEF SyncOK, NodeSynced
  <2>4. ht'.counter = 0 => disk'.node[1][0] = ZeroNode /\ disk'.head = [v \in Vers |-> ZeroHead]
    <3> SUFFICES ASSUME ht.counter = 0
                 PROVE  disk'.node[1][0] = ZeroNode /\ disk'.head = [v \in Vers |-> ZeroHead]
      BY <1>5 DEF NodeSynced
    <3>1. k = 1 /\ 0 \in Vers
      BY DEF k, Flip, Vers
    <3>2. disk'.node[1][0] = disk.node[1][0]
      BY <1>5, <1>6, <3>1 DEF NodeSynced
    <3> QED BY <1>3, <2>3, <3>2 DEF SyncOK
  <2> QED BY <1>4, <2>1, <2>2, <2>3, <2>4 DEF SyncOK
<1>10. (Exists' <=> Exists) /\ ExistsOK'
  BY <1>1, <1>3, <1>5 DEF Exists, ExistsOK, NodeSynced
<1>11. ASSUME NEW v \in Vers, CommitInv(v), Exists PROVE CommitInv(v)' /\ DiskKept(v)
  <2> DEFINE c == Loaded(disk, v)
  <2>1. Committed(v) /\ Follows(v) /\ Selected(v) /\ Verified(v)
    BY <1>1, <1>11 DEF CommitInv, Committed
  <2>2. IsTree(c) /\ c.node[1].image = disk.node[1][v] /\ c.counter = disk.head[v].counter
    <3>1. IsTree(c) /\ c.node[1].image = disk.node[1][v]
      BY <1>3, LoadedTree
    <3>2. c.counter = disk.head[v].counter
      BY LoadedSizes
    <3> QED BY <3>1, <3>2
  <2>3. v = ht.counter % 2 /\ k = Flip(v) /\ k # v
    BY <2>1, <2>2 DEF Follows, Selected, k, Flip, Vers
  <2>4. HashOf(ht, 1) # c.node[1].image.hash
    <3>1. RootDiffers(v)
      BY <2>1 DEF Follows
    <3>2. HashOf(ht, 1) # HashOf(c, 1)
      <4> HIDE DEF c
      <4> QED BY <3>1, HashDiffers DEF RootDiffers, c
    <3>3. c.node[1].image.hash = HashOf(c, 1)
      BY <1>6, <2>1 DEF Verified, InTree
    <3> QED BY <3>2, <3>3
  <2>5. useHash => disk'.node[1][Flip(v)].hash # anchor
    <3> SUFFICES ASSUME useHash PROVE disk'.node[1][Flip(v)].hash # anchor
      OBVIOUS
    <3>1. disk'.node[1][Flip(v)].hash = HashOf(ht, 1)
      BY <1>5, <1>6, <2>3 DEF NodeSynced
    <3>2. disk.node[1][v].hash = anchor
      BY <2>1 DEF Selected
    <3> QED BY <2>2, <2>4, <3>1, <3>2
  <2>6. disk'.node[1][v] = disk.node[1][v]
    BY <1>5, <1>6, <2>3 DEF NodeSynced
  <2>7. ASSUME NEW m \in Nodes \ {1}, InTree(c, m)
        PROVE  disk'.node[m][c.node[m \div 2].image.kid[m % 2]]
               = disk.node[m][c.node[m \div 2].image.kid[m % 2]]
    <3>1. c.node[m \div 2].image.kid[m % 2] \in Vers
      <4>0. m \div 2 \in Nodes /\ m % 2 \in Vers
        BY Parents
      <4> HIDE DEF c
      <4>1. IsImage(c.node[m \div 2].image)
        BY <2>2, <4>0 DEF IsTree, IsNode
      <4> QED BY <4>0, <4>1 DEF IsImage
    <3> HIDE DEF c
    <3> QED BY <1>5, <3>1 DEF NodeSynced
  <2>8. DiskKept(v)
    BY <1>1, <1>5, <2>5, <2>6, <2>7 DEF DiskKept, NodeSynced
  <2>9. Loaded(disk', v) = c /\ Committed(v)' /\ HeadIdx' = v
    BY <1>3, <1>7, <1>11, <2>1, <2>8, CommitKept DEF Shape
  <2>10. Follows(v)'
    <3>1. ht'.counter = c.counter
      BY <1>5, <2>1 DEF Follows, NodeSynced
    <3>2. \A m \in Nodes : ~Todo(m)'
      BY <1>4
    <3>3. ~ht'.node[1].dirty
      BY <1>5 DEF NodeSynced
    <3> HIDE DEF c
    <3> QED BY <1>1, <2>9, <3>1, <3>2, <3>3 DEF Follows
  <2> QED BY <1>1, <2>8, <2>9, <2>10 DEF CommitInv
<1>12. KeepsCommit
  BY <1>3, <1>11 DEF KeepsCommit
<1> QED BY <1>1, <1>3, <1>7, <1>8, <1>9, <1>10, <1>11, <1>12 DEF HInv

\* Two children of one node are told apart by their last bit.
LEMMA Siblings ==
    ASSUME NEW m \in Nodes \ {1}, NEW n \in Nodes \ {1}, m # n, m \div 2 = n \div 2
    PROVE  m % 2 # n % 2
BY Parents

\* Writing another node keeps the invariant: the committed parent still names
\* the other version.
LEMMA SyncKidInv ==
    ASSUME HInv, SyncNode, NEW n \in Nodes \ {1}, n = Head(todo), InTree(ht, n),
           ht.node[n].dirty
    PROVE  HInv' /\ KeepsCommit
<1> DEFINE p == n \div 2
           k == Flip(ht.node[p].image.kid[n % 2])
<1>1. /\ pc = "sync" /\ todo # <<>> /\ todo' = Tail(todo)
      /\ UNCHANGED <<pc, anchor, useHash, nwrites>>
  BY DEF SyncNode
<1>3. /\ Shape /\ SyncOK /\ HandleOK /\ ExistsOK /\ IsTree(ht) /\ IsDisk(disk)
      /\ todo \in Seq(Nodes) /\ PostOrdered(todo) /\ useHash \in BOOLEAN /\ ht.counter \in Nat
      /\ Exists => \E v \in Vers : CommitInv(v)
  BY <1>1, SyncStart DEF SyncOK
<1>4. /\ todo' \in Seq(Nodes) /\ PostOrdered(todo') /\ Todo(n)
      /\ \A m \in Nodes : Todo(m)' => Todo(m)
      /\ ~Todo(n)' /\ Todo(1) /\ Todo(p)'
      /\ \A m \in Nodes : Todo(m) /\ m # n => Todo(m)'
      /\ \A m \in Nodes \ {1} : m \div 2 = n => ~Todo(m)
  BY <1>1, <1>3, TodoTail
<1>5. /\ NodeSynced(n, k)
      /\ \A m \in Nodes \ {n, p} : ht'.node[m] = ht.node[m]
      /\ ht'.node[p].dirty = TRUE
      /\ ht'.node[p].block_updated = ht.node[p].block_updated
      /\ ht'.node[p].image.kid[n % 2] = k
      /\ \A j \in Vers \ {n % 2} : ht'.node[p].image.kid[j] = ht.node[p].image.kid[j]
      /\ \A m \in Nodes \ {p} : ht'.node[m].image.kid = ht.node[m].image.kid
  BY <1>3, SyncKidFacts
<1>6. /\ n \in Nodes /\ k \in Vers /\ p \in Nodes /\ n \in Nat /\ p \in Nat /\ p < n
      /\ n % 2 \in Vers /\ 1 \in Nodes /\ n = 2 * p + (n % 2)
  BY <1>5, Parents DEF NodeSynced
<1>i. \A j : InTree(ht', j) = InTree(ht, j)
  BY <1>5 DEF NodeSynced, InTree
<1>p. InTree(ht, p)
  <2>1. n <= ht.max /\ ht.max \in Nat
    <3>1. n > 1
      BY <1>6 DEF Nodes
    <3>2. /\ ht.max \in 0..NumNodes
          /\ \A m \in Nat : InTree(ht, m) /\ m > 1 => m <= ht.max
      BY <1>3, Sizes
    <3> HIDE DEF p
    <3> QED BY <1>6, <3>1, <3>2
  <2> HIDE DEF p
  <2> QED BY <1>6, <2>1 DEF InTree
<1>k. \A m \in Nodes \ {1} : m # n =>
         ht'.node[m \div 2].image.kid[m % 2] = ht.node[m \div 2].image.kid[m % 2]
  <2> SUFFICES ASSUME NEW m \in Nodes \ {1}, m # n
               PROVE  ht'.node[m \div 2].image.kid[m % 2] = ht.node[m \div 2].image.kid[m % 2]
    OBVIOUS
  <2>1. m \div 2 \in Nodes /\ m % 2 \in Vers
    BY Parents
  <2>2. CASE m \div 2 = p
    BY <1>5, <2>1, <2>2, Siblings
  <2>3. CASE m \div 2 # p
    BY <1>5, <2>1, <2>3
  <2> QED BY <2>2, <2>3
<1>o. ht.node[p].image.kid[n % 2] \in Vers
  <2>1. IsImage(ht.node[p].image)
    BY <1>3, <1>6 DEF IsTree, IsNode
  <2> QED BY <1>6, <2>1 DEF IsImage
<1>kd. k = Flip(ht.node[p].image.kid[n % 2]) /\ k # ht.node[p].image.kid[n % 2]
  BY <1>o DEF Flip, Vers
<1> HIDE DEF k
<1>7. Shape'
  BY <1>1, <1>3, <1>4, <1>5, <1>6, SyncedShape
<1>8. HandleOK'
  <2>1. \A m \in 1..ht'.len : BlockReadable(ht, m)'
    BY <1>3, <1>5, <1>6, SyncedBlocks
  <2>2. ASSUME NEW m \in Nodes, InTree(ht', m), ~ht'.node[m].dirty,
               \A i \in Vers : InTree(ht', 2 * m + i) => ~ht'.node[2 * m + i].dirty
        PROVE  ht'.node[m].image.hash = HashOf(ht', m)
    <3> HIDE DEF p
    <3>0. m \in Nat /\ m # p /\ \A i \in Vers : 2 * m + i \in Nat /\ 2 * m + i > 1
      BY <1>5, <2>2, Parents DEF Vers
    <3>1. ASSUME NEW i \in Vers, InTree(ht, 2 * m + i)
          PROVE  2 * m + i \in Nodes \ {1} /\ 2 * m + i # p /\ 2 * m + i # n
      <4>1. 2 * m + i \in Nodes \ {1}
        BY <1>3, <3>0, <3>1, Sizes
      <4>2. 2 * m + i # p
        BY <1>5, <1>i, <2>2, <3>1
      <4>3. 2 * m + i # n
        <5>1. \A q \in Nat, a \in {0, 1}, b \in {0, 1} : m # q => 2 * m + a # 2 * q + b
          BY <3>0
        <5>2. Vers = {0, 1}
          BY DEF Vers
        <5> QED BY <1>6, <3>0, <5>1, <5>2
      <4> QED BY <4>1, <4>2, <4>3
    <3>3. HashOf(ht', m) = HashOf(ht, m)
      <4>1. ht'.len = ht.len
        BY <1>5 DEF NodeSynced
      <4>2. \A i \in Vers : InTree(ht, 2 * m + i) =>
               ht'.node[2 * m + i].image.hash = ht.node[2 * m + i].image.hash
        BY <1>5, <3>1 DEF NodeSynced
      <4>3. /\ ht'.node[m].image.blk = ht.node[m].image.blk
            /\ ht'.node[m].image.kid = ht.node[m].image.kid
            /\ ht'.node[m].image.tag = ht.node[m].image.tag
        BY <1>5, <3>0 DEF NodeSynced
      <4> QED BY <1>i, <4>1, <4>2, <4>3, HashKept
    <3>4. CASE m = n
      BY <1>5, <3>3, <3>4 DEF NodeSynced
    <3>5. CASE m # n
      <4>1. InTree(ht, m) /\ ~ht.node[m].dirty
        BY <1>5, <1>i, <2>2, <3>0, <3>5
      <4>2. \A i \in Vers : InTree(ht, 2 * m + i) => ~ht.node[2 * m + i].dirty
        BY <1>5, <1>i, <2>2, <3>1
      <4>3. ht.node[m].image.hash = HashOf(ht, m)
        BY <1>3, <4>1, <4>2 DEF HandleOK, Clean
      <4> QED BY <1>5, <3>0, <3>3, <3>5, <4>3
    <3> QED BY <3>4, <3>5
  <2>3. OnDisk(disk', ht')
    <3> SUFFICES ASSUME NEW m \in Nodes \ {1}, InTree(ht', m), ~ht'.node[m].dirty
                 PROVE  disk'.node[m][ht'.node[m \div 2].image.kid[m % 2]] = ht'.node[m].image
      BY DEF OnDisk
    <3>1. m \div 2 \in Nodes /\ m % 2 \in Vers
      BY Parents
    <3>2. CASE m = n
      <4>1. ht'.node[n \div 2].image.kid[n % 2] = k
        BY <1>5
      <4>2. disk'.node[n][k] = ht'.node[n].image
        BY <1>5, <1>6 DEF NodeSynced
      <4> QED BY <3>2, <4>1, <4>2
    <3>3. CASE m # n
      <4>1. m # p /\ InTree(ht, m) /\ ~ht.node[m].dirty /\ ht'.node[m] = ht.node[m]
        BY <1>5, <1>i, <3>3
      <4>2. disk.node[m][ht.node[m \div 2].image.kid[m % 2]] = ht.node[m].image
        BY <1>3, <4>1 DEF HandleOK, OnDisk
      <4>3. ht.node[m \div 2].image.kid[m % 2] \in Vers
        <5>1. IsImage(ht.node[m \div 2].image)
          BY <1>3, <3>1 DEF IsTree, IsNode
        <5> QED BY <3>1, <5>1 DEF IsImage
      <4>4. \A u \in Vers : disk'.node[m][u] = disk.node[m][u]
        BY <1>5, <3>3 DEF NodeSynced
      <4>5. ht'.node[m \div 2].image.kid[m % 2] = ht.node[m \div 2].image.kid[m % 2]
        BY <1>k, <3>3
      <4> QED BY <4>1, <4>2, <4>3, <4>4, <4>5
    <3> QED BY <3>2, <3>3
  <2> QED BY <2>1, <2>2, <2>3 DEF HandleOK, Clean
<1>9. SyncOK'
  <2>1. ASSUME NEW m \in Nodes, ht'.node[m].dirty PROVE Todo(m)'
    <3>1. CASE m = p
      BY <1>4, <3>1
    <3>2. CASE m = n
      BY <1>5, <2>1, <3>2 DEF NodeSynced
    <3>3. CASE m # p /\ m # n
      BY <1>3, <1>4, <1>5, <2>1, <3>3 DEF SyncOK
    <3> QED BY <3>1, <3>2, <3>3
  <2>2. SomeDirty'
    <3>1. InTree(ht', p) /\ ht'.node[p].dirty
      BY <1>5, <1>i, <1>p
    <3> QED BY <1>6, <3>1 DEF SomeDirty
  <2>3. Todo(1)'
    BY <1>4, <1>6
  <2>4. ht'.counter < MaxCounter /\ disk'.head = disk.head
    BY <1>3, <1>5 DEF SyncOK, NodeSynced
  <2>5. ht'.counter = 0 => disk'.node[1][0] = ZeroNode /\ disk'.head = [v \in Vers |-> ZeroHead]
    <3>1. 0 \in Vers
      BY DEF Vers
    <3>2. disk'.node[1][0] = disk.node[1][0]
      BY <1>5, <1>6, <3>1 DEF NodeSynced
    <3> QED BY <1>3, <1>5, <2>4, <3>2 DEF SyncOK, NodeSynced
  <2> QED BY <1>4, <2>1, <2>2, <2>3, <2>4, <2>5 DEF SyncOK
<1>10. (Exists' <=> Exists) /\ ExistsOK'
  BY <1>1, <1>3, <1>5 DEF Exists, ExistsOK, NodeSynced
<1>11. ASSUME NEW v \in Vers, CommitInv(v), Exists PROVE CommitInv(v)' /\ DiskKept(v)
  <2> DEFINE c == Loaded(disk, v)
  <2>1. Committed(v) /\ Follows(v) /\ Selected(v)
    BY <1>1, <1>11 DEF CommitInv, Committed
  <2>2. IsTree(c) /\ c.node[1].image = disk.node[1][v]
    BY <1>3, LoadedTree
  <2>3. \A u \in Vers : disk'.node[1][u] = disk.node[1][u]
    BY <1>5, <1>6 DEF NodeSynced
  <2>4. v \in Vers /\ Flip(v) \in Vers
    BY DEF Flip, Vers
  <2>5. useHash => disk'.node[1][Flip(v)].hash # anchor
    BY <2>1, <2>3, <2>4 DEF Selected
  <2>f. InTree(c, p) => ht.node[p].image.kid[n % 2] = c.node[p].image.kid[n % 2]
    BY <1>4, <1>p, <2>1 DEF Follows
  <2>7. ASSUME NEW m \in Nodes \ {1}, InTree(c, m)
        PROVE  disk'.node[m][c.node[m \div 2].image.kid[m % 2]]
               = disk.node[m][c.node[m \div 2].image.kid[m % 2]]
    <3>0. m \div 2 \in Nodes /\ m % 2 \in Vers /\ m \in Nat /\ m > 1 /\ m \div 2 \in Nat /\ m \div 2 < m
      BY Parents DEF Nodes
    <3> HIDE DEF c
    <3>1. c.node[m \div 2].image.kid[m % 2] \in Vers
      <4>1. IsImage(c.node[m \div 2].image)
        BY <2>2, <3>0 DEF IsTree, IsNode
      <4> QED BY <3>0, <4>1 DEF IsImage
    <3>2. CASE m # n
      BY <1>5, <3>1, <3>2 DEF NodeSynced
    <3>3. CASE m = n
      <4>1. InTree(c, p)
        BY <1>6, <2>2, <2>7, <3>0, <3>3, Sizes DEF InTree
      <4>2. c.node[p].image.kid[n % 2] # k
        BY <1>kd, <2>f, <4>1 DEF c
      <4> QED BY <1>5, <1>6, <3>1, <3>3, <4>2 DEF NodeSynced
    <3> QED BY <3>2, <3>3
  <2>8. DiskKept(v)
    BY <1>1, <1>5, <2>3, <2>5, <2>7 DEF DiskKept, NodeSynced
  <2>9. Loaded(disk', v) = c /\ Committed(v)' /\ HeadIdx' = v
    BY <1>3, <1>7, <1>11, <2>1, <2>8, CommitKept DEF Shape
  <2>10. Follows(v)'
    <3>1. ht'.counter = c.counter /\ ht'.len = ht.len
      BY <1>5, <2>1 DEF Follows, NodeSynced
    <3>2. ASSUME NEW m \in Nodes \ {1}, InTree(ht', m \div 2), InTree(c, m \div 2), Todo(m)'
          PROVE  ht'.node[m \div 2].image.kid[m % 2] = c.node[m \div 2].image.kid[m % 2]
      <4>1. m # n /\ Todo(m) /\ InTree(ht, m \div 2)
        BY <1>4, <1>i, <3>2
      <4>2. ht.node[m \div 2].image.kid[m % 2] = c.node[m \div 2].image.kid[m % 2]
        BY <2>1, <3>2, <4>1 DEF Follows
      <4> QED BY <1>k, <4>1, <4>2
    <3>3. ASSUME ht'.node[1].dirty
          PROVE  \/ ht'.node[1].image.tag # c.node[1].image.tag
                 \/ ht'.len # c.len \/ ht'.node[1].image.kid # c.node[1].image.kid
      <4>1. CASE p = 1
        <5>1. c.node[1].image.kid[n % 2] # k
          BY <1>kd, <2>f, <4>1 DEF InTree
        <5>2. ht'.node[1].image.kid[n % 2] = k
          BY <1>5, <4>1
        <5> HIDE DEF c
        <5> QED BY <5>1, <5>2
      <4>2. CASE p # 1
        <5>1. ht'.node[1] = ht.node[1]
          BY <1>5, <1>6, <4>2
        <5>2. RootDiffers(v)
          BY <2>1, <3>3, <5>1 DEF Follows
        <5> QED BY <3>1, <5>1, <5>2 DEF RootDiffers
      <4> QED BY <4>1, <4>2
    <3>4. Loaded(disk, v)' = c
      BY <2>9
    <3> HIDE DEF c
    <3> QED BY <1>1, <3>1, <3>2, <3>3, <3>4 DEF Follows, RootDiffers
  <2> QED BY <1>1, <2>8, <2>9, <2>10 DEF CommitInv
<1>12. KeepsCommit
  BY <1>3, <1>11 DEF KeepsCommit
<1> QED BY <1>1, <1>3, <1>7, <1>8, <1>9, <1>10, <1>11, <1>12 DEF HInv

-----------------------------------------------------------------------------
(* Opening, closing and creating.                                          *)

\* A new node is all zeroes.
LEMMA FreshImages == IsImage(ZeroNode) /\ IsNode(FreshNode)
                     /\ ~FreshNode.dirty /\ ~FreshNode.block_updated /\ FreshNode.image = ZeroNode
<1>1. IsImage(ZeroNode)
  BY DEF IsImage, ZeroNode, Vers
<1> QED BY <1>1, Zenon DEF IsNode, FreshNode, CleanNode

\* An empty file has the shape of a file.
LEMMA EmptyIsDisk ==
    /\ IsDisk(EmptyDisk) /\ EmptyDisk.head = [v \in Vers |-> ZeroHead]
    /\ \A n \in Nodes, v \in Vers : EmptyDisk.node[n][v] = ZeroNode
<1>1. IsHead(ZeroHead)
  BY FsHtreeAssumption DEF IsHead, ZeroHead, SizeOK
<1> DEFINE e == EmptyDisk
<1>2. /\ e.head = [v \in Vers |-> ZeroHead]
      /\ e.node = [n \in Nodes |-> [v \in Vers |-> ZeroNode]]
      /\ e.block = [n \in Nodes |-> [v \in Vers |-> 0]]
      /\ e = [head |-> e.head, node |-> e.node, block |-> e.block]
  BY DEF EmptyDisk
<1> HIDE DEF e
<1>3. /\ e.head = [v \in Vers |-> e.head[v]] /\ \A v \in Vers : e.head[v] = ZeroHead
  BY <1>2
<1>4. /\ e.node = [n \in Nodes |-> e.node[n]]
      /\ \A n \in Nodes : e.node[n] = [v \in Vers |-> e.node[n][v]]
      /\ \A n \in Nodes, v \in Vers : e.node[n][v] = ZeroNode
  BY <1>2
<1>5. e.block \in [Nodes -> [Vers -> 0..MaxWrites]]
  BY <1>2, FsHtreeAssumption
<1>6. IsDisk(e)
  BY <1>1, <1>2, <1>3, <1>4, <1>5, FreshImages DEF IsDisk
<1> QED BY <1>2, <1>4, <1>6 DEF e

\* The tree of a closed file.
LEMMA FreshIsTree ==
    /\ IsTree(FreshTree) /\ FreshTree.max = 0 /\ FreshTree.len = 0 /\ FreshTree.counter = 0
    /\ FreshTree.dirty = FALSE /\ \A n \in Nodes : FreshTree.node[n] = FreshNode
<1> DEFINE h == FreshTree
<1>1. /\ h.max = 0 /\ h.len = 0 /\ h.counter = 0 /\ h.dirty = FALSE
      /\ h.node = [n \in Nodes |-> FreshNode]
      /\ h = [max |-> h.max, len |-> h.len, counter |-> h.counter, dirty |-> h.dirty,
              node |-> h.node]
  BY DEF FreshTree
<1> HIDE DEF h
<1>2. h.node = [n \in Nodes |-> h.node[n]] /\ \A n \in Nodes : h.node[n] = FreshNode
  BY <1>1
<1>3. SizeOK(h.len, h.max) /\ h.counter \in 0..MaxCounter
  BY <1>1, FsHtreeAssumption DEF SizeOK
<1>4. IsTree(h)
  BY <1>1, <1>2, <1>3, FreshImages DEF IsTree
<1> QED BY <1>1, <1>2, <1>4 DEF h

\* Recovery depends on the file and on the hash in the directory file.
LEMMA StorageSame ==
    ASSUME UNCHANGED <<disk, anchor, useHash>>
    PROVE  /\ Exists' = Exists /\ HeadIdx' = HeadIdx
           /\ \A v : Loaded(disk', v) = Loaded(disk, v)
           /\ \A v : Verified(v)' = Verified(v)
           /\ \A v : Committed(v)' = Committed(v)
<1>1. \A v : Verified(v)' = Verified(v)
  BY DEF Verified
<1>2. \A v : Selected(v)' = Selected(v)
  BY DEF Selected
<1>3. \A v : (\A n \in 1..disk.head[v].len : BlockReadable(Loaded(disk, v), n))' =
             (\A n \in 1..disk.head[v].len : BlockReadable(Loaded(disk, v), n))
  BY DEF BlockReadable
<1>4. \A v : Committed(v)' = Committed(v)
  BY <1>1, <1>2, <1>3 DEF Committed
<1> QED BY <1>1, <1>4 DEF Exists, HeadIdx

\* A handle that has just been loaded follows what was loaded.
LEMMA FollowsSelf ==
    \A w \in Vers : IsTree(ht) /\ ht = Loaded(disk, w) => Follows(w) /\ FollowsIdle(w)
<1> SUFFICES ASSUME NEW w \in Vers, IsTree(ht), ht = Loaded(disk, w)
             PROVE  Follows(w) /\ FollowsIdle(w)
  OBVIOUS
<1>1. ht.dirty = FALSE
  BY LoadedSizes
<1>2. \A n \in Nodes : ht.node[n].dirty = FALSE /\ ht.node[n].block_updated = FALSE
  BY LoadedFields DEF CleanNode
<1>3. ht.max \in Int /\ ht.len \in Int
  BY Sizes
<1>4. Follows(w)
  BY <1>2, Parents DEF Follows
<1>5. FollowsIdle(w)
  BY <1>1, <1>2, <1>3 DEF FollowsIdle
<1> QED BY <1>4, <1>5

\* The same, after a step.
LEMMA FollowsSelfNext ==
    \A w \in Vers : (IsTree(ht) /\ ht = Loaded(disk, w) => Follows(w) /\ FollowsIdle(w))'
<1>1. (\A w \in Vers : IsTree(ht) /\ ht = Loaded(disk, w) => Follows(w) /\ FollowsIdle(w))'
  BY FollowsSelf, PTL
<1> QED BY <1>1

\* The beginning of a sync keeps the invariant.
LEMMA SyncInv ==
    ASSUME HInv, Sync
    PROVE  HInv'
<1>1. /\ pc = "idle" /\ ht.dirty /\ ht.counter < MaxCounter
      /\ pc' = "sync" /\ todo' = PostOrder[1]
      /\ UNCHANGED <<disk, ht, anchor, useHash, nwrites>>
  BY DEF Sync
<1>2. Shape /\ HandleOK /\ Exists
  BY <1>1 DEF HInv, Opened, ExistsOK
<1>3. PICK v \in Vers : CommitInv(v)
  BY <1>2 DEF HInv
<1>4. HeadIdx = v /\ Committed(v) /\ Follows(v) /\ FollowsIdle(v)
  BY <1>1, <1>3 DEF CommitInv
<1>5. ht.counter > 0
  BY <1>4, LoadedSizes DEF Follows, Committed, Selected
<1>6. /\ todo' \in Seq(Nodes) /\ PostOrdered(todo') /\ \A n \in Nodes : Todo(n)'
  BY <1>1, PostOrderOK DEF Todo
<1>7. Shape'
  BY <1>1, <1>2, <1>6 DEF Shape, Pcs
<1>8. HandleOK'
  BY <1>1, <1>2 DEF HandleOK, BlockReadable, Clean
<1>9. SomeDirty'
  BY <1>1, <1>4 DEF FollowsIdle, SomeDirty
<1>10. SyncOK'
  BY <1>1, <1>5, <1>6, <1>9, Parents DEF SyncOK
<1>11. Exists' /\ Committed(v)' /\ HeadIdx' = v
  BY <1>1, <1>2, <1>4, StorageSame
<1>12. Follows(v)'
  BY <1>1, <1>4 DEF Follows, RootDiffers
<1>13. CommitInv(v)'
  BY <1>1, <1>11, <1>12 DEF CommitInv
<1>14. ExistsOK'
  BY <1>1, <1>5, <1>11 DEF ExistsOK
<1> QED BY <1>1, <1>7, <1>8, <1>10, <1>13, <1>14 DEF HInv

\* Opening the file keeps the invariant: the open succeeds.
LEMMA OpenInv ==
    ASSUME HInv, Open
    PROVE  HInv'
<1>1. pc = "closed" /\ UNCHANGED <<disk, todo, anchor, useHash, nwrites>>
  BY DEF Open
<1>2. Shape /\ Exists
  BY <1>1 DEF HInv, ExistsOK
<1>3. PICK v \in Vers : CommitInv(v)
  BY <1>2 DEF HInv
<1>4. HeadIdx = v /\ Committed(v) /\ Verified(v)
  BY <1>3 DEF CommitInv, Committed
<1>5. pc' = "idle" /\ ht' = Loaded(disk, v)
  BY <1>4 DEF Open, OpenSucceeds
<1>6. /\ IsDisk(disk) /\ IsTree(ht') /\ OnDisk(disk, ht') /\ ht'.node[1].image = disk.node[1][v]
  BY <1>2, <1>5, LoadedTree DEF Shape
<1>7. Shape'
  BY <1>1, <1>2, <1>5, <1>6 DEF Shape, Pcs
<1>8. HandleOK'
  <2>1. \A n \in 1..ht'.len : BlockReadable(ht, n)'
    <3>1. \A n \in 1..ht'.len : BlockReadable(Loaded(disk, v), n)
      BY <1>4, <1>5, LoadedSizes DEF Committed
    <3> QED BY <1>1, <1>5, <3>1 DEF BlockReadable
  <2>2. \A n \in Nodes : InTree(ht', n) => ht'.node[n].image.hash = HashOf(ht', n)
    BY <1>4, <1>5 DEF Verified
  <2>3. OnDisk(disk', ht')
    BY <1>1, <1>6
  <2> QED BY <2>1, <2>2, <2>3 DEF HandleOK
<1>9. Exists' /\ Committed(v)' /\ HeadIdx' = v
  BY <1>1, <1>2, <1>4, StorageSame
<1>10. Follows(v)' /\ FollowsIdle(v)'
  BY <1>1, <1>5, <1>6, FollowsSelfNext
<1>11. CommitInv(v)' /\ ExistsOK'
  BY <1>5, <1>9, <1>10 DEF CommitInv, ExistsOK
<1> QED BY <1>5, <1>7, <1>8, <1>11 DEF HInv

\* Closing the file, an error and a power loss keep the invariant.
LEMMA CloseInv ==
    ASSUME HInv, Close
    PROVE  HInv'
<1>1. /\ Opened /\ (useHash \/ ht.counter > 0)
      /\ pc' = IF useHash /\ anchor = NoHash THEN "absent" ELSE "closed"
      /\ ht' = FreshTree /\ todo' = <<>>
      /\ UNCHANGED <<disk, anchor, useHash, nwrites>>
  BY DEF Close, Opened
<1>2. Shape /\ ExistsOK
  BY DEF HInv
<1>3. pc' = "closed" => Exists
  <2>1. CASE pc = "record"
    BY <1>1, <2>1 DEF HInv, Done, Exists
  <2>2. CASE pc # "record"
    BY <1>1, <1>2, <2>2 DEF ExistsOK, Exists, Opened
  <2> QED BY <2>1, <2>2
<1>4. pc' = "absent" => ~Exists
  BY <1>1 DEF Exists
<1>5. ExistsOK' /\ pc' \in {"absent", "closed"} /\ ~Opened'
  BY <1>1, <1>3, <1>4, StorageSame DEF ExistsOK, Opened
<1>6. Shape'
  <2>1. IsTree(ht') /\ ht'.node[1].image.tag = 0
    BY <1>1, FreshIsTree, FreshImages, Parents DEF ZeroNode
  <2>2. nwrites' \in 0..MaxWrites /\ 0 <= nwrites'
    BY <1>1, <1>2 DEF Shape
  <2>3. todo' \in Seq(Nodes)
    BY <1>1
  <2> QED BY <1>1, <1>2, <1>5, <2>1, <2>2, <2>3 DEF Shape, Pcs
<1>7. ASSUME NEW v \in Vers, CommitInv(v) PROVE CommitInv(v)'
  BY <1>1, <1>5, <1>7, StorageSame DEF CommitInv
<1>8. Exists' => \E v \in Vers : CommitInv(v)'
  BY <1>1, <1>7, StorageSame DEF HInv
<1> QED BY <1>5, <1>6, <1>8 DEF HInv

\* The tree of a new file.
CreatedTree == [FreshTree EXCEPT !.dirty = TRUE, !.node[1].dirty = TRUE]

\* It has the shape of a tree.
LEMMA CreatedIsTree ==
    /\ IsTree(CreatedTree) /\ CreatedTree.max = 0 /\ CreatedTree.len = 0
    /\ CreatedTree.counter = 0
    /\ CreatedTree.node[1].image = ZeroNode /\ CreatedTree.node[1].dirty = TRUE
<1> DEFINE h == CreatedTree
<1>0. h = [FreshTree EXCEPT !.dirty = TRUE, !.node[1].dirty = TRUE]
  BY DEF CreatedTree
<1> HIDE DEF h
<1>1. /\ h.max = 0 /\ h.len = 0 /\ h.counter = 0 /\ h.dirty = TRUE
      /\ h.node = [FreshTree.node EXCEPT ![1].dirty = TRUE]
      /\ h = [max |-> 0, len |-> 0, counter |-> 0, dirty |-> TRUE, node |-> h.node]
  BY <1>0 DEF FreshTree
<1>2. /\ h.node = [n \in Nodes |-> h.node[n]]
      /\ h.node[1] = [FreshNode EXCEPT !.dirty = TRUE]
      /\ \A n \in Nodes \ {1} : h.node[n] = FreshNode
  <2>1. FreshTree.node = [n \in Nodes |-> FreshNode]
    BY DEF FreshTree
  <2> QED BY <1>1, <2>1, Parents
<1>3. /\ h.node[1].image = ZeroNode /\ h.node[1].dirty = TRUE /\ IsNode(h.node[1])
  <2>1. h.node[1] = [image |-> ZeroNode, dirty |-> TRUE, block_updated |-> FALSE]
    BY <1>2 DEF FreshNode, CleanNode
  <2> QED BY <2>1, FreshImages DEF IsNode
<1>4. IsTree(h)
  <2>1. SizeOK(0, 0) /\ 0 \in 0..MaxCounter
    BY FsHtreeAssumption DEF SizeOK
  <2>2. \A n \in Nodes : IsNode(h.node[n])
    BY <1>2, <1>3, FreshImages
  <2>3. \A n \in Nodes : ~InTree(h, n) => h.node[n] = FreshNode
    BY <1>2 DEF InTree
  <2> QED BY <1>1, <1>2, <2>1, <2>2, <2>3 DEF IsTree
<1> QED BY <1>1, <1>3, <1>4 DEF h

\* Creating a file keeps the invariant.
LEMMA CreateInv ==
    ASSUME HInv, Create
    PROVE  HInv'
<1>1. /\ pc = "absent" /\ disk' = EmptyDisk
      /\ ht' = CreatedTree
      /\ pc' = "sync" /\ todo' = PostOrder[1]
      /\ UNCHANGED <<anchor, useHash, nwrites>>
  BY DEF Create, CreatedTree
<1>2. Shape /\ ~Exists
  BY <1>1 DEF HInv, ExistsOK
<1>3. /\ todo' \in Seq(Nodes) /\ PostOrdered(todo') /\ \A n \in Nodes : Todo(n)'
  BY <1>1, PostOrderOK DEF Todo
<1>4. /\ IsTree(ht') /\ ht'.max = 0 /\ ht'.len = 0 /\ ht'.counter = 0
      /\ ht'.node[1].image = ZeroNode /\ ht'.node[1].dirty = TRUE
  BY <1>1, CreatedIsTree
<1>5. IsDisk(disk') /\ \A v \in Vers : disk'.node[1][v] = ZeroNode
  BY <1>1, EmptyIsDisk, Parents
<1>6. Shape'
  <2>1. nwrites' \in 0..MaxWrites /\ 0 <= nwrites'
    BY <1>1, <1>2 DEF Shape
  <2>2. ZeroNode.tag = 0
    BY DEF ZeroNode
  <2> QED BY <1>1, <1>2, <1>3, <1>4, <1>5, <2>1, <2>2 DEF Shape, Pcs
<1>7. \A n \in Nodes : InTree(ht', n) => n = 1
  BY <1>4, Parents DEF InTree
<1>8. HandleOK'
  <2>1. \A n \in 1..ht'.len : BlockReadable(ht, n)'
    BY <1>4
  <2>2. OnDisk(disk', ht')
    BY <1>7 DEF OnDisk
  <2> QED BY <1>4, <1>7, <2>1, <2>2 DEF HandleOK, Clean
<1>9. SyncOK'
  <2>1. SomeDirty'
    BY <1>4, Parents DEF SomeDirty, InTree
  <2>2. 0 \in Vers /\ ht'.counter < MaxCounter
    BY <1>4, FsHtreeAssumption DEF Vers
  <2> QED BY <1>1, <1>3, <1>4, <1>5, <2>1, <2>2, EmptyIsDisk, Parents DEF SyncOK
<1>10. ~Exists'
  <2>1. disk'.head[1].counter = 0
    BY <1>1, EmptyIsDisk DEF ZeroHead, Vers
  <2> QED BY <1>1, <1>2, <2>1 DEF Exists
<1>11. ExistsOK'
  BY <1>1, <1>4, <1>10 DEF ExistsOK
<1> QED BY <1>1, <1>6, <1>8, <1>9, <1>10, <1>11 DEF HInv

\* The dummy head of a new file is what is there already.
LEMMA DummySame ==
    ASSUME HInv, CreateDummy
    PROVE  disk' = disk
<1>1. pc = "dummy" /\ disk' = [disk EXCEPT !.head[0] = ZeroHead]
  BY DEF CreateDummy
<1>2. disk.head[0] = ZeroHead
  BY <1>1 DEF HInv, Done
<1>3. /\ disk = [head |-> disk.head, node |-> disk.node, block |-> disk.block]
      /\ disk.head = [v \in Vers |-> disk.head[v]] /\ 0 \in Vers
  BY DEF HInv, Shape, IsDisk, Vers
<1>4. [disk.head EXCEPT ![0] = ZeroHead] = disk.head
  BY <1>2, <1>3
<1>5. disk' = [head |-> [disk.head EXCEPT ![0] = ZeroHead], node |-> disk.node,
               block |-> disk.block]
  BY <1>1, <1>3
<1> QED BY <1>3, <1>4, <1>5

\* Writing the dummy head keeps the invariant.
LEMMA CreateDummyInv ==
    ASSUME HInv, CreateDummy
    PROVE  HInv'
<1>1. /\ pc = "dummy"
      /\ pc' = IF useHash THEN "record" ELSE "idle"
      /\ UNCHANGED <<ht, todo, anchor, useHash, nwrites>>
  BY DEF CreateDummy
<1>2. PICK w \in Vers : Done(w)
  BY <1>1 DEF HInv
<1>3. Shape /\ HandleOK /\ ExistsOK
  BY <1>1 DEF HInv, Opened
<1>4. disk' = disk
  BY DummySame
<1>5. Shape'
  BY <1>1, <1>3, <1>4 DEF Shape, Pcs
<1>6. HandleOK'
  BY <1>1, <1>3, <1>4 DEF HandleOK, BlockReadable, Clean
<1>7. /\ ht.counter = 1 /\ w = 1 /\ ht = Loaded(disk, 1) /\ (~useHash => HeadIdx = 1)
      /\ IsTree(ht)
  BY <1>1, <1>2, <1>3 DEF Done, Shape, Vers
<1>8. CASE useHash
  <2>1. pc' = "record" /\ ~Exists'
    BY <1>1, <1>3, <1>4, <1>8, StorageSame DEF ExistsOK
  <2>2. Done(w)'
    BY <1>1, <1>2, <1>4, <1>8, <2>1, StorageSame DEF Done
  <2> QED BY <1>5, <1>6, <2>1, <2>2 DEF HInv, ExistsOK
<1>9. CASE ~useHash
  <2>1. pc' = "idle" /\ Exists
    BY <1>1, <1>3, <1>9 DEF ExistsOK
  <2>2. PICK v \in Vers : CommitInv(v)
    BY <2>1 DEF HInv
  <2>3. v = 1 /\ Committed(1)
    BY <1>7, <1>9, <2>2 DEF CommitInv
  <2>4. Exists' /\ Committed(1)' /\ HeadIdx' = 1
    BY <1>1, <1>4, <1>7, <1>9, <2>1, <2>3, StorageSame
  <2>5. 1 \in Vers
    BY DEF Vers
  <2>6. Follows(1)' /\ FollowsIdle(1)'
    BY <1>1, <1>4, <1>7, <2>5, FollowsSelfNext
  <2>7. CommitInv(1)' /\ ExistsOK'
    BY <2>1, <2>4, <2>6 DEF CommitInv, ExistsOK
  <2> QED BY <1>5, <1>6, <2>1, <2>5, <2>7 DEF HInv
<1> QED BY <1>8, <1>9

\* Recording the hash keeps the invariant: the new version is committed.
LEMMA RecordHashInv ==
    ASSUME HInv, RecordHash
    PROVE  HInv'
<1>1. /\ pc = "record" /\ anchor' = ht.node[1].image.hash /\ pc' = "idle"
      /\ UNCHANGED <<disk, ht, todo, useHash, nwrites>>
  BY DEF RecordHash
<1>2. PICK w \in Vers : Done(w)
  BY <1>1 DEF HInv
<1>3. Shape /\ HandleOK
  BY <1>1 DEF HInv, Opened
<1>4. /\ useHash /\ ht.counter > 0 /\ ht.counter % 2 = w /\ ht = Loaded(disk, w) /\ Verified(w)
      /\ disk.node[1][Flip(w)].hash # ht.node[1].image.hash
  BY <1>1, <1>2 DEF Done
<1>5. Shape'
  BY <1>1, <1>3 DEF Shape, Pcs
<1>6. HandleOK'
  BY <1>1, <1>3 DEF HandleOK, BlockReadable, Clean
<1>7. /\ IsTree(ht) /\ IsDisk(disk) /\ ht.node[1].image = disk.node[1][w]
  BY <1>3, <1>4, LoadedTree DEF Shape
<1>8. anchor' # NoHash
  <2>1. ht.node[1].image.hash = HashOf(ht, 1)
    BY <1>4, Parents DEF Verified, InTree
  <2> QED BY <1>1, <2>1, HashNotZero
<1>9. Selected(w)'
  BY <1>1, <1>4, <1>7, LoadedSizes DEF Selected
<1>10. Committed(w)'
  <2>1. Verified(w)'
    BY <1>1, <1>4 DEF Verified
  <2>2. \A n \in 1..disk'.head[w].len : BlockReadable(Loaded(disk, w), n)'
    <3>1. \A n \in 1..ht'.len : BlockReadable(ht, n)'
      BY <1>6 DEF HandleOK
    <3>2. ht'.len = disk'.head[w].len /\ ht' = Loaded(disk', w)
      BY <1>1, <1>4, LoadedSizes
    <3> QED BY <3>1, <3>2
  <2> QED BY <1>9, <2>1, <2>2 DEF Committed
<1>11. HeadIdx' = w
  BY <1>5, <1>9, SelectedIsHeadNext DEF Shape
<1>12. Follows(w)' /\ FollowsIdle(w)'
  BY <1>1, <1>4, <1>7, FollowsSelfNext
<1>13. Exists'
  BY <1>1, <1>4, <1>8 DEF Exists
<1>14. CommitInv(w)' /\ ExistsOK'
  BY <1>1, <1>10, <1>11, <1>12, <1>13 DEF CommitInv, ExistsOK
<1> QED BY <1>1, <1>5, <1>6, <1>14 DEF HInv

-----------------------------------------------------------------------------
(* The head is written.                                                    *)

\* What update_root and rpc_write_head change.
LEMMA SyncHeadFacts ==
    ASSUME Shape, SyncHead, ht.counter < MaxCounter
    PROVE  LET w == Flip(ht.counter % 2)
           IN  /\ w \in Vers /\ ht.counter \in Nat
               /\ (ht.counter + 1) % 2 = w
               /\ ht'.max = ht.max /\ ht'.len = ht.len /\ ht'.node = ht.node
               /\ ht'.counter = ht.counter + 1 /\ ht'.dirty = FALSE /\ IsTree(ht')
               /\ disk'.node = disk.node /\ disk'.block = disk.block
               /\ disk'.head[w] = [counter |-> ht'.counter, max |-> ht'.max, len |-> ht'.len,
                                   tag |-> HeadTag(ht')]
               /\ disk'.head[Flip(w)] = disk.head[Flip(w)]
               /\ IsDisk(disk')
<1> DEFINE w == Flip(ht.counter % 2)
           x == [counter |-> ht'.counter, max |-> ht'.max, len |-> ht'.len, tag |-> HeadTag(ht')]
<1>1. /\ IsTree(ht) /\ IsDisk(disk) /\ ht.counter \in Nat /\ MaxCounter \in Nat
  BY FsHtreeAssumption DEF Shape, IsTree
<1>2. /\ w \in Vers /\ Flip(w) \in Vers /\ Flip(w) # w /\ (ht.counter + 1) % 2 = w
  BY <1>1 DEF Flip, Vers
<1>3. /\ ht' = [ht EXCEPT !.counter = @ + 1, !.dirty = FALSE]
  BY DEF SyncHead
<1>4. /\ ht'.max = ht.max /\ ht'.len = ht.len /\ ht'.node = ht.node
      /\ ht'.counter = ht.counter + 1 /\ ht'.dirty = FALSE
      /\ ht' = [max |-> ht'.max, len |-> ht'.len, counter |-> ht'.counter, dirty |-> ht'.dirty,
                node |-> ht'.node]
  BY <1>1, <1>3 DEF IsTree
<1>5. disk' = [disk EXCEPT !.head[w] = x]
  <2>1. disk' = [disk EXCEPT !.head[ht'.counter % 2] = x]
    BY <1>3 DEF SyncHead
  <2> QED BY <1>2, <1>4, <2>1
<1>6. IsTree(ht')
  <2>1. ht'.counter \in 0..MaxCounter
    BY <1>1, <1>4
  <2>2. \A n : InTree(ht', n) <=> InTree(ht, n)
    BY <1>4 DEF InTree
  <2>3. SizeOK(ht'.len, ht'.max)
    BY <1>1, <1>4 DEF IsTree
  <2> QED BY <1>1, <1>4, <2>1, <2>2, <2>3 DEF IsTree
<1> HIDE DEF w
<1>7. /\ x.counter = ht'.counter /\ x.max = ht'.max /\ x.len = ht'.len
      /\ x = [counter |-> x.counter, max |-> x.max, len |-> x.len, tag |-> x.tag]
      /\ IsHead(x)
  BY <1>6 DEF IsHead, IsTree
<1> HIDE DEF x
<1>8. /\ disk'.node = disk.node /\ disk'.block = disk.block
      /\ disk'.head = [disk.head EXCEPT ![w] = x]
      /\ disk' = [head |-> disk'.head, node |-> disk'.node, block |-> disk'.block]
  BY <1>1, <1>5 DEF IsDisk
<1>9. /\ disk.head = [v \in Vers |-> disk.head[v]] /\ \A v \in Vers : IsHead(disk.head[v])
  BY <1>1 DEF IsDisk
<1>10. /\ disk'.head[w] = x /\ disk'.head[Flip(w)] = disk.head[Flip(w)]
       /\ disk'.head = [v \in Vers |-> disk'.head[v]] /\ \A v \in Vers : IsHead(disk'.head[v])
  BY <1>2, <1>7, <1>8, <1>9
<1>11. IsDisk(disk')
  BY <1>1, <1>8, <1>10 DEF IsDisk
<1> QED BY <1>1, <1>2, <1>4, <1>6, <1>8, <1>10, <1>11 DEF w, x

\* Writing the head keeps the invariant: with a hash in the directory file the
\* old version stays committed, without one the new version is.
LEMMA SyncHeadInv ==
    ASSUME HInv, SyncHead
    PROVE  HInv' /\ (useHash => KeepsCommit)
<1>v. PICK w : w = Flip(ht.counter % 2)
  OBVIOUS
<1>1. /\ pc = "sync" /\ todo = <<>> /\ UNCHANGED <<todo, anchor, useHash, nwrites>>
      /\ pc' = IF ht.counter = 0 THEN "dummy" ELSE IF useHash THEN "record" ELSE "idle"
  BY DEF SyncHead
<1>2. /\ Shape /\ SyncOK /\ HandleOK /\ ExistsOK /\ IsTree(ht) /\ IsDisk(disk)
      /\ useHash \in BOOLEAN /\ ht.counter < MaxCounter
      /\ Exists => \E v \in Vers : CommitInv(v)
  BY <1>1, SyncStart DEF SyncOK
<1>3. /\ w \in Vers /\ ht.counter \in Nat /\ (ht.counter + 1) % 2 = w
      /\ ht'.max = ht.max /\ ht'.len = ht.len /\ ht'.node = ht.node
      /\ ht'.counter = ht.counter + 1 /\ ht'.dirty = FALSE /\ IsTree(ht')
      /\ disk'.node = disk.node /\ disk'.block = disk.block
      /\ disk'.head[w] = [counter |-> ht'.counter, max |-> ht'.max, len |-> ht'.len,
                          tag |-> HeadTag(ht')]
      /\ disk'.head[Flip(w)] = disk.head[Flip(w)] /\ IsDisk(disk')
  BY <1>2, <1>v, SyncHeadFacts
<1>4. \A n \in Nodes : ~Todo(n)
  BY <1>1 DEF Todo
<1>5. /\ \A n \in Nodes : ~ht.node[n].dirty
      /\ disk.node[1][w] = ht.node[1].image
  BY <1>2, <1>4, <1>v, Parents DEF SyncOK
<1>6. \A n : InTree(ht', n) = InTree(ht, n)
  BY <1>3 DEF InTree
<1>7. \A n : HashOf(ht', n) = HashOf(ht, n)
  BY <1>3, <1>6 DEF HashOf
<1>8. \A n \in Nodes : InTree(ht', n) => ht'.node[n].image.hash = HashOf(ht', n)
  <2> SUFFICES ASSUME NEW n \in Nodes, InTree(ht, n)
               PROVE  ht.node[n].image.hash = HashOf(ht, n)
    BY <1>3, <1>6, <1>7
  <2>1. \A i \in Vers : InTree(ht, 2 * n + i) => 2 * n + i \in Nodes
    <3>1. \A i \in Vers : 2 * n + i \in Nat /\ 2 * n + i > 1
      BY Parents DEF Vers
    <3> QED BY <1>2, <3>1, Sizes
  <2> QED BY <1>2, <1>5, <2>1 DEF HandleOK, Clean
<1>9. HandleOK'
  <2>1. \A n \in 1..ht'.len : BlockReadable(ht, n)'
    BY <1>2, <1>3, <1>6 DEF HandleOK, BlockReadable
  <2>2. OnDisk(disk', ht')
    BY <1>2, <1>3, <1>6 DEF HandleOK, OnDisk
  <2> QED BY <1>8, <2>1, <2>2 DEF HandleOK
<1>10. Shape'
  <2>1. pc' \in Pcs
    BY <1>1 DEF Pcs
  <2> QED BY <1>1, <1>2, <1>3, <2>1 DEF Shape
<1>11. Loaded(disk', w) = ht'
  <2>1. /\ disk'.head[w].max = ht'.max /\ disk'.head[w].len = ht'.len
        /\ disk'.head[w].counter = ht'.counter /\ disk'.node[1][w] = ht'.node[1].image
    BY <1>3, <1>5
  <2>2. \A n \in Nodes : ~ht'.node[n].dirty
    BY <1>3, <1>5
  <2>3. OnDisk(disk', ht') /\ ht'.dirty = FALSE
    BY <1>3, <1>9 DEF HandleOK
  <2> QED BY <1>3, <2>1, <2>2, <2>3, LoadedIs
<1>12. Verified(w)'
  <2>1. HeadTag(ht') = disk'.head[w].tag
    BY <1>3
  <2>2. Verified(w)' <=> /\ HeadTag(ht') = disk'.head[w].tag
                         /\ \A n \in Nodes : InTree(ht', n) => ht'.node[n].image.hash = HashOf(ht', n)
    BY <1>3, <1>11 DEF Verified
  <2> QED BY <1>8, <2>1, <2>2
<1>13. \A n \in 1..disk'.head[w].len : BlockReadable(Loaded(disk, w), n)'
  <2>1. disk'.head[w].len = ht'.len
    BY <1>3
  <2> QED BY <1>9, <1>11, <2>1 DEF HandleOK
<1>14. ht'.node[1].image.hash = HashOf(ht', 1)
  BY <1>8, Parents DEF InTree
<1>15. disk'.head[w].counter = ht.counter + 1
  BY <1>3
<1>w. /\ w \in Vers /\ (ht.counter + 1) % 2 = w /\ ht.counter % 2 = Flip(w) /\ Flip(w) \in Vers
      /\ Flip(Flip(w)) = w /\ Flip(w) # w
  BY <1>3, <1>v DEF Flip, Vers
<1>16. CASE ht.counter = 0
  <2>1. pc' = "dummy" /\ w = 1 /\ Flip(w) = 0 /\ ht'.counter = 1 /\ Flip(1) = 0
    BY <1>1, <1>3, <1>16, <1>w DEF Flip
  <2>2. disk.node[1][0] = ZeroNode /\ disk.head = [u \in Vers |-> ZeroHead]
    BY <1>2, <1>16 DEF SyncOK
  <2>3. disk'.head[0] = ZeroHead /\ disk'.head[0].counter = 0 /\ disk'.head[1].counter = 1
    <3>1. disk.head[0] = ZeroHead
      BY <2>2 DEF Vers
    <3> QED BY <1>3, <1>15, <1>16, <2>1, <3>1 DEF ZeroHead
  <2>4. ~Exists
    BY <1>1, <1>2, <1>16 DEF ExistsOK
  <2>5. Exists' <=> ~useHash'
    BY <1>1, <1>2, <2>3, <2>4 DEF Exists
  <2>6. ~useHash' => Selected(1)'
    BY <1>1, <2>1, <2>3 DEF Selected
  <2>7. ~useHash' => HeadIdx' = 1
    BY <1>1, <1>2, <1>3, <1>w, <2>1, <2>6, SelectedIsHeadNext
  <2>8. Done(1)'
    <3>1. disk'.node[1][0].hash # ht'.node[1].image.hash
      BY <1>3, <1>14, <2>2, HashNotZero DEF ZeroNode
    <3> QED BY <1>11, <1>12, <2>1, <2>3, <2>7, <3>1 DEF Done
  <2>9. ~useHash' => CommitInv(1)'
    <3>1. ~useHash' => Committed(1)'
      BY <1>12, <1>13, <1>w, <2>1, <2>6 DEF Committed
    <3> QED BY <2>1, <2>7, <3>1 DEF CommitInv
  <2>10. ExistsOK'
    BY <2>1, <2>5 DEF ExistsOK
  <2>11. KeepsCommit
    BY <2>4 DEF KeepsCommit
  <2> QED BY <1>9, <1>10, <1>w, <2>1, <2>5, <2>8, <2>9, <2>10, <2>11 DEF HInv
<1>17. CASE ht.counter # 0
  <2>1. Exists
    BY <1>1, <1>2, <1>3, <1>17 DEF ExistsOK
  <2>2. PICK u \in Vers : CommitInv(u)
    BY <1>2, <2>1
  <2>3. Committed(u) /\ Follows(u) /\ Selected(u)
    BY <1>1, <2>2 DEF CommitInv, Committed
  <2>4. disk.head[u].counter = ht.counter /\ disk.head[u].counter % 2 = u
    BY <2>3, LoadedSizes DEF Follows, Selected
  <2>5. u = Flip(w)
    BY <1>w, <2>4
  <2>6. Flip(u) = w /\ disk'.head[u] = disk.head[u]
    BY <1>3, <1>w, <2>5
  <2>7. CASE useHash
    <3>1. pc' = "record"
      BY <1>1, <1>17, <2>7
    <3>2. disk.node[1][u].hash = anchor /\ disk.node[1][w].hash # anchor
      BY <2>3, <2>6, <2>7 DEF Selected
    <3>3. DiskKept(u)
      BY <1>1, <1>3, <2>6, <2>7, <3>2 DEF DiskKept
    <3>4. Committed(u)' /\ HeadIdx' = u /\ Exists'
      BY <1>2, <1>3, <2>1, <2>3, <3>3, CommitKept
    <3>5. CommitInv(u)'
      BY <3>1, <3>4 DEF CommitInv
    <3>6. Done(w)'
      <4>1. disk'.node[1][Flip(w)].hash # ht'.node[1].image.hash
        BY <1>3, <1>5, <2>5, <3>2
      <4>2. ht'.counter > 0 /\ ht'.counter % 2 = w
        BY <1>3, <1>w
      <4> QED BY <1>1, <1>11, <1>12, <2>7, <3>1, <4>1, <4>2 DEF Done
    <3>7. ExistsOK'
      BY <3>1 DEF ExistsOK
    <3>8. KeepsCommit
      BY <2>2, <3>3 DEF KeepsCommit
    <3> QED BY <1>9, <1>10, <1>w, <3>1, <3>5, <3>6, <3>7, <3>8 DEF HInv
  <2>8. CASE ~useHash
    <3>1. pc' = "idle"
      BY <1>1, <1>17, <2>8
    <3>2. /\ disk'.head[w].counter > 0 /\ disk'.head[w].counter % 2 = w
          /\ disk'.head[Flip(w)].counter % 2 = Flip(w)
          /\ disk'.head[Flip(w)].counter < disk'.head[w].counter
      BY <1>3, <1>15, <1>w, <2>4, <2>5, <2>6
    <3>3. Selected(w)'
      BY <1>1, <2>8, <3>2 DEF Selected
    <3>4. Committed(w)'
      BY <1>12, <1>13, <1>w, <3>3 DEF Committed
    <3>5. HeadIdx' = w
      BY <1>1, <1>2, <1>3, <1>w, <3>3, SelectedIsHeadNext
    <3>6. Follows(w)' /\ FollowsIdle(w)'
      BY <1>3, <1>11, <1>w, FollowsSelfNext
    <3>7. Exists'
      <4>1. w = 1 \/ disk'.head[1].counter > 0
        <5>1. disk'.head[u].counter > 0
          BY <1>3, <1>17, <2>4, <2>6
        <5> QED BY <1>w, <2>5, <3>2, <5>1 DEF Vers, Flip
      <4>2. disk'.head[1].counter > 0
        BY <3>2, <4>1
      <4> QED BY <1>1, <2>8, <4>2 DEF Exists
    <3>8. CommitInv(w)' /\ ExistsOK'
      BY <3>1, <3>4, <3>5, <3>6, <3>7 DEF CommitInv, ExistsOK
    <3> QED BY <1>9, <1>10, <1>w, <2>8, <3>1, <3>8 DEF HInv
  <2> QED BY <2>7, <2>8
<1> QED BY <1>16, <1>17

-----------------------------------------------------------------------------
(* Truncation.                                                             *)

\* A node is marked dirty.
LEMMA DirtyNode ==
    ASSUME NEW x, IsNode(x), NEW y, y = [x EXCEPT !.dirty = TRUE]
    PROVE  IsNode(y) /\ y.image = x.image /\ y.dirty = TRUE /\ y.block_updated = x.block_updated
BY DEF IsNode

\* What ree_fs_ftruncate_internal changes, for any cut.
LEMMA TruncateFacts ==
    ASSUME Shape, NEW len \in 0..NumNodes, Truncate(len)
    PROVE  /\ ht'.max = (IF len + 1 < ht.max THEN len + 1 ELSE ht.max) /\ ht'.len = len
           /\ ht'.counter = ht.counter /\ IsTree(ht')
           /\ ht'.node[1].image = ht.node[1].image /\ ht'.node[1].dirty = TRUE
           /\ \A n \in Nodes \ {1} : InTree(ht', n) => ht'.node[n] = ht.node[n]
           /\ disk'.head = disk.head /\ disk'.node = disk.node /\ IsDisk(disk')
           /\ \A n \in Nodes : n <= len + 1 => disk'.block[n] = disk.block[n]
<1> DEFINE max == IF len + 1 < ht.max THEN len + 1 ELSE ht.max
           y == [ht.node[1] EXCEPT !.dirty = TRUE]
           node == [n \in Nodes |-> IF n > 1 /\ n > max THEN FreshNode
                                    ELSE IF n = 1 THEN y ELSE ht.node[n]]
           block == [n \in Nodes |-> IF n > len + 1 THEN [v \in Vers |-> 0] ELSE disk.block[n]]
<1>1. /\ ht' = [ht EXCEPT !.max = max, !.len = len, !.dirty = TRUE, !.node = node]
      /\ disk' = [disk EXCEPT !.block = block]
  BY DEF Truncate
<1>2. /\ IsTree(ht) /\ IsDisk(disk) /\ NumNodes \in Nat /\ MaxWrites \in Nat
      /\ ht.max \in 0..NumNodes /\ ht.len \in 0..NumNodes /\ SizeOK(ht.len, ht.max)
      /\ IsNode(ht.node[1])
  BY FsHtreeAssumption, Parents DEF Shape, IsTree, SizeOK
<1>3. max \in 0..NumNodes /\ SizeOK(len, max)
  <2>1. len <= ht.len
    BY <1>2, FsHtreeAssumption DEF Truncate
  <2> QED BY <1>2, <2>1 DEF SizeOK
<1>4. /\ IsNode(y) /\ y.image = ht.node[1].image /\ y.dirty = TRUE
  BY <1>2, DirtyNode
<1> HIDE DEF y
<1>5. \A n \in Nodes : IsNode(node[n])
  <2> SUFFICES ASSUME NEW n \in Nodes PROVE IsNode(node[n])
    OBVIOUS
  <2>1. node[n] = FreshNode \/ node[n] = y \/ node[n] = ht.node[n]
    OBVIOUS
  <2>2. IsNode(ht.node[n])
    BY <1>2 DEF IsTree
  <2> QED BY <1>4, <2>1, <2>2, FreshImages
<1>6. /\ node = [n \in Nodes |-> node[n]] /\ node[1] = y
      /\ \A n \in Nodes \ {1} : n <= max => node[n] = ht.node[n]
      /\ \A n \in Nodes \ {1} : ~(n <= max) => node[n] = FreshNode
  <2> HIDE DEF max
  <2> QED BY <1>3, Parents
<1> HIDE DEF node
<1>7. /\ ht'.max = max /\ ht'.len = len /\ ht'.counter = ht.counter /\ ht'.dirty = TRUE
      /\ ht'.node = node
      /\ ht' = [max |-> max, len |-> len, counter |-> ht.counter, dirty |-> TRUE, node |-> node]
  BY <1>1, <1>2 DEF IsTree
<1>8. IsTree(ht')
  <2>1. ht'.counter \in 0..MaxCounter
    BY <1>2, <1>7 DEF IsTree
  <2> HIDE DEF max
  <2>2. \A n \in Nodes : ~InTree(ht', n) => ht'.node[n] = FreshNode
    BY <1>6, <1>7 DEF InTree
  <2> QED BY <1>3, <1>5, <1>6, <1>7, <2>1, <2>2 DEF IsTree
<1>9. \A n \in Nodes \ {1} : InTree(ht', n) => ht'.node[n] = ht.node[n]
  <2> HIDE DEF max
  <2> QED BY <1>6, <1>7 DEF InTree
<1>10. disk.block \in [Nodes -> [Vers -> 0..MaxWrites]]
  BY <1>2 DEF IsDisk
<1>11. /\ block \in [Nodes -> [Vers -> 0..MaxWrites]]
       /\ \A n \in Nodes : n <= len + 1 => block[n] = disk.block[n]
  BY <1>2, <1>10, Parents
<1> HIDE DEF block
<1>12. /\ disk'.head = disk.head /\ disk'.node = disk.node /\ disk'.block = block
       /\ disk' = [head |-> disk.head, node |-> disk.node, block |-> block]
  BY <1>1, <1>2 DEF IsDisk
<1>13. IsDisk(disk')
  BY <1>2, <1>11, <1>12 DEF IsDisk
<1> QED BY <1>4, <1>6, <1>7, <1>8, <1>9, <1>11, <1>12, <1>13

\* A small cut keeps the invariant.
LEMMA TruncateInv ==
    ASSUME CutsAreSmall, HInv, NEW len \in 0..NumNodes, Truncate(len)
    PROVE  HInv'
<1>1. /\ pc = "idle" /\ ~ht.dirty /\ ht.len - len \in Shrinks /\ ht.counter < MaxCounter
      /\ pc' = "sync" /\ todo' = PostOrder[1] /\ UNCHANGED <<anchor, useHash, nwrites>>
  BY DEF Truncate
<1>2. Shape /\ HandleOK /\ Exists /\ IsTree(ht) /\ IsDisk(disk) /\ useHash \in BOOLEAN
  BY <1>1 DEF HInv, Opened, ExistsOK, Shape
<1>3. PICK v \in Vers : CommitInv(v)
  BY <1>2 DEF HInv
<1>4. HeadIdx = v /\ Committed(v) /\ Follows(v) /\ FollowsIdle(v) /\ Selected(v)
  BY <1>1, <1>3 DEF CommitInv, Committed
<1>5. ht = Loaded(disk, v)
  BY <1>1, <1>4 DEF FollowsIdle
<1>6. /\ len = ht.len - 1 /\ NumNodes <= 3 /\ ht.len \in Nat /\ ht.max \in Nat /\ len \in Nat
      /\ NumNodes \in Nat
  BY <1>1, <1>2, Sizes DEF CutsAreSmall
<1>7. /\ ht'.max = (IF len + 1 < ht.max THEN len + 1 ELSE ht.max) /\ ht'.len = len
      /\ ht'.counter = ht.counter /\ IsTree(ht')
      /\ ht'.node[1].image = ht.node[1].image /\ ht'.node[1].dirty = TRUE
      /\ \A n \in Nodes \ {1} : InTree(ht', n) => ht'.node[n] = ht.node[n]
      /\ disk'.head = disk.head /\ disk'.node = disk.node /\ IsDisk(disk')
      /\ \A n \in Nodes : n <= len + 1 => disk'.block[n] = disk.block[n]
  BY <1>2, TruncateFacts
<1>8. \A n \in Nodes : InTree(ht', n) => ht'.node[n].image = ht.node[n].image /\ InTree(ht, n)
  <2>1. ht'.max <= ht.max /\ ht'.max \in Nat
    BY <1>6, <1>7
  <2>2. \A n \in Nodes : InTree(ht', n) => InTree(ht, n)
    BY <1>6, <2>1, Parents DEF InTree
  <2> QED BY <1>7, <2>2
<1>9. /\ todo' \in Seq(Nodes) /\ PostOrdered(todo') /\ \A n \in Nodes : Todo(n)'
  BY <1>1, PostOrderOK DEF Todo
<1>10. Shape'
  BY <1>1, <1>2, <1>7, <1>9 DEF Shape, Pcs
<1>11. /\ \A n \in Nodes : ~ht.node[n].dirty
       /\ \A n \in Nodes : InTree(ht, n) => ht.node[n].image.hash = HashOf(ht, n)
  <2>1. \A n \in Nodes : ~ht.node[n].dirty
    BY <1>5, LoadedFields DEF CleanNode
  <2>2. Verified(v)
    BY <1>4 DEF Committed
  <2> QED BY <1>5, <2>1, <2>2 DEF Verified
<1>12. HandleOK'
  <2>1. \A n \in 1..ht'.len : BlockReadable(ht, n)'
    <3> SUFFICES ASSUME NEW n \in 1..ht'.len PROVE BlockReadable(ht, n)'
      OBVIOUS
    <3>1. n \in Nodes /\ InTree(ht', n) /\ n <= len + 1 /\ n \in 1..ht.len
      <4>1. n \in Nodes /\ InTree(ht', n)
        BY <1>7, Sizes
      <4> QED BY <1>6, <1>7, <4>1
    <3>2. BlockReadable(ht, n)
      BY <1>2, <3>1 DEF HandleOK
    <3> QED BY <1>7, <1>8, <3>1, <3>2 DEF BlockReadable
  <2>2. ASSUME NEW n \in Nodes, InTree(ht', n), ~ht'.node[n].dirty
        PROVE  ht'.node[n].image.hash = HashOf(ht', n)
    <3>1. n # 1 /\ n > 1 /\ n \in Nat
      BY <1>7, <2>2, Parents
    <3>2. \A i \in Vers : 2 * n + i \in Nat /\ 2 * n + i > NumNodes
      BY <1>6, <3>1 DEF Vers
    <3>3. \A i \in Vers : ~InTree(ht, 2 * n + i) /\ ~InTree(ht', 2 * n + i)
      <4>1. ht.max <= NumNodes /\ ht'.max <= NumNodes /\ ht.max \in Nat /\ ht'.max \in Nat
        BY <1>2, <1>7, Sizes
      <4> SUFFICES ASSUME NEW i \in Vers
                   PROVE  ~InTree(ht, 2 * n + i) /\ ~InTree(ht', 2 * n + i)
        OBVIOUS
      <4>2. PICK k \in Nat : k = 2 * n + i /\ k > NumNodes
        BY <3>2
      <4>3. k # 1 /\ ~(k <= ht.max) /\ ~(k <= ht'.max)
        BY <1>6, <4>1, <4>2, Parents
      <4> QED BY <4>2, <4>3 DEF InTree
    <3>4. ht'.node[n].image = ht.node[n].image /\ ht.node[n].image.hash = HashOf(ht, n)
      BY <1>8, <1>11, <2>2
    <3>5. HashOf(ht', n) = HashOf(ht, n)
      <4>1. \A i \in Vers : InTree(ht', 2 * n + i) = InTree(ht, 2 * n + i)
        BY <3>3 DEF InTree
      <4> QED BY <3>1, <3>3, <3>4, <4>1, HashKept
    <3> QED BY <3>4, <3>5
  <2>3. OnDisk(disk', ht')
    <3> SUFFICES ASSUME NEW n \in Nodes \ {1}, InTree(ht', n), ~ht'.node[n].dirty
                 PROVE  disk'.node[n][ht'.node[n \div 2].image.kid[n % 2]] = ht'.node[n].image
      BY DEF OnDisk
    <3>1. n \div 2 \in Nodes /\ n \div 2 < n /\ n \in Nat /\ n \div 2 \in Nat
      BY Parents
    <3>2. InTree(ht', n \div 2)
      <4>1. ht'.max \in Nat /\ n <= ht'.max
        <5>1. n > 1
          BY Parents
        <5>2. /\ ht'.max \in 0..NumNodes
              /\ \A m \in Nat : InTree(ht', m) /\ m > 1 => m <= ht'.max
          BY <1>7, Sizes
        <5> QED BY <3>1, <5>1, <5>2
      <4> QED BY <3>1, <4>1 DEF InTree
    <3>3. disk.node[n][ht.node[n \div 2].image.kid[n % 2]] = ht.node[n].image
      BY <1>2, <1>8, <1>11 DEF HandleOK, OnDisk
    <3> QED BY <1>7, <1>8, <3>1, <3>2, <3>3
  <2> QED BY <2>1, <2>2, <2>3 DEF HandleOK, Clean
<1>13. ht.counter > 0
  BY <1>4, LoadedSizes DEF Follows, Selected
<1>14. SyncOK'
  <2>1. SomeDirty'
    BY <1>7, Parents DEF SomeDirty, InTree
  <2>2. Todo(1)' /\ ht'.counter < MaxCounter /\ ht'.counter # 0
    BY <1>1, <1>7, <1>9, <1>13, Parents
  <2> QED BY <1>9, <2>1, <2>2 DEF SyncOK
<1>15. DiskKept(v)
  <2>1. \A n \in 1..disk.head[v].len : n \in Nodes /\ n <= len + 1
    <3>1. disk.head[v].len = ht.len
      BY <1>5, LoadedSizes
    <3>2. \A n \in 1..ht.len : n \in Nodes
      BY <1>2, Sizes
    <3> QED BY <1>6, <3>1, <3>2
  <2> QED BY <1>1, <1>4, <1>7, <2>1 DEF DiskKept, Selected
<1>16. Loaded(disk', v) = Loaded(disk, v) /\ Committed(v)' /\ HeadIdx' = v /\ Exists'
  BY <1>2, <1>4, <1>7, <1>15, CommitKept
<1>17. Follows(v)'
  <2>1. PICK c : c = Loaded(disk, v) /\ c = Loaded(disk', v)
    BY <1>16
  <2>2. c = ht
    BY <1>5, <2>1
  <2>3. ht'.counter = c.counter /\ ht'.len # c.len
    BY <1>6, <1>7, <2>2
  <2>4. \A n \in Nodes \ {1} : InTree(ht', n \div 2) =>
           ht'.node[n \div 2].image.kid[n % 2] = c.node[n \div 2].image.kid[n % 2]
    BY <1>8, <2>2, Parents
  <2> QED BY <2>1, <2>3, <2>4 DEF Follows, RootDiffers
<1>18. CommitInv(v)' /\ ExistsOK'
  BY <1>1, <1>7, <1>13, <1>16, <1>17 DEF CommitInv, ExistsOK
<1> QED BY <1>1, <1>10, <1>12, <1>14, <1>18 DEF HInv

-----------------------------------------------------------------------------
(* The invariant holds.                                                    *)

\* The invariant holds of a file that does not exist.
LEMMA InitHInv == Init => HInv
<1> SUFFICES ASSUME Init PROVE HInv
  OBVIOUS
<1>1. /\ disk = EmptyDisk /\ ht = FreshTree /\ pc = "absent" /\ todo = <<>>
      /\ anchor = NoHash /\ useHash \in BOOLEAN /\ nwrites = 0
  BY DEF Init
<1>2. /\ IsDisk(disk) /\ IsTree(ht) /\ ht.node[1].image.tag = 0
      /\ \A v \in Vers : disk.node[1][v].tag = 0
  BY <1>1, EmptyIsDisk, FreshIsTree, FreshImages, Parents DEF ZeroNode
<1>3. Shape
  <2>1. 0 \in 0..MaxWrites /\ 0 <= 0
    BY FsHtreeAssumption
  <2>2. todo \in Seq(Nodes) /\ pc \in Pcs
    BY <1>1 DEF Pcs
  <2> QED BY <1>1, <1>2, <2>1, <2>2 DEF Shape
<1>4. ~Exists
  <2>1. disk.head[1].counter = 0
    BY <1>1, EmptyIsDisk DEF ZeroHead, Vers
  <2> QED BY <1>1, <2>1 DEF Exists
<1> QED BY <1>1, <1>3, <1>4 DEF HInv, ExistsOK, Opened

\* A step that changes nothing keeps the invariant.
LEMMA StutterHInv ==
    ASSUME HInv, UNCHANGED vars
    PROVE  HInv'
<1>1. /\ UNCHANGED <<disk, anchor, useHash>>
      /\ UNCHANGED <<disk, ht, pc, todo, anchor, useHash, nwrites>>
  BY DEF vars
<1>2. /\ Exists' = Exists /\ HeadIdx' = HeadIdx
      /\ \A v : Loaded(disk', v) = Loaded(disk, v)
      /\ \A v : Verified(v)' = Verified(v)
      /\ \A v : Committed(v)' = Committed(v)
  BY <1>1, StorageSame
<1>3. Shape' /\ ExistsOK' /\ (Opened' => HandleOK') /\ (pc' = "sync" => SyncOK')
  <2>1. Shape'
    BY <1>1 DEF HInv, Shape
  <2>2. ExistsOK'
    BY <1>1, <1>2 DEF HInv, ExistsOK
  <2>3. Opened' => HandleOK'
    BY <1>1 DEF HInv, Opened, HandleOK, BlockReadable, Clean
  <2>4. pc' = "sync" => SyncOK'
    BY <1>1 DEF HInv, SyncOK, Todo, SomeDirty
  <2> QED BY <2>1, <2>2, <2>3, <2>4
<1>4. ASSUME NEW v \in Vers, CommitInv(v) PROVE CommitInv(v)'
  <2>1. Follows(v)' = Follows(v)
    BY <1>1 DEF Follows, RootDiffers, Todo
  <2>2. FollowsIdle(v)' = FollowsIdle(v)
    BY <1>1 DEF FollowsIdle, SomeDirty
  <2> QED BY <1>1, <1>2, <1>4, <2>1, <2>2 DEF CommitInv
<1>5. ASSUME NEW w \in Vers, Done(w) PROVE Done(w)'
  BY <1>1, <1>2, <1>5 DEF Done
<1> QED BY <1>1, <1>2, <1>3, <1>4, <1>5 DEF HInv

\* Every step keeps the invariant.
LEMMA NextHInv ==
    ASSUME CutsAreSmall, HInv, [Next]_vars
    PROVE  HInv'
<1>1. CASE Create
  BY <1>1, CreateInv
<1>2. CASE CreateDummy
  BY <1>2, CreateDummyInv
<1>3. CASE Open
  BY <1>3, OpenInv
<1>4. CASE Close
  BY <1>4, CloseInv
<1>5. ASSUME NEW n \in Nodes, WriteBlock(n) PROVE HInv'
  BY <1>5, WriteInv
<1>6. ASSUME NEW len \in 0..NumNodes, Truncate(len) PROVE HInv'
  BY <1>6, TruncateInv
<1>7. CASE Sync
  BY <1>7, SyncInv
<1>8. CASE SyncNode
  <2>1. /\ pc = "sync" /\ todo # <<>>
    BY <1>8 DEF SyncNode
  <2>2. todo \in Seq(Nodes)
    BY <2>1, SyncStart
  <2>3. Head(todo) \in Nodes
    BY <2>1, <2>2
  <2>4. CASE ~(InTree(ht, Head(todo)) /\ ht.node[Head(todo)].dirty)
    BY <1>8, <2>4, SkipNodeInv
  <2>5. CASE InTree(ht, Head(todo)) /\ ht.node[Head(todo)].dirty /\ Head(todo) = 1
    BY <1>8, <2>5, SyncRootInv
  <2>6. CASE InTree(ht, Head(todo)) /\ ht.node[Head(todo)].dirty /\ Head(todo) # 1
    BY <1>8, <2>3, <2>6, SyncKidInv
  <2> QED BY <2>4, <2>5, <2>6
<1>9. CASE SyncHead
  BY <1>9, SyncHeadInv
<1>10. CASE RecordHash
  BY <1>10, RecordHashInv
<1>11. CASE UNCHANGED vars
  BY <1>11, StutterHInv
<1> QED BY <1>1, <1>2, <1>3, <1>4, <1>5, <1>6, <1>7, <1>8, <1>9, <1>10, <1>11 DEF Next

\* The invariant holds in every state.
LEMMA HInvHolds == CutsAreSmall => (Spec => []HInv)
<1> SUFFICES ASSUME CutsAreSmall PROVE Spec => []HInv
  OBVIOUS
<1>1. Init => HInv
  BY InitHInv
<1>2. HInv /\ [Next]_vars => HInv'
  BY NextHInv
<1> QED BY <1>1, <1>2, PTL DEF Spec

\* Whatever was written, at whatever moment the power fails or normal world
\* reports an error, tee_fs_htree_open() of the file succeeds and every block
\* of it can be read; and a handle reads back what was written through it.
THEOREM FileIsRecoverable == CutsAreSmall => (Spec => []Recoverable)
<1>1. HInv => Recoverable
  <2> SUFFICES ASSUME HInv PROVE Recoverable
    OBVIOUS
  <2>1. ASSUME Exists
        PROVE  OpenSucceeds /\ \A n \in 1..Loaded(disk, HeadIdx).len :
                                  BlockReadable(Loaded(disk, HeadIdx), n)
    <3>1. PICK v \in Vers : HeadIdx = v /\ Committed(v)
      BY <2>1 DEF HInv, CommitInv
    <3> QED BY <3>1, LoadedSizes DEF OpenSucceeds, Committed
  <2>2. pc \in {"idle", "record"} => \A n \in 1..ht.len : BlockReadable(ht, n)
    BY DEF HInv, Opened, HandleOK
  <2> QED BY <2>1, <2>2 DEF Recoverable
<1> QED BY <1>1, HInvHolds, PTL

-----------------------------------------------------------------------------
(* Refinement.                                                             *)

\* The contents of a tree.
LEMMA ContentsFacts ==
    ASSUME NEW h, h.len \in Nat
    PROVE  /\ Len(Contents(h)) = h.len
           /\ \A n \in 1..h.len : Contents(h)[n] = h.node[n].image.tag
           /\ h.len = 0 => Contents(h) = <<>>
<1>1. Contents(h) = [n \in 1..h.len |-> h.node[n].image.tag]
  BY DEF Contents
<1> DEFINE s == Contents(h)
<1> HIDE DEF s
<1>2. DOMAIN s = 1..h.len /\ \A n \in 1..h.len : s[n] = h.node[n].image.tag
  BY <1>1 DEF s
<1>3. Len(s) = h.len
  BY <1>1 DEF s
<1>4. h.len = 0 => s = <<>>
  BY <1>1, <1>3 DEF s
<1> QED BY <1>2, <1>3, <1>4 DEF s

\* Trees with the same tags have the same contents.
LEMMA ContentsSame ==
    ASSUME NEW g, NEW h, g.len = h.len,
           \A n \in 1..h.len : g.node[n].image.tag = h.node[n].image.tag
    PROVE  Contents(g) = Contents(h)
BY DEF Contents

\* What is durable is the committed version.
LEMMA DurableIs ==
    ASSUME Exists, NEW v, HeadIdx = v
    PROVE  Durable = Contents(Loaded(disk, v))
BY DEF Durable

\* The same, after a step.
LEMMA DurableIsNext ==
    ASSUME Exists', NEW v, HeadIdx' = v
    PROVE  Durable' = Contents(Loaded(disk', v))
BY DEF Durable

\* A step that leaves the committed version alone leaves what is durable.
LEMMA DurableKept ==
    ASSUME IsDisk(disk), IsDisk(disk'), useHash \in BOOLEAN, Exists' = Exists, KeepsCommit
    PROVE  Durable' = Durable
<1>1. CASE ~Exists
  BY <1>1 DEF Durable
<1>2. CASE Exists
  <2>1. PICK v \in Vers : CommitInv(v) /\ DiskKept(v)
    BY <1>2 DEF KeepsCommit
  <2>2. /\ Loaded(disk', v) = Loaded(disk, v) /\ HeadIdx = v /\ HeadIdx' = v /\ Exists'
    BY <1>2, <2>1, CommitKept DEF CommitInv
  <2> QED BY <1>2, <2>2, DurableIs, DurableIsNext
<1> QED BY <1>1, <1>2

\* What is durable depends on heads and nodes.
LEMMA DurableSame ==
    ASSUME disk'.head = disk.head, disk'.node = disk.node, UNCHANGED <<anchor, useHash>>
    PROVE  Durable' = Durable
<1>1. Exists' = Exists /\ HeadIdx' = HeadIdx
  BY DEF Exists, HeadIdx
<1>2. CASE ~Exists
  BY <1>1, <1>2 DEF Durable
<1>3. CASE Exists
  <2>1. PICK v : v = HeadIdx /\ v = HeadIdx'
    BY <1>1
  <2>2. Images(disk', v) = Images(disk, v)
    BY ImagesKept
  <2>3. Loaded(disk', v) = Loaded(disk, v)
    <3>1. disk'.head[v] = disk.head[v]
      OBVIOUS
    <3>2. Loaded(disk', v) =
              [max |-> disk'.head[v].max, len |-> disk'.head[v].len,
               counter |-> disk'.head[v].counter, dirty |-> FALSE,
               node |-> [n \in Nodes |-> CleanNode(Images(disk', v)[n])]]
      BY LoadedFields, Zenon
    <3>3. Loaded(disk, v) =
              [max |-> disk.head[v].max, len |-> disk.head[v].len,
               counter |-> disk.head[v].counter, dirty |-> FALSE,
               node |-> [n \in Nodes |-> CleanNode(Images(disk, v)[n])]]
      BY LoadedFields, Zenon
    <3> QED BY <2>2, <3>1, <3>2, <3>3
  <2> QED BY <1>1, <1>3, <2>1, <2>3, DurableIs, DurableIsNext
<1> QED BY <1>2, <1>3

\* What a handle shows.
LEMMA WorkingIs ==
    /\ Opened => Working = Contents(ht)
    /\ ~Opened => Working = Durable
    /\ Opened' => Working' = Contents(ht')
    /\ ~Opened' => Working' = Durable'
BY DEF Working, Opened

\* What a write does to the contents.
LEMMA WrittenBlock ==
    ASSUME Shape, NEW n \in Nodes, WriteBlock(n)
    PROVE  /\ disk'.head = disk.head /\ disk'.node = disk.node
           /\ ht'.len = (IF n > ht.len THEN n ELSE ht.len)
           /\ ht'.node[n].image.tag = nwrites + 1
           /\ \A m \in Nodes \ {n} : ht'.node[m].image.tag = ht.node[m].image.tag
<1>1. disk'.head = disk.head /\ disk'.node = disk.node
  BY WriteFacts
<1>2. ht'.len = (IF n > ht.len THEN n ELSE ht.len)
  BY WriteFacts
<1>3. ht'.node[n].image.tag = nwrites + 1
  BY WriteFacts
<1>4. \A m \in Nodes \ {n} : ht'.node[m].image.tag = ht.node[m].image.tag
  <2>1. \A m \in Nodes \ {n} :
           /\ ht'.node[m].image = ht.node[m].image
           /\ ht'.node[m].block_updated = ht.node[m].block_updated
           /\ ht'.node[m].dirty = (ht.node[m].dirty \/ (m = 1 /\ n > ht.len))
    BY WriteFacts, Zenon
  <2> QED BY <2>1
<1> QED BY <1>1, <1>2, <1>3, <1>4

\* Every step of the hash tree is a step of the atomic file, or none.
LEMMA NextRefines ==
    ASSUME CutsAreSmall, HInv, HInv', [Next]_vars
    PROVE  [AF!FileNext]_<<Durable, Working>>
<1>0. /\ Shape /\ IsTree(ht) /\ IsDisk(disk) /\ Shape' /\ IsTree(ht') /\ IsDisk(disk')
      /\ useHash \in BOOLEAN /\ ht.len \in Nat /\ ht'.len \in Nat /\ ht.counter \in Nat
      /\ NumNodes \in Nat
  <2>1. /\ Shape /\ IsTree(ht) /\ IsDisk(disk) /\ Shape' /\ IsTree(ht') /\ IsDisk(disk')
        /\ useHash \in BOOLEAN
    BY DEF HInv, Shape
  <2>2. ht.len \in 0..NumNodes /\ ht'.len \in 0..NumNodes /\ NumNodes \in Nat
    BY <2>1, Sizes
  <2>3. ht.counter \in Nat
    BY <2>1 DEF IsTree
  <2> QED BY <2>1, <2>2, <2>3
<1>c. ASSUME Durable' = Working, Working' = Working PROVE AF!FileNext
  BY <1>c DEF AF!FileNext, AF!FileCommit
<1>1. CASE Create
  <2>1. /\ pc = "absent" /\ pc' = "sync" /\ ht'.len = 0 /\ ht'.counter = 0
    BY <1>1 DEF Create, FreshTree
  <2>2. ~Exists /\ ~Exists'
    BY <1>0, <2>1 DEF HInv, ExistsOK
  <2>3. Durable = <<>> /\ Durable' = <<>>
    BY <2>2 DEF Durable
  <2>4. Working = <<>> /\ Working' = <<>>
    BY <1>0, <2>1, <2>3, WorkingIs, ContentsFacts DEF Opened
  <2> QED BY <2>3, <2>4
<1>2. CASE CreateDummy
  <2>1. /\ pc = "dummy" /\ pc' \in {"record", "idle"} /\ UNCHANGED <<ht, anchor, useHash>>
    BY <1>2 DEF CreateDummy
  <2>2. disk' = disk
    BY <1>2, DummySame
  <2>3. Durable' = Durable
    BY <2>1, <2>2, DurableSame
  <2>4. Working' = Working
    BY <2>1, WorkingIs DEF Opened
  <2> QED BY <2>3, <2>4
<1>3. CASE Open
  <2>1. pc = "closed" /\ UNCHANGED <<disk, anchor, useHash>>
    BY <1>3 DEF Open
  <2>2. Exists
    BY <2>1 DEF HInv, ExistsOK
  <2>3. PICK v \in Vers : HeadIdx = v /\ Committed(v)
    BY <2>2 DEF HInv, CommitInv
  <2>4. pc' = "idle" /\ ht' = Loaded(disk, v)
    BY <1>3, <2>3 DEF Open, OpenSucceeds, Committed
  <2>5. Durable' = Durable /\ Durable = Contents(Loaded(disk, v))
    BY <2>1, <2>2, <2>3, DurableSame, DurableIs
  <2>6. Working = Durable /\ Working' = Contents(ht')
    BY <2>1, <2>4, WorkingIs DEF Opened
  <2> QED BY <2>4, <2>5, <2>6
<1>4. CASE Close
  <2>1. pc' \in {"absent", "closed"} /\ UNCHANGED <<disk, anchor, useHash>>
    BY <1>4 DEF Close
  <2>2. Durable' = Durable
    BY <2>1, DurableSame
  <2>3. Working' = Durable'
    BY <2>1, WorkingIs DEF Opened
  <2> QED BY <2>2, <2>3 DEF AF!FileNext, AF!FileLose
<1>5. ASSUME NEW n \in Nodes, WriteBlock(n) PROVE AF!FileNext
  <2>1. /\ pc = "idle" /\ pc' = "idle" /\ UNCHANGED <<anchor, useHash>>
        /\ n <= ht.len + 1 /\ nwrites < MaxWrites
    BY <1>5 DEF WriteBlock
  <2>2. /\ disk'.head = disk.head /\ disk'.node = disk.node
        /\ ht'.len = (IF n > ht.len THEN n ELSE ht.len)
        /\ ht'.node[n].image.tag = nwrites + 1
        /\ \A m \in Nodes \ {n} : ht'.node[m].image.tag = ht.node[m].image.tag
    BY <1>0, <1>5, WrittenBlock
  <2>3. Durable' = Durable
    BY <2>1, <2>2, DurableSame
  <2>4. Working = Contents(ht) /\ Working' = Contents(ht')
    BY <2>1, WorkingIs DEF Opened
  <2>5. Len(Working) = ht.len /\ \A m \in 1..ht.len : Working[m] = ht.node[m].image.tag
    BY <1>0, <2>4, ContentsFacts
  <2>6. n \in Nat /\ n \in 1..(Len(Working) + 1)
    BY <1>0, <2>1, <2>5, Parents DEF Nodes
  <2>7. nwrites + 1 \in 1..MaxWrites
    BY <1>0, <2>1, FsHtreeAssumption DEF Shape
  <2>8. ASSUME NEW m \in 1..ht'.len
        PROVE  ht'.node[m].image.tag = IF m = n THEN nwrites + 1 ELSE Working[m]
    <3>1. m \in Nodes
      BY <1>0, <2>8, Sizes
    <3>2. m # n => m \in 1..ht.len
      BY <1>0, <2>1, <2>2, <2>6, <2>8
    <3> QED BY <2>2, <2>5, <3>1, <3>2
  <2>9. Working' = [j \in 1..(IF n > Len(Working) THEN n ELSE Len(Working))
                       |-> IF j = n THEN nwrites + 1 ELSE Working[j]]
    <3>1. Working' = [j \in 1..ht'.len |-> ht'.node[j].image.tag]
      BY <2>4 DEF Contents
    <3>2. ht'.len = IF n > Len(Working) THEN n ELSE Len(Working)
      BY <2>2, <2>5
    <3> QED BY <2>8, <3>1, <3>2, Zenon
  <2>10. AF!FileWrite
    BY <2>3, <2>6, <2>7, <2>9 DEF AF!FileWrite
  <2> QED BY <2>10 DEF AF!FileNext
<1>6. ASSUME NEW len \in 0..NumNodes, Truncate(len) PROVE AF!FileNext
  <2>1. /\ pc = "idle" /\ pc' = "sync" /\ UNCHANGED <<anchor, useHash>>
        /\ ht.len - len \in Shrinks
    BY <1>6 DEF Truncate
  <2>2. len = ht.len - 1 /\ len \in Nat
    BY <1>0, <2>1 DEF CutsAreSmall
  <2>3. /\ ht'.len = len
        /\ ht'.node[1].image = ht.node[1].image
        /\ \A n \in Nodes \ {1} : InTree(ht', n) => ht'.node[n] = ht.node[n]
        /\ disk'.head = disk.head /\ disk'.node = disk.node
    BY <1>0, <1>6, TruncateFacts
  <2>4. Durable' = Durable
    BY <2>1, <2>3, DurableSame
  <2>5. Working = Contents(ht) /\ Working' = Contents(ht')
    BY <2>1, WorkingIs DEF Opened
  <2>6. \A n \in 1..len : ht'.node[n].image.tag = ht.node[n].image.tag
    <3>1. \A n \in 1..len : n \in Nodes /\ InTree(ht', n)
      BY <1>0, <2>3, Sizes
    <3> QED BY <2>3, <3>1
  <2>7. /\ Len(Working) = ht.len /\ Working \in Seq(Nat)
        /\ \A n \in 1..ht.len : Working[n] = ht.node[n].image.tag
    <3>1. \A n \in 1..ht.len : ht.node[n].image.tag \in Nat
      <4>1. \A n \in Nodes : IsImage(ht.node[n].image)
        BY <1>0 DEF IsTree, IsNode
      <4>2. \A n \in 1..ht.len : n \in Nodes
        BY <1>0, Sizes
      <4> QED BY <4>1, <4>2 DEF IsImage
    <3> QED BY <1>0, <2>5, <3>1, ContentsFacts DEF Contents
  <2>8. Working' = SubSeq(Working, 1, len)
    <3> DEFINE s == SubSeq(Working, 1, len)
    <3>1. s \in Seq(Nat) /\ Len(s) = len /\ \A n \in 1..len : s[n] = Working[n]
      <4>1. 1 \in 1..(Len(Working) + 1) /\ len \in (1 - 1)..Len(Working)
        BY <1>0, <2>2, <2>7
      <4> QED BY <2>2, <2>7, <4>1, SubSeqProperties
    <3> HIDE DEF s
    <3>2. s = [n \in 1..len |-> s[n]]
      BY <3>1
    <3>3. Working' = [n \in 1..len |-> ht'.node[n].image.tag]
      BY <2>3, <2>5 DEF Contents
    <3>4. \A n \in 1..len : s[n] = ht'.node[n].image.tag
      BY <1>0, <2>2, <2>6, <2>7, <3>1
    <3> QED BY <3>2, <3>3, <3>4, Zenon DEF s
  <2>9. len \in 0..Len(Working)
    BY <1>0, <2>2, <2>7
  <2> QED BY <2>4, <2>8, <2>9 DEF AF!FileNext, AF!FileTruncate
<1>7. CASE Sync
  <2>1. /\ pc = "idle" /\ pc' = "sync" /\ UNCHANGED <<disk, ht, anchor, useHash>>
    BY <1>7 DEF Sync
  <2>2. Durable' = Durable
    BY <2>1, DurableSame
  <2>3. Working' = Working
    BY <2>1, WorkingIs DEF Opened
  <2> QED BY <2>2, <2>3
<1>8. CASE SyncNode
  <2>1. /\ pc = "sync" /\ pc' = "sync" /\ todo # <<>> /\ UNCHANGED <<anchor, useHash>>
    BY <1>8 DEF SyncNode
  <2>2. todo \in Seq(Nodes)
    BY <2>1, SyncStart
  <2>3. Head(todo) \in Nodes
    BY <2>1, <2>2
  <2>w. Working = Contents(ht) /\ Working' = Contents(ht')
    BY <2>1, WorkingIs DEF Opened
  <2>s. ASSUME NEW n \in Nodes, NEW k, NodeSynced(n, k), KeepsCommit
        PROVE  Durable' = Durable /\ Working' = Working
    <3>1. Exists' = Exists
      BY <2>1, <2>s DEF Exists, NodeSynced
    <3>2. Durable' = Durable
      BY <1>0, <2>s, <3>1, DurableKept
    <3>3. \A m \in 1..ht.len : m \in Nodes
      BY <1>0, Sizes
    <3>4. Contents(ht') = Contents(ht)
      BY <2>s, <3>3, ContentsSame DEF NodeSynced
    <3> QED BY <2>w, <3>2, <3>4
  <2>4. CASE ~(InTree(ht, Head(todo)) /\ ht.node[Head(todo)].dirty)
    <3>1. UNCHANGED <<ht, disk>>
      BY <1>8, <2>4 DEF SyncNode
    <3> QED BY <2>1, <2>w, <3>1, DurableSame
  <2>5. CASE InTree(ht, Head(todo)) /\ ht.node[Head(todo)].dirty /\ Head(todo) = 1
    <3>1. NodeSynced(1, Flip(ht.counter % 2))
      BY <1>0, <1>8, <2>5, SyncRootFacts
    <3>2. KeepsCommit
      BY <1>8, <2>5, SyncRootInv
    <3> QED BY <2>3, <2>5, <2>s, <3>1, <3>2
  <2>6. CASE InTree(ht, Head(todo)) /\ ht.node[Head(todo)].dirty /\ Head(todo) # 1
    <3>1. PICK n \in Nodes \ {1} : n = Head(todo)
      BY <2>3, <2>6
    <3>2. NodeSynced(n, Flip(ht.node[n \div 2].image.kid[n % 2]))
      BY <1>0, <1>8, <2>6, <3>1, SyncKidFacts
    <3>3. KeepsCommit
      BY <1>8, <2>6, <3>1, SyncKidInv
    <3> QED BY <2>s, <3>1, <3>2, <3>3
  <2> QED BY <2>4, <2>5, <2>6
<1>9. CASE SyncHead
  <2>1. /\ pc = "sync" /\ UNCHANGED <<anchor, useHash>>
        /\ pc' = IF ht.counter = 0 THEN "dummy" ELSE IF useHash THEN "record" ELSE "idle"
    BY <1>9 DEF SyncHead
  <2>2. ht'.len = ht.len /\ ht'.node = ht.node /\ ht'.counter = ht.counter + 1 /\ ht'.dirty = FALSE
    <3>1. ht.counter < MaxCounter
      BY <2>1 DEF HInv, SyncOK
    <3> QED BY <1>0, <1>9, <3>1, SyncHeadFacts
  <2>3. Working = Contents(ht) /\ Working' = Contents(ht') /\ Working' = Working
    BY <2>1, <2>2, WorkingIs, ContentsSame DEF Opened
  <2>4. CASE useHash /\ ht.counter = 0
    <3>1. ~Exists /\ ~Exists'
      BY <1>0, <2>1, <2>4 DEF HInv, ExistsOK
    <3> QED BY <2>3, <3>1 DEF Durable
  <2>5. CASE useHash /\ ht.counter # 0
    <3>1. Exists' = Exists
      BY <2>1, <2>5 DEF Exists
    <3>2. KeepsCommit
      BY <1>9, <2>5, SyncHeadInv
    <3> QED BY <1>0, <2>3, <3>1, <3>2, DurableKept
  <2>6. CASE ~useHash /\ ht.counter = 0
    <3>1. pc' = "dummy" /\ ~useHash'
      BY <2>1, <2>6
    <3>2. Exists' /\ \E w \in Vers : Done(w)'
      BY <3>1 DEF HInv, ExistsOK
    <3>3. PICK w \in Vers : Done(w)'
      BY <3>2
    <3>4. ht' = Loaded(disk', w) /\ ht'.counter % 2 = w /\ ht'.counter = 1 /\ HeadIdx' = 1
      BY <3>1, <3>3 DEF Done
    <3>5. w = 1
      BY <3>4
    <3>6. Durable' = Contents(ht')
      BY <3>2, <3>4, <3>5, DurableIsNext
    <3> QED BY <1>c, <2>3, <3>6
  <2>7. CASE ~useHash /\ ht.counter # 0
    <3>1. pc' = "idle"
      BY <2>1, <2>7
    <3>2. Exists'
      BY <3>1 DEF HInv, ExistsOK
    <3>3. PICK v \in Vers : CommitInv(v)'
      BY <3>2 DEF HInv
    <3>4. HeadIdx' = v /\ ht' = Loaded(disk', v)
      BY <2>2, <3>1, <3>3 DEF CommitInv, FollowsIdle
    <3> QED BY <1>c, <2>3, <3>2, <3>4, DurableIsNext
  <2> QED BY <1>0, <2>4, <2>5, <2>6, <2>7
<1>10. CASE RecordHash
  <2>1. pc = "record" /\ pc' = "idle" /\ UNCHANGED <<disk, ht>>
    BY <1>10 DEF RecordHash
  <2>2. PICK w \in Vers : Done(w)
    BY <2>1 DEF HInv
  <2>3. ~ht'.dirty
    BY <2>1, <2>2, LoadedSizes DEF Done
  <2>4. Exists'
    BY <2>1 DEF HInv, ExistsOK
  <2>5. PICK v \in Vers : CommitInv(v)'
    BY <2>4 DEF HInv
  <2>6. HeadIdx' = v /\ ht' = Loaded(disk', v)
    BY <2>1, <2>3, <2>5 DEF CommitInv, FollowsIdle
  <2>7. Working = Contents(ht) /\ Working' = Contents(ht')
    BY <2>1, WorkingIs DEF Opened
  <2> QED BY <1>c, <2>1, <2>4, <2>6, <2>7, DurableIsNext
<1>11. CASE UNCHANGED vars
  <2>1. UNCHANGED <<disk, ht, pc, anchor, useHash>>
    BY <1>11 DEF vars
  <2>2. Durable' = Durable
    BY <2>1, DurableSame
  <2> QED BY <2>1, <2>2 DEF Working
<1> QED BY <1>1, <1>2, <1>3, <1>4, <1>5, <1>6, <1>7, <1>8, <1>9, <1>10, <1>11 DEF Next

\* The hash tree implements the atomic file that fs_htree.h promises: what a
\* later open finds changes in one step of tee_fs_htree_sync_to_storage() (or
\* of its caller, who records the hash), from the contents of one sync to
\* those of the next.
THEOREM UpdatesAreAtomic == CutsAreSmall => (Spec => ImplementsAtomicFile)
<1> SUFFICES ASSUME CutsAreSmall PROVE Spec => ImplementsAtomicFile
  OBVIOUS
<1>1. Init => AF!FileInit
  <2> SUFFICES ASSUME Init PROVE AF!FileInit
    OBVIOUS
  <2>1. pc = "absent" /\ HInv
    BY InitHInv DEF Init
  <2>2. ~Exists
    BY <2>1 DEF HInv, ExistsOK
  <2> QED BY <2>1, <2>2 DEF AF!FileInit, Durable, Working
<1>2. HInv /\ HInv' /\ [Next]_vars => [AF!FileNext]_<<Durable, Working>>
  BY NextRefines
<1>3. Spec => []HInv
  BY HInvHolds
<1> QED BY <1>1, <1>2, <1>3, PTL DEF Spec, ImplementsAtomicFile, AF!FileSpec

-----------------------------------------------------------------------------
(* Type correctness.                                                       *)

\* The shape of the state is inductive by itself: no condition on the cuts.
ShapeInv == Shape /\ (pc = "sync" => ht.counter < MaxCounter)

\* The parts of the shape.
LEMMA ShapeStep ==
    ASSUME Shape, pc' \in Pcs, useHash' = useHash, nwrites' = nwrites, todo' \in Seq(Nodes),
           IsDisk(disk'), IsTree(ht'), ht'.node[1].image.tag <= nwrites,
           \A v \in Vers : disk'.node[1][v].tag <= nwrites
    PROVE  Shape'
BY DEF Shape

\* Every step keeps the shape.
LEMMA NextShapeInv ==
    ASSUME ShapeInv, [Next]_vars
    PROVE  ShapeInv'
<1>0. /\ Shape /\ IsTree(ht) /\ IsDisk(disk) /\ nwrites \in Nat /\ todo \in Seq(Nodes)
      /\ ht.node[1].image.tag <= nwrites /\ 1 \in Nodes /\ 0 <= nwrites
      /\ \A v \in Vers : disk.node[1][v].tag <= nwrites
      /\ ZeroNode.tag = 0 /\ PostOrder[1] \in Seq(Nodes) /\ <<>> \in Seq(Nodes)
  BY FsHtreeAssumption, Parents, PostOrderOK DEF ShapeInv, Shape, ZeroNode
<1>1. CASE Create
  <2>1. /\ disk' = EmptyDisk /\ pc' = "sync" /\ todo' = PostOrder[1]
        /\ ht' = CreatedTree /\ useHash' = useHash /\ nwrites' = nwrites
    BY <1>1 DEF Create, CreatedTree
  <2>2. IsTree(ht') /\ ht'.counter = 0 /\ ht'.node[1].image = ZeroNode
    BY <2>1, CreatedIsTree
  <2>3. IsDisk(disk') /\ \A v \in Vers : disk'.node[1][v] = ZeroNode
    BY <1>0, <2>1, EmptyIsDisk
  <2>4. pc' \in Pcs /\ 0 < MaxCounter
    BY <2>1, FsHtreeAssumption DEF Pcs
  <2> QED BY <1>0, <2>1, <2>2, <2>3, <2>4, ShapeStep DEF ShapeInv
<1>2. CASE CreateDummy
  <2>1. /\ disk' = [disk EXCEPT !.head[0] = ZeroHead] /\ pc' \in {"record", "idle"}
        /\ UNCHANGED <<ht, todo, useHash, nwrites>>
    BY <1>2 DEF CreateDummy
  <2>2. disk'.node = disk.node /\ IsDisk(disk')
    <3>1. IsHead(ZeroHead) /\ 0 \in Vers
      BY FsHtreeAssumption DEF IsHead, ZeroHead, SizeOK, Vers
    <3>2. /\ disk'.node = disk.node /\ disk'.block = disk.block
          /\ disk'.head = [disk.head EXCEPT ![0] = ZeroHead]
          /\ disk' = [head |-> disk'.head, node |-> disk'.node, block |-> disk'.block]
      BY <1>0, <2>1 DEF IsDisk
    <3>3. /\ disk.head = [v \in Vers |-> disk.head[v]] /\ \A v \in Vers : IsHead(disk.head[v])
      BY <1>0 DEF IsDisk
    <3>4. /\ disk'.head = [v \in Vers |-> disk'.head[v]]
          /\ \A v \in Vers : IsHead(disk'.head[v])
      BY <3>1, <3>2, <3>3
    <3> QED BY <1>0, <3>2, <3>4 DEF IsDisk
  <2>3. pc' \in Pcs /\ pc' # "sync"
    BY <2>1 DEF Pcs
  <2> QED BY <1>0, <2>1, <2>2, <2>3, ShapeStep DEF ShapeInv
<1>3. CASE Open
  <2>1. UNCHANGED <<disk, todo, useHash, nwrites>> /\ pc' \in {"idle", "corrupt"}
    BY <1>3 DEF Open
  <2>2. IsTree(ht') /\ ht'.node[1].image.tag <= nwrites
    <3>1. CASE OpenSucceeds
      <4>1. PICK v \in Vers : v = HeadIdx
        BY <3>1 DEF OpenSucceeds
      <4>2. ht' = Loaded(disk, v)
        BY <1>3, <3>1, <4>1 DEF Open
      <4> QED BY <1>0, <4>2, LoadedTree
    <3>2. CASE ~OpenSucceeds
      BY <1>0, <1>3, <3>2 DEF Open
    <3> QED BY <3>1, <3>2
  <2>3. pc' \in Pcs /\ pc' # "sync"
    BY <2>1 DEF Pcs
  <2> QED BY <1>0, <2>1, <2>2, <2>3, ShapeStep DEF ShapeInv
<1>4. CASE Close
  <2>1. /\ ht' = FreshTree /\ todo' = <<>> /\ UNCHANGED <<disk, useHash, nwrites>>
        /\ pc' \in {"absent", "closed"}
    BY <1>4 DEF Close
  <2>2. IsTree(ht') /\ ht'.node[1].image = ZeroNode
    BY <1>0, <2>1, FreshIsTree, FreshImages
  <2>3. pc' \in Pcs /\ pc' # "sync"
    BY <2>1 DEF Pcs
  <2> QED BY <1>0, <2>1, <2>2, <2>3, ShapeStep DEF ShapeInv
<1>5. ASSUME NEW n \in Nodes, WriteBlock(n) PROVE ShapeInv'
  <2>1. /\ pc = "idle" /\ UNCHANGED <<pc, todo, useHash>> /\ nwrites < MaxWrites
        /\ nwrites' = nwrites + 1
    BY <1>5 DEF WriteBlock
  <2>2. /\ disk'.node = disk.node /\ ht'.node[n].image.tag = nwrites + 1
        /\ \A m \in Nodes \ {n} : ht'.node[m].image.tag = ht.node[m].image.tag
    BY <1>0, <1>5, WrittenBlock
  <2>3. IsDisk(disk') /\ IsTree(ht')
    BY <1>0, <1>5, WriteFacts
  <2>4. nwrites' \in 0..MaxWrites
    BY <1>0, <2>1, FsHtreeAssumption
  <2>5. ht'.node[1].image.tag <= nwrites'
    <3>1. ht.node[1].image.tag \in Nat
      <4>1. IsImage(ht.node[1].image)
        BY <1>0 DEF IsTree, IsNode
      <4> QED BY <4>1 DEF IsImage
    <3> QED BY <1>0, <2>1, <2>2, <3>1
  <2>6. \A v \in Vers : disk'.node[1][v].tag <= nwrites'
    <3>1. \A v \in Vers : disk.node[1][v].tag \in Nat
      <4>1. \A v \in Vers : IsImage(disk.node[1][v])
        BY <1>0 DEF IsDisk
      <4> QED BY <4>1 DEF IsImage
    <3> QED BY <1>0, <2>1, <2>2, <3>1
  <2>7. Shape'
    BY <1>0, <2>1, <2>3, <2>4, <2>5, <2>6 DEF Shape
  <2> QED BY <2>1, <2>7 DEF ShapeInv
<1>6. ASSUME NEW len \in 0..NumNodes, Truncate(len) PROVE ShapeInv'
  <2>1. /\ ht.counter < MaxCounter /\ pc' = "sync" /\ todo' = PostOrder[1]
        /\ UNCHANGED <<useHash, nwrites>>
    BY <1>6 DEF Truncate
  <2>2. /\ ht'.counter = ht.counter /\ IsTree(ht') /\ ht'.node[1].image = ht.node[1].image
        /\ disk'.node = disk.node /\ IsDisk(disk')
    BY <1>0, <1>6, TruncateFacts
  <2>3. pc' \in Pcs
    BY <2>1 DEF Pcs
  <2> QED BY <1>0, <2>1, <2>2, <2>3, ShapeStep DEF ShapeInv
<1>7. CASE Sync
  <2>1. /\ ht.counter < MaxCounter /\ pc' = "sync" /\ todo' = PostOrder[1]
        /\ UNCHANGED <<disk, ht, useHash, nwrites>>
    BY <1>7 DEF Sync
  <2>2. pc' \in Pcs
    BY <2>1 DEF Pcs
  <2> QED BY <1>0, <2>1, <2>2, ShapeStep DEF ShapeInv
<1>8. CASE SyncNode
  <2>1. /\ pc = "sync" /\ todo # <<>> /\ todo' = Tail(todo)
        /\ UNCHANGED <<pc, useHash, nwrites>>
    BY <1>8 DEF SyncNode
  <2>2. Head(todo) \in Nodes /\ todo' \in Seq(Nodes)
    BY <1>0, <2>1
  <2>s. ASSUME NEW n \in Nodes, NEW k, NodeSynced(n, k) PROVE ShapeInv'
    <3>1. Shape'
      BY <1>0, <2>1, <2>2, <2>s, SyncedShape
    <3>2. ht'.counter = ht.counter
      BY <2>s DEF NodeSynced
    <3> QED BY <2>1, <3>1, <3>2 DEF ShapeInv
  <2>4. CASE ~(InTree(ht, Head(todo)) /\ ht.node[Head(todo)].dirty)
    <3>1. UNCHANGED <<ht, disk>>
      BY <1>8, <2>4 DEF SyncNode
    <3>2. pc' \in Pcs
      BY <2>1 DEF Pcs
    <3> QED BY <1>0, <2>1, <2>2, <3>1, <3>2, ShapeStep DEF ShapeInv
  <2>5. CASE InTree(ht, Head(todo)) /\ ht.node[Head(todo)].dirty /\ Head(todo) = 1
    <3>1. NodeSynced(1, Flip(ht.counter % 2))
      BY <1>0, <1>8, <2>5, SyncRootFacts
    <3> QED BY <1>0, <2>s, <3>1
  <2>6. CASE InTree(ht, Head(todo)) /\ ht.node[Head(todo)].dirty /\ Head(todo) # 1
    <3>1. PICK n \in Nodes \ {1} : n = Head(todo)
      BY <2>2, <2>6
    <3>2. NodeSynced(n, Flip(ht.node[n \div 2].image.kid[n % 2]))
      BY <1>0, <1>8, <2>6, <3>1, SyncKidFacts
    <3> QED BY <2>s, <3>1, <3>2
  <2> QED BY <2>4, <2>5, <2>6
<1>9. CASE SyncHead
  <2>1. /\ pc = "sync" /\ pc' \in {"dummy", "record", "idle"} /\ UNCHANGED <<todo, useHash, nwrites>>
    BY <1>9 DEF SyncHead
  <2>2. ht.counter < MaxCounter
    BY <2>1 DEF ShapeInv
  <2>3. ht'.node = ht.node /\ IsTree(ht') /\ disk'.node = disk.node /\ IsDisk(disk')
    BY <1>0, <1>9, <2>2, SyncHeadFacts
  <2>4. pc' \in Pcs /\ pc' # "sync"
    BY <2>1 DEF Pcs
  <2> QED BY <1>0, <2>1, <2>3, <2>4, ShapeStep DEF ShapeInv
<1>10. CASE RecordHash
  <2>1. pc' = "idle" /\ UNCHANGED <<disk, ht, todo, useHash, nwrites>>
    BY <1>10 DEF RecordHash
  <2>2. pc' \in Pcs
    BY <2>1 DEF Pcs
  <2> QED BY <1>0, <2>1, <2>2, ShapeStep DEF ShapeInv
<1>11. CASE UNCHANGED vars
  BY <1>11 DEF ShapeInv, Shape, vars
<1> QED BY <1>1, <1>2, <1>3, <1>4, <1>5, <1>6, <1>7, <1>8, <1>9, <1>10, <1>11 DEF Next

\* Type correctness, for every size of tree and every way of cutting it.
THEOREM TypeCorrect == Spec => []TypeOK
<1>1. Init => ShapeInv
  BY InitHInv DEF HInv, ShapeInv, Init
<1>2. ShapeInv /\ [Next]_vars => ShapeInv'
  BY NextShapeInv
<1>3. ShapeInv => TypeOK
  <2> SUFFICES ASSUME ShapeInv PROVE TypeOK
    OBVIOUS
  <2>1. Shape /\ IsTree(ht) /\ IsDisk(disk)
    BY DEF ShapeInv, Shape
  <2>2. ht.max \in 0..NumNodes /\ ht.len \in 0..NumNodes
    BY <2>1, Sizes
  <2>3. /\ ht.counter \in 0..MaxCounter
        /\ \A n \in Nodes : ht.node[n].block_updated => ht.node[n].dirty
    BY <2>1 DEF IsTree, IsNode
  <2>4. \A n \in Nodes, v \in Vers : disk.block[n][v] \in 0..MaxWrites
    BY <2>1 DEF IsDisk
  <2> QED BY <2>1, <2>2, <2>3, <2>4 DEF TypeOK, Shape
<1> QED BY <1>1, <1>2, <1>3, PTL DEF Spec
=============================================================================
