---------------------------- MODULE StorageProofs ----------------------------
(***************************************************************************)
(* Proofs about persistent objects on the REE file system, for any number  *)
(* of sessions, names, contents and file numbers.                          *)
(*                                                                         *)
(* The inductive invariant SInv says how five pieces of state agree that   *)
(* no single lock protects together: the directory on the disk, the one in *)
(* memory, the files, the table of open objects and the sessions' handles. *)
(* Its heart is that an object open for writing or renaming has one user   *)
(* (PobjInv), so that the directory entry of a writer is touched by nobody *)
(* else between its calls (FilesInv): what a write spoils is then never    *)
(* the version the directory vouches for, and what it records goes to its  *)
(* own entry.                                                              *)
(*                                                                         *)
(* One lemma per action shows that it keeps SInv.  Each goes through one   *)
(* of three lemmas on whole classes of steps: QuietStep (the disk is left  *)
(* alone), DiskStep (a file operation of one session) and HaltStep.  The   *)
(* last part shows that each step is a step of the abstract store.         *)
(***************************************************************************)
EXTENDS Storage, FiniteSetTheorems, WellFoundedInduction, TLAPS

-----------------------------------------------------------------------------
(* The invariant.                                                          *)

Pcs == {"idle", "open", "head", "create", "create_name", "create_unlink", "have",
        "write_sync", "write_commit", "remove", "remove_unlink", "rename", "renamed",
        "rename_undo", "close", "release"}

\* A client in a file operation of several steps, and in a rename.
Busy == {"create_name", "create_unlink", "write_sync", "write_commit", "remove_unlink"}
Renames == {"rename", "renamed", "rename_undo"}

Flags == OpenFlags \cup CreateFlags
Dirh == [open : BOOLEAN, tree : BOOLEAN, tab : [Index -> Entry \cup {None}],
         bits : SUBSET Numbers]
Client == [pc : Pcs, name : Names \cup {None}, flags : Flags \cup {{}},
           fh : Handle \cup {None}, new : Names \cup {None},
           old : Numbers \cup {None}]
Enum == [pc : {"none", "failed", "ready", "open", "peek"}, valid : BOOLEAN,
         idx : Nat, name : Names \cup {None}]

Shape ==
    /\ dir \in [Index -> Entry \cup {None}]
    /\ file \in [Numbers -> File \cup {None}]
    /\ dirh \in Dirh
    /\ dirhRef \in Nat
    /\ pobj \in [Names -> Pobj \cup {None}]
    /\ cl \in [Clients -> Client]
    /\ en \in [Clients -> Enum]
    /\ halted \in {"no", "tree", "enum"}

\* What a client's struct tee_obj holds at each point of a call.
PcOK(r) ==
    /\ r.pc = "idle" <=> r.name = None
    /\ r.pc \in Renames <=> r.new # None
    /\ r.pc \in {"idle", "open", "create", "release"} => r.fh = None
    /\ r.pc \in {"head", "have", "close", "create_name", "create_unlink", "write_sync",
                  "write_commit"} \cup Renames => r.fh # None
    /\ r.pc \in {"write_sync", "write_commit"} => "W" \in r.flags
    /\ r.pc \in {"create_unlink", "remove_unlink"} => r.old \in Numbers
    /\ r.pc \in Renames => "META" \in r.flags /\ r.new # r.name
    /\ r.fh # None => r.fh.hash # None

PcInv == \A c \in Clients : PcOK(cl[c])

\* ree_fs_mutex is held exactly during those operations, by one client, and
\* the directory is open then.
MutexInv ==
    /\ \A c \in Clients : c \in mutex <=> cl[c].pc \in Busy
    /\ mutex \subseteq Clients
    /\ \A c, d \in mutex : c = d
    /\ mutex # {} => dirh.open

\* A directory in memory is the one on the disk, and the numbers of its files
\* are marked as used.
DirhOK(d) ==
    d.open => /\ d.tab = dir
              /\ \A i \in Index : dir[i] # None => dir[i].num \in d.bits

\* No two objects of the directory have a name or a file in common.
DirInv ==
    \A i, j \in Index :
       /\ dir[i] # None /\ dir[j] # None
       /\ dir[i].name = dir[j].name \/ dir[i].num = dir[j].num
       => i = j

Named(n) == {c \in Clients : cl[c].name = n}
Renaming(n) == {c \in Clients : cl[c].new = n}

\* Flags that admit no second user of the object.
Exclusive(f) == "W" \in f \/ "META" \in f

\* The table of open objects has the objects in use, with their users counted,
\* and one that is open for writing, for renaming or under a new name has one
\* user.
PobjOK(n) ==
    /\ pobj[n] = None <=> Named(n) = {} /\ Renaming(n) = {}
    /\ pobj[n] # None =>
          /\ pobj[n].refcnt = Cardinality(Named(n)) + Cardinality(Renaming(n))
          /\ \A c \in Named(n) : Exclusive(cl[c].flags) => Exclusive(pobj[n].flags)
          /\ Renaming(n) # {} => Exclusive(pobj[n].flags)
          /\ Exclusive(pobj[n].flags) =>
                \A c, d \in Named(n) \cup Renaming(n) : c = d

PobjInv == \A n \in Names : PobjOK(n)

\* Version v of file k has content x.
Has(k, v, x) == file[k] # None /\ file[k][v] = x

\* A client that may write to its file.
Writer(c) == /\ "W" \in cl[c].flags
             /\ cl[c].pc \in {"head", "have", "create_unlink", "write_sync", "write_commit"}
                             \cup Renames

\* The name in the directory of the object c has.
OnDisk(c) == IF cl[c].pc = "renamed" THEN cl[c].new ELSE cl[c].name

\* The handle and the directory entry e of a writer agree.  After the
\* synchronisation its version is the new one and the directory has the other
\* one.
HandleOK(c, h, e) ==
    /\ e # None /\ e.num = h.num /\ e.name = OnDisk(c)
    /\ cl[c].pc = "write_commit" => /\ Has(h.num, h.base, h.hash)
                                    /\ Has(h.num, 1 - h.base, e.hash)
    /\ cl[c].pc # "write_commit" => h.hash = e.hash /\ Has(h.num, h.base, e.hash)

\* The file of a create is complete and nobody else has its number.
NewFileOK(h) ==
    /\ Has(h.num, h.base, h.hash)
    /\ h.num \in dirh.bits
    /\ \A i \in Index : dir[i] # None => dir[i].num # h.num

\* The file that is about to go has no entry, and after a removal the name has
\* none.
UnlinkOK(r) ==
    \A i \in Index : dir[i] # None => /\ dir[i].num # r.old
                                      /\ r.pc = "remove_unlink" => dir[i].name # r.name

FilesInv ==
    \A c \in Clients :
       /\ Writer(c) => HandleOK(c, cl[c].fh, dir[cl[c].fh.idx])
       /\ cl[c].pc = "create_name" => NewFileOK(cl[c].fh)
       /\ cl[c].pc \in {"create_unlink", "remove_unlink"} => UnlinkOK(cl[c])

SInv == /\ Shape /\ PcInv /\ MutexInv /\ DirhOK(dirh) /\ DirInv /\ PobjInv
        /\ FilesInv /\ Recoverable /\ DirhRefsMatch

-----------------------------------------------------------------------------
(* Numbers and counts.                                                     *)

\* Every non-empty set of numbers has a least element.
LEMMA LeastNumber ==
    ASSUME NEW T \in SUBSET Nat, T # {}
    PROVE  Min(T) \in T
<1> DEFINE R == OpToRel(<, Nat)
<1>1. IsWellFoundedOn(R, Nat)
  BY NatLessThanWellFounded
<1>2. \A x, y \in Nat : x < y => <<x, y>> \in R
  BY DEF OpToRel
<1> HIDE DEF R
<1>3. PICK m \in T : \A y \in T : ~(<<y, m>> \in R)
  BY <1>1, WFMin
<1>4. \A y \in T : m =< y
  <2> TAKE y \in T
  <2>1. y \in Nat /\ m \in Nat
    OBVIOUS
  <2>2. ~(<<y, m>> \in R) /\ (y < m => <<y, m>> \in R)
    BY <1>2, <1>3, <2>1, Zenon
  <2> QED BY <2>1, <2>2
<1> QED BY <1>4, Zenon DEF Min

\* The least element of a singleton.
LEMMA OnlyNumber ==
    ASSUME NEW T, NEW i \in Nat, T = {i}
    PROVE  Min(T) = i
<1>1. Min(T) \in T
  BY LeastNumber
<1> QED BY <1>1

\* The numbers of files and entries.
LEMMA Sizes ==
    /\ Cardinality(Names) \in Nat /\ NumFiles \in Nat
    /\ Index \subseteq Nat /\ Numbers \subseteq Nat
    /\ Names # {} => 0 \in Index
<1>1. Cardinality(Names) \in Nat /\ (Cardinality(Names) = 0 <=> Names = {})
  BY StorageAssumption, FS_CardinalityType, FS_EmptySet
<1> QED BY <1>1, StorageAssumption DEF Index, Numbers

\* None is none of the things it stands in for.
LEMMA NoneIsNothing ==
    /\ None \notin Names /\ None \notin Data /\ None \notin Entry /\ None \notin File
    /\ None \notin Handle /\ None \notin Pobj
  BY StorageAssumption

One(b) == IF b THEN 1 ELSE 0

\* Two sets of clients that differ in c at most.
LEMMA Count ==
    ASSUME NEW A \in SUBSET Clients, NEW B \in SUBSET Clients, NEW c \in Clients,
           \A d \in Clients : d # c => (d \in A <=> d \in B)
    PROVE  /\ Cardinality(A) \in Nat /\ Cardinality(B) \in Nat
           /\ Cardinality(B) = Cardinality(A) + One(c \in B) - One(c \in A)
           /\ Cardinality(A) >= One(c \in A)
<1> DEFINE R == A \ {c}
<1>1. IsFiniteSet(R) /\ IsFiniteSet(A) /\ IsFiniteSet(B) /\ c \notin R
  BY StorageAssumption, FS_Subset
<1>2. Cardinality(R) \in Nat /\ Cardinality(R \cup {c}) = Cardinality(R) + 1
  BY <1>1, FS_CardinalityType, FS_AddElement
<1>3. A = IF c \in A THEN R \cup {c} ELSE R
  OBVIOUS
<1>4. B = IF c \in B THEN R \cup {c} ELSE R
  OBVIOUS
<1> HIDE DEF R
<1>5. Cardinality(A) = Cardinality(R) + One(c \in A)
  BY <1>2, <1>3 DEF One
<1>6. Cardinality(B) = Cardinality(R) + One(c \in B)
  BY <1>2, <1>4 DEF One
<1> QED BY <1>2, <1>5, <1>6 DEF One

\* A directory in which n has no entry has room for it.
LEMMA RoomForName ==
    ASSUME NEW t \in [Index -> Entry \cup {None}], NEW n \in Names,
           \A i, j \in Index : t[i] # None /\ t[j] # None /\ t[i].name = t[j].name => i = j,
           Find(t, n) = {}
    PROVE  FirstFree(t) \in Index /\ t[FirstFree(t)] = None
<1>1. {i \in Index : t[i] = None} # {}
  <2> SUFFICES ASSUME \A i \in Index : t[i] # None PROVE FALSE
    OBVIOUS
  <2> DEFINE R == Names \ {n}
             f == [i \in Index |-> t[i].name]
  <2>1. IsFiniteSet(Names) /\ IsFiniteSet(R) /\ Cardinality(R) = Cardinality(Names) - 1
    BY StorageAssumption, FS_RemoveElement
  <2>2. /\ Cardinality(Names) \in Nat
        /\ Index = 0 .. Cardinality(Names) - 1
    BY Sizes DEF Index
  <2>3. Cardinality(Index) = Cardinality(Names) /\ IsFiniteSet(Index)
    <3>1. Cardinality(Names) - 1 \in Int
      BY <2>2
    <3> QED BY <2>2, <3>1, FS_Interval
  <2>4. f \in Injection(Index, R)
    <3>1. \A i \in Index : t[i].name \in R
      BY DEF Entry, Find
    <3> QED BY <3>1 DEF Injection, IsInjective
  <2>5. Cardinality(Index) <= Cardinality(R)
    BY <2>1, <2>3, <2>4, FS_Injection
  <2> QED BY <2>1, <2>2, <2>3, <2>5
<1>2. FirstFree(t) \in {i \in Index : t[i] = None}
  BY <1>1, Sizes, LeastNumber DEF FirstFree
<1> QED BY <1>2

-----------------------------------------------------------------------------
(* The directory and its references.                                       *)

\* get_dirh() gives the directory of the disk.
LEMMA TheDirectory ==
    ASSUME Shape, DirhOK(dirh), DirInv
    PROVE  /\ GetDirh \in Dirh /\ GetDirh.open /\ GetDirh.tab = dir
           /\ \A i \in Index : dir[i] # None => dir[i].num \in GetDirh.bits
           /\ dirh.open => GetDirh = dirh
<1>1. CASE dirh.open
  BY <1>1 DEF GetDirh, DirhOK, Shape, Dirh
<1>2. CASE ~dirh.open
  <2>1. GetDirh = DirfileOpen(dir)
    BY <1>2 DEF GetDirh
  <2>2. \A i \in Index : ~ \E j \in Index : /\ j < i /\ dir[i] # None /\ dir[j] # None
                                            /\ dir[i].num = dir[j].num
    BY Sizes DEF DirInv
  <2>3. [i \in Index |-> IF \E j \in Index : /\ j < i /\ dir[i] # None /\ dir[j] # None
                                             /\ dir[i].num = dir[j].num
                         THEN None ELSE dir[i]] = dir
    BY <2>2 DEF Shape
  <2>4. {dir[i].num : i \in {j \in Index : dir[j] # None}} \subseteq Numbers
    BY DEF Shape, Entry
  <2> QED BY <1>2, <2>1, <2>3, <2>4 DEF DirfileOpen, Dirh, Shape
<1> QED BY <1>1, <1>2

\* After a failed request it has lost its tree at most.
LEMMA FailedDirectory ==
    ASSUME Shape, DirhOK(dirh), DirInv, NEW d \in FailedDirh
    PROVE  /\ d \in Dirh
           /\ d.open => d.tab = GetDirh.tab /\ d.bits = GetDirh.bits
           /\ d.open = FALSE => dirh.open = FALSE
<1>1. GetDirh \in Dirh /\ GetDirh.open
  BY TheDirectory
<1>2. Closed \in Dirh /\ ~Closed.open
  BY DEF Closed, Dirh, EmptyTable
<1>3. CASE d = Closed /\ ~dirh.open
  BY <1>2, <1>3 DEF Shape, Dirh
<1>4. CASE d = GetDirh
  BY <1>1, <1>4 DEF Dirh
<1>5. CASE d = [GetDirh EXCEPT !.tree = FALSE]
  BY <1>1, <1>5 DEF Dirh
<1>6. (d = Closed /\ ~dirh.open) \/ d = GetDirh \/ d = [GetDirh EXCEPT !.tree = FALSE]
  BY DEF FailedDirh
<1> QED BY <1>3, <1>4, <1>5, <1>6

\* tee_fs_dirfile_find() finds the one entry with the name.
LEMMA Found ==
    ASSUME Shape, DirInv, NEW n, Find(dir, n) # {}
    PROVE  \E i \in Index : /\ Min(Find(dir, n)) = i /\ Find(dir, n) = {i}
                            /\ dir[i] \in Entry /\ dir[i] # None /\ dir[i].name = n
<1>1. PICK i \in Index : dir[i] # None /\ dir[i].name = n
  BY DEF Find
<1>2. Find(dir, n) = {i}
  BY <1>1 DEF Find, DirInv
<1>3. Min(Find(dir, n)) = i
  BY <1>2, OnlyNumber, Sizes
<1> QED BY <1>1, <1>2, <1>3 DEF Shape

\* put_dirh_primitive() closes the directory or leaves it.
LEMMA PutDirhFacts ==
    ASSUME Shape, NEW d \in Dirh, NEW refs \in Nat, NEW close, PutDirh(d, refs, close)
    PROVE  /\ dirh' \in Dirh /\ dirhRef' = refs /\ dirhRef' \in Nat
           /\ dirh'.open => dirh' = d
           /\ refs = 0 => ~dirh'.open
           /\ en' \in [Clients -> Enum] /\ \A x \in Clients : en'[x].pc = en[x].pc
<1>1. Closed \in Dirh /\ ~Closed.open
  BY DEF Closed, Dirh, EmptyTable
<1>2. dirh' = (IF d.open /\ (refs = 0 \/ close) THEN Closed ELSE d) /\ dirhRef' = refs
  BY DEF PutDirh
<1>3. en' \in [Clients -> Enum] /\ \A x \in Clients : en'[x].pc = en[x].pc
  <2>1. CASE en' = en
    BY <2>1 DEF Shape
  <2>2. CASE en' = [c \in Clients |-> [en[c] EXCEPT !.valid = FALSE]]
    BY <2>2 DEF Shape, Enum
  <2> QED BY <2>1, <2>2 DEF PutDirh
<1> QED BY <1>1, <1>2, <1>3 DEF Dirh

\* The references of c to the directory.
Held(c) == One(cl[c].fh # None) + One(cl[c].pc \in {"write_sync", "write_commit", "remove_unlink"})
         + One(en[c].pc \in {"ready", "open", "peek"}) + One(en[c].pc = "peek")

\* The directory has at least the references of c.
LEMMA RefsOf ==
    ASSUME DirhRefsMatch, NEW c \in Clients
    PROVE  dirhRef >= Held(c) /\ dirhRef \in Nat /\ Held(c) \in Nat
<1> DEFINE A == {x \in Clients : cl[x].fh # None}
           B == {x \in Clients : cl[x].pc \in {"write_sync", "write_commit", "remove_unlink"}}
           C == {x \in Clients : en[x].pc \in {"ready", "open", "peek"}}
           D == {x \in Clients : en[x].pc = "peek"}
<1>1. dirhRef = Cardinality(A) + Cardinality(B) + Cardinality(C) + Cardinality(D)
  BY DEF DirhRefsMatch
<1>2. Held(c) = One(c \in A) + One(c \in B) + One(c \in C) + One(c \in D)
  BY DEF Held
<1>3. \A S \in SUBSET Clients : Cardinality(S) \in Nat /\ Cardinality(S) >= One(c \in S)
  BY Count
<1>4. /\ Cardinality(A) \in Nat /\ Cardinality(A) >= One(c \in A)
      /\ Cardinality(B) \in Nat /\ Cardinality(B) >= One(c \in B)
      /\ Cardinality(C) \in Nat /\ Cardinality(C) >= One(c \in C)
      /\ Cardinality(D) \in Nat /\ Cardinality(D) >= One(c \in D)
  BY <1>3
<1> HIDE DEF A, B, C, D
<1>5. \A b : One(b) \in Nat
  BY DEF One
<1>6. /\ One(c \in A) \in Nat /\ One(c \in B) \in Nat
      /\ One(c \in C) \in Nat /\ One(c \in D) \in Nat
  BY <1>5
<1> QED BY <1>1, <1>2, <1>4, <1>6

\* A step of c that takes or gives back as many references as it counts.
LEMMA RefsStep ==
    ASSUME DirhRefsMatch, NEW c \in Clients,
           \A x \in Clients : x # c => /\ cl'[x].fh = cl[x].fh /\ cl'[x].pc = cl[x].pc
                                       /\ en'[x].pc = en[x].pc,
           dirhRef' = dirhRef + Held(c)' - Held(c),
           dirhRef' = 0 => ~dirh'.open
    PROVE  DirhRefsMatch'
<1> DEFINE A == {x \in Clients : cl[x].fh # None}
           B == {x \in Clients : cl[x].pc \in {"write_sync", "write_commit", "remove_unlink"}}
           C == {x \in Clients : en[x].pc \in {"ready", "open", "peek"}}
           D == {x \in Clients : en[x].pc = "peek"}
<1>1. dirhRef = Cardinality(A) + Cardinality(B) + Cardinality(C) + Cardinality(D)
  BY DEF DirhRefsMatch
<1>2. Held(c) = One(c \in A) + One(c \in B) + One(c \in C) + One(c \in D)
  BY DEF Held
<1>3. Held(c)' = One(c \in A') + One(c \in B') + One(c \in C') + One(c \in D')
  BY DEF Held
<1>4. \A b : One(b) \in Nat
  BY DEF One
<1>5. Cardinality(A') = Cardinality(A) + One(c \in A') - One(c \in A) /\ Cardinality(A) \in Nat
  <2>1. \A x \in Clients : x # c => (x \in A <=> x \in A')
    OBVIOUS
  <2> QED BY <2>1, Count
<1>6. Cardinality(B') = Cardinality(B) + One(c \in B') - One(c \in B) /\ Cardinality(B) \in Nat
  <2>1. \A x \in Clients : x # c => (x \in B <=> x \in B')
    OBVIOUS
  <2> QED BY <2>1, Count
<1>7. Cardinality(C') = Cardinality(C) + One(c \in C') - One(c \in C) /\ Cardinality(C) \in Nat
  <2>1. \A x \in Clients : x # c => (x \in C <=> x \in C')
    OBVIOUS
  <2> QED BY <2>1, Count
<1>8. Cardinality(D') = Cardinality(D) + One(c \in D') - One(c \in D) /\ Cardinality(D) \in Nat
  <2>1. \A x \in Clients : x # c => (x \in D <=> x \in D')
    OBVIOUS
  <2> QED BY <2>1, Count
<1>9. dirhRef' = Cardinality(A') + Cardinality(B') + Cardinality(C') + Cardinality(D')
  <2>1. /\ One(c \in A) \in Nat /\ One(c \in B) \in Nat
        /\ One(c \in C) \in Nat /\ One(c \in D) \in Nat
        /\ One(c \in A') \in Nat /\ One(c \in B') \in Nat
        /\ One(c \in C') \in Nat /\ One(c \in D') \in Nat
    BY <1>4
  <2> HIDE DEF A, B, C, D
  <2> QED BY <1>1, <1>2, <1>3, <1>5, <1>6, <1>7, <1>8, <2>1
<1> QED BY <1>9 DEF DirhRefsMatch

-----------------------------------------------------------------------------
(* The table of open objects.                                              *)

\* The users of every object stay as they are.
LEMMA PobjKept ==
    ASSUME PobjInv, UNCHANGED pobj,
           \A x \in Clients : /\ cl'[x].name = cl[x].name /\ cl'[x].new = cl[x].new
                              /\ cl'[x].flags = cl[x].flags
    PROVE  PobjInv'
<1> SUFFICES ASSUME NEW n \in Names PROVE PobjOK(n)'
  BY DEF PobjInv
<1>1. Named(n)' = Named(n) /\ Renaming(n)' = Renaming(n)
  BY DEF Named, Renaming
<1>2. \A c \in Named(n) : cl'[c].flags = cl[c].flags
  BY DEF Named
<1> QED BY <1>1, <1>2 DEF PobjInv, PobjOK

\* The users of n stay as they are.
LEMMA PobjKeptAt ==
    ASSUME PobjInv, NEW n \in Names, pobj'[n] = pobj[n], NEW c \in Clients,
           \A x \in Clients \ {c} : cl'[x] = cl[x],
           cl'[c].flags = cl[c].flags \/ c \notin Named(n),
           cl'[c].name = n <=> cl[c].name = n, cl'[c].new = n <=> cl[c].new = n
    PROVE  PobjOK(n)'
<1>1. Named(n)' = Named(n) /\ Renaming(n)' = Renaming(n)
  BY DEF Named, Renaming
<1>2. \A x \in Named(n) : cl'[x].flags = cl[x].flags
  BY DEF Named
<1> QED BY <1>1, <1>2 DEF PobjInv, PobjOK

\* Who can write to an object is its only user.
LEMMA OneWriter ==
    ASSUME Shape, PcInv, PobjInv, NEW w \in Clients, Writer(w), NEW c \in Clients,
           cl[c].name = OnDisk(w) \/ cl[c].new = OnDisk(w)
    PROVE  c = w
<1> DEFINE n == OnDisk(w)
<1>1. PcOK(cl[w]) /\ cl[w] \in Client
  BY DEF PcInv, Shape
<1>2. n \in Names /\ (w \in Named(n) \/ w \in Renaming(n))
  BY <1>1 DEF OnDisk, PcOK, Named, Renaming, Writer, Renames, Client
<1>3. PobjOK(n)
  BY <1>2 DEF PobjInv
<1>4. w \in Named(n) \cup Renaming(n) /\ c \in Named(n) \cup Renaming(n)
  BY <1>2 DEF Named, Renaming
<1>5. pobj[n] # None /\ Exclusive(pobj[n].flags)
  <2>1. Exclusive(cl[w].flags)
    BY DEF Writer, Exclusive
  <2> HIDE DEF n
  <2> QED BY <1>2, <1>3, <2>1 DEF PobjOK
<1> HIDE DEF n
<1> QED BY <1>3, <1>4, <1>5 DEF PobjOK

\* A renaming client is the only user of the name it has and of the new one.
LEMMA OneRenamer ==
    ASSUME Shape, PcInv, PobjInv, NEW c \in Clients, cl[c].pc \in Renames
    PROVE  /\ cl[c].name \in Names /\ cl[c].new \in Names /\ cl[c].new # cl[c].name
           /\ Named(cl[c].name) = {c} /\ Renaming(cl[c].name) = {}
           /\ Named(cl[c].new) = {} /\ Renaming(cl[c].new) = {c}
           /\ pobj[cl[c].name].refcnt = 1 /\ pobj[cl[c].new].refcnt = 1
           /\ pobj[cl[c].name] \in Pobj /\ pobj[cl[c].new] \in Pobj
<1>1. PcOK(cl[c]) /\ cl[c] \in Client
  BY DEF PcInv, Shape
<1>2. PICK n, m : n = cl[c].name /\ m = cl[c].new
  OBVIOUS
<1>3. n \in Names /\ m \in Names /\ m # n /\ "META" \in cl[c].flags
  BY <1>1, <1>2 DEF PcOK, Client, Renames
<1>4. c \in Named(n) /\ c \in Renaming(m) /\ c \notin Named(m) /\ c \notin Renaming(n)
  BY <1>2, <1>3 DEF Named, Renaming
<1>5. PobjOK(n) /\ PobjOK(m)
  BY <1>3 DEF PobjInv
<1>6. /\ pobj[n] # None /\ Exclusive(pobj[n].flags)
      /\ pobj[m] # None /\ Exclusive(pobj[m].flags)
  BY <1>3, <1>4, <1>5 DEF PobjOK, Exclusive
<1>7. Named(n) = {c} /\ Renaming(n) = {} /\ Named(m) = {} /\ Renaming(m) = {c}
  BY <1>4, <1>5, <1>6 DEF PobjOK
<1>8. Cardinality({c}) = 1 /\ Cardinality({}) = 0
  BY FS_Singleton, FS_EmptySet
<1>9. pobj[n].refcnt = 1 /\ pobj[m].refcnt = 1
  BY <1>5, <1>6, <1>7, <1>8 DEF PobjOK
<1> QED BY <1>2, <1>3, <1>6, <1>7, <1>9 DEF Shape

\* tee_pobj_get(): a new object, or one more user of an object that is not
\* exclusive, with flags that are not exclusive either.
LEMMA PobjGetFacts ==
    ASSUME Shape, NEW n \in Names, NEW f \in Flags \cup {{"META"}}, NEW tmp \in BOOLEAN,
           PobjGet(n, f, tmp)
    PROVE  /\ pobj' \in [Names -> Pobj \cup {None}]
           /\ \A m \in Names \ {n} : pobj'[m] = pobj[m]
           /\ pobj'[n] \in Pobj /\ pobj'[n] # None
           /\ \/ pobj[n] = None /\ pobj'[n].refcnt = 1 /\ pobj'[n].flags = f
              \/ /\ pobj[n] # None /\ pobj'[n].refcnt = pobj[n].refcnt + 1
                 /\ pobj'[n].flags = pobj[n].flags
                 /\ ~Exclusive(pobj[n].flags) /\ ~Exclusive(f)
<1>0. pobj \in [Names -> Pobj \cup {None}] /\ None \notin Pobj
  BY NoneIsNothing DEF Shape
<1>1. CASE pobj[n] = None
  <2>1. PICK p : p = [refcnt |-> 1, flags |-> f, temporary |-> tmp]
    OBVIOUS
  <2>2. p \in Pobj /\ p.refcnt = 1 /\ p.flags = f
    BY <2>1 DEF Pobj, Flags
  <2>3. pobj' = [pobj EXCEPT ![n] = p]
    BY <1>1, <2>1 DEF PobjGet
  <2> QED BY <1>0, <1>1, <2>2, <2>3
<1>2. CASE pobj[n] # None
  <2>1. pobj[n] \in Pobj /\ pobj' = [pobj EXCEPT ![n].refcnt = @ + 1]
    BY <1>0, <1>2 DEF PobjGet
  <2>2. PICK p : p = [pobj[n] EXCEPT !.refcnt = pobj[n].refcnt + 1]
    OBVIOUS
  <2>3. p \in Pobj /\ p.refcnt = pobj[n].refcnt + 1 /\ p.flags = pobj[n].flags
    BY <2>1, <2>2 DEF Pobj
  <2>4. pobj' = [pobj EXCEPT ![n] = p]
    BY <1>0, <2>1, <2>2
  <2>5. \A g \in Flags \cup {{"META"}} : "SW" \notin g
    BY StorageAssumption DEF Flags
  <2>6. pobj[n].flags \in Flags \cup {{"META"}}
    BY <2>1 DEF Pobj, Flags
  <2>7. ~Exclusive(pobj[n].flags) /\ ~Exclusive(f)
    BY <1>2, <2>5, <2>6 DEF PobjGet, CheckAccess, Exclusive
  <2> QED BY <1>0, <1>2, <2>3, <2>4, <2>7
<1> QED BY <1>1, <1>2

\* A client without an object opens or creates n.
LEMMA OpenPobj ==
    ASSUME Shape, PcInv, PobjInv, NEW c \in Clients, cl[c].pc = "idle",
           NEW n \in Names, NEW f \in Flags, NEW tmp \in BOOLEAN, PobjGet(n, f, tmp),
           \A x \in Clients \ {c} : cl'[x] = cl[x],
           cl'[c].name = n, cl'[c].new = None, cl'[c].flags = f
    PROVE  PobjInv'
<1>1. cl[c].name = None /\ cl[c].new = None /\ None \notin Names
  BY NoneIsNothing DEF PcInv, PcOK, Renames
<1>2. /\ \A m \in Names \ {n} : pobj'[m] = pobj[m]
      /\ pobj'[n] \in Pobj /\ pobj'[n] # None
      /\ \/ pobj[n] = None /\ pobj'[n].refcnt = 1 /\ pobj'[n].flags = f
         \/ /\ pobj[n] # None /\ pobj'[n].refcnt = pobj[n].refcnt + 1
            /\ pobj'[n].flags = pobj[n].flags
            /\ ~Exclusive(pobj[n].flags) /\ ~Exclusive(f)
  BY PobjGetFacts
<1>3. ASSUME NEW m \in Names \ {n} PROVE PobjOK(m)'
  <2>1. c \notin Named(m) /\ pobj'[m] = pobj[m]
    BY <1>1, <1>2 DEF Named
  <2> QED BY <1>1, <2>1, PobjKeptAt
<1>4. PobjOK(n)'
  <2>1. /\ Named(n)' = Named(n) \cup {c} /\ c \notin Named(n) /\ Renaming(n)' = Renaming(n)
        /\ Named(n)' \in SUBSET Clients /\ Named(n) \in SUBSET Clients
        /\ Renaming(n) \in SUBSET Clients
    BY <1>1 DEF Named, Renaming
  <2>2. Cardinality(Named(n)') = Cardinality(Named(n)) + 1 /\ Cardinality(Named(n)) \in Nat
    <3>1. \A d \in Clients : d # c => (d \in Named(n) <=> d \in Named(n)')
      BY <2>1
    <3> QED BY <2>1, <3>1, Count DEF One
  <2>3. Cardinality(Renaming(n)) \in Nat /\ Cardinality({}) = 0
    BY <2>1, Count, FS_EmptySet
  <2>4. PobjOK(n)
    BY DEF PobjInv
  <2>5. \A x \in Named(n) : cl'[x].flags = cl[x].flags
    BY <2>1 DEF Named
  <2>6. CASE pobj[n] = None
    <3>1. Named(n) = {} /\ Renaming(n) = {}
      BY <2>4, <2>6 DEF PobjOK
    <3>2. pobj'[n].refcnt = Cardinality(Named(n)') + Cardinality(Renaming(n)')
      BY <1>2, <2>1, <2>2, <2>3, <2>6, <3>1
    <3> QED BY <1>2, <2>1, <2>6, <3>1, <3>2 DEF PobjOK
  <2>7. CASE pobj[n] # None
    <3>1. /\ pobj[n].refcnt = Cardinality(Named(n)) + Cardinality(Renaming(n))
          /\ \A d \in Named(n) : Exclusive(cl[d].flags) => Exclusive(pobj[n].flags)
          /\ Renaming(n) # {} => Exclusive(pobj[n].flags)
      BY <2>4, <2>7 DEF PobjOK
    <3>2. pobj'[n].refcnt = Cardinality(Named(n)') + Cardinality(Renaming(n)')
      BY <1>2, <2>1, <2>2, <2>3, <2>7, <3>1
    <3> QED BY <1>2, <2>1, <2>5, <2>7, <3>1, <3>2 DEF PobjOK
  <2> QED BY <2>6, <2>7
<1> QED BY <1>3, <1>4 DEF PobjInv

\* A client reserves n as the new name of its object: nobody else uses n.
LEMMA ReservePobj ==
    ASSUME Shape, PcInv, PobjInv, NEW c \in Clients, cl[c].pc = "have",
           NEW n \in Names, PobjGet(n, {"META"}, FALSE),
           \A x \in Clients \ {c} : cl'[x] = cl[x],
           cl'[c].name = cl[c].name, cl'[c].new = n, cl'[c].flags = cl[c].flags
    PROVE  PobjInv' /\ cl[c].name # n
<1>1. cl[c].new = None /\ None \notin Names
  BY NoneIsNothing DEF PcInv, PcOK, Renames
<1>2. /\ \A m \in Names \ {n} : pobj'[m] = pobj[m]
      /\ pobj'[n] \in Pobj /\ pobj'[n] # None
      /\ pobj[n] = None /\ pobj'[n].refcnt = 1 /\ pobj'[n].flags = {"META"}
  BY PobjGetFacts DEF Exclusive
<1>3. Named(n) = {} /\ Renaming(n) = {}
  BY <1>2 DEF PobjInv, PobjOK
<1>4. cl[c].name # n
  BY <1>3 DEF Named
<1>5. ASSUME NEW m \in Names \ {n} PROVE PobjOK(m)'
  <2>1. pobj'[m] = pobj[m]
    BY <1>2
  <2> QED BY <1>1, <2>1, PobjKeptAt
<1>6. PobjOK(n)'
  <2>1. Named(n)' = {} /\ Renaming(n)' = {c}
    BY <1>3, <1>4 DEF Named, Renaming
  <2>2. Cardinality({c}) = 1 /\ Cardinality({}) = 0
    BY FS_Singleton, FS_EmptySet
  <2> QED BY <1>2, <2>1, <2>2 DEF PobjOK, Exclusive
<1> QED BY <1>4, <1>5, <1>6 DEF PobjInv

\* tee_pobj_release().
LEMMA ReleasedFacts ==
    ASSUME NEW p \in [Names -> Pobj \cup {None}], NEW n \in Names, p[n] \in Pobj,
           p[n].refcnt >= 1
    PROVE  /\ Released(p, n) \in [Names -> Pobj \cup {None}]
           /\ \A m \in Names \ {n} : Released(p, n)[m] = p[m]
           /\ p[n].refcnt = 1 => Released(p, n)[n] = None
           /\ p[n].refcnt # 1 => /\ Released(p, n)[n] \in Pobj
                                 /\ Released(p, n)[n].refcnt = p[n].refcnt - 1
                                 /\ Released(p, n)[n].flags = p[n].flags
<1>1. CASE p[n].refcnt = 1
  BY <1>1 DEF Released
<1>2. CASE p[n].refcnt # 1
  <2>1. PICK r : r = [p[n] EXCEPT !.refcnt = p[n].refcnt - 1]
    OBVIOUS
  <2>2. r \in Pobj /\ r.refcnt = p[n].refcnt - 1 /\ r.flags = p[n].flags
    BY <1>2, <2>1 DEF Pobj
  <2>3. Released(p, n) = [p EXCEPT ![n] = r]
    BY <1>2, <2>1 DEF Released
  <2> QED BY <1>2, <2>2, <2>3
<1> QED BY <1>1, <1>2

\* A client gives up its object.
LEMMA ReleasePobj ==
    ASSUME Shape, PcInv, PobjInv, NEW c \in Clients, cl[c].pc = "release",
           pobj' = Released(pobj, cl[c].name),
           \A x \in Clients \ {c} : cl'[x] = cl[x],
           cl'[c].name = None, cl'[c].new = None
    PROVE  PobjInv' /\ pobj' \in [Names -> Pobj \cup {None}]
<1>1. PcOK(cl[c]) /\ cl[c] \in Client /\ None \notin Names /\ None \notin Pobj
  BY NoneIsNothing DEF PcInv, Shape
<1>2. PICK n : n = cl[c].name
  OBVIOUS
<1>3. n \in Names /\ cl[c].new = None
  BY <1>1, <1>2 DEF PcOK, Client, Renames
<1>4. PobjOK(n) /\ c \in Named(n) /\ pobj[n] # None /\ pobj[n] \in Pobj
  <2>1. PobjOK(n) /\ c \in Named(n)
    BY <1>2, <1>3 DEF PobjInv, Named
  <2>2. pobj[n] # None
    BY <2>1 DEF PobjOK
  <2> QED BY <1>3, <2>1, <2>2 DEF Shape
<1>5. /\ Named(n)' = Named(n) \ {c} /\ Renaming(n)' = Renaming(n)
      /\ Named(n)' \in SUBSET Clients /\ Named(n) \in SUBSET Clients
      /\ Renaming(n) \in SUBSET Clients
  BY <1>1, <1>2, <1>3 DEF Named, Renaming
<1>6. /\ Cardinality(Named(n)') = Cardinality(Named(n)) - 1 /\ Cardinality(Named(n)) \in Nat
      /\ Cardinality(Named(n)) >= 1
  <2>1. \A d \in Clients : d # c => (d \in Named(n) <=> d \in Named(n)')
    BY <1>5
  <2> QED BY <1>4, <1>5, <2>1, Count DEF One
<1>7. /\ Cardinality(Renaming(n)) \in Nat /\ (Cardinality(Renaming(n)) = 0 <=> Renaming(n) = {})
      /\ Cardinality(Named(n)') = 0 <=> Named(n)' = {}
  <2>1. IsFiniteSet(Renaming(n)) /\ IsFiniteSet(Named(n)')
    BY <1>5, StorageAssumption, FS_Subset
  <2> QED BY <2>1, FS_CardinalityType, FS_EmptySet
<1>8. /\ pobj[n].refcnt = Cardinality(Named(n)) + Cardinality(Renaming(n))
      /\ pobj[n].refcnt >= 1
  BY <1>4, <1>6, <1>7 DEF PobjOK
<1>9. /\ pobj' \in [Names -> Pobj \cup {None}]
      /\ \A m \in Names \ {n} : pobj'[m] = pobj[m]
      /\ pobj[n].refcnt = 1 => pobj'[n] = None
      /\ pobj[n].refcnt # 1 => /\ pobj'[n] \in Pobj /\ pobj'[n].refcnt = pobj[n].refcnt - 1
                               /\ pobj'[n].flags = pobj[n].flags
  BY <1>2, <1>3, <1>4, <1>8, ReleasedFacts DEF Shape
<1>10. ASSUME NEW m \in Names \ {n} PROVE PobjOK(m)'
  <2>1. c \notin Named(m) /\ pobj'[m] = pobj[m] /\ cl[c].name # m /\ cl'[c].name # m
    BY <1>1, <1>2, <1>9 DEF Named
  <2> QED BY <1>1, <1>3, <2>1, PobjKeptAt
<1>11. PobjOK(n)'
  <2>1. CASE pobj[n].refcnt = 1
    <3>1. Named(n)' = {} /\ Renaming(n)' = {}
      BY <1>5, <1>6, <1>7, <1>8, <2>1
    <3> QED BY <1>9, <2>1, <3>1 DEF PobjOK
  <2>2. CASE pobj[n].refcnt # 1
    <3>1. ~(Named(n)' = {} /\ Renaming(n)' = {})
      <4>1. pobj[n].refcnt = Cardinality(Named(n)') + 1 + Cardinality(Renaming(n))
        BY <1>6, <1>7, <1>8
      <4> QED BY <1>5, <1>7, <2>2, <4>1
    <3>2. pobj'[n].refcnt = Cardinality(Named(n)') + Cardinality(Renaming(n)')
      BY <1>5, <1>6, <1>7, <1>8, <1>9, <2>2
    <3>3. \A x \in Named(n)' : x \in Named(n) /\ cl'[x].flags = cl[x].flags
      BY <1>5 DEF Named
    <3> QED BY <1>1, <1>4, <1>5, <1>9, <2>2, <3>1, <3>2, <3>3 DEF PobjOK
  <2> QED BY <2>1, <2>2
<1> QED BY <1>9, <1>10, <1>11 DEF PobjInv

\* The rename fails, or the open object cannot take the new name: it is given up.
LEMMA UndoPobj ==
    ASSUME Shape, PcInv, PobjInv, NEW c \in Clients, cl[c].pc \in Renames,
           pobj' = Released(pobj, cl[c].new),
           \A x \in Clients \ {c} : cl'[x] = cl[x],
           cl'[c].name = cl[c].name, cl'[c].new = None, cl'[c].flags = cl[c].flags
    PROVE  PobjInv' /\ pobj' \in [Names -> Pobj \cup {None}]
<1>1. PICK n, m : n = cl[c].name /\ m = cl[c].new
  OBVIOUS
<1>2. /\ n \in Names /\ m \in Names /\ m # n /\ Named(m) = {} /\ Renaming(m) = {c}
      /\ pobj[m].refcnt = 1 /\ pobj[m] \in Pobj
  BY <1>1, OneRenamer
<1>3. /\ pobj' \in [Names -> Pobj \cup {None}] /\ pobj'[m] = None
      /\ \A k \in Names \ {m} : pobj'[k] = pobj[k]
  BY <1>1, <1>2, ReleasedFacts DEF Shape
<1>4. ASSUME NEW k \in Names \ {m} PROVE PobjOK(k)'
  <2>1. pobj'[k] = pobj[k] /\ cl[c].new # k /\ cl'[c].new # k
    BY <1>1, <1>3, NoneIsNothing
  <2> QED BY <2>1, PobjKeptAt
<1>5. PobjOK(m)'
  <2>1. Named(m)' = {} /\ Renaming(m)' = {}
    BY <1>1, <1>2, NoneIsNothing DEF Named, Renaming
  <2> QED BY <1>3, <2>1 DEF PobjOK
<1> QED BY <1>3, <1>4, <1>5 DEF PobjInv

\* The rename succeeds: the object takes the new name.
LEMMA RenamePobj ==
    ASSUME Shape, PcInv, PobjInv, NEW c \in Clients, PobjRename(c)
    PROVE  /\ PobjInv' /\ pobj' \in [Names -> Pobj \cup {None}]
           /\ cl' = [cl EXCEPT ![c].pc = "have", ![c].name = cl[c].new, ![c].new = None]
<1>0. cl[c].pc = "renamed" /\ cl[c] \in Client /\ cl \in [Clients -> Client]
  BY DEF PobjRename, At, Shape
<1>1. PICK n, m : n = cl[c].name /\ m = cl[c].new
  OBVIOUS
<1>2. /\ n \in Names /\ m \in Names /\ m # n /\ Named(m) = {} /\ Renaming(m) = {c}
      /\ Named(n) = {c} /\ Renaming(n) = {} /\ pobj[n].refcnt = 1 /\ pobj[n] \in Pobj
      /\ pobj[m].refcnt = 1 /\ pobj[m] \in Pobj
  BY <1>0, <1>1, OneRenamer DEF Renames
<1>3. PICK p : p = Released(pobj, m)
  OBVIOUS
<1>4. /\ p \in [Names -> Pobj \cup {None}] /\ p[m] = None
      /\ \A k \in Names \ {m} : p[k] = pobj[k]
  BY <1>2, <1>3, ReleasedFacts DEF Shape
<1>5. /\ pobj' = [p EXCEPT ![n] = None, ![m] = pobj[n]]
      /\ cl' = [cl EXCEPT ![c].pc = "have", ![c].name = m, ![c].new = None]
  BY <1>1, <1>2, <1>3 DEF PobjRename
<1>6. /\ pobj' \in [Names -> Pobj \cup {None}] /\ pobj'[n] = None /\ pobj'[m] = pobj[n]
      /\ \A k \in Names \ {n, m} : pobj'[k] = pobj[k]
  BY <1>2, <1>4, <1>5
<1>7. /\ cl'[c].name = m /\ cl'[c].new = None /\ cl'[c].flags = cl[c].flags
      /\ \A x \in Clients \ {c} : cl'[x] = cl[x]
  BY <1>0, <1>5 DEF Client
<1>8. ASSUME NEW k \in Names \ {n, m} PROVE PobjOK(k)'
  <2>1. pobj'[k] = pobj[k] /\ cl[c].new # k /\ cl'[c].new # k /\ cl[c].name # k /\ cl'[c].name # k
    BY <1>1, <1>6, <1>7, NoneIsNothing
  <2> QED BY <1>7, <2>1, PobjKeptAt
<1>9. PobjOK(n)'
  <2>1. Named(n)' = {} /\ Renaming(n)' = {}
    BY <1>1, <1>2, <1>7, NoneIsNothing DEF Named, Renaming
  <2> QED BY <1>6, <2>1 DEF PobjOK
<1>10. PobjOK(m)'
  <2>1. Named(m)' = {c} /\ Renaming(m)' = {}
    BY <1>1, <1>2, <1>7, NoneIsNothing DEF Named, Renaming
  <2>2. PobjOK(n) /\ pobj[n] # None
    BY <1>2, NoneIsNothing DEF PobjInv
  <2>3. Exclusive(cl[c].flags) => Exclusive(pobj[n].flags)
    BY <1>2, <2>2 DEF PobjOK
  <2>4. Cardinality({c}) = 1 /\ Cardinality({}) = 0
    BY FS_Singleton, FS_EmptySet
  <2> QED BY <1>2, <1>6, <1>7, <2>1, <2>2, <2>3, <2>4 DEF PobjOK
<1> QED BY <1>1, <1>5, <1>6, <1>8, <1>9, <1>10 DEF PobjInv

-----------------------------------------------------------------------------
(* Steps that leave the disk as it is.                                     *)

\* What is known of a client's file.
FileOK(c) ==
    /\ Writer(c) => HandleOK(c, cl[c].fh, dir[cl[c].fh.idx])
    /\ cl[c].pc = "create_name" => NewFileOK(cl[c].fh)
    /\ cl[c].pc \in {"create_unlink", "remove_unlink"} => UnlinkOK(cl[c])

\* Nothing that a client's file depends on changes.
LEMMA FileKept ==
    ASSUME SInv, NEW x \in Clients, cl'[x] = cl[x], UNCHANGED <<dir, file>>,
           dirh' = dirh \/ mutex = {}
    PROVE  FileOK(x)'
<1>1. FileOK(x)
  BY DEF SInv, FilesInv, FileOK
<1>2. Writer(x)' => HandleOK(x, cl[x].fh, dir[cl[x].fh.idx])'
  BY <1>1 DEF FileOK, Writer, HandleOK, Has, OnDisk
<1>3. cl[x].pc = "create_name" => dirh' = dirh
  BY DEF SInv, MutexInv, Busy
<1>4. cl'[x].pc = "create_name" => NewFileOK(cl[x].fh)'
  BY <1>1, <1>3 DEF FileOK, NewFileOK, Has
<1>5. cl'[x].pc \in {"create_unlink", "remove_unlink"} => UnlinkOK(cl[x])'
  BY <1>1 DEF FileOK, UnlinkOK
<1> QED BY <1>2, <1>4, <1>5 DEF FileOK

\* A step of c outside the mutex, or of a whole file operation, that leaves the
\* disk and the others alone.
LEMMA QuietStep ==
    ASSUME SInv, NEW c \in Clients, UNCHANGED <<dir, file, mutex>>,
           cl' \in [Clients -> Client], \A x \in Clients \ {c} : cl'[x] = cl[x],
           cl[c].pc \notin Busy, cl'[c].pc \notin Busy, PcOK(cl'[c]),
           Writer(c)' => HandleOK(c, cl[c].fh, dir[cl[c].fh.idx])',
           \/ dirh' = dirh
           \/ /\ mutex = {} /\ dirh' \in Dirh
              /\ dirh'.open => dirh'.tab = GetDirh.tab /\ dirh'.bits = GetDirh.bits,
           en' \in [Clients -> Enum], \A x \in Clients \ {c} : en'[x].pc = en[x].pc,
           dirhRef' \in Nat, dirhRef' = dirhRef + Held(c)' - Held(c),
           dirhRef' = 0 => ~dirh'.open,
           pobj' \in [Names -> Pobj \cup {None}], PobjInv', UNCHANGED halted
    PROVE  SInv'
<1>1. GetDirh \in Dirh /\ GetDirh.open /\ GetDirh.tab = dir
      /\ \A i \in Index : dir[i] # None => dir[i].num \in GetDirh.bits
  BY TheDirectory DEF SInv
<1>2. Shape'
  BY DEF SInv, Shape
<1>3. PcInv'
  BY DEF SInv, PcInv
<1>4. MutexInv'
  BY DEF SInv, MutexInv
<1>5. DirhOK(dirh)' /\ DirInv'
  BY <1>1 DEF SInv, DirhOK, DirInv
<1>6. ASSUME NEW x \in Clients PROVE FileOK(x)'
  <2>1. CASE x = c
    BY <2>1 DEF FileOK, Busy
  <2>2. CASE x # c
    BY <2>2, FileKept
  <2> QED BY <2>1, <2>2
<1>7. FilesInv'
  BY <1>6 DEF FilesInv, FileOK
<1>8. Recoverable'
  BY DEF SInv, Recoverable, Versions
<1>9. DirhRefsMatch'
  <2>1. \A x \in Clients : x # c => /\ cl'[x].fh = cl[x].fh /\ cl'[x].pc = cl[x].pc
                                    /\ en'[x].pc = en[x].pc
    OBVIOUS
  <2> QED BY <2>1, RefsStep DEF SInv
<1> QED BY <1>2, <1>3, <1>4, <1>5, <1>7, <1>8, <1>9 DEF SInv

\* Everything in memory is gone.
LEMMA HaltStep ==
    ASSUME SInv, NEW why \in {"no", "tree", "enum"}, Halt(why)
    PROVE  SInv'
<1>1. /\ dirh' = Closed /\ dirhRef' = 0 /\ mutex' = {} /\ pobj' = [n \in Names |-> None]
      /\ cl' = [c \in Clients |-> IdleClient] /\ en' = [c \in Clients |-> NoEnum]
      /\ halted' = why /\ UNCHANGED <<dir, file>>
  BY DEF Halt
<1>2. /\ IdleClient \in Client /\ PcOK(IdleClient) /\ IdleClient.pc = "idle"
      /\ IdleClient.name = None /\ IdleClient.new = None /\ IdleClient.fh = None
  BY DEF IdleClient, Client, Pcs, PcOK, Renames, Busy
<1>3. NoEnum \in Enum /\ NoEnum.pc = "none"
  BY DEF NoEnum, Enum
<1>4. Closed \in Dirh /\ ~Closed.open
  BY DEF Closed, Dirh, EmptyTable
<1>5. Shape'
  BY <1>1, <1>2, <1>3, <1>4 DEF SInv, Shape
<1>6. PcInv'
  BY <1>1, <1>2 DEF PcInv
<1>7. MutexInv'
  BY <1>1, <1>2 DEF MutexInv, Busy
<1>8. DirhOK(dirh)' /\ DirInv' /\ Recoverable'
  BY <1>1, <1>4 DEF SInv, DirhOK, DirInv, Recoverable, Versions
<1>9. FilesInv'
  BY <1>1, <1>2 DEF FilesInv, Writer, Renames
<1>10. PobjInv'
  <2>1. \A n \in Names : Named(n)' = {} /\ Renaming(n)' = {} /\ pobj'[n] = None
    BY <1>1, <1>2, NoneIsNothing DEF Named, Renaming
  <2> QED BY <2>1 DEF PobjInv, PobjOK
<1>11. DirhRefsMatch'
  <2>1. /\ {x \in Clients : cl'[x].fh # None} = {}
        /\ {x \in Clients : cl'[x].pc \in {"write_sync", "write_commit", "remove_unlink"}} = {}
        /\ {x \in Clients : en'[x].pc \in {"ready", "open", "peek"}} = {}
        /\ {x \in Clients : en'[x].pc = "peek"} = {}
    BY <1>1, <1>2, <1>3
  <2>2. Cardinality({}) = 0
    BY FS_EmptySet
  <2>3. dirhRef' = 0 /\ ~dirh'.open /\ 0 = 0 + 0 + 0 + 0
    BY <1>1, <1>4
  <2> QED BY <2>1, <2>2, <2>3 DEF DirhRefsMatch
<1> QED BY <1>5, <1>6, <1>7, <1>8, <1>9, <1>10, <1>11 DEF SInv

\* A client goes on to another point of its call.
LEMMA GotoFacts ==
    ASSUME cl \in [Clients -> Client], NEW c \in Clients, NEW l \in Pcs, Goto(c, l)
    PROVE  /\ cl' \in [Clients -> Client] /\ \A x \in Clients \ {c} : cl'[x] = cl[x]
           /\ cl'[c].pc = l /\ cl'[c].name = cl[c].name /\ cl'[c].new = cl[c].new
           /\ cl'[c].flags = cl[c].flags /\ cl'[c].fh = cl[c].fh /\ cl'[c].old = cl[c].old
  BY DEF Goto, Client

\* The steps of a client that only moves, without a change to its references.
LEMMA MoveStep ==
    ASSUME SInv, NEW c \in Clients, NEW l \in Pcs, Goto(c, l), cl[c].pc \notin Busy, l \notin Busy,
           PcOK(cl'[c]), UNCHANGED <<dir, file, mutex, pobj, halted>>,
           Writer(c)' => Writer(c) /\ OnDisk(c)' = OnDisk(c),
           \/ UNCHANGED <<dirh, dirhRef, en>>
           \/ mutex = {} /\ \E close \in BOOLEAN, d \in FailedDirh : PutDirh(d, dirhRef, close)
    PROVE  SInv'
<1>1. Shape /\ DirhOK(dirh) /\ DirInv /\ PobjInv /\ FilesInv /\ MutexInv /\ DirhRefsMatch
  BY DEF SInv
<1>2. /\ cl' \in [Clients -> Client] /\ \A x \in Clients \ {c} : cl'[x] = cl[x]
      /\ cl'[c].pc = l /\ cl'[c].name = cl[c].name /\ cl'[c].new = cl[c].new
      /\ cl'[c].flags = cl[c].flags /\ cl'[c].fh = cl[c].fh /\ cl'[c].old = cl[c].old
  BY <1>1, GotoFacts DEF Shape
<1>3. /\ dirh' \in Dirh /\ dirhRef' = dirhRef /\ dirhRef' \in Nat
      /\ \/ dirh' = dirh
         \/ mutex = {} /\ (dirh'.open => dirh'.tab = GetDirh.tab /\ dirh'.bits = GetDirh.bits)
      /\ dirhRef' = 0 => ~dirh'.open
      /\ en' \in [Clients -> Enum] /\ \A x \in Clients : en'[x].pc = en[x].pc
  <2>1. CASE UNCHANGED <<dirh, dirhRef, en>>
    BY <1>1, <2>1 DEF Shape, DirhRefsMatch
  <2>2. CASE mutex = {} /\ \E close \in BOOLEAN, d \in FailedDirh : PutDirh(d, dirhRef, close)
    <3>1. PICK close \in BOOLEAN, d \in FailedDirh : PutDirh(d, dirhRef, close)
      BY <2>2
    <3>2. d \in Dirh /\ dirhRef \in Nat /\ (d.open => d.tab = GetDirh.tab /\ d.bits = GetDirh.bits)
      BY <1>1, FailedDirectory DEF Shape
    <3>3. /\ dirh' \in Dirh /\ dirhRef' = dirhRef /\ dirhRef' \in Nat
          /\ dirh'.open => dirh' = d
          /\ dirhRef = 0 => ~dirh'.open
          /\ en' \in [Clients -> Enum] /\ \A x \in Clients : en'[x].pc = en[x].pc
      BY <1>1, <3>1, <3>2, PutDirhFacts
    <3> QED BY <2>2, <3>2, <3>3
  <2> QED BY <2>1, <2>2
<1>4. dirhRef' = dirhRef + Held(c)' - Held(c)
  <2>1. Held(c)' = Held(c)
    <3>1. cl'[c].pc \notin {"write_sync", "write_commit", "remove_unlink"} /\ cl[c].pc \notin {"write_sync", "write_commit", "remove_unlink"}
      BY <1>2 DEF Busy
    <3> QED BY <1>2, <1>3, <3>1 DEF Held
  <2> QED BY <1>1, <1>3, <2>1, RefsOf
<1>5. PobjInv' /\ pobj' \in [Names -> Pobj \cup {None}]
  BY <1>1, <1>2, PobjKept DEF Shape
<1>6. Writer(c)' => HandleOK(c, cl[c].fh, dir[cl[c].fh.idx])'
  <2> SUFFICES ASSUME Writer(c)' PROVE HandleOK(c, cl[c].fh, dir[cl[c].fh.idx])'
    OBVIOUS
  <2>1. HandleOK(c, cl[c].fh, dir[cl[c].fh.idx]) /\ OnDisk(c)' = OnDisk(c)
    BY <1>1 DEF FilesInv
  <2>2. cl[c].pc # "write_commit" /\ cl'[c].pc # "write_commit"
    BY <1>2 DEF Busy
  <2> QED BY <1>2, <2>1, <2>2 DEF HandleOK, Has
<1> QED BY <1>2, <1>3, <1>4, <1>5, <1>6, QuietStep

-----------------------------------------------------------------------------
(* The calls, up to the file system and after it.                          *)

\* Opening or creating an object: a reference to it, before any file operation.
LEMMA ObjOpenInv ==
    ASSUME SInv, NEW c \in Clients, NEW n \in Names, NEW f \in Flags,
           (f \in OpenFlags /\ ObjOpen(c, n, f)) \/ (f \in CreateFlags /\ ObjCreate(c, n, f))
    PROVE  SInv'
<1>1. Shape /\ PcInv /\ PobjInv /\ DirhRefsMatch
  BY DEF SInv
<1>2. PICK l \in {"open", "create"}, tmp \in BOOLEAN :
         /\ cl[c].pc = "idle" /\ PobjGet(n, f, tmp)
         /\ cl' = [cl EXCEPT ![c] = [IdleClient EXCEPT !.pc = l, !.name = n, !.flags = f]]
         /\ UNCHANGED <<dir, file, dirh, dirhRef, mutex, en, halted>>
  BY DEF ObjOpen, ObjCreate, Idle, At
<1>3. PICK r : r = [IdleClient EXCEPT !.pc = l, !.name = n, !.flags = f]
  OBVIOUS
<1>4. /\ r \in Client /\ r.pc = l /\ r.name = n /\ r.flags = f /\ r.fh = None /\ r.new = None
  BY <1>3 DEF IdleClient, Client, Pcs
<1>5. cl' \in [Clients -> Client] /\ cl'[c] = r /\ \A x \in Clients \ {c} : cl'[x] = cl[x]
  BY <1>1, <1>2, <1>3, <1>4 DEF Shape
<1>6. PcOK(r)
  BY <1>4, NoneIsNothing DEF PcOK, Renames, Busy
<1>7. PobjInv' /\ pobj' \in [Names -> Pobj \cup {None}]
  <2>1. pobj' \in [Names -> Pobj \cup {None}]
    BY <1>1, <1>2, PobjGetFacts
  <2>2. cl'[c].name = n /\ cl'[c].new = None /\ cl'[c].flags = f
    BY <1>4, <1>5
  <2> QED BY <1>1, <1>2, <1>5, <2>1, <2>2, OpenPobj
<1>8. Held(c)' = Held(c)
  <2>1. cl[c].fh = None /\ cl'[c].fh = None /\ en' = en
    BY <1>1, <1>2, <1>4, <1>5 DEF PcInv, PcOK
  <2>2. /\ cl[c].pc \notin {"write_sync", "write_commit", "remove_unlink"}
        /\ cl'[c].pc \notin {"write_sync", "write_commit", "remove_unlink"}
    BY <1>2, <1>4, <1>5
  <2> QED BY <2>1, <2>2 DEF Held
<1>9. dirhRef' \in Nat /\ dirhRef' = dirhRef + Held(c)' - Held(c)
  BY <1>1, <1>2, <1>8, RefsOf
<1>10. ~Writer(c)' /\ cl[c].pc \notin Busy /\ cl'[c].pc \notin Busy
  BY <1>2, <1>4, <1>5 DEF Writer, Busy, Renames
<1>11. dirhRef' = 0 => ~dirh'.open
  BY <1>1, <1>2 DEF DirhRefsMatch
<1> QED BY <1>1, <1>2, <1>5, <1>6, <1>7, <1>9, <1>10, <1>11, QuietStep DEF Shape

\* The last step of a call that gives up its object.
LEMMA PobjReleaseInv ==
    ASSUME SInv, NEW c \in Clients, PobjRelease(c)
    PROVE  SInv'
<1>1. Shape /\ PcInv /\ PobjInv /\ DirhRefsMatch
  BY DEF SInv
<1>2. /\ cl[c].pc = "release" /\ pobj' = Released(pobj, cl[c].name)
      /\ cl' = [cl EXCEPT ![c] = IdleClient]
      /\ UNCHANGED <<dir, file, dirh, dirhRef, mutex, en, halted>>
  BY DEF PobjRelease, At
<1>3. /\ IdleClient \in Client /\ PcOK(IdleClient) /\ IdleClient.pc = "idle"
      /\ IdleClient.name = None /\ IdleClient.new = None /\ IdleClient.fh = None
  BY DEF IdleClient, Client, Pcs, PcOK, Renames, Busy
<1>4. /\ cl' \in [Clients -> Client] /\ cl'[c] = IdleClient
      /\ \A x \in Clients \ {c} : cl'[x] = cl[x]
  BY <1>1, <1>2, <1>3 DEF Shape
<1>5. PobjInv' /\ pobj' \in [Names -> Pobj \cup {None}]
  BY <1>1, <1>2, <1>3, <1>4, ReleasePobj
<1>6. Held(c)' = Held(c)
  <2>1. cl[c].fh = None
    BY <1>1, <1>2 DEF PcInv, PcOK
  <2> QED BY <1>2, <1>3, <1>4, <2>1 DEF Held
<1>7. dirhRef' \in Nat /\ dirhRef' = dirhRef + Held(c)' - Held(c)
  BY <1>1, <1>2, <1>6, RefsOf
<1>8. ~Writer(c)' /\ cl[c].pc \notin Busy /\ cl'[c].pc \notin Busy
  BY <1>2, <1>3, <1>4 DEF Writer, Busy, Renames
<1>9. dirhRef' = 0 => ~dirh'.open
  BY <1>1, <1>2 DEF DirhRefsMatch
<1> QED BY <1>1, <1>2, <1>3, <1>4, <1>5, <1>7, <1>8, <1>9, QuietStep DEF Shape

\* The head of an opened object is read, or is corrupt, or the request fails.
LEMMA ReadHeadInv ==
    ASSUME SInv, NEW c \in Clients, ReadHead(c) \/ ReadHeadFails(c)
    PROVE  SInv'
<1>1. Shape /\ PcInv /\ PcOK(cl[c])
  BY DEF SInv, PcInv
<1>2. PICK l \in {"have", "remove", "close"} : Goto(c, l)
  BY DEF ReadHead, ReadHeadFails
<1>3. cl[c].pc = "head" /\ UNCHANGED <<dir, file, dirh, dirhRef, mutex, pobj, en, halted>>
  BY DEF ReadHead, ReadHeadFails, At
<1>4. /\ cl'[c].pc = l /\ cl'[c].name = cl[c].name /\ cl'[c].new = cl[c].new
      /\ cl'[c].flags = cl[c].flags /\ cl'[c].fh = cl[c].fh /\ cl'[c].old = cl[c].old
      /\ l \in Pcs
  BY <1>1, <1>2, GotoFacts DEF Shape, Pcs
<1>5. PcOK(cl'[c])
  BY <1>1, <1>3, <1>4 DEF PcOK, Busy, Renames
<1>6. cl[c].pc \notin Busy /\ l \notin Busy
  BY <1>3 DEF Busy
<1>7. Writer(c)' => Writer(c) /\ OnDisk(c)' = OnDisk(c)
  BY <1>3, <1>4 DEF Writer, OnDisk
<1> QED BY <1>2, <1>3, <1>4, <1>5, <1>6, <1>7, MoveStep

\* A delete goes on to the removal of the file.
LEMMA ObjDelInv ==
    ASSUME SInv, NEW c \in Clients, ObjDel(c)
    PROVE  SInv'
<1>1. Shape /\ PcInv /\ PcOK(cl[c])
  BY DEF SInv, PcInv
<1>2. /\ cl[c].pc = "have" /\ UNCHANGED <<dir, file, dirh, dirhRef, mutex, pobj, en, halted>>
      /\ Goto(c, "remove")
  BY DEF ObjDel, At
<1>3. /\ cl'[c].pc = "remove" /\ cl'[c].name = cl[c].name /\ cl'[c].new = cl[c].new
      /\ cl'[c].flags = cl[c].flags /\ cl'[c].fh = cl[c].fh /\ cl'[c].old = cl[c].old
      /\ "remove" \in Pcs
  BY <1>1, <1>2, GotoFacts DEF Shape, Pcs
<1>4. PcOK(cl'[c])
  BY <1>1, <1>2, <1>3 DEF PcOK, Busy, Renames
<1>5. cl[c].pc \notin Busy /\ "remove" \notin Busy /\ ~Writer(c)'
  BY <1>2, <1>3 DEF Busy, Writer, Renames
<1> QED BY <1>2, <1>3, <1>4, <1>5, MoveStep

\* The steps of a client's own record that keep handle, name and references.
LEMMA FieldStep ==
    ASSUME SInv, NEW c \in Clients, UNCHANGED <<dir, file, dirh, dirhRef, mutex, en, halted>>,
           cl' \in [Clients -> Client], \A x \in Clients \ {c} : cl'[x] = cl[x],
           cl[c].pc \in {"have"} \cup Renames, cl'[c].pc \in {"have"} \cup Renames, PcOK(cl'[c]),
           cl'[c].fh = cl[c].fh, cl'[c].flags = cl[c].flags,
           OnDisk(c)' = OnDisk(c),
           pobj' \in [Names -> Pobj \cup {None}], PobjInv'
    PROVE  SInv'
<1>1. Shape /\ FilesInv /\ DirhRefsMatch
  BY DEF SInv
<1>2. Held(c)' = Held(c)
  <2>1. cl'[c].pc \notin {"write_sync", "write_commit", "remove_unlink"} /\ cl[c].pc \notin {"write_sync", "write_commit", "remove_unlink"}
    BY DEF Renames
  <2> QED BY <2>1 DEF Held
<1>3. /\ dirhRef' \in Nat /\ dirhRef' = dirhRef + Held(c)' - Held(c)
      /\ dirhRef' = 0 => ~dirh'.open
  BY <1>1, <1>2, RefsOf DEF DirhRefsMatch
<1>4. Writer(c)' => HandleOK(c, cl[c].fh, dir[cl[c].fh.idx])'
  <2> SUFFICES ASSUME Writer(c)' PROVE HandleOK(c, cl[c].fh, dir[cl[c].fh.idx])'
    OBVIOUS
  <2>1. HandleOK(c, cl[c].fh, dir[cl[c].fh.idx]) /\ OnDisk(c)' = OnDisk(c)
    BY <1>1 DEF FilesInv, Writer
  <2>2. cl[c].pc # "write_commit" /\ cl'[c].pc # "write_commit"
    BY DEF Renames
  <2> QED BY <2>1, <2>2 DEF HandleOK, Has
<1>5. cl[c].pc \notin Busy /\ cl'[c].pc \notin Busy
  BY DEF Busy, Renames
<1>6. en' \in [Clients -> Enum] /\ \A x \in Clients \ {c} : en'[x].pc = en[x].pc
  BY <1>1 DEF Shape
<1> QED BY <1>3, <1>4, <1>5, <1>6, QuietStep

\* A rename reserves the new name.
LEMMA ObjRenameInv ==
    ASSUME SInv, NEW c \in Clients, NEW n \in Names, ObjRename(c, n)
    PROVE  SInv'
<1>1. Shape /\ PcInv /\ PobjInv /\ PcOK(cl[c]) /\ cl \in [Clients -> Client]
  BY DEF SInv, PcInv, Shape
<1>2. /\ cl[c].pc = "have" /\ "META" \in cl[c].flags /\ PobjGet(n, {"META"}, FALSE)
      /\ cl' = [cl EXCEPT ![c].pc = "rename", ![c].new = n]
      /\ UNCHANGED <<dir, file, dirh, dirhRef, mutex, en, halted>>
  BY DEF ObjRename, At
<1>3. /\ cl' \in [Clients -> Client] /\ \A x \in Clients \ {c} : cl'[x] = cl[x]
      /\ cl'[c].pc = "rename" /\ cl'[c].new = n /\ cl'[c].name = cl[c].name
      /\ cl'[c].fh = cl[c].fh /\ cl'[c].flags = cl[c].flags /\ cl'[c].old = cl[c].old
  BY <1>1, <1>2 DEF Client, Pcs
<1>4. PobjInv' /\ cl[c].name # n /\ pobj' \in [Names -> Pobj \cup {None}]
  BY <1>1, <1>2, <1>3, ReservePobj, PobjGetFacts
<1>5. PcOK(cl'[c])
  BY <1>1, <1>2, <1>3, <1>4, NoneIsNothing DEF PcOK, Busy, Renames
<1>6. OnDisk(c)' = OnDisk(c)
  BY <1>2, <1>3 DEF OnDisk
<1> QED BY <1>2, <1>3, <1>4, <1>5, <1>6, FieldStep DEF Renames

\* A rename that was committed moves the open object to its new name.
LEMMA PobjRenameInv ==
    ASSUME SInv, NEW c \in Clients, PobjRename(c)
    PROVE  SInv'
<1>1. Shape /\ PcInv /\ PobjInv /\ PcOK(cl[c]) /\ cl \in [Clients -> Client]
  BY DEF SInv, PcInv, Shape
<1>2. /\ cl[c].pc = "renamed" /\ UNCHANGED <<dir, file, dirh, dirhRef, mutex, en, halted>>
  BY DEF PobjRename, At
<1>3. /\ PobjInv' /\ pobj' \in [Names -> Pobj \cup {None}]
      /\ cl' = [cl EXCEPT ![c].pc = "have", ![c].name = cl[c].new, ![c].new = None]
  BY <1>1, RenamePobj
<1>4. /\ cl' \in [Clients -> Client] /\ \A x \in Clients \ {c} : cl'[x] = cl[x]
      /\ cl'[c].pc = "have" /\ cl'[c].new = None /\ cl'[c].name = cl[c].new
      /\ cl'[c].fh = cl[c].fh /\ cl'[c].flags = cl[c].flags /\ cl'[c].old = cl[c].old
  <2>1. PICK r : r = [cl[c] EXCEPT !.pc = "have", !.name = cl[c].new, !.new = None]
    OBVIOUS
  <2>2. /\ r \in Client /\ r.pc = "have" /\ r.new = None /\ r.name = cl[c].new
        /\ r.fh = cl[c].fh /\ r.flags = cl[c].flags /\ r.old = cl[c].old
    BY <1>1, <2>1 DEF Client, Pcs
  <2>3. cl' = [cl EXCEPT ![c] = r]
    BY <1>1, <1>3, <2>1
  <2> QED BY <1>1, <2>2, <2>3
<1>5. PcOK(cl'[c])
  BY <1>1, <1>2, <1>4 DEF PcOK, Busy, Renames
<1>6. OnDisk(c)' = OnDisk(c)
  BY <1>2, <1>4 DEF OnDisk
<1> QED BY <1>2, <1>3, <1>4, <1>5, <1>6, FieldStep DEF Renames

\* A rename that failed gives the new name back.
LEMMA RenameUndoInv ==
    ASSUME SInv, NEW c \in Clients, RenameUndo(c)
    PROVE  SInv'
<1>1. Shape /\ PcInv /\ PobjInv /\ PcOK(cl[c]) /\ cl \in [Clients -> Client]
  BY DEF SInv, PcInv, Shape
<1>2. /\ cl[c].pc = "rename_undo" /\ UNCHANGED <<dir, file, dirh, dirhRef, mutex, en, halted>>
      /\ pobj' = Released(pobj, cl[c].new)
      /\ cl' = [cl EXCEPT ![c].pc = "have", ![c].new = None]
  BY DEF RenameUndo, At
<1>4. /\ cl' \in [Clients -> Client] /\ \A x \in Clients \ {c} : cl'[x] = cl[x]
      /\ cl'[c].pc = "have" /\ cl'[c].new = None /\ cl'[c].name = cl[c].name
      /\ cl'[c].fh = cl[c].fh /\ cl'[c].flags = cl[c].flags /\ cl'[c].old = cl[c].old
  BY <1>1, <1>2 DEF Client, Pcs
<1>3. PobjInv' /\ pobj' \in [Names -> Pobj \cup {None}]
  BY <1>1, <1>2, <1>4, UndoPobj DEF Renames
<1>5. PcOK(cl'[c])
  BY <1>1, <1>2, <1>4 DEF PcOK, Busy, Renames
<1>6. OnDisk(c)' = OnDisk(c)
  BY <1>2, <1>4 DEF OnDisk
<1> QED BY <1>2, <1>3, <1>4, <1>5, <1>6, FieldStep DEF Renames

\* A committed rename whose open object keeps its old name: it is closed next.
LEMMA PobjRenameFailsInv ==
    ASSUME SInv, NEW c \in Clients, PobjRenameFails(c)
    PROVE  SInv'
<1>1. /\ Shape /\ PcInv /\ PobjInv /\ DirhRefsMatch /\ PcOK(cl[c]) /\ cl \in [Clients -> Client]
      /\ en \in [Clients -> Enum]
  BY DEF SInv, PcInv, Shape
<1>2. /\ cl[c].pc = "renamed" /\ UNCHANGED <<dir, file, dirh, dirhRef, mutex, en, halted>>
      /\ pobj' = Released(pobj, cl[c].new)
      /\ cl' = [cl EXCEPT ![c].pc = "close", ![c].new = None]
  BY DEF PobjRenameFails, At
<1>3. /\ cl' \in [Clients -> Client] /\ \A x \in Clients \ {c} : cl'[x] = cl[x]
      /\ cl'[c].pc = "close" /\ cl'[c].new = None /\ cl'[c].name = cl[c].name
      /\ cl'[c].fh = cl[c].fh /\ cl'[c].flags = cl[c].flags /\ cl'[c].old = cl[c].old
  BY <1>1, <1>2 DEF Client, Pcs
<1>4. PobjInv' /\ pobj' \in [Names -> Pobj \cup {None}]
  BY <1>1, <1>2, <1>3, UndoPobj DEF Renames
<1>5. PcOK(cl'[c])
  BY <1>1, <1>2, <1>3 DEF PcOK, Busy, Renames
<1>6. cl[c].pc \notin Busy /\ cl'[c].pc \notin Busy /\ ~Writer(c)'
  BY <1>2, <1>3 DEF Busy, Writer, Renames
<1>7. Held(c)' = Held(c)
  <2>1. /\ cl[c].pc \notin {"write_sync", "write_commit", "remove_unlink"}
        /\ cl'[c].pc \notin {"write_sync", "write_commit", "remove_unlink"}
    BY <1>2, <1>3
  <2> QED BY <1>2, <1>3, <2>1 DEF Held
<1>8. /\ dirhRef' \in Nat /\ dirhRef' = dirhRef + Held(c)' - Held(c)
      /\ dirhRef' = 0 => ~dirh'.open
  BY <1>1, <1>2, <1>7, RefsOf DEF DirhRefsMatch
<1> QED BY <1>1, <1>2, <1>3, <1>4, <1>5, <1>6, <1>8, QuietStep

\* A read that fails, or finds the object corrupt.
LEMMA FsReadFailsInv ==
    ASSUME SInv, NEW c \in Clients, FsReadFails(c)
    PROVE  SInv'
<1>1. Shape /\ PcInv /\ PcOK(cl[c])
  BY DEF SInv, PcInv
<1>2. PICK l \in {"remove", "close"} : Goto(c, l)
  BY DEF FsReadFails
<1>3. cl[c].pc = "have" /\ UNCHANGED <<dir, file, dirh, dirhRef, mutex, pobj, en, halted>>
  BY DEF FsReadFails, At
<1>4. /\ cl'[c].pc = l /\ cl'[c].name = cl[c].name /\ cl'[c].new = cl[c].new
      /\ cl'[c].flags = cl[c].flags /\ cl'[c].fh = cl[c].fh /\ cl'[c].old = cl[c].old
      /\ l \in Pcs
  BY <1>1, <1>2, GotoFacts DEF Shape, Pcs
<1>5. PcOK(cl'[c])
  BY <1>1, <1>3, <1>4 DEF PcOK, Busy, Renames
<1>6. cl[c].pc \notin Busy /\ l \notin Busy /\ ~Writer(c)'
  BY <1>3, <1>4 DEF Busy, Writer, Renames
<1> QED BY <1>2, <1>3, <1>4, <1>5, <1>6, MoveStep

-----------------------------------------------------------------------------
(* File operations that leave the disk as it is.                           *)

\* A file operation that fails at its first request.
LEMMA FsFailsInv ==
    ASSUME SInv, NEW c \in Clients,
           FsOpenFails(c) \/ FsCreateFileFails(c) \/ FsRemoveFails(c) \/ FsRenameFails(c)
    PROVE  SInv'
<1>1. Shape /\ PcInv /\ PcOK(cl[c])
  BY DEF SInv, PcInv
<1>2. /\ mutex = {} /\ \E close \in BOOLEAN, d \in FailedDirh : PutDirh(d, dirhRef, close)
      /\ UNCHANGED <<dir, file, mutex, pobj, halted>>
  <2>1. GetDirh \in FailedDirh
    BY DEF FailedDirh
  <2> QED BY <2>1 DEF FsOpenFails, FsCreateFileFails, FsRemoveFails, FsRenameFails, Unlocked
<1>3. PICK l \in {"release", "close", "remove", "rename_undo"} :
         /\ Goto(c, l)
         /\ l = "remove" => cl[c].pc \in {"open", "create"}
         /\ l = "release" => \/ cl[c].pc \in {"open", "create"}
                             \/ cl[c].pc = "remove" /\ cl[c].fh = None
         /\ l = "close" => cl[c].pc = "remove" /\ cl[c].fh # None
         /\ l = "rename_undo" => cl[c].pc = "rename"
  BY DEF FsOpenFails, FsCreateFileFails, FsRemoveFails, FsRenameFails, AfterRemove, At
<1>4. /\ cl'[c].pc = l /\ cl'[c].name = cl[c].name /\ cl'[c].new = cl[c].new
      /\ cl'[c].flags = cl[c].flags /\ cl'[c].fh = cl[c].fh /\ cl'[c].old = cl[c].old
      /\ l \in Pcs
  BY <1>1, <1>3, GotoFacts DEF Shape, Pcs
<1>5. PcOK(cl'[c])
  BY <1>1, <1>3, <1>4 DEF PcOK, Busy, Renames
<1>6. cl[c].pc \notin Busy /\ l \notin Busy
  BY <1>3 DEF Busy
<1>7. Writer(c)' => Writer(c) /\ OnDisk(c)' = OnDisk(c)
  BY <1>3, <1>4 DEF Writer, OnDisk, Renames
<1> QED BY <1>2, <1>3, <1>4, <1>5, <1>6, <1>7, MoveStep

\* ree_fs_open().
LEMMA FsOpenInv ==
    ASSUME SInv, NEW c \in Clients, FsOpen(c)
    PROVE  SInv'
<1>1. /\ Shape /\ PcInv /\ PcOK(cl[c]) /\ PobjInv /\ DirhOK(dirh) /\ DirInv /\ DirhRefsMatch
      /\ cl \in [Clients -> Client]
  BY DEF SInv, PcInv, Shape
<1>2. /\ cl[c].pc = "open" /\ mutex = {} /\ UNCHANGED <<dir, file, mutex, pobj, halted>>
  BY DEF FsOpen, At, Unlocked
<1>3. GetDirh \in Dirh /\ GetDirh.open /\ GetDirh.tab = dir
  BY <1>1, TheDirectory
<1>4. CASE Find(dir, cl[c].name) = {} \/ Versions(dir[Min(Find(dir, cl[c].name))]) = {}
  <2>1. PutDirh(GetDirh, dirhRef, FALSE)
    BY <1>3, <1>4 DEF FsOpen
  <2>2. PICK l \in {"release", "remove"} : Goto(c, l)
    BY <1>3, <1>4 DEF FsOpen
  <2>3. /\ cl'[c].pc = l /\ cl'[c].name = cl[c].name /\ cl'[c].new = cl[c].new
        /\ cl'[c].flags = cl[c].flags /\ cl'[c].fh = cl[c].fh /\ cl'[c].old = cl[c].old
        /\ l \in Pcs
    BY <1>1, <2>2, GotoFacts DEF Pcs
  <2>4. PcOK(cl'[c])
    BY <1>1, <1>2, <2>3 DEF PcOK, Busy, Renames
  <2>5. cl[c].pc \notin Busy /\ l \notin Busy /\ ~Writer(c)'
    BY <1>2, <2>3 DEF Busy, Writer, Renames
  <2>6. GetDirh \in FailedDirh
    BY DEF FailedDirh
  <2> QED BY <1>2, <2>1, <2>2, <2>3, <2>4, <2>5, <2>6, MoveStep
<1>5. CASE ~(Find(dir, cl[c].name) = {} \/ Versions(dir[Min(Find(dir, cl[c].name))]) = {})
  <2>1. PICK i \in Index : /\ Min(Find(dir, cl[c].name)) = i /\ dir[i] \in Entry
                           /\ dir[i] # None /\ dir[i].name = cl[c].name
    BY <1>1, <1>5, Found
  <2>2. PICK e : e = dir[i]
    OBVIOUS
  <2>3. PICK v \in Versions(e) :
           /\ cl' = [cl EXCEPT ![c].pc = "head", ![c].fh =
                       [num |-> e.num, idx |-> i, base |-> v, hash |-> e.hash]]
           /\ dirh' = GetDirh /\ dirhRef' = dirhRef + 1 /\ en' = en
    BY <1>3, <1>5, <2>1, <2>2 DEF FsOpen
  <2>4. PICK h : h = [num |-> e.num, idx |-> i, base |-> v, hash |-> e.hash]
    OBVIOUS
  <2>5. /\ h \in Handle /\ h.num = e.num /\ h.idx = i /\ h.base = v /\ h.hash = e.hash
        /\ Has(e.num, v, e.hash) /\ h # None /\ h.hash # None
    <3>1. v \in 0..1 /\ Has(e.num, v, e.hash)
      BY <2>3 DEF Versions, Has
    <3>2. h \in Handle /\ h.num = e.num /\ h.idx = i /\ h.base = v /\ h.hash = e.hash
      BY <2>1, <2>2, <2>4, <3>1 DEF Handle, Entry
    <3>3. e.hash \in Data
      BY <2>1, <2>2 DEF Entry
    <3> QED BY <3>1, <3>2, <3>3, NoneIsNothing
  <2>6. /\ cl' \in [Clients -> Client] /\ \A x \in Clients \ {c} : cl'[x] = cl[x]
        /\ cl'[c].pc = "head" /\ cl'[c].name = cl[c].name /\ cl'[c].new = cl[c].new
        /\ cl'[c].flags = cl[c].flags /\ cl'[c].fh = h /\ cl'[c].old = cl[c].old
    BY <1>1, <2>3, <2>4, <2>5 DEF Client, Pcs
  <2>7. PcOK(cl'[c])
    BY <1>1, <1>2, <2>5, <2>6 DEF PcOK, Busy, Renames
  <2>8. cl[c].pc \notin Busy /\ cl'[c].pc \notin Busy
    BY <1>2, <2>6 DEF Busy
  <2>9. HandleOK(c, cl[c].fh, dir[cl[c].fh.idx])'
    <3>1. cl'[c].fh = h /\ dir'[h.idx] = e /\ OnDisk(c)' = cl[c].name
      BY <1>2, <2>2, <2>5, <2>6 DEF OnDisk
    <3>2. Has(e.num, v, e.hash)'
      BY <1>2, <2>5 DEF Has
    <3> QED BY <2>1, <2>2, <2>5, <2>6, <3>1, <3>2 DEF HandleOK
  <2>10. dirhRef \in Nat /\ Held(c)' = 1 + Held(c) /\ Held(c) \in Nat
    <3>1. cl[c].fh = None /\ cl'[c].fh # None
      BY <1>1, <1>2, <2>5, <2>6 DEF PcOK
    <3>2. /\ cl[c].pc \notin {"write_sync", "write_commit", "remove_unlink"}
          /\ cl'[c].pc \notin {"write_sync", "write_commit", "remove_unlink"}
      BY <1>2, <2>6
    <3> QED BY <1>1, <2>3, <3>1, <3>2, RefsOf DEF Held, One
  <2>11. dirhRef' \in Nat /\ dirhRef' = dirhRef + Held(c)' - Held(c) /\ dirhRef' # 0
    BY <2>3, <2>10
  <2>12. PobjInv' /\ pobj' \in [Names -> Pobj \cup {None}]
    BY <1>1, <1>2, <2>6, PobjKept DEF Shape
  <2>13. en' \in [Clients -> Enum] /\ \A x \in Clients \ {c} : en'[x].pc = en[x].pc
    BY <1>1, <2>3 DEF Shape
  <2> QED BY <1>2, <1>3, <2>3, <2>6, <2>7, <2>8, <2>9, <2>11, <2>12, <2>13, QuietStep
<1> QED BY <1>4, <1>5

\* A client with a handle has references to give back.
LEMMA FsCloseHasRefs ==
    ASSUME SInv, NEW c \in Clients, FsClose(c)
    PROVE  dirhRef # 0 /\ dirhRef \in Nat
<1>1. cl[c].fh # None
  BY DEF FsClose, SInv, PcInv, PcOK
<1>2. Held(c) >= 1 /\ Held(c) \in Nat
  BY <1>1 DEF Held, One
<1> QED BY <1>2, RefsOf DEF SInv

\* ree_fs_close(): the directory has the reference that it gives back.
LEMMA FsCloseInv ==
    ASSUME SInv, NEW c \in Clients, FsClose(c)
    PROVE  SInv'
<1>1. /\ Shape /\ PcInv /\ PcOK(cl[c]) /\ PobjInv /\ DirhOK(dirh) /\ DirInv /\ DirhRefsMatch
      /\ cl \in [Clients -> Client] /\ dirh \in Dirh
  BY DEF SInv, PcInv, Shape
<1>2. dirhRef # 0 /\ dirhRef \in Nat /\ dirhRef - 1 \in Nat
  BY FsCloseHasRefs
<1>3. /\ cl[c].pc \in {"have", "close"} /\ mutex = {} /\ UNCHANGED <<dir, file, mutex, pobj, halted>>
      /\ PutDirh(dirh, dirhRef - 1, FALSE)
      /\ cl' = [cl EXCEPT ![c].pc = "release", ![c].fh = None]
  BY <1>2 DEF FsClose, Unlocked
<1>4. /\ cl' \in [Clients -> Client] /\ \A x \in Clients \ {c} : cl'[x] = cl[x]
      /\ cl'[c].pc = "release" /\ cl'[c].name = cl[c].name /\ cl'[c].new = cl[c].new
      /\ cl'[c].flags = cl[c].flags /\ cl'[c].fh = None /\ cl'[c].old = cl[c].old
  BY <1>1, <1>3 DEF Client, Pcs
<1>5. PcOK(cl'[c])
  BY <1>1, <1>3, <1>4 DEF PcOK, Busy, Renames
<1>6. cl[c].pc \notin Busy /\ cl'[c].pc \notin Busy /\ ~Writer(c)'
  BY <1>3, <1>4 DEF Busy, Writer, Renames
<1>7. /\ dirh' \in Dirh /\ dirhRef' = dirhRef - 1 /\ (dirh'.open => dirh' = dirh)
      /\ dirhRef' = 0 => ~dirh'.open
      /\ en' \in [Clients -> Enum] /\ \A x \in Clients : en'[x].pc = en[x].pc
  BY <1>1, <1>2, <1>3, PutDirhFacts
<1>8. dirh'.open => dirh' = GetDirh
  BY <1>7 DEF GetDirh
<1>9. Held(c) = Held(c)' + 1 /\ Held(c)' \in Nat /\ Held(c) \in Nat
  <2>1. cl[c].fh # None
    BY <1>1, <1>3 DEF PcOK
  <2>2. /\ cl[c].pc \notin {"write_sync", "write_commit", "remove_unlink"}
        /\ cl'[c].pc \notin {"write_sync", "write_commit", "remove_unlink"}
    BY <1>3, <1>4
  <2> QED BY <1>4, <1>7, <2>1, <2>2 DEF Held, One
<1>10. dirhRef' \in Nat /\ dirhRef' = dirhRef + Held(c)' - Held(c)
  BY <1>2, <1>7, <1>9
<1>11. PobjInv' /\ pobj' \in [Names -> Pobj \cup {None}]
  BY <1>1, <1>3, <1>4, PobjKept DEF Shape
<1> QED BY <1>3, <1>4, <1>5, <1>6, <1>7, <1>8, <1>10, <1>11, QuietStep

-----------------------------------------------------------------------------
(* Enumerators.                                                            *)

\* A step of an enumerator that takes or gives back as many references as it
\* counts.
LEMMA EnumStep ==
    ASSUME SInv, NEW c \in Clients, UNCHANGED <<dir, file, mutex, pobj, cl, halted>>, mutex = {},
           en' \in [Clients -> Enum], \A x \in Clients \ {c} : en'[x].pc = en[x].pc,
           dirh' \in Dirh,
           dirh'.open => dirh'.tab = GetDirh.tab /\ dirh'.bits = GetDirh.bits,
           dirhRef' = dirhRef
                    + One(en'[c].pc \in {"ready", "open", "peek"}) + One(en'[c].pc = "peek")
                    - One(en[c].pc \in {"ready", "open", "peek"}) - One(en[c].pc = "peek"),
           dirhRef' = 0 => ~dirh'.open
    PROVE  SInv'
<1>1. /\ Shape /\ PcInv /\ PobjInv /\ DirhRefsMatch /\ FilesInv /\ PcOK(cl[c])
      /\ cl[c].pc \notin Busy
  BY DEF SInv, PcInv, MutexInv
<1>2. dirhRef \in Nat /\ Held(c) \in Nat /\ dirhRef >= Held(c)
  BY <1>1, RefsOf
<1>3. \A b : One(b) \in Nat
  BY DEF One
<1>4. PICK a \in Nat : /\ Held(c) = a + One(en[c].pc \in {"ready", "open", "peek"})
                                      + One(en[c].pc = "peek")
                       /\ Held(c)' = a + One(en'[c].pc \in {"ready", "open", "peek"})
                                       + One(en'[c].pc = "peek")
  <2>1. PICK a : a = One(cl[c].fh # None) + One(cl[c].pc \in {"write_sync", "write_commit", "remove_unlink"})
    OBVIOUS
  <2>2. a \in Nat
    BY <2>1 DEF One
  <2> QED BY <2>1, <2>2 DEF Held
<1>5. dirhRef' \in Nat /\ dirhRef' = dirhRef + Held(c)' - Held(c)
  <2>1. PICK p, q, r, s \in Nat : /\ p = One(en[c].pc \in {"ready", "open", "peek"})
                                  /\ q = One(en[c].pc = "peek")
                                  /\ r = One(en'[c].pc \in {"ready", "open", "peek"})
                                  /\ s = One(en'[c].pc = "peek")
    BY <1>3
  <2>2. Held(c) = a + p + q /\ Held(c)' = a + r + s /\ dirhRef' = dirhRef + r + s - p - q
    BY <1>4, <2>1
  <2> QED BY <1>2, <2>2
<1>6. PobjInv' /\ pobj' \in [Names -> Pobj \cup {None}]
  BY <1>1, PobjKept DEF Shape
<1>7. Writer(c)' => HandleOK(c, cl[c].fh, dir[cl[c].fh.idx])'
  BY <1>1 DEF FilesInv, Writer, HandleOK, Has, OnDisk
<1>8. cl' \in [Clients -> Client] /\ cl'[c] = cl[c] /\ PcOK(cl'[c])
  BY <1>1 DEF Shape
<1> QED BY <1>1, <1>5, <1>6, <1>7, <1>8, QuietStep

\* An enumeration starts.
LEMMA EnumStartInv ==
    ASSUME SInv, NEW c \in Clients, EnumStart(c)
    PROVE  SInv'
<1>1. Shape /\ DirhOK(dirh) /\ DirInv /\ DirhRefsMatch /\ dirhRef \in Nat /\ en \in [Clients -> Enum]
  BY DEF SInv, Shape
<1>2. GetDirh \in Dirh /\ GetDirh.open /\ GetDirh.tab = dir
  BY <1>1, TheDirectory
<1>3. Closed \in Dirh /\ ~Closed.open
  BY DEF Closed, Dirh, EmptyTable
<1>4. PICK empty \in BOOLEAN : empty = (GetDirh.tab = EmptyTable)
  OBVIOUS
<1>5. PICK refs : refs = IF empty THEN dirhRef ELSE dirhRef + 1
  OBVIOUS
<1>6. /\ en[c].pc = "none" /\ mutex = {} /\ UNCHANGED <<dir, file, mutex, pobj, cl, halted>>
      /\ dirh' = IF refs = 0 THEN Closed ELSE GetDirh
      /\ dirhRef' = refs
      /\ en' = [en EXCEPT ![c].pc = IF empty THEN "failed" ELSE "ready", ![c].valid = ~empty]
  BY <1>4, <1>5 DEF EnumStart, Idle, Unlocked
<1>7. /\ en' \in [Clients -> Enum] /\ \A x \in Clients \ {c} : en'[x].pc = en[x].pc
      /\ en'[c].pc = IF empty THEN "failed" ELSE "ready"
  <2>1. PICK l \in {"failed", "ready"} : l = IF empty THEN "failed" ELSE "ready"
    OBVIOUS
  <2>2. PICK b \in BOOLEAN : b = ~empty
    OBVIOUS
  <2>3. en' = [en EXCEPT ![c].pc = l, ![c].valid = b]
    BY <1>6, <2>1, <2>2
  <2>4. en' \in [Clients -> Enum] /\ en'[c].pc = l
    BY <1>1, <2>3 DEF Enum
  <2> QED BY <1>1, <2>1, <2>3, <2>4
<1>8. dirh' \in Dirh /\ (dirh'.open => dirh' = GetDirh) /\ (dirhRef' = 0 => ~dirh'.open)
  BY <1>2, <1>3, <1>6
<1>9. dirhRef' = dirhRef
               + One(en'[c].pc \in {"ready", "open", "peek"}) + One(en'[c].pc = "peek")
               - One(en[c].pc \in {"ready", "open", "peek"}) - One(en[c].pc = "peek")
  BY <1>1, <1>5, <1>6, <1>7 DEF One
<1> QED BY <1>6, <1>7, <1>8, <1>9, EnumStep

\* An enumeration does not start.
LEMMA EnumStartFailsInv ==
    ASSUME SInv, NEW c \in Clients, EnumStartFails(c)
    PROVE  SInv'
<1>1. Shape /\ DirhOK(dirh) /\ DirInv /\ DirhRefsMatch /\ dirhRef \in Nat /\ en \in [Clients -> Enum]
  BY DEF SInv, Shape
<1>2. PICK d \in FailedDirh :
         /\ dirh' = IF dirhRef = 0 THEN Closed ELSE d
         /\ en' = [x \in Clients |-> IF x = c THEN [NoEnum EXCEPT !.pc = "failed"]
                     ELSE [en[x] EXCEPT !.valid = @ /\ (IF dirhRef = 0 THEN Closed ELSE d).open]]
  BY DEF EnumStartFails
<1>3. /\ en[c].pc = "none" /\ mutex = {} /\ UNCHANGED <<dir, file, dirhRef, mutex, pobj, cl, halted>>
  BY DEF EnumStartFails, Idle, Unlocked
<1>4. /\ d \in Dirh /\ (d.open => d.tab = GetDirh.tab /\ d.bits = GetDirh.bits)
      /\ Closed \in Dirh /\ ~Closed.open
  BY <1>1, FailedDirectory DEF Closed, Dirh, EmptyTable
<1>5. /\ dirh' \in Dirh /\ (dirh'.open => dirh'.tab = GetDirh.tab /\ dirh'.bits = GetDirh.bits)
      /\ dirhRef' = 0 => ~dirh'.open
  BY <1>2, <1>3, <1>4
<1>6. PICK b \in BOOLEAN : b = dirh'.open
  BY <1>5 DEF Dirh
<1>7. en' = [x \in Clients |-> IF x = c THEN [NoEnum EXCEPT !.pc = "failed"]
                               ELSE [en[x] EXCEPT !.valid = @ /\ b]]
  BY <1>2, <1>6
<1>8. /\ en' \in [Clients -> Enum] /\ \A x \in Clients \ {c} : en'[x].pc = en[x].pc
      /\ en'[c].pc = "failed"
  <2>1. [NoEnum EXCEPT !.pc = "failed"] \in Enum /\ [NoEnum EXCEPT !.pc = "failed"].pc = "failed"
    BY DEF NoEnum, Enum
  <2>2. ASSUME NEW x \in Clients \ {c} PROVE en'[x] \in Enum /\ en'[x].pc = en[x].pc
    <3>1. en[x].valid \in BOOLEAN /\ en[x] \in Enum
      BY <1>1 DEF Enum
    <3>2. PICK v \in BOOLEAN : en'[x] = [en[x] EXCEPT !.valid = v]
      BY <1>7, <3>1
    <3> QED BY <3>1, <3>2 DEF Enum
  <2>3. en'[c] = [NoEnum EXCEPT !.pc = "failed"] /\ en' = [x \in Clients |-> en'[x]]
    BY <1>7
  <2> QED BY <2>1, <2>2, <2>3
<1>9. dirhRef' = dirhRef
               + One(en'[c].pc \in {"ready", "open", "peek"}) + One(en'[c].pc = "peek")
               - One(en[c].pc \in {"ready", "open", "peek"}) - One(en[c].pc = "peek")
  BY <1>1, <1>3, <1>8 DEF One
<1> QED BY <1>3, <1>5, <1>8, <1>9, EnumStep

\* An enumerator cannot read the directory.
LEMMA EnumNextFailsInv ==
    ASSUME SInv, NEW c \in Clients, EnumNextFails(c)
    PROVE  SInv'
<1>1. /\ Shape /\ DirhRefsMatch /\ dirhRef \in Nat /\ en \in [Clients -> Enum] /\ dirh \in Dirh
  BY DEF SInv, Shape
<1>2. /\ dirh.open /\ mutex = {} /\ dirh' = [dirh EXCEPT !.tree = FALSE]
      /\ UNCHANGED <<dir, file, dirhRef, mutex, pobj, cl, en, halted>>
  BY DEF EnumNextFails, Unlocked
<1>3. dirh' \in Dirh /\ dirh'.tab = GetDirh.tab /\ dirh'.bits = GetDirh.bits
  BY <1>1, <1>2 DEF Dirh, GetDirh
<1>4. dirhRef' = dirhRef
               + One(en'[c].pc \in {"ready", "open", "peek"}) + One(en'[c].pc = "peek")
               - One(en[c].pc \in {"ready", "open", "peek"}) - One(en[c].pc = "peek")
  BY <1>1, <1>2 DEF One
<1>5. dirhRef' # 0
  BY <1>1, <1>2 DEF DirhRefsMatch
<1>6. en' \in [Clients -> Enum] /\ \A x \in Clients \ {c} : en'[x].pc = en[x].pc
  BY <1>1, <1>2
<1> QED BY <1>2, <1>3, <1>4, <1>5, <1>6, EnumStep

\* An enumerator cannot open the entry's object.
LEMMA EnumOpenFailsInv ==
    ASSUME SInv, NEW c \in Clients, EnumOpenFails(c)
    PROVE  SInv'
<1>1. Shape /\ DirhOK(dirh) /\ DirInv /\ DirhRefsMatch /\ dirhRef \in Nat /\ en \in [Clients -> Enum]
  BY DEF SInv, Shape
<1>2. /\ en[c].pc = "open" /\ mutex = {} /\ dirh' \in FailedDirh
      /\ en' = [en EXCEPT ![c].pc = "ready", ![c].name = None]
      /\ UNCHANGED <<dir, file, dirhRef, mutex, pobj, cl, halted>>
  BY DEF EnumOpenFails, Unlocked
<1>3. dirh' \in Dirh /\ (dirh'.open => dirh'.tab = GetDirh.tab /\ dirh'.bits = GetDirh.bits)
  BY <1>1, <1>2, FailedDirectory
<1>4. /\ en' \in [Clients -> Enum] /\ \A x \in Clients \ {c} : en'[x].pc = en[x].pc
      /\ en'[c].pc = "ready"
  BY <1>1, <1>2 DEF Enum
<1>5. dirhRef' = dirhRef
               + One(en'[c].pc \in {"ready", "open", "peek"}) + One(en'[c].pc = "peek")
               - One(en[c].pc \in {"ready", "open", "peek"}) - One(en[c].pc = "peek")
  BY <1>1, <1>2, <1>4 DEF One
<1>6. dirhRef' # 0
  <2>1. Held(c) >= 1 /\ Held(c) \in Nat
    BY <1>2 DEF Held, One
  <2> QED BY <1>1, <1>2, <2>1, RefsOf
<1> QED BY <1>2, <1>3, <1>4, <1>5, <1>6, EnumStep

\* An enumerator goes on to the next entry, or follows a stale pointer.
LEMMA EnumNextInv ==
    ASSUME SInv, NEW c \in Clients, EnumNext(c)
    PROVE  SInv'
<1>1. Shape /\ DirhOK(dirh) /\ DirInv /\ DirhRefsMatch /\ dirhRef \in Nat /\ en \in [Clients -> Enum]
      /\ dirh \in Dirh
  BY DEF SInv, Shape
<1>2. CASE Halt("enum")
  BY <1>2, HaltStep
<1>3. CASE ~Halt("enum")
  <2>1. /\ mutex = {} /\ en[c].pc = "ready" /\ dirh.open
        /\ UNCHANGED <<dir, file, dirh, dirhRef, mutex, pobj, cl, halted>>
    BY <1>3 DEF EnumNext, Unlocked
  <2>2. PICK i \in Index :
           /\ dirh.tab[i] # None
           /\ en' = [en EXCEPT ![c].pc = "open", ![c].idx = i + 1, ![c].name = dirh.tab[i].name]
    BY <1>3 DEF EnumNext
  <2>3. dirh.tab[i].name \in Names /\ i + 1 \in Nat
    BY <1>1, <2>2, Sizes DEF Dirh, Entry
  <2>4. /\ en' \in [Clients -> Enum] /\ \A x \in Clients \ {c} : en'[x].pc = en[x].pc
        /\ en'[c].pc = "open"
    BY <1>1, <2>2, <2>3 DEF Enum
  <2>5. dirh'.open => dirh' = GetDirh
    BY <2>1 DEF GetDirh
  <2>6. dirhRef' = dirhRef
                 + One(en'[c].pc \in {"ready", "open", "peek"}) + One(en'[c].pc = "peek")
                 - One(en[c].pc \in {"ready", "open", "peek"}) - One(en[c].pc = "peek")
    BY <1>1, <2>1, <2>4 DEF One
  <2>7. dirhRef' = 0 => ~dirh'.open
    BY <1>1, <2>1 DEF DirhRefsMatch
  <2> QED BY <1>1, <2>1, <2>4, <2>5, <2>6, <2>7, EnumStep
<1> QED BY <1>2, <1>3

\* An enumerator opens the entry's object.
LEMMA EnumOpenInv ==
    ASSUME SInv, NEW c \in Clients, EnumOpen(c)
    PROVE  SInv'
<1>1. Shape /\ DirhOK(dirh) /\ DirInv /\ DirhRefsMatch /\ dirhRef \in Nat /\ en \in [Clients -> Enum]
  BY DEF SInv, Shape
<1>2. GetDirh \in Dirh /\ GetDirh.open
  BY <1>1, TheDirectory
<1>3. PICK ok \in BOOLEAN :
         /\ dirh' = GetDirh
         /\ dirhRef' = IF ok THEN dirhRef + 1 ELSE dirhRef
         /\ en' = [en EXCEPT ![c].pc = IF ok THEN "peek" ELSE "ready", ![c].name = None]
  <2>1. PICK ok \in BOOLEAN :
           ok = (/\ Find(GetDirh.tab, en[c].name) # {}
                 /\ Versions(GetDirh.tab[Min(Find(GetDirh.tab, en[c].name))]) # {})
    OBVIOUS
  <2> QED BY <2>1 DEF EnumOpen
<1>4. en[c].pc = "open" /\ mutex = {} /\ UNCHANGED <<dir, file, mutex, pobj, cl, halted>>
  BY DEF EnumOpen, Unlocked
<1>5. /\ en' \in [Clients -> Enum] /\ \A x \in Clients \ {c} : en'[x].pc = en[x].pc
      /\ en'[c].pc = IF ok THEN "peek" ELSE "ready"
  BY <1>1, <1>3 DEF Enum
<1>6. dirhRef' = dirhRef
               + One(en'[c].pc \in {"ready", "open", "peek"}) + One(en'[c].pc = "peek")
               - One(en[c].pc \in {"ready", "open", "peek"}) - One(en[c].pc = "peek")
  BY <1>1, <1>3, <1>4, <1>5 DEF One
<1>7. dirhRef' # 0
  <2>1. Held(c) >= 1 /\ Held(c) \in Nat
    BY <1>4 DEF Held, One
  <2> QED BY <1>1, <1>3, <2>1, RefsOf
<1> QED BY <1>2, <1>3, <1>4, <1>5, <1>6, <1>7, EnumStep

\* And closes it.
LEMMA EnumPeekCloseInv ==
    ASSUME SInv, NEW c \in Clients, EnumPeekClose(c)
    PROVE  SInv'
<1>1. Shape /\ DirhRefsMatch /\ dirhRef \in Nat /\ en \in [Clients -> Enum] /\ dirh \in Dirh
  BY DEF SInv, Shape
<1>2. /\ en[c].pc = "peek" /\ mutex = {} /\ dirhRef' = dirhRef - 1
      /\ en' = [en EXCEPT ![c].pc = "ready"]
      /\ UNCHANGED <<dir, file, dirh, mutex, pobj, cl, halted>>
  BY DEF EnumPeekClose, Unlocked
<1>3. /\ en' \in [Clients -> Enum] /\ \A x \in Clients \ {c} : en'[x].pc = en[x].pc
      /\ en'[c].pc = "ready"
  BY <1>1, <1>2 DEF Enum
<1>4. dirhRef' = dirhRef
               + One(en'[c].pc \in {"ready", "open", "peek"}) + One(en'[c].pc = "peek")
               - One(en[c].pc \in {"ready", "open", "peek"}) - One(en[c].pc = "peek")
  BY <1>1, <1>2, <1>3 DEF One
<1>5. dirhRef' # 0
  <2>1. Held(c) >= 2 /\ Held(c) \in Nat
    BY <1>2 DEF Held, One
  <2> QED BY <1>1, <1>2, <2>1, RefsOf
<1>6. dirh'.open => dirh' = GetDirh
  BY <1>2 DEF GetDirh
<1> QED BY <1>1, <1>2, <1>3, <1>4, <1>5, <1>6, EnumStep

\* An enumeration ends.
LEMMA EnumEndInv ==
    ASSUME SInv, NEW c \in Clients, EnumEnd(c)
    PROVE  SInv'
<1>1. Shape /\ DirhRefsMatch /\ dirhRef \in Nat /\ en \in [Clients -> Enum] /\ dirh \in Dirh
  BY DEF SInv, Shape
<1>2. CASE Halt("enum")
  BY <1>2, HaltStep
<1>3. CASE ~Halt("enum")
  <2>1. PICK refs, d : /\ refs = IF en[c].pc = "ready" THEN dirhRef - 1 ELSE dirhRef
                       /\ d = IF refs = 0 THEN Closed ELSE dirh
    OBVIOUS
  <2>2. /\ en[c].pc \in {"ready", "failed"} /\ mutex = {} /\ dirh' = d /\ dirhRef' = refs
        /\ en' = [x \in Clients |-> IF x = c THEN NoEnum
                     ELSE [en[x] EXCEPT !.valid = @ /\ d.open]]
        /\ UNCHANGED <<dir, file, mutex, pobj, cl, halted>>
    BY <1>3, <2>1 DEF EnumEnd, Unlocked
  <2>3. Closed \in Dirh /\ ~Closed.open /\ NoEnum \in Enum /\ NoEnum.pc = "none"
    BY DEF Closed, Dirh, EmptyTable, NoEnum, Enum
  <2>4. d \in Dirh /\ (d.open => d = dirh) /\ (refs = 0 => ~d.open)
    BY <1>1, <2>1, <2>3
  <2>5. /\ en' \in [Clients -> Enum] /\ \A x \in Clients \ {c} : en'[x].pc = en[x].pc
        /\ en'[c].pc = "none"
    <3>1. \A x \in Clients : en[x].valid \in BOOLEAN /\ en[x] \in Enum
      BY <1>1 DEF Enum
    <3>2. d.open \in BOOLEAN
      BY <2>4 DEF Dirh
    <3>3. \A x \in Clients \ {c} : en'[x] = [en[x] EXCEPT !.valid = en[x].valid /\ d.open]
      BY <2>2
    <3>4. ASSUME NEW x \in Clients \ {c} PROVE en'[x] \in Enum /\ en'[x].pc = en[x].pc
      <4>1. PICK b \in BOOLEAN : en'[x] = [en[x] EXCEPT !.valid = b]
        BY <3>1, <3>2, <3>3
      <4> QED BY <3>1, <4>1 DEF Enum
    <3>5. en'[c] = NoEnum /\ en' = [x \in Clients |-> en'[x]]
      BY <2>2
    <3> QED BY <2>3, <3>4, <3>5
  <2>6. dirhRef' = dirhRef
                 + One(en'[c].pc \in {"ready", "open", "peek"}) + One(en'[c].pc = "peek")
                 - One(en[c].pc \in {"ready", "open", "peek"}) - One(en[c].pc = "peek")
    BY <1>1, <2>1, <2>2, <2>5 DEF One
  <2>7. dirh'.open => dirh' = GetDirh
    BY <2>2, <2>4 DEF GetDirh
  <2> QED BY <2>2, <2>4, <2>5, <2>6, <2>7, EnumStep
<1> QED BY <1>2, <1>3

-----------------------------------------------------------------------------
(* Steps that change the disk.                                             *)

\* The file of directory entry e has the version e vouches for.
Backed(f, e) == f[e.num] # None /\ \E v \in 0..1 : f[e.num][v] = e.hash

\* Recoverable in these terms.
LEMMA RecoverableIs == Recoverable <=> \A i \in Index : dir[i] # None => Backed(file, dir[i])
<1>1. \A e : Versions(e) # {} <=> Backed(file, e)
  BY DEF Versions, Backed
<1> QED BY <1>1 DEF Recoverable

\* The directory entry of a writer; nobody else has its name.
LEMMA WriterEntry ==
    ASSUME SInv, NEW x \in Clients, Writer(x)
    PROVE  \E i \in Index :
              /\ cl[x].fh.idx = i /\ dir[i] # None /\ dir[i] \in Entry
              /\ cl[x].fh.num = dir[i].num /\ cl[x].fh.num \in Numbers
              /\ cl[x].fh \in Handle /\ dir[i].name = OnDisk(x)
              /\ \A c \in Clients \ {x} : cl[c].name # dir[i].name /\ cl[c].new # dir[i].name
<1>1. Shape /\ PcInv /\ PobjInv /\ PcOK(cl[x]) /\ cl[x] \in Client
  BY DEF SInv, PcInv, Shape
<1>2. HandleOK(x, cl[x].fh, dir[cl[x].fh.idx])
  BY DEF SInv, FilesInv
<1>3. cl[x].fh \in Handle
  <2>1. cl[x].fh # None
    BY <1>1 DEF PcOK, Writer, Busy
  <2> QED BY <1>1, <2>1 DEF Client
<1>4. PICK i \in Index : cl[x].fh.idx = i /\ cl[x].fh.num \in Numbers
  BY <1>3 DEF Handle
<1>5. dir[i] # None /\ cl[x].fh.num = dir[i].num /\ dir[i].name = OnDisk(x)
  BY <1>2, <1>4 DEF HandleOK
<1>6. \A c \in Clients \ {x} : cl[c].name # dir[i].name /\ cl[c].new # dir[i].name
  BY <1>1, <1>5, OneWriter
<1> QED BY <1>1, <1>3, <1>4, <1>5, <1>6 DEF Shape

\* A step of c in a file operation.  What other writers depend on stays.
LEMMA DiskStep ==
    ASSUME SInv, NEW c \in Clients, mutex \subseteq {c},
           cl' \in [Clients -> Client], \A x \in Clients \ {c} : cl'[x] = cl[x],
           cl'[c].name = cl[c].name, cl'[c].new = cl[c].new, cl'[c].flags = cl[c].flags,
           PcOK(cl'[c]), UNCHANGED <<pobj, halted>>,
           mutex' = IF cl'[c].pc \in Busy THEN {c} ELSE {},
           cl'[c].pc \in Busy => dirh'.open,
           dir' \in [Index -> Entry \cup {None}], file' \in [Numbers -> File \cup {None}],
           dirh' \in Dirh, DirhOK(dirh)', DirInv',
           \A i \in Index : dir'[i] # None => Backed(file', dir'[i]),
           en' \in [Clients -> Enum], \A x \in Clients : en'[x].pc = en[x].pc,
           dirhRef' \in Nat, dirhRef' = dirhRef + Held(c)' - Held(c),
           dirhRef' = 0 => ~dirh'.open,
           FileOK(c)',
           \A x \in Clients \ {c} : Writer(x) => /\ dir'[cl[x].fh.idx] = dir[cl[x].fh.idx]
                                                 /\ file'[cl[x].fh.num] = file[cl[x].fh.num]
    PROVE  SInv'
<1>1. Shape /\ PcInv /\ MutexInv /\ PobjInv /\ FilesInv /\ DirhRefsMatch
  BY DEF SInv
<1>2. Shape'
  BY <1>1 DEF Shape
<1>3. PcInv'
  BY <1>1 DEF PcInv
<1>4. MutexInv'
  <2>1. \A x \in Clients \ {c} : cl[x].pc \notin Busy
    BY <1>1 DEF MutexInv
  <2> QED BY <2>1 DEF MutexInv
<1>5. PobjInv'
  BY <1>1, PobjKept
<1>6. ASSUME NEW x \in Clients PROVE FileOK(x)'
  <2>1. CASE x = c
    BY <2>1
  <2>2. CASE x # c
    <3>1. /\ cl'[x] = cl[x] /\ cl[x].pc # "create_name"
          /\ cl[x].pc \notin {"create_unlink", "remove_unlink"}
      BY <1>1, <2>2 DEF MutexInv, Busy
    <3>2. ASSUME Writer(x)' PROVE HandleOK(x, cl[x].fh, dir[cl[x].fh.idx])'
      <4>1. Writer(x) /\ HandleOK(x, cl[x].fh, dir[cl[x].fh.idx])
        BY <1>1, <3>1, <3>2 DEF Writer, FilesInv
      <4>2. /\ dir'[cl[x].fh.idx] = dir[cl[x].fh.idx]
            /\ file'[cl[x].fh.num] = file[cl[x].fh.num]
        BY <2>2, <4>1
      <4> QED BY <3>1, <4>1, <4>2 DEF HandleOK, Has, OnDisk
    <3> QED BY <3>1, <3>2 DEF FileOK
  <2> QED BY <2>1, <2>2
<1>7. FilesInv'
  BY <1>6 DEF FilesInv, FileOK
<1>8. Recoverable'
  <2>1. \A e : Versions(e)' # {} <=> Backed(file', e)
    BY DEF Versions, Backed
  <2> QED BY <2>1 DEF Recoverable
<1>9. DirhRefsMatch'
  <2>1. \A x \in Clients : x # c => /\ cl'[x].fh = cl[x].fh /\ cl'[x].pc = cl[x].pc
                                    /\ en'[x].pc = en[x].pc
    OBVIOUS
  <2> QED BY <1>1, <2>1, RefsStep
<1> QED BY <1>2, <1>3, <1>4, <1>5, <1>7, <1>8, <1>9 DEF SInv

\* The one that holds the mutex.
LEMMA Holder ==
    ASSUME SInv, NEW c \in Clients, cl[c].pc \in Busy
    PROVE  mutex = {c} /\ dirh.open /\ dirh.tab = dir
           /\ \A i \in Index : dir[i] # None => dir[i].num \in dirh.bits
<1>1. c \in mutex
  BY DEF SInv, MutexInv
<1> QED BY <1>1 DEF SInv, MutexInv, DirhOK

\* A create writes its file under a number that no entry has.
LEMMA FsCreateFileInv ==
    ASSUME SInv, NEW c \in Clients, NEW d \in Data, FsCreateFile(c, d)
    PROVE  SInv'
<1>1. /\ Shape /\ PcInv /\ PcOK(cl[c]) /\ DirhOK(dirh) /\ DirInv /\ DirhRefsMatch
      /\ cl \in [Clients -> Client] /\ file \in [Numbers -> File \cup {None}] /\ Recoverable
      /\ cl[c] \in Client
  BY DEF SInv, PcInv, Shape
<1>2. PICK dh : dh = GetDirh
  OBVIOUS
<1>3. /\ dh \in Dirh /\ dh.open /\ dh.tab = dir
      /\ \A i \in Index : dir[i] # None => dir[i].num \in dh.bits
  BY <1>1, <1>2, TheDirectory
<1>4. PICK k : k = Min(Numbers \ dh.bits)
  OBVIOUS
<1>5. PICK F, h : /\ F = [v \in 0..1 |-> IF v = 1 THEN d ELSE Torn]
                  /\ h = [num |-> k, idx |-> 0, base |-> 1, hash |-> d]
  OBVIOUS
<1>6. /\ cl[c].pc = "create" /\ mutex = {} /\ Numbers \ dh.bits # {}
      /\ dirh' = [dh EXCEPT !.bits = @ \cup {k}] /\ file' = [file EXCEPT ![k] = F]
      /\ cl' = [cl EXCEPT ![c].pc = "create_name", ![c].fh = h]
      /\ dirhRef' = dirhRef + 1 /\ mutex' = {c} /\ UNCHANGED <<dir, pobj, en, halted>>
  BY <1>2, <1>4, <1>5 DEF FsCreateFile, At, Unlocked
<1>7. k \in Numbers /\ k \notin dh.bits
  BY <1>4, <1>6, LeastNumber, Sizes
<1>8. F \in File /\ F[1] = d
  BY <1>5 DEF File
<1>9. /\ h \in Handle /\ h.num = k /\ h.idx = 0 /\ h.base = 1 /\ h.hash = d /\ h # None
      /\ h.hash # None
  <2>1. Names # {}
    BY <1>1, <1>6 DEF PcOK, Client
  <2>2. h \in Handle /\ h.num = k /\ h.idx = 0 /\ h.base = 1 /\ h.hash = d
    BY <1>5, <1>7, <2>1, Sizes DEF Handle
  <2> QED BY <2>2, NoneIsNothing
<1>10. /\ cl' \in [Clients -> Client] /\ \A x \in Clients \ {c} : cl'[x] = cl[x]
       /\ cl'[c].pc = "create_name" /\ cl'[c].name = cl[c].name /\ cl'[c].new = cl[c].new
       /\ cl'[c].flags = cl[c].flags /\ cl'[c].fh = h /\ cl'[c].old = cl[c].old
  BY <1>1, <1>6, <1>9 DEF Client, Pcs
<1>11. PcOK(cl'[c])
  BY <1>1, <1>6, <1>9, <1>10 DEF PcOK, Busy, Renames
<1>12. /\ dirh' \in Dirh /\ dirh'.open /\ dirh'.tab = dir /\ dirh'.bits = dh.bits \cup {k}
  BY <1>3, <1>6, <1>7 DEF Dirh
<1>13. /\ file' \in [Numbers -> File \cup {None}] /\ file'[k] = F
       /\ \A j \in Numbers \ {k} : file'[j] = file[j]
  BY <1>1, <1>6, <1>7, <1>8
<1>14. DirhOK(dirh)' /\ DirInv'
  BY <1>1, <1>3, <1>6, <1>12 DEF DirhOK, DirInv
<1>15. \A i \in Index : dir[i] # None => dir[i].num \in Numbers \ {k}
  BY <1>1, <1>3, <1>7 DEF Shape, Entry
<1>16. \A i \in Index : dir'[i] # None => Backed(file', dir'[i])
  BY <1>1, <1>6, <1>13, <1>15, RecoverableIs DEF Backed
<1>17. dirhRef' \in Nat /\ dirhRef' = dirhRef + Held(c)' - Held(c) /\ dirhRef' # 0
  <2>1. cl[c].fh = None /\ cl'[c].fh # None
    BY <1>1, <1>6, <1>9, <1>10 DEF PcOK
  <2>2. /\ cl[c].pc \notin {"write_sync", "write_commit", "remove_unlink"}
        /\ cl'[c].pc \notin {"write_sync", "write_commit", "remove_unlink"}
    BY <1>6, <1>10
  <2>3. dirhRef \in Nat /\ Held(c)' = 1 + Held(c) /\ Held(c) \in Nat
    BY <1>1, <1>6, <2>1, <2>2, RefsOf DEF Held, One
  <2> QED BY <1>6, <2>3
<1>18. FileOK(c)'
  <2>1. ~Writer(c)'
    BY <1>10 DEF Writer, Renames
  <2>2. NewFileOK(h)'
    BY <1>6, <1>8, <1>9, <1>12, <1>13, <1>15, NoneIsNothing DEF NewFileOK, Has
  <2> QED BY <1>10, <2>1, <2>2 DEF FileOK
<1>19. ASSUME NEW x \in Clients \ {c}, Writer(x)
       PROVE  /\ dir'[cl[x].fh.idx] = dir[cl[x].fh.idx]
              /\ file'[cl[x].fh.num] = file[cl[x].fh.num]
  BY <1>6, <1>13, <1>15, <1>19, WriterEntry
<1>20. /\ dir' \in [Index -> Entry \cup {None}]
       /\ en' \in [Clients -> Enum] /\ \A x \in Clients : en'[x].pc = en[x].pc
  BY <1>1, <1>6 DEF Shape
<1>21. mutex \subseteq {c} /\ cl'[c].pc \in Busy
  BY <1>6, <1>10 DEF Busy
<1> QED BY <1>6, <1>10, <1>11, <1>12, <1>13, <1>14, <1>16, <1>17, <1>18, <1>19, <1>20, <1>21,
           DiskStep

\* A create that fails removes its file, which no entry has.
LEMMA FsCreateFailsInv ==
    ASSUME SInv, NEW c \in Clients, FsCreateFails(c)
    PROVE  SInv'
<1>1. /\ Shape /\ PcInv /\ PcOK(cl[c]) /\ DirhOK(dirh) /\ DirInv /\ DirhRefsMatch
      /\ cl \in [Clients -> Client] /\ file \in [Numbers -> File \cup {None}] /\ Recoverable
      /\ cl[c] \in Client /\ dirh \in Dirh
  BY DEF SInv, PcInv, Shape
<1>2. /\ cl[c].pc = "create_name" /\ PutDirh(dirh, dirhRef - 1, TRUE) /\ mutex' = {}
      /\ file' = [file EXCEPT ![cl[c].fh.num] = None]
      /\ UNCHANGED <<dir, pobj, halted>>
  BY DEF FsCreateFails, At
<1>0. PICK l \in {"release", "remove"} : cl' = [cl EXCEPT ![c].pc = l, ![c].fh = None]
  BY DEF FsCreateFails
<1>3. cl[c].fh \in Handle /\ cl[c].fh # None /\ NewFileOK(cl[c].fh)
  BY <1>1, <1>2 DEF SInv, FilesInv, PcOK, Busy, Client
<1>4. PICK k \in Numbers : k = cl[c].fh.num
  BY <1>3 DEF Handle
<1>5. /\ cl' \in [Clients -> Client] /\ \A x \in Clients \ {c} : cl'[x] = cl[x]
      /\ cl'[c].pc = l /\ cl'[c].name = cl[c].name /\ cl'[c].new = cl[c].new
      /\ cl'[c].flags = cl[c].flags /\ cl'[c].fh = None /\ cl'[c].old = cl[c].old
  BY <1>0, <1>1 DEF Client, Pcs
<1>6. PcOK(cl'[c])
  BY <1>1, <1>2, <1>5 DEF PcOK, Busy, Renames
<1>7. /\ file' \in [Numbers -> File \cup {None}]
      /\ \A j \in Numbers \ {k} : file'[j] = file[j]
  BY <1>1, <1>2, <1>4
<1>8. Held(c) >= 1 /\ Held(c) \in Nat
  BY <1>3 DEF Held, One
<1>9. dirhRef \in Nat /\ dirhRef - 1 \in Nat
  BY <1>1, <1>8, RefsOf
<1>10. /\ dirh' \in Dirh /\ dirhRef' = dirhRef - 1 /\ (dirh'.open => dirh' = dirh)
       /\ dirhRef' = 0 => ~dirh'.open
       /\ en' \in [Clients -> Enum] /\ \A x \in Clients : en'[x].pc = en[x].pc
  BY <1>1, <1>2, <1>9, PutDirhFacts
<1>11. dirhRef' \in Nat /\ dirhRef' = dirhRef + Held(c)' - Held(c)
  <2>1. Held(c) = Held(c)' + 1 /\ Held(c)' \in Nat
    <3>1. /\ cl[c].pc \notin {"write_sync", "write_commit", "remove_unlink"}
          /\ cl'[c].pc \notin {"write_sync", "write_commit", "remove_unlink"}
      BY <1>2, <1>5
    <3> QED BY <1>3, <1>5, <1>10, <3>1 DEF Held, One
  <2> QED BY <1>9, <1>10, <2>1
<1>12. DirhOK(dirh)' /\ DirInv'
  BY <1>1, <1>2, <1>10 DEF DirhOK, DirInv
<1>13. \A i \in Index : dir[i] # None => dir[i].num \in Numbers \ {k}
  BY <1>1, <1>3, <1>4 DEF Shape, Entry, NewFileOK
<1>14. \A i \in Index : dir'[i] # None => Backed(file', dir'[i])
  BY <1>1, <1>2, <1>7, <1>13, RecoverableIs DEF Backed
<1>15. FileOK(c)' /\ cl'[c].pc \notin Busy
  BY <1>5 DEF FileOK, Writer, Renames, Busy
<1>16. ASSUME NEW x \in Clients \ {c}, Writer(x)
       PROVE  /\ dir'[cl[x].fh.idx] = dir[cl[x].fh.idx]
              /\ file'[cl[x].fh.num] = file[cl[x].fh.num]
  BY <1>2, <1>7, <1>13, <1>16, WriterEntry
<1>17. dir' \in [Index -> Entry \cup {None}] /\ mutex \subseteq {c}
  BY <1>1, <1>2, Holder DEF Shape, Busy
<1> QED BY <1>2, <1>5, <1>6, <1>7, <1>10, <1>11, <1>12, <1>14, <1>15, <1>16, <1>17, DiskStep

\* A create commits its entry, in place of the old one or in a free place.
LEMMA FsSetNameInv ==
    ASSUME SInv, NEW c \in Clients, NEW overwrite \in BOOLEAN, FsSetName(c, overwrite)
    PROVE  SInv'
<1>1. /\ Shape /\ PcInv /\ PcOK(cl[c]) /\ DirhOK(dirh) /\ DirInv /\ DirhRefsMatch
      /\ cl \in [Clients -> Client] /\ file \in [Numbers -> File \cup {None}] /\ Recoverable
      /\ cl[c] \in Client /\ dirh \in Dirh /\ dir \in [Index -> Entry \cup {None}]
  BY DEF SInv, PcInv, Shape
<1>2. /\ cl[c].pc = "create_name" /\ UNCHANGED <<file, dirhRef, pobj, en, halted>>
  BY DEF FsSetName, At
<1>3. /\ mutex = {c} /\ dirh.open /\ dirh.tab = dir
      /\ \A i \in Index : dir[i] # None => dir[i].num \in dirh.bits
  BY <1>2, Holder DEF Busy
<1>4. PICK n, h : n = cl[c].name /\ h = cl[c].fh
  OBVIOUS
<1>5. /\ n \in Names /\ h \in Handle /\ h # None /\ NewFileOK(h) /\ h.num \in Numbers
      /\ h.hash \in Data
  <2>1. n \in Names /\ h # None /\ h.hash # None
    BY <1>1, <1>2, <1>4 DEF PcOK, Busy, Client
  <2>2. h \in Handle /\ NewFileOK(h)
    BY <1>1, <1>2, <1>4, <2>1 DEF SInv, FilesInv, Client
  <2> QED BY <2>1, <2>2 DEF Handle
<1>6. PICK i : i = IF Find(dir, n) = {} THEN FirstFree(dir) ELSE Min(Find(dir, n))
  OBVIOUS
<1>7. PICK e : e = [name |-> n, num |-> h.num, hash |-> h.hash]
  OBVIOUS
<1>8. /\ e \in Entry /\ e # None /\ e.name = n /\ e.num = h.num /\ e.hash = h.hash
  <2>1. e \in Entry /\ e.name = n /\ e.num = h.num /\ e.hash = h.hash
    BY <1>5, <1>7 DEF Entry
  <2> QED BY <2>1, NoneIsNothing
<1>9. /\ i \in Index
      /\ Find(dir, n) = {} => dir[i] = None
      /\ Find(dir, n) # {} => dir[i] # None /\ dir[i].name = n /\ dir[i] \in Entry
  <2>1. CASE Find(dir, n) = {}
    <3>1. \A a, b \in Index : dir[a] # None /\ dir[b] # None /\ dir[a].name = dir[b].name => a = b
      BY <1>1 DEF DirInv
    <3> QED BY <1>1, <1>5, <1>6, <2>1, <3>1, RoomForName
  <2>2. CASE Find(dir, n) # {}
    BY <1>1, <1>6, <2>2, Found
  <2> QED BY <2>1, <2>2
<1>10. /\ dir' = [dir EXCEPT ![i] = e] /\ dirh' = [dirh EXCEPT !.tab = [dir EXCEPT ![i] = e]]
       /\ IF Find(dir, n) = {}
          THEN cl' = [cl EXCEPT ![c].pc = "have", ![c].fh.idx = i] /\ mutex' = {}
          ELSE /\ cl' = [cl EXCEPT ![c].pc = "create_unlink", ![c].fh.idx = i,
                                   ![c].old = dir[i].num]
               /\ UNCHANGED mutex
  BY <1>3, <1>4, <1>6, <1>7 DEF FsSetName
<1>11. PICK g : g = [h EXCEPT !.idx = i]
  OBVIOUS
<1>12. /\ g \in Handle /\ g.num = h.num /\ g.idx = i /\ g.base = h.base /\ g.hash = h.hash
       /\ g # None
  <2>1. g \in Handle /\ g.num = h.num /\ g.idx = i /\ g.base = h.base /\ g.hash = h.hash
    BY <1>5, <1>9, <1>11 DEF Handle
  <2> QED BY <2>1, NoneIsNothing
<1>13. /\ cl' \in [Clients -> Client] /\ \A x \in Clients \ {c} : cl'[x] = cl[x]
       /\ cl'[c].pc \in {"have", "create_unlink"} /\ cl'[c].name = n /\ cl'[c].new = cl[c].new
       /\ cl'[c].flags = cl[c].flags /\ cl'[c].fh = g
       /\ cl'[c].pc = "have" => mutex' = {}
       /\ cl'[c].pc = "create_unlink" => /\ mutex' = {c} /\ dir[i] # None /\ dir[i] \in Entry
                                         /\ cl'[c].old = dir[i].num
  <2>1. CASE Find(dir, n) = {}
    <3>1. PICK r : r = [cl[c] EXCEPT !.pc = "have", !.fh = g]
      OBVIOUS
    <3>2. /\ r \in Client /\ r.pc = "have" /\ r.name = n /\ r.new = cl[c].new
          /\ r.flags = cl[c].flags /\ r.fh = g
      BY <1>1, <1>4, <1>12, <3>1 DEF Client, Pcs
    <3>3. cl' = [cl EXCEPT ![c] = r] /\ mutex' = {}
      BY <1>1, <1>4, <1>10, <1>11, <2>1, <3>1 DEF Client
    <3> QED BY <1>1, <3>2, <3>3
  <2>2. CASE Find(dir, n) # {}
    <3>0. dir[i] # None /\ dir[i] \in Entry /\ dir[i].num \in Numbers
      BY <1>9, <2>2 DEF Entry
    <3>1. PICK r : r = [cl[c] EXCEPT !.pc = "create_unlink", !.fh = g, !.old = dir[i].num]
      OBVIOUS
    <3>2. /\ r \in Client /\ r.pc = "create_unlink" /\ r.name = n /\ r.new = cl[c].new
          /\ r.flags = cl[c].flags /\ r.fh = g /\ r.old = dir[i].num
      BY <1>1, <1>4, <1>12, <3>0, <3>1 DEF Client, Pcs
    <3>3. cl' = [cl EXCEPT ![c] = r] /\ mutex' = {c}
      BY <1>1, <1>3, <1>4, <1>10, <1>11, <2>2, <3>1 DEF Client
    <3> QED BY <1>1, <3>0, <3>2, <3>3
  <2> QED BY <2>1, <2>2
<1>14. PcOK(cl'[c])
  <2>1. cl'[c].pc = "create_unlink" => cl'[c].old \in Numbers
    BY <1>13 DEF Entry
  <2> QED BY <1>1, <1>2, <1>4, <1>5, <1>8, <1>12, <1>13, <2>1, NoneIsNothing DEF PcOK, Busy, Renames
<1>15. /\ dir' \in [Index -> Entry \cup {None}] /\ dir'[i] = e
       /\ \A j \in Index \ {i} : dir'[j] = dir[j]
  BY <1>1, <1>8, <1>9, <1>10
<1>16. dirh' \in Dirh /\ dirh'.open /\ dirh'.tab = dir' /\ dirh'.bits = dirh.bits
  BY <1>1, <1>3, <1>10, <1>15 DEF Dirh
<1>17. \A j \in Index \ {i} : dir[j] # None => /\ dir[j].num # h.num /\ dir[j].name # n
                                               /\ dir[j].num \in Numbers
  <2> SUFFICES ASSUME NEW j \in Index \ {i}, dir[j] # None
               PROVE  dir[j].num # h.num /\ dir[j].name # n /\ dir[j].num \in Numbers
    OBVIOUS
  <2>1. dir[j].num # h.num /\ dir[j].num \in Numbers
    BY <1>1, <1>5 DEF NewFileOK, Entry
  <2>2. dir[j].name # n
    <3>1. CASE Find(dir, n) = {}
      BY <3>1 DEF Find
    <3>2. CASE Find(dir, n) # {}
      BY <1>1, <1>9, <3>2 DEF DirInv
    <3> QED BY <3>1, <3>2
  <2> QED BY <2>1, <2>2
<1>18. DirhOK(dirh)'
  <2>1. h.num \in dirh.bits
    BY <1>5 DEF NewFileOK
  <2> QED BY <1>3, <1>8, <1>15, <1>16, <2>1 DEF DirhOK
<1>19. DirInv'
  <2> SUFFICES ASSUME NEW a \in Index, NEW b \in Index, dir'[a] # None, dir'[b] # None,
                      dir'[a].name = dir'[b].name \/ dir'[a].num = dir'[b].num
               PROVE  a = b
    BY DEF DirInv
  <2>1. CASE a # i /\ b # i
    BY <1>1, <1>15, <2>1 DEF DirInv
  <2>2. CASE a = i \/ b = i
    BY <1>8, <1>15, <1>17, <2>2
  <2> QED BY <2>1, <2>2
<1>20. file' \in [Numbers -> File \cup {None}] /\ file' = file
  BY <1>1, <1>2
<1>21. Has(h.num, h.base, h.hash) /\ Has(h.num, h.base, h.hash)' /\ h.base \in 0..1
  BY <1>5, <1>20 DEF NewFileOK, Has, Handle
<1>22. \A j \in Index : dir'[j] # None => Backed(file', dir'[j])
  <2> SUFFICES ASSUME NEW j \in Index, dir'[j] # None PROVE Backed(file', dir'[j])
    OBVIOUS
  <2>1. CASE j = i
    BY <1>8, <1>15, <1>21, <2>1 DEF Backed, Has
  <2>2. CASE j # i
    BY <1>1, <1>15, <1>20, <2>2, RecoverableIs DEF Backed
  <2> QED BY <2>1, <2>2
<1>23. dirhRef' \in Nat /\ dirhRef' = dirhRef + Held(c)' - Held(c) /\ dirhRef' # 0
  <2>1. /\ cl[c].pc \notin {"write_sync", "write_commit", "remove_unlink"}
        /\ cl'[c].pc \notin {"write_sync", "write_commit", "remove_unlink"}
    BY <1>2, <1>13
  <2>2. Held(c)' = Held(c) /\ Held(c) >= 1
    BY <1>2, <1>4, <1>5, <1>12, <1>13, <2>1 DEF Held, One
  <2> QED BY <1>1, <1>2, <2>2, RefsOf
<1>24. FileOK(c)'
  <2>1. HandleOK(c, g, e)'
    BY <1>8, <1>12, <1>13, <1>21 DEF HandleOK, OnDisk
  <2>2. cl'[c].fh = g /\ dir'[cl'[c].fh.idx] = e
    BY <1>12, <1>13, <1>15
  <2>3. ASSUME cl'[c].pc = "create_unlink" PROVE UnlinkOK(cl[c])'
    <3>1. dir[i] # None /\ cl'[c].old = dir[i].num
      BY <1>13, <2>3
    <3>2. h.num # dir[i].num
      BY <1>5, <1>9, <3>1 DEF NewFileOK
    <3>3. \A j \in Index \ {i} : dir[j] # None => dir[j].num # dir[i].num
      BY <1>1, <1>9, <3>1 DEF DirInv
    <3>4. \A j \in Index : dir'[j] # None => dir'[j].num # dir[i].num
      BY <1>8, <1>15, <3>2, <3>3
    <3> QED BY <2>3, <3>1, <3>4 DEF UnlinkOK
  <2> QED BY <1>13, <2>1, <2>2, <2>3 DEF FileOK
<1>25. ASSUME NEW x \in Clients \ {c}, Writer(x)
       PROVE  /\ dir'[cl[x].fh.idx] = dir[cl[x].fh.idx]
              /\ file'[cl[x].fh.num] = file[cl[x].fh.num]
  <2>1. PICK j \in Index : /\ cl[x].fh.idx = j /\ dir[j] # None /\ cl[x].fh.num = dir[j].num
                           /\ n # dir[j].name
    BY <1>4, <1>25, WriterEntry
  <2>2. j # i
    BY <1>9, <2>1
  <2> QED BY <1>15, <1>20, <2>1, <2>2
<1>26. en' \in [Clients -> Enum] /\ \A x \in Clients : en'[x].pc = en[x].pc
  BY <1>1, <1>2 DEF Shape
<1>27. mutex' = (IF cl'[c].pc \in Busy THEN {c} ELSE {}) /\ mutex \subseteq {c}
       /\ cl'[c].name = cl[c].name
  BY <1>3, <1>4, <1>13 DEF Busy
<1> QED BY <1>2, <1>13, <1>14, <1>15, <1>16, <1>18, <1>19, <1>20, <1>22, <1>23, <1>24,
           <1>25, <1>26, <1>27, DiskStep

\* The file of the old object goes when no entry has its number any more.
LEMMA FsSetNameUnlinkInv ==
    ASSUME SInv, NEW c \in Clients, FsSetNameUnlink(c)
    PROVE  SInv'
<1>1. /\ Shape /\ PcInv /\ PcOK(cl[c]) /\ DirhOK(dirh) /\ DirInv /\ DirhRefsMatch
      /\ cl \in [Clients -> Client] /\ file \in [Numbers -> File \cup {None}] /\ Recoverable
      /\ cl[c] \in Client /\ dirh \in Dirh /\ dir \in [Index -> Entry \cup {None}]
  BY DEF SInv, PcInv, Shape
<1>2. /\ cl[c].pc = "create_unlink" /\ file' = [file EXCEPT ![cl[c].old] = None]
      /\ cl' = [cl EXCEPT ![c].pc = "have", ![c].old = None] /\ mutex' = {}
      /\ UNCHANGED <<dir, dirh, dirhRef, pobj, en, halted>>
  BY DEF FsSetNameUnlink, At
<1>3. PICK k \in Numbers : k = cl[c].old
  BY <1>1, <1>2 DEF PcOK
<1>4. /\ cl' \in [Clients -> Client] /\ \A x \in Clients \ {c} : cl'[x] = cl[x]
      /\ cl'[c].pc = "have" /\ cl'[c].name = cl[c].name /\ cl'[c].new = cl[c].new
      /\ cl'[c].flags = cl[c].flags /\ cl'[c].fh = cl[c].fh
  BY <1>1, <1>2 DEF Client, Pcs
<1>5. PcOK(cl'[c])
  BY <1>1, <1>2, <1>4 DEF PcOK, Renames
<1>6. \A i \in Index : dir[i] # None => dir[i].num \in Numbers \ {k}
  BY <1>1, <1>2, <1>3 DEF SInv, FilesInv, UnlinkOK, Entry
<1>7. /\ file' \in [Numbers -> File \cup {None}] /\ \A j \in Numbers \ {k} : file'[j] = file[j]
  BY <1>1, <1>2, <1>3
<1>8. \A i \in Index : dir'[i] # None => Backed(file', dir'[i])
  BY <1>1, <1>2, <1>6, <1>7, RecoverableIs DEF Backed
<1>9. dirhRef' \in Nat /\ dirhRef' = dirhRef + Held(c)' - Held(c) /\ dirhRef' # 0
  <2>1. /\ cl[c].pc \notin {"write_sync", "write_commit", "remove_unlink"}
        /\ cl'[c].pc \notin {"write_sync", "write_commit", "remove_unlink"} /\ cl[c].fh # None
    BY <1>1, <1>2, <1>4 DEF PcOK
  <2>2. Held(c)' = Held(c) /\ Held(c) >= 1
    BY <1>2, <1>4, <2>1 DEF Held, One
  <2> QED BY <1>1, <1>2, <2>2, RefsOf
<1>10. FileOK(c)' /\ cl'[c].pc \notin Busy
  <2>1. ASSUME Writer(c)' PROVE HandleOK(c, cl[c].fh, dir[cl[c].fh.idx])'
    <3>1. Writer(c)
      BY <1>2, <1>4, <2>1 DEF Writer
    <3>2. PICK i \in Index : /\ cl[c].fh.idx = i /\ dir[i] # None
                             /\ cl[c].fh.num = dir[i].num
      BY <3>1, WriterEntry
    <3>3. HandleOK(c, cl[c].fh, dir[cl[c].fh.idx])
      BY <3>1 DEF SInv, FilesInv
    <3>4. file'[cl[c].fh.num] = file[cl[c].fh.num]
      BY <1>6, <1>7, <3>2
    <3> QED BY <1>2, <1>4, <3>3, <3>4 DEF HandleOK, Has, OnDisk
  <2> QED BY <1>4, <2>1 DEF FileOK, Busy
<1>11. ASSUME NEW x \in Clients \ {c}, Writer(x)
       PROVE  /\ dir'[cl[x].fh.idx] = dir[cl[x].fh.idx]
              /\ file'[cl[x].fh.num] = file[cl[x].fh.num]
  BY <1>2, <1>6, <1>7, <1>11, WriterEntry
<1>12. /\ mutex \subseteq {c} /\ dir' \in [Index -> Entry \cup {None}] /\ dirh' \in Dirh
       /\ DirhOK(dirh)' /\ DirInv'
  BY <1>1, <1>2, Holder DEF Busy, DirhOK, DirInv
<1>13. en' \in [Clients -> Enum] /\ \A x \in Clients : en'[x].pc = en[x].pc
  BY <1>1, <1>2 DEF Shape
<1> QED BY <1>2, <1>4, <1>5, <1>7, <1>8, <1>9, <1>10, <1>11, <1>12, <1>13, DiskStep

\* Writing to a file changes one version of it; the directory entry i of the
\* writer is backed by the other one.
LEMMA OneVersion ==
    ASSUME Shape, NEW k \in Numbers, NEW v \in 0..1, NEW x \in Data \cup {Torn},
           file[k] # None, file' = [file EXCEPT ![k][v] = x]
    PROVE  /\ file' \in [Numbers -> File \cup {None}]
           /\ file'[k] # None /\ file'[k][v] = x /\ file'[k][1 - v] = file[k][1 - v]
           /\ \A j \in Numbers \ {k} : file'[j] = file[j]
<1>1. file \in [Numbers -> File \cup {None}] /\ file[k] \in File
  BY DEF Shape
<1>2. PICK F : F = [file[k] EXCEPT ![v] = x]
  OBVIOUS
<1>3. 1 - v \in 0..1 /\ 1 - v # v
  OBVIOUS
<1>4. F \in File /\ F[v] = x /\ F[1 - v] = file[k][1 - v]
  BY <1>1, <1>2, <1>3 DEF File
<1>5. file' = [file EXCEPT ![k] = F]
  BY <1>1, <1>2
<1> QED BY <1>1, <1>4, <1>5, NoneIsNothing

\* A write spoils the version that the directory does not vouch for.
LEMMA FsWriteBlocksInv ==
    ASSUME SInv, NEW c \in Clients, FsWriteBlocks(c)
    PROVE  SInv'
<1>1. /\ Shape /\ PcInv /\ PcOK(cl[c]) /\ DirhOK(dirh) /\ DirInv /\ DirhRefsMatch
      /\ cl \in [Clients -> Client] /\ Recoverable /\ dir \in [Index -> Entry \cup {None}]
  BY DEF SInv, PcInv, Shape
<1>2. /\ cl[c].pc = "have" /\ "W" \in cl[c].flags /\ mutex = {}
      /\ dirh' = GetDirh /\ dirhRef' = dirhRef + 1
      /\ file' = [file EXCEPT ![cl[c].fh.num][1 - cl[c].fh.base] = Torn]
      /\ Goto(c, "write_sync") /\ mutex' = {c} /\ UNCHANGED <<dir, pobj, en, halted>>
  BY DEF FsWriteBlocks, At, Unlocked
<1>3. /\ cl' \in [Clients -> Client] /\ \A x \in Clients \ {c} : cl'[x] = cl[x]
      /\ cl'[c].pc = "write_sync" /\ cl'[c].name = cl[c].name /\ cl'[c].new = cl[c].new
      /\ cl'[c].flags = cl[c].flags /\ cl'[c].fh = cl[c].fh /\ cl'[c].old = cl[c].old
  BY <1>1, <1>2, GotoFacts DEF Pcs
<1>4. Writer(c)
  BY <1>2 DEF Writer
<1>5. PICK i \in Index : /\ cl[c].fh.idx = i /\ dir[i] # None /\ dir[i] \in Entry
                         /\ cl[c].fh.num = dir[i].num /\ cl[c].fh.num \in Numbers
                         /\ cl[c].fh \in Handle
  BY <1>4, WriterEntry
<1>6. HandleOK(c, cl[c].fh, dir[i])
  BY <1>4, <1>5 DEF SInv, FilesInv
<1>7. PICK h, k, v : h = cl[c].fh /\ k = h.num /\ v = 1 - h.base
  OBVIOUS
<1>8. /\ h \in Handle /\ k \in Numbers /\ v \in 0..1 /\ h.base \in 0..1 /\ h.base = 1 - v
      /\ k = dir[i].num /\ h.idx = i
  <2>1. h.base \in 0..1
    BY <1>5, <1>7 DEF Handle
  <2> QED BY <1>5, <1>7, <2>1
<1>9. file[k] # None /\ file[k][1 - v] = dir[i].hash /\ h.hash = dir[i].hash
  BY <1>2, <1>6, <1>7, <1>8 DEF HandleOK, Has
<1>10. /\ file' \in [Numbers -> File \cup {None}]
       /\ file'[k] # None /\ file'[k][1 - v] = dir[i].hash
       /\ \A j \in Numbers \ {k} : file'[j] = file[j]
  <2>1. file' = [file EXCEPT ![k][v] = Torn] /\ Torn \in Data \cup {Torn}
    BY <1>2, <1>7
  <2>2. k \in Numbers /\ v \in 0..1 /\ file[k] # None
    BY <1>8, <1>9
  <2>3. /\ file' \in [Numbers -> File \cup {None}]
        /\ file'[k] # None /\ file'[k][v] = Torn /\ file'[k][1 - v] = file[k][1 - v]
        /\ \A j \in Numbers \ {k} : file'[j] = file[j]
    BY <1>1, <2>1, <2>2, OneVersion
  <2> QED BY <1>9, <2>3
<1>11. /\ GetDirh \in Dirh /\ GetDirh.open /\ GetDirh.tab = dir
       /\ \A j \in Index : dir[j] # None => dir[j].num \in GetDirh.bits
  BY <1>1, TheDirectory
<1>12. DirhOK(dirh)' /\ DirInv'
  BY <1>1, <1>2, <1>11 DEF DirhOK, DirInv
<1>13. \A j \in Index \ {i} : dir[j] # None => dir[j].num \in Numbers \ {k}
  BY <1>1, <1>5, <1>8 DEF DirInv, Entry
<1>14. \A j \in Index : dir'[j] # None => Backed(file', dir'[j])
  <2> SUFFICES ASSUME NEW j \in Index, dir[j] # None PROVE Backed(file', dir[j])
    BY <1>2
  <2>1. CASE j = i
    BY <1>8, <1>10, <2>1 DEF Backed
  <2>2. CASE j # i
    BY <1>1, <1>10, <1>13, <2>2, RecoverableIs DEF Backed
  <2> QED BY <2>1, <2>2
<1>15. PcOK(cl'[c])
  BY <1>1, <1>2, <1>3 DEF PcOK, Busy, Renames
<1>16. dirhRef' \in Nat /\ dirhRef' = dirhRef + Held(c)' - Held(c) /\ dirhRef' # 0
  <2>1. dirhRef \in Nat /\ Held(c)' = 1 + Held(c) /\ Held(c) \in Nat
    <3>1. /\ cl[c].pc \notin {"write_sync", "write_commit", "remove_unlink"}
          /\ cl'[c].pc \in {"write_sync", "write_commit", "remove_unlink"}
      BY <1>2, <1>3
    <3> QED BY <1>1, <1>2, <1>3, <3>1, RefsOf DEF Held, One
  <2> QED BY <1>2, <2>1
<1>17. FileOK(c)'
  <2>1. HandleOK(c, h, dir[i])'
    <3>1. OnDisk(c)' = OnDisk(c)
      BY <1>2, <1>3 DEF OnDisk
    <3> QED BY <1>2, <1>3, <1>6, <1>7, <1>8, <1>9, <1>10, <3>1 DEF HandleOK, Has
  <2>2. cl'[c].fh = h /\ dir'[cl'[c].fh.idx] = dir'[i]
    BY <1>3, <1>7, <1>8
  <2> QED BY <1>3, <2>1, <2>2 DEF FileOK
<1>18. ASSUME NEW x \in Clients \ {c}, Writer(x)
       PROVE  /\ dir'[cl[x].fh.idx] = dir[cl[x].fh.idx]
              /\ file'[cl[x].fh.num] = file[cl[x].fh.num]
  <2>1. PICK j \in Index : /\ cl[x].fh.idx = j /\ dir[j] # None /\ cl[x].fh.num = dir[j].num
                           /\ cl[c].name # dir[j].name
    BY <1>18, WriterEntry
  <2>2. j # i
    BY <1>2, <1>6, <2>1 DEF HandleOK, OnDisk
  <2> QED BY <1>2, <1>10, <1>13, <2>1, <2>2
<1>19. /\ dir' \in [Index -> Entry \cup {None}]
       /\ en' \in [Clients -> Enum] /\ \A x \in Clients : en'[x].pc = en[x].pc
  BY <1>1, <1>2 DEF Shape
<1>20. mutex \subseteq {c} /\ cl'[c].pc \in Busy /\ dirh' \in Dirh /\ dirh'.open
  BY <1>2, <1>3, <1>11 DEF Busy
<1> QED BY <1>2, <1>3, <1>10, <1>12, <1>14, <1>15, <1>16, <1>17, <1>18, <1>19, <1>20, DiskStep

\* The synchronisation completes that version; the directory has the other one.
LEMMA FsWriteSyncInv ==
    ASSUME SInv, NEW c \in Clients, NEW d \in Data, FsWriteSync(c, d)
    PROVE  SInv'
<1>1. /\ Shape /\ PcInv /\ PcOK(cl[c]) /\ DirhOK(dirh) /\ DirInv /\ DirhRefsMatch
      /\ cl \in [Clients -> Client] /\ Recoverable /\ dir \in [Index -> Entry \cup {None}]
      /\ dirh \in Dirh /\ cl[c] \in Client
  BY DEF SInv, PcInv, Shape
<1>2. PICK h : h = cl[c].fh
  OBVIOUS
<1>3. /\ cl[c].pc = "write_sync" /\ file' = [file EXCEPT ![h.num][1 - h.base] = d]
      /\ cl' = [cl EXCEPT ![c].pc = "write_commit", ![c].fh.base = 1 - h.base, ![c].fh.hash = d]
      /\ UNCHANGED <<dir, dirh, dirhRef, mutex, pobj, en, halted>>
  BY <1>2 DEF FsWriteSync, At
<1>4. Writer(c)
  BY <1>1, <1>3 DEF Writer, PcOK, Busy
<1>5. PICK i \in Index : /\ cl[c].fh.idx = i /\ dir[i] # None /\ dir[i] \in Entry
                         /\ cl[c].fh.num = dir[i].num /\ cl[c].fh.num \in Numbers
                         /\ cl[c].fh \in Handle
  BY <1>4, WriterEntry
<1>6. HandleOK(c, h, dir[i])
  BY <1>2, <1>4, <1>5 DEF SInv, FilesInv
<1>7. PICK k, v : k = h.num /\ v = 1 - h.base
  OBVIOUS
<1>8. /\ h \in Handle /\ k \in Numbers /\ v \in 0..1 /\ h.base \in 0..1 /\ h.base = 1 - v
      /\ k = dir[i].num /\ h.idx = i
  <2>1. h.base \in 0..1
    BY <1>2, <1>5 DEF Handle
  <2> QED BY <1>2, <1>5, <1>7, <2>1
<1>9. file[k] # None /\ file[k][1 - v] = dir[i].hash
  BY <1>3, <1>4, <1>6, <1>7, <1>8 DEF HandleOK, Has
<1>10. /\ file' \in [Numbers -> File \cup {None}]
       /\ file'[k] # None /\ file'[k][1 - v] = dir[i].hash /\ file'[k][v] = d
       /\ \A j \in Numbers \ {k} : file'[j] = file[j]
  <2>1. file' = [file EXCEPT ![k][v] = d] /\ d \in Data \cup {Torn}
    BY <1>3, <1>7
  <2>2. k \in Numbers /\ v \in 0..1 /\ file[k] # None
    BY <1>8, <1>9
  <2>3. /\ file' \in [Numbers -> File \cup {None}]
        /\ file'[k] # None /\ file'[k][v] = d /\ file'[k][1 - v] = file[k][1 - v]
        /\ \A j \in Numbers \ {k} : file'[j] = file[j]
    BY <1>1, <2>1, <2>2, OneVersion
  <2> QED BY <1>9, <2>3
<1>11. PICK g : g = [h EXCEPT !.base = v, !.hash = d]
  OBVIOUS
<1>12. /\ g \in Handle /\ g.num = k /\ g.idx = i /\ g.base = v /\ g.hash = d /\ g # None
       /\ g.hash # None
  <2>1. g \in Handle /\ g.num = k /\ g.idx = i /\ g.base = v /\ g.hash = d
    BY <1>7, <1>8, <1>11 DEF Handle
  <2> QED BY <2>1, NoneIsNothing
<1>13. /\ cl' \in [Clients -> Client] /\ \A x \in Clients \ {c} : cl'[x] = cl[x]
       /\ cl'[c].pc = "write_commit" /\ cl'[c].name = cl[c].name /\ cl'[c].new = cl[c].new
       /\ cl'[c].flags = cl[c].flags /\ cl'[c].fh = g /\ cl'[c].old = cl[c].old
  <2>1. PICK r : r = [cl[c] EXCEPT !.pc = "write_commit", !.fh = g]
    OBVIOUS
  <2>2. /\ r \in Client /\ r.pc = "write_commit" /\ r.name = cl[c].name /\ r.new = cl[c].new
        /\ r.flags = cl[c].flags /\ r.fh = g /\ r.old = cl[c].old
    BY <1>1, <1>12, <2>1 DEF Client, Pcs
  <2>3. cl' = [cl EXCEPT ![c] = r]
    BY <1>1, <1>2, <1>3, <1>7, <1>8, <1>11, <2>1 DEF Client, Handle
  <2> QED BY <1>1, <2>2, <2>3
<1>14. PcOK(cl'[c])
  BY <1>1, <1>3, <1>12, <1>13 DEF PcOK, Busy, Renames
<1>15. DirhOK(dirh)' /\ DirInv'
  BY <1>1, <1>3 DEF DirhOK, DirInv
<1>16. \A j \in Index \ {i} : dir[j] # None => dir[j].num \in Numbers \ {k}
  BY <1>1, <1>5, <1>8 DEF DirInv, Entry
<1>17. \A j \in Index : dir'[j] # None => Backed(file', dir'[j])
  <2> SUFFICES ASSUME NEW j \in Index, dir[j] # None PROVE Backed(file', dir[j])
    BY <1>3
  <2>1. CASE j = i
    <3>1. 1 - v \in 0..1
      BY <1>8
    <3> QED BY <1>8, <1>10, <2>1, <3>1 DEF Backed
  <2>2. CASE j # i
    BY <1>1, <1>10, <1>16, <2>2, RecoverableIs DEF Backed
  <2> QED BY <2>1, <2>2
<1>18. dirhRef' \in Nat /\ dirhRef' = dirhRef + Held(c)' - Held(c) /\ dirhRef' # 0
  <2>1. /\ cl[c].pc \in {"write_sync", "write_commit", "remove_unlink"}
        /\ cl'[c].pc \in {"write_sync", "write_commit", "remove_unlink"} /\ cl[c].fh # None
    BY <1>1, <1>3, <1>13 DEF PcOK, Busy
  <2>2. Held(c)' = Held(c) /\ Held(c) >= 1
    BY <1>3, <1>12, <1>13, <2>1 DEF Held, One
  <2> QED BY <1>1, <1>3, <2>2, RefsOf
<1>19. FileOK(c)'
  <2>1. HandleOK(c, g, dir[i])'
    <3>1. OnDisk(c)' = OnDisk(c)
      BY <1>3, <1>13 DEF OnDisk
    <3> QED BY <1>3, <1>5, <1>6, <1>7, <1>8, <1>10, <1>12, <1>13, <3>1 DEF HandleOK, Has
  <2>2. cl'[c].fh = g /\ dir'[cl'[c].fh.idx] = dir'[i]
    BY <1>12, <1>13
  <2> QED BY <1>13, <2>1, <2>2 DEF FileOK
<1>20. ASSUME NEW x \in Clients \ {c}, Writer(x)
       PROVE  /\ dir'[cl[x].fh.idx] = dir[cl[x].fh.idx]
              /\ file'[cl[x].fh.num] = file[cl[x].fh.num]
  <2>1. PICK j \in Index : /\ cl[x].fh.idx = j /\ dir[j] # None /\ cl[x].fh.num = dir[j].num
                           /\ cl[c].name # dir[j].name
    BY <1>20, WriterEntry
  <2>2. j # i
    BY <1>3, <1>6, <2>1 DEF HandleOK, OnDisk
  <2> QED BY <1>3, <1>10, <1>16, <2>1, <2>2
<1>21. /\ dir' \in [Index -> Entry \cup {None}] /\ dirh' \in Dirh
       /\ en' \in [Clients -> Enum] /\ \A x \in Clients : en'[x].pc = en[x].pc
  BY <1>1, <1>3 DEF Shape
<1>22. mutex \subseteq {c} /\ mutex' = {c} /\ cl'[c].pc \in Busy /\ dirh'.open
  <2>1. cl[c].pc \in Busy /\ cl'[c].pc \in Busy
    BY <1>3, <1>13 DEF Busy
  <2> QED BY <1>3, <2>1, Holder
<1> QED BY <1>3, <1>10, <1>13, <1>14, <1>15, <1>17, <1>18, <1>19, <1>20, <1>21, <1>22, DiskStep

\* The entry a write is recorded in is the writer's own.
LEMMA WriteFindsEntry ==
    ASSUME SInv, NEW c \in Clients, cl[c].pc = "write_commit"
    PROVE  /\ dirh.tab[cl[c].fh.idx] # None /\ dirh.tab[cl[c].fh.idx].num = cl[c].fh.num
           /\ dirh.tab[cl[c].fh.idx].num \in dirh.bits
<1>1. Writer(c) /\ cl[c].pc \in Busy
  BY DEF Writer, SInv, PcInv, PcOK, Busy
<1>2. dirh.tab = dir /\ \A i \in Index : dir[i] # None => dir[i].num \in dirh.bits
  BY <1>1, Holder
<1> QED BY <1>1, <1>2, WriterEntry

\* The directory comes to vouch for the new version.
LEMMA FsWriteCommitInv ==
    ASSUME SInv, NEW c \in Clients, FsWriteCommit(c)
    PROVE  SInv'
<1>1. /\ Shape /\ PcInv /\ PcOK(cl[c]) /\ DirhOK(dirh) /\ DirInv /\ DirhRefsMatch
      /\ cl \in [Clients -> Client] /\ Recoverable /\ dir \in [Index -> Entry \cup {None}]
      /\ dirh \in Dirh /\ cl[c] \in Client /\ file \in [Numbers -> File \cup {None}]
  BY DEF SInv, PcInv, Shape
<1>2. PICK h : h = cl[c].fh
  OBVIOUS
<1>3. cl[c].pc = "write_commit" /\ cl[c].pc \in Busy
  BY DEF FsWriteCommit, At, Busy
<1>4. Writer(c)
  BY <1>1, <1>3 DEF Writer, PcOK
<1>5. PICK i \in Index : /\ cl[c].fh.idx = i /\ dir[i] # None /\ dir[i] \in Entry
                         /\ cl[c].fh.num = dir[i].num /\ cl[c].fh.num \in Numbers
                         /\ cl[c].fh \in Handle
  BY <1>4, WriterEntry
<1>6. HandleOK(c, h, dir[i]) /\ h # None /\ h.hash \in Data /\ h.idx = i
  <2>1. HandleOK(c, h, dir[i]) /\ h # None
    BY <1>2, <1>4, <1>5, NoneIsNothing DEF SInv, FilesInv
  <2>2. h.hash # None
    BY <1>1, <1>2, <2>1 DEF PcOK
  <2> QED BY <1>2, <1>5, <2>1, <2>2 DEF Handle
<1>7. /\ mutex = {c} /\ dirh.open /\ dirh.tab = dir
      /\ \A j \in Index : dir[j] # None => dir[j].num \in dirh.bits
  BY <1>3, Holder
<1>8. PICK t : t = [dir EXCEPT ![i].hash = h.hash]
  OBVIOUS
<1>9. /\ dir' = t /\ PutDirh([dirh EXCEPT !.tab = t], dirhRef - 1, FALSE) /\ mutex' = {}
      /\ cl' = [cl EXCEPT ![c].pc = "have"] /\ UNCHANGED <<file, pobj, halted>>
  <2>1. /\ dirh.tab[h.idx] # None /\ dirh.tab[h.idx].num = h.num
        /\ dirh.tab[h.idx].num \in dirh.bits
    BY <1>2, <1>3, WriteFindsEntry
  <2> QED BY <1>2, <1>6, <1>7, <1>8, <2>1 DEF FsWriteCommit
<1>10. PICK e : e = [dir[i] EXCEPT !.hash = h.hash]
  OBVIOUS
<1>11. /\ e \in Entry /\ e # None /\ e.name = dir[i].name /\ e.num = dir[i].num
       /\ e.hash = h.hash
  <2>1. e \in Entry /\ e.name = dir[i].name /\ e.num = dir[i].num /\ e.hash = h.hash
    BY <1>5, <1>6, <1>10 DEF Entry
  <2> QED BY <2>1, NoneIsNothing
<1>12. /\ dir' \in [Index -> Entry \cup {None}] /\ dir'[i] = e
       /\ \A j \in Index \ {i} : dir'[j] = dir[j]
  BY <1>1, <1>8, <1>9, <1>10, <1>11
<1>13. PICK d : d = [dirh EXCEPT !.tab = t]
  OBVIOUS
<1>14. d \in Dirh /\ d.tab = dir' /\ d.bits = dirh.bits
  BY <1>1, <1>9, <1>12, <1>13 DEF Dirh
<1>15. dirhRef \in Nat /\ dirhRef - 1 \in Nat /\ Held(c) >= 2 /\ Held(c) \in Nat
  <2>1. cl[c].fh # None /\ cl[c].pc \in {"write_sync", "write_commit", "remove_unlink"}
    BY <1>2, <1>3, <1>6
  <2>2. Held(c) >= 2 /\ Held(c) \in Nat
    BY <2>1 DEF Held, One
  <2> QED BY <1>1, <2>2, RefsOf
<1>16. /\ dirh' \in Dirh /\ dirhRef' = dirhRef - 1 /\ (dirh'.open => dirh' = d)
       /\ dirhRef' = 0 => ~dirh'.open
       /\ en' \in [Clients -> Enum] /\ \A x \in Clients : en'[x].pc = en[x].pc
  BY <1>1, <1>9, <1>13, <1>14, <1>15, PutDirhFacts
<1>17. /\ cl' \in [Clients -> Client] /\ \A x \in Clients \ {c} : cl'[x] = cl[x]
       /\ cl'[c].pc = "have" /\ cl'[c].name = cl[c].name /\ cl'[c].new = cl[c].new
       /\ cl'[c].flags = cl[c].flags /\ cl'[c].fh = h /\ cl'[c].old = cl[c].old
  BY <1>1, <1>2, <1>9 DEF Client, Pcs
<1>18. PcOK(cl'[c])
  BY <1>1, <1>2, <1>3, <1>17 DEF PcOK, Busy, Renames
<1>19. DirhOK(dirh)' /\ DirInv'
  <2>1. DirhOK(dirh)'
    BY <1>5, <1>7, <1>11, <1>12, <1>14, <1>16 DEF DirhOK
  <2>2. \A j \in Index : /\ dir'[j] # None <=> dir[j] # None
                         /\ dir'[j] # None => dir'[j].name = dir[j].name /\ dir'[j].num = dir[j].num
    BY <1>5, <1>11, <1>12
  <2>3. DirInv'
    <3> SUFFICES ASSUME NEW a \in Index, NEW b \in Index, dir'[a] # None, dir'[b] # None,
                        dir'[a].name = dir'[b].name \/ dir'[a].num = dir'[b].num
                 PROVE  a = b
      BY DEF DirInv
    <3> QED BY <1>1, <2>2 DEF DirInv
  <2> QED BY <2>1, <2>3
<1>20. /\ Has(h.num, h.base, h.hash) /\ h.num = dir[i].num /\ h.base \in 0..1
  BY <1>2, <1>3, <1>5, <1>6 DEF HandleOK, Handle
<1>21. \A j \in Index : dir'[j] # None => Backed(file', dir'[j])
  <2> SUFFICES ASSUME NEW j \in Index, dir'[j] # None PROVE Backed(file', dir'[j])
    OBVIOUS
  <2>1. CASE j = i
    BY <1>9, <1>11, <1>12, <1>20, <2>1 DEF Backed, Has
  <2>2. CASE j # i
    BY <1>1, <1>9, <1>12, <2>2, RecoverableIs
  <2> QED BY <2>1, <2>2
<1>22. dirhRef' \in Nat /\ dirhRef' = dirhRef + Held(c)' - Held(c)
  <2>1. Held(c) = Held(c)' + 1 /\ Held(c)' \in Nat
    <3>1. /\ cl[c].pc \in {"write_sync", "write_commit", "remove_unlink"}
          /\ cl'[c].pc \notin {"write_sync", "write_commit", "remove_unlink"}
      BY <1>3, <1>17
    <3> QED BY <1>2, <1>16, <1>17, <3>1 DEF Held, One
  <2> QED BY <1>15, <1>16, <2>1
<1>23. FileOK(c)' /\ cl'[c].pc \notin Busy
  <2>1. HandleOK(c, h, e)'
    <3>1. OnDisk(c)' = OnDisk(c) /\ dir[i].name = OnDisk(c)
      BY <1>3, <1>6, <1>17 DEF OnDisk, HandleOK
    <3> QED BY <1>9, <1>11, <1>17, <1>20, <3>1 DEF HandleOK, Has
  <2>2. cl'[c].fh = h /\ dir'[cl'[c].fh.idx] = e
    BY <1>6, <1>12, <1>17
  <2> QED BY <1>17, <2>1, <2>2 DEF FileOK, Busy
<1>24. ASSUME NEW x \in Clients \ {c}, Writer(x)
       PROVE  /\ dir'[cl[x].fh.idx] = dir[cl[x].fh.idx]
              /\ file'[cl[x].fh.num] = file[cl[x].fh.num]
  <2>1. PICK j \in Index : /\ cl[x].fh.idx = j /\ dir[j] # None /\ cl[x].fh.num = dir[j].num
                           /\ cl[c].name # dir[j].name
    BY <1>24, WriterEntry
  <2>2. j # i
    BY <1>3, <1>6, <2>1 DEF HandleOK, OnDisk
  <2> QED BY <1>9, <1>12, <2>1, <2>2
<1>25. file' \in [Numbers -> File \cup {None}] /\ mutex \subseteq {c}
  BY <1>1, <1>7, <1>9
<1> QED BY <1>9, <1>12, <1>16, <1>17, <1>18, <1>19, <1>21, <1>22, <1>23, <1>24, <1>25, DiskStep

\* A write that fails leaves the directory with the old version.
LEMMA FsWriteFailsInv ==
    ASSUME SInv, NEW c \in Clients, FsWriteFails(c)
    PROVE  SInv'
<1>1. /\ Shape /\ PcInv /\ PcOK(cl[c]) /\ DirhOK(dirh) /\ DirInv /\ DirhRefsMatch
      /\ cl \in [Clients -> Client] /\ Recoverable /\ dir \in [Index -> Entry \cup {None}]
      /\ dirh \in Dirh /\ file \in [Numbers -> File \cup {None}]
  BY DEF SInv, PcInv, Shape
<1>2. /\ cl[c].pc \in {"write_sync", "write_commit"} /\ PutDirh(dirh, dirhRef - 1, TRUE)
      /\ mutex' = {} /\ UNCHANGED <<dir, file, pobj, halted>>
  BY DEF FsWriteFails, At
<1>0. PICK l \in {"close", "remove"} : Goto(c, l)
  BY DEF FsWriteFails
<1>3. Writer(c) /\ cl[c].fh # None
  BY <1>1, <1>2 DEF Writer, PcOK, Busy
<1>4. dirhRef \in Nat /\ dirhRef - 1 \in Nat
  <2>1. Held(c) >= 1 /\ Held(c) \in Nat
    BY <1>3 DEF Held, One
  <2> QED BY <1>1, <2>1, RefsOf
<1>5. /\ dirh' \in Dirh /\ dirhRef' = dirhRef - 1 /\ (dirh'.open => dirh' = dirh)
      /\ dirhRef' = 0 => ~dirh'.open
      /\ en' \in [Clients -> Enum] /\ \A x \in Clients : en'[x].pc = en[x].pc
  BY <1>1, <1>2, <1>4, PutDirhFacts
<1>6. /\ cl' \in [Clients -> Client] /\ \A x \in Clients \ {c} : cl'[x] = cl[x]
      /\ cl'[c].pc = l /\ cl'[c].name = cl[c].name /\ cl'[c].new = cl[c].new
      /\ cl'[c].flags = cl[c].flags /\ cl'[c].fh = cl[c].fh /\ cl'[c].old = cl[c].old
  BY <1>0, <1>1, GotoFacts DEF Pcs
<1>7. PcOK(cl'[c])
  BY <1>1, <1>2, <1>6 DEF PcOK, Busy, Renames
<1>8. DirhOK(dirh)' /\ DirInv'
  BY <1>1, <1>2, <1>5 DEF DirhOK, DirInv
<1>9. \A i \in Index : dir'[i] # None => Backed(file', dir'[i])
  BY <1>1, <1>2, RecoverableIs
<1>10. dirhRef' \in Nat /\ dirhRef' = dirhRef + Held(c)' - Held(c)
  <2>1. Held(c) = Held(c)' + 1 /\ Held(c)' \in Nat
    <3>1. cl'[c].pc \notin {"write_sync", "write_commit", "remove_unlink"}
      BY <1>6
    <3> QED BY <1>2, <1>5, <1>6, <3>1 DEF Held, One
  <2> QED BY <1>4, <1>5, <2>1
<1>11. FileOK(c)' /\ cl'[c].pc \notin Busy
  BY <1>6 DEF FileOK, Writer, Renames, Busy
<1>12. mutex \subseteq {c}
  BY <1>2, Holder DEF Busy
<1>13. /\ dir' \in [Index -> Entry \cup {None}] /\ file' \in [Numbers -> File \cup {None}]
       /\ dir' = dir /\ file' = file
  BY <1>1, <1>2
<1> QED BY <1>2, <1>5, <1>6, <1>7, <1>8, <1>9, <1>10, <1>11, <1>12, <1>13, DiskStep

\* A name is removed with the one entry that has it, and its file number was
\* marked as used.
LEMMA RemoveFindsEntry ==
    ASSUME SInv, NEW n, Find(dir, n) # {}
    PROVE  /\ Find([dir EXCEPT ![Min(Find(dir, n))] = None], n) = {}
           /\ dir[Min(Find(dir, n))].num \in GetDirh.bits
<1>1. Shape /\ DirInv /\ DirhOK(dirh) /\ dir \in [Index -> Entry \cup {None}]
  BY DEF SInv, Shape
<1>2. PICK i \in Index : /\ Min(Find(dir, n)) = i /\ Find(dir, n) = {i} /\ dir[i] # None
  BY <1>1, Found
<1>3. dir[i].num \in GetDirh.bits
  BY <1>1, <1>2, TheDirectory
<1>4. Find([dir EXCEPT ![i] = None], n) = {}
  BY <1>1, <1>2 DEF Find
<1> QED BY <1>2, <1>3, <1>4

\* A removal clears the entry of the object.
LEMMA FsRemoveInv ==
    ASSUME SInv, NEW c \in Clients, FsRemove(c)
    PROVE  SInv'
<1>1. /\ Shape /\ PcInv /\ PcOK(cl[c]) /\ DirhOK(dirh) /\ DirInv /\ DirhRefsMatch
      /\ cl \in [Clients -> Client] /\ Recoverable /\ dir \in [Index -> Entry \cup {None}]
      /\ file \in [Numbers -> File \cup {None}] /\ dirhRef \in Nat /\ cl[c] \in Client
  BY DEF SInv, PcInv, Shape
<1>2. PICK d, n : d = GetDirh /\ n = cl[c].name
  OBVIOUS
<1>3. /\ d \in Dirh /\ d.open /\ d.tab = dir
      /\ \A i \in Index : dir[i] # None => dir[i].num \in d.bits
  BY <1>1, <1>2, TheDirectory
<1>4. cl[c].pc = "remove" /\ mutex = {}
  BY DEF FsRemove, At, Unlocked
<1>9. CASE Find(dir, n) = {}
  <2>1. /\ PutDirh(d, dirhRef, TRUE) /\ Goto(c, AfterRemove(c))
        /\ UNCHANGED <<dir, file, mutex, pobj, halted>>
    BY <1>2, <1>3, <1>9 DEF FsRemove
  <2>2. PICK l \in {"release", "close"} : /\ l = AfterRemove(c)
                                          /\ l = "release" <=> cl[c].fh = None
    BY DEF AfterRemove
  <2>3. /\ cl'[c].pc = l /\ cl'[c].name = cl[c].name /\ cl'[c].new = cl[c].new
        /\ cl'[c].flags = cl[c].flags /\ cl'[c].fh = cl[c].fh /\ cl'[c].old = cl[c].old
        /\ l \in Pcs /\ Goto(c, l)
    BY <1>1, <2>1, <2>2, GotoFacts DEF Pcs
  <2>4. PcOK(cl'[c])
    BY <1>1, <1>4, <2>2, <2>3 DEF PcOK, Busy, Renames
  <2>5. cl[c].pc \notin Busy /\ l \notin Busy /\ ~Writer(c)'
    BY <1>4, <2>3 DEF Busy, Writer, Renames
  <2>6. \E close \in BOOLEAN, dd \in FailedDirh : PutDirh(dd, dirhRef, close)
    <3>1. d \in FailedDirh
      BY <1>2 DEF FailedDirh
    <3> QED BY <2>1, <3>1
  <2> QED BY <1>4, <2>1, <2>3, <2>4, <2>5, <2>6, MoveStep
<1>10. CASE Find(dir, n) # {}
  <2>1. PICK i \in Index : /\ Min(Find(dir, n)) = i /\ dir[i] \in Entry
                           /\ dir[i] # None /\ dir[i].name = n
    BY <1>1, <1>10, Found
  <2>2. PICK k, t : k = dir[i].num /\ t = [dir EXCEPT ![i] = None]
    OBVIOUS
  <2>3. PICK dd : dd = [d EXCEPT !.tab = t, !.bits = @ \ {k}]
    OBVIOUS
  <2>4. /\ dirh' = dd /\ dirhRef' = dirhRef + 1 /\ dir' = t /\ mutex' = {c}
        /\ cl' = [cl EXCEPT ![c].pc = "remove_unlink", ![c].old = k]
        /\ UNCHANGED <<file, pobj, en, halted>>
    <3>1. k \in d.bits
      BY <1>3, <2>1, <2>2
    <3> QED BY <1>2, <1>3, <1>10, <2>1, <2>2, <2>3, <3>1 DEF FsRemove
  <2>5. k \in Numbers
    BY <2>1, <2>2 DEF Entry
  <2>6. /\ cl' \in [Clients -> Client] /\ \A x \in Clients \ {c} : cl'[x] = cl[x]
        /\ cl'[c].pc = "remove_unlink" /\ cl'[c].name = cl[c].name /\ cl'[c].new = cl[c].new
        /\ cl'[c].flags = cl[c].flags /\ cl'[c].fh = cl[c].fh /\ cl'[c].old = k
    BY <1>1, <2>4, <2>5 DEF Client, Pcs
  <2>7. PcOK(cl'[c]) /\ cl'[c].pc \in Busy
    BY <1>1, <1>4, <2>5, <2>6 DEF PcOK, Busy, Renames
  <2>8. /\ dir' \in [Index -> Entry \cup {None}] /\ dir'[i] = None
        /\ \A j \in Index \ {i} : dir'[j] = dir[j]
    BY <1>1, <2>2, <2>4
  <2>9. dirh' \in Dirh /\ dirh'.open /\ dirh'.tab = dir' /\ dirh'.bits = d.bits \ {k}
    BY <1>3, <2>3, <2>4, <2>8 DEF Dirh
  <2>10. \A j \in Index \ {i} : dir[j] # None => dir[j].num # k /\ dir[j].name # n
    BY <1>1, <2>1, <2>2 DEF DirInv
  <2>11. DirhOK(dirh)'
    BY <1>3, <2>8, <2>9, <2>10 DEF DirhOK
  <2>12. DirInv'
    BY <1>1, <2>8 DEF DirInv
  <2>13. \A j \in Index : dir'[j] # None => Backed(file', dir'[j])
    BY <1>1, <2>4, <2>8, RecoverableIs DEF Backed
  <2>14. dirhRef' \in Nat /\ dirhRef' = dirhRef + Held(c)' - Held(c) /\ dirhRef' # 0
    <3>1. /\ cl[c].pc \notin {"write_sync", "write_commit", "remove_unlink"}
          /\ cl'[c].pc \in {"write_sync", "write_commit", "remove_unlink"}
      BY <1>4, <2>6
    <3>2. Held(c)' = Held(c) + 1
      BY <2>4, <2>6, <3>1 DEF Held, One
    <3> QED BY <1>1, <2>4, <3>2, RefsOf
  <2>15. FileOK(c)'
    <3>1. ~Writer(c)' /\ cl'[c].pc # "create_name"
      BY <2>6 DEF Writer, Renames
    <3>2. UnlinkOK(cl[c])'
      BY <1>2, <2>6, <2>8, <2>10 DEF UnlinkOK
    <3> QED BY <3>1, <3>2 DEF FileOK
  <2>16. ASSUME NEW x \in Clients \ {c}, Writer(x)
         PROVE  /\ dir'[cl[x].fh.idx] = dir[cl[x].fh.idx]
                /\ file'[cl[x].fh.num] = file[cl[x].fh.num]
    <3>1. PICK j \in Index : /\ cl[x].fh.idx = j /\ dir[j] # None /\ n # dir[j].name
      BY <1>2, <2>16, WriterEntry
    <3>2. j # i
      BY <2>1, <3>1
    <3> QED BY <2>4, <2>8, <3>1, <3>2
  <2>17. /\ mutex \subseteq {c} /\ file' \in [Numbers -> File \cup {None}]
         /\ en' \in [Clients -> Enum] /\ \A x \in Clients : en'[x].pc = en[x].pc
    BY <1>1, <1>4, <2>4 DEF Shape
  <2> QED BY <2>4, <2>6, <2>7, <2>8, <2>9, <2>11, <2>12, <2>13, <2>14, <2>15, <2>16,
             <2>17, DiskStep
<1> QED BY <1>9, <1>10

\* After a removal no entry has the name.
LEMMA RemovedIsGone ==
    ASSUME SInv, NEW c \in Clients, cl[c].pc = "remove_unlink"
    PROVE  Find(dirh.tab, cl[c].name) = {}
<1>1. dirh.tab = dir
  BY Holder DEF Busy
<1>2. UnlinkOK(cl[c])
  BY DEF SInv, FilesInv
<1> QED BY <1>1, <1>2 DEF Find, UnlinkOK

\* And its file goes.
LEMMA FsRemoveUnlinkInv ==
    ASSUME SInv, NEW c \in Clients, FsRemoveUnlink(c)
    PROVE  SInv'
<1>1. /\ Shape /\ PcInv /\ PcOK(cl[c]) /\ DirhOK(dirh) /\ DirInv /\ DirhRefsMatch
      /\ cl \in [Clients -> Client] /\ file \in [Numbers -> File \cup {None}] /\ Recoverable
      /\ cl[c] \in Client /\ dir \in [Index -> Entry \cup {None}]
  BY DEF SInv, PcInv, Shape
<1>2. cl[c].pc = "remove_unlink"
  BY DEF FsRemoveUnlink, At
<1>3. /\ file' = [file EXCEPT ![cl[c].old] = None] /\ mutex' = {}
      /\ \E d \in FailedDirh : PutDirh(d, dirhRef - 1, FALSE)
      /\ cl' = [cl EXCEPT ![c].pc = AfterRemove(c), ![c].old = None]
      /\ UNCHANGED <<dir, pobj, halted>>
  <2>1. Find(dirh.tab, cl[c].name) = {}
    BY <1>2, RemovedIsGone
  <2> QED BY <2>1 DEF FsRemoveUnlink
<1>4. PICK d \in FailedDirh : PutDirh(d, dirhRef - 1, FALSE)
  BY <1>3
<1>5. PICK k \in Numbers : k = cl[c].old
  BY <1>1, <1>2 DEF PcOK
<1>6. PICK l \in {"release", "close"} : /\ l = AfterRemove(c)
                                        /\ l = "release" <=> cl[c].fh = None
  BY DEF AfterRemove
<1>7. /\ cl' \in [Clients -> Client] /\ \A x \in Clients \ {c} : cl'[x] = cl[x]
      /\ cl'[c].pc = l /\ cl'[c].name = cl[c].name /\ cl'[c].new = cl[c].new
      /\ cl'[c].flags = cl[c].flags /\ cl'[c].fh = cl[c].fh
  BY <1>1, <1>3, <1>6 DEF Client, Pcs
<1>8. PcOK(cl'[c])
  BY <1>1, <1>2, <1>6, <1>7 DEF PcOK, Renames
<1>9. \A i \in Index : dir[i] # None => dir[i].num \in Numbers \ {k}
  BY <1>1, <1>2, <1>5 DEF SInv, FilesInv, UnlinkOK, Entry
<1>10. /\ file' \in [Numbers -> File \cup {None}] /\ \A j \in Numbers \ {k} : file'[j] = file[j]
  BY <1>1, <1>3, <1>5
<1>11. \A i \in Index : dir'[i] # None => Backed(file', dir'[i])
  BY <1>1, <1>3, <1>9, <1>10, RecoverableIs DEF Backed
<1>12. dirhRef \in Nat /\ dirhRef - 1 \in Nat
  <2>1. Held(c) >= 1 /\ Held(c) \in Nat
    BY <1>2 DEF Held, One
  <2> QED BY <1>1, <2>1, RefsOf
<1>13. /\ d \in Dirh /\ (d.open => d.tab = GetDirh.tab /\ d.bits = GetDirh.bits)
       /\ GetDirh.tab = dir /\ \A i \in Index : dir[i] # None => dir[i].num \in GetDirh.bits
  BY <1>1, FailedDirectory, TheDirectory
<1>14. /\ dirh' \in Dirh /\ dirhRef' = dirhRef - 1 /\ (dirh'.open => dirh' = d)
       /\ dirhRef' = 0 => ~dirh'.open
       /\ en' \in [Clients -> Enum] /\ \A x \in Clients : en'[x].pc = en[x].pc
  BY <1>1, <1>4, <1>12, <1>13, PutDirhFacts
<1>15. DirhOK(dirh)' /\ DirInv'
  BY <1>1, <1>3, <1>13, <1>14 DEF DirhOK, DirInv
<1>16. dirhRef' \in Nat /\ dirhRef' = dirhRef + Held(c)' - Held(c)
  <2>1. Held(c) = Held(c)' + 1 /\ Held(c)' \in Nat
    <3>1. cl'[c].pc \notin {"write_sync", "write_commit", "remove_unlink"}
      BY <1>7
    <3> QED BY <1>2, <1>7, <1>14, <3>1 DEF Held, One
  <2> QED BY <1>12, <1>14, <2>1
<1>17. FileOK(c)' /\ cl'[c].pc \notin Busy
  BY <1>7 DEF FileOK, Writer, Renames, Busy
<1>18. ASSUME NEW x \in Clients \ {c}, Writer(x)
       PROVE  /\ dir'[cl[x].fh.idx] = dir[cl[x].fh.idx]
              /\ file'[cl[x].fh.num] = file[cl[x].fh.num]
  BY <1>3, <1>9, <1>10, <1>18, WriterEntry
<1>19. mutex \subseteq {c} /\ dir' \in [Index -> Entry \cup {None}]
  BY <1>1, <1>2, <1>3, Holder DEF Busy
<1> QED BY <1>3, <1>7, <1>8, <1>10, <1>11, <1>14, <1>15, <1>16, <1>17, <1>18, <1>19, DiskStep

\* A rename changes the name of the entry, which stays the only one with it.
LEMMA FsRenameInv ==
    ASSUME SInv, NEW c \in Clients, FsRename(c)
    PROVE  SInv'
<1>1. /\ Shape /\ PcInv /\ PobjInv /\ PcOK(cl[c]) /\ DirhOK(dirh) /\ DirInv /\ DirhRefsMatch
      /\ cl \in [Clients -> Client] /\ Recoverable /\ dir \in [Index -> Entry \cup {None}]
      /\ file \in [Numbers -> File \cup {None}] /\ dirhRef \in Nat
  BY DEF SInv, PcInv, Shape
<1>2. PICK d, n, m : d = GetDirh /\ n = cl[c].name /\ m = cl[c].new
  OBVIOUS
<1>3. /\ d \in Dirh /\ d.open /\ d.tab = dir
      /\ \A i \in Index : dir[i] # None => dir[i].num \in d.bits
  BY <1>1, <1>2, TheDirectory
<1>4. cl[c].pc = "rename" /\ mutex = {} /\ UNCHANGED <<file, mutex, pobj, halted>>
  BY DEF FsRename, At, Unlocked
<1>5. n \in Names /\ m \in Names /\ m # n
  BY <1>1, <1>2, <1>4, OneRenamer DEF Renames
<1>6. CASE Find(dir, n) = {} \/ Find(dir, m) # {}
  <2>1. PutDirh(d, dirhRef, TRUE) /\ Goto(c, "rename_undo") /\ UNCHANGED dir
    BY <1>2, <1>3, <1>6 DEF FsRename
  <2>2. /\ cl'[c].pc = "rename_undo" /\ cl'[c].name = cl[c].name /\ cl'[c].new = cl[c].new
        /\ cl'[c].flags = cl[c].flags /\ cl'[c].fh = cl[c].fh /\ cl'[c].old = cl[c].old
        /\ "rename_undo" \in Pcs
    BY <1>1, <2>1, GotoFacts DEF Pcs
  <2>3. PcOK(cl'[c])
    BY <1>1, <1>4, <2>2 DEF PcOK, Busy, Renames
  <2>4. cl[c].pc \notin Busy /\ "rename_undo" \notin Busy
    BY <1>4 DEF Busy
  <2>5. Writer(c)' => Writer(c) /\ OnDisk(c)' = OnDisk(c)
    BY <1>4, <2>2 DEF Writer, OnDisk, Renames
  <2>6. \E close \in BOOLEAN, dd \in FailedDirh : PutDirh(dd, dirhRef, close)
    <3>1. d \in FailedDirh
      BY <1>2 DEF FailedDirh
    <3> QED BY <2>1, <3>1
  <2> QED BY <1>4, <2>1, <2>2, <2>3, <2>4, <2>5, <2>6, MoveStep
<1>7. CASE ~(Find(dir, n) = {} \/ Find(dir, m) # {})
  <2>1. PICK i \in Index : /\ Min(Find(dir, n)) = i /\ dir[i] \in Entry
                           /\ dir[i] # None /\ dir[i].name = n
    BY <1>1, <1>7, Found
  <2>2. PICK t, e : t = [dir EXCEPT ![i].name = m] /\ e = [dir[i] EXCEPT !.name = m]
    OBVIOUS
  <2>3. /\ dir' = t /\ PutDirh([d EXCEPT !.tab = t], dirhRef, FALSE) /\ Goto(c, "renamed")
    BY <1>2, <1>3, <1>7, <2>1, <2>2 DEF FsRename
  <2>4. /\ e \in Entry /\ e # None /\ e.name = m /\ e.num = dir[i].num /\ e.hash = dir[i].hash
    <3>1. e \in Entry /\ e.name = m /\ e.num = dir[i].num /\ e.hash = dir[i].hash
      BY <1>5, <2>1, <2>2 DEF Entry
    <3> QED BY <3>1, NoneIsNothing
  <2>5. /\ dir' \in [Index -> Entry \cup {None}] /\ dir'[i] = e
        /\ \A j \in Index \ {i} : dir'[j] = dir[j]
    BY <1>1, <2>2, <2>3, <2>4
  <2>6. PICK dd : dd = [d EXCEPT !.tab = t]
    OBVIOUS
  <2>7. dd \in Dirh /\ dd.tab = dir' /\ dd.bits = d.bits
    BY <1>3, <2>3, <2>5, <2>6 DEF Dirh
  <2>8. /\ dirh' \in Dirh /\ dirhRef' = dirhRef /\ (dirh'.open => dirh' = dd)
        /\ dirhRef' = 0 => ~dirh'.open
        /\ en' \in [Clients -> Enum] /\ \A x \in Clients : en'[x].pc = en[x].pc
    BY <1>1, <2>3, <2>6, <2>7, PutDirhFacts
  <2>9. /\ cl' \in [Clients -> Client] /\ \A x \in Clients \ {c} : cl'[x] = cl[x]
        /\ cl'[c].pc = "renamed" /\ cl'[c].name = cl[c].name /\ cl'[c].new = cl[c].new
        /\ cl'[c].flags = cl[c].flags /\ cl'[c].fh = cl[c].fh /\ cl'[c].old = cl[c].old
    BY <1>1, <2>3, GotoFacts DEF Pcs
  <2>10. PcOK(cl'[c]) /\ cl'[c].pc \notin Busy
    BY <1>1, <1>4, <2>9 DEF PcOK, Busy, Renames
  <2>11. DirhOK(dirh)'
    BY <1>3, <2>1, <2>4, <2>5, <2>7, <2>8 DEF DirhOK
  <2>12. \A j \in Index : dir[j] # None => dir[j].name # m
    BY <1>7 DEF Find
  <2>13. DirInv'
    <3> SUFFICES ASSUME NEW a \in Index, NEW b \in Index, dir'[a] # None, dir'[b] # None,
                        dir'[a].name = dir'[b].name \/ dir'[a].num = dir'[b].num
                 PROVE  a = b
      BY DEF DirInv
    <3>1. \A j \in Index \ {i} : dir[j] # None => dir[j].num # dir[i].num
      BY <1>1, <2>1 DEF DirInv
    <3>2. CASE a # i /\ b # i
      BY <1>1, <2>5, <3>2 DEF DirInv
    <3>3. CASE a = i \/ b = i
      BY <2>4, <2>5, <2>12, <3>1, <3>3
    <3> QED BY <3>2, <3>3
  <2>14. \A j \in Index : dir'[j] # None => Backed(file', dir'[j])
    <3>1. \A j \in Index : /\ dir'[j] # None <=> dir[j] # None
                           /\ dir'[j] # None => dir'[j].num = dir[j].num /\ dir'[j].hash = dir[j].hash
      BY <2>1, <2>4, <2>5
    <3> QED BY <1>1, <1>4, <3>1, RecoverableIs DEF Backed
  <2>15. dirhRef' \in Nat /\ dirhRef' = dirhRef + Held(c)' - Held(c)
    <3>1. Held(c)' = Held(c)
      <4>1. /\ cl[c].pc \notin {"write_sync", "write_commit", "remove_unlink"}
            /\ cl'[c].pc \notin {"write_sync", "write_commit", "remove_unlink"}
        BY <1>4, <2>9
      <4> QED BY <2>8, <2>9, <4>1 DEF Held
    <3> QED BY <1>1, <2>8, <3>1, RefsOf
  <2>16. FileOK(c)'
    <3> SUFFICES ASSUME Writer(c)' PROVE HandleOK(c, cl[c].fh, dir[cl[c].fh.idx])'
      BY <2>9 DEF FileOK
    <3>1. Writer(c)
      BY <1>4, <2>9 DEF Writer, Renames
    <3>2. PICK j \in Index : cl[c].fh.idx = j /\ dir[j] # None /\ dir[j].name = OnDisk(c)
      BY <3>1, WriterEntry
    <3>3. OnDisk(c) = n /\ OnDisk(c)' = m
      BY <1>2, <1>4, <2>9 DEF OnDisk
    <3>4. j = i
      BY <1>1, <2>1, <3>2, <3>3 DEF DirInv
    <3>5. HandleOK(c, cl[c].fh, dir[i])
      BY <3>1, <3>2, <3>4 DEF SInv, FilesInv
    <3>6. cl'[c].fh = cl[c].fh /\ dir'[cl'[c].fh.idx] = e
      BY <2>5, <2>9, <3>2, <3>4
    <3> QED BY <1>4, <2>4, <2>9, <3>3, <3>5, <3>6 DEF HandleOK, Has
  <2>17. ASSUME NEW x \in Clients \ {c}, Writer(x)
         PROVE  /\ dir'[cl[x].fh.idx] = dir[cl[x].fh.idx]
                /\ file'[cl[x].fh.num] = file[cl[x].fh.num]
    <3>1. PICK j \in Index : /\ cl[x].fh.idx = j /\ n # dir[j].name
      BY <1>2, <2>17, WriterEntry
    <3>2. j # i
      BY <2>1, <3>1
    <3> QED BY <1>4, <2>5, <3>1, <3>2
  <2>18. mutex \subseteq {c} /\ mutex' = {} /\ file' \in [Numbers -> File \cup {None}]
    BY <1>1, <1>4
  <2> QED BY <1>4, <2>5, <2>8, <2>9, <2>10, <2>11, <2>13, <2>14, <2>15, <2>16, <2>17, <2>18, DiskStep
<1> QED BY <1>6, <1>7

-----------------------------------------------------------------------------
(* The theorems.                                                           *)

\* A step that changes nothing.
LEMMA StutterInv == SInv /\ UNCHANGED vars => SInv'
<1> SUFFICES ASSUME SInv, UNCHANGED vars PROVE SInv'
  OBVIOUS
<1>1. UNCHANGED <<dir, file, dirh, dirhRef, mutex, pobj, cl, en, halted>>
  BY DEF vars
<1>2. Shape' /\ PcInv' /\ MutexInv' /\ DirhOK(dirh)' /\ DirInv'
  BY <1>1 DEF SInv, Shape, PcInv, MutexInv, DirhOK, DirInv
<1>3. PobjInv'
  BY <1>1, PobjKept DEF SInv
<1>4. FilesInv' /\ Recoverable' /\ DirhRefsMatch'
  BY <1>1 DEF SInv, FilesInv, Writer, HandleOK, NewFileOK, UnlinkOK, Has, OnDisk, Recoverable,
     Versions, DirhRefsMatch
<1> QED BY <1>2, <1>3, <1>4 DEF SInv

\* Every step of a client keeps the invariant.
LEMMA StepInv ==
    ASSUME SInv, NEW c \in Clients, Step(c)
    PROVE  SInv'
<1>1. ASSUME NEW n \in Names, ObjRename(c, n) PROVE SInv'
  BY <1>1, ObjRenameInv
<1>2. ASSUME NEW n \in Names, NEW f \in OpenFlags, ObjOpen(c, n, f) PROVE SInv'
  BY <1>2, ObjOpenInv DEF Flags
<1>3. ASSUME NEW n \in Names, NEW f \in CreateFlags, ObjCreate(c, n, f) PROVE SInv'
  BY <1>3, ObjOpenInv DEF Flags
<1>4. CASE FsOpen(c)
  BY <1>4, FsOpenInv
<1>5. CASE FsOpenFails(c) \/ FsCreateFileFails(c) \/ FsRemoveFails(c) \/ FsRenameFails(c)
  BY <1>5, FsFailsInv
<1>6. CASE ReadHead(c) \/ ReadHeadFails(c)
  BY <1>6, ReadHeadInv
<1>7. CASE FsCreateFails(c)
  BY <1>7, FsCreateFailsInv
<1>8. ASSUME NEW overwrite \in BOOLEAN, FsSetName(c, overwrite) PROVE SInv'
  BY <1>8, FsSetNameInv
<1>9. ASSUME NEW d \in Data, FsCreateFile(c, d) PROVE SInv'
  BY <1>9, FsCreateFileInv
<1>10. ASSUME NEW d \in Data, FsWriteSync(c, d) PROVE SInv'
  BY <1>10, FsWriteSyncInv
<1>11. CASE FsWriteBlocks(c)
  BY <1>11, FsWriteBlocksInv
<1>12. CASE FsWriteCommit(c)
  BY <1>12, FsWriteCommitInv
<1>13. CASE FsWriteFails(c)
  BY <1>13, FsWriteFailsInv
<1>14. CASE FsReadFails(c)
  BY <1>14, FsReadFailsInv
<1>15. CASE ObjDel(c)
  BY <1>15, ObjDelInv
<1>16. CASE FsRemove(c)
  BY <1>16, FsRemoveInv
<1>17. CASE FsRename(c)
  BY <1>17, FsRenameInv
<1>18. CASE PobjRename(c)
  BY <1>18, PobjRenameInv
<1>19. CASE RenameUndo(c)
  BY <1>19, RenameUndoInv
<1>20. CASE FsClose(c)
  BY <1>20, FsCloseInv
<1>21. CASE PobjRelease(c)
  BY <1>21, PobjReleaseInv
<1>22. CASE EnumStart(c)
  BY <1>22, EnumStartInv
<1>23. CASE EnumNext(c)
  BY <1>23, EnumNextInv
<1>24. CASE EnumOpen(c)
  BY <1>24, EnumOpenInv
<1>25. CASE EnumPeekClose(c)
  BY <1>25, EnumPeekCloseInv
<1>26. CASE EnumEnd(c)
  BY <1>26, EnumEndInv
<1>27. CASE FsSetNameUnlink(c)
  BY <1>27, FsSetNameUnlinkInv
<1>28. CASE FsRemoveUnlink(c)
  BY <1>28, FsRemoveUnlinkInv
<1>29. CASE NullTree(c)
  BY <1>29, HaltStep DEF NullTree
<1>30. CASE PobjRenameFails(c)
  BY <1>30, PobjRenameFailsInv
<1>31. CASE EnumStartFails(c)
  BY <1>31, EnumStartFailsInv
<1>32. CASE EnumNextFails(c)
  BY <1>32, EnumNextFailsInv
<1>33. CASE EnumOpenFails(c)
  BY <1>33, EnumOpenFailsInv
<1> QED BY <1>1, <1>2, <1>3, <1>4, <1>5, <1>6, <1>7, <1>8, <1>9, <1>10, <1>11, <1>12, <1>13,
           <1>14, <1>15, <1>16, <1>17, <1>18, <1>19, <1>20, <1>21, <1>22, <1>23, <1>24, <1>25,
           <1>26, <1>27, <1>28, <1>29, <1>30, <1>31, <1>32, <1>33 DEF Step

\* Every step, a loss of power included, keeps the invariant.
LEMMA NextSInv == SInv /\ [Next]_vars => SInv'
<1> SUFFICES ASSUME SInv, [Next]_vars PROVE SInv'
  OBVIOUS
<1>1. CASE UNCHANGED vars
  BY <1>1, StutterInv
<1>2. CASE Crash
  BY <1>2, HaltStep DEF Crash
<1>3. ASSUME NEW c \in Clients, Step(c) PROVE SInv'
  BY <1>3, StepInv
<1> QED BY <1>1, <1>2, <1>3 DEF Next

\* The invariant holds of an empty directory.
LEMMA InitSInv == Init => SInv
<1> SUFFICES ASSUME Init PROVE SInv
  OBVIOUS
<1>1. /\ dir = EmptyTable /\ file = [k \in Numbers |-> None] /\ dirh = Closed /\ dirhRef = 0
      /\ mutex = {} /\ pobj = [n \in Names |-> None] /\ cl = [c \in Clients |-> IdleClient]
      /\ en = [c \in Clients |-> NoEnum] /\ halted = "no"
  BY DEF Init
<1>2. /\ IdleClient \in Client /\ PcOK(IdleClient) /\ IdleClient.pc = "idle"
      /\ IdleClient.name = None /\ IdleClient.new = None /\ IdleClient.fh = None
  BY DEF IdleClient, Client, Pcs, PcOK, Renames, Busy
<1>3. NoEnum \in Enum /\ NoEnum.pc = "none"
  BY DEF NoEnum, Enum
<1>4. Closed \in Dirh /\ ~Closed.open
  BY DEF Closed, Dirh, EmptyTable
<1>5. Shape
  BY <1>1, <1>2, <1>3, <1>4 DEF Shape, EmptyTable
<1>6. PcInv /\ MutexInv /\ FilesInv
  BY <1>1, <1>2 DEF PcInv, MutexInv, Busy, FilesInv, Writer, Renames
<1>7. DirhOK(dirh) /\ DirInv /\ Recoverable
  BY <1>1, <1>4 DEF DirhOK, DirInv, Recoverable, EmptyTable
<1>8. PobjInv
  <2>1. \A n \in Names : Named(n) = {} /\ Renaming(n) = {} /\ pobj[n] = None
    BY <1>1, <1>2, NoneIsNothing DEF Named, Renaming
  <2> QED BY <2>1 DEF PobjInv, PobjOK
<1>9. DirhRefsMatch
  <2>1. /\ {x \in Clients : cl[x].fh # None} = {}
        /\ {x \in Clients : cl[x].pc \in {"write_sync", "write_commit", "remove_unlink"}} = {}
        /\ {x \in Clients : en[x].pc \in {"ready", "open", "peek"}} = {}
        /\ {x \in Clients : en[x].pc = "peek"} = {}
    BY <1>1, <1>2, <1>3
  <2>2. Cardinality({}) = 0
    BY FS_EmptySet
  <2>3. dirhRef = 0 /\ ~dirh.open /\ 0 = 0 + 0 + 0 + 0
    BY <1>1, <1>4
  <2> QED BY <2>1, <2>2, <2>3 DEF DirhRefsMatch
<1> QED BY <1>5, <1>6, <1>7, <1>8, <1>9 DEF SInv

\* SInv is an invariant: the directory, the files, the table of open objects
\* and the handles of every session agree at each step.
THEOREM Invariance == Spec => []SInv
<1> QED BY InitSInv, NextSInv, PTL DEF Spec

\* No assert() about the directory's content and references fails in a file
\* operation, whatever the sessions do and whatever request fails: not the ones
\* of update_hash, remove, close and of clearing a used number.  The core may
\* still stop where a directory without a tree is read, or an enumerator goes
\* on with a directory that was closed.
THEOREM NeverHalts == Spec => []NoHalt
<1>1. SInv => NoHalt
  BY DEF SInv, Shape, NoHalt
<1> QED BY <1>1, Invariance, PTL

\* Each object of the committed directory has a file with the version that the
\* directory vouches for, at every moment.
THEOREM ObjectsAreRecoverable == Spec => []Recoverable
<1>1. SInv => Recoverable
  BY DEF SInv
<1> QED BY <1>1, Invariance, PTL

\* The reference count of the directory is what files, enumerators and the
\* operation in progress hold.
THEOREM DirectoryRefsCounted == Spec => []DirhRefsMatch
<1>1. SInv => DirhRefsMatch
  BY DEF SInv
<1> QED BY <1>1, Invariance, PTL

\* Types, and the table of open objects counts the users of each one.
THEOREM TypeCorrect == Spec => []TypeOK
<1>1. SInv => TypeOK
  <2> SUFFICES ASSUME SInv PROVE TypeOK
    OBVIOUS
  <2>1. Shape /\ PcInv /\ MutexInv /\ PobjInv
    BY DEF SInv
  <2>2. mutex \in SUBSET Clients /\ Cardinality(mutex) <= 1
    <3>1. mutex = {} \/ \E c \in Clients : mutex = {c}
      BY <2>1 DEF MutexInv
    <3>2. Cardinality({}) = 0 /\ \A c : Cardinality({c}) = 1
      BY FS_EmptySet, FS_Singleton
    <3> QED BY <3>1, <3>2
  <2>3. ASSUME NEW n \in Names
        PROVE  IF PobjUsers(n) = 0 THEN pobj[n] = None
               ELSE /\ pobj[n].refcnt = PobjUsers(n)
                    /\ pobj[n].flags \in OpenFlags \cup CreateFlags \cup {{"META"}}
    <3>1. PobjOK(n) /\ pobj[n] \in Pobj \cup {None}
      BY <2>1 DEF PobjInv, Shape
    <3>2. PobjUsers(n) = Cardinality(Named(n)) + Cardinality(Renaming(n))
      BY DEF PobjUsers, Named, Renaming
    <3>3. /\ Cardinality(Named(n)) \in Nat /\ (Cardinality(Named(n)) = 0 <=> Named(n) = {})
          /\ Cardinality(Renaming(n)) \in Nat /\ (Cardinality(Renaming(n)) = 0 <=> Renaming(n) = {})
      <4>1. IsFiniteSet(Named(n)) /\ IsFiniteSet(Renaming(n))
        BY StorageAssumption, FS_Subset DEF Named, Renaming
      <4> QED BY <4>1, FS_CardinalityType, FS_EmptySet
    <3>4. PobjUsers(n) = 0 <=> Named(n) = {} /\ Renaming(n) = {}
      BY <3>2, <3>3
    <3>5. CASE pobj[n] = None
      BY <3>1, <3>4, <3>5 DEF PobjOK
    <3>6. CASE pobj[n] # None
      <4>1. ~(PobjUsers(n) = 0) /\ pobj[n].refcnt = PobjUsers(n)
        BY <3>1, <3>2, <3>4, <3>6 DEF PobjOK
      <4>2. pobj[n].flags \in OpenFlags \cup CreateFlags \cup {{"META"}}
        BY <3>1, <3>6 DEF Pobj
      <4> QED BY <4>1, <4>2
    <3> QED BY <3>5, <3>6
  <2>4. \A c \in Clients : cl[c].fh \in Handle \cup {None}
    BY <2>1 DEF Shape, Client
  <2> QED BY <2>1, <2>2, <2>3, <2>4 DEF Shape, Dirh, TypeOK
<1> QED BY <1>1, Invariance, PTL

-----------------------------------------------------------------------------
(* The objects change by whole operations.                                 *)

\* The content of object n in table t; Content is the one in dir.
ContentIn(t, n) == IF \E i \in Index : t[i] # None /\ t[i].name = n
                   THEN t[CHOOSE i \in Index : t[i] # None /\ t[i].name = n].hash
                   ELSE None

\* No two entries of table t have a name in common.
OneNameEach(t) == \A i, j \in Index : t[i] # None /\ t[j] # None /\ t[i].name = t[j].name => i = j

\* An entry has the content of its object, and an object without an entry none.
LEMMA ContentOf ==
    ASSUME NEW t, OneNameEach(t)
    PROVE  /\ \A i \in Index : t[i] # None => ContentIn(t, t[i].name) = t[i].hash
           /\ \A n : (\A i \in Index : t[i] # None => t[i].name # n) => ContentIn(t, n) = None
<1>1. ASSUME NEW i \in Index, t[i] # None PROVE ContentIn(t, t[i].name) = t[i].hash
  <2> DEFINE P(j) == t[j] # None /\ t[j].name = t[i].name
             k == CHOOSE j \in Index : P(j)
  <2>1. \E j \in Index : P(j)
    BY <1>1
  <2>2. k \in Index /\ P(k)
    BY <2>1
  <2>3. k = i
    BY <1>1, <2>2 DEF OneNameEach
  <2>4. ContentIn(t, t[i].name) = t[k].hash
    BY <2>1 DEF ContentIn
  <2> QED BY <2>3, <2>4
<1>2. ASSUME NEW n, \A i \in Index : t[i] # None => t[i].name # n PROVE ContentIn(t, n) = None
  BY <1>2 DEF ContentIn
<1> QED BY <1>1, <1>2

\* An object whose entry is the same in two tables has the same content.
LEMMA SameContent ==
    ASSUME NEW t, NEW u, NEW n, OneNameEach(t), OneNameEach(u), NEW i,
           \A j \in Index \ {i} : t[j] = u[j],
           t[i] = None \/ t[i].name # n, u[i] = None \/ u[i].name # n
    PROVE  ContentIn(t, n) = ContentIn(u, n)
<1>1. CASE \E j \in Index : t[j] # None /\ t[j].name = n
  <2>1. PICK j \in Index : t[j] # None /\ t[j].name = n
    BY <1>1
  <2>2. u[j] = t[j] /\ u[j] # None /\ u[j].name = n
    BY <2>1
  <2>3. ContentIn(t, n) = t[j].hash
    BY <2>1, ContentOf
  <2>4. ContentIn(u, n) = u[j].hash
    BY <2>2, ContentOf
  <2> QED BY <2>2, <2>3, <2>4
<1>2. CASE ~ \E j \in Index : t[j] # None /\ t[j].name = n
  <2>1. \A j \in Index : t[j] # None => t[j].name # n
    BY <1>2
  <2>2. \A j \in Index : u[j] # None => u[j].name # n
    BY <2>1
  <2> QED BY <2>1, <2>2, ContentOf
<1> QED BY <1>1, <1>2

\* The abstract store is the content of each name before and after a step.
LEMMA StoreIs ==
    /\ \A n : Content(n) = ContentIn(dir, n)
    /\ \A n : Content(n)' = ContentIn(dir', n)
    /\ SInv => OneNameEach(dir)
    /\ SInv' => OneNameEach(dir')
  BY DEF Content, ContentIn, SInv, DirInv, OneNameEach

\* One operation of the store, whether or not it changes the content.
StoreOp == \E n \in Names :
    \/ Store!Remove(n)
    \/ \E d \in Data : Store!Put(n, d)
    \/ \E m \in Names : Store!Rename(m, n)

\* One that does not is a stutter: it writes what was there.
LEMMA StoreOpChanges ==
    ASSUME StoreOp
    PROVE  Store!Next \/ UNCHANGED [n \in Names |-> Content(n)]
<1>1. PICK n \in Names : \/ Store!Remove(n)
                         \/ \E d \in Data : Store!Put(n, d)
                         \/ \E m \in Names : Store!Rename(m, n)
  BY DEF StoreOp
<1>2. CASE [k \in Names |-> Content(k)]'[n] # [k \in Names |-> Content(k)][n]
  BY <1>1, <1>2 DEF Store!Next
<1>3. CASE [k \in Names |-> Content(k)]'[n] = [k \in Names |-> Content(k)][n]
  BY <1>1, <1>3 DEF Store!Remove, Store!Put, Store!Rename
<1> QED BY <1>2, <1>3

\* Entry i of the directory becomes or stays the one of n: n has its content.
LEMMA PutStep ==
    ASSUME SInv, SInv', NEW n \in Names, NEW i \in Index, dir[i] = None \/ dir[i].name = n,
           dir'[i] # None, dir'[i].name = n, \A j \in Index \ {i} : dir'[j] = dir[j]
    PROVE  Store!Put(n, dir'[i].hash)
<1>1. Content(n)' = dir'[i].hash
  BY StoreIs, ContentOf
<1>2. ASSUME NEW m \in Names \ {n} PROVE Content(m)' = Content(m)
  <2>1. ContentIn(dir', m) = ContentIn(dir, m)
    BY StoreIs, SameContent
  <2> QED BY <2>1, StoreIs
<1> QED BY <1>1, <1>2 DEF Store!Put

\* The entry of n is cleared: n is gone.
LEMMA RemoveStep ==
    ASSUME SInv, SInv', NEW n \in Names, NEW i \in Index, dir[i] # None, dir[i].name = n,
           dir[i].hash # None, dir'[i] = None, \A j \in Index \ {i} : dir'[j] = dir[j]
    PROVE  Store!Remove(n)
<1>1. Content(n) # None
  BY StoreIs, ContentOf
<1>2. Content(n)' = None
  <2>1. \A j \in Index : dir'[j] # None => dir'[j].name # n
    BY StoreIs DEF OneNameEach
  <2> QED BY <2>1, StoreIs, ContentOf
<1>3. ASSUME NEW m \in Names \ {n} PROVE Content(m)' = Content(m)
  <2>1. ContentIn(dir', m) = ContentIn(dir, m)
    BY StoreIs, SameContent
  <2> QED BY <2>1, StoreIs
<1> QED BY <1>1, <1>2, <1>3 DEF Store!Remove

\* The entry of n gets the name m, which no entry has.
LEMMA RenameStep ==
    ASSUME SInv, SInv', NEW n \in Names, NEW m \in Names, NEW i \in Index,
           dir[i] # None, dir[i].name = n, dir[i].hash # None,
           dir'[i] # None, dir'[i].name = m, dir'[i].hash = dir[i].hash,
           \A j \in Index \ {i} : dir'[j] = dir[j],
           \A j \in Index : dir[j] # None => dir[j].name # m
    PROVE  Store!Rename(n, m)
<1>1. Content(n) = dir[i].hash /\ Content(m)' = dir[i].hash /\ Content(m) = None /\ n # m
  BY StoreIs, ContentOf
<1>2. Content(n)' = None
  <2>1. \A j \in Index : dir'[j] # None => dir'[j].name # n
    BY <1>1, StoreIs DEF OneNameEach
  <2> QED BY <2>1, StoreIs, ContentOf
<1>3. ASSUME NEW a \in Names \ {n, m} PROVE Content(a)' = Content(a)
  <2>1. ContentIn(dir', a) = ContentIn(dir, a)
    BY StoreIs, SameContent
  <2> QED BY <2>1, StoreIs
<1> QED BY <1>1, <1>2, <1>3 DEF Store!Rename

\* A create that is committed puts the content of the new file.
LEMMA FsSetNamePuts ==
    ASSUME SInv, SInv', NEW c \in Clients, NEW overwrite \in BOOLEAN, FsSetName(c, overwrite)
    PROVE  StoreOp
<1>1. /\ Shape /\ DirInv /\ PcOK(cl[c]) /\ cl[c] \in Client /\ cl[c].pc = "create_name"
      /\ cl[c].pc \in Busy /\ dir \in [Index -> Entry \cup {None}]
  BY DEF SInv, PcInv, Shape, FsSetName, At, Busy
<1>2. dirh.tab = dir
  BY <1>1, Holder
<1>3. PICK n, h : n = cl[c].name /\ h = cl[c].fh
  OBVIOUS
<1>4. n \in Names /\ h.num \in Numbers /\ h.hash \in Data
  <2>1. n \in Names /\ h \in Handle /\ h.hash # None
    BY <1>1, <1>3 DEF PcOK, Busy, Client
  <2> QED BY <2>1 DEF Handle
<1>5. PICK i : i = IF Find(dir, n) = {} THEN FirstFree(dir) ELSE Min(Find(dir, n))
  OBVIOUS
<1>6. PICK e : e = [name |-> n, num |-> h.num, hash |-> h.hash]
  OBVIOUS
<1>7. e \in Entry /\ e.name = n /\ e.hash = h.hash /\ e # None
  <2>1. e \in Entry /\ e.name = n /\ e.hash = h.hash
    BY <1>4, <1>6 DEF Entry
  <2> QED BY <2>1, NoneIsNothing
<1>8. i \in Index /\ (dir[i] = None \/ dir[i].name = n)
  <2>1. CASE Find(dir, n) = {}
    <3>1. \A a, b \in Index : dir[a] # None /\ dir[b] # None /\ dir[a].name = dir[b].name => a = b
      BY <1>1 DEF DirInv
    <3> QED BY <1>1, <1>4, <1>5, <2>1, <3>1, RoomForName
  <2>2. CASE Find(dir, n) # {}
    BY <1>1, <1>5, <2>2, Found
  <2> QED BY <2>1, <2>2
<1>9. dir' = [dir EXCEPT ![i] = e]
  BY <1>2, <1>3, <1>5, <1>6 DEF FsSetName
<1>10. dir'[i] = e /\ \A j \in Index \ {i} : dir'[j] = dir[j]
  BY <1>1, <1>8, <1>9
<1>11. Store!Put(n, h.hash)
  BY <1>4, <1>7, <1>8, <1>10, PutStep
<1> QED BY <1>4, <1>11 DEF StoreOp

\* A write that is committed puts the content of the version it completed.
LEMMA FsWriteCommitPuts ==
    ASSUME SInv, SInv', NEW c \in Clients, FsWriteCommit(c)
    PROVE  StoreOp \/ UNCHANGED dir
<1>1. /\ Shape /\ PcOK(cl[c]) /\ cl[c].pc = "write_commit" /\ cl[c].pc \in Busy
      /\ dir \in [Index -> Entry \cup {None}]
  BY DEF SInv, PcInv, Shape, FsWriteCommit, At, Busy
<1>2. dirh.tab = dir /\ Writer(c)
  BY <1>1, Holder DEF Writer, PcOK
<1>3. PICK i \in Index : /\ cl[c].fh.idx = i /\ dir[i] # None /\ dir[i] \in Entry
                         /\ cl[c].fh \in Handle
  BY <1>2, WriterEntry
<1>4. PICK d \in Data : d = cl[c].fh.hash
  <2>1. cl[c].fh.hash # None
    BY <1>1, <1>3, NoneIsNothing DEF PcOK
  <2> QED BY <1>3, <2>1 DEF Handle
<1>5. PICK e : e = [dir[i] EXCEPT !.hash = d]
  OBVIOUS
<1>6. e \in Entry /\ e.name = dir[i].name /\ e.hash = d /\ e # None /\ dir[i].name \in Names
  <2>1. e \in Entry /\ e.name = dir[i].name /\ e.hash = d /\ dir[i].name \in Names
    BY <1>3, <1>5 DEF Entry
  <2> QED BY <2>1, NoneIsNothing
<1>7. UNCHANGED dir \/ dir' = [dir EXCEPT ![i].hash = d]
  BY <1>2, <1>3, <1>4 DEF FsWriteCommit, Halt
<1>8. CASE dir' = [dir EXCEPT ![i].hash = d]
  <2>1. dir'[i] = e /\ \A j \in Index \ {i} : dir'[j] = dir[j]
    BY <1>1, <1>5, <1>8
  <2>2. Store!Put(dir[i].name, d)
    BY <1>6, <2>1, PutStep
  <2> QED BY <1>6, <2>2 DEF StoreOp
<1> QED BY <1>7, <1>8

\* A removal that is committed removes the object.
LEMMA FsRemoveRemoves ==
    ASSUME SInv, SInv', NEW c \in Clients, FsRemove(c)
    PROVE  StoreOp \/ UNCHANGED dir
<1>1. Shape /\ DirInv /\ DirhOK(dirh) /\ dir \in [Index -> Entry \cup {None}]
  BY DEF SInv, Shape
<1>2. GetDirh.tab = dir
  BY <1>1, TheDirectory
<1>3. PICK n : n = cl[c].name
  OBVIOUS
<1>4. CASE Find(dir, n) = {}
  BY <1>2, <1>3, <1>4 DEF FsRemove
<1>5. CASE Find(dir, n) # {}
  <2>1. PICK i \in Index : /\ Min(Find(dir, n)) = i /\ dir[i] \in Entry
                           /\ dir[i] # None /\ dir[i].name = n
    BY <1>1, <1>5, Found
  <2>2. n \in Names /\ dir[i].hash # None
    BY <2>1, NoneIsNothing DEF Entry
  <2>3. UNCHANGED dir \/ dir' = [dir EXCEPT ![i] = None]
    BY <1>2, <1>3, <1>5, <2>1 DEF FsRemove, Halt
  <2>4. CASE dir' = [dir EXCEPT ![i] = None]
    <3>1. dir'[i] = None /\ \A j \in Index \ {i} : dir'[j] = dir[j]
      BY <1>1, <2>4
    <3> QED BY <2>1, <2>2, <3>1, RemoveStep DEF StoreOp
  <2> QED BY <2>3, <2>4
<1> QED BY <1>4, <1>5

\* A rename that is committed renames the object, never onto another one.
LEMMA FsRenameRenames ==
    ASSUME SInv, SInv', NEW c \in Clients, FsRename(c)
    PROVE  StoreOp \/ UNCHANGED dir
<1>1. /\ Shape /\ PcInv /\ PobjInv /\ DirInv /\ DirhOK(dirh)
      /\ dir \in [Index -> Entry \cup {None}] /\ cl[c].pc \in Renames
  BY DEF SInv, Shape, FsRename, At, Renames
<1>2. GetDirh.tab = dir
  BY <1>1, TheDirectory
<1>3. PICK n, m \in Names : n = cl[c].name /\ m = cl[c].new
  BY <1>1, OneRenamer
<1>4. CASE Find(dir, n) = {} \/ Find(dir, m) # {}
  BY <1>2, <1>3, <1>4 DEF FsRename
<1>5. CASE ~(Find(dir, n) = {} \/ Find(dir, m) # {})
  <2>1. PICK i \in Index : /\ Min(Find(dir, n)) = i /\ dir[i] \in Entry
                           /\ dir[i] # None /\ dir[i].name = n
    BY <1>1, <1>5, Found
  <2>2. PICK e : e = [dir[i] EXCEPT !.name = m]
    OBVIOUS
  <2>3. e \in Entry /\ e.name = m /\ e.hash = dir[i].hash /\ e # None /\ dir[i].hash # None
    <3>1. e \in Entry /\ e.name = m /\ e.hash = dir[i].hash
      BY <2>1, <2>2 DEF Entry
    <3> QED BY <2>1, <3>1, NoneIsNothing DEF Entry
  <2>4. dir' = [dir EXCEPT ![i].name = m]
    BY <1>2, <1>3, <1>5, <2>1 DEF FsRename
  <2>5. dir'[i] = e /\ \A j \in Index \ {i} : dir'[j] = dir[j]
    BY <1>1, <2>2, <2>4
  <2>6. \A j \in Index : dir[j] # None => dir[j].name # m
    BY <1>5 DEF Find
  <2>7. Store!Rename(n, m)
    BY <2>1, <2>3, <2>5, <2>6, RenameStep
  <2> QED BY <2>7 DEF StoreOp
<1> QED BY <1>4, <1>5

\* Every other step leaves the directory on the disk alone.
LEMMA DirectoryKept ==
    ASSUME NEW c \in Clients, Step(c)
    PROVE  \/ \E overwrite \in BOOLEAN : FsSetName(c, overwrite)
           \/ FsWriteCommit(c) \/ FsRemove(c) \/ FsRename(c) \/ UNCHANGED dir
<1>1. CASE \/ \E n \in Names : ObjRename(c, n) \/ \E f \in OpenFlags : ObjOpen(c, n, f)
           \/ \E n \in Names, f \in CreateFlags : ObjCreate(c, n, f)
  BY <1>1 DEF ObjRename, ObjOpen, ObjCreate
<1>2. CASE FsOpen(c) \/ FsOpenFails(c) \/ ReadHead(c) \/ ReadHeadFails(c)
  BY <1>2 DEF FsOpen, FsOpenFails, ReadHead, ReadHeadFails
<1>3. CASE \/ FsCreateFileFails(c) \/ FsCreateFails(c)
           \/ \E d \in Data : FsCreateFile(c, d) \/ FsWriteSync(c, d)
  BY <1>3 DEF FsCreateFileFails, FsCreateFails, FsCreateFile, FsWriteSync
<1>4. CASE FsWriteBlocks(c) \/ FsWriteFails(c) \/ FsReadFails(c) \/ ObjDel(c)
  BY <1>4 DEF FsWriteBlocks, FsWriteFails, FsReadFails, ObjDel
<1>5. CASE \/ FsRemoveFails(c) \/ FsRenameFails(c) \/ PobjRename(c) \/ RenameUndo(c)
           \/ PobjRelease(c)
  BY <1>5 DEF FsRemoveFails, FsRenameFails, PobjRename, RenameUndo, PobjRelease
<1>6. CASE FsClose(c)
  BY <1>6 DEF FsClose, Halt
<1>7. CASE EnumStart(c) \/ EnumNext(c) \/ EnumOpen(c) \/ EnumPeekClose(c) \/ EnumEnd(c)
  BY <1>7 DEF EnumStart, EnumNext, EnumOpen, EnumPeekClose, EnumEnd, Halt
<1>8. CASE FsSetNameUnlink(c) \/ FsRemoveUnlink(c) \/ NullTree(c) \/ PobjRenameFails(c)
  BY <1>8 DEF FsSetNameUnlink, FsRemoveUnlink, NullTree, PobjRenameFails, Halt
<1>9. CASE EnumStartFails(c) \/ EnumNextFails(c) \/ EnumOpenFails(c)
  BY <1>9 DEF EnumStartFails, EnumNextFails, EnumOpenFails
<1> QED BY <1>1, <1>2, <1>3, <1>4, <1>5, <1>6, <1>7, <1>8, <1>9 DEF Step

\* The objects of all TAs change by whole operations only: each step of the
\* file system, a loss of power and a failed request included, is one create,
\* write, rename or removal of the abstract store, or leaves it as it is.
THEOREM StoreIsAtomic == Spec => ImplementsAtomicStore
<1>1. Init => Store!Init
  <2> SUFFICES ASSUME Init PROVE Store!Init
    OBVIOUS
  <2>1. \A i \in Index : dir[i] = None
    BY DEF Init, EmptyTable
  <2>2. \A n \in Names : Content(n) = None
    BY <2>1 DEF Content
  <2> QED BY <2>2 DEF Store!Init
<1>2. SInv /\ SInv' /\ [Next]_vars => [Store!Next]_([n \in Names |-> Content(n)])
  <2> SUFFICES ASSUME SInv, SInv', [Next]_vars
               PROVE  Store!Next \/ UNCHANGED [n \in Names |-> Content(n)]
    OBVIOUS
  <2>1. CASE UNCHANGED dir
    <3>1. \A n : Content(n)' = Content(n)
      BY <2>1, StoreIs
    <3> QED BY <3>1
  <2>2. StoreOp \/ UNCHANGED dir
    <3>1. CASE UNCHANGED vars \/ Crash
      BY <3>1 DEF vars, Crash, Halt
    <3>2. ASSUME NEW c \in Clients, Step(c) PROVE StoreOp \/ UNCHANGED dir
      BY <3>2, DirectoryKept, FsSetNamePuts, FsWriteCommitPuts, FsRemoveRemoves, FsRenameRenames
    <3> QED BY <3>1, <3>2 DEF Next
  <2> QED BY <2>1, <2>2, StoreOpChanges
<1> QED BY <1>1, <1>2, Invariance, PTL DEF Spec, ImplementsAtomicStore, Store!Spec
=============================================================================
