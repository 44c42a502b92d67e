------------------------------- MODULE Storage -------------------------------
(***************************************************************************)
(* Persistent objects on the REE file system: the system calls             *)
(* (core/tee/tee_svc_storage.c, tee_obj.c), the table of open objects      *)
(* (tee_pobj.c), the file operations (tee_ree_fs.c) and the directory      *)
(* (fs_dirfile.c), built without CFG_RPMB_FS.                              *)
(*                                                                         *)
(* A file operation holds ree_fs_mutex from start to end, so a step of it  *)
(* stands for everything up to the next point where a crash or a failed    *)
(* request to normal world leaves a different disk.  A file without a      *)
(* directory entry makes no difference: nobody looks at it, and the next   *)
(* file of its number replaces it.  pobjs_mutex protects each step on the  *)
(* table of open objects.                                                  *)
(*                                                                         *)
(* An object file keeps two versions of its content (FsHtree.tla): writing *)
(* spoils the one that is not current, the synchronisation completes it.   *)
(* The directory is such a file too and its commit is atomic; a directory  *)
(* entry names the current version of the object's file by its hash, here  *)
(* the content itself.  A request that fails leaves the disk as it was; if *)
(* it was to read the directory, the tree in memory is freed too.          *)
(* Several sessions may write to one object only if they share writing:    *)
(* then each has a tree of its own.  The model leaves that out.            *)
(***************************************************************************)
EXTENDS Naturals, FiniteSets, FiniteSetsExt

CONSTANTS Clients,      \* TA sessions, each with one object or one enumerator
          Names,        \* object identifiers
          Data,         \* contents
          NumFiles,     \* bound on the file numbers in use
          OpenFlags,    \* the flag sets objects are opened with
          CreateFlags,  \* and created with
          Enumerators,  \* the clients that may enumerate the objects
          None

Numbers == 0 .. NumFiles - 1
Index == 0 .. Cardinality(Names) - 1
Torn == "torn"

\* struct dirfile_entry; the file in normal world; struct tee_fs_fd; struct tee_pobj.
Entry == [name : Names, num : Numbers, hash : Data]
File == [0..1 -> Data \cup {Torn}]
Handle == [num : Numbers, idx : Index, base : 0..1, hash : Data \cup {None}]
Pobj == [refcnt : Nat, flags : OpenFlags \cup CreateFlags \cup {{"META"}},
         temporary : BOOLEAN]

ASSUME StorageAssumption ==
    /\ IsFiniteSet(Clients) /\ IsFiniteSet(Names)
    /\ NumFiles \in Nat
    /\ \A f \in OpenFlags \cup CreateFlags : f \subseteq {"R", "W", "META", "SR"}
    /\ Enumerators \subseteq Clients
    /\ None \notin Names \cup Data \cup Entry \cup File \cup Handle \cup Pobj

VARIABLES
    dir,      \* disk: dir[i], the committed entry i of dirf.db, or None
    file,     \* disk: file[k][v], version v of the file with number k, or None
    dirh,     \* ree_fs_dirh: open?, its tree there?, the entries and the bits
              \* of used numbers
    dirhRef,  \* ree_fs_dirh_refcount
    mutex,    \* holder of ree_fs_mutex during an operation of several steps
    pobj,     \* tee_pobjs: pobj[n], the open object with name n, or None
    cl,       \* cl[c]: the call c is in and its struct tee_obj
    en,       \* en[c]: the struct tee_fs_dir of c
    halted    \* why the core stopped: "no", "assert" (an assert() of a file
              \* operation), "tree" (a directory without a tree is read) or
              \* "enum" (an enumerator's directory is not the open one)

vars == <<dir, file, dirh, dirhRef, mutex, pobj, cl, en, halted>>

EmptyTable == [i \in Index |-> None]

Closed == [open |-> FALSE, tree |-> FALSE, tab |-> EmptyTable, bits |-> {}]
IdleClient == [pc |-> "idle", name |-> None, flags |-> {}, fh |-> None,
               new |-> None, old |-> None]
NoEnum == [pc |-> "none", valid |-> FALSE, idx |-> 0, name |-> None]

Init ==
    /\ dir = EmptyTable
    /\ file = [k \in Numbers |-> None]
    /\ dirh = Closed
    /\ dirhRef = 0
    /\ mutex = {}
    /\ pobj = [n \in Names |-> None]
    /\ cl = [c \in Clients |-> IdleClient]
    /\ en = [c \in Clients |-> NoEnum]
    /\ halted = "no"

-----------------------------------------------------------------------------
(* The directory.                                                           *)

\* tee_fs_dirfile_open(): an entry whose file number was seen is dropped.
DirfileOpen(entries) ==
    LET Dup(i) == \E j \in Index : /\ j < i /\ entries[i] # None
                                   /\ entries[j] # None
                                   /\ entries[i].num = entries[j].num
    IN  [open |-> TRUE, tree |-> TRUE,
         tab |-> [i \in Index |-> IF Dup(i) THEN None ELSE entries[i]],
         bits |-> {entries[i].num : i \in {j \in Index : entries[j] # None}}]

\* tee_fs_dirfile_find() and, for the empty name, the first free entry.
Find(t, n) == {i \in Index : t[i] # None /\ t[i].name = n}
\* Mutant: the entry of another object is taken.
FirstFree_first(t) == 0
FirstFree(t) == Min({i \in Index : t[i] = None})

\* get_dirh(): the directory every file operation works on.
GetDirh == IF dirh.open THEN dirh ELSE DirfileOpen(dir)

\* get_dirh() finds a directory that can be read.
HasTree == dirh.open => dirh.tree

\* What a failed request leaves of the directory: it could not be opened; it is
\* as it was, as something else failed; or one of its blocks could not be read,
\* and tee_fs_htree_read_block() frees the tree.
FailedDirh == (IF dirh.open THEN {} ELSE {Closed})
              \cup {GetDirh, [GetDirh EXCEPT !.tree = FALSE]}

\* put_dirh_primitive(): the caller's reference goes; the last one, and any
\* failed operation, close the directory under everybody's feet.
PutDirh(d, refs, close) ==
    /\ dirh' = IF d.open /\ (refs = 0 \/ close) THEN Closed ELSE d
    /\ dirhRef' = refs
    /\ en' = IF dirh'.open THEN en
             ELSE [c \in Clients |-> [en[c] EXCEPT !.valid = FALSE]]

\* The core stops, and starts again: the disk is all that stays.
Halt(why) ==
    /\ dirh' = Closed
    /\ dirhRef' = 0
    /\ mutex' = {}
    /\ pobj' = [n \in Names |-> None]
    /\ cl' = [c \in Clients |-> IdleClient]
    /\ en' = [c \in Clients |-> NoEnum]
    /\ halted' = why
    /\ UNCHANGED <<dir, file>>

-----------------------------------------------------------------------------
(* tee_pobj.c.                                                              *)

\* tee_pobj_check_access(): o the flags of the first opener, n the new ones.
CheckAccess(o, n) ==
    /\ "META" \notin o \cup n
    /\ "R" \in o \cup n => "SR" \in o \cap n
    /\ "SR" \in o <=> "SR" \in n
    /\ "W" \in o \cup n => "SW" \in o \cap n
    /\ "SW" \in o <=> "SW" \in n

\* tee_pobj_get().
PobjGet(n, flags, temporary) ==
    IF pobj[n] = None
    THEN pobj' = [pobj EXCEPT ![n] = [refcnt |-> 1, flags |-> flags,
                                      temporary |-> temporary]]
    ELSE /\ temporary = pobj[n].temporary
         /\ CheckAccess(pobj[n].flags, flags)
         /\ pobj' = [pobj EXCEPT ![n].refcnt = @ + 1]

\* tee_pobj_release().
\* Mutant: the last release does not unlink the object.
Released_not_freed(p, n) == [p EXCEPT ![n].refcnt = @ - 1]
Released(p, n) ==
    IF p[n].refcnt = 1 THEN [p EXCEPT ![n] = None]
    ELSE [p EXCEPT ![n].refcnt = @ - 1]

At(c, l) == cl[c].pc = l
Goto(c, l) == cl' = [cl EXCEPT ![c].pc = l]
Unlocked == mutex = {}
Idle(c) == At(c, "idle") /\ en[c].pc = "none"

\* The end of each call that gives up its struct tee_obj.
PobjRelease(c) ==
    /\ At(c, "release")
    /\ pobj' = Released(pobj, cl[c].name)
    /\ cl' = [cl EXCEPT ![c] = IdleClient]
    /\ UNCHANGED <<dir, file, dirh, dirhRef, mutex, en, halted>>

-----------------------------------------------------------------------------
(* syscall_storage_obj_open().                                              *)

ObjOpen(c, n, f) ==
    /\ Idle(c)
    /\ PobjGet(n, f, FALSE)
    /\ cl' = [cl EXCEPT ![c] = [IdleClient EXCEPT !.pc = "open", !.name = n,
                                                  !.flags = f]]
    /\ UNCHANGED <<dir, file, dirh, dirhRef, mutex, en, halted>>

\* The version of a file whose hash the directory entry e gives.
Versions(e) == IF file[e.num] = None THEN {}
               ELSE {v \in 0..1 : file[e.num][v] = e.hash}

\* ree_fs_open().
FsOpen(c) ==
    /\ At(c, "open") /\ Unlocked /\ HasTree
    /\ LET d == GetDirh
           at == Find(d.tab, cl[c].name)
           e == d.tab[Min(at)]
       IN  IF at = {} \/ Versions(e) = {}
           THEN /\ PutDirh(d, dirhRef, FALSE)
                /\ Goto(c, IF at = {} THEN "release" ELSE "remove")
           ELSE /\ \E v \in Versions(e) :
                      cl' = [cl EXCEPT ![c].pc = "head", ![c].fh =
                               [num |-> e.num, idx |-> Min(at), base |-> v,
                                hash |-> e.hash]]
                /\ dirh' = d
                /\ dirhRef' = dirhRef + 1
                /\ UNCHANGED en
    /\ UNCHANGED <<dir, file, mutex, pobj, halted>>

\* The directory or the file cannot be read: oclose, without a handle, and
\* before it the removal if the file system calls that corrupt.  The directory
\* stays open for its other users, with or without a tree.
FsOpenFails(c) ==
    /\ At(c, "open") /\ Unlocked /\ HasTree
    /\ \E d \in FailedDirh : PutDirh(d, dirhRef, FALSE)
    /\ \E l \in {"release", "remove"} : Goto(c, l)
    /\ UNCHANGED <<dir, file, mutex, pobj, halted>>

\* The content the handle's tree vouches for is still on the disk.
Intact(h) == file[h.num] # None /\ file[h.num][h.base] = h.hash

\* tee_svc_storage_read_head(): ree_fs_read() of the head and attributes.
ReadHead(c) ==
    /\ At(c, "head") /\ Unlocked
    /\ Goto(c, IF Intact(cl[c].fh) THEN "have" ELSE "remove")
    /\ UNCHANGED <<dir, file, dirh, dirhRef, mutex, pobj, en, halted>>

\* The request for the head fails: oclose.  The one for the attributes fails:
\* the object counts as corrupt.
ReadHeadFails(c) ==
    /\ At(c, "head") /\ Unlocked
    /\ \E l \in {"close", "remove"} : Goto(c, l)
    /\ UNCHANGED <<dir, file, dirh, dirhRef, mutex, pobj, en, halted>>

-----------------------------------------------------------------------------
(* syscall_storage_obj_create(): ree_fs_create().                           *)

ObjCreate(c, n, f) ==
    /\ Idle(c)
    /\ PobjGet(n, f, TRUE)
    /\ cl' = [cl EXCEPT ![c] = [IdleClient EXCEPT !.pc = "create", !.name = n,
                                                  !.flags = f]]
    /\ UNCHANGED <<dir, file, dirh, dirhRef, mutex, en, halted>>

\* tee_fs_dirfile_get_tmp(), then the new file with the data of the call, d,
\* written and synchronised.
FsCreateFile(c, d) ==
    /\ At(c, "create") /\ Unlocked
    /\ LET dh == GetDirh IN
       /\ Numbers \ dh.bits # {}
       /\ LET k == Min(Numbers \ dh.bits) IN
          /\ dirh' = [dh EXCEPT !.bits = @ \cup {k}]
          /\ file' = [file EXCEPT ![k] = [v \in 0..1 |-> IF v = 1 THEN d ELSE Torn]]
          /\ cl' = [cl EXCEPT ![c].pc = "create_name", ![c].fh =
                      [num |-> k, idx |-> 0, base |-> 1, hash |-> d]]
    /\ dirhRef' = dirhRef + 1
    /\ mutex' = {c}
    /\ UNCHANGED <<dir, pobj, en, halted>>

\* The file cannot be created.  The error may be that of a corrupt object: then
\* the object that has the name is removed (err:).
FsCreateFileFails(c) ==
    /\ At(c, "create") /\ Unlocked
    /\ PutDirh(GetDirh, dirhRef, TRUE)
    /\ \E l \in {"release", "remove"} : Goto(c, l)
    /\ UNCHANGED <<dir, file, mutex, pobj, halted>>

\* set_name(): without OVERWRITE the name must be free; the file it had goes
\* after the commit.
FsSetName(c, overwrite) ==
    /\ At(c, "create_name") /\ HasTree
    /\ LET at == Find(dirh.tab, cl[c].name)
           i == IF at = {} THEN FirstFree(dirh.tab) ELSE Min(at)
           t == [dirh.tab EXCEPT ![i] = [name |-> cl[c].name,
                    num |-> cl[c].fh.num, hash |-> cl[c].fh.hash]]
       IN  /\ at = {} \/ overwrite
           /\ dirh' = [dirh EXCEPT !.tab = t]
           /\ dir' = t
           /\ IF at = {}
              THEN /\ cl' = [cl EXCEPT ![c].pc = "have", ![c].fh.idx = i]
                   /\ mutex' = {}
              ELSE /\ cl' = [cl EXCEPT ![c].pc = "create_unlink", ![c].fh.idx = i,
                                       ![c].old = dirh.tab[i].num]
                   /\ UNCHANGED mutex
    /\ UNCHANGED <<file, dirhRef, pobj, en, halted>>

\* tee_fs_rpc_remove_dfh().
FsSetNameUnlink(c) ==
    /\ At(c, "create_unlink")
    /\ file' = [file EXCEPT ![cl[c].old] = None]
    /\ cl' = [cl EXCEPT ![c].pc = "have", ![c].old = None]
    /\ mutex' = {}
    /\ UNCHANGED <<dir, dirh, dirhRef, pobj, en, halted>>

\* Mutant: put_dirh() is forgotten on the error path.
FsCreateFails_keeps_ref(c) ==
    /\ At(c, "create_name") /\ HasTree
    /\ PutDirh(dirh, dirhRef, TRUE)
    /\ file' = [file EXCEPT ![cl[c].fh.num] = None]
    /\ mutex' = {}
    /\ cl' = [cl EXCEPT ![c].pc = "release", ![c].fh = None]
    /\ UNCHANGED <<dir, pobj, halted>>

\* A request failed, the commit failed, or the name was taken (out: and err:).
FsCreateFails(c) ==
    /\ At(c, "create_name") /\ HasTree
    /\ PutDirh(dirh, dirhRef - 1, TRUE)
    /\ file' = [file EXCEPT ![cl[c].fh.num] = None]
    /\ mutex' = {}
    /\ \E l \in {"release", "remove"} :
          cl' = [cl EXCEPT ![c].pc = l, ![c].fh = None]
    /\ UNCHANGED <<dir, pobj, halted>>

-----------------------------------------------------------------------------
(* syscall_storage_obj_write(), syscall_storage_obj_trunc(): ree_fs_write() *)
(* and ree_fs_truncate() take the same steps.                               *)

\* Mutant: the current version is overwritten.
FsWriteBlocks_in_place(c) ==
    /\ At(c, "have") /\ "W" \in cl[c].flags /\ Unlocked
    /\ dirh' = GetDirh
    /\ dirhRef' = dirhRef + 1
    /\ file' = [file EXCEPT ![cl[c].fh.num][cl[c].fh.base] = Torn]
    /\ Goto(c, "write_sync")
    /\ mutex' = {c}
    /\ UNCHANGED <<dir, pobj, en, halted>>

\* The first block goes to the version that is not current.
FsWriteBlocks(c) ==
    /\ At(c, "have") /\ "W" \in cl[c].flags /\ Unlocked
    /\ dirh' = GetDirh
    /\ dirhRef' = dirhRef + 1
    /\ file' = [file EXCEPT ![cl[c].fh.num][1 - cl[c].fh.base] = Torn]
    /\ Goto(c, "write_sync")
    /\ mutex' = {c}
    /\ UNCHANGED <<dir, pobj, en, halted>>

FsWriteSync(c, d) ==
    /\ At(c, "write_sync")
    /\ LET h == cl[c].fh IN
       /\ file' = [file EXCEPT ![h.num][1 - h.base] = d]
       /\ cl' = [cl EXCEPT ![c].pc = "write_commit", ![c].fh.base = 1 - h.base,
                           ![c].fh.hash = d]
    /\ UNCHANGED <<dir, dirh, dirhRef, mutex, pobj, en, halted>>

\* tee_fs_dirfile_update_hash(), commit, put_dirh().
FsWriteCommit(c) ==
    /\ At(c, "write_commit") /\ HasTree
    /\ LET h == cl[c].fh
           e == dirh.tab[h.idx]
           t == [dirh.tab EXCEPT ![h.idx].hash = h.hash]
       IN  IF e = None \/ (e # None /\ (e.num # h.num \/ e.num \notin dirh.bits))
           THEN Halt("assert")
           ELSE /\ dir' = t
                /\ PutDirh([dirh EXCEPT !.tab = t], dirhRef - 1, FALSE)
                /\ mutex' = {}
                /\ cl' = [cl EXCEPT ![c].pc = "have"]
                /\ UNCHANGED <<file, pobj, halted>>

\* A block, the synchronisation or the commit fails.  A truncation that finds
\* the object corrupt removes it.  Else the TA is assumed to close the handle
\* whose call failed, here and below, as a TA that panics does: the TA library
\* panics on most errors.
FsWriteFails(c) ==
    /\ At(c, "write_sync") \/ (At(c, "write_commit") /\ HasTree)
    /\ PutDirh(dirh, dirhRef - 1, TRUE)
    /\ mutex' = {}
    /\ \E l \in {"close", "remove"} : Goto(c, l)
    /\ UNCHANGED <<dir, file, pobj, halted>>

\* syscall_storage_obj_read() that does not return data: the request fails, or
\* the content is not what the tree vouches for.
FsReadFails(c) ==
    /\ At(c, "have") /\ "R" \in cl[c].flags /\ Unlocked
    /\ \/ Goto(c, "close")
       \/ ~Intact(cl[c].fh) /\ Goto(c, "remove")
    /\ UNCHANGED <<dir, file, dirh, dirhRef, mutex, pobj, en, halted>>

-----------------------------------------------------------------------------
(* Removal and renaming.                                                    *)

\* syscall_storage_obj_del().
ObjDel(c) ==
    /\ At(c, "have") /\ "META" \in cl[c].flags
    /\ Goto(c, "remove")
    /\ UNCHANGED <<dir, file, dirh, dirhRef, mutex, pobj, en, halted>>

\* tee_obj_close() follows a removal, and a corrupt object's open.
AfterRemove(c) == IF cl[c].fh = None THEN "release" ELSE "close"

\* ree_fs_remove(): the entry goes first.
FsRemove(c) ==
    /\ At(c, "remove") /\ Unlocked /\ HasTree
    /\ LET d == GetDirh
           at == Find(d.tab, cl[c].name)
           k == d.tab[Min(at)].num
           t == [d.tab EXCEPT ![Min(at)] = None]
       IN  IF at = {}
           THEN /\ PutDirh(d, dirhRef, TRUE)
                /\ Goto(c, AfterRemove(c))
                /\ UNCHANGED <<dir, file, mutex, pobj, halted>>
           ELSE IF k \notin d.bits
           THEN Halt("assert")
           ELSE /\ dirh' = [d EXCEPT !.tab = t, !.bits = @ \ {k}]
                /\ dirhRef' = dirhRef + 1
                /\ dir' = t
                /\ mutex' = {c}
                /\ cl' = [cl EXCEPT ![c].pc = "remove_unlink", ![c].old = k]
                /\ UNCHANGED <<file, pobj, en, halted>>

\* Then the file.  The assert() that no entry with the name is left reads the
\* directory once more, and takes a failure to read for a name not found.
FsRemoveUnlink(c) ==
    /\ At(c, "remove_unlink")
    /\ IF Find(dirh.tab, cl[c].name) # {}
       THEN Halt("assert")
       ELSE /\ file' = [file EXCEPT ![cl[c].old] = None]
            /\ \E d \in FailedDirh : PutDirh(d, dirhRef - 1, FALSE)
            /\ mutex' = {}
            /\ cl' = [cl EXCEPT ![c].pc = AfterRemove(c), ![c].old = None]
            /\ UNCHANGED <<dir, pobj, halted>>

FsRemoveFails(c) ==
    /\ At(c, "remove") /\ Unlocked /\ HasTree
    /\ PutDirh(GetDirh, dirhRef, TRUE)
    /\ Goto(c, AfterRemove(c))
    /\ UNCHANGED <<dir, file, mutex, pobj, halted>>

\* syscall_storage_obj_rename(): reserve the new name.
ObjRename(c, n) ==
    /\ At(c, "have") /\ "META" \in cl[c].flags
    /\ PobjGet(n, {"META"}, FALSE)
    /\ cl' = [cl EXCEPT ![c].pc = "rename", ![c].new = n]
    /\ UNCHANGED <<dir, file, dirh, dirhRef, mutex, en, halted>>

\* Mutant: the new name is not looked up first.
FsRename_onto_another(c) ==
    /\ At(c, "rename") /\ Unlocked /\ HasTree
    /\ LET d == GetDirh
           at == Find(d.tab, cl[c].name)
           t == [d.tab EXCEPT ![Min(at)].name = cl[c].new]
       IN  /\ at # {}
           /\ dir' = t
           /\ PutDirh([d EXCEPT !.tab = t], dirhRef, FALSE)
           /\ Goto(c, "renamed")
    /\ UNCHANGED <<file, mutex, pobj, halted>>

\* ree_fs_rename() without overwrite.
FsRename(c) ==
    /\ At(c, "rename") /\ Unlocked /\ HasTree
    /\ LET d == GetDirh
           at == Find(d.tab, cl[c].name)
           t == [d.tab EXCEPT ![Min(at)].name = cl[c].new]
       IN  IF at = {} \/ Find(d.tab, cl[c].new) # {}
           THEN /\ PutDirh(d, dirhRef, TRUE)
                /\ Goto(c, "rename_undo")
                /\ UNCHANGED dir
           ELSE /\ dir' = t
                /\ PutDirh([d EXCEPT !.tab = t], dirhRef, FALSE)
                /\ Goto(c, "renamed")
    /\ UNCHANGED <<file, mutex, pobj, halted>>

\* Anything but the search for the new name fails.
FsRenameFails(c) ==
    /\ At(c, "rename") /\ Unlocked /\ HasTree
    /\ PutDirh(GetDirh, dirhRef, TRUE)
    /\ Goto(c, "rename_undo")
    /\ UNCHANGED <<dir, file, mutex, pobj, halted>>

\* tee_pobj_rename() and the release of the reserved name.  While both have
\* the new name, either one refuses whoever asks for it.
PobjRename(c) ==
    /\ At(c, "renamed") /\ pobj[cl[c].name].refcnt = 1
    /\ pobj' = [Released(pobj, cl[c].new) EXCEPT ![cl[c].name] = None,
                                                 ![cl[c].new] = pobj[cl[c].name]]
    /\ cl' = [cl EXCEPT ![c].pc = "have", ![c].name = cl[c].new, ![c].new = None]
    /\ UNCHANGED <<dir, file, dirh, dirhRef, mutex, en, halted>>

\* The object has another user, or there is no memory for the new name: the
\* open object keeps the name that the directory no longer has.
PobjRenameFails(c) ==
    /\ At(c, "renamed")
    /\ pobj' = Released(pobj, cl[c].new)
    /\ cl' = [cl EXCEPT ![c].pc = "close", ![c].new = None]
    /\ UNCHANGED <<dir, file, dirh, dirhRef, mutex, en, halted>>

RenameUndo(c) ==
    /\ At(c, "rename_undo")
    /\ pobj' = Released(pobj, cl[c].new)
    /\ cl' = [cl EXCEPT ![c].pc = "have", ![c].new = None]
    /\ UNCHANGED <<dir, file, dirh, dirhRef, mutex, en, halted>>

-----------------------------------------------------------------------------
(* Closing: ree_fs_close().  It does not look at the directory's pointer.   *)

\* syscall_cryp_obj_close() of a handle the TA has, or the end of another call.
FsClose(c) ==
    /\ cl[c].pc \in {"have", "close"} /\ Unlocked
    /\ IF dirhRef = 0
       THEN Halt("assert")
       ELSE /\ PutDirh(dirh, dirhRef - 1, FALSE)
            /\ cl' = [cl EXCEPT ![c].pc = "release", ![c].fh = None]
            /\ UNCHANGED <<dir, file, mutex, pobj, halted>>

-----------------------------------------------------------------------------
(* Enumeration: ree_fs_opendir_rpc(), ree_fs_readdir_rpc(),                 *)
(* ree_fs_closedir_rpc().  The object read in between is opened and closed. *)

\* syscall_storage_start_enum(): opendir fails when there is no object, and
\* leaves the enumerator with file operations and no directory.
EnumStart(c) ==
    /\ c \in Enumerators /\ Idle(c) /\ Unlocked /\ HasTree
    /\ LET d == GetDirh
           empty == d.tab = EmptyTable
           refs == IF empty THEN dirhRef ELSE dirhRef + 1
       IN  /\ dirh' = IF refs = 0 THEN Closed ELSE d
           /\ dirhRef' = refs
           /\ en' = [en EXCEPT ![c].pc = IF empty THEN "failed" ELSE "ready",
                               ![c].valid = ~empty]
    /\ UNCHANGED <<dir, file, mutex, pobj, cl, halted>>

\* Neither the directory's failure nor its loss of the tree closes it.
EnumStartFails(c) ==
    /\ c \in Enumerators /\ Idle(c) /\ Unlocked /\ HasTree
    /\ \E d \in FailedDirh :
          LET dh == IF dirhRef = 0 THEN Closed ELSE d IN
          /\ dirh' = dh
          /\ en' = [x \in Clients |-> IF x = c THEN [NoEnum EXCEPT !.pc = "failed"]
                      ELSE [en[x] EXCEPT !.valid = @ /\ dh.open]]
    /\ UNCHANGED <<dir, file, dirhRef, mutex, pobj, cl, halted>>

\* syscall_storage_next_enum(): readdir uses the pointer of opendir.  Once the
\* directory was closed the pointer is good only by chance, when the directory
\* was opened again at the same address.
EnumNext(c) ==
    /\ en[c].pc \in {"ready", "failed"} /\ At(c, "idle") /\ Unlocked
    /\ \/ ~en[c].valid /\ Halt("enum")
       \/ /\ en[c].pc = "ready" /\ dirh.open /\ dirh.tree
          /\ \E i \in Index :
                /\ i >= en[c].idx /\ dirh.tab[i] # None
                /\ \A j \in Index : j >= en[c].idx /\ j < i => dirh.tab[j] = None
                /\ en' = [en EXCEPT ![c].pc = "open", ![c].idx = i + 1,
                                    ![c].name = dirh.tab[i].name]
          /\ UNCHANGED <<dir, file, dirh, dirhRef, mutex, pobj, cl, halted>>

\* readdir cannot read the directory.
EnumNextFails(c) ==
    /\ en[c].pc = "ready" /\ At(c, "idle") /\ Unlocked /\ dirh.open /\ dirh.tree
    /\ dirh' = [dirh EXCEPT !.tree = FALSE]
    /\ UNCHANGED <<dir, file, dirhRef, mutex, pobj, cl, en, halted>>

\* Then ree_fs_open() of the entry's object, to read its head.
EnumOpen(c) ==
    /\ en[c].pc = "open" /\ Unlocked /\ HasTree
    /\ LET d == GetDirh
           at == Find(d.tab, en[c].name)
           ok == at # {} /\ Versions(d.tab[Min(at)]) # {}
           refs == IF ok THEN dirhRef + 1 ELSE dirhRef
       IN  /\ dirh' = d
           /\ dirhRef' = refs
           /\ en' = [en EXCEPT ![c].pc = IF ok THEN "peek" ELSE "ready",
                               ![c].name = None]
    /\ UNCHANGED <<dir, file, mutex, pobj, cl, halted>>

EnumOpenFails(c) ==
    /\ en[c].pc = "open" /\ Unlocked /\ HasTree
    /\ dirh' \in FailedDirh
    /\ en' = [en EXCEPT ![c].pc = "ready", ![c].name = None]
    /\ UNCHANGED <<dir, file, dirhRef, mutex, pobj, cl, halted>>

\* And ree_fs_close() of it.
EnumPeekClose(c) ==
    /\ en[c].pc = "peek" /\ Unlocked
    /\ dirhRef' = dirhRef - 1
    /\ en' = [en EXCEPT ![c].pc = "ready"]
    /\ UNCHANGED <<dir, file, dirh, mutex, pobj, cl, halted>>

\* syscall_storage_reset_enum(), syscall_storage_free_enum(): closedir asserts
\* that its directory is the open one.
EnumEnd(c) ==
    /\ en[c].pc \in {"ready", "failed"} /\ At(c, "idle") /\ Unlocked
    /\ \/ en[c].pc = "ready" /\ ~en[c].valid /\ Halt("enum")
       \/ LET refs == IF en[c].pc = "ready" THEN dirhRef - 1 ELSE dirhRef
              d == IF refs = 0 THEN Closed ELSE dirh
          IN  /\ en[c].pc = "ready" => dirh.open
              /\ dirh' = d
              /\ dirhRef' = refs
              /\ en' = [x \in Clients |-> IF x = c THEN NoEnum
                          ELSE [en[x] EXCEPT !.valid = @ /\ d.open]]
              /\ UNCHANGED <<dir, file, mutex, pobj, cl, halted>>

-----------------------------------------------------------------------------
(* The directory without a tree.                                            *)

\* The operations that read the directory.
ReadsDir(c) ==
    \/ cl[c].pc \in {"create_name", "write_commit"}
    \/ Unlocked /\ cl[c].pc \in {"open", "rename", "remove"}
    \/ /\ Unlocked /\ At(c, "idle") /\ c \in Enumerators
       /\ en[c].pc \in {"none", "ready", "open"}

\* ree_fs_read_primitive() follows the pointer to the tree.  An earlier failure
\* left the directory without one; or set_name() and ree_fs_rename() lose it
\* in their first search, whose failure they take for a name not found.
NullTree(c) ==
    /\ \/ ReadsDir(c) /\ ~HasTree
       \/ At(c, "create_name")
       \/ At(c, "rename") /\ Unlocked
    /\ Halt("tree")

-----------------------------------------------------------------------------
\* Power is lost.
Crash == Halt("no")

Step(c) ==
    \/ \E n \in Names : ObjRename(c, n) \/ \E f \in OpenFlags : ObjOpen(c, n, f)
    \/ \E n \in Names, f \in CreateFlags : ObjCreate(c, n, f)
    \/ FsOpen(c) \/ FsOpenFails(c) \/ ReadHead(c) \/ ReadHeadFails(c)
    \/ FsCreateFileFails(c) \/ FsCreateFails(c)
    \/ \E overwrite \in BOOLEAN : FsSetName(c, overwrite)
    \/ FsSetNameUnlink(c) \/ FsRemoveUnlink(c) \/ NullTree(c)
    \/ \E d \in Data : FsCreateFile(c, d) \/ FsWriteSync(c, d)
    \/ FsWriteBlocks(c) \/ FsWriteCommit(c) \/ FsWriteFails(c) \/ FsReadFails(c)
    \/ ObjDel(c) \/ FsRemove(c) \/ FsRemoveFails(c)
    \/ FsRename(c) \/ FsRenameFails(c) \/ PobjRename(c)
    \/ PobjRenameFails(c) \/ RenameUndo(c) \/ FsClose(c) \/ PobjRelease(c)
    \/ EnumStart(c) \/ EnumNext(c) \/ EnumOpen(c) \/ EnumPeekClose(c) \/ EnumEnd(c)
    \/ EnumStartFails(c) \/ EnumNextFails(c) \/ EnumOpenFails(c)

Next == Crash \/ \E c \in Clients : halted = "no" /\ Step(c)

Spec == Init /\ [][Next]_vars

-----------------------------------------------------------------------------
(* Properties.                                                              *)

\* The references to the open object n: of sessions that have it, and of one
\* that renames its own object to n.
PobjUsers(n) == Cardinality({c \in Clients : cl[c].name = n})
              + Cardinality({c \in Clients : cl[c].new = n})

\* Types, and tee_pobjs has exactly the objects in use, each with the count of
\* its users.
TypeOK ==
    /\ dir \in [Index -> Entry \cup {None}]
    /\ file \in [Numbers -> File \cup {None}]
    /\ dirh \in [open : BOOLEAN, tree : BOOLEAN, tab : [Index -> Entry \cup {None}],
                 bits : SUBSET Numbers]
    /\ dirhRef \in Nat
    /\ mutex \in SUBSET Clients /\ Cardinality(mutex) <= 1
    /\ \A n \in Names :
          IF PobjUsers(n) = 0 THEN pobj[n] = None
          ELSE /\ pobj[n].refcnt = PobjUsers(n)
               /\ pobj[n].flags \in OpenFlags \cup CreateFlags \cup {{"META"}}
    /\ \A c \in Clients : cl[c].fh \in Handle \cup {None}
    /\ halted \in {"no", "assert", "tree", "enum"}

\* Whatever the sessions do to objects, and whatever request fails under them,
\* no assert() about the directory's content and references fails in a file
\* operation: a handle's entry is still its own when a write is recorded, the
\* number of a removed file was marked as used, a removed name is gone, and a
\* closed file has a reference to give back.  It says nothing of the two ways
\* the core is known to stop: a directory that lost its tree is read ("tree"),
\* and an enumerator goes on with a directory that was closed ("enum": its
\* pointer is followed, or fails the assert() of put_dirh()).
NoHalt == halted # "assert"

\* At every moment, so after a crash too, each object of the committed
\* directory has a file with the version the directory vouches for: a file is
\* complete before its entry is committed, and outlives it.
Recoverable == \A i \in Index : dir[i] # None => Versions(dir[i]) # {}

\* ree_fs_dirh_refcount is what the open files, the open enumerators and the
\* operation in progress hold, across every error path; so the directory is
\* closed when the last of them goes and never before.
DirhRefsMatch ==
    /\ dirhRef = Cardinality({c \in Clients : cl[c].fh # None})
               + Cardinality({c \in Clients : cl[c].pc \in
                       {"write_sync", "write_commit", "remove_unlink"}})
               + Cardinality({c \in Clients : en[c].pc \in {"ready", "open", "peek"}})
               + Cardinality({c \in Clients : en[c].pc = "peek"})
    /\ dirhRef = 0 => ~dirh.open

\* The object with name n, as the committed directory has it.
Content(n) == IF \E i \in Index : dir[i] # None /\ dir[i].name = n
              THEN dir[CHOOSE i \in Index : dir[i] # None /\ dir[i].name = n].hash
              ELSE None

Store == INSTANCE AtomicStore WITH store <- [n \in Names |-> Content(n)]

\* The objects a TA sees change by whole operations only: a create, a write, a
\* truncation, a rename or a removal happens at one commit of the directory or
\* not at all, whatever fails and whenever power is lost.
ImplementsAtomicStore == Store!Spec
=============================================================================
