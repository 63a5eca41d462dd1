------------------------------ MODULE InodeLife ------------------------------
(***************************************************************************)
(* The life of an fskit_entry: how threads inside the library reference,   *)
(* detach, destroy and free the entries of one directory, at the grain of  *)
(* the library's lock operations and user callbacks.                       *)
(*                                                                         *)
(* The directory is the root, which is never removed, so its entries are   *)
(* the paths "/n".  A step runs from one blocking point of the C code      *)
(* (a pthread_rwlock acquisition or a user route callback) to the next.  A *)
(* thread that waits for a lock is a thread whose next action is disabled. *)
(* A call that fails in its first lookup changes nothing and is not an     *)
(* action of its own (see Miss).                                           *)
(*                                                                         *)
(* Abstracted: names, modes and owners (an access check may refuse any     *)
(* call), inode contents, times, and what user callbacks compute (each may *)
(* succeed, or fail if Faults names it).                                   *)
(*                                                                         *)
(* An operator Faulty... is a deliberately wrong variant of the definition *)
(* that follows it.  The specification does not use it: PROJECT.json names *)
(* the property that notices if it did.                                    *)
(***************************************************************************)
EXTENDS Integers, FiniteSets

CONSTANTS
  Threads,   \* threads calling into the library
  Names,     \* the names looked up in the directory
  Inodes,    \* every entry ever allocated; bounds the number of creations
  Handles,   \* file and directory handles; bounds how many are open at once
  None,      \* NULL
  Ops,       \* the API calls that the threads make
  Faults,    \* the callbacks and allocations that may fail
  MaxLeaks   \* bounds the references that failing calls leak on an entry

AllOps ==
  {"open", "creat", "mkdir", "opendir", "close", "unlink", "rmdir",
   "link", "rename", "ref", "detach_all"}

AllFaults ==
  {"open", "creat", "mkdir", "trunc", "close", "link", "rename", "handle"}

ASSUME ConstantsAssumption ==
  /\ IsFiniteSet(Threads) /\ IsFiniteSet(Names) /\ IsFiniteSet(Handles)
  /\ None \notin Threads \cup Names \cup Inodes \cup Handles
  /\ Threads \cap Handles = {}
  /\ Ops \subseteq AllOps
  /\ Faults \subseteq AllFaults
  /\ MaxLeaks \in Nat

VARIABLES
  slot,      \* root->children: name to entry
  type,      \* fskit_entry.type, "unused" before CALLOC, "freed" after free()
  links,     \* fskit_entry.link_count
  opens,     \* fskit_entry.open_count
  garbage,   \* fskit_entry.deletion_in_progress
  held,      \* fskit_entry.lock of an entry: its write-holder across steps
  rootW,     \* the root's lock: its write-holder
  rootR,     \* the root's lock: its read-holders
  handle,    \* fskit_file_handle.fent and fskit_dir_handle.dent
  pc,        \* where each thread is
  op,        \* the API call it runs
  ent, vic,  \* its C locals: the entry worked on, and rename's victim
  nm, to,    \* its name arguments
  fh         \* the handle it opens or closes

entryVars == <<slot, type, links, opens, garbage>>
lockVars  == <<held, rootW, rootR>>
argVars   == <<op, vic, nm, to, fh>>
vars == <<entryVars, lockVars, handle, pc, ent, argVars>>

Live == {"file", "dir"}

\* User callbacks run at these points (route.c, fskit_route_enter).
CallbackPcs ==
  {"open_trunc", "open_cb", "make_cb", "creat_trunc", "close_cb",
   "opendir_cb", "ref_cb", "link_cb", "rename_cb", "detach_cb",
   "destroy", "gc_destroy"}

Pcs ==
  CallbackPcs \cup
  {"idle", "open_child", "unref", "gc_lock", "alloc", "walk_child",
   "link_parent", "link_undo", "unlink_lock", "rmdir_lock", "rename_old",
   "rename_new"}

(***************************************************************************)
(* Shared pieces of the handlers.                                          *)
(***************************************************************************)

RootFree    == rootW = None /\ rootR = {}   \* wrlock on the root succeeds
RootNoWriter == rootW = None                \* rdlock on the root succeeds

\* An entry's lock can be taken.  Locking freed memory is undefined: the
\* thread is stuck and NoUseAfterFree is already false.
CanLock(i) == held[i] = None /\ type[i] # "freed"

\* A handle nobody has open or is about to fill in or close.
FreeHandle(h) == handle[h] = None /\ \A u \in Threads : fh[u] # h

\* fskit_entry_detach_lowlevel_ex: the link count is clamped at zero.
Detached(l) == IF l - 1 < 0 THEN 0 ELSE l - 1

Goto(t, p) ==
  /\ pc' = [pc EXCEPT ![t] = p]
  /\ UNCHANGED <<ent, argVars>>

\* The API call returns: the root's lock is dropped if still held.
Return(t) ==
  /\ pc'  = [pc EXCEPT ![t] = "idle"]
  /\ op'  = [op EXCEPT ![t] = "none"]
  /\ ent' = [ent EXCEPT ![t] = None]
  /\ vic' = [vic EXCEPT ![t] = None]
  /\ nm'  = [nm EXCEPT ![t] = None]
  /\ to'  = [to EXCEPT ![t] = None]
  /\ fh'  = [fh EXCEPT ![t] = None]
  /\ rootW' = IF rootW = t THEN None ELSE rootW
  /\ rootR' = rootR \ {t}

\* The call o enters at p with these arguments.
Enter(t, o, p, i, n, m, h) ==
  /\ o \in Ops
  /\ pc[t] = "idle"
  /\ pc'  = [pc EXCEPT ![t] = p]
  /\ op'  = [op EXCEPT ![t] = o]
  /\ ent' = [ent EXCEPT ![t] = i]
  /\ nm'  = [nm EXCEPT ![t] = n]
  /\ to'  = [to EXCEPT ![t] = m]
  /\ fh'  = [fh EXCEPT ![t] = h]

\* Faulty: open references do not keep an entry alive.
FaultyTryDestroyInUse(t, i, l, o) ==
  /\ links' = [links EXCEPT ![i] = l]
  /\ IF l <= 0
     THEN /\ opens' = [opens EXCEPT ![i] = o + 1]
          /\ pc' = [pc EXCEPT ![t] = "destroy"]
          /\ ent' = [ent EXCEPT ![t] = i]
          /\ UNCHANGED <<argVars, rootW, rootR>>
     ELSE opens' = [opens EXCEPT ![i] = o] /\ Return(t)

\* Faulty: the last close destroys an entry that still has names.
FaultyTryDestroyLinked(t, i, l, o) ==
  /\ links' = [links EXCEPT ![i] = l]
  /\ IF o <= 0
     THEN /\ opens' = [opens EXCEPT ![i] = o + 1]
          /\ pc' = [pc EXCEPT ![t] = "destroy"]
          /\ ent' = [ent EXCEPT ![t] = i]
          /\ UNCHANGED <<argVars, rootW, rootR>>
     ELSE opens' = [opens EXCEPT ![i] = o] /\ Return(t)

\* Faulty: off by one, so that nothing is ever destroyed.
FaultyTryDestroyNever(t, i, l, o) ==
  /\ links' = [links EXCEPT ![i] = l]
  /\ opens' = [opens EXCEPT ![i] = o]
  /\ Return(t)

\* fskit_entry_try_destroy on i, whose counts have just become l and o: with
\* neither names nor references it takes a reference of its own, unlocks i
\* and runs the user's destroy callback; a negative count is fatal.
TryDestroy(t, i, l, o) ==
  /\ links' = [links EXCEPT ![i] = l]
  /\ IF l <= 0 /\ o <= 0
     THEN /\ opens' = [opens EXCEPT ![i] = o + 1]
          /\ pc' = [pc EXCEPT ![t] = IF l < 0 \/ o < 0 THEN "exit" ELSE "destroy"]
          /\ ent' = [ent EXCEPT ![t] = i]
          /\ UNCHANGED <<argVars, rootW, rootR>>
     ELSE /\ opens' = [opens EXCEPT ![i] = o]
          /\ Return(t)

\* The tail of fskit_entry_try_destroy_and_free_ex, for every caller: the
\* destroy callback has returned, the entry dies and its memory is freed.
FinishDestroy(t) ==
  /\ pc[t] = "destroy"
  /\ type' = [type EXCEPT ![ent[t]] = "freed"]
  /\ Return(t)
  /\ UNCHANGED <<slot, links, opens, garbage, held, handle>>

(***************************************************************************)
(* open without O_CREAT (fskit_open_ex, fskit_do_open).                    *)
(***************************************************************************)

Open(t, n, h) ==
  /\ RootFree /\ slot[n] # None /\ FreeHandle(h)
  /\ \E p \in {"open_trunc", "open_child"} :    \* O_TRUNC or not
       Enter(t, "open", p, slot[n], n, None, h)
  /\ rootW' = t
  /\ UNCHANGED <<entryVars, held, rootR, handle, vic>>

\* The user's trunc callback runs before the entry is checked or referenced.
OpenTrunc(t) ==
  /\ pc[t] = "open_trunc"
  /\ \/ Goto(t, "open_child") /\ UNCHANGED <<rootW, rootR>>
     \/ "trunc" \in Faults /\ Return(t)
  /\ UNCHANGED <<entryVars, held, handle>>

\* Faulty: an entry tagged as garbage can be opened.
FaultyOpenRef(t) ==
  /\ pc[t] = "open_child" /\ CanLock(ent[t])
  /\ links[ent[t]] # 0 /\ type[ent[t]] # "dir"
  /\ opens' = [opens EXCEPT ![ent[t]] = @ + 1]
  /\ rootW' = None
  /\ Goto(t, "open_cb")
  /\ UNCHANGED <<slot, type, links, garbage, held, rootR, handle>>

\* fskit_do_open locks the child and references it, or refuses (no such
\* entry, a directory, or no permission); the root is unlocked either way.
OpenRef(t) ==
  /\ pc[t] = "open_child" /\ CanLock(ent[t])
  /\ links[ent[t]] # 0 /\ ~garbage[ent[t]] /\ type[ent[t]] # "dir"
  /\ opens' = [opens EXCEPT ![ent[t]] = @ + 1]
  /\ rootW' = None
  /\ Goto(t, "open_cb")
  /\ UNCHANGED <<slot, type, links, garbage, held, rootR, handle>>

OpenRefuse(t) ==
  /\ pc[t] = "open_child" /\ CanLock(ent[t])
  /\ Return(t)
  /\ UNCHANGED <<entryVars, held, handle>>

\* The call returns an error and its reference is never dropped.
Leak(t, faults) ==
  /\ Faults \cap faults # {} /\ opens[ent[t]] <= MaxLeaks
  /\ handle' = handle

\* The user's open callback has run without the root's lock, which
\* fskit_do_open takes again, to drop it once the handle can be made.
OpenDone(t) ==
  /\ pc[t] = "open_cb" /\ RootFree
  /\ \/ handle' = [handle EXCEPT ![fh[t]] = ent[t]]
     \/ Leak(t, {"handle"})                  \* ENOMEM
  /\ Return(t)
  /\ UNCHANGED <<entryVars, held>>

OpenFail(t) ==
  /\ pc[t] = "open_cb" /\ RootFree /\ "open" \in Faults
  /\ rootW' = t
  /\ Goto(t, "unref")
  /\ UNCHANGED <<entryVars, held, rootR, handle>>

\* Faulty: both the failing call and fskit_entry_unref drop the reference.
FaultyUnref(t) ==
  /\ pc[t] = "unref" /\ CanLock(ent[t])
  /\ TryDestroy(t, ent[t], links[ent[t]], opens[ent[t]] - 2)
  /\ UNCHANGED <<slot, type, garbage, held, handle>>

\* fskit_entry_unref, for open, opendir, link, stat and truncate.
Unref(t) ==
  /\ pc[t] = "unref" /\ CanLock(ent[t])
  /\ TryDestroy(t, ent[t], links[ent[t]], opens[ent[t]] - 1)
  /\ UNCHANGED <<slot, type, garbage, held, handle>>

(***************************************************************************)
(* creat (fskit_open_ex with O_CREAT, fskit_do_create) and mkdir.  The     *)
(* root stays write-locked from the lookup to the attach.                  *)
(***************************************************************************)

Make(t, o, n, h) ==
  /\ RootFree
  /\ \E i \in Inodes : type[i] = "unused"       \* the bound on creations
  /\ Enter(t, o, IF slot[n] = None THEN "alloc" ELSE "gc_lock",
           slot[n], n, None, h)
  /\ rootW' = t
  /\ UNCHANGED <<entryVars, held, rootR, handle, vic>>

Creat(t, n, h) == FreeHandle(h) /\ Make(t, "creat", n, h)
Mkdir(t, n)    == Make(t, "mkdir", n, None)

\* The name is taken.  fskit_entry_try_garbage_collect frees the name of a
\* garbage entry; any other is -EEXIST.
GcExists(t) ==
  /\ pc[t] = "gc_lock" /\ CanLock(ent[t]) /\ ~garbage[ent[t]]
  /\ Return(t)
  /\ UNCHANGED <<entryVars, held, handle>>

GotoAlloc(t) ==     \* child = NULL, and the name is free
  /\ pc'  = [pc EXCEPT ![t] = "alloc"]
  /\ ent' = [ent EXCEPT ![t] = None]
  /\ UNCHANGED argVars

\* Faulty: takes the name of an unused entry but does not destroy it.
FaultyGarbageCollect(t) ==
  /\ pc[t] = "gc_lock" /\ CanLock(ent[t]) /\ garbage[ent[t]]
  /\ slot'  = [slot EXCEPT ![nm[t]] = None]
  /\ links' = [links EXCEPT ![ent[t]] = Detached(@)]
  /\ GotoAlloc(t)
  /\ UNCHANGED <<type, opens, garbage, lockVars, handle>>

GarbageCollect(t) ==
  /\ pc[t] = "gc_lock" /\ CanLock(ent[t]) /\ garbage[ent[t]]
  /\ LET i == ent[t]
         l == Detached(links[i])
     IN  /\ slot'  = [slot EXCEPT ![nm[t]] = None]
         /\ links' = [links EXCEPT ![i] = l]
         /\ IF l <= 0 /\ opens[i] <= 0
            THEN /\ opens' = [opens EXCEPT ![i] = @ + 1]
                 /\ Goto(t, IF opens[i] < 0 THEN "exit" ELSE "gc_destroy")
            ELSE opens' = opens /\ GotoAlloc(t)
  /\ UNCHANGED <<type, garbage, lockVars, handle>>

FinishGc(t) ==
  /\ pc[t] = "gc_destroy"
  /\ type' = [type EXCEPT ![ent[t]] = "freed"]
  /\ GotoAlloc(t)
  /\ UNCHANGED <<slot, links, opens, garbage, lockVars, handle>>

\* Faulty: the callback runs before the new entry is referenced.
FaultyAlloc(t) ==
  /\ pc[t] = "alloc"
  /\ \E i \in Inodes :
       /\ type[i] = "unused"
       /\ type' = [type EXCEPT ![i] = IF op[t] = "creat" THEN "file" ELSE "dir"]
       /\ ent'  = [ent EXCEPT ![t] = i]
  /\ pc' = [pc EXCEPT ![t] = "make_cb"]
  /\ UNCHANGED <<slot, links, opens, garbage, lockVars, handle, argVars>>

\* CALLOC, init, and a reference for the user's create or mkdir callback.
Alloc(t) ==
  /\ pc[t] = "alloc"
  /\ \E i \in Inodes :
       /\ type[i] = "unused"
       /\ type'  = [type EXCEPT ![i] = IF op[t] = "creat" THEN "file" ELSE "dir"]
       /\ opens' = [opens EXCEPT ![i] = 1]
       /\ ent'   = [ent EXCEPT ![t] = i]
  /\ pc' = [pc EXCEPT ![t] = "make_cb"]
  /\ UNCHANGED <<slot, links, garbage, lockVars, handle, argVars>>

MakeFail(t) ==
  /\ pc[t] = "make_cb" /\ op[t] \in Faults
  /\ type' = [type EXCEPT ![ent[t]] = "freed"]
  /\ Return(t)
  /\ UNCHANGED <<slot, links, opens, garbage, held, handle>>

\* fskit_entry_attach_lowlevel, after which open(O_CREAT) may still truncate.
CreatAttach(t) ==
  /\ pc[t] = "make_cb" /\ op[t] = "creat"
  /\ slot'  = [slot EXCEPT ![nm[t]] = ent[t]]
  /\ links' = [links EXCEPT ![ent[t]] = @ + 1]
  /\ Goto(t, "creat_trunc")
  /\ UNCHANGED <<type, opens, garbage, lockVars, handle>>

CreatDone(t) ==
  /\ pc[t] = "creat_trunc"
  /\ \/ handle' = [handle EXCEPT ![fh[t]] = ent[t]]
     \/ Leak(t, {"trunc", "handle"})
  /\ Return(t)
  /\ UNCHANGED <<entryVars, held>>

MkdirAttach(t) ==
  /\ pc[t] = "make_cb" /\ op[t] = "mkdir"
  /\ slot'  = [slot EXCEPT ![nm[t]] = ent[t]]
  /\ links' = [links EXCEPT ![ent[t]] = @ + 1]
  /\ opens' = [opens EXCEPT ![ent[t]] = @ - 1]
  /\ Return(t)
  /\ UNCHANGED <<type, garbage, held, handle>>

(***************************************************************************)
(* close and closedir.                                                     *)
(***************************************************************************)

Close(t, h) ==
  /\ handle[h] # None /\ \A u \in Threads : fh[u] # h
  /\ Enter(t, "close", "close_cb", handle[h], None, None, h)
  /\ UNCHANGED <<entryVars, lockVars, handle, vic>>

\* Faulty: the reference is dropped before a callback that may refuse.
FaultyCloseFail(t) ==
  /\ pc[t] = "close_cb" /\ "close" \in Faults
  /\ opens' = [opens EXCEPT ![ent[t]] = @ - 1]
  /\ Return(t)
  /\ UNCHANGED <<slot, type, links, garbage, held, handle>>

CloseFail(t) ==
  /\ pc[t] = "close_cb" /\ "close" \in Faults
  /\ Return(t)
  /\ UNCHANGED <<entryVars, held, handle>>

CloseDrop(t) ==
  /\ pc[t] = "close_cb" /\ CanLock(ent[t])
  /\ handle' = [handle EXCEPT ![fh[t]] = None]
  /\ TryDestroy(t, ent[t], links[ent[t]], opens[ent[t]] - 1)
  /\ UNCHANGED <<slot, type, garbage, held>>

(***************************************************************************)
(* Calls that resolve "/n" itself (fskit_entry_resolve_path): the root is  *)
(* read-locked until the child's lock is held.                             *)
(***************************************************************************)

WalkRoot(t, o, n, m, h) ==
  /\ o \in {"opendir", "ref", "link", "detach_all"}
  /\ RootNoWriter /\ slot[n] # None /\ ~garbage[slot[n]]
  /\ Enter(t, o, "walk_child", slot[n], n, m, h)
  /\ rootR' = rootR \cup {t}
  /\ UNCHANGED <<entryVars, held, rootW, handle, vic>>

Opendir(t, n, h) == FreeHandle(h) /\ WalkRoot(t, "opendir", n, None, h)
Ref(t, n)        == WalkRoot(t, "ref", n, None, None)
DetachAll(t, n)  == WalkRoot(t, "detach_all", n, None, None)
Link(t, n, m)    == WalkRoot(t, "link", n, m, None)

\* The child is locked while the root still is: it may have been removed.
WalkedTo(t, o) ==
  /\ pc[t] = "walk_child" /\ op[t] = o /\ CanLock(ent[t])
  /\ links[ent[t]] # 0 /\ ~garbage[ent[t]]

\* Faulty: a failing resolution forgets to unlock the parent.
FaultyWalkRefuse(t) ==
  /\ pc[t] = "walk_child" /\ CanLock(ent[t])
  /\ pc' = [pc EXCEPT ![t] = "idle"]
  /\ UNCHANGED <<entryVars, lockVars, handle, ent, argVars>>

WalkRefuse(t) ==
  /\ pc[t] = "walk_child" /\ CanLock(ent[t])
  /\ Return(t)
  /\ UNCHANGED <<entryVars, held, handle>>

\* opendir, and the calls that hold a reference instead of a lock while user
\* code runs: fskit_entry_ref (stat) and fskit_trunc.
WalkRef(t) ==
  /\ \/ WalkedTo(t, "opendir") /\ type[ent[t]] = "dir" /\ Goto(t, "opendir_cb")
     \/ WalkedTo(t, "ref") /\ Goto(t, "ref_cb")
  /\ opens' = [opens EXCEPT ![ent[t]] = @ + 1]
  /\ rootR' = rootR \ {t}
  /\ UNCHANGED <<slot, type, links, garbage, held, rootW, handle>>

OpendirDone(t) ==
  /\ pc[t] = "opendir_cb" /\ CanLock(ent[t])
  /\ handle' = [handle EXCEPT ![fh[t]] = ent[t]]
  /\ Return(t)
  /\ UNCHANGED <<entryVars, held>>

OpendirFail(t) ==
  /\ pc[t] = "opendir_cb" /\ CanLock(ent[t])
  /\ Faults \cap {"open", "handle"} # {}
  /\ Goto(t, "unref")
  /\ UNCHANGED <<entryVars, lockVars, handle>>

RefDone(t) ==
  /\ pc[t] = "ref_cb" /\ CanLock(ent[t])
  /\ Goto(t, "unref")
  /\ UNCHANGED <<entryVars, lockVars, handle>>

\* fskit_entry_tag_garbage, by fskit_detach_all on an entry without children.
TagGarbage(t) ==
  /\ WalkedTo(t, "detach_all")
  /\ garbage' = [garbage EXCEPT ![ent[t]] = TRUE]
  /\ Return(t)
  /\ UNCHANGED <<slot, type, links, opens, held, handle>>

(***************************************************************************)
(* link: keeps the source locked while it locks the target's parent.       *)
(***************************************************************************)

LinkSource(t) ==
  /\ WalkedTo(t, "link") /\ type[ent[t]] # "dir"
  /\ held'  = [held EXCEPT ![ent[t]] = t]
  /\ rootR' = rootR \ {t}
  /\ Goto(t, "link_parent")
  /\ UNCHANGED <<entryVars, rootW, handle>>

LinkAttach(t) ==
  /\ pc[t] = "link_parent" /\ RootFree /\ slot[to[t]] = None
  /\ slot'  = [slot EXCEPT ![to[t]] = ent[t]]
  /\ links' = [links EXCEPT ![ent[t]] = @ + 1]
  /\ opens' = [opens EXCEPT ![ent[t]] = @ + 1]
  /\ held'  = [held EXCEPT ![ent[t]] = None]
  /\ rootW' = t
  /\ Goto(t, "link_cb")
  /\ UNCHANGED <<type, garbage, rootR, handle>>

\* The target exists, or its parent may not be written.
LinkRefuse(t) ==
  /\ pc[t] = "link_parent" /\ RootFree
  /\ held' = [held EXCEPT ![ent[t]] = None]
  /\ Return(t)
  /\ UNCHANGED <<entryVars, handle>>

LinkCallback(t) ==
  /\ pc[t] = "link_cb"
  /\ \/ Goto(t, "unref")
     \/ "link" \in Faults /\ Goto(t, "link_undo")
  /\ UNCHANGED <<entryVars, lockVars, handle>>

\* Faulty: the name is removed, the link count stays.
FaultyLinkUndo(t) ==
  /\ pc[t] = "link_undo" /\ CanLock(ent[t])
  /\ slot' = [slot EXCEPT ![to[t]] = None]
  /\ Goto(t, "unref")
  /\ UNCHANGED <<type, links, opens, garbage, lockVars, handle>>

LinkUndo(t) ==
  /\ pc[t] = "link_undo" /\ CanLock(ent[t])
  /\ slot'  = [slot EXCEPT ![to[t]] = None]
  /\ links' = [links EXCEPT ![ent[t]] = Detached(@)]
  /\ Goto(t, "unref")
  /\ UNCHANGED <<type, opens, garbage, lockVars, handle>>

(***************************************************************************)
(* unlink: detaches the entry before it locks it.                          *)
(***************************************************************************)

Unlink(t, n) ==
  /\ RootFree /\ slot[n] # None
  /\ Enter(t, "unlink", "detach_cb", slot[n], n, None, None)
  /\ slot'  = [slot EXCEPT ![n] = None]
  /\ links' = [links EXCEPT ![slot[n]] = Detached(@)]
  /\ rootW' = t
  /\ UNCHANGED <<type, opens, garbage, held, rootR, handle, vic>>

DetachCallback(t) ==
  /\ pc[t] = "detach_cb"
  /\ Goto(t, "unlink_lock")
  /\ UNCHANGED <<entryVars, lockVars, handle>>

UnlinkDrop(t) ==
  /\ pc[t] = "unlink_lock" /\ CanLock(ent[t])
  /\ TryDestroy(t, ent[t], links[ent[t]], opens[ent[t]])
  /\ UNCHANGED <<slot, type, garbage, held, handle>>

(***************************************************************************)
(* rmdir: detaches the entry under its lock.                               *)
(***************************************************************************)

Rmdir(t, n) ==
  /\ RootFree /\ slot[n] # None
  /\ Enter(t, "rmdir", "rmdir_lock", slot[n], n, None, None)
  /\ rootW' = t
  /\ UNCHANGED <<entryVars, held, rootR, handle, vic>>

RmdirDrop(t) ==
  /\ pc[t] = "rmdir_lock" /\ CanLock(ent[t]) /\ type[ent[t]] = "dir"
  /\ slot' = [slot EXCEPT ![nm[t]] = None]
  /\ TryDestroy(t, ent[t], Detached(links[ent[t]]), opens[ent[t]])
  /\ UNCHANGED <<type, garbage, held, handle>>

RmdirNotDir(t) ==
  /\ pc[t] = "rmdir_lock" /\ CanLock(ent[t]) /\ type[ent[t]] # "dir"
  /\ Return(t)
  /\ UNCHANGED <<entryVars, held, handle>>

(***************************************************************************)
(* rename within the directory.  The user's callback runs with the root    *)
(* and both entries write-locked.                                          *)
(***************************************************************************)

Rename(t, n, m) ==
  /\ RootFree /\ slot[n] # None /\ slot[n] # slot[m]
  /\ Enter(t, "rename", "rename_old", slot[n], n, m, None)
  /\ vic' = [vic EXCEPT ![t] = slot[m]]
  /\ rootW' = t
  /\ UNCHANGED <<entryVars, held, rootR, handle>>

\* Faulty: the parent is unlocked once the first entry is locked.
FaultyRenameLockOld(t) ==
  /\ pc[t] = "rename_old" /\ CanLock(ent[t])
  /\ held' = [held EXCEPT ![ent[t]] = t]
  /\ rootW' = None
  /\ Goto(t, IF vic[t] = None THEN "rename_cb" ELSE "rename_new")
  /\ UNCHANGED <<entryVars, rootR, handle>>

RenameLockOld(t) ==
  /\ pc[t] = "rename_old" /\ CanLock(ent[t])
  /\ held' = [held EXCEPT ![ent[t]] = t]
  /\ Goto(t, IF vic[t] = None THEN "rename_cb" ELSE "rename_new")
  /\ UNCHANGED <<entryVars, rootW, rootR, handle>>

\* Faulty: a type mismatch leaves fent_old locked.
FaultyRenameLockNew(t) ==
  /\ pc[t] = "rename_new" /\ CanLock(vic[t])
  /\ IF type[ent[t]] = type[vic[t]]
     THEN /\ held' = [held EXCEPT ![vic[t]] = t]
          /\ Goto(t, "rename_cb")
          /\ UNCHANGED <<rootW, rootR>>
     ELSE held' = held /\ Return(t)
  /\ UNCHANGED <<entryVars, handle>>

\* fent_new is locked and must be of the same type as fent_old.
RenameLockNew(t) ==
  /\ pc[t] = "rename_new" /\ CanLock(vic[t])
  /\ IF type[ent[t]] = type[vic[t]]
     THEN /\ held' = [held EXCEPT ![vic[t]] = t]
          /\ Goto(t, "rename_cb")
          /\ UNCHANGED <<rootW, rootR>>
     ELSE /\ held' = [held EXCEPT ![ent[t]] = None]
          /\ Return(t)
  /\ UNCHANGED <<entryVars, handle>>

ReleaseEntries(t) ==
  held' = [i \in Inodes |-> IF held[i] = t THEN None ELSE held[i]]

\* The callback fails with anything but -ENOENT (see README, hazards).
RenameFail(t) ==
  /\ pc[t] = "rename_cb" /\ "rename" \in Faults
  /\ ReleaseEntries(t)
  /\ Return(t)
  /\ UNCHANGED <<entryVars, handle>>

\* Faulty: the old name is not counted off.
FaultyRenameMove(t) ==
  /\ pc[t] = "rename_cb" /\ vic[t] = None
  /\ slot'  = [slot EXCEPT ![nm[t]] = None, ![to[t]] = ent[t]]
  /\ links' = [links EXCEPT ![ent[t]] = @ + 1]
  /\ ReleaseEntries(t)
  /\ Return(t)
  /\ UNCHANGED <<type, opens, garbage, handle>>

RenameMove(t) ==
  /\ pc[t] = "rename_cb" /\ vic[t] = None
  /\ slot'  = [slot EXCEPT ![nm[t]] = None, ![to[t]] = ent[t]]
  /\ links' = [links EXCEPT ![ent[t]] = Detached(@) + 1]
  /\ ReleaseEntries(t)
  /\ Return(t)
  /\ UNCHANGED <<type, opens, garbage, handle>>

\* Over an existing entry, which is destroyed if nothing references it.
RenameOver(t) ==
  /\ pc[t] = "rename_cb" /\ vic[t] # None
  /\ LET old == ent[t]
         new == vic[t]
         l   == Detached(links[new])
     IN  /\ slot'  = [slot EXCEPT ![nm[t]] = None, ![to[t]] = old]
         /\ links' = [links EXCEPT ![old] = Detached(@) + 1, ![new] = l]
         /\ IF l <= 0 /\ opens[new] <= 0
            THEN /\ opens' = [opens EXCEPT ![new] = @ + 1]
                 /\ pc'  = [pc EXCEPT ![t] = IF opens[new] < 0 THEN "exit" ELSE "destroy"]
                 /\ ent' = [ent EXCEPT ![t] = new]
                 /\ UNCHANGED <<argVars, rootW, rootR>>
            ELSE opens' = opens /\ Return(t)
  /\ ReleaseEntries(t)
  /\ UNCHANGED <<type, garbage, handle>>

(***************************************************************************)
(* The specification.                                                      *)
(***************************************************************************)

Init ==
  /\ slot = [n \in Names |-> None]
  /\ type = [i \in Inodes |-> "unused"]
  /\ links = [i \in Inodes |-> 0]
  /\ opens = [i \in Inodes |-> 0]
  /\ garbage = [i \in Inodes |-> FALSE]
  /\ held = [i \in Inodes |-> None]
  /\ rootW = None /\ rootR = {}
  /\ handle = [h \in Handles |-> None]
  /\ pc = [t \in Threads |-> "idle"]
  /\ op = [t \in Threads |-> "none"]
  /\ ent = [t \in Threads |-> None]
  /\ vic = [t \in Threads |-> None]
  /\ nm = [t \in Threads |-> None]
  /\ to = [t \in Threads |-> None]
  /\ fh = [t \in Threads |-> None]

\* A call enters the library.
Begin(t) ==
  \/ \E n \in Names, h \in Handles : Open(t, n, h) \/ Creat(t, n, h) \/ Opendir(t, n, h)
  \/ \E n \in Names : Mkdir(t, n) \/ Ref(t, n) \/ DetachAll(t, n) \/ Unlink(t, n) \/ Rmdir(t, n)
  \/ \E n, m \in Names : Link(t, n, m) \/ Rename(t, n, m)
  \/ \E h \in Handles : Close(t, h)

\* A call already inside the library goes on.
Continue(t) ==
  \/ OpenTrunc(t) \/ OpenRef(t) \/ OpenRefuse(t) \/ OpenDone(t) \/ OpenFail(t)
  \/ Unref(t) \/ FinishDestroy(t)
  \/ GcExists(t) \/ GarbageCollect(t) \/ FinishGc(t)
  \/ Alloc(t) \/ MakeFail(t) \/ CreatAttach(t) \/ CreatDone(t) \/ MkdirAttach(t)
  \/ CloseFail(t) \/ CloseDrop(t)
  \/ WalkRefuse(t) \/ WalkRef(t) \/ OpendirDone(t) \/ OpendirFail(t) \/ RefDone(t)
  \/ TagGarbage(t)
  \/ LinkSource(t) \/ LinkAttach(t) \/ LinkRefuse(t) \/ LinkCallback(t) \/ LinkUndo(t)
  \/ DetachCallback(t) \/ UnlinkDrop(t) \/ RmdirDrop(t) \/ RmdirNotDir(t)
  \/ RenameLockOld(t) \/ RenameLockNew(t) \/ RenameFail(t) \/ RenameMove(t) \/ RenameOver(t)

\* A lookup that finds nothing: -ENOENT, and nothing changes.
Miss(t) ==
  /\ pc[t] = "idle" /\ RootNoWriter
  /\ \E n \in Names : slot[n] = None
  /\ UNCHANGED vars

Next == \E t \in Threads : Begin(t) \/ Continue(t) \/ Miss(t)

Spec == Init /\ [][Next]_vars

\* A call inside the library goes on whenever it can infinitely often: user
\* callbacks return, and a lock that keeps becoming free is granted.  Entering
\* a call is the caller's choice.
FairSpec == Spec /\ \A t \in Threads : SF_vars(Continue(t))

(***************************************************************************)
(* Properties.                                                             *)
(***************************************************************************)

\* Every variable has its type.  The counts are never negative and no thread
\* is at "exit": try_destroy's two exit(1) branches are never taken.
TypeOK ==
  /\ slot \in [Names -> Inodes \cup {None}]
  /\ type \in [Inodes -> Live \cup {"unused", "freed"}]
  /\ links \in [Inodes -> Nat] /\ opens \in [Inodes -> Nat]
  /\ garbage \in [Inodes -> BOOLEAN]
  /\ held \in [Inodes -> Threads \cup {None}]
  /\ rootW \in Threads \cup {None} /\ rootR \in SUBSET Threads
  /\ handle \in [Handles -> Inodes \cup {None}]
  /\ pc \in [Threads -> Pcs]
  /\ op \in [Threads -> AllOps \cup {"none"}]
  /\ ent \in [Threads -> Inodes \cup {None}]
  /\ vic \in [Threads -> Inodes \cup {None}]
  /\ nm \in [Threads -> Names \cup {None}]
  /\ to \in [Threads -> Names \cup {None}]
  /\ fh \in [Threads -> Handles \cup {None}]

\* Where a thread owns one of the references that open_count counts.
RefPcs ==
  {"open_cb", "opendir_cb", "ref_cb", "link_cb", "link_undo", "unref",
   "make_cb", "creat_trunc", "destroy", "gc_destroy"}

Refs(i) ==
  {h \in Handles : handle[h] = i}
  \cup {t \in Threads : ent[t] = i /\ pc[t] \in RefPcs}

NamesOf(i) == {n \in Names : slot[n] = i}

\* open_count is exactly the open handles and the calls in progress that
\* reference the entry: none is leaked and none is dropped twice.
RefCountExact ==
  \A i \in Inodes : type[i] \in Live => opens[i] = Cardinality(Refs(i))

\* open_count never falls below the references that exist, so an entry in use
\* is never destroyed, even where failing calls leak references.
RefCountCovers ==
  \A i \in Inodes : type[i] \in Live => opens[i] >= Cardinality(Refs(i))

\* link_count is exactly the number of names of the entry.
LinkCountExact ==
  \A i \in Inodes : type[i] \in Live => links[i] = Cardinality(NamesOf(i))

\* No name, handle or C local refers to freed memory (or to memory that was
\* never allocated), so no thread locks, reads or frees a dead entry.
NoUseAfterFree ==
  /\ \A n \in Names : slot[n] # None => type[slot[n]] \in Live
  /\ \A h \in Handles : handle[h] # None => type[handle[h]] \in Live
  /\ \A t \in Threads : ent[t] # None => type[ent[t]] \in Live
  /\ \A t \in Threads : vic[t] # None => type[vic[t]] \in Live

Destroying(t) == pc[t] \in {"destroy", "gc_destroy"}

\* While the destroy callback runs, with the entry unlocked, nothing else can
\* reach the entry: no name, no handle and no other call (entry.c:1240, "so
\* this method won't succeed in another thread").
DestroyAlone ==
  \A t \in Threads : Destroying(t) =>
    /\ NamesOf(ent[t]) = {}
    /\ Refs(ent[t]) = {t}
    /\ \A u \in Threads \ {t} : ent[u] # ent[t] /\ vic[u] # ent[t]

\* A user callback other than detach and destroy only runs on an entry that is
\* linked or referenced; route.c ends the process otherwise (fskit_route_enter).
CallbackPinned ==
  \A t \in Threads :
    pc[t] \in CallbackPcs \ {"detach_cb", "destroy", "gc_destroy"} =>
      links[ent[t]] > 0 \/ opens[ent[t]] > 0

\* A thread outside the library holds no lock: every path out of a call
\* unlocks what it locked.
IdleHoldsNothing ==
  \A t \in Threads : pc[t] = "idle" =>
    /\ rootW # t /\ t \notin rootR
    /\ \A i \in Inodes : held[i] # t

\* The threads that t waits for: whoever holds the lock it needs next.
WaitsFor(t) ==
  CASE pc[t] \in {"open_child", "unref", "gc_lock", "walk_child", "link_undo",
                  "unlink_lock", "rmdir_lock", "rename_old", "close_cb"} ->
         {held[ent[t]]} \ {None}
    [] pc[t] = "rename_new" -> {held[vic[t]]} \ {None}
    [] pc[t] \in {"open_cb", "link_parent"} -> ({rootW} \ {None}) \cup rootR
    [] OTHER -> {}

\* No set of threads waits for locks that only its own members hold
\* (entry.c:613, "fskit locks the parent before the child when resolving a
\* path.  So it must be the case here to avoid deadlock").
NoCircularWait ==
  \A S \in (SUBSET Threads) \ {{}} : \E t \in S : WaitsFor(t) \cap S = {}

\* unlink's entry is "write-locked, or otherwise inaccessible" (entry.c:336)
\* from its detach to the lock that follows: nobody else destroys it.
DetachedInaccessible ==
  \A t \in Threads : pc[t] \in {"detach_cb", "unlink_lock"} =>
    /\ type[ent[t]] # "freed"
    /\ \A u \in Threads : Destroying(u) => ent[u] # ent[t]

\* Once tagged as garbage an entry gains no reference but its destroyer's:
\* open, stat and every other path resolution fail (entry.c:1554).
GarbageUnreachable ==
  [][\A i \in Inodes : garbage[i] =>
       \/ opens'[i] <= opens[i]
       \/ \E t \in Threads : Destroying(t)' /\ ent'[t] = i]_vars

\* Every call returns.
CallsReturn == \A t \in Threads : pc[t] # "idle" ~> pc[t] = "idle"

\* An entry with no name is destroyed and freed, unless a handle or a reference
\* that a failing call has leaked keeps it, or it gets a name (again).
UnlinkedReclaimed ==
  \A i \in Inodes :
    (type[i] \in Live /\ links[i] = 0) ~>
      \/ type[i] = "freed"
      \/ links[i] > 0
      \/ \E h \in Handles : handle[h] = i
      \/ opens[i] > Cardinality(Refs(i))

(***************************************************************************)
(* The abstract life of each entry (EntryLife): its names are the names    *)
(* that lead to it, its holders the handles and calls that reference it,   *)
(* and it is dying while a thread runs its destroy callback.               *)
(***************************************************************************)

Phase(i) ==
  CASE type[i] = "unused" -> "fresh"
    [] type[i] = "freed"  -> "dead"
    [] OTHER -> IF \E t \in Threads : Destroying(t) /\ ent[t] = i
                THEN "dying" ELSE "live"

Life ==
  INSTANCE EntryLife WITH
    Entries <- Inodes,
    Holders <- Threads \cup Handles,
    phase   <- [i \in Inodes |-> Phase(i)],
    names   <- [i \in Inodes |-> NamesOf(i)],
    holders <- [i \in Inodes |-> Refs(i)]

\* The counters, the locks and the recheck in try_destroy implement the
\* abstract life: an entry dies in the step that takes its last name or
\* reference, is never left without either, and never comes back.
ImplementsEntryLife == Life!Spec

(***************************************************************************)
(* The inductive invariant behind the safety properties, for any number of *)
(* threads, as long as entries are only detached under their own lock.     *)
(***************************************************************************)

LockedRemovals == "unlink" \notin Ops

\* Where the caller holds the root's write lock in any case.
RootPcs ==
  {"open_trunc", "open_child", "gc_lock", "gc_destroy", "alloc", "make_cb",
   "creat_trunc", "link_cb", "link_undo", "rmdir_lock", "rename_old",
   "rename_new", "rename_cb"}

\* Where the entry is only kept alive by the name it was found under.
NamedPcs ==
  {"open_trunc", "open_child", "gc_lock", "rmdir_lock", "walk_child",
   "rename_old", "rename_new", "rename_cb"}

RenamePcs == {"rename_old", "rename_new", "rename_cb"}

\* The root's lock is a readers/writer lock, held exactly where it should be.
RootLocked ==
  /\ rootW # None => rootR = {}
  /\ \A t \in Threads :
       /\ pc[t] \in RootPcs => rootW = t
       /\ rootW = t => pc[t] \in RootPcs \cup {"unref", "destroy"}
       /\ t \in rootR <=> pc[t] = "walk_child"

\* An entry's lock is held across steps by link and rename only.
EntriesLocked ==
  \A t \in Threads, i \in Inodes :
    held[i] = t <=>
      \/ pc[t] \in {"link_parent", "rename_new", "rename_cb"} /\ ent[t] = i
      \/ pc[t] = "rename_cb" /\ vic[t] = i

\* What each thread's locals say about the shared state.
FrameOK(t) ==
  /\ pc[t] = "idle" => fh[t] = None
  /\ ent[t] = None <=> pc[t] \in {"idle", "alloc"}
  /\ vic[t] # None => pc[t] \in RenamePcs \/ (pc[t] = "destroy" /\ vic[t] = ent[t])
  /\ pc[t] \in NamedPcs => nm[t] \in Names /\ slot[nm[t]] = ent[t]
  /\ pc[t] \in RenamePcs =>
       to[t] \in Names /\ slot[to[t]] = vic[t] /\ vic[t] # ent[t]
  /\ pc[t] = "rename_new" => vic[t] # None
  /\ pc[t] = "link_parent" => to[t] \in Names /\ NamesOf(ent[t]) # {}
  /\ pc[t] \in {"link_cb", "link_undo"} => to[t] \in Names /\ slot[to[t]] = ent[t]
  /\ pc[t] \in {"gc_lock", "gc_destroy", "alloc", "make_cb"} =>
       nm[t] \in Names /\ op[t] \in {"creat", "mkdir"}
  /\ pc[t] \in {"gc_destroy", "alloc", "make_cb"} => slot[nm[t]] = None
  /\ pc[t] = "walk_child" /\ op[t] = "link" => to[t] \in Names
  /\ pc[t] = "creat_trunc" => op[t] = "creat"
  /\ pc[t] \in {"open_trunc", "open_child", "open_cb"} => op[t] = "open"
  /\ pc[t] = "opendir_cb" => op[t] = "opendir"
  /\ pc[t] \notin {"detach_cb", "unlink_lock"}

\* A handle is filled in or closed by one thread only.
HandlesOK ==
  \A t \in Threads :
    /\ op[t] \in {"open", "creat", "opendir"} => fh[t] \in Handles
    /\ pc[t] = "close_cb" => fh[t] \in Handles /\ handle[fh[t]] = ent[t]
    /\ fh[t] # None /\ pc[t] # "close_cb" => handle[fh[t]] = None
    /\ \A u \in Threads \ {t} : fh[t] # None => fh[u] # fh[t]

\* An entry that is being made or destroyed belongs to one thread.
PrivateOK ==
  \A t \in Threads : pc[t] \in {"make_cb", "destroy", "gc_destroy"} =>
    /\ NamesOf(ent[t]) = {}
    /\ \A h \in Handles : handle[h] # ent[t]
    /\ \A u \in Threads \ {t} : ent[u] # ent[t] /\ vic[u] # ent[t]

UnusedOK == \A i \in Inodes : type[i] = "unused" => links[i] = 0

CannotLeak == Faults \cap {"trunc", "handle"} = {}

CountsOK ==
  /\ LinkCountExact /\ RefCountCovers
  /\ CannotLeak => RefCountExact

Shape ==
  /\ RootLocked /\ EntriesLocked
  /\ \A t \in Threads : FrameOK(t)
  /\ HandlesOK /\ PrivateOK /\ UnusedOK
  /\ NoUseAfterFree

IInv == TypeOK /\ Shape /\ CountsOK
=============================================================================
