# A verification of fskit

fskit is a C library for building user-space filesystems. It keeps the inodes,
directories, handles, reference counts and locks; the application supplies the
data through *routes*, callbacks selected by a path pattern. This directory
holds TLA+ models of the library (`src/libfskit`), the TLC configurations that
check them, and proofs that TLAPS checks.

1. [The system](#1-the-system): its components, what each must guarantee
2. [The modules](#2-the-modules) and how they correspond to the code
3. [What is checked](#3-what-is-checked): runs, bounds, fairness
4. [What is proved](#4-what-is-proved)
5. [Where the code disagrees with its own comments](#5-findings)
6. [What is not modelled](#6-what-is-not-modelled)
7. [Plan](#7-plan)

## 1. The system

Everything hangs off one `fskit_core` (`private.h`): the root entry, the route
table, and a lock for each. Application threads, usually FUSE workers, call the
API concurrently; there is no thread, queue or timer inside the library. All
interleaving therefore comes from callers, at the two places where a call can
stop in the middle: a `pthread_rwlock` it waits for, and a user callback it
runs.

| component | state | operations | what makes it correct |
|---|---|---|---|
| **entry life cycle** (`entry.c`, `path.c`) | `type`, `link_count`, `open_count`, `deletion_in_progress`, `lock` of each `fskit_entry` | attach, detach, ref/unref, tag as garbage, garbage-collect by name, try_destroy | an entry is freed exactly when it has neither names nor references, once, and nobody can still reach it |
| **open, create, close** (`open.c`, `create.c`, `close.c`) | `fskit_file_handle` | open with O_CREAT / O_TRUNC, close | each handle owns one reference; a failure gives back what it took; no lock outlives a call |
| **unlink, rmdir** | names of the parent | remove a name, destroy if unused | an open entry survives its last name and dies with its last handle |
| **mkdir, mknod, symlink** | the same | make and attach an entry | the new entry is not visible before it is complete |
| **link** | the same | second name for an inode | undo restores name and count; no lock-order cycle |
| **rename** (`rename.c`) | two names, perhaps in two directories | move, replace | atomic; the replaced entry is destroyed if unused; the tree stays a tree; no lock-order cycle |
| **directory handles** (`opendir.c`, `closedir.c`, `readdir.c`) | `dent`, `curr_name`, `telldir_list`, `eof` | opendir, readdir, seekdir, telldir, rewinddir, closedir | every entry that stays in the directory is returned once |
| **path resolution** (`path.c`) | the chain of locks of the walk | lock-coupled walk with an access check per step | never steps on a dead entry; parents before children |
| **recursive detach** (`entry.c`, `deferred.h`) | `fskit_detach_ctx`: a queue of entries, a set of children | detach_all, with retry after -ENOMEM | everything below is detached once, whatever fails |
| **routes** (`route.c`) | table of rows of routes, a lock per table and per route | declare, undeclare, call with a consistency discipline | the first match runs, under its discipline, on an entry that is pinned |
| **extended attributes** (`*xattr.c`, `entry.c`) | a set of name/value pairs per entry | get, set, list, remove | CREATE/REPLACE semantics; a failure changes nothing |
| **metadata** (`stat.c`, `chmod.c`, `chown.c`, `utime.c`, `access.c`, ...) | mode, owner, times, size | read or assign under the entry's lock | POSIX permission rules |
| **file data** (`read.c`, `write.c`, `trunc.c`, `sync.c`) | `size`, the data is the application's | call the route, adjust size | size agrees with what was written |
| **core** (`fskit.c`, `entry.c`) | root, tables | init, destroy | |
| **REPL** (`repl.c`), **FUSE binding** (`src/fuse`), sglib, demo, tests | tables of descriptors; none; vendored; none | | |

How they interact: every path call resolves its parent through `path.c` and
returns with that parent locked; it then locks the entry, changes names and
counts through `entry.c`, and runs callbacks through `route.c`. Calls that run
callbacks for a long time drop the locks and hold a *reference*
(`open_count`) instead. Whoever makes `link_count` and `open_count` both zero
(an unlink, an rmdir, a rename, a close, an unref, or a garbage collection)
destroys the entry, and runs one more callback to do so. That protocol is
the heart of the library and the subject of the first module.

`PROJECT.json` lists, under `hazards`, the places in this code that a test
would hardly reach, each at its line, and the properties that watch it.

## 2. The modules

| module | what it is |
|---|---|
| `InodeLife` | the reference protocol for the entries of one directory, at the grain of locks and callbacks |
| `EntryLife` | what that protocol promises about each entry; `InodeLife` implements it |
| `Namespace` | the tree: nested directories, counters, garbage, open entries; one call at a time |
| `FileTree` | what an application sees of it, a plain tree of names; `Namespace` implements it |
| `DetachQueue` | the recursive detach and its queue, next to a thread working below |
| `Routes` | declaration, matching and calling of routes by threads and by callbacks, with the locks that protect them |
| `DirCursor` | reading a directory that changes |
| `FileData` | the size of a file through writes and truncations |
| `MCInodeLife`, `MCNamespace`, `MCRoutes` | sets of calls, faults and types, and the symmetries, for TLC |
| `InodeLife_proofs` | the inductive invariant of `InodeLife` and the theorems that follow from it; deadlock freedom and the garbage rule |
| `InodeRefinement_proofs` | `InodeLife` implements `EntryLife` |
| `NamespaceView_proofs` | `Namespace` implements `FileTree` |
| `Namespace_proofs`, `DetachQueue_proofs`, `Routes_proofs`, `DirCursor_proofs`, `FileData_proofs` | for each module an inductive invariant, and the invariants that its run checks |

`InodeLife` and `Namespace` cut the same code along two axes: the first has the
interleavings inside one directory that is never removed, the second has every
shape of tree but lets one call finish before the next begins. `DetachQueue`,
`Routes`, `DirCursor` and `FileData` each open up one thing that the first two
treat as a single step or leave to the application.

### InodeLife

**State.** `slot` is `root->children`; `type`, `links`, `opens`, `garbage` are
the fields of each entry (`type` also tells an entry not yet allocated and one
already freed). `rootW` and `rootR` are the holders of the root's rwlock.
`held[i]` is who keeps entry `i`'s lock from one step to the next; most calls
take and release it within one step, only link and rename keep it. `handle` is
what each open file or directory handle points to. For each thread `pc`, `op`,
`ent`, `vic`, `nm`, `to`, `fh` are its position and the C locals that matter.

**Grain.** A step runs from one blocking point of the C code to the next: a
lock acquisition or a user callback. Between two such points the thread holds
every lock that the data it touches needs, or else the step is split: `open`
with O_TRUNC runs the trunc callback on an entry it has neither locked nor
referenced (`OpenTrunc`), `unlink` detaches before it locks (`Unlink`,
`DetachCallback`, `UnlinkDrop`), try_destroy unlocks before the destroy
callback and frees after it (`TryDestroy`, `FinishDestroy`). A thread that waits
for a lock is one whose next action is disabled.

**Actions.** Each API call is a `Begin` action (resolution up to its first
blocking point) and several `Continue` actions:

| call | actions |
|---|---|
| `fskit_open` | `Open` `OpenTrunc` `OpenRef`/`OpenRefuse` `OpenDone`/`OpenFail` `Unref` |
| `fskit_create`, `open(O_CREAT)` | `Creat` `GcExists`/`GarbageCollect` `FinishGc` `Alloc` `MakeFail`/`CreatAttach` `CreatDone` |
| `fskit_mkdir` | `Mkdir`, the same, `MkdirAttach` |
| `fskit_close`, `fskit_closedir` | `Close` `CloseFail`/`CloseDrop` |
| `fskit_opendir` | `Opendir` `WalkRefuse`/`WalkRef` `OpendirDone`/`OpendirFail` |
| `fskit_stat`, `fskit_trunc` | `Ref` `WalkRefuse`/`WalkRef` `RefDone` `Unref` |
| `fskit_unlink` | `Unlink` `DetachCallback` `UnlinkDrop` |
| `fskit_rmdir` | `Rmdir` `RmdirDrop`/`RmdirNotDir` |
| `fskit_link` | `Link` `LinkSource` `LinkAttach`/`LinkRefuse` `LinkCallback` `LinkUndo` |
| `fskit_rename` | `Rename` `RenameLockOld` `RenameLockNew` `RenameFail`/`RenameMove`/`RenameOver` |
| `fskit_detach_all` on a leaf | `DetachAll` `WalkRefuse`/`TagGarbage` |
| any, when the last count drops | `FinishDestroy` |

**Faults.** `Faults` names what may fail: the `open`, `creat`, `mkdir`, `trunc`,
`close`, `link` and `rename` callbacks and the allocation of a handle. Access
checks may refuse any call, so a refusal is always possible.

**Faulty operators.** An operator called `Faulty...` stands before the
definition it varies and makes one plausible mistake: a reference dropped twice,
a lock not released, a guard forgotten. The specification never uses them.
`PROJECT.json` pairs each with the property that a model with that mistake
violates, which shows that the property can fail.

### EntryLife

**State.** For each entry a `phase` (fresh, live, dying, dead), its `names` and
its `holders`. **Actions.** A creation gives it one holder (`Born`); names and
holders come and go while one remains (`Used`); the step that takes the last one
makes it dying and known to one destroyer (`Orphaned`), who frees it (`Freed`);
a refused creation frees it at once (`Abandoned`). `Next` is a conjunction over
entries, since one rename concerns two. What the last name or holder is
(`Last`) and what keeps an entry alive (`Tied`) are said of the sets themselves,
not of their sizes. The refinement (`Life` in `InodeLife`)
takes the slots that lead to an entry as its names, and `Refs(i)`, the open
handles and the calls that own a reference, as its holders. `phase` is computed
from where the code keeps it: the counts and the thread in try_destroy.

### Namespace and FileTree

**State.** `node[e]` is `struct fskit_entry` without its lock: `kind`
(`FSKIT_ENTRY_TYPE_*`), `child` (the set of children), `up` (".."), `nchild`
(`num_children`), `links`, `opens`, `garbage` (`deletion_in_progress`). A freed
entry is `Unallocated` and may be used again.

**Actions.** One per call, composed of the same pieces as the C functions:

| code | operator |
|---|---|
| `fskit_entry_attach_lowlevel`, `fskit_entry_detach_lowlevel_ex`, `fskit_entry_try_destroy_and_free`, `fskit_entry_try_garbage_collect` | `Attach` `Detach` `TryDestroy` `Collect` |
| path resolution; with a root that is garbage | `Resolvable`; `NullRoot` |
| `fskit_mkdir`, `fskit_mknod`, creation in `fskit_open`; `fskit_symlink`; a callback that refuses | `Make` `Symlink` `MakeRefused` |
| `fskit_link`, `fskit_unlink`, `fskit_rmdir` | `Link` `Unlink` `Rmdir` |
| `fskit_rename`, `fskit_entry_rename_in_directory` | `Rename` (with `MayReplace`) `RenameInDirectory` |
| `fskit_detach_all` | `DetachAll` |
| open/opendir, close/closedir | `Open` `Close` |
| `fskit_core_destroy` after a detach of the root, `fskit_core_init` | `Restart` |

The counters are the code's: `Collect` decrements `nchild` twice, `Detach`
tests `nchild > 2`, rename's loop check refuses every existing target in another
directory and nothing else. Five kinds of calls that the code accepts and cannot
cope with are named by `AllHazards` (see [findings](#5-findings)); callers of
`ns_tree` do not make them (`RenameAvoided` is that rule for renames, and stands for no
code). Any call by path may come after the root has been detached: the walk then
dereferences NULL, the process dies, and `NullRoot` starts the next one with an
empty tree.

`FileTree` has only `kind` and `tree`. The refinement shows an entry if it has
names and is not garbage: counters, handles, garbage and its collection do not
show, and every call changes the visible tree at one place.

### DetachQueue

**State.** The subtree (`child`, `links`, `opens`, `garbage`, `gone`; `outside`
counts names elsewhere), `fskit_detach_ctx` (`queue`), `*dir_children` (`set`),
where `fskit_detach_all` is (`pc`), and the directory that a second thread below
has write-locked (`walker`). `lost` and `faults` are for the properties and
bounds.

**Actions.** `Tag` and `QueueSet` are the beginning of `fskit_detach_all` and
`fskit_detach_all_ex`; `DetachHead` is one turn of its loop, which holds the
entry's lock; `TagNoMem`, `ChildrenNoMem` and the failing half of `QueueSet` are
its -ENOMEM exits, `CallbackFails` its -EFAULT exit, `Retry` the call that
follows an -ENOMEM. `RetryWith` says with what: `"null"`, as the comment above
the function asks, or `"same"`, as `fskit_detach_all` does. Memory runs out `MaxFaults`
times at most; the code's own loop has no such bound. The other thread walks down
lock by lock, creates (with or without a handle to what it has created) and removes; handles are closed and names outside removed
at any time.

### Routes

**State.** `table`, for each type of route its row: a sequence of slots, with
holes; for each thread the `stack` of its calls in progress, innermost last; and `rule`, a
history variable. Six types stand for all, which differ in how the caller locks the entry
(`CallerLock`) and in the disciplines a declaration accepts (`Accepted`). The lock state
is a function of the stacks: `Held(t)`.

**Actions.** `Declare`, `Undeclare`, `UndeclareAll` need the table's write lock,
which is free only when no call has its route (the table is read-locked until
the callback returns). `Call` begins a call, from outside or from a running callback;
`Resolve` locks the entry as the caller does, then the table, and matches;
`Miss` finds no route, and `NullRoute` a hole, whose null pointer it follows
(`route.c:441`): the process dies, and the next one starts from the initial state. `Enter` gets the lock of
the discipline and starts the callback, `Skip` is the EDEADLK branch, after which
the call returns without its callback, `Leave` the end of the callback and of the caller's
lock, `Unref` the last step of a stat. What the code does with EDEADLK is kept: the
route skips the callback, path resolution ignores it and later unlocks the entry under the
outer call (`Unlocked`). A thread that wants exclusively what it shares waits for itself.

**The rule for callbacks.** The code accepts every call of a callback, whatever locks its thread
holds, and so does the model: `Call` has no guard but the bound on the depth, and `Declare` accepts what
`fskit_route_declare` accepts. Some of these calls overlap or never return:

- A setmetadata callback that sets metadata of its own entry. These routes take no lock, since
  the caller holds the entry's; that lock is refused with EDEADLK, which `path.c:431` ignores, so that the
  callback runs again inside itself and the inner call unlocks the entry under the outer one.
- A callback that shares a lock and calls something that wants it exclusively: an `inode_concurrent` callback
  that changes its entry, every getxattr (or listxattr) through an `inode_sequential` route (`getxattr.c:59-67`
  keeps the entry read-locked). The thread waits for itself.
- Two setxattr callbacks that call about each other's entries, two `sequential` routes that call each other: the threads
  wait for each other.

No property of the locks can hold once such a call has been made. The model therefore states which calls are harmless,
and records in `rule` whether another one has been made. That rule is found here, and is neither stated nor enforced by the code;
its operators translate no code and are not mapped to any, except for `WaitsForItself`:

- No getxattr route is `inode_sequential` (`WaitsForItself`).
- A callback that runs with an entry locked, by its discipline or by its caller, calls only by handle,
  never by path (`Nestable`).
- A nested call asks for locks in one order (`Rank`): routes of the types whose callers keep nothing
  locked, by slot; entries, ancestors first; the routes of the other types. It may ask again for
  what is shared, and for what the route will refuse (`Settled`).

`RunsFirstMatch` holds whatever callbacks call. `Serialized`, `NoCircularWait` and `CallsReturn` say what
holds until somebody breaks the rule. The condition is needed: without `rule = "kept" =>` TLC refutes `Serialized` with the
first call of the list above and `NoCircularWait` with the second.

### DirCursor

**State.** `entry` is the directory by name (names are numbers in strcmp's
order), `cursor` and `eof` the handle's, `batch` what the call in progress has
read, `told` the position that telldir stored last. `seen`, `stable`, `skipped` and
`ended` record history for the properties, since the handle was opened, sought or rewound.

**Actions.** `Read` is `fskit_readdir_lowlevel` with `FindStart`, `Unread` and
`Remember`; `ReadFail` its -ENOMEM exits, before which a new handle's cursor has already been
set; `Deliver` and `Fail` are the outcomes of the user's callback.
`Telldir`, `Seekdir` and `Rewinddir` do what the code does: seekdir ignores the
name that was told, rewinddir makes the first entry the one that was read last
and leaves `eof`. `Create`, `Remove` and `TagGarbage` are the rest of the
program. seekdir and rewinddir walk the children without the directory's lock, a data race
in the code; here each is one step, so what the race does is not in the model.

### FileData

**State.** `size` is `fent->size`; `extent` is where the application's data
ends; `claimed` the largest end a write has asked for since the last truncation;
`discipline` that of the write and trunc routes; `call` each thread's call.

**Actions.** `Start`, the callbacks, then the continuation under the
discipline's lock (`Continue`, `ContinueStore`, `ContinueTrunc`) and the update
under the entry's lock (`Update`, `Choose`, `Put`). Each load and store of the
size is a step, as the compiler emits them without optimization
(`buildconf.mk:57`), because under all disciplines but one nothing
protects the continuation from the other calls.

## 3. What is checked

| run | instance | properties | shows |
|---|---|---|---|
| `life_locked` | 3 threads, 2 names, 3 entries, 1 handle; all calls but unlink and link; failing callbacks | `TypeOK` `RefCountExact` `LinkCountExact` `NoUseAfterFree` `DestroyAlone` `CallbackPinned` `IdleHoldsNothing` `NoCircularWait` `GarbageUnreachable` `ImplementsEntryLife` | the reference protocol is right whenever an entry is detached under its own lock |
| `life_pair` | 2 threads, 2 names, 2 entries, 1 handle, under `FairSpec`; every call, every fault, the leaking ones included; unlink and link only while the other thread is outside the library (`Alone`) | `RefCountCovers` `LinkCountExact` `NoUseAfterFree` `CallsReturn` `UnlinkedReclaimed` | leaks never make a count too small; every call returns; an entry without a name is freed unless something refers to it |
| `life_unlink_race` | 2 threads, 1 name, 1 entry | `DetachedInaccessible`, violated | finding 1 |
| `life_link_deadlock` | 2 threads, 2 names, 1 entry | `NoCircularWait`, violated | finding 2 |
| `ns_tree` | the root and 3 entries, 2 names, each entry open once at most, `num_children` off by one at most | `TypeOK` `LinkCountExact` `TreeShape` `NothingLost` `NeverOvercounted` `FullDirectoriesStay` `ImplementsFileTree` | without the calls of `AllHazards` the tree, its counts and what an application sees of it are right |
| `ns_loop` | the same, with the calls of `"subtree"` | `TreeShape`, violated | finding 3 |
| `detach` | 3 directories in every shape, 2 files, one to be created meanwhile; one failure; every initial state of handles and links | `TypeOK` `EachLinkDetachedOnce` `QueueAlive` `GarbageEmpty` `NothingLeft` `Terminates` | called again as documented after memory ran out once, the detach loses nothing but what it says, touches nothing freed, and ends |
| `detach_retry` | the same, retried as `fskit_detach_all` does | `EachLinkDetachedOnce`, violated | finding 4 |
| `routes` | each type alone, and two pairs of types that lock differently; 2 threads, 1 path, 2 entries, 2 slots, calls nested twice | `TypeOK` `RunsFirstMatch` `Serialized` `NoCircularWait` `CallsReturn` | whatever callbacks call, the first match runs and stays it; until a call breaks the rule for callbacks, those that exclude each other do not overlap, nobody waits in a circle, and every call returns |
| `cursor` | 4 names, one of them a dot entry; reads of 1, 2 or all | `TypeOK` `NothingTwice` `NothingMissed` `ReadingEnds` | what a reader may rely on while the directory changes |
| `cursor_seek` | 3 names | `SeekReturns`, violated | finding 5 |
| `filedata` | 2 threads, ends 0..2, sizes -3..3, `Wrap` = 2, all disciplines | `TypeOK` `SizeCoversData` `NoOvershoot` | where the route locks the inode, the size fits the data |

The properties:

- `RefCountExact`: `open_count` equals the open handles plus the calls in
  progress that own a reference. None is leaked, none dropped twice. Where
  failing calls do leak (see below) the weaker `RefCountCovers` remains.
- `LinkCountExact`: `link_count` equals the number of names, through renames,
  links that are undone, and garbage collection.
- `NoUseAfterFree`: no name, handle or local of a call points to freed memory.
- `DestroyAlone`: while the destroy callback runs on an unlocked entry, no
  name, handle or other call can reach it.
- `CallbackPinned`: callbacks other than detach and destroy run on entries that
  are linked or referenced (`fskit_route_enter` ends the process otherwise).
- `IdleHoldsNothing`: no path out of a call forgets a lock.
- `NoCircularWait`: no set of threads waits only for its own members.
- `GarbageUnreachable` (an action property): a tagged entry gains no reference
  but its destroyer's.
- `CallsReturn`, `UnlinkedReclaimed` (liveness): every call comes to its end; an entry whose last name
  is gone is freed, unless a handle, a call or a leaked reference keeps it.
- `ImplementsEntryLife`: the whole as a refinement. In particular a live entry always has a
  name or a holder, and nobody finds an entry that is being destroyed.
- `TreeShape`: a directory has one name, ".." leads to where it is, and going
  down never leads back up.
- `NothingLost`: whatever is allocated can be reached by name or is open.
- `NeverOvercounted`: an empty directory is never refused as full. (The other
  direction fails: `Collect` makes the count too small.)
- `FullDirectoriesStay`: nothing but a recursive detach takes a directory away
  with its contents.
- `ImplementsFileTree`: the visible tree changes as a tree of names would.
- `EachLinkDetachedOnce`: `link_count` equals the names that are left plus the
  entry's places in the queue; so each place stands for one link to take away.
- `QueueAlive`: nothing in the queue, or in a directory, has been freed.
- `GarbageEmpty`: nobody puts anything into a directory that has been emptied.
- `NothingLeft`, `Terminates`: when the call returns, only what is open or has a
  name outside is left; and it does return, if memory runs out at most `MaxFaults` times and the
  caller goes on with NULL. `fskit_detach_all` itself loops for as long as there is no
  memory (`entry.c:793-804`).
- `RunsFirstMatch`: while a call is in progress its route stays declared and
  stays the first that matches.
- `Serialized`: as long as no call has broken the rule for callbacks, two callbacks do not overlap, not even in one thread, if they are of one
  `sequential` route, or on one entry that one of them has for itself, by its discipline
  (`route.h:59-62`) or because its caller has locked it.
- `NothingTwice`, `ReadingEnds`: no read returns again what an earlier one returned, and a reader
  reaches the end. Both are about reads between two seeks or rewinds, or speak of readers that do
  not rewind for ever; that a seek goes back is `SeekReturns`, which is false.
- `NothingMissed`: what stayed in the directory has been returned at the end, but for what the cursor
  jumped over: the entry after one that was removed, what a failing callback was given, the first entry if the
  first read had no memory, and what lies behind the cursor after a seek or a rewind
  (everything, if the handle was at its end).
- `SizeCoversData`, `NoOvershoot`: when all calls have returned the size lies
  between the data and what was asked for. Both are about routes that
  write-lock the inode, as the continuation expects (`write.c:29`); with the
  other disciplines the model, like the code, loses updates.

**Bounds.** `Threads`, `Names`, `Handles` bound what exists at once. `Inodes`
bounds creations, since an entry is never reused: a creation is only enabled
while an unused entry is left. `MaxLeaks` bounds the references that failing
calls leak on one entry. Three threads are needed for a rename, a close and a
third call that holds a reference to meet on one entry; two names for rename
and link; three entries for a rename over an entry while a third takes a freed
name. One handle is enough there, since the calls in progress hold references
too.

`life_pair` has every call. Two threads that both unlink or link next to other calls reach
the races of findings 1 and 2, so its action constraint `Alone` lets such a call begin only while the other
thread is outside the library, and keeps that thread out until it has returned. It refuses steps that begin a
call and no others, and these have no fairness: what fairness asks for is never cut off.
It has two threads, since `Continue` of a third could keep the root's lock shared for
ever between two overlapping readers, which a real rwlock also permits to starve a
writer. `MaxLeaks` is 1 there: one leaked reference is enough to keep an entry for ever.

`ns_tree` reuses freed entries, so that its runs are unbounded in length; three
entries below the root allow a directory in a directory with something in it, a
rename over an entry, and a file with two names in different directories.
`MaxSlip` bounds the drift of `num_children`, which otherwise grows with every
garbage name that is replaced. `detach` starts from every tree of three
directories with a file under any set of names, open or not; one failure is
enough for a retry to meet every state of the queue. `routes`
needs two slots for an order and a hole, depth two for a call within a
callback, and two entries for two threads to wait for each other; rows looked at together have the
two slots between them. One path is enough for calls to match or not, since a route may be missing. `None` stands
for the entry of a stat that has none. What more slots, paths, types and deeper calls could add is
left to the proofs, which bound none of them. In `cursor` four names leave room before, between and after the cursor. In
`filedata`, additions of stale values drive the size up and down without end, so
`CONSTRAINT SizeBounded` stops exploring where it leaves -3..3; the states
outside are still checked, and with inode-locking routes no run leaves the range at all.
`Wrap` = 2 stands for 2^32 and makes the narrow comparison of `write.c:92` wrap
at the largest end of a write.

**Fairness.** `FairSpec` has strong fairness on `Continue(t)` for each thread:
user callbacks return, and a lock that becomes free again and again is granted
at some point. Strong rather than weak, because a lock another thread takes and
releases makes the action enabled only from time to time; that is what a mutex
that does not starve its waiters gives. Entering a call has no fairness.

The other liveness properties assume the same of locks and callbacks and nothing
of callers. `detach`: strong fairness of the detaching thread, which waits for one
lock at a time, and weak fairness of the other thread's giving its lock back.
`routes`: strong fairness of `Proceed`, the library's part of a call, and a callback
that may call again returns after finitely many calls (strong fairness of `Leave`
at each depth below the greatest). `cursor`: the reader reads on, memory is
there again and again, and callbacks return; `ReadingEnds` excludes readers that rewind for ever.

**Deadlock** is checked in every run but the two of `DetachQueue`, which stop
when the call has returned and the others have nothing left to do, and `routes`, where
callbacks that break the rule may block each other for ever. `Miss` of `InodeLife` (a lookup that finds nothing) is
the only step that changes nothing; it needs the root's lock to be available.

## 4. What is proved

TLAPS proves every invariant of every passing run (those of `life_pair` for calls other than unlink), the two action properties that hold and
the two refinements, for all values of the constants that the assumptions
of the modules admit: any number of threads, names, entries, handles, routes,
paths, and any depth of directories or of nested calls. The assumptions
(`ConstantsAssumption`, `NamespaceAssumption`, `DetachAssumption`,
`RoutesAssumption`, `CursorAssumption`, `FileAssumption`) say that what is
counted is finite, that `None` and the special values are not entries, and that
bounds are numbers. The theorem modules have the same shape: a section of lemmas
about the operators, the inductive invariant `IInv`, the kinds of steps, one
step per action, and the theorems.

Two facts are used throughout. The provers cannot instantiate the library's induction rule,
so that what a recursive function computes is derived from a smallest
counterexample: a set of numbers has a least element (`Least`, `FirstSlot`, by
the well-foundedness of `StrictSubsetOrdering`), and a set that contains zero
and is closed under successor is everything (`CountUp`). And since counters
stand for sets, each action changes one set by one element and the counter by one.

### InodeLife

| theorem | establishes | assuming |
|---|---|---|
| `Invariance` | `[]IInv` | `LockedRemovals` |
| `TypeCorrect` | `[]TypeOK`: no count is ever negative, and the `exit(1)` branches of try_destroy are unreachable | " |
| `NeverUsedAfterFree` | `[]NoUseAfterFree` | " |
| `LinksCounted` | `[]LinkCountExact` | " |
| `ReferencesCovered` | `[]RefCountCovers` | " |
| `ReferencesCounted` | `[]RefCountExact` | " and `CannotLeak` |
| `DestroyedAlone` | `[]DestroyAlone` | `LockedRemovals` |
| `CallbacksPinned` | `[]CallbackPinned` | " |
| `NothingHeldWhenIdle` | `[]IdleHoldsNothing` | " |
| `NoDeadlock` | `[]NoCircularWait` | " and `NoUpwardLocks` |
| `GarbageGainsNothing` | `GarbageUnreachable` | `LockedRemovals` |
| `Refinement` | `ImplementsEntryLife` | " and `CannotLeak` |

The assumptions are on the calls that threads make, and each is needed.
`LockedRemovals` excludes unlink, which detaches without the entry's lock:
finding 1 is a counterexample without it. `NoUpwardLocks` excludes link:
finding 2. All other theorems allow link. `CannotLeak` excludes the two faults
after which the code returns without dropping its reference.

The properties are not inductive: that a count is right after a step says
nothing of where the other threads are. `IInv` adds `Shape`, which says, for
each position of a thread in the code,

- which locks it holds (`RootLocked`, `EntriesLocked`);
- what its locals mean: the entry it works on is still the one its name
  argument leads to (`FrameOK`), its handle is its own (`HandlesOK`);
- that an entry being made or destroyed is known to that thread alone
  (`PrivateOK`).

The argument is in two halves. A thread that knows an entry without owning a
reference (`NamedPcs`) holds the root's lock, so the name that keeps the entry
alive cannot be taken away. A thread that owns a reference is in `Refs`, so
`open_count` is not zero and nobody else destroys the entry. What try_destroy
needs, that both counts at zero mean nobody is left (`CountFacts`), follows from
the counts being exact for names and covering for references; each action
changes one set by one element and the count by one (`CardinalityChange`).
`InodeLife_proofs` has one lemma for each action that both moves a count and may
destroy, and one step per action elsewhere. `NoDeadlock` rests on
`WaitChainsShort`: a thread somebody waits for waits for nobody.

`Refinement` sorts the actions into four kinds of steps: a thread's step leaves
every entry's phase alone (`Calm`), takes the last name or reference of the entry that
the thread then destroys (`Dooms`), frees what it destroyed or could not make (`Frees`),
or makes an entry. Each kind is a step of `EntryLife` at every entry. What `IInv`
lacks for that is `LiveUsed`: an entry that is alive has a count
above zero, its destroyer's included, so that the step which takes a count to
zero is the step that decides to destroy.

### Namespace

| theorem | establishes | assuming |
|---|---|---|
| `Invariance` | `[]IInv` | `Hazardous = {}` |
| `TypeCorrect` | `[]TypeOK`: links and opens are never negative | " |
| `LinksCounted` | `[]LinkCountExact` | " |
| `ChildrenCounted` | `[]NeverOvercounted` | " |
| `DirectoriesAreATree` | `[]TreeShape` | " |
| `NothingIsLost` | `[]NothingLost` | " |
| `FullDirectoriesAreKept` | `FullDirectoriesStay` | " |
| `Refinement` (`NamespaceView_proofs`) | `ImplementsFileTree` | " |

Callers make none of the calls of `AllHazards`, the assumption of `ns_tree`.
`IInv` is `Good(node, {})`. `TreeShape` and `NothingLost` speak of what can be
reached, which no single name or counter tells; `Good` says the same locally:

- `Acyclic`: every set of entries has one that none of them contains. It
  holds in every tree and fails on every cycle, and a call adds a name below an entry only where
  `RenameAvoided`, or the entry being new or a file, excludes the only cycle that could
  arise (`AcyclicMore`). Together with `OneName` it gives `TreeShape`; and an
  entry that has a name but cannot be reached would have a parent that cannot be reached, and so
  on: a set that `Acyclic` contradicts unless one of them has no name
  (`NamedIsReachable`).
- `Orphans`, `Opened`: what has no name is empty, and open. So nothing is lost
  with it.
- `Proper`, `Blank`: names lead from directories that are not garbage to entries
  that are there, and never to the root; free memory is blank.

Calls are compositions of `Attach`, `Detach` and `TryDestroy`, and the invariant
does not hold between the pieces: a detached entry has no name and is
not open until it is destroyed or attached again. `Good(N, X)` therefore
exempts a set `X` of entries from the last two conjuncts; one lemma says of each piece
what it does to `Good` and `X` (`DetachGood`, `AttachGood`, `TryDestroyGood`,
`SweepGood`, `CollectGood`, `CreateGood`, `EmptiedGood`), and one lemma per
call composes them. `ClosureLeast` shows that `Closure` is the least closed set, by
counting: a walk that still grows after as many rounds as there
are entries would have more members than entries.

`Refinement` needs no invariant but `IInv`. An entry shows if it is not garbage
and has a name or is the root; `ShownFacts` and `ShownReached` derive from `Good` that
these are exactly the entries that paths through visible names lead to, which is
how `FileTree` says it: after each change it drops what can no longer be reached
(`BecomeWithout`). `FromLeast` makes `From` the least such set, by the same count
as `ClosureLeast`. A step of `FileTree` is then found without computing any closure: it
is enough that its tree says of every entry that still shows what the code's
tables say (`Agrees`, `Becomes`). Each call has one lemma (`SeenMake` ... `SeenPrune`) that
names its step:

| call | step of `FileTree` |
|---|---|
| mkdir, mknod, creation, symlink | `Add` |
| a creation that is refused; open, close; garbage collected or removed | none |
| link | `Link` |
| unlink, rmdir | `Remove`, or none for a name of garbage |
| rename, rename in a directory | `Move`; `Remove` of the target when garbage is moved over it; none when garbage is moved over nothing or over garbage |
| detach_all | `Prune` |
| core destroyed and initialized again | `Renew` |

The lemmas about the pieces say for this purpose which names each call changes
(`Renamed`, `Moved`, `Pruned`) and that no entry which keeps a name gains or
loses its mark as garbage (`SameMarks`).

### DetachQueue

| theorem | establishes | assuming |
|---|---|---|
| `Invariance` | `[]IInv` | `RetryWith = "null"` |
| `TypeCorrect` | `[]TypeOK` | " |
| `DetachedOnce` | `[]EachLinkDetachedOnce` | " |
| `QueueIsAlive` | `[]QueueAlive` | " |
| `GarbageIsEmpty` | `[]GarbageEmpty` | " |
| `NothingIsLeft` | `[]NothingLeft` | " |

The assumption is the documented way to go on after -ENOMEM; with
the other one `DetachedOnce` is false (finding 4). `EachLinkDetachedOnce` is an
equation between a counter and where its links are; for it to stay true when the
head of the queue is dropped, an entry must not be freed while a place in the
queue names it (`GoneForGood`, `Counted`), the other thread must not
put anything into a directory whose children have been queued (`Walking`,
`GarbageEmpty`), and children are queued at most once (`Stages`). `NothingLeft` then
needs `Tree`: below the top no set of directories keeps itself alive, since each set has a
member whose parent is outside. The initial states say so in the same words, instead of
following parents upwards.

### Routes

| theorem | establishes | assuming |
|---|---|---|
| `TableInvariance` | `[]TableInv` | |
| `TypeCorrect` | `[]TypeOK` | |
| `FirstMatchRuns` | `[]RunsFirstMatch` | |
| `Invariance` | `[](TableInv /\ (rule = "kept" => RuleInv))` | |
| `CallbacksSerialized` | `[]Serialized` | |
| `NobodyWaitsInCircles` | `[]NoCircularWait` | |

Nothing is assumed of callbacks. `TableInv` says that each call which has its
route has the first that matches (the table does not change while there is such a call), and
which rows and calls there can be. The properties of the other three speak of behaviours in which no call has
broken the rule so far; what they prove is that the rule is enough: within it the locks
which the code takes serialize what they should, whatever routes, entries and threads meet.

`RuleInv` says what the rule makes of the stacks: each call holds the locks of its stage, none of which
has been lost (`LocksExact`); locks of different calls do not conflict, even in one thread (`LocksApart`);
and what a call asks for comes after whatever its thread holds, or will be refused (`Ordered`, `Asked`). `Serialized`
follows from `LocksApart`. For `NoCircularWait`, take of the threads in a circle one that waits for a lock
of the highest `Rank`: whoever holds that lock waits, too, and for a higher one (`Blocking`). The case that an order alone
does not cover is the shared lock of a route, which may be held while a lower one is asked for: such a route
is `concurrent`, and nobody waits for it.

### DirCursor and FileData

| module | theorem | establishes |
|---|---|---|
| `DirCursor` | `Invariance` | `[]IInv` |
| | `TypeCorrect` | `[]TypeOK` |
| | `ReadsAscend` | `[]NothingTwice` |
| | `ReadsComplete` | `[]NothingMissed` |
| `FileData` | `Invariance` | `[]IInv` |
| | `TypeCorrect` | `[]TypeOK` |
| | `SizeCovers` | `[]SizeCoversData` |
| | `NeverOvershoots` | `[]NoOvershoot` |

A directory's names are any numbers. `BehindCursor` bounds what has been read by the cursor: an entry
that was there all the time and is not behind the cursor has yet to come,
which nothing in `NothingMissed` itself says before the end is reached; `AtEnd` says that `eof`
stays true. `NothingMissed` allows for what the code jumps over, and the theorem with it.

In `FileData` the properties speak of quiet states only. `Pending(t)` says, for each position
of a thread in a write or a truncation, what the size will be once
its steps under the same lock are done; `Exclusion` that one thread at a time is
there. It holds because the disciplines of the properties' hypothesis lock the
inode, and the update afterwards locks the entry. The narrow comparison is harmless
for every `Wrap`, since a remainder is at most what is divided (`GrowsSound`).

### What is only model-checked

- Liveness (`CallsReturn` of both modules, `UnlinkedReclaimed`, `Terminates`, `ReadingEnds`): the
  prover has no rules for fairness and ENABLED.
- Whatever involves unlink, or a caller that makes a
  call of `AllHazards`: the properties are false then (findings 1 and 3), or, for unlink,
  hold while no other thread is in the library (`life_pair`).

## 5. Findings

1. **unlink uses an entry that another thread may free** (`life_unlink_race`).
   `fskit_unlink` detaches the entry and runs the detach callback without its
   lock and without a reference (`unlink.c:91-110`). A close of the last handle
   in between finds both counts zero, destroys and frees the entry; unlink then
   locks freed memory. `entry.c:336` asks that the child be "write-locked, or
   otherwise inaccessible". rmdir locks first.
2. **link can deadlock with any call that resolves a path**
   (`life_link_deadlock`). It keeps the source locked while it waits for the
   target's parent (`link.c:79-92`); `entry.c:613-615` says that parents are
   locked before children "to avoid deadlock".
3. **rename can move a directory below itself** (`ns_loop`). The loop check
   runs only when the target exists (`rename.c:387`), and the inode numbers it looks
   for are never recorded (`rename.c:44-63`, `88-113`): every existing target
   in another directory is refused with -EINVAL and every free one is accepted,
   against `rename.c:141-142` and `388`. The directory becomes its own ancestor and
   is lost.
4. **detach_all queues children twice after -ENOMEM** (`detach_retry`). It calls
   `fskit_detach_all_ex` again with the same set (`entry.c:797-808`), from which
   the first call has removed nothing (`entry.c:585-593` looks for the names of
   parents); `entry.c:608-610` asks for NULL. The second turn of an entry takes
   away a link it does not have, or uses it after it was freed.
5. **seekdir does not go back** (`cursor_seek`). It looks for the handle's cursor, not for the name that
   telldir stored (`readdir.c:401-411`), against `readdir.c:393` and `419`.

What the models contain as behaviour, or leave out by name, without a statement
to hold against it or a run of its own:

- A failing truncation right after O_CREAT (`open.c:347`) and a failing handle
  allocation (`open.c:381`) return without dropping the open's reference, so that
  the entry can never be freed (`MaxLeaks`). A rename callback that answers -ENOENT leaves
  the entry locked (`rename.c:436`, not modelled).
- Of the calls of `AllHazards` only `"subtree"` has a run (finding 3). The others:
  - `"unlinkdir"`: unlink does not look at the type, and the detach refuses a directory only if it counts more than two
    children (`entry.c:353`), although "." and ".." are not counted: a directory with one or two entries is removed with
    them, against `entry.c:352`. `FullDirectoriesStay` does not hold with these calls.
  - `"bigdir"`: the same limit makes the detach of a directory with three entries fail, which rename does not look at
    (`rename.c:461`): the directory is then under two names. No run has the three names that this needs.
  - `"miscounted"`: collecting a garbage name decrements `num_children` twice (`entry.c:370` and `1333`), and
    rename takes the count for the number of entries (`rename.c:381`): a directory that is not empty is replaced.
  - `"replacein"`: `fskit_entry_rename_in_directory` drops neither the link nor the count of
    what it replaces (`rename.c:207`); no call of the library uses it.
- A call by path after a detach of the root dereferences NULL (`fskit_core_resolve_root` returns it, `entry.c:902`;
  `path.c:325`): `NullRoot`. A match that walks over the hole of an undeclared route does so, too (`route.c:441`):
  `NullRoute`. The process has died; no property is about the step.
- `fskit_detach_all` does not return while there is no memory (`entry.c:793-804`).
- symlink refuses a name that is garbage where the other creations collect it.
- After -ENOMEM in the middle of a directory, the children that did not reach the
  queue are in no directory any more (`lost`). The context's tail keeps pointing to
  the entry freed last. With FSKIT_DETACH_CTX_CB_FAIL a failing callback leaves a
  freed entry at the queue's head.
- A later declaration fills the hole of an undeclared route, before older routes. A callback
  that declares a route waits for itself. A call skipped because of EDEADLK returns
  whatever errno was before. Callbacks that call again can overlap or wait for ever
  ([the rule for callbacks](#routes)).
- A cursor whose entry was removed skips the next one; a first read without memory skips the first
  (`readdir.c:339`). rewinddir makes the first entry the one that was read last, so that it is skipped, and leaves the handle at its
  end if it was there (`readdir.c:462`, against `454`). readdir changes the handle with its lock held
  for reading (`readdir.c:532`; the function it calls wants it for writing, `readdir.c:312`).
  seekdir and rewinddir walk the children without the directory's lock.
- A write that its callback cuts short still moves the size to the end that was asked for
  (`write.c:92`); `NoOvershoot` measures against that end, so it does not show.
- fskit_trunc overwrites the callback's error with the result of dropping its
  reference (`trunc.c:135`).
- Read only, not modelled: fskit_removexattr without a route returns 0 and
  removes nothing (`removexattr.c:41-43`, against the comment at `27-28`);
  XATTR_REPLACE on an entry without attributes creates one (`entry.c:1774`); replacing frees
  the old value before it allocates the new one (`entry.c:1794`).

## 6. What is not modelled

- Locks below the root: no module interleaves calls in nested directories, except
  the recursive detach. Races that need a removable parent (`open.c:185`), the order in
  which rename locks two parents (`rename.c:253`), and the parent that listing ".." locks
  (`readdir.c:210`) are left to `PathLocks`. The path iterator (`fskit_path_begin` ...)
  belongs there too.
- Consistency disciplines in `InodeLife`: callbacks of different calls
  overlap freely there, a superset of what `Routes` permits.
- Calls of `Routes` that lock more than one entry: the ancestors that a path resolution locks
  one after the other, the parents and the replaced entry of a rename, and calls that are given
  an entry instead of a path or a handle (`fskit_fsetxattr`). Callbacks that declare routes. What
  a call does that unlocks an entry which another call of its thread has unlocked already: that is
  undefined, and the call stops there.
- What happens when seekdir or rewinddir race with changes of the directory.
- Regular expressions (a route's expression is the set of paths it matches) and
  the arguments that each type passes to its callback.
- A rename callback that returns -ENOENT: by the code it has dealt with the
  entry, and what it did is the application's.
- Extended attribute sets: maps changed in one step under the entry's lock; only
  their locks and routes are in `Routes`.
- chmod, chown, utime, readlink, statvfs and access assign or read fields under
  the entry's lock; permission bits decide only whether a call goes on, and
  every call may be refused.
- One handle shared by several threads; inodes numbered by the application.
- `fskit_core_destroy` itself, which takes the caller's word that no call is in
  progress.
- sglib (vendored containers, used here as sets and maps), the FUSE binding (a
  translation of arguments without state), the REPL (a test driver), demo,
  packaging, logging and random numbers.
- Memory exhaustion other than of handles and in the recursive detach, on paths
  where the code returns before it has changed anything.

## 7. Plan

Done: `InodeLife`, `EntryLife`, `Namespace`, `FileTree`, `DetachQueue`, `Routes`,
`DirCursor`, `FileData`, and the proofs of all their safety properties and of both
refinements. Next, in this order:

1. **`PathLocks`**: lock coupling over several levels with removable parents:
   rename's deeper-first order, rename into itself, open's unlocked parent, the
   path iterator.
2. **`Xattrs`** and permissions: operators against reference definitions.
