------------------------------- MODULE Kernel -------------------------------
(***************************************************************************)
(* The environment of the daemon, modelled from how inotify.c uses it: the *)
(* directory tree that other processes change at any time, and the Linux   *)
(* inotify instance behind inotify_fd.                                     *)
(*                                                                         *)
(* A watch belongs to a directory, not to a name: a rename carries it      *)
(* along, the removal of the directory drops it, and watch descriptors are *)
(* never given out twice.                                                  *)
(***************************************************************************)
EXTENDS Paths

CONSTANTS
    InitDirs,       \* the directories that exist when the daemon starts
    FileName,       \* the name of the regular files
    FsOps,          \* which operations other processes perform
    Stable,         \* directories they neither remove nor rename
    MaxFsOps,       \* bound: how many of them
    MaxWd,          \* bound: watch descriptors given out
    MaxWatches,     \* fs.inotify.max_user_watches
    MaxQueued       \* fs.inotify.max_queued_events

DirKinds == {"create", "delete", "moved_from", "moved_to"}
Kinds    == DirKinds \union {"file"}
Wd       == 1 .. MaxWd

ASSUME KernelAssumption ==
    /\ InitDirs \subseteq Path /\ Stable \subseteq Path
    /\ FileName \in Name
    /\ FsOps \subseteq {"mkdir", "rmdir", "rename", "write"}
    /\ MaxFsOps \in Nat /\ MaxWd \in Nat /\ MaxWatches \in Nat /\ MaxQueued \in Nat

VARIABLES
    dirs,           \* the directories on disk
    kwatch,         \* [wd, mask] of the watch on each directory
    nextWd,         \* the next fresh watch descriptor
    kq,             \* events queued in the kernel, oldest first
    fsOps           \* operations other processes have performed

kernelVars == <<dirs, kwatch, nextWd, kq, fsOps>>

NoWatch == [wd |-> 0, mask |-> {}]
KWatch  == [wd : 0 .. MaxWd, mask : SUBSET Kinds]
KEvent  == [wd : 0 .. MaxWd, kind : Kinds \union {"overflow"}, name : Name]

Overflow == [wd |-> 0, kind |-> "overflow", name |-> NoName]

KernelTypeOK ==
    /\ dirs \subseteq Path
    /\ kwatch \in [Path -> KWatch]
    /\ nextWd \in 1 .. MaxWd + 1
    /\ kq \in Seq(KEvent)
    /\ fsOps \in 0 .. MaxFsOps

KernelInit ==
    /\ dirs = InitDirs
    /\ kwatch = [p \in Path |-> NoWatch]
    /\ nextWd = 1
    /\ kq = <<>>
    /\ fsOps = 0

-----------------------------------------------------------------------------
(* The event queue: an event equal to the newest one is merged with it, a  *)
(* full queue takes one overflow event and then nothing more.              *)

Push(q, e) ==
    IF q # <<>> /\ Last(q) = e THEN q
    ELSE IF Len(q) < MaxQueued THEN Append(q, e)
    ELSE IF q # <<>> /\ Last(q) = Overflow THEN q
    ELSE Append(q, Overflow)

(* The watch on directory d, if there is one, hears of its entry n.        *)
Notify(q, d, kind, n) ==
    IF d \in Path /\ kwatch[d].wd # 0 /\ kind \in kwatch[d].mask
    THEN Push(q, [wd |-> kwatch[d].wd, kind |-> kind, name |-> n])
    ELSE q

(* inotify_add_watch(): the descriptor a directory has, or a fresh one.    *)
AddWatchFails(d) ==
    /\ d \in Path /\ kwatch[d].wd = 0
    /\ Cardinality({p \in Path : kwatch[p].wd # 0}) >= MaxWatches

WdFor(d) == IF kwatch[d].wd # 0 THEN kwatch[d].wd ELSE nextWd

AddWatch(d, mask) ==
    /\ WdFor(d) <= MaxWd
    /\ kwatch' = [kwatch EXCEPT ![d] = [wd |-> WdFor(d), mask |-> mask]]
    /\ nextWd' = IF kwatch[d].wd # 0 THEN nextWd ELSE nextWd + 1

(* inotify_rm_watch() for each descriptor in W; unknown ones are EINVAL.   *)
RmWatch(W) ==
    [p \in Path |-> IF kwatch[p].wd \in W THEN NoWatch ELSE kwatch[p]]

-----------------------------------------------------------------------------
(* Operations of other processes.                                          *)

Exists(d) == d \in dirs \/ d \notin Path

FsOp(op) ==
    /\ op \in FsOps
    /\ fsOps < MaxFsOps
    /\ fsOps' = fsOps + 1

Mkdir(p) ==
    /\ FsOp("mkdir")
    /\ p \notin dirs /\ p # Slash /\ Exists(Parent(p))
    /\ dirs' = dirs \union {p}
    /\ kq' = Notify(kq, Parent(p), "create", Last(p))
    /\ UNCHANGED <<kwatch, nextWd>>

Rmdir(p) ==
    /\ FsOp("rmdir")
    /\ p \in dirs /\ p # Slash /\ p \notin Stable
    /\ \A d \in dirs : Parent(d) # p
    /\ dirs' = dirs \ {p}
    /\ kwatch' = [kwatch EXCEPT ![p] = NoWatch]
    /\ kq' = Notify(kq, Parent(p), "delete", Last(p))
    /\ UNCHANGED nextWd

(* rename(2) of the tree at p; watches stay with their directories.        *)
Rename(p, q) ==
    LET sub     == {d \in dirs : d = p \/ Below(d, p)}
        to(d)   == q \o SubSeq(d, Len(p) + 1, Len(d))
        moved   == {to(d) : d \in sub}
    IN /\ FsOp("rename")
       /\ p \in dirs /\ p # Slash /\ sub \intersect Stable = {}
       /\ q \notin dirs /\ ~Below(q, p) /\ Exists(Parent(q))
       /\ moved \subseteq Path
       /\ dirs' = (dirs \ sub) \union moved
       /\ kwatch' = [d \in Path |-> IF d \in moved THEN kwatch[CHOOSE x \in sub : to(x) = d]
                                    ELSE IF d \in sub THEN NoWatch
                                    ELSE kwatch[d]]
       /\ kq' = Notify(Notify(kq, Parent(p), "moved_from", Last(p)),
                       Parent(q), "moved_to", Last(q))
       /\ UNCHANGED nextWd

(* A regular file in p is created, written or deleted.                     *)
WriteFile(p) ==
    /\ FsOp("write")
    /\ p \in dirs
    /\ kq' = Notify(kq, p, "file", FileName)
    /\ UNCHANGED <<dirs, kwatch, nextWd>>

FsStep ==
    \/ \E p \in Path : Mkdir(p) \/ Rmdir(p) \/ WriteFile(p)
    \/ \E p, q \in Path : Rename(p, q)

=============================================================================
