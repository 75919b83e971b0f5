---------------------------- MODULE WatchThreads ----------------------------
(***************************************************************************)
(* The detached threads of inotify.c: the recursive watch of a tree, the   *)
(* destruction of a root, and the cleanup of rogue watches.                *)
(***************************************************************************)
EXTENDS InotifyState

-----------------------------------------------------------------------------
(* _do_watch_tree() and _do_watch_tree_rec().  The recursion is kept as    *)
(* the set of paths still to visit; the deepest of them are the entries of *)
(* the directory whose loop is running, the others those of its callers.   *)

Top(S) == {p \in S : \A q \in S : Len(q) <= Len(p)}

(* Slip: entries whose d_type is DT_UNKNOWN are not descended into.        *)
KnownTypesOnly(p) == {}

Children(p) == {d \in dirs : d # Slash /\ Parent(d) = p}

(* The return from one _do_watch_tree_rec() into its caller's loop.        *)
WalkOn(w) == walker' = [walker EXCEPT ![w].pc = "loop"]

WalkerStart(w) ==
    LET a == walker[w].root
        tooShort == Len(walker[w].path) < Len(heap[a].path)
    IN /\ walker[w].pc = "start"
       /\ \E destroy \in DestroyReads(a) :
            IF destroy \/ tooShort
            THEN /\ walker' = [walker EXCEPT ![w] = IdleWalker]
                 /\ UNCHANGED IN_ROOT_REWATCH
            ELSE /\ walker' = [walker EXCEPT ![w].pc = "visit"]
                 /\ IN_ROOT_REWATCH' = (IN_ROOT_REWATCH \/ walker[w].cleanup)
       /\ alive' \in {TRUE, Live(a)}
       /\ UNCHANGED <<kernelVars, tableVars, rootVars, destroyer, cleaner,
                      boundVars, IN_MEMCLEAN, dump, main, batch, reply>>

(* In cleanup mode a path that is in the table ends the descent.           *)
CleanupStops(w) ==
    /\ walker[w].cleanup
    /\ walker[w].path \in Key
    /\ inotify_path_to_watch[walker[w].path] # 0

(* Slip: a root under destruction does not end the visit.                  *)
VisitIgnoresDestroy(w, destroy) ==
    \/ IsTmp(walker[w].path)
    \/ CleanupStops(w)
    \/ Resolve(walker[w].path) \notin dirs

(* The checks that end a visit before inotify_add_watch().                 *)
VisitBails(w, destroy) ==
    \/ IsTmp(walker[w].path)
    \/ destroy
    \/ CleanupStops(w)
    \/ Resolve(walker[w].path) \notin dirs

(* Slip: the path is looked up where the descriptor should be.             *)
RecordByPath(p, wd) ==
    IF inotify_path_to_watch[p] # 0
    THEN UNCHANGED tableVars
    ELSE /\ inotify_wd_to_watch' = [inotify_wd_to_watch EXCEPT ![wd] = p]
         /\ inotify_path_to_watch' = [inotify_path_to_watch EXCEPT ![p] = wd]

(* The Watch enters both tables unless its descriptor is there already.    *)
RecordWatch(p, wd) ==
    IF inotify_wd_to_watch[wd] # NoPath
    THEN UNCHANGED tableVars
    ELSE /\ inotify_wd_to_watch' = [inotify_wd_to_watch EXCEPT ![wd] = p]
         /\ inotify_path_to_watch' = [inotify_path_to_watch EXCEPT ![p] = wd]

WalkerVisit(w) ==
    LET p == walker[w].path
        d == Resolve(p)
        a == walker[w].root
    IN /\ walker[w].pc = "visit"
       /\ \E destroy \in DestroyReads(a) :
            \/ /\ VisitBails(w, destroy) \/ AddWatchFails(d)
               /\ WalkOn(w)
               /\ UNCHANGED <<kwatch, nextWd, tableVars>>
            \/ /\ ~VisitBails(w, destroy)
               /\ ~AddWatchFails(d)
               /\ AddWatch(d, heap[a].mask)
               /\ RecordWatch(p, WdFor(d))
               /\ walker' = [walker EXCEPT ![w].pc =
                               IF WatchLive(WdFor(d)) THEN "loop" ELSE "list"]
       /\ UNCHANGED <<dirs, kq, fsOps, rootVars, flagVars, destroyer, cleaner,
                      boundVars, dump, alive, main, batch, reply>>

(* The second opendir() and the readdir() loop over its entries.           *)
WalkerList(w) ==
    /\ walker[w].pc = "list"
    /\ walker' = [walker EXCEPT ![w].pc = "loop",
                                ![w].todo = @ \union Children(walker[w].path)]
    /\ UNCHANGED <<kernelVars, tableVars, rootVars, flagVars, destroyer, cleaner,
                   boundVars, dump, alive, main, batch, reply>>

WalkerLoop(w) ==
    LET entries == Top(walker[w].todo)
    IN /\ walker[w].pc = "loop"
       /\ entries # {}
       /\ \E destroy \in DestroyReads(walker[w].root) :
            \/ /\ destroy
               /\ walker' = [walker EXCEPT ![w].todo = @ \ entries]
            \/ /\ ~destroy
               /\ \E p \in entries :
                    walker' = [walker EXCEPT ![w].pc = "visit", ![w].path = p,
                                             ![w].todo = @ \ {p}]
       /\ UNCHANGED <<kernelVars, tableVars, rootVars, flagVars, destroyer, cleaner,
                      boundVars, dump, alive, main, batch, reply>>

WalkerEnd(w) ==
    /\ walker[w].pc = "loop"
    /\ walker[w].todo = {}
    /\ walker' = [walker EXCEPT ![w] = IdleWalker]
    /\ IN_ROOT_REWATCH' = (IN_ROOT_REWATCH /\ ~walker[w].cleanup)
    /\ UNCHANGED <<kernelVars, tableVars, rootVars, destroyer, cleaner, boundVars,
                   IN_MEMCLEAN, dump, alive, main, batch, reply>>

WalkerStep(w) ==
    /\ alive
    /\ \/ WalkerStart(w) \/ WalkerVisit(w) \/ WalkerList(w)
       \/ WalkerLoop(w) \/ WalkerEnd(w)

-----------------------------------------------------------------------------
(* _destroy_root().  The keys of inotify_path_to_watch are listed once and *)
(* then taken one by one, the lock being released in between.              *)

(* The listed keys that start with the root's path and a slash.            *)
SubPaths(root_path) == {e \in Entries : Below(e.path, root_path)}

NoDestroyer == [pc |-> "none", todo |-> {}, at |-> NULL]

DestroyBegin(a) ==
    /\ destroyer[a].pc = "begin"
    /\ heap' = [heap EXCEPT ![a].queue = <<>>]
    /\ destroyer' = [destroyer EXCEPT
          ![a].pc = "scan",
          ![a].todo = SubPaths(heap[a].path)]
    /\ UNCHANGED <<kernelVars, tableVars, inotify_roots,
                   inotify_num_watched_roots, flagVars, walker, cleaner,
                   boundVars, dump, alive, main, batch, reply>>

(* The next key: passed over, or its Watch is kept for the steps below.    *)
DestroyScan(a) ==
    /\ destroyer[a].pc = "scan"
    /\ \E e \in destroyer[a].todo :
         LET wd == inotify_path_to_watch[e.path]
         IN \/ /\ wd = 0 \/ KeyFreed(e)
               /\ destroyer' = [destroyer EXCEPT ![a].todo = @ \ {e}]
            \/ /\ wd # 0
               /\ destroyer' = [destroyer EXCEPT
                     ![a].pc = "unwatch",
                     ![a].todo = @ \ {e},
                     ![a].at = [path |-> e.path, wd |-> wd]]
    /\ UNCHANGED <<kernelVars, tableVars, rootVars, flagVars, walker, cleaner,
                   boundVars, dump, alive, main, batch, reply>>

(* Slip: the kernel is not told.                                           *)
DestroyForgets(a) ==
    /\ destroyer[a].pc = "unwatch"
    /\ alive' \in {TRUE, WatchLive(destroyer[a].at.wd)}
    /\ destroyer' = [destroyer EXCEPT ![a].pc = "forget"]
    /\ UNCHANGED <<kernelVars, tableVars, rootVars, flagVars, walker,
                   cleaner, boundVars, dump, main, batch, reply>>

(* inotify_rm_watch(inotify_fd, watch->wd), without the lock.              *)
DestroyUnwatch(a) ==
    /\ destroyer[a].pc = "unwatch"
    /\ kwatch' = RmWatch({destroyer[a].at.wd})
    /\ alive' \in {TRUE, WatchLive(destroyer[a].at.wd)}
    /\ destroyer' = [destroyer EXCEPT ![a].pc = "forget"]
    /\ UNCHANGED <<dirs, nextWd, kq, fsOps, tableVars, rootVars, flagVars, walker,
                   cleaner, boundVars, dump, main, batch, reply>>

DestroyForget(a) ==
    /\ destroyer[a].pc = "forget"
    /\ Forget({destroyer[a].at})
    /\ alive' \in {TRUE, WatchLive(destroyer[a].at.wd)}
    /\ destroyer' = [destroyer EXCEPT ![a].pc = "scan", ![a].at = NULL]
    /\ UNCHANGED <<kernelVars, rootVars, flagVars, walker, cleaner, boundVars,
                   dump, main, batch, reply>>

(* What goes with the root: its own Watch leaves the tables, the kernel    *)
(* keeps watching the directory.                                           *)
RootEntry(a) == {e \in Entries : e.path = heap[a].path}

DestroyEnd(a) ==
    /\ destroyer[a].pc = "scan"
    /\ destroyer[a].todo = {}
    /\ Forget(RootEntry(a))
    /\ Unregister(heap[a].path)
    /\ destroyer' = [destroyer EXCEPT ![a].pc = "dump"]
    /\ UNCHANGED <<kernelVars, heap, flagVars, walker, cleaner, boundVars,
                   dump, alive, main, batch, reply>>

(* Slip: the thread ends without rewriting the dump file.                  *)
DestroyNoDump(a) ==
    /\ destroyer[a].pc = "dump"
    /\ destroyer' = [destroyer EXCEPT ![a] = NoDestroyer]
    /\ UNCHANGED <<kernelVars, tableVars, rootVars, flagVars, walker, cleaner,
                   boundVars, dump, alive, main, batch, reply>>

DestroyDump(a) ==
    /\ destroyer[a].pc = "dump"
    /\ DumpRoots
    /\ destroyer' = [destroyer EXCEPT ![a] = NoDestroyer]
    /\ UNCHANGED <<kernelVars, tableVars, rootVars, flagVars, walker, cleaner,
                   boundVars, main, batch, reply>>

DestroyerStep(a) ==
    /\ alive
    /\ \/ DestroyBegin(a) \/ DestroyScan(a) \/ DestroyUnwatch(a)
       \/ DestroyForget(a) \/ DestroyEnd(a) \/ DestroyDump(a)

-----------------------------------------------------------------------------
(* _inotify_memclean().  stat() runs without the lock, the removal with it.*)

IdleCleaner == [pc |-> "idle", todo |-> {}, path |-> NoPath]

MemcleanStart(c) ==
    /\ cleaner[c].pc = "start"
    /\ IN_MEMCLEAN' = TRUE
    /\ cleaner' = [cleaner EXCEPT ![c].pc = "snapshot"]
    /\ UNCHANGED <<kernelVars, tableVars, rootVars, IN_ROOT_REWATCH, walker,
                   destroyer, boundVars, dump, alive, main, batch, reply>>

MemcleanSnapshot(c) ==
    /\ cleaner[c].pc = "snapshot"
    /\ cleaner' = [cleaner EXCEPT ![c].pc = "scan", ![c].todo = Entries]
    /\ UNCHANGED <<kernelVars, tableVars, rootVars, flagVars, walker, destroyer,
                   boundVars, dump, alive, main, batch, reply>>

(* is_a_dir() *)
IsADir(p) == Resolve(p) \in dirs

MemcleanScan(c) ==
    /\ cleaner[c].pc = "scan"
    /\ \E e \in cleaner[c].todo :
         \/ /\ IsADir(e.path) \/ KeyFreed(e)
            /\ cleaner' = [cleaner EXCEPT ![c].todo = @ \ {e}]
         \/ /\ ~IsADir(e.path)
            /\ cleaner' = [cleaner EXCEPT ![c].pc = "remove",
                                          ![c].todo = @ \ {e},
                                          ![c].path = e.path]
    /\ UNCHANGED <<kernelVars, tableVars, rootVars, flagVars, walker, destroyer,
                   boundVars, dump, alive, main, batch, reply>>

(* Slip: the kernel is not told.                                           *)
MemcleanForgets(c) ==
    /\ cleaner[c].pc = "remove"
    /\ Forget({e \in Entries : e.path = cleaner[c].path})
    /\ cleaner' = [cleaner EXCEPT ![c].pc = "scan", ![c].path = NoPath]
    /\ UNCHANGED <<kernelVars, rootVars, flagVars, walker, destroyer,
                   boundVars, dump, alive, main, batch, reply>>

(* The Watch that goes is the one the table holds now, if any.             *)
MemcleanRemove(c) ==
    LET gone == {e \in Entries : e.path = cleaner[c].path}
    IN /\ cleaner[c].pc = "remove"
       /\ kwatch' = RmWatch({e.wd : e \in gone})
       /\ Forget(gone)
       /\ cleaner' = [cleaner EXCEPT ![c].pc = "scan", ![c].path = NoPath]
       /\ UNCHANGED <<dirs, nextWd, kq, fsOps, rootVars, flagVars, walker,
                      destroyer, boundVars, dump, alive, main, batch, reply>>

MemcleanEnd(c) ==
    /\ cleaner[c].pc = "scan"
    /\ cleaner[c].todo = {}
    /\ IN_MEMCLEAN' = FALSE
    /\ cleaner' = [cleaner EXCEPT ![c] = IdleCleaner]
    /\ UNCHANGED <<kernelVars, tableVars, rootVars, IN_ROOT_REWATCH, walker,
                   destroyer, boundVars, dump, alive, main, batch, reply>>

CleanerStep(c) ==
    /\ alive
    /\ \/ MemcleanStart(c) \/ MemcleanSnapshot(c) \/ MemcleanScan(c)
       \/ MemcleanRemove(c) \/ MemcleanEnd(c)

=============================================================================
