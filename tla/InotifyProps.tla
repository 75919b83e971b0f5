---------------------------- MODULE InotifyProps ----------------------------
(***************************************************************************)
(* What the event path of the daemon must guarantee.                       *)
(***************************************************************************)
EXTENDS Inotify

InTree(d, r) == d = r \/ Below(d, r) \/ r = Slash

(* Nothing is under way: no event waits, no thread runs.                   *)
Quiet ==
    /\ alive /\ main.pc = "poll" /\ kq = <<>>
    /\ \A w \in Walker : walker[w].pc = "idle"
    /\ \A a \in Addr : destroyer[a].pc = "none"
    /\ \A c \in Cleaner : cleaner[c].pc = "idle"

-----------------------------------------------------------------------------
(* The registry of roots.                                                  *)

(* The running tally that EVENT_get_roots() tests counts the roots in the  *)
(* hash table, whichever threads add and destroy them.                     *)
RootCount == inotify_num_watched_roots = Cardinality(Registered)

(* inotify_watch_tree() never lets one root lie inside another, although   *)
(* its checks and its insertion are separate critical sections.            *)
NoOverlap == \A r, s \in Registered : InTree(s, r) => r = s

(* The Root that inotify_handle_event() keeps across its unlocks is not    *)
(* being destroyed and still has its queue when the event is enqueued.     *)
EventRootLive ==
    main.pc \in {"dir", "enqueue"} =>
        QueueLive(main.root) /\ ~heap[main.root].destroy

(* roots.dump names exactly the roots to rewatch, unless a thread stands   *)
(* between its change of the registry and its inotify_dump_roots().        *)
DumpPending == main.pc = "watch_dump" \/ \E a \in Addr : destroyer[a].pc = "dump"
DumpFresh ==
    DumpPending \/
    dump = {p \in Registered : heap[inotify_roots[p]].rewatch}

(* A paused root holds no events once EVENT_pause() has flushed it.        *)
PausedQueueEmpty ==
    \A p \in Registered :
        \/ ~heap[inotify_roots[p]].pause
        \/ main.pc \in {"get", "dequeue"} /\ main.path = p
        \/ heap[inotify_roots[p]].queue = <<>>

(* When _destroy_root() ends, no entry of the watch tables is left in the  *)
(* root's tree, whatever the walks of the root did meanwhile.  A walk that *)
(* outlived an earlier Root may still record a directory behind it.        *)
DestroyLeavesNoEntry ==
    [][\A a \in Addr :
         destroyer[a].pc = "scan" /\ destroyer'[a].pc = "dump" =>
             \A e \in Entries' : ~InTree(e.path, heap[a].path)]_vars

(* When _destroy_root() ends, the kernel watches no directory below the    *)
(* root any more, although walks went on, and directories came and went,   *)
(* while it took them one by one.  Not so with renames: a directory whose  *)
(* old name was used again is no longer found by its path.  Nor with roots *)
(* around former roots, whose own directories stay watched.                *)
DestroyUnwatches ==
    [][\A a \in Addr :
         destroyer[a].pc = "scan" /\ destroyer'[a].pc = "dump" =>
             \A d \in dirs : Below(d, heap[a].path) => kwatch'[d].wd = 0]_vars

(* An unwatch that was answered with success ends: the root leaves the     *)
(* registry, unless the process dies of a freed pointer before.            *)
DestroyEnds ==
    \A p \in Path :
        p \in Registered /\ destroyer[inotify_roots[p]].pc = "begin"
            ~> p \notin Registered \/ ~alive

-----------------------------------------------------------------------------
(* The watch tables.                                                       *)

(* Whatever path the path table maps to a descriptor, the descriptor table *)
(* maps back: an event on it is reported under that path.                  *)
MapsAgree ==
    \A p \in Key :
        LET wd == inotify_path_to_watch[p]
        IN wd # 0 => inotify_wd_to_watch[wd] = p

(* Every descriptor the kernel reports events for is in the descriptor     *)
(* table: no cleanup, rewatch, walk or destruction leaks a watch, except   *)
(* that of a root's own directory, which _destroy_root() never removes.    *)
DescriptorsKnown ==
    \A d \in Path \ {r.path : r \in {q \in Requests : q.call = "watch"}} :
        kwatch[d].wd # 0 => WatchLive(kwatch[d].wd)

(* Directory d is watched, and both tables know it under its name.         *)
Tracked(d) ==
    LET wd == kwatch[d].wd
    IN wd # 0 /\ inotify_wd_to_watch[wd] = d /\ inotify_path_to_watch[d] = wd

(* The directories of the roots, rsync's scratch directories excepted.     *)
Wanted ==
    {d \in dirs :
        /\ \E r \in Registered : InTree(d, r) /\ ~heap[inotify_roots[r]].destroy
        /\ \A i \in 1 .. Len(d) : d[i] \notin TmpNames}

Covered == \A d \in Wanted : Tracked(d)

(* Once everything is quiet, every directory of every root is watched and  *)
(* known under its name: do_watch_tree() and inotify_handle_event() leave  *)
(* none behind, in whatever order directories come and go.  Names that are *)
(* used again while their last removal is still to be handled can break it *)
(* in trees deeper than those of the runs; CoverProofs says when it holds. *)
QuietCovered == Quiet => Covered

(* The same as eventual consistency: when other processes leave the tree   *)
(* alone, the tables catch up and stay right; with the same exception.     *)
EventuallyCovered == <>[](alive => Covered)

-----------------------------------------------------------------------------
(* The queues implement the abstract EventQueues.                          *)

Stage(p) ==
    LET a == inotify_roots[p]
    IN IF a = NULL THEN "closed"
       ELSE IF ~heap[a].destroy THEN "open"
       ELSE IF QueueLive(a) THEN "closing"
       ELSE "drained"

Queues == INSTANCE EventQueues WITH
    RootPath <- Path,
    QEvent   <- [path : Key, name : Name, kind : Kinds],
    Limit    <- {r.max_events : r \in Requests},
    stage    <- [p \in Path |-> Stage(p)],
    paused   <- {p \in Registered : heap[inotify_roots[p]].pause},
    queue    <- [p \in Path |-> IF p \in Registered THEN heap[inotify_roots[p]].queue
                                ELSE <<>>],
    limit    <- [p \in Path |-> IF p \in Registered
                                THEN heap[inotify_roots[p]].max_events ELSE 0],
    answer   <- reply.events

(* Every step of the daemon is a step of the abstract queues or leaves     *)
(* them alone: bounded, first in first out, nothing delivered twice.       *)
QueuesImplemented == Queues!Spec

-----------------------------------------------------------------------------
(* What the manual says of unpause and the code does not keep.             *)

(* A root that is not paused, or no longer, has all its directories        *)
(* watched once everything is quiet.                                       *)
ResumedCovered ==
    Quiet => \A p \in Registered :
        ~heap[inotify_roots[p]].pause =>
            \A d \in Wanted : InTree(d, p) => Tracked(d)

=============================================================================
