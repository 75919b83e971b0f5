------------------------------ MODULE Inotify ------------------------------
(***************************************************************************)
(* The main thread of the daemon: the loop of main.c, the handling of      *)
(* inotify events, and the client calls of zeromq.c down to inotify.c.     *)
(* With the threads of WatchThreads and the environment of Kernel this is  *)
(* the whole event path, from a change on disk to an answer to a client.   *)
(***************************************************************************)
EXTENDS WatchThreads

NoRequest == [call |-> "other", path |-> NoPath, mask |-> {}, max_events |-> 0,
              rewatch |-> FALSE, count |-> 0]
NoReply   == [code |-> "none", events |-> <<>>, size |-> 0]
NoRoot    == [path |-> DoubleSlash, mask |-> {}, max_events |-> 0,
              rewatch |-> FALSE, destroy |-> FALSE, pause |-> FALSE,
              queue |-> <<>>]
IdleMain  == [pc |-> "poll", stages |-> {}, req |-> NoRequest, root |-> NULL,
              path |-> NoPath, todo |-> {}]

Init ==
    /\ KernelInit
    /\ inotify_roots = [p \in Path |-> NULL]
    /\ inotify_num_watched_roots = 0
    /\ heap = [a \in Addr |-> NoRoot]
    /\ inotify_wd_to_watch = [wd \in Wd |-> NoPath]
    /\ inotify_path_to_watch = [k \in Key |-> 0]
    /\ dump = {}
    /\ IN_MEMCLEAN = FALSE /\ IN_ROOT_REWATCH = FALSE
    /\ alive = TRUE
    /\ main = IdleMain /\ batch = <<>> /\ reply = NoReply
    /\ walker = [w \in Walker |-> IdleWalker]
    /\ destroyer = [a \in Addr |-> NoDestroyer]
    /\ cleaner = [c \in Cleaner |-> IdleCleaner]
    /\ ticks = 0 /\ reqs = 0

-----------------------------------------------------------------------------
(* The loop of main(): timers first, then inotify, then ZeroMQ.            *)

NextStage(S) ==
    IF "memclean" \in S THEN "memclean"
    ELSE IF "inotify" \in S THEN "inotify"
    ELSE IF "zmq" \in S THEN "zmq"
    ELSE "poll"

ToStage(S) ==
    main' = [IdleMain EXCEPT !.pc = NextStage(S), !.stages = S \ {NextStage(S)}]

CanSend(r) == r.call = "ping" \/ reqs < MaxRequests

(* zmq_poll() has no timeout: it returns when there is something to read.  *)
Poll ==
    /\ main.pc = "poll"
    /\ \E S \in SUBSET {"memclean", "inotify", "zmq"} :
         /\ S \intersect {"inotify", "zmq"} # {}
         /\ "inotify" \in S <=> kq # <<>>
         /\ "zmq" \in S => \E r \in Requests : CanSend(r)
         /\ "memclean" \in S => ticks < MaxTicks
         /\ ticks' = IF "memclean" \in S THEN ticks + 1 ELSE ticks
         /\ ToStage(S)
    /\ reply' = NoReply
    /\ UNCHANGED <<kernelVars, tableVars, rootVars, flagVars, threadVars, reqs,
                   dump, alive, batch>>

(* inotify_memclean() *)
InotifyMemclean ==
    /\ main.pc = "memclean"
    /\ \/ /\ IN_MEMCLEAN \/ ThreadsMayFail
          /\ UNCHANGED cleaner
       \/ /\ ~IN_MEMCLEAN
          /\ \E c \in Cleaner :
               /\ cleaner[c].pc = "idle"
               /\ cleaner' = [cleaner EXCEPT ![c].pc = "start"]
    /\ main' = [main EXCEPT !.pc = "rewatch"]
    /\ UNCHANGED <<kernelVars, tableVars, rootVars, flagVars, walker, destroyer,
                   boundVars, dump, alive, batch, reply>>

(* inotify_rewatch_roots(): the Root pointers are listed under the lock... *)
InotifyRewatchRoots ==
    /\ main.pc = "rewatch"
    /\ \/ /\ IN_ROOT_REWATCH
          /\ ToStage(main.stages)
       \/ /\ ~IN_ROOT_REWATCH
          /\ main' = [main EXCEPT !.pc = "rewatch_next",
                                  !.todo = {inotify_roots[p] : p \in Registered}]
    /\ UNCHANGED <<kernelVars, tableVars, rootVars, flagVars, threadVars,
                   boundVars, dump, alive, batch, reply>>

(* ... and used one by one after it was released.                          *)
RewatchNext(a) ==
    /\ main.pc = "rewatch_next"
    /\ a \in main.todo
    /\ \E destroy \in DestroyReads(a) :
         \/ /\ destroy \/ ThreadsMayFail
            /\ UNCHANGED walker
         \/ /\ ~destroy
            /\ SpawnWalker(heap[a].path, a, TRUE)
    /\ alive' \in {TRUE, Live(a)}
    /\ main' = [main EXCEPT !.todo = @ \ {a}]
    /\ UNCHANGED <<kernelVars, tableVars, rootVars, flagVars, destroyer, cleaner,
                   boundVars, dump, batch, reply>>

RewatchDone ==
    /\ main.pc = "rewatch_next"
    /\ main.todo = {}
    /\ ToStage(main.stages)
    /\ UNCHANGED <<kernelVars, tableVars, rootVars, flagVars, threadVars,
                   boundVars, dump, alive, batch, reply>>

-----------------------------------------------------------------------------
(* inotify_handle_event()                                                  *)

(* Slip: the read is not limited to the buffer.                            *)
AllEvents(q) == q

FirstEvents(q) == SubSeq(q, 1, IF Len(q) < ReadMax THEN Len(q) ELSE ReadMax)

ReadEvents ==
    /\ main.pc = "inotify"
    /\ batch' = FirstEvents(kq)
    /\ kq' = SubSeq(kq, Len(FirstEvents(kq)) + 1, Len(kq))
    /\ main' = [main EXCEPT !.pc = "event"]
    /\ UNCHANGED <<dirs, kwatch, nextWd, fsOps, tableVars, rootVars, flagVars,
                   threadVars, boundVars, dump, alive, reply>>

(* Events without a name, the overflow mark among them, and rsync's        *)
(* scratch entries are passed over.                                        *)
Ignored(e) == e.kind = "overflow" \/ IsTmp(<<e.name>>)

(* The roots that may be found for the event, and those that take it.      *)
FoundRoots(e) ==
    IF e.wd \notin Wd \/ ~WatchLive(e.wd) THEN {}
    ELSE PathToRoot(inotify_wd_to_watch[e.wd])

(* Slips: one of the two tests is missing.                                 *)
TakesUnlessPaused(a)    == ~heap[a].pause
TakesUnlessDestroyed(a) == ~heap[a].destroy

TakesEvents(a) == ~heap[a].pause /\ ~heap[a].destroy

DropEvent ==
    /\ batch' = Tail(batch)
    /\ main' = [main EXCEPT !.pc = "event", !.root = NULL, !.path = NoPath]

(* Everything from the skip tests to the unlock of the lookup section.     *)
LookupEvent ==
    /\ main.pc = "event"
    /\ batch # <<>>
    /\ LET e == Head(batch)
       IN \/ /\ \/ Ignored(e)
                \/ FoundRoots(e) = {}
                \/ \E a \in FoundRoots(e) : ~TakesEvents(a)
             /\ DropEvent
          \/ /\ ~Ignored(e)
             /\ \E a \in FoundRoots(e) :
                  /\ TakesEvents(a)
                  /\ main' = [main EXCEPT
                        !.pc = IF e.kind \in DirKinds THEN "dir" ELSE "enqueue",
                        !.root = a,
                        !.path = inotify_wd_to_watch[e.wd]]
             /\ UNCHANGED batch
    /\ UNCHANGED <<kernelVars, tableVars, rootVars, flagVars, threadVars,
                   boundVars, dump, alive, reply>>

EventsDone ==
    /\ main.pc = "event"
    /\ batch = <<>>
    /\ ToStage(main.stages)
    /\ UNCHANGED <<kernelVars, tableVars, rootVars, flagVars, threadVars,
                   boundVars, dump, alive, batch, reply>>

EventPath == AbsPath(main.path, Head(batch).name)

ToEnqueue == main' = [main EXCEPT !.pc = "enqueue"] /\ UNCHANGED batch

(* A directory appeared: a thread watches it, or the event is dropped.     *)
NewDirectory ==
    /\ main.pc = "dir"
    /\ Head(batch).kind \in {"create", "moved_to"}
    /\ \E destroy \in DestroyReads(main.root) :
         \/ /\ IsTmp(main.path) \/ destroy \/ ThreadsMayFail
            /\ DropEvent
            /\ UNCHANGED walker
         \/ /\ ~IsTmp(main.path) /\ ~destroy
            /\ SpawnWalker(EventPath, main.root, FALSE)
            /\ ToEnqueue
    /\ UNCHANGED <<kernelVars, tableVars, rootVars, flagVars, destroyer, cleaner,
                   boundVars, dump, alive, reply>>

(* The Watches that go with a directory: its own, and after a move those   *)
(* of its subdirectories.                                                  *)
GoneWith(p, kind) ==
    {e \in Entries : e.path = p \/ (kind = "moved_from" /\ Below(e.path, p))}

(* A directory disappeared; one the table does not know drops the event.   *)
LostDirectory ==
    LET gone == GoneWith(EventPath, Head(batch).kind)
    IN /\ main.pc = "dir"
       /\ Head(batch).kind \in {"delete", "moved_from"}
       /\ \/ /\ ~\E e \in gone : e.path = EventPath
             /\ DropEvent
             /\ UNCHANGED <<kwatch, tableVars>>
          \/ /\ \E e \in gone : e.path = EventPath
             /\ kwatch' = RmWatch({e.wd : e \in gone})
             /\ Forget(gone)
             /\ ToEnqueue
       /\ UNCHANGED <<dirs, nextWd, kq, fsOps, rootVars, flagVars, threadVars,
                      boundVars, dump, alive, reply>>

(* Slip: one event too many.                                               *)
QueueOverfull(a) == Len(heap[a].queue) > heap[a].max_events

(* inotify_enqueue(): a full queue drops the newest event.                 *)
QueueFull(a) == Len(heap[a].queue) >= heap[a].max_events

InotifyEnqueue ==
    LET a == main.root
        e == Head(batch)
    IN /\ main.pc = "enqueue"
       /\ heap' = IF e.kind \notin heap[a].mask \/ QueueFull(a) THEN heap
                  ELSE [heap EXCEPT ![a].queue = Append(@,
                          [path |-> main.path, name |-> e.name, kind |-> e.kind])]
       /\ alive' \in {TRUE, QueueLive(a)}
       /\ DropEvent
       /\ UNCHANGED <<kernelVars, tableVars, inotify_roots,
                      inotify_num_watched_roots, flagVars, threadVars, boundVars,
                      dump, reply>>

-----------------------------------------------------------------------------
(* The client calls.  Each one ends with an answer and the end of its      *)
(* stage; the calls that only read answer within the dispatching step.     *)

Answer(code, events, size) ==
    /\ reply' = [code |-> code, events |-> events, size |-> size]
    /\ ToStage(main.stages)

Error(code) == Answer(code, <<>>, 0)
Success     == Answer("success", <<>>, 0)

Continue(r, pc, path, root) ==
    /\ main' = [main EXCEPT !.pc = pc, !.req = r, !.path = path, !.root = root]
    /\ UNCHANGED reply

NumWatchedDirs == Cardinality(Entries)
NumRoots == IF inotify_num_watched_roots < 1 THEN 0 ELSE Cardinality(Registered)

EventWatch(r) ==
    /\ r.call = "watch"
    /\ IF r.path = NoPath THEN Error("not_absolute")
       ELSE IF IsRoot(r.path) # NULL THEN Error("already_watched")
       ELSE Continue(r, "watch_check",
                     IF r.path = Slash THEN r.path ELSE StripSlash(r.path), NULL)

EventUnwatch(r) ==
    LET a == IsRoot(StripSlash(r.path))
    IN /\ r.call = "unwatch"
       /\ IF a = NULL THEN Error("not_watched")
          ELSE Continue(r, "unwatch_use", r.path, a)

(* The calls that first look their root up by the path as it was sent.     *)
EventOnRoot(r) ==
    /\ r.call \in {"pause", "unpause", "get_events", "get_queue_size", "subscribe"}
    /\ \/ /\ IsRoot(r.path) = NULL
          /\ Error("not_watched")
       \/ /\ IsRoot(r.path) # NULL
          /\ \/ r.call = "pause"      /\ Continue(r, "pause_set", r.path, NULL)
             \/ r.call = "unpause"    /\ Continue(r, "unpause_set", r.path, NULL)
             \/ r.call = "get_events" /\ Continue(r, "get", r.path, NULL)
             \/ /\ r.call = "get_queue_size"
                /\ Continue(r, "queue_size", r.path, IsRoot(r.path))
             \/ r.call = "subscribe"  /\ Answer("data", <<>>, 1234)

EventQuery(r) ==
    \/ r.call = "ping"      /\ Success
    \/ r.call = "status"    /\ Answer("data", <<>>, NumWatchedDirs)
    \/ r.call = "get_roots" /\ Answer("data", <<>>, NumRoots)
    \/ r.call = "other"     /\ Error("bad_call")

(* zmq_dispatch_event() *)
ZmqDispatchEvent(r) ==
    /\ main.pc = "zmq"
    /\ CanSend(r)
    /\ reqs' = IF r.call = "ping" THEN reqs ELSE reqs + 1
    /\ EventWatch(r) \/ EventUnwatch(r) \/ EventOnRoot(r) \/ EventQuery(r)
    /\ UNCHANGED <<kernelVars, tableVars, rootVars, flagVars, threadVars, ticks,
                   dump, alive, batch>>

-----------------------------------------------------------------------------
(* inotify_watch_tree()                                                    *)

WatchCheck ==
    /\ main.pc = "watch_check"
    /\ \/ \E a \in PathToRoot(main.path) :
             Continue(main.req, "watch_clash", main.path, a)
       \/ /\ PathToRoot(main.path) = {}
          /\ IsParent(main.path)
          /\ Error("parent_of_root")
       \/ /\ PathToRoot(main.path) = {}
          /\ ~IsParent(main.path)
          /\ Continue(main.req, "watch_open", main.path, NULL)
    /\ UNCHANGED <<kernelVars, tableVars, rootVars, flagVars, threadVars,
                   boundVars, dump, alive, batch>>

(* The error is chosen after the unlock, from a Root that may be gone.     *)
WatchClash ==
    LET a == main.root
    IN /\ main.pc = "watch_clash"
       /\ \E destroy \in DestroyReads(a) :
            Error(IF heap[a].path # main.path THEN "child_of_root"
                  ELSE IF destroy THEN "being_destroyed"
                  ELSE "already_watched")
       /\ alive' \in {TRUE, Live(a)}
       /\ UNCHANGED <<kernelVars, tableVars, rootVars, flagVars, threadVars,
                      boundVars, dump, batch>>

WatchOpen ==
    /\ main.pc = "watch_open"
    /\ IF main.path \in dirs
       THEN Continue(main.req, "watch_insert", main.path, NULL)
       ELSE Error("does_not_exist")
    /\ UNCHANGED <<kernelVars, tableVars, rootVars, flagVars, threadVars,
                   boundVars, dump, alive, batch>>

(* make_root().  An address is not handed out again before the thread that *)
(* destroyed its last Root has ended.                                      *)
FreeAddr(a) == ~Live(a) /\ destroyer[a].pc = "none"

NewRoot(r, path) ==
    [path |-> path, mask |-> r.mask, max_events |-> r.max_events,
     rewatch |-> r.rewatch, destroy |-> FALSE, pause |-> FALSE, queue |-> <<>>]

WatchInsert ==
    /\ main.pc = "watch_insert"
    /\ \E a \in Addr :
         /\ FreeAddr(a)
         /\ heap' = [heap EXCEPT ![a] = NewRoot(main.req, main.path)]
         /\ Register(main.path, a)
         /\ Continue(main.req, "watch_dump", main.path, a)
    /\ UNCHANGED <<kernelVars, tableVars, flagVars, threadVars, boundVars, dump,
                   alive, batch>>

WatchDump ==
    /\ main.pc = "watch_dump"
    /\ DumpRoots
    /\ Continue(main.req, "watch_spawn", main.path, main.root)
    /\ UNCHANGED <<kernelVars, tableVars, rootVars, flagVars, threadVars,
                   boundVars, batch>>

WatchSpawn ==
    /\ main.pc = "watch_spawn"
    /\ \E destroy \in DestroyReads(main.root) :
         \/ /\ destroy
            /\ Error("does_not_exist")
            /\ UNCHANGED walker
         \/ /\ ThreadsMayFail
            /\ Error("no_thread")
            /\ UNCHANGED walker
         \/ /\ ~destroy
            /\ SpawnWalker(main.path, main.root, FALSE)
            /\ Success
    /\ UNCHANGED <<kernelVars, tableVars, rootVars, flagVars, destroyer, cleaner,
                   boundVars, dump, alive, batch>>

-----------------------------------------------------------------------------
(* inotify_unwatch_tree() from root->destroy on, and destroy_root().       *)

Unwatch ==
    LET a == main.root
    IN /\ main.pc = "unwatch_use"
       /\ \E destroy \in DestroyReads(a) :
            \/ /\ destroy
               /\ Error("being_destroyed")
               /\ alive' \in {TRUE, Live(a)}
               /\ UNCHANGED <<heap, destroyer>>
            \/ /\ ~destroy /\ ~Live(a)
               /\ Crash
               /\ UNCHANGED <<heap, destroyer, main, reply>>
            \/ /\ ~destroy /\ Live(a)
               /\ heap' = [heap EXCEPT ![a].destroy = TRUE]
               /\ \/ /\ destroyer' = [destroyer EXCEPT ![a].pc = "begin"]
                     /\ Success
                  \/ /\ ThreadsMayFail
                     /\ UNCHANGED destroyer
                     /\ Error("no_thread")
               /\ UNCHANGED alive
       /\ UNCHANGED <<kernelVars, tableVars, inotify_roots,
                      inotify_num_watched_roots, flagVars, walker, cleaner,
                      boundVars, dump, batch>>

(* inotify_pause_tree() and inotify_unpause_tree()                         *)
SetPause(value) ==
    heap' = [heap EXCEPT ![IsRoot(main.path)].pause = value]

PauseTree ==
    /\ main.pc = "pause_set"
    /\ IF IsRoot(main.path) = NULL
       THEN Error("not_watched") /\ UNCHANGED heap
       ELSE SetPause(TRUE) /\ Continue(main.req, "get", main.path, NULL)
    /\ UNCHANGED <<kernelVars, tableVars, inotify_roots,
                   inotify_num_watched_roots, flagVars, threadVars, boundVars,
                   dump, alive, batch>>

UnpauseTree ==
    /\ main.pc = "unpause_set"
    /\ IF IsRoot(main.path) = NULL
       THEN Error("not_watched") /\ UNCHANGED heap
       ELSE SetPause(FALSE) /\ Success
    /\ UNCHANGED <<kernelVars, tableVars, inotify_roots,
                   inotify_num_watched_roots, flagVars, threadVars, boundVars,
                   dump, alive, batch>>

(* inotify_get_events() and inotify_dequeue(), for "get_events" and for    *)
(* the flush of "pause", which takes everything and shows nothing.         *)
Deliver(events) ==
    IF main.req.call = "pause" THEN Success ELSE Answer("data", events, 0)

GetEvents ==
    /\ main.pc = "get"
    /\ IF IsRoot(main.path) = NULL
       THEN Deliver(<<>>)
       ELSE Continue(main.req, "dequeue", main.path, IsRoot(main.path))
    /\ UNCHANGED <<kernelVars, tableVars, rootVars, flagVars, threadVars,
                   boundVars, dump, alive, batch>>

DequeueCount(queue_len) ==
    IF main.req.call = "pause" \/ main.req.count = 0 \/ main.req.count > queue_len
    THEN queue_len
    ELSE main.req.count

InotifyDequeue ==
    LET a == main.root
        q == heap[a].queue
        n == DequeueCount(Len(q))
    IN /\ main.pc = "dequeue"
       /\ \/ /\ QueueLive(a)
             /\ heap' = [heap EXCEPT ![a].queue = SubSeq(q, n + 1, Len(q))]
             /\ Deliver(SubSeq(q, 1, n))
             /\ UNCHANGED alive
          \/ /\ ~QueueLive(a)
             /\ Deliver(<<>>)
             /\ alive' \in BOOLEAN
             /\ UNCHANGED heap
       /\ UNCHANGED <<kernelVars, tableVars, inotify_roots,
                      inotify_num_watched_roots, flagVars, threadVars, boundVars,
                      dump, batch>>

QueueSize ==
    LET a == main.root
    IN /\ main.pc = "queue_size"
       /\ \E destroy \in DestroyReads(a) :
            /\ Answer("data", <<>>, IF destroy THEN 0 ELSE Len(heap[a].queue))
            /\ alive' \in {TRUE, Live(a)}
       /\ UNCHANGED <<kernelVars, tableVars, rootVars, flagVars, threadVars,
                      boundVars, dump, batch>>

-----------------------------------------------------------------------------
MainStep ==
    /\ alive
    /\ \/ Poll \/ InotifyMemclean \/ InotifyRewatchRoots \/ RewatchDone
       \/ \E a \in Addr : RewatchNext(a)
       \/ ReadEvents \/ LookupEvent \/ EventsDone
       \/ NewDirectory \/ LostDirectory \/ InotifyEnqueue
       \/ \E r \in Requests : ZmqDispatchEvent(r)
       \/ WatchCheck \/ WatchClash \/ WatchOpen \/ WatchInsert \/ WatchDump
       \/ WatchSpawn \/ Unwatch \/ PauseTree \/ UnpauseTree
       \/ GetEvents \/ InotifyDequeue \/ QueueSize

Environment ==
    /\ FsStep
    /\ UNCHANGED <<tableVars, rootVars, flagVars, threadVars, boundVars, dump,
                   alive, main, batch, reply>>

Next ==
    \/ Environment
    \/ MainStep
    \/ \E w \in Walker : WalkerStep(w)
    \/ \E a \in Addr : DestroyerStep(a)
    \/ \E c \in Cleaner : CleanerStep(c)

Spec == Init /\ [][Next]_vars

(* Every thread of the daemon keeps running; nobody has to change the file *)
(* system or to send a request.                                            *)
Fairness ==
    /\ WF_vars(MainStep /\ (main.pc = "poll" => kq # <<>>))
    /\ \A w \in Walker : WF_vars(WalkerStep(w))
    /\ \A a \in Addr : WF_vars(DestroyerStep(a))
    /\ \A c \in Cleaner : WF_vars(CleanerStep(c))

FairSpec == Spec /\ Fairness

=============================================================================
