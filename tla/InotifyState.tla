---------------------------- MODULE InotifyState ----------------------------
(***************************************************************************)
(* The state that the threads of the daemon share, guarded by              *)
(* inotify_mutex or not, and the helpers of inotify.c that read it.        *)
(*                                                                         *)
(* A Root is heap memory, named by its address: threads keep Root pointers *)
(* across unlocks, and an address may be handed out again after the free.  *)
(* A critical section of inotify_mutex is one step; what happens between   *)
(* two sections, or on a pointer kept from an earlier one, is a step of    *)
(* its own.                                                                *)
(***************************************************************************)
EXTENDS Kernel

CONSTANTS
    Addr,           \* addresses malloc() can give to a Root
    NULL,
    Walker,         \* threads running _do_watch_tree
    Cleaner,        \* threads running _inotify_memclean
    Requests,       \* the requests clients may send
    MaxRequests,    \* bound: requests other than "ping"
    MaxTicks,       \* bound: expiries of the memclean timer
    ReadMax,        \* events that fit INOTIFY_EVENT_BUF_LEN
    ThreadsMayFail  \* whether pthread_create() may fail

VARIABLES
    inotify_roots,              \* path -> Root
    inotify_num_watched_roots,
    heap,                       \* the contents of every Root
    inotify_wd_to_watch,        \* wd -> path of the Watch
    inotify_path_to_watch,      \* path -> wd of the Watch
    dump,                       \* roots.dump: the roots to rewatch on startup
    IN_MEMCLEAN,
    IN_ROOT_REWATCH,
    alive,                      \* FALSE once the process has crashed
    main,                       \* the main thread
    batch,                      \* events read from inotify_fd, not yet handled
    reply,                      \* the answer to the last request
    walker,                     \* threads of do_watch_tree()
    destroyer,                  \* the thread destroying the Root, by address
    cleaner,                    \* threads of inotify_memclean()
    ticks,                      \* expiries of the memclean timer so far
    reqs                        \* requests other than "ping" so far

tableVars  == <<inotify_wd_to_watch, inotify_path_to_watch>>
rootVars   == <<inotify_roots, inotify_num_watched_roots, heap>>
flagVars   == <<IN_MEMCLEAN, IN_ROOT_REWATCH>>
threadVars == <<walker, destroyer, cleaner>>
boundVars  == <<ticks, reqs>>
vars == <<kernelVars, tableVars, rootVars, flagVars, threadVars, boundVars,
          dump, alive, main, batch, reply>>

-----------------------------------------------------------------------------
Key   == Path \union {DoubleSlash}
Entry == [path : Key, wd : Wd]      \* a key of inotify_path_to_watch, as listed
Event == [path : Key, name : Name, kind : Kinds]
Calls == {"ping", "status", "get_roots", "subscribe", "watch", "unwatch",
          "pause", "unpause", "get_events", "get_queue_size", "other"}

RequestType ==
    [call : Calls, path : Seq(Name), mask : SUBSET Kinds,
     max_events : Int, rewatch : BOOLEAN, count : Nat]

ASSUME StateAssumption ==
    /\ NULL \notin Addr
    /\ Requests \subseteq RequestType
    /\ MaxRequests \in Nat /\ MaxTicks \in Nat /\ ReadMax \in Nat \ {0}
    /\ ThreadsMayFail \in BOOLEAN

RootType ==
    [path : Key, mask : SUBSET Kinds, max_events : Int, rewatch : BOOLEAN,
     destroy : BOOLEAN, pause : BOOLEAN, queue : Seq(Event)]

MainPc ==
    {"poll", "memclean", "rewatch", "rewatch_next", "inotify", "event", "dir",
     "enqueue", "zmq", "watch_check", "watch_clash", "watch_open",
     "watch_insert", "watch_dump", "watch_spawn", "unwatch_use",
     "pause_set", "unpause_set", "get", "dequeue", "queue_size"}

MainType ==
    [pc : MainPc, stages : SUBSET {"memclean", "inotify", "zmq"},
     req : RequestType, root : Addr \union {NULL}, path : Seq(Name),
     todo : SUBSET Addr]

Codes ==
    {"none", "success", "data", "already_watched", "being_destroyed",
     "child_of_root", "parent_of_root", "does_not_exist", "not_watched",
     "no_thread", "not_absolute", "bad_call"}

WalkerType ==
    [pc : {"idle", "start", "visit", "list", "loop"}, root : Addr \union {NULL},
     cleanup : BOOLEAN, path : Seq(Name), todo : SUBSET Seq(Name)]

DestroyerType ==
    [pc : {"none", "begin", "scan", "unwatch", "forget", "dump"},
     todo : SUBSET Entry, at : Entry \union {NULL}]

CleanerType ==
    [pc : {"idle", "start", "snapshot", "scan", "remove"}, todo : SUBSET Entry,
     path : Key \union {NoPath}]

RootsTypeOK ==
    /\ inotify_roots \in [Path -> Addr \union {NULL}]
    /\ inotify_num_watched_roots \in Int
    /\ heap \in [Addr -> RootType]

TablesTypeOK ==
    /\ inotify_wd_to_watch \in [Wd -> Key \union {NoPath}]
    /\ inotify_path_to_watch \in [Key -> 0 .. MaxWd]

FlagsTypeOK ==
    /\ dump \subseteq Key
    /\ IN_MEMCLEAN \in BOOLEAN /\ IN_ROOT_REWATCH \in BOOLEAN
    /\ alive \in BOOLEAN
    /\ ticks \in 0 .. MaxTicks /\ reqs \in 0 .. MaxRequests

(* What the main thread holds at each point: the event it handles, the     *)
(* Root pointer and the path it works on.                                  *)
MainTypeOK ==
    /\ main \in MainType
    /\ batch \in Seq(KEvent) /\ Len(batch) <= ReadMax
    /\ reply \in [code : Codes, events : Seq(Event), size : Int]
    /\ main.pc \in {"dir", "enqueue"} =>
         batch # <<>> /\ Head(batch).kind \in Kinds /\ main.path \in Key
    /\ main.pc \in {"dir", "enqueue", "watch_clash", "watch_dump", "watch_spawn",
                    "unwatch_use", "dequeue", "queue_size"} => main.root \in Addr
    /\ main.pc \in {"watch_insert", "watch_dump", "watch_spawn"} => main.path \in Path

ThreadsTypeOK ==
    /\ walker \in [Walker -> WalkerType]
    /\ destroyer \in [Addr -> DestroyerType]
    /\ cleaner \in [Cleaner -> CleanerType]
    /\ \A w \in Walker : walker[w].pc # "idle" => walker[w].root \in Addr
    /\ \A a \in Addr :
         destroyer[a].pc \in {"unwatch", "forget"} => destroyer[a].at \in Entry

(* Every variable has its type, and every pointer a thread is about to use *)
(* is one.                                                                 *)
TypeOK ==
    /\ KernelTypeOK
    /\ RootsTypeOK
    /\ TablesTypeOK
    /\ FlagsTypeOK
    /\ MainTypeOK
    /\ ThreadsTypeOK

-----------------------------------------------------------------------------
(* Roots.                                                                  *)

Registered == {p \in Path : inotify_roots[p] # NULL}
Live(a)    == \E p \in Path : inotify_roots[p] = a

(* The hash table and the running tally of roots change together.          *)
Register(p, a) ==
    /\ inotify_roots' = [inotify_roots EXCEPT ![p] = a]
    /\ inotify_num_watched_roots' = inotify_num_watched_roots + 1

(* Variants with a slip, to see which property would notice it: the tally  *)
(* is forgotten, or the hash table is.                                     *)
UnregisterUncounted(p) ==
    /\ inotify_roots' = [inotify_roots EXCEPT ![p] = NULL]
    /\ UNCHANGED inotify_num_watched_roots

UnregisterTallyOnly(p) ==
    /\ UNCHANGED inotify_roots
    /\ inotify_num_watched_roots' = inotify_num_watched_roots - 1

Unregister(p) ==
    /\ inotify_roots' = [inotify_roots EXCEPT ![p] = NULL]
    /\ inotify_num_watched_roots' = inotify_num_watched_roots - 1

(* inotify_is_root() *)
IsRoot(p) == IF p \in Path THEN inotify_roots[p] ELSE NULL

(* inotify_path_to_root(): "/" takes every path; otherwise the hash table  *)
(* decides which of the roots that match comes first.                      *)
PathToRoot(p) ==
    IF IsRoot(Slash) # NULL THEN {IsRoot(Slash)}
    ELSE {inotify_roots[r] : r \in {r \in Registered : p = r \/ Strstr(p, r)}}

(* Slip: the arguments of strstr() swapped.                                *)
IsParentSwapped(p) == \E r \in Registered : Strstr(p, r)

(* inotify_is_parent() *)
IsParent(p) == \E r \in Registered : Strstr(r, p)

(* The values a thread may read for root->destroy: a freed Root holds      *)
(* whatever the allocator left there.                                      *)
DestroyReads(a) == IF Live(a) THEN {heap[a].destroy} ELSE BOOLEAN

(* g_queue_free() has not run on the queue of this Root.                   *)
QueueLive(a) == Live(a) /\ destroyer[a].pc \in {"none", "begin"}

(* inotify_dump_roots(), under the lock from end to end.  It ends with the *)
(* free() of a pointer that was never assigned: nothing, or the end of the *)
(* process.                                                                *)
DumpRoots ==
    /\ dump' = {heap[inotify_roots[p]].path :
                   p \in {r \in Registered : heap[inotify_roots[r]].rewatch}}
    /\ alive' \in BOOLEAN

-----------------------------------------------------------------------------
(* The two watch tables.  A Watch is freed when it leaves them.            *)

Entries == {[path |-> p, wd |-> inotify_path_to_watch[p]] :
               p \in {k \in Key : inotify_path_to_watch[k] # 0}}

WatchLive(wd) == inotify_wd_to_watch[wd] # NoPath

(* The listed key was freed with its entry; its bytes are still the path,  *)
(* or garbage that both threads that list keys pass over.                  *)
KeyFreed(e) == inotify_path_to_watch[e.path] # e.wd

(* Slip: the path table keeps its entries.                                 *)
ForgetWd(S) ==
    /\ inotify_wd_to_watch' =
         [w \in Wd |-> IF \E e \in S : e.wd = w THEN NoPath
                       ELSE inotify_wd_to_watch[w]]
    /\ UNCHANGED inotify_path_to_watch

(* Both table entries of the Watches in S, a set of [path, wd], go.        *)
Forget(S) ==
    /\ inotify_wd_to_watch' =
         [w \in Wd |-> IF \E e \in S : e.wd = w THEN NoPath
                       ELSE inotify_wd_to_watch[w]]
    /\ inotify_path_to_watch' =
         [p \in Key |-> IF \E e \in S : e.path = p THEN 0
                        ELSE inotify_path_to_watch[p]]

-----------------------------------------------------------------------------
(* do_watch_tree(): a detached thread watches the tree at path.  The model *)
(* has as many threads as Walker; a caller that needs another one waits.   *)

IdleWalker == [pc |-> "idle", root |-> NULL, cleanup |-> FALSE,
               path |-> NoPath, todo |-> {}]

SpawnWalker(path, a, cleanup) ==
    \E w \in Walker :
        /\ walker[w].pc = "idle"
        /\ walker' = [walker EXCEPT ![w] =
                        [pc |-> "start", root |-> a, cleanup |-> cleanup,
                         path |-> path, todo |-> {}]]

Crash == alive' = FALSE

=============================================================================
