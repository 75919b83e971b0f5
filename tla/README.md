# Inotispy in TLA+

Inotispy is a daemon that watches directory trees with Linux inotify, queues the
events of each tree, and hands them to clients over a ZeroMQ REQ/REP socket.
This directory holds a specification of it, the TLC runs that check small
instances, and TLAPS proofs of the properties that matter most.

All line numbers below are of `src/src/inotify.c` unless another file is named.

## 1. Inventory

| Part | State | Operations | Modelled in |
|---|---|---|---|
| Main loop (`main.c`) | which of the timer, inotify and ZeroMQ stages are due | `zmq_poll`, alarm and memclean timers, event handler, request handler | `Inotify`, `Daemon` |
| Event handler | the events read from `inotify_fd`, the Root and path of the current one | read, look up, new directory, lost directory, enqueue | `Inotify` |
| Registry of roots | `inotify_roots`, `inotify_num_watched_roots`, the `Root` structures | watch, unwatch, pause, unpause, get roots | `InotifyState`, `Inotify` |
| Watch tables | `inotify_wd_to_watch`, `inotify_path_to_watch` | record, forget | `InotifyState`, `WatchThreads` |
| Watch threads | one recursion each; `IN_ROOT_REWATCH` | `_do_watch_tree`, `_do_watch_tree_rec`, for a new root, a new directory, or a rewatch | `WatchThreads` |
| Destroy threads | the key list and the Watch in hand | `_destroy_root` | `WatchThreads` |
| Memclean threads | the key list and the path in hand; `IN_MEMCLEAN` | `_inotify_memclean` | `WatchThreads` |
| Event queues | `root->queue`, `root->max_events`, `root->pause` | enqueue, dequeue, flush, free | `Inotify`, abstractly `EventQueues` |
| ZeroMQ server (`zeromq.c`, `reply.c`) | the REP socket, `zmq_mutex`, the message in hand | receive, refuse, dispatch, answer | `Zeromq`; the effect of the calls in `Inotify` |
| Request parsing (`request.c`) | none | fields and defaults | `Request` |
| `roots.dump` | the file, the stdio buffers | rewritten after every change and by the alarm, read at startup | `RootDump`, abstractly `RewatchSet` |
| Daemon (`main.c`) | the pid file, the bound address, pending signals, `main_mutex` | start, check and write the pid, SIGINT, SIGHUP, alarm, exit | `Daemon` |
| Configuration and log (`config.c`, `log.c`) | `CONFIG`, the log stream, `config.dump` | load, reload, write `config.dump` | `Config`, `Daemon` |
| `inotispyctl` | the REQ socket, the command | one or several requests and answers, ping with retries | `Inotispyctl` |
| Kernel and other processes | the directory tree, the inotify watches and event queue | mkdir, rmdir, rename, file writes | `Kernel` (external) |

How they interact. The main thread runs the loop and everything a client or the
kernel asks for. It starts detached threads for what takes long: walking a tree,
destroying a root, cleaning up. All of them share the two watch tables, the
registry and the Roots, mostly under `inotify_mutex`, and keep Root and Watch
pointers across unlocks. Other processes change the tree at any time, and the
kernel reports it late and through a bounded queue. Signals interrupt the main
thread wherever it is, and their handlers take the same mutexes. What survives
the process is `roots.dump`, the pid file and `config.dump`.

What is hard here:

* the order of a walk against the events of the same directories (a directory is
  watched first and listed afterwards, so it may be found twice or not at all);
* check-then-act across two critical sections (`inotify_watch_tree`,
  `_inotify_memclean`), and iteration over a key list taken earlier
  (`_destroy_root`, `_inotify_memclean`);
* pointers to Roots that another thread frees, and whose address may be used
  again;
* renames, which move a kernel watch to a name the tables do not know;
* the queue at its bound, paused, or already freed;
* a REP socket that must answer each message, on every error path;
* a file that is rewritten in place, by a process that may die, while it is read;
* handlers of signals that run inside what they interrupted.

`PROJECT.json` lists these hazards one by one with their lines.

What makes each part correct: the registry counts its roots and never lets two of
them overlap; the tables agree with each other and, when all is quiet, with the
tree; a destroyed root leaves nothing in the tables; an event is never put into a
queue that is gone; a queue is a bounded FIFO that delivers nothing twice; a
paused root holds no events; the dump follows the registry and brings its roots
back; every message is answered and every command ends; one daemon runs and the
pid file names it; a changed configuration takes effect.

## 2. Modules

| Module | Contents |
|---|---|
| `Paths` | paths as sequences of components, and the string operations of the code on them |
| `Kernel` | external: the directory tree, the inotify instance, other processes |
| `InotifyState` | the shared state, its types, and the helpers of `inotify.c` that read it |
| `WatchThreads` | the three kinds of detached thread |
| `Inotify` | the main thread, the next-state relation, `Spec`, and `FairSpec` |
| `EventQueues` | abstract specification of what a client is promised about events |
| `InotifyProps` | the properties, and the refinement mapping to `EventQueues` |
| `Request` | `request.c`: from the fields of a message to the arguments of a call |
| `Zeromq` | the REP socket, `zmq_handle_event`, the dispatch and the answers |
| `Inotispyctl` | the clients; composes with `Zeromq` into `ZmqSpec` and `ZmqFairSpec` |
| `RewatchSet` | abstract specification of what `rewatch` promises across restarts |
| `RootDump` | `roots.dump`: writing, reading, crashes, restarts; the mapping to `RewatchSet` |
| `Config` | `config.c` and what of `log.c` depends on it, as pure operators |
| `Daemon` | processes from start to end: pid file, socket, signals, alarm, reload |
| `MCInotify`, `MCZeromq`, `MCRootDump`, `MCDaemon` | the instances for TLC |
| `TypeProofs`, `RegistryProofs`, `TableProofs` | theorems and proofs about `Inotify`: types, roots, watch tables |
| `QueueProofs` | the queues of paused roots; `Inotify` implements `EventQueues` |
| `CoverProofs` | when the trees of the roots are watched completely |
| `ZmqProofs` | theorems and proofs about `ZmqSpec` |
| `DumpProofs` | theorems and proofs about `RootDump`; it implements `RewatchSet` |
| `DaemonProofs` | theorems and proofs about `Daemon` |

`Inotify` EXTENDS `WatchThreads` EXTENDS `InotifyState` EXTENDS `Kernel` EXTENDS
`Paths`: the components share their state as the C code does, so they are
composed by interleaving their actions in `Next`. `Inotispyctl` EXTENDS `Zeromq`
EXTENDS `Request` in the same way, and `Daemon` EXTENDS `Config`. `MCInotify`
makes its requests from messages with `INSTANCE Request`, so the calls the main
model serves are the ones the parser can produce. Definitions commented *Slip*
are variants of the definition that follows them with a plausible mistake; they
are used only to see that a property notices it.

### Correspondence: the watch daemon (`Inotify` and below)

* **Steps.** A critical section of `inotify_mutex` is one step. Code that runs
  without the lock is a step of its own wherever another thread can interfere:
  `opendir`/`readdir` (`WalkerList`), `inotify_rm_watch` in `_destroy_root`
  (`DestroyUnwatch`), `stat` in memclean (`MemcleanScan`), the uses of a Root
  after the unlock (`WatchClash`, `RewatchNext`, `InotifyEnqueue`,
  `InotifyDequeue`, `QueueSize`, `Unwatch`). A hash table lookup without the lock
  is one step.
* **Roots are heap memory.** `heap` maps addresses to Root contents and
  `inotify_roots` maps paths to addresses. `g_hash_table_remove` frees the Root;
  after that `Live(a)` is false, a read of `root->destroy` gives any value
  (`DestroyReads`), and code that follows a pointer in the freed memory may end
  the process (`alive`). `WatchInsert` may hand a freed address out again.
* **Watches.** A Watch is the pair of its two table entries. A thread that holds
  one across an unlock keeps its path and descriptor; freeing it twice may end
  the process. A listed key that has been freed either still holds its bytes or
  holds garbage, which both threads pass over.
* **The recursion** of `_do_watch_tree_rec` is the set of paths still to visit:
  the deepest ones are the entries of the loop that is running. `readdir` returns
  the entries that exist when the directory is opened.
* **Strings.** `/%s` formatted with two arguments at line 358 makes `//` out of
  every entry of `/`; `strstr` is not anchored at line 864 and 925;
  `request_get_path` cuts off all trailing slashes of a client's path, and
  `inotify_watch_tree` and `inotify_unwatch_tree` cut off one more, which matters
  for entries of the dump only; `.~tmp~` counts when its first occurrence is the
  end of the string. `Paths` and `Request` define each of these as they are.
* **Main loop.** `zmq_poll` has no timeout: timers are only looked at when an
  event or a request arrives. The stages run in the code's order.
* **roots.dump** is written whole under the lock, so for the threads of the
  process its contents change in one step (`RootDump` looks inside that step).
  `inotify_dump_roots` frees an unassigned pointer at line 727; the model lets the
  process end there.
* **Masks.** A mask is a set of the event kinds the daemon tells apart: creation,
  deletion and both halves of a move of a directory, and "file" for the rest.
* **Replies.** One code per kind of answer. An invalid count is answered in
  `Zeromq`; the requests of `MCInotify` have valid ones.

Left out: failing `malloc` in `inotify.c`, failing `fopen` of the dump, symbolic
links, `inotify_add_watch` errors other than the limit on watches.

### Correspondence: the socket and its clients (`Zeromq`, `Inotispyctl`)

* A message is a record of its fields plus its kind: empty, a leading NUL, text
  without braces at its ends, text that does not parse, JSON. A field is the set
  of its values, empty if it is absent or mistyped, which the parser does not tell
  apart.
* `Receive` to `AcceptMessage` are the branches of `zmq_handle_event`, each with
  its unlock, or without it (`NoMemory`). `Dispatch` is one step because only the
  main thread takes `zmq_mutex` and no answer is seen before it is sent. The roots
  are reduced to what the answers show; other threads may end a destruction or
  queue an event in between.
* The REP socket is in one of two states. A send out of turn fails without
  effect; an answer to a client that has gone is dropped; a message is reported by
  `zmq_poll` only when the socket may receive.
* A run of `inotispyctl` is a client that sends `FirstRequest` and, for
  `list_queues`, one request per root it was told of. Other programs send any of
  `RawMessages`. Clients may be killed while they wait.

### Correspondence: the dump (`RootDump`)

* stdio is a buffer of `BufLines` entries in both directions: a full buffer reaches
  the file before it is closed, and its end may lie within a line (`Cut`).
* `inotify_setup` reads ahead a buffer, watches each whole entry, and each watch
  truncates and rewrites the file that is being read. An entry carries the kind of
  its root: with a `max_events` of 0 (kind "zero") it is logged as invalid and
  skipped (lines 161-166). A cut entry is taken (when digits of the last number are
  left), skipped (when only a sign or a 0 is left of it) or ends the process.
* Two destroy threads, the alarm, client calls and SIGINT write the file; all of
  them hold `inotify_mutex`. A crash is possible in every state.
* `PromiseKept` is the refinement: `RewatchSet` says which roots must be there
  again after any number of ends and starts, and under which conditions they need
  not be: its directory is gone, it has room for no events, the file was cut short by
  a crash or outgrew the buffer. The conditions are real: `v_restart` shows what
  happens inside a rewrite, section 6 what becomes of a root with `max_events` 0.

### Correspondence: processes and configuration (`Daemon`, `Config`)

* A process has a stack of frames, `main` at the bottom and one for each signal
  handler above it; only the top frame moves. A mutex records the depth of the
  frame that holds it, so a handler that wants a mutex held below waits for ever.
  Signals are delivered to the main thread, and a handler is not interrupted by
  its own signal.
* `check_pid` and `write_pid` are separate steps (read, clear, open, write), since
  other processes and crashes come in between; `daemon()` is not a process of its
  own. A foreground process touches the pid file only when it ends by SIGINT.
* `Work` stands for the handlers of the loop, which hold `inotify_mutex` for a
  while and log.
* The configuration file has a text and an mtime. `init_config` loads and then
  asks for the mtime, `reload_config` the other way round; both are two steps.
  A key is the set of its values. The fields of `CONFIG` are set in one step,
  nobody looks in between. A `CONFIG` without a file has an arbitrary mtime: the
  code does not set it.
* A log stream that could not be opened is "null", and a message written to it
  ends the process. `-s` is the same as `silent` in the file.

## 3. Runs

Deadlock is not checked: a daemon without events and requests rightly waits in
`zmq_poll` forever, the models end where the process does, and bounded numbers of
calls, signals and edits run out.

| Run | Module | Properties | What is in the instance | States |
|---|---|---|---|---|
| `cover` | `MCInotify` | `TypeOK`, `QuietCovered` | a root with a chain of two directories and an rsync scratch directory, up to 6 mkdir/rmdir, 2 watch threads, read buffer of 3 events | 1.76 M |
| `registry` | `MCInotify` | `RootCount`, `NoOverlap`, `DumpFresh` | 4 calls out of watch and unwatch of `/r` and `/r/a` (with and without trailing slash), queries and bad calls, 2 Roots, threads that may fail to start | 110 k |
| `destroy` | `MCInotify` | `EventRootLive`, `MapsAgree`, `DescriptorsKnown`, `DestroyLeavesNoEntry` | unwatch of a root with one directory while 2 operations (mkdir and rename, between two names), 2 walks, a memclean and a rewatch run | 3.3 M |
| `queues` | `MCInotify` | `PausedQueueEmpty`, `QueuesImplemented` | 4 calls out of watch (limits 1 and 2), get (0, 1, 2), pause, unpause, unwatch, queue size; 3 operations | 828 k |
| `live` | `MCInotify` | `DestroyUnwatches`, `DestroyEnds`, `EventuallyCovered` | `FairSpec`, watch and unwatch, a chain of two directories, 3 mkdir/rmdir | 118 k |
| `requests` | `MCZeromq` | `ZmqTypeOK`, `RootsNormal`, `ReadyForNext`, `TakesAsAsked`, `CommandEnds`, `PingEnds` | `ZmqFairSpec`, 2 clients, every command, 17 odd messages, 2 events, 1 failed allocation, end of the daemon | 220 k |
| `restart` | `MCRootDump` | `DumpTypeOK`, `PromiseKept` | 3 roots of which one may lose its directory, each plain, rewatched or rewatched with `max_events` 0, buffers of 2 entries, 5 calls, 3 ends, 2 destroy threads | 278 k |
| `daemon` | `MCDaemon` | `PidNamesDaemon`, `BindsAlone` | 3 daemons, 2 signals, 2 crashes, pids reused | 165 k |
| `reload` | `MCDaemon` | `DaemonTypeOK`, `DumpShowsConfig`, `NeverHangs`, `ReloadFollows` | `DaemonFairSpec`, 1 process in either mode, 6 texts of the file (missing and broken included), 2 edits, 2 signals, 1 crash | 221 k |
| `v_pause` | `MCInotify` | `ResumedCovered` (violated) | mkdir while paused | |
| `v_restart` | `MCRootDump` | `RewatchKept` (violated) | a crash inside a rewrite of the dump | |
| `v_empty` | `MCZeromq` | `NeverDeaf` (violated) | one message of zero bytes | |

What the passing runs show:

* **`QuietCovered`**: when no event waits and no thread runs, every directory of
  every root has a kernel watch and is in both tables under its own name. It is
  the correctness of the watch-then-list order of `_do_watch_tree_rec` together
  with the event handler, for mkdir and rmdir. It is false with renames, and the
  run shows it for its own depth and number of operations only: in a tree one level
  deeper and with 8 operations names that are used again too early break it (section
  6). `TreesStayCovered` says for every tree which names may be used again.
* **`DestroyLeavesNoEntry`**: although `_destroy_root` takes its key list once and
  releases the lock between keys, no walk of the root can record a directory behind
  its back: the test of `root->destroy` inside the critical section of the visit
  makes it so (the slip `VisitIgnoresDestroy` breaks it). The run has one Root at a
  time; for walks that outlive an earlier one see section 6.
* **`DestroyUnwatches`**: while directories come and go, none below the root keeps a
  kernel watch when the destruction ends. It is false with renames, and for a root
  around a former root (section 6).
* **`MapsAgree`**: whatever path the path table maps to a descriptor, the
  descriptor maps back. The converse does not hold: `g_hash_table_replace` of a
  recreated path leaves the old descriptor behind.
* **`EventRootLive`**: the event handler drops the lock twice between finding a
  Root and using its queue; this is safe only because `root->destroy` is set by
  the main thread itself.
* **`DumpFresh`**: two dumps can be pending at once, in either order; the last
  rewrite always reads the registry after both changes.
* **`DescriptorsKnown`**: no sequence of cleanups, walks, renames and events
  leaves the kernel watching a directory under a descriptor the tables do not
  know, except the directory of a root itself.
* **`QueuesImplemented`**: every step of the daemon is a step of `EventQueues`
  under the mapping of `InotifyProps`, where a root is open, closing (marked for
  destruction, queue still there), drained or closed.
* **`ReadyForNext`**, **`CommandEnds`**, **`PingEnds`**: on every path through
  `zmq_handle_event` and the handlers the message is answered and the mutex
  released, except for empty messages and failed allocations; so the commands of
  `inotispyctl` end whatever other clients do, and ping ends even without a daemon.
* **`ZmqTypeOK`**: a client has one request under way at most, and queues keep to
  their limits. The limit may be negative, since only -1 and 0 are replaced by the
  default: such a queue is always full (line 580 compares signed numbers).
* **`RootsNormal`**, **`TakesAsAsked`**: a root has one name with however many
  slashes at the end it was asked for, and a get takes as many events as the rules in
  `request.c` allow: all for 0, none for a negative count (lines 223-229 and 241-245),
  one when the count is missing, which only the code says. A count of -1 is excepted
  (`MistakenForNone`): it breaks the rule (section 6).
* **`PromiseKept`**: the promise of `rewatch` with the limits named in section 2. That `inotify_setup`
  reads the file while it is rewritten does no harm as long as the dump fits in
  one stdio buffer: all entries are in memory before the first rewrite.
* **`PidNamesDaemon`**, **`BindsAlone`**: for daemons whose starts do not overlap,
  after any crashes and reuse of pids. They fail with overlapping starts and beside
  foreground processes (section 6).
* **`NeverHangs`**: a process returns to its poll or ends unless a handler was
  entered at one of the points named by `Trapped`, so these are all the ways to hang
  on `inotify_mutex` and `main_mutex`. The locks of libc that handlers also take
  (malloc, stdio) are not modelled.
* **`ReloadFollows`**: an alarm that begins while the file can be loaded and is newer
  than the mtime in `CONFIG` brings the settings into line with it, or the process
  ends or hangs (`Trapped`), or the file vanishes or breaks meanwhile. It does not say
  that such an alarm comes, which NOTE 2 of `etc/inotispy.conf` does, and nothing of the level when
  `log_level` is absent or invalid (section 6).
* **`DumpShowsConfig`**: whenever a single process polls, `config.dump` shows its
  settings.

The violation runs each check one sentence of the manual or a message of the code
and end in a trace; `findings` in `PROJECT.json` quotes it and explains the trace.

### Bounds, and why they are enough

Paths are chains and forks of depth at most 3: a root, a directory in it and a
directory in that are the levels at which a walk, its recursion and an event can
differ. For `QuietCovered` and `EventuallyCovered` this is not enough to meet every
case: a chain of four and 8 operations have one more (section 6), and the theorem
covers all depths under its hypotheses. Two watch threads are the smallest
number at which two walks meet; a call that would need a third one waits, which
only delays it. One Root suffices where roots do not interact, two where they do.
`MaxFsOps` is chosen per run so that a directory can be created, removed and
created again. `MaxWd` and the size of the kernel queue are never reached by the
operations allowed. `MaxRequests` bounds all requests but `ping`, which only serves
to wake the loop for the timers.

Two clients are the least at which one's message disturbs the other. `BufLines` of
2 with 3 roots lets the dump fit a buffer and outgrow it; 3 ends of the process
allow a loss, a restart that rewrites the file, and a second loss. Three pids allow
a daemon to die, a second to replace it and a third to meet both; two signals are
the deepest nesting there is, since a handler is not interrupted by its own signal.
Two edits are enough for one to come between the test, the mtime and the load of a
reload caused by the other.

`Permutations` of threads, addresses and the roots that keep their directories is
sound as symmetry because they are interchangeable model values; no liveness run
uses it.

### Fairness

`FairSpec` assumes that each thread of the daemon keeps being scheduled (weak
fairness of each thread's steps) and that `zmq_poll` returns when an event waits.
Nothing is assumed of clients or of other processes, and nothing forces a timer.
Both liveness properties allow the process to die of a freed pointer instead.

`ZmqFairSpec` assumes the same of the main thread and of each client that runs;
nothing forces a client to start, a destruction to end or memory to be found.

`DaemonFairSpec` assumes weak fairness of each process's own steps, and nothing
else: that `zmq_poll` returns, the alarm is due, a signal arrives or the file is
edited is forced by nothing, since `zmq_poll` has no timeout (`main.c:217`) and an idle
daemon never looks at the timer.

## 4. Proofs

TLAPS checks the following for every value of the constants that satisfies the
`ASSUME`s of the modules: any finite set of paths, any number of Roots, threads,
processes, clients, requests and operations, any messages, any bounds.

| Theorem | Statement |
|---|---|
| `TypeProofs!TypeCorrect` | `Spec => []TypeOK` |
| `RegistryProofs!EventRootStaysLive` | `Spec => []EventRootLive` |
| `RegistryProofs!RootsCounted` | `Spec => []RootCount` |
| `RegistryProofs!RootsDisjoint` | `Spec => []NoOverlap`, if `/` is not among the paths |
| `RegistryProofs!DumpStaysFresh` | `Spec => []DumpFresh` |
| `QueueProofs!PausedQueuesStayEmpty` | `Spec => []PausedQueueEmpty` |
| `TableProofs!TablesAgree` | `Spec => []MapsAgree` |
| `TableProofs!WatchesStayKnown` | `Spec => []DescriptorsKnown`, if `RootsStay` |
| `TableProofs!DestroyLeavesNothing` | `Spec /\ []OwnWalks => DestroyLeavesNoEntry` (an action property) |
| `TableProofs!DestroyStopsWatching` | `Spec /\ []OwnWalks => DestroyUnwatches` (an action property), if `UnwatchSetting` |
| `CoverProofs!TreesStayCovered` | `Spec /\ []Calm /\ NamesRest => []QuietCovered`, if `CoverSetting` |
| `QueueProofs!QueuesRefined` | `Spec => QueuesImplemented`: the daemon implements `EventQueues` |
| `ZmqProofs!ZmqTypeCorrect` | `ZmqSpec => []ZmqTypeOK` |
| `ZmqProofs!RootNamesNormal` | `ZmqSpec => []RootsNormal` |
| `ZmqProofs!SocketReadyAgain` | `ZmqSpec => ReadyForNext` (an action property) |
| `ZmqProofs!EventsTakenAsAsked` | `ZmqSpec => TakesAsAsked` (an action property) |
| `DumpProofs!DumpTypeCorrect` | `DumpSpec => []DumpTypeOK` |
| `DumpProofs!PromiseHolds` | `DumpSpec => PromiseKept`: the dump implements `RewatchSet` |
| `DaemonProofs!DaemonTypeCorrect` | `DaemonSpec => []DaemonTypeOK` |
| `DaemonProofs!PidFileNamesDaemon` | `DaemonSpec => []PidNamesDaemon`, if `Apart` |
| `DaemonProofs!DaemonBindsAlone` | `DaemonSpec => []BindsAlone`, if `Apart` |
| `DaemonProofs!DumpShowsSettings` | `DaemonSpec => []DumpShowsConfig`, if `Sole` |

### The arguments

`TypeOK` is inductive: besides the types it says what the main thread and the other
threads hold at each point (an event and a Root in the event handler, a path in
the tree before the insertion). The other invariants are not inductive alone:

* `RegistryInv` adds that a registered Root carries its own path (`OwnPath`), that
  a destroy thread at work holds a registered Root marked for destruction and
  nobody else's (`DestroyerHolds`), that the Root in the hand of the event handler
  is registered and neither paused nor marked (`EventHeld`), and that between the
  overlap check and the insertion the path stays clear of all roots (`Clear`,
  `CheckHolds`). `NoOverlap` rests on the last two: only the main thread adds
  roots, destroy threads only remove them, so a check that was true stays true.
* `QueueInv` adds that the queue is empty once its Root is being destroyed
  (`Drained`), that a paused root's queue is empty unless its flush is under way
  (`PausedEmpty`), and that the Root to be read from is the one at its path or no
  Root at all (`TakesFrom`).
* `TableInv` is `MapsAgree` with what makes the unlocked steps of `_destroy_root`
  harmless: descriptors in use were given out before (`Given`), its keys lie below
  its root (`ListedBelow`), and the descriptor it holds across an unlock still
  stands for the path it had or is gone for good (`KeptWatch`), as the kernel never
  gives one out again.
* `WatchInv` is `DescriptorsKnown` with: a descriptor belongs to one directory
  (`OneWatch`), a directory that stays in place has the only watch recorded for it
  (`StableWatch`), roots are paths that were asked for (`RootsAsked`), and a fresh
  descriptor is in no table (`KnownGiven`).
* `ListedAll` says that the key list that `_destroy_root` took once still names every
  entry below its root, but for the one on its way out. Only a visit adds entries,
  and a visit for this root sees its mark; a key is passed over only when its entry
  is gone.
* `DestroyStopsWatching` adds to it that the path of a watched directory leads to its
  watch (`WatchFound`), and that the directory whose Watch the thread holds has no
  other watch, and none once the kernel was told (`WatchTaken`). A directory that is
  removed and made again while its old Watch is on the way out cannot get a new one
  in between: the walk that would visit it sees the mark of the root. At the end no
  entry is left, so no watch is.
* `TreesStayCovered` has to follow every directory without a watch to whatever will
  give it one. `Promise` says it: a root without a watch has a walk on its way to it,
  from its registration on (`RootPromise`); a directory without a watch inside one
  with a watch is before a walk (`Coming`), will be found because its parent is about
  to be listed (`Listing`), or was reported and the event is still to be handled
  (`Announced`). A new directory is announced because the kernel watches its parent
  for `IN_CREATE`; a directory that is watched only now is listed next, which finds
  what came before the watch. `Promise` leans on four layers, each an invariant of
  its own: `MainHolds` (the batch is empty outside the event loop, a new root stays
  registered until its walk is started, the directories of the roots are there),
  `InTrees` (walks, events and recorded watches stay in the trees of the roots),
  `Held` (what the kernel watches is on disk, recorded in both tables, and for
  `IN_CREATE`) and `Current` (what the path table says of a directory on disk is its
  watch, and nobody is about to remove it, `Going`). In a quiet state nothing of
  `Promise` is left open, and a shortest directory without a watch would be a root or
  lie in a directory that has one.
* `QueuesRefined` takes `QueueInv` and `AnswerInv`: requests come last in the loop
  (`LastStage`), an answer is out before the next step (`AnswerSent`), a root is
  made from a request (`AskedFor`), and pause flushes a root it has marked
  (`MarkedPaused`). Each action then is a step of one root of `EventQueues`, or
  leaves the mapped state alone.
* `ZmqInv` has three parts. `WireInv` says that what is in the socket was sent by a
  client, so the fields the server reads have one value of their type. `RootInv`
  says that a root's name has no trailing slash (`Bare`) and its queue fits.
  `SingleInv` says that a client has at most one request in the inbox, in the hands
  of the server or answered; this is what a REQ socket guarantees, and the reason
  that an answer cannot reach a later request. `StripLeavesBare` and `BareStays`
  are the facts about `request_get_path` and the second cut of
  `inotify_watch_tree`; `DispatchIs` sums up the handlers: each answers once and
  does at most one thing to one root.
* `KeepInv` of the dump says where the main thread and the destroy threads can be
  (`Places`, `Workers`), what of the registry is in the file while it is written
  (`WrittenSoFar`), that a start whose dump fits in the buffer has read all of it
  before its first rewrite truncates the file (`Starts`), and that a watch is
  answered only when its root is in the file (`Answered`). A cut entry lies beyond the
  first buffer, so a start whose dump fits meets none; the entries that are skipped
  as invalid are those of roots with room for no events, which are not `Lasting`.
* `PidInv` says which process may own the pid file: a daemon that has found no
  other (`Late`), or one that serves, and that the bound addresses are those of the
  server. `DumpInv` extends `DumpShowsConfig` to the states in which the main frame
  is in the loop and no handler is between a reload and `print_config`.

Each of these was checked with TLC as an invariant of the corresponding run before
it was proved (of `WireInv` the bounded part); those of `TreesStayCovered` also on a
chain of four directories with 8 operations and with a cleanup and a rewatch, under
`Calm` and `NamesRest` (919 k and 458 k states); `WatchFound` and `WatchTaken` with a
cleanup and a rewatch on the chain of `live` (3.6 M states), and with two addresses
and four calls under `OwnWalks` (433 k). A preservation proof has one step
per action or group of actions with the same effect.

### The hypotheses

* `RootsDisjoint` excludes `/` because the code does overlap there (line 915).
* `RootsStay`: requests name the root without a trailing slash, as
  `request_get_path` leaves it (`RootNamesNormal`), and other processes neither
  move nor remove the directory of a root itself. `_destroy_root` leaves the watch
  of the root's directory behind (line 1046), and `DescriptorsKnown` excepts that
  directory by its name; moved elsewhere, it would be a watch nobody knows.
* `OwnWalks`: while a root's tree is taken out of the tables, the walks that visit it
  are that root's own, and the root is not `/`. With one Root at a time it holds in
  every state (TLC checks it on the instance of `destroy`, together with
  `ListedAll`). It excludes walks left over from a Root that was freed and walks for
  a root that the unanchored search took for the path's; both can record a directory
  behind the destruction (section 6).
* `UnwatchSetting`: `RootsStay`, nobody renames directories, `/` is not watched, and
  no two of the trees that clients ask for lie one inside the other. After renames
  and with nested trees `DestroyUnwatches` is false (section 6).
* `CoverSetting`: `/` is not watched, nobody renames directories or removes those of
  the roots, threads can be made, and clients ask for `IN_CREATE` among the events.
  Without `IN_CREATE` in its mask a root hears of no new directory, since the mask of
  the client is the one given to the kernel (line 1423).
  `Calm`: no root is paused or destroyed on the way, and neither limit of the kernel
  is met. A paused root misses directories (`v_pause`) and an overflow is never made
  good (section 6); both are real exceptions.
  `NamesRest`: a directory is created only when its path is in neither table and
  no deletion of it is waiting, being handled, or about to be acted upon by the
  cleanup. Without it the theorem is false: the counterexample of section 6 was found
  when `Current` turned out not to be inductive.
* `Apart`: one start at a time and daemons only; otherwise `check_pid` and
  `write_pid` race, and a foreground process removes the daemon's pid file
  (section 6).
* `Sole`: all processes write the same `config.dump`, and a second one replaces
  what the first has written.
* `ZmqAssumptions`, `CtlAssumptions`: a field of a message has at most one value, of
  the type the parser asks for (a mistyped field passes for a missing one), and the
  entries of the dump were written under the names of roots.

The first attempt at `ZmqTypeCorrect` failed for the bound of a queue: an earlier
form of `ZmqTypeOK` did not allow for a negative `max_events`. The instance has had
such a message since.

### Only model-checked

* `DestroyEnds`, `EventuallyCovered`, `CommandEnds`, `PingEnds`, `NeverHangs` and
  `ReloadFollows` are liveness under fairness, which this prover does not treat.
* `QuietCovered` for names that do not rest, in trees of three levels (`cover`).

## 5. Assumptions of the models

* An address is not handed out again before the destroy thread of its last Root
  has ended. Walks and the main thread may still hold it.
* The kernel never gives the same watch descriptor out twice, merges only equal
  neighbouring events, and reports each operation atomically.
* A freed Root keeps its path and mask until its address is used again; only
  `destroy` is read as an arbitrary value.
* Reads of a memclean or rewatch flag while it is written give the old or the new
  value.
* What is written to a file before a crash stays there; a truncation is in the file
  at once. (The machine itself does not fail.)
* Edits of the configuration file happen in seconds of their own.
* `RootDump` gives an answered unwatch a destroy thread; `registry` has the case
  that none can be started.

## 6. What the models show besides

Deviations that TLC reproduces when the exception is taken out of a property, or
that are plain in a single definition:

* **Renames** (line 1442). When a directory is renamed before its walk ran, or
  twice, `inotify_add_watch` returns a descriptor still recorded under the old
  name; `_do_watch_tree_rec` returns without recording the new one, and later
  events are reported under a path that no longer exists. `QuietCovered` fails when
  `"rename"` is added to `cover`.
* **Names used again** (lines 435 and 1457). The removal of a directory is handled by
  its path, so an event that was reported for one directory can take away the watch of
  its successor. In `/r/a`: other processes remove `a`, make `a`, `a/b` and `a/b/c`,
  and the first walk of `/r` records the three before any event is handled. "delete a"
  then takes the new `a` out of the tables and of the kernel. Now `c` and `b` are removed;
  the removal of `c` is reported by the watch of `b`, the removal of `b` by nobody, so
  the descriptor of the old `b` stays in `inotify_wd_to_watch`. `b` and `c` are made
  again, and the walk for the creation of `a` records them with new descriptors. At
  last "delete c" arrives, for the old descriptor of `b` and so for the path of the
  new `c`, whose watch it removes. Nothing is waiting any more and `c` is not watched. TLC
  finds it as a violation of `QuietCovered` on a chain of four directories with 8
  operations.
* **Rewatch** (line 1394). The comment says an already watched directory is skipped
  "and move on down the tree"; the code returns instead, and since it starts at the
  root it never finds an orphan. So nothing repairs an overflow of the kernel
  queue, whose event is skipped as bogus (line 223) before its own test.
* **The root's own watch** (line 1046). `_destroy_root` takes the root out of the
  tables without `inotify_rm_watch`; `DescriptorsKnown` and `DestroyUnwatches`
  except that directory. A root around it inherits the leak: watch `/r/a`, unwatch it,
  watch `/r` and unwatch that before its walk reaches `a`. No table names the watch
  that the first unwatch left on `/r/a`, so the second one does not remove it, and it
  is below its root now. `DestroyUnwatches` fails with the requests of `registry`, two
  directories and no operation of other processes.
* **Unwatch after renames** (line 1453). A directory `b` that was recorded, renamed to
  `a` and replaced by a new `b` keeps its descriptor in one table only: the new Watch
  took its place in the path table, and `_destroy_root` goes by that table. The
  kernel goes on watching it after the unwatch. `DestroyUnwatches` fails with three
  operations when `"rename"` is added to `FsOps` on two names.
* **Walks that outlive their Root** (line 1506). `_destroy_root` frees the Root while
  its walks may still hold it; such a walk reads `destroy` from freed memory. If the
  path is watched again, at another address, and unwatched while the old walk goes
  on, the walk can record a directory after the key list was taken, and the entry
  stays. `DestroyLeavesNoEntry` fails with two addresses and four calls.
* **Roots under destruction** (line 747). `get_events` reads a queue that
  `_destroy_root` has freed; `get_queue_size` has a test for it, `get_events` not.
  Likewise `inotify_watch_tree` reads a Root after the unlock (line 1171), and
  `_destroy_root` and the event handler may free a Watch twice (line 1032). The
  model lets the process end at each of these points.
* **Unanchored search** (line 864): with roots `/r` and `/s`, events of `/s/r/a`
  may be queued for `/r`. **The path `/`** (line 915): no parent is found for it, so
  it may be watched beside roots inside it; and as its
  entries do not start with `//`, `_destroy_root` leaves those of its directories in the tables.
* **memclean** (line 1710) acts on a `stat` made before it has the lock: a directory
  recreated in between loses its fresh watch.
* **Lost deletions** (line 435): the deletion of a directory that is not in the
  tables yet is not queued.
* **A destroy thread that cannot start** (line 959) leaves a root that is silent
  and cannot be unwatched again.
* **Memory** (`zeromq.c:118`, `reply.c:46`): a failed allocation leaves `zmq_mutex`
  locked or the socket unanswered, and the server deaf.
* **Numbers** (`request.c:203`): `rewatch: 0` turns rewatching on; a count of -1
  passes for no count and takes one event, though lines 223-229 and 241-245 say that a
  negative one takes none (`TakesAsAsked` without `MistakenForNone` is refuted); a
  missing path of a watch is reported as not absolute (`zeromq.c:195`).
* **Large dumps** (line 153): a dump that outgrows the stdio buffer is truncated
  under the reader, and a line cut after its path makes `atoi` read a null pointer
  at every start; one cut after the sign of its last number is skipped.
* **`max_events` 0** (line 161): `max_inotify_events = 0` is accepted
  (`config.c:151`) and becomes the limit of a watch that names none
  (`zeromq.c:245-246`). Its root is dumped as `path,mask,0`, the next start skips that
  line as invalid, and the next dump erases it: the root is lost although `rewatch`
  was asked for. `RewatchSet` leaves such roots out of its promise.
* **Pid file** (`main.c:248-369`): overlapping starts both pass `check_pid`; SIGINT
  of a foreground process removes the daemon's file; a crash inside `write_pid`
  leaves an empty file, and `check_pid` then reads `CONFIG` before it exists, so no
  daemon starts until it is removed; a reused pid blocks the start.
* **Configuration**: an edit between the load and the mtime of `init_config`
  (`config.c:113`) is missed; a reload of a file that vanishes stores mtime 0 and no
  later edit is seen (`config.c:299`); a log file that cannot be opened ends the
  process at the next message (`config.c:312`, `log.c:123`); an absent or misspelt
  `log_level` keeps the old level on a reload, where `etc/inotispy.conf:53-54` says
  that it becomes `notice`; NOTE 2 of the same file (lines 66-71) says that a change
  is detected, but a daemon without traffic never looks (`main.c:217`);
  `clear_config` frees the default `zmq_uri`, a string literal (`main.c:313`), and may
  end there, before it removes `config.dump`.
* **Signals** (`main.c:357`): SIGINT or SIGHUP while `inotify_mutex`, or SIGHUP while
  `main_mutex`, is held by the main thread hangs the daemon (`Trapped`). The handlers
  also allocate and write to streams, so one that interrupts malloc or stdio may hang
  on a lock of libc; that is outside the model.

## 7. Plan

1. *(done)* The event path: `Paths`, `Kernel`, `InotifyState`, `WatchThreads`,
   `Inotify`, with `EventQueues` as the abstract specification.
2. *(done)* Types and registry proofs; the queues of paused roots.
3. *(done)* `RootDump` and `RewatchSet`; `Request`, `Zeromq` and `Inotispyctl`;
   `Config` and `Daemon`.
4. *(done)* Proofs of the watch tables, of both refinements (`EventQueues`,
   `RewatchSet`), of the sockets and of the daemon.
5. *(done)* The proofs of `QuietCovered` for names that rest (`CoverProofs`) and of
   `DestroyUnwatches` without renames.
6. Left: `QuietCovered` with names used again in trees of three levels, and the
   progress of the threads, which is model-checked.

## 8. Running

    tlc -workers 2 -config cover.cfg MCInotify
    tlc -workers 2 -config requests.cfg MCZeromq
    tlapm ZmqProofs.tla

## 9. Not modelled

* The JSON grammar, the wording of answers and of the log, syslog priorities, and
  what `inotispyctl` prints: output without state.
* The characters of a path: a comma in a line of the dump, lines longer than its
  1024 bytes. Names with quotes or braces are one set (`Awkward`).
* The search for the configuration file along the XDG directories, which GLib does,
  and the creation of `/var/run/inotispy`.
* A second edit within a second, and failures of the file system other than a log
  file that cannot be opened.
* Failing allocations inside `inotify.c`, which leave `inotify_mutex` locked at
  lines 598, 610 and 617.
* The init scripts and the examples and bindings in other languages: they start the
  daemon or are clients like those of `Inotispyctl`.
* `persist` is a field for a future feature that no code reads; `subscribe` answers
  a constant.
* The locks of libc (malloc, stdio) that the signal handlers take besides the two
  mutexes of the program.
