---------------------------- MODULE CoverProofs ----------------------------
(***************************************************************************)
(* When everything is quiet, every directory of every root is watched: the *)
(* argument that no order of walks, events, cleanups and rewatches leaves  *)
(* a directory behind, and the assumptions it needs.                       *)
(***************************************************************************)
EXTENDS TableProofs, WellFoundedInduction, NaturalsInduction

-----------------------------------------------------------------------------
(* The assumptions.                                                        *)

(* With a directory, a set of directories has those above it.              *)
ClosedUp(S) == \A p \in S : Len(p) = 1 \/ Front(p) \in S

(* The setting: "/" is no root, the directories of the roots stay, nobody  *)
(* renames directories, threads can be made, and clients ask for IN_CREATE *)
(* among the events of a root.                                             *)
CoverSetting ==
    /\ Slash \notin Path /\ ClosedUp(Path) /\ ClosedUp(InitDirs)
    /\ RootsStay
    /\ "rename" \notin FsOps
    /\ ~ThreadsMayFail
    /\ \A q \in Requests : q.call = "watch" => "create" \in q.mask

(* No root is paused or being destroyed, and neither limit of the kernel,  *)
(* on watches and on queued events, has been met.                          *)
Calm ==
    /\ \A p \in Registered :
         ~heap[inotify_roots[p]].pause /\ ~heap[inotify_roots[p]].destroy
    /\ \A d \in Path : ~AddWatchFails(d)
    /\ Overflow \notin ToSet(kq)

(* The event at the head of the batch is being handled.                    *)
Handling == main.pc \in {"dir", "enqueue"}

(* The events that inotify_handle_event() has not looked at.               *)
Waiting == ToSet(kq) \union ToSet(IF Handling THEN Tail(batch) ELSE batch)

(* Event e is about the entry at path p, as far as the table knows.        *)
About(e, p) ==
    /\ e.wd \in Wd /\ WatchLive(e.wd)
    /\ AbsPath(inotify_wd_to_watch[e.wd], e.name) = p

(* Some thread is about to take the Watch of path p out of the tables: the *)
(* deletion was reported, or the cleanup found no directory there.         *)
Going(p) ==
    \/ \E e \in Waiting : e.kind = "delete" /\ About(e, p)
    \/ main.pc = "dir" /\ Head(batch).kind = "delete" /\ EventPath = p
    \/ \E c \in Cleaner : cleaner[c].pc = "remove" /\ cleaner[c].path = p

(* The tables do not know path p, and nobody is about to remove it.        *)
Forgotten(p) == inotify_path_to_watch[p] = 0 /\ ~Going(p)

(* A step gives a new directory no name that the daemon has still to       *)
(* forget; and the names of removed directories may rest that long.        *)
NameRests == \A p \in dirs' \ dirs : Forgotten(p)
NamesRest == [][NameRests]_vars

-----------------------------------------------------------------------------
(* The inductive invariant, in the order in which its parts build on each  *)
(* other.                                                                  *)

(* The main thread's own state.                                            *)
BatchEmpty == main.pc \notin {"event", "dir", "enqueue"} => batch = <<>>
Spawning ==
    main.pc \in {"watch_dump", "watch_spawn"} =>
        main.path \in Registered /\ inotify_roots[main.path] = main.root
TodoLive == main.pc = "rewatch_next" => \A a \in main.todo : Live(a)
MasksCreate ==
    /\ main.pc \in {"watch_check", "watch_open", "watch_insert"} =>
         "create" \in main.req.mask
    /\ \A p \in Registered : "create" \in heap[inotify_roots[p]].mask
Grounded ==
    /\ ClosedUp(dirs) /\ Registered \subseteq dirs
    /\ main.pc = "watch_insert" => main.path \in dirs

MainHolds == BatchEmpty /\ Spawning /\ TodoLive /\ MasksCreate /\ Grounded

(* Everything the threads work on lies in the tree of a root.              *)
Claimed(p) == \E r \in Registered : p = r \/ Below(p, r)

WalksInTrees ==
    \A w \in Walker :
        walker[w].pc # "idle" =>
            /\ Live(walker[w].root)
            /\ Claimed(walker[w].path)
            /\ \A p \in walker[w].todo : Claimed(p)
            /\ walker[w].pc = "start" =>
                 Len(heap[walker[w].root].path) <= Len(walker[w].path)
EventInTree ==
    Handling => /\ Claimed(main.path)
                /\ Len(heap[main.root].path) <= Len(main.path)
WatchesInTrees == \A v \in Wd : WatchLive(v) => Claimed(inotify_wd_to_watch[v])

InTrees == WalksInTrees /\ EventInTree /\ WatchesInTrees

(* A watched directory is on disk and tracked, and for IN_CREATE.          *)
Held ==
    \A d \in Path :
        kwatch[d].wd # 0 => d \in dirs /\ Tracked(d) /\ "create" \in kwatch[d].mask

(* What the path table says of a directory on disk is its watch, and       *)
(* nobody is about to remove that.                                         *)
Current ==
    \A d \in dirs : inotify_path_to_watch[d] \in {0, kwatch[d].wd} /\ ~Going(d)

(* Events carry descriptors that were given out.                           *)
Early ==
    \A e \in ToSet(kq) \union ToSet(batch) : e.wd < nextWd /\ e.kind # "moved_from"

NamesHold == Held /\ Current /\ Early

(* A walk has p before it, or is about to list the directory p.            *)
Coming(p) ==
    \E w \in Walker :
        \/ walker[w].pc \in {"start", "visit"} /\ walker[w].path = p
        \/ walker[w].pc # "idle" /\ p \in walker[w].todo
Listing(p) == \E w \in Walker : walker[w].pc = "list" /\ walker[w].path = p

(* The creation of directory d was reported and is still to be handled.    *)
Announces(e, d) ==
    e.kind = "create" /\ e.wd = kwatch[Parent(d)].wd /\ e.name = Last(d)
Announced(d) ==
    \/ main.pc = "dir" /\ Head(batch).kind = "create" /\ EventPath = d
    \/ \E e \in Waiting : Announces(e, d)

(* No component is one of rsync's scratch names.                           *)
Plain(d) == \A i \in 1 .. Len(d) : d[i] \notin TmpNames

(* Every root, and every directory in a directory that is watched, is      *)
(* watched itself or somebody is on the way to it.                         *)
RootPromise ==
    \A r \in Registered :
        \/ kwatch[r].wd # 0 \/ ~Plain(r)
        \/ Coming(r)
        \/ main.pc \in {"watch_dump", "watch_spawn"} /\ main.path = r
Missing(d) ==
    /\ d \in dirs /\ d \notin Registered /\ Claimed(d) /\ Plain(d)
    /\ kwatch[d].wd = 0 /\ kwatch[Parent(d)].wd # 0
DirPromise ==
    \A d \in Path : Missing(d) => Coming(d) \/ Listing(Parent(d)) \/ Announced(d)

Promise == RootPromise /\ DirPromise

-----------------------------------------------------------------------------
(* The steps of a calm daemon.                                             *)

(* Where the end of a stage leads.                                         *)
StagePc == {"poll", "memclean", "inotify", "zmq"}

(* The main thread moves on to the next stage.                             *)
LEMMA StageEnds ==
    /\ \A S : ToStage(S) => main'.pc \in StagePc
    /\ \A code, events, size : Answer(code, events, size) => main'.pc \in StagePc
    /\ \A code : Error(code) => main'.pc \in StagePc
    /\ Success => main'.pc \in StagePc
    /\ \A events : Deliver(events) => main'.pc \in StagePc
  BY DEF ToStage, IdleMain, NextStage, Answer, Error, Success, Deliver, StagePc

(* A registered Root is neither paused nor marked, and what a thread reads *)
(* of a live Root is that.                                                 *)
LEMMA CalmRoots ==
    ASSUME RegistryInv, Calm
    PROVE  /\ \A a \in Addr : Live(a) =>
                /\ ~heap[a].pause /\ ~heap[a].destroy
                /\ heap[a].path \in Registered /\ inotify_roots[heap[a].path] = a
                /\ \A destroy \in DestroyReads(a) : ~destroy
           /\ \A a \in Addr : destroyer[a].pc \in {"none", "dump"}
<1>1. ASSUME NEW a \in Addr, Live(a)
      PROVE  /\ ~heap[a].pause /\ ~heap[a].destroy
             /\ heap[a].path \in Registered /\ inotify_roots[heap[a].path] = a
  BY <1>1, RegisteredRoot DEF RegistryInv, OwnPath, Calm
<1>2. \A a \in Addr : Live(a) => \A destroy \in DestroyReads(a) : ~destroy
  BY <1>1 DEF DestroyReads
<1>3. \A a \in Addr : destroyer[a].pc \in {"none", "dump"}
  BY <1>1 DEF RegistryInv, DestroyerHolds, TypeOK, ThreadsTypeOK, DestroyerType
<1> QED
  BY <1>1, <1>2, <1>3

(* The steps beside the main thread; of the threads that destroy roots, a  *)
(* calm daemon has none.                                                   *)
Beside == UNCHANGED <<main, batch, rootVars>>

(* Every step of the main thread, one by one, or one beside it.            *)
LEMMA CalmSteps ==
    ASSUME RegistryInv, Calm, Calm', [Next]_vars
    PROVE  \/ Beside
           \/ Poll \/ InotifyMemclean \/ InotifyRewatchRoots \/ RewatchDone
           \/ \E a \in Addr : RewatchNext(a)
           \/ ReadEvents \/ LookupEvent \/ EventsDone
           \/ NewDirectory \/ LostDirectory \/ InotifyEnqueue
           \/ \E r \in Requests : ZmqDispatchEvent(r)
           \/ WatchCheck \/ WatchClash \/ WatchOpen \/ WatchInsert \/ WatchDump
           \/ WatchSpawn \/ Unwatch \/ PauseTree \/ UnpauseTree
           \/ GetEvents \/ InotifyDequeue \/ QueueSize
<1>1. ASSUME NEW w \in Walker, WalkerStep(w) PROVE Beside
  BY <1>1 DEF Beside, WalkerStep, WalkerStart, WalkerVisit, WalkerList, WalkerLoop,
              WalkerEnd
<1>2. ASSUME NEW c \in Cleaner, CleanerStep(c) PROVE Beside
  BY <1>2 DEF Beside, CleanerStep, MemcleanStart, MemcleanSnapshot, MemcleanScan,
              MemcleanRemove, MemcleanEnd
<1>3. Environment \/ UNCHANGED vars => Beside
  BY DEF Environment, vars, Beside
<1>4. ASSUME NEW a \in Addr, DestroyerStep(a) PROVE Beside
  <2>1. DestroyDump(a)
    BY <1>4, CalmRoots DEF DestroyerStep, DestroyBegin, DestroyScan, DestroyUnwatch,
                           DestroyForget, DestroyEnd
  <2> QED
    BY <2>1 DEF DestroyDump, Beside
<1> QED
  BY <1>1, <1>2, <1>3, <1>4 DEF Next, MainStep

(* A root stays registered, with its path and its mask.                    *)
LEMMA RootsLast ==
    ASSUME RegistryInv, Calm, Calm', [Next]_vars
    PROVE  /\ \A p \in Registered : p \in Registered' /\ inotify_roots'[p] = inotify_roots[p]
           /\ \A a \in Addr : Live(a) => /\ Live(a)'
                                         /\ heap'[a].path = heap[a].path
                                         /\ heap'[a].mask = heap[a].mask
<1>1. TypeOK
  BY DEF RegistryInv
<1>2. \A p \in Registered : p \in Registered' /\ inotify_roots'[p] = inotify_roots[p]
  <2>1. CASE UNCHANGED <<inotify_roots, inotify_num_watched_roots>>
    BY <2>1, SameRoots
  <2>2. CASE WatchInsert
    <3> PICK a \in Addr : Register(main.path, a)
      BY <2>2 DEF WatchInsert
    <3>1. main.path \in Path /\ main.path \notin Registered
          /\ Registered' = Registered \union {main.path}
      BY <2>2, InsertAdds
    <3> QED
      BY <1>1, <3>1 DEF Register, Registered, TypeOK, RootsTypeOK
  <2>3. ASSUME NEW a \in Addr, DestroyEnd(a) PROVE FALSE
    BY <2>3, CalmRoots DEF DestroyEnd
  <2> QED
    BY <2>1, <2>2, <2>3, TableSteps
<1>3. \A a \in Addr : Live(a) => Live(a)'
  <2> TAKE a \in Addr
  <2> HAVE Live(a)
  <2> PICK p \in Registered : inotify_roots[p] = a
    BY <1>1, RegisteredRoot
  <2> QED
    BY <1>2 DEF Live, Registered
<1>4. ASSUME NEW a \in Addr, Live(a)
      PROVE  heap'[a].path = heap[a].path /\ heap'[a].mask = heap[a].mask
  <2>1. CASE Elsewhere \/ Turn
    BY <2>1 DEF Elsewhere, Turn, rootVars
  <2>2. CASE \/ LookupEvent \/ NewDirectory \/ LostDirectory
             \/ \E r \in Requests : ZmqDispatchEvent(r)
             \/ WatchCheck \/ WatchOpen \/ GetEvents \/ WatchDump
    BY <1>1, <2>2, Readers DEF rootVars
  <2>3. CASE WatchInsert
    <3> PICK b \in Addr :
           FreeAddr(b) /\ heap' = [heap EXCEPT ![b] = NewRoot(main.req, main.path)]
      BY <2>3 DEF WatchInsert
    <3> QED
      BY <1>1, <1>4 DEF FreeAddr, TypeOK, RootsTypeOK
  <2>4. CASE \/ InotifyEnqueue \/ Unwatch \/ PauseTree \/ UnpauseTree \/ InotifyDequeue
             \/ \E b \in Addr : DestroyerStep(b)
    <3>1. \E b, v : \/ heap' = heap
                    \/ heap' = [heap EXCEPT ![b].queue = v]
                    \/ heap' = [heap EXCEPT ![b].pause = v]
                    \/ heap' = [heap EXCEPT ![b].destroy = v]
      BY <2>4 DEF InotifyEnqueue, Unwatch, PauseTree, UnpauseTree, InotifyDequeue,
                  SetPause, DestroyerStep, DestroyBegin, DestroyScan, DestroyUnwatch,
                  DestroyForget, DestroyEnd, DestroyDump, rootVars
    <3> PICK b, v : \/ heap' = heap
                    \/ heap' = [heap EXCEPT ![b].queue = v]
                    \/ heap' = [heap EXCEPT ![b].pause = v]
                    \/ heap' = [heap EXCEPT ![b].destroy = v]
      BY <3>1
    <3>2. heap \in [Addr -> RootType]
      BY <1>1 DEF TypeOK, RootsTypeOK
    <3>3. CASE heap' = [heap EXCEPT ![b].queue = v]
      BY <3>2, <3>3 DEF RootType
    <3>4. CASE heap' = [heap EXCEPT ![b].pause = v]
      BY <3>2, <3>4 DEF RootType
    <3>5. CASE heap' = [heap EXCEPT ![b].destroy = v]
      BY <3>2, <3>5 DEF RootType
    <3> QED
      BY <3>3, <3>4, <3>5
  <2> QED
    BY <1>1, <2>1, <2>2, <2>3, <2>4, StepKinds
<1> QED
  BY <1>2, <1>3, <1>4

(* What lies in the tree of a root stays there.                            *)
LEMMA ClaimsLast ==
    ASSUME RegistryInv, Calm, Calm', [Next]_vars
    PROVE  \A p : Claimed(p) => Claimed(p)'
  BY RootsLast DEF Claimed

-----------------------------------------------------------------------------
(* The main thread's own state.                                            *)

(* The batch is worked off before the loop over it is left.                *)
LEMMA BatchKept ==
    ASSUME RegistryInv, Calm, Calm', BatchEmpty, [Next]_vars
    PROVE  BatchEmpty'
<1>1. TypeOK
  BY DEF RegistryInv
<1> USE DEF BatchEmpty
<1>2. CASE Beside
  BY <1>2 DEF Beside
<1>3. CASE Poll \/ RewatchDone \/ WatchClash \/ WatchSpawn \/ QueueSize
  BY <1>3 DEF Poll, RewatchDone, WatchClash, WatchSpawn, QueueSize
<1>4. CASE \/ InotifyMemclean \/ InotifyRewatchRoots \/ \E a \in Addr : RewatchNext(a)
  BY <1>4 DEF InotifyMemclean, InotifyRewatchRoots, RewatchNext
<1>5. CASE ReadEvents
  BY <1>1, <1>5 DEF ReadEvents, TypeOK, MainTypeOK, MainType
<1>6. CASE LookupEvent
  BY <1>1, <1>6, DropPc DEF LookupEvent, TypeOK, MainTypeOK, MainType
<1>7. CASE EventsDone
  BY <1>7 DEF EventsDone
<1>8. CASE NewDirectory \/ LostDirectory
  BY <1>1, <1>8, Readers
<1>9. CASE InotifyEnqueue
  BY <1>1, <1>9, DropPc DEF InotifyEnqueue
<1>10. CASE \E r \in Requests : ZmqDispatchEvent(r)
  BY <1>10 DEF ZmqDispatchEvent
<1>11. CASE WatchCheck \/ WatchOpen \/ WatchInsert \/ WatchDump \/ Unwatch
  BY <1>11 DEF WatchCheck, WatchOpen, WatchInsert, WatchDump, Unwatch
<1>12. CASE PauseTree \/ UnpauseTree \/ GetEvents \/ InotifyDequeue
  BY <1>12 DEF PauseTree, UnpauseTree, GetEvents, InotifyDequeue
<1> QED
  BY <1>2, <1>3, <1>4, <1>5, <1>6, <1>7, <1>8, <1>9, <1>10, <1>11, <1>12, CalmSteps

(* The places of the main thread that the other parts speak of are entered *)
(* by one handler each.                                                    *)
LEMMA PlacesEntered ==
    ASSUME RegistryInv, Calm, Calm', [Next]_vars
    PROVE  /\ main'.pc = "watch_dump" => Beside \/ WatchInsert
           /\ main'.pc = "watch_spawn" => Beside \/ WatchDump
           /\ main'.pc = "rewatch_next" =>
                Beside \/ InotifyRewatchRoots \/ \E a \in Addr : RewatchNext(a)
           /\ main'.pc = "watch_check" =>
                Beside \/ \E r \in Requests : ZmqDispatchEvent(r)
           /\ main'.pc = "watch_open" => Beside \/ WatchCheck
           /\ main'.pc = "watch_insert" => Beside \/ WatchOpen
           /\ main'.pc = "dir" => Beside \/ LookupEvent
           /\ main'.pc = "enqueue" =>
                Beside \/ LookupEvent \/ NewDirectory \/ LostDirectory
<1>1. TypeOK
  BY DEF RegistryInv
<1>2. CASE Poll \/ RewatchDone \/ EventsDone
  BY <1>2, StageEnds DEF Poll, RewatchDone, EventsDone, StagePc
<1>3. CASE WatchClash \/ WatchSpawn \/ QueueSize \/ InotifyDequeue \/ UnpauseTree
  BY <1>3, StageEnds DEF WatchClash, WatchSpawn, QueueSize, InotifyDequeue, UnpauseTree,
                         StagePc
<1>4. CASE InotifyMemclean \/ ReadEvents
  BY <1>1, <1>4 DEF InotifyMemclean, ReadEvents, TypeOK, MainTypeOK, MainType
<1>5. CASE InotifyRewatchRoots
  BY <1>1, <1>5, StageEnds DEF InotifyRewatchRoots, StagePc, TypeOK, MainTypeOK, MainType
<1>6. ASSUME NEW a \in Addr, RewatchNext(a) PROVE main'.pc = "rewatch_next"
  BY <1>1, <1>6 DEF RewatchNext, TypeOK, MainTypeOK, MainType
<1>7. LookupEvent => main'.pc \in {"event", "dir", "enqueue"}
  BY <1>1, DropPc DEF LookupEvent, TypeOK, MainTypeOK, MainType
<1>8. NewDirectory \/ LostDirectory => main'.pc \in {"event", "enqueue"}
  BY <1>1, Readers
<1>9. InotifyEnqueue => main'.pc = "event"
  BY <1>1, DropPc DEF InotifyEnqueue
<1>10. CASE Unwatch
  <2>1. UNCHANGED main => Beside
    <3> SUFFICES ASSUME UNCHANGED main PROVE Beside
      OBVIOUS
    <3>1. main.pc = "unwatch_use" /\ main'.pc \notin StagePc
      BY <1>10 DEF Unwatch, StagePc
    <3>2. ~Success /\ \A code : ~Error(code)
      BY <3>1, StageEnds
    <3> QED
      BY <1>10, <3>2 DEF Unwatch, Beside, rootVars
  <2>2. UNCHANGED main \/ main'.pc \in StagePc
    BY <1>10, StageEnds DEF Unwatch
  <2> QED
    BY <2>1, <2>2 DEF StagePc
<1>11. CASE PauseTree
  <2>1. Error("not_watched") \/ Continue(main.req, "get", main.path, NULL)
    BY <1>11 DEF PauseTree
  <2>2. main'.pc \in StagePc \union {"get"}
    BY <1>1, <2>1, StageEnds, ContinuePc
  <2> QED
    BY <2>2 DEF StagePc
<1>12. CASE \/ \E r \in Requests : ZmqDispatchEvent(r)
            \/ WatchCheck \/ WatchOpen \/ WatchInsert \/ WatchDump \/ GetEvents
  <2>1. ASSUME NEW r \in Requests, ZmqDispatchEvent(r)
        PROVE  main'.pc \notin {"rewatch_next"}
    BY <1>1, <2>1, StageEnds, ContinuePc
    DEF ZmqDispatchEvent, EventWatch, EventUnwatch, EventOnRoot, EventQuery, StagePc
  <2>2. WatchCheck \/ WatchOpen \/ GetEvents => main'.pc # "rewatch_next"
    BY <1>1, StageEnds, ContinuePc DEF WatchCheck, WatchOpen, GetEvents, StagePc
  <2> QED
    BY <1>1, <1>12, <2>1, <2>2, Readers DEF LoopPc
<1>13. CASE \/ Beside \/ InotifyRewatchRoots \/ \E a \in Addr : RewatchNext(a)
            \/ LookupEvent \/ NewDirectory \/ LostDirectory \/ InotifyEnqueue
  BY <1>5, <1>6, <1>7, <1>8, <1>9, <1>13
<1> QED
  BY <1>2, <1>3, <1>4, <1>10, <1>11, <1>12, <1>13, CalmSteps

(* Who changes the disk and the kernel's queue.                            *)
LEMMA DiskSteps ==
    ASSUME RegistryInv, Calm, Calm', [Next]_vars
    PROVE  UNCHANGED <<dirs, kq>> \/ Environment \/ (ReadEvents /\ UNCHANGED dirs)
<1>1. ASSUME NEW w \in Walker, WalkerStep(w) PROVE UNCHANGED <<dirs, kq>>
  BY <1>1 DEF WalkerStep, WalkerStart, WalkerVisit, WalkerList, WalkerLoop,
              WalkerEnd, kernelVars
<1>2. ASSUME NEW c \in Cleaner, CleanerStep(c) PROVE UNCHANGED <<dirs, kq>>
  BY <1>2 DEF CleanerStep, MemcleanStart, MemcleanSnapshot, MemcleanScan,
              MemcleanRemove, MemcleanEnd, kernelVars
<1>3. ASSUME NEW a \in Addr, DestroyerStep(a) PROVE UNCHANGED <<dirs, kq>>
  BY <1>3 DEF DestroyerStep, DestroyBegin, DestroyScan, DestroyUnwatch,
              DestroyForget, DestroyEnd, DestroyDump, kernelVars
<1>4. UNCHANGED vars => UNCHANGED <<dirs, kq>>
  BY DEF vars, kernelVars
<1>5. \/ Poll \/ InotifyMemclean \/ InotifyRewatchRoots \/ RewatchDone
      \/ (\E a \in Addr : RewatchNext(a)) \/ LookupEvent \/ EventsDone
      => UNCHANGED <<dirs, kq>>
  BY DEF Poll, InotifyMemclean, InotifyRewatchRoots, RewatchDone, RewatchNext,
         LookupEvent, EventsDone, kernelVars
<1>6. \/ NewDirectory \/ LostDirectory \/ InotifyEnqueue
      \/ (\E r \in Requests : ZmqDispatchEvent(r))
      => UNCHANGED <<dirs, kq>>
  BY DEF NewDirectory, LostDirectory, InotifyEnqueue, ZmqDispatchEvent, kernelVars
<1>7. \/ WatchCheck \/ WatchClash \/ WatchOpen \/ WatchInsert \/ WatchDump
      \/ WatchSpawn \/ Unwatch
      => UNCHANGED <<dirs, kq>>
  BY DEF WatchCheck, WatchClash, WatchOpen, WatchInsert, WatchDump, WatchSpawn,
         Unwatch, kernelVars
<1>8. PauseTree \/ UnpauseTree \/ GetEvents \/ InotifyDequeue \/ QueueSize
      => UNCHANGED <<dirs, kq>>
  BY DEF PauseTree, UnpauseTree, GetEvents, InotifyDequeue, QueueSize, kernelVars
<1>9. ReadEvents => UNCHANGED dirs
  BY DEF ReadEvents
<1> QED
  BY <1>1, <1>2, <1>3, <1>4, <1>5, <1>6, <1>7, <1>8, <1>9 DEF Next, MainStep

(* Without renames a step of other processes is one of these.              *)
LEMMA PlainFsSteps ==
    ASSUME CoverSetting, Environment
    PROVE  \/ \E p \in Path : Mkdir(p)
           \/ \E p \in Path : Rmdir(p)
           \/ \E p \in Path : WriteFile(p)
  BY DEF CoverSetting, Environment, FsStep, Rename, FsOp

(* Where a directory hangs, when "/" is none.                              *)
LEMMA ParentFront ==
    ASSUME CoverSetting
    PROVE  /\ \A p \in Path : Len(p) \in Nat \ {0}
           /\ \A p \in Path : Parent(p) \in Path <=> Len(p) # 1
           /\ \A p \in Path : Len(p) # 1 => Parent(p) = Front(p) /\ Front(p) \in Path
<1>1. \A p \in Path : Len(p) \in Nat \ {0}
  BY PathAssumption DEF NoPath
<1> QED
  BY <1>1 DEF CoverSetting, ClosedUp, Parent

(* Other processes create directories in directories, and remove empty     *)
(* ones, none of them a root.                                              *)
LEMMA GroundKept ==
    ASSUME CoverSetting, RegistryInv, RootsAsked, Calm, Calm', Grounded, [Next]_vars
    PROVE  Grounded'
<1>1. TypeOK
  BY DEF RegistryInv
<1>2. dirs \subseteq Path
  BY <1>1 DEF TypeOK, KernelTypeOK
<1>3. ClosedUp(dirs)'
  <2>1. CASE UNCHANGED dirs
    BY <2>1 DEF Grounded, ClosedUp
  <2>2. ASSUME NEW p \in Path, Mkdir(p) PROVE ClosedUp(dirs)'
    <3>1. Len(p) = 1 \/ Front(p) \in dirs
      BY <2>2, ParentFront DEF Mkdir, Exists
    <3>2. dirs' = dirs \union {p}
      BY <2>2 DEF Mkdir
    <3> QED
      BY <3>1, <3>2 DEF Grounded, ClosedUp
  <2>3. ASSUME NEW p \in Path, Rmdir(p) PROVE ClosedUp(dirs)'
    <3>1. \A d \in dirs : Len(d) = 1 \/ (Front(d) \in dirs /\ Front(d) # p)
      BY <1>2, <2>3, ParentFront DEF Rmdir, Grounded, ClosedUp
    <3>2. dirs' = dirs \ {p}
      BY <2>3 DEF Rmdir
    <3> QED
      BY <3>1, <3>2 DEF ClosedUp
  <2>4. ASSUME NEW p \in Path, WriteFile(p) PROVE UNCHANGED dirs
    BY <2>4 DEF WriteFile
  <2> QED
    BY <2>1, <2>2, <2>3, <2>4, DiskSteps, PlainFsSteps
<1>4. \A d \in dirs : d \in Stable => d \in dirs'
  <2>1. ASSUME NEW p \in Path, Mkdir(p) \/ Rmdir(p) \/ WriteFile(p)
        PROVE  \A d \in dirs : d \in Stable => d \in dirs'
    BY <2>1 DEF Mkdir, Rmdir, WriteFile
  <2> QED
    BY <2>1, DiskSteps, PlainFsSteps
<1>5. \A p \in WatchPaths : p \in dirs => p \in dirs'
  BY <1>2, <1>4 DEF CoverSetting, RootsStay
<1>6. Registered' \subseteq dirs'
  <2>1. Registered \subseteq dirs'
    BY <1>5 DEF Grounded, RootsAsked
  <2>2. CASE UNCHANGED <<inotify_roots, inotify_num_watched_roots>>
    BY <2>1, <2>2, SameRoots
  <2>3. CASE WatchInsert
    BY <1>5, <2>1, <2>3, InsertAdds DEF WatchInsert, Grounded, RootsAsked
  <2>4. ASSUME NEW a \in Addr, DestroyEnd(a) PROVE Registered' \subseteq dirs'
    BY <2>1, <2>4, EndRemoves
  <2> QED
    BY <2>2, <2>3, <2>4, TableSteps
<1>7. main'.pc = "watch_insert" => main'.path \in dirs'
  <2>1. CASE Beside
    BY <1>5, <2>1 DEF Beside, Grounded, RootsAsked
  <2>2. CASE WatchOpen /\ main'.pc = "watch_insert"
    <3>1. main'.path = main.path /\ main.path \in dirs /\ UNCHANGED dirs
      BY <1>1, <2>2, StageEnds, ContinuePc DEF WatchOpen, StagePc, kernelVars
    <3> QED
      BY <3>1
  <2> QED
    BY <2>1, <2>2, PlacesEntered
<1> QED
  BY <1>3, <1>6, <1>7 DEF Grounded

(* The Roots that the main thread works on, and the masks they have.       *)
LEMMA RootsKept ==
    ASSUME CoverSetting, RegistryInv, Calm, Calm', Spawning, TodoLive, MasksCreate,
           [Next]_vars
    PROVE  Spawning' /\ TodoLive' /\ MasksCreate'
<1>1. TypeOK
  BY DEF RegistryInv
<1>2. Spawning'
  <2>1. CASE Beside
    BY <2>1, RootsLast DEF Beside, Spawning
  <2>2. CASE WatchInsert
    <3> PICK a \in Addr : /\ Register(main.path, a)
                          /\ Continue(main.req, "watch_dump", main.path, a)
      BY <2>2 DEF WatchInsert
    <3>1. main'.path = main.path /\ main'.root = a
      BY <1>1, ContinuePc
    <3>2. main.path \in Path /\ Registered' = Registered \union {main.path}
      BY <2>2, InsertAdds
    <3>3. inotify_roots'[main.path] = a
      BY <1>1, <3>2 DEF Register, TypeOK, RootsTypeOK
    <3> QED
      BY <3>1, <3>2, <3>3 DEF Spawning
  <2>3. CASE WatchDump
    <3>1. main.pc = "watch_dump" /\ main'.path = main.path /\ main'.root = main.root
      BY <1>1, <2>3, ContinuePc DEF WatchDump
    <3> QED
      BY <3>1, RootsLast DEF Spawning
  <2> QED
    BY <2>1, <2>2, <2>3, PlacesEntered DEF Spawning
<1>3. TodoLive'
  <2>0. \A a \in Addr : Live(a) => Live(a)'
    BY RootsLast
  <2>1. CASE Beside
    BY <1>1, <2>0, <2>1 DEF Beside, TodoLive, TypeOK, MainTypeOK, MainType
  <2>2. CASE InotifyRewatchRoots /\ main'.pc = "rewatch_next"
    <3>1. main'.todo = {inotify_roots[p] : p \in Registered}
      BY <1>1, <2>2, StageEnds
      DEF InotifyRewatchRoots, StagePc, TypeOK, MainTypeOK, MainType
    <3> QED
      BY <1>1, <2>0, <3>1, RegisteredRoot DEF TodoLive
  <2>3. ASSUME NEW a \in Addr, RewatchNext(a) PROVE TodoLive'
    <3>1. main.pc = "rewatch_next" /\ main'.todo \subseteq main.todo
          /\ main.todo \subseteq Addr
      BY <1>1, <2>3 DEF RewatchNext, TypeOK, MainTypeOK, MainType
    <3> QED
      BY <2>0, <3>1 DEF TodoLive
  <2> QED
    BY <2>1, <2>2, <2>3, PlacesEntered DEF TodoLive
<1>4. main'.pc \in {"watch_check", "watch_open", "watch_insert"} =>
        "create" \in main'.req.mask
  <2>1. CASE Beside
    BY <2>1 DEF Beside, MasksCreate
  <2>2. CASE WatchCheck /\ main'.pc = "watch_open"
    BY <1>1, <2>2, StageEnds, ContinuePc DEF WatchCheck, MasksCreate, StagePc
  <2>3. CASE WatchOpen /\ main'.pc = "watch_insert"
    BY <1>1, <2>3, StageEnds, ContinuePc DEF WatchOpen, MasksCreate, StagePc
  <2>4. ASSUME NEW r \in Requests, ZmqDispatchEvent(r), main'.pc = "watch_check"
        PROVE  "create" \in main'.req.mask
    <3>1. main'.pc \notin StagePc
      BY <2>4 DEF StagePc
    <3>2. ~EventUnwatch(r) /\ ~EventOnRoot(r) /\ ~EventQuery(r)
      BY <1>1, <2>4, <3>1, StageEnds, ContinuePc
      DEF EventUnwatch, EventOnRoot, EventQuery
    <3>3. EventWatch(r)
      BY <2>4, <3>2 DEF ZmqDispatchEvent
    <3>4. main'.req = r /\ r.call = "watch"
      BY <1>1, <3>1, <3>3, StageEnds, ContinuePc DEF EventWatch
    <3> QED
      BY <3>4 DEF CoverSetting
  <2> QED
    BY <2>1, <2>2, <2>3, <2>4, PlacesEntered
<1>5. \A p \in Registered' : "create" \in heap'[inotify_roots'[p]].mask
  <2>1. \A p \in Registered : "create" \in heap'[inotify_roots'[p]].mask
    BY <1>1, RootsLast, RegisteredRoot DEF MasksCreate
  <2>2. CASE UNCHANGED <<inotify_roots, inotify_num_watched_roots>>
    BY <2>1, <2>2, SameRoots
  <2>3. CASE WatchInsert
    <3> PICK a \in Addr : /\ Register(main.path, a)
                          /\ heap' = [heap EXCEPT ![a] = NewRoot(main.req, main.path)]
      BY <2>3 DEF WatchInsert
    <3>1. main.path \in Path /\ Registered' = Registered \union {main.path}
      BY <2>3, InsertAdds
    <3>2. inotify_roots'[main.path] = a
      BY <1>1, <3>1 DEF Register, TypeOK, RootsTypeOK
    <3>3. heap'[a].mask = main.req.mask
      BY <1>1 DEF NewRoot, TypeOK, RootsTypeOK
    <3> QED
      BY <2>1, <2>3, <3>1, <3>2, <3>3 DEF MasksCreate, WatchInsert
  <2>4. ASSUME NEW a \in Addr, DestroyEnd(a) PROVE FALSE
    BY <2>4, CalmRoots DEF DestroyEnd
  <2> QED
    BY <2>2, <2>3, <2>4, TableSteps
<1> QED
  BY <1>2, <1>3, <1>4, <1>5 DEF MasksCreate

(* The main thread's own state, as an invariant of a calm daemon.          *)
LEMMA MainInvariant ==
    ASSUME CoverSetting
    PROVE  Spec /\ []Calm => []MainHolds
<1>1. Init => MainHolds
  <2> SUFFICES ASSUME Init PROVE MainHolds
    OBVIOUS
  <2>1. /\ main.pc = "poll" /\ batch = <<>> /\ Registered = {} /\ dirs = InitDirs
    BY DEF Init, KernelInit, Registered, IdleMain
  <2> QED
    BY <2>1 DEF MainHolds, BatchEmpty, Spawning, TodoLive, MasksCreate, Grounded,
                CoverSetting, ClosedUp
<1>2. RegistryInv /\ WatchInv /\ Calm /\ Calm' /\ MainHolds /\ [Next]_vars => MainHolds'
  BY BatchKept, GroundKept, RootsKept DEF MainHolds, WatchInv
<1>3. Spec => []WatchInv
  BY WatchInvariant DEF CoverSetting
<1> QED
  BY <1>1, <1>2, <1>3, RegistryInvariant, PTL DEF Spec

-----------------------------------------------------------------------------
(* Paths above and below each other.                                       *)

(* Being below, component by component.                                    *)
LEMMA BelowMeans ==
    ASSUME NEW p \in Seq(Name), NEW r \in Seq(Name)
    PROVE  Below(p, r) <=> Len(r) < Len(p) /\ \A i \in 1 .. Len(r) : p[i] = r[i]
<1>1. SubSeq(r, 1, Len(r)) = r
  OBVIOUS
<1>2. ASSUME Len(r) <= Len(p)
      PROVE  /\ SubSeq(p, 1, Len(r)) \in Seq(Name)
             /\ Len(SubSeq(p, 1, Len(r))) = Len(r)
             /\ \A i \in 1 .. Len(r) : SubSeq(p, 1, Len(r))[i] = p[i]
  BY <1>2
<1>3. ASSUME Len(r) <= Len(p), SubSeq(p, 1, Len(r)) = r
      PROVE  \A i \in 1 .. Len(r) : p[i] = r[i]
  BY <1>2, <1>3
<1>4. ASSUME Len(r) <= Len(p), \A i \in 1 .. Len(r) : p[i] = r[i]
      PROVE  SubSeq(p, 1, Len(r)) = r
  BY <1>2, <1>4
<1>5. ASSUME Len(r) = Len(p), \A i \in 1 .. Len(r) : p[i] = r[i]
      PROVE  p = r
  BY <1>5
<1> QED
  BY <1>1, <1>3, <1>4, <1>5 DEF Below, IsStrictPrefix, IsPrefix

(* An entry lies where its directory lies.                                 *)
LEMMA EntryBelow ==
    ASSUME NEW p \in Seq(Name), NEW n \in Name, NEW r \in Seq(Name)
    PROVE  (p = r \/ Below(p, r)) <=> Below(Append(p, n), r)
<1> DEFINE d == Append(p, n)
<1>1. d \in Seq(Name) /\ Len(d) = Len(p) + 1 /\ \A i \in 1 .. Len(p) : d[i] = p[i]
  OBVIOUS
<1> HIDE DEF d
<1>2. p = r => Below(d, r)
  BY <1>1, BelowMeans
<1>3. Below(p, r) => Below(d, r)
  BY <1>1, BelowMeans
<1>4. ASSUME Below(d, r) PROVE p = r \/ Below(p, r)
  <2>1. Len(r) <= Len(p) /\ \A i \in 1 .. Len(r) : p[i] = r[i]
    BY <1>1, <1>4, BelowMeans
  <2>2. CASE Len(r) = Len(p)
    BY <2>1, <2>2
  <2>3. CASE Len(r) < Len(p)
    BY <2>1, <2>3, BelowMeans
  <2> QED
    BY <2>1, <2>2, <2>3
<1> QED
  BY <1>2, <1>3, <1>4 DEF d

(* A directory is the entry of its parent under its last component.        *)
LEMMA LastEntry ==
    ASSUME NEW d \in Seq(Name), d # NoPath
    PROVE  /\ Front(d) \in Seq(Name) /\ Last(d) \in Name
           /\ d = Append(Front(d), Last(d))
           /\ Len(Front(d)) = Len(d) - 1
<1>1. Len(d) \in Nat \ {0}
  BY DEF NoPath
<1>2. /\ Front(d) \in Seq(Name) /\ Last(d) \in Name /\ Len(Front(d)) = Len(d) - 1
      /\ \A i \in 1 .. Len(d) - 1 : Front(d)[i] = d[i]
  <2>1. PICK n \in Nat : n = Len(d) - 1
    BY <1>1
  <2>2. n <= Len(d) /\ Len(d) \in 1 .. Len(d)
    BY <1>1, <2>1
  <2>3. /\ SubSeq(d, 1, n) \in Seq(Name) /\ Len(SubSeq(d, 1, n)) = n
        /\ \A i \in 1 .. n : SubSeq(d, 1, n)[i] = d[i]
    BY <2>2
  <2>4. Last(d) \in Name
    BY <2>2 DEF Last
  <2> QED
    BY <2>1, <2>3, <2>4 DEF Front
<1> DEFINE f == Front(d)
           l == Last(d)
<1>3. l = d[Len(d)]
  BY DEF Last
<1> HIDE DEF f, l
<1>4. /\ Append(f, l) \in Seq(Name) /\ Len(Append(f, l)) = Len(d)
      /\ \A i \in 1 .. Len(d) : Append(f, l)[i] = d[i]
  BY <1>1, <1>2, <1>3 DEF f, l
<1>5. d = Append(f, l)
  BY <1>4
<1> QED
  BY <1>2, <1>5 DEF f, l

(* An entry of p is p and a name.                                          *)
LEMMA AppendEntry ==
    ASSUME NEW p \in Seq(Name), NEW n \in Name
    PROVE  Front(Append(p, n)) = p /\ Last(Append(p, n)) = n
<1>1. Append(p, n) \in Seq(Name) /\ Len(Append(p, n)) = Len(p) + 1
      /\ Append(p, n)[Len(p) + 1] = n
      /\ \A i \in 1 .. Len(p) : Append(p, n)[i] = p[i]
  OBVIOUS
<1>2. SubSeq(Append(p, n), 1, Len(p)) = p
  <2> DEFINE f == SubSeq(Append(p, n), 1, Len(p))
  <2>1. f \in Seq(Name) /\ Len(f) = Len(p) /\ \A i \in 1 .. Len(p) : f[i] = p[i]
    BY <1>1
  <2> HIDE DEF f
  <2>2. f = p
    BY <2>1
  <2> QED
    BY <2>2 DEF f
<1> QED
  BY <1>1, <1>2 DEF Front, Last

(* Two paths above a third lie above each other.                           *)
LEMMA BothAbove ==
    ASSUME NEW p \in Seq(Name), NEW r \in Seq(Name), NEW s \in Seq(Name),
           p = r \/ Below(p, r), p = s \/ Below(p, s)
    PROVE  r = s \/ Below(r, s) \/ Below(s, r)
<1>1. /\ Len(r) <= Len(p) /\ \A i \in 1 .. Len(r) : p[i] = r[i]
      /\ Len(s) <= Len(p) /\ \A i \in 1 .. Len(s) : p[i] = s[i]
  BY BelowMeans
<1>2. CASE Len(r) = Len(s)
  BY <1>1, <1>2
<1>3. CASE Len(r) < Len(s)
  BY <1>1, <1>3, BelowMeans
<1>4. CASE Len(s) < Len(r)
  BY <1>1, <1>4, BelowMeans
<1> QED
  BY <1>2, <1>3, <1>4

(* A match of strstr() is no longer than the string.                       *)
LEMMA StrstrLen ==
    ASSUME NEW p \in Seq(Name), NEW r \in Seq(Name), Strstr(p, r)
    PROVE  Len(r) <= Len(p)
<1> PICK s \in Suffixes(p) : Len(r) <= Len(s)
  BY DEF Strstr, IsStrictPrefix, IsPrefix
<1>1. Len(s) <= Len(p)
  BY DEF Suffixes
<1> QED
  BY <1>1 DEF Suffixes

(* The entries of a directory in a tree are in the tree, and conversely.   *)
LEMMA ClaimedEntry ==
    ASSUME CoverSetting, NEW p \in Seq(Name), NEW n \in Name
    PROVE  /\ Claimed(p) => Claimed(Append(p, n))
           /\ Claimed(Append(p, n)) => Claimed(p) \/ Append(p, n) \in Registered
<1>1. Registered \subseteq Seq(Name)
  BY PathAssumption DEF Registered
<1> QED
  BY <1>1, EntryBelow DEF Claimed

(* The same for a directory and its parent.                                *)
LEMMA ClaimedChild ==
    ASSUME CoverSetting, NEW d \in Path
    PROVE  /\ Claimed(Parent(d)) => Claimed(d)
           /\ Claimed(d) /\ d \notin Registered => Claimed(Parent(d)) /\ Len(d) # 1
<1>1. d \in Seq(Name) /\ d # NoPath /\ Registered \subseteq Path
      /\ Path \subseteq Seq(Name)
  BY PathAssumption DEF Registered
<1>2. ~Claimed(Slash)
  <2> SUFFICES ASSUME NEW r \in Registered, Slash = r \/ Below(Slash, r) PROVE FALSE
    BY DEF Claimed
  <2>1. Slash \in Seq(Name) /\ Len(Slash) = 1
    BY PathFacts DEF Slash
  <2>2. r \in Seq(Name) /\ r # Slash /\ r # NoPath
    BY <1>1, PathAssumption DEF CoverSetting
  <2> QED
    BY <2>1, <2>2, BelowMeans DEF NoPath
<1>3. CASE Len(d) = 1
  <2>1. ASSUME NEW r \in Registered, Below(d, r) PROVE FALSE
    BY <1>1, <1>3, <2>1, BelowMeans, PathAssumption DEF NoPath
  <2> QED
    BY <1>2, <1>3, <2>1 DEF Parent, Claimed
<1>4. CASE Len(d) # 1
  BY <1>1, <1>4, LastEntry, ClaimedEntry DEF Parent
<1> QED
  BY <1>3, <1>4

-----------------------------------------------------------------------------
(* Everything happens in the trees of the roots.                           *)

(* Who starts walks, and who takes them further.                           *)
LEMMA WalkSteps ==
    ASSUME RegistryInv, Calm, Calm', [Next]_vars
    PROVE  \/ UNCHANGED walker
           \/ \E w \in Walker : WalkerStep(w)
           \/ \E a \in Addr : RewatchNext(a)
           \/ NewDirectory \/ WatchSpawn
<1>1. ASSUME NEW c \in Cleaner, CleanerStep(c) PROVE UNCHANGED walker
  BY <1>1 DEF CleanerStep, MemcleanStart, MemcleanSnapshot, MemcleanScan,
              MemcleanRemove, MemcleanEnd
<1>2. ASSUME NEW a \in Addr, DestroyerStep(a) PROVE UNCHANGED walker
  BY <1>2 DEF DestroyerStep, DestroyBegin, DestroyScan, DestroyUnwatch,
              DestroyForget, DestroyEnd, DestroyDump
<1>3. UNCHANGED vars \/ Environment => UNCHANGED walker
  BY DEF vars, Environment, threadVars
<1>4. \/ Poll \/ InotifyMemclean \/ InotifyRewatchRoots \/ RewatchDone
      \/ ReadEvents \/ LookupEvent \/ EventsDone
      => UNCHANGED walker
  BY DEF Poll, InotifyMemclean, InotifyRewatchRoots, RewatchDone, ReadEvents,
         LookupEvent, EventsDone, threadVars
<1>5. \/ LostDirectory \/ InotifyEnqueue \/ (\E r \in Requests : ZmqDispatchEvent(r))
      => UNCHANGED walker
  BY DEF LostDirectory, InotifyEnqueue, ZmqDispatchEvent, threadVars
<1>6. \/ WatchCheck \/ WatchClash \/ WatchOpen \/ WatchInsert \/ WatchDump \/ Unwatch
      => UNCHANGED walker
  BY DEF WatchCheck, WatchClash, WatchOpen, WatchInsert, WatchDump, Unwatch, threadVars
<1>7. PauseTree \/ UnpauseTree \/ GetEvents \/ InotifyDequeue \/ QueueSize
      => UNCHANGED walker
  BY DEF PauseTree, UnpauseTree, GetEvents, InotifyDequeue, QueueSize, threadVars
<1> QED
  BY <1>1, <1>2, <1>3, <1>4, <1>5, <1>6, <1>7 DEF Next, MainStep

(* A new walk replaces an idle thread.                                     *)
LEMMA SpawnedWalk ==
    ASSUME TypeOK, NEW p, NEW a, NEW cleanup, SpawnWalker(p, a, cleanup)
    PROVE  \E w \in Walker :
             /\ walker[w].pc = "idle"
             /\ walker'[w] = [pc |-> "start", root |-> a, cleanup |-> cleanup,
                              path |-> p, todo |-> {}]
             /\ \A v \in Walker : v # w => walker'[v] = walker[v]
  BY DEF SpawnWalker, TypeOK, ThreadsTypeOK

(* A step of a walk, as it looks in a calm daemon: the walk begins with    *)
(* its path, visits it, lists its entries and takes them one by one.       *)
LEMMA WalkMoves ==
    ASSUME RegistryInv, Calm, WalksInTrees, NEW w \in Walker, WalkerStep(w)
    PROVE  /\ \A v \in Walker : v # w => walker'[v] = walker[v]
           /\ \/ /\ WalkerStart(w) /\ walker[w].pc = "start"
                 /\ walker'[w].pc = "visit" /\ walker'[w].path = walker[w].path
                 /\ walker'[w].todo = walker[w].todo /\ walker'[w].root = walker[w].root
              \/ /\ WalkerVisit(w) /\ walker[w].pc = "visit"
                 /\ walker'[w].pc \in {"list", "loop"} /\ walker'[w].path = walker[w].path
                 /\ walker'[w].todo = walker[w].todo /\ walker'[w].root = walker[w].root
              \/ /\ WalkerList(w) /\ walker[w].pc = "list"
                 /\ walker'[w].pc = "loop" /\ walker'[w].path = walker[w].path
                 /\ walker'[w].todo = walker[w].todo \union Children(walker[w].path)
                 /\ walker'[w].root = walker[w].root
              \/ /\ WalkerLoop(w) /\ walker[w].pc = "loop"
                 /\ walker'[w].pc = "visit" /\ walker'[w].path \in walker[w].todo
                 /\ walker'[w].todo = walker[w].todo \ {walker'[w].path}
                 /\ walker'[w].root = walker[w].root
              \/ /\ WalkerEnd(w) /\ walker[w].pc = "loop" /\ walker[w].todo = {}
                 /\ walker'[w].pc = "idle"
<1>1. walker \in [Walker -> WalkerType]
  BY DEF RegistryInv, TypeOK, ThreadsTypeOK
<1>2. ASSUME walker[w].pc # "idle"
      PROVE  Live(walker[w].root) /\ walker[w].root \in Addr
  BY <1>2 DEF WalksInTrees, RegistryInv, TypeOK, ThreadsTypeOK
<1>3. walker[w].pc # "idle" =>
        \A destroy \in DestroyReads(walker[w].root) : ~destroy
  BY <1>2, CalmRoots
<1>4. CASE WalkerStart(w)
  <2>1. walker[w].pc = "start"
    BY <1>4 DEF WalkerStart
  <2>2. ~(Len(walker[w].path) < Len(heap[walker[w].root].path))
    <3>1. heap[walker[w].root].path \in Seq(Name) /\ walker[w].path \in Seq(Name)
      BY <1>1, <1>2, <2>1, PathFacts
      DEF RegistryInv, TypeOK, RootsTypeOK, RootType, WalkerType
    <3> QED
      BY <2>1, <3>1 DEF WalksInTrees
  <2>3. walker' = [walker EXCEPT ![w].pc = "visit"]
    BY <1>3, <1>4, <2>1, <2>2 DEF WalkerStart
  <2> QED
    BY <1>1, <1>4, <2>1, <2>3 DEF WalkerType
<1>5. CASE WalkerVisit(w)
  <2>1. walker[w].pc = "visit"
    BY <1>5 DEF WalkerVisit
  <2>2. \/ walker' = [walker EXCEPT ![w].pc = "list"]
        \/ walker' = [walker EXCEPT ![w].pc = "loop"]
    BY <1>5 DEF WalkerVisit, WalkOn
  <2> QED
    BY <1>1, <1>5, <2>1, <2>2 DEF WalkerType
<1>6. CASE WalkerList(w)
  BY <1>1, <1>6 DEF WalkerList, WalkerType
<1>7. CASE WalkerLoop(w)
  <2>1. walker[w].pc = "loop"
    BY <1>7 DEF WalkerLoop
  <2>2. PICK p \in walker[w].todo :
          walker' = [walker EXCEPT ![w].pc = "visit", ![w].path = p,
                                   ![w].todo = @ \ {p}]
    BY <1>3, <1>7, <2>1 DEF WalkerLoop, Top
  <2> QED
    BY <1>1, <1>7, <2>1, <2>2 DEF WalkerType
<1>8. CASE WalkerEnd(w)
  BY <1>1, <1>8 DEF WalkerEnd, IdleWalker
<1> QED
  BY <1>4, <1>5, <1>6, <1>7, <1>8 DEF WalkerStep

(* Walks start and go on in the trees of roots.                            *)
LEMMA WalksKept ==
    ASSUME CoverSetting, RegistryInv, Calm, Calm', MainHolds, InTrees, [Next]_vars
    PROVE  WalksInTrees'
<1> DEFINE Good(v) ==
      walker[v].pc # "idle" =>
          /\ Live(walker[v].root)
          /\ Claimed(walker[v].path)
          /\ \A p \in walker[v].todo : Claimed(p)
          /\ walker[v].pc = "start" =>
               Len(heap[walker[v].root].path) <= Len(walker[v].path)
<1> USE DEF InTrees
<1>1. TypeOK
  BY DEF RegistryInv
<1>2. \A v \in Walker : walker[v].pc # "idle" => walker[v].root \in Addr
  BY <1>1 DEF TypeOK, ThreadsTypeOK
<1>3. \A v \in Walker : Good(v)
  BY DEF WalksInTrees
<1>4. ASSUME NEW v \in Walker, walker'[v] = walker[v] PROVE Good(v)'
  BY <1>2, <1>3, <1>4, RootsLast, ClaimsLast
<1>5. ASSUME NEW p \in Seq(Name), NEW a \in Addr, NEW cleanup, SpawnWalker(p, a, cleanup),
             Live(a), Claimed(p), Len(heap[a].path) <= Len(p)
      PROVE  \A v \in Walker : Good(v)'
  <2> PICK w \in Walker :
         /\ walker'[w] = [pc |-> "start", root |-> a, cleanup |-> cleanup,
                          path |-> p, todo |-> {}]
         /\ \A v \in Walker : v # w => walker'[v] = walker[v]
    BY <1>1, <1>5, SpawnedWalk
  <2>1. Good(w)'
    BY <1>5, RootsLast, ClaimsLast
  <2> QED
    BY <1>4, <2>1
<1>6. CASE UNCHANGED walker
  BY <1>4, <1>6 DEF WalksInTrees
<1>7. ASSUME NEW w \in Walker, WalkerStep(w) PROVE WalksInTrees'
  <2>1. walker'[w].pc # "idle" => walker[w].pc # "idle" /\ walker'[w].root = walker[w].root
        /\ walker'[w].pc # "start"
    BY <1>7, WalkMoves
  <2>2. ASSUME walker'[w].pc # "idle"
        PROVE  Claimed(walker'[w].path) /\ \A p \in walker'[w].todo : Claimed(p)
    <3>1. CASE WalkerList(w) /\ walker'[w].path = walker[w].path
               /\ walker'[w].todo = walker[w].todo \union Children(walker[w].path)
      <4>1. \A p \in Children(walker[w].path) : p \in Path /\ Parent(p) = walker[w].path
        BY <1>1 DEF Children, TypeOK, KernelTypeOK
      <4> QED
        BY <1>3, <2>1, <2>2, <3>1, <4>1, ClaimedChild
    <3>2. CASE /\ walker'[w].path \in {walker[w].path} \union walker[w].todo
               /\ walker'[w].todo \subseteq walker[w].todo
      BY <1>3, <2>1, <2>2, <3>2
    <3> QED
      BY <1>7, <2>2, <3>1, <3>2, WalkMoves
  <2>3. Good(w)'
    BY <1>2, <1>3, <2>1, <2>2, RootsLast, ClaimsLast
  <2>4. \A v \in Walker : v # w => walker'[v] = walker[v]
    BY <1>7, WalkMoves
  <2> QED
    BY <1>4, <2>3, <2>4 DEF WalksInTrees
<1>8. ASSUME NEW a \in Addr, RewatchNext(a) PROVE WalksInTrees'
  <2>1. Live(a)
    BY <1>8 DEF RewatchNext, MainHolds, TodoLive
  <2>2. heap[a].path \in Registered /\ heap[a].path \in Seq(Name)
    BY <2>1, CalmRoots, PathAssumption DEF Registered
  <2>3. SpawnWalker(heap[a].path, a, TRUE)
    BY <1>8, <2>1, CalmRoots DEF RewatchNext, CoverSetting
  <2>4. Claimed(heap[a].path) /\ Len(heap[a].path) <= Len(heap[a].path)
    BY <2>2 DEF Claimed
  <2> QED
    BY <1>5, <2>1, <2>2, <2>3, <2>4 DEF WalksInTrees
<1>9. CASE NewDirectory
  <2>1. /\ main.pc = "dir" /\ Live(main.root) /\ main.root \in Addr
        /\ main.path \in Seq(Name) /\ Head(batch).name \in Name
        /\ Claimed(main.path) /\ Len(heap[main.root].path) <= Len(main.path)
    <3>1. main.pc = "dir"
      BY <1>9 DEF NewDirectory
    <3>2. batch # <<>> /\ batch \in Seq(KEvent) /\ main.root \in Addr /\ main.path \in Seq(Name)
      BY <1>1, <3>1, PathFacts DEF TypeOK, MainTypeOK
    <3>3. Head(batch) \in KEvent
      BY <3>2
    <3> QED
      BY <3>1, <3>2, <3>3
      DEF KEvent, EventInTree, Handling, RegistryInv, EventHeld
  <2>2. CASE UNCHANGED walker
    BY <1>6, <2>2
  <2>3. CASE SpawnWalker(EventPath, main.root, FALSE)
    <3>1. main.path # Slash
      <4>1. main.path \in Key
        BY <1>1, <2>1 DEF TypeOK, MainTypeOK
      <4> QED
        BY <4>1 DEF Key, Slash, DoubleSlash, CoverSetting
    <3>2. EventPath = Append(main.path, Head(batch).name)
      BY <3>1 DEF EventPath, AbsPath
    <3>3. /\ EventPath \in Seq(Name) /\ Claimed(EventPath)
          /\ Len(EventPath) = Len(main.path) + 1
      BY <2>1, <3>2, ClaimedEntry
    <3>4. heap[main.root].path \in Seq(Name)
      BY <1>1, <2>1, PathFacts DEF TypeOK, RootsTypeOK, RootType
    <3>5. Len(heap[main.root].path) <= Len(EventPath)
      BY <2>1, <3>3, <3>4
    <3> HIDE DEF Good
    <3> QED
      BY <1>5, <2>1, <2>3, <3>3, <3>5 DEF WalksInTrees, Good
  <2> QED
    BY <1>9, <2>2, <2>3 DEF NewDirectory
<1>10. CASE WatchSpawn
  <2>1. /\ main.root \in Addr /\ main.path \in Registered /\ inotify_roots[main.path] = main.root
    BY <1>1, <1>10 DEF WatchSpawn, MainHolds, Spawning, TypeOK, MainTypeOK
  <2>2. Live(main.root) /\ heap[main.root].path = main.path /\ main.path \in Seq(Name)
    BY <1>1, <2>1, RegisteredRoot, PathAssumption DEF RegistryInv, OwnPath, Registered
  <2>3. SpawnWalker(main.path, main.root, FALSE)
    BY <1>10, <2>1, <2>2, CalmRoots DEF WatchSpawn, CoverSetting
  <2>4. Claimed(main.path) /\ Len(main.path) <= Len(main.path)
    BY <2>1, <2>2 DEF Claimed
  <2> QED
    BY <1>5, <2>1, <2>2, <2>3, <2>4 DEF WalksInTrees
<1> QED
  BY <1>6, <1>7, <1>8, <1>9, <1>10, WalkSteps

(* What the main thread holds when it has taken an event.                  *)
LEMMA LookupTakes ==
    ASSUME TypeOK, LookupEvent, main'.pc \in {"dir", "enqueue"}
    PROVE  LET e == Head(batch)
           IN /\ main.pc = "event" /\ batch # <<>> /\ UNCHANGED batch
              /\ e.wd \in Wd /\ WatchLive(e.wd) /\ ~Ignored(e)
              /\ main'.path = inotify_wd_to_watch[e.wd]
              /\ main'.root \in PathToRoot(main'.path)
              /\ main'.pc = IF e.kind \in DirKinds THEN "dir" ELSE "enqueue"
<1>1. ~DropEvent
  BY DropPc
<1>2. PICK a \in FoundRoots(Head(batch)) :
        main' = [main EXCEPT
                   !.pc = IF Head(batch).kind \in DirKinds THEN "dir" ELSE "enqueue",
                   !.root = a,
                   !.path = inotify_wd_to_watch[Head(batch).wd]]
  BY <1>1 DEF LookupEvent
<1>3. /\ main'.pc = IF Head(batch).kind \in DirKinds THEN "dir" ELSE "enqueue"
      /\ main'.root = a /\ main'.path = inotify_wd_to_watch[Head(batch).wd]
  BY <1>2 DEF TypeOK, MainTypeOK, MainType
<1>4. /\ Head(batch).wd \in Wd /\ WatchLive(Head(batch).wd)
      /\ a \in PathToRoot(inotify_wd_to_watch[Head(batch).wd])
  BY DEF FoundRoots
<1> QED
  BY <1>1, <1>3, <1>4 DEF LookupEvent

(* The path of an event lies in the tree of a root, and the root that is   *)
(* found for it is no longer than the path.                                *)
LEMMA EventKept ==
    ASSUME CoverSetting, RegistryInv, Calm, Calm', InTrees, [Next]_vars
    PROVE  EventInTree'
<1> USE DEF InTrees, EventInTree, Handling
<1>1. TypeOK
  BY DEF RegistryInv
<1>2. ASSUME main.pc \in {"dir", "enqueue"}, main'.path = main.path, main'.root = main.root
      PROVE  EventInTree'
  <2>1. Live(main.root) /\ main.root \in Addr
    BY <1>1, <1>2 DEF RegistryInv, EventHeld, TypeOK, MainTypeOK
  <2> QED
    BY <1>2, <2>1, RootsLast, ClaimsLast
<1>3. CASE Beside
  BY <1>2, <1>3 DEF Beside
<1>4. CASE LookupEvent /\ main'.pc \in {"dir", "enqueue"}
  <2> DEFINE p == main'.path
  <2>1. PICK v \in Wd : WatchLive(v) /\ p = inotify_wd_to_watch[v]
    BY <1>1, <1>4, LookupTakes
  <2>2. Claimed(p) /\ p \in Seq(Name)
    BY <1>1, <2>1, PathFacts DEF WatchesInTrees, TypeOK, TablesTypeOK
  <2>3. main'.root \in PathToRoot(p)
    BY <1>1, <1>4, LookupTakes
  <2> HIDE DEF p
  <2>4. IsRoot(Slash) = NULL
    BY DEF IsRoot, CoverSetting
  <2>5. PICK r \in Registered : main'.root = inotify_roots[r] /\ (p = r \/ Strstr(p, r))
    BY <2>3, <2>4 DEF PathToRoot
  <2>6. heap[main'.root].path = r /\ main'.root \in Addr /\ Live(main'.root)
        /\ r \in Seq(Name)
    BY <1>1, <2>5, RegisteredRoot, PathAssumption DEF RegistryInv, OwnPath, Registered
  <2>7. Len(r) <= Len(p)
    BY <2>2, <2>5, <2>6, StrstrLen
  <2> QED
    BY <2>2, <2>6, <2>7, RootsLast, ClaimsLast DEF p
<1>5. CASE (NewDirectory \/ LostDirectory) /\ main'.pc = "enqueue"
  <2>1. ToEnqueue
    BY <1>1, <1>5, DropPc DEF NewDirectory, LostDirectory
  <2>2. main.pc = "dir" /\ main'.path = main.path /\ main'.root = main.root
    BY <1>1, <1>5, <2>1
    DEF NewDirectory, LostDirectory, ToEnqueue, TypeOK, MainTypeOK, MainType
  <2> QED
    BY <1>2, <2>2
<1> QED
  BY <1>3, <1>4, <1>5, PlacesEntered

(* The steps that write the tables in a calm daemon: visits record, and    *)
(* the event handler and the cleanup forget the entries of one path.       *)
LEMMA CalmWriters ==
    ASSUME RegistryInv, Calm, Calm', [Next]_vars
    PROVE  \/ UNCHANGED <<kwatch, nextWd, tableVars>>
           \/ Environment /\ UNCHANGED tableVars
           \/ LostDirectory
           \/ \E w \in Walker : WalkerVisit(w)
           \/ \E c \in Cleaner : MemcleanRemove(c)
<1>1. TypeOK
  BY DEF RegistryInv
<1>2. ASSUME NEW a \in Addr, DestroyerStep(a) PROVE UNCHANGED <<kwatch, nextWd, tableVars>>
  <2>1. DestroyDump(a)
    BY <1>2, CalmRoots DEF DestroyerStep, DestroyBegin, DestroyScan, DestroyUnwatch,
                           DestroyForget, DestroyEnd
  <2> QED
    BY <2>1 DEF DestroyDump, kernelVars
<1>3. Unwatch \/ TablesAlone => UNCHANGED <<kwatch, nextWd, tableVars>>
  BY DEF Unwatch, TablesAlone, kernelVars
<1>4. Environment => UNCHANGED tableVars
  BY DEF Environment
<1> QED
  BY <1>1, <1>2, <1>3, <1>4, WriterSteps

(* A Watch is recorded by a walk, which is in a tree.                      *)
LEMMA RecordsKept ==
    ASSUME CoverSetting, RegistryInv, Calm, Calm', InTrees, [Next]_vars
    PROVE  WatchesInTrees'
<1> USE DEF InTrees, WatchesInTrees
<1>1. TypeOK
  BY DEF RegistryInv
<1>2. ASSUME \A v \in Wd : inotify_wd_to_watch'[v] \in {inotify_wd_to_watch[v], NoPath}
      PROVE  WatchesInTrees'
  BY <1>2, ClaimsLast DEF WatchLive
<1>3. ASSUME NEW S, Forget(S) PROVE WatchesInTrees'
  BY <1>2, <1>3 DEF Forget
<1>4. CASE UNCHANGED tableVars
  BY <1>2, <1>4 DEF tableVars
<1>5. CASE LostDirectory
  BY <1>3, <1>4, <1>5 DEF LostDirectory
<1>6. ASSUME NEW c \in Cleaner, MemcleanRemove(c) PROVE WatchesInTrees'
  BY <1>3, <1>6 DEF MemcleanRemove
<1>7. ASSUME NEW w \in Walker, WalkerVisit(w) PROVE WatchesInTrees'
  <2>1. Claimed(walker[w].path)
    BY <1>7 DEF WalkerVisit, WalksInTrees
  <2>2. CASE /\ WdFor(Resolve(walker[w].path)) \in Wd
             /\ RecordWatch(walker[w].path, WdFor(Resolve(walker[w].path)))
    <3>1. \A v \in Wd : inotify_wd_to_watch'[v] \in {inotify_wd_to_watch[v], walker[w].path}
      BY <1>1, <2>2 DEF RecordWatch, tableVars, TypeOK, TablesTypeOK
    <3> QED
      BY <2>1, <3>1, ClaimsLast DEF WatchLive
  <2> QED
    BY <1>1, <1>4, <1>7, <2>2, VisitWatches
<1> QED
  BY <1>4, <1>5, <1>6, <1>7, CalmWriters

(* Walks, events and records never leave the trees of the roots.           *)
LEMMA TreesInvariant ==
    ASSUME CoverSetting
    PROVE  Spec /\ []Calm => []InTrees
<1>1. Init => InTrees
  <2> SUFFICES ASSUME Init PROVE InTrees
    OBVIOUS
  <2>1. /\ main.pc = "poll" /\ \A w \in Walker : walker[w].pc = "idle"
        /\ \A v \in Wd : inotify_wd_to_watch[v] = NoPath
    BY DEF Init, IdleMain, IdleWalker
  <2> QED
    BY <2>1 DEF InTrees, WalksInTrees, EventInTree, WatchesInTrees, WatchLive, Handling
<1>2. RegistryInv /\ MainHolds /\ Calm /\ Calm' /\ InTrees /\ [Next]_vars => InTrees'
  BY WalksKept, EventKept, RecordsKept DEF InTrees
<1>3. Spec /\ []Calm => []MainHolds
  BY MainInvariant
<1> QED
  BY <1>1, <1>2, <1>3, RegistryInvariant, PTL DEF Spec

-----------------------------------------------------------------------------
(* The events on their way.                                                *)

(* The events of a queue are its first one and those behind it.            *)
LEMMA TailSet ==
    ASSUME NEW q \in Seq(KEvent), q # <<>>
    PROVE  ToSet(q) = {Head(q)} \union ToSet(Tail(q)) /\ Tail(q) \in Seq(KEvent)
<1>1. /\ DOMAIN q = 1 .. Len(q) /\ Len(q) \in Nat \ {0} /\ Head(q) = q[1]
      /\ Tail(q) \in Seq(KEvent) /\ DOMAIN Tail(q) = 1 .. Len(q) - 1
      /\ \A i \in 1 .. Len(q) - 1 : Tail(q)[i] = q[i + 1]
  OBVIOUS
<1>2. ASSUME NEW i \in 1 .. Len(q) PROVE q[i] \in {Head(q)} \union ToSet(Tail(q))
  <2>1. CASE i = 1
    BY <1>1, <2>1
  <2>2. CASE i # 1
    <3>1. i - 1 \in 1 .. Len(q) - 1 /\ Tail(q)[i - 1] = q[i]
      BY <1>1, <2>2
    <3> QED
      BY <1>1, <3>1 DEF ToSet
  <2> QED
    BY <2>1, <2>2
<1>3. ASSUME NEW i \in 1 .. Len(q) - 1 PROVE Tail(q)[i] \in ToSet(q)
  <2>1. i + 1 \in 1 .. Len(q)
    BY <1>1
  <2> QED
    BY <1>1, <2>1 DEF ToSet
<1>4. Head(q) \in ToSet(q)
  BY <1>1 DEF ToSet
<1> QED
  BY <1>1, <1>2, <1>3, <1>4 DEF ToSet

(* A read takes the first events and leaves the others.                    *)
LEMMA ReadSet ==
    ASSUME NEW q \in Seq(KEvent)
    PROVE  ToSet(q) = ToSet(FirstEvents(q)) \union
                      ToSet(SubSeq(q, Len(FirstEvents(q)) + 1, Len(q)))
<1>1. PICK n \in Nat : n = (IF Len(q) < ReadMax THEN Len(q) ELSE ReadMax) /\ n <= Len(q)
  BY StateAssumption
<1> DEFINE f == SubSeq(q, 1, n)
           r == SubSeq(q, n + 1, Len(q))
<1>2. /\ DOMAIN f = 1 .. n /\ Len(f) = n /\ \A i \in 1 .. n : f[i] = q[i]
      /\ DOMAIN r = 1 .. Len(q) - n /\ \A i \in 1 .. Len(q) - n : r[i] = q[n + i]
      /\ DOMAIN q = 1 .. Len(q)
  BY <1>1
<1>3. FirstEvents(q) = f /\ SubSeq(q, Len(FirstEvents(q)) + 1, Len(q)) = r
  BY <1>1, <1>2 DEF FirstEvents
<1> HIDE DEF f, r
<1>4. ASSUME NEW i \in 1 .. Len(q) PROVE q[i] \in ToSet(f) \union ToSet(r)
  <2>1. CASE i <= n
    <3>1. i \in 1 .. n
      BY <1>1, <2>1
    <3> QED
      BY <1>2, <3>1 DEF ToSet
  <2>2. CASE i > n
    <3>1. i - n \in 1 .. Len(q) - n /\ n + (i - n) = i
      BY <1>1, <2>2
    <3>2. r[i - n] = q[i]
      BY <1>2, <3>1
    <3> QED
      BY <1>2, <3>1, <3>2 DEF ToSet
  <2> QED
    BY <1>1, <2>1, <2>2
<1>5. \A i \in 1 .. n : f[i] \in ToSet(q)
  BY <1>1, <1>2 DEF ToSet
<1>6. ASSUME NEW i \in 1 .. Len(q) - n PROVE r[i] \in ToSet(q)
  <2>1. n + i \in 1 .. Len(q)
    BY <1>1
  <2> QED
    BY <1>2, <2>1 DEF ToSet
<1>7. ToSet(q) = ToSet(f) \union ToSet(r)
  <2>1. \A x \in ToSet(q) : x \in ToSet(f) \union ToSet(r)
    <3> SUFFICES ASSUME NEW i \in 1 .. Len(q) PROVE q[i] \in ToSet(f) \union ToSet(r)
      BY <1>2 DEF ToSet
    <3> QED
      BY <1>4
  <2>2. \A x \in ToSet(f) : x \in ToSet(q)
    <3> SUFFICES ASSUME NEW i \in 1 .. n PROVE f[i] \in ToSet(q)
      BY <1>2 DEF ToSet
    <3> QED
      BY <1>5
  <2>3. \A x \in ToSet(r) : x \in ToSet(q)
    <3> SUFFICES ASSUME NEW i \in 1 .. Len(q) - n PROVE r[i] \in ToSet(q)
      BY <1>2 DEF ToSet
    <3> QED
      BY <1>6
  <2> QED
    BY <2>1, <2>2, <2>3
<1> QED
  BY <1>3, <1>7

(* A queue that has not overflowed holds the event that was put into it.   *)
LEMMA PushSet ==
    ASSUME NEW q \in Seq(KEvent), NEW e \in KEvent, Overflow \notin ToSet(Push(q, e))
    PROVE  ToSet(Push(q, e)) = ToSet(q) \union {e}
<1>1. ASSUME NEW x \in KEvent PROVE ToSet(Append(q, x)) = ToSet(q) \union {x}
  <2> DEFINE s == Append(q, x)
  <2>1. /\ DOMAIN s = 1 .. Len(q) + 1 /\ DOMAIN q = 1 .. Len(q) /\ Len(q) \in Nat
        /\ s[Len(q) + 1] = x /\ \A i \in 1 .. Len(q) : s[i] = q[i]
    OBVIOUS
  <2> HIDE DEF s
  <2>2. \A i \in 1 .. Len(q) + 1 : i \in 1 .. Len(q) \/ i = Len(q) + 1
    BY <2>1
  <2>3. ToSet(s) = ToSet(q) \union {x}
    BY <2>1, <2>2 DEF ToSet
  <2> QED
    BY <2>3 DEF s
<1>2. Overflow \in KEvent
  BY PathAssumption, KernelAssumption DEF KEvent, Overflow
<1>3. q # <<>> => Last(q) \in ToSet(q)
  <2>1. q # <<>> => Len(q) \in DOMAIN q
    OBVIOUS
  <2> QED
    BY <2>1 DEF Last, ToSet
<1>4. CASE q # <<>> /\ Last(q) = e
  BY <1>3, <1>4 DEF Push
<1>5. CASE ~(q # <<>> /\ Last(q) = e) /\ Len(q) < MaxQueued
  BY <1>1, <1>5 DEF Push
<1>6. CASE ~(q # <<>> /\ Last(q) = e) /\ ~(Len(q) < MaxQueued)
  BY <1>1, <1>2, <1>3, <1>6 DEF Push
<1> QED
  BY <1>4, <1>5, <1>6

(* What a report to the watch of directory d adds to the queue.            *)
LEMMA NotifySet ==
    ASSUME KernelTypeOK, NEW d, NEW kind \in Kinds, NEW n \in Name,
           Overflow \notin ToSet(Notify(kq, d, kind, n))
    PROVE  IF d \in Path /\ kwatch[d].wd # 0 /\ kind \in kwatch[d].mask
           THEN ToSet(Notify(kq, d, kind, n)) =
                  ToSet(kq) \union {[wd |-> kwatch[d].wd, kind |-> kind, name |-> n]}
           ELSE Notify(kq, d, kind, n) = kq
<1>1. kq \in Seq(KEvent)
  BY DEF KernelTypeOK
<1>2. ASSUME d \in Path
      PROVE  [wd |-> kwatch[d].wd, kind |-> kind, name |-> n] \in KEvent
  BY <1>2 DEF KernelTypeOK, KWatch, KEvent
<1> QED
  BY <1>1, <1>2, PushSet DEF Notify

(* Events wait until the lookup takes them from the head of the batch.     *)
LEMMA WaitingSteps ==
    ASSUME RegistryInv, Calm, Calm', BatchEmpty, [Next]_vars, ~Environment
    PROVE  /\ Waiting' \subseteq Waiting
           /\ ~LookupEvent => Waiting' = Waiting
           /\ LookupEvent => /\ Waiting = Waiting' \union {Head(batch)}
                             /\ Head(batch) \in Waiting
           /\ ToSet(kq)' \union ToSet(batch)' \subseteq ToSet(kq) \union ToSet(batch)
<1> USE DEF Waiting, Handling
<1>1. TypeOK
  BY DEF RegistryInv
<1>2. kq \in Seq(KEvent) /\ batch \in Seq(KEvent)
  BY <1>1 DEF TypeOK, KernelTypeOK, MainTypeOK
<1>3. main.pc \in {"dir", "enqueue"} => batch # <<>>
  BY <1>1 DEF TypeOK, MainTypeOK
<1>4. ASSUME DropEvent, batch # <<>>
      PROVE  /\ main'.pc = "event" /\ batch' = Tail(batch)
             /\ ToSet(batch) = {Head(batch)} \union ToSet(batch')
  BY <1>1, <1>2, <1>4, DropPc, TailSet DEF DropEvent
<1>5. CASE ReadEvents
  <2>1. /\ main.pc = "inotify" /\ main'.pc = "event"
        /\ batch' = FirstEvents(kq)
        /\ kq' = SubSeq(kq, Len(FirstEvents(kq)) + 1, Len(kq))
    BY <1>1, <1>5 DEF ReadEvents, TypeOK, MainTypeOK, MainType
  <2>2. batch = <<>>
    BY <2>1 DEF BatchEmpty
  <2>a. ToSet(batch) = {}
    BY <2>2 DEF ToSet
  <2>b. ToSet(kq) = ToSet(FirstEvents(kq)) \union
                    ToSet(SubSeq(kq, Len(FirstEvents(kq)) + 1, Len(kq)))
    BY <1>2, ReadSet
  <2>3. ToSet(kq) = ToSet(batch') \union ToSet(kq') /\ ToSet(batch) = {}
    BY <2>1, <2>a, <2>b
  <2>4. ~LookupEvent
    BY <2>1 DEF LookupEvent
  <2> QED
    BY <2>1, <2>3, <2>4
<1>6. CASE UNCHANGED kq /\ LookupEvent
  <2>1. main.pc = "event" /\ batch # <<>>
    BY <1>6 DEF LookupEvent
  <2>2. CASE DropEvent
    BY <1>4, <1>6, <2>1, <2>2
  <2>3. CASE ~DropEvent
    <3>1. main'.pc \in {"dir", "enqueue"} /\ UNCHANGED batch
      BY <1>1, <1>6, <2>3 DEF LookupEvent, TypeOK, MainTypeOK, MainType
    <3>2. ToSet(batch) = {Head(batch)} \union ToSet(Tail(batch))
      BY <1>2, <2>1, TailSet
    <3> QED
      BY <1>6, <2>1, <3>1, <3>2
  <2> QED
    BY <2>2, <2>3
<1>7. CASE UNCHANGED kq /\ (NewDirectory \/ LostDirectory \/ InotifyEnqueue)
  <2>1. main.pc \in {"dir", "enqueue"} /\ ~LookupEvent
    BY <1>7 DEF NewDirectory, LostDirectory, InotifyEnqueue, LookupEvent
  <2>2. CASE DropEvent
    BY <1>3, <1>4, <1>7, <2>1, <2>2
  <2>3. CASE ToEnqueue
    <3>1. main'.pc = "enqueue" /\ UNCHANGED batch
      BY <1>1, <2>3 DEF ToEnqueue, TypeOK, MainTypeOK, MainType
    <3> QED
      BY <1>7, <2>1, <3>1
  <2> QED
    BY <1>7, <2>2, <2>3 DEF NewDirectory, LostDirectory, InotifyEnqueue
<1>8. CASE /\ UNCHANGED kq /\ ~LookupEvent
           /\ ~NewDirectory /\ ~LostDirectory /\ ~InotifyEnqueue /\ ~ReadEvents
  <2>1. CASE Beside
    BY <1>8, <2>1 DEF Beside
  <2>2. CASE ~Beside
    <3>1. main'.pc \notin {"dir", "enqueue"}
      BY <1>8, <2>2, PlacesEntered
    <3>2. main.pc \notin {"dir", "enqueue"} /\ UNCHANGED batch
      <4>1. CASE \/ Poll \/ InotifyMemclean \/ InotifyRewatchRoots \/ RewatchDone
                 \/ (\E a \in Addr : RewatchNext(a)) \/ EventsDone
        BY <4>1 DEF Poll, InotifyMemclean, InotifyRewatchRoots, RewatchDone, RewatchNext,
                    EventsDone
      <4>2. CASE \/ (\E r \in Requests : ZmqDispatchEvent(r))
                 \/ WatchCheck \/ WatchClash \/ WatchOpen \/ WatchInsert
        BY <4>2 DEF ZmqDispatchEvent, WatchCheck, WatchClash, WatchOpen, WatchInsert
      <4>3. CASE WatchDump \/ WatchSpawn \/ Unwatch
        BY <4>3 DEF WatchDump, WatchSpawn, Unwatch
      <4>4. CASE PauseTree \/ UnpauseTree \/ GetEvents \/ InotifyDequeue \/ QueueSize
        BY <4>4 DEF PauseTree, UnpauseTree, GetEvents, InotifyDequeue, QueueSize
      <4> QED
        BY <1>8, <2>2, <4>1, <4>2, <4>3, <4>4, CalmSteps
    <3> QED
      BY <1>8, <3>1, <3>2
  <2> QED
    BY <2>1, <2>2
<1> QED
  BY <1>5, <1>6, <1>7, <1>8, DiskSteps

-----------------------------------------------------------------------------
(* Watches, names and the events about them.                               *)

(* Paths in the tables, in a setting without "/".                          *)
LEMMA NoSlash ==
    ASSUME CoverSetting
    PROVE  /\ \A p \in Path : Resolve(p) = p
           /\ \A p : Resolve(p) \in Path => p \in Path /\ Resolve(p) = p
           /\ \A p \in Key, n \in Name : AbsPath(p, n) = Append(p, n)
<1>1. Slash \notin Key
  BY DEF CoverSetting, Key, Slash, DoubleSlash
<1> QED
  BY <1>1, PathAssumption DEF CoverSetting, Resolve, AbsPath, Key

(* A visit leaves everything as it is, or finds the directory watched and  *)
(* sets its mask again, or watches it and records it under its path.       *)
LEMMA VisitCases ==
    ASSUME CoverSetting, RegistryInv, TableInv, WatchInv, Calm, MainHolds, InTrees, Held,
           NEW w \in Walker, WalkerVisit(w)
    PROVE  LET p == walker[w].path
               mask == heap[walker[w].root].mask
           IN \/ UNCHANGED <<kwatch, nextWd, tableVars>>
              \/ /\ p \in dirs /\ kwatch[p].wd # 0 /\ "create" \in mask
                 /\ kwatch' = [kwatch EXCEPT ![p] = [wd |-> kwatch[p].wd, mask |-> mask]]
                 /\ UNCHANGED <<nextWd, tableVars>>
              \/ /\ p \in dirs /\ kwatch[p].wd = 0 /\ "create" \in mask
                 /\ nextWd \in Wd /\ nextWd' = nextWd + 1
                 /\ kwatch' = [kwatch EXCEPT ![p] = [wd |-> nextWd, mask |-> mask]]
                 /\ inotify_wd_to_watch[nextWd] = NoPath
                 /\ inotify_wd_to_watch' = [inotify_wd_to_watch EXCEPT ![nextWd] = p]
                 /\ inotify_path_to_watch' = [inotify_path_to_watch EXCEPT ![p] = nextWd]
                 /\ walker'[w].pc = "list"
<1> DEFINE p == walker[w].path
           mask == heap[walker[w].root].mask
<1>1. TypeOK
  BY DEF RegistryInv
<1>2. walker[w].pc = "visit" /\ walker[w].root \in Addr /\ Live(walker[w].root)
  BY <1>1 DEF WalkerVisit, InTrees, WalksInTrees, TypeOK, ThreadsTypeOK
<1>3. "create" \in mask
  BY <1>2, CalmRoots DEF MainHolds, MasksCreate
<1> SUFFICES ASSUME NEW destroy \in DestroyReads(walker[w].root),
                    ~VisitBails(w, destroy),
                    AddWatch(Resolve(p), mask), RecordWatch(p, WdFor(Resolve(p))),
                    walker' = [walker EXCEPT ![w].pc =
                                 IF WatchLive(WdFor(Resolve(p))) THEN "loop" ELSE "list"],
                    ~UNCHANGED <<kwatch, nextWd, tableVars>>
             PROVE  \/ /\ p \in dirs /\ kwatch[p].wd # 0 /\ "create" \in mask
                       /\ kwatch' = [kwatch EXCEPT ![p] = [wd |-> kwatch[p].wd, mask |-> mask]]
                       /\ UNCHANGED <<nextWd, tableVars>>
                    \/ /\ p \in dirs /\ kwatch[p].wd = 0 /\ "create" \in mask
                       /\ nextWd \in Wd /\ nextWd' = nextWd + 1
                       /\ kwatch' = [kwatch EXCEPT ![p] = [wd |-> nextWd, mask |-> mask]]
                       /\ inotify_wd_to_watch[nextWd] = NoPath
                       /\ inotify_wd_to_watch' = [inotify_wd_to_watch EXCEPT ![nextWd] = p]
                       /\ inotify_path_to_watch' = [inotify_path_to_watch EXCEPT ![p] = nextWd]
                       /\ walker'[w].pc = "list"
  BY DEF WalkerVisit
<1>4. p \in dirs /\ p \in Path /\ Resolve(p) = p
  BY <1>1, NoSlash DEF VisitBails, TypeOK, KernelTypeOK
<1> HIDE DEF p, mask
<1>5. CASE kwatch[p].wd # 0
  <2>1. WdFor(p) = kwatch[p].wd /\ WatchLive(kwatch[p].wd)
    BY <1>4, <1>5, NoPathIsNoKey DEF WdFor, Held, Tracked, WatchLive, Key
  <2> QED
    BY <1>3, <1>4, <1>5, <2>1 DEF AddWatch, RecordWatch, WatchLive
<1>6. CASE kwatch[p].wd = 0
  <2>1. WdFor(p) = nextWd /\ nextWd \in Wd
    BY <1>1, <1>4, <1>6 DEF WdFor, AddWatch, TypeOK, KernelTypeOK, Wd
  <2>2. inotify_wd_to_watch[nextWd] = NoPath
    BY <1>1, <2>1 DEF WatchInv, KnownGiven, WatchLive, TypeOK, KernelTypeOK
  <2>3. walker'[w].pc = "list"
    <3>1. ~WatchLive(WdFor(Resolve(p)))
      BY <1>4, <2>1, <2>2 DEF WatchLive
    <3>2. walker' = [walker EXCEPT ![w].pc = "list"]
      BY <3>1 DEF p
    <3> QED
      BY <1>1, <3>2 DEF TypeOK, ThreadsTypeOK, WalkerType
  <2> QED
    BY <1>3, <1>4, <1>6, <2>1, <2>2, <2>3 DEF AddWatch, RecordWatch
<1> QED
  BY <1>5, <1>6

(* Taking a path out of the tables that is not on disk touches no watch    *)
(* and no directory.                                                       *)
LEMMA ForgetGone ==
    ASSUME TypeOK, MapsAgree, Held, NEW q, q \notin dirs,
           NEW S, S = {e \in Entries : e.path = q},
           Forget(S), kwatch' = RmWatch({e.wd : e \in S})
    PROVE  /\ kwatch' = kwatch
           /\ \A v \in Wd : inotify_wd_to_watch'[v] \in {inotify_wd_to_watch[v], NoPath}
           /\ \A d \in Path : kwatch[d].wd # 0 =>
                inotify_wd_to_watch'[kwatch[d].wd] = inotify_wd_to_watch[kwatch[d].wd]
           /\ \A d \in Key : d # q => inotify_path_to_watch'[d] = inotify_path_to_watch[d]
<1>1. \A e \in S : e.wd \in Wd /\ inotify_wd_to_watch[e.wd] = q /\ e.path = q
  BY ListedEntries
<1>2. ASSUME NEW d \in Path, NEW e \in S PROVE kwatch[d].wd # e.wd
  BY <1>1, <1>2 DEF Held, Tracked, Wd
<1>3. \A d \in Path : kwatch'[d] = kwatch[d]
  BY <1>2 DEF RmWatch
<1>4. kwatch' = kwatch
  <2>1. kwatch' = [d \in Path |-> kwatch'[d]]
    BY DEF RmWatch
  <2>2. kwatch = [d \in Path |-> kwatch[d]]
    BY DEF TypeOK, KernelTypeOK
  <2> QED
    BY <1>3, <2>1, <2>2
<1>5. \A d \in Path : kwatch[d].wd # 0 => kwatch[d].wd \in Wd
  BY KernelAssumption DEF TypeOK, KernelTypeOK, KWatch, Wd
<1>6. \A v \in Wd : inotify_wd_to_watch'[v] =
        IF \E e \in S : e.wd = v THEN NoPath ELSE inotify_wd_to_watch[v]
  BY DEF Forget
<1>7. \A d \in Key : d # q => inotify_path_to_watch'[d] = inotify_path_to_watch[d]
  BY <1>1 DEF Forget
<1> QED
  BY <1>2, <1>4, <1>5, <1>6, <1>7

(* The event handler and the cleanup take only such paths out.             *)
LEMMA RemovalsGone ==
    ASSUME CoverSetting, RegistryInv, NamesHold
    PROVE  /\ LostDirectory =>
                \/ UNCHANGED <<kwatch, tableVars>>
                \/ \E q : /\ q \notin dirs
                          /\ Forget({e \in Entries : e.path = q})
                          /\ kwatch' = RmWatch({e.wd : e \in {x \in Entries : x.path = q}})
           /\ \A c \in Cleaner : MemcleanRemove(c) =>
                \E q : /\ q \notin dirs
                       /\ Forget({e \in Entries : e.path = q})
                       /\ kwatch' = RmWatch({e.wd : e \in {x \in Entries : x.path = q}})
<1>1. TypeOK
  BY DEF RegistryInv
<1>2. ASSUME LostDirectory
      PROVE  \/ UNCHANGED <<kwatch, tableVars>>
             \/ \E q : /\ q \notin dirs
                       /\ Forget({e \in Entries : e.path = q})
                       /\ kwatch' = RmWatch({e.wd : e \in {x \in Entries : x.path = q}})
  <2>1. main.pc = "dir" /\ Head(batch).kind \in {"delete", "moved_from"}
    BY <1>2 DEF LostDirectory
  <2>2. batch # <<>> /\ batch \in Seq(KEvent)
    BY <1>1, <2>1 DEF TypeOK, MainTypeOK
  <2>3. Head(batch).kind = "delete"
    BY <2>1, <2>2, TailSet DEF NamesHold, Early
  <2>4. EventPath \notin dirs
    BY <2>1, <2>3 DEF NamesHold, Current, Going
  <2>5. GoneWith(EventPath, Head(batch).kind) = {e \in Entries : e.path = EventPath}
    BY <2>3 DEF GoneWith
  <2>6. CASE UNCHANGED <<kwatch, tableVars>>
    BY <2>6
  <2>7. CASE /\ kwatch' = RmWatch({e.wd : e \in GoneWith(EventPath, Head(batch).kind)})
             /\ Forget(GoneWith(EventPath, Head(batch).kind))
    BY <2>4, <2>5, <2>7
  <2> QED
    BY <1>2, <2>6, <2>7 DEF LostDirectory
<1>3. ASSUME NEW c \in Cleaner, MemcleanRemove(c)
      PROVE  \E q : /\ q \notin dirs
                    /\ Forget({e \in Entries : e.path = q})
                    /\ kwatch' = RmWatch({e.wd : e \in {x \in Entries : x.path = q}})
  <2>1. cleaner[c].path \notin dirs
    BY <1>3 DEF MemcleanRemove, NamesHold, Current, Going
  <2> QED
    BY <1>3, <2>1 DEF MemcleanRemove
<1> QED
  BY <1>2, <1>3

(* What the invariants of this part have in common as hypotheses.          *)
CoverHolds ==
    /\ RegistryInv /\ TableInv /\ WatchInv /\ MainHolds /\ InTrees /\ NamesHold

(* The steps seen from the tables and the watches.                         *)
LEMMA NameSteps ==
    ASSUME CoverSetting, CoverHolds, Calm, Calm', [Next]_vars
    PROVE  \/ UNCHANGED <<dirs, kwatch, nextWd, tableVars>>
           \/ Environment /\ UNCHANGED <<nextWd, tableVars>>
           \/ \E w \in Walker : WalkerVisit(w) /\ UNCHANGED dirs
           \/ \E q : /\ q \notin dirs /\ UNCHANGED <<dirs, kwatch, nextWd>>
                     /\ \A v \in Wd : inotify_wd_to_watch'[v] \in
                                        {inotify_wd_to_watch[v], NoPath}
                     /\ \A d \in Path : kwatch[d].wd # 0 =>
                          inotify_wd_to_watch'[kwatch[d].wd] =
                            inotify_wd_to_watch[kwatch[d].wd]
                     /\ \A d \in Key : d # q =>
                          inotify_path_to_watch'[d] = inotify_path_to_watch[d]
<1>1. TypeOK /\ MapsAgree /\ Held
  BY DEF CoverHolds, RegistryInv, TableInv, NamesHold
<1>2. CASE Environment
  <2>1. UNCHANGED nextWd
    BY <1>1, <1>2, FsWatches DEF Environment, TypeOK
  <2> QED
    BY <1>2, <2>1 DEF Environment
<1>3. CASE ~Environment
  <2>1. UNCHANGED dirs
    BY <1>3, DiskSteps DEF CoverHolds
  <2>2. CASE LostDirectory /\ ~UNCHANGED <<kwatch, tableVars>>
    <3>1. UNCHANGED nextWd
      BY <2>2 DEF LostDirectory
    <3>2. PICK q : /\ q \notin dirs
                   /\ Forget({e \in Entries : e.path = q})
                   /\ kwatch' = RmWatch({e.wd : e \in {x \in Entries : x.path = q}})
      BY <2>2, RemovalsGone DEF CoverHolds
    <3>3. /\ kwatch' = kwatch
          /\ \A v \in Wd : inotify_wd_to_watch'[v] \in {inotify_wd_to_watch[v], NoPath}
          /\ \A d \in Path : kwatch[d].wd # 0 =>
               inotify_wd_to_watch'[kwatch[d].wd] = inotify_wd_to_watch[kwatch[d].wd]
          /\ \A d \in Key : d # q =>
               inotify_path_to_watch'[d] = inotify_path_to_watch[d]
      BY <1>1, <3>2, ForgetGone
    <3> QED
      BY <2>1, <3>1, <3>2, <3>3
  <2>3. CASE LostDirectory /\ UNCHANGED <<kwatch, tableVars>>
    BY <2>1, <2>3 DEF LostDirectory
  <2>4. ASSUME NEW c \in Cleaner, MemcleanRemove(c)
        PROVE  \E q : /\ q \notin dirs /\ UNCHANGED <<dirs, kwatch, nextWd>>
                      /\ \A v \in Wd : inotify_wd_to_watch'[v] \in
                                         {inotify_wd_to_watch[v], NoPath}
                      /\ \A d \in Path : kwatch[d].wd # 0 =>
                           inotify_wd_to_watch'[kwatch[d].wd] =
                             inotify_wd_to_watch[kwatch[d].wd]
                      /\ \A d \in Key : d # q =>
                           inotify_path_to_watch'[d] = inotify_path_to_watch[d]
    <3>1. UNCHANGED nextWd
      BY <2>4 DEF MemcleanRemove
    <3>2. PICK q : /\ q \notin dirs
                   /\ Forget({e \in Entries : e.path = q})
                   /\ kwatch' = RmWatch({e.wd : e \in {x \in Entries : x.path = q}})
      BY <2>4, RemovalsGone DEF CoverHolds
    <3>3. /\ kwatch' = kwatch
          /\ \A v \in Wd : inotify_wd_to_watch'[v] \in {inotify_wd_to_watch[v], NoPath}
          /\ \A d \in Path : kwatch[d].wd # 0 =>
               inotify_wd_to_watch'[kwatch[d].wd] = inotify_wd_to_watch[kwatch[d].wd]
          /\ \A d \in Key : d # q =>
               inotify_path_to_watch'[d] = inotify_path_to_watch[d]
      BY <1>1, <3>2, ForgetGone
    <3> QED
      BY <2>1, <3>1, <3>2, <3>3
  <2> QED
    BY <1>3, <2>1, <2>2, <2>3, <2>4, CalmWriters DEF CoverHolds
<1> QED
  BY <1>2, <1>3

(* A watched directory stays on disk and tracked, or loses its watch.      *)
LEMMA HeldKept ==
    ASSUME CoverSetting, CoverHolds, Calm, Calm', [Next]_vars
    PROVE  Held'
<1>1. TypeOK /\ Held
  BY DEF CoverHolds, RegistryInv, NamesHold
<1>2. kwatch \in [Path -> KWatch] /\ nextWd \in Nat
  BY <1>1, KernelAssumption DEF TypeOK, KernelTypeOK
<1>3. CASE UNCHANGED <<dirs, kwatch, nextWd, tableVars>>
  BY <1>1, <1>3 DEF Held, Tracked, tableVars
<1>4. CASE Environment /\ UNCHANGED <<nextWd, tableVars>>
  <2>1. ASSUME NEW p \in Path, Mkdir(p) PROVE dirs \subseteq dirs' /\ kwatch' = kwatch
    BY <2>1 DEF Mkdir
  <2>2. ASSUME NEW p \in Path, WriteFile(p) PROVE dirs \subseteq dirs' /\ kwatch' = kwatch
    BY <2>2 DEF WriteFile
  <2>3. CASE dirs \subseteq dirs' /\ kwatch' = kwatch
    BY <1>1, <1>4, <2>3 DEF Held, Tracked, tableVars
  <2>4. ASSUME NEW p \in Path, Rmdir(p) PROVE Held'
    <3>1. /\ kwatch'[p].wd = 0 /\ dirs' = dirs \ {p}
          /\ \A d \in Path : d # p => kwatch'[d] = kwatch[d]
      BY <1>2, <2>4 DEF Rmdir, NoWatch
    <3> QED
      BY <1>1, <1>4, <3>1 DEF Held, Tracked, tableVars
  <2> QED
    BY <1>4, <2>1, <2>2, <2>3, <2>4, PlainFsSteps
<1>5. ASSUME NEW w \in Walker, WalkerVisit(w), UNCHANGED dirs PROVE Held'
  <2> DEFINE p == walker[w].path
             mask == heap[walker[w].root].mask
  <2>1. CASE UNCHANGED <<kwatch, nextWd, tableVars>>
    BY <1>3, <1>5, <2>1
  <2>2. CASE /\ p \in dirs /\ kwatch[p].wd # 0 /\ "create" \in mask
             /\ kwatch' = [kwatch EXCEPT ![p] = [wd |-> kwatch[p].wd, mask |-> mask]]
             /\ UNCHANGED <<nextWd, tableVars>>
    <3>1. \A d \in Path : /\ kwatch'[d].wd = kwatch[d].wd
                          /\ kwatch'[d].mask \in {kwatch[d].mask, mask}
      BY <1>2, <2>2
    <3> QED
      BY <1>1, <1>5, <2>2, <3>1 DEF Held, Tracked, tableVars
  <2>3. CASE /\ p \in dirs /\ kwatch[p].wd = 0 /\ "create" \in mask
             /\ nextWd \in Wd /\ nextWd' = nextWd + 1
             /\ kwatch' = [kwatch EXCEPT ![p] = [wd |-> nextWd, mask |-> mask]]
             /\ inotify_wd_to_watch' = [inotify_wd_to_watch EXCEPT ![nextWd] = p]
             /\ inotify_path_to_watch' = [inotify_path_to_watch EXCEPT ![p] = nextWd]
    <3>0. p \in Path
      BY <1>1, <2>3 DEF TypeOK, KernelTypeOK
    <3> HIDE DEF p, mask
    <3>1. /\ kwatch'[p].wd = nextWd /\ kwatch'[p].mask = mask
          /\ \A d \in Path : d # p => kwatch'[d] = kwatch[d]
      BY <1>2, <2>3, <3>0
    <3>2. /\ inotify_wd_to_watch'[nextWd] = p /\ inotify_path_to_watch'[p] = nextWd
          /\ \A v \in Wd : v # nextWd => inotify_wd_to_watch'[v] = inotify_wd_to_watch[v]
          /\ \A d \in Path : d # p => inotify_path_to_watch'[d] = inotify_path_to_watch[d]
      BY <1>1, <2>3, <3>0 DEF TypeOK, TablesTypeOK, Key
    <3>3. \A d \in Path : kwatch[d].wd # 0 => kwatch[d].wd \in Wd /\ kwatch[d].wd # nextWd
      BY <1>2, KernelAssumption DEF CoverHolds, TableInv, Given, KWatch, Wd
    <3> QED
      BY <1>1, <1>5, <2>3, <3>1, <3>2, <3>3 DEF Held, Tracked
  <2> QED
    BY <1>5, <2>1, <2>2, <2>3, VisitCases DEF CoverHolds, NamesHold
<1>6. ASSUME NEW q, q \notin dirs, UNCHANGED <<dirs, kwatch, nextWd>>,
             \A d \in Path : kwatch[d].wd # 0 =>
               inotify_wd_to_watch'[kwatch[d].wd] = inotify_wd_to_watch[kwatch[d].wd],
             \A d \in Key : d # q => inotify_path_to_watch'[d] = inotify_path_to_watch[d]
      PROVE  Held'
  BY <1>1, <1>6 DEF Held, Tracked, Key
<1> QED
  BY <1>3, <1>4, <1>5, <1>6, NameSteps

(* A descriptor that was given out keeps its name as long as it has one.   *)
LEMMA NamesStay ==
    ASSUME CoverSetting, CoverHolds, Calm, Calm', [Next]_vars,
           NEW v \in Wd, v < nextWd, inotify_wd_to_watch'[v] # NoPath
    PROVE  inotify_wd_to_watch'[v] = inotify_wd_to_watch[v]
<1>1. TypeOK
  BY DEF CoverHolds, RegistryInv
<1>2. CASE UNCHANGED tableVars
  BY <1>2 DEF tableVars
<1>3. ASSUME NEW w \in Walker, WalkerVisit(w), ~UNCHANGED tableVars
      PROVE  inotify_wd_to_watch'[v] = inotify_wd_to_watch[v]
  <2>1. inotify_wd_to_watch' = [inotify_wd_to_watch EXCEPT ![nextWd] = walker[w].path]
    BY <1>3, VisitCases DEF CoverHolds, NamesHold
  <2>2. v # nextWd
    BY <1>1 DEF TypeOK, KernelTypeOK, Wd
  <2> QED
    BY <1>1, <2>1, <2>2 DEF TypeOK, TablesTypeOK
<1> QED
  BY <1>2, <1>3, NameSteps

(* What other processes add to the kernel's queue.                         *)
LEMMA FsReports ==
    ASSUME CoverSetting, TypeOK, Calm', Environment
    PROVE  /\ ToSet(kq) \subseteq ToSet(kq')
           /\ \A e \in ToSet(kq') : e \in ToSet(kq) \/
                \E d \in Path :
                    /\ e.wd = kwatch[d].wd /\ e.wd # 0 /\ e.kind # "moved_from"
                    /\ e.kind = "delete" =>
                         \E p \in Path : Rmdir(p) /\ Parent(p) = d /\ e.name = Last(p)
<1> DEFINE Added ==
      /\ ToSet(kq) \subseteq ToSet(kq')
      /\ \A e \in ToSet(kq') : e \in ToSet(kq) \/
           \E d \in Path :
               /\ e.wd = kwatch[d].wd /\ e.wd # 0 /\ e.kind # "moved_from"
               /\ e.kind = "delete" =>
                    \E p \in Path : Rmdir(p) /\ Parent(p) = d /\ e.name = Last(p)
<1>1. KernelTypeOK /\ Overflow \notin ToSet(kq')
  BY DEF TypeOK, Calm
<1>2. ASSUME NEW d, NEW kind \in Kinds, NEW n \in Name,
             kind # "moved_from", kq' = Notify(kq, d, kind, n),
             kind = "delete" => \E p \in Path : Rmdir(p) /\ Parent(p) = d /\ n = Last(p)
      PROVE  Added
  <2>1. CASE d \in Path /\ kwatch[d].wd # 0 /\ kind \in kwatch[d].mask
    <3>1. ToSet(kq') = ToSet(kq) \union {[wd |-> kwatch[d].wd, kind |-> kind, name |-> n]}
      BY <1>1, <1>2, <2>1, NotifySet
    <3> QED
      BY <1>2, <2>1, <3>1
  <2>2. CASE ~(d \in Path /\ kwatch[d].wd # 0 /\ kind \in kwatch[d].mask)
    BY <1>1, <1>2, <2>2, NotifySet
  <2> QED
    BY <2>1, <2>2
<1>3. {"create", "delete", "file"} \subseteq Kinds /\ FileName \in Name
      /\ \A p \in Path : Last(p) \in Name
  BY PathFacts, KernelAssumption DEF Kinds, DirKinds
<1> HIDE DEF Added
<1>4. ASSUME NEW p \in Path, Mkdir(p) PROVE Added
  BY <1>2, <1>3, <1>4 DEF Mkdir
<1>5. ASSUME NEW p \in Path, Rmdir(p) PROVE Added
  <2>1. kq' = Notify(kq, Parent(p), "delete", Last(p))
    BY <1>5 DEF Rmdir
  <2> QED
    BY <1>2, <1>3, <1>5, <2>1
<1>6. ASSUME NEW p \in Path, WriteFile(p) PROVE Added
  BY <1>2, <1>3, <1>6 DEF WriteFile
<1>7. Added
  BY <1>4, <1>5, <1>6, PlainFsSteps
<1> QED
  BY <1>7 DEF Added

(* The events behind the one being handled.                                *)
LEMMA WaitingEvents ==
    ASSUME TypeOK
    PROVE  /\ ToSet(kq) \subseteq Waiting
           /\ Waiting \subseteq ToSet(kq) \union ToSet(batch)
<1>1. Handling => ToSet(Tail(batch)) \subseteq ToSet(batch)
  BY TailSet DEF TypeOK, MainTypeOK, Handling
<1> QED
  BY <1>1 DEF Waiting

(* An event carries a descriptor that was given out before it.             *)
LEMMA EarlyKept ==
    ASSUME CoverSetting, CoverHolds, Calm, Calm', [Next]_vars
    PROVE  Early'
<1>1. TypeOK /\ Early
  BY DEF CoverHolds, RegistryInv, NamesHold
<1>2. nextWd \in Nat /\ nextWd' \in Nat /\ nextWd <= nextWd'
  <2>1. nextWd \in Nat
    BY <1>1, KernelAssumption DEF TypeOK, KernelTypeOK
  <2>2. ASSUME NEW w \in Walker, WalkerVisit(w) PROVE nextWd' \in {nextWd, nextWd + 1}
    BY <2>2, VisitCases DEF CoverHolds, NamesHold
  <2> QED
    BY <2>1, <2>2, NameSteps
<1>3. /\ kq \in Seq(KEvent) /\ batch \in Seq(KEvent)
      /\ \A e \in ToSet(kq) \union ToSet(batch) : e.wd \in Nat
  <2>1. kq \in Seq(KEvent) /\ batch \in Seq(KEvent)
    BY <1>1 DEF TypeOK, KernelTypeOK, MainTypeOK
  <2>2. \A q \in Seq(KEvent) : ToSet(q) \subseteq KEvent
    BY DEF ToSet
  <2>3. \A e \in KEvent : e.wd \in Nat
    BY KernelAssumption DEF KEvent
  <2> QED
    BY <2>1, <2>2, <2>3
<1>4. CASE ~Environment
  <2>1. ToSet(kq)' \union ToSet(batch)' \subseteq ToSet(kq) \union ToSet(batch)
    BY <1>4, WaitingSteps DEF CoverHolds, MainHolds
  <2> QED
    BY <1>1, <1>2, <1>3, <2>1 DEF Early
<1>5. CASE Environment
  <2>1. UNCHANGED batch
    BY <1>5 DEF Environment
  <2>2. \A e \in ToSet(kq') : e \in ToSet(kq) \/ (e.wd < nextWd /\ e.kind # "moved_from")
    BY <1>1, <1>5, FsReports DEF CoverHolds, TableInv, Given
  <2>3. UNCHANGED nextWd
    BY <1>1, <1>5, FsWatches DEF Environment, TypeOK
  <2> QED
    BY <1>1, <2>1, <2>2, <2>3 DEF Early
<1> QED
  BY <1>4, <1>5

(* Only what has left the disk gets on its way out of the tables.          *)
LEMMA GoingSteps ==
    ASSUME CoverSetting, CoverHolds, Calm, Calm', [Next]_vars,
           NEW d \in Path, Going(d)'
    PROVE  Going(d) \/ d \notin dirs'
<1>1. TypeOK /\ Early /\ Held /\ BatchEmpty /\ RegistryInv
  BY DEF CoverHolds, RegistryInv, NamesHold, MainHolds
<1>2. ASSUME NEW e \in Waiting', e.kind = "delete", About(e, d)'
      PROVE  Going(d) \/ d \notin dirs'
  <2>1. e.wd \in Wd /\ inotify_wd_to_watch'[e.wd] # NoPath
        /\ AbsPath(inotify_wd_to_watch'[e.wd], e.name) = d
    BY <1>2 DEF About, WatchLive
  <2>2. CASE e \in Waiting
    <3>1. e.wd < nextWd
      BY <1>1, <2>2, WaitingEvents DEF Early
    <3>2. inotify_wd_to_watch'[e.wd] = inotify_wd_to_watch[e.wd]
      BY <2>1, <3>1, NamesStay
    <3>3. About(e, d)
      BY <2>1, <3>2 DEF About, WatchLive
    <3> QED
      BY <1>2, <2>2, <3>3 DEF Going
  <2>3. CASE e \notin Waiting
    <3>1. Environment
      BY <1>1, <2>3, WaitingSteps
    <3>2. UNCHANGED <<main, batch, tableVars>>
      BY <3>1 DEF Environment
    <3>3. e \in ToSet(kq') /\ e \notin ToSet(kq)
      BY <2>3, <3>2 DEF Waiting, Handling
    <3>4. PICK p \in Path : /\ Rmdir(p) /\ Parent(p) \in Path
                            /\ e.wd = kwatch[Parent(p)].wd /\ e.wd # 0
                            /\ e.name = Last(p)
      BY <1>1, <1>2, <3>1, <3>3, FsReports
    <3>5. inotify_wd_to_watch'[e.wd] = Parent(p)
      BY <1>1, <3>2, <3>4 DEF Held, Tracked, tableVars
    <3>6. Parent(p) = Front(p)
      BY <3>4, ParentFront
    <3>7. p \in Seq(Name) /\ p # NoPath
      BY PathAssumption
    <3>8. AbsPath(Parent(p), Last(p)) = p
      BY <3>4, <3>6, <3>7, LastEntry, NoSlash DEF Key
    <3>9. d = p
      BY <2>1, <3>4, <3>5, <3>8
    <3> QED
      BY <3>4, <3>9 DEF Rmdir
  <2> QED
    BY <2>2, <2>3
<1>3. ASSUME main'.pc = "dir", Head(batch').kind = "delete", EventPath' = d
      PROVE  Going(d)
  <2>1. CASE Beside
    BY <1>3, <2>1 DEF Beside, Going, EventPath
  <2>2. CASE LookupEvent /\ ~Beside
    <3> DEFINE e == Head(batch)
    <3>1. /\ UNCHANGED batch /\ e.wd \in Wd /\ WatchLive(e.wd)
          /\ main'.path = inotify_wd_to_watch[e.wd]
      BY <1>1, <1>3, <2>2, LookupTakes
    <3>2. e \in Waiting
      <4>1. ~Environment
        BY <2>2 DEF Environment, Beside, rootVars
      <4> QED
        BY <1>1, <2>2, <4>1, WaitingSteps
    <3>3. About(e, d)
      BY <1>3, <3>1 DEF About, EventPath
    <3> QED
      BY <1>3, <3>1, <3>2, <3>3 DEF Going
  <2> QED
    BY <1>1, <1>3, <2>1, <2>2, PlacesEntered
<1>4. ASSUME NEW c \in Cleaner, cleaner'[c].pc = "remove", cleaner'[c].path = d
      PROVE  Going(d) \/ d \notin dirs'
  <2>0. cleaner \in [Cleaner -> CleanerType]
    BY <1>1 DEF TypeOK, ThreadsTypeOK
  <2>1. CASE cleaner'[c] = cleaner[c]
    BY <1>4, <2>1 DEF Going
  <2>2. CASE InotifyMemclean
    BY <1>4, <2>0, <2>1, <2>2 DEF InotifyMemclean, CleanerType
  <2>3. ASSUME NEW b \in Cleaner, CleanerStep(b), cleaner'[c] # cleaner[c]
        PROVE  d \notin dirs'
    <3>1. b = c
      BY <2>0, <2>3 DEF CleanerStep, MemcleanStart, MemcleanSnapshot, MemcleanScan,
                        MemcleanRemove, MemcleanEnd
    <3>2. MemcleanScan(c)
      <4>1. MemcleanStart(c) => cleaner'[c].pc = "snapshot"
        BY <2>0 DEF MemcleanStart, CleanerType
      <4>2. MemcleanSnapshot(c) \/ MemcleanRemove(c) => cleaner'[c].pc = "scan"
        BY <2>0 DEF MemcleanSnapshot, MemcleanRemove, CleanerType
      <4>3. MemcleanEnd(c) => cleaner'[c].pc = "idle"
        BY <2>0 DEF MemcleanEnd, IdleCleaner
      <4> QED
        BY <1>4, <2>3, <3>1, <4>1, <4>2, <4>3 DEF CleanerStep
    <3>3. \E e \in cleaner[c].todo : ~IsADir(e.path) /\ cleaner'[c].path = e.path
      BY <1>4, <2>0, <3>2 DEF MemcleanScan, CleanerType
    <3>4. UNCHANGED dirs
      BY <3>2 DEF MemcleanScan, kernelVars
    <3> QED
      BY <1>4, <3>3, <3>4, NoSlash DEF IsADir
  <2>4. cleaner' = cleaner \/ InotifyMemclean \/ \E b \in Cleaner : CleanerStep(b)
    <3>1. ASSUME NEW w \in Walker, WalkerStep(w) PROVE UNCHANGED cleaner
      BY <3>1 DEF WalkerStep, WalkerStart, WalkerVisit, WalkerList, WalkerLoop, WalkerEnd
    <3>2. ASSUME NEW a \in Addr, DestroyerStep(a) PROVE UNCHANGED cleaner
      BY <3>2 DEF DestroyerStep, DestroyBegin, DestroyScan, DestroyUnwatch,
                  DestroyForget, DestroyEnd, DestroyDump
    <3>3. UNCHANGED vars \/ Environment => UNCHANGED cleaner
      BY DEF vars, Environment, threadVars
    <3>4. \/ Poll \/ InotifyRewatchRoots \/ RewatchDone
          \/ (\E a \in Addr : RewatchNext(a)) \/ ReadEvents \/ LookupEvent \/ EventsDone
          => UNCHANGED cleaner
      BY DEF Poll, InotifyRewatchRoots, RewatchDone, RewatchNext, ReadEvents,
             LookupEvent, EventsDone, threadVars
    <3>5. \/ NewDirectory \/ LostDirectory \/ InotifyEnqueue
          \/ (\E r \in Requests : ZmqDispatchEvent(r))
          => UNCHANGED cleaner
      BY DEF NewDirectory, LostDirectory, InotifyEnqueue, ZmqDispatchEvent, threadVars
    <3>6. \/ WatchCheck \/ WatchClash \/ WatchOpen \/ WatchInsert \/ WatchDump
          \/ WatchSpawn \/ Unwatch
          => UNCHANGED cleaner
      BY DEF WatchCheck, WatchClash, WatchOpen, WatchInsert, WatchDump, WatchSpawn,
             Unwatch, threadVars
    <3>7. PauseTree \/ UnpauseTree \/ GetEvents \/ InotifyDequeue \/ QueueSize
          => UNCHANGED cleaner
      BY DEF PauseTree, UnpauseTree, GetEvents, InotifyDequeue, QueueSize, threadVars
    <3> QED
      BY <3>1, <3>2, <3>3, <3>4, <3>5, <3>6, <3>7 DEF Next, MainStep
  <2> QED
    BY <2>1, <2>2, <2>3, <2>4
<1> QED
  BY <1>2, <1>3, <1>4 DEF Going

(* The path table stays right about what is on disk, because a new         *)
(* directory has a name that the tables have forgotten.                    *)
LEMMA CurrentKept ==
    ASSUME CoverSetting, CoverHolds, Calm, Calm', NameRests, [Next]_vars
    PROVE  Current'
<1>1. /\ TypeOK /\ Current /\ Held /\ RegistryInv /\ TableInv /\ WatchInv
      /\ MainHolds /\ InTrees
  BY DEF CoverHolds, RegistryInv, NamesHold
<1>2. TypeOK'
  BY <1>1, NextTypes
<1>3. dirs \subseteq Path /\ dirs' \subseteq Path
  BY <1>1, <1>2 DEF TypeOK, KernelTypeOK
<1>4. ASSUME NEW d \in dirs' PROVE ~Going(d)'
  <2>1. Going(d)' => Going(d)
    BY <1>3, GoingSteps
  <2>2. d \in dirs => ~Going(d)
    BY <1>1 DEF Current
  <2>3. d \notin dirs => ~Going(d)
    BY DEF NameRests, Forgotten
  <2> QED
    BY <2>1, <2>2, <2>3
<1>5. ASSUME NEW d \in dirs' PROVE inotify_path_to_watch'[d] \in {0, kwatch'[d].wd}
  <2>1. CASE UNCHANGED <<dirs, kwatch, tableVars>>
    BY <1>1, <2>1 DEF Current, tableVars
  <2>2. CASE Environment /\ UNCHANGED tableVars
    <3>1. UNCHANGED inotify_path_to_watch
      BY <2>2 DEF tableVars
    <3>2. d \notin dirs => inotify_path_to_watch[d] = 0
      BY DEF NameRests, Forgotten
    <3>3. d \in dirs => kwatch'[d] = kwatch[d]
      BY <1>1, <1>3, <2>2, PlainFsSteps DEF Mkdir, Rmdir, WriteFile, TypeOK, KernelTypeOK
    <3> QED
      BY <1>1, <3>1, <3>2, <3>3 DEF Current
  <2>3. ASSUME NEW w \in Walker, WalkerVisit(w), UNCHANGED dirs
        PROVE  inotify_path_to_watch'[d] \in {0, kwatch'[d].wd}
    <3>1. /\ kwatch \in [Path -> KWatch] /\ inotify_path_to_watch \in [Key -> 0 .. MaxWd]
          /\ d \in Path /\ d \in Key
      BY <1>1, <1>3 DEF TypeOK, KernelTypeOK, TablesTypeOK, Key
    <3>2. inotify_path_to_watch[d] \in {0, kwatch[d].wd}
      BY <1>1, <2>3 DEF Current
    <3> DEFINE p == walker[w].path
               mask == heap[walker[w].root].mask
    <3>3. CASE UNCHANGED <<kwatch, tableVars>>
      BY <3>2, <3>3 DEF tableVars
    <3>4. CASE /\ p \in dirs
               /\ kwatch' = [kwatch EXCEPT ![p] = [wd |-> kwatch[p].wd, mask |-> mask]]
               /\ UNCHANGED tableVars
      BY <3>1, <3>2, <3>4 DEF tableVars
    <3>5. CASE /\ p \in dirs
               /\ kwatch' = [kwatch EXCEPT ![p] = [wd |-> nextWd, mask |-> mask]]
               /\ inotify_path_to_watch' = [inotify_path_to_watch EXCEPT ![p] = nextWd]
      BY <3>1, <3>2, <3>5
    <3> QED
      BY <1>1, <2>3, <3>3, <3>4, <3>5, VisitCases
  <2>4. ASSUME NEW q, q \notin dirs, UNCHANGED <<dirs, kwatch, nextWd>>,
               \A k \in Key : k # q =>
                 inotify_path_to_watch'[k] = inotify_path_to_watch[k]
        PROVE  inotify_path_to_watch'[d] \in {0, kwatch'[d].wd}
    BY <1>1, <1>3, <2>4 DEF Current, Key
  <2> QED
    BY <2>1, <2>2, <2>3, <2>4, NameSteps
<1> QED
  BY <1>4, <1>5 DEF Current

(* The names on disk and in the tables go together.                        *)
LEMMA NamesInvariant ==
    ASSUME CoverSetting
    PROVE  Spec /\ []Calm /\ NamesRest => []CoverHolds
<1>1. Init => NamesHold
  <2> SUFFICES ASSUME Init PROVE NamesHold
    OBVIOUS
  <2>1. \A d \in Path : kwatch[d].wd = 0
    BY DEF Init, KernelInit, NoWatch
  <2>2. ToSet(kq) = {} /\ ToSet(batch) = {} /\ Waiting = {}
    BY DEF Init, KernelInit, ToSet, Waiting, Handling, IdleMain
  <2>3. dirs \subseteq Key /\ \A d \in Key : inotify_path_to_watch[d] = 0
    BY KernelAssumption DEF Init, KernelInit, Key
  <2>4. \A d \in Path : ~Going(d)
    BY <2>2 DEF Going, Init, IdleMain, IdleCleaner
  <2>5. dirs \subseteq Path
    BY KernelAssumption DEF Init, KernelInit
  <2> QED
    BY <2>1, <2>2, <2>3, <2>4, <2>5 DEF NamesHold, Held, Current, Early
<1>2. ASSUME RegistryInv, TableInv, WatchInv, MainHolds, InTrees, NamesHold,
             Calm, Calm', [Next]_vars, [NameRests]_vars
      PROVE  NamesHold'
  <2>1. CoverHolds
    BY <1>2 DEF CoverHolds
  <2>2. NameRests
    <3>1. UNCHANGED vars => dirs' = dirs
      BY DEF vars, kernelVars
    <3>2. UNCHANGED vars => NameRests
      BY <3>1 DEF NameRests
    <3> QED
      BY <1>2, <3>2
  <2> QED
    BY <1>2, <2>1, <2>2, HeldKept, CurrentKept, EarlyKept DEF NamesHold
<1>3. Spec => []RegistryInv
  BY RegistryInvariant
<1>4. Spec => []TableInv
  BY TableInvariant
<1>5. Spec => []WatchInv
  BY WatchInvariant DEF CoverSetting
<1>6. Spec /\ []Calm => []MainHolds
  BY MainInvariant
<1>7. Spec /\ []Calm => []InTrees
  BY TreesInvariant
<1>8. Spec /\ []Calm /\ NamesRest => []NamesHold
  BY <1>1, <1>2, <1>3, <1>4, <1>5, <1>6, <1>7, PTL DEF Spec, NamesRest
<1>9. RegistryInv /\ TableInv /\ WatchInv /\ MainHolds /\ InTrees /\ NamesHold => CoverHolds
  BY DEF CoverHolds
<1> QED
  BY <1>3, <1>4, <1>5, <1>6, <1>7, <1>8, <1>9, PTL

-----------------------------------------------------------------------------
(* What the daemon has promised, and how a step keeps it.                  *)

(* A watch lasts as long as its directory; a new one is the work of a walk *)
(* that lists the directory next.                                          *)
LEMMA WatchChanges ==
    ASSUME CoverSetting, CoverHolds, Calm, Calm', [Next]_vars, NEW d \in Path
    PROVE  /\ kwatch[d].wd # 0 => kwatch'[d].wd = kwatch[d].wd \/ d \notin dirs'
           /\ kwatch[d].wd = 0 /\ kwatch'[d].wd # 0 => Listing(d)'
<1>1. /\ TypeOK /\ Held /\ RegistryInv /\ TableInv /\ WatchInv /\ MainHolds /\ InTrees
  BY DEF CoverHolds, RegistryInv, NamesHold
<1>2. kwatch \in [Path -> KWatch]
  BY <1>1 DEF TypeOK, KernelTypeOK
<1>3. CASE UNCHANGED kwatch
  BY <1>3
<1>4. CASE Environment
  <2>1. ASSUME NEW p \in Path, Rmdir(p)
        PROVE  /\ kwatch' = [kwatch EXCEPT ![p] = NoWatch] /\ p \notin dirs'
    BY <2>1 DEF Rmdir
  <2>2. \A p \in Path : Mkdir(p) \/ WriteFile(p) => UNCHANGED kwatch
    BY DEF Mkdir, WriteFile
  <2> QED
    BY <1>2, <1>4, <2>1, <2>2, PlainFsSteps DEF NoWatch
<1>5. ASSUME NEW w \in Walker, WalkerVisit(w)
      PROVE  /\ kwatch[d].wd # 0 => kwatch'[d].wd = kwatch[d].wd
             /\ kwatch[d].wd = 0 /\ kwatch'[d].wd # 0 => Listing(d)'
  <2> DEFINE p == walker[w].path
             mask == heap[walker[w].root].mask
  <2>1. CASE UNCHANGED kwatch
    BY <2>1
  <2>2. CASE /\ p \in dirs
             /\ kwatch' = [kwatch EXCEPT ![p] = [wd |-> kwatch[p].wd, mask |-> mask]]
    BY <1>2, <2>2
  <2>3. CASE /\ p \in dirs /\ kwatch[p].wd = 0
             /\ kwatch' = [kwatch EXCEPT ![p] = [wd |-> nextWd, mask |-> mask]]
             /\ walker'[w].pc = "list"
    <3>1. walker'[w].path = p
      BY <1>1, <1>5 DEF WalkerVisit, WalkOn, TypeOK, ThreadsTypeOK, WalkerType
    <3>2. p = d => Listing(d)'
      BY <2>3, <3>1 DEF Listing
    <3>3. p # d => kwatch'[d] = kwatch[d]
      BY <1>2, <2>3
    <3> QED
      BY <2>3, <3>2, <3>3
  <2> QED
    BY <1>1, <1>5, <2>1, <2>2, <2>3, VisitCases
<1> QED
  BY <1>3, <1>4, <1>5, NameSteps

(* The visit of a directory watches it, unless it is one of rsync's: a     *)
(* rewatch turns back only where there is a watch.                         *)
LEMMA VisitCovers ==
    ASSUME CoverSetting, CoverHolds, Calm, NEW w \in Walker, WalkerVisit(w),
           walker[w].path \in dirs, Plain(walker[w].path)
    PROVE  kwatch'[walker[w].path].wd # 0
<1> DEFINE p == walker[w].path
<1>1. TypeOK /\ Current /\ RegistryInv /\ InTrees
  BY DEF CoverHolds, RegistryInv, NamesHold
<1>2. p \in Path /\ Resolve(p) = p /\ p \in Key
  BY <1>1, NoSlash DEF TypeOK, KernelTypeOK, Key
<1>3. walker[w].root \in Addr /\ Live(walker[w].root)
  BY <1>1 DEF WalkerVisit, InTrees, WalksInTrees, TypeOK, ThreadsTypeOK
<1>4. ~IsTmp(p)
  <2>1. p \in Seq(Name) /\ p # NoPath
    BY <1>2, PathAssumption
  <2>2. Len(p) \in Nat \ {0} /\ Last(p) = p[Len(p)]
    BY <2>1 DEF Last, NoPath
  <2> QED
    BY <2>2 DEF Plain, IsTmp
<1>5. \A destroy \in DestroyReads(walker[w].root) :
        VisitBails(w, destroy) => kwatch[p].wd # 0
  <2>1. \A destroy \in DestroyReads(walker[w].root) : ~destroy
    BY <1>1, <1>3, CalmRoots
  <2>2. CleanupStops(w) => kwatch[p].wd # 0
    BY <1>1 DEF CleanupStops, Current
  <2> QED
    BY <1>2, <1>4, <2>1, <2>2 DEF VisitBails
<1>6. ~AddWatchFails(p)
  BY <1>2 DEF Calm
<1>7. kwatch \in [Path -> KWatch] /\ nextWd \in 1 .. MaxWd + 1
  BY <1>1 DEF TypeOK, KernelTypeOK
<1>8. \A mask : AddWatch(p, mask) => kwatch'[p].wd # 0
  BY <1>2, <1>7, KernelAssumption DEF AddWatch, WdFor
<1> QED
  BY <1>2, <1>5, <1>6, <1>8 DEF WalkerVisit

(* A walk comes to what it has before it.                                  *)
LEMMA ComingKept ==
    ASSUME CoverSetting, CoverHolds, Calm, Calm', [Next]_vars, NEW d, Coming(d)
    PROVE  Coming(d)' \/ \E w \in Walker : WalkerVisit(w) /\ walker[w].path = d
<1>1. RegistryInv /\ WalksInTrees /\ TypeOK
  BY DEF CoverHolds, InTrees, RegistryInv
<1>2. PICK v \in Walker : \/ walker[v].pc \in {"start", "visit"} /\ walker[v].path = d
                          \/ walker[v].pc # "idle" /\ d \in walker[v].todo
  BY DEF Coming
<1>3. CASE walker'[v] = walker[v]
  BY <1>2, <1>3 DEF Coming
<1>4. ASSUME NEW p, NEW a, NEW cleanup, SpawnWalker(p, a, cleanup)
      PROVE  walker'[v] = walker[v]
  BY <1>1, <1>2, <1>4, SpawnedWalk
<1>5. ASSUME NEW w \in Walker, WalkerStep(w), w = v
      PROVE  Coming(d)' \/ (WalkerVisit(v) /\ walker[v].path = d)
  <2>1. CASE walker[v].pc = "start" /\ walker'[v].pc = "visit"
             /\ walker'[v].path = walker[v].path /\ walker'[v].todo = walker[v].todo
    BY <1>2, <2>1 DEF Coming
  <2>2. CASE WalkerVisit(v) /\ walker[v].pc = "visit" /\ walker'[v].pc \in {"list", "loop"}
             /\ walker'[v].todo = walker[v].todo
    BY <1>2, <2>2 DEF Coming
  <2>3. CASE walker[v].pc = "list" /\ walker'[v].pc = "loop"
             /\ walker'[v].todo = walker[v].todo \union Children(walker[v].path)
    BY <1>2, <2>3 DEF Coming
  <2>4. CASE walker[v].pc = "loop" /\ walker'[v].pc = "visit"
             /\ walker'[v].todo = walker[v].todo \ {walker'[v].path}
    BY <1>2, <2>4 DEF Coming
  <2>5. CASE walker[v].pc = "loop" /\ walker[v].todo = {}
    BY <1>2, <2>5
  <2> QED
    BY <1>1, <1>5, <2>1, <2>2, <2>3, <2>4, <2>5, WalkMoves
<1>6. ASSUME NEW w \in Walker, WalkerStep(w), w # v PROVE walker'[v] = walker[v]
  BY <1>1, <1>6, WalkMoves
<1>7. CASE (\E a \in Addr : RewatchNext(a)) \/ NewDirectory \/ WatchSpawn
  <2>1. walker' = walker \/ \E p, a, cleanup : SpawnWalker(p, a, cleanup)
    BY <1>7 DEF RewatchNext, NewDirectory, WatchSpawn
  <2> QED
    BY <1>3, <1>4, <2>1
<1> QED
  BY <1>1, <1>3, <1>5, <1>6, <1>7, WalkSteps

(* A directory that is to be listed: what is in it gets before the walk.   *)
LEMMA ListingKept ==
    ASSUME CoverSetting, CoverHolds, Calm, Calm', [Next]_vars,
           NEW d \in dirs, Listing(Parent(d))
    PROVE  Listing(Parent(d))' \/ Coming(d)'
<1>1. RegistryInv /\ WalksInTrees /\ TypeOK
  BY DEF CoverHolds, InTrees, RegistryInv
<1>2. PICK v \in Walker : walker[v].pc = "list" /\ walker[v].path = Parent(d)
  BY DEF Listing
<1>3. CASE walker'[v] = walker[v]
  BY <1>2, <1>3 DEF Listing
<1>4. ASSUME NEW p, NEW a, NEW cleanup, SpawnWalker(p, a, cleanup)
      PROVE  walker'[v] = walker[v]
  BY <1>1, <1>2, <1>4, SpawnedWalk
<1>5. ASSUME NEW w \in Walker, WalkerStep(w), w = v PROVE Coming(d)'
  <2>1. d \in Children(walker[v].path)
    BY <1>1, <1>2 DEF Children, CoverSetting, TypeOK, KernelTypeOK
  <2>2. walker'[v].pc = "loop"
        /\ walker'[v].todo = walker[v].todo \union Children(walker[v].path)
    BY <1>1, <1>2, <1>5, WalkMoves
  <2> QED
    BY <2>1, <2>2 DEF Coming
<1>6. ASSUME NEW w \in Walker, WalkerStep(w), w # v PROVE walker'[v] = walker[v]
  BY <1>1, <1>6, WalkMoves
<1>7. CASE (\E a \in Addr : RewatchNext(a)) \/ NewDirectory \/ WatchSpawn
  <2>1. walker' = walker \/ \E p, a, cleanup : SpawnWalker(p, a, cleanup)
    BY <1>7 DEF RewatchNext, NewDirectory, WatchSpawn
  <2> QED
    BY <1>3, <1>4, <2>1
<1> QED
  BY <1>1, <1>3, <1>5, <1>6, <1>7, WalkSteps

(* A plain directory is neither itself nor by its parent one of rsync's.   *)
LEMMA PlainParts ==
    ASSUME NEW d \in Path, Plain(d)
    PROVE  /\ ~IsTmp(<<Last(d)>>)
           /\ Len(d) # 1 => ~IsTmp(Front(d))
<1>1. d \in Seq(Name) /\ d # NoPath
  BY PathAssumption
<1>2. Len(d) \in Nat \ {0} /\ Last(d) = d[Len(d)]
  BY <1>1 DEF Last, NoPath
<1>3. Last(<<Last(d)>>) = Last(d)
  BY DEF Last
<1>4. ASSUME Len(d) # 1 PROVE ~IsTmp(Front(d))
  <2>1. /\ Front(d) \in Seq(Name) /\ Len(Front(d)) = Len(d) - 1
    BY <1>1, LastEntry
  <2>2. \A i \in 1 .. Len(d) - 1 : Front(d)[i] = d[i]
    BY <1>1, <1>2 DEF Front
  <2>3. Last(Front(d)) = Front(d)[Len(d) - 1] /\ Len(d) - 1 \in 1 .. Len(d) - 1
    BY <1>2, <1>4, <2>1 DEF Last
  <2> QED
    BY <1>2, <2>2, <2>3 DEF Plain, IsTmp
<1> QED
  BY <1>2, <1>3, <1>4 DEF Plain, IsTmp

(* A claimed path has a root, and every root found for it takes events.    *)
LEMMA RootsTake ==
    ASSUME CoverSetting, RegistryInv, Calm, NEW p \in Path, Claimed(p)
    PROVE  PathToRoot(p) # {} /\ \A a \in PathToRoot(p) : TakesEvents(a)
<1>1. TypeOK
  BY DEF RegistryInv
<1>2. p \in Seq(Name) /\ p # NoPath
  BY PathAssumption
<1>3. PICK r \in Registered : p = r \/ Below(p, r)
  BY DEF Claimed
<1>4. p = r \/ Strstr(p, r)
  BY <1>2, <1>3, BelowStrstr
<1>5. IsRoot(Slash) = NULL
  BY DEF IsRoot, CoverSetting
<1>6. inotify_roots[r] \in PathToRoot(p)
  BY <1>4, <1>5 DEF PathToRoot
<1>7. \A a \in PathToRoot(p) : \E s \in Registered : a = inotify_roots[s]
  BY <1>5 DEF PathToRoot
<1> QED
  BY <1>6, <1>7 DEF Calm, TakesEvents

(* The lookup of an event that announces a directory takes it.             *)
LEMMA LookupAnnounces ==
    ASSUME CoverSetting, CoverHolds, Calm, NEW d \in Path, Missing(d),
           LookupEvent, Announces(Head(batch), d)
    PROVE  /\ main'.pc = "dir" /\ UNCHANGED batch
           /\ Head(batch').kind = "create" /\ EventPath' = d
<1> DEFINE e == Head(batch)
<1>1. TypeOK /\ Held /\ InTrees /\ RegistryInv
  BY DEF CoverHolds, RegistryInv, NamesHold
<1>2. d \in Seq(Name) /\ d # NoPath
  BY PathAssumption
<1>3. /\ Claimed(Parent(d)) /\ Parent(d) = Front(d) /\ Parent(d) \in Path
      /\ d = Append(Front(d), Last(d)) /\ Last(d) \in Name
  BY <1>2, ClaimedChild, ParentFront, LastEntry DEF Missing
<1>4. e.wd # 0 /\ e.kind = "create" /\ e.name = Last(d) /\ e.wd = kwatch[Parent(d)].wd
  BY DEF Announces, Missing
<1>5. e.wd \in Wd /\ inotify_wd_to_watch[e.wd] = Parent(d)
  <2>1. kwatch[Parent(d)].wd \in 0 .. MaxWd
    BY <1>1, <1>3 DEF TypeOK, KernelTypeOK, KWatch
  <2> QED
    BY <1>1, <1>3, <1>4, <2>1, KernelAssumption DEF Held, Tracked, Wd
<1>6. WatchLive(e.wd)
  BY <1>3, <1>5, PathAssumption DEF WatchLive
<1>7. ~Ignored(e)
  BY <1>4, PlainParts DEF Ignored, Missing
<1>8. FoundRoots(e) = PathToRoot(Parent(d))
  BY <1>5, <1>6 DEF FoundRoots
<1>9. FoundRoots(e) # {} /\ \A a \in FoundRoots(e) : TakesEvents(a)
  BY <1>1, <1>3, <1>8, RootsTake
<1>10. /\ UNCHANGED batch
       /\ \E a : main' = [main EXCEPT
                   !.pc = IF e.kind \in DirKinds THEN "dir" ELSE "enqueue",
                   !.root = a, !.path = inotify_wd_to_watch[e.wd]]
  BY <1>7, <1>9 DEF LookupEvent
<1>11. main'.pc = "dir" /\ main'.path = Parent(d)
  BY <1>1, <1>4, <1>5, <1>10 DEF DirKinds, TypeOK, MainTypeOK, MainType
<1>12. AbsPath(Parent(d), e.name) = d
  BY <1>3, <1>4, NoSlash DEF Key
<1> QED
  BY <1>4, <1>10, <1>11, <1>12 DEF EventPath

(* The handling of that event starts a walk of the directory.              *)
LEMMA NewDirectoryWalks ==
    ASSUME CoverSetting, CoverHolds, Calm, NEW d \in Path, Plain(d),
           NewDirectory, EventPath = d
    PROVE  Coming(d)'
<1>1. TypeOK /\ RegistryInv
  BY DEF CoverHolds, RegistryInv
<1>2. main.pc = "dir" /\ main.root \in Addr /\ Live(main.root)
  BY <1>1 DEF NewDirectory, RegistryInv, EventHeld, TypeOK, MainTypeOK
<1>3. ~IsTmp(main.path)
  <2>1. /\ main.path \in Key /\ Head(batch) \in KEvent
    BY <1>1, <1>2 DEF TypeOK, MainTypeOK
  <2>2. main.path \in Seq(Name) /\ main.path # NoPath /\ Head(batch).name \in Name
    <3>1. DoubleSlash # NoPath
      BY DEF DoubleSlash, NoPath
    <3>2. Head(batch).name \in Name
      BY <2>1 DEF KEvent
    <3>3. main.path \in Seq(Name)
      BY <1>1 DEF TypeOK, MainTypeOK, MainType
    <3> QED
      BY <2>1, <3>1, <3>2, <3>3, PathAssumption DEF Key
  <2>3. d = Append(main.path, Head(batch).name)
    BY <2>1, <2>2, NoSlash DEF EventPath
  <2>4. Front(d) = main.path /\ Len(d) # 1
    BY <2>2, <2>3, AppendEntry DEF NoPath
  <2> QED
    BY <2>4, PlainParts
<1>4. \A destroy \in DestroyReads(main.root) : ~destroy
  BY <1>1, <1>2, CalmRoots
<1>5. SpawnWalker(d, main.root, FALSE)
  BY <1>3, <1>4 DEF NewDirectory, CoverSetting
<1>6. PICK w \in Walker :
        walker'[w] = [pc |-> "start", root |-> main.root, cleanup |-> FALSE,
                      path |-> d, todo |-> {}]
  BY <1>1, <1>5, SpawnedWalk
<1>7. walker'[w].pc = "start" /\ walker'[w].path = d
  BY <1>6
<1> QED
  BY <1>7 DEF Coming

(* A new directory stays announced until a walk has it before it.          *)
LEMMA AnnouncedKept ==
    ASSUME CoverSetting, CoverHolds, Calm, Calm', [Next]_vars,
           NEW d \in Path, Missing(d), Announced(d),
           kwatch'[Parent(d)].wd = kwatch[Parent(d)].wd
    PROVE  Announced(d)' \/ Coming(d)'
<1>1. TypeOK /\ RegistryInv /\ BatchEmpty
  BY DEF CoverHolds, RegistryInv, MainHolds
<1>2. \A e : Announces(e, d) => Announces(e, d)'
  BY DEF Announces
<1>3. CASE main.pc = "dir" /\ Head(batch).kind = "create" /\ EventPath = d
  <2>1. CASE Beside
    BY <1>3, <2>1 DEF Beside, Announced, EventPath
  <2>2. CASE NewDirectory
    BY <1>3, <2>2, NewDirectoryWalks DEF Missing
  <2>3. CASE LostDirectory
    BY <1>3, <2>3 DEF LostDirectory
  <2>4. \/ Poll \/ InotifyMemclean \/ InotifyRewatchRoots \/ RewatchDone
        \/ (\E a \in Addr : RewatchNext(a))
        \/ ReadEvents \/ LookupEvent \/ EventsDone \/ InotifyEnqueue
        \/ (\E r \in Requests : ZmqDispatchEvent(r))
        => main.pc # "dir"
    BY DEF Poll, InotifyMemclean, InotifyRewatchRoots, RewatchDone, RewatchNext,
           ReadEvents, LookupEvent, EventsDone, InotifyEnqueue, ZmqDispatchEvent
  <2>5. \/ WatchCheck \/ WatchClash \/ WatchOpen \/ WatchInsert \/ WatchDump
        \/ WatchSpawn \/ Unwatch \/ PauseTree \/ UnpauseTree
        \/ GetEvents \/ InotifyDequeue \/ QueueSize
        => main.pc # "dir"
    BY DEF WatchCheck, WatchClash, WatchOpen, WatchInsert, WatchDump, WatchSpawn,
           Unwatch, PauseTree, UnpauseTree, GetEvents, InotifyDequeue, QueueSize
  <2> QED
    BY <1>1, <1>3, <2>1, <2>2, <2>3, <2>4, <2>5, CalmSteps
<1>4. ASSUME NEW e \in Waiting, Announces(e, d) PROVE Announced(d)'
  <2>1. CASE e \in Waiting'
    BY <1>2, <1>4, <2>1 DEF Announced
  <2>2. CASE Environment
    <3>1. ToSet(kq) \subseteq ToSet(kq')
      BY <1>1, <2>2, FsReports
    <3>2. UNCHANGED <<main, batch>>
      BY <2>2 DEF Environment
    <3>3. e \in Waiting'
      BY <1>4, <3>1, <3>2 DEF Waiting, Handling
    <3> QED
      BY <2>1, <3>3
  <2>3. CASE ~Environment /\ LookupEvent
    <3>1. CASE e = Head(batch)
      BY <1>4, <2>3, <3>1, LookupAnnounces DEF Announced
    <3>2. CASE e # Head(batch)
      BY <1>1, <1>4, <2>1, <2>3, <3>2, WaitingSteps
    <3> QED
      BY <3>1, <3>2
  <2>4. CASE ~Environment /\ ~LookupEvent
    BY <1>1, <1>4, <2>1, <2>4, WaitingSteps
  <2> QED
    BY <2>2, <2>3, <2>4
<1> QED
  BY <1>3, <1>4 DEF Announced

(* A walk is on its way to every root, from its registration on.           *)
LEMMA RootPromiseKept ==
    ASSUME CoverSetting, CoverHolds, CoverHolds', Calm, Calm', RootPromise, [Next]_vars
    PROVE  RootPromise'
<1>1. TypeOK /\ RegistryInv /\ MainHolds /\ MainHolds' /\ Spawning
  BY DEF CoverHolds, RegistryInv, MainHolds
<1> SUFFICES ASSUME NEW r \in Registered', Plain(r), kwatch'[r].wd = 0
             PROVE  \/ Coming(r)'
                    \/ main'.pc \in {"watch_dump", "watch_spawn"} /\ main'.path = r
  BY DEF RootPromise
<1>2. r \in Path /\ r \in dirs'
  BY <1>1 DEF Registered, MainHolds, Grounded
<1>3. CASE r \notin Registered
  <2>1. WatchInsert
    <3>1. UNCHANGED inotify_roots => Registered' = Registered
      BY DEF Registered
    <3>2. \A a \in Addr : ~DestroyEnd(a)
      BY <1>1, CalmRoots DEF DestroyEnd
    <3> QED
      BY <1>1, <1>3, <3>1, <3>2, TableSteps
  <2>2. Registered' = Registered \union {main.path}
    BY <1>1, <2>1, InsertAdds
  <2>3. main'.pc = "watch_dump" /\ main'.path = main.path
    BY <1>1, <2>1 DEF WatchInsert, Continue, TypeOK, MainTypeOK, MainType
  <2> QED
    BY <1>3, <2>2, <2>3
<1>4. CASE r \in Registered
  <2>1. kwatch[r].wd = 0
    BY <1>2, WatchChanges
  <2>2. CASE Coming(r)
    <3>1. r \in dirs
      BY <1>1, <1>4 DEF MainHolds, Grounded
    <3>2. ~\E w \in Walker : WalkerVisit(w) /\ walker[w].path = r
      BY <3>1, VisitCovers
    <3> QED
      BY <2>2, <3>2, ComingKept
  <2>3. CASE main.pc \in {"watch_dump", "watch_spawn"} /\ main.path = r
    <3>1. CASE Beside
      BY <2>3, <3>1 DEF Beside
    <3>2. CASE WatchDump
      BY <1>1, <2>3, <3>2 DEF WatchDump, Continue, TypeOK, MainTypeOK, MainType
    <3>3. CASE WatchSpawn
      <4>1. main.root \in Addr /\ Live(main.root)
        BY <1>1, <2>3 DEF Spawning, Live, Registered, TypeOK, MainTypeOK
      <4>2. \A destroy \in DestroyReads(main.root) : ~destroy
        BY <1>1, <4>1, CalmRoots
      <4>3. SpawnWalker(r, main.root, FALSE)
        BY <2>3, <3>3, <4>2 DEF WatchSpawn, CoverSetting
      <4>4. PICK w \in Walker :
              walker'[w] = [pc |-> "start", root |-> main.root, cleanup |-> FALSE,
                            path |-> r, todo |-> {}]
        BY <1>1, <4>3, SpawnedWalk
      <4>5. walker'[w].pc = "start" /\ walker'[w].path = r
        BY <4>4
      <4> QED
        BY <4>5 DEF Coming
    <3>4. \/ Poll \/ InotifyMemclean \/ InotifyRewatchRoots \/ RewatchDone
          \/ (\E a \in Addr : RewatchNext(a))
          \/ ReadEvents \/ LookupEvent \/ EventsDone \/ InotifyEnqueue
          \/ NewDirectory \/ LostDirectory
          \/ (\E q \in Requests : ZmqDispatchEvent(q))
          => main.pc \notin {"watch_dump", "watch_spawn"}
      BY DEF Poll, InotifyMemclean, InotifyRewatchRoots, RewatchDone, RewatchNext,
             ReadEvents, LookupEvent, EventsDone, InotifyEnqueue, NewDirectory,
             LostDirectory, ZmqDispatchEvent
    <3>5. \/ WatchCheck \/ WatchClash \/ WatchOpen \/ WatchInsert
          \/ Unwatch \/ PauseTree \/ UnpauseTree
          \/ GetEvents \/ InotifyDequeue \/ QueueSize
          => main.pc \notin {"watch_dump", "watch_spawn"}
      BY DEF WatchCheck, WatchClash, WatchOpen, WatchInsert, Unwatch, PauseTree,
             UnpauseTree, GetEvents, InotifyDequeue, QueueSize
    <3> QED
      BY <1>1, <2>3, <3>1, <3>2, <3>3, <3>4, <3>5, CalmSteps
  <2> QED
    BY <1>4, <2>1, <2>2, <2>3 DEF RootPromise
<1> QED
  BY <1>3, <1>4

(* A directory in a watched directory is never left behind: it is          *)
(* announced when it is made, and found when its parent is listed.         *)
LEMMA DirPromiseKept ==
    ASSUME CoverSetting, CoverHolds, CoverHolds', Calm, Calm', DirPromise, [Next]_vars
    PROVE  DirPromise'
<1>1. TypeOK /\ Held /\ Held' /\ RegistryInv /\ InTrees
  BY DEF CoverHolds, RegistryInv, NamesHold
<1> SUFFICES ASSUME NEW d \in Path, Missing(d)'
             PROVE  Coming(d)' \/ Listing(Parent(d))' \/ Announced(d)'
  BY DEF DirPromise
<1> DEFINE q == Parent(d)
<1>2. d \in dirs' /\ d \notin Registered' /\ Claimed(d)' /\ Plain(d)
      /\ kwatch'[d].wd = 0 /\ kwatch'[q].wd # 0
  BY DEF Missing
<1>3. d \notin Registered
  BY <1>1, <1>2, RootsLast
<1>4. q \in Path /\ q = Front(d) /\ Len(d) # 1
  <2>1. PICK r \in Registered' : Below(d, r)
    BY <1>2 DEF Claimed
  <2>2. r \in Path
    BY DEF Registered
  <2>3. Len(r) < Len(d)
    BY <2>1, <2>2, BelowMeans, PathAssumption
  <2>4. Len(d) # 1
    <3>1. Len(r) \in Nat \ {0} /\ Len(d) \in Nat
      BY <2>2, ParentFront
    <3>2. \A m \in Nat \ {0}, n \in Nat : m < n => n # 1
      OBVIOUS
    <3> QED
      BY <2>3, <3>1, <3>2
  <2> QED
    BY <2>4, ParentFront
<1>5. q \in dirs'
  BY <1>1, <1>2, <1>4 DEF Held
<1>6. CASE kwatch[q].wd = 0
  BY <1>2, <1>4, <1>6, WatchChanges
<1>7. CASE kwatch[q].wd # 0 /\ d \notin dirs
  <2>1. Environment
    BY <1>1, <1>2, <1>7, DiskSteps
  <2>2. Mkdir(d)
    BY <1>2, <1>7, <2>1, PlainFsSteps DEF Mkdir, Rmdir, WriteFile
  <2>3. "create" \in kwatch[q].mask /\ kwatch' = kwatch
    BY <1>1, <1>4, <1>7, <2>2 DEF Held, Mkdir
  <2>4. kq' = Notify(kq, q, "create", Last(d)) /\ Overflow \notin ToSet(kq')
    BY <2>2 DEF Mkdir, Calm
  <2>5. d \in Seq(Name) /\ Last(d) \in Name
    BY PathAssumption, LastEntry
  <2>6. [wd |-> kwatch[q].wd, kind |-> "create", name |-> Last(d)] \in ToSet(kq')
    <3>1. KernelTypeOK /\ "create" \in Kinds
      BY <1>1 DEF TypeOK, Kinds, DirKinds
    <3> QED
      BY <1>4, <1>7, <2>3, <2>4, <2>5, <3>1, NotifySet
  <2>7. PICK e : e = [wd |-> kwatch[q].wd, kind |-> "create", name |-> Last(d)]
    OBVIOUS
  <2>8. e \in Waiting'
    BY <2>6, <2>7 DEF Waiting
  <2>9. Announces(e, d)'
    BY <2>3, <2>7 DEF Announces
  <2> QED
    BY <2>8, <2>9 DEF Announced
<1>8. CASE kwatch[q].wd # 0 /\ d \in dirs
  <2>1. kwatch[d].wd = 0
    BY <1>2, WatchChanges
  <2>2. kwatch'[q].wd = kwatch[q].wd
    BY <1>4, <1>5, <1>8, WatchChanges
  <2>3. Claimed(q)
    <3>1. kwatch[q].wd \in Wd
      BY <1>1, <1>4, <1>8, KernelAssumption DEF TypeOK, KernelTypeOK, KWatch, Wd
    <3>2. inotify_wd_to_watch[kwatch[q].wd] = q
      BY <1>1, <1>4, <1>8 DEF Held, Tracked
    <3> QED
      BY <1>1, <1>4, <3>1, <3>2, PathAssumption DEF InTrees, WatchesInTrees, WatchLive
  <2>4. Missing(d)
    BY <1>2, <1>3, <1>8, <2>1, <2>3, ClaimedChild DEF Missing
  <2>5. CASE Coming(d)
    <3>1. ~\E w \in Walker : WalkerVisit(w) /\ walker[w].path = d
      BY <1>2, <1>8, VisitCovers
    <3> QED
      BY <2>5, <3>1, ComingKept
  <2>6. CASE Listing(q)
    BY <1>8, <2>6, ListingKept
  <2>7. CASE Announced(d)
    BY <2>2, <2>4, <2>7, AnnouncedKept
  <2> QED
    BY <2>4, <2>5, <2>6, <2>7 DEF DirPromise
<1> QED
  BY <1>6, <1>7, <1>8

(* Init and the steps keep the promise.                                    *)
LEMMA PromiseInvariant ==
    ASSUME CoverSetting
    PROVE  Spec /\ []Calm /\ NamesRest => [](CoverHolds /\ Promise)
<1>1. Init => Promise
  <2> SUFFICES ASSUME Init PROVE Promise
    OBVIOUS
  <2>1. Registered = {}
    BY DEF Init, Registered
  <2>2. \A d : ~Claimed(d)
    BY <2>1 DEF Claimed
  <2> QED
    BY <2>1, <2>2 DEF Promise, RootPromise, DirPromise, Missing
<1>2. ASSUME CoverHolds, CoverHolds', Promise, Calm, Calm', [Next]_vars
      PROVE  Promise'
  BY <1>2, RootPromiseKept, DirPromiseKept DEF Promise
<1>3. Spec /\ []Calm /\ NamesRest => []CoverHolds
  BY NamesInvariant
<1> QED
  BY <1>1, <1>2, <1>3, PTL DEF Spec

(* A set of paths has a shortest one.                                      *)
LEMMA ShortestPath ==
    ASSUME CoverSetting, NEW S \in SUBSET Path, S # {}
    PROVE  \E d \in S : \A p \in S : Len(d) <= Len(p)
<1>1. \A p \in S : Len(p) \in Nat
  BY ParentFront
<1>2. PICK T : T = {Len(p) : p \in S}
  OBVIOUS
<1>3. T \subseteq Nat /\ T # {}
  <2>1. \A x \in T : x \in Nat
    BY <1>1, <1>2
  <2>2. PICK p \in S : TRUE
    OBVIOUS
  <2>3. Len(p) \in T
    BY <1>2
  <2> QED
    BY <2>1, <2>3
<1>4. PICK k \in T : \A j \in T : ~(<<j, k>> \in OpToRel(<, Nat))
  BY <1>3, WFMin, NatLessThanWellFounded, Zenon
<1>5. \A j \in T : ~(j < k)
  BY <1>3, <1>4 DEF OpToRel
<1>6. PICK d \in S : k = Len(d)
  BY <1>2
<1>7. \A p \in S : ~(Len(p) < Len(d))
  BY <1>2, <1>5, <1>6
<1>8. \A p \in S : Len(d) <= Len(p)
  <2> TAKE p \in S
  <2>1. Len(p) \in Nat /\ Len(d) \in Nat /\ ~(Len(p) < Len(d))
    BY <1>1, <1>7
  <2> QED
    BY <2>1
<1> QED
  BY <1>8

(* When all is quiet nothing is under way, so every promise has been kept: *)
(* a shortest directory without a watch would be a root, or lie in a       *)
(* directory that is watched.                                              *)
LEMMA QuietKept ==
    ASSUME CoverSetting, CoverHolds, Promise, Quiet
    PROVE  Covered
<1>1. TypeOK /\ Held /\ MainHolds
  BY DEF CoverHolds, RegistryInv, NamesHold
<1>2. /\ \A d : ~Coming(d) /\ ~Listing(d)
      /\ \A d : ~Announced(d)
  <2>1. \A d : ~Coming(d) /\ ~Listing(d)
    BY DEF Quiet, Coming, Listing
  <2>2. batch = <<>> /\ kq = <<>> /\ main.pc = "poll"
    BY <1>1 DEF Quiet, MainHolds, BatchEmpty
  <2>3. Waiting = {}
    BY <2>2 DEF Waiting, Handling, ToSet
  <2> QED
    BY <2>1, <2>2, <2>3 DEF Announced
<1>3. Wanted \subseteq Path /\ Wanted \subseteq dirs
  BY <1>1 DEF Wanted, TypeOK, KernelTypeOK
<1> SUFFICES ASSUME NEW S, S = {d \in Wanted : ~Tracked(d)}, S # {} PROVE FALSE
  BY DEF Covered
<1>4. PICK d \in S : \A p \in S : Len(d) <= Len(p)
  BY <1>3, ShortestPath
<1>5. /\ d \in Wanted /\ d \in dirs /\ d \in Path /\ kwatch[d].wd = 0 /\ Plain(d)
  BY <1>1, <1>3 DEF Held, Wanted, Plain
<1>6. PICK r \in Registered : (d = r \/ Below(d, r)) /\ ~heap[inotify_roots[r]].destroy
  BY <1>5 DEF Wanted, InTree, CoverSetting, Registered
<1>7. r \in Path /\ r \in dirs
  BY <1>1 DEF Registered, MainHolds, Grounded
<1>8. d \notin Registered
  BY <1>2, <1>5 DEF Promise, RootPromise, Quiet
<1>9. Below(d, r) /\ Claimed(d)
  BY <1>6, <1>8 DEF Claimed
<1>10. Len(d) # 1 /\ Parent(d) = Front(d) /\ Front(d) \in Path
  BY <1>5, <1>8, <1>9, ClaimedChild, ParentFront
<1>11. d \in Seq(Name) /\ d # NoPath
  BY <1>5, PathAssumption
<1>12. /\ Front(d) \in Seq(Name) /\ Last(d) \in Name /\ d = Append(Front(d), Last(d))
       /\ Len(Front(d)) = Len(d) - 1
  BY <1>11, LastEntry
<1>13. Front(d) \in Wanted
  <2>1. Front(d) \in dirs
    BY <1>1, <1>5, <1>10 DEF MainHolds, Grounded, ClosedUp
  <2>2. InTree(Front(d), r)
    BY <1>7, <1>9, <1>12, EntryBelow, PathAssumption DEF InTree
  <2>3. \A i \in 1 .. Len(Front(d)) : Front(d)[i] = d[i] /\ i \in 1 .. Len(d)
    BY <1>11, <1>12 DEF Front
  <2>4. \A i \in 1 .. Len(Front(d)) : Front(d)[i] \notin TmpNames
    BY <1>5, <2>3 DEF Plain
  <2> QED
    BY <1>6, <2>1, <2>2, <2>4 DEF Wanted
<1>14. Len(d) \in Nat
  BY <1>11
<1>15. Tracked(Front(d))
  BY <1>4, <1>12, <1>13, <1>14
<1>16. Missing(d)
  BY <1>5, <1>8, <1>9, <1>10, <1>15 DEF Missing, Tracked
<1> QED
  BY <1>2, <1>5, <1>16 DEF Promise, DirPromise

(* However the walks of threads, the events of directories that come and   *)
(* go, the cleanup and the rewatch of roots interleave: when everything is *)
(* quiet, every directory of every root is watched and known under its     *)
(* name (do_watch_tree() adds the watch before it lists the directory, and *)
(* inotify_handle_event() walks every new one).  This needs a tree without *)
(* renames, roots that stay, no limit of the kernel met, and names that    *)
(* rest: a directory is not made again before the daemon has handled the   *)
(* removal of its last namesake.                                           *)
THEOREM TreesStayCovered ==
    ASSUME CoverSetting
    PROVE  Spec /\ []Calm /\ NamesRest => []QuietCovered
<1>1. CoverHolds /\ Promise => QuietCovered
  BY QuietKept DEF QuietCovered
<1>2. Spec /\ []Calm /\ NamesRest => [](CoverHolds /\ Promise)
  BY PromiseInvariant
<1> QED
  BY <1>1, <1>2, PTL

=============================================================================
