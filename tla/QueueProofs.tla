---------------------------- MODULE QueueProofs ----------------------------
(***************************************************************************)
(* The queues of the roots: what paused roots and roots under destruction  *)
(* hold, and that the daemon implements the abstract EventQueues: every    *)
(* step of every thread is one step of the abstract queues, or leaves them *)
(* alone.                                                                  *)
(***************************************************************************)
EXTENDS RegistryProofs

-----------------------------------------------------------------------------
(* The queue is gone once _destroy_root() has begun.                       *)
Drained ==
    \A a \in Addr :
        destroyer[a].pc \in {"scan", "unwatch", "forget"} => heap[a].queue = <<>>

(* EVENT_pause() has marked the root at p and not flushed its queue yet.   *)
Flushing(p) ==
    main.pc \in {"get", "dequeue"} /\ main.path = p /\ main.req.call = "pause"

PausedEmpty ==
    \A p \in Registered :
        heap[inotify_roots[p]].pause =>
            heap[inotify_roots[p]].queue = <<>> \/ Flushing(p)

(* The Root whose queue is about to be read is the one at the path, or     *)
(* there is none there any more.                                           *)
TakesFrom ==
    main.pc = "dequeue" =>
        /\ IsRoot(main.path) \in {main.root, NULL}
        /\ Live(main.root) => IsRoot(main.path) = main.root

PauseCall == main.pc = "pause_set" => main.req.call = "pause"

QueueInv == Drained /\ PausedEmpty /\ TakesFrom /\ PauseCall

-----------------------------------------------------------------------------
(* A Root is registered under one path only.                               *)
LEMMA OnePath ==
    ASSUME RegistryInv, NEW p \in Registered, NEW q \in Registered,
           inotify_roots[p] = inotify_roots[q]
    PROVE  p = q
  BY DEF RegistryInv, OwnPath

(* A Root found by its path is registered there.                           *)
LEMMA FoundRegistered ==
    ASSUME TypeOK, NEW p, IsRoot(p) # NULL
    PROVE  p \in Registered /\ inotify_roots[p] = IsRoot(p)
  BY DEF IsRoot, Registered

(* A step that leaves the registry, the pauses and the queues alone and    *)
(* does not end a flush.                                                   *)
LEMMA KeepQueues ==
    ASSUME RegistryInv, QueueInv,
           UNCHANGED <<inotify_roots, destroyer>>,
           \A a \in Addr : /\ heap'[a].pause = heap[a].pause
                           /\ heap'[a].queue = heap[a].queue,
           \A p \in Registered : Flushing(p) => Flushing(p)',
           TakesFrom', PauseCall'
    PROVE  QueueInv'
<1>1. Drained'
  BY DEF QueueInv, Drained
<1>2. PausedEmpty'
  BY SameRoots, RegisteredRoot DEF RegistryInv, QueueInv, PausedEmpty
<1> QED
  BY <1>1, <1>2 DEF QueueInv

(* Where the main thread neither pauses nor takes events.                  *)
LEMMA NotTaking ==
    /\ main'.pc # "dequeue" => TakesFrom'
    /\ main'.pc # "pause_set" => PauseCall'
    /\ main.pc \notin {"get", "dequeue"} => \A p : ~Flushing(p)
  BY DEF TakesFrom, PauseCall, Flushing

(* The handlers that leave the Roots alone.                                *)
LEMMA ReadersKeep ==
    ASSUME RegistryInv, QueueInv,
           \/ Elsewhere \/ Turn
           \/ LookupEvent \/ NewDirectory \/ LostDirectory
           \/ \E r \in Requests : ZmqDispatchEvent(r)
           \/ WatchCheck \/ WatchOpen \/ WatchDump \/ GetEvents
    PROVE  QueueInv'
<1>1. TypeOK
  BY DEF RegistryInv
<1>2. UNCHANGED <<inotify_roots, destroyer, heap>>
  BY <1>1, Readers DEF Elsewhere, Turn, rootVars
<1>3. ASSUME \A p \in Registered : Flushing(p) => Flushing(p)', TakesFrom', PauseCall'
      PROVE  QueueInv'
  BY <1>2, <1>3, KeepQueues
<1>4. CASE Elsewhere
  BY <1>2, <1>3, <1>4, SameRoots
  DEF Elsewhere, Flushing, QueueInv, TakesFrom, PauseCall, IsRoot
<1>5. CASE Turn
  BY <1>3, <1>5, NotTaking DEF Turn, LoopPc
<1>6. CASE \/ LookupEvent \/ NewDirectory \/ LostDirectory
           \/ WatchCheck \/ WatchOpen \/ WatchDump
  <2>1. main.pc \notin {"get", "dequeue"}
    BY <1>6 DEF LookupEvent, NewDirectory, LostDirectory, WatchCheck, WatchOpen, WatchDump
  <2>2. main'.pc \notin {"dequeue", "pause_set"}
    <3>1. CASE LookupEvent
      BY <1>1, <3>1, DropPc DEF LookupEvent, TypeOK, MainTypeOK, MainType
    <3>2. CASE NewDirectory \/ LostDirectory \/ WatchCheck \/ WatchOpen \/ WatchDump
      BY <1>1, <3>2, Readers DEF LoopPc
    <3> QED
      BY <1>6, <3>1, <3>2
  <2> QED
    BY <1>3, <2>1, <2>2, NotTaking
<1>7. ASSUME NEW r \in Requests, ZmqDispatchEvent(r) PROVE QueueInv'
  <2>1. main.pc \notin {"get", "dequeue"}
    BY <1>7 DEF ZmqDispatchEvent
  <2>2. TakesFrom'
    BY <1>1, <1>7, Readers, NotTaking DEF LoopPc
  <2>3. PauseCall'
    <3>1. CASE main'.pc \in LoopPc
      BY <3>1 DEF LoopPc, PauseCall
    <3>2. CASE EventWatch(r)
      BY <1>1, <3>1, <3>2, AnswerPc, ContinuePc DEF EventWatch, PauseCall
    <3>3. CASE EventUnwatch(r)
      BY <1>1, <3>1, <3>3, AnswerPc, ContinuePc DEF EventUnwatch, PauseCall
    <3>4. CASE EventOnRoot(r)
      BY <1>1, <3>1, <3>4, AnswerPc, ContinuePc DEF EventOnRoot, PauseCall
    <3>5. CASE EventQuery(r)
      BY <3>1, <3>5, AnswerPc DEF EventQuery
    <3> QED
      BY <1>7, <3>2, <3>3, <3>4, <3>5 DEF ZmqDispatchEvent
  <2> QED
    BY <1>3, <2>1, <2>2, <2>3, NotTaking
<1>8. CASE GetEvents
  <2>1. CASE IsRoot(main.path) = NULL
    <3>1. main'.pc \in LoopPc
      BY <1>8, <2>1, AnswerPc DEF GetEvents
    <3>2. \A p \in Registered : ~Flushing(p)
      BY <2>1 DEF Flushing, IsRoot, Registered
    <3> QED
      BY <1>3, <3>1, <3>2, NotTaking DEF LoopPc
  <2>2. CASE Continue(main.req, "dequeue", main.path, IsRoot(main.path))
    <3>1. main'.pc = "dequeue" /\ main'.path = main.path /\ main'.req = main.req
          /\ main'.root = IsRoot(main.path)
      BY <1>1, <2>2, ContinuePc
    <3>2. TakesFrom'
      BY <1>2, <3>1 DEF TakesFrom, IsRoot
    <3> QED
      BY <1>3, <3>1, <3>2, NotTaking DEF Flushing
  <2> QED
    BY <1>8, <2>1, <2>2 DEF GetEvents
<1> QED
  BY <1>4, <1>5, <1>6, <1>7, <1>8

(* A new Root is not paused and its queue is empty.                        *)
LEMMA InsertKeepsQueues ==
    ASSUME RegistryInv, QueueInv, WatchInsert
    PROVE  QueueInv'
<1> USE DEF RegistryInv
<1> PICK a \in Addr :
       /\ FreeAddr(a)
       /\ heap' = [heap EXCEPT ![a] = NewRoot(main.req, main.path)]
       /\ Register(main.path, a)
  BY DEF WatchInsert
<1>1. main.path \in Path /\ destroyer' = destroyer /\ main.pc = "watch_insert"
      /\ main'.pc = "watch_dump"
  BY Readers DEF WatchInsert, TypeOK, MainTypeOK, threadVars
<1>2. /\ ~heap'[a].pause /\ heap'[a].queue = <<>>
      /\ \A b \in Addr : b # a => heap'[b] = heap[b]
  BY DEF NewRoot, TypeOK, RootsTypeOK
<1>3. Drained'
  BY <1>1, <1>2 DEF QueueInv, Drained
<1>4. PausedEmpty'
  <2> SUFFICES ASSUME NEW p \in Registered', heap'[inotify_roots'[p]].pause
               PROVE  heap'[inotify_roots'[p]].queue = <<>>
    BY DEF PausedEmpty
  <2>1. CASE inotify_roots'[p] = a
    BY <1>2, <2>1
  <2>2. CASE inotify_roots'[p] # a
    <3>1. p \in Registered /\ inotify_roots'[p] = inotify_roots[p]
      BY <1>1, <2>2 DEF Register, Registered, TypeOK, RootsTypeOK
    <3>2. inotify_roots[p] \in Addr
      BY <3>1, RegisteredRoot
    <3>3. heap'[inotify_roots'[p]] = heap[inotify_roots[p]]
      BY <1>2, <2>2, <3>1, <3>2
    <3> QED
      BY <1>1, <3>1, <3>3, NotTaking DEF QueueInv, PausedEmpty
  <2> QED
    BY <2>1, <2>2
<1> QED
  BY <1>1, <1>3, <1>4, NotTaking DEF QueueInv

(* inotify_enqueue() writes to a queue that is neither paused nor drained. *)
LEMMA EnqueueKeepsQueues ==
    ASSUME RegistryInv, QueueInv, InotifyEnqueue
    PROVE  QueueInv'
<1> USE DEF RegistryInv
<1>1. /\ main.pc = "enqueue" /\ main'.pc = "event" /\ main.root \in Addr
      /\ UNCHANGED <<inotify_roots, destroyer>>
  BY DropPc DEF InotifyEnqueue, threadVars, TypeOK, MainTypeOK
<1>2. \A b \in Addr : b # main.root => heap'[b] = heap[b]
  BY DEF InotifyEnqueue, TypeOK, RootsTypeOK
<1>3. \A b \in Addr : heap'[b].pause = heap[b].pause
  <2>1. \E v : heap' = heap \/ heap' = [heap EXCEPT ![main.root].queue = v]
    BY DEF InotifyEnqueue
  <2> QED
    BY <2>1, QueueWrite
<1>4. ~heap[main.root].pause /\ ~heap[main.root].destroy
  BY <1>1 DEF EventHeld
<1>5. Drained'
  BY <1>1, <1>2, <1>4 DEF QueueInv, Drained, DestroyerHolds
<1>6. PausedEmpty'
  BY <1>1, <1>2, <1>3, <1>4, SameRoots, RegisteredRoot, NotTaking
  DEF QueueInv, PausedEmpty
<1> QED
  BY <1>1, <1>5, <1>6, NotTaking DEF QueueInv

(* inotify_unwatch_tree() leaves queues and pauses alone.                  *)
LEMMA UnwatchKeepsQueues ==
    ASSUME RegistryInv, QueueInv, Unwatch
    PROVE  QueueInv'
<1> USE DEF RegistryInv
<1>1. /\ main.pc = "unwatch_use" /\ main.root \in Addr
      /\ UNCHANGED inotify_roots
  BY DEF Unwatch, TypeOK, MainTypeOK
<1>2. main'.pc \in LoopPc \union {"unwatch_use"}
  BY <1>1, AnswerPc DEF Unwatch
<1>3. \A b \in Addr : heap'[b].pause = heap[b].pause /\ heap'[b].queue = heap[b].queue
  <2>1. \E v : heap' = heap \/ heap' = [heap EXCEPT ![main.root].destroy = v]
    BY DEF Unwatch
  <2> QED
    BY <2>1, DestroyWrite
<1>4. Drained'
  <2>1. \A b \in Addr : destroyer'[b].pc \in {"scan", "unwatch", "forget"} =>
                          destroyer[b].pc \in {"scan", "unwatch", "forget"}
    BY <1>1 DEF Unwatch, TypeOK, ThreadsTypeOK, DestroyerType
  <2> QED
    BY <1>3, <2>1 DEF QueueInv, Drained
<1>5. PausedEmpty'
  BY <1>1, <1>3, SameRoots, RegisteredRoot, NotTaking DEF QueueInv, PausedEmpty
<1> QED
  BY <1>2, <1>4, <1>5, NotTaking DEF QueueInv, LoopPc

(* inotify_pause_tree() starts a flush, inotify_unpause_tree() needs none. *)
LEMMA PauseKeepsQueues ==
    ASSUME RegistryInv, QueueInv, PauseTree \/ UnpauseTree
    PROVE  QueueInv'
<1> USE DEF RegistryInv
<1> DEFINE a == IsRoot(main.path)
<1>1. /\ main.pc \in {"pause_set", "unpause_set"}
      /\ UNCHANGED <<inotify_roots, destroyer>>
  BY DEF PauseTree, UnpauseTree, threadVars
<1>2. main'.pc \in LoopPc \union {"get"}
  BY AnswerPc, ContinuePc DEF PauseTree, UnpauseTree
<1>3. CASE UNCHANGED heap
  BY <1>1, <1>2, <1>3, KeepQueues, NotTaking DEF LoopPc
<1>4. CASE /\ a # NULL /\ SetPause(TRUE)
           /\ Continue(main.req, "get", main.path, NULL) /\ main.pc = "pause_set"
  <2>1. main.path \in Registered /\ inotify_roots[main.path] = a
    BY <1>4, FoundRegistered
  <2>2. \A b \in Addr : /\ heap'[b].queue = heap[b].queue
                        /\ b # a => heap'[b] = heap[b]
    BY <1>4, PauseWrite DEF SetPause
  <2>3. main'.pc = "get" /\ main'.path = main.path /\ main'.req.call = "pause"
    BY <1>4, ContinuePc DEF QueueInv, PauseCall
  <2>4. Drained'
    BY <1>1, <2>2 DEF QueueInv, Drained
  <2>5. PausedEmpty'
    <3> SUFFICES ASSUME NEW p \in Registered', heap'[inotify_roots'[p]].pause
                 PROVE  heap'[inotify_roots'[p]].queue = <<>> \/ Flushing(p)'
      BY DEF PausedEmpty
    <3>0. p \in Registered /\ inotify_roots'[p] = inotify_roots[p]
      BY <1>1, SameRoots
    <3>1. CASE p = main.path
      BY <2>3, <3>1 DEF Flushing
    <3>2. CASE p # main.path
      <4>1. inotify_roots[p] # a /\ inotify_roots[p] \in Addr
        BY <2>1, <3>0, <3>2, OnePath, RegisteredRoot
      <4> QED
        BY <1>1, <2>2, <3>0, <4>1, NotTaking DEF QueueInv, PausedEmpty
    <3> QED
      BY <3>1, <3>2
  <2> QED
    BY <1>2, <2>4, <2>5, NotTaking DEF QueueInv, LoopPc
<1>5. CASE a # NULL /\ SetPause(FALSE) /\ main'.pc \in LoopPc
  <2>1. a \in Addr
    BY <1>5, RootLookup DEF TypeOK
  <2>2. \A b \in Addr : /\ heap'[b].queue = heap[b].queue
                        /\ b # a => heap'[b] = heap[b]
    BY <1>5, PauseWrite DEF SetPause
  <2>3. ~heap'[a].pause
    BY <1>5, <2>1 DEF SetPause, TypeOK, RootsTypeOK, RootType
  <2>4. Drained'
    BY <1>1, <2>2 DEF QueueInv, Drained
  <2>5. PausedEmpty'
    BY <1>1, <2>2, <2>3, SameRoots, RegisteredRoot, NotTaking DEF QueueInv, PausedEmpty
  <2> QED
    BY <1>5, <2>4, <2>5, NotTaking DEF QueueInv, LoopPc
<1> QED
  BY <1>3, <1>4, <1>5, AnswerPc DEF PauseTree, UnpauseTree

(* The flush of EVENT_pause() takes everything from the queue, or finds it *)
(* gone with its root.                                                     *)
LEMMA DequeueKeepsQueues ==
    ASSUME RegistryInv, QueueInv, InotifyDequeue
    PROVE  QueueInv'
<1> USE DEF RegistryInv
<1> DEFINE a == main.root
           q == heap[a].queue
           n == DequeueCount(Len(q))
<1>1. /\ main.pc = "dequeue" /\ main'.pc \in LoopPc /\ a \in Addr
      /\ UNCHANGED <<inotify_roots, destroyer>>
  BY AnswerPc DEF InotifyDequeue, threadVars, TypeOK, MainTypeOK
<1>2. TakesFrom' /\ PauseCall'
  BY <1>1, NotTaking DEF LoopPc
<1>3. \A p \in Registered : p # main.path => ~Flushing(p)
  BY DEF Flushing
<1>4. CASE QueueLive(a) /\ heap' = [heap EXCEPT ![a].queue = SubSeq(q, n + 1, Len(q))]
  <2>1. \A b \in Addr : /\ heap'[b].pause = heap[b].pause
                        /\ b # a => heap'[b] = heap[b]
                        /\ b = a => heap'[b].queue = SubSeq(q, n + 1, Len(q))
    <3> DEFINE rest == SubSeq(q, n + 1, Len(q))
    <3>1. heap' = [heap EXCEPT ![a].queue = rest]
      BY <1>4
    <3> HIDE DEF rest, a
    <3>2. \A b \in Addr : /\ heap'[b].pause = heap[b].pause
                          /\ b # a => heap'[b] = heap[b]
                          /\ b = a => heap'[b].queue = rest
      BY <3>1 DEF TypeOK, RootsTypeOK, RootType
    <3> QED
      BY <3>2 DEF rest
  <2>2. IsRoot(main.path) = a /\ a # NULL
    BY <1>1, <1>4, StateAssumption DEF QueueLive, QueueInv, TakesFrom
  <2>3. main.path \in Registered /\ inotify_roots[main.path] = a
    BY <2>2, FoundRegistered
  <2>4. heap[a].pause => heap'[a].queue = <<>>
    <3> SUFFICES ASSUME heap[a].pause PROVE heap'[a].queue = <<>>
      OBVIOUS
    <3>1. q \in Seq(Event) /\ main.req.count \in Nat
      BY <1>1 DEF TypeOK, RootsTypeOK, RootType, MainTypeOK, MainType, RequestType
    <3>2. n = Len(q)
      <4>1. CASE main.req.call = "pause"
        BY <4>1 DEF DequeueCount
      <4>2. CASE main.req.call # "pause"
        <5>1. q = <<>>
          BY <2>3, <4>2 DEF QueueInv, PausedEmpty, Flushing
        <5>2. Len(q) = 0
          BY <5>1
        <5> HIDE DEF q
        <5> QED
          BY <3>1, <5>2 DEF DequeueCount
      <4> QED
        BY <4>1, <4>2
    <3>3. heap'[a].queue = SubSeq(q, Len(q) + 1, Len(q))
      BY <1>1, <2>1, <3>2
    <3>4. SubSeq(q, Len(q) + 1, Len(q)) = <<>>
      <4> HIDE DEF q
      <4> QED
        BY <3>1
    <3> QED
      BY <3>3, <3>4
  <2>5. Drained'
    BY <1>1, <1>4, <2>1 DEF QueueLive, QueueInv, Drained
  <2>6. PausedEmpty'
    <3> SUFFICES ASSUME NEW p \in Registered, heap'[inotify_roots[p]].pause
                 PROVE  heap'[inotify_roots[p]].queue = <<>>
      BY <1>1, SameRoots DEF PausedEmpty
    <3>1. inotify_roots[p] \in Addr
      BY RegisteredRoot
    <3>2. CASE p = main.path
      BY <1>1, <2>1, <2>3, <2>4, <3>2
    <3>3. CASE p # main.path
      <4>1. inotify_roots[p] # a
        BY <2>3, <3>3, OnePath
      <4>2. heap'[inotify_roots[p]] = heap[inotify_roots[p]]
        BY <2>1, <3>1, <4>1
      <4> QED
        BY <1>3, <3>3, <4>2 DEF QueueInv, PausedEmpty
    <3> QED
      BY <3>2, <3>3
  <2> QED
    BY <1>2, <2>5, <2>6 DEF QueueInv
<1>5. CASE ~QueueLive(a) /\ UNCHANGED heap
  <2>1. Drained'
    BY <1>1, <1>5 DEF QueueInv, Drained
  <2>2. PausedEmpty'
    <3> SUFFICES ASSUME NEW p \in Registered, heap[inotify_roots[p]].pause
                 PROVE  heap[inotify_roots[p]].queue = <<>>
      BY <1>1, <1>5, SameRoots DEF PausedEmpty
    <3>1. CASE p # main.path
      BY <1>3, <3>1 DEF QueueInv, PausedEmpty
    <3>2. CASE p = main.path
      <4>1. inotify_roots[p] = a
        BY <1>1, <3>2 DEF QueueInv, TakesFrom, IsRoot, Registered
      <4>2. Live(a)
        BY <4>1, RegisteredRoot
      <4>3. destroyer[a].pc \in {"scan", "unwatch", "forget"}
        BY <1>1, <1>5, <4>2
        DEF QueueLive, DestroyerHolds, TypeOK, ThreadsTypeOK, DestroyerType
      <4> QED
        BY <1>1, <4>1, <4>3 DEF QueueInv, Drained
    <3> QED
      BY <3>1, <3>2
  <2> QED
    BY <1>2, <2>1, <2>2 DEF QueueInv
<1> QED
  BY <1>4, <1>5 DEF InotifyDequeue

(* A step of _destroy_root().                                              *)
LEMMA DestroyerKeepsQueues ==
    ASSUME RegistryInv, QueueInv, NEW a \in Addr, DestroyerStep(a)
    PROVE  QueueInv'
<1> USE DEF RegistryInv
<1>a. UNCHANGED main
  BY DEF DestroyerStep, DestroyBegin, DestroyScan, DestroyUnwatch, DestroyForget,
         DestroyEnd, DestroyDump
<1>b. \A p : Flushing(p)' <=> Flushing(p)
  BY <1>a DEF Flushing
<1>c. PauseCall'
  BY <1>a DEF QueueInv, PauseCall
<1>1. CASE DestroyEnd(a)
  <2>1. UNCHANGED heap /\ Registered' = Registered \ {heap[a].path}
        /\ \A p \in Registered' : inotify_roots'[p] = inotify_roots[p]
        /\ heap[a].path \in Registered
    BY <1>1, EndRemoves
  <2>2. Drained'
    BY <1>1, <2>1 DEF DestroyEnd, QueueInv, Drained, TypeOK, ThreadsTypeOK, DestroyerType
  <2>3. PausedEmpty'
    BY <1>b, <2>1 DEF QueueInv, PausedEmpty
  <2>4. TakesFrom'
    <3> SUFFICES ASSUME main.pc = "dequeue"
                 PROVE  /\ IsRoot(main.path)' \in {main.root, NULL}
                        /\ Live(main.root)' => IsRoot(main.path)' = main.root
      BY <1>a DEF TakesFrom
    <3>0. /\ IsRoot(main.path)' =
               IF main.path \in Path THEN inotify_roots'[main.path] ELSE NULL
          /\ Live(main.root)' <=> \E p \in Path : inotify_roots'[p] = main.root
          /\ Registered' = {p \in Path : inotify_roots'[p] # NULL}
      BY <1>a DEF IsRoot, Live, Registered
    <3>1. main.root \in Addr /\ main.root # NULL
      BY StateAssumption DEF TypeOK, MainTypeOK
    <3>2. CASE main.path \in Registered'
      <4>1. main.path \in Registered /\ inotify_roots'[main.path] = inotify_roots[main.path]
        BY <2>1, <3>2
      <4>2. inotify_roots[main.path] = main.root
        BY <4>1 DEF QueueInv, TakesFrom, IsRoot, Registered
      <4> QED
        BY <3>0, <4>1, <4>2 DEF Registered
    <3>3. CASE main.path \notin Registered'
      <4>1. IsRoot(main.path)' = NULL
        BY <3>0, <3>3
      <4>2. ~Live(main.root)'
        <5> SUFFICES ASSUME NEW p \in Path, inotify_roots'[p] = main.root PROVE FALSE
          BY <3>0
        <5>1. p \in Registered' /\ p \in Registered /\ inotify_roots[p] = main.root
          BY <2>1, <3>0, <3>1
        <5>2. IsRoot(main.path) = main.root
          BY <5>1 DEF QueueInv, TakesFrom, Live
        <5>3. p = main.path
          BY <3>1, <5>1, <5>2, FoundRegistered, OnePath
        <5> QED
          BY <3>3, <5>1, <5>3
      <4> QED
        BY <4>1, <4>2
    <3> QED
      BY <3>2, <3>3
  <2> QED
    BY <1>c, <2>2, <2>3, <2>4 DEF QueueInv
<1>2. CASE \/ DestroyBegin(a) \/ DestroyScan(a) \/ DestroyUnwatch(a)
           \/ DestroyForget(a) \/ DestroyDump(a)
  <2>1. UNCHANGED inotify_roots
    BY <1>2 DEF DestroyBegin, DestroyScan, DestroyUnwatch, DestroyForget,
                DestroyDump, rootVars
  <2>2. \A b \in Addr : /\ heap'[b].pause = heap[b].pause
                        /\ heap[b].queue = <<>> => heap'[b].queue = <<>>
                        /\ DestroyBegin(a) /\ b = a => heap'[b].queue = <<>>
    <3>1. (UNCHANGED heap /\ ~DestroyBegin(a)) \/ heap' = [heap EXCEPT ![a].queue = <<>>]
      BY <1>2 DEF DestroyBegin, DestroyScan, DestroyUnwatch, DestroyForget,
                  DestroyDump, rootVars
    <3> QED
      BY <3>1, QueueWrite
  <2>3. /\ \A b \in Addr : b # a => destroyer'[b] = destroyer[b]
        /\ \/ DestroyBegin(a)
           \/ destroyer[a].pc \in {"scan", "unwatch", "forget"}
           \/ destroyer'[a].pc = "none"
    <3> USE DEF TypeOK, ThreadsTypeOK, DestroyerType
    <3>1. CASE DestroyBegin(a)
      BY <3>1 DEF DestroyBegin
    <3>2. CASE DestroyScan(a)
      BY <3>2 DEF DestroyScan
    <3>3. CASE DestroyUnwatch(a)
      BY <3>3 DEF DestroyUnwatch
    <3>4. CASE DestroyForget(a)
      BY <3>4 DEF DestroyForget
    <3>5. CASE DestroyDump(a)
      BY <3>5 DEF DestroyDump, NoDestroyer
    <3> QED
      BY <1>2, <3>1, <3>2, <3>3, <3>4, <3>5
  <2>4. Drained'
    BY <2>2, <2>3 DEF QueueInv, Drained
  <2>5. PausedEmpty'
    BY <1>b, <2>1, <2>2, SameRoots, RegisteredRoot DEF QueueInv, PausedEmpty
  <2>6. TakesFrom'
    BY <1>a, <2>1, SameRoots DEF QueueInv, TakesFrom, IsRoot
  <2> QED
    BY <1>c, <2>4, <2>5, <2>6 DEF QueueInv
<1> QED
  BY <1>1, <1>2 DEF DestroyerStep

-----------------------------------------------------------------------------
(* The queue invariant holds in every reachable state.                     *)
LEMMA QueueInvariant == Spec => []QueueInv
<1>1. Init => QueueInv
  <2> SUFFICES ASSUME Init PROVE QueueInv
    OBVIOUS
  <2>1. Registered = {} /\ main.pc = "poll" /\ \A a \in Addr : destroyer[a].pc = "none"
    BY DEF Init, Registered, IdleMain, NoDestroyer
  <2> QED
    BY <2>1 DEF QueueInv, Drained, PausedEmpty, TakesFrom, PauseCall
<1>2. RegistryInv /\ QueueInv /\ [Next]_vars => QueueInv'
  <2> SUFFICES ASSUME RegistryInv, QueueInv, [Next]_vars PROVE QueueInv'
    OBVIOUS
  <2>1. TypeOK
    BY DEF RegistryInv
  <2> QED
    BY <2>1, StepKinds, ReadersKeep, InsertKeepsQueues, EnqueueKeepsQueues,
       UnwatchKeepsQueues, PauseKeepsQueues, DequeueKeepsQueues, DestroyerKeepsQueues
<1> QED
  BY <1>1, <1>2, RegistryInvariant, PTL DEF Spec

(* A paused root has an empty queue, except while EVENT_pause() is between *)
(* marking the root and flushing it, whatever the event handler and the    *)
(* threads that destroy roots do in between.                               *)
THEOREM PausedQueuesStayEmpty == Spec => []PausedQueueEmpty
<1>1. QueueInv => PausedQueueEmpty
  BY DEF QueueInv, PausedEmpty, Flushing, PausedQueueEmpty
<1> QED
  BY <1>1, QueueInvariant, PTL

-----------------------------------------------------------------------------
(* The refinement: what the steps need besides the registry and the queue  *)
(* invariants.                                                             *)

ClientPc ==
    {"zmq", "watch_check", "watch_clash", "watch_open", "watch_insert",
     "watch_dump", "watch_spawn", "unwatch_use", "pause_set", "unpause_set",
     "get", "dequeue", "queue_size"}

(* The requests of clients come last in the main loop.                     *)
LastStage == main.pc \in ClientPc => main.stages = {}

(* The previous answer is out before anything else happens.                *)
AnswerSent == main.pc # "poll" => reply.events = <<>>

(* A root is made from what a client asked for.                            *)
AskedFor ==
    main.pc \in {"watch_check", "watch_open", "watch_insert"} =>
        main.req \in Requests

(* EVENT_pause() flushes a root that is marked.                            *)
MarkedPaused ==
    \A p \in Registered : Flushing(p) => heap[inotify_roots[p]].pause

AnswerInv == LastStage /\ AnswerSent /\ AskedFor /\ MarkedPaused

-----------------------------------------------------------------------------
(* The mapped variables, and the same root by root.                        *)

St == [p \in Path |-> Stage(p)]
Pd == {p \in Registered : heap[inotify_roots[p]].pause}
Qu == [p \in Path |-> IF p \in Registered THEN heap[inotify_roots[p]].queue ELSE <<>>]
Li == [p \in Path |-> IF p \in Registered THEN heap[inotify_roots[p]].max_events ELSE 0]

View ==
    \A p \in Path :
        LET a == inotify_roots[p]
        IN /\ St[p] = IF a = NULL THEN "closed"
                      ELSE IF ~heap[a].destroy THEN "open"
                      ELSE IF destroyer[a].pc \in {"none", "begin"} THEN "closing"
                      ELSE "drained"
           /\ p \in Pd <=> a # NULL /\ heap[a].pause
           /\ Qu[p] = IF a = NULL THEN <<>> ELSE heap[a].queue
           /\ Li[p] = IF a = NULL THEN 0 ELSE heap[a].max_events

(* All roots but the one at p look as before.                              *)
Others(p) ==
    \A q \in Path : q # p =>
        /\ St'[q] = St[q] /\ (q \in Pd' <=> q \in Pd)
        /\ Qu'[q] = Qu[q] /\ Li'[q] = Li[q]

(* What a client sees of a root is in its Root.                            *)
LEMMA Views == View /\ View'
<1>1. \A p \in Path : Live(inotify_roots[p]) /\ Live(inotify_roots[p])'
  BY DEF Live
<1>2. View
  BY <1>1 DEF View, St, Pd, Qu, Li, Stage, Registered, QueueLive
<1>3. View'
  BY <1>1 DEF View, St, Pd, Qu, Li, Stage, Registered, QueueLive
<1> QED
  BY <1>2, <1>3

(* A step that concerns one Root, at path p.                               *)
LEMMA OthersKeep ==
    ASSUME TypeOK, NEW p \in Path, NEW a \in Addr,
           \A q \in Path : q # p =>
               inotify_roots'[q] = inotify_roots[q] /\ inotify_roots[q] # a,
           \A b \in Addr : b # a => heap'[b] = heap[b] /\ destroyer'[b] = destroyer[b]
    PROVE  Others(p)
<1> SUFFICES ASSUME NEW q \in Path, q # p
             PROVE  /\ St'[q] = St[q] /\ (q \in Pd' <=> q \in Pd)
                    /\ Qu'[q] = Qu[q] /\ Li'[q] = Li[q]
  BY DEF Others
<1> DEFINE b == inotify_roots[q]
<1>1. inotify_roots'[q] = b /\ (b = NULL \/ b \in Addr \ {a})
  BY DEF TypeOK, RootsTypeOK
<1>2. b # NULL => heap'[b] = heap[b] /\ destroyer'[b] = destroyer[b]
  BY <1>1
<1> HIDE DEF b
<1> QED
  BY <1>1, <1>2, Views DEF View, b

(* The mapped variables after such a step.                                 *)
LEMMA OneRoot ==
    ASSUME NEW p \in Path, Others(p)
    PROVE  /\ St' = [St EXCEPT ![p] = St'[p]]
           /\ Qu' = [Qu EXCEPT ![p] = Qu'[p]]
           /\ Li' = [Li EXCEPT ![p] = Li'[p]]
           /\ Pd' = IF p \in Pd' THEN Pd \union {p} ELSE Pd \ {p}
           /\ St'[p] = St[p] => St' = St
           /\ Qu'[p] = Qu[p] => Qu' = Qu
           /\ Li'[p] = Li[p] => Li' = Li
           /\ (p \in Pd' <=> p \in Pd) => Pd' = Pd
<1>1. /\ St = [q \in Path |-> St[q]] /\ St' = [q \in Path |-> St'[q]]
      /\ Qu = [q \in Path |-> Qu[q]] /\ Qu' = [q \in Path |-> Qu'[q]]
      /\ Li = [q \in Path |-> Li[q]] /\ Li' = [q \in Path |-> Li'[q]]
      /\ Pd \subseteq Path /\ Pd' \subseteq Path
  BY DEF St, Qu, Li, Pd, Registered
<1>2. \A q \in Path : q # p => St'[q] = St[q] /\ Qu'[q] = Qu[q] /\ Li'[q] = Li[q]
  BY DEF Others
<1>3. \A q \in Path : q # p => (q \in Pd' <=> q \in Pd)
  BY DEF Others
<1>4. St' = [St EXCEPT ![p] = St'[p]] /\ (St'[p] = St[p] => St' = St)
  BY <1>1, <1>2
<1>5. Qu' = [Qu EXCEPT ![p] = Qu'[p]] /\ (Qu'[p] = Qu[p] => Qu' = Qu)
  BY <1>1, <1>2
<1>6. Li' = [Li EXCEPT ![p] = Li'[p]] /\ (Li'[p] = Li[p] => Li' = Li)
  BY <1>1, <1>2
<1>7. /\ Pd' = IF p \in Pd' THEN Pd \union {p} ELSE Pd \ {p}
      /\ (p \in Pd' <=> p \in Pd) => Pd' = Pd
  BY <1>1, <1>3
<1> QED
  BY <1>4, <1>5, <1>6, <1>7

-----------------------------------------------------------------------------
(* The abstract steps in terms of the mapped variables.                    *)

Same == UNCHANGED <<St, Pd, Qu, Li>>

(* A step of the abstract queues, or none.                                 *)
Abstract == [Queues!Next]_(Queues!vars)

(* Nothing moved, except that the answer went out.                         *)
LEMMA AsForgotten ==
    ASSUME Same, reply'.events \in {reply.events, <<>>}
    PROVE  Abstract
<1>1. CASE reply'.events = reply.events
  BY <1>1 DEF Same, Abstract, Queues!vars, St, Pd, Qu, Li
<1>2. CASE reply'.events = <<>>
  <2>1. Queues!Forgotten
    BY <1>2 DEF Same, Queues!Forgotten, St, Pd, Qu, Li
  <2> QED
    BY <2>1 DEF Abstract, Queues!Next
<1> QED
  BY <1>1, <1>2

-----------------------------------------------------------------------------
(* The answers: what the main thread holds between the steps of a call.    *)

MainPart == LastStage /\ AnswerSent /\ AskedFor

(* An answer ends the call, and with it the turn of the loop.              *)
LEMMA AnswerEnds ==
    ASSUME main.stages = {}
    PROVE  /\ \A code, events, size : Answer(code, events, size) =>
                main'.pc = "poll" /\ reply'.events = events
           /\ \A code : Error(code) => main'.pc = "poll" /\ reply'.events = <<>>
           /\ Success => main'.pc = "poll" /\ reply'.events = <<>>
           /\ \A events : Deliver(events) =>
                /\ main'.pc = "poll"
                /\ reply'.events = IF main.req.call = "pause" THEN <<>> ELSE events
<1>1. ASSUME NEW code, NEW events, NEW size, Answer(code, events, size)
      PROVE  main'.pc = "poll" /\ reply'.events = events
  BY <1>1 DEF Answer, ToStage, NextStage, IdleMain
<1>2. \A code : Error(code) => main'.pc = "poll" /\ reply'.events = <<>>
  BY <1>1 DEF Error
<1>3. Success => main'.pc = "poll" /\ reply'.events = <<>>
  BY <1>1 DEF Success
<1> QED
  BY <1>1, <1>2, <1>3 DEF Deliver

(* A call that goes on keeps its turn and answers nothing yet.             *)
LEMMA ContinueGoes ==
    ASSUME TypeOK, NEW r, NEW pc, NEW path, NEW root, Continue(r, pc, path, root)
    PROVE  /\ main'.pc = pc /\ main'.stages = main.stages /\ main'.req = r
           /\ main'.path = path /\ main'.root = root /\ reply' = reply
  BY DEF Continue, TypeOK, MainTypeOK, MainType

(* The next stage of the loop.                                             *)
LEMMA StageBegins ==
    ASSUME NEW S \in SUBSET {"memclean", "inotify", "zmq"}, ToStage(S)
    PROVE  /\ main'.pc \in {"poll", "memclean", "inotify", "zmq"}
           /\ main'.pc = "zmq" => main'.stages = {}
  BY DEF ToStage, NextStage, IdleMain

(* Where the steps of the main thread leave it.                            *)
LEMMA CallSteps ==
    ASSUME TypeOK, MainPart,
           \/ \E r \in Requests : ZmqDispatchEvent(r)
           \/ WatchCheck \/ WatchClash \/ WatchOpen \/ WatchInsert \/ WatchDump
           \/ WatchSpawn \/ Unwatch \/ PauseTree \/ UnpauseTree
           \/ GetEvents \/ InotifyDequeue \/ QueueSize
    PROVE  /\ main.stages = {} /\ reply.events = <<>>
           /\ \/ main'.pc = "poll"
              \/ UNCHANGED <<main, reply>>
              \/ /\ main'.stages = {} /\ reply' = reply
                 /\ \/ main'.req \in Requests
                    \/ /\ main'.req = main.req
                       /\ main'.pc \in {"watch_check", "watch_open", "watch_insert"} =>
                            main.pc \in {"watch_check", "watch_open"}
<1>0. main.pc \in ClientPc /\ main.pc # "poll"
  BY DEF ZmqDispatchEvent, WatchCheck, WatchClash, WatchOpen, WatchInsert, WatchDump,
         WatchSpawn, Unwatch, PauseTree, UnpauseTree, GetEvents, InotifyDequeue,
         QueueSize, ClientPc
<1>1. main.stages = {} /\ reply.events = <<>>
  BY <1>0 DEF MainPart, LastStage, AnswerSent
<1>2. ASSUME NEW r \in Requests, ZmqDispatchEvent(r)
      PROVE  \/ main'.pc = "poll"
             \/ main'.stages = {} /\ reply' = reply /\ main'.req \in Requests
  <2>1. CASE EventWatch(r)
    BY <1>1, <2>1, AnswerEnds, ContinueGoes DEF EventWatch
  <2>2. CASE EventUnwatch(r)
    BY <1>1, <2>2, AnswerEnds, ContinueGoes DEF EventUnwatch
  <2>3. CASE EventOnRoot(r)
    BY <1>1, <2>3, AnswerEnds, ContinueGoes DEF EventOnRoot
  <2>4. CASE EventQuery(r)
    BY <1>1, <2>4, AnswerEnds DEF EventQuery
  <2> QED
    BY <1>2, <2>1, <2>2, <2>3, <2>4 DEF ZmqDispatchEvent
<1> DEFINE Going == /\ main'.stages = {} /\ reply' = reply /\ main'.req = main.req
                    /\ main'.pc \in {"watch_check", "watch_open", "watch_insert"} =>
                         main.pc \in {"watch_check", "watch_open"}
<1>3. WatchCheck \/ WatchOpen \/ WatchInsert \/ WatchDump => main'.pc = "poll" \/ Going
  BY <1>1, AnswerEnds, ContinueGoes DEF WatchCheck, WatchOpen, WatchInsert, WatchDump
<1>4. WatchClash \/ WatchSpawn \/ UnpauseTree \/ InotifyDequeue \/ QueueSize
      => main'.pc = "poll"
  BY <1>1, AnswerEnds DEF WatchClash, WatchSpawn, UnpauseTree, InotifyDequeue, QueueSize
<1>5. Unwatch => main'.pc = "poll" \/ UNCHANGED <<main, reply>>
  BY <1>1, AnswerEnds DEF Unwatch
<1>6. PauseTree \/ GetEvents => main'.pc = "poll" \/ Going
  BY <1>1, AnswerEnds, ContinueGoes DEF PauseTree, GetEvents
<1> QED
  BY <1>1, <1>2, <1>3, <1>4, <1>5, <1>6

(* The steps of the main loop and of inotify_handle_event() answer         *)
(* nothing, and zmq_poll() returns after the last answer went out.         *)
LEMMA LoopSteps ==
    ASSUME TypeOK,
           \/ Poll \/ InotifyMemclean \/ InotifyRewatchRoots \/ RewatchDone
           \/ \E a \in Addr : RewatchNext(a)
           \/ ReadEvents \/ LookupEvent \/ EventsDone
           \/ NewDirectory \/ LostDirectory \/ InotifyEnqueue
    PROVE  /\ main'.pc \notin ClientPc \ {"zmq"}
           /\ main'.pc = "zmq" => main'.stages = {}
           /\ \/ main.pc = "poll" /\ reply'.events = <<>>
              \/ main.pc \notin ClientPc \union {"poll"} /\ reply' = reply
<1> DEFINE Begun == /\ main'.pc \notin ClientPc \ {"zmq"}
                    /\ main'.pc = "zmq" => main'.stages = {}
<1>a. main.stages \in SUBSET {"memclean", "inotify", "zmq"}
  BY DEF TypeOK, MainTypeOK, MainType
<1>b. ASSUME NEW S \in SUBSET {"memclean", "inotify", "zmq"}, ToStage(S) PROVE Begun
  BY <1>b, StageBegins DEF ClientPc
<1>c. ASSUME main'.pc \in {"rewatch", "rewatch_next", "event", "dir", "enqueue"}
      PROVE  Begun
  BY <1>c DEF ClientPc
<1> HIDE DEF Begun
<1>1. Poll => Begun
  BY <1>b DEF Poll
<1>2. RewatchDone \/ EventsDone => Begun
  BY <1>a, <1>b DEF RewatchDone, EventsDone
<1>3. InotifyRewatchRoots => Begun
  BY <1>a, <1>b, <1>c DEF InotifyRewatchRoots, TypeOK, MainTypeOK, MainType
<1>4. InotifyMemclean => Begun
  BY <1>c DEF InotifyMemclean, TypeOK, MainTypeOK, MainType
<1>5. ASSUME NEW a \in Addr, RewatchNext(a) PROVE Begun
  <2>1. main'.pc = "rewatch_next"
    BY <1>5 DEF RewatchNext, TypeOK, MainTypeOK, MainType
  <2> QED
    BY <1>c, <2>1
<1>6. ReadEvents => Begun
  BY <1>c DEF ReadEvents, TypeOK, MainTypeOK, MainType
<1>7. LookupEvent \/ InotifyEnqueue => Begun
  BY <1>c, DropPc DEF LookupEvent, InotifyEnqueue, TypeOK, MainTypeOK, MainType
<1>8. NewDirectory \/ LostDirectory => Begun
  BY <1>c, Readers
<1>9. Poll => main.pc = "poll" /\ reply'.events = <<>>
  BY DEF Poll, NoReply
<1>10. ASSUME ~Poll PROVE main.pc \notin ClientPc \union {"poll"} /\ reply' = reply
  BY <1>10 DEF InotifyMemclean, InotifyRewatchRoots, RewatchDone, RewatchNext,
       ReadEvents, LookupEvent, EventsDone, NewDirectory, LostDirectory,
       InotifyEnqueue, ClientPc
<1>11. Begun
  BY <1>1, <1>2, <1>3, <1>4, <1>5, <1>6, <1>7, <1>8
<1> QED
  BY <1>9, <1>10, <1>11 DEF Begun

(* Threads and other processes do not touch the main thread.               *)
LEMMA OtherSteps ==
    ASSUME [Next]_vars, ~MainStep
    PROVE  UNCHANGED <<main, reply>>
<1>1. ASSUME NEW w \in Walker, WalkerStep(w) PROVE UNCHANGED <<main, reply>>
  BY <1>1 DEF WalkerStep, WalkerStart, WalkerVisit, WalkerList, WalkerLoop, WalkerEnd
<1>2. ASSUME NEW c \in Cleaner, CleanerStep(c) PROVE UNCHANGED <<main, reply>>
  BY <1>2 DEF CleanerStep, MemcleanStart, MemcleanSnapshot, MemcleanScan,
              MemcleanRemove, MemcleanEnd
<1>3. ASSUME NEW a \in Addr, DestroyerStep(a) PROVE UNCHANGED <<main, reply>>
  BY <1>3 DEF DestroyerStep, DestroyBegin, DestroyScan, DestroyUnwatch,
              DestroyForget, DestroyEnd, DestroyDump
<1>4. Environment \/ UNCHANGED vars => UNCHANGED <<main, reply>>
  BY DEF Environment, vars
<1> QED
  BY <1>1, <1>2, <1>3, <1>4 DEF Next

(* Every step keeps the order of the loop and of the answers.              *)
LEMMA StepKeepsAnswers ==
    ASSUME TypeOK, MainPart, [Next]_vars
    PROVE  MainPart'
<1>1. CASE ~MainStep
  <2>1. UNCHANGED <<main, reply>>
    BY <1>1, OtherSteps
  <2> QED
    BY <2>1 DEF MainPart, LastStage, AnswerSent, AskedFor
<1>2. CASE \/ Poll \/ InotifyMemclean \/ InotifyRewatchRoots \/ RewatchDone
           \/ \E a \in Addr : RewatchNext(a)
           \/ ReadEvents \/ LookupEvent \/ EventsDone
           \/ NewDirectory \/ LostDirectory \/ InotifyEnqueue
  BY <1>2, LoopSteps DEF MainPart, LastStage, AnswerSent, AskedFor, ClientPc
<1>3. CASE \/ \E r \in Requests : ZmqDispatchEvent(r)
           \/ WatchCheck \/ WatchClash \/ WatchOpen \/ WatchInsert \/ WatchDump
           \/ WatchSpawn \/ Unwatch \/ PauseTree \/ UnpauseTree
           \/ GetEvents \/ InotifyDequeue \/ QueueSize
  <2>1. \/ main'.pc = "poll"
        \/ UNCHANGED <<main, reply>>
        \/ /\ main'.stages = {} /\ reply' = reply
           /\ \/ main'.req \in Requests
              \/ /\ main'.req = main.req
                 /\ main'.pc \in {"watch_check", "watch_open", "watch_insert"} =>
                      main.pc \in {"watch_check", "watch_open"}
    BY <1>3, CallSteps
  <2>2. reply.events = <<>>
    BY <1>3, CallSteps
  <2> QED
    BY <2>1, <2>2 DEF MainPart, LastStage, AnswerSent, AskedFor, ClientPc
<1> QED
  BY <1>1, <1>2, <1>3 DEF MainStep

(* What a step of _destroy_root() leaves of the Roots.                     *)
LEMMA DestroyerRoots ==
    ASSUME RegistryInv, NEW a \in Addr, DestroyerStep(a)
    PROVE  /\ Registered' \subseteq Registered
           /\ \A p \in Registered' : inotify_roots'[p] = inotify_roots[p]
           /\ \A b \in Addr : heap'[b].pause = heap[b].pause
<1>1. TypeOK
  BY DEF RegistryInv
<1>2. CASE DestroyEnd(a)
  BY <1>2, EndRemoves
<1>3. CASE ~DestroyEnd(a)
  <2>1. UNCHANGED inotify_roots
    BY <1>3 DEF DestroyerStep, DestroyBegin, DestroyScan, DestroyUnwatch,
                DestroyForget, DestroyDump, rootVars
  <2>2. heap' = heap \/ heap' = [heap EXCEPT ![a].queue = <<>>]
    BY <1>3 DEF DestroyerStep, DestroyBegin, DestroyScan, DestroyUnwatch,
                DestroyForget, DestroyDump, rootVars
  <2> QED
    BY <1>1, <2>1, <2>2, SameRoots, QueueWrite
<1> QED
  BY <1>2, <1>3

(* A root stays marked until its queue is flushed.                         *)
LEMMA StepKeepsMarks ==
    ASSUME RegistryInv, QueueInv, MarkedPaused, [Next]_vars
    PROVE  MarkedPaused'
<1>1. TypeOK
  BY DEF RegistryInv
<1>2. ASSUME main'.pc \notin {"get", "dequeue"} \/ main'.req.call # "pause"
      PROVE  MarkedPaused'
  BY <1>2 DEF MarkedPaused, Flushing
<1>3. CASE Elsewhere
  BY <1>3, SameRoots DEF Elsewhere, rootVars, MarkedPaused, Flushing
<1>4. CASE Turn
  BY <1>2, <1>4 DEF Turn, LoopPc
<1>5. CASE LookupEvent \/ InotifyEnqueue
  BY <1>1, <1>2, <1>5, DropPc
  DEF LookupEvent, InotifyEnqueue, TypeOK, MainTypeOK, MainType
<1>6. CASE NewDirectory \/ LostDirectory \/ WatchCheck \/ WatchOpen \/ WatchInsert \/ WatchDump
  BY <1>1, <1>2, <1>6, Readers DEF LoopPc
<1>7. ASSUME NEW r \in Requests, ZmqDispatchEvent(r) PROVE MarkedPaused'
  <2>1. CASE main'.pc \in LoopPc
    BY <1>2, <2>1 DEF LoopPc
  <2>2. CASE main'.pc \notin LoopPc
    <3>1. CASE EventWatch(r)
      BY <1>1, <1>2, <2>2, <3>1, AnswerPc, ContinuePc DEF EventWatch
    <3>2. CASE EventUnwatch(r)
      BY <1>1, <1>2, <2>2, <3>2, AnswerPc, ContinuePc DEF EventUnwatch
    <3>3. CASE EventOnRoot(r)
      BY <1>1, <1>2, <2>2, <3>3, AnswerPc, ContinuePc DEF EventOnRoot
    <3>4. CASE EventQuery(r)
      BY <2>2, <3>4, AnswerPc DEF EventQuery
    <3> QED
      BY <1>7, <3>1, <3>2, <3>3, <3>4 DEF ZmqDispatchEvent
  <2> QED
    BY <2>1, <2>2
<1>8. CASE Unwatch
  <2>1. main'.pc \in LoopPc \union {"unwatch_use"}
    BY <1>8, AnswerPc DEF Unwatch
  <2> QED
    BY <1>2, <2>1 DEF LoopPc
<1>9. CASE UnpauseTree \/ InotifyDequeue
  BY <1>2, <1>9, AnswerPc DEF UnpauseTree, InotifyDequeue, LoopPc
<1>10. CASE PauseTree
  <2>1. CASE IsRoot(main.path) = NULL
    BY <1>2, <1>10, <2>1, AnswerPc DEF PauseTree, LoopPc
  <2>2. CASE IsRoot(main.path) # NULL
    <3>1. /\ main'.path = main.path /\ UNCHANGED inotify_roots
          /\ heap' = [heap EXCEPT ![IsRoot(main.path)].pause = TRUE]
      BY <1>1, <1>10, <2>2, ContinuePc DEF PauseTree, SetPause
    <3>2. main.path \in Registered /\ inotify_roots[main.path] = IsRoot(main.path)
          /\ inotify_roots[main.path] \in Addr
      BY <1>1, <2>2, FoundRegistered, RegisteredRoot
    <3>3. heap'[inotify_roots[main.path]].pause = TRUE
      <4> PICK a \in Addr : a = IsRoot(main.path)
        BY <3>2
      <4>1. heap' = [heap EXCEPT ![a].pause = TRUE]
        BY <3>1
      <4>2. heap'[a].pause = TRUE
        BY <1>1, <4>1 DEF TypeOK, RootsTypeOK, RootType
      <4> QED
        BY <3>2, <4>2
    <3> QED
      BY <3>1, <3>2, <3>3, SameRoots DEF MarkedPaused, Flushing
  <2> QED
    BY <2>1, <2>2
<1>11. CASE GetEvents
  <2>1. CASE IsRoot(main.path) = NULL
    BY <1>2, <1>11, <2>1, AnswerPc DEF GetEvents, LoopPc
  <2>2. CASE IsRoot(main.path) # NULL
    <3>1. /\ main'.path = main.path /\ main'.req = main.req /\ main.pc = "get"
          /\ UNCHANGED <<inotify_roots, heap>>
      BY <1>1, <1>11, <2>2, ContinuePc DEF GetEvents, rootVars
    <3> QED
      BY <3>1, SameRoots DEF MarkedPaused, Flushing
  <2> QED
    BY <2>1, <2>2
<1>12. ASSUME NEW a \in Addr, DestroyerStep(a) PROVE MarkedPaused'
  <2>1. UNCHANGED main
    BY <1>12 DEF DestroyerStep, DestroyBegin, DestroyScan, DestroyUnwatch,
                 DestroyForget, DestroyEnd, DestroyDump
  <2> QED
    BY <1>1, <1>12, <2>1, DestroyerRoots, RegisteredRoot DEF MarkedPaused, Flushing
<1> QED
  BY <1>1, <1>3, <1>4, <1>5, <1>6, <1>7, <1>8, <1>9, <1>10, <1>11, <1>12, StepKinds

-----------------------------------------------------------------------------
(* The steps that only read Roots leave the mapped variables alone.        *)

LEMMA SameRootsSame ==
    ASSUME UNCHANGED <<inotify_roots, heap, destroyer>>
    PROVE  Same
<1>1. Registered' = Registered /\ \A a : Live(a)' <=> Live(a)
  BY SameRoots
<1>2. \A p \in Path : Stage(p)' = Stage(p)
  BY <1>1 DEF Stage, QueueLive
<1>3. UNCHANGED St
  BY <1>2 DEF St
<1>4. UNCHANGED Pd /\ UNCHANGED Qu /\ UNCHANGED Li
  BY <1>1 DEF Pd, Qu, Li
<1> QED
  BY <1>3, <1>4 DEF Same

(* inotify_watch_tree() opens a queue with the length the client asked for.*)
LEMMA InsertMaps ==
    ASSUME RegistryInv, AnswerInv, WatchInsert
    PROVE  Abstract
<1> USE DEF RegistryInv
<1> PICK p \in Path : p = main.path
  BY InsertAdds
<1> PICK a \in Addr :
       /\ FreeAddr(a)
       /\ heap' = [heap EXCEPT ![a] = NewRoot(main.req, main.path)]
       /\ Register(main.path, a)
       /\ Continue(main.req, "watch_dump", main.path, a)
  BY DEF WatchInsert
<1>1. p \notin Registered /\ inotify_roots[p] = NULL
  BY InsertAdds DEF Registered
<1>2. /\ inotify_roots'[p] = a /\ a # NULL
      /\ \A q \in Path : q # p =>
           inotify_roots'[q] = inotify_roots[q] /\ inotify_roots[q] # a
  BY <1>1, StateAssumption DEF Register, FreeAddr, Live, TypeOK, RootsTypeOK
<1>3. /\ UNCHANGED destroyer /\ \A b \in Addr : b # a => heap'[b] = heap[b]
      /\ heap'[a] = NewRoot(main.req, main.path)
  BY DEF WatchInsert, threadVars, TypeOK, RootsTypeOK
<1>4. /\ ~heap'[a].destroy /\ ~heap'[a].pause /\ heap'[a].queue = <<>>
      /\ heap'[a].max_events = main.req.max_events
  BY <1>3 DEF NewRoot
<1>5. main.req \in Requests
  BY DEF WatchInsert, AnswerInv, AskedFor
<1>6. reply' = reply
  BY ContinueGoes
<1>7. Others(p)
  BY <1>1, <1>2, <1>3, OthersKeep
<1>8. /\ St[p] = "closed" /\ St'[p] = "open" /\ Qu'[p] = Qu[p]
      /\ Li'[p] = main.req.max_events /\ (p \in Pd' <=> p \in Pd)
  BY <1>1, <1>2, <1>4, Views DEF View
<1>9. /\ St' = [St EXCEPT ![p] = "open"] /\ Qu' = Qu /\ Pd' = Pd
      /\ \E n \in {r.max_events : r \in Requests} : Li' = [Li EXCEPT ![p] = n]
  BY <1>1, <1>5, <1>7, <1>8, OneRoot
<1>10. Queues!Open(p)
  BY <1>6, <1>8, <1>9 DEF Queues!Open, St, Qu, Pd, Li
<1> QED
  BY <1>10 DEF Abstract, Queues!Next

(* inotify_enqueue() appends one event to a queue that has room.           *)
LEMMA EnqueueMaps ==
    ASSUME RegistryInv, AnswerInv, InotifyEnqueue
    PROVE  Abstract
<1> USE DEF RegistryInv
<1> PICK a \in Addr : a = main.root
  BY DEF InotifyEnqueue, TypeOK, MainTypeOK
<1> DEFINE e == [path |-> main.path, name |-> Head(batch).name, kind |-> Head(batch).kind]
<1>1. /\ UNCHANGED <<inotify_roots, destroyer, reply>> /\ main.pc = "enqueue"
      /\ \/ UNCHANGED heap
         \/ ~QueueFull(a) /\ heap' = [heap EXCEPT ![a].queue = Append(@, e)]
  BY DEF InotifyEnqueue, threadVars
<1>2. CASE UNCHANGED heap
  BY <1>1, <1>2, SameRootsSame, AsForgotten
<1>3. CASE ~QueueFull(a) /\ heap' = [heap EXCEPT ![a].queue = Append(@, e)]
  <2>1. Live(a) /\ ~heap[a].pause /\ ~heap[a].destroy
    BY <1>1 DEF EventHeld
  <2> PICK p \in Registered : inotify_roots[p] = a
    BY <2>1, RegisteredRoot
  <2>2. p \in Path /\ a # NULL
    BY StateAssumption DEF Registered
  <2>3. e \in [path : Key, name : Name, kind : Kinds]
    <3>1. /\ batch \in Seq(KEvent) /\ batch # <<>> /\ Head(batch).kind \in Kinds
          /\ main.path \in Key
      BY <1>1 DEF TypeOK, MainTypeOK
    <3>2. Head(batch) \in KEvent
      BY <3>1
    <3>3. Head(batch).name \in Name
      BY <3>2 DEF KEvent
    <3> QED
      BY <3>1, <3>3
  <2>4. heap[a].queue \in Seq(Event) /\ heap[a].max_events \in Int
    BY DEF TypeOK, RootsTypeOK, RootType
  <2>5. Len(heap[a].queue) < heap[a].max_events
    BY <1>3, <2>4 DEF QueueFull
  <2>6. /\ \A b \in Addr : b # a => heap'[b] = heap[b]
        /\ heap'[a].queue = Append(heap[a].queue, e)
        /\ heap'[a].destroy = heap[a].destroy /\ heap'[a].pause = heap[a].pause
        /\ heap'[a].max_events = heap[a].max_events
    <3> HIDE DEF e
    <3> QED
      BY <1>3 DEF TypeOK, RootsTypeOK, RootType
  <2>7. Others(p)
    <3>1. \A q \in Path : q # p => inotify_roots[q] # a
      BY <2>2, OnePath DEF Registered
    <3> QED
      BY <1>1, <2>2, <2>6, <3>1, OthersKeep
  <2> HIDE DEF e
  <2>8. /\ St[p] = "open" /\ p \notin Pd /\ Len(Qu[p]) < Li[p]
        /\ St'[p] = St[p] /\ Li'[p] = Li[p] /\ (p \in Pd' <=> p \in Pd)
        /\ Qu'[p] = Append(Qu[p], e)
    BY <1>1, <2>1, <2>2, <2>5, <2>6, Views DEF View
  <2>9. St' = St /\ Li' = Li /\ Pd' = Pd /\ Qu' = [Qu EXCEPT ![p] = Append(Qu[p], e)]
    BY <2>2, <2>7, <2>8, OneRoot
  <2>10. Qu' = [Qu EXCEPT ![p] = Append(@, e)]
    BY <2>9
  <2>11. Queues!Accept(p)
    BY <1>1, <2>3, <2>8, <2>9, <2>10 DEF Queues!Accept, St, Qu, Pd, Li
  <2> QED
    BY <2>2, <2>11 DEF Abstract, Queues!Next
<1> QED
  BY <1>1, <1>2, <1>3

(* inotify_unwatch_tree() closes a root once.                              *)
LEMMA UnwatchMaps ==
    ASSUME RegistryInv, AnswerInv, Unwatch
    PROVE  Abstract
<1> USE DEF RegistryInv
<1> PICK a \in Addr : a = main.root
  BY DEF Unwatch, TypeOK, MainTypeOK
<1>1. main.stages = {} /\ reply.events = <<>> /\ UNCHANGED inotify_roots
  BY CallSteps DEF AnswerInv, MainPart, Unwatch
<1>2. reply'.events = reply.events
  BY <1>1, AnswerEnds DEF Unwatch
<1>3. CASE UNCHANGED <<heap, destroyer>>
  BY <1>1, <1>2, <1>3, SameRootsSame, AsForgotten
<1>4. CASE /\ Live(a) /\ ~heap[a].destroy
           /\ heap' = [heap EXCEPT ![a].destroy = TRUE]
           /\ \/ destroyer' = [destroyer EXCEPT ![a].pc = "begin"]
              \/ UNCHANGED destroyer
  <2> PICK p \in Registered : inotify_roots[p] = a
    BY <1>4, RegisteredRoot
  <2>1. p \in Path /\ a # NULL
    BY StateAssumption DEF Registered
  <2>2. destroyer[a].pc = "none"
    BY <1>4 DEF DestroyerHolds, TypeOK, ThreadsTypeOK, DestroyerType
  <2>3. /\ \A b \in Addr : b # a => heap'[b] = heap[b] /\ destroyer'[b] = destroyer[b]
        /\ heap'[a].destroy = TRUE /\ heap'[a].pause = heap[a].pause
        /\ heap'[a].queue = heap[a].queue /\ heap'[a].max_events = heap[a].max_events
        /\ destroyer'[a].pc \in {"none", "begin"}
    BY <1>4, <2>2 DEF TypeOK, RootsTypeOK, RootType, ThreadsTypeOK, DestroyerType
  <2>4. Others(p)
    <3>1. \A q \in Path : q # p => inotify_roots[q] # a
      BY <2>1, OnePath DEF Registered
    <3> QED
      BY <1>1, <2>1, <2>3, <3>1, OthersKeep
  <2>5. /\ St[p] = "open" /\ St'[p] = "closing" /\ (p \in Pd' <=> p \in Pd)
        /\ Qu'[p] = Qu[p] /\ Li'[p] = Li[p]
    BY <1>1, <1>4, <2>1, <2>3, Views DEF View
  <2>6. St' = [St EXCEPT ![p] = "closing"] /\ Li' = Li /\ Pd' = Pd /\ Qu' = Qu
    BY <2>1, <2>4, <2>5, OneRoot
  <2>7. Queues!Closing(p)
    BY <1>2, <2>5, <2>6 DEF Queues!Closing, St, Qu, Pd, Li
  <2> QED
    BY <2>1, <2>7 DEF Abstract, Queues!Next
<1> QED
  <2>1. \A d \in DestroyReads(a) : Live(a) => d = heap[a].destroy
    BY DEF DestroyReads
  <2> QED
    BY <1>3, <1>4, <2>1 DEF Unwatch

(* inotify_pause_tree() and inotify_unpause_tree() change one mark.        *)
LEMMA PauseMaps ==
    ASSUME RegistryInv, QueueInv, AnswerInv, PauseTree \/ UnpauseTree
    PROVE  Abstract
<1> USE DEF RegistryInv
<1>1. /\ reply.events = <<>> /\ UNCHANGED <<inotify_roots, destroyer>>
      /\ main.stages = {}
  BY CallSteps DEF AnswerInv, MainPart, PauseTree, UnpauseTree, threadVars
<1>2. reply'.events = reply.events
  BY <1>1, AnswerEnds, ContinueGoes DEF PauseTree, UnpauseTree
<1>3. CASE IsRoot(main.path) = NULL
  <2>1. UNCHANGED heap
    BY <1>3 DEF PauseTree, UnpauseTree
  <2> QED
    BY <1>1, <1>2, <2>1, SameRootsSame, AsForgotten
<1>4. CASE IsRoot(main.path) # NULL
  <2> PICK p \in Registered : p = main.path /\ inotify_roots[p] = IsRoot(main.path)
    BY <1>4, FoundRegistered
  <2> PICK a \in Addr : inotify_roots[p] = a
    BY RegisteredRoot
  <2>1. p \in Path /\ a # NULL
    BY StateAssumption DEF Registered
  <2>2. ASSUME NEW v \in BOOLEAN, heap' = [heap EXCEPT ![a].pause = v]
        PROVE  /\ St' = St /\ Qu' = Qu /\ Li' = Li
               /\ Pd' = IF v THEN Pd \union {p} ELSE Pd \ {p}
               /\ St[p] # "closed" /\ Qu[p] = heap[a].queue
    <3>1. /\ \A b \in Addr : b # a => heap'[b] = heap[b]
          /\ heap'[a].pause = v /\ heap'[a].destroy = heap[a].destroy
          /\ heap'[a].queue = heap[a].queue /\ heap'[a].max_events = heap[a].max_events
      BY <2>2 DEF TypeOK, RootsTypeOK, RootType
    <3>2. Others(p)
      <4>1. \A q \in Path : q # p => inotify_roots[q] # a
        BY <2>1, OnePath DEF Registered
      <4> QED
        BY <1>1, <2>1, <3>1, <4>1, OthersKeep
    <3>3. /\ St'[p] = St[p] /\ Qu'[p] = Qu[p] /\ Li'[p] = Li[p] /\ St[p] # "closed"
          /\ p \in Pd' <=> v
          /\ Qu[p] = heap[a].queue
      BY <1>1, <2>1, <3>1, Views DEF View
    <3> QED
      BY <2>1, <3>2, <3>3, OneRoot
  <2>3. CASE PauseTree
    <3>1. heap' = [heap EXCEPT ![a].pause = TRUE]
      BY <1>4, <2>3 DEF PauseTree, SetPause
    <3>2. Queues!Pause(p)
      BY <1>2, <2>2, <3>1 DEF Queues!Pause, St, Qu, Pd, Li
    <3> QED
      BY <2>1, <3>2 DEF Abstract, Queues!Next
  <2>4. CASE UnpauseTree
    <3>1. heap' = [heap EXCEPT ![a].pause = FALSE] /\ main.pc = "unpause_set"
      BY <1>4, <2>4 DEF UnpauseTree, SetPause
    <3>2. CASE heap[a].pause
      <4>1. heap[a].queue = <<>>
        BY <3>1, <3>2 DEF QueueInv, PausedEmpty, Flushing
      <4>2. Queues!Unpause(p)
        BY <1>2, <2>2, <3>1, <4>1 DEF Queues!Unpause, St, Qu, Pd, Li
      <4> QED
        BY <2>1, <4>2 DEF Abstract, Queues!Next
    <3>3. CASE ~heap[a].pause
      <4>1. p \notin Pd
        BY <2>1, <3>3, Views DEF View
      <4>2. Same
        BY <2>2, <3>1, <4>1 DEF Same
      <4> QED
        BY <1>2, <4>2, AsForgotten
    <3> QED
      BY <3>2, <3>3
  <2> QED
    BY <2>3, <2>4
<1> QED
  BY <1>3, <1>4

(* inotify_dequeue() takes the oldest events, for a client or to throw     *)
(* them away.                                                              *)
LEMMA DequeueMaps ==
    ASSUME RegistryInv, QueueInv, AnswerInv, InotifyDequeue
    PROVE  Abstract
<1> USE DEF RegistryInv
<1> PICK a \in Addr : a = main.root
  BY DEF InotifyDequeue, TypeOK, MainTypeOK
<1> PICK s \in Seq(Event) : s = heap[a].queue
  BY DEF TypeOK, RootsTypeOK, RootType
<1> PICK n \in 0 .. Len(s) : n = DequeueCount(Len(s))
  <2>1. main.req.count \in Nat /\ Len(s) \in Nat
    BY DEF TypeOK, MainTypeOK, MainType, RequestType
  <2> QED
    BY <2>1 DEF DequeueCount
<1>1. /\ reply.events = <<>> /\ UNCHANGED <<inotify_roots, destroyer>>
      /\ main.stages = {} /\ main.pc = "dequeue"
  BY CallSteps DEF AnswerInv, MainPart, InotifyDequeue, threadVars
<1>2. CASE ~QueueLive(a)
  <2>1. UNCHANGED heap /\ reply'.events = <<>>
    BY <1>1, <1>2, AnswerEnds DEF InotifyDequeue
  <2> QED
    BY <1>1, <2>1, SameRootsSame, AsForgotten
<1>3. CASE QueueLive(a)
  <2> DEFINE rest == SubSeq(s, n + 1, Len(s))
  <2>1. heap' = [heap EXCEPT ![a].queue = rest] /\ Deliver(SubSeq(s, 1, n))
    BY <1>3 DEF InotifyDequeue
  <2>2. main.path \in Registered /\ inotify_roots[main.path] = a /\ a # NULL
    BY <1>1, <1>3, StateAssumption, FoundRegistered DEF QueueLive, QueueInv, TakesFrom
  <2> PICK p \in Path : p = main.path /\ p \in Registered /\ inotify_roots[p] = a
    BY <2>2 DEF Registered
  <2>3. /\ \A b \in Addr : b # a => heap'[b] = heap[b]
        /\ heap'[a].queue = rest
        /\ heap'[a].destroy = heap[a].destroy /\ heap'[a].pause = heap[a].pause
        /\ heap'[a].max_events = heap[a].max_events
    <3> HIDE DEF rest
    <3> QED
      BY <2>1 DEF TypeOK, RootsTypeOK, RootType
  <2>4. Others(p)
    <3>1. \A q \in Path : q # p => inotify_roots[q] # a
      BY <2>2, OnePath DEF Registered
    <3> QED
      BY <1>1, <2>3, <3>1, OthersKeep
  <2>5. rest \in Seq(Event)
    OBVIOUS
  <2> HIDE DEF rest
  <2>6. /\ St'[p] = St[p] /\ Li'[p] = Li[p] /\ (p \in Pd' <=> p \in Pd)
        /\ Qu[p] = s /\ Qu'[p] = rest /\ St[p] \in {"open", "closing"}
        /\ p \in Pd <=> heap[a].pause
    BY <1>1, <1>3, <2>2, <2>3, Views DEF View, QueueLive
  <2>7. St' = St /\ Li' = Li /\ Pd' = Pd /\ Qu' = [Qu EXCEPT ![p] = rest]
    BY <2>4, <2>6, OneRoot
  <2>8. CASE main.req.call = "pause"
    <3>1. reply'.events = reply.events
      BY <1>1, <2>1, <2>8, AnswerEnds
    <3>2. n = Len(s)
      BY <2>8 DEF DequeueCount
    <3>3. rest = <<>>
      BY <3>2 DEF rest
    <3>4. p \in Pd
      BY <1>1, <2>6, <2>8 DEF AnswerInv, MarkedPaused, Flushing
    <3>5. Queues!Flush(p)
      BY <2>7, <3>1, <3>3, <3>4 DEF Queues!Flush, St, Qu, Pd, Li
    <3> QED
      BY <3>5 DEF Abstract, Queues!Next
  <2>9. CASE main.req.call # "pause" /\ n = 0
    <3>1. reply'.events = SubSeq(s, 1, 0)
      BY <1>1, <2>1, <2>9, AnswerEnds
    <3>2. SubSeq(s, 1, 0) = <<>> /\ rest = s
      BY <2>9 DEF rest
    <3>3. Qu' = Qu
      BY <2>4, <2>6, <3>2, OneRoot
    <3> QED
      BY <2>7, <3>1, <3>2, <3>3, AsForgotten DEF Same
  <2>10. CASE main.req.call # "pause" /\ n # 0
    <3>1. reply'.events = SubSeq(Qu[p], 1, n)
      BY <1>1, <2>1, <2>6, <2>10, AnswerEnds
    <3>2. Qu' = [Qu EXCEPT ![p] = SubSeq(@, n + 1, Len(@))]
      BY <2>6, <2>7 DEF rest
    <3>3. n \in 1 .. Len(Qu[p])
      BY <2>6, <2>10
    <3>4. Queues!Take(p)
      BY <2>6, <2>7, <3>1, <3>2, <3>3 DEF Queues!Take, St, Qu, Pd, Li
    <3> QED
      BY <3>4 DEF Abstract, Queues!Next
  <2> QED
    BY <2>8, <2>9, <2>10
<1> QED
  BY <1>2, <1>3

(* _destroy_root() throws the queue away, then the root.                   *)
LEMMA DestroyerMaps ==
    ASSUME RegistryInv, QueueInv, NEW a \in Addr, DestroyerStep(a)
    PROVE  Abstract
<1> USE DEF RegistryInv
<1>1. UNCHANGED reply
  BY DEF DestroyerStep, DestroyBegin, DestroyScan, DestroyUnwatch,
         DestroyForget, DestroyEnd, DestroyDump
<1>2. destroyer[a].pc \in {"begin", "scan", "unwatch", "forget"} =>
        /\ Live(a) /\ heap[a].destroy
        /\ \E p \in Registered : inotify_roots[p] = a
  BY RegisteredRoot DEF DestroyerHolds
<1>3. CASE DestroyBegin(a)
  <2>1. /\ destroyer[a].pc = "begin" /\ UNCHANGED inotify_roots
        /\ heap' = [heap EXCEPT ![a].queue = <<>>]
        /\ \A b \in Addr : b # a => destroyer'[b] = destroyer[b]
        /\ destroyer'[a].pc = "scan"
    BY <1>3 DEF DestroyBegin, TypeOK, ThreadsTypeOK, DestroyerType
  <2> PICK p \in Registered : inotify_roots[p] = a
    BY <1>2, <2>1
  <2>2. p \in Path /\ a # NULL /\ heap[a].destroy
    BY <1>2, <2>1, StateAssumption DEF Registered
  <2>3. /\ \A b \in Addr : b # a => heap'[b] = heap[b]
        /\ heap'[a].queue = <<>>
        /\ heap'[a].destroy = heap[a].destroy /\ heap'[a].pause = heap[a].pause
        /\ heap'[a].max_events = heap[a].max_events
    BY <2>1 DEF TypeOK, RootsTypeOK, RootType
  <2>4. Others(p)
    <3>1. \A q \in Path : q # p => inotify_roots[q] # a
      BY <2>2, OnePath DEF Registered
    <3> QED
      BY <2>1, <2>2, <2>3, <3>1, OthersKeep
  <2>5. /\ St[p] = "closing" /\ St'[p] = "drained" /\ Li'[p] = Li[p]
        /\ (p \in Pd' <=> p \in Pd) /\ Qu'[p] = <<>>
    BY <2>1, <2>2, <2>3, Views DEF View
  <2>6. /\ St' = [St EXCEPT ![p] = "drained"] /\ Li' = Li /\ Pd' = Pd
        /\ Qu' = [Qu EXCEPT ![p] = <<>>]
    BY <2>2, <2>4, <2>5, OneRoot
  <2>7. Queues!Drain(p)
    BY <1>1, <2>5, <2>6 DEF Queues!Drain, St, Qu, Pd, Li
  <2> QED
    BY <2>2, <2>7 DEF Abstract, Queues!Next
<1>4. CASE DestroyEnd(a)
  <2>1. /\ destroyer[a].pc = "scan" /\ UNCHANGED heap
        /\ inotify_roots' = [inotify_roots EXCEPT ![heap[a].path] = NULL]
        /\ \A b \in Addr : b # a => destroyer'[b] = destroyer[b]
    BY <1>4 DEF DestroyEnd, Unregister, TypeOK, ThreadsTypeOK, DestroyerType
  <2> PICK p \in Registered : inotify_roots[p] = a
    BY <1>2, <2>1
  <2>2. p \in Path /\ a # NULL /\ heap[a].destroy /\ p = heap[a].path
    BY <1>2, <2>1, StateAssumption DEF Registered, OwnPath
  <2>3. /\ inotify_roots'[p] = NULL
        /\ \A q \in Path : q # p =>
              inotify_roots'[q] = inotify_roots[q] /\ inotify_roots[q] # a
    BY <2>1, <2>2, OnePath DEF Registered, TypeOK, RootsTypeOK
  <2>4. Others(p)
    BY <2>1, <2>2, <2>3, OthersKeep
  <2>5. heap[a].queue = <<>>
    BY <2>1 DEF QueueInv, Drained
  <2>6. /\ St[p] = "drained" /\ St'[p] = "closed" /\ Li'[p] = 0
        /\ p \notin Pd' /\ Qu'[p] = Qu[p]
    BY <2>1, <2>2, <2>3, <2>5, Views DEF View
  <2>7. /\ St' = [St EXCEPT ![p] = "closed"] /\ Pd' = Pd \ {p} /\ Qu' = Qu
        /\ Li' = [Li EXCEPT ![p] = 0]
    BY <2>2, <2>4, <2>6, OneRoot
  <2>8. Queues!Close(p)
    BY <1>1, <2>6, <2>7 DEF Queues!Close, St, Qu, Pd, Li
  <2> QED
    BY <2>2, <2>8 DEF Abstract, Queues!Next
<1>5. CASE DestroyScan(a) \/ DestroyUnwatch(a) \/ DestroyForget(a)
  <2>1. /\ UNCHANGED <<inotify_roots, heap>>
        /\ \A b \in Addr : b # a => destroyer'[b] = destroyer[b]
        /\ destroyer[a].pc \in {"scan", "unwatch", "forget"}
        /\ destroyer'[a].pc \in {"scan", "unwatch", "forget"}
    <3> USE DEF rootVars, TypeOK, ThreadsTypeOK, DestroyerType
    <3>1. CASE DestroyScan(a)
      BY <3>1 DEF DestroyScan
    <3>2. CASE DestroyUnwatch(a)
      BY <3>2 DEF DestroyUnwatch
    <3>3. CASE DestroyForget(a)
      BY <3>3 DEF DestroyForget
    <3> QED
      BY <1>5, <3>1, <3>2, <3>3
  <2> PICK p \in Registered : inotify_roots[p] = a
    BY <1>2, <2>1
  <2>2. p \in Path /\ a # NULL
    BY StateAssumption DEF Registered
  <2>3. Others(p)
    <3>1. \A q \in Path : q # p => inotify_roots[q] # a
      BY <2>2, OnePath DEF Registered
    <3> QED
      BY <2>1, <2>2, <3>1, OthersKeep
  <2>4. St'[p] = St[p] /\ Li'[p] = Li[p] /\ (p \in Pd' <=> p \in Pd) /\ Qu'[p] = Qu[p]
    BY <2>1, <2>2, Views DEF View
  <2>5. Same
    BY <2>2, <2>3, <2>4, OneRoot DEF Same
  <2> QED
    BY <1>1, <2>5, AsForgotten
<1>6. CASE DestroyDump(a)
  <2>1. /\ UNCHANGED <<inotify_roots, heap>> /\ ~Live(a)
        /\ \A b \in Addr : b # a => destroyer'[b] = destroyer[b]
    BY <1>6 DEF DestroyDump, rootVars, TypeOK, ThreadsTypeOK, DestroyerHolds
  <2>2. \A q \in Path : inotify_roots[q] # a
    BY <2>1 DEF Live
  <2>3. ASSUME NEW p \in Path PROVE Others(p)
    BY <2>1, <2>2, OthersKeep
  <2>4. ASSUME NEW p \in Path
        PROVE  /\ St'[p] = St[p] /\ Li'[p] = Li[p] /\ (p \in Pd' <=> p \in Pd)
               /\ Qu'[p] = Qu[p]
    <3>1. inotify_roots[p] = NULL \/ inotify_roots[p] \in Addr \ {a}
      BY <2>2 DEF TypeOK, RootsTypeOK
    <3> QED
      BY <2>1, <3>1, Views DEF View
  <2>5. Path # {} => Same
    BY <2>3, <2>4, OneRoot DEF Same
  <2>6. Path = {} => Same
    BY DEF Same, St, Pd, Qu, Li, Registered
  <2> QED
    BY <1>1, <2>5, <2>6, AsForgotten
<1> QED
  BY <1>3, <1>4, <1>5, <1>6 DEF DestroyerStep

(* A step that hands out no event answers none.                            *)
LEMMA NothingShown ==
    ASSUME TypeOK, AnswerInv, [Next]_vars, ~InotifyDequeue
    PROVE  reply'.events \in {reply.events, <<>>}
<1>1. CASE ~MainStep
  BY <1>1, OtherSteps
<1>2. CASE \/ Poll \/ InotifyMemclean \/ InotifyRewatchRoots \/ RewatchDone
           \/ \E a \in Addr : RewatchNext(a)
           \/ ReadEvents \/ LookupEvent \/ EventsDone
           \/ NewDirectory \/ LostDirectory \/ InotifyEnqueue
  BY <1>2, LoopSteps
<1>3. CASE \/ \E r \in Requests : ZmqDispatchEvent(r)
           \/ WatchCheck \/ WatchClash \/ WatchOpen \/ WatchInsert \/ WatchDump
           \/ WatchSpawn \/ Unwatch \/ PauseTree \/ UnpauseTree
           \/ GetEvents \/ QueueSize
  <2>1. main.stages = {}
    BY <1>3, CallSteps DEF AnswerInv, MainPart
  <2>2. ASSUME NEW r \in Requests, ZmqDispatchEvent(r)
        PROVE  reply'.events \in {reply.events, <<>>}
    <3>1. CASE EventWatch(r)
      BY <2>1, <3>1, AnswerEnds DEF EventWatch, Continue
    <3>2. CASE EventUnwatch(r)
      BY <2>1, <3>2, AnswerEnds DEF EventUnwatch, Continue
    <3>3. CASE EventOnRoot(r)
      BY <2>1, <3>3, AnswerEnds DEF EventOnRoot, Continue
    <3>4. CASE EventQuery(r)
      BY <2>1, <3>4, AnswerEnds DEF EventQuery
    <3> QED
      BY <2>2, <3>1, <3>2, <3>3, <3>4 DEF ZmqDispatchEvent
  <2>3. WatchCheck \/ WatchClash \/ WatchOpen \/ WatchInsert \/ WatchDump \/ WatchSpawn
        => reply'.events \in {reply.events, <<>>}
    BY <2>1, AnswerEnds
    DEF WatchCheck, WatchClash, WatchOpen, WatchInsert, WatchDump, WatchSpawn, Continue
  <2>4. Unwatch \/ PauseTree \/ UnpauseTree \/ GetEvents \/ QueueSize
        => reply'.events \in {reply.events, <<>>}
    BY <2>1, AnswerEnds
    DEF Unwatch, PauseTree, UnpauseTree, GetEvents, QueueSize, Continue
  <2> QED
    BY <1>3, <2>2, <2>3, <2>4
<1> QED
  BY <1>1, <1>2, <1>3 DEF MainStep

(* Every step of the daemon is a step of the abstract queues, or none.     *)
LEMMA StepMaps ==
    ASSUME RegistryInv, QueueInv, AnswerInv, [Next]_vars
    PROVE  Abstract
<1>1. TypeOK
  BY DEF RegistryInv
<1>2. CASE InotifyDequeue
  BY <1>2, DequeueMaps
<1>3. CASE /\ ~InotifyDequeue
           /\ \/ Elsewhere \/ Turn
              \/ LookupEvent \/ NewDirectory \/ LostDirectory
              \/ \E r \in Requests : ZmqDispatchEvent(r)
              \/ WatchCheck \/ WatchOpen \/ WatchDump \/ GetEvents
  <2>1. UNCHANGED <<inotify_roots, heap, destroyer>>
    BY <1>1, <1>3, Readers DEF Elsewhere, Turn, rootVars
  <2> QED
    BY <1>1, <1>3, <2>1, SameRootsSame, NothingShown, AsForgotten
<1> QED
  BY <1>1, <1>2, <1>3, StepKinds, InsertMaps, EnqueueMaps, UnwatchMaps, PauseMaps,
     DestroyerMaps

(* What the main thread and the paused roots hold in every reachable state.*)
LEMMA AnswerInvariant == Spec => []AnswerInv
<1>1. Init => AnswerInv
  <2> SUFFICES ASSUME Init PROVE AnswerInv
    OBVIOUS
  <2>1. main.pc = "poll"
    BY DEF Init, IdleMain
  <2> QED
    BY <2>1 DEF AnswerInv, LastStage, AnswerSent, AskedFor, MarkedPaused, Flushing, ClientPc
<1>2. RegistryInv /\ QueueInv /\ AnswerInv /\ [Next]_vars => AnswerInv'
  <2> SUFFICES ASSUME RegistryInv, QueueInv, AnswerInv, [Next]_vars PROVE AnswerInv'
    OBVIOUS
  <2> QED
    BY StepKeepsAnswers, StepKeepsMarks DEF RegistryInv, AnswerInv, MainPart
<1> QED
  BY <1>1, <1>2, RegistryInvariant, QueueInvariant, PTL DEF Spec

-----------------------------------------------------------------------------
(* The queues of the roots, as the threads of the daemon change them, are  *)
(* the queues a client is promised: an event enters a queue at its end, if *)
(* the root is open, not paused and has room; get_events takes the oldest  *)
(* ones, once; unpausing finds the queue empty; and the queue is thrown    *)
(* away before the root goes.                                              *)
THEOREM QueuesRefined == Spec => QueuesImplemented
<1>1. Init => Queues!Init
  <2> SUFFICES ASSUME Init PROVE Queues!Init
    OBVIOUS
  <2>1. Registered = {} /\ \A p \in Path : inotify_roots[p] = NULL
    BY DEF Init, Registered
  <2>2. \A p \in Path : Stage(p) = "closed"
    BY <2>1 DEF Stage
  <2>3. reply.events = <<>>
    BY DEF Init, NoReply
  <2> QED
    BY <2>1, <2>2, <2>3 DEF Queues!Init
<1>2. RegistryInv /\ QueueInv /\ AnswerInv /\ [Next]_vars => [Queues!Next]_(Queues!vars)
  BY StepMaps DEF Abstract
<1> QED
  BY <1>1, <1>2, RegistryInvariant, QueueInvariant, AnswerInvariant, PTL
  DEF Spec, Queues!Spec, QueuesImplemented

=============================================================================
