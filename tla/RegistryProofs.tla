--------------------------- MODULE RegistryProofs ---------------------------
(***************************************************************************)
(* The registry of roots under its concurrent users: the main thread that  *)
(* adds, pauses and reads roots, and the threads that destroy them.        *)
(***************************************************************************)
EXTENDS TypeProofs

-----------------------------------------------------------------------------
(* The inductive invariant.                                                *)

(* A Root is registered under its own path.                                *)
OwnPath == \A p \in Registered : heap[inotify_roots[p]].path = p

(* The thread that destroys a Root has it marked and registered, until it  *)
(* has freed it.                                                           *)
DestroyerHolds ==
    \A a \in Addr :
        /\ destroyer[a].pc \in {"begin", "scan", "unwatch", "forget"} =>
             Live(a) /\ heap[a].destroy
        /\ destroyer[a].pc = "dump" => ~Live(a)

(* The Root of the event being handled was neither destroyed nor paused    *)
(* when the lock was released, and only the main thread can do either.     *)
EventHeld ==
    main.pc \in {"dir", "enqueue"} =>
        Live(main.root) /\ ~heap[main.root].destroy /\ ~heap[main.root].pause

(* No root lies at, above or below path p, as the checks of                *)
(* inotify_watch_tree() see it.                                            *)
Clear(p) ==
    \A r \in Registered : p # r /\ ~Strstr(p, r) /\ ~Strstr(r, p)

(* What the checks found still holds when the new root is inserted: roots  *)
(* may have gone meanwhile, none can have come.                            *)
CheckHolds == main.pc \in {"watch_open", "watch_insert"} => Clear(main.path)

RegistryInv == TypeOK /\ OwnPath /\ DestroyerHolds /\ EventHeld /\ CheckHolds

-----------------------------------------------------------------------------
(* What the steps do to the registry.                                      *)

LoopPc == {"poll", "memclean", "rewatch", "rewatch_next", "inotify", "event", "zmq"}

(* Somebody else's step, and a step with which the main thread is done     *)
(* with a handler that neither writes the dump nor takes events.           *)
Elsewhere == UNCHANGED <<rootVars, destroyer, dump, main>>
Turn ==
    /\ UNCHANGED <<rootVars, destroyer, dump>>
    /\ main.pc \notin {"watch_dump", "get", "dequeue"}
    /\ main'.pc \in LoopPc

(* The end of a stage leaves the main thread between two handlers.         *)
LEMMA ToStagePc ==
    ASSUME NEW S, ToStage(S)
    PROVE  main'.pc \in LoopPc
  BY DEF ToStage, IdleMain, NextStage, LoopPc

(* An answer ends the stage.                                               *)
LEMMA AnswerPc ==
    /\ \A code, events, size : Answer(code, events, size) => main'.pc \in LoopPc
    /\ \A code : Error(code) => main'.pc \in LoopPc
    /\ Success => main'.pc \in LoopPc
    /\ \A events : Deliver(events) => main'.pc \in LoopPc
  BY ToStagePc DEF Answer, Error, Success, Deliver

(* Where a handler continues.                                              *)
LEMMA ContinuePc ==
    ASSUME TypeOK, NEW r, NEW pc, NEW path, NEW root, Continue(r, pc, path, root)
    PROVE  main'.pc = pc /\ main'.req = r /\ main'.path = path /\ main'.root = root
  BY DEF Continue, TypeOK, MainTypeOK, MainType

(* A dropped event leaves the loop over the events.                        *)
LEMMA DropPc == ASSUME TypeOK, DropEvent PROVE main'.pc = "event"
  BY DEF DropEvent, TypeOK, MainTypeOK, MainType

(* Every step is one of these.                                             *)
LEMMA StepKinds ==
    ASSUME TypeOK, [Next]_vars
    PROVE  \/ Elsewhere \/ Turn
           \/ LookupEvent \/ NewDirectory \/ LostDirectory \/ InotifyEnqueue
           \/ \E r \in Requests : ZmqDispatchEvent(r)
           \/ WatchCheck \/ WatchOpen \/ WatchInsert \/ WatchDump
           \/ Unwatch \/ PauseTree \/ UnpauseTree \/ GetEvents \/ InotifyDequeue
           \/ \E a \in Addr : DestroyerStep(a)
<1> USE DEF Elsewhere, Turn
<1>1. ASSUME NEW w \in Walker, WalkerStep(w) PROVE Elsewhere
  BY <1>1 DEF WalkerStep, WalkerStart, WalkerVisit, WalkerList, WalkerLoop, WalkerEnd
<1>2. ASSUME NEW c \in Cleaner, CleanerStep(c) PROVE Elsewhere
  BY <1>2 DEF CleanerStep, MemcleanStart, MemcleanSnapshot, MemcleanScan,
              MemcleanRemove, MemcleanEnd
<1>3. Environment => Elsewhere
  BY DEF Environment, threadVars
<1>4. UNCHANGED vars => Elsewhere
  BY DEF vars, threadVars
<1>5. Poll \/ RewatchDone \/ EventsDone => Turn
  BY ToStagePc DEF Poll, RewatchDone, EventsDone, threadVars
<1>6. InotifyMemclean => Turn
  BY DEF InotifyMemclean, LoopPc, TypeOK, MainTypeOK, MainType
<1>7. InotifyRewatchRoots => Turn
  BY ToStagePc DEF InotifyRewatchRoots, threadVars, LoopPc, TypeOK, MainTypeOK, MainType
<1>8. ASSUME NEW a \in Addr, RewatchNext(a) PROVE Turn
  BY <1>8 DEF RewatchNext, LoopPc, TypeOK, MainTypeOK, MainType
<1>9. ReadEvents => Turn
  BY DEF ReadEvents, threadVars, LoopPc, TypeOK, MainTypeOK, MainType
<1>10. WatchClash \/ WatchSpawn \/ QueueSize => Turn
  BY AnswerPc DEF WatchClash, WatchSpawn, QueueSize, threadVars
<1> QED
  BY <1>1, <1>2, <1>3, <1>4, <1>5, <1>6, <1>7, <1>8, <1>9, <1>10 DEF Next, MainStep

(* The handlers that only read the registry, and where they go.            *)
LEMMA Readers ==
    ASSUME TypeOK
    PROVE  /\ LookupEvent \/ NewDirectory \/ LostDirectory
                \/ (\E r \in Requests : ZmqDispatchEvent(r))
                \/ WatchCheck \/ WatchOpen \/ GetEvents
              => UNCHANGED <<rootVars, destroyer, dump>>
           /\ WatchDump => UNCHANGED <<rootVars, destroyer>>
           /\ NewDirectory \/ LostDirectory =>
                /\ main.pc = "dir"
                /\ main'.pc = "event" \/ (main'.pc = "enqueue" /\ main'.root = main.root)
           /\ \A r \in Requests : ZmqDispatchEvent(r) =>
                main'.pc \in LoopPc \union {"watch_check", "unwatch_use", "pause_set",
                                            "unpause_set", "get", "queue_size"}
           /\ WatchCheck => main'.pc \in LoopPc \union {"watch_clash", "watch_open"}
           /\ WatchOpen => main'.pc \in LoopPc \union {"watch_insert"}
           /\ GetEvents => main'.pc \in LoopPc \union {"dequeue"}
           /\ WatchDump => main'.pc = "watch_spawn"
           /\ WatchInsert => main'.pc = "watch_dump"
<1>1. /\ LookupEvent \/ NewDirectory \/ LostDirectory
           \/ (\E r \in Requests : ZmqDispatchEvent(r))
           \/ WatchCheck \/ WatchOpen \/ GetEvents
         => UNCHANGED <<rootVars, destroyer, dump>>
      /\ WatchDump => UNCHANGED <<rootVars, destroyer>>
  BY DEF LookupEvent, NewDirectory, LostDirectory, ZmqDispatchEvent, WatchCheck,
         WatchOpen, GetEvents, WatchDump, threadVars
<1>2. NewDirectory \/ LostDirectory =>
        /\ main.pc = "dir"
        /\ main'.pc = "event" \/ (main'.pc = "enqueue" /\ main'.root = main.root)
  BY DropPc DEF NewDirectory, LostDirectory, ToEnqueue, TypeOK, MainTypeOK, MainType
<1>3. ASSUME NEW r \in Requests, ZmqDispatchEvent(r)
      PROVE  main'.pc \in LoopPc \union {"watch_check", "unwatch_use", "pause_set",
                                         "unpause_set", "get", "queue_size"}
  <2>1. CASE EventWatch(r)
    BY <2>1, AnswerPc, ContinuePc DEF EventWatch
  <2>2. CASE EventUnwatch(r)
    BY <2>2, AnswerPc, ContinuePc DEF EventUnwatch
  <2>3. CASE EventOnRoot(r)
    BY <2>3, AnswerPc, ContinuePc DEF EventOnRoot
  <2>4. CASE EventQuery(r)
    BY <2>4, AnswerPc DEF EventQuery
  <2> QED
    BY <1>3, <2>1, <2>2, <2>3, <2>4 DEF ZmqDispatchEvent
<1>4. WatchCheck => main'.pc \in LoopPc \union {"watch_clash", "watch_open"}
  BY AnswerPc, ContinuePc DEF WatchCheck
<1>5. WatchOpen => main'.pc \in LoopPc \union {"watch_insert"}
  BY AnswerPc, ContinuePc DEF WatchOpen
<1>6. GetEvents => main'.pc \in LoopPc \union {"dequeue"}
  BY AnswerPc, ContinuePc DEF GetEvents
<1>7. WatchDump => main'.pc = "watch_spawn"
  BY ContinuePc DEF WatchDump
<1>8. WatchInsert => main'.pc = "watch_dump"
  BY ContinuePc DEF WatchInsert
<1> QED
  BY <1>1, <1>2, <1>3, <1>4, <1>5, <1>6, <1>7, <1>8

-----------------------------------------------------------------------------
(* Preservation.                                                           *)

(* The registry and its members, when the hash table does not change.      *)
LEMMA SameRoots ==
    ASSUME UNCHANGED inotify_roots
    PROVE  Registered' = Registered /\ \A a : Live(a)' <=> Live(a)
  BY DEF Registered, Live

(* A registered Root is an address, and the hash table knows which.        *)
LEMMA RegisteredRoot ==
    ASSUME TypeOK
    PROVE  /\ \A p \in Registered : inotify_roots[p] \in Addr /\ Live(inotify_roots[p])
           /\ \A a \in Addr : Live(a) =>
                \E p \in Registered : inotify_roots[p] = a
  BY StateAssumption DEF TypeOK, RootsTypeOK, Registered, Live

(* A step that changes neither the hash table nor the threads, of the      *)
(* Roots only queues and pauses, and holds no event or the one it held.    *)
LEMMA KeepRegistry ==
    ASSUME RegistryInv, TypeOK',
           UNCHANGED <<inotify_roots, destroyer>>,
           \A a \in Addr : /\ heap'[a].path = heap[a].path
                           /\ heap'[a].destroy = heap[a].destroy,
           EventHeld', CheckHolds'
    PROVE  RegistryInv'
<1>1. OwnPath'
  BY SameRoots, RegisteredRoot DEF RegistryInv, OwnPath
<1>2. DestroyerHolds'
  BY SameRoots DEF RegistryInv, DestroyerHolds
<1> QED
  BY <1>1, <1>2 DEF RegistryInv

(* Where the main thread holds no event and has checked no path.           *)
LEMMA NothingHeld ==
    /\ main'.pc \notin {"dir", "enqueue"} => EventHeld'
    /\ main'.pc \notin {"watch_open", "watch_insert"} => CheckHolds'
    /\ main'.pc \in LoopPc => EventHeld' /\ CheckHolds'
  BY DEF EventHeld, CheckHolds, LoopPc

(* inotify_handle_event() takes an event for a Root that is registered,    *)
(* not paused and not being destroyed.                                     *)
LEMMA LookupHolds ==
    ASSUME RegistryInv, LookupEvent
    PROVE  EventHeld'
<1> USE DEF RegistryInv
<1>1. CASE DropEvent
  BY <1>1, DropPc, NothingHeld
<1>2. CASE \E a \in FoundRoots(Head(batch)) :
             /\ TakesEvents(a)
             /\ main' = [main EXCEPT
                   !.pc = IF Head(batch).kind \in DirKinds THEN "dir" ELSE "enqueue",
                   !.root = a,
                   !.path = inotify_wd_to_watch[Head(batch).wd]]
  <2> PICK a \in FoundRoots(Head(batch)) :
             /\ TakesEvents(a)
             /\ main' = [main EXCEPT
                   !.pc = IF Head(batch).kind \in DirKinds THEN "dir" ELSE "enqueue",
                   !.root = a,
                   !.path = inotify_wd_to_watch[Head(batch).wd]]
    BY <1>2
  <2>1. main'.root = a
    BY DEF TypeOK, MainTypeOK, MainType
  <2>2. Live(a)
    BY RegisteredRoot DEF FoundRoots, PathToRoot, IsRoot, Live, Registered
  <2>3. UNCHANGED <<inotify_roots, heap>>
    BY Readers DEF rootVars
  <2> QED
    BY <2>1, <2>2, <2>3, SameRoots DEF EventHeld, TakesEvents
<1> QED
  BY <1>1, <1>2 DEF LookupEvent

(* make_root() and the insertion into inotify_roots.                       *)
LEMMA InsertKeeps ==
    ASSUME RegistryInv, TypeOK', WatchInsert
    PROVE  RegistryInv'
<1> USE DEF RegistryInv
<1> PICK a \in Addr :
       /\ FreeAddr(a)
       /\ heap' = [heap EXCEPT ![a] = NewRoot(main.req, main.path)]
       /\ Register(main.path, a)
  BY DEF WatchInsert
<1>1. main.path \in Path /\ destroyer' = destroyer
  BY DEF WatchInsert, TypeOK, MainTypeOK, threadVars
<1>2. inotify_roots' = [inotify_roots EXCEPT ![main.path] = a]
  BY DEF Register
<1>3. a # NULL /\ \A p \in Path : inotify_roots[p] # a
  BY StateAssumption DEF FreeAddr, Live
<1>4. heap'[a].path = main.path /\ \A b \in Addr : b # a => heap'[b] = heap[b]
  BY DEF NewRoot, TypeOK, RootsTypeOK
<1>a. Clear(main.path)
  BY DEF WatchInsert, CheckHolds
<1>5. OwnPath'
  <2> SUFFICES ASSUME NEW p \in Registered' PROVE heap'[inotify_roots'[p]].path = p
    BY DEF OwnPath
  <2>1. CASE p = main.path
    BY <1>1, <1>2, <1>4, <2>1 DEF TypeOK, RootsTypeOK
  <2>2. CASE p # main.path
    <3>1. p \in Registered /\ inotify_roots'[p] = inotify_roots[p]
      BY <1>2, <2>2 DEF Registered, TypeOK, RootsTypeOK
    <3>2. inotify_roots[p] \in Addr /\ inotify_roots[p] # a
      BY <1>3, <3>1, RegisteredRoot DEF Registered
    <3> QED
      BY <1>4, <3>1, <3>2 DEF OwnPath
  <2> QED
    BY <2>1, <2>2
<1>6. DestroyerHolds'
  <2> SUFFICES ASSUME NEW b \in Addr
               PROVE  /\ destroyer'[b].pc \in {"begin", "scan", "unwatch", "forget"} =>
                           Live(b)' /\ heap'[b].destroy
                      /\ destroyer'[b].pc = "dump" => ~Live(b)'
    BY DEF DestroyerHolds
  <2>1. CASE b = a
    BY <1>1, <2>1 DEF FreeAddr
  <2>2. CASE b # a
    <3>1. CASE Live(b)
      <4>1. b \in Addr /\ \E p \in Registered : inotify_roots[p] = b
        BY <3>1, RegisteredRoot
      <4>2. destroyer[b].pc # "dump"
        BY <3>1 DEF DestroyerHolds
      <4>3. destroyer[b].pc \in {"begin", "scan", "unwatch", "forget"} =>
              Live(b)' /\ heap'[b].destroy
        <5> SUFFICES ASSUME destroyer[b].pc \in {"begin", "scan", "unwatch", "forget"}
                     PROVE  Live(b)' /\ heap'[b].destroy
          OBVIOUS
        <5>1. PICK p \in Path : inotify_roots[p] = b
          BY <3>1 DEF Live
        <5>2. p # main.path
          BY <1>a, <5>1, StateAssumption DEF Clear, Registered
        <5> QED
          BY <1>2, <1>4, <2>2, <5>1, <5>2 DEF Live, DestroyerHolds, TypeOK, RootsTypeOK
      <4> QED
        BY <1>1, <4>2, <4>3
    <3>2. CASE ~Live(b)
      BY <1>1, <1>2, <2>2, <3>2 DEF Live, DestroyerHolds, TypeOK, RootsTypeOK
    <3> QED
      BY <3>1, <3>2
  <2> QED
    BY <2>1, <2>2
<1>7. EventHeld' /\ CheckHolds'
  BY Readers, NothingHeld
<1> QED
  BY <1>5, <1>6, <1>7

(* The Roots after the queue of one of them was written.                   *)
LEMMA QueueWrite ==
    ASSUME TypeOK, NEW a, NEW v, heap' = [heap EXCEPT ![a].queue = v]
    PROVE  \A b \in Addr :
             /\ heap'[b].path = heap[b].path
             /\ heap'[b].destroy = heap[b].destroy
             /\ heap'[b].pause = heap[b].pause
             /\ heap'[b].rewatch = heap[b].rewatch
             /\ b # a => heap'[b] = heap[b]
             /\ b = a => heap'[b].queue = v
  BY DEF TypeOK, RootsTypeOK, RootType

(* The Roots after one of them was paused or unpaused.                     *)
LEMMA PauseWrite ==
    ASSUME TypeOK, NEW a, NEW v, heap' = [heap EXCEPT ![a].pause = v]
    PROVE  \A b \in Addr :
             /\ heap'[b].path = heap[b].path
             /\ heap'[b].destroy = heap[b].destroy
             /\ heap'[b].queue = heap[b].queue
             /\ heap'[b].rewatch = heap[b].rewatch
             /\ b # a => heap'[b] = heap[b]
             /\ b = a => heap'[b].pause = v
  BY DEF TypeOK, RootsTypeOK, RootType

(* The Roots after one of them was marked for destruction.                 *)
LEMMA DestroyWrite ==
    ASSUME TypeOK, NEW a, NEW v, heap' = [heap EXCEPT ![a].destroy = v]
    PROVE  \A b \in Addr :
             /\ heap'[b].path = heap[b].path
             /\ heap'[b].pause = heap[b].pause
             /\ heap'[b].queue = heap[b].queue
             /\ heap'[b].rewatch = heap[b].rewatch
             /\ b # a => heap'[b] = heap[b]
             /\ b = a => heap'[b].destroy = v
  BY DEF TypeOK, RootsTypeOK, RootType

(* A step of _destroy_root().                                              *)
LEMMA DestroyerKeeps ==
    ASSUME RegistryInv, TypeOK', NEW a \in Addr, DestroyerStep(a)
    PROVE  RegistryInv'
<1> USE DEF RegistryInv
<1>a. UNCHANGED main
  BY DEF DestroyerStep, DestroyBegin, DestroyScan, DestroyUnwatch, DestroyForget,
         DestroyEnd, DestroyDump
<1>1. CASE \/ DestroyBegin(a) \/ DestroyScan(a) \/ DestroyUnwatch(a)
           \/ DestroyForget(a) \/ DestroyDump(a)
  <2>1. UNCHANGED inotify_roots
    BY <1>1 DEF DestroyBegin, DestroyScan, DestroyUnwatch, DestroyForget,
                DestroyDump, rootVars
  <2>2. \A b \in Addr : /\ heap'[b].path = heap[b].path
                        /\ heap'[b].destroy = heap[b].destroy
                        /\ heap'[b].pause = heap[b].pause
    <3>1. heap' = heap \/ heap' = [heap EXCEPT ![a].queue = <<>>]
      BY <1>1 DEF DestroyBegin, DestroyScan, DestroyUnwatch, DestroyForget,
                  DestroyDump, rootVars
    <3> QED
      BY <3>1, QueueWrite
  <2>3. /\ \A b \in Addr : b # a => destroyer'[b] = destroyer[b]
        /\ \/ /\ destroyer[a].pc \in {"begin", "scan", "unwatch", "forget"}
              /\ destroyer'[a].pc \in {"scan", "unwatch", "forget"}
           \/ destroyer'[a].pc = "none"
    <3> USE DEF TypeOK, ThreadsTypeOK, DestroyerType
    <3>1. CASE DestroyBegin(a)
      BY <3>1 DEF DestroyBegin
    <3>2. CASE DestroyScan(a)
      BY <3>2 DEF DestroyScan
    <3>3. CASE DestroyUnwatch(a)
      BY <3>3 DEF DestroyUnwatch
    <3>4. CASE DestroyForget(a)
      BY <3>4 DEF DestroyForget
    <3>5. CASE DestroyDump(a)
      BY <3>5 DEF DestroyDump, NoDestroyer
    <3> QED
      BY <1>1, <3>1, <3>2, <3>3, <3>4, <3>5
  <2>4. OwnPath'
    BY <2>1, <2>2, SameRoots, RegisteredRoot DEF OwnPath
  <2>5. DestroyerHolds'
    BY <2>1, <2>2, <2>3, SameRoots DEF DestroyerHolds
  <2>6. EventHeld' /\ CheckHolds'
    BY <1>a, <2>1, <2>2, SameRoots
    DEF EventHeld, CheckHolds, Clear, TypeOK, MainTypeOK
  <2> QED
    BY <2>4, <2>5, <2>6
<1>2. CASE DestroyEnd(a)
  <2>1. UNCHANGED heap /\ destroyer[a].pc = "scan"
        /\ inotify_roots' = [inotify_roots EXCEPT ![heap[a].path] = NULL]
        /\ destroyer' = [destroyer EXCEPT ![a].pc = "dump"]
    BY <1>2 DEF DestroyEnd, Unregister
  <2>2. Live(a) /\ heap[a].destroy
    BY <2>1 DEF DestroyerHolds
  <2>3. PICK q \in Registered : inotify_roots[q] = a
    BY <2>2, RegisteredRoot
  <2>4. q = heap[a].path
    BY <2>3 DEF OwnPath
  <2>5. Registered' = Registered \ {q} /\ q \in Path
        /\ \A p \in Registered' : inotify_roots'[p] = inotify_roots[p]
    BY <2>1, <2>3, <2>4, StateAssumption DEF Registered, TypeOK, RootsTypeOK
  <2>6. \A p \in Registered : inotify_roots[p] = a => p = q
    BY <2>4 DEF OwnPath
  <2>7. /\ ~Live(a)'
        /\ \A b \in Addr : b # a => (Live(b)' <=> Live(b))
    <3>1. ~Live(a)'
      BY <2>1, <2>4, <2>5, <2>6, StateAssumption
      DEF Live, Registered, TypeOK, RootsTypeOK
    <3>2. ASSUME NEW b \in Addr, b # a PROVE Live(b)' <=> Live(b)
      BY <2>1, <2>3, <2>4, <2>5, <3>2, StateAssumption
      DEF Live, TypeOK, RootsTypeOK
    <3> QED
      BY <3>1, <3>2
  <2>8. OwnPath'
    BY <2>1, <2>5 DEF OwnPath
  <2>9. DestroyerHolds'
    <3>1. \A b \in Addr : b # a => destroyer'[b] = destroyer[b]
      BY <2>1
    <3>2. destroyer'[a].pc = "dump"
      BY <2>1 DEF TypeOK, ThreadsTypeOK, DestroyerType
    <3> QED
      BY <2>1, <2>7, <3>1, <3>2 DEF DestroyerHolds
  <2>10. EventHeld'
    BY <1>a, <2>1, <2>2, <2>7 DEF EventHeld, TypeOK, MainTypeOK
  <2>11. CheckHolds'
    BY <1>a, <2>5 DEF CheckHolds, Clear
  <2> QED
    BY <2>8, <2>9, <2>10, <2>11
<1> QED
  BY <1>1, <1>2 DEF DestroyerStep

(* inotify_unwatch_tree() marks the Root before its destroyer starts.      *)
LEMMA UnwatchKeeps ==
    ASSUME RegistryInv, TypeOK', Unwatch
    PROVE  RegistryInv'
<1> USE DEF RegistryInv
<1>1. /\ main.pc = "unwatch_use" /\ main.root \in Addr
      /\ UNCHANGED inotify_roots
  BY DEF Unwatch, TypeOK, MainTypeOK
<1>2. EventHeld' /\ CheckHolds'
  <2>1. main'.pc \in LoopPc \/ main' = main
    BY AnswerPc DEF Unwatch
  <2> QED
    BY <1>1, <2>1, NothingHeld
<1>3. \A b \in Addr : heap'[b].path = heap[b].path /\ (heap[b].destroy => heap'[b].destroy)
  <2>1. heap' = heap \/ heap' = [heap EXCEPT ![main.root].destroy = TRUE]
    BY DEF Unwatch
  <2>2. CASE heap' = heap
    BY <2>2
  <2>3. CASE heap' = [heap EXCEPT ![main.root].destroy = TRUE]
    <3>1. \A b \in Addr : heap'[b].path = heap[b].path
      BY <2>3, DestroyWrite
    <3>2. heap'[main.root].destroy
      BY <1>1, <2>3 DEF TypeOK, RootsTypeOK, RootType
    <3>3. \A b \in Addr : b # main.root => heap'[b] = heap[b]
      BY <2>3 DEF TypeOK, RootsTypeOK
    <3> QED
      BY <3>1, <3>2, <3>3, Zenon
  <2> QED
    BY <2>1, <2>2, <2>3
<1>4. OwnPath'
  BY <1>1, <1>3, SameRoots, RegisteredRoot DEF OwnPath
<1>5. DestroyerHolds'
  <2>1. CASE UNCHANGED destroyer
    BY <1>1, <1>3, <2>1, SameRoots DEF DestroyerHolds
  <2>2. CASE /\ Live(main.root)
             /\ heap' = [heap EXCEPT ![main.root].destroy = TRUE]
             /\ destroyer' = [destroyer EXCEPT ![main.root].pc = "begin"]
    <3>1. heap'[main.root].destroy = TRUE /\ destroyer'[main.root].pc = "begin"
      BY <1>1, <2>2
      DEF TypeOK, RootsTypeOK, RootType, ThreadsTypeOK, DestroyerType
    <3>2. \A b \in Addr : b # main.root => destroyer'[b] = destroyer[b]
      BY <2>2
    <3> QED
      BY <1>1, <1>3, <2>2, <3>1, <3>2, SameRoots DEF DestroyerHolds
  <2> QED
    BY <2>1, <2>2 DEF Unwatch
<1> QED
  BY <1>2, <1>4, <1>5

(* The calls and the event that write a Root that is registered.           *)
LEMMA RootWritesKeep ==
    ASSUME RegistryInv, TypeOK',
           PauseTree \/ UnpauseTree \/ InotifyEnqueue \/ InotifyDequeue
    PROVE  RegistryInv'
<1> USE DEF RegistryInv
<1>1. UNCHANGED <<inotify_roots, destroyer>>
  BY DEF PauseTree, UnpauseTree, InotifyEnqueue, InotifyDequeue, threadVars
<1>2. \A a \in Addr : /\ heap'[a].path = heap[a].path
                      /\ heap'[a].destroy = heap[a].destroy
  <2>1. CASE PauseTree \/ UnpauseTree
    BY <2>1, PauseWrite DEF PauseTree, UnpauseTree, SetPause
  <2>2. CASE InotifyEnqueue
    <3>1. \/ heap' = heap
          \/ heap' = [heap EXCEPT ![main.root].queue = Append(heap[main.root].queue,
                       [path |-> main.path, name |-> Head(batch).name,
                        kind |-> Head(batch).kind])]
      BY <2>2 DEF InotifyEnqueue
    <3> QED
      BY <3>1, QueueWrite
  <2>3. CASE InotifyDequeue
    BY <2>3, QueueWrite DEF InotifyDequeue
  <2> QED
    BY <2>1, <2>2, <2>3
<1>3. EventHeld' /\ CheckHolds'
  <2>1. CASE PauseTree \/ UnpauseTree \/ InotifyDequeue
    <3>1. main'.pc \in LoopPc \union {"get"}
      BY <2>1, AnswerPc, ContinuePc DEF PauseTree, UnpauseTree, InotifyDequeue
    <3> QED
      BY <3>1, NothingHeld DEF LoopPc
  <2>2. CASE InotifyEnqueue
    BY <2>2, DropPc, NothingHeld DEF InotifyEnqueue
  <2> QED
    BY <2>1, <2>2
<1> QED
  BY <1>1, <1>2, <1>3, KeepRegistry

(* The invariant holds in every state that is reached.                     *)
LEMMA RegistryInvariant == Spec => []RegistryInv
<1>1. Init => RegistryInv
  <2> SUFFICES ASSUME Init PROVE RegistryInv
    OBVIOUS
  <2>1. Registered = {} /\ main.pc = "poll" /\ \A a \in Addr : destroyer[a].pc = "none"
    BY DEF Init, Registered, IdleMain, NoDestroyer
  <2> QED
    BY <2>1, InitTypes DEF RegistryInv, OwnPath, DestroyerHolds, EventHeld, CheckHolds
<1>2. RegistryInv /\ [Next]_vars => RegistryInv'
  <2> SUFFICES ASSUME RegistryInv, [Next]_vars PROVE RegistryInv'
    OBVIOUS
  <2>1. TypeOK /\ TypeOK'
    BY NextTypes DEF RegistryInv
  <2>2. ASSUME UNCHANGED <<rootVars, destroyer>>, EventHeld', CheckHolds'
        PROVE  RegistryInv'
    BY <2>1, <2>2, KeepRegistry DEF rootVars
  <2>3. CASE Elsewhere
    <3>1. EventHeld' /\ CheckHolds'
      BY <2>3, SameRoots
      DEF RegistryInv, Elsewhere, rootVars, EventHeld, CheckHolds, Clear
    <3> QED
      BY <2>2, <2>3, <3>1 DEF Elsewhere
  <2>4. CASE Turn
    BY <2>2, <2>4, NothingHeld DEF Turn
  <2>5. CASE LookupEvent
    <3>1. CheckHolds'
      BY <2>1, <2>5, DropPc, NothingHeld
      DEF LookupEvent, CheckHolds, TypeOK, MainTypeOK, MainType
    <3> QED
      BY <2>1, <2>2, <2>5, <3>1, LookupHolds, Readers
  <2>6. CASE NewDirectory \/ LostDirectory
    <3>1. UNCHANGED <<rootVars, destroyer>>
      BY <2>1, <2>6, Readers
    <3>2. EventHeld' /\ CheckHolds'
      BY <2>1, <2>6, <3>1, SameRoots, Readers
      DEF RegistryInv, rootVars, EventHeld, CheckHolds
    <3> QED
      BY <2>2, <3>1, <3>2
  <2>7. CASE \/ \E r \in Requests : ZmqDispatchEvent(r)
             \/ GetEvents \/ WatchDump
    <3>1. UNCHANGED <<rootVars, destroyer>>
      BY <2>1, <2>7, Readers
    <3>2. EventHeld' /\ CheckHolds'
      BY <2>1, <2>7, Readers, NothingHeld DEF LoopPc
    <3> QED
      BY <2>2, <3>1, <3>2
  <2>8. CASE WatchCheck
    <3>1. UNCHANGED <<rootVars, destroyer>>
      BY <2>1, <2>8, Readers
    <3>2. EventHeld'
      BY <2>1, <2>8, Readers, NothingHeld DEF LoopPc
    <3>3. CheckHolds'
      <4>1. CASE /\ PathToRoot(main.path) = {} /\ ~IsParent(main.path)
                 /\ Continue(main.req, "watch_open", main.path, NULL)
        <5>1. Clear(main.path)
          BY <4>1 DEF PathToRoot, IsParent, IsRoot, Clear
        <5> QED
          BY <2>1, <3>1, <4>1, <5>1, ContinuePc, SameRoots
          DEF CheckHolds, Clear, rootVars
      <4>2. CASE main'.pc # "watch_open"
        BY <2>1, <2>8, <4>2, Readers, NothingHeld DEF LoopPc
      <4> QED
        BY <2>1, <2>8, <4>1, <4>2, AnswerPc, ContinuePc DEF WatchCheck, LoopPc
    <3> QED
      BY <2>2, <3>1, <3>2, <3>3
  <2>9. CASE WatchOpen
    <3>1. UNCHANGED <<rootVars, destroyer>>
      BY <2>1, <2>9, Readers
    <3>2. EventHeld'
      BY <2>1, <2>9, Readers, NothingHeld DEF LoopPc
    <3>3. CheckHolds'
      <4>1. CASE Continue(main.req, "watch_insert", main.path, NULL)
        <5>1. Clear(main.path)
          BY <2>9 DEF WatchOpen, RegistryInv, CheckHolds
        <5> QED
          BY <2>1, <3>1, <4>1, <5>1, ContinuePc, SameRoots
          DEF CheckHolds, Clear, rootVars
      <4>2. CASE main'.pc \in LoopPc
        BY <4>2, NothingHeld
      <4> QED
        BY <2>9, <4>1, <4>2, AnswerPc DEF WatchOpen
    <3> QED
      BY <2>2, <3>1, <3>2, <3>3
  <2> QED
    BY <2>1, <2>3, <2>4, <2>5, <2>6, <2>7, <2>8, <2>9, StepKinds, InsertKeeps,
       UnwatchKeeps, RootWritesKeep, DestroyerKeeps
<1> QED
  BY <1>1, <1>2, PTL DEF Spec

-----------------------------------------------------------------------------
(* The Root that inotify_handle_event() keeps across its unlocks still has *)
(* its queue, and no thread destroys it, in every interleaving with the    *)
(* threads that destroy roots.                                             *)
THEOREM EventRootStaysLive == Spec => []EventRootLive
<1>1. RegistryInv => EventRootLive
  BY DEF RegistryInv, EventRootLive, EventHeld, DestroyerHolds, QueueLive,
         TypeOK, MainTypeOK, ThreadsTypeOK, DestroyerType
<1> QED
  BY <1>1, RegistryInvariant, PTL

-----------------------------------------------------------------------------
(* The steps seen from the hash table: one inserts, one removes, and the   *)
(* others leave it and its tally alone.                                    *)
LEMMA TableSteps ==
    ASSUME RegistryInv, [Next]_vars
    PROVE  \/ UNCHANGED <<inotify_roots, inotify_num_watched_roots>>
           \/ WatchInsert
           \/ \E a \in Addr : DestroyEnd(a)
<1>1. TypeOK
  BY DEF RegistryInv
<1>2. Elsewhere \/ Turn => UNCHANGED <<inotify_roots, inotify_num_watched_roots>>
  BY DEF Elsewhere, Turn, rootVars
<1>3. LookupEvent \/ NewDirectory \/ LostDirectory
        \/ (\E r \in Requests : ZmqDispatchEvent(r))
        \/ WatchCheck \/ WatchOpen \/ GetEvents \/ WatchDump
      => UNCHANGED <<inotify_roots, inotify_num_watched_roots>>
  BY <1>1, Readers DEF rootVars
<1>4. InotifyEnqueue \/ Unwatch \/ PauseTree \/ UnpauseTree \/ InotifyDequeue
      => UNCHANGED <<inotify_roots, inotify_num_watched_roots>>
  BY DEF InotifyEnqueue, Unwatch, PauseTree, UnpauseTree, InotifyDequeue
<1>5. ASSUME NEW a \in Addr, DestroyerStep(a), ~DestroyEnd(a)
      PROVE  UNCHANGED <<inotify_roots, inotify_num_watched_roots>>
  BY <1>5 DEF DestroyerStep, DestroyBegin, DestroyScan, DestroyUnwatch,
              DestroyForget, DestroyDump, rootVars
<1> QED
  BY <1>1, <1>2, <1>3, <1>4, <1>5, StepKinds

(* What the insertion adds.                                                *)
LEMMA InsertAdds ==
    ASSUME RegistryInv, WatchInsert
    PROVE  /\ main.path \in Path /\ Clear(main.path) /\ main.path \notin Registered
           /\ Registered' = Registered \union {main.path}
           /\ inotify_num_watched_roots' = inotify_num_watched_roots + 1
<1> PICK a \in Addr : Register(main.path, a)
  BY DEF WatchInsert
<1>1. main.path \in Path /\ Clear(main.path)
  BY DEF WatchInsert, RegistryInv, CheckHolds, TypeOK, MainTypeOK
<1>2. Registered' = Registered \union {main.path}
  BY <1>1, StateAssumption DEF Register, Registered, RegistryInv, TypeOK, RootsTypeOK
<1> QED
  BY <1>1, <1>2 DEF Register, Clear

(* What the end of _destroy_root() removes.                                *)
LEMMA EndRemoves ==
    ASSUME RegistryInv, NEW a \in Addr, DestroyEnd(a)
    PROVE  /\ heap[a].path \in Registered /\ UNCHANGED heap
           /\ Registered' = Registered \ {heap[a].path}
           /\ \A p \in Registered' : inotify_roots'[p] = inotify_roots[p]
           /\ inotify_num_watched_roots' = inotify_num_watched_roots - 1
<1> USE DEF RegistryInv
<1>1. Live(a)
  BY DEF DestroyEnd, DestroyerHolds
<1>2. heap[a].path \in Registered
  BY <1>1, RegisteredRoot DEF OwnPath
<1>3. inotify_roots' = [inotify_roots EXCEPT ![heap[a].path] = NULL]
      /\ UNCHANGED heap /\ inotify_num_watched_roots' = inotify_num_watched_roots - 1
  BY DEF DestroyEnd, Unregister
<1>4. Registered' = Registered \ {heap[a].path}
  BY <1>2, <1>3 DEF Registered, TypeOK, RootsTypeOK
<1>5. \A p \in Registered' : inotify_roots'[p] = inotify_roots[p]
  BY <1>3, <1>4 DEF Registered, TypeOK, RootsTypeOK
<1> QED
  BY <1>2, <1>3, <1>4, <1>5

(* The tally that EVENT_get_roots() tests is the number of roots, however  *)
(* insertions and destructions interleave.                                 *)
THEOREM RootsCounted == Spec => []RootCount
<1>1. Init => RootCount
  <2> SUFFICES ASSUME Init PROVE RootCount
    OBVIOUS
  <2>1. Registered = {}
    BY DEF Init, Registered
  <2> QED
    BY <2>1, FS_EmptySet DEF Init, RootCount
<1>2. RegistryInv /\ RootCount /\ [Next]_vars => RootCount'
  <2> SUFFICES ASSUME RegistryInv, RootCount, [Next]_vars PROVE RootCount'
    OBVIOUS
  <2>1. IsFiniteSet(Registered)
    BY PathAssumption, FS_Subset DEF Registered
  <2>2. CASE UNCHANGED <<inotify_roots, inotify_num_watched_roots>>
    BY <2>2, SameRoots DEF RootCount
  <2>3. CASE WatchInsert
    BY <2>1, <2>3, InsertAdds, FS_AddElement DEF RootCount
  <2>4. ASSUME NEW a \in Addr, DestroyEnd(a) PROVE RootCount'
    BY <2>1, <2>4, EndRemoves, FS_RemoveElement DEF RootCount
  <2> QED
    BY <2>2, <2>3, <2>4, TableSteps
<1> QED
  BY <1>1, <1>2, RegistryInvariant, PTL DEF Spec

-----------------------------------------------------------------------------
(* No root matches another in the sense of the checks.                     *)
Disjoint == \A r, s \in Registered : r # s => ~Strstr(s, r)

(* What the checks found keeps every two roots apart.                      *)
LEMMA DisjointInvariant == Spec => []Disjoint
<1>1. Init => Disjoint
  BY DEF Init, Disjoint, Registered
<1>2. RegistryInv /\ Disjoint /\ [Next]_vars => Disjoint'
  <2> SUFFICES ASSUME RegistryInv, Disjoint, [Next]_vars PROVE Disjoint'
    OBVIOUS
  <2>1. CASE UNCHANGED <<inotify_roots, inotify_num_watched_roots>>
    BY <2>1, SameRoots DEF Disjoint
  <2>2. CASE WatchInsert
    BY <2>2, InsertAdds DEF Disjoint, Clear
  <2>3. ASSUME NEW a \in Addr, DestroyEnd(a) PROVE Disjoint'
    BY <2>3, EndRemoves DEF Disjoint
  <2> QED
    BY <2>1, <2>2, <2>3, TableSteps
<1> QED
  BY <1>1, <1>2, RegistryInvariant, PTL DEF Spec

(* A string below r contains r and a slash.                                *)
LEMMA BelowStrstr ==
    ASSUME NEW p \in Seq(Name), NEW r, p # NoPath, Below(p, r)
    PROVE  Strstr(p, r)
<1>1. p \in Suffixes(p)
  <2>1. SubSeq(p, 1, Len(p)) = p /\ 1 \in 1 .. Len(p)
    BY DEF NoPath
  <2> QED
    BY <2>1 DEF Suffixes
<1> QED
  BY <1>1 DEF Below, Strstr

(* inotify_watch_tree() never lets one root lie inside another, although   *)
(* its checks, its opendir() and its insertion are separate steps between  *)
(* which other threads run.  The root "/" is excluded: its checks look for *)
(* the string "//".                                                        *)
THEOREM RootsDisjoint ==
    ASSUME Slash \notin Path
    PROVE  Spec => []NoOverlap
<1>1. Disjoint => NoOverlap
  <2> SUFFICES ASSUME Disjoint, NEW r \in Registered, NEW s \in Registered, InTree(s, r)
               PROVE  r = s
    BY DEF NoOverlap
  <2>1. r # Slash
    BY DEF Registered
  <2>2. s \in Seq(Name) /\ s # NoPath
    BY PathAssumption DEF Registered
  <2> QED
    BY <2>1, <2>2, BelowStrstr DEF InTree, Disjoint
<1> QED
  BY <1>1, DisjointInvariant, PTL

-----------------------------------------------------------------------------
(* The steps seen from the dump file: somebody writes it, somebody who is  *)
(* going to write it changes the registry, or nothing that it holds moves  *)
(* and whoever was going to write it still is.                             *)
LEMMA DumpSteps ==
    ASSUME RegistryInv, [Next]_vars
    PROVE  \/ WatchDump \/ \E a \in Addr : DestroyDump(a)
           \/ WatchInsert \/ \E a \in Addr : DestroyEnd(a)
           \/ /\ UNCHANGED <<inotify_roots, dump>>
              /\ \A a \in Addr : heap'[a].rewatch = heap[a].rewatch
              /\ DumpPending => DumpPending'
<1> DEFINE Same ==
             /\ UNCHANGED <<inotify_roots, dump>>
             /\ \A a \in Addr : heap'[a].rewatch = heap[a].rewatch
             /\ DumpPending => DumpPending'
<1> SUFFICES \/ WatchDump \/ (\E a \in Addr : DestroyDump(a))
             \/ WatchInsert \/ (\E a \in Addr : DestroyEnd(a))
             \/ Same
  OBVIOUS
<1> HIDE DEF Same
<1>1. TypeOK
  BY DEF RegistryInv
<1>2. ASSUME UNCHANGED <<rootVars, destroyer, dump>>,
             main.pc # "watch_dump" \/ main'.pc = "watch_dump"
      PROVE  Same
  BY <1>2 DEF Same, rootVars, DumpPending
<1>3. CASE Elsewhere \/ Turn
  BY <1>2, <1>3 DEF Elsewhere, Turn
<1>4. CASE \/ LookupEvent \/ NewDirectory \/ LostDirectory
           \/ \E r \in Requests : ZmqDispatchEvent(r)
           \/ WatchCheck \/ WatchOpen \/ GetEvents
  <2>1. main.pc # "watch_dump"
    BY <1>4 DEF LookupEvent, NewDirectory, LostDirectory, ZmqDispatchEvent,
                WatchCheck, WatchOpen, GetEvents
  <2> QED
    BY <1>1, <1>2, <1>4, <2>1, Readers
<1>5. CASE InotifyEnqueue \/ Unwatch \/ PauseTree \/ UnpauseTree \/ InotifyDequeue
  <2>1. main.pc # "watch_dump" /\ UNCHANGED <<inotify_roots, dump>>
    BY <1>5 DEF InotifyEnqueue, Unwatch, PauseTree, UnpauseTree, InotifyDequeue
  <2>2. \E a, v : \/ heap' = heap
                  \/ heap' = [heap EXCEPT ![a].queue = v]
                  \/ heap' = [heap EXCEPT ![a].pause = v]
                  \/ heap' = [heap EXCEPT ![a].destroy = v]
    BY <1>5 DEF InotifyEnqueue, Unwatch, PauseTree, UnpauseTree, InotifyDequeue,
                SetPause
  <2>3. \A a \in Addr : heap'[a].rewatch = heap[a].rewatch
    BY <1>1, <2>2, QueueWrite, PauseWrite, DestroyWrite
  <2>4. \A a \in Addr : destroyer[a].pc = "dump" => destroyer'[a].pc = "dump"
    <3>1. CASE UNCHANGED destroyer
      BY <3>1
    <3>2. CASE Live(main.root) /\ destroyer' = [destroyer EXCEPT ![main.root].pc = "begin"]
      BY <3>2 DEF RegistryInv, DestroyerHolds
    <3> QED
      BY <1>5, <3>1, <3>2
      DEF InotifyEnqueue, Unwatch, PauseTree, UnpauseTree, InotifyDequeue, threadVars
  <2> QED
    BY <2>1, <2>3, <2>4 DEF Same, DumpPending
<1>6. ASSUME NEW a \in Addr,
             DestroyBegin(a) \/ DestroyScan(a) \/ DestroyUnwatch(a) \/ DestroyForget(a)
      PROVE  Same
  <2>1. UNCHANGED <<inotify_roots, dump, main>> /\ destroyer[a].pc # "dump"
    BY <1>6 DEF DestroyBegin, DestroyScan, DestroyUnwatch, DestroyForget, rootVars
  <2>2. \A b \in Addr : b # a => destroyer'[b] = destroyer[b]
    BY <1>6 DEF DestroyBegin, DestroyScan, DestroyUnwatch, DestroyForget,
                RegistryInv, TypeOK, ThreadsTypeOK
  <2>3. heap' = heap \/ heap' = [heap EXCEPT ![a].queue = <<>>]
    BY <1>6 DEF DestroyBegin, DestroyScan, DestroyUnwatch, DestroyForget, rootVars
  <2>4. \A b \in Addr : heap'[b].rewatch = heap[b].rewatch
    BY <1>1, <2>3, QueueWrite
  <2> QED
    BY <2>1, <2>2, <2>4 DEF Same, DumpPending
<1> QED
  BY <1>1, <1>3, <1>4, <1>5, <1>6, StepKinds DEF DestroyerStep

(* After every change of the registry roots.dump is written again, and no  *)
(* interleaving of inotify_watch_tree() with threads that destroy roots    *)
(* leaves an outdated file behind.                                         *)
THEOREM DumpStaysFresh == Spec => []DumpFresh
<1>1. Init => DumpFresh
  BY DEF Init, DumpFresh, Registered
<1>2. RegistryInv /\ DumpFresh /\ [Next]_vars => DumpFresh'
  <2> SUFFICES ASSUME RegistryInv, DumpFresh, [Next]_vars PROVE DumpFresh'
    OBVIOUS
  <2>1. TypeOK
    BY DEF RegistryInv
  <2>2. CASE WatchDump \/ \E a \in Addr : DestroyDump(a)
    <3>1. UNCHANGED <<inotify_roots, heap>> /\ DumpRoots
      BY <2>2 DEF WatchDump, DestroyDump, rootVars
    <3>2. dump' = {p \in Registered : heap[inotify_roots[p]].rewatch}
      BY <3>1 DEF DumpRoots, RegistryInv, OwnPath
    <3> QED
      BY <3>1, <3>2, SameRoots DEF DumpFresh
  <2>3. CASE WatchInsert
    BY <2>1, <2>3, Readers DEF DumpFresh, DumpPending
  <2>4. ASSUME NEW a \in Addr, DestroyEnd(a) PROVE DumpFresh'
    <3>1. destroyer'[a].pc = "dump"
      BY <2>1, <2>4 DEF DestroyEnd, TypeOK, ThreadsTypeOK, DestroyerType
    <3> QED
      BY <3>1 DEF DumpFresh, DumpPending
  <2>5. CASE /\ UNCHANGED <<inotify_roots, dump>>
             /\ \A a \in Addr : heap'[a].rewatch = heap[a].rewatch
             /\ DumpPending => DumpPending'
    <3>1. Registered' = Registered
      BY <2>5, SameRoots
    <3>2. \A p \in Registered : heap'[inotify_roots'[p]].rewatch = heap[inotify_roots[p]].rewatch
      BY <2>1, <2>5, RegisteredRoot
    <3> QED
      BY <2>5, <3>1, <3>2 DEF DumpFresh
  <2> QED
    BY <2>2, <2>3, <2>4, <2>5, DumpSteps
<1> QED
  BY <1>1, <1>2, RegistryInvariant, PTL DEF Spec

=============================================================================
