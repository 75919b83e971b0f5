---------------------------- MODULE TableProofs ----------------------------
(***************************************************************************)
(* The two watch tables and the kernel's watches, under everybody who      *)
(* writes them: the walks, the event handler, the cleanup and the threads  *)
(* that destroy roots.                                                     *)
(***************************************************************************)
EXTENDS RegistryProofs

-----------------------------------------------------------------------------
(* The inductive invariant of the tables.                                  *)

(* No directory is watched under descriptor w any more.                    *)
Dropped(w) == \A d \in Path : kwatch[d].wd # w

(* Descriptors in use were given out before.                               *)
Given ==
    /\ \A d \in Path : kwatch[d].wd < nextWd
    /\ \A k \in Key : inotify_path_to_watch[k] < nextWd
    /\ \A a \in Addr :
         destroyer[a].pc \in {"unwatch", "forget"} => destroyer[a].at.wd < nextWd

(* The keys that _destroy_root() goes through lie below its root.          *)
ListedBelow ==
    \A a \in Addr :
        /\ destroyer[a].pc \in {"scan", "unwatch", "forget"} =>
             \A e \in destroyer[a].todo : Below(e.path, heap[a].path)
        /\ destroyer[a].pc \in {"unwatch", "forget"} =>
             Below(destroyer[a].at.path, heap[a].path)

(* The Watch that _destroy_root() keeps across its unlocks: its descriptor *)
(* still stands for the path it had, or it is gone for good.               *)
KeptWatch ==
    \A a \in Addr :
        LET e == destroyer[a].at
        IN /\ destroyer[a].pc = "unwatch" =>
                \/ inotify_wd_to_watch[e.wd] = e.path
                \/ inotify_wd_to_watch[e.wd] = NoPath /\ Dropped(e.wd)
           /\ destroyer[a].pc = "forget" =>
                inotify_wd_to_watch[e.wd] \in {e.path, NoPath} /\ Dropped(e.wd)

TableInv == MapsAgree /\ Given /\ ListedBelow /\ KeptWatch

-----------------------------------------------------------------------------
(* The invariant of the kernel's watches.                                  *)

WatchPaths == {r.path : r \in {q \in Requests : q.call = "watch"}}

(* What DescriptorsKnown rests on: the directories that clients ask to     *)
(* watch are not moved or removed by other processes, and the requests     *)
(* name them without a trailing slash, as the parser leaves them.          *)
RootsStay ==
    \A p \in WatchPaths :
        /\ p \in Path => p \in Stable
        /\ p = Slash \/ StripSlash(p) = p

OneWatch ==
    \A d1, d2 \in Path :
        kwatch[d1].wd = kwatch[d2].wd /\ kwatch[d1].wd # 0 => d1 = d2

(* A directory that stays where it is has the only watch recorded for it.  *)
StableWatch ==
    \A d \in Path :
        LET wd == kwatch[d].wd
        IN wd # 0 /\ inotify_wd_to_watch[wd] \in Stable => inotify_wd_to_watch[wd] = d

(* Roots are the paths clients asked to watch.                             *)
RootsAsked ==
    /\ Registered \subseteq WatchPaths
    /\ main.pc \in {"watch_check", "watch_open", "watch_insert"} =>
         main.path \in WatchPaths

(* A fresh descriptor is in no table.                                      *)
KnownGiven == \A w \in Wd : WatchLive(w) => w < nextWd

WatchInv == OneWatch /\ StableWatch /\ RootsAsked /\ KnownGiven /\ DescriptorsKnown

-----------------------------------------------------------------------------
(* Who writes the tables and the watches.                                  *)

(* Nobody names the empty path in a table.                                 *)
LEMMA NoPathIsNoKey == NoPath \notin Key
  BY PathAssumption DEF Key, NoPath, DoubleSlash

(* Neither the tables, nor the kernel's watches, nor the threads that      *)
(* destroy roots.                                                          *)
TablesAlone == UNCHANGED <<kwatch, nextWd, tableVars, destroyer>>

(* Every step is one of these.                                             *)
LEMMA WriterSteps ==
    ASSUME TypeOK, [Next]_vars
    PROVE  \/ TablesAlone \/ Environment \/ LostDirectory \/ Unwatch
           \/ \E w \in Walker : WalkerVisit(w)
           \/ \E c \in Cleaner : MemcleanRemove(c)
           \/ \E a \in Addr : DestroyerStep(a)
<1> USE DEF TablesAlone
<1>1. ASSUME NEW w \in Walker, WalkerStep(w), ~WalkerVisit(w) PROVE TablesAlone
  BY <1>1 DEF WalkerStep, WalkerStart, WalkerList, WalkerLoop, WalkerEnd, kernelVars
<1>2. ASSUME NEW c \in Cleaner, CleanerStep(c), ~MemcleanRemove(c) PROVE TablesAlone
  BY <1>2 DEF CleanerStep, MemcleanStart, MemcleanSnapshot, MemcleanScan,
              MemcleanEnd, kernelVars
<1>3. UNCHANGED vars => TablesAlone
  BY DEF vars, kernelVars, threadVars
<1>4. Poll \/ RewatchDone \/ EventsDone \/ InotifyMemclean \/ InotifyRewatchRoots
        \/ (\E a \in Addr : RewatchNext(a)) \/ ReadEvents
      => TablesAlone
  BY DEF Poll, RewatchDone, EventsDone, InotifyMemclean, InotifyRewatchRoots,
         RewatchNext, ReadEvents, kernelVars, threadVars
<1>5. LookupEvent \/ NewDirectory \/ InotifyEnqueue
        \/ (\E r \in Requests : ZmqDispatchEvent(r))
      => TablesAlone
  BY DEF LookupEvent, NewDirectory, InotifyEnqueue, ZmqDispatchEvent, kernelVars,
         threadVars
<1>6. WatchCheck \/ WatchClash \/ WatchOpen \/ WatchInsert \/ WatchDump \/ WatchSpawn
      => TablesAlone
  BY DEF WatchCheck, WatchClash, WatchOpen, WatchInsert, WatchDump, WatchSpawn,
         kernelVars, threadVars
<1>7. PauseTree \/ UnpauseTree \/ GetEvents \/ InotifyDequeue \/ QueueSize
      => TablesAlone
  BY DEF PauseTree, UnpauseTree, GetEvents, InotifyDequeue, QueueSize, kernelVars,
         threadVars
<1> QED
  BY <1>1, <1>2, <1>3, <1>4, <1>5, <1>6, <1>7 DEF Next, MainStep

(* A Root under destruction keeps its path.                                *)
LEMMA PathsKept ==
    ASSUME RegistryInv, [Next]_vars
    PROVE  \A a \in Addr : destroyer[a].pc # "none" => heap'[a].path = heap[a].path
<1>1. TypeOK
  BY DEF RegistryInv
<1>2. CASE Elsewhere \/ Turn
  BY <1>2 DEF Elsewhere, Turn, rootVars
<1>3. CASE \/ LookupEvent \/ NewDirectory \/ LostDirectory
           \/ \E r \in Requests : ZmqDispatchEvent(r)
           \/ WatchCheck \/ WatchOpen \/ GetEvents \/ WatchDump
  BY <1>1, <1>3, Readers DEF rootVars
<1>4. CASE WatchInsert
  <2> PICK a \in Addr :
         FreeAddr(a) /\ heap' = [heap EXCEPT ![a] = NewRoot(main.req, main.path)]
    BY <1>4 DEF WatchInsert
  <2> QED
    BY <1>1 DEF FreeAddr, TypeOK, RootsTypeOK
<1>5. CASE \/ InotifyEnqueue \/ Unwatch \/ PauseTree \/ UnpauseTree \/ InotifyDequeue
           \/ \E a \in Addr : DestroyerStep(a)
  <2>1. \E a, v : \/ heap' = heap
                  \/ heap' = [heap EXCEPT ![a].queue = v]
                  \/ heap' = [heap EXCEPT ![a].pause = v]
                  \/ heap' = [heap EXCEPT ![a].destroy = v]
    BY <1>5 DEF InotifyEnqueue, Unwatch, PauseTree, UnpauseTree, InotifyDequeue,
                SetPause, DestroyerStep, DestroyBegin, DestroyScan, DestroyUnwatch,
                DestroyForget, DestroyEnd, DestroyDump, rootVars
  <2> QED
    BY <1>1, <2>1, QueueWrite, PauseWrite, DestroyWrite
<1> QED
  BY <1>1, <1>2, <1>3, <1>4, <1>5, StepKinds

(* What other processes do to the watches: one they leave stays with its   *)
(* directory, and only a directory that may move carries it elsewhere.     *)
LEMMA FsWatches ==
    ASSUME KernelTypeOK, FsStep
    PROVE  /\ UNCHANGED nextWd
           /\ \A d \in Path : kwatch'[d].wd # 0 =>
                \E x \in Path : /\ kwatch[x].wd = kwatch'[d].wd
                                /\ x = d \/ x \notin Stable
           /\ OneWatch => OneWatch'
<1> DEFINE Carried ==
             /\ UNCHANGED nextWd
             /\ \A d \in Path : kwatch'[d].wd # 0 =>
                  \E x \in Path : /\ kwatch[x].wd = kwatch'[d].wd
                                  /\ x = d \/ x \notin Stable
             /\ OneWatch => OneWatch'
<1> SUFFICES Carried
  OBVIOUS
<1>1. ASSUME NEW p \in Path, Mkdir(p) \/ WriteFile(p) PROVE Carried
  BY <1>1 DEF Mkdir, WriteFile, OneWatch
<1>2. ASSUME NEW p \in Path, Rmdir(p) PROVE Carried
  BY <1>2 DEF Rmdir, OneWatch, KernelTypeOK, NoWatch
<1>3. ASSUME NEW p \in Path, NEW q \in Path, Rename(p, q) PROVE Carried
  <2> DEFINE sub   == {d \in dirs : d = p \/ Below(d, p)}
             to(d) == q \o SubSeq(d, Len(p) + 1, Len(d))
             moved == {to(d) : d \in sub}
             src(d) == CHOOSE x \in sub : to(x) = d
  <2>1. /\ sub \intersect Stable = {} /\ UNCHANGED nextWd
        /\ kwatch' = [d \in Path |-> IF d \in moved THEN kwatch[src(d)]
                                     ELSE IF d \in sub THEN NoWatch
                                     ELSE kwatch[d]]
    BY <1>3 DEF Rename
  <2>2. ASSUME NEW d \in moved PROVE src(d) \in sub /\ to(src(d)) = d
    BY <2>2
  <2>3. sub \subseteq Path
    BY DEF KernelTypeOK
  <2> HIDE DEF sub, to, moved, src
  <2>4. ASSUME NEW d \in Path, kwatch'[d].wd # 0
        PROVE  \/ d \in moved /\ kwatch'[d] = kwatch[src(d)]
               \/ d \notin moved /\ d \notin sub /\ kwatch'[d] = kwatch[d]
    BY <2>1, <2>4 DEF NoWatch
  <2>5. ASSUME NEW d \in Path, kwatch'[d].wd # 0
        PROVE  \E x \in Path : /\ kwatch[x].wd = kwatch'[d].wd
                               /\ x = d \/ x \notin Stable
    BY <2>1, <2>2, <2>3, <2>4, <2>5
  <2>6. ASSUME OneWatch, NEW d1 \in Path, NEW d2 \in Path,
               kwatch'[d1].wd = kwatch'[d2].wd, kwatch'[d1].wd # 0
        PROVE  d1 = d2
    <3>1. ASSUME NEW d \in Path, NEW e \in Path,
                 kwatch'[d].wd = kwatch'[e].wd, kwatch'[d].wd # 0,
                 d \in moved, e \notin moved
          PROVE  FALSE
      BY <2>2, <2>3, <2>4, <2>6, <3>1 DEF OneWatch
    <3>2. CASE d1 \in moved /\ d2 \in moved
      <4>1. src(d1) = src(d2)
        BY <2>2, <2>3, <2>4, <2>6, <3>2 DEF OneWatch
      <4> QED
        BY <2>2, <3>2, <4>1
    <3>3. CASE d1 \notin moved /\ d2 \notin moved
      BY <2>4, <2>6, <3>3 DEF OneWatch
    <3> QED
      BY <2>6, <3>1, <3>2, <3>3
  <2> QED
    BY <2>1, <2>5, <2>6 DEF OneWatch
<1> HIDE DEF Carried
<1> QED
  BY <1>1, <1>2, <1>3 DEF FsStep

-----------------------------------------------------------------------------
(* Preservation of the table invariant.                                    *)

(* The listed entries are those of both tables.                            *)
LEMMA ListedEntries ==
    ASSUME TypeOK, MapsAgree
    PROVE  /\ \A e \in Entries : /\ e.path \in Key /\ e.wd \in Wd
                                 /\ inotify_path_to_watch[e.path] = e.wd
                                 /\ inotify_wd_to_watch[e.wd] = e.path
           /\ Entries \subseteq Entry
<1>1. Entries \subseteq Entry
  BY EntriesType DEF TypeOK
<1>2. ASSUME NEW k \in Key, inotify_path_to_watch[k] # 0
      PROVE  /\ inotify_path_to_watch[k] \in Wd
             /\ inotify_wd_to_watch[inotify_path_to_watch[k]] = k
  BY <1>2, KernelAssumption DEF TypeOK, TablesTypeOK, MapsAgree, Wd
<1> QED
  BY <1>1, <1>2 DEF Entries

(* Watches leave both tables together, each for the path it stands for.    *)
LEMMA ForgetAgrees ==
    ASSUME TypeOK, MapsAgree, NEW S,
           \A e \in S : inotify_wd_to_watch[e.wd] \in {e.path, NoPath},
           Forget(S)
    PROVE  /\ MapsAgree'
           /\ \A w \in Wd :
                \/ inotify_wd_to_watch'[w] = inotify_wd_to_watch[w]
                \/ inotify_wd_to_watch'[w] = NoPath /\ \E e \in S : e.wd = w
           /\ \A k \in Key :
                inotify_path_to_watch'[k] \in {inotify_path_to_watch[k], 0}
<1>1. \A w \in Wd :
        \/ inotify_wd_to_watch'[w] = inotify_wd_to_watch[w]
        \/ inotify_wd_to_watch'[w] = NoPath /\ \E e \in S : e.wd = w
  BY DEF Forget
<1>2. ASSUME NEW k \in Key
      PROVE  inotify_path_to_watch'[k] =
               IF \E e \in S : e.path = k THEN 0 ELSE inotify_path_to_watch[k]
  BY DEF Forget
<1>3. ASSUME NEW k \in Key, inotify_path_to_watch'[k] # 0
      PROVE  inotify_wd_to_watch'[inotify_path_to_watch'[k]] = k
  <2>1. inotify_path_to_watch'[k] = inotify_path_to_watch[k] /\ ~\E e \in S : e.path = k
    BY <1>2, <1>3
  <2>2. inotify_wd_to_watch[inotify_path_to_watch[k]] = k
    BY <1>3, <2>1 DEF MapsAgree
  <2>3. inotify_path_to_watch[k] \in Wd
    BY <1>3, <2>1, KernelAssumption DEF TypeOK, TablesTypeOK, Wd
  <2>4. ~\E e \in S : e.wd = inotify_path_to_watch[k]
    BY <2>1, <2>2, NoPathIsNoKey
  <2> QED
    BY <1>1, <2>1, <2>2, <2>3, <2>4
<1> QED
  BY <1>1, <1>2, <1>3 DEF MapsAgree

(* A step that leaves the tables alone, and of the watches drops some or   *)
(* carries them elsewhere.                                                 *)
LEMMA KeepTables ==
    ASSUME TypeOK, TableInv,
           UNCHANGED <<nextWd, tableVars, destroyer>>,
           \A a \in Addr : destroyer[a].pc # "none" => heap'[a].path = heap[a].path,
           \A d \in Path : kwatch'[d].wd # 0 =>
               \E x \in Path : kwatch[x].wd = kwatch'[d].wd
    PROVE  TableInv'
<1>1. \A w \in Wd : Dropped(w) => Dropped(w)'
  BY KernelAssumption DEF Dropped, Wd
<1>2. MapsAgree'
  BY DEF TableInv, MapsAgree, tableVars
<1>3. Given'
  BY DEF TableInv, Given, tableVars, TypeOK, KernelTypeOK
<1>4. ListedBelow'
  BY DEF TableInv, ListedBelow
<1>5. KeptWatch'
  <2>1. \A a \in Addr : destroyer[a].pc \in {"unwatch", "forget"} =>
          destroyer[a].at.wd \in Wd
    BY DEF TypeOK, ThreadsTypeOK, Entry
  <2> QED
    BY <1>1, <2>1 DEF TableInv, KeptWatch, tableVars
<1> QED
  BY <1>2, <1>3, <1>4, <1>5 DEF TableInv

(* LostDirectory and MemcleanRemove take Watches out of the tables and the *)
(* kernel within one critical section.                                     *)
LEMMA RetireKeeps ==
    ASSUME TypeOK, TableInv, NEW S \in SUBSET Entries, Forget(S),
           kwatch' = RmWatch({e.wd : e \in S}),
           UNCHANGED <<nextWd, destroyer>>,
           \A a \in Addr : destroyer[a].pc # "none" => heap'[a].path = heap[a].path
    PROVE  TableInv'
<1>1. \A e \in S : inotify_wd_to_watch[e.wd] \in {e.path, NoPath}
  BY ListedEntries DEF TableInv
<1>2. /\ MapsAgree'
      /\ \A w \in Wd :
           \/ inotify_wd_to_watch'[w] = inotify_wd_to_watch[w]
           \/ inotify_wd_to_watch'[w] = NoPath /\ \E e \in S : e.wd = w
      /\ \A k \in Key :
           inotify_path_to_watch'[k] \in {inotify_path_to_watch[k], 0}
  BY <1>1, ForgetAgrees DEF TableInv
<1>3. \A d \in Path : \/ kwatch'[d].wd = 0
                      \/ kwatch'[d] = kwatch[d] /\ ~\E e \in S : e.wd = kwatch[d].wd
  BY DEF RmWatch, NoWatch
<1>4. \A w \in Wd : /\ Dropped(w) => Dropped(w)'
                    /\ (\E e \in S : e.wd = w) => Dropped(w)'
  BY <1>3, KernelAssumption DEF Dropped, Wd
<1>5. Given'
  BY <1>2, <1>3 DEF TableInv, Given, TypeOK, KernelTypeOK
<1>6. ListedBelow'
  BY DEF TableInv, ListedBelow
<1>7. KeptWatch'
  <2>1. \A a \in Addr : destroyer[a].pc \in {"unwatch", "forget"} =>
          destroyer[a].at.wd \in Wd
    BY DEF TypeOK, ThreadsTypeOK, Entry
  <2> QED
    BY <1>2, <1>4, <2>1 DEF TableInv, KeptWatch
<1> QED
  BY <1>2, <1>5, <1>6, <1>7 DEF TableInv

(* What a visit of _do_watch_tree_rec() does if it changes anything: the   *)
(* directory gets a watch, and a Watch whose descriptor the table does not *)
(* know is recorded under the path.                                        *)
LEMMA VisitWatches ==
    ASSUME TypeOK, NEW w \in Walker, WalkerVisit(w)
    PROVE  \/ UNCHANGED <<kwatch, nextWd, tableVars>>
           \/ LET p == walker[w].path
                  d == Resolve(p)
              IN /\ p \in Key /\ d \in Path /\ WdFor(d) \in Wd
                 /\ AddWatch(d, heap[walker[w].root].mask)
                 /\ RecordWatch(p, WdFor(d))
<1> DEFINE p == walker[w].path
           d == Resolve(p)
<1> SUFFICES ASSUME NEW destroy, ~VisitBails(w, destroy),
                    AddWatch(d, heap[walker[w].root].mask),
                    RecordWatch(p, WdFor(d))
             PROVE  p \in Key /\ d \in Path /\ WdFor(d) \in Wd
  BY DEF WalkerVisit
<1>1. d \in Path
  BY DEF VisitBails, TypeOK, KernelTypeOK
<1>2. p \in Key
  BY <1>1 DEF Resolve, Key
<1>3. WdFor(d) \in Wd
  BY <1>1, KernelAssumption DEF AddWatch, WdFor, Wd, TypeOK, KernelTypeOK, KWatch
<1> QED
  BY <1>1, <1>2, <1>3

(* A visit records under a descriptor that no Watch in the tables has.     *)
LEMMA VisitKeeps ==
    ASSUME TypeOK, TableInv, NEW w \in Walker, WalkerVisit(w)
    PROVE  TableInv'
<1> DEFINE p == walker[w].path
           d == Resolve(p)
           wd == WdFor(d)
<1>0. UNCHANGED <<destroyer, heap>>
  BY DEF WalkerVisit, rootVars
<1>1. CASE UNCHANGED <<kwatch, nextWd, tableVars>>
  BY <1>0, <1>1, KeepTables
<1>2. CASE /\ p \in Key /\ d \in Path /\ wd \in Wd
           /\ AddWatch(d, heap[walker[w].root].mask)
           /\ RecordWatch(p, wd)
  <2>1. /\ kwatch'[d].wd = wd
        /\ \A x \in Path : x # d => kwatch'[x] = kwatch[x]
        /\ nextWd' = IF kwatch[d].wd # 0 THEN nextWd ELSE nextWd + 1
        /\ wd = IF kwatch[d].wd # 0 THEN kwatch[d].wd ELSE nextWd
    BY <1>2 DEF AddWatch, WdFor, TypeOK, KernelTypeOK
  <2>2. nextWd \in Nat /\ nextWd' \in Nat /\ nextWd <= nextWd' /\ wd < nextWd'
        /\ \A x \in Path : kwatch[x].wd \in Nat
    BY <2>1, <1>2, KernelAssumption DEF TypeOK, KernelTypeOK, KWatch, TableInv, Given
  <2>a. \A x \in Path : kwatch[x].wd < nextWd
    BY DEF TableInv, Given
  <2>3. \A v \in Wd : Dropped(v) /\ v < nextWd => Dropped(v)' /\ v # wd
    BY <1>2, <2>1, <2>2 DEF Dropped
  <2>4. \A v \in Wd : \/ inotify_wd_to_watch'[v] = inotify_wd_to_watch[v]
                      \/ /\ v = wd /\ inotify_wd_to_watch[v] = NoPath
                         /\ inotify_wd_to_watch'[v] = p
    BY <1>2 DEF RecordWatch, tableVars, TypeOK, TablesTypeOK
  <2>5. \A k \in Key :
          \/ inotify_path_to_watch'[k] = inotify_path_to_watch[k]
          \/ /\ k = p /\ inotify_path_to_watch'[k] = wd
             /\ inotify_wd_to_watch'[wd] = p
    BY <1>2 DEF RecordWatch, tableVars, TypeOK, TablesTypeOK
  <2> HIDE DEF wd, d, p
  <2>6. MapsAgree'
    <3> SUFFICES ASSUME NEW k \in Key, inotify_path_to_watch'[k] # 0
                 PROVE  inotify_wd_to_watch'[inotify_path_to_watch'[k]] = k
      BY DEF MapsAgree
    <3>1. CASE inotify_path_to_watch'[k] = inotify_path_to_watch[k]
      <4>1. /\ inotify_path_to_watch[k] \in Wd
            /\ inotify_wd_to_watch[inotify_path_to_watch[k]] = k
        BY <3>1, KernelAssumption DEF TableInv, MapsAgree, TypeOK, TablesTypeOK, Wd
      <4> QED
        BY <2>4, <3>1, <4>1, NoPathIsNoKey
    <3>2. CASE inotify_path_to_watch'[k] # inotify_path_to_watch[k]
      BY <2>5, <3>2
    <3> QED
      BY <3>1, <3>2
  <2>7. Given'
    <3>1. \A x \in Path : kwatch'[x].wd < nextWd'
      BY <2>1, <2>2, <2>a
    <3>2. \A k \in Key : inotify_path_to_watch'[k] < nextWd'
      <4>1. \A k \in Key : inotify_path_to_watch[k] < nextWd /\ inotify_path_to_watch[k] \in Nat
        BY KernelAssumption DEF TableInv, Given, TypeOK, TablesTypeOK
      <4> QED
        BY <1>2, <2>2, <2>5, <4>1
    <3>3. \A a \in Addr : destroyer'[a].pc \in {"unwatch", "forget"} =>
            destroyer'[a].at.wd < nextWd'
      <4>1. \A a \in Addr : destroyer[a].pc \in {"unwatch", "forget"} =>
              destroyer[a].at.wd < nextWd /\ destroyer[a].at.wd \in Nat
        BY KernelAssumption
        DEF TableInv, Given, TypeOK, ThreadsTypeOK, Entry, Wd
      <4> QED
        BY <1>0, <2>2, <4>1
    <3> QED
      BY <3>1, <3>2, <3>3 DEF Given
  <2>8. ListedBelow'
    BY <1>0 DEF TableInv, ListedBelow
  <2>9. KeptWatch'
    <3>1. \A a \in Addr : destroyer[a].pc \in {"unwatch", "forget"} =>
            /\ destroyer[a].at.wd \in Wd /\ destroyer[a].at.wd < nextWd
            /\ destroyer[a].at.path # NoPath
      BY NoPathIsNoKey DEF TableInv, Given, TypeOK, ThreadsTypeOK, Entry
    <3> QED
      BY <1>0, <2>3, <2>4, <3>1 DEF TableInv, KeptWatch
  <2> QED
    BY <2>6, <2>7, <2>8, <2>9 DEF TableInv
<1> QED
  BY <1>1, <1>2, VisitWatches

(* The path of a Root under destruction is a root's, and no other root     *)
(* lies below it.                                                          *)
LEMMA NoRootBelow ==
    ASSUME RegistryInv, Disjoint, NEW a \in Addr, Live(a),
           NEW p \in Registered, Below(p, heap[a].path)
    PROVE  FALSE
<1>1. heap[a].path \in Registered
  BY RegisteredRoot DEF RegistryInv, OwnPath
<1>2. p \in Seq(Name) /\ p # NoPath
  BY PathAssumption DEF Registered
<1>3. p # heap[a].path
  BY <1>2 DEF Below, IsStrictPrefix
<1> QED
  BY <1>1, <1>2, <1>3, BelowStrstr DEF Disjoint

(* A step of _destroy_root(): it takes a Watch for removal that both       *)
(* tables hold, and what it removes later is that Watch or nothing.        *)
LEMMA DestroyerKeepsTables ==
    ASSUME RegistryInv, Disjoint, TableInv, NEW a \in Addr, DestroyerStep(a),
           \A b \in Addr : destroyer[b].pc # "none" => heap'[b].path = heap[b].path
    PROVE  TableInv'
<1> USE DEF RegistryInv
<1>a. \A b \in Addr : destroyer[b].pc \in {"unwatch", "forget"} =>
        /\ destroyer[b].at \in Entry
        /\ destroyer[b].at.wd \in Wd /\ destroyer[b].at.path \in Key
        /\ destroyer[b].at.path # NoPath
  BY NoPathIsNoKey DEF TypeOK, ThreadsTypeOK, Entry
<1>b. \A b \in Addr : /\ destroyer[b] \in DestroyerType
                      /\ b # a => destroyer'[b] = destroyer[b]
  BY DEF DestroyerStep, DestroyBegin, DestroyScan, DestroyUnwatch, DestroyForget,
         DestroyEnd, DestroyDump, TypeOK, ThreadsTypeOK
<1>c. destroyer \in [Addr -> DestroyerType]
  BY DEF TypeOK, ThreadsTypeOK
<1>1. CASE DestroyBegin(a) \/ DestroyScan(a) \/ DestroyDump(a)
  <2>1. UNCHANGED <<kwatch, nextWd, tableVars>>
    BY <1>1 DEF DestroyBegin, DestroyScan, DestroyDump, kernelVars
  <2>2. MapsAgree' /\ \A v : Dropped(v)' <=> Dropped(v)
    BY <2>1 DEF TableInv, MapsAgree, tableVars, Dropped
  <2>3. \/ destroyer'[a].pc = "none"
        \/ /\ destroyer'[a].pc = "scan"
           /\ \A e \in destroyer'[a].todo : Below(e.path, heap[a].path)
        \/ /\ destroyer'[a].pc = "unwatch"
           /\ \A e \in destroyer'[a].todo : Below(e.path, heap[a].path)
           /\ Below(destroyer'[a].at.path, heap[a].path)
           /\ destroyer'[a].at.wd < nextWd
           /\ inotify_wd_to_watch[destroyer'[a].at.wd] = destroyer'[a].at.path
    <3>1. CASE DestroyBegin(a)
      <4>1. destroyer'[a].pc = "scan" /\ destroyer'[a].todo = SubPaths(heap[a].path)
        BY <1>c, <3>1 DEF DestroyBegin, DestroyerType
      <4> QED
        BY <4>1 DEF SubPaths
    <3>2. CASE DestroyScan(a)
      <4> PICK e \in destroyer[a].todo :
            LET wd == inotify_path_to_watch[e.path]
            IN \/ destroyer' = [destroyer EXCEPT ![a].todo = @ \ {e}]
               \/ /\ wd # 0
                  /\ destroyer' = [destroyer EXCEPT
                        ![a].pc = "unwatch",
                        ![a].todo = @ \ {e},
                        ![a].at = [path |-> e.path, wd |-> wd]]
        BY <3>2 DEF DestroyScan
      <4>1. /\ destroyer[a].pc = "scan" /\ e.path \in Key
            /\ \A f \in destroyer[a].todo : Below(f.path, heap[a].path)
        BY <1>b, <3>2 DEF DestroyScan, TableInv, ListedBelow, DestroyerType, Entry
      <4>2. CASE destroyer' = [destroyer EXCEPT ![a].todo = @ \ {e}]
        BY <1>c, <4>1, <4>2 DEF DestroyerType
      <4>3. CASE /\ inotify_path_to_watch[e.path] # 0
                 /\ destroyer' = [destroyer EXCEPT
                        ![a].pc = "unwatch",
                        ![a].todo = @ \ {e},
                        ![a].at = [path |-> e.path, wd |-> inotify_path_to_watch[e.path]]]
        <5>1. /\ destroyer'[a].pc = "unwatch"
              /\ destroyer'[a].todo = destroyer[a].todo \ {e}
              /\ destroyer'[a].at = [path |-> e.path, wd |-> inotify_path_to_watch[e.path]]
          BY <1>c, <4>3 DEF DestroyerType
        <5>2. /\ inotify_path_to_watch[e.path] < nextWd
              /\ inotify_wd_to_watch[inotify_path_to_watch[e.path]] = e.path
          BY <4>1, <4>3 DEF TableInv, Given, MapsAgree
        <5> QED
          BY <4>1, <5>1, <5>2
      <4> QED
        BY <4>2, <4>3
    <3>3. CASE DestroyDump(a)
      BY <1>c, <3>3 DEF DestroyDump, NoDestroyer
    <3> QED
      BY <1>1, <3>1, <3>2, <3>3
  <2>4. heap'[a].path = heap[a].path
    BY <1>1 DEF DestroyBegin, DestroyScan, DestroyDump
  <2>5. Given'
    BY <1>b, <2>1, <2>3 DEF TableInv, Given, tableVars
  <2>6. ListedBelow'
    BY <1>b, <2>3, <2>4 DEF TableInv, ListedBelow
  <2>7. KeptWatch'
    BY <1>b, <2>1, <2>2, <2>3 DEF TableInv, KeptWatch, tableVars
  <2> QED
    BY <2>2, <2>5, <2>6, <2>7 DEF TableInv
<1>2. CASE DestroyUnwatch(a)
  <2> DEFINE e == destroyer[a].at
  <2>1. /\ destroyer[a].pc = "unwatch"
        /\ destroyer'[a].pc = "forget" /\ destroyer'[a].at = e
        /\ destroyer'[a].todo = destroyer[a].todo
    BY <1>c, <1>2 DEF DestroyUnwatch, DestroyerType
  <2>2. UNCHANGED <<nextWd, tableVars>> /\ kwatch' = RmWatch({e.wd})
    BY <1>2 DEF DestroyUnwatch
  <2>3. \A d \in Path : \/ kwatch'[d].wd = 0
                        \/ kwatch'[d] = kwatch[d] /\ kwatch[d].wd # e.wd
    BY <2>2 DEF RmWatch, NoWatch
  <2>4. e.wd \in Wd /\ 0 \notin Wd
        /\ inotify_wd_to_watch[e.wd] \in {e.path, NoPath}
    BY <1>a, <2>1, KernelAssumption DEF Wd, TableInv, KeptWatch
  <2> HIDE DEF e
  <2>5. /\ \A v \in Wd : Dropped(v) => Dropped(v)'
        /\ \A d \in Path : kwatch'[d].wd # e.wd
    BY <2>3, <2>4 DEF Dropped
  <2>6. UNCHANGED <<nextWd, tableVars>>
    BY <2>2
  <2>7. MapsAgree'
    BY <2>6 DEF TableInv, MapsAgree, tableVars
  <2>8. Given'
    <3>1. \A d \in Path : kwatch'[d].wd < nextWd'
      BY <2>3, <2>6 DEF TableInv, Given, TypeOK, KernelTypeOK
    <3>2. \A b \in Addr : destroyer'[b].pc \in {"unwatch", "forget"} =>
            destroyer'[b].at.wd < nextWd'
      BY <1>b, <2>1, <2>6 DEF TableInv, Given, e
    <3> QED
      BY <2>6, <3>1, <3>2 DEF TableInv, Given, tableVars
  <2>9. ListedBelow'
    BY <1>b, <2>1 DEF TableInv, ListedBelow, e
  <2>10. KeptWatch'
    <3> SUFFICES ASSUME NEW b \in Addr,
                        destroyer'[b].pc \in {"unwatch", "forget"}
                 PROVE  /\ destroyer'[b].pc = "unwatch" =>
                             \/ inotify_wd_to_watch'[destroyer'[b].at.wd] = destroyer'[b].at.path
                             \/ /\ inotify_wd_to_watch'[destroyer'[b].at.wd] = NoPath
                                /\ \A d \in Path : kwatch'[d].wd # destroyer'[b].at.wd
                        /\ destroyer'[b].pc = "forget" =>
                             /\ inotify_wd_to_watch'[destroyer'[b].at.wd]
                                   \in {destroyer'[b].at.path, NoPath}
                             /\ \A d \in Path : kwatch'[d].wd # destroyer'[b].at.wd
      BY DEF KeptWatch, Dropped
    <3>1. CASE b = a
      BY <2>1, <2>4, <2>5, <2>6, <3>1 DEF tableVars
    <3>2. CASE b # a
      <4>1. destroyer'[b] = destroyer[b]
        BY <1>b, <3>2
      <4> QED
        BY <1>a, <2>5, <2>6, <4>1 DEF TableInv, KeptWatch, tableVars, Dropped
    <3> QED
      BY <3>1, <3>2
  <2> QED
    BY <2>7, <2>8, <2>9, <2>10 DEF TableInv
<1>3. CASE DestroyForget(a)
  <2> DEFINE e == destroyer[a].at
  <2>1. /\ UNCHANGED <<kwatch, nextWd>> /\ destroyer[a].pc = "forget"
        /\ destroyer'[a].pc = "scan" /\ destroyer'[a].todo = destroyer[a].todo
        /\ Forget({e})
    BY <1>c, <1>3 DEF DestroyForget, DestroyerType, kernelVars
  <2>2. inotify_wd_to_watch[e.wd] \in {e.path, NoPath} /\ Dropped(e.wd)
    BY <2>1 DEF TableInv, KeptWatch
  <2>3. /\ MapsAgree'
        /\ \A w \in Wd : \/ inotify_wd_to_watch'[w] = inotify_wd_to_watch[w]
                         \/ inotify_wd_to_watch'[w] = NoPath /\ w = e.wd
        /\ \A k \in Key :
             inotify_path_to_watch'[k] \in {inotify_path_to_watch[k], 0}
    BY <2>1, <2>2, ForgetAgrees DEF TableInv
  <2>4. \A v : Dropped(v)' <=> Dropped(v)
    BY <2>1 DEF Dropped
  <2>5. Given'
    BY <1>b, <2>1, <2>3 DEF TableInv, Given, TypeOK, KernelTypeOK
  <2>6. ListedBelow'
    BY <1>b, <2>1 DEF TableInv, ListedBelow
  <2>7. KeptWatch'
    BY <1>a, <1>b, <2>1, <2>2, <2>3, <2>4 DEF TableInv, KeptWatch
  <2> QED
    BY <2>3, <2>5, <2>6, <2>7 DEF TableInv
<1>4. CASE DestroyEnd(a)
  <2>1. /\ UNCHANGED <<kwatch, nextWd>> /\ destroyer[a].pc = "scan"
        /\ destroyer'[a].pc = "dump" /\ Forget(RootEntry(a))
    BY <1>c, <1>4 DEF DestroyEnd, DestroyerType, kernelVars
  <2>2. \A e \in RootEntry(a) : /\ inotify_wd_to_watch[e.wd] = e.path
                                /\ e.path = heap[a].path
    BY ListedEntries DEF RootEntry, TableInv
  <2>3. /\ MapsAgree'
        /\ \A w \in Wd :
             \/ inotify_wd_to_watch'[w] = inotify_wd_to_watch[w]
             \/ inotify_wd_to_watch'[w] = NoPath /\ \E e \in RootEntry(a) : e.wd = w
        /\ \A k \in Key :
             inotify_path_to_watch'[k] \in {inotify_path_to_watch[k], 0}
    BY <2>1, <2>2, ForgetAgrees DEF TableInv
  <2>4. \A v : Dropped(v)' <=> Dropped(v)
    BY <2>1 DEF Dropped
  <2>5. Given'
    BY <1>b, <2>1, <2>3 DEF TableInv, Given, TypeOK, KernelTypeOK
  <2>6. ListedBelow'
    BY <1>b, <2>1 DEF TableInv, ListedBelow
  <2>7. heap[a].path \in Registered
    BY <1>4, EndRemoves
  <2>8. ASSUME NEW b \in Addr, destroyer[b].pc = "unwatch",
               inotify_wd_to_watch[destroyer[b].at.wd] = destroyer[b].at.path
        PROVE  inotify_wd_to_watch'[destroyer[b].at.wd] = destroyer[b].at.path
    <3>1. Below(destroyer[b].at.path, heap[b].path) /\ Live(b)
      BY <2>8 DEF TableInv, ListedBelow, DestroyerHolds
    <3>2. destroyer[b].at.path # heap[a].path
      BY <2>7, <3>1, NoRootBelow
    <3>3. ~\E e \in RootEntry(a) : e.wd = destroyer[b].at.wd
      BY <2>2, <2>8, <3>2
    <3> QED
      BY <1>a, <2>3, <2>8, <3>3
  <2>9. KeptWatch'
    BY <1>a, <1>b, <2>1, <2>3, <2>4, <2>8 DEF TableInv, KeptWatch
  <2> QED
    BY <2>3, <2>5, <2>6, <2>9 DEF TableInv
<1> QED
  BY <1>1, <1>2, <1>3, <1>4 DEF DestroyerStep

(* inotify_unwatch_tree() starts a thread that has not looked at the       *)
(* tables yet.                                                             *)
LEMMA UnwatchKeepsTables ==
    ASSUME RegistryInv, TableInv, Unwatch,
           \A b \in Addr : destroyer[b].pc # "none" => heap'[b].path = heap[b].path
    PROVE  TableInv'
<1> USE DEF RegistryInv
<1>1. UNCHANGED <<kwatch, nextWd, tableVars>>
  BY DEF Unwatch, kernelVars
<1>2. CASE UNCHANGED destroyer
  BY <1>1, <1>2, KeepTables
<1>3. CASE destroyer' = [destroyer EXCEPT ![main.root].pc = "begin"]
  <2>1. \A b \in Addr : destroyer'[b] = destroyer[b] \/ destroyer'[b].pc = "begin"
    BY <1>3 DEF TypeOK, ThreadsTypeOK, DestroyerType
  <2>2. \A v : Dropped(v)' <=> Dropped(v)
    BY <1>1 DEF Dropped
  <2>3. MapsAgree' /\ Given'
    BY <1>1, <2>1 DEF TableInv, MapsAgree, Given, tableVars
  <2>4. ListedBelow'
    BY <2>1 DEF TableInv, ListedBelow
  <2>5. KeptWatch'
    BY <1>1, <2>1, <2>2 DEF TableInv, KeptWatch, tableVars
  <2> QED
    BY <2>3, <2>4, <2>5 DEF TableInv
<1> QED
  BY <1>2, <1>3 DEF Unwatch

(* Every step keeps the table invariant.                                   *)
LEMMA StepKeepsTables ==
    ASSUME RegistryInv, Disjoint, TableInv, [Next]_vars
    PROVE  TableInv'
<1>1. TypeOK
  BY DEF RegistryInv
<1>2. \A a \in Addr : destroyer[a].pc # "none" => heap'[a].path = heap[a].path
  BY PathsKept
<1>3. CASE TablesAlone
  BY <1>1, <1>2, <1>3, KeepTables DEF TablesAlone
<1>4. CASE Environment
  BY <1>1, <1>2, <1>4, FsWatches, KeepTables DEF Environment, threadVars, TypeOK
<1>5. CASE LostDirectory
  <2>1. CASE UNCHANGED <<kwatch, tableVars>>
    BY <1>1, <1>2, <1>5, <2>1, KeepTables DEF LostDirectory, threadVars
  <2>2. CASE LET gone == GoneWith(EventPath, Head(batch).kind)
             IN kwatch' = RmWatch({e.wd : e \in gone}) /\ Forget(gone)
    <3> DEFINE gone == GoneWith(EventPath, Head(batch).kind)
    <3>1. gone \subseteq Entries
      BY DEF GoneWith
    <3>2. kwatch' = RmWatch({e.wd : e \in gone}) /\ Forget(gone)
      BY <2>2
    <3>3. UNCHANGED <<nextWd, destroyer>>
      BY <1>5 DEF LostDirectory, threadVars
    <3> HIDE DEF gone
    <3> QED
      BY <1>1, <1>2, <3>1, <3>2, <3>3, RetireKeeps
  <2> QED
    BY <1>5, <2>1, <2>2 DEF LostDirectory
<1>6. ASSUME NEW c \in Cleaner, MemcleanRemove(c) PROVE TableInv'
  <2> DEFINE gone == {e \in Entries : e.path = cleaner[c].path}
  <2>1. kwatch' = RmWatch({e.wd : e \in gone}) /\ Forget(gone)
    BY <1>6 DEF MemcleanRemove
  <2>2. UNCHANGED <<nextWd, destroyer>> /\ gone \subseteq Entries
    BY <1>6 DEF MemcleanRemove
  <2> HIDE DEF gone
  <2> QED
    BY <1>1, <1>2, <2>1, <2>2, RetireKeeps
<1> QED
  BY <1>1, <1>2, <1>3, <1>4, <1>5, <1>6, WriterSteps, VisitKeeps,
     UnwatchKeepsTables, DestroyerKeepsTables

(* The tables agree in every interleaving of walks, events, cleanups and   *)
(* destructions.                                                           *)
LEMMA TableInvariant == Spec => []TableInv
<1>1. Init => TableInv
  <2> SUFFICES ASSUME Init PROVE TableInv
    OBVIOUS
  <2>1. /\ kwatch = [p \in Path |-> NoWatch] /\ nextWd = 1
        /\ inotify_path_to_watch = [k \in Key |-> 0]
        /\ destroyer = [a \in Addr |-> NoDestroyer]
    BY DEF Init, KernelInit
  <2>2. \A a \in Addr : destroyer[a].pc = "none"
    BY <2>1 DEF NoDestroyer
  <2> QED
    BY <2>1, <2>2 DEF TableInv, MapsAgree, Given, ListedBelow, KeptWatch, NoWatch
<1>2. RegistryInv /\ Disjoint /\ TableInv /\ [Next]_vars => TableInv'
  BY StepKeepsTables
<1> QED
  BY <1>1, <1>2, RegistryInvariant, DisjointInvariant, PTL DEF Spec

(* Whatever path the path table maps to a descriptor, the descriptor table *)
(* maps back, although _destroy_root() looks an entry up, drops the lock,  *)
(* tells the kernel and only then removes it, while walks, the event       *)
(* handler, memclean and other destructions write the same tables.         *)
THEOREM TablesAgree == Spec => []MapsAgree
<1>1. TableInv => MapsAgree
  BY DEF TableInv
<1> QED
  BY <1>1, TableInvariant, PTL

-----------------------------------------------------------------------------
(* Preservation of the watch invariant.                                    *)

(* Roots come from requests, whatever runs between the checks.             *)
LEMMA KeepAsked ==
    ASSUME RegistryInv, RootsStay, RootsAsked, [Next]_vars
    PROVE  RootsAsked'
<1> DEFINE Checking == {"watch_check", "watch_open", "watch_insert"}
<1>1. TypeOK
  BY DEF RegistryInv
<1>2. Registered' \subseteq WatchPaths
  <2>1. CASE UNCHANGED <<inotify_roots, inotify_num_watched_roots>>
    BY <2>1, SameRoots DEF RootsAsked
  <2>2. CASE WatchInsert
    BY <2>2, InsertAdds DEF RootsAsked, WatchInsert
  <2>3. ASSUME NEW a \in Addr, DestroyEnd(a) PROVE Registered' \subseteq WatchPaths
    BY <2>3, EndRemoves DEF RootsAsked
  <2> QED
    BY <2>1, <2>2, <2>3, TableSteps
<1>3. main'.pc \in Checking => main'.path \in WatchPaths
  <2>1. CASE Elsewhere
    BY <2>1 DEF Elsewhere, RootsAsked
  <2>2. CASE Turn
    BY <2>2 DEF Turn, LoopPc
  <2>3. CASE \E a \in Addr : DestroyerStep(a)
    BY <2>3 DEF DestroyerStep, DestroyBegin, DestroyScan, DestroyUnwatch,
                DestroyForget, DestroyEnd, DestroyDump, RootsAsked
  <2>4. CASE LookupEvent \/ InotifyEnqueue
    BY <1>1, <2>4, DropPc
    DEF LookupEvent, InotifyEnqueue, TypeOK, MainTypeOK, MainType
  <2>5. CASE NewDirectory \/ LostDirectory \/ GetEvents \/ WatchDump \/ WatchInsert
    BY <1>1, <2>5, Readers DEF LoopPc
  <2>6. CASE Unwatch
    <3>1. CASE UNCHANGED main
      BY <2>6, <3>1 DEF Unwatch
    <3>2. CASE main'.pc \in LoopPc
      BY <3>2 DEF LoopPc
    <3> QED
      BY <2>6, <3>1, <3>2, AnswerPc DEF Unwatch
  <2>7. CASE PauseTree \/ UnpauseTree
    BY <1>1, <2>7, AnswerPc, ContinuePc DEF PauseTree, UnpauseTree, LoopPc
  <2>8. CASE InotifyDequeue
    BY <2>8, AnswerPc DEF InotifyDequeue, LoopPc
  <2>9. CASE WatchCheck
    BY <1>1, <2>9, AnswerPc, ContinuePc DEF WatchCheck, LoopPc, RootsAsked
  <2>10. CASE WatchOpen
    BY <1>1, <2>10, AnswerPc, ContinuePc DEF WatchOpen, LoopPc, RootsAsked
  <2>11. ASSUME NEW r \in Requests, ZmqDispatchEvent(r), main'.pc \in Checking
         PROVE  main'.path \in WatchPaths
    <3>1. main'.pc \notin LoopPc
      BY <2>11 DEF LoopPc
    <3>2. EventWatch(r)
      <4>1. ~EventUnwatch(r)
        BY <1>1, <2>11, <3>1, AnswerPc, ContinuePc DEF EventUnwatch
      <4>2. ~EventOnRoot(r)
        BY <1>1, <2>11, <3>1, AnswerPc, ContinuePc DEF EventOnRoot
      <4>3. ~EventQuery(r)
        BY <3>1, AnswerPc DEF EventQuery
      <4> QED
        BY <2>11, <4>1, <4>2, <4>3 DEF ZmqDispatchEvent
    <3>3. main'.path = IF r.path = Slash THEN r.path ELSE StripSlash(r.path)
      BY <1>1, <3>1, <3>2, AnswerPc, ContinuePc DEF EventWatch
    <3>4. r.path \in WatchPaths
      BY <3>2 DEF EventWatch, WatchPaths
    <3> QED
      BY <3>3, <3>4 DEF RootsStay
  <2> QED
    BY <1>1, <2>1, <2>2, <2>3, <2>4, <2>5, <2>6, <2>7, <2>8, <2>9, <2>10, <2>11,
       StepKinds
<1> QED
  BY <1>2, <1>3 DEF RootsAsked

(* A step after which every watch is one that was there before, carried by *)
(* a directory that may move or in its place, and either known as before   *)
(* or on the directory of a root.                                          *)
LEMMA KeepWatches ==
    ASSUME TypeOK, RootsStay, WatchInv, RootsAsked', OneWatch',
           UNCHANGED nextWd,
           \A w \in Wd : inotify_wd_to_watch'[w] \in {inotify_wd_to_watch[w], NoPath},
           \A d \in Path : kwatch'[d].wd # 0 =>
               \E x \in Path :
                   LET wd == kwatch'[d].wd
                   IN /\ kwatch[x].wd = wd
                      /\ x = d \/ x \notin Stable
                      /\ \/ inotify_wd_to_watch'[wd] = inotify_wd_to_watch[wd]
                         \/ inotify_wd_to_watch'[wd] = NoPath /\ d \in WatchPaths
    PROVE  WatchInv'
<1> SUFFICES ASSUME NEW d \in Path, kwatch'[d].wd # 0
             PROVE  LET wd == kwatch'[d].wd
                    IN /\ inotify_wd_to_watch'[wd] \in Stable =>
                            inotify_wd_to_watch'[wd] = d
                       /\ d \notin WatchPaths => inotify_wd_to_watch'[wd] # NoPath
  BY DEF WatchInv, StableWatch, KnownGiven, DescriptorsKnown, WatchLive, WatchPaths
<1> DEFINE wd == kwatch'[d].wd
<1> PICK x \in Path :
        /\ kwatch[x].wd = wd
        /\ x = d \/ x \notin Stable
        /\ \/ inotify_wd_to_watch'[wd] = inotify_wd_to_watch[wd]
           \/ inotify_wd_to_watch'[wd] = NoPath /\ d \in WatchPaths
  OBVIOUS
<1> HIDE DEF wd
<1>0. wd # 0
  BY DEF wd
<1>1. NoPath \notin Stable
  BY KernelAssumption, PathAssumption
<1>2. inotify_wd_to_watch[wd] \in Stable => inotify_wd_to_watch[wd] = x
  BY <1>0 DEF WatchInv, StableWatch
<1>3. x \notin WatchPaths => inotify_wd_to_watch[wd] # NoPath
  BY <1>0 DEF WatchInv, DescriptorsKnown, WatchLive, WatchPaths
<1>4. x \in WatchPaths => x = d
  BY DEF RootsStay
<1>5. inotify_wd_to_watch'[wd] \in Stable => inotify_wd_to_watch'[wd] = d
  BY <1>1, <1>2
<1>6. d \notin WatchPaths => inotify_wd_to_watch'[wd] # NoPath
  BY <1>3, <1>4
<1> QED
  BY <1>5, <1>6 DEF wd

(* A directory that a walk visits is known afterwards.                     *)
LEMMA VisitKeepsWatches ==
    ASSUME TypeOK, TableInv, RootsStay, WatchInv, RootsAsked',
           NEW w \in Walker, WalkerVisit(w)
    PROVE  WatchInv'
<1> DEFINE p == walker[w].path
           d == Resolve(p)
           wd == WdFor(d)
<1>1. CASE UNCHANGED <<kwatch, nextWd, tableVars>>
  <2>1. OneWatch'
    BY <1>1 DEF WatchInv, OneWatch
  <2> QED
    BY <1>1, <2>1, KeepWatches DEF tableVars
<1>2. CASE /\ p \in Key /\ d \in Path /\ wd \in Wd
           /\ AddWatch(d, heap[walker[w].root].mask)
           /\ RecordWatch(p, wd)
  <2>1. /\ kwatch'[d].wd = wd
        /\ \A x \in Path : x # d => kwatch'[x] = kwatch[x]
        /\ wd = IF kwatch[d].wd # 0 THEN kwatch[d].wd ELSE nextWd
    BY <1>2 DEF AddWatch, WdFor, TypeOK, KernelTypeOK
  <2>2. \A v \in Wd : inotify_wd_to_watch'[v] =
          IF v = wd /\ inotify_wd_to_watch[v] = NoPath THEN p ELSE inotify_wd_to_watch[v]
    BY <1>2 DEF RecordWatch, tableVars, TypeOK, TablesTypeOK
  <2>3. \A x \in Path : x # d => kwatch[x].wd # wd \/ wd = 0
    <3>1. CASE kwatch[d].wd # 0
      BY <1>2, <2>1, <3>1 DEF WatchInv, OneWatch
    <3>2. CASE kwatch[d].wd = 0
      BY <2>1, <3>2 DEF TableInv, Given, TypeOK, KernelTypeOK
    <3> QED
      BY <3>1, <3>2
  <2>4. p # NoPath /\ 0 \notin Wd /\ (p \in Stable => d = p)
    BY <1>2, NoPathIsNoKey, KernelAssumption, PathAssumption DEF Wd, Resolve
  <2>5. \A x \in Path : kwatch[x].wd # 0 => kwatch[x].wd \in Wd
    BY KernelAssumption DEF TypeOK, KernelTypeOK, KWatch, Wd
  <2>6. kwatch[d].wd = 0 => inotify_wd_to_watch[wd] = NoPath
    <3>1. kwatch[d].wd = 0 => ~(wd < nextWd)
      BY <2>1 DEF TypeOK, KernelTypeOK
    <3> QED
      BY <1>2, <3>1 DEF WatchInv, KnownGiven, WatchLive
  <2>a. /\ nextWd' = IF kwatch[d].wd # 0 THEN nextWd ELSE nextWd + 1
        /\ nextWd \in Nat /\ \A x \in Path : kwatch[x].wd < nextWd /\ kwatch[x].wd \in Nat
    BY <1>2, KernelAssumption
    DEF AddWatch, TypeOK, KernelTypeOK, KWatch, TableInv, Given
  <2>b. wd \in Wd
    BY <1>2
  <2>c. d \in Path
    BY <1>2
  <2> HIDE DEF wd, d, p
  <2>7. OneWatch'
    BY <2>1, <2>3, <2>4, <2>b DEF WatchInv, OneWatch
  <2>8. KnownGiven'
    <3>1. nextWd <= nextWd' /\ wd < nextWd' /\ nextWd' \in Nat
      BY <2>1, <2>a, <2>c
    <3>2. \A v \in Wd : v \in Nat
      BY KernelAssumption DEF Wd
    <3> QED
      BY <2>2, <2>a, <3>1, <3>2 DEF WatchInv, KnownGiven, WatchLive
  <2>9. ASSUME NEW x \in Path, kwatch'[x].wd # 0
        PROVE  LET v == kwatch'[x].wd
               IN /\ inotify_wd_to_watch'[v] \in Stable => inotify_wd_to_watch'[v] = x
                  /\ x \notin WatchPaths => inotify_wd_to_watch'[v] # NoPath
    <3>1. CASE x = d
      <4>1. kwatch'[x].wd = wd
        BY <2>1, <3>1
      <4>2. inotify_wd_to_watch'[wd] # NoPath
        BY <2>2, <2>4, <2>b
      <4>3. ASSUME inotify_wd_to_watch'[wd] \in Stable PROVE inotify_wd_to_watch'[wd] = x
        <5>1. CASE inotify_wd_to_watch[wd] = NoPath
          BY <2>2, <2>4, <2>b, <3>1, <4>3, <5>1
        <5>2. CASE inotify_wd_to_watch[wd] # NoPath
          <6>1. kwatch[d].wd = wd /\ wd # 0
            BY <2>1, <2>4, <2>6, <2>b, <5>2
          <6>2. inotify_wd_to_watch'[wd] = inotify_wd_to_watch[wd]
            BY <2>2, <2>b, <5>2
          <6> QED
            BY <2>c, <3>1, <4>3, <6>1, <6>2 DEF WatchInv, StableWatch
        <5> QED
          BY <5>1, <5>2
      <4> QED
        BY <4>1, <4>2, <4>3
    <3>2. CASE x # d
      <4>1. kwatch'[x] = kwatch[x] /\ kwatch[x].wd \in Wd /\ kwatch[x].wd # wd
        BY <2>1, <2>3, <2>4, <2>5, <2>9, <2>b, <3>2
      <4>2. inotify_wd_to_watch'[kwatch[x].wd] = inotify_wd_to_watch[kwatch[x].wd]
        BY <2>2, <4>1
      <4> QED
        BY <2>9, <4>1, <4>2
        DEF WatchInv, StableWatch, DescriptorsKnown, WatchLive, WatchPaths
    <3> QED
      BY <3>1, <3>2
  <2>10. StableWatch'
    BY <2>9 DEF StableWatch
  <2>11. DescriptorsKnown'
    BY <2>9 DEF DescriptorsKnown, WatchLive, WatchPaths
  <2> QED
    BY <2>7, <2>8, <2>10, <2>11 DEF WatchInv
<1> QED
  BY <1>1, <1>2, VisitWatches

(* Dropping descriptors leaves the others where they are.                  *)
LEMMA RmWatches ==
    ASSUME NEW W, kwatch' = RmWatch(W)
    PROVE  /\ \A d \in Path : \/ kwatch'[d].wd = 0
                              \/ kwatch'[d] = kwatch[d] /\ kwatch[d].wd \notin W
           /\ OneWatch => OneWatch'
<1>1. \A d \in Path : \/ kwatch'[d].wd = 0
                      \/ kwatch'[d] = kwatch[d] /\ kwatch[d].wd \notin W
  BY DEF RmWatch, NoWatch
<1>2. ASSUME OneWatch, NEW d1 \in Path, NEW d2 \in Path,
             kwatch'[d1].wd = kwatch'[d2].wd, kwatch'[d1].wd # 0
      PROVE  d1 = d2
  <2>1. kwatch'[d1] = kwatch[d1] /\ kwatch'[d2] = kwatch[d2]
    BY <1>1, <1>2
  <2> QED
    BY <1>2, <2>1 DEF OneWatch
<1>3. OneWatch => OneWatch'
  BY <1>2 DEF OneWatch
<1> QED
  BY <1>1, <1>3

(* Watches leave both tables and the kernel together.                      *)
LEMMA RetireKeepsWatches ==
    ASSUME TypeOK, TableInv, RootsStay, WatchInv, RootsAsked',
           NEW S \in SUBSET Entries, Forget(S),
           kwatch' = RmWatch({e.wd : e \in S}), UNCHANGED nextWd
    PROVE  WatchInv'
<1>1. \A e \in S : inotify_wd_to_watch[e.wd] \in {e.path, NoPath}
  BY ListedEntries DEF TableInv
<1>2. \A w \in Wd :
        \/ inotify_wd_to_watch'[w] = inotify_wd_to_watch[w]
        \/ inotify_wd_to_watch'[w] = NoPath /\ \E e \in S : e.wd = w
  BY <1>1, ForgetAgrees DEF TableInv
<1>3. /\ OneWatch'
      /\ \A d \in Path : \/ kwatch'[d].wd = 0
                         \/ kwatch'[d] = kwatch[d] /\ ~\E e \in S : e.wd = kwatch[d].wd
  BY RmWatches DEF WatchInv
<1>4. \A d \in Path : kwatch[d].wd # 0 => kwatch[d].wd \in Wd
  BY KernelAssumption DEF TypeOK, KernelTypeOK, KWatch, Wd
<1>5. ASSUME NEW d \in Path, kwatch'[d].wd # 0
      PROVE  \E x \in Path :
               LET wd == kwatch'[d].wd
               IN /\ kwatch[x].wd = wd
                  /\ x = d \/ x \notin Stable
                  /\ \/ inotify_wd_to_watch'[wd] = inotify_wd_to_watch[wd]
                     \/ inotify_wd_to_watch'[wd] = NoPath /\ d \in WatchPaths
  <2>1. kwatch'[d] = kwatch[d] /\ ~\E e \in S : e.wd = kwatch[d].wd
    BY <1>3, <1>5
  <2>2. kwatch[d].wd \in Wd
    BY <1>4, <1>5, <2>1
  <2>3. inotify_wd_to_watch'[kwatch[d].wd] = inotify_wd_to_watch[kwatch[d].wd]
    BY <1>2, <2>1, <2>2
  <2> QED
    BY <2>1, <2>3
<1>6. \A w \in Wd : inotify_wd_to_watch'[w] \in {inotify_wd_to_watch[w], NoPath}
  BY <1>2
<1> QED
  BY <1>3, <1>5, <1>6, KeepWatches

(* A step of _destroy_root(): the only watch that becomes unknown is that  *)
(* of the root's own directory.                                            *)
LEMMA DestroyerKeepsWatches ==
    ASSUME RegistryInv, TableInv, RootsStay, WatchInv, RootsAsked',
           NEW a \in Addr, DestroyerStep(a)
    PROVE  WatchInv'
<1> USE DEF RegistryInv
<1>1. UNCHANGED nextWd
  BY DEF DestroyerStep, DestroyBegin, DestroyScan, DestroyUnwatch, DestroyForget,
         DestroyEnd, DestroyDump, kernelVars
<1>2. \A d \in Path : kwatch[d].wd # 0 => kwatch[d].wd \in Wd
  BY KernelAssumption DEF TypeOK, KernelTypeOK, KWatch, Wd
<1>3. CASE DestroyBegin(a) \/ DestroyScan(a) \/ DestroyDump(a)
  <2>1. UNCHANGED <<kwatch, tableVars>>
    BY <1>3 DEF DestroyBegin, DestroyScan, DestroyDump, kernelVars
  <2>2. OneWatch'
    BY <2>1 DEF WatchInv, OneWatch
  <2> QED
    BY <1>1, <2>1, <2>2, KeepWatches DEF tableVars
<1>4. CASE DestroyUnwatch(a)
  <2>1. UNCHANGED tableVars /\ kwatch' = RmWatch({destroyer[a].at.wd})
    BY <1>4 DEF DestroyUnwatch
  <2>2. OneWatch' /\ \A d \in Path : kwatch'[d].wd = 0 \/ kwatch'[d] = kwatch[d]
    BY <2>1, RmWatches DEF WatchInv
  <2>3. UNCHANGED inotify_wd_to_watch
    BY <2>1 DEF tableVars
  <2> QED
    BY <1>1, <2>2, <2>3, KeepWatches
<1>5. CASE DestroyForget(a)
  <2> DEFINE e == destroyer[a].at
  <2>1. UNCHANGED kwatch /\ Forget({e}) /\ destroyer[a].pc = "forget"
    BY <1>5 DEF DestroyForget, kernelVars
  <2>2. inotify_wd_to_watch[e.wd] \in {e.path, NoPath} /\ Dropped(e.wd)
    BY <2>1 DEF TableInv, KeptWatch
  <2>3. \A w \in Wd : \/ inotify_wd_to_watch'[w] = inotify_wd_to_watch[w]
                      \/ inotify_wd_to_watch'[w] = NoPath /\ w = e.wd
    BY <2>1, <2>2, ForgetAgrees DEF TableInv
  <2>4. OneWatch'
    BY <2>1 DEF WatchInv, OneWatch
  <2> HIDE DEF e
  <2> QED
    BY <1>1, <1>2, <2>1, <2>2, <2>3, <2>4, KeepWatches DEF Dropped
<1>6. CASE DestroyEnd(a)
  <2>1. UNCHANGED kwatch /\ Forget(RootEntry(a))
    BY <1>6 DEF DestroyEnd, kernelVars
  <2>2. \A e \in RootEntry(a) : /\ inotify_wd_to_watch[e.wd] = e.path
                                /\ e.path = heap[a].path
    BY ListedEntries DEF RootEntry, TableInv
  <2>3. \A w \in Wd :
          \/ inotify_wd_to_watch'[w] = inotify_wd_to_watch[w]
          \/ inotify_wd_to_watch'[w] = NoPath /\ \E e \in RootEntry(a) : e.wd = w
    BY <2>1, <2>2, ForgetAgrees DEF TableInv
  <2>4. heap[a].path \in WatchPaths /\ heap[a].path \in Stable
    BY <1>6, EndRemoves DEF WatchInv, RootsAsked, RootsStay, Registered
  <2>5. ASSUME NEW d \in Path, kwatch[d].wd # 0,
               \E e \in RootEntry(a) : e.wd = kwatch[d].wd
        PROVE  d \in WatchPaths
    BY <2>2, <2>4, <2>5 DEF WatchInv, StableWatch
  <2>6. OneWatch'
    BY <2>1 DEF WatchInv, OneWatch
  <2> QED
    BY <1>1, <1>2, <2>1, <2>3, <2>5, <2>6, KeepWatches
<1> QED
  BY <1>3, <1>4, <1>5, <1>6 DEF DestroyerStep

(* Every step keeps the watch invariant.                                   *)
LEMMA StepKeepsWatches ==
    ASSUME RootsStay, RegistryInv, TableInv, WatchInv, [Next]_vars
    PROVE  WatchInv'
<1>1. TypeOK
  BY DEF RegistryInv
<1>2. RootsAsked'
  BY KeepAsked DEF WatchInv
<1>3. CASE TablesAlone \/ Unwatch
  <2>1. UNCHANGED <<kwatch, nextWd, inotify_wd_to_watch>>
    BY <1>3 DEF TablesAlone, Unwatch, kernelVars, tableVars
  <2>2. OneWatch'
    BY <2>1 DEF WatchInv, OneWatch
  <2> QED
    BY <1>1, <1>2, <2>1, <2>2, KeepWatches
<1>4. CASE Environment
  <2>1. UNCHANGED inotify_wd_to_watch /\ FsStep
    BY <1>4 DEF Environment, tableVars
  <2> QED
    BY <1>1, <1>2, <2>1, FsWatches, KeepWatches DEF WatchInv, TypeOK
<1>5. CASE LostDirectory
  <2>1. UNCHANGED nextWd
    BY <1>5 DEF LostDirectory
  <2>2. CASE UNCHANGED <<kwatch, tableVars>>
    <3>1. OneWatch'
      BY <2>2 DEF WatchInv, OneWatch
    <3> QED
      BY <1>1, <1>2, <2>1, <2>2, <3>1, KeepWatches DEF tableVars
  <2>3. CASE LET gone == GoneWith(EventPath, Head(batch).kind)
             IN kwatch' = RmWatch({e.wd : e \in gone}) /\ Forget(gone)
    <3> DEFINE gone == GoneWith(EventPath, Head(batch).kind)
    <3>1. kwatch' = RmWatch({e.wd : e \in gone}) /\ Forget(gone) /\ gone \subseteq Entries
      BY <2>3 DEF GoneWith
    <3> HIDE DEF gone
    <3> QED
      BY <1>1, <1>2, <2>1, <3>1, RetireKeepsWatches
  <2> QED
    BY <1>5, <2>2, <2>3 DEF LostDirectory
<1>6. ASSUME NEW c \in Cleaner, MemcleanRemove(c) PROVE WatchInv'
  <2> DEFINE gone == {e \in Entries : e.path = cleaner[c].path}
  <2>1. kwatch' = RmWatch({e.wd : e \in gone}) /\ Forget(gone) /\ gone \subseteq Entries
    BY <1>6 DEF MemcleanRemove
  <2>2. UNCHANGED nextWd
    BY <1>6 DEF MemcleanRemove
  <2> HIDE DEF gone
  <2> QED
    BY <1>1, <1>2, <2>1, <2>2, RetireKeepsWatches
<1> QED
  BY <1>1, <1>2, <1>3, <1>4, <1>5, <1>6, WriterSteps, VisitKeepsWatches,
     DestroyerKeepsWatches

(* The invariant of the watches holds if nobody moves or removes the       *)
(* directories that clients watch as roots.                                *)
LEMMA WatchInvariant ==
    ASSUME RootsStay
    PROVE  Spec => []WatchInv
<1>1. Init => WatchInv
  <2> SUFFICES ASSUME Init PROVE WatchInv
    OBVIOUS
  <2>1. /\ kwatch = [p \in Path |-> NoWatch] /\ Registered = {} /\ main.pc = "poll"
        /\ inotify_wd_to_watch = [wd \in Wd |-> NoPath]
    BY DEF Init, KernelInit, Registered, IdleMain
  <2> QED
    BY <2>1 DEF WatchInv, OneWatch, StableWatch, RootsAsked, KnownGiven, WatchLive,
                DescriptorsKnown, NoWatch
<1>2. RegistryInv /\ TableInv /\ WatchInv /\ [Next]_vars => WatchInv'
  BY StepKeepsWatches
<1> QED
  BY <1>1, <1>2, RegistryInvariant, TableInvariant, PTL DEF Spec

(* If nobody moves or removes the directories that clients watch as roots, *)
(* every descriptor the kernel reports events for is in the descriptor     *)
(* table, those of the roots' own directories excepted: no interleaving of *)
(* walks, renames, cleanups and destructions leaks a watch.                *)
THEOREM WatchesStayKnown ==
    ASSUME RootsStay
    PROVE  Spec => []DescriptorsKnown
<1>1. Spec => []WatchInv
  BY WatchInvariant
<1>2. WatchInv => DescriptorsKnown
  BY DEF WatchInv
<1> QED
  BY <1>1, <1>2, PTL

-----------------------------------------------------------------------------
(* What is left when _destroy_root() ends.                                 *)

Emptying == {"scan", "unwatch", "forget"}

(* While a root's tree is taken out of the tables, the only walks in it    *)
(* are its own: none is left over from an earlier Root that was freed, and *)
(* none belongs to a root that the unanchored search took for the path's.  *)
(* The root is not "/", whose entries do not start with "//".              *)
OwnWalks ==
    \A a \in Addr :
        destroyer[a].pc \in Emptying =>
            /\ heap[a].path # Slash
            /\ \A w \in Walker :
                 walker[w].pc = "visit" /\ Below(walker[w].path, heap[a].path) =>
                     walker[w].root = a

(* The list of keys that was taken once still names every entry below the  *)
(* root, but for the one that is on its way out.                           *)
ListedAll ==
    \A a \in Addr :
        destroyer[a].pc \in Emptying =>
            \A e \in Entries :
                Below(e.path, heap[a].path) =>
                    \/ e \in destroyer[a].todo
                    \/ destroyer[a].pc # "scan" /\ e = destroyer[a].at

(* Taking Watches out of the tables adds no entry.                         *)
LEMMA ForgetEntries ==
    ASSUME NEW S, Forget(S)
    PROVE  Entries' = {e \in Entries : ~\E f \in S : f.path = e.path}
<1>1. \A k \in Key : inotify_path_to_watch'[k] =
        IF \E f \in S : f.path = k THEN 0 ELSE inotify_path_to_watch[k]
  BY DEF Forget
<1> QED
  BY <1>1 DEF Entries

(* A visit adds no entry to the tree of a root that is being emptied: its  *)
(* own walks see the mark that inotify_unwatch_tree() set before.          *)
LEMMA VisitAdds ==
    ASSUME RegistryInv, OwnWalks, NEW w \in Walker, WalkerVisit(w),
           NEW a \in Addr, destroyer[a].pc \in Emptying,
           NEW e \in Entries', Below(e.path, heap[a].path)
    PROVE  e \in Entries
<1>1. CASE UNCHANGED tableVars
  BY <1>1 DEF Entries, tableVars
<1>2. ASSUME RecordWatch(walker[w].path, WdFor(Resolve(walker[w].path))),
             NEW destroy \in DestroyReads(walker[w].root), ~VisitBails(w, destroy)
      PROVE  e \in Entries
  <2>1. walker[w].root # a
    BY <1>2 DEF VisitBails, DestroyReads, RegistryInv, DestroyerHolds, Emptying
  <2>2. e.path # walker[w].path
    BY <2>1 DEF OwnWalks, WalkerVisit
  <2>3. \A k \in Key : k # walker[w].path =>
          inotify_path_to_watch'[k] = inotify_path_to_watch[k]
    BY <1>2 DEF RecordWatch, tableVars, RegistryInv, TypeOK, TablesTypeOK
  <2> QED
    BY <2>2, <2>3 DEF Entries
<1> QED
  BY <1>1, <1>2 DEF WalkerVisit

(* A step that adds no entry to the trees that are being emptied, and lets *)
(* the threads that empty them be.                                         *)
LEMMA KeepListed ==
    ASSUME ListedAll,
           \A a \in Addr : destroyer[a].pc # "none" => heap'[a].path = heap[a].path,
           \A a \in Addr : destroyer'[a] = destroyer[a] \/ destroyer'[a].pc = "begin",
           \A a \in Addr : destroyer[a].pc \in Emptying =>
               \A e \in Entries' : Below(e.path, heap[a].path) => e \in Entries
    PROVE  ListedAll'
  BY DEF ListedAll, Emptying

(* A step of _destroy_root(): a key leaves the list when its Watch is      *)
(* taken for removal, or when its entry is gone already.                   *)
LEMMA DestroyerKeepsListed ==
    ASSUME RegistryInv, TableInv, ListedAll, NEW a \in Addr, DestroyerStep(a)
    PROVE  ListedAll'
<1> USE DEF RegistryInv
<1>a. \A b \in Addr : /\ b # a => destroyer'[b] = destroyer[b]
                      /\ heap'[b].path = heap[b].path
  <2>1. heap' = heap \/ heap' = [heap EXCEPT ![a].queue = <<>>]
    BY DEF DestroyerStep, DestroyBegin, DestroyScan, DestroyUnwatch, DestroyForget,
           DestroyEnd, DestroyDump, rootVars
  <2>2. \A b \in Addr : heap'[b].path = heap[b].path
    BY <2>1, QueueWrite
  <2> QED
    BY <2>2 DEF DestroyerStep, DestroyBegin, DestroyScan, DestroyUnwatch,
                DestroyForget, DestroyEnd, DestroyDump, TypeOK, ThreadsTypeOK
<1>b. destroyer \in [Addr -> DestroyerType]
  BY DEF TypeOK, ThreadsTypeOK
<1>c. Entries' \subseteq Entries
  <2>1. CASE UNCHANGED tableVars
    BY <2>1 DEF Entries, tableVars
  <2>2. ASSUME NEW S, Forget(S) PROVE Entries' \subseteq Entries
    BY <2>2, ForgetEntries
  <2> QED
    BY <2>1, <2>2 DEF DestroyerStep, DestroyBegin, DestroyScan, DestroyUnwatch,
                      DestroyForget, DestroyEnd, DestroyDump
<1> SUFFICES ASSUME destroyer'[a].pc \in Emptying,
                    NEW e \in Entries', Below(e.path, heap[a].path)
             PROVE  \/ e \in destroyer'[a].todo
                    \/ destroyer'[a].pc # "scan" /\ e = destroyer'[a].at
  BY <1>a, <1>c DEF ListedAll
<1>d. e \in Entries /\ e \in Entry /\ inotify_path_to_watch[e.path] = e.wd /\ e.wd # 0
  BY <1>c, ListedEntries, KernelAssumption DEF TableInv, Wd
<1>1. CASE DestroyBegin(a)
  BY <1>b, <1>d, <1>1 DEF DestroyBegin, DestroyerType, SubPaths
<1>2. CASE DestroyScan(a)
  <2>1. e \in destroyer[a].todo
    BY <1>d, <1>2 DEF DestroyScan, ListedAll, Emptying
  <2>2. PICK f \in destroyer[a].todo :
          LET wd == inotify_path_to_watch[f.path]
          IN \/ /\ wd = 0 \/ KeyFreed(f)
                /\ destroyer' = [destroyer EXCEPT ![a].todo = @ \ {f}]
             \/ /\ wd # 0
                /\ destroyer' = [destroyer EXCEPT
                      ![a].pc = "unwatch",
                      ![a].todo = @ \ {f},
                      ![a].at = [path |-> f.path, wd |-> wd]]
    BY <1>2 DEF DestroyScan
  <2>3. destroyer'[a].todo = destroyer[a].todo \ {f}
    BY <1>b, <2>2 DEF DestroyerType
  <2>4. CASE e = f
    <3>1. ~(inotify_path_to_watch[f.path] = 0 \/ KeyFreed(f))
      BY <1>d, <2>4 DEF KeyFreed
    <3>2. destroyer' = [destroyer EXCEPT
             ![a].pc = "unwatch",
             ![a].todo = @ \ {f},
             ![a].at = [path |-> f.path, wd |-> inotify_path_to_watch[f.path]]]
      BY <2>2, <3>1
    <3>3. /\ destroyer'[a].pc = "unwatch"
          /\ destroyer'[a].at = [path |-> f.path, wd |-> inotify_path_to_watch[f.path]]
      BY <1>b, <3>2 DEF DestroyerType
    <3>4. e = [path |-> e.path, wd |-> e.wd]
      BY <1>d DEF Entry
    <3> QED
      BY <1>d, <2>4, <3>3, <3>4
  <2> QED
    BY <2>1, <2>3, <2>4
<1>3. CASE DestroyUnwatch(a)
  <2>1. /\ destroyer[a].pc = "unwatch" /\ destroyer'[a].pc = "forget"
        /\ destroyer'[a].at = destroyer[a].at /\ destroyer'[a].todo = destroyer[a].todo
    BY <1>b, <1>3 DEF DestroyUnwatch, DestroyerType
  <2> QED
    BY <1>d, <2>1 DEF ListedAll, Emptying
<1>4. CASE DestroyForget(a)
  <2>1. /\ destroyer[a].pc = "forget" /\ destroyer'[a].todo = destroyer[a].todo
        /\ Forget({destroyer[a].at})
    BY <1>b, <1>4 DEF DestroyForget, DestroyerType
  <2>2. e # destroyer[a].at
    BY <2>1, ForgetEntries
  <2> QED
    BY <1>d, <2>1, <2>2 DEF ListedAll, Emptying
<1>5. CASE DestroyEnd(a) \/ DestroyDump(a)
  BY <1>b, <1>5 DEF DestroyEnd, DestroyDump, NoDestroyer, Emptying, DestroyerType
<1> QED
  BY <1>1, <1>2, <1>3, <1>4, <1>5 DEF DestroyerStep

(* Every step keeps the list complete.                                     *)
LEMMA StepKeepsListed ==
    ASSUME RegistryInv, TableInv, OwnWalks, ListedAll, [Next]_vars
    PROVE  ListedAll'
<1>1. TypeOK
  BY DEF RegistryInv
<1>2. \A a \in Addr : destroyer[a].pc # "none" => heap'[a].path = heap[a].path
  BY PathsKept
<1>3. CASE TablesAlone \/ Environment \/ Unwatch
  <2>1. Entries' = Entries
    BY <1>3 DEF TablesAlone, Environment, Unwatch, Entries, tableVars
  <2>2. \A a \in Addr : destroyer'[a] = destroyer[a] \/ destroyer'[a].pc = "begin"
    BY <1>1, <1>3
    DEF TablesAlone, Environment, Unwatch, threadVars, TypeOK, ThreadsTypeOK, DestroyerType
  <2> QED
    BY <1>2, <2>1, <2>2, KeepListed
<1>4. CASE LostDirectory \/ \E c \in Cleaner : MemcleanRemove(c)
  <2>1. UNCHANGED destroyer
    BY <1>4 DEF LostDirectory, MemcleanRemove, threadVars
  <2>2. UNCHANGED tableVars \/ \E S : Forget(S)
    BY <1>4 DEF LostDirectory, MemcleanRemove
  <2>3. Entries' \subseteq Entries
    BY <2>2, ForgetEntries DEF Entries, tableVars
  <2> QED
    BY <1>2, <2>1, <2>3, KeepListed
<1>5. ASSUME NEW w \in Walker, WalkerVisit(w) PROVE ListedAll'
  <2>1. UNCHANGED destroyer
    BY <1>5 DEF WalkerVisit
  <2> QED
    BY <1>2, <1>5, <2>1, VisitAdds, KeepListed
<1> QED
  BY <1>1, <1>3, <1>4, <1>5, WriterSteps, DestroyerKeepsListed

(* The step with which _destroy_root() is done.                            *)
LEMMA OnlyEnd ==
    ASSUME RegistryInv, [Next]_vars,
           NEW a \in Addr, destroyer[a].pc = "scan", destroyer'[a].pc = "dump"
    PROVE  DestroyEnd(a)
<1>1. TypeOK /\ destroyer \in [Addr -> DestroyerType]
  BY DEF RegistryInv, TypeOK, ThreadsTypeOK
<1>2. ~\/ TablesAlone \/ Environment \/ LostDirectory \/ Unwatch
       \/ \E w \in Walker : WalkerVisit(w)
       \/ \E c \in Cleaner : MemcleanRemove(c)
  BY <1>1 DEF TablesAlone, Environment, LostDirectory, Unwatch, WalkerVisit,
              MemcleanRemove, threadVars, DestroyerType
<1>3. PICK b \in Addr : DestroyerStep(b)
  BY <1>1, <1>2, WriterSteps
<1>4. b = a
  BY <1>1, <1>3 DEF DestroyerStep, DestroyBegin, DestroyScan, DestroyUnwatch,
                    DestroyForget, DestroyEnd, DestroyDump
<1>5. ~DestroyScan(a)
  <2> SUFFICES ASSUME DestroyScan(a) PROVE FALSE
    OBVIOUS
  <2>1. PICK f \in destroyer[a].todo :
          \/ destroyer' = [destroyer EXCEPT ![a].todo = @ \ {f}]
          \/ \E at : destroyer' = [destroyer EXCEPT ![a].pc = "unwatch",
                         ![a].todo = @ \ {f}, ![a].at = at]
    BY DEF DestroyScan
  <2>2. destroyer'[a].pc \in {"scan", "unwatch"}
    BY <1>1, <2>1 DEF DestroyerType
  <2> QED
    BY <2>2
<1>6. ~(DestroyBegin(a) \/ DestroyUnwatch(a) \/ DestroyForget(a) \/ DestroyDump(a))
  BY DEF DestroyBegin, DestroyUnwatch, DestroyForget, DestroyDump
<1> QED
  BY <1>3, <1>4, <1>5, <1>6 DEF DestroyerStep

(* The step with which _destroy_root() is done leaves no entry in the      *)
(* root's tree.                                                            *)
LEMMA EndLeavesNothing ==
    ASSUME RegistryInv, TableInv, OwnWalks, ListedAll, [Next]_vars,
           NEW a \in Addr, destroyer[a].pc = "scan", destroyer'[a].pc = "dump",
           NEW e \in Entries'
    PROVE  ~InTree(e.path, heap[a].path)
<1>1. DestroyEnd(a)
  BY OnlyEnd
<1>2. Entries' = {f \in Entries : ~\E g \in RootEntry(a) : g.path = f.path}
  BY <1>1, ForgetEntries DEF DestroyEnd
<1>3. e \in Entries /\ e.path # heap[a].path
  BY <1>2 DEF RootEntry
<1>4. ~Below(e.path, heap[a].path)
  BY <1>1, <1>3 DEF DestroyEnd, ListedAll, Emptying
<1>5. heap[a].path # Slash
  BY DEF OwnWalks, Emptying
<1> QED
  BY <1>3, <1>4, <1>5 DEF InTree

(* When _destroy_root() ends, no entry of the watch tables is left in the  *)
(* root's tree, although it lists the keys once and lets the lock go       *)
(* between any two of them, while its own walks, the event handler,        *)
(* memclean and the destruction of other roots write the tables.  Walks    *)
(* that outlive their Root are excepted: those may record behind it.       *)
THEOREM DestroyLeavesNothing == Spec /\ []OwnWalks => DestroyLeavesNoEntry
<1>1. Init => ListedAll
  <2> SUFFICES ASSUME Init PROVE ListedAll
    OBVIOUS
  <2>1. \A a \in Addr : destroyer[a].pc = "none"
    BY DEF Init, NoDestroyer
  <2> QED
    BY <2>1 DEF ListedAll, Emptying
<1>2. RegistryInv /\ TableInv /\ OwnWalks /\ ListedAll /\ [Next]_vars => ListedAll'
  BY StepKeepsListed
<1>3. RegistryInv /\ TableInv /\ OwnWalks /\ ListedAll /\ [Next]_vars =>
        [\A a \in Addr :
           destroyer[a].pc = "scan" /\ destroyer'[a].pc = "dump" =>
               \A e \in Entries' : ~InTree(e.path, heap[a].path)]_vars
  BY EndLeavesNothing
<1> QED
  BY <1>1, <1>2, <1>3, RegistryInvariant, TableInvariant, PTL
  DEF Spec, DestroyLeavesNoEntry

-----------------------------------------------------------------------------
(* What the kernel still watches when _destroy_root() ends.                *)

(* What DestroyUnwatches rests on: other processes create and remove       *)
(* directories but do not rename them, "/" is not among the directories,   *)
(* and no client asks for a tree inside another one's.  The kernel goes on *)
(* watching the directory of a root that was destroyed, so a root around   *)
(* it would have a watch below it that no table names.                     *)
UnwatchSetting ==
    /\ RootsStay
    /\ "rename" \notin FsOps
    /\ Slash \notin Path
    /\ \A p, q \in WatchPaths : ~Below(p, q)

(* The path of a watched directory leads to its watch; those that clients  *)
(* asked for are excepted.                                                 *)
WatchFound ==
    \A d \in Path : kwatch[d].wd # 0 => d \in WatchPaths \/ Tracked(d)

(* The directory whose Watch _destroy_root() holds has no other watch, and *)
(* none once the kernel was told.                                          *)
WatchTaken ==
    \A a \in Addr :
        LET e == destroyer[a].at
        IN /\ destroyer[a].pc = "unwatch" /\ e.path \in Path =>
                kwatch[e.path].wd \in {0, e.wd}
           /\ destroyer[a].pc = "forget" /\ e.path \in Path => kwatch[e.path].wd = 0

(* Without renames other processes only take watches away.                 *)
LEMMA FsTakes ==
    ASSUME UnwatchSetting, TypeOK, FsStep
    PROVE  \A d \in Path : kwatch'[d].wd = 0 \/ kwatch'[d] = kwatch[d]
<1>1. PICK p \in Path : Mkdir(p) \/ Rmdir(p) \/ WriteFile(p)
  BY DEF FsStep, Rename, FsOp, UnwatchSetting
<1>2. CASE Mkdir(p) \/ WriteFile(p)
  BY <1>2 DEF Mkdir, WriteFile
<1>3. CASE Rmdir(p)
  BY <1>3 DEF Rmdir, NoWatch, TypeOK, KernelTypeOK
<1> QED
  BY <1>1, <1>2, <1>3

(* A step that takes watches away, and leaves the tables of those that     *)
(* stay and the threads that destroy roots alone.                          *)
LEMMA KeepFound ==
    ASSUME WatchFound, WatchTaken,
           \A d \in Path : kwatch'[d].wd = 0 \/ kwatch'[d] = kwatch[d],
           \A d \in Path : kwatch'[d].wd # 0 /\ Tracked(d) => d \in WatchPaths \/ Tracked(d)',
           \A a \in Addr : destroyer'[a] = destroyer[a]
                             \/ destroyer'[a].pc \notin {"unwatch", "forget"}
    PROVE  WatchFound' /\ WatchTaken'
<1>1. WatchFound'
  <2> SUFFICES ASSUME NEW d \in Path, kwatch'[d].wd # 0
               PROVE  d \in WatchPaths \/ Tracked(d)'
    BY DEF WatchFound
  <2>1. kwatch[d].wd # 0
    OBVIOUS
  <2> QED
    BY <2>1 DEF WatchFound
<1>2. WatchTaken'
  <2> SUFFICES ASSUME NEW a \in Addr, destroyer'[a].pc \in {"unwatch", "forget"},
                      destroyer'[a].at.path \in Path
               PROVE  LET e == destroyer'[a].at
                      IN /\ destroyer'[a].pc = "unwatch" =>
                              kwatch'[e.path].wd \in {0, e.wd}
                         /\ destroyer'[a].pc = "forget" => kwatch'[e.path].wd = 0
    BY DEF WatchTaken
  <2>1. destroyer'[a] = destroyer[a]
    OBVIOUS
  <2> QED
    BY <2>1 DEF WatchTaken
<1> QED
  BY <1>1, <1>2

(* A directory whose tables and watch stay as they were.                   *)
LEMMA SameTracked ==
    ASSUME NEW d \in Path, Tracked(d), kwatch'[d] = kwatch[d],
           inotify_wd_to_watch'[kwatch[d].wd] = inotify_wd_to_watch[kwatch[d].wd],
           inotify_path_to_watch'[d] = inotify_path_to_watch[d]
    PROVE  Tracked(d)'
  BY DEF Tracked

(* A visit watches a directory that both tables know afterwards, and none  *)
(* that a thread is about to take out: that root's walks see its mark.     *)
LEMMA VisitKeepsFound ==
    ASSUME UnwatchSetting, RegistryInv, TableInv, WatchInv, OwnWalks,
           WatchFound, WatchTaken, NEW w \in Walker, WalkerVisit(w)
    PROVE  WatchFound' /\ WatchTaken'
<1> DEFINE p == walker[w].path
           wd == WdFor(p)
<1>a. TypeOK /\ UNCHANGED destroyer
  BY DEF RegistryInv, WalkerVisit
<1>1. CASE UNCHANGED <<kwatch, tableVars>>
  <2>1. \A d \in Path : Tracked(d) => Tracked(d)'
    BY <1>1 DEF Tracked, tableVars
  <2> QED
    BY <1>a, <1>1, <2>1, KeepFound
<1>2. ASSUME NEW destroy \in DestroyReads(walker[w].root), ~VisitBails(w, destroy),
             AddWatch(Resolve(p), heap[walker[w].root].mask),
             RecordWatch(p, WdFor(Resolve(p)))
      PROVE  WatchFound' /\ WatchTaken'
  <2>1. Resolve(p) \in Path
    BY <1>a, <1>2 DEF VisitBails, TypeOK, KernelTypeOK
  <2>2. Resolve(p) = p
    BY <2>1 DEF Resolve, UnwatchSetting
  <2>3. /\ kwatch'[p].wd = wd
        /\ \A x \in Path : x # p => kwatch'[x] = kwatch[x]
        /\ wd = IF kwatch[p].wd # 0 THEN kwatch[p].wd ELSE nextWd
        /\ wd <= MaxWd
    BY <1>a, <1>2, <2>1, <2>2 DEF AddWatch, WdFor, TypeOK, KernelTypeOK
  <2>4. p \in Path /\ p \in Key /\ wd \in Wd /\ 0 \notin Wd /\ p # NoPath
    BY <1>a, <2>1, <2>2, <2>3, KernelAssumption, PathAssumption
    DEF Key, Wd, TypeOK, KernelTypeOK, KWatch
  <2>5. /\ \A v \in Wd : inotify_wd_to_watch'[v] =
             IF v = wd /\ inotify_wd_to_watch[v] = NoPath THEN p
             ELSE inotify_wd_to_watch[v]
        /\ \A k \in Key : inotify_path_to_watch'[k] =
             IF k = p /\ inotify_wd_to_watch[wd] = NoPath THEN wd
             ELSE inotify_path_to_watch[k]
    BY <1>a, <1>2, <2>2, <2>4 DEF RecordWatch, tableVars, TypeOK, TablesTypeOK
  <2>6. kwatch[p].wd = 0 => inotify_wd_to_watch[wd] = NoPath
    <3>1. kwatch[p].wd = 0 => ~(wd < nextWd)
      BY <1>a, <2>3 DEF TypeOK, KernelTypeOK
    <3> QED
      BY <2>4, <3>1 DEF WatchInv, KnownGiven, WatchLive
  <2>7. \A x \in Path : kwatch[x].wd # 0 => kwatch[x].wd \in Wd
    BY <1>a, KernelAssumption DEF TypeOK, KernelTypeOK, KWatch, Wd
  <2>8. ASSUME NEW a \in Addr, destroyer[a].pc \in {"unwatch", "forget"}
        PROVE  destroyer[a].at.path # p
    <3>1. Below(destroyer[a].at.path, heap[a].path)
      BY <2>8 DEF TableInv, ListedBelow
    <3>2. walker[w].root # a
      BY <1>2, <2>8 DEF VisitBails, DestroyReads, RegistryInv, DestroyerHolds
    <3> QED
      BY <2>8, <3>1, <3>2 DEF OwnWalks, WalkerVisit, Emptying
  <2> HIDE DEF p, wd
  <2>9. WatchTaken'
    BY <1>a, <2>3, <2>8 DEF WatchTaken
  <2>10. ASSUME NEW x \in Path, kwatch'[x].wd # 0
         PROVE  x \in WatchPaths \/ Tracked(x)'
    <3>1. CASE x # p
      <4>1. kwatch'[x] = kwatch[x]
        BY <2>3, <3>1
      <4>2. ASSUME Tracked(x) PROVE Tracked(x)'
        <5>1. x \in Key /\ kwatch[x].wd \in Wd /\ inotify_wd_to_watch[kwatch[x].wd] # NoPath
          BY <2>7, <4>2, NoPathIsNoKey DEF Tracked, Key
        <5> QED
          BY <2>5, <3>1, <4>1, <4>2, <5>1, SameTracked
      <4> QED
        BY <2>10, <4>1, <4>2 DEF WatchFound
    <3>2. CASE x = p /\ inotify_wd_to_watch[wd] = NoPath
      BY <2>3, <2>4, <2>5, <3>2 DEF Tracked
    <3>3. CASE x = p /\ inotify_wd_to_watch[wd] # NoPath
      <4>1. kwatch[p].wd = wd /\ kwatch[p].wd # 0
        BY <2>3, <2>6, <3>3
      <4>2. ASSUME Tracked(x) PROVE Tracked(x)'
        BY <2>3, <2>4, <2>5, <3>3, <4>1, <4>2 DEF Tracked
      <4> QED
        BY <3>3, <4>1, <4>2 DEF WatchFound
    <3> QED
      BY <3>1, <3>2, <3>3
  <2>11. WatchFound'
    BY <2>10 DEF WatchFound
  <2> QED
    BY <2>9, <2>11
<1> QED
  BY <1>1, <1>2 DEF WalkerVisit

(* Watches that leave both tables and the kernel together.                 *)
LEMMA RetireKeepsFound ==
    ASSUME TypeOK, TableInv, WatchFound, WatchTaken,
           NEW S \in SUBSET Entries, Forget(S),
           kwatch' = RmWatch({e.wd : e \in S}), UNCHANGED destroyer
    PROVE  WatchFound' /\ WatchTaken'
<1>1. \A d \in Path : \/ kwatch'[d].wd = 0
                      \/ kwatch'[d] = kwatch[d] /\ ~\E e \in S : e.wd = kwatch[d].wd
  BY RmWatches
<1>2. ASSUME NEW d \in Path, kwatch'[d].wd # 0, Tracked(d) PROVE Tracked(d)'
  <2>1. /\ kwatch'[d] = kwatch[d] /\ ~\E e \in S : e.wd = kwatch[d].wd
        /\ inotify_path_to_watch[d] = kwatch[d].wd
    BY <1>1, <1>2 DEF Tracked
  <2>2. ~\E e \in S : e.path = d
    BY <2>1, ListedEntries DEF TableInv
  <2>3. d \in Key /\ kwatch[d].wd \in Wd
    BY <1>2, KernelAssumption DEF Tracked, Key, TypeOK, KernelTypeOK, KWatch, Wd
  <2>4. /\ inotify_wd_to_watch'[kwatch[d].wd] = inotify_wd_to_watch[kwatch[d].wd]
        /\ inotify_path_to_watch'[d] = inotify_path_to_watch[d]
    BY <2>1, <2>2, <2>3 DEF Forget
  <2> QED
    BY <1>2, <2>1, <2>4, SameTracked
<1> QED
  BY <1>1, <1>2, KeepFound

(* A step of _destroy_root(): the Watch it takes is the only one its path  *)
(* leads to, and is forgotten after the kernel was told; what goes with    *)
(* the root is the root's own.                                             *)
LEMMA DestroyerKeepsFound ==
    ASSUME UnwatchSetting, RegistryInv, TableInv, WatchInv, WatchFound, WatchTaken,
           NEW a \in Addr, DestroyerStep(a)
    PROVE  WatchFound' /\ WatchTaken'
<1> USE DEF RegistryInv
<1>a. /\ destroyer \in [Addr -> DestroyerType]
      /\ \A b \in Addr : b # a => destroyer'[b] = destroyer[b]
  BY DEF DestroyerStep, DestroyBegin, DestroyScan, DestroyUnwatch, DestroyForget,
         DestroyEnd, DestroyDump, TypeOK, ThreadsTypeOK
<1>b. ASSUME NEW d \in Path, Tracked(d)
      PROVE  d \in Key /\ kwatch[d].wd \in Wd
  BY <1>b, KernelAssumption DEF Tracked, Key, TypeOK, KernelTypeOK, KWatch, Wd
<1>1. CASE DestroyBegin(a) \/ DestroyDump(a)
  <2>1. /\ UNCHANGED <<kwatch, tableVars>>
        /\ destroyer'[a].pc \in {"scan", "none"}
    BY <1>a, <1>1 DEF DestroyBegin, DestroyDump, kernelVars, NoDestroyer, DestroyerType
  <2>2. \A d \in Path : Tracked(d) => Tracked(d)'
    BY <2>1 DEF Tracked, tableVars
  <2> QED
    BY <1>a, <2>1, <2>2, KeepFound
<1>2. CASE DestroyScan(a)
  <2>1. UNCHANGED <<kwatch, tableVars>> /\ destroyer[a].pc = "scan"
    BY <1>2 DEF DestroyScan, kernelVars
  <2>2. PICK e \in destroyer[a].todo :
          LET wd == inotify_path_to_watch[e.path]
          IN \/ destroyer' = [destroyer EXCEPT ![a].todo = @ \ {e}]
             \/ destroyer' = [destroyer EXCEPT
                      ![a].pc = "unwatch",
                      ![a].todo = @ \ {e},
                      ![a].at = [path |-> e.path, wd |-> wd]]
    BY <1>2 DEF DestroyScan
  <2>3. \A d \in Path : Tracked(d) => Tracked(d)'
    BY <2>1 DEF Tracked, tableVars
  <2>4. WatchFound'
    BY <2>1, <2>3 DEF WatchFound
  <2>5. CASE destroyer' = [destroyer EXCEPT ![a].todo = @ \ {e}]
    <3>1. destroyer'[a].pc = "scan"
      BY <1>a, <2>1, <2>5 DEF DestroyerType
    <3> QED
      BY <1>a, <2>1, <2>3, <3>1, KeepFound
  <2>6. CASE destroyer' = [destroyer EXCEPT
                ![a].pc = "unwatch",
                ![a].todo = @ \ {e},
                ![a].at = [path |-> e.path, wd |-> inotify_path_to_watch[e.path]]]
    <3>1. /\ destroyer'[a].pc = "unwatch"
          /\ destroyer'[a].at = [path |-> e.path, wd |-> inotify_path_to_watch[e.path]]
      BY <1>a, <2>6 DEF DestroyerType
    <3>2. Below(e.path, heap[a].path)
      BY <2>1 DEF TableInv, ListedBelow
    <3>3. heap[a].path \in WatchPaths
      BY <2>1, RegisteredRoot DEF WatchInv, RootsAsked, DestroyerHolds, OwnPath
    <3>4. e.path \in Path => kwatch[e.path].wd \in {0, inotify_path_to_watch[e.path]}
      BY <3>2, <3>3 DEF WatchFound, Tracked, UnwatchSetting
    <3>5. WatchTaken'
      BY <1>a, <2>1, <3>1, <3>4 DEF WatchTaken
    <3> QED
      BY <2>4, <3>5
  <2> QED
    BY <2>2, <2>5, <2>6
<1>3. CASE DestroyUnwatch(a)
  <2> DEFINE e == destroyer[a].at
  <2>1. /\ destroyer[a].pc = "unwatch" /\ destroyer'[a].pc = "forget"
        /\ destroyer'[a].at = e
    BY <1>a, <1>3 DEF DestroyUnwatch, DestroyerType
  <2>2. UNCHANGED tableVars /\ kwatch' = RmWatch({e.wd})
    BY <1>3 DEF DestroyUnwatch
  <2>3. \A d \in Path : \/ kwatch'[d].wd = 0
                        \/ kwatch'[d] = kwatch[d] /\ kwatch[d].wd # e.wd
    BY <2>2, RmWatches
  <2>4. \A d \in Path : kwatch'[d].wd # 0 /\ Tracked(d) => Tracked(d)'
    BY <2>2, <2>3 DEF Tracked, tableVars
  <2>5. WatchFound'
    BY <2>3, <2>4 DEF WatchFound
  <2>6. e.path \in Path => kwatch'[e.path].wd = 0
    BY <2>1, <2>3 DEF WatchTaken
  <2>7. WatchTaken'
    <3> SUFFICES ASSUME NEW b \in Addr, destroyer'[b].at.path \in Path
                 PROVE  LET f == destroyer'[b].at
                        IN /\ destroyer'[b].pc = "unwatch" =>
                                kwatch'[f.path].wd \in {0, f.wd}
                           /\ destroyer'[b].pc = "forget" => kwatch'[f.path].wd = 0
      BY DEF WatchTaken
    <3>1. CASE b = a
      BY <2>1, <2>6, <3>1
    <3>2. CASE b # a
      BY <1>a, <2>3, <3>2 DEF WatchTaken
    <3> QED
      BY <3>1, <3>2
  <2> QED
    BY <2>5, <2>7
<1>4. CASE DestroyForget(a)
  <2> DEFINE e == destroyer[a].at
  <2>1. /\ UNCHANGED kwatch /\ destroyer[a].pc = "forget"
        /\ destroyer'[a].pc = "scan" /\ Forget({e})
    BY <1>a, <1>4 DEF DestroyForget, DestroyerType, kernelVars
  <2>2. Dropped(e.wd) /\ (e.path \in Path => kwatch[e.path].wd = 0)
    BY <2>1 DEF TableInv, KeptWatch, WatchTaken
  <2> HIDE DEF e
  <2>3. ASSUME NEW d \in Path, Tracked(d) PROVE Tracked(d)'
    <3>1. d # e.path /\ kwatch[d].wd # e.wd
      BY <2>2, <2>3 DEF Tracked, Dropped
    <3>2. /\ inotify_wd_to_watch'[kwatch[d].wd] = inotify_wd_to_watch[kwatch[d].wd]
          /\ inotify_path_to_watch'[d] = inotify_path_to_watch[d]
      BY <1>b, <2>1, <2>3, <3>1 DEF Forget
    <3> QED
      BY <2>1, <2>3, <3>2, SameTracked
  <2> QED
    BY <1>a, <2>1, <2>3, KeepFound
<1>5. CASE DestroyEnd(a)
  <2>1. /\ UNCHANGED kwatch /\ destroyer'[a].pc = "dump" /\ Forget(RootEntry(a))
    BY <1>a, <1>5 DEF DestroyEnd, DestroyerType, kernelVars
  <2>2. \A e \in RootEntry(a) : /\ inotify_wd_to_watch[e.wd] = e.path
                                /\ e.path = heap[a].path
    BY ListedEntries DEF RootEntry, TableInv
  <2>3. heap[a].path \in WatchPaths
    BY <1>5, EndRemoves DEF WatchInv, RootsAsked
  <2>4. ASSUME NEW d \in Path, Tracked(d) PROVE d \in WatchPaths \/ Tracked(d)'
    <3>1. CASE d = heap[a].path
      BY <2>3, <3>1
    <3>2. CASE d # heap[a].path
      <4>1. ~\E e \in RootEntry(a) : e.path = d \/ e.wd = kwatch[d].wd
        BY <2>2, <2>4, <3>2 DEF Tracked
      <4>2. /\ inotify_wd_to_watch'[kwatch[d].wd] = inotify_wd_to_watch[kwatch[d].wd]
            /\ inotify_path_to_watch'[d] = inotify_path_to_watch[d]
        BY <1>b, <2>1, <2>4, <4>1 DEF Forget
      <4> QED
        BY <2>1, <2>4, <4>2, SameTracked
    <3> QED
      BY <3>1, <3>2
  <2> QED
    BY <1>a, <2>1, <2>4, KeepFound
<1> QED
  BY <1>1, <1>2, <1>3, <1>4, <1>5 DEF DestroyerStep

(* Every step keeps the watches to be found by their paths.                *)
LEMMA StepKeepsFound ==
    ASSUME UnwatchSetting, RegistryInv, TableInv, WatchInv, OwnWalks,
           WatchFound, WatchTaken, [Next]_vars
    PROVE  WatchFound' /\ WatchTaken'
<1>1. TypeOK
  BY DEF RegistryInv
<1>2. CASE TablesAlone \/ Unwatch \/ Environment
  <2>1. UNCHANGED tableVars
    BY <1>2 DEF TablesAlone, Unwatch, Environment
  <2>2. \A d \in Path : kwatch'[d].wd = 0 \/ kwatch'[d] = kwatch[d]
    BY <1>1, <1>2, FsTakes DEF TablesAlone, Unwatch, Environment, kernelVars
  <2>3. \A d \in Path : kwatch'[d].wd # 0 /\ Tracked(d) => Tracked(d)'
    BY <2>1, <2>2 DEF Tracked, tableVars
  <2>4. \A a \in Addr : destroyer'[a] = destroyer[a] \/ destroyer'[a].pc = "begin"
    BY <1>1, <1>2
    DEF TablesAlone, Environment, Unwatch, threadVars, TypeOK, ThreadsTypeOK, DestroyerType
  <2> QED
    BY <2>2, <2>3, <2>4, KeepFound
<1>3. CASE LostDirectory
  <2>1. UNCHANGED destroyer
    BY <1>3 DEF LostDirectory, threadVars
  <2>2. CASE UNCHANGED <<kwatch, tableVars>>
    <3>1. \A d \in Path : Tracked(d) => Tracked(d)'
      BY <2>2 DEF Tracked, tableVars
    <3> QED
      BY <2>1, <2>2, <3>1, KeepFound
  <2>3. CASE LET gone == GoneWith(EventPath, Head(batch).kind)
             IN kwatch' = RmWatch({e.wd : e \in gone}) /\ Forget(gone)
    <3> DEFINE gone == GoneWith(EventPath, Head(batch).kind)
    <3>1. kwatch' = RmWatch({e.wd : e \in gone}) /\ Forget(gone) /\ gone \subseteq Entries
      BY <2>3 DEF GoneWith
    <3> HIDE DEF gone
    <3> QED
      BY <1>1, <2>1, <3>1, RetireKeepsFound
  <2> QED
    BY <1>3, <2>2, <2>3 DEF LostDirectory
<1>4. ASSUME NEW c \in Cleaner, MemcleanRemove(c) PROVE WatchFound' /\ WatchTaken'
  <2> DEFINE gone == {e \in Entries : e.path = cleaner[c].path}
  <2>1. /\ kwatch' = RmWatch({e.wd : e \in gone}) /\ Forget(gone) /\ gone \subseteq Entries
        /\ UNCHANGED destroyer
    BY <1>4 DEF MemcleanRemove
  <2> HIDE DEF gone
  <2> QED
    BY <1>1, <2>1, RetireKeepsFound
<1> QED
  BY <1>1, <1>2, <1>3, <1>4, WriterSteps, VisitKeepsFound, DestroyerKeepsFound

(* The step with which _destroy_root() is done leaves no watch below the   *)
(* root: its directory would have an entry, and no entry is left.          *)
LEMMA EndLeavesNoWatch ==
    ASSUME UnwatchSetting, RegistryInv, TableInv, WatchInv, ListedAll,
           WatchFound, [Next]_vars,
           NEW a \in Addr, destroyer[a].pc = "scan", destroyer'[a].pc = "dump",
           NEW d \in dirs, Below(d, heap[a].path)
    PROVE  kwatch'[d].wd = 0
<1>1. d \in Path /\ d \in Key
  BY DEF RegistryInv, TypeOK, KernelTypeOK, Key
<1>2. UNCHANGED kwatch /\ destroyer[a].todo = {} /\ DestroyEnd(a)
  BY OnlyEnd DEF DestroyEnd, kernelVars
<1>3. d \notin WatchPaths
  BY <1>2, EndRemoves DEF RegistryInv, WatchInv, RootsAsked, UnwatchSetting
<1>4. ~Tracked(d)
  <2> SUFFICES ASSUME Tracked(d) PROVE FALSE
    OBVIOUS
  <2>1. [path |-> d, wd |-> inotify_path_to_watch[d]] \in Entries
    BY <1>1 DEF Tracked, Entries
  <2> QED
    BY <1>2, <2>1 DEF ListedAll, Emptying
<1> QED
  BY <1>1, <1>2, <1>3, <1>4 DEF WatchFound

(* When _destroy_root() ends, the kernel watches no directory below the    *)
(* root any more: neither a walk that was still running, nor a directory   *)
(* that came, went or came back under the same name, nor a cleanup or the  *)
(* event handler leaves a watch behind that the listed keys do not reach.  *)
THEOREM DestroyStopsWatching ==
    ASSUME UnwatchSetting
    PROVE  Spec /\ []OwnWalks => DestroyUnwatches
<1>1. Init => ListedAll /\ WatchFound /\ WatchTaken
  <2> SUFFICES ASSUME Init PROVE ListedAll /\ WatchFound /\ WatchTaken
    OBVIOUS
  <2>1. /\ \A a \in Addr : destroyer[a].pc = "none"
        /\ kwatch = [p \in Path |-> NoWatch]
    BY DEF Init, KernelInit, NoDestroyer
  <2> QED
    BY <2>1 DEF ListedAll, Emptying, WatchFound, WatchTaken, NoWatch
<1>2. RegistryInv /\ TableInv /\ OwnWalks /\ ListedAll /\ [Next]_vars => ListedAll'
  BY StepKeepsListed
<1>3. RegistryInv /\ TableInv /\ WatchInv /\ OwnWalks /\ WatchFound /\ WatchTaken
        /\ [Next]_vars => WatchFound' /\ WatchTaken'
  BY StepKeepsFound
<1>4. RegistryInv /\ TableInv /\ WatchInv /\ ListedAll /\ WatchFound /\ [Next]_vars =>
        [\A a \in Addr :
           destroyer[a].pc = "scan" /\ destroyer'[a].pc = "dump" =>
               \A d \in dirs : Below(d, heap[a].path) => kwatch'[d].wd = 0]_vars
  BY EndLeavesNoWatch
<1>5. Spec => []WatchInv
  BY WatchInvariant DEF UnwatchSetting
<1> QED
  BY <1>1, <1>2, <1>3, <1>4, <1>5, RegistryInvariant, TableInvariant, PTL
  DEF Spec, DestroyUnwatches

=============================================================================
