----------------------------- MODULE TypeProofs -----------------------------
(***************************************************************************)
(* Type correctness of the event path: every variable keeps its type, and  *)
(* the main thread and the detached threads hold a Root address, a path or *)
(* an entry wherever they are about to use one.                            *)
(***************************************************************************)
EXTENDS InotifyProps, FiniteSetTheorems, TLAPS

-----------------------------------------------------------------------------
(* Paths and kernel events.                                                *)

(* The path strings the code builds are sequences of names.                *)
LEMMA PathFacts ==
    /\ Slash \in Seq(Name) /\ DoubleSlash \in Seq(Name)
    /\ NoPath \in Seq(Name)
    /\ Key \subseteq Seq(Name)
    /\ Path \subseteq Key
    /\ DoubleSlash \in Key
    /\ \A p \in Path : Last(p) \in Name
    /\ \A p \in Seq(Name), n \in Name : AbsPath(p, n) \in Seq(Name)
    /\ \A p \in Seq(Name) : StripSlash(p) \in Seq(Name)
<1>1. Slash \in Seq(Name) /\ DoubleSlash \in Seq(Name) /\ NoPath \in Seq(Name)
  BY PathAssumption DEF Slash, DoubleSlash, NoPath
<1>2. Key \subseteq Seq(Name) /\ Path \subseteq Key /\ DoubleSlash \in Key
  BY <1>1, PathAssumption DEF Key
<1>3. ASSUME NEW p \in Path PROVE Last(p) \in Name
  BY PathAssumption DEF Last, NoPath
<1>4. ASSUME NEW p \in Seq(Name), NEW n \in Name PROVE AbsPath(p, n) \in Seq(Name)
  BY <1>1 DEF AbsPath
<1>5. ASSUME NEW p \in Seq(Name) PROVE StripSlash(p) \in Seq(Name)
  BY DEF StripSlash, Front, NoPath
<1> QED
  BY <1>1, <1>2, <1>3, <1>4, <1>5

(* The kernel's queue takes an event, merges it or marks the overflow.     *)
LEMMA PushType ==
    ASSUME NEW q \in Seq(KEvent), NEW e \in KEvent
    PROVE  Push(q, e) \in Seq(KEvent)
<1>1. Overflow \in KEvent
  BY PathAssumption, KernelAssumption DEF KEvent, Overflow
<1>2. Append(q, e) \in Seq(KEvent) /\ Append(q, Overflow) \in Seq(KEvent)
  BY <1>1
<1> QED
  BY <1>2 DEF Push

(* A notification leaves a queue of kernel events.                         *)
LEMMA NotifyType ==
    ASSUME KernelTypeOK, NEW q \in Seq(KEvent), NEW d, NEW kind \in Kinds,
           NEW n \in Name
    PROVE  Notify(q, d, kind, n) \in Seq(KEvent)
<1>1. ASSUME d \in Path
      PROVE  [wd |-> kwatch[d].wd, kind |-> kind, name |-> n] \in KEvent
  BY <1>1 DEF KernelTypeOK, KWatch, KEvent
<1> QED
  BY <1>1, PushType DEF Notify

(* Dropping watches leaves a watch, or none, on every directory.           *)
LEMMA RmWatchType ==
    ASSUME KernelTypeOK, NEW W
    PROVE  RmWatch(W) \in [Path -> KWatch]
  BY KernelAssumption DEF KernelTypeOK, RmWatch, KWatch, NoWatch

(* The operations of other processes keep the types of the kernel.         *)
LEMMA FsTypes == KernelTypeOK /\ FsStep => KernelTypeOK'
<1> SUFFICES ASSUME KernelTypeOK, FsStep PROVE KernelTypeOK'
  OBVIOUS
<1> USE KernelAssumption
<1>a. {"create", "delete", "moved_from", "moved_to", "file"} \subseteq Kinds
  BY DEF Kinds, DirKinds
<1>b. NoWatch \in KWatch
  BY DEF KWatch, NoWatch
<1>1. ASSUME NEW p \in Path, Mkdir(p) PROVE KernelTypeOK'
  <2>1. kq' \in Seq(KEvent)
    BY <1>1, <1>a, NotifyType, PathFacts DEF Mkdir, KernelTypeOK
  <2> QED
    BY <1>1, <2>1 DEF Mkdir, FsOp, KernelTypeOK
<1>2. ASSUME NEW p \in Path, Rmdir(p) PROVE KernelTypeOK'
  <2>1. kq' \in Seq(KEvent)
    BY <1>2, <1>a, NotifyType, PathFacts DEF Rmdir, KernelTypeOK
  <2> QED
    BY <1>2, <1>b, <2>1 DEF Rmdir, FsOp, KernelTypeOK
<1>3. ASSUME NEW p \in Path, WriteFile(p) PROVE KernelTypeOK'
  <2>1. kq' \in Seq(KEvent)
    BY <1>3, <1>a, NotifyType DEF WriteFile, KernelTypeOK
  <2> QED
    BY <1>3, <2>1 DEF WriteFile, FsOp, KernelTypeOK
<1>4. ASSUME NEW p \in Path, NEW q \in Path, Rename(p, q) PROVE KernelTypeOK'
  <2> DEFINE sub   == {d \in dirs : d = p \/ Below(d, p)}
             to(d) == q \o SubSeq(d, Len(p) + 1, Len(d))
             moved == {to(d) : d \in sub}
             src(d) == CHOOSE x \in sub : to(x) = d
  <2>1. kq' \in Seq(KEvent)
    <3>1. Notify(kq, Parent(p), "moved_from", Last(p)) \in Seq(KEvent)
      BY <1>a, NotifyType, PathFacts DEF KernelTypeOK
    <3> QED
      BY <1>4, <1>a, <3>1, NotifyType, PathFacts DEF Rename
  <2>2. ASSUME NEW d \in moved PROVE src(d) \in Path
    <3>1. \E x \in sub : to(x) = d
      OBVIOUS
    <3>2. src(d) \in sub
      BY <3>1
    <3> QED
      BY <3>2 DEF KernelTypeOK
  <2>3. kwatch' = [d \in Path |-> IF d \in moved THEN kwatch[src(d)]
                                  ELSE IF d \in sub THEN NoWatch ELSE kwatch[d]]
    BY <1>4 DEF Rename
  <2>4. kwatch' \in [Path -> KWatch]
    <3> HIDE DEF moved, src, sub
    <3> QED
      BY <1>b, <2>2, <2>3 DEF KernelTypeOK
  <2>5. dirs' \subseteq Path
    BY <1>4 DEF Rename, KernelTypeOK
  <2>6. fsOps' \in 0 .. MaxFsOps /\ nextWd' = nextWd
    BY <1>4 DEF Rename, FsOp, KernelTypeOK
  <2> QED
    BY <2>1, <2>4, <2>5, <2>6 DEF KernelTypeOK
<1> QED
  BY <1>1, <1>2, <1>3, <1>4 DEF FsStep

-----------------------------------------------------------------------------
(* The helpers of inotify.c.                                               *)

(* What a step leaves alone keeps its type.                                *)
LEMMA SameTypes ==
    /\ KernelTypeOK /\ UNCHANGED kernelVars => KernelTypeOK'
    /\ RootsTypeOK /\ UNCHANGED rootVars => RootsTypeOK'
    /\ TablesTypeOK /\ UNCHANGED tableVars => TablesTypeOK'
    /\ FlagsTypeOK /\ UNCHANGED <<flagVars, boundVars, dump, alive>> => FlagsTypeOK'
    /\ ThreadsTypeOK /\ UNCHANGED threadVars => ThreadsTypeOK'
    /\ MainTypeOK /\ UNCHANGED <<main, batch, reply>> => MainTypeOK'
  BY DEF KernelTypeOK, kernelVars, RootsTypeOK, rootVars, TablesTypeOK, tableVars,
         FlagsTypeOK, flagVars, boundVars, ThreadsTypeOK, threadVars, MainTypeOK

(* Changing one value of a function, wherever it is.                       *)
LEMMA ExceptType ==
    ASSUME NEW S, NEW T, NEW f \in [S -> T], NEW x, NEW y \in T
    PROVE  [f EXCEPT ![x] = y] \in [S -> T]
  OBVIOUS

(* The fields of a Root that change after make_root().                     *)
LEMMA RootFields ==
    ASSUME NEW r \in RootType
    PROVE  /\ \A q \in Seq(Event) : [r EXCEPT !.queue = q] \in RootType
           /\ [r EXCEPT !.queue = <<>>] \in RootType
           /\ \A b \in BOOLEAN : [r EXCEPT !.pause = b] \in RootType
           /\ \A b \in BOOLEAN : [r EXCEPT !.destroy = b] \in RootType
<1>1. <<>> \in Seq(Event)
  OBVIOUS
<1>2. \A q \in Seq(Event) : [r EXCEPT !.queue = q] \in RootType
  BY DEF RootType
<1>3. /\ \A b \in BOOLEAN : [r EXCEPT !.pause = b] \in RootType
      /\ \A b \in BOOLEAN : [r EXCEPT !.destroy = b] \in RootType
  BY DEF RootType
<1> QED
  BY <1>1, <1>2, <1>3

(* The listed keys are entries of the tables, and finitely many.           *)
LEMMA EntriesType ==
    ASSUME TablesTypeOK
    PROVE  Entries \subseteq Entry /\ IsFiniteSet(Entries)
<1> DEFINE K == {k \in Key : inotify_path_to_watch[k] # 0}
<1>1. Entries = {[path |-> p, wd |-> inotify_path_to_watch[p]] : p \in K}
  BY DEF Entries
<1>2. ASSUME NEW p \in K
      PROVE  [path |-> p, wd |-> inotify_path_to_watch[p]] \in Entry
  BY KernelAssumption DEF TablesTypeOK, Entry, Wd
<1>3. IsFiniteSet(K)
  <2>1. IsFiniteSet(Key)
    BY PathAssumption, FS_AddElement DEF Key
  <2> QED
    BY <2>1, FS_Subset
<1> HIDE DEF K
<1>4. IsFiniteSet(Entries)
  <2>1. [p \in K |-> [path |-> p, wd |-> inotify_path_to_watch[p]]]
            \in Surjection(K, Entries)
    BY <1>1 DEF Surjection
  <2> QED
    BY <1>3, <2>1, FS_Surjection
<1> QED
  BY <1>1, <1>2, <1>4

(* Removing entries from both tables keeps their types.                    *)
LEMMA ForgetType ==
    ASSUME TablesTypeOK, NEW S, Forget(S)
    PROVE  TablesTypeOK'
  BY KernelAssumption DEF TablesTypeOK, Forget

(* The thread that do_watch_tree() starts holds its Root and its path.     *)
LEMMA SpawnType ==
    ASSUME ThreadsTypeOK, NEW path \in Seq(Name), NEW a \in Addr,
           NEW cleanup \in BOOLEAN, SpawnWalker(path, a, cleanup),
           UNCHANGED <<destroyer, cleaner>>
    PROVE  ThreadsTypeOK'
<1> PICK w \in Walker :
        walker' = [walker EXCEPT ![w] =
                     [pc |-> "start", root |-> a, cleanup |-> cleanup,
                      path |-> path, todo |-> {}]]
  BY DEF SpawnWalker
<1> DEFINE new == [pc |-> "start", root |-> a, cleanup |-> cleanup,
                   path |-> path, todo |-> {}]
<1>1. new \in WalkerType /\ new.root \in Addr
  BY DEF WalkerType
<1> HIDE DEF new
<1>2. walker' = [walker EXCEPT ![w] = new]
  BY DEF new
<1> QED
  BY <1>1, <1>2 DEF ThreadsTypeOK

(* A lookup by path gives a Root address or NULL.                          *)
LEMMA RootLookup ==
    ASSUME RootsTypeOK
    PROVE  /\ \A p : IsRoot(p) \in Addr \union {NULL}
           /\ \A p : PathToRoot(p) \subseteq Addr
           /\ {inotify_roots[p] : p \in Registered} \subseteq Addr
<1>1. \A p : IsRoot(p) \in Addr \union {NULL}
  BY DEF RootsTypeOK, IsRoot
<1>2. ASSUME NEW r \in Registered PROVE inotify_roots[r] \in Addr
  BY DEF RootsTypeOK, Registered
<1>3. \A p : PathToRoot(p) \subseteq Addr
  BY <1>1, <1>2 DEF PathToRoot
<1> QED
  BY <1>1, <1>2, <1>3

-----------------------------------------------------------------------------
(* The detached threads.                                                   *)

(* A step of _do_watch_tree() and of its recursion.                        *)
LEMMA WalkerTypes ==
    ASSUME TypeOK, NEW w \in Walker, WalkerStep(w)
    PROVE  TypeOK'
<1> USE DEF TypeOK
<1>a. IdleWalker \in WalkerType /\ IdleWalker.pc = "idle"
  BY PathFacts DEF IdleWalker, WalkerType
<1>1. CASE WalkerStart(w)
  <2>1. ThreadsTypeOK'
    <3>1. \/ walker' = [walker EXCEPT ![w] = IdleWalker]
          \/ walker' = [walker EXCEPT ![w].pc = "visit"]
      BY <1>1 DEF WalkerStart
    <3>2. UNCHANGED <<destroyer, cleaner>> /\ walker[w].pc = "start"
      BY <1>1 DEF WalkerStart
    <3>3. CASE walker' = [walker EXCEPT ![w] = IdleWalker]
      BY <1>a, <3>2, <3>3 DEF ThreadsTypeOK
    <3>4. CASE walker' = [walker EXCEPT ![w].pc = "visit"]
      BY <3>2, <3>4 DEF ThreadsTypeOK, WalkerType
    <3> QED
      BY <3>1, <3>3, <3>4
  <2>2. FlagsTypeOK'
    <3>1. IN_ROOT_REWATCH' \in BOOLEAN
      BY <1>1 DEF WalkerStart, FlagsTypeOK, ThreadsTypeOK, WalkerType
    <3>2. alive' \in BOOLEAN
      BY <1>1 DEF WalkerStart, Live
    <3> QED
      BY <1>1, <3>1, <3>2 DEF WalkerStart, FlagsTypeOK, boundVars
  <2> QED
    BY <1>1, <2>1, <2>2, SameTypes DEF WalkerStart
<1>2. CASE WalkerVisit(w)
  <2> DEFINE p == walker[w].path
             d == Resolve(p)
  <2>1. CASE /\ WalkOn(w) /\ UNCHANGED <<kwatch, nextWd, tableVars>>
    <3>1. ThreadsTypeOK'
      BY <1>2, <2>1 DEF WalkerVisit, WalkOn, ThreadsTypeOK, WalkerType
    <3> QED
      BY <1>2, <2>1, <3>1, SameTypes DEF WalkerVisit, kernelVars
  <2>2. CASE /\ d \in dirs
             /\ AddWatch(d, heap[walker[w].root].mask)
             /\ RecordWatch(p, WdFor(d))
             /\ walker' = [walker EXCEPT ![w].pc =
                             IF WatchLive(WdFor(d)) THEN "loop" ELSE "list"]
    <3>1. d \in Path /\ p \in Key
      BY <2>2, PathFacts DEF Resolve, KernelTypeOK
    <3>2. WdFor(d) \in Wd
      BY <2>2, <3>1, KernelAssumption
      DEF AddWatch, WdFor, KernelTypeOK, KWatch, Wd
    <3>3. walker[w].root \in Addr
      BY <1>2 DEF WalkerVisit, ThreadsTypeOK
    <3>4. KernelTypeOK'
      <4>1. [wd |-> WdFor(d), mask |-> heap[walker[w].root].mask] \in KWatch
        BY <3>2, <3>3, KernelAssumption DEF KWatch, Wd, RootsTypeOK, RootType
      <4>2. nextWd' \in 1 .. MaxWd + 1
        BY <2>2, KernelAssumption DEF AddWatch, WdFor, KernelTypeOK
      <4>3. kwatch' \in [Path -> KWatch]
        BY <2>2, <4>1 DEF AddWatch, KernelTypeOK
      <4> QED
        BY <1>2, <4>2, <4>3 DEF WalkerVisit, KernelTypeOK
    <3>5. TablesTypeOK'
      <4>1. CASE UNCHANGED tableVars
        BY <4>1, SameTypes
      <4>2. CASE /\ inotify_wd_to_watch' = [inotify_wd_to_watch EXCEPT ![WdFor(d)] = p]
                 /\ inotify_path_to_watch' = [inotify_path_to_watch EXCEPT ![p] = WdFor(d)]
        <5>1. WdFor(d) \in 0 .. MaxWd
          BY <3>2, KernelAssumption DEF Wd
        <5> QED
          BY <3>1, <4>2, <5>1 DEF TablesTypeOK
      <4> QED
        BY <2>2, <4>1, <4>2 DEF RecordWatch
    <3>6. ThreadsTypeOK'
      BY <1>2, <2>2 DEF WalkerVisit, ThreadsTypeOK, WalkerType
    <3> QED
      BY <1>2, <3>4, <3>5, <3>6, SameTypes DEF WalkerVisit
  <2> QED
    BY <1>2, <2>1, <2>2 DEF WalkerVisit, VisitBails
<1>3. CASE WalkerList(w)
  <2>1. Children(walker[w].path) \subseteq Seq(Name)
    BY PathFacts DEF Children, KernelTypeOK
  <2>2. ThreadsTypeOK'
    BY <1>3, <2>1 DEF WalkerList, ThreadsTypeOK, WalkerType
  <2> QED
    BY <1>3, <2>2, SameTypes DEF WalkerList
<1>4. CASE WalkerLoop(w)
  <2>1. Top(walker[w].todo) \subseteq walker[w].todo
    BY DEF Top
  <2>2. ThreadsTypeOK'
    <3>1. UNCHANGED <<destroyer, cleaner>> /\ walker[w].pc = "loop"
      BY <1>4 DEF WalkerLoop
    <3>2. CASE walker' = [walker EXCEPT ![w].todo = @ \ Top(walker[w].todo)]
      BY <3>1, <3>2 DEF ThreadsTypeOK, WalkerType
    <3>3. CASE \E p \in Top(walker[w].todo) :
                  walker' = [walker EXCEPT ![w].pc = "visit", ![w].path = p,
                                           ![w].todo = @ \ {p}]
      BY <2>1, <3>1, <3>3 DEF ThreadsTypeOK, WalkerType
    <3> QED
      BY <1>4, <3>2, <3>3 DEF WalkerLoop
  <2> QED
    BY <1>4, <2>2, SameTypes DEF WalkerLoop
<1>5. CASE WalkerEnd(w)
  <2>1. ThreadsTypeOK'
    BY <1>5, <1>a DEF WalkerEnd, ThreadsTypeOK
  <2>2. FlagsTypeOK'
    BY <1>5 DEF WalkerEnd, FlagsTypeOK, boundVars
  <2> QED
    BY <1>5, <2>1, <2>2, SameTypes DEF WalkerEnd
<1> QED
  BY <1>1, <1>2, <1>3, <1>4, <1>5 DEF WalkerStep

(* inotify_dump_roots() writes paths.                                      *)
LEMMA DumpType ==
    ASSUME RootsTypeOK, DumpRoots
    PROVE  dump' \subseteq Key /\ alive' \in BOOLEAN
<1>1. ASSUME NEW r \in Registered PROVE heap[inotify_roots[r]].path \in Key
  BY DEF Registered, RootsTypeOK, RootType
<1> QED
  BY <1>1 DEF DumpRoots

(* A step of _destroy_root().                                              *)
LEMMA DestroyerTypes ==
    ASSUME TypeOK, NEW a \in Addr, DestroyerStep(a)
    PROVE  TypeOK'
<1> USE DEF TypeOK
<1>1. CASE DestroyBegin(a)
  <2>1. RootsTypeOK'
    <3>1. [heap[a] EXCEPT !.queue = <<>>] \in RootType
      BY RootFields DEF RootsTypeOK
    <3> QED
      BY <1>1, <3>1 DEF DestroyBegin, RootsTypeOK
  <2>2. SubPaths(heap[a].path) \subseteq Entry
    BY EntriesType DEF SubPaths
  <2>3. ThreadsTypeOK'
    BY <1>1, <2>2 DEF DestroyBegin, ThreadsTypeOK, DestroyerType
  <2> QED
    BY <1>1, <2>1, <2>3, SameTypes DEF DestroyBegin
<1>2. CASE DestroyScan(a)
  <2>1. ThreadsTypeOK'
    <3> PICK e \in destroyer[a].todo :
            \/ destroyer' = [destroyer EXCEPT ![a].todo = @ \ {e}]
            \/ /\ inotify_path_to_watch[e.path] # 0
               /\ destroyer' = [destroyer EXCEPT
                     ![a].pc = "unwatch",
                     ![a].todo = @ \ {e},
                     ![a].at = [path |-> e.path, wd |-> inotify_path_to_watch[e.path]]]
      BY <1>2 DEF DestroyScan
    <3>1. e \in Entry
      BY DEF ThreadsTypeOK, DestroyerType
    <3>2. inotify_path_to_watch[e.path] # 0 =>
             [path |-> e.path, wd |-> inotify_path_to_watch[e.path]] \in Entry
      BY <3>1, KernelAssumption DEF TablesTypeOK, Entry, Wd
    <3>3. UNCHANGED <<walker, cleaner>> /\ destroyer[a].pc = "scan"
      BY <1>2 DEF DestroyScan
    <3> QED
      BY <3>2, <3>3 DEF ThreadsTypeOK, DestroyerType
  <2> QED
    BY <1>2, <2>1, SameTypes DEF DestroyScan
<1>3. CASE DestroyUnwatch(a)
  <2>1. KernelTypeOK'
    BY <1>3, RmWatchType DEF DestroyUnwatch, KernelTypeOK
  <2>2. ThreadsTypeOK'
    BY <1>3 DEF DestroyUnwatch, ThreadsTypeOK, DestroyerType
  <2>3. FlagsTypeOK'
    BY <1>3 DEF DestroyUnwatch, FlagsTypeOK, WatchLive, flagVars, boundVars
  <2> QED
    BY <1>3, <2>1, <2>2, <2>3, SameTypes DEF DestroyUnwatch
<1>4. CASE DestroyForget(a)
  <2>1. TablesTypeOK'
    BY <1>4, ForgetType DEF DestroyForget
  <2>2. ThreadsTypeOK'
    BY <1>4 DEF DestroyForget, ThreadsTypeOK, DestroyerType
  <2>3. FlagsTypeOK'
    BY <1>4 DEF DestroyForget, FlagsTypeOK, WatchLive, flagVars, boundVars
  <2> QED
    BY <1>4, <2>1, <2>2, <2>3, SameTypes DEF DestroyForget
<1>5. CASE DestroyEnd(a)
  <2>1. TablesTypeOK'
    BY <1>5, ForgetType DEF DestroyEnd
  <2>2. RootsTypeOK'
    <3>1. inotify_roots' = [inotify_roots EXCEPT ![heap[a].path] = NULL]
      BY <1>5 DEF DestroyEnd, Unregister
    <3>2. inotify_num_watched_roots' = inotify_num_watched_roots - 1 /\ heap' = heap
      BY <1>5 DEF DestroyEnd, Unregister
    <3>3. inotify_roots' \in [Path -> Addr \union {NULL}]
      BY <3>1, ExceptType DEF RootsTypeOK
    <3> QED
      BY <3>2, <3>3 DEF RootsTypeOK
  <2>3. ThreadsTypeOK'
    BY <1>5 DEF DestroyEnd, ThreadsTypeOK, DestroyerType
  <2> QED
    BY <1>5, <2>1, <2>2, <2>3, SameTypes DEF DestroyEnd
<1>6. CASE DestroyDump(a)
  <2>1. FlagsTypeOK'
    BY <1>6, DumpType DEF DestroyDump, FlagsTypeOK, flagVars, boundVars
  <2>2. ThreadsTypeOK'
    BY <1>6 DEF DestroyDump, ThreadsTypeOK, DestroyerType, NoDestroyer
  <2> QED
    BY <1>6, <2>1, <2>2, SameTypes DEF DestroyDump
<1> QED
  BY <1>1, <1>2, <1>3, <1>4, <1>5, <1>6 DEF DestroyerStep

(* A step of _inotify_memclean().                                          *)
LEMMA CleanerTypes ==
    ASSUME TypeOK, NEW c \in Cleaner, CleanerStep(c)
    PROVE  TypeOK'
<1> USE DEF TypeOK
<1>1. CASE MemcleanStart(c)
  <2>1. FlagsTypeOK' /\ ThreadsTypeOK'
    BY <1>1 DEF MemcleanStart, FlagsTypeOK, boundVars, ThreadsTypeOK, CleanerType
  <2> QED
    BY <1>1, <2>1, SameTypes DEF MemcleanStart
<1>2. CASE MemcleanSnapshot(c)
  <2>1. ThreadsTypeOK'
    BY <1>2, EntriesType DEF MemcleanSnapshot, ThreadsTypeOK, CleanerType
  <2> QED
    BY <1>2, <2>1, SameTypes DEF MemcleanSnapshot
<1>3. CASE MemcleanScan(c)
  <2>1. ThreadsTypeOK'
    <3> PICK e \in cleaner[c].todo :
            \/ cleaner' = [cleaner EXCEPT ![c].todo = @ \ {e}]
            \/ cleaner' = [cleaner EXCEPT ![c].pc = "remove",
                                          ![c].todo = @ \ {e},
                                          ![c].path = e.path]
      BY <1>3 DEF MemcleanScan
    <3>1. e.path \in Key
      BY DEF ThreadsTypeOK, CleanerType, Entry
    <3>2. UNCHANGED <<walker, destroyer>>
      BY <1>3 DEF MemcleanScan
    <3> QED
      BY <3>1, <3>2 DEF ThreadsTypeOK, CleanerType
  <2> QED
    BY <1>3, <2>1, SameTypes DEF MemcleanScan
<1>4. CASE MemcleanRemove(c)
  <2>1. KernelTypeOK'
    BY <1>4, RmWatchType DEF MemcleanRemove, KernelTypeOK
  <2>2. TablesTypeOK'
    BY <1>4, ForgetType DEF MemcleanRemove
  <2>3. ThreadsTypeOK'
    BY <1>4 DEF MemcleanRemove, ThreadsTypeOK, CleanerType
  <2> QED
    BY <1>4, <2>1, <2>2, <2>3, SameTypes DEF MemcleanRemove
<1>5. CASE MemcleanEnd(c)
  <2>1. FlagsTypeOK' /\ ThreadsTypeOK'
    BY <1>5 DEF MemcleanEnd, FlagsTypeOK, boundVars, ThreadsTypeOK, CleanerType,
                IdleCleaner
  <2> QED
    BY <1>5, <2>1, SameTypes DEF MemcleanEnd
<1> QED
  BY <1>1, <1>2, <1>3, <1>4, <1>5 DEF CleanerStep

-----------------------------------------------------------------------------
(* The main thread: what the ends of its handlers do to its own state.     *)

(* The loop of main() goes on to its next stage.                           *)
LEMMA StageType ==
    ASSUME NEW S \in SUBSET {"memclean", "inotify", "zmq"}, ToStage(S),
           batch' \in Seq(KEvent), Len(batch') <= ReadMax,
           reply' \in [code : Codes, events : Seq(Event), size : Int]
    PROVE  MainTypeOK'
<1>1. NextStage(S) \in {"memclean", "inotify", "zmq", "poll"}
  BY DEF NextStage
<1>2. NoRequest \in RequestType
  BY PathFacts DEF NoRequest, RequestType, Calls
<1>3. main' = [pc |-> NextStage(S), stages |-> S \ {NextStage(S)}, req |-> NoRequest,
               root |-> NULL, path |-> NoPath, todo |-> {}]
  BY DEF ToStage, IdleMain
<1>4. main' \in MainType
  BY <1>1, <1>2, <1>3, PathFacts DEF MainType, MainPc
<1> QED
  BY <1>1, <1>3, <1>4 DEF MainTypeOK

(* An answer to the client ends the stage.                                 *)
LEMMA AnswerType ==
    ASSUME MainTypeOK, NEW code \in Codes, NEW events \in Seq(Event),
           NEW size \in Int, Answer(code, events, size), UNCHANGED batch
    PROVE  MainTypeOK'
<1>1. reply' \in [code : Codes, events : Seq(Event), size : Int]
  BY DEF Answer
<1>2. main.stages \in SUBSET {"memclean", "inotify", "zmq"}
  BY DEF MainTypeOK, MainType
<1> QED
  BY <1>1, <1>2, StageType DEF Answer, MainTypeOK

(* Answers without events.                                                 *)
LEMMA PlainAnswerType ==
    ASSUME MainTypeOK, UNCHANGED batch
    PROVE  /\ \A code \in Codes : Error(code) => MainTypeOK'
           /\ \A size \in Int : Answer("data", <<>>, size) => MainTypeOK'
           /\ Success => MainTypeOK'
<1>1. <<>> \in Seq(Event) /\ "success" \in Codes /\ "data" \in Codes /\ 0 \in Int
  BY DEF Codes
<1>2. ASSUME NEW code \in Codes, NEW size \in Int, Answer(code, <<>>, size)
      PROVE  MainTypeOK'
  BY <1>1, <1>2, AnswerType
<1> QED
  BY <1>1, <1>2, Zenon DEF Error, Success

(* A handler goes on with a request, a path and perhaps a Root.            *)
LEMMA ContinueType ==
    ASSUME MainTypeOK, UNCHANGED batch,
           NEW r \in RequestType, NEW path \in Seq(Name),
           NEW root \in Addr \union {NULL},
           NEW pc \in {"watch_check", "watch_clash", "watch_open", "watch_insert",
                       "watch_dump", "watch_spawn", "unwatch_use", "pause_set",
                       "unpause_set", "get", "dequeue", "queue_size"},
           pc \in {"watch_clash", "watch_dump", "watch_spawn", "unwatch_use",
                   "dequeue", "queue_size"} => root \in Addr,
           pc \in {"watch_insert", "watch_dump", "watch_spawn"} => path \in Path,
           Continue(r, pc, path, root)
    PROVE  MainTypeOK'
<1>1. main' = [main EXCEPT !.pc = pc, !.req = r, !.path = path, !.root = root]
  BY DEF Continue
<1>2. main' \in MainType /\ main'.pc = pc /\ main'.path = path /\ main'.root = root
  BY <1>1 DEF MainTypeOK, MainType, MainPc
<1> QED
  BY <1>2 DEF MainTypeOK, Continue

(* The handler of inotify events is done with the oldest event.            *)
LEMMA DropType ==
    ASSUME MainTypeOK, batch # <<>>, DropEvent, UNCHANGED reply
    PROVE  MainTypeOK'
<1>1. batch' \in Seq(KEvent) /\ Len(batch') <= ReadMax
  BY StateAssumption DEF DropEvent, MainTypeOK
<1>2. main' \in MainType /\ main'.pc = "event"
  BY PathFacts DEF DropEvent, MainTypeOK, MainType, MainPc
<1> QED
  BY <1>1, <1>2 DEF MainTypeOK

(* The calls of a client, as far as the dispatching step takes them.       *)
LEMMA DispatchType ==
    ASSUME TypeOK, NEW r \in Requests, ZmqDispatchEvent(r)
    PROVE  TypeOK'
<1> USE DEF TypeOK
<1>a. r \in RequestType /\ r.path \in Seq(Name) /\ UNCHANGED batch
  BY StateAssumption DEF RequestType, ZmqDispatchEvent
<1>b. {"not_absolute", "already_watched", "not_watched", "bad_call"} \subseteq Codes
  BY DEF Codes
<1>c. \A p : IsRoot(p) \in Addr \union {NULL}
  BY RootLookup
<1>1. MainTypeOK'
  <2>1. CASE EventWatch(r)
    <3>1. (IF r.path = Slash THEN r.path ELSE StripSlash(r.path)) \in Seq(Name)
      BY <1>a, PathFacts
    <3>2. CASE Error("not_absolute") \/ Error("already_watched")
      BY <1>a, <1>b, <3>2, PlainAnswerType
    <3>3. CASE Continue(r, "watch_check",
                        IF r.path = Slash THEN r.path ELSE StripSlash(r.path), NULL)
      BY <1>a, <3>1, <3>3, ContinueType
    <3> QED
      BY <2>1, <3>2, <3>3 DEF EventWatch
  <2>2. CASE EventUnwatch(r)
    <3>1. CASE Error("not_watched")
      BY <1>a, <1>b, <3>1, PlainAnswerType
    <3>2. CASE /\ IsRoot(StripSlash(r.path)) # NULL
               /\ Continue(r, "unwatch_use", r.path, IsRoot(StripSlash(r.path)))
      BY <1>a, <1>c, <3>2, ContinueType
    <3> QED
      BY <2>2, <3>1, <3>2 DEF EventUnwatch
  <2>3. CASE EventOnRoot(r)
    <3>1. CASE Error("not_watched")
      BY <1>a, <1>b, <3>1, PlainAnswerType
    <3>2. CASE \/ Continue(r, "pause_set", r.path, NULL)
               \/ Continue(r, "unpause_set", r.path, NULL)
               \/ Continue(r, "get", r.path, NULL)
      BY <1>a, <3>2, ContinueType
    <3>3. CASE /\ IsRoot(r.path) # NULL
               /\ Continue(r, "queue_size", r.path, IsRoot(r.path))
      BY <1>a, <1>c, <3>3, ContinueType
    <3>4. CASE Answer("data", <<>>, 1234)
      BY <1>a, <3>4, PlainAnswerType
    <3> QED
      BY <2>3, <3>1, <3>2, <3>3, <3>4 DEF EventOnRoot
  <2>4. CASE EventQuery(r)
    <3>1. NumWatchedDirs \in Int
      BY EntriesType, FS_CardinalityType DEF NumWatchedDirs
    <3>2. NumRoots \in Int
      <4>1. IsFiniteSet(Registered)
        BY PathAssumption, FS_Subset DEF Registered
      <4> QED
        BY <4>1, FS_CardinalityType DEF NumRoots
    <3> QED
      BY <1>a, <1>b, <2>4, <3>1, <3>2, PlainAnswerType DEF EventQuery
  <2> QED
    BY <2>1, <2>2, <2>3, <2>4 DEF ZmqDispatchEvent
<1>2. FlagsTypeOK'
  BY StateAssumption DEF ZmqDispatchEvent, CanSend, FlagsTypeOK, flagVars
<1> QED
  BY <1>1, <1>2, SameTypes DEF ZmqDispatchEvent

(* The timers and the inotify stage of main().                             *)
LEMMA LoopTypes ==
    ASSUME TypeOK,
           \/ Poll \/ InotifyMemclean \/ InotifyRewatchRoots \/ RewatchDone
           \/ \E a \in Addr : RewatchNext(a)
           \/ ReadEvents \/ EventsDone
    PROVE  TypeOK'
<1> USE DEF TypeOK
<1>a. /\ main.stages \in SUBSET {"memclean", "inotify", "zmq"}
      /\ batch \in Seq(KEvent) /\ Len(batch) <= ReadMax
      /\ reply \in [code : Codes, events : Seq(Event), size : Int]
  BY DEF MainTypeOK, MainType
<1>1. CASE Poll
  <2>1. MainTypeOK'
    <3>1. reply' \in [code : Codes, events : Seq(Event), size : Int]
      BY <1>1 DEF Poll, NoReply, Codes
    <3> QED
      BY <1>1, <1>a, <3>1, StageType DEF Poll
  <2>2. FlagsTypeOK'
    BY <1>1, StateAssumption DEF Poll, FlagsTypeOK, flagVars
  <2> QED
    BY <1>1, <2>1, <2>2, SameTypes DEF Poll
<1>2. CASE InotifyMemclean
  <2>1. ThreadsTypeOK'
    <3>1. CASE UNCHANGED cleaner
      BY <1>2, <3>1, SameTypes DEF InotifyMemclean, threadVars
    <3>2. CASE \E c \in Cleaner : cleaner' = [cleaner EXCEPT ![c].pc = "start"]
      BY <1>2, <3>2 DEF InotifyMemclean, ThreadsTypeOK, CleanerType
    <3> QED
      BY <1>2, <3>1, <3>2 DEF InotifyMemclean
  <2>2. MainTypeOK'
    BY <1>2 DEF InotifyMemclean, MainTypeOK, MainType, MainPc
  <2> QED
    BY <1>2, <2>1, <2>2, SameTypes DEF InotifyMemclean
<1>3. CASE InotifyRewatchRoots
  <2>1. MainTypeOK'
    <3>1. CASE ToStage(main.stages)
      BY <1>3, <1>a, <3>1, StageType DEF InotifyRewatchRoots
    <3>2. CASE main' = [main EXCEPT !.pc = "rewatch_next",
                             !.todo = {inotify_roots[p] : p \in Registered}]
      <4>1. {inotify_roots[p] : p \in Registered} \subseteq Addr
        BY RootLookup
      <4>2. main' \in MainType /\ main'.pc = "rewatch_next"
        BY <3>2, <4>1 DEF MainTypeOK, MainType, MainPc
      <4> QED
        BY <1>3, <4>2 DEF InotifyRewatchRoots, MainTypeOK
    <3> QED
      BY <1>3, <3>1, <3>2 DEF InotifyRewatchRoots
  <2> QED
    BY <1>3, <2>1, SameTypes DEF InotifyRewatchRoots
<1>4. CASE RewatchDone
  <2>1. MainTypeOK'
    BY <1>4, <1>a, StageType DEF RewatchDone
  <2> QED
    BY <1>4, <2>1, SameTypes DEF RewatchDone
<1>5. ASSUME NEW a \in Addr, RewatchNext(a) PROVE TypeOK'
  <2>1. ThreadsTypeOK'
    <3>1. heap[a].path \in Seq(Name)
      BY PathFacts DEF RootsTypeOK, RootType
    <3>2. CASE UNCHANGED walker
      BY <1>5, <3>2, SameTypes DEF RewatchNext, threadVars
    <3>3. CASE SpawnWalker(heap[a].path, a, TRUE)
      BY <1>5, <3>1, <3>3, SpawnType DEF RewatchNext
    <3> QED
      BY <1>5, <3>2, <3>3 DEF RewatchNext
  <2>2. MainTypeOK'
    BY <1>5 DEF RewatchNext, MainTypeOK, MainType, MainPc
  <2>3. FlagsTypeOK'
    BY <1>5 DEF RewatchNext, FlagsTypeOK, Live, flagVars, boundVars
  <2> QED
    BY <1>5, <2>1, <2>2, <2>3, SameTypes DEF RewatchNext
<1>6. CASE ReadEvents
  <2> DEFINE n == IF Len(kq) < ReadMax THEN Len(kq) ELSE ReadMax
  <2>1. /\ n \in Nat /\ n <= ReadMax /\ n <= Len(kq)
        /\ FirstEvents(kq) = SubSeq(kq, 1, n)
        /\ kq \in Seq(KEvent)
    BY StateAssumption DEF FirstEvents, KernelTypeOK
  <2> HIDE DEF n
  <2>2. /\ FirstEvents(kq) \in Seq(KEvent) /\ Len(FirstEvents(kq)) = n
        /\ SubSeq(kq, n + 1, Len(kq)) \in Seq(KEvent)
    BY <2>1
  <2>3. batch' \in Seq(KEvent) /\ Len(batch') <= ReadMax /\ kq' \in Seq(KEvent)
    BY <1>6, <2>1, <2>2 DEF ReadEvents
  <2>4. MainTypeOK'
    BY <1>6, <2>3 DEF ReadEvents, MainTypeOK, MainType, MainPc
  <2>5. KernelTypeOK'
    BY <1>6, <2>3 DEF ReadEvents, KernelTypeOK
  <2> QED
    BY <1>6, <2>4, <2>5, SameTypes DEF ReadEvents
<1>7. CASE EventsDone
  <2>1. MainTypeOK'
    BY <1>7, <1>a, StageType DEF EventsDone
  <2> QED
    BY <1>7, <2>1, SameTypes DEF EventsDone
<1> QED
  BY <1>1, <1>2, <1>3, <1>4, <1>5, <1>6, <1>7

(* The handling of one inotify event.                                      *)
LEMMA EventTypes ==
    ASSUME TypeOK, LookupEvent \/ NewDirectory \/ LostDirectory \/ InotifyEnqueue
    PROVE  TypeOK'
<1> USE DEF TypeOK
<1>a. batch # <<>> => Head(batch) \in KEvent
  BY DEF MainTypeOK
<1>1. CASE LookupEvent
  <2>1. MainTypeOK'
    <3>1. CASE DropEvent
      BY <1>1, <3>1, DropType DEF LookupEvent
    <3>2. CASE /\ ~Ignored(Head(batch))
               /\ \E a \in FoundRoots(Head(batch)) :
                    main' = [main EXCEPT
                      !.pc = IF Head(batch).kind \in DirKinds THEN "dir" ELSE "enqueue",
                      !.root = a, !.path = inotify_wd_to_watch[Head(batch).wd]]
               /\ UNCHANGED batch
      <4>1. PICK a \in FoundRoots(Head(batch)) :
              main' = [main EXCEPT
                !.pc = IF Head(batch).kind \in DirKinds THEN "dir" ELSE "enqueue",
                !.root = a, !.path = inotify_wd_to_watch[Head(batch).wd]]
        BY <3>2
      <4>2. a \in Addr
        BY RootLookup DEF FoundRoots
      <4>3. inotify_wd_to_watch[Head(batch).wd] \in Key
        BY DEF FoundRoots, WatchLive, TablesTypeOK
      <4>4. Head(batch).kind \in Kinds
        BY <1>1, <1>a, <3>2 DEF LookupEvent, Ignored, KEvent
      <4>5. /\ main' \in MainType /\ main'.root = a
            /\ main'.path = inotify_wd_to_watch[Head(batch).wd]
            /\ main'.pc \in {"dir", "enqueue"}
        BY <4>1, <4>2, <4>3, PathFacts DEF MainTypeOK, MainType, MainPc
      <4> QED
        BY <1>1, <3>2, <4>2, <4>3, <4>4, <4>5 DEF LookupEvent, MainTypeOK
    <3> QED
      BY <1>1, <3>1, <3>2 DEF LookupEvent
  <2> QED
    BY <1>1, <2>1, SameTypes DEF LookupEvent
<1>b. /\ ToEnqueue /\ main.pc = "dir" /\ UNCHANGED reply => MainTypeOK'
      /\ DropEvent /\ main.pc \in {"dir", "enqueue"} /\ UNCHANGED reply => MainTypeOK'
  <2>1. ASSUME ToEnqueue, main.pc = "dir", UNCHANGED reply PROVE MainTypeOK'
    BY <2>1 DEF ToEnqueue, MainTypeOK, MainType, MainPc
  <2> QED
    BY <2>1, DropType DEF MainTypeOK
<1>2. CASE NewDirectory
  <2>1. MainTypeOK'
    BY <1>2, <1>b DEF NewDirectory
  <2>2. EventPath \in Seq(Name) /\ main.root \in Addr
    BY <1>2, <1>a, PathFacts DEF NewDirectory, EventPath, MainTypeOK, KEvent
  <2>3. ThreadsTypeOK'
    <3>1. CASE UNCHANGED walker
      BY <1>2, <3>1, SameTypes DEF NewDirectory, threadVars
    <3>2. CASE SpawnWalker(EventPath, main.root, FALSE)
      BY <1>2, <2>2, <3>2, SpawnType DEF NewDirectory
    <3> QED
      BY <1>2, <3>1, <3>2 DEF NewDirectory
  <2> QED
    BY <1>2, <2>1, <2>3, SameTypes DEF NewDirectory
<1>3. CASE LostDirectory
  <2>1. MainTypeOK'
    BY <1>3, <1>b DEF LostDirectory
  <2>2. KernelTypeOK' /\ TablesTypeOK'
    <3>1. CASE UNCHANGED <<kwatch, tableVars>>
      BY <1>3, <3>1, SameTypes DEF LostDirectory, kernelVars
    <3>2. CASE \E G : kwatch' = RmWatch({e.wd : e \in G}) /\ Forget(G)
      <4>1. KernelTypeOK'
        BY <1>3, <3>2, RmWatchType DEF LostDirectory, KernelTypeOK
      <4>2. TablesTypeOK'
        BY <3>2, ForgetType
      <4> QED
        BY <4>1, <4>2
    <3> QED
      BY <1>3, <3>1, <3>2 DEF LostDirectory
  <2> QED
    BY <1>3, <2>1, <2>2, SameTypes DEF LostDirectory
<1>4. CASE InotifyEnqueue
  <2> DEFINE ev == [path |-> main.path, name |-> Head(batch).name,
                    kind |-> Head(batch).kind]
  <2>1. main.root \in Addr /\ ev \in Event
    BY <1>4, <1>a DEF InotifyEnqueue, MainTypeOK, Event, KEvent
  <2>2. MainTypeOK'
    BY <1>4, <1>b DEF InotifyEnqueue
  <2>3. RootsTypeOK'
    <3>1. heap' \in [Addr -> RootType]
      <4> DEFINE q == Append(heap[main.root].queue, ev)
      <4>1. q \in Seq(Event)
        <5> HIDE DEF ev
        <5> QED
          BY <2>1 DEF RootsTypeOK, RootType
      <4>2. heap' = heap \/ heap' = [heap EXCEPT ![main.root].queue = q]
        BY <1>4 DEF InotifyEnqueue
      <4> HIDE DEF q
      <4>3. [heap[main.root] EXCEPT !.queue = q] \in RootType
        BY <2>1, <4>1, RootFields DEF RootsTypeOK
      <4> QED
        BY <2>1, <4>2, <4>3 DEF RootsTypeOK
    <3> QED
      BY <1>4, <3>1 DEF InotifyEnqueue, RootsTypeOK
  <2>4. FlagsTypeOK'
    <3>1. alive' \in BOOLEAN
      BY <1>4 DEF InotifyEnqueue, QueueLive, Live
    <3> QED
      BY <1>4, <3>1 DEF InotifyEnqueue, FlagsTypeOK, flagVars, boundVars
  <2> QED
    BY <1>4, <2>2, <2>3, <2>4, SameTypes DEF InotifyEnqueue
<1> QED
  BY <1>1, <1>2, <1>3, <1>4

(* inotify_watch_tree() and inotify_unwatch_tree().                        *)
LEMMA WatchTypes ==
    ASSUME TypeOK,
           \/ WatchCheck \/ WatchClash \/ WatchOpen \/ WatchInsert \/ WatchDump
           \/ WatchSpawn \/ Unwatch
    PROVE  TypeOK'
<1> USE DEF TypeOK
<1>a. main.req \in RequestType /\ main.path \in Seq(Name)
  BY DEF MainTypeOK, MainType
<1>b. {"parent_of_root", "child_of_root", "being_destroyed", "already_watched",
       "does_not_exist", "no_thread"} \subseteq Codes
  BY DEF Codes
<1>1. CASE WatchCheck
  <2>1. MainTypeOK'
    <3>1. CASE Error("parent_of_root")
      BY <1>1, <1>b, <3>1, PlainAnswerType DEF WatchCheck
    <3>2. CASE \E a \in PathToRoot(main.path) :
                  Continue(main.req, "watch_clash", main.path, a)
      BY <1>1, <1>a, <3>2, RootLookup, ContinueType DEF WatchCheck
    <3>3. CASE Continue(main.req, "watch_open", main.path, NULL)
      BY <1>1, <1>a, <3>3, ContinueType DEF WatchCheck
    <3> QED
      BY <1>1, <3>1, <3>2, <3>3 DEF WatchCheck
  <2> QED
    BY <1>1, <2>1, SameTypes DEF WatchCheck
<1>2. CASE WatchClash
  <2>1. MainTypeOK'
    BY <1>2, <1>b, PlainAnswerType DEF WatchClash
  <2>2. FlagsTypeOK'
    BY <1>2 DEF WatchClash, FlagsTypeOK, Live, flagVars, boundVars
  <2> QED
    BY <1>2, <2>1, <2>2, SameTypes DEF WatchClash
<1>3. CASE WatchOpen
  <2>1. MainTypeOK'
    <3>1. CASE Error("does_not_exist")
      BY <1>3, <1>b, <3>1, PlainAnswerType DEF WatchOpen
    <3>2. CASE main.path \in dirs /\ Continue(main.req, "watch_insert", main.path, NULL)
      BY <1>3, <1>a, <3>2, ContinueType DEF WatchOpen, KernelTypeOK
    <3> QED
      BY <1>3, <3>1, <3>2 DEF WatchOpen
  <2> QED
    BY <1>3, <2>1, SameTypes DEF WatchOpen
<1>4. CASE WatchInsert
  <2> PICK a \in Addr :
         /\ heap' = [heap EXCEPT ![a] = NewRoot(main.req, main.path)]
         /\ Register(main.path, a)
         /\ Continue(main.req, "watch_dump", main.path, a)
    BY <1>4 DEF WatchInsert
  <2>1. main.path \in Path
    BY <1>4 DEF WatchInsert, MainTypeOK
  <2>2. MainTypeOK'
    BY <1>4, <1>a, <2>1, ContinueType DEF WatchInsert
  <2>3. NewRoot(main.req, main.path) \in RootType
    <3>1. <<>> \in Seq(Event) /\ main.path \in Key
      BY <2>1, PathFacts
    <3> QED
      BY <1>a, <3>1 DEF NewRoot, RootType, RequestType
  <2>4. RootsTypeOK'
    BY <2>1, <2>3 DEF RootsTypeOK, Register
  <2> QED
    BY <1>4, <2>2, <2>4, SameTypes DEF WatchInsert
<1>5. CASE WatchDump
  <2>1. MainTypeOK'
    BY <1>5, <1>a, ContinueType DEF WatchDump, MainTypeOK
  <2>2. FlagsTypeOK'
    BY <1>5, DumpType DEF WatchDump, FlagsTypeOK, flagVars, boundVars
  <2> QED
    BY <1>5, <2>1, <2>2, SameTypes DEF WatchDump
<1>6. CASE WatchSpawn
  <2>1. MainTypeOK'
    BY <1>6, <1>b, PlainAnswerType DEF WatchSpawn
  <2>2. ThreadsTypeOK'
    <3>1. CASE UNCHANGED walker
      BY <1>6, <3>1, SameTypes DEF WatchSpawn, threadVars
    <3>2. CASE SpawnWalker(main.path, main.root, FALSE)
      BY <1>6, <1>a, <3>2, SpawnType DEF WatchSpawn, MainTypeOK
    <3> QED
      BY <1>6, <3>1, <3>2 DEF WatchSpawn
  <2> QED
    BY <1>6, <2>1, <2>2, SameTypes DEF WatchSpawn
<1>7. CASE Unwatch
  <2>1. main.root \in Addr
    BY <1>7 DEF Unwatch, MainTypeOK
  <2>2. MainTypeOK'
    <3>1. CASE Success \/ Error("being_destroyed") \/ Error("no_thread")
      BY <1>7, <1>b, <3>1, PlainAnswerType DEF Unwatch
    <3>2. CASE UNCHANGED <<main, reply>>
      BY <1>7, <3>2, SameTypes DEF Unwatch
    <3> QED
      BY <1>7, <3>1, <3>2 DEF Unwatch
  <2>3. RootsTypeOK'
    <3>1. heap' = heap \/ heap' = [heap EXCEPT ![main.root].destroy = TRUE]
      BY <1>7 DEF Unwatch
    <3>2. [heap[main.root] EXCEPT !.destroy = TRUE] \in RootType
      BY <2>1, RootFields DEF RootsTypeOK
    <3>3. heap' \in [Addr -> RootType]
      BY <2>1, <3>1, <3>2 DEF RootsTypeOK
    <3> QED
      BY <1>7, <3>3 DEF Unwatch, RootsTypeOK
  <2>4. FlagsTypeOK'
    <3>1. alive' \in BOOLEAN
      BY <1>7 DEF Unwatch, Live, Crash, FlagsTypeOK
    <3> QED
      BY <1>7, <3>1 DEF Unwatch, FlagsTypeOK, flagVars, boundVars
  <2>5. ThreadsTypeOK'
    <3>1. destroyer' = destroyer \/ destroyer' = [destroyer EXCEPT ![main.root].pc = "begin"]
      BY <1>7 DEF Unwatch
    <3>2. walker' = walker /\ cleaner' = cleaner
      BY <1>7 DEF Unwatch
    <3> QED
      BY <2>1, <3>1, <3>2 DEF ThreadsTypeOK, DestroyerType
  <2> QED
    BY <1>7, <2>2, <2>3, <2>4, <2>5, SameTypes DEF Unwatch
<1> QED
  BY <1>1, <1>2, <1>3, <1>4, <1>5, <1>6, <1>7

(* The calls on a root: pause, unpause, get_events and get_queue_size.     *)
LEMMA RootCallTypes ==
    ASSUME TypeOK,
           PauseTree \/ UnpauseTree \/ GetEvents \/ InotifyDequeue \/ QueueSize
    PROVE  TypeOK'
<1> USE DEF TypeOK
<1>a. main.req \in RequestType /\ main.path \in Seq(Name)
  BY DEF MainTypeOK, MainType
<1>b. "not_watched" \in Codes /\ "data" \in Codes /\ 0 \in Int /\ <<>> \in Seq(Event)
  BY DEF Codes
<1>c. \A p : IsRoot(p) \in Addr \union {NULL}
  BY RootLookup
<1>d. ASSUME NEW v \in BOOLEAN, SetPause(v), IsRoot(main.path) # NULL,
             UNCHANGED <<inotify_roots, inotify_num_watched_roots>>
      PROVE  RootsTypeOK'
  <2> DEFINE a == IsRoot(main.path)
  <2>1. a \in Addr
    BY <1>c, <1>d
  <2> HIDE DEF a
  <2>2. [heap[a] EXCEPT !.pause = v] \in RootType
    BY <2>1, RootFields DEF RootsTypeOK
  <2>3. heap' = [heap EXCEPT ![a].pause = v]
    BY <1>d DEF SetPause, a
  <2> QED
    BY <1>d, <2>1, <2>2, <2>3 DEF RootsTypeOK
<1>e. ASSUME NEW events \in Seq(Event), Deliver(events), UNCHANGED batch
      PROVE  MainTypeOK'
  BY <1>b, <1>e, AnswerType, PlainAnswerType DEF Deliver
<1>1. CASE PauseTree
  <2>1. CASE Error("not_watched") /\ UNCHANGED heap
    <3>1. MainTypeOK'
      BY <1>1, <1>b, <2>1, PlainAnswerType DEF PauseTree
    <3> QED
      BY <1>1, <2>1, <3>1, SameTypes DEF PauseTree, rootVars
  <2>2. CASE /\ IsRoot(main.path) # NULL
             /\ SetPause(TRUE) /\ Continue(main.req, "get", main.path, NULL)
    <3>1. MainTypeOK'
      BY <1>1, <1>a, <2>2, ContinueType DEF PauseTree
    <3>2. RootsTypeOK'
      BY <1>1, <1>d, <2>2 DEF PauseTree
    <3> QED
      BY <1>1, <3>1, <3>2, SameTypes DEF PauseTree
  <2> QED
    BY <1>1, <2>1, <2>2 DEF PauseTree
<1>2. CASE UnpauseTree
  <2>1. CASE Error("not_watched") /\ UNCHANGED heap
    <3>1. MainTypeOK'
      BY <1>2, <1>b, <2>1, PlainAnswerType DEF UnpauseTree
    <3> QED
      BY <1>2, <2>1, <3>1, SameTypes DEF UnpauseTree, rootVars
  <2>2. CASE IsRoot(main.path) # NULL /\ SetPause(FALSE) /\ Success
    <3>1. MainTypeOK'
      BY <1>2, <2>2, PlainAnswerType DEF UnpauseTree
    <3>2. RootsTypeOK'
      BY <1>2, <1>d, <2>2 DEF UnpauseTree
    <3> QED
      BY <1>2, <3>1, <3>2, SameTypes DEF UnpauseTree
  <2> QED
    BY <1>2, <2>1, <2>2 DEF UnpauseTree
<1>3. CASE GetEvents
  <2>1. CASE Deliver(<<>>)
    BY <1>3, <1>b, <1>e, <2>1, SameTypes DEF GetEvents
  <2>2. CASE /\ IsRoot(main.path) # NULL
             /\ Continue(main.req, "dequeue", main.path, IsRoot(main.path))
    <3>1. MainTypeOK'
      BY <1>3, <1>a, <1>c, <2>2, ContinueType DEF GetEvents
    <3> QED
      BY <1>3, <3>1, SameTypes DEF GetEvents
  <2> QED
    BY <1>3, <2>1, <2>2 DEF GetEvents
<1>4. CASE InotifyDequeue
  <2> DEFINE a == main.root
             q == heap[a].queue
             n == DequeueCount(Len(q))
  <2>1. a \in Addr
    BY <1>4 DEF InotifyDequeue, MainTypeOK
  <2>2. q \in Seq(Event)
    BY <2>1 DEF RootsTypeOK, RootType
  <2>3. n \in Nat /\ n <= Len(q)
    <3>1. main.req.count \in Nat
      BY <1>a DEF RequestType
    <3>2. Len(q) \in Nat
      BY <2>2
    <3> HIDE DEF q
    <3> QED
      BY <3>1, <3>2 DEF DequeueCount
  <2> HIDE DEF n, q
  <2>4. SubSeq(q, 1, n) \in Seq(Event) /\ SubSeq(q, n + 1, Len(q)) \in Seq(Event)
    BY <2>2, <2>3
  <2>5. CASE /\ heap' = [heap EXCEPT ![a].queue = SubSeq(q, n + 1, Len(q))]
             /\ Deliver(SubSeq(q, 1, n))
             /\ UNCHANGED alive
    <3>1. MainTypeOK'
      BY <1>4, <1>e, <2>4, <2>5 DEF InotifyDequeue
    <3>2. [heap[a] EXCEPT !.queue = SubSeq(q, n + 1, Len(q))] \in RootType
      BY <2>1, <2>4, RootFields DEF RootsTypeOK
    <3>3. RootsTypeOK'
      BY <1>4, <2>1, <2>5, <3>2 DEF InotifyDequeue, RootsTypeOK
    <3> QED
      BY <1>4, <2>5, <3>1, <3>3, SameTypes DEF InotifyDequeue
  <2>6. CASE Deliver(<<>>) /\ alive' \in BOOLEAN /\ UNCHANGED heap
    <3>1. MainTypeOK'
      BY <1>4, <1>b, <1>e, <2>6 DEF InotifyDequeue
    <3>2. FlagsTypeOK'
      BY <1>4, <2>6 DEF InotifyDequeue, FlagsTypeOK, flagVars, boundVars
    <3> QED
      BY <1>4, <2>6, <3>1, <3>2, SameTypes DEF InotifyDequeue, rootVars
  <2> QED
    BY <1>4, <2>5, <2>6 DEF InotifyDequeue, n, q
<1>5. CASE QueueSize
  <2>1. Len(heap[main.root].queue) \in Int
    BY <1>5 DEF QueueSize, MainTypeOK, RootsTypeOK, RootType
  <2>2. MainTypeOK'
    BY <1>5, <1>b, <2>1, PlainAnswerType DEF QueueSize
  <2>3. FlagsTypeOK'
    BY <1>5 DEF QueueSize, FlagsTypeOK, Live, flagVars, boundVars
  <2> QED
    BY <1>5, <2>2, <2>3, SameTypes DEF QueueSize
<1> QED
  BY <1>1, <1>2, <1>3, <1>4, <1>5

-----------------------------------------------------------------------------
(* Init establishes the types.                                             *)
LEMMA InitTypes == Init => TypeOK
<1> SUFFICES ASSUME Init PROVE TypeOK
  OBVIOUS
<1> USE PathAssumption, KernelAssumption, StateAssumption, PathFacts DEF Init
<1>1. KernelTypeOK
  BY DEF KernelInit, KernelTypeOK, NoWatch, KWatch
<1>2. RootsTypeOK
  <2>1. NoRoot \in RootType
    <3>1. <<>> \in Seq(Event)
      OBVIOUS
    <3> QED
      BY <3>1 DEF NoRoot, RootType
  <2> QED
    BY <2>1 DEF RootsTypeOK
<1>3. TablesTypeOK
  BY DEF TablesTypeOK
<1>4. FlagsTypeOK
  <2>1. ticks \in 0 .. MaxTicks /\ reqs \in 0 .. MaxRequests
    OBVIOUS
  <2>2. dump \subseteq Key
    OBVIOUS
  <2>3. IN_MEMCLEAN \in BOOLEAN /\ IN_ROOT_REWATCH \in BOOLEAN /\ alive \in BOOLEAN
    OBVIOUS
  <2> QED
    BY <2>1, <2>2, <2>3 DEF FlagsTypeOK
<1>5. MainTypeOK
  <2>1. IdleMain \in MainType
    BY DEF IdleMain, NoRequest, MainType, MainPc, RequestType, Calls
  <2>2. NoReply \in [code : Codes, events : Seq(Event), size : Int]
    BY DEF NoReply, Codes
  <2> QED
    BY <2>1, <2>2 DEF MainTypeOK, IdleMain
<1>6. ThreadsTypeOK
  BY DEF ThreadsTypeOK, IdleWalker, WalkerType, NoDestroyer, DestroyerType,
         IdleCleaner, CleanerType
<1> QED
  BY <1>1, <1>2, <1>3, <1>4, <1>5, <1>6 DEF TypeOK

(* Every step of the main thread keeps the types.                          *)
LEMMA MainTypes == TypeOK /\ MainStep => TypeOK'
  BY LoopTypes, EventTypes, DispatchType, WatchTypes, RootCallTypes DEF MainStep

(* Every step of the specification keeps the types.                        *)
LEMMA NextTypes == TypeOK /\ [Next]_vars => TypeOK'
<1> SUFFICES ASSUME TypeOK, [Next]_vars PROVE TypeOK'
  OBVIOUS
<1>1. CASE Environment
  <2>1. KernelTypeOK'
    BY <1>1, FsTypes DEF Environment, TypeOK
  <2> QED
    BY <1>1, <2>1, SameTypes DEF Environment, TypeOK
<1>2. CASE MainStep
  BY <1>2, MainTypes
<1>3. CASE UNCHANGED vars
  BY <1>3, SameTypes DEF vars, TypeOK
<1> QED
  BY <1>1, <1>2, <1>3, WalkerTypes, DestroyerTypes, CleanerTypes DEF Next

(* Type correctness of the daemon, for every set of paths, requests and    *)
(* threads: no handler and no thread uses NULL, a path that is none or an  *)
(* event that is not there.                                                *)
THEOREM TypeCorrect == Spec => []TypeOK
  BY InitTypes, NextTypes, PTL DEF Spec

=============================================================================
