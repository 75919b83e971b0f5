------------------------------ MODULE RootDump ------------------------------
(***************************************************************************)
(* roots.dump: inotify_dump_roots() writes the roots to rewatch, and       *)
(* inotify_setup() reads them at startup while every root it watches makes *)
(* inotify_dump_roots() rewrite the same file.  The process may end at any *)
(* moment, be stopped with SIGINT, and be started again.                   *)
(***************************************************************************)
EXTENDS Naturals, Sequences, FiniteSets

CONSTANTS
    Path,       \* the paths of roots, no two of them nested
    Lasting,    \* those whose directories other processes leave alone
    NoPath,
    Thread,     \* the threads that destroy roots
    BufLines,   \* how many entries a stdio buffer holds
    MaxCalls,   \* bound on the calls of clients and the alarms
    MaxDowns,   \* bound on the ends of the process
    MaxFsOps    \* bound on the changes of directories

ASSUME DumpAssumptions ==
    /\ IsFiniteSet(Path) /\ Lasting \subseteq Path /\ NoPath \notin Path
    /\ Thread \intersect {"nobody", "main"} = {}
    /\ BufLines \in Nat \ {0}
    /\ MaxCalls \in Nat /\ MaxDowns \in Nat /\ MaxFsOps \in Nat

VARIABLES
    file,           \* the entries of roots.dump on disk
    dirs,           \* the directories that exist
    inotify_roots,  \* per path: "none", or the kind of its Root
    main,           \* main thread: where it is, its path, where a dump returns
    reader,         \* the stdio buffer of inotify_setup()
    writer,         \* the thread in inotify_dump_roots(), which has the mutex
    destroyer,      \* the threads in _destroy_root()
    calls, downs, fsOps

dumpVars == <<file, dirs, inotify_roots, main, reader, writer, destroyer,
              calls, downs, fsOps>>
boundVars == <<calls, downs, fsOps>>

(* A Root is "plain", to "rewatch", or to rewatch with a max_events of     *)
(* "zero", which the configuration may give it.  The last two are dumped.  *)
Kinds == {"none", "plain", "rewatch", "zero"}
Root  == [path : Path, kind : {"rewatch", "zero"}]

(* An entry may be cut off: its head is there, its end is not.             *)
Entry == [root : Root, cut : BOOLEAN]
Whole(x) == [root |-> x, cut |-> FALSE]
Cut(e)   == [e EXCEPT !.cut = TRUE]

Nobody   == "nobody"
Idle     == [by |-> Nobody, order |-> <<>>, n |-> 0]
NoReader == [buf |-> <<>>, pos |-> 0, all |-> TRUE]
At(pc)   == [pc |-> pc, path |-> NoPath, then |-> "serve"]

NoThreads == [t \in Thread |-> [pc |-> "idle", path |-> NoPath]]

RewatchRoots == {x \in Root : inotify_roots[x.path] = x.kind}

(* Slip: every root is written.                                            *)
AllRoots == {x \in [path : Path, kind : Kinds \ {"none"}] :
                inotify_roots[x.path] = x.kind}

(* The roots that inotify_dump_roots() writes.                             *)
DumpedRoots == {x \in Root : inotify_roots[x.path] = x.kind}

(* The order of a hash table is any order.                                 *)
Orders(S) == {s \in [1 .. Cardinality(S) -> S] :
                 \A i, j \in DOMAIN s : s[i] = s[j] => i = j}

(* The state is well formed, and the thread that holds the mutex is the    *)
(* only one in inotify_dump_roots().                                       *)
DumpTypeOK ==
    /\ file \in Seq(Entry)
    /\ dirs \in SUBSET Path
    /\ inotify_roots \in [Path -> Kinds]
    /\ main \in [pc : {"down", "read", "dump", "write", "begin", "serve", "answer",
                       "exit"},
                 path : Path \union {NoPath},
                 then : {"read", "begin", "serve", "answer", "exit"}]
    /\ reader \in [buf : Seq(Entry), pos : Nat, all : BOOLEAN]
    /\ writer \in [by : Thread \union {Nobody, "main"}, order : Seq(Root), n : Nat]
    /\ writer.n <= Len(writer.order)
    /\ destroyer \in [Thread -> [pc : {"idle", "work", "dump", "write"},
                               path : Path \union {NoPath}]]
    /\ main.pc = "write" <=> writer.by = "main"
    /\ \A t \in Thread : destroyer[t].pc = "write" <=> writer.by = t
    /\ calls \in 0 .. MaxCalls /\ downs \in 0 .. MaxDowns
    /\ fsOps \in 0 .. MaxFsOps

DumpInit ==
    /\ file = <<>>
    /\ dirs = Path
    /\ inotify_roots = [p \in Path |-> "none"]
    /\ main = At("down") /\ reader = NoReader /\ writer = Idle
    /\ destroyer = NoThreads
    /\ calls = 0 /\ downs = 0 /\ fsOps = 0

-----------------------------------------------------------------------------
(* inotify_dump_roots(), called by thread t.                               *)

(* Slip: the mutex is not taken.                                           *)
TruncateUnlocked(t) ==
    /\ file' = <<>>
    /\ \E s \in Orders(DumpedRoots) : writer' = [by |-> t, order |-> s, n |-> 0]

(* The file is emptied as it is opened, with the mutex held.               *)
Truncate(t) ==
    /\ writer.by = Nobody
    /\ file' = <<>>
    /\ \E s \in Orders(DumpedRoots) : writer' = [by |-> t, order |-> s, n |-> 0]

Written(s, n) == [i \in 1 .. n |-> Whole(s[i])]

(* A full buffer is written out, the end of it within an entry or not; the *)
(* rest follows when the file is closed.                                   *)
WriteOut(t) ==
    LET s == writer.order
        n == IF writer.n + BufLines < Len(s) THEN writer.n + BufLines ELSE Len(s)
    IN /\ writer.by = t
       /\ \/ file' = Written(s, n)
          \/ n < Len(s) /\ file' = Append(Written(s, n), Cut(Whole(s[n + 1])))
       /\ writer' = IF n = Len(s) THEN Idle ELSE [writer EXCEPT !.n = n]

WriteDone == writer'.by = Nobody

MainTruncate ==
    /\ main.pc = "dump"
    /\ Truncate("main")
    /\ main' = [main EXCEPT !.pc = "write"]
    /\ UNCHANGED <<dirs, inotify_roots, reader, destroyer, boundVars>>

MainWriteOut ==
    /\ main.pc = "write"
    /\ WriteOut("main")
    /\ main' = IF WriteDone THEN [main EXCEPT !.pc = main.then] ELSE main
    /\ UNCHANGED <<dirs, inotify_roots, reader, destroyer, boundVars>>

(* The end of the process: of its memory and of all its threads.           *)
Exit ==
    /\ main' = At("down") /\ reader' = NoReader /\ writer' = Idle
    /\ inotify_roots' = [p \in Path |-> "none"]
    /\ destroyer' = NoThreads

-----------------------------------------------------------------------------
(* inotify_setup()                                                         *)

Start ==
    /\ main.pc = "down"
    /\ main' = At("read")
    /\ reader' = [NoReader EXCEPT !.all = (Len(file) <= BufLines)]
    /\ UNCHANGED <<file, dirs, inotify_roots, writer, destroyer, boundVars>>

Unread == SubSeq(file, reader.pos + 1, Len(file))

(* fgets() reads ahead: a buffer of entries, the last of them cut or not.  *)
Buffered(rest) ==
    IF Len(rest) <= BufLines THEN {rest}
    ELSE LET whole == SubSeq(rest, 1, BufLines)
         IN {whole, Append(whole, Cut(rest[BufLines + 1]))}

WholeEntryRead == reader.buf # <<>> /\ ~Head(reader.buf).cut

FillBuffer ==
    /\ main.pc = "read" /\ ~WholeEntryRead /\ Unread # <<>>
    /\ \E b \in Buffered(Unread) : reader' = [reader EXCEPT !.buf = b,
            !.pos = @ + IF Len(Unread) < BufLines THEN Len(Unread) ELSE BufLines]
    /\ UNCHANGED <<file, dirs, inotify_roots, main, writer, destroyer, boundVars>>

(* inotify_watch_tree() of an entry: a directory that is not there or a    *)
(* root that is already is passed over.                                    *)
Rewatch(p) ==
    /\ reader' = [reader EXCEPT !.buf = Tail(@)]
    /\ IF p \in dirs /\ inotify_roots[p] = "none"
       THEN /\ inotify_roots' = [inotify_roots EXCEPT ![p] = "rewatch"]
            /\ main' = [pc |-> "dump", path |-> p, then |-> "read"]
       ELSE UNCHANGED <<inotify_roots, main>>

(* An entry whose max_events reads as 0 is passed over as invalid.         *)
SkipEntry ==
    /\ reader' = [reader EXCEPT !.buf = Tail(@)]
    /\ UNCHANGED <<inotify_roots, main>>

ReadEntry ==
    /\ main.pc = "read" /\ WholeEntryRead
    /\ LET x == Head(reader.buf).root
       IN \/ x.kind = "zero" /\ SkipEntry
          \/ x.kind = "rewatch" /\ Rewatch(x.path)
    /\ UNCHANGED <<file, dirs, writer, destroyer, boundVars>>

Die ==
    /\ downs < MaxDowns
    /\ downs' = downs + 1
    /\ Exit
    /\ UNCHANGED <<file, dirs, calls, fsOps>>

(* What is left of a cut entry passes for a whole one if only digits of    *)
(* its last number are missing, and for an invalid one if only a sign is   *)
(* left of it or a 0; otherwise atoi() is given a null pointer.            *)
ReadCutEntry ==
    /\ main.pc = "read" /\ reader.buf # <<>> /\ Unread = <<>>
    /\ Head(reader.buf).cut
    /\ LET x == Head(reader.buf).root
       IN \/ /\ SkipEntry \/ (x.kind = "rewatch" /\ Rewatch(x.path))
             /\ UNCHANGED <<file, dirs, writer, destroyer, boundVars>>
          \/ Die

(* The alarm handler runs once before the loop and dumps the roots.        *)
SetupDone ==
    /\ main.pc = "read" /\ reader.buf = <<>> /\ Unread = <<>>
    /\ main' = [At("dump") EXCEPT !.then = "begin"]
    /\ UNCHANGED <<file, dirs, inotify_roots, reader, writer, destroyer, boundVars>>

EnterLoop ==
    /\ main.pc = "begin"
    /\ main' = At("serve") /\ reader' = NoReader
    /\ UNCHANGED <<file, dirs, inotify_roots, writer, destroyer, boundVars>>

-----------------------------------------------------------------------------
(* The running daemon.                                                     *)

Call == main.pc = "serve" /\ calls < MaxCalls /\ calls' = calls + 1

(* inotify_watch_tree() for a client, up to the dump.                      *)
WatchTree(p, kind) ==
    /\ Call
    /\ writer.by = Nobody
    /\ p \in dirs /\ inotify_roots[p] = "none"
    /\ inotify_roots' = [inotify_roots EXCEPT ![p] = kind]
    /\ main' = [pc |-> "dump", path |-> p, then |-> "answer"]
    /\ UNCHANGED <<file, dirs, reader, writer, destroyer, downs, fsOps>>

Answer ==
    /\ main.pc = "answer"
    /\ main' = At("serve")
    /\ UNCHANGED <<file, dirs, inotify_roots, reader, writer, destroyer, boundVars>>

BeingDestroyed(p) ==
    \E t \in Thread : destroyer[t].pc = "work" /\ destroyer[t].path = p

(* inotify_unwatch_tree() is answered as soon as its thread is started.    *)
UnwatchTree(p) ==
    /\ Call
    /\ inotify_roots[p] # "none" /\ ~BeingDestroyed(p)
    /\ \E t \in Thread :
         /\ destroyer[t].pc = "idle"
         /\ destroyer' = [destroyer EXCEPT ![t] = [pc |-> "work", path |-> p]]
    /\ UNCHANGED <<file, dirs, inotify_roots, main, reader, writer, downs, fsOps>>

(* _destroy_root(): the root leaves the registry, then comes the dump.     *)
DestroyRoot(t) ==
    /\ destroyer[t].pc = "work"
    /\ writer.by = Nobody
    /\ inotify_roots' = [inotify_roots EXCEPT ![destroyer[t].path] = "none"]
    /\ destroyer' = [destroyer EXCEPT ![t].pc = "dump"]
    /\ UNCHANGED <<file, dirs, main, reader, writer, boundVars>>

DestroyTruncate(t) ==
    /\ destroyer[t].pc = "dump"
    /\ Truncate(t)
    /\ destroyer' = [destroyer EXCEPT ![t].pc = "write"]
    /\ UNCHANGED <<dirs, inotify_roots, main, reader, boundVars>>

DestroyWriteOut(t) ==
    /\ destroyer[t].pc = "write"
    /\ WriteOut(t)
    /\ destroyer' = IF WriteDone THEN [destroyer EXCEPT ![t] = NoThreads[t]]
                    ELSE destroyer
    /\ UNCHANGED <<dirs, inotify_roots, main, reader, boundVars>>

(* The alarm, by its timer or by SIGHUP.                                   *)
Alarm ==
    /\ Call
    /\ main' = At("dump")
    /\ UNCHANGED <<file, dirs, inotify_roots, reader, writer, destroyer,
                   downs, fsOps>>

(* SIGINT in the loop: the roots are dumped, then the process exits.       *)
Stop ==
    /\ main.pc = "serve"
    /\ downs < MaxDowns
    /\ downs' = downs + 1
    /\ main' = [At("dump") EXCEPT !.then = "exit"]
    /\ UNCHANGED <<file, dirs, inotify_roots, reader, writer, destroyer, calls,
                   fsOps>>

StopExit ==
    /\ main.pc = "exit"
    /\ Exit
    /\ UNCHANGED <<file, dirs, boundVars>>

(* The process dies; what it has written so far stays.                     *)
Crash == main.pc # "down" /\ Die

(* Other processes.                                                        *)
ChangeDirs ==
    /\ fsOps < MaxFsOps
    /\ fsOps' = fsOps + 1
    /\ \E p \in Path \ Lasting : dirs' \in {dirs \union {p}, dirs \ {p}} \ {dirs}
    /\ UNCHANGED <<file, inotify_roots, main, reader, writer, destroyer, calls,
                   downs>>

DumpNext ==
    \/ Start \/ FillBuffer \/ ReadEntry \/ ReadCutEntry \/ SetupDone
    \/ EnterLoop \/ MainTruncate \/ MainWriteOut
    \/ \E p \in Path : \/ \E kind \in Kinds \ {"none"} : WatchTree(p, kind)
                       \/ UnwatchTree(p)
    \/ \E t \in Thread : DestroyRoot(t) \/ DestroyTruncate(t) \/ DestroyWriteOut(t)
    \/ Answer \/ Alarm \/ Stop \/ StopExit \/ Crash \/ ChangeDirs

DumpSpec == DumpInit /\ [][DumpNext]_dumpVars

-----------------------------------------------------------------------------
(* The promise of RewatchSet, kept by the file.                            *)

RootsOf(s) == {s[i].root : i \in DOMAIN s}

Phase ==
    IF main.pc = "down" THEN "down"
    ELSE IF {main.pc, main.then} \intersect {"read", "begin"} # {} THEN "starting"
    ELSE "up"

Writing == Phase = "up" /\ writer.by # Nobody

Kept ==
    IF Phase = "starting"
    THEN RewatchRoots \union RootsOf(reader.buf) \union RootsOf(file)
    ELSE IF Writing THEN {writer.order[i] : i \in DOMAIN writer.order}
    ELSE RootsOf(file)

(* The root that main() is watching for a client.                          *)
Asked == [path |-> main.path, kind |-> inotify_roots[main.path]]

Promise == INSTANCE RewatchSet WITH
    KeepRoot <- Root,
    Lasting  <- {x \in Root : x.path \in Lasting /\ x.kind = "rewatch"},
    NoRoot   <- NoPath,
    Capacity <- BufLines,
    kept     <- Kept,
    served   <- IF Phase = "up" THEN RewatchRoots ELSE {},
    phase    <- Phase,
    writing  <- Writing,
    spilled  <- Phase = "starting" /\ ~reader.all,
    asked    <- IF main.then = "answer" /\ Asked \in RewatchRoots
                THEN Asked ELSE NoPath,
    leaving  <- {x \in RewatchRoots : BeingDestroyed(x.path)}

(* The file keeps what RewatchSet promises: whatever the process is doing  *)
(* when it ends, a root whose watch was answered is watched after the next *)
(* start, unless it was unwatched, its directory is gone, its max_events   *)
(* is 0, the file was being rewritten, the process was only starting, or   *)
(* the file outgrew a stdio buffer.                                        *)
PromiseKept == Promise!Spec

(* A root whose watch was answered is dropped only by its unwatching.      *)
RewatchKept ==
    [][\A x \in Kept \ Kept' :
         \/ x.path = main.path
         \/ inotify_roots[x.path] = "none"
            /\ \E t \in Thread : destroyer[t].path = x.path]_dumpVars

=============================================================================
