------------------------------- MODULE Daemon -------------------------------
(***************************************************************************)
(* The life of inotispy processes: main() from its options to the poll     *)
(* loop, the pid file, the socket, signals, and the alarm that follows the *)
(* configuration file.  Processes start, run side by side, are interrupted *)
(* and die at any moment.                                                  *)
(*                                                                         *)
(* A process has a stack of frames: main() and, above it, the handlers of  *)
(* the signals that interrupted it.  Only the top frame moves, so a frame  *)
(* that waits for a mutex held by a frame below it waits for ever.         *)
(***************************************************************************)
EXTENDS Config, Sequences, FiniteSets

CONSTANTS
    Pid,            \* the process ids, each used once by inotispy
    Modes,          \* how processes are started: "daemon", "foreground"
    Nobody,         \* no process
    Foreign,        \* another program, which holds some addresses
    TakenUris,
    Texts,          \* what the configuration file may hold or become
    Overlap,        \* may a start begin before the last one wrote its pid?
    MaxSignals,     \* bound on the signals
    MaxEdits,       \* bound on the edits of the configuration file
    MaxCrashes      \* bound on the sudden ends of processes

Uris == {DefaultUri} \union UNION {t.zmq_uri : t \in {f \in Texts : Loads(f)}}

ASSUME DaemonAssumptions ==
    /\ IsFiniteSet(Pid)
    /\ {Nobody, Foreign, "none", "empty"} \intersect Pid = {} /\ Nobody # Foreign
    /\ Modes \subseteq {"daemon", "foreground"}
    /\ TakenUris \subseteq Uris
    /\ Overlap \in BOOLEAN
    /\ MaxSignals \in Nat /\ MaxEdits \in Nat /\ MaxCrashes \in Nat

VARIABLES
    pid_file,   \* "none", "empty" or the pid it names
    bound,      \* who has bound each address
    text,       \* the configuration file
    mtime,      \* and the second it was last changed in
    conf_dump,  \* the values in config.dump; {} if it is not there
    proc,       \* the processes
    signals, edits, crashes

daemonVars == <<pid_file, bound, text, mtime, conf_dump, proc, signals, edits,
                crashes>>
files   == <<pid_file, bound, conf_dump>>
world   == <<text, mtime, signals, edits, crashes>>

(* What is left of a process id before inotispy has it and afterwards;     *)
(* an unrelated process may get it once inotispy is gone.                  *)
Gone(life) ==
    [life |-> life, mode |-> "daemon", stack |-> <<>>, config |-> Defaults,
     logger |-> "none", main_mutex |-> 0, inotify_mutex |-> 0]

PidPcs   == {"check_pid", "clear_stale", "open_pid", "write_pid"}
ReadPcs  == {"load", "stat", "logger"}
AlarmPcs == {"lock", "dump", "dumping", "test", "restat", "reload", "print"}
ExitPcs  == {"log_int", "zmq_cleanup", "clear_pid", "clear_config"}
Pcs      == PidPcs \union ReadPcs \union AlarmPcs \union ExitPcs
                \union {"setup", "watching", "bind", "poll", "working"}

Live(p)  == proc[p].life = "live"
Depth(p) == Len(proc[p].stack)
Top(p)   == proc[p].stack[Depth(p)]
Pc(p)    == Top(p).pc
At(p, pc) == Live(p) /\ Pc(p) = pc

(* The state of process p once its top frame has gone to pc.               *)
Went(p, pc) == [proc[p] EXCEPT !.stack[Depth(p)].pc = pc]
Goto(p, pc) == proc' = [proc EXCEPT ![p] = Went(p, pc)]
Becomes(p, state) == proc' = [proc EXCEPT ![p] = state]

(* The end of p: the kernel closes its sockets, its files stay.            *)
Ended == Gone("dead")
Unbind(p) == bound' = [u \in Uris |-> IF bound[u] = p THEN Nobody ELSE bound[u]]
Ends(p) == Becomes(p, Ended) /\ Unbind(p)

DaemonTypeOK ==
    /\ pid_file \in Pid \union {"none", "empty"}
    /\ bound \in [Uris -> Pid \union {Nobody, Foreign}]
    /\ text \in Texts /\ mtime \in 1 .. MaxEdits + 1
    /\ \A c \in conf_dump : conf_dump = {c} /\ c.zmq_uri \in Uris
    /\ DOMAIN proc = Pid
    /\ \A p \in Pid :
         /\ proc[p].life \in {"unborn", "live", "dead", "other"}
         /\ Live(p) <=> proc[p].stack # <<>>
         /\ Depth(p) <= 3
         /\ \A i \in 1 .. Depth(p) : proc[p].stack[i].pc \in Pcs
         /\ proc[p].logger \in {"none", "null", "open"}
         /\ proc[p].main_mutex \in 0 .. Depth(p)
         /\ proc[p].inotify_mutex \in 0 .. Depth(p)
    /\ signals \in 0 .. MaxSignals /\ edits \in 0 .. MaxEdits
    /\ crashes \in 0 .. MaxCrashes

DaemonInit ==
    /\ pid_file = "none" /\ conf_dump = {}
    /\ bound = [u \in Uris |-> IF u \in TakenUris THEN Foreign ELSE Nobody]
    /\ text \in Texts /\ mtime = 1
    /\ proc = [p \in Pid |-> Gone("unborn")]
    /\ signals = 0 /\ edits = 0 /\ crashes = 0

-----------------------------------------------------------------------------
(* main() up to the poll loop.                                             *)

Starting(p) == Live(p) /\ proc[p].stack[1].pc \in PidPcs

Start(p, mode) ==
    /\ proc[p].life = "unborn"
    /\ Overlap \/ \A q \in Pid : ~Starting(q)
    /\ Becomes(p, [Gone("live") EXCEPT
         !.mode = mode,
         !.stack = <<[sig |-> "main",
                      pc |-> IF mode = "daemon" THEN "check_pid" ELSE "load"]>>])
    /\ UNCHANGED <<files, world>>

(* /proc has a directory for the process.                                  *)
Exists(q) == proc[q].life \in {"live", "other"}

(* Slip: a pid file that names a process is taken for stale.               *)
CheckPidExists(p) ==
    /\ At(p, "check_pid")
    /\ Goto(p, IF pid_file \in Pid THEN "clear_stale" ELSE "open_pid")
    /\ UNCHANGED <<files, world>>

(* check_pid(): an empty file is reported through CONFIG, which is not     *)
(* there yet; a file that names a running process ends this one.           *)
CheckPid(p) ==
    /\ At(p, "check_pid")
    /\ \/ pid_file = "none" /\ Goto(p, "open_pid")
       \/ pid_file \in Pid /\ ~Exists(pid_file) /\ Goto(p, "clear_stale")
       \/ pid_file = "empty" /\ Becomes(p, Ended)
       \/ pid_file \in Pid /\ Exists(pid_file) /\ Becomes(p, Ended)
    /\ UNCHANGED <<files, world>>

(* clear_pid() of a stale file; it ends the start if the file is gone.     *)
ClearStale(p) ==
    /\ At(p, "clear_stale")
    /\ pid_file' = "none"
    /\ IF pid_file = "none" THEN Becomes(p, Ended) ELSE Goto(p, "open_pid")
    /\ UNCHANGED <<bound, conf_dump, world>>

(* write_pid() in the background process: the file is emptied as it is     *)
(* opened and has its content when it is closed.                           *)
OpenPid(p) ==
    /\ At(p, "open_pid")
    /\ pid_file' = "empty" /\ Goto(p, "write_pid")
    /\ UNCHANGED <<bound, conf_dump, world>>

WritePid(p) ==
    /\ At(p, "write_pid")
    /\ pid_file' = p /\ Goto(p, "load")
    /\ UNCHANGED <<bound, conf_dump, world>>

(* init_config() loads the file and, after that, asks for its mtime.  The  *)
(* values it sets in between and afterwards are set here at once: nobody   *)
(* looks at CONFIG before it returns.                                      *)
LoadConfig(p) ==
    /\ At(p, "load")
    /\ \/ /\ Loads(text)
          /\ Becomes(p, [Went(p, "stat") EXCEPT
                           !.config = InitFrom(text, proc[p].mode = "daemon")])
       \/ /\ ~Loads(text)
          /\ \E c \in Uninitialised :
                Becomes(p, [Went(p, "logger") EXCEPT !.config = c])
    /\ UNCHANGED <<files, world>>

Mtime(p) == GetMtime(proc[p].config, text, mtime)

StatConfig(p) ==
    /\ At(p, "stat")
    /\ Becomes(p, [Went(p, "logger") EXCEPT !.config.mtime = Mtime(p)])
    /\ UNCHANGED <<files, world>>

(* A process whose log cannot be opened exits; the pid file stays.  With   *)
(* the log open the handlers of the signals are installed.                 *)
OpenLogger(p) ==
    /\ At(p, "logger")
    /\ Becomes(p, IF InitLogger(proc[p].config) = "null" THEN Ended
                  ELSE [Went(p, "setup") EXCEPT !.logger = "open"])
    /\ UNCHANGED <<files, world>>

(* inotify_setup(): the roots it rewatches take inotify_mutex.             *)
Setup(p) ==
    /\ At(p, "setup") /\ proc[p].inotify_mutex = 0
    /\ Becomes(p, [Went(p, "watching") EXCEPT !.inotify_mutex = Depth(p)])
    /\ UNCHANGED <<files, world>>

SetupDone(p) ==
    /\ At(p, "watching")
    /\ Becomes(p, [Went(p, "bind") EXCEPT !.inotify_mutex = 0])
    /\ UNCHANGED <<files, world>>

(* zmq_setup(), and the first call of alarm_handler()                      *)
Bind(p) ==
    LET uri == proc[p].config.zmq_uri
    IN /\ At(p, "bind")
       /\ \/ bound[uri] = Nobody /\ bound' = [bound EXCEPT ![uri] = p] /\ Goto(p, "lock")
          \/ bound[uri] # Nobody /\ Ends(p)
       /\ UNCHANGED <<pid_file, conf_dump, world>>

-----------------------------------------------------------------------------
(* The poll loop.  An iteration that runs the alarm and then a handler is  *)
(* two here: nothing depends on what woke the poll.                        *)

AlarmDue(p) ==
    /\ At(p, "poll") /\ Goto(p, "lock") /\ UNCHANGED <<files, world>>

(* inotify_handle_event() or zmq_handle_event(), which hold inotify_mutex  *)
(* for part of the time and log what they do.                              *)
Work(p) ==
    /\ At(p, "poll") /\ proc[p].inotify_mutex = 0
    /\ Becomes(p, [Went(p, "working") EXCEPT !.inotify_mutex = Depth(p)])
    /\ UNCHANGED <<files, world>>

Crashes(p, level) == LogCrashes(proc[p].config, proc[p].logger, level)

WorkDone(p) ==
    /\ At(p, "working")
    /\ \/ /\ Becomes(p, [Went(p, "poll") EXCEPT !.inotify_mutex = 0])
          /\ UNCHANGED bound
       \/ (\E level \in LevelNames : Crashes(p, level)) /\ Ends(p)
    /\ UNCHANGED <<pid_file, conf_dump, world>>

-----------------------------------------------------------------------------
(* alarm_handler(), called by the loop or, from sig_handler(), for SIGHUP. *)

LockMain(p) ==
    /\ At(p, "lock") /\ proc[p].main_mutex = 0
    /\ Becomes(p, [Went(p, "dump") EXCEPT !.main_mutex = Depth(p)])
    /\ UNCHANGED <<files, world>>

(* inotify_dump_roots(), also for SIGINT                                   *)
Dump(p) ==
    /\ At(p, "dump") /\ proc[p].inotify_mutex = 0
    /\ Becomes(p, [Went(p, "dumping") EXCEPT !.inotify_mutex = Depth(p)])
    /\ UNCHANGED <<files, world>>

DumpDone(p) ==
    /\ At(p, "dumping")
    /\ Becomes(p, [Went(p, IF Top(p).sig = "int" THEN "zmq_cleanup" ELSE "test")
                    EXCEPT !.inotify_mutex = 0])
    /\ UNCHANGED <<files, world>>

TestUpdate(p) ==
    /\ At(p, "test")
    /\ Goto(p, IF HasUpdate(proc[p].config, text, mtime) THEN "restat" ELSE "print")
    /\ UNCHANGED <<files, world>>

(* reload_config() takes the mtime first and loads the file afterwards.    *)
Restat(p) ==
    /\ At(p, "restat")
    /\ Becomes(p, [Went(p, "reload") EXCEPT !.config.mtime = Mtime(p)])
    /\ UNCHANGED <<files, world>>

(* The logging keys take effect and the log is opened again, whether that  *)
(* succeeds or not; the outcome is logged.                                 *)
Reload(p) ==
    /\ At(p, "reload")
    /\ \/ /\ Loads(text) /\ proc[p].config.has_path
          /\ LET c == SetLogging(proc[p].config, text)
                 logger == InitLogger(c)
             IN IF LogCrashes(c, logger, "notice") THEN Ends(p)
                ELSE /\ Becomes(p, [Went(p, "print") EXCEPT !.config = c,
                                                            !.logger = logger])
                     /\ UNCHANGED bound
       \/ /\ ~(Loads(text) /\ proc[p].config.has_path)
          /\ IF Crashes(p, "warn") THEN Ends(p)
             ELSE Goto(p, "print") /\ UNCHANGED bound
    /\ UNCHANGED <<pid_file, conf_dump, world>>

(* alarm_handler() returns: main() polls, a signal handler's frame goes.   *)
Returned(p) ==
    IF Top(p).sig = "main" THEN Went(p, "poll")
    ELSE [proc[p] EXCEPT !.stack = SubSeq(@, 1, Depth(p) - 1)]

(* Slip: the mutex is kept when nothing was reloaded.                      *)
PrintHolding(p) ==
    /\ At(p, "print")
    /\ conf_dump' = {proc[p].config}
    /\ Becomes(p, IF conf_dump = {proc[p].config} THEN Returned(p)
                  ELSE [Returned(p) EXCEPT !.main_mutex = 0])
    /\ UNCHANGED <<pid_file, bound, world>>

(* Slip: the values are written once.                                      *)
PrintOnce(p) ==
    /\ At(p, "print")
    /\ conf_dump' = IF conf_dump = {} THEN {proc[p].config} ELSE conf_dump
    /\ Becomes(p, [Returned(p) EXCEPT !.main_mutex = 0])
    /\ UNCHANGED <<pid_file, bound, world>>

(* print_config(), and the end of alarm_handler()                          *)
Print_config(p) ==
    /\ At(p, "print")
    /\ conf_dump' = {proc[p].config}
    /\ Becomes(p, [Returned(p) EXCEPT !.main_mutex = 0])
    /\ UNCHANGED <<pid_file, bound, world>>

-----------------------------------------------------------------------------
(* sig_handler() for SIGINT.                                               *)

LogInterrupt(p) ==
    /\ At(p, "log_int")
    /\ IF Crashes(p, "notice") THEN Ends(p) ELSE Goto(p, "dump") /\ UNCHANGED bound
    /\ UNCHANGED <<pid_file, conf_dump, world>>

(* Slip: the pid file goes before the socket.                              *)
PidFirst(p) ==
    /\ At(p, "zmq_cleanup") /\ Goto(p, "clear_pid")
    /\ pid_file' = "none"
    /\ UNCHANGED <<bound, conf_dump, world>>

ZmqCleanup(p) ==
    /\ At(p, "zmq_cleanup") /\ Goto(p, "clear_pid")
    /\ Unbind(p)
    /\ UNCHANGED <<pid_file, conf_dump, world>>

(* clear_pid() removes the file, whichever process it names.               *)
ClearPid(p) ==
    /\ At(p, "clear_pid") /\ Goto(p, "clear_config")
    /\ pid_file' = "none"
    /\ UNCHANGED <<bound, conf_dump, world>>

(* clear_config(), close_logger() and exit().  The free of an address that *)
(* is a literal may end the process before config.dump is removed.         *)
ClearConfig(p) ==
    /\ At(p, "clear_config") /\ Ends(p)
    /\ \/ conf_dump' = {}
       \/ ~proc[p].config.uri_owned /\ UNCHANGED conf_dump
    /\ UNCHANGED <<pid_file, world>>

-----------------------------------------------------------------------------
(* What happens to the processes from outside.                             *)

(* A signal for which sig_handler() is installed and not running yet       *)
(* interrupts whatever the process is doing.                               *)
Signal(p, sig) ==
    /\ Live(p) /\ proc[p].stack[1].pc \notin PidPcs \union ReadPcs
    /\ \A i \in 1 .. Depth(p) : proc[p].stack[i].sig # sig
    /\ signals < MaxSignals /\ signals' = signals + 1
    /\ Becomes(p, [proc[p] EXCEPT !.stack = Append(@,
         [sig |-> sig, pc |-> IF sig = "int" THEN "log_int" ELSE "lock"])])
    /\ UNCHANGED <<files, text, mtime, edits, crashes>>

(* The end of a process without any cleanup: SIGKILL, SIGTERM, which has   *)
(* no handler, the exit() of the SIGSEGV handler, exit() after a failed    *)
(* daemon() or fopen() of the pid file.                                    *)
Crash(p) ==
    /\ Live(p) /\ Ends(p)
    /\ crashes < MaxCrashes /\ crashes' = crashes + 1
    /\ UNCHANGED <<pid_file, conf_dump, text, mtime, signals, edits>>

(* The kernel gives the pid of a dead process to an unrelated one.         *)
Reused(p) ==
    /\ proc[p].life = "dead" /\ Becomes(p, Gone("other"))
    /\ UNCHANGED <<files, world>>

(* Somebody changes the configuration file, in a second of its own.        *)
Edit(t) ==
    /\ t # text /\ text' = t /\ mtime' = mtime + 1
    /\ edits < MaxEdits /\ edits' = edits + 1
    /\ UNCHANGED <<files, proc, signals, crashes>>

-----------------------------------------------------------------------------
(* What a process does by itself, except for waiting in the poll.          *)
Step(p) ==
    \/ CheckPid(p) \/ ClearStale(p) \/ OpenPid(p) \/ WritePid(p)
    \/ LoadConfig(p) \/ StatConfig(p) \/ OpenLogger(p)
    \/ Setup(p) \/ SetupDone(p) \/ Bind(p) \/ WorkDone(p)
    \/ LockMain(p) \/ Dump(p) \/ DumpDone(p) \/ TestUpdate(p) \/ Restat(p)
    \/ Reload(p) \/ Print_config(p)
    \/ LogInterrupt(p) \/ ZmqCleanup(p) \/ ClearPid(p) \/ ClearConfig(p)

DaemonNext ==
    \/ \E p \in Pid :
         \/ Step(p) \/ AlarmDue(p) \/ Work(p) \/ Crash(p) \/ Reused(p)
         \/ \E mode \in Modes : Start(p, mode)
         \/ \E sig \in {"int", "hup"} : Signal(p, sig)
    \/ \E t \in Texts : Edit(t)

DaemonSpec == DaemonInit /\ [][DaemonNext]_daemonVars

(* A process that can go on does.  Nothing is assumed of the poll: it has  *)
(* no timeout, and a daemon that nobody wakes never runs its alarm.        *)
DaemonFairSpec == DaemonSpec /\ \A p \in Pid : WF_daemonVars(Step(p))

-----------------------------------------------------------------------------
(* From write_pid() to the clear_pid() of its SIGINT a daemon owns the pid *)
(* file.                                                                   *)
Owner(p) ==
    /\ Live(p) /\ proc[p].mode = "daemon" /\ ~Starting(p)
    /\ \A i \in 1 .. Depth(p) : proc[p].stack[i].pc # "clear_config"

(* The pid file names the daemon that runs, whatever ends of processes and *)
(* starts came before: check_pid() refuses a second daemon, and a stop     *)
(* reaches the first.  (Of starts that do not overlap, in daemon mode.)    *)
PidNamesDaemon == \A p \in Pid : Owner(p) => pid_file = p

(* A daemon that check_pid() let pass finds the address free: sig_handler()*)
(* gives up the socket before the pid file.                                *)
BindsAlone ==
    \A p \in Pid : At(p, "bind") => bound[proc[p].config.zmq_uri] \notin Pid

(* config.dump shows the values in use whenever the loop polls.            *)
DumpShowsConfig ==
    \A p \in Pid : At(p, "poll") => conf_dump = {proc[p].config}

(* The top frame waits for a mutex that a frame it interrupted holds.      *)
Trapped(p) ==
    LET below == 1 .. Depth(p) - 1
    IN /\ Live(p)
       /\ \/ Pc(p) = "lock" /\ proc[p].main_mutex \in below
          \/ Pc(p) = "dump" /\ proc[p].inotify_mutex \in below

(* Whatever signals it gets, a process comes back to its poll loop or      *)
(* ends, unless a handler was entered while a mutex it takes was held.     *)
NeverHangs ==
    \A p \in Pid : Live(p) ~> ~Live(p) \/ At(p, "poll") \/ Trapped(p)

(* An alarm that begins while the file is newer than CONFIG knows brings   *)
(* the settings in use into line with the file, whatever signals and edits *)
(* come in between.  It need not if the process ends or is trapped, if the *)
(* file is gone or no key file by then, or after reload_config() took 0    *)
(* for the mtime of a missing file.                                        *)
ReloadFollows ==
    \A p \in Pid :
        At(p, "lock") /\ Loads(text) /\ HasUpdate(proc[p].config, text, mtime)
            ~> \/ ~Live(p) \/ Trapped(p) \/ ~Loads(text)
               \/ proc[p].config.mtime = 0
               \/ Follows(proc[p].config, text)

=============================================================================
