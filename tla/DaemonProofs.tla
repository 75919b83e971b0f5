---------------------------- MODULE DaemonProofs ----------------------------
(***************************************************************************)
(* The processes of Daemon: what their stacks can hold, which of them owns *)
(* the pid file and the socket, and what config.dump shows.                *)
(***************************************************************************)
EXTENDS Daemon, SequenceTheorems, TLAPS

-----------------------------------------------------------------------------
(* What CONFIG can hold.                                                   *)

Readable == {f \in Texts : Loads(f)}

LogFiles    == {DefaultLog} \union UNION {f.log_file : f \in Readable}
SyslogModes == {FALSE} \union UNION {f.log_syslog : f \in Readable}
EventLimits == {DefaultMaxEvents} \union UNION {f.max_inotify_events : f \in Readable}
Frequencies == {DefaultFreq} \union UNION {f.memclean_freq : f \in Readable}

ConfigType ==
    [has_path : BOOLEAN, mtime : Int, zmq_uri : Uris, uri_owned : BOOLEAN,
     log_level : LevelNames, log_file : LogFiles, log_syslog : SyslogModes,
     logging_enabled : BOOLEAN, max_inotify_events : EventLimits,
     memclean_freq : Frequencies, silent : BOOLEAN]

(* A key that is there gives one of its values.                            *)
LEMMA GivenValue ==
    ASSUME NEW key, NEW default, NEW S, key \subseteq S, default \in S
    PROVE  Given(key, default) \in S
  BY DEF Given, OneOf

(* The values before the file is read.                                     *)
LEMMA DefaultsType ==
    Defaults \in ConfigType /\ \A m \in Int : [Defaults EXCEPT !.mtime = m] \in ConfigType
<1>1. /\ DefaultUri \in Uris /\ "notice" \in LevelNames /\ DefaultLog \in LogFiles
      /\ FALSE \in SyslogModes /\ DefaultMaxEvents \in EventLimits
      /\ DefaultFreq \in Frequencies
  BY DEF Uris, LevelNames, LogFiles, SyslogModes, EventLimits, Frequencies
<1>2. Defaults \in ConfigType
  <2>1. TRUE \in BOOLEAN /\ FALSE \in BOOLEAN /\ 0 \in Int
    OBVIOUS
  <2> QED
    BY <1>1, <2>1, Zenon DEF Defaults, ConfigType
<1> QED
  BY <1>2 DEF ConfigType

(* The logging keys change the logging settings only.                      *)
LEMMA LoggingType ==
    ASSUME NEW c \in ConfigType, NEW f \in Readable
    PROVE  SetLogging(c, f) \in ConfigType
<1>1. PICK c1 \in ConfigType : c1 = SetLogFile(c, f)
  <2>1. f.log_file # {} => OneOf(f.log_file) \in LogFiles
    BY DEF OneOf, LogFiles
  <2> QED
    BY <2>1 DEF SetLogFile, ConfigType
<1>2. PICK c2 \in ConfigType : c2 = SetLogLevel(c1, f)
  <2>1. c1.log_level \in LevelNames
    BY DEF ConfigType
  <2>2. Given(f.log_level \intersect LevelNames, c1.log_level) \in LevelNames
    BY <2>1, GivenValue
  <2> QED
    BY <2>2 DEF SetLogLevel, ConfigType
<1>3. SetLogSyslog(c2, f) \in ConfigType
  <2>1. c2.log_syslog \in SyslogModes /\ f.log_syslog \subseteq SyslogModes
    BY DEF ConfigType, SyslogModes
  <2>2. Given(f.log_syslog, c2.log_syslog) \in SyslogModes
    BY <2>1, GivenValue
  <2> QED
    BY <2>2 DEF SetLogSyslog, ConfigType
<1> QED
  BY <1>1, <1>2, <1>3 DEF SetLogging

(* init_config() with a file that loads.                                   *)
LEMMA InitFromType ==
    ASSUME NEW f \in Readable, NEW silent \in BOOLEAN
    PROVE  InitFrom(f, silent) \in ConfigType
<1> DEFINE uri  == Given(f.zmq_uri, DefaultUri)
           max  == Given(f.max_inotify_events, DefaultMaxEvents)
           freq == Given({n \in f.memclean_freq : n >= 0}, DefaultFreq)
           mute == silent \/ Given(f.silent, FALSE)
           own  == f.zmq_uri # {}
           c == [Defaults EXCEPT !.has_path = TRUE, !.zmq_uri = uri, !.uri_owned = own,
                    !.max_inotify_events = max, !.memclean_freq = freq, !.silent = mute]
<1>1. uri \in Uris
  <2>1. f.zmq_uri \subseteq Uris /\ DefaultUri \in Uris
    BY DEF Uris, Readable
  <2> QED
    BY <2>1, GivenValue
<1>2. max \in EventLimits
  <2>1. f.max_inotify_events \subseteq EventLimits /\ DefaultMaxEvents \in EventLimits
    BY DEF EventLimits
  <2> QED
    BY <2>1, GivenValue
<1>3. freq \in Frequencies
  <2>1. {n \in f.memclean_freq : n >= 0} \subseteq Frequencies /\ DefaultFreq \in Frequencies
    BY DEF Frequencies
  <2> QED
    BY <2>1, GivenValue
<1>4. mute \in BOOLEAN /\ own \in BOOLEAN
  OBVIOUS
<1>5. InitFrom(f, silent) = SetLogging(c, f)
  BY DEF InitFrom, Defaults
<1> HIDE DEF uri, max, freq, mute, own
<1>6. c \in ConfigType
  BY <1>1, <1>2, <1>3, <1>4, DefaultsType DEF ConfigType
<1> QED
  BY <1>5, <1>6, LoggingType

-----------------------------------------------------------------------------
(* What a process can be: its frames, and the mutexes they hold.           *)

Frame == [sig : {"main", "int", "hup"}, pc : Pcs]

ProcType ==
    [life : {"unborn", "live", "dead", "other"}, mode : {"daemon", "foreground"},
     stack : Seq(Frame), config : ConfigType, logger : {"none", "null", "open"},
     main_mutex : Nat, inotify_mutex : Nat]

(* The frame at the bottom is main(); above it are signal handlers.        *)
Fits(i, sig, pc) ==
    /\ i = 1 <=> sig = "main"
    /\ sig = "main" => pc \notin ExitPcs
    /\ sig = "hup" => pc \in AlarmPcs
    /\ sig = "int" => pc \in ExitPcs \union {"dump", "dumping"}

HoldPcs == {"watching", "working", "dumping"}

(* The frames of process state x are in place, no handler runs twice, and  *)
(* inotify_mutex is held by a frame that is where it holds it.             *)
ProcOK(x) ==
    /\ x.life = "live" <=> x.stack # <<>>
    /\ \A i \in 1 .. Len(x.stack) : Fits(i, x.stack[i].sig, x.stack[i].pc)
    /\ \A i, j \in 1 .. Len(x.stack) : x.stack[i].sig = x.stack[j].sig => i = j
    /\ x.main_mutex <= Len(x.stack)
    /\ x.inotify_mutex <= Len(x.stack)
    /\ x.inotify_mutex # 0 => x.stack[x.inotify_mutex].pc \in HoldPcs

ProcInv ==
    /\ proc \in [Pid -> ProcType]
    /\ \A p \in Pid : ProcOK(proc[p])

(* The stack s with its top frame at pc.                                   *)
TopAt(s, pc) == [s EXCEPT ![Len(s)] = [@ EXCEPT !.pc = pc]]

(* Only the top frame of such a stack is another.                          *)
LEMMA TopMoves ==
    ASSUME NEW s \in Seq(Frame), s # <<>>, NEW pc \in Pcs
    PROVE  /\ TopAt(s, pc) \in Seq(Frame) /\ Len(TopAt(s, pc)) = Len(s)
           /\ \A i \in 1 .. Len(s) : i # Len(s) => TopAt(s, pc)[i] = s[i]
           /\ TopAt(s, pc)[Len(s)] = [sig |-> s[Len(s)].sig, pc |-> pc]
           /\ Len(s) \in Nat \ {0} /\ TopAt(s, pc) # <<>>
<1>1. Len(s) \in Nat \ {0} /\ Len(s) \in 1 .. Len(s)
  BY EmptySeq
<1>2. s[Len(s)] \in Frame
  BY <1>1, ElementOfSeq
<1> DEFINE e == [s[Len(s)] EXCEPT !.pc = pc]
<1>3. e \in Frame /\ e = [sig |-> s[Len(s)].sig, pc |-> pc]
  BY <1>2 DEF Frame
<1>4. TopAt(s, pc) = [s EXCEPT ![Len(s)] = e]
  BY DEF TopAt
<1> HIDE DEF e
<1>5. /\ TopAt(s, pc) \in Seq(Frame) /\ Len(TopAt(s, pc)) = Len(s)
      /\ \A i \in 1 .. Len(s) : TopAt(s, pc)[i] = IF i = Len(s) THEN e ELSE s[i]
  BY <1>1, <1>3, <1>4, ExceptSeq
<1> QED
  BY <1>1, <1>3, <1>5, EmptySeq

(* The top frame of a process moved to pc.                                 *)
LEMMA WentIs ==
    ASSUME ProcInv, NEW p \in Pid, Live(p), NEW pc \in Pcs
    PROVE  /\ Went(p, pc) \in ProcType
           /\ Went(p, pc) = [proc[p] EXCEPT !.stack = TopAt(proc[p].stack, pc)]
           /\ proc[p].stack \in Seq(Frame) /\ proc[p].stack # <<>>
<1>1. proc[p] \in ProcType /\ proc[p].stack \in Seq(Frame) /\ proc[p].stack # <<>>
  BY DEF ProcInv, ProcType, ProcOK, Live
<1>2. Went(p, pc) = [proc[p] EXCEPT !.stack = TopAt(proc[p].stack, pc)]
  BY <1>1 DEF Went, TopAt, Depth, ProcType
<1>3. TopAt(proc[p].stack, pc) \in Seq(Frame)
  BY <1>1, TopMoves
<1> QED
  BY <1>1, <1>2, <1>3 DEF ProcType

(* A process state whose top frame has moved is in order.                  *)
LEMMA MoveOK ==
    ASSUME NEW y \in ProcType, ProcOK(y), y.life = "live",
           NEW pc \in Pcs, Fits(Len(y.stack), y.stack[Len(y.stack)].sig, pc),
           NEW x \in ProcType, x.life = "live", x.stack = TopAt(y.stack, pc),
           x.main_mutex \in {y.main_mutex, 0, Len(y.stack)},
           \/ x.inotify_mutex = 0
           \/ x.inotify_mutex = Len(y.stack) /\ pc \in HoldPcs
           \/ /\ x.inotify_mutex = y.inotify_mutex
              /\ y.stack[Len(y.stack)].pc \notin HoldPcs
    PROVE  ProcOK(x)
<1> PICK s \in Seq(Frame) : s = y.stack
  BY DEF ProcType
<1>1. s # <<>> /\ y.main_mutex \in Nat /\ y.inotify_mutex \in Nat
  BY DEF ProcOK, ProcType
<1> PICK t \in Seq(Frame) : t = TopAt(s, pc)
  BY <1>1, TopMoves
<1>2. /\ Len(t) = Len(s) /\ \A i \in 1 .. Len(s) : i # Len(s) => t[i] = s[i]
      /\ t[Len(s)].sig = s[Len(s)].sig /\ t[Len(s)].pc = pc
      /\ Len(s) \in Nat \ {0} /\ t # <<>>
  <2>1. t[Len(s)] = [sig |-> s[Len(s)].sig, pc |-> pc]
    BY <1>1, TopMoves
  <2> QED
    BY <1>1, <2>1, TopMoves
<1>3. /\ \A i \in 1 .. Len(s) : Fits(i, s[i].sig, s[i].pc)
      /\ \A i, j \in 1 .. Len(s) : s[i].sig = s[j].sig => i = j
      /\ y.main_mutex <= Len(s) /\ y.inotify_mutex <= Len(s)
      /\ y.inotify_mutex # 0 => s[y.inotify_mutex].pc \in HoldPcs
  BY DEF ProcOK
<1>4. \A i \in 1 .. Len(t) : Fits(i, t[i].sig, t[i].pc)
  BY <1>2, <1>3
<1>5. \A i \in 1 .. Len(t) : t[i].sig = s[i].sig
  BY <1>2
<1>6. \A i, j \in 1 .. Len(t) : t[i].sig = t[j].sig => i = j
  BY <1>2, <1>3, <1>5
<1>7. x.main_mutex <= Len(t) /\ x.inotify_mutex <= Len(t)
  BY <1>1, <1>2, <1>3
<1>8. x.inotify_mutex # 0 => t[x.inotify_mutex].pc \in HoldPcs
  BY <1>1, <1>2, <1>3
<1> QED
  BY <1>2, <1>4, <1>6, <1>7, <1>8 DEF ProcOK

(* A process that is not, or not any more.                                 *)
LEMMA GoneOK ==
    ASSUME NEW life \in {"unborn", "dead", "other"}
    PROVE  Gone(life) \in ProcType /\ ProcOK(Gone(life)) /\ Gone(life).life = life
<1>1. Gone(life) \in ProcType
  BY DefaultsType, EmptySeq DEF Gone, ProcType
<1>2. Gone(life).stack = <<>> /\ Gone(life).main_mutex = 0
      /\ Gone(life).inotify_mutex = 0 /\ Gone(life).life = life
  BY DEF Gone
<1>3. Len(<<>>) = 0
  OBVIOUS
<1> QED
  BY <1>1, <1>2, <1>3 DEF ProcOK

(* Only process p changes.                                                 *)
LEMMA LocalStep ==
    ASSUME ProcInv, NEW p \in Pid, NEW x \in ProcType, ProcOK(x), Becomes(p, x)
    PROVE  /\ ProcInv' /\ proc'[p] = x
           /\ \A q \in Pid : q # p => proc'[q] = proc[q]
  BY DEF ProcInv, Becomes

-----------------------------------------------------------------------------
(* What a step does to the process that takes it.                          *)

Alone(p) == ProcInv' /\ \A q \in Pid : q # p => proc'[q] = proc[q]

(* Its top frame goes to pc, it ends, or a signal handler returns.         *)
Moved(p, pc) ==
    /\ Alone(p)
    /\ proc'[p].life = "live" /\ proc'[p].mode = proc[p].mode
    /\ proc'[p].stack = TopAt(proc[p].stack, pc)

Left(p) == Alone(p) /\ proc'[p] = Ended

Popped(p) ==
    /\ Alone(p) /\ Depth(p) > 1
    /\ proc'[p].life = "live" /\ proc'[p].mode = proc[p].mode
    /\ proc'[p].stack = SubSeq(proc[p].stack, 1, Depth(p) - 1)

(* Which frame is at the top where.                                        *)
LEMMA TopFrame ==
    ASSUME ProcInv, NEW p \in Pid, Live(p)
    PROVE  /\ proc[p] \in ProcType /\ proc[p].stack \in Seq(Frame)
           /\ Depth(p) \in Nat \ {0} /\ Top(p) \in Frame
           /\ Fits(Depth(p), Top(p).sig, Pc(p))
           /\ Pc(p) \notin AlarmPcs \union ExitPcs => Depth(p) = 1 /\ Top(p).sig = "main"
<1>1. proc[p] \in ProcType /\ ProcOK(proc[p])
  BY DEF ProcInv
<1>2. proc[p].stack \in Seq(Frame) /\ proc[p].stack # <<>>
  BY <1>1 DEF ProcType, ProcOK, Live
<1>3. Depth(p) \in Nat \ {0} /\ Depth(p) \in 1 .. Len(proc[p].stack)
  BY <1>2, EmptySeq DEF Depth
<1>4. Top(p) \in Frame
  BY <1>2, <1>3, ElementOfSeq DEF Top
<1>5. Fits(Depth(p), Top(p).sig, Pc(p))
  BY <1>1, <1>3 DEF ProcOK, Top, Pc
<1> QED
  BY <1>1, <1>2, <1>3, <1>4, <1>5 DEF Fits, Frame, AlarmPcs

(* A step that moves the top frame and sets other fields.                  *)
LEMMA StepMoves ==
    ASSUME ProcInv, NEW p \in Pid, Live(p), NEW pc \in Pcs,
           Fits(Depth(p), Top(p).sig, pc),
           NEW x \in ProcType, Becomes(p, x),
           x.life = proc[p].life, x.mode = proc[p].mode,
           x.stack = Went(p, pc).stack,
           x.main_mutex \in {proc[p].main_mutex, 0, Depth(p)},
           \/ x.inotify_mutex = 0
           \/ x.inotify_mutex = Depth(p) /\ pc \in HoldPcs
           \/ x.inotify_mutex = proc[p].inotify_mutex /\ Pc(p) \notin HoldPcs
    PROVE  Moved(p, pc)
<1>1. proc[p] \in ProcType /\ ProcOK(proc[p]) /\ proc[p].life = "live"
  BY DEF ProcInv, Live
<1>2. x.stack = TopAt(proc[p].stack, pc)
  BY <1>1, WentIs DEF ProcType
<1>3. ProcOK(x)
  BY <1>1, <1>2, MoveOK DEF Depth, Top, Pc
<1> QED
  BY <1>1, <1>2, <1>3, LocalStep DEF Moved, Alone

(* A step that moves the top frame only.                                   *)
LEMMA GotoMoves ==
    ASSUME ProcInv, NEW p \in Pid, Live(p), NEW pc \in Pcs,
           Fits(Depth(p), Top(p).sig, pc), Pc(p) \notin HoldPcs, Goto(p, pc)
    PROVE  Moved(p, pc)
<1> PICK x \in ProcType : x = Went(p, pc)
  BY WentIs
<1>1. /\ x.life = proc[p].life /\ x.mode = proc[p].mode
      /\ x.main_mutex = proc[p].main_mutex /\ x.inotify_mutex = proc[p].inotify_mutex
  BY WentIs, TopFrame DEF ProcType
<1>2. Becomes(p, x)
  BY DEF Goto, Becomes
<1> QED
  BY <1>1, <1>2, StepMoves

(* A step that sets the configuration, the log or a mutex as well.         *)
LEMMA SetMoves ==
    ASSUME ProcInv, NEW p \in Pid, Live(p), NEW pc \in Pcs,
           Fits(Depth(p), Top(p).sig, pc)
    PROVE  /\ \A c \in ConfigType :
                Pc(p) \notin HoldPcs /\ Becomes(p, [Went(p, pc) EXCEPT !.config = c])
                    => Moved(p, pc)
           /\ \A l \in {"null", "open"} :
                Pc(p) \notin HoldPcs /\ Becomes(p, [Went(p, pc) EXCEPT !.logger = l])
                    => Moved(p, pc)
           /\ \A c \in ConfigType, l \in {"null", "open"} :
                /\ Pc(p) \notin HoldPcs
                /\ Becomes(p, [Went(p, pc) EXCEPT !.config = c, !.logger = l])
                => Moved(p, pc)
           /\ \A m \in {0, Depth(p)} :
                Pc(p) \notin HoldPcs /\ Becomes(p, [Went(p, pc) EXCEPT !.main_mutex = m])
                    => Moved(p, pc)
           /\ \A m \in {0, Depth(p)} :
                /\ m = 0 \/ pc \in HoldPcs
                /\ Becomes(p, [Went(p, pc) EXCEPT !.inotify_mutex = m])
                => Moved(p, pc)
<1> PICK w \in ProcType : w = Went(p, pc)
  BY WentIs
<1>1. /\ w.life = proc[p].life /\ w.mode = proc[p].mode
      /\ w.main_mutex = proc[p].main_mutex /\ w.inotify_mutex = proc[p].inotify_mutex
      /\ w.stack = Went(p, pc).stack /\ Depth(p) \in Nat
  BY WentIs, TopFrame DEF ProcType
<1>2. ASSUME NEW c \in ConfigType, Pc(p) \notin HoldPcs,
             Becomes(p, [Went(p, pc) EXCEPT !.config = c])
      PROVE  Moved(p, pc)
  <2> PICK x \in ProcType : x = [w EXCEPT !.config = c]
    BY DEF ProcType
  <2>1. /\ x.life = w.life /\ x.mode = w.mode /\ x.stack = w.stack
        /\ x.main_mutex = w.main_mutex /\ x.inotify_mutex = w.inotify_mutex
    BY DEF ProcType
  <2> QED
    BY <1>1, <1>2, <2>1, StepMoves
<1>3. ASSUME NEW l \in {"null", "open"}, Pc(p) \notin HoldPcs,
             Becomes(p, [Went(p, pc) EXCEPT !.logger = l])
      PROVE  Moved(p, pc)
  <2> PICK x \in ProcType : x = [w EXCEPT !.logger = l]
    BY DEF ProcType
  <2>1. /\ x.life = w.life /\ x.mode = w.mode /\ x.stack = w.stack
        /\ x.main_mutex = w.main_mutex /\ x.inotify_mutex = w.inotify_mutex
    BY DEF ProcType
  <2> QED
    BY <1>1, <1>3, <2>1, StepMoves
<1>4. ASSUME NEW c \in ConfigType, NEW l \in {"null", "open"}, Pc(p) \notin HoldPcs,
             Becomes(p, [Went(p, pc) EXCEPT !.config = c, !.logger = l])
      PROVE  Moved(p, pc)
  <2> PICK x \in ProcType : x = [w EXCEPT !.config = c, !.logger = l]
    BY DEF ProcType
  <2>1. /\ x.life = w.life /\ x.mode = w.mode /\ x.stack = w.stack
        /\ x.main_mutex = w.main_mutex /\ x.inotify_mutex = w.inotify_mutex
    BY DEF ProcType
  <2> QED
    BY <1>1, <1>4, <2>1, StepMoves
<1>5. ASSUME NEW m \in {0, Depth(p)}, Pc(p) \notin HoldPcs,
             Becomes(p, [Went(p, pc) EXCEPT !.main_mutex = m])
      PROVE  Moved(p, pc)
  <2>0. m \in Nat
    BY <1>1
  <2> PICK x \in ProcType : x = [w EXCEPT !.main_mutex = m]
    BY <2>0 DEF ProcType
  <2>1. /\ x.life = w.life /\ x.mode = w.mode /\ x.stack = w.stack
        /\ x.main_mutex = m /\ x.inotify_mutex = w.inotify_mutex
    BY DEF ProcType
  <2> QED
    BY <1>1, <1>5, <2>1, StepMoves
<1>6. ASSUME NEW m \in {0, Depth(p)}, m = 0 \/ pc \in HoldPcs,
             Becomes(p, [Went(p, pc) EXCEPT !.inotify_mutex = m])
      PROVE  Moved(p, pc)
  <2>0. m \in Nat
    BY <1>1
  <2> PICK x \in ProcType : x = [w EXCEPT !.inotify_mutex = m]
    BY <2>0 DEF ProcType
  <2>1. /\ x.life = w.life /\ x.mode = w.mode /\ x.stack = w.stack
        /\ x.main_mutex = w.main_mutex /\ x.inotify_mutex = m
    BY DEF ProcType
  <2> QED
    BY <1>1, <1>6, <2>1, StepMoves
<1> QED
  BY <1>2, <1>3, <1>4, <1>5, <1>6

(* A process that ends.                                                    *)
LEMMA EndLeaves ==
    ASSUME ProcInv, NEW p \in Pid, Becomes(p, Ended)
    PROVE  Left(p)
  BY GoneOK, LocalStep DEF Ended, Left, Alone

(* Where a frame may go from pc.                                           *)
LEMMA NextFits ==
    ASSUME NEW i \in Nat \ {0}, NEW sig \in {"main", "int", "hup"}, NEW pc \in Pcs,
           Fits(i, sig, pc)
    PROVE  /\ pc \notin AlarmPcs \union ExitPcs =>
                \A to \in Pcs \ ExitPcs : Fits(i, sig, to)
           /\ pc \in AlarmPcs \ {"dump", "dumping"} => \A to \in AlarmPcs : Fits(i, sig, to)
           /\ pc = "dump" => Fits(i, sig, "dumping")
           /\ pc = "dumping" => Fits(i, sig, IF sig = "int" THEN "zmq_cleanup" ELSE "test")
           /\ pc \in ExitPcs => \A to \in ExitPcs \union {"dump"} : Fits(i, sig, to)
  BY DEF Fits, AlarmPcs, ExitPcs

(* The steps of main() up to the poll loop.                                *)
LEMMA StartupSteps ==
    ASSUME ProcInv, text \in Texts, mtime \in Int, NEW p \in Pid
    PROVE  /\ CheckPid(p) => Left(p) \/ Moved(p, "open_pid") \/ Moved(p, "clear_stale")
           /\ ClearStale(p) => Left(p) \/ Moved(p, "open_pid")
           /\ OpenPid(p) => Moved(p, "write_pid")
           /\ WritePid(p) => Moved(p, "load")
           /\ LoadConfig(p) => Moved(p, "stat") \/ Moved(p, "logger")
           /\ StatConfig(p) => Moved(p, "logger")
           /\ OpenLogger(p) => Left(p) \/ Moved(p, "setup")
           /\ Setup(p) => Moved(p, "watching")
           /\ SetupDone(p) => Moved(p, "bind")
           /\ Bind(p) => Left(p) \/ Moved(p, "lock")
<1> DEFINE Early == PidPcs \union ReadPcs \union {"setup", "watching", "bind"}
<1>1. ASSUME NEW pc \in Early, At(p, pc)
      PROVE  /\ Live(p) /\ \A to \in Pcs \ ExitPcs : Fits(Depth(p), Top(p).sig, to)
             /\ Pc(p) = pc
  <2>1. Live(p) /\ Pc(p) = pc /\ pc \in Pcs /\ pc \notin AlarmPcs \union ExitPcs
    BY <1>1 DEF At, Pcs, PidPcs, ReadPcs, AlarmPcs, ExitPcs
  <2>2. Depth(p) \in Nat \ {0} /\ Top(p).sig \in {"main", "int", "hup"}
        /\ Fits(Depth(p), Top(p).sig, pc)
    BY <2>1, TopFrame DEF Frame
  <2> QED
    BY <2>1, <2>2, NextFits
<1>2. {"clear_stale", "open_pid", "write_pid", "load", "stat", "logger", "setup",
       "watching", "bind", "lock"} \subseteq Pcs \ ExitPcs
  BY DEF Pcs, PidPcs, ReadPcs, AlarmPcs, ExitPcs
<1>3. {"check_pid", "clear_stale", "open_pid", "write_pid", "load", "stat", "logger",
       "setup", "watching", "bind"} \subseteq Early
  BY DEF PidPcs, ReadPcs
<1> HIDE DEF Early
<1>4. ASSUME NEW pc \in Early \ {"watching"}, NEW to \in Pcs \ ExitPcs, At(p, pc), Goto(p, to)
      PROVE  Moved(p, to)
  BY <1>1, <1>4, GotoMoves DEF HoldPcs, Early, PidPcs, ReadPcs
<1>5. Becomes(p, Ended) => Left(p)
  BY EndLeaves
<1>6. /\ CheckPid(p) => Left(p) \/ Moved(p, "open_pid") \/ Moved(p, "clear_stale")
      /\ ClearStale(p) => Left(p) \/ Moved(p, "open_pid")
      /\ OpenPid(p) => Moved(p, "write_pid")
      /\ WritePid(p) => Moved(p, "load")
      /\ Bind(p) => Left(p) \/ Moved(p, "lock")
  BY <1>2, <1>3, <1>4, <1>5 DEF CheckPid, ClearStale, OpenPid, WritePid, Bind, Ends
<1>7. LoadConfig(p) => Moved(p, "stat") \/ Moved(p, "logger")
  <2> SUFFICES ASSUME LoadConfig(p) PROVE Moved(p, "stat") \/ Moved(p, "logger")
    OBVIOUS
  <2>1. At(p, "load") /\ Live(p) /\ Pc(p) \notin HoldPcs
        /\ Fits(Depth(p), Top(p).sig, "stat") /\ Fits(Depth(p), Top(p).sig, "logger")
    BY <1>1, <1>2, <1>3 DEF LoadConfig, HoldPcs
  <2>2. Loads(text) => InitFrom(text, proc[p].mode = "daemon") \in ConfigType
    BY InitFromType DEF Readable
  <2>3. Uninitialised \subseteq ConfigType
    BY DefaultsType DEF Uninitialised
  <2> QED
    BY <1>2, <2>1, <2>2, <2>3, SetMoves DEF LoadConfig
<1>8. StatConfig(p) => Moved(p, "logger")
  <2> SUFFICES ASSUME StatConfig(p) PROVE Moved(p, "logger")
    OBVIOUS
  <2>1. At(p, "stat") /\ Live(p) /\ Pc(p) \notin HoldPcs
        /\ Fits(Depth(p), Top(p).sig, "logger") /\ "logger" \in Pcs
    BY <1>1, <1>2, <1>3 DEF StatConfig, HoldPcs
  <2> PICK w \in ProcType : w = Went(p, "logger") /\ w.config = proc[p].config
    BY <2>1, WentIs, TopFrame DEF ProcType
  <2>2. Mtime(p) \in Int /\ w.config \in ConfigType
    BY DEF Mtime, GetMtime, ProcType
  <2>3. [w.config EXCEPT !.mtime = Mtime(p)] \in ConfigType
    BY <2>2 DEF ConfigType
  <2>4. [w EXCEPT !.config.mtime = Mtime(p)] =
          [w EXCEPT !.config = [w.config EXCEPT !.mtime = Mtime(p)]]
    BY DEF ProcType
  <2> QED
    BY <2>1, <2>3, <2>4, SetMoves DEF StatConfig
<1>9. OpenLogger(p) => Left(p) \/ Moved(p, "setup")
  <2> SUFFICES ASSUME OpenLogger(p) PROVE Left(p) \/ Moved(p, "setup")
    OBVIOUS
  <2>1. At(p, "logger") /\ Live(p) /\ Pc(p) \notin HoldPcs
        /\ Fits(Depth(p), Top(p).sig, "setup") /\ "setup" \in Pcs
    BY <1>1, <1>2, <1>3 DEF OpenLogger, HoldPcs
  <2> QED
    BY <1>5, <2>1, SetMoves DEF OpenLogger
<1>10. Setup(p) => Moved(p, "watching")
  BY <1>1, <1>2, <1>3, SetMoves DEF Setup, HoldPcs
<1>11. SetupDone(p) => Moved(p, "bind")
  BY <1>1, <1>2, <1>3, SetMoves DEF SetupDone
<1> QED
  BY <1>6, <1>7, <1>8, <1>9, <1>10, <1>11

(* The steps of the poll loop and of alarm_handler(), but for its end.     *)
LEMMA LoopSteps ==
    ASSUME ProcInv, text \in Texts, mtime \in Int, NEW p \in Pid
    PROVE  /\ AlarmDue(p) => Moved(p, "lock")
           /\ Work(p) => Moved(p, "working")
           /\ WorkDone(p) => Ends(p) \/ Moved(p, "poll")
           /\ LockMain(p) => Moved(p, "dump")
           /\ Dump(p) => Moved(p, "dumping")
           /\ DumpDone(p) => Moved(p, IF Top(p).sig = "int" THEN "zmq_cleanup" ELSE "test")
           /\ TestUpdate(p) => Moved(p, "restat") \/ Moved(p, "print")
           /\ Restat(p) => Moved(p, "reload")
           /\ Reload(p) => Ends(p) \/ Moved(p, "print")
<1>1. ASSUME NEW pc \in Pcs, At(p, pc)
      PROVE  /\ Live(p) /\ Pc(p) = pc
             /\ Depth(p) \in Nat \ {0} /\ Top(p).sig \in {"main", "int", "hup"}
             /\ Fits(Depth(p), Top(p).sig, pc)
  BY <1>1, TopFrame DEF At, Frame
<1>2. ASSUME NEW pc \in {"poll", "working"}, At(p, pc)
      PROVE  /\ Live(p) /\ Pc(p) = pc
             /\ \A to \in Pcs \ ExitPcs : Fits(Depth(p), Top(p).sig, to)
  <2>1. pc \in Pcs /\ pc \notin AlarmPcs \union ExitPcs
    BY DEF Pcs, AlarmPcs, ExitPcs
  <2> QED
    BY <1>1, <1>2, <2>1, NextFits
<1>3. ASSUME NEW pc \in AlarmPcs \ {"dump", "dumping"}, At(p, pc)
      PROVE  /\ Live(p) /\ Pc(p) = pc /\ Pc(p) \notin HoldPcs
             /\ \A to \in AlarmPcs : Fits(Depth(p), Top(p).sig, to)
  <2>1. pc \in Pcs /\ pc \notin HoldPcs
    BY DEF Pcs, AlarmPcs, HoldPcs
  <2> QED
    BY <1>1, <1>3, <2>1, NextFits
<1>4. {"lock", "working", "poll"} \subseteq Pcs \ ExitPcs
  BY DEF Pcs, AlarmPcs, ExitPcs
<1>5. AlarmPcs \subseteq Pcs
      /\ {"lock", "test", "restat", "reload", "print"} \subseteq AlarmPcs \ {"dump", "dumping"}
      /\ {"dump", "dumping"} \subseteq AlarmPcs /\ {"zmq_cleanup", "test"} \subseteq Pcs
  BY DEF Pcs, AlarmPcs, ExitPcs
<1>7. AlarmDue(p) => Moved(p, "lock")
  BY <1>2, <1>4, GotoMoves DEF AlarmDue, HoldPcs
<1>8. Work(p) => Moved(p, "working")
  BY <1>2, <1>4, SetMoves DEF Work, HoldPcs
<1>9. WorkDone(p) => Ends(p) \/ Moved(p, "poll")
  BY <1>2, <1>4, SetMoves DEF WorkDone
<1>10. LockMain(p) => Moved(p, "dump")
  BY <1>3, <1>5, SetMoves DEF LockMain
<1>11. Dump(p) => Moved(p, "dumping")
  BY <1>1, <1>5, NextFits, SetMoves DEF Dump, HoldPcs
<1>12. DumpDone(p) => Moved(p, IF Top(p).sig = "int" THEN "zmq_cleanup" ELSE "test")
  <2> SUFFICES ASSUME DumpDone(p)
               PROVE  Moved(p, IF Top(p).sig = "int" THEN "zmq_cleanup" ELSE "test")
    OBVIOUS
  <2> PICK to \in Pcs : to = IF Top(p).sig = "int" THEN "zmq_cleanup" ELSE "test"
    BY <1>5
  <2>1. Live(p) /\ Fits(Depth(p), Top(p).sig, to)
    BY <1>1, <1>5, NextFits DEF DumpDone
  <2>2. Becomes(p, [Went(p, to) EXCEPT !.inotify_mutex = 0])
    BY DEF DumpDone
  <2> QED
    BY <2>1, <2>2, SetMoves
<1>13. TestUpdate(p) => Moved(p, "restat") \/ Moved(p, "print")
  BY <1>3, <1>5, GotoMoves DEF TestUpdate
<1>14. Restat(p) => Moved(p, "reload")
  <2> SUFFICES ASSUME Restat(p) PROVE Moved(p, "reload")
    OBVIOUS
  <2>1. At(p, "restat") /\ Live(p) /\ Pc(p) \notin HoldPcs
        /\ Fits(Depth(p), Top(p).sig, "reload") /\ "reload" \in Pcs
    BY <1>3, <1>5 DEF Restat
  <2> PICK w \in ProcType : w = Went(p, "reload") /\ w.config = proc[p].config
    BY <2>1, WentIs, TopFrame DEF ProcType
  <2>2. Mtime(p) \in Int /\ w.config \in ConfigType
    BY DEF Mtime, GetMtime, ProcType
  <2>3. [w.config EXCEPT !.mtime = Mtime(p)] \in ConfigType
    BY <2>2 DEF ConfigType
  <2>4. [w EXCEPT !.config.mtime = Mtime(p)] =
          [w EXCEPT !.config = [w.config EXCEPT !.mtime = Mtime(p)]]
    BY DEF ProcType
  <2> QED
    BY <2>1, <2>3, <2>4, SetMoves DEF Restat
<1>15. Reload(p) => Ends(p) \/ Moved(p, "print")
  <2> SUFFICES ASSUME Reload(p), ~Ends(p) PROVE Moved(p, "print")
    OBVIOUS
  <2>1. At(p, "reload") /\ Live(p) /\ Pc(p) \notin HoldPcs
        /\ Fits(Depth(p), Top(p).sig, "print") /\ "print" \in Pcs
    BY <1>3, <1>5 DEF Reload
  <2> DEFINE c == SetLogging(proc[p].config, text)
  <2>2. CASE Goto(p, "print")
    BY <2>1, <2>2, GotoMoves
  <2>3. CASE /\ Loads(text)
             /\ Becomes(p, [Went(p, "print") EXCEPT !.config = c, !.logger = InitLogger(c)])
    <3>1. c \in ConfigType
      <4>1. proc[p].config \in ConfigType /\ text \in Readable
        BY <2>1, <2>3, TopFrame DEF ProcType, Readable
      <4> QED
        BY <4>1, LoggingType
    <3>2. InitLogger(c) \in {"null", "open"}
      BY DEF InitLogger
    <3> HIDE DEF c
    <3> QED
      BY <2>1, <2>3, <3>1, <3>2, SetMoves
  <2> QED
    BY <2>2, <2>3 DEF Reload
<1> QED
  BY <1>7, <1>8, <1>9, <1>10, <1>11, <1>12, <1>13, <1>14, <1>15

(* The end of alarm_handler(): main() polls, a signal handler is gone.     *)
LEMMA PrintSteps ==
    ASSUME ProcInv, NEW p \in Pid, Print_config(p)
    PROVE  /\ \/ Moved(p, "poll") /\ Top(p).sig = "main"
              \/ Popped(p) /\ Top(p).sig = "hup"
           /\ proc'[p].config = proc[p].config
<1>1. Live(p) /\ Pc(p) = "print" /\ "print" \in Pcs /\ "poll" \in Pcs
  BY DEF Print_config, At, Pcs, AlarmPcs
<1>2. /\ Depth(p) \in Nat \ {0} /\ proc[p] \in ProcType /\ ProcOK(proc[p])
      /\ Fits(Depth(p), Top(p).sig, "print") /\ Top(p).sig \in {"main", "hup"}
      /\ Depth(p) = 1 <=> Top(p).sig = "main"
  BY <1>1, TopFrame DEF ProcInv, Fits, Frame, ExitPcs
<1>3. CASE Top(p).sig = "main"
  <2>1. Fits(Depth(p), Top(p).sig, "poll")
    BY <1>2, <1>3 DEF Fits, ExitPcs
  <2>2. Becomes(p, [Went(p, "poll") EXCEPT !.main_mutex = 0])
    BY <1>3 DEF Print_config, Returned
  <2>3. Moved(p, "poll")
    BY <1>1, <2>1, <2>2, SetMoves DEF HoldPcs
  <2> PICK w \in ProcType : w = Went(p, "poll") /\ w.config = proc[p].config
    BY <1>1, <1>2, WentIs DEF ProcType
  <2>4. proc'[p] = [w EXCEPT !.main_mutex = 0]
    BY <2>2 DEF Becomes, ProcInv
  <2>5. proc'[p].config = proc[p].config
    BY <2>4 DEF ProcType
  <2> QED
    BY <1>3, <2>3, <2>5
<1>4. CASE Top(p).sig # "main"
  <2> DEFINE t == SubSeq(proc[p].stack, 1, Depth(p) - 1)
  <2> PICK s \in Seq(Frame) : s = proc[p].stack
    BY <1>2 DEF ProcType
  <2>1. /\ t \in Seq(Frame) /\ Len(t) = Depth(p) - 1 /\ Depth(p) - 1 \in Nat \ {0}
        /\ \A i \in 1 .. Len(t) : t[i] = s[i]
    <3>1. Depth(p) = Len(s)
      BY DEF Depth
    <3>2. \A i \in 1 .. Len(s) - 1 : s[i] \in Frame
      BY ElementOfSeq
    <3> QED
      BY <1>2, <1>4, <3>1, <3>2, SubSeqProperties
  <2> HIDE DEF t
  <2> PICK x \in ProcType : x = [[proc[p] EXCEPT !.stack = t] EXCEPT !.main_mutex = 0]
    BY <1>2, <2>1 DEF ProcType
  <2>2. /\ x.life = "live" /\ x.mode = proc[p].mode /\ x.stack = t
        /\ x.config = proc[p].config /\ x.main_mutex = 0
        /\ x.inotify_mutex = proc[p].inotify_mutex
    BY <1>1, <1>2 DEF ProcType, Live
  <2>3. Becomes(p, x)
    BY <1>4 DEF Print_config, Returned, t
  <2>4. ProcOK(x)
    <3>1. /\ \A i \in 1 .. Len(s) : Fits(i, s[i].sig, s[i].pc)
          /\ \A i, j \in 1 .. Len(s) : s[i].sig = s[j].sig => i = j
          /\ proc[p].inotify_mutex <= Len(s) /\ Len(s) = Depth(p)
          /\ proc[p].inotify_mutex # 0 => s[proc[p].inotify_mutex].pc \in HoldPcs
      BY <1>2 DEF ProcOK, Depth
    <3>2. proc[p].inotify_mutex # Depth(p) /\ proc[p].inotify_mutex \in Nat
      BY <1>1, <1>2, <3>1 DEF Pc, Top, HoldPcs, ProcType
    <3>3. x.inotify_mutex <= Len(t)
          /\ (x.inotify_mutex # 0 => t[x.inotify_mutex].pc \in HoldPcs)
      BY <2>1, <2>2, <3>1, <3>2
    <3>4. \A i \in 1 .. Len(t) : Fits(i, t[i].sig, t[i].pc)
      BY <2>1, <3>1
    <3>5. \A i, j \in 1 .. Len(t) : t[i].sig = t[j].sig => i = j
      BY <2>1, <3>1
    <3>6. t # <<>>
      BY <2>1
    <3> QED
      BY <2>1, <2>2, <3>3, <3>4, <3>5, <3>6 DEF ProcOK
  <2>5. ProcInv' /\ proc'[p] = x /\ \A q \in Pid : q # p => proc'[q] = proc[q]
    BY <2>3, <2>4, LocalStep
  <2> QED
    BY <1>2, <1>4, <2>1, <2>2, <2>5 DEF Popped, Alone, t
<1> QED
  BY <1>3, <1>4

(* The steps of sig_handler() for SIGINT.                                  *)
LEMMA ExitSteps ==
    ASSUME ProcInv, NEW p \in Pid
    PROVE  /\ LogInterrupt(p) => Ends(p) \/ Moved(p, "dump")
           /\ ZmqCleanup(p) => Moved(p, "clear_pid")
           /\ ClearPid(p) => Moved(p, "clear_config")
           /\ ClearConfig(p) => Left(p)
           /\ Crash(p) => Left(p)
<1>1. ASSUME NEW pc \in ExitPcs, At(p, pc)
      PROVE  /\ Live(p) /\ Pc(p) = pc /\ Pc(p) \notin HoldPcs
             /\ \A to \in ExitPcs \union {"dump"} : Fits(Depth(p), Top(p).sig, to)
  <2>1. pc \in Pcs /\ pc \notin HoldPcs
    BY DEF Pcs, ExitPcs, HoldPcs
  <2>2. Live(p) /\ Pc(p) = pc
        /\ Depth(p) \in Nat \ {0} /\ Top(p).sig \in {"main", "int", "hup"}
        /\ Fits(Depth(p), Top(p).sig, pc)
    BY <1>1, TopFrame DEF At, Frame
  <2> QED
    BY <2>1, <2>2, NextFits
<1>2. {"log_int", "zmq_cleanup", "clear_pid", "clear_config"} \subseteq ExitPcs
      /\ ExitPcs \union {"dump"} \subseteq Pcs
  BY DEF ExitPcs, AlarmPcs, Pcs
<1>3. Ends(p) => Left(p)
  BY EndLeaves DEF Ends
<1> QED
  BY <1>1, <1>2, <1>3, GotoMoves DEF LogInterrupt, ZmqCleanup, ClearPid, ClearConfig, Crash

(* A new process has one frame; a signal puts the frame of its handler on  *)
(* top.                                                                    *)
Begun(p, pc) ==
    /\ Alone(p)
    /\ proc'[p].life = "live" /\ proc'[p].stack = <<[sig |-> "main", pc |-> pc]>>

Pushed(p, e) ==
    /\ Alone(p)
    /\ proc'[p].life = "live" /\ proc'[p].mode = proc[p].mode
    /\ proc'[p].stack = Append(proc[p].stack, e)

(* A start begins a process of one frame, in the mode asked for.           *)
LEMMA StartBegins ==
    ASSUME ProcInv, NEW p \in Pid, NEW mode \in Modes, Start(p, mode)
    PROVE  Begun(p, IF mode = "daemon" THEN "check_pid" ELSE "load")
           /\ proc'[p].mode = mode
<1> PICK pc \in {"check_pid", "load"} : pc = IF mode = "daemon" THEN "check_pid" ELSE "load"
  OBVIOUS
<1> PICK e \in Frame : e = [sig |-> "main", pc |-> pc]
  BY DEF Frame, Pcs, PidPcs, ReadPcs
<1>1. <<e>> \in Seq(Frame)
  OBVIOUS
<1> PICK s \in Seq(Frame) : s = <<e>>
  BY <1>1
<1>2. Len(s) = 1 /\ s[1].sig = "main" /\ s[1].pc = pc /\ s # <<>>
  BY <1>1
<1>3. mode \in {"daemon", "foreground"}
  BY DaemonAssumptions
<1> PICK x \in ProcType : x = [Gone("live") EXCEPT !.mode = mode, !.stack = s]
  <2>1. Gone("live") \in ProcType
    BY DefaultsType, EmptySeq DEF Gone, ProcType
  <2> QED
    BY <1>2, <1>3, <2>1 DEF ProcType
<1>4. /\ x.life = "live" /\ x.mode = mode /\ x.stack = s
      /\ x.main_mutex = 0 /\ x.inotify_mutex = 0
  BY DEF Gone
<1>5. Becomes(p, x)
  BY DEF Start
<1>6. ProcOK(x)
  <2>1. pc \notin ExitPcs
    BY DEF ExitPcs
  <2>2. Fits(1, s[1].sig, s[1].pc)
    BY <1>2, <2>1 DEF Fits
  <2>3. \A i \in 1 .. Len(s) : i = 1
    BY <1>2
  <2>4. \A i \in 1 .. Len(s) : Fits(i, s[i].sig, s[i].pc)
    BY <2>2, <2>3, Zenon
  <2>5. \A i, j \in 1 .. Len(s) : s[i].sig = s[j].sig => i = j
    BY <2>3, Zenon
  <2>6. 0 <= Len(s)
    BY <1>2
  <2> QED
    BY <1>2, <1>4, <2>4, <2>5, <2>6 DEF ProcOK
<1> QED
  BY <1>4, <1>5, <1>6, LocalStep DEF Begun, Alone

(* A signal interrupts a process in the order it is in.                    *)
LEMMA SignalPushes ==
    ASSUME ProcInv, NEW p \in Pid, NEW sig \in {"int", "hup"}, Signal(p, sig)
    PROVE  Pushed(p, [sig |-> sig, pc |-> IF sig = "int" THEN "log_int" ELSE "lock"])
           /\ proc'[p].config = proc[p].config
<1> PICK pc \in Pcs : pc = IF sig = "int" THEN "log_int" ELSE "lock"
  BY DEF Pcs, AlarmPcs, ExitPcs
<1> PICK e \in Frame : e = [sig |-> sig, pc |-> pc]
  BY DEF Frame
<1>1. e.sig = sig /\ e.pc = IF sig = "int" THEN "log_int" ELSE "lock"
  OBVIOUS
<1>2. /\ Live(p) /\ proc[p] \in ProcType /\ ProcOK(proc[p])
      /\ \A i \in 1 .. Len(proc[p].stack) : proc[p].stack[i].sig # sig
  BY DEF Signal, ProcInv, Depth
<1> PICK s \in Seq(Frame) : s = proc[p].stack
  BY <1>2 DEF ProcType
<1> PICK t \in Seq(Frame) : t = Append(s, e)
  BY AppendProperties
<1>3. /\ Len(t) = Len(s) + 1 /\ t # <<>> /\ t[Len(s) + 1] = e
      /\ \A i \in 1 .. Len(s) : t[i] = s[i]
      /\ Len(s) \in Nat \ {0}
  BY <1>2, AppendProperties, EmptySeq DEF ProcOK, Live
<1> PICK x \in ProcType : x = [proc[p] EXCEPT !.stack = t]
  BY <1>2 DEF ProcType
<1>4. /\ x.life = "live" /\ x.mode = proc[p].mode /\ x.stack = t
      /\ x.config = proc[p].config
      /\ x.main_mutex = proc[p].main_mutex /\ x.inotify_mutex = proc[p].inotify_mutex
      /\ x.main_mutex \in Nat /\ x.inotify_mutex \in Nat
  BY <1>2 DEF ProcType, Live
<1>5. Becomes(p, x)
  BY <1>2 DEF Signal, ProcType
<1>6. ProcOK(x)
  <2>1. /\ \A i \in 1 .. Len(s) : Fits(i, s[i].sig, s[i].pc)
        /\ \A i, j \in 1 .. Len(s) : s[i].sig = s[j].sig => i = j
        /\ proc[p].main_mutex <= Len(s) /\ proc[p].inotify_mutex <= Len(s)
        /\ proc[p].inotify_mutex # 0 => s[proc[p].inotify_mutex].pc \in HoldPcs
    BY <1>2 DEF ProcOK
  <2>2. Fits(Len(t), e.sig, e.pc)
    BY <1>1, <1>3 DEF Fits, AlarmPcs, ExitPcs
  <2>3. \A i \in 1 .. Len(t) : Fits(i, t[i].sig, t[i].pc)
    BY <1>3, <2>1, <2>2
  <2>4. \A i, j \in 1 .. Len(t) : t[i].sig = t[j].sig => i = j
    BY <1>1, <1>2, <1>3, <2>1
  <2>5. x.main_mutex <= Len(t) /\ x.inotify_mutex <= Len(t)
        /\ (x.inotify_mutex # 0 => t[x.inotify_mutex].pc \in HoldPcs)
    BY <1>3, <1>4, <2>1
  <2> QED
    BY <1>3, <1>4, <2>3, <2>4, <2>5 DEF ProcOK
<1> QED
  BY <1>4, <1>5, <1>6, LocalStep DEF Pushed, Alone

(* The steps of a process and what others do to it leave all processes in  *)
(* order.                                                                  *)
LEMMA ProcSteps ==
    ASSUME ProcInv, text \in Texts, mtime \in Int, [DaemonNext]_daemonVars
    PROVE  ProcInv'
<1>1. CASE UNCHANGED proc
  BY <1>1 DEF ProcInv
<1>2. ASSUME NEW p \in Pid, Step(p) PROVE ProcInv'
  BY <1>2, StartupSteps, LoopSteps, PrintSteps, ExitSteps, EndLeaves
  DEF Step, Moved, Left, Popped, Alone, Ends
<1>3. ASSUME NEW p \in Pid, AlarmDue(p) \/ Work(p) \/ Crash(p) PROVE ProcInv'
  BY <1>3, LoopSteps, ExitSteps DEF Moved, Left, Alone
<1>4. ASSUME NEW p \in Pid, Reused(p) PROVE ProcInv'
  BY <1>4, GoneOK, LocalStep DEF Reused
<1>5. ASSUME NEW p \in Pid, NEW mode \in Modes, Start(p, mode) PROVE ProcInv'
  BY <1>5, StartBegins DEF Begun, Alone
<1>6. ASSUME NEW p \in Pid, NEW sig \in {"int", "hup"}, Signal(p, sig) PROVE ProcInv'
  BY <1>6, SignalPushes DEF Pushed, Alone
<1>7. ASSUME NEW t \in Texts, Edit(t) PROVE ProcInv'
  BY <1>1, <1>7 DEF Edit
<1> QED
  BY <1>1, <1>2, <1>3, <1>4, <1>5, <1>6, <1>7 DEF DaemonNext, daemonVars

-----------------------------------------------------------------------------
(* The files, the socket and the bounds.                                   *)

EnvInv ==
    /\ pid_file \in Pid \union {"none", "empty"}
    /\ bound \in [Uris -> Pid \union {Nobody, Foreign}]
    /\ text \in Texts /\ mtime = edits + 1
    /\ \A c \in conf_dump : conf_dump = {c} /\ c.zmq_uri \in Uris
    /\ signals \in 0 .. MaxSignals /\ edits \in 0 .. MaxEdits
    /\ crashes \in 0 .. MaxCrashes

TypeInv == ProcInv /\ EnvInv

(* The end of a process leaves the addresses of the others bound.          *)
LEMMA Unbinds ==
    ASSUME bound \in [Uris -> Pid \union {Nobody, Foreign}], NEW p \in Pid, Unbind(p)
    PROVE  /\ bound' \in [Uris -> Pid \union {Nobody, Foreign}]
           /\ \A u \in Uris : bound'[u] = IF bound[u] = p THEN Nobody ELSE bound[u]
  BY DEF Unbind

(* Every step keeps the files, the socket and the counters in range.       *)
LEMMA EnvSteps ==
    ASSUME TypeInv, [DaemonNext]_daemonVars
    PROVE  EnvInv'
<1>0. EnvInv /\ MaxSignals \in Nat /\ MaxEdits \in Nat /\ MaxCrashes \in Nat
  BY DaemonAssumptions DEF TypeInv
<1>1. CASE UNCHANGED <<files, world>>
  BY <1>0, <1>1 DEF EnvInv, files, world
<1>2. ASSUME NEW p \in Pid, UNCHANGED <<pid_file, conf_dump, world>>,
             Unbind(p) \/ UNCHANGED bound
      PROVE  EnvInv'
  BY <1>0, <1>2, Unbinds DEF EnvInv, world
<1>3. ASSUME pid_file' \in Pid \union {"none", "empty"}, UNCHANGED <<bound, conf_dump, world>>
      PROVE  EnvInv'
  BY <1>0, <1>3 DEF EnvInv, world
<1>4. ASSUME NEW p \in Pid, Bind(p) PROVE EnvInv'
  <2>1. CASE Ends(p)
    BY <1>2, <1>4, <2>1 DEF Ends, Bind
  <2>2. CASE bound' = [bound EXCEPT ![proc[p].config.zmq_uri] = p]
    BY <1>0, <1>4, <2>2 DEF Bind, EnvInv, world
  <2> QED
    BY <1>4, <2>1, <2>2 DEF Bind
<1>5. ASSUME NEW p \in Pid, Print_config(p) PROVE EnvInv'
  <2>1. proc[p].config.zmq_uri \in Uris
    BY <1>5, TopFrame DEF TypeInv, Print_config, At, ProcType, ConfigType
  <2> QED
    BY <1>0, <1>5, <2>1 DEF Print_config, EnvInv, world
<1>6. ASSUME NEW p \in Pid, ClearConfig(p) PROVE EnvInv'
  BY <1>0, <1>6, Unbinds DEF ClearConfig, Ends, EnvInv, world
<1>7. ASSUME NEW p \in Pid, Crash(p) PROVE EnvInv'
  BY <1>0, <1>7, Unbinds DEF Crash, Ends, EnvInv
<1>8. ASSUME NEW p \in Pid, NEW sig \in {"int", "hup"}, Signal(p, sig) PROVE EnvInv'
  BY <1>0, <1>8 DEF Signal, files, EnvInv
<1>9. ASSUME NEW t \in Texts, Edit(t) PROVE EnvInv'
  BY <1>0, <1>9 DEF Edit, files, EnvInv
<1>10. ASSUME NEW p \in Pid, Step(p) PROVE EnvInv'
  <2>1. CASE \/ CheckPid(p) \/ LoadConfig(p) \/ StatConfig(p) \/ OpenLogger(p)
             \/ Setup(p) \/ SetupDone(p) \/ LockMain(p) \/ Dump(p) \/ DumpDone(p)
             \/ TestUpdate(p) \/ Restat(p)
    BY <1>1, <2>1 DEF CheckPid, LoadConfig, StatConfig, OpenLogger, Setup, SetupDone,
       LockMain, Dump, DumpDone, TestUpdate, Restat
  <2>2. CASE \/ ClearStale(p) \/ OpenPid(p) \/ WritePid(p) \/ ClearPid(p)
    BY <1>3, <2>2 DEF ClearStale, OpenPid, WritePid, ClearPid
  <2>3. CASE \/ WorkDone(p) \/ Reload(p) \/ LogInterrupt(p) \/ ZmqCleanup(p)
    BY <1>2, <2>3 DEF WorkDone, Reload, LogInterrupt, ZmqCleanup, Ends
  <2> QED
    BY <1>4, <1>5, <1>6, <1>10, <2>1, <2>2, <2>3 DEF Step
<1>11. ASSUME NEW p \in Pid, AlarmDue(p) \/ Work(p) \/ Reused(p) PROVE EnvInv'
  BY <1>1, <1>11 DEF AlarmDue, Work, Reused
<1>12. ASSUME NEW p \in Pid, NEW mode \in Modes, Start(p, mode) PROVE EnvInv'
  BY <1>1, <1>12 DEF Start
<1>13. CASE UNCHANGED daemonVars
  BY <1>1, <1>13 DEF daemonVars, files, world
<1> QED
  BY <1>7, <1>8, <1>9, <1>10, <1>11, <1>12, <1>13 DEF DaemonNext

(* Both parts hold from the start on.                                      *)
LEMMA TypeInvariant == DaemonSpec => []TypeInv
<1>1. DaemonInit => TypeInv
  <2> SUFFICES ASSUME DaemonInit PROVE TypeInv
    OBVIOUS
  <2>1. ProcInv
    BY GoneOK DEF DaemonInit, ProcInv
  <2>2. EnvInv
    BY DaemonAssumptions DEF DaemonInit, EnvInv
  <2> QED
    BY <2>1, <2>2 DEF TypeInv
<1>2. TypeInv /\ [DaemonNext]_daemonVars => TypeInv'
  <2> SUFFICES ASSUME TypeInv, [DaemonNext]_daemonVars PROVE TypeInv'
    OBVIOUS
  <2>1. text \in Texts /\ mtime \in Int /\ ProcInv
    BY DaemonAssumptions DEF TypeInv, EnvInv
  <2> QED
    BY <2>1, ProcSteps, EnvSteps DEF TypeInv
<1> QED
  BY <1>1, <1>2, PTL DEF DaemonSpec

(* There are three frames at most: main() and one per signal, as neither   *)
(* handler interrupts itself.                                              *)
LEMMA ThreeFrames ==
    ASSUME ProcInv, NEW p \in Pid
    PROVE  /\ Depth(p) \in Nat /\ Depth(p) <= 3
           /\ \A i \in 1 .. Depth(p) : proc[p].stack[i] \in Frame
<1> PICK s \in Seq(Frame) : s = proc[p].stack
  BY DEF ProcInv, ProcType
<1> PICK n \in Nat : n = Len(s)
  OBVIOUS
<1>1. \A i \in 1 .. n : s[i] \in Frame
  BY ElementOfSeq
<1>2. \A i, j \in 1 .. n : s[i].sig = s[j].sig => i = j
  BY DEF ProcInv, ProcOK
<1>3. n <= 3
  <2> SUFFICES ASSUME n > 3 PROVE FALSE
    OBVIOUS
  <2>1. 1 \in 1 .. n /\ 2 \in 1 .. n /\ 3 \in 1 .. n /\ 4 \in 1 .. n
    OBVIOUS
  <2>2. \A i \in 1 .. n : s[i].sig \in {"main", "int", "hup"}
    BY <1>1 DEF Frame
  <2> QED
    BY <1>2, <2>1, <2>2
<1> QED
  BY <1>1, <1>3 DEF Depth

(* Every process has at most main() and one handler per signal on its      *)
(* stack, a mutex is held by a frame that exists, and the files, the       *)
(* address and the configuration in config.dump are such as the code       *)
(* writes, for any number of processes, texts, signals, edits and crashes. *)
THEOREM DaemonTypeCorrect == DaemonSpec => []DaemonTypeOK
<1>1. TypeInv => DaemonTypeOK
  <2> SUFFICES ASSUME TypeInv PROVE DaemonTypeOK
    OBVIOUS
  <2>1. \A p \in Pid :
          /\ proc[p].life \in {"unborn", "live", "dead", "other"}
          /\ Live(p) <=> proc[p].stack # <<>>
          /\ Depth(p) <= 3
          /\ \A i \in 1 .. Depth(p) : proc[p].stack[i].pc \in Pcs
          /\ proc[p].logger \in {"none", "null", "open"}
          /\ proc[p].main_mutex \in 0 .. Depth(p)
          /\ proc[p].inotify_mutex \in 0 .. Depth(p)
    <3> TAKE p \in Pid
    <3>1. proc[p] \in ProcType /\ ProcOK(proc[p]) /\ ProcInv
      BY DEF TypeInv, ProcInv
    <3>2. Depth(p) \in Nat /\ Depth(p) <= 3 /\ \A i \in 1 .. Depth(p) : proc[p].stack[i] \in Frame
      BY <3>1, ThreeFrames
    <3> QED
      BY <3>1, <3>2 DEF ProcType, ProcOK, Live, Depth, Frame
  <2>2. DOMAIN proc = Pid
    BY DEF TypeInv, ProcInv
  <2>3. mtime \in 1 .. MaxEdits + 1
    BY DaemonAssumptions DEF TypeInv, EnvInv
  <2> QED
    BY <2>1, <2>2, <2>3 DEF TypeInv, EnvInv, DaemonTypeOK
<1> QED
  BY <1>1, TypeInvariant, PTL

-----------------------------------------------------------------------------
(* Who owns the pid file and the socket, when processes are daemons and a  *)
(* start begins only after the last one wrote its pid.                     *)

Apart == Overlap = FALSE /\ Modes \subseteq {"daemon"}

Base(p)    == proc[p].stack[1].pc
Has(p, pc) == \E i \in 1 .. Depth(p) : proc[p].stack[i].pc = pc

Early == PidPcs \union ReadPcs \union {"setup", "watching", "bind"}

(* p has found that no daemon runs, and not written its pid yet.           *)
Late(p) == Live(p) /\ Base(p) \in {"clear_stale", "open_pid", "write_pid"}

(* p owns the pid file and may have the socket.                            *)
Serves(p) == Owner(p) /\ Base(p) \notin Early /\ ~Has(p, "clear_pid")

PidInv ==
    /\ \A p \in Pid : proc[p].mode = "daemon"
    /\ \A p \in Pid : Depth(p) > 1 => Base(p) \notin PidPcs \union ReadPcs
    /\ \A p, q \in Pid : Starting(p) /\ Starting(q) => p = q
    /\ \A p, q \in Pid : Late(p) => ~Owner(q)
    /\ \A p \in Pid : Owner(p) => pid_file = p
    /\ \A u \in Uris, p \in Pid : bound[u] = p => Serves(p)

(* The frames of p after its top frame moved, ...                          *)
LEMMA MovedFrames ==
    ASSUME ProcInv, NEW p \in Pid, Live(p), NEW pc \in Pcs, Moved(p, pc)
    PROVE  /\ Live(p)' /\ Depth(p)' = Depth(p) /\ Depth(p) \in Nat \ {0}
           /\ Depth(p) = 1 => Base(p) = Pc(p) /\ Base(p)' = pc
           /\ Depth(p) # 1 => Base(p)' = Base(p)
           /\ \A c \in Pcs : Has(p, c)' => c = pc \/ Has(p, c)
           /\ \A c \in Pcs : Has(p, c) => c = Pc(p) \/ Has(p, c)'
           /\ Has(p, pc)'
<1> PICK s \in Seq(Frame) : s = proc[p].stack
  BY DEF ProcInv, ProcType
<1>1. s # <<>>
  BY DEF ProcInv, ProcOK, Live
<1>0. /\ Len(TopAt(s, pc)) = Len(s)
      /\ \A i \in 1 .. Len(s) : i # Len(s) => TopAt(s, pc)[i] = s[i]
  BY <1>1, TopMoves
<1> PICK t : t = TopAt(s, pc)
  OBVIOUS
<1> PICK n \in Nat \ {0} : n = Len(s)
  BY <1>1, EmptySeq
<1>2. t = proc'[p].stack
  BY DEF Moved
<1>3. t[n].pc = pc
  <2>1. t[n] = [sig |-> s[n].sig, pc |-> pc]
    BY <1>1, TopMoves
  <2> QED
    BY <2>1
<1>4. Len(t) = n /\ \A i \in 1 .. n : i # n => t[i] = s[i]
  BY <1>0
<1>5. Depth(p) = n /\ Depth(p)' = n /\ Pc(p) = s[n].pc
  BY <1>2, <1>4 DEF Depth, Pc, Top
<1>6. Base(p) = s[1].pc /\ Base(p)' = t[1].pc
  BY <1>2 DEF Base
<1>7. \A c \in Pcs : /\ Has(p, c) <=> \E i \in 1 .. n : s[i].pc = c
                     /\ Has(p, c)' <=> \E i \in 1 .. n : t[i].pc = c
  BY <1>2, <1>5 DEF Has
<1>8. \A c \in Pcs : Has(p, c)' => c = pc \/ Has(p, c)
  BY <1>3, <1>4, <1>7
<1>9. \A c \in Pcs : Has(p, c) => c = Pc(p) \/ Has(p, c)'
  BY <1>4, <1>5, <1>7
<1>10. /\ n = 1 => s[1].pc = s[n].pc /\ t[1].pc = pc
       /\ n # 1 => t[1].pc = s[1].pc
  <2>1. CASE n = 1
    BY <1>3, <2>1
  <2>2. CASE n # 1
    <3>1. 1 \in 1 .. n
      OBVIOUS
    <3>2. t[1] = s[1]
      BY <1>4, <2>2, <3>1
    <3> QED
      BY <2>2, <3>2
  <2> QED
    BY <2>1, <2>2
<1>11. Live(p)'
  BY DEF Moved, Live
<1>12. Has(p, pc)'
  <2>1. n \in 1 .. n
    OBVIOUS
  <2> QED
    BY <1>3, <1>7, <2>1
<1> QED
  BY <1>5, <1>6, <1>8, <1>9, <1>10, <1>11, <1>12

(* ... after a signal handler returned, ...                                *)
LEMMA PoppedFrames ==
    ASSUME ProcInv, NEW p \in Pid, Live(p), Popped(p)
    PROVE  /\ Live(p)' /\ Base(p)' = Base(p)
           /\ \A c \in Pcs : Has(p, c)' => Has(p, c)
           /\ \A c \in Pcs : Has(p, c) => c = Pc(p) \/ Has(p, c)'
<1> PICK s \in Seq(Frame) : s = proc[p].stack /\ s # <<>>
  BY DEF ProcInv, ProcType, ProcOK, Live
<1>1. Len(s) \in Nat /\ Len(s) > 1 /\ Depth(p) = Len(s) /\ Pc(p) = s[Len(s)].pc
  BY DEF Popped, Depth, Pc, Top
<1>2. \A i \in 1 .. Len(s) - 1 : s[i] \in Frame
  BY <1>1, ElementOfSeq
<1> PICK n \in Nat : n = Len(s) - 1 /\ n >= 1
  BY <1>1
<1> PICK t : t = SubSeq(s, 1, n)
  OBVIOUS
<1>3. Len(t) = n /\ \A i \in 1 .. n : t[i] = s[i]
  BY <1>2, SubSeqProperties
<1>4. t = proc'[p].stack
  BY <1>1 DEF Popped
<1>5. Depth(p)' = Len(t) /\ Base(p) = s[1].pc /\ Base(p)' = t[1].pc
  BY <1>4 DEF Depth, Base
<1>6. \A c \in Pcs : /\ Has(p, c) <=> \E i \in 1 .. Len(s) : s[i].pc = c
                     /\ Has(p, c)' <=> \E i \in 1 .. Len(t) : t[i].pc = c
  BY <1>1, <1>4, <1>5 DEF Has
<1>7. \A c \in Pcs : Has(p, c)' => Has(p, c)
  BY <1>1, <1>3, <1>6
<1>8. \A c \in Pcs : Has(p, c) => c = Pc(p) \/ Has(p, c)'
  BY <1>1, <1>3, <1>6
<1> QED
  BY <1>1, <1>3, <1>5, <1>7, <1>8 DEF Popped, Live

(* ... and after a signal interrupted it.                                  *)
LEMMA PushedFrames ==
    ASSUME ProcInv, NEW p \in Pid, Live(p), NEW e \in Frame, Pushed(p, e)
    PROVE  /\ Live(p)' /\ Base(p)' = Base(p)
           /\ \A c \in Pcs : Has(p, c)' <=> c = e.pc \/ Has(p, c)
<1> PICK s \in Seq(Frame) : s = proc[p].stack /\ s # <<>>
  BY DEF ProcInv, ProcType, ProcOK, Live
<1> PICK t \in Seq(Frame) : t = Append(s, e)
  BY AppendProperties
<1>9. t = proc'[p].stack
  BY DEF Pushed
<1>0. Len(s) \in Nat \ {0}
  BY EmptySeq
<1>1. /\ Len(t) = Len(s) + 1 /\ t[Len(s) + 1] = e
      /\ \A i \in 1 .. Len(s) : t[i] = s[i]
  BY AppendProperties
<1>2. Depth(p) = Len(s) /\ Depth(p)' = Len(t) /\ Base(p) = s[1].pc /\ Base(p)' = t[1].pc
  BY <1>9 DEF Depth, Base
<1>3. \A c \in Pcs : /\ Has(p, c) <=> \E i \in 1 .. Len(s) : s[i].pc = c
                     /\ Has(p, c)' <=> \E i \in 1 .. Len(t) : t[i].pc = c
  BY <1>2, <1>9 DEF Has
<1>4. \A c \in Pcs : Has(p, c)' <=> c = e.pc \/ Has(p, c)
  <2>1. \A i \in 1 .. Len(t) : i \in 1 .. Len(s) \/ i = Len(s) + 1
    BY <1>0, <1>1
  <2>2. Len(s) + 1 \in 1 .. Len(t) /\ \A i \in 1 .. Len(s) : i \in 1 .. Len(t)
    BY <1>0, <1>1
  <2> QED
    BY <1>1, <1>3, <2>1, <2>2
<1> QED
  BY <1>0, <1>1, <1>2, <1>4 DEF Pushed, Live

(* The other processes stay what they are.                                 *)
LEMMA OthersSame ==
    ASSUME NEW p \in Pid, Alone(p), NEW q \in Pid, q # p
    PROVE  /\ proc'[q].mode = proc[q].mode
           /\ Depth(q)' = Depth(q) /\ Base(q)' = Base(q) /\ (Live(q)' <=> Live(q))
           /\ Starting(q)' <=> Starting(q)
           /\ Late(q)' <=> Late(q)
           /\ Owner(q)' <=> Owner(q)
           /\ Serves(q)' <=> Serves(q)
<1>1. proc'[q] = proc[q]
  BY DEF Alone
<1>2. Depth(q)' = Depth(q) /\ Base(q)' = Base(q) /\ (Live(q)' <=> Live(q))
  BY <1>1 DEF Depth, Base, Live
<1>3. (Starting(q)' <=> Starting(q)) /\ (Late(q)' <=> Late(q))
  BY <1>1, <1>2 DEF Starting, Late
<1>4. Owner(q)' <=> Owner(q)
  BY <1>1, <1>2, <1>3 DEF Owner
<1>5. Has(q, "clear_pid")' <=> Has(q, "clear_pid")
  BY <1>1, <1>2 DEF Has
<1> QED
  BY <1>1, <1>2, <1>3, <1>4, <1>5 DEF Serves

(* An owner in terms of what its frames hold.                              *)
LEMMA OwnerIs ==
    ASSUME NEW p \in Pid
    PROVE  /\ Starting(p) <=> Live(p) /\ Base(p) \in PidPcs
           /\ Owner(p) <=> /\ Live(p) /\ proc[p].mode = "daemon"
                           /\ Base(p) \notin PidPcs /\ ~Has(p, "clear_config")
           /\ Starting(p)' <=> Live(p)' /\ Base(p)' \in PidPcs
           /\ Owner(p)' <=> /\ Live(p)' /\ proc'[p].mode = "daemon"
                            /\ Base(p)' \notin PidPcs /\ ~Has(p, "clear_config")'
<1>1. Starting(p) <=> Live(p) /\ Base(p) \in PidPcs
  BY DEF Starting, Base
<1>2. Starting(p)' <=> Live(p)' /\ Base(p)' \in PidPcs
  BY DEF Starting, Base
<1>3. Owner(p) <=> /\ Live(p) /\ proc[p].mode = "daemon"
                   /\ Base(p) \notin PidPcs /\ ~Has(p, "clear_config")
  BY <1>1 DEF Owner, Has
<1>4. Owner(p)' <=> /\ Live(p)' /\ proc'[p].mode = "daemon"
                    /\ Base(p)' \notin PidPcs /\ ~Has(p, "clear_config")'
  BY <1>2 DEF Owner, Has
<1> QED
  BY <1>1, <1>2, <1>3, <1>4

(* A step of p that begins nothing leaves the owner of the file alone.     *)
LEMMA KeepPids ==
    ASSUME PidInv, NEW p \in Pid, Alone(p), proc'[p].mode = "daemon",
           Depth(p)' > 1 => Base(p)' \notin PidPcs \union ReadPcs,
           Starting(p)' => Starting(p), Late(p)' => Late(p), Owner(p)' => Owner(p),
           UNCHANGED pid_file,
           \A u \in Uris : \A q \in Pid : bound'[u] = q =>
                bound[u] = q /\ (q = p => Serves(p)')
    PROVE  PidInv'
<1>1. \A q \in Pid : proc'[q].mode = "daemon"
  BY OthersSame DEF PidInv
<1>2. \A q \in Pid : Depth(q)' > 1 => Base(q)' \notin PidPcs \union ReadPcs
  <2> TAKE q \in Pid
  <2>1. CASE q # p
    BY <2>1, OthersSame DEF PidInv
  <2> QED
    BY <2>1
<1>3. \A q \in Pid : (Starting(q)' => Starting(q)) /\ (Late(q)' => Late(q))
                     /\ (Owner(q)' => Owner(q))
  BY OthersSame
<1>4. \A q, r \in Pid : Starting(q)' /\ Starting(r)' => q = r
  BY <1>3 DEF PidInv
<1>5. \A q, r \in Pid : Late(q)' => ~Owner(r)'
  BY <1>3 DEF PidInv
<1>6. \A q \in Pid : Owner(q)' => pid_file' = q
  BY <1>3 DEF PidInv
<1>7. \A u \in Uris, q \in Pid : bound'[u] = q => Serves(q)'
  <2> TAKE u \in Uris, q \in Pid
  <2>1. CASE q # p
    BY <2>1, OthersSame DEF PidInv
  <2> QED
    BY <2>1
<1> QED
  BY <1>1, <1>2, <1>4, <1>5, <1>6, <1>7 DEF PidInv

(* The top frame of p moves, after p wrote its pid.                        *)
LEMMA MoveKeepsPids ==
    ASSUME TypeInv, PidInv, NEW p \in Pid, Live(p), NEW pc \in Pcs, Moved(p, pc),
           Pc(p) \notin PidPcs \union {"clear_config"},
           pc \notin PidPcs \union {"clear_config"},
           pc \in Early => Pc(p) \in Early,
           Pc(p) \notin AlarmPcs \union ExitPcs \/ pc \notin Early,
           UNCHANGED pid_file,
           (UNCHANGED bound /\ pc # "clear_pid") \/ Unbind(p)
    PROVE  PidInv'
<1>0. ProcInv /\ Alone(p) /\ proc[p].mode = "daemon" /\ proc'[p].mode = "daemon"
  BY DEF TypeInv, PidInv, Moved
<1>1. /\ Live(p)' /\ Depth(p)' = Depth(p) /\ Depth(p) \in Nat \ {0}
      /\ Depth(p) = 1 => Base(p) = Pc(p) /\ Base(p)' = pc
      /\ Depth(p) # 1 => Base(p)' = Base(p)
      /\ \A c \in Pcs : Has(p, c)' => c = pc \/ Has(p, c)
      /\ \A c \in Pcs : Has(p, c) => c = Pc(p) \/ Has(p, c)'
  BY <1>0, MovedFrames
<1>2. {"clear_pid", "clear_config"} \subseteq Pcs
  BY DEF Pcs, ExitPcs
<1>3. Depth(p)' > 1 => Base(p)' \notin PidPcs \union ReadPcs
  BY <1>1 DEF PidInv
<1>4. (Base(p)' \in PidPcs <=> Base(p) \in PidPcs)
      /\ (Has(p, "clear_config")' <=> Has(p, "clear_config"))
  BY <1>1, <1>2
<1>5. (Starting(p)' => Starting(p)) /\ (Owner(p)' <=> Owner(p))
  BY <1>0, <1>1, <1>4, OwnerIs
<1>6. Late(p)' => Late(p)
  BY <1>1 DEF Late, PidPcs
<1>7. Serves(p) /\ pc # "clear_pid" => Serves(p)'
  BY <1>1, <1>2, <1>5 DEF Serves
<1>8. \A u \in Uris : \A q \in Pid : bound'[u] = q =>
         bound[u] = q /\ (q = p => Serves(p)')
  <2>1. CASE UNCHANGED bound /\ pc # "clear_pid"
    BY <1>7, <2>1 DEF PidInv
  <2>2. CASE Unbind(p)
    <3>1. \A u \in Uris : bound'[u] = IF bound[u] = p THEN Nobody ELSE bound[u]
      BY <2>2, Unbinds DEF TypeInv, EnvInv
    <3>2. Nobody \notin Pid
      BY DaemonAssumptions
    <3> QED
      BY <3>1, <3>2
  <2> QED
    BY <2>1, <2>2
<1> QED
  BY <1>0, <1>3, <1>5, <1>6, <1>8, KeepPids

(* p ends.                                                                 *)
LEMMA EndKeepsPids ==
    ASSUME TypeInv, PidInv, NEW p \in Pid, Left(p), UNCHANGED pid_file,
           Unbind(p) \/ (UNCHANGED bound /\ Base(p) \in Early)
    PROVE  PidInv'
<1>1. Alone(p) /\ proc'[p].mode = "daemon" /\ proc'[p].life = "dead" /\ proc'[p].stack = <<>>
  BY DEF Left, Ended, Gone
<1>2. ~Live(p)' /\ Depth(p)' = 0
  BY <1>1 DEF Live, Depth
<1>3. ~Starting(p)' /\ ~Owner(p)' /\ ~Late(p)'
  BY <1>2, OwnerIs DEF Late
<1>4. \A u \in Uris : \A q \in Pid : bound'[u] = q =>
         bound[u] = q /\ (q = p => Serves(p)')
  <2>1. CASE UNCHANGED bound /\ Base(p) \in Early
    BY <2>1 DEF PidInv, Serves
  <2>2. CASE Unbind(p)
    <3>1. \A u \in Uris : bound'[u] = IF bound[u] = p THEN Nobody ELSE bound[u]
      BY <2>2, Unbinds DEF TypeInv, EnvInv
    <3>2. Nobody \notin Pid
      BY DaemonAssumptions
    <3> QED
      BY <3>1, <3>2
  <2> QED
    BY <2>1, <2>2
<1> QED
  BY <1>1, <1>2, <1>3, <1>4, KeepPids

(* Where p is before a step of main() above which there is no handler.     *)
LEMMA AtBase ==
    ASSUME ProcInv, NEW p \in Pid, NEW pc \in Pcs \ (AlarmPcs \union ExitPcs), At(p, pc)
    PROVE  Live(p) /\ Pc(p) = pc /\ Depth(p) = 1 /\ Base(p) = pc /\ Top(p).sig = "main"
<1>1. Live(p) /\ Pc(p) = pc /\ Depth(p) = 1 /\ Top(p).sig = "main"
  BY TopFrame DEF At
<1> QED
  BY <1>1 DEF Pc, Top, Base

(* A start: there is no process before its write_pid().                    *)
LEMMA StartKeepsPids ==
    ASSUME Apart, TypeInv, PidInv, NEW p \in Pid, NEW mode \in Modes, Start(p, mode)
    PROVE  PidInv'
<1>0. mode = "daemon" /\ \A q \in Pid : ~Starting(q)
  BY DEF Apart, Start
<1>1. Begun(p, "check_pid") /\ proc'[p].mode = "daemon"
  BY <1>0, StartBegins DEF TypeInv
<1>2. Alone(p) /\ Live(p)' /\ Depth(p)' = 1 /\ Base(p)' = "check_pid"
  BY <1>1 DEF Begun, Live, Depth, Base
<1>3. Starting(p)' /\ ~Late(p)' /\ ~Owner(p)'
  BY <1>2, OwnerIs DEF PidPcs, Late
<1>4. \A q \in Pid : q # p => ~Starting(q)'
  BY <1>0, <1>2, OthersSame
<1>5. \A q \in Pid : (Late(q)' => Late(q)) /\ (Owner(q)' => Owner(q))
  BY <1>2, <1>3, OthersSame
<1>6. \A q \in Pid : proc'[q].mode = "daemon"
                     /\ (Depth(q)' > 1 => Base(q)' \notin PidPcs \union ReadPcs)
  <2> TAKE q \in Pid
  <2>1. CASE q = p
    BY <1>1, <1>2, <2>1
  <2>2. CASE q # p
    BY <1>2, <2>2, OthersSame DEF PidInv
  <2> QED
    BY <2>1, <2>2
<1>7. UNCHANGED <<pid_file, bound>>
  BY DEF Start, files
<1>8. \A u \in Uris, q \in Pid : bound'[u] = q => Serves(q)'
  <2>1. ~Live(p)
    BY DEF Start, Live
  <2>2. ~Serves(p)
    BY <2>1 DEF Serves, Owner
  <2> QED
    BY <1>2, <1>7, <2>2, OthersSame DEF PidInv
<1>9. \A q, r \in Pid : Starting(q)' /\ Starting(r)' => q = r
  BY <1>4
<1>10. \A q, r \in Pid : Late(q)' => ~Owner(r)'
  BY <1>5 DEF PidInv
<1>11. \A q \in Pid : Owner(q)' => pid_file' = q
  BY <1>5, <1>7 DEF PidInv
<1> QED
  BY <1>6, <1>8, <1>9, <1>10, <1>11 DEF PidInv

(* The steps of check_pid() and write_pid(): from the moment p has found   *)
(* no daemon until p is one itself, no process owns the file.              *)
LEMMA WriteKeepsPids ==
    ASSUME TypeInv, PidInv, NEW p \in Pid, Starting(p),
           NEW pc \in {"clear_stale", "open_pid", "write_pid", "load"}, Moved(p, pc),
           Depth(p) = 1, \A q \in Pid : ~Owner(q),
           pc = "load" => pid_file' = p,
           UNCHANGED bound
    PROVE  PidInv'
<1>0. ProcInv /\ Alone(p) /\ Live(p) /\ pc \in Pcs /\ proc'[p].mode = "daemon"
  BY DEF TypeInv, PidInv, Moved, Starting, Pcs, PidPcs, ReadPcs
<1>1. Live(p)' /\ Depth(p)' = 1 /\ Base(p)' = pc
  BY <1>0, MovedFrames
<1>2. \A q \in Pid : q # p => ~Starting(q)' /\ ~Late(q)' /\ ~Owner(q)'
  <2> SUFFICES ASSUME NEW q \in Pid, q # p PROVE ~Starting(q)' /\ ~Late(q)' /\ ~Owner(q)'
    OBVIOUS
  <2>1. ~Starting(q)
    BY DEF PidInv
  <2>2. ~Late(q)
    BY <2>1 DEF Starting, Late, Base, PidPcs
  <2> QED
    BY <1>0, <2>1, <2>2, OthersSame
<1>3. Owner(p)' => pc = "load"
  BY <1>1, OwnerIs DEF PidPcs
<1>4. Late(p)' => pc # "load"
  BY <1>1 DEF Late
<1>5. \A q \in Pid : proc'[q].mode = "daemon"
                     /\ (Depth(q)' > 1 => Base(q)' \notin PidPcs \union ReadPcs)
  <2> TAKE q \in Pid
  <2>1. CASE q = p
    BY <1>0, <1>1, <2>1
  <2>2. CASE q # p
    BY <1>0, <2>2, OthersSame DEF PidInv
  <2> QED
    BY <2>1, <2>2
<1>6. \A u \in Uris, q \in Pid : bound'[u] # q
  BY DEF PidInv, Serves
<1>7. \A q, r \in Pid : Starting(q)' /\ Starting(r)' => q = r
  BY <1>2
<1>8. \A q, r \in Pid : Late(q)' => ~Owner(r)'
  BY <1>2, <1>3, <1>4
<1>9. \A q \in Pid : Owner(q)' => pid_file' = q
  BY <1>2, <1>3
<1> QED
  BY <1>5, <1>6, <1>7, <1>8, <1>9 DEF PidInv

(* main() from check_pid() to write_pid().                                 *)
LEMMA StartupKeepsPids ==
    ASSUME TypeInv, PidInv, NEW p \in Pid,
           CheckPid(p) \/ ClearStale(p) \/ OpenPid(p) \/ WritePid(p)
    PROVE  PidInv'
<1>0. ProcInv /\ text \in Texts /\ mtime \in Int
  BY DaemonAssumptions DEF TypeInv, EnvInv
<1>1. ASSUME NEW pc \in PidPcs, At(p, pc)
      PROVE  Live(p) /\ Depth(p) = 1 /\ Base(p) = pc /\ Starting(p) /\ pc \in Early
             /\ (pc # "check_pid" => \A q \in Pid : ~Owner(q))
  <2>1. pc \in Pcs \ (AlarmPcs \union ExitPcs)
    BY DEF PidPcs, Pcs, AlarmPcs, ExitPcs
  <2>2. Live(p) /\ Depth(p) = 1 /\ Base(p) = pc
    BY <1>0, <1>1, <2>1, AtBase
  <2>3. Starting(p) /\ pc \in Early
    BY <2>2, OwnerIs DEF Early
  <2>4. pc # "check_pid" => Late(p)
    BY <2>2 DEF Late, PidPcs
  <2> QED
    BY <2>2, <2>3, <2>4 DEF PidInv
<1>2. {"check_pid", "clear_stale", "open_pid", "write_pid"} \subseteq PidPcs
  BY DEF PidPcs
<1>3. CASE CheckPid(p)
  <2>1. At(p, "check_pid") /\ UNCHANGED <<pid_file, bound>>
    BY <1>3 DEF CheckPid, files
  <2>2. Live(p) /\ Depth(p) = 1 /\ Starting(p) /\ Base(p) \in Early
    BY <1>1, <1>2, <2>1
  <2>3. CASE Left(p)
    BY <2>1, <2>2, <2>3, EndKeepsPids
  <2>4. CASE ~Left(p)
    <3>1. Moved(p, "open_pid") \/ Moved(p, "clear_stale")
      BY <1>0, <1>3, <2>4, StartupSteps
    <3>2. pid_file = "none" \/ (pid_file \in Pid /\ ~Exists(pid_file))
      <4>1. ~Becomes(p, Ended)
        BY <1>0, <2>4, EndLeaves
      <4> QED
        BY <1>3, <4>1 DEF CheckPid
    <3>3. \A q \in Pid : ~Owner(q)
      BY <3>2, DaemonAssumptions DEF PidInv, Owner, Live, Exists
    <3> QED
      BY <2>1, <2>2, <3>1, <3>3, WriteKeepsPids
  <2> QED
    BY <2>3, <2>4
<1>4. CASE ClearStale(p)
  <2>1. At(p, "clear_stale") /\ UNCHANGED bound
    BY <1>4 DEF ClearStale
  <2>2. Live(p) /\ Depth(p) = 1 /\ Starting(p) /\ Base(p) \in Early /\ \A q \in Pid : ~Owner(q)
    BY <1>1, <1>2, <2>1
  <2>3. CASE pid_file = "none"
    <3>1. Left(p) /\ UNCHANGED pid_file
      BY <1>0, <1>4, <2>3, EndLeaves DEF ClearStale
    <3> QED
      BY <2>1, <2>2, <3>1, EndKeepsPids
  <2>4. CASE pid_file # "none"
    <3>1. Moved(p, "open_pid")
      <4>1. Goto(p, "open_pid")
        BY <1>4, <2>4 DEF ClearStale
      <4>2. Pc(p) = "clear_stale" /\ "open_pid" \in Pcs
        BY <2>1 DEF At, Pcs, PidPcs
      <4>3. Fits(Depth(p), Top(p).sig, "open_pid")
        BY <1>0, <2>2, <4>2, TopFrame DEF Fits, AlarmPcs, ExitPcs
      <4> QED
        BY <1>0, <2>2, <4>1, <4>2, <4>3, GotoMoves DEF HoldPcs
    <3> QED
      BY <2>1, <2>2, <3>1, WriteKeepsPids
  <2> QED
    BY <2>3, <2>4
<1>5. CASE OpenPid(p)
  <2>1. At(p, "open_pid") /\ UNCHANGED bound /\ Moved(p, "write_pid")
    BY <1>0, <1>5, StartupSteps DEF OpenPid
  <2> QED
    BY <1>1, <1>2, <2>1, WriteKeepsPids
<1>6. CASE WritePid(p)
  <2>1. At(p, "write_pid") /\ UNCHANGED bound /\ Moved(p, "load") /\ pid_file' = p
    BY <1>0, <1>6, StartupSteps DEF WritePid
  <2> QED
    BY <1>1, <1>2, <2>1, WriteKeepsPids
<1> QED
  BY <1>3, <1>4, <1>5, <1>6

(* zmq_setup(): the address is bound by the owner of the pid file.         *)
LEMMA BindKeepsPids ==
    ASSUME TypeInv, PidInv, NEW p \in Pid, Bind(p)
    PROVE  PidInv'
<1>0. ProcInv /\ text \in Texts /\ mtime \in Int /\ bound \in [Uris -> Pid \union {Nobody, Foreign}]
  BY DaemonAssumptions DEF TypeInv, EnvInv
<1>1. /\ Live(p) /\ Pc(p) = "bind" /\ Depth(p) = 1 /\ Base(p) = "bind"
      /\ "bind" \in Pcs \ (AlarmPcs \union ExitPcs)
  <2>1. "bind" \in Pcs \ (AlarmPcs \union ExitPcs)
    BY DEF Pcs, AlarmPcs, ExitPcs
  <2> QED
    BY <1>0, <2>1, AtBase DEF Bind
<1>2. UNCHANGED pid_file
  BY DEF Bind
<1>3. CASE Left(p) /\ Unbind(p)
  BY <1>2, <1>3, EndKeepsPids
<1>4. CASE ~(Left(p) /\ Unbind(p))
  <2>1. ~Ends(p)
    BY <1>0, <1>4, EndLeaves DEF Ends
  <2> PICK uri : uri = proc[p].config.zmq_uri
    OBVIOUS
  <2>2. bound[uri] = Nobody /\ bound' = [bound EXCEPT ![uri] = p] /\ Goto(p, "lock")
    BY <2>1 DEF Bind
  <2>3. Moved(p, "lock")
    <3>1. "lock" \in Pcs /\ Fits(Depth(p), Top(p).sig, "lock")
      BY <1>0, <1>1, TopFrame DEF Fits, Pcs, AlarmPcs, ExitPcs
    <3> QED
      BY <1>0, <1>1, <2>2, <3>1, GotoMoves DEF HoldPcs
  <2>4. "lock" \in Pcs /\ "clear_pid" \in Pcs /\ "clear_config" \in Pcs
    BY DEF Pcs, AlarmPcs, ExitPcs
  <2>5. /\ Alone(p) /\ Live(p)' /\ Depth(p)' = 1 /\ Base(p)' = "lock"
        /\ proc[p].mode = "daemon" /\ proc'[p].mode = "daemon"
        /\ Has(p, "clear_pid")' => Has(p, "clear_pid")
        /\ Has(p, "clear_config")' <=> Has(p, "clear_config")
    BY <1>0, <1>1, <2>3, <2>4, MovedFrames DEF Moved, PidInv
  <2>6. ~Has(p, "clear_pid") /\ ~Has(p, "clear_config")
    BY <1>1 DEF Has, Base
  <2>7. "bind" \notin PidPcs /\ "lock" \notin Early /\ PidPcs \subseteq Early
    BY DEF PidPcs, ReadPcs, Early
  <2>8. ~Starting(p)' /\ ~Late(p)' /\ Owner(p) /\ Owner(p)'
    BY <1>1, <2>5, <2>6, <2>7, OwnerIs DEF Late
  <2>9. Serves(p)'
    BY <2>5, <2>6, <2>7, <2>8 DEF Serves
  <2>10. \A q \in Pid : (Starting(q)' => Starting(q)) /\ (Late(q)' => Late(q))
                        /\ (Owner(q)' => Owner(q))
    BY <2>5, <2>8, OthersSame
  <2>11. \A q \in Pid : proc'[q].mode = "daemon"
                        /\ (Depth(q)' > 1 => Base(q)' \notin PidPcs \union ReadPcs)
    <3> TAKE q \in Pid
    <3>1. CASE q = p
      BY <2>5, <3>1
    <3>2. CASE q # p
      BY <2>5, <3>2, OthersSame DEF PidInv
    <3> QED
      BY <3>1, <3>2
  <2>12. \A u \in Uris, q \in Pid : bound'[u] = q => Serves(q)'
    <3> TAKE u \in Uris, q \in Pid
    <3>1. CASE q # p
      <4>1. bound'[u] = q => bound[u] = q
        BY <1>0, <2>2, <3>1
      <4> QED
        BY <2>5, <3>1, <4>1, OthersSame DEF PidInv
    <3> QED
      BY <2>9, <3>1
  <2>13. \A q, r \in Pid : Starting(q)' /\ Starting(r)' => q = r
    BY <2>10 DEF PidInv
  <2>14. \A q, r \in Pid : Late(q)' => ~Owner(r)'
    BY <2>10 DEF PidInv
  <2>15. \A q \in Pid : Owner(q)' => pid_file' = q
    BY <1>2, <2>10 DEF PidInv
  <2> QED
    BY <2>11, <2>12, <2>13, <2>14, <2>15 DEF PidInv
<1> QED
  BY <1>3, <1>4

(* clear_pid(): the file named the process that removes it.                *)
LEMMA ClearKeepsPids ==
    ASSUME TypeInv, PidInv, NEW p \in Pid, ClearPid(p)
    PROVE  PidInv'
<1>0. ProcInv /\ Live(p) /\ Pc(p) = "clear_pid" /\ UNCHANGED bound /\ pid_file' = "none"
  BY DEF TypeInv, ClearPid, At
<1>1. Moved(p, "clear_config") /\ {"clear_pid", "clear_config"} \subseteq Pcs
  BY <1>0, ExitSteps DEF Pcs, ExitPcs
<1>2. /\ Alone(p) /\ Live(p)' /\ Depth(p)' = Depth(p)
      /\ proc[p].mode = "daemon" /\ proc'[p].mode = "daemon"
      /\ Depth(p) # 1 => Base(p)' = Base(p)
  BY <1>0, <1>1, MovedFrames DEF Moved, PidInv
<1>3. Depth(p) # 1 /\ Depth(p) > 1
  BY <1>0, TopFrame DEF Fits, ExitPcs, AlarmPcs, Frame
<1>4. Base(p)' = Base(p) /\ Base(p) \notin PidPcs \union ReadPcs
  BY <1>2, <1>3 DEF PidInv
<1>5. Has(p, "clear_pid") /\ Has(p, "clear_config")'
  <2>1. Depth(p) \in 1 .. Depth(p)
    BY <1>0, TopFrame
  <2>2. Has(p, "clear_pid")
    BY <1>0, <2>1 DEF Has, Pc, Top
  <2> QED
    BY <1>0, <1>1, <2>2, MovedFrames
<1>6. ~Has(p, "clear_config")
  <2> SUFFICES ASSUME NEW i \in 1 .. Depth(p), proc[p].stack[i].pc = "clear_config"
               PROVE  FALSE
    BY DEF Has
  <2>1. /\ Fits(i, proc[p].stack[i].sig, "clear_config") /\ proc[p].stack[i] \in Frame
        /\ \A j \in 1 .. Depth(p) : proc[p].stack[i].sig = proc[p].stack[j].sig => i = j
    BY <1>0, ThreeFrames DEF ProcInv, ProcOK, Depth
  <2>2. proc[p].stack[i].sig = "int" /\ Top(p).sig = "int"
    BY <1>0, <2>1, TopFrame DEF Fits, Frame, ExitPcs, AlarmPcs
  <2>3. i = Depth(p)
    BY <1>0, <2>1, <2>2, TopFrame DEF Top
  <2> QED
    BY <1>0, <2>3 DEF Pc, Top
<1>7. Owner(p) /\ ~Owner(p)' /\ ~Starting(p)' /\ ~Late(p)'
  BY <1>0, <1>2, <1>4, <1>5, <1>6, OwnerIs DEF Late, PidPcs
<1>8. \A q \in Pid : ~Owner(q)'
  <2>1. \A q \in Pid : q # p => ~Owner(q)
    BY <1>7 DEF PidInv
  <2> QED
    BY <1>2, <1>7, <2>1, OthersSame
<1>9. \A u \in Uris, q \in Pid : bound'[u] # q
  <2>1. \A q \in Pid : ~Serves(q)
    BY <1>5, <1>7 DEF PidInv, Serves
  <2> QED
    BY <1>0, <2>1 DEF PidInv
<1>10. \A q \in Pid : proc'[q].mode = "daemon"
                      /\ (Depth(q)' > 1 => Base(q)' \notin PidPcs \union ReadPcs)
  <2> TAKE q \in Pid
  <2>1. CASE q = p
    BY <1>2, <1>4, <2>1
  <2>2. CASE q # p
    BY <1>2, <2>2, OthersSame DEF PidInv
  <2> QED
    BY <2>1, <2>2
<1>11. \A q, r \in Pid : Starting(q)' /\ Starting(r)' => q = r
  BY <1>2, <1>7, OthersSame DEF PidInv
<1> QED
  BY <1>8, <1>9, <1>10, <1>11 DEF PidInv

(* main() from the configuration to the socket.                            *)
LEMMA ReadKeepsPids ==
    ASSUME TypeInv, PidInv, NEW p \in Pid,
           LoadConfig(p) \/ StatConfig(p) \/ OpenLogger(p) \/ Setup(p) \/ SetupDone(p)
    PROVE  PidInv'
<1>0. ProcInv /\ text \in Texts /\ mtime \in Int
  BY DaemonAssumptions DEF TypeInv, EnvInv
<1>1. UNCHANGED <<pid_file, bound>>
  BY DEF LoadConfig, StatConfig, OpenLogger, Setup, SetupDone, files
<1> DEFINE Here == {"load", "stat", "logger", "setup", "watching"}
           There == {"stat", "logger", "setup", "watching", "bind"}
<1>2. PICK pc \in Here : At(p, pc)
  BY DEF LoadConfig, StatConfig, OpenLogger, Setup, SetupDone
<1>3. pc \in Pcs \ (AlarmPcs \union ExitPcs) /\ pc \in Early /\ pc \notin PidPcs
      /\ pc # "clear_config"
  BY DEF Pcs, ReadPcs, AlarmPcs, ExitPcs, PidPcs, Early
<1>4. Live(p) /\ Pc(p) = pc /\ Base(p) = pc
  BY <1>0, <1>2, <1>3, AtBase
<1>5. CASE Left(p)
  BY <1>1, <1>3, <1>4, <1>5, EndKeepsPids
<1>6. ASSUME NEW to \in There, Moved(p, to) PROVE PidInv'
  <2>1. to \in Pcs /\ to \notin PidPcs \union {"clear_config"} /\ to # "clear_pid"
    BY DEF Pcs, ReadPcs, PidPcs
  <2> QED
    BY <1>1, <1>3, <1>4, <1>6, <2>1, MoveKeepsPids
<1> QED
  BY <1>0, <1>5, <1>6, StartupSteps

(* The poll loop, alarm_handler() and sig_handler() but for their ends.    *)
LEMMA LoopKeepsPids ==
    ASSUME TypeInv, PidInv, NEW p \in Pid,
           \/ AlarmDue(p) \/ Work(p) \/ WorkDone(p) \/ LockMain(p) \/ Dump(p) \/ DumpDone(p)
           \/ TestUpdate(p) \/ Restat(p) \/ Reload(p) \/ LogInterrupt(p) \/ ZmqCleanup(p)
    PROVE  PidInv'
<1>0. ProcInv /\ text \in Texts /\ mtime \in Int
  BY DaemonAssumptions DEF TypeInv, EnvInv
<1>1. /\ UNCHANGED pid_file
      /\ UNCHANGED bound \/ Unbind(p)
      /\ UNCHANGED bound \/ ~ZmqCleanup(p) \/ Unbind(p)
  BY DEF AlarmDue, Work, WorkDone, LockMain, Dump, DumpDone, TestUpdate, Restat, Reload,
     LogInterrupt, ZmqCleanup, files, Ends
<1> DEFINE Here  == AlarmPcs \union {"poll", "working", "log_int", "zmq_cleanup"}
           There == Here \union {"clear_pid"}
<1>2. PICK pc \in Here : At(p, pc)
  BY DEF AlarmDue, Work, WorkDone, LockMain, Dump, DumpDone, TestUpdate, Restat, Reload,
     LogInterrupt, ZmqCleanup, AlarmPcs
<1>3. /\ Here \subseteq Pcs /\ There \subseteq Pcs /\ There \intersect Early = {}
      /\ PidPcs \subseteq Early /\ "clear_config" \notin There
  BY DEF Pcs, AlarmPcs, ReadPcs, PidPcs, ExitPcs, Early
<1>4. Live(p) /\ Pc(p) = pc
  BY <1>2 DEF At
<1>5. ASSUME NEW to \in There, Moved(p, to), to = "clear_pid" => Unbind(p) PROVE PidInv'
  BY <1>1, <1>3, <1>4, <1>5, MoveKeepsPids
<1>6. Ends(p) => PidInv'
  BY <1>0, <1>1, EndLeaves, EndKeepsPids DEF Ends
<1> QED
  <2>1. CASE AlarmDue(p) \/ Work(p) \/ LockMain(p) \/ Dump(p) \/ TestUpdate(p) \/ Restat(p)
    BY <1>0, <1>5, <2>1, LoopSteps DEF AlarmPcs
  <2>2. CASE DumpDone(p)
    BY <1>0, <1>5, <2>2, LoopSteps DEF AlarmPcs
  <2>3. CASE ZmqCleanup(p)
    BY <1>0, <1>5, <2>3, ExitSteps DEF ZmqCleanup
  <2>4. CASE WorkDone(p) \/ Reload(p)
    BY <1>0, <1>5, <1>6, <2>4, LoopSteps DEF AlarmPcs
  <2>5. CASE LogInterrupt(p)
    BY <1>0, <1>5, <1>6, <2>5, ExitSteps DEF AlarmPcs
  <2> QED
    BY <2>1, <2>2, <2>3, <2>4, <2>5

(* print_config() and the return of alarm_handler().                       *)
LEMMA PrintKeepsPids ==
    ASSUME TypeInv, PidInv, NEW p \in Pid, Print_config(p)
    PROVE  PidInv'
<1>0. ProcInv /\ Live(p) /\ Pc(p) = "print" /\ UNCHANGED <<pid_file, bound>>
      /\ proc[p].mode = "daemon"
  BY DEF TypeInv, PidInv, Print_config, At
<1>1. CASE Moved(p, "poll")
  <2>1. "poll" \in Pcs \ Early /\ "print" \notin PidPcs /\ "print" # "clear_config"
        /\ PidPcs \subseteq Early
    BY DEF Pcs, Early, PidPcs, ReadPcs
  <2> QED
    BY <1>0, <1>1, <2>1, MoveKeepsPids
<1>2. CASE Popped(p)
  <2>1. {"print", "clear_pid", "clear_config"} \subseteq Pcs
    BY DEF Pcs, AlarmPcs, ExitPcs
  <2>2. /\ Live(p)' /\ Base(p)' = Base(p) /\ Alone(p) /\ proc'[p].mode = "daemon"
        /\ Has(p, "clear_pid")' <=> Has(p, "clear_pid")
        /\ Has(p, "clear_config")' <=> Has(p, "clear_config")
    BY <1>0, <1>2, <2>1, PoppedFrames DEF Popped
  <2>3. Base(p) \notin PidPcs \union ReadPcs
    BY <1>2 DEF PidInv, Popped
  <2>4. (Starting(p)' <=> Starting(p)) /\ (Owner(p)' <=> Owner(p)) /\ (Late(p)' <=> Late(p))
    BY <1>0, <2>2, OwnerIs DEF Late
  <2>5. Serves(p)' <=> Serves(p)
    BY <2>2, <2>4 DEF Serves
  <2>6. \A u \in Uris : \A q \in Pid : bound'[u] = q =>
           bound[u] = q /\ (q = p => Serves(p)')
    BY <1>0, <2>5 DEF PidInv
  <2> QED
    BY <1>0, <2>2, <2>3, <2>4, <2>6, KeepPids
<1> QED
  BY <1>0, <1>1, <1>2, PrintSteps

(* A signal.                                                               *)
LEMMA SignalKeepsPids ==
    ASSUME TypeInv, PidInv, NEW p \in Pid, NEW sig \in {"int", "hup"}, Signal(p, sig)
    PROVE  PidInv'
<1>0. /\ ProcInv /\ Live(p) /\ UNCHANGED <<pid_file, bound>> /\ proc[p].mode = "daemon"
      /\ Base(p) \notin PidPcs \union ReadPcs
  BY DEF TypeInv, PidInv, Signal, files, Base
<1> PICK pc \in Pcs : pc = IF sig = "int" THEN "log_int" ELSE "lock"
  BY DEF Pcs, AlarmPcs, ExitPcs
<1> PICK e \in Frame : e = [sig |-> sig, pc |-> pc]
  BY DEF Frame
<1>1. Pushed(p, e)
  BY <1>0, SignalPushes
<1>2. e.pc \notin {"clear_pid", "clear_config"} /\ {"clear_pid", "clear_config"} \subseteq Pcs
  BY DEF Pcs, ExitPcs
<1>3. /\ Live(p)' /\ Base(p)' = Base(p) /\ Alone(p) /\ proc'[p].mode = "daemon"
      /\ Has(p, "clear_pid")' <=> Has(p, "clear_pid")
      /\ Has(p, "clear_config")' <=> Has(p, "clear_config")
  BY <1>0, <1>1, <1>2, PushedFrames DEF Pushed
<1>4. (Starting(p)' <=> Starting(p)) /\ (Owner(p)' <=> Owner(p)) /\ (Late(p)' <=> Late(p))
  BY <1>0, <1>3, OwnerIs DEF Late
<1>5. Serves(p)' <=> Serves(p)
  BY <1>3, <1>4 DEF Serves
<1>6. \A u \in Uris : \A q \in Pid : bound'[u] = q =>
         bound[u] = q /\ (q = p => Serves(p)')
  BY <1>0, <1>5 DEF PidInv
<1> QED
  BY <1>0, <1>3, <1>4, <1>6, KeepPids

(* Every step keeps at most one owner, and the file names it.              *)
LEMMA StepKeepsPids ==
    ASSUME Apart, TypeInv, PidInv, [DaemonNext]_daemonVars
    PROVE  PidInv'
<1>1. CASE UNCHANGED <<proc, pid_file, bound>>
  BY <1>1 DEF PidInv, Depth, Base, Starting, Late, Owner, Serves, Live, Has
<1>2. ASSUME NEW p \in Pid, ClearConfig(p) \/ Crash(p) PROVE PidInv'
  <2>1. Ends(p) /\ UNCHANGED pid_file
    BY <1>2 DEF ClearConfig, Crash
  <2>2. Left(p) /\ Unbind(p)
    BY <2>1, EndLeaves DEF Ends, TypeInv
  <2> QED
    BY <2>1, <2>2, EndKeepsPids
<1>3. ASSUME NEW p \in Pid, Reused(p) PROVE PidInv'
  <2>1. UNCHANGED <<pid_file, bound>> /\ ~Live(p)
    BY <1>3 DEF Reused, files, Live
  <2>2. Alone(p) /\ proc'[p] = Gone("other")
    BY <1>3, GoneOK, LocalStep DEF Reused, Alone, TypeInv
  <2>3. proc'[p].mode = "daemon" /\ ~Live(p)' /\ Depth(p)' = 0
    BY <2>2 DEF Gone, Live, Depth
  <2>4. ~Starting(p)' /\ ~Owner(p)' /\ ~Late(p)' /\ ~Serves(p)
    BY <2>1, <2>3, OwnerIs DEF Late, Serves
  <2>5. \A u \in Uris : \A q \in Pid : bound'[u] = q =>
           bound[u] = q /\ (q = p => Serves(p)')
    BY <2>1, <2>4 DEF PidInv
  <2> QED
    BY <2>1, <2>2, <2>3, <2>4, <2>5, KeepPids
<1>4. ASSUME NEW p \in Pid, Step(p) PROVE PidInv'
  BY <1>2, <1>4, StartupKeepsPids, ReadKeepsPids, BindKeepsPids, LoopKeepsPids,
     PrintKeepsPids, ClearKeepsPids DEF Step
<1>5. ASSUME NEW p \in Pid, AlarmDue(p) \/ Work(p) PROVE PidInv'
  BY <1>5, LoopKeepsPids
<1>6. ASSUME NEW t \in Texts, Edit(t) PROVE PidInv'
  BY <1>1, <1>6 DEF Edit, files
<1> QED
  BY <1>1, <1>2, <1>3, <1>4, <1>5, <1>6, StartKeepsPids, SignalKeepsPids
  DEF DaemonNext, daemonVars

(* It holds from the start on.                                             *)
LEMMA PidInvariant == ASSUME Apart PROVE DaemonSpec => []PidInv
<1>1. DaemonInit => PidInv
  <2> SUFFICES ASSUME DaemonInit PROVE PidInv
    OBVIOUS
  <2>1. \A p \in Pid : /\ proc[p].mode = "daemon" /\ ~Live(p) /\ Depth(p) = 0
                       /\ ~Starting(p) /\ ~Late(p) /\ ~Owner(p)
    BY DEF DaemonInit, Gone, Live, Depth, Starting, Late, Owner
  <2>2. \A u \in Uris, p \in Pid : bound[u] # p
    BY DaemonAssumptions DEF DaemonInit
  <2> QED
    BY <2>1, <2>2 DEF PidInv
<1>2. TypeInv /\ PidInv /\ [DaemonNext]_daemonVars => PidInv'
  BY StepKeepsPids
<1> QED
  BY <1>1, <1>2, TypeInvariant, PTL DEF DaemonSpec

(* The pid file names the daemon that runs, from its write_pid() to its    *)
(* clear_pid(), whatever processes started, were stopped or died before:   *)
(* there is at most one such daemon.  For starts in daemon mode that do    *)
(* not overlap.                                                            *)
THEOREM PidFileNamesDaemon == ASSUME Apart PROVE DaemonSpec => []PidNamesDaemon
<1>1. PidInv => PidNamesDaemon
  BY DEF PidInv, PidNamesDaemon
<1> QED
  BY <1>1, PidInvariant, PTL

(* A daemon that gets as far as zmq_setup() finds its address bound by no  *)
(* other inotispy: sig_handler() and the kernel give up the socket of one  *)
(* before its pid file can be found gone or stale.                         *)
THEOREM DaemonBindsAlone == ASSUME Apart PROVE DaemonSpec => []BindsAlone
<1>1. TypeInv /\ PidInv => BindsAlone
  <2> SUFFICES ASSUME TypeInv, PidInv, NEW p \in Pid, At(p, "bind"),
                      bound[proc[p].config.zmq_uri] \in Pid
               PROVE  FALSE
    BY DEF BindsAlone
  <2>1. "bind" \in Pcs \ (AlarmPcs \union ExitPcs)
    BY DEF Pcs, AlarmPcs, ExitPcs
  <2>2. Live(p) /\ Depth(p) = 1 /\ Base(p) = "bind"
    BY <2>1, AtBase DEF TypeInv
  <2>3. ~Has(p, "clear_config")
    BY <2>2 DEF Has, Base
  <2>4. Owner(p)
    BY <2>2, <2>3, OwnerIs DEF PidInv, PidPcs
  <2>5. proc[p].config.zmq_uri \in Uris
    BY <2>2, TopFrame DEF TypeInv, ProcType, ConfigType
  <2> PICK q \in Pid : q = bound[proc[p].config.zmq_uri]
    OBVIOUS
  <2>6. Serves(q)
    BY <2>5 DEF PidInv
  <2>7. q = p
    BY <2>4, <2>6 DEF PidInv, Serves
  <2> QED
    BY <2>2, <2>6, <2>7 DEF Serves, Early
<1> QED
  BY <1>1, TypeInvariant, PidInvariant, PTL

-----------------------------------------------------------------------------
(* config.dump, written by one process.                                    *)

Sole == \A p, q \in Pid : p = q

(* main() is in its loop and no frame is between the change of a setting   *)
(* and print_config().                                                     *)
Settled(p) ==
    /\ Live(p) /\ Base(p) \in {"poll", "working"}
    /\ ~Has(p, "reload") /\ ~Has(p, "print")

DumpInv == \A p \in Pid : Settled(p) => conf_dump = {proc[p].config}

(* The steps that leave CONFIG alone.                                      *)
LEMMA ConfigSame ==
    ASSUME ProcInv, NEW p \in Pid, Live(p), NEW pc \in Pcs
    PROVE  /\ Goto(p, pc) => proc'[p].config = proc[p].config
           /\ \A m : Becomes(p, [Went(p, pc) EXCEPT !.main_mutex = m])
                        => proc'[p].config = proc[p].config
           /\ \A m : Becomes(p, [Went(p, pc) EXCEPT !.inotify_mutex = m])
                        => proc'[p].config = proc[p].config
<1>1. PICK w \in ProcType : w = Went(p, pc) /\ w.config = proc[p].config
  BY WentIs, TopFrame DEF ProcType
<1>2. \A x : Becomes(p, x) => proc'[p] = x
  BY DEF Becomes, ProcInv
<1>3. \A m : /\ [w EXCEPT !.main_mutex = m].config = w.config
             /\ [w EXCEPT !.inotify_mutex = m].config = w.config
  BY DEF ProcType
<1>4. Goto(p, pc) => Becomes(p, w)
  BY <1>1 DEF Goto, Becomes
<1> QED
  BY <1>1, <1>2, <1>3, <1>4

(* A step of the only process after which nothing need be shown.           *)
LEMMA NothingToShow ==
    ASSUME Sole, NEW p \in Pid, ~Settled(p)'
    PROVE  DumpInv'
  BY DEF Sole, DumpInv

(* The top frame moves and CONFIG stays.                                   *)
LEMMA MoveKeepsDump ==
    ASSUME Sole, ProcInv, DumpInv, NEW p \in Pid, Live(p), NEW pc \in Pcs, Moved(p, pc),
           Pc(p) \notin {"reload", "print"},
           pc \in {"poll", "working"} => Pc(p) \in {"poll", "working"},
           proc'[p].config = proc[p].config, UNCHANGED conf_dump
    PROVE  DumpInv'
<1>1. {"reload", "print"} \subseteq Pcs
  BY DEF Pcs, AlarmPcs
<1>2. Settled(p)' => Settled(p)
  <2> SUFFICES ASSUME Settled(p)' PROVE Settled(p)
    OBVIOUS
  <2>1. Base(p)' \in {"poll", "working"} /\ ~Has(p, "reload")' /\ ~Has(p, "print")'
    BY DEF Settled
  <2>2. ~Has(p, "reload") /\ ~Has(p, "print")
    BY <1>1, <2>1, MovedFrames
  <2>3. Base(p) \in {"poll", "working"}
    BY <2>1, MovedFrames
  <2> QED
    BY <2>2, <2>3 DEF Settled
<1>3. Settled(p)' => conf_dump' = {proc'[p].config}
  BY <1>2 DEF DumpInv
<1> QED
  BY <1>3 DEF Sole, DumpInv

(* Every step of a process that is alone keeps config.dump up to date.     *)
LEMMA StepKeepsDump ==
    ASSUME Sole, TypeInv, DumpInv, [DaemonNext]_daemonVars
    PROVE  DumpInv'
<1>0. ProcInv /\ text \in Texts /\ mtime \in Int
  BY DaemonAssumptions DEF TypeInv, EnvInv
<1>1. CASE UNCHANGED <<proc, conf_dump>>
  BY <1>1 DEF DumpInv, Settled, Live, Base, Has, Depth
<1>2. ASSUME NEW p \in Pid, Left(p) PROVE DumpInv'
  <2>1. ~Settled(p)'
    BY <1>2 DEF Settled, Left, Ended, Gone, Live
  <2> QED
    BY <2>1, NothingToShow
<1>3. ASSUME NEW p \in Pid, Live(p), NEW pc \in {"reload", "print"}, Moved(p, pc) PROVE DumpInv'
  <2>1. pc \in Pcs
    BY DEF Pcs, AlarmPcs
  <2>2. ~Settled(p)'
    BY <1>0, <1>3, <2>1, MovedFrames DEF Settled
  <2> QED
    BY <2>2, NothingToShow
<1>4. ASSUME NEW p \in Pid, Live(p), Depth(p) = 1,
             NEW pc \in Pcs \ {"poll", "working"}, Moved(p, pc)
      PROVE  DumpInv'
  <2>1. ~Settled(p)'
    BY <1>0, <1>4, MovedFrames DEF Settled
  <2> QED
    BY <2>1, NothingToShow
<1>5. ASSUME NEW p \in Pid, Ends(p) PROVE DumpInv'
  BY <1>0, <1>2, <1>5, EndLeaves DEF Ends
<1>6. ASSUME NEW p \in Pid,
             \/ CheckPid(p) \/ ClearStale(p) \/ OpenPid(p) \/ WritePid(p)
             \/ LoadConfig(p) \/ StatConfig(p) \/ OpenLogger(p)
             \/ Setup(p) \/ SetupDone(p) \/ Bind(p) \/ AlarmDue(p)
      PROVE  DumpInv'
  <2> DEFINE There == {"clear_stale", "open_pid", "write_pid", "load", "stat", "logger",
                       "setup", "watching", "bind", "lock"}
  <2>1. PICK pc \in Early \union {"poll"} : At(p, pc)
    BY <1>6 DEF Early, PidPcs, ReadPcs, CheckPid, ClearStale, OpenPid, WritePid, LoadConfig,
       StatConfig, OpenLogger, Setup, SetupDone, Bind, AlarmDue
  <2>2. pc \in Pcs \ (AlarmPcs \union ExitPcs) /\ There \subseteq Pcs \ {"poll", "working"}
    BY DEF Pcs, AlarmPcs, ExitPcs, Early, PidPcs, ReadPcs
  <2>3. Live(p) /\ Depth(p) = 1
    BY <1>0, <2>1, <2>2, AtBase
  <2>4. \A to \in There : Moved(p, to) => DumpInv'
    BY <1>4, <2>2, <2>3
  <2> QED
    BY <1>0, <1>2, <1>6, <2>4, StartupSteps, LoopSteps
<1>7. ASSUME NEW p \in Pid,
             \/ Work(p) \/ WorkDone(p) \/ LockMain(p) \/ Dump(p)
             \/ LogInterrupt(p) \/ ZmqCleanup(p) \/ ClearPid(p)
      PROVE  DumpInv'
  <2>1. CASE Ends(p)
    BY <1>5, <2>1
  <2>2. CASE ~Ends(p)
    <3> DEFINE Here == {"poll", "working", "lock", "dump", "log_int", "zmq_cleanup", "clear_pid"}
               There == {"working", "poll", "dump", "dumping", "clear_pid", "clear_config"}
    <3>1. There \subseteq Pcs
      BY DEF Pcs, AlarmPcs, ExitPcs
    <3>2. PICK pc \in Here : At(p, pc)
      BY <1>7 DEF Work, WorkDone, LockMain, Dump, LogInterrupt, ZmqCleanup, ClearPid
    <3>3. Live(p) /\ Pc(p) = pc /\ Pc(p) \notin {"reload", "print"}
      BY <3>2 DEF At
    <3>4. UNCHANGED conf_dump
      BY <1>7 DEF Work, WorkDone, LockMain, Dump, LogInterrupt, ZmqCleanup, ClearPid, files
    <3>5. proc'[p].config = proc[p].config
      BY <1>0, <1>7, <2>2, <3>1, <3>3, ConfigSame
      DEF Work, WorkDone, LockMain, Dump, LogInterrupt, ZmqCleanup, ClearPid
    <3>6. PICK to \in There : Moved(p, to)
                              /\ (to \in {"poll", "working"} => Pc(p) \in {"poll", "working"})
      BY <1>0, <1>7, <2>2, LoopSteps, ExitSteps DEF Work, WorkDone, At
    <3> QED
      BY <1>0, <3>1, <3>3, <3>4, <3>5, <3>6, MoveKeepsDump
  <2> QED
    BY <2>1, <2>2
<1>8. ASSUME NEW p \in Pid, DumpDone(p) PROVE DumpInv'
  <2> PICK to \in {"zmq_cleanup", "test"} : to = IF Top(p).sig = "int" THEN "zmq_cleanup" ELSE "test"
    OBVIOUS
  <2>1. to \in Pcs /\ Live(p) /\ Pc(p) = "dumping" /\ UNCHANGED conf_dump
    BY <1>8 DEF DumpDone, At, Pcs, AlarmPcs, ExitPcs, files
  <2>2. Moved(p, to)
    BY <1>0, <1>8, LoopSteps
  <2>3. proc'[p].config = proc[p].config
    BY <1>0, <1>8, <2>1, ConfigSame DEF DumpDone
  <2> QED
    BY <1>0, <2>1, <2>2, <2>3, MoveKeepsDump
<1>9. ASSUME NEW p \in Pid, TestUpdate(p) PROVE DumpInv'
  <2>1. Live(p) /\ Pc(p) = "test" /\ UNCHANGED conf_dump /\ {"restat", "print"} \subseteq Pcs
    BY <1>9 DEF TestUpdate, At, files, Pcs, AlarmPcs
  <2>2. proc'[p].config = proc[p].config
    BY <1>0, <1>9, <2>1, ConfigSame DEF TestUpdate
  <2>3. CASE Moved(p, "restat")
    BY <1>0, <2>1, <2>2, <2>3, MoveKeepsDump
  <2>4. CASE Moved(p, "print")
    BY <1>3, <2>1, <2>4
  <2> QED
    BY <1>0, <1>9, <2>3, <2>4, LoopSteps
<1>10. ASSUME NEW p \in Pid, Restat(p) \/ Reload(p) PROVE DumpInv'
  <2>1. Live(p)
    BY <1>10 DEF Restat, Reload, At
  <2> QED
    BY <1>0, <1>3, <1>5, <1>10, <2>1, LoopSteps
<1>11. ASSUME NEW p \in Pid, Print_config(p) PROVE DumpInv'
  <2>1. conf_dump' = {proc'[p].config}
    BY <1>0, <1>11, PrintSteps DEF Print_config
  <2> QED
    BY <2>1 DEF DumpInv, Sole
<1>12. ASSUME NEW p \in Pid, ClearConfig(p) \/ Crash(p) PROVE DumpInv'
  BY <1>5, <1>12 DEF ClearConfig, Crash
<1>13. ASSUME NEW p \in Pid, Reused(p) PROVE DumpInv'
  <2>1. ~Live(p)'
    BY <1>0, <1>13 DEF Reused, Becomes, ProcInv, Gone, Live
  <2> QED
    BY <2>1, NothingToShow DEF Settled
<1>14. ASSUME NEW p \in Pid, NEW mode \in Modes, Start(p, mode) PROVE DumpInv'
  <2> PICK pc \in {"check_pid", "load"} : pc = IF mode = "daemon" THEN "check_pid" ELSE "load"
    OBVIOUS
  <2>1. proc'[p].stack = <<[sig |-> "main", pc |-> pc]>>
    BY <1>0, <1>14, StartBegins DEF Begun
  <2>2. Base(p)' = pc
    BY <2>1 DEF Base
  <2> QED
    BY <2>2, NothingToShow DEF Settled
<1>15. ASSUME NEW p \in Pid, NEW sig \in {"int", "hup"}, Signal(p, sig) PROVE DumpInv'
  <2> PICK pc \in Pcs : pc = IF sig = "int" THEN "log_int" ELSE "lock"
    BY DEF Pcs, AlarmPcs, ExitPcs
  <2> PICK e \in Frame : e = [sig |-> sig, pc |-> pc]
    BY DEF Frame
  <2>1. Pushed(p, e) /\ Live(p) /\ UNCHANGED conf_dump /\ proc'[p].config = proc[p].config
    BY <1>0, <1>15, SignalPushes DEF Signal, files
  <2>2. {"reload", "print"} \subseteq Pcs
    BY DEF Pcs, AlarmPcs
  <2>3. Settled(p)' => Settled(p)
    BY <1>0, <2>1, <2>2, PushedFrames DEF Settled
  <2> QED
    BY <2>1, <2>3 DEF DumpInv, Sole
<1>16. ASSUME NEW t \in Texts, Edit(t) PROVE DumpInv'
  BY <1>1, <1>16 DEF Edit, files
<1>17. ASSUME NEW p \in Pid, Step(p) PROVE DumpInv'
  BY <1>6, <1>7, <1>8, <1>9, <1>10, <1>11, <1>12, <1>17 DEF Step
<1> QED
  BY <1>1, <1>6, <1>7, <1>12, <1>13, <1>14, <1>15, <1>16, <1>17 DEF DaemonNext, daemonVars

(* Whenever the loop polls, config.dump holds the values in use, whatever  *)
(* edits, reloads and signals came before: the changes of CONFIG and the   *)
(* file that shows them are apart only inside alarm_handler().  For one    *)
(* process: clear_config() of another removes the file.                    *)
THEOREM DumpShowsSettings == ASSUME Sole PROVE DaemonSpec => []DumpShowsConfig
<1>1. DaemonInit => DumpInv
  BY DEF DaemonInit, DumpInv, Settled, Live, Gone
<1>2. TypeInv /\ DumpInv /\ [DaemonNext]_daemonVars => DumpInv'
  BY StepKeepsDump
<1>3. TypeInv /\ DumpInv => DumpShowsConfig
  <2> SUFFICES ASSUME TypeInv, DumpInv, NEW p \in Pid, At(p, "poll")
               PROVE  conf_dump = {proc[p].config}
    BY DEF DumpShowsConfig
  <2>1. "poll" \in Pcs \ (AlarmPcs \union ExitPcs)
    BY DEF Pcs, AlarmPcs, ExitPcs
  <2>2. Live(p) /\ Depth(p) = 1 /\ Base(p) = "poll"
    BY <2>1, AtBase DEF TypeInv
  <2>3. ~Has(p, "reload") /\ ~Has(p, "print")
    BY <2>2 DEF Has, Base
  <2> QED
    BY <2>2, <2>3 DEF DumpInv, Settled
<1> QED
  BY <1>1, <1>2, <1>3, TypeInvariant, PTL DEF DaemonSpec

=============================================================================
