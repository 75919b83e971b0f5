------------------------------- MODULE Config -------------------------------
(***************************************************************************)
(* config.c and the part of log.c that depends on it: from the text of the *)
(* configuration file to the values in CONFIG, at startup and on a reload. *)
(*                                                                         *)
(* A key of the file is the set of its values: {v}, or {} if it is absent  *)
(* or cannot be converted, which the key file parser reports alike.        *)
(***************************************************************************)
EXTENDS Integers

CONSTANTS
    DefaultUri,         \* ZMQ_URI
    DefaultLog,         \* LOG_FILE
    DefaultMaxEvents,   \* INOTIFY_MAX_EVENTS
    DefaultFreq,        \* INOTIFY_MEMCLEAN_FREQ
    Unopenable,         \* the log files that fopen() fails on
    Missing,            \* no configuration file
    Broken              \* a configuration file that is not a key file

Loads(text) == text \notin {Missing, Broken}

LevelNames == {"error", "warn", "notice", "debug", "trace"}

(* enum log_levels, from the least to the most verbose                     *)
Rank(level) ==
    CASE level = "error"  -> 1
      [] level = "warn"   -> 2
      [] level = "notice" -> 3
      [] level = "debug"  -> 4
      [] level = "trace"  -> 5

OneOf(key) == CHOOSE v \in key : TRUE
Given(key, default) == IF key = {} THEN default ELSE OneOf(key)

-----------------------------------------------------------------------------
(* The values before the file is read.  mtime is not among those that      *)
(* init_config() sets, and zmq_uri points to a literal, not to memory that *)
(* CONFIG owns.                                                            *)
Defaults ==
    [has_path |-> FALSE, mtime |-> 0, zmq_uri |-> DefaultUri, uri_owned |-> FALSE,
     log_level |-> "notice", log_file |-> DefaultLog, log_syslog |-> FALSE,
     logging_enabled |-> TRUE, max_inotify_events |-> DefaultMaxEvents,
     memclean_freq |-> DefaultFreq, silent |-> FALSE]

(* Slip: once switched off, logging stays off.                             *)
SetLogFileOnly(c, f) ==
    IF f.log_file = {} THEN c
    ELSE IF f.log_file = {"false"} THEN [c EXCEPT !.logging_enabled = FALSE]
    ELSE [c EXCEPT !.log_file = OneOf(f.log_file)]

(* _set_log_file() *)
SetLogFile(c, f) ==
    IF f.log_file = {} THEN c
    ELSE IF f.log_file = {"false"} THEN [c EXCEPT !.logging_enabled = FALSE]
    ELSE [c EXCEPT !.logging_enabled = TRUE, !.log_file = OneOf(f.log_file)]

(* _set_log_level(): a level that is not one of the five is ignored.       *)
SetLogLevel(c, f) ==
    [c EXCEPT !.log_level = Given(f.log_level \intersect LevelNames, @)]

(* _set_log_syslog() *)
SetLogSyslog(c, f) == [c EXCEPT !.log_syslog = Given(f.log_syslog, @)]

SetLogging(c, f) == SetLogSyslog(SetLogLevel(SetLogFile(c, f), f), f)

(* init_config() with a file that loads                                    *)
InitFrom(f, silent) ==
    SetLogging([Defaults EXCEPT
        !.has_path = TRUE,
        !.zmq_uri = Given(f.zmq_uri, @),
        !.uri_owned = f.zmq_uri # {},
        !.max_inotify_events = Given(f.max_inotify_events, @),
        !.memclean_freq = Given({n \in f.memclean_freq : n >= 0}, @),
        !.silent = silent \/ Given(f.silent, FALSE)], f)

(* What a failed init_config() leaves: the defaults, no path, and in mtime *)
(* what the allocator left there.                                          *)
Uninitialised == {[Defaults EXCEPT !.mtime = m] : m \in {-1, 0, 1}}

(* get_mtime() of the file CONFIG names: 0 if it cannot be examined        *)
GetMtime(c, text, mtime) ==
    IF c.has_path /\ text # Missing THEN mtime ELSE 0

(* config_has_an_update() *)
HasUpdate(c, text, mtime) == c.mtime # 0 /\ GetMtime(c, text, mtime) > c.mtime

(* init_logger(): the log file is opened even when logging is switched off *)
InitLogger(c) == IF c.log_file \in Unopenable THEN "null" ELSE "open"

(* log_msg() writes to the stream, open or not.                            *)
LogCrashes(c, logger, level) ==
    /\ Rank(level) <= Rank(c.log_level)
    /\ c.logging_enabled
    /\ logger = "null"

(* The settings the file gives in its logging keys are the ones in use.    *)
(* Of a level that is absent or not one of the five nothing is asked:      *)
(* inotispy.conf says that "notice" takes its place, but a reload keeps    *)
(* the level in use.                                                       *)
Follows(c, f) ==
    /\ f.log_file # {} => c.logging_enabled = (f.log_file # {"false"})
    /\ f.log_file \notin {{}, {"false"}} => c.log_file = OneOf(f.log_file)
    /\ f.log_level \intersect LevelNames # {} => c.log_level = OneOf(f.log_level)
    /\ f.log_syslog # {} => c.log_syslog = OneOf(f.log_syslog)

=============================================================================
