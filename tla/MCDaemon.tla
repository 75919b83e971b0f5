------------------------------ MODULE MCDaemon ------------------------------
(***************************************************************************)
(* Small instances of the processes and their configuration file for TLC.  *)
(***************************************************************************)
EXTENDS Daemon

CONSTANTS p1, p2, p3, u1, u2

Plain ==
    [zmq_uri |-> {}, log_file |-> {}, log_level |-> {}, log_syslog |-> {},
     max_inotify_events |-> {}, memclean_freq |-> {}, silent |-> {}]

(* A complete file, one with another address, one without a log and with   *)
(* no such level, one that a log cannot be opened for.                     *)
Full    == [zmq_uri |-> {u1}, log_file |-> {"log"}, log_level |-> {"notice"},
            log_syslog |-> {FALSE}, max_inotify_events |-> {7},
            memclean_freq |-> {0}, silent |-> {TRUE}]
Moved   == [Plain EXCEPT !.zmq_uri = {u2}, !.log_level = {"debug"}]
Quiet   == [Plain EXCEPT !.log_file = {"false"}, !.log_level = {"junk"},
                         !.memclean_freq = {-1}, !.log_syslog = {TRUE}]
NoLog   == [Plain EXCEPT !.log_file = {"nodir"}, !.log_level = {"error"}]

AllFiles  == {Full, Moved, Quiet, NoLog}
AllTexts  == AllFiles \union {Missing, Broken}
OneFile   == {Full}
=============================================================================
