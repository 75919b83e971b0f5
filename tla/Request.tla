------------------------------ MODULE Request ------------------------------
(***************************************************************************)
(* request.c: from the fields of a client's JSON object to the arguments   *)
(* of a call, with the defaults that EVENT_watch() puts in.                *)
(*                                                                         *)
(* A field of a message is the set of its values: {v}, or {} if it is not  *)
(* there or has the wrong type, which the parser treats alike.  A path is  *)
(* the sequence of its components, as in Paths: a trailing slash is an     *)
(* empty last component, and "/" is the empty component alone.             *)
(***************************************************************************)
EXTENDS Integers, Sequences

CONSTANTS
    DefaultMask,        \* INOTIFY_DEFAULT_MASK
    NoMask,             \* the mask 0
    FullMask,           \* the mask -1
    DefaultMaxEvents    \* CONFIG->max_inotify_events

TheValue(field) == CHOOSE v \in field : TRUE

(* request_get_key_int() *)
GetKeyInt(field) == IF field = {} THEN -1 ELSE TheValue(field)

(* Slip: one slash is cut off, as inotify_watch_tree() does.               *)
StripOneSlash(p) ==
    IF p # <<"">> /\ p # <<>> /\ p[Len(p)] = "" THEN SubSeq(p, 1, Len(p) - 1) ELSE p

(* All trailing slashes are cut off; a string of several slashes and       *)
(* nothing else ends up empty.                                             *)
StripSlashes(p) ==
    IF p = <<"">> THEN p
    ELSE LET named == {i \in DOMAIN p : p[i] # ""}
         IN IF named = {} THEN <<>>
            ELSE SubSeq(p, 1, CHOOSE i \in named : \A j \in named : j <= i)

(* Slip: the path is taken as the client sent it.                          *)
GetPathAsSent(m) == IF m.path = {} THEN <<>> ELSE TheValue(m.path)

(* request_get_path() *)
GetPath(m) == IF m.path = {} THEN <<>> ELSE StripSlashes(TheValue(m.path))

(* request_get_max_events() and the default of EVENT_watch()               *)
GetMaxEvents(m) ==
    IF GetKeyInt(m.max_events) \in {-1, 0} THEN DefaultMaxEvents
    ELSE GetKeyInt(m.max_events)

(* request_get_mask() and the default of EVENT_watch()                     *)
GetMask(m) ==
    IF m.mask \in {{}, {NoMask}, {FullMask}} THEN DefaultMask ELSE TheValue(m.mask)

(* request_get_rewatch(): any number but -1 turns it on, 0 too.            *)
GetRewatch(m) == GetKeyInt(m.rewatch) # -1

(* Slips of request_get_count(): the default is "all", and the test for    *)
(* negative numbers is missing.                                            *)
GetCountAll(m) == IF m.count = {} THEN 0 ELSE GetKeyInt(m.count)

(* request_get_count(): -1 is the mark of an invalid count.                *)
GetCount(m) ==
    LET count == GetKeyInt(m.count)
    IN IF count = -1 THEN 1
       ELSE IF count < 0 THEN -1
       ELSE count

(* The calls zmq_dispatch_event() knows; the rest is one call "other".     *)
KnownCalls == {"ping", "status", "watch", "pause", "unpause", "subscribe",
               "unwatch", "get_events", "get_queue_size", "get_roots"}

GetCall(m) == IF TheValue(m.call) \in KnownCalls THEN TheValue(m.call) ELSE "other"

ParseRequest(m) ==
    [call |-> GetCall(m), path |-> GetPath(m), mask |-> GetMask(m),
     max_events |-> GetMaxEvents(m), rewatch |-> GetRewatch(m),
     count |-> GetCount(m)]

=============================================================================
