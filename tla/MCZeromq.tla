------------------------------ MODULE MCZeromq ------------------------------
(***************************************************************************)
(* Small instances of the daemon's socket and its clients for TLC.         *)
(***************************************************************************)
EXTENDS Inotispyctl, TLC

CONSTANTS k1, k2

r == <<"r">>
q == <<"q}">>

Cmd(name, p, n) == [name |-> name, path |-> p, count |-> n]

AllCommands ==
    {Cmd(name, <<>>, 0) : name \in {"ping", "status", "list_roots", "list_queues"}}
    \union {Cmd(name, r, 0) : name \in {"queue_size", "flush_queue", "watch",
                                        "unwatch", "pause", "unpause"}}
    \union {Cmd("get_events", r, 1), Cmd("get_events", r, -1), Cmd("watch", q, 0)}

SomeDirs == {r, q}
RestoredRoots == {r}

RawCall(call) == [Blank EXCEPT !.call = {call}]
RawOn(call, p) == [RawCall(call) EXCEPT !.path = {p}]

(* A few of everything that other programs may send.                       *)
SomeMessages ==
    {[Blank EXCEPT !.kind = kind] : kind \in {"empty", "nul", "junk", "broken", "json"}}
    \union {RawCall(call) : call \in {"watch", "get_queue_size", "no_such_call"}}
    \union {RawOn("watch", <<"r", "", "">>), RawOn("watch", <<"", "">>),
            RawOn("watch", <<"s">>), RawOn("subscribe", r),
            [RawOn("watch", r) EXCEPT !.max_events = {1}, !.rewatch = {0}],
            [RawOn("watch", r) EXCEPT !.max_events = {-2}],
            [RawOn("get_events", r) EXCEPT !.count = {-2}],
            [RawOn("get_events", r) EXCEPT !.count = {-1}],
            RawOn("get_events", <<"r", "">>)}

EmptyMessage == {[Blank EXCEPT !.kind = "empty"]}
PingOnly     == {Cmd("ping", <<>>, 0), Cmd("list_queues", <<>>, 0)}
=============================================================================
