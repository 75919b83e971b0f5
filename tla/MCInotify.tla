----------------------------- MODULE MCInotify -----------------------------
(***************************************************************************)
(* Small instances of the event path for TLC.                              *)
(***************************************************************************)
EXTENDS InotifyProps, TLC

CONSTANTS a1, a2, w1, w2, c1

(* The directories: /r and what may appear in it.                          *)
r   == <<"r">>
ra  == <<"r", "a">>
rab == <<"r", "a", "b">>
rb  == <<"r", "b">>
rx  == <<"r", "x.~tmp~">>

Names == {"", "r", "a", "b", "x.~tmp~", "f"}

PathR     == {r}
PathRA    == {r, ra}
PathChain == {r, ra, rab}
PathFork  == {r, ra, rb}
PathTmp   == {r, ra, rab, rx}

(* The requests are what request.c makes of the messages of clients.       *)
Parse == INSTANCE Request WITH
    DefaultMask <- Kinds, NoMask <- {}, FullMask <- Kinds, DefaultMaxEvents <- 1

Message(call) ==
    [call |-> {call}, path |-> {}, mask |-> {}, max_events |-> {},
     rewatch |-> {}, count |-> {}]
On(call, p) == [Message(call) EXCEPT !.path = {p}]

Req(call, p) == Parse!ParseRequest(On(call, p))
Ask(call)    == Parse!ParseRequest(Message(call))
Get(p, n)    == Parse!ParseRequest([On("get_events", p) EXCEPT !.count = {n}])
Watch(p, mask, max_events, rewatch) ==
    Parse!ParseRequest([On("watch", p) EXCEPT !.mask = {mask},
                            !.max_events = {max_events},
                            !.rewatch = IF rewatch THEN {1} ELSE {}])

RootSymmetry == Permutations(Walker) \union Permutations(Addr)
WalkerSymmetry == Permutations(Walker)

CoverRequests == {Watch(r, Kinds, 1, TRUE)}

RegistryRequests ==
    {Watch(r, Kinds, 1, TRUE), Watch(r \o <<"", "">>, Kinds, 1, FALSE),
     Watch(ra, Kinds, 1, TRUE), Ask("watch"),
     Req("unwatch", r), Req("unwatch", ra \o <<"">>),
     Ask("status"), Ask("get_roots"), Ask("no_such_call"), Req("subscribe", r)}

QueueRequests ==
    {Watch(r, Kinds, 2, TRUE), Watch(r, DirKinds, 1, FALSE), Req("unwatch", r),
     Get(r, 0), Req("get_events", r), Get(r, 2), Req("pause", r), Req("unpause", r),
     Req("get_queue_size", r)}

DestroyRequests == {Watch(r, Kinds, 1, TRUE), Req("unwatch", r)}

PauseRequests ==
    {Watch(r, Kinds, 2, FALSE), Req("pause", r), Req("unpause", r)}

=============================================================================
