---------------------------- MODULE EventQueues ----------------------------
(***************************************************************************)
(* What a client is promised about events: every watched root has a queue  *)
(* of bounded length.  Events enter it one at a time and in order while    *)
(* the root is open and not paused; a client takes them from the front, in *)
(* order and each one once; pausing and closing throw the rest away.       *)
(*                                                                         *)
(* Which events enter a queue is not said here.                            *)
(***************************************************************************)
EXTENDS Integers, Sequences

CONSTANTS
    RootPath,   \* the paths that may be watched as roots
    QEvent,     \* the events
    Limit       \* the queue lengths a client may ask for

VARIABLES
    stage,      \* the life of each root: closed, open, closing, drained
    paused,     \* the roots that take no events
    queue,      \* the events waiting for a client, oldest first
    limit,      \* max_events of each root
    answer      \* the events in the latest answer to a client

vars == <<stage, paused, queue, limit, answer>>

Init ==
    /\ stage = [p \in RootPath |-> "closed"]
    /\ paused = {}
    /\ queue = [p \in RootPath |-> <<>>]
    /\ limit = [p \in RootPath |-> 0]
    /\ answer = <<>>

Open(p) ==
    /\ stage[p] = "closed"
    /\ stage' = [stage EXCEPT ![p] = "open"]
    /\ \E n \in Limit : limit' = [limit EXCEPT ![p] = n]
    /\ UNCHANGED <<paused, queue, answer>>

Accept(p) ==
    /\ stage[p] = "open" /\ p \notin paused
    /\ Len(queue[p]) < limit[p]
    /\ \E e \in QEvent : queue' = [queue EXCEPT ![p] = Append(@, e)]
    /\ UNCHANGED <<stage, paused, limit, answer>>

(* A client takes the oldest n events.                                     *)
Take(p) ==
    /\ stage[p] \in {"open", "closing"}
    /\ \E n \in 1 .. Len(queue[p]) :
         /\ answer' = SubSeq(queue[p], 1, n)
         /\ queue' = [queue EXCEPT ![p] = SubSeq(@, n + 1, Len(@))]
    /\ UNCHANGED <<stage, paused, limit>>

(* The previous answer is with the client.                                 *)
Forgotten ==
    /\ answer' = <<>>
    /\ UNCHANGED <<stage, paused, queue, limit>>

Pause(p) ==
    /\ stage[p] # "closed"
    /\ paused' = paused \union {p}
    /\ UNCHANGED <<stage, queue, limit, answer>>

Flush(p) ==
    /\ p \in paused
    /\ queue' = [queue EXCEPT ![p] = <<>>]
    /\ UNCHANGED <<stage, paused, limit, answer>>

Unpause(p) ==
    /\ queue[p] = <<>>
    /\ paused' = paused \ {p}
    /\ UNCHANGED <<stage, queue, limit, answer>>

Closing(p) ==
    /\ stage[p] = "open"
    /\ stage' = [stage EXCEPT ![p] = "closing"]
    /\ UNCHANGED <<paused, queue, limit, answer>>

(* The queue goes before the root does.                                    *)
Drain(p) ==
    /\ stage[p] = "closing"
    /\ stage' = [stage EXCEPT ![p] = "drained"]
    /\ queue' = [queue EXCEPT ![p] = <<>>]
    /\ UNCHANGED <<paused, limit, answer>>

Close(p) ==
    /\ stage[p] = "drained"
    /\ stage' = [stage EXCEPT ![p] = "closed"]
    /\ paused' = paused \ {p}
    /\ limit' = [limit EXCEPT ![p] = 0]
    /\ UNCHANGED <<queue, answer>>

Next ==
    \/ Forgotten
    \/ \E p \in RootPath :
         \/ Open(p) \/ Accept(p) \/ Take(p) \/ Pause(p) \/ Flush(p)
         \/ Unpause(p) \/ Closing(p) \/ Drain(p) \/ Close(p)

Spec == Init /\ [][Next]_vars

=============================================================================
