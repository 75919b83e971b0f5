----------------------------- MODULE RewatchSet -----------------------------
(***************************************************************************)
(* What "rewatch" promises, and under which conditions.  The daemon keeps  *)
(* a set of roots across its restarts.  A call to watch adds a root to it  *)
(* and is answered only once the root is kept; only a call to unwatch      *)
(* takes one out; a daemon that comes back serves exactly what was kept.   *)
(*                                                                         *)
(* The promise has limits.  A daemon that dies while it is writing the set *)
(* or while it is starting may lose roots, and so may a start that finds   *)
(* more than Capacity of them.  A start may also forget every root that is *)
(* not Lasting: one without a directory, or one that asked for room for no *)
(* events at all.                                                          *)
(***************************************************************************)
EXTENDS Naturals, FiniteSets

CONSTANTS
    KeepRoot,   \* the roots that can be kept
    Lasting,    \* those that no start may forget
    Capacity,   \* the number of roots that a start is sure to find
    NoRoot

VARIABLES
    kept,       \* the roots to be watched again
    served,     \* the kept roots that the daemon serves
    phase,      \* "down", "starting" or "up"
    writing,    \* the set is being written
    spilled,    \* this start found more than Capacity roots
    asked,      \* the root whose watch has not been answered
    leaving     \* the roots whose unwatch has been answered

svars == <<kept, served, phase, writing, spilled, asked, leaving>>

Init ==
    /\ kept = {} /\ served = {} /\ leaving = {}
    /\ phase = "down"
    /\ writing = FALSE /\ spilled = FALSE
    /\ asked = NoRoot

(* The calls of clients.                                                   *)
Watch(p) ==
    /\ phase = "up" /\ asked = NoRoot /\ p \notin served
    /\ served' = served \union {p}
    /\ asked' = p
    /\ UNCHANGED <<kept, phase, writing, spilled, leaving>>

AnswerWatch ==
    /\ asked \in kept
    /\ asked' = NoRoot
    /\ UNCHANGED <<kept, served, phase, writing, spilled, leaving>>

AnswerUnwatch(p) ==
    /\ phase = "up" /\ p \in served
    /\ leaving' = leaving \union {p}
    /\ UNCHANGED <<kept, served, phase, writing, spilled, asked>>

Leave(p) ==
    /\ p \in leaving
    /\ served' = served \ {p}
    /\ leaving' = leaving \ {p}
    /\ UNCHANGED <<kept, phase, writing, spilled, asked>>

(* The set is replaced by what is served, in a window.                     *)
BeginWrite ==
    /\ phase = "up" /\ ~writing
    /\ writing' = TRUE
    /\ kept' = served
    /\ UNCHANGED <<served, phase, spilled, asked, leaving>>

EndWrite ==
    /\ writing
    /\ writing' = FALSE
    /\ UNCHANGED <<kept, served, phase, spilled, asked, leaving>>

(* The end of the process, and the way back.                               *)
GoDown ==
    /\ phase # "down"
    /\ phase' = "down"
    /\ IF writing \/ phase = "starting" THEN kept' \in SUBSET kept
       ELSE UNCHANGED kept
    /\ served' = {} /\ leaving' = {}
    /\ writing' = FALSE /\ spilled' = FALSE
    /\ asked' = NoRoot

Start ==
    /\ phase = "down"
    /\ phase' = "starting"
    /\ spilled' = (Cardinality(kept) > Capacity)
    /\ UNCHANGED <<kept, served, writing, asked, leaving>>

Forget ==
    /\ phase = "starting"
    /\ kept' \in SUBSET kept
    /\ spilled \/ kept \ kept' \subseteq KeepRoot \ Lasting
    /\ UNCHANGED <<served, phase, writing, spilled, asked, leaving>>

ComeBack ==
    /\ phase = "starting"
    /\ phase' = "up"
    /\ served' = kept
    /\ spilled' = FALSE
    /\ UNCHANGED <<kept, writing, asked, leaving>>

Next ==
    \/ \E p \in KeepRoot : Watch(p) \/ AnswerUnwatch(p) \/ Leave(p)
    \/ AnswerWatch \/ BeginWrite \/ EndWrite
    \/ GoDown \/ Start \/ Forget \/ ComeBack

Spec == Init /\ [][Next]_svars
=============================================================================
