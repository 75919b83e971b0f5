------------------------------- MODULE Zeromq -------------------------------
(***************************************************************************)
(* The ZeroMQ side of the daemon: the REP socket, which takes one message  *)
(* and must answer it before it takes the next; zmq_handle_event(), which  *)
(* sorts out what is not a request; the dispatch of the rest; and the      *)
(* answers of reply.c.  The roots are reduced to what the answers show of  *)
(* them; Inotify models what the calls do.                                 *)
(***************************************************************************)
EXTENDS Request, FiniteSets

CONSTANTS
    Client,         \* the processes that connect to the daemon
    Dir,            \* the directories that exist
    Restored,       \* the roots that roots.dump may have brought back
    MaxEvents,      \* bound on the events that happen
    MaxFailures     \* bound on the allocations that fail

ASSUME ZmqAssumptions ==
    MaxEvents \in Nat /\ MaxFailures \in Nat /\ "no client" \notin Client

VARIABLES
    socket,     \* REP socket: may it receive or must it send, and to whom
    inbox,      \* the messages that wait in it, with their senders
    zmq_mutex,
    server,     \* main thread: where it is, and the message in hand
    roots,      \* the registered roots by path
    answers,    \* per client, the answers on their way to it
    client,     \* the clients; see Inotispyctl
    happened,   \* the events so far
    failures    \* the failed allocations so far

serverVars == <<socket, inbox, zmq_mutex, server>>

NoClient == "no client"
Reply(kind, code, value) == [kind |-> kind, code |-> code, value |-> value]
Error(code) == Reply("error", code, {})
Success     == Reply("success", "none", {})
Data(value) == Reply("data", "none", value)

Waits(c) == client[c].pc \in {"wait", "ping", "raw"}

(* zmq_send() on the REP socket: what a client that has gone would get is  *)
(* dropped, and out of turn the call fails without effect.                 *)
Send(reply) ==
    IF socket.state = "recv" THEN UNCHANGED <<socket, answers>>
    ELSE /\ socket' = [state |-> "recv", peer |-> NoClient]
         /\ answers' = IF Waits(socket.peer)
                       THEN [answers EXCEPT ![socket.peer] = Append(@, reply)]
                       ELSE answers

Fail == failures < MaxFailures /\ failures' = failures + 1

(* reply_send_message(): without memory for the message nothing is sent.   *)
ReplySend(reply) ==
    \/ Send(reply) /\ UNCHANGED failures
    \/ Fail /\ UNCHANGED <<socket, answers>>

ToPoll == server' = [pc |-> "poll", msg |-> {}]

-----------------------------------------------------------------------------
(* zmq_handle_event()                                                      *)

(* zmq_poll() reports a message only when the socket may receive.  A       *)
(* zmq_recv() that fails leaves everything as it is: the "reconnect" error *)
(* cannot be sent on a socket that is still to receive.                    *)
Receive ==
    /\ server.pc = "poll"
    /\ socket.state = "recv" /\ inbox # <<>>
    /\ IF zmq_mutex = "held"
       THEN /\ server' = [server EXCEPT !.pc = "stuck"]
            /\ UNCHANGED <<socket, inbox, zmq_mutex>>
       ELSE /\ zmq_mutex' = "held"
            /\ socket' = [state |-> "send", peer |-> Head(inbox).from]
            /\ inbox' = Tail(inbox)
            /\ server' = [pc |-> "received", msg |-> {Head(inbox).msg}]
    /\ UNCHANGED <<roots, answers, client, happened, failures>>

Message == TheValue(server.msg)

(* A message of zero bytes, or one that starts with a NUL, is dropped.     *)
SkipEmpty ==
    /\ server.pc = "received"
    /\ Message.kind \in {"empty", "nul"}
    /\ zmq_mutex' = "free"
    /\ ToPoll
    /\ UNCHANGED <<socket, inbox, roots, answers, client, happened, failures>>

(* The early return after a failed malloc() forgets the mutex.             *)
NoMemory ==
    /\ server.pc = "received"
    /\ Message.kind # "empty"
    /\ Fail
    /\ Send(Error("memory"))
    /\ ToPoll
    /\ UNCHANGED <<inbox, zmq_mutex, roots, client, happened>>

(* Slip: junk is thrown away like an empty message.                        *)
RefuseSilently(code) ==
    /\ zmq_mutex' = "free"
    /\ ToPoll
    /\ UNCHANGED <<socket, answers, failures>>

Refuse(code) ==
    /\ ReplySend(Error(code))
    /\ zmq_mutex' = "free"
    /\ ToPoll

(* Text without a brace at either end, text that does not parse, and       *)
(* objects without the name of a call are refused.                         *)
RefuseMessage ==
    /\ server.pc = "received"
    /\ \/ Message.kind = "junk" /\ Refuse("json_invalid")
       \/ /\ \/ Message.kind = "broken"
             \/ Message.kind = "json" /\ Message.call = {}
          /\ Refuse("json_parse")
    /\ UNCHANGED <<inbox, roots, client, happened>>

AcceptMessage ==
    /\ server.pc = "received"
    /\ Message.kind = "json" /\ Message.call # {}
    /\ zmq_mutex' = "free"
    /\ server' = [server EXCEPT !.pc = "dispatch"]
    /\ UNCHANGED <<socket, inbox, roots, answers, client, happened, failures>>

-----------------------------------------------------------------------------
(* zmq_dispatch_event() and the EVENT_ handlers, by what they answer.      *)

IsRoot(p) == p \in DOMAIN roots

(* The path of a watch is copied with mk_string(), which turns a missing   *)
(* one into "(null)": it is not found to be missing, but not absolute.     *)
MissingPath(r) ==
    IF Message.path # {} THEN "none"
    ELSE IF r.call = "watch" THEN "not_absolute"
    ELSE "key_not_found"

With(p, root) == [q \in DOMAIN roots \union {p} |-> IF q = p THEN root ELSE roots[q]]
Without(p)    == [q \in DOMAIN roots \ {p} |-> roots[q]]

DoWatch(r) ==
    LET p == StripOneSlash(r.path)
    IN IF r.path = <<>> THEN ReplySend(Error("not_absolute")) /\ UNCHANGED roots
       ELSE IF IsRoot(r.path) \/ IsRoot(p)
       THEN ReplySend(Error("already_watched")) /\ UNCHANGED roots
       ELSE IF StripSlashes(p) \notin Dir
       THEN ReplySend(Error("does_not_exist")) /\ UNCHANGED roots
       ELSE /\ roots' = With(p, [destroy |-> FALSE, queue |-> 0,
                                 max_events |-> r.max_events,
                                 rewatch |-> r.rewatch])
            /\ ReplySend(Success)

DoUnwatch(r) ==
    LET p == StripOneSlash(r.path)
    IN IF ~IsRoot(p) THEN ReplySend(Error("not_watched")) /\ UNCHANGED roots
       ELSE IF roots[p].destroy
       THEN ReplySend(Error("being_destroyed")) /\ UNCHANGED roots
       ELSE roots' = [roots EXCEPT ![p].destroy = TRUE] /\ ReplySend(Success)

(* Slip: the length of the queue is not looked at.                         *)
DequeuedUncapped(queue, count) == IF count = 0 THEN queue ELSE count

(* inotify_dequeue(): a queue shorter than count gives all it has.         *)
Dequeued(queue, count) == IF count = 0 \/ count > queue THEN queue ELSE count

(* pause flushes the queue.                                                *)
DoOnRoot(r) ==
    LET p == r.path
    IN IF ~IsRoot(p) THEN ReplySend(Error("not_watched")) /\ UNCHANGED roots
       ELSE \/ /\ r.call = "pause"
               /\ roots' = [roots EXCEPT ![p].queue = 0]
               /\ ReplySend(Success)
            \/ /\ r.call = "unpause"
               /\ ReplySend(Success)
               /\ UNCHANGED roots
            \/ /\ r.call = "subscribe"
               /\ ReplySend(Data({}))
               /\ UNCHANGED roots
            \/ /\ r.call = "get_events" /\ r.count = -1
               /\ ReplySend(Error("invalid_count"))
               /\ UNCHANGED roots
            \/ /\ r.call = "get_events" /\ r.count # -1
               /\ roots' = [roots EXCEPT ![p].queue = @ - Dequeued(@, r.count)]
               /\ ReplySend(Data({}))
            \/ /\ r.call = "get_queue_size"
               /\ ReplySend(Data({}))
               /\ UNCHANGED roots

DoQuery(r) ==
    /\ \/ r.call = "ping"      /\ ReplySend(Reply("pong", "none", {}))
       \/ r.call = "status"    /\ ReplySend(Data({}))
       \/ r.call = "get_roots" /\ ReplySend(Data(DOMAIN roots))
       \/ r.call = "other"     /\ ReplySend(Error("bad_call"))
    /\ UNCHANGED roots

NeedsPath(call) == call \notin {"ping", "status", "get_roots", "other"}

(* get_queue_size() without a path unlocks the mutex it has not locked.    *)
Dispatch ==
    LET r == ParseRequest(Message)
    IN /\ server.pc = "dispatch"
       /\ IF NeedsPath(r.call) /\ MissingPath(r) # "none"
          THEN ReplySend(Error(MissingPath(r))) /\ UNCHANGED roots
          ELSE \/ r.call = "watch"   /\ DoWatch(r)
               \/ r.call = "unwatch" /\ DoUnwatch(r)
               \/ NeedsPath(r.call) /\ r.call \notin {"watch", "unwatch"} /\ DoOnRoot(r)
               \/ ~NeedsPath(r.call) /\ DoQuery(r)
       /\ ToPoll
       /\ zmq_mutex' = "free"
       /\ UNCHANGED <<inbox, client, happened>>

-----------------------------------------------------------------------------
(* The rest of the daemon.                                                 *)

(* _destroy_root() ends.                                                   *)
DestroyDone(p) ==
    /\ IsRoot(p) /\ roots[p].destroy
    /\ roots' = Without(p)
    /\ UNCHANGED <<serverVars, answers, client, happened, failures>>

(* inotify_enqueue(), up to the limit of the root.                         *)
Enqueue(p) ==
    /\ IsRoot(p) /\ ~roots[p].destroy
    /\ happened < MaxEvents
    /\ happened' = happened + 1
    /\ roots[p].queue < roots[p].max_events
    /\ roots' = [roots EXCEPT ![p].queue = @ + 1]
    /\ UNCHANGED <<serverVars, answers, client, failures>>

(* The process ends; what waits in its socket is gone.                     *)
ServerDies ==
    /\ server.pc # "down"
    /\ server' = [pc |-> "down", msg |-> {}]
    /\ inbox' = <<>>
    /\ UNCHANGED <<socket, zmq_mutex, roots, answers, client, happened, failures>>

ServerStep ==
    \/ Receive \/ SkipEmpty \/ NoMemory \/ RefuseMessage \/ AcceptMessage
    \/ Dispatch

=============================================================================
