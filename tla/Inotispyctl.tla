---------------------------- MODULE Inotispyctl ----------------------------
(***************************************************************************)
(* The clients of the daemon: runs of inotispyctl, which send a request    *)
(* over a REQ socket and block until it is answered (except for ping), and *)
(* programs of other authors, which may send anything.                     *)
(***************************************************************************)
EXTENDS Zeromq, SequencesExt

CONSTANTS
    Commands,       \* what inotispyctl is run with: [name, path, count]
    RawMessages,    \* what other programs send
    Awkward,        \* names with a quote or a brace in them
    MaxTries        \* how often ping looks for its answer

(* A field of a message has one value at most.                             *)
Field(f, S) == f \subseteq S /\ \A v, w \in f : v = w

(* The roots in roots.dump were written there under their names.           *)
ASSUME CtlAssumptions ==
    /\ \A m \in RawMessages :
         /\ m.kind \in {"empty", "nul", "junk", "broken", "json"}
         /\ Field(m.call, STRING) /\ Field(m.path, Seq(STRING)) /\ Field(m.max_events, Int)
         /\ Field(m.count, Int)
    /\ \A cmd \in Commands :
         cmd.name \in STRING /\ cmd.path \in Seq(STRING) /\ cmd.count \in Int
    /\ \A p \in Restored : p \in Seq(STRING) /\ p = StripSlashes(p)
    /\ DefaultMaxEvents \in Int

zmqVars == <<socket, inbox, zmq_mutex, server, roots, answers, client, happened,
             failures>>

(* The pieces of a message; see Request.                                   *)
Blank == [kind |-> "json", call |-> {}, path |-> {}, mask |-> {},
          max_events |-> {}, rewatch |-> {}, count |-> {}]

NoCommand == [name |-> "none", path |-> <<>>, count |-> 0]
NewClient == [pc |-> "ready", cmd |-> NoCommand, todo |-> {}, tries |-> 0,
              status |-> "none"]

-----------------------------------------------------------------------------
(* The requests are put together with "%s": a name with a quote or a brace *)
(* in it makes text that is no JSON, or is cut at the brace.               *)
Text(p) == IF \E i \in DOMAIN p : p[i] \in Awkward THEN "broken" ELSE "json"

Call(call)        == [Blank EXCEPT !.call = {call}]
CallPath(call, p) == [Call(call) EXCEPT !.path = {p}, !.kind = Text(p)]
GetEvents(p, n)   == [CallPath("get_events", p) EXCEPT !.count = {n}]

FirstRequest(cmd) ==
    CASE cmd.name \in {"ping", "status"}              -> Call(cmd.name)
      [] cmd.name \in {"list_roots", "list_queues"}   -> Call("get_roots")
      [] cmd.name = "queue_size"    -> CallPath("get_queue_size", cmd.path)
      [] cmd.name = "flush_queue"   -> GetEvents(cmd.path, 0)
      [] cmd.name = "get_events"    -> GetEvents(cmd.path, cmd.count)
      [] OTHER                      -> CallPath(cmd.name, cmd.path)

(* zmq_send() on the REQ socket; a daemon that is not there gets nothing.  *)
SendRequest(c, m) ==
    inbox' = IF server.pc = "down" THEN inbox
             ELSE Append(inbox, [from |-> c, msg |-> m])

Become(c, new) == client' = [client EXCEPT ![c] = new]

ExitWith(c, status) ==
    Become(c, [NewClient EXCEPT !.pc = "done", !.status = status])

(* list_events() refuses a negative count.                                 *)
BadCount(cmd) == cmd.name = "get_events" /\ cmd.count < 0

(* main() to the first request                                             *)
Begin(c, cmd) ==
    /\ client[c].pc = "ready"
    /\ IF BadCount(cmd)
       THEN ExitWith(c, "failed") /\ UNCHANGED inbox
       ELSE /\ SendRequest(c, FirstRequest(cmd))
            /\ Become(c, [client[c] EXCEPT !.cmd = cmd,
                            !.pc = IF cmd.name = "ping" THEN "ping" ELSE "wait"])
    /\ UNCHANGED <<socket, zmq_mutex, server, roots, answers, happened, failures>>

(* Slip: one answer more than there are roots is waited for.               *)
ListOneMore(c, todo) ==
    \/ /\ todo = {}
       /\ UNCHANGED <<client, inbox>>
    \/ \E p \in todo :
         /\ SendRequest(c, CallPath("get_queue_size", p))
         /\ Become(c, [client[c] EXCEPT !.todo = todo \ {p}])

(* The listing goes on with the queue size of one root after another.      *)
ListNext(c, todo) ==
    \/ /\ todo = {}
       /\ ExitWith(c, "ok") /\ UNCHANGED inbox
    \/ \E p \in todo :
         /\ SendRequest(c, CallPath("get_queue_size", p))
         /\ Become(c, [client[c] EXCEPT !.todo = todo \ {p}])

(* get_reply(): an error ends the command, handle_error() exits.           *)
GetReply(c) ==
    LET reply == Head(answers[c])
    IN /\ client[c].pc = "wait" /\ answers[c] # <<>>
       /\ answers' = [answers EXCEPT ![c] = Tail(@)]
       /\ IF reply.kind = "error"
          THEN ExitWith(c, "failed") /\ UNCHANGED inbox
          ELSE ListNext(c, IF client[c].cmd.name = "list_queues"
                           THEN client[c].todo \union reply.value ELSE {})
       /\ UNCHANGED <<socket, zmq_mutex, server, roots, happened, failures>>

(* Slip: ping waits for its answer like the other commands.                *)
ZmqPingBlocks(c) ==
    /\ client[c].pc = "ping" /\ answers[c] # <<>>
    /\ ExitWith(c, "ok")
    /\ answers' = [answers EXCEPT ![c] = <<>>]
    /\ UNCHANGED <<serverVars, roots, happened, failures>>

(* zmq_ping(): one look for the answer, then a short sleep.                *)
ZmqPing(c) ==
    /\ client[c].pc = "ping"
    /\ IF answers[c] # <<>> THEN ExitWith(c, "ok")
       ELSE IF client[c].tries + 1 < MaxTries
       THEN Become(c, [client[c] EXCEPT !.tries = @ + 1])
       ELSE ExitWith(c, "failed")
    /\ answers' = [answers EXCEPT ![c] = <<>>]
    /\ UNCHANGED <<serverVars, roots, happened, failures>>

(* A program of another author sends its message and waits.                *)
RawSend(c, m) ==
    /\ client[c].pc = "ready"
    /\ SendRequest(c, m)
    /\ Become(c, [client[c] EXCEPT !.pc = "raw"])
    /\ UNCHANGED <<socket, zmq_mutex, server, roots, answers, happened, failures>>

RawReply(c) ==
    /\ client[c].pc = "raw" /\ answers[c] # <<>>
    /\ ExitWith(c, "ok")
    /\ answers' = [answers EXCEPT ![c] = <<>>]
    /\ UNCHANGED <<serverVars, roots, happened, failures>>

(* A waiting client is interrupted; its request may still be served.       *)
Interrupted(c) ==
    /\ Waits(c)
    /\ ExitWith(c, "interrupted")
    /\ \/ UNCHANGED inbox
       \/ \E i \in DOMAIN inbox : inbox[i].from = c /\ inbox' = RemoveAt(inbox, i)
    /\ answers' = [answers EXCEPT ![c] = <<>>]
    /\ UNCHANGED <<socket, zmq_mutex, server, roots, happened, failures>>

-----------------------------------------------------------------------------
ZmqInit ==
    /\ socket = [state |-> "recv", peer |-> NoClient]
    /\ inbox = <<>> /\ zmq_mutex = "free"
    /\ server = [pc |-> "poll", msg |-> {}]
    /\ \E S \in SUBSET Restored :
         roots = [p \in S |-> [destroy |-> FALSE, queue |-> 0,
                               max_events |-> DefaultMaxEvents, rewatch |-> TRUE]]
    /\ answers = [c \in Client |-> <<>>]
    /\ client = [c \in Client |-> NewClient]
    /\ happened = 0 /\ failures = 0

ClientStep(c) == GetReply(c) \/ ZmqPing(c) \/ RawReply(c)

ZmqNext ==
    \/ ServerStep \/ ServerDies
    \/ \E p \in DOMAIN roots : DestroyDone(p) \/ Enqueue(p)
    \/ \E c \in Client : \/ ClientStep(c) \/ Interrupted(c)
                         \/ \E cmd \in Commands : Begin(c, cmd)
                         \/ \E m \in RawMessages : RawSend(c, m)

ZmqSpec == ZmqInit /\ [][ZmqNext]_zmqVars

(* The daemon and every client that runs keep running.                     *)
ZmqFairness ==
    /\ WF_zmqVars(ServerStep)
    /\ \A c \in Client : WF_zmqVars(ClientStep(c))

ZmqFairSpec == ZmqSpec /\ ZmqFairness

-----------------------------------------------------------------------------
Running(c) == client[c].pc \in {"wait", "ping"}

(* The state is well formed: no queue shrinks below zero or outgrows the   *)
(* limit of its root, which may be negative; no client has more than one   *)
(* request under way.                                                      *)
ZmqTypeOK ==
    /\ socket \in [state : {"recv", "send"}, peer : Client \union {NoClient}]
    /\ socket.state = "recv" <=> socket.peer = NoClient
    /\ zmq_mutex \in {"free", "held"}
    /\ server.pc \in {"poll", "received", "dispatch", "stuck", "down"}
    /\ \A p \in DOMAIN roots : roots[p].queue \in {0} \union 1 .. roots[p].max_events
    /\ \A c \in Client : Len(answers[c]) <= 1
    /\ \A i, j \in DOMAIN inbox : inbox[i].from = inbox[j].from => i = j
    /\ happened \in 0 .. MaxEvents /\ failures \in 0 .. MaxFailures

(* Whatever message the server takes, it goes back to zmq_poll() with the  *)
(* message answered and zmq_mutex released: on every path through          *)
(* zmq_handle_event() and the handlers, unless the message was empty or    *)
(* memory ran out.                                                         *)
ReadyForNext ==
    [][/\ server.pc \in {"received", "dispatch"} /\ server'.pc = "poll"
       /\ Message.kind \notin {"empty", "nul"}
       /\ failures' = failures
       => socket'.state = "recv" /\ zmq_mutex' = "free"]_zmqVars

(* However many trailing slashes clients write, a root is registered under *)
(* the name without them.  (Slashes doubled inside a path stay.)           *)
RootsNormal == \A p \in DOMAIN roots : p = StripSlashes(p)

(* What a count asks for: 0 is all events (the manual), a negative one is   *)
(* invalid and takes none (the comment on request_get_count() and its      *)
(* warning "Value must be zero or greater"), and none given is a count of  *)
(* one, which only the code says.                                          *)
Asked(m, queue) ==
    LET n == IF m.count = {} THEN 1 ELSE TheValue(m.count)
    IN IF n < 0 THEN 0 ELSE IF n = 0 \/ n > queue THEN queue ELSE n

(* The count that request_get_count() cannot tell from none: by the rule   *)
(* above it asks for no event, and the code takes one.                     *)
MistakenForNone(m) == m.count = {-1}

(* Events leave a queue only by a call on its own root: by pause, which    *)
(* takes all, or by get_events, which takes as many as were asked for and  *)
(* none for an invalid count.  The count -1 is excepted, where the code    *)
(* breaks its own rule.                                                    *)
TakesAsAsked ==
    [][\A p \in DOMAIN roots \intersect DOMAIN roots' :
         roots'[p].queue < roots[p].queue =>
            /\ server.pc = "dispatch"
            /\ StripSlashes(TheValue(Message.path)) = p
            /\ \/ Message.call = {"pause"} /\ roots'[p].queue = 0
               \/ /\ Message.call = {"get_events"}
                  /\ \/ MistakenForNone(Message)
                     \/ roots[p].queue - roots'[p].queue
                            = Asked(Message, roots[p].queue)]_zmqVars

(* The socket is left in a state in which it never receives again.         *)
Deaf ==
    \/ server.pc = "stuck"
    \/ server.pc = "poll" /\ (socket.state = "send" \/ zmq_mutex = "held")

(* Every command of inotispyctl ends, its requests all answered, whatever  *)
(* other clients send and whether or not they wait for their answers,      *)
(* unless the server has gone deaf or is down.                             *)
CommandEnds ==
    \A c \in Client :
        Running(c) ~> ~Running(c) \/ Deaf \/ server.pc = "down"

(* ping ends even then.                                                    *)
PingEnds == \A c \in Client : client[c].pc = "ping" ~> client[c].pc # "ping"

(* No message makes the server deaf to the others.                         *)
NeverDeaf ==
    \A c \in Client : Running(c) ~> ~Running(c) \/ server.pc = "down"

=============================================================================
