------------------------------ MODULE ZmqProofs ------------------------------
(***************************************************************************)
(* The ZeroMQ server and its clients: the names of roots, the requests     *)
(* under way, what get_events takes, and the state of the socket.          *)
(***************************************************************************)
EXTENDS Inotispyctl, WellFoundedInduction, NaturalsInduction, SequenceTheorems, TLAPS

Word == Seq(STRING)

-----------------------------------------------------------------------------
(* Paths and their trailing slashes.                                       *)

(* A path without a trailing slash; "/" and the empty string pass for such.*)
Bare(p) == p = <<"">> \/ p = <<>> \/ p[Len(p)] # ""

(* A set of positions in a sequence has a last one.                        *)
LEMMA LastPosition ==
    ASSUME NEW n \in Nat, NEW S \in SUBSET (1 .. n), S # {}
    PROVE  \E i \in S : \A j \in S : j <= i
<1> PICK T : T = {n - i : i \in S}
  OBVIOUS
<1>1. T \subseteq Nat /\ T # {}
  <2>1. \A i \in S : n - i \in Nat
    OBVIOUS
  <2>2. \A x \in T : x \in Nat
    BY <2>1
  <2>3. PICK i \in S : TRUE
    OBVIOUS
  <2>4. n - i \in T
    OBVIOUS
  <2> QED
    BY <2>2, <2>4
<1>2. PICK k \in T : \A j \in T : ~(<<j, k>> \in OpToRel(<, Nat))
  BY <1>1, WFMin, NatLessThanWellFounded, Zenon
<1>3. \A j \in T : ~(j < k)
  BY <1>1, <1>2 DEF OpToRel
<1>4. PICK i \in S : k = n - i
  OBVIOUS
<1>5. \A j \in S : ~(n - j < n - i)
  BY <1>3, <1>4
<1> QED
  BY <1>5

(* What is left without its trailing slashes has none.                     *)
LEMMA StripLeavesBare ==
    ASSUME NEW S, NEW p \in Seq(S)
    PROVE  StripSlashes(p) \in Seq(S) /\ Bare(StripSlashes(p))
<1> PICK n \in Nat : n = Len(p)
  OBVIOUS
<1>0. DOMAIN p = 1 .. n /\ \A i \in 1 .. n : p[i] \in S
  BY ElementOfSeq
<1>1. CASE p = <<"">>
  <2>1. StripSlashes(p) = p /\ Bare(p)
    BY <1>1 DEF StripSlashes, Bare
  <2> QED
    BY <2>1
<1> DEFINE named == {i \in DOMAIN p : p[i] # ""}
<1>2. CASE p # <<"">> /\ named = {}
  <2>1. StripSlashes(p) = <<>>
    BY <1>2 DEF StripSlashes
  <2>2. <<>> \in Seq(S) /\ Bare(<<>>)
    BY DEF Bare
  <2> QED
    BY <2>1, <2>2
<1>3. CASE p # <<"">> /\ named # {}
  <2>1. named \in SUBSET (1 .. n)
    BY <1>0
  <2>2. \E i \in named : \A j \in named : j <= i
    BY <1>3, <2>1, LastPosition
  <2>3. (CHOOSE i \in named : \A j \in named : j <= i) \in named
    BY <2>2
  <2>4. PICK k \in 1 .. n : k = (CHOOSE i \in named : \A j \in named : j <= i) /\ p[k] # ""
    BY <2>1, <2>3
  <2>5. StripSlashes(p) = SubSeq(p, 1, k)
    BY <1>3, <2>4 DEF StripSlashes
  <2> HIDE DEF named
  <2> PICK s : s = SubSeq(p, 1, k)
    OBVIOUS
  <2>6. k \in Int /\ 1 <= k /\ \A i \in 1 .. k : p[i] \in S
    BY <1>0
  <2>7. s \in Seq(S) /\ Len(s) = k /\ \A i \in 1 .. k : s[i] = p[i]
    BY <2>6, SubSeqProperties
  <2>8. s[Len(s)] # ""
    <3>1. s[k] = p[k]
      BY <2>6, <2>7
    <3> QED
      BY <2>4, <2>7, <3>1
  <2> QED
    BY <2>5, <2>7, <2>8 DEF Bare
<1> QED
  BY <1>1, <1>2, <1>3

(* A path without trailing slashes is left alone, by the parser and by     *)
(* inotify_watch_tree().                                                   *)
LEMMA BareStays ==
    ASSUME NEW S, NEW p \in Seq(S), Bare(p)
    PROVE  StripSlashes(p) = p /\ StripOneSlash(p) = p
<1> PICK n \in Nat : n = Len(p)
  OBVIOUS
<1>0. DOMAIN p = 1 .. n
  OBVIOUS
<1>1. CASE p = <<"">>
  BY <1>1 DEF StripSlashes, StripOneSlash
<1>2. CASE p = <<>>
  <2>1. p # <<"">> /\ DOMAIN p = {}
    BY <1>2
  <2>2. {i \in DOMAIN p : p[i] # ""} = {}
    BY <2>1
  <2> QED
    BY <1>2, <2>1, <2>2 DEF StripSlashes, StripOneSlash
<1>3. CASE p # <<"">> /\ p # <<>> /\ p[n] # ""
  <2>0. Len(p) \in Nat \ {0}
    BY <1>3, EmptySeq
  <2>1. n \in 1 .. n
    BY <2>0
  <2> DEFINE named == {i \in DOMAIN p : p[i] # ""}
  <2>2. n \in named /\ \A j \in named : j <= n /\ j \in Nat
    <3>1. n \in named
      BY <1>0, <1>3, <2>1
    <3>2. \A j \in 1 .. n : j <= n /\ j \in Nat
      OBVIOUS
    <3> QED
      BY <1>0, <3>1, <3>2
  <2>3. /\ (CHOOSE i \in named : \A j \in named : j <= i) \in named
        /\ \A j \in named : j <= (CHOOSE i \in named : \A j_1 \in named : j_1 <= i)
    BY <2>2
  <2>4. PICK k \in Nat : k = CHOOSE i \in named : \A j \in named : j <= i
    BY <2>2, <2>3
  <2>5. k <= n /\ n <= k
    BY <2>2, <2>3, <2>4
  <2>6. StripSlashes(p) = SubSeq(p, 1, n)
    <3>1. k = n
      BY <2>5
    <3>2. named # {}
      BY <2>2
    <3>3. StripSlashes(p) = SubSeq(p, 1, k)
      BY <1>3, <2>4, <3>2, Zenon DEF StripSlashes
    <3> QED
      BY <3>1, <3>3
  <2>7. SubSeq(p, 1, n) = p
    BY SubSeqFull
  <2> QED
    BY <1>3, <2>6, <2>7 DEF StripOneSlash
<1> QED
  BY <1>1, <1>2, <1>3 DEF Bare

(* Two parts of a sequence without the element between them.               *)
LEMMA Spliced ==
    ASSUME NEW S, NEW s \in Seq(S), NEW l \in Nat, NEW r \in Nat, Len(s) = l + 1 + r,
           NEW a, NEW b, NEW c,
           Len(a) = l, \A j \in 1 .. l : a[j] = s[j],
           Len(b) = r, \A j \in 1 .. r : b[j] = s[l + 1 + j],
           c \in Seq(S), Len(c) = Len(a) + Len(b),
           \A j \in 1 .. Len(a) + Len(b) : c[j] = IF j <= Len(a) THEN a[j] ELSE b[j - Len(a)]
    PROVE  \A j \in DOMAIN c : \E k \in DOMAIN s : c[j] = s[k] /\ k = (IF j <= l THEN j ELSE j + 1)
<1>1. DOMAIN c = 1 .. l + r /\ DOMAIN s = 1 .. l + 1 + r
  OBVIOUS
<1> SUFFICES ASSUME NEW j \in 1 .. l + r
             PROVE  \E k \in 1 .. l + 1 + r : c[j] = s[k] /\ k = (IF j <= l THEN j ELSE j + 1)
  BY <1>1
<1>2. CASE j <= l
  BY <1>2
<1>3. CASE ~(j <= l)
  <2>1. j - l \in 1 .. r /\ l + 1 + (j - l) = j + 1
    BY <1>3
  <2>2. c[j] = b[j - l] /\ b[j - l] = s[l + 1 + (j - l)]
    BY <1>3, <2>1
  <2> QED
    BY <1>3, <2>1, <2>2
<1> QED
  BY <1>2, <1>3

(* A message is taken out of the inbox: the others stay, in their order.   *)
LEMMA RemoveAtIs ==
    ASSUME NEW S, NEW s \in Seq(S), NEW i \in DOMAIN s
    PROVE  /\ RemoveAt(s, i) \in Seq(S)
           /\ \A j \in DOMAIN RemoveAt(s, i) :
                \E k \in DOMAIN s : RemoveAt(s, i)[j] = s[k] /\ k = (IF j < i THEN j ELSE j + 1)
<1>0. Len(s) \in Nat /\ DOMAIN s = 1 .. Len(s) /\ \A k \in 1 .. Len(s) : s[k] \in S
  BY ElementOfSeq
<1>1. PICK l \in Nat : i = l + 1
  <2>1. i \in Nat /\ i >= 1
    BY <1>0
  <2>2. i - 1 \in Nat /\ i = (i - 1) + 1
    BY <2>1
  <2> QED
    BY <2>2
<1>2. PICK r \in Nat : Len(s) = l + 1 + r
  <2>1. Len(s) >= l + 1
    BY <1>0, <1>1
  <2>2. Len(s) - (l + 1) \in Nat /\ Len(s) = l + 1 + (Len(s) - (l + 1))
    BY <1>0, <2>1
  <2> QED
    BY <2>2
<1>3. i - 1 = l /\ i + 1 = l + 2 /\ l + 2 \in Int /\ Len(s) \in Int
  BY <1>0, <1>1
<1>4. /\ SubSeq(s, 1, l) \in Seq(S) /\ Len(SubSeq(s, 1, l)) = l
      /\ \A j \in 1 .. l : SubSeq(s, 1, l)[j] = s[j]
  <2>1. \A k \in 1 .. l : s[k] \in S
    BY <1>0, <1>2
  <2> QED
    BY <2>1, SubSeqProperties
<1>5. /\ SubSeq(s, l + 2, Len(s)) \in Seq(S) /\ Len(SubSeq(s, l + 2, Len(s))) = r
      /\ \A j \in 1 .. r : SubSeq(s, l + 2, Len(s))[j] = s[l + 1 + j]
  <2> PICK m \in Int : m = l + 2
    BY <1>3
  <2> PICK n \in Int : n = Len(s)
    BY <1>3
  <2>1. \A k \in m .. n : s[k] \in S
    BY <1>0
  <2>2. /\ SubSeq(s, m, n) \in Seq(S)
        /\ Len(SubSeq(s, m, n)) = (IF m <= n THEN n - m + 1 ELSE 0)
        /\ \A j \in 1 .. n - m + 1 : SubSeq(s, m, n)[j] = s[m + j - 1]
    BY <2>1, SubSeqProperties
  <2>3. n - m + 1 = r /\ (m <= n <=> r # 0) /\ \A j \in 1 .. r : m + j - 1 = l + 1 + j
    BY <1>2
  <2> QED
    BY <2>2, <2>3
<1>6. RemoveAt(s, i) = SubSeq(s, 1, l) \o SubSeq(s, l + 2, Len(s))
  BY <1>3, Zenon DEF RemoveAt
<1> DEFINE a == SubSeq(s, 1, l)
           b == SubSeq(s, l + 2, Len(s))
<1> HIDE DEF a, b
<1>7. /\ a \in Seq(S) /\ Len(a) = l /\ \A j \in 1 .. l : a[j] = s[j]
      /\ b \in Seq(S) /\ Len(b) = r /\ \A j \in 1 .. r : b[j] = s[l + 1 + j]
  BY <1>4, <1>5 DEF a, b
<1>8. /\ a \o b \in Seq(S) /\ Len(a \o b) = Len(a) + Len(b)
      /\ \A j \in 1 .. Len(a) + Len(b) : (a \o b)[j] =
            IF j <= Len(a) THEN a[j] ELSE b[j - Len(a)]
  BY <1>7, ConcatProperties
<1> DEFINE c == a \o b
<1> HIDE DEF c
<1>9. \A j \in DOMAIN c : \E k \in DOMAIN s : c[j] = s[k] /\ k = (IF j <= l THEN j ELSE j + 1)
  <2>1. /\ c \in Seq(S) /\ Len(c) = Len(a) + Len(b)
        /\ \A j \in 1 .. Len(a) + Len(b) : c[j] = IF j <= Len(a) THEN a[j] ELSE b[j - Len(a)]
    BY <1>8 DEF c
  <2> QED
    BY <1>2, <1>7, <2>1, Spliced
<1>10. \A j \in DOMAIN c : j <= l <=> j < i
  <2>1. c \in Seq(S)
    BY <1>8 DEF c
  <2>2. \A j \in Nat : j <= l <=> j < l + 1
    OBVIOUS
  <2>3. \A j \in DOMAIN c : j \in Nat
    BY <2>1
  <2> QED
    BY <1>1, <2>2, <2>3
<1>11. RemoveAt(s, i) = c
  BY <1>6, Zenon DEF a, b, c
<1>12. c \in Seq(S)
  BY <1>8 DEF c
<1> QED
  BY <1>9, <1>10, <1>11, <1>12

-----------------------------------------------------------------------------
(* The messages under way.                                                 *)

(* What a client sends.                                                    *)
Sent ==
    RawMessages \union {FirstRequest(cmd) : cmd \in Commands}
    \union {CallPath("get_queue_size", p) : p \in Word}

(* The fields that the server reads have one value at most, of their type. *)
Readable(m) ==
    /\ \A v, w \in m.call : v = w
    /\ Field(m.path, Word) /\ Field(m.max_events, Int) /\ Field(m.count, Int)

(* Nothing else is ever sent.                                              *)
LEMMA SentReadable == \A m \in Sent : Readable(m)
<1>0. \A S : Field({}, S) /\ \A v \in S : Field({v}, S)
  BY DEF Field
<1>1. \A m \in RawMessages : Readable(m)
  BY CtlAssumptions DEF Readable, Word, Field
<1>2. \A c : Readable(Call(c))
  <2> TAKE c
  <2>1. Call(c).call = {c} /\ Call(c).path = {} /\ Call(c).max_events = {} /\ Call(c).count = {}
    BY DEF Call, Blank
  <2> QED
    BY <1>0, <2>1, Zenon DEF Readable
<1>3. \A p \in Word : \A c : Readable(CallPath(c, p))
  <2> TAKE p \in Word
  <2> TAKE c
  <2>1. /\ CallPath(c, p).call = {c} /\ CallPath(c, p).path = {p}
        /\ CallPath(c, p).max_events = {} /\ CallPath(c, p).count = {}
    BY DEF CallPath, Call, Blank
  <2> QED
    BY <1>0, <2>1, Zenon DEF Readable
<1>4. \A p \in Word, n \in Int : Readable(GetEvents(p, n))
  <2> TAKE p \in Word, n \in Int
  <2>1. /\ GetEvents(p, n).call = {"get_events"} /\ GetEvents(p, n).path = {p}
        /\ GetEvents(p, n).max_events = {} /\ GetEvents(p, n).count = {n}
    BY DEF GetEvents, CallPath, Call, Blank
  <2> QED
    BY <1>0, <2>1, Zenon DEF Readable
<1>5. \A cmd \in Commands : Readable(FirstRequest(cmd))
  <2> TAKE cmd \in Commands
  <2>1. cmd.path \in Word /\ cmd.count \in Int /\ 0 \in Int
    BY CtlAssumptions DEF Word
  <2>3. CASE cmd.name \in {"ping", "status"}
    BY <1>2, <2>3 DEF FirstRequest
  <2>4. CASE cmd.name \in {"list_roots", "list_queues"}
    BY <1>2, <2>4 DEF FirstRequest
  <2>5. CASE cmd.name = "queue_size"
    BY <1>3, <2>1, <2>5 DEF FirstRequest
  <2>6. CASE cmd.name = "flush_queue"
    BY <1>4, <2>1, <2>6 DEF FirstRequest
  <2>7. CASE cmd.name = "get_events"
    BY <1>4, <2>1, <2>7 DEF FirstRequest
  <2>8. CASE cmd.name \notin {"ping", "status", "list_roots", "list_queues", "queue_size",
                              "flush_queue", "get_events"}
    BY <1>3, <2>1, <2>8 DEF FirstRequest
  <2> QED
    BY <2>3, <2>4, <2>5, <2>6, <2>7, <2>8
<1> QED
  BY <1>1, <1>3, <1>5 DEF Sent

-----------------------------------------------------------------------------
(* The inductive invariant.                                                *)

RootType == [destroy : BOOLEAN, queue : Nat, max_events : Int, rewatch : BOOLEAN]
Codes ==
    {"none", "memory", "json_invalid", "json_parse", "not_absolute", "key_not_found",
     "already_watched", "does_not_exist", "not_watched", "being_destroyed",
     "invalid_count", "bad_call"}
AnswerType ==
    [kind : {"error", "success", "data", "pong"}, code : Codes, value : SUBSET Word]
ClientType ==
    [pc : {"ready", "wait", "ping", "raw", "done"}, cmd : Commands \union {NoCommand},
     todo : SUBSET Word, tries : Nat, status : {"none", "ok", "failed", "interrupted"}]
SocketType == [state : {"recv", "send"}, peer : Client \union {NoClient}]
ServerType == [pc : {"poll", "received", "dispatch", "stuck", "down"}, msg : SUBSET Sent]
Mail == [from : Client, msg : Sent]

(* The socket, the server and the clients.  The server has a message in    *)
(* hand until it is back in zmq_poll().                                    *)
WireInv ==
    /\ socket \in SocketType /\ (socket.state = "recv" <=> socket.peer = NoClient)
    /\ inbox \in Seq(Mail) /\ zmq_mutex \in {"free", "held"}
    /\ server \in ServerType
    /\ server.pc \in {"received", "dispatch"} => \E m \in Sent : server.msg = {m}
    /\ server.pc = "dispatch" => Message.call # {}
    /\ answers \in [Client -> Seq(AnswerType)] /\ client \in [Client -> ClientType]
    /\ happened \in 0 .. MaxEvents /\ failures \in 0 .. MaxFailures

(* The roots have names without trailing slashes, and their queues fit.    *)
RootInv ==
    /\ roots \in [DOMAIN roots -> RootType]
    /\ \A p \in DOMAIN roots :
         p \in Word /\ Bare(p) /\ roots[p].queue \in {0} \union 1 .. roots[p].max_events

(* Nothing of client c is in the socket.                                   *)
NoMail(c) == socket.peer # c /\ \A i \in DOMAIN inbox : inbox[i].from # c

(* A client has one request under way at most: in the inbox, in the hands  *)
(* of the server, or answered.                                             *)
SingleInv ==
    /\ \A c \in Client :
         /\ client[c].pc = "ready" => answers[c] = <<>> /\ NoMail(c)
         /\ answers[c] # <<>> => Len(answers[c]) = 1 /\ NoMail(c)
    /\ \A i \in DOMAIN inbox : inbox[i].from # socket.peer
    /\ \A i, j \in DOMAIN inbox : inbox[i].from = inbox[j].from => i = j

ZmqInv == WireInv /\ RootInv /\ SingleInv

(* The value of a field with one value.                                    *)
LEMMA TheValueIs ==
    ASSUME NEW f, f # {}, \A v, w \in f : v = w
    PROVE  f = {TheValue(f)} /\ TheValue(f) \in f
  BY DEF TheValue

(* The message in hand.                                                    *)
LEMMA MessageIs ==
    ASSUME WireInv, server.pc \in {"received", "dispatch"}
    PROVE  Message \in Sent /\ server.msg = {Message} /\ Readable(Message)
<1>1. PICK m \in Sent : server.msg = {m}
  BY DEF WireInv
<1>2. Message = m
  BY <1>1 DEF Message, TheValue
<1> QED
  BY <1>1, <1>2, SentReadable

(* zmq_send() on the REP socket.                                           *)
LEMMA SendIs ==
    ASSUME WireInv, NEW a \in AnswerType, Send(a)
    PROVE  /\ socket' \in SocketType /\ socket'.state = "recv" /\ socket'.peer = NoClient
           /\ answers' \in [Client -> Seq(AnswerType)]
           /\ \A c \in Client : \/ answers'[c] = answers[c]
                                \/ c = socket.peer /\ answers'[c] = Append(answers[c], a)
<1>1. /\ socket \in SocketType /\ (socket.state = "recv" <=> socket.peer = NoClient)
      /\ answers \in [Client -> Seq(AnswerType)]
  BY DEF WireInv
<1>2. CASE socket.state = "recv"
  BY <1>1, <1>2 DEF Send
<1>3. CASE socket.state # "recv"
  <2>1. socket' = [state |-> "recv", peer |-> NoClient] /\ socket.peer \in Client
    BY <1>1, <1>3 DEF Send, SocketType
  <2>2. Append(answers[socket.peer], a) \in Seq(AnswerType)
    BY <1>1, <2>1, AppendProperties
  <2>3. \/ answers' = answers
        \/ answers' = [answers EXCEPT ![socket.peer] = Append(answers[socket.peer], a)]
    BY <1>3 DEF Send
  <2> QED
    BY <1>1, <2>1, <2>2, <2>3 DEF SocketType
<1> QED
  BY <1>2, <1>3

(* reply_send_message(): the answer is sent, or memory ran out.            *)
LEMMA ReplySendIs ==
    ASSUME WireInv, NEW a \in AnswerType, ReplySend(a)
    PROVE  /\ \/ Send(a) /\ failures' = failures
              \/ UNCHANGED <<socket, answers>> /\ failures' = failures + 1
           /\ failures' \in 0 .. MaxFailures
<1>0. MaxFailures \in Nat
  BY ZmqAssumptions
<1>1. failures \in 0 .. MaxFailures
  BY DEF WireInv
<1>2. CASE Send(a) /\ UNCHANGED failures
  BY <1>1, <1>2
<1>3. CASE Fail /\ UNCHANGED <<socket, answers>>
  <2>1. failures < MaxFailures /\ failures' = failures + 1
    BY <1>3 DEF Fail
  <2>2. failures' \in 0 .. MaxFailures
    BY <1>0, <1>1, <2>1
  <2> QED
    BY <1>3, <2>1, <2>2
<1> QED
  BY <1>2, <1>3 DEF ReplySend

(* The fields of a root, and a root with one of them changed.              *)
LEMMA RootFields ==
    ASSUME NEW r \in RootType
    PROVE  /\ r.queue \in Nat /\ r.max_events \in Int
           /\ \A n \in Nat : /\ [r EXCEPT !.queue = n] \in RootType
                             /\ [r EXCEPT !.queue = n].queue = n
                             /\ [r EXCEPT !.queue = n].max_events = r.max_events
           /\ [r EXCEPT !.destroy = TRUE] \in RootType
           /\ [r EXCEPT !.destroy = TRUE].queue = r.queue
           /\ [r EXCEPT !.destroy = TRUE].max_events = r.max_events
  BY Zenon DEF RootType

(* zmq_dispatch_event() answers, and does at most one thing to the roots:  *)
(* it adds one under a name without trailing slashes, marks one for        *)
(* destruction, or takes events out of the queue of one.                   *)
Taken(m, p, n) ==
    /\ p = StripSlashes(TheValue(m.path))
    /\ n <= roots[p].queue
    /\ \/ m.call = {"pause"} /\ n = 0
       \/ /\ m.call = {"get_events"}
          /\ MistakenForNone(m) \/ roots[p].queue - n = Asked(m, roots[p].queue)

(* What one call of the dispatch does, to the answers and to the roots.    *)
LEMMA DispatchIs ==
    ASSUME WireInv, RootInv, Dispatch
    PROVE  /\ \E a \in AnswerType : ReplySend(a)
           /\ \/ roots' = roots
              \/ \E p \in Word, x \in RootType :
                   Bare(p) /\ p \notin DOMAIN roots /\ x.queue = 0 /\ roots' = With(p, x)
              \/ \E p \in DOMAIN roots : roots' = [roots EXCEPT ![p].destroy = TRUE]
              \/ \E p \in DOMAIN roots, n \in Nat :
                   Taken(Message, p, n) /\ roots' = [roots EXCEPT ![p].queue = n]
<1> DEFINE m == Message
           r == ParseRequest(m)
<1>0. server.pc = "dispatch" /\ m.call # {}
  BY DEF Dispatch, WireInv
<1>1. Readable(m)
  BY <1>0, MessageIs
<1>2. /\ r.call = GetCall(m) /\ r.path = GetPath(m) /\ r.max_events = GetMaxEvents(m)
      /\ r.rewatch = GetRewatch(m) /\ r.count = GetCount(m)
  BY DEF ParseRequest
<1>3. \A v \in KnownCalls : GetCall(m) = v => m.call = {v}
  <2>1. m.call = {TheValue(m.call)}
    BY <1>0, <1>1, TheValueIs DEF Readable
  <2> QED
    BY <2>1 DEF GetCall, KnownCalls
<1>4. /\ \A code \in Codes : Error(code) \in AnswerType
      /\ Success \in AnswerType /\ Reply("pong", "none", {}) \in AnswerType
      /\ \A v \in SUBSET Word : Data(v) \in AnswerType
  BY DEF Error, Success, Reply, Data, AnswerType, Codes
<1>5. DOMAIN roots \in SUBSET Word /\ {} \in SUBSET Word
  BY DEF RootInv
<1> HIDE DEF m, r
<1>6. CASE NeedsPath(r.call) /\ MissingPath(r) # "none"
  <2>1. MissingPath(r) \in Codes
    BY DEF MissingPath, Codes
  <2>2. ReplySend(Error(MissingPath(r))) /\ UNCHANGED roots
    BY <1>6 DEF Dispatch, m, r
  <2> QED
    BY <1>4, <2>1, <2>2
<1>7. CASE ~(NeedsPath(r.call) /\ MissingPath(r) # "none")
  <2>0. \/ r.call = "watch"   /\ DoWatch(r)
        \/ r.call = "unwatch" /\ DoUnwatch(r)
        \/ NeedsPath(r.call) /\ r.call \notin {"watch", "unwatch"} /\ DoOnRoot(r)
        \/ ~NeedsPath(r.call) /\ DoQuery(r)
    BY <1>7 DEF Dispatch, m, r
  <2>1. ASSUME NeedsPath(r.call)
        PROVE  r.path \in Word /\ Bare(r.path) /\ r.path = StripSlashes(TheValue(m.path))
    <3>1. m.path # {}
      BY <1>7, <2>1 DEF MissingPath, m
    <3>2. TheValue(m.path) \in Word
      BY <1>1, <3>1, TheValueIs DEF Readable, Field
    <3>3. r.path = StripSlashes(TheValue(m.path))
      BY <1>2, <3>1 DEF GetPath
    <3> QED
      BY <3>2, <3>3, StripLeavesBare DEF Word
  <2>2. CASE r.call = "watch" /\ DoWatch(r)
    <3>1. r.path \in Word /\ Bare(r.path)
      BY <2>1, <2>2 DEF NeedsPath
    <3>2. StripOneSlash(r.path) = r.path
      BY <3>1, BareStays DEF Word
    <3> PICK x : x = [destroy |-> FALSE, queue |-> 0, max_events |-> r.max_events,
                      rewatch |-> r.rewatch]
      OBVIOUS
    <3>3. r.max_events \in Int
      <4>1. GetKeyInt(m.max_events) \in Int
        BY <1>1, TheValueIs DEF GetKeyInt, Readable, Field
      <4> QED
        BY <1>2, <4>1, CtlAssumptions DEF GetMaxEvents
    <3>4. r.rewatch \in BOOLEAN
      BY <1>2 DEF GetRewatch
    <3>5. x \in RootType /\ x.queue = 0
      <4>1. FALSE \in BOOLEAN /\ 0 \in Nat
        OBVIOUS
      <4> QED
        BY <3>3, <3>4, <4>1, Zenon DEF RootType
    <3>6. \/ \E code \in Codes : ReplySend(Error(code)) /\ UNCHANGED roots
          \/ r.path \notin DOMAIN roots /\ roots' = With(r.path, x) /\ ReplySend(Success)
      BY <2>2, <3>2 DEF DoWatch, IsRoot, Codes
    <3> QED
      BY <1>4, <3>1, <3>5, <3>6
  <2>3. CASE r.call = "unwatch" /\ DoUnwatch(r)
    <3> PICK p : p = StripOneSlash(r.path)
      OBVIOUS
    <3>1. \/ \E code \in Codes : ReplySend(Error(code)) /\ UNCHANGED roots
          \/ /\ p \in DOMAIN roots /\ roots' = [roots EXCEPT ![p].destroy = TRUE]
             /\ ReplySend(Success)
      BY <2>3 DEF DoUnwatch, IsRoot, Codes
    <3> QED
      BY <1>4, <3>1
  <2>4. CASE NeedsPath(r.call) /\ r.call \notin {"watch", "unwatch"} /\ DoOnRoot(r)
    <3> PICK p : p = r.path
      OBVIOUS
    <3>1. p = StripSlashes(TheValue(m.path))
      BY <2>1, <2>4
    <3>2. \/ \E a \in AnswerType : ReplySend(a) /\ UNCHANGED roots
          \/ /\ r.call = "pause" /\ p \in DOMAIN roots
             /\ roots' = [roots EXCEPT ![p].queue = 0] /\ ReplySend(Success)
          \/ /\ r.call = "get_events" /\ r.count # -1 /\ p \in DOMAIN roots
             /\ roots' = [roots EXCEPT ![p].queue = @ - Dequeued(@, r.count)]
             /\ ReplySend(Data({}))
      BY <1>4, <1>5, <2>4 DEF DoOnRoot, IsRoot, Codes
    <3>3. p \in DOMAIN roots => roots[p].queue \in Nat
      BY RootFields DEF RootInv
    <3>4. CASE /\ r.call = "pause" /\ p \in DOMAIN roots
               /\ roots' = [roots EXCEPT ![p].queue = 0] /\ ReplySend(Success)
      <4>1. Taken(m, p, 0)
        BY <1>2, <1>3, <3>1, <3>3, <3>4 DEF Taken, KnownCalls
      <4> QED
        BY <1>4, <3>4, <4>1 DEF m
    <3>5. CASE /\ r.call = "get_events" /\ r.count # -1 /\ p \in DOMAIN roots
               /\ roots' = [roots EXCEPT ![p].queue = @ - Dequeued(@, r.count)]
               /\ ReplySend(Data({}))
      <4> PICK q \in Nat : q = roots[p].queue
        BY <3>3, <3>5
      <4>1. GetCount(m) # -1 /\ m.call = {"get_events"}
        BY <1>2, <1>3, <3>5 DEF KnownCalls
      <4>2. /\ GetCount(m) \in Nat
            /\ MistakenForNone(m) \/ Dequeued(q, GetCount(m)) = Asked(m, q)
        <5>1. CASE m.count = {}
          BY <5>1 DEF GetCount, GetKeyInt, Dequeued, Asked
        <5>2. CASE m.count # {}
          <6>1. PICK v \in Int : m.count = {v} /\ TheValue(m.count) = v
            BY <1>1, <5>2, TheValueIs DEF Readable, Field
          <6>2. GetKeyInt(m.count) = v
            BY <5>2, <6>1 DEF GetKeyInt
          <6>3. CASE v = -1
            <7>1. m.count = {-1} /\ GetCount(m) = 1
              BY <6>1, <6>2, <6>3 DEF GetCount
            <7> QED
              BY <7>1 DEF MistakenForNone
          <6>4. CASE v # -1
            <7>1. v >= 0 /\ GetCount(m) = v
              BY <4>1, <6>2, <6>4 DEF GetCount
            <7>2. m.count # {}
              BY <5>2
            <7> QED
              BY <6>1, <7>1, <7>2 DEF Dequeued, Asked
          <6> QED
            BY <6>3, <6>4
        <5> QED
          BY <5>1, <5>2
      <4> PICK d : d = Dequeued(q, GetCount(m))
        OBVIOUS
      <4>3. d \in Nat /\ d <= q
        BY <4>2 DEF Dequeued
      <4> PICK n \in Nat : n = q - d
        BY <4>3
      <4>4. n <= q /\ (MistakenForNone(m) \/ q - n = Asked(m, q))
        BY <4>2, <4>3
      <4>5. Taken(m, p, n)
        BY <3>1, <4>1, <4>4 DEF Taken
      <4>6. roots' = [roots EXCEPT ![p].queue = n]
        <5>1. roots' = [roots EXCEPT ![p].queue = roots[p].queue - Dequeued(roots[p].queue, r.count)]
          BY <3>5
        <5> QED
          BY <1>2, <5>1
      <4> QED
        BY <1>4, <1>5, <3>5, <4>5, <4>6 DEF m
    <3> QED
      BY <3>2, <3>4, <3>5
  <2>5. CASE ~NeedsPath(r.call) /\ DoQuery(r)
    <3>1. \E a \in AnswerType : ReplySend(a)
      BY <1>4, <1>5, <2>5 DEF DoQuery, Codes
    <3> QED
      BY <2>5, <3>1 DEF DoQuery
  <2> QED
    BY <2>0, <2>2, <2>3, <2>4, <2>5
<1> QED
  BY <1>6, <1>7

(* An answer is sent, or not for want of memory.                           *)
LEMMA AnswerSteps ==
    ASSUME WireInv, RootInv, NoMemory \/ RefuseMessage \/ Dispatch
    PROVE  /\ \/ UNCHANGED <<socket, answers>> /\ failures' # failures
              \/ \E a \in AnswerType : Send(a)
           /\ failures' \in 0 .. MaxFailures
           /\ server' = [pc |-> "poll", msg |-> {}]
           /\ zmq_mutex' \in {"free", "held"}
           /\ failures' = failures => zmq_mutex' = "free"
           /\ UNCHANGED <<inbox, client, happened>>
<1>0. failures \in 0 .. MaxFailures /\ zmq_mutex \in {"free", "held"}
  BY DEF WireInv
<1>a. MaxFailures \in Nat
  BY ZmqAssumptions
<1>b. failures + 1 # failures
  BY <1>0, <1>a
<1>1. \A code \in Codes : Error(code) \in AnswerType
  BY DEF Error, Reply, AnswerType
<1>2. ASSUME NEW a \in AnswerType, ReplySend(a)
      PROVE  /\ \/ UNCHANGED <<socket, answers>> /\ failures' # failures
                \/ \E b \in AnswerType : Send(b)
             /\ failures' \in 0 .. MaxFailures
  BY <1>b, <1>2, ReplySendIs
<1>3. CASE NoMemory
  <2>1. failures' = failures + 1 /\ failures < MaxFailures
    BY <1>3 DEF NoMemory, Fail
  <2>2. failures' \in 0 .. MaxFailures
    BY <1>0, <1>a, <2>1
  <2>3. Error("memory") \in AnswerType
    BY <1>1 DEF Codes
  <2>4. Send(Error("memory")) /\ ToPoll /\ UNCHANGED <<inbox, zmq_mutex, client, happened>>
    BY <1>3 DEF NoMemory
  <2> QED
    BY <1>0, <1>b, <2>1, <2>2, <2>3, <2>4 DEF ToPoll
<1>4. CASE RefuseMessage
  <2>1. \E code \in Codes : Refuse(code)
    BY <1>4 DEF RefuseMessage, Codes
  <2>2. PICK code \in Codes : Refuse(code)
    BY <2>1
  <2>3. ReplySend(Error(code)) /\ zmq_mutex' = "free" /\ ToPoll
    BY <2>2 DEF Refuse
  <2> QED
    BY <1>1, <1>2, <1>4, <2>3 DEF RefuseMessage, ToPoll
<1>5. CASE Dispatch
  <2>1. PICK a \in AnswerType : ReplySend(a)
    BY <1>5, DispatchIs
  <2>2. ToPoll /\ zmq_mutex' = "free" /\ UNCHANGED <<inbox, client, happened>>
    BY <1>5 DEF Dispatch
  <2> QED
    BY <1>2, <2>1, <2>2 DEF ToPoll
<1> QED
  BY <1>3, <1>4, <1>5

(* What the actions of a client do: it has sent a request, or it goes on   *)
(* without the answers it had.                                             *)
Sends(c, m) ==
    /\ NoMail(c) /\ answers'[c] = <<>>
    /\ inbox' = IF server.pc = "down" THEN inbox ELSE Append(inbox, [from |-> c, msg |-> m])

ClientEffect(c) ==
    /\ \E x \in ClientType : x.pc # "ready" /\ client' = [client EXCEPT ![c] = x]
    /\ answers' \in [Client -> Seq(AnswerType)]
    /\ \A d \in Client \ {c} : answers'[d] = answers[d]
    /\ \/ \E m \in Sent : Sends(c, m)
       \/ answers'[c] = <<>> /\ UNCHANGED inbox
       \/ /\ answers'[c] = <<>>
          /\ \E i \in DOMAIN inbox : inbox' = RemoveAt(inbox, i)

Acts(c) ==
    \/ ClientStep(c) \/ Interrupted(c)
    \/ \E cmd \in Commands : Begin(c, cmd)
    \/ \E m \in RawMessages : RawSend(c, m)

(* The actions of a client have that effect and leave the server alone.    *)
LEMMA ActsAre ==
    ASSUME WireInv, SingleInv, NEW c \in Client, Acts(c)
    PROVE  ClientEffect(c) /\ UNCHANGED <<socket, zmq_mutex, server, roots, happened, failures>>
<1>0. /\ client \in [Client -> ClientType] /\ client[c] \in ClientType
      /\ answers \in [Client -> Seq(AnswerType)] /\ answers[c] \in Seq(AnswerType)
      /\ client[c].pc = "ready" => answers[c] = <<>> /\ NoMail(c)
      /\ answers[c] # <<>> => Len(answers[c]) = 1 /\ NoMail(c)
  BY DEF WireInv, SingleInv
<1>1. ASSUME NEW status \in {"ok", "failed", "interrupted"}, ExitWith(c, status)
      PROVE  \E x \in ClientType : x.pc # "ready" /\ client' = [client EXCEPT ![c] = x]
  <2> PICK x : x = [NewClient EXCEPT !.pc = "done", !.status = status]
    OBVIOUS
  <2>1. x \in ClientType /\ x.pc # "ready"
    BY DEF ClientType, NewClient
  <2> QED
    BY <1>1, <2>1 DEF ExitWith, Become
<1>2. [answers EXCEPT ![c] = <<>>] \in [Client -> Seq(AnswerType)]
  BY <1>0
<1>3. ASSUME answers' = [answers EXCEPT ![c] = <<>>]
      PROVE  /\ answers' \in [Client -> Seq(AnswerType)] /\ answers'[c] = <<>>
             /\ \A d \in Client \ {c} : answers'[d] = answers[d]
  BY <1>0, <1>3
<1>4. CASE ZmqPing(c)
  <2>1. answers' = [answers EXCEPT ![c] = <<>>] /\ UNCHANGED inbox
    BY <1>4 DEF ZmqPing, serverVars
  <2>2. \E x \in ClientType : x.pc # "ready" /\ client' = [client EXCEPT ![c] = x]
    <3>1. CASE \E status \in {"ok", "failed"} : ExitWith(c, status)
      BY <1>1, <3>1
    <3>2. CASE Become(c, [client[c] EXCEPT !.tries = @ + 1])
      <4> PICK x : x = [client[c] EXCEPT !.tries = @ + 1]
        OBVIOUS
      <4>0. client[c].pc = "ping" /\ client[c].tries \in Nat
        BY <1>0, <1>4 DEF ClientType, ZmqPing
      <4>1. client[c].tries + 1 \in Nat
        BY <4>0
      <4>2. x \in ClientType /\ x.pc = "ping"
        BY <1>0, <4>0, <4>1 DEF ClientType
      <4> QED
        BY <3>2, <4>2 DEF Become
    <3> QED
      BY <1>4, <3>1, <3>2 DEF ZmqPing
  <2> QED
    BY <1>3, <1>4, <2>1, <2>2 DEF ClientEffect, ZmqPing, serverVars
<1>5. CASE RawReply(c)
  <2>1. answers' = [answers EXCEPT ![c] = <<>>] /\ UNCHANGED inbox /\ ExitWith(c, "ok")
    BY <1>5 DEF RawReply, serverVars
  <2> QED
    BY <1>1, <1>3, <1>5, <2>1 DEF ClientEffect, RawReply, serverVars
<1>6. CASE Interrupted(c)
  <2>1. answers' = [answers EXCEPT ![c] = <<>>] /\ ExitWith(c, "interrupted")
    BY <1>6 DEF Interrupted
  <2>2. UNCHANGED inbox \/ \E i \in DOMAIN inbox : inbox' = RemoveAt(inbox, i)
    BY <1>6 DEF Interrupted
  <2> QED
    BY <1>1, <1>3, <1>6, <2>1, <2>2 DEF ClientEffect, Interrupted
<1>7. CASE \E cmd \in Commands : Begin(c, cmd)
  <2>1. PICK cmd \in Commands : Begin(c, cmd)
    BY <1>7
  <2>2. client[c].pc = "ready" /\ answers' = answers
    BY <2>1 DEF Begin
  <2>3. answers[c] = <<>> /\ NoMail(c)
    BY <1>0, <2>2
  <2>4. CASE ExitWith(c, "failed") /\ UNCHANGED inbox
    BY <1>0, <1>1, <2>1, <2>2, <2>3, <2>4 DEF ClientEffect, Begin
  <2>5. CASE /\ SendRequest(c, FirstRequest(cmd))
             /\ Become(c, [client[c] EXCEPT !.cmd = cmd,
                             !.pc = IF cmd.name = "ping" THEN "ping" ELSE "wait"])
    <3> PICK x : x = [client[c] EXCEPT !.cmd = cmd,
                             !.pc = IF cmd.name = "ping" THEN "ping" ELSE "wait"]
      OBVIOUS
    <3>1. x \in ClientType /\ x.pc # "ready"
      BY <1>0 DEF ClientType
    <3>2. \E m \in Sent : Sends(c, m)
      BY <2>2, <2>3, <2>5 DEF Sends, SendRequest, Sent
    <3>3. client' = [client EXCEPT ![c] = x]
      BY <2>5 DEF Become
    <3> QED
      BY <1>0, <2>1, <2>2, <3>1, <3>2, <3>3 DEF ClientEffect, Begin
  <2> QED
    BY <2>1, <2>4, <2>5 DEF Begin
<1>8. CASE \E m \in RawMessages : RawSend(c, m)
  <2>1. PICK m \in RawMessages : RawSend(c, m)
    BY <1>8
  <2>2. client[c].pc = "ready" /\ answers' = answers
    BY <2>1 DEF RawSend
  <2>3. answers[c] = <<>> /\ NoMail(c)
    BY <1>0, <2>2
  <2> PICK x : x = [client[c] EXCEPT !.pc = "raw"]
    OBVIOUS
  <2>4. x \in ClientType /\ x.pc # "ready"
    BY <1>0 DEF ClientType
  <2>5. \E n \in Sent : Sends(c, n)
    BY <2>1, <2>2, <2>3 DEF Sends, SendRequest, Sent, RawSend
  <2>6. client' = [client EXCEPT ![c] = x]
    BY <2>1 DEF Become, RawSend
  <2> QED
    BY <1>0, <2>1, <2>2, <2>4, <2>5, <2>6 DEF ClientEffect, RawSend
<1>9. CASE GetReply(c)
  <2>0. client[c].pc = "wait" /\ answers[c] # <<>>
    BY <1>9 DEF GetReply
  <2>1. Len(answers[c]) = 1 /\ NoMail(c)
    BY <1>0, <2>0
  <2>2. Tail(answers[c]) = <<>>
    <3>1. Tail(answers[c]) \in Seq(AnswerType) /\ Len(Tail(answers[c])) = Len(answers[c]) - 1
      BY <1>0, <2>0, HeadTailProperties
    <3> QED
      BY <2>1, <3>1, EmptySeq, 1 - 1 = 0
  <2>3. answers' = [answers EXCEPT ![c] = <<>>]
    <3>1. answers' = [answers EXCEPT ![c] = Tail(answers[c])]
      BY <1>9 DEF GetReply
    <3> QED
      BY <2>2, <3>1
  <2>4. Head(answers[c]) \in AnswerType
    BY <1>0, <2>0, HeadTailProperties
  <2>5. PICK todo : todo = IF client[c].cmd.name = "list_queues"
                           THEN client[c].todo \union Head(answers[c]).value ELSE {}
    OBVIOUS
  <2>6. todo \subseteq Word
    BY <1>0, <2>4, <2>5 DEF ClientType, AnswerType
  <2>7. CASE \E status \in {"failed", "ok"} : ExitWith(c, status) /\ UNCHANGED inbox
    BY <1>1, <1>3, <1>9, <2>3, <2>7 DEF ClientEffect, GetReply
  <2>8. CASE \E p \in todo : /\ SendRequest(c, CallPath("get_queue_size", p))
                             /\ Become(c, [client[c] EXCEPT !.todo = todo \ {p}])
    <3>1. PICK p \in todo : /\ SendRequest(c, CallPath("get_queue_size", p))
                            /\ Become(c, [client[c] EXCEPT !.todo = todo \ {p}])
      BY <2>8
    <3> PICK x : x = [client[c] EXCEPT !.todo = todo \ {p}]
      OBVIOUS
    <3>2. x \in ClientType /\ x.pc # "ready"
      BY <1>0, <2>0, <2>6 DEF ClientType
    <3>3. \E m \in Sent : Sends(c, m)
      BY <1>3, <2>1, <2>3, <2>6, <3>1 DEF Sends, SendRequest, Sent
    <3>4. client' = [client EXCEPT ![c] = x]
      BY <3>1 DEF Become
    <3> QED
      BY <1>3, <1>9, <2>3, <3>2, <3>3, <3>4 DEF ClientEffect, GetReply
  <2> QED
    BY <1>9, <2>5, <2>7, <2>8 DEF GetReply, ListNext
<1> QED
  BY <1>4, <1>5, <1>6, <1>7, <1>8, <1>9, Zenon DEF Acts, ClientStep

-----------------------------------------------------------------------------
(* Every step keeps the invariant.                                         *)

(* The daemon starts with an empty socket and the roots it restored.       *)
LEMMA InitInv == ZmqInit => ZmqInv
<1> SUFFICES ASSUME ZmqInit
             PROVE  ZmqInv
  OBVIOUS
<1>1. WireInv
  <2>1. NewClient \in ClientType
    BY DEF NewClient, ClientType
  <2>2. /\ answers \in [Client -> Seq(AnswerType)] /\ client \in [Client -> ClientType]
    BY <2>1 DEF ZmqInit
  <2>3. socket \in SocketType /\ socket.state = "recv" /\ socket.peer = NoClient
    BY DEF ZmqInit, SocketType
  <2>4. server \in ServerType /\ server.pc = "poll"
    BY DEF ZmqInit, ServerType
  <2>5. happened \in 0 .. MaxEvents /\ failures \in 0 .. MaxFailures
    <3>1. MaxEvents \in Nat /\ MaxFailures \in Nat
      BY ZmqAssumptions
    <3> QED
      BY <3>1 DEF ZmqInit
  <2>6. inbox \in Seq(Mail) /\ zmq_mutex \in {"free", "held"}
    BY DEF ZmqInit
  <2> QED
    BY <2>2, <2>3, <2>4, <2>5, <2>6 DEF WireInv
<1>2. RootInv
  <2> PICK x : x = [destroy |-> FALSE, queue |-> 0, max_events |-> DefaultMaxEvents,
                    rewatch |-> TRUE]
    OBVIOUS
  <2>1. PICK S \in SUBSET Restored : roots = [p \in S |-> x]
    BY DEF ZmqInit
  <2>2. x.queue = 0
    OBVIOUS
  <2>3. x \in RootType
    <3>1. DefaultMaxEvents \in Int /\ 0 \in Nat /\ TRUE \in BOOLEAN /\ FALSE \in BOOLEAN
      BY CtlAssumptions
    <3> QED
      BY <3>1, Zenon DEF RootType
  <2>4. \A p \in S : p \in Word /\ Bare(p)
    <3>1. \A p \in S : p \in Word /\ StripSlashes(p) = p
      BY CtlAssumptions DEF Word
    <3>2. \A p \in Word : Bare(StripSlashes(p))
      BY StripLeavesBare DEF Word
    <3> QED
      BY <3>1, <3>2
  <2>5. DOMAIN roots = S /\ \A p \in S : roots[p] = x
    BY <2>1
  <2>6. roots \in [S -> RootType]
    BY <2>1, <2>3
  <2> QED
    BY <2>2, <2>4, <2>5, <2>6 DEF RootInv
<1>3. SingleInv
  <2>1. socket.peer = NoClient /\ inbox = <<>> /\ answers = [c \in Client |-> <<>>]
    BY DEF ZmqInit
  <2>2. DOMAIN inbox = {}
    BY <2>1
  <2>3. \A c \in Client : c # NoClient
    BY ZmqAssumptions DEF NoClient
  <2>4. \A c \in Client : answers[c] = <<>> /\ NoMail(c)
    BY <2>1, <2>2, <2>3 DEF NoMail
  <2> QED
    BY <2>4, <2>2 DEF SingleInv
<1> QED
  BY <1>1, <1>2, <1>3 DEF ZmqInv

(* A root whose queue alone has changed.                                   *)
LEMMA QueueSet ==
    ASSUME RootInv, NEW p \in DOMAIN roots, NEW n \in Nat,
           n \in {0} \union 1 .. roots[p].max_events,
           roots' = [roots EXCEPT ![p].queue = n]
    PROVE  RootInv'
<1>1. /\ roots \in [DOMAIN roots -> RootType] /\ roots[p] \in RootType
      /\ \A q \in DOMAIN roots :
           q \in Word /\ Bare(q) /\ roots[q].queue \in {0} \union 1 .. roots[q].max_events
  BY DEF RootInv
<1> PICK x : x = [roots[p] EXCEPT !.queue = n]
  OBVIOUS
<1>2. x \in RootType /\ x.queue = n /\ x.max_events = roots[p].max_events
  BY <1>1, RootFields
<1>3. roots' = [roots EXCEPT ![p] = x]
  OBVIOUS
<1>4. /\ DOMAIN roots' = DOMAIN roots /\ roots' \in [DOMAIN roots -> RootType]
      /\ \A q \in DOMAIN roots : roots'[q] = IF q = p THEN x ELSE roots[q]
  BY <1>1, <1>2, <1>3
<1> HIDE DEF RootType
<1>5. \A q \in DOMAIN roots : roots'[q].queue \in {0} \union 1 .. roots'[q].max_events
  BY <1>1, <1>2, <1>4
<1> QED
  BY <1>1, <1>4, <1>5 DEF RootInv

(* Only the dispatch, the end of a destruction and an event touch a root.  *)
LEMMA RootKept ==
    ASSUME ZmqInv, [ZmqNext]_zmqVars
    PROVE  RootInv'
<1>0. WireInv /\ RootInv /\ SingleInv
  BY DEF ZmqInv
<1>1. /\ roots \in [DOMAIN roots -> RootType]
      /\ \A q \in DOMAIN roots :
           q \in Word /\ Bare(q) /\ roots[q].queue \in {0} \union 1 .. roots[q].max_events
  BY <1>0 DEF RootInv
<1>2. CASE UNCHANGED roots
  BY <1>0, <1>2 DEF RootInv
<1>3. CASE Dispatch
  <2>1. CASE \E p \in Word, x \in RootType :
               Bare(p) /\ p \notin DOMAIN roots /\ x.queue = 0 /\ roots' = With(p, x)
    <3>1. PICK p \in Word, x \in RootType :
               Bare(p) /\ p \notin DOMAIN roots /\ x.queue = 0 /\ roots' = With(p, x)
      BY <2>1
    <3>2. /\ DOMAIN roots' = DOMAIN roots \union {p}
          /\ \A q \in DOMAIN roots' : roots'[q] = IF q = p THEN x ELSE roots[q]
          /\ roots' = [q \in DOMAIN roots' |-> IF q = p THEN x ELSE roots[q]]
      BY <3>1 DEF With
    <3>3. roots' \in [DOMAIN roots' -> RootType]
      BY <1>1, <3>2
    <3> QED
      BY <1>1, <3>1, <3>2, <3>3 DEF RootInv
  <2>2. CASE \E p \in DOMAIN roots : roots' = [roots EXCEPT ![p].destroy = TRUE]
    <3>1. PICK p \in DOMAIN roots : roots' = [roots EXCEPT ![p].destroy = TRUE]
      BY <2>2
    <3> PICK x : x = [roots[p] EXCEPT !.destroy = TRUE]
      OBVIOUS
    <3>2. roots[p] \in RootType
      BY <1>1
    <3>3. x \in RootType /\ x.queue = roots[p].queue /\ x.max_events = roots[p].max_events
      BY <3>2, RootFields
    <3>4. roots' = [roots EXCEPT ![p] = x]
      BY <3>1
    <3>5. /\ DOMAIN roots' = DOMAIN roots /\ roots' \in [DOMAIN roots -> RootType]
          /\ \A q \in DOMAIN roots : roots'[q] = IF q = p THEN x ELSE roots[q]
      BY <1>1, <3>3, <3>4
    <3>6. \A q \in DOMAIN roots : roots'[q].queue \in {0} \union 1 .. roots'[q].max_events
      BY <1>1, <3>3, <3>5
    <3> QED
      BY <1>1, <3>5, <3>6 DEF RootInv
  <2>3. CASE \E p \in DOMAIN roots, n \in Nat :
               Taken(Message, p, n) /\ roots' = [roots EXCEPT ![p].queue = n]
    <3>1. PICK p \in DOMAIN roots, n \in Nat :
               Taken(Message, p, n) /\ roots' = [roots EXCEPT ![p].queue = n]
      BY <2>3
    <3>2. n <= roots[p].queue
      BY <3>1 DEF Taken
    <3>3. roots[p].queue \in Nat /\ roots[p].max_events \in Int
      BY <1>1, RootFields
    <3>4. n \in {0} \union 1 .. roots[p].max_events
      BY <1>1, <3>2, <3>3
    <3> QED
      BY <1>0, <3>1, <3>4, QueueSet
  <2> QED
    BY <1>0, <1>2, <1>3, <2>1, <2>2, <2>3, DispatchIs
<1>4. CASE \E p \in DOMAIN roots : DestroyDone(p)
  <2>1. PICK p \in DOMAIN roots : roots' = Without(p)
    BY <1>4 DEF DestroyDone
  <2>2. /\ DOMAIN roots' = DOMAIN roots \ {p}
        /\ \A q \in DOMAIN roots' : roots'[q] = roots[q]
        /\ roots' = [q \in DOMAIN roots' |-> roots[q]]
    BY <2>1 DEF Without
  <2>3. roots' \in [DOMAIN roots' -> RootType]
    BY <1>1, <2>2
  <2> QED
    BY <1>1, <2>2, <2>3 DEF RootInv
<1>5. CASE \E p \in DOMAIN roots : Enqueue(p)
  <2>1. PICK p \in DOMAIN roots : Enqueue(p)
    BY <1>5
  <2>2. roots[p].queue \in Nat /\ roots[p].max_events \in Int
    BY <1>1, RootFields
  <2> PICK n : n = roots[p].queue + 1
    OBVIOUS
  <2>3. roots[p].queue < roots[p].max_events
    BY <2>1 DEF Enqueue
  <2>4. n \in Nat /\ n \in {0} \union 1 .. roots[p].max_events
    BY <2>2, <2>3
  <2>5. roots' = [roots EXCEPT ![p].queue = n]
    BY <2>1 DEF Enqueue
  <2> QED
    BY <1>0, <2>4, <2>5, QueueSet
<1>6. CASE \E c \in Client : Acts(c)
  BY <1>0, <1>2, <1>6, ActsAre
<1>7. CASE Receive \/ SkipEmpty \/ NoMemory \/ RefuseMessage \/ AcceptMessage \/ ServerDies
  <2>1. UNCHANGED roots
    BY <1>7 DEF Receive, SkipEmpty, NoMemory, RefuseMessage, AcceptMessage, ServerDies
  <2> QED
    BY <1>2, <2>1
<1>8. CASE UNCHANGED zmqVars
  BY <1>2, <1>8 DEF zmqVars
<1> QED
  BY <1>3, <1>4, <1>5, <1>6, <1>7, <1>8, Zenon DEF ZmqNext, ServerStep, Acts

(* The inbox after a client has acted: what it held, perhaps without one   *)
(* message, and at most the new request of the client behind it.           *)
LEMMA InboxAfter ==
    ASSUME WireInv, NEW c \in Client, ClientEffect(c)
    PROVE  /\ inbox' \in Seq(Mail)
           /\ \/ \A i \in DOMAIN inbox' : \E k \in DOMAIN inbox : inbox'[i].from = inbox[k].from
              \/ /\ NoMail(c)
                 /\ \A i \in DOMAIN inbox' :
                      \/ inbox'[i].from = c
                      \/ \E k \in DOMAIN inbox : inbox'[i].from = inbox[k].from
           /\ (\A i, j \in DOMAIN inbox : inbox[i].from = inbox[j].from => i = j)
              => \A i, j \in DOMAIN inbox' : inbox'[i].from = inbox'[j].from => i = j
<1>0. inbox \in Seq(Mail)
  BY DEF WireInv
<1>1. CASE UNCHANGED inbox
  BY <1>0, <1>1
<1>2. CASE \E m \in Sent : NoMail(c) /\ inbox' = Append(inbox, [from |-> c, msg |-> m])
  <2>1. PICK m \in Sent : NoMail(c) /\ inbox' = Append(inbox, [from |-> c, msg |-> m])
    BY <1>2
  <2> PICK x : x = [from |-> c, msg |-> m]
    OBVIOUS
  <2>2. x \in Mail /\ x.from = c
    BY DEF Mail
  <2> PICK n \in Nat : n = Len(inbox)
    BY <1>0
  <2>3. DOMAIN inbox = 1 .. n
    BY <1>0
  <2>4. /\ inbox' \in Seq(Mail) /\ Len(inbox') = n + 1
        /\ \A i \in 1 .. n : inbox'[i] = inbox[i]
        /\ inbox'[n + 1] = x
    BY <1>0, <2>1, <2>2, AppendProperties
  <2>5. DOMAIN inbox' = 1 .. n + 1
    BY <2>4
  <2>6. \A i \in DOMAIN inbox' : i \in DOMAIN inbox \/ i = n + 1
    BY <2>3, <2>5
  <2>7. \A i \in DOMAIN inbox : inbox[i].from # c
    BY <2>1 DEF NoMail
  <2>8. \A i \in DOMAIN inbox' : \/ i = n + 1 /\ inbox'[i].from = c
                                 \/ i \in DOMAIN inbox /\ inbox'[i].from = inbox[i].from
    BY <2>2, <2>3, <2>4, <2>6
  <2> QED
    BY <2>1, <2>4, <2>7, <2>8
<1>3. CASE \E i \in DOMAIN inbox : inbox' = RemoveAt(inbox, i)
  <2>1. PICK i \in DOMAIN inbox : inbox' = RemoveAt(inbox, i)
    BY <1>3
  <2>2. /\ inbox' \in Seq(Mail)
        /\ \A j \in DOMAIN inbox' :
             \E k \in DOMAIN inbox : inbox'[j] = inbox[k] /\ k = (IF j < i THEN j ELSE j + 1)
    BY <1>0, <2>1, RemoveAtIs
  <2>3. i \in Nat /\ \A j \in DOMAIN inbox' : j \in Nat
    BY <1>0, <2>2
  <2>4. \A j, k \in Nat : (IF j < i THEN j ELSE j + 1) = (IF k < i THEN k ELSE k + 1) => j = k
    BY <2>3
  <2>5. ASSUME \A j, k \in DOMAIN inbox : inbox[j].from = inbox[k].from => j = k
        PROVE  \A j, k \in DOMAIN inbox' : inbox'[j].from = inbox'[k].from => j = k
    <3> SUFFICES ASSUME NEW j \in DOMAIN inbox', NEW k \in DOMAIN inbox',
                        inbox'[j].from = inbox'[k].from
                 PROVE  j = k
      OBVIOUS
    <3>1. PICK u \in DOMAIN inbox : inbox'[j] = inbox[u] /\ u = (IF j < i THEN j ELSE j + 1)
      BY <2>2
    <3>2. PICK v \in DOMAIN inbox : inbox'[k] = inbox[v] /\ v = (IF k < i THEN k ELSE k + 1)
      BY <2>2
    <3>3. u = v
      BY <2>5, <3>1, <3>2
    <3> QED
      BY <2>3, <2>4, <3>1, <3>2, <3>3
  <2>6. \A j \in DOMAIN inbox' : \E k \in DOMAIN inbox : inbox'[j].from = inbox[k].from
    BY <2>2
  <2> QED
    BY <2>2, <2>5, <2>6
<1> QED
  BY <1>1, <1>2, <1>3 DEF ClientEffect, Sends

(* Receive takes the first message.                                        *)
LEMMA ReceiveIs ==
    ASSUME WireInv, Receive, zmq_mutex # "held"
    PROVE  /\ inbox' \in Seq(Mail) /\ inbox[1] \in Mail /\ 1 \in DOMAIN inbox
           /\ \A i \in DOMAIN inbox' : i + 1 \in DOMAIN inbox /\ inbox'[i] = inbox[i + 1] /\ i + 1 # 1
           /\ \A i, j \in DOMAIN inbox' : i + 1 = j + 1 => i = j
           /\ socket' = [state |-> "send", peer |-> inbox[1].from]
           /\ server' = [pc |-> "received", msg |-> {inbox[1].msg}]
<1>1. inbox \in Seq(Mail) /\ inbox # <<>>
  BY DEF WireInv, Receive
<1>2. PICK n \in Nat : n = Len(inbox)
  BY <1>1
<1>3. n # 0 /\ DOMAIN inbox = 1 .. n
  BY <1>1, <1>2, EmptySeq
<1>4. 1 \in 1 .. n
  BY <1>3
<1>5. inbox[1] \in Mail /\ Head(inbox) = inbox[1]
  BY <1>1, <1>2, <1>4, ElementOfSeq, HeadTailProperties
<1>6. /\ inbox' = Tail(inbox)
      /\ socket' = [state |-> "send", peer |-> Head(inbox).from]
      /\ server' = [pc |-> "received", msg |-> {Head(inbox).msg}]
  BY DEF Receive
<1>7. /\ inbox' \in Seq(Mail) /\ Len(inbox') = n - 1
      /\ \A i \in 1 .. Len(inbox') : inbox'[i] = inbox[i + 1]
  BY <1>1, <1>2, <1>6, HeadTailProperties
<1>8. DOMAIN inbox' = 1 .. n - 1
  BY <1>7
<1>9. \A i \in 1 .. n - 1 : i + 1 \in 1 .. n /\ i + 1 # 1
  OBVIOUS
<1>10. \A i, j \in 1 .. n - 1 : i + 1 = j + 1 => i = j
  OBVIOUS
<1> QED
  BY <1>3, <1>4, <1>5, <1>6, <1>7, <1>8, <1>9, <1>10

(* A message in hand is one that a client sent, until it is answered.      *)
LEMMA WireKept ==
    ASSUME ZmqInv, [ZmqNext]_zmqVars
    PROVE  WireInv'
<1>0. WireInv /\ RootInv /\ SingleInv
  BY DEF ZmqInv
<1>1. /\ socket \in SocketType /\ (socket.state = "recv" <=> socket.peer = NoClient)
      /\ inbox \in Seq(Mail) /\ zmq_mutex \in {"free", "held"}
      /\ server \in ServerType
      /\ server.pc \in {"received", "dispatch"} => \E m \in Sent : server.msg = {m}
      /\ server.pc = "dispatch" => Message.call # {}
      /\ answers \in [Client -> Seq(AnswerType)] /\ client \in [Client -> ClientType]
      /\ happened \in 0 .. MaxEvents /\ failures \in 0 .. MaxFailures
  BY <1>0 DEF WireInv
<1>2. CASE Receive
  <2>1. CASE zmq_mutex = "held"
    <3>1. /\ server' = [server EXCEPT !.pc = "stuck"]
          /\ UNCHANGED <<socket, inbox, zmq_mutex, answers, client, happened, failures>>
      BY <1>2, <2>1 DEF Receive
    <3>2. server' \in ServerType /\ server'.pc = "stuck"
      BY <1>1, <3>1 DEF ServerType
    <3> QED
      BY <1>1, <3>1, <3>2 DEF WireInv
  <2>2. CASE zmq_mutex # "held"
    <3>1. /\ inbox' \in Seq(Mail) /\ inbox[1] \in Mail
          /\ socket' = [state |-> "send", peer |-> inbox[1].from]
          /\ server' = [pc |-> "received", msg |-> {inbox[1].msg}]
      BY <1>0, <1>2, <2>2, ReceiveIs
    <3>2. inbox[1].from \in Client /\ inbox[1].msg \in Sent
      BY <3>1 DEF Mail
    <3>3. inbox[1].from # NoClient
      BY <3>2, ZmqAssumptions DEF NoClient
    <3>4. socket' \in SocketType /\ socket'.state = "send" /\ socket'.peer # NoClient
      BY <3>1, <3>2, <3>3 DEF SocketType
    <3>5. /\ server' \in ServerType /\ server'.pc = "received"
          /\ \E m \in Sent : server'.msg = {m}
      BY <3>1, <3>2 DEF ServerType
    <3>6. zmq_mutex' = "held" /\ UNCHANGED <<answers, client, happened, failures>>
      BY <1>2, <2>2 DEF Receive
    <3> QED
      BY <1>1, <3>1, <3>4, <3>5, <3>6 DEF WireInv
  <2> QED
    BY <2>1, <2>2
<1>3. CASE SkipEmpty \/ ServerDies
  <2>1. /\ server' \in ServerType /\ server'.pc \in {"poll", "down"}
    BY <1>3 DEF SkipEmpty, ServerDies, ToPoll, ServerType
  <2>2. /\ inbox' \in Seq(Mail) /\ zmq_mutex' \in {"free", "held"}
        /\ UNCHANGED <<socket, answers, client, happened, failures>>
    <3>1. CASE SkipEmpty
      BY <1>1, <3>1 DEF SkipEmpty
    <3>2. CASE ServerDies
      <4>1. <<>> \in Seq(Mail)
        OBVIOUS
      <4> QED
        BY <1>1, <3>2, <4>1 DEF ServerDies
    <3> QED
      BY <1>3, <3>1, <3>2
  <2> QED
    BY <1>1, <2>1, <2>2 DEF WireInv
<1>4. CASE AcceptMessage
  <2>1. /\ server.pc = "received" /\ Message.call # {}
        /\ server' = [server EXCEPT !.pc = "dispatch"] /\ zmq_mutex' = "free"
        /\ UNCHANGED <<socket, inbox, answers, client, happened, failures>>
    BY <1>4 DEF AcceptMessage
  <2>2. server' \in ServerType /\ server'.pc = "dispatch" /\ server'.msg = server.msg
    BY <1>1, <2>1 DEF ServerType
  <2>3. Message' = Message
    BY <2>2 DEF Message
  <2> QED
    BY <1>1, <2>1, <2>2, <2>3 DEF WireInv
<1>5. CASE NoMemory \/ RefuseMessage \/ Dispatch
  <2>1. /\ \/ UNCHANGED <<socket, answers>>
           \/ \E a \in AnswerType : Send(a)
        /\ failures' \in 0 .. MaxFailures
        /\ server' = [pc |-> "poll", msg |-> {}]
        /\ zmq_mutex' \in {"free", "held"}
        /\ UNCHANGED <<inbox, client, happened>>
    BY <1>0, <1>5, AnswerSteps
  <2>2. server' \in ServerType /\ server'.pc = "poll"
    BY <2>1 DEF ServerType
  <2>3. /\ socket' \in SocketType /\ (socket'.state = "recv" <=> socket'.peer = NoClient)
        /\ answers' \in [Client -> Seq(AnswerType)]
    BY <1>0, <1>1, <2>1, SendIs
  <2> QED
    BY <1>1, <2>1, <2>2, <2>3 DEF WireInv
<1>6. CASE \E c \in Client : Acts(c)
  <2>1. PICK c \in Client : Acts(c)
    BY <1>6
  <2>2. ClientEffect(c) /\ UNCHANGED <<socket, zmq_mutex, server, happened, failures>>
    BY <1>0, <2>1, ActsAre
  <2>3. inbox' \in Seq(Mail)
    BY <1>0, <2>2, InboxAfter
  <2>4. client' \in [Client -> ClientType] /\ answers' \in [Client -> Seq(AnswerType)]
    BY <1>1, <2>2 DEF ClientEffect
  <2>5. Message' = Message
    BY <2>2 DEF Message
  <2> QED
    BY <1>1, <2>2, <2>3, <2>4, <2>5 DEF WireInv
<1>7. CASE \E p \in DOMAIN roots : DestroyDone(p) \/ Enqueue(p)
  <2>1. UNCHANGED <<socket, inbox, zmq_mutex, server, answers, client, failures>>
    BY <1>7 DEF DestroyDone, Enqueue, serverVars
  <2>2. happened' \in 0 .. MaxEvents
    <3>1. MaxEvents \in Nat
      BY ZmqAssumptions
    <3>2. happened' = happened \/ (happened < MaxEvents /\ happened' = happened + 1)
      BY <1>7 DEF DestroyDone, Enqueue
    <3> QED
      BY <1>1, <3>1, <3>2
  <2>3. Message' = Message
    BY <2>1 DEF Message
  <2> QED
    BY <1>1, <2>1, <2>2, <2>3 DEF WireInv
<1>8. CASE UNCHANGED zmqVars
  <2>1. UNCHANGED <<socket, inbox, zmq_mutex, server, answers, client, happened, failures>>
    BY <1>8 DEF zmqVars
  <2>2. Message' = Message
    BY <2>1 DEF Message
  <2> QED
    BY <1>1, <2>1, <2>2 DEF WireInv
<1> QED
  BY <1>2, <1>3, <1>4, <1>5, <1>6, <1>7, <1>8, Zenon DEF ZmqNext, ServerStep, Acts

(* A client sends its next request only when the last one is answered.     *)
LEMMA SingleKept ==
    ASSUME ZmqInv, [ZmqNext]_zmqVars
    PROVE  SingleInv'
<1>0. WireInv /\ RootInv /\ SingleInv
  BY DEF ZmqInv
<1>1. /\ \A c \in Client : client[c].pc = "ready" => answers[c] = <<>> /\ NoMail(c)
      /\ \A c \in Client : answers[c] # <<>> => Len(answers[c]) = 1 /\ NoMail(c)
      /\ \A i \in DOMAIN inbox : inbox[i].from # socket.peer
      /\ \A i, j \in DOMAIN inbox : inbox[i].from = inbox[j].from => i = j
  BY <1>0 DEF SingleInv
<1>2. inbox \in Seq(Mail) /\ \A c \in Client : answers[c] \in Seq(AnswerType)
  BY <1>0 DEF WireInv
<1>3. \A c \in Client : c # NoClient
  BY ZmqAssumptions DEF NoClient
<1>4. \A i \in DOMAIN inbox : inbox[i].from \in Client
  <2>1. \A i \in DOMAIN inbox : inbox[i] \in Mail
    BY <1>2
  <2> QED
    BY <2>1 DEF Mail
<1>5. CASE UNCHANGED <<socket, inbox, answers, client>>
  BY <1>0, <1>5 DEF SingleInv, NoMail
<1>6. CASE Receive
  <2>1. CASE zmq_mutex = "held"
    BY <1>5, <1>6, <2>1 DEF Receive
  <2>2. CASE zmq_mutex # "held"
    <3>1. /\ 1 \in DOMAIN inbox
          /\ \A i \in DOMAIN inbox' : i + 1 \in DOMAIN inbox /\ inbox'[i] = inbox[i + 1] /\ i + 1 # 1
          /\ \A i, j \in DOMAIN inbox' : i + 1 = j + 1 => i = j
          /\ socket' = [state |-> "send", peer |-> inbox[1].from]
      BY <1>0, <1>6, <2>2, ReceiveIs
    <3>2. UNCHANGED <<answers, client>>
      BY <1>6 DEF Receive
    <3>3. socket'.peer = inbox[1].from
      BY <3>1
    <3>4. \A c \in Client : NoMail(c) => NoMail(c)'
      BY <3>1, <3>3 DEF NoMail
    <3>5. \A i \in DOMAIN inbox' : inbox'[i].from # socket'.peer
      BY <1>1, <3>1, <3>3
    <3>6. \A i, j \in DOMAIN inbox' : inbox'[i].from = inbox'[j].from => i = j
      BY <1>1, <3>1
    <3> QED
      BY <1>1, <3>2, <3>4, <3>5, <3>6 DEF SingleInv
  <2> QED
    BY <2>1, <2>2
<1>7. CASE SkipEmpty \/ AcceptMessage
  BY <1>5, <1>7 DEF SkipEmpty, AcceptMessage
<1>8. CASE ServerDies
  <2>1. inbox' = <<>> /\ UNCHANGED <<socket, answers, client>>
    BY <1>8 DEF ServerDies
  <2>2. DOMAIN inbox' = {}
    BY <2>1
  <2>3. \A c \in Client : NoMail(c) => NoMail(c)'
    BY <2>1, <2>2 DEF NoMail
  <2> QED
    BY <1>1, <2>1, <2>2, <2>3 DEF SingleInv
<1>9. CASE NoMemory \/ RefuseMessage \/ Dispatch
  <2>1. /\ \/ UNCHANGED <<socket, answers>>
           \/ \E a \in AnswerType : Send(a)
        /\ UNCHANGED <<inbox, client>>
    BY <1>0, <1>9, AnswerSteps
  <2>2. CASE \E a \in AnswerType : Send(a)
    <3>1. PICK a \in AnswerType : Send(a)
      BY <2>2
    <3>2. /\ socket'.peer = NoClient
          /\ \A c \in Client : \/ answers'[c] = answers[c]
                               \/ c = socket.peer /\ answers'[c] = Append(answers[c], a)
      BY <1>0, <3>1, SendIs
    <3>3. \A c \in Client : NoMail(c) => NoMail(c)'
      BY <1>3, <2>1, <3>2 DEF NoMail
    <3>4. \A c \in Client : c = socket.peer => NoMail(c)' /\ answers[c] = <<>> /\ client[c].pc # "ready"
      BY <1>1, <1>3, <2>1, <3>2 DEF NoMail
    <3>5. Append(<<>>, a) = <<a>> /\ Len(<<a>>) = 1
      OBVIOUS
    <3>6. \A c \in Client : c = socket.peer /\ answers'[c] # <<>> => Len(answers'[c]) = 1
      BY <3>2, <3>4, <3>5
    <3>7. \A i \in DOMAIN inbox : inbox[i].from # NoClient
      BY <1>3, <1>4
    <3>8. \A c \in Client : /\ client'[c].pc = "ready" => answers'[c] = <<>> /\ NoMail(c)'
                            /\ answers'[c] # <<>> => Len(answers'[c]) = 1 /\ NoMail(c)'
      BY <1>1, <2>1, <3>2, <3>3, <3>4, <3>6
    <3> QED
      BY <1>1, <2>1, <3>2, <3>7, <3>8 DEF SingleInv
  <2> QED
    BY <1>5, <2>1, <2>2
<1>10. CASE \E c \in Client : Acts(c)
  <2>1. PICK c \in Client : Acts(c)
    BY <1>10
  <2>2. ClientEffect(c) /\ UNCHANGED socket
    BY <1>0, <2>1, ActsAre
  <2>3. /\ \/ \A i \in DOMAIN inbox' : \E k \in DOMAIN inbox : inbox'[i].from = inbox[k].from
           \/ /\ NoMail(c)
              /\ \A i \in DOMAIN inbox' :
                   \/ inbox'[i].from = c
                   \/ \E k \in DOMAIN inbox : inbox'[i].from = inbox[k].from
        /\ (\A i, j \in DOMAIN inbox : inbox[i].from = inbox[j].from => i = j)
           => \A i, j \in DOMAIN inbox' : inbox'[i].from = inbox'[j].from => i = j
    BY <1>0, <2>2, InboxAfter
  <2>4. \A d \in Client \ {c} : NoMail(d) => NoMail(d)'
    BY <2>2, <2>3 DEF NoMail
  <2>5. \A i \in DOMAIN inbox' : inbox'[i].from # socket'.peer
    BY <1>1, <2>2, <2>3 DEF NoMail
  <2>6. /\ answers'[c] = <<>> /\ client'[c].pc # "ready"
        /\ \A d \in Client \ {c} : answers'[d] = answers[d] /\ client'[d] = client[d]
    BY <1>0, <2>2 DEF ClientEffect, Sends, WireInv
  <2> QED
    BY <1>1, <2>3, <2>4, <2>5, <2>6 DEF SingleInv
<1>11. CASE \E p \in DOMAIN roots : DestroyDone(p) \/ Enqueue(p)
  BY <1>5, <1>11 DEF DestroyDone, Enqueue, serverVars
<1>12. CASE UNCHANGED zmqVars
  BY <1>5, <1>12 DEF zmqVars
<1> QED
  BY <1>6, <1>7, <1>8, <1>9, <1>10, <1>11, <1>12, Zenon DEF ZmqNext, ServerStep, Acts

(* The invariant holds in every state.                                     *)
LEMMA ZmqInvariant == ZmqSpec => []ZmqInv
<1>1. ZmqInv /\ [ZmqNext]_zmqVars => ZmqInv'
  BY WireKept, RootKept, SingleKept DEF ZmqInv
<1> QED
  BY InitInv, <1>1, PTL DEF ZmqSpec

-----------------------------------------------------------------------------
(* The state of the server and its clients is well formed in every state:  *)
(* no queue outgrows its root's limit or shrinks below zero, and no client *)
(* ever has more than one request or answer under way.                     *)
THEOREM ZmqTypeCorrect == ZmqSpec => []ZmqTypeOK
<1>1. ZmqInv => ZmqTypeOK
  <2> SUFFICES ASSUME ZmqInv
               PROVE  ZmqTypeOK
    OBVIOUS
  <2>1. \A c \in Client : Len(answers[c]) <= 1
    <3> TAKE c \in Client
    <3>1. CASE answers[c] = <<>>
      <4>1. Len(<<>>) = 0 /\ 0 <= 1
        OBVIOUS
      <4> QED
        BY <3>1, <4>1
    <3>2. CASE answers[c] # <<>>
      <4>1. Len(answers[c]) = 1
        BY <3>2 DEF ZmqInv, SingleInv
      <4> QED
        BY <4>1
    <3> QED
      BY <3>1, <3>2
  <2>2. server.pc \in {"poll", "received", "dispatch", "stuck", "down"}
    BY DEF ZmqInv, WireInv, ServerType
  <2> QED
    BY <2>1, <2>2 DEF ZmqTypeOK, ZmqInv, WireInv, RootInv, SingleInv, SocketType
<1> QED
  BY <1>1, ZmqInvariant, PTL

(* However clients write a path, the root is registered under the name     *)
(* without trailing slashes: no directory ever has two roots.              *)
THEOREM RootNamesNormal == ZmqSpec => []RootsNormal
<1>1. ZmqInv => RootsNormal
  <2> SUFFICES ASSUME ZmqInv, NEW p \in DOMAIN roots
               PROVE  p = StripSlashes(p)
    BY DEF RootsNormal
  <2>1. p \in Seq(STRING) /\ Bare(p)
    BY DEF ZmqInv, RootInv, Word
  <2> QED
    BY <2>1, BareStays
<1> QED
  BY <1>1, ZmqInvariant, PTL

(* The server comes back to zmq_poll() with the message answered and       *)
(* zmq_mutex released, unless it was empty or memory ran out.              *)
THEOREM SocketReadyAgain == ZmqSpec => ReadyForNext
<1> DEFINE P == /\ server.pc \in {"received", "dispatch"} /\ server'.pc = "poll"
                /\ Message.kind \notin {"empty", "nul"}
                /\ failures' = failures
                => socket'.state = "recv" /\ zmq_mutex' = "free"
<1>1. ASSUME ZmqInv, [ZmqNext]_zmqVars
      PROVE  [P]_zmqVars
  <2> SUFFICES ASSUME server.pc \in {"received", "dispatch"}, server'.pc = "poll",
                      Message.kind \notin {"empty", "nul"}, failures' = failures
               PROVE  socket'.state = "recv" /\ zmq_mutex' = "free"
    OBVIOUS
  <2>0. WireInv /\ RootInv /\ SingleInv
    BY <1>1 DEF ZmqInv
  <2>1. CASE NoMemory \/ RefuseMessage \/ Dispatch
    BY <2>0, <2>1, AnswerSteps, SendIs
  <2>2. server' = server => FALSE
    OBVIOUS
  <2>3. CASE Receive \/ SkipEmpty \/ AcceptMessage \/ ServerDies
    BY <2>0, <2>3 DEF Receive, SkipEmpty, AcceptMessage, ServerDies, WireInv, ServerType
  <2>4. CASE \E c \in Client : Acts(c)
    BY <2>0, <2>2, <2>4, ActsAre
  <2>5. CASE \E p \in DOMAIN roots : DestroyDone(p) \/ Enqueue(p)
    BY <2>2, <2>5 DEF DestroyDone, Enqueue, serverVars
  <2>6. CASE UNCHANGED zmqVars
    BY <2>2, <2>6 DEF zmqVars
  <2> QED
    BY <1>1, <2>1, <2>3, <2>4, <2>5, <2>6, Zenon DEF ZmqNext, ServerStep, Acts
<1> QED
  BY <1>1, ZmqInvariant, PTL DEF ZmqSpec, ReadyForNext

(* Events leave a queue only by pause, which takes all, and by get_events, *)
(* which takes as many as the count asks for (none for a negative one),    *)
(* whatever messages clients send; no other step shortens a queue.  Of the *)
(* count -1 nothing is said: there the code breaks its own rule.           *)
THEOREM EventsTakenAsAsked == ZmqSpec => TakesAsAsked
<1> DEFINE P == \A p \in DOMAIN roots \intersect DOMAIN roots' :
                  roots'[p].queue < roots[p].queue =>
                     /\ server.pc = "dispatch"
                     /\ StripSlashes(TheValue(Message.path)) = p
                     /\ \/ Message.call = {"pause"} /\ roots'[p].queue = 0
                        \/ /\ Message.call = {"get_events"}
                           /\ \/ MistakenForNone(Message)
                              \/ roots[p].queue - roots'[p].queue = Asked(Message, roots[p].queue)
<1>1. ASSUME ZmqInv, [ZmqNext]_zmqVars
      PROVE  [P]_zmqVars
  <2> SUFFICES ASSUME NEW p \in DOMAIN roots, p \in DOMAIN roots',
                      roots'[p].queue < roots[p].queue
               PROVE  /\ server.pc = "dispatch"
                      /\ StripSlashes(TheValue(Message.path)) = p
                      /\ \/ Message.call = {"pause"} /\ roots'[p].queue = 0
                         \/ /\ Message.call = {"get_events"}
                            /\ \/ MistakenForNone(Message)
                               \/ roots[p].queue - roots'[p].queue = Asked(Message, roots[p].queue)
    OBVIOUS
  <2>0. WireInv /\ RootInv /\ SingleInv
    BY <1>1 DEF ZmqInv
  <2>1. roots[p] \in RootType /\ roots[p].queue \in Nat
    BY <2>0, RootFields DEF RootInv
  <2>2. roots'[p].queue # roots[p].queue
    BY <2>1
  <2>3. CASE Dispatch
    <3>0. server.pc = "dispatch"
      BY <2>3 DEF Dispatch
    <3>1. PICK q \in DOMAIN roots, n \in Nat :
                 Taken(Message, q, n) /\ roots' = [roots EXCEPT ![q].queue = n]
      <4>1. ASSUME NEW q \in Word, NEW x \in RootType, q \notin DOMAIN roots, roots' = With(q, x)
            PROVE  FALSE
        <5>1. roots'[p] = roots[p]
          BY <4>1 DEF With
        <5> QED
          BY <2>2, <5>1
      <4>2. ASSUME NEW q \in DOMAIN roots, roots' = [roots EXCEPT ![q].destroy = TRUE]
            PROVE  FALSE
        <5>1. roots \in [DOMAIN roots -> RootType] /\ roots[q] \in RootType
          BY <2>0 DEF RootInv
        <5>2. roots'[p] = roots[p] \/ (p = q /\ roots'[p] = [roots[q] EXCEPT !.destroy = TRUE])
          BY <4>2, <5>1
        <5>3. roots'[p].queue = roots[p].queue
          BY <5>1, <5>2, RootFields
        <5> QED
          BY <2>2, <5>3
      <4>3. roots' = roots => FALSE
        BY <2>2
      <4> QED
        BY <2>0, <2>3, <4>1, <4>2, <4>3, DispatchIs
    <3>2. p = q /\ roots'[p].queue = n
      <4>1. roots \in [DOMAIN roots -> RootType] /\ roots[q] \in RootType
        BY <2>0 DEF RootInv
      <4>2. \/ roots'[p] = roots[p]
            \/ p = q /\ roots'[p] = [roots[q] EXCEPT !.queue = n]
        BY <3>1, <4>1
      <4> QED
        BY <2>2, <4>1, <4>2, RootFields
    <3> QED
      BY <3>0, <3>1, <3>2 DEF Taken
  <2>4. CASE UNCHANGED roots
    BY <2>2, <2>4
  <2>5. CASE \E q \in DOMAIN roots : DestroyDone(q)
    <3>1. roots'[p] = roots[p]
      BY <2>5 DEF DestroyDone, Without
    <3> QED
      BY <2>2, <3>1
  <2>6. CASE \E q \in DOMAIN roots : Enqueue(q)
    <3>1. PICK q \in DOMAIN roots : roots' = [roots EXCEPT ![q].queue = roots[q].queue + 1]
      BY <2>6 DEF Enqueue
    <3>2. roots \in [DOMAIN roots -> RootType] /\ roots[q] \in RootType
      BY <2>0 DEF RootInv
    <3>3. roots[q].queue \in Nat
      BY <3>2, RootFields
    <3> PICK n : n = roots[q].queue + 1
      OBVIOUS
    <3>4. n \in Nat
      BY <3>3
    <3>5. \/ roots'[p] = roots[p]
          \/ p = q /\ roots'[p] = [roots[q] EXCEPT !.queue = n]
      BY <3>1, <3>2
    <3>6. [roots[q] EXCEPT !.queue = n].queue = n
      BY <3>2, <3>4, RootFields
    <3>7. roots'[p].queue = roots[p].queue \/ roots'[p].queue = roots[p].queue + 1
      BY <3>5, <3>6
    <3>8. roots[p].queue < roots[p].queue + 1 /\ ~(roots[p].queue + 1 < roots[p].queue)
      BY <2>1
    <3> QED
      BY <2>2, <3>7, <3>8
  <2>7. CASE \E c \in Client : Acts(c)
    BY <2>0, <2>4, <2>7, ActsAre
  <2>8. CASE Receive \/ SkipEmpty \/ NoMemory \/ RefuseMessage \/ AcceptMessage \/ ServerDies
    <3>1. UNCHANGED roots
      BY <2>8 DEF Receive, SkipEmpty, NoMemory, RefuseMessage, AcceptMessage, ServerDies
    <3> QED
      BY <2>4, <3>1
  <2>9. CASE UNCHANGED zmqVars
    BY <2>4, <2>9 DEF zmqVars
  <2> QED
    BY <1>1, <2>3, <2>5, <2>6, <2>7, <2>8, <2>9, Zenon DEF ZmqNext, ServerStep, Acts
<1> QED
  BY <1>1, ZmqInvariant, PTL DEF ZmqSpec, TakesAsAsked

=============================================================================
