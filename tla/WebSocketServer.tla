-------------------------- MODULE WebSocketServer --------------------------
(***************************************************************************)
(* OpenAPT::WebSocketServer and its CommandDispatcher.  One thread is in   *)
(* run() and calls the handlers of websocketpp one after the other; every  *)
(* JSON message is processed by a detached thread of its own; some thread  *)
(* calls stop().  websocketpp itself is external: a connection is a handle *)
(* that opens once and closes once, send() on a handle that is not open    *)
(* throws, remote_endpoint() throws when the socket is already gone, and   *)
(* after stop() no handler runs and nothing is sent.                       *)
(***************************************************************************)
EXTENDS Integers, Sequences, FiniteSets, SequencesExt

CONSTANTS Conns,            \* connection handles
          Addrs,            \* clients, by ip and port
          Addr,             \* the client of each handle
          Files,            \* what clients.json may hold at the start, see "clients"
          Msgs,             \* the messages that clients can send
          max_connections_, \* 0: no limit
          NoConn,
          SocketsVanish     \* whether a socket can be gone when a handler looks at it

Kinds == {"ignored",   \* not a text frame, or not JSON
          "empty",     \* an empty JSON value
          "partial",   \* no "name" or no "params"
          "unknown",   \* a name without a handler
          "command",   \* a name with a handler, which returns
          "faulty"}    \* a name that is no string, or whose handler throws

\* The entries of clients.json by place or by name.  Entry k > 0 is the k-th of a JSON list, or
\* the one called "client<k>" of a JSON object; other k stand for an object's other names.
ClientFile(f) == /\ IsFiniteSet(DOMAIN f) /\ DOMAIN f \subseteq Int
                 /\ f \in [DOMAIN f -> Addrs]

ASSUME FilesAssumption == /\ Addr \in [Conns -> Addrs]
                          /\ \A f \in Files : ClientFile(f)
ASSUME LimitAssumption == max_connections_ \in Nat
ASSUME ConnsAssumption == IsFiniteSet(Conns) /\ NoConn \notin Conns
ASSUME SocketsAssumption == SocketsVanish \in BOOLEAN

VARIABLES running_,
          active_connections_,
          io,        \* the endpoint: "new", "listening" or "stopped"
          runner,    \* run(): "idle", "setup", "loop" or "returned"
          conn,      \* each connection: "new", "open" or "closed"
          readable,  \* whether clients.json exists and is a JSON list or object
          clients,   \* its entries, when it is
          msg,       \* each message: its connection, its kind and its state
          replies,   \* what each client has received
          recorded,  \* history: the addresses written to clients.json or found there
          irregular  \* history: onOpen() or onClose() has returned or thrown early

server == <<running_, io, runner>>
count  == <<active_connections_, irregular>>
file   == <<readable, clients, recorded>>
vars   == <<server, count, file, conn, msg, replies>>

OpenConns == {c \in Conns : conn[c] = "open"}

Init == /\ running_ = FALSE
        /\ active_connections_ = 0
        /\ io = "new"
        /\ runner = "idle"
        /\ conn = [c \in Conns |-> "new"]
        /\ readable \in BOOLEAN
        /\ clients \in IF readable THEN Files ELSE {<<>>}
        /\ msg = [m \in Msgs |-> [at |-> NoConn, kind |-> "ignored", st |-> "new"]]
        /\ replies = [c \in Conns |-> <<>>]
        /\ recorded = {}
        /\ irregular = FALSE

(***************************************************************************)
(* run() and stop().                                                       *)
(***************************************************************************)
\* run() up to start_accept(): the endpoint listens, running_ is not set yet.
RunSetup ==
    /\ runner = "idle" /\ ~running_ /\ io = "new"
    /\ io' = "listening"
    /\ runner' = "setup"
    /\ UNCHANGED <<running_, count, conn, file, msg, replies>>

RunFlag ==
    /\ runner = "setup"
    /\ running_' = TRUE
    /\ runner' = "loop"
    /\ UNCHANGED <<io, count, conn, file, msg, replies>>

RunReturn ==
    /\ runner = "loop" /\ io = "stopped" /\ ~running_
    /\ runner' = "returned"
    /\ UNCHANGED <<running_, io, count, conn, file, msg, replies>>

\* stop() does nothing unless running_ is set; it stops the endpoint, then clears the flag.
StopEndpoint ==
    /\ running_ /\ io = "listening"
    /\ io' = "stopped"
    /\ UNCHANGED <<running_, runner, count, conn, file, msg, replies>>

\* Mutant: stop() leaves the flag.
StopKeepsFlag ==
    /\ io = "stopped" /\ running_
    /\ UNCHANGED vars

StopFlag ==
    /\ io = "stopped" /\ running_
    /\ running_' = FALSE
    /\ UNCHANGED <<io, runner, count, conn, file, msg, replies>>

\* The thread in run() can call a handler.
Serving == runner = "loop" /\ io = "listening"

(***************************************************************************)
(* onOpen() with saveClientInfo(), and onClose().                          *)
(***************************************************************************)
\* clients.json cannot be opened for writing, or is truncated and then not written.
WriteFails == \/ UNCHANGED file
              \/ readable' = FALSE /\ clients' = <<>> /\ UNCHANGED recorded

Known(a) == \E k \in DOMAIN clients : clients[k] = a

\* The new entry is counted, not looked for: in an object it may replace one of that name.
NewKey == Cardinality(DOMAIN clients) + 1
Put(f, k, a) == [x \in DOMAIN f \cup {k} |-> IF x = k THEN a ELSE f[x]]

\* Mutant: the new entry takes the place of the last one.
SaveClientInfoOnLast(a) ==
    \/ ~readable /\ UNCHANGED file
    \/ /\ readable
       /\ clients' = IF Known(a) THEN clients ELSE Put(clients, Cardinality(DOMAIN clients), a)
       /\ recorded' = recorded \cup {a}
       /\ UNCHANGED readable
    \/ readable /\ ~Known(a) /\ WriteFails

\* The file is read and, unless it has the address, extended and rewritten.  One that cannot
\* be read is left alone.
SaveClientInfo(a) ==
    \/ ~readable /\ UNCHANGED file
    \/ /\ readable
       /\ clients' = IF Known(a) THEN clients ELSE Put(clients, NewKey, a)
       /\ recorded' = recorded \cup {a}
       /\ UNCHANGED readable
    \/ readable /\ ~Known(a) /\ WriteFails

\* Mutant: one connection too many.
OverLimitOffByOne == max_connections_ > 0 /\ active_connections_ > max_connections_

OverLimit == max_connections_ > 0 /\ active_connections_ >= max_connections_

OnOpen(c) ==
    /\ Serving /\ conn[c] = "new"
    /\ conn' = [conn EXCEPT ![c] = "open"]
    /\ ~OverLimit
    /\ SaveClientInfo(Addr[c])
    /\ active_connections_' = active_connections_ + 1
    /\ UNCHANGED <<server, msg, replies, irregular>>

\* The early return over the limit: nothing closes the connection.
OnOpenRefuses(c) ==
    /\ Serving /\ conn[c] = "new"
    /\ conn' = [conn EXCEPT ![c] = "open"]
    /\ OverLimit
    /\ irregular' = TRUE
    /\ UNCHANGED <<server, active_connections_, file, msg, replies>>

\* remote_endpoint() throws; run() catches it and goes on.
OnOpenThrows(c) ==
    /\ Serving /\ conn[c] = "new" /\ SocketsVanish
    /\ conn' = [conn EXCEPT ![c] = "open"]
    /\ ~OverLimit
    /\ irregular' = TRUE
    /\ UNCHANGED <<server, active_connections_, file, msg, replies>>

OnClose(c) ==
    /\ Serving /\ conn[c] = "open"
    /\ conn' = [conn EXCEPT ![c] = "closed"]
    /\ active_connections_' = active_connections_ - 1
    /\ UNCHANGED <<server, irregular, file, msg, replies>>

\* remote_endpoint() throws before the decrement.
OnCloseThrows(c) ==
    /\ Serving /\ conn[c] = "open" /\ SocketsVanish
    /\ conn' = [conn EXCEPT ![c] = "closed"]
    /\ irregular' = TRUE
    /\ UNCHANGED <<server, active_connections_, file, msg, replies>>

(***************************************************************************)
(* onMessage(), processMessage(), CommandDispatcher and sendMessage().     *)
(***************************************************************************)
\* onMessage() starts a thread for JSON text and drops the rest; an exception of
\* remote_endpoint() drops the message too.
OnMessage(c, m, k) ==
    /\ Serving /\ conn[c] = "open"
    /\ msg[m].st = "new"
    /\ \/ /\ k # "ignored"
          /\ msg' = [msg EXCEPT ![m] = [at |-> c, kind |-> k, st |-> "processing"]]
       \/ /\ k = "ignored" \/ SocketsVanish
          /\ msg' = [msg EXCEPT ![m] = [at |-> c, kind |-> k, st |-> "dropped"]]
    /\ UNCHANGED <<server, count, conn, file, replies>>

HasHandler(m) == msg[m].kind \in {"command", "faulty"}
Throws(m) == msg[m].kind = "faulty"

\* Mutant: the answer to a failure is the text of the exception.
AnswerText(m) == IF Throws(m) THEN "what" ELSE "OK"

\* What processMessage() answers: a command that nobody handles is acknowledged too.
Answer(m) == IF msg[m].kind = "partial" \/ Throws(m) THEN "error" ELSE "OK"

\* Mutant: a command without a handler is not answered.
NoAnswerUnhandled(m) == ~HasHandler(m)

NoAnswer(m) == msg[m].kind = "empty"

\* Mutant: the answer goes to every open connection.
ProcessBroadcast(m) ==
    /\ msg[m].st = "processing"
    /\ msg' = [msg EXCEPT ![m].st = IF NoAnswer(m) THEN "dropped" ELSE "answered"]
    /\ replies' = [c \in Conns |->
                     IF NoAnswer(m) \/ io # "listening" \/ conn[c] # "open" THEN replies[c]
                     ELSE Append(replies[c], [to |-> m, text |-> Answer(m)])]
    /\ UNCHANGED <<server, count, conn, file>>

\* The thread dispatches the command and sends the answer; what send() throws is swallowed.
Process(m) ==
    /\ msg[m].st = "processing"
    /\ msg' = [msg EXCEPT ![m].st = IF NoAnswer(m) THEN "dropped" ELSE "answered"]
    /\ replies' = IF NoAnswer(m) \/ io # "listening" \/ conn[msg[m].at] # "open"
                  THEN replies
                  ELSE [replies EXCEPT ![msg[m].at] =
                          Append(@, [to |-> m, text |-> Answer(m)])]
    /\ UNCHANGED <<server, count, conn, file>>

Handler == \E c \in Conns : \/ OnOpen(c) \/ OnOpenRefuses(c) \/ OnOpenThrows(c)
                            \/ OnClose(c) \/ OnCloseThrows(c)
                            \/ \E m \in Msgs, k \in Kinds : OnMessage(c, m, k)

Next == \/ RunSetup \/ RunFlag \/ RunReturn
        \/ StopEndpoint \/ StopFlag
        \/ Handler
        \/ \E m \in Msgs : Process(m)

\* The threads in run(), in stop() and in processMessage() are scheduled, and command
\* handlers return.  No client is obliged to do anything.
Fairness == /\ WF_vars(RunFlag) /\ WF_vars(RunReturn)
            /\ WF_vars(StopFlag)
            /\ \A m \in Msgs : WF_vars(Process(m))

Spec == Init /\ [][Next]_vars /\ Fairness

-----------------------------------------------------------------------------
(***************************************************************************)
(* Properties.                                                             *)
(***************************************************************************)
\* The types of the server's members and of its environment.
TypeOK == /\ running_ \in BOOLEAN
          /\ active_connections_ \in Int
          /\ io \in {"new", "listening", "stopped"}
          /\ runner \in {"idle", "setup", "loop", "returned"}
          /\ conn \in [Conns -> {"new", "open", "closed"}]
          /\ readable \in BOOLEAN
          /\ ClientFile(clients)
          /\ msg \in [Msgs -> [at : Conns \cup {NoConn}, kind : Kinds,
                               st : {"new", "processing", "answered", "dropped"}]]
          /\ replies \in [Conns -> Seq([to : Msgs, text : {"OK", "error"}])]
          /\ recorded \subseteq Addrs
          /\ irregular \in BOOLEAN

\* As long as onOpen() and onClose() run to their ends, active_connections_ is the number
\* of open connections, and that number respects the limit.
CountIsExact ==
    ~irregular => /\ active_connections_ = Cardinality(OpenConns)
                  /\ max_connections_ > 0 => Cardinality(OpenConns) <= max_connections_

\* An address that saveClientInfo() has recorded stays recorded for as long as clients.json
\* can be read, whichever rewrites of the file fail in between, in a list and in an object
\* whose numbered names do not go beyond the number of its entries.
NoGaps == \A k \in DOMAIN clients : k < NewKey
RecordedClientsKept == readable /\ NoGaps => \A a \in recorded : Known(a)

\* A client receives at most one answer to a message, and only to messages that it sent
\* itself, although every answer comes from a thread of its own.
AnswersToSender ==
    \A c \in Conns : \A i, j \in 1..Len(replies[c]) :
        /\ msg[replies[c][i].to].at = c
        /\ i # j => replies[c][i].to # replies[c][j].to

\* Once stop() has stopped the endpoint, run() returns.
StopEndsRun == (io = "stopped") ~> (runner = "returned")

\* An accepted JSON message is answered, unless it is empty, its client goes away or the
\* server stops.
AcceptedMessagesAnswered ==
    \A m \in Msgs :
        (msg[m].st = "processing" /\ msg[m].kind # "empty")
            ~> \/ \E c \in Conns : \E i \in 1..Len(replies[c]) : replies[c][i].to = m
               \/ io = "stopped"
               \/ \E c \in Conns : msg[m].at = c /\ conn[c] = "closed"

\* What the comment in saveClientInfo() says, that the new client's information is "added to
\* the list": as long as the file can be written, no client goes from it.
ClientsAreAdded ==
    [][readable' => \A a \in Addrs : Known(a) => Known(a)']_vars

\* What the comments on max_connections_ say, "the server's maximum number of
\* connections": the server never has more open connections than that.
ConnectionLimit ==
    max_connections_ > 0 => Cardinality(OpenConns) <= max_connections_
=============================================================================
