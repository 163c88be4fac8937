----------------------- MODULE WebSocketServerProofs -----------------------
(***************************************************************************)
(* Proofs about WebSocketServer, for any finite set of connections, any    *)
(* messages and any limit, whether or not sockets vanish.                  *)
(***************************************************************************)
EXTENDS WebSocketServer, FiniteSetTheorems, SequenceTheorems, TLAPS

Message == [at : Conns \cup {NoConn}, kind : Kinds, st : {"new", "processing", "answered", "dropped"}]
Reply == [to : Msgs, text : {"OK", "error"}]

\* A message that is answered is out of its thread's hands.
AnsweredOnce ==
    \A c \in Conns : \A i \in 1..Len(replies[c]) : msg[replies[c][i].to].st = "answered"

\* A message that has been received has a sender.
SenderKnown == \A m \in Msgs : msg[m].st # "new" => msg[m].at \in Conns

IInv == TypeOK /\ CountIsExact /\ RecordedClientsKept /\ SenderKnown /\ AnsweredOnce /\ AnswersToSender
-----------------------------------------------------------------------------
(* The connections. *)

\* The number of open connections after one has been opened.
LEMMA CountOpens ==
    ASSUME conn \in [Conns -> {"new", "open", "closed"}], NEW c \in Conns, conn[c] = "new",
           conn' = [conn EXCEPT ![c] = "open"]
    PROVE  /\ Cardinality(OpenConns) \in Nat
           /\ Cardinality(OpenConns') = Cardinality(OpenConns) + 1
<1>1. OpenConns' = OpenConns \cup {c} /\ c \notin OpenConns
  BY DEF OpenConns
<1>2. OpenConns \in SUBSET Conns
  BY DEF OpenConns
<1>3. IsFiniteSet(OpenConns)
  BY <1>2, ConnsAssumption, FS_Subset
<1> HIDE DEF OpenConns
<1> QED
  BY <1>1, <1>3, FS_AddElement, FS_CardinalityType

\* The number of open connections after one has been closed.
LEMMA CountCloses ==
    ASSUME conn \in [Conns -> {"new", "open", "closed"}], NEW c \in Conns, conn[c] = "open",
           conn' = [conn EXCEPT ![c] = "closed"]
    PROVE  /\ Cardinality(OpenConns) \in Nat
           /\ Cardinality(OpenConns') = Cardinality(OpenConns) - 1
<1>1. OpenConns' = OpenConns \ {c} /\ c \in OpenConns
  BY DEF OpenConns
<1>2. OpenConns \in SUBSET Conns
  BY DEF OpenConns
<1>3. IsFiniteSet(OpenConns)
  BY <1>2, ConnsAssumption, FS_Subset
<1> HIDE DEF OpenConns
<1> QED
  BY <1>1, <1>3, FS_RemoveElement, FS_CardinalityType
-----------------------------------------------------------------------------
(* The client file. *)

\* A new entry: the file stays one, and its clients are in it if there were no gaps.
LEMMA EntryAdded ==
    ASSUME ClientFile(clients), NEW a \in Addrs, clients' = Put(clients, NewKey, a)
    PROVE  /\ ClientFile(clients')
           /\ Known(a)'
           /\ NoGaps' => /\ NoGaps
                         /\ \A b \in Addrs : Known(b) => Known(b)'
<1> DEFINE D == DOMAIN clients
<1>1. IsFiniteSet(D) /\ D \subseteq Int /\ \A x \in D : clients[x] \in Addrs
  BY DEF ClientFile
<1>2. Cardinality(D) \in Nat /\ NewKey = Cardinality(D) + 1
  BY <1>1, FS_CardinalityType DEF NewKey
<1>3. PICK k \in Nat : k = NewKey
  BY <1>2
<1>4. /\ DOMAIN clients' = D \cup {k}
      /\ \A x \in D \cup {k} : clients'[x] = IF x = k THEN a ELSE clients[x]
      /\ clients' = [x \in DOMAIN clients' |-> clients'[x]]
  BY <1>3 DEF Put
<1> HIDE DEF D
<1>5. IsFiniteSet(D \cup {k}) /\ Cardinality(D \cup {k}) = IF k \in D THEN Cardinality(D) ELSE Cardinality(D) + 1
  BY <1>1, FS_AddElement
<1>6. ClientFile(clients')
  <2>1. \A x \in DOMAIN clients' : clients'[x] \in Addrs
    BY <1>1, <1>4
  <2>2. clients' \in [DOMAIN clients' -> Addrs]
    BY <1>4, <2>1
  <2> QED
    BY <1>1, <1>4, <1>5, <2>2 DEF ClientFile
<1>7. Known(a)'
  BY <1>4 DEF Known
<1>8. ASSUME NoGaps'
      PROVE  k \notin D /\ NoGaps
  <2>1. \A x \in D \cup {k} : x < Cardinality(D \cup {k}) + 1
    BY <1>4, <1>8 DEF NoGaps, NewKey
  <2>2. k \notin D
    <3>1. k < Cardinality(D \cup {k}) + 1
      BY <2>1, Zenon
    <3>2. k = Cardinality(D) + 1 /\ Cardinality(D) \in Nat
      BY <1>2, <1>3
    <3> QED
      BY <1>5, <3>1, <3>2
  <2>3. \A x \in D : x < k
    BY <1>1, <1>2, <1>3, <1>5, <2>1, <2>2
  <2> QED
    BY <1>3, <2>2, <2>3 DEF NoGaps, D
<1>9. ASSUME k \notin D, NEW b \in Addrs, Known(b)
      PROVE  Known(b)'
  BY <1>4, <1>9 DEF Known, D
<1> QED
  BY <1>6, <1>7, <1>8, <1>9

\* Whatever saveClientInfo() does to the file, it loses none of the addresses it has recorded.
LEMMA FileSaved ==
    ASSUME ClientFile(clients), readable \in BOOLEAN, recorded \subseteq Addrs, RecordedClientsKept,
           NEW a \in Addrs, SaveClientInfo(a)
    PROVE  ClientFile(clients') /\ readable' \in BOOLEAN /\ recorded' \subseteq Addrs /\ RecordedClientsKept'
<1>1. readable' \in BOOLEAN /\ recorded' \subseteq Addrs
  BY DEF SaveClientInfo, WriteFails, file
<1>2. CASE UNCHANGED file
  BY <1>2 DEF file, RecordedClientsKept, NoGaps, NewKey, Known
<1>3. CASE readable' = FALSE /\ clients' = <<>>
  <2>1. ClientFile(<<>>)
    <3>1. DOMAIN <<>> = {}
      OBVIOUS
    <3> QED
      BY <3>1, FS_EmptySet DEF ClientFile
  <2> QED
    BY <1>1, <1>3, <2>1 DEF RecordedClientsKept
<1>4. CASE /\ readable /\ Known(a) /\ UNCHANGED <<clients, readable>>
           /\ recorded' = recorded \cup {a}
  BY <1>1, <1>4 DEF RecordedClientsKept, NoGaps, NewKey, Known
<1>5. CASE /\ readable /\ clients' = Put(clients, NewKey, a) /\ UNCHANGED readable
           /\ recorded' = recorded \cup {a}
  <2>1. /\ ClientFile(clients')
        /\ Known(a)'
        /\ NoGaps' => /\ NoGaps
                      /\ \A b \in Addrs : Known(b) => Known(b)'
    BY <1>5, EntryAdded
  <2>2. ASSUME NoGaps', NEW b \in recorded'
        PROVE  Known(b)'
    BY <1>5, <2>1, <2>2 DEF RecordedClientsKept
  <2>3. RecordedClientsKept'
    BY <2>2 DEF RecordedClientsKept
  <2> QED
    BY <1>1, <2>1, <2>3
<1> QED
  BY <1>2, <1>3, <1>4, <1>5 DEF SaveClientInfo, WriteFails
-----------------------------------------------------------------------------
(* The inductive invariant. *)

\* It holds initially.
LEMMA InitInv == Init => IInv
<1> SUFFICES ASSUME Init PROVE IInv
  OBVIOUS
<1>1. TypeOK
  <2>1. msg \in [Msgs -> Message] /\ replies \in [Conns -> Seq(Reply)]
    BY DEF Init, Message, Kinds
  <2>2. running_ \in BOOLEAN /\ readable \in BOOLEAN /\ irregular \in BOOLEAN
    BY DEF Init
  <2>3. ClientFile(clients) /\ recorded \subseteq Addrs
    <3>1. ClientFile(<<>>)
      <4>1. DOMAIN <<>> = {}
        OBVIOUS
      <4> QED
        BY <4>1, FS_EmptySet DEF ClientFile
    <3> QED
      BY <2>2, <3>1, FilesAssumption DEF Init
  <2> QED
    BY <2>1, <2>2, <2>3 DEF Init, TypeOK, Message, Reply
<1>2. CountIsExact
  <2>1. OpenConns = {}
    BY DEF Init, OpenConns
  <2> QED
    BY <2>1, FS_EmptySet, LimitAssumption DEF Init, CountIsExact
<1>3. RecordedClientsKept /\ SenderKnown /\ AnsweredOnce /\ AnswersToSender
  BY DEF Init, RecordedClientsKept, SenderKnown, AnsweredOnce, AnswersToSender
<1> QED
  BY <1>1, <1>2, <1>3 DEF IInv

\* Every step keeps it.
LEMMA NextInv ==
    ASSUME IInv, [Next]_vars
    PROVE  IInv'
<1> USE DEF server, count, file, IInv
<1>1. /\ msg \in [Msgs -> Message] /\ replies \in [Conns -> Seq(Reply)]
      /\ conn \in [Conns -> {"new", "open", "closed"}]
  BY DEF TypeOK, Message, Reply
<1>0. ASSUME UNCHANGED file
      PROVE  RecordedClientsKept'
  BY <1>0 DEF RecordedClientsKept, NoGaps, NewKey, Known
<1>2. ASSUME UNCHANGED <<msg, replies>>
      PROVE  SenderKnown' /\ AnsweredOnce' /\ AnswersToSender'
  BY <1>2 DEF SenderKnown, AnsweredOnce, AnswersToSender
<1>3. ASSUME UNCHANGED <<count, conn>>
      PROVE  CountIsExact'
  BY <1>3 DEF CountIsExact, OpenConns
<1>4. \A d \in Conns : /\ replies[d] \in Seq(Reply)
                       /\ \A i \in 1..Len(replies[d]) : replies[d][i] \in Reply
  BY <1>1, ElementOfSeq
<1>5. \A d \in Conns : \A i \in 1..Len(replies[d]) : replies[d][i].to \in Msgs
  BY <1>4 DEF Reply
<1>6. CASE UNCHANGED vars
  BY <1>6, <1>0, <1>2, <1>3 DEF vars, TypeOK
<1>7. CASE RunSetup
  BY <1>7, <1>0, <1>2, <1>3 DEF RunSetup, TypeOK
<1>8. CASE RunFlag
  BY <1>8, <1>0, <1>2, <1>3 DEF RunFlag, TypeOK
<1>9. CASE RunReturn
  BY <1>9, <1>0, <1>2, <1>3 DEF RunReturn, TypeOK
<1>10. CASE StopEndpoint
  BY <1>10, <1>0, <1>2, <1>3 DEF StopEndpoint, TypeOK
<1>11. CASE StopFlag
  BY <1>11, <1>0, <1>2, <1>3 DEF StopFlag, TypeOK
<1>12. ASSUME NEW c \in Conns, OnOpen(c)
      PROVE  IInv'
  <2>0. ClientFile(clients') /\ readable' \in BOOLEAN /\ recorded' \subseteq Addrs /\ RecordedClientsKept'
    BY <1>12, FileSaved, FilesAssumption DEF OnOpen, TypeOK
  <2>1. TypeOK'
    <3>1. conn' \in [Conns -> {"new", "open", "closed"}] /\ active_connections_' \in Int
      BY <1>12 DEF OnOpen, TypeOK
    <3> QED
      BY <1>12, <2>0, <3>1 DEF OnOpen, TypeOK
  <2>2. CountIsExact'
    <3>1. Cardinality(OpenConns) \in Nat /\ Cardinality(OpenConns') = Cardinality(OpenConns) + 1
      BY <1>12, <1>1, CountOpens DEF OnOpen
    <3> QED
      BY <1>12, <3>1, LimitAssumption DEF OnOpen, OverLimit, CountIsExact
  <2> QED
    BY <1>12, <1>2, <2>0, <2>1, <2>2 DEF OnOpen
<1>13. ASSUME NEW c \in Conns, OnOpenRefuses(c)
      PROVE  IInv'
  BY <1>13, <1>0, <1>2 DEF OnOpenRefuses, TypeOK, CountIsExact
<1>14. ASSUME NEW c \in Conns, OnOpenThrows(c)
      PROVE  IInv'
  BY <1>14, <1>0, <1>2 DEF OnOpenThrows, TypeOK, CountIsExact
<1>15. ASSUME NEW c \in Conns, OnCloseThrows(c)
      PROVE  IInv'
  BY <1>15, <1>0, <1>2 DEF OnCloseThrows, TypeOK, CountIsExact
<1>16. ASSUME NEW c \in Conns, OnClose(c)
      PROVE  IInv'
  <2>1. TypeOK' /\ RecordedClientsKept'
    <3>1. conn' \in [Conns -> {"new", "open", "closed"}] /\ active_connections_' \in Int
      BY <1>16 DEF OnClose, TypeOK
    <3> QED
      BY <1>16, <1>0, <3>1 DEF OnClose, TypeOK
  <2>2. CountIsExact'
    <3>1. Cardinality(OpenConns) \in Nat /\ Cardinality(OpenConns') = Cardinality(OpenConns) - 1
      BY <1>16, <1>1, CountCloses DEF OnClose
    <3> QED
      BY <1>16, <3>1, LimitAssumption DEF OnClose, CountIsExact
  <2> QED
    BY <1>16, <1>2, <2>1, <2>2 DEF OnClose
<1>17. ASSUME NEW c \in Conns, NEW m \in Msgs, NEW k \in Kinds, OnMessage(c, m, k)
      PROVE  IInv'
  <2>1. msg' \in [Msgs -> Message]
    BY <1>17, <1>1 DEF OnMessage, Message
  <2>2. TypeOK' /\ RecordedClientsKept' /\ CountIsExact'
    BY <1>17, <1>0, <1>3, <2>1 DEF OnMessage, TypeOK, Message
  <2>3. \A d \in Conns : \A i \in 1..Len(replies[d]) : replies[d][i].to # m
    BY <1>17 DEF OnMessage, AnsweredOnce
  <2>4. \A x \in Msgs : x # m => msg'[x] = msg[x]
    BY <1>17, <1>1 DEF OnMessage
  <2>5. SenderKnown'
    BY <1>17, <1>1, <2>4 DEF OnMessage, SenderKnown
  <2>6. AnsweredOnce' /\ AnswersToSender'
    BY <1>17, <1>5, <2>3, <2>4 DEF OnMessage, AnsweredOnce, AnswersToSender
  <2> QED
    BY <2>2, <2>5, <2>6
<1>18. ASSUME NEW m \in Msgs, Process(m)
      PROVE  IInv'
  <2>1. msg[m] \in Message /\ msg[m].st = "processing"
    BY <1>18, <1>1 DEF Process
  <2>2. /\ msg' \in [Msgs -> Message]
        /\ msg'[m].at = msg[m].at /\ msg'[m].st = IF NoAnswer(m) THEN "dropped" ELSE "answered"
        /\ \A x \in Msgs : x # m => msg'[x] = msg[x]
    BY <1>18, <1>1, <2>1 DEF Process, Message
  <2>3. \A d \in Conns : \A i \in 1..Len(replies[d]) : replies[d][i].to \in Msgs \ {m}
    BY <1>5, <2>1 DEF AnsweredOnce
  <2>6. SenderKnown'
    BY <2>1, <2>2 DEF SenderKnown
  <2>4. CASE UNCHANGED replies
    <3>1. AnsweredOnce' /\ AnswersToSender'
      BY <2>2, <2>3, <2>4 DEF AnsweredOnce, AnswersToSender
    <3> QED
      BY <1>18, <1>0, <1>3, <2>2, <2>4, <2>6, <3>1 DEF Process, TypeOK, Message
  <2>5. CASE ~NoAnswer(m) /\ conn[msg[m].at] = "open" /\ replies' # replies
    <3> DEFINE c == msg[m].at
               r == [to |-> m, text |-> Answer(m)]
    <3>1. c \in Conns
      BY <2>1 DEF SenderKnown
    <3>2. r \in Reply /\ r.to = m
      BY DEF Reply, Answer
    <3>3. replies' = [replies EXCEPT ![c] = Append(replies[c], r)]
      BY <1>18, <2>5 DEF Process
    <3> HIDE DEF c, r
    <3>4. /\ replies' \in [Conns -> Seq(Reply)]
          /\ \A d \in Conns : d # c => replies'[d] = replies[d]
          /\ replies'[c] = Append(replies[c], r)
      BY <1>1, <3>1, <3>2, <3>3
    <3>5. TypeOK' /\ RecordedClientsKept' /\ CountIsExact'
      BY <1>18, <1>0, <1>3, <2>2, <3>4 DEF Process, TypeOK, Message, Reply
    <3>6. ASSUME NEW d \in Conns, NEW i \in 1..Len(replies'[d])
          PROVE  \/ i \in 1..Len(replies[d]) /\ replies'[d][i] = replies[d][i]
                 \/ d = c /\ i = Len(replies[c]) + 1 /\ replies'[d][i] = r
      <4>1. CASE d = c
        <5>1. replies[c] \in Seq(Reply) /\ replies'[d] = Append(replies[c], r)
          BY <1>4, <3>1, <3>4, <4>1
        <5> QED
          BY <3>2, <4>1, <5>1, AppendProperties
      <4>2. CASE d # c
        BY <3>4, <4>2
      <4> QED
        BY <4>1, <4>2
    <3>7. AnsweredOnce'
      BY <2>2, <2>3, <2>5, <3>2, <3>6 DEF AnsweredOnce
    <3>8. AnswersToSender'
      <4> SUFFICES ASSUME NEW d \in Conns, NEW i \in 1..Len(replies'[d]), NEW j \in 1..Len(replies'[d])
                   PROVE  /\ msg'[replies'[d][i].to].at = d
                          /\ i # j => replies'[d][i].to # replies'[d][j].to
        BY DEF AnswersToSender
      <4>1. msg'[replies'[d][i].to].at = d
        BY <2>2, <2>3, <3>2, <3>6 DEF AnswersToSender, c
      <4>2. i # j => replies'[d][i].to # replies'[d][j].to
        BY <2>3, <3>2, <3>6 DEF AnswersToSender
      <4> QED
        BY <4>1, <4>2
    <3> QED
      BY <2>6, <3>5, <3>7, <3>8
  <2> QED
    BY <1>18, <2>4, <2>5 DEF Process
<1> QED
  BY <1>6, <1>7, <1>8, <1>9, <1>10, <1>11, <1>12, <1>13, <1>14, <1>15, <1>16, <1>17, <1>18
     DEF Next, Handler

\* Every reachable state of the server is of its type.
THEOREM TypeCorrect == Spec => []TypeOK
<1>1. IInv => TypeOK
  BY DEF IInv
<1>2. IInv /\ [Next]_vars => IInv'
  BY NextInv
<1>3. QED
  BY <1>1, <1>2, InitInv, PTL DEF Spec

\* As long as onOpen() and onClose() run to their ends, active_connections_ counts the open
\* connections and the limit is respected, however many there are.
THEOREM ActiveConnectionsAreCounted == Spec => []CountIsExact
<1>1. IInv => CountIsExact
  BY DEF IInv
<1>2. IInv /\ [Next]_vars => IInv'
  BY NextInv
<1>3. QED
  BY <1>1, <1>2, InitInv, PTL DEF Spec

\* While clients.json can be read it holds every address that saveClientInfo() has written, if
\* it is a list or an object without gaps in the numbers of its names.
THEOREM RecordsAreKept == Spec => []RecordedClientsKept
<1>1. IInv => RecordedClientsKept
  BY DEF IInv
<1>2. IInv /\ [Next]_vars => IInv'
  BY NextInv
<1>3. QED
  BY <1>1, <1>2, InitInv, PTL DEF Spec

\* Of any number of threads in processMessage() none answers a client that did not ask, and none
\* answers a message that was answered.
THEOREM AnswersReachTheirSender == Spec => []AnswersToSender
<1>1. IInv => AnswersToSender
  BY DEF IInv
<1>2. IInv /\ [Next]_vars => IInv'
  BY NextInv
<1>3. QED
  BY <1>1, <1>2, InitInv, PTL DEF Spec
=============================================================================
