SPECIFICATION Spec
CONSTANTS
    Conns = {k1, k2}
    old = old
    Addrs <- MCAddrs
    Addr <- MCAddr
    Files <- MCFiles
    Msgs = {m1, m2}
    max_connections_ = 1
    NoConn = NoConn
    SocketsVanish = TRUE
INVARIANTS TypeOK CountIsExact RecordedClientsKept AnswersToSender
PROPERTIES StopEndsRun AcceptedMessagesAnswered
CHECK_DEADLOCK FALSE
