SPECIFICATION Spec
CONSTANTS
    Conns = {k1, k2, k3}
    old = old
    Addrs <- MCAddrs
    Addr <- MCAddr
    Files <- MCFiles
    Msgs = {m1}
    max_connections_ = 2
    NoConn = NoConn
    SocketsVanish = FALSE
INVARIANTS ConnectionLimit
CHECK_DEADLOCK FALSE
