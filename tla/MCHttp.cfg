SPECIFICATION HttpSpec
CONSTANTS
    NoConn = NoConn
    Workers = {w1, w2}
    Conns = {c1, c2}
    Kinds = {"get", "post"}
    BodyUnits <- MCBodyUnits
    Expecting = {"post"}
    Uploads = {"post"}
    Refused = {}
    Closing = {"get"}
    Streamed = {"get"}
    None = None
    NoRequest = NoRequest
    keep_alive_max_count = 2
    read_buff_size = 2
INVARIANTS
    HttpTypeOK
    ServedOnce
    JobsHaveThreads
    AnswersMatch
PROPERTIES
    ConnectionsEnd
    ListenReturns
CHECK_DEADLOCK FALSE
