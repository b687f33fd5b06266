SPECIFICATION LoggerSpec
CONSTANTS
    MAX_LOOP_FILE = 3
    LOG_FILE_SIZE = 2
    Texts = {"p", "q"}
    Started = "starting"
    LogStart = "start"
    NoText = ""
    NoLog = NoLog
    MaxLines = 4
    MaxStarts = 3
INVARIANTS
    LoggerTypeOK
    RingsInOrder
    LogKeepsLatest
    LogFileBounded
    ErrorsMatchLog
    NoRepeatedLine
CHECK_DEADLOCK FALSE
