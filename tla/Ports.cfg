SPECIFICATION MCSpec
CONSTANTS
    Objs = {"o1", "o2"}
    Conns = {"a", "b"}
    Names = {"f"}
    Nil = "NULL"
    LwipConns = {"a", "b"}
    LwipBuilds <- MCBuilds
    SlConns = {"a", "b"}
    MaxSock = 2
    MaxBytes = 1
    MaxRestarts = 1
    SlNames <- MCSlNames
    SlPaths <- MCSlPaths
    HintSizes = {1}
    MaxOpen = 2
    MaxSize = 2
    MaxOpens = 3
    MaxHints = 2
    SslConns = {"a", "b", "c"}
    Settings <- PskSettings
    MaxSessions = 3
    MaxStreams = 2
    MaxFrames = 3
    Datagrams <- SntpDatagrams
    MaxReplies = 2
INVARIANTS
    ObjectsKept
    LwipSignals
    SimpleLinkPort
    SslConfigurations
    TunnelStreams
    TimeToldOnce
    FilesKept
\* A bounded history comes to its end.
CHECK_DEADLOCK FALSE
