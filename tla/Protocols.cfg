SPECIFICATION MCSpec
CONSTANTS
    Client = "client"
    Backends = {"b1", "b2", "b3"}
    MaxRequests = 2
    Uploaders = {"a", "b"}
    Names = {"f"}
    RefusedNames = {"no"}
    UploadRequests <- Posts
    Scripts = {"s1", "s2"}
    Outputs <- CgiOutputs
    Bodies = {0, 2}
    MaxRequestSize = 4
    Chunks = {1, 2, 3}
    FileSizes = {0, 1, 4}
    FileRanges <- MCFileRanges
    MaxSendMbuf = 3
    MqttTopics <- MqTopics
    MqttPayloads <- MqPayloads
    MqttIds = {48}
    MqttClients <- MqClients
    MaxPackets = 2
    PacketChunks = {1, 2, 130}
    Garbage = {0, 200}
INVARIANTS
    ProxySound
    WsMessages
    MqttPackets
    HttpWhole
    FilesStored
    FilesServed
    CgiScripts
    UdpMessages
\* A bounded history comes to its end.
CHECK_DEADLOCK FALSE
