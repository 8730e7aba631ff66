SPECIFICATION FairSpec
CONSTANTS
 A = A  B = B  C = C  D = D
 Addr = {A, B, C}
 Node = {A, B, C}
 Link <- Line3
 Packet <- One
 Iface = {wlan} Wlan = wlan NoAddr = none NoIface = noiface Bcast = bcast
 BadLinkLifetime = 2 RreqCntMod = 256
 TtlStart = 1 TtlIncrement = 1 TtlThreshold = 1 NetDiameter = 2
 ActiveRouteTimeout = 1 MyRouteTimeout = 2 PathDiscoveryTime = 2
 NetTraversalTime = 1 NodeTraversalTime = 0 HelloLifetime = 1
 SeqNoMod = 16 FoldedComparison = TRUE InitialSeqNo = 7
 GratuitousReply = TRUE DestinationOnly = FALSE
 DataTtl = 3 RreqRetries = 1 RreqRateLimit = 1 RerrRateLimit = 10
 MaxQueueLen = 2 MaxQueueTime = 2 PatientTimers = FALSE
 MaxRequestId = 6 MaxLoss = 1 MaxFault = 1 MaxHello = 0 MaxTick = 1
INVARIANTS TypeOK SearchHasWakeup NoStrandedPacket
PROPERTIES PacketSettled SearchSettled
CHECK_DEADLOCK FALSE
