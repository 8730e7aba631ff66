SPECIFICATION FairSpec
CONSTANTS
 A = A  B = B  C = C  D = D
 Addr = {A, B, C}
 Node = {A, B, C}
 Link <- Line3
 Packet <- Crossing
 Iface = {wlan} Wlan = wlan NoAddr = none NoIface = noiface Bcast = bcast
 BadLinkLifetime = 2 RreqCntMod = 256
 TtlStart = 1 TtlIncrement = 1 TtlThreshold = 1 NetDiameter = 2
 ActiveRouteTimeout = 1 MyRouteTimeout = 2 PathDiscoveryTime = 2
 NetTraversalTime = 1 NodeTraversalTime = 0 HelloLifetime = 1
 SeqNoMod = 16 FoldedComparison = FALSE InitialSeqNo = 7
 GratuitousReply = TRUE DestinationOnly = FALSE
 DataTtl = 3 RreqRetries = 1 RreqRateLimit = 10 RerrRateLimit = 10
 MaxQueueLen = 2 MaxQueueTime = 2 PatientTimers = TRUE
 MaxRequestId = 3 MaxLoss = 0 MaxFault = 0 MaxHello = 1 MaxTick = 0
INVARIANTS RoutesUsable NoRouteToSelf PacketConserved SeqNoSound
CHECK_DEADLOCK FALSE
PROPERTY Delivery
