SPECIFICATION Spec
CONSTANTS
 A = A  B = B  C = C  D = D
 Addr = {A, C, D}
 Node = {A}
 Link = {}
 Packet <- HeldBack
 Iface = {wlan} Wlan = wlan NoAddr = none NoIface = noiface Bcast = bcast
 BadLinkLifetime = 2 RreqCntMod = 256
 TtlStart = 2 TtlIncrement = 1 TtlThreshold = 1 NetDiameter = 2
 ActiveRouteTimeout = 1 MyRouteTimeout = 2 PathDiscoveryTime = 2
 NetTraversalTime = 1 NodeTraversalTime = 0 HelloLifetime = 1
 SeqNoMod = 16 FoldedComparison = FALSE InitialSeqNo = 15
 GratuitousReply = TRUE DestinationOnly = FALSE
 DataTtl = 3 RreqRetries = 1 RreqRateLimit = 1 RerrRateLimit = 10
 MaxQueueLen = 2 MaxQueueTime = 2 PatientTimers = TRUE
 MaxRequestId = 3 MaxLoss = 0 MaxFault = 0 MaxHello = 0 MaxTick = 0
INVARIANT AttemptsBounded
CHECK_DEADLOCK FALSE
