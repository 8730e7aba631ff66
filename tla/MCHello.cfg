SPECIFICATION Spec
CONSTANTS
 Peer = peer PeerMac = mac NoMac = nomac
 HelloInterval = 3 PurgeDelay = 2 AllowedHelloLoss = 2 ActiveRouteTimeout = 1 StartDelay = 2 MaxJitter = 1
INVARIANTS TypeOK NeverSilent LinkKeptWhileHeard
PROPERTY VanishedDetected
