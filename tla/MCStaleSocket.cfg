SPECIFICATION Spec
CONSTANTS
 dev1 = dev1 dev2 = dev2 a1 = a1 b1 = b1 a2 = a2
 bcast1 = bcast1 bcast2 = bcast2 n = n origin = origin
 Addr = {loopback, bcast1, bcast2, allhosts, n}
 Iface = {loiface, a1, b1, a2}
 NoAddr = none NoIface = noiface LoIface = loiface Loopback = loopback
 Dev = {dev1, dev2} NoDev = nodev
 DeviceOf <- MCDeviceOf BroadcastOf <- MCBroadcastOf
 AllHosts = allhosts Neighbor = {n}
 Packet = {} Datagram = {}
 BadLinkLifetime = 1 RreqCntMod = 256
 EnableBroadcast = TRUE MaxSocket = 4 Lifetime = 1
INVARIANT OpenSocketHasInterface
CHECK_DEADLOCK FALSE
