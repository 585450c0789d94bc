CONSTANTS
  MapLife = 6
  ArpWait = 2
  Us = "us"
  Peer = "peer"
  Other = "other"
  IP <- MCIP
  Port <- MCPort
  Eth <- MCEth
  Segments <- MCSegments
  MaxWrites = 3
  Beyond <- MCBeyond
SPECIFICATION Spec
INVARIANT Untouched
INVARIANT OnlyThePeer
INVARIANT Delivered
INVARIANT HeaderDamageSeen
PROPERTY BindsOnce
CHECK_DEADLOCK FALSE
