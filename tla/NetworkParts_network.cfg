SPECIFICATION NetworkSpec
CONSTANTS
  hard = hard
  short = short
  long = long
  none = none
  Nets <- MCNets
  Hard = hard
  NoNet = none
  First32 <- MCFirst32
  MaxQueue = 3
  MaxLosses = 1
  Macs = {m1, m2, m3}
  NoMac = zero
  NumClients = 3
  ServerHost = 1
  HostMask = 7
  OfferTimeout = 2
  LeaseTime = 2
INVARIANTS
  NetworkTypeOK
  ModeMatches
  NoRogueDhcp
  CredentialsProven
  StoreSound
  OneEntryPerClient
  NoSharedLease
PROPERTIES
  ConnectReturns
  Reclaimed
