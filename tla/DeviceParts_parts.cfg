SPECIFICATION PartsSpec
CONSTANTS
  Parts = {"ring", "dmem", "edp", "dns", "link", "ntp"}
  Byte = {0, 1}
  RingSize = 3
  WordSize = 8
  MaxPosts = 1
  PoolSize = 22
  Overhead = 2
  MinAllocation = 2
  MemUnit = 2
  MemSizes = {1, 2, 3, 4, 6, 8}
  Half = 8
  RecvSize = 20
  MaxBin = 3
  MaxSent = 2
  Messages <- MCMessages
  Uploads <- MCUploads
  Addr = {"a"}
  NoAddr = "zero"
  IPADDR_NONE = "none"
  TableSize = 2
  MaxRetries = 2
  Servers = 1
  SeqnoMod = 1
  MaxTtl = 1
  MaxSem = 1
  Pcb = {"p", "q", "r"}
  NoPcb = "null"
  Char <- MCChar
  AnyChar = AnyChar
  DnsName <- MCDnsName
  NameSize = 8
  Queries <- MCQueries
  MaxTicks = 3
  Fd = {1, 2}
  NoSocket = 0
  MaxTries = 1
  TicksPerSec = 2
  TickMod = 16
  Epoch = 100
  Zone = 5
  ServerTime = {100, 103, 107, 109}
INVARIANTS
  PartsTypeOK
  HeapSound
  StreamSound
  AddressGiven
  ServersSound
  NtpSound
PROPERTIES
  ImplementsFifo
  PartsProgress
CHECK_DEADLOCK FALSE
