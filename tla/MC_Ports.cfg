SPECIFICATION MCSpec
CONSTANTS
  Revision = {1, 2, 3}
  Nets = {1, 2}
  NetOf <- MCNetOf
  Dhcp = {1, 2, 3}
  OwnLease = 2
  TabPort = {1, 2}
  TabGroup = {"ae1", "ae2"}
  TabMembers <- MCTabMembers
  Rows <- MCRows
  LinkLease = 2
  Retry = 1
  Sound = {2}
  MaxSeq = 1
  Member = {1, 2}
  LacpSpeed = {1}
  Pdu <- LacpPdus
  MinLinks = 2
  LeaseMax = 2
  RxDeadline = 2
  Grace = 1
  Wait = 1
  Worker = {1, 2}
  Engine = {1, 2}
  PktLease = 1
  Client = {"a", "b"}
  BcmMembers <- MCBcmMembers
  BcmOffers <- MCBcmOffers
  BcmSpeed = {"s1", "s2"}
  None = None
INVARIANTS
  OwnSafe
  TabSafe
  LacpSafe
  PktSafe
  BcmSafe
PROPERTIES
  FaultCloses
  ConfigQuiet
  PortsProgress
CHECK_DEADLOCK FALSE
