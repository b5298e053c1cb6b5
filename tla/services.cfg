SPECIFICATION Spec
CONSTANTS
  Place <- Places
  HostIp = {"i", "j"}
  pingLim = 3
  arpAware = 2
  arpSilent = 4
  Addr = {"i", "j", "g"}
  HostPort = {1, 2}
  Fakeway = {"g"}
  MAX_BUFFERED_PER_IP = 2
  Server = {"a", "b"}
  Client = {"c"}
  ServerPort = {1, 2}
  arp_timeout = 2
  ArpIp = {"i", "j"}
  Mac = {"a", "b"}
  Switch = {1, 2}
  Config <- OneOfEach
  Question <- Questions
  MaxParts = 2
  Conn = {"c1", "c2"}
  WebRequest = {"s", "t", "v"}
  WebFlow = {"f", "g"}
  WebKind <- WebKinds
  FlowsWanted <- WebFlows
  NoRequest = "none"
  Tx = {"r", "l", "c"}
  TxKind <- OfEachKind
  Contact = {0, 1}
  nbMessChan = 1
  MaxRounds = 4
  MaxMoves = 3
  MaxProbes = 5
  MaxPackets = 4
  MaxArps = 3
  MaxQuestions = 3
  MaxSent = 2
  MaxConnects = 2
INVARIANTS
  
  
  StreamsArrive
  
  FloodsTheForest
  RoutesRight
  WaitsOnce
  StaysWithServer
  
  
  RepliesWhole
  RequestsAnswered
  StreamIntact
  DealerSound

  
\* The bounds end every component.
CHECK_DEADLOCK FALSE
