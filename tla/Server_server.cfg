\* Two processes, one of them with two workers and a client.
CONSTANTS
  Process = {p1, p2}
  Home = p1
  Table = {t1, t2}
  Worker = {k1, k2}
  Client = {c1}
  NoClient = NoClient
  MaxSubscribers = 1
  Buffer = 2
  MaxEvents = 2
SPECIFICATION FairSpec
INVARIANTS NoSendToClosed SchemaReady
PROPERTIES InOrder PublishEnds ShutsDown
