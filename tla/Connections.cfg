SPECIFICATION FairSpec
CONSTANTS
  Workers = {w1}
  w1 = w1
  Users = {u1}
  u1 = u1
  Masters = {m1}
  m1 = m1
  Peer = Peer
  NFd = 3
  MaxConn = 2
  MaxQueue = 2
  MaxConnects = 2
  MaxSends = 2
  MaxPeerStops = 1
  MaxMulticasts = 1
CHECK_DEADLOCK FALSE
INVARIANT TypeOK
INVARIANT RecordInUse
INVARIANT RecordsAgree
INVARIANT PeerLinked
PROPERTY Served
