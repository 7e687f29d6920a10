CONSTANTS
  ARP_REQ_TIME = 2
  CACHE_VALID_TIME = 4
  ETHERNET_BROADCAST = broadcast
  NoEthernetAddress = zero
  OwnEth = e0
  OwnIp = i0
  Eths = {e1, e2}
  Ips = {i1, i2}
  Ticks = {1, 3}
  MaxDatagrams = 3
SPECIFICATION Spec
INVARIANTS PerHopFifo WaitingMeansAsked CacheIsRecentHearsay
PROPERTIES RequestsArePaced
