CONSTANTS
  AddressBits = 5
  ARP_REQ_TIME = 2
  CACHE_VALID_TIME = 4
  ETHERNET_BROADCAST = "broadcast"
  NoEthernetAddress = "zero"
  Interfaces <- MCInterfaces
  Hosts <- MCHosts
  Links <- MCLinks
  RouteOrders <- MCRouteOrders
  Senders = {"applesauce", "cherrypie", "dm42", "dm43"}
  Destinations = {1, 5, 6, 9, 13, 21, 22, 23, 26}
  Ttls = {0, 1, 2}
  Rounds = 6
  MaxDatagrams = 2
SPECIFICATION Spec
INVARIANTS AllRouted QuietInTheEnd CachesAreTrue
