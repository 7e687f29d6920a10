----------------------------- MODULE MCNetwork -----------------------------
(***************************************************************************)
(* The network of apps/network_simulator.cc in addresses of five bits: the *)
(* default network 111xx, eth0 010xx, eth1 0010x, eth2 011xx, uun3 110xx,  *)
(* mit5 0011x and, in 10xxx, the three adjacent prefixes of hs4 that leave *)
(* the last address, 10111, to the default route.  eth1 and mit5 are not   *)
(* connected to anything, and the route of mit5 has bits behind its prefix.*)
(***************************************************************************)
EXTENDS NetworkSpec

MCInterfaces ==
  << [eth |-> "r1", ip |-> 28], [eth |-> "r2", ip |-> 8], [eth |-> "r3", ip |-> 4],
     [eth |-> "r4", ip |-> 12], [eth |-> "r5", ip |-> 24], [eth |-> "r6", ip |-> 18],
     [eth |-> "r7", ip |-> 7] >>

MCHost(name, ip, next_hop) == [eth |-> name, ip |-> ip, next_hop |-> next_hop]

MCHosts ==
  [ applesauce     |-> MCHost("h1", 9, 8),
    default_router |-> MCHost("h2", 29, 0),
    cherrypie      |-> MCHost("h3", 13, 12),
    hs_router      |-> MCHost("h4", 17, 0),
    dm42           |-> MCHost("h5", 25, 24),
    dm43           |-> MCHost("h6", 26, 24) ]

MCLinks ==
  << << <<"router", 1>>, <<"host", "default_router">> >>,
     << <<"router", 2>>, <<"host", "applesauce">> >>,
     << <<"router", 4>>, <<"host", "cherrypie">> >>,
     << <<"router", 6>>, <<"host", "hs_router">> >>,
     << <<"router", 5>>, <<"host", "dm42">>, <<"host", "dm43">> >> >>

MCRoute(prefix, length, hop, num) ==
  [ route_prefix |-> prefix, prefix_length |-> length,
    next_hop |-> hop, interface_num |-> num ]

MCRoutes ==
  << MCRoute(0, 0, 29, 1), MCRoute(8, 3, NoHop, 2), MCRoute(4, 4, NoHop, 3),
     MCRoute(12, 3, NoHop, 4), MCRoute(24, 3, NoHop, 5), MCRoute(16, 3, 17, 6),
     MCRoute(20, 4, 17, 6), MCRoute(22, 5, 17, 6), MCRoute(7, 4, 6, 7) >>

MCRouteOrders == {MCRoutes, Reverse(MCRoutes)}
=============================================================================
