------------------------------- MODULE Router -------------------------------
(***************************************************************************)
(* The classes Router and AsyncNetworkInterface (libsponge/router.hh,      *)
(* router.cc).  An address is a number of AddressBits bits, 32 in the      *)
(* code; a datagram is a record with a destination and a time to live.     *)
(***************************************************************************)
EXTENDS Naturals, Sequences, SequencesExt, FiniteSetsExt

CONSTANTS
  AddressBits, ARP_REQ_TIME, CACHE_VALID_TIME, ETHERNET_BROADCAST, NoEthernetAddress

ASSUME AddressBitsAssumption == AddressBits \in Nat

NI == INSTANCE NetworkInterface

Address == 0 .. 2 ^ AddressBits - 1

NoHop == 2 ^ AddressBits   \* the empty optional

\* add_interface() for each of the interfaces, given by their addresses.
New(addresses) ==
  [ interfaces    |-> [i \in DOMAIN addresses |-> NI!New(addresses[i].eth, addresses[i].ip)],
    datagrams_out |-> [i \in DOMAIN addresses |-> << >>],
    routing_table |-> << >> ]

\* AsyncNetworkInterface::recv_frame() of interface i.
recv_frame(router, i, f) ==
  [router EXCEPT
     !.interfaces[i] = NI!recv_frame(@, f),
     !.datagrams_out[i] =
        IF NI!returns_datagram(router.interfaces[i], f) THEN Append(@, f.payload) ELSE @]

\* Mutant: the table is not kept sorted.
add_route_last(router, route) == [router EXCEPT !.routing_table = Append(@, route)]

\* In front of the first route with a shorter prefix, or at the end.
add_route(router, route) ==
  LET table   == router.routing_table
      shorter == {i \in DOMAIN table : route.prefix_length > table[i].prefix_length}
      place   == IF shorter = {} THEN Len(table) + 1 ELSE Min(shorter)
  IN  [router EXCEPT !.routing_table = InsertAt(@, place, route)]

\* What is left of an address under the bit mask of a prefix of that length.
masked(address, prefix_length) == address \div 2 ^ (AddressBits - prefix_length)

matches(route, dst) ==
  masked(route.route_prefix, route.prefix_length) = masked(dst, route.prefix_length)

time_is_up(dgram) == dgram.ttl <= 1

route_one_datagram(router, dgram) ==
  LET sent  == [dgram EXCEPT !.ttl = @ - 1]
      first == SelectInSeq(router.routing_table, LAMBDA route : matches(route, dgram.dst))
      route == router.routing_table[first]
      hop   == IF route.next_hop = NoHop THEN dgram.dst ELSE route.next_hop
  IN  IF time_is_up(dgram) \/ first = 0 THEN router
      ELSE [router EXCEPT !.interfaces[route.interface_num] =
                             NI!send_datagram(@, sent, hop)]

\* The outer loop goes over the interfaces, the inner one empties a queue.
route(router) ==
  [FoldLeft(LAMBDA r, queue : FoldLeft(route_one_datagram, r, queue),
            router, router.datagrams_out) EXCEPT
     !.datagrams_out = [i \in DOMAIN @ |-> << >>]]
=============================================================================
