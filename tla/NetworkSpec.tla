---------------------------- MODULE NetworkSpec ----------------------------
(***************************************************************************)
(* The program apps/network_simulator.cc: hosts send datagrams to each     *)
(* other and to the outside, each one is expected where the routes lead,   *)
(* and simulate() moves frames and then checks every host.  The program    *)
(* sends one datagram before each simulate(); here any host sends any      *)
(* number of them, to any destination.  Nothing ticks.                     *)
(***************************************************************************)
EXTENDS Network

CONSTANTS
  RouteOrders,    \* orders in which the routes are added: a set of sequences
  Senders,        \* the hosts that send
  Destinations,   \* the destinations of the datagrams
  Ttls,           \* their times to live
  Rounds,         \* the iterations of simulate(), 256 in the code
  MaxDatagrams    \* bound on the datagrams that are sent

ASSUME NetworkAssumption ==
  /\ RouteOrders \subseteq Seq([ route_prefix  : Address,
                                 prefix_length : 0 .. AddressBits,
                                 next_hop      : Address \cup {NoHop},
                                 interface_num : DOMAIN Interfaces ])
  /\ Destinations \subseteq Address
  /\ Ttls \subseteq Nat
  /\ Senders \subseteq DOMAIN Hosts
  /\ {Rounds, MaxDatagrams} \subseteq Nat

VARIABLES
  net,     \* the Network
  round,   \* the iterations simulate() has made; 0: it is not running
  sent     \* the number of datagrams that were sent

vars == <<net, round, sent>>

Init ==
  /\ \E routes \in RouteOrders : net = NewNetwork(routes)
  /\ round = 0
  /\ sent = 0
-----------------------------------------------------------------------------
\* Reference: the host a datagram should come to, by the bits of its address.
Bit(address, n) == (address \div 2 ^ (AddressBits - n)) % 2

Agree(entry, dst) ==
  \A n \in 1 .. entry.prefix_length : Bit(entry.route_prefix, n) = Bit(dst, n)

Table == Range(net.router.routing_table)

BestRoutes(dst) ==
  {entry \in Table : Agree(entry, dst) /\
     \A other \in Table : Agree(other, dst) => other.prefix_length <= entry.prefix_length}

OnLink(i) == UNION {Range(Links[k]) : k \in {k \in DOMAIN Links : <<"router", i>> \in Range(Links[k])}}

\* The hosts that a datagram for dst with that time to live must reach.
Goal(dst, ttl) ==
  {name \in DOMAIN Hosts : ttl > 1 /\ \E entry \in BestRoutes(dst) :
     /\ <<"host", name>> \in OnLink(entry.interface_num)
     /\ Hosts[name].ip = IF entry.next_hop = NoHop THEN dst ELSE entry.next_hop}
-----------------------------------------------------------------------------
Threw == \E h \in DOMAIN Hosts : net.hosts[h].threw

\* One step of the scenario: send_to(), ttl--, expect().
SendTo(name, dst, ttl) ==
  LET dgram == [id |-> sent + 1, src |-> Hosts[name].ip, dst |-> dst, ttl |-> ttl]
      hosts == [net.hosts EXCEPT ![name] = send_to(@, dgram)]
  IN  /\ round = 0
      /\ ~Threw
      /\ sent < MaxDatagrams
      /\ sent' = sent + 1
      /\ net' = [net EXCEPT !.hosts = [h \in DOMAIN Hosts |->
           IF h \in Goal(dst, ttl)
           THEN expect(hosts[h], [dgram EXCEPT !.ttl = @ - 1])
           ELSE hosts[h]]]
      /\ UNCHANGED round

\* An iteration of the loop in simulate().
Simulate ==
  /\ round < Rounds
  /\ ~Threw
  /\ round' = round + 1
  /\ net' = simulate_once(net)
  /\ UNCHANGED sent

\* The end of simulate(): every host checks what it received.
Check ==
  /\ round = Rounds
  /\ round' = 0
  /\ net' = [net EXCEPT !.hosts = [h \in DOMAIN Hosts |-> check(@[h])]]
  /\ UNCHANGED sent

Next ==
  \/ \E name \in Senders, dst \in Destinations, ttl \in Ttls : SendTo(name, dst, ttl)
  \/ Simulate
  \/ Check

Spec == Init /\ [][Next]_vars
-----------------------------------------------------------------------------
(* router.hh, lines 57-59, and Host::check(): every datagram comes to the  *)
(* host "specified by the route with the longest prefix_length that        *)
(* matches", once and with its time to live decremented, and to nobody     *)
(* else; one whose time is up comes to nobody.  Routes were added in any   *)
(* order, and datagrams wait for addresses side by side.                   *)
AllRouted == ~Threw

Stations == UNION {Range(Links[k]) : k \in DOMAIN Links}

(* When the rounds of simulate() are over, nothing moves any more: no      *)
(* frame is on a connection, nothing is left to route, and a datagram      *)
(* waits at an interface only for a neighbour that does not exist there.   *)
(* So any larger number of rounds, such as the 256, does the same.         *)
QuietInTheEnd ==
  round = Rounds =>
    /\ \A s \in Stations : interface(net, s).frames_out = << >>
    /\ \A i \in DOMAIN Interfaces :
         /\ net.router.datagrams_out[i] = << >>
         /\ \A q \in Range(net.router.interfaces[i].queueing_IP_datagrams) :
              ~\E s \in OnLink(i) : interface(net, s).ip_address = q.hop
    /\ \A h \in DOMAIN Hosts : net.hosts[h].interface.queueing_IP_datagrams = << >>

(* Every address an interface has learned is that of the station that owns *)
(* the IP address, on its own connection: replies to broadcasts on a       *)
(* shared link, and traffic overheard there, teach nobody anything wrong.  *)
CachesAreTrue ==
  \A k \in DOMAIN Links : \A s \in Range(Links[k]) :
    LET cache == interface(net, s).ethernet_addr_cache
    IN  \A address \in DOMAIN cache : \E t \in Range(Links[k]) :
          /\ interface(net, t).ip_address = address
          /\ interface(net, t).ethernet_address = cache[address].addr
=============================================================================
