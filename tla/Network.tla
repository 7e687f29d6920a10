------------------------------ MODULE Network ------------------------------
(***************************************************************************)
(* The classes Host and Network of apps/network_simulator.cc: a Router and *)
(* hosts whose interfaces are joined by physical connections.  A station   *)
(* is <<"router", i>>, the router's interface i, or <<"host", name>>.      *)
(*                                                                         *)
(* A Host is a record; its AsyncNetworkInterface is a NetworkInterface and *)
(* the queue of the datagrams that arrived for it.                         *)
(***************************************************************************)
EXTENDS Router

CONSTANTS
  Interfaces,   \* the addresses of the router's interfaces: a sequence of [eth, ip]
  Hosts,        \* a function from names to [eth, ip, next_hop]
  Links         \* the physical connections: a sequence of sequences of stations

Station == ({"router"} \X DOMAIN Interfaces) \cup ({"host"} \X DOMAIN Hosts)

\* An interface is connected once.
ASSUME LinksAssumption ==
  /\ Interfaces \in Seq(Range(Interfaces))
  /\ Links \in Seq(Seq(Station))
  /\ \A j, k \in DOMAIN Links : j # k => Range(Links[j]) \cap Range(Links[k]) = {}

NewHost(h) ==
  [ interface     |-> NI!New(h.eth, h.ip),
    datagrams_out |-> << >>,
    next_hop      |-> h.next_hop,
    expecting     |-> << >>,
    threw         |-> FALSE ]

NewNetwork(routes) ==
  [ router |-> FoldLeft(add_route, New(Interfaces), routes),
    hosts  |-> [name \in DOMAIN Hosts |-> NewHost(Hosts[name])] ]

send_to(host, dgram) ==
  [host EXCEPT !.interface = NI!send_datagram(@, dgram, host.next_hop)]

expect(host, dgram) == [host EXCEPT !.expecting = Append(@, dgram)]

\* AsyncNetworkInterface::recv_frame() of a host.
host_recv_frame(host, f) ==
  [host EXCEPT
     !.interface = NI!recv_frame(@, f),
     !.datagrams_out =
        IF NI!returns_datagram(host.interface, f) THEN Append(@, f.payload) ELSE @]

\* One datagram that arrived at a host that checks.
check_one(host, dgram) ==
  IF Contains(host.expecting, dgram)
  THEN [host EXCEPT !.expecting = RemoveFirst(@, dgram)]
  ELSE [host EXCEPT !.threw = TRUE]

check(host) ==
  LET checked == FoldLeft(check_one, host, host.datagrams_out)
  IN  [checked EXCEPT !.datagrams_out = << >>,
                      !.threw = @ \/ checked.expecting # << >>]
-----------------------------------------------------------------------------
interface(net, s) ==
  IF s[1] = "router" THEN net.router.interfaces[s[2]] ELSE net.hosts[s[2]].interface

recv(net, s, f) ==
  IF s[1] = "router"
  THEN [net EXCEPT !.router = recv_frame(@, s[2], f)]
  ELSE [net EXCEPT !.hosts[s[2]] = host_recv_frame(@, f)]

deliver(net, frames, s) == FoldLeft(LAMBDA n, f : recv(n, s, f), net, frames)

\* Mutant: the queue is emptied, with what was queued meanwhile.
clear_all(net, s, frames) ==
  IF s[1] = "router"
  THEN [net EXCEPT !.router.interfaces[s[2]].frames_out = << >>]
  ELSE [net EXCEPT !.hosts[s[2]].interface.frames_out = << >>]

\* As many frames leave the queue of s as were delivered.
clear(net, s, frames) ==
  LET rest(queue) == SubSeq(queue, Len(frames) + 1, Len(queue))
  IN  IF s[1] = "router"
      THEN [net EXCEPT !.router.interfaces[s[2]].frames_out = rest(@)]
      ELSE [net EXCEPT !.hosts[s[2]].interface.frames_out = rest(@)]

\* From each station on a link to each other one, in the order of the calls.
Pairs(link) ==
  LET n == Len(link)
  IN  NI!selected([k \in 1 .. n * n |-> <<1 + (k - 1) \div n, 1 + ((k - 1) % n)>>],
                  {p \in (1 .. n) \X (1 .. n) : p[1] # p[2]})

deliver_to_others(net, link, frames) ==
  FoldLeft(LAMBDA n, p : deliver(n, frames[p[1]], link[p[2]]), net, Pairs(link))

clear_delivered(net, link, frames) ==
  FoldLeftDomain(LAMBDA n, k : clear(n, link[k], frames[k]), net, link)

\* What is on its way when the exchange begins is delivered, and no more.  When
\* that is nothing, no loop of the code has an iteration.
exchange_frames(net, link) ==
  LET frames == [k \in DOMAIN link |-> interface(net, link[k]).frames_out]
  IN  IF \A k \in DOMAIN link : frames[k] = << >> THEN net
      ELSE clear_delivered(deliver_to_others(net, link, frames), link, frames)

simulate_physical_connections(net) == FoldLeft(exchange_frames, net, Links)

\* The body of the loop in simulate().
simulate_once(net) ==
  simulate_physical_connections([net EXCEPT !.router = route(@)])
=============================================================================
