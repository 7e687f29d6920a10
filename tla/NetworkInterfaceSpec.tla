------------------------ MODULE NetworkInterfaceSpec ------------------------
(***************************************************************************)
(* One NetworkInterface on an Ethernet.  The layer above hands it          *)
(* datagrams, numbered in the order it does so, each with a next hop;      *)
(* ARP messages from any station, asked for or not, arrive at any time,    *)
(* and time passes.  The owner takes the frames out after every call;      *)
(* `out` holds the frames of the last step.                                *)
(***************************************************************************)
EXTENDS NetworkInterface

CONSTANTS
  OwnEth, OwnIp,   \* the interface's addresses
  Eths, Ips,       \* the other stations' addresses
  Ticks,           \* the durations a tick may report
  MaxDatagrams     \* bound: the datagrams handed to the interface

ASSUME InterfaceAssumption ==
  /\ {ARP_REQ_TIME, CACHE_VALID_TIME} \subseteq Nat \ {0}
  /\ ARP_REQ_TIME <= CACHE_VALID_TIME
  /\ Ticks \subseteq Nat \ {0}
  /\ MaxDatagrams \in Nat
  /\ OwnIp \notin Ips
  /\ OwnEth \notin Eths
  /\ ETHERNET_BROADCAST \notin Eths \cup {OwnEth}

VARIABLES
  ni,      \* the object
  out,     \* the frames that left in the last step
  given,   \* history: the next hop of every datagram, in order
  framed,  \* history: the datagrams that left in an IPv4 frame, in order
  heard,   \* history: the address last announced for an IP, and how long ago
  asked    \* history: how long ago an IP was asked for

vars == <<ni, out, given, framed, heard, asked>>

\* Ages stop counting at Old.
Old == CACHE_VALID_TIME

Init ==
  /\ ni = New(OwnEth, OwnIp)
  /\ out = << >>
  /\ given = << >>
  /\ framed = << >>
  /\ heard = [ip \in Ips |-> [addr |-> NoEthernetAddress, age |-> Old]]
  /\ asked = [ip \in Ips |-> Old]

DatagramsIn(frames) ==
  LET ipv4 == selected(frames, {f \in {frames[i] : i \in DOMAIN frames} : f.type = "IPv4"})
  IN  [i \in DOMAIN ipv4 |-> ipv4[i].payload]

IsRequest(f, ip) ==
  f.type = "ARP" /\ f.payload.opcode = "REQUEST" /\ f.payload.target_ip = ip

AsksFor(frames, ip) == \E i \in DOMAIN frames : IsRequest(frames[i], ip)

\* The owner empties frames_out after the call that left the interface in n.
Return(n) ==
  /\ ni' = [n EXCEPT !.frames_out = << >>]
  /\ out' = n.frames_out
  /\ framed' = framed \o DatagramsIn(n.frames_out)

SendDatagram(hop) ==
  /\ Len(given) < MaxDatagrams
  /\ given' = Append(given, hop)
  /\ Return(send_datagram(ni, Len(given'), hop))
  /\ asked' = [ip \in Ips |-> IF AsksFor(out', ip) THEN 0 ELSE asked[ip]]
  /\ UNCHANGED heard

\* An ARP frame; it need not be for us, and it need not answer anything.
RecvArp(dst, opcode, ip, eth, target) ==
  LET msg == [ opcode |-> opcode, sender_eth |-> eth, sender_ip |-> ip,
               target_eth |-> dst, target_ip |-> target ]
      f   == frame(eth, dst, "ARP", msg)
  IN  /\ Return(recv_frame(ni, f))
      /\ heard' = IF for_us(ni, f)
                  THEN [heard EXCEPT ![ip] = [addr |-> eth, age |-> 0]]
                  ELSE heard
      /\ UNCHANGED <<given, asked>>

Older(age, ms) == IF age + ms < Old THEN age + ms ELSE Old

Tick(ms) ==
  /\ Return(tick(ni, ms))
  /\ heard' = [ip \in Ips |-> [heard[ip] EXCEPT !.age = Older(@, ms)]]
  /\ asked' = [ip \in Ips |-> Older(asked[ip], ms)]
  /\ UNCHANGED given

Next ==
  \/ \E hop \in Ips : SendDatagram(hop)
  \/ \E dst \in Eths \cup {OwnEth, ETHERNET_BROADCAST},
        opcode \in {"REQUEST", "REPLY"},
        ip \in Ips, eth \in Eths, target \in Ips \cup {OwnIp} :
          RecvArp(dst, opcode, ip, eth, target)
  \/ \E ms \in Ticks : Tick(ms)

Spec == Init /\ [][Next]_vars
-----------------------------------------------------------------------------
Hop(ip) == {d \in DOMAIN given : given[d] = ip}

ToHop(ip, dgrams) == selected(dgrams, Hop(ip))

Queued == [i \in DOMAIN ni.queueing_IP_datagrams |-> ni.queueing_IP_datagrams[i].dgram]

AllGiven == [d \in DOMAIN given |-> d]

(* Per next hop, the datagrams that have left followed by those that wait  *)
(* are exactly the ones that were handed over, in that order: none is      *)
(* lost, sent twice or overtaken while addresses are learned and expire.   *)
PerHopFifo ==
  \A ip \in Ips : ToHop(ip, framed) \o ToHop(ip, Queued) = ToHop(ip, AllGiven)

(* A datagram waits only for an address that is not known and that has     *)
(* been asked for; an address is never both known and being asked for.     *)
WaitingMeansAsked ==
  /\ \A i \in DOMAIN ni.queueing_IP_datagrams :
        ni.queueing_IP_datagrams[i].hop \in DOMAIN ni.arp_timer
  /\ DOMAIN ni.arp_timer \cap DOMAIN ni.ethernet_addr_cache = {}

(* The cache is what was heard less than CACHE_VALID_TIME ago: the latest  *)
(* announcement wins, it is forgotten in time and not before.              *)
CacheIsRecentHearsay ==
  \A ip \in Ips :
    IF heard[ip].age < CACHE_VALID_TIME
    THEN /\ ip \in DOMAIN ni.ethernet_addr_cache
         /\ ni.ethernet_addr_cache[ip] = [addr |-> heard[ip].addr, timer |-> heard[ip].age]
    ELSE ip \notin DOMAIN ni.ethernet_addr_cache

(* network_interface.hh, line 53: "DON'T send the same ARP request about   *)
(* the same IP addr in the last 5 secs".  An answer in between does not    *)
(* open a loophole, because what it taught outlives the pause.             *)
RequestsArePaced ==
  [][\A ip \in Ips : AsksFor(out', ip) => asked[ip] >= ARP_REQ_TIME]_vars
=============================================================================
