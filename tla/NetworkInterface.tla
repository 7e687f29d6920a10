-------------------------- MODULE NetworkInterface --------------------------
(***************************************************************************)
(* The class NetworkInterface (libsponge/network_interface.hh,             *)
(* network_interface.cc): sends IP datagrams in Ethernet frames and learns *)
(* the Ethernet address of the next hop with ARP.  A datagram is any value *)
(* here; IP and Ethernet addresses are model values.                       *)
(***************************************************************************)
EXTENDS Naturals, Sequences

CONSTANTS
  ARP_REQ_TIME,        \* how long a request is not repeated
  CACHE_VALID_TIME,    \* how long a learned address is used
  ETHERNET_BROADCAST,
  NoEthernetAddress    \* EthernetAddress{}

New(ethernet_address, ip_address) ==
  [ ethernet_address      |-> ethernet_address,
    ip_address            |-> ip_address,
    frames_out            |-> << >>,
    ethernet_addr_cache   |-> << >>,
    queueing_IP_datagrams |-> << >>,
    arp_timer             |-> << >> ]

\* Mutant: an entry that is there is kept, as by insert().
put_if_absent(map, key, value) ==
  [k \in DOMAIN map \cup {key} |-> IF k \in DOMAIN map THEN map[k] ELSE value]

\* map[key] = value, on an unordered_map.
put(map, key, value) ==
  [k \in DOMAIN map \cup {key} |-> IF k = key THEN value ELSE map[k]]

erase(map, keys) == [k \in DOMAIN map \ keys |-> map[k]]

frame(src, dst, type, payload) ==
  [src |-> src, dst |-> dst, type |-> type, payload |-> payload]

arp_message(ni, opcode, target_eth, target_ip) ==
  [ opcode     |-> opcode,
    sender_eth |-> ni.ethernet_address,
    sender_ip  |-> ni.ip_address,
    target_eth |-> target_eth,
    target_ip  |-> target_ip ]

push_frame(ni, dst, type, payload) ==
  [ni EXCEPT !.frames_out =
     Append(@, frame(ni.ethernet_address, dst, type, payload))]

\* Mutants: the request is not remembered, and it is repeated at once.
request_forgotten(ni, next_hop) ==
  push_frame(ni, ETHERNET_BROADCAST, "ARP",
             arp_message(ni, "REQUEST", NoEthernetAddress, next_hop))
request_always(ni, next_hop) ==
  push_frame([ni EXCEPT !.arp_timer = put(@, next_hop, 0)], ETHERNET_BROADCAST, "ARP",
             arp_message(ni, "REQUEST", NoEthernetAddress, next_hop))

\* Ask for the address of the next hop, unless that was done recently.
request(ni, next_hop) ==
  IF next_hop \in DOMAIN ni.arp_timer /\ ni.arp_timer[next_hop] < ARP_REQ_TIME
  THEN ni
  ELSE push_frame([ni EXCEPT !.arp_timer = put(@, next_hop, 0)],
                  ETHERNET_BROADCAST, "ARP",
                  arp_message(ni, "REQUEST", NoEthernetAddress, next_hop))

send_datagram(ni, dgram, next_hop) ==
  IF next_hop \in DOMAIN ni.ethernet_addr_cache
  THEN push_frame(ni, ni.ethernet_addr_cache[next_hop].addr, "IPv4", dgram)
  ELSE [request(ni, next_hop) EXCEPT !.queueing_IP_datagrams =
          Append(@, [dgram |-> dgram, hop |-> next_hop])]

\* The elements of s that are in S, in their order, as a loop over s finds them.
selected(s, S) ==
  LET kept[i \in Nat] ==
        IF i = 0 THEN << >>
        ELSE IF s[i] \in S THEN Append(kept[i - 1], s[i]) ELSE kept[i - 1]
  IN  kept[Len(s)]

\* The entries of the queue with this next hop.
for_hop(queue, ip) == {q \in {queue[i] : i \in DOMAIN queue} : q.hop = ip}

\* Mutant: what was sent stays in the queue.
still_waiting_all(queue, ip) == queue

\* What the loop over the queue leaves in it.
still_waiting(queue, ip) ==
  selected(queue, {queue[i] : i \in DOMAIN queue} \ for_hop(queue, ip))

\* Mutant: the addresses of different parties are put together.
learned_mixed(cache, msg) ==
  put(cache, msg.target_ip, [addr |-> msg.sender_eth, timer |-> 0])

\* The mapping of the sender is new.
learned(cache, msg) ==
  put(cache, msg.sender_ip, [addr |-> msg.sender_eth, timer |-> 0])

\* What waits for ip goes out, in order.  The address of ip is in the cache, so
\* every call of send_datagram() pushes a frame.
send_waiting(ni, ip) ==
  LET queue   == ni.queueing_IP_datagrams
      waiting == selected(queue, for_hop(queue, ip))
  IN  [ni EXCEPT
        !.frames_out = @ \o
          [i \in DOMAIN waiting |->
             frame(ni.ethernet_address, ni.ethernet_addr_cache[ip].addr, "IPv4",
                   waiting[i].dgram)],
        !.queueing_IP_datagrams = still_waiting(@, ip)]

\* The cache learns the sender of the message, and what waited for it goes out.
learn(ni, msg) ==
  send_waiting([ni EXCEPT !.ethernet_addr_cache = learned(@, msg),
                          !.arp_timer = erase(@, {msg.sender_ip})],
               msg.sender_ip)

reply(ni, msg) ==
  IF msg.opcode = "REQUEST" /\ msg.target_ip = ni.ip_address
  THEN push_frame(ni, msg.sender_eth, "ARP",
                  arp_message(ni, "REPLY", msg.sender_eth, msg.sender_ip))
  ELSE ni

for_us(ni, f) == f.dst \in {ETHERNET_BROADCAST, ni.ethernet_address}

\* The state recv_frame() leaves behind, for a payload that parses.  What is
\* not IPv4 is taken for ARP.
recv_frame(ni, f) ==
  IF for_us(ni, f) /\ f.type # "IPv4"
  THEN reply(learn(ni, f.payload), f.payload)
  ELSE ni

\* Does recv_frame() return the datagram in the frame?
returns_datagram(ni, f) == for_us(ni, f) /\ f.type = "IPv4"

expired(entry) == entry.timer >= CACHE_VALID_TIME

\* The request timers are only compared with ARP_REQ_TIME and stop there.
tick(ni, ms) ==
  LET cache == [ip \in DOMAIN ni.ethernet_addr_cache |->
                  [ni.ethernet_addr_cache[ip] EXCEPT !.timer = @ + ms]]
      stale == {ip \in DOMAIN cache : expired(cache[ip])}
  IN  [ni EXCEPT
        !.ethernet_addr_cache = erase(cache, stale),
        !.arp_timer = [ip \in DOMAIN @ |->
          IF @[ip] + ms < ARP_REQ_TIME THEN @[ip] + ms ELSE ARP_REQ_TIME]]
=============================================================================
