------------------------------ MODULE Adapters ------------------------------
(***************************************************************************)
(* The adapters between a TCPConnection and a network (tcp_helpers):       *)
(* TCPOverUDPSocketAdapter, TCPOverIPv4OverTunFdAdapter and                *)
(* TCPOverIPv4OverEthernetAdapter, which is also the adapter of            *)
(* apps/lab7.cc, and LossyFdAdapter around them.                           *)
(*                                                                         *)
(* An adapter is a record: its kind, its configuration, and for Ethernet   *)
(* its NetworkInterface.  A call returns the adapter, the segment, as a    *)
(* sequence of at most one, and the packets it sent.  A packet is bytes;   *)
(* one that came by UDP is bytes with the address of its source.           *)
(***************************************************************************)
EXTENDS Formats

CONSTANTS ARP_REQ_TIME, CACHE_VALID_TIME

ETHERNET_BROADCAST == [k \in 1 .. 6 |-> 255]

NI == INSTANCE NetworkInterface WITH NoEthernetAddress <- Zeroes(6)

NoAddress == [ip |-> Zeroes(4), port |-> 0]

\* connect() gives a destination, listen_and_accept() sets the flag.
NewAdapter(kind, source, destination, listen, ethernet_address, ip_address, next_hop) ==
  [ kind        |-> kind,
    source      |-> source,
    destination |-> destination,
    listen      |-> listen,
    interface   |-> NI!New(ethernet_address, ip_address),
    next_hop    |-> next_hop ]

Returned(a, segs, out) == [adapter |-> a, segs |-> segs, out |-> out]

\* Mutant: any segment will do.
opens_any(seg) == TRUE

\* Does a listening adapter take the sender of this segment for its peer?
opens(seg) == seg.header.syn /\ ~seg.header.rst

\* The ports of the connection.
addressed(a, seg) ==
  [seg EXCEPT !.header.sport = a.source.port, !.header.dport = a.destination.port]
-----------------------------------------------------------------------------
\* p: the payload of the datagram, parsed.
udp_parsed(a, source_address, p) ==
  IF \/ ~a.listen /\ source_address # a.destination
     \/ p.result # "NoError"
     \/ a.listen /\ ~opens(p.seg)
  THEN Returned(a, << >>, << >>)
  ELSE Returned([a EXCEPT !.destination = IF a.listen THEN source_address ELSE @,
                          !.listen = FALSE],
                <<p.seg>>, << >>)

udp_read(a, packet) ==
  udp_parsed(a, packet.source_address, TCPSegment_parse(packet.payload, 0))

udp_write(a, seg) ==
  Returned(a, << >>,
    << [ source_address |-> a.source,
         destination    |-> a.destination,
         payload        |-> TCPSegment_serialize(addressed(a, seg), 0) ] >>)
-----------------------------------------------------------------------------
\* The addresses in the IP header are those of the connection.
is_for_us(a, h) ==
  a.listen \/ (h.dst = a.source.ip /\ h.src = a.destination.ip)

\* Mutant: the address that was contacted is not taken for replies.
peered_unnamed(a, h, seg) ==
  IF a.listen
  THEN [a EXCEPT !.destination = [ip |-> h.src, port |-> seg.header.sport],
                 !.listen      = FALSE]
  ELSE a

\* An adapter that listens takes the addresses of a SYN for its own.
peered(a, h, seg) ==
  IF a.listen
  THEN [a EXCEPT !.source.ip   = h.dst,
                 !.destination = [ip |-> h.src, port |-> seg.header.sport],
                 !.listen      = FALSE]
  ELSE a

\* h: the header of the datagram; p: its payload, parsed.
unwrap_parsed(a, h, p) ==
  IF \/ ~is_for_us(a, h)
     \/ h.proto # 6
     \/ p.result # "NoError"
     \/ p.seg.header.dport # a.source.port
     \/ a.listen /\ ~opens(p.seg)
     \/ ~a.listen /\ p.seg.header.sport # a.destination.port
  THEN Returned(a, << >>, << >>)
  ELSE Returned(peered(a, h, p.seg), <<p.seg>>, << >>)

unwrap_tcp_in_ip(a, dgram) ==
  unwrap_parsed(a, dgram.header, TCPSegment_parse(dgram.payload, pseudo_cksum(dgram.header)))

wrap_with_header(h, seg) ==
  [header |-> h, payload |-> TCPSegment_serialize(seg, pseudo_cksum(h))]

wrap_tcp_in_ip(a, seg) ==
  wrap_with_header(
    [IPv4Header EXCEPT
       !.src = a.source.ip,
       !.dst = a.destination.ip,
       !.len = 4 * IPv4Header.hlen + 4 * seg.header.doff + Len(seg.payload)],
    addressed(a, seg))

tun_parsed(a, p) ==
  IF p.result = "NoError" THEN unwrap_tcp_in_ip(a, p.dgram) ELSE Returned(a, << >>, << >>)

tun_read(a, packet) == tun_parsed(a, IPv4Datagram_parse(packet))

tun_write(a, seg) ==
  Returned(a, << >>, <<IPv4Datagram_serialize(wrap_tcp_in_ip(a, seg))>>)
-----------------------------------------------------------------------------
\* EthernetFrame::serialize() of a frame of the NetworkInterface.
frame_bytes(f) ==
  EthernetFrame_serialize(
    [dst |-> f.dst, src |-> f.src, type |-> Types[f.type]],
    IF f.type = "IPv4" THEN IPv4Datagram_serialize(f.payload)
                       ELSE ARPMessage_serialize(f.payload))

\* The frames of the interface go out.
send_pending(returned) ==
  [ returned EXCEPT
      !.adapter.interface.frames_out = << >>,
      !.out = [k \in DOMAIN returned.adapter.interface.frames_out |->
                 frame_bytes(returned.adapter.interface.frames_out[k])] ]

\* The interface gets a frame with a datagram.
receive_ip(a, header, p) ==
  IF p.result = "NoError" /\ NI!for_us(a.interface, header)
  THEN unwrap_tcp_in_ip(a, p.dgram)
  ELSE Returned(a, << >>, << >>)

\* The interface gets a frame with anything else; the reply goes out.
receive_arp(a, header, p) ==
  IF p.result = "NoError"
  THEN send_pending(Returned(
         [a EXCEPT !.interface =
            NI!recv_frame(@, NI!frame(header.src, header.dst, "ARP", p.msg))],
         << >>, << >>))
  ELSE Returned(a, << >>, << >>)

tap_parsed(a, frame) ==
  IF frame.header.type = Types.IPv4
  THEN receive_ip(a, frame.header, IPv4Datagram_parse(frame.payload))
  ELSE receive_arp(a, frame.header, ARPMessage_parse(frame.payload))

tap_read(a, packet) == tap_parsed(a, EthernetFrame_parse(packet))

tap_write(a, seg) ==
  send_pending(Returned(
    [a EXCEPT !.interface = NI!send_datagram(@, wrap_tcp_in_ip(a, seg), a.next_hop)],
    << >>, << >>))

tick(a, ms) ==
  IF a.kind = "tap"
  THEN send_pending(Returned([a EXCEPT !.interface = NI!tick(@, ms)], << >>, << >>))
  ELSE Returned(a, << >>, << >>)
-----------------------------------------------------------------------------
read(a, packet) ==
  CASE a.kind = "udp" -> udp_read(a, packet)
    [] a.kind = "tun" -> tun_read(a, packet)
    [] a.kind = "tap" -> tap_read(a, packet)

write(a, seg) ==
  CASE a.kind = "udp" -> udp_write(a, seg)
    [] a.kind = "tun" -> tun_write(a, seg)
    [] a.kind = "tap" -> tap_write(a, seg)

\* LossyFdAdapter: the adapter has read the packet when it is dropped.
lossy_read(a, packet, should_drop) ==
  [read(a, packet) EXCEPT !.segs = IF should_drop THEN << >> ELSE @]

lossy_write(a, seg, should_drop) ==
  IF should_drop THEN Returned(a, << >>, << >>) ELSE write(a, seg)
=============================================================================
