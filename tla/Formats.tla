------------------------------ MODULE Formats ------------------------------
(***************************************************************************)
(* What is on the wire: the parser and unparser (util/parser.cc), the      *)
(* Internet checksum (util/util.cc) and the formats of Ethernet, ARP, IPv4 *)
(* and TCP (tcp_helpers).  A packet is a sequence of bytes, numbers from 0 *)
(* to 255.  Fields of one or two bytes become numbers; longer ones, which  *)
(* the code only copies and compares, stay sequences of bytes.             *)
(***************************************************************************)
EXTENDS Integers, Sequences, SequencesExt

Zeroes(n) == [k \in 1 .. n |-> 0]

\* The number in two bytes, high-order first.
Number(bytes) == 256 * bytes[1] + bytes[2]

\* NetUnparser, for numbers.
u8(val) == <<val>>
u16(val) == <<val \div 256, val % 256>>

\* std::string::resize(), to more bytes.
resized(bytes, n) == bytes \o Zeroes(n - Len(bytes))

Bit(val, n) == (val \div 2 ^ n) % 2 = 1
Bits(flags) == FoldLeft(LAMBDA n, flag : 2 * n + (IF flag THEN 1 ELSE 0), 0, flags)
-----------------------------------------------------------------------------
\* out: the values that were parsed.
NetParser(buffer) == [buffer |-> buffer, error |-> "NoError", out |-> << >>]

check_size(p, size) ==
  IF size > Len(p.buffer) THEN [p EXCEPT !.error = "PacketTooShort"] ELSE p

drop(p, n) == [p EXCEPT !.buffer = SubSeq(@, n + 1, Len(@))]

parse_int(p, len) ==
  LET q == check_size(p, len)
  IN  IF q.error # "NoError" THEN [q EXCEPT !.out = Append(@, Zeroes(len))]
      ELSE [drop(q, len) EXCEPT !.out = Append(@, SubSeq(q.buffer, 1, len))]

remove_prefix(p, n) ==
  LET q == check_size(p, n) IN IF q.error # "NoError" THEN q ELSE drop(q, n)

parse_fields(p, widths) == FoldLeft(parse_int, p, widths)
-----------------------------------------------------------------------------
InternetChecksum(initial_sum) == [sum |-> initial_sum, parity |-> FALSE]

\* Is byte k of what is added a low-order one?
low_order(check, k) == check.parity = (k % 2 = 1)

\* total[i, j] is what the bytes from i to j add to the sum.
add(check, data) ==
  LET val(k) == IF low_order(check, k) THEN data[k] ELSE 256 * data[k]
      total[i, j \in 0 .. Len(data) + 1] ==
        IF i > j THEN 0 ELSE IF i = j THEN val(i)
        ELSE total[i, (i + j) \div 2] + total[((i + j) \div 2) + 1, j]
  IN  [ sum    |-> check.sum + total[1, Len(data)],
        parity |-> check.parity # (Len(data) % 2 = 1) ]

\* The loop of value(), which adds what is above 16 bits to the rest.
folded[sum \in Nat] ==
  IF sum > 65535 THEN folded[(sum \div 65536) + (sum % 65536)] ELSE sum

value(check) == 65535 - folded[check.sum]
-----------------------------------------------------------------------------
\* struct TCPHeader, with its default values.
TCPHeader ==
  [ sport |-> 0, dport |-> 0, seqno |-> Zeroes(4), ackno |-> Zeroes(4), doff |-> 5,
    urg |-> FALSE, ack |-> FALSE, psh |-> FALSE, rst |-> FALSE, syn |-> FALSE,
    fin |-> FALSE, win |-> 0, cksum |-> 0, uptr |-> 0 ]

\* The parser after the header, and the header, when the fields have been read;
\* the result is not used.
TCPHeader_read(q) ==
  LET doff == q.out[5][1] \div 16
      fl_b == q.out[6][1]
  IN  [ parser |-> IF doff < 5 THEN q ELSE remove_prefix(q, doff * 4 - 20),
        header |->
          [ sport |-> Number(q.out[1]), dport |-> Number(q.out[2]),
            seqno |-> q.out[3], ackno |-> q.out[4], doff |-> doff,
            urg |-> Bit(fl_b, 5), ack |-> Bit(fl_b, 4), psh |-> Bit(fl_b, 3),
            rst |-> Bit(fl_b, 2), syn |-> Bit(fl_b, 1), fin |-> Bit(fl_b, 0),
            win |-> Number(q.out[7]), cksum |-> Number(q.out[8]),
            uptr |-> Number(q.out[9]) ] ]

TCPHeader_parse(p) == TCPHeader_read(parse_fields(p, <<2, 2, 4, 4, 1, 1, 2, 2, 2>>))

\* Of a header with doff >= 5, as every header that the code builds.
TCPHeader_serialize(h) ==
  resized(u16(h.sport) \o u16(h.dport) \o h.seqno \o h.ackno \o u8(16 * h.doff)
            \o u8(Bits(<<h.urg, h.ack, h.psh, h.rst, h.syn, h.fin>>))
            \o u16(h.win) \o u16(h.cksum) \o u16(h.uptr),
          4 * h.doff)

TCPSegment_checks(buffer, datagram_layer_checksum) ==
  value(add(InternetChecksum(datagram_layer_checksum), buffer)) = 0

TCPSegment_of(h) ==
  [ result |-> h.parser.error,
    seg    |-> [header |-> h.header, payload |-> h.parser.buffer] ]

TCPSegment_parse(buffer, datagram_layer_checksum) ==
  IF TCPSegment_checks(buffer, datagram_layer_checksum)
  THEN TCPSegment_of(TCPHeader_parse(NetParser(buffer)))
  ELSE [result |-> "BadChecksum"]

\* The header goes into the checksum with zero in the place of the checksum.
TCPSegment_cksum(seg, datagram_layer_checksum) ==
  value(add(add(InternetChecksum(datagram_layer_checksum),
                TCPHeader_serialize([seg.header EXCEPT !.cksum = 0])),
            seg.payload))

TCPSegment_serialize(seg, datagram_layer_checksum) ==
  TCPHeader_serialize(
    [seg.header EXCEPT !.cksum = TCPSegment_cksum(seg, datagram_layer_checksum)])
    \o seg.payload
-----------------------------------------------------------------------------
\* struct IPv4Header, with its default values; proto is TCP.
IPv4Header ==
  [ ver |-> 4, hlen |-> 5, tos |-> 0, len |-> 0, id |-> 0, df |-> TRUE, mf |-> FALSE,
    offset |-> 0, ttl |-> 128, proto |-> 6, cksum |-> 0, src |-> Zeroes(4),
    dst |-> Zeroes(4) ]

IPv4Header_fields(out) ==
  LET fo_val == Number(out[5])
  IN  [ ver |-> out[1][1] \div 16, hlen |-> out[1][1] % 16, tos |-> out[2][1],
        len |-> Number(out[3]), id |-> Number(out[4]), df |-> Bit(fo_val, 14),
        mf |-> Bit(fo_val, 13), offset |-> fo_val % 8192, ttl |-> out[6][1],
        proto |-> out[7][1], cksum |-> Number(out[8]), src |-> out[9], dst |-> out[10] ]

\* The result of the checks is not used, but they decide whether the options
\* are skipped.
IPv4Header_skip(q, h, size) ==
  IF size < 4 * h.hlen \/ h.ver # 4 \/ h.hlen < 5 \/ size # h.len
  THEN q ELSE remove_prefix(q, h.hlen * 4 - 20)

IPv4Header_read(q, size) ==
  [ parser |-> IPv4Header_skip(q, IPv4Header_fields(q.out), size),
    header |-> IPv4Header_fields(q.out) ]

\* The parser after the header, and the header.
IPv4Header_parse(p) ==
  IF Len(p.buffer) < 20 THEN [parser |-> p, header |-> IPv4Header]
  ELSE IPv4Header_read(parse_fields(p, <<1, 1, 2, 2, 2, 1, 1, 2, 4, 4>>), Len(p.buffer))

\* Of a header with version 4 and hlen >= 5, as every header that the code builds.
IPv4Header_serialize(h) ==
  resized(u8(16 * h.ver + h.hlen) \o u8(h.tos) \o u16(h.len) \o u16(h.id)
            \o u16(Bits(<<h.df, h.mf>>) * 8192 + h.offset) \o u8(h.ttl) \o u8(h.proto)
            \o u16(h.cksum) \o h.src \o h.dst,
          4 * h.hlen)

payload_length(h) == (h.len - 4 * h.hlen) % 65536

pseudo_cksum(h) ==
  LET halves(a) == Number(SubSeq(a, 1, 2)) + Number(SubSeq(a, 3, 4))
  IN  halves(h.src) + halves(h.dst) + h.proto + payload_length(h)

right_length(h, payload) == Len(payload) = payload_length(h)

IPv4Datagram_of(h) ==
  [ result |-> IF right_length(h.header, h.parser.buffer)
               THEN h.parser.error ELSE "PacketTooShort",
    dgram  |-> [header |-> h.header, payload |-> h.parser.buffer] ]

IPv4Datagram_parse(buffer) == IPv4Datagram_of(IPv4Header_parse(NetParser(buffer)))

IPv4Header_cksum(h) ==
  value(add(InternetChecksum(0), IPv4Header_serialize([h EXCEPT !.cksum = 0])))

IPv4Datagram_serialize(dgram) ==
  IPv4Header_serialize([dgram.header EXCEPT !.cksum = IPv4Header_cksum(dgram.header)])
    \o dgram.payload
-----------------------------------------------------------------------------
\* The numbers of EthernetHeader::type and of ARPMessage::opcode.
Types   == [IPv4 |-> 2048, ARP |-> 2054]
Opcodes == [REQUEST |-> 1, REPLY |-> 2]

\* hardware and protocol types and address sizes.
ARPKind == u16(1) \o u16(Types.IPv4) \o u8(6) \o u8(4)

supported(kind, opcode) == kind = ARPKind /\ \E name \in DOMAIN Opcodes : Opcodes[name] = opcode

ARPMessage_read(q) ==
  IF supported(q.out[1], Number(q.out[2]))
  THEN [ result |-> q.error,
         msg    |->
           [ opcode     |-> CHOOSE name \in DOMAIN Opcodes : Opcodes[name] = Number(q.out[2]),
             sender_eth |-> q.out[3], sender_ip |-> q.out[4],
             target_eth |-> q.out[5], target_ip |-> q.out[6] ] ]
  ELSE [result |-> "Unsupported"]

ARPMessage_parse(buffer) ==
  IF Len(buffer) < 28 THEN [result |-> "PacketTooShort"]
  ELSE ARPMessage_read(parse_fields(NetParser(buffer), <<6, 2, 6, 4, 6, 4>>))

ARPMessage_serialize(msg) ==
  ARPKind \o u16(Opcodes[msg.opcode]) \o msg.sender_eth \o msg.sender_ip
    \o msg.target_eth \o msg.target_ip

EthernetHeader == [dst |-> Zeroes(6), src |-> Zeroes(6), type |-> 0]

EthernetHeader_read(q) ==
  [ parser |-> q,
    header |-> [dst |-> q.out[1], src |-> q.out[2], type |-> Number(q.out[3])] ]

\* The parser after the header, and the header.
EthernetHeader_parse(p) ==
  IF Len(p.buffer) < 14 THEN [parser |-> p, header |-> EthernetHeader]
  ELSE EthernetHeader_read(parse_fields(p, <<6, 6, 2>>))

EthernetHeader_serialize(h) == h.dst \o h.src \o u16(h.type)

EthernetFrame_of(h) == [header |-> h.header, payload |-> h.parser.buffer]

\* The result of the header is not used: a frame that is too short for one is no
\* error, and keeps the header it had.
EthernetFrame_parse(buffer) == EthernetFrame_of(EthernetHeader_parse(NetParser(buffer)))

EthernetFrame_serialize(header, payload) == EthernetHeader_serialize(header) \o payload
=============================================================================
