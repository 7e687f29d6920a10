---------------------------- MODULE AdaptersSpec ----------------------------
(***************************************************************************)
(* Stations with adapters on one network, each with its TCPConnection.  A  *)
(* server listens; clients connect to it and send a few bytes when they    *)
(* are connected; an old client has a connection with an earlier run of    *)
(* the server and goes on with it.  What a station sends arrives, in       *)
(* order, at all the others, or with UDP at the one it is addressed to;    *)
(* packets are lost, cut short or damaged in one byte, and lossy adapters  *)
(* drop some.  Retransmission is slower than the network: time passes when *)
(* nothing is on its way and everyone has sent.                            *)
(***************************************************************************)
EXTENDS Adapters, FiniteSets

CONSTANTS
  Stations,    \* their names
  Setups,      \* possible networks: an adapter, a connection and a role for each
  Bytes,       \* what a client sends
  Positions,   \* where a byte may be damaged
  Changes,     \* what may be added to a damaged byte
  Cuts,        \* how many bytes a packet may lose at its end
  MaxFaults,   \* bound on losses, damages, cuts and drops
  U64, Modulus, MAX_PAYLOAD_SIZE, MAX_RETX_ATTEMPTS, MAX_WINDOW   \* of TCPConnection

TC == INSTANCE TCPState

ASSUME AdaptersAssumption ==
  /\ \A setup \in Setups : setup.roles \in [Stations -> {"server", "client", "old"}]
  /\ Positions \cup Cuts \subseteq Nat \ {0}
  /\ Changes \subseteq 1 .. 255
  /\ MaxFaults \in Nat
  /\ Modulus = 65536   \* see wire_number

VARIABLES
  roles,      \* what each station is; it does not change
  adapters,   \* the adapter of each station
  conns,      \* its TCPConnection
  arriving,   \* the packets on their way to it
  sent,       \* history: the segments its connection gave the adapter
  heard,      \* history: the segments its connection was given
  faults      \* what went wrong so far

vars == <<roles, adapters, conns, arriving, sent, heard, faults>>

\* The constructor of the Ethernet adapter sends a dummy frame, here to each
\* of the other stations.
Dummies(s) ==
  IF adapters[s].kind = "tap"
  THEN [k \in 1 .. Cardinality(Stations) - 1 |-> EthernetFrame_serialize(EthernetHeader, << >>)]
  ELSE << >>

Init ==
  /\ \E setup \in Setups :
       adapters = setup.adapters /\ roles = setup.roles /\ conns = setup.conns
  /\ arriving = [s \in Stations |-> Dummies(s)]
  /\ sent = [s \in Stations |-> {}]
  /\ heard = [s \in Stations |-> {}]
  /\ faults = 0
-----------------------------------------------------------------------------
\* A sequence number in a header: it is below 2^16 here, so that the bytes of
\* higher order are zero.
wire_number(n) == <<0, 0>> \o u16(n)

\* A segment of a TCPConnection in the terms of Formats, and the other way round.
to_wire(seg) ==
  [ header  |-> [TCPHeader EXCEPT
                   !.seqno = wire_number(seg.seqno), !.ackno = wire_number(seg.ackno),
                   !.ack = seg.ack, !.rst = seg.rst, !.syn = seg.syn, !.fin = seg.fin,
                   !.win = seg.win],
    payload |-> seg.payload ]

from_wire(seg) ==
  [ seqno   |-> Number(SubSeq(seg.header.seqno, 3, 4)),
    ackno   |-> Number(SubSeq(seg.header.ackno, 3, 4)),
    ack     |-> seg.header.ack,
    rst     |-> seg.header.rst,
    syn     |-> seg.header.syn,
    fin     |-> seg.header.fin,
    win     |-> seg.header.win,
    payload |-> seg.payload ]

\* Who gets what s sends.
Receivers(s, packet) ==
  IF adapters[s].kind = "udp"
  THEN {t \in Stations : adapters[t].source = packet.destination}
  ELSE Stations \ {s}

Deliver(queues, s, out) ==
  [t \in Stations |-> queues[t] \o SelectSeq(out, LAMBDA packet : t \in Receivers(s, packet))]

Fails(n) == faults + n <= MaxFaults /\ faults' = faults + n

\* The Ethernet adapter comes without a LossyFdAdapter.
Drops(s) == IF adapters[s].kind = "tap" THEN {FALSE} ELSE BOOLEAN

Rest(s) == [arriving EXCEPT ![s] = Tail(@)]

\* Rule 1 takes the next packet while the connection is active.
CanRead(s) == arriving[s] # << >> /\ conns[s].active

\* Rule 1: what the adapter made of a packet goes to the connection.
Received(s, returned) ==
  /\ adapters' = [adapters EXCEPT ![s] = returned.adapter]
  /\ arriving' = Deliver(Rest(s), s, returned.out)
  /\ heard' = [heard EXCEPT ![s] = @ \cup {[seg EXCEPT !.header.cksum = 0] : seg \in Range(returned.segs)}]
  /\ conns' = [conns EXCEPT ![s] =
       FoldLeft(LAMBDA c, seg : TC!segment_received(c, from_wire(seg)), @, returned.segs)]
  /\ UNCHANGED <<roles, sent>>

Read(s, should_drop) ==
  /\ CanRead(s)
  /\ should_drop \in Drops(s)
  /\ Fails(IF should_drop THEN 1 ELSE 0)
  /\ \E returned \in {lossy_read(adapters[s], Head(arriving[s]), should_drop)} :
       Received(s, returned)

\* The program of a client writes once its connection is established.
HasToSay(s) ==
  /\ roles[s] = "client"
  /\ "ESTABLISHED" \in TC!StateNames(conns[s])
  /\ TC!outbound(conns[s]).total_written_bytes = 0

Say(s) ==
  /\ HasToSay(s)
  /\ conns' = [conns EXCEPT ![s] = TC!write(@, Bytes)]
  /\ UNCHANGED <<roles, adapters, arriving, sent, heard, faults>>

\* The loop of rule 4; LossyFdAdapter drops the segments at the positions dropped.
write_all(a, segs, dropped) ==
  FoldLeft(LAMBDA returned, k :
             [lossy_write(returned.adapter, to_wire(segs[k]), k \in dropped)
                EXCEPT !.out = returned.out \o @],
           Returned(a, << >>, << >>), [k \in DOMAIN segs |-> k])

Write(s, dropped) ==
  /\ conns[s].segments_out # << >>
  /\ dropped = {} \/ TRUE \in Drops(s)
  /\ Fails(Cardinality(dropped))
  /\ \E returned \in {write_all(adapters[s], conns[s].segments_out, dropped)} :
       /\ adapters' = [adapters EXCEPT ![s] = returned.adapter]
       /\ arriving' = Deliver(arriving, s, returned.out)
  /\ sent' = [sent EXCEPT ![s] = @ \cup
       {addressed(adapters[s], to_wire(seg)) : seg \in Range(conns[s].segments_out)}]
  /\ conns' = [conns EXCEPT ![s].segments_out = << >>]
  /\ UNCHANGED <<roles, heard>>

\* Nothing is on its way to a connection or about to be sent.
Quiet == \A s \in Stations : ~CanRead(s) /\ conns[s].segments_out = << >> /\ ~HasToSay(s)

\* The connections that are active and their adapters; an interface sends
\* nothing in its tick().
Tick ==
  /\ Quiet
  /\ conns' = [s \in Stations |-> IF conns[s].active THEN TC!tick(conns[s], 1) ELSE conns[s]]
  /\ adapters' = [s \in Stations |->
                    IF conns[s].active THEN tick(adapters[s], 1).adapter ELSE adapters[s]]
  /\ UNCHANGED <<roles, arriving, sent, heard, faults>>
-----------------------------------------------------------------------------
Lose(s) ==
  /\ arriving[s] # << >>
  /\ Fails(1)
  /\ arriving' = Rest(s)
  /\ UNCHANGED <<roles, adapters, conns, sent, heard>>

\* A packet is read that is not what was sent.  UDP has a checksum of its own.
ReadInstead(s, packet) ==
  /\ Fails(1)
  /\ \E returned \in {read(adapters[s], packet)} : Received(s, returned)

Damage(s, i, change) ==
  /\ adapters[s].kind # "udp"
  /\ CanRead(s)
  /\ i \in DOMAIN Head(arriving[s])
  /\ ReadInstead(s, [Head(arriving[s]) EXCEPT ![i] = (@ + change) % 256])

Cut(s, n) ==
  /\ adapters[s].kind # "udp"
  /\ CanRead(s)
  /\ n <= Len(Head(arriving[s]))
  /\ ReadInstead(s, SubSeq(Head(arriving[s]), 1, Len(Head(arriving[s])) - n))

Next ==
  \/ \E s \in Stations, should_drop \in BOOLEAN : Read(s, should_drop)
  \/ \E s \in Stations : \E dropped \in SUBSET DOMAIN conns[s].segments_out : Write(s, dropped)
  \/ \E s \in Stations : Say(s) \/ Lose(s)
  \/ Tick
  \/ \E s \in Stations, i \in Positions, change \in Changes : Damage(s, i, change)
  \/ \E s \in Stations, n \in Cuts : Cut(s, n)

\* No connection has anything left to do, now or later: no timer runs.
AtRest == Quiet /\ \A s \in Stations : conns[s].active => ~conns[s].sender.retx_timer.is_running

\* Event loops go on, and so does time, until everything is at rest.
Spec == Init /\ [][Next]_vars /\ ([]<>AtRest \/ []<><<Next>>_vars)
-----------------------------------------------------------------------------
\* The stations that s may take for its peer.
Peers(s) == {t \in Stations \ {s} : adapters[t].source = adapters[s].destination}

(* fd_adapter.cc, lines 12-14, and tcp_over_ip.cc, lines 17-24: what an    *)
(* adapter gives its connection is "related to the current connection".    *)
(* All of it comes from one peer, and each segment is one that the peer's  *)
(* connection sent, bit for bit and with the ports of both ends, whatever  *)
(* was damaged or cut on the way and whoever else sends to the port.  A    *)
(* listening adapter gives its connection nothing; and nothing reaches the *)
(* connection of a server before a SYN, even if the SYN that the adapter   *)
(* took its peer from was dropped.  The datagram and frame classes do not  *)
(* look at the results of their headers.                                   *)
OnlyThePeerIsHeard ==
  \A s \in Stations :
    /\ adapters[s].listen => heard[s] = {}
    /\ heard[s] # {} => \E t \in Peers(s) : heard[s] \subseteq sent[t]
    /\ heard[s] # {} /\ roles[s] = "server" => \E seg \in heard[s] : seg.header.syn

(* In spite of what is lost or damaged, ARP requests and replies included, *)
(* of the segments of an old connection, and of a SYN dropped by           *)
(* LossyFdAdapter after the adapter has stopped listening for it, when     *)
(* only the client's retransmission of the SYN can help: some client and   *)
(* the server come to be connected for good, and the client's bytes arrive.*)
Connects ==
  <>[](\E s, t \in Stations :
         /\ roles[s] = "server" /\ roles[t] = "client"
         /\ t \in Peers(s) /\ s \in Peers(t)
         /\ "ESTABLISHED" \in TC!StateNames(conns[s]) \cap TC!StateNames(conns[t])
         /\ TC!inbound(conns[s]).buffer = Bytes)
=============================================================================
