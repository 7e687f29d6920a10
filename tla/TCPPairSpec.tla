---------------------------- MODULE TCPPairSpec ----------------------------
(***************************************************************************)
(* Two TCPConnections joined by a network: "a" connects, "b" listens.      *)
(* Each is driven the way TCPSpongeSocket drives it: segments and ticks    *)
(* reach it only while it is active, the application writes and ends its   *)
(* stream only once the handshake is over, and reads what has arrived.     *)
(* segments_out and the network behind it are one FIFO queue per           *)
(* direction.  The byte with stream index i is the number i, in both       *)
(* directions.                                                             *)
(*                                                                         *)
(* The network, one of Networks, loses up to .losses segments and lets up  *)
(* to .overtakes[e] of those on their way to e fall behind the others.  It *)
(* is either Prompt (every segment arrives or is lost before time passes,  *)
(* and the two clocks go together) or time passes at each end regardless   *)
(* of it.  On it the application at e writes .streams[e] bytes, and if it  *)
(* is .careful the applications end their streams only when the peer has   *)
(* acknowledged all of it.                                                 *)
(***************************************************************************)
EXTENDS TCPState

CONSTANTS
  RecvCapacity, SendCapacity, RtTimeout,  \* the TCPConfig of both ends
  Isn,             \* [{"a", "b"} -> sequence numbers]
  TickMs,          \* the duration of a tick
  Networks,        \* a set of [losses, overtakes, careful, streams]
  Prompt,
  MayAbort         \* may a TCPSpongeSocket be destroyed while it is connected?

ASSUME PairAssumption ==
  /\ RecvCapacity \in Nat \ {0}
  /\ {SendCapacity, TickMs} \subseteq Nat
  /\ RtTimeout \in Nat \ {0}
  /\ Isn \in [{"a", "b"} -> WI!Wrapping]
  /\ Networks \subseteq [ losses : Nat, overtakes : [{"a", "b"} -> Nat],
                           careful : BOOLEAN, streams : [{"a", "b"} -> Nat] ]
  /\ Prompt \in BOOLEAN /\ MayAbort \in BOOLEAN

VARIABLES
  conn,      \* the two objects
  chan,      \* chan[e]: the segments on their way to e
  got,       \* history: the bytes the application at e has read
  net        \* the network, with the losses and overtakes that are left

vars == <<conn, chan, got, net>>

End == {"a", "b"}

Other(e) == IF e = "a" THEN "b" ELSE "a"

Init ==
  /\ conn = [e \in End |-> New(RecvCapacity, SendCapacity, RtTimeout, Isn[e])]
  /\ chan = [e \in End |-> << >>]
  /\ got = [e \in End |-> << >>]
  /\ net \in Networks

\* A handler at e has left the connection in state c: what it queued goes
\* out.  `before` is what is on the way when the handler has run.
Return(e, c, before) ==
  /\ conn' = [conn EXCEPT ![e] = [c EXCEPT !.segments_out = << >>]]
  /\ chan' = [before EXCEPT ![Other(e)] = @ \o c.segments_out]

\* TCPSpongeSocket lets the application in when listen_and_accept() or
\* connect() leaves its loop.  (connect() waits while the state is SYN_SENT;
\* "a" is never in the other two once it has sent its SYN.)
Established(e) ==
  /\ conn[e].active
  /\ state(conn[e]) \notin {Official.LISTEN, Official.SYN_RCVD, Official.SYN_SENT}

Connect ==
  /\ conn["a"].sender.next_seqno = 0
  /\ conn["a"].active
  /\ Return("a", connect(conn["a"]), chan)
  /\ UNCHANGED <<got, net>>

\* Rule 2: no more than remaining_outbound_capacity() is read from the pipe.
MayWrite(e, n) ==
  /\ ~outbound(conn[e]).is_input_ended
  /\ n <= BS!remaining_capacity(outbound(conn[e]))
  /\ outbound(conn[e]).total_written_bytes + n <= net.streams[e]
  /\ Established(e)

Write(e, n) ==
  LET first == outbound(conn[e]).total_written_bytes
  IN  /\ MayWrite(e, n)
      /\ Return(e, write(conn[e], [i \in 1 .. n |-> first + i - 1]), chan)
      /\ UNCHANGED <<got, net>>

\* Rule 2, at the end of the pipe.
MayEnd(e) ==
  /\ ~outbound(conn[e]).is_input_ended
  /\ BS!remaining_capacity(outbound(conn[e])) > 0
  /\ outbound(conn[e]).total_written_bytes = net.streams[e]
  /\ Established(e)
  /\ net.careful =>
       conn[e].sender.bytes_in_flight = 0 /\ BS!buffer_size(outbound(conn[e])) = 0

EndInput(e) ==
  /\ MayEnd(e)
  /\ Return(e, end_input_stream(conn[e]), chan)
  /\ UNCHANGED <<got, net>>

\* Rule 3: peek, write to the pipe, pop what the pipe took.
Read(e, n) ==
  LET stream == inbound(conn[e])
  IN  /\ n <= BS!buffer_size(stream)
      /\ conn' = [conn EXCEPT ![e].receiver.reassembler.output = BS!pop_output(@, n)]
      /\ got' = [got EXCEPT ![e] = @ \o BS!peek_output(stream, n)]
      /\ UNCHANGED <<chan, net>>

\* Rule 1.
Deliver(e) ==
  /\ chan[e] # << >>
  /\ conn[e].active
  /\ Return(e, segment_received(conn[e], Head(chan[e])), [chan EXCEPT ![e] = Tail(@)])
  /\ UNCHANGED <<got, net>>

\* Nobody reads the datagrams that reach an end that is no longer active.
Discard(e) ==
  /\ chan[e] # << >>
  /\ ~conn[e].active
  /\ chan' = [chan EXCEPT ![e] = Tail(@)]
  /\ UNCHANGED <<conn, got, net>>

Lose(e) ==
  /\ chan[e] # << >>
  /\ net.losses > 0
  /\ chan' = [chan EXCEPT ![e] = Tail(@)]
  /\ net' = [net EXCEPT !.losses = @ - 1]
  /\ UNCHANGED <<conn, got>>

\* The segment at the head of the queue falls behind all the others.
Overtake(e) ==
  /\ Len(chan[e]) > 1
  /\ net.overtakes[e] > 0
  /\ chan' = [chan EXCEPT ![e] = Append(Tail(@), Head(@))]
  /\ net' = [net EXCEPT !.overtakes[e] = @ - 1]
  /\ UNCHANGED <<conn, got>>

\* _tcp_loop() ticks a connection that is active; "a" enters it after connect().
Ticked(e) == IF conn[e].active THEN tick(conn[e], TickMs) ELSE conn[e]

Tick(e) ==
  /\ ~Prompt
  /\ conn[e].active
  /\ e = "a" => conn[e].sender.next_seqno > 0
  /\ Return(e, Ticked(e), chan)
  /\ UNCHANGED <<got, net>>

\* ~TCPSpongeSocket(): the loop is left and the TCPConnection is destroyed,
\* with the segments that its destructor has queued.
Abort(e) ==
  /\ MayAbort
  /\ Established(e)
  /\ conn' = [conn EXCEPT ![e] = [destroy(@) EXCEPT !.segments_out = << >>]]
  /\ UNCHANGED <<chan, got, net>>

TickTogether ==
  /\ Prompt
  /\ \A e \in End : chan[e] = << >>
  /\ \E e \in End : conn[e].active
  /\ conn["a"].sender.next_seqno > 0
  /\ conn' = [e \in End |-> [Ticked(e) EXCEPT !.segments_out = << >>]]
  /\ chan' = [e \in End |-> Ticked(Other(e)).segments_out]
  /\ UNCHANGED <<got, net>>

Next ==
  \/ Connect
  \/ TickTogether
  \/ \E e \in End :
       \/ \E n \in 1 .. net.streams[e] : Write(e, n)
       \/ EndInput(e)
       \/ \E n \in 1 .. RecvCapacity : Read(e, n)
       \/ Deliver(e)
       \/ Discard(e)
       \/ Lose(e)
       \/ Overtake(e)
       \/ Tick(e)
       \/ Abort(e)

Spec == Init /\ [][Next]_vars

WriteSome(e) == \E n \in 1 .. net.streams[e] : Write(e, n)
ReadSome(e) == \E n \in 1 .. RecvCapacity : Read(e, n)
Leave(e) == Deliver(e) \/ Discard(e) \/ Lose(e)

\* The event loops keep running: a datagram that has arrived is read, bytes
\* that wait are handed to the application, and a loop with nothing else to do
\* ticks.  The applications write, end their streams and read in the end.
\* This is weak fairness of Connect, TickTogether, WriteSome, EndInput,
\* ReadSome and Leave, with the guard of each in place of its ENABLED: every
\* handler is total, and each of these steps changes the state, but for a tick
\* that finds every timer stopped.
FairSpec ==
  /\ Spec
  /\ []<>(conn["a"].sender.next_seqno > 0)
  /\ \/ []<>(\/ \A e \in End : ~conn[e].active \/ Ticked(e) = conn[e]
             \/ \E e \in End : chan[e] # << >>)
     \/ []<><<TickTogether>>_vars
  /\ \A e \in End :
       /\ []<>~MayWrite(e, 1) \/ []<><<WriteSome(e)>>_vars
       /\ []<>~MayEnd(e) \/ []<><<EndInput(e)>>_vars
       /\ []<>(inbound(conn[e]).buffer = << >>) \/ []<><<ReadSome(e)>>_vars
       /\ []<>(chan[e] = << >>) \/ []<><<Leave(e)>>_vars
-----------------------------------------------------------------------------
Accepted(e) == [i \in 1 .. outbound(conn[e]).total_written_bytes |-> i - 1]

(* stream_reassembler.hh, line 16, "The reassembled in-order byte stream": *)
(* the two directions of a connection are two in-order streams.  What the  *)
(* application at one end reads is a prefix of what the other end wrote,   *)
(* and it is told that the stream is over only when it has read all of a   *)
(* stream that was closed.  So it is for streams that fit the receiver;    *)
(* for longer ones, whose bytes meet a closed window, it takes a network   *)
(* that does not let their acknowledgments be overtaken (tcp_sender.cc,    *)
(* line 103, takes the window of an old one) and an application that ends  *)
(* its stream when it is acknowledged.                                     *)
AtoB == INSTANCE InOrderStream WITH
  sent <- Accepted("a"), delivered <- got["b"],
  closed <- outbound(conn["a"]).is_input_ended,
  finished <- inbound(conn["b"]).is_eof

BtoA == INSTANCE InOrderStream WITH
  sent <- Accepted("b"), delivered <- got["a"],
  closed <- outbound(conn["b"]).is_input_ended,
  finished <- inbound(conn["a"]).is_eof

BothStreams == AtoB!Spec /\ BtoA!Spec

\* The absolute acknowledgment number of the receiver at e.
AbsAckno(e) ==
  IF RX!has_ackno(conn[e].receiver)
  THEN inbound(conn[e]).total_written_bytes + 1
         + (IF inbound(conn[e]).is_input_ended THEN 1 ELSE 0)
  ELSE 0

(* A sender forgets only what the other end's receiver has assembled, so   *)
(* every byte is always held by one of the two.                            *)
ForgottenIsReceived ==
  \A e \in End : conn[e].sender.previous_ackno <= AbsAckno(Other(e))

(* tcp_connection.cc, lines 115-119: a connection that is over without an  *)
(* error has assembled the whole inbound stream, and its own stream is at  *)
(* the other end up to the last byte.                                      *)
DoneMeansDone ==
  \A e \in End :
    ~conn[e].active /\ ~inbound(conn[e]).error =>
      /\ inbound(conn[e]).is_input_ended
      /\ inbound(conn[e]).total_written_bytes = net.streams[Other(e)]
      /\ inbound(conn[Other(e)]).is_input_ended
      /\ inbound(conn[Other(e)]).total_written_bytes = net.streams[e]

(* tcp_connection.hh, lines 19-21: the end that closes first stays to      *)
(* acknowledge "in case the remote TCPConnection doesn't know we've        *)
(* received its whole stream".  So when the network is prompt and loses    *)
(* fewer segments than there are attempts, nobody gives up, not even on a  *)
(* window that stays closed for as long as the application likes, and both *)
(* ends come to a clean end: everything written is read at the other side, *)
(* the ends of both streams are reported, and both connections are over    *)
(* without an error, the one that lingers included.                        *)
BothFinish ==
  <>(\A e \in End :
       /\ ~conn[e].active
       /\ ~inbound(conn[e]).error
       /\ inbound(conn[e]).is_eof
       /\ Len(got[e]) = net.streams[Other(e)])

\* The diagram of RFC 793, in which every state may also be reset.
RFC793 ==
  { <<"LISTEN", "SYN_RCVD">>, <<"LISTEN", "SYN_SENT">>,
    <<"SYN_SENT", "SYN_RCVD">>, <<"SYN_SENT", "ESTABLISHED">>,
    <<"SYN_RCVD", "ESTABLISHED">>, <<"SYN_RCVD", "FIN_WAIT_1">>,
    <<"ESTABLISHED", "FIN_WAIT_1">>, <<"ESTABLISHED", "CLOSE_WAIT">>,
    <<"CLOSE_WAIT", "LAST_ACK">>, <<"LAST_ACK", "CLOSED">>,
    <<"FIN_WAIT_1", "FIN_WAIT_2">>, <<"FIN_WAIT_1", "CLOSING">>,
    <<"FIN_WAIT_2", "TIME_WAIT">>, <<"CLOSING", "TIME_WAIT">>,
    <<"TIME_WAIT", "CLOSED">> }

\* The arrows, and two arrows one after the other.
Joined(arrows) ==
  arrows \cup {<<p[1][1], p[2][2]>> : p \in {q \in arrows \X arrows : q[1][2] = q[2][1]}}

\* A segment may open, acknowledge and end streams all at once, so a step
\* may follow several arrows.
Forward == Joined(Joined(RFC793))

\* The state that the end is in.  An acknowledgment of our SYN that arrives
\* before the peer's SYN is accepted and leaves the end in none of the
\* official states; RFC 793 keeps such an end in SYN_SENT.
StageOf(c) ==
  IF c.active /\ c.sender.next_seqno > 0 /\ ~RX!has_ackno(c.receiver)
  THEN {"SYN_SENT"} ELSE StateNames(c)

(* tcp_state.hh, lines 19-22: "To test that Sponge follows the TCP spec,   *)
(* we use this class to compare the "official" states with Sponge's".      *)
(* Each end is always in one of them, and goes from one to another only    *)
(* along the arrows of the diagram, or is reset.                           *)
FollowsRFC793 ==
  [][\A e \in End :
       conn'[e] # conn[e] =>
         \E from \in StageOf(conn[e]), to \in StageOf(conn'[e]) :
            to \in {from, "RESET"} \/ <<from, to>> \in Forward]_vars
=============================================================================
