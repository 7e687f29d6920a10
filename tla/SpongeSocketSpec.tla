-------------------------- MODULE SpongeSocketSpec --------------------------
(***************************************************************************)
(* A program such as apps/tcp_ipv4.cc: its main thread connects a          *)
(* TCPSpongeSocket, runs bidirectional_stream_copy() and then              *)
(* wait_until_closed(), beside the socket's TCPConnection thread.  The two *)
(* threads share a socket pair and run one callback at a time each, in any *)
(* interleaving.                                                           *)
(*                                                                         *)
(* The other end is a TCPConnection that answers at once and reads         *)
(* everything; nothing is lost, and time passes only when no segment is on *)
(* its way.  The byte with stream index i is the number i.                 *)
(***************************************************************************)
EXTENDS TCPState

CONSTANTS
  RecvCapacity, SendCapacity, RtTimeout,  \* the TCPConfig of both ends
  PipeSize,                   \* what each queue of the socket pair holds
  CopyBuffer,                 \* buffer_size of bidirectional_stream_copy()
  Plans                       \* a set of [input, peer, is_pipe]: how many bytes
                              \* the two ends have to say (bounds), and whether
                              \* the standard input is a pipe

ASSUME SocketAssumption ==
  /\ {RecvCapacity, SendCapacity, RtTimeout, PipeSize, CopyBuffer} \subseteq Nat \ {0}
  /\ Plans \subseteq [input : Nat, peer : Nat, is_pipe : BOOLEAN]

SS == INSTANCE TCPSpongeSocket
CP == INSTANCE StreamCopy

VARIABLES
  plan,     \* one of Plans
  phase,    \* of the socket: in connect(), running its thread, thread over
  thr,      \* the world of the socket's rules
  tloop,    \* the EventLoop of the socket
  owner,    \* the main thread: connecting, copying, waiting, joined
  own,      \* the world of the copying rules
  oloop,    \* the EventLoop of bidirectional_stream_copy()
  peer,     \* the TCPConnection at the other end
  heard,    \* history: the bytes read at the other end
  typed     \* history: how many bytes have come in on the standard input

vars == <<plan, phase, thr, tloop, owner, own, oloop, peer, heard, typed>>

Rules == <<1, 2, 3, 4>>

Init ==
  /\ plan \in Plans
  /\ phase = "connecting"
  /\ thr = SS!NewSocket(connect(New(RecvCapacity, SendCapacity, RtTimeout, 0)))
  /\ tloop = SS!EL!New(Rules)
  /\ owner = "connecting"
  /\ own = CP!New(CopyBuffer, plan.is_pipe)
  /\ oloop = CP!EL!New(Rules)
  /\ peer = New(RecvCapacity, SendCapacity, RtTimeout, 3)
  /\ heard = << >>
  /\ typed = 0
-----------------------------------------------------------------------------
\* The peer has become p: what it queued arrives, what it assembled is read.
PeerBecomes(w, p) ==
  LET n == BS!buffer_size(inbound(p))
  IN  /\ peer' = [p EXCEPT !.segments_out = << >>,
                           !.receiver.reassembler.output = BS!pop_output(@, n)]
      /\ heard' = heard \o inbound(p).buffer
      /\ thr' = [w EXCEPT !.arrived = @ \o p.segments_out, !.sent = << >>]

\* A step of the socket has left the world w.
SocketBecomes(w) ==
  LET receive(p, seg) == IF p.active THEN segment_received(p, seg) ELSE p
  IN  /\ PeerBecomes(w, FoldLeft(receive, peer, w.sent))
      /\ own' = [own EXCEPT !.up = w.up, !.down = w.down]

\* A step of the main thread has left the world w.
OwnerBecomes(w) ==
  /\ own' = w
  /\ thr' = [thr EXCEPT !.up = w.up, !.down = w.down]
  /\ UNCHANGED <<plan, phase, tloop, peer, heard, typed>>

Ticked(c, ms) == IF c.active THEN tick(c, ms) ELSE c

\* shutdown(SHUT_RDWR) of the owner's end.
HangUp(w) == [w EXCEPT !.up = SS!SP!shutdown(@), !.down = SS!SP!shutdown(@)]

AtTop == phase # "over" /\ tloop.results = << >> /\ ~thr.threw

\* An iteration of _tcp_loop() begins with the tick that ends the one before
\* (the first begins with a tick of 0 ms, which does nothing).
Iterating(ms) == [thr EXCEPT !.tcp = Ticked(@, ms)]

\* connect() leaves its loop and starts the thread.
Connected ==
  /\ AtTop
  /\ phase = "connecting"
  /\ state(Iterating(0).tcp) # Official.SYN_SENT
  /\ phase' = "running"
  /\ owner' = "copying"
  /\ thr' = Iterating(0)
  /\ UNCHANGED <<plan, tloop, own, oloop, peer, heard, typed>>

\* The rules are set up and poll() returns.  A timeout is a poll() with no
\* answers.
Poll ==
  LET s == SS!EL!set_up(tloop.rules, Iterating(0))
  IN  /\ AtTop
      /\ phase = "connecting" => state(Iterating(0).tcp) = Official.SYN_SENT
      /\ s.polled # {}
      /\ tloop' = [rules |-> s.rules, results |-> SS!EL!answers(s)]
      /\ SocketBecomes(s.w)
      /\ UNCHANGED <<plan, phase, owner, oloop, typed>>

\* Time passes at both ends, whether poll() times out or returns.
Wait ==
  LET w == Iterating(RtTimeout)
      p == Ticked(peer, RtTimeout)
  IN  /\ AtTop
      /\ thr.arrived = << >> /\ thr.tcp.segments_out = << >>
      /\ PeerBecomes(w, p)
      /\ UNCHANGED <<plan, phase, tloop, owner, own, oloop, typed>>

\* One callback of the socket.
Serve ==
  /\ tloop.results # << >>
  /\ ~thr.threw
  /\ \E after \in {SS!EL!serve(tloop, thr)} :
       /\ tloop' = after.loop
       /\ SocketBecomes(after.w)
  /\ UNCHANGED <<plan, phase, owner, oloop, typed>>

\* Nothing is left to poll: _tcp_main() ends and the connection is destroyed.
ThreadEnds ==
  LET s == SS!EL!set_up(tloop.rules, Iterating(0))
  IN  /\ AtTop
      /\ phase = "running"
      /\ s.polled = {}
      /\ phase' = "over"
      /\ tloop' = [tloop EXCEPT !.rules = s.rules]
      /\ SocketBecomes(HangUp([s.w EXCEPT !.tcp = destroy(@)]))
      /\ UNCHANGED <<plan, owner, oloop, typed>>
-----------------------------------------------------------------------------
\* poll() in bidirectional_stream_copy() returns.
CopyPoll ==
  LET s == CP!EL!set_up(oloop.rules, own)
  IN  /\ owner = "copying" /\ oloop.results = << >> /\ ~own.threw
      /\ s.polled # {}
      /\ oloop' = [rules |-> s.rules, results |-> CP!EL!answers(s)]
      /\ OwnerBecomes(s.w)
      /\ UNCHANGED owner

CopyServe ==
  LET after == CP!EL!serve(oloop, own)
  IN  /\ oloop.results # << >>
      /\ ~own.threw
      /\ oloop' = after.loop
      /\ OwnerBecomes(after.w)
      /\ UNCHANGED owner

\* bidirectional_stream_copy() returns and wait_until_closed() is called.
CopyEnds ==
  LET s == CP!EL!set_up(oloop.rules, own)
  IN  /\ owner = "copying" /\ oloop.results = << >> /\ ~own.threw
      /\ s.polled = {}
      /\ owner' = "waiting"
      /\ oloop' = [oloop EXCEPT !.rules = s.rules]
      /\ OwnerBecomes(HangUp(s.w))

Join ==
  /\ owner = "waiting"
  /\ phase = "over"
  /\ owner' = "joined"
  /\ UNCHANGED <<plan, phase, thr, tloop, own, oloop, peer, heard, typed>>
-----------------------------------------------------------------------------
\* The standard input: bytes come in, and in the end it is closed.
Type ==
  /\ typed < plan.input
  /\ own' = [own EXCEPT !.input.queue = Append(@, typed)]
  /\ typed' = typed + 1
  /\ UNCHANGED <<plan, phase, thr, tloop, owner, oloop, peer, heard>>

CloseInput ==
  /\ typed = plan.input /\ ~own.input.shut
  /\ own' = [own EXCEPT !.input.shut = TRUE]
  /\ UNCHANGED <<plan, phase, thr, tloop, owner, oloop, peer, heard, typed>>

\* The application at the other end writes, once it is connected, and closes.
PeerIsOpen ==
  /\ peer.active /\ ~outbound(peer).is_input_ended
  /\ BS!remaining_capacity(outbound(peer)) > 0
  /\ state(peer) \notin {Official.LISTEN, Official.SYN_RCVD, Official.SYN_SENT}

PeerWrite ==
  LET i == outbound(peer).total_written_bytes
  IN  /\ PeerIsOpen
      /\ i < plan.peer
      /\ PeerBecomes(thr, write(peer, <<i>>))
      /\ UNCHANGED <<plan, phase, tloop, owner, own, oloop, typed>>

PeerEnd ==
  /\ PeerIsOpen
  /\ outbound(peer).total_written_bytes = plan.peer
  /\ PeerBecomes(thr, end_input_stream(peer))
  /\ UNCHANGED <<plan, phase, tloop, owner, own, oloop, typed>>

Thread == Connected \/ Poll \/ Serve \/ ThreadEnds
Main == CopyPoll \/ CopyServe \/ CopyEnds \/ Join
Outside == Type \/ CloseInput \/ PeerWrite \/ PeerEnd

Next == Thread \/ Wait \/ Main \/ Outside

Spec == Init /\ [][Next]_vars

\* What each of the fair steps waits for.
ThreadWaits ==
  LET s == SS!EL!set_up(tloop.rules, thr)
  IN  \/ phase = "over" \/ thr.threw
      \/ /\ tloop.results = << >>
         /\ phase = "connecting" => state(thr.tcp) = Official.SYN_SENT
         /\ Iterating(0) = thr
         /\ s.rules = tloop.rules /\ s.polled # {} /\ SS!EL!answers(s) = << >>

MainWaits ==
  LET s == CP!EL!set_up(oloop.rules, own)
  IN  \/ owner \in {"connecting", "joined"} \/ own.threw
      \/ owner = "waiting" /\ phase # "over"
      \/ /\ owner = "copying" /\ oloop.results = << >>
         /\ s.rules = oloop.rules /\ s.polled # {} /\ CP!EL!answers(s) = << >>

TimeWaits ==
  \/ ~AtTop \/ thr.arrived # << >> \/ thr.tcp.segments_out # << >>
  \/ Iterating(RtTimeout) = thr /\ Ticked(peer, RtTimeout) = peer

\* Weak fairness: both threads are scheduled, time passes when nothing is on
\* its way, the user and the other end finish what they have to say.
FairSpec ==
  /\ Spec
  /\ []<>ThreadWaits \/ []<><<Thread>>_vars
  /\ []<>MainWaits \/ []<><<Main>>_vars
  /\ []<>TimeWaits \/ []<><<Wait>>_vars
  /\ []<>own.input.shut \/ []<><<Type \/ CloseInput>>_vars
  /\ []<>~PeerIsOpen \/ []<><<PeerWrite \/ PeerEnd>>_vars
-----------------------------------------------------------------------------
Bytes(n) == [i \in 1 .. n |-> i - 1]

ToPeer == INSTANCE InOrderStream WITH
  sent <- Bytes(typed), delivered <- heard,
  closed <- own.input.shut, finished <- inbound(peer).is_eof

FromPeer == INSTANCE InOrderStream WITH
  sent <- Bytes(outbound(peer).total_written_bytes), delivered <- own.output,
  closed <- outbound(peer).is_input_ended, finished <- own.output_closed

(* What is typed is, in order and without a gap, what the other end reads, *)
(* what the other end writes is what is shown, and each end of stream      *)
(* arrives only behind the last byte, through two ByteStreams, a socket    *)
(* pair and a TCPConnection in each direction.                             *)
EndToEnd == ToPeer!Spec /\ FromPeer!Spec

(* eventloop.cc, lines 55-60, and tcp_sponge_socket.cc, line 103: no       *)
(* callback is found to wait busily, accepts less than it read, or writes  *)
(* to a pipe that is shut; an exception would end the program.             *)
NothingIsThrown == ~thr.threw /\ ~own.threw

(* When wait_until_closed() returns, both streams are complete: the other  *)
(* end has read all that was typed, and all that it wrote has been shown.  *)
JoinedMeansComplete ==
  owner = "joined" =>
    /\ heard = Bytes(plan.input) /\ inbound(peer).is_eof
    /\ own.output = Bytes(plan.peer) /\ own.output_closed

(* The program comes to its end.                                           *)
ProgramEnds == <>(owner = "joined")
=============================================================================
