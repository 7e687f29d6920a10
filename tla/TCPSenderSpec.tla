--------------------------- MODULE TCPSenderSpec ---------------------------
(***************************************************************************)
(* One TCPSender between an application that writes a stream and a peer    *)
(* that acknowledges it.  The byte with stream index i is the number i.    *)
(* After every call the owner takes the segments that were queued, as      *)
(* TCPConnection does; `wire` holds the segments of the last step.         *)
(*                                                                         *)
(* The peer, chosen once, is                                               *)
(*   "orderly":   its acknowledgments arrive in the order it sent them, so *)
(*                neither the number nor the right edge ever moves back;   *)
(*   "arbitrary": any number and any window may arrive.                    *)
(***************************************************************************)
EXTENDS TCPSender

CONSTANTS
  Isn,           \* the initial sequence number
  Capacity,      \* send_capacity
  StreamLen,     \* bound: the application writes this many bytes
  InitRto,       \* rt_timeout
  Ticks,         \* the durations a tick may report
  MaxRetx,       \* bound: no tick once this many retransmissions are counted
  MaxWindow      \* the largest window the peer advertises

ASSUME SenderAssumption ==
  /\ Modulus \in Nat \ {0} /\ Modulus % 2 = 0
  /\ U64 \in Nat /\ U64 > StreamLen + 2
  /\ MAX_PAYLOAD_SIZE \in Nat
  /\ Isn \in WI!Wrapping
  /\ {Capacity, StreamLen, MaxRetx, MaxWindow} \subseteq Nat
  /\ MaxWindow >= 1
  /\ InitRto \in Nat \ {0}
  /\ Ticks \subseteq Nat \ {0}
  /\ 2 * (StreamLen + 4) <= Modulus

VARIABLES
  snd,    \* the object
  wire,   \* the segments handed to the owner by the last step
  peer,   \* how the peer acknowledges
  edge    \* the right edge of an orderly peer's window: its last ackno + window

vars == <<snd, wire, peer, edge>>

Byte == 0 .. StreamLen - 1

Segments == TS!Type(WI!Wrapping, {0}, Byte)

TypeOK ==
  /\ snd.stream \in BS!Type(Byte)
  /\ snd.segments_out = << >>
  /\ snd.outstanding_segments \in Seq(Segments)
  /\ snd.retx_timer \in RT!Type
  /\ snd.next_seqno \in 0 .. StreamLen + 2
  /\ snd.previous_ackno \in 0 .. StreamLen + 2
  /\ snd.window_size \in 0 .. MaxWindow
  /\ snd.bytes_in_flight \in 0 .. StreamLen + 2
  /\ snd.consecutive_retransmissions \in 0 .. MaxRetx
  /\ snd.is_fin_sent \in BOOLEAN
  /\ wire \in Seq(Segments)
  /\ peer \in {"orderly", "arbitrary"}
  /\ edge \in Nat

Init ==
  /\ snd = New(Capacity, InitRto, Isn)
  /\ wire = << >>
  /\ peer \in {"orderly", "arbitrary"}
  /\ edge = snd.window_size

\* The owner empties segments_out after the call that left the sender in s.
Return(s) ==
  /\ snd' = [s EXCEPT !.segments_out = << >>]
  /\ wire' = s.segments_out

Connect ==
  /\ snd.next_seqno = 0
  /\ Return(fill_window(snd))
  /\ UNCHANGED <<peer, edge>>

\* TCPConnection::write(): into the stream, then fill the window.
Write(n) ==
  LET first == snd.stream.total_written_bytes
      data  == [i \in 1 .. n |-> first + i - 1]
  IN  /\ ~snd.stream.is_input_ended
      /\ first + n <= StreamLen
      /\ Return(fill_window([snd EXCEPT !.stream = BS!write(@, data)]))
      /\ UNCHANGED <<peer, edge>>

\* TCPConnection::end_input_stream().
EndInput ==
  /\ ~snd.stream.is_input_ended
  /\ Return(fill_window([snd EXCEPT !.stream = BS!end_input(@)]))
  /\ UNCHANGED <<peer, edge>>

Larger(m, n) == IF m < n THEN n ELSE m

\* May the peer's next acknowledgment be this one?
InOrder(ackno, win) ==
  /\ snd.next_seqno > 0
  /\ ackno \in snd.previous_ackno .. snd.next_seqno
  /\ ackno > 0
  /\ ackno + win >= edge

Ack(ackno, win) ==
  /\ peer = "orderly" => InOrder(ackno, win)
  /\ Return(ack_received(snd, WI!wrap(ackno, snd.isn), win))
  /\ edge' = IF peer = "orderly" THEN ackno + win ELSE edge
  /\ UNCHANGED peer

Tick(ms) ==
  /\ snd.consecutive_retransmissions < MaxRetx
  /\ Return(tick(snd, ms))
  /\ UNCHANGED <<peer, edge>>

\* TCPConnection asks for a bare acknowledgment.
SendEmpty ==
  /\ Return(send_empty_segment(snd))
  /\ UNCHANGED <<peer, edge>>

Next ==
  \/ Connect
  \/ \E n \in 1 .. StreamLen : Write(n)
  \/ EndInput
  \/ \E ackno \in 0 .. StreamLen + 3, win \in 0 .. MaxWindow : Ack(ackno, win)
  \/ \E ms \in Ticks : Tick(ms)
  \/ SendEmpty

Spec == Init /\ [][Next]_vars
-----------------------------------------------------------------------------
\* The absolute sequence number at which the i-th outstanding segment starts
\* if the outstanding segments cover the numbers up to next_seqno.
StartOf(i) ==
  LET out == snd.outstanding_segments
  IN  snd.next_seqno - length_of_first(out, Len(out)) + length_of_first(out, i - 1)

\* Does seg carry what belongs at absolute number n: SYN at 0, the byte with
\* index n - 1 at n, and FIN only behind the last byte of the whole stream?
CarriesStreamAt(seg, n) ==
  /\ seg.seqno = WI!wrap(n, snd.isn)
  /\ seg.syn <=> n = 0
  /\ \A i \in DOMAIN seg.payload : seg.payload[i] = n + i - 2
  /\ seg.fin => /\ snd.stream.is_input_ended
                /\ n + Len(seg.payload) = snd.stream.total_written_bytes + 1

(* Nothing unacknowledged is forgotten: the outstanding segments cover the *)
(* numbers from the first unacknowledged one up to next_seqno without gap  *)
(* or overlap, each still carries the right bytes, and bytes_in_flight is  *)
(* what they add up to, whatever acknowledgments arrive.                   *)
OutstandingCoversUnacked ==
  LET out == snd.outstanding_segments
      oldest == IF out = << >> THEN snd.next_seqno ELSE StartOf(1)
  IN  /\ snd.bytes_in_flight = snd.next_seqno - oldest
      /\ oldest <= snd.previous_ackno
      /\ snd.previous_ackno <= snd.next_seqno
      /\ out # << >> =>
           snd.previous_ackno < oldest + TS!length_in_sequence_space(Head(out))
      /\ \A i \in DOMAIN out : CarriesStreamAt(out[i], StartOf(i))

(* The stream is cut without a gap: next_seqno counts the SYN, the bytes   *)
(* taken from the stream and the FIN, and the FIN goes out only when the   *)
(* whole stream has been taken.                                            *)
StreamFullyCut ==
  /\ snd.next_seqno = 0 => snd.stream.total_read_bytes = 0 /\ ~snd.is_fin_sent
  /\ snd.next_seqno > 0 =>
       snd.next_seqno = 1 + snd.stream.total_read_bytes
                          + (IF snd.is_fin_sent THEN 1 ELSE 0)
  /\ snd.is_fin_sent =>
       snd.stream.is_input_ended /\ BS!buffer_size(snd.stream) = 0

(* Once the SYN is out, the timer runs exactly when something is           *)
(* outstanding: nothing waits without a timer to retransmit it, and no     *)
(* retransmission is counted when there is nothing to retransmit.          *)
TimerRunsIffOutstanding ==
  snd.next_seqno > 0 =>
    (snd.retx_timer.is_running <=> snd.outstanding_segments # << >>)

\* The value v doubled n times.
Doubled(v, n) ==
  LET double[i \in Nat] == IF i = 0 THEN v ELSE 2 * double[i - 1]
  IN  double[n]

(* The timeout is the initial one doubled once for each counted            *)
(* retransmission; new data acknowledged resets both together.             *)
ExponentialBackoff ==
  snd.retx_timer.rto =
    Doubled(snd.retx_timer.init_rto, snd.consecutive_retransmissions)

(* Data never passes the right edge of an orderly peer's window, but for   *)
(* the one byte that probes a closed window.                               *)
DataWithinWindow ==
  peer = "orderly" /\ snd.stream.total_read_bytes > 0 =>
    1 + snd.stream.total_read_bytes <= Larger(edge, snd.previous_ackno + 1)

(* Retransmission is never put off: while something is outstanding the     *)
(* timer goes back only when new data is acknowledged or when the oldest   *)
(* segment has just been sent again; repeated, outdated or impossible      *)
(* acknowledgments and new data do not restart it.                         *)
RetransmissionNotPutOff ==
  [][ snd.outstanding_segments # << >> /\ snd'.retx_timer.t < snd.retx_timer.t =>
        \/ snd'.previous_ackno > snd.previous_ackno
        \/ wire' = <<Head(snd.outstanding_segments)>> ]_vars
=============================================================================
