# A TLA+ model of the Sponge TCP/IP stack

The repository is a user-space TCP/IP stack: a TCP endpoint built from a byte
stream, a reassembler, a receiver, a sender and a connection; a network
interface that speaks ARP; a router; and an event loop that joins a TCP
endpoint to an application and to a datagram service. This directory models
that stack in TLA+, checks small instances with TLC, and proves theorems about
it with TLAPS.

Definitions keep the names of the C++ code (without the leading underscore of a
data member). An object is a record whose fields are its data members; a method
is an operator that takes the record and returns the record after the call. So
`push_substring(r, data, index, eof)` is the reassembler `r` after
`r.push_substring(data, index, eof)`. `PROJECT.json` gives, for every
definition, the lines it was translated from.

## The parts of the system

| part | state | operations | with whom |
|---|---|---|---|
| `ByteStream` | bounded FIFO of bytes, two counters, the flags input ended, eof, error | write, peek, pop, read, end_input, set_error | the ends of every pipeline below |
| `StreamReassembler` | ring buffer with a separator, occupied flags, first unassembled index, eof seen | push_substring | owns the output `ByteStream` |
| `WrappingInt32` | - | wrap, unwrap, +, - | receiver, sender |
| `TCPReceiver` | reassembler, the peer's ISN once known | segment_received, ackno, window_size | connection |
| `RetransmissionTimer` | initial and current RTO, elapsed time, running | tick, start, stop, set_rto_init, double_rto | sender |
| `TCPSender` | outgoing `ByteStream`, next seqno, highest ackno, window, outstanding segments, bytes in flight, count of retransmissions, FIN sent | fill_window, ack_received, tick, send_empty_segment | connection |
| `TCPConnection` | sender, receiver, active, linger, FIN sent, FIN acked, time since the last segment | connect, write, end_input_stream, segment_received, tick, destructor | the peer's connection, the socket |
| `TCPSpongeSocket` | connection, event loop with four rules, a pipe to the application, a thread | connect, listen_and_accept, wait_until_closed, destructor | connection, application, datagram adapter |
| `NetworkInterface` | address cache with ages, pauses between ARP requests, waiting datagrams | send_datagram, recv_frame, tick | router or host above, Ethernet below |
| `Router` | routing table, interfaces | add_route, route | interfaces |
| `EventLoop` | list of rules, each with a descriptor, a callback, its interest and what to do when it is cancelled | add_rule, wait_next_event | socket, `bidirectional_stream_copy` |
| `bidirectional_stream_copy` | two `ByteStream`s, event loop with four rules | runs until both streams are over | standard input and output, a socket |
| adapters: UDP, TUN, Ethernet, lossy | addresses and ports of the connection, listening or not, for Ethernet a `NetworkInterface` | read, write, tick | socket above, datagrams or frames below |
| formats: TCP, IPv4, ARP, Ethernet | headers and payloads | parse, serialize, with `NetParser` and `InternetChecksum` | adapters, interface |
| `network_simulator` | hosts, a router, connections, expected datagrams | send_to, expect, simulate, check | router, interfaces |

What makes these parts hard to get right, and which property looks after it, is
listed as `hazards` in `PROJECT.json`. In short: the ring buffer's separator
and the unsigned arithmetic around the window; an end of stream that overtakes
data; 32-bit numbers that wrap in mid-stream; acknowledgments that are late,
repeated or partial, and windows that are out of date; a retransmission timer that is started and stopped in five
places; two ends that close in any order while the last acknowledgment is lost;
two threads whose event loops act on answers of `poll()` that may be out of date;
datagrams that wait for an address while mappings are learned and expire; a
routing table that is built in any order; headers whose parse results are
ignored, so that damage is noticed only further up; a listening adapter that
binds to the first SYN it reads, even if that is dropped afterwards.

## Modules

Class modules define operators only.

| module | models |
|---|---|
| `ByteStream` | `byte_stream.{hh,cc}` |
| `StreamReassembler` | `stream_reassembler.{hh,cc}`; slots, separator and `size_t` subtraction (modulo `U64`) as in the code |
| `WrappingIntegers` | `wrapping_integers.{hh,cc}`; 2^32 is the constant `Modulus` |
| `TCPSegment` | the header fields `TCPConnection` uses and `length_in_sequence_space()` |
| `TCPReceiver`, `RetransmissionTimer`, `TCPSender`, `TCPConnection` | the files of the same names |
| `TCPState` | `tcp_state.{hh,cc}` and `TCPConnection::state()`: a connection as seen from outside, and the official states of RFC 793 in the same terms |
| `EventLoop` | `eventloop.{hh,cc}`; the closures of the rules and the answers of `poll()` are parameters |
| `SocketPair` | what `read()`, `write()`, `shutdown()` and `poll()` do to a pair of connected local sockets |
| `TCPSpongeSocket` | the four rules of `tcp_sponge_socket.{hh,cc}`, as parameters of `EventLoop` |
| `StreamCopy` | the four rules of `bidirectional_stream_copy.cc`, likewise |
| `NetworkInterface`, `Router` | the files of the same names |
| `Network` | the classes `Host` and `Network` of `network_simulator.cc` |
| `Formats` | `parser.cc`, the checksum of `util.cc`, and `parse()` and `serialize()` of the TCP, IPv4, ARP and Ethernet classes; a packet is a sequence of bytes |
| `Adapters` | `fd_adapter.cc`, `tcp_over_ip.cc`, `tuntap_adapter.cc`, `lossy_fd_adapter.hh`; their packets are those of `Formats`, and the Ethernet one owns a `NetworkInterface` |
| `InOrderStream` | abstract: what comes out is a prefix of what went in, and the end is reported only at the end |

Specification modules hold the state machines, one object (or two) and its
environment each.

| module | the object and its environment |
|---|---|
| `StreamReassemblerSpec` | a reassembler, substrings in any order, a reader |
| `WrappingIntegersSpec` | a sender and a receiver position that advance over several laps |
| `TCPReceiverSpec` | a receiver and segments of a peer's stream in any order, also before the SYN; like the reassembler's, the specification has constants that let the peer send beyond the window and let its bare FIN overtake data |
| `TCPSenderSpec` | a sender, an application, and a peer that acknowledges in order or arbitrarily |
| `TCPPairSpec` | two connections, each driven as `TCPSpongeSocket` drives it, and a network that loses and reorders; it starts with any of a set of networks, each with bounds on losses and reordering, the lengths of the two streams, and whether applications wait for acknowledgments before they close (`careful`); `MCTCPPair` has the sets |
| `SpongeSocketSpec` | a program that connects, copies its input and output through the socket and waits until it is closed, beside the socket's thread; the other end is a connection that answers at once; `MCSpongeSocket` fixes its constants |
| `NetworkInterfaceSpec` | an interface, datagrams, ARP messages of any kind, time |
| `NetworkSpec` | the program `network_simulator`: any hosts send any datagrams, `simulate()` moves frames and checks every host; `MCNetwork` is the program's network in addresses of five bits |
| `AdaptersSpec` | stations, each with an adapter and the `TCPConnection` above it, on one network that loses, cuts and damages packets; `MCAdapters` has a server, a client and a third station on each kind of network |
| `StreamReassemblerProofs`, `WrappingIntegersProofs`, `TCPReceiverProofs`, `TCPSenderProofs`, `NetworkInterfaceProofs`, `NetworkProofs` | the theorems about the specifications of those names |
| `TCPSenderLemmas` | the inductive invariant of the sender and what each of its methods does to it |
| `Recursion` | functions defined by recursion on the natural numbers exist; what a loop, written as a fold, keeps; induction |

Every handler is one atomic step together with everything it calls: the owner
of an object is single-threaded (`EventLoop` runs one rule at a time), and takes
the queued segments or frames before the next call. In the specification
modules the operator `Return` is that last part of a step. `SpongeSocketSpec`
is finer: `poll()` and each callback of the two threads are steps of their own,
so what one thread does between a `poll()` of the other and the callbacks that
follow from it is part of the model.

Bytes are numbers. The byte with stream index `i` is the number `i`, so a byte
that is lost, repeated or moved shows. Payloads, addresses and datagrams are
small numbers or names, and what is never compared is left out. Only `Formats`
and `Adapters` go down to the bytes of a packet, because there damage and the
checks against it are the point.

Some definitions are followed or preceded by a variant under the comment
"Mutant". It is the definition as a plausible mistake would have it;
`PROJECT.json` pairs each with a property that detects it.

## Runs

Run one with `tlc -config <run>.cfg <module>`.

| run | shows |
|---|---|
| `StreamReassembler_pass` | `InOrderOutput`, `RingMatchesStream`, `CapacityRespected`, `EndOnlyAfterLastByte`, `StoredBytesAreKept`; the cached eof flag of the `ByteStream` is exact (`EofExact`); and the whole stream gets through (`WholeStreamDelivered`) |
| `WrappingIntegers_pass` | `unwrap` chooses the number closest to the checkpoint, so it inverts `wrap` within half a lap |
| `TCPReceiver_pass` | nothing is acknowledged that has not arrived; the 32-bit number decodes to the right absolute one; the right edge of the window never moves back |
| `TCPSender_pass` | what is unacknowledged is kept, in order, with the right bytes, under any acknowledgments; SYN, bytes and FIN are cut without a gap; the timer runs exactly when it must, backs off exactly and is not put off; no payload passes the window of an orderly peer |
| `TCPPair_pass` | with streams that fit the receiver and streams that meet a closed window and are probed through it: both directions implement `InOrderStream`; a byte is forgotten only when the other end has it; a connection that is over without an error has both streams complete; each end goes through the states of RFC 793 along the arrows of its diagram (`FollowsRFC793`); nobody gives up and both ends finish (`BothFinish`) |
| `TCPPair_timing` | the first and third of these when each end's clock runs regardless of the network, so that retransmission, lingering and giving up race with segments on the way, and sockets are destroyed in the middle |
| `SpongeSocket_pass` | from the standard input to the peer's application and back, through two `ByteStream`s, a socket pair and a connection each way, both directions implement `InOrderStream` (`EndToEnd`); no callback waits busily, writes to a pipe that is shut or accepts less than it read (`NothingIsThrown`); when `wait_until_closed()` returns, both streams are complete (`JoinedMeansComplete`); the program ends (`ProgramEnds`) |
| `NetworkInterface_pass` | per hop, datagrams leave once and in order; a datagram waits only for an address that was asked for; the cache is what was heard in the last 30 s; requests are 5 s apart |
| `Network_pass` | across a router, shared links and real ARP, every datagram comes to the host that the longest matching prefix names, once and with its TTL decremented, or to nobody (`AllRouted`); six rounds bring everything to rest (`QuietInTheEnd`); no cache is wrong (`CachesAreTrue`) |
| `Adapters_pass` | a connection is given only segments that one peer sent, bit for bit, and a server's nothing before a SYN, although packets are damaged in any byte or cut and others send to the same port (`OnlyThePeerIsHeard`); after any single loss, damage or drop, ARP included, a client and the server are connected in the end and the client's bytes arrive (`Connects`) |
| `TCPPair_early`, `TCPPair_stale` | disagreements between the code and what is written about it; see below |

### Bounds

- `StreamReassembler_pass`: capacity 6, 14 bytes, substrings of up to 4: the
  ring is lapped twice, with every pattern of holes.
- `WrappingIntegers_pass`: modulus 8, absolute numbers up to 28, every ISN: the
  first lap (where nothing is below zero), both corrections and exact halves.
- `TCPReceiver_pass`: capacity 4, 8 bytes, payloads of up to 3, modulus 32 with
  ISN 0 and ISN 28: the numbers wrap in mid-stream. The streams are shorter than half the
  modulus, as real windows are.
- `TCPSender_pass`: 4 bytes, segments of up to 2, windows 0 to 3, ISN 14 of 16,
  ticks of 1 and 3 with RTO 2, two retransmissions: windows smaller and larger
  than a segment, zero windows, ticks that do and do not expire the timer.
- `TCPPair_*`: receivers of capacity 2; ISN 30 of 32 at one end. `TCPPair_pass`
  starts on any of five networks. One keeps everything in order, with streams of
  2 and 1 bytes and applications that close whenever they like. Two lose one
  segment, with streams of 3 and 1 or 4 and 0 bytes: bytes are sent into a closed
  window and dropped, and the announcement that opens it can be lost. Two let one
  segment be overtaken: of the acknowledgments, when the stream fits the receiver
  (2 and 1), or of the data, when it does not (4 and 0). A single loss reaches every
  segment of the exchange, the SYN, the last acknowledgment and the window
  update included. With two attempts allowed a second loss would add giving up,
  which `TCPPair_timing` covers (streams of 1 and 0). What is left out of
  `TCPPair_pass`, because the code does not bear it, is what `TCPPair_early` and
  `TCPPair_stale` show.
- `SpongeSocket_pass`: 3 bytes out, 3 bytes in, or 1 each way; every buffer holds
  one byte, except the receive windows, which hold two so that the pipe takes
  less than it is offered. So every buffer on the way is full at some time. The
  standard input is a pipe, whose end is a hang-up, or a terminal, whose end is
  readable. The network is prompt and loses nothing (`TCPPair_*` look after
  that), and time passes at a moment when no segment is on its way.
- `NetworkInterface_pass`: two stations, two addresses, three datagrams, ages
  up to 4 with ticks of 1 and 3.
- `Network_pass`: the network of the program with addresses of five bits, which
  is what its prefixes need to stay distinct; nine routes added in the order of
  the program or in the reverse one; two datagrams of four senders to nine
  destinations, in every network but the default router's own and in two gaps
  that only the default route covers, with TTL 0, 1 or 2. Two datagrams are the least that can wait for each other. `simulate()` makes 6
  rounds instead of 256: `QuietInTheEnd` shows that more change nothing.
- `Adapters_pass`: three stations and five networks; one fault, at every byte of
  a packet. One damaged byte is what a checksum promises to notice; two can
  compensate each other. Damage adds 1, so a byte of 255 becomes 0. Sequence
  numbers have 16 bits (the upper two bytes on the wire are zero) and the
  client's wraps with its first byte. Mappings
  of the address cache live for 3 ticks and a connection tries for 7: ARP has no checksum, and
  a damaged reply is recovered from only when its mapping expires, as in the
  code, where 30 s are less than the retransmissions take.

`CHECK_DEADLOCK FALSE` is set for `WrappingIntegers_pass`, where counting stops
at the bound, and for the pairs and the socket, which stop when the connections are over.

### Fairness

- `StreamReassemblerSpec`: the oldest missing part is pushed again and again,
  as a sender retransmits its oldest outstanding segment until it is
  acknowledged; the reader reads.
- `TCPPairSpec`: an event loop that has something to do does it, and one that
  has nothing to do ticks (`_tcp_loop()`); applications write what they have, end
  their streams and read. Nothing is assumed of the network: a segment at the
  head of its queue may be lost as long as the budget lasts.
- `SpongeSocketSpec`: the operating system runs both threads; time passes when
  nothing is on its way; the user and the other end finish what they have to
  say.
- `AdaptersSpec`: some step happens, again and again, until nothing is on its
  way and no timer runs. Event loops read and write what there is, and when
  there is nothing, time passes and connections retransmit; the number of faults
  is bounded.

Weak fairness of a large handler is written as "infinitely often there is
nothing for it to do, or infinitely often it happens". This is WF with the
guard in place of ENABLED, which TLC evaluates far faster.

## Proofs

`StreamReassemblerProofs` proves, for every capacity, stream length and length
of substrings:

| theorem | states |
|---|---|
| `TypeCorrect` | `TypeOK` always holds |
| `OutputInOrder` | the output is the stream, in order, without a gap |
| `RingConsistent` | every waiting byte is in the slot of its index, inside the window |
| `CapacityIsRespected` | `unassembled_bytes` is the number of occupied slots, and buffered plus waiting bytes fit the capacity |
| `EndAfterLastByte` | the output ends only after the last byte |
| `BytesAreKept` | a byte accepted out of order stays until it is assembled |
| `EofIsExact` | the cached eof flag of the output is exact |

Assumptions: `ReassemblerAssumption` (capacity positive, the rest natural
numbers); `~BeyondWindow`, the sender of the substrings stays within the
advertised window (then no subtraction wraps, and nothing is assumed of `U64`);
and for `EndAfterLastByte` and `EofIsExact` also `~EndOvertakes`, no bare end mark overtakes
data. The code needs the last two: see "Where the code and its comments disagree".

The argument. `InOrderOutput` is not inductive: what `write_to_output()`
appends is whatever the ring holds, and how much of it is accepted depends on
the room in the output. The inductive invariant `IInv` adds to it that each
occupied slot holds the byte of its index (`RingMatchesStream`), that no
occupied slot lies beyond the room left in the output, that the slot of the next expected
byte is free between calls, and that the count is the number of occupied slots. `EndAfterLastByte` needs a further conjunct, `EndOK`: once the eof
flag is set, the last byte of the stream is assembled or waiting. `EofIsExact`
rests on that: nothing can be written behind a declared end, which is the one
thing that would leave the flag stale. The
lemmas follow the code: `SlotInjective`, `SlotSurjective` and `SlotShift` are
the arithmetic of the ring (two offsets below the capacity do not collide, and
moving the separator re-labels the slots); `StoreEffect` says what
`store_data()` leaves in each slot; `RunLength` and `WriteEffect` do the same
for `write_to_output()`; `StoreCounts` and `WriteCounts` do the counting with
the cardinality theorems of the library. `PushConsistent` and
`ReadConsistent` combine them into one step each.

`WrappingIntegersProofs` proves, for every even modulus (2^32 included), every
initial sequence number and streams of any length:

| theorem | states |
|---|---|
| `UnwrapIsClosest` | what `unwrap()` recovers wraps to the header, and is at least as close to the checkpoint as the number that was sent |
| `UnwrapInverts` | `unwrap(wrap(s))` is `s` when `s` is less than half a lap from the checkpoint |

Assumption: `ModulusAssumption` (positive and even, as `unwrap()` halves it).
The argument is about laps: a number is a lap and a residue (`Laps`, `Residue`),
the sum the code forms differs from the header's number by whole laps
(`AbsSeqno`, `UnwrapInLaps`), two numbers with one residue differ by at least a
lap or not at all (`LapsApart`), and of the laps around the checkpoint the code
takes the nearest (`Closest`). The invariant is that the header is the wrapped
number of the sender.

`TCPReceiverProofs` proves, for every capacity, stream, length of payload, even
modulus and initial sequence number, and for segments that arrive in any order
and any number of times, also before the SYN:

| theorem | states |
|---|---|
| `ReceiverImplementsReassembler` | `Spec => R!Spec`, for every peer: the receiver implements `StreamReassemblerSpec` with the same `BeyondWindow` and `EndOvertakes` |
| `AcknoIsDecoded` | for every peer, the acknowledgment decodes to the absolute number it stands for |
| `ReceiverOutputInOrder` | if `~BeyondWindow`, the output is the stream, in order, without a gap |
| `AckedHasArrived` | if also `~EndOvertakes`, everything acknowledged has arrived, SYN and FIN included |
| `WindowEdgeKept` | under the same two, the right edge of the window never moves back |

Assumption: `ReceiverAssumption` (positive capacity, even modulus, and a stream
with SYN and FIN shorter than half of the modulus; the code assumes as much when
it unwraps a number against the first unassembled index). The refinement maps
the reassembler of the receiver to the variable of `StreamReassemblerSpec`: a
segment is one `Push` of the substring at the index its wrapped number stands
for, or a stutter. `unwrap()` finds the index only because the checkpoint, the
count of bytes written, stays within the stream. For a peer that ignores the
window this is not obvious, as bytes then land in slots of other bytes: `InStream`
is inductive all the same, because a byte of the stream lands no further from the
separator than its index is from the first unassembled one, so an occupied slot
never stands for an index behind the end (`PushInStream`, `SlotLeast`).
So the theorems about the reassembler carry over, and
`ReceiverOutputInOrder` is `OutputInOrder` under that mapping. `AckedHasArrived`
needs the invariant to say of each byte the reassembler holds, assembled or
waiting, that it has arrived (`HasArrived`), and that the end of the stream is
known only when the FIN has; `PushAddsOnlySubstring` and `ReadOnlyFrees` of
`StreamReassemblerProofs` say that a push adds nothing but the bytes of its
substring. `WindowEdgeKept` rests on `StepEffect`: no step lowers the sum of
what is assembled and the room in the output.

`TCPSenderProofs` proves, for every stream, capacity, payload size, window,
timeout, initial sequence number and even modulus, and for a peer whose
acknowledgments arrive in order as well as for one that sends any number with
any window:

| theorem | states |
|---|---|
| `SenderTypeCorrect` | `TypeOK`; no counter passes the stream with SYN and FIN |
| `NothingUnackedForgotten` | the outstanding segments cover what is sent and not acknowledged, without gap or overlap, with the right bytes, and `bytes_in_flight` is their length |
| `StreamCutWithoutGap` | SYN, bytes and FIN are cut into segments without a gap |
| `TimerFollowsOutstanding` | the timer runs exactly when something is outstanding |
| `BackoffCounts` | the timeout is doubled once for each retransmission counted |
| `SenderKeepsToWindow` | with an orderly peer no payload passes the window, but for the probe of a closed one |
| `TimerNotSetBack` | only an acknowledgment of new data or a retransmission sets the timer back |

Assumption: `SenderAssumption`. A stream with SYN and FIN fits in half of the
modulus, since acknowledgments and the numbers of outstanding segments are
unwrapped against `previous_ackno`; `U64` is larger than the stream, so only the
one intended subtraction can wrap; some window may be opened.

The argument. `OutstandingCoversUnacked` is stated with sums over the queue,
which no step changes in a simple way. The invariant `IInv` says instead that
there is a function `st` that gives each outstanding segment the absolute number
at which it starts: each starts where the one before it ends, the last ends at
`next_seqno`, `bytes_in_flight` is the distance between the two ends, each
segment carries the bytes of the stream at its number (`Covers`), and the
acknowledged number lies in the first segment (`AckedUpTo`). `send()` extends
`st` at the end and `pop_acknowledged()` shortens it at the front
(`AcknowledgedSegments`, `PopAcknowledged`). `RoundKeeps` is one round of the
loop of `fill_window()`, `RoundsKeep` its induction; `AckKeeps` and `TickKeeps`
combine these with the timer. `LengthIsDistance` leads back from `st` to the
sums. For an orderly peer the invariant also has that what was cut off the
stream ends inside the window (`InWindow`), since the payloads of one call are
bounded by the window only through what earlier calls have sent.

Loops are recursive functions here. That such a function obeys its own
definition is not given: `f[n \in Nat] == ...` is a `CHOOSE`, and one has to
show that there is something to choose. `Recursion` shows it for any step
operator, from the well-ordering of the natural numbers, by an induction over
sets of numbers in place of predicates; `TCPSenderProofs` instantiates it for
the three recursive functions of the sender, `NetworkInterfaceProofs` for
`selected()`. The lemmas of the sender take these facts
as one hypothesis, `Foundations`, which `FoundationsHold` discharges: so
`TCPSenderLemmas` needs no library but `Integers` and `Sequences`, and its
proofs are checked in a few minutes.

`NetworkInterfaceProofs` proves, for any stations, any tick lengths and any
times with `ARP_REQ_TIME <= CACHE_VALID_TIME` (`InterfaceAssumption`; 5 s and
30 s in the code):

| theorem | states |
|---|---|
| `CacheIsRecent` | a mapping is in the cache exactly while its latest announcement is younger than `CACHE_VALID_TIME`, with its address and age |
| `OrderIsKept` | per next hop, what has left followed by what waits is what was handed over: in order, each datagram once |
| `WaitingIsAsked` | a datagram waits only for an address that is unknown and asked for |
| `RequestsPaced` | two requests for one address are at least `ARP_REQ_TIME` apart |

`RequestsPaced` is not obvious because an answer erases the timer of its address.
The invariant `IInv` says why that opens no loophole (`AskedOrHeard`): an
address asked for recently still has its timer, or has been heard of since, and
then it is in the cache for longer than the pause lasts. `SendEffect`,
`RecvEffect` and `TickEffect` say what each call does to the two maps.

`OrderIsKept` needs the other theorem about the queue: a datagram that finds
its address in the cache leaves at once, and overtakes nobody only because
nothing waits for an address that is known. So both are conjuncts of one
invariant, `QInv`, together with `Ledger`, which says that what was framed and
what waits are numbers of datagrams that were handed over. The rest is about
`selected()`, the loop that takes the elements of a set out of a sequence in
their order: it distributes over concatenation (`SelectedConcat`), takes all or
nothing where every or no element is in the set (`SelectedAll`,
`SelectedNone`), and `QueueSplit` says of the loop of `recv_frame()` that what
it sends followed by what it leaves is, for each next hop, what was waiting.

`NetworkProofs` proves, for any interfaces, hosts, connections and routes, for
any number of datagrams and any number of rounds:

| theorem | states |
|---|---|
| `CachesTrue` | what an interface has learned is the address of the station that owns the IP address, on the same connection |
| `RoutedByLongestPrefix` | the table has exactly the routes that were added, and a datagram is sent by one that matches and that no other match has a longer prefix than, in whatever order they were added; without a match, or without time to live, it is dropped |

Assumptions: `LinksAssumption` (an interface is connected at most once) and
`NetworkAssumption` (routes name interfaces that exist). That a route matches is
`matches()` of the code, a comparison of shifted addresses; that this is
agreement in the leading bits involves powers of two, which the provers do not
know, and is part of what `AllRouted` checks.

The argument. `CachesAreTrue` is not inductive, as an interface learns from a
frame whatever the frame says. The invariant `NetOK` says that every interface is
`Honest`: ARP messages in its queue tell its own addresses, and its cache is
true. A frame reaches only the other stations of its connection, so what it
teaches them is true (`ExchangeOK`). For the router the invariant adds `TableOK`:
longer prefixes come first, so the first match is the longest
(`PlaceInOrder`, `RouteAdded`, `LongestIsFirst`), also between two datagrams of
one call of `route()`. The program consists of
loops, nested up to three deep: over the connections, over pairs of stations and over
frames; over queues and over datagrams; over routes and over what a host
checks. Each is a `FoldLeft` in the model, and `FoldKeeps` of `Recursion` says
of any loop that what it keeps holds at its end; `NetworkProofs` instantiates it
eight times.

Only model-checked:

- liveness (`WholeStreamDelivered`, `BothFinish`, `ProgramEnds`, `Connects`),
  which needs fairness and is outside the prover;
- `AllRouted` and `QuietInTheEnd`: that datagrams arrive, and that six rounds are
  enough. They are about the progress that rounds make, and hold for networks
  such as the program's, where every gateway exists;
- the connection, the socket and the adapters, which put several of the proved
  parts together.

## Where the code and its comments disagree

Two runs are expected to violate their property.

- `TCPPair_early`: a FIN without payload sets the eof flag although bytes in
  front of it are missing, and the output ends as soon as nothing waits. No
  segment has to be lost for that: a byte sent into a closed window is dropped,
  a segment of the other end's data announces an open window, and the FIN that
  is sent then comes before the byte is sent again. The
  application is told that the stream is over before its last bytes;
  `stream_reassembler.hh:43` says that the end is "the last byte in the entire
  stream". With applications that close only after all they wrote
  has been acknowledged this does not happen, and that is what `TCPPair_pass`
  assumes (`careful`) where segments are dropped, lost or overtaken.
- `TCPPair_stale`: `ack_received()` stores the window before it finds that the
  acknowledgment is old (`tcp_sender.cc:103`). One overtaken segment brings back
  a window of 2 that has closed since; the sender sends a byte beyond the edge,
  then finds less advertised than is in flight, and the unsigned difference of
  `tcp_sender.cc:36` wraps and lets everything else out. At the receiver the
  subtraction in `stream_reassembler.cc:54` wraps, and a byte is stored in the
  slot of another: the application reads bytes 0, 1 and 4.
  `stream_reassembler.hh:39` says "Bytes that would exceed the capacity are
  silently discarded", and `stream_reassembler.hh:16` calls the output "The
  reassembled in-order byte stream". So in `TCPPair_pass` acknowledgments are
  overtaken only when the stream fits the receiver, and `DataWithinWindow` is
  claimed for an orderly peer.

Others were met while modelling and are kept in the model as they are in the
code, without a run of their own: with `BeyondWindow = TRUE` in
`StreamReassembler_pass.cfg`, `RingMatchesStream` fails, and alone
`InOrderOutput` too, for the reason `TCPPair_stale` shows;
the retransmission timer runs from construction, so an endpoint that only
listens counts expirations and resets itself (`tcp_connection.cc:110`) after
`MAX_RETX_ATTEMPTS`, "Maximum re-transmit attempts before giving up"
(`tcp_config.hh:17`), without having sent anything;
`ByteStream::write()` accepts bytes after
`end_input()` (`byte_stream.hh:9` says none can be written); `empty()` of the
reassembler also asks for an empty output (`stream_reassembler.hh:58`); the test
for adding a FIN to a segment compares with the whole window
(`tcp_sender.cc:78`, against `send_extra.cc:236`); the RST that `~TCPConnection()` queues is
destroyed with its queue (`tcp_sponge_socket.cc:266`), so `Abort` sends nothing;
`connect()` waits only while the state is `SYN_SENT` (`tcp_sponge_socket.cc:225`),
and an acknowledgment that comes before the peer's SYN leads to a state that is
none of the official ones, so the application is let in before the handshake is
over. RFC 793 would stay in `SYN_SENT`, and `FollowsRFC793` counts it as that. When
the clocks of the two ends are independent, the end that listens can then meet
data and a FIN before its own SYN is acknowledged, so `FollowsRFC793` is claimed
for a prompt network only. `IPv4Datagram::parse()`, `EthernetFrame::parse()` and
`TCPSegment::parse()` ignore the results of their headers, so the checks that
`ipv4_header.cc:13-22` asks for (version, length, checksum) do not refuse a
datagram; `OnlyThePeerIsHeard` shows that a single damaged byte is still
noticed, by the length of the payload, the addresses, the ports or the checksum
of TCP. The UDP adapter compares the source of the datagram and no port,
although `fd_adapter.cc:12-14` speaks of the ports in the TCP header.

## Not modelled

- A connection that is reset under a socket. If the inbound stream then holds
  more than the pipe takes, rule 3 shuts the pipe, stays interested
  (`tcp_sponge_socket.cc:136`) and writes to it again, which fails. The peer of
  `SpongeSocketSpec` never resets, so `NothingIsThrown` is claimed for
  connections that are not reset.
- Signals during `poll()`, `POLLERR`, and failures of system calls other than
  those of the socket pair.
- The storage that `Buffer`s share, `BufferList` and `BufferViewList`: a buffer
  is its contents, because nothing writes to the storage once it is shared.
- The rules of `lab7.cc` and of `bouncer.cc` that carry frames between host,
  router and bouncer. Each moves one frame between parts that are modelled by
  themselves; that ARP, routing and the filters of an adapter work together
  across such links is the subject of `Network_pass` and `Adapters_pass`. The
  adapter class of `lab7.cc` does what the Ethernet adapter of `Adapters` does.
- The other wrappers of system calls (`Socket`, `FileDescriptor`, `Address`,
  `TunTapFD`), whose work is done by the kernel.
- The other command-line programs, which parse arguments, print, and call the
  library in a straight line.
- Texts: `to_string()`, `summary()`, state names, error messages.
