----------------------------- MODULE MCAdapters -----------------------------
(***************************************************************************)
(* A server, a client and a third station with one network of each kind.   *)
(* The clients use the same port, so that only addresses tell them apart.  *)
(* On Ethernet server and client are the next hops of each other.          *)
(***************************************************************************)
EXTENDS AdaptersSpec

MCStations == {"server", "client", "other"}

MCIp  == [server |-> <<10, 0, 0, 1>>, client |-> <<10, 0, 0, 2>>, other |-> <<10, 0, 0, 3>>]

MCEth(s) == <<2, 0, 0, 0, 0, MCIp[s][4]>>

MCHop(s) == IF s = "server" THEN MCIp.client ELSE MCIp.server

MCPort(s, role) ==
  CASE s = "server"                     -> 1234
    [] s # "server" /\ role # "server" -> 4660
    [] s # "server" /\ role = "server" -> 80

MCAdapter(kind, s, role) ==
  NewAdapter(kind,
    [ip |-> IF kind = "tun" /\ role = "server" THEN Zeroes(4) ELSE MCIp[s], port |-> MCPort(s, role)],
    IF role = "server" THEN NoAddress ELSE [ip |-> MCIp.server, port |-> MCPort("server", "server")],
    role = "server", MCEth(s), MCIp[s], MCHop(s))

\* Initial sequence numbers: the client's wraps with its first byte.
MCIsn == [server |-> 7, client |-> 65535, other |-> 300]

MCNew(s) == TC!New(4, 4, 1, MCIsn[s])

\* A connection with an earlier run of the server, which has answered the SYN
\* and not yet acknowledged the bytes sent since.
MCOld(s) ==
  LET synack == [TC!TS!New EXCEPT !.seqno = 90, !.ackno = MCIsn[s] + 1, !.ack = TRUE,
                                  !.syn = TRUE, !.win = 4]
  IN  TC!write([TC!segment_received(TC!connect(MCNew(s)), synack) EXCEPT !.segments_out = << >>],
               Bytes)

MCConn(s, role) ==
  CASE role = "server" -> MCNew(s)
    [] role = "client" -> TC!connect(MCNew(s))
    [] role = "old"    -> MCOld(s)

MCSetup(kind, role) ==
  LET who == [server |-> "server", client |-> "client", other |-> role]
  IN  [ adapters |-> [s \in MCStations |-> MCAdapter(kind, s, who[s])],
        roles    |-> who,
        conns    |-> [s \in MCStations |-> MCConn(s, who[s])] ]

MCSetups ==
  { MCSetup("udp", "old"), MCSetup("udp", "client"), MCSetup("tun", "old"),
    MCSetup("tun", "client"), MCSetup("tap", "server") }

MCBytes == <<1, 255, 0>>
=============================================================================
