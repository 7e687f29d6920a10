----------------------------- MODULE MCTCPPair -----------------------------
(***************************************************************************)
(* Two ends for model checking: "a" numbers its stream across the wrap of  *)
(* the sequence numbers, "b" does not, and the two streams differ in       *)
(* length.  A receiver holds two bytes: streams of three and four meet a   *)
(* closed window, which is probed with a byte that may be dropped.         *)
(***************************************************************************)
EXTENDS TCPPairSpec

MCIsn == [e \in {"a", "b"} |-> IF e = "a" THEN Modulus - 2 ELSE 3]

MCPair(x, y) == [e \in {"a", "b"} |-> IF e = "a" THEN x ELSE y]

\* Networks with streams of these lengths: one that keeps every segment in
\* order and may lose some, and one that lets segments be overtaken.
MCInOrder(losses, careful, streams) ==
  [losses |-> losses, overtakes |-> MCPair(0, 0), careful |-> careful, streams |-> streams]
MCOvertaking(overtakes, streams) ==
  [losses |-> 0, overtakes |-> overtakes, careful |-> TRUE, streams |-> streams]

\* The acknowledgments of a stream are overtaken only if all of it fits the
\* receiver, and a stream that does not is ended only when it is acknowledged.
MCNetworks ==
  { MCInOrder(0, FALSE, MCPair(2, 1)),
    MCInOrder(1, TRUE, MCPair(3, 1)),
    MCInOrder(1, TRUE, MCPair(4, 0)),
    MCOvertaking(MCPair(1, 0), MCPair(2, 1)),
    MCOvertaking(MCPair(0, 1), MCPair(4, 0)) }

MCLossy == {MCInOrder(1, TRUE, MCPair(1, 0))}

\* A stream that does not fit is ended as soon as it is written.
MCHasty == {MCInOrder(0, FALSE, MCPair(4, 1))}

\* The acknowledgments of a stream that does not fit are overtaken.
MCStale == {MCOvertaking(MCPair(1, 0), MCPair(5, 0))}
=============================================================================
