--------------------------- MODULE MCSpongeSocket ---------------------------
(***************************************************************************)
(* Streams for model checking: each plan has more to say in some direction *)
(* than one of the buffers on the way holds.                               *)
(***************************************************************************)
EXTENDS SpongeSocketSpec

MCPlans ==
  {[input |-> 3, peer |-> 0, is_pipe |-> TRUE],
   [input |-> 0, peer |-> 3, is_pipe |-> FALSE],
   [input |-> 1, peer |-> 1, is_pipe |-> FALSE]}
=============================================================================
