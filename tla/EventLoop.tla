----------------------------- MODULE EventLoop -----------------------------
(***************************************************************************)
(* The class EventLoop (libsponge/util/eventloop.hh, eventloop.cc).        *)
(*                                                                         *)
(* A rule is a name.  What its closures do to the world of their owner w,  *)
(* and what poll(2) says of its file descriptor, are parameters.  A loop   *)
(* is the list of its rules and, between poll() and the last callback, the *)
(* answers of poll() that have not been looked at; while callbacks run the *)
(* other threads go on, so an answer may be out of date when it is used.   *)
(***************************************************************************)
EXTENDS Sequences, SequencesExt

CONSTANTS
  callback(_, _), interest(_, _), cancel(_, _),  \* of the rule, in a world
  Over(_, _),      \* the rule reads and its fd is at the end, or its fd is closed
  Ready(_, _),     \* poll(): the fd is readable, or writable, as the rule asks
  HungUp(_, _),    \* poll(): the fd is hung up
  Services(_, _)   \* the callback would read or write the fd

New(rules) == [rules |-> rules, results |-> << >>]

\* The first half of wait_next_event(): rules that are over are cancelled,
\* the others are asked for their interest, in the order of the list.
set_up(rules, w) ==
  LET visit(s, r) ==
        IF Over(s.w, r)
        THEN [s EXCEPT !.w = cancel(@, r)]
        ELSE [s EXCEPT !.rules = Append(@, r),
                       !.polled = IF interest(s.w, r) THEN @ \cup {r} ELSE @]
  IN  FoldLeft(visit, [rules |-> << >>, polled |-> {}, w |-> w], rules)

\* What poll() answers for the rules that it was asked about, without those
\* that are neither ready nor hung up.
answers(s) ==
  LET answer(r) == [rule |-> r, ready |-> Ready(s.w, r)]
      reported(r) == r \in s.polled /\ (Ready(s.w, r) \/ HungUp(s.w, r))
      list == SelectSeq(s.rules, reported)
  IN  [i \in DOMAIN list |-> answer(list[i])]

\* The callback of a rule has turned the world w into `after`.
checked(w, after, rule) ==
  IF ~Services(w, rule) /\ interest(after, rule)
  THEN [after EXCEPT !.threw = TRUE] ELSE after

\* The second half, one rule at a time: a rule that is ready is called, and
\* one that only hung up is cancelled.  The world says whether the loop
\* throws.
serve(loop, w) ==
  LET rule == Head(loop.results).rule
      rest == [loop EXCEPT !.results = Tail(@)]
  IN  IF Head(loop.results).ready
      THEN [loop |-> rest,
            w |-> checked(w, callback(w, rule), rule)]
      ELSE [loop |-> [rest EXCEPT !.rules = Remove(@, rule)], w |-> cancel(w, rule)]
=============================================================================
