------------------------ MODULE RetransmissionTimer ------------------------
(***************************************************************************)
(* The class RetransmissionTimer (libsponge/tcp_sender.hh, tcp_sender.cc). *)
(* The constructor leaves the timer running.                               *)
(***************************************************************************)
EXTENDS Naturals

New(retx_timeout) ==
  [ init_rto   |-> retx_timeout,
    rto        |-> retx_timeout,
    t          |-> 0,
    is_running |-> TRUE ]

Type == [ init_rto : Nat, rto : Nat, t : Nat, is_running : BOOLEAN ]

\* The value that tick() returns.
is_expired(timer, ms) == timer.is_running /\ timer.t + ms >= timer.rto

tick(timer, ms) ==
  IF timer.is_running
  THEN [timer EXCEPT !.t = IF is_expired(timer, ms) THEN 0 ELSE @ + ms]
  ELSE timer

\* Mutant: start() restarts a running timer.
start_again(timer) == [timer EXCEPT !.t = 0, !.is_running = TRUE]

\* start() on a running timer does not restart it.
start(timer) ==
  [timer EXCEPT !.t = IF timer.is_running THEN @ ELSE 0, !.is_running = TRUE]

\* Mutant: the timer is reset but keeps running.
stop_running(timer) == [timer EXCEPT !.t = 0]

stop(timer) == [timer EXCEPT !.t = 0, !.is_running = FALSE]

\* Mutant: the timeout stays what it was.
set_rto_init_never(timer) == timer

set_rto_init(timer) == [timer EXCEPT !.rto = timer.init_rto]

double_rto(timer) == [timer EXCEPT !.rto = 2 * @]
=============================================================================
