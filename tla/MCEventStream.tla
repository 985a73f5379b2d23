--------------------------- MODULE MCEventStream ---------------------------
(* An instance of EventStream for TLC: one --wait client and one dashboard,  *)
(* a replay buffer of two events and queues of three, so that events are     *)
(* evicted and dropped within the few events of a behaviour.                 *)
EXTENDS EventStream

CONSTANTS cli, page

OneWaiter == {cli}
OneSocket == {page}
=============================================================================
