-------------------------- MODULE MCRequestPacing --------------------------
(* Instances of RequestPacing for TLC: two coroutines of a module that may  *)
(* have one connection open, so that one waits or sleeps while the other's  *)
(* answer retunes the bucket.                                               *)
EXTENDS RequestPacing

CONSTANTS t1, t2

TwoTasks == {t1, t2}
=============================================================================
