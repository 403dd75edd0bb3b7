-------------------------- MODULE MCButtonLifecycle --------------------------
(* ButtonLifecycle with three tasks that start after the first call is over,  *)
(* and with two that race to make it.                                         *)
EXTENDS ButtonLifecycle
=============================================================================
