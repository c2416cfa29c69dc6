------------------------------- MODULE MCCron -------------------------------
(***************************************************************************)
(* Small instances of Cron: an endless job, one that ends after its first  *)
(* and one that ends after its second repetition, of two messages.         *)
(***************************************************************************)
EXTENDS Cron

Ordered(m, t, p, r) ==
  [message |-> m, timestamp |-> t, period |-> p, repetitions |-> r]

MCOrders ==
  {Ordered("a", 0, 1, -1), Ordered("b", 0, 1, 1), Ordered("b", 1, 2, 2)}
=============================================================================
