-------------------------- MODULE MCRingItemPump --------------------------
(***************************************************************************)
(* RingItemPump on small instances.  A message holds four units, and the   *)
(* leading size of a block takes one.  An item of physics has three: a     *)
(* block of one item is exactly one message, a block of two is sent in two *)
(* parts.  An item of another type has two units, which is one message, or *)
(* five, which is two.                                                     *)
(***************************************************************************)
EXTENDS RingItemPump, TLC

\* Workers are interchangeable.
WorkerSymmetry == Permutations(Workers)
=============================================================================
