-------------------------- MODULE MCConcurrentQueue --------------------------
(***************************************************************************)
(* ConcurrentQueue for TLC.  The consumers are interchangeable, and every  *)
(* property checked is a safety property, so that symmetry is sound.       *)
(***************************************************************************)
EXTENDS ConcurrentQueue, TLC

Symmetry == Permutations(Consumers)
=============================================================================
