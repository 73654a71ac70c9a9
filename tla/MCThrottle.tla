----------------------------- MODULE MCThrottle -----------------------------
(***************************************************************************)
(* Instances of Throttle for TLC.                                          *)
(***************************************************************************)
EXTENDS Throttle, TLC

\* Threads and row identities are interchangeable.
Symmetry == Permutations(Threads) \cup Permutations(Ids)

=============================================================================
