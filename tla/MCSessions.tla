----------------------------- MODULE MCSessions -----------------------------
(***************************************************************************)
(* Instances of Sessions for TLC.                                          *)
(***************************************************************************)
EXTENDS Sessions, TLC

\* Threads, accounts and tokens are interchangeable; sound for the safety runs.
Symmetry == Permutations(Users) \cup Permutations(Sids) \cup Permutations(Threads)

=============================================================================
