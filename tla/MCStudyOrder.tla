---------------------------- MODULE MCStudyOrder ----------------------------
(***************************************************************************)
(* Instances of StudyOrder, and with it of Plans, for TLC.                 *)
(***************************************************************************)
EXTENDS StudyOrder, TLC

\* Threads, reflections and the ids of plans are interchangeable.
Symmetry == Permutations(Threads) \cup Permutations(Reflections) \cup Permutations(PlanIds)

=============================================================================
