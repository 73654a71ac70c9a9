------------------------------ MODULE MCTasks ------------------------------
(***************************************************************************)
(* Instances of Tasks for TLC.                                             *)
(***************************************************************************)
EXTENDS Tasks, TLC

\* Nothing tells tasks, tabs, keys, tags or threads apart.
Symmetry ==
    Permutations(Tasks) \cup Permutations(Tabs) \cup Permutations(Keys)
      \cup Permutations(TagValues) \cup Permutations(Threads)

=============================================================================
