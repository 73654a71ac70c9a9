---------------------------- MODULE PlanHistory ----------------------------
(***************************************************************************)
(* What plans promise, for Plans to implement: the history of a plan only  *)
(* grows, by one revision for every change, and the plan that follows a    *)
(* reflection is made once, for that reflection alone, and stays.          *)
(***************************************************************************)
EXTENDS Naturals, Sequences

CONSTANTS Reflections, PlanIds, NoPlan

VARIABLES
    history,    \* the versions that were replaced, as the revisions hold them
    follows     \* the plan that follows each reflection, if there is one

hvars == <<history, follows>>

Init ==
    /\ history = <<>>
    /\ follows = [f \in Reflections |-> NoPlan]

\* The plan becomes its next version.  What is kept of it is the version that is
\* replaced, numbered from 0, or an older one.
Revise(v) ==
    /\ history' = Append(history, v)
    /\ UNCHANGED follows

Follow(f, p) ==
    /\ follows[f] = NoPlan
    /\ \A g \in Reflections : follows[g] # p
    /\ follows' = [follows EXCEPT ![f] = p]
    /\ UNCHANGED history

Next ==
    \/ \E v \in 0 .. Len(history) : Revise(v)
    \/ \E f \in Reflections, p \in PlanIds : Follow(f, p)

Spec == Init /\ [][Next]_hvars

=============================================================================
