------------------------------ MODULE Handover ------------------------------
(***************************************************************************)
(* What the deploy promises, for Deploy to implement: the plans that have  *)
(* no owner are given one or are left behind, once each; then an owner is  *)
(* required for good; and only then does the new program open.             *)
(***************************************************************************)
CONSTANT Plans

VARIABLES
    owner,      \* of each plan: "absent", "unowned", "owned" or "deleted"
    required,   \* whether the table refuses a plan that has no owner
    open        \* whether the new program answers requests

hvars == <<owner, required, open>>

Unowned == {p \in Plans : owner[p] = "unowned"}

Init ==
    /\ owner \in [Plans -> {"absent", "unowned"}]
    /\ required = FALSE /\ open = FALSE

\* A user makes a plan: of the old program without an owner, of the new one with.
Write(p) ==
    /\ owner[p] = "absent"
    /\ \/ ~required /\ owner' = [owner EXCEPT ![p] = "unowned"]
       \/ open /\ owner' = [owner EXCEPT ![p] = "owned"]
    /\ UNCHANGED <<required, open>>

\* Some get an owner, and others are deleted, in one go.
Claim(claimed, excluded) ==
    /\ owner' = [p \in Plans |-> IF p \in excluded THEN "deleted"
                                 ELSE IF p \in claimed THEN "owned" ELSE owner[p]]
    /\ UNCHANGED <<required, open>>

Require ==
    /\ Unowned = {}
    /\ required' = TRUE
    /\ UNCHANGED <<owner, open>>

Open ==
    /\ required
    /\ open' = TRUE
    /\ UNCHANGED <<owner, required>>

\* The program dies.
Shut ==
    /\ open' = FALSE
    /\ UNCHANGED <<owner, required>>

Next ==
    \/ \E p \in Plans : Write(p)
    \/ \E claimed, excluded \in SUBSET Unowned : Claim(claimed, excluded)
    \/ Require \/ Open \/ Shut

Spec == Init /\ [][Next]_hvars

=============================================================================
