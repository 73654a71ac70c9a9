------------------------------ MODULE TaskLife ------------------------------
(***************************************************************************)
(* What a task promises, for Tasks to implement: it is created once,       *)
(* completed only while it is active, and left alone once it is deleted.   *)
(* One step changes one task.                                              *)
(***************************************************************************)
EXTENDS Naturals

CONSTANT Tasks

VARIABLES
    status,
    deleted,
    completions     \* how often the task has been completed

lvars == <<status, deleted, completions>>

Init ==
    /\ status = [x \in Tasks |-> "none"]
    /\ deleted = [x \in Tasks |-> FALSE]
    /\ completions = [x \in Tasks |-> 0]

Create(x) ==
    /\ status[x] = "none"
    /\ status' = [status EXCEPT ![x] = "active"]
    /\ UNCHANGED <<deleted, completions>>

Complete(x) ==
    /\ status[x] = "active" /\ ~deleted[x]
    /\ status' = [status EXCEPT ![x] = "completed"]
    /\ completions' = [completions EXCEPT ![x] = @ + 1]
    /\ UNCHANGED deleted

Reopen(x) ==
    /\ status[x] = "completed" /\ ~deleted[x]
    /\ status' = [status EXCEPT ![x] = "active"]
    /\ UNCHANGED <<deleted, completions>>

Delete(x) ==
    /\ status[x] # "none"
    /\ deleted' = [deleted EXCEPT ![x] = TRUE]
    /\ UNCHANGED <<status, completions>>

Next == \E x \in Tasks : Create(x) \/ Complete(x) \/ Reopen(x) \/ Delete(x)

Spec == Init /\ [][Next]_lvars

=============================================================================
