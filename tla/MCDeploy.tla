------------------------------ MODULE MCDeploy ------------------------------
(* Three plans, two tasks, and the settings somebody may try.               *)
EXTENDS Deploy, TLC

CONSTANTS p1, p2, p3, x1, x2
MCPlans == {p1, p2, p3}
MCTasks == {x1, x2}
MCPlanOf == x1 :> p1 @@ x2 :> p2

None == [claims |-> FALSE, apply |-> FALSE, account |-> TRUE,
         claim |-> {}, exclude |-> {}, excludeTasks |-> {}]
Right == [claims |-> TRUE, apply |-> TRUE, account |-> TRUE,
          claim |-> {p1, p3}, exclude |-> {p2}, excludeTasks |-> {x1}]
Report == [Right EXCEPT !.apply = FALSE]
NoPassword == [Right EXCEPT !.account = FALSE]
Swapped == [Right EXCEPT !.claim = {p2}, !.exclude = {p1, p3}]
Short == [Right EXCEPT !.claim = {p1}, !.excludeTasks = {x1, x2}]
Twice == [Right EXCEPT !.exclude = {p1, p2}, !.excludeTasks = {}]
MCSettings == {None, Right, Report, NoPassword, Swapped, Short, Twice}
=============================================================================
