------------------------------- MODULE Deploy -------------------------------
(***************************************************************************)
(* The deploy that repoints the service of T06 at T07: deploy/start.sh,    *)
(* the migrations it applies and the claim of scripts/claim_t06_data.py.   *)
(*                                                                         *)
(* While an instance boots, the one before it goes on serving; that may be *)
(* T06, which knows no owners.  A boot that fails or dies is tried again,  *)
(* and so is one that was up.  Somebody may push other settings meanwhile. *)
(***************************************************************************)
EXTENDS Naturals

CONSTANTS
    Plans, Tasks,
    PlanOf,         \* the plan of each task
    Settings,       \* the settings somebody may push: see IsSettings
    MaxPushes,      \* bound
    MaxCrashes      \* bound

\* BOOT_TASK is claim_t06_data or anything else; --apply; whether CLAIM_EMAIL and
\* CLAIM_PASSWORD are set; and the three lists of ids.
IsSettings(S) ==
    S \subseteq [claims: BOOLEAN, apply: BOOLEAN, account: BOOLEAN,
                 claim: SUBSET Plans, exclude: SUBSET Plans, excludeTasks: SUBSET Tasks]

ASSUME DeployAssumption ==
    /\ PlanOf \in [Tasks -> Plans]
    /\ IsSettings(Settings)
    /\ MaxPushes \in Nat /\ MaxCrashes \in Nat

VARIABLES
    at,         \* the number of migrations that are applied
    plans,
    tasks,
    boot,       \* the instance that boots: where it is, and what the claim has read
    serving,    \* the programs that answer requests
    settings,
    pushes, crashes

dvars == <<at, plans, tasks, boot, serving, settings, pushes, crashes>>

-----------------------------------------------------------------------------
(* The migrations, in the order of their down_revisions.                    *)

CreatePlanHistory == [number |-> 1, creates |-> {"plans", "plan_revisions"}]
AddTaskWorkflow == [number |-> 2, creates |-> {"tasks", "task_tags"}]
AddExecutionLogs == [number |-> 3, creates |-> {"execution_logs", "completion_events"}]
AddReflections == [number |-> 4, creates |-> {"reflections"}]
AddAccounts ==
    [number |-> 5,
     creates |-> {"users", "refresh_sessions", "login_attempts", "security_events", "plans.user_id"}]
RequirePlanOwner == [number |-> 6, creates |-> {}]
AddRuleChanges == [number |-> 7, creates |-> {"plan_rule_changes", "plan_rule_change_citations"}]

Migrations == {CreatePlanHistory, AddTaskWorkflow, AddExecutionLogs, AddReflections,
               AddAccounts, RequirePlanOwner, AddRuleChanges}

T06Revision == AddReflections.number
PreOwnershipRevision == AddAccounts.number
Head == AddRuleChanges.number

Tables == UNION {m.creates : m \in {n \in Migrations : n.number <= at}}

\* What the models name.
ModelTables == {"plans", "plan_revisions", "tasks", "task_tags", "execution_logs",
                "completion_events", "reflections", "users", "refresh_sessions", "login_attempts",
                "security_events", "plans.user_id", "plan_rule_changes", "plan_rule_change_citations"}

-----------------------------------------------------------------------------
(* State.                                                                   *)

Plan == {"absent", "unowned", "owned", "deleted"}

\* A task is `removed` by its user, who leaves the row, and `deleted` by a claim.
Task == {"absent", "active", "removed", "deleted"}

Pcs == {"down", "first", "claim", "commit", "upgrade", "alter", "listen", "up"}
Boot == [pc: Pcs, toClaim: SUBSET Plans, toDelete: SUBSET Plans, toDeleteTasks: SUBSET Tasks]
At(pc) == [pc |-> pc, toClaim |-> {}, toDelete |-> {}, toDeleteTasks |-> {}]

Unowned == {p \in Plans : plans[p] = "unowned"}
Present(x) == tasks[x] \in {"active", "removed"}

\* T06 has been in use.
Init ==
    /\ at = T06Revision
    /\ plans \in [Plans -> {"absent", "unowned"}]
    /\ tasks \in [Tasks -> {"absent", "active", "removed"}]
    /\ \A x \in Tasks : Present(x) => plans[PlanOf[x]] = "unowned"
    /\ boot = At("down")
    /\ serving = {"T06"}
    /\ settings \in Settings
    /\ pushes = 0 /\ crashes = 0

-----------------------------------------------------------------------------
(* The programs that serve.                                                 *)

\* create_plan.  T06 writes no owner, which is an error once one is required.
CreatePlan(program, p) ==
    /\ program \in serving /\ plans[p] = "absent"
    /\ program = "T06" => at < RequirePlanOwner.number
    /\ plans' = [plans EXCEPT ![p] = IF program = "T06" THEN "unowned" ELSE "owned"]
    /\ UNCHANGED <<at, tasks, boot, serving, settings, pushes, crashes>>

CreateTask(x) ==
    /\ serving # {} /\ tasks[x] = "absent"
    /\ plans[PlanOf[x]] \in {"unowned", "owned"}
    /\ tasks' = [tasks EXCEPT ![x] = "active"]
    /\ UNCHANGED <<at, plans, boot, serving, settings, pushes, crashes>>

DeleteTask(x) ==
    /\ serving # {} /\ tasks[x] = "active"
    /\ tasks' = [tasks EXCEPT ![x] = "removed"]
    /\ UNCHANGED <<at, plans, boot, serving, settings, pushes, crashes>>

-----------------------------------------------------------------------------
(* start.sh.                                                                *)

GoTo(pc) == boot' = At(pc)

\* Mutant: without `set -e` the script goes on.
GoesOn == GoTo("listen")
\* `set -e`.
Fail == GoTo("down")

Start ==
    /\ boot.pc = "down"
    /\ GoTo(IF settings.claims THEN "first" ELSE "upgrade")
    /\ UNCHANGED <<at, plans, tasks, serving, settings, pushes, crashes>>

\* db upgrade $PRE_OWNERSHIP_REVISION goes nowhere from a later revision.
UpgradeFirst ==
    /\ boot.pc = "first"
    /\ at' = IF at < PreOwnershipRevision THEN PreOwnershipRevision ELSE at
    /\ GoTo("claim")
    /\ UNCHANGED <<plans, tasks, serving, settings, pushes, crashes>>

\* Mutant: whether a plan has an owner is not asked.
AnyPlan == {p \in Plans : plans[p] \in {"unowned", "owned"}}
UnownedPlans == Unowned

\* Mutant: an id that is not there any more is refused.
Strict == settings.claim \cup settings.exclude # UnownedPlans
\* partition refuses to guess.
Ambiguous ==
    \/ settings.claim \cap settings.exclude # {}
    \/ ~(UnownedPlans \subseteq settings.claim \cup settings.exclude)

\* excluded_tasks refuses an active task, and one that is not under a plan to claim.
\* A task that is not there any more is none of its business.
Misplaced ==
    \E x \in settings.excludeTasks :
       /\ Present(x)
       /\ tasks[x] = "active" \/ PlanOf[x] \notin UnownedPlans \cap settings.claim

ClaimFails ==
    \/ settings.apply /\ ~settings.account
    \/ ~({"users", "plans.user_id", "tasks"} \subseteq Tables)
    \/ Ambiguous \/ Misplaced

\* main and run, up to their writes; without --apply there are none.
ReadUnowned ==
    /\ boot.pc = "claim"
    /\ \/ ClaimFails /\ Fail
       \/ ~ClaimFails /\ ~settings.apply /\ GoTo("upgrade")
       \/ /\ ~ClaimFails /\ settings.apply
          /\ boot' = [pc |-> "commit",
                      toClaim |-> UnownedPlans \cap settings.claim,
                      toDelete |-> UnownedPlans \cap settings.exclude,
                      toDeleteTasks |-> {x \in settings.excludeTasks : Present(x)}]
    /\ UNCHANGED <<at, plans, tasks, serving, settings, pushes, crashes>>

\* Mutant: SQLite, which does not enforce foreign keys unless it is told to.
GoesByItself(x) == x \in boot.toDeleteTasks
\* A task goes by itself, or with its plan: ON DELETE CASCADE.
Goes(x) == x \in boot.toDeleteTasks \/ PlanOf[x] \in boot.toDelete

\* The writes of run, in one transaction.
CommitClaim ==
    /\ boot.pc = "commit"
    /\ plans' = [p \in Plans |->
                   IF p \in boot.toDelete THEN "deleted"
                   ELSE IF p \in boot.toClaim /\ plans[p] = "unowned" THEN "owned" ELSE plans[p]]
    /\ tasks' = [x \in Tasks |-> IF Present(x) /\ Goes(x) THEN "deleted" ELSE tasks[x]]
    /\ GoTo("upgrade")
    /\ UNCHANGED <<at, serving, settings, pushes, crashes>>

\* Mutant: the orphans are counted one migration too early.
OwnersMissingBefore == at < PreOwnershipRevision /\ Unowned # {}
\* db upgrade, one transaction for all migrations.  The one that requires owners
\* first counts the plans that have none; then ALTER looks at them again.
OwnersMissing == at < RequirePlanOwner.number /\ Unowned # {}

CountOrphans ==
    /\ boot.pc = "upgrade"
    /\ \/ OwnersMissing /\ Fail
       \/ ~OwnersMissing /\ GoTo("alter")
    /\ UNCHANGED <<at, plans, tasks, serving, settings, pushes, crashes>>

UpgradeToHead ==
    /\ boot.pc = "alter"
    /\ \/ OwnersMissing /\ Fail /\ UNCHANGED at
       \/ ~OwnersMissing /\ at' = Head /\ GoTo("listen")
    /\ UNCHANGED <<plans, tasks, serving, settings, pushes, crashes>>

\* exec waitress-serve.
Listen ==
    /\ boot.pc = "listen"
    /\ serving' = serving \cup {"T07"}
    /\ GoTo("up")
    /\ UNCHANGED <<at, plans, tasks, settings, pushes, crashes>>

-----------------------------------------------------------------------------
(* Render, and whoever pushes.                                              *)

\* /api/live answers: the instance before this one is stopped.
Retire ==
    /\ boot.pc = "up" /\ serving # {"T07"}
    /\ serving' = {"T07"}
    /\ UNCHANGED <<at, plans, tasks, boot, settings, pushes, crashes>>

\* The instance dies, or is put to sleep when nobody asks for it.
Crash ==
    /\ boot.pc # "down" /\ crashes < MaxCrashes
    /\ GoTo("down")
    /\ serving' = IF boot.pc = "up" THEN serving \ {"T07"} ELSE serving
    /\ crashes' = crashes + 1
    /\ UNCHANGED <<at, plans, tasks, settings, pushes>>

Push(s) ==
    /\ pushes < MaxPushes
    /\ settings' = s
    /\ GoTo("down")
    /\ pushes' = pushes + 1
    /\ UNCHANGED <<at, plans, tasks, serving, crashes>>

BootStep ==
    \/ Start \/ UpgradeFirst \/ ReadUnowned \/ CommitClaim \/ CountOrphans \/ UpgradeToHead
    \/ Listen \/ Retire

Next ==
    \/ BootStep \/ Crash
    \/ \E p \in Plans, program \in {"T06", "T07"} : CreatePlan(program, p)
    \/ \E x \in Tasks : CreateTask(x) \/ DeleteTask(x)
    \/ \E s \in Settings : Push(s)

Spec == Init /\ [][Next]_dvars

\* A boot goes on, and is tried again.
FairSpec == Spec /\ WF_dvars(BootStep)

-----------------------------------------------------------------------------
(* Properties.                                                              *)

\* Every variable stays in its domain.
Domains ==
    /\ at \in 0..Head
    /\ plans \in [Plans -> Plan]
    /\ tasks \in [Tasks -> Task]
    /\ boot \in Boot
    /\ serving \subseteq {"T06", "T07"}
    /\ settings \in Settings
    /\ pushes \in 0..MaxPushes /\ crashes \in 0..MaxCrashes

\* And a task that is there has its plan, whichever plans a claim deletes while
\* users add tasks to them: the mapper knows nothing of a plan's tasks, and only
\* the foreign key tasks.plan_id takes them along.
TypeOK == Domains /\ \A x \in Tasks : Present(x) => plans[PlanOf[x]] \in {"unowned", "owned"}

\* The new program answers no request over half-owned rows (start.sh:32-35): it
\* serves only when all tables of its models are there and every plan has an
\* owner, though T06 was serving, and writing, until a moment ago.
ServesOwnedPlansOnly ==
    "T07" \in serving => ModelTables \subseteq Tables /\ Unowned = {}

\* However often the boot is tried, and whatever ids are pushed, a boot deletes
\* a plan only if it has no owner and is on the list, and a task only with its
\* plan, or if its user has removed it and its plan gets its owner in that step.
OnlyLeftoversAreDeleted ==
    [][/\ \A p \in Plans : plans'[p] = "deleted" /\ plans[p] # "deleted" =>
             plans[p] = "unowned" /\ p \in settings.exclude
       /\ \A x \in Tasks : tasks'[x] = "deleted" /\ tasks[x] # "deleted" =>
             \/ plans'[PlanOf[x]] = "deleted"
             \/ /\ tasks[x] = "removed"
                /\ plans[PlanOf[x]] = "unowned" /\ plans'[PlanOf[x]] = "owned"]_dvars

\* The lists name every plan without an owner once, and of the tasks that are
\* there only some that their users removed from plans to be claimed.
Covered ==
    \/ Unowned = {} /\ ~settings.claims
    \/ /\ settings.claims /\ settings.apply /\ settings.account
       /\ Unowned \subseteq settings.claim \cup settings.exclude
       /\ settings.claim \cap settings.exclude = {}
       /\ \A x \in settings.excludeTasks : Present(x) =>
             tasks[x] = "removed" /\ PlanOf[x] \in Unowned \cap settings.claim

\* With such settings the deploy succeeds, whatever boots were cut short and
\* whatever a first try has already done (test_t07_deploy_sequence.py:158).
CoveredDeploysSucceed == <>[]Covered => <>[]("T07" \in serving)

\* A plan's owner, the NOT NULL and the new program, without boots and settings.
OwnerHandover == INSTANCE Handover WITH
    owner <- plans,
    required <- at >= RequirePlanOwner.number,
    open <- "T07" \in serving

\* start.sh, the claim and the migrations implement the handover, however often
\* a boot dies, is tried again or is pushed with other settings: a plan once
\* owned keeps its owner and one left behind does not come back, the NOT NULL is
\* not lifted, and T07 opens behind it.
IsAHandover == OwnerHandover!Spec

=============================================================================
