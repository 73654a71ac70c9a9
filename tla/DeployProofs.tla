---------------------------- MODULE DeployProofs ----------------------------
(***************************************************************************)
(* For any plans, tasks, settings and number of pushes and crashes: the    *)
(* types, that T07 serves owned plans only, and that a boot deletes        *)
(* leftovers only.                                                         *)
(***************************************************************************)
EXTENDS Deploy, TLAPS

\* An owner is required only once every plan has one, and T07 serves at head.
Owned ==
    /\ at >= RequirePlanOwner.number => Unowned = {}
    /\ "T07" \in serving \/ boot.pc \in {"listen", "up"} => at = Head

\* What a claim is about to delete is still what it has read.
ClaimIsCurrent ==
    boot.pc = "commit" =>
      /\ boot.toClaim \cap boot.toDelete = {}
      /\ \A p \in boot.toDelete : plans[p] = "unowned" /\ p \in settings.exclude
      /\ \A x \in boot.toDeleteTasks :
            tasks[x] = "removed" /\ plans[PlanOf[x]] = "unowned" /\ PlanOf[x] \in boot.toClaim

\* The foreign key.
TasksHavePlans == \A x \in Tasks : Present(x) => plans[PlanOf[x]] \in {"unowned", "owned"}

IInv == Domains /\ TasksHavePlans /\ Owned /\ ClaimIsCurrent

LEMMA Numbers ==
    /\ T06Revision = 4 /\ PreOwnershipRevision = 5
    /\ RequirePlanOwner.number = 6 /\ Head = 7
  BY DEF T06Revision, PreOwnershipRevision, RequirePlanOwner, Head,
         AddReflections, AddAccounts, AddRuleChanges

\* A boot that is anywhere but at the commit of a claim has read nothing.
LEMMA AtIsBoot ==
    ASSUME NEW pc \in Pcs
    PROVE  At(pc) \in Boot /\ At(pc).pc = pc
  BY DEF At, Boot

LEMMA InitIInv == ASSUME Init PROVE IInv
<1> USE DeployAssumption
<1>1. Domains /\ TasksHavePlans
  BY Numbers, AtIsBoot DEF Init, Domains, TasksHavePlans, Plan, Task, Pcs
<1>2. Owned
  BY Numbers, AtIsBoot DEF Init, Owned, Pcs
<1>3. ClaimIsCurrent
  BY AtIsBoot DEF Init, ClaimIsCurrent, Pcs
<1> QED BY <1>1, <1>2, <1>3 DEF IInv

-----------------------------------------------------------------------------
(* The steps.                                                               *)

LEMMA StepDomains == ASSUME Domains, [Next]_dvars PROVE Domains'
<1> USE DeployAssumption DEF Domains
<1>1. CASE Start
  BY <1>1, AtIsBoot DEF Start, GoTo, Pcs
<1>2. CASE UpgradeFirst
  BY <1>2, AtIsBoot, Numbers DEF UpgradeFirst, GoTo, Pcs
<1>3. CASE ReadUnowned
  <2>1. CASE boot'.pc # "commit"
    BY <1>3, <2>1, AtIsBoot DEF ReadUnowned, GoTo, Fail, Pcs
  <2>2. CASE boot'.pc = "commit"
    <3>1. /\ boot' = [pc |-> "commit",
                      toClaim |-> UnownedPlans \cap settings.claim,
                      toDelete |-> UnownedPlans \cap settings.exclude,
                      toDeleteTasks |-> {x \in settings.excludeTasks : Present(x)}]
          /\ UNCHANGED <<at, plans, tasks, serving, settings, pushes, crashes>>
      BY <1>3, <2>2, AtIsBoot DEF ReadUnowned, GoTo, Fail, Pcs
    <3>2. UnownedPlans \subseteq Plans
      BY DEF UnownedPlans, Unowned
    <3>3. settings.excludeTasks \subseteq Tasks
      BY DEF IsSettings
    <3>4. boot' \in Boot
      BY <3>1, <3>2, <3>3 DEF Boot, Pcs
    <3> QED BY <3>1, <3>4
  <2> QED BY <2>1, <2>2
<1>4. CASE CommitClaim
  <2>1. plans' \in [Plans -> Plan]
    BY <1>4 DEF CommitClaim, Plan
  <2>2. tasks' \in [Tasks -> Task]
    BY <1>4 DEF CommitClaim, Task
  <2> QED BY <1>4, <2>1, <2>2, AtIsBoot DEF CommitClaim, GoTo, Pcs
<1>5. CASE CountOrphans
  BY <1>5, AtIsBoot DEF CountOrphans, GoTo, Fail, Pcs
<1>6. CASE UpgradeToHead
  BY <1>6, AtIsBoot, Numbers DEF UpgradeToHead, GoTo, Fail, Pcs
<1>7. CASE Listen
  BY <1>7, AtIsBoot DEF Listen, GoTo, Pcs
<1>8. CASE Retire
  BY <1>8 DEF Retire
<1>9. CASE Crash
  BY <1>9, AtIsBoot DEF Crash, GoTo, Pcs
<1>10. ASSUME NEW p \in Plans, NEW program \in {"T06", "T07"}, CreatePlan(program, p) PROVE Domains'
  BY <1>10 DEF CreatePlan, Plan
<1>11. ASSUME NEW x \in Tasks, CreateTask(x) \/ DeleteTask(x) PROVE Domains'
  BY <1>11 DEF CreateTask, DeleteTask, Task
<1>12. ASSUME NEW s \in Settings, Push(s) PROVE Domains'
  BY <1>12, AtIsBoot DEF Push, GoTo, Pcs
<1>13. CASE UNCHANGED dvars
  BY <1>13 DEF dvars
<1> QED BY <1>1, <1>2, <1>3, <1>4, <1>5, <1>6, <1>7, <1>8, <1>9, <1>10, <1>11, <1>12, <1>13
        DEF Next, BootStep

LEMMA StepOwned == ASSUME Domains, Owned, [Next]_dvars PROVE Owned'
<1> USE Numbers DEF Domains, Owned, Unowned
<1>1. CASE Start
  BY <1>1, AtIsBoot DEF Start, GoTo, Pcs
<1>2. CASE UpgradeFirst
  BY <1>2, AtIsBoot DEF UpgradeFirst, GoTo, Pcs
<1>3. CASE ReadUnowned
  BY <1>3, AtIsBoot DEF ReadUnowned, GoTo, Fail, Pcs
<1>4. CASE CommitClaim
  BY <1>4, AtIsBoot DEF CommitClaim, GoTo, Pcs
<1>5. CASE CountOrphans
  BY <1>5, AtIsBoot DEF CountOrphans, GoTo, Fail, Pcs
<1>6. CASE UpgradeToHead
  BY <1>6, AtIsBoot DEF UpgradeToHead, GoTo, Fail, OwnersMissing, Pcs
<1>7. CASE Listen
  BY <1>7, AtIsBoot DEF Listen, GoTo, Pcs
<1>8. CASE Retire
  BY <1>8 DEF Retire
<1>9. CASE Crash
  BY <1>9, AtIsBoot DEF Crash, GoTo, Pcs
<1>10. ASSUME NEW p \in Plans, NEW program \in {"T06", "T07"}, CreatePlan(program, p) PROVE Owned'
  BY <1>10 DEF CreatePlan
<1>11. ASSUME NEW x \in Tasks, CreateTask(x) \/ DeleteTask(x) PROVE Owned'
  BY <1>11 DEF CreateTask, DeleteTask
<1>12. ASSUME NEW s \in Settings, Push(s) PROVE Owned'
  BY <1>12, AtIsBoot DEF Push, GoTo, Pcs
<1>13. CASE UNCHANGED dvars
  BY <1>13 DEF dvars
<1> QED BY <1>1, <1>2, <1>3, <1>4, <1>5, <1>6, <1>7, <1>8, <1>9, <1>10, <1>11, <1>12, <1>13
        DEF Next, BootStep

\* Nobody but the claim takes a plan from those without an owner, and nobody
\* brings back a task that its user has removed.
LEMMA StepClaimIsCurrent == ASSUME Domains, ClaimIsCurrent, [Next]_dvars PROVE ClaimIsCurrent'
<1> USE DeployAssumption DEF Domains, ClaimIsCurrent
<1>1. CASE Start \/ UpgradeFirst \/ CommitClaim \/ CountOrphans \/ UpgradeToHead \/ Listen \/ Crash
  BY <1>1, AtIsBoot DEF Start, UpgradeFirst, CommitClaim, CountOrphans, UpgradeToHead, Listen,
                        Crash, GoTo, Fail, Pcs
<1>2. CASE ReadUnowned
  <2> SUFFICES ASSUME boot'.pc = "commit" PROVE ClaimIsCurrent'
    OBVIOUS
  <2>1. /\ ~ClaimFails
        /\ boot'.toClaim = UnownedPlans \cap settings.claim
        /\ boot'.toDelete = UnownedPlans \cap settings.exclude
        /\ boot'.toDeleteTasks = {x \in settings.excludeTasks : Present(x)}
        /\ UNCHANGED <<plans, tasks, settings>>
    BY <1>2, AtIsBoot DEF ReadUnowned, GoTo, Fail, Pcs
  <2>2. \A p \in boot'.toDelete : plans[p] = "unowned" /\ p \in settings.exclude
    BY <2>1 DEF UnownedPlans, Unowned
  <2>3. ASSUME NEW x \in boot'.toDeleteTasks
        PROVE  /\ tasks[x] = "removed" /\ plans[PlanOf[x]] = "unowned"
               /\ PlanOf[x] \in boot'.toClaim
    BY <2>1, <2>3 DEF ClaimFails, Misplaced, Present, UnownedPlans, Unowned, IsSettings
  <2>4. boot'.toClaim \cap boot'.toDelete = {}
    BY <2>1 DEF ClaimFails, Ambiguous
  <2> QED BY <2>1, <2>2, <2>3, <2>4
<1>3. CASE Retire
  BY <1>3 DEF Retire
<1>4. ASSUME NEW p \in Plans, NEW program \in {"T06", "T07"}, CreatePlan(program, p)
      PROVE  ClaimIsCurrent'
  BY <1>4 DEF CreatePlan, Boot
<1>5. ASSUME NEW x \in Tasks, CreateTask(x) \/ DeleteTask(x) PROVE ClaimIsCurrent'
  BY <1>5 DEF CreateTask, DeleteTask, Boot
<1>6. ASSUME NEW s \in Settings, Push(s) PROVE ClaimIsCurrent'
  BY <1>6, AtIsBoot DEF Push, GoTo, Pcs
<1>7. CASE UNCHANGED dvars
  BY <1>7 DEF dvars
<1> QED BY <1>1, <1>2, <1>3, <1>4, <1>5, <1>6, <1>7 DEF Next, BootStep

\* A plan that goes takes along what is under it, and only what is added to a
\* plan that is there is new.
LEMMA StepTasksHavePlans == ASSUME Domains, TasksHavePlans, [Next]_dvars PROVE TasksHavePlans'
<1> USE DeployAssumption DEF Domains, TasksHavePlans, Present
<1>1. CASE CommitClaim
  BY <1>1 DEF CommitClaim, Goes
<1>2. CASE Start \/ UpgradeFirst \/ ReadUnowned \/ CountOrphans \/ UpgradeToHead \/ Listen
           \/ Retire \/ Crash \/ (\E s \in Settings : Push(s)) \/ UNCHANGED dvars
  <2>1. UNCHANGED <<plans, tasks>>
    BY <1>2 DEF Start, UpgradeFirst, ReadUnowned, CountOrphans, UpgradeToHead, Listen, Retire,
                Crash, Push, dvars
  <2> QED BY <2>1
<1>3. ASSUME NEW p \in Plans, NEW program \in {"T06", "T07"}, CreatePlan(program, p)
      PROVE  TasksHavePlans'
  BY <1>3 DEF CreatePlan
<1>4. ASSUME NEW x \in Tasks, CreateTask(x) \/ DeleteTask(x) PROVE TasksHavePlans'
  BY <1>4 DEF CreateTask, DeleteTask
<1> QED BY <1>1, <1>2, <1>3, <1>4 DEF Next, BootStep

LEMMA StepIInv == ASSUME IInv, [Next]_dvars PROVE IInv'
  BY StepDomains, StepTasksHavePlans, StepOwned, StepClaimIsCurrent DEF IInv

LEMMA Invariance == Spec => []IInv
  BY InitIInv, StepIInv, PTL DEF Spec

-----------------------------------------------------------------------------
(* The theorems.                                                            *)

\* Every variable stays in its domain, and a task that is there has its plan.
THEOREM DeployTypes == Spec => []TypeOK
<1>1. IInv => TypeOK
  BY DEF IInv, TasksHavePlans, TypeOK
<1> QED BY <1>1, Invariance, PTL

\* At head all migrations are applied.
LEMMA HeadIsWhole == ASSUME at = Head PROVE ModelTables \subseteq Tables
<1>1. \A m \in Migrations : m.number <= at
  BY Numbers DEF Migrations, CreatePlanHistory, AddTaskWorkflow, AddExecutionLogs, AddReflections,
       AddAccounts, RequirePlanOwner, AddRuleChanges
<1>2. Tables = UNION {m.creates : m \in Migrations}
  BY <1>1 DEF Tables
<1>3. /\ CreatePlanHistory.creates \subseteq Tables
      /\ AddTaskWorkflow.creates \subseteq Tables
      /\ AddExecutionLogs.creates \subseteq Tables
      /\ AddReflections.creates \subseteq Tables
      /\ AddAccounts.creates \subseteq Tables
      /\ AddRuleChanges.creates \subseteq Tables
  BY <1>2 DEF Migrations
<1> QED
  BY <1>3 DEF ModelTables, CreatePlanHistory, AddTaskWorkflow, AddExecutionLogs, AddReflections,
       AddAccounts, AddRuleChanges

\* T07 answers no request over half-owned rows or missing tables, whatever was
\* pushed and wherever a boot was cut short.
THEOREM NoRequestOverHalfOwnedRows == Spec => []ServesOwnedPlansOnly
<1>1. IInv => ServesOwnedPlansOnly
  BY HeadIsWhole, Numbers DEF IInv, Owned, ServesOwnedPlansOnly
<1> QED BY <1>1, Invariance, PTL

LEMMA StepDeletes ==
    ASSUME IInv, [Next]_dvars
    PROVE  /\ \A p \in Plans : plans'[p] = "deleted" /\ plans[p] # "deleted" =>
                 plans[p] = "unowned" /\ p \in settings.exclude
           /\ \A x \in Tasks : tasks'[x] = "deleted" /\ tasks[x] # "deleted" =>
                 \/ plans'[PlanOf[x]] = "deleted"
                 \/ /\ tasks[x] = "removed"
                    /\ plans[PlanOf[x]] = "unowned" /\ plans'[PlanOf[x]] = "owned"
<1> USE DeployAssumption DEF IInv, Domains
<1>1. CASE CommitClaim
  BY <1>1 DEF CommitClaim, Goes, ClaimIsCurrent
<1>2. CASE Start \/ UpgradeFirst \/ ReadUnowned \/ CountOrphans \/ UpgradeToHead \/ Listen
           \/ Retire \/ Crash \/ (\E s \in Settings : Push(s)) \/ UNCHANGED dvars
  <2>1. UNCHANGED <<plans, tasks>>
    BY <1>2 DEF Start, UpgradeFirst, ReadUnowned, CountOrphans, UpgradeToHead, Listen, Retire,
                Crash, Push, dvars
  <2> QED BY <2>1
<1>3. ASSUME NEW p \in Plans, NEW program \in {"T06", "T07"}, CreatePlan(program, p)
      PROVE  UNCHANGED tasks /\ \A q \in Plans : plans'[q] = "deleted" => plans[q] = "deleted"
  BY <1>3 DEF CreatePlan
<1>4. ASSUME NEW x \in Tasks, CreateTask(x) \/ DeleteTask(x)
      PROVE  UNCHANGED plans /\ \A y \in Tasks : tasks'[y] = "deleted" => tasks[y] = "deleted"
  BY <1>4 DEF CreateTask, DeleteTask
<1> QED BY <1>1, <1>2, <1>3, <1>4 DEF Next, BootStep

\* However often a boot is tried, it deletes only what nobody owns and the lists name.
THEOREM NothingElseIsDeleted == Spec => OnlyLeftoversAreDeleted
<1>1. IInv /\ [Next]_dvars =>
        [/\ \A p \in Plans : plans'[p] = "deleted" /\ plans[p] # "deleted" =>
                plans[p] = "unowned" /\ p \in settings.exclude
         /\ \A x \in Tasks : tasks'[x] = "deleted" /\ tasks[x] # "deleted" =>
                \/ plans'[PlanOf[x]] = "deleted"
                \/ /\ tasks[x] = "removed"
                   /\ plans[PlanOf[x]] = "unowned" /\ plans'[PlanOf[x]] = "owned"]_dvars
  BY StepDeletes
<1> QED BY <1>1, Invariance, PTL DEF Spec, OnlyLeftoversAreDeleted

-----------------------------------------------------------------------------
(* The refinement.                                                          *)

\* Boots that die, are tried again and are pushed over implement Handover: plans
\* keep their owners, the NOT NULL comes once nobody is without one and stays, and
\* T07 opens behind it.
THEOREM DeploysHandOver == Spec => IsAHandover
<1> DEFINE required == at >= RequirePlanOwner.number
           open == "T07" \in serving
<1>1. ASSUME Init PROVE OwnerHandover!Init
  BY <1>1, Numbers DEF Init, OwnerHandover!Init
<1>2. ASSUME IInv, [Next]_dvars PROVE [OwnerHandover!Next]_(OwnerHandover!hvars)
  <2> USE DEF IInv, Domains
  <2>0. at \in Nat /\ (at >= 6 => Unowned = {})
        /\ (open \/ boot.pc \in {"listen", "up"} => at = 7)
    BY <1>2, Numbers DEF Owned
  <2>1. ASSUME UNCHANGED plans, required' = required, open' = open
        PROVE  UNCHANGED OwnerHandover!hvars
    BY <2>1 DEF OwnerHandover!hvars
  <2>2. CASE Start \/ ReadUnowned \/ CountOrphans \/ (\E s \in Settings : Push(s))
             \/ (\E x \in Tasks : CreateTask(x) \/ DeleteTask(x)) \/ UNCHANGED dvars
    <3>1. UNCHANGED <<plans, at, serving>>
      BY <2>2 DEF Start, ReadUnowned, CountOrphans, Push, CreateTask, DeleteTask, dvars
    <3> QED BY <2>1, <3>1
  <2>3. CASE UpgradeFirst
    <3>1. UNCHANGED <<plans, serving>> /\ (at' = at \/ (at < 5 /\ at' = 5))
      BY <2>3, Numbers DEF UpgradeFirst
    <3> QED BY <2>0, <2>1, <3>1, Numbers
  <2>4. CASE UpgradeToHead
    <3>1. UNCHANGED <<plans, serving>>
          /\ (UNCHANGED at \/ (at' = 7 /\ ~(at < 6 /\ Unowned # {})))
      BY <2>4, Numbers DEF UpgradeToHead, OwnersMissing
    <3>2. CASE UNCHANGED at
      BY <2>1, <3>1, <3>2
    <3>3. CASE at' = 7 /\ Unowned = {}
      <4>1. OwnerHandover!Require
        BY <3>1, <3>3, Numbers DEF OwnerHandover!Require, OwnerHandover!Unowned, Unowned
      <4> QED BY <4>1 DEF OwnerHandover!Next
    <3> QED BY <2>0, <3>1, <3>2, <3>3
  <2>5. CASE CommitClaim
    <3> DEFINE excluded == boot.toDelete
               claimed == {p \in boot.toClaim : plans[p] = "unowned"}
    <3>1. excluded \in SUBSET OwnerHandover!Unowned /\ claimed \in SUBSET OwnerHandover!Unowned
      BY <1>2, <2>5 DEF CommitClaim, ClaimIsCurrent, OwnerHandover!Unowned, Boot
    <3>2. OwnerHandover!Claim(claimed, excluded)
      BY <2>5 DEF CommitClaim, OwnerHandover!Claim
    <3> QED BY <3>1, <3>2 DEF OwnerHandover!Next
  <2>6. CASE Listen \/ Retire
    <3>1. UNCHANGED <<plans, at>> /\ open' /\ at = 7
      BY <2>0, <2>6 DEF Listen, Retire
    <3>2. OwnerHandover!Open
      BY <3>1, Numbers DEF OwnerHandover!Open
    <3> QED BY <3>2 DEF OwnerHandover!Next
  <2>7. CASE Crash
    <3>1. UNCHANGED <<plans, at>> /\ (open' = open \/ open' = FALSE)
      BY <2>7 DEF Crash
    <3>2. CASE open' = open
      BY <2>1, <3>1, <3>2
    <3>3. CASE open' = FALSE
      <4>1. OwnerHandover!Shut
        BY <3>1, <3>3 DEF OwnerHandover!Shut
      <4> QED BY <4>1 DEF OwnerHandover!Next
    <3> QED BY <3>1, <3>2, <3>3
  <2>8. ASSUME NEW p \in Plans, NEW program \in {"T06", "T07"}, CreatePlan(program, p)
        PROVE  OwnerHandover!Write(p)
    <3>1. UNCHANGED <<at, serving>> /\ plans[p] = "absent"
      BY <2>8 DEF CreatePlan
    <3>2. \/ at < 6 /\ plans' = [plans EXCEPT ![p] = "unowned"]
          \/ open /\ plans' = [plans EXCEPT ![p] = "owned"]
      BY <2>8, Numbers DEF CreatePlan
    <3>3. at < 6 => ~required
      BY <2>0, Numbers
    <3> QED BY <3>1, <3>2, <3>3 DEF OwnerHandover!Write
  <2> HIDE DEF IInv, Domains
  <2>9. CASE Next
    <3>1. CASE \E p \in Plans, program \in {"T06", "T07"} : CreatePlan(program, p)
      BY <2>8, <3>1 DEF OwnerHandover!Next
    <3> QED BY <2>2, <2>3, <2>4, <2>5, <2>6, <2>7, <2>9, <3>1 DEF Next, BootStep
  <2> QED BY <1>2, <2>2, <2>9
<1> QED BY <1>1, <1>2, Invariance, PTL DEF Spec, IsAHandover, OwnerHandover!Spec

=============================================================================
