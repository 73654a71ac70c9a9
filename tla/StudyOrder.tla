----------------------------- MODULE StudyOrder -----------------------------
(***************************************************************************)
(* The five-day study of a plan: execution records (services/executions.py)*)
(* and rule changes (services/rule_changes.py) that must come in a certain *)
(* order, while tasks are deleted and the plan's dates are edited (Plans), *)
(* and the two reports over the same rows: services/metrics.py and         *)
(* aggregate_plan of services/reflections.py.                              *)
(*                                                                         *)
(* A record and a rule change each read what they check, and then commit.  *)
(***************************************************************************)
EXTENDS Plans, Sequences, FiniteSetsExt

CONSTANTS
    Tasks,          \* bound: the tasks of the plan; task x is due on day x
    MaxDay,         \* bound: records are started in 1 .. MaxDay, as Seoul dates
    Observed,       \* OBSERVATION_PLAN_ID is this plan
    Estimate,       \* minutes each task is estimated at
    Minutes,        \* minutes each record says
    MaxLogs,        \* bound: execution records
    MaxChanges,     \* bound: rule changes
    MaxMoves        \* bound: edits of the plan during the study

Days == 1 .. MaxDay

ASSUME StudyAssumption ==
    /\ Tasks \subseteq Days /\ MaxDay \in Nat /\ MaxDate <= MaxDay
    /\ Observed \in BOOLEAN
    /\ Estimate \in Nat /\ Minutes \in Nat /\ MaxLogs \in Nat
    /\ MaxChanges \in Nat /\ MaxMoves \in Nat

VARIABLES
    logs,       \* execution_logs in commit order
    changes,    \* plan_rule_changes with their citations, in commit order
    deleted,    \* the tasks with a deleted_at
    work,       \* the record or rule change a thread is about to commit
    moved       \* history: the first day was moved when there was something to
                \* renumber

svars == <<logs, changes, deleted, work, moved>>

-----------------------------------------------------------------------------
(* Records, rule changes, study days.                                       *)

\* over: ended_at is past.  after is history: the rule changes that were there.
ExecutionLog == [task: Tasks, day: Days, over: BOOLEAN, after: Nat]

\* day1 and day2 are the citations, as places in logs.  after is history: the
\* records that were there; excused: a record of day 3 or later was hidden by
\* the deletion of its task, or came after the check.
PlanRuleChange == [day1: Nat, day2: Nat, after: Nat, excused: BOOLEAN]

\* day_number, without the numbers below 1.
FallsOn(log, n) == log.day + 1 = plan.start + n
FromDayThree(log) == log.day >= plan.start + 2

Visible == {i \in DOMAIN logs : logs[i].task \notin deleted}

-----------------------------------------------------------------------------
(* Init, and the handlers.                                                  *)

StudyInit ==
    /\ Init
    /\ logs = <<>>
    /\ changes = <<>>
    /\ deleted = {}
    /\ work = [t \in Threads |-> Idle]
    /\ moved = FALSE

Free(t) == req[t] = Idle /\ work[t] = Idle

\* Mutant: records are taken in any order.
NeverBlocked(log) == FALSE
\* _guard_study_order and blocks_execution.
BlocksExecution(log) == Observed /\ FromDayThree(log) /\ changes = <<>>

\* create_execution up to its INSERT.
CheckLog(t, x, day, over) ==
    LET log == [task |-> x, day |-> day, over |-> over, after |-> 0] IN
    /\ Free(t)
    /\ x \notin deleted
    /\ ~BlocksExecution(log)
    /\ work' = [work EXCEPT ![t] = [pc |-> "record", log |-> log]]
    /\ UNCHANGED <<logs, changes, deleted, moved>>

Excused(w) == IF w.pc = "change" THEN [w EXCEPT !.change.excused = TRUE] ELSE w

CommitLog(t) ==
    LET log == [work[t].log EXCEPT !.after = Len(changes)] IN
    /\ work[t].pc = "record"
    /\ logs' = Append(logs, log)
    /\ work' = [u \in Threads |->
                   IF u = t THEN Idle
                   ELSE IF FromDayThree(log) THEN Excused(work[u]) ELSE work[u]]
    /\ UNCHANGED <<changes, deleted, moved>>

\* Mutant: a rule change may come late.
NeverLate == {}
\* _day_three_record
DayThreeRecords == {i \in Visible : FromDayThree(logs[i])}

\* Mutant: the citations may be any two records.
CitesAnything(i, j) == i # j
\* _execution_on_plan for both citations, and what create_rule_change asks of
\* them: they are of days 1 and 2, and the second is over.
Cites(i, j) ==
    /\ {i, j} \subseteq Visible /\ i # j
    /\ FallsOn(logs[i], 1) /\ FallsOn(logs[j], 2)
    /\ logs[j].over

\* create_rule_change up to its INSERT.
CheckChange(t, i, j) ==
    /\ Free(t)
    /\ Cites(i, j)
    /\ DayThreeRecords = {}
    /\ work' = [work EXCEPT ![t] =
                   [pc |-> "change",
                    change |-> [day1 |-> i, day2 |-> j, after |-> 0,
                                excused |-> \E k \in DOMAIN logs \ Visible : FromDayThree(logs[k])]]]
    /\ UNCHANGED <<logs, changes, deleted, moved>>

CommitChange(t) ==
    /\ work[t].pc = "change"
    /\ changes' = Append(changes, [work[t].change EXCEPT !.after = Len(logs)])
    /\ work' = [work EXCEPT ![t] = Idle]
    /\ UNCHANGED <<logs, deleted, moved>>

\* delete_task; the records of the task stay.
DeleteTask(x) ==
    /\ deleted' = deleted \cup {x}
    /\ UNCHANGED <<logs, changes, work, moved>>

\* A record was made out to end in the future, and now it has.
End(i) ==
    /\ ~logs[i].over
    /\ logs' = [logs EXCEPT ![i].over = TRUE]
    /\ UNCHANGED <<changes, deleted, work, moved>>

CrashWork(t) ==
    /\ work[t] # Idle
    /\ work' = [work EXCEPT ![t] = Idle]
    /\ UNCHANGED <<logs, changes, deleted, moved>>

Recording == {t \in Threads : work[t].pc = "record"}
Changing == {t \in Threads : work[t].pc = "change"}

StudyStep ==
    \/ \E t \in Threads :
          \/ /\ Len(logs) + Cardinality(Recording) < MaxLogs
             /\ \E x \in Tasks, day \in Days, over \in BOOLEAN : CheckLog(t, x, day, over)
          \/ CommitLog(t)
          \/ /\ Len(changes) + Cardinality(Changing) < MaxChanges
             /\ \E i, j \in DOMAIN logs : CheckChange(t, i, j)
          \/ CommitChange(t) \/ CrashWork(t)
    \/ \E x \in Tasks : DeleteTask(x)
    \/ \E i \in DOMAIN logs : End(i)

\* A step of Plans.  The study is renumbered if it moves the first day.
PlanStep ==
    /\ \E t \in Threads : work[t] = Idle /\ Step(t)
    /\ moved' = (moved \/ (plan'.start # plan.start
                             /\ (logs # <<>> \/ \E t \in Threads : work[t] # Idle)))
    /\ UNCHANGED <<logs, changes, deleted, work>>

\* Bound: a study is looked at with MaxMoves edits of its plan, and without next
\* plans, which share nothing with it.
Bounded ==
    (logs # <<>> \/ deleted # {} \/ \E t \in Threads : work[t] # Idle)
      => /\ plan.version + Cardinality(Editing) <= MaxMoves
         /\ \A f \in Reflections : next[f] = NoPlan /\ ~Asked(f)

StudyNext == ((StudyStep /\ UNCHANGED pvars) \/ PlanStep) /\ Bounded'

StudySpec == StudyInit /\ [][StudyNext]_<<pvars, svars>>

-----------------------------------------------------------------------------
(* The reports.                                                             *)

StudyDays == plan.start .. plan.end

\* ratio, in hundredths: rounded half up.  Empty when nothing was planned.
Ratio(estimated, actual) ==
    IF estimated = 0 THEN {} ELSE {(200 * actual + estimated) \div (2 * estimated)}

\* Mutant: records of deleted tasks count.
ActualOfAll == [day \in Days |-> Minutes * Cardinality({i \in DOMAIN logs : logs[i].day = day})]
\* daily_series: planned minutes by due date, actual minutes by the record's day.
Planned == [day \in Days |-> Estimate * Cardinality({x \in Tasks \ deleted : x = day})]
Actual == [day \in Days |-> Minutes * Cardinality({i \in Visible : logs[i].day = day})]

\* summarize over the rows of these days.
Summary(days) ==
    LET estimated == SumFunctionOnSet(Planned, days)
        actual == SumFunctionOnSet(Actual, days) IN
    [days |-> Cardinality(days),
     withoutRatio |-> Cardinality({d \in days : Ratio(Planned[d], Actual[d]) = {}}),
     estimated |-> estimated, actual |-> actual, ratio |-> Ratio(estimated, actual)]

\* comparison: the cited days are the days before, the others the days after.
Before == {d \in StudyDays : d + 1 < plan.start + 3}
After == {d \in StudyDays : d + 1 >= plan.start + 3}

\* aggregate_plan over the tasks due from first to last: their records count,
\* whenever they were made.
Aggregate(first, last) ==
    LET due == {x \in Tasks \ deleted : x \in first .. last} IN
    [tasks |-> Cardinality(due), estimated |-> Estimate * Cardinality(due),
     actual |-> Minutes * Cardinality({i \in DOMAIN logs : logs[i].task \in due})]

-----------------------------------------------------------------------------
(* Properties.                                                              *)

\* Every variable stays in its domain.
StudyTypeOK ==
    /\ TypeOK
    /\ logs \in Seq(ExecutionLog)
    /\ changes \in Seq(PlanRuleChange)
    /\ deleted \subseteq Tasks
    /\ work \in [Threads -> {Idle} \cup [pc: {"record"}, log: ExecutionLog]
                                    \cup [pc: {"change"}, change: PlanRuleChange]]
    /\ moved \in BOOLEAN

\* The order the study needs (C09, C12), kept by two guards that each look at
\* what the other writes: on the observed plan every record of day 3 or later
\* was committed after a rule change, and a rule change cites two earlier
\* records, of days 1 and 2, the second one over.  Only moving the first day can
\* break it.
StudyKeepsItsOrder ==
    ~moved =>
        /\ Observed => \A i \in DOMAIN logs : FromDayThree(logs[i]) => logs[i].after >= 1
        /\ \A c \in DOMAIN changes :
              /\ changes[c].day1 # changes[c].day2
              /\ {changes[c].day1, changes[c].day2} \subseteq 1 .. changes[c].after
              /\ FallsOn(logs[changes[c].day1], 1) /\ FallsOn(logs[changes[c].day2], 2)
              /\ logs[changes[c].day2].over

\* create_rule_change turns a change away once there is a record of day 3 or
\* later, unless the record's task is deleted or the two commit side by side.  On
\* the observed plan the first rule change knows no such exception: of a record
\* and a change that check for each other at once, the record is turned away, and
\* a record that was let in had a change before it, hidden or not (C09).
NoChangeAfterDayThree ==
    ~moved =>
        /\ \A c \in DOMAIN changes :
              changes[c].excused \/ \A i \in 1 .. changes[c].after : ~FromDayThree(logs[i])
        /\ Observed /\ changes # <<>> =>
              \A i \in 1 .. changes[1].after : ~FromDayThree(logs[i])

\* Two computations of the same totals, by day in metrics.py and by task in
\* reflections.py, agree whatever was recorded and deleted; and the totals of
\* two adjoining periods add up to those of the whole.
TotalsAgree ==
    LET all == Aggregate(1, MaxDay)
        daily == Summary(Days) IN
    /\ daily.estimated = all.estimated /\ daily.actual = all.actual
    /\ \A d \in Days :
          LET early == Aggregate(1, d)
              late == Aggregate(d + 1, MaxDay) IN
          early.actual + late.actual = all.actual /\ early.tasks + late.tasks = all.tasks

\* The days before and after a rule change are all days of the study, each
\* once (comparison), wherever the dates were moved: nothing recorded on one of
\* them is lost or counted twice.
HalvesAddUp ==
    LET before == Summary(Before)
        after == Summary(After)
        whole == Summary(StudyDays) IN
    /\ before.days + after.days = whole.days
    /\ before.actual + after.actual = whole.actual
    /\ before.estimated + after.estimated = whole.estimated
    /\ before.withoutRatio + after.withoutRatio = whole.withoutRatio

\* Every report over the same records tells the same: the daily series, the
\* reflections of any two adjoining periods and the comparison before and after
\* a rule change.
ReportsAgree == TotalsAgree /\ HalvesAddUp
=============================================================================
