---------------------------- MODULE StudyProofs ----------------------------
(***************************************************************************)
(* For any study: the types, the order of its five days (a rule change     *)
(* cites a record of day 1 and one of day 2 that is over, and stands       *)
(* between them and day 3), and that the two ways of adding up the same    *)
(* minutes agree.  A study moves its plan as Plans does, so what           *)
(* PlansProofs shows holds here too.                                       *)
(***************************************************************************)
EXTENDS StudyOrder, PlansProofs

\* The study leaves plans as they are but for the steps of Plans, so that all of
\* this holds in a study (StudyOrder) too.
THEOREM StudiesAreMadeOfPlanSteps == StudySpec => Spec
<1>1. StudyInit => Init
  BY DEF StudyInit
<1>2. [StudyNext]_<<pvars, svars>> => [Next]_pvars
  BY DEF StudyNext, PlanStep, Next, pvars
<1> QED BY <1>1, <1>2, PTL DEF StudySpec, Spec

-----------------------------------------------------------------------------
(* The order of the study.  A record and a rule change are committed as they *)
(* were checked, so what is asked of the rows is asked of `work` as well.    *)

\* The places a rule change cites are of days 1 and 2, the second one over.
GoodCitations(change, n) ==
    /\ change.day1 # change.day2
    /\ {change.day1, change.day2} \subseteq 1 .. n
    /\ FallsOn(logs[change.day1], 1) /\ FallsOn(logs[change.day2], 2)
    /\ logs[change.day2].over

\* The rule changes that are there, and the ones about to be.
CitationsAreGood ==
    /\ \A c \in DOMAIN changes :
          changes[c].after <= Len(logs) /\ GoodCitations(changes[c], changes[c].after)
    /\ \A t \in Threads : work[t].pc = "change" => GoodCitations(work[t].change, Len(logs))

\* The records that are there, and the ones about to be.
RecordsWait ==
    Observed =>
        /\ \A i \in DOMAIN logs : FromDayThree(logs[i]) => logs[i].after >= 1
        /\ \A t \in Threads :
              work[t].pc = "record" /\ FromDayThree(work[t].log) => changes # <<>>

\* Neither a rule change nor one about to be comes after a record of day 3,
\* unless it is excused.
ChangesAreEarly ==
    /\ \A c \in DOMAIN changes :
          changes[c].excused \/ \A i \in 1 .. changes[c].after : ~FromDayThree(logs[i])
    /\ \A t \in Threads : work[t].pc = "change" =>
          work[t].change.excused \/ \A i \in DOMAIN logs : ~FromDayThree(logs[i])

Order == ~moved => CitationsAreGood /\ RecordsWait /\ ChangesAreEarly

\* What a record and a rule change say of when they were committed agrees: the
\* records before the c-th change saw fewer than c changes.
CommitsAreOrdered ==
    /\ \A i \in DOMAIN logs : logs[i].after <= Len(changes)
    /\ \A c \in DOMAIN changes :
          /\ changes[c].after <= Len(logs)
          /\ \A i \in 1 .. changes[c].after : logs[i].after < c

StudyIInv == IInv /\ StudyTypeOK /\ Order /\ CommitsAreOrdered

LEMMA InitStudy == ASSUME StudyInit PROVE StudyIInv
<1>1. IInv
  BY InitIInv DEF StudyInit
<1>2. logs = <<>> /\ changes = <<>> /\ \A t \in Threads : work[t].pc = "idle"
  BY DEF StudyInit, Idle
<1>3. StudyTypeOK
  <2>1. <<>> \in Seq(ExecutionLog) /\ <<>> \in Seq(PlanRuleChange)
    OBVIOUS
  <2> QED BY <1>1, <2>1 DEF StudyInit, StudyTypeOK, IInv
<1>4. Order
  BY <1>2 DEF Order, CitationsAreGood, RecordsWait, ChangesAreEarly
<1>5. CommitsAreOrdered
  BY <1>2 DEF CommitsAreOrdered
<1> QED BY <1>1, <1>3, <1>4, <1>5 DEF StudyIInv

\* What a thread holds of the study shows what it looks like.
LEMMA Works ==
    ASSUME StudyTypeOK, NEW t \in Threads
    PROVE  /\ work[t].pc = "record" => work[t] \in [pc: {"record"}, log: ExecutionLog]
           /\ work[t].pc = "change" => work[t] \in [pc: {"change"}, change: PlanRuleChange]
  BY DEF StudyTypeOK, Idle

\* A rule change or a record has its place in the sequence, and keeps it.
LEMMA Places ==
    ASSUME NEW S, NEW s \in Seq(S), NEW x \in S
    PROVE  /\ Append(s, x) \in Seq(S)
           /\ Len(Append(s, x)) = Len(s) + 1
           /\ DOMAIN s = 1 .. Len(s) /\ DOMAIN Append(s, x) = 1 .. (Len(s) + 1)
           /\ \A i \in DOMAIN s : Append(s, x)[i] = s[i]
           /\ Append(s, x)[Len(s) + 1] = x
           /\ Len(s) \in Nat
  OBVIOUS

\* A citation stays good while records are added and come to an end.
LEMMA GoodCitationsStay ==
    ASSUME NEW change \in PlanRuleChange, NEW n \in Nat, GoodCitations(change, n),
           logs \in Seq(ExecutionLog), n <= Len(logs),
           NEW m \in Nat, n <= m, plan'.start = plan.start,
           \A i \in DOMAIN logs : /\ logs'[i].day = logs[i].day
                                  /\ logs[i].over => logs'[i].over
    PROVE  GoodCitations(change, m)'
  BY DEF GoodCitations, FallsOn, PlanRuleChange

\* A record is moved to another day by nothing, and only ever comes to an end.
RecordsStay ==
    /\ DOMAIN logs \subseteq DOMAIN logs' /\ Len(logs) <= Len(logs')
    /\ \A i \in DOMAIN logs :
          /\ logs'[i].day = logs[i].day /\ logs'[i].after = logs[i].after
          /\ logs[i].over => logs'[i].over

LEMMA StudyTypesStay ==
    ASSUME StudyTypeOK, TypeOK', StudyNext PROVE StudyTypeOK' /\ RecordsStay
<1> USE DEF StudyTypeOK
<1>1. CASE PlanStep
  <2>1. moved' \in BOOLEAN /\ UNCHANGED <<logs, changes, deleted, work>>
    BY <1>1 DEF PlanStep
  <2> QED BY <2>1 DEF RecordsStay
<1>2. ASSUME NEW t \in Threads, NEW x \in Tasks, NEW day \in Days, NEW over \in BOOLEAN,
             CheckLog(t, x, day, over)
      PROVE  StudyTypeOK' /\ RecordsStay
  <2> DEFINE w == [pc |-> "record", log |-> [task |-> x, day |-> day, over |-> over, after |-> 0]]
  <2>1. w \in [pc: {"record"}, log: ExecutionLog]
    BY DEF ExecutionLog
  <2>2. work' = [work EXCEPT ![t] = w] /\ UNCHANGED <<logs, changes, deleted, moved>>
    BY <1>2 DEF CheckLog
  <2> HIDE DEF w
  <2>3. work' \in [Threads -> {Idle} \cup [pc: {"record"}, log: ExecutionLog]
                                     \cup [pc: {"change"}, change: PlanRuleChange]]
    BY <2>1, <2>2
  <2>4. UNCHANGED logs => RecordsStay
    BY DEF RecordsStay
  <2> QED BY <2>2, <2>3, <2>4
<1>3. ASSUME NEW t \in Threads, CommitLog(t) PROVE StudyTypeOK' /\ RecordsStay
  <2> DEFINE log == [work[t].log EXCEPT !.after = Len(changes)]
  <2>1. log \in ExecutionLog
    <3>1. work[t].log \in ExecutionLog
      BY <1>3, Works DEF CommitLog
    <3>2. Len(changes) \in Nat
      OBVIOUS
    <3> QED BY ONLY <3>1, <3>2 DEF ExecutionLog
  <2>2. logs' = Append(logs, log) /\ UNCHANGED <<changes, deleted, moved>>
    BY <1>3 DEF CommitLog
  <2>3. logs' \in Seq(ExecutionLog) /\ RecordsStay
    BY <2>1, <2>2, Places DEF RecordsStay
  <2>4. \A u \in Threads : Excused(work[u]) \in {Idle} \cup [pc: {"record"}, log: ExecutionLog]
                                                   \cup [pc: {"change"}, change: PlanRuleChange]
    <3>1. ASSUME NEW u \in Threads, work[u].pc = "change"
          PROVE  [work[u] EXCEPT !.change.excused = TRUE] \in [pc: {"change"}, change: PlanRuleChange]
      BY <3>1, Works DEF PlanRuleChange
    <3> QED BY <3>1 DEF Excused
  <2>5. work' \in [Threads -> {Idle} \cup [pc: {"record"}, log: ExecutionLog]
                                     \cup [pc: {"change"}, change: PlanRuleChange]]
    BY <1>3, <2>4 DEF CommitLog
  <2> QED BY <2>2, <2>3, <2>5
<1>4. ASSUME NEW t \in Threads, NEW i \in DOMAIN logs, NEW j \in DOMAIN logs, CheckChange(t, i, j)
      PROVE  StudyTypeOK' /\ RecordsStay
  <2> DEFINE hidden == \E k \in DOMAIN logs \ Visible : FromDayThree(logs[k])
  <2>1. i \in Nat /\ j \in Nat
    OBVIOUS
  <2>2. [pc |-> "change", change |-> [day1 |-> i, day2 |-> j, after |-> 0, excused |-> hidden]]
          \in [pc: {"change"}, change: PlanRuleChange]
    <3>1. hidden \in BOOLEAN
      OBVIOUS
    <3> HIDE DEF hidden
    <3> QED BY <2>1, <3>1 DEF PlanRuleChange
  <2> QED BY <1>4, <2>2 DEF CheckChange, RecordsStay
<1>5. ASSUME NEW t \in Threads, CommitChange(t) PROVE StudyTypeOK' /\ RecordsStay
  <2> DEFINE change == [work[t].change EXCEPT !.after = Len(logs)]
  <2>1. change \in PlanRuleChange
    <3>1. work[t].change \in PlanRuleChange
      BY <1>5, Works DEF CommitChange
    <3>2. Len(logs) \in Nat
      OBVIOUS
    <3> QED BY ONLY <3>1, <3>2 DEF PlanRuleChange
  <2>2. changes' = Append(changes, change) /\ UNCHANGED <<logs, deleted, moved>>
    BY <1>5 DEF CommitChange
  <2>3. changes' \in Seq(PlanRuleChange)
    BY <2>1, <2>2, Places
  <2> QED BY <1>5, <2>2, <2>3 DEF CommitChange, RecordsStay
<1>6. ASSUME NEW t \in Threads, CrashWork(t) PROVE StudyTypeOK' /\ RecordsStay
  BY <1>6 DEF CrashWork, RecordsStay
<1>7. ASSUME NEW x \in Tasks, DeleteTask(x) PROVE StudyTypeOK' /\ RecordsStay
  BY <1>7 DEF DeleteTask, RecordsStay
<1>8. ASSUME NEW i \in DOMAIN logs, End(i) PROVE StudyTypeOK' /\ RecordsStay
  <2>1. [logs[i] EXCEPT !.over = TRUE] \in ExecutionLog
    <3>1. logs[i] \in ExecutionLog
      OBVIOUS
    <3> QED BY ONLY <3>1 DEF ExecutionLog
  <2>2. logs' = [logs EXCEPT ![i].over = TRUE] /\ UNCHANGED <<changes, deleted, work, moved>>
    BY <1>8 DEF End
  <2>3. logs' \in Seq(ExecutionLog) /\ Len(logs') = Len(logs) /\ DOMAIN logs' = DOMAIN logs
    BY <2>1, <2>2
  <2>4. \A k \in DOMAIN logs : logs'[k] = IF k = i THEN [logs[i] EXCEPT !.over = TRUE] ELSE logs[k]
    BY <2>2
  <2>5. \A k \in DOMAIN logs : logs[k] \in ExecutionLog
    OBVIOUS
  <2>6. \A k \in DOMAIN logs :
          /\ logs'[k].day = logs[k].day /\ logs'[k].after = logs[k].after
          /\ logs[k].over => logs'[k].over
    BY ONLY <2>4, <2>5 DEF ExecutionLog
  <2>7. RecordsStay
    BY <2>3, <2>6 DEF RecordsStay
  <2> QED BY <2>2, <2>3, <2>7
<1> QED BY <1>1, <1>2, <1>3, <1>4, <1>5, <1>6, <1>7, <1>8 DEF StudyNext, StudyStep

\* While the study has its first day, no step but one that commits a record or a
\* rule change or checks one can disturb the order.
LEMMA OrderKept ==
    ASSUME StudyIInv, StudyTypeOK', RecordsStay, ~moved,
           plan'.start = plan.start, Len(logs') = Len(logs), changes' = changes,
           \A t \in Threads : work'[t] = work[t] \/ work'[t] = Idle
    PROVE  Order'
<1>1. Order /\ logs \in Seq(ExecutionLog) /\ logs' \in Seq(ExecutionLog) /\ changes \in Seq(PlanRuleChange)
  BY DEF StudyIInv, StudyTypeOK
<1>2. CitationsAreGood /\ RecordsWait /\ ChangesAreEarly
  BY <1>1 DEF Order
<1>3. DOMAIN logs' = DOMAIN logs /\ DOMAIN logs = 1 .. Len(logs) /\ Len(logs) \in Nat
  BY <1>1
<1>4. \A i \in DOMAIN logs : FromDayThree(logs[i])' = FromDayThree(logs[i]) /\ logs'[i].after = logs[i].after
  BY DEF RecordsStay, FromDayThree
<1>5. \A c \in DOMAIN changes : changes[c] \in PlanRuleChange
  BY <1>1
<1>6. CitationsAreGood'
  <2>1. ASSUME NEW c \in DOMAIN changes
        PROVE  changes[c].after <= Len(logs)' /\ GoodCitations(changes[c], changes[c].after)'
    <3>1. changes[c].after \in Nat
      BY <1>5 DEF PlanRuleChange
    <3> QED BY <1>1, <1>2, <1>3, <1>5, <3>1, GoodCitationsStay DEF CitationsAreGood, RecordsStay
  <2>2. ASSUME NEW t \in Threads, work'[t].pc = "change"
        PROVE  GoodCitations(work[t].change, Len(logs))' /\ work'[t] = work[t]
    <3>1. work'[t] = work[t] /\ work[t].pc = "change"
      BY <2>2 DEF Idle
    <3>2. work[t].change \in PlanRuleChange
      BY <3>1, Works DEF StudyIInv
    <3>3. GoodCitations(work[t].change, Len(logs))
      BY <1>2, <3>1 DEF CitationsAreGood
    <3> QED BY <1>1, <1>3, <3>1, <3>2, <3>3, GoodCitationsStay DEF RecordsStay
  <2> QED BY <2>1, <2>2 DEF CitationsAreGood
<1>7. RecordsWait'
  BY <1>2, <1>3, <1>4 DEF RecordsWait, FromDayThree, Idle
<1>8. ChangesAreEarly'
  <2>1. ASSUME NEW c \in DOMAIN changes
        PROVE  changes[c].excused \/ \A i \in 1 .. changes[c].after : ~FromDayThree(logs[i])'
    <3>1. 1 .. changes[c].after \subseteq DOMAIN logs
      BY <1>2, <1>3, <1>5 DEF CitationsAreGood, PlanRuleChange
    <3> QED BY <1>2, <1>4, <3>1 DEF ChangesAreEarly
  <2>2. ASSUME NEW t \in Threads, work'[t].pc = "change"
        PROVE  work'[t].change.excused \/ \A i \in DOMAIN logs : ~FromDayThree(logs[i])'
    BY <1>2, <1>4, <2>2 DEF ChangesAreEarly, Idle
  <2> QED BY <1>3, <2>1, <2>2 DEF ChangesAreEarly
<1> QED BY <1>6, <1>7, <1>8 DEF Order

\* Moving the first day of a study that has begun is what `moved` remembers.
LEMMA PlanStepOrder ==
    ASSUME StudyIInv, StudyTypeOK', RecordsStay, PlanStep PROVE Order'
<1>1. UNCHANGED <<logs, changes, deleted, work>>
  BY DEF PlanStep
<1>2. CASE moved'
  BY <1>2 DEF Order
<1>3. CASE ~moved' /\ plan'.start = plan.start
  <2>1. ~moved
    BY <1>3 DEF PlanStep
  <2> QED BY <1>1, <1>3, <2>1, OrderKept
<1>4. CASE ~moved' /\ plan'.start # plan.start
  <2>1. ~moved /\ logs = <<>> /\ \A t \in Threads : work[t] = Idle
    BY <1>4 DEF PlanStep
  <2>2. changes = <<>>
    <3>1. Order /\ changes \in Seq(PlanRuleChange)
      BY DEF StudyIInv, StudyTypeOK
    <3>2. DOMAIN changes = {}
      <4> SUFFICES ASSUME NEW c \in DOMAIN changes PROVE FALSE
        OBVIOUS
      <4>1. changes[c] \in PlanRuleChange
        BY <3>1
      <4>2. changes[c].after <= 0 /\ changes[c].day1 \in 1 .. changes[c].after
        BY <2>1, <3>1 DEF Order, CitationsAreGood, GoodCitations
      <4> QED BY <4>1, <4>2 DEF PlanRuleChange
    <3> QED BY <3>1, <3>2
  <2> QED BY <1>1, <2>1, <2>2 DEF Order, CitationsAreGood, RecordsWait, ChangesAreEarly, Idle
<1> QED BY <1>2, <1>3, <1>4

\* A rule change is committed as it was checked.
LEMMA CheckChangeOrder ==
    ASSUME StudyIInv, ~moved, UNCHANGED pvars, NEW t \in Threads,
           NEW i \in DOMAIN logs, NEW j \in DOMAIN logs, CheckChange(t, i, j)
    PROVE  Order'
<1> DEFINE hidden == \E k \in DOMAIN logs \ Visible : FromDayThree(logs[k])
           change == [day1 |-> i, day2 |-> j, after |-> 0, excused |-> hidden]
<1>1. /\ StudyTypeOK /\ CitationsAreGood /\ RecordsWait /\ ChangesAreEarly
      /\ UNCHANGED <<plan, logs, changes, deleted, moved>>
  BY DEF StudyIInv, Order, CheckChange, pvars
<1>2. work' = [work EXCEPT ![t] = [pc |-> "change", change |-> change]]
  BY DEF CheckChange
<1>3. GoodCitations(change, Len(logs))
  <2>1. Cites(i, j) /\ DOMAIN logs = 1 .. Len(logs)
    BY <1>1 DEF CheckChange, StudyTypeOK
  <2>2. change.day1 = i /\ change.day2 = j
    OBVIOUS
  <2> HIDE DEF change
  <2> QED BY <2>1, <2>2 DEF Cites, GoodCitations
<1>4. change.excused \/ \A k \in DOMAIN logs : ~FromDayThree(logs[k])
  BY DEF CheckChange, DayThreeRecords
<1> HIDE DEF change
<1>5. /\ work'[t] = [pc |-> "change", change |-> change]
      /\ \A u \in Threads : u = t \/ work'[u] = work[u]
  BY <1>1, <1>2 DEF StudyTypeOK
<1>6. CitationsAreGood'
  <2>1. \A other, n : GoodCitations(other, n)' <=> GoodCitations(other, n)
    BY <1>1 DEF GoodCitations, FallsOn
  <2> QED BY <1>1, <1>3, <1>5, <2>1 DEF CitationsAreGood
<1>7. RecordsWait'
  BY <1>1, <1>5 DEF RecordsWait, FromDayThree
<1>8. ChangesAreEarly'
  BY <1>1, <1>4, <1>5 DEF ChangesAreEarly, FromDayThree
<1> QED BY <1>6, <1>7, <1>8 DEF Order

LEMMA CommitChangeOrder ==
    ASSUME StudyIInv, ~moved, UNCHANGED pvars, NEW t \in Threads, CommitChange(t)
    PROVE  Order'
<1> DEFINE change == [work[t].change EXCEPT !.after = Len(logs)]
<1>1. /\ StudyTypeOK /\ CitationsAreGood /\ RecordsWait /\ ChangesAreEarly
      /\ UNCHANGED <<plan, logs, deleted, moved>>
  BY DEF StudyIInv, Order, CommitChange, pvars
<1>2. /\ changes' = Append(changes, change)
      /\ work' = [work EXCEPT ![t] = Idle] /\ work[t].pc = "change"
  BY DEF CommitChange
<1>3. work[t].change \in PlanRuleChange /\ logs \in Seq(ExecutionLog) /\ Len(logs) \in Nat
      /\ DOMAIN logs = 1 .. Len(logs)
  BY <1>1, <1>2, Works DEF StudyTypeOK
<1>4. /\ change \in PlanRuleChange /\ change.after = Len(logs)
      /\ change.day1 = work[t].change.day1 /\ change.day2 = work[t].change.day2
      /\ change.excused = work[t].change.excused
  BY <1>3 DEF PlanRuleChange
<1> HIDE DEF change
<1>5. /\ GoodCitations(change, Len(logs))
      /\ change.excused \/ \A i \in 1 .. Len(logs) : ~FromDayThree(logs[i])
  BY <1>1, <1>2, <1>3, <1>4 DEF CitationsAreGood, GoodCitations, ChangesAreEarly
<1>6. /\ DOMAIN changes' = DOMAIN changes \cup {Len(changes) + 1}
      /\ \A c \in DOMAIN changes : changes'[c] = changes[c]
      /\ changes'[Len(changes) + 1] = change
      /\ changes' # <<>>
  <2>1. changes \in Seq(PlanRuleChange)
    BY <1>1 DEF StudyTypeOK
  <2> QED BY <1>2, <1>4, <2>1, Places
<1>7. \A u \in Threads : work'[u] = work[u] \/ work'[u] = Idle
  BY <1>1, <1>2 DEF StudyTypeOK
<1>8. CitationsAreGood'
  <2>1. \A other, n : GoodCitations(other, n)' <=> GoodCitations(other, n)
    BY <1>1 DEF GoodCitations, FallsOn
  <2>2. \A c \in DOMAIN changes' :
           changes'[c].after <= Len(logs') /\ GoodCitations(changes'[c], changes'[c].after)
    BY <1>1, <1>3, <1>4, <1>5, <1>6 DEF CitationsAreGood
  <2>3. \A u \in Threads : work'[u].pc = "change" => GoodCitations(work'[u].change, Len(logs'))
    BY <1>1, <1>7 DEF CitationsAreGood, Idle
  <2> QED BY <2>1, <2>2, <2>3 DEF CitationsAreGood
<1>9. RecordsWait'
  BY <1>1, <1>6, <1>7 DEF RecordsWait, FromDayThree, Idle
<1>10. ChangesAreEarly'
  BY <1>1, <1>4, <1>5, <1>6, <1>7 DEF ChangesAreEarly, FromDayThree, Idle
<1> QED BY <1>8, <1>9, <1>10 DEF Order

\* A record of day 3 finds the rule change it was let in for, and excuses those
\* that have not seen it.
LEMMA CommitLogOrder ==
    ASSUME StudyIInv, StudyTypeOK', RecordsStay, ~moved, UNCHANGED pvars, NEW t \in Threads, CommitLog(t)
    PROVE  Order'
<1> DEFINE log == [work[t].log EXCEPT !.after = Len(changes)]
<1>1. /\ StudyTypeOK /\ CitationsAreGood /\ RecordsWait /\ ChangesAreEarly
      /\ UNCHANGED <<plan, changes, deleted, moved>>
  BY DEF StudyIInv, Order, CommitLog, pvars
<1>2. /\ logs' = Append(logs, log) /\ work[t].pc = "record"
      /\ work' = [u \in Threads |->
                    IF u = t THEN Idle ELSE IF FromDayThree(log) THEN Excused(work[u]) ELSE work[u]]
  BY DEF CommitLog
<1>3. work[t].log \in ExecutionLog /\ logs \in Seq(ExecutionLog) /\ changes \in Seq(PlanRuleChange)
  BY <1>1, <1>2, Works DEF StudyTypeOK
<1>4. log \in ExecutionLog /\ log.day = work[t].log.day /\ log.after = Len(changes)
  <2>1. Len(changes) \in Nat
    BY <1>3
  <2> QED BY ONLY <1>3, <2>1 DEF ExecutionLog
<1> HIDE DEF log
<1>5. /\ DOMAIN logs = 1 .. Len(logs) /\ Len(logs) \in Nat /\ Len(logs') = Len(logs) + 1
      /\ DOMAIN logs' = 1 .. (Len(logs) + 1)
      /\ \A i \in DOMAIN logs : logs'[i] = logs[i]
      /\ logs'[Len(logs) + 1] = log
  BY <1>2, <1>3, <1>4, Places
<1>6. \A u \in Threads : work'[u].pc = "change" =>
        /\ work[u].pc = "change"
        /\ work'[u].change.day1 = work[u].change.day1 /\ work'[u].change.day2 = work[u].change.day2
        /\ work[u].change.excused => work'[u].change.excused
        /\ FromDayThree(log) => work'[u].change.excused
  <2> SUFFICES ASSUME NEW u \in Threads, work'[u].pc = "change"
               PROVE  /\ work[u].pc = "change"
                      /\ work'[u].change.day1 = work[u].change.day1
                      /\ work'[u].change.day2 = work[u].change.day2
                      /\ work[u].change.excused => work'[u].change.excused
                      /\ FromDayThree(log) => work'[u].change.excused
    OBVIOUS
  <2>1. work'[u] = IF FromDayThree(log) THEN Excused(work[u]) ELSE work[u]
    BY <1>2 DEF Idle
  <2>2. CASE FromDayThree(log) /\ work[u].pc = "change"
    <3>1. work[u] \in [pc: {"change"}, change: PlanRuleChange]
      BY <1>1, <2>2, Works
    <3>2. work'[u] = [work[u] EXCEPT !.change.excused = TRUE]
      BY <2>1, <2>2 DEF Excused
    <3> QED BY <2>2, <3>1, <3>2 DEF PlanRuleChange
  <2>3. CASE ~(FromDayThree(log) /\ work[u].pc = "change")
    BY <2>1, <2>3 DEF Excused
  <2> QED BY <2>2, <2>3
<1>7. \A u \in Threads : work'[u].pc = "record" => work'[u] = work[u]
  <2> SUFFICES ASSUME NEW u \in Threads, work'[u].pc = "record" PROVE work'[u] = work[u]
    OBVIOUS
  <2>1. work'[u] = IF FromDayThree(log) THEN Excused(work[u]) ELSE work[u]
    BY <1>2 DEF Idle
  <2>2. CASE work[u].pc = "change"
    <3>1. work[u] \in [pc: {"change"}, change: PlanRuleChange]
      BY <1>1, <2>2, Works
    <3>2. Excused(work[u]).pc = "change"
      BY <2>2, <3>1 DEF Excused
    <3> QED BY <2>1, <2>2, <3>2
  <2>3. CASE work[u].pc # "change"
    BY <2>1, <2>3 DEF Excused
  <2> QED BY <2>2, <2>3
<1>8. CitationsAreGood'
  <2>1. ASSUME NEW c \in DOMAIN changes
        PROVE  changes[c].after <= Len(logs)' /\ GoodCitations(changes[c], changes[c].after)'
    <3>1. changes[c] \in PlanRuleChange
      BY <1>3
    <3>2. changes[c].after \in Nat
      BY <3>1 DEF PlanRuleChange
    <3>3. changes[c].after <= Len(logs) /\ GoodCitations(changes[c], changes[c].after)
      BY <1>1 DEF CitationsAreGood
    <3> QED BY <1>1, <1>3, <1>5, <3>1, <3>2, <3>3, GoodCitationsStay DEF RecordsStay
  <2>2. ASSUME NEW u \in Threads, work'[u].pc = "change"
        PROVE  GoodCitations(work[u].change, Len(logs))'
    <3>1. GoodCitations(work[u].change, Len(logs)) /\ work[u].change \in PlanRuleChange
      BY <1>1, <1>6, <2>2, Works DEF CitationsAreGood
    <3> QED BY <1>1, <1>5, <1>6, <2>2, <3>1 DEF GoodCitations, FallsOn, PlanRuleChange
  <2> QED BY <1>1, <2>1, <2>2 DEF CitationsAreGood
<1>9. RecordsWait'
  <2> SUFFICES ASSUME Observed
               PROVE  /\ \A i \in DOMAIN logs' : FromDayThree(logs[i])' => logs'[i].after >= 1
                      /\ \A u \in Threads :
                           work'[u].pc = "record" /\ FromDayThree(work[u].log)' => changes # <<>>
    BY <1>1 DEF RecordsWait
  <2>1. FromDayThree(log) => log.after >= 1
    <3>1. FromDayThree(log) => changes # <<>>
      BY <1>1, <1>2, <1>4 DEF RecordsWait, FromDayThree
    <3> QED BY <1>3, <1>4, <3>1
  <2> QED BY <1>1, <1>5, <1>7, <2>1 DEF RecordsWait, FromDayThree
<1>10. ChangesAreEarly'
  <2>1. ASSUME NEW c \in DOMAIN changes
        PROVE  changes[c].excused \/ \A i \in 1 .. changes[c].after : ~FromDayThree(logs[i])'
    <3>1. changes[c] \in PlanRuleChange /\ changes[c].after <= Len(logs)
      BY <1>1, <1>3 DEF CitationsAreGood
    <3>2. 1 .. changes[c].after \subseteq DOMAIN logs
      BY <1>5, <3>1 DEF PlanRuleChange
    <3> QED BY <1>1, <1>5, <3>2 DEF ChangesAreEarly, FromDayThree
  <2>2. ASSUME NEW u \in Threads, work'[u].pc = "change"
        PROVE  work'[u].change.excused \/ \A i \in DOMAIN logs' : ~FromDayThree(logs[i])'
    BY <1>1, <1>5, <1>6, <2>2 DEF ChangesAreEarly, FromDayThree
  <2> QED BY <1>1, <2>1, <2>2 DEF ChangesAreEarly
<1> QED BY <1>8, <1>9, <1>10 DEF Order

LEMMA CheckLogOrder ==
    ASSUME StudyIInv, ~moved, UNCHANGED pvars, NEW t \in Threads, NEW x \in Tasks,
           NEW day \in Days, NEW over \in BOOLEAN, CheckLog(t, x, day, over)
    PROVE  Order'
<1> DEFINE log == [task |-> x, day |-> day, over |-> over, after |-> 0]
<1>1. /\ StudyTypeOK /\ CitationsAreGood /\ RecordsWait /\ ChangesAreEarly
      /\ UNCHANGED <<plan, logs, changes, deleted, moved>>
      /\ ~BlocksExecution(log)
      /\ work' = [work EXCEPT ![t] = [pc |-> "record", log |-> log]]
  BY DEF StudyIInv, Order, CheckLog, pvars
<1> HIDE DEF log
<1>2. /\ work'[t] = [pc |-> "record", log |-> log]
      /\ \A u \in Threads : u = t \/ work'[u] = work[u]
  BY <1>1 DEF StudyTypeOK
<1>3. CitationsAreGood'
  BY <1>1, <1>2 DEF CitationsAreGood, GoodCitations, FallsOn
<1>4. RecordsWait'
  BY <1>1, <1>2 DEF RecordsWait, FromDayThree, BlocksExecution
<1>5. ChangesAreEarly'
  BY <1>1, <1>2 DEF ChangesAreEarly, FromDayThree
<1> QED BY <1>3, <1>4, <1>5 DEF Order

\* A commit counts the rows of the other table, and takes the next place in its own.
LEMMA CommitsStayOrdered ==
    ASSUME StudyTypeOK, StudyTypeOK', CommitsAreOrdered, StudyNext PROVE CommitsAreOrdered'
<1>0. logs \in Seq(ExecutionLog) /\ changes \in Seq(PlanRuleChange)
  BY DEF StudyTypeOK
<1>a. /\ \A i \in DOMAIN logs : logs[i] \in ExecutionLog
      /\ \A c \in DOMAIN changes : changes[c] \in PlanRuleChange
      /\ DOMAIN logs = 1 .. Len(logs) /\ DOMAIN changes = 1 .. Len(changes)
      /\ Len(logs) \in Nat /\ Len(changes) \in Nat
  BY <1>0
<1>b. /\ \A i \in DOMAIN logs : logs[i].after \in Nat
      /\ \A c \in DOMAIN changes : changes[c].after \in Nat
  BY ONLY <1>a DEF ExecutionLog, PlanRuleChange
<1>1. /\ logs \in Seq(ExecutionLog) /\ changes \in Seq(PlanRuleChange)
      /\ \A i \in DOMAIN logs : logs[i].after \in Nat
      /\ \A c \in DOMAIN changes : changes[c].after \in Nat
      /\ DOMAIN logs = 1 .. Len(logs) /\ DOMAIN changes = 1 .. Len(changes)
      /\ Len(logs) \in Nat /\ Len(changes) \in Nat
  BY <1>0, <1>a, <1>b
<1>2. ASSUME UNCHANGED <<logs, changes>> PROVE CommitsAreOrdered'
  BY <1>2 DEF CommitsAreOrdered
<1>3. ASSUME NEW t \in Threads, CommitLog(t) PROVE CommitsAreOrdered'
  <2> DEFINE log == [work[t].log EXCEPT !.after = Len(changes)]
  <2>1. work[t].log \in ExecutionLog /\ logs' = Append(logs, log) /\ changes' = changes
    BY <1>3, Works DEF CommitLog
  <2>2. log \in ExecutionLog /\ log.after = Len(changes)
    BY ONLY <1>1, <2>1 DEF ExecutionLog
  <2> HIDE DEF log
  <2>3. /\ DOMAIN logs' = 1 .. (Len(logs) + 1) /\ Len(logs') = Len(logs) + 1
        /\ \A i \in DOMAIN logs : logs'[i] = logs[i]
        /\ logs'[Len(logs) + 1] = log
    BY <1>1, <2>1, <2>2, Places
  <2>4. \A i \in DOMAIN logs' : logs'[i].after <= Len(changes)
    BY <1>1, <2>2, <2>3 DEF CommitsAreOrdered
  <2>5. ASSUME NEW c \in DOMAIN changes
        PROVE  changes[c].after <= Len(logs') /\ \A i \in 1 .. changes[c].after : logs'[i].after < c
    BY <1>1, <2>3 DEF CommitsAreOrdered
  <2> QED BY <2>1, <2>4, <2>5 DEF CommitsAreOrdered
<1>4. ASSUME NEW t \in Threads, CommitChange(t) PROVE CommitsAreOrdered'
  <2> DEFINE change == [work[t].change EXCEPT !.after = Len(logs)]
  <2>1. work[t].change \in PlanRuleChange /\ changes' = Append(changes, change) /\ logs' = logs
    BY <1>4, Works DEF CommitChange
  <2>2. change \in PlanRuleChange /\ change.after = Len(logs)
    BY ONLY <1>1, <2>1 DEF PlanRuleChange
  <2> HIDE DEF change
  <2>3. /\ DOMAIN changes' = 1 .. (Len(changes) + 1) /\ Len(changes') = Len(changes) + 1
        /\ \A c \in DOMAIN changes : changes'[c] = changes[c]
        /\ changes'[Len(changes) + 1] = change
    BY <1>1, <2>1, <2>2, Places
  <2>4. ASSUME NEW c \in DOMAIN changes'
        PROVE  changes'[c].after <= Len(logs) /\ \A i \in 1 .. changes'[c].after : logs[i].after < c
    BY <1>1, <2>2, <2>3 DEF CommitsAreOrdered
  <2>5. \A i \in DOMAIN logs : logs[i].after <= Len(changes')
    BY <1>1, <2>3 DEF CommitsAreOrdered
  <2> QED BY <2>1, <2>4, <2>5 DEF CommitsAreOrdered
<1>5. ASSUME NEW i \in DOMAIN logs, End(i) PROVE CommitsAreOrdered'
  <2>1. /\ DOMAIN logs' = DOMAIN logs /\ Len(logs') = Len(logs) /\ changes' = changes
        /\ \A k \in DOMAIN logs : logs'[k] = IF k = i THEN [logs[i] EXCEPT !.over = TRUE] ELSE logs[k]
    BY <1>1, <1>5 DEF End
  <2>2. \A k \in DOMAIN logs : logs[k] \in ExecutionLog
    BY <1>1
  <2>3. \A k \in DOMAIN logs : logs'[k].after = logs[k].after
    BY ONLY <2>1, <2>2 DEF ExecutionLog
  <2> QED BY <1>1, <2>1, <2>3 DEF CommitsAreOrdered
<1>6. (\E t \in Threads, x \in Tasks, day \in Days, over \in BOOLEAN : CheckLog(t, x, day, over))
        => UNCHANGED <<logs, changes>>
  BY DEF CheckLog
<1>7. (\E t \in Threads : \E i, j \in DOMAIN logs : CheckChange(t, i, j)) => UNCHANGED <<logs, changes>>
  BY DEF CheckChange
<1>8. PlanStep \/ (\E t \in Threads : CrashWork(t)) \/ (\E x \in Tasks : DeleteTask(x))
        => UNCHANGED <<logs, changes>>
  BY DEF PlanStep, CrashWork, DeleteTask
<1> QED BY <1>2, <1>3, <1>4, <1>5, <1>6, <1>7, <1>8 DEF StudyNext, StudyStep

LEMMA StepStudy == ASSUME StudyIInv, [StudyNext]_<<pvars, svars>> PROVE StudyIInv'
<1>1. CASE UNCHANGED <<pvars, svars>>
  BY <1>1 DEF pvars, svars, StudyIInv, IInv, TypeOK, RevisionsAreGapless, RevisionsHoldWhatTheyReplaced,
              EditsCount, LocksHold, StudyTypeOK, Order, CitationsAreGood, GoodCitations, RecordsWait,
              ChangesAreEarly, FallsOn, FromDayThree, CommitsAreOrdered
<1>2. CASE StudyNext
  <2>1. IInv'
    <3>1. [Next]_pvars
      BY <1>2 DEF StudyNext, PlanStep, Next
    <3> QED BY <3>1, StepIInv DEF StudyIInv
  <2>2. StudyTypeOK' /\ RecordsStay
    BY <1>2, <2>1, StudyTypesStay DEF StudyIInv, IInv
  <2>c. CommitsAreOrdered'
    BY <1>2, <2>2, CommitsStayOrdered DEF StudyIInv
  <2>3. CASE PlanStep
    BY <2>1, <2>2, <2>c, <2>3, PlanStepOrder DEF StudyIInv
  <2>4. CASE StudyStep /\ UNCHANGED pvars
    <3>1. CASE moved'
      BY <2>1, <2>2, <2>c, <3>1 DEF StudyIInv, Order
    <3>2. CASE ~moved'
      <4>1. ~moved /\ plan' = plan
        <5>1. \A t \in Threads, x \in Tasks, day \in Days, over \in BOOLEAN :
                CheckLog(t, x, day, over) => moved' = moved
          BY DEF CheckLog
        <5>2. \A t \in Threads, i, j \in DOMAIN logs : CheckChange(t, i, j) => moved' = moved
          BY DEF CheckChange
        <5>3. \A t \in Threads : CommitLog(t) \/ CommitChange(t) \/ CrashWork(t) => moved' = moved
          BY DEF CommitLog, CommitChange, CrashWork
        <5>4. (\E x \in Tasks : DeleteTask(x)) \/ (\E i \in DOMAIN logs : End(i)) => moved' = moved
          BY DEF DeleteTask, End
        <5>5. moved' = moved
          BY <2>4, <5>1, <5>2, <5>3, <5>4 DEF StudyStep
        <5> QED BY <2>4, <3>2, <5>5 DEF pvars
      <4>2. ASSUME NEW t \in Threads, CrashWork(t) PROVE Order'
        <5>1. work' = [work EXCEPT ![t] = Idle] /\ UNCHANGED <<logs, changes>> /\ StudyTypeOK
          BY <4>2 DEF CrashWork, StudyIInv
        <5>2. \A u \in Threads : work'[u] = work[u] \/ work'[u] = Idle
          BY <5>1 DEF StudyTypeOK
        <5> QED BY <2>2, <4>1, <5>1, <5>2, OrderKept
      <4>3. ASSUME NEW x \in Tasks, DeleteTask(x) PROVE Order'
        BY <2>2, <4>1, <4>3, OrderKept DEF DeleteTask
      <4>4. ASSUME NEW i \in DOMAIN logs, End(i) PROVE Order'
        <5>1. Len(logs') = Len(logs) /\ UNCHANGED <<changes, work>>
          BY <4>4 DEF End, StudyIInv, StudyTypeOK
        <5> QED BY <2>2, <4>1, <5>1, OrderKept
      <4>5. Order'
        BY <2>2, <2>4, <4>1, <4>2, <4>3, <4>4, CheckLogOrder, CommitLogOrder, CheckChangeOrder,
           CommitChangeOrder DEF StudyStep
      <4> QED BY <2>1, <2>2, <2>c, <4>5 DEF StudyIInv
    <3> QED BY <3>1, <3>2
  <2> QED BY <1>2, <2>3, <2>4 DEF StudyNext
<1> QED BY <1>1, <1>2

LEMMA StudyInvariance == StudySpec => []StudyIInv
  BY InitStudy, StepStudy, PTL DEF StudySpec

\* The rows of the study keep their types beside those of Plans.
THEOREM StudyTypes == StudySpec => []StudyTypeOK
<1>1. StudyIInv => StudyTypeOK
  BY DEF StudyIInv
<1> QED BY <1>1, StudyInvariance, PTL

\* The order the study protocol asks for (create_rule_change, blocks_execution):
\* a record of day 3 comes after a rule change, a rule change after the records
\* of days 1 and 2 it cites, whatever requests race, as long as nobody moves the
\* first day.
THEOREM TheStudyIsInOrder == StudySpec => []StudyKeepsItsOrder
<1>1. ASSUME StudyIInv PROVE StudyKeepsItsOrder
  BY <1>1 DEF StudyIInv, Order, CitationsAreGood, RecordsWait, GoodCitations, StudyKeepsItsOrder
<1> QED BY <1>1, StudyInvariance, PTL

\* No rule change comes after a record of day 3 (_day_three_record), unless the
\* record was hidden or committed beside it; and the first one of the observed plan
\* never does, because a record before it has seen no change and is of no late day.
THEOREM ChangesComeBeforeDayThree == StudySpec => []NoChangeAfterDayThree
<1>1. ASSUME StudyIInv, ~moved, Observed, changes # <<>>, NEW i \in 1 .. changes[1].after
      PROVE  ~FromDayThree(logs[i])
  <2>1. /\ changes \in Seq(PlanRuleChange) /\ logs \in Seq(ExecutionLog)
        /\ RecordsWait /\ CommitsAreOrdered
    BY <1>1 DEF StudyIInv, StudyTypeOK, Order
  <2>2. 1 \in DOMAIN changes /\ changes[1] \in PlanRuleChange
    BY <1>1, <2>1
  <2>3. changes[1].after <= Len(logs) /\ logs[i].after < 1
    BY <2>1, <2>2 DEF CommitsAreOrdered
  <2>4. i \in DOMAIN logs
    BY <2>1, <2>2, <2>3 DEF PlanRuleChange
  <2>5. logs[i].after \in Nat
    <3>1. logs[i] \in ExecutionLog
      BY <2>1, <2>4
    <3> QED BY ONLY <3>1 DEF ExecutionLog
  <2> QED BY <1>1, <2>1, <2>3, <2>4, <2>5 DEF RecordsWait
<1>2. StudyIInv => NoChangeAfterDayThree
  BY <1>1 DEF StudyIInv, Order, ChangesAreEarly, NoChangeAfterDayThree
<1> QED BY <1>2, StudyInvariance, PTL

-----------------------------------------------------------------------------
(* Sums over finite sets.  The library's induction theorems ask for an        *)
(* operator; here the induction is on a set of numbers or of sets instead,    *)
(* from the least element that is missing.                                    *)

LEMMA LeastNumber ==
    ASSUME NEW T \in SUBSET Nat, T # {}
    PROVE  \E n \in T : \A m \in T : ~(m < n)
<1>1. PICK n \in T : \A m \in T : ~(<<m, n>> \in OpToRel(<, Nat))
  <2>1. \E n \in T : \A m \in T : ~(<<m, n>> \in OpToRel(<, Nat))
    BY NatLessThanWellFounded, WFMin
  <2> QED BY ONLY <2>1, Zenon
<1>2. ASSUME NEW m \in T PROVE ~(m < n)
  <2>1. <<m, n>> \in Nat \X Nat /\ ~(<<m, n>> \in OpToRel(<, Nat))
    BY <1>1, Zenon
  <2>2. ~(<<m, n>>[1] < <<m, n>>[2])
    BY <2>1, Zenon DEF OpToRel
  <2> QED BY <2>2
<1> QED BY <1>2

LEMMA NumbersByInduction ==
    ASSUME NEW G \in SUBSET Nat, 0 \in G, \A n \in G : n + 1 \in G
    PROVE  G = Nat
<1> SUFFICES ASSUME Nat \ G # {} PROVE FALSE
  OBVIOUS
<1>1. PICK n \in Nat \ G : \A m \in Nat \ G : ~(m < n)
  <2>1. Nat \ G \in SUBSET Nat
    OBVIOUS
  <2> QED BY <2>1, LeastNumber
<1>2. n - 1 \in Nat /\ n - 1 \in G
  BY <1>1
<1> QED BY <1>1, <1>2

LEMMA SubsetsByInduction ==
    ASSUME NEW T, IsFiniteSet(T), NEW G \in SUBSET SUBSET T, {} \in G,
           \A S \in SUBSET T : S # {} /\ (\A x \in S : S \ {x} \in G) => S \in G
    PROVE  \A S \in SUBSET T : S \in G
<1> DEFINE Missing == (SUBSET T) \ G
<1> SUFFICES ASSUME Missing # {} PROVE FALSE
  OBVIOUS
<1>1. IsWellFoundedOn(StrictSubsetOrdering(T), SUBSET T)
  <2>1. FiniteSubsetsOf(T) = SUBSET T
    BY FS_FiniteSubsetsOfFinite
  <2>2. IsWellFoundedOn(StrictSubsetOrdering(T), FiniteSubsetsOf(T))
    BY FS_StrictSubsetOrderingWellFounded
  <2> QED BY ONLY <2>1, <2>2, Zenon
<1>2. PICK S \in Missing : \A U \in Missing : ~(<<U, S>> \in StrictSubsetOrdering(T))
  <2>1. Missing \subseteq SUBSET T
    OBVIOUS
  <2> HIDE DEF Missing
  <2> QED BY <1>1, <2>1, WFMin
<1>3. ASSUME NEW x \in S PROVE S \ {x} \in G
  <2>1. S \ {x} \in SUBSET T /\ S \ {x} \subseteq S /\ S \ {x} # S
    OBVIOUS
  <2>2. <<S \ {x}, S>> \in (SUBSET T) \X (SUBSET T)
    BY <2>1
  <2>3. <<S \ {x}, S>> \in StrictSubsetOrdering(T)
    BY <2>1, <2>2 DEF StrictSubsetOrdering
  <2> QED BY <1>2, <2>1, <2>3
<1> QED BY <1>3

\* The table a fold works with: the sum of F over each subset of S.
IsSumTable(h, F, S) ==
    h = [U \in SUBSET S |->
           IF U = {} THEN 0 ELSE F[CHOOSE x \in U : TRUE] + h[U \ {CHOOSE x \in U : TRUE}]]

LEMMA SumIsFromATable ==
    ASSUME NEW F, NEW S
    PROVE  SumFunctionOnSet(F, S) = (CHOOSE h : IsSumTable(h, F, S))[S]
  BY DEF SumFunctionOnSet, FoldFunctionOnSet, MapThenFoldSet, IsSumTable

LEMMA SumTableExists ==
    ASSUME NEW T, IsFiniteSet(T), NEW F \in [T -> Nat]
    PROVE  \E h \in [SUBSET T -> Nat] : IsSumTable(h, F, T)
<1> DEFINE Value(h, U) ==
             IF U = {} THEN 0 ELSE F[CHOOSE x \in U : TRUE] + h[U \ {CHOOSE x \in U : TRUE}]
           UpTo(h, n) == \A U \in SUBSET T : Cardinality(U) <= n => h[U] = Value(h, U)
           G == {n \in Nat : \E h \in [SUBSET T -> Nat] : UpTo(h, n)}
<1>1. \A U \in SUBSET T : U # {} =>
         /\ (CHOOSE x \in U : TRUE) \in U
         /\ U \ {CHOOSE x \in U : TRUE} \in SUBSET T
         /\ Cardinality(U) \in Nat
         /\ Cardinality(U \ {CHOOSE x \in U : TRUE}) = Cardinality(U) - 1
  <2> SUFFICES ASSUME NEW U \in SUBSET T, U # {}
               PROVE  /\ (CHOOSE x \in U : TRUE) \in U
                      /\ U \ {CHOOSE x \in U : TRUE} \in SUBSET T
                      /\ Cardinality(U) \in Nat
                      /\ Cardinality(U \ {CHOOSE x \in U : TRUE}) = Cardinality(U) - 1
    OBVIOUS
  <2>1. IsFiniteSet(U)
    BY FS_Subset
  <2>2. (CHOOSE x \in U : TRUE) \in U
    OBVIOUS
  <2> QED BY <2>1, <2>2, FS_CardinalityType, FS_RemoveElement
<1>2. \A h \in [SUBSET T -> Nat], U \in SUBSET T : Value(h, U) \in Nat
  <2> SUFFICES ASSUME NEW h \in [SUBSET T -> Nat], NEW U \in SUBSET T, U # {}
               PROVE  F[CHOOSE x \in U : TRUE] + h[U \ {CHOOSE x \in U : TRUE}] \in Nat
    OBVIOUS
  <2>1. F[CHOOSE x \in U : TRUE] \in Nat /\ h[U \ {CHOOSE x \in U : TRUE}] \in Nat
    BY <1>1
  <2> QED BY <2>1
<1>3. 0 \in G
  <2> DEFINE h == [U \in SUBSET T |-> 0]
  <2>1. \A U \in SUBSET T : Cardinality(U) <= 0 => U = {}
    BY FS_Subset, FS_EmptySet, FS_CardinalityType
  <2>2. UpTo(h, 0)
    BY <2>1
  <2>3. h \in [SUBSET T -> Nat]
    OBVIOUS
  <2> QED BY <2>2, <2>3
<1>4. \A n \in G : n + 1 \in G
  <2> SUFFICES ASSUME NEW n \in G PROVE n + 1 \in G
    OBVIOUS
  <2>1. PICK h \in [SUBSET T -> Nat] : UpTo(h, n)
    OBVIOUS
  <2> DEFINE g == [U \in SUBSET T |-> Value(h, U)]
  <2>2. g \in [SUBSET T -> Nat]
    BY <1>2
  <2>3. ASSUME NEW U \in SUBSET T, Cardinality(U) <= n + 1 PROVE g[U] = Value(g, U)
    <3>1. CASE U = {}
      BY <3>1
    <3>2. CASE U # {}
      <4> DEFINE V == U \ {CHOOSE x \in U : TRUE}
      <4>1. V \in SUBSET T /\ Cardinality(V) <= n
        BY <1>1, <2>3, <3>2
      <4>2. g[V] = Value(h, V) /\ h[V] = Value(h, V)
        BY <2>1, <4>1
      <4>3. g[U] = F[CHOOSE x \in U : TRUE] + h[V]
        BY <3>2
      <4> HIDE DEF g
      <4> QED BY <3>2, <4>2, <4>3
    <3> QED BY <3>1, <3>2
  <2>4. UpTo(g, n + 1)
    BY <2>3
  <2> HIDE DEF g, UpTo
  <2> QED BY <2>2, <2>4
<1> HIDE DEF G
<1>5. G = Nat
  <2>1. G \in SUBSET Nat
    BY DEF G
  <2> QED BY <1>3, <1>4, <2>1, NumbersByInduction
<1>6. Cardinality(T) \in G
  BY <1>5, FS_CardinalityType
<1>7. PICK h \in [SUBSET T -> Nat] : UpTo(h, Cardinality(T))
  BY <1>6 DEF G
<1>8. \A U \in SUBSET T : h[U] = Value(h, U)
  BY <1>7, FS_Subset
<1>9. IsSumTable(h, F, T)
  BY <1>7, <1>8 DEF IsSumTable
<1> QED BY <1>9

\* The sum over a subset is in the table of the whole set.
LEMMA SumIsInTheTable ==
    ASSUME NEW T, IsFiniteSet(T), NEW F \in [T -> Nat], NEW h \in [SUBSET T -> Nat],
           IsSumTable(h, F, T), NEW S \in SUBSET T
    PROVE  SumFunctionOnSet(F, S) = h[S]
<1> DEFINE g == [U \in SUBSET S |-> h[U]]
           k == CHOOSE i : IsSumTable(i, F, S)
           G == {U \in SUBSET S : k[U] = h[U]}
<1>1. \A U \in SUBSET T :
        h[U] = IF U = {} THEN 0 ELSE F[CHOOSE x \in U : TRUE] + h[U \ {CHOOSE x \in U : TRUE}]
  BY DEF IsSumTable
<1>2. \A U \in SUBSET S : U \in SUBSET T /\ U \ {CHOOSE x \in U : TRUE} \in SUBSET S
  OBVIOUS
<1>3. IsSumTable(g, F, S)
  <2>1. \A U \in SUBSET S :
          g[U] = IF U = {} THEN 0 ELSE F[CHOOSE x \in U : TRUE] + g[U \ {CHOOSE x \in U : TRUE}]
    BY <1>1, <1>2
  <2>2. g = [U \in SUBSET S |-> g[U]]
    OBVIOUS
  <2> HIDE DEF g
  <2> QED BY <2>1, <2>2 DEF IsSumTable
<1>4. IsSumTable(k, F, S)
  BY <1>3
<1> HIDE DEF k
<1>5. \A U \in SUBSET S :
        k[U] = IF U = {} THEN 0 ELSE F[CHOOSE x \in U : TRUE] + k[U \ {CHOOSE x \in U : TRUE}]
  BY <1>4 DEF IsSumTable
<1>6. \A U \in SUBSET S : U \in G
  <2>1. G \in SUBSET SUBSET S /\ IsFiniteSet(S)
    BY FS_Subset
  <2>2. {} \in G
    BY <1>1, <1>5
  <2>3. ASSUME NEW U \in SUBSET S, U # {}, \A x \in U : U \ {x} \in G PROVE U \in G
    <3> DEFINE c == CHOOSE x \in U : TRUE
    <3>1. c \in U
      BY <2>3
    <3>2. k[U \ {c}] = h[U \ {c}]
      BY <2>3, <3>1
    <3>3. h[U] = F[c] + h[U \ {c}] /\ k[U] = F[c] + k[U \ {c}]
      BY <1>1, <1>2, <1>5, <2>3
    <3> QED BY <3>2, <3>3
  <2> HIDE DEF G
  <2> QED BY <2>1, <2>2, <2>3, SubsetsByInduction
<1> QED BY <1>6, SumIsFromATable DEF k

\* A sum over nothing is nothing, and any element may be taken out first.
LEMMA SumTakesOutAny ==
    ASSUME NEW T, IsFiniteSet(T), NEW F \in [T -> Nat]
    PROVE  /\ SumFunctionOnSet(F, {}) = 0
           /\ \A S \in SUBSET T :
                /\ SumFunctionOnSet(F, S) \in Nat
                /\ \A x \in S : SumFunctionOnSet(F, S) = F[x] + SumFunctionOnSet(F, S \ {x})
<1>1. PICK h \in [SUBSET T -> Nat] : IsSumTable(h, F, T)
  BY SumTableExists
<1>2. \A S \in SUBSET T : SumFunctionOnSet(F, S) = h[S]
  BY <1>1, SumIsInTheTable
<1>3. \A S \in SUBSET T :
        h[S] = IF S = {} THEN 0 ELSE F[CHOOSE x \in S : TRUE] + h[S \ {CHOOSE x \in S : TRUE}]
  BY <1>1 DEF IsSumTable
<1> DEFINE G == {S \in SUBSET T : \A x \in S : h[S] = F[x] + h[S \ {x}]}
<1>4. \A S \in SUBSET T : S \in G
  <2>1. G \in SUBSET SUBSET T /\ {} \in G
    OBVIOUS
  <2>2. ASSUME NEW S \in SUBSET T, S # {}, \A x \in S : S \ {x} \in G PROVE S \in G
    <3> SUFFICES ASSUME NEW x \in S PROVE h[S] = F[x] + h[S \ {x}]
      OBVIOUS
    <3> DEFINE c == CHOOSE y \in S : TRUE
    <3>1. c \in S /\ h[S] = F[c] + h[S \ {c}]
      BY <1>3, <2>2
    <3> HIDE DEF c
    <3>2. CASE x = c
      BY <3>1, <3>2
    <3>3. CASE x # c
      <4>1. h[S \ {c}] = F[x] + h[(S \ {c}) \ {x}]
        BY <2>2, <3>1, <3>3
      <4>2. h[S \ {x}] = F[c] + h[(S \ {x}) \ {c}]
        BY <2>2, <3>1, <3>3
      <4>3. (S \ {c}) \ {x} = (S \ {x}) \ {c} /\ (S \ {x}) \ {c} \in SUBSET T
        OBVIOUS
      <4>4. F[x] \in Nat /\ F[c] \in Nat /\ h[(S \ {x}) \ {c}] \in Nat
        BY <3>1, <4>3
      <4>5. h[S] = F[c] + (F[x] + h[(S \ {x}) \ {c}])
        BY ONLY <3>1, <4>1, <4>3
      <4> QED BY ONLY <4>2, <4>4, <4>5
    <3> QED BY <3>2, <3>3
  <2> HIDE DEF G
  <2> QED BY <2>1, <2>2, SubsetsByInduction
<1>5. \A S \in SUBSET T : \A x \in S : S \ {x} \in SUBSET T
  OBVIOUS
<1>6. h[{}] = 0
  BY <1>3
<1> QED BY <1>2, <1>4, <1>5, <1>6

LEMMA SumOfParts ==
    ASSUME NEW T, IsFiniteSet(T), NEW F \in [T -> Nat],
           NEW S \in SUBSET T, NEW R \in SUBSET T, S \cap R = {}
    PROVE  SumFunctionOnSet(F, S \cup R) = SumFunctionOnSet(F, S) + SumFunctionOnSet(F, R)
<1> DEFINE Sum(U) == SumFunctionOnSet(F, U)
           G == {U \in SUBSET S : Sum(U \cup R) = Sum(U) + Sum(R)}
<1>1. /\ Sum({}) = 0
      /\ \A U \in SUBSET T : Sum(U) \in Nat /\ \A x \in U : Sum(U) = F[x] + Sum(U \ {x})
  BY SumTakesOutAny
<1> HIDE DEF Sum
<1>2. \A U \in SUBSET S : U \in G
  <2>1. G \in SUBSET SUBSET S /\ IsFiniteSet(S)
    BY FS_Subset
  <2>2. {} \in G
    <3>1. {} \cup R = R
      OBVIOUS
    <3> QED BY <1>1, <3>1
  <2>3. ASSUME NEW U \in SUBSET S, U # {}, \A x \in U : U \ {x} \in G PROVE U \in G
    <3>1. PICK x \in U : TRUE
      BY <2>3
    <3>2. (U \cup R) \ {x} = (U \ {x}) \cup R /\ U \cup R \in SUBSET T /\ U \in SUBSET T /\ U \ {x} \in SUBSET T
      OBVIOUS
    <3>3. Sum(U \cup R) = F[x] + Sum((U \ {x}) \cup R) /\ Sum(U) = F[x] + Sum(U \ {x})
      BY <1>1, <3>2
    <3>4. Sum((U \ {x}) \cup R) = Sum(U \ {x}) + Sum(R)
      BY <2>3
    <3>5. F[x] \in Nat /\ Sum(U \ {x}) \in Nat /\ Sum(R) \in Nat
      BY <1>1, <3>2
    <3> QED BY <3>3, <3>4, <3>5
  <2> HIDE DEF G
  <2> QED BY <2>1, <2>2, <2>3, SubsetsByInduction
<1> QED BY <1>2 DEF Sum

LEMMA DisjointSetsAddUp ==
    ASSUME NEW P, NEW Q, IsFiniteSet(P), IsFiniteSet(Q), P \cap Q = {}
    PROVE  Cardinality(P \cup Q) = Cardinality(P) + Cardinality(Q)
<1>1. Cardinality(P \cap Q) = 0
  BY FS_EmptySet, Zenon
<1>2. Cardinality(P) \in Nat /\ Cardinality(Q) \in Nat
  BY FS_CardinalityType
<1>3. Cardinality(P \cup Q) = Cardinality(P) + Cardinality(Q) - Cardinality(P \cap Q)
  BY FS_Union
<1> QED BY <1>1, <1>2, <1>3

\* Adding up, over some days, how much there is of each day counts what falls on
\* those days.
LEMMA SumIsACount ==
    ASSUME NEW T, IsFiniteSet(T), NEW A, IsFiniteSet(A), NEW f \in [A -> T], NEW n \in Nat,
           NEW F \in [T -> Nat], \A d \in T : F[d] = n * Cardinality({a \in A : f[a] = d})
    PROVE  \A S \in SUBSET T : SumFunctionOnSet(F, S) = n * Cardinality({a \in A : f[a] \in S})
<1> DEFINE On(S) == {a \in A : f[a] \in S}
           Sum(S) == SumFunctionOnSet(F, S)
           G == {S \in SUBSET T : Sum(S) = n * Cardinality(On(S))}
<1>1. \A S : IsFiniteSet(On(S)) /\ Cardinality(On(S)) \in Nat
  <2>1. \A S : On(S) \in SUBSET A
    OBVIOUS
  <2> QED BY <2>1, FS_Subset, FS_CardinalityType
<1>2. \A d \in T : {a \in A : f[a] = d} = On({d})
  OBVIOUS
<1>3. \A d \in T : F[d] = n * Cardinality(On({d}))
  BY <1>2
<1>4. /\ Sum({}) = 0
      /\ \A S \in SUBSET T : Sum(S) \in Nat /\ \A x \in S : Sum(S) = F[x] + Sum(S \ {x})
  BY SumTakesOutAny
<1>5. \A S \in SUBSET T : \A x \in S : Cardinality(On(S)) = Cardinality(On({x})) + Cardinality(On(S \ {x}))
  <2> SUFFICES ASSUME NEW S \in SUBSET T, NEW x \in S
               PROVE  Cardinality(On(S)) = Cardinality(On({x})) + Cardinality(On(S \ {x}))
    OBVIOUS
  <2>1. On(S) = On({x}) \cup On(S \ {x}) /\ On({x}) \cap On(S \ {x}) = {}
    OBVIOUS
  <2>2. \A P, Q : IsFiniteSet(P) /\ IsFiniteSet(Q) /\ P \cap Q = {} =>
                     Cardinality(P \cup Q) = Cardinality(P) + Cardinality(Q)
    BY DisjointSetsAddUp
  <2> HIDE DEF On
  <2> QED BY <1>1, <2>1, <2>2, Zenon
<1>6. On({}) = {}
  OBVIOUS
<1> HIDE DEF On, Sum
<1>7. \A S \in SUBSET T : S \in G
  <2>1. G \in SUBSET SUBSET T
    OBVIOUS
  <2>2. {} \in G
    <3>1. Cardinality(On({})) = 0
      BY <1>6, FS_EmptySet, Zenon
    <3>2. n * 0 = 0
      OBVIOUS
    <3> QED BY <1>4, <3>1, <3>2
  <2>3. ASSUME NEW S \in SUBSET T, S # {}, \A x \in S : S \ {x} \in G PROVE S \in G
    <3>1. PICK x \in S : TRUE
      BY <2>3
    <3>2. Sum(S) = F[x] + Sum(S \ {x})
      BY <1>4
    <3>3. Sum(S \ {x}) = n * Cardinality(On(S \ {x})) /\ F[x] = n * Cardinality(On({x}))
      BY <1>3, <2>3
    <3>4. \A i, j \in Nat : n * i + n * j = n * (i + j)
      OBVIOUS
    <3>5. Sum(S) = n * (Cardinality(On({x})) + Cardinality(On(S \ {x})))
      BY <1>1, <3>2, <3>3, <3>4
    <3> QED BY <1>5, <3>5
  <2> HIDE DEF G
  <2> QED BY <2>1, <2>2, <2>3, SubsetsByInduction
<1> QED BY <1>7 DEF On, Sum

-----------------------------------------------------------------------------
(* The reports.                                                             *)

\* What daily_series and summarize work on is finite and of the right types.
LEMMA RowsOfTheReports ==
    ASSUME StudyTypeOK
    PROVE  /\ IsFiniteSet(Days) /\ IsFiniteSet(Visible) /\ Visible \subseteq DOMAIN logs
           /\ IsFiniteSet(DOMAIN logs)
           /\ \A i \in DOMAIN logs : logs[i].day \in Days /\ logs[i].task \in Tasks
           /\ Tasks \subseteq Days /\ IsFiniteSet(Tasks \ deleted)
           /\ Estimate \in Nat /\ Minutes \in Nat
<1>1. MaxDay \in Nat /\ Tasks \subseteq Days /\ Estimate \in Nat /\ Minutes \in Nat
  BY StudyAssumption
<1>2. logs \in Seq(ExecutionLog) /\ Len(logs) \in Nat /\ DOMAIN logs = 1 .. Len(logs)
  BY DEF StudyTypeOK
<1>3. \A i \in DOMAIN logs : logs[i] \in ExecutionLog
  BY <1>2
<1>4. IsFiniteSet(Days) /\ IsFiniteSet(DOMAIN logs)
  BY <1>1, <1>2, FS_Interval DEF Days
<1>5. IsFiniteSet(Visible) /\ IsFiniteSet(Tasks \ deleted)
  <2>1. Visible \in SUBSET DOMAIN logs /\ Tasks \ deleted \in SUBSET Days
    BY <1>1 DEF Visible
  <2> QED BY <1>4, <2>1, FS_Subset
<1> QED BY <1>1, <1>3, <1>4, <1>5 DEF ExecutionLog, Visible

\* The totals over some days count the tasks due on them and the records made on
\* them.
LEMMA TotalsOfDays ==
    ASSUME StudyTypeOK
    PROVE  /\ Planned \in [Days -> Nat] /\ Actual \in [Days -> Nat]
           /\ \A S \in SUBSET Days :
                /\ SumFunctionOnSet(Planned, S) = Estimate * Cardinality({x \in Tasks \ deleted : x \in S})
                /\ SumFunctionOnSet(Actual, S) = Minutes * Cardinality({i \in Visible : logs[i].day \in S})
<1>1. /\ IsFiniteSet(Days) /\ IsFiniteSet(Visible) /\ IsFiniteSet(Tasks \ deleted)
      /\ \A i \in Visible : logs[i].day \in Days
      /\ Tasks \subseteq Days /\ Estimate \in Nat /\ Minutes \in Nat
  BY RowsOfTheReports
<1>2. \A m, n \in Nat : m * n \in Nat
  OBVIOUS
<1>3. Planned \in [Days -> Nat]
  <2>1. \A d \in Days : Cardinality({x \in Tasks \ deleted : x = d}) \in Nat
    <3>1. \A d \in Days : {x \in Tasks \ deleted : x = d} \in SUBSET (Tasks \ deleted)
      OBVIOUS
    <3> QED BY <1>1, <3>1, FS_Subset, FS_CardinalityType
  <2> QED BY <1>1, <1>2, <2>1 DEF Planned
<1>4. Actual \in [Days -> Nat]
  <2>1. \A d \in Days : Cardinality({i \in Visible : logs[i].day = d}) \in Nat
    <3>1. \A d \in Days : {i \in Visible : logs[i].day = d} \in SUBSET Visible
      OBVIOUS
    <3> QED BY <1>1, <3>1, FS_Subset, FS_CardinalityType
  <2> QED BY <1>1, <1>2, <2>1 DEF Actual
<1>5. ASSUME NEW S \in SUBSET Days
      PROVE  SumFunctionOnSet(Planned, S) = Estimate * Cardinality({x \in Tasks \ deleted : x \in S})
  <2> DEFINE f == [x \in Tasks \ deleted |-> x]
  <2>1. f \in [Tasks \ deleted -> Days] /\ \A x \in Tasks \ deleted : f[x] = x
    BY <1>1
  <2> HIDE DEF f
  <2>2. \A d \in Days : {x \in Tasks \ deleted : f[x] = d} = {x \in Tasks \ deleted : x = d}
    BY <2>1
  <2>3. \A d \in Days : Planned[d] = Estimate * Cardinality({x \in Tasks \ deleted : f[x] = d})
    BY <2>2 DEF Planned
  <2>4. SumFunctionOnSet(Planned, S) = Estimate * Cardinality({x \in Tasks \ deleted : f[x] \in S})
    <3>1. /\ IsFiniteSet(Days) /\ IsFiniteSet(Tasks \ deleted) /\ Estimate \in Nat
          /\ Planned \in [Days -> Nat] /\ f \in [Tasks \ deleted -> Days] /\ S \in SUBSET Days
      BY <1>1, <1>3, <2>1
    <3> QED BY ONLY <3>1, <2>3, SumIsACount
  <2>5. {x \in Tasks \ deleted : f[x] \in S} = {x \in Tasks \ deleted : x \in S}
    BY <2>1
  <2> QED BY ONLY <2>4, <2>5, Zenon
<1>6. ASSUME NEW S \in SUBSET Days
      PROVE  SumFunctionOnSet(Actual, S) = Minutes * Cardinality({i \in Visible : logs[i].day \in S})
  <2> DEFINE f == [i \in Visible |-> logs[i].day]
  <2>1. f \in [Visible -> Days] /\ \A i \in Visible : f[i] = logs[i].day
    BY <1>1
  <2> HIDE DEF f
  <2>2. \A d \in Days : {i \in Visible : f[i] = d} = {i \in Visible : logs[i].day = d}
    BY <2>1
  <2>3. \A d \in Days : Actual[d] = Minutes * Cardinality({i \in Visible : f[i] = d})
    BY <2>2 DEF Actual
  <2>4. SumFunctionOnSet(Actual, S) = Minutes * Cardinality({i \in Visible : f[i] \in S})
    BY <1>1, <1>4, <2>1, <2>3, SumIsACount
  <2>5. {i \in Visible : f[i] \in S} = {i \in Visible : logs[i].day \in S}
    BY <2>1
  <2> QED BY ONLY <2>4, <2>5, Zenon
<1> QED BY <1>3, <1>4, <1>5, <1>6

LEMMA TheTotalsAgree == ASSUME StudyTypeOK PROVE TotalsAgree
<1> DEFINE Due(first, last) == {x \in Tasks \ deleted : x \in first .. last}
           Of(first, last) == {i \in DOMAIN logs : logs[i].task \in Due(first, last)}
<1>1. /\ IsFiniteSet(DOMAIN logs) /\ Visible \subseteq DOMAIN logs /\ IsFiniteSet(Tasks \ deleted)
      /\ \A i \in DOMAIN logs : logs[i].day \in Days /\ logs[i].task \in Tasks
      /\ Tasks \subseteq Days /\ Estimate \in Nat /\ Minutes \in Nat /\ MaxDay \in Nat
  BY RowsOfTheReports, StudyAssumption
<1>2. Summary(Days).estimated = Aggregate(1, MaxDay).estimated
  <2>1. Summary(Days).estimated = Estimate * Cardinality({x \in Tasks \ deleted : x \in Days})
    BY TotalsOfDays DEF Summary
  <2> QED BY <2>1 DEF Aggregate, Days
<1>3. Summary(Days).actual = Aggregate(1, MaxDay).actual
  <2>1. Summary(Days).actual = Minutes * Cardinality({i \in Visible : logs[i].day \in Days})
    BY TotalsOfDays DEF Summary
  <2>2. {i \in Visible : logs[i].day \in Days} = Of(1, MaxDay)
    BY <1>1 DEF Visible, Days
  <2>3. Aggregate(1, MaxDay).actual = Minutes * Cardinality(Of(1, MaxDay))
    BY DEF Aggregate
  <2> HIDE DEF Of
  <2> QED BY ONLY <2>1, <2>2, <2>3, Zenon
<1>4. ASSUME NEW d \in Days
      PROVE  /\ Aggregate(1, d).actual + Aggregate(d + 1, MaxDay).actual = Aggregate(1, MaxDay).actual
             /\ Aggregate(1, d).tasks + Aggregate(d + 1, MaxDay).tasks = Aggregate(1, MaxDay).tasks
  <2>1. \A first, last : /\ Aggregate(first, last).tasks = Cardinality(Due(first, last))
                         /\ Aggregate(first, last).actual = Minutes * Cardinality(Of(first, last))
    BY DEF Aggregate
  <2>2. \A first, last : Due(first, last) \in SUBSET (Tasks \ deleted) /\ Of(first, last) \in SUBSET DOMAIN logs
    OBVIOUS
  <2>3. \A first, last : /\ IsFiniteSet(Due(first, last)) /\ IsFiniteSet(Of(first, last))
                         /\ Cardinality(Of(first, last)) \in Nat
    <3> HIDE DEF Due, Of
    <3> QED BY <1>1, <2>2, FS_Subset, FS_CardinalityType
  <2>4. /\ Due(1, d) \cup Due(d + 1, MaxDay) = Due(1, MaxDay)
        /\ Due(1, d) \cap Due(d + 1, MaxDay) = {}
    <3>1. d \in Nat /\ d <= MaxDay /\ 1 <= d /\ \A x \in Tasks : x \in Nat
      BY <1>1 DEF Days
    <3>2. \A x \in Tasks : /\ x \in 1 .. MaxDay <=> x \in 1 .. d \/ x \in d + 1 .. MaxDay
                          /\ ~ (x \in 1 .. d /\ x \in d + 1 .. MaxDay)
      BY <1>1, <3>1
    <3> QED BY ONLY <3>2
  <2>5. /\ Of(1, d) \cup Of(d + 1, MaxDay) = Of(1, MaxDay)
        /\ Of(1, d) \cap Of(d + 1, MaxDay) = {}
    BY <2>4
  <2> HIDE DEF Due, Of
  <2>6. /\ Cardinality(Due(1, MaxDay)) = Cardinality(Due(1, d)) + Cardinality(Due(d + 1, MaxDay))
        /\ Cardinality(Of(1, MaxDay)) = Cardinality(Of(1, d)) + Cardinality(Of(d + 1, MaxDay))
    BY <2>3, <2>4, <2>5, DisjointSetsAddUp
  <2>7. \A m, n \in Nat : Minutes * m + Minutes * n = Minutes * (m + n)
    BY <1>1
  <2>8. Minutes * Cardinality(Of(1, d)) + Minutes * Cardinality(Of(d + 1, MaxDay)) =
          Minutes * Cardinality(Of(1, MaxDay))
    BY ONLY <2>3, <2>6, <2>7
  <2> QED BY ONLY <2>1, <2>6, <2>8
<1> QED BY <1>2, <1>3, <1>4 DEF TotalsAgree

LEMMA TheHalvesAddUp == ASSUME StudyTypeOK PROVE HalvesAddUp
<1> DEFINE Missing(S) == {d \in S : Ratio(Planned[d], Actual[d]) = {}}
<1>1. /\ Planned \in [Days -> Nat] /\ Actual \in [Days -> Nat] /\ IsFiniteSet(Days)
  BY TotalsOfDays, RowsOfTheReports
<1>2. StudyDays \subseteq Days /\ \A d \in StudyDays : d \in Int
  BY StudyAssumption, PlansAssumption DEF StudyTypeOK, TypeOK, Plan, StudyDays, Dates, Days
<1>3. Before \in SUBSET Days /\ After \in SUBSET Days /\ StudyDays \in SUBSET Days
  BY <1>2 DEF Before, After
<1>4. Before \cup After = StudyDays /\ Before \cap After = {}
  <2>1. plan.start \in Int
    BY PlansAssumption DEF StudyTypeOK, TypeOK, Plan, Dates
  <2> QED BY <1>2, <2>1 DEF Before, After
<1>5. /\ SumFunctionOnSet(Planned, StudyDays) =
           SumFunctionOnSet(Planned, Before) + SumFunctionOnSet(Planned, After)
      /\ SumFunctionOnSet(Actual, StudyDays) =
           SumFunctionOnSet(Actual, Before) + SumFunctionOnSet(Actual, After)
  <2>1. \A F \in [Days -> Nat] : SumFunctionOnSet(F, Before \cup After) =
                                   SumFunctionOnSet(F, Before) + SumFunctionOnSet(F, After)
    BY <1>1, <1>3, <1>4, SumOfParts
  <2> QED BY <1>1, <1>4, <2>1
<1>6. Cardinality(StudyDays) = Cardinality(Before) + Cardinality(After)
  <2>1. IsFiniteSet(Before) /\ IsFiniteSet(After)
    BY <1>1, <1>3, FS_Subset
  <2> QED BY <1>4, <2>1, DisjointSetsAddUp
<1>7. Cardinality(Missing(StudyDays)) = Cardinality(Missing(Before)) + Cardinality(Missing(After))
  <2>1. Missing(Before) \in SUBSET Days /\ Missing(After) \in SUBSET Days
    BY <1>3
  <2>2. Missing(Before) \cup Missing(After) = Missing(StudyDays) /\ Missing(Before) \cap Missing(After) = {}
    BY <1>4
  <2> HIDE DEF Missing
  <2>3. IsFiniteSet(Missing(Before)) /\ IsFiniteSet(Missing(After))
    BY <1>1, <2>1, FS_Subset
  <2> QED BY <2>2, <2>3, DisjointSetsAddUp
<1>8. \A S : /\ Summary(S).days = Cardinality(S)
             /\ Summary(S).actual = SumFunctionOnSet(Actual, S)
             /\ Summary(S).estimated = SumFunctionOnSet(Planned, S)
             /\ Summary(S).withoutRatio = Cardinality(Missing(S))
  BY DEF Summary
<1> HIDE DEF Missing
<1> QED BY <1>5, <1>6, <1>7, <1>8 DEF HalvesAddUp

\* The two computations of a plan's totals, by day (daily_series, summarize) and
\* by task (aggregate_plan), agree in every state of a study, and reflections of
\* adjoining periods add up; and the days before and after a rule change
\* (comparison) are the study, each day once, with their minutes and the days
\* that have no ratio.
THEOREM ReportsOfAStudyAgree == StudySpec => []ReportsAgree
<1>1. StudyIInv => ReportsAgree
  BY TheTotalsAgree, TheHalvesAddUp DEF StudyIInv, ReportsAgree
<1> QED BY <1>1, StudyInvariance, PTL

=============================================================================
