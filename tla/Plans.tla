------------------------------- MODULE Plans -------------------------------
(***************************************************************************)
(* A plan, its revisions, its reflections and the plans that follow from   *)
(* them: services/plans.py, services/reflections.py and their handlers.    *)
(*                                                                         *)
(* An edit loads the plan, checks the dates against what it has loaded,    *)
(* counts the revisions, and then commits the plan and a revision of the   *)
(* plan as loaded, numbered by the count.  A request for the next plan     *)
(* loads the reflection, takes its row lock with an UPDATE that changes    *)
(* nothing, reads it again, and makes a plan unless one is there.          *)
(***************************************************************************)
EXTENDS Naturals, FiniteSets

CONSTANTS
    MaxDate,        \* bound: plans lie in 1 .. MaxDate
    Reflections,    \* the reflections of the plan
    PlanIds,        \* bound: the plans that may follow
    NoPlan,
    Threads,        \* the server's request threads
    MaxEdits        \* bound: edits that are let in

Dates == 1 .. MaxDate

ASSUME PlansAssumption ==
    /\ MaxDate \in Nat \ {0} /\ MaxEdits \in Nat
    /\ NoPlan \notin PlanIds

VARIABLES
    plan,       \* the plan's dates; version is history: how often it was written
    revisions,  \* plan_revisions: a function from the numbers in use
    next,       \* next_plan_id of each reflection
    made,       \* the plans that were inserted for each reflection
    req         \* what each thread is doing

pvars == <<plan, revisions, next, made, req>>

-----------------------------------------------------------------------------
(* Rows and requests.                                                       *)

Plan == {p \in [start: Dates, end: Dates, version: Nat] : p.start <= p.end}

\* A revision holds the plan as it was at version `of`.  overtaken is history:
\* another edit committed between the two reads of the edit that wrote it.
PlanRevision == [of: Nat, overtaken: BOOLEAN]

\* loaded is the plan as read, start and end the dates it shall have.
Edit == [pc: {"loaded", "counted"}, loaded: Plan, start: Dates, end: Dates, number: Nat,
         overtaken: BOOLEAN]

\* seen is next_plan_id as read.
NextPlan == [pc: {"asked", "locked", "answer"}, reflection: Reflections, seen: PlanIds \cup {NoPlan}]

Idle == [pc |-> "idle"]

Become(t, r) == req' = [req EXCEPT ![t] = r]

Overtaken(r) == IF r.pc = "loaded" THEN [r EXCEPT !.overtaken = TRUE] ELSE r

-----------------------------------------------------------------------------
(* Init, and the edits of a plan.                                           *)

Init ==
    /\ plan = [start |-> 1, end |-> MaxDate, version |-> 0]
    /\ revisions = [n \in {} |-> [of |-> 0, overtaken |-> FALSE]]
    /\ next = [f \in Reflections |-> NoPlan]
    /\ made = [f \in Reflections |-> {}]
    /\ req = [t \in Threads |-> Idle]

\* patch_plan, and update_plan up to its check of the dates.  A date that is
\* not in the body is the one that was loaded; others are turned away here.
LoadPlan(t, start, end) ==
    /\ req[t].pc = "idle"
    /\ start <= end
    /\ Become(t, [pc |-> "loaded", loaded |-> plan, start |-> start, end |-> end,
                  number |-> 0, overtaken |-> FALSE])
    /\ UNCHANGED <<plan, revisions, next, made>>

CountRevisions(t) ==
    /\ req[t].pc = "loaded"
    /\ Become(t, [req[t] EXCEPT !.pc = "counted", !.number = Cardinality(DOMAIN revisions) + 1])
    /\ UNCHANGED <<plan, revisions, next, made>>

\* The UPDATE writes only what differs from what was loaded.
Written(t) ==
    LET r == req[t] IN
    [start |-> IF r.start = r.loaded.start THEN plan.start ELSE r.start,
     end |-> IF r.end = r.loaded.end THEN plan.end ELSE r.end,
     version |-> plan.version + 1]

\* Mutant: the plans table has no check of the dates.
NumberIsFree(t) == req[t].number \notin DOMAIN revisions
\* Mutant: plan_revisions has no unique key.
DatesInOrder(t) == Written(t).start <= Written(t).end
\* What the tables check: the unique number, and the order of the dates as they
\* are in the row then (ck_plans_date_order).
Accepted(t) == req[t].number \notin DOMAIN revisions /\ Written(t).start <= Written(t).end

\* Mutant: the revision is made of the plan after it has been changed.
ReplacedBy(t) == req[t].loaded.version + 1
Replaced(t) == req[t].loaded.version

\* The commit of update_plan.  What the database refuses is rolled back (503).
CommitEdit(t) ==
    /\ req[t].pc = "counted"
    /\ \/ /\ ~Accepted(t)
          /\ Become(t, Idle)
          /\ UNCHANGED <<plan, revisions>>
       \/ /\ Accepted(t)
          /\ plan' = Written(t)
          /\ revisions' = [n \in DOMAIN revisions \cup {req[t].number} |->
                              IF n = req[t].number
                              THEN [of |-> Replaced(t), overtaken |-> req[t].overtaken]
                              ELSE revisions[n]]
          /\ req' = [u \in Threads |->
                        IF u = t THEN Idle ELSE Overtaken(req[u])]
    /\ UNCHANGED <<next, made>>

-----------------------------------------------------------------------------
(* The plan that follows from a reflection.                                 *)

Asked(f) == \E t \in Threads : req[t].pc \in {"asked", "locked", "answer"} /\ req[t].reflection = f
Locked(f) == \E t \in Threads : req[t].pc = "locked" /\ req[t].reflection = f

\* post_next_plan: the reflection is loaded.
AskNext(t, f) ==
    /\ req[t].pc = "idle"
    /\ Become(t, [pc |-> "asked", reflection |-> f, seen |-> next[f]])
    /\ UNCHANGED <<plan, revisions, next, made>>

\* Mutant: the reflection is not read again.
LockOnly(t) ==
    /\ req[t].pc = "asked"
    /\ ~Locked(req[t].reflection)
    /\ Become(t, [req[t] EXCEPT !.pc = "locked"])
    /\ UNCHANGED <<plan, revisions, next, made>>
LockReflection(t) ==
    /\ req[t].pc = "asked"
    /\ ~Locked(req[t].reflection)
    /\ Become(t, [req[t] EXCEPT !.pc = "locked", !.seen = next[req[t].reflection]])
    /\ UNCHANGED <<plan, revisions, next, made>>

\* The plan that is there is answered, or one more is made.
CommitNext(t) ==
    LET f == req[t].reflection IN
    /\ req[t].pc = "locked"
    /\ \/ /\ req[t].seen # NoPlan
          /\ Become(t, [req[t] EXCEPT !.pc = "answer"])
          /\ UNCHANGED <<next, made>>
       \/ /\ req[t].seen = NoPlan
          /\ \E p \in PlanIds \ UNION {made[g] : g \in Reflections} :
                /\ made' = [made EXCEPT ![f] = @ \cup {p}]
                /\ next' = [next EXCEPT ![f] = p]
                /\ Become(t, [req[t] EXCEPT !.pc = "answer", !.seen = p])
    /\ UNCHANGED <<plan, revisions>>

\* The answer arrives, or is lost and the caller may ask again.
Answered(t) ==
    /\ req[t].pc = "answer"
    /\ Become(t, Idle)
    /\ UNCHANGED <<plan, revisions, next, made>>

\* A thread dies and its transaction with it.
Crash(t) ==
    /\ req[t].pc \in {"loaded", "counted", "asked", "locked"}
    /\ Become(t, Idle)
    /\ UNCHANGED <<plan, revisions, next, made>>

Editing == {t \in Threads : req[t].pc \in {"loaded", "counted"}}

Step(t) ==
    \/ /\ plan.version + Cardinality(Editing) < MaxEdits
       /\ \E start, end \in Dates : LoadPlan(t, start, end)
    \/ CountRevisions(t) \/ CommitEdit(t)
    \/ \E f \in Reflections : AskNext(t, f)
    \/ LockReflection(t) \/ CommitNext(t) \/ Answered(t) \/ Crash(t)

Next == \E t \in Threads : Step(t)

Spec == Init /\ [][Next]_pvars

-----------------------------------------------------------------------------
(* Properties.                                                              *)

\* Every variable stays in its domain.  A Plan has its dates in order, so this
\* says that two edits which each move one date leave no plan that ends before
\* it starts, though each has checked against what it had loaded.
TypeOK ==
    /\ plan \in Plan
    /\ revisions \in [DOMAIN revisions -> PlanRevision] /\ DOMAIN revisions \subseteq Nat
    /\ next \in [Reflections -> PlanIds \cup {NoPlan}]
    /\ made \in [Reflections -> SUBSET PlanIds]
    /\ req \in [Threads -> {Idle} \cup Edit \cup NextPlan]

\* The count and the unique key together (update_plan): however edits race, the
\* revisions are numbered 1, 2, 3, ... without a gap, one for every edit.
RevisionsAreGapless == DOMAIN revisions = 1 .. plan.version

\* A revision holds the version it replaced, unless another edit committed
\* between the load and the count of the edit that wrote it; then it holds an
\* older one.  An edit that is overtaken later than that fails.
RevisionsHoldWhatTheyReplaced ==
    \A n \in DOMAIN revisions :
        /\ ~revisions[n].overtaken => revisions[n].of = n - 1
        /\ revisions[n].overtaken => revisions[n].of < n - 1

\* Every edit leaves one revision, and a version that was replaced is in them
\* unless the edit that replaced it had loaded the plan before, and counted after,
\* another edit committed: that one writes an older version again, and the version
\* in between is in no revision.  docs/REQUIREMENTS.md:34 ("stores the complete
\* pre-edit values") makes no such exception; this is what update_plan keeps of it.
OnlyOvertakenEditsSkipAVersion == RevisionsAreGapless /\ RevisionsHoldWhatTheyReplaced

\* However often and from however many tabs the next plan is asked for, a
\* reflection gets one, and every answer names it (next_plan).
OneNextPlan ==
    \A f \in Reflections :
        /\ Cardinality(made[f]) <= 1
        /\ next[f] = NoPlan <=> made[f] = {}
        /\ \A t \in Threads : req[t].pc = "answer" /\ req[t].reflection = f => made[f] = {req[t].seen}

\* The revisions there are, in order, and the plan that follows each reflection.
History == INSTANCE PlanHistory WITH
    history <- [n \in 1 .. Cardinality(DOMAIN revisions) |-> revisions[n].of],
    follows <- next

\* update_plan and next_plan, with stale loads, races for a number, locks and
\* crashes, implement a history that only grows and followers that stay: no
\* revision is ever replaced or taken back, each edit adds exactly one, and no
\* plan follows two reflections.
IsAPlanHistory == History!Spec

=============================================================================
