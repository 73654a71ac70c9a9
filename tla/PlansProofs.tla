---------------------------- MODULE PlansProofs ----------------------------
(***************************************************************************)
(* For any plans, reflections and threads: the types, with them that a     *)
(* plan's dates stay in order, that revisions are gapless and hold what    *)
(* they replaced, and that a reflection gets one next plan.                *)
(***************************************************************************)
EXTENDS Plans, Sequences, FiniteSetTheorems, TLAPS

\* An edit knows how many versions it is behind.
EditsCount ==
    \A t \in Threads :
        /\ req[t].pc \in {"loaded", "counted"} => req[t].loaded.version <= plan.version
        /\ req[t].pc = "loaded" =>
             IF req[t].overtaken THEN req[t].loaded.version < plan.version
             ELSE req[t].loaded.version = plan.version
        /\ req[t].pc = "counted" =>
             /\ req[t].number \in 1 .. (plan.version + 1)
             /\ IF req[t].overtaken THEN req[t].loaded.version < req[t].number - 1
                ELSE req[t].loaded.version = req[t].number - 1

\* A reflection is locked by one thread, which has read it under the lock.
LocksHold ==
    /\ \A f \in Reflections : made[f] = IF next[f] = NoPlan THEN {} ELSE {next[f]}
    /\ \A t \in Threads :
         /\ req[t].pc = "locked" =>
              /\ req[t].seen = next[req[t].reflection]
              /\ \A u \in Threads : req[u].pc = "locked" /\ req[u].reflection = req[t].reflection => u = t
         /\ req[t].pc = "answer" =>
              req[t].seen = next[req[t].reflection] /\ req[t].seen # NoPlan

IInv == TypeOK /\ RevisionsAreGapless /\ RevisionsHoldWhatTheyReplaced /\ EditsCount /\ LocksHold

-----------------------------------------------------------------------------
(* Types.                                                                   *)

\* What a thread is doing shows what its request looks like.
LEMMA Requests ==
    ASSUME TypeOK, NEW t \in Threads
    PROVE  /\ req[t].pc \in {"loaded", "counted"} => req[t] \in Edit
           /\ req[t].pc \in {"asked", "locked", "answer"} => req[t] \in NextPlan
  BY DEF TypeOK, Idle, Edit, NextPlan

LEMMA InitIInv == ASSUME Init PROVE IInv
<1>1. plan \in Plan
  BY PlansAssumption DEF Init, Plan, Dates
<1>2. \A t \in Threads : req[t] = Idle /\ req[t].pc = "idle"
  BY DEF Init, Idle
<1>3. DOMAIN revisions = {} /\ revisions \in [DOMAIN revisions -> PlanRevision]
  BY DEF Init, PlanRevision
<1>4. TypeOK
  BY <1>1, <1>2, <1>3 DEF Init, TypeOK
<1>5. RevisionsAreGapless /\ RevisionsHoldWhatTheyReplaced
  BY <1>3 DEF Init, RevisionsAreGapless, RevisionsHoldWhatTheyReplaced
<1>6. EditsCount /\ LocksHold
  BY <1>2 DEF Init, EditsCount, LocksHold
<1> QED BY <1>4, <1>5, <1>6 DEF IInv

LEMMA WrittenIsAPlan ==
    ASSUME TypeOK, NEW t \in Threads, req[t].pc = "counted", Accepted(t)
    PROVE  Written(t) \in Plan /\ Written(t).version = plan.version + 1
<1>1. req[t] \in Edit
  BY Requests
<1> QED BY <1>1 DEF TypeOK, Accepted, Written, Edit, Plan

LEMMA Counted ==
    ASSUME TypeOK, RevisionsAreGapless
    PROVE  Cardinality(DOMAIN revisions) = plan.version
<1>1. plan.version \in Nat
  BY DEF TypeOK, Plan
<1> QED BY <1>1, FS_Interval DEF RevisionsAreGapless

LEMMA StepTypeOK == ASSUME TypeOK, RevisionsAreGapless, NEW t \in Threads, Step(t) PROVE TypeOK'
<1> USE DEF TypeOK
<1>1. ASSUME NEW start \in Dates, NEW end \in Dates, LoadPlan(t, start, end) PROVE TypeOK'
  <2>1. [pc |-> "loaded", loaded |-> plan, start |-> start, end |-> end,
         number |-> 0, overtaken |-> FALSE] \in Edit
    BY DEF Edit
  <2> QED BY <1>1, <2>1 DEF LoadPlan, Become
<1>2. CASE CountRevisions(t)
  <2>1. req[t] \in Edit
    BY <1>2, Requests DEF CountRevisions
  <2>2. Cardinality(DOMAIN revisions) + 1 \in Nat
    BY Counted DEF Plan
  <2>3. [req[t] EXCEPT !.pc = "counted", !.number = Cardinality(DOMAIN revisions) + 1] \in Edit
    BY <2>1, <2>2 DEF Edit
  <2> QED BY <1>2, <2>3 DEF CountRevisions, Become
<1>3. CASE CommitEdit(t)
  <2>1. req[t] \in Edit /\ req[t].pc = "counted"
    BY <1>3, Requests DEF CommitEdit
  <2>2. CASE ~Accepted(t)
    BY <1>3, <2>2 DEF CommitEdit, Become
  <2>3. CASE Accepted(t)
    <3>1. plan' \in Plan
      BY <1>3, <2>1, <2>3, WrittenIsAPlan DEF CommitEdit
    <3>2. \A u \in Threads : Overtaken(req[u]) \in {Idle} \cup Edit \cup NextPlan
      <4>1. ASSUME NEW u \in Threads, req[u].pc = "loaded"
            PROVE  [req[u] EXCEPT !.overtaken = TRUE] \in Edit
        BY <4>1, Requests DEF Edit
      <4> QED BY <4>1 DEF Overtaken
    <3>3. req' \in [Threads -> {Idle} \cup Edit \cup NextPlan]
      BY <1>3, <2>3, <3>2 DEF CommitEdit
    <3>4. /\ revisions' = [n \in DOMAIN revisions \cup {req[t].number} |->
                IF n = req[t].number THEN [of |-> Replaced(t), overtaken |-> req[t].overtaken]
                ELSE revisions[n]]
          /\ UNCHANGED <<next, made>>
      BY <1>3, <2>3 DEF CommitEdit
    <3>5. [of |-> Replaced(t), overtaken |-> req[t].overtaken] \in PlanRevision /\ req[t].number \in Nat
      BY <2>1 DEF Replaced, Edit, Plan, PlanRevision
    <3>6. revisions' \in [DOMAIN revisions' -> PlanRevision] /\ DOMAIN revisions' \subseteq Nat
      BY <3>4, <3>5
    <3> QED BY <3>1, <3>3, <3>4, <3>6
  <2> QED BY <2>2, <2>3
<1>4. ASSUME NEW f \in Reflections, AskNext(t, f) PROVE TypeOK'
  <2>1. [pc |-> "asked", reflection |-> f, seen |-> next[f]] \in NextPlan
    BY DEF NextPlan
  <2> QED BY <1>4, <2>1 DEF AskNext, Become
<1>5. CASE LockReflection(t)
  <2>1. req[t] \in NextPlan
    BY <1>5, Requests DEF LockReflection
  <2>2. [req[t] EXCEPT !.pc = "locked", !.seen = next[req[t].reflection]] \in NextPlan
    BY <2>1 DEF NextPlan
  <2> QED BY <1>5, <2>2 DEF LockReflection, Become
<1>6. CASE CommitNext(t)
  <2>1. req[t] \in NextPlan
    BY <1>6, Requests DEF CommitNext
  <2>2. CASE UNCHANGED <<next, made>> /\ Become(t, [req[t] EXCEPT !.pc = "answer"])
    <3>1. [req[t] EXCEPT !.pc = "answer"] \in NextPlan
      BY <2>1 DEF NextPlan
    <3> QED BY <1>6, <2>2, <3>1 DEF CommitNext, Become
  <2>3. ASSUME NEW p \in PlanIds,
               made' = [made EXCEPT ![req[t].reflection] = @ \cup {p}],
               next' = [next EXCEPT ![req[t].reflection] = p],
               Become(t, [req[t] EXCEPT !.pc = "answer", !.seen = p])
        PROVE  TypeOK'
    <3>1. [req[t] EXCEPT !.pc = "answer", !.seen = p] \in NextPlan
      BY <2>1 DEF NextPlan
    <3>2. made' \in [Reflections -> SUBSET PlanIds]
      BY <2>1, <2>3 DEF NextPlan
    <3>3. next' \in [Reflections -> PlanIds \cup {NoPlan}]
      BY <2>1, <2>3 DEF NextPlan
    <3> QED BY <1>6, <2>3, <3>1, <3>2, <3>3 DEF CommitNext, Become
  <2> QED BY <1>6, <2>2, <2>3 DEF CommitNext
<1>7. CASE Answered(t) \/ Crash(t)
  BY <1>7 DEF Answered, Crash, Become
<1> QED BY <1>1, <1>2, <1>3, <1>4, <1>5, <1>6, <1>7 DEF Step

\* The request that has locked its reflection gets the plan that is there or a
\* new one.
LEMMA NextRequests ==
    ASSUME TypeOK, NEW t \in Threads
    PROVE  /\ LockReflection(t) =>
                req' = [req EXCEPT ![t] = [req[t] EXCEPT !.pc = "locked", !.seen = next[req[t].reflection]]]
           /\ CommitNext(t) => \E seen \in PlanIds \cup {NoPlan} :
                /\ seen # NoPlan
                /\ req' = [req EXCEPT ![t] = [req[t] EXCEPT !.pc = "answer", !.seen = seen]]
                /\ \/ seen = req[t].seen /\ UNCHANGED <<next, made>>
                   \/ /\ req[t].seen = NoPlan
                      /\ made' = [made EXCEPT ![req[t].reflection] = @ \cup {seen}]
                      /\ next' = [next EXCEPT ![req[t].reflection] = seen]
<1>1. ASSUME CommitNext(t)
      PROVE  \E seen \in PlanIds \cup {NoPlan} :
                /\ seen # NoPlan
                /\ req' = [req EXCEPT ![t] = [req[t] EXCEPT !.pc = "answer", !.seen = seen]]
                /\ \/ seen = req[t].seen /\ UNCHANGED <<next, made>>
                   \/ /\ req[t].seen = NoPlan
                      /\ made' = [made EXCEPT ![req[t].reflection] = @ \cup {seen}]
                      /\ next' = [next EXCEPT ![req[t].reflection] = seen]
  <2>1. req[t] \in NextPlan
    BY <1>1, Requests DEF CommitNext
  <2>2. CASE req[t].seen # NoPlan
    <3>1. [req[t] EXCEPT !.pc = "answer"] = [req[t] EXCEPT !.pc = "answer", !.seen = req[t].seen]
      BY <2>1 DEF NextPlan
    <3>2. /\ req' = [req EXCEPT ![t] = [req[t] EXCEPT !.pc = "answer"]]
          /\ UNCHANGED <<next, made>>
      BY <1>1, <2>2 DEF CommitNext, Become
    <3>3. req[t].seen \in PlanIds \cup {NoPlan}
      BY <2>1 DEF NextPlan
    <3> QED BY <2>2, <3>1, <3>2, <3>3
  <2>3. CASE req[t].seen = NoPlan
    BY <1>1, <2>3, PlansAssumption DEF CommitNext, Become
  <2> QED BY <2>2, <2>3
<1> QED BY <1>1 DEF LockReflection, Become

-----------------------------------------------------------------------------
(* Revisions.                                                               *)

\* A step that leaves the plan and its revisions alone, and no thread with a new
\* edit.
LEMMA OtherStepsKeepEdits ==
    ASSUME IInv, UNCHANGED <<plan, revisions>>,
           \A t \in Threads : req'[t] = req[t] \/ req'[t].pc \notin {"loaded", "counted"}
    PROVE  (RevisionsAreGapless /\ RevisionsHoldWhatTheyReplaced /\ EditsCount)'
  BY DEF IInv, RevisionsAreGapless, RevisionsHoldWhatTheyReplaced, EditsCount

LEMMA StepRevisions ==
    ASSUME IInv, NEW t \in Threads, Step(t)
    PROVE  (RevisionsAreGapless /\ RevisionsHoldWhatTheyReplaced /\ EditsCount)'
<1> USE DEF IInv
<1>0. plan.version \in Nat
  BY DEF TypeOK, Plan
<1>1. ASSUME NEW start \in Dates, NEW end \in Dates, LoadPlan(t, start, end)
      PROVE  (RevisionsAreGapless /\ RevisionsHoldWhatTheyReplaced /\ EditsCount)'
  <2>1. UNCHANGED <<plan, revisions>>
    BY <1>1 DEF LoadPlan
  <2>2. (RevisionsAreGapless /\ RevisionsHoldWhatTheyReplaced)'
    BY <2>1 DEF RevisionsAreGapless, RevisionsHoldWhatTheyReplaced
  <2>3. req' = [req EXCEPT ![t] = [pc |-> "loaded", loaded |-> plan, start |-> start, end |-> end,
                                   number |-> 0, overtaken |-> FALSE]]
    BY <1>1 DEF LoadPlan, Become
  <2>4. EditsCount'
    BY <1>0, <2>1, <2>3 DEF EditsCount, TypeOK
  <2> QED BY <2>2, <2>4
<1>2. CASE CountRevisions(t)
  <2>1. UNCHANGED <<plan, revisions>>
    BY <1>2 DEF CountRevisions
  <2>2. (RevisionsAreGapless /\ RevisionsHoldWhatTheyReplaced)'
    BY <2>1 DEF RevisionsAreGapless, RevisionsHoldWhatTheyReplaced
  <2>3. req[t] \in Edit /\ req[t].pc = "loaded"
    BY <1>2, Requests DEF CountRevisions
  <2>4. req' = [req EXCEPT ![t] = [req[t] EXCEPT !.pc = "counted", !.number = plan.version + 1]]
    BY <1>2, Counted DEF CountRevisions, Become
  <2>5. /\ req'[t].pc = "counted" /\ req'[t].number = plan.version + 1
        /\ req'[t].loaded = req[t].loaded /\ req'[t].overtaken = req[t].overtaken
        /\ \A u \in Threads : u = t \/ req'[u] = req[u]
    BY <2>3, <2>4 DEF TypeOK, Edit
  <2>6. req[t].loaded.version \in Nat
    BY <2>3 DEF Edit, Plan
  <2>7. EditsCount'
    BY <1>0, <2>1, <2>3, <2>5, <2>6 DEF EditsCount
  <2> QED BY <2>2, <2>7
<1>3. CASE CommitEdit(t)
  <2>1. req[t] \in Edit /\ req[t].pc = "counted"
    BY <1>3, Requests DEF CommitEdit
  <2>2. CASE ~Accepted(t)
    BY <1>3, <2>2, OtherStepsKeepEdits DEF CommitEdit, Become, TypeOK, Idle
  <2>3. CASE Accepted(t)
    <3>1. req[t].number = plan.version + 1
      BY <1>0, <2>1, <2>3 DEF Accepted, EditsCount, RevisionsAreGapless
    <3>2. plan'.version = plan.version + 1
      BY <1>3, <2>1, <2>3, WrittenIsAPlan DEF CommitEdit
    <3>3. revisions' = [n \in DOMAIN revisions \cup {req[t].number} |->
                IF n = req[t].number THEN [of |-> Replaced(t), overtaken |-> req[t].overtaken]
                ELSE revisions[n]]
      BY <1>3, <2>3 DEF CommitEdit
    <3>4. RevisionsAreGapless'
      BY <1>0, <3>1, <3>2, <3>3 DEF RevisionsAreGapless
    <3>5. IF req[t].overtaken THEN req[t].loaded.version < plan.version
          ELSE req[t].loaded.version = plan.version
      BY <1>0, <2>1, <3>1 DEF EditsCount
    <3>6. RevisionsHoldWhatTheyReplaced'
      <4>1. \A n \in DOMAIN revisions : n # plan.version + 1
        BY <1>0 DEF RevisionsAreGapless
      <4>2. \A n \in DOMAIN revisions : revisions'[n] = revisions[n]
        BY <3>1, <3>3, <4>1
      <4>3. revisions'[plan.version + 1].of = req[t].loaded.version
            /\ revisions'[plan.version + 1].overtaken = req[t].overtaken
        BY <3>1, <3>3 DEF Replaced
      <4>4. DOMAIN revisions' = DOMAIN revisions \cup {plan.version + 1}
        BY <3>1, <3>3
      <4> QED BY <1>0, <3>5, <4>2, <4>3, <4>4 DEF RevisionsHoldWhatTheyReplaced
    <3>7. req' = [u \in Threads |-> IF u = t THEN Idle ELSE Overtaken(req[u])]
      BY <1>3, <2>3 DEF CommitEdit
    <3>8. EditsCount'
      <4> SUFFICES ASSUME NEW u \in Threads, req'[u].pc \in {"loaded", "counted"}
                   PROVE  /\ req'[u].loaded.version <= plan'.version
                          /\ req'[u].pc = "loaded" =>
                               IF req'[u].overtaken THEN req'[u].loaded.version < plan'.version
                               ELSE req'[u].loaded.version = plan'.version
                          /\ req'[u].pc = "counted" =>
                               /\ req'[u].number \in 1 .. (plan'.version + 1)
                               /\ IF req'[u].overtaken THEN req'[u].loaded.version < req'[u].number - 1
                                  ELSE req'[u].loaded.version = req'[u].number - 1
        BY DEF EditsCount
      <4>1. u # t /\ req'[u] = Overtaken(req[u])
        BY <3>7 DEF Idle
      <4>2. CASE req[u].pc = "loaded"
        <5>1. req[u] \in Edit
          BY <4>2, Requests
        <5>2. req'[u].pc = "loaded" /\ req'[u].overtaken /\ req'[u].loaded = req[u].loaded
          BY <4>1, <4>2, <5>1 DEF Overtaken, Edit
        <5>3. req[u].loaded.version <= plan.version /\ req[u].loaded.version \in Nat
          BY <4>2, <5>1 DEF EditsCount, Edit, Plan
        <5> QED BY <1>0, <3>2, <5>2, <5>3
      <4>3. CASE req[u].pc # "loaded"
        <5>1. req'[u] = req[u] /\ req[u].pc = "counted"
          BY <4>1, <4>3 DEF Overtaken
        <5>2. req[u] \in Edit
          BY <5>1, Requests
        <5>3. req[u].loaded.version \in Nat
          BY <5>2 DEF Edit, Plan
        <5> QED BY <1>0, <3>2, <5>1, <5>3 DEF EditsCount
      <4> QED BY <4>2, <4>3
    <3> QED BY <3>4, <3>6, <3>8
  <2> QED BY <2>2, <2>3
<1>4. ASSUME NEW f \in Reflections, AskNext(t, f)
      PROVE  (RevisionsAreGapless /\ RevisionsHoldWhatTheyReplaced /\ EditsCount)'
  BY <1>4, OtherStepsKeepEdits DEF AskNext, Become, TypeOK
<1>5. ASSUME LockReflection(t) \/ CommitNext(t)
      PROVE  (RevisionsAreGapless /\ RevisionsHoldWhatTheyReplaced /\ EditsCount)'
  <2>1. UNCHANGED <<plan, revisions>>
    BY <1>5 DEF LockReflection, CommitNext
  <2>2. req[t] \in NextPlan
    BY <1>5, Requests DEF LockReflection, CommitNext
  <2>3. \E seen, pc : /\ pc \in {"locked", "answer"}
                      /\ req' = [req EXCEPT ![t] = [req[t] EXCEPT !.pc = pc, !.seen = seen]]
    BY <1>5, NextRequests, Zenon
  <2>4. (\A u \in Threads : u = t \/ req'[u] = req[u]) /\ req'[t].pc \in {"locked", "answer"}
    BY <2>2, <2>3 DEF TypeOK, NextPlan
  <2> QED BY <2>1, <2>4, OtherStepsKeepEdits
<1>6. CASE Answered(t) \/ Crash(t)
  BY <1>6, OtherStepsKeepEdits DEF Answered, Crash, Become, TypeOK, Idle
<1> QED BY <1>1, <1>2, <1>3, <1>4, <1>5, <1>6 DEF Step

-----------------------------------------------------------------------------
(* The next plan.                                                           *)

LEMMA StepLocksHold == ASSUME IInv, NEW t \in Threads, Step(t) PROVE LocksHold'
<1> USE DEF IInv
<1>0. req \in [Threads -> {Idle} \cup Edit \cup NextPlan]
  BY DEF TypeOK
<1>1. ASSUME UNCHANGED <<next, made>>,
             \A u \in Threads : req'[u] = req[u] \/ req'[u].pc \notin {"locked", "answer"}
      PROVE  LocksHold'
  BY <1>1 DEF LocksHold
<1>2. ASSUME NEW start \in Dates, NEW end \in Dates, LoadPlan(t, start, end) PROVE LocksHold'
  BY <1>0, <1>1, <1>2 DEF LoadPlan, Become
<1>3. CASE CountRevisions(t)
  <2>1. req[t] \in Edit
    BY <1>3, Requests DEF CountRevisions
  <2> QED BY <1>0, <1>1, <1>3, <2>1 DEF CountRevisions, Become, Edit
<1>4. CASE CommitEdit(t)
  <2>1. \A u \in Threads : Overtaken(req[u]) = req[u] \/ Overtaken(req[u]).pc = "loaded"
    <3>1. ASSUME NEW u \in Threads, req[u].pc = "loaded"
          PROVE  [req[u] EXCEPT !.overtaken = TRUE].pc = "loaded"
      BY <3>1, Requests DEF Edit
    <3> QED BY <3>1 DEF Overtaken
  <2>2. UNCHANGED <<next, made>> /\ \A u \in Threads : req'[u] \in {req[u], Idle, Overtaken(req[u])}
    BY <1>0, <1>4 DEF CommitEdit, Become
  <2> QED BY <1>1, <2>1, <2>2 DEF Idle
<1>5. ASSUME NEW f \in Reflections, AskNext(t, f) PROVE LocksHold'
  BY <1>0, <1>1, <1>5 DEF AskNext, Become
<1>6. CASE Answered(t) \/ Crash(t)
  BY <1>0, <1>1, <1>6 DEF Answered, Crash, Become, Idle
<1>7. CASE LockReflection(t)
  <2>1. req[t] \in NextPlan /\ UNCHANGED <<next, made>> /\ ~Locked(req[t].reflection)
    BY <1>7, Requests DEF LockReflection
  <2>2. /\ req'[t].pc = "locked" /\ req'[t].seen = next[req[t].reflection]
        /\ req'[t].reflection = req[t].reflection
        /\ \A u \in Threads : u = t \/ req'[u] = req[u]
    <3>1. req' = [req EXCEPT ![t] = [req[t] EXCEPT !.pc = "locked", !.seen = next[req[t].reflection]]]
      BY <1>7, NextRequests, Zenon
    <3> QED BY <1>0, <2>1, <3>1 DEF NextPlan
  <2> QED BY <2>1, <2>2 DEF LocksHold, Locked
<1>8. CASE CommitNext(t)
  <2> DEFINE f == req[t].reflection
  <2>1. req[t] \in NextPlan /\ req[t].pc = "locked"
    BY <1>8, Requests DEF CommitNext
  <2>2. PICK seen \in PlanIds \cup {NoPlan} :
           /\ seen # NoPlan
           /\ req' = [req EXCEPT ![t] = [req[t] EXCEPT !.pc = "answer", !.seen = seen]]
           /\ \/ seen = req[t].seen /\ UNCHANGED <<next, made>>
              \/ /\ req[t].seen = NoPlan
                 /\ made' = [made EXCEPT ![f] = @ \cup {seen}]
                 /\ next' = [next EXCEPT ![f] = seen]
    BY <1>8, NextRequests
  <2>3. /\ req'[t].pc = "answer" /\ req'[t].seen = seen /\ req'[t].reflection = f
        /\ \A u \in Threads : u = t \/ req'[u] = req[u]
    BY <1>0, <2>1, <2>2 DEF NextPlan
  <2>4. f \in Reflections /\ req[t].seen = next[f]
    BY <2>1 DEF NextPlan, LocksHold
  <2>5. CASE seen = req[t].seen /\ UNCHANGED <<next, made>>
    <3>1. UNCHANGED <<next, made>> /\ req'[t].seen = next[f] /\ req'[t].seen # NoPlan
      BY <2>2, <2>3, <2>4, <2>5
    <3>2. \A u \in Threads : req'[u].pc = "locked" => req[u].pc = "locked" /\ req'[u] = req[u]
      BY <2>3
    <3> QED BY <2>3, <3>1, <3>2 DEF LocksHold
  <2>6. CASE /\ req[t].seen = NoPlan
             /\ made' = [made EXCEPT ![f] = @ \cup {seen}]
             /\ next' = [next EXCEPT ![f] = seen]
    <3>1. made[f] = {}
      BY <2>4, <2>6 DEF LocksHold
    <3>2. made'[f] = {seen} /\ next'[f] = seen
      BY <2>4, <2>6, <3>1 DEF TypeOK
    <3>3. \A g \in Reflections : g = f \/ (made'[g] = made[g] /\ next'[g] = next[g])
      BY <2>6 DEF TypeOK
    <3>4. \A g \in Reflections : made'[g] = IF next'[g] = NoPlan THEN {} ELSE {next'[g]}
      <4>1. \A g \in Reflections : made[g] = IF next[g] = NoPlan THEN {} ELSE {next[g]}
        BY DEF LocksHold
      <4>2. seen # NoPlan
        BY <2>2
      <4> QED BY ONLY <3>2, <3>3, <4>1, <4>2
    <3>5. \A u \in Threads : req[u].pc = "locked" => u = t \/ req[u].reflection # f
      BY <2>1 DEF LocksHold
    <3>6. \A u \in Threads : req[u].pc \in {"locked", "answer"} => req[u].reflection \in Reflections
      BY Requests DEF NextPlan
    <3>7. \A u \in Threads : req[u].pc = "answer" => req[u].reflection # f
      BY <2>4, <2>6 DEF LocksHold
    <3>8. ASSUME NEW u \in Threads
          PROVE  /\ req'[u].pc = "locked" =>
                      /\ req'[u].seen = next'[req'[u].reflection]
                      /\ \A v \in Threads : req'[v].pc = "locked" /\ req'[v].reflection = req'[u].reflection => v = u
                 /\ req'[u].pc = "answer" =>
                      req'[u].seen = next'[req'[u].reflection] /\ req'[u].seen # NoPlan
      <4>1. CASE u = t
        BY <2>2, <2>3, <3>2, <4>1
      <4>2. CASE u # t
        BY <2>3, <3>3, <3>5, <3>6, <3>7, <4>2 DEF LocksHold
      <4> QED BY <4>1, <4>2
    <3> QED BY <3>4, <3>8 DEF LocksHold
  <2> QED BY <2>2, <2>5, <2>6
<1> QED BY <1>2, <1>3, <1>4, <1>5, <1>6, <1>7, <1>8 DEF Step

-----------------------------------------------------------------------------
(* Theorems.                                                                *)

LEMMA StepIInv == ASSUME IInv, [Next]_pvars PROVE IInv'
<1>1. CASE Next
  <2>1. PICK t \in Threads : Step(t)
    BY <1>1 DEF Next
  <2>2. TypeOK'
    BY <2>1, StepTypeOK DEF IInv
  <2> QED BY <2>1, <2>2, StepRevisions, StepLocksHold DEF IInv
<1>2. CASE UNCHANGED pvars
  BY <1>2 DEF pvars, IInv, TypeOK, RevisionsAreGapless, RevisionsHoldWhatTheyReplaced, EditsCount, LocksHold
<1> QED BY <1>1, <1>2

LEMMA Invariance == Spec => []IInv
  BY InitIInv, StepIInv, PTL DEF Spec

\* The tables keep their types; above all the dates of a plan stay in order
\* (ck_plans_date_order), whichever edits race.
THEOREM PlanTypes == Spec => []TypeOK
<1>1. IInv => TypeOK
  BY DEF IInv
<1> QED BY <1>1, Invariance, PTL

\* The count and the unique key of update_plan: any number of edits in any
\* interleaving leaves the revisions numbered without a gap, and each holds the
\* version it replaced, or an older one if its edit was overtaken before it counted.
THEOREM RevisionsSkipOnlyTheOvertaken == Spec => []OnlyOvertakenEditsSkipAVersion
<1>1. IInv => OnlyOvertakenEditsSkipAVersion
  BY DEF IInv, OnlyOvertakenEditsSkipAVersion
<1> QED BY <1>1, Invariance, PTL

\* The row lock and the second read of next_plan: one next plan for each
\* reflection, however many ask for it.
THEOREM OnePlanFollows == Spec => []OneNextPlan
<1>1. ASSUME IInv PROVE OneNextPlan
  <2> SUFFICES ASSUME NEW f \in Reflections
               PROVE  /\ Cardinality(made[f]) <= 1
                      /\ next[f] = NoPlan <=> made[f] = {}
                      /\ \A t \in Threads : req[t].pc = "answer" /\ req[t].reflection = f => made[f] = {req[t].seen}
    BY DEF OneNextPlan
  <2>1. made[f] = IF next[f] = NoPlan THEN {} ELSE {next[f]}
    BY <1>1 DEF IInv, LocksHold
  <2>2. Cardinality(made[f]) <= 1
    <3>1. Cardinality({}) = 0 /\ Cardinality({next[f]}) = 1
      BY FS_EmptySet, FS_Singleton
    <3> QED BY <2>1, <3>1
  <2>3. \A t \in Threads : req[t].pc = "answer" /\ req[t].reflection = f => made[f] = {req[t].seen}
    BY <1>1, <2>1 DEF IInv, LocksHold
  <2> QED BY <2>1, <2>2, <2>3
<1> QED BY <1>1, Invariance, PTL

-----------------------------------------------------------------------------
(* The refinement.                                                          *)

\* The revisions in order, as PlanHistory has them.
Kept(R) == [n \in 1 .. Cardinality(DOMAIN R) |-> R[n].of]

LEMMA KeptIs ==
    ASSUME NEW v \in Nat, NEW R, DOMAIN R = 1 .. v, \A n \in DOMAIN R : R[n].of \in Nat
    PROVE  Kept(R) = [n \in 1 .. v |-> R[n].of] /\ Kept(R) \in Seq(Nat) /\ Len(Kept(R)) = v
<1>1. Cardinality(1 .. v) = v
  <2>1. Cardinality(1 .. v) = IF 1 > v THEN 0 ELSE v - 1 + 1
    BY FS_Interval
  <2> QED BY <2>1
<1>2. Kept(R) = [n \in 1 .. v |-> R[n].of]
  BY <1>1 DEF Kept
<1>3. [n \in 1 .. v |-> R[n].of] \in Seq(Nat) /\ Len([n \in 1 .. v |-> R[n].of]) = v
  OBVIOUS
<1> QED BY <1>2, <1>3

LEMMA TypesOfHistory ==
    ASSUME TypeOK, RevisionsAreGapless
    PROVE  /\ plan.version \in Nat /\ DOMAIN revisions = 1 .. plan.version
           /\ \A n \in DOMAIN revisions : revisions[n].of \in Nat
  BY DEF TypeOK, RevisionsAreGapless, Plan, PlanRevision

\* A commit of an edit adds the revision it counted, which holds what it loaded.
LEMMA EditRevises ==
    ASSUME IInv, TypeOK', RevisionsAreGapless', NEW t \in Threads, CommitEdit(t), Accepted(t)
    PROVE  \E v \in 0 .. Len(Kept(revisions)) :
              Kept(revisions') = Append(Kept(revisions), v) /\ next' = next
<1> DEFINE n == plan.version
           v == req[t].loaded.version
<1>1. /\ n \in Nat /\ DOMAIN revisions = 1 .. n
      /\ \A k \in DOMAIN revisions : revisions[k].of \in Nat
  BY TypesOfHistory DEF IInv
<1>2. req[t].pc = "counted" /\ req[t].number = n + 1 /\ v \in 0 .. n
  <2>1. req[t].pc = "counted"
    BY DEF CommitEdit
  <2>2. req[t].loaded \in Plan /\ v \in Nat
    BY <2>1, Requests DEF IInv, Edit, Plan
  <2>3. req[t].number \in 1 .. (n + 1) /\ v <= n
    BY <2>1 DEF IInv, EditsCount
  <2>4. req[t].number \notin 1 .. n
    BY <1>1 DEF Accepted
  <2> QED BY <1>1, <2>1, <2>2, <2>3, <2>4
<1>3. /\ next' = next /\ plan'.version = n + 1
      /\ DOMAIN revisions' = 1 .. (n + 1)
      /\ revisions'[n + 1].of = v
      /\ \A k \in 1 .. n : revisions'[k] = revisions[k]
  <2>1. plan' = Written(t) /\ next' = next
        /\ revisions' = [k \in DOMAIN revisions \cup {req[t].number} |->
                            IF k = req[t].number
                            THEN [of |-> Replaced(t), overtaken |-> req[t].overtaken]
                            ELSE revisions[k]]
    BY DEF CommitEdit
  <2>2. plan'.version = n + 1
    BY <2>1 DEF Written
  <2>3. n + 1 \in DOMAIN revisions \cup {req[t].number} /\ \A k \in 1 .. n : k # n + 1
    BY <1>1, <1>2
  <2> QED BY <1>1, <1>2, <2>1, <2>2, <2>3 DEF Replaced, RevisionsAreGapless
<1>4. /\ Kept(revisions) = [k \in 1 .. n |-> revisions[k].of]
      /\ Kept(revisions) \in Seq(Nat) /\ Len(Kept(revisions)) = n
  BY <1>1, KeptIs
<1>5. Kept(revisions') = [k \in 1 .. (n + 1) |-> revisions'[k].of]
  <2>1. \A k \in DOMAIN revisions' : revisions'[k].of \in Nat
    BY <1>1, <1>2, <1>3
  <2> QED BY <1>1, <1>3, <2>1, KeptIs
<1>6. Append(Kept(revisions), v) = [k \in 1 .. (n + 1) |-> revisions'[k].of]
  <2> DEFINE h == Kept(revisions)
             g == [k \in 1 .. (n + 1) |-> revisions'[k].of]
  <2>1. h \in Seq(Nat) /\ Len(h) = n /\ \A k \in 1 .. n : h[k] = revisions[k].of
    BY <1>4
  <2>2. \A k \in 1 .. n : g[k] = h[k]
    BY <1>1, <1>3, <2>1
  <2>3. g[n + 1] = v
    BY <1>1, <1>3
  <2>4. g = [k \in 1 .. (n + 1) |-> IF k = n + 1 THEN v ELSE h[k]]
    <3>1. \A k \in 1 .. (n + 1) : k = n + 1 \/ k \in 1 .. n
      BY <1>1
    <3>2. \A k \in 1 .. (n + 1) : g[k] = IF k = n + 1 THEN v ELSE h[k]
      BY <2>2, <2>3, <3>1
    <3>3. g = [k \in 1 .. (n + 1) |-> g[k]]
      OBVIOUS
    <3> HIDE DEF h, g
    <3> QED BY <3>2, <3>3
  <2> HIDE DEF h, g
  <2>5. Append(h, v) = [k \in 1 .. (n + 1) |-> IF k = n + 1 THEN v ELSE h[k]]
    BY <1>1, <1>2, <2>1
  <2>6. Append(h, v) = g
    BY ONLY <2>4, <2>5
  <2> QED BY <2>6 DEF h, g
<1> QED BY <1>2, <1>3, <1>4, <1>5, <1>6

\* A plan that is made for a reflection is the first one, and nobody else's.
LEMMA NextFollows ==
    ASSUME IInv, NEW t \in Threads, CommitNext(t), next' # next
    PROVE  \E f \in Reflections, p \in PlanIds :
              /\ next[f] = NoPlan /\ \A g \in Reflections : next[g] # p
              /\ next' = [next EXCEPT ![f] = p]
<1> DEFINE f == req[t].reflection
<1>1. PICK p \in PlanIds \ UNION {made[g] : g \in Reflections} :
         req[t].seen = NoPlan /\ next' = [next EXCEPT ![f] = p]
  BY DEF CommitNext
<1>2. f \in Reflections /\ next[f] = NoPlan
  <2>1. req[t].pc = "locked"
    BY DEF CommitNext
  <2>2. f \in Reflections
    BY <2>1, Requests DEF IInv, NextPlan
  <2> QED BY <1>1, <2>1, <2>2 DEF IInv, LocksHold
<1>3. ASSUME NEW g \in Reflections PROVE next[g] # p
  <2>1. p \notin made[g] /\ p # NoPlan
    BY <1>1, PlansAssumption
  <2> QED BY <2>1 DEF IInv, LocksHold
<1> QED BY <1>1, <1>2, <1>3

\* Edits that race and requests for a next plan that repeat implement PlanHistory:
\* nothing is ever taken out of a plan's history, each edit adds one revision, and
\* a reflection gets one plan of its own.
THEOREM PlansKeepTheirHistory == Spec => IsAPlanHistory
<1>1. ASSUME Init PROVE History!Init
  <2>1. DOMAIN revisions = {} /\ next = [f \in Reflections |-> NoPlan]
    BY <1>1 DEF Init
  <2>2. Cardinality(DOMAIN revisions) = 0
    BY <2>1, FS_EmptySet
  <2> QED BY <2>1, <2>2 DEF History!Init
<1>2. ASSUME IInv, IInv', [Next]_pvars PROVE [History!Next]_(History!hvars)
  <2>1. CASE UNCHANGED <<revisions, next>>
    BY <2>1 DEF History!hvars
  <2>2. ASSUME NEW t \in Threads, Step(t), ~UNCHANGED <<revisions, next>> PROVE History!Next
    <3>1. CASE CommitEdit(t)
      <4>1. Accepted(t)
        BY <2>2, <3>1 DEF CommitEdit
      <4>2. PICK v \in 0 .. Len(Kept(revisions)) :
               Kept(revisions') = Append(Kept(revisions), v) /\ next' = next
        BY <1>2, <3>1, <4>1, EditRevises DEF IInv
      <4> QED BY <4>2 DEF History!Next, History!Revise, Kept
    <3>2. CASE CommitNext(t)
      <4>1. UNCHANGED revisions
        BY <3>2 DEF CommitNext
      <4>2. PICK f \in Reflections, p \in PlanIds :
               /\ next[f] = NoPlan /\ \A g \in Reflections : next[g] # p
               /\ next' = [next EXCEPT ![f] = p]
        BY <1>2, <2>2, <3>2, <4>1, NextFollows
      <4>3. History!Follow(f, p)
        BY <4>1, <4>2 DEF History!Follow
      <4> QED BY <4>3 DEF History!Next
    <3>3. CASE ~CommitEdit(t) /\ ~CommitNext(t)
      BY <2>2, <3>3 DEF Step, LoadPlan, CountRevisions, AskNext, LockReflection, Answered, Crash
    <3> QED BY <3>1, <3>2, <3>3
  <2> QED BY <1>2, <2>1, <2>2 DEF Next, pvars
<1> QED BY <1>1, <1>2, Invariance, PTL DEF Spec, IsAPlanHistory, History!Spec

=============================================================================
