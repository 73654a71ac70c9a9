---------------------------- MODULE TasksProofs ----------------------------
(***************************************************************************)
(* For any tasks, users, tabs, keys, tags and threads: what MCTasks checks *)
(* on a small instance, and that Tasks implements TaskLife.                *)
(***************************************************************************)
EXTENDS Tasks, SequenceTheorems, TLAPS

Logged(r) == \E i \in DOMAIN events[r.task] : events[r.task][i].intent = r.intent

\* What a request knows of the tables.
Fits(r) ==
    /\ r \in Request
    /\ r.undisturbed => r.op = "list" /\ r.list = Listed(TabUser)
    /\ r.op = "list" => r.user = TabUser
    /\ r.op \notin {"create", "list"} => r.task \in Tasks
    /\ r.op = "complete" => r.key \in Keys /\ r.intent = r.key
    /\ r.pc \in {"loaded", "locked"} =>
         /\ r.op \notin {"create", "list"}
         /\ row[r.task].status # "none" /\ row[r.task].owner = r.user
    /\ r.pc = "locked" =>
         r.op \in {"complete", "reopen"} /\ r.row = row[r.task] /\ ~row[r.task].deleted
    /\ r.pc = "answer" /\ r.op = "complete" /\ r.ok => Logged(r)

RequestsFit == \A t \in Threads : Fits(req[t])

LocksExclude ==
    \A t, u \in Threads :
        req[t].pc = "locked" /\ req[u].pc = "locked" /\ req[t].task = req[u].task => t = u

\* A press that is repeated has the key of the first.
KeysAreKept == saved = intent

KeysAreUnique ==
    \A x \in Tasks : \A i \in DOMAIN events[x] :
        /\ events[x][i].key = events[x][i].intent
        /\ \A j \in DOMAIN events[x] : events[x][i].key = events[x][j].key => i = j

UnbornIsNotDeleted == \A x \in Tasks : row[x].status = "none" => ~row[x].deleted

IInv ==
    /\ TypeOK /\ RequestsFit /\ LocksExclude /\ KeysAreKept /\ KeysAreUnique /\ UnbornIsNotDeleted
    /\ LogAndTaskAgree /\ TagsAreThoseOfTheLastEdit /\ NoScreenFallsBack

-----------------------------------------------------------------------------
(* Requests.                                                                *)

LEMMA Records ==
    /\ Unborn \in TaskRow /\ Unborn.status = "none" /\ ~Unborn.deleted /\ Unborn.completedAt = 0
    /\ EmptyList \in [Tasks -> {"none", "active", "completed"}]
    /\ NoRequest \in Request
    /\ NoRequest.pc = "idle" /\ NoRequest.op = "list" /\ NoRequest.user = TabUser
    /\ NoRequest.undisturbed = FALSE
<1>1. Unborn \in TaskRow /\ Unborn.status = "none" /\ ~Unborn.deleted /\ Unborn.completedAt = 0
  BY TasksAssumption DEF Unborn, TaskRow
<1>2. EmptyList \in [Tasks -> {"none", "active", "completed"}]
  BY DEF EmptyList
<1> QED BY <1>1, <1>2, TasksAssumption DEF NoRequest, Request, Ops

LEMMA NoRequestFits == Fits(NoRequest)
  BY Records DEF Fits

\* A new request of a client.
LEMMA SentFits ==
    ASSUME NEW r \in Request, r.pc = "sent", r.undisturbed = FALSE,
           r.op = "list" => r.user = TabUser,
           r.op \notin {"create", "list"} => r.task \in Tasks,
           r.op = "complete" => r.key \in Keys /\ r.intent = r.key
    PROVE  Fits(r)
  BY DEF Fits

LEMMA ListFits ==
    ASSUME NEW b \in Tabs \cup {NoTab}, NEW x \in Tasks \cup {NoTask}
    PROVE  Fits(ListFor(b, x)) /\ ListFor(b, x).pc = "sent"
<1>1. LET r == ListFor(b, x) IN
        r \in Request /\ r.pc = "sent" /\ r.undisturbed = FALSE /\ r.op = "list" /\ r.user = TabUser
  BY Records DEF ListFor, Request
<1> QED BY <1>1, SentFits

LEMMA AnswerFits ==
    ASSUME IInv, NEW t \in Threads, NEW ok \in BOOLEAN,
           req[t].op = "complete" /\ ok => Logged(req[t])
    PROVE  Fits(Answer(t, ok)) /\ Answer(t, ok).pc # "locked"
<1>1. Fits(req[t])
  BY DEF IInv, RequestsFit
<1>2. CASE req[t].tab = NoTab
  BY <1>2, NoRequestFits, Records DEF Answer
<1>3. CASE req[t].tab # NoTab
  <2> DEFINE r == [req[t] EXCEPT !.pc = "answer", !.ok = ok, !.row = Unborn, !.old = {}]
  <2>1. r \in Request
    BY <1>1, Records DEF Fits, Request
  <2>2. /\ r.pc = "answer" /\ r.ok = ok /\ r.op = req[t].op /\ r.task = req[t].task
        /\ r.intent = req[t].intent /\ r.key = req[t].key /\ r.user = req[t].user
        /\ r.undisturbed = req[t].undisturbed /\ r.list = req[t].list
    BY <1>1 DEF Fits, Request
  <2>3. r.op = "complete" /\ r.ok => Logged(r)
    BY <2>2 DEF Logged
  <2> HIDE DEF r
  <2>4. Fits(r)
    BY <1>1, <2>1, <2>2, <2>3 DEF Fits
  <2> QED BY <1>3, <2>2, <2>4 DEF Answer, r
<1> QED BY <1>2, <1>3

\* A step of one request that changes no table.
Quiet(t) ==
    /\ UNCHANGED <<row, events, tags, reopens, edited>>
    /\ \E r : /\ req' = [req EXCEPT ![t] = r]
              /\ Fits(r)
              /\ r.pc = "locked" => ~Locked(r.task) \/ (req[t].pc = "locked" /\ r.task = req[t].task)

LEMMA ClientIsQuiet == ASSUME IInv, NEW t \in Threads, Client(t) PROVE Quiet(t)
<1> USE TasksAssumption, Records
<1>1. ASSUME NEW user \in Users, NEW x \in Tasks, NEW op, NEW key \in Keys \cup {NoKey},
             Ask(t, user, op, x, key), op = "complete" => key \in Keys
      PROVE  Quiet(t)
  <2> DEFINE r == [NoRequest EXCEPT !.pc = "sent", !.op = op, !.user = user, !.task = x,
                                    !.key = key, !.intent = key]
  <2>1. op \in {"complete", "reopen", "delete"}
    BY <1>1 DEF Ask
  <2>2. /\ r \in Request /\ r.pc = "sent" /\ r.undisturbed = FALSE /\ r.op = op /\ r.task = x
        /\ r.key = key /\ r.intent = key
    BY <2>1 DEF Request, Ops
  <2>3. Fits(r)
    BY <1>1, <2>1, <2>2, SentFits
  <2> QED BY <1>1, <2>2, <2>3 DEF Ask, Begin, Quiet
<1>2. ASSUME NEW user \in Users, NEW x \in Tasks, NEW want \in SUBSET TagValues, AskTags(t, user, x, want)
      PROVE  Quiet(t)
  <2> DEFINE r == [NoRequest EXCEPT !.pc = "sent", !.op = "tag", !.user = user, !.task = x,
                                    !.want = want, !.by = edits + 1]
  <2>1. edits + 1 \in Nat
    BY DEF IInv, TypeOK
  <2>2. r \in Request /\ r.pc = "sent" /\ r.undisturbed = FALSE /\ r.op = "tag" /\ r.task = x
    BY <2>1 DEF Request, Ops
  <2>3. Fits(r)
    BY <2>2, SentFits
  <2> QED BY <1>2, <2>2, <2>3 DEF AskTags, Begin, Quiet
<1>3. ASSUME NEW user \in Users, NEW want \in SUBSET TagValues, AskCreate(t, user, want)
      PROVE  Quiet(t)
  <2> DEFINE r == [NoRequest EXCEPT !.pc = "sent", !.op = "create", !.user = user, !.want = want]
  <2>1. r \in Request /\ r.pc = "sent" /\ r.undisturbed = FALSE /\ r.op = "create"
    BY DEF Request, Ops
  <2>2. Fits(r)
    BY <2>1, SentFits
  <2> QED BY <1>3, <2>1, <2>2 DEF AskCreate, Begin, Quiet
<1>4. ASSUME NEW b \in Tabs, Refresh(t, b) PROVE Quiet(t)
  BY <1>4, ListFits DEF Refresh, Begin, Quiet
<1>5. ASSUME NEW b \in Tabs, NEW x \in Tasks, Click(t, b, x) PROVE Quiet(t)
  <2>1. CASE Begin(t, [NoRequest EXCEPT !.pc = "sent", !.op = "reopen", !.tab = b, !.task = x])
    <3> DEFINE r == [NoRequest EXCEPT !.pc = "sent", !.op = "reopen", !.tab = b, !.task = x]
    <3>1. r \in Request /\ r.pc = "sent" /\ r.undisturbed = FALSE /\ r.op = "reopen" /\ r.task = x
      BY DEF Request, Ops
    <3>2. Fits(r)
      BY <3>1, SentFits
    <3> QED BY <1>5, <2>1, <3>1, <3>2 DEF Click, Begin, Quiet
  <2>2. ASSUME NEW k \in KeyFor(b, x), NEW i, i = IF intent[b][x] = NoKey THEN k ELSE intent[b][x],
               Begin(t, [NoRequest EXCEPT !.pc = "sent", !.op = "complete", !.tab = b,
                                          !.task = x, !.key = k, !.intent = i])
        PROVE  Quiet(t)
    <3> DEFINE r == [NoRequest EXCEPT !.pc = "sent", !.op = "complete", !.tab = b,
                                          !.task = x, !.key = k, !.intent = i]
    <3>1. k \in Keys /\ i = k
      BY <2>2 DEF KeyFor, IInv, TypeOK, KeysAreKept
    <3>2. /\ r \in Request /\ r.pc = "sent" /\ r.undisturbed = FALSE /\ r.op = "complete" /\ r.task = x
          /\ r.key = k /\ r.intent = k
      BY <3>1 DEF Request, Ops
    <3>3. Fits(r)
      BY <3>1, <3>2, SentFits
    <3> QED BY <1>5, <2>2, <3>2, <3>3 DEF Click, Begin, Quiet
  <2> QED BY <1>5, <2>1, <2>2 DEF Click
<1> QED BY <1>1, <1>2, <1>3, <1>4, <1>5 DEF Client

\* The steps of a handler and of a tab that change no table.
LEMMA RestIsQuiet ==
    ASSUME IInv, NEW t \in Threads,
           \/ Load(t) \/ LoadList(t) \/ Lock(t) \/ ToldOfChange(t) \/ ToldOfList(t) \/ Lose(t) \/ Drop(t)
           \/ Complete(t) /\ (Replayed(t) \/ req[t].row.status = "completed")
           \/ Reopen(t) /\ req[t].row.status = "active"
           \/ EditTags(t) /\ AlreadyThere(t)
    PROVE  Quiet(t)
<1>0. Fits(req[t]) /\ req[t] \in Request
  BY DEF IInv, RequestsFit, Fits
<1>1. ASSUME NEW ok \in BOOLEAN, Unchanged(t, ok), UNCHANGED <<row, events, tags, reopens, edited>>,
             req[t].op = "complete" /\ ok => Logged(req[t])
      PROVE  Quiet(t)
  BY <1>1, AnswerFits DEF Unchanged, Become, Quiet
<1>2. ASSUME NEW r, Become(t, r), Fits(r), r.pc # "locked", UNCHANGED <<row, events, tags, reopens, edited>>
      PROVE  Quiet(t)
  BY <1>2 DEF Become, Quiet
<1>3. CASE Load(t)
  <2> DEFINE r == [req[t] EXCEPT !.pc = "loaded", !.row = row[req[t].task],
                                 !.old = IF req[t].op = "tag" THEN tags[req[t].task] ELSE {}]
  <2>1. UNCHANGED <<row, events, tags, reopens, edited>>
    BY <1>3 DEF Load
  <2>2. CASE ~Owned(req[t].task, req[t].user)
    BY <1>1, <1>3, <2>1, <2>2 DEF Load
  <2>3. CASE Owned(req[t].task, req[t].user)
    <3>1. req[t].task \in Tasks /\ req[t].op \notin {"create", "list"} /\ req[t].pc = "sent"
      BY <1>0, <1>3 DEF Load, Fits
    <3>2. row[req[t].task] \in TaskRow /\ tags[req[t].task] \in SUBSET TaskTag
      BY <3>1 DEF IInv, TypeOK
    <3>3. /\ r \in Request /\ r.pc = "loaded" /\ r.op = req[t].op /\ r.task = req[t].task
          /\ r.key = req[t].key /\ r.intent = req[t].intent /\ r.user = req[t].user
          /\ r.undisturbed = req[t].undisturbed /\ r.list = req[t].list
      BY <1>0, <3>2 DEF Request
    <3>4. Become(t, r)
      BY <1>3, <2>3 DEF Load
    <3> HIDE DEF r
    <3>5. Fits(r)
      BY <1>0, <2>3, <3>1, <3>3 DEF Fits, Owned
    <3> QED BY <1>2, <2>1, <3>3, <3>4, <3>5
  <2> QED BY <2>2, <2>3
<1>4. CASE LoadList(t)
  <2> DEFINE r == [req[t] EXCEPT !.pc = "answer", !.ok = TRUE, !.list = Listed(req[t].user),
                                 !.undisturbed = TRUE]
  <2>1. Listed(req[t].user) \in [Tasks -> {"none", "active", "completed"}]
    BY DEF Listed, IInv, TypeOK, TaskRow
  <2>2. req[t].op = "list" /\ req[t].user = TabUser
    BY <1>0, <1>4 DEF LoadList, Fits
  <2>3. /\ r \in Request /\ r.pc = "answer" /\ r.op = "list" /\ r.user = TabUser
        /\ r.list = Listed(TabUser)
    BY <1>0, <2>1, <2>2 DEF Request
  <2>4. Become(t, r)
    BY <1>4 DEF LoadList
  <2> HIDE DEF r
  <2>5. Fits(r)
    BY <2>3 DEF Fits
  <2> QED BY <1>2, <1>4, <2>3, <2>4, <2>5 DEF LoadList
<1>5. CASE Lock(t)
  <2> DEFINE x == req[t].task  r == [req[t] EXCEPT !.pc = "locked", !.row = row[x]]
  <2>1. UNCHANGED <<row, events, tags, reopens, edited>> /\ ~Locked(x)
    BY <1>5 DEF Lock
  <2>2. CASE row[x].deleted
    BY <1>1, <1>5, <2>1, <2>2 DEF Lock
  <2>3. CASE ~row[x].deleted
    <3>1. x \in Tasks /\ req[t].op \in {"complete", "reopen"} /\ req[t].pc = "loaded"
      BY <1>0, <1>5 DEF Lock, Fits
    <3>2. row[x] \in TaskRow
      BY <3>1 DEF IInv, TypeOK
    <3>3. /\ r \in Request /\ r.pc = "locked" /\ r.op = req[t].op /\ r.task = x
          /\ r.key = req[t].key /\ r.intent = req[t].intent /\ r.user = req[t].user
          /\ r.undisturbed = req[t].undisturbed /\ r.list = req[t].list /\ r.row = row[x]
      BY <1>0, <3>2 DEF Request
    <3>4. Become(t, r)
      BY <1>5, <2>3 DEF Lock
    <3> HIDE DEF r
    <3>5. Fits(r)
      BY <1>0, <2>3, <3>1, <3>3 DEF Fits
    <3> QED BY <2>1, <3>3, <3>4, <3>5 DEF Become, Quiet
  <2> QED BY <2>2, <2>3
<1>6. CASE Complete(t) /\ (Replayed(t) \/ req[t].row.status = "completed")
  <2>1. /\ UNCHANGED <<row, events, tags, reopens, edited>> /\ Unchanged(t, Replayed(t))
        /\ req[t].op = "complete"
    BY <1>6 DEF Complete
  <2>2. Replayed(t) \in BOOLEAN
    BY Zenon DEF Replayed
  <2>3. Replayed(t) => Logged(req[t])
    BY <1>0, <2>1 DEF Replayed, Logged, Fits, IInv, KeysAreUnique
  <2> QED BY <1>1, <2>1, <2>2, <2>3
<1>7. CASE Reopen(t) /\ req[t].row.status = "active"
  BY <1>1, <1>7 DEF Reopen
<1>8. CASE EditTags(t) /\ AlreadyThere(t)
  BY <1>1, <1>8 DEF EditTags
<1>9. CASE ToldOfChange(t)
  <2>1. UNCHANGED <<row, events, tags, reopens, edited>>
    BY <1>9 DEF ToldOfChange
  <2>2. Become(t, NoRequest) \/ Become(t, ListFor(req[t].tab, req[t].task))
    BY <1>9 DEF ToldOfChange
  <2>3. req[t].tab \in Tabs \cup {NoTab} /\ req[t].task \in Tasks \cup {NoTask}
    BY <1>0 DEF Request
  <2> QED BY <1>2, <2>1, <2>2, <2>3, NoRequestFits, ListFits, Records
<1>10. CASE ToldOfList(t) \/ Drop(t)
  BY <1>2, <1>10, NoRequestFits, Records DEF ToldOfList, Drop
<1>11. CASE Lose(t)
  <2> DEFINE r == [req[t] EXCEPT !.tab = NoTab]
  <2>1. /\ r \in Request /\ r.pc = req[t].pc /\ r.op = req[t].op /\ r.task = req[t].task
        /\ r.key = req[t].key /\ r.intent = req[t].intent /\ r.user = req[t].user
        /\ r.undisturbed = req[t].undisturbed /\ r.list = req[t].list /\ r.row = req[t].row
        /\ r.ok = req[t].ok
    BY <1>0 DEF Request
  <2>2. Become(t, r) /\ UNCHANGED <<row, events, tags, reopens, edited>>
    BY <1>11 DEF Lose
  <2> HIDE DEF r
  <2>3. Fits(r)
    BY <1>0, <2>1 DEF Fits, Logged
  <2> QED BY <2>1, <2>2, <2>3 DEF Become, Quiet
<1> QED BY <1>3, <1>4, <1>5, <1>6, <1>7, <1>8, <1>9, <1>10, <1>11

\* What is left once the variables of the tabs are set aside.
Tables ==
    /\ RequestsFit /\ LocksExclude /\ KeysAreUnique /\ UnbornIsNotDeleted
    /\ LogAndTaskAgree /\ TagsAreThoseOfTheLastEdit

LEMMA QuietKeeps ==
    ASSUME IInv, NEW t \in Threads, Quiet(t)
    PROVE  Tables' /\ req' \in [Threads -> Request]
<1> USE DEF IInv
<1>1. PICK r : /\ req' = [req EXCEPT ![t] = r] /\ Fits(r)
               /\ r.pc = "locked" => ~Locked(r.task) \/ (req[t].pc = "locked" /\ r.task = req[t].task)
  BY DEF Quiet
<1>2. UNCHANGED <<row, events, tags, reopens, edited>>
  BY DEF Quiet
<1>3. req'[t] = r /\ (\A u \in Threads : u = t \/ req'[u] = req[u]) /\ req' \in [Threads -> Request]
  BY <1>1 DEF TypeOK, Fits
<1>4. \A u \in Threads : Fits(req'[u])
  BY <1>1, <1>3 DEF RequestsFit
<1>5. RequestsFit'
  BY <1>2, <1>4 DEF RequestsFit, Fits, Logged, Listed, Owned
<1>6. LocksExclude'
  <2> SUFFICES ASSUME NEW u \in Threads, NEW v \in Threads, req'[u].pc = "locked", req'[v].pc = "locked",
                      req'[u].task = req'[v].task, u # v
               PROVE  FALSE
    BY DEF LocksExclude
  <2>1. \A w \in Threads : w # t /\ req'[w].pc = "locked" => Locked(req'[w].task)
    BY <1>3 DEF Locked
  <2> QED BY <1>1, <1>3, <2>1 DEF LocksExclude
<1>7. KeysAreUnique' /\ UnbornIsNotDeleted' /\ LogAndTaskAgree' /\ TagsAreThoseOfTheLastEdit'
  BY <1>2 DEF KeysAreUnique, UnbornIsNotDeleted, LogAndTaskAgree, TagsAreThoseOfTheLastEdit, Values
<1> QED BY <1>3, <1>5, <1>6, <1>7 DEF Tables

-----------------------------------------------------------------------------
(* Steps that change a task.                                                *)

\* A change of task x, seen from the requests.
LEMMA ChangedFits ==
    ASSUME IInv, NEW t \in Threads, NEW x \in Tasks, Changed(t), req[t].op # "list",
           \A y \in Tasks : y # x => row'[y] = row[y] /\ events'[y] = events[y],
           row[x].status # "none" => row'[x].status # "none" /\ row'[x].owner = row[x].owner,
           \A u \in Threads : u # t /\ req[u].pc = "locked" => req[u].task # x,
           \A i \in DOMAIN events[x] : i \in DOMAIN events'[x] /\ events'[x][i] = events[x][i],
           req[t].op = "complete" =>
             req[t].task = x /\ \E i \in DOMAIN events'[x] : events'[x][i].intent = req[t].intent
    PROVE  RequestsFit' /\ LocksExclude' /\ req' \in [Threads -> Request]
<1> USE DEF IInv
<1>0. \A u \in Threads : Fits(req[u])
  BY DEF RequestsFit
<1>1. \A u \in Threads : req'[u] = IF u = t THEN Answer(t, TRUE) ELSE [req[u] EXCEPT !.undisturbed = FALSE]
  BY DEF Changed
<1>2. ASSUME NEW u \in Threads, u # t
      PROVE  /\ Fits(req[u])' /\ req'[u] \in Request
             /\ req'[u].pc = req[u].pc /\ req'[u].task = req[u].task
  <2>1. /\ req'[u] \in Request /\ req'[u].undisturbed = FALSE /\ req'[u].pc = req[u].pc
        /\ req'[u].op = req[u].op /\ req'[u].user = req[u].user /\ req'[u].task = req[u].task
        /\ req'[u].key = req[u].key /\ req'[u].intent = req[u].intent /\ req'[u].row = req[u].row
        /\ req'[u].ok = req[u].ok
    <3>1. req[u] \in Request
      BY DEF TypeOK
    <3>2. req'[u] = [req[u] EXCEPT !.undisturbed = FALSE]
      BY <1>1, <1>2
    <3> QED BY ONLY <3>1, <3>2 DEF Request
  <2>2. req[u].op \notin {"create", "list"} => req[u].task \in Tasks
    BY <1>0 DEF Fits
  <2>3. req[u].pc \in {"loaded", "locked"} =>
          /\ req[u].op \notin {"create", "list"}
          /\ row'[req[u].task].status # "none" /\ row'[req[u].task].owner = req[u].user
    BY <1>0, <2>2 DEF Fits
  <2>4. req[u].pc = "locked" =>
          req[u].op \in {"complete", "reopen"} /\ req[u].row = row'[req[u].task] /\ ~row'[req[u].task].deleted
    BY <1>0, <1>2, <2>2 DEF Fits
  <2>5. req[u].pc = "answer" /\ req[u].op = "complete" /\ req[u].ok =>
          \E i \in DOMAIN events'[req[u].task] : events'[req[u].task][i].intent = req[u].intent
    BY <1>0, <2>2 DEF Fits, Logged
  <2>6. req[u].op = "list" => req[u].user = TabUser
    BY <1>0 DEF Fits
  <2>7. req[u].op = "complete" => req[u].key \in Keys /\ req[u].intent = req[u].key
    BY <1>0 DEF Fits
  <2> QED BY <2>1, <2>2, <2>3, <2>4, <2>5, <2>6, <2>7 DEF Fits, Logged
<1>3. Fits(req[t])' /\ req'[t] \in Request /\ req'[t].pc # "locked"
  <2>1. req'[t] = Answer(t, TRUE)
    BY <1>1
  <2>2. CASE req[t].tab = NoTab
    <3>1. req'[t] = NoRequest
      BY <2>1, <2>2 DEF Answer
    <3> QED BY <3>1, Records DEF Fits
  <2>3. CASE req[t].tab # NoTab
    <3>1. req'[t] = [req[t] EXCEPT !.pc = "answer", !.ok = TRUE, !.row = Unborn, !.old = {}]
      BY <2>1, <2>3 DEF Answer
    <3>1a. req'[t] \in Request
      <4>1. req[t] \in Request /\ Unborn \in TaskRow
        BY Records DEF TypeOK
      <4> QED BY ONLY <3>1, <4>1 DEF Request
    <3>2. /\ req'[t].pc = "answer" /\ req'[t].op = req[t].op
          /\ req'[t].task = req[t].task /\ req'[t].undisturbed = req[t].undisturbed
          /\ req'[t].key = req[t].key /\ req'[t].intent = req[t].intent
      <4>1. req[t] \in Request
        BY DEF TypeOK
      <4> QED BY ONLY <3>1, <4>1 DEF Request
    <3>3. /\ req[t].undisturbed = FALSE
          /\ req[t].op \notin {"create", "list"} => req[t].task \in Tasks
          /\ req[t].op = "complete" => req[t].key \in Keys /\ req[t].intent = req[t].key
      BY <1>0 DEF Fits, Request
    <3> QED BY <3>1a, <3>2, <3>3 DEF Fits, Logged
  <2> QED BY <2>2, <2>3
<1>4. req' \in [Threads -> Request]
  BY <1>2, <1>3 DEF Changed
<1>5. LocksExclude'
  BY <1>2, <1>3 DEF LocksExclude
<1> QED BY <1>2, <1>3, <1>4, <1>5 DEF RequestsFit

LEMMA CreateKeeps ==
    ASSUME IInv, NEW t \in Threads, Create(t)
    PROVE  /\ Tables' /\ req' \in [Threads -> Request]
           /\ row' \in [Tasks -> TaskRow] /\ tags' \in [Tasks -> SUBSET TaskTag]
           /\ edited' \in [Tasks -> [want: SUBSET TagValues, saw: BOOLEAN]]
<1> USE DEF IInv, TypeOK
<1>1. PICK x \in Tasks :
          /\ row[x].status = "none"
          /\ row' = [row EXCEPT ![x] = [Unborn EXCEPT !.status = "active", !.owner = req[t].user]]
          /\ tags' = [tags EXCEPT ![x] = [value: req[t].want, by: {0}]]
          /\ edited' = [edited EXCEPT ![x] = [want |-> req[t].want, saw |-> TRUE]]
  BY DEF Create
<1>2. req[t].op = "create" /\ Changed(t) /\ UNCHANGED <<events, reopens>> /\ req[t] \in Request
  BY DEF Create
<1>3. /\ row'[x] \in TaskRow /\ row'[x].status = "active" /\ ~row'[x].deleted /\ row'[x].completedAt = 0
      /\ \A y \in Tasks : y # x => row'[y] = row[y]
  BY <1>1, <1>2, Records DEF TaskRow, Request
<1>4. RequestsFit' /\ LocksExclude' /\ req' \in [Threads -> Request]
  <2>1. \A u \in Threads : req[u].pc = "locked" => req[u].task # x
    BY <1>1 DEF RequestsFit, Fits
  <2>2. \A y \in Tasks : y # x => row'[y] = row[y] /\ events'[y] = events[y]
    BY <1>2, <1>3
  <2>3. row[x].status = "none" /\ events'[x] = events[x] /\ req[t].op = "create"
    BY <1>1, <1>2
  <2> HIDE DEF IInv, TypeOK
  <2> QED BY <1>2, <2>1, <2>2, <2>3, ChangedFits
<1>5. row' \in [Tasks -> TaskRow]
  BY <1>1, <1>3
<1>6. /\ tags' \in [Tasks -> SUBSET TaskTag]
      /\ edited' \in [Tasks -> [want: SUBSET TagValues, saw: BOOLEAN]]
  BY <1>1, <1>2 DEF Request, TaskTag
<1>7. KeysAreUnique' /\ UnbornIsNotDeleted'
  BY <1>2, <1>3 DEF KeysAreUnique, UnbornIsNotDeleted
<1>8. LogAndTaskAgree'
  <2>1. \A y \in Tasks :
          /\ Len(events[y]) = reopens[y] + (IF row'[y].status = "completed" THEN 1 ELSE 0)
          /\ row'[y].completedAt = IF row'[y].status = "completed" THEN Len(events[y]) ELSE 0
    BY <1>1, <1>3 DEF LogAndTaskAgree
  <2> QED BY <1>2, <2>1 DEF LogAndTaskAgree
<1>9. TagsAreThoseOfTheLastEdit'
  <2>1. tags'[x] = [value: req[t].want, by: {0}] /\ edited'[x].want = req[t].want
    BY <1>1
  <2>2. Values(tags'[x]) = req[t].want
    <3>1. \A v \in req[t].want : [value |-> v, by |-> 0] \in tags'[x]
      BY <2>1
    <3>2. \A v \in req[t].want : \E w \in tags'[x] : w.value = v
      BY <3>1
    <3> QED BY ONLY <2>1, <3>2 DEF Values
  <2>3. \A r, s \in tags'[x] : r.value = s.value => r = s
    <3>1. \A r \in tags'[x] : r = [value |-> r.value, by |-> 0]
      BY <2>1
    <3> QED BY ONLY <3>1
  <2>4. \A y \in Tasks : y # x => tags'[y] = tags[y] /\ edited'[y] = edited[y]
    BY <1>1
  <2> QED BY <2>1, <2>2, <2>3, <2>4 DEF TagsAreThoseOfTheLastEdit, Values
<1> QED BY <1>4, <1>5, <1>6, <1>7, <1>8, <1>9 DEF Tables

LEMMA CompleteKeeps ==
    ASSUME IInv, NEW t \in Threads, Complete(t), ~Replayed(t), req[t].row.status # "completed"
    PROVE  /\ Tables' /\ req' \in [Threads -> Request]
           /\ row' \in [Tasks -> TaskRow] /\ events' \in [Tasks -> Seq(CompletionEvent)]
<1> USE DEF IInv, TypeOK
<1> DEFINE x == req[t].task  event == [key |-> req[t].key, intent |-> req[t].intent]
           n == Len(events[x]) + 1
<1>1. /\ req[t].op = "complete" /\ req[t].pc = "locked" /\ Changed(t) /\ UNCHANGED <<tags, edited, reopens>>
      /\ events' = [events EXCEPT ![x] = Append(@, event)]
      /\ row' = [row EXCEPT ![x] = [@ EXCEPT !.status = "completed", !.completedAt = n]]
  BY DEF Complete
<1>2. /\ x \in Tasks /\ req[t].key \in Keys /\ req[t].intent = req[t].key
      /\ row[x].status = "active"
  BY <1>1 DEF RequestsFit, Fits, TaskRow
<1>3. events[x] \in Seq(CompletionEvent) /\ event \in CompletionEvent
  BY <1>2 DEF CompletionEvent
<1>4. /\ events'[x] = Append(events[x], event) /\ events'[x] \in Seq(CompletionEvent)
      /\ DOMAIN events[x] = 1 .. (n - 1) /\ DOMAIN events'[x] = 1 .. n /\ n \in Nat /\ n >= 1
      /\ events'[x][n] = event /\ \A i \in 1 .. (n - 1) : events'[x][i] = events[x][i]
      /\ Len(events'[x]) = n
  BY <1>1, <1>2, <1>3
<1>5. \A y \in Tasks : y # x => row'[y] = row[y] /\ events'[y] = events[y]
  BY <1>1
<1> HIDE DEF n
<1>6. row'[x] \in TaskRow /\ row'[x].status = "completed" /\ row'[x].completedAt = n
      /\ row'[x].owner = row[x].owner
  <2>1. row[x] \in TaskRow /\ row'[x] = [row[x] EXCEPT !.status = "completed", !.completedAt = n]
    BY <1>1, <1>2
  <2>2. n \in Nat
    BY <1>4
  <2> HIDE DEF x
  <2> QED BY ONLY <2>1, <2>2 DEF TaskRow
<1>7. row' \in [Tasks -> TaskRow] /\ events' \in [Tasks -> Seq(CompletionEvent)]
  BY <1>1, <1>4, <1>5, <1>6
<1>8. RequestsFit' /\ LocksExclude' /\ req' \in [Threads -> Request]
  <2>1. \A u \in Threads : u # t /\ req[u].pc = "locked" => req[u].task # x
    BY <1>1 DEF LocksExclude
  <2>2. \E i \in DOMAIN events'[x] : events'[x][i].intent = req[t].intent
    <3>1. n \in DOMAIN events'[x] /\ events'[x][n].intent = req[t].intent
      BY <1>4
    <3> QED BY <3>1
  <2>3. \A i \in DOMAIN events[x] : i \in DOMAIN events'[x] /\ events'[x][i] = events[x][i]
    BY <1>4
  <2>4. row'[x].status # "none" /\ row'[x].owner = row[x].owner /\ req[t].op # "list" /\ req[t].task = x
    BY <1>1, <1>6
  <2> HIDE DEF x
  <2> HIDE DEF IInv, TypeOK
  <2> QED BY <1>1, <1>2, <1>5, <2>1, <2>2, <2>3, <2>4, ChangedFits
<1>9. KeysAreUnique'
  <2>1. \A i \in DOMAIN events[x] : events[x][i].key # req[t].key
    BY DEF Replayed
  <2>2. \A i \in DOMAIN events'[x] :
          /\ events'[x][i].key = events'[x][i].intent
          /\ \A j \in DOMAIN events'[x] : events'[x][i].key = events'[x][j].key => i = j
    <3> SUFFICES ASSUME NEW i \in 1 .. n
                 PROVE  /\ events'[x][i].key = events'[x][i].intent
                        /\ \A j \in 1 .. n : events'[x][i].key = events'[x][j].key => i = j
      BY <1>4
    <3>1. i \in 1 .. (n - 1) \/ i = n
      BY <1>4
    <3>2. \A j \in 1 .. n : j \in 1 .. (n - 1) \/ j = n
      BY <1>4
    <3>3. \A j \in 1 .. (n - 1) : /\ events[x][j].key = events[x][j].intent
                                  /\ \A k \in 1 .. (n - 1) : events[x][j].key = events[x][k].key => j = k
      BY <1>2, <1>4 DEF KeysAreUnique
    <3>4. events'[x][n].key = req[t].key /\ events'[x][n].intent = req[t].key
      BY <1>2, <1>4
    <3>5. \A j \in 1 .. (n - 1) : events'[x][j] = events[x][j] /\ events[x][j].key # req[t].key
      BY <1>4, <2>1
    <3> HIDE DEF x
    <3> QED BY ONLY <3>1, <3>2, <3>3, <3>4, <3>5
  <2>3. \A y \in Tasks : y = x \/ events'[y] = events[y]
    BY <1>5
  <2> HIDE DEF x
  <2>4. \A y \in Tasks : \A i \in DOMAIN events[y] :
          /\ events[y][i].key = events[y][i].intent
          /\ \A j \in DOMAIN events[y] : events[y][i].key = events[y][j].key => i = j
    BY DEF KeysAreUnique
  <2> QED BY ONLY <2>2, <2>3, <2>4 DEF KeysAreUnique
<1>10. UnbornIsNotDeleted'
  BY <1>5, <1>6 DEF UnbornIsNotDeleted
<1>11. LogAndTaskAgree'
  <2>1. Len(events[x]) = reopens[x]
    <3>1. Len(events[x]) = reopens[x] + 0 /\ reopens[x] \in Nat
      BY <1>2 DEF LogAndTaskAgree
    <3> QED BY <3>1
  <2>2. Len(events[x]) + 1 = n
    BY DEF n
  <2> QED BY <1>1, <1>4, <1>5, <1>6, <2>1, <2>2 DEF LogAndTaskAgree
<1>12. TagsAreThoseOfTheLastEdit'
  BY <1>1 DEF TagsAreThoseOfTheLastEdit, Values
<1> QED BY <1>7, <1>8, <1>9, <1>10, <1>11, <1>12 DEF Tables

LEMMA ReopenKeeps ==
    ASSUME IInv, NEW t \in Threads, Reopen(t), req[t].row.status # "active"
    PROVE  /\ Tables' /\ req' \in [Threads -> Request]
           /\ row' \in [Tasks -> TaskRow] /\ reopens' \in [Tasks -> Nat]
<1> USE DEF IInv, TypeOK
<1> DEFINE x == req[t].task
<1>1. /\ req[t].op = "reopen" /\ req[t].pc = "locked" /\ Changed(t) /\ UNCHANGED <<events, tags, edited>>
      /\ row' = [row EXCEPT ![x] = [@ EXCEPT !.status = "active", !.completedAt = 0]]
      /\ reopens' = [reopens EXCEPT ![x] = @ + 1]
  BY DEF Reopen
<1>2. x \in Tasks /\ row[x].status = "completed"
  BY <1>1 DEF RequestsFit, Fits, TaskRow
<1>3. /\ row'[x] \in TaskRow /\ row'[x].status = "active" /\ row'[x].completedAt = 0
      /\ row'[x].owner = row[x].owner
  <2>1. row[x] \in TaskRow /\ row'[x] = [row[x] EXCEPT !.status = "active", !.completedAt = 0]
    BY <1>1, <1>2
  <2> HIDE DEF x
  <2>2. row'[x] \in TaskRow
    <3>1. \A w \in TaskRow : [w EXCEPT !.status = "active", !.completedAt = 0] \in TaskRow
      BY ONLY TRUE DEF TaskRow
    <3> QED BY <2>1, <3>1
  <2>3. row'[x].status = "active" /\ row'[x].completedAt = 0 /\ row'[x].owner = row[x].owner
    BY ONLY <2>1 DEF TaskRow
  <2> QED BY <2>2, <2>3
<1>4. \A y \in Tasks : y # x => row'[y] = row[y] /\ reopens'[y] = reopens[y]
  BY <1>1
<1>5. row' \in [Tasks -> TaskRow] /\ reopens' \in [Tasks -> Nat] /\ reopens'[x] = reopens[x] + 1
  <2>1. reopens' \in [Tasks -> Nat] /\ reopens'[x] = reopens[x] + 1
    BY <1>1, <1>2
  <2> HIDE DEF x
  <2>2. row' \in [Tasks -> TaskRow]
    BY <1>1, <1>3, <1>4
  <2> QED BY <2>1, <2>2
<1>6. RequestsFit' /\ LocksExclude' /\ req' \in [Threads -> Request]
  <2>1. \A u \in Threads : u # t /\ req[u].pc = "locked" => req[u].task # x
    BY <1>1 DEF LocksExclude
  <2> HIDE DEF x, IInv, TypeOK
  <2> QED BY <1>1, <1>2, <1>3, <1>4, <2>1, ChangedFits
<1>7. KeysAreUnique' /\ UnbornIsNotDeleted' /\ TagsAreThoseOfTheLastEdit'
  BY <1>1, <1>3, <1>4 DEF KeysAreUnique, UnbornIsNotDeleted, TagsAreThoseOfTheLastEdit, Values
<1>8. LogAndTaskAgree'
  <2>1. Len(events[x]) = reopens[x] + 1 /\ reopens[x] \in Nat
    BY <1>2 DEF LogAndTaskAgree
  <2>2. \A y \in Tasks :
          /\ Len(events[y]) = reopens'[y] + (IF row'[y].status = "completed" THEN 1 ELSE 0)
          /\ row'[y].completedAt = IF row'[y].status = "completed" THEN Len(events[y]) ELSE 0
    <3>1. ASSUME NEW y \in Tasks, y # x
          PROVE  /\ Len(events[y]) = reopens'[y] + (IF row'[y].status = "completed" THEN 1 ELSE 0)
                 /\ row'[y].completedAt = IF row'[y].status = "completed" THEN Len(events[y]) ELSE 0
      BY <1>4, <3>1 DEF LogAndTaskAgree
    <3>2. /\ Len(events[x]) = reopens'[x] + 0
          /\ row'[x].completedAt = 0 /\ row'[x].status = "active"
      BY <1>3, <1>5, <2>1
    <3> HIDE DEF x
    <3> QED BY <3>1, <3>2
  <2> QED BY <1>1, <2>2 DEF LogAndTaskAgree
<1> QED BY <1>5, <1>6, <1>7, <1>8 DEF Tables

LEMMA DeleteKeeps ==
    ASSUME IInv, NEW t \in Threads, Delete(t)
    PROVE  /\ Tables' /\ req' \in [Threads -> Request] /\ row' \in [Tasks -> TaskRow]
<1> USE DEF IInv, TypeOK
<1> DEFINE x == req[t].task
<1>1. /\ req[t].op = "delete" /\ req[t].pc = "loaded" /\ Changed(t) /\ ~Locked(x)
      /\ UNCHANGED <<events, tags, edited, reopens>>
      /\ row' = [row EXCEPT ![x] = [@ EXCEPT !.deleted = TRUE]]
  BY DEF Delete
<1>2. x \in Tasks /\ row[x].status # "none"
  BY <1>1 DEF RequestsFit, Fits
<1>3. /\ row'[x] \in TaskRow /\ row'[x].status = row[x].status
      /\ row'[x].completedAt = row[x].completedAt /\ row'[x].owner = row[x].owner
  <2>1. row[x] \in TaskRow /\ row'[x] = [row[x] EXCEPT !.deleted = TRUE]
    BY <1>1, <1>2
  <2> HIDE DEF x
  <2> QED BY ONLY <2>1 DEF TaskRow
<1>4. \A y \in Tasks : y # x => row'[y] = row[y]
  BY <1>1
<1>5. row' \in [Tasks -> TaskRow]
  BY <1>1, <1>3, <1>4
<1>6. RequestsFit' /\ LocksExclude' /\ req' \in [Threads -> Request]
  <2>1. \A u \in Threads : u # t /\ req[u].pc = "locked" => req[u].task # x
    BY <1>1 DEF Locked
  <2> HIDE DEF x, IInv, TypeOK
  <2> QED BY <1>1, <1>2, <1>3, <1>4, <2>1, ChangedFits
<1>7. KeysAreUnique' /\ UnbornIsNotDeleted' /\ TagsAreThoseOfTheLastEdit'
  BY <1>1, <1>2, <1>3, <1>4 DEF KeysAreUnique, UnbornIsNotDeleted, TagsAreThoseOfTheLastEdit, Values
<1>8. LogAndTaskAgree'
  <2>1. \A y \in Tasks : row'[y].status = row[y].status /\ row'[y].completedAt = row[y].completedAt
    BY <1>3, <1>4
  <2> QED BY <1>1, <2>1 DEF LogAndTaskAgree
<1> QED BY <1>5, <1>6, <1>7, <1>8 DEF Tables

LEMMA EditTagsKeeps ==
    ASSUME IInv, NEW t \in Threads, EditTags(t), ~AlreadyThere(t)
    PROVE  /\ Tables' /\ req' \in [Threads -> Request]
           /\ tags' \in [Tasks -> SUBSET TaskTag]
           /\ edited' \in [Tasks -> [want: SUBSET TagValues, saw: BOOLEAN]]
<1> USE DEF IInv, TypeOK
<1> DEFINE x == req[t].task
<1>1. /\ req[t].op = "tag" /\ req[t].pc = "loaded" /\ Unchanged(t, TRUE)
      /\ UNCHANGED <<row, events, reopens>>
      /\ tags' = [tags EXCEPT ![x] = TagsAfter(t)]
      /\ edited' = [edited EXCEPT ![x] = [want |-> req[t].want, saw |-> req[t].old = tags[x]]]
  BY DEF EditTags
<1>2. x \in Tasks /\ req[t] \in Request
  BY <1>1 DEF RequestsFit, Fits
<1>3. Fits(Answer(t, TRUE)) /\ Answer(t, TRUE).pc # "locked"
  BY <1>1, AnswerFits
<1>4. req' = [req EXCEPT ![t] = Answer(t, TRUE)]
  BY <1>1 DEF Unchanged, Become
<1>5. req' \in [Threads -> Request] /\ \A u \in Threads : Fits(req'[u])
  BY <1>3, <1>4 DEF Fits, RequestsFit
<1>6. RequestsFit'
  BY <1>1, <1>5 DEF RequestsFit, Fits, Logged, Listed, Owned
<1>7. LocksExclude'
  BY <1>3, <1>4 DEF LocksExclude
<1>8. KeysAreUnique' /\ UnbornIsNotDeleted' /\ LogAndTaskAgree'
  BY <1>1 DEF KeysAreUnique, UnbornIsNotDeleted, LogAndTaskAgree
<1>9. tags'[x] = (tags[x] \ req[t].old) \cup [value: req[t].want, by: {req[t].by}]
      /\ edited'[x] = [want |-> req[t].want, saw |-> req[t].old = tags[x]]
      /\ \A y \in Tasks : y # x => tags'[y] = tags[y] /\ edited'[y] = edited[y]
  BY <1>1, <1>2 DEF TagsAfter
<1>10. [value: req[t].want, by: {req[t].by}] \subseteq TaskTag /\ req[t].want \in SUBSET TagValues
  BY <1>2 DEF Request, TaskTag
<1>11. tags' \in [Tasks -> SUBSET TaskTag]
  BY <1>1, <1>2, <1>9, <1>10
<1>12. edited' \in [Tasks -> [want: SUBSET TagValues, saw: BOOLEAN]]
  BY <1>1, <1>2, <1>9, <1>10
<1>13. TagsAreThoseOfTheLastEdit'
  <2>1. ASSUME NEW r \in tags'[x], NEW s \in tags'[x], r.value = s.value PROVE r = s
    <3>1. \A w \in [value: req[t].want, by: {req[t].by}] :
             w.value \in req[t].want /\ w = [value |-> w.value, by |-> req[t].by]
      OBVIOUS
    <3>2. \A w \in tags[x] : w.value \notin req[t].want
      BY DEF AlreadyThere, Values
    <3>3. \A w, z \in tags[x] : w.value = z.value => w = z
      BY <1>2 DEF TagsAreThoseOfTheLastEdit
    <3> HIDE DEF x
    <3> QED BY ONLY <1>9, <2>1, <3>1, <3>2, <3>3
  <2>2. edited'[x].saw => Values(tags'[x]) = edited'[x].want
    <3>1. ASSUME req[t].old = tags[x] PROVE Values(tags'[x]) = req[t].want
      <4>1. tags'[x] = [value: req[t].want, by: {req[t].by}]
        BY <1>9, <3>1
      <4>2. \A v \in req[t].want : [value |-> v, by |-> req[t].by] \in tags'[x]
        BY <4>1
      <4>3. \A v \in req[t].want : \E w \in tags'[x] : w.value = v
        BY <4>2
      <4> QED BY ONLY <4>1, <4>3 DEF Values
    <3>2. edited'[x].want = req[t].want /\ edited'[x].saw = (req[t].old = tags[x])
      BY <1>9
    <3> QED BY <3>1, <3>2, Zenon
  <2>3. \A y \in Tasks : y # x =>
          /\ \A r, s \in tags'[y] : r.value = s.value => r = s
          /\ edited'[y].saw => Values(tags'[y]) = edited'[y].want
    BY <1>9 DEF TagsAreThoseOfTheLastEdit
  <2> HIDE DEF x
  <2> QED BY <2>1, <2>2, <2>3 DEF TagsAreThoseOfTheLastEdit, Values
<1> QED BY <1>5, <1>6, <1>7, <1>8, <1>11, <1>12, <1>13 DEF Tables

-----------------------------------------------------------------------------
(* The variables of the tabs.                                               *)

LEMMA StepTabs ==
    ASSUME IInv, NEW t \in Threads,
           Client(t) \/ Handler(t) \/ ToldOfChange(t) \/ ToldOfList(t) \/ Lose(t) \/ Drop(t)
    PROVE  /\ shown' \in [Tabs -> [Tasks -> {"none", "active", "completed"}]]
           /\ saved' \in [Tabs -> [Tasks -> Keys \cup {NoKey}]]
           /\ latest' \in [Tabs -> Threads \cup {NoThread}]
           /\ edits' \in Nat
           /\ intent' = saved'
           /\ current' \in [Tabs -> BOOLEAN]
           /\ NoScreenFallsBack'
<1> USE DEF IInv, TypeOK
<1>0. intent = saved /\ req[t] \in Request
  BY DEF KeysAreKept
<1>1. ASSUME UNCHANGED <<row, shown, current>>
      PROVE  NoScreenFallsBack'
  BY <1>1 DEF NoScreenFallsBack, Listed, Owned
<1>2. ASSUME UNCHANGED shown, \A b \in Tabs : current'[b] = FALSE
      PROVE  NoScreenFallsBack'
  BY <1>2 DEF NoScreenFallsBack
<1>3. CASE \E user \in Users, x \in Tasks :
              \/ \E k \in Keys \ KeysInUse : Ask(t, user, "complete", x, k)
              \/ Ask(t, user, "reopen", x, NoKey)
              \/ Ask(t, user, "delete", x, NoKey)
  BY <1>0, <1>1, <1>3 DEF Ask
<1>4. ASSUME NEW user \in Users, NEW x \in Tasks, NEW want \in SUBSET TagValues, AskTags(t, user, x, want)
      PROVE  /\ UNCHANGED <<row, shown, saved, latest, intent, current>>
             /\ edits' \in Nat
  BY <1>4 DEF AskTags
<1>5. CASE \E user \in Users, want \in SUBSET TagValues : AskCreate(t, user, want)
  BY <1>0, <1>1, <1>5 DEF AskCreate
<1>6. ASSUME NEW b \in Tabs, Refresh(t, b)
      PROVE  /\ UNCHANGED <<row, shown, saved, edits, intent, current>>
             /\ latest' \in [Tabs -> Threads \cup {NoThread}]
  BY <1>6 DEF Refresh
<1>7. ASSUME NEW b \in Tabs, NEW x \in Tasks, Click(t, b, x)
      PROVE  /\ UNCHANGED <<row, shown, latest, edits, current>>
             /\ saved' \in [Tabs -> [Tasks -> Keys \cup {NoKey}]] /\ intent' = saved'
  <2>1. UNCHANGED <<row, shown, latest, edits, current>>
    BY <1>7 DEF Click
  <2>2. CASE UNCHANGED <<saved, intent>>
    BY <1>0, <2>1, <2>2
  <2>3. ASSUME NEW k \in KeyFor(b, x), NEW i, i = IF intent[b][x] = NoKey THEN k ELSE intent[b][x],
               saved' = [saved EXCEPT ![b][x] = k], intent' = [intent EXCEPT ![b][x] = i]
        PROVE  saved' \in [Tabs -> [Tasks -> Keys \cup {NoKey}]] /\ intent' = saved'
    <3>1. k \in Keys /\ i = k
      BY <1>0, <2>3 DEF KeyFor
    <3> QED BY <1>0, <2>3, <3>1
  <2> QED BY <1>7, <2>1, <2>2, <2>3 DEF Click
<1>8. CASE Client(t)
  BY <1>0, <1>1, <1>3, <1>4, <1>5, <1>6, <1>7, <1>8 DEF Client
<1>9. CASE Handler(t)
  <2>1. UNCHANGED <<shown, saved, latest, edits, intent>>
    BY <1>9, Zenon DEF Handler, Create, Load, LoadList, Lock, Complete, Reopen, Delete, EditTags
  <2>2. UNCHANGED <<row, current>> \/ current' = [b \in Tabs |-> FALSE]
    BY <1>9, Zenon DEF Handler, Create, Load, LoadList, Lock, Complete, Reopen, Delete, EditTags,
                       Unchanged, Changed
  <2> QED BY <1>0, <1>1, <1>2, <2>1, <2>2
<1>10. CASE ToldOfChange(t)
  <2>1. UNCHANGED <<row, shown, edits, current>>
    BY <1>10 DEF ToldOfChange
  <2>2. CASE UNCHANGED <<saved, intent, latest>>
    BY <1>0, <1>1, <2>1, <2>2
  <2>3. CASE /\ saved' = [saved EXCEPT ![req[t].tab][req[t].task] = NoKey]
             /\ intent' = [intent EXCEPT ![req[t].tab][req[t].task] = NoKey]
             /\ latest' = [latest EXCEPT ![req[t].tab] = t]
    BY <1>0, <1>1, <2>1, <2>3
  <2> QED BY <1>10, <2>2, <2>3 DEF ToldOfChange
<1>11. CASE ToldOfList(t)
  <2> DEFINE b == req[t].tab
  <2>1. UNCHANGED <<row, saved, latest, edits, intent>> /\ req[t].op = "list"
    BY <1>11 DEF ToldOfList
  <2>2. /\ req[t].list \in [Tasks -> {"none", "active", "completed"}]
        /\ req[t].undisturbed \in BOOLEAN
        /\ req[t].undisturbed => req[t].list = Listed(TabUser)
    BY <1>0 DEF Request, RequestsFit, Fits
  <2>3. CASE UNCHANGED <<shown, current>>
    BY <1>0, <1>1, <2>1, <2>3
  <2>4. CASE /\ shown' = [shown EXCEPT ![b] = req[t].list]
             /\ current' = [current EXCEPT ![b] = req[t].undisturbed]
    <3>1. shown' \in [Tabs -> [Tasks -> {"none", "active", "completed"}]] /\ current' \in [Tabs -> BOOLEAN]
      BY <2>2, <2>4
    <3>2. \A d \in Tabs : current'[d] => shown'[d] = Listed(TabUser)
      BY <2>2, <2>4 DEF NoScreenFallsBack
    <3>3. NoScreenFallsBack'
      BY <2>1, <3>2 DEF NoScreenFallsBack, Listed, Owned
    <3> QED BY <1>0, <2>1, <3>1, <3>3
  <2> QED BY <1>11, <2>3, <2>4 DEF ToldOfList, Shows
<1>12. CASE Lose(t) \/ Drop(t)
  BY <1>0, <1>1, <1>12 DEF Lose, Drop
<1> QED BY <1>8, <1>9, <1>10, <1>11, <1>12

-----------------------------------------------------------------------------
(* The invariant.                                                           *)

LEMMA InitIInv == ASSUME Init PROVE IInv
<1> USE Records DEF Init
<1>1. TypeOK
  <2>1. [x \in Tasks |-> <<>>] \in [Tasks -> Seq(CompletionEvent)]
    OBVIOUS
  <2>2. [x \in Tasks |-> [want |-> {}, saw |-> TRUE]] \in [Tasks -> [want: SUBSET TagValues, saw: BOOLEAN]]
    OBVIOUS
  <2> QED BY <2>1, <2>2 DEF TypeOK
<1>2. \A t \in Threads : req[t] = NoRequest
  OBVIOUS
<1>3. RequestsFit /\ LocksExclude
  BY <1>2, NoRequestFits DEF RequestsFit, LocksExclude
<1>4. KeysAreKept /\ KeysAreUnique /\ UnbornIsNotDeleted
  BY DEF KeysAreKept, KeysAreUnique, UnbornIsNotDeleted
<1>5. LogAndTaskAgree
  <2>1. \A x \in Tasks : Len(events[x]) = 0 /\ row[x] = Unborn /\ reopens[x] = 0
    OBVIOUS
  <2>2. \A x \in Tasks : row[x].status = "none" /\ row[x].completedAt = 0
    BY ONLY <2>1, Records
  <2>3. ASSUME NEW x \in Tasks
        PROVE  /\ Len(events[x]) = reopens[x] + (IF row[x].status = "completed" THEN 1 ELSE 0)
               /\ row[x].completedAt = IF row[x].status = "completed" THEN Len(events[x]) ELSE 0
    <3>1. (IF row[x].status = "completed" THEN 1 ELSE 0) = 0
      BY ONLY <2>2
    <3>2. Len(events[x]) = 0 + 0
      BY ONLY <2>1
    <3> QED BY ONLY <2>1, <2>2, <3>1, <3>2
  <2> QED BY ONLY <2>3 DEF LogAndTaskAgree
<1>6. TagsAreThoseOfTheLastEdit
  BY DEF TagsAreThoseOfTheLastEdit, Values
<1>7. NoScreenFallsBack
  BY DEF NoScreenFallsBack
<1> QED BY <1>1, <1>3, <1>4, <1>5, <1>6, <1>7 DEF IInv

\* A step is quiet or changes one task.
LEMMA StepCases ==
    ASSUME NEW t \in Threads,
           Client(t) \/ Handler(t) \/ ToldOfChange(t) \/ ToldOfList(t) \/ Lose(t) \/ Drop(t), IInv
    PROVE  \/ Quiet(t)
           \/ Create(t)
           \/ Complete(t) /\ ~Replayed(t) /\ req[t].row.status # "completed"
           \/ Reopen(t) /\ req[t].row.status # "active"
           \/ Delete(t)
           \/ EditTags(t) /\ ~AlreadyThere(t)
<1>1. CASE Client(t)
  BY <1>1, ClientIsQuiet
<1>2. CASE ToldOfChange(t) \/ ToldOfList(t) \/ Lose(t) \/ Drop(t)
  BY <1>2, RestIsQuiet
<1>3. CASE Handler(t)
  BY <1>3, RestIsQuiet DEF Handler
<1> QED BY <1>1, <1>2, <1>3

LEMMA StepIInv == ASSUME IInv, [Next]_xvars PROVE IInv'
<1>1. CASE Next
  <2>1. PICK t \in Threads :
           Client(t) \/ Handler(t) \/ ToldOfChange(t) \/ ToldOfList(t) \/ Lose(t) \/ Drop(t)
    BY <1>1 DEF Next
  <2>2. /\ shown' \in [Tabs -> [Tasks -> {"none", "active", "completed"}]]
        /\ saved' \in [Tabs -> [Tasks -> Keys \cup {NoKey}]]
        /\ latest' \in [Tabs -> Threads \cup {NoThread}]
        /\ edits' \in Nat /\ intent' = saved' /\ current' \in [Tabs -> BOOLEAN]
        /\ NoScreenFallsBack'
    BY <2>1, StepTabs
  <2> DEFINE Kept ==
         /\ Tables' /\ req' \in [Threads -> Request] /\ row' \in [Tasks -> TaskRow]
         /\ events' \in [Tasks -> Seq(CompletionEvent)] /\ tags' \in [Tasks -> SUBSET TaskTag]
         /\ reopens' \in [Tasks -> Nat]
         /\ edited' \in [Tasks -> [want: SUBSET TagValues, saw: BOOLEAN]]
  <2> USE DEF IInv, TypeOK
  <2>3. CASE Quiet(t)
    <3>1. UNCHANGED <<row, events, tags, reopens, edited>>
      BY <2>3 DEF Quiet
    <3> QED BY <2>2, <2>3, <3>1, QuietKeeps DEF KeysAreKept, Tables
  <2>4. CASE Create(t)
    BY <2>2, <2>4, CreateKeeps DEF KeysAreKept, Tables, Create
  <2>5. CASE Complete(t) /\ ~Replayed(t) /\ req[t].row.status # "completed"
    BY <2>2, <2>5, CompleteKeeps DEF KeysAreKept, Tables, Complete
  <2>6. CASE Reopen(t) /\ req[t].row.status # "active"
    BY <2>2, <2>6, ReopenKeeps DEF KeysAreKept, Tables, Reopen
  <2>7. CASE Delete(t)
    BY <2>2, <2>7, DeleteKeeps DEF KeysAreKept, Tables, Delete
  <2>8. CASE EditTags(t) /\ ~AlreadyThere(t)
    BY <2>2, <2>8, EditTagsKeeps DEF KeysAreKept, Tables, EditTags
  <2> QED BY <2>1, <2>3, <2>4, <2>5, <2>6, <2>7, <2>8, StepCases
<1>2. CASE UNCHANGED xvars
  BY <1>2 DEF xvars, IInv, TypeOK, RequestsFit, Fits, Logged, Listed, Owned, LocksExclude, KeysAreKept,
              KeysAreUnique, UnbornIsNotDeleted, LogAndTaskAgree, TagsAreThoseOfTheLastEdit, Values,
              NoScreenFallsBack
<1> QED BY <1>1, <1>2

LEMMA Invariance == Spec => []IInv
  BY InitIInv, StepIInv, PTL DEF Spec

-----------------------------------------------------------------------------
(* Theorems.                                                                *)

\* Rows, logs, tags, requests and screens keep their types.
THEOREM TaskTypes == Spec => []TypeOK
<1>1. IInv => TypeOK
  BY DEF IInv
<1> QED BY <1>1, Invariance, PTL

\* lock_task with its second read: status, completed_at and the log agree,
\* however many completions, reopenings and deletions race.
THEOREM TheLogIsRight == Spec => []LogAndTaskAgree
<1>1. IInv => LogAndTaskAgree
  BY DEF IInv
<1> QED BY <1>1, Invariance, PTL

\* The idempotency key of complete_task and changeStatus: however often a press
\* is repeated, and whatever is lost, it completes its task once.
THEOREM APressCountsOnce == Spec => []OnePressOneCompletion
<1>1. IInv => OnePressOneCompletion
  BY DEF IInv, KeysAreUnique, OnePressOneCompletion
<1> QED BY <1>1, Invariance, PTL

\* Whoever is told that his completion succeeded has it in the log.
THEOREM SuccessIsInTheLog == Spec => []SuccessIsLogged
<1>1. IInv => SuccessIsLogged
  BY DEF IInv, RequestsFit, Fits, Logged, SuccessIsLogged
<1> QED BY <1>1, Invariance, PTL

\* update_task and the unique key of task_tags.
THEOREM TagsAreReplacedAsAWhole == Spec => []TagsAreThoseOfTheLastEdit
<1>1. IInv => TagsAreThoseOfTheLastEdit
  BY DEF IInv
<1> QED BY <1>1, Invariance, PTL

\* refresh shows only the list that was asked for last.
THEOREM ScreensDoNotFallBack == Spec => []NoScreenFallsBack
<1>1. IInv => NoScreenFallsBack
  BY DEF IInv
<1> QED BY <1>1, Invariance, PTL

\* owned_task: a task is changed by requests of its owner alone.
THEOREM OwnersOnly == Spec => OnlyItsOwnerChangesATask
<1>1. ASSUME IInv, [Next]_xvars, NEW x \in Tasks, row[x].status # "none",
             <<row[x], events[x], tags[x]>>' # <<row[x], events[x], tags[x]>>
      PROVE  \E t \in Threads : /\ req[t].pc \in {"loaded", "locked"} /\ req[t].task = x
                                /\ req[t].user = row[x].owner /\ req'[t] # req[t]
  <2> USE <1>1
  <2>1. PICK t \in Threads :
           Client(t) \/ Handler(t) \/ ToldOfChange(t) \/ ToldOfList(t) \/ Lose(t) \/ Drop(t)
    BY DEF Next, xvars
  <2>2. ~Quiet(t)
    BY DEF Quiet
  <2>3. ~Create(t)
    <3>1. ASSUME Create(t) PROVE UNCHANGED <<row[x], events[x], tags[x]>>
      BY <3>1 DEF Create, IInv, TypeOK
    <3> QED BY <3>1
  <2>4. Complete(t) \/ Reopen(t) \/ Delete(t) \/ EditTags(t)
    BY <2>1, <2>2, <2>3, StepCases
  <2>5. req[t].pc \in {"loaded", "locked"} /\ req[t].task = x
    BY <2>4 DEF Complete, Reopen, Delete, EditTags, IInv, TypeOK
  <2>6. req[t].user = row[x].owner
    BY <2>5 DEF IInv, RequestsFit, Fits
  <2>7. req'[t] = Answer(t, TRUE) \/ req'[t] = Answer(t, FALSE) \/ req'[t] = Answer(t, Replayed(t))
    BY <2>4 DEF Complete, Reopen, Delete, EditTags, Changed, Unchanged, Become, IInv, TypeOK
  <2>8. \A ok : Answer(t, ok).pc \in {"idle", "answer"}
    <3>1. req[t] \in Request
      BY DEF IInv, TypeOK
    <3> QED BY <3>1, Records DEF Answer, Request
  <2>9. req'[t].pc \in {"idle", "answer"}
    BY <2>7, <2>8
  <2>10. req'[t] # req[t]
    BY <2>5, <2>9
  <2> QED BY <2>5, <2>6, <2>10
<1>2. IInv /\ [Next]_xvars => \A x \in Tasks :
         row[x].status # "none" /\ <<row[x], events[x], tags[x]>>' # <<row[x], events[x], tags[x]>>
           => \E t \in Threads : /\ req[t].pc \in {"loaded", "locked"} /\ req[t].task = x
                                 /\ req[t].user = row[x].owner
                                 /\ req'[t] # req[t]
  BY <1>1
<1> QED BY <1>2, Invariance, PTL DEF Spec, OnlyItsOwnerChangesATask

\* The handlers with their locks, replays and lost answers implement TaskLife:
\* each step creates, completes, reopens or deletes one task as it should be,
\* or is none of a task's.
THEOREM TasksAreLived == Spec => ImplementsTaskLife
<1> DEFINE status == [x \in Tasks |-> row[x].status]
           deleted == [x \in Tasks |-> row[x].deleted]
           completions == [x \in Tasks |-> Len(events[x])]
<1>1. ASSUME Init PROVE Life!Init
  <2>1. \A x \in Tasks : row[x] = Unborn /\ events[x] = <<>>
    BY <1>1 DEF Init
  <2>2. status = [x \in Tasks |-> "none"]
    BY <2>1, Records
  <2>3. deleted = [x \in Tasks |-> FALSE]
    <3>1. Unborn.deleted = FALSE
      BY DEF Unborn
    <3>2. \A x \in Tasks : row[x].deleted = FALSE
      BY ONLY <2>1, <3>1
    <3> QED BY <3>2
  <2>4. completions = [x \in Tasks |-> 0]
    BY <2>1
  <2> QED BY <2>2, <2>3, <2>4 DEF Life!Init
<1>2. ASSUME IInv, [Next]_xvars PROVE [Life!Next]_Life!lvars
  <2> USE DEF IInv, TypeOK
  <2>1. ASSUME UNCHANGED <<row, events>> PROVE UNCHANGED Life!lvars
    BY <2>1 DEF Life!lvars
  <2>2. ASSUME NEW t \in Threads, Create(t) PROVE \E x \in Tasks : Life!Create(x)
    <3>1. PICK x \in Tasks :
            /\ row[x].status = "none"
            /\ row' = [row EXCEPT ![x] = [Unborn EXCEPT !.status = "active", !.owner = req[t].user]]
      BY <2>2 DEF Create
    <3>2. row'[x].status = "active" /\ row'[x].deleted = FALSE /\ row[x].deleted = FALSE
      BY <1>2, <3>1, Records DEF TaskRow, UnbornIsNotDeleted
    <3>3. \A y \in Tasks : y # x => row'[y] = row[y]
      BY <3>1
    <3>4. status' = [status EXCEPT ![x] = "active"] /\ deleted' = deleted
      BY <3>2, <3>3
    <3>5. completions' = completions
      BY <2>2 DEF Create
    <3> QED BY <3>1, <3>4, <3>5 DEF Life!Create
  <2>3. ASSUME NEW t \in Threads, Complete(t), ~Replayed(t), req[t].row.status # "completed"
        PROVE  \E x \in Tasks : Life!Complete(x)
    <3> DEFINE x == req[t].task
    <3>1. /\ req[t].pc = "locked"
          /\ events' = [events EXCEPT ![x] = Append(@, [key |-> req[t].key, intent |-> req[t].intent])]
          /\ row' = [row EXCEPT ![x] = [@ EXCEPT !.status = "completed", !.completedAt = Len(events[x]) + 1]]
      BY <2>3 DEF Complete
    <3>2. x \in Tasks /\ row[x].status = "active" /\ ~row[x].deleted
      BY <1>2, <2>3, <3>1 DEF RequestsFit, Fits, TaskRow
    <3>3. row'[x].status = "completed" /\ row'[x].deleted = row[x].deleted
      BY <1>2, <3>1, <3>2 DEF TaskRow
    <3>4. Len(events'[x]) = Len(events[x]) + 1
      BY <1>2, <3>1, <3>2
    <3>5. \A y \in Tasks : y # x => row'[y] = row[y] /\ events'[y] = events[y]
      BY <3>1
    <3> HIDE DEF x
    <3>6. status' = [status EXCEPT ![x] = "completed"] /\ deleted' = deleted
      BY <3>2, <3>3, <3>5
    <3>7. completions' = [completions EXCEPT ![x] = @ + 1]
      BY <3>2, <3>4, <3>5
    <3> QED BY <3>2, <3>6, <3>7 DEF Life!Complete
  <2>4. ASSUME NEW t \in Threads, Reopen(t), req[t].row.status # "active"
        PROVE  \E x \in Tasks : Life!Reopen(x)
    <3> DEFINE x == req[t].task
    <3>1. /\ req[t].pc = "locked" /\ UNCHANGED events
          /\ row' = [row EXCEPT ![x] = [@ EXCEPT !.status = "active", !.completedAt = 0]]
      BY <2>4 DEF Reopen
    <3>2. x \in Tasks /\ row[x].status = "completed" /\ ~row[x].deleted
      BY <1>2, <2>4, <3>1 DEF RequestsFit, Fits, TaskRow
    <3>3. row'[x].status = "active" /\ row'[x].deleted = row[x].deleted
      BY <1>2, <3>1, <3>2 DEF TaskRow
    <3>4. \A y \in Tasks : y # x => row'[y] = row[y]
      BY <3>1
    <3> HIDE DEF x
    <3>5. status' = [status EXCEPT ![x] = "active"]
      BY <3>2, <3>3, <3>4
    <3>6. deleted' = deleted
      BY <3>2, <3>3, <3>4
    <3>7. completions' = completions
      BY <3>1
    <3> QED BY <3>2, <3>5, <3>6, <3>7 DEF Life!Reopen
  <2>5. ASSUME NEW t \in Threads, Delete(t) PROVE \E x \in Tasks : Life!Delete(x)
    <3> DEFINE x == req[t].task
    <3>1. /\ req[t].pc = "loaded" /\ UNCHANGED events
          /\ row' = [row EXCEPT ![x] = [@ EXCEPT !.deleted = TRUE]]
      BY <2>5 DEF Delete
    <3>2. x \in Tasks /\ row[x].status # "none"
      BY <1>2, <3>1 DEF RequestsFit, Fits
    <3>3. row'[x].status = row[x].status /\ row'[x].deleted = TRUE
      BY <1>2, <3>1, <3>2 DEF TaskRow
    <3>4. \A y \in Tasks : y # x => row'[y] = row[y]
      BY <3>1
    <3> HIDE DEF x
    <3>5. status' = status
      BY <3>2, <3>3, <3>4
    <3>6. deleted' = [deleted EXCEPT ![x] = TRUE]
      BY <3>2, <3>3, <3>4
    <3>7. completions' = completions
      BY <3>1
    <3> QED BY <3>2, <3>5, <3>6, <3>7 DEF Life!Delete
  <2>6. CASE UNCHANGED xvars
    BY <2>1, <2>6 DEF xvars
  <2>7. CASE Next
    <3>1. PICK t \in Threads :
             Client(t) \/ Handler(t) \/ ToldOfChange(t) \/ ToldOfList(t) \/ Lose(t) \/ Drop(t)
      BY <2>7 DEF Next
    <3>2. CASE Quiet(t) \/ EditTags(t)
      BY <2>1, <3>2 DEF Quiet, EditTags
    <3>3. CASE ~Quiet(t) /\ ~EditTags(t)
      <4> HIDE DEF IInv
      <4>1. \E x \in Tasks : Life!Create(x) \/ Life!Complete(x) \/ Life!Reopen(x) \/ Life!Delete(x)
        BY <1>2, <2>2, <2>3, <2>4, <2>5, <3>1, <3>3, StepCases
      <4> QED BY <4>1 DEF Life!Next
    <3> QED BY <3>2, <3>3
  <2> QED BY <1>2, <2>6, <2>7
<1> QED BY <1>1, <1>2, Invariance, PTL DEF Spec, ImplementsTaskLife, Life!Spec

=============================================================================
