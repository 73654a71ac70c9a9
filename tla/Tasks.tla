------------------------------- MODULE Tasks -------------------------------
(***************************************************************************)
(* The tasks of a diary: services/tasks.py, the completions of             *)
(* services/executions.py, the handlers of api/tasks.py, and the screen    *)
(* that calls them (features/tasks/TaskPanel.tsx).                         *)
(*                                                                         *)
(* Each request is a thread of the server.  A completion or a reopening    *)
(* loads the task, takes its row lock with an UPDATE that changes nothing, *)
(* reads the row again and commits; a deletion and a change of tags act on *)
(* what they loaded.  A tab remembers the key of a completion until it is  *)
(* told that a change of the task succeeded.  Answers and connections get  *)
(* lost, and threads die.                                                  *)
(***************************************************************************)
EXTENDS Naturals, Sequences

CONSTANTS
    Tasks,      \* bound: the tasks that may be created
    NoTask,
    Users,
    TabUser,    \* the user whose tabs are modelled
    Tabs,
    NoTab,      \* the tab of a request no tab waits for
    Keys,       \* bound: idempotency keys
    NoKey,
    TagValues,  \* tags as _parse_tags leaves them: stripped, lower-case
    Threads,    \* the server's request threads
    NoThread,
    MaxEdits    \* bound: changes of tags

ASSUME TasksAssumption ==
    /\ NoTask \notin Tasks /\ NoTab \notin Tabs /\ NoKey \notin Keys
    /\ NoThread \notin Threads /\ TabUser \in Users /\ MaxEdits \in Nat

VARIABLES
    row,        \* tasks: status, completed_at, deleted_at and the plan's owner
    events,     \* completion_events of each task, in commit order
    tags,       \* task_tags of each task
    req,        \* what each thread is doing
    shown,      \* the tasks a tab shows (its state `tasks`)
    saved,      \* the key a tab keeps for a task in its sessionStorage
    latest,     \* the thread that serves the list a tab asked for last
    edits,      \* changes of tags so far
    reopens,    \* history: how often a task went from completed to active
    intent,     \* history: the first key of a completion that a tab has wanted
                \* since it was last told of success
    edited,     \* history: the tags asked for last, and whether that change
                \* had seen all the tags it found
    current     \* history: no task changed since a tab's list was read

xvars == <<row, events, tags, req, shown, saved, latest, edits, reopens, intent, edited, current>>

-----------------------------------------------------------------------------
(* Rows, requests, screens.                                                 *)

\* completed_at is the number of the completion it belongs to, 0 for null.
TaskRow == [status: {"none", "active", "completed"}, completedAt: Nat, deleted: BOOLEAN,
            owner: Users]

CompletionEvent == [key: Keys, intent: Keys]

\* `by` is the change of tags that wrote the row, 0 for the task's creation.
TaskTag == [value: TagValues, by: Nat]

Values(rows) == {r.value : r \in rows}

Ops == {"create", "tag", "complete", "reopen", "delete", "list"}

\* row, old and list are what the request has read; undisturbed is history: no
\* task changed since the list was read.
Request ==
    [pc: {"idle", "sent", "loaded", "locked", "answer"}, op: Ops, user: Users,
     tab: Tabs \cup {NoTab}, task: Tasks \cup {NoTask},
     key: Keys \cup {NoKey}, intent: Keys \cup {NoKey}, want: SUBSET TagValues, by: Nat,
     row: TaskRow, old: SUBSET TaskTag, list: [Tasks -> {"none", "active", "completed"}],
     undisturbed: BOOLEAN, ok: BOOLEAN]

Unborn == [status |-> "none", completedAt |-> 0, deleted |-> FALSE, owner |-> TabUser]
EmptyList == [x \in Tasks |-> "none"]
NoRequest ==
    [pc |-> "idle", op |-> "list", user |-> TabUser, tab |-> NoTab, task |-> NoTask,
     key |-> NoKey, intent |-> NoKey, want |-> {}, by |-> 0, row |-> Unborn, old |-> {},
     list |-> EmptyList, undisturbed |-> FALSE, ok |-> FALSE]

\* Mutant: a task is found by its id alone.
OwnedByAnyone(x, user) == row[x].status # "none" /\ ~row[x].deleted
\* A live task of the requesting user's: what owned_task finds and lists show.
Owned(x, user) == row[x].status # "none" /\ ~row[x].deleted /\ row[x].owner = user

Listed(user) == [x \in Tasks |-> IF Owned(x, user) THEN row[x].status ELSE "none"]

\* The tab waits for a change of the task, or for the list it asked for after it.
InFlight(tab, x) == \E t \in Threads : req[t].pc # "idle" /\ req[t].tab = tab /\ req[t].task = x

Locked(x) == \E t \in Threads : req[t].pc = "locked" /\ req[t].task = x

KeysInUse ==
    {saved[b][x] : b \in Tabs, x \in Tasks} \cup {req[t].key : t \in Threads}
      \cup UNION {{events[x][i].key : i \in DOMAIN events[x]} : x \in Tasks}

-----------------------------------------------------------------------------
(* Init, and how requests begin and end.                                    *)

Init ==
    /\ row = [x \in Tasks |-> Unborn]
    /\ events = [x \in Tasks |-> <<>>]
    /\ tags = [x \in Tasks |-> {}]
    /\ req = [t \in Threads |-> NoRequest]
    /\ shown = [b \in Tabs |-> EmptyList]
    /\ saved = [b \in Tabs |-> [x \in Tasks |-> NoKey]]
    /\ latest = [b \in Tabs |-> NoThread]
    /\ edits = 0
    /\ reopens = [x \in Tasks |-> 0]
    /\ intent = [b \in Tabs |-> [x \in Tasks |-> NoKey]]
    /\ edited = [x \in Tasks |-> [want |-> {}, saw |-> TRUE]]
    /\ current = [b \in Tabs |-> FALSE]

Begin(t, r) == req[t].pc = "idle" /\ req' = [req EXCEPT ![t] = r]
Become(t, r) == req' = [req EXCEPT ![t] = r]

\* The handler is through.  Nobody hears of it if no tab waits any more.
Answer(t, ok) ==
    IF req[t].tab = NoTab THEN NoRequest
    ELSE [req[t] EXCEPT !.pc = "answer", !.ok = ok, !.row = Unborn, !.old = {}]

\* A commit that changes what a list shows, and the answer to it.
Changed(t) ==
    /\ req' = [u \in Threads |->
                  IF u = t THEN Answer(t, TRUE) ELSE [req[u] EXCEPT !.undisturbed = FALSE]]
    /\ current' = [b \in Tabs |-> FALSE]

Unchanged(t, ok) == Become(t, Answer(t, ok)) /\ UNCHANGED current

\* Requests no modelled tab waits for: other devices and clients, and the
\* buttons of the screen that only report an error (submit, saveEdit,
\* confirmDelete).  Such a client keeps its key, too.
Ask(t, user, op, x, key) ==
    /\ op \in {"complete", "reopen", "delete"}
    /\ Begin(t, [NoRequest EXCEPT !.pc = "sent", !.op = op, !.user = user, !.task = x,
                                  !.key = key, !.intent = key])
    /\ UNCHANGED <<row, events, tags, shown, saved, latest, edits, reopens, intent, edited, current>>

AskCreate(t, user, want) ==
    /\ Begin(t, [NoRequest EXCEPT !.pc = "sent", !.op = "create", !.user = user, !.want = want])
    /\ UNCHANGED <<row, events, tags, shown, saved, latest, edits, reopens, intent, edited, current>>

AskTags(t, user, x, want) ==
    /\ edits < MaxEdits
    /\ edits' = edits + 1
    /\ Begin(t, [NoRequest EXCEPT !.pc = "sent", !.op = "tag", !.user = user, !.task = x,
                                  !.want = want, !.by = edits + 1])
    /\ UNCHANGED <<row, events, tags, shown, saved, latest, reopens, intent, edited, current>>

\* Mutant: a press sends what is kept, even if that is nothing.
NeverMinted(b, x) == {saved[b][x]}
\* Mutant: every press has a key of its own.
AlwaysFresh(b, x) == Keys \ KeysInUse
\* The key a press sends: the one kept from a press without an answer.
KeyFor(b, x) == IF saved[b][x] = NoKey THEN Keys \ KeysInUse ELSE {saved[b][x]}

Click(t, b, x) ==
    /\ ~InFlight(b, x)
    /\ \/ /\ shown[b][x] = "completed"
          /\ Begin(t, [NoRequest EXCEPT !.pc = "sent", !.op = "reopen", !.tab = b, !.task = x])
          /\ UNCHANGED <<saved, intent>>
       \/ /\ shown[b][x] = "active"
          /\ \E k \in KeyFor(b, x) :
                LET i == IF intent[b][x] = NoKey THEN k ELSE intent[b][x] IN
                /\ saved' = [saved EXCEPT ![b][x] = k]
                /\ intent' = [intent EXCEPT ![b][x] = i]
                /\ Begin(t, [NoRequest EXCEPT !.pc = "sent", !.op = "complete", !.tab = b,
                                              !.task = x, !.key = k, !.intent = i])
    /\ UNCHANGED <<row, events, tags, shown, latest, edits, reopens, edited, current>>

ListFor(b, x) == [NoRequest EXCEPT !.pc = "sent", !.tab = b, !.task = x]

\* A change of plan or of filters asks for a list.
Refresh(t, b) ==
    /\ Begin(t, ListFor(b, NoTask))
    /\ latest' = [latest EXCEPT ![b] = t]
    /\ UNCHANGED <<row, events, tags, shown, saved, edits, reopens, intent, edited, current>>

-----------------------------------------------------------------------------
(* The handlers.                                                            *)

Create(t) ==
    /\ req[t].pc = "sent" /\ req[t].op = "create"
    /\ \E x \in Tasks :
          /\ row[x].status = "none"
          /\ row' = [row EXCEPT ![x] = [Unborn EXCEPT !.status = "active", !.owner = req[t].user]]
          /\ tags' = [tags EXCEPT ![x] = [value: req[t].want, by: {0}]]
          /\ edited' = [edited EXCEPT ![x] = [want |-> req[t].want, saw |-> TRUE]]
    /\ Changed(t)
    /\ UNCHANGED <<events, shown, saved, latest, edits, reopens, intent>>

\* active_task; 404 for a task that is deleted, another's or not there.
Load(t) ==
    LET x == req[t].task IN
    /\ req[t].pc = "sent" /\ req[t].op \notin {"create", "list"}
    /\ IF Owned(x, req[t].user)
       THEN /\ Become(t, [req[t] EXCEPT !.pc = "loaded", !.row = row[x],
                                        !.old = IF req[t].op = "tag" THEN tags[x] ELSE {}])
            /\ UNCHANGED current
       ELSE Unchanged(t, FALSE)
    /\ UNCHANGED <<row, events, tags, shown, saved, latest, edits, reopens, intent, edited>>

\* list_tasks
LoadList(t) ==
    /\ req[t].pc = "sent" /\ req[t].op = "list"
    /\ Become(t, [req[t] EXCEPT !.pc = "answer", !.ok = TRUE, !.list = Listed(req[t].user),
                                !.undisturbed = TRUE])
    /\ UNCHANGED <<row, events, tags, shown, saved, latest, edits, reopens, intent, edited, current>>

\* Mutant: the row is not read again once it is locked.
LockOnly(t) ==
    LET x == req[t].task IN
    /\ req[t].pc = "loaded" /\ req[t].op \in {"complete", "reopen"}
    /\ ~Locked(x)
    /\ IF row[x].deleted THEN Unchanged(t, FALSE)
       ELSE Become(t, [req[t] EXCEPT !.pc = "locked"]) /\ UNCHANGED current
    /\ UNCHANGED <<row, events, tags, shown, saved, latest, edits, reopens, intent, edited>>
\* Mutant: the UPDATE finds a deleted task, too.
LockDeleted(t) ==
    LET x == req[t].task IN
    /\ req[t].pc = "loaded" /\ req[t].op \in {"complete", "reopen"}
    /\ ~Locked(x)
    /\ Become(t, [req[t] EXCEPT !.pc = "locked", !.row = row[x]]) /\ UNCHANGED current
    /\ UNCHANGED <<row, events, tags, shown, saved, latest, edits, reopens, intent, edited>>
\* lock_task: the UPDATE waits for whoever holds the row and finds no deleted
\* task; the row is read again under the lock.
Lock(t) ==
    LET x == req[t].task IN
    /\ req[t].pc = "loaded" /\ req[t].op \in {"complete", "reopen"}
    /\ ~Locked(x)
    /\ IF row[x].deleted THEN Unchanged(t, FALSE)
       ELSE Become(t, [req[t] EXCEPT !.pc = "locked", !.row = row[x]]) /\ UNCHANGED current
    /\ UNCHANGED <<row, events, tags, shown, saved, latest, edits, reopens, intent, edited>>

Replayed(t) == \E i \in DOMAIN events[req[t].task] : events[req[t].task][i].key = req[t].key

\* Mutant: completing a completed task is no conflict.
CompleteTwice(t) ==
    LET x == req[t].task  n == Len(events[x]) + 1 IN
    /\ req[t].pc = "locked" /\ req[t].op = "complete"
    /\ IF Replayed(t) \/ req[t].row.status = "completed"
       THEN Unchanged(t, TRUE) /\ UNCHANGED <<row, events>>
       ELSE /\ events' = [events EXCEPT ![x] = Append(@, [key |-> req[t].key, intent |-> req[t].intent])]
            /\ row' = [row EXCEPT ![x] = [@ EXCEPT !.status = "completed", !.completedAt = n]]
            /\ Changed(t)
    /\ UNCHANGED <<tags, shown, saved, latest, edits, reopens, intent, edited>>
\* complete_task after the lock: a replay, a conflict, or a completion.
Complete(t) ==
    LET x == req[t].task  n == Len(events[x]) + 1 IN
    /\ req[t].pc = "locked" /\ req[t].op = "complete"
    /\ IF Replayed(t) \/ req[t].row.status = "completed"
       THEN Unchanged(t, Replayed(t)) /\ UNCHANGED <<row, events>>
       ELSE /\ events' = [events EXCEPT ![x] = Append(@, [key |-> req[t].key, intent |-> req[t].intent])]
            /\ row' = [row EXCEPT ![x] = [@ EXCEPT !.status = "completed", !.completedAt = n]]
            /\ Changed(t)
    /\ UNCHANGED <<tags, shown, saved, latest, edits, reopens, intent, edited>>

\* reopen_task after the lock.
Reopen(t) ==
    LET x == req[t].task IN
    /\ req[t].pc = "locked" /\ req[t].op = "reopen"
    /\ IF req[t].row.status = "active"
       THEN Unchanged(t, TRUE) /\ UNCHANGED <<row, reopens>>
       ELSE /\ row' = [row EXCEPT ![x] = [@ EXCEPT !.status = "active", !.completedAt = 0]]
            /\ reopens' = [reopens EXCEPT ![x] = @ + 1]
            /\ Changed(t)
    /\ UNCHANGED <<events, tags, shown, saved, latest, edits, intent, edited>>

\* delete_task: an UPDATE by id, which waits for the row and no more.
Delete(t) ==
    LET x == req[t].task IN
    /\ req[t].pc = "loaded" /\ req[t].op = "delete"
    /\ ~Locked(x)
    /\ row' = [row EXCEPT ![x] = [@ EXCEPT !.deleted = TRUE]]
    /\ Changed(t)
    /\ UNCHANGED <<events, tags, shown, saved, latest, edits, reopens, intent, edited>>

\* Mutant: the tags that were read are compared, and there is no unique key.
ReadHas(t) == req[t].want \cap Values(req[t].old) # {}
\* The unique key (task, value) of task_tags stands in the way.
AlreadyThere(t) == req[t].want \cap Values(tags[req[t].task]) # {}

TagsAfter(t) ==
    (tags[req[t].task] \ req[t].old) \cup [value: req[t].want, by: {req[t].by}]

\* update_task with tags.  The new rows are inserted before the old ones are
\* deleted: a tag that is there already breaks the unique key, and the change
\* fails as a whole (503).
EditTags(t) ==
    LET x == req[t].task IN
    /\ req[t].pc = "loaded" /\ req[t].op = "tag"
    /\ IF AlreadyThere(t)
       THEN Unchanged(t, FALSE) /\ UNCHANGED <<tags, edited>>
       ELSE /\ tags' = [tags EXCEPT ![x] = TagsAfter(t)]
            /\ edited' = [edited EXCEPT ![x] = [want |-> req[t].want, saw |-> req[t].old = tags[x]]]
            /\ Unchanged(t, TRUE)
    /\ UNCHANGED <<row, events, shown, saved, latest, edits, reopens, intent>>

-----------------------------------------------------------------------------
(* Answers, and what becomes of them.                                       *)

\* The answer of a change.  Success forgets the key and asks for a list; until
\* that is there the task cannot be pressed.
ToldOfChange(t) ==
    LET b == req[t].tab  x == req[t].task IN
    /\ req[t].pc = "answer" /\ req[t].op # "list"
    /\ IF req[t].ok
       THEN /\ saved' = [saved EXCEPT ![b][x] = NoKey]
            /\ intent' = [intent EXCEPT ![b][x] = NoKey]
            /\ latest' = [latest EXCEPT ![b] = t]
            /\ Become(t, ListFor(b, x))
       ELSE Become(t, NoRequest) /\ UNCHANGED <<saved, intent, latest>>
    /\ UNCHANGED <<row, events, tags, shown, edits, reopens, edited, current>>

\* Mutant: whichever list comes is shown.
ShowsAny(t) == TRUE
\* Only the list that was asked for last is shown.
Shows(t) == latest[req[t].tab] = t

ToldOfList(t) ==
    LET b == req[t].tab IN
    /\ req[t].pc = "answer" /\ req[t].op = "list"
    /\ shown' = IF Shows(t) THEN [shown EXCEPT ![b] = req[t].list] ELSE shown
    /\ current' = IF latest[b] = t THEN [current EXCEPT ![b] = req[t].undisturbed] ELSE current
    /\ Become(t, NoRequest)
    /\ UNCHANGED <<row, events, tags, saved, latest, edits, reopens, intent, edited>>

\* The connection breaks: the tab sees an error, the handler goes on.
Lose(t) ==
    /\ req[t].pc \in {"sent", "loaded", "locked"} /\ req[t].tab # NoTab /\ req[t].op # "list"
    /\ Become(t, [req[t] EXCEPT !.tab = NoTab])
    /\ UNCHANGED <<row, events, tags, shown, saved, latest, edits, reopens, intent, edited, current>>

\* The request never arrives, the thread dies and its transaction with it, or
\* the answer is lost.
Drop(t) ==
    /\ req[t].pc # "idle"
    /\ Become(t, NoRequest)
    /\ UNCHANGED <<row, events, tags, shown, saved, latest, edits, reopens, intent, edited, current>>

Client(t) ==
    \/ \E user \in Users, x \in Tasks :
          \/ \E k \in Keys \ KeysInUse : Ask(t, user, "complete", x, k)
          \/ Ask(t, user, "reopen", x, NoKey)
          \/ Ask(t, user, "delete", x, NoKey)
          \/ \E want \in SUBSET TagValues : AskTags(t, user, x, want)
    \/ \E user \in Users, want \in SUBSET TagValues : AskCreate(t, user, want)
    \/ \E b \in Tabs : Refresh(t, b) \/ \E x \in Tasks : Click(t, b, x)

Handler(t) ==
    \/ Create(t) \/ Load(t) \/ LoadList(t) \/ Lock(t)
    \/ Complete(t) \/ Reopen(t) \/ Delete(t) \/ EditTags(t)

Next ==
    \E t \in Threads :
        Client(t) \/ Handler(t) \/ ToldOfChange(t) \/ ToldOfList(t) \/ Lose(t) \/ Drop(t)

Spec == Init /\ [][Next]_xvars

-----------------------------------------------------------------------------
(* Properties.                                                              *)

\* Every variable stays in its domain: at most one tag row per value, which is
\* what the unique key of task_tags is for.
TypeOK ==
    /\ row \in [Tasks -> TaskRow]
    /\ events \in [Tasks -> Seq(CompletionEvent)]
    /\ tags \in [Tasks -> SUBSET TaskTag]
    /\ req \in [Threads -> Request]
    /\ shown \in [Tabs -> [Tasks -> {"none", "active", "completed"}]]
    /\ saved \in [Tabs -> [Tasks -> Keys \cup {NoKey}]]
    /\ latest \in [Tabs -> Threads \cup {NoThread}]
    /\ edits \in Nat
    /\ reopens \in [Tasks -> Nat]
    /\ intent \in [Tabs -> [Tasks -> Keys \cup {NoKey}]]
    /\ edited \in [Tasks -> [want: SUBSET TagValues, saw: BOOLEAN]]
    /\ current \in [Tabs -> BOOLEAN]

\* However completions and reopenings race (lock_task), the log and the task
\* agree: a completion for every reopening and one more if the task is
\* completed, and completed_at is the time of the last one, or null.
LogAndTaskAgree ==
    \A x \in Tasks :
        /\ Len(events[x]) = reopens[x] + (IF row[x].status = "completed" THEN 1 ELSE 0)
        /\ row[x].completedAt = IF row[x].status = "completed" THEN Len(events[x]) ELSE 0

\* One press completes a task once, whatever is lost, retried or reopened in
\* between: no two completions stem from presses of a tab between which it was
\* not told of success (the idempotency key of changeStatus and complete_task).
OnePressOneCompletion ==
    \A x \in Tasks : \A i, j \in DOMAIN events[x] :
        events[x][i].intent = events[x][j].intent => i = j

\* complete_task answers success only for a press whose completion is in the
\* log: a completion by another tab is not taken for one's own.
SuccessIsLogged ==
    \A t \in Threads :
        req[t].pc = "answer" /\ req[t].op = "complete" /\ req[t].ok
          => \E i \in DOMAIN events[req[t].task] : events[req[t].task][i].intent = req[t].intent

\* update_task replaces tags as a whole, and no tag is there twice: they are
\* those of the last change, unless that change overlapped another one.
TagsAreThoseOfTheLastEdit ==
    \A x \in Tasks :
        /\ \A r, s \in tags[x] : r.value = s.value => r = s
        /\ edited[x].saw => Values(tags[x]) = edited[x].want

\* refresh drops answers that another list overtook: a tab that has shown the
\* present state of its tasks does not fall back to an older one.
NoScreenFallsBack == \A b \in Tabs : current[b] => shown[b] = Listed(TabUser)

\* A task, its log and its tags change only through a request of its owner
\* that is past active_task.
OnlyItsOwnerChangesATask ==
    [][\A x \in Tasks :
         row[x].status # "none" /\ <<row[x], events[x], tags[x]>>' # <<row[x], events[x], tags[x]>>
           => \E t \in Threads : /\ req[t].pc \in {"loaded", "locked"} /\ req[t].task = x
                                 /\ req[t].user = row[x].owner
                                 /\ req'[t] # req[t]]_xvars

\* What the handlers promise about a task, without threads and locks.
Life == INSTANCE TaskLife WITH
    status <- [x \in Tasks |-> row[x].status],
    deleted <- [x \in Tasks |-> row[x].deleted],
    completions <- [x \in Tasks |-> Len(events[x])]

\* lock_task, complete_task, reopen_task and delete_task together: a deleted
\* task is never completed or reopened, and each completion is of a task that
\* was active, however the requests interleave.
ImplementsTaskLife == Life!Spec
=============================================================================
