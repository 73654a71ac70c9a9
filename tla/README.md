# A verification project for the Plan-Do-See diary

TLA+ modules, TLC runs and TLAPS proofs about the diary in this repository: a Flask
application over SQLAlchemy (PostgreSQL in production, READ COMMITTED, four waitress
threads), a React client, and the Render deploy script. Everything here is translated from
`src/`; `PROJECT.json` ("map") names the lines each definition stands for. Short names used
below: `sessions.py` is `src/backend/app/services/sessions.py`, and so on.

## 1. Inventory

### Login sessions — `services/sessions.py`, `auth/guards.py`, `security/tokens.py`
- State: `refresh_sessions` (user, family, replaced_by, last_used_at, expires_at,
  revoked_at and its reason), locks on its rows and on the user row.
- Operations: `open_session`, `rotate_session` (pre-check, user lock, claim by one
  conditional UPDATE, insert of the successor), `revoke_family` on a replay,
  `end_session`, `revoke_all_for_user`; `login_required` reads a row and lets a handler go on.
- Hard: two tabs rotate one token; a rotation waits for the user lock with a clock it
  has already read; revocations read rows without the lock and write them by primary key.
- Correct when: a login has at most one live token; limits are inherited, never renewed, and
  no rotation, however late, carries a login past its absolute limit;
  what a password change, a logout or a deletion ended stays ended; only a spent token
  raises the replay alarm, and the alarm stays inside its family.

### Account endpoints — `services/accounts.py`, `api/auth.py`, `api/account.py`
- State: `users` (password hash and its cost, changed_at), one audit row per event.
- Operations: login (verify, re-hash if the cost is outdated, open a session), password
  change (user lock, verify, revoke all, new hash, one commit; then open), account
  deletion (guard, audit row, DELETE with cascades), signup, logout.
- Hard: a handler is several transactions; foreign keys take key-share locks on the user
  row, so lock orders differ between handlers; the process may die between two commits.
- Correct when: after a change only the new password works; nothing of a deleted account
  lives; every request is answered.

### Login throttle — `services/throttle.py`, `POST /auth/login`
- State: `login_attempts`, counted over a sliding window per (address, ip) and per ip.
- Operations: `current_lock`, `record_failure`, `record_blocked`, `record_success` (deletes
  the pair's failures), `prune` (one request in a hundred).
- Hard: the check and the record are far apart in time (Argon2 in between) and in
  different transactions; deletions and the sliding window change what was counted.
- Correct when: Retry-After keeps its word, knocking does not prolong a lock, a lock in
  force stops a login, pruning moves nothing.

### Browser session client — `frontend/src/api/http.ts`, `auth.ts`, `SessionProvider.tsx`
- State: cookies shared by tabs, a promise queue per tab, a Web Lock or, without it, a
  broadcast fallback with a five-second timer.
- Operations: `sendWithSession`: on 401 take the slot, ask again, rotate, ask a third
  time; `session-lost` when that fails.
- Hard: tabs that start together, lost answers, a timer against a late answer.
- Correct when: one tab at a time rotates; a good session is not lost; a 401 that means
  something else is not "recovered".

### Tasks and completions — `services/tasks.py`, `services/executions.py`, `TaskPanel.tsx`
- State: tasks (status, completed_at, deleted_at), tags, completion events with
  idempotency keys; in a tab the list it shows, the key of an unanswered completion
  (sessionStorage), which tasks wait for an answer and which list was asked for last.
- Operations: create, update (replaces tags), complete, reopen, delete, list; on the
  screen press, delete, refresh.
- Hard: a retried completion after a reopen; complete, reopen and delete in any order;
  two tag replacements from stale reads, inserts before deletes; lists that overtake
  each other.
- Correct when: status, completed_at and events agree; a press counts once; an answer of
  success is true; the newest list stays on the screen.

### Plans, reflections, study order — `plans.py`, `reflections.py`, `rule_changes.py`, `executions.py`
- State: plans and numbered revisions; reflections and the plan that follows each one;
  execution records; rule changes that cite a record of day 1 and one of day 2.
- Operations: `update_plan` (load, count, write), `next_plan` (one successor),
  `create_execution`, `create_rule_change`, and the guards that keep the five days in order.
- Hard: dates checked against a stale read; two edits that count the same revisions; a
  day-3 record and a rule change that check for each other; plans whose start moves;
  tasks whose deletion hides their records.
- Correct when: start <= end, revisions are numbered without a gap and hold versions in order,
  one a version later than the other unless an edit was overtaken (see section 4), one
  successor for each reflection, on the observed plan no day-3 record without a rule change
  before it, and no first rule change after a day-3 record.

### Metrics — `metrics.py`, and the totals of `reflections.py`
- Pure reads of tasks and records. Correct when two computations of the same total agree
  and the halves of a comparison add up.

### Deploy and data claim — `deploy/start.sh`, `scripts/claim_t06_data.py`, the migrations
- State: schema revision, owners of the old data, who serves.
- Operations: boot (upgrade, claim, upgrade, serve), retry, push of other settings, and
  the old program that goes on writing meanwhile.
- Hard: a boot that dies between two steps; data that appears while the claim runs; lists
  of ids that were right for an earlier try.
- Correct when: the new program serves only rows that have an owner, a boot deletes
  leftovers only, and a deploy whose lists cover what is there succeeds in the end.

### The rest
Ownership scoping is one WHERE clause per query; the export serialises what it reads;
request checks, hashing and redaction are functions of one request; the screens render.

### How the parts interact
The browser's `sendWithSession` calls every endpoint and, through `rotate`, the sessions.
Endpoints go through `login_required`, which reads `refresh_sessions`. Login goes through
the throttle before it touches an account. Password change and deletion write `users` and
`refresh_sessions` in one transaction. Tasks, executions, plans and reflections share the
plan rows and the study-order guards. All of them meet only in the database. The deploy
changes the tables under them while the program before it still serves.

## 2. Modules

| module | what it is | state |
|---|---|---|
| `Sessions` | users and refresh_sessions, and all handlers that write them | built |
| `TokenLedger` | abstract: what rotation promises about tokens | built |
| `MCSessions` | instances for TLC (symmetry) | built |
| `SessionsProofs` | types, families, no fork, absolute limit | proved |
| `SessionsRaces` | inductive invariant of the races; Sessions implements TokenLedger; lock order | proved |
| `Throttle`, `MCThrottle` | login_attempts and logins in flight | built |
| `ThrottleProofs` | locks only shrink without a failure; the ladder rises; the form's requests are logins | proved |
| `LoginForm` | the browser's re-send, composed with Throttle | built |
| `Browser`, `MCBrowser` | the tabs of one login: 401 recovery, slot and fallback, session-lost | built |
| `BrowserProofs` | types, no reuse by itself, no spare rotation, reasons to sign out | proved |
| `Tasks`, `MCTasks` | tasks, completions and tags, and the screen that changes them | built |
| `TaskLife` | abstract: the life of a task, without threads, locks and answers | built |
| `TasksProofs` | Tasks implements TaskLife; seven invariants | proved |
| `Plans` | the edits of a plan and the plan after a reflection | built |
| `StudyOrder`, `MCStudyOrder` | composes Plans with records and rule changes; the reports | built |
| `PlanHistory` | abstract: a history that only grows, followers that stay | built |
| `PlansProofs` | types, gapless revisions, what they hold, one next plan; Plans implements PlanHistory | proved |
| `StudyProofs` | the study keeps that; its types, its order, and that its reports agree | proved |
| `Deploy`, `MCDeploy` | boot, claim, migrations, crashes, pushes | built |
| `Handover` | abstract: owners are given once, then required, then T07 opens | built |
| `DeployProofs` | types, owned plans only, leftovers only; Deploy implements Handover | proved |

### How `Sessions` follows the code
A request is a thread that runs one handler. A handler is cut where it reads what it acts
on later, where it waits for a lock, and at each commit:

| handler | steps |
|---|---|
| login | `Login`, `Rehash` (if the cost is outdated), `OpenSession` |
| refresh | `Refresh` (pre-check), `BeginRotate`, `LockForRotate`, `RotateSession` or `LoseClaim` |
| replay | `ReadFamily`, `FlushFamily`, `CommitReuse` |
| logout | `Logout` (guard), `EndSession` |
| password change | `ChangePassword` (guard), `LockForChange` or `RefuseChange`, `CommitChange`, `OpenSession` |
| account deletion | `DeleteAccount` (guard), `NoteDelete`, `DeleteUser` |

`Crash` may end any request between two steps, `DeadlockVictim` is PostgreSQL's answer to a
wait cycle, `Tick` is the clock. Locks are not variables: who holds which one follows from
where the threads stand (`LockedForUpdate`, `KeyShared`, `RowLocked`, `Blockers`).

Data is abstract: a token is the row that stores its digest (`Sids`), a family is named by
its first token, a password by the number of changes committed when it was set. `row` holds
the columns no statement updates, `fate` the (revoked_at, reason) pair; a row removed with
its account keeps its name with fate `purged`. `epoch` and `changes` are history.

### How `Throttle` follows the code
A login arrives (it reads the clock once, `Arrive`), runs the two queries of
`current_lock` one after the other (`ReadPair`, `ReadWide`) and decides. A refused one
writes its row (`RecordBlocked`); the others verify, for as long as it takes, then
`RecordFailure` or `RecordSuccess`, and one in a hundred prunes. `attempts` maps row
identities to rows. `told` and `undisturbed` are history: until when a caller has been told
to stay away, and whether another failure of its ip was recorded since a login arrived.

`LoginForm` adds one person in one tab: `Submit`, `SendAgain` and `SendThird` are the three
`attempt()` calls of `sendWithSession`, each joined with `Arrive`; `Handled` joins the
server's step with the answer it leaves; `ShowAnswer` is the form's `catch`.

### How `Browser` follows the code
A call of a tab is a call of `sendWithSession`, and its `pc` says which of its awaits it is
in: `first`, `queued` (behind `serialize` and the slot), `again`, `rotate`, `third`. A
rotation has two halves, because the server may have handled it when the answer is lost:
`Spend` is POST /auth/refresh, `Rotated` its answer. An `orphan` is a rotation that is on
its way for a call that has been given up. The server is what a tab can tell of it: tokens
are numbered in order of issue, `head` is the live one, `aged` says that its access token
has run out, `ended` that the login is over; `Sessions` has the rest. A call carries the
cookies that were in the jar when its current request was sent, and the jar changes when an
answer arrives, not before.

The slot is `MayWork`: calls of one tab go one after the other (`serialize`), and tabs wait
for each other by the Web Lock, or, without it, while `busy` (`peerBusyUntil`). Both kinds
of browser are initial states. Messages take time; a tab that has not yet heard an
announcement is one whose `busy` has run out, so `Expire` may fire at any time. `Break` is
a fetch that throws, `Close` a tab that is closed; either lets go of the slot.
`hist.lost` and `hist.raced` are history. Of the kinds of call, `password` stands for the
two endpoints that ask for the password again and are given a wrong one.

### How `Tasks` follows the code
A thread serves one request. `Ask`, `AskCreate`, `AskTags` and `Refresh` send one, from a
tab or from somewhere else (`NoTab`), `Click` is `changeStatus`. `Load` is `active_task`,
`Lock` is `lock_task` with its `refresh`, `Complete` and `Reopen` act on the row as it was
read under the lock; `Delete` and `EditTags` act on what was loaded, as the code does.
`ToldOfChange` and `ToldOfList` are what the screen makes of an answer, `Lose` and `Drop` are
requests and answers that do not arrive, and threads that die.

`saved` is sessionStorage, `latest` is `refreshVersion`, `InFlight` is `inFlight`. The
history variables say what the properties compare with: `intent` the first key of a press
that was not yet answered with success, `edited` the last change of tags and whether it had
seen what it replaced, `current` whether a list is still what the server would answer.
`completed_at` is the number of the completion it was set by. Filters, sort order, and the
columns that nothing here depends on, are left out.

### How `Plans` and `StudyOrder` follow the code
`update_plan` is `LoadPlan` (the handler's load, and the check of the dates against it),
`CountRevisions`, and `CommitEdit`; the UPDATE writes the columns that differ from what was
loaded, so `Written` may mix two edits, and `Accepted` is what the tables refuse.
`next_plan` is `AskNext`, `LockReflection` (lock and refresh) and `CommitNext`.
`Plan.version` and `overtaken` are history.

`StudyOrder` EXTENDS `Plans`, so that the plan whose days are counted is one that can be
edited. `create_execution` is `CheckLog` and `CommitLog`, `create_rule_change` is
`CheckChange` and `CommitChange`: nothing is locked in between, as in the code. Days are
days of the calendar, and the number of a day follows from `plan.start` (`FallsOn`,
`FromDayThree`). Every task estimates `Estimate` minutes and every record `Minutes`; task x
is due on day x. `after`, `excused` and `moved` are history. The reports are operators over
the same state: `Summary` and `Before`/`After` of metrics.py and rule_changes.py, `Aggregate`
of reflections.py.

### How `Deploy` follows the code
`at` counts the applied migrations; each migration is a record of its number and the tables
it creates (for the ownership column, the column). `boot.pc` is the line start.sh is at:
`first` (41), `claim` (44, before the writes), `commit` (before the claim's commit),
`upgrade` and `alter` (49, the two looks the last migrations take at the owners), `listen`,
`up`. `Fail` is `set -e`. A claim is two steps because it writes by what it has read.
`serving` may still hold T06 until Render retires it. `Push` gives the next boot other
settings, `Crash` ends a boot or a program anywhere.

## 3. Runs

| run | what it checks | bounds |
|---|---|---|
| `sessions` | eight safety properties, types, and the refinement of TokenLedger | 1 account, 4 tokens, 2 requests at once, AccessTTL 1, IdleTTL 2, AbsoluteTTL 2, clock to 2, 1 change |
| `sessions_live` | every request is answered | 3 tokens, 2 requests, clock to 1 |
| `logout_race` | violation: a logout that leaves the successor alive | as `sessions`, clock to 1 |
| `reuse_race` | violation: a replay alarm that leaves the newest token alive | as above |
| `rehash_race` | violation: a re-hash that undoes a password change | as above |
| `throttle` | Retry-After, the check's effect, pruning, types | 1 address and malformed bodies, 1 ip, 3 rows, 2 logins at once, thresholds 1 and 2, Window = MaxLock = Retention = 2, BaseLock 1, MaxStep 2, clock to 3 |
| `login_form` | violation: the third mistyped submission is refused | the real thresholds 5 and 20, real window and locks in minutes, all within one minute |
| `tasks` | seven safety properties, and the refinement of TaskLife | 1 task, its owner and a stranger, 1 tab, 2 keys, 1 tag value, 2 requests at once, 2 edits of tags |
| `study` | plans, next plans, the order of the study, the reports, and the refinement of PlanHistory | 3 dates, 3 edits, 1 reflection, 2 next plans, 2 requests at once, 2 tasks, 3 records, 2 rule changes; 1 edit and no next plan once the study has begun (`Bounded`) |
| `browser` | reuse, spare rotations, sign-outs, and that every call ends | 2 tabs, 3 calls, 1 fault, 1 access token that expires, with and without Web Locks |
| `wrong_password` | violation: signed out of a session that is alive | as `browser`, no fault, Web Locks or none |
| `deploy` | who serves what, what is deleted, the refinement of Handover, and that a covered deploy succeeds | 3 plans, 2 tasks, 7 settings, 2 pushes, 2 crashes |

**Why the bounds are enough.** Every race of `Sessions` known to us is between two
handlers on one account: sessions of different accounts share no row and no lock. Four
tokens allow a login, two rotations and a second login (or the one after a change). Both
limits are reached: IdleTTL and AbsoluteTTL lie within the clock. AccessTTL 1 lets an
access token die before its session. Deadlocks need two requests; the proofs cover any
number. In `throttle` three rows exceed both thresholds, pass the step where the ladder is
capped by MaxLock, and leave room for a blocked row or a success; Window equals MaxLock,
as it does in the code, and rows get old enough to be pruned. Malformed bodies stand for "another
address" of the same ip: both counters and only one of them see their rows. Different ips
share no rows.

In `tasks` one task is enough: tasks share no row, and a tab guards each one by itself. Two
requests at once give every order of two handlers, and a request that is lost frees its
thread, so a key can be sent again after any number of others. Two keys are one press and
the next; two edits of one tag are enough for both to have read the same row. In `study`
three edits are two that race and a third that counts what they left; three records are days
1 and 2, which a rule change cites, and a day 3; two requests are the record and the rule
change that check for each other. The plan may be moved once in the middle of it. In
`browser` two calls of one tab meet in its queue and the third in another tab; one fault is a
lost request or answer, a failed rotation or a closed tab, at every point of a call. The
invariant the proof is made of was checked with two faults and two expiries as well. In
`deploy` the three plans are one to claim with a removed task, one to exclude and one that T06
may insert meanwhile; the settings are the right ones, none, a report, no password, lists
that are swapped, too short or contradictory.


**Deadlock checking is off** in all cfgs: the clock ends at MaxClock, tokens and rows run
out, and an account that was deleted leaves nothing to do. That a request never hangs is
`RequestsAreAnswered` instead. So it is with the others: tasks, keys and edits are used up, the
calls of the tabs are over, a deploy is up and nobody pushes. `CallsAreAnswered` and
`CoveredDeploysSucceed` say what must not stop before.

**Symmetry** (accounts, tokens, threads; row identities; tasks, tabs, keys and tags; reflections
and ids of plans) is used in safety runs only. `ImplementsTaskLife`, `IsATokenLedger` and `IsAPlanHistory` are
safety formulas that treat the interchanged values alike.

**Fairness** (`FairSpec`). Strong fairness on a thread's steps: PostgreSQL queues waiters of
a row lock first come, first served, and waitress runs each thread, so a request that
is again and again able to go on does go on. Weak fairness on `DeadlockVictim`:
`deadlock_timeout` fires. Nothing is assumed of arrivals, crashes or the clock. In `Browser`
strong fairness on the next step of a call (a fetch is answered or fails, promise queues and
Web Locks serve first come first served) and weak fairness on the five-second timer; not on
beginning a call, on faults, on expiry of tokens or on the end of the login. In `Deploy` weak
fairness on the boot as a whole: Render tries a failed boot again. Pushes and crashes are not
fair, and bounded: a deploy that is crashed forever succeeds never.

**Mutants.** Each property of a passing run has one: the code with one plausible bug (a
WHERE left out, a lock not taken, another lock order, a limit renewed, blocked rows that
count), under which TLC refutes the property. They are the definitions marked `Mutant:`.

## 4. What the runs found

- `logout_race`. A refresh commits between the guard of a logout and its UPDATE. The UPDATE
  matches nothing, the answer is 200 and the successor lives. `test_t07_logout.py:181` says
  the logout ends it.
- `reuse_race`. `revoke_family` reads the live rows without the user lock; a rotation of the
  live one commits before the flush. The newest token of a copied family survives.
- `rehash_race`. `authenticate` writes a hash of the password it verified over whatever the
  row has become; a password change in between is undone. Code bug.
- `login_form`. The session client answers every 401 by sending the request again, also the
  401 of a wrong password. Each mistyped login is recorded twice; the third one is met with
  429, where five was chosen so that "two or three" mistakes are not a wall.
- `wrong_password`. The 401 of a wrong current password (password change, account deletion)
  is recovered from in the same way: the client rotates a good token, asks a third time and
  dispatches `session-lost`. The tab is sent to /login from a session that is alive. Code bug;
  the component tests render the panel without `RequireSession` and do not see it.

Each finding in `PROJECT.json` quotes the lines on both sides.

A login that verified the old password before a change, and opens its session after it, is
left alive. Nothing in the repository promises otherwise, so no property does;
`users.password_changed_at`, which could tell, is never read. It is listed as a hazard.

Some more that the models show, of which the repository says nothing or says it loosely:

- `record_success` deletes rows that the address-wide counter counts, though `throttle.py:185`
  says that count is "left standing". Failures against other addresses do survive.
- `PATCH /tasks/<id>` with a tag the task already has fails as a whole (503): the new rows are
  inserted before the old ones are deleted, against the unique key (`AlreadyThere`). The
  screens send no tags in an edit.
- A task that is submitted again after its answer was lost is there twice: only completions
  carry a key.
- Moving a plan's start date renumbers its days, so a rule change may come to cite what is no
  longer day 1 or 2 (`moved` in `StudyKeepsItsOrder`). A day-3 record and a rule change that
  commit side by side both stand, and a record hidden with its task does not turn a rule change
  away (`excused` in `NoChangeAfterDayThree`). Neither can happen to the first rule change of
  the observed plan, where a day-3 record is let in only behind a rule change; the property says
  that without exception.
- An edit of a plan that is overtaken between its load and its count commits all the same: its
  revision is a second copy of the version it had loaded, and the version in between, whose
  values it replaces, is in no revision. `docs/REQUIREMENTS.md:34-35` and T06-C08
  (`docs/source/T06-OFFICIAL-ASSIGNMENT.md:52`, `T06-ACCEPTANCE-MATRIX.md:17`) promise that the
  values before an edit are kept and make no exception. `OnlyOvertakenEditsSkipAVersion` pins
  down that this is the only way to lose a version; `PlanHistory` allows it.
- `sessions.py:122` says that `rotate_session` "re-checks everything under a lock", and its own
  docstring that the row is re-checked after the lock is held. The time limits are compared with a clock that was read before the wait,
  so a refresh that waits past the absolute limit still answers 200. Its token is dead when it
  is issued: `expires_at` is inherited and every guard reads its own clock.
  `NoLoginOutlivesItsLimit` is about the real clock and holds through that.
- The docstrings of `daily_series` (`metrics.py`) and `plan_study` (`api/rule_changes.py`) speak
  of one snapshot. They run several statements at READ COMMITTED, so a task deleted in between
  is in one number and not in the other; only the export asks for REPEATABLE READ.
- The docstring of `c48b1f60a2d7` wants the claim in a deploy of its own; start.sh does both in
  one boot by stopping the upgrade in between. A plan that T06 inserts between the claim and the
  NOT NULL makes the boot fail, and every retry refuse, until the lists name it; no data is
  lost. A boot with the claim but without `--apply` fails at the NOT NULL in the same way.

## 5. Proofs

All for any sets of accounts, tokens, addresses, ips and threads and any lifetimes,
thresholds and bounds. The proofs about Sessions use `SessionsAssumption` alone (lifetimes
are positive, NoUser and NoSid are nobody's).

- `SessionsProofs`. `TypeCorrect` (TypeOK); `LoginsDoNotFork` (OneLiveTokenPerLogin);
  `AbsoluteLimit` (NoLoginOutlivesItsLimit). `TypeInv` strengthens the types with
  `ThreadsOK` (a busy thread works on an issued row of its own user, and a locked rotation has
  passed the time limits); `Families` adds that a family is named by its first row, whose
  user all its rows have, and that each of them expires AbsoluteTTL after the login the first
  row was opened by: rotation reads a clock that may be stale, so the limit rests on what is
  inherited and not on what rotation compares. To keep the case analysis small, `NextCases`
  splits Next into quiet steps (no row is written, `Turn`) and commits, and `StepEffect` says
  what a commit may do to the tables: one row opened, one row exchanged, or rows killed. The
  later proofs use these, not the actions.
- `SessionsRaces`. The promises are not inductive: that no session survives a change
  depends on what the change has *read* and on who held the lock since. `IInv` adds
  `Exclusive` (one holder of a user's lock), `ChangeSees` (a change that holds the lock
  knows every live session of its user, and none of them has been exchanged), `Links`
  (successors stay in the family; a rotated row has one) and `Replays` (a reuse detection
  works on a family with a spent token). From IInv: `ChangeIsFinal`, `EndIsFinal`,
  `ReuseStaysInTheFamily`, `NoFalseReplay`, `DeletionIsFinal`.
  `SessionsImplementLedger`: under issued <- the rows there are,
  heads <- the live tokens of each login, every step is a step of TokenLedger or a stutter.
  `NoCycleOfRotationsAndChanges`: a holder of the user lock waits only for a reuse
  detection, so each wait cycle contains one, or a deletion.

- `ThrottleProofs`, from `ThrottleAssumption` (positive thresholds, window and locks; rows
  are kept at least as long as the window). The
  argument is `LocksShrink`: if every failure of an ip that is left is an old one, and the
  clock has not gone back, each lock there is now ends no later than one there was. It
  rests on the monotony of cardinality, of the ladder and of the largest time; that a bounded
  set of numbers has a largest comes from the well-foundedness of `<`. The powers of two of the
  ladder are a recursive function (`Doubled`), because the provers have no rules for `^`:
  `DoubledExists` and `LadderRises` are inductions over a set of numbers. `IInv` adds to the types:
  `Timely` (nothing was written in the future), `Told` (what a caller was told is at least as
  late as its locks) and `Checked` (what a login nobody overtook has seen so far bounds the locks
  there are: RetryAfterIsHonest alone says nothing of a login between its two queries).
  Theorems: `ThrottleTypes`, `RetryAfterHolds`, `TheCheckHolds`, `PruningIsHarmless`, and
  `TheFormIsALogin` (FormSpec => Spec), which carries them over to `LoginForm`.

- `TasksProofs`, from `TasksAssumption` (the No-values are nobody's; TabUser is a user). That a
  press counts once rests on `KeysAreKept` (what sessionStorage holds is the key of the press) and
  `KeysAreUnique` (complete_task logs a key once); that log and row agree on `LocksExclude` and on
  `RequestsFit`, which says what a request knows: under the lock the row it has read is the
  row there is; a request that answers success is in the log; a list that nobody disturbed is
  what the server would answer now. `IInv` is these, the types, and the three state properties
  that are inductive with them. Theorems: `TaskTypes`, `TheLogIsRight`, `APressCountsOnce`,
  `SuccessIsInTheLog`, `TagsAreReplacedAsAWhole`, `ScreensDoNotFallBack`, `OwnersOnly`, and
  `TasksAreLived`: with status, deleted and the length of the log as the abstract state, every
  step of Tasks is a step of TaskLife or a stutter.

- `PlansProofs`, from `PlansAssumption`. No gap appears because an edit that commits has the
  number it counted, and that number was free: `EditsCount` bounds what an edit has loaded and
  counted by the versions there are, so a number that is still free is the next one. `LocksHold`
  says a reflection is locked by one thread, which has read it under the lock. Theorems:
  `PlanTypes`, `RevisionsSkipOnlyTheOvertaken`, `OnePlanFollows`, and
  `PlansKeepTheirHistory`: under history <- what the revisions hold, in order, and
  follows <- next, every step of Plans is a step of PlanHistory or a stutter.

- `StudyProofs`, from `PlansAssumption` and `StudyAssumption` (tasks are due on days, dates are
  days). `StudiesAreMadeOfPlanSteps` (StudySpec => Spec) carries the theorems about Plans over.
  The properties of the order speak of rows alone, and a row is committed as it was checked
  some steps before; so `Order` asks the same of what requests still hold in `work`: what a
  pending rule change cites is there and good (`CitationsAreGood`), a pending record of day 3 has
  a rule change behind it (`RecordsWait`), and a pending rule change is excused as soon as a
  record of day 3 overtakes it (`ChangesAreEarly`). That the first rule change of the observed
  plan needs no excuse rests on `CommitsAreOrdered`: what a record and a rule change say of
  which of them was committed first agrees. Records keep their day, their place and, once
  they are over, stay over (`RecordsStay`); only a moved first day gives a record another number,
  hence `~moved`. Theorems: `StudyTypes`, `TheStudyIsInOrder`, `ChangesComeBeforeDayThree`.
  For the reports, a sum over a set of days is a fold, defined by choosing the table of
  the sums over all subsets. `SumTableExists` shows that there is such a table,
  `SumTakesOutAny` that its order of summation does not matter, `SumOfParts` that sums over disjoint
  sets add up, and `SumIsACount` that a sum over days of what lies on each day counts what lies on
  any of them. The library's induction theorems take an operator, which none of the installed provers
  can instantiate; here induction is over a set of numbers or of subsets, from its least missing
  element (`NumbersByInduction`, `SubsetsByInduction`). Theorems: `ReportsOfAStudyAgree`.

- `BrowserProofs`, from `BrowserAssumption`. `Unraced` (Web Locks, or no race so far) gives
  `OneAtATime`: one call is past the wait. Then a call that has just been given a token has the
  newest (`GivenTheNewest`), and as long as no answer was lost the jar holds the newest or is
  about to (`JarIsCurrent`), so what is spent next is live. `AskedFirst` says that whoever rotates
  has asked with the token it spends. `Domains` and `Issued` (nobody holds a token with a number
  above head) make TypeOK. Theorems: `BrowserTypes`, `NoReuseByItself`,
  `EveryRotationIsNeeded`, `NobodyIsSignedOutForNothing`.

- `DeployProofs`, from `DeployAssumption`. `Owned` (past the NOT NULL every plan has an owner;
  who listens is at head) and `ClaimIsCurrent` (what a claim is about to delete is still unowned
  and on the list, and its removed tasks are under plans it is about to claim: nothing gives an
  owner to a plan but a claim, and only one instance boots). `Domains` and `TasksHavePlans` (the
  foreign key, which a claim keeps because the tasks of a plan go with it) make TypeOK.
  Theorems: `DeployTypes`, `NoRequestOverHalfOwnedRows`, `NothingElseIsDeleted`, and
  `DeploysHandOver`: under required <- migration 6 is applied, open <- T07 serves, every step of
  Deploy is a step of Handover or a stutter, so that no retry takes an owner away or opens early.

**Only model-checked**: liveness (`RequestsAreAnswered`, `CallsAreAnswered`,
`CoveredDeploysSucceed`; fairness and ENABLED are out of this prover's reach). Every invariant,
action property and refinement that a passing run checks is also a theorem. The violations are
counterexamples of TLC.

## 6. Not modelled, and why

- Signing, hashing, cookies and CSRF tokens: a request that fails these has no effect, and
  a handler may always stop early (`Crash`).
- Signup: one INSERT under a unique index.
- What a statement does before it waits: a statement is atomic. `record_success` (DELETE and
  INSERT in one transaction) is one step, and a row's attempted_at is the time of its commit.
- Server clocks are one clock. Time is in ticks, not microseconds.
- SQLite, used by the tests, serialises writers: its behaviours are among those modelled.
- Security events, but for the foreign-key lock their insert takes inside the reuse and
  deletion transactions.
- Of Browser: a change of the password with the right one, whose answer replaces the cookies by
  those of a new login (`Sessions` has it); the check on mounting a page (`currentAccount`, one more call), signing in again
  after being signed out, and the CSRF cookie, which lives as long as the login.
- Columns of tasks, plans, records and rule changes that are validated, stored and shown, and
  that no other operation reads; the filters and the order of lists.
- `create_reflection`, one INSERT; the lists of overdue, completed and blocked tasks.
- That a report is read in several statements: the reports of `StudyOrder` read one state.
- The export, which serialises what it reads; `descriptor` and other formatting.
- Downgrades, which start.sh never runs; what a migration does to a column's type or index.
- That an account is deleted, or an owned plan with it, while a deploy is under way: no boot
  step reads owned plans.
- Request checks (Origin, content type), Argon2, the password policy, redaction: functions of
  one request. Benchmark, audit and evidence scripts: outside the running system.
