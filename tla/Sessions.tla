------------------------------ MODULE Sessions ------------------------------
(***************************************************************************)
(* Login sessions of the diary: rows of users and refresh_sessions under   *)
(* PostgreSQL's READ COMMITTED isolation, and the request handlers that    *)
(* open, rotate, end and revoke them (services/sessions.py,                *)
(* services/accounts.py, api/auth.py, api/account.py, auth/guards.py).     *)
(*                                                                         *)
(* A request is a thread that runs one handler.  A handler is cut wherever *)
(* it reads the database and acts on what it read later, wherever it waits *)
(* for a lock, and at every commit.  Locks are not variables: which        *)
(* threads hold one follows from where they stand (LockedForUpdate,        *)
(* KeyShared, RowLocked).  The uncommitted writes of a transaction appear  *)
(* in the tables at its commit.                                            *)
(*                                                                         *)
(* A token and the row that stores its digest are the same thing here, a   *)
(* sid.  A family is named by the sid that opened it.  A password is named *)
(* by the number of changes that had been committed when it was set.       *)
(***************************************************************************)
EXTENDS Naturals, FiniteSets

CONSTANTS
    Users,        \* accounts
    Sids,         \* the pool of row identities and tokens; fresh ones run out
    Threads,      \* the server's request threads
    NoUser,       \* "no account": what an idle thread works on
    NoSid,        \* "no session": an idle thread, or the parent of a login
    AccessTTL,    \* lifetime of an access token, in ticks
    IdleTTL,      \* a session not rotated for this long is dead
    AbsoluteTTL,  \* a login is dead this long after it was made
    MaxClock,     \* bound on the clock
    MaxChanges    \* bound on password changes per account

ASSUME SessionsAssumption ==
    /\ NoUser \notin Users
    /\ NoSid \notin Sids
    /\ AccessTTL \in Nat \ {0}
    /\ IdleTTL \in Nat \ {0}
    /\ AbsoluteTTL \in Nat \ {0}
    /\ MaxClock \in Nat
    /\ MaxChanges \in Nat

VARIABLES
    users,     \* the accounts that have not been deleted
    password,  \* users.password_hash: which password the stored hash verifies
    changes,   \* how many password changes have been committed (history)
    weak,      \* whether the stored hash has outdated cost parameters
    row,       \* refresh_sessions: the columns no statement ever updates
    fate,      \* refresh_sessions: (revoked_at, revoked_reason)
    now,       \* the clock
    req        \* what each thread is doing

vars == <<users, password, changes, weak, row, fate, now, req>>
accounts == <<users, password, changes, weak>>
tables == <<accounts, row, fate>>

-----------------------------------------------------------------------------
(* Rows and requests.                                                      *)

\* The reasons a row may be revoked for; "purged" is a row that the deletion
\* of its account has removed.
Reasons == {"logout", "rotated", "reuse", "password_change", "purged"}
Fates == Reasons \cup {"live"}

\* parent is the inverse of replaced_by_id.  epoch is history: the number of
\* password changes committed when the login was opened.
Row ==
    [user: Users, family: Sids, parent: Sids \cup {NoSid},
     lastUsed: Nat, expires: Nat, epoch: Nat]

PC ==
    {"idle",
     "rehash", "opening",                            \* login
     "prechecked", "rotating", "locked",             \* refresh
     "replayed", "revoking", "flushed",              \* reuse detection
     "ending",                                       \* logout
     "change", "changing",                           \* password change
     "verified", "noted"}                            \* account deletion

Request ==
    [pc: PC, user: Users \cup {NoUser}, sid: Sids \cup {NoSid},
     pw: Nat, at: Nat, targets: SUBSET Sids]

Idle ==
    [pc |-> "idle", user |-> NoUser, sid |-> NoSid,
     pw |-> 0, at |-> 0, targets |-> {}]

Issued == DOMAIN row
Fresh == Sids \ Issued

\* Mutant: every session of the account counts as one family.
EverySession(s) == {x \in Issued : row[x].user = row[s].user}
Family(s) == {x \in Issued : row[x].family = row[s].family}
LiveOf(S) == {x \in S : fate[x] = "live"}
RowsOf(u) == {x \in Issued : row[x].user = u}

\* A thread's next state.
Become(t, r) == req' = [req EXCEPT ![t] = r]
Goto(t, pc) == Become(t, [req[t] EXCEPT !.pc = pc])
Finish(t) == Become(t, Idle)

\* Bound: a request that may insert a row starts only while every busy thread
\* could still draw a fresh identity.
Spare == Cardinality({t \in Threads : req[t].pc # "idle"}) < Cardinality(Fresh)

-----------------------------------------------------------------------------
(* What the code asks of a row.                                            *)

\* The two time limits, as of the instant the handler read the clock.
InTime(s, at) == at < row[s].expires /\ at < row[s].lastUsed + IdleTTL

RefreshIsLive(s) == fate[s] = "live" /\ InTime(s, now)
LiveSession(s) == fate[s] = "live" /\ InTime(s, now)

\* The guard of a protected endpoint: an access token still in date, which was
\* minted when its row was, and a row that is still usable.
CurrentSession(s) == now < row[s].lastUsed + AccessTTL /\ LiveSession(s)

\* Mutant: any ended session counts as replayed.
SpentByAnything(s) == fate[s] \notin {"live", "purged"}
SpentByRotation(s) == fate[s] = "rotated"

\* Mutant: the claim forgets its WHERE revoked_at IS NULL.
ClaimableBlindly(s) == fate[s] # "purged"
Claimable(s) == fate[s] = "live"

\* Mutant: the foreign key of a new row is not enforced.
AnyAccount(u) == TRUE
AccountExists(u) == u \in users

-----------------------------------------------------------------------------
(* Locks.                                                                  *)

\* Mutant: rotation does not lock the user row.
LockedByChangeOnly(u) == {t \in Threads : req[t].user = u /\ req[t].pc = "changing"}
\* Threads holding SELECT ... FOR UPDATE on a user row.
LockedForUpdate(u) ==
    {t \in Threads : req[t].user = u /\ req[t].pc \in {"locked", "changing"}}

\* Threads holding the foreign key's KEY SHARE lock on a user row across a
\* statement: the deletion that has inserted its audit row.  Every other insert
\* that takes this lock commits at once.
KeyShared(u) == {t \in Threads : req[t].user = u /\ req[t].pc = "noted"}

\* Mutant: rotation takes SELECT ... FOR UPDATE on its session row before it
\* locks the user row, the other order from password change.
RowLockedEarly(S) ==
    {t \in Threads : \/ req[t].pc = "flushed" /\ req[t].targets \cap S # {}
                     \/ req[t].pc = "rotating" /\ req[t].sid \in S}
\* Threads that have updated one of these session rows and not committed: the
\* reuse detection whose flush has run its UPDATEs and now inserts its event.
RowLocked(S) ==
    {t \in Threads : req[t].pc = "flushed" /\ req[t].targets \cap S # {}}

\* The threads t has to wait for before its next statement goes through.
Blockers(t) ==
    LET u == req[t].user
        pc == req[t].pc
    IN  (CASE pc \in {"rotating", "change"} -> LockedForUpdate(u) \cup KeyShared(u)
           [] pc \in {"rehash", "opening", "flushed", "verified"} -> LockedForUpdate(u)
           [] pc \in {"locked", "ending"} -> RowLocked({req[t].sid})
           [] pc \in {"changing", "revoking"} -> RowLocked(req[t].targets)
           [] pc = "noted" ->
                  LockedForUpdate(u) \cup KeyShared(u) \cup RowLocked(RowsOf(u))
           [] OTHER -> {})
        \ {t}

\* t stands at pc and nothing keeps it from going on.
Runs(t, pc) == req[t].pc = pc /\ Blockers(t) = {}

\* A set of threads each of which waits for another of the set.
Deadlocked(S) == S # {} /\ \A t \in S : Blockers(t) \cap S # {}

-----------------------------------------------------------------------------
(* Writing rows.                                                           *)

Insert(s, r) ==
    row' = [x \in Issued \cup {s} |-> IF x = s THEN r ELSE row[x]]

\* The fates after the rows in S are given fate f and s is inserted live.
FatesWith(S, f, s) ==
    [x \in Issued \cup {s} |-> IF x = s THEN "live" ELSE IF x \in S THEN f ELSE fate[x]]

Revoke(S, reason) ==
    fate' = [x \in Issued |-> IF x \in S THEN reason ELSE fate[x]]

\* The row of a new login.
LoginRow(s, u) ==
    [user |-> u, family |-> s, parent |-> NoSid, lastUsed |-> now,
     expires |-> now + AbsoluteTTL, epoch |-> changes[u]]

\* Mutant: the successor is left without a family.
SuccessorOfNoFamily(s, at) ==
    [row[s] EXCEPT !.family = NoSid, !.parent = s, !.lastUsed = at]
\* Mutant: rotation pushes the absolute expiry out.
SuccessorExtended(s, at) ==
    [row[s] EXCEPT !.parent = s, !.lastUsed = at, !.expires = at + AbsoluteTTL]
\* The successor of s, rotated by a request that read the clock at `at`.
Successor(s, at) ==
    [row[s] EXCEPT !.parent = s, !.lastUsed = at]

-----------------------------------------------------------------------------
(* Init, and one action per step of a handler.                             *)

Init ==
    /\ users = Users
    /\ password = [u \in Users |-> 0]
    /\ changes = [u \in Users |-> 0]
    /\ weak = [u \in Users |-> TRUE]
    /\ row = [s \in {} |-> [user |-> NoUser]]
    /\ fate = [s \in {} |-> "live"]
    /\ now = 0
    /\ req = [t \in Threads |-> Idle]

(* POST /auth/login.  A wrong password, or a locked-out one, changes none    *)
(* of these tables (the throttle is a component of its own).                 *)
Login(t, u) ==
    /\ req[t].pc = "idle"
    /\ u \in users
    /\ Spare
    /\ Become(t, [Idle EXCEPT !.pc = IF weak[u] THEN "rehash" ELSE "opening",
                              !.user = u, !.pw = password[u]])
    /\ UNCHANGED <<tables, now>>

\* authenticate's rehash: an UPDATE by primary key with a hash of the password
\* it verified, whatever the row has become since.
Rehash(t) ==
    LET u == req[t].user
    IN  /\ Runs(t, "rehash")
        /\ IF u \in users
           THEN /\ password' = [password EXCEPT ![u] = req[t].pw]
                /\ weak' = [weak EXCEPT ![u] = FALSE]
                /\ Goto(t, "opening")
           ELSE Finish(t) /\ UNCHANGED <<password, weak>>
        /\ UNCHANGED <<users, changes, row, fate, now>>

\* open_session, after a login or a password change.  The insert fails on its
\* foreign key when the account is gone.
OpenSession(t) ==
    LET u == req[t].user
    IN  /\ Runs(t, "opening")
        /\ IF AccountExists(u)
           THEN \E s \in Fresh :
                    /\ Insert(s, LoginRow(s, u))
                    /\ fate' = FatesWith({}, "live", s)
           ELSE UNCHANGED <<row, fate>>
        /\ Finish(t)
        /\ UNCHANGED <<accounts, now>>

(* POST /auth/refresh.                                                      *)

\* The pre-check, with any token ever issued.  A live token whose request fails
\* CSRF, and a dead one that was not rotated, are answered with no change.
Refresh(t, s) ==
    /\ req[t].pc = "idle"
    /\ \/ RefreshIsLive(s) /\ Spare /\ Become(t, [Idle EXCEPT !.pc = "prechecked",
                                          !.user = row[s].user, !.sid = s])
       \/ ~RefreshIsLive(s) /\ SpentByRotation(s)
          /\ Become(t, [Idle EXCEPT !.pc = "replayed", !.user = row[s].user, !.sid = s])
    /\ UNCHANGED <<tables, now>>

\* rotate_session reads the clock and the row.
BeginRotate(t) ==
    /\ req[t].pc = "prechecked"
    /\ IF fate[req[t].sid] = "purged"
       THEN Finish(t)
       ELSE Become(t, [req[t] EXCEPT !.pc = "rotating", !.at = now])
    /\ UNCHANGED <<tables, now>>

\* ... takes the user lock, then refuses a row that is past a limit.
LockForRotate(t) ==
    /\ Runs(t, "rotating")
    /\ IF InTime(req[t].sid, req[t].at) THEN Goto(t, "locked") ELSE Finish(t)
    /\ UNCHANGED <<tables, now>>

\* ... claims the row with one conditional UPDATE, inserts the successor and
\* commits.
RotateSession(t) ==
    LET s == req[t].sid
    IN  /\ Runs(t, "locked")
        /\ Claimable(s)
        /\ \E n \in Fresh :
               /\ Insert(n, Successor(s, req[t].at))
               /\ fate' = FatesWith({s}, "rotated", n)
        /\ Finish(t)
        /\ UNCHANGED <<accounts, now>>

\* ... or loses the claim, rolls back and reads why the row died.
LoseClaim(t) ==
    LET s == req[t].sid
    IN  /\ Runs(t, "locked")
        /\ ~Claimable(s)
        /\ IF SpentByRotation(s) THEN Goto(t, "replayed") ELSE Finish(t)
        /\ UNCHANGED <<tables, now>>

(* Reuse detection: revoke_reused_family.                                   *)

\* revoke_family's SELECT of the live rows of the family.
ReadFamily(t) ==
    /\ req[t].pc = "replayed"
    /\ Become(t, [req[t] EXCEPT !.pc = "revoking", !.targets = LiveOf(Family(req[t].sid))])
    /\ UNCHANGED <<tables, now>>

\* The flush UPDATEs them by primary key, and fails if one of them is gone.
FlushFamily(t) ==
    /\ Runs(t, "revoking")
    /\ IF \E s \in req[t].targets : fate[s] = "purged" THEN Finish(t) ELSE Goto(t, "flushed")
    /\ UNCHANGED <<tables, now>>

\* ... then inserts the audit row, whose foreign key needs the user, and commits.
CommitReuse(t) ==
    /\ Runs(t, "flushed")
    /\ IF req[t].user \in users THEN Revoke(req[t].targets, "reuse") ELSE UNCHANGED fate
    /\ Finish(t)
    /\ UNCHANGED <<accounts, row, now>>

(* POST /auth/logout: the guard, then end_session.                          *)
Logout(t, s) ==
    /\ req[t].pc = "idle"
    /\ CurrentSession(s)
    /\ Become(t, [Idle EXCEPT !.pc = "ending", !.user = row[s].user, !.sid = s])
    /\ UNCHANGED <<tables, now>>

\* Mutant: the UPDATE forgets its WHERE revoked_at IS NULL.
EndSessionBlindly(t) ==
    /\ Runs(t, "ending")
    /\ fate[req[t].sid] # "purged"
    /\ Revoke({req[t].sid}, "logout")
    /\ Finish(t)
    /\ UNCHANGED <<accounts, row, now>>

\* One conditional UPDATE, of a row that is still live.
EndSession(t) ==
    /\ Runs(t, "ending")
    /\ Revoke(LiveOf({req[t].sid}), "logout")
    /\ Finish(t)
    /\ UNCHANGED <<accounts, row, now>>

(* POST /auth/password.                                                     *)
ChangePassword(t, s, p) ==
    /\ req[t].pc = "idle"
    /\ CurrentSession(s)
    /\ Spare
    /\ Become(t, [Idle EXCEPT !.pc = "change", !.user = row[s].user, !.pw = p])
    /\ UNCHANGED <<tables, now>>

\* The user lock, the current password, and revoke_all_for_user's SELECT.
LockForChange(t) ==
    LET u == req[t].user
    IN  /\ Runs(t, "change")
        /\ u \in users
        /\ req[t].pw = password[u]
        /\ changes[u] < MaxChanges
        /\ Become(t, [req[t] EXCEPT !.pc = "changing", !.targets = LiveOf(RowsOf(u))])
        /\ UNCHANGED <<tables, now>>

\* Refused under the lock: the account is gone, the current password is wrong,
\* or the new one is the same.
RefuseChange(t) ==
    /\ Runs(t, "change")
    /\ Finish(t)
    /\ UNCHANGED <<tables, now>>

\* The flush and the commit: new hash, every row read before revoked by
\* primary key.  The handler goes on to open a new session.
CommitChange(t) ==
    LET u == req[t].user
        new == changes[u] + 1
    IN  /\ Runs(t, "changing")
        /\ password' = [password EXCEPT ![u] = new]
        /\ changes' = [changes EXCEPT ![u] = new]
        /\ weak' = [weak EXCEPT ![u] = FALSE]
        /\ Revoke(req[t].targets, "password_change")
        /\ Become(t, [Idle EXCEPT !.pc = "opening", !.user = u, !.pw = new])
        /\ UNCHANGED <<users, row, now>>

(* DELETE /account: the guard and the password, the audit row, the delete.  *)
DeleteAccount(t, s) ==
    /\ req[t].pc = "idle"
    /\ CurrentSession(s)
    /\ Become(t, [Idle EXCEPT !.pc = "verified", !.user = row[s].user])
    /\ UNCHANGED <<tables, now>>

NoteDelete(t) ==
    /\ Runs(t, "verified")
    /\ IF req[t].user \in users THEN Goto(t, "noted") ELSE Finish(t)
    /\ UNCHANGED <<tables, now>>

DeleteUser(t) ==
    LET u == req[t].user
    IN  /\ Runs(t, "noted")
        /\ users' = users \ {u}
        /\ Revoke(RowsOf(u), "purged")
        /\ Finish(t)
        /\ UNCHANGED <<password, changes, weak, row, now>>

(* The environment.                                                         *)

\* The process dies, or the connection does: the open transaction is rolled
\* back, what the handler committed before stays.
Crash(t) ==
    /\ req[t].pc # "idle"
    /\ Finish(t)
    /\ UNCHANGED <<tables, now>>

\* Mutant: the server never breaks a deadlock.
NoVictim(t) == FALSE /\ UNCHANGED vars
\* PostgreSQL aborts one transaction of a deadlock; the application's error
\* handler rolls back and answers 503.
DeadlockVictim(t) ==
    /\ \E S \in SUBSET Threads : t \in S /\ Deadlocked(S)
    /\ Finish(t)
    /\ UNCHANGED <<tables, now>>

Tick ==
    /\ now < MaxClock
    /\ now' = now + 1
    /\ UNCHANGED <<tables, req>>

\* What a busy thread does next.
Step(t) ==
    \/ Rehash(t) \/ OpenSession(t)
    \/ BeginRotate(t) \/ LockForRotate(t) \/ RotateSession(t) \/ LoseClaim(t)
    \/ ReadFamily(t) \/ FlushFamily(t) \/ CommitReuse(t)
    \/ EndSession(t)
    \/ LockForChange(t) \/ RefuseChange(t) \/ CommitChange(t)
    \/ NoteDelete(t) \/ DeleteUser(t)

\* A request arrives.
Arrive(t) ==
    \/ \E u \in Users : Login(t, u)
    \/ \E s \in Issued :
           \/ Refresh(t, s)
           \/ Logout(t, s)
           \/ \E p \in 0..MaxChanges : ChangePassword(t, s, p)
           \/ DeleteAccount(t, s)

Next ==
    \/ \E t \in Threads : Arrive(t) \/ Step(t) \/ Crash(t) \/ DeadlockVictim(t)
    \/ Tick

Spec == Init /\ [][Next]_vars

\* A lock queue is first come first served and deadlock_timeout fires, so a
\* request that is again and again able to go on goes on.
FairSpec ==
    /\ Spec
    /\ \A t \in Threads : SF_vars(Step(t)) /\ WF_vars(DeadlockVictim(t))

-----------------------------------------------------------------------------
(* Properties.                                                             *)

\* Every variable stays in its domain; a busy thread works on a row that was
\* issued, and fate and row describe the same rows.
TypeOK ==
    /\ users \subseteq Users
    /\ password \in [Users -> Nat]
    /\ changes \in [Users -> Nat]
    /\ weak \in [Users -> BOOLEAN]
    /\ Issued \subseteq Sids
    /\ row \in [Issued -> Row]
    /\ fate \in [Issued -> Fates]
    /\ now \in Nat
    /\ req \in [Threads -> Request]

\* A login never forks: of all the tokens descended from it at most one is
\* live, however many requests rotate it at once (sessions.py rotate_session:
\* "the family forks, and the loser's token is a working credential nobody is
\* tracking").
OneLiveTokenPerLogin ==
    \A a, b \in LiveOf(Issued) : row[a].family = row[b].family => a = b

\* No token of a login works once AbsoluteTTL has passed since the login was
\* made, however often it was rotated (T07-C111: "an absolute limit that rotation
\* could push out would not be absolute").  rotate_session reads the clock before
\* it waits for the user lock, so a rotation may commit, and answer 200, after
\* the limit: the token it mints then is dead when it is made.
NoLoginOutlivesItsLimit ==
    \A s \in Issued : LiveSession(s) => now < row[row[s].family].lastUsed + AbsoluteTTL

\* A password change kills every session that existed when it committed, a
\* rotation in flight included: what is live was opened, or descends from a
\* login that was opened, after the last change (accounts.py change_password:
\* "It is also what makes the revocation stick").
ChangeKillsWhatWasOpen ==
    \A s \in LiveOf(Issued) : row[s].epoch = changes[row[s].user]

\* A token that was ended on purpose has no successor and gets none: logout and
\* password change never lose to a rotation that had already seen it live.
EndedTokenHasNoSuccessor ==
    \A s \in Issued :
        row[s].parent # NoSid =>
            fate[row[s].parent] \in {"rotated", "reuse", "purged"}

\* Reuse detection stays inside the family whose spent token came back: a token
\* killed by it has a relative that was exchanged for a successor
\* (sessions.py revoke_family: "every session descended from one login").
ReuseNeedsASpentRelative ==
    \A s \in Issued : fate[s] = "reuse" =>
        \E x \in Issued : row[x].parent # NoSid /\ row[x].family = row[s].family

\* What is taken for a replay is one: the token in hand has a successor.  A
\* token ended by a logout or a password change while its refresh was in flight
\* raises no alarm (sessions.py rotate_session: "Losing the claim is not by
\* itself a replay").
ReplayIsOfASpentToken ==
    \A t \in Threads : req[t].pc \in {"replayed", "revoking", "flushed"} =>
        \E n \in Issued : row[n].parent = req[t].sid

\* No live session belongs to a deleted account, whatever was in flight when it
\* was deleted (api/account.py: "a browser holding three values that name
\* nothing rather than a live session").
DeletedAccountHasNoSession ==
    \A s \in LiveOf(Issued) : row[s].user \in users

\* The order in which rotation and password change take their locks keeps them
\* from deadlocking (sessions.py:165, accounts.py:188): every wait cycle has a
\* reuse detection or an account deletion in it, which hold a lock of one
\* table while they wait for one of the other.
RotationAndChangeNeverDeadlock ==
    \A S \in SUBSET Threads :
        Deadlocked(S) => \E t \in S : req[t].pc \in {"flushed", "noted"}

\* The tokens and their logins behave as TokenLedger promises.
Ledger == INSTANCE TokenLedger WITH
    issued <- Issued,
    heads <- [f \in Sids |-> {s \in LiveOf(Issued) : row[s].family = f}]
IsATokenLedger == Ledger!Spec

\* Every request is answered: a deadlock is always broken, a lock is always
\* released.
RequestsAreAnswered ==
    \A t \in Threads : req[t].pc # "idle" ~> req[t].pc = "idle"

-----------------------------------------------------------------------------
(* What the repository says of this code, and the code does not do.        *)

\* A logout that is answered leaves nothing of its login alive: "refresh first
\* leaves the logout to end the successor" (test_t07_logout.py:181), "the
\* session is already dead and the cookies the browser kept are worth nothing"
\* (api/auth.py:263).
LogoutEndsTheLogin ==
    [][\A t \in Threads : EndSession(t) =>
           \A s \in Issued' : row'[s].family = row[req[t].sid].family => fate'[s] # "live"]_vars

\* A reuse detection that commits leaves nothing of the family alive: "Kill
\* every session descended from a login whose token was replayed"
\* (api/auth.py:58).
ReuseEndsTheFamily ==
    [][\A t \in Threads : CommitReuse(t) =>
           \A s \in Issued' : row'[s].family = row[req[t].sid].family => fate'[s] # "live"]_vars

\* After a change only the new password logs in (test_t07_password_change.py:59
\* "the new password works and the old one does not").
OnlyTheNewPasswordWorks ==
    \A u \in users : password[u] = changes[u]

=============================================================================
