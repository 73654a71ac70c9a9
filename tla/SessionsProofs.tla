--------------------------- MODULE SessionsProofs ---------------------------
(***************************************************************************)
(* Proofs about Sessions, for any sets of accounts, tokens and threads and *)
(* any lifetimes.                                                          *)
(***************************************************************************)
EXTENDS Sessions, TLAPS

-----------------------------------------------------------------------------
(* The inductive invariant, in named parts.                                *)

\* What a busy request works on exists, and a rotation that got past the time
\* limits read the clock before them.
RequestOK(r) ==
    /\ r.pc # "idle" => r.user \in Users
    /\ r.pc \in {"prechecked", "rotating", "locked", "replayed",
                 "revoking", "flushed", "ending"} =>
           r.sid \in Issued /\ r.user = row[r.sid].user
    /\ r.targets \subseteq Issued
    /\ r.pc = "locked" => InTime(r.sid, r.at)

ThreadsOK == \A t \in Threads : RequestOK(req[t])

TypeInv == TypeOK /\ ThreadsOK

-----------------------------------------------------------------------------
(* Steps, by what they write.                                              *)

\* The steps that write no row of refresh_sessions.
Quiet(t) ==
    \/ \E u \in Users : Login(t, u)
    \/ \E s \in Issued : \/ Refresh(t, s) \/ Logout(t, s) \/ DeleteAccount(t, s)
                         \/ \E p \in 0..MaxChanges : ChangePassword(t, s, p)
    \/ Rehash(t)
    \/ BeginRotate(t) \/ LockForRotate(t) \/ LoseClaim(t)
    \/ ReadFamily(t) \/ FlushFamily(t)
    \/ LockForChange(t) \/ RefuseChange(t)
    \/ NoteDelete(t)
    \/ Crash(t) \/ DeadlockVictim(t)

\* The steps that commit writes to it.
Commit(t) ==
    \/ OpenSession(t) \/ RotateSession(t) \/ CommitReuse(t) \/ EndSession(t)
    \/ CommitChange(t) \/ DeleteUser(t)

LEMMA NextCases == Next <=> Tick \/ \E t \in Threads : Quiet(t) \/ Commit(t)
  BY DEF Next, Arrive, Step, Quiet, Commit

\* What a quiet step of t does: t comes to work on r.
Turn(t, r) ==
    /\ r \in Request
    /\ RequestOK(r)
    /\ Become(t, r)
    /\ UNCHANGED <<users, changes, row, fate, now>>
    /\ password' \in [Users -> Nat]
    /\ weak' \in [Users -> BOOLEAN]

LEMMA InitTypeInv == Init => TypeInv
  BY SessionsAssumption
  DEF Init, TypeInv, TypeOK, ThreadsOK, RequestOK, Idle, Request, PC, Row, Fates, Reasons, Issued

LEMMA IdleOK == Idle \in Request /\ RequestOK(Idle)
  BY DEF Idle, Request, PC, RequestOK

LEMMA QuietTurns ==
  ASSUME TypeInv, NEW t \in Threads, Quiet(t)
  PROVE  \E r : Turn(t, r)
<1> DEFINE r0 == req[t]
<1>0. /\ r0 \in Request /\ RequestOK(r0)
      /\ row \in [Issued -> Row] /\ Issued \subseteq Sids
      /\ password \in [Users -> Nat] /\ weak \in [Users -> BOOLEAN]
      /\ users \subseteq Users /\ now \in Nat
  BY DEF TypeInv, TypeOK, ThreadsOK
<1>a. ASSUME UNCHANGED <<tables, now>>, NEW r \in Request, RequestOK(r), Become(t, r)
      PROVE  \E q : Turn(t, q)
  BY <1>0, <1>a DEF Turn, tables, accounts
<1>b. ASSUME UNCHANGED <<tables, now>>, Finish(t)
      PROVE  \E q : Turn(t, q)
  BY <1>a, <1>b, IdleOK DEF Finish
<1>1. CASE \E u \in Users : Login(t, u)
  <2>1. PICK u \in Users : Login(t, u)  BY <1>1
  <2> DEFINE r == [Idle EXCEPT !.pc = IF weak[u] THEN "rehash" ELSE "opening",
                               !.user = u, !.pw = password[u]]
  <2>2. r \in Request /\ RequestOK(r)
    BY <1>0 DEF Idle, Request, PC, RequestOK
  <2>. QED  BY <2>1, <2>2, <1>a DEF Login
<1>2. ASSUME NEW s \in Issued, Refresh(t, s) PROVE \E q : Turn(t, q)
  <2> DEFINE r(pc) == [Idle EXCEPT !.pc = pc, !.user = row[s].user, !.sid = s]
  <2>1. \A pc \in {"prechecked", "replayed"} : r(pc) \in Request /\ RequestOK(r(pc))
    BY <1>0 DEF Idle, Request, PC, RequestOK, Row
  <2>. QED  BY <2>1, <1>2, <1>a DEF Refresh
<1>3. ASSUME NEW s \in Issued, Logout(t, s) PROVE \E q : Turn(t, q)
  <2> DEFINE r == [Idle EXCEPT !.pc = "ending", !.user = row[s].user, !.sid = s]
  <2>1. r \in Request /\ RequestOK(r)
    BY <1>0 DEF Idle, Request, PC, RequestOK, Row
  <2>. QED  BY <2>1, <1>3, <1>a DEF Logout
<1>4. ASSUME NEW s \in Issued, DeleteAccount(t, s) PROVE \E q : Turn(t, q)
  <2> DEFINE r == [Idle EXCEPT !.pc = "verified", !.user = row[s].user]
  <2>1. r \in Request /\ RequestOK(r)
    BY <1>0 DEF Idle, Request, PC, RequestOK, Row
  <2>. QED  BY <2>1, <1>4, <1>a DEF DeleteAccount
<1>5. ASSUME NEW s \in Issued, NEW p \in 0..MaxChanges, ChangePassword(t, s, p)
      PROVE \E q : Turn(t, q)
  <2> DEFINE r == [Idle EXCEPT !.pc = "change", !.user = row[s].user, !.pw = p]
  <2>0. p \in Nat /\ row[s].user \in Users
    BY <1>0, SessionsAssumption DEF Row
  <2>1. r \in Request /\ RequestOK(r)
    BY <2>0 DEF Idle, Request, PC, RequestOK
  <2>. QED  BY <2>1, <1>5, <1>a DEF ChangePassword
\* A request that moves on keeps what it works on.
<1>c. ASSUME NEW pc \in PC, r0.pc # "idle", pc # "locked" \/ InTime(r0.sid, r0.at),
             \/ pc \notin {"prechecked", "rotating", "locked", "replayed",
                           "revoking", "flushed", "ending"}
             \/ r0.pc \in {"prechecked", "rotating", "locked", "replayed",
                           "revoking", "flushed", "ending"}
      PROVE  LET r == [r0 EXCEPT !.pc = pc] IN r \in Request /\ RequestOK(r)
  BY <1>0, <1>c DEF Request, RequestOK
<1>6. CASE Rehash(t)
  <2> DEFINE r == [req[t] EXCEPT !.pc = "opening"]
  <2>1. r \in Request /\ RequestOK(r)
    BY <1>6, <1>c DEF Rehash, Runs, PC
  <2>2. password' \in [Users -> Nat] /\ weak' \in [Users -> BOOLEAN]
    BY <1>0, <1>6 DEF Rehash, Request
  <2>. QED  BY <2>1, <2>2, <1>6, IdleOK DEF Rehash, Turn, Goto, Finish
<1>7. CASE BeginRotate(t)
  <2> DEFINE r == [req[t] EXCEPT !.pc = "rotating", !.at = now]
  <2>1. r \in Request /\ RequestOK(r)
    BY <1>0, <1>7 DEF BeginRotate, Request, PC, RequestOK
  <2>. QED  BY <2>1, <1>7, <1>a, <1>b DEF BeginRotate
<1>8. CASE LockForRotate(t)
  <2>1. CASE InTime(req[t].sid, req[t].at)
    BY <2>1, <1>8, <1>a, <1>c DEF LockForRotate, Runs, Goto, PC
  <2>. QED  BY <2>1, <1>8, <1>b DEF LockForRotate
<1>9. CASE LoseClaim(t)
  <2>1. CASE SpentByRotation(req[t].sid)
    BY <2>1, <1>9, <1>a, <1>c DEF LoseClaim, Runs, Goto, PC
  <2>. QED  BY <2>1, <1>9, <1>b DEF LoseClaim
<1>10. CASE ReadFamily(t)
  <2> DEFINE r == [req[t] EXCEPT !.pc = "revoking", !.targets = LiveOf(Family(req[t].sid))]
  <2>0. LiveOf(Family(req[t].sid)) \subseteq Issued
    BY DEF LiveOf, Family
  <2>1. r \in Request /\ RequestOK(r)
    BY <1>0, <1>10, <2>0 DEF ReadFamily, Request, PC, RequestOK
  <2>. QED  BY <2>1, <1>10, <1>a DEF ReadFamily
<1>11. CASE FlushFamily(t)
  <2>1. CASE \E s \in req[t].targets : fate[s] = "purged"
    BY <2>1, <1>11, <1>b DEF FlushFamily
  <2>2. CASE ~ \E s \in req[t].targets : fate[s] = "purged"
    BY <2>2, <1>11, <1>a, <1>c DEF FlushFamily, Runs, Goto, PC
  <2>. QED  BY <2>1, <2>2
<1>12. CASE LockForChange(t)
  <2> DEFINE T == LiveOf(RowsOf(req[t].user))
             r == [req[t] EXCEPT !.pc = "changing", !.targets = T]
  <2>0. T \subseteq Issued
    BY DEF LiveOf, RowsOf
  <2>1. r \in Request /\ RequestOK(r)
    BY <1>0, <1>12, <2>0 DEF LockForChange, Runs, Request, PC, RequestOK
  <2>. QED  BY <2>1, <1>12, <1>a DEF LockForChange
<1>13. CASE RefuseChange(t)
  BY <1>13, <1>b DEF RefuseChange
<1>14. CASE NoteDelete(t)
  <2>1. CASE req[t].user \in users
    BY <2>1, <1>14, <1>a, <1>c DEF NoteDelete, Runs, Goto, PC
  <2>. QED  BY <2>1, <1>14, <1>b DEF NoteDelete
<1>15. CASE Crash(t)
  BY <1>15, <1>b DEF Crash
<1>16. CASE DeadlockVictim(t)
  BY <1>16, <1>b DEF DeadlockVictim
<1>. QED
  BY <1>1, <1>2, <1>3, <1>4, <1>5, <1>6, <1>7, <1>8, <1>9, <1>10, <1>11, <1>12,
     <1>13, <1>14, <1>15, <1>16 DEF Quiet

\* A quiet step keeps the types, and leaves every other request alone.
LEMMA TurnTyped ==
  ASSUME TypeInv, NEW t \in Threads, NEW r, Turn(t, r)
  PROVE  /\ TypeInv'
         /\ req'[t] = r
         /\ \A x \in Threads \ {t} : req'[x] = req[x]
<1>1. /\ req' \in [Threads -> Request]
      /\ req'[t] = r
      /\ \A x \in Threads \ {t} : req'[x] = req[x]
  BY DEF Turn, Become, TypeInv, TypeOK
<1>2. TypeOK'
  BY <1>1 DEF Turn, TypeInv, TypeOK, Issued
<1>3. ASSUME NEW x \in Threads PROVE RequestOK(req[x])'
  <2>1. RequestOK(req'[x])
    BY <1>1 DEF Turn, TypeInv, ThreadsOK
  <2>. QED  BY <2>1 DEF Turn, RequestOK, InTime, Issued
<1>. QED  BY <1>1, <1>2, <1>3 DEF TypeInv, ThreadsOK

\* A commit ends a request, or hands a password change over to the login that
\* follows it; the rows there were keep their columns.
LEMMA CommitTyped ==
  ASSUME TypeInv, NEW t \in Threads, Commit(t)
  PROVE  /\ TypeInv'
         /\ \A x \in Threads \ {t} : req'[x] = req[x]
         /\ req'[t].pc \in {"idle", "opening"}
         /\ Issued \subseteq Issued'
         /\ \A s \in Issued : row'[s] = row[s]
<1> DEFINE r0 == req[t]
<1>0. /\ r0 \in Request /\ RequestOK(r0)
      /\ row \in [Issued -> Row] /\ Issued \subseteq Sids
      /\ fate \in [Issued -> Fates]
      /\ password \in [Users -> Nat] /\ weak \in [Users -> BOOLEAN]
      /\ changes \in [Users -> Nat]
      /\ users \subseteq Users /\ now \in Nat
      /\ req \in [Threads -> Request]
      /\ \A x \in Threads : RequestOK(req[x])
  BY DEF TypeInv, TypeOK, ThreadsOK
\* It is enough that the tables stay typed and the old rows unchanged.
<1>a. ASSUME NEW r \in Request, Become(t, r), r.pc \in {"idle", "opening"},
             r.pc # "idle" => r.user \in Users, r.targets = {},
             users' \subseteq Users, password' \in [Users -> Nat],
             changes' \in [Users -> Nat], weak' \in [Users -> BOOLEAN],
             Issued \subseteq Issued', Issued' \subseteq Sids, row' \in [Issued' -> Row],
             fate' \in [Issued' -> Fates], now' = now,
             \A s \in Issued : row'[s] = row[s]
      PROVE  /\ TypeInv'
             /\ \A x \in Threads \ {t} : req'[x] = req[x]
             /\ req'[t].pc \in {"idle", "opening"}
             /\ Issued \subseteq Issued'
             /\ \A s \in Issued : row'[s] = row[s]
  <2>1. /\ req' \in [Threads -> Request]
        /\ req'[t] = r
        /\ \A x \in Threads \ {t} : req'[x] = req[x]
    BY <1>0, <1>a DEF Become
  <2>2. TypeOK'
    BY <1>0, <1>a, <2>1 DEF TypeOK
  <2>3. ASSUME NEW x \in Threads PROVE RequestOK(req[x])'
    <3>1. CASE x = t
      BY <3>1, <2>1, <1>a DEF RequestOK
    <3>2. CASE x # t
      BY <3>2, <2>1, <1>0, <1>a DEF RequestOK, InTime
    <3>. QED  BY <3>1, <3>2
  <2>. QED  BY <1>a, <2>1, <2>2, <2>3 DEF TypeInv, ThreadsOK
<1>b. Idle \in Request /\ Idle.pc = "idle" /\ Idle.targets = {}
  BY DEF Idle, Request, PC
\* Revoking some rows for a reason the table knows.
<1>c. ASSUME NEW S, NEW f \in Fates, Revoke(S, f), UNCHANGED row
      PROVE  /\ fate' \in [Issued' -> Fates] /\ Issued' = Issued
             /\ \A s \in Issued : row'[s] = row[s]
  BY <1>0, <1>c DEF Revoke, Issued
\* Inserting a live row.
<1>d. ASSUME NEW s \in Sids, NEW r \in Row, NEW S, NEW f \in Fates, s \notin Issued,
             Insert(s, r), fate' = FatesWith(S, f, s)
      PROVE  /\ Issued' = Issued \cup {s}
             /\ row' \in [Issued' -> Row] /\ fate' \in [Issued' -> Fates]
             /\ \A x \in Issued : row'[x] = row[x]
  BY <1>0, <1>d DEF Insert, FatesWith, Issued, Fates
<1>1. CASE OpenSession(t)
  <2>1. CASE ~AccountExists(req[t].user)
    BY <2>1, <1>1, <1>0, <1>a, <1>b DEF OpenSession, Finish, accounts, Issued
  <2>2. CASE AccountExists(req[t].user)
    <3>1. PICK s \in Fresh : /\ Insert(s, LoginRow(s, req[t].user))
                             /\ fate' = FatesWith({}, "live", s)
      BY <2>2, <1>1 DEF OpenSession
    <3>2. LoginRow(s, req[t].user) \in Row
      BY <2>2, <1>0, SessionsAssumption DEF LoginRow, Row, AccountExists, Fresh, Request
    <3>3. s \in Sids /\ s \notin Issued /\ "live" \in Fates
      BY DEF Fresh, Fates
    <3>. QED  BY <3>1, <3>2, <3>3, <1>1, <1>0, <1>a, <1>b, <1>d DEF OpenSession, Finish, accounts
  <2>. QED  BY <2>1, <2>2
<1>2. CASE RotateSession(t)
  <2>1. PICK n \in Fresh : /\ Insert(n, Successor(req[t].sid, req[t].at))
                           /\ fate' = FatesWith({req[t].sid}, "rotated", n)
    BY <1>2 DEF RotateSession
  <2>2. req[t].sid \in Issued /\ req[t].at \in Nat
    BY <1>2, <1>0 DEF RotateSession, Runs, RequestOK, Request
  <2>3. Successor(req[t].sid, req[t].at) \in Row
    BY <2>2, <1>0 DEF Successor, Row
  <2>4. n \in Sids /\ n \notin Issued /\ "rotated" \in Fates
    BY DEF Fresh, Fates, Reasons
  <2>. QED  BY <2>1, <2>3, <2>4, <1>2, <1>0, <1>a, <1>b, <1>d DEF RotateSession, Finish, accounts
<1>3. CASE CommitReuse(t)
  <2>1. "reuse" \in Fates
    BY DEF Fates, Reasons
  <2>2. fate' \in [Issued' -> Fates] /\ Issued' = Issued /\ \A s \in Issued : row'[s] = row[s]
    BY <2>1, <1>3, <1>0, <1>c DEF CommitReuse, Issued
  <2>. QED  BY <2>2, <1>3, <1>0, <1>a, <1>b DEF CommitReuse, Finish, accounts
<1>4. CASE EndSession(t)
  <2>1. "logout" \in Fates
    BY DEF Fates, Reasons
  <2>. QED  BY <2>1, <1>4, <1>0, <1>a, <1>b, <1>c DEF EndSession, Finish, accounts
<1>5. CASE CommitChange(t)
  <2> DEFINE u == req[t].user
             new == changes[u] + 1
             r == [Idle EXCEPT !.pc = "opening", !.user = u, !.pw = new]
  <2>1. "password_change" \in Fates
    BY DEF Fates, Reasons
  <2>2. u \in Users /\ new \in Nat
    BY <1>5, <1>0 DEF CommitChange, Runs, RequestOK
  <2>3. r \in Request /\ r.pc = "opening" /\ r.user = u /\ r.targets = {}
    BY <2>2 DEF Idle, Request, PC
  <2>4. /\ password' \in [Users -> Nat] /\ changes' \in [Users -> Nat]
        /\ weak' \in [Users -> BOOLEAN]
    BY <2>2, <1>5, <1>0 DEF CommitChange
  <2>. QED  BY <2>1, <2>2, <2>3, <2>4, <1>5, <1>0, <1>a, <1>c DEF CommitChange
<1>6. CASE DeleteUser(t)
  <2>1. "purged" \in Fates
    BY DEF Fates, Reasons
  <2>. QED  BY <2>1, <1>6, <1>0, <1>a, <1>b, <1>c DEF DeleteUser, Finish
<1>. QED  BY <1>1, <1>2, <1>3, <1>4, <1>5, <1>6 DEF Commit

LEMMA TickTyped == TypeInv /\ Tick => TypeInv'
  BY DEF TypeInv, TypeOK, ThreadsOK, RequestOK, InTime, Tick, tables, accounts, Issued

LEMMA StutterTyped == TypeInv /\ UNCHANGED vars => TypeInv'
  BY DEF TypeInv, TypeOK, ThreadsOK, RequestOK, InTime, vars, Issued

LEMMA TypeStep == TypeInv /\ [Next]_vars => TypeInv'
  BY NextCases, QuietTurns, TurnTyped, CommitTyped, TickTyped, StutterTyped

LEMMA TypeInvariant == Spec => []TypeInv
  BY InitTypeInv, TypeStep, PTL DEF Spec

\* Every variable stays in its domain, in every reachable state.
THEOREM TypeCorrect == Spec => []TypeOK
<1>1. TypeInv => TypeOK
  BY DEF TypeInv
<1>. QED  BY <1>1, TypeInvariant, PTL

-----------------------------------------------------------------------------
(* What a commit does to the rows of refresh_sessions: it inserts the first  *)
(* row of a login, or replaces a live row by its successor, or it revokes    *)
(* some rows and inserts none.                                               *)

Opened(t, s) ==
    /\ OpenSession(t)
    /\ req[t].user \in users /\ s \in Fresh
    /\ Issued' = Issued \cup {s}
    /\ row'[s] = LoginRow(s, req[t].user)
    /\ \A x \in Issued : row'[x] = row[x] /\ fate'[x] = fate[x]
    /\ fate'[s] = "live"
    /\ UNCHANGED <<users, changes>>

Rotated(t, n) ==
    LET s == req[t].sid
    IN  /\ RotateSession(t)
        /\ n \in Fresh /\ s \in Issued /\ fate[s] = "live"
        /\ InTime(s, req[t].at) /\ req[t].user = row[s].user /\ req[t].at \in Nat
        /\ Issued' = Issued \cup {n}
        /\ row'[n] = Successor(s, req[t].at)
        /\ \A x \in Issued : row'[x] = row[x] /\ (x # s => fate'[x] = fate[x])
        /\ fate'[s] = "rotated" /\ fate'[n] = "live"
        /\ UNCHANGED <<users, changes>>

Killed(t) ==
    /\ row' = row /\ Issued' = Issued
    /\ \A x \in Issued : fate'[x] \in {fate[x], "logout", "reuse", "password_change", "purged"}
    /\ \/ CommitReuse(t) /\ UNCHANGED <<users, changes>>
       \/ EndSession(t) /\ UNCHANGED <<users, changes>>
       \/ CommitChange(t) /\ UNCHANGED users
       \/ DeleteUser(t) /\ UNCHANGED changes
       \/ OpenSession(t) /\ fate' = fate /\ UNCHANGED <<users, changes>>

LEMMA CommitEffect ==
  ASSUME TypeInv, NEW t \in Threads, Commit(t)
  PROVE  (\E s \in Sids : Opened(t, s) \/ Rotated(t, s)) \/ Killed(t)
<1>0. /\ req[t] \in Request /\ RequestOK(req[t])
      /\ row \in [Issued -> Row] /\ fate \in [Issued -> Fates]
  BY DEF TypeInv, TypeOK, ThreadsOK
<1>a. ASSUME NEW s, NEW r, NEW S, NEW f, s \notin Issued,
             Insert(s, r), fate' = FatesWith(S, f, s)
      PROVE  /\ Issued' = Issued \cup {s}
             /\ row'[s] = r /\ fate'[s] = "live"
             /\ \A x \in Issued : /\ row'[x] = row[x]
                                  /\ fate'[x] = IF x \in S THEN f ELSE fate[x]
  BY <1>0, <1>a DEF Insert, FatesWith, Issued
<1>b. ASSUME NEW S, NEW f, Revoke(S, f), UNCHANGED row
      PROVE  /\ Issued' = Issued
             /\ \A x \in Issued : fate'[x] \in {fate[x], f}
  BY <1>0, <1>b DEF Revoke, Issued
<1>1. CASE OpenSession(t)
  <2>1. CASE ~AccountExists(req[t].user)
    BY <2>1, <1>1, <1>0 DEF OpenSession, Killed, Issued, accounts
  <2>2. CASE AccountExists(req[t].user)
    <3>1. PICK s \in Fresh : /\ Insert(s, LoginRow(s, req[t].user))
                             /\ fate' = FatesWith({}, "live", s)
      BY <2>2, <1>1 DEF OpenSession
    <3>2. s \in Sids /\ s \notin Issued
      BY DEF Fresh
    <3>. QED  BY <3>1, <3>2, <1>1, <2>2, <1>a DEF Opened, OpenSession, AccountExists, accounts
  <2>. QED  BY <2>1, <2>2
<1>2. CASE RotateSession(t)
  <2>1. PICK n \in Fresh : /\ Insert(n, Successor(req[t].sid, req[t].at))
                           /\ fate' = FatesWith({req[t].sid}, "rotated", n)
    BY <1>2 DEF RotateSession
  <2>2. n \in Sids /\ n \notin Issued
    BY DEF Fresh
  <2>3. req[t].sid \in Issued /\ InTime(req[t].sid, req[t].at) /\ req[t].user = row[req[t].sid].user
        /\ req[t].at \in Nat
    BY <1>2, <1>0 DEF RotateSession, Runs, RequestOK, Request
  <2>4. fate[req[t].sid] = "live" /\ UNCHANGED <<users, changes>>
    BY <1>2 DEF RotateSession, Claimable, accounts
  <2>5. /\ Issued' = Issued \cup {n}
        /\ row'[n] = Successor(req[t].sid, req[t].at) /\ fate'[n] = "live"
        /\ \A x \in Issued :
               /\ row'[x] = row[x]
               /\ fate'[x] = IF x \in {req[t].sid} THEN "rotated" ELSE fate[x]
    BY <2>1, <2>2, <1>a
  <2>. QED  BY <2>2, <2>3, <2>4, <2>5, <1>2 DEF Rotated
<1>3. CASE CommitReuse(t)
  BY <1>3, <1>0, <1>b DEF CommitReuse, Killed, accounts, Issued
<1>4. CASE EndSession(t)
  BY <1>4, <1>b DEF EndSession, Killed, accounts
<1>5. CASE CommitChange(t)
  BY <1>5, <1>b DEF CommitChange, Killed
<1>6. CASE DeleteUser(t)
  BY <1>6, <1>b DEF DeleteUser, Killed
<1>. QED  BY <1>1, <1>2, <1>3, <1>4, <1>5, <1>6 DEF Commit

\* A step of Next writes the rows of refresh_sessions, or leaves users, changes,
\* row and fate as they are.
LEMMA StepEffect ==
  ASSUME TypeInv, [Next]_vars
  PROVE  \/ UNCHANGED <<users, changes, row, fate>>
         \/ \E t \in Threads : /\ Commit(t)
                               /\ (\E s \in Sids : Opened(t, s) \/ Rotated(t, s)) \/ Killed(t)
<1>1. Tick \/ UNCHANGED vars => UNCHANGED <<users, changes, row, fate>>
  BY DEF Tick, tables, accounts, vars
<1>2. ASSUME NEW t \in Threads, Quiet(t) PROVE UNCHANGED <<users, changes, row, fate>>
  BY <1>2, QuietTurns DEF Turn
<1>. QED  BY <1>1, <1>2, NextCases, CommitEffect

-----------------------------------------------------------------------------
(* The absolute limit, and one live token per login.                         *)

\* A family is named by its first row, which all its rows have the user and the
\* absolute limit of.
Families ==
    \A s \in Issued :
        LET f == row[s].family
        IN  /\ f \in Issued
            /\ row[f].family = f
            /\ row[s].user = row[f].user
            /\ row[s].expires = row[f].lastUsed + AbsoluteTTL

LEMMA FamiliesInit == Init => Families /\ OneLiveTokenPerLogin
  BY DEF Init, Families, OneLiveTokenPerLogin, LiveOf, Issued

LEMMA FamiliesStep ==
  ASSUME TypeInv, Families, [Next]_vars
  PROVE  Families'
<1>0. /\ row \in [Issued -> Row] /\ now \in Nat
      /\ \A s \in Issued : /\ row[s].family \in Issued
                           /\ row[row[s].family].family = row[s].family
                           /\ row[s].user = row[row[s].family].user
                           /\ row[s].expires = row[row[s].family].lastUsed + AbsoluteTTL
  BY DEF TypeInv, TypeOK, Families
<1>1. CASE UNCHANGED <<users, changes, row, fate>> \/ \E t \in Threads : Killed(t)
  BY <1>0, <1>1 DEF Families, Killed, Issued
<1>2. ASSUME NEW t \in Threads, NEW s \in Sids, Opened(t, s) PROVE Families'
  <2>1. /\ Issued' = Issued \cup {s} /\ s \notin Issued
        /\ \A x \in Issued : row'[x] = row[x]
    BY <1>2 DEF Opened, Fresh
  <2>2. /\ row'[s].family = s
        /\ row'[s].expires = row'[s].lastUsed + AbsoluteTTL
    BY <1>2, <1>0, SessionsAssumption DEF Opened, LoginRow
  <2>. QED  BY <2>1, <2>2, <1>0 DEF Families
<1>3. ASSUME NEW t \in Threads, NEW n \in Sids, Rotated(t, n) PROVE Families'
  <2> DEFINE s == req[t].sid
  <2>1. /\ Issued' = Issued \cup {n} /\ n \notin Issued /\ s \in Issued
        /\ \A x \in Issued : row'[x] = row[x]
    BY <1>3 DEF Rotated, Fresh
  <2>2. /\ row'[n].family = row[s].family
        /\ row'[n].user = row[s].user
        /\ row'[n].expires = row[s].expires
    <3>1. row[s] \in Row
      BY <2>1, <1>0
    <3>. QED  BY <3>1, <1>3 DEF Rotated, Successor, Row
  <2>. QED  BY <2>1, <2>2, <1>0 DEF Families
<1>. QED  BY <1>1, <1>2, <1>3, StepEffect

LEMMA OneLiveStep ==
  ASSUME TypeInv, Families, OneLiveTokenPerLogin, [Next]_vars
  PROVE  OneLiveTokenPerLogin'
<1>f. ASSUME NEW s \in Issued PROVE row[s].family \in Issued
  BY DEF Families
<1>g. \A a, b \in Issued :
          fate[a] = "live" /\ fate[b] = "live" /\ row[a].family = row[b].family => a = b
  BY DEF OneLiveTokenPerLogin, LiveOf
<1>0. /\ \A s \in Issued : row[s].family \in Issued
      /\ \A a, b \in Issued :
             fate[a] = "live" /\ fate[b] = "live" /\ row[a].family = row[b].family => a = b
  BY <1>f, <1>g
<1>1. CASE UNCHANGED <<users, changes, row, fate>> \/ \E t \in Threads : Killed(t)
  BY <1>0, <1>1 DEF OneLiveTokenPerLogin, LiveOf, Killed, Issued
<1>2. ASSUME NEW t \in Threads, NEW s \in Sids, Opened(t, s) PROVE OneLiveTokenPerLogin'
  <2>1. /\ Issued' = Issued \cup {s} /\ s \notin Issued
        /\ \A x \in Issued : row'[x] = row[x] /\ fate'[x] = fate[x]
        /\ row'[s].family = s
    BY <1>2 DEF Opened, Fresh, LoginRow
  <2>. QED  BY <2>1, <1>0 DEF OneLiveTokenPerLogin, LiveOf
<1>3. ASSUME NEW t \in Threads, NEW n \in Sids, Rotated(t, n) PROVE OneLiveTokenPerLogin'
  <2> DEFINE s == req[t].sid
  <2>1. /\ Issued' = Issued \cup {n} /\ n \notin Issued /\ s \in Issued /\ fate[s] = "live"
        /\ \A x \in Issued : row'[x] = row[x] /\ (x # s => fate'[x] = fate[x])
        /\ fate'[s] = "rotated"
        /\ row'[n].family = row[s].family
    <3>1. s \in Issued => row[s] \in Row
      BY DEF TypeInv, TypeOK
    <3>. QED  BY <3>1, <1>3 DEF Rotated, Fresh, Successor, Row
  <2>. QED  BY <2>1, <1>0 DEF OneLiveTokenPerLogin, LiveOf
<1>. QED  BY <1>1, <1>2, <1>3, StepEffect

LEMMA FamiliesInvariant == Spec => [](TypeInv /\ Families /\ OneLiveTokenPerLogin)
<1>1. TypeInv /\ Families /\ OneLiveTokenPerLogin /\ [Next]_vars
        => (TypeInv /\ Families /\ OneLiveTokenPerLogin)'
  BY TypeStep, FamiliesStep, OneLiveStep
<1>. QED  BY <1>1, InitTypeInv, FamiliesInit, PTL DEF Spec

\* However many requests rotate a login's token at once, one live token is left
\* of it.
THEOREM LoginsDoNotFork == Spec => []OneLiveTokenPerLogin
  BY FamiliesInvariant, PTL

\* No token works past the absolute limit of its login: what works has not reached
\* the limit in its own row, and that is the limit of the login's first row.
THEOREM AbsoluteLimit == Spec => []NoLoginOutlivesItsLimit
<1>1. Families => NoLoginOutlivesItsLimit
  BY DEF Families, NoLoginOutlivesItsLimit, LiveSession, InTime
<1>. QED  BY <1>1, FamiliesInvariant, PTL

=============================================================================
