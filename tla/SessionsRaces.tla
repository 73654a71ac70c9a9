---------------------------- MODULE SessionsRaces ----------------------------
(***************************************************************************)
(* Proofs about Sessions: what the user lock is for.  A password change    *)
(* kills every session, an ended token gets no successor, a deleted        *)
(* account keeps no session, and reuse detection stays in its family.      *)
(* With it: the rows implement TokenLedger, and the lock order keeps       *)
(* rotation and password change apart.                                     *)
(***************************************************************************)
EXTENDS SessionsProofs

-----------------------------------------------------------------------------
(* Which quiet steps lead to the states of a request that the invariant      *)
(* speaks of.                                                               *)

LEMMA Becomes ==
  ASSUME TypeInv, NEW t \in Threads, NEW r, Become(t, r)
  PROVE  req'[t] = r /\ \A x \in Threads \ {t} : req'[x] = req[x]
  BY DEF TypeInv, TypeOK, Become

Watched == {"locked", "changing", "replayed", "revoking", "flushed"}

\* How a quiet step of t brings it to a watched state.
Enters(t) ==
    \/ req'[t].pc \notin Watched
    \/ LockForRotate(t) /\ req'[t] = [req[t] EXCEPT !.pc = "locked"]
    \/ LockForChange(t) /\ req'[t] = [req[t] EXCEPT !.pc = "changing",
                                                    !.targets = LiveOf(RowsOf(req[t].user))]
    \/ /\ req'[t].pc = "replayed"
       /\ req'[t].sid \in Issued
       /\ SpentByRotation(req'[t].sid)
    \/ ReadFamily(t) /\ req'[t] = [req[t] EXCEPT !.pc = "revoking",
                                                 !.targets = LiveOf(Family(req[t].sid))]
    \/ FlushFamily(t) /\ req'[t] = [req[t] EXCEPT !.pc = "flushed"]

LEMMA QuietEnters ==
  ASSUME TypeInv, NEW t \in Threads, Quiet(t)
  PROVE  Enters(t)
<1>0. req[t] \in Request /\ RequestOK(req[t]) /\ row \in [Issued -> Row]
  BY DEF TypeInv, TypeOK, ThreadsOK
<1>a. ASSUME NEW r, r.pc \notin Watched, Become(t, r) PROVE Enters(t)
  BY <1>a, Becomes DEF Enters
<1>b. ASSUME Finish(t) PROVE Enters(t)
  <2>1. Idle.pc \notin Watched
    BY DEF Idle, Watched
  <2>. QED  BY <1>a, <1>b, <2>1 DEF Finish
<1>c. ASSUME NEW pc \in PC \ Watched, Goto(t, pc) PROVE Enters(t)
  <2>1. [req[t] EXCEPT !.pc = pc].pc \notin Watched
    BY <1>0 DEF Request
  <2>. QED  BY <1>a, <1>c, <2>1 DEF Goto
<1>1. ASSUME NEW u \in Users, Login(t, u) PROVE Enters(t)
  <2> DEFINE r == [Idle EXCEPT !.pc = IF weak[u] THEN "rehash" ELSE "opening",
                               !.user = u, !.pw = password[u]]
  <2>1. r.pc \notin Watched
    BY DEF Idle, Watched
  <2>. QED  BY <2>1, <1>1, <1>a DEF Login
<1>2. ASSUME NEW s \in Issued, Refresh(t, s) PROVE Enters(t)
  <2> DEFINE p == [Idle EXCEPT !.pc = "prechecked", !.user = row[s].user, !.sid = s]
             r == [Idle EXCEPT !.pc = "replayed", !.user = row[s].user, !.sid = s]
  <2>1. CASE Become(t, p)
    <3>1. p.pc \notin Watched
      BY DEF Idle, Watched
    <3>. QED  BY <3>1, <2>1, <1>a
  <2>2. CASE SpentByRotation(s) /\ Become(t, r)
    <3>1. r.pc = "replayed" /\ r.sid = s
      BY DEF Idle
    <3>2. req'[t] = r
      BY <2>2, Becomes
    <3>. QED  BY <3>1, <3>2, <2>2 DEF Enters
  <2>. QED  BY <2>1, <2>2, <1>2 DEF Refresh
<1>3. ASSUME NEW s \in Issued,
             \/ Logout(t, s) \/ DeleteAccount(t, s)
             \/ \E p \in 0..MaxChanges : ChangePassword(t, s, p)
      PROVE  Enters(t)
  <2> DEFINE logout == [Idle EXCEPT !.pc = "ending", !.user = row[s].user, !.sid = s]
             delete == [Idle EXCEPT !.pc = "verified", !.user = row[s].user]
             change(p) == [Idle EXCEPT !.pc = "change", !.user = row[s].user, !.pw = p]
  <2>1. /\ logout.pc \notin Watched /\ delete.pc \notin Watched
        /\ \A p : change(p).pc \notin Watched
    BY DEF Idle, Watched
  <2>2. Become(t, logout) \/ Become(t, delete) \/ \E p : Become(t, change(p))
    BY <1>3 DEF Logout, DeleteAccount, ChangePassword
  <2>. HIDE DEF logout, delete, change
  <2>. QED  BY <2>1, <2>2, <1>a
<1>4. CASE Rehash(t)
  BY <1>4, <1>b, <1>c DEF Rehash, PC, Watched
<1>5. CASE BeginRotate(t)
  <2> DEFINE r == [req[t] EXCEPT !.pc = "rotating", !.at = now]
  <2>1. r.pc \notin Watched
    BY <1>0 DEF Request, Watched
  <2>. QED  BY <2>1, <1>5, <1>a, <1>b DEF BeginRotate
<1>6. CASE LockForRotate(t)
  <2>1. CASE Goto(t, "locked")
    BY <2>1, <1>6, Becomes DEF Goto, Enters
  <2>. QED  BY <2>1, <1>6, <1>b DEF LockForRotate
<1>7. CASE LoseClaim(t)
  <2>1. CASE SpentByRotation(req[t].sid) /\ Goto(t, "replayed")
    <3>1. req'[t] = [req[t] EXCEPT !.pc = "replayed"]
      BY <2>1, Becomes DEF Goto
    <3>2. req'[t].pc = "replayed" /\ req'[t].sid = req[t].sid
      BY <3>1, <1>0 DEF Request
    <3>3. req[t].sid \in Issued
      BY <1>7, <1>0 DEF LoseClaim, Runs, RequestOK
    <3>. QED  BY <3>2, <3>3, <2>1 DEF Enters
  <2>. QED  BY <2>1, <1>7, <1>b DEF LoseClaim
<1>8. CASE ReadFamily(t)
  BY <1>8, Becomes DEF ReadFamily, Enters
<1>9. CASE FlushFamily(t)
  <2>1. CASE Goto(t, "flushed")
    BY <2>1, <1>9, Becomes DEF Goto, Enters
  <2>. QED  BY <2>1, <1>9, <1>b DEF FlushFamily
<1>10. CASE LockForChange(t)
  BY <1>10, Becomes DEF LockForChange, Enters
<1>11. CASE RefuseChange(t) \/ Crash(t) \/ DeadlockVictim(t)
  BY <1>11, <1>b DEF RefuseChange, Crash, DeadlockVictim
<1>12. CASE NoteDelete(t)
  BY <1>12, <1>b, <1>c DEF NoteDelete, PC, Watched
<1>. QED
  BY <1>1, <1>2, <1>3, <1>4, <1>5, <1>6, <1>7, <1>8, <1>9, <1>10, <1>11, <1>12 DEF Quiet


-----------------------------------------------------------------------------
(* The inductive invariant.                                                  *)

Changing(t) == req[t].pc = "changing"
HoldsUser(t) == req[t].pc \in {"locked", "changing"}
HasChild(s) == \E n \in Issued : row[n].parent = s
SpentFamily(s) == \E x \in Issued : row[x].parent # NoSid /\ row[x].family = row[s].family

\* One transaction at a time holds a user row FOR UPDATE.
Exclusive ==
    \A a, b \in Threads :
        HoldsUser(a) /\ HoldsUser(b) /\ req[a].user = req[b].user => a = b

\* Until it commits, a password change knows every live session of its user,
\* and none of those it is going to revoke has been exchanged.
ChangeSees ==
    \A t \in Threads : Changing(t) =>
        /\ LiveOf(RowsOf(req[t].user)) \subseteq req[t].targets
        /\ req[t].targets \subseteq RowsOf(req[t].user)
        /\ \A x \in req[t].targets : ~HasChild(x)

\* replaced_by_id joins two rows of one family; rotation leaves a successor.
Links ==
    /\ \A n \in Issued : row[n].parent # NoSid =>
           row[n].parent \in Issued /\ row[row[n].parent].family = row[n].family
    /\ \A s \in Issued : fate[s] = "rotated" => HasChild(s)

\* A reuse detection works on a family that has a spent token, and on nothing
\* else.
Replays ==
    \A t \in Threads :
        /\ req[t].pc \in {"replayed", "revoking", "flushed"} =>
               HasChild(req[t].sid) /\ SpentFamily(req[t].sid)
        /\ req[t].pc \in {"revoking", "flushed"} =>
               \A x \in req[t].targets : row[x].family = row[req[t].sid].family

Promises ==
    /\ ChangeKillsWhatWasOpen
    /\ EndedTokenHasNoSuccessor
    /\ ReuseNeedsASpentRelative
    /\ DeletedAccountHasNoSession

IInv ==
    /\ TypeInv /\ Families /\ OneLiveTokenPerLogin
    /\ Exclusive /\ ChangeSees /\ Links /\ Replays /\ Promises

LEMMA IInvInit == Init => IInv
<1>1. Init => Issued = {} /\ \A t \in Threads : req[t].pc = "idle"
  BY DEF Init, Issued, Idle
<1>2. Init => Exclusive /\ ChangeSees /\ Links /\ Replays /\ Promises
  BY <1>1 DEF Exclusive, HoldsUser, ChangeSees, Changing, Links, Replays, Promises,
     ChangeKillsWhatWasOpen, EndedTokenHasNoSuccessor, ReuseNeedsASpentRelative,
     DeletedAccountHasNoSession, LiveOf
<1>. QED  BY <1>2, InitTypeInv, FamiliesInit DEF IInv

-----------------------------------------------------------------------------
(* Steps that write no row: a quiet step, the clock, a stutter.              *)

\* What the requests of the threads that do not move still satisfy.
LEMMA QuietStep ==
  ASSUME IInv, NEW t \in Threads, Quiet(t)
  PROVE  (Exclusive /\ ChangeSees /\ Links /\ Replays /\ Promises)'
<1>1. /\ UNCHANGED <<users, changes, row, fate>>
      /\ Issued' = Issued
      /\ \A x \in Threads \ {t} : req'[x] = req[x]
  BY QuietTurns, TurnTyped DEF IInv, Turn, Issued
<1>2. Enters(t)
  BY QuietEnters DEF IInv
<1>0. /\ req[t] \in Request /\ RequestOK(req[t]) /\ row \in [Issued -> Row]
  BY DEF IInv, TypeInv, TypeOK, ThreadsOK
<1>3. Links' /\ Promises'
  BY <1>1 DEF IInv, Links, Promises, HasChild, ChangeKillsWhatWasOpen,
     EndedTokenHasNoSuccessor, ReuseNeedsASpentRelative, DeletedAccountHasNoSession, LiveOf
\* Whoever comes to hold the user row found nobody holding it.
<1>4. HoldsUser(t)' =>
        /\ req'[t].user = req[t].user
        /\ HoldsUser(t) \/ \A x \in Threads \ {t} : ~(HoldsUser(x) /\ req[x].user = req[t].user)
  <2>1. CASE LockForRotate(t) /\ req'[t] = [req[t] EXCEPT !.pc = "locked"]
    <3>1. LockedForUpdate(req[t].user) \ {t} = {}
      BY <2>1 DEF LockForRotate, Runs, Blockers
    <3>. QED  BY <3>1, <2>1, <1>0 DEF LockedForUpdate, HoldsUser, Request
  <2>2. CASE LockForChange(t) /\ req'[t] = [req[t] EXCEPT !.pc = "changing",
                                                     !.targets = LiveOf(RowsOf(req[t].user))]
    <3>1. LockedForUpdate(req[t].user) \ {t} = {}
      BY <2>2 DEF LockForChange, Runs, Blockers
    <3>. QED  BY <3>1, <2>2, <1>0 DEF LockedForUpdate, HoldsUser, Request
  <2>3. CASE req'[t].pc \notin {"locked", "changing"}
    BY <2>3 DEF HoldsUser
  <2>. QED
    BY <2>1, <2>2, <2>3, <1>2, <1>0 DEF Enters, Watched, Request
<1>5. Exclusive'
  BY <1>1, <1>4 DEF IInv, Exclusive, HoldsUser
<1>6. ChangeSees'
  <2>1. \A x \in Threads \ {t} : Changing(x)' => Changing(x)
    BY <1>1 DEF Changing
  <2>2. Changing(t)' => /\ req'[t].user = req[t].user
                        /\ req'[t].targets = LiveOf(RowsOf(req[t].user))
    BY <1>2, <1>0 DEF Enters, Watched, Changing, Request
  <2>3. \A x \in LiveOf(Issued) : ~HasChild(x)
    <3>1. NoSid \notin Sids /\ Issued \subseteq Sids
      BY SessionsAssumption DEF IInv, TypeInv, TypeOK
    <3>. QED  BY <3>1 DEF IInv, Promises, EndedTokenHasNoSuccessor, LiveOf, HasChild
  <2>4. \A u : LiveOf(RowsOf(u)) \subseteq RowsOf(u) /\ LiveOf(RowsOf(u)) \subseteq LiveOf(Issued)
    BY DEF LiveOf, RowsOf
  <2>5. /\ \A u : LiveOf(RowsOf(u))' = LiveOf(RowsOf(u)) /\ RowsOf(u)' = RowsOf(u)
        /\ \A x : HasChild(x)' <=> HasChild(x)
    BY <1>1 DEF LiveOf, RowsOf, HasChild
  <2>. QED  BY <1>1, <2>1, <2>2, <2>3, <2>4, <2>5 DEF IInv, ChangeSees, Changing
<1>7. Replays'
  <2> DEFINE Replay(x) ==
        /\ req[x].pc \in {"replayed", "revoking", "flushed"} =>
               HasChild(req[x].sid) /\ SpentFamily(req[x].sid)
        /\ req[x].pc \in {"revoking", "flushed"} =>
               \A y \in req[x].targets : row[y].family = row[req[x].sid].family
  <2>1. Replay(t)
    BY DEF IInv, Replays
  <2>2. ASSUME NEW x \in Threads \ {t} PROVE Replay(x)'
    BY <1>1 DEF IInv, Replays, SpentFamily, HasChild
  <2>3. \A s \in Issued : SpentByRotation(s) => HasChild(s) /\ SpentFamily(s)
    <3>1. NoSid \notin Sids /\ Issued \subseteq Sids
      BY SessionsAssumption DEF IInv, TypeInv, TypeOK
    <3>. QED  BY <3>1 DEF IInv, Links, HasChild, SpentFamily, SpentByRotation
  <2>4. CASE req'[t].pc \notin {"replayed", "revoking", "flushed"}
    <3>1. Replay(t)'
      BY <2>4
    <3>. QED  BY <3>1, <2>2 DEF Replays
  <2>5. CASE req'[t].pc = "replayed" /\ req'[t].sid \in Issued /\ SpentByRotation(req'[t].sid)
    <3>1. Replay(t)'
      BY <1>1, <2>3, <2>5 DEF SpentFamily, HasChild
    <3>. QED  BY <3>1, <2>2 DEF Replays
  <2>6. CASE ReadFamily(t) /\ req'[t] = [req[t] EXCEPT !.pc = "revoking",
                                                  !.targets = LiveOf(Family(req[t].sid))]
    <3>1. /\ req'[t].pc = "revoking" /\ req'[t].sid = req[t].sid
          /\ req'[t].targets = LiveOf(Family(req[t].sid))
          /\ req[t].pc = "replayed"
      BY <2>6, <1>0 DEF Request, ReadFamily
    <3>2. Replay(t)'
      BY <3>1, <2>1, <1>1 DEF LiveOf, Family, SpentFamily, HasChild
    <3>. QED  BY <3>2, <2>2 DEF Replays
  <2>7. CASE FlushFamily(t) /\ req'[t] = [req[t] EXCEPT !.pc = "flushed"]
    <3>1. /\ req'[t].sid = req[t].sid /\ req'[t].targets = req[t].targets
          /\ req[t].pc = "revoking"
      BY <2>7, <1>0 DEF Request, FlushFamily, Runs
    <3>2. Replay(t)'
      BY <3>1, <2>1, <1>1 DEF SpentFamily, HasChild
    <3>. QED  BY <3>2, <2>2 DEF Replays
  <2>. QED
    BY <1>2, <1>0, <2>4, <2>5, <2>6, <2>7 DEF Enters, Watched, Request
<1>. QED  BY <1>3, <1>5, <1>6, <1>7

LEMMA EnvironmentStep ==
  ASSUME IInv, Tick \/ UNCHANGED vars
  PROVE  (Exclusive /\ ChangeSees /\ Links /\ Replays /\ Promises)'
<1>1. UNCHANGED <<users, changes, row, fate, req>> /\ Issued' = Issued
  BY DEF Tick, tables, accounts, vars, Issued
<1>. QED
  BY <1>1 DEF IInv, Exclusive, HoldsUser, ChangeSees, Changing, Links, HasChild, Replays,
     SpentFamily, Promises, ChangeKillsWhatWasOpen, EndedTokenHasNoSuccessor,
     ReuseNeedsASpentRelative, DeletedAccountHasNoSession, LiveOf, RowsOf

-----------------------------------------------------------------------------
(* Commits.                                                                  *)

\* What every commit leaves alone: the other requests, which keep what they work
\* on, and the columns of the rows there are.
LEMMA CommitFrame ==
  ASSUME IInv, NEW t \in Threads, Commit(t)
  PROVE  /\ Exclusive'
         /\ \A x \in Threads \ {t} : req'[x] = req[x] /\ RequestOK(req[x])
         /\ req'[t].pc \in {"idle", "opening"}
         /\ Issued \subseteq Issued'
         /\ \A s \in Issued : row'[s] = row[s]
         /\ NoSid \notin Issued
<1>1. /\ \A x \in Threads \ {t} : req'[x] = req[x]
      /\ req'[t].pc \in {"idle", "opening"}
      /\ Issued \subseteq Issued'
      /\ \A s \in Issued : row'[s] = row[s]
  BY CommitTyped DEF IInv
<1>2. Exclusive'
  BY <1>1 DEF IInv, Exclusive, HoldsUser
<1>. QED  BY <1>1, <1>2, SessionsAssumption DEF IInv, TypeInv, TypeOK, ThreadsOK

LEMMA OpenedStep ==
  ASSUME IInv, NEW t \in Threads, NEW s \in Sids, Commit(t), Opened(t, s)
  PROVE  (ChangeSees /\ Links /\ Replays /\ Promises)'
<1> DEFINE u == req[t].user
<1>0. /\ \A x \in Threads \ {t} : req'[x] = req[x] /\ RequestOK(req[x])
      /\ req'[t].pc \in {"idle", "opening"}
      /\ NoSid \notin Issued
  BY CommitFrame
<1>1. /\ Issued' = Issued \cup {s} /\ s \notin Issued
      /\ \A x \in Issued : row'[x] = row[x] /\ fate'[x] = fate[x]
      /\ fate'[s] = "live" /\ u \in users
      /\ row'[s].user = u /\ row'[s].parent = NoSid /\ row'[s].family = s
      /\ row'[s].epoch = changes[u]
      /\ UNCHANGED <<users, changes>>
  BY DEF Opened, Fresh, LoginRow
<1>2. ChangeSees'
  <2>1. \A x \in Threads \ {t} : Changing(x) => req[x].user # u
    BY DEF Opened, OpenSession, Runs, Blockers, LockedForUpdate, Changing
  <2>2. ASSUME NEW x \in Threads, Changing(x)'
        PROVE  /\ LiveOf(RowsOf(req[x].user))' \subseteq req'[x].targets
               /\ req'[x].targets \subseteq RowsOf(req[x].user)'
               /\ \A y \in req'[x].targets : ~HasChild(y)'
    <3>1. x # t /\ Changing(x) /\ req'[x] = req[x] /\ req[x].user # u
      BY <1>0, <2>1, <2>2 DEF Changing
    <3>2. /\ LiveOf(RowsOf(req[x].user)) \subseteq req[x].targets
          /\ req[x].targets \subseteq RowsOf(req[x].user)
          /\ \A y \in req[x].targets : ~HasChild(y)
      BY <3>1 DEF IInv, ChangeSees
    <3>. QED  BY <3>1, <3>2, <1>0, <1>1 DEF LiveOf, RowsOf, HasChild
  <2>. QED  BY <2>2 DEF ChangeSees
<1>3. Links'
  BY <1>0, <1>1 DEF IInv, Links, HasChild
<1>4. Replays'
  <2>1. ASSUME NEW x \in Threads \ {t}, req[x].pc \in {"replayed", "revoking", "flushed"}
        PROVE  /\ req[x].sid \in Issued /\ req[x].targets \subseteq Issued
               /\ HasChild(req[x].sid) /\ SpentFamily(req[x].sid)
    BY <1>0, <2>1 DEF IInv, Replays, RequestOK
  <2>. QED  BY <2>1, <1>0, <1>1 DEF IInv, Replays, SpentFamily, HasChild
<1>5. ChangeKillsWhatWasOpen' /\ DeletedAccountHasNoSession'
  BY <1>1 DEF IInv, Promises, ChangeKillsWhatWasOpen, DeletedAccountHasNoSession, LiveOf
<1>6. EndedTokenHasNoSuccessor'
  BY <1>1 DEF IInv, Promises, Links, EndedTokenHasNoSuccessor
<1>7. ReuseNeedsASpentRelative'
  BY <1>1 DEF IInv, Promises, ReuseNeedsASpentRelative
<1>. QED  BY <1>2, <1>3, <1>4, <1>5, <1>6, <1>7 DEF Promises

LEMMA RotatedStep ==
  ASSUME IInv, NEW t \in Threads, NEW n \in Sids, Commit(t), Rotated(t, n)
  PROVE  (ChangeSees /\ Links /\ Replays /\ Promises)'
<1> DEFINE u == req[t].user
           s == req[t].sid
<1>0. /\ \A x \in Threads \ {t} : req'[x] = req[x] /\ RequestOK(req[x])
      /\ req'[t].pc \in {"idle", "opening"}
      /\ NoSid \notin Issued
  BY CommitFrame
<1>1. /\ Issued' = Issued \cup {n} /\ n \notin Issued
      /\ s \in Issued /\ fate[s] = "live" /\ row[s].user = u
      /\ \A x \in Issued : row'[x] = row[x] /\ (x # s => fate'[x] = fate[x])
      /\ fate'[s] = "rotated" /\ fate'[n] = "live"
      /\ row'[n].user = u /\ row'[n].parent = s /\ row'[n].family = row[s].family
      /\ row'[n].epoch = row[s].epoch
      /\ UNCHANGED <<users, changes>>
  <2>1. s \in Issued => row[s] \in Row
    BY DEF IInv, TypeInv, TypeOK
  <2>. QED  BY <2>1 DEF Rotated, Fresh, Successor, Row
<1>2. ChangeSees'
  <2>1. \A x \in Threads \ {t} : Changing(x) => req[x].user # u
    BY DEF Rotated, RotateSession, Runs, IInv, Exclusive, HoldsUser, Changing
  <2>2. ASSUME NEW x \in Threads, Changing(x)'
        PROVE  /\ LiveOf(RowsOf(req[x].user))' \subseteq req'[x].targets
               /\ req'[x].targets \subseteq RowsOf(req[x].user)'
               /\ \A y \in req'[x].targets : ~HasChild(y)'
    <3>1. x # t /\ Changing(x) /\ req'[x] = req[x] /\ req[x].user # u
      BY <1>0, <2>1, <2>2 DEF Changing
    <3>2. /\ LiveOf(RowsOf(req[x].user)) \subseteq req[x].targets
          /\ req[x].targets \subseteq RowsOf(req[x].user)
          /\ \A y \in req[x].targets : ~HasChild(y)
      BY <3>1 DEF IInv, ChangeSees
    <3>. QED  BY <3>1, <3>2, <1>0, <1>1 DEF LiveOf, RowsOf, HasChild
  <2>. QED  BY <2>2 DEF ChangeSees
<1>3. Links'
  BY <1>0, <1>1 DEF IInv, Links, HasChild
<1>4. Replays'
  <2>1. ASSUME NEW x \in Threads \ {t}, req[x].pc \in {"replayed", "revoking", "flushed"}
        PROVE  /\ req[x].sid \in Issued /\ req[x].targets \subseteq Issued
               /\ HasChild(req[x].sid) /\ SpentFamily(req[x].sid)
    BY <1>0, <2>1 DEF IInv, Replays, RequestOK
  <2>. QED  BY <2>1, <1>0, <1>1 DEF IInv, Replays, SpentFamily, HasChild
<1>5. ChangeKillsWhatWasOpen' /\ DeletedAccountHasNoSession'
  BY <1>1 DEF IInv, Promises, ChangeKillsWhatWasOpen, DeletedAccountHasNoSession, LiveOf
<1>6. EndedTokenHasNoSuccessor'
  BY <1>1 DEF IInv, Promises, Links, EndedTokenHasNoSuccessor
<1>7. ReuseNeedsASpentRelative'
  BY <1>1 DEF IInv, Promises, ReuseNeedsASpentRelative
<1>. QED  BY <1>2, <1>3, <1>4, <1>5, <1>6, <1>7 DEF Promises

\* Revoking rows of S for reason f: who it may be done to, for what.
LEMMA KilledStep ==
  ASSUME IInv, NEW t \in Threads, Commit(t), Killed(t)
  PROVE  (ChangeSees /\ Links /\ Replays /\ Promises)'
<1>0. /\ \A x \in Threads \ {t} : req'[x] = req[x] /\ RequestOK(req[x])
      /\ req'[t].pc \in {"idle", "opening"}
      /\ NoSid \notin Issued
  BY CommitFrame
<1>1. /\ row' = row /\ Issued' = Issued
      /\ \A x \in Issued : fate'[x] = "live" => fate[x] = "live"
      /\ \A x \in Issued : fate'[x] = "rotated" => fate[x] = "rotated"
  BY DEF Killed
<1>2. ChangeSees'
  <2>1. ASSUME NEW x \in Threads, Changing(x)'
        PROVE  /\ LiveOf(RowsOf(req[x].user))' \subseteq req'[x].targets
               /\ req'[x].targets \subseteq RowsOf(req[x].user)'
               /\ \A y \in req'[x].targets : ~HasChild(y)'
    <3>1. x # t /\ Changing(x) /\ req'[x] = req[x]
      BY <1>0, <2>1 DEF Changing
    <3>2. /\ LiveOf(RowsOf(req[x].user)) \subseteq req[x].targets
          /\ req[x].targets \subseteq RowsOf(req[x].user)
          /\ \A y \in req[x].targets : ~HasChild(y)
      BY <3>1 DEF IInv, ChangeSees
    <3>. QED  BY <3>1, <3>2, <1>1 DEF LiveOf, RowsOf, HasChild
  <2>. QED  BY <2>1 DEF ChangeSees
<1>3. Links'
  BY <1>1 DEF IInv, Links, HasChild
<1>4. Replays'
  BY <1>0, <1>1 DEF IInv, Replays, SpentFamily, HasChild
\* What the reason may be, and whose rows get it.
<1>5. ASSUME NEW x \in Issued
      PROVE  /\ fate'[x] = "reuse" => fate[x] = "reuse" \/ SpentFamily(x)
             /\ HasChild(x) => fate'[x] \in {fate[x], "reuse", "purged"}
  <2>0. fate \in [Issued -> Fates] /\ req[t] \in Request
    BY DEF IInv, TypeInv, TypeOK
  <2>1. CASE CommitReuse(t)
    <3>1. fate'[x] \in {fate[x], "reuse"}
      BY <2>0, <2>1 DEF CommitReuse, Revoke
    <3>2. fate'[x] # fate[x] => x \in req[t].targets /\ req[t].pc = "flushed"
      BY <2>0, <2>1 DEF CommitReuse, Revoke, Runs
    <3>3. fate'[x] # fate[x] => SpentFamily(x)
      BY <3>2 DEF IInv, Replays, SpentFamily
    <3>. QED  BY <3>1, <3>3
  <2>2. CASE EndSession(t)
    <3>1. fate'[x] = IF x \in LiveOf({req[t].sid}) THEN "logout" ELSE fate[x]
      BY <2>2 DEF EndSession, Revoke
    <3>2. HasChild(x) => fate[x] # "live"
      BY <1>0 DEF IInv, Promises, EndedTokenHasNoSuccessor, HasChild
    <3>. QED  BY <3>1, <3>2 DEF LiveOf
  <2>3. CASE CommitChange(t)
    <3>1. fate'[x] = IF x \in req[t].targets THEN "password_change" ELSE fate[x]
      BY <2>3 DEF CommitChange, Revoke
    <3>2. \A y \in req[t].targets : ~HasChild(y)
      BY <2>3 DEF CommitChange, Runs, IInv, ChangeSees, Changing
    <3>. QED  BY <3>1, <3>2
  <2>4. CASE DeleteUser(t)
    <3>1. fate'[x] = IF x \in RowsOf(req[t].user) THEN "purged" ELSE fate[x]
      BY <2>4 DEF DeleteUser, Revoke
    <3>. QED  BY <3>1
  <2>. QED  BY <2>1, <2>2, <2>3, <2>4 DEF Killed
<1>6. EndedTokenHasNoSuccessor'
  BY <1>0, <1>1, <1>5 DEF IInv, Promises, Links, EndedTokenHasNoSuccessor, HasChild
<1>7. ReuseNeedsASpentRelative'
  BY <1>1, <1>5 DEF IInv, Promises, ReuseNeedsASpentRelative, SpentFamily
<1>8. ChangeKillsWhatWasOpen'
  <2>1. CASE CommitChange(t)
    <3> DEFINE u == req[t].user
    <3>1. /\ \A x \in Issued : fate'[x] = IF x \in req[t].targets THEN "password_change" ELSE fate[x]
          /\ \A v \in Users \ {u} : changes'[v] = changes[v]
      BY <2>1 DEF CommitChange, Revoke, IInv, TypeInv, TypeOK
    <3>2. LiveOf(RowsOf(u)) \subseteq req[t].targets
      BY <2>1 DEF CommitChange, Runs, IInv, ChangeSees, Changing
    <3>3. \A x \in Issued : row[x].user \in Users
      BY DEF IInv, TypeInv, TypeOK, Row
    <3>. QED
      BY <1>1, <3>1, <3>2, <3>3 DEF IInv, Promises, ChangeKillsWhatWasOpen, LiveOf, RowsOf
  <2>2. CASE UNCHANGED changes
    BY <2>2, <1>1 DEF IInv, Promises, ChangeKillsWhatWasOpen, LiveOf
  <2>. QED  BY <2>1, <2>2 DEF Killed
<1>9. DeletedAccountHasNoSession'
  <2>1. CASE DeleteUser(t)
    <3>1. /\ users' = users \ {req[t].user}
          /\ \A x \in Issued : fate'[x] = IF x \in RowsOf(req[t].user) THEN "purged" ELSE fate[x]
      BY <2>1 DEF DeleteUser, Revoke
    <3>. QED
      BY <1>1, <3>1 DEF IInv, Promises, DeletedAccountHasNoSession, LiveOf, RowsOf
  <2>2. CASE UNCHANGED users
    BY <2>2, <1>1 DEF IInv, Promises, DeletedAccountHasNoSession, LiveOf
  <2>. QED  BY <2>1, <2>2 DEF Killed
<1>. QED  BY <1>2, <1>3, <1>4, <1>6, <1>7, <1>8, <1>9 DEF Promises

LEMMA IInvStep == IInv /\ [Next]_vars => IInv'
<1> SUFFICES ASSUME IInv, [Next]_vars PROVE IInv'
  OBVIOUS
<1>1. (TypeInv /\ Families /\ OneLiveTokenPerLogin)'
  BY TypeStep, FamiliesStep, OneLiveStep DEF IInv
<1>2. CASE Tick \/ UNCHANGED vars
  BY <1>1, <1>2, EnvironmentStep DEF IInv
<1>3. ASSUME NEW t \in Threads, Quiet(t) PROVE IInv'
  BY <1>1, <1>3, QuietStep DEF IInv
<1>4. ASSUME NEW t \in Threads, Commit(t) PROVE IInv'
  <2>1. (\E s \in Sids : Opened(t, s) \/ Rotated(t, s)) \/ Killed(t)
    BY <1>4, CommitEffect DEF IInv
  <2>2. Exclusive'
    BY <1>4, CommitFrame
  <2>3. (ChangeSees /\ Links /\ Replays /\ Promises)'
    BY <1>4, <2>1, OpenedStep, RotatedStep, KilledStep
  <2>. QED  BY <1>1, <2>2, <2>3 DEF IInv
<1>. QED  BY <1>2, <1>3, <1>4, NextCases

LEMMA IInvariant == Spec => []IInv
  BY IInvInit, IInvStep, PTL DEF Spec

-----------------------------------------------------------------------------
(* The promises.                                                             *)

\* What is live was opened after the last password change of its account.
THEOREM ChangeIsFinal == Spec => []ChangeKillsWhatWasOpen
<1>1. IInv => ChangeKillsWhatWasOpen
  BY DEF IInv, Promises
<1>. QED  BY <1>1, IInvariant, PTL

\* A token ended by a logout or a password change has no successor.
THEOREM EndIsFinal == Spec => []EndedTokenHasNoSuccessor
<1>1. IInv => EndedTokenHasNoSuccessor
  BY DEF IInv, Promises
<1>. QED  BY <1>1, IInvariant, PTL

\* What reuse detection kills has a relative that was exchanged.
THEOREM ReuseStaysInTheFamily == Spec => []ReuseNeedsASpentRelative
<1>1. IInv => ReuseNeedsASpentRelative
  BY DEF IInv, Promises
<1>. QED  BY <1>1, IInvariant, PTL

\* A request is treated as a replay only for a token that was exchanged.
THEOREM NoFalseReplay == Spec => []ReplayIsOfASpentToken
<1>1. IInv => ReplayIsOfASpentToken
  BY DEF IInv, Replays, HasChild, ReplayIsOfASpentToken
<1>. QED  BY <1>1, IInvariant, PTL

\* No live session belongs to a deleted account.
THEOREM DeletionIsFinal == Spec => []DeletedAccountHasNoSession
<1>1. IInv => DeletedAccountHasNoSession
  BY DEF IInv, Promises
<1>. QED  BY <1>1, IInvariant, PTL

-----------------------------------------------------------------------------
(* The refinement mapping.                                                   *)

Head(f) == {s \in LiveOf(Issued) : row[s].family = f}
Heads == [f \in Sids |-> Head(f)]

LInv == TypeInv /\ Families /\ OneLiveTokenPerLogin

LEMMA LedgerInit == Init => Ledger!Init
  BY DEF Init, Ledger!Init, LiveOf, Issued

\* A usable token is the only one of its login.
LEMMA HeadIsSingle ==
  ASSUME LInv, NEW f \in Sids, NEW s \in Head(f)
  PROVE  Head(f) = {s}
  BY DEF LInv, OneLiveTokenPerLogin, Head

LEMMA LedgerStep ==
  ASSUME LInv, LInv', [Next]_vars
  PROVE  [Ledger!Next]_(Ledger!lvars)
<1>h. /\ Heads = [f \in Sids |-> {s \in LiveOf(Issued) : row[s].family = f}]
      /\ Heads' = [f \in Sids |-> {s \in LiveOf(Issued) : row[s].family = f}]'
  BY DEF Heads, Head
\* The mapping and its image in the next state, pointwise.
<1>g. /\ Heads = [f \in Sids |-> Heads[f]] /\ Heads' = [f \in Sids |-> Heads'[f]]
      /\ \A f \in Sids :
             /\ Heads[f] = {x \in Issued : fate[x] = "live" /\ row[x].family = f}
             /\ Heads'[f] = {x \in Issued' : fate'[x] = "live" /\ row'[x].family = f}
  BY DEF Heads, Head, LiveOf
<1>0. /\ Issued \subseteq Sids
      /\ \A s \in Issued : row[s].family \in Issued
  BY DEF LInv, TypeInv, TypeOK, Families
<1>1. CASE UNCHANGED <<users, changes, row, fate>>
  BY <1>1 DEF Ledger!lvars, LiveOf, Issued
<1>2. ASSUME NEW t \in Threads, NEW s \in Sids, Opened(t, s) PROVE Ledger!Next
  <2>1. /\ Issued' = Issued \cup {s} /\ s \notin Issued
        /\ \A x \in Issued : row'[x] = row[x] /\ fate'[x] = fate[x]
        /\ row'[s].family = s /\ fate'[s] = "live"
    BY <1>2 DEF Opened, Fresh, LoginRow
  <2>2. Heads' = [Heads EXCEPT ![s] = {s}]
    <3>1. ASSUME NEW x, NEW f \in Sids
          PROVE  x \in Heads'[f] <=> IF f = s THEN x = s ELSE x \in Heads[f]
      BY <2>1, <1>0, <1>g
    <3>2. \A f \in Sids : Heads'[f] = IF f = s THEN {s} ELSE Heads[f]
      BY <3>1
    <3>. HIDE DEF Heads
    <3>. QED  BY <3>2, <1>g
  <2>3. Ledger!Open(s)
    BY <2>1, <2>2, <1>h DEF Ledger!Open
  <2>. QED  BY <2>1, <2>3 DEF Ledger!Next
<1>3. ASSUME NEW t \in Threads, NEW n \in Sids, Rotated(t, n) PROVE Ledger!Next
  <2> DEFINE s == req[t].sid
             f == row[s].family
  <2>1. /\ Issued' = Issued \cup {n} /\ n \notin Issued
        /\ s \in Issued /\ fate[s] = "live"
        /\ \A x \in Issued : row'[x] = row[x] /\ (x # s => fate'[x] = fate[x])
        /\ fate'[s] = "rotated" /\ fate'[n] = "live"
        /\ row'[n].family = f
    <3>1. s \in Issued => row[s] \in Row
      BY DEF LInv, TypeInv, TypeOK
    <3>. QED  BY <3>1, <1>3 DEF Rotated, Fresh, Successor, Row
  <2>2. f \in Issued /\ f \in Sids
    BY <2>1, <1>0
  <2>3. s \in Head(f)
    BY <2>1 DEF Head, LiveOf
  <2>4. Head(f) = {s}
    BY <2>2, <2>3, HeadIsSingle
  <2>5. Heads' = [Heads EXCEPT ![f] = {n}]
    <3>1. Heads[f] = {s}
      BY <2>2, <2>4 DEF Heads
    <3>2. ASSUME NEW g \in Sids PROVE Heads'[g] = IF g = f THEN {n} ELSE Heads[g]
      <4>1. \A x \in Issued : fate[x] = "live" /\ row[x].family = f => x = s
        BY <3>1, <2>2, <1>g
      <4>2. ASSUME NEW x
            PROVE  x \in Heads'[g] <=> IF g = f THEN x = n ELSE x \in Heads[g]
        BY <4>1, <2>1, <2>2, <1>g
      <4>. QED  BY <4>2
    <3>. HIDE DEF Heads
    <3>. QED  BY <3>2, <1>g
  <2>6. ASSUME NEW g \in Issued, g = f PROVE Ledger!Rotate(g, n)
    <3>1. Heads[g] # {}
      BY <2>2, <2>3, <2>6 DEF Heads
    <3>2. Heads' = [Heads EXCEPT ![g] = {n}]
      BY <2>5, <2>6
    <3>. QED  BY <3>1, <3>2, <2>1, <1>h DEF Ledger!Rotate
  <2>7. \E g \in Issued : Ledger!Rotate(g, n)
    BY <2>2, <2>6
  <2>8. n \in Sids \ Issued
    BY <2>1
  <2>. QED  BY <2>7, <2>8 DEF Ledger!Next
<1>4. ASSUME NEW t \in Threads, Killed(t) PROVE Ledger!Next
  <2>1. /\ Issued' = Issued /\ row' = row
        /\ \A x \in Issued : fate'[x] = "live" => fate[x] = "live"
    BY <1>4 DEF Killed
  <2>2. Heads' \in [Sids -> SUBSET Sids]
    <3>1. \A f \in Sids : Heads'[f] \subseteq Sids
      BY <1>0, <2>1, <1>g
    <3>. HIDE DEF Heads
    <3>. QED  BY <3>1, <1>g
  <2>3. ASSUME NEW f \in Sids PROVE Heads'[f] \in {Heads[f], {}}
    <3>1. Heads'[f] \subseteq Heads[f]
      BY <2>1, <1>g
    <3>2. \A x \in Heads[f] : Heads[f] = {x}
      BY HeadIsSingle DEF Heads
    <3>. QED  BY <3>1, <3>2
  <2>. QED  BY <2>1, <2>2, <2>3, <1>h DEF Ledger!Next, Ledger!End
<1>. QED
  BY <1>1, <1>2, <1>3, <1>4, StepEffect DEF LInv

\* The sessions implement the ledger: a login has one usable token, replaced
\* only by tokens never seen, and once it has none it never gets another.
THEOREM SessionsImplementLedger == Spec => IsATokenLedger
<1>1. Spec => []LInv
  BY FamiliesInvariant DEF LInv
<1>. QED
  BY <1>1, LedgerInit, LedgerStep, PTL DEF Spec, IsATokenLedger, Ledger!Spec

-----------------------------------------------------------------------------
(* Lock order.                                                               *)

\* A thread that holds the user row waits only for session rows, and those are
\* locked by a reuse detection alone.
LEMMA HoldersWaitForDetections ==
  ASSUME NEW t \in Threads, req[t].pc \in {"locked", "changing"}, NEW x \in Blockers(t)
  PROVE  req[x].pc = "flushed"
  BY DEF Blockers, RowLocked

LEMMA WaitersWaitForHolders ==
  ASSUME NEW t \in Threads, NEW x \in Blockers(t), x \in Threads
  PROVE  req[x].pc \in {"locked", "changing", "flushed", "noted"}
  BY DEF Blockers, RowLocked, LockedForUpdate, KeyShared

\* Every wait cycle has a reuse detection or an account deletion in it.
THEOREM NoCycleOfRotationsAndChanges == Spec => []RotationAndChangeNeverDeadlock
<1>1. RotationAndChangeNeverDeadlock
  <2> SUFFICES ASSUME NEW S \in SUBSET Threads, Deadlocked(S)
               PROVE  \E t \in S : req[t].pc \in {"flushed", "noted"}
    BY DEF RotationAndChangeNeverDeadlock
  <2>1. PICK t \in S : TRUE
    BY DEF Deadlocked
  <2>2. PICK x \in S : x \in Blockers(t)
    BY <2>1 DEF Deadlocked
  <2>3. CASE req[x].pc \in {"locked", "changing"}
    <3>1. PICK y \in S : y \in Blockers(x)
      BY DEF Deadlocked
    <3>. QED  BY <3>1, <2>3, HoldersWaitForDetections
  <2>. QED  BY <2>2, <2>3, WaitersWaitForHolders
<1>. QED  BY <1>1, PTL

=============================================================================
