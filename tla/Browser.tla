------------------------------ MODULE Browser ------------------------------
(***************************************************************************)
(* The tabs of one browser during one login: the session client of         *)
(* frontend/src/api/http.ts, what SessionProvider.tsx makes of it, and as  *)
(* much of the server as they can tell (api/auth.py, auth/guards.py).      *)
(*                                                                         *)
(* The tabs share a cookie jar.  A call that is answered 401 queues up in  *)
(* its tab, waits for the other tabs -- by a Web Lock or, without one, for *)
(* as long as one of them has announced a refresh --, asks again, rotates, *)
(* and asks a third time.  Requests and answers get lost, rotations fail,  *)
(* tabs are closed.                                                        *)
(***************************************************************************)
EXTENDS Naturals, FiniteSets

CONSTANTS
    Tabs,
    Calls,      \* the calls that are made: pairs of a tab and a number
    MaxFaults,  \* bound: requests lost, rotations that fail, tabs closed
    MaxAges     \* bound: access tokens that expire

ASSUME BrowserAssumption ==
    /\ IsFiniteSet(Tabs) /\ Calls \subseteq Tabs \X Nat
    /\ MaxFaults \in Nat /\ MaxAges \in Nat

VARIABLES
    webLocks,   \* whether the browser has Web Locks
    jar,        \* the token of the access and refresh cookies; 0 for none
    head,       \* the token that was issued last: rotations number them
    aged,       \* its access token has expired
    ended,      \* its login is revoked or has timed out
    call,       \* the calls of the tabs
    status,     \* SessionProvider's status of each tab
    busy,       \* peerBusyUntil lies ahead
    ages,       \* access tokens that have expired so far
    faults,     \* faults so far
    hist        \* history: see Hist

bvars == <<webLocks, jar, head, aged, ended, call, status, busy, ages, faults, hist>>

-----------------------------------------------------------------------------
(* Calls and tabs.                                                          *)

\* "password": a call with the wrong one, answered 401 by a session that is alive.
Kinds == {"plain", "password", "logout"}

\* The requests of a call follow each other: first, again, rotate, third.
\* `rotated` is a rotation the server has handled, with what it answered, and
\* `orphan` one that it has yet to handle for a call that has been given up.
Call == [pc: {"todo", "first", "queued", "again", "rotate", "rotated", "third", "orphan", "done"},
         kind: Kinds, token: Nat, got: {"ok", "refused", "failed"}]

Made(pc) == [pc |-> pc, kind |-> "plain", token |-> 0, got |-> "failed"]
Done == Made("done")

\* lost: the answer of a rotation was; raced: two calls were past the wait at once.
Hist == [lost: BOOLEAN, raced: BOOLEAN]

InWork == {"again", "rotate", "rotated", "third"}
Refreshing == \E c \in Calls : call[c].pc \in InWork

\* Something fails.
Fault == faults < MaxFaults /\ faults' = faults + 1

-----------------------------------------------------------------------------
(* The server.                                                              *)

Live(token) == token = head /\ token # 0 /\ ~ended

\* login_required, and the endpoints that ask for the password again.
Unauthorized(c) == ~(Live(call[c].token) /\ ~aged) \/ call[c].kind = "password"

\* The access token runs out.  It outlives the request that follows its issue.
Age ==
    /\ ~aged /\ ~ended /\ ages < MaxAges
    /\ \A c \in Calls : call[c].pc \notin {"rotated", "third"}
    /\ aged' = TRUE
    /\ ages' = ages + 1
    /\ UNCHANGED <<webLocks, jar, head, ended, call, status, busy, faults, hist>>

\* A time limit, another device, an administrator.
EndElsewhere ==
    /\ ~ended
    /\ ended' = TRUE
    /\ UNCHANGED <<webLocks, jar, head, aged, call, status, busy, ages, faults, hist>>

\* Mutant: the answer goes out although the successor was not committed.
MintLost == UNCHANGED head
\* rotate_session issues the successor and commits it.
Mint == head' = head + 1

\* POST /auth/refresh.  A token that was spent for a successor ends the login.
Spend(c) ==
    LET token == call[c].token
        Got(a, t) == call' = [call EXCEPT ![c] =
                        IF call[c].pc = "orphan" THEN Done
                        ELSE [@ EXCEPT !.pc = "rotated", !.got = a, !.token = t]] IN
    /\ call[c].pc \in {"rotate", "orphan"}
    /\ \/ /\ Live(token)
          /\ Mint
          /\ aged' = FALSE
          /\ Got("ok", head + 1)
          /\ UNCHANGED <<ended, faults>>
       \/ /\ ~Live(token) /\ token # 0
          /\ ended' = (ended \/ token < head)
          /\ Got("refused", token)
          /\ UNCHANGED <<head, aged, faults>>
       \/ /\ (token = 0 /\ UNCHANGED faults) \/ Fault
          /\ Got("failed", token)
          /\ UNCHANGED <<head, aged, ended>>
    /\ UNCHANGED <<webLocks, jar, status, busy, ages, hist>>

-----------------------------------------------------------------------------
(* The client.                                                              *)

Init ==
    /\ webLocks \in BOOLEAN
    /\ jar = 1 /\ head = 1
    /\ aged = FALSE /\ ended = FALSE
    /\ call = [c \in Calls |-> Made("todo")]
    /\ status = [b \in Tabs |-> "in"]
    /\ busy = [b \in Tabs |-> FALSE]
    /\ ages = 0 /\ faults = 0
    /\ hist = [lost |-> FALSE, raced |-> FALSE]

\* A tab announces its refresh, or the end of it, and the listeners of the other
\* tabs note it.  A message on its way is one that has been timed out: see Expire.
Broadcast(b, begins) ==
    busy' = [d \in Tabs |-> IF d = b \/ webLocks \/ status[d] = "closed" THEN busy[d] ELSE begins]

\* The call is over.  signOut leaves whatever comes of it; otherwise a 401 that
\* is left over dispatches session-lost.
Ends(c, lost) ==
    LET b == c[1] IN
    status' = [status EXCEPT ![b] =
                 IF @ = "closed" THEN @
                 ELSE IF call[c].kind = "logout" THEN "left"
                 ELSE IF lost /\ @ = "in" THEN "out" ELSE @]

\* A request of the call is answered with something else than 401.  A change of
\* the password, whose answer brings a new login, is not among the calls.
Succeeds(c) ==
    /\ ended' = (ended \/ call[c].kind = "logout")
    /\ jar' = IF call[c].kind = "logout" THEN 0 ELSE jar
    /\ call' = [call EXCEPT ![c] = Done]
    /\ Ends(c, FALSE)

\* The calls of a tab are numbered in the order in which they are made.
Begin(c, kind) ==
    /\ status[c[1]] = "in" /\ call[c].pc = "todo"
    /\ \A d \in Calls : d[1] = c[1] /\ d[2] < c[2] => call[d].pc # "todo"
    /\ call' = [call EXCEPT ![c] = [Made("first") EXCEPT !.kind = kind, !.token = jar]]
    /\ UNCHANGED <<webLocks, jar, head, aged, ended, status, busy, ages, faults, hist>>

First(c) ==
    /\ call[c].pc = "first"
    /\ \/ ~Unauthorized(c) /\ Succeeds(c)
       \/ Unauthorized(c) /\ call' = [call EXCEPT ![c].pc = "queued", ![c].token = 0] /\ UNCHANGED <<ended, jar, status>>
    /\ UNCHANGED <<webLocks, head, aged, busy, ages, faults, hist>>

\* Mutant: Web Locks are there and not used.
PeersIdle(c) == ~busy[c[1]] /\ \A d \in Calls : d[1] = c[1] => call[d].pc \notin InWork
\* serialize queues the calls of a tab; then manager.request, or waitForPeer.
MayWork(c) ==
    /\ \A d \in Calls : d[1] = c[1] => call[d].pc \notin InWork
    /\ IF webLocks THEN ~Refreshing ELSE ~busy[c[1]]

\* The call holds the refresh slot and goes on with the cookies that are there by now.
Holds(c, pc) ==
    /\ call[c].pc = "queued" /\ MayWork(c)
    /\ call' = [call EXCEPT ![c].pc = pc, ![c].token = jar]
    /\ hist' = [hist EXCEPT !.raced = @ \/ Refreshing]
    /\ Broadcast(c[1], TRUE)
    /\ UNCHANGED <<webLocks, jar, head, aged, ended, status, ages, faults>>

\* Mutant: whoever waited rotates at once.
RotateAtOnce(c) == Holds(c, "rotate")
\* The re-check.
AskAgain(c) == Holds(c, "again")

Again(c) ==
    /\ call[c].pc = "again"
    /\ \/ ~Unauthorized(c) /\ Succeeds(c) /\ Broadcast(c[1], FALSE)
       \/ /\ Unauthorized(c)
          /\ call' = [call EXCEPT ![c].pc = "rotate", ![c].token = jar]
          /\ UNCHANGED <<ended, jar, status, busy>>
    /\ UNCHANGED <<webLocks, head, aged, ages, faults, hist>>

\* The call gives up with the 401 it has.
GiveUp(c) ==
    /\ call' = [call EXCEPT ![c] = Done]
    /\ Ends(c, TRUE)
    /\ Broadcast(c[1], FALSE)

\* Mutant: the answer of a rotation does not set the cookies.
KeepsJar(c) == jar
\* The token that is in the jar once the answer of the rotation has arrived:
\* the new one, none (clear_session), or what was there.
JarAfter(c) == CASE call[c].got = "ok" -> call[c].token [] call[c].got = "refused" -> 0
                 [] OTHER -> jar

Rotated(c) ==
    /\ call[c].pc = "rotated"
    /\ jar' = JarAfter(c)
    /\ \/ /\ call[c].got = "ok"
          /\ call' = [call EXCEPT ![c].pc = "third", ![c].token = jar']
          /\ UNCHANGED <<status, busy>>
       \/ call[c].got # "ok" /\ GiveUp(c)
    /\ UNCHANGED <<webLocks, head, aged, ended, ages, faults, hist>>

Third(c) ==
    /\ call[c].pc = "third"
    /\ \/ ~Unauthorized(c) /\ Succeeds(c) /\ Broadcast(c[1], FALSE)
       \/ Unauthorized(c) /\ GiveUp(c) /\ UNCHANGED <<ended, jar>>
    /\ UNCHANGED <<webLocks, head, aged, ages, faults, hist>>

\* The rotations that the server has yet to handle, and the calls when those of C
\* are given up: it will handle the kept ones all the same.
Sent(C) == {c \in C : call[c].pc = "rotate"}

GivenUp(C, kept) ==
    [c \in Calls |-> IF c \in kept THEN [call[c] EXCEPT !.pc = "orphan"]
                     ELSE IF c \in C /\ call[c].pc \notin {"todo", "orphan"} THEN Done
                     ELSE call[c]]

RotationOf(C) == \E c \in C : call[c].pc \in {"rotate", "rotated"}

\* A fetch fails: the request or its answer is lost, and the call throws.
Break(c) ==
    /\ Fault
    /\ call[c].pc \in {"first"} \cup InWork
    /\ \E kept \in SUBSET Sent({c}) : call' = GivenUp({c}, kept)
    /\ Ends(c, FALSE)
    /\ IF call[c].pc = "first" THEN UNCHANGED busy ELSE Broadcast(c[1], FALSE)
    /\ hist' = [hist EXCEPT !.lost = @ \/ RotationOf({c})]
    /\ UNCHANGED <<webLocks, jar, head, aged, ended, ages>>

\* A tab is closed while it has a call under way.  Its lock is released, and
\* nothing is announced any more.
Close(b) ==
    LET mine == {c \in Calls : c[1] = b} IN
    /\ Fault
    /\ status[b] # "closed" /\ \E c \in mine : call[c].pc \notin {"todo", "orphan", "done"}
    /\ status' = [status EXCEPT ![b] = "closed"]
    /\ hist' = [hist EXCEPT !.lost = @ \/ RotationOf(mine)]
    /\ \E kept \in SUBSET Sent(mine) : call' = GivenUp(mine, kept)
    /\ busy' = [busy EXCEPT ![b] = FALSE]
    /\ UNCHANGED <<webLocks, jar, head, aged, ended, ages>>

\* Mutant: peerBusyUntil does not expire.
Never(b) == FALSE
\* PEER_TIMEOUT_MS, however long the peer really takes; a message that the tab
\* has not heard yet leaves it in the same state.
TimedOut(b) == busy[b]

Expire(b) ==
    /\ TimedOut(b)
    /\ busy' = [busy EXCEPT ![b] = FALSE]
    /\ UNCHANGED <<webLocks, jar, head, aged, ended, call, status, ages, faults, hist>>

\* At each point of a call one of these is its next step.
Proceed(c) ==
    First(c) \/ AskAgain(c) \/ Again(c) \/ Spend(c) \/ Rotated(c) \/ Third(c)

Next ==
    \/ Age \/ EndElsewhere
    \/ \E c \in Calls :
          \/ \E kind \in Kinds : Begin(c, kind)
          \/ Proceed(c) \/ Break(c)
    \/ \E b \in Tabs : Close(b) \/ Expire(b)

Spec == Init /\ [][Next]_bvars

\* Requests are answered or lost, timers fire and messages arrive; promise
\* queues and Web Locks serve first come, first served.
Fairness ==
    /\ \A c \in Calls : SF_bvars(Proceed(c))
    /\ \A b \in Tabs : WF_bvars(Expire(b))

FairSpec == Spec /\ Fairness

-----------------------------------------------------------------------------
(* Properties.                                                              *)

\* Every variable stays in its domain.
Domains ==
    /\ webLocks \in BOOLEAN
    /\ jar \in Nat /\ head \in Nat
    /\ aged \in BOOLEAN /\ ended \in BOOLEAN
    /\ call \in [Calls -> Call]
    /\ status \in [Tabs -> {"in", "out", "left", "closed"}]
    /\ busy \in [Tabs -> BOOLEAN]
    /\ ages \in Nat /\ faults \in Nat
    /\ hist \in Hist

\* And neither the jar nor a call, however late its answer or whoever rotated
\* since, holds a token that the server has not issued.
TypeOK == Domains /\ jar <= head /\ \A c \in Calls : call[c].token <= head

\* The purpose of the refresh lock (http.ts:71-86): tabs and components that
\* find their access token expired together do not spend each other's refresh
\* token.  A spent token, which ends the login, is sent only if the answer of a
\* rotation was lost or, without Web Locks, two tabs were past the wait at once.
ReuseMeansLossOrRace ==
    \A c \in Calls : /\ call[c].pc \in {"rotate", "orphan"}
                       /\ call[c].token \in 1..(head - 1) =>
                       hist.lost \/ (~webLocks /\ hist.raced)

\* The re-check under the lock: with Web Locks, a token is not spent while its
\* access token is good, but for a wrong password.
NoSpareRotation ==
    [][webLocks /\ head' # head =>
         aged \/ \E c \in Calls : call[c].kind = "password" /\ call'[c] # call[c]]_bvars

\* A tab is sent to the login screen only if the session is gone, its request
\* was refused for a wrong password, the rotation failed, or two tabs raced.
SignedOutHasAReason ==
    [][\A b \in Tabs : status'[b] = "out" /\ status[b] # "out" =>
         \/ ended \/ jar' = 0 \/ (~webLocks /\ hist.raced)
         \/ \E c \in Calls : /\ c[1] = b /\ call[c] # call'[c]
                             /\ call[c].kind = "password" \/ call[c].got = "failed"]_bvars

\* What SessionProvider.tsx says: a request that could not be recovered by a
\* refresh means the session is gone.  Web Locks are there and nothing is lost.
SignedOutMeansGone ==
    webLocks /\ MaxFaults = 0 => \A b \in Tabs : status[b] = "out" => ended \/ jar = 0

\* No call waits forever, for its own tab or for another that was closed in the
\* middle of a refresh (http.ts:106).
CallsAreAnswered == <>[](\A c \in Calls : call[c].pc \in {"todo", "done"})
=============================================================================
