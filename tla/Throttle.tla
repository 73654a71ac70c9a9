------------------------------ MODULE Throttle ------------------------------
(***************************************************************************)
(* The login throttle (services/throttle.py) and the part of POST          *)
(* /auth/login that calls it (api/auth.py): rows of login_attempts,        *)
(* counted over a sliding window, and several logins in flight.            *)
(*                                                                         *)
(* A login reads the clock, reads the two counters one after the other,    *)
(* and either records that it was refused or verifies the password, which  *)
(* takes as long as it takes, and records how that went.  Each record is a *)
(* transaction of its own and reads the clock again.                       *)
(***************************************************************************)
EXTENDS Naturals, FiniteSets, FiniteSetsExt

CONSTANTS
    Addresses,      \* e-mail addresses, registered or not
    NoAddress,      \* the address of a body that does not parse
    Ips,            \* hashed client addresses
    Threads,        \* the server's request threads
    Ids,            \* bound: the pool of row identities of login_attempts
    PairThreshold,  \* failures of an (address, ip) before it is locked
    WideThreshold,  \* failures of an ip before it is locked
    Window,         \* how long a failure counts
    BaseLock,       \* the first lock; it doubles with every further failure
    MaxLock,
    MaxStep,
    Retention,      \* how long a row is kept
    MaxClock        \* bound on the clock

ASSUME ThrottleAssumption ==
    /\ NoAddress \notin Addresses
    /\ Ips # {}
    /\ PairThreshold \in Nat \ {0} /\ WideThreshold \in Nat \ {0}
    /\ BaseLock \in Nat \ {0} /\ MaxLock \in Nat \ {0} /\ MaxStep \in Nat
    /\ Window \in Nat \ {0} /\ Retention \in Nat /\ Window <= Retention
    /\ MaxClock \in Nat

VARIABLES
    attempts,   \* login_attempts: a function from the ids in use to rows
    now,
    req,        \* what each thread is doing
    told        \* history: until when a caller has been told to stay away, or 0
                \* if it has not or a failure of its ip was recorded since

tvars == <<attempts, now, req, told>>

-----------------------------------------------------------------------------
(* Rows, requests, callers.                                                 *)

Results == {"failure", "blocked", "success"}
Attempt == [address: Addresses \cup {NoAddress}, ip: Ips, result: Results, at: Nat]

Callers == (Addresses \cup {NoAddress}) \X Ips

\* undisturbed is history: no failure of the ip was recorded since the request
\* arrived.
Login ==
    [pc: {"idle", "arrived", "paired", "refused", "verifying", "pruning"},
     caller: Callers, at: Nat, ends: SUBSET Nat, undisturbed: BOOLEAN]

InUse == DOMAIN attempts

\* Mutant: rows written while a lock was in force count as well.
CountsRefusals(r) == r.result \in {"failure", "blocked"}
Counts(r) == r.result = "failure"

\* The rows that one counter sees: those of an address, or of all of them.
Failures(ip, addresses, since) ==
    {i \in InUse : /\ attempts[i].ip = ip
                   /\ attempts[i].address \in addresses
                   /\ attempts[i].at >= since
                   /\ Counts(attempts[i])}

Everyone == Addresses \cup {NoAddress}

-----------------------------------------------------------------------------
(* The lock.                                                                *)

\* Naturals stop at zero: no row is older than the clock's start.
Minus(a, b) == IF a > b THEN a - b ELSE 0

\* Powers of two.
Doubled[step \in 0 .. MaxStep] == IF step = 0 THEN 1 ELSE 2 * Doubled[step - 1]

LockTime(step) ==
    IF BaseLock * Doubled[step] < MaxLock THEN BaseLock * Doubled[step] ELSE MaxLock

\* Mutant: the lock is measured from the request that asks.
LockFromNow(S, threshold, at) ==
    IF Cardinality(S) < threshold THEN {}
    ELSE {at + LockTime(IF Cardinality(S) - threshold < MaxStep
                        THEN Cardinality(S) - threshold ELSE MaxStep)}
\* When the run of failures in S stops being refused, measured from its latest
\* one; no end if they are too few.  `at` is when the handler read the clock.
LockFor(S, threshold, at) ==
    IF Cardinality(S) < threshold THEN {}
    ELSE {Max({attempts[i].at : i \in S})
            + LockTime(IF Cardinality(S) - threshold < MaxStep
                       THEN Cardinality(S) - threshold ELSE MaxStep)}

PairLock(caller, at) ==
    IF caller[1] = NoAddress THEN {}
    ELSE LockFor(Failures(caller[2], {caller[1]}, Minus(at, Window)), PairThreshold, at)

WideLock(caller, at) ==
    LockFor(Failures(caller[2], Everyone, Minus(at, Window)), WideThreshold, at)

InForce(ends, at) == {e \in ends : e > at}

\* The ends of the locks that a request of this caller would find now.
Locks(caller) == InForce(PairLock(caller, now) \cup WideLock(caller, now), now)

-----------------------------------------------------------------------------
(* Init, and the steps of a login.                                          *)

NoCaller == CHOOSE c \in Callers : TRUE
NoLogin == [pc |-> "idle", caller |-> NoCaller, at |-> 0, ends |-> {}, undisturbed |-> TRUE]

Init ==
    /\ attempts = [i \in {} |-> NoLogin]
    /\ now = 0
    /\ req = [t \in Threads |-> NoLogin]
    /\ told = [c \in Callers |-> 0]

Become(t, r) == req' = [req EXCEPT ![t] = r]

Row(c, result) == [address |-> c[1], ip |-> c[2], result |-> result, at |-> now]

\* Mutant: address and ip change places.
WriteSwapped(rows, c, result) ==
    \E i \in Ids \ DOMAIN rows :
        attempts' = [x \in DOMAIN rows \cup {i} |->
                         IF x = i THEN Row(<<c[2], c[1]>>, result) ELSE rows[x]]
\* One more row than these is committed, with an identity of its own.
Write(rows, c, result) ==
    \E i \in Ids \ DOMAIN rows :
        attempts' = [x \in DOMAIN rows \cup {i} |->
                         IF x = i THEN Row(c, result) ELSE rows[x]]

Arrive(t, c) ==
    /\ req[t].pc = "idle"
    /\ Become(t, [pc |-> "arrived", caller |-> c, at |-> now, ends |-> {}, undisturbed |-> TRUE])
    /\ UNCHANGED <<attempts, now, told>>

\* The first query of current_lock; none for a body that did not parse.
ReadPair(t) ==
    /\ req[t].pc = "arrived"
    /\ Become(t, [req[t] EXCEPT !.pc = "paired", !.ends = PairLock(req[t].caller, req[t].at)])
    /\ UNCHANGED <<attempts, now, told>>

\* Mutant: only the address-wide lock decides.
ReadOnlyWide(t) ==
    LET r == req[t]
        ends == InForce(WideLock(r.caller, r.at), r.at)
    IN  /\ r.pc = "paired"
        /\ Become(t, [r EXCEPT !.pc = IF ends = {} THEN "verifying" ELSE "refused"])
        /\ told' = IF ends # {} /\ r.undisturbed
                   THEN [told EXCEPT ![r.caller] = Max(ends)] ELSE told
        /\ UNCHANGED <<attempts, now>>
\* The second one, and the decision.  A refused caller is told the later end.
ReadWide(t) ==
    LET r == req[t]
        ends == InForce(r.ends \cup WideLock(r.caller, r.at), r.at)
    IN  /\ r.pc = "paired"
        /\ Become(t, [r EXCEPT !.pc = IF ends = {} THEN "verifying" ELSE "refused"])
        /\ told' = IF ends # {} /\ r.undisturbed
                   THEN [told EXCEPT ![r.caller] = Max(ends)] ELSE told
        /\ UNCHANGED <<attempts, now>>

RecordBlocked(t) ==
    /\ req[t].pc = "refused"
    /\ Write(attempts, req[t].caller, "blocked")
    /\ Become(t, NoLogin)
    /\ UNCHANGED <<now, told>>

\* The password was wrong, the address unknown or the body malformed.
RecordFailure(t) ==
    LET c == req[t].caller
    IN  /\ req[t].pc = "verifying"
            /\ Write(attempts, c, "failure")
        /\ req' = [x \in Threads |->
                       IF x = t THEN [NoLogin EXCEPT !.pc = "pruning"]
                       ELSE IF req[x].caller[2] = c[2] THEN [req[x] EXCEPT !.undisturbed = FALSE]
                       ELSE req[x]]
        /\ told' = [d \in Callers |-> IF d[2] = c[2] THEN 0 ELSE told[d]]
        /\ UNCHANGED now

\* The right password: the pair's failures are deleted and the success written.
Cleared(c) ==
    {i \in InUse : attempts[i].address = c[1] /\ attempts[i].ip = c[2]
                   /\ attempts[i].result = "failure"}
RecordSuccess(t) ==
    LET c == req[t].caller
    IN  /\ req[t].pc = "verifying"
        /\ c[1] # NoAddress
            /\ Write([i \in InUse \ Cleared(c) |-> attempts[i]], c, "success")
        /\ Become(t, [NoLogin EXCEPT !.pc = "pruning"])
        /\ UNCHANGED <<now, told>>

\* Mutant: rows are dropped as soon as the shortest lock is over.
KeptForALock(r) == r.at + BaseLock >= now
Kept(r) == r.at >= Minus(now, Retention)

\* One request in a hundred.
Prune(t) ==
    /\ req[t].pc = "pruning"
    /\ attempts' = [i \in {x \in InUse : Kept(attempts[x])} |-> attempts[i]]
    /\ Become(t, NoLogin)
    /\ UNCHANGED <<now, told>>

SkipPrune(t) ==
    /\ req[t].pc = "pruning"
    /\ Become(t, NoLogin)
    /\ UNCHANGED <<attempts, now, told>>

\* The request dies; what it committed stays.
Crash(t) ==
    /\ req[t].pc # "idle"
    /\ Become(t, NoLogin)
    /\ UNCHANGED <<attempts, now, told>>

Tick ==
    /\ now < MaxClock
    /\ now' = now + 1
    /\ UNCHANGED <<attempts, req, told>>

Step(t) ==
    \/ ReadPair(t) \/ ReadWide(t)
    \/ RecordBlocked(t) \/ RecordFailure(t) \/ RecordSuccess(t)
    \/ Prune(t) \/ SkipPrune(t)

Next ==
    \/ \E t \in Threads : (\E c \in Callers : Arrive(t, c)) \/ Step(t) \/ Crash(t)
    \/ Tick

Spec == Init /\ [][Next]_tvars

-----------------------------------------------------------------------------
(* Properties.                                                              *)

TypeOK ==
    /\ InUse \subseteq Ids
    /\ attempts \in [InUse -> Attempt]
    /\ now \in Nat
    /\ req \in [Threads -> Login]
    /\ told \in [Callers -> Nat]

\* Retry-After keeps its word: whoever was told to stay away until some instant
\* and comes back then is not refused, unless a failure from its ip was recorded
\* meanwhile.  Knocking while locked does not prolong a lock, nor do the window
\* sliding, successes of others, or pruning (throttle.py: "If it counted, anyone
\* could hold a victim at the fifteen-minute ceiling forever").
RetryAfterIsHonest ==
    \A c \in Callers : told[c] # 0 /\ now >= told[c] => Locks(c) = {}

\* Pruning forgets nothing a counter still looks at, whatever logins are in
\* flight: no lock starts or ends with it (throttle.py: "Rows stop meaning
\* anything long before this").
PruneChangesNoLock ==
    [][\A t \in Threads : Prune(t) => \A c \in Callers : Locks(c)' = Locks(c)]_tvars

\* The check is effective: a password is only verified against a lock if another
\* login from the same ip failed after this one had arrived.  So the guesses made
\* beyond a threshold are those already in flight when it was reached, and
\* RecordFailure of a login that nobody overtook is never one of them.
OnlyOvertakenGuessesSlipThrough ==
    \A t \in Threads :
        req[t].pc = "verifying" /\ req[t].undisturbed => Locks(req[t].caller) = {}
=============================================================================
