--------------------------- MODULE BrowserProofs ---------------------------
(***************************************************************************)
(* For any tabs, calls, faults and expiries: the types, that a spent token *)
(* comes back only after a loss or a race, that no rotation is spare, and  *)
(* that a tab is signed out for a reason.                                  *)
(***************************************************************************)
EXTENDS Browser, TLAPS

\* Nobody has got past a wait that another call had not left.
Unraced == webLocks \/ ~hist.raced

OneAtATime ==
    Unraced => \A c, d \in Calls : call[c].pc \in InWork /\ call[d].pc \in InWork => c = d

Issued ==
    /\ head >= 1 /\ jar <= head
    /\ \A c \in Calls : call[c].token <= head

Answered(c) == call[c].pc = "third" \/ (call[c].pc = "rotated" /\ call[c].got = "ok")

\* What a call has just been given is the newest token, and nobody else has it.
GivenTheNewest ==
    Unraced => \A c \in Calls : Answered(c) =>
        /\ call[c].token = head /\ ~aged
        /\ \A d \in Calls : call[d].pc = "orphan" => call[d].token # head

\* As long as no answer is lost, the jar holds the newest token or is about to.
JarIsCurrent ==
    Unraced /\ ~hist.lost =>
        /\ \A c \in Calls : call[c].pc # "orphan"
        /\ \A c \in Calls : call[c].pc = "rotate" => call[c].token \in {0, head}
        /\ jar \in {0, head} \/ \E c \in Calls : call[c].pc = "rotated" /\ call[c].got = "ok"

\* Whoever rotates has asked with the token it is going to spend.
AskedFirst ==
    webLocks => \A c \in Calls :
        /\ call[c].pc = "again" => jar \in {0, call[c].token}
        /\ call[c].pc \in {"rotate", "orphan"} /\ call[c].kind # "password" /\ Live(call[c].token)
             => aged

IInv == Domains /\ OneAtATime /\ Issued /\ GivenTheNewest /\ JarIsCurrent /\ AskedFirst

-----------------------------------------------------------------------------
(* Types.                                                                   *)

LEMMA MadeIsACall == \A pc \in {"todo", "first", "done"} : Made(pc) \in Call /\ Made(pc).pc = pc
                                       /\ Made(pc).token = 0 /\ Made(pc).kind = "plain"
  BY DEF Made, Call, Kinds

LEMMA InitIInv == ASSUME Init PROVE IInv
<1>1. Domains
  BY MadeIsACall DEF Init, Domains, Hist
<1>2. \A c \in Calls : call[c].pc = "todo" /\ call[c].token = 0
  BY MadeIsACall DEF Init
<1>3. OneAtATime /\ AskedFirst /\ GivenTheNewest
  BY <1>2 DEF OneAtATime, AskedFirst, GivenTheNewest, Answered, InWork
<1>4. Issued /\ JarIsCurrent
  BY <1>2 DEF Init, Issued, JarIsCurrent
<1> QED BY <1>1, <1>3, <1>4 DEF IInv

LEMMA TabOfCall == ASSUME NEW c \in Calls PROVE c[1] \in Tabs
  BY BrowserAssumption

\* What the actions do besides moving their call.
LEMMA Parts ==
    ASSUME Domains
    PROVE  /\ \A b \in Tabs, begins \in BOOLEAN : Broadcast(b, begins) => busy' \in [Tabs -> BOOLEAN]
           /\ \A c \in Calls, lost \in BOOLEAN : Ends(c, lost) =>
                status' \in [Tabs -> {"in", "out", "left", "closed"}]
<1> USE DEF Domains
<1>1. ASSUME NEW b \in Tabs, NEW begins \in BOOLEAN, Broadcast(b, begins)
      PROVE  busy' \in [Tabs -> BOOLEAN]
  BY <1>1 DEF Broadcast
<1>2. ASSUME NEW c \in Calls, NEW lost \in BOOLEAN, Ends(c, lost)
      PROVE  status' \in [Tabs -> {"in", "out", "left", "closed"}]
  BY <1>2, TabOfCall DEF Ends
<1> QED BY <1>1, <1>2

LEMMA StepDomains == ASSUME Domains, [Next]_bvars PROVE Domains'
<1> USE DEF Domains
<1>1. CASE Age
  BY <1>1 DEF Age
<1>2. CASE EndElsewhere
  BY <1>2 DEF EndElsewhere
<1> Done \in Call
  BY MadeIsACall DEF Done
<1>3. ASSUME NEW c \in Calls, Succeeds(c)
      PROVE  /\ ended' \in BOOLEAN /\ jar' \in Nat /\ call' \in [Calls -> Call]
             /\ status' \in [Tabs -> {"in", "out", "left", "closed"}]
  <2>1. ended' \in BOOLEAN /\ jar' \in Nat /\ call' \in [Calls -> Call]
    BY <1>3 DEF Succeeds
  <2> QED BY <1>3, <2>1, Parts DEF Succeeds
<1>4. ASSUME NEW c \in Calls, GiveUp(c)
      PROVE  /\ call' \in [Calls -> Call] /\ busy' \in [Tabs -> BOOLEAN]
             /\ status' \in [Tabs -> {"in", "out", "left", "closed"}]
  BY <1>4, Parts, TabOfCall DEF GiveUp
<1>5. ASSUME NEW c \in Calls, NEW kind \in Kinds, Begin(c, kind) PROVE Domains'
  <2>1. [Made("first") EXCEPT !.kind = kind, !.token = jar] \in Call
    BY DEF Made, Call
  <2> QED BY <1>5, <2>1 DEF Begin
<1>6. ASSUME NEW c \in Calls, First(c) PROVE Domains'
  <2>1. CASE Succeeds(c)
    BY <1>6, <2>1, <1>3 DEF First
  <2>2. CASE UNCHANGED <<ended, jar, status>> /\ call' = [call EXCEPT ![c].pc = "queued", ![c].token = 0]
    <3>1. [call[c] EXCEPT !.pc = "queued", !.token = 0] \in Call
      BY DEF Call
    <3> QED BY <1>6, <2>2, <3>1 DEF First
  <2> QED BY <1>6, <2>1, <2>2 DEF First
<1>7. ASSUME NEW c \in Calls, AskAgain(c) PROVE Domains'
  <2>1. [call[c] EXCEPT !.pc = "again", !.token = jar] \in Call
    BY DEF Call
  <2>2. call' \in [Calls -> Call]
    BY <1>7, <2>1 DEF AskAgain, Holds
  <2>3. hist' \in Hist
    BY <1>7 DEF AskAgain, Holds, Refreshing, Hist
  <2>4. busy' \in [Tabs -> BOOLEAN]
    BY <1>7, Parts, TabOfCall DEF AskAgain, Holds
  <2> QED BY <1>7, <2>2, <2>3, <2>4 DEF AskAgain, Holds
<1>8. ASSUME NEW c \in Calls, Again(c) PROVE Domains'
  <2>1. CASE Succeeds(c) /\ Broadcast(c[1], FALSE)
    BY <1>8, <2>1, <1>3, Parts, TabOfCall DEF Again
  <2>2. CASE UNCHANGED <<ended, jar, status, busy>> /\ call' = [call EXCEPT ![c].pc = "rotate", ![c].token = jar]
    <3>1. [call[c] EXCEPT !.pc = "rotate", !.token = jar] \in Call
      BY DEF Call
    <3> QED BY <1>8, <2>2, <3>1 DEF Again
  <2> QED BY <1>8, <2>1, <2>2 DEF Again
<1>9. ASSUME NEW c \in Calls, Spend(c) PROVE Domains'
  <2>1. \A a \in {"ok", "refused", "failed"}, t \in Nat :
           [call[c] EXCEPT !.pc = "rotated", !.got = a, !.token = t] \in Call
    BY DEF Call
  <2>2. call[c].token \in Nat /\ head + 1 \in Nat
    BY DEF Call
  <2>3. call' \in [Calls -> Call]
    BY <1>9, <2>1, <2>2 DEF Spend, Mint
  <2>3a. faults' \in Nat
    BY <1>9 DEF Spend, Mint, Fault
  <2>3b. head' = head \/ head' = head + 1
    BY <1>9, Zenon DEF Spend, Mint
  <2>3c. aged' = aged \/ aged' = FALSE
    BY <1>9, Zenon DEF Spend, Mint
  <2>4. head' \in Nat /\ aged' \in BOOLEAN /\ faults' \in Nat
    BY <2>2, <2>3a, <2>3b, <2>3c
  <2>5. (ended \/ call[c].token < head) \in BOOLEAN
    BY Zenon
  <2>6. ended' \in BOOLEAN
    BY <1>9, <2>5, Zenon DEF Spend, Mint
  <2> QED BY <1>9, <2>3, <2>4, <2>6 DEF Spend, Mint
<1>10. ASSUME NEW c \in Calls, Rotated(c) PROVE Domains'
  <2>1. jar' \in Nat
    BY <1>10 DEF Rotated, JarAfter, Call
  <2>2. CASE GiveUp(c)
    BY <1>10, <2>1, <2>2, <1>4 DEF Rotated
  <2>3. CASE UNCHANGED <<status, busy>> /\ call' = [call EXCEPT ![c].pc = "third", ![c].token = jar']
    <3>1. [call[c] EXCEPT !.pc = "third", !.token = jar'] \in Call
      BY <2>1 DEF Call
    <3> QED BY <1>10, <2>1, <2>3, <3>1 DEF Rotated
  <2> QED BY <1>10, <2>2, <2>3 DEF Rotated
<1>11. ASSUME NEW c \in Calls, Third(c) PROVE Domains'
  <2>1. CASE Succeeds(c) /\ Broadcast(c[1], FALSE)
    BY <1>11, <2>1, <1>3, Parts, TabOfCall DEF Third
  <2>2. CASE GiveUp(c) /\ UNCHANGED <<ended, jar>>
    BY <1>11, <2>2, <1>4 DEF Third
  <2> QED BY <1>11, <2>1, <2>2 DEF Third
<1>12. \A C, kept : GivenUp(C, kept) \in [Calls -> Call]
  <2>1. ASSUME NEW C, NEW kept, NEW c \in Calls PROVE [call[c] EXCEPT !.pc = "orphan"] \in Call
    BY DEF Call
  <2> QED BY <2>1 DEF GivenUp
<1>13. \A C : [hist EXCEPT !.lost = @ \/ RotationOf(C)] \in Hist
  <2> TAKE C
  <2>1. RotationOf(C) \in BOOLEAN
    BY DEF RotationOf
  <2> QED BY <2>1, Zenon DEF Hist
<1>14. ASSUME NEW c \in Calls, Break(c) PROVE Domains'
  <2>1. hist' \in Hist
    BY <1>13, <1>14, Zenon DEF Break
  <2>2. busy' \in [Tabs -> BOOLEAN] /\ status' \in [Tabs -> {"in", "out", "left", "closed"}]
    BY <1>14, Parts, TabOfCall DEF Break
  <2>3. call' \in [Calls -> Call]
    BY <1>12, <1>14 DEF Break
  <2>4. faults' \in Nat
    BY <1>14 DEF Break, Fault
  <2> QED BY <1>14, <2>1, <2>2, <2>3, <2>4 DEF Break
<1>15. ASSUME NEW b \in Tabs, Close(b) PROVE Domains'
  <2>1. hist' \in Hist
    BY <1>13, <1>15, Zenon DEF Close
  <2>2. status' \in [Tabs -> {"in", "out", "left", "closed"}] /\ busy' \in [Tabs -> BOOLEAN]
    BY <1>15 DEF Close
  <2>3. call' \in [Calls -> Call]
    BY <1>12, <1>15 DEF Close
  <2> QED BY <1>15, <2>1, <2>2, <2>3 DEF Close, Fault
<1>16. ASSUME NEW b \in Tabs, Expire(b) PROVE Domains'
  BY <1>16 DEF Expire
<1>17. CASE UNCHANGED bvars
  BY <1>17 DEF bvars
<1> QED BY <1>1, <1>2, <1>5, <1>6, <1>7, <1>8, <1>9, <1>10, <1>11, <1>14, <1>15, <1>16, <1>17
        DEF Next, Proceed

-----------------------------------------------------------------------------
(* The invariant.                                                           *)

\* A step that issues nothing: calls end, go to sleep, are refused or are
\* orphaned, and the jar stays or is emptied.
Settled(d) ==
    \/ call'[d] = call[d]
    \/ call'[d].pc \in {"first", "queued", "done"} /\ call'[d].token <= head
    \/ /\ call[d].pc = "rotate" /\ call'[d].pc = "rotated"
       /\ call'[d].got # "ok" /\ call'[d].token = call[d].token
    \/ /\ call[d].pc = "rotate" /\ call'[d].pc = "orphan" /\ hist'.lost
       /\ call'[d].token = call[d].token /\ call'[d].kind = call[d].kind

Settles ==
    /\ webLocks' = webLocks /\ hist'.raced = hist.raced /\ (hist.lost => hist'.lost)
    /\ head' = head /\ aged' = aged /\ (ended => ended')
    /\ jar' \in {0, jar}
    /\ \A d \in Calls : /\ Settled(d)
                        /\ call[d].pc = "rotated" /\ call[d].got = "ok" =>
                             call'[d] = call[d] \/ hist'.lost \/ jar' = 0

LEMMA SettlesKeeps ==
    ASSUME IInv, Settles
    PROVE  (OneAtATime /\ Issued /\ GivenTheNewest /\ JarIsCurrent /\ AskedFirst)'
<1> USE DEF IInv, Settles
<1>0. (Unraced' => Unraced) /\ \A d \in Calls : Settled(d)
  BY DEF Unraced
<1>1. \A d \in Calls : call'[d].pc \in InWork => call[d].pc \in InWork
  BY <1>0 DEF Settled, InWork
<1>2. OneAtATime'
  BY <1>0, <1>1 DEF OneAtATime, InWork
<1>3. Issued'
  BY <1>0 DEF Issued, Settled, Domains
<1>4. \A d \in Calls : Answered(d)' => call'[d] = call[d]
  BY <1>0 DEF Answered, Settled
<1>5. \A d \in Calls : call'[d].pc = "orphan" =>
         /\ call[d].pc \in {"rotate", "orphan"} /\ (call[d].pc = "rotate" => hist'.lost)
         /\ call'[d].token = call[d].token
  BY <1>0 DEF Settled
<1>6. GivenTheNewest'
  <2> SUFFICES ASSUME Unraced', NEW c \in Calls, Answered(c)'
               PROVE  /\ call'[c].token = head' /\ ~aged'
                      /\ \A d \in Calls : call'[d].pc = "orphan" => call'[d].token # head'
    BY DEF GivenTheNewest, Answered
  <2>1. Answered(c)
    BY <1>4 DEF Answered
  <2>2. ASSUME NEW d \in Calls PROVE ~(call[d].pc = "rotate")
    BY <1>0, <2>1 DEF Answered, OneAtATime, InWork
  <2> QED BY <1>0, <1>4, <1>5, <2>1, <2>2 DEF GivenTheNewest
<1>7. JarIsCurrent'
  <2> SUFFICES ASSUME Unraced', ~hist'.lost PROVE
        /\ \A c \in Calls : call'[c].pc # "orphan"
        /\ \A c \in Calls : call'[c].pc = "rotate" => call'[c].token \in {0, head'}
        /\ jar' \in {0, head'} \/ \E c \in Calls : call'[c].pc = "rotated" /\ call'[c].got = "ok"
    BY DEF JarIsCurrent
  <2>1. Unraced /\ ~hist.lost
    BY <1>0
  <2>2. \A c \in Calls : call'[c].pc # "orphan"
    BY <1>5, <2>1 DEF JarIsCurrent
  <2>3. \A c \in Calls : call'[c].pc = "rotate" => call'[c].token \in {0, head'}
    BY <1>0, <2>1 DEF JarIsCurrent, Settled
  <2>4. jar' \in {0, head'} \/ \E c \in Calls : call'[c].pc = "rotated" /\ call'[c].got = "ok"
    BY <2>1 DEF JarIsCurrent
  <2> QED BY <2>2, <2>3, <2>4
<1>8. AskedFirst'
  <2> SUFFICES ASSUME webLocks, NEW c \in Calls PROVE
        /\ call'[c].pc = "again" => jar' \in {0, call'[c].token}
        /\ call'[c].pc \in {"rotate", "orphan"} /\ call'[c].kind # "password"
             /\ call'[c].token = head' /\ call'[c].token # 0 /\ ~ended' => aged'
    BY DEF AskedFirst, Live
  <2>1. CASE call'[c] = call[c]
    BY <2>1 DEF AskedFirst, Live
  <2>2. CASE call[c].pc = "rotate" /\ call'[c].pc = "orphan"
             /\ call'[c].token = call[c].token /\ call'[c].kind = call[c].kind
    BY <2>2 DEF AskedFirst, Live
  <2> QED BY <1>0, <2>1, <2>2 DEF Settled
<1> QED BY <1>2, <1>3, <1>6, <1>7, <1>8

\* The rest of the invariant.
Rest == OneAtATime /\ Issued /\ GivenTheNewest /\ JarIsCurrent /\ AskedFirst

LEMMA DoneIsSettled == ASSUME IInv PROVE Done.pc = "done" /\ Done.token <= head
  BY MadeIsACall DEF Done, IInv, Issued, Domains

LEMMA SettlingSteps ==
    ASSUME IInv,
           \/ EndElsewhere
           \/ \E c \in Calls : \/ \E kind \in Kinds : Begin(c, kind)
                               \/ First(c)
                               \/ Again(c) /\ Succeeds(c)
                               \/ Rotated(c) /\ GiveUp(c) /\ call[c].got # "ok"
                               \/ Third(c)
           \/ \E b \in Tabs : Expire(b)
           \/ UNCHANGED bvars
    PROVE  Settles
<1> USE DEF IInv, Domains
<1>1. Done.pc = "done" /\ Done.token <= head
  BY DoneIsSettled
<1>2. CASE EndElsewhere
  BY <1>2 DEF EndElsewhere, Settles, Settled
<1>3. ASSUME NEW c \in Calls, NEW kind \in Kinds, Begin(c, kind) PROVE Settles
  <2>1. call'[c].pc = "first" /\ call'[c].token = jar
    BY <1>3 DEF Begin, Made
  <2>2. \A d \in Calls : d = c \/ call'[d] = call[d]
    BY <1>3 DEF Begin
  <2>3. call[c].pc = "todo"
    BY <1>3 DEF Begin
  <2> QED BY <1>3, <2>1, <2>2, <2>3 DEF Begin, Settles, Settled, Issued
<1>4. ASSUME NEW c \in Calls, Succeeds(c)
      PROVE  /\ ended => ended'
             /\ jar' \in {0, jar}
             /\ call'[c] = Done
             /\ \A d \in Calls : d = c \/ call'[d] = call[d]
  BY <1>4 DEF Succeeds
<1>5. ASSUME NEW c \in Calls, GiveUp(c)
      PROVE  call'[c] = Done /\ \A d \in Calls : d = c \/ call'[d] = call[d]
  BY <1>5 DEF GiveUp
<1>6. ASSUME NEW c \in Calls, First(c) PROVE Settles
  <2>1. CASE Succeeds(c)
    BY <1>1, <1>4, <1>6, <2>1 DEF First, Settles, Settled
  <2>2. CASE UNCHANGED <<ended, jar, status>> /\ call' = [call EXCEPT ![c].pc = "queued", ![c].token = 0]
    <3>1. call'[c].pc = "queued" /\ call'[c].token = 0
      BY <2>2 DEF Call
    <3>2. \A d \in Calls : d = c \/ call'[d] = call[d]
      BY <2>2
    <3>3. call[c].pc = "first"
      BY <1>6 DEF First
    <3> QED BY <1>6, <2>2, <3>1, <3>2, <3>3 DEF First, Settles, Settled
  <2> QED BY <1>6, <2>1, <2>2 DEF First
<1>7. ASSUME NEW c \in Calls, Again(c), Succeeds(c) PROVE Settles
  BY <1>1, <1>4, <1>7 DEF Again, Settles, Settled
<1>8. ASSUME NEW c \in Calls, Rotated(c), GiveUp(c), call[c].got # "ok" PROVE Settles
  <2>1. jar' \in {0, jar}
    BY <1>8 DEF Rotated, JarAfter
  <2> QED BY <1>1, <1>5, <1>8, <2>1 DEF Rotated, Settles, Settled
<1>9. ASSUME NEW c \in Calls, Third(c) PROVE Settles
  <2>1. CASE Succeeds(c)
    BY <1>1, <1>4, <1>9, <2>1 DEF Third, Settles, Settled
  <2>2. CASE GiveUp(c) /\ UNCHANGED <<ended, jar>>
    BY <1>1, <1>5, <1>9, <2>2 DEF Third, Settles, Settled
  <2> QED BY <1>9, <2>1, <2>2 DEF Third
<1>10. ASSUME NEW b \in Tabs, Expire(b) PROVE Settles
  BY <1>10 DEF Expire, Settles, Settled
<1>11. CASE UNCHANGED bvars
  BY <1>11 DEF bvars, Settles, Settled
<1> QED BY <1>2, <1>3, <1>6, <1>7, <1>8, <1>9, <1>10, <1>11

\* Calls that are given up, with a tab or alone.
LEMMA GivingUpSettles ==
    ASSUME IInv, NEW C \in SUBSET Calls, NEW kept \in SUBSET Sent(C),
           call' = GivenUp(C, kept), hist' = [hist EXCEPT !.lost = @ \/ RotationOf(C)],
           UNCHANGED <<webLocks, jar, head, aged, ended>>
    PROVE  Settles
<1> USE DEF IInv, Domains
<1>1. Done.pc = "done" /\ Done.token <= head
  BY DoneIsSettled
<1>2. hist'.raced = hist.raced /\ (hist'.lost <=> hist.lost \/ RotationOf(C))
  <2>1. RotationOf(C) \in BOOLEAN /\ (hist.lost \/ RotationOf(C)) \in BOOLEAN
    BY Zenon DEF RotationOf
  <2> QED BY <2>1 DEF Hist
<1>3. ASSUME NEW d \in Calls
      PROVE  Settled(d) /\ (call[d].pc = "rotated" /\ call[d].got = "ok" =>
                              call'[d] = call[d] \/ hist'.lost)
  <2>1. CASE d \in kept
    <3>1. d \in C /\ call[d].pc = "rotate"
      BY <2>1 DEF Sent
    <3>2. call'[d] = [call[d] EXCEPT !.pc = "orphan"]
      BY <2>1 DEF GivenUp
    <3>3. hist'.lost
      BY <1>2, <3>1 DEF RotationOf
    <3> QED BY <3>1, <3>2, <3>3 DEF Settled, Call
  <2>2. CASE d \notin kept /\ d \in C /\ call[d].pc \notin {"todo", "orphan"}
    <3>1. call'[d] = Done
      BY <2>2 DEF GivenUp
    <3>2. call[d].pc = "rotated" => hist'.lost
      BY <1>2, <2>2 DEF RotationOf
    <3> QED BY <1>1, <3>1, <3>2 DEF Settled
  <2>3. CASE call'[d] = call[d]
    BY <2>3 DEF Settled
  <2> QED BY <2>1, <2>2, <2>3 DEF GivenUp
<1> QED BY <1>2, <1>3 DEF Settles

LEMMA AgeKeeps == ASSUME IInv, Age PROVE Rest'
<1> USE DEF IInv, Age
<1>1. OneAtATime' /\ Issued'
  BY DEF OneAtATime, Unraced, Issued
<1>2. GivenTheNewest'
  BY DEF GivenTheNewest, Answered
<1>3. JarIsCurrent' /\ AskedFirst'
  BY DEF JarIsCurrent, Unraced, AskedFirst, Live
<1> QED BY <1>1, <1>2, <1>3 DEF Rest

LEMMA AskAgainKeeps == ASSUME IInv, NEW c \in Calls, AskAgain(c) PROVE Rest'
<1> USE DEF IInv, Domains
<1>1. /\ call[c].pc = "queued" /\ call'[c].pc = "again" /\ call'[c].token = jar
      /\ \A d \in Calls : d = c \/ call'[d] = call[d]
  BY DEF AskAgain, Holds, Call
<1>2. UNCHANGED <<webLocks, jar, head, aged, ended>>
  BY DEF AskAgain, Holds
<1>3. hist'.lost = hist.lost /\ (hist'.raced <=> hist.raced \/ Refreshing)
  <2>1. (hist.raced \/ Refreshing) \in BOOLEAN
    BY Zenon
  <2> QED BY <2>1 DEF AskAgain, Holds, Hist
<1>4. Unraced' => Unraced /\ ~Refreshing
  BY <1>2, <1>3 DEF AskAgain, Holds, MayWork, Unraced
<1>5. OneAtATime'
  BY <1>1, <1>4 DEF OneAtATime, Refreshing
<1>6. Issued'
  BY <1>1, <1>2 DEF Issued
<1>7. GivenTheNewest'
  BY <1>1, <1>2, <1>4 DEF GivenTheNewest, Answered
<1>8. JarIsCurrent'
  BY <1>1, <1>2, <1>3, <1>4 DEF JarIsCurrent
<1>9. AskedFirst'
  BY <1>1, <1>2 DEF AskedFirst, Live
<1> QED BY <1>5, <1>6, <1>7, <1>8, <1>9 DEF Rest

LEMMA RefusedAgainKeeps ==
    ASSUME IInv, NEW c \in Calls, Again(c), Unauthorized(c),
           call' = [call EXCEPT ![c].pc = "rotate", ![c].token = jar],
           UNCHANGED <<ended, jar, status, busy>>
    PROVE  Rest'
<1> USE DEF IInv, Domains
<1>1. /\ call[c].pc = "again" /\ call'[c].pc = "rotate" /\ call'[c].token = jar
      /\ call'[c].kind = call[c].kind
      /\ \A d \in Calls : d = c \/ call'[d] = call[d]
  BY DEF Again, Call
<1>2. UNCHANGED <<webLocks, jar, head, aged, ended, hist>>
  BY DEF Again
<1>3. OneAtATime'
  BY <1>1, <1>2 DEF OneAtATime, Unraced, InWork
<1>4. Issued'
  BY <1>1, <1>2 DEF Issued
<1>5. GivenTheNewest'
  BY <1>1, <1>2 DEF GivenTheNewest, Unraced, Answered
<1>6. JarIsCurrent'
  <2> SUFFICES ASSUME Unraced, ~hist.lost PROVE
        /\ \A d \in Calls : call'[d].pc # "orphan"
        /\ \A d \in Calls : call'[d].pc = "rotate" => call'[d].token \in {0, head}
        /\ jar \in {0, head}
    BY <1>2 DEF JarIsCurrent, Unraced
  <2>1. \A d \in Calls : ~(call[d].pc = "rotated")
    BY <1>1 DEF OneAtATime, InWork
  <2> QED BY <1>1, <2>1 DEF JarIsCurrent
<1>7. AskedFirst'
  <2>1. webLocks => jar \in {0, call[c].token}
    BY <1>1 DEF AskedFirst
  <2>2. webLocks /\ call[c].kind # "password" /\ Live(jar) => aged
    BY <2>1 DEF Unauthorized, Live
  <2> QED BY <1>1, <1>2, <2>2 DEF AskedFirst, Live
<1> QED BY <1>3, <1>4, <1>5, <1>6, <1>7 DEF Rest

\* The server issues a new token, to a call or to nobody.
LEMMA IssueKeeps ==
    ASSUME IInv, NEW c \in Calls, Spend(c), Live(call[c].token), head' = head + 1, aged' = FALSE,
           UNCHANGED <<ended, faults>>,
           \/ call[c].pc = "orphan" /\ call'[c] = Done
           \/ /\ call[c].pc = "rotate" /\ call'[c].pc = "rotated" /\ call'[c].got = "ok"
              /\ call'[c].token = head + 1,
           \A d \in Calls : d = c \/ call'[d] = call[d]
    PROVE  Rest'
<1> USE DEF IInv, Domains
<1>1. UNCHANGED <<webLocks, jar, hist>>
  BY DEF Spend, Mint
<1>2. Done.pc = "done" /\ Done.token <= head
  BY DoneIsSettled
<1>3. OneAtATime'
  BY <1>1, <1>2 DEF OneAtATime, Unraced, InWork
<1>4. \A d \in Calls : call[d].token \in Nat
  BY DEF Call
<1>5. Issued'
  <2>1. head >= 1 /\ jar <= head /\ \A d \in Calls : call[d].token <= head
    BY DEF Issued
  <2>2. call'[c].token <= head + 1
    <3>1. Done.token = 0
      BY MadeIsACall DEF Done
    <3> QED BY <3>1
  <2>3. \A d \in Calls : call'[d].token <= head + 1
    BY <1>4, <2>1, <2>2
  <2> QED BY <1>1, <2>1, <2>3 DEF Issued
<1>6. Unraced => \A d \in Calls : ~Answered(d)
  BY DEF Answered, OneAtATime, GivenTheNewest, InWork, Live
<1>7. GivenTheNewest'
  <2> SUFFICES ASSUME Unraced, NEW d \in Calls, Answered(d)'
               PROVE  /\ call'[d].token = head' /\ ~aged'
                      /\ \A e \in Calls : call'[e].pc = "orphan" => call'[e].token # head'
    BY <1>1 DEF GivenTheNewest, Unraced
  <2>1. d = c /\ call'[d].token = head + 1
    BY <1>2, <1>6 DEF Answered
  <2>2. \A e \in Calls : call'[e].pc = "orphan" => call'[e].token # head + 1
    BY <1>2, <1>4, <2>1 DEF Issued, Answered
  <2> QED BY <2>1, <2>2
<1>8. JarIsCurrent'
  <2> SUFFICES ASSUME Unraced, ~hist.lost PROVE
        /\ \A d \in Calls : call'[d].pc # "orphan"
        /\ \A d \in Calls : call'[d].pc # "rotate"
        /\ \E d \in Calls : call'[d].pc = "rotated" /\ call'[d].got = "ok"
    BY <1>1 DEF JarIsCurrent, Unraced
  <2>1. call[c].pc = "rotate"
    BY DEF JarIsCurrent
  <2> QED BY <2>1 DEF JarIsCurrent, OneAtATime, InWork
<1>9. AskedFirst'
  <2>1. \A d \in Calls : call'[d].pc \in {"rotate", "orphan"} => call'[d].token # head + 1
    BY <1>2, <1>4 DEF Issued
  <2>2. webLocks => \A d \in Calls : call'[d].pc = "again" => jar \in {0, call'[d].token}
    BY <1>2 DEF AskedFirst
  <2> QED BY <1>1, <2>1, <2>2 DEF AskedFirst, Live
<1> QED BY <1>3, <1>5, <1>7, <1>8, <1>9 DEF Rest

LEMMA SpendKeeps == ASSUME IInv, NEW c \in Calls, Spend(c) PROVE Rest'
<1> USE DEF IInv, Domains
<1>1. call[c].pc \in {"rotate", "orphan"} /\ UNCHANGED <<webLocks, jar, hist>>
  BY DEF Spend, Mint
<1>2. \A d \in Calls : d = c \/ call'[d] = call[d]
  BY DEF Spend, Mint
<1>3. Done.pc = "done" /\ Done.token <= head
  BY DoneIsSettled
<1>4. CASE Live(call[c].token) /\ head' = head + 1
  <2>1. call[c].token = head
    BY <1>4 DEF Live
  <2>2. /\ aged' = FALSE /\ UNCHANGED <<ended, faults>>
        /\ call' = [call EXCEPT ![c] = IF call[c].pc = "orphan" THEN Done
              ELSE [@ EXCEPT !.pc = "rotated", !.got = "ok", !.token = head + 1]]
    BY <1>4 DEF Spend, Mint
  <2>3. \/ call[c].pc = "orphan" /\ call'[c] = Done
        \/ /\ call[c].pc = "rotate" /\ call'[c].pc = "rotated" /\ call'[c].got = "ok"
           /\ call'[c].token = head + 1
    BY <1>1, <2>2 DEF Call
  <2> QED BY <1>2, <1>4, <2>2, <2>3, IssueKeeps
<1>5. CASE ~(Live(call[c].token) /\ head' = head + 1)
  <2>1. head' = head /\ aged' = aged /\ (ended => ended')
    BY <1>5 DEF Spend, Mint
  <2>2. \/ call[c].pc = "orphan" /\ call'[c] = Done
        \/ /\ call[c].pc = "rotate" /\ call'[c].pc = "rotated" /\ call'[c].got # "ok"
           /\ call'[c].token = call[c].token
    <3>1. PICK got \in {"refused", "failed"} :
            call' = [call EXCEPT ![c] =
                        IF call[c].pc = "orphan" THEN Done
                        ELSE [@ EXCEPT !.pc = "rotated", !.got = got, !.token = call[c].token]]
      BY <1>5 DEF Spend, Mint
    <3>2. call[c] \in Call
      OBVIOUS
    <3>3. CASE call[c].pc = "orphan"
      BY <3>1, <3>3
    <3>4. CASE call[c].pc = "rotate"
      BY <3>1, <3>2, <3>4 DEF Call
    <3> QED BY <1>1, <3>3, <3>4
  <2>3. Settles
    BY <1>1, <1>2, <1>3, <2>1, <2>2 DEF Settles, Settled
  <2> QED BY <2>3, SettlesKeeps DEF Rest
<1> QED BY <1>4, <1>5

LEMMA SucceededRotationKeeps ==
    ASSUME IInv, NEW c \in Calls, Rotated(c), call[c].got = "ok",
           call' = [call EXCEPT ![c].pc = "third", ![c].token = jar']
    PROVE  Rest'
<1> USE DEF IInv, Domains
<1>1. UNCHANGED <<webLocks, head, aged, ended, hist>>
  BY DEF Rotated
<1>2. jar' = call[c].token /\ call[c].pc = "rotated"
  BY DEF Rotated, JarAfter
<1>3. /\ call'[c].pc = "third" /\ call'[c].token = call[c].token
      /\ \A d \in Calls : d = c \/ call'[d] = call[d]
  BY <1>2 DEF Call
<1>4. OneAtATime'
  BY <1>1, <1>2, <1>3 DEF OneAtATime, Unraced, InWork
<1>5. Issued'
  BY <1>1, <1>2, <1>3 DEF Issued
<1>6. Answered(c)
  BY <1>2 DEF Answered
<1>7. GivenTheNewest'
  BY <1>1, <1>2, <1>3, <1>6 DEF GivenTheNewest, Unraced, Answered
<1>8. JarIsCurrent'
  BY <1>1, <1>2, <1>3, <1>6 DEF JarIsCurrent, GivenTheNewest, Unraced
<1>9. AskedFirst'
  <2>1. webLocks => \A d \in Calls : call'[d].pc # "again"
    BY <1>2, <1>3 DEF OneAtATime, Unraced, InWork
  <2> QED BY <1>1, <1>3, <2>1 DEF AskedFirst, Live
<1> QED BY <1>4, <1>5, <1>7, <1>8, <1>9 DEF Rest

LEMMA StepIInv == ASSUME IInv, [Next]_bvars PROVE IInv'
<1>1. Domains'
  BY StepDomains DEF IInv
<1>2. ASSUME Settles PROVE Rest'
  BY <1>2, SettlesKeeps DEF Rest
<1>3. ASSUME Age PROVE Rest'
  BY <1>3, AgeKeeps
<1>4. ASSUME \/ EndElsewhere \/ UNCHANGED bvars \/ \E b \in Tabs : Expire(b)
             \/ \E c \in Calls : First(c) \/ Third(c) \/ \E kind \in Kinds : Begin(c, kind)
      PROVE  Rest'
  BY <1>2, <1>4, SettlingSteps
<1>5. ASSUME NEW c \in Calls, AskAgain(c) PROVE Rest'
  BY <1>5, AskAgainKeeps
<1>6. ASSUME NEW c \in Calls, Again(c) PROVE Rest'
  <2>1. CASE Succeeds(c)
    BY <1>2, <1>6, <2>1, SettlingSteps
  <2> QED BY <1>6, <2>1, RefusedAgainKeeps DEF Again
<1>7. ASSUME NEW c \in Calls, Spend(c) PROVE Rest'
  BY <1>7, SpendKeeps
<1>8. ASSUME NEW c \in Calls, Rotated(c) PROVE Rest'
  <2>1. CASE call[c].got # "ok"
    <3>1. GiveUp(c)
      BY <1>8, <2>1, Zenon DEF Rotated
    <3> QED BY <1>2, <1>8, <2>1, <3>1, SettlingSteps
  <2>2. CASE call[c].got = "ok"
    <3>1. call' = [call EXCEPT ![c].pc = "third", ![c].token = jar']
      BY <1>8, <2>2 DEF Rotated
    <3> QED BY <1>8, <2>2, <3>1, SucceededRotationKeeps
  <2> QED BY <2>1, <2>2
<1>9. ASSUME NEW c \in Calls, Break(c) PROVE Rest'
  <2>1. PICK kept \in SUBSET Sent({c}) : call' = GivenUp({c}, kept)
    BY <1>9, Zenon DEF Break
  <2>2. hist' = [hist EXCEPT !.lost = @ \/ RotationOf({c})]
    BY <1>9, Zenon DEF Break
  <2>3. UNCHANGED <<webLocks, jar, head, aged, ended>>
    BY <1>9, Zenon DEF Break
  <2> QED BY <1>2, <2>1, <2>2, <2>3, GivingUpSettles
<1>10. ASSUME NEW b \in Tabs, Close(b) PROVE Rest'
  <2> DEFINE mine == {c \in Calls : c[1] = b}
  <2>1. PICK kept \in SUBSET Sent(mine) : call' = GivenUp(mine, kept)
    BY <1>10, Zenon DEF Close
  <2>2. hist' = [hist EXCEPT !.lost = @ \/ RotationOf(mine)]
    BY <1>10, Zenon DEF Close
  <2>3. UNCHANGED <<webLocks, jar, head, aged, ended>>
    BY <1>10, Zenon DEF Close
  <2>4. mine \in SUBSET Calls
    BY Zenon
  <2> HIDE DEF mine
  <2> QED BY <1>2, <2>1, <2>2, <2>3, <2>4, GivingUpSettles
<1>11. Rest'
  BY <1>3, <1>4, <1>5, <1>6, <1>7, <1>8, <1>9, <1>10 DEF Next, Proceed
<1> QED BY <1>1, <1>11 DEF IInv, Rest

LEMMA Invariance == Spec => []IInv
  BY InitIInv, StepIInv, PTL DEF Spec

-----------------------------------------------------------------------------
(* Theorems.                                                                *)

\* The cookie jar, the server and every call keep their types, and no token is
\* held that was not issued.
THEOREM BrowserTypes == Spec => []TypeOK
<1>1. IInv => TypeOK
  BY DEF IInv, Issued, TypeOK
<1> QED BY <1>1, Invariance, PTL

\* serialize, the lock and waitForPeer (http.ts:92-155): with any number of tabs
\* and calls, a spent token is sent again only after a rotation's answer was
\* lost or, without Web Locks, two calls got past the wait at once.
THEOREM NoReuseByItself == Spec => []ReuseMeansLossOrRace
<1>1. ASSUME IInv PROVE ReuseMeansLossOrRace
  <2> SUFFICES ASSUME NEW c \in Calls, call[c].pc \in {"rotate", "orphan"},
                      call[c].token \in 1..(head - 1), ~hist.lost, Unraced
               PROVE  FALSE
    BY DEF ReuseMeansLossOrRace, Unraced
  <2>1. call[c].pc = "rotate" /\ call[c].token \in {0, head}
    BY <1>1 DEF IInv, JarIsCurrent
  <2> QED BY <1>1, <2>1 DEF IInv, Domains
<1> QED BY <1>1, Invariance, PTL

\* The re-check under the lock (http.ts:188-193): a rotation is for an access
\* token that has run out, or for a wrong password.
THEOREM EveryRotationIsNeeded == Spec => NoSpareRotation
<1>1. ASSUME IInv, [Next]_bvars, webLocks, head' # head
      PROVE  aged \/ \E c \in Calls : call[c].kind = "password" /\ call'[c] # call[c]
  <2>1. PICK c \in Calls : Spend(c)
    <3>1. ASSUME NEW c \in Calls, First(c) \/ AskAgain(c) \/ Again(c) \/ Rotated(c) \/ Third(c)
                   \/ Break(c) \/ \E kind \in Kinds : Begin(c, kind)
          PROVE  head' = head
      BY <3>1, Zenon DEF First, AskAgain, Holds, Again, Rotated, Third, Break, Begin
    <3>2. ASSUME NEW b \in Tabs, Close(b) \/ Expire(b) PROVE head' = head
      BY <3>2, Zenon DEF Close, Expire
    <3>3. ASSUME Age \/ EndElsewhere \/ UNCHANGED bvars PROVE head' = head
      BY <3>3, Zenon DEF Age, EndElsewhere, bvars
    <3> QED BY <1>1, <3>1, <3>2, <3>3, Zenon DEF Next, Proceed
  <2>2. Live(call[c].token) /\ call[c].pc \in {"rotate", "orphan"}
    BY <1>1, <2>1 DEF Spend, Mint
  <2>3. CASE call[c].kind # "password"
    BY <1>1, <2>2, <2>3 DEF IInv, AskedFirst
  <2>4. CASE call[c].kind = "password"
    <3>1. call'[c].pc \notin {"rotate", "orphan"}
      <4>1. Done.pc = "done" /\ call \in [Calls -> Call]
        BY <1>1, DoneIsSettled DEF IInv, Domains
      <4>2. \E a, t : call' = [call EXCEPT ![c] = IF call[c].pc = "orphan" THEN Done
                       ELSE [@ EXCEPT !.pc = "rotated", !.got = a, !.token = t]]
        BY <2>1, Zenon DEF Spend, Mint
      <4> QED BY <4>1, <4>2 DEF Call
    <3> QED BY <2>2, <2>4, <3>1
  <2> QED BY <2>3, <2>4
<1>2. IInv /\ [Next]_bvars =>
        (webLocks /\ head' # head =>
           aged \/ \E c \in Calls : call[c].kind = "password" /\ call'[c] # call[c])
  BY <1>1
<1> QED BY <1>2, Invariance, PTL DEF Spec, NoSpareRotation

\* The guards around session-lost (http.ts:195-200, SessionProvider.tsx:68-71):
\* a tab that is sent to the login screen has lost its session, or has met a
\* wrong password, a failure or a race.
THEOREM NobodyIsSignedOutForNothing == Spec => SignedOutHasAReason
<1> DEFINE Reason(b) ==
         \/ ended \/ jar' = 0 \/ (~webLocks /\ hist.raced)
         \/ \E c \in Calls : /\ c[1] = b /\ call[c] # call'[c]
                             /\ call[c].kind = "password" \/ call[c].got = "failed"
<1>1. ASSUME IInv, [Next]_bvars, NEW b \in Tabs, status'[b] = "out", status[b] # "out"
      PROVE  Reason(b)
  <2> USE <1>1 DEF IInv, Domains
  <2>1. PICK c \in Calls : GiveUp(c) /\ (Rotated(c) \/ Third(c)) /\ c[1] = b
    <3>1. ASSUME NEW c \in Calls, Ends(c, FALSE) PROVE FALSE
      BY <3>1, TabOfCall DEF Ends
    <3>2. ASSUME NEW c \in Calls, Ends(c, TRUE) PROVE c[1] = b
      BY <3>2, TabOfCall DEF Ends
    <3>3. ASSUME NEW c \in Calls, AskAgain(c) \/ Spend(c) \/ \E kind \in Kinds : Begin(c, kind)
          PROVE  FALSE
      BY <3>3, Zenon DEF AskAgain, Holds, Spend, Mint, Begin
    <3>4. ASSUME NEW c \in Calls, First(c) \/ Again(c) \/ Break(c) PROVE FALSE
      BY <3>1, <3>4, Zenon DEF First, Again, Break, Succeeds
    <3>5. ASSUME NEW c \in Calls, Rotated(c) \/ Third(c) PROVE GiveUp(c) /\ c[1] = b
      <4>1. GiveUp(c)
        BY <3>1, <3>5, Zenon DEF Rotated, Third, Succeeds
      <4> QED BY <3>2, <4>1 DEF GiveUp
    <3>6. ASSUME NEW d \in Tabs, Close(d) PROVE FALSE
      BY <3>6 DEF Close
    <3>7. ASSUME NEW d \in Tabs, Expire(d) PROVE FALSE
      BY <3>7, Zenon DEF Expire
    <3>8. ASSUME Age \/ EndElsewhere \/ UNCHANGED bvars PROVE FALSE
      BY <3>8, Zenon DEF Age, EndElsewhere, bvars
    <3> QED BY <3>3, <3>4, <3>5, <3>6, <3>7, <3>8, Zenon DEF Next, Proceed
  <2>2. call'[c] # call[c]
    <3>1. call'[c].pc = "done"
      BY <2>1, DoneIsSettled DEF GiveUp
    <3> QED BY <2>1, <3>1 DEF Rotated, Third
  <2>3. CASE Rotated(c)
    <3>1. call[c].got # "ok" /\ jar' = JarAfter(c)
      <4>1. status' # status
        OBVIOUS
      <4> QED BY <2>3, <4>1 DEF Rotated
    <3>2. CASE call[c].got = "refused"
      BY <3>1, <3>2 DEF JarAfter
    <3>3. CASE call[c].got = "failed"
      BY <2>1, <2>2, <3>3
    <3> QED BY <3>1, <3>2, <3>3 DEF Call
  <2>4. CASE Third(c)
    <3>1. Unauthorized(c)
      <4>1. ~Ends(c, FALSE)
        BY TabOfCall DEF Ends
      <4> QED BY <2>4, <4>1, Zenon DEF Third, Succeeds
    <3>2. CASE call[c].kind = "password"
      BY <2>1, <2>2, <3>2
    <3>3. CASE Unraced /\ ~(Live(call[c].token) /\ ~aged)
      <4>1. call[c].token = head /\ ~aged /\ head >= 1
        BY <2>4, <3>3 DEF Third, GivenTheNewest, Answered, Issued
      <4> QED BY <3>3, <4>1 DEF Live
    <3> QED BY <3>1, <3>2, <3>3 DEF Unauthorized, Unraced
  <2> QED BY <2>1, <2>3, <2>4
<1>2. IInv /\ [Next]_bvars => \A b \in Tabs : status'[b] = "out" /\ status[b] # "out" => Reason(b)
  BY <1>1
<1> QED BY <1>2, Invariance, PTL DEF Spec, SignedOutHasAReason

=============================================================================
