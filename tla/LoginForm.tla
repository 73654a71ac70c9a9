----------------------------- MODULE LoginForm -----------------------------
(***************************************************************************)
(* One person at the login form, through the browser's session client      *)
(* (sendWithSession in frontend/src/api/http.ts), composed with the        *)
(* throttle.  The client takes every 401 for an expired access token: it   *)
(* sends the request again under the refresh lock, then rotates, and if    *)
(* the rotation succeeds sends it once more.  For a login the 401 means a  *)
(* wrong password.                                                         *)
(***************************************************************************)
EXTENDS Throttle

CONSTANTS
    HasSession,     \* whether the browser still holds a refresh cookie that works
    MaxSubmits      \* bound on the submissions in a row

VARIABLE
    form    \* the submission under way: whose it is, which of its requests is
            \* out, what the last one was answered; and, as history, how many
            \* submissions there have been since the last success and whether one
            \* was refused

fvars == <<tvars, form>>

FormInit ==
    /\ Init
    /\ form = [caller |-> NoCaller, sent |-> "nothing", answer |-> "none",
               mistyped |-> 0, refused |-> FALSE]

\* One tab, whose requests follow each other: one caller and one thread.
Send(which, t, c) ==
    /\ Arrive(t, c)
    /\ form' = [form EXCEPT !.caller = c, !.sent = which, !.answer = "none"]

Submit(t, c) ==
    /\ form.sent = "nothing"
    /\ form.mistyped < MaxSubmits
    /\ Send("first", t, c)

\* The server's side.  The answer leaves when the handler is over, which the
\* client's steps wait for.
Handled(t) ==
    \/ ReadPair(t) /\ UNCHANGED form
    \/ ReadWide(t) /\ UNCHANGED form
    \/ Prune(t) /\ UNCHANGED form
    \/ SkipPrune(t) /\ UNCHANGED form
    \/ RecordBlocked(t) /\ form' = [form EXCEPT !.answer = "refused"]
    \/ RecordFailure(t) /\ form' = [form EXCEPT !.answer = "wrong"]
    \/ RecordSuccess(t) /\ form' = [form EXCEPT !.answer = "ok"]
    \/ Crash(t) /\ form' = [form EXCEPT !.answer = "lost"]

Answered(a) ==
    /\ \A t \in Threads : req[t].pc = "idle"
    /\ form.sent # "nothing"
    /\ form.answer = a

\* A 401 to the first request: ask again before rotating.
SendAgain(t) ==
    /\ Answered("wrong") /\ form.sent = "first"
    /\ Send("again", t, form.caller)

\* A 401 to the second: rotate, and send a third time if that worked.
SendThird(t) ==
    /\ Answered("wrong") /\ form.sent = "again" /\ HasSession
    /\ Send("third", t, form.caller)

Shown(answer) ==
    /\ form' = [form EXCEPT !.sent = "nothing",
                            !.mistyped = IF answer = "ok" THEN 0 ELSE @ + 1,
                            !.refused = @ \/ answer = "refused"]
    /\ UNCHANGED tvars

\* The last answer reaches the form: the person sees it and may try again.
ShowAnswer ==
    \/ \E a \in {"ok", "refused", "lost"} : Answered(a) /\ Shown(a)
    \/ /\ Answered("wrong")
       /\ form.sent = "third" \/ (form.sent = "again" /\ ~HasSession)
       /\ Shown("wrong")

FormNext ==
    \/ \E t \in Threads, c \in Callers : Submit(t, c)
    \/ \E t \in Threads : SendAgain(t) \/ SendThird(t) \/ Handled(t)
    \/ ShowAnswer
    \/ Tick /\ UNCHANGED form

FormSpec == FormInit /\ [][FormNext]_fvars

-----------------------------------------------------------------------------

\* Mistyping a password two or three times is not met with a refusal
\* (throttle.py: five, "because people mistype a password two or three times and
\* this must not be a wall ordinary use runs into").  mistyped counts
\* every submission since the last success, the refused one included.
MistypingIsNotAWall == form.refused => form.mistyped > 3

=============================================================================
