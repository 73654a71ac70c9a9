---------------------------- MODULE TokenLedger ----------------------------
(***************************************************************************)
(* What rotation promises about refresh tokens, without requests, locks,   *)
(* passwords or time (docs/T07-ARCHITECTURE.md section 4): a login has at  *)
(* most one usable token at a time; it is replaced only by a token never   *)
(* seen before; and a login that has lost its token never gets another.    *)
(***************************************************************************)
CONSTANT Sids        \* tokens; a login is named by its first one

VARIABLES
    issued,          \* every token ever handed out
    heads            \* the usable tokens of each login

lvars == <<issued, heads>>

Init ==
    /\ issued = {}
    /\ heads = [f \in Sids |-> {}]

\* Someone logs in.
Open(f) ==
    /\ issued' = issued \cup {f}
    /\ heads' = [heads EXCEPT ![f] = {f}]

\* The usable token of a login is exchanged for a new one.
Rotate(f, n) ==
    /\ heads[f] # {}
    /\ issued' = issued \cup {n}
    /\ heads' = [heads EXCEPT ![f] = {n}]

\* Some logins end: one, a family, or all of an account.
End ==
    /\ heads' \in [Sids -> SUBSET Sids]
    /\ \A f \in Sids : heads'[f] \in {heads[f], {}}
    /\ UNCHANGED issued

Next ==
    \/ \E n \in Sids \ issued : Open(n) \/ \E f \in issued : Rotate(f, n)
    \/ End

Spec == Init /\ [][Next]_lvars

=============================================================================
