----------------------------- MODULE MCBrowser -----------------------------
(* Two tabs; one of them makes two calls.                                   *)
EXTENDS Browser

CONSTANTS b1, b2
MCTabs == {b1, b2}
MCCalls == {<<b1, 1>>, <<b1, 2>>, <<b2, 1>>}
=============================================================================
