------------------------------ MODULE MCFanOut ------------------------------
(* Six units: 4 waits for 2 and 3, and 2 for 1; the scopes of 3 and 5 meet, *)
(* and those of 1 and 6.  Up to three could run at once.                    *)
EXTENDS FanOut

ADiamond ==
    [u \in Units |-> CASE u = 2 -> {1} [] u = 4 -> {2, 3} [] OTHER -> {}]

SharedScopes ==
    [u \in Units |-> CASE u = 3 -> {5} [] u = 5 -> {3} [] u = 1 -> {6} [] u = 6 -> {1}
                       [] OTHER -> {}]
=============================================================================
