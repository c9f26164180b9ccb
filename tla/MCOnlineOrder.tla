--------------------------- MODULE MCOnlineOrder ---------------------------
(* OnlineOrder for TLC: one order with every failure, or two orders that     *)
(* contend for one drawer.                                                   *)
EXTENDS OnlineOrder, TLC

Symmetry == Permutations(Orders)

\* The bounds of the second: the creations succeed, no worker dies, nothing is
\* retried, and the customers cancel at most one of the orders.
Contention ==
    /\ \A o \in Orders : /\ creating[o] \in {"reserve", "persist", "register", "answered"}
                         /\ comp[<<"retry", o>>] = NotCompensating
    /\ asked # Orders
    /\ stranded = {} /\ \A w \in Workers : wpc[w] \notin {"raised", "failing"}
=============================================================================
