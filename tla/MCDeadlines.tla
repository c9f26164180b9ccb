---------------------------- MODULE MCDeadlines ----------------------------
(* Deadlines for TLC: two prepayment workers contend for one order's         *)
(* timeout, a third worker has the pickup timeout.                           *)
EXTENDS Deadlines, TLC

CONSTANTS w1, w2, w3, order, pickup

MCServes == w1 :> {order} @@ w2 :> {order} @@ w3 :> {pickup}
=============================================================================
