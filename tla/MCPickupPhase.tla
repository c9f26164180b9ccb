--------------------------- MODULE MCPickupPhase ---------------------------
(* PickupPhase for TLC: an online order and a kiosk order, one after the      *)
(* other or both at once, and one drawer.                                     *)
EXTENDS PickupPhase, TLC

NoKioskOrder == \A k \in Kiosk : order[k] = None
NotRedeeming(S) == \A o \in Online, r \in S : redeeming[o, r] = "idle"

\* The bounds: cancellations are under way only while there is no kiosk order; it may
\* be booked once they have ended, while no token is redeemed.  A second redemption of
\* a token runs only while there is neither a kiosk order nor a cancellation.
Bounds ==
    /\ cancelling # {} => NoKioskOrder
    /\ withdrawn # {} => NoKioskOrder \/ NotRedeeming(Attempts)
    /\ NotRedeeming(Attempts \ {1}) \/ (NoKioskOrder /\ cancelling = {} /\ withdrawn = {})
=============================================================================
