-------------------------- MODULE MCChargeControl --------------------------
(* Six minutes, an uptime counter that wraps within them, two windows (one *)
(* of them possibly running when it arrives), timed and untimed pauses, a  *)
(* TIME_SYNC that may be one unit late, and a latch of two units.          *)
EXTENDS ChargeControl

MCWindows == {[start |-> 3, end |-> 4], [start |-> 5, end |-> 5]}

(* What the build does: the timer job cuts in anywhere.                    *)
Anywhere == Threads \X Points
=============================================================================
