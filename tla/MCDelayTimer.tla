---------------------------- MODULE MCDelayTimer ----------------------------
(* A few ticks on either side of a wrap of the millisecond clock.            *)
EXTENDS DelayTimer
=============================================================================
