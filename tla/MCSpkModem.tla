------------------------------ MODULE MCSpkModem ---------------------------
(* Instances of SpkModem: a square wave, with short frames. *)
EXTENDS SpkModem

TwoSamples == {0, 2, -2}
=============================================================================
