---------------------------- MODULE MCRampingVus ----------------------------
(* RampingVus on small instances.                                          *)
EXTENDS RampingVus

\* A hold, which is all of run_constant, a ramp-down and a ramp-up.
HoldDownUp == <<1, 0, 2>>

\* One ramp-down.
Down == <<1>>
=============================================================================
