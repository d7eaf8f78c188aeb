---------------------------- MODULE MCArrivalRate ----------------------------
(* ArrivalRate on small instances.                                         *)
EXTENDS ArrivalRate
=============================================================================
