---------------------------- MODULE ArrivalLedger ----------------------------
(***************************************************************************)
(* What an arrival-rate executor promises: every arrival that fell due is  *)
(* queued, started or counted as dropped, each exactly once; the queue is  *)
(* bounded; and a drop is reported exactly once.                           *)
(***************************************************************************)
EXTENDS Integers

CONSTANT Cap   \* the size of the token bucket

VARIABLES
  due,         \* arrivals issued so far
  queued,      \* of them, waiting for a VU
  started,     \* of them, started as an iteration
  lost,        \* of them, dropped and not yet reported
  reported     \* of them, dropped and reported in a dropped_iterations sample

ledger == <<due, queued, started, lost, reported>>

Init == due = 0 /\ queued = 0 /\ started = 0 /\ lost = 0 /\ reported = 0

\* Arrivals fall due; what does not go into the bucket is dropped.
Arrive ==
  /\ due' > due
  /\ queued' \in queued..Cap
  /\ lost' >= lost
  /\ due' - due = (queued' - queued) + (lost' - lost)
  /\ UNCHANGED <<started, reported>>

Start ==
  /\ queued > 0
  /\ queued' = queued - 1
  /\ started' = started + 1
  /\ UNCHANGED <<due, lost, reported>>

Report ==
  /\ reported' = reported + lost
  /\ lost' = 0
  /\ UNCHANGED <<due, queued, started>>

Next == Arrive \/ Start \/ Report

Spec == Init /\ [][Next]_ledger
=============================================================================
