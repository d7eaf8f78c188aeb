----------------------------- MODULE RpsLimiter -----------------------------
(***************************************************************************)
(* RpsLimiter (crates/tropel-http/src/rps.rs): the global `rps` option.    *)
(* Every hop of every VU's request reserves a slot with a compare-exchange *)
(* loop over one shared timestamp and then sleeps until it.  The clock is  *)
(* read before the timestamp, so both may be stale when the exchange is    *)
(* tried.  Time is in units of nanoseconds since `base`.                   *)
(***************************************************************************)
EXTENDS Integers

CONSTANTS
  Caller,      \* requests that may wait at once
  Interval,    \* interval, 0 when the rate is not positive or not finite
  MaxU64,      \* u64::MAX, where the additions saturate
  MaxTime      \* bound on the clock

ASSUME RpsAssumption ==
  Interval \in Nat /\ MaxU64 \in Nat /\ MaxTime \in 0..MaxU64

VARIABLES
  clock,       \* base.elapsed()
  nextSlot,    \* next_slot_ns
  stage,       \* where each caller is in acquire
  nowRead,     \* now_ns, as it read it
  slotRead,    \* slot, as it read it
  claim        \* the start it reserved last, -1 if none

rpsVars == <<clock, nextSlot, stage, nowRead, slotRead, claim>>

Stage == {"idle", "load", "exchange", "sleep", "start"}

RpsTypeOK ==
  /\ clock \in 0..MaxTime /\ nextSlot \in 0..MaxU64
  /\ stage \in [Caller -> Stage]
  /\ nowRead \in [Caller -> 0..MaxTime] /\ slotRead \in [Caller -> 0..MaxU64]
  /\ claim \in [Caller -> -1..MaxU64]

RpsInit ==
  /\ clock = 0 /\ nextSlot = 0
  /\ stage = [c \in Caller |-> "idle"]
  /\ nowRead = [c \in Caller |-> 0] /\ slotRead = [c \in Caller |-> 0]
  /\ claim = [c \in Caller |-> -1]

To(c, s) == stage' = [stage EXCEPT ![c] = s]

\* Mutant: an addition that does not saturate.
PlainAdd(m, n) == m + n

\* saturating_add
SatAdd(m, n) == IF m + n > MaxU64 THEN MaxU64 ELSE m + n

\* The later of the slot and the present, both as the caller read them.
Claim(c) == IF slotRead[c] > nowRead[c] THEN slotRead[c] ELSE nowRead[c]

\* A zero interval never waits, and the clock is read first.
Enter(c) ==
  /\ stage[c] \in {"idle", "start"}
  /\ IF Interval = 0
       THEN To(c, "start") /\ UNCHANGED nowRead
       ELSE To(c, "load") /\ nowRead' = [nowRead EXCEPT ![c] = clock]
  /\ UNCHANGED <<clock, nextSlot, slotRead, claim>>

LoadSlot(c) ==
  /\ stage[c] = "load" /\ To(c, "exchange")
  /\ slotRead' = [slotRead EXCEPT ![c] = nextSlot]
  /\ UNCHANGED <<clock, nextSlot, nowRead, claim>>

\* Mutant: a store instead of the exchange.
StoreSlot(c) ==
  /\ stage[c] = "exchange"
  /\ nextSlot' = SatAdd(Claim(c), Interval)
  /\ claim' = [claim EXCEPT ![c] = Claim(c)]
  /\ To(c, "sleep")
  /\ UNCHANGED <<clock, nowRead, slotRead>>

\* compare_exchange_weak succeeds ...
Reserve(c) ==
  /\ stage[c] = "exchange" /\ nextSlot = slotRead[c]
  /\ nextSlot' = SatAdd(Claim(c), Interval)
  /\ claim' = [claim EXCEPT ![c] = Claim(c)]
  /\ To(c, "sleep")
  /\ UNCHANGED <<clock, nowRead, slotRead>>

\* ... or fails, because the slot moved or for no reason, and both are read again.
Retry(c) ==
  /\ stage[c] = "exchange" /\ To(c, "load")
  /\ nowRead' = [nowRead EXCEPT ![c] = clock]
  /\ UNCHANGED <<clock, nextSlot, slotRead, claim>>

\* The sleep lasts until the claim at least.
Start(c) ==
  /\ stage[c] = "sleep" /\ clock >= claim[c] /\ To(c, "start")
  /\ UNCHANGED <<clock, nextSlot, nowRead, slotRead, claim>>

Tick ==
  /\ clock < MaxTime /\ clock' = clock + 1
  /\ UNCHANGED <<nextSlot, stage, nowRead, slotRead, claim>>

RpsNext ==
  \/ Tick
  \/ \E c \in Caller : Enter(c) \/ LoadSlot(c) \/ Reserve(c) \/ Retry(c) \/ Start(c)

RpsSpec == RpsInit /\ [][RpsNext]_rpsVars

-----------------------------------------------------------------------------
(* Properties.                                                             *)

\* No two requests are given starts less than an interval apart, however their
\* loops interleave, until the timestamp saturates.
SlotsSpaced ==
  \A c, d \in Caller :
    c # d /\ claim[c] \in 0..(MaxU64 - 1) /\ claim[d] \in 0..(MaxU64 - 1) =>
      claim[c] >= claim[d] + Interval \/ claim[d] >= claim[c] + Interval
=============================================================================
