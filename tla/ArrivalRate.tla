----------------------------- MODULE ArrivalRate -----------------------------
(***************************************************************************)
(* VUScheduler::run_arrival_rate and run_ramping_arrival_rate: a ticker    *)
(* turns elapsed time into arrival tokens, VUs take them, and the pool     *)
(* grows under pressure.  The two executors share everything but the curve *)
(* from elapsed time to due arrivals, which is a choice here; likewise     *)
(* ArrivalStripe::due_by only selects which arrivals are this node's.      *)
(***************************************************************************)
EXTENDS VuPool

CONSTANTS
  PreAlloc,    \* pre_alloc_vus
  MaxVus,      \* max_vus, also the size of the token bucket
  SpawnBurst,  \* MAX_SPAWN_PER_TICK
  MaxArrivals  \* bound on the arrivals of a run

ASSUME ArrivalAssumption ==
  /\ PreAlloc \in Nat /\ MaxVus \in Nat /\ SpawnBurst \in Nat \ {0}
  /\ MaxArrivals \in Nat

VARIABLES
  tokens,      \* arrival_tokens
  dropped,     \* arrival_dropped
  idle,        \* idle_vus
  held,        \* the token count a VU loaded, 0 when none
  cur,         \* current_vus
  toAdd,       \* arrivals that fell due in this tick
  loaded,      \* the token count the ticker loaded
  due,         \* last_target: arrivals issued
  started,     \* iterations started
  reported     \* the sum of the dropped_iterations samples

bucket == <<tokens, dropped, idle, held>>
ticker == <<cur, toAdd, loaded, due>>
tally == <<started, reported>>
arrVars == <<bucket, ticker, tally>>
vars == <<poolVars, arrVars>>

TickState == {"tick", "add", "queued", "grow", "reap"}
CtlState == TickState \cup {"start", "stopping", "drain", "join", "done", "flushed"}

AtLeastOne(n) == IF n > 1 THEN n ELSE 1
Lower(a, b) == IF a < b THEN a ELSE b

TypeOK ==
  /\ PoolTypeOK
  /\ ctl \in CtlState
  /\ tokens \in Nat /\ dropped \in Nat /\ idle \in Nat
  /\ held \in [Task -> Nat]
  /\ cur \in Nat /\ toAdd \in Nat /\ loaded \in Nat
  /\ due \in 0..MaxArrivals
  /\ started \in Nat /\ reported \in Nat

Init ==
  /\ PoolInit
  /\ ctl = "start"
  /\ tokens = 0 /\ dropped = 0 /\ idle = 0
  /\ held = [t \in Task |-> 0]
  /\ cur = 0 /\ toAdd = 0 /\ loaded = 0 /\ due = 0
  /\ started = 0 /\ reported = 0

-----------------------------------------------------------------------------
(* The ticker.                                                             *)

Spawned(p, n) ==
  {[t \in Task |-> IF t \in T THEN "spawned" ELSE p[t]] :
     T \in {S \in SUBSET {t \in Task : p[t] = "free"} : Cardinality(S) = n}}

PreSpawn ==
  /\ ctl = "start" /\ ctl' = "tick"
  /\ pc' \in Spawned(pc, AtLeastOne(PreAlloc))
  /\ cur' = AtLeastOne(PreAlloc)
  /\ UNCHANGED <<seen, deaths, active, flags, rdVars, spawned, paused, aborted>>
  /\ UNCHANGED <<bucket, tally, toAdd, loaded, due>>

\* run_ramping_arrival_rate returns at once if its stages last no time at all.
NothingToRun ==
  /\ ctl = "start" /\ ctl' = "done"
  /\ UNCHANGED <<vuVars, active, flags, rdVars, spawned, paused, aborted, arrVars>>

\* The duration is over, or a stop was requested.
LeaveTicks ==
  /\ ctl = "tick" /\ ctl' = "stopping"
  /\ UNCHANGED <<vuVars, active, flags, rdVars, spawned, paused, aborted, arrVars>>

\* A tick: n more arrivals are due; if any, load the token count.
Tick ==
  /\ ctl = "tick" /\ ~stop
  /\ \E n \in 0..MaxArrivals - due :
       /\ toAdd' = n
       /\ ctl' = IF n > 0 THEN "add" ELSE "queued"
       /\ loaded' = IF n > 0 THEN tokens ELSE 0
  /\ UNCHANGED <<vuVars, active, flags, rdVars, spawned, paused, aborted>>
  /\ UNCHANGED <<bucket, tally, cur, due>>

\* Add what fits into the bucket as it was loaded, drop the rest.
AddTokens ==
  /\ ctl = "add" /\ ctl' = "queued"
  /\ tokens' = tokens + Lower(toAdd, SatSub(MaxVus, loaded))
  /\ dropped' = dropped + SatSub(toAdd, SatSub(MaxVus, loaded))
  /\ due' = due + toAdd
  /\ toAdd' = 0 /\ loaded' = 0
  /\ UNCHANGED <<vuVars, active, flags, rdVars, spawned, paused, aborted>>
  /\ UNCHANGED <<idle, held, tally, cur>>

\* grow_arrival_pool: load the token count ...
LoadQueued ==
  /\ ctl = "queued" /\ ctl' = "grow"
  /\ loaded' = tokens
  /\ UNCHANGED <<vuVars, active, flags, rdVars, spawned, paused, aborted>>
  /\ UNCHANGED <<bucket, tally, cur, toAdd, due>>

\* Mutant: no growth while any VU is idle.
PressureIfNoneIdle ==
  IF loaded = 0 \/ idle # 0 \/ cur >= MaxVus
    THEN 0 ELSE Lower(Lower(MaxVus - cur, loaded - idle), SpawnBurst)

\* ... then the idle count, and spawn for the tokens nobody is idle for.
GrowBy ==
  IF loaded = 0 \/ loaded <= idle \/ cur >= MaxVus
    THEN 0 ELSE Lower(Lower(MaxVus - cur, loaded - idle), SpawnBurst)

Grow ==
  /\ ctl = "grow" /\ ctl' = "reap"
  /\ pc' \in Spawned(pc, GrowBy)
  /\ cur' = cur + GrowBy
  /\ loaded' = 0
  /\ UNCHANGED <<seen, deaths, active, flags, rdVars, spawned, paused, aborted>>
  /\ UNCHANGED <<bucket, tally, toAdd, due>>

\* Mutant: the finished handles are dropped and nobody takes their place.
ReapOnly(p) == [t \in Task |-> IF p[t] = "finished" THEN "free" ELSE p[t]]

\* One new VU for each finished handle.
Respawned(p) == [t \in Task |-> IF p[t] = "finished" THEN "spawned" ELSE p[t]]

\* reap_and_respawn, at most every 100 ms.  No ramp-down is ever armed here.
ReapTick ==
  /\ ctl = "reap" /\ ctl' = "tick"
  /\ pc' \in IF Stopping THEN {pc} ELSE {pc, Respawned(pc)}
  /\ UNCHANGED <<seen, deaths, active, flags, rdVars, spawned, paused, aborted, arrVars>>

Ticker ==
  \/ PreSpawn \/ NothingToRun \/ LeaveTicks \/ Tick \/ AddTokens \/ LoadQueued
  \/ Grow \/ ReapTick

-----------------------------------------------------------------------------
(* The VU's wait for a token.                                              *)

\* Past the gate, the IdleVusGuard marks the VU idle.
BeginWait(t) ==
  /\ PassGate(t, "wait")
  /\ idle' = IF pc'[t] = "wait" THEN idle + 1 ELSE idle
  /\ UNCHANGED <<tokens, dropped, held, ticker, tally>>

\* A stop ends the wait; the guard marks the VU busy.
StopWaiting(t) ==
  /\ pc[t] = "wait" /\ held[t] = 0 /\ Stopping
  /\ Goto(t, "exit")
  /\ idle' = SatDec(idle)
  /\ UNCHANGED <<seen, deaths, active, flags, rdVars, spawned, paused, ctlVars>>
  /\ UNCHANGED <<tokens, dropped, held, ticker, tally>>

\* try_acquire_arrival_token: load the count ...
LoadTokens(t) ==
  /\ pc[t] = "wait" /\ held[t] = 0 /\ ~Stopping /\ tokens > 0
  /\ held' = [held EXCEPT ![t] = tokens]
  /\ UNCHANGED <<poolVars, tokens, dropped, idle, ticker, tally>>

\* Mutant: a plain store instead of the compare-exchange.
TakeTokenBlindly(t) ==
  /\ pc[t] = "wait" /\ held[t] > 0
  /\ held' = [held EXCEPT ![t] = 0]
  /\ Goto(t, "iter") /\ tokens' = held[t] - 1 /\ idle' = SatDec(idle) /\ started' = started + 1
  /\ UNCHANGED <<seen, deaths, active, flags, rdVars, spawned, paused, ctlVars>>
  /\ UNCHANGED <<dropped, ticker, reported>>

\* ... and take one by compare-exchange, which fails if the count moved.
TakeToken(t) ==
  /\ pc[t] = "wait" /\ held[t] > 0
  /\ held' = [held EXCEPT ![t] = 0]
  /\ \/ /\ tokens = held[t]
        /\ Goto(t, "iter")
        /\ tokens' = tokens - 1
        /\ idle' = SatDec(idle)
        /\ started' = started + 1
     \/ /\ tokens # held[t]
        /\ UNCHANGED <<pc, tokens, idle, started>>
  /\ UNCHANGED <<seen, deaths, active, flags, rdVars, spawned, paused, ctlVars>>
  /\ UNCHANGED <<dropped, ticker, reported>>

\* Mutant: an abort does not run the guard.
AbortKeepsIdle(t) ==
  /\ AbortTask(t)
  /\ held' = [held EXCEPT ![t] = 0]
  /\ UNCHANGED <<tokens, dropped, idle, ticker, tally>>

\* An aborted VU drops its IdleVusGuard too.
AbortWaiting(t) ==
  /\ AbortTask(t)
  /\ idle' = IF pc[t] = "wait" THEN SatDec(idle) ELSE idle
  /\ held' = [held EXCEPT ![t] = 0]
  /\ UNCHANGED <<tokens, dropped, ticker, tally>>

Vu(t) ==
  \/ BeginWait(t) \/ StopWaiting(t) \/ LoadTokens(t) \/ TakeToken(t) \/ AbortWaiting(t)
  \/ (StartVu(t) \/ InitFail(t) \/ LoopTop(t) \/ ReadRampDownTarget(t)) /\ UNCHANGED arrVars
  \/ (CompleteIteration(t) \/ Panic(t)) /\ UNCHANGED arrVars
  \/ (DropGuard(t) \/ DropLease(t) \/ FinishTask(t)) /\ UNCHANGED arrVars

-----------------------------------------------------------------------------
(* dropped_iterations: the sampler every 2 s, and the flush of run_vus     *)
(* once the executor returned, both by take_dropped_iterations.            *)

\* Mutant: the sampler reads the running total and does not reset it.
SampleRunningTotal ==
  /\ ctl # "flushed" /\ dropped > 0
  /\ reported' = reported + dropped
  /\ UNCHANGED <<poolVars, bucket, ticker, started>>

SampleDropped ==
  /\ ctl # "flushed" /\ dropped > 0
  /\ reported' = reported + dropped /\ dropped' = 0
  /\ UNCHANGED <<poolVars, tokens, idle, held, ticker, started>>

Flush ==
  /\ ctl = "done" /\ ctl' = "flushed"
  /\ reported' = reported + dropped /\ dropped' = 0
  /\ UNCHANGED <<vuVars, active, flags, rdVars, spawned, paused, aborted>>
  /\ UNCHANGED <<tokens, idle, held, ticker, started>>

-----------------------------------------------------------------------------

External == (RequestStop \/ RequestForceStop \/ TogglePaused) /\ UNCHANGED arrVars

Ending == RunTail /\ UNCHANGED arrVars

Next ==
  \/ Ticker \/ Ending \/ External \/ SampleDropped \/ Flush
  \/ \E t \in Task : Vu(t)

Fairness ==
  /\ WF_vars(PreSpawn \/ NothingToRun \/ Tick \/ AddTokens \/ LoadQueued \/ Grow \/ ReapTick)
  /\ WF_vars(LeaveTicks /\ stop)
  /\ WF_vars(Ending) /\ WF_vars(Flush)

Spec == Init /\ [][Next]_vars /\ Fairness

-----------------------------------------------------------------------------
(* Properties.                                                             *)

Handles == {t \in Task : pc[t] # "free"}
Waiting == {t \in Task : pc[t] = "wait"}

\* idle_vus counts exactly the VUs in the wait, so a count that leaked can never
\* look like spare capacity and stop the pool from growing.
IdleIsWaiting == idle = Cardinality(Waiting)

\* The bucket holds at most max_vus tokens, although the ticker adds to a count
\* it loaded earlier and VUs take tokens in between.
BucketBounded == tokens <= MaxVus

\* The executor holds current_vus handles, and never more than it may: dead VUs
\* are replaced one for one while the pool grows beside them.
PoolHeld ==
  ctl \in TickState =>
    /\ Cardinality(Handles) = cur
    /\ cur <= MaxVus \/ cur = AtLeastOne(PreAlloc)

\* Pressure is always answered: tokens nobody is idle for make the pool grow,
\* until it is at max_vus, whether or not the bucket is full.
PressureGrowsPool ==
  (ctl \in TickState /\ cur < MaxVus /\ tokens > idle)
    ~> (stop \/ ctl \notin TickState \/ cur = MaxVus \/ tokens <= idle)

\* The executor implements the ledger: nothing invented, lost or reported twice.
Ledger == INSTANCE ArrivalLedger WITH Cap <- MaxVus, queued <- tokens, lost <- dropped
LedgerSpec == Ledger!Spec

\* When a run in which no VU died or was aborted is over, every arrival that
\* fell due was started or reported as dropped.
EveryArrivalReported ==
  ctl = "flushed" /\ deaths = 0 /\ ~aborted => due = started + reported
=============================================================================
