----------------------------- MODULE RampingVus -----------------------------
(***************************************************************************)
(* VUScheduler::run_ramping: the pool follows a list of stage targets.     *)
(* run_constant is the instance with the single stage <<StartVus>>: its    *)
(* loop is the loop of a hold stage.                                       *)
(***************************************************************************)
EXTENDS VuPool, Sequences

CONSTANTS
  StartVus,    \* start_vus
  Stages,      \* the targets of the stages
  ZeroGraceRd  \* gracefulRampDown is "0s"

ASSUME RampAssumption ==
  /\ StartVus \in Nat
  /\ Stages \in Seq(Nat)
  /\ ZeroGraceRd \in BOOLEAN

VARIABLES
  stage,       \* index of the current stage
  cur,         \* current_vus
  step,        \* ramp-down steps armed in this stage
  real         \* the active count loaded for the final re-arm

rampVars == <<stage, cur, step, real>>
vars == <<poolVars, rampVars>>

CtlState == {"start", "stage", "up", "down", "rearm", "settle", "clear", "adopt", "retain",
             "hold", "stopping", "drain", "join", "done"}

TypeOK ==
  /\ PoolTypeOK
  /\ ctl \in CtlState
  /\ stage \in 1..Len(Stages) + 1
  /\ cur \in Nat /\ step \in Nat /\ real \in Nat

Init ==
  /\ PoolInit
  /\ ctl = "start"
  /\ stage = 1 /\ cur = 0 /\ step = 0 /\ real = 0

Target == Stages[stage]

-----------------------------------------------------------------------------

\* Slots a VU may be spawned in.  Once a stop is requested nothing reaps the
\* finished handles any more, so they are as good as free.
Spawnable(p) == {t \in Task : p[t] = "free" \/ (Stopping /\ p[t] = "finished")}

\* run_vu, n times.
Spawned(p, n) ==
  {[t \in Task |-> IF t \in T THEN "spawned" ELSE p[t]] :
     T \in {S \in SUBSET Spawnable(p) : Cardinality(S) = n}}

\* Mutant: the finished handles are dropped and nobody takes their place.
ReapOnly(p) == [t \in Task |-> IF p[t] = "finished" THEN "free" ELSE p[t]]

\* The respawn half of reap_and_respawn: one new VU for each finished handle.
Respawned(p) == [t \in Task |-> IF p[t] = "finished" THEN "spawned" ELSE p[t]]

\* reap_and_respawn: nothing while a stop is requested or a ramp-down is armed,
\* nor within 100 ms of the last scan.
Reap ==
  IF Stopping \/ rdTarget # MaxU32 THEN {pc} ELSE {pc, Respawned(pc)}

SpawnInitial ==
  /\ ctl = "start" /\ ctl' = "stage"
  /\ pc' \in Spawned(pc, StartVus)
  /\ cur' = StartVus
  /\ UNCHANGED <<seen, deaths, active, flags, rdVars, spawned, paused, aborted, stage, step, real>>

\* Mutant: a ramp-up that keeps the ramp-down of an earlier stage armed.
BeginStageArmed ==
  /\ ctl = "stage" /\ stage <= Len(Stages)
  /\ ctl' = IF Target > cur THEN "up" ELSE IF Target < cur THEN "down" ELSE "hold"
  /\ step' = 0
  /\ UNCHANGED <<vuVars, active, flags, rdVars, spawned, paused, aborted, stage, cur, real>>

\* A stage is a ramp-up, a ramp-down or a hold, by the current count.  No stop
\* is checked here.
BeginStage ==
  /\ ctl = "stage" /\ stage <= Len(Stages)
  /\ \/ Target > cur /\ ctl' = "up" /\ clear_ramp_down
     \/ Target < cur /\ ctl' = "down" /\ UNCHANGED rdVars
     \/ Target = cur /\ ctl' = "hold" /\ UNCHANGED rdVars
  /\ step' = 0
  /\ UNCHANGED <<vuVars, active, flags, spawned, paused, aborted, stage, cur, real>>

LastStage ==
  /\ ctl = "stage" /\ stage > Len(Stages)
  /\ ctl' = "stopping"
  /\ UNCHANGED <<vuVars, active, flags, rdVars, spawned, paused, aborted, rampVars>>

NextStage == ctl' = "stage" /\ stage' = stage + 1

\* Ramp-up: at each step replace the dead and spawn one more.
UpStep ==
  /\ ctl = "up" /\ cur < Target
  /\ \E p \in Reap : pc' \in Spawned(p, 1)
  /\ cur' = cur + 1
  /\ UNCHANGED <<seen, deaths, active, flags, rdVars, spawned, paused, ctlVars, stage, step, real>>

UpEnd ==
  /\ ctl = "up" /\ cur = Target
  /\ NextStage
  /\ UNCHANGED <<vuVars, active, flags, rdVars, spawned, paused, aborted, cur, step, real>>

\* Ramp-down: arm one surplus slot at each step ...
DownStep ==
  /\ ctl = "down" /\ step < cur - Target
  /\ step' = step + 1
  /\ arm_ramp_down_step(cur - step')
  /\ UNCHANGED <<vuVars, active, flags, spawned, paused, ctlVars, stage, cur, real>>

\* ... then load the live count ...
LoadReal ==
  /\ ctl = "down" /\ step = cur - Target
  /\ ctl' = "rearm" /\ real' = active
  /\ UNCHANGED <<vuVars, active, flags, rdVars, spawned, paused, aborted, stage, cur, step>>

\* ... and arm what it says is left.
Rearm ==
  /\ ctl = "rearm" /\ ctl' = "settle"
  /\ set_ramp_down_target(Target, real)
  /\ UNCHANGED <<vuVars, active, flags, spawned, paused, aborted, rampVars>>

\* wait_for_drain_while: the surplus left within gracefulRampDown ...
Settled ==
  /\ ctl = "settle" /\ ~ZeroGraceRd /\ active <= Target
  /\ ctl' = "clear"
  /\ UNCHANGED <<vuVars, active, flags, rdVars, spawned, paused, aborted, rampVars>>

Disarm ==
  /\ ctl = "clear" /\ ctl' = "retain"
  /\ clear_ramp_down
  /\ cur' = Target
  /\ UNCHANGED <<vuVars, active, flags, spawned, paused, aborted, stage, step, real>>

\* ... or not, and the ramp-down stays armed while the live count is adopted.
SettleExpired ==
  /\ ctl = "settle" /\ (ZeroGraceRd \/ active > Target)
  /\ ctl' = "adopt"
  /\ UNCHANGED <<vuVars, active, flags, rdVars, spawned, paused, aborted, rampVars>>

Adopt ==
  /\ ctl = "adopt" /\ ctl' = "retain"
  /\ cur' = active
  /\ UNCHANGED <<vuVars, active, flags, rdVars, spawned, paused, aborted, stage, step, real>>

\* The handles of the VUs that left are dropped.
Retain ==
  /\ ctl = "retain" /\ NextStage
  /\ pc' = [t \in Task |-> IF pc[t] = "finished" THEN "free" ELSE pc[t]]
  /\ UNCHANGED <<seen, deaths, active, flags, rdVars, spawned, paused, aborted, cur, step, real>>

\* A tick of a hold: replace the dead.
HoldTick ==
  /\ ctl = "hold" /\ ~stop
  /\ pc' \in Reap
  /\ UNCHANGED <<seen, deaths, active, flags, rdVars, spawned, paused, ctlVars, rampVars>>

\* The hold ends at its deadline or on a stop.
HoldEnd ==
  /\ ctl = "hold" /\ NextStage
  /\ UNCHANGED <<vuVars, active, flags, rdVars, spawned, paused, aborted, cur, step, real>>

Ramp ==
  \/ SpawnInitial \/ BeginStage \/ LastStage \/ UpStep \/ UpEnd \/ DownStep
  \/ LoadReal \/ Rearm \/ Settled \/ Disarm \/ SettleExpired \/ Adopt \/ Retain

-----------------------------------------------------------------------------

Vu(t) ==
  /\ VuStep(t) \/ PassGate(t, "iter") \/ CompleteIteration(t)
  /\ UNCHANGED rampVars

External == (RequestStop \/ RequestForceStop \/ TogglePaused) /\ UNCHANGED rampVars

Ending == RunTail /\ UNCHANGED rampVars

Next == Ramp \/ HoldTick \/ HoldEnd \/ Ending \/ External \/ \E t \in Task : Vu(t)

\* A tick that is not throttled and finds a dead VU.
Replace == HoldTick /\ pc' # pc

\* The executor's timers fire.  A hold lasts as long as the user asked, so its
\* end is only assured after a stop; its ticks come every 100 ms.
Fairness ==
  /\ WF_vars(Ramp) /\ WF_vars(Ending) /\ WF_vars(Replace)
  /\ WF_vars(HoldEnd /\ stop)
  /\ \A t \in Task : WF_vars(DropGuard(t) /\ UNCHANGED rampVars)
  /\ \A t \in Task : WF_vars(DropLease(t) /\ UNCHANGED rampVars)
  /\ \A t \in Task : WF_vars(FinishTask(t) /\ UNCHANGED rampVars)

Spec == Init /\ [][Next]_vars /\ Fairness

-----------------------------------------------------------------------------
(* Properties.                                                             *)

\* VUs that hold a handle and are not on their way out.
Pool == {t \in Task : pc[t] \in {"spawned", "init", "top", "read", "cas", "gate", "iter"}}
Handles == {t \in Task : pc[t] # "free"}

From(i) == IF i = 1 THEN StartVus ELSE Stages[i - 1]

\* Until the first ramp-down or a stop the executor holds exactly current_vus
\* handles: whatever dies, and whenever, is replaced one for one and never twice.
PoolHeld ==
  (ctl \in {"stage", "up", "hold"} /\ ~Stopping
     /\ \A i \in 1..stage : i <= Len(Stages) => From(i) <= Stages[i])
    => Cardinality(Handles) = cur

\* While the pool ramps up no VU leaves by a ramp-down claim: an earlier
\* ramp-down that never drained cannot eat the VUs of the grow stage, not even
\* through a VU that read the old target before it was cleared.
NoClaimWhileGrowing ==
  [][ctl = "up" => \A t \in Task : ~(pc[t] = "cas" /\ pc'[t] = "won")]_vars

\* Whoever requests the stop, the executor returns, even if a VU hangs.
StopEndsRun == stop ~> ctl = "done"

\* A VU that dies in a hold is replaced: the pool comes back to its size, unless
\* the hold ends first or a ramp-down is still armed.
DeadVuReplaced ==
  (ctl = "hold" /\ stage = 1 /\ Cardinality(Pool) < cur)
    ~> (ctl # "hold" \/ stop \/ Cardinality(Pool) = cur)

\* A ramp-down of a pool in which no VU died ends on its target, not below it.
SettlesOnTarget ==
  ctl = "retain" /\ deaths = 0 /\ ~Stopping => Cardinality(Pool) >= Target
=============================================================================
